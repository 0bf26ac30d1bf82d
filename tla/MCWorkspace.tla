----------------------------- MODULE MCWorkspace -----------------------------
(* Instances of the components of the agency's workspace for TLC.  A behaviour *)
(* is one of one component ("focus"): they share no state.                     *)
EXTENDS KanbanBoard, TaskPanel, WebSession, TimeTracking, Meetings, Proposals

VARIABLE focus

parts == <<kanbanVars, panelVars, sessionVars, timeVars, meetingsVars, proposalVars>>

\* The components that are not in focus stay in one initial state.
Resting ==
    /\ focus # "board" => mode = "serial" /\ place = CHOOSE f \in [Lists -> 0 .. 2] : IsInjective(f)
    /\ focus # "drawer" => \A k \in Cards : task[k] = CHOOSE f \in Fields : TRUE
    /\ focus # "time" => pacing = "serial"
    /\ focus # "meetings" => slotLength = 1

WorkspaceInit ==
    /\ focus \in {"board", "drawer", "session", "time", "meetings", "proposal"}
    /\ KanbanInit /\ PanelInit /\ SessionInit /\ TimeInit /\ MeetingsInit /\ ProposalInit
    /\ Resting

\* The components of the workspace do not step while clients are in focus, and vice versa.
OfClients == <<meetingsVars, proposalVars>>

OfStaff == <<kanbanVars, panelVars, sessionVars, timeVars>>

WorkspaceNext ==
    /\ UNCHANGED focus
    /\ \/ /\ UNCHANGED OfClients
          /\ \/ focus = "board" /\ KanbanNext /\ UNCHANGED <<panelVars, sessionVars, timeVars>>
             \/ focus = "drawer" /\ PanelNext /\ UNCHANGED <<kanbanVars, sessionVars, timeVars>>
             \/ focus = "session" /\ SessionNext /\ UNCHANGED <<kanbanVars, panelVars, timeVars>>
             \/ focus = "time" /\ TimeNext /\ UNCHANGED <<kanbanVars, panelVars, sessionVars>>
       \/ /\ UNCHANGED OfStaff
          /\ \/ focus = "meetings" /\ MeetingsNext /\ UNCHANGED proposalVars
             \/ focus = "proposal" /\ ProposalNext /\ UNCHANGED meetingsVars

WorkspaceSpec == WorkspaceInit /\ [][WorkspaceNext]_<<focus, parts>>

\* The type invariant of the component in focus; a card on a list that is there, and a
\* recipient who is shown no draft, among them.
WorkspaceTypeOK ==
    /\ focus = "board" => KanbanTypeOK
    /\ focus = "drawer" => PanelTypeOK
    /\ focus = "session" => SessionTypeOK
    /\ focus = "time" => TimeTypeOK
    /\ focus = "meetings" => MeetingsTypeOK
    /\ focus = "proposal" => ProposalTypeOK
=============================================================================

--------------------------- MODULE RealtimeSocket ---------------------------
(***************************************************************************)
(* The life of the event socket a component of the web application owns:   *)
(* hooks/useRealtimeSocket.ts, MessagingProvider.tsx and BoardProvider.tsx *)
(* run the same effect (ticket, socket, reconnect with backoff, cleanup)   *)
(* and differ in where its variables live.  React runs the effect when the *)
(* component mounts, cleans it up when it unmounts, and does both in one   *)
(* go when a dependency changes; what an earlier run of the effect left in *)
(* flight (a ticket being fetched, a socket being closed) then meets the   *)
(* variables of the later one.                                             *)
(*                                                                         *)
(* A run of the effect has at most one thing going on: a fetch, a timer or *)
(* a socket.  "task" records it.                                           *)
(***************************************************************************)
EXTENDS Integers, FiniteSets

CONSTANTS
    Owners,       \* the components considered, a subset of OwnerKinds
    MaxRuns,      \* bound on runs of the effect
    MaxDrops      \* bound on sockets lost and tickets refused

OwnerKinds == {"hook", "messaging", "board"}

ASSUME SocketAssumption ==
    /\ Owners \subseteq OwnerKinds
    /\ MaxRuns \in Nat /\ MaxDrops \in Nat

VARIABLES
    owner,        \* which component this is
    run,          \* number of the effect's latest run
    mounted,      \* the latest run has not been cleaned up
    closed,       \* the flag "closed" of each run
    task,         \* what each run has going on
    current,      \* socketRef: the run whose socket it holds, 0 for null
    drops         \* sockets lost and tickets refused so far

socketVars == <<owner, run, mounted, closed, task, current, drops>>

Runs == 1 .. MaxRuns

Tasks == {"none", "fetching", "waiting", "opening", "open", "closing"}

SocketTypeOK ==
    /\ owner \in OwnerKinds
    /\ run \in 0 .. MaxRuns
    /\ mounted \in BOOLEAN
    /\ closed \in [Runs -> BOOLEAN]
    /\ task \in [Runs -> Tasks]
    /\ current \in [Runs -> 0 .. MaxRuns]
    /\ drops \in 0 .. MaxDrops

-----------------------------------------------------------------------------
(* Where the variables live.                                               *)

\* Defect: "closed" is a ref that every run of the effect resets and shares.
SharedFlag(e) == Runs

\* BoardProvider's closedRef is one for all runs; the others declare a local.
SharingFlag(e) == IF owner = "board" THEN Runs ELSE {e}

\* The providers keep socket and timer in refs, the hook in locals.
SharingSocket(e) == IF owner = "hook" THEN {e} ELSE Runs

SetClosed(e, b) == [r \in Runs |-> IF r \in SharingFlag(e) THEN b ELSE closed[r]]

SetSocket(e, s) == [r \in Runs |-> IF r \in SharingSocket(e) THEN s ELSE current[r]]

\* clearTimeout: the timer that e's variables hold, if one is set.
NoTimer(e, t) ==
    [r \in Runs |-> IF r \in SharingSocket(e) /\ t[r] = "waiting" THEN "none" ELSE t[r]]

\* socket.close(): onclose comes later.
CloseSocket(s, t) ==
    [r \in Runs |-> IF r = s /\ t[r] \in {"opening", "open"} THEN "closing" ELSE t[r]]

\* Defect: nothing is tried again.
GivenUp(e) == [task EXCEPT ![e] = "none"]

\* scheduleReconnect, called by e when its own task is over.
Rescheduled(e) ==
    LET over == [task EXCEPT ![e] = "none"] IN
    IF closed[e] THEN over ELSE [NoTimer(e, over) EXCEPT ![e] = "waiting"]

-----------------------------------------------------------------------------

SocketInit ==
    /\ owner \in Owners
    /\ run = 0 /\ mounted = FALSE
    /\ closed = [r \in Runs |-> FALSE]
    /\ task = [r \in Runs |-> "none"]
    /\ current = [r \in Runs |-> 0]
    /\ drops = 0

\* The component mounts: connect() starts to fetch a ticket.
Mount ==
    /\ ~mounted /\ run < MaxRuns
    /\ run' = run + 1 /\ mounted' = TRUE
    /\ closed' = SetClosed(run + 1, FALSE)
    /\ task' = [task EXCEPT ![run + 1] = "fetching"]
    /\ UNCHANGED <<owner, current, drops>>

\* The state of timer and sockets when the latest run has been cleaned up.
CleanedUp == CloseSocket(current[run], NoTimer(run, task))

Unmount ==
    /\ mounted
    /\ mounted' = FALSE
    /\ closed' = SetClosed(run, TRUE)
    /\ task' = CleanedUp
    /\ current' = SetSocket(run, 0)
    /\ UNCHANGED <<owner, run, drops>>

\* A dependency changed: cleanup and the next run in one commit.  The flag of
\* the cleaned up run stays set unless the next run resets the same one.
Rerun ==
    /\ mounted /\ run < MaxRuns
    /\ run' = run + 1
    /\ closed' = [r \in Runs |->
                    IF r \in SharingFlag(run + 1) THEN FALSE ELSE SetClosed(run, TRUE)[r]]
    /\ task' = [CleanedUp EXCEPT ![run + 1] = "fetching"]
    /\ current' = SetSocket(run, 0)
    /\ UNCHANGED <<owner, mounted, drops>>

\* Defect: nobody looks at "closed" after the ticket has come.
NeverBails(e) == FALSE

\* "The ticket fetch is an async gap": BoardProvider goes on regardless.
Bails(e) == owner # "board" /\ closed[e]

TicketArrives(e) ==
    /\ task[e] = "fetching"
    /\ IF Bails(e)
       THEN task' = [task EXCEPT ![e] = "none"] /\ UNCHANGED current
       ELSE task' = [task EXCEPT ![e] = "opening"] /\ current' = SetSocket(e, e)
    /\ UNCHANGED <<owner, run, mounted, closed, drops>>

TicketRefused(e) ==
    /\ task[e] = "fetching"
    /\ drops < MaxDrops /\ drops' = drops + 1
    /\ task' = Rescheduled(e)
    /\ UNCHANGED <<owner, run, mounted, closed, current>>

SocketOpens(e) ==
    /\ task[e] = "opening"
    /\ task' = [task EXCEPT ![e] = "open"]
    /\ UNCHANGED <<owner, run, mounted, closed, current, drops>>

\* onclose: whichever socket it was, the handle is set to null.
OnClose(e) ==
    /\ current' = SetSocket(e, 0)
    /\ task' = Rescheduled(e)
    /\ UNCHANGED <<owner, run, mounted, closed>>

SocketCloses(e) == task[e] = "closing" /\ OnClose(e) /\ UNCHANGED drops

SocketLost(e) ==
    /\ task[e] \in {"opening", "open"}
    /\ drops < MaxDrops /\ drops' = drops + 1
    /\ OnClose(e)

\* connect(), called by the reconnect timer.
TimerFires(e) ==
    /\ task[e] = "waiting"
    /\ task' = [task EXCEPT ![e] = IF closed[e] THEN "none" ELSE "fetching"]
    /\ UNCHANGED <<owner, run, mounted, closed, current, drops>>

\* What the browser and the network do in the end, whatever the component does.
Progress(e) == TicketArrives(e) \/ SocketOpens(e) \/ SocketCloses(e) \/ TimerFires(e)

SocketNext ==
    \/ Mount \/ Unmount \/ Rerun
    \/ \E e \in Runs : Progress(e) \/ TicketRefused(e) \/ SocketLost(e)

SocketSpec == SocketInit /\ [][SocketNext]_socketVars

SocketFairness == \A e \in Runs : WF_socketVars(Progress(e))

SocketFairSpec == SocketSpec /\ SocketFairness

-----------------------------------------------------------------------------
(* Properties.                                                             *)

\* "Owns the one websocket" (BoardProvider.tsx, MessagingProvider.tsx): a socket
\* that nobody is closing belongs to the mounted component's latest run, so no
\* event is applied twice and none after unmount, whatever was in flight when
\* the effect was cleaned up or run again.
NoStraySocket ==
    \A e \in Runs : task[e] \in {"opening", "open"} => mounted /\ e = run

\* While the component stays mounted its socket comes back after every loss and
\* every refused ticket, and after every re-run of the effect.
SocketComesBack == mounted ~> (~mounted \/ task[run] = "open")
=============================================================================

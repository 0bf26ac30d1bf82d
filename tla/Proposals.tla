----------------------------- MODULE Proposals ------------------------------
(***************************************************************************)
(* One proposal from its draft to its decision: proposals/service.py,      *)
(* reached from the pages of the staff (ProposalForm.tsx,                  *)
(* ProposalActions.tsx), from the shared link and from the portal          *)
(* (PublicProposalActions.tsx, PortalProposalActions.tsx).                 *)
(*                                                                         *)
(* A request loads the row, decides by what it loaded, and commits later;  *)
(* nothing is locked, and the commit writes a status only if it differs    *)
(* from the one that was loaded.  A refused request is no step.            *)
(***************************************************************************)
EXTENDS Naturals

CONSTANTS
    Staff,          \* pages of the agency
    Readers,        \* pages of the recipient, by link or portal
    MaxAsked        \* bound on requests, and so on versions

ASSUME ProposalsAssumption == MaxAsked \in Nat /\ Staff \cap Readers = {}

VARIABLES
    status,         \* Proposal.status, or "gone" when it is deleted
    paper,          \* its line items and the row's totals, by version
    expired,        \* valid_until has passed
    signature,      \* the signature row: what its signer was shown
    sheet,          \* what each page shows, or NoSheet
    turn,           \* the request each page has under way
    crossed,        \* history: <<a, b>> if an a loaded the row before, and committed
                    \* after, a b committed
    asked           \* requests so far

proposalVars == <<status, paper, expired, signature, sheet, turn, crossed, asked>>

Pages == Staff \cup Readers

Versions == 0 .. MaxAsked

Kinds == {"edit", "delete", "send", "view", "sign", "decline"}

Statuses == {"draft", "sent", "viewed", "signed", "declined", "gone"}

\* PROPOSAL_CLOSED_STATUSES.
ClosedStatuses == {"signed", "declined"}

Papers == [lines: SUBSET Versions, total: Versions]

NoPaper == [lines |-> {}, total |-> 0]

NoSheet == [status |-> "none", paper |-> NoPaper]

NoTurn == [kind |-> "none", seen |-> "gone", paper |-> NoPaper, version |-> 0, met |-> {}]

Unsigned == [signed |-> FALSE, paper |-> NoPaper]

\* The recipient is never shown a draft.
ProposalTypeOK ==
    /\ status \in Statuses
    /\ paper \in Papers
    /\ expired \in BOOLEAN
    /\ signature \in [signed: BOOLEAN, paper: Papers]
    /\ sheet \in [Pages -> [status: Statuses \cup {"none", "expired"}, paper: Papers]]
    /\ \A p \in Readers : sheet[p].status # "draft"
    /\ turn \in [Pages -> [kind: Kinds \cup {"none"}, seen: Statuses, paper: Papers,
                           version: Versions, met: SUBSET Kinds]]
    /\ crossed \in SUBSET (Kinds \X Kinds)
    /\ asked \in 0 .. MaxAsked

\* create_proposal.
ProposalInit ==
    /\ status = "draft" /\ expired = FALSE
    /\ paper = [lines |-> {0}, total |-> 0]
    /\ signature = Unsigned
    /\ sheet = [p \in Pages |-> NoSheet]
    /\ turn = [p \in Pages |-> NoTurn]
    /\ crossed = {} /\ asked = 0

-----------------------------------------------------------------------------
(* Pages and requests.                                                     *)

\* display_status.
DisplayStatus(s) == IF s \in {"sent", "viewed"} /\ expired THEN "expired" ELSE s

\* Of what the staff is shown only the status matters: the form is sent as a whole.
Present(p) == [status |-> DisplayStatus(status),
               paper |-> IF p \in Readers THEN paper ELSE NoPaper]

\* Defect: drafts are shown.
AnyoneReads == status # "gone"

\* A draft, like a proposal that is not there, is answered with 404.
Readable == status \notin {"draft", "gone"}

\* The detail page or the edit form of the staff, which offer nothing but for a draft, or
\* the portal's page.
OpenPage(p) ==
    /\ turn[p] = NoTurn
    /\ IF p \in Readers THEN Readable ELSE status = "draft"
    /\ sheet' = [sheet EXCEPT ![p] = Present(p)]
    /\ UNCHANGED <<status, paper, expired, signature, turn, crossed, asked>>

Loads(p, kind, version) ==
    /\ turn[p] = NoTurn
    /\ turn' = [turn EXCEPT ![p] = [kind |-> kind, seen |-> status, paper |-> paper,
                                    version |-> version, met |-> {}]]
    /\ asked < MaxAsked /\ asked' = asked + 1
    /\ UNCHANGED <<status, paper, expired, signature, sheet, crossed>>

\* The shared link: get_public_proposal.
OpenLink(p) ==
    /\ p \in Readers /\ Readable
    /\ Loads(p, "view", 0)

Undecided == status \notin ClosedStatuses \cup {"gone"}

\* Defect: a proposal may be edited until it is decided.
UntilDecided == Undecided

\* _require_draft, and the same condition in delete_proposal.
IsDraft == status = "draft"

\* The staff's page offers its buttons for a draft, and the service checks again.
AskEdit(p) ==
    /\ p \in Staff /\ sheet[p].status = "draft"
    /\ IsDraft
    /\ Loads(p, "edit", asked + 1)

AskDelete(p) ==
    /\ p \in Staff /\ sheet[p].status = "draft"
    /\ IsDraft
    /\ Loads(p, "delete", 0)

AskSend(p) ==
    /\ p \in Staff /\ sheet[p].status = "draft"
    /\ Undecided /\ paper.lines # {}
    /\ Loads(p, "send", 0)

\* The recipient's page offers its buttons while a decision is awaited.
AskSign(p) ==
    /\ p \in Readers /\ sheet[p].status \in {"sent", "viewed"}
    /\ Undecided /\ DisplayStatus(status) # "expired"
    /\ Loads(p, "sign", 0)

AskDecline(p) ==
    /\ p \in Readers /\ sheet[p].status \in {"sent", "viewed"}
    /\ Undecided
    /\ Loads(p, "decline", 0)

\* The DELETE of _replace_line_items takes the lines of its moment: those that were
\* there at the loading, or later ones.
SeeLines(p) ==
    /\ turn[p].kind = "edit"
    /\ turn' = [turn EXCEPT ![p].paper.lines = paper.lines]
    /\ UNCHANGED <<status, paper, expired, signature, sheet, crossed, asked>>

-----------------------------------------------------------------------------
(* Commits.                                                                *)

\* Defect: whoever opens the link makes it "viewed".
AnyView(t) == t.kind = "view"

\* record_view: the first view only.
FirstView(t) == t.kind = "view" /\ t.seen = "sent"

\* The status that the request gives the row it has loaded.
Given(t) ==
    CASE t.kind = "send"    -> "sent"
      [] t.kind = "sign"    -> "signed"
      [] t.kind = "decline" -> "declined"
      [] FirstView(t)       -> "viewed"
      [] OTHER              -> t.seen

Writes(t) == t.kind \in {"edit", "delete"} \/ Given(t) # t.seen

\* There is no row to update, or the unique signature is there already.
CannotCommit(t) == \/ status = "gone" /\ (t.kind # "view" \/ FirstView(t))
                   \/ t.kind = "sign" /\ signature.signed

Rewrite(t) ==
    CASE t.kind = "edit"   -> [lines |-> (paper.lines \ t.paper.lines) \cup {t.version},
                               total |-> t.version]
      [] t.kind = "delete" -> NoPaper
      [] OTHER             -> paper

\* What a visitor is shown: the row as loaded, or as refreshed after the first view.
Viewed(t) ==
    [status |-> DisplayStatus(IF FirstView(t) THEN "viewed" ELSE t.seen),
     paper  |-> [lines |-> paper.lines,
                 total |-> IF FirstView(t) THEN paper.total ELSE t.paper.total]]

\* The other requests under way have met this one.
MetBy(p, t) ==
    [q \in Pages |-> IF q = p THEN NoTurn
                     ELSE IF turn[q] = NoTurn \/ ~Writes(t) THEN turn[q]
                     ELSE [turn[q] EXCEPT !.met = @ \cup {t.kind}]]

\* The commit and the answer; an answer that gets lost leaves the page as it was.
CommitTurn(p) ==
    LET t == turn[p] IN
    /\ t.kind # "none" /\ ~CannotCommit(t)
    /\ status' = IF t.kind = "delete" THEN "gone"
                 ELSE IF Given(t) # t.seen THEN Given(t) ELSE status
    /\ paper' = Rewrite(t)
    /\ \/ UNCHANGED expired
       \/ t.kind = "edit" /\ expired' = FALSE
    /\ signature' = IF t.kind = "sign" THEN [signed |-> TRUE, paper |-> sheet[p].paper]
                    ELSE IF t.kind = "delete" THEN Unsigned ELSE signature
    /\ \/ sheet' = [sheet EXCEPT ![p] = IF t.kind = "view" THEN Viewed(t) ELSE NoSheet]
       \/ UNCHANGED sheet
    /\ crossed' = IF Writes(t) THEN crossed \cup ({t.kind} \X t.met) ELSE crossed
    /\ turn' = MetBy(p, t)
    /\ UNCHANGED asked

\* A request that cannot commit, or dies before, leaves nothing behind.
Abort(p) ==
    /\ turn[p] # NoTurn
    /\ turn' = [turn EXCEPT ![p] = NoTurn]
    /\ UNCHANGED <<status, paper, expired, signature, sheet, crossed, asked>>

Expire ==
    /\ ~expired /\ expired' = TRUE
    /\ UNCHANGED <<status, paper, signature, sheet, turn, crossed, asked>>

ProposalNext ==
    \/ \E p \in Pages :
        \/ OpenPage(p) \/ OpenLink(p) \/ SeeLines(p) \/ CommitTurn(p) \/ Abort(p)
        \/ AskEdit(p) \/ AskDelete(p) \/ AskSend(p) \/ AskSign(p) \/ AskDecline(p)
    \/ Expire

ProposalSpec == ProposalInit /\ [][ProposalNext]_proposalVars

-----------------------------------------------------------------------------
(* Properties.                                                             *)

\* "A draft is freely editable; once sent, only status transitions apply": what the
\* recipient was shown and signed is what the agency holds, with the total of its
\* lines, unless an edit let the sending, or another edit, overtake it.
SignedAsShown ==
    signature.signed =>
        /\ <<"edit", "send">> \notin crossed => signature.paper = paper
        /\ <<"edit", "edit">> \notin crossed => paper.lines = {paper.total}

LateCommit(p) == /\ turn[p] # NoTurn /\ turn'[p] = NoTurn
                 /\ turn[p].met \cap {"sign", "decline"} # {}

\* A decision is undone, replaced or deleted only by a request that had loaded the
\* proposal before a decision was committed: stale pages alone cannot do it.
DecisionStands ==
    [][status' # status /\ status \in ClosedStatuses => \E p \in Pages : LateCommit(p)]_proposalVars

\* "Once in one of these, a proposal is closed — no more edits, no more status
\* transitions" (PROPOSAL_CLOSED_STATUSES).
ClosedIsFinal ==
    [][<<status, paper>>' # <<status, paper>> => status \notin ClosedStatuses]_proposalVars
=============================================================================

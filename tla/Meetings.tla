------------------------------ MODULE Meetings ------------------------------
(***************************************************************************)
(* The meetings of one agency: meetings/service.py, reached by staff       *)
(* (meetings/router.py, ScheduleMeetingForm.tsx, MeetingsTable.tsx) and by *)
(* clients (client_portal/router.py, BookMeetingDialog.tsx).               *)
(*                                                                         *)
(* Booking and rescheduling take an advisory lock, look for an overlapping *)
(* meeting and commit under the lock.  Everything else that writes a       *)
(* meeting does so without it, and every request writes the columns that   *)
(* differ from what it loaded.  Whoever changes a meeting for the client   *)
(* tells the client, after the commit and from the row as it is then.      *)
(*                                                                         *)
(* A request that is refused on other grounds (notice window, self booking *)
(* switched off, wrong client) is no step.                                 *)
(***************************************************************************)
EXTENDS Naturals, FiniteSets

CONSTANTS
    MeetingIds,
    Requests,
    NoMeeting,      \* a request that works on none
    Starts,         \* times at which a meeting may be asked for
    Lengths,        \* values of slot_minutes
    MaxCalls,       \* bound on requests
    MaxResizes,     \* bound on changes of the slot length
    MaxDeaths      \* bound on requests that die

ASSUME MeetingsAssumption ==
    /\ NoMeeting \notin MeetingIds
    /\ Starts \subseteq Nat /\ Starts # {}
    /\ Lengths \subseteq Nat \ {0} /\ Lengths # {}
    /\ MaxCalls \in Nat /\ MaxResizes \in Nat /\ MaxDeaths \in Nat

VARIABLES
    slotLength,     \* agency_meeting_settings.slot_minutes
    meeting,        \* the committed rows of meetings
    told,           \* what the client last heard about each meeting
    serving,        \* the requests being served
    unchecked,      \* history: meetings whose time no overlap check has looked at
    disturbed,      \* history: meetings with overlapping requests, or one that died
    tally           \* requests, changes of the slot length and crashes so far

meetingsVars == <<slotLength, meeting, told, serving, unchecked, disturbed, tally>>

Times == Starts \cup {0}

Ends == {s + l : s \in Starts, l \in Lengths} \cup {0}

MeetingRows == [status: {"none", "scheduled", "cancelled"}, starts: Times, ends: Ends]

News == [status: {"none", "scheduled", "cancelled"}, starts: Times]

MeetingCalls ==
    [op: {"none", "book", "edit", "cancel"},
     at: {"loaded", "ready", "checked", "committed", "reread"},
     id: MeetingIds \cup {NoMeeting},
     seen: MeetingRows, new: MeetingRows, moves: BOOLEAN]

MeetingsTypeOK ==
    /\ slotLength \in Lengths
    /\ meeting \in [MeetingIds -> MeetingRows]
    /\ told \in [MeetingIds -> News]
    /\ serving \in [Requests -> MeetingCalls]
    /\ unchecked \in SUBSET MeetingIds
    /\ disturbed \in SUBSET MeetingIds
    /\ tally \in [calls: 0 .. MaxCalls, resizes: 0 .. MaxResizes, crashes: 0 .. MaxDeaths]

-----------------------------------------------------------------------------

NoRow == [status |-> "none", starts |-> 0, ends |-> 0]

NoRequest == [op |-> "none", at |-> "loaded", id |-> NoMeeting,
              seen |-> NoRow, new |-> NoRow, moves |-> FALSE]

Scheduled == {m \in MeetingIds : meeting[m].status = "scheduled"}

\* The query's condition: existing.starts_at < ends_at and existing.ends_at > starts_at.
Overlap(a, b) == a.starts < b.ends /\ a.ends > b.starts

MeetingsInit ==
    /\ slotLength \in Lengths
    /\ meeting = [m \in MeetingIds |-> NoRow]
    /\ told = [m \in MeetingIds |-> [status |-> "none", starts |-> 0]]
    /\ serving = [r \in Requests |-> NoRequest]
    /\ unchecked = {} /\ disturbed = {}
    /\ tally = [calls |-> 0, resizes |-> 0, crashes |-> 0]

-----------------------------------------------------------------------------
(* Requests.                                                               *)

\* Defect: whether the meeting moves is told from its end.
MovesByEnd(seen, starts) == starts + slotLength # seen.ends

\* rescheduled = starts_at != meeting.starts_at.
Moves(seen, starts) == starts # seen.starts

BusyOn(m) == {r \in Requests : serving[r].id = m}

Begin(r, op, at, m, new, moves) ==
    /\ serving[r] = NoRequest
    /\ tally.calls < MaxCalls /\ tally' = [tally EXCEPT !.calls = @ + 1]
    /\ serving' = [serving EXCEPT
                     ![r] = [op |-> op, at |-> at, id |-> m, seen |-> meeting[m],
                             new |-> new, moves |-> moves]]
    /\ disturbed' = IF BusyOn(m) = {} THEN disturbed ELSE disturbed \cup {m}
    /\ UNCHANGED <<slotLength, meeting, told, unchecked>>

\* book_slot, by staff or client.
Book(r, m, starts) ==
    /\ meeting[m].status = "none" /\ BusyOn(m) = {}
    /\ Begin(r, "book", "loaded", m,
             [status |-> "scheduled", starts |-> starts, ends |-> 0], TRUE)

\* update_meeting, by staff; the form sends the time whether or not it was changed.
Edit(r, m, starts) ==
    /\ m \in Scheduled
    /\ Begin(r, "edit", "loaded", m, [meeting[m] EXCEPT !.starts = starts],
             Moves(meeting[m], starts))

\* cancel_meeting, by staff or client.
CancelMeeting(r, m) ==
    /\ m \in Scheduled
    /\ Begin(r, "cancel", "ready", m, [meeting[m] EXCEPT !.status = "cancelled"], FALSE)

\* Defect: the end is moved on from the old end.
LaterEnd(c) == c.seen.ends + slotLength

\* starts_at + timedelta(minutes=settings.slot_minutes).
EndOf(c) == c.new.starts + slotLength

\* get_or_create_meeting_settings, and the end that follows from the slot length.
ReadSettings(r) ==
    /\ serving[r].op \in {"book", "edit"} /\ serving[r].at = "loaded"
    /\ serving' = [serving EXCEPT ![r].at = "ready", ![r].new.ends = EndOf(serving[r])]
    /\ UNCHANGED <<slotLength, meeting, told, unchecked, disturbed, tally>>

\* Defect: the lock is not waited for.
Unlocked(r) == TRUE

\* pg_advisory_xact_lock: held by a request between its check and its commit.
LockFree(r) == \A q \in Requests \ {r} : serving[q].at # "checked"

Conflict(c) == \E m \in Scheduled \ {c.id} : Overlap(meeting[m], c.new)

\* A conflict is answered with 409, several with 500; either way the transaction ends.
CheckOverlap(r) ==
    /\ serving[r].moves /\ serving[r].at = "ready" /\ LockFree(r)
    /\ serving' = [serving EXCEPT
                     ![r] = IF Conflict(serving[r]) THEN NoRequest
                            ELSE [serving[r] EXCEPT !.at = "checked"]]
    /\ UNCHANGED <<slotLength, meeting, told, unchecked, disturbed, tally>>

\* Defect: every column is written back.
WriteAll(row, c) == c.new

\* The flush: an INSERT, or an UPDATE of the columns that differ from what was loaded.
Flushed(row, c) ==
    [status |-> IF c.new.status # c.seen.status THEN c.new.status ELSE row.status,
     starts |-> IF c.op = "book" \/ c.new.starts # c.seen.starts
                THEN c.new.starts ELSE row.starts,
     ends   |-> IF c.op = "book" \/ c.new.ends # c.seen.ends
                THEN c.new.ends ELSE row.ends]

Span(row) == <<row.starts, row.ends>>

\* The commit, which frees the lock.
CommitMeeting(r) ==
    LET c == serving[r]
        row == Flushed(meeting[c.id], c)
    IN
    /\ c.op # "none"
    /\ c.at = IF c.moves THEN "checked" ELSE "ready"
    /\ meeting' = [meeting EXCEPT ![c.id] = row]
    /\ unchecked' =
         IF c.moves /\ Span(row) = Span(c.new) THEN unchecked \ {c.id}
         ELSE IF Span(row) = Span(meeting[c.id]) THEN unchecked ELSE unchecked \cup {c.id}
    /\ serving' = [serving EXCEPT ![r].at = "committed"]
    /\ UNCHANGED <<slotLength, told, disturbed, tally>>

\* db.refresh(meeting).
Reread(r) ==
    /\ serving[r].at = "committed"
    /\ serving' = [serving EXCEPT ![r].at = "reread", ![r].new = meeting[serving[r].id]]
    /\ UNCHANGED <<slotLength, meeting, told, unchecked, disturbed, tally>>

\* Notification and e-mail to the client, or the answer to the client's own request.
Tell(r) ==
    LET c == serving[r] IN
    /\ c.at = "reread"
    /\ told' = IF c.op = "cancel" \/ c.moves
               THEN [told EXCEPT ![c.id] =
                       [status |-> IF c.op = "cancel" THEN "cancelled" ELSE "scheduled",
                        starts |-> c.new.starts]]
               ELSE told
    /\ serving' = [serving EXCEPT ![r] = NoRequest]
    /\ UNCHANGED <<slotLength, meeting, unchecked, disturbed, tally>>

\* update_meeting_settings.
Resize(length) ==
    /\ length # slotLength /\ slotLength' = length
    /\ tally.resizes < MaxResizes /\ tally' = [tally EXCEPT !.resizes = @ + 1]
    /\ UNCHANGED <<meeting, told, serving, unchecked, disturbed>>

\* A request dies, and with it its transaction and its lock.
Die(r) ==
    /\ serving[r].op # "none"
    /\ tally.crashes < MaxDeaths /\ tally' = [tally EXCEPT !.crashes = @ + 1]
    /\ disturbed' = disturbed \cup {serving[r].id}
    /\ serving' = [serving EXCEPT ![r] = NoRequest]
    /\ UNCHANGED <<slotLength, meeting, told, unchecked>>

MeetingsNext ==
    \/ \E r \in Requests :
        \/ ReadSettings(r) \/ CheckOverlap(r) \/ CommitMeeting(r)
        \/ Reread(r) \/ Tell(r) \/ Die(r)
        \/ \E m \in MeetingIds :
            \/ CancelMeeting(r, m)
            \/ \E starts \in Starts : Book(r, m, starts) \/ Edit(r, m, starts)
    \/ \E length \in Lengths : Resize(length)

MeetingsSpec == MeetingsInit /\ [][MeetingsNext]_meetingsVars

-----------------------------------------------------------------------------
(* Properties.                                                             *)

Clash(m, n) == m # n /\ {m, n} \subseteq Scheduled /\ Overlap(meeting[m], meeting[n])

\* "guarding against a double-booking race" (book_slot): two scheduled meetings overlap
\* only if the time of one was written without a check of exactly that time.
NoDoubleBooking ==
    \A m, n \in MeetingIds : Clash(m, n) => m \in unchecked \/ n \in unchecked

\* While nobody changes the slot length, no overlap of requests, edits without the lock
\* and stale rows among them, gives a meeting a time that was not checked or a length
\* that is not a slot's.
OnlyResizingUnchecks ==
    tally.resizes = 0 =>
        /\ unchecked = {}
        /\ \A m \in MeetingIds :
             meeting[m].status # "none" => meeting[m].ends = meeting[m].starts + slotLength

\* The client's last word on a meeting agrees with the row, once its requests are over,
\* unless they overlapped or one died.
ClientKnows ==
    \A m \in MeetingIds \ disturbed :
        BusyOn(m) = {} => /\ told[m].status = meeting[m].status
                          /\ told[m].starts = meeting[m].starts

\* "staff shouldn't be able to double-book either" (book_slot).
NobodyDoubleBooks == \A m, n \in MeetingIds : ~Clash(m, n)
=============================================================================

---------------------------- MODULE ClientProofs ----------------------------
(***************************************************************************)
(* Proofs about what clients and the agency do to one another: Meetings    *)
(* (the lock keeps checked meetings apart, only a change of the slot length *)
(* brings in a time that was not checked, and the client's last word is the *)
(* row's) and Proposals (what is signed is what was shown, a decision stands, *)
(* a closed proposal is final), for any number of requests and readers.    *)
(***************************************************************************)
EXTENDS Meetings, Proposals, TLAPS

-----------------------------------------------------------------------------
(* Meetings.                                                               *)

USE MeetingsAssumption DEF MeetingsAssumption

-----------------------------------------------------------------------------
(* Types.                                                                  *)

LEMMA TimesAreNumbers == Times \subseteq Nat /\ Ends \subseteq Nat
BY DEF Times, Ends

LEMMA NoCallType == NoRequest \in MeetingCalls /\ NoRow \in MeetingRows /\ NoRequest.op = "none"
                    /\ NoRequest.id = NoMeeting /\ NoRequest.at = "loaded"
BY DEF NoRequest, NoRow, MeetingCalls, MeetingRows, Times, Ends

LEMMA InitTypes == MeetingsInit => MeetingsTypeOK
BY NoCallType DEF MeetingsInit, MeetingsTypeOK, News, Times

LEMMA EndType ==
    ASSUME MeetingsTypeOK, NEW s \in Starts
    PROVE  s + slotLength \in Ends
BY DEF MeetingsTypeOK, Ends

\* What a request that begins does to the state.
Begun(r, c) ==
    /\ serving[r] = NoRequest /\ serving' = [serving EXCEPT ![r] = c]
    /\ c \in MeetingCalls /\ c.seen = meeting[c.id] /\ c.id \in MeetingIds
    /\ disturbed' = IF BusyOn(c.id) = {} THEN disturbed ELSE disturbed \cup {c.id}
    /\ tally' \in [calls: 0 .. MaxCalls, resizes: 0 .. MaxResizes, crashes: 0 .. MaxDeaths]
    /\ tally'.resizes = tally.resizes
    /\ UNCHANGED <<slotLength, meeting, told, unchecked>>

\* The three ways to begin.
Fresh(c) ==
    \/ /\ c.op = "book" /\ c.at = "loaded" /\ c.moves
       /\ c.seen.status = "none" /\ c.new.status = "scheduled" /\ c.new.starts \in Starts
    \/ /\ c.op = "edit" /\ c.at = "loaded" /\ c.moves = (c.new.starts # c.seen.starts)
       /\ c.seen.status = "scheduled" /\ c.new.status = "scheduled" /\ c.new.starts \in Starts
    \/ /\ c.op = "cancel" /\ c.at = "ready" /\ ~c.moves
       /\ c.seen.status = "scheduled" /\ c.new = [c.seen EXCEPT !.status = "cancelled"]

Asks(r) ==
    \E m \in MeetingIds :
        \/ CancelMeeting(r, m)
        \/ \E starts \in Starts : Book(r, m, starts) \/ Edit(r, m, starts)

LEMMA BeginEffect ==
    ASSUME MeetingsTypeOK, NEW r \in Requests, NEW m \in MeetingIds,
           NEW op \in {"book", "edit", "cancel"}, NEW at \in {"loaded", "ready"},
           NEW new \in MeetingRows, NEW moves \in BOOLEAN, Begin(r, op, at, m, new, moves)
    PROVE  LET c == [op |-> op, at |-> at, id |-> m, seen |-> meeting[m],
                     new |-> new, moves |-> moves]
           IN Begun(r, c)
<1>. DEFINE c == [op |-> op, at |-> at, id |-> m, seen |-> meeting[m],
                  new |-> new, moves |-> moves]
<1>1. c \in MeetingCalls /\ c.seen = meeting[c.id] /\ c.id \in MeetingIds
  BY DEF MeetingCalls, MeetingsTypeOK
<1>2. /\ tally' \in [calls: 0 .. MaxCalls, resizes: 0 .. MaxResizes, crashes: 0 .. MaxDeaths]
      /\ tally'.resizes = tally.resizes
  BY DEF Begin, MeetingsTypeOK
<1>. QED
  BY <1>1, <1>2 DEF Begin, Begun

LEMMA AskEffect ==
    ASSUME MeetingsTypeOK, NEW r \in Requests, Asks(r)
    PROVE  \E c : Begun(r, c) /\ Fresh(c)
<1>1. ASSUME NEW m \in MeetingIds, CancelMeeting(r, m)
      PROVE  \E c : Begun(r, c) /\ Fresh(c)
  <2>. DEFINE new == [meeting[m] EXCEPT !.status = "cancelled"]
  <2>1. new \in MeetingRows
    BY DEF MeetingsTypeOK, MeetingRows
  <2>2. Begin(r, "cancel", "ready", m, new, FALSE) /\ meeting[m].status = "scheduled"
    BY <1>1 DEF CancelMeeting, Scheduled
  <2>. HIDE DEF new
  <2>. DEFINE c == [op |-> "cancel", at |-> "ready", id |-> m, seen |-> meeting[m],
                    new |-> new, moves |-> FALSE]
  <2>3. Begun(r, c)
    BY <2>1, <2>2, BeginEffect
  <2>4. Fresh(c)
    BY <2>2 DEF Fresh, new
  <2>. QED
    BY <2>3, <2>4
<1>2. ASSUME NEW m \in MeetingIds, NEW s \in Starts, Book(r, m, s)
      PROVE  \E c : Begun(r, c) /\ Fresh(c)
  <2>. DEFINE new == [status |-> "scheduled", starts |-> s, ends |-> 0]
  <2>1. new \in MeetingRows
    BY DEF MeetingRows, Times, Ends
  <2>2. Begin(r, "book", "loaded", m, new, TRUE) /\ meeting[m].status = "none"
    BY <1>2 DEF Book
  <2>. HIDE DEF new
  <2>. DEFINE c == [op |-> "book", at |-> "loaded", id |-> m, seen |-> meeting[m],
                    new |-> new, moves |-> TRUE]
  <2>3. Begun(r, c)
    BY <2>1, <2>2, BeginEffect
  <2>4. Fresh(c)
    BY <2>2 DEF Fresh, new
  <2>. QED
    BY <2>3, <2>4
<1>3. ASSUME NEW m \in MeetingIds, NEW s \in Starts, Edit(r, m, s)
      PROVE  \E c : Begun(r, c) /\ Fresh(c)
  <2>. DEFINE new == [meeting[m] EXCEPT !.starts = s]
              moves == s # meeting[m].starts
  <2>1. new \in MeetingRows /\ new.starts = s /\ new.status = meeting[m].status
    BY DEF MeetingsTypeOK, MeetingRows, Times
  <2>2. Begin(r, "edit", "loaded", m, new, moves) /\ meeting[m].status = "scheduled"
    BY <1>3 DEF Edit, Scheduled, Moves
  <2>3. moves \in BOOLEAN
    OBVIOUS
  <2>. HIDE DEF new
  <2>. DEFINE c == [op |-> "edit", at |-> "loaded", id |-> m, seen |-> meeting[m],
                    new |-> new, moves |-> moves]
  <2>4. Begun(r, c)
    <3>. HIDE DEF moves
    <3>. QED
      BY <2>1, <2>2, <2>3, BeginEffect
  <2>5. Fresh(c)
    BY <2>1, <2>2 DEF Fresh
  <2>. QED
    BY <2>4, <2>5
<1>. QED
  BY <1>1, <1>2, <1>3 DEF Asks

-----------------------------------------------------------------------------
(* The shape of a request.                                                 *)

Pending == {"loaded", "ready", "checked"}

Shape(c) ==
    \/ /\ c.op = "book" /\ c.moves
       /\ c.seen.status = "none" /\ c.new.status = "scheduled"
    \/ /\ c.op = "edit" /\ c.moves = (c.new.starts # c.seen.starts)
       /\ c.seen.status = "scheduled" /\ c.new.status = "scheduled"
    \/ /\ c.op = "cancel" /\ ~c.moves
       /\ c.seen.status = "scheduled" /\ c.new = [c.seen EXCEPT !.status = "cancelled"]

CallOK(c) ==
    /\ c.op = "none" => c = NoRequest
    /\ c.op # "none" => c.id \in MeetingIds
    /\ c.op # "none" /\ c.at = "loaded" => c.new.starts \in Starts
    /\ c.op # "none" /\ c.at \in Pending => Shape(c)
    /\ c.op = "cancel" => c.at \notin {"loaded", "checked"} /\ ~c.moves
    /\ c.op = "book" => c.moves
    /\ c.at = "checked" => c.moves

CallsOK == \A r \in Requests : CallOK(serving[r])

Basics == MeetingsTypeOK /\ CallsOK

LEMMA NoCallOK == CallOK(NoRequest)
BY DEF CallOK, NoRequest

LEMMA InitBasics == MeetingsInit => Basics
BY InitTypes, NoCallOK DEF Basics, CallsOK, MeetingsInit

LEMMA RowType ==
    ASSUME Basics, NEW r \in Requests, serving[r].op # "none"
    PROVE  Flushed(meeting[serving[r].id], serving[r]) \in MeetingRows
<1>1. meeting[serving[r].id] \in MeetingRows /\ serving[r] \in MeetingCalls
  BY DEF Basics, CallsOK, CallOK, MeetingsTypeOK
<1>. QED
  BY <1>1 DEF Flushed, MeetingCalls, MeetingRows

LEMMA AskBasics == ASSUME Basics, NEW r \in Requests, Asks(r) PROVE Basics'
<1>1. PICK c : Begun(r, c) /\ Fresh(c)
  BY AskEffect DEF Basics
<1>2. MeetingsTypeOK'
  BY <1>1 DEF Begun, Basics, MeetingsTypeOK
<1>3. CallOK(c)
  BY <1>1, NoCallType DEF Begun, Fresh, CallOK, Shape, Pending
<1>4. CallsOK'
  BY <1>1, <1>3 DEF Begun, Basics, CallsOK, MeetingsTypeOK
<1>. QED
  BY <1>2, <1>4 DEF Basics

LEMMA ReadBasics == ASSUME Basics, NEW r \in Requests, ReadSettings(r) PROVE Basics'
<1>. DEFINE c == serving[r]
            d == [c EXCEPT !.at = "ready", !.new = [c.new EXCEPT !.ends = EndOf(c)]]
<1>1. c \in MeetingCalls /\ c.op \in {"book", "edit"} /\ c.at = "loaded" /\ CallOK(c)
  BY DEF ReadSettings, Basics, CallsOK, MeetingsTypeOK
<1>2. c.new.starts \in Starts /\ Shape(c)
  BY <1>1 DEF CallOK, Pending
<1>3. EndOf(c) \in Ends
  BY <1>2, EndType DEF EndOf, Basics
<1>4. serving' = [serving EXCEPT ![r] = d]
  BY <1>1 DEF ReadSettings, Basics, MeetingsTypeOK, MeetingCalls
<1>5. /\ d \in MeetingCalls /\ d.op = c.op /\ d.at = "ready" /\ d.id = c.id /\ d.seen = c.seen
      /\ d.moves = c.moves /\ d.new.starts = c.new.starts /\ d.new.status = c.new.status
  BY <1>1, <1>3 DEF MeetingCalls, MeetingRows
<1>. HIDE DEF c, d
<1>6. CallOK(d)
  BY <1>1, <1>2, <1>5 DEF CallOK, Shape, Pending
<1>7. MeetingsTypeOK'
  BY <1>4, <1>5 DEF ReadSettings, Basics, MeetingsTypeOK
<1>. QED
  BY <1>4, <1>6, <1>7 DEF Basics, CallsOK, MeetingsTypeOK

LEMMA CheckBasics == ASSUME Basics, NEW r \in Requests, CheckOverlap(r) PROVE Basics'
<1>. DEFINE c == serving[r]
            d == [c EXCEPT !.at = "checked"]
<1>1. c \in MeetingCalls /\ c.moves /\ c.at = "ready" /\ CallOK(c)
  BY DEF CheckOverlap, Basics, CallsOK, MeetingsTypeOK
<1>2. c.op \in {"book", "edit"}
  BY <1>1 DEF CallOK, NoRequest, MeetingCalls
<1>3. d \in MeetingCalls /\ CallOK(d)
  BY <1>1, <1>2 DEF MeetingCalls, CallOK, Shape, Pending
<1>4. \E e \in {d, NoRequest} : serving' = [serving EXCEPT ![r] = e]
  BY DEF CheckOverlap
<1>. HIDE DEF c, d
<1>. QED
  BY <1>3, <1>4, NoCallType, NoCallOK DEF CheckOverlap, Basics, CallsOK, MeetingsTypeOK

LEMMA CommitBasics == ASSUME Basics, NEW r \in Requests, CommitMeeting(r) PROVE Basics'
<1>. DEFINE c == serving[r]
            d == [c EXCEPT !.at = "committed"]
            row == Flushed(meeting[c.id], c)
<1>1. c \in MeetingCalls /\ CallOK(c) /\ c.op # "none" /\ c.id \in MeetingIds
  BY DEF CommitMeeting, Basics, CallsOK, CallOK, MeetingsTypeOK
<1>2. d \in MeetingCalls /\ CallOK(d)
  BY <1>1 DEF MeetingCalls, CallOK, Pending
<1>3. serving' = [serving EXCEPT ![r] = d] /\ meeting' = [meeting EXCEPT ![c.id] = row]
  BY DEF CommitMeeting
<1>4. row \in MeetingRows
  BY <1>1, RowType
<1>5. unchecked' \in SUBSET MeetingIds /\ UNCHANGED <<slotLength, told, disturbed, tally>>
  BY <1>1 DEF CommitMeeting, Basics, MeetingsTypeOK
<1>. HIDE DEF c, d, row
<1>. QED
  BY <1>1, <1>2, <1>3, <1>4, <1>5 DEF Basics, CallsOK, MeetingsTypeOK

LEMMA RereadBasics == ASSUME Basics, NEW r \in Requests, Reread(r) PROVE Basics'
<1>. DEFINE c == serving[r]
            d == [c EXCEPT !.at = "reread", !.new = meeting[c.id]]
<1>1. c \in MeetingCalls /\ CallOK(c) /\ c.at = "committed"
  BY DEF Reread, Basics, CallsOK, MeetingsTypeOK
<1>2. c.op # "none" /\ c.id \in MeetingIds
  BY <1>1 DEF CallOK, NoRequest
<1>3. meeting[c.id] \in MeetingRows
  BY <1>2 DEF Basics, MeetingsTypeOK
<1>4. d \in MeetingCalls /\ CallOK(d)
  BY <1>1, <1>2, <1>3 DEF MeetingCalls, CallOK, Pending
<1>5. serving' = [serving EXCEPT ![r] = d]
  BY DEF Reread
<1>. HIDE DEF c, d
<1>. QED
  BY <1>4, <1>5 DEF Reread, Basics, CallsOK, MeetingsTypeOK

LEMMA TellBasics == ASSUME Basics, NEW r \in Requests, Tell(r) PROVE Basics'
<1>. DEFINE c == serving[r]
            news == [status |-> IF c.op = "cancel" THEN "cancelled" ELSE "scheduled",
                     starts |-> c.new.starts]
<1>1. c \in MeetingCalls
  BY DEF Basics, MeetingsTypeOK
<1>2. news \in News
  BY <1>1 DEF MeetingCalls, MeetingRows, News
<1>3. told' \in [MeetingIds -> News]
  <2>1. told' = told \/ told' = [told EXCEPT ![c.id] = news]
    BY DEF Tell
  <2>. HIDE DEF news, c
  <2>. QED
    BY <1>2, <2>1 DEF Basics, MeetingsTypeOK
<1>4. serving' = [serving EXCEPT ![r] = NoRequest] /\ UNCHANGED <<slotLength, meeting, unchecked, disturbed, tally>>
  BY DEF Tell
<1>. QED
  BY <1>3, <1>4, NoCallType, NoCallOK DEF Basics, CallsOK, MeetingsTypeOK

LEMMA DieBasics == ASSUME Basics, NEW r \in Requests, Die(r) PROVE Basics'
<1>1. serving[r].id \in MeetingIds
  BY DEF Die, Basics, CallsOK, CallOK
<1>2. tally' \in [calls: 0 .. MaxCalls, resizes: 0 .. MaxResizes, crashes: 0 .. MaxDeaths]
  BY DEF Die, Basics, MeetingsTypeOK
<1>. QED
  BY <1>1, <1>2, NoCallType, NoCallOK DEF Die, Basics, CallsOK, MeetingsTypeOK

LEMMA ResizeBasics == ASSUME Basics, NEW l \in Lengths, Resize(l) PROVE Basics'
BY DEF Resize, Basics, CallsOK, MeetingsTypeOK

LEMMA Basic == Basics /\ [MeetingsNext]_meetingsVars => Basics'
<1>. SUFFICES ASSUME Basics, [MeetingsNext]_meetingsVars  PROVE Basics'
  OBVIOUS
<1>1. CASE UNCHANGED meetingsVars
  BY <1>1 DEF meetingsVars, Basics, CallsOK, MeetingsTypeOK
<1>2. ASSUME NEW r \in Requests, Asks(r)  PROVE Basics'
  BY <1>2, AskBasics
<1>. QED
  BY <1>1, <1>2, ReadBasics, CheckBasics, CommitBasics, RereadBasics, TellBasics, DieBasics,
     ResizeBasics DEF MeetingsNext, Asks

\* Every variable of the meetings and their requests keeps its type.
THEOREM MeetingsTypes == MeetingsSpec => []MeetingsTypeOK
<1>1. Basics => MeetingsTypeOK
  BY DEF Basics
<1>. QED
  BY <1>1, InitBasics, Basic, PTL DEF MeetingsSpec

-----------------------------------------------------------------------------
(* The lock.                                                               *)

SameSpan(a, b) == a.starts = b.starts /\ a.ends = b.ends

LEMMA SpanIsBoth == ASSUME NEW a, NEW b PROVE Span(a) = Span(b) <=> SameSpan(a, b)
BY DEF Span, SameSpan

\* What a commit does to the meetings: the others stay, and a scheduled meeting that
\* counts as checked has either the time the request has checked, or the one it had.
LEMMA CommitEffect ==
    ASSUME Basics, NEW r \in Requests, CommitMeeting(r)
    PROVE  LET c == serving[r] IN
           /\ c \in MeetingCalls /\ c.id \in MeetingIds /\ Shape(c) /\ c.at \in Pending
           /\ c.moves => c.at = "checked"
           /\ \A n \in MeetingIds \ {c.id} :
                meeting'[n] = meeting[n] /\ (n \in unchecked' <=> n \in unchecked)
           /\ meeting'[c.id].status = "scheduled" /\ c.id \notin unchecked' =>
                \/ c.moves /\ SameSpan(meeting'[c.id], c.new)
                \/ /\ meeting[c.id].status = "scheduled" /\ c.id \notin unchecked
                   /\ SameSpan(meeting'[c.id], meeting[c.id])
<1>. DEFINE c == serving[r]
            row == Flushed(meeting[c.id], c)
<1>1. /\ c \in MeetingCalls /\ CallOK(c) /\ c.op # "none" /\ c.id \in MeetingIds
      /\ c.at \in Pending /\ (c.moves => c.at = "checked")
  BY DEF CommitMeeting, Basics, CallsOK, CallOK, MeetingsTypeOK, Pending, MeetingCalls
<1>2. Shape(c)
  BY <1>1 DEF CallOK
<1>3. meeting' = [meeting EXCEPT ![c.id] = row] /\ meeting'[c.id] = row
  BY <1>1 DEF CommitMeeting, Basics, MeetingsTypeOK
<1>4. unchecked' = IF c.moves /\ SameSpan(row, c.new) THEN unchecked \ {c.id}
                   ELSE IF SameSpan(row, meeting[c.id]) THEN unchecked
                   ELSE unchecked \cup {c.id}
  BY SpanIsBoth DEF CommitMeeting
<1>5. \A n \in MeetingIds \ {c.id} :
        meeting'[n] = meeting[n] /\ (n \in unchecked' <=> n \in unchecked)
  BY <1>3, <1>4 DEF Basics, MeetingsTypeOK
<1>6. ASSUME row.status = "scheduled", c.id \notin unchecked', ~(c.moves /\ SameSpan(row, c.new))
      PROVE  /\ meeting[c.id].status = "scheduled" /\ c.id \notin unchecked
             /\ SameSpan(row, meeting[c.id])
  <2>1. c.id \notin unchecked /\ SameSpan(row, meeting[c.id])
    BY <1>4, <1>6
  <2>2. c.op # "book"
    BY <1>2, <1>6 DEF Flushed, Shape, SameSpan
  <2>3. c.op # "cancel"
    BY <1>1, <1>2, <1>6 DEF Flushed, Shape, MeetingCalls, MeetingRows
  <2>4. row.status = meeting[c.id].status
    BY <1>2, <2>2, <2>3 DEF Flushed, Shape
  <2>. QED
    BY <1>6, <2>1, <2>4
<1>. HIDE DEF c, row
<1>7. row.status = "scheduled" /\ c.id \notin unchecked' =>
        \/ c.moves /\ SameSpan(row, c.new)
        \/ /\ meeting[c.id].status = "scheduled" /\ c.id \notin unchecked
           /\ SameSpan(row, meeting[c.id])
  BY <1>6
<1>. QED
  BY <1>1, <1>2, <1>3, <1>5, <1>7 DEF c

OneHolder ==
    \A q, r \in Requests : serving[q].at = "checked" /\ serving[r].at = "checked" => q = r

\* What a request has checked stays free while it holds the lock.
HeldApart ==
    \A r \in Requests : serving[r].at = "checked" =>
        \A m \in Scheduled \ {serving[r].id} :
            m \notin unchecked => ~Overlap(meeting[m], serving[r].new)

LockInv == OneHolder /\ HeldApart /\ NoDoubleBooking

LEMMA InitLock == MeetingsInit => LockInv
BY DEF MeetingsInit, LockInv, OneHolder, HeldApart, NoDoubleBooking, Clash, Scheduled,
       NoRow, NoRequest

\* A step that leaves the meetings alone, and lets nobody through the check.
LEMMA QuietLock ==
    ASSUME LockInv, meeting' = meeting, unchecked' = unchecked,
           \A r \in Requests : serving'[r].at = "checked" => serving'[r] = serving[r]
    PROVE  LockInv'
BY DEF LockInv, OneHolder, HeldApart, NoDoubleBooking, Clash, Scheduled

LEMMA AskLock == ASSUME Basics, LockInv, NEW r \in Requests, Asks(r) PROVE LockInv'
<1>1. PICK c : Begun(r, c) /\ Fresh(c)
  BY AskEffect DEF Basics
<1>2. c.at # "checked"
  BY <1>1 DEF Fresh
<1>3. \A q \in Requests : serving'[q].at = "checked" => serving'[q] = serving[q]
  BY <1>1, <1>2 DEF Begun, Basics, MeetingsTypeOK
<1>. QED
  BY <1>1, <1>3, QuietLock DEF Begun

LEMMA CheckLock == ASSUME Basics, LockInv, NEW r \in Requests, CheckOverlap(r) PROVE LockInv'
<1>. DEFINE c == serving[r]
            d == [c EXCEPT !.at = "checked"]
<1>1. c \in MeetingCalls /\ c.at = "ready" /\ LockFree(r) /\ UNCHANGED <<meeting, unchecked>>
  BY DEF CheckOverlap, Basics, MeetingsTypeOK
<1>2. CASE Conflict(c)
  <2>1. serving' = [serving EXCEPT ![r] = NoRequest]
    BY <1>2 DEF CheckOverlap
  <2>2. \A q \in Requests : serving'[q].at = "checked" => serving'[q] = serving[q]
    BY <2>1, NoCallType DEF Basics, MeetingsTypeOK
  <2>. QED
    BY <1>1, <2>2, QuietLock
<1>3. CASE ~Conflict(c)
  <2>1. serving' = [serving EXCEPT ![r] = d] /\ d.new = c.new /\ d.id = c.id
    BY <1>1, <1>3 DEF CheckOverlap, MeetingCalls
  <2>2. \A m \in Scheduled \ {c.id} : ~Overlap(meeting[m], c.new)
    BY <1>3 DEF Conflict
  <2>. HIDE DEF c, d
  <2>3. \A q \in Requests \ {r} : serving'[q] = serving[q] /\ serving[q].at # "checked"
    BY <1>1, <2>1 DEF LockFree, Basics, MeetingsTypeOK
  <2>4. serving'[r] = d
    BY <2>1 DEF Basics, MeetingsTypeOK
  <2>5. OneHolder'
    BY <2>3 DEF OneHolder
  <2>6. HeldApart'
    BY <1>1, <2>1, <2>2, <2>3, <2>4 DEF HeldApart, Scheduled
  <2>7. NoDoubleBooking'
    BY <1>1 DEF LockInv, NoDoubleBooking, Clash, Scheduled
  <2>. QED
    BY <2>5, <2>6, <2>7 DEF LockInv
<1>. QED
  BY <1>2, <1>3

LEMMA OverlapSpan ==
    ASSUME NEW a, NEW b, NEW c, SameSpan(a, b)
    PROVE  Overlap(a, c) <=> Overlap(b, c)
BY DEF SameSpan, Overlap

LEMMA OverlapBothWays ==
    ASSUME NEW a \in MeetingRows, NEW b \in MeetingRows PROVE Overlap(a, b) <=> Overlap(b, a)
<1>1. a.starts \in Nat /\ a.ends \in Nat /\ b.starts \in Nat /\ b.ends \in Nat
  BY TimesAreNumbers DEF MeetingRows
<1>. QED
  BY <1>1 DEF Overlap

LEMMA CommitLock == ASSUME Basics, LockInv, NEW r \in Requests, CommitMeeting(r) PROVE LockInv'
<1>. DEFINE c == serving[r]
<1>1. /\ c \in MeetingCalls /\ c.id \in MeetingIds /\ (c.moves => c.at = "checked")
      /\ \A n \in MeetingIds \ {c.id} :
           meeting'[n] = meeting[n] /\ (n \in unchecked' <=> n \in unchecked)
      /\ meeting'[c.id].status = "scheduled" /\ c.id \notin unchecked' =>
           \/ c.moves /\ SameSpan(meeting'[c.id], c.new)
           \/ /\ meeting[c.id].status = "scheduled" /\ c.id \notin unchecked
              /\ SameSpan(meeting'[c.id], meeting[c.id])
  BY CommitEffect
<1>2. Basics'
  BY CommitBasics
<1>3. serving'[r].at = "committed" /\ \A q \in Requests \ {r} : serving'[q] = serving[q]
  BY <1>1 DEF CommitMeeting, Basics, MeetingsTypeOK, MeetingCalls
<1>4. \A m \in MeetingIds : meeting[m] \in MeetingRows /\ meeting'[m] \in MeetingRows
  BY <1>2 DEF Basics, MeetingsTypeOK
<1>5. c.new \in MeetingRows
  BY <1>1 DEF MeetingCalls
<1>6. OneHolder'
  BY <1>3 DEF LockInv, OneHolder
<1>7. HeldApart'
  <2>. SUFFICES ASSUME NEW q \in Requests, serving'[q].at = "checked",
                       NEW m \in MeetingIds, meeting'[m].status = "scheduled",
                       m # serving'[q].id, m \notin unchecked'
                PROVE  ~Overlap(meeting'[m], serving'[q].new)
    BY DEF HeldApart, Scheduled
  <2>1. q # r /\ serving'[q] = serving[q] /\ serving[q].at = "checked"
    BY <1>3
  <2>2. ~c.moves
    BY <1>1, <2>1 DEF LockInv, OneHolder
  <2>3. /\ meeting[m].status = "scheduled" /\ m \notin unchecked
        /\ SameSpan(meeting'[m], meeting[m])
    BY <1>1, <2>2 DEF SameSpan
  <2>4. ~Overlap(meeting[m], serving[q].new)
    BY <2>1, <2>3 DEF LockInv, HeldApart, Scheduled
  <2>. QED
    BY <2>1, <2>3, <2>4, OverlapSpan
<1>8. NoDoubleBooking'
  <2>1. ASSUME NEW n \in MeetingIds \ {c.id}, meeting'[n].status = "scheduled", n \notin unchecked',
               meeting'[c.id].status = "scheduled", c.id \notin unchecked'
        PROVE  ~Overlap(meeting'[c.id], meeting'[n])
    <3>1. meeting'[n] = meeting[n] /\ n \notin unchecked /\ meeting[n].status = "scheduled"
      BY <1>1, <2>1
    <3>2. CASE c.moves /\ SameSpan(meeting'[c.id], c.new)
      <4>1. ~Overlap(meeting[n], c.new)
        BY <1>1, <3>1, <3>2 DEF LockInv, HeldApart, Scheduled
      <4>2. ~Overlap(c.new, meeting[n])
        BY <1>4, <1>5, <4>1, OverlapBothWays
      <4>. QED
        BY <3>1, <3>2, <4>2, OverlapSpan
    <3>3. CASE /\ meeting[c.id].status = "scheduled" /\ c.id \notin unchecked
               /\ SameSpan(meeting'[c.id], meeting[c.id])
      <4>1. ~Overlap(meeting[c.id], meeting[n])
        BY <1>1, <3>1, <3>3 DEF LockInv, NoDoubleBooking, Clash, Scheduled
      <4>. QED
        BY <3>1, <3>3, <4>1, OverlapSpan
    <3>. QED
      BY <1>1, <2>1, <3>2, <3>3
  <2>2. ASSUME NEW m \in MeetingIds \ {c.id}, NEW n \in MeetingIds \ {c.id}, m # n,
               meeting'[m].status = "scheduled", meeting'[n].status = "scheduled",
               m \notin unchecked', n \notin unchecked'
        PROVE  ~Overlap(meeting'[m], meeting'[n])
    BY <1>1, <2>2 DEF LockInv, NoDoubleBooking, Clash, Scheduled
  <2>. SUFFICES ASSUME NEW m \in MeetingIds, NEW n \in MeetingIds, m # n,
                       meeting'[m].status = "scheduled", meeting'[n].status = "scheduled",
                       m \notin unchecked', n \notin unchecked'
                PROVE  ~Overlap(meeting'[m], meeting'[n])
    BY DEF NoDoubleBooking, Clash, Scheduled
  <2>3. CASE m = c.id
    BY <2>1, <2>3
  <2>4. CASE n = c.id
    <3>1. ~Overlap(meeting'[n], meeting'[m])
      BY <2>1, <2>4
    <3>. QED
      BY <1>4, <3>1, OverlapBothWays
  <2>. QED
    BY <2>2, <2>3, <2>4
<1>. QED
  BY <1>6, <1>7, <1>8 DEF LockInv

LEMMA Lock == Basics /\ LockInv /\ [MeetingsNext]_meetingsVars => LockInv'
<1>. SUFFICES ASSUME Basics, LockInv, [MeetingsNext]_meetingsVars  PROVE LockInv'
  OBVIOUS
<1>1. CASE UNCHANGED meetingsVars
  BY <1>1, QuietLock DEF meetingsVars
<1>2. ASSUME NEW r \in Requests, Asks(r)  PROVE LockInv'
  BY <1>2, AskLock
<1>3. ASSUME NEW r \in Requests, NEW d, d.at # "checked", serving' = [serving EXCEPT ![r] = d],
             UNCHANGED <<meeting, unchecked>>
      PROVE  LockInv'
  <2>1. \A q \in Requests : serving'[q].at = "checked" => serving'[q] = serving[q]
    BY <1>3 DEF Basics, MeetingsTypeOK
  <2>. QED
    BY <1>3, <2>1, QuietLock
<1>4. ASSUME NEW r \in Requests, ReadSettings(r)  PROVE LockInv'
  <2>. DEFINE d == [serving[r] EXCEPT !.at = "ready", !.new.ends = EndOf(serving[r])]
  <2>1. serving' = [serving EXCEPT ![r] = d] /\ UNCHANGED <<meeting, unchecked>>
    BY <1>4 DEF ReadSettings
  <2>2. d.at # "checked"
    BY DEF Basics, MeetingsTypeOK, MeetingCalls
  <2>. HIDE DEF d
  <2>. QED
    BY <1>3, <2>1, <2>2
<1>5. ASSUME NEW r \in Requests, Reread(r)  PROVE LockInv'
  <2>1. [serving[r] EXCEPT !.at = "reread", !.new = meeting[serving[r].id]].at = "reread"
    BY DEF Basics, MeetingsTypeOK, MeetingCalls
  <2>. QED
    BY <1>3, <1>5, <2>1 DEF Reread
<1>6. ASSUME NEW r \in Requests, Tell(r) \/ Die(r)  PROVE LockInv'
  BY <1>3, <1>6, NoCallType DEF Tell, Die
<1>7. ASSUME NEW l \in Lengths, Resize(l)  PROVE LockInv'
  BY <1>7, QuietLock DEF Resize
<1>. QED
  BY <1>1, <1>2, <1>4, <1>5, <1>6, <1>7, CheckLock, CommitLock DEF MeetingsNext, Asks

\* Meetings whose time was checked never overlap, for any number of requests, edits
\* without the lock, changes of the slot length and crashes.
THEOREM CheckedMeetingsApart == MeetingsSpec => []NoDoubleBooking
<1>1. LockInv => NoDoubleBooking
  BY DEF LockInv
<1>. QED
  BY <1>1, InitBasics, Basic, InitLock, Lock, PTL DEF MeetingsSpec

-----------------------------------------------------------------------------
(* The slot length.                                                        *)

\* What a request has loaded, which is still there, and what it will write, lasts a slot.
SlotCall(c) ==
    /\ c.op \in {"edit", "cancel"} =>
         c.seen.ends = c.seen.starts + slotLength /\ meeting[c.id].status # "none"
    /\ c.op \in {"book", "edit"} /\ c.at \in {"ready", "checked"} =>
         c.new.ends = c.new.starts + slotLength

SlotRow(row) == row.status # "none" => row.ends = row.starts + slotLength

SlotInv ==
    tally.resizes = 0 =>
        /\ unchecked = {}
        /\ \A m \in MeetingIds : SlotRow(meeting[m])
        /\ \A r \in Requests : SlotCall(serving[r])

LEMMA InitSlot == MeetingsInit => SlotInv
BY DEF MeetingsInit, SlotInv, SlotCall, SlotRow, NoRow, NoRequest

\* A step that changes one request only.
LEMMA QuietSlot ==
    ASSUME Basics, SlotInv, NEW r \in Requests, NEW d,
           serving' = [serving EXCEPT ![r] = d], UNCHANGED <<slotLength, meeting, unchecked>>,
           tally'.resizes = tally.resizes,
           tally.resizes = 0 => SlotCall(d)
    PROVE  SlotInv'
BY DEF SlotInv, SlotCall, SlotRow, Basics, MeetingsTypeOK

LEMMA NoCallSlot == SlotCall(NoRequest)
BY DEF SlotCall, NoRequest

LEMMA AskSlot == ASSUME Basics, SlotInv, NEW r \in Requests, Asks(r) PROVE SlotInv'
<1>1. PICK c : Begun(r, c) /\ Fresh(c)
  BY AskEffect DEF Basics
<1>2. tally.resizes = 0 => SlotCall(c)
  BY <1>1 DEF Begun, Fresh, SlotInv, SlotCall, SlotRow
<1>. QED
  BY <1>1, <1>2, QuietSlot DEF Begun

LEMMA ReadSlot == ASSUME Basics, SlotInv, NEW r \in Requests, ReadSettings(r) PROVE SlotInv'
<1>. DEFINE c == serving[r]
            d == [c EXCEPT !.at = "ready", !.new = [c.new EXCEPT !.ends = EndOf(c)]]
<1>1. c \in MeetingCalls
  BY DEF Basics, MeetingsTypeOK
<1>2. serving' = [serving EXCEPT ![r] = d] /\ UNCHANGED <<slotLength, meeting, unchecked, tally>>
  BY <1>1 DEF ReadSettings, MeetingCalls
<1>3. d.op = c.op /\ d.id = c.id /\ d.seen = c.seen /\ d.new.ends = d.new.starts + slotLength
  BY <1>1 DEF MeetingCalls, MeetingRows, EndOf
<1>. HIDE DEF d
<1>4. tally.resizes = 0 => SlotCall(d)
  BY <1>3 DEF SlotInv, SlotCall
<1>. QED
  BY <1>2, <1>4, QuietSlot

LEMMA CheckSlot == ASSUME Basics, SlotInv, NEW r \in Requests, CheckOverlap(r) PROVE SlotInv'
<1>. DEFINE c == serving[r]
            d == [c EXCEPT !.at = "checked"]
<1>1. c \in MeetingCalls /\ c.at = "ready" /\ UNCHANGED <<slotLength, meeting, unchecked, tally>>
  BY DEF CheckOverlap, Basics, MeetingsTypeOK
<1>2. tally.resizes = 0 => SlotCall(d)
  BY <1>1 DEF SlotInv, SlotCall, MeetingCalls
<1>3. \E e \in {d, NoRequest} : serving' = [serving EXCEPT ![r] = e]
  BY DEF CheckOverlap
<1>. HIDE DEF d
<1>. QED
  BY <1>1, <1>2, <1>3, NoCallSlot, QuietSlot

LEMMA CommitSlot == ASSUME Basics, SlotInv, NEW r \in Requests, CommitMeeting(r) PROVE SlotInv'
<1>. DEFINE c == serving[r]
            d == [c EXCEPT !.at = "committed"]
            row == Flushed(meeting[c.id], c)
<1>1. c \in MeetingCalls /\ c.id \in MeetingIds /\ Shape(c) /\ c.at \in Pending
  BY CommitEffect
<1>2. c.op = "cancel" \/ c.at \in {"ready", "checked"}
  BY DEF CommitMeeting
<1>3. /\ serving' = [serving EXCEPT ![r] = d] /\ meeting' = [meeting EXCEPT ![c.id] = row]
      /\ UNCHANGED <<slotLength, tally>>
  BY DEF CommitMeeting
<1>4. unchecked' = IF c.moves /\ SameSpan(row, c.new) THEN unchecked \ {c.id}
                   ELSE IF SameSpan(row, meeting[c.id]) THEN unchecked
                   ELSE unchecked \cup {c.id}
  BY SpanIsBoth DEF CommitMeeting
<1>5. d.op = c.op /\ d.id = c.id /\ d.at = "committed" /\ d.seen = c.seen
  BY <1>1 DEF MeetingCalls
<1>. SUFFICES ASSUME tally.resizes = 0
              PROVE  /\ unchecked' = {}
                     /\ \A m \in MeetingIds : SlotRow(meeting[m])'
                     /\ \A q \in Requests : SlotCall(serving[q])'
  BY <1>3 DEF SlotInv
<1>6. SlotCall(c) /\ unchecked = {} /\ SlotRow(meeting[c.id])
  BY <1>1 DEF SlotInv
<1>7. /\ c.new.starts \in Nat /\ c.new.ends \in Nat /\ c.seen.starts \in Nat
      /\ c.seen.ends \in Nat /\ slotLength \in Nat
  BY <1>1, TimesAreNumbers DEF MeetingCalls, MeetingRows, Basics, MeetingsTypeOK
<1>8. unchecked' = {} /\ SlotRow(row)
  <2>1. CASE c.moves
    <3>1. c.op \in {"book", "edit"} /\ (c.op = "edit" => c.new.starts # c.seen.starts)
      BY <1>1, <2>1 DEF Shape
    <3>2. c.new.ends = c.new.starts + slotLength
      BY <1>2, <1>6, <3>1 DEF SlotCall
    <3>3. c.op = "edit" => c.new.ends # c.seen.ends
      BY <1>6, <1>7, <3>1, <3>2 DEF SlotCall
    <3>4. SameSpan(row, c.new)
      BY <3>1, <3>3 DEF SameSpan, Flushed
    <3>. QED
      BY <1>4, <1>6, <2>1, <3>2, <3>4 DEF SameSpan, SlotRow
  <2>2. CASE ~c.moves
    <3>1. c.op = "edit" \/ c.op = "cancel"
      BY <1>1, <2>2 DEF Shape
    <3>2. c.op = "edit" => SameSpan(c.new, c.seen)
      BY <1>1, <1>2, <1>6, <1>7, <2>2 DEF Shape, SlotCall, SameSpan
    <3>3. c.op = "cancel" => SameSpan(c.new, c.seen)
      BY <1>1 DEF Shape, SameSpan, MeetingCalls, MeetingRows
    <3>4. SameSpan(row, meeting[c.id])
      BY <3>1, <3>2, <3>3 DEF SameSpan, Flushed
    <3>. QED
      BY <1>4, <1>6, <2>2, <3>1, <3>4 DEF SameSpan, SlotRow, SlotCall
  <2>. QED
    BY <2>1, <2>2
<1>9. meeting[c.id].status # "none" => row.status # "none"
  BY <1>1 DEF Flushed, Shape, MeetingCalls, MeetingRows
<1>. HIDE DEF row, c, d
<1>10. \A m \in MeetingIds : meeting'[m] = IF m = c.id THEN row ELSE meeting[m]
  BY <1>3 DEF Basics, MeetingsTypeOK
<1>11. \A m \in MeetingIds : SlotRow(meeting[m])'
  BY <1>3, <1>8, <1>10 DEF SlotInv, SlotRow
<1>12. \A q \in Requests : serving'[q] = IF q = r THEN d ELSE serving[q]
  BY <1>3 DEF Basics, MeetingsTypeOK
<1>13. \A q \in Requests : serving[q].op # "none" => serving[q].id \in MeetingIds
  BY DEF Basics, CallsOK, CallOK
<1>14. ASSUME NEW q \in Requests
       PROVE  SlotCall(serving[q])'
  <2>1. SlotCall(serving[q]) /\ serving'[q].op = serving[q].op /\ serving'[q].id = serving[q].id
        /\ serving'[q].seen = serving[q].seen
    BY <1>5, <1>12 DEF SlotInv, c
  <2>2. serving'[q].at \in {"ready", "checked"} => serving'[q] = serving[q]
    BY <1>5, <1>12
  <2>3. serving[q].op \in {"edit", "cancel"} => meeting'[serving[q].id].status # "none"
    BY <1>9, <1>10, <1>13, <2>1 DEF SlotCall
  <2>. QED
    BY <1>3, <2>1, <2>2, <2>3 DEF SlotCall
<1>. QED
  BY <1>8, <1>11, <1>14

LEMMA Slot == Basics /\ SlotInv /\ [MeetingsNext]_meetingsVars => SlotInv'
<1>. SUFFICES ASSUME Basics, SlotInv, [MeetingsNext]_meetingsVars  PROVE SlotInv'
  OBVIOUS
<1>1. CASE UNCHANGED meetingsVars
  BY <1>1 DEF meetingsVars, SlotInv, SlotRow, SlotCall
<1>2. ASSUME NEW r \in Requests, Asks(r)  PROVE SlotInv'
  BY <1>2, AskSlot
<1>3. ASSUME NEW r \in Requests, Reread(r)  PROVE SlotInv'
  <2>. DEFINE d == [serving[r] EXCEPT !.at = "reread", !.new = meeting[serving[r].id]]
  <2>1. serving' = [serving EXCEPT ![r] = d] /\ UNCHANGED <<slotLength, meeting, unchecked, tally>>
    BY <1>3 DEF Reread
  <2>2. d.op = serving[r].op /\ d.id = serving[r].id /\ d.at = "reread" /\ d.seen = serving[r].seen
    BY DEF Basics, MeetingsTypeOK, MeetingCalls
  <2>. HIDE DEF d
  <2>3. tally.resizes = 0 => SlotCall(d)
    BY <2>2 DEF SlotInv, SlotCall
  <2>. QED
    BY <2>1, <2>3, QuietSlot
<1>4. ASSUME NEW r \in Requests, Tell(r) \/ Die(r)  PROVE SlotInv'
  <2>1. /\ serving' = [serving EXCEPT ![r] = NoRequest] /\ UNCHANGED <<slotLength, meeting, unchecked>>
        /\ tally'.resizes = tally.resizes
    BY <1>4 DEF Tell, Die, Basics, MeetingsTypeOK
  <2>. QED
    BY <2>1, NoCallSlot, QuietSlot
<1>5. ASSUME NEW l \in Lengths, Resize(l)  PROVE SlotInv'
  <2>1. tally'.resizes # 0
    BY <1>5 DEF Resize, Basics, MeetingsTypeOK
  <2>. QED
    BY <2>1 DEF SlotInv
<1>. QED
  BY <1>1, <1>2, <1>3, <1>4, <1>5, ReadSlot, CheckSlot, CommitSlot DEF MeetingsNext, Asks

\* As long as the slot length stays, every time is checked and every meeting lasts a slot,
\* for any number of overlapping requests.
THEOREM UncheckedByResizingOnly == MeetingsSpec => []OnlyResizingUnchecks
<1>1. SlotInv => OnlyResizingUnchecks
  BY DEF SlotInv, SlotRow, OnlyResizingUnchecks
<1>. QED
  BY <1>1, InitBasics, Basic, InitSlot, Slot, PTL DEF MeetingsSpec

-----------------------------------------------------------------------------
(* What the client knows.                                                  *)

Agree(news, row) == news.status = row.status /\ news.starts = row.starts

\* A request that is alone on its meeting: until it commits it has seen the row, and
\* afterwards it tells what the client does not know.
Knows(c, row, news) ==
    /\ c.at \in Pending => c.seen = row /\ Agree(news, row)
    /\ c.at \notin Pending =>
         IF c.op = "cancel" THEN row.status = "cancelled"
         ELSE IF c.moves THEN row.status = "scheduled" ELSE Agree(news, row)
    /\ c.at = "reread" => c.new = row

KnowInv ==
    \A m \in MeetingIds \ disturbed :
        /\ \A q, r \in Requests : serving[q].id = m /\ serving[r].id = m => q = r
        /\ BusyOn(m) = {} => Agree(told[m], meeting[m])
        /\ \A r \in Requests : serving[r].id = m => Knows(serving[r], meeting[m], told[m])

LEMMA InitKnow == MeetingsInit => KnowInv
BY DEF MeetingsInit, KnowInv, BusyOn, Agree, NoRow, NoRequest

LEMMA CallIds == ASSUME Basics, NEW r \in Requests
                 PROVE  /\ serving[r] \in MeetingCalls /\ CallOK(serving[r])
                        /\ serving[r].op # "none" <=> serving[r].id \in MeetingIds
                        /\ serving[r].op = "none" => serving[r] = NoRequest
BY DEF Basics, CallsOK, CallOK, MeetingsTypeOK, NoRequest

LEMMA AskKnow == ASSUME Basics, KnowInv, NEW r \in Requests, Asks(r) PROVE KnowInv'
<1>1. PICK c : Begun(r, c) /\ Fresh(c)
  BY AskEffect DEF Basics
<1>2. /\ c \in MeetingCalls /\ c.seen = meeting[c.id] /\ c.id \in MeetingIds
      /\ UNCHANGED <<meeting, told>> /\ c.at \in Pending /\ c.at # "reread"
      /\ serving[r].id = NoMeeting
      /\ \A q \in Requests : serving'[q] = IF q = r THEN c ELSE serving[q]
  BY <1>1, NoCallType DEF Begun, Fresh, Pending, Basics, MeetingsTypeOK
<1>3. disturbed' = IF BusyOn(c.id) = {} THEN disturbed ELSE disturbed \cup {c.id}
  BY <1>1 DEF Begun
<1>. SUFFICES ASSUME NEW m \in MeetingIds, m \notin disturbed'
              PROVE  /\ \A q, s \in Requests : serving'[q].id = m /\ serving'[s].id = m => q = s
                     /\ (BusyOn(m) = {})' => Agree(told'[m], meeting'[m])
                     /\ \A s \in Requests : serving'[s].id = m => Knows(serving'[s], meeting'[m], told'[m])
  BY DEF KnowInv
<1>4. m \notin disturbed /\ (m = c.id => BusyOn(m) = {})
  BY <1>3
<1>5. CASE m = c.id
  <2>1. \A q \in Requests : serving[q].id # m
    BY <1>4, <1>5 DEF BusyOn
  <2>2. \A q \in Requests : serving'[q].id = m => q = r
    BY <1>2, <2>1
  <2>3. Agree(told[m], meeting[m])
    BY <1>4, <1>5 DEF KnowInv
  <2>4. Knows(c, meeting[m], told[m])
    BY <1>2, <1>5, <2>3 DEF Knows
  <2>. QED
    BY <1>2, <2>2, <2>3, <2>4
<1>6. CASE m # c.id
  <2>1. \A q \in Requests : serving'[q].id = m <=> serving[q].id = m
    BY <1>2, <1>6
  <2>2. BusyOn(m)' = BusyOn(m)
    BY <2>1 DEF BusyOn
  <2>. QED
    BY <1>2, <1>4, <1>6, <2>1, <2>2 DEF KnowInv
<1>. QED
  BY <1>5, <1>6

\* A step of one request that goes on with its meeting.
LEMMA OnKnow ==
    ASSUME Basics, KnowInv, NEW r \in Requests, NEW d,
           serving[r].op # "none", serving' = [serving EXCEPT ![r] = d], d.id = serving[r].id,
           disturbed' = disturbed, told' = told,
           \A n \in MeetingIds \ {d.id} : meeting'[n] = meeting[n],
           d.id \notin disturbed /\ Knows(serving[r], meeting[d.id], told[d.id]) =>
               Knows(d, meeting'[d.id], told[d.id])
    PROVE  KnowInv'
<1>1. \A q \in Requests : serving'[q] = IF q = r THEN d ELSE serving[q]
  BY DEF Basics, MeetingsTypeOK
<1>. SUFFICES ASSUME NEW m \in MeetingIds, m \notin disturbed
              PROVE  /\ \A q, s \in Requests : serving'[q].id = m /\ serving'[s].id = m => q = s
                     /\ (BusyOn(m) = {})' => Agree(told'[m], meeting'[m])
                     /\ \A s \in Requests : serving'[s].id = m => Knows(serving'[s], meeting'[m], told'[m])
  BY DEF KnowInv
<1>2. \A q \in Requests : serving'[q].id = serving[q].id
  BY <1>1
<1>3. BusyOn(m)' = BusyOn(m)
  BY <1>2 DEF BusyOn
<1>4. \A q, s \in Requests : serving'[q].id = m /\ serving'[s].id = m => q = s
  BY <1>2 DEF KnowInv
<1>5. CASE m = d.id
  <2>1. r \in BusyOn(m)
    BY <1>5 DEF BusyOn
  <2>2. Knows(d, meeting'[m], told[m])
    BY <1>5 DEF KnowInv
  <2>3. \A s \in Requests : serving'[s].id = m => serving'[s] = d
    BY <1>1, <1>4, <1>5
  <2>. QED
    BY <1>3, <1>4, <2>1, <2>2, <2>3
<1>6. CASE m # d.id
  BY <1>1, <1>2, <1>3, <1>4, <1>6 DEF KnowInv
<1>. QED
  BY <1>5, <1>6

\* A step that ends a request.
LEMMA EndKnow ==
    ASSUME Basics, KnowInv, NEW r \in Requests, serving[r].op # "none",
           serving' = [serving EXCEPT ![r] = NoRequest], meeting' = meeting,
           disturbed' \in {disturbed, disturbed \cup {serving[r].id}},
           \A n \in MeetingIds \ {serving[r].id} : told'[n] = told[n],
           serving[r].id \notin disturbed' =>
               (Knows(serving[r], meeting[serving[r].id], told[serving[r].id])
                    => Agree(told'[serving[r].id], meeting[serving[r].id]))
    PROVE  KnowInv'
<1>1. \A q \in Requests : serving'[q] = IF q = r THEN NoRequest ELSE serving[q]
  BY DEF Basics, MeetingsTypeOK
<1>. SUFFICES ASSUME NEW m \in MeetingIds, m \notin disturbed'
              PROVE  /\ \A q, s \in Requests : serving'[q].id = m /\ serving'[s].id = m => q = s
                     /\ (BusyOn(m) = {})' => Agree(told'[m], meeting'[m])
                     /\ \A s \in Requests : serving'[s].id = m => Knows(serving'[s], meeting'[m], told'[m])
  BY DEF KnowInv
<1>2. m \notin disturbed /\ \A q \in Requests : serving'[q].id = m => serving[q].id = m /\ q # r
  BY <1>1, NoCallType
<1>3. \A q, s \in Requests : serving[q].id = m /\ serving[s].id = m => q = s
  BY <1>2 DEF KnowInv
<1>4. CASE m = serving[r].id
  BY <1>2, <1>3, <1>4 DEF KnowInv
<1>5. CASE m # serving[r].id
  <2>1. \A q \in Requests : serving'[q].id = m <=> serving[q].id = m
    BY <1>1, <1>5, NoCallType
  <2>2. BusyOn(m)' = BusyOn(m)
    BY <2>1 DEF BusyOn
  <2>. QED
    BY <1>1, <1>2, <1>3, <1>5, <2>1, <2>2 DEF KnowInv
<1>. QED
  BY <1>4, <1>5

LEMMA ReadKnow == ASSUME Basics, KnowInv, NEW r \in Requests, ReadSettings(r) PROVE KnowInv'
<1>. DEFINE c == serving[r]
            d == [c EXCEPT !.at = "ready", !.new.ends = EndOf(c)]
<1>1. c \in MeetingCalls /\ c.op # "none" /\ c.at = "loaded"
  BY DEF ReadSettings, Basics, MeetingsTypeOK
<1>2. /\ serving' = [serving EXCEPT ![r] = d]
      /\ UNCHANGED <<meeting, told, disturbed>>
  BY DEF ReadSettings
<1>3. d.id = c.id /\ d.seen = c.seen /\ d.at = "ready"
  BY <1>1 DEF MeetingCalls
<1>. HIDE DEF d
<1>4. Knows(c, meeting[d.id], told[d.id]) => Knows(d, meeting'[d.id], told[d.id])
  BY <1>1, <1>2, <1>3 DEF Knows, Pending
<1>. QED
  BY <1>1, <1>2, <1>3, <1>4, OnKnow

LEMMA CheckKnow == ASSUME Basics, KnowInv, NEW r \in Requests, CheckOverlap(r) PROVE KnowInv'
<1>. DEFINE c == serving[r]
            d == [c EXCEPT !.at = "checked"]
<1>1. c \in MeetingCalls /\ c.at = "ready" /\ UNCHANGED <<meeting, told, disturbed>>
  BY DEF CheckOverlap, Basics, MeetingsTypeOK
<1>2. c.op # "none"
  BY <1>1, CallIds, NoCallType
<1>3. CASE Conflict(c)
  <2>1. serving' = [serving EXCEPT ![r] = NoRequest]
    BY <1>3 DEF CheckOverlap
  <2>2. Knows(c, meeting[c.id], told[c.id]) => Agree(told[c.id], meeting[c.id])
    BY <1>1 DEF Knows, Pending
  <2>. QED
    BY <1>1, <1>2, <2>1, <2>2, EndKnow
<1>4. CASE ~Conflict(c)
  <2>1. serving' = [serving EXCEPT ![r] = d]
    BY <1>4 DEF CheckOverlap
  <2>2. d.id = c.id /\ d.seen = c.seen /\ d.at = "checked"
    BY <1>1 DEF MeetingCalls
  <2>. HIDE DEF d
  <2>3. Knows(c, meeting[d.id], told[d.id]) => Knows(d, meeting'[d.id], told[d.id])
    BY <1>1, <2>2 DEF Knows, Pending
  <2>. QED
    BY <1>1, <1>2, <2>1, <2>2, <2>3, OnKnow
<1>. QED
  BY <1>3, <1>4

LEMMA CommitKnow == ASSUME Basics, KnowInv, NEW r \in Requests, CommitMeeting(r) PROVE KnowInv'
<1>. DEFINE c == serving[r]
            d == [c EXCEPT !.at = "committed"]
            row == Flushed(meeting[c.id], c)
<1>1. /\ c \in MeetingCalls /\ c.id \in MeetingIds /\ Shape(c) /\ c.at \in Pending
      /\ \A n \in MeetingIds \ {c.id} : meeting'[n] = meeting[n]
  BY CommitEffect
<1>2. /\ serving' = [serving EXCEPT ![r] = d] /\ UNCHANGED <<told, disturbed>>
      /\ c.op # "none"
  BY DEF CommitMeeting
<1>3. meeting'[c.id] = row
  BY <1>1 DEF CommitMeeting, Basics, MeetingsTypeOK
<1>4. d.id = c.id /\ d.op = c.op /\ d.moves = c.moves /\ d.at = "committed"
  BY <1>1 DEF MeetingCalls
<1>5. ASSUME c.seen = meeting[c.id], Agree(told[c.id], meeting[c.id])
      PROVE  IF c.op = "cancel" THEN row.status = "cancelled"
             ELSE IF c.moves THEN row.status = "scheduled" ELSE Agree(told[c.id], row)
  <2>1. CASE c.op = "cancel"
    <3>1. c.new.status = "cancelled" /\ c.seen.status = "scheduled"
      BY <1>1, <2>1 DEF Shape, MeetingCalls, MeetingRows
    <3>. QED
      BY <2>1, <3>1 DEF Flushed
  <2>2. CASE c.op # "cancel"
    BY <1>1, <1>5, <2>2 DEF Shape, Flushed, Agree
  <2>. QED
    BY <2>1, <2>2
<1>. HIDE DEF c, d, row
<1>6. Knows(c, meeting[d.id], told[d.id]) => Knows(d, meeting'[d.id], told[d.id])
  BY <1>1, <1>3, <1>4, <1>5 DEF Knows, Pending
<1>. QED
  BY <1>1, <1>2, <1>4, <1>6, OnKnow DEF c

LEMMA RereadKnow == ASSUME Basics, KnowInv, NEW r \in Requests, Reread(r) PROVE KnowInv'
<1>. DEFINE c == serving[r]
            d == [c EXCEPT !.at = "reread", !.new = meeting[c.id]]
<1>1. c \in MeetingCalls /\ c.at = "committed" /\ UNCHANGED <<meeting, told, disturbed>>
  BY DEF Reread, Basics, MeetingsTypeOK
<1>2. c.op # "none"
  BY <1>1, CallIds, NoCallType
<1>3. serving' = [serving EXCEPT ![r] = d]
  BY DEF Reread
<1>4. /\ d.id = c.id /\ d.op = c.op /\ d.moves = c.moves /\ d.at = "reread"
      /\ d.new = meeting[c.id]
  BY <1>1 DEF MeetingCalls
<1>. HIDE DEF d
<1>5. Knows(c, meeting[d.id], told[d.id]) => Knows(d, meeting'[d.id], told[d.id])
  BY <1>1, <1>4 DEF Knows, Pending
<1>. QED
  BY <1>1, <1>2, <1>3, <1>4, <1>5, OnKnow

LEMMA TellKnow == ASSUME Basics, KnowInv, NEW r \in Requests, Tell(r) PROVE KnowInv'
<1>. DEFINE c == serving[r]
            news == [status |-> IF c.op = "cancel" THEN "cancelled" ELSE "scheduled",
                     starts |-> c.new.starts]
<1>1. c \in MeetingCalls /\ c.at = "reread" /\ UNCHANGED <<meeting, disturbed>>
  BY DEF Tell, Basics, MeetingsTypeOK
<1>2. c.op # "none" /\ c.id \in MeetingIds
  BY <1>1, CallIds, NoCallType
<1>3. serving' = [serving EXCEPT ![r] = NoRequest]
  BY DEF Tell
<1>4. told' = IF c.op = "cancel" \/ c.moves THEN [told EXCEPT ![c.id] = news] ELSE told
  BY DEF Tell
<1>5. \A n \in MeetingIds : told'[n] = IF n = c.id /\ (c.op = "cancel" \/ c.moves)
                                       THEN news ELSE told[n]
  BY <1>2, <1>4 DEF Basics, MeetingsTypeOK
<1>6. Knows(c, meeting[c.id], told[c.id]) => Agree(told'[c.id], meeting[c.id])
  BY <1>1, <1>2, <1>5 DEF Knows, Pending, Agree
<1>. QED
  BY <1>1, <1>2, <1>3, <1>5, <1>6, EndKnow

LEMMA DieKnow == ASSUME Basics, KnowInv, NEW r \in Requests, Die(r) PROVE KnowInv'
<1>1. /\ serving[r].op # "none" /\ serving' = [serving EXCEPT ![r] = NoRequest]
      /\ disturbed' = disturbed \cup {serving[r].id} /\ UNCHANGED <<meeting, told>>
  BY DEF Die
<1>. QED
  BY <1>1, EndKnow

LEMMA Know == Basics /\ KnowInv /\ [MeetingsNext]_meetingsVars => KnowInv'
<1>. SUFFICES ASSUME Basics, KnowInv, [MeetingsNext]_meetingsVars  PROVE KnowInv'
  OBVIOUS
<1>1. CASE UNCHANGED <<meeting, told, serving, disturbed>>
  BY <1>1 DEF KnowInv, BusyOn
<1>2. ASSUME NEW r \in Requests, Asks(r)  PROVE KnowInv'
  BY <1>2, AskKnow
<1>3. CASE UNCHANGED meetingsVars
  BY <1>1, <1>3 DEF meetingsVars
<1>4. ASSUME NEW l \in Lengths, Resize(l)  PROVE KnowInv'
  BY <1>1, <1>4 DEF Resize
<1>. QED
  BY <1>2, <1>3, <1>4, ReadKnow, CheckKnow, CommitKnow, RereadKnow, TellKnow, DieKnow
     DEF MeetingsNext, Asks

\* The client's last word on a meeting is the row's, unless requests on that meeting
\* overlapped or one died.
THEOREM ClientIsToldTheRow == MeetingsSpec => []ClientKnows
<1>1. KnowInv => ClientKnows
  BY DEF KnowInv, ClientKnows, Agree
<1>. QED
  BY <1>1, InitBasics, Basic, InitKnow, Know, PTL DEF MeetingsSpec

HIDE MeetingsAssumption DEF MeetingsAssumption

-----------------------------------------------------------------------------
(* Proposals.                                                              *)

-----------------------------------------------------------------------------
(* The inductive invariant.                                                  *)

\* What a request that is under way has loaded, and who sent it.
TurnTidy ==
    \A p \in Pages : LET t == turn[p] IN
        /\ t.kind = "none" => t = NoTurn
        /\ t.kind \in {"edit", "delete"} => t.seen = "draft"
        /\ t.kind \in {"view", "sign", "decline"} => p \in Readers /\ t.seen # "draft"
        /\ t.kind \in {"send", "sign", "decline"} => t.seen \notin ClosedStatuses \cup {"gone"}
        /\ t.kind = "view" => t.seen # "gone"
        /\ t.kind = "sign" => sheet[p].status # "none"

\* A draft has been seen by nobody but the staff, and nothing becomes a draft again.
DraftIsPrivate ==
    status = "draft" =>
        /\ ~signature.signed
        /\ \A p \in Pages : turn[p].kind # "none" => turn[p].seen = "draft"
        /\ \A p \in Readers : sheet[p].status = "none"

\* A deletion takes the signature with it, and nothing comes back.
GoneIsUnsigned == status = "gone" => ~signature.signed

\* An edit or deletion of what is no longer a draft has been overtaken by the sending.
Overtaken ==
    \A p \in Pages :
        turn[p].kind \in {"edit", "delete"} => status \in {"draft", "gone"} \/ "send" \in turn[p].met

\* Whoever would still change a decided proposal has met the decision.
MetDecision ==
    \A p \in Pages :
        turn[p].kind \in {"edit", "delete", "send", "sign", "decline"} \/ FirstView(turn[p])
            => status \notin ClosedStatuses \/ turn[p].met \cap {"sign", "decline"} # {}

\* What recipients are shown, are about to be shown or have signed is the current paper.
ShowsPaper ==
    <<"edit", "send">> \notin crossed /\ status # "gone" =>
        /\ signature.signed => signature.paper = paper
        /\ \A p \in Readers : sheet[p].status # "none" => sheet[p].paper = paper
        /\ \A p \in Pages : turn[p].kind = "view" => turn[p].paper.total = paper.total

\* An edit that met no other deletes all the lines there are.
LinesOfTotal ==
    <<"edit", "edit">> \notin crossed /\ status # "gone" =>
        /\ paper.lines = {paper.total}
        /\ \A p \in Pages :
             turn[p].kind = "edit" /\ "edit" \notin turn[p].met => turn[p].paper.lines = paper.lines

ProposalInv ==
    /\ ProposalTypeOK /\ TurnTidy /\ DraftIsPrivate /\ GoneIsUnsigned
    /\ Overtaken /\ MetDecision /\ ShowsPaper /\ LinesOfTotal

Turns == [kind: Kinds \cup {"none"}, seen: Statuses, paper: Papers,
          version: Versions, met: SUBSET Kinds]

\* The invariant holds of the draft that create_proposal leaves.
LEMMA InvInitially == ProposalInit => ProposalInv
<1> SUFFICES ASSUME ProposalInit PROVE ProposalInv
  OBVIOUS
<1>1. 0 \in Versions /\ asked \in 0 .. MaxAsked
  BY ProposalsAssumption DEF ProposalInit, Versions
<1>2. paper \in Papers /\ NoPaper \in Papers
  BY <1>1 DEF ProposalInit, Papers, NoPaper
<1>3. ProposalTypeOK
  BY <1>1, <1>2 DEF ProposalInit, ProposalTypeOK, Statuses, Kinds, Pages, NoSheet, NoTurn, Unsigned
<1>4. TurnTidy /\ DraftIsPrivate /\ GoneIsUnsigned /\ Overtaken /\ MetDecision
  BY DEF ProposalInit, TurnTidy, DraftIsPrivate, GoneIsUnsigned, Overtaken, MetDecision,
         FirstView, NoTurn, NoSheet, Unsigned, Pages
<1>5. ShowsPaper /\ LinesOfTotal
  BY DEF ProposalInit, ShowsPaper, LinesOfTotal, NoTurn, NoSheet, Unsigned, Pages
<1> QED
  BY <1>3, <1>4, <1>5 DEF ProposalInv

-----------------------------------------------------------------------------
(* Every step but a commit.                                                  *)

\* A request that is let in under the conditions of its endpoint keeps the invariant.
LEMMA LoadStep ==
    ASSUME ProposalInv, NEW p \in Pages, NEW k \in Kinds, NEW v \in Versions, Loads(p, k, v),
           k \in {"edit", "delete"} => status = "draft",
           k \in {"view", "sign", "decline"} => p \in Readers /\ status # "draft",
           k \in {"send", "sign", "decline"} => status \notin ClosedStatuses \cup {"gone"},
           k = "view" => status # "gone",
           k = "sign" => sheet[p].status # "none"
    PROVE  ProposalInv'
<1> DEFINE t == [kind |-> k, seen |-> status, paper |-> paper, version |-> v, met |-> {}]
<1>1. turn' = [turn EXCEPT ![p] = t] /\ asked < MaxAsked /\ asked' = asked + 1
  BY DEF Loads
<1>2. UNCHANGED <<status, paper, expired, signature, sheet, crossed>>
  BY DEF Loads
<1>3. ProposalTypeOK /\ t \in Turns /\ turn \in [Pages -> Turns]
  BY DEF ProposalInv, ProposalTypeOK, Turns
<1>4. turn' \in [Pages -> Turns] /\ turn'[p] = t /\ \A q \in Pages : q # p => turn'[q] = turn[q]
  BY <1>1, <1>3
<1>5. asked' \in 0 .. MaxAsked
  BY <1>1, <1>3, ProposalsAssumption DEF ProposalTypeOK
<1>6. ProposalTypeOK'
  BY <1>2, <1>3, <1>4, <1>5 DEF ProposalTypeOK, Turns
<1>7. t.kind = k /\ t.seen = status /\ t.paper = paper /\ t.met = {} /\ k # "none"
  BY DEF Kinds
<1>8. TurnTidy'
  BY <1>2, <1>4, <1>7 DEF ProposalInv, TurnTidy
<1>9. DraftIsPrivate' /\ GoneIsUnsigned'
  BY <1>2, <1>4, <1>7 DEF ProposalInv, DraftIsPrivate, GoneIsUnsigned
<1>10. Overtaken'
  BY <1>2, <1>4, <1>7 DEF ProposalInv, Overtaken
<1>11. MetDecision'
  BY <1>2, <1>4, <1>7 DEF ProposalInv, MetDecision, FirstView, ClosedStatuses
<1>12. ShowsPaper' /\ LinesOfTotal'
  BY <1>2, <1>4, <1>7 DEF ProposalInv, ShowsPaper, LinesOfTotal
<1> QED
  BY <1>6, <1>8, <1>9, <1>10, <1>11, <1>12 DEF ProposalInv

\* A page that is opened shows the row of that moment.
LEMMA OpenStep == ASSUME ProposalInv, NEW p \in Pages, OpenPage(p) PROVE ProposalInv'
<1>1. /\ sheet' = [sheet EXCEPT ![p] = Present(p)]
      /\ UNCHANGED <<status, paper, expired, signature, turn, crossed, asked>>
      /\ turn[p] = NoTurn /\ (p \in Readers => Readable)
  BY DEF OpenPage
<1>2. ProposalTypeOK
  BY DEF ProposalInv
<1>3. NoPaper \in Papers
  BY ProposalsAssumption DEF NoPaper, Papers, Versions
<1>4. Present(p) \in [status: Statuses \cup {"none", "expired"}, paper: Papers]
  BY <1>2, <1>3 DEF Present, DisplayStatus, ProposalTypeOK, Statuses
<1>5. p \in Readers => Present(p).status \notin {"draft", "none"} /\ Present(p).paper = paper
  BY <1>1, <1>2 DEF Present, DisplayStatus, Readable, ProposalTypeOK, Statuses
<1>6. sheet'[p] = Present(p) /\ \A q \in Pages : q # p => sheet'[q] = sheet[q]
  BY <1>1, <1>2 DEF ProposalTypeOK
<1>7. ProposalTypeOK'
  BY <1>1, <1>2, <1>4, <1>5, <1>6 DEF ProposalTypeOK, Pages
<1>8. TurnTidy'
  BY <1>1, <1>6 DEF ProposalInv, TurnTidy, NoTurn
<1>9. DraftIsPrivate' /\ GoneIsUnsigned'
  BY <1>1, <1>6 DEF ProposalInv, DraftIsPrivate, GoneIsUnsigned, Readable, Pages
<1>10. Overtaken' /\ MetDecision'
  BY <1>1 DEF ProposalInv, Overtaken, MetDecision, FirstView
<1>11. ShowsPaper' /\ LinesOfTotal'
  BY <1>1, <1>5, <1>6 DEF ProposalInv, ShowsPaper, LinesOfTotal, Pages
<1> QED
  BY <1>7, <1>8, <1>9, <1>10, <1>11 DEF ProposalInv

\* The DELETE of an edit takes the lines there are.
LEMMA SeeStep == ASSUME ProposalInv, NEW p \in Pages, SeeLines(p) PROVE ProposalInv'
<1> DEFINE t == [turn[p] EXCEPT !.paper.lines = paper.lines]
<1>1. /\ turn' = [turn EXCEPT ![p] = t] /\ turn[p].kind = "edit"
      /\ UNCHANGED <<status, paper, expired, signature, sheet, crossed, asked>>
  BY DEF SeeLines
<1>2. ProposalTypeOK /\ turn \in [Pages -> Turns]
  BY DEF ProposalInv, ProposalTypeOK, Turns
<1>3. turn[p].paper \in Papers /\ paper \in Papers
  BY <1>2 DEF Turns, ProposalTypeOK
<1>4. [turn[p].paper EXCEPT !.lines = paper.lines] \in Papers
  BY <1>3 DEF Papers
<1>5. t = [turn[p] EXCEPT !.paper = [turn[p].paper EXCEPT !.lines = paper.lines]]
  BY <1>2, <1>3 DEF Turns, Papers
<1>6. t \in Turns
  BY <1>2, <1>4, <1>5 DEF Turns
<1>7. t.kind = "edit" /\ t.seen = turn[p].seen /\ t.met = turn[p].met /\ t.paper.lines = paper.lines
  BY <1>1, <1>2, <1>3, <1>5 DEF Turns, Papers
<1> HIDE DEF t
<1>8. turn' \in [Pages -> Turns] /\ turn'[p] = t /\ \A q \in Pages : q # p => turn'[q] = turn[q]
  BY <1>1, <1>2, <1>6
<1>9. ProposalTypeOK'
  BY <1>1, <1>2, <1>8 DEF ProposalTypeOK, Turns
<1>10. TurnTidy'
  BY <1>1, <1>7, <1>8 DEF ProposalInv, TurnTidy
<1>11. DraftIsPrivate' /\ GoneIsUnsigned'
  BY <1>1, <1>7, <1>8 DEF ProposalInv, DraftIsPrivate, GoneIsUnsigned
<1>12. Overtaken' /\ MetDecision'
  BY <1>1, <1>7, <1>8 DEF ProposalInv, Overtaken, MetDecision, FirstView
<1>13. ShowsPaper' /\ LinesOfTotal'
  BY <1>1, <1>7, <1>8 DEF ProposalInv, ShowsPaper, LinesOfTotal
<1> QED
  BY <1>9, <1>10, <1>11, <1>12, <1>13 DEF ProposalInv

\* A request that comes to nothing.
LEMMA AbortStep == ASSUME ProposalInv, NEW p \in Pages, Abort(p) PROVE ProposalInv'
<1>1. /\ turn' = [turn EXCEPT ![p] = NoTurn]
      /\ UNCHANGED <<status, paper, expired, signature, sheet, crossed, asked>>
  BY DEF Abort
<1>2. ProposalTypeOK /\ turn \in [Pages -> Turns]
  BY DEF ProposalInv, ProposalTypeOK, Turns
<1>3. NoTurn \in Turns
  BY ProposalsAssumption DEF NoTurn, Turns, NoPaper, Papers, Versions, Statuses, Kinds
<1>4. turn' \in [Pages -> Turns] /\ turn'[p] = NoTurn /\ \A q \in Pages : q # p => turn'[q] = turn[q]
  BY <1>1, <1>2, <1>3
<1>5. NoTurn.kind = "none"
  BY DEF NoTurn
<1>6. ProposalTypeOK'
  BY <1>1, <1>2, <1>4 DEF ProposalTypeOK, Turns
<1>7. TurnTidy' /\ DraftIsPrivate' /\ GoneIsUnsigned'
  BY <1>1, <1>4, <1>5 DEF ProposalInv, TurnTidy, DraftIsPrivate, GoneIsUnsigned
<1>8. Overtaken' /\ MetDecision'
  BY <1>1, <1>4, <1>5 DEF ProposalInv, Overtaken, MetDecision, FirstView
<1>9. ShowsPaper' /\ LinesOfTotal'
  BY <1>1, <1>4, <1>5 DEF ProposalInv, ShowsPaper, LinesOfTotal
<1> QED
  BY <1>6, <1>7, <1>8, <1>9 DEF ProposalInv

\* Neither the clock nor a stutter touches what the invariant is about.
LEMMA IdleStep ==
    ASSUME ProposalInv, Expire \/ UNCHANGED proposalVars
    PROVE  ProposalInv'
<1>1. UNCHANGED <<status, paper, signature, sheet, turn, crossed, asked>> /\ expired' \in BOOLEAN
  BY DEF Expire, proposalVars, ProposalInv, ProposalTypeOK
<1>2. ProposalTypeOK' /\ TurnTidy' /\ DraftIsPrivate' /\ GoneIsUnsigned'
  BY <1>1 DEF ProposalInv, ProposalTypeOK, TurnTidy, DraftIsPrivate, GoneIsUnsigned
<1>3. Overtaken' /\ MetDecision' /\ ShowsPaper' /\ LinesOfTotal'
  BY <1>1 DEF ProposalInv, Overtaken, MetDecision, ShowsPaper, LinesOfTotal, FirstView
<1> QED
  BY <1>2, <1>3 DEF ProposalInv

-----------------------------------------------------------------------------
(* Commits.                                                                  *)

\* What a commit leaves of the other requests: all but what they have met.
LEMMA OthersMet ==
    ASSUME ProposalInv, NEW p \in Pages, CommitTurn(p)
    PROVE  /\ turn' \in [Pages -> Turns] /\ turn'[p] = NoTurn
           /\ \A q \in Pages : q # p =>
                /\ turn'[q].kind = turn[q].kind /\ turn'[q].seen = turn[q].seen
                /\ turn'[q].paper = turn[q].paper
                /\ turn[q].met \subseteq turn'[q].met
                /\ turn[q] = NoTurn => turn'[q] = NoTurn
                /\ Writes(turn[p]) /\ turn[q].kind # "none" => turn[p].kind \in turn'[q].met
<1> DEFINE t == turn[p]
           Met(q) == [turn[q] EXCEPT !.met = @ \cup {t.kind}]
<1>1. turn' = MetBy(p, t) /\ t.kind # "none"
  BY DEF CommitTurn
<1>2. turn \in [Pages -> Turns]
  BY DEF ProposalInv, ProposalTypeOK, Turns
<1>3. t.kind \in Kinds
  BY <1>1, <1>2 DEF Turns
<1>4. NoTurn \in Turns /\ NoTurn.kind = "none"
  BY ProposalsAssumption DEF NoTurn, Turns, NoPaper, Papers, Versions, Statuses, Kinds
<1>5. turn'[p] = NoTurn
  BY <1>1 DEF MetBy
<1>6. ASSUME NEW q \in Pages, q # p
      PROVE  /\ turn'[q] \in Turns
             /\ turn'[q].kind = turn[q].kind /\ turn'[q].seen = turn[q].seen
             /\ turn'[q].paper = turn[q].paper
             /\ turn[q].met \subseteq turn'[q].met
             /\ turn[q] = NoTurn => turn'[q] = NoTurn
             /\ Writes(t) /\ turn[q].kind # "none" => t.kind \in turn'[q].met
  <2>1. turn[q] \in Turns
    BY <1>2
  <2>2. /\ Met(q) \in Turns /\ Met(q).kind = turn[q].kind /\ Met(q).seen = turn[q].seen
        /\ Met(q).paper = turn[q].paper /\ Met(q).met = turn[q].met \cup {t.kind}
    BY <2>1, <1>3 DEF Turns
  <2>3. turn'[q] = IF turn[q] = NoTurn \/ ~Writes(t) THEN turn[q] ELSE Met(q)
    BY <1>1, <1>6 DEF MetBy
  <2> HIDE DEF Met
  <2>4. CASE turn[q] = NoTurn \/ ~Writes(t)
    <3>1. turn'[q] = turn[q]
      BY <2>3, <2>4
    <3> QED
      BY <2>1, <2>4, <3>1, <1>4
  <2>5. CASE turn[q] # NoTurn /\ Writes(t)
    <3>1. turn'[q] = Met(q)
      BY <2>3, <2>5
    <3> QED
      BY <2>2, <2>5, <3>1
  <2> QED
    BY <2>4, <2>5
<1>7. turn' \in [Pages -> Turns]
  <2>1. turn' = [q \in Pages |-> turn'[q]]
    BY <1>1 DEF MetBy
  <2>2. \A q \in Pages : turn'[q] \in Turns
    BY <1>4, <1>5, <1>6
  <2> QED
    BY <2>1, <2>2
<1> QED
  BY <1>5, <1>6, <1>7

\* The page afterwards: as it was, empty, or, after a view, the row that was viewed.
LEMMA PageAfter ==
    ASSUME ProposalInv, NEW p \in Pages, CommitTurn(p)
    PROVE  /\ \A q \in Pages : q # p => sheet'[q] = sheet[q]
           /\ \/ sheet'[p] = sheet[p]
              \/ sheet'[p].status = "none"
              \/ turn[p].kind = "view" /\ sheet'[p] = Viewed(turn[p])
           /\ sheet' \in [Pages -> [status: Statuses \cup {"none", "expired"}, paper: Papers]]
           /\ \A q \in Readers : sheet'[q].status # "draft"
<1> DEFINE t == turn[p]
           Sheets == [status: Statuses \cup {"none", "expired"}, paper: Papers]
           New == IF t.kind = "view" THEN Viewed(t) ELSE NoSheet
<1>1. UNCHANGED sheet \/ sheet' = [sheet EXCEPT ![p] = New]
  BY DEF CommitTurn
<1>2. ProposalTypeOK /\ sheet \in [Pages -> Sheets] /\ t \in Turns
  BY DEF ProposalInv, ProposalTypeOK, Turns
<1>3. NoSheet \in Sheets /\ NoSheet.status = "none"
  BY ProposalsAssumption DEF NoSheet, NoPaper, Papers, Versions
<1>4. CASE t.kind = "view"
  <2>1. t.seen \in Statuses \ {"draft"} /\ t.paper \in Papers /\ paper \in Papers
    BY <1>2, <1>4 DEF ProposalInv, TurnTidy, Turns, ProposalTypeOK
  <2>2. Viewed(t) \in Sheets
    BY <2>1 DEF Viewed, DisplayStatus, Statuses, Papers
  <2>3. Viewed(t).status # "draft"
    BY <2>1 DEF Viewed, DisplayStatus
  <2> QED
    BY <1>1, <1>2, <1>4, <2>2, <2>3 DEF ProposalTypeOK, Pages
<1>5. CASE t.kind # "view"
  BY <1>1, <1>2, <1>3, <1>5 DEF ProposalTypeOK, Pages
<1> QED
  BY <1>4, <1>5

\* The rows afterwards keep their types.
LEMMA RowsAfter ==
    ASSUME ProposalInv, NEW p \in Pages, CommitTurn(p)
    PROVE  ProposalTypeOK'
<1> DEFINE t == turn[p]
<1>1. ProposalTypeOK /\ t \in Turns /\ t.kind # "none"
  BY DEF ProposalInv, ProposalTypeOK, Turns, CommitTurn
<1>2. status' \in Statuses
  BY <1>1 DEF CommitTurn, Given, FirstView, ProposalTypeOK, Statuses, Turns
<1>3. NoPaper \in Papers
  BY ProposalsAssumption DEF NoPaper, Papers, Versions
<1>4. paper' \in Papers
  <2>1. [lines |-> (paper.lines \ t.paper.lines) \cup {t.version}, total |-> t.version] \in Papers
    BY <1>1 DEF ProposalTypeOK, Papers, Turns
  <2>2. Rewrite(t) \in Papers
    BY <1>1, <1>3, <2>1 DEF Rewrite, ProposalTypeOK
  <2> QED
    BY <2>2 DEF CommitTurn
<1>5. expired' \in BOOLEAN
  BY <1>1 DEF CommitTurn, ProposalTypeOK
<1>6. signature' \in [signed: BOOLEAN, paper: Papers]
  <2>1. sheet[p].paper \in Papers
    BY <1>1 DEF ProposalTypeOK
  <2> QED
    BY <1>1, <1>3, <2>1 DEF CommitTurn, ProposalTypeOK, Unsigned
<1>7. crossed' \in SUBSET (Kinds \X Kinds)
  BY <1>1 DEF CommitTurn, ProposalTypeOK, Turns
<1>8. asked' = asked
  BY DEF CommitTurn
<1> QED
  BY <1>1, <1>2, <1>4, <1>5, <1>6, <1>7, <1>8, OthersMet, PageAfter DEF ProposalTypeOK, Turns

\* The status afterwards.
LEMMA StatusAfter ==
    ASSUME ProposalInv, NEW p \in Pages, CommitTurn(p)
    PROVE  /\ status = "gone" => status' = "gone"
           /\ status' = "gone" => status = "gone" \/ turn[p].kind = "delete"
           /\ status' = "draft" => status = "draft"
           /\ status' \in ClosedStatuses /\ status \notin ClosedStatuses
                => turn[p].kind \in {"sign", "decline"} /\ Writes(turn[p])
           /\ status = "draft" /\ status' \notin {"draft", "gone"}
                => turn[p].kind = "send" /\ Writes(turn[p])
           /\ status' # status =>
                \/ turn[p].kind \in {"delete", "send", "sign", "decline"}
                \/ FirstView(turn[p])
<1> DEFINE t == turn[p]
<1>1. t \in Turns /\ t.kind # "none" /\ ~CannotCommit(t) /\ status \in Statuses
  BY DEF ProposalInv, ProposalTypeOK, Turns, CommitTurn
<1>2. status' = IF t.kind = "delete" THEN "gone" ELSE IF Given(t) # t.seen THEN Given(t) ELSE status
  BY DEF CommitTurn
<1>3. TurnTidy /\ DraftIsPrivate
  BY DEF ProposalInv
<1>4. status = "gone" => t.kind = "view" /\ ~FirstView(t)
  BY <1>1 DEF CannotCommit
<1>5. t.kind \in Kinds
  BY <1>1 DEF Turns
<1>6. /\ t.kind \in {"edit", "delete"} => Given(t) = t.seen
      /\ t.kind = "send" => Given(t) = "sent"
      /\ t.kind = "sign" => Given(t) = "signed"
      /\ t.kind = "decline" => Given(t) = "declined"
      /\ FirstView(t) => Given(t) = "viewed"
      /\ t.kind = "view" /\ ~FirstView(t) => Given(t) = t.seen
  BY DEF Given, FirstView
<1>7. /\ t.kind \in {"send", "sign", "decline"} => t.seen \notin {"signed", "declined", "gone"}
      /\ t.kind = "view" => t.seen # "draft"
      /\ t.kind \in {"sign", "decline"} => t.seen # "draft"
  BY <1>3 DEF TurnTidy, ClosedStatuses
<1>8. status = "draft" => t.seen = "draft"
  BY <1>1, <1>3 DEF DraftIsPrivate
<1>9. Writes(t) <=> t.kind \in {"edit", "delete"} \/ Given(t) # t.seen
  BY DEF Writes
<1> QED
  BY <1>1, <1>2, <1>4, <1>5, <1>6, <1>7, <1>8, <1>9 DEF Kinds, ClosedStatuses, FirstView

\* The paper, the signature and the history afterwards.
LEMMA PaperAfter ==
    ASSUME ProposalInv, NEW p \in Pages, CommitTurn(p)
    PROVE  /\ turn[p].kind \notin {"edit", "delete"} => paper' = paper
           /\ turn[p].kind = "edit" =>
                /\ paper'.lines = (paper.lines \ turn[p].paper.lines) \cup {turn[p].version}
                /\ paper'.total = turn[p].version
           /\ turn[p].kind = "sign" =>
                p \in Readers /\ sheet[p].status # "none" /\ signature'.paper = sheet[p].paper
           /\ turn[p].kind \notin {"sign", "delete"} => signature' = signature
           /\ signature'.signed => signature.signed \/ turn[p].kind = "sign"
           /\ turn[p].kind = "delete" => ~signature'.signed
           /\ crossed \subseteq crossed'
           /\ turn[p].kind \in {"edit", "delete"} =>
                \A k \in turn[p].met : <<turn[p].kind, k>> \in crossed'
<1>1. turn[p] \in Turns /\ turn[p].kind # "none" /\ TurnTidy
  BY DEF ProposalInv, ProposalTypeOK, Turns, CommitTurn
<1>2. turn[p].kind = "sign" => p \in Readers /\ sheet[p].status # "none"
  BY <1>1 DEF TurnTidy
<1>3. paper' = Rewrite(turn[p])
  BY DEF CommitTurn
<1>4. crossed' = IF Writes(turn[p]) THEN crossed \cup ({turn[p].kind} \X turn[p].met) ELSE crossed
  BY DEF CommitTurn
<1>5. signature' = IF turn[p].kind = "sign" THEN [signed |-> TRUE, paper |-> sheet[p].paper]
                   ELSE IF turn[p].kind = "delete" THEN Unsigned ELSE signature
  BY DEF CommitTurn
<1>6. Unsigned.signed = FALSE
  BY DEF Unsigned
<1>7. Writes(turn[p]) \/ turn[p].kind \notin {"edit", "delete"}
  BY DEF Writes
<1>8. /\ turn[p].kind \notin {"edit", "delete"} => paper' = paper
      /\ turn[p].kind = "edit" =>
           /\ paper'.lines = (paper.lines \ turn[p].paper.lines) \cup {turn[p].version}
           /\ paper'.total = turn[p].version
  BY <1>3 DEF Rewrite
<1>9. /\ crossed \subseteq crossed'
      /\ turn[p].kind \in {"edit", "delete"} =>
           \A k \in turn[p].met : <<turn[p].kind, k>> \in crossed'
  BY <1>4, <1>7
<1> QED
  BY <1>2, <1>5, <1>6, <1>8, <1>9

\* A commit keeps the invariant.
LEMMA CommitStep == ASSUME ProposalInv, NEW p \in Pages, CommitTurn(p) PROVE ProposalInv'
<1> DEFINE t == turn[p]
<1>1. /\ ProposalTypeOK /\ TurnTidy /\ DraftIsPrivate /\ GoneIsUnsigned
      /\ Overtaken /\ MetDecision /\ ShowsPaper /\ LinesOfTotal
  BY DEF ProposalInv
<1>2. t \in Turns /\ t.kind # "none" /\ ~CannotCommit(t) /\ t.kind \in Kinds
  BY <1>1 DEF ProposalTypeOK, Turns, CommitTurn
<1>3. NoTurn.kind = "none"
  BY DEF NoTurn
<1>4. /\ turn'[p] = NoTurn
      /\ \A q \in Pages : q # p =>
           /\ turn'[q].kind = turn[q].kind /\ turn'[q].seen = turn[q].seen
           /\ turn'[q].paper = turn[q].paper
           /\ turn[q].met \subseteq turn'[q].met
           /\ turn[q] = NoTurn => turn'[q] = NoTurn
           /\ Writes(t) /\ turn[q].kind # "none" => t.kind \in turn'[q].met
  BY OthersMet
<1>5. /\ \A q \in Pages : q # p => sheet'[q] = sheet[q]
      /\ \/ sheet'[p] = sheet[p]
         \/ sheet'[p].status = "none"
         \/ t.kind = "view" /\ sheet'[p] = Viewed(t)
  BY PageAfter
<1>6. ProposalTypeOK'
  BY RowsAfter
<1>7. TurnTidy'
  BY <1>1, <1>3, <1>4, <1>5 DEF TurnTidy
<1>8. status' = "draft" => status = "draft" /\ t.kind \notin {"view", "sign", "decline"}
  BY <1>1, <1>2, StatusAfter DEF DraftIsPrivate, TurnTidy
<1>9. DraftIsPrivate'
  <2> SUFFICES ASSUME status' = "draft" PROVE DraftIsPrivate'
    BY DEF DraftIsPrivate
  <2>1. status = "draft" /\ t.kind \notin {"view", "sign", "decline"}
    BY <1>8
  <2>2. ~signature'.signed
    BY <1>1, <2>1, PaperAfter DEF DraftIsPrivate
  <2>3. \A q \in Pages : turn'[q].kind # "none" => turn'[q].seen = "draft"
    BY <1>1, <1>3, <1>4, <2>1 DEF DraftIsPrivate
  <2>4. \A q \in Readers : sheet'[q].status = "none"
    BY <1>1, <1>5, <2>1 DEF DraftIsPrivate, Pages
  <2> QED
    BY <2>2, <2>3, <2>4 DEF DraftIsPrivate
<1>10. GoneIsUnsigned'
  BY <1>1, <1>2, StatusAfter, PaperAfter DEF GoneIsUnsigned, CannotCommit
<1>11. Overtaken'
  <2> SUFFICES ASSUME NEW q \in Pages, turn'[q].kind \in {"edit", "delete"},
                      status' \notin {"draft", "gone"}
               PROVE  "send" \in turn'[q].met
    BY DEF Overtaken
  <2>1. q # p /\ turn[q].kind = turn'[q].kind
    BY <1>3, <1>4
  <2>2. CASE status \in {"draft", "gone"}
    BY <1>4, <2>1, <2>2, StatusAfter
  <2>3. CASE status \notin {"draft", "gone"}
    BY <1>1, <1>4, <2>1, <2>3 DEF Overtaken
  <2> QED
    BY <2>2, <2>3
<1>12. MetDecision'
  <2> SUFFICES ASSUME NEW q \in Pages, status' \in ClosedStatuses,
                      turn'[q].kind \in {"edit", "delete", "send", "sign", "decline"}
                        \/ FirstView(turn'[q])
               PROVE  turn'[q].met \cap {"sign", "decline"} # {}
    BY DEF MetDecision
  <2>1. q # p /\ turn[q].kind = turn'[q].kind /\ turn[q].seen = turn'[q].seen
    BY <1>3, <1>4 DEF FirstView
  <2>2. CASE status \in ClosedStatuses
    BY <1>1, <1>4, <2>1, <2>2 DEF MetDecision, FirstView
  <2>3. CASE status \notin ClosedStatuses
    <3>1. t.kind \in {"sign", "decline"} /\ Writes(t)
      BY <2>3, StatusAfter
    <3>2. turn[q].kind # "none"
      BY <2>1 DEF FirstView
    <3> QED
      BY <1>4, <2>1, <3>1, <3>2
  <2> QED
    BY <2>2, <2>3
<1>13. ShowsPaper'
  <2> SUFFICES ASSUME <<"edit", "send">> \notin crossed', status' # "gone" PROVE ShowsPaper'
    BY DEF ShowsPaper
  <2>1. status # "gone" /\ <<"edit", "send">> \notin crossed /\ t.kind # "delete"
    BY StatusAfter, PaperAfter DEF CommitTurn
  <2>2. /\ signature.signed => signature.paper = paper
        /\ \A q \in Readers : sheet[q].status # "none" => sheet[q].paper = paper
        /\ \A q \in Pages : turn[q].kind = "view" => turn[q].paper.total = paper.total
    BY <1>1, <2>1 DEF ShowsPaper
  <2>3. CASE t.kind = "edit"
    <3>1. status = "draft"
      BY <1>1, <2>1, <2>3, PaperAfter DEF Overtaken
    <3>2. /\ ~signature.signed
          /\ \A q \in Pages : turn[q].kind # "view"
          /\ \A q \in Readers : sheet[q].status = "none"
      BY <1>1, <3>1 DEF DraftIsPrivate, TurnTidy
    <3>3. ~signature'.signed
      BY <2>3, <3>2, PaperAfter
    <3>4. \A q \in Pages : turn'[q].kind # "view"
      BY <1>3, <1>4, <3>2
    <3>5. \A q \in Readers : sheet'[q].status = "none"
      BY <1>5, <2>3, <3>2 DEF Pages
    <3> QED
      BY <3>3, <3>4, <3>5 DEF ShowsPaper
  <2>4. CASE t.kind # "edit"
    <3>1. paper' = paper
      BY <2>1, <2>4, PaperAfter
    <3>2. signature'.signed => signature'.paper = paper
      BY <2>1, <2>2, PaperAfter
    <3>3. t.kind = "view" => Viewed(t).paper = paper
      <4>1. paper = [lines |-> paper.lines, total |-> paper.total]
        BY <1>1 DEF ProposalTypeOK, Papers
      <4> QED
        BY <2>2, <4>1 DEF Viewed
    <3>4. \A q \in Readers : sheet'[q].status # "none" => sheet'[q].paper = paper
      BY <1>5, <2>2, <3>3 DEF Pages
    <3>5. \A q \in Pages : turn'[q].kind = "view" => turn'[q].paper.total = paper.total
      BY <1>3, <1>4, <2>2
    <3> QED
      BY <3>1, <3>2, <3>4, <3>5 DEF ShowsPaper
  <2> QED
    BY <2>3, <2>4
<1>14. LinesOfTotal'
  <2> SUFFICES ASSUME <<"edit", "edit">> \notin crossed', status' # "gone" PROVE LinesOfTotal'
    BY DEF LinesOfTotal
  <2>1. status # "gone" /\ <<"edit", "edit">> \notin crossed /\ t.kind # "delete"
    BY StatusAfter, PaperAfter DEF CommitTurn
  <2>2. /\ paper.lines = {paper.total}
        /\ \A q \in Pages :
             turn[q].kind = "edit" /\ "edit" \notin turn[q].met => turn[q].paper.lines = paper.lines
    BY <1>1, <2>1 DEF LinesOfTotal
  <2>3. CASE t.kind = "edit"
    <3>1. "edit" \notin t.met
      BY <2>3, PaperAfter
    <3>2. t.paper.lines = paper.lines
      BY <2>2, <2>3, <3>1
    <3>3. paper'.lines = {paper'.total}
      BY <2>3, <3>2, PaperAfter
    <3>4. Writes(t)
      BY <2>3 DEF Writes
    <3>5. \A q \in Pages : turn'[q].kind = "edit" => "edit" \in turn'[q].met
      BY <1>3, <1>4, <2>3, <3>4
    <3> QED
      BY <3>3, <3>5 DEF LinesOfTotal
  <2>4. CASE t.kind # "edit"
    <3>1. paper' = paper
      BY <2>1, <2>4, PaperAfter
    <3>2. \A q \in Pages :
            turn'[q].kind = "edit" /\ "edit" \notin turn'[q].met => turn'[q].paper.lines = paper.lines
      BY <1>3, <1>4, <2>2
    <3> QED
      BY <2>2, <3>1, <3>2 DEF LinesOfTotal
  <2> QED
    BY <2>3, <2>4
<1> QED
  BY <1>6, <1>7, <1>9, <1>10, <1>11, <1>12, <1>13, <1>14 DEF ProposalInv

-----------------------------------------------------------------------------
(* The theorems.                                                             *)

\* Every step keeps the invariant.
LEMMA InvKept == ASSUME ProposalInv, [ProposalNext]_proposalVars PROVE ProposalInv'
<1>1. ASSUME NEW p \in Pages, OpenLink(p) PROVE ProposalInv'
  BY <1>1, LoadStep, ProposalsAssumption DEF OpenLink, Readable, Kinds, Versions
<1>2. ASSUME NEW p \in Pages, AskEdit(p) PROVE ProposalInv'
  <2>1. Loads(p, "edit", asked + 1) /\ status = "draft"
    BY <1>2 DEF AskEdit, IsDraft
  <2>2. asked + 1 \in Versions
    BY <2>1, ProposalsAssumption DEF Loads, Versions, ProposalInv, ProposalTypeOK
  <2> QED
    BY <2>1, <2>2, LoadStep DEF Kinds
<1>3. ASSUME NEW p \in Pages, AskDelete(p) PROVE ProposalInv'
  BY <1>3, LoadStep, ProposalsAssumption DEF AskDelete, IsDraft, Kinds, Versions
<1>4. ASSUME NEW p \in Pages, AskSend(p) PROVE ProposalInv'
  BY <1>4, LoadStep, ProposalsAssumption DEF AskSend, Undecided, Kinds, Versions
<1>5. ASSUME NEW p \in Readers, sheet[p].status # "none" PROVE status # "draft"
  BY <1>5 DEF ProposalInv, DraftIsPrivate
<1>6. ASSUME NEW p \in Pages, AskSign(p) PROVE ProposalInv'
  BY <1>5, <1>6, LoadStep, ProposalsAssumption DEF AskSign, Undecided, Kinds, Versions
<1>7. ASSUME NEW p \in Pages, AskDecline(p) PROVE ProposalInv'
  BY <1>5, <1>7, LoadStep, ProposalsAssumption DEF AskDecline, Undecided, Kinds, Versions
<1> QED
  BY <1>1, <1>2, <1>3, <1>4, <1>6, <1>7, OpenStep, SeeStep, AbortStep, IdleStep, CommitStep
     DEF ProposalNext

LEMMA InvAlways == ProposalSpec => []ProposalInv
<1>1. ProposalInv /\ [ProposalNext]_proposalVars => ProposalInv'
  BY InvKept
<1> QED
  BY InvInitially, <1>1, PTL DEF ProposalSpec

\* Every variable keeps its type, and the recipient is never shown a draft
\* (get_public_proposal, _portal_proposal_or_404).
THEOREM ProposalTypes == ProposalSpec => []ProposalTypeOK
<1>1. ProposalInv => ProposalTypeOK
  BY DEF ProposalInv
<1> QED
  BY InvAlways, <1>1, PTL

\* What was signed is what the signer was shown and what the agency holds, unless the
\* sending or another edit overtook an edit (sign_proposal, _replace_line_items).
THEOREM SignersSawIt == ProposalSpec => []SignedAsShown
<1>1. ProposalInv => SignedAsShown
  BY DEF ProposalInv, SignedAsShown, ShowsPaper, LinesOfTotal, GoneIsUnsigned
<1> QED
  BY InvAlways, <1>1, PTL

\* A decision is undone only by a request that loaded the proposal before a decision
\* (PROPOSAL_CLOSED_STATUSES).
THEOREM DecisionsStand == ProposalSpec => DecisionStands
<1> DEFINE Undone == status' # status /\ status \in ClosedStatuses => \E p \in Pages : LateCommit(p)
<1>1. ASSUME ProposalInv, [ProposalNext]_proposalVars PROVE Undone
  <2> SUFFICES ASSUME status' # status, status \in ClosedStatuses
               PROVE  \E p \in Pages : LateCommit(p)
    OBVIOUS
  <2>1. PICK p \in Pages : CommitTurn(p)
    BY <1>1 DEF ProposalNext, OpenPage, OpenLink, SeeLines, Abort, AskEdit, AskDelete, AskSend,
                AskSign, AskDecline, Loads, Expire, proposalVars
  <2>2. turn[p].kind \in {"delete", "send", "sign", "decline"} \/ FirstView(turn[p])
    BY <1>1, <2>1, StatusAfter
  <2>3. turn[p].met \cap {"sign", "decline"} # {}
    BY <1>1, <2>2 DEF ProposalInv, MetDecision
  <2>4. turn[p] # NoTurn
    BY <2>1 DEF CommitTurn, NoTurn
  <2>5. turn'[p] = NoTurn
    BY <1>1, <2>1, OthersMet
  <2> QED
    BY <2>3, <2>4, <2>5 DEF LateCommit
<1>2. ProposalInv /\ [ProposalNext]_proposalVars => [Undone]_proposalVars
  BY <1>1
<1> QED
  BY InvAlways, <1>2, PTL DEF ProposalSpec, DecisionStands
=============================================================================

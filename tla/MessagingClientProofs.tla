----------------------- MODULE MessagingClientProofs -----------------------
(***************************************************************************)
(* Proofs about MessagingClient, for every number of messages, sends,      *)
(* moves and mishaps, every page size and every set of disturbances: a     *)
(* sent message is shown once, a loaded thread comes to show the newest    *)
(* messages without a gap, and the badge comes to be the unread count.     *)
(*                                                                         *)
(* The inductive invariant has three parts.  Sane holds always: one answer  *)
(* is awaited, what is on the wire fits the log, a sending from here is    *)
(* one call and at most one message, and the composer's copies wait for    *)
(* their calls.  Follows holds as long as nothing has spoilt the thread:   *)
(* the last thing under way about a message says what the log has of it,   *)
(* and from the oldest message that is shown, or is coming, there is no    *)
(* gap up to the newest; a page under way closes on what is shown or       *)
(* comes behind it.  BadgeInv holds as long as nothing has spoilt the      *)
(* badge: the badge, or what the last thing under way that sets it will    *)
(* set it to, and the messages announced after that make up the server's   *)
(* unread count.                                                           *)
(***************************************************************************)
EXTENDS MessagingClient, SequenceTheorems, FiniteSetTheorems, WellFoundedInduction, TLAPS

-----------------------------------------------------------------------------
(* The inductive invariant: what is under way fits the state it will meet.  *)

\* One call is under way, the first, and one answer is awaited.
OneAnswer ==
    /\ \A i \in 1 .. Len(calls) : calls[i].sent => i = 1
    /\ \A i \in 1 .. Len(wire) : wire[i] \in Answer =>
         /\ calls # <<>> /\ calls[1].sent
         /\ \A j \in 1 .. Len(wire) : wire[j] \in Answer => j = i
    /\ calls # <<>> /\ calls[1].sent => \E i \in 1 .. Len(wire) : wire[i] \in Answer

\* A history that is still wanted belongs to the open thread, which has none yet.
CallFits(x) ==
    /\ x.op = "send" => x.at \in Nonces /\ x.body \in Bodies /\ x.send \in 1 .. spent.sends
    /\ x.op = "history" /\ x.live => pane.open /\ ~hydrated

CallsFit ==
    /\ \A i \in 1 .. Len(calls) : CallFits(calls[i])
    /\ \A i, j \in 1 .. Len(calls) :
         calls[i].op = "history" /\ calls[j].op = "history" /\ calls[i].live /\ calls[j].live
            => i = j

\* The badge has not counted what is announced.
EventFits(e) ==
    /\ online
    /\ e.type # "read" => e.id \in 1 .. Len(log) /\ e.by = log[e.id].by
    /\ e.type \in {"created", "updated"} => e.body \in Bodies
    /\ e.type = "created" => badge < e.id
    /\ e.type = "deleted" => log[e.id].body = Gone /\ e.body = Gone

Creates(m) == m \in Event /\ m.type = "created"

Awaited(op) == calls # <<>> /\ calls[1].op = op /\ calls[1].sent

\* The one message an answer brings is the one that was sent.
Brings(a, k) ==
    /\ log[k].by = "me" /\ log[k].send = calls[1].send
    /\ \A m \in Ids : a.messages[m] = IF m = k THEN calls[1].body ELSE Absent

AnswerFits(i) ==
    /\ wire[i].unread <= Len(log)
    /\ \A j \in 1 .. Len(wire) : j > i /\ Creates(wire[j]) => wire[i].unread < wire[j].id
    /\ \A k \in Ids : wire[i].messages[k] # Absent => k \in 1 .. Len(log)
    /\ wire[i].type = "reply" /\ Awaited("send") => \E k \in 1 .. Len(log) : Brings(wire[i], k)

WireFits ==
    /\ \A i \in 1 .. Len(wire) : wire[i] \in Event => EventFits(wire[i])
    /\ \A i \in 1 .. Len(wire) : wire[i] \in Answer => AnswerFits(i)
    /\ \A i, j \in 1 .. Len(wire) :
         i < j /\ Creates(wire[i]) /\ Creates(wire[j]) => wire[i].id < wire[j].id

StoreFits ==
    /\ \A k \in Ids : thread[k] # Absent => k \in 1 .. Len(log)
    /\ badge <= Len(log)
    /\ pane.seq <= spent.sends

\* Every sending from here is one call and at most one message.
SendsApart ==
    /\ \A i, j \in 1 .. Len(log) : log[i].send # 0 /\ log[i].send = log[j].send => i = j
    /\ \A i \in 1 .. Len(log) : log[i].send <= spent.sends
    /\ \A i, j \in 1 .. Len(calls) :
         calls[i].op = "send" /\ calls[j].op = "send" /\ calls[i].send = calls[j].send => i = j
    /\ \A i \in 1 .. Len(calls) : \A k \in 1 .. Len(log) :
         calls[i].op = "send" /\ ~calls[i].sent => log[k].send # calls[i].send

\* What the composer put there stays until its call is answered, at the longest.
SendOf(x, n) ==
    /\ x.op = "send" /\ x.at = n
    /\ x.send = optimistic[n].send /\ x.body = optimistic[n].body

EntriesAwait ==
    \A n \in Nonces :
        optimistic[n] # Absent => \E i \in 1 .. Len(calls) : SendOf(calls[i], n)

\* The event is about message k.
About(k, m) == m \in Event /\ m.type # "read" /\ m.id = k

\* Before the answer to a send there is nothing about its message but its echo.
EchoFirst ==
    \A i, j \in 1 .. Len(wire) : \A k \in 1 .. Len(log) :
        wire[i] \in Answer /\ Awaited("send") /\ log[k].send = calls[1].send
            /\ j < i /\ About(k, wire[j])
          => wire[j].type = "created" /\ wire[j].by = "me" /\ wire[j].body = calls[1].body

NoneAfter(k, i) == \A j \in 1 .. Len(wire) : j > i => ~About(k, wire[j])

\* The last event about a message says what the server has.
EventsCurrent ==
    \A i \in 1 .. Len(wire) : \A k \in 1 .. Len(log) :
        About(k, wire[i]) /\ NoneAfter(k, i) => wire[i].body = log[k].body

Sane ==
    /\ MessagingTypeOK /\ OneAnswer /\ CallsFit /\ WireFits /\ StoreFits /\ SendsApart
    /\ EntriesAwait /\ EchoFirst /\ EventsCurrent

-----------------------------------------------------------------------------
(* A thread that no disturbance has spoilt.                                 *)

Reply(i, op) == wire[i] \in Answer /\ wire[i].type = "reply" /\ Awaited(op)

\* An answer that will be shown.
Counts(i) ==
    \/ hydrated /\ (Reply(i, "older") \/ Reply(i, "send"))
    \/ Reply(i, "history") /\ calls[1].live

AnswerCurrent ==
    \A i \in 1 .. Len(wire) : \A k \in 1 .. Len(log) :
        Counts(i) /\ wire[i].messages[k] # Absent /\ NoneAfter(k, i)
          => wire[i].messages[k] = log[k].body

ThreadCurrent ==
    hydrated => \A k \in 1 .. Len(log) :
        thread[k] # Absent /\ NoneAfter(k, 0) => thread[k] = log[k].body

\* Something on the wire puts message k into the thread.
Coming(k) ==
    \E i \in 1 .. Len(wire) :
        \/ Creates(wire[i]) /\ wire[i].id = k
        \/ Reply(i, "send") /\ wire[i].messages[k] # Absent

Covered(k) == thread[k] # Absent \/ Coming(k)

NoGap ==
    hydrated =>
        /\ \A j, k \in 1 .. Len(log) : j < k /\ Covered(j) => Covered(k)
        /\ log # <<>> => Covered(Len(log))

OlderCalls ==
    \A i \in 1 .. Len(calls) : calls[i].op = "older" =>
        hydrated /\ \A k \in 1 .. Len(log) : k >= calls[i].at => Covered(k)

OlderReply ==
    \A i \in 1 .. Len(wire) : Reply(i, "older") =>
        \A j, k \in 1 .. Len(log) :
            j < k /\ wire[i].messages[j] # Absent => wire[i].messages[k] # Absent \/ Covered(k)

PageCovers(i, k) ==
    \/ wire[i].messages[k] # Absent
    \/ \E j \in 1 .. Len(wire) : j > i /\ Creates(wire[j]) /\ wire[j].id = k

HistoryFits ==
    \A i \in 1 .. Len(wire) : Reply(i, "history") /\ calls[1].live =>
        /\ \A j, k \in 1 .. Len(log) : j < k /\ PageCovers(i, j) => PageCovers(i, k)
        /\ log # <<>> => PageCovers(i, Len(log))

Follows ==
    /\ AnswerCurrent /\ ThreadCurrent /\ NoGap /\ OlderCalls /\ OlderReply /\ HistoryFits

ThreadInv == "thread" \notin disturbed => Follows /\ SentOnce

MessagingInv == Sane /\ ThreadInv

-----------------------------------------------------------------------------
(* Kinds of values.                                                          *)

LEMMA Kinds ==
    /\ Gone \notin Bodies /\ Absent \notin Bodies /\ Absent # Gone
    /\ Absent \notin Optimistic
    /\ Page \in Nat /\ Page >= 1 /\ Page <= MaxMessages
    /\ MaxMessages \in Nat /\ MaxSends \in Nat /\ MaxMoves \in Nat /\ MaxMishaps \in Nat
    /\ \A m \in Event : /\ m \notin Answer /\ m.id \in 0 .. MaxMessages
                        /\ m.body \in Bodies \cup {Gone} /\ m.by \in {"me", "other"}
                        /\ m.type \in {"created", "updated", "deleted", "read"}
    /\ \A m \in Answer : /\ m \notin Event /\ m.messages \in Copies
                         /\ m.type \in {"reply", "error"} /\ m.unread \in 0 .. MaxMessages
    /\ \A x \in Call : /\ x.op \in {"history", "older", "list", "send", "read"}
                       /\ x.body \in Bodies \cup {Gone} /\ x.send \in 0 .. MaxSends
                       /\ x.live \in BOOLEAN /\ x.sent \in BOOLEAN
                       /\ x.at \in (0 .. MaxMessages + 1) \cup Nonces
    /\ \A x \in Message : /\ x.by \in {"me", "other"} /\ x.body \in Bodies \cup {Gone}
                          /\ x.send \in 0 .. MaxSends
  BY MessagingAssumption DEF MessagingAssumption, Event, Answer, Call, Message

LEMMA Carried ==
    ASSUME MessagingTypeOK
    PROVE  /\ log \in Seq(Message) /\ Len(log) \in 0 .. MaxMessages
           /\ \A i \in 1 .. Len(log) : log[i] \in Message
           /\ calls \in Seq(Call) /\ Len(calls) \in Nat
           /\ \A i \in 1 .. Len(calls) : calls[i] \in Call
           /\ wire \in Seq(Event \cup Answer) /\ Len(wire) \in Nat
           /\ \A i \in 1 .. Len(wire) : wire[i] \in Event \cup Answer
<1>1. log \in Seq(Message) /\ calls \in Seq(Call) /\ wire \in Seq(Event \cup Answer)
  BY DEF MessagingTypeOK
<1>2. Len(log) \in Nat /\ \A i \in 1 .. Len(log) : log[i] \in Message
  BY <1>1, LenProperties
<1>3. Len(calls) \in Nat /\ \A i \in 1 .. Len(calls) : calls[i] \in Call
  BY <1>1, LenProperties
<1>4. Len(wire) \in Nat /\ \A i \in 1 .. Len(wire) : wire[i] \in Event \cup Answer
  BY <1>1, LenProperties
<1>5. Len(log) <= MaxMessages
  BY DEF MessagingTypeOK
<1> QED BY <1>1, <1>2, <1>3, <1>4, <1>5, Kinds

\* What is unread is among what there is.
LEMMA UnreadBounded ==
    ASSUME MessagingTypeOK
    PROVE  UnreadCount \in 0 .. Len(log) /\ UnreadCount \in 0 .. MaxMessages
<1> DEFINE U == {i \in DOMAIN log : i > lastRead /\ log[i].by = "other" /\ log[i].body # Gone}
<1>1. log \in Seq(Message) /\ Len(log) \in Nat /\ Len(log) <= MaxMessages
  BY Carried, Kinds
<1>2. DOMAIN log = 1 .. Len(log)
  BY <1>1, LenProperties
<1>3. U \subseteq 1 .. Len(log)
  BY <1>2
<1>4. IsFiniteSet(1 .. Len(log)) /\ Cardinality(1 .. Len(log)) = Len(log)
  BY <1>1, FS_Interval
<1>5. IsFiniteSet(U) /\ Cardinality(U) <= Cardinality(1 .. Len(log))
  BY <1>3, <1>4, FS_Subset
<1>6. Cardinality(U) \in Nat
  BY <1>5, FS_CardinalityType
<1>7. UnreadCount = Cardinality(U)
  BY DEF UnreadCount
<1> HIDE DEF U
<1> QED BY <1>1, <1>4, <1>5, <1>6, <1>7, Kinds

LEMMA InitMessaging == MessagingInit => MessagingInv
<1> SUFFICES ASSUME MessagingInit PROVE MessagingInv
  OBVIOUS
<1>1. PICK n \in 0 .. Page, b \in Bodies :
        log = [i \in 1 .. n |-> [by |-> "other", body |-> b, send |-> 0]]
  BY DEF MessagingInit
<1>2. n \in Nat /\ n <= MaxMessages
  BY Kinds
<1>3. \A i \in 1 .. n : log[i] \in Message
  BY <1>1, Kinds DEF Message
<1>4. log \in Seq(Message)
  BY <1>1, <1>2, <1>3, IsASeq
<1>5. Len(log) = n
  BY <1>1, <1>2, LenProperties, <1>4
<1>6. /\ calls = <<>> /\ wire = <<>> /\ Len(calls) = 0 /\ Len(wire) = 0
      /\ hydrated = FALSE /\ pane = Closed /\ online = FALSE /\ disturbed = {}
      /\ spent = [moves |-> 0, mishaps |-> 0, sends |-> 0]
  BY DEF MessagingInit
<1>7. thread = [i \in Ids |-> Absent] /\ optimistic = [i \in Nonces |-> Absent]
  BY DEF MessagingInit
<1>8. badge = UnreadCount /\ lastRead \in 0 .. Len(log)
  BY DEF MessagingInit
<1>9. badge \in 0 .. Len(log)
  <2> DEFINE U == {i \in DOMAIN log : i > lastRead /\ log[i].by = "other" /\ log[i].body # Gone}
  <2>1. U \subseteq 1 .. n
    BY <1>1
  <2>2. IsFiniteSet(1 .. n) /\ Cardinality(1 .. n) = n
    BY <1>2, FS_Interval
  <2>3. IsFiniteSet(U) /\ Cardinality(U) <= Cardinality(1 .. n)
    BY <2>1, <2>2, FS_Subset
  <2>4. Cardinality(U) \in Nat
    BY <2>3, FS_CardinalityType
  <2>5. badge = Cardinality(U)
    BY <1>8 DEF UnreadCount
  <2> HIDE DEF U
  <2> QED BY <1>2, <1>5, <2>2, <2>3, <2>4, <2>5
<1>10. spent \in [moves: 0 .. MaxMoves, mishaps: 0 .. MaxMishaps, sends: 0 .. MaxSends]
  BY <1>6, Kinds
<1>11. MessagingTypeOK
  <2>1. thread \in Copies /\ optimistic \in [Nonces -> Optimistic \cup {Absent}]
    BY <1>7 DEF Copies
  <2>2. pane \in Pane
    BY <1>6, Kinds DEF Closed, Pane
  <2>3. calls \in Seq(Call) /\ wire \in Seq(Event \cup Answer)
    BY <1>6
  <2>4. badge \in 0 .. MaxMessages
    BY <1>2, <1>5, <1>9, Kinds
  <2> QED
    BY <1>2, <1>4, <1>5, <1>6, <1>8, <1>10, <2>1, <2>2, <2>3, <2>4 DEF MessagingTypeOK
<1>12. SendsApart
  <2>1. \A i \in 1 .. Len(log) : log[i].send = 0
    BY <1>1, <1>5
  <2> QED BY <1>6, <2>1, Kinds DEF SendsApart
<1>13. StoreFits
  <2>1. pane.seq = 0 /\ spent.sends = 0
    BY <1>6 DEF Closed
  <2> QED BY <1>7, <1>9, <2>1, <1>2, <1>5 DEF StoreFits
<1>14. OneAnswer /\ CallsFit /\ WireFits /\ EntriesAwait /\ EchoFirst /\ EventsCurrent
  BY <1>6, <1>7 DEF OneAnswer, CallsFit, WireFits, EntriesAwait, EchoFirst, EventsCurrent
<1>15. Follows /\ SentOnce
  <2>1. SentOnce
    BY <1>7 DEF SentOnce
  <2>2. OlderCalls /\ OlderReply /\ HistoryFits /\ AnswerCurrent
    BY <1>6 DEF OlderCalls, OlderReply, HistoryFits, AnswerCurrent
  <2>3. ThreadCurrent /\ NoGap
    BY <1>6 DEF ThreadCurrent, NoGap
  <2> QED BY <2>1, <2>2, <2>3 DEF Follows
<1> QED
  BY <1>11, <1>12, <1>13, <1>14, <1>15 DEF MessagingInv, Sane, ThreadInv

-----------------------------------------------------------------------------
(* What happens in the browser.                                              *)

SameCall(x, y) ==
    /\ x.op = y.op /\ x.at = y.at /\ x.body = y.body /\ x.send = y.send /\ x.sent = y.sent
    /\ x.live => y.live

\* The queue is what it was, with one more call perhaps; histories may be unwanted now.
CallsMore ==
    /\ calls' \in Seq(Call) /\ Len(calls') \in {Len(calls), Len(calls) + 1}
    /\ \A i \in 1 .. Len(calls) : SameCall(calls'[i], calls[i])
    /\ \A i \in 1 .. Len(calls') : i > Len(calls) => ~calls'[i].sent

LEMMA QueueGrows ==
    ASSUME Sane, CallsMore
    PROVE  /\ calls # <<>> => calls' # <<>> /\ SameCall(calls'[1], calls[1])
           /\ (calls' # <<>> /\ calls'[1].sent) <=> (calls # <<>> /\ calls[1].sent)
           /\ \A op : Awaited(op)' <=> Awaited(op)
           /\ Len(calls) \in Nat /\ Len(calls') \in Nat
<1>1. calls \in Seq(Call) /\ Len(calls) \in Nat
  BY Carried DEF Sane
<1>2. calls' \in Seq(Call) /\ Len(calls') \in Nat
  BY LenProperties DEF CallsMore
<1>3. calls = <<>> <=> Len(calls) = 0
  BY <1>1, EmptySeq
<1>4. calls' = <<>> <=> Len(calls') = 0
  BY <1>2, EmptySeq
<1>5. calls # <<>> => calls' # <<>> /\ SameCall(calls'[1], calls[1])
  BY <1>1, <1>2, <1>3, <1>4 DEF CallsMore
<1>6. calls = <<>> => (calls' # <<>> => ~calls'[1].sent)
  BY <1>1, <1>2, <1>3, <1>4 DEF CallsMore
<1> QED BY <1>1, <1>2, <1>5, <1>6 DEF Awaited, SameCall

LEMMA LocalSane ==
    ASSUME Sane, UNCHANGED <<log, wire, thread, hydrated>>, badge' \in {0, badge},
           CallsMore, online => online', pane'.seq <= spent'.sends,
           MessagingTypeOK', CallsFit', SendsApart', EntriesAwait'
    PROVE  Sane'
<1>1. /\ calls # <<>> => SameCall(calls'[1], calls[1])
      /\ (calls' # <<>> /\ calls'[1].sent) <=> (calls # <<>> /\ calls[1].sent)
      /\ Awaited("send")' <=> Awaited("send")
      /\ Len(calls) \in Nat /\ Len(calls') \in Nat
  BY QueueGrows
<1>2. /\ Len(log) \in Nat /\ Len(wire) \in Nat
      /\ \A i \in 1 .. Len(wire) : wire[i] \in Event \cup Answer
  BY Carried DEF Sane
<1>3. badge' <= badge /\ badge \in Nat
  BY DEF Sane, MessagingTypeOK
<1>4. OneAnswer'
  BY <1>1 DEF Sane, OneAnswer, CallsMore, SameCall
<1>5. WireFits'
  <2>1. ASSUME NEW i \in 1 .. Len(wire), wire[i] \in Event
        PROVE  EventFits(wire[i])'
    BY <1>2, <1>3, <2>1, Kinds DEF Sane, WireFits, EventFits
  <2>2. ASSUME NEW i \in 1 .. Len(wire), wire[i] \in Answer
        PROVE  AnswerFits(i)'
    <3>1. AnswerFits(i)
      BY <2>2 DEF Sane, WireFits
    <3>2. Awaited("send") => calls'[1].send = calls[1].send /\ calls'[1].body = calls[1].body
      BY <1>1 DEF Awaited, SameCall
    <3>3. ASSUME wire[i].type = "reply", Awaited("send")
          PROVE  \E k \in 1 .. Len(log) : Brings(wire[i], k)'
      BY <3>1, <3>2, <3>3 DEF AnswerFits, Brings
    <3> QED BY <1>1, <3>1, <3>3 DEF AnswerFits, Creates
  <2> QED BY <2>1, <2>2 DEF Sane, WireFits, Creates
<1>6. StoreFits'
  BY <1>2, <1>3 DEF Sane, StoreFits
<1>7. EchoFirst'
  <2>1. Awaited("send") => calls'[1].send = calls[1].send /\ calls'[1].body = calls[1].body
    BY <1>1 DEF Awaited, SameCall
  <2>2. EchoFirst
    BY DEF Sane
  <2>3. \A k, m : About(k, m)' <=> About(k, m)
    BY DEF About
  <2> QED BY <1>1, <2>1, <2>2, <2>3 DEF EchoFirst
<1>8. EventsCurrent'
  BY DEF Sane, EventsCurrent, NoneAfter, About
<1> QED BY <1>4, <1>5, <1>6, <1>7, <1>8 DEF Sane

\* What is covered stays covered: neither the wire nor the thread has changed.
LEMMA LocalCovered ==
    ASSUME Sane, UNCHANGED <<log, wire, thread>>, CallsMore
    PROVE  /\ \A k : Covered(k)' <=> Covered(k)
           /\ \A i, op : Reply(i, op)' <=> Reply(i, op)
<1>1. \A op : Awaited(op)' <=> Awaited(op)
  BY QueueGrows
<1>2. \A i, op : Reply(i, op)' <=> Reply(i, op)
  BY <1>1 DEF Reply
<1> QED BY <1>2 DEF Covered, Coming, Creates

LEMMA LocalFollows ==
    ASSUME Sane, Follows, UNCHANGED <<log, wire, thread, hydrated>>, CallsMore, OlderCalls'
    PROVE  Follows'
<1>1. \A k : Covered(k)' <=> Covered(k)
  BY LocalCovered
<1>2. \A i, op : Reply(i, op)' <=> Reply(i, op)
  BY LocalCovered
<1>3. \A i : Reply(i, "history") /\ calls'[1].live => calls[1].live
  BY QueueGrows DEF Reply, Awaited, SameCall
<1>4. \A i : Counts(i)' => Counts(i)
  BY <1>2, <1>3 DEF Counts
<1>5. AnswerCurrent'
  BY <1>4 DEF Follows, AnswerCurrent, NoneAfter, About
<1>6. ThreadCurrent'
  BY DEF Follows, ThreadCurrent, NoneAfter, About
<1>7. NoGap'
  BY <1>1 DEF Follows, NoGap
<1>8. OlderReply'
  BY <1>1, <1>2 DEF Follows, OlderReply
<1>9. HistoryFits'
  BY <1>2, <1>3 DEF Follows, HistoryFits, PageCovers, Creates
<1> QED BY <1>5, <1>6, <1>7, <1>8, <1>9 DEF Follows

\* A browser's step that asks for nothing the thread depends on.
LEMMA LocalKeeps ==
    ASSUME MessagingInv, UNCHANGED <<log, wire, thread, hydrated>>, badge' \in {0, badge},
           CallsMore, online => online', pane'.seq <= spent'.sends,
           MessagingTypeOK', CallsFit', SendsApart', EntriesAwait',
           "thread" \notin disturbed' => "thread" \notin disturbed /\ OlderCalls' /\ SentOnce'
    PROVE  MessagingInv'
<1>1. Sane'
  BY LocalSane DEF MessagingInv
<1>2. "thread" \notin disturbed' => Follows' /\ SentOnce'
  BY LocalFollows DEF MessagingInv, ThreadInv
<1> QED BY <1>1, <1>2 DEF MessagingInv, ThreadInv

Ceiling == [moves: 0 .. MaxMoves, mishaps: 0 .. MaxMishaps, sends: 0 .. MaxSends]

LEMMA Counting ==
    ASSUME MessagingTypeOK
    PROVE  /\ spent \in Ceiling /\ spent.sends \in 0 .. MaxSends
           /\ Move => spent' \in Ceiling /\ spent'.sends = spent.sends
           /\ Mishap => spent' \in Ceiling /\ spent'.sends = spent.sends
<1>1. spent \in Ceiling
  BY DEF MessagingTypeOK, Ceiling
<1>2. Move => spent' \in Ceiling /\ spent'.sends = spent.sends
  BY <1>1, Kinds DEF Move, Ceiling
<1>3. Mishap => spent' \in Ceiling /\ spent'.sends = spent.sends
  BY <1>1, Kinds DEF Mishap, Ceiling
<1> QED BY <1>1, <1>2, <1>3 DEF Ceiling

LEMMA CallAdded ==
    ASSUME Sane, NEW x \in Call, ~x.sent, calls' = Append(calls, x)
    PROVE  /\ CallsMore /\ Len(calls') = Len(calls) + 1 /\ calls'[Len(calls) + 1] = x
           /\ \A i \in 1 .. Len(calls) : calls'[i] = calls[i]
<1>1. calls \in Seq(Call) /\ Len(calls) \in Nat
  BY Carried DEF Sane
<1>2. /\ calls' \in Seq(Call) /\ Len(calls') = Len(calls) + 1 /\ calls'[Len(calls) + 1] = x
      /\ \A i \in 1 .. Len(calls) : calls'[i] = calls[i]
  BY <1>1, AppendProperties
<1> QED BY <1>1, <1>2 DEF CallsMore, SameCall

\* The composer's entries and the sends do not care about other calls.
LEMMA OtherThanSends ==
    ASSUME Sane, CallsMore, UNCHANGED <<log, optimistic, thread>>, spent'.sends = spent.sends,
           \A i \in 1 .. Len(calls') : i > Len(calls) => calls'[i].op # "send"
    PROVE  /\ SendsApart' /\ EntriesAwait'
           /\ ("thread" \notin disturbed' /\ "thread" \notin disturbed /\ SentOnce => SentOnce')
<1>1. Len(calls) \in Nat /\ Len(calls') \in Nat /\ Len(calls') \in {Len(calls), Len(calls) + 1}
  BY QueueGrows DEF CallsMore
<1>2. \A i \in 1 .. Len(calls') :
        calls'[i].op = "send" => i \in 1 .. Len(calls) /\ SameCall(calls'[i], calls[i])
  BY <1>1 DEF CallsMore
<1>3. SendsApart'
  BY <1>2 DEF Sane, SendsApart, SameCall
<1>4. EntriesAwait'
  <2> SUFFICES ASSUME NEW n \in Nonces, optimistic[n] # Absent
               PROVE  \E i \in 1 .. Len(calls') : SendOf(calls[i], n)'
    BY DEF EntriesAwait
  <2>1. PICK i \in 1 .. Len(calls) : SendOf(calls[i], n)
    BY DEF Sane, EntriesAwait
  <2>2. i \in 1 .. Len(calls') /\ SameCall(calls'[i], calls[i])
    BY <1>1 DEF CallsMore
  <2>3. SendOf(calls[i], n)'
    BY <2>1, <2>2 DEF SendOf, SameCall
  <2> QED BY <2>2, <2>3
<1>5. "thread" \notin disturbed' /\ "thread" \notin disturbed /\ SentOnce => SentOnce'
  BY DEF SentOnce
<1> QED BY <1>3, <1>4, <1>5

LEMMA OtherCalls ==
    ASSUME Sane, CallsMore, UNCHANGED <<log, optimistic, thread, wire, hydrated>>,
           spent'.sends = spent.sends,
           \A i \in 1 .. Len(calls') : i > Len(calls) => calls'[i].op \notin {"send", "older"}
    PROVE  /\ SendsApart' /\ EntriesAwait' /\ (OlderCalls => OlderCalls')
           /\ ("thread" \notin disturbed' /\ "thread" \notin disturbed /\ SentOnce => SentOnce')
<1>1. Len(calls) \in Nat /\ Len(calls') \in Nat /\ Len(calls') \in {Len(calls), Len(calls) + 1}
  BY QueueGrows DEF CallsMore
<1>2. \A i \in 1 .. Len(calls') :
        calls'[i].op = "older" => i \in 1 .. Len(calls) /\ SameCall(calls'[i], calls[i])
  BY <1>1 DEF CallsMore
<1>3. OlderCalls => OlderCalls'
  BY <1>2, LocalCovered DEF OlderCalls, SameCall
<1> QED BY <1>3, OtherThanSends

LEMMA FitMore ==
    ASSUME Sane, CallsMore, hydrated' = hydrated, spent'.sends \in Nat,
           spent.sends <= spent'.sends, pane.open => pane'.open,
           \A i \in 1 .. Len(calls') :
             i > Len(calls) => CallFits(calls[i])' /\ (calls'[i].op = "history" => ~pane.open)
    PROVE  CallsFit'
<1>1. Len(calls) \in Nat /\ Len(calls') \in Nat /\ Len(calls') \in {Len(calls), Len(calls) + 1}
  BY QueueGrows DEF CallsMore
<1>2. spent.sends \in Nat
  BY Counting, Kinds DEF Sane
<1>3. ASSUME NEW i \in 1 .. Len(calls')
      PROVE  CallFits(calls[i])'
  <2>1. CASE i > Len(calls)
    BY <2>1
  <2>2. CASE i <= Len(calls)
    <3>1. i \in 1 .. Len(calls)
      BY <1>1, <2>2
    <3>2. CallFits(calls[i]) /\ SameCall(calls'[i], calls[i])
      BY <3>1 DEF Sane, CallsFit, CallsMore
    <3> QED BY <1>2, <3>2 DEF CallFits, SameCall
  <2> QED BY <1>1, <2>1, <2>2
<1>4. ASSUME NEW i \in 1 .. Len(calls'), NEW j \in 1 .. Len(calls'),
             calls'[i].op = "history", calls'[j].op = "history", calls'[i].live, calls'[j].live
      PROVE  i = j
  <2>1. CASE i \in 1 .. Len(calls) /\ j \in 1 .. Len(calls)
    BY <1>4, <2>1 DEF Sane, CallsFit, CallsMore, SameCall
  <2>2. ASSUME NEW k \in 1 .. Len(calls), calls'[k].op = "history", calls'[k].live
        PROVE  pane.open
    BY <2>2 DEF Sane, CallsFit, CallFits, CallsMore, SameCall
  <2>3. CASE ~(i \in 1 .. Len(calls) /\ j \in 1 .. Len(calls))
    BY <1>1, <1>4, <2>2, <2>3
  <2> QED BY <2>1, <2>3
<1> QED BY <1>3, <1>4 DEF CallsFit

LEMMA NewCallType ==
    ASSUME NEW op \in {"history", "older", "list", "send", "read"},
           NEW at \in (0 .. MaxMessages + 1) \cup Nonces, NEW body \in Bodies \cup {Gone},
           NEW send \in 0 .. MaxSends
    PROVE  /\ NewCall(op, at, body, send) \in Call
           /\ ~NewCall(op, at, body, send).sent /\ NewCall(op, at, body, send).op = op
           /\ NewCall(op, at, body, send).at = at /\ NewCall(op, at, body, send).body = body
           /\ NewCall(op, at, body, send).send = send
  BY DEF NewCall, Call

\* An action that enqueues a call for the list or for a mark-as-read, or none.
LEMMA PlainKeeps ==
    ASSUME MessagingInv, UNCHANGED <<log, lastRead, wire, thread, hydrated, optimistic>>,
           badge' \in {0, badge}, CallsMore, online => online', online' \in BOOLEAN,
           \A i \in 1 .. Len(calls') :
             i > Len(calls) => calls'[i].op \notin {"send", "older", "history"},
           spent' \in Ceiling, spent'.sends = spent.sends,
           pane' \in Pane, pane'.open = pane.open, pane'.seq = pane.seq,
           disturbed' = disturbed
    PROVE  MessagingInv'
<1>1. Sane
  BY DEF MessagingInv
<1>2. spent.sends \in Nat
  BY <1>1, Counting, Kinds DEF Sane
<1>3. CallsFit'
  BY <1>1, <1>2, FitMore DEF CallFits
<1>4. /\ SendsApart' /\ EntriesAwait'
      /\ "thread" \notin disturbed' => (OlderCalls => OlderCalls')
      /\ ("thread" \notin disturbed' /\ "thread" \notin disturbed /\ SentOnce => SentOnce')
  BY <1>1, OtherCalls
<1>5. MessagingTypeOK'
  BY <1>1, Kinds DEF Sane, MessagingTypeOK, CallsMore, Ceiling
<1>6. "thread" \notin disturbed' => "thread" \notin disturbed /\ OlderCalls' /\ SentOnce'
  BY <1>4 DEF MessagingInv, ThreadInv, Follows
<1>7. pane'.seq <= spent'.sends
  BY <1>1 DEF Sane, StoreFits
<1> QED BY <1>3, <1>4, <1>5, <1>6, <1>7, LocalKeeps

LEMMA RequestKeeps ==
    ASSUME MessagingInv, Relist \/ TimerFires \/ Connect
    PROVE  MessagingInv'
<1>1. Sane /\ MessagingTypeOK
  BY DEF MessagingInv, Sane
<1>2. PICK op \in {"list", "read"} : calls' = Append(calls, NewCall(op, 0, Gone, 0))
  BY DEF Relist, TimerFires, Connect, List
<1>3. /\ NewCall(op, 0, Gone, 0) \in Call /\ ~NewCall(op, 0, Gone, 0).sent
      /\ NewCall(op, 0, Gone, 0).op = op
  BY NewCallType, Kinds
<1>4. /\ CallsMore /\ Len(calls') = Len(calls) + 1
      /\ calls'[Len(calls) + 1].op = op /\ Len(calls) \in Nat
  BY <1>1, <1>2, <1>3, CallAdded, QueueGrows
<1>5. \A i \in 1 .. Len(calls') :
        i > Len(calls) => calls'[i].op \notin {"send", "older", "history"}
  BY <1>4
<1>6. spent' \in Ceiling /\ spent'.sends = spent.sends
  BY <1>1, Counting DEF Relist, TimerFires, Connect
<1>7. pane' \in Pane /\ pane'.open = pane.open /\ pane'.seq = pane.seq
  BY <1>1 DEF Relist, TimerFires, Connect, MessagingTypeOK, Pane
<1>8. /\ UNCHANGED <<log, lastRead, wire, thread, hydrated, optimistic>>
      /\ badge' = badge /\ (online => online') /\ online' \in BOOLEAN /\ disturbed' = disturbed
  BY <1>1 DEF Relist, TimerFires, Connect, MessagingTypeOK
<1> QED BY <1>4, <1>5, <1>6, <1>7, <1>8, PlainKeeps

LEMMA CountType == ASSUME NEW th, NEW op PROVE Count(th, op) \in Nat
<1> DEFINE Entries == {n \in Nonces : op[n] # Absent}
<1>1. IsFiniteSet(Ids) /\ IsFiniteSet(Nonces)
  BY Kinds, FS_Interval DEF Ids, Nonces
<1>2. Loaded(th) \subseteq Ids /\ Entries \subseteq Nonces
  BY DEF Loaded
<1>3. IsFiniteSet(Loaded(th)) /\ IsFiniteSet(Entries)
  BY <1>1, <1>2, FS_Subset
<1>4. Cardinality(Loaded(th)) \in Nat /\ Cardinality(Entries) \in Nat
  BY <1>3, FS_CardinalityType
<1>5. Count(th, op) = Cardinality(Loaded(th)) + Cardinality(Entries)
  BY DEF Count
<1> HIDE DEF Entries
<1> QED BY <1>4, <1>5

\* What the store becomes, and the little the pane adds to it.
LEMMA Showing ==
    ASSUME NEW th, NEW op, NEW unread, NEW p \in Pane, Show(th, op, unread, p)
    PROVE  /\ thread' = th /\ optimistic' = op /\ badge' \in {0, unread}
           /\ pane' \in Pane /\ pane'.open = p.open /\ pane'.seq = p.seq
<1>1. PICK n : n = Count(th, op)
  OBVIOUS
<1>2. n \in Nat /\ (n > 0) \in BOOLEAN
  BY <1>1, CountType
<1>3. thread' = th /\ optimistic' = op /\ badge' \in {0, unread}
  BY DEF Show
<1>4. pane' \in {p, [p EXCEPT !.timer = (n > 0)]}
  BY <1>1 DEF Show
<1>5. PICK t \in BOOLEAN : pane' \in {p, [p EXCEPT !.timer = t]}
  BY <1>2, <1>4
<1>6. pane' \in Pane /\ pane'.open = p.open /\ pane'.seq = p.seq
  BY <1>5 DEF Pane
<1> QED BY <1>3, <1>6

LEMMA OpenKeeps ==
    ASSUME MessagingInv, OpenThread
    PROVE  MessagingInv'
<1>1. Sane /\ MessagingTypeOK
  BY DEF MessagingInv, Sane
<1>2. /\ UNCHANGED <<log, lastRead, thread, optimistic, hydrated, online, wire, disturbed>>
      /\ ~pane.open /\ badge' \in {0, badge}
  BY DEF OpenThread, IsOpen
<1>3. spent' \in Ceiling /\ spent'.sends = spent.sends /\ spent.sends \in 0 .. MaxSends
  BY <1>1, Counting DEF OpenThread
<1>4. PICK n : n = Count(thread, optimistic)
  OBVIOUS
<1>5. n \in Nat /\ (n > 0) \in BOOLEAN
  BY <1>4, CountType
<1>6. pane' = [Closed EXCEPT !.open = TRUE, !.timer = (n > 0)]
  BY <1>4 DEF OpenThread
<1>7. pane' \in Pane /\ pane'.open /\ pane'.seq = 0
  <2>1. PICK t \in BOOLEAN : pane' = [Closed EXCEPT !.open = TRUE, !.timer = t]
    BY <1>5, <1>6
  <2>2. Closed \in Pane /\ Closed.seq = 0
    BY Kinds DEF Closed, Pane
  <2> QED BY <2>1, <2>2 DEF Pane
<1>8. pane'.seq <= spent'.sends /\ spent'.sends \in Nat
  BY <1>3, <1>7, Kinds
<1>9. CASE hydrated
  <2>1. calls' = calls
    BY <1>9 DEF OpenThread
  <2>2. CallsMore
    BY <2>1, <1>1, Carried DEF CallsMore, SameCall
  <2>3. \A i \in 1 .. Len(calls') : ~(i > Len(calls))
    BY <2>1, <1>1, Carried
  <2>4. CallsFit'
    BY <1>1, <1>2, <1>3, <1>7, <1>8, <2>2, <2>3, FitMore
  <2>5. MessagingTypeOK'
    BY <1>1, <1>2, <1>3, <1>7, <2>2, Kinds DEF MessagingTypeOK, Ceiling, CallsMore
  <2>6. /\ SendsApart' /\ EntriesAwait' /\ (OlderCalls => OlderCalls')
        /\ ("thread" \notin disturbed' /\ "thread" \notin disturbed /\ SentOnce => SentOnce')
    BY <1>1, <1>2, <1>3, <2>2, <2>3, OtherCalls
  <2>7. "thread" \notin disturbed' => "thread" \notin disturbed /\ OlderCalls' /\ SentOnce'
    BY <1>2, <2>6 DEF MessagingInv, ThreadInv, Follows
  <2> QED BY <1>2, <1>8, <2>2, <2>4, <2>5, <2>6, <2>7, LocalKeeps
<1>10. CASE ~hydrated
  <2> DEFINE at == Len(log) + 1
  <2>1. calls' = Append(calls, NewCall("history", at, Gone, 0))
    BY <1>10 DEF OpenThread
  <2>2. at \in 0 .. MaxMessages + 1
    BY <1>1, Carried, Kinds
  <2> HIDE DEF at
  <2>3. PICK x : x = NewCall("history", at, Gone, 0)
    OBVIOUS
  <2>4. x \in Call /\ ~x.sent /\ x.op = "history"
    BY <2>2, <2>3, NewCallType, Kinds
  <2>5. /\ CallsMore /\ Len(calls') = Len(calls) + 1 /\ calls'[Len(calls) + 1] = x
    BY <1>1, <2>1, <2>3, <2>4, CallAdded
  <2>6. \A i \in 1 .. Len(calls') : i > Len(calls) => calls'[i] = x
    BY <2>5, <1>1, Carried
  <2>7. \A i \in 1 .. Len(calls') : i > Len(calls) => CallFits(calls[i])'
    BY <1>2, <1>7, <1>10, <2>4, <2>6 DEF CallFits
  <2>8. CallsFit'
    BY <1>1, <1>2, <1>3, <1>7, <1>8, <2>5, <2>7, FitMore
  <2>9. MessagingTypeOK'
    BY <1>1, <1>2, <1>3, <1>7, <2>5, Kinds DEF MessagingTypeOK, Ceiling, CallsMore
  <2>10. /\ SendsApart' /\ EntriesAwait' /\ (OlderCalls => OlderCalls')
         /\ ("thread" \notin disturbed' /\ "thread" \notin disturbed /\ SentOnce => SentOnce')
    BY <1>1, <1>2, <1>3, <2>4, <2>5, <2>6, OtherCalls
  <2>11. "thread" \notin disturbed' => "thread" \notin disturbed /\ OlderCalls' /\ SentOnce'
    BY <1>2, <2>10 DEF MessagingInv, ThreadInv, Follows
  <2> QED BY <1>2, <1>8, <2>5, <2>8, <2>9, <2>10, <2>11, LocalKeeps
<1> QED BY <1>9, <1>10

LEMMA CloseKeeps ==
    ASSUME MessagingInv, CloseThread
    PROVE  MessagingInv'
<1>1. Sane /\ MessagingTypeOK
  BY DEF MessagingInv, Sane
<1>2. UNCHANGED <<log, lastRead, thread, optimistic, hydrated, badge, online, wire>>
  BY DEF CloseThread
<1>3. spent' \in Ceiling /\ spent'.sends = spent.sends /\ spent.sends \in 0 .. MaxSends
  BY <1>1, Counting DEF CloseThread, Disturb, Undisturbed
<1>4. disturbed' \in SUBSET {"thread", "badge"} /\ disturbed \subseteq disturbed'
  BY <1>1 DEF CloseThread, Disturb, Undisturbed, MessagingTypeOK
<1>5. pane' \in Pane /\ pane'.seq = 0
  BY Kinds DEF CloseThread, Closed, Pane
<1>6. calls \in Seq(Call) /\ Len(calls) \in Nat /\ DOMAIN calls = 1 .. Len(calls)
      /\ \A i \in 1 .. Len(calls) : calls[i] \in Call
  BY <1>1, Carried, LenProperties
<1>7. calls' = [i \in 1 .. Len(calls) |->
                  IF calls[i].op = "history" THEN [calls[i] EXCEPT !.live = FALSE] ELSE calls[i]]
  BY <1>6 DEF CloseThread
<1>8. \A i \in 1 .. Len(calls) :
        /\ calls'[i] \in Call /\ SameCall(calls'[i], calls[i])
        /\ calls'[i].op = "history" => ~calls'[i].live
  BY <1>6, <1>7 DEF Call, SameCall
<1>9. calls' \in Seq(Call)
  BY <1>6, <1>7, <1>8, IsASeq
<1>10. Len(calls') = Len(calls)
  BY <1>6, <1>7, <1>9, LenProperties
<1>11. CallsMore
  BY <1>6, <1>8, <1>9, <1>10 DEF CallsMore
<1>12. CallsFit'
  BY <1>1, <1>3, <1>8, <1>10 DEF Sane, CallsFit, CallFits, SameCall
<1>13. MessagingTypeOK'
  BY <1>1, <1>2, <1>3, <1>4, <1>5, <1>9 DEF MessagingTypeOK, Ceiling
<1>14. \A i \in 1 .. Len(calls') : i > Len(calls) => calls'[i].op \notin {"send", "older"}
  BY <1>6, <1>10
<1>15. /\ SendsApart' /\ EntriesAwait' /\ (OlderCalls => OlderCalls')
       /\ ("thread" \notin disturbed' /\ "thread" \notin disturbed /\ SentOnce => SentOnce')
  BY <1>1, <1>2, <1>3, <1>11, <1>14, OtherCalls
<1>16. "thread" \notin disturbed' => "thread" \notin disturbed /\ OlderCalls' /\ SentOnce'
  BY <1>4, <1>15 DEF MessagingInv, ThreadInv, Follows
<1>17. pane'.seq <= spent'.sends
  BY <1>3, <1>5, Kinds
<1> QED BY <1>2, <1>11, <1>12, <1>13, <1>15, <1>16, <1>17, LocalKeeps

LEMMA SendKeeps ==
    ASSUME MessagingInv, NEW b \in Bodies, Send(b)
    PROVE  MessagingInv'
<1>1. Sane /\ MessagingTypeOK /\ SendsApart /\ EntriesAwait /\ CallsFit
  BY DEF MessagingInv, Sane
<1>2. PICK n, s, e, x, p :
        /\ n = pane.seq + 1 /\ s = spent.sends + 1 /\ e = [body |-> b, send |-> s]
        /\ x = NewCall("send", n, b, s) /\ p = [pane EXCEPT !.sending = TRUE, !.seq = n]
  OBVIOUS
<1>3. /\ UNCHANGED <<log, lastRead, hydrated, online, wire, disturbed>>
      /\ spent' = [spent EXCEPT !.sends = s] /\ calls' = Append(calls, x)
      /\ Show(thread, [optimistic EXCEPT ![n] = e], badge, p)
      /\ spent.sends < MaxSends /\ pane.open
  BY <1>2 DEF Send, IsOpen
<1>4. spent \in Ceiling /\ spent.sends \in 0 .. MaxSends /\ pane \in Pane
      /\ pane.seq \in 0 .. MaxSends /\ pane.seq <= spent.sends
  BY <1>1, Counting DEF Sane, StoreFits, MessagingTypeOK, Pane
<1>5. /\ s \in 1 .. MaxSends /\ n \in 1 .. MaxSends /\ n <= s
      /\ s = spent.sends + 1
  BY <1>2, <1>3, <1>4, Kinds
<1>6. spent' \in Ceiling /\ spent'.sends = s
  BY <1>3, <1>4, <1>5 DEF Ceiling
<1>7. p \in Pane /\ p.open = pane.open /\ p.seq = n
  <2>1. n \in 0 .. MaxSends
    BY <1>5, Kinds
  <2>2. p = [pane EXCEPT !.sending = TRUE, !.seq = n] /\ pane \in Pane
    BY <1>2, <1>4
  <2> QED BY <2>1, <2>2 DEF Pane
<1>8. /\ thread' = thread /\ optimistic' = [optimistic EXCEPT ![n] = e] /\ badge' \in {0, badge}
      /\ pane' \in Pane /\ pane'.open = pane.open /\ pane'.seq = n
  BY <1>3, <1>7, Showing
<1>9. e \in Optimistic /\ e # Absent /\ e.body = b /\ e.send = s
  BY <1>2, <1>5, Kinds DEF Optimistic, Nonces
<1>10. /\ x \in Call /\ ~x.sent /\ x.op = "send" /\ x.at = n /\ x.body = b /\ x.send = s
  BY <1>2, <1>5, NewCallType DEF Nonces
<1>11. /\ CallsMore /\ Len(calls') = Len(calls) + 1 /\ calls'[Len(calls) + 1] = x
       /\ \A i \in 1 .. Len(calls) : calls'[i] = calls[i]
  BY <1>1, <1>3, <1>10, CallAdded
<1>12. PICK l \in Nat : l = Len(calls)
  BY <1>1, Carried
<1>13. \A i \in 1 .. Len(calls') : (i = l + 1 /\ calls'[i] = x)
                                   \/ (i \in 1 .. l /\ calls'[i] = calls[i])
  BY <1>11, <1>12
<1>14. CallsFit'
  <2>1. \A i \in 1 .. Len(calls') : i > Len(calls) => CallFits(calls[i])' /\ calls'[i] = x
    BY <1>5, <1>6, <1>10, <1>12, <1>13 DEF CallFits, Nonces
  <2> QED BY <1>1, <1>3, <1>4, <1>5, <1>6, <1>8, <1>10, <1>11, <2>1, FitMore
<1>15. optimistic \in [Nonces -> Optimistic \cup {Absent}] /\ n \in Nonces
  BY <1>1, <1>5 DEF MessagingTypeOK, Nonces
<1>16. MessagingTypeOK'
  <2>1. optimistic' \in [Nonces -> Optimistic \cup {Absent}]
    BY <1>8, <1>9, <1>15
  <2>2. badge' \in 0 .. MaxMessages
    BY <1>1, <1>8, Kinds DEF MessagingTypeOK
  <2>3. calls' \in Seq(Call)
    BY <1>11 DEF CallsMore
  <2> QED BY <1>1, <1>3, <1>6, <1>8, <2>1, <2>2, <2>3 DEF MessagingTypeOK, Ceiling
<1>17. \A i \in 1 .. l : calls[i].op = "send" => calls[i].send < s
  BY <1>1, <1>4, <1>5, <1>12 DEF CallsFit, CallFits
<1>18. \A k \in 1 .. Len(log) : log[k].send < s /\ log[k].send \in 0 .. MaxSends
  BY <1>1, <1>4, <1>5, Carried, Kinds DEF SendsApart
<1>19. SendsApart'
  <2>1. ASSUME NEW i \in 1 .. Len(calls'), NEW j \in 1 .. Len(calls'),
               calls'[i].op = "send", calls'[j].op = "send", calls'[i].send = calls'[j].send
        PROVE  i = j
    BY <1>1, <1>4, <1>5, <1>10, <1>12, <1>13, <1>17, <2>1 DEF SendsApart
  <2>2. ASSUME NEW i \in 1 .. Len(calls'), NEW k \in 1 .. Len(log),
               calls'[i].op = "send", ~calls'[i].sent
        PROVE  log[k].send # calls'[i].send
    BY <1>1, <1>5, <1>10, <1>12, <1>13, <1>18, <2>2 DEF SendsApart
  <2>3. \A k \in 1 .. Len(log) : log[k].send <= s
    BY <1>5, <1>18
  <2> QED BY <1>1, <1>3, <1>6, <2>1, <2>2, <2>3 DEF SendsApart
<1>20. EntriesAwait'
  <2> SUFFICES ASSUME NEW m \in Nonces, optimistic'[m] # Absent
               PROVE  \E i \in 1 .. Len(calls') : SendOf(calls[i], m)'
    BY DEF EntriesAwait
  <2>1. CASE m = n
    <3>1. SendOf(calls[l + 1], m)'
      BY <1>8, <1>9, <1>10, <1>11, <1>12, <1>15, <2>1 DEF SendOf
    <3> QED BY <1>11, <1>12, <3>1
  <2>2. CASE m # n
    <3>1. optimistic'[m] = optimistic[m]
      BY <1>8, <1>15, <2>2
    <3>2. PICK i \in 1 .. Len(calls) : SendOf(calls[i], m)
      BY <1>1, <3>1 DEF EntriesAwait
    <3>3. i \in 1 .. Len(calls') /\ calls'[i] = calls[i]
      BY <1>11, <1>12
    <3>4. SendOf(calls[i], m)'
      BY <3>1, <3>2, <3>3 DEF SendOf
    <3> QED BY <3>3, <3>4
  <2> QED BY <2>1, <2>2
<1>21. OlderCalls => OlderCalls'
  <2>1. \A k : Covered(k)' <=> Covered(k)
    BY <1>1, <1>3, <1>8, <1>11, LocalCovered
  <2>2. \A i \in 1 .. Len(calls') : calls'[i].op = "older" =>
          i \in 1 .. Len(calls) /\ calls'[i] = calls[i]
    BY <1>10, <1>12, <1>13
  <2> QED BY <1>3, <2>1, <2>2 DEF OlderCalls
<1>22. SentOnce => SentOnce'
  <2> SUFFICES ASSUME SentOnce, "thread" \notin disturbed, NEW m \in Nonces,
                      optimistic'[m] # Absent, NEW i \in DOMAIN log,
                      log[i].send = optimistic'[m].send, thread[i] # Absent
               PROVE  FALSE
    BY <1>3, <1>8 DEF SentOnce
  <2>1. i \in 1 .. Len(log)
    BY <1>1, Carried, LenProperties
  <2>2. CASE m = n
    BY <1>5, <1>8, <1>9, <1>15, <1>18, <2>1, <2>2
  <2>3. CASE m # n
    BY <1>8, <1>15, <2>3 DEF SentOnce
  <2> QED BY <2>2, <2>3
<1>23. "thread" \notin disturbed' => "thread" \notin disturbed /\ OlderCalls' /\ SentOnce'
  BY <1>3, <1>21, <1>22 DEF MessagingInv, ThreadInv, Follows
<1>24. pane'.seq <= spent'.sends
  BY <1>5, <1>6, <1>8
<1> QED
  BY <1>3, <1>8, <1>11, <1>14, <1>16, <1>19, <1>20, <1>23, <1>24, LocalKeeps


LEMMA Least ==
    ASSUME NEW S \in SUBSET Nat, S # {}
    PROVE  \E i \in S : \A j \in S : i <= j
<1>1. PICK R : R = {p \in Nat \X Nat : p[1] < p[2]}
  OBVIOUS
<1>2. IsWellFoundedOn(R, Nat)
  BY <1>1, NatLessThanWellFounded DEF OpToRel
<1>3. PICK i \in S : \A j \in S : <<j, i>> \notin R
  BY <1>2, WFMin
<1>4. \A j \in S : ~(j < i)
  BY <1>1, <1>3
<1> QED BY <1>4

LEMMA LoadOlderKeeps ==
    ASSUME MessagingInv, LoadOlder
    PROVE  MessagingInv'
<1>1. Sane /\ MessagingTypeOK
  BY DEF MessagingInv, Sane
<1>2. /\ UNCHANGED <<log, lastRead, thread, optimistic, hydrated, badge, online, wire>>
      /\ pane' = [pane EXCEPT !.loadingOlder = TRUE] /\ pane.open
  BY DEF LoadOlder, IsOpen
<1>3. spent' \in Ceiling /\ spent'.sends = spent.sends /\ spent.sends \in 0 .. MaxSends
  BY <1>1, Counting DEF LoadOlder
<1>4. pane' \in Pane /\ pane'.seq = pane.seq /\ pane'.open
  BY <1>1, <1>2 DEF MessagingTypeOK, Pane
<1>5. /\ disturbed' \in SUBSET {"thread", "badge"} /\ disturbed \subseteq disturbed'
      /\ "thread" \notin disturbed' => hydrated
  BY <1>1 DEF LoadOlder, MessagingTypeOK
<1> DEFINE Candidates == Loaded(thread) \cup {Len(log) + 1}
<1>6. PICK first : /\ first = CHOOSE i \in Candidates : \A j \in Loaded(thread) : i <= j
                   /\ calls' = Append(calls, NewCall("older", first, Gone, 0))
  BY DEF LoadOlder
<1>7. Len(log) \in 0 .. MaxMessages /\ Len(log) \in Nat
  BY <1>1, Carried, Kinds
<1>8. \A k \in Loaded(thread) : k \in 1 .. Len(log)
  BY <1>1 DEF Sane, StoreFits, Loaded
<1>9. \E i \in Candidates : \A j \in Loaded(thread) : i <= j
  <2>1. CASE Loaded(thread) = {}
    BY <2>1
  <2>2. CASE Loaded(thread) # {}
    <3>1. Loaded(thread) \in SUBSET Nat
      BY <1>7, <1>8
    <3> QED BY <2>2, <3>1, Least
  <2> QED BY <2>1, <2>2
<1>10. first \in Candidates /\ \A j \in Loaded(thread) : first <= j
  BY <1>6, <1>9
<1> HIDE DEF Candidates
<1>11. first \in 0 .. MaxMessages + 1
  BY <1>7, <1>8, <1>10, Kinds DEF Candidates
<1>12. PICK x : x = NewCall("older", first, Gone, 0)
  OBVIOUS
<1>13. x \in Call /\ ~x.sent /\ x.op = "older" /\ x.at = first
  BY <1>11, <1>12, NewCallType, Kinds
<1>14. /\ CallsMore /\ Len(calls') = Len(calls) + 1 /\ calls'[Len(calls) + 1] = x
       /\ \A i \in 1 .. Len(calls) : calls'[i] = calls[i]
  BY <1>1, <1>6, <1>12, <1>13, CallAdded
<1>15. \A i \in 1 .. Len(calls') : (i > Len(calls) /\ calls'[i] = x)
                                   \/ (i \in 1 .. Len(calls) /\ calls'[i] = calls[i])
  BY <1>1, <1>14, Carried
<1>16. CallsFit'
  <2>1. \A i \in 1 .. Len(calls') :
          i > Len(calls) => CallFits(calls[i])' /\ (calls'[i].op = "history" => ~pane.open)
    BY <1>13, <1>14, Carried, <1>1 DEF CallFits
  <2>2. spent'.sends \in Nat /\ spent.sends <= spent'.sends
    BY <1>3, Kinds
  <2> QED BY <1>1, <1>2, <1>4, <1>14, <2>1, <2>2, FitMore
<1>17. MessagingTypeOK'
  <2>1. calls' \in Seq(Call)
    BY <1>14 DEF CallsMore
  <2> QED BY <1>1, <1>2, <1>3, <1>4, <1>5, <2>1 DEF MessagingTypeOK, Ceiling
<1>18. /\ SendsApart' /\ EntriesAwait'
       /\ ("thread" \notin disturbed' /\ "thread" \notin disturbed /\ SentOnce => SentOnce')
  <2>1. \A i \in 1 .. Len(calls') : i > Len(calls) => calls'[i].op # "send"
    BY <1>13, <1>14, Carried, <1>1
  <2> QED BY <1>1, <1>2, <1>3, <1>14, <2>1, OtherThanSends
<1>19. ASSUME hydrated, NoGap, OlderCalls
       PROVE  OlderCalls'
  <2>1. \A k : Covered(k)' <=> Covered(k)
    BY <1>1, <1>2, <1>14, LocalCovered
  <2>2. ASSUME NEW k \in 1 .. Len(log), k >= first
        PROVE  Covered(k)
    <3>1. first \in Loaded(thread)
      BY <1>7, <1>10, <2>2 DEF Candidates
    <3>2. first \in 1 .. Len(log) /\ Covered(first)
      BY <1>8, <3>1 DEF Covered, Loaded
    <3>3. k = first \/ first < k
      BY <2>2, <3>2
    <3> QED BY <1>19, <3>2, <3>3 DEF NoGap
  <2> SUFFICES ASSUME NEW i \in 1 .. Len(calls'), calls'[i].op = "older"
               PROVE  hydrated /\ \A k \in 1 .. Len(log) : k >= calls'[i].at => Covered(k)
    BY <1>2, <2>1 DEF OlderCalls
  <2>3. CASE calls'[i] = x
    BY <1>13, <1>19, <2>2, <2>3
  <2>4. CASE i \in 1 .. Len(calls) /\ calls'[i] = calls[i]
    BY <1>19, <2>4 DEF OlderCalls
  <2> QED BY <1>15, <2>3, <2>4
<1>20. "thread" \notin disturbed' => "thread" \notin disturbed /\ OlderCalls' /\ SentOnce'
  BY <1>5, <1>18, <1>19 DEF MessagingInv, ThreadInv, Follows
<1>21. pane'.seq <= spent'.sends
  BY <1>1, <1>3, <1>4 DEF Sane, StoreFits
<1> QED BY <1>2, <1>14, <1>16, <1>17, <1>18, <1>20, <1>21, LocalKeeps

-----------------------------------------------------------------------------
(* What happens at the server.                                               *)

SameWork(x, y) ==
    /\ x.op = y.op /\ x.at = y.at /\ x.body = y.body /\ x.send = y.send /\ x.live = y.live

AnswerIsOut == \E i \in 1 .. Len(wire) : wire[i] \in Answer

\* What e tells is what has become of the log; a "read" tells nothing of it.
Concerns(e) ==
    /\ e \in Event
    /\ \A k \in 1 .. Len(log) :
         \/ log'[k] = log[k]
         \/ /\ e.type \in {"updated", "deleted"} /\ k = e.id /\ log[k].body # Gone
            /\ log'[k].by = log[k].by /\ log'[k].send = log[k].send
    /\ e.type # "read" => /\ e.id \in 1 .. Len(log') /\ e.by = log'[e.id].by
                          /\ e.body = log'[e.id].body
    /\ e.type \in {"created", "updated"} => e.body \in Bodies
    /\ e.type = "deleted" => e.body = Gone
    /\ e.type = "created" <=> Len(log') = Len(log) + 1
    /\ e.type = "created" => e.id = Len(log) + 1

\* The server's part of a step: e is sent if the socket is open, answers perhaps.
ServerStep(e) ==
    /\ UNCHANGED <<thread, optimistic, hydrated, badge, pane, online>>
    /\ Len(log') \in {Len(log), Len(log) + 1}
    /\ Len(calls') = Len(calls)
    /\ \A i \in 1 .. Len(calls) : SameWork(calls'[i], calls[i])
    /\ AnswerIsOut => /\ calls' = calls
                      /\ \A k \in 1 .. Len(log') : k > Len(log) => log'[k].send = 0
    /\ Len(wire) <= Len(wire') /\ \A i \in 1 .. Len(wire) : wire'[i] = wire[i]
    /\ \A i \in 1 .. Len(wire') : i > Len(wire) /\ wire'[i] \in Event =>
         wire'[i] = e /\ online /\ \A j \in 1 .. Len(wire') : j > i => wire'[j] \notin Event
    /\ online /\ e.type # "read" =>
         \E i \in 1 .. Len(wire') : i > Len(wire) /\ wire'[i] = e
    /\ Concerns(e)

\* The parts of Sane and Follows that say something of the answer at i.
EchoAt(i) ==
    \A j \in 1 .. Len(wire) : \A k \in 1 .. Len(log) :
        wire[i] \in Answer /\ Awaited("send") /\ log[k].send = calls[1].send
            /\ j < i /\ About(k, wire[j])
          => wire[j].type = "created" /\ wire[j].by = "me" /\ wire[j].body = calls[1].body

CurrentAt(i) ==
    \A k \in 1 .. Len(log) :
        Counts(i) /\ wire[i].messages[k] # Absent /\ NoneAfter(k, i)
          => wire[i].messages[k] = log[k].body

OlderAt(i) ==
    Reply(i, "older") =>
        \A j, k \in 1 .. Len(log) :
            j < k /\ wire[i].messages[j] # Absent => wire[i].messages[k] # Absent \/ Covered(k)

HistoryAt(i) ==
    Reply(i, "history") /\ calls[1].live =>
        /\ \A j, k \in 1 .. Len(log) : j < k /\ PageCovers(i, j) => PageCovers(i, k)
        /\ log # <<>> => PageCovers(i, Len(log))

LEMMA Grown ==
    ASSUME Sane, MessagingTypeOK', NEW e, ServerStep(e)
    PROVE  /\ Len(log) \in Nat /\ Len(log') \in Nat /\ Len(log') >= Len(log)
           /\ Len(wire) \in Nat /\ Len(wire') \in Nat /\ Len(wire') >= Len(wire)
           /\ Len(calls) \in Nat /\ Len(calls') = Len(calls)
           /\ \A k \in 1 .. Len(log) : /\ log'[k].by = log[k].by /\ log'[k].send = log[k].send
                                       /\ log[k].body = Gone => log'[k].body = Gone
                                       /\ log'[k].body # log[k].body => k = e.id /\ e.type # "read"
           /\ \A k \in 1 .. Len(log') : k > Len(log) => e.type = "created" /\ k = e.id
<1>1. MessagingTypeOK
  BY DEF Sane
<1>2. Len(log) \in Nat /\ Len(wire) \in Nat /\ Len(calls) \in Nat
  BY <1>1, Carried
<1>3. Len(log') \in Nat /\ Len(wire') \in Nat
  BY LenProperties DEF MessagingTypeOK
<1>4. Len(log') >= Len(log) /\ Len(wire') >= Len(wire)
  BY <1>2, <1>3 DEF ServerStep
<1>5. \A k \in 1 .. Len(log) : /\ log'[k].by = log[k].by /\ log'[k].send = log[k].send
                               /\ log[k].body = Gone => log'[k].body = Gone
                               /\ log'[k].body # log[k].body => k = e.id /\ e.type # "read"
  BY DEF ServerStep, Concerns
<1>6. \A k \in 1 .. Len(log') : k > Len(log) => e.type = "created" /\ k = e.id
  BY <1>2, <1>3 DEF ServerStep, Concerns
<1> QED BY <1>2, <1>3, <1>4, <1>5, <1>6 DEF ServerStep

LEMMA ServerCalls ==
    ASSUME Sane, MessagingTypeOK', NEW e, ServerStep(e), spent'.sends = spent.sends
    PROVE  CallsFit' /\ EntriesAwait' /\ StoreFits'
<1>1. Len(calls') = Len(calls) /\ \A i \in 1 .. Len(calls) : SameWork(calls'[i], calls[i])
  BY DEF ServerStep
<1>2. UNCHANGED <<thread, optimistic, hydrated, badge, pane, online>>
  BY DEF ServerStep
<1>3. CallsFit'
  <2>1. \A i \in 1 .. Len(calls) : CallFits(calls[i])'
    BY <1>1, <1>2 DEF Sane, CallsFit, CallFits, SameWork
  <2> QED BY <1>1, <2>1 DEF Sane, CallsFit, SameWork
<1>4. EntriesAwait'
  <2> SUFFICES ASSUME NEW n \in Nonces, optimistic[n] # Absent
               PROVE  \E i \in 1 .. Len(calls) : SendOf(calls[i], n)'
    BY <1>1, <1>2 DEF EntriesAwait
  <2>1. PICK i \in 1 .. Len(calls) : SendOf(calls[i], n)
    BY DEF Sane, EntriesAwait
  <2>2. SendOf(calls[i], n)'
    BY <1>1, <1>2, <2>1 DEF SendOf, SameWork
  <2> QED BY <2>2
<1>5. Len(log) \in Nat /\ Len(log') \in Nat /\ Len(log') >= Len(log) /\ badge \in Nat
  BY Grown DEF Sane, MessagingTypeOK
<1>6. StoreFits'
  BY <1>2, <1>5 DEF Sane, StoreFits
<1> QED BY <1>3, <1>4, <1>6

LEMMA ServerWire ==
    ASSUME Sane, MessagingTypeOK', NEW e, ServerStep(e),
           \A i \in 1 .. Len(wire') : i > Len(wire) /\ wire'[i] \in Answer => AnswerFits(i)'
    PROVE  WireFits'
<1>1. /\ Len(log) \in Nat /\ Len(log') \in Nat /\ Len(log') >= Len(log)
      /\ Len(wire) \in Nat /\ Len(wire') \in Nat /\ Len(wire') >= Len(wire)
      /\ \A k \in 1 .. Len(log) : /\ log'[k].by = log[k].by /\ log'[k].send = log[k].send
                                  /\ log[k].body = Gone => log'[k].body = Gone
  BY Grown
<1>2. badge' = badge /\ online' = online /\ \A i \in 1 .. Len(wire) : wire'[i] = wire[i]
  BY DEF ServerStep
<1>3. Concerns(e) /\ badge <= Len(log) /\ badge \in Nat
  BY DEF ServerStep, Sane, StoreFits, MessagingTypeOK
<1>4. ASSUME NEW i \in 1 .. Len(wire'), wire'[i] \in Event
      PROVE  EventFits(wire[i])'
  <2>1. CASE i \in 1 .. Len(wire)
    <3>1. wire'[i] = wire[i] /\ EventFits(wire[i])
      BY <1>2, <1>4, <2>1 DEF Sane, WireFits
    <3> QED BY <1>1, <1>2, <3>1 DEF EventFits
  <2>2. CASE i > Len(wire)
    <3>1. wire'[i] = e /\ online
      BY <1>4, <2>2 DEF ServerStep
    <3>2. e.type = "created" => badge < e.id
      BY <1>1, <1>3 DEF Concerns
    <3>3. e.type = "deleted" => log'[e.id].body = Gone
      BY <1>3 DEF Concerns
    <3> QED BY <1>2, <1>3, <3>1, <3>2, <3>3 DEF EventFits, Concerns
  <2> QED BY <1>1, <2>1, <2>2
<1>5. \A i \in 1 .. Len(wire') : i > Len(wire) /\ Creates(wire'[i]) => wire'[i].id = Len(log) + 1
  BY <1>3 DEF ServerStep, Concerns, Creates
<1>6. \A i \in 1 .. Len(wire) : Creates(wire[i]) => wire[i].id \in 1 .. Len(log)
  BY DEF Sane, WireFits, EventFits, Creates
<1>7. ASSUME NEW i \in 1 .. Len(wire), wire[i] \in Answer
      PROVE  AnswerFits(i)'
  <2>1. AnswerFits(i) /\ calls' = calls /\ wire'[i] = wire[i] /\ wire[i].unread \in Nat
    BY <1>2, <1>7, Kinds DEF Sane, WireFits, ServerStep, AnswerIsOut
  <2>2. ASSUME NEW j \in 1 .. Len(wire'), j > i, Creates(wire'[j])
        PROVE  wire[i].unread < wire'[j].id
    <3>1. CASE j \in 1 .. Len(wire)
      BY <1>2, <2>1, <2>2, <3>1 DEF AnswerFits
    <3>2. CASE j > Len(wire)
      BY <1>1, <1>5, <2>1, <2>2, <3>2 DEF AnswerFits
    <3> QED BY <1>1, <3>1, <3>2
  <2>3. \A k \in Ids : wire[i].messages[k] # Absent => k \in 1 .. Len(log')
    BY <1>1, <2>1 DEF AnswerFits
  <2>4. ASSUME wire[i].type = "reply", Awaited("send")
        PROVE  \E k \in 1 .. Len(log') : Brings(wire[i], k)'
    <3>1. PICK k \in 1 .. Len(log) : Brings(wire[i], k)
      BY <2>1, <2>4 DEF AnswerFits
    <3>2. Brings(wire[i], k)'
      BY <1>1, <2>1, <3>1 DEF Brings
    <3> QED BY <1>1, <3>1, <3>2
  <2>5. wire'[i].type = "reply" /\ Awaited("send")'
          => \E k \in 1 .. Len(log') : Brings(wire[i], k)'
    BY <2>1, <2>4 DEF Awaited
  <2>6. wire'[i].unread <= Len(log')
    BY <1>1, <2>1 DEF AnswerFits
  <2> QED BY <2>1, <2>2, <2>3, <2>5, <2>6 DEF AnswerFits, Creates
<1>8. \A i \in 1 .. Len(wire') : wire'[i] \in Answer => AnswerFits(i)'
  BY <1>1, <1>2, <1>7
<1>9. ASSUME NEW i \in 1 .. Len(wire'), NEW j \in 1 .. Len(wire'), i < j,
             Creates(wire'[i]), Creates(wire'[j])
      PROVE  wire'[i].id < wire'[j].id
  <2>1. CASE j \in 1 .. Len(wire)
    <3>1. i \in 1 .. Len(wire)
      BY <1>1, <1>9, <2>1
    <3> QED BY <1>2, <1>9, <2>1, <3>1 DEF Sane, WireFits
  <2>2. CASE j > Len(wire) /\ i \in 1 .. Len(wire)
    BY <1>1, <1>2, <1>5, <1>6, <1>9, <2>2
  <2>3. CASE j > Len(wire) /\ i > Len(wire)
    BY <1>9, <2>3 DEF ServerStep, Creates
  <2> QED BY <1>1, <2>1, <2>2, <2>3
<1> QED BY <1>4, <1>8, <1>9 DEF WireFits, Creates

\* What is known of the events once e has been sent.
LEMMA Told ==
    ASSUME Sane, MessagingTypeOK', NEW e, ServerStep(e)
    PROVE  /\ \A k, m : About(k, m)' <=> About(k, m)
           /\ \A k, i : i <= Len(wire) /\ NoneAfter(k, i)' => NoneAfter(k, i)
           /\ \A i \in 1 .. Len(wire') : i > Len(wire) /\ wire'[i] \in Event => wire'[i] = e
           /\ \A k : online /\ e.type # "read" /\ k = e.id =>
                \E i \in 1 .. Len(wire') : i > Len(wire) /\ About(k, wire'[i])
<1>1. \A k, m : About(k, m)' <=> About(k, m)
  BY DEF About
<1>2. Len(wire) \in Nat /\ Len(wire') \in Nat /\ Len(wire') >= Len(wire)
      /\ \A i \in 1 .. Len(wire) : wire'[i] = wire[i]
  BY Grown DEF ServerStep
<1>3. ASSUME NEW k, NEW i, i <= Len(wire), NoneAfter(k, i)'
      PROVE  NoneAfter(k, i)
  BY <1>1, <1>2, <1>3 DEF NoneAfter
<1>4. \A i \in 1 .. Len(wire') : i > Len(wire) /\ wire'[i] \in Event => wire'[i] = e
  BY DEF ServerStep
<1>5. ASSUME NEW k, online, e.type # "read", k = e.id
      PROVE  \E i \in 1 .. Len(wire') : i > Len(wire) /\ About(k, wire'[i])
  BY <1>5 DEF ServerStep, About, Concerns
<1> QED BY <1>1, <1>3, <1>4, <1>5

LEMMA ServerEvents ==
    ASSUME Sane, MessagingTypeOK', NEW e, ServerStep(e),
           \A i \in 1 .. Len(wire') : i > Len(wire) /\ wire'[i] \in Answer => EchoAt(i)'
    PROVE  EchoFirst' /\ EventsCurrent'
<1>1. /\ Len(log) \in Nat /\ Len(log') \in Nat /\ Len(log') >= Len(log)
      /\ Len(wire) \in Nat /\ Len(wire') \in Nat /\ Len(wire') >= Len(wire)
      /\ \A k \in 1 .. Len(log) : /\ log'[k].send = log[k].send
                                  /\ log'[k].body # log[k].body => k = e.id /\ e.type # "read"
      /\ \A k \in 1 .. Len(log') : k > Len(log) => e.type = "created" /\ k = e.id
  BY Grown
<1>2. /\ \A k, m : About(k, m)' <=> About(k, m)
      /\ \A k, i : i <= Len(wire) /\ NoneAfter(k, i)' => NoneAfter(k, i)
      /\ \A i \in 1 .. Len(wire') : i > Len(wire) /\ wire'[i] \in Event => wire'[i] = e
      /\ \A k : online /\ e.type # "read" /\ k = e.id =>
           \E i \in 1 .. Len(wire') : i > Len(wire) /\ About(k, wire'[i])
  BY Told
<1>3. online' = online /\ \A i \in 1 .. Len(wire) : wire'[i] = wire[i]
  BY DEF ServerStep
<1>4. ASSUME NEW i \in 1 .. Len(wire), NEW j \in 1 .. Len(wire'), NEW k \in 1 .. Len(log'),
             wire'[i] \in Answer, Awaited("send")', log'[k].send = calls'[1].send,
             j < i, About(k, wire'[j])
      PROVE  wire'[j].type = "created" /\ wire'[j].by = "me" /\ wire'[j].body = calls'[1].body
  <2>1. wire[i] \in Answer /\ j \in 1 .. Len(wire) /\ wire'[j] = wire[j]
    BY <1>1, <1>3, <1>4
  <2>2. calls' = calls /\ (k > Len(log) => log'[k].send = 0)
    BY <2>1 DEF ServerStep, AnswerIsOut
  <2>3. Awaited("send") /\ calls # <<>>
    BY <1>4, <2>2 DEF Awaited
  <2>4. calls \in Seq(Call) /\ Len(calls) >= 1
    BY <2>3, Carried, EmptySeq DEF Sane
  <2>5. calls[1].send \in 1 .. spent.sends
    BY <1>1, <2>3, <2>4, Carried DEF Sane, CallsFit, CallFits, Awaited
  <2>6. k \in 1 .. Len(log) /\ log[k].send = calls[1].send
    BY <1>1, <1>4, <2>2, <2>5
  <2> QED BY <1>4, <2>1, <2>2, <2>3, <2>6 DEF Sane, EchoFirst
<1>5. EchoFirst'
  <2>1. ASSUME NEW i \in 1 .. Len(wire')  PROVE EchoAt(i)'
    <3>1. CASE i \in 1 .. Len(wire)
      BY <1>2, <1>4, <3>1 DEF EchoAt
    <3>2. CASE i > Len(wire)
      BY <3>2 DEF EchoAt
    <3> QED BY <1>1, <3>1, <3>2
  <2> QED BY <2>1 DEF EchoAt, EchoFirst
<1>6. ASSUME NEW i \in 1 .. Len(wire'), NEW k \in 1 .. Len(log'),
             About(k, wire'[i]), NoneAfter(k, i)'
      PROVE  wire'[i].body = log'[k].body
  <2>1. CASE i > Len(wire)
    <3>1. wire'[i] = e /\ e.type # "read" /\ k = e.id
      BY <1>2, <1>6, <2>1 DEF About
    <3> QED BY <3>1 DEF ServerStep, Concerns
  <2>2. CASE i \in 1 .. Len(wire)
    <3>1. wire'[i] = wire[i] /\ About(k, wire[i])
      BY <1>3, <1>6, <2>2
    <3>2. online /\ k \in 1 .. Len(log)
      BY <2>2, <3>1 DEF About, Sane, WireFits, EventFits
    <3>3. ~(e.type # "read" /\ k = e.id)
      <4>1. \A j \in 1 .. Len(wire') : j > Len(wire) => ~About(k, wire'[j])
        BY <1>1, <1>2, <1>6, <2>2 DEF NoneAfter
      <4> QED BY <1>2, <3>2, <4>1
    <3>4. log'[k].body = log[k].body
      BY <1>1, <3>2, <3>3
    <3>5. NoneAfter(k, i)
      BY <1>2, <1>6, <2>2
    <3> QED BY <2>2, <3>1, <3>2, <3>4, <3>5 DEF Sane, EventsCurrent
  <2> QED BY <1>1, <2>1, <2>2
<1>7. EventsCurrent'
  BY <1>2, <1>6 DEF EventsCurrent
<1> QED BY <1>5, <1>7

LEMMA ServerSane ==
    ASSUME Sane, MessagingTypeOK', NEW e, ServerStep(e), OneAnswer', SendsApart',
           spent'.sends = spent.sends,
           \A i \in 1 .. Len(wire') :
             i > Len(wire) /\ wire'[i] \in Answer => AnswerFits(i)' /\ EchoAt(i)'
    PROVE  Sane'
<1>1. CallsFit' /\ EntriesAwait' /\ StoreFits'
  BY ServerCalls
<1>2. WireFits'
  BY ServerWire
<1>3. EchoFirst' /\ EventsCurrent'
  BY ServerEvents
<1> QED BY <1>1, <1>2, <1>3 DEF Sane

HistoryOut == \E i \in 1 .. Len(calls) : calls[i].op = "history" /\ calls[i].sent

\* Whoever has read the log before, or is about to show what has been read, hears of e.
Heard(e) ==
    e.type # "read" =>
        \/ online
        \/ ~hydrated /\ ~HistoryOut
        \/ /\ e.type = "created"
           /\ \E i \in 1 .. Len(wire') : Reply(i, "send")' /\ wire'[i].messages[e.id] # Absent

\* The answer at i, written in this step, tells what the log has become.
FreshAt(i) ==
    /\ CurrentAt(i)' /\ OlderAt(i)' /\ HistoryAt(i)'
    /\ Reply(i, "send")' => \A k \in Ids : wire'[i].messages[k] # Absent => k > Len(log)

LEMMA ServerCovers ==
    ASSUME Sane, MessagingTypeOK', NEW e, ServerStep(e), Heard(e),
           \A i \in 1 .. Len(wire') : i > Len(wire) /\ wire'[i] \in Answer => FreshAt(i)
    PROVE  /\ \A i \in 1 .. Len(wire) : \A op : Reply(i, op)' =>
                Reply(i, op) /\ calls' = calls
           /\ \A k : Covered(k) => Covered(k)'
           /\ \A k \in 1 .. Len(log) : Covered(k)' => Covered(k)
           /\ hydrated => \A k \in 1 .. Len(log') : k > Len(log) => Covered(k)'
<1>1. /\ Len(log) \in 0 .. MaxMessages /\ Len(log') \in Nat /\ Len(log') >= Len(log)
      /\ Len(wire) \in Nat /\ Len(wire') \in Nat /\ Len(wire') >= Len(wire)
      /\ \A k \in 1 .. Len(log') : k > Len(log) => e.type = "created" /\ k = e.id
  BY Grown, Carried DEF Sane
<1>2. thread' = thread /\ hydrated' = hydrated /\ \A i \in 1 .. Len(wire) : wire'[i] = wire[i]
  BY DEF ServerStep
<1>3. ASSUME NEW i \in 1 .. Len(wire), NEW op, Reply(i, op)'
      PROVE  Reply(i, op) /\ calls' = calls
  <2>1. wire[i] \in Answer
    BY <1>2, <1>3 DEF Reply
  <2>2. calls' = calls
    BY <2>1 DEF ServerStep, AnswerIsOut
  <2> QED BY <1>2, <1>3, <2>2 DEF Reply, Awaited
<1>4. ASSUME NEW i \in 1 .. Len(wire), NEW op, Reply(i, op)
      PROVE  Reply(i, op)'
  <2>1. calls' = calls
    BY <1>4 DEF ServerStep, AnswerIsOut, Reply
  <2> QED BY <1>2, <1>4, <2>1 DEF Reply, Awaited
<1>5. ASSUME NEW k, Covered(k)
      PROVE  Covered(k)'
  <2>1. CASE thread[k] # Absent
    BY <1>2, <2>1 DEF Covered
  <2>2. CASE Coming(k)
    <3>1. PICK i \in 1 .. Len(wire) : \/ Creates(wire[i]) /\ wire[i].id = k
                                      \/ Reply(i, "send") /\ wire[i].messages[k] # Absent
      BY <2>2 DEF Coming
    <3>2. i \in 1 .. Len(wire') /\ wire'[i] = wire[i]
      BY <1>1, <1>2
    <3>3. Coming(k)'
      BY <1>4, <3>1, <3>2 DEF Coming, Creates
    <3> QED BY <3>3 DEF Covered
  <2> QED BY <1>5, <2>1, <2>2 DEF Covered
<1>6. ASSUME NEW k \in 1 .. Len(log), Covered(k)'
      PROVE  Covered(k)
  <2>1. CASE thread[k] # Absent
    BY <2>1 DEF Covered
  <2>2. CASE thread[k] = Absent
    <3>1. PICK i \in 1 .. Len(wire') : \/ Creates(wire'[i]) /\ wire'[i].id = k
                                       \/ Reply(i, "send")' /\ wire'[i].messages[k] # Absent
      BY <1>2, <1>6, <2>2 DEF Covered, Coming, Creates
    <3>2. CASE i \in 1 .. Len(wire)
      <4>1. Coming(k)
        BY <1>2, <1>3, <3>1, <3>2 DEF Coming, Creates
      <4> QED BY <4>1 DEF Covered
    <3>3. CASE i > Len(wire)
      <4>1. ~(Creates(wire'[i]) /\ wire'[i].id = k)
        BY <1>1, <3>3 DEF Creates, ServerStep, Concerns
      <4>2. k \in Ids
        BY <1>1, Kinds DEF Ids
      <4>3. ~(Reply(i, "send")' /\ wire'[i].messages[k] # Absent)
        BY <1>1, <3>3, <4>2 DEF FreshAt, Reply
      <4> QED BY <3>1, <4>1, <4>3
    <3> QED BY <1>1, <3>2, <3>3
  <2> QED BY <2>1, <2>2
<1>7. ASSUME hydrated, NEW k \in 1 .. Len(log'), k > Len(log)
      PROVE  Covered(k)'
  <2>1. e.type = "created" /\ k = e.id
    BY <1>1, <1>7
  <2>2. CASE online
    <3>1. PICK i \in 1 .. Len(wire') : wire'[i] = e
      BY <2>1, <2>2 DEF ServerStep
    <3>2. Creates(wire'[i]) /\ wire'[i].id = k
      BY <2>1, <3>1 DEF Creates, ServerStep, Concerns
    <3> QED BY <3>2 DEF Covered, Coming, Creates
  <2>3. CASE ~online
    <3>1. PICK i \in 1 .. Len(wire') : Reply(i, "send")' /\ wire'[i].messages[e.id] # Absent
      BY <1>7, <2>1, <2>3 DEF Heard
    <3> QED BY <2>1, <3>1 DEF Covered, Coming
  <2> QED BY <2>2, <2>3
<1> QED BY <1>3, <1>5, <1>6, <1>7

LEMMA ServerFollows ==
    ASSUME Sane, MessagingTypeOK', Follows, NEW e, ServerStep(e), Heard(e),
           \A i \in 1 .. Len(wire') : i > Len(wire) /\ wire'[i] \in Answer => FreshAt(i)
    PROVE  Follows'
<1>1. /\ Len(log) \in 0 .. MaxMessages /\ Len(log') \in Nat /\ Len(log') >= Len(log)
      /\ Len(log') \in {Len(log), Len(log) + 1}
      /\ Len(wire) \in Nat /\ Len(wire') \in Nat /\ Len(wire') >= Len(wire)
      /\ Len(calls) \in Nat /\ Len(calls') = Len(calls)
      /\ \A k \in 1 .. Len(log) : log'[k].body # log[k].body => k = e.id /\ e.type # "read"
      /\ \A k \in 1 .. Len(log') : k > Len(log) => e.type = "created" /\ k = e.id
  BY Grown, Carried DEF Sane, ServerStep
<1>2. /\ thread' = thread /\ hydrated' = hydrated /\ \A i \in 1 .. Len(wire) : wire'[i] = wire[i]
      /\ \A i \in 1 .. Len(calls) : SameWork(calls'[i], calls[i])
  BY DEF ServerStep
<1>3. /\ \A k, m : About(k, m)' <=> About(k, m)
      /\ \A k, i : i <= Len(wire) /\ NoneAfter(k, i)' => NoneAfter(k, i)
      /\ \A k : online /\ e.type # "read" /\ k = e.id =>
           \E i \in 1 .. Len(wire') : i > Len(wire) /\ About(k, wire'[i])
  BY Told
<1>4. /\ \A i \in 1 .. Len(wire) : \A op : Reply(i, op)' => Reply(i, op) /\ calls' = calls
      /\ \A k : Covered(k) => Covered(k)'
      /\ \A k \in 1 .. Len(log) : Covered(k)' => Covered(k)
      /\ hydrated => \A k \in 1 .. Len(log') : k > Len(log) => Covered(k)'
  BY ServerCovers
<1>5. e.type = "created" => e.id = Len(log) + 1
  BY DEF ServerStep, Concerns
<1>6. \A i \in 1 .. Len(wire) : wire[i] \in Answer => AnswerFits(i)
  BY DEF Sane, WireFits
\* What has changed and is still shown, or to be shown, is announced.
<1>7. ASSUME NEW k \in 1 .. Len(log), NEW i \in Int, i <= Len(wire),
             NoneAfter(k, i)',
             hydrated \/ HistoryOut
      PROVE  log'[k].body = log[k].body
  <2> SUFFICES ASSUME log'[k].body # log[k].body
               PROVE  FALSE
    OBVIOUS
  <2>1. k = e.id /\ e.type # "read" /\ e.type # "created"
    BY <1>1, <1>5
  <2>2. online
    BY <1>7, <2>1 DEF Heard
  <2>3. PICK j \in 1 .. Len(wire') : j > Len(wire) /\ About(k, wire'[j])
    BY <1>3, <2>1, <2>2
  <2>4. j > i
    BY <1>1, <1>7, <2>3
  <2> QED BY <1>3, <1>7, <2>3, <2>4 DEF NoneAfter
<1>8. \A i \in 1 .. Len(wire) : Counts(i)' => Counts(i) /\ (hydrated \/ HistoryOut)
  <2> SUFFICES ASSUME NEW i \in 1 .. Len(wire), Counts(i)'
               PROVE  Counts(i) /\ (hydrated \/ HistoryOut)
    OBVIOUS
  <2>1. CASE hydrated
    BY <1>2, <1>4, <2>1 DEF Counts
  <2>2. CASE ~hydrated
    <3>1. Reply(i, "history") /\ calls[1].live
      BY <1>2, <1>4, <2>2 DEF Counts
    <3>2. calls # <<>> /\ calls \in Seq(Call) /\ calls[1].op = "history" /\ calls[1].sent
      BY <3>1, Carried DEF Reply, Awaited, Sane
    <3>3. 1 \in 1 .. Len(calls)
      BY <1>1, <3>2, EmptySeq
    <3> QED BY <3>1, <3>2, <3>3 DEF Counts, HistoryOut
  <2> QED BY <2>1, <2>2
<1>9. AnswerCurrent'
  <2>1. ASSUME NEW i \in 1 .. Len(wire')  PROVE CurrentAt(i)'
    <3>1. CASE i \in 1 .. Len(wire)
      <4> SUFFICES ASSUME NEW k \in 1 .. Len(log'), Counts(i)', wire'[i].messages[k] # Absent,
                          NoneAfter(k, i)'
                   PROVE  wire'[i].messages[k] = log'[k].body
        BY DEF CurrentAt
      <4>1. Counts(i) /\ (hydrated \/ HistoryOut) /\ wire'[i] = wire[i]
        BY <1>2, <1>8, <3>1
      <4>2. wire[i] \in Answer
        BY <4>1 DEF Counts, Reply
      <4>3. Len(log') <= MaxMessages
        BY DEF MessagingTypeOK
      <4>4. k \in Ids
        BY <1>1, <4>3, Kinds DEF Ids
      <4>5. k \in 1 .. Len(log)
        BY <1>6, <3>1, <4>1, <4>2, <4>4 DEF AnswerFits
      <4>6. NoneAfter(k, i)
        BY <1>1, <1>3, <3>1
      <4>7. wire[i].messages[k] = log[k].body
        BY <3>1, <4>1, <4>5, <4>6 DEF Follows, AnswerCurrent
      <4>8. log'[k].body = log[k].body
        BY <1>1, <1>7, <3>1, <4>1, <4>5
      <4> QED BY <4>1, <4>7, <4>8
    <3>2. CASE i > Len(wire)
      <4>1. CASE wire'[i] \in Answer
        BY <3>2, <4>1 DEF FreshAt
      <4>2. CASE wire'[i] \notin Answer
        BY <4>2 DEF CurrentAt, Counts, Reply
      <4> QED BY <4>1, <4>2
    <3> QED BY <1>1, <3>1, <3>2
  <2> QED BY <2>1 DEF AnswerCurrent, CurrentAt
<1>10. ThreadCurrent'
  <2> SUFFICES ASSUME hydrated, NEW k \in 1 .. Len(log'), thread[k] # Absent, NoneAfter(k, 0)'
               PROVE  thread[k] = log'[k].body
    BY <1>2 DEF ThreadCurrent
  <2>1. Len(log') <= MaxMessages
    BY DEF MessagingTypeOK
  <2>2. k \in 1 .. Len(log)
    BY <1>1, <2>1, Kinds DEF Ids, Sane, StoreFits
  <2>3. NoneAfter(k, 0)
    BY <1>1, <1>3
  <2>4. log'[k].body = log[k].body
    BY <1>1, <1>7, <2>2
  <2> QED BY <2>2, <2>3, <2>4 DEF Follows, ThreadCurrent
<1>11. NoGap'
  <2> SUFFICES ASSUME hydrated
               PROVE  /\ \A j, k \in 1 .. Len(log') : j < k /\ Covered(j)' => Covered(k)'
                      /\ log' # <<>> => Covered(Len(log))'
    BY <1>2 DEF NoGap
  <2>1. NoGap
    BY DEF Follows
  <2>2. ASSUME NEW j \in 1 .. Len(log'), NEW k \in 1 .. Len(log'), j < k, Covered(j)'
        PROVE  Covered(k)'
    <3>1. CASE k > Len(log)
      BY <1>4, <3>1
    <3>2. CASE k <= Len(log)
      <4>1. j \in 1 .. Len(log) /\ k \in 1 .. Len(log)
        BY <1>1, <2>2, <3>2
      <4> QED BY <1>4, <2>1, <2>2, <4>1 DEF NoGap
    <3> QED BY <1>1, <3>1, <3>2
  <2>3. ASSUME log' # <<>>
        PROVE  Covered(Len(log))'
    <3>1. log' \in Seq(Message) /\ Len(log') >= 1
      BY <1>1, <2>3, EmptySeq DEF MessagingTypeOK
    <3>2. CASE Len(log') > Len(log)
      <4>1. Len(log') \in 1 .. Len(log')
        BY <1>1, <3>1
      <4> QED BY <1>4, <3>2, <4>1
    <3>3. CASE Len(log') = Len(log)
      <4>1. log # <<>>
        BY <1>1, <3>1, <3>3
      <4> QED BY <1>4, <2>1, <3>3, <4>1 DEF NoGap
    <3> QED BY <1>1, <3>2, <3>3
  <2> QED BY <2>2, <2>3
<1>12. \A i \in 1 .. Len(calls) : calls[i].op = "older" =>
          hydrated /\ \A k \in 1 .. Len(log') : k >= calls[i].at => Covered(k)'
  <2> SUFFICES ASSUME NEW i \in 1 .. Len(calls), calls[i].op = "older"
               PROVE  hydrated /\ \A k \in 1 .. Len(log') : k >= calls[i].at => Covered(k)'
    OBVIOUS
  <2>1. hydrated /\ \A k \in 1 .. Len(log) : k >= calls[i].at => Covered(k)
    BY DEF Follows, OlderCalls
  <2> QED BY <1>1, <1>4, <2>1
<1>13. OlderCalls'
  BY <1>1, <1>2, <1>12 DEF OlderCalls, SameWork
<1>14. OlderReply'
  <2>1. ASSUME NEW i \in 1 .. Len(wire')  PROVE OlderAt(i)'
    <3>1. CASE i \in 1 .. Len(wire)
      <4> SUFFICES ASSUME Reply(i, "older")', NEW j \in 1 .. Len(log'), NEW k \in 1 .. Len(log'),
                          j < k, wire'[i].messages[j] # Absent
                   PROVE  wire'[i].messages[k] # Absent \/ Covered(k)'
        BY DEF OlderAt
      <4>1. Reply(i, "older") /\ wire'[i] = wire[i]
        BY <1>2, <1>4, <3>1
      <4>2. calls # <<>> /\ calls \in Seq(Call) /\ calls[1].op = "older"
        BY <4>1, Carried DEF Reply, Awaited, Sane
      <4>3. 1 \in 1 .. Len(calls)
        BY <1>1, <4>2, EmptySeq
      <4>4. hydrated
        BY <1>12, <4>2, <4>3
      <4>5. CASE k > Len(log)
        BY <1>4, <4>4, <4>5
      <4>6. CASE k <= Len(log)
        <5>1. j \in 1 .. Len(log) /\ k \in 1 .. Len(log)
          BY <1>1, <4>6
        <5> QED BY <1>4, <3>1, <4>1, <5>1 DEF Follows, OlderReply
      <4> QED BY <1>1, <4>5, <4>6
    <3>2. CASE i > Len(wire)
      <4>1. CASE wire'[i] \in Answer
        BY <3>2, <4>1 DEF FreshAt
      <4>2. CASE wire'[i] \notin Answer
        BY <4>2 DEF OlderAt, Reply
      <4> QED BY <4>1, <4>2
    <3> QED BY <1>1, <3>1, <3>2
  <2> QED BY <2>1 DEF OlderReply, OlderAt
<1>15. HistoryFits'
  <2>1. ASSUME NEW i \in 1 .. Len(wire')  PROVE HistoryAt(i)'
    <3>1. CASE i \in 1 .. Len(wire)
      <4> SUFFICES ASSUME Reply(i, "history")', calls'[1].live
                   PROVE  /\ \A j, k \in 1 .. Len(log') :
                               j < k /\ PageCovers(i, j)' => PageCovers(i, k)'
                          /\ log' # <<>> => PageCovers(i, Len(log))'
        BY DEF HistoryAt
      <4>1. Reply(i, "history") /\ wire'[i] = wire[i] /\ calls' = calls
        BY <1>2, <1>4, <3>1
      <4>2. calls # <<>> /\ calls \in Seq(Call) /\ calls[1].op = "history" /\ calls[1].sent
        BY <4>1, Carried DEF Reply, Awaited, Sane
      <4>3. HistoryOut
        <5>1. 1 \in 1 .. Len(calls)
          BY <1>1, <4>2, EmptySeq
        <5> QED BY <4>2, <5>1 DEF HistoryOut
      <4>4. /\ \A j, k \in 1 .. Len(log) : j < k /\ PageCovers(i, j) => PageCovers(i, k)
            /\ log # <<>> => PageCovers(i, Len(log))
        BY <3>1, <4>1 DEF Follows, HistoryFits
      <4>5. \A k : PageCovers(i, k) => PageCovers(i, k)'
        BY <1>1, <1>2, <4>1 DEF PageCovers, Creates
      <4>6. ASSUME NEW k \in 1 .. Len(log), PageCovers(i, k)'
            PROVE  PageCovers(i, k)
        <5>1. \A j \in 1 .. Len(wire') : j > Len(wire) => ~(Creates(wire'[j]) /\ wire'[j].id = k)
          BY <1>1 DEF Creates, ServerStep, Concerns
        <5> QED BY <1>1, <1>2, <4>1, <4>6, <5>1 DEF PageCovers, Creates
      <4>7. ASSUME NEW k \in 1 .. Len(log'), k > Len(log)
            PROVE  PageCovers(i, k)'
        <5>1. e.type = "created" /\ k = e.id
          BY <1>1, <4>7
        <5>2. \A j : ~Reply(j, "send")'
          BY <4>1, <4>2 DEF Reply, Awaited
        <5>3. online
          BY <4>3, <5>1, <5>2 DEF Heard
        <5>4. PICK j \in 1 .. Len(wire') : j > Len(wire) /\ wire'[j] = e
          BY <5>1, <5>3 DEF ServerStep
        <5>5. Creates(wire'[j]) /\ wire'[j].id = k /\ j > i
          BY <1>1, <3>1, <5>1, <5>4 DEF Creates, ServerStep, Concerns
        <5> QED BY <5>5 DEF PageCovers, Creates
      <4>8. ASSUME NEW j \in 1 .. Len(log'), NEW k \in 1 .. Len(log'), j < k, PageCovers(i, j)'
            PROVE  PageCovers(i, k)'
        <5>1. CASE k > Len(log)
          BY <4>7, <5>1
        <5>2. CASE k <= Len(log)
          <6>1. j \in 1 .. Len(log) /\ k \in 1 .. Len(log)
            BY <1>1, <4>8, <5>2
          <6> QED BY <4>4, <4>5, <4>6, <4>8, <6>1
        <5> QED BY <1>1, <5>1, <5>2
      <4>9. ASSUME log' # <<>>
            PROVE  PageCovers(i, Len(log))'
        <5>1. log' \in Seq(Message) /\ Len(log') >= 1
          BY <1>1, <4>9, EmptySeq DEF MessagingTypeOK
        <5>2. CASE Len(log') > Len(log)
          <6>1. Len(log') \in 1 .. Len(log')
            BY <1>1, <5>1
          <6> QED BY <4>7, <5>2, <6>1
        <5>3. CASE Len(log') = Len(log)
          <6>1. log # <<>>
            BY <1>1, <5>1, <5>3
          <6> QED BY <4>4, <4>5, <5>3, <6>1
        <5> QED BY <1>1, <5>2, <5>3
      <4> QED BY <4>8, <4>9
    <3>2. CASE i > Len(wire)
      <4>1. CASE wire'[i] \in Answer
        BY <3>2, <4>1 DEF FreshAt
      <4>2. CASE wire'[i] \notin Answer
        BY <4>2 DEF HistoryAt, Reply
      <4> QED BY <4>1, <4>2
    <3> QED BY <1>1, <3>1, <3>2
  <2> QED BY <2>1 DEF HistoryFits, HistoryAt
<1> QED BY <1>9, <1>10, <1>11, <1>13, <1>14, <1>15 DEF Follows

LEMMA ServerSentOnce ==
    ASSUME Sane, MessagingTypeOK', NEW e, ServerStep(e), SentOnce, "thread" \notin disturbed
    PROVE  SentOnce'
<1>1. /\ Len(log) \in Nat /\ Len(log') \in Nat
      /\ \A k \in 1 .. Len(log) : log'[k].send = log[k].send
  BY Grown
<1>2. Len(log') <= MaxMessages /\ DOMAIN log' = 1 .. Len(log')
  BY LenProperties DEF MessagingTypeOK
<1>3. DOMAIN log = 1 .. Len(log)
  BY LenProperties DEF Sane, MessagingTypeOK
<1>4. thread' = thread /\ optimistic' = optimistic
  BY DEF ServerStep
<1> SUFFICES ASSUME NEW n \in Nonces, optimistic[n] # Absent, NEW k \in 1 .. Len(log'),
                    log'[k].send = optimistic[n].send, thread[k] # Absent
             PROVE  FALSE
  BY <1>2, <1>4 DEF SentOnce
<1>5. k \in 1 .. Len(log)
  BY <1>1, <1>2, Kinds DEF Ids, Sane, StoreFits
<1> QED BY <1>1, <1>3, <1>5 DEF SentOnce

LEMMA ServerKeeps ==
    ASSUME MessagingInv, MessagingTypeOK', NEW e, ServerStep(e), OneAnswer', SendsApart',
           spent'.sends = spent.sends, disturbed \subseteq disturbed',
           "thread" \notin disturbed' => Heard(e),
           \A i \in 1 .. Len(wire') :
             i > Len(wire) /\ wire'[i] \in Answer =>
               AnswerFits(i)' /\ EchoAt(i)'
                 /\ (Follows /\ "thread" \notin disturbed' => FreshAt(i))
    PROVE  MessagingInv'
<1>1. Sane
  BY DEF MessagingInv
<1>2. Sane'
  BY <1>1, ServerSane
<1>3. ASSUME "thread" \notin disturbed'
      PROVE  Follows' /\ SentOnce'
  <2>1. Follows /\ SentOnce /\ "thread" \notin disturbed
    BY <1>3 DEF MessagingInv, ThreadInv
  <2>2. Follows'
    BY <1>1, <1>3, <2>1, ServerFollows
  <2> QED BY <1>1, <2>1, <2>2, ServerSentOnce
<1> QED BY <1>2, <1>3 DEF MessagingInv, ThreadInv

LEMMA Noted ==
    ASSUME NEW e \in Event, online \in BOOLEAN
    PROVE  /\ Notified(e) \in Seq(Event \cup Answer)
           /\ online => Len(Notified(e)) = 1 /\ Notified(e)[1] = e
           /\ ~online => Len(Notified(e)) = 0
<1>1. CASE online
  <2>1. Notified(e) = <<e>>
    BY <1>1 DEF Notified
  <2> QED BY <1>1, <2>1
<1>2. CASE ~online
  <2>1. Notified(e) = <<>>
    BY <1>2 DEF Notified
  <2> QED BY <1>2, <2>1
<1> QED BY <1>1, <1>2

\* A step of somebody else's: what it does to the log is announced, or spoils the thread.
Announcement(e) ==
    /\ Concerns(e) /\ wire' = wire \o Notified(e)
    /\ UNCHANGED <<thread, optimistic, hydrated, badge, pane, online, calls>>
    /\ log' \in Seq(Message) /\ Len(log') \in {Len(log), Len(log) + 1}
    /\ Len(log') <= MaxMessages /\ lastRead' \in 0 .. Len(log')
    /\ \A k \in 1 .. Len(log') : k > Len(log) => log'[k].send = 0
    /\ spent' \in Ceiling /\ spent'.sends = spent.sends
    /\ disturbed \subseteq disturbed' /\ disturbed' \in SUBSET {"thread", "badge"}
    /\ "thread" \notin disturbed' /\ e.type # "read" => online \/ (~hydrated /\ ~HistoryOut)

LEMMA AnnounceStep ==
    ASSUME Sane, NEW e, Announcement(e)
    PROVE  /\ ServerStep(e) /\ e \in Event /\ e \notin Answer
           /\ wire' \in Seq(Event \cup Answer) /\ Len(wire) \in Nat /\ Len(wire') \in Nat
           /\ Len(wire) <= Len(wire')
           /\ \A i \in 1 .. Len(wire) : wire'[i] = wire[i]
           /\ \A i \in 1 .. Len(wire') : i > Len(wire) =>
                wire'[i] = e /\ online /\ i = Len(wire) + 1 /\ i = Len(wire')
           /\ online => Len(wire) + 1 \in 1 .. Len(wire') /\ wire'[Len(wire) + 1] = e
<1>1. Sane /\ MessagingTypeOK
  BY DEF Sane
<1>2. e \in Event /\ e \notin Answer
  BY Kinds DEF Announcement, Concerns
<1>3. wire \in Seq(Event \cup Answer) /\ Len(wire) \in Nat /\ online \in BOOLEAN
  BY <1>1, Carried DEF MessagingTypeOK
<1>4. PICK s : s = Notified(e)
  OBVIOUS
<1>5. /\ s \in Seq(Event \cup Answer)
      /\ online => Len(s) = 1 /\ s[1] = e
      /\ ~online => Len(s) = 0
  BY <1>2, <1>3, <1>4, Noted
<1>6. wire' = wire \o s
  BY <1>4 DEF Announcement
<1>7. /\ wire' \in Seq(Event \cup Answer) /\ Len(wire') = Len(wire) + Len(s)
      /\ \A i \in 1 .. Len(wire) + Len(s) :
           wire'[i] = IF i <= Len(wire) THEN wire[i] ELSE s[i - Len(wire)]
  BY <1>3, <1>5, <1>6, ConcatProperties
<1>8. /\ Len(wire') \in Nat /\ Len(wire) <= Len(wire')
      /\ \A i \in 1 .. Len(wire) : wire'[i] = wire[i]
      /\ \A i \in 1 .. Len(wire') : i > Len(wire) =>
           wire'[i] = e /\ online /\ i = Len(wire) + 1 /\ i = Len(wire')
      /\ online => Len(wire) + 1 \in 1 .. Len(wire') /\ wire'[Len(wire) + 1] = e
  <2>1. CASE online
    <3>1. Len(s) = 1 /\ s[1] = e /\ Len(wire') = Len(wire) + 1
      BY <1>3, <1>5, <1>7, <2>1
    <3>2. wire'[Len(wire) + 1] = e /\ \A i \in 1 .. Len(wire) : wire'[i] = wire[i]
      BY <1>3, <1>7, <3>1
    <3> QED BY <1>3, <2>1, <3>1, <3>2
  <2>2. CASE ~online
    BY <1>3, <1>5, <1>7, <2>2
  <2> QED BY <1>3, <2>1, <2>2
<1>9. ServerStep(e)
  <2>1. \A i \in 1 .. Len(wire') : i > Len(wire) /\ wire'[i] \in Event =>
          wire'[i] = e /\ online /\ \A j \in 1 .. Len(wire') : j > i => wire'[j] \notin Event
    BY <1>3, <1>8
  <2>2. online => \E i \in 1 .. Len(wire') : i > Len(wire) /\ wire'[i] = e
    BY <1>3, <1>8
  <2> QED BY <1>8, <2>1, <2>2 DEF Announcement, ServerStep, SameWork
<1> QED BY <1>2, <1>3, <1>7, <1>8, <1>9

LEMMA AnnounceKeeps ==
    ASSUME MessagingInv, NEW e, Announcement(e)
    PROVE  MessagingInv'
<1> USE DEF Announcement
<1>1. Sane /\ MessagingTypeOK
  BY DEF MessagingInv, Sane
<1>2. ServerStep(e) /\ e \in Event /\ e \notin Answer
  BY <1>1, AnnounceStep
<1>3. wire' \in Seq(Event \cup Answer) /\ Len(wire) \in Nat
  BY <1>1, AnnounceStep
<1>8. /\ Len(wire') \in Nat /\ Len(wire) <= Len(wire')
      /\ \A i \in 1 .. Len(wire) : wire'[i] = wire[i]
      /\ \A i \in 1 .. Len(wire') : i > Len(wire) =>
           wire'[i] = e /\ online /\ i = Len(wire) + 1 /\ i = Len(wire')
      /\ online => Len(wire) + 1 \in 1 .. Len(wire') /\ wire'[Len(wire) + 1] = e
  BY <1>1, AnnounceStep
<1>9. MessagingTypeOK'
  BY <1>1, <1>3 DEF MessagingTypeOK, Ceiling
<1>10. ServerStep(e)
  BY <1>2
<1>11. \A i \in 1 .. Len(wire') : wire'[i] \in Answer => i \in 1 .. Len(wire) /\ wire[i] \in Answer
  BY <1>2, <1>3, <1>8
<1>12. OneAnswer'
  <2>1. OneAnswer
    BY <1>1 DEF Sane
  <2>2. \A i \in 1 .. Len(wire) : i \in 1 .. Len(wire')
    BY <1>3, <1>8
  <2> QED BY <1>8, <1>11, <2>1, <2>2 DEF OneAnswer
<1>13. SendsApart'
  <2>1. /\ Len(log) \in Nat /\ Len(log') \in Nat /\ Len(log') >= Len(log)
        /\ \A k \in 1 .. Len(log) : log'[k].send = log[k].send
    BY <1>1, <1>9, <1>10, Grown
  <2>2. \A k \in 1 .. Len(log') :
          log'[k].send = 0 \/ (k \in 1 .. Len(log) /\ log'[k].send = log[k].send)
    BY <2>1
  <2>3. SendsApart /\ spent.sends \in Nat
    BY <1>1, Counting, Kinds DEF Sane
  <2>4. \A i \in 1 .. Len(calls) : calls[i].op = "send" => calls[i].send # 0
    BY <1>1, <2>3 DEF Sane, CallsFit, CallFits
  <2>5. calls' = calls /\ spent'.sends = spent.sends
    OBVIOUS
  <2>6. \A i, j \in 1 .. Len(log') : log'[i].send # 0 /\ log'[i].send = log'[j].send => i = j
    BY <2>2, <2>3 DEF SendsApart
  <2>7. \A i \in 1 .. Len(log') : log'[i].send <= spent'.sends
    BY <2>2, <2>3, <2>5 DEF SendsApart
  <2>8. \A i \in 1 .. Len(calls) : \A k \in 1 .. Len(log') :
          calls[i].op = "send" /\ ~calls[i].sent => log'[k].send # calls[i].send
    BY <2>2, <2>3, <2>4 DEF SendsApart
  <2> QED BY <2>3, <2>5, <2>6, <2>7, <2>8 DEF SendsApart
<1>14. \A i \in 1 .. Len(wire') : ~(i > Len(wire) /\ wire'[i] \in Answer)
  BY <1>2, <1>8
<1>15. "thread" \notin disturbed' => Heard(e)
  BY DEF Heard
<1> QED BY <1>9, <1>10, <1>12, <1>13, <1>14, <1>15, ServerKeeps

LEMMA LogAdded ==
    ASSUME MessagingTypeOK, NEW m \in Message, log' = Append(log, m)
    PROVE  /\ log' \in Seq(Message) /\ Len(log') = Len(log) + 1 /\ log'[Len(log) + 1] = m
           /\ \A k \in 1 .. Len(log) : log'[k] = log[k]
           /\ \A k \in 1 .. Len(log') : k > Len(log) => k = Len(log) + 1
           /\ Len(log) \in 0 .. MaxMessages
<1>1. log \in Seq(Message) /\ Len(log) \in 0 .. MaxMessages
  BY Carried
<1>2. /\ log' \in Seq(Message) /\ Len(log') = Len(log) + 1 /\ log'[Len(log) + 1] = m
      /\ \A k \in 1 .. Len(log) : log'[k] = log[k]
  BY <1>1, AppendProperties
<1> QED BY <1>1, <1>2, Kinds

LEMMA Unmissed ==
    ASSUME MessagingTypeOK, NEW ok \in BOOLEAN, MissedUnless(ok)
    PROVE  /\ disturbed \subseteq disturbed' /\ disturbed' \in SUBSET {"thread", "badge"}
           /\ "thread" \notin disturbed' => ok \/ (~hydrated /\ ~HistoryOut)
<1>1. DOMAIN calls = 1 .. Len(calls)
  BY LenProperties DEF MessagingTypeOK
<1>2. disturbed \in SUBSET {"thread", "badge"}
  BY DEF MessagingTypeOK
<1> QED BY <1>1, <1>2 DEF MissedUnless, HistoryOut

LEMMA PostAnnounces ==
    ASSUME Sane, NEW b \in Bodies, OtherPosts(b)
    PROVE  \E e : Announcement(e) /\ e.type = "created" /\ e.by = "other"
<1>1. MessagingTypeOK /\ online \in BOOLEAN
  BY DEF Sane, MessagingTypeOK
<1>2. PICK m, e : /\ m = [by |-> "other", body |-> b, send |-> 0]
                  /\ e = [type |-> "created", id |-> Len(log) + 1, body |-> b, by |-> "other"]
  OBVIOUS
<1>3. /\ log' = Append(log, m) /\ wire' = wire \o Notified(e) /\ MissedUnless(online)
      /\ Len(log) < MaxMessages
      /\ UNCHANGED <<lastRead, thread, optimistic, hydrated, badge, pane, online, calls, spent>>
  BY <1>2 DEF OtherPosts
<1>4. m \in Message /\ m.send = 0 /\ m.by = "other" /\ m.body = b
  BY <1>2, Kinds DEF Message
<1>5. /\ log' \in Seq(Message) /\ Len(log') = Len(log) + 1 /\ log'[Len(log) + 1] = m
      /\ \A k \in 1 .. Len(log) : log'[k] = log[k]
      /\ \A k \in 1 .. Len(log') : k > Len(log) => k = Len(log) + 1
      /\ Len(log) \in 0 .. MaxMessages
  BY <1>1, <1>3, <1>4, LogAdded
<1>6. Len(log) + 1 \in 0 .. MaxMessages /\ Len(log) + 1 \in 1 .. Len(log')
  BY <1>3, <1>5, Kinds
<1>7. /\ e \in Event /\ e.type = "created" /\ e.id = Len(log) + 1 /\ e.body = b /\ e.by = "other"
  BY <1>2, <1>6 DEF Event
<1>8. Concerns(e)
  BY <1>4, <1>5, <1>6, <1>7 DEF Concerns
<1>9. /\ disturbed \subseteq disturbed' /\ disturbed' \in SUBSET {"thread", "badge"}
      /\ "thread" \notin disturbed' => online \/ (~hydrated /\ ~HistoryOut)
  BY <1>1, <1>3, Unmissed
<1>10. spent' \in Ceiling /\ spent'.sends = spent.sends
  BY <1>1, <1>3, Counting
<1>11. Len(log') <= MaxMessages /\ lastRead' \in 0 .. Len(log')
  BY <1>1, <1>3, <1>5, <1>6, Kinds DEF MessagingTypeOK
<1>12. \A k \in 1 .. Len(log') : k > Len(log) => log'[k].send = 0
  BY <1>4, <1>5
<1>13. Announcement(e)
  BY <1>3, <1>5, <1>8, <1>9, <1>10, <1>11, <1>12 DEF Announcement
<1> QED BY <1>7, <1>13

LEMMA PostKeeps ==
    ASSUME MessagingInv, NEW b \in Bodies, OtherPosts(b)
    PROVE  MessagingInv'
<1>1. PICK e : Announcement(e)
  BY PostAnnounces DEF MessagingInv
<1> QED BY <1>1, AnnounceKeeps

LEMMA NoneItsNext == \A n \in Int : n # n + 1
OBVIOUS

\* A message that is edited or deleted, and its event.
LEMMA RewriteAnnounces ==
    ASSUME Sane, NEW i \in DOMAIN log, NEW b \in Bodies \cup {Gone},
           NEW type \in {"updated", "deleted"}, type = "updated" => b \in Bodies,
           type = "deleted" => b = Gone, log[i].body # Gone, log' = [log EXCEPT ![i].body = b],
           wire' = wire \o Notified([type |-> type, id |-> i, body |-> b, by |-> log[i].by]),
           UNCHANGED <<lastRead, thread, optimistic, hydrated, badge, pane, online, calls>>,
           Move, disturbed \subseteq disturbed', disturbed' \in SUBSET {"thread", "badge"},
           "thread" \notin disturbed' => online \/ (~hydrated /\ ~HistoryOut)
    PROVE  \E e : /\ Announcement(e) /\ e.type = type
                  /\ \A k \in 1 .. Len(log) : k # i => log'[k] = log[k]
                  /\ log'[i].by = log[i].by /\ log'[i].body = b /\ Len(log') = Len(log)
<1>1. MessagingTypeOK
  BY DEF Sane
<1>2. log \in Seq(Message) /\ Len(log) \in 0 .. MaxMessages /\ i \in 1 .. Len(log)
  BY <1>1, Carried, LenProperties
<1>3. log[i] \in Message /\ i \in 0 .. MaxMessages
  BY <1>1, <1>2, Carried, Kinds
<1>4. PICK m, e : /\ m = [log[i] EXCEPT !.body = b]
                  /\ e = [type |-> type, id |-> i, body |-> b, by |-> log[i].by]
  OBVIOUS
<1>5. m \in Message /\ m.send = log[i].send /\ m.by = log[i].by /\ m.body = b
  BY <1>3, <1>4 DEF Message
<1>6. log' = [log EXCEPT ![i] = m]
  BY <1>4
<1>7. /\ log' \in Seq(Message) /\ Len(log') = Len(log) /\ log'[i] = m
      /\ \A k \in 1 .. Len(log) : k # i => log'[k] = log[k]
  <2> DEFINE l == [log EXCEPT ![i] = m]
  <2>1. /\ l \in Seq(Message) /\ Len(l) = Len(log)
        /\ \A k \in 1 .. Len(log) : l[k] = IF k = i THEN m ELSE log[k]
    BY <1>2, <1>5, ExceptSeq
  <2>2. log' = l
    BY <1>6
  <2> HIDE DEF l
  <2>3. l[i] = m /\ \A k \in 1 .. Len(log) : k # i => l[k] = log[k]
    BY <1>2, <2>1
  <2> QED BY <2>1, <2>2, <2>3
<1>8. e \in Event /\ e.type = type /\ e.id = i /\ e.body = b /\ e.by = log[i].by
  <2>1. PICK by : by = log[i].by /\ by \in {"me", "other"}
    BY <1>3, Kinds
  <2>2. e = [type |-> type, id |-> i, body |-> b, by |-> by]
    BY <1>4, <2>1
  <2>3. type \in {"created", "updated", "deleted", "read"}
    OBVIOUS
  <2> QED BY <1>3, <2>1, <2>2, <2>3 DEF Event
<1>9. Concerns(e)
  <2>1. \A k \in 1 .. Len(log) :
          \/ log'[k] = log[k]
          \/ /\ e.type \in {"updated", "deleted"} /\ k = e.id /\ log[k].body # Gone
             /\ log'[k].by = log[k].by /\ log'[k].send = log[k].send
    BY <1>5, <1>7, <1>8
  <2>2. e.id \in 1 .. Len(log') /\ e.by = log'[e.id].by /\ e.body = log'[e.id].body
    BY <1>2, <1>5, <1>7, <1>8
  <2>3. e.type # "created" /\ Len(log') # Len(log) + 1
    <3>1. Len(log) \in Int
      BY <1>2
    <3>2. Len(log') = Len(log)
      BY <1>7
    <3>4. Len(log') # Len(log) + 1
      BY <3>1, <3>2, NoneItsNext, Zenon
    <3>3. e.type # "created"
      BY <1>8
    <3> QED BY <3>3, <3>4
  <2> QED BY <1>8, <2>1, <2>2, <2>3 DEF Concerns
<1>10. spent' \in Ceiling /\ spent'.sends = spent.sends
  BY <1>1, Counting
<1>11. Len(log') <= MaxMessages /\ lastRead' \in 0 .. Len(log')
  BY <1>1, <1>2, <1>7, Kinds DEF MessagingTypeOK
<1>12. \A k \in 1 .. Len(log') : k > Len(log) => log'[k].send = 0
  BY <1>2, <1>7
<1>13. wire' = wire \o Notified(e)
  BY <1>4
<1>14. Announcement(e)
  BY <1>7, <1>9, <1>10, <1>11, <1>12, <1>13 DEF Announcement
<1> QED BY <1>5, <1>7, <1>8, <1>14

LEMMA EditAnnounces ==
    ASSUME Sane, NEW i \in DOMAIN log, NEW b \in Bodies, Edit(i, b)
    PROVE  \E e : /\ Announcement(e) /\ e.type = "updated"
                  /\ \A k \in 1 .. Len(log) : k # i => log'[k] = log[k]
                  /\ log'[i].by = log[i].by /\ log'[i].body = b /\ Len(log') = Len(log)
<1>1. MessagingTypeOK /\ online \in BOOLEAN
  BY DEF Sane, MessagingTypeOK
<1>2. /\ disturbed \subseteq disturbed' /\ disturbed' \in SUBSET {"thread", "badge"}
      /\ "thread" \notin disturbed' => online \/ (~hydrated /\ ~HistoryOut)
  BY <1>1, Unmissed DEF Edit
<1> QED BY <1>2, RewriteAnnounces DEF Edit

LEMMA DeleteAnnounces ==
    ASSUME Sane, NEW i \in DOMAIN log, Delete(i)
    PROVE  \E e : /\ Announcement(e) /\ e.type = "deleted"
                  /\ \A k \in 1 .. Len(log) : k # i => log'[k] = log[k]
                  /\ log'[i].by = log[i].by /\ log'[i].body = Gone /\ Len(log') = Len(log)
<1>1. MessagingTypeOK /\ online \in BOOLEAN /\ disturbed \in SUBSET {"thread", "badge"}
  BY DEF Sane, MessagingTypeOK
<1>2. /\ disturbed \subseteq disturbed' /\ disturbed' \in SUBSET {"thread", "badge"}
      /\ "thread" \notin disturbed' => online \/ (~hydrated /\ ~HistoryOut)
  <2>1. CASE i > lastRead /\ log[i].by = "other"
    <3>1. disturbed' = disturbed \cup {"badge"} \cup (IF online THEN {} ELSE {"thread"})
      BY <2>1 DEF Delete
    <3>2. CASE online
      BY <1>1, <3>1, <3>2
    <3>3. CASE ~online
      BY <1>1, <3>1, <3>3
    <3> QED BY <3>2, <3>3
  <2>2. CASE ~(i > lastRead /\ log[i].by = "other")
    BY <1>1, <2>2, Unmissed DEF Delete
  <2> QED BY <2>1, <2>2
<1> QED BY <1>2, RewriteAnnounces DEF Delete

LEMMA RewriteKeeps ==
    ASSUME MessagingInv, NEW i \in DOMAIN log, Delete(i) \/ \E b \in Bodies : Edit(i, b)
    PROVE  MessagingInv'
<1>1. PICK e : Announcement(e)
  BY EditAnnounces, DeleteAnnounces DEF MessagingInv
<1> QED BY <1>1, AnnounceKeeps

LEMMA ReadAnnounces ==
    ASSUME Sane, ReadElsewhere
    PROVE  \E e : Announcement(e) /\ e.type = "read"
<1>1. MessagingTypeOK
  BY DEF Sane
<1>2. PICK e : e = [type |-> "read", id |-> 0, body |-> Gone, by |-> "me"]
  OBVIOUS
<1>3. log \in Seq(Message) /\ Len(log) \in 0 .. MaxMessages
  BY <1>1, Carried
<1>4. e \in Event /\ e.type = "read"
  BY <1>2, Kinds DEF Event
<1>5. /\ wire' = wire \o Notified(e) /\ lastRead' = Len(log) /\ Move
      /\ UNCHANGED <<log, thread, optimistic, hydrated, badge, pane, online, calls, disturbed>>
  BY <1>2 DEF ReadElsewhere
<1>6. Concerns(e)
  BY <1>3, <1>4, <1>5 DEF Concerns
<1>7. spent' \in Ceiling /\ spent'.sends = spent.sends
  BY <1>1, <1>5, Counting
<1>8. Len(log') <= MaxMessages /\ lastRead' \in 0 .. Len(log') /\ log' \in Seq(Message)
      /\ Len(log') \in {Len(log), Len(log) + 1} /\ disturbed' \in SUBSET {"thread", "badge"}
      /\ disturbed \subseteq disturbed'
  BY <1>1, <1>3, <1>5, Kinds DEF MessagingTypeOK
<1>9. \A k \in 1 .. Len(log') : k > Len(log) => log'[k].send = 0
  BY <1>3, <1>5
<1>10. Announcement(e)
  BY <1>4, <1>5, <1>6, <1>7, <1>8, <1>9 DEF Announcement
<1> QED BY <1>4, <1>10

LEMMA ReadKeeps ==
    ASSUME MessagingInv, ReadElsewhere
    PROVE  MessagingInv'
<1>1. PICK e : Announcement(e)
  BY ReadAnnounces DEF MessagingInv
<1> QED BY <1>1, AnnounceKeeps

\* The server's part of a step that answers the call under way with a, and sends e perhaps.
Answered(e, a, s) ==
    /\ a \in Answer /\ a.unread <= Len(log)
    /\ calls # <<>> /\ ~calls[1].sent /\ calls' = [calls EXCEPT ![1].sent = TRUE]
    /\ s \in {<<>>, Notified(e)} /\ (e.type # "read" => s = Notified(e))
    /\ wire' = (wire \o s) \o <<a>>
    /\ e.type \in {"created", "read"}
    /\ \A k \in Ids : a.messages[k] # Absent =>
         k \in 1 .. Len(log') /\ a.messages[k] = log'[k].body
    /\ calls[1].op = "send" /\ a.type = "reply" =>
         /\ Len(log') = Len(log) + 1
         /\ \A m \in Ids : a.messages[m] = IF m = Len(log) + 1 THEN calls[1].body ELSE Absent
    /\ Len(log') = Len(log) + 1 =>
         /\ calls[1].op = "send" /\ log'[Len(log) + 1].by = "me"
         /\ log'[Len(log) + 1].send = calls[1].send /\ log'[Len(log) + 1].body = calls[1].body

\* The page that answers a call for history, or for earlier messages, has no gap.
PageFits(a) ==
    a.type = "reply" =>
        /\ calls[1].op = "older" => \A j, k \in 1 .. Len(log) :
             j < k /\ k < calls[1].at /\ a.messages[j] # Absent => a.messages[k] # Absent
        /\ calls[1].op = "history" =>
             /\ \A j, k \in 1 .. Len(log) : j < k /\ a.messages[j] # Absent => a.messages[k] # Absent
             /\ log # <<>> => a.messages[Len(log)] # Absent

LEMMA WirePushed ==
    ASSUME Sane, NEW e \in Event, NEW a, NEW s, Answered(e, a, s)
    PROVE  /\ wire' \in Seq(Event \cup Answer) /\ Len(wire') \in Nat /\ Len(wire) \in Nat
           /\ Len(wire) < Len(wire') /\ wire'[Len(wire')] = a
           /\ \A i \in 1 .. Len(wire) : wire'[i] = wire[i]
           /\ \A i \in 1 .. Len(wire') : i > Len(wire) =>
                \/ i = Len(wire') /\ wire'[i] = a
                \/ i < Len(wire') /\ i = Len(wire) + 1 /\ wire'[i] = e /\ online /\ s # <<>>
           /\ online /\ s = Notified(e) => \E i \in 1 .. Len(wire') : i > Len(wire) /\ wire'[i] = e
<1>1. wire \in Seq(Event \cup Answer) /\ Len(wire) \in Nat /\ online \in BOOLEAN /\ a \in Answer
  BY Carried DEF Sane, MessagingTypeOK, Answered
<1>2. s \in {<<>>, Notified(e)} /\ wire' = (wire \o s) \o <<a>>
  BY DEF Answered
<1>3. /\ Notified(e) \in Seq(Event \cup Answer)
      /\ online => Len(Notified(e)) = 1 /\ Notified(e)[1] = e
      /\ ~online => Len(Notified(e)) = 0
  BY <1>1, Noted
<1>4. /\ s \in Seq(Event \cup Answer)
      /\ Len(s) = 0 \/ (Len(s) = 1 /\ s[1] = e /\ online /\ s # <<>>)
      /\ online /\ s = Notified(e) => Len(s) = 1
  <2>1. CASE s = Notified(e)
    <3>1. s = <<>> => Len(s) = 0
      BY EmptySeq
    <3> QED BY <1>1, <1>3, <2>1, <3>1
  <2>2. CASE s = <<>> /\ s # Notified(e)
    <3>1. s \in Seq(Event \cup Answer) /\ Len(s) = 0
      BY <2>2, EmptySeq
    <3> QED BY <2>2, <3>1
  <2> QED BY <1>2, <2>1, <2>2
<1> DEFINE t == <<a>>
           w == wire \o s
<1>5. t \in Seq(Event \cup Answer) /\ Len(t) = 1 /\ t[1] = a
  BY <1>1
<1>6. /\ w \in Seq(Event \cup Answer) /\ Len(w) = Len(wire) + Len(s)
      /\ \A i \in 1 .. Len(wire) + Len(s) :
           w[i] = IF i <= Len(wire) THEN wire[i] ELSE s[i - Len(wire)]
  BY <1>1, <1>4, ConcatProperties
<1>7. wire' = w \o t
  BY <1>2
<1> HIDE DEF t, w
<1>8. /\ wire' \in Seq(Event \cup Answer) /\ Len(wire') = Len(w) + Len(t)
      /\ \A i \in 1 .. Len(w) + Len(t) : wire'[i] = IF i <= Len(w) THEN w[i] ELSE t[i - Len(w)]
  <2>1. /\ w \o t \in Seq(Event \cup Answer) /\ Len(w \o t) = Len(w) + Len(t)
        /\ \A i \in 1 .. Len(w) + Len(t) : (w \o t)[i] = IF i <= Len(w) THEN w[i] ELSE t[i - Len(w)]
    <3>1. w \in Seq(Event \cup Answer) /\ t \in Seq(Event \cup Answer)
      BY <1>5, <1>6
    <3> QED BY <3>1, ConcatProperties, Zenon
  <2> QED BY <1>7, <2>1, Zenon
<1>9. CASE Len(s) = 0
  <2>1. Len(w) = Len(wire) /\ Len(wire') = Len(wire) + 1
    BY <1>1, <1>5, <1>6, <1>8, <1>9
  <2>2. wire'[Len(wire) + 1] = a /\ \A i \in 1 .. Len(wire) : wire'[i] = wire[i]
    BY <1>1, <1>5, <1>6, <1>8, <1>9, <2>1
  <2> QED BY <1>1, <1>4, <1>8, <1>9, <2>1, <2>2
<1>10. CASE Len(s) = 1
  <2>1. Len(w) = Len(wire) + 1 /\ Len(wire') = Len(wire) + 2
    BY <1>1, <1>5, <1>6, <1>8, <1>10
  <2>2. s[1] = e /\ online /\ s # <<>>
    BY <1>4, <1>10
  <2>3. w[Len(wire) + 1] = e /\ \A i \in 1 .. Len(wire) : w[i] = wire[i]
    BY <1>1, <1>6, <1>10, <2>2
  <2>4. wire'[Len(wire) + 2] = a /\ \A i \in 1 .. Len(wire) + 1 : wire'[i] = w[i]
    BY <1>1, <1>5, <1>8, <2>1
  <2>5. /\ wire'[Len(wire) + 1] = e /\ \A i \in 1 .. Len(wire) : wire'[i] = wire[i]
    BY <1>1, <2>3, <2>4
  <2> QED BY <1>1, <1>8, <2>1, <2>2, <2>4, <2>5
<1> QED BY <1>4, <1>9, <1>10

LEMMA CallServed ==
    ASSUME Sane, calls # <<>>, calls' = [calls EXCEPT ![1].sent = TRUE]
    PROVE  /\ calls' \in Seq(Call) /\ Len(calls) \in Nat /\ Len(calls) >= 1
           /\ Len(calls') = Len(calls) /\ calls' # <<>>
           /\ calls'[1].sent /\ SameWork(calls'[1], calls[1])
           /\ \A i \in 1 .. Len(calls) : SameWork(calls'[i], calls[i])
           /\ \A i \in 1 .. Len(calls) : i # 1 => calls'[i] = calls[i]
           /\ calls[1] \in Call
<1>1. calls \in Seq(Call) /\ Len(calls) \in Nat /\ Len(calls) >= 1
  BY Carried, EmptySeq DEF Sane
<1>2. calls[1] \in Call /\ 1 \in 1 .. Len(calls)
  BY <1>1, Carried DEF Sane
<1>3. PICK x : x = [calls[1] EXCEPT !.sent = TRUE]
  OBVIOUS
<1>4. x \in Call /\ x.sent /\ SameWork(x, calls[1])
  BY <1>2, <1>3 DEF Call, SameWork
<1> DEFINE q == [calls EXCEPT ![1] = x]
<1>5. /\ q \in Seq(Call) /\ Len(q) = Len(calls)
      /\ \A i \in 1 .. Len(calls) : q[i] = IF i = 1 THEN x ELSE calls[i]
  BY <1>1, <1>2, <1>4, ExceptSeq
<1>6. calls' = q
  BY <1>3
<1> HIDE DEF q
<1>7. q[1] = x /\ \A i \in 1 .. Len(calls) : i # 1 => q[i] = calls[i]
  BY <1>2, <1>5
<1>8. \A i \in 1 .. Len(calls) : SameWork(q[i], calls[i])
  BY <1>4, <1>7 DEF SameWork
<1>9. q # <<>>
  BY <1>1, <1>5
<1> QED BY <1>1, <1>2, <1>4, <1>5, <1>6, <1>7, <1>8, <1>9

\* A step that answers: what it does to the log is announced or answered, or spoils the thread.
Answering(e, a, s) ==
    /\ Concerns(e) /\ Answered(e, a, s) /\ PageFits(a)
    /\ UNCHANGED <<thread, optimistic, hydrated, badge, pane, online>>
    /\ log' \in Seq(Message) /\ Len(log') \in {Len(log), Len(log) + 1}
    /\ Len(log') <= MaxMessages /\ lastRead' \in 0 .. Len(log')
    /\ spent' \in Ceiling /\ spent'.sends = spent.sends
    /\ disturbed \subseteq disturbed' /\ disturbed' \in SUBSET {"thread", "badge"}
    /\ "thread" \notin disturbed' /\ e.type = "created" => online \/ a.type = "reply"

LEMMA AnswerStep ==
    ASSUME Sane, NEW e, NEW a, NEW s, Answering(e, a, s)
    PROVE  /\ ServerStep(e)
           /\ e \in Event /\ e \notin Answer /\ a \in Answer /\ a \notin Event
           /\ e.type \in {"created", "read"}
           /\ wire' \in Seq(Event \cup Answer) /\ Len(wire') \in Nat /\ Len(wire) \in Nat
           /\ Len(wire) < Len(wire') /\ wire'[Len(wire')] = a
           /\ \A i \in 1 .. Len(wire) : wire'[i] = wire[i] /\ wire[i] \notin Answer
           /\ \A i \in 1 .. Len(wire') : i > Len(wire) =>
                \/ i = Len(wire') /\ wire'[i] = a
                \/ i < Len(wire') /\ i = Len(wire) + 1 /\ wire'[i] = e /\ online /\ s # <<>>
           /\ online /\ s = Notified(e) => \E i \in 1 .. Len(wire') : i > Len(wire) /\ wire'[i] = e
           /\ calls' \in Seq(Call) /\ Len(calls) \in Nat /\ Len(calls) >= 1
           /\ Len(calls') = Len(calls) /\ calls' # <<>> /\ calls # <<>>
           /\ calls'[1].sent /\ SameWork(calls'[1], calls[1]) /\ ~calls[1].sent
           /\ \A i \in 1 .. Len(calls) : SameWork(calls'[i], calls[i])
           /\ \A i \in 1 .. Len(calls) : i # 1 => calls'[i] = calls[i]
           /\ calls[1] \in Call
<1> USE DEF Answering
<1>1. Sane /\ MessagingTypeOK
  BY DEF Sane
<1>2. e \in Event /\ e \notin Answer /\ a \in Answer /\ a \notin Event
      /\ e.type \in {"created", "read"}
  BY Kinds DEF Concerns, Answered
<1>3. /\ wire' \in Seq(Event \cup Answer) /\ Len(wire') \in Nat /\ Len(wire) \in Nat
      /\ Len(wire) < Len(wire') /\ wire'[Len(wire')] = a
      /\ \A i \in 1 .. Len(wire) : wire'[i] = wire[i]
      /\ \A i \in 1 .. Len(wire') : i > Len(wire) =>
           \/ i = Len(wire') /\ wire'[i] = a
           \/ i < Len(wire') /\ i = Len(wire) + 1 /\ wire'[i] = e /\ online /\ s # <<>>
      /\ online /\ s = Notified(e) => \E i \in 1 .. Len(wire') : i > Len(wire) /\ wire'[i] = e
  BY <1>1, <1>2, WirePushed
<1>4. /\ calls' \in Seq(Call) /\ Len(calls) \in Nat /\ Len(calls) >= 1
      /\ Len(calls') = Len(calls) /\ calls' # <<>> /\ calls # <<>>
      /\ calls'[1].sent /\ SameWork(calls'[1], calls[1]) /\ ~calls[1].sent
      /\ \A i \in 1 .. Len(calls) : SameWork(calls'[i], calls[i])
      /\ \A i \in 1 .. Len(calls) : i # 1 => calls'[i] = calls[i]
      /\ calls[1] \in Call
  BY <1>1, CallServed DEF Answered
<1>5. \A i \in 1 .. Len(wire) : wire[i] \notin Answer
  BY <1>1, <1>4 DEF Sane, OneAnswer
<1>6. online /\ e.type # "read" => \E i \in 1 .. Len(wire') : i > Len(wire) /\ wire'[i] = e
  BY <1>3 DEF Answered
<1>7. ServerStep(e)
  <2>1. \A i \in 1 .. Len(wire') : i > Len(wire) /\ wire'[i] \in Event =>
          wire'[i] = e /\ online /\ \A j \in 1 .. Len(wire') : j > i => wire'[j] \notin Event
    BY <1>2, <1>3
  <2>2. ~AnswerIsOut
    BY <1>5 DEF AnswerIsOut
  <2>3. Len(wire) <= Len(wire')
    BY <1>3
  <2> QED BY <1>3, <1>4, <1>6, <2>1, <2>2, <2>3 DEF ServerStep
<1> QED BY <1>2, <1>3, <1>4, <1>5, <1>7

LEMMA AnswerKeeps ==
    ASSUME MessagingInv, NEW e, NEW a, NEW s, Answering(e, a, s)
    PROVE  MessagingInv'
<1> USE DEF Answering
<1>1. Sane /\ MessagingTypeOK
  BY DEF MessagingInv, Sane
<1>2. e \in Event /\ e \notin Answer /\ a \in Answer /\ a \notin Event
      /\ e.type \in {"created", "read"}
  BY <1>1, AnswerStep
<1>3. /\ wire' \in Seq(Event \cup Answer) /\ Len(wire') \in Nat /\ Len(wire) \in Nat
      /\ Len(wire) < Len(wire') /\ wire'[Len(wire')] = a
      /\ \A i \in 1 .. Len(wire) : wire'[i] = wire[i]
      /\ \A i \in 1 .. Len(wire') : i > Len(wire) =>
           \/ i = Len(wire') /\ wire'[i] = a
           \/ i < Len(wire') /\ i = Len(wire) + 1 /\ wire'[i] = e /\ online
  BY <1>1, AnswerStep
<1>4. /\ calls' \in Seq(Call) /\ Len(calls) \in Nat /\ Len(calls) >= 1
      /\ Len(calls') = Len(calls) /\ calls' # <<>> /\ calls # <<>>
      /\ calls'[1].sent /\ SameWork(calls'[1], calls[1]) /\ ~calls[1].sent
      /\ \A i \in 1 .. Len(calls) : SameWork(calls'[i], calls[i])
      /\ \A i \in 1 .. Len(calls) : i # 1 => calls'[i] = calls[i]
      /\ calls[1] \in Call
  BY <1>1, AnswerStep
<1>5. \A i \in 1 .. Len(wire) : wire[i] \notin Answer
  BY <1>1, AnswerStep
<1>6. MessagingTypeOK'
  BY <1>1, <1>3, <1>4 DEF MessagingTypeOK, Ceiling
<1>7. ServerStep(e)
  BY <1>1, AnswerStep
<1>8. \A i \in 1 .. Len(wire') : wire'[i] \in Answer => i = Len(wire') /\ wire'[i] = a
  BY <1>2, <1>3, <1>5
<1>9. OneAnswer'
  <2>1. OneAnswer
    BY <1>1 DEF Sane
  <2>2. \A i \in 1 .. Len(calls') : calls'[i].sent => i = 1
    BY <1>4, <2>1 DEF OneAnswer
  <2>3. Len(wire') \in 1 .. Len(wire') /\ wire'[Len(wire')] \in Answer
    BY <1>2, <1>3
  <2> QED BY <1>4, <1>8, <2>2, <2>3 DEF OneAnswer
<1>10. /\ Len(log) \in 0 .. MaxMessages /\ Len(log') \in Nat /\ Len(log') >= Len(log)
       /\ \A k \in 1 .. Len(log) : log'[k].send = log[k].send /\ log'[k] = log[k]
       /\ \A k \in 1 .. Len(log') : k > Len(log) =>
            /\ e.type = "created" /\ k = e.id /\ k = Len(log) + 1
            /\ calls[1].op = "send" /\ log'[k].by = "me"
            /\ log'[k].send = calls[1].send /\ log'[k].body = calls[1].body
  <2>1. /\ Len(log) \in 0 .. MaxMessages /\ Len(log') \in Nat /\ Len(log') >= Len(log)
        /\ \A k \in 1 .. Len(log') : k > Len(log) => e.type = "created" /\ k = e.id
    BY <1>1, <1>6, <1>7, Grown, Carried
  <2>2. \A k \in 1 .. Len(log) : log'[k] = log[k]
    BY <1>2 DEF Concerns
  <2>3. ASSUME NEW k \in 1 .. Len(log'), k > Len(log)
        PROVE  k = Len(log) + 1 /\ Len(log') = Len(log) + 1
    BY <2>1, <2>3
  <2> QED BY <2>1, <2>2, <2>3 DEF Answered
<1>11. /\ SendsApart /\ CallFits(calls[1]) /\ spent.sends \in Nat
       /\ calls[1].op = "send" => /\ calls[1].send \in 1 .. spent.sends
                                  /\ \A k \in 1 .. Len(log) : log[k].send # calls[1].send
  <2>1. SendsApart /\ CallFits(calls[1]) /\ spent.sends \in Nat
    <3>1. 1 \in 1 .. Len(calls)
      BY <1>4
    <3>2. spent.sends \in Nat
      BY <1>1, Counting, Kinds
    <3> QED BY <1>1, <3>1, <3>2 DEF Sane, CallsFit
  <2>2. 1 \in 1 .. Len(calls) /\ ~calls[1].sent
    BY <1>4
  <2>3. ASSUME calls[1].op = "send"
        PROVE  \A k \in 1 .. Len(log) : log[k].send # calls[1].send
    BY <2>1, <2>2, <2>3, Zenon DEF SendsApart
  <2>4. calls[1].op = "send" => calls[1].send \in 1 .. spent.sends
    BY <2>1, Zenon DEF CallFits
  <2> QED BY <2>1, <2>3, <2>4, Zenon
<1>12. SendsApart'
  <2>1. ASSUME NEW i \in 1 .. Len(log'), NEW j \in 1 .. Len(log'),
               log'[i].send # 0, log'[i].send = log'[j].send
        PROVE  i = j
    <3>1. CASE i \in 1 .. Len(log) /\ j \in 1 .. Len(log)
      BY <1>10, <1>11, <2>1, <3>1 DEF SendsApart
    <3>2. CASE i \in 1 .. Len(log) /\ j > Len(log)
      BY <1>10, <1>11, <2>1, <3>2
    <3>3. CASE i > Len(log) /\ j \in 1 .. Len(log)
      BY <1>10, <1>11, <2>1, <3>3
    <3>4. CASE i > Len(log) /\ j > Len(log)
      BY <1>10, <3>4
    <3> QED BY <1>10, <3>1, <3>2, <3>3, <3>4
  <2>2. \A i \in 1 .. Len(log') : log'[i].send <= spent'.sends
    BY <1>10, <1>11 DEF SendsApart
  <2>3. \A i, j \in 1 .. Len(calls') :
          calls'[i].op = "send" /\ calls'[j].op = "send" /\ calls'[i].send = calls'[j].send => i = j
    BY <1>4, <1>11 DEF SendsApart, SameWork
  <2>4. ASSUME NEW i \in 1 .. Len(calls'), NEW k \in 1 .. Len(log'),
               calls'[i].op = "send", ~calls'[i].sent
        PROVE  log'[k].send # calls'[i].send
    <3>1. i # 1 /\ calls'[i] = calls[i] /\ 1 \in 1 .. Len(calls)
      BY <1>4, <2>4
    <3>2. CASE k \in 1 .. Len(log)
      BY <1>4, <1>10, <1>11, <2>4, <3>1, <3>2 DEF SendsApart
    <3>3. CASE k > Len(log)
      BY <1>4, <1>10, <1>11, <2>4, <3>1, <3>3 DEF SendsApart
    <3> QED BY <1>10, <3>2, <3>3
  <2> QED BY <2>1, <2>2, <2>3, <2>4 DEF SendsApart
<1>13. \A op : Awaited(op)' <=> calls[1].op = op
  BY <1>4 DEF Awaited, SameWork
<1>14. PICK last \in Nat : last = Len(wire')
  BY <1>3
<1>15. /\ last \in 1 .. Len(wire') /\ wire'[last] = a
       /\ \A op : Reply(last, op)' <=> (a.type = "reply" /\ calls[1].op = op)
  <2>1. last \in 1 .. Len(wire') /\ wire'[last] = a
    BY <1>3, <1>14
  <2> QED BY <1>2, <1>13, <2>1 DEF Reply
<1>16. /\ \A k \in Ids : a.messages[k] # Absent =>
            k \in 1 .. Len(log') /\ a.messages[k] = log'[k].body
       /\ calls[1].op = "send" /\ a.type = "reply" =>
            /\ Len(log') = Len(log) + 1
            /\ \A m \in Ids : a.messages[m] = IF m = Len(log) + 1 THEN calls[1].body ELSE Absent
       /\ a.unread <= Len(log) /\ a.unread \in Nat
  BY <1>2, Kinds DEF Answered
<1>17. AnswerFits(last)'
  <2>1. a.unread <= Len(log')
    BY <1>10, <1>16, Kinds
  <2>2. \A j \in 1 .. Len(wire') : ~(j > last)
    BY <1>14
  <2>3. ASSUME a.type = "reply", calls[1].op = "send"
        PROVE  \E k \in 1 .. Len(log') : Brings(wire[last], k)'
    <3> PICK k \in Nat : k = Len(log) + 1
      BY <1>10
    <3>1. k \in 1 .. Len(log') /\ k > Len(log)
      BY <1>10, <1>16, <2>3
    <3>2. log'[k].by = "me" /\ log'[k].send = calls'[1].send /\ calls'[1].body = calls[1].body
      BY <1>4, <1>10, <3>1 DEF SameWork
    <3>3. \A m \in Ids : a.messages[m] = IF m = k THEN calls'[1].body ELSE Absent
      BY <1>16, <2>3, <3>2
    <3>4. Brings(wire[last], k)'
      BY <1>15, <3>2, <3>3 DEF Brings
    <3> QED BY <3>1, <3>4
  <2> QED BY <1>13, <1>15, <1>16, <2>1, <2>2, <2>3 DEF AnswerFits
<1>18. EchoAt(last)'
  <2> SUFFICES ASSUME NEW j \in 1 .. Len(wire'), NEW k \in 1 .. Len(log'),
                      Awaited("send")', log'[k].send = calls'[1].send, j < last,
                      About(k, wire'[j])
               PROVE  /\ wire'[j].type = "created" /\ wire'[j].by = "me"
                      /\ wire'[j].body = calls'[1].body
    BY DEF EchoAt, About
  <2>1. calls[1].op = "send" /\ calls'[1].send = calls[1].send /\ calls'[1].body = calls[1].body
    BY <1>4, <1>13 DEF SameWork
  <2>2. k > Len(log)
    BY <1>10, <1>11, <2>1
  <2>3. ~(j \in 1 .. Len(wire))
    BY <1>1, <1>3, <1>10, <2>2 DEF About, Sane, WireFits, EventFits
  <2>4. wire'[j] = e
    BY <1>3, <1>15, <2>3
  <2>5. /\ e.type = "created" /\ e.by = log'[k].by /\ e.body = log'[k].body
    BY <1>10, <2>2, <2>4 DEF Concerns
  <2> QED BY <1>10, <2>1, <2>2, <2>4, <2>5
<1>19. ASSUME Follows
       PROVE  FreshAt(last)
  <2>1. CurrentAt(last)'
    <3>1. \A k \in 1 .. Len(log') : k \in Ids
      BY <1>6, <1>10, Kinds DEF MessagingTypeOK, Ids
    <3> QED BY <1>15, <1>16, <3>1 DEF CurrentAt
  <2>2. ASSUME calls[1].op # "send"
        PROVE  Len(log') = Len(log)
    BY <2>2 DEF Answered
  <2>3. OlderAt(last)'
    <3> SUFFICES ASSUME a.type = "reply", calls[1].op = "older",
                        NEW j \in 1 .. Len(log), NEW k \in 1 .. Len(log), j < k,
                        a.messages[j] # Absent
                 PROVE  a.messages[k] # Absent \/ Covered(k)'
      BY <1>15, <2>2 DEF OlderAt
    <3>1. CASE k < calls[1].at
      BY <3>1 DEF PageFits
    <3>2. CASE ~(k < calls[1].at)
      <4>1. Len(calls) >= 1 /\ 1 \in 1 .. Len(calls)
        BY <1>4
      <4>2. hydrated /\ (k >= calls[1].at => Covered(k))
        BY <1>19, <4>1 DEF Follows, OlderCalls
      <4>3. calls[1].at \in Int
        BY <1>4, Kinds DEF Nonces
      <4>4. Covered(k)
        BY <1>10, <3>2, <4>2, <4>3
      <4>5. thread' = thread /\ \A i \in 1 .. Len(wire) : wire'[i] = wire[i] /\ i \in 1 .. Len(wire')
        BY <1>3
      <4>6. \A i \in 1 .. Len(wire) : ~Reply(i, "send")
        BY <1>5 DEF Reply
      <4>7. Covered(k)'
        BY <4>4, <4>5, <4>6 DEF Covered, Coming, Creates
      <4> QED BY <4>7
    <3> QED BY <3>1, <3>2
  <2>4. HistoryAt(last)'
    <3> SUFFICES ASSUME a.type = "reply", calls[1].op = "history"
                 PROVE  /\ \A j, k \in 1 .. Len(log') :
                             j < k /\ PageCovers(last, j)' => PageCovers(last, k)'
                        /\ log' # <<>> => PageCovers(last, Len(log))'
      BY <1>15 DEF HistoryAt
    <3>1. Len(log') = Len(log)
      BY <2>2
    <3>2. /\ \A j, k \in 1 .. Len(log) : j < k /\ a.messages[j] # Absent => a.messages[k] # Absent
          /\ log # <<>> => a.messages[Len(log)] # Absent
      BY DEF PageFits
    <3>3. \A k : PageCovers(last, k)' <=> a.messages[k] # Absent
      <4>1. \A j \in 1 .. Len(wire') : ~(j > last)
        BY <1>14
      <4> QED BY <1>15, <4>1 DEF PageCovers
    <3>4. log' # <<>> => log # <<>>
      BY <1>1, <1>10, <3>1, Carried, EmptySeq
    <3> QED BY <3>1, <3>2, <3>3, <3>4
  <2>5. Reply(last, "send")' => \A k \in Ids : wire'[last].messages[k] # Absent => k > Len(log)
    BY <1>10, <1>15, <1>16
  <2> QED BY <2>1, <2>3, <2>4, <2>5 DEF FreshAt
<1>20. "thread" \notin disturbed' => Heard(e)
  <2> SUFFICES ASSUME "thread" \notin disturbed', e.type = "created", ~online
               PROVE  \E i \in 1 .. Len(wire') :
                        Reply(i, "send")' /\ wire'[i].messages[e.id] # Absent
    BY <1>2 DEF Heard
  <2>1. a.type = "reply"
    OBVIOUS
  <2>2. Len(log') = Len(log) + 1 /\ e.id = Len(log) + 1 /\ e.id \in 1 .. Len(log')
    BY DEF Concerns
  <2>3. e.id \in Ids /\ calls[1].op = "send"
    BY <1>6, <1>10, <2>2, Kinds DEF Ids, MessagingTypeOK
  <2>4. calls[1].body # Absent
    BY <1>4, Kinds
  <2>5. a.messages[e.id] # Absent
    BY <1>16, <2>1, <2>2, <2>3, <2>4
  <2> QED BY <1>15, <2>1, <2>3, <2>5
<1>21. \A i \in 1 .. Len(wire') : i > Len(wire) /\ wire'[i] \in Answer => i = last
  BY <1>8, <1>14
<1> QED
  BY <1>6, <1>7, <1>9, <1>12, <1>17, <1>18, <1>19, <1>20, <1>21, ServerKeeps

LEMMA PageCopied ==
    ASSUME MessagingTypeOK, NEW k \in Int
    PROVE  /\ Copy(PageBefore(k)) \in Copies
           /\ \A m \in Ids : Copy(PageBefore(k))[m] # Absent =>
                m \in 1 .. Len(log) /\ Copy(PageBefore(k))[m] = log[m].body
           /\ \A i, j \in 1 .. Len(log) : i < j /\ j < k /\ Copy(PageBefore(k))[i] # Absent =>
                Copy(PageBefore(k))[j] # Absent
           /\ k = Len(log) + 1 /\ log # <<>> => Copy(PageBefore(k))[Len(log)] # Absent
<1>1. /\ log \in Seq(Message) /\ Len(log) \in 0 .. MaxMessages
      /\ \A i \in 1 .. Len(log) : log[i] \in Message
  BY Carried
<1>2. DOMAIN log = 1 .. Len(log) /\ (log # <<>> => Len(log) >= 1)
  BY <1>1, LenProperties, EmptySeq
<1>3. \A i \in 1 .. Len(log) : i \in Ids /\ log[i].body \in Bodies \cup {Gone} /\ log[i].body # Absent
  BY <1>1, Kinds DEF Ids
<1> DEFINE P == PageBefore(k)
           c == Copy(P)
<1>4. \A i : i \in P <=> i \in 1 .. Len(log) /\ i < k /\ i >= k - Page
  BY <1>2 DEF PageBefore
<1>5. /\ c = [i \in Ids |-> IF i \in P THEN log[i].body ELSE Absent]
  BY DEF Copy
<1> HIDE DEF P, c
<1>6. c \in Copies
  BY <1>3, <1>4, <1>5 DEF Copies
<1>7. \A i \in Ids : c[i] # Absent => i \in 1 .. Len(log) /\ c[i] = log[i].body
  BY <1>4, <1>5
<1>8. \A i \in 1 .. Len(log) : c[i] # Absent <=> i < k /\ i >= k - Page
  BY <1>3, <1>4, <1>5
<1>9. \A i, j \in 1 .. Len(log) : i < j /\ j < k /\ c[i] # Absent => c[j] # Absent
  BY <1>8, Kinds
<1>10. k = Len(log) + 1 /\ log # <<>> => c[Len(log)] # Absent
  BY <1>1, <1>2, <1>8, Kinds
<1> QED BY <1>6, <1>7, <1>9, <1>10 DEF P, c

LEMMA ServeAnswers ==
    ASSUME Sane, NEW lost \in BOOLEAN, Serve(lost)
    PROVE  \E e, a, s :
             /\ Answering(e, a, s) /\ e.by = "me" /\ a.unread = UnreadCount
             /\ e.type = "created" <=> calls[1].op = "send"
             /\ a.type = "reply" <=> ~lost
             /\ calls[1].op = "read" => s = Notified(e)
             /\ calls[1].op \notin {"read", "send"} => s = <<>>
             /\ lastRead' = IF calls[1].op = "read" THEN Len(log) ELSE lastRead
             /\ lost /\ calls[1].op = "list" => "badge" \in disturbed'
             /\ calls[1].op # "send" => log' = log
             /\ \A k \in 1 .. Len(log) : log'[k] = log[k]
<1>1. MessagingTypeOK /\ Sane /\ online \in BOOLEAN
  BY DEF Sane, MessagingTypeOK
<1>2. /\ log \in Seq(Message) /\ Len(log) \in 0 .. MaxMessages
      /\ calls \in Seq(Call) /\ Len(calls) \in Nat /\ calls # <<>>
  BY <1>1, Carried DEF Serve
<1>3. 1 \in 1 .. Len(calls) /\ calls[1] \in Call /\ Head(calls) = calls[1]
  BY <1>1, <1>2, Carried, EmptySeq
<1> PICK x, n : x = calls[1] /\ n = Len(log) + 1
  OBVIOUS
<1>4. x \in Call /\ CallFits(x) /\ x = Head(calls)
  BY <1>1, <1>3 DEF Sane, CallsFit
<1>5. PICK e, note, page, a, m :
        /\ e = IF x.op = "send" THEN [type |-> "created", id |-> n, body |-> x.body, by |-> "me"]
               ELSE [type |-> "read", id |-> 0, body |-> Gone, by |-> "me"]
        /\ note = CASE x.op = "send" -> Notified([type |-> "created", id |-> n,
                                                  body |-> x.body, by |-> "me"])
                    [] x.op = "read" -> Notified([type |-> "read", id |-> 0,
                                                  body |-> Gone, by |-> "me"])
                    [] OTHER -> <<>>
        /\ page = CASE x.op = "history" -> Copy(PageBefore(n))
                    [] x.op = "older" -> Copy(PageBefore(x.at))
                    [] x.op = "send" -> [i \in Ids |-> IF i = n THEN x.body ELSE Absent]
                    [] OTHER -> [i \in Ids |-> Absent]
        /\ a = [type |-> IF lost THEN "error" ELSE "reply", messages |-> page,
                unread |-> UnreadCount]
        /\ m = [by |-> "me", body |-> x.body, send |-> x.send]
  OBVIOUS
<1>6. /\ ~x.sent /\ calls' = [calls EXCEPT ![1].sent = TRUE]
      /\ IF lost THEN Mishap ELSE UNCHANGED spent
      /\ x.op = "send" => n \in Ids
      /\ log' = IF x.op = "send" THEN Append(log, m) ELSE log
      /\ lastRead' = IF x.op = "read" THEN Len(log) ELSE lastRead
      /\ wire' = wire \o note \o <<a>>
      /\ disturbed' = IF lost /\ x.op = "list" THEN disturbed \cup {"badge"}
                      ELSE IF lost /\ x.op = "send" /\ ~online
                      THEN disturbed \cup {"thread"} ELSE disturbed
      /\ UNCHANGED <<thread, optimistic, hydrated, badge, pane, online>>
  BY <1>4, <1>5 DEF Serve
<1>7. /\ x.op = "send" => x.body \in Bodies /\ m \in Message
      /\ m.by = "me" /\ m.send = x.send /\ m.body = x.body
      /\ x.op \in {"history", "older", "list", "send", "read"} /\ x.at \in Int
  BY <1>4, <1>5, Kinds DEF CallFits, Message, Nonces
<1>8. /\ e \in Event /\ e.by = "me" /\ e.type \in {"created", "read"}
      /\ e.type = "created" <=> x.op = "send"
      /\ x.op = "send" => e.id = n /\ e.body = x.body
  <2>1. CASE x.op = "send"
    BY <1>5, <1>6, <1>7, <2>1 DEF Event, Ids
  <2>2. CASE x.op # "send"
    BY <1>5, <2>2, Kinds DEF Event
  <2> QED BY <2>1, <2>2
<1>9. /\ note \in {<<>>, Notified(e)} /\ (e.type # "read" => note = Notified(e))
      /\ x.op = "read" => note = Notified(e)
      /\ x.op \notin {"read", "send"} => note = <<>>
  BY <1>5, <1>7, <1>8
<1>10. /\ log' \in Seq(Message) /\ Len(log') \in {Len(log), Len(log) + 1} /\ Len(log') <= MaxMessages
       /\ \A k \in 1 .. Len(log) : log'[k] = log[k]
       /\ Len(log') = Len(log) + 1 <=> x.op = "send"
       /\ x.op = "send" => log'[n] = m /\ n \in 1 .. Len(log')
       /\ \A k \in 1 .. Len(log) : k \in 1 .. Len(log')
       /\ Len(log) <= Len(log')
  <2>1. CASE x.op = "send"
    <3>1. log' = Append(log, m) /\ m \in Message /\ n \in Ids
      BY <1>6, <1>7, <2>1
    <3>2. /\ log' \in Seq(Message) /\ Len(log') = Len(log) + 1 /\ log'[Len(log) + 1] = m
          /\ \A k \in 1 .. Len(log) : log'[k] = log[k]
      BY <1>1, <3>1, LogAdded
    <3> QED BY <1>2, <2>1, <3>1, <3>2, Kinds DEF Ids
  <2>2. CASE x.op # "send"
    <3>1. log' = log
      BY <1>6, <2>2
    <3> QED BY <1>2, <2>2, <3>1, Kinds
  <2> QED BY <2>1, <2>2
<1>11. lastRead' \in 0 .. Len(log')
  <2>1. lastRead \in 0 .. Len(log)
    BY <1>1 DEF MessagingTypeOK
  <2> QED BY <1>2, <1>6, <1>10, <2>1
<1>12. /\ page \in Copies
       /\ \A k \in Ids : page[k] # Absent => k \in 1 .. Len(log') /\ page[k] = log'[k].body
       /\ x.op = "older" => \A j, k \in 1 .. Len(log) :
            j < k /\ k < x.at /\ page[j] # Absent => page[k] # Absent
       /\ x.op = "history" =>
            /\ \A j, k \in 1 .. Len(log) : j < k /\ page[j] # Absent => page[k] # Absent
            /\ log # <<>> => page[Len(log)] # Absent
       /\ x.op = "send" => \A k \in Ids : page[k] = IF k = n THEN x.body ELSE Absent
  <2>1. CASE x.op = "history"
    <3>1. page = Copy(PageBefore(n)) /\ n \in Int
      BY <1>2, <1>5, <2>1
    <3>2. /\ page \in Copies
          /\ \A k \in Ids : page[k] # Absent => k \in 1 .. Len(log) /\ page[k] = log[k].body
          /\ \A i, j \in 1 .. Len(log) : i < j /\ j < n /\ page[i] # Absent => page[j] # Absent
          /\ log # <<>> => page[Len(log)] # Absent
      BY <1>1, <3>1, PageCopied
    <3>3. \A j \in 1 .. Len(log) : j < n
      BY <1>2
    <3> QED BY <1>10, <2>1, <3>2, <3>3
  <2>2. CASE x.op = "older"
    <3>1. page = Copy(PageBefore(x.at)) /\ x.at \in Int
      BY <1>5, <1>7, <2>2
    <3>2. /\ page \in Copies
          /\ \A k \in Ids : page[k] # Absent => k \in 1 .. Len(log) /\ page[k] = log[k].body
          /\ \A i, j \in 1 .. Len(log) : i < j /\ j < x.at /\ page[i] # Absent => page[j] # Absent
      BY <1>1, <3>1, PageCopied
    <3> QED BY <1>10, <2>2, <3>2
  <2>3. CASE x.op = "send"
    <3>1. page = [i \in Ids |-> IF i = n THEN x.body ELSE Absent]
      BY <1>5, <2>3
    <3> QED BY <1>7, <1>10, <2>3, <3>1 DEF Copies
  <2>4. CASE x.op \in {"list", "read"}
    <3>1. page = [i \in Ids |-> Absent]
      BY <1>5, <2>4
    <3> QED BY <2>4, <3>1 DEF Copies
  <2> QED BY <1>7, <2>1, <2>2, <2>3, <2>4
<1>13. /\ a \in Answer /\ a.unread <= Len(log) /\ a.messages = page
       /\ a.type = "reply" <=> ~lost
  BY <1>1, <1>5, <1>12, UnreadBounded DEF Answer
<1>14. Answered(e, a, note)
  <2>1. /\ note \in {<<>>, Notified(e)} /\ (e.type # "read" => note = Notified(e))
        /\ wire' = (wire \o note) \o <<a>>
    BY <1>6, <1>9
  <2>2. x.op = "send" => log'[Len(log) + 1] = m
    BY <1>10
  <2> QED BY <1>2, <1>6, <1>7, <1>8, <1>10, <1>12, <1>13, <2>1, <2>2 DEF Answered
<1>15. PageFits(a)
  BY <1>12, <1>13 DEF PageFits
<1>16. Concerns(e)
  <2>1. e.type # "read" => e.id \in 1 .. Len(log') /\ e.by = log'[e.id].by /\ e.body = log'[e.id].body
    BY <1>7, <1>8, <1>10
  <2> QED BY <1>7, <1>8, <1>10, <2>1 DEF Concerns
<1>17. spent' \in Ceiling /\ spent'.sends = spent.sends
  BY <1>1, <1>6, Counting
<1>18. /\ disturbed \subseteq disturbed' /\ disturbed' \in SUBSET {"thread", "badge"}
       /\ "thread" \notin disturbed' /\ e.type = "created" => online \/ a.type = "reply"
  BY <1>1, <1>6, <1>8, <1>13 DEF MessagingTypeOK
<1>19. Answering(e, a, note)
  BY <1>6, <1>10, <1>11, <1>14, <1>15, <1>16, <1>17, <1>18 DEF Answering
<1>20. a.unread = UnreadCount /\ (lost /\ x.op = "list" => "badge" \in disturbed')
       /\ (x.op # "send" => log' = log)
  BY <1>5, <1>6
<1> QED BY <1>3, <1>4, <1>6, <1>8, <1>9, <1>10, <1>13, <1>19, <1>20

LEMMA ServeKeeps ==
    ASSUME MessagingInv, NEW lost \in BOOLEAN, Serve(lost)
    PROVE  MessagingInv'
<1>1. PICK e, a, s : Answering(e, a, s)
  BY ServeAnswers DEF MessagingInv
<1> QED BY <1>1, AnswerKeeps

LEMMA RefuseKeeps ==
    ASSUME MessagingInv, Refuse
    PROVE  MessagingInv'
<1>1. MessagingTypeOK /\ Sane
  BY DEF MessagingInv, Sane
<1>2. /\ log \in Seq(Message) /\ Len(log) \in 0 .. MaxMessages
      /\ calls \in Seq(Call) /\ Len(calls) \in Nat /\ calls # <<>>
      /\ wire \in Seq(Event \cup Answer) /\ Len(wire) \in Nat
  BY <1>1, Carried DEF Refuse
<1>3. 1 \in 1 .. Len(calls) /\ Head(calls) = calls[1]
  BY <1>2, EmptySeq
<1>4. PICK e, a : /\ e = [type |-> "read", id |-> 0, body |-> Gone, by |-> "me"]
                  /\ a = [type |-> "error", messages |-> [i \in Ids |-> Absent], unread |-> 0]
  OBVIOUS
<1>5. /\ ~calls[1].sent /\ calls' = [calls EXCEPT ![1].sent = TRUE]
      /\ wire' = Append(wire, a) /\ Mishap /\ disturbed' = disturbed \cup {"badge"}
      /\ UNCHANGED <<log, lastRead, thread, optimistic, hydrated, badge, pane, online>>
  BY <1>3, <1>4 DEF Refuse, Disturb
<1>6. e \in Event /\ e.type = "read"
  BY <1>4, Kinds DEF Event
<1>7. a \in Answer /\ a.type = "error" /\ a.unread <= Len(log) /\ \A k \in Ids : a.messages[k] = Absent
  BY <1>2, <1>4, Kinds DEF Answer, Copies
<1>8. wire' = (wire \o <<>>) \o <<a>>
  BY <1>2, <1>5
<1>9. Len(log') # Len(log) + 1
  <2>1. Len(log) # Len(log) + 1
    BY <1>2, NoneItsNext
  <2>2. log' = log
    BY <1>5, Zenon
  <2> QED BY <2>1, <2>2, Zenon
<1>10. Answered(e, a, <<>>)
  BY <1>2, <1>5, <1>6, <1>7, <1>8, <1>9 DEF Answered
<1>11. PageFits(a)
  BY <1>7 DEF PageFits
<1>12. Concerns(e)
  BY <1>2, <1>5, <1>6, <1>9 DEF Concerns
<1>13. spent' \in Ceiling /\ spent'.sends = spent.sends
  BY <1>1, <1>5, Counting
<1>14. /\ disturbed \subseteq disturbed' /\ disturbed' \in SUBSET {"thread", "badge"}
       /\ log' \in Seq(Message) /\ Len(log') \in {Len(log), Len(log) + 1}
       /\ Len(log') <= MaxMessages /\ lastRead' \in 0 .. Len(log')
  BY <1>1, <1>2, <1>5 DEF MessagingTypeOK
<1>15. Answering(e, a, <<>>)
  BY <1>5, <1>6, <1>10, <1>11, <1>12, <1>13, <1>14 DEF Answering
<1> QED BY <1>15, AnswerKeeps

-----------------------------------------------------------------------------
(* What the browser receives.                                                *)

\* A queue without its element i.
LEMMA QueueRemoved ==
    ASSUME NEW S, NEW q \in Seq(S), NEW i \in 1 .. Len(q)
    PROVE  /\ RemoveAt(q, i) \in Seq(S) /\ Len(RemoveAt(q, i)) = Len(q) - 1
           /\ \A k \in 1 .. Len(q) - 1 :
                RemoveAt(q, i)[k] = IF k < i THEN q[k] ELSE q[k + 1]
<1>. DEFINE a == SubSeq(q, 1, i - 1)  b == SubSeq(q, i + 1, Len(q))
<1>1. Len(q) \in Nat /\ \A k \in 1 .. Len(q) : q[k] \in S
  BY LenProperties
<1>2. a \in Seq(S) /\ Len(a) = i - 1 /\ \A k \in 1 .. i - 1 : a[k] = q[k]
  <2>1. /\ a \in Seq(S) /\ Len(a) = IF 1 <= i - 1 THEN i - 1 - 1 + 1 ELSE 0
        /\ \A k \in 1 .. (i - 1) - 1 + 1 : a[k] = q[1 + k - 1]
    BY <1>1, SubSeqProperties
  <2>. HIDE DEF a
  <2>. QED
    BY <1>1, <2>1
<1>3. b \in Seq(S) /\ Len(b) = Len(q) - i /\ \A k \in 1 .. Len(q) - i : b[k] = q[k + i]
  <2>1. /\ b \in Seq(S) /\ Len(b) = IF i + 1 <= Len(q) THEN Len(q) - (i + 1) + 1 ELSE 0
        /\ \A k \in 1 .. Len(q) - (i + 1) + 1 : b[k] = q[i + 1 + k - 1]
    BY <1>1, SubSeqProperties
  <2>. HIDE DEF b
  <2>2. \A k \in 1 .. Len(q) - i : i + 1 + k - 1 = k + i
    OBVIOUS
  <2>. QED
    BY <1>1, <2>1, <2>2
<1>4. RemoveAt(q, i) = a \o b
  BY DEF RemoveAt
<1>. HIDE DEF a, b
<1>5. /\ a \o b \in Seq(S) /\ Len(a \o b) = Len(a) + Len(b)
      /\ \A k \in 1 .. Len(a) + Len(b) : (a \o b)[k] = IF k <= Len(a) THEN a[k] ELSE b[k - Len(a)]
  BY <1>2, <1>3, ConcatProperties
<1>6. ASSUME NEW k \in 1 .. Len(q) - 1
      PROVE  (a \o b)[k] = IF k < i THEN q[k] ELSE q[k + 1]
  <2>1. CASE k < i
    BY <1>1, <1>2, <1>3, <1>5, <2>1
  <2>2. CASE ~(k < i)
    <3>1. k - (i - 1) \in 1 .. Len(q) - i /\ k - (i - 1) + i = k + 1
      BY <1>1, <2>2
    <3>2. (a \o b)[k] = b[k - (i - 1)]
      BY <1>1, <1>2, <1>3, <1>5, <2>2
    <3>3. b[k - (i - 1)] = q[k + 1]
      BY <1>3, <3>1
    <3>. QED
      BY <2>2, <3>2, <3>3
  <2>. QED
    BY <2>1, <2>2
<1>7. Len(a) + Len(b) = Len(q) - 1
  BY <1>1, <1>2, <1>3
<1>. QED
  BY <1>4, <1>5, <1>6, <1>7

\* Where the element k of a queue without its element i was.
Back(i, k) == IF k < i THEN k ELSE k + 1

\* The wire is without its element i now.
Taken(i) ==
    /\ wire' \in Seq(Event \cup Answer) /\ Len(wire') \in Nat /\ Len(wire) \in Nat
    /\ \A k \in 1 .. Len(wire') :
         Back(i, k) \in 1 .. Len(wire) /\ Back(i, k) # i /\ wire'[k] = wire[Back(i, k)]
    /\ \A j, k \in 1 .. Len(wire') : j < k <=> Back(i, j) < Back(i, k)
    /\ \A m \in 1 .. Len(wire) : m # i => \E k \in 1 .. Len(wire') : Back(i, k) = m

LEMMA WireTaken ==
    ASSUME MessagingTypeOK, NEW i \in 1 .. Len(wire), wire' = RemoveAt(wire, i)
    PROVE  Taken(i)
<1>1. wire \in Seq(Event \cup Answer) /\ Len(wire) \in Nat
  BY Carried
<1>2. /\ wire' \in Seq(Event \cup Answer) /\ Len(wire') = Len(wire) - 1
      /\ \A k \in 1 .. Len(wire) - 1 : wire'[k] = IF k < i THEN wire[k] ELSE wire[k + 1]
  BY <1>1, QueueRemoved
<1>3. PICK n \in Nat, t \in Nat : n = Len(wire) /\ t = Len(wire') /\ t = n - 1 /\ i \in 1 .. n
  BY <1>1, <1>2
<1>4. \A k \in 1 .. t : Back(i, k) \in 1 .. n /\ Back(i, k) # i /\ wire'[k] = wire[Back(i, k)]
  BY <1>2, <1>3 DEF Back
<1>5. \A j, k \in 1 .. t : j < k <=> Back(i, j) < Back(i, k)
  BY <1>3 DEF Back
<1>6. ASSUME NEW m \in 1 .. n, m # i
      PROVE  \E k \in 1 .. t : Back(i, k) = m
  <2>1. CASE m < i
    BY <1>3, <2>1 DEF Back
  <2>2. CASE m > i
    <3>1. m - 1 \in 1 .. t /\ Back(i, m - 1) = m
      BY <1>3, <2>2 DEF Back
    <3> QED BY <3>1
  <2> QED BY <1>3, <1>6, <2>1, <2>2
<1> QED BY <1>1, <1>2, <1>3, <1>4, <1>5, <1>6 DEF Taken

\* The first of the wire goes.
LEMMA HeadTaken ==
    ASSUME MessagingTypeOK, wire # <<>>, wire' = Tail(wire)
    PROVE  Taken(1) /\ 1 \in 1 .. Len(wire) /\ Head(wire) = wire[1]
<1>1. wire \in Seq(Event \cup Answer) /\ Len(wire) \in Nat /\ Len(wire) >= 1
  BY Carried, EmptySeq
<1>2. /\ wire' \in Seq(Event \cup Answer) /\ Len(wire') = Len(wire) - 1
      /\ \A k \in 1 .. Len(wire) - 1 : wire'[k] = wire[k + 1]
  BY <1>1, HeadTailProperties
<1>3. PICK n \in Nat, t \in Nat : n = Len(wire) /\ t = Len(wire') /\ t = n - 1
  <2>1. Len(wire') \in Nat
    BY <1>2, LenProperties
  <2> QED BY <1>1, <1>2, <2>1, Zenon
<1>4. \A k \in 1 .. t : Back(1, k) = k + 1
  BY DEF Back
<1>5. \A k \in 1 .. t : Back(1, k) \in 1 .. n /\ Back(1, k) # 1 /\ wire'[k] = wire[Back(1, k)]
  BY <1>2, <1>3, <1>4
<1>6. \A j, k \in 1 .. t : j < k <=> Back(1, j) < Back(1, k)
  BY <1>4
<1>7. ASSUME NEW m \in 1 .. n, m # 1
      PROVE  \E k \in 1 .. t : Back(1, k) = m
  <2>1. m - 1 \in 1 .. t /\ Back(1, m - 1) = m
    BY <1>3, <1>4, <1>7
  <2> QED BY <2>1
<1> QED BY <1>1, <1>2, <1>3, <1>5, <1>6, <1>7 DEF Taken

\* What e does to what is shown.
Shows(e) ==
    /\ badge' \in Nat /\ badge' <= badge + 1 /\ (e.type # "created" => badge' <= badge)
    /\ pane' \in Pane /\ pane'.open = pane.open /\ pane'.seq = pane.seq
    /\ optimistic' \in [Nonces -> Optimistic \cup {Absent}]
    /\ \A n \in Nonces : optimistic'[n] \in {optimistic[n], Absent}
    /\ e.type = "created" /\ e.by = "me" => \A n \in Nonces :
         optimistic[n] # Absent /\ optimistic[n].body = e.body => optimistic'[n] = Absent
    /\ thread' \in Copies
    /\ \A k \in Ids : thread'[k] = IF ~About(k, e) THEN thread[k]
                                   ELSE IF e.type # "deleted" THEN e.body
                                   ELSE IF thread[k] = Absent THEN Absent ELSE Gone

LEMMA Applied ==
    ASSUME Sane, NEW e \in Event, EventFits(e), ApplyEvent(e)
    PROVE  Shows(e)
<1>1. /\ thread \in Copies /\ optimistic \in [Nonces -> Optimistic \cup {Absent}]
      /\ badge \in Nat /\ pane \in Pane /\ Len(log) \in 0 .. MaxMessages
  BY Carried DEF Sane, MessagingTypeOK
<1>2. e.type \in {"created", "updated", "deleted", "read"} /\ (e.type # "read" => e.id \in Ids)
  BY <1>1, Kinds DEF EventFits, Ids
<1>3. CASE e.type \in {"created", "updated"}
  <2>1. PICK unread : unread = IF e.type = "created" THEN Counted(e.by) ELSE badge
    OBVIOUS
  <2>2. unread \in Nat /\ unread <= badge + 1 /\ (e.type # "created" => unread = badge)
    BY <1>1, <2>1 DEF Counted
  <2>3. PICK th, op : th = Merge(e.id, e.body) /\ op = WithoutEcho(e.by, e.body)
    OBVIOUS
  <2>4. Show(th, op, unread, pane)
    BY <1>3, <2>1, <2>3 DEF ApplyEvent
  <2>5. /\ thread' = th /\ optimistic' = op /\ badge' \in {0, unread}
        /\ pane' \in Pane /\ pane'.open = pane.open /\ pane'.seq = pane.seq
    BY <1>1, <2>4, Showing
  <2>6. e.body \in Bodies
    BY <1>3 DEF EventFits
  <2>7. /\ th \in Copies
        /\ \A k \in Ids : th[k] = IF About(k, e) THEN e.body ELSE thread[k]
    BY <1>1, <1>2, <1>3, <2>3, <2>6 DEF Merge, Copies, About
  <2>8. /\ op \in [Nonces -> Optimistic \cup {Absent}]
        /\ \A n \in Nonces : op[n] = IF e.by = "me" /\ optimistic[n] # Absent /\ optimistic[n].body = e.body
                                     THEN Absent ELSE optimistic[n]
    BY <1>1, <2>3 DEF WithoutEcho
  <2>9. badge' \in Nat /\ badge' <= badge + 1 /\ (e.type # "created" => badge' <= badge)
    BY <1>1, <2>2, <2>5
  <2> QED BY <1>3, <2>5, <2>7, <2>8, <2>9 DEF Shows
<1>4. CASE e.type = "deleted"
  <2>1. PICK th : th = [k \in Ids |-> IF k = e.id /\ thread[k] # Absent THEN Gone ELSE thread[k]]
    OBVIOUS
  <2>2. Show(th, optimistic, badge, pane)
    BY <1>4, <2>1 DEF ApplyEvent
  <2>3. /\ thread' = th /\ optimistic' = optimistic /\ badge' \in {0, badge}
        /\ pane' \in Pane /\ pane'.open = pane.open /\ pane'.seq = pane.seq
    BY <1>1, <2>2, Showing
  <2>4. /\ th \in Copies
        /\ \A k \in Ids : th[k] = IF k = e.id /\ thread[k] # Absent THEN Gone ELSE thread[k]
    BY <1>1, <2>1 DEF Copies
  <2>5. badge' \in Nat /\ badge' <= badge + 1 /\ badge' <= badge
    BY <1>1, <2>3
  <2> QED BY <1>1, <1>4, <2>3, <2>4, <2>5 DEF Shows, About
<1>5. CASE e.type = "read"
  <2>1. badge' = 0 /\ UNCHANGED <<thread, optimistic, pane>>
    BY <1>5 DEF ApplyEvent
  <2> QED BY <1>1, <1>5, <2>1 DEF Shows, About
<1> QED BY <1>2, <1>3, <1>4, <1>5

\* Events leave the wire in order, whatever answer they overtake.
LEMMA EventTaken ==
    ASSUME Sane, MessagingTypeOK', NEW i \in 1 .. Len(wire), Taken(i), wire[i] \in Event,
           \A j \in 1 .. i - 1 : wire[j] \in Answer, Shows(wire[i]),
           UNCHANGED <<log, hydrated, online, calls>>, spent'.sends = spent.sends
    PROVE  Sane'
<1>1. /\ MessagingTypeOK /\ OneAnswer /\ CallsFit /\ WireFits /\ StoreFits /\ SendsApart
      /\ EntriesAwait /\ EchoFirst /\ EventsCurrent
  BY DEF Sane
<1>2. /\ Len(wire) \in Nat /\ Len(wire') \in Nat /\ i \in Nat /\ Len(log) \in Nat
      /\ badge \in Nat /\ \A k \in 1 .. Len(wire) : wire[k] \in Event \cup Answer
  BY <1>1, Carried DEF Taken, MessagingTypeOK
<1>3. \A k \in 1 .. Len(wire') :
        Back(i, k) \in 1 .. Len(wire) /\ Back(i, k) # i /\ wire'[k] = wire[Back(i, k)]
  BY DEF Taken
<1>4. \A j, k \in 1 .. Len(wire') : j < k <=> Back(i, j) < Back(i, k)
  BY DEF Taken
<1>5. \A k \in 1 .. Len(wire') : wire'[k] \in Event => i < Back(i, k)
  <2> SUFFICES ASSUME NEW k \in 1 .. Len(wire'), wire'[k] \in Event
               PROVE  i < Back(i, k)
    OBVIOUS
  <2>1. PICK m \in 1 .. Len(wire) : m = Back(i, k) /\ m # i /\ wire'[k] = wire[m]
    BY <1>3
  <2>2. ~(m \in 1 .. i - 1)
    BY <2>1, Kinds
  <2>3. m > i
    BY <1>2, <2>1, <2>2
  <2> QED BY <1>2, <2>1, <2>3
<1>6. EventFits(wire[i]) /\ (wire[i].type # "read" => wire[i].id \in 1 .. Len(log))
  BY <1>1 DEF WireFits, EventFits
<1>7. OneAnswer'
  <2>1. \A j, k \in 1 .. Len(wire') : wire'[j] \in Answer /\ wire'[k] \in Answer => j = k
    <3> SUFFICES ASSUME NEW j \in 1 .. Len(wire'), NEW k \in 1 .. Len(wire'),
                        wire'[j] \in Answer, wire'[k] \in Answer
                 PROVE  j = k
      OBVIOUS
    <3>1. Back(i, j) = Back(i, k)
      BY <1>1, <1>3 DEF OneAnswer
    <3> QED BY <1>2, <1>3, <1>4, <3>1
  <2>2. ASSUME NEW m \in 1 .. Len(wire), wire[m] \in Answer
        PROVE  \E k \in 1 .. Len(wire') : wire'[k] \in Answer
    <3>1. m # i
      BY <2>2, Kinds
    <3>2. PICK k \in 1 .. Len(wire') : Back(i, k) = m
      BY <3>1 DEF Taken
    <3> QED BY <1>3, <2>2, <3>2
  <2>3. calls # <<>> /\ calls[1].sent => \E k \in 1 .. Len(wire') : wire'[k] \in Answer
    BY <1>1, <2>2 DEF OneAnswer
  <2>4. \A k \in 1 .. Len(wire') : wire'[k] \in Answer => calls # <<>> /\ calls[1].sent
    BY <1>1, <1>3 DEF OneAnswer
  <2>5. \A k \in 1 .. Len(calls) : calls[k].sent => k = 1
    BY <1>1 DEF OneAnswer
  <2> QED BY <2>1, <2>3, <2>4, <2>5 DEF OneAnswer
<1>8. CallsFit'
  BY <1>1 DEF CallsFit, CallFits, Shows
<1>9. \A op : Awaited(op)' <=> Awaited(op)
  BY DEF Awaited
<1>10. WireFits'
  <2>1. ASSUME NEW k \in 1 .. Len(wire'), wire'[k] \in Event
        PROVE  EventFits(wire[k])'
    <3>1. PICK m \in 1 .. Len(wire) : m = Back(i, k) /\ wire'[k] = wire[m] /\ i < m
      BY <1>3, <1>5, <2>1
    <3>2. EventFits(wire[m]) /\ wire[m] \in Event
      BY <1>1, <2>1, <3>1 DEF WireFits
    <3>3. ASSUME wire[m].type = "created"
          PROVE  badge' < wire[m].id
      <4>1. badge < wire[m].id /\ wire[m].id \in Nat
        BY <3>2, <3>3, <1>2 DEF EventFits
      <4>2. CASE wire[i].type = "created"
        <5>1. wire[i].id < wire[m].id /\ badge < wire[i].id /\ wire[i].id \in Nat
          BY <1>1, <1>2, <1>6, <3>1, <3>2, <3>3, <4>2 DEF WireFits, Creates, EventFits
        <5>2. badge' \in Nat /\ badge' <= badge + 1
          BY DEF Shows
        <5> QED BY <1>2, <4>1, <5>1, <5>2
      <4>3. CASE wire[i].type # "created"
        <5>1. badge' \in Nat /\ badge' <= badge
          BY <4>3 DEF Shows
        <5> QED BY <1>2, <4>1, <5>1
      <4> QED BY <4>2, <4>3
    <3> QED BY <3>1, <3>2, <3>3 DEF EventFits
  <2>2. ASSUME NEW k \in 1 .. Len(wire'), wire'[k] \in Answer
        PROVE  AnswerFits(k)'
    <3>1. PICK m \in 1 .. Len(wire) : m = Back(i, k) /\ wire'[k] = wire[m]
      BY <1>3
    <3>2. AnswerFits(m)
      BY <1>1, <2>2, <3>1 DEF WireFits
    <3>3. ASSUME NEW j \in 1 .. Len(wire'), j > k, Creates(wire'[j])
          PROVE  wire'[k].unread < wire'[j].id
      <4>1. Back(i, j) > m /\ Back(i, j) \in 1 .. Len(wire) /\ wire'[j] = wire[Back(i, j)]
        BY <1>2, <1>3, <1>4, <3>1, <3>3
      <4> QED BY <3>1, <3>2, <3>3, <4>1 DEF AnswerFits
    <3>4. \A a, b : Brings(a, b)' <=> Brings(a, b)
      BY DEF Brings
    <3>5. wire'[k].type = "reply" /\ Awaited("send")' => \E b \in 1 .. Len(log) : Brings(wire'[k], b)
      BY <1>9, <3>1, <3>2 DEF AnswerFits
    <3>6. wire'[k].type = "reply" /\ Awaited("send")' => \E b \in 1 .. Len(log) : Brings(wire[k], b)'
      BY <3>5 DEF Brings
    <3> QED BY <3>1, <3>2, <3>3, <3>6 DEF AnswerFits, Creates
  <2>3. ASSUME NEW j \in 1 .. Len(wire'), NEW k \in 1 .. Len(wire'), j < k,
               Creates(wire'[j]), Creates(wire'[k])
        PROVE  wire'[j].id < wire'[k].id
    BY <1>1, <1>3, <1>4, <2>3 DEF WireFits
  <2> QED BY <2>1, <2>2, <2>3 DEF WireFits, Creates
<1>11. StoreFits'
  <2>1. \A k \in Ids : thread'[k] # Absent => k \in 1 .. Len(log)
    <3> SUFFICES ASSUME NEW k \in Ids, thread'[k] # Absent, ~(k \in 1 .. Len(log))
                 PROVE  FALSE
      OBVIOUS
    <3>1. thread[k] = Absent
      BY <1>1 DEF StoreFits
    <3>2. ~About(k, wire[i])
      BY <1>6 DEF About
    <3> QED BY <3>1, <3>2 DEF Shows
  <2>2. badge' <= Len(log)
    <3>1. badge <= Len(log) /\ badge' \in Nat
      BY <1>1 DEF StoreFits, Shows
    <3>2. CASE wire[i].type = "created"
      <4>1. badge < wire[i].id /\ wire[i].id \in 1 .. Len(log) /\ badge' <= badge + 1
        BY <1>6, <3>2 DEF EventFits, Shows
      <4> QED BY <1>2, <3>1, <4>1
    <3>3. CASE wire[i].type # "created"
      BY <1>2, <3>1, <3>3 DEF Shows
    <3> QED BY <3>2, <3>3
  <2>3. pane'.seq <= spent'.sends
    BY <1>1 DEF StoreFits, Shows
  <2> QED BY <2>1, <2>2, <2>3 DEF StoreFits
<1>12. SendsApart'
  BY <1>1 DEF SendsApart
<1>13. EntriesAwait'
  <2> SUFFICES ASSUME NEW n \in Nonces, optimistic'[n] # Absent
               PROVE  \E k \in 1 .. Len(calls') : SendOf(calls[k], n)'
    BY DEF EntriesAwait
  <2>1. optimistic'[n] = optimistic[n]
    BY DEF Shows
  <2> QED BY <1>1, <2>1 DEF EntriesAwait, SendOf
<1>14. EchoFirst'
  <2> SUFFICES ASSUME NEW a \in 1 .. Len(wire'), NEW j \in 1 .. Len(wire'), NEW k \in 1 .. Len(log),
                      wire'[a] \in Answer, Awaited("send"), log[k].send = calls[1].send,
                      j < a, About(k, wire'[j])
               PROVE  /\ wire'[j].type = "created" /\ wire'[j].by = "me"
                      /\ wire'[j].body = calls[1].body
    BY <1>9 DEF EchoFirst, About
  <2>1. Back(i, j) < Back(i, a)
    BY <1>4
  <2> QED BY <1>1, <1>3, <2>1 DEF EchoFirst
<1>15. EventsCurrent'
  <2> SUFFICES ASSUME NEW a \in 1 .. Len(wire'), NEW k \in 1 .. Len(log),
                      About(k, wire'[a]), NoneAfter(k, a)'
               PROVE  wire'[a].body = log[k].body
    BY DEF EventsCurrent, About
  <2>1. PICK m \in 1 .. Len(wire) : m = Back(i, a) /\ wire'[a] = wire[m] /\ i < m
    BY <1>3, <1>5 DEF About
  <2>2. ASSUME NEW j \in 1 .. Len(wire), j > m
        PROVE  ~About(k, wire[j])
    <3>1. j # i
      BY <1>2, <2>1, <2>2
    <3>2. PICK b \in 1 .. Len(wire') : Back(i, b) = j
      BY <3>1 DEF Taken
    <3>3. b > a /\ wire'[b] = wire[j]
      BY <1>2, <1>3, <1>4, <2>1, <2>2, <3>2
    <3> QED BY <3>3 DEF NoneAfter, About
  <2>3. NoneAfter(k, m)
    BY <2>2 DEF NoneAfter
  <2> QED BY <1>1, <2>1, <2>3 DEF EventsCurrent
<1> QED
  BY <1>7, <1>8, <1>10, <1>11, <1>12, <1>13, <1>14, <1>15 DEF Sane

LEMMA FirstTaken ==
    ASSUME Taken(1)
    PROVE  /\ \A k \in 1 .. Len(wire') : k + 1 \in 1 .. Len(wire) /\ wire'[k] = wire[k + 1]
           /\ \A m \in 1 .. Len(wire) : m > 1 => m - 1 \in 1 .. Len(wire') /\ wire'[m - 1] = wire[m]
           /\ \A k : \A j \in Nat : NoneAfter(k, j)' <=> NoneAfter(k, j + 1)
<1>1. PICK n \in Nat, t \in Nat : n = Len(wire) /\ t = Len(wire')
  BY DEF Taken
<1>2. \A k \in 1 .. t : Back(1, k) = k + 1
  BY DEF Back
<1>3. \A k \in 1 .. t : k + 1 \in 1 .. n /\ wire'[k] = wire[k + 1]
  BY <1>1, <1>2 DEF Taken
<1>4. ASSUME NEW m \in 1 .. n, m > 1
      PROVE  m - 1 \in 1 .. t /\ wire'[m - 1] = wire[m]
  <2>1. PICK k \in 1 .. t : Back(1, k) = m
    BY <1>1, <1>4 DEF Taken
  <2>2. m = k + 1
    BY <1>2, <2>1
  <2>3. m - 1 = k
    BY <2>2
  <2> QED BY <1>3, <2>2, <2>3
<1>5. ASSUME NEW k, NEW j \in Nat
      PROVE  NoneAfter(k, j)' <=> NoneAfter(k, j + 1)
  <2>1. ASSUME NoneAfter(k, j)', NEW m \in 1 .. n, m > j + 1
        PROVE  ~About(k, wire[m])
    <3>1. m - 1 \in 1 .. t /\ wire'[m - 1] = wire[m] /\ m - 1 > j
      BY <1>4, <2>1
    <3> QED BY <1>1, <2>1, <3>1 DEF NoneAfter, About
  <2>2. ASSUME NoneAfter(k, j + 1), NEW m \in 1 .. t, m > j
        PROVE  ~About(k, wire'[m])
    <3>1. m + 1 \in 1 .. n /\ wire'[m] = wire[m + 1] /\ m + 1 > j + 1
      BY <1>3, <2>2
    <3> QED BY <1>1, <2>2, <3>1 DEF NoneAfter
  <2>3. NoneAfter(k, j)' => NoneAfter(k, j + 1)
    BY <1>1, <2>1 DEF NoneAfter
  <2>4. NoneAfter(k, j + 1) => NoneAfter(k, j)'
    <3>1. ASSUME NoneAfter(k, j + 1)
          PROVE  \A m \in 1 .. t : m > j => ~About(k, wire'[m])
      BY <2>2, <3>1
    <3> QED BY <1>1, <3>1 DEF NoneAfter, About
  <2> QED BY <2>3, <2>4
<1> QED BY <1>1, <1>3, <1>4, <1>5

\* The next event is applied: nothing that is still to come is any different.
LEMMA EventFollows ==
    ASSUME Sane, Follows, Taken(1), 1 \in 1 .. Len(wire), wire[1] \in Event, Shows(wire[1]),
           UNCHANGED <<log, hydrated, calls>>,
           wire[1].type = "updated" /\ hydrated => thread[wire[1].id] # Absent
    PROVE  Follows'
<1>1. PICK e : e = wire[1]
  OBVIOUS
<1>2. /\ e \in Event /\ EventFits(e) /\ e \notin Answer /\ Shows(e)
      /\ e.type = "updated" /\ hydrated => thread[e.id] # Absent
      /\ e.type \in {"created", "updated", "deleted", "read"}
  BY <1>1, Kinds DEF Sane, WireFits
<1>3. /\ Len(wire) \in Nat /\ Len(wire') \in Nat /\ Len(log) \in 0 .. MaxMessages
      /\ \A k \in 1 .. Len(log) : k \in Ids
  BY Carried, Kinds DEF Sane, Taken, Ids
<1>4. \A k \in 1 .. Len(wire') : k + 1 \in 1 .. Len(wire) /\ wire'[k] = wire[k + 1]
  BY FirstTaken
<1>5. \A m \in 1 .. Len(wire) : m > 1 => m - 1 \in 1 .. Len(wire') /\ wire'[m - 1] = wire[m]
  BY FirstTaken
<1>6. \A k : \A j \in Nat : NoneAfter(k, j)' <=> NoneAfter(k, j + 1)
  BY FirstTaken
<1>7. \A op : Awaited(op)' <=> Awaited(op)
  BY DEF Awaited
<1>8. \A k \in 1 .. Len(wire') : \A op : Reply(k, op)' <=> Reply(k + 1, op)
  BY <1>4, <1>7 DEF Reply
<1>9. \A k \in 1 .. Len(wire') : Counts(k)' <=> Counts(k + 1)
  BY <1>8 DEF Counts
<1>10. \A k \in 1 .. Len(log) : thread'[k] = IF ~About(k, e) THEN thread[k]
                                             ELSE IF e.type # "deleted" THEN e.body
                                             ELSE IF thread[k] = Absent THEN Absent ELSE Gone
  BY <1>2, <1>3 DEF Shows
<1>11. e.type \in {"created", "updated"} => e.body \in Bodies /\ e.body # Absent
  BY <1>2, Kinds DEF EventFits
<1>12. \A k \in 1 .. Len(log) : thread[k] # Absent => thread'[k] # Absent
  BY <1>2, <1>10, <1>11, Kinds DEF About
<1>13. \A k \in 1 .. Len(log) : thread'[k] # Absent =>
         \/ thread[k] # Absent
         \/ About(k, e) /\ e.type \in {"created", "updated"}
  BY <1>2, <1>10 DEF About
<1>14. ASSUME NEW k \in 1 .. Len(log), Covered(k)
       PROVE  Covered(k)'
  <2>1. CASE thread[k] # Absent
    BY <1>12, <2>1 DEF Covered
  <2>2. CASE Coming(k)
    <3>1. PICK m \in 1 .. Len(wire) :
            \/ Creates(wire[m]) /\ wire[m].id = k
            \/ Reply(m, "send") /\ wire[m].messages[k] # Absent
      BY <2>2 DEF Coming
    <3>2. CASE m = 1
      <4>1. Creates(e) /\ e.id = k
        BY <1>1, <1>2, <3>1, <3>2 DEF Reply
      <4>2. thread'[k] # Absent
        BY <1>10, <1>11, <4>1 DEF Creates, About
      <4> QED BY <4>2 DEF Covered
    <3>3. CASE m > 1
      <4>1. m - 1 \in 1 .. Len(wire') /\ wire'[m - 1] = wire[m] /\ (m - 1) + 1 = m
        BY <1>5, <3>3
      <4>2. \/ Creates(wire'[m - 1]) /\ wire'[m - 1].id = k
            \/ Reply(m - 1, "send")' /\ wire'[m - 1].messages[k] # Absent
        BY <1>8, <3>1, <4>1
      <4>3. Coming(k)'
        BY <4>1, <4>2 DEF Coming, Creates
      <4> QED BY <4>3 DEF Covered
    <3> QED BY <1>3, <3>2, <3>3
  <2> QED BY <1>14, <2>1, <2>2 DEF Covered
<1>15. ASSUME NEW k \in 1 .. Len(log), Covered(k)', hydrated
       PROVE  Covered(k)
  <2>1. CASE thread'[k] # Absent
    <3>1. CASE thread[k] # Absent
      BY <3>1 DEF Covered
    <3>2. CASE thread[k] = Absent
      <4>1. About(k, e) /\ e.type = "created"
        BY <1>2, <1>13, <1>15, <2>1, <3>2 DEF About
      <4>2. Creates(wire[1]) /\ wire[1].id = k
        BY <1>1, <4>1 DEF About, Creates
      <4> QED BY <4>2 DEF Covered, Coming
    <3> QED BY <3>1, <3>2
  <2>2. CASE Coming(k)'
    <3>1. PICK m \in 1 .. Len(wire') :
            \/ Creates(wire'[m]) /\ wire'[m].id = k
            \/ Reply(m, "send")' /\ wire'[m].messages[k] # Absent
      BY <2>2 DEF Coming, Creates
    <3>2. m + 1 \in 1 .. Len(wire) /\ wire'[m] = wire[m + 1]
      BY <1>4
    <3>3. \/ Creates(wire[m + 1]) /\ wire[m + 1].id = k
          \/ Reply(m + 1, "send") /\ wire[m + 1].messages[k] # Absent
      BY <1>8, <3>1, <3>2
    <3> QED BY <3>2, <3>3 DEF Covered, Coming
  <2> QED BY <1>15, <2>1, <2>2 DEF Covered
<1>16. AnswerCurrent'
  <2> SUFFICES ASSUME NEW i \in 1 .. Len(wire'), NEW k \in 1 .. Len(log), Counts(i)',
                      wire'[i].messages[k] # Absent, NoneAfter(k, i)'
               PROVE  wire'[i].messages[k] = log[k].body
    BY DEF AnswerCurrent
  <2>1. Counts(i + 1) /\ NoneAfter(k, i + 1) /\ i + 1 \in 1 .. Len(wire) /\ wire'[i] = wire[i + 1]
    BY <1>4, <1>6, <1>9
  <2> QED BY <2>1 DEF Follows, AnswerCurrent
<1>17. ThreadCurrent'
  <2> SUFFICES ASSUME hydrated, NEW k \in 1 .. Len(log), thread'[k] # Absent, NoneAfter(k, 0)'
               PROVE  thread'[k] = log[k].body
    BY DEF ThreadCurrent
  <2>1. NoneAfter(k, 1)
    BY <1>6
  <2>2. CASE About(k, e)
    <3>1. e.body = log[k].body
      BY <1>1, <2>1, <2>2 DEF Sane, EventsCurrent
    <3>2. e.type = "deleted" => log[k].body = Gone
      BY <1>2, <2>2 DEF About, EventFits
    <3> QED BY <1>10, <2>2, <3>1, <3>2
  <2>3. CASE ~About(k, e)
    <3>1. ASSUME NEW j \in 1 .. Len(wire), j > 0
          PROVE  ~About(k, wire[j])
      <4>1. CASE j = 1
        BY <1>1, <2>3, <4>1
      <4>2. CASE j > 1
        BY <2>1, <4>2 DEF NoneAfter
      <4> QED BY <1>3, <4>1, <4>2
    <3>2. NoneAfter(k, 0)
      BY <3>1 DEF NoneAfter
    <3>3. thread'[k] = thread[k]
      BY <1>10, <2>3
    <3> QED BY <3>2, <3>3 DEF Follows, ThreadCurrent
  <2> QED BY <2>2, <2>3
<1>18. NoGap'
  BY <1>3, <1>14, <1>15, EmptySeq, Carried DEF Follows, NoGap, Sane
<1>19. OlderCalls'
  BY <1>14 DEF Follows, OlderCalls
<1>20. OlderReply'
  <2> SUFFICES ASSUME NEW i \in 1 .. Len(wire'), Reply(i, "older")', NEW j \in 1 .. Len(log),
                      NEW k \in 1 .. Len(log), j < k, wire'[i].messages[j] # Absent,
                      wire'[i].messages[k] = Absent
               PROVE  Covered(k)'
    BY DEF OlderReply
  <2>1. Reply(i + 1, "older") /\ i + 1 \in 1 .. Len(wire) /\ wire'[i] = wire[i + 1]
    BY <1>4, <1>8
  <2>2. Covered(k)
    BY <2>1 DEF Follows, OlderReply
  <2> QED BY <1>14, <2>2
<1>21. HistoryFits'
  <2> SUFFICES ASSUME NEW i \in 1 .. Len(wire'), Reply(i, "history")', calls[1].live
               PROVE  /\ \A j, k \in 1 .. Len(log) : j < k /\ PageCovers(i, j)' => PageCovers(i, k)'
                      /\ log # <<>> => PageCovers(i, Len(log))'
    BY DEF HistoryFits
  <2>1. Reply(i + 1, "history") /\ i + 1 \in 1 .. Len(wire) /\ wire'[i] = wire[i + 1]
    BY <1>4, <1>8
  <2>2. ASSUME NEW k
        PROVE  PageCovers(i, k)' <=> PageCovers(i + 1, k)
    <3>1. ASSUME NEW j \in 1 .. Len(wire'), j > i, Creates(wire'[j]), wire'[j].id = k
          PROVE  PageCovers(i + 1, k)
      <4>1. j + 1 \in 1 .. Len(wire) /\ wire'[j] = wire[j + 1] /\ j + 1 > i + 1
        BY <1>4, <3>1
      <4> QED BY <3>1, <4>1 DEF PageCovers
    <3>2. ASSUME NEW j \in 1 .. Len(wire), j > i + 1, Creates(wire[j]), wire[j].id = k
          PROVE  PageCovers(i, k)'
      <4>1. j - 1 \in 1 .. Len(wire') /\ wire'[j - 1] = wire[j] /\ j - 1 > i
        BY <1>5, <3>2
      <4> QED BY <3>2, <4>1 DEF PageCovers, Creates
    <3> QED BY <2>1, <3>1, <3>2 DEF PageCovers, Creates
  <2> QED BY <2>1, <2>2 DEF Follows, HistoryFits
<1> QED
  BY <1>16, <1>17, <1>18, <1>19, <1>20, <1>21 DEF Follows

\* An echo removes what the composer put there; another event is not about it.
LEMMA EventSentOnce ==
    ASSUME Sane, SentOnce, "thread" \notin disturbed, 1 \in 1 .. Len(wire), wire[1] \in Event,
           Shows(wire[1]), UNCHANGED <<log, calls>>
    PROVE  SentOnce'
<1>1. PICK e : e = wire[1]
  OBVIOUS
<1>2. e \in Event /\ EventFits(e) /\ e \notin Answer /\ Shows(e)
  BY <1>1, Kinds DEF Sane, WireFits
<1>3. /\ Len(wire) \in Nat /\ log \in Seq(Message) /\ Len(log) \in 0 .. MaxMessages
      /\ \A k \in 1 .. Len(log) : k \in Ids
  BY Carried, Kinds DEF Sane, Ids
<1>4. DOMAIN log = 1 .. Len(log)
  BY <1>3, LenProperties
<1> SUFFICES ASSUME NEW n \in Nonces, optimistic'[n] # Absent, NEW k \in 1 .. Len(log),
                    log[k].send = optimistic'[n].send, thread'[k] # Absent
             PROVE  FALSE
  BY <1>4 DEF SentOnce
<1>5. optimistic'[n] = optimistic[n]
  BY DEF Shows
<1>6. thread[k] = Absent
  BY <1>4, <1>5 DEF SentOnce
<1>7. About(k, e)
  BY <1>2, <1>3, <1>6 DEF Shows
<1>8. PICK c \in 1 .. Len(calls) : SendOf(calls[c], n)
  BY <1>5 DEF Sane, EntriesAwait
<1>9. calls[c].sent
  BY <1>5, <1>8 DEF Sane, SendsApart, SendOf
<1>10. c = 1 /\ Awaited("send") /\ calls[1].send = optimistic[n].send
  <2>1. c = 1
    BY <1>9 DEF Sane, OneAnswer
  <2>2. calls # <<>>
    BY Carried, EmptySeq DEF Sane
  <2> QED BY <1>8, <1>9, <2>1, <2>2 DEF Awaited, SendOf
<1>11. PICK a \in 1 .. Len(wire) : wire[a] \in Answer
  BY <1>10 DEF Sane, OneAnswer, Awaited
<1>12. a # 1 /\ 1 < a
  BY <1>1, <1>2, <1>3, <1>11
<1>13. e.type = "created" /\ e.by = "me" /\ e.body = calls[1].body
  BY <1>1, <1>5, <1>7, <1>10, <1>11, <1>12 DEF Sane, EchoFirst
<1>14. optimistic[n] # Absent /\ optimistic[n].body = e.body
  BY <1>5, <1>8, <1>10, <1>13 DEF SendOf
<1> QED BY <1>2, <1>13, <1>14 DEF Shows

LEMMA ReceiveEventKeeps ==
    ASSUME MessagingInv, NEW i \in DOMAIN wire, ReceiveEvent(i)
    PROVE  MessagingInv'
<1>1. MessagingTypeOK /\ Sane
  BY DEF MessagingInv, Sane
<1>2. wire \in Seq(Event \cup Answer) /\ Len(wire) \in Nat /\ i \in 1 .. Len(wire)
  BY <1>1, Carried, LenProperties
<1>3. /\ wire[i] \in Event /\ \A j \in 1 .. i - 1 : wire[j] \in Answer
      /\ ApplyEvent(wire[i]) /\ wire' = RemoveAt(wire, i)
      /\ UNCHANGED <<log, lastRead, hydrated, online, calls>>
  BY DEF ReceiveEvent
<1>4. Taken(i)
  BY <1>1, <1>2, <1>3, WireTaken
<1>5. EventFits(wire[i]) /\ (wire[i].type # "read" => wire[i].id \in 1 .. Len(log))
  BY <1>1, <1>2, <1>3 DEF Sane, WireFits, EventFits
<1>6. Shows(wire[i])
  BY <1>1, <1>3, <1>5, Applied
<1>7. \/ /\ i > 1 /\ Mishap /\ disturbed' = disturbed \cup {"thread", "badge"}
      \/ /\ i = 1 /\ Mishap /\ disturbed' = disturbed \cup {"thread"}
      \/ /\ i = 1 /\ spent' = spent /\ disturbed' = disturbed
         /\ wire[i].type = "updated" /\ hydrated => thread[wire[i].id] # Absent
  <2>1. CASE i > 1
    BY <2>1 DEF ReceiveEvent, Disturb
  <2>2. CASE i = 1
    <3>1. ~(i > 1)
      BY <2>2
    <3>2. CASE wire[i].type = "updated" /\ hydrated /\ thread[wire[i].id] = Absent
      BY <2>2, <3>1, <3>2 DEF ReceiveEvent, Disturb
    <3>3. CASE ~(wire[i].type = "updated" /\ hydrated /\ thread[wire[i].id] = Absent)
      BY <2>2, <3>1, <3>3 DEF ReceiveEvent, Undisturbed
    <3> QED BY <3>2, <3>3
  <2> QED BY <1>2, <2>1, <2>2
<1>8. spent' \in Ceiling /\ spent'.sends = spent.sends
  BY <1>1, <1>7, Counting
<1>9. badge' \in 0 .. MaxMessages
  <2>1. badge \in 0 .. MaxMessages /\ Len(log) \in 0 .. MaxMessages /\ MaxMessages \in Nat
    BY <1>1, Carried, Kinds DEF MessagingTypeOK
  <2>2. badge' \in Nat /\ badge' <= badge + 1 /\ (wire[i].type # "created" => badge' <= badge)
    BY <1>6 DEF Shows
  <2>3. CASE wire[i].type = "created"
    <3>1. badge < wire[i].id /\ wire[i].id \in 1 .. Len(log)
      BY <1>5, <2>3 DEF EventFits
    <3> QED BY <2>1, <2>2, <3>1
  <2>4. CASE wire[i].type # "created"
    BY <2>1, <2>2, <2>4
  <2> QED BY <2>3, <2>4
<1>10. MessagingTypeOK'
  <2>1. wire' \in Seq(Event \cup Answer)
    BY <1>4 DEF Taken
  <2>2. thread' \in Copies /\ optimistic' \in [Nonces -> Optimistic \cup {Absent}] /\ pane' \in Pane
    BY <1>6 DEF Shows
  <2>3. disturbed' \in SUBSET {"thread", "badge"}
    BY <1>1, <1>7 DEF MessagingTypeOK
  <2> QED BY <1>1, <1>3, <1>8, <1>9, <2>1, <2>2, <2>3 DEF MessagingTypeOK, Ceiling
<1>11. Sane'
  BY <1>1, <1>2, <1>3, <1>4, <1>6, <1>8, <1>10, EventTaken
<1>12. ASSUME "thread" \notin disturbed'
       PROVE  Follows' /\ SentOnce'
  <2>1. /\ i = 1 /\ disturbed' = disturbed
        /\ wire[i].type = "updated" /\ hydrated => thread[wire[i].id] # Absent
    BY <1>7, <1>12
  <2>2. Follows /\ SentOnce /\ "thread" \notin disturbed
    BY <1>12, <2>1 DEF MessagingInv, ThreadInv
  <2>3. Follows'
    BY <1>1, <1>2, <1>3, <1>4, <1>6, <2>1, <2>2, EventFollows
  <2>4. SentOnce'
    BY <1>1, <1>2, <1>3, <1>6, <2>1, <2>2, EventSentOnce
  <2> QED BY <2>3, <2>4
<1> QED BY <1>11, <1>12 DEF MessagingInv, ThreadInv

IsShown(x, a) == x.op = "history" /\ a.type = "reply" /\ x.live

\* What the answer a to the call x does to what is shown.
Arrives(x, a) ==
    /\ thread' \in Copies /\ optimistic' \in [Nonces -> Optimistic \cup {Absent}]
    /\ pane' \in Pane /\ pane'.open = pane.open /\ pane'.seq = pane.seq
    /\ badge' \in {0, badge, a.unread} /\ hydrated' \in BOOLEAN
    /\ \A n \in Nonces : optimistic'[n] \in {optimistic[n], Absent}
    /\ x.op = "send" => optimistic'[x.at] = Absent
    /\ IsShown(x, a) => hydrated' = TRUE /\ thread' = a.messages
    /\ ~IsShown(x, a) => hydrated' = hydrated
    /\ x.op = "older" /\ a.type = "reply" =>
         \A k \in Ids : thread'[k] = IF thread[k] = Absent THEN a.messages[k] ELSE thread[k]
    /\ x.op = "send" /\ a.type = "reply" =>
         \E s \in Ids : /\ a.messages[s] # Absent
                        /\ \A k \in Ids : thread'[k] = IF k = s THEN x.body ELSE thread[k]
    /\ ~IsShown(x, a) /\ ~(x.op \in {"older", "send"} /\ a.type = "reply") => thread' = thread

LEMMA Arriving ==
    ASSUME Sane, ReceiveAnswer
    PROVE  /\ calls # <<>> /\ wire # <<>> /\ wire[1] \in Answer /\ Arrives(calls[1], wire[1])
           /\ Head(calls) = calls[1] /\ Head(wire) = wire[1]
           /\ 1 \in 1 .. Len(calls) /\ 1 \in 1 .. Len(wire)
           /\ Awaited(calls[1].op) /\ calls[1].sent
<1>1. /\ thread \in Copies /\ optimistic \in [Nonces -> Optimistic \cup {Absent}]
      /\ badge \in Nat /\ pane \in Pane /\ hydrated \in BOOLEAN
      /\ calls \in Seq(Call) /\ Len(calls) \in Nat
      /\ wire \in Seq(Event \cup Answer) /\ Len(wire) \in Nat
      /\ \A i \in 1 .. Len(calls) : calls[i] \in Call
  BY Carried DEF Sane, MessagingTypeOK
<1>2. wire # <<>> /\ Head(wire) \in Answer
  BY DEF ReceiveAnswer
<1>3. 1 \in 1 .. Len(wire) /\ Head(wire) = wire[1]
  BY <1>1, <1>2, EmptySeq
<1>4. calls # <<>> /\ calls[1].sent
  BY <1>2, <1>3 DEF Sane, OneAnswer
<1>5. 1 \in 1 .. Len(calls) /\ Head(calls) = calls[1]
  BY <1>1, <1>4, EmptySeq
<1>6. PICK x, a : x = calls[1] /\ a = wire[1]
  OBVIOUS
<1>7. x \in Call /\ a \in Answer /\ CallFits(x) /\ AnswerFits(1) /\ a.messages \in Copies
      /\ x.op \in {"history", "older", "list", "send", "read"}
  BY <1>1, <1>2, <1>3, <1>5, <1>6, Kinds DEF Sane, CallsFit, WireFits
<1> SUFFICES Arrives(x, a)
  BY <1>2, <1>3, <1>4, <1>5, <1>6 DEF Awaited
<1>8. CASE x.op = "history"
  <2>1. HistoryArrives(x, a)
    BY <1>3, <1>5, <1>6, <1>8 DEF ReceiveAnswer
  <2>2. CASE a.type = "reply" /\ x.live
    <3>1. PICK op, p : /\ op = [n \in Nonces |-> Absent]
                       /\ p = [pane EXCEPT !.reachedStart = Cardinality(Loaded(a.messages)) < Page]
      OBVIOUS
    <3>2. Show(a.messages, op, badge, p) /\ hydrated' = TRUE
      BY <2>1, <2>2, <3>1 DEF HistoryArrives
    <3>3. p \in Pane /\ p.open = pane.open /\ p.seq = pane.seq
      <4>1. (Cardinality(Loaded(a.messages)) < Page) \in BOOLEAN
        OBVIOUS
      <4>2. PICK t \in BOOLEAN : p = [pane EXCEPT !.reachedStart = t]
        BY <3>1, <4>1
      <4> QED BY <1>1, <4>2 DEF Pane
    <3>4. /\ thread' = a.messages /\ optimistic' = op /\ badge' \in {0, badge}
          /\ pane' \in Pane /\ pane'.open = p.open /\ pane'.seq = p.seq
      BY <3>2, <3>3, Showing
    <3>5. op \in [Nonces -> Optimistic \cup {Absent}] /\ \A n \in Nonces : op[n] = Absent
      BY <3>1
    <3> QED BY <1>7, <1>8, <2>2, <3>2, <3>3, <3>4, <3>5 DEF Arrives, IsShown
  <2>3. CASE ~(a.type = "reply" /\ x.live)
    <3>1. UNCHANGED <<thread, optimistic, badge, pane, hydrated>>
      BY <2>1, <2>3 DEF HistoryArrives
    <3> QED BY <1>1, <1>8, <2>3, <3>1 DEF Arrives, IsShown
  <2> QED BY <2>2, <2>3
<1>9. CASE x.op = "older"
  <2>1. OlderArrives(a)
    BY <1>3, <1>5, <1>6, <1>9 DEF ReceiveAnswer
  <2>2. PICK th, p :
          /\ th = [i \in Ids |-> IF thread[i] = Absent /\ a.type = "reply"
                                 THEN a.messages[i] ELSE thread[i]]
          /\ p = IF IsOpen
                 THEN [pane EXCEPT !.loadingOlder = FALSE,
                                   !.reachedStart = @ \/ (a.type = "reply"
                                        /\ Cardinality(Loaded(a.messages)) < Page)]
                 ELSE pane
    OBVIOUS
  <2>3. Show(th, optimistic, badge, p) /\ hydrated' = hydrated
    BY <2>1, <2>2 DEF OlderArrives
  <2>4. p \in Pane /\ p.open = pane.open /\ p.seq = pane.seq
    BY <1>1, <2>2 DEF Pane
  <2>5. /\ thread' = th /\ optimistic' = optimistic /\ badge' \in {0, badge}
        /\ pane' \in Pane /\ pane'.open = p.open /\ pane'.seq = p.seq
    BY <2>3, <2>4, Showing
  <2>6. /\ th \in Copies
        /\ \A k \in Ids : th[k] = IF thread[k] = Absent /\ a.type = "reply"
                                  THEN a.messages[k] ELSE thread[k]
    BY <1>1, <1>7, <2>2 DEF Copies
  <2>7. a.type # "reply" => th = thread
    BY <1>1, <2>2 DEF Copies
  <2> QED BY <1>1, <1>9, <2>3, <2>4, <2>5, <2>6, <2>7 DEF Arrives, IsShown
<1>10. CASE x.op = "send"
  <2>1. SendArrives(x, a)
    BY <1>3, <1>5, <1>6, <1>10 DEF ReceiveAnswer
  <2>2. x.at \in Nonces /\ x.body \in Bodies
    BY <1>7, <1>10 DEF CallFits
  <2>3. PICK p : p = IF IsOpen THEN [pane EXCEPT !.sending = FALSE] ELSE pane
    OBVIOUS
  <2>4. p \in Pane /\ p.open = pane.open /\ p.seq = pane.seq
    BY <1>1, <2>3 DEF Pane
  <2>5. CASE a.type = "reply"
    <3>1. PICK k \in 1 .. Len(log) : Brings(a, k)
      BY <1>4, <1>5, <1>6, <1>7, <1>10, <2>5 DEF AnswerFits, Awaited
    <3>2. k \in Ids /\ x.body # Absent
      BY <1>1, <2>2, Carried, Kinds DEF Sane, Ids
    <3>3. a.messages[k] # Absent
      BY <1>6, <3>1, <3>2 DEF Brings
    <3>4. PICK s : s = CHOOSE i \in Loaded(a.messages) : TRUE
      OBVIOUS
    <3>5. s \in Ids /\ a.messages[s] # Absent
      BY <3>2, <3>3, <3>4 DEF Loaded
    <3>6. PICK op : op = [n \in Nonces |-> IF n = x.at THEN Absent
                                           ELSE WithoutEcho("me", x.body)[n]]
      OBVIOUS
    <3>7. Show(Merge(s, x.body), op, badge, p) /\ hydrated' = hydrated
      BY <2>1, <2>3, <2>5, <3>4, <3>6 DEF SendArrives
    <3>8. /\ op \in [Nonces -> Optimistic \cup {Absent}] /\ op[x.at] = Absent
          /\ \A n \in Nonces : op[n] \in {optimistic[n], Absent}
      BY <1>1, <2>2, <3>6 DEF WithoutEcho
    <3>9. /\ Merge(s, x.body) \in Copies
          /\ \A i \in Ids : Merge(s, x.body)[i] = IF i = s THEN x.body ELSE thread[i]
      BY <1>1, <2>2, <3>5 DEF Merge, Copies
    <3>10. /\ thread' = Merge(s, x.body) /\ optimistic' = op /\ badge' \in {0, badge}
           /\ pane' \in Pane /\ pane'.open = p.open /\ pane'.seq = p.seq
      BY <2>4, <3>7, Showing
    <3> QED BY <1>1, <1>10, <2>4, <2>5, <3>5, <3>7, <3>8, <3>9, <3>10 DEF Arrives, IsShown
  <2>6. CASE a.type # "reply"
    <3>1. PICK op : op = [optimistic EXCEPT ![x.at] = Absent]
      OBVIOUS
    <3>2. Show(thread, op, badge, p) /\ hydrated' = hydrated
      BY <2>1, <2>3, <2>6, <3>1 DEF SendArrives
    <3>3. /\ op \in [Nonces -> Optimistic \cup {Absent}] /\ op[x.at] = Absent
          /\ \A n \in Nonces : op[n] \in {optimistic[n], Absent}
      BY <1>1, <2>2, <3>1
    <3>4. /\ thread' = thread /\ optimistic' = op /\ badge' \in {0, badge}
          /\ pane' \in Pane /\ pane'.open = p.open /\ pane'.seq = p.seq
      BY <2>4, <3>2, Showing
    <3> QED BY <1>1, <1>10, <2>4, <2>6, <3>2, <3>3, <3>4 DEF Arrives, IsShown
  <2> QED BY <2>5, <2>6
<1>11. CASE x.op \in {"list", "read"}
  <2>1. badge' \in {badge, a.unread} /\ UNCHANGED <<thread, optimistic, pane, hydrated>>
    <3>1. CASE x.op = "list" /\ a.type = "reply"
      BY <1>3, <1>5, <1>6, <1>11, <3>1 DEF ReceiveAnswer
    <3>2. CASE ~(x.op = "list" /\ a.type = "reply")
      BY <1>3, <1>5, <1>6, <1>11, <3>2 DEF ReceiveAnswer
    <3> QED BY <3>1, <3>2
  <2> QED BY <1>1, <1>11, <2>1 DEF Arrives, IsShown
<1> QED BY <1>7, <1>8, <1>9, <1>10, <1>11

\* What is left when the answer is in: no call is under way, no answer awaited.
LEMMA AnswerGone ==
    ASSUME Sane, ReceiveAnswer
    PROVE  /\ Taken(1) /\ calls' \in Seq(Call) /\ Len(calls') \in Nat /\ Len(calls) \in Nat
           /\ \A k \in 1 .. Len(calls') : /\ k + 1 \in 1 .. Len(calls) /\ calls'[k] = calls[k + 1]
                                          /\ ~calls'[k].sent
           /\ \A m \in 1 .. Len(calls) :
                m > 1 => m - 1 \in 1 .. Len(calls') /\ calls'[m - 1] = calls[m]
           /\ \A k \in 1 .. Len(wire') : wire'[k] \in Event
           /\ \A op : ~Awaited(op)'
           /\ UNCHANGED <<log, lastRead, online, spent>>
<1>1. /\ calls # <<>> /\ wire # <<>> /\ wire[1] \in Answer
      /\ Head(calls) = calls[1] /\ Head(wire) = wire[1]
      /\ 1 \in 1 .. Len(calls) /\ 1 \in 1 .. Len(wire)
  BY Arriving
<1>2. /\ MessagingTypeOK /\ OneAnswer /\ calls \in Seq(Call) /\ Len(calls) \in Nat
      /\ \A k \in 1 .. Len(wire) : wire[k] \in Event \cup Answer
  BY Carried DEF Sane
<1>3. /\ calls' = Tail(calls) /\ wire' = Tail(wire) /\ UNCHANGED <<log, lastRead, online, spent>>
  BY DEF ReceiveAnswer
<1>4. Taken(1)
  BY <1>1, <1>2, <1>3, HeadTaken
<1>5. /\ calls' \in Seq(Call) /\ Len(calls') = Len(calls) - 1
      /\ \A k \in 1 .. Len(calls) - 1 : calls'[k] = calls[k + 1]
  BY <1>1, <1>2, <1>3, HeadTailProperties
<1>6. Len(calls') \in Nat
  BY <1>5, LenProperties
<1>7. PICK n \in Nat, t \in Nat : n = Len(calls) /\ t = Len(calls') /\ t = n - 1
  BY <1>2, <1>5, <1>6, Zenon
<1>8. \A k \in 1 .. t : k + 1 \in 1 .. n /\ k + 1 # 1 /\ calls'[k] = calls[k + 1]
  BY <1>5, <1>7
<1>9. \A k \in 1 .. t : ~calls'[k].sent
  <2>1. \A k \in 1 .. n : k # 1 => ~calls[k].sent
    BY <1>2, <1>7 DEF OneAnswer
  <2> QED BY <1>8, <2>1
<1>10. ASSUME NEW m \in 1 .. n, m > 1
       PROVE  m - 1 \in 1 .. t /\ calls'[m - 1] = calls[m]
  <2>1. m - 1 \in 1 .. t /\ (m - 1) + 1 = m
    BY <1>7, <1>10
  <2> QED BY <1>8, <2>1
<1>11. \A k \in 1 .. Len(wire') : wire'[k] \in Event
  <2> SUFFICES ASSUME NEW k \in 1 .. Len(wire')
               PROVE  wire'[k] \in Event
    OBVIOUS
  <2>1. Back(1, k) \in 1 .. Len(wire) /\ Back(1, k) # 1 /\ wire'[k] = wire[Back(1, k)]
    BY <1>4 DEF Taken
  <2>2. wire[Back(1, k)] \notin Answer
    BY <1>1, <1>2, <2>1 DEF OneAnswer
  <2> QED BY <1>2, <2>1, <2>2
<1>12. ASSUME NEW op
       PROVE  ~Awaited(op)'
  <2>1. calls' # <<>> => 1 \in 1 .. t
    BY <1>5, <1>7, EmptySeq
  <2> QED BY <1>9, <2>1 DEF Awaited
<1> QED BY <1>2, <1>3, <1>4, <1>5, <1>7, <1>8, <1>9, <1>10, <1>11, <1>12

LEMMA AnswerTaken ==
    ASSUME Sane, ReceiveAnswer
    PROVE  Sane'
<1> PICK x, a : x = calls[1] /\ a = wire[1]
  OBVIOUS
<1>1. /\ calls # <<>> /\ wire # <<>> /\ a \in Answer /\ Arrives(x, a)
      /\ 1 \in 1 .. Len(calls) /\ 1 \in 1 .. Len(wire) /\ Awaited(x.op) /\ x.sent
  BY Arriving
<1>2. /\ Taken(1) /\ calls' \in Seq(Call) /\ Len(calls') \in Nat /\ Len(calls) \in Nat
      /\ \A k \in 1 .. Len(calls') : /\ k + 1 \in 1 .. Len(calls) /\ calls'[k] = calls[k + 1]
                                     /\ ~calls'[k].sent
      /\ \A m \in 1 .. Len(calls) :
           m > 1 => m - 1 \in 1 .. Len(calls') /\ calls'[m - 1] = calls[m]
      /\ \A k \in 1 .. Len(wire') : wire'[k] \in Event
      /\ \A op : ~Awaited(op)'
      /\ UNCHANGED <<log, lastRead, online, spent>>
  BY AnswerGone
<1>3. /\ MessagingTypeOK /\ OneAnswer /\ CallsFit /\ WireFits /\ StoreFits /\ SendsApart
      /\ EntriesAwait /\ EchoFirst /\ EventsCurrent
  BY DEF Sane
<1>4. /\ Len(log) \in 0 .. MaxMessages /\ badge \in Nat /\ badge <= Len(log)
      /\ \A k \in 1 .. Len(calls) : calls[k] \in Call
      /\ \A k \in 1 .. Len(log) : k \in Ids
  BY <1>3, Carried, Kinds DEF MessagingTypeOK, StoreFits, Ids
<1>5. AnswerFits(1) /\ a.unread \in Nat /\ a.messages \in Copies
  BY <1>1, <1>3, Kinds DEF WireFits
<1>6. /\ Len(wire) \in Nat /\ Len(wire') \in Nat
      /\ \A k \in 1 .. Len(wire') : k + 1 \in 1 .. Len(wire) /\ wire'[k] = wire[k + 1]
      /\ \A k : \A j \in Nat : NoneAfter(k, j)' <=> NoneAfter(k, j + 1)
  BY <1>2, FirstTaken DEF Taken
<1>7. badge' \in Nat /\ badge' <= Len(log)
  <2>1. badge' \in {0, badge, a.unread}
    BY <1>1 DEF Arrives
  <2>2. a.unread <= Len(log)
    BY <1>5 DEF AnswerFits
  <2> QED BY <1>4, <1>5, <2>1, <2>2
<1>8. MessagingTypeOK'
  <2>1. badge' \in 0 .. MaxMessages
    BY <1>4, <1>7, Kinds
  <2>2. disturbed' \in SUBSET {"thread", "badge"}
    <3>1. disturbed' \subseteq disturbed
      BY DEF ReceiveAnswer
    <3> QED BY <1>3, <3>1 DEF MessagingTypeOK
  <2>3. wire' \in Seq(Event \cup Answer)
    BY <1>2 DEF Taken
  <2>4. /\ thread' \in Copies /\ optimistic' \in [Nonces -> Optimistic \cup {Absent}]
        /\ pane' \in Pane /\ hydrated' \in BOOLEAN
    BY <1>1 DEF Arrives
  <2> QED BY <1>2, <1>3, <2>1, <2>2, <2>3, <2>4 DEF MessagingTypeOK
<1>9. OneAnswer'
  <2>1. \A k \in 1 .. Len(wire') : wire'[k] \notin Answer
    BY <1>2, Kinds
  <2>2. ~(calls' # <<>> /\ calls'[1].sent)
    <3>1. calls' # <<>> => 1 \in 1 .. Len(calls')
      BY <1>2, EmptySeq
    <3> QED BY <1>2, <3>1
  <2> QED BY <1>2, <2>1, <2>2 DEF OneAnswer
<1>10. CallsFit'
  <2>1. ASSUME NEW k \in 1 .. Len(calls')
        PROVE  CallFits(calls[k])'
    <3>1. k + 1 \in 1 .. Len(calls) /\ calls'[k] = calls[k + 1] /\ k + 1 # 1
      BY <1>2
    <3>2. CallFits(calls[k + 1])
      BY <1>3, <3>1 DEF CallsFit
    <3>3. ASSUME calls'[k].op = "history", calls'[k].live
          PROVE  pane'.open /\ ~hydrated'
      <4>1. pane.open /\ ~hydrated
        BY <3>1, <3>2, <3>3 DEF CallFits
      <4>2. ~IsShown(x, a)
        BY <1>1, <1>3, <3>1, <3>3 DEF CallsFit, IsShown
      <4> QED BY <1>1, <4>1, <4>2 DEF Arrives
    <3> QED BY <1>2, <3>1, <3>2, <3>3 DEF CallFits
  <2>2. ASSUME NEW i \in 1 .. Len(calls'), NEW j \in 1 .. Len(calls'),
               calls'[i].op = "history", calls'[j].op = "history", calls'[i].live, calls'[j].live
        PROVE  i = j
    <3>1. PICK m \in 1 .. Len(calls), n \in 1 .. Len(calls) :
            m = i + 1 /\ n = j + 1 /\ calls'[i] = calls[m] /\ calls'[j] = calls[n]
      BY <1>2
    <3>2. m = n
      BY <1>3, <2>2, <3>1 DEF CallsFit
    <3> QED BY <3>1, <3>2
  <2> QED BY <2>1, <2>2 DEF CallsFit
<1>11. WireFits'
  <2>1. ASSUME NEW k \in 1 .. Len(wire')
        PROVE  EventFits(wire[k])'
    <3>1. k + 1 \in 1 .. Len(wire) /\ wire'[k] = wire[k + 1] /\ wire'[k] \in Event
      BY <1>2, <1>6
    <3>2. EventFits(wire[k + 1])
      BY <1>3, <3>1 DEF WireFits
    <3>3. ASSUME wire'[k].type = "created"
          PROVE  badge' < wire'[k].id
      <4>1. badge < wire'[k].id /\ wire'[k].id \in 1 .. Len(log)
        BY <3>1, <3>2, <3>3 DEF EventFits
      <4>2. a.unread < wire'[k].id
        <5>1. k + 1 > 1
          OBVIOUS
        <5> QED BY <1>1, <1>5, <3>1, <3>3, <5>1 DEF AnswerFits, Creates
      <4>3. badge' \in {0, badge, a.unread}
        BY <1>1 DEF Arrives
      <4> QED BY <1>4, <4>1, <4>2, <4>3
    <3> QED BY <1>2, <3>1, <3>2, <3>3 DEF EventFits
  <2>2. ASSUME NEW j \in 1 .. Len(wire'), NEW k \in 1 .. Len(wire'), j < k,
               Creates(wire'[j]), Creates(wire'[k])
        PROVE  wire'[j].id < wire'[k].id
    <3>1. j + 1 < k + 1
      BY <2>2
    <3> QED BY <1>3, <1>6, <2>2, <3>1 DEF WireFits
  <2>3. \A k \in 1 .. Len(wire') : wire'[k] \notin Answer
    BY <1>2, Kinds
  <2> QED BY <2>1, <2>2, <2>3 DEF WireFits, Creates
<1>12. StoreFits'
  <2>1. \A k \in Ids : a.messages[k] # Absent => k \in 1 .. Len(log)
    BY <1>5 DEF AnswerFits
  <2>2. \A k \in Ids : thread[k] # Absent => k \in 1 .. Len(log)
    BY <1>3 DEF StoreFits
  <2>3. \A k \in Ids : thread'[k] # Absent => a.messages[k] # Absent \/ thread[k] # Absent
    BY <1>1 DEF Arrives, IsShown
  <2>4. pane'.seq <= spent'.sends
    BY <1>1, <1>2, <1>3 DEF StoreFits, Arrives
  <2> QED BY <1>2, <1>7, <2>1, <2>2, <2>3, <2>4 DEF StoreFits
<1>13. SendsApart'
  <2>1. ASSUME NEW i \in 1 .. Len(calls'), NEW j \in 1 .. Len(calls'),
               calls'[i].op = "send", calls'[j].op = "send", calls'[i].send = calls'[j].send
        PROVE  i = j
    <3>1. PICK m \in 1 .. Len(calls), n \in 1 .. Len(calls) :
            m = i + 1 /\ n = j + 1 /\ calls'[i] = calls[m] /\ calls'[j] = calls[n]
      BY <1>2
    <3>2. m = n
      BY <1>3, <2>1, <3>1 DEF SendsApart
    <3> QED BY <3>1, <3>2
  <2>2. ASSUME NEW i \in 1 .. Len(calls'), NEW k \in 1 .. Len(log), calls'[i].op = "send"
        PROVE  log[k].send # calls'[i].send
    BY <1>2, <1>3, <2>2 DEF SendsApart
  <2>3. /\ \A i, j \in 1 .. Len(log) : log[i].send # 0 /\ log[i].send = log[j].send => i = j
        /\ \A i \in 1 .. Len(log) : log[i].send <= spent.sends
    BY <1>3 DEF SendsApart
  <2> QED BY <1>2, <2>1, <2>2, <2>3 DEF SendsApart
<1>14. EntriesAwait'
  <2> SUFFICES ASSUME NEW n \in Nonces, optimistic'[n] # Absent
               PROVE  \E k \in 1 .. Len(calls') : SendOf(calls[k], n)'
    BY DEF EntriesAwait
  <2>1. optimistic'[n] = optimistic[n]
    BY <1>1 DEF Arrives
  <2>2. PICK c \in 1 .. Len(calls) : SendOf(calls[c], n)
    BY <1>3, <2>1 DEF EntriesAwait
  <2>3. c # 1
    BY <1>1, <2>2 DEF SendOf, Arrives
  <2>4. c - 1 \in 1 .. Len(calls') /\ calls'[c - 1] = calls[c]
    BY <1>2, <2>3
  <2>5. SendOf(calls[c - 1], n)'
    BY <2>1, <2>2, <2>4 DEF SendOf
  <2> QED BY <2>4, <2>5
<1>15. EchoFirst'
  BY <1>2 DEF EchoFirst
<1>16. EventsCurrent'
  <2> SUFFICES ASSUME NEW i \in 1 .. Len(wire'), NEW k \in 1 .. Len(log),
                      About(k, wire'[i]), NoneAfter(k, i)'
               PROVE  wire'[i].body = log[k].body
    BY <1>2 DEF EventsCurrent, About
  <2>1. i + 1 \in 1 .. Len(wire) /\ wire'[i] = wire[i + 1] /\ NoneAfter(k, i + 1)
    BY <1>6
  <2> QED BY <1>3, <2>1 DEF EventsCurrent
<1> QED
  BY <1>8, <1>9, <1>10, <1>11, <1>12, <1>13, <1>14, <1>15, <1>16 DEF Sane

\* When no call is under way, no message of an entry has been stamped yet.
LEMMA AnswerSentOnce ==
    ASSUME Sane, ReceiveAnswer
    PROVE  SentOnce'
<1>1. Sane' /\ SendsApart' /\ EntriesAwait'
  BY AnswerTaken DEF Sane
<1>2. \A k \in 1 .. Len(calls') : ~calls'[k].sent
  BY AnswerGone
<1>3. log' = log /\ DOMAIN log = 1 .. Len(log)
  BY AnswerGone, Carried, LenProperties DEF Sane
<1> SUFFICES ASSUME NEW n \in Nonces, optimistic'[n] # Absent, NEW k \in 1 .. Len(log),
                    log[k].send = optimistic'[n].send
             PROVE  FALSE
  BY <1>3 DEF SentOnce
<1>4. PICK c \in 1 .. Len(calls') : SendOf(calls[c], n)'
  BY <1>1 DEF EntriesAwait
<1>5. calls'[c].op = "send" /\ calls'[c].send = log[k].send
  BY <1>4 DEF SendOf
<1> QED BY <1>1, <1>2, <1>3, <1>5 DEF SendsApart

\* What an answer brings is current, and leaves no gap.
LEMMA AnswerFollows ==
    ASSUME Sane, Follows, ReceiveAnswer
    PROVE  Follows'
<1> PICK x, a : x = calls[1] /\ a = wire[1]
  OBVIOUS
<1>1. /\ calls # <<>> /\ wire # <<>> /\ a \in Answer /\ a \notin Event /\ Arrives(x, a)
      /\ 1 \in 1 .. Len(calls) /\ 1 \in 1 .. Len(wire) /\ Awaited(x.op) /\ x.sent
  BY Arriving, Kinds
<1>2. /\ Taken(1)
      /\ \A k \in 1 .. Len(calls') : k + 1 \in 1 .. Len(calls) /\ calls'[k] = calls[k + 1]
      /\ \A k \in 1 .. Len(wire') : wire'[k] \in Event
      /\ \A op : ~Awaited(op)'
      /\ log' = log
  BY AnswerGone
<1>3. /\ Len(wire) \in Nat /\ Len(wire') \in Nat /\ Len(log) \in 0 .. MaxMessages
      /\ \A k \in 1 .. Len(log) : k \in Ids
  BY <1>2, Carried, Kinds DEF Sane, Taken, Ids
<1>4. \A k \in 1 .. Len(wire') : k + 1 \in 1 .. Len(wire) /\ wire'[k] = wire[k + 1]
  BY <1>2, FirstTaken
<1>5. \A m \in 1 .. Len(wire) : m > 1 => m - 1 \in 1 .. Len(wire') /\ wire'[m - 1] = wire[m]
  BY <1>2, FirstTaken
<1>6. \A i, op : ~Reply(i, op)'
  BY <1>2 DEF Reply
<1>7. \A op : Reply(1, op) <=> (a.type = "reply" /\ x.op = op)
  BY <1>1 DEF Reply, Awaited
<1>8. AnswerFits(1) /\ CallFits(x)
  BY <1>1 DEF Sane, WireFits, CallsFit
<1>9. \A k \in 1 .. Len(log) : NoneAfter(k, 0)' => NoneAfter(k, 0) /\ NoneAfter(k, 1)
  <2> SUFFICES ASSUME NEW k \in 1 .. Len(log), NoneAfter(k, 0)'
               PROVE  NoneAfter(k, 0) /\ NoneAfter(k, 1)
    OBVIOUS
  <2>1. NoneAfter(k, 1)
    BY <1>2, FirstTaken
  <2>2. ~About(k, wire[1])
    BY <1>1 DEF About
  <2>3. ASSUME NEW j \in 1 .. Len(wire)
        PROVE  ~About(k, wire[j])
    <3>1. j = 1 \/ j > 1
      BY <1>3
    <3> QED BY <2>1, <2>2, <3>1 DEF NoneAfter
  <2> QED BY <2>1, <2>3 DEF NoneAfter
<1>10. x.op = "send" /\ a.type = "reply" =>
         \E s \in 1 .. Len(log) :
            /\ \A k \in Ids : a.messages[k] = (IF k = s THEN x.body ELSE Absent)
            /\ \A k \in Ids : thread'[k] = IF k = s THEN x.body ELSE thread[k]
            /\ x.body # Absent
  <2> SUFFICES ASSUME x.op = "send", a.type = "reply"
               PROVE  \E s \in 1 .. Len(log) :
                         /\ \A k \in Ids : a.messages[k] = (IF k = s THEN x.body ELSE Absent)
                         /\ \A k \in Ids : thread'[k] = IF k = s THEN x.body ELSE thread[k]
                         /\ x.body # Absent
    OBVIOUS
  <2>1. PICK k \in 1 .. Len(log) : Brings(a, k)
    BY <1>1, <1>8 DEF AnswerFits
  <2>2. PICK s \in Ids : /\ a.messages[s] # Absent
                         /\ \A i \in Ids : thread'[i] = IF i = s THEN x.body ELSE thread[i]
    BY <1>1 DEF Arrives
  <2>3. s = k /\ x.body # Absent
    BY <2>1, <2>2 DEF Brings
  <2> QED BY <2>1, <2>2, <2>3 DEF Brings
<1>11. \A k \in 1 .. Len(log) : Coming(k)' <=>
         \E m \in 1 .. Len(wire) : m > 1 /\ Creates(wire[m]) /\ wire[m].id = k
  <2> SUFFICES ASSUME NEW k \in 1 .. Len(log)
               PROVE  Coming(k)' <=>
                        \E m \in 1 .. Len(wire) : m > 1 /\ Creates(wire[m]) /\ wire[m].id = k
    OBVIOUS
  <2>1. Coming(k)' <=> \E i \in 1 .. Len(wire') : Creates(wire'[i]) /\ wire'[i].id = k
    BY <1>6 DEF Coming, Creates
  <2>2. ASSUME NEW i \in 1 .. Len(wire'), Creates(wire'[i]), wire'[i].id = k
        PROVE  \E m \in 1 .. Len(wire) : m > 1 /\ Creates(wire[m]) /\ wire[m].id = k
    <3>1. i + 1 \in 1 .. Len(wire) /\ wire'[i] = wire[i + 1]
      BY <1>4
    <3>2. i + 1 > 1
      OBVIOUS
    <3> QED BY <2>2, <3>1, <3>2
  <2>3. ASSUME NEW m \in 1 .. Len(wire), m > 1, Creates(wire[m]), wire[m].id = k
        PROVE  \E i \in 1 .. Len(wire') : Creates(wire'[i]) /\ wire'[i].id = k
    BY <1>5, <2>3
  <2> QED BY <2>1, <2>2, <2>3
<1>12. \A k \in 1 .. Len(log) : Coming(k) <=>
         Coming(k)' \/ (x.op = "send" /\ a.type = "reply" /\ a.messages[k] # Absent)
  <2> SUFFICES ASSUME NEW k \in 1 .. Len(log)
               PROVE  Coming(k) <=>
                        Coming(k)' \/ (x.op = "send" /\ a.type = "reply" /\ a.messages[k] # Absent)
    OBVIOUS
  <2>1. \A m \in 1 .. Len(wire) : Reply(m, "send") => m = 1
    BY <1>1 DEF Reply, Sane, OneAnswer
  <2>2. ~Creates(wire[1])
    BY <1>1 DEF Creates
  <2>3. \A m \in 1 .. Len(wire) : Creates(wire[m]) => m > 1
    <3>1. \A m \in 1 .. Len(wire) : m # 1 => m > 1
      BY <1>3
    <3> QED BY <2>2, <3>1
  <2> QED BY <1>1, <1>7, <1>11, <2>1, <2>3 DEF Coming
<1>13. ASSUME ~IsShown(x, a), NEW k \in 1 .. Len(log)
       PROVE  Covered(k)' <=>
                Covered(k) \/ (x.op = "older" /\ a.type = "reply" /\ a.messages[k] # Absent)
  <2>1. CASE x.op = "older" /\ a.type = "reply"
    <3>1. thread'[k] = IF thread[k] = Absent THEN a.messages[k] ELSE thread[k]
      BY <1>1, <1>3, <2>1 DEF Arrives
    <3> QED BY <1>12, <2>1, <3>1 DEF Covered
  <2>2. CASE x.op = "send" /\ a.type = "reply"
    <3>1. thread'[k] # Absent <=> thread[k] # Absent \/ a.messages[k] # Absent
      BY <1>3, <1>10, <2>2
    <3> QED BY <1>12, <2>2, <3>1 DEF Covered
  <2>3. CASE ~(x.op \in {"older", "send"} /\ a.type = "reply")
    <3>1. thread' = thread
      BY <1>1, <1>13, <2>3 DEF Arrives
    <3> QED BY <1>12, <2>3, <3>1 DEF Covered
  <2> QED BY <2>1, <2>2, <2>3
<1>14. AnswerCurrent' /\ OlderReply' /\ HistoryFits'
  BY <1>6 DEF AnswerCurrent, OlderReply, HistoryFits, Counts
<1>15. ThreadCurrent'
  <2> SUFFICES ASSUME hydrated', NEW k \in 1 .. Len(log), thread'[k] # Absent, NoneAfter(k, 0)'
               PROVE  thread'[k] = log[k].body
    BY <1>2 DEF ThreadCurrent
  <2>1. NoneAfter(k, 0) /\ NoneAfter(k, 1) /\ k \in Ids
    BY <1>3, <1>9
  <2>2. ASSUME Counts(1), a.messages[k] # Absent
        PROVE  a.messages[k] = log[k].body
    BY <1>1, <2>1, <2>2 DEF Follows, AnswerCurrent
  <2>3. CASE IsShown(x, a)
    BY <1>1, <1>7, <2>2, <2>3 DEF Arrives, IsShown, Counts
  <2>4. CASE ~IsShown(x, a)
    <3>1. hydrated
      BY <1>1, <2>4 DEF Arrives
    <3>2. thread[k] # Absent => thread[k] = log[k].body
      BY <2>1, <3>1 DEF Follows, ThreadCurrent
    <3>3. CASE x.op = "older" /\ a.type = "reply"
      <4>1. Counts(1)
        BY <1>7, <3>1, <3>3 DEF Counts
      <4>2. thread'[k] = IF thread[k] = Absent THEN a.messages[k] ELSE thread[k]
        BY <1>1, <2>1, <3>3 DEF Arrives
      <4> QED BY <2>2, <3>2, <4>1, <4>2
    <3>4. CASE x.op = "send" /\ a.type = "reply"
      <4>1. Counts(1)
        BY <1>7, <3>1, <3>4 DEF Counts
      <4>2. thread'[k] = a.messages[k] \/ thread'[k] = thread[k]
        BY <1>10, <2>1, <3>4
      <4> QED BY <2>2, <3>2, <4>1, <4>2
    <3>5. CASE ~(x.op \in {"older", "send"} /\ a.type = "reply")
      BY <1>1, <2>4, <3>2, <3>5 DEF Arrives
    <3> QED BY <3>3, <3>4, <3>5
  <2> QED BY <2>3, <2>4
<1>16. NoGap'
  <2>1. CASE IsShown(x, a)
    <3>1. \A k \in 1 .. Len(log) : Covered(k)' <=> PageCovers(1, k)
      BY <1>1, <1>3, <1>11, <2>1 DEF Arrives, Covered, PageCovers
    <3>2. /\ \A j, k \in 1 .. Len(log) : j < k /\ PageCovers(1, j) => PageCovers(1, k)
          /\ log # <<>> => PageCovers(1, Len(log))
      BY <1>1, <1>7, <2>1 DEF Follows, HistoryFits, IsShown
    <3>3. log # <<>> => Len(log) \in 1 .. Len(log)
      BY <1>3, EmptySeq, Carried DEF Sane
    <3> QED BY <1>2, <3>1, <3>2, <3>3 DEF NoGap
  <2>2. CASE ~IsShown(x, a)
    <3> SUFFICES ASSUME hydrated'
                 PROVE  /\ \A j, k \in 1 .. Len(log) : j < k /\ Covered(j)' => Covered(k)'
                        /\ log # <<>> => Covered(Len(log))'
      BY <1>2 DEF NoGap
    <3>1. hydrated
      BY <1>1, <2>2 DEF Arrives
    <3>2. /\ \A j, k \in 1 .. Len(log) : j < k /\ Covered(j) => Covered(k)
          /\ log # <<>> => Covered(Len(log))
      BY <3>1 DEF Follows, NoGap
    <3>3. \A k \in 1 .. Len(log) : Covered(k) => Covered(k)'
      BY <1>13, <2>2
    <3>4. ASSUME NEW j \in 1 .. Len(log), NEW k \in 1 .. Len(log), j < k, Covered(j)'
          PROVE  Covered(k)'
      <4>1. CASE Covered(j)
        BY <3>2, <3>3, <3>4, <4>1
      <4>2. CASE ~Covered(j)
        <5>1. x.op = "older" /\ a.type = "reply" /\ a.messages[j] # Absent
          BY <1>13, <2>2, <3>4, <4>2
        <5>2. a.messages[k] # Absent \/ Covered(k)
          BY <1>1, <1>7, <3>4, <5>1 DEF Follows, OlderReply
        <5> QED BY <1>13, <2>2, <5>1, <5>2
      <4> QED BY <4>1, <4>2
    <3>5. PICK n : n = Len(log) /\ n = Len(log')
      BY <1>2
    <3>6. log # <<>> => n \in 1 .. Len(log)
      <4>1. log # <<>> => Len(log) \in 1 .. Len(log)
        BY <1>3, EmptySeq, Carried DEF Sane
      <4> QED BY <3>5, <4>1, Zenon
    <3>7. log # <<>> => Covered(n)'
      BY <3>2, <3>3, <3>5, <3>6
    <3>8. log # <<>> => Covered(Len(log))'
      BY <3>5, <3>7 DEF Covered, Coming, Creates
    <3> QED BY <3>4, <3>8
  <2> QED BY <2>1, <2>2
<1>17. OlderCalls'
  <2> SUFFICES ASSUME NEW i \in 1 .. Len(calls'), calls'[i].op = "older"
               PROVE  hydrated' /\ \A k \in 1 .. Len(log) : k >= calls'[i].at => Covered(k)'
    BY <1>2 DEF OlderCalls
  <2>1. i + 1 \in 1 .. Len(calls) /\ calls'[i] = calls[i + 1]
    BY <1>2
  <2>2. hydrated /\ \A k \in 1 .. Len(log) : k >= calls'[i].at => Covered(k)
    BY <2>1 DEF Follows, OlderCalls
  <2>3. ~IsShown(x, a)
    BY <1>8, <2>2 DEF CallFits, IsShown
  <2>4. hydrated'
    BY <1>1, <2>2, <2>3 DEF Arrives
  <2> QED BY <1>13, <2>2, <2>3, <2>4
<1> QED BY <1>14, <1>15, <1>16, <1>17 DEF Follows

\* A history that arrives in peace makes up for whatever has spoilt the thread.
LEMMA PeaceFollows ==
    ASSUME Sane, ReceiveAnswer,
           InPeace("history", Head(calls).live
                                /\ Head(wire).messages = Copy(PageBefore(Len(log) + 1)))
    PROVE  Follows'
<1> PICK x, a : x = calls[1] /\ a = wire[1]
  OBVIOUS
<1>1. /\ Arrives(x, a) /\ Head(calls) = x /\ Head(wire) = a
  BY Arriving
<1>2. /\ x.op = "history" /\ a.type = "reply" /\ Len(calls) = 1 /\ Len(wire) = 1 /\ x.live
      /\ a.messages = Copy(PageBefore(Len(log) + 1))
  BY <1>1 DEF InPeace
<1>3. thread' = a.messages
  BY <1>1, <1>2 DEF Arrives, IsShown
<1>4. /\ Taken(1)
      /\ \A k \in 1 .. Len(calls') : k + 1 \in 1 .. Len(calls) /\ calls'[k] = calls[k + 1]
      /\ \A op : ~Awaited(op)' /\ log' = log
  BY AnswerGone
<1>5. \A k \in 1 .. Len(wire') : k + 1 \in 1 .. Len(wire)
  BY <1>4, FirstTaken
<1>6. ~(\E k \in 1 .. Len(wire') : TRUE) /\ ~(\E k \in 1 .. Len(calls') : TRUE)
  BY <1>2, <1>4, <1>5
<1>7. /\ MessagingTypeOK /\ log \in Seq(Message) /\ Len(log) \in 0 .. MaxMessages
      /\ Len(log) + 1 \in Int
  BY Carried, Kinds DEF Sane
<1>8. PICK c, n : c = Copy(PageBefore(n)) /\ n = Len(log) + 1 /\ thread' = c
  BY <1>2, <1>3
<1>9. /\ \A m \in Ids : c[m] # Absent => m \in 1 .. Len(log) /\ c[m] = log[m].body
      /\ \A i, j \in 1 .. Len(log) : i < j /\ j < n /\ c[i] # Absent => c[j] # Absent
      /\ log # <<>> => c[Len(log)] # Absent
  BY <1>7, <1>8, PageCopied
<1>10. \A j \in 1 .. Len(log) : j < n /\ j \in Ids
  BY <1>7, <1>8, Kinds DEF Ids
<1>11. ThreadCurrent'
  BY <1>4, <1>8, <1>9, <1>10 DEF ThreadCurrent
<1>12. \A k : Covered(k)' <=> c[k] # Absent
  BY <1>6, <1>8 DEF Covered, Coming
<1>13. NoGap'
  BY <1>4, <1>9, <1>10, <1>12 DEF NoGap
<1>14. OlderCalls' /\ AnswerCurrent' /\ OlderReply' /\ HistoryFits'
  BY <1>6 DEF OlderCalls, AnswerCurrent, OlderReply, HistoryFits
<1> QED BY <1>11, <1>13, <1>14 DEF Follows

LEMMA ReceiveAnswerKeeps ==
    ASSUME MessagingInv, ReceiveAnswer
    PROVE  MessagingInv'
<1>1. Sane /\ Sane' /\ SentOnce'
  BY AnswerTaken, AnswerSentOnce DEF MessagingInv
<1>2. ASSUME "thread" \notin disturbed'
      PROVE  Follows'
  <2>1. CASE "thread" \notin disturbed
    BY <1>1, <2>1, AnswerFollows DEF MessagingInv, ThreadInv
  <2>2. CASE "thread" \in disturbed
    <3>1. InPeace("history", Head(calls).live
                               /\ Head(wire).messages = Copy(PageBefore(Len(log) + 1)))
      BY <1>2, <2>2 DEF ReceiveAnswer
    <3> QED BY <1>1, <3>1, PeaceFollows
  <2> QED BY <2>1, <2>2
<1> QED BY <1>1, <1>2 DEF MessagingInv, ThreadInv

-----------------------------------------------------------------------------
(* The socket is cut.                                                        *)

LEMMA Surviving ==
    ASSUME MessagingTypeOK, wire' = AnswersOnly(wire)
    PROVE  /\ wire' \in Seq(Event \cup Answer) /\ Len(wire') \in Nat
           /\ \A k \in 1 .. Len(wire') :
                k = 1 /\ \E m \in 1 .. Len(wire) : wire[m] \in Answer /\ wire'[k] = wire[m]
           /\ \A m \in 1 .. Len(wire) : wire[m] \in Answer =>
                \E k \in 1 .. Len(wire') : wire'[k] \in Answer
<1> DEFINE A == {i \in DOMAIN wire : wire[i] \in Answer}
           c == CHOOSE i \in A : TRUE
<1>1. wire \in Seq(Event \cup Answer) /\ Len(wire) \in Nat /\ DOMAIN wire = 1 .. Len(wire)
  BY Carried, LenProperties
<1>2. wire' = IF A = {} THEN <<>> ELSE <<wire[c]>>
  BY DEF AnswersOnly
<1>3. A # {} => c \in A
  OBVIOUS
<1>4. \A m \in A : m \in 1 .. Len(wire) /\ wire[m] \in Answer
  BY <1>1
<1>5. \A m \in 1 .. Len(wire) : wire[m] \in Answer => m \in A
  BY <1>1
<1> HIDE DEF A, c
<1>6. CASE A = {}
  <2>1. wire' = <<>>
    BY <1>2, <1>6
  <2> QED BY <1>5, <1>6, <2>1
<1>7. CASE A # {}
  <2>1. PICK a : a = wire[c] /\ a \in Answer /\ wire' = <<a>> /\ c \in 1 .. Len(wire)
    BY <1>2, <1>3, <1>4, <1>7
  <2>2. Len(<<a>>) = 1 /\ <<a>>[1] = a /\ <<a>> \in Seq(Event \cup Answer)
    BY <2>1
  <2> QED BY <2>1, <2>2
<1> QED BY <1>6, <1>7

LEMMA CutKeeps ==
    ASSUME MessagingInv, Cut
    PROVE  MessagingInv'
<1>1. /\ MessagingTypeOK /\ OneAnswer /\ CallsFit /\ WireFits /\ StoreFits /\ SendsApart
      /\ EntriesAwait /\ EchoFirst /\ EventsCurrent /\ Sane
  BY DEF MessagingInv, Sane
<1>2. /\ online' = FALSE /\ wire' = AnswersOnly(wire) /\ Mishap
      /\ UNCHANGED <<log, lastRead, thread, optimistic, hydrated, badge, pane, calls>>
      /\ MissedUnless(\A i \in DOMAIN wire : wire[i] \in Answer)
  BY DEF Cut
<1>3. /\ wire' \in Seq(Event \cup Answer) /\ Len(wire') \in Nat
      /\ \A k \in 1 .. Len(wire') :
           k = 1 /\ \E m \in 1 .. Len(wire) : wire[m] \in Answer /\ wire'[k] = wire[m]
      /\ \A m \in 1 .. Len(wire) : wire[m] \in Answer =>
           \E k \in 1 .. Len(wire') : wire'[k] \in Answer
  BY <1>1, <1>2, Surviving
<1>4. spent' \in Ceiling /\ spent'.sends = spent.sends
  BY <1>1, <1>2, Counting
<1>5. /\ disturbed \subseteq disturbed' /\ disturbed' \in SUBSET {"thread", "badge"}
      /\ "thread" \notin disturbed' =>
           (\A i \in DOMAIN wire : wire[i] \in Answer) \/ (~hydrated /\ ~HistoryOut)
  <2>1. PICK ok \in BOOLEAN : ok = (\A i \in DOMAIN wire : wire[i] \in Answer)
    OBVIOUS
  <2>2. MissedUnless(ok)
    BY <1>2, <2>1
  <2> QED BY <1>1, <2>1, <2>2, Unmissed
<1>6. \A k \in 1 .. Len(wire') : wire'[k] \in Answer /\ wire'[k] \notin Event
  BY <1>3, Kinds
<1>7. MessagingTypeOK'
  BY <1>1, <1>2, <1>3, <1>4, <1>5 DEF MessagingTypeOK, Ceiling
<1>8. OneAnswer'
  BY <1>1, <1>2, <1>3 DEF OneAnswer
<1>9. \A op : Awaited(op)' <=> Awaited(op)
  BY <1>2 DEF Awaited
<1>10. WireFits'
  <2>1. ASSUME NEW k \in 1 .. Len(wire')
        PROVE  AnswerFits(k)'
    <3>1. PICK m \in 1 .. Len(wire) : wire[m] \in Answer /\ wire'[k] = wire[m]
      BY <1>3
    <3>2. AnswerFits(m)
      BY <1>1, <3>1 DEF WireFits
    <3>3. \A j \in 1 .. Len(wire') : ~Creates(wire'[j])
      BY <1>6 DEF Creates
    <3>4. wire'[k].type = "reply" /\ Awaited("send")' => \E b \in 1 .. Len(log) : Brings(wire[k], b)'
      BY <1>2, <1>9, <3>1, <3>2 DEF AnswerFits, Brings
    <3> QED BY <1>2, <3>1, <3>2, <3>3, <3>4 DEF AnswerFits, Creates
  <2> QED BY <1>6, <2>1 DEF WireFits, Creates
<1>11. CallsFit' /\ StoreFits' /\ SendsApart' /\ EntriesAwait'
  BY <1>1, <1>2, <1>4
     DEF CallsFit, CallFits, StoreFits, SendsApart, EntriesAwait, SendOf
<1>12. EchoFirst' /\ EventsCurrent'
  BY <1>6 DEF EchoFirst, EventsCurrent, About
<1>13. Sane'
  BY <1>7, <1>8, <1>10, <1>11, <1>12 DEF Sane
<1>14. ASSUME "thread" \notin disturbed'
       PROVE  Follows' /\ SentOnce'
  <2>1. Follows /\ SentOnce
    BY <1>5, <1>14 DEF MessagingInv, ThreadInv
  <2>2. SentOnce'
    BY <1>2, <1>5, <1>14, <2>1 DEF SentOnce
  <2>3. CASE ~hydrated /\ ~HistoryOut
    <3>1. \A i \in 1 .. Len(calls) : calls[i].op # "older"
      BY <2>1, <2>3 DEF Follows, OlderCalls
    <3>2. ~Awaited("older") /\ ~Awaited("history")
      <4>1. calls # <<>> => 1 \in 1 .. Len(calls)
        BY <1>1, Carried, EmptySeq
      <4> QED BY <2>3, <3>1, <4>1 DEF Awaited, HistoryOut
    <3>3. \A i : ~Reply(i, "older")' /\ ~Reply(i, "history")'
      BY <1>9, <3>2 DEF Reply
    <3> QED
      BY <1>2, <2>2, <2>3, <3>1, <3>3
         DEF Follows, AnswerCurrent, Counts, ThreadCurrent, NoGap, OlderCalls, OlderReply,
             HistoryFits
  <2>4. CASE \A i \in DOMAIN wire : wire[i] \in Answer
    <3>1. \A i \in 1 .. Len(wire) : wire[i] \in Answer /\ wire[i] \notin Event
      BY <1>1, <2>4, Carried, LenProperties, Kinds
    <3>2. \A k, i : NoneAfter(k, i)
      BY <3>1 DEF NoneAfter, About
    <3>3. ASSUME NEW k \in 1 .. Len(wire')
          PROVE  \E m \in 1 .. Len(wire) :
                   wire'[k] = wire[m] /\ \A op : Reply(k, op)' <=> Reply(m, op)
      BY <1>3, <1>6, <1>9 DEF Reply
    <3>4. ASSUME NEW m \in 1 .. Len(wire)
          PROVE  \E k \in 1 .. Len(wire') :
                   wire'[k] = wire[m] /\ \A op : Reply(k, op)' <=> Reply(m, op)
      <4>1. PICK k \in 1 .. Len(wire') : wire'[k] \in Answer
        BY <1>3, <3>1
      <4>2. PICK i \in 1 .. Len(wire) : wire'[k] = wire[i]
        BY <1>3
      <4>3. i = m
        BY <1>1, <3>1 DEF OneAnswer
      <4> QED BY <1>9, <4>1, <4>2, <4>3 DEF Reply
    <3>5. \A k \in 1 .. Len(log) : Covered(k)' <=> Covered(k)
      <4>1. \A k \in 1 .. Len(log) : Coming(k) <=>
              \E m \in 1 .. Len(wire) : Reply(m, "send") /\ wire[m].messages[k] # Absent
        BY <3>1 DEF Coming, Creates
      <4>2. \A k \in 1 .. Len(log) : Coming(k)' <=>
              \E m \in 1 .. Len(wire') : Reply(m, "send")' /\ wire'[m].messages[k] # Absent
        BY <1>6 DEF Coming, Creates
      <4>3. ASSUME NEW k \in 1 .. Len(log), Coming(k)'
            PROVE  Coming(k)
        BY <3>3, <4>1, <4>2, <4>3
      <4>4. ASSUME NEW k \in 1 .. Len(log), Coming(k)
            PROVE  Coming(k)'
        <5>1. PICK m \in 1 .. Len(wire) : Reply(m, "send") /\ wire[m].messages[k] # Absent
          BY <4>1, <4>4
        <5>2. PICK i \in 1 .. Len(wire') :
                wire'[i] = wire[m] /\ \A op : Reply(i, op)' <=> Reply(m, op)
          BY <3>4
        <5> QED BY <4>2, <5>1, <5>2
      <4>5. \A k \in 1 .. Len(log) : Coming(k)' <=> Coming(k)
        BY <4>3, <4>4
      <4> QED BY <1>2, <4>5 DEF Covered
    <3>6. AnswerCurrent'
      <4> SUFFICES ASSUME NEW i \in 1 .. Len(wire'), NEW k \in 1 .. Len(log), Counts(i)',
                          wire'[i].messages[k] # Absent
                   PROVE  wire'[i].messages[k] = log[k].body
        BY <1>2 DEF AnswerCurrent
      <4>1. PICK m \in 1 .. Len(wire) : wire'[i] = wire[m] /\ \A op : Reply(i, op)' <=> Reply(m, op)
        BY <3>3
      <4>2. Counts(m)
        BY <1>2, <4>1 DEF Counts
      <4> QED BY <2>1, <3>2, <4>1, <4>2 DEF Follows, AnswerCurrent
    <3>7. ThreadCurrent'
      BY <1>2, <2>1, <3>2 DEF Follows, ThreadCurrent
    <3>8. NoGap'
      <4>1. log # <<>> => Len(log) \in 1 .. Len(log)
        BY <1>1, Carried, EmptySeq
      <4>2. PICK n : n = Len(log) /\ n = Len(log')
        BY <1>2
      <4>3. hydrated /\ log # <<>> => Covered(n)'
        BY <2>1, <3>5, <4>1, <4>2 DEF Follows, NoGap
      <4>4. hydrated /\ log # <<>> => Covered(Len(log))'
        BY <4>2, <4>3 DEF Covered, Coming, Creates
      <4>5. hydrated => \A j, k \in 1 .. Len(log) : j < k /\ Covered(j)' => Covered(k)'
        BY <2>1, <3>5 DEF Follows, NoGap
      <4> QED BY <1>2, <4>4, <4>5 DEF NoGap
    <3>9. OlderCalls'
      BY <1>2, <2>1, <3>5 DEF Follows, OlderCalls
    <3>10. OlderReply'
      <4> SUFFICES ASSUME NEW i \in 1 .. Len(wire'), Reply(i, "older")', NEW j \in 1 .. Len(log),
                          NEW k \in 1 .. Len(log), j < k, wire'[i].messages[j] # Absent,
                          wire'[i].messages[k] = Absent
                   PROVE  Covered(k)'
        BY <1>2 DEF OlderReply
      <4>1. PICK m \in 1 .. Len(wire) : wire'[i] = wire[m] /\ \A op : Reply(i, op)' <=> Reply(m, op)
        BY <3>3
      <4>2. Covered(k)
        BY <2>1, <4>1 DEF Follows, OlderReply
      <4> QED BY <3>5, <4>2
    <3>11. HistoryFits'
      <4> SUFFICES ASSUME NEW i \in 1 .. Len(wire'), Reply(i, "history")', calls[1].live
                   PROVE  /\ \A j, k \in 1 .. Len(log) : j < k /\ PageCovers(i, j)' => PageCovers(i, k)'
                          /\ log # <<>> => wire'[i].messages[Len(log)] # Absent
        BY <1>2 DEF HistoryFits, PageCovers
      <4>1. PICK m \in 1 .. Len(wire) : wire'[i] = wire[m] /\ \A op : Reply(i, op)' <=> Reply(m, op)
        BY <3>3
      <4>2. \A k : PageCovers(i, k)' <=> wire[m].messages[k] # Absent
        BY <1>6, <4>1 DEF PageCovers, Creates
      <4>3. \A k : PageCovers(m, k) <=> wire[m].messages[k] # Absent
        BY <3>1 DEF PageCovers, Creates
      <4> QED BY <2>1, <4>1, <4>2, <4>3 DEF Follows, HistoryFits
    <3> QED
      BY <2>2, <3>6, <3>7, <3>8, <3>9, <3>10, <3>11 DEF Follows
  <2> QED BY <1>5, <1>14, <2>3, <2>4
<1> QED BY <1>13, <1>14 DEF MessagingInv, ThreadInv

-----------------------------------------------------------------------------
(* What follows.                                                             *)

LEMMA StutterKeeps ==
    ASSUME MessagingInv, UNCHANGED messagingVars
    PROVE  MessagingInv'
<1>1. /\ log' = log /\ lastRead' = lastRead /\ thread' = thread /\ optimistic' = optimistic
      /\ hydrated' = hydrated /\ badge' = badge /\ pane' = pane /\ online' = online
      /\ calls' = calls /\ wire' = wire /\ spent' = spent /\ disturbed' = disturbed
  BY DEF messagingVars
<1>2. \A op : Awaited(op)' <=> Awaited(op)
  BY <1>1 DEF Awaited
<1>3. /\ MessagingTypeOK' /\ OneAnswer' /\ CallsFit' /\ StoreFits' /\ SendsApart' /\ EntriesAwait'
  <2>1. MessagingTypeOK' /\ StoreFits'
    BY <1>1 DEF MessagingInv, Sane, MessagingTypeOK, StoreFits
  <2>2. OneAnswer' /\ CallsFit'
    BY <1>1 DEF MessagingInv, Sane, OneAnswer, CallsFit, CallFits
  <2>3. SendsApart' /\ EntriesAwait'
    BY <1>1 DEF MessagingInv, Sane, SendsApart, EntriesAwait, SendOf
  <2> QED BY <2>1, <2>2, <2>3
<1>4. WireFits'
  BY <1>1, <1>2 DEF MessagingInv, Sane, WireFits, EventFits, AnswerFits, Brings, Creates
<1>5. EchoFirst' /\ EventsCurrent'
  BY <1>1, <1>2 DEF MessagingInv, Sane, EchoFirst, EventsCurrent, NoneAfter, About
<1>6. \A i, op : Reply(i, op)' <=> Reply(i, op)
  BY <1>1, <1>2 DEF Reply
<1>7. \A k : Covered(k)' <=> Covered(k)
  BY <1>1, <1>6 DEF Covered, Coming, Creates
<1>8. ASSUME Follows
      PROVE  Follows'
  <2>1. AnswerCurrent' /\ ThreadCurrent'
    BY <1>1, <1>6, <1>8 DEF Follows, AnswerCurrent, ThreadCurrent, Counts, NoneAfter, About
  <2>2. NoGap' /\ OlderCalls' /\ OlderReply'
    BY <1>1, <1>6, <1>7, <1>8 DEF Follows, NoGap, OlderCalls, OlderReply
  <2>3. HistoryFits'
    BY <1>1, <1>6, <1>8 DEF Follows, HistoryFits, PageCovers, Creates
  <2> QED BY <2>1, <2>2, <2>3 DEF Follows
<1>9. SentOnce => SentOnce'
  BY <1>1 DEF SentOnce
<1> QED
  BY <1>1, <1>3, <1>4, <1>5, <1>8, <1>9 DEF MessagingInv, Sane, ThreadInv

LEMMA StepKeeps ==
    ASSUME MessagingInv, [MessagingNext]_messagingVars
    PROVE  MessagingInv'
<1>1. CASE OpenThread \/ CloseThread \/ LoadOlder
  BY <1>1, OpenKeeps, CloseKeeps, LoadOlderKeeps
<1>2. CASE Relist \/ TimerFires \/ Connect
  BY <1>2, RequestKeeps
<1>3. CASE \E b \in Bodies : Send(b) \/ OtherPosts(b)
  BY <1>3, SendKeeps, PostKeeps
<1>4. CASE \E i \in DOMAIN log : Delete(i) \/ \E b \in Bodies : Edit(i, b)
  BY <1>4, RewriteKeeps
<1>5. CASE (\E lost \in BOOLEAN : Serve(lost)) \/ Refuse \/ ReadElsewhere
  BY <1>5, ServeKeeps, RefuseKeeps, ReadKeeps
<1>6. CASE (\E i \in DOMAIN wire : ReceiveEvent(i)) \/ ReceiveAnswer
  BY <1>6, ReceiveEventKeeps, ReceiveAnswerKeeps
<1>7. CASE Cut
  BY <1>7, CutKeeps
<1>8. CASE UNCHANGED messagingVars
  BY <1>8, StutterKeeps
<1> QED
  BY <1>1, <1>2, <1>3, <1>4, <1>5, <1>6, <1>7, <1>8 DEF MessagingNext

LEMMA MessagingInvariance == MessagingSpec => []MessagingInv
<1>1. MessagingInv /\ [MessagingNext]_messagingVars => MessagingInv'
  BY StepKeeps
<1> QED BY InitMessaging, <1>1, PTL DEF MessagingSpec

\* The store, the pane, the calls and the wire keep their shape: no queue holds anything
\* but calls and answers, no badge and no thread goes beyond the conversation.
THEOREM MessagingTypes == MessagingSpec => []MessagingTypeOK
<1>1. MessagingInv => MessagingTypeOK
  BY DEF MessagingInv, Sane
<1> QED BY MessagingInvariance, <1>1, PTL

\* A sent message is shown once, whichever of the action's answer and the socket's echo
\* comes first (handleSend and mergeMessage), as long as nothing has spoilt the thread.
THEOREM SentIsShownOnce == MessagingSpec => []SentOnce
<1>1. MessagingInv => SentOnce
  BY DEF MessagingInv, ThreadInv, SentOnce
<1> QED BY MessagingInvariance, <1>1, PTL

LEMMA Settles ==
    ASSUME MessagingInv, Settled, hydrated, log # <<>>, "thread" \notin disturbed
    PROVE  ShowsTheLog
<1>1. /\ wire = <<>> /\ calls = <<>> /\ Len(wire) = 0 /\ Len(calls) = 0
      /\ Follows /\ EntriesAwait /\ StoreFits /\ MessagingTypeOK
  BY DEF Settled, MessagingInv, Sane, ThreadInv
<1>2. /\ log \in Seq(Message) /\ Len(log) \in 0 .. MaxMessages
      /\ DOMAIN log = 1 .. Len(log) /\ Len(log) \in 1 .. Len(log)
  BY <1>1, Carried, EmptySeq, LenProperties
<1>3. \A k, i : NoneAfter(k, i)
  BY <1>1 DEF NoneAfter
<1>4. \A k : Covered(k) <=> thread[k] # Absent
  BY <1>1 DEF Covered, Coming
<1>5. \A k \in 1 .. Len(log) : thread[k] # Absent => thread[k] = log[k].body
  BY <1>1, <1>3 DEF Follows, ThreadCurrent
<1>6. /\ \A j, k \in 1 .. Len(log) : j < k /\ thread[j] # Absent => thread[k] # Absent
      /\ thread[Len(log)] # Absent
  BY <1>1, <1>4 DEF Follows, NoGap
<1>7. \A n \in Nonces : optimistic[n] = Absent
  BY <1>1 DEF EntriesAwait
<1>8. ASSUME NEW i \in 1 .. Len(log)
      PROVE  thread[i] = (IF \E j \in Loaded(thread) : j <= i THEN log[i].body ELSE Absent)
  <2>1. i \in Ids
    BY <1>2, Kinds DEF Ids
  <2>2. CASE \E j \in Loaded(thread) : j <= i
    <3>1. PICK j \in Ids : thread[j] # Absent /\ j <= i
      BY <2>2 DEF Loaded
    <3>2. j \in 1 .. Len(log)
      BY <1>1, <3>1 DEF StoreFits
    <3>3. thread[i] # Absent
      <4>1. j = i \/ j < i
        BY <1>2, <3>1, <3>2
      <4> QED BY <1>6, <3>1, <3>2, <4>1
    <3> QED BY <1>5, <2>2, <3>3
  <2>3. CASE ~ \E j \in Loaded(thread) : j <= i
    <3>1. i <= i
      BY <1>2
    <3>2. i \notin Loaded(thread)
      BY <2>3, <3>1
    <3> QED BY <2>1, <2>3, <3>2 DEF Loaded
  <2> QED BY <2>2, <2>3
<1> QED BY <1>2, <1>6, <1>7, <1>8 DEF ShowsTheLog

\* Once nothing is under way a loaded thread shows the server's newest messages without a
\* gap and without a leftover of the composer, in whatever order the answers to sends and
\* pages and the socket's events came, as long as no disturbance has spoilt it.
THEOREM ThreadIsKeptLive == MessagingSpec => []ThreadConverges
<1>1. MessagingInv => ThreadConverges
  BY Settles DEF ThreadConverges
<1> QED BY MessagingInvariance, <1>1, PTL

-----------------------------------------------------------------------------
(* The badge: until something spoils it, the list's count and what is still  *)
(* to be counted make up the server's.                                       *)

Unread == {k \in 1 .. Len(log) : k > lastRead /\ log[k].by = "other" /\ log[k].body # Gone}

\* The conversations will be listed anew, the thread will be marked as read.
ListComes == \E i \in 1 .. Len(calls) : calls[i].op = "list" /\ ~calls[i].sent

ReadComes == pane.timer \/ \E i \in 1 .. Len(calls) : calls[i].op = "read" /\ ~calls[i].sent

IsRead(m) == m \in Event /\ m.type = "read"

\* What sets the badge to what the server had.
Sets(i) == IsRead(wire[i]) \/ Reply(i, "list")

NoneSetsAfter(i) == \A j \in 1 .. Len(wire) : j > i => ~Sets(j)

Announced(k, i) == \E j \in 1 .. Len(wire) : j > i /\ Creates(wire[j]) /\ wire[j].id = k

\* The messages that are still to be counted.
New(i) == {k \in 1 .. Len(log) : log[k].by = "other" /\ Announced(k, i)}

\* The last that sets the badge leaves it to the events after it.
SetRight ==
    \A i \in 1 .. Len(wire) : Sets(i) /\ NoneSetsAfter(i) =>
        (IF IsRead(wire[i]) THEN 0 ELSE wire[i].unread) + Cardinality(New(i))
            = Cardinality(Unread)

CountsRight ==
    NoneSetsAfter(0) /\ ~ReadComes => badge + Cardinality(New(0)) = Cardinality(Unread)

\* Nobody deletes what is still to be counted and read.
NewStay ==
    \A i \in 1 .. Len(wire) : Creates(wire[i]) /\ wire[i].by = "other" /\ wire[i].id > lastRead =>
        log[wire[i].id].body # Gone

\* A send that was lost has put its message into the thread, or its echo will: the thread
\* is not empty when its copy goes.
LostSend ==
    \A i \in 1 .. Len(wire) : wire[i] \in Answer /\ wire[i].type = "error" /\ Awaited("send") =>
        \E k \in 1 .. Len(log) :
            thread[k] # Absent
              \/ \E j \in 1 .. Len(wire) : j < i /\ Creates(wire[j]) /\ wire[j].id = k

\* An empty history was read before there was anything.
EmptyPage ==
    \A i \in 1 .. Len(wire) :
        Reply(i, "history") /\ (\A k \in Ids : wire[i].messages[k] = Absent) =>
          /\ \A k \in 1 .. Len(log) : Announced(k, i)
          /\ lastRead = 0 \/ \E j \in 1 .. Len(wire) : j > i /\ IsRead(wire[j])

BadgeFollows == LostSend /\ EmptyPage /\ SetRight /\ CountsRight

BadgeInv ==
    "badge" \notin disturbed => NewStay /\ (online /\ ~ListComes => BadgeFollows)

\* The counts are numbers.
LEMMA Numbers ==
    ASSUME MessagingTypeOK
    PROVE  /\ IsFiniteSet(Unread) /\ Cardinality(Unread) \in Nat
           /\ UnreadCount = Cardinality(Unread)
           /\ \A i : IsFiniteSet(New(i)) /\ Cardinality(New(i)) \in Nat
<1>1. Len(log) \in Nat /\ DOMAIN log = 1 .. Len(log)
  BY Carried, LenProperties
<1>2. IsFiniteSet(1 .. Len(log))
  BY <1>1, FS_Interval
<1>3. IsFiniteSet(Unread) /\ \A i : IsFiniteSet(New(i))
  BY <1>2, FS_Subset DEF Unread, New
<1>4. UnreadCount = Cardinality(Unread)
  BY <1>1 DEF UnreadCount, Unread
<1> QED BY <1>3, <1>4, FS_CardinalityType

LEMMA InitBadge == MessagingInit => BadgeInv
BY DEF MessagingInit, BadgeInv, NewStay

\* Without a socket nothing is on the wire that the badge would count.
LEMMA OfflineBadge ==
    ASSUME Sane', ~online'
    PROVE  BadgeInv'
BY DEF Sane, WireFits, EventFits, BadgeInv, NewStay, Creates

-----------------------------------------------------------------------------
\* What the reader does changes nothing on the server or on the wire.
LEMMA LocalBadge ==
    ASSUME Sane, Sane', BadgeInv, UNCHANGED <<log, lastRead, wire, online>>, CallsMore,
           "badge" \notin disturbed' => "badge" \notin disturbed,
           \A k \in Ids : thread[k] # Absent => thread'[k] # Absent,
           ReadComes' \/ (badge' = badge /\ pane'.timer = pane.timer) \/ "badge" \in disturbed'
    PROVE  BadgeInv'
<1> SUFFICES ASSUME "badge" \notin disturbed'
             PROVE  NewStay' /\ (online' /\ ~ListComes' => BadgeFollows')
  BY DEF BadgeInv
<1>1. NewStay /\ (online /\ ~ListComes => BadgeFollows)
  BY DEF BadgeInv
<1>2. /\ \A op : Awaited(op)' <=> Awaited(op)
      /\ Len(calls) \in Nat /\ Len(calls') \in Nat
  BY QueueGrows
<1>3. \A i, op : Reply(i, op)' <=> Reply(i, op)
  BY <1>2 DEF Reply
<1>4. /\ \A i : Sets(i)' <=> Sets(i)
      /\ \A i : NoneSetsAfter(i)' <=> NoneSetsAfter(i)
      /\ \A i, k : Announced(k, i)' <=> Announced(k, i)
  BY <1>3 DEF Sets, NoneSetsAfter, Announced, IsRead, Creates
<1>5. /\ \A i : New(i)' = New(i)
      /\ Unread' = Unread
  BY <1>4 DEF New, Unread
<1>6. \A i \in 1 .. Len(calls) : /\ i \in 1 .. Len(calls') /\ calls'[i].op = calls[i].op
                                /\ calls'[i].sent = calls[i].sent
  BY <1>2 DEF CallsMore, SameCall
<1>7. /\ ListComes => ListComes'
      /\ pane'.timer = pane.timer /\ ReadComes => ReadComes'
  BY <1>6 DEF ListComes, ReadComes
<1>8. NewStay'
  BY <1>1 DEF NewStay, Creates
<1>9. ASSUME online', ~ListComes'  PROVE BadgeFollows'
  <2>1. LostSend /\ EmptyPage /\ SetRight /\ CountsRight
    BY <1>1, <1>7, <1>9 DEF BadgeFollows
  <2>2. LostSend'
    <3>1. \A k \in 1 .. Len(log) : k \in Ids
      BY Carried, Kinds DEF Sane, Ids
    <3> QED BY <2>1, <1>2, <3>1 DEF LostSend, Creates
  <2>3. EmptyPage'
    BY <2>1, <1>3, <1>4 DEF EmptyPage, IsRead
  <2>4. SetRight'
    BY <2>1, <1>4, <1>5 DEF SetRight, IsRead
  <2>5. CountsRight'
    BY <2>1, <1>4, <1>5, <1>7 DEF CountsRight
  <2> QED BY <2>2, <2>3, <2>4, <2>5 DEF BadgeFollows
<1> QED BY <1>8, <1>9

\* What a step of the server leaves of the badge's books: the log grows by what is
\* announced, and what was to be counted still is.
BadgeStep ==
    /\ lastRead' >= lastRead
    /\ \A k \in 1 .. Len(log) : k > lastRead' /\ log[k].by = "other" /\ log[k].body # Gone
         => log'[k].body # Gone
    /\ lastRead' # lastRead => \E j \in 1 .. Len(wire') : j > Len(wire) /\ IsRead(wire'[j])
    /\ \A i \in 1 .. Len(wire') : i > Len(wire) /\ wire'[i] \in Answer =>
         /\ wire'[i].type = "error" /\ Awaited("send")' =>
              \E j \in 1 .. Len(wire') : j < i /\ Creates(wire'[j])
         /\ Reply(i, "history")' /\ (\A k \in Ids : wire'[i].messages[k] = Absent) =>
              Len(log') = 0

Announces(k) ==
    \E j \in 1 .. Len(wire') : j > Len(wire) /\ Creates(wire'[j]) /\ wire'[j].id = k

\* What was under way when the server took a step.
LEMMA StillThere ==
    ASSUME Sane, Sane', NEW e, ServerStep(e)
    PROVE  /\ Len(wire) \in Nat /\ Len(wire') \in Nat /\ Len(wire) <= Len(wire')
           /\ Len(log) \in Nat /\ Len(log') \in {Len(log), Len(log) + 1}
           /\ Len(calls) \in Nat /\ Len(calls') = Len(calls)
           /\ \A i \in 1 .. Len(wire) : wire'[i] = wire[i] /\ i \in 1 .. Len(wire')
           /\ \A i \in 1 .. Len(wire) : wire[i] \in Answer =>
                /\ calls' = calls
                /\ \A op : Reply(i, op)' <=> Reply(i, op)
                /\ \A op : Awaited(op)' <=> Awaited(op)
           /\ \A i \in 1 .. Len(wire') : i > Len(wire) /\ Creates(wire'[i]) =>
                wire'[i] = e /\ e.type = "created" /\ e.id = Len(log) + 1
           /\ \A k \in 1 .. Len(log) : k \in 1 .. Len(log') /\ log'[k].by = log[k].by
           /\ \A k : \A i \in Nat : i <= Len(wire) =>
                (Announced(k, i)' <=> Announced(k, i) \/ Announces(k))
           /\ \A k : Announces(k) => k = Len(log) + 1 /\ k = e.id
           /\ lastRead \in 0 .. Len(log) /\ lastRead' \in 0 .. Len(log')
<1>1. /\ Len(wire) \in Nat /\ Len(wire') \in Nat /\ Len(log) \in Nat /\ Len(calls) \in Nat
      /\ lastRead \in 0 .. Len(log) /\ lastRead' \in 0 .. Len(log')
  BY Carried, LenProperties DEF Sane, MessagingTypeOK
<1>2. /\ Len(wire) <= Len(wire') /\ Len(log') \in {Len(log), Len(log) + 1}
      /\ Len(calls') = Len(calls)
      /\ \A i \in 1 .. Len(wire) : wire'[i] = wire[i]
      /\ AnswerIsOut => calls' = calls
  BY DEF ServerStep
<1>3. \A i \in 1 .. Len(wire) : i \in 1 .. Len(wire')
  BY <1>1, <1>2
<1>4. ASSUME NEW i \in 1 .. Len(wire), wire[i] \in Answer
      PROVE  /\ calls' = calls
             /\ \A op : Reply(i, op)' <=> Reply(i, op)
             /\ \A op : Awaited(op)' <=> Awaited(op)
  BY <1>2, <1>4 DEF AnswerIsOut, Reply, Awaited
<1>5. ASSUME NEW i \in 1 .. Len(wire'), i > Len(wire), Creates(wire'[i])
      PROVE  wire'[i] = e /\ e.type = "created" /\ e.id = Len(log) + 1
  BY <1>5 DEF Creates, ServerStep, Concerns
<1>6. \A k \in 1 .. Len(log) : k \in 1 .. Len(log') /\ log'[k].by = log[k].by
  BY <1>1, <1>2 DEF ServerStep, Concerns
<1>7. \A k : Announces(k) => k = Len(log) + 1 /\ k = e.id
  BY <1>5 DEF Announces
<1>8. ASSUME NEW k, NEW i \in Nat, i <= Len(wire)
      PROVE  Announced(k, i)' <=> Announced(k, i) \/ Announces(k)
  <2>1. ASSUME Announced(k, i)'  PROVE Announced(k, i) \/ Announces(k)
    <3>1. PICK j \in 1 .. Len(wire') : j > i /\ Creates(wire'[j]) /\ wire'[j].id = k
      BY <2>1 DEF Announced, Creates
    <3>2. CASE j > Len(wire)
      BY <3>1, <3>2 DEF Announces
    <3>3. CASE j \in 1 .. Len(wire)
      BY <1>2, <3>1, <3>3 DEF Announced
    <3> QED BY <1>1, <3>1, <3>2, <3>3
  <2>2. ASSUME Announced(k, i)  PROVE Announced(k, i)'
    BY <1>2, <1>3, <2>2 DEF Announced, Creates
  <2>3. ASSUME Announces(k)  PROVE Announced(k, i)'
    <3>1. PICK j \in 1 .. Len(wire') : j > Len(wire) /\ Creates(wire'[j]) /\ wire'[j].id = k
      BY <2>3 DEF Announces
    <3>2. j > i
      BY <1>1, <1>8, <3>1
    <3> QED BY <3>1, <3>2 DEF Announced, Creates
  <2> QED BY <2>1, <2>2, <2>3
<1> QED BY <1>1, <1>2, <1>3, <1>4, <1>5, <1>6, <1>7, <1>8

LEMMA ServerParts ==
    ASSUME Sane, Sane', BadgeInv, "badge" \notin disturbed, online, NEW e, ServerStep(e),
           BadgeStep
    PROVE  /\ NewStay'
           /\ ~ListComes' => LostSend' /\ EmptyPage'
<1>1. NewStay /\ (~ListComes => BadgeFollows)
  BY DEF BadgeInv
<1>2. /\ Len(wire) \in Nat /\ Len(wire') \in Nat /\ Len(wire) <= Len(wire')
      /\ Len(log) \in Nat /\ Len(log') \in {Len(log), Len(log) + 1}
      /\ \A i \in 1 .. Len(wire) : wire'[i] = wire[i] /\ i \in 1 .. Len(wire')
      /\ \A i \in 1 .. Len(wire') : i > Len(wire) /\ Creates(wire'[i]) =>
           wire'[i] = e /\ e.type = "created" /\ e.id = Len(log) + 1
      /\ \A k \in 1 .. Len(log) : k \in 1 .. Len(log') /\ log'[k].by = log[k].by
      /\ lastRead \in 0 .. Len(log) /\ lastRead' \in 0 .. Len(log')
  BY StillThere
<1>3. \A i \in 1 .. Len(wire) : wire[i] \in Answer =>
        /\ calls' = calls
        /\ \A op : Reply(i, op)' <=> Reply(i, op)
        /\ \A op : Awaited(op)' <=> Awaited(op)
  BY StillThere
<1>4. \A k : \A i \in Nat : i <= Len(wire) => (Announced(k, i)' <=> Announced(k, i) \/ Announces(k))
  BY StillThere
<1>5. NewStay'
  <2> SUFFICES ASSUME NEW i \in 1 .. Len(wire'), Creates(wire'[i]), wire'[i].by = "other",
                      wire'[i].id > lastRead'
               PROVE  log'[wire'[i].id].body # Gone
    BY DEF NewStay, Creates
  <2>1. CASE i \in 1 .. Len(wire)
    <3>1. wire'[i] = wire[i] /\ EventFits(wire[i]) /\ Creates(wire[i]) /\ wire[i] \in Event
      BY <1>2, <2>1 DEF Sane, WireFits, Creates
    <3>2. wire[i].id \in 1 .. Len(log) /\ log[wire[i].id].by = "other"
      BY <3>1 DEF EventFits, Creates
    <3>3. wire[i].id > lastRead
      BY <1>2, <3>1, <3>2 DEF BadgeStep
    <3> QED BY <1>1, <3>1, <3>2, <3>3, <2>1 DEF NewStay, BadgeStep
  <2>2. CASE i > Len(wire)
    <3>1. e.type = "created" /\ wire'[i] = e
      BY <1>2, <2>2
    <3> QED BY <3>1, Kinds DEF ServerStep, Concerns
  <2> QED BY <1>2, <2>1, <2>2
<1>6. ASSUME ~ListComes'  PROVE LostSend'
  <2> SUFFICES ASSUME NEW i \in 1 .. Len(wire'), wire'[i] \in Answer, wire'[i].type = "error",
                      Awaited("send")'
               PROVE  \E k \in 1 .. Len(log') :
                        thread'[k] # Absent
                          \/ \E j \in 1 .. Len(wire') : j < i /\ Creates(wire'[j]) /\ wire'[j].id = k
    BY DEF LostSend, Creates
  <2>1. CASE i \in 1 .. Len(wire)
    <3>1. wire[i] = wire'[i] /\ Awaited("send") /\ calls' = calls
      BY <1>2, <1>3, <2>1
    <3>2. LostSend
      BY <1>1, <1>6, <3>1 DEF ListComes, BadgeFollows
    <3>3. PICK k \in 1 .. Len(log) :
            thread[k] # Absent
              \/ \E j \in 1 .. Len(wire) : j < i /\ Creates(wire[j]) /\ wire[j].id = k
      BY <2>1, <3>1, <3>2 DEF LostSend
    <3> QED BY <1>2, <3>3 DEF ServerStep
  <2>2. CASE i > Len(wire)
    <3>1. PICK j \in 1 .. Len(wire') : j < i /\ Creates(wire'[j])
      BY <2>2 DEF BadgeStep
    <3>2. wire'[j].id \in 1 .. Len(log')
      BY <3>1 DEF Sane, WireFits, EventFits, Creates
    <3> QED BY <3>1, <3>2
  <2> QED BY <1>2, <2>1, <2>2
<1>7. ASSUME ~ListComes'  PROVE EmptyPage'
  <2> SUFFICES ASSUME NEW i \in 1 .. Len(wire'), Reply(i, "history")',
                      \A k \in Ids : wire'[i].messages[k] = Absent
               PROVE  /\ \A k \in 1 .. Len(log') : Announced(k, i)'
                      /\ lastRead' = 0 \/ \E j \in 1 .. Len(wire') : j > i /\ IsRead(wire'[j])
    BY DEF EmptyPage, IsRead
  <2>1. CASE i \in 1 .. Len(wire)
    <3>1. wire[i] = wire'[i] /\ Reply(i, "history") /\ calls' = calls
      BY <1>2, <1>3, <2>1 DEF Reply
    <3>2. /\ \A k \in 1 .. Len(log) : Announced(k, i)
          /\ lastRead = 0 \/ \E j \in 1 .. Len(wire) : j > i /\ IsRead(wire[j])
      BY <1>1, <1>7, <2>1, <3>1 DEF ListComes, BadgeFollows, EmptyPage
    <3>3. ASSUME NEW k \in 1 .. Len(log')  PROVE Announced(k, i)'
      <4>1. CASE k \in 1 .. Len(log)
        BY <1>2, <1>4, <2>1, <3>2, <4>1
      <4>2. CASE k = Len(log) + 1 /\ Len(log') = Len(log) + 1
        <5>1. e.type = "created" /\ e.id = k /\ e \in Event
          BY <1>2, <4>2 DEF ServerStep, Concerns
        <5>2. Announces(k)
          BY <5>1 DEF ServerStep, Announces, Creates
        <5> QED BY <1>2, <1>4, <2>1, <5>2
      <4> QED BY <1>2, <4>1, <4>2
    <3>4. lastRead' = 0 \/ \E j \in 1 .. Len(wire') : j > i /\ IsRead(wire'[j])
      BY <1>2, <2>1, <3>2 DEF BadgeStep
    <3> QED BY <3>3, <3>4
  <2>2. CASE i > Len(wire)
    <3>1. Len(log') = 0
      BY <2>2 DEF BadgeStep, Reply
    <3> QED BY <1>2, <3>1
  <2> QED BY <1>2, <2>1, <2>2
<1> QED BY <1>5, <1>6, <1>7

\* Adding to what is to be counted.
LEMMA OneMore ==
    ASSUME NEW S, IsFiniteSet(S), NEW x, x \notin S
    PROVE  Cardinality(S \cup {x}) = Cardinality(S) + 1
BY FS_AddElement

\* A step of the server after which no message is unread that was not, and none is to be
\* counted.
LEMMA QuietCounts ==
    ASSUME Sane, Sane', BadgeInv, "badge" \notin disturbed, online, NEW e, ServerStep(e),
           ListComes => ListComes', ReadComes => ReadComes', Unread' = Unread,
           e.type = "created" => e.by = "me",
           \A i \in 1 .. Len(wire') : i > Len(wire) => ~Sets(i)'
    PROVE  ~ListComes' => SetRight' /\ CountsRight'
<1> SUFFICES ASSUME ~ListComes'
             PROVE  SetRight' /\ CountsRight'
  OBVIOUS
<1>1. SetRight /\ CountsRight
  BY DEF BadgeInv, BadgeFollows
<1>2. /\ Len(wire) \in Nat /\ Len(wire') \in Nat /\ Len(wire) <= Len(wire')
      /\ Len(log) \in Nat /\ Len(log') \in {Len(log), Len(log) + 1}
      /\ \A i \in 1 .. Len(wire) : wire'[i] = wire[i] /\ i \in 1 .. Len(wire')
      /\ \A k \in 1 .. Len(log) : k \in 1 .. Len(log') /\ log'[k].by = log[k].by
      /\ \A k : Announces(k) => k = Len(log) + 1 /\ k = e.id
  BY StillThere
<1>3. \A i \in 1 .. Len(wire) : wire[i] \in Answer =>
        \A op : Reply(i, op)' <=> Reply(i, op)
  BY StillThere
<1>4. \A k : \A i \in Nat : i <= Len(wire) => (Announced(k, i)' <=> Announced(k, i) \/ Announces(k))
  BY StillThere
<1>5. \A i \in 1 .. Len(wire) : Sets(i)' <=> Sets(i)
  BY <1>2, <1>3 DEF Sets, IsRead, Reply
<1>6. \A i \in Nat : NoneSetsAfter(i)' => NoneSetsAfter(i)
  BY <1>2, <1>5 DEF NoneSetsAfter
<1>7. ASSUME NEW k, Announces(k)  PROVE k \in 1 .. Len(log') /\ log'[k].by = "me"
  <2>1. PICK j \in 1 .. Len(wire') : j > Len(wire) /\ Creates(wire'[j]) /\ wire'[j].id = k
    BY <1>7 DEF Announces
  <2>2. wire'[j] = e /\ e.type = "created"
    BY <2>1, StillThere
  <2> QED BY <1>2, <2>1, <2>2 DEF ServerStep, Concerns
<1>8. ASSUME NEW i \in Nat, i <= Len(wire)  PROVE New(i)' = New(i)
  <2>1. ASSUME NEW k \in New(i)  PROVE k \in New(i)'
    BY <1>2, <1>4, <1>8, <2>1 DEF New
  <2>2. ASSUME NEW k \in New(i)'  PROVE k \in New(i)
    <3>1. k \in 1 .. Len(log') /\ log'[k].by = "other" /\ Announced(k, i)'
      BY <2>2 DEF New
    <3>2. ~Announces(k)
      BY <1>7, <3>1
    <3>3. Announced(k, i)
      BY <1>4, <1>8, <3>1, <3>2
    <3>4. k \in 1 .. Len(log)
      BY <3>3 DEF Announced, Sane, WireFits, EventFits, Creates
    <3> QED BY <1>2, <3>1, <3>3, <3>4 DEF New
  <2> QED BY <2>1, <2>2
<1>9. SetRight'
  BY <1>1, <1>2, <1>5, <1>6, <1>8 DEF SetRight, IsRead
<1>10. CountsRight'
  <2>1. 0 \in Nat /\ 0 <= Len(wire)
    BY <1>2
  <2>2. badge' = badge
    BY DEF ServerStep
  <2> QED BY <1>1, <1>6, <1>8, <2>1, <2>2 DEF CountsRight
<1> QED BY <1>9, <1>10

\* Somebody else's message is announced: one more is unread, and one more to be counted.
LEMMA PostCounts ==
    ASSUME Sane, Sane', BadgeInv, "badge" \notin disturbed, online, NEW e, ServerStep(e),
           UNCHANGED <<calls, lastRead>>, e.type = "created", e.by = "other",
           \A i \in 1 .. Len(wire') : i > Len(wire) => wire'[i] = e
    PROVE  ~ListComes' => SetRight' /\ CountsRight'
<1> SUFFICES ASSUME ~ListComes'
             PROVE  SetRight' /\ CountsRight'
  OBVIOUS
<1>1. SetRight /\ CountsRight
  BY DEF BadgeInv, BadgeFollows, ListComes
<1>2. /\ Len(wire) \in Nat /\ Len(wire') \in Nat /\ Len(wire) <= Len(wire')
      /\ Len(log) \in Nat
      /\ \A i \in 1 .. Len(wire) : wire'[i] = wire[i] /\ i \in 1 .. Len(wire')
      /\ \A k \in 1 .. Len(log) : k \in 1 .. Len(log') /\ log'[k].by = log[k].by
      /\ \A k : Announces(k) => k = Len(log) + 1 /\ k = e.id
      /\ lastRead \in 0 .. Len(log)
  BY StillThere
<1>3. \A i \in 1 .. Len(wire) : wire[i] \in Answer =>
        \A op : Reply(i, op)' <=> Reply(i, op)
  BY StillThere
<1>4. \A k : \A i \in Nat : i <= Len(wire) => (Announced(k, i)' <=> Announced(k, i) \/ Announces(k))
  BY StillThere
<1>5. /\ e \in Event /\ Len(log') = Len(log) + 1 /\ e.id = Len(log) + 1
      /\ log'[Len(log) + 1].by = "other" /\ log'[Len(log) + 1].body = e.body
      /\ e.body # Gone /\ \A k \in 1 .. Len(log) : log'[k] = log[k]
      /\ Len(log) + 1 \in 1 .. Len(log')
  BY <1>2, Kinds DEF ServerStep, Concerns
<1>6. Announces(Len(log) + 1)
  BY <1>5 DEF ServerStep, Announces, Creates
<1>7. \A i \in 1 .. Len(wire') : i > Len(wire) => ~Sets(i)'
  BY <1>5, Kinds DEF Sets, IsRead, Reply
<1>8. \A i \in 1 .. Len(wire) : Sets(i)' <=> Sets(i)
  BY <1>2, <1>3 DEF Sets, IsRead, Reply
<1>9. \A i \in Nat : NoneSetsAfter(i)' => NoneSetsAfter(i)
  BY <1>2, <1>8 DEF NoneSetsAfter
<1>10. ASSUME NEW k, NEW i, Announced(k, i)  PROVE k \in 1 .. Len(log)
  BY <1>10 DEF Announced, Sane, WireFits, EventFits, Creates
<1>11. ASSUME NEW i \in Nat, i <= Len(wire)
       PROVE  Cardinality(New(i)') = Cardinality(New(i)) + 1
  <2>1. New(i)' = New(i) \cup {Len(log) + 1}
    <3>1. ASSUME NEW k \in New(i)'  PROVE k \in New(i) \cup {Len(log) + 1}
      BY <1>2, <1>4, <1>5, <1>10, <1>11, <3>1 DEF New
    <3>2. New(i) \subseteq New(i)'
      BY <1>2, <1>4, <1>11 DEF New
    <3>3. Len(log) + 1 \in New(i)'
      BY <1>4, <1>5, <1>6, <1>11 DEF New
    <3> QED BY <3>1, <3>2, <3>3
  <2>2. IsFiniteSet(New(i)) /\ Len(log) + 1 \notin New(i)
    <3>1. IsFiniteSet(New(i))
      BY Numbers DEF Sane
    <3>2. Len(log) + 1 \notin New(i)
      BY <1>2 DEF New
    <3> QED BY <3>1, <3>2
  <2> QED BY <2>1, <2>2, OneMore
<1>12. Cardinality(Unread') = Cardinality(Unread) + 1
  <2>1. Unread' = Unread \cup {Len(log) + 1}
    <3>1. \A k \in 1 .. Len(log') : k \in 1 .. Len(log) \/ k = Len(log) + 1
      BY <1>2, <1>5
    <3>2. Len(log) + 1 > lastRead
      BY <1>2
    <3> QED BY <1>2, <1>5, <3>1, <3>2 DEF Unread
  <2>2. IsFiniteSet(Unread) /\ Len(log) + 1 \notin Unread
    BY <1>2, Numbers DEF Unread, Sane
  <2> QED BY <2>1, <2>2, OneMore
<1>13. /\ Cardinality(Unread) \in Nat /\ badge \in Nat /\ badge' = badge
       /\ \A i : Cardinality(New(i)) \in Nat
       /\ \A i \in 1 .. Len(wire) : wire[i] \in Answer => wire[i].unread \in Nat
  BY Numbers, Kinds DEF Sane, MessagingTypeOK, ServerStep
<1>14. SetRight'
  <2> SUFFICES ASSUME NEW i \in 1 .. Len(wire'), Sets(i)', NoneSetsAfter(i)'
               PROVE  (IF IsRead(wire'[i]) THEN 0 ELSE wire'[i].unread) + Cardinality(New(i)')
                         = Cardinality(Unread')
    BY DEF SetRight, IsRead
  <2>1. i \in 1 .. Len(wire)
    BY <1>2, <1>7
  <2>2. /\ wire'[i] = wire[i] /\ Sets(i) /\ NoneSetsAfter(i)
        /\ Cardinality(New(i)') = Cardinality(New(i)) + 1
    BY <1>2, <1>8, <1>9, <1>11, <2>1
  <2>3. (IF IsRead(wire[i]) THEN 0 ELSE wire[i].unread) + Cardinality(New(i)) = Cardinality(Unread)
    BY <1>1, <2>1, <2>2 DEF SetRight
  <2>4. ~IsRead(wire[i]) => wire[i].unread \in Nat
    BY <1>13, <2>1, <2>2 DEF Sets, Reply
  <2> QED BY <1>12, <1>13, <2>2, <2>3, <2>4
<1>15. CountsRight'
  <2>1. ReadComes => ReadComes'
    BY DEF ReadComes, ServerStep
  <2>2. Cardinality(New(0)') = Cardinality(New(0)) + 1
    BY <1>2, <1>11
  <2> QED BY <1>1, <1>9, <1>12, <1>13, <2>1, <2>2 DEF CountsRight
<1> QED BY <1>14, <1>15

\* The server says what the badge should be.
LEMMA SetCounts ==
    ASSUME Sane', NEW i \in 1 .. Len(wire'), Sets(i)',
           (IF IsRead(wire'[i]) THEN 0 ELSE wire'[i].unread) = Cardinality(Unread'),
           \A j \in 1 .. Len(wire') : j > i => ~Sets(j)' /\ ~Creates(wire'[j])
    PROVE  SetRight' /\ CountsRight'
<1>1. Len(wire') \in Nat
  BY Carried, LenProperties DEF Sane, MessagingTypeOK
<1>2. New(i)' = {}
  BY DEF New, Announced, Creates
<1>3. Cardinality(New(i)') = 0 /\ Cardinality(Unread') \in Nat
  <2>1. Cardinality(Unread') \in Nat
    <3>1. wire' \in Seq(Event \cup Answer)
      BY DEF Sane, MessagingTypeOK
    <3>2. wire'[i] \in Event \cup Answer
      BY <3>1, LenProperties
    <3>3. IsRead(wire'[i]) \/ wire'[i] \in Answer
      BY DEF Sets, Reply
    <3>4. MaxMessages \in Nat /\ (wire'[i] \in Answer => wire'[i].unread \in 0 .. MaxMessages)
      BY Kinds
    <3> QED BY <3>3, <3>4
  <2> QED BY <1>2, <2>1, FS_EmptySet
<1>4. SetRight'
  <2> SUFFICES ASSUME NEW m \in 1 .. Len(wire'), Sets(m)', NoneSetsAfter(m)'
               PROVE  (IF IsRead(wire'[m]) THEN 0 ELSE wire'[m].unread) + Cardinality(New(m)')
                         = Cardinality(Unread')
    BY DEF SetRight, IsRead
  <2>1. ~(m < i) /\ ~(i < m)
    BY <1>1 DEF NoneSetsAfter
  <2>2. m = i
    BY <1>1, <2>1
  <2> QED BY <1>3, <2>2
<1>5. ~NoneSetsAfter(0)'
  BY <1>1 DEF NoneSetsAfter
<1> QED BY <1>4, <1>5 DEF CountsRight

-----------------------------------------------------------------------------
\* The server's steps.
LEMMA ServerBadge ==
    ASSUME Sane, Sane', BadgeInv, "badge" \notin disturbed, online, NEW e, ServerStep(e),
           BadgeStep, ~ListComes' => SetRight' /\ CountsRight'
    PROVE  BadgeInv'
BY ServerParts DEF BadgeInv, BadgeFollows

LEMMA PostBadge ==
    ASSUME Sane, Sane', BadgeInv, NEW b \in Bodies, OtherPosts(b)
    PROVE  BadgeInv'
<1>1. PICK e : Announcement(e) /\ e.type = "created" /\ e.by = "other"
  BY PostAnnounces
<1>2. /\ ServerStep(e) /\ e \in Event /\ e \notin Answer
      /\ \A i \in 1 .. Len(wire') : i > Len(wire) => wire'[i] = e
  BY <1>1, AnnounceStep
<1>3. lastRead' = lastRead /\ calls' = calls /\ online' = online /\ lastRead \in Nat
  <2>1. lastRead \in 0 .. Len(log)
    BY DEF Sane, MessagingTypeOK
  <2> QED BY <2>1 DEF OtherPosts
<1>4. CASE "badge" \in disturbed' \/ ~online
  BY <1>3, <1>4, OfflineBadge DEF BadgeInv
<1>5. CASE "badge" \notin disturbed' /\ online
  <2>1. "badge" \notin disturbed
    BY <1>1, <1>5 DEF Announcement
  <2>2. \A k \in 1 .. Len(log) : log'[k] = log[k]
    BY <1>1 DEF Announcement, Concerns
  <2>3. BadgeStep
    BY <1>2, <1>3, <2>2 DEF BadgeStep, Reply
  <2>4. ~ListComes' => SetRight' /\ CountsRight'
    BY <1>1, <1>2, <1>3, <1>5, <2>1, PostCounts
  <2> QED BY <1>2, <1>5, <2>1, <2>3, <2>4, ServerBadge
<1> QED BY <1>4, <1>5

LEMMA RewriteBadge ==
    ASSUME Sane, Sane', BadgeInv, NEW i \in DOMAIN log,
           Delete(i) \/ \E b \in Bodies : Edit(i, b)
    PROVE  BadgeInv'
<1>1. PICK e : /\ Announcement(e) /\ e.type \in {"updated", "deleted"}
               /\ \A k \in 1 .. Len(log) : k # i => log'[k] = log[k]
               /\ log'[i].by = log[i].by /\ Len(log') = Len(log)
               /\ log'[i].body = Gone => Delete(i)
  <2>1. CASE Delete(i)
    BY <2>1, DeleteAnnounces
  <2>2. CASE \E b \in Bodies : Edit(i, b)
    <3>1. PICK b \in Bodies : Edit(i, b)
      BY <2>2
    <3>2. b # Gone
      BY Kinds
    <3> QED BY <3>1, <3>2, EditAnnounces
  <2> QED BY <2>1, <2>2
<1>2. /\ ServerStep(e) /\ e \in Event /\ e \notin Answer
      /\ \A j \in 1 .. Len(wire') : j > Len(wire) => wire'[j] = e
  BY <1>1, AnnounceStep
<1>3. /\ lastRead' = lastRead /\ calls' = calls /\ online' = online /\ pane' = pane
      /\ log[i].body # Gone
  BY DEF Delete, Edit
<1>4. lastRead \in Nat /\ i \in 1 .. Len(log)
  <2>1. lastRead \in 0 .. Len(log) /\ DOMAIN log = 1 .. Len(log)
    BY LenProperties DEF Sane, MessagingTypeOK
  <2> QED BY <2>1
<1>5. CASE "badge" \in disturbed' \/ ~online
  BY <1>3, <1>5, OfflineBadge DEF BadgeInv
<1>6. CASE "badge" \notin disturbed' /\ online
  <2>1. "badge" \notin disturbed
    BY <1>1, <1>6 DEF Announcement
  <2>2. log'[i].body = Gone => ~(i > lastRead /\ log[i].by = "other")
    BY <1>1, <1>6 DEF Delete
  <2>3. BadgeStep
    <3>1. \A k \in 1 .. Len(log) : k > lastRead /\ log[k].by = "other" /\ log[k].body # Gone
            => log'[k].body # Gone
      BY <1>1, <2>2
    <3> QED BY <1>2, <1>3, <1>4, <3>1 DEF BadgeStep, Reply
  <2>4. Unread' = Unread
    BY <1>1, <1>3, <1>4, <2>2 DEF Unread
  <2>5. (ListComes => ListComes') /\ (ReadComes => ReadComes')
    BY <1>3 DEF ListComes, ReadComes
  <2>6. \A j \in 1 .. Len(wire') : j > Len(wire) => ~Sets(j)'
    BY <1>1, <1>2 DEF Sets, IsRead, Reply
  <2>7. ~ListComes' => SetRight' /\ CountsRight'
    BY <1>1, <1>2, <1>6, <2>1, <2>4, <2>5, <2>6, QuietCounts
  <2> QED BY <1>2, <1>6, <2>1, <2>3, <2>7, ServerBadge
<1> QED BY <1>5, <1>6

\* Once all is read nothing is unread.
LEMMA AllRead ==
    ASSUME Sane, lastRead' = Len(log), log' = log
    PROVE  Cardinality(Unread') = 0 /\ lastRead \in 0 .. Len(log) /\ Len(log) \in Nat
<1>1. Len(log) \in Nat /\ lastRead \in 0 .. Len(log)
  BY Carried DEF Sane, MessagingTypeOK
<1>2. Unread' = {}
  BY <1>1 DEF Unread
<1> QED BY <1>1, <1>2, FS_EmptySet

LEMMA ReadBadge ==
    ASSUME Sane, Sane', BadgeInv, ReadElsewhere
    PROVE  BadgeInv'
<1>1. PICK e : Announcement(e) /\ e.type = "read"
  BY ReadAnnounces
<1>2. /\ ServerStep(e) /\ e \in Event /\ e \notin Answer
      /\ Len(wire) \in Nat /\ Len(wire') \in Nat
      /\ \A i \in 1 .. Len(wire') : i > Len(wire) =>
           wire'[i] = e /\ i = Len(wire) + 1 /\ i = Len(wire')
      /\ online => Len(wire) + 1 \in 1 .. Len(wire') /\ wire'[Len(wire) + 1] = e
  BY <1>1, AnnounceStep
<1>3. lastRead' = Len(log) /\ log' = log /\ online' = online /\ disturbed' = disturbed
  BY DEF ReadElsewhere
<1>4. Cardinality(Unread') = 0 /\ lastRead \in 0 .. Len(log) /\ Len(log) \in Nat
  BY <1>3, AllRead
<1>5. CASE "badge" \in disturbed \/ ~online
  BY <1>3, <1>5, OfflineBadge DEF BadgeInv
<1>6. CASE "badge" \notin disturbed /\ online
  <2>1. PICK i \in 1 .. Len(wire') : i = Len(wire) + 1 /\ wire'[i] = e /\ i = Len(wire') /\ i > Len(wire)
    BY <1>2, <1>6
  <2>2. IsRead(wire'[i])
    BY <1>1, <1>2, <2>1 DEF IsRead
  <2>3. BadgeStep
    BY <1>2, <1>3, <1>4, <2>1, <2>2 DEF BadgeStep, Reply
  <2>4. SetRight' /\ CountsRight'
    <3>1. Sets(i)'
      BY <2>2 DEF Sets, IsRead
    <3>2. \A j \in 1 .. Len(wire') : ~(j > i)
      BY <1>2, <2>1
    <3> QED BY <1>4, <2>2, <3>1, <3>2, SetCounts
  <2> QED BY <1>2, <1>6, <2>3, <2>4, ServerBadge
<1> QED BY <1>5, <1>6

LEMMA RefuseBadge == ASSUME Refuse PROVE BadgeInv'
BY DEF Refuse, Disturb, BadgeInv

LEMMA ServeBadge ==
    ASSUME Sane, Sane', BadgeInv, NEW lost \in BOOLEAN, Serve(lost)
    PROVE  BadgeInv'
<1>1. PICK e, a, s :
        /\ Answering(e, a, s) /\ e.by = "me" /\ a.unread = UnreadCount
        /\ e.type = "created" <=> calls[1].op = "send"
        /\ a.type = "reply" <=> ~lost
        /\ calls[1].op = "read" => s = Notified(e)
        /\ calls[1].op \notin {"read", "send"} => s = <<>>
        /\ lastRead' = IF calls[1].op = "read" THEN Len(log) ELSE lastRead
        /\ lost /\ calls[1].op = "list" => "badge" \in disturbed'
        /\ calls[1].op # "send" => log' = log
        /\ \A k \in 1 .. Len(log) : log'[k] = log[k]
  BY ServeAnswers
<1>2. /\ ServerStep(e)
      /\ e \in Event /\ e \notin Answer /\ a \in Answer /\ a \notin Event
      /\ e.type \in {"created", "read"}
      /\ Len(wire') \in Nat /\ Len(wire) \in Nat
      /\ Len(wire) < Len(wire') /\ wire'[Len(wire')] = a
      /\ \A i \in 1 .. Len(wire') : i > Len(wire) =>
           \/ i = Len(wire') /\ wire'[i] = a
           \/ i < Len(wire') /\ i = Len(wire) + 1 /\ wire'[i] = e /\ online /\ s # <<>>
      /\ online /\ s = Notified(e) => \E i \in 1 .. Len(wire') : i > Len(wire) /\ wire'[i] = e
  BY <1>1, AnswerStep
<1>3. /\ Len(calls) \in Nat /\ Len(calls) >= 1 /\ Len(calls') = Len(calls)
      /\ calls' # <<>> /\ calls'[1].sent /\ calls'[1].op = calls[1].op /\ ~calls[1].sent
      /\ \A i \in 1 .. Len(calls) : i # 1 => calls'[i] = calls[i]
      /\ calls[1].op \in {"history", "older", "list", "send", "read"}
  BY <1>1, AnswerStep, Kinds DEF SameWork
<1>4. \A op : Awaited(op)' <=> calls[1].op = op
  BY <1>3 DEF Awaited
<1>5. online' = online /\ pane' = pane /\ disturbed \subseteq disturbed'
  BY <1>1 DEF Answering
<1>6. CASE "badge" \in disturbed' \/ ~online
  BY <1>5, <1>6, OfflineBadge DEF BadgeInv
<1>7. CASE "badge" \notin disturbed' /\ online
  <2>1. "badge" \notin disturbed
    BY <1>5, <1>7
  <2>2. PICK n \in 1 .. Len(wire') : n = Len(wire') /\ wire'[n] = a
    BY <1>2
  <2>3. /\ \A i \in 1 .. Len(wire') : ~(i > n)
        /\ \A i \in 1 .. Len(wire') : i > Len(wire) => wire'[i] = e \/ i = n
        /\ \A op : Reply(n, op)' <=> a.type = "reply" /\ calls[1].op = op
    BY <1>2, <1>4, <2>2 DEF Reply
  <2>4. (calls[1].op # "list" => (ListComes => ListComes'))
        /\ (calls[1].op # "read" => (ReadComes => ReadComes'))
    BY <1>3, <1>5 DEF ListComes, ReadComes
  <2>5. lastRead \in 0 .. Len(log) /\ Len(log) \in Nat
    BY Carried DEF Sane, MessagingTypeOK
  <2>6. calls[1].op = "read" => e.type = "read"
    BY <1>1, <1>2
  <2>7. calls[1].op = "read" =>
          \E i \in 1 .. Len(wire') : i > Len(wire) /\ IsRead(wire'[i])
    BY <1>1, <1>2, <1>7, <2>6 DEF IsRead
  <2>8. BadgeStep
    <3>1. ASSUME NEW i \in 1 .. Len(wire'), i > Len(wire), wire'[i] \in Answer
          PROVE  i = n
      BY <1>2, <2>2, <2>3, <3>1
    <3>2. ASSUME calls[1].op = "send"
          PROVE  \E j \in 1 .. Len(wire') : j < n /\ Creates(wire'[j])
      <4>1. e.type = "created" /\ s = Notified(e)
        BY <1>1, <3>2 DEF Answering, Answered
      <4>2. PICK j \in 1 .. Len(wire') : j > Len(wire) /\ wire'[j] = e
        BY <1>2, <1>7, <4>1
      <4>3. j < n
        BY <1>2, <2>2, <4>2
      <4> QED BY <1>2, <4>1, <4>2, <4>3 DEF Creates
    <3>3. ASSUME calls[1].op = "history", a.type = "reply", \A k \in Ids : a.messages[k] = Absent
          PROVE  Len(log') = 0
      <4>1. log # <<>> => a.messages[Len(log)] # Absent
        BY <1>1, <3>3 DEF Answering, PageFits
      <4>2. log # <<>> => Len(log) \in Ids
        BY <2>5, Carried, EmptySeq, Kinds DEF Sane, Ids
      <4>3. log = <<>> /\ log' = log
        BY <1>1, <3>3, <4>1, <4>2
      <4> QED BY <4>3, EmptySeq
    <3>4. lastRead' >= lastRead /\ (lastRead' # lastRead => calls[1].op = "read")
      BY <1>1, <2>5
    <3>5. \A k \in 1 .. Len(log) : log[k].body # Gone => log'[k].body # Gone
      BY <1>1
    <3>6. lastRead' # lastRead => \E j \in 1 .. Len(wire') : j > Len(wire) /\ IsRead(wire'[j])
      BY <2>7, <3>4
    <3>7. ASSUME NEW i \in 1 .. Len(wire'), i > Len(wire), wire'[i] \in Answer
          PROVE  /\ wire'[i].type = "error" /\ Awaited("send")' =>
                      \E j \in 1 .. Len(wire') : j < i /\ Creates(wire'[j])
                 /\ Reply(i, "history")' /\ (\A k \in Ids : wire'[i].messages[k] = Absent) =>
                      Len(log') = 0
      <4>1. i = n
        BY <3>1, <3>7
      <4> QED BY <1>4, <2>2, <2>3, <3>2, <3>3, <4>1
    <3> QED BY <3>4, <3>5, <3>6, <3>7 DEF BadgeStep, Creates
  <2>9. CASE calls[1].op = "list"
    <3>1. a.type = "reply" /\ log' = log /\ lastRead' = lastRead
      BY <1>1, <1>7, <2>9
    <3>2. Unread' = Unread /\ a.unread = Cardinality(Unread)
      BY <1>1, <3>1, Numbers DEF Sane, Unread
    <3>3. Sets(n)' /\ ~IsRead(wire'[n])
      BY <1>2, <2>2, <2>3, <2>9, <3>1 DEF Sets, IsRead
    <3>4. SetRight' /\ CountsRight'
      BY <2>2, <2>3, <3>2, <3>3, SetCounts
    <3> QED BY <1>2, <1>7, <2>1, <2>8, <3>4, ServerBadge
  <2>10. CASE calls[1].op = "read"
    <3>1. PICK i \in 1 .. Len(wire') : i > Len(wire) /\ IsRead(wire'[i])
      BY <2>7, <2>10
    <3>2. \A j \in 1 .. Len(wire') : j > i => j = n
      <4>1. i = n \/ i = Len(wire) + 1
        BY <1>2, <2>2, <3>1
      <4>2. ASSUME NEW j \in 1 .. Len(wire'), j > i  PROVE j = n
        BY <1>2, <2>2, <3>1, <4>1, <4>2
      <4> QED BY <4>2
    <3>3. ~Sets(n)' /\ ~Creates(wire'[n])
      BY <1>2, <2>2, <2>3, <2>10 DEF Sets, IsRead, Creates
    <3>4. Cardinality(Unread') = 0
      BY <1>1, <2>10, AllRead
    <3>5. Sets(i)'
      BY <3>1 DEF Sets, IsRead
    <3>6. \A j \in 1 .. Len(wire') : j > i => ~Sets(j)' /\ ~Creates(wire'[j])
      BY <3>2, <3>3
    <3>7. SetRight' /\ CountsRight'
      BY <3>1, <3>4, <3>5, <3>6, SetCounts
    <3> QED BY <1>2, <1>7, <2>1, <2>8, <3>7, ServerBadge
  <2>11. CASE calls[1].op \in {"history", "older", "send"}
    <3>1. lastRead' = lastRead
      BY <1>1, <2>11
    <3>2. Unread' = Unread
      <4>1. CASE calls[1].op # "send"
        BY <1>1, <3>1, <4>1 DEF Unread
      <4>2. CASE calls[1].op = "send"
        <5>1. Len(log') = Len(log) + 1 /\ log'[Len(log) + 1].by = "me"
          BY <1>1, <4>2 DEF Answering, Answered, Concerns
        <5>2. \A k \in 1 .. Len(log') : k \in 1 .. Len(log) \/ k = Len(log) + 1
          BY <2>5, <5>1
        <5>3. \A k \in 1 .. Len(log) : k \in 1 .. Len(log')
          BY <2>5, <5>1
        <5> QED BY <1>1, <3>1, <5>1, <5>2, <5>3 DEF Unread
      <4> QED BY <4>1, <4>2
    <3>3. \A i \in 1 .. Len(wire') : i > Len(wire) => ~Sets(i)'
      <4>1. ASSUME NEW i \in 1 .. Len(wire'), i > Len(wire), wire'[i] = e
            PROVE  e.type = "created"
        BY <1>1, <1>2, <2>2, <2>11, <4>1
      <4>2. \A i \in 1 .. Len(wire') : wire'[i] = e /\ e.type = "created" => ~Sets(i)'
        BY <1>2 DEF Sets, IsRead, Reply
      <4>3. ~Sets(n)'
        BY <1>2, <2>2, <2>3, <2>11 DEF Sets, IsRead
      <4> QED BY <2>3, <4>1, <4>2, <4>3
    <3>4. ~ListComes' => SetRight' /\ CountsRight'
      BY <1>1, <1>2, <1>7, <2>1, <2>4, <2>11, <3>2, <3>3, QuietCounts
    <3> QED BY <1>2, <1>7, <2>1, <2>8, <3>4, ServerBadge
  <2> QED BY <1>3, <2>9, <2>10, <2>11
<1> QED BY <1>6, <1>7

-----------------------------------------------------------------------------
(* What the reader sees.                                                     *)

\* Only an open thread is about to be marked as read.
TimerOpen == pane.timer => pane.open

LEMMA CountZero ==
    ASSUME NEW th, NEW op
    PROVE  Count(th, op) = 0 <=>
             (\A k \in Ids : th[k] = Absent) /\ (\A n \in Nonces : op[n] = Absent)
<1> DEFINE L == Loaded(th)
           O == {n \in Nonces : op[n] # Absent}
<1>1. IsFiniteSet(Ids) /\ IsFiniteSet(Nonces)
  BY Kinds, FS_Interval DEF Ids, Nonces
<1>2. IsFiniteSet(L) /\ IsFiniteSet(O)
  BY <1>1, FS_Subset DEF Loaded
<1>3. /\ Cardinality(L) \in Nat /\ (Cardinality(L) = 0 <=> L = {})
      /\ Cardinality(O) \in Nat /\ (Cardinality(O) = 0 <=> O = {})
  BY <1>2, FS_EmptySet, FS_CardinalityType
<1>4. Count(th, op) = Cardinality(L) + Cardinality(O)
  BY DEF Count
<1>5. (L = {} <=> \A k \in Ids : th[k] = Absent) /\ (O = {} <=> \A n \in Nonces : op[n] = Absent)
  BY DEF Loaded
<1> HIDE DEF L, O
<1> QED BY <1>3, <1>4, <1>5

\* What is shown leaves the badge alone, or the thread is about to be marked as read; unless
\* nothing is left of it.
LEMMA BadgeShown ==
    ASSUME NEW th, NEW op, NEW unread, NEW p \in Pane, Show(th, op, unread, p)
    PROVE  /\ \/ badge' = unread /\ pane' = p
              \/ pane'.timer = TRUE
              \/ /\ badge' = unread /\ pane'.timer = FALSE
                 /\ Count(th, op) = 0 /\ Count(thread, optimistic) # 0
           /\ (p.timer => p.open) => TimerOpen'
<1>1. PICK n : n = Count(th, op)
  OBVIOUS
<1>2. n \in Nat
  BY <1>1, CountType
<1>3. CASE p.open /\ n # Count(thread, optimistic)
  <2>1. pane' = [p EXCEPT !.timer = (n > 0)] /\ badge' = IF n > 0 THEN 0 ELSE unread
    BY <1>1, <1>3 DEF Show
  <2>2. pane'.timer = (n > 0) /\ pane'.open = p.open
    BY <2>1 DEF Pane
  <2>3. CASE n > 0
    <3>1. (n > 0) = TRUE
      BY <2>3
    <3>2. pane'.timer = TRUE /\ pane'.open
      BY <1>3, <2>2, <3>1, Zenon
    <3> QED BY <3>2 DEF TimerOpen
  <2>4. CASE n = 0
    <3>1. (n > 0) = FALSE
      BY <2>4
    <3>2. pane'.timer = FALSE
      BY <2>2, <3>1, Zenon
    <3>3. badge' = unread
      BY <2>1, <2>4
    <3>4. TimerOpen'
      BY <3>2 DEF TimerOpen
    <3>5. Count(th, op) = 0 /\ Count(thread, optimistic) # 0
      BY <1>1, <1>3, <2>4
    <3> QED BY <3>2, <3>3, <3>4, <3>5
  <2>5. n > 0 \/ n = 0
    BY <1>2
  <2> QED BY <2>3, <2>4, <2>5, Zenon
<1>4. CASE ~(p.open /\ n # Count(thread, optimistic))
  <2>1. pane' = p /\ badge' = unread
    BY <1>1, <1>4 DEF Show
  <2> QED BY <2>1 DEF TimerOpen
<1> QED BY <1>3, <1>4

\* A call that is added.
LEMMA CallMore ==
    ASSUME Sane, Sane', NEW op, NEW at, NEW b, NEW s,
           calls' = Append(calls, NewCall(op, at, b, s))
    PROVE  /\ CallsMore /\ Len(calls') = Len(calls) + 1 /\ Len(calls) + 1 \in 1 .. Len(calls')
           /\ calls'[Len(calls) + 1].op = op /\ ~calls'[Len(calls) + 1].sent
<1> DEFINE S == Call \cup {NewCall(op, at, b, s)}
<1>1. calls \in Seq(Call) /\ Len(calls) \in Nat /\ calls' \in Seq(Call)
  BY Carried DEF Sane, MessagingTypeOK
<1>2. calls \in Seq(S)
  BY <1>1
<1>3. NewCall(op, at, b, s) \in S
  OBVIOUS
<1> HIDE DEF S
<1>4. /\ Len(calls') = Len(calls) + 1 /\ calls'[Len(calls) + 1] = NewCall(op, at, b, s)
      /\ \A i \in 1 .. Len(calls) : calls'[i] = calls[i]
  BY <1>2, <1>3, AppendProperties
<1>5. \A i \in 1 .. Len(calls') : i > Len(calls) => i = Len(calls) + 1
  BY <1>1, <1>4
<1>6. NewCall(op, at, b, s).op = op /\ ~NewCall(op, at, b, s).sent
  BY DEF NewCall
<1> QED BY <1>1, <1>4, <1>5, <1>6 DEF CallsMore, SameCall

LEMMA CallsSame ==
    ASSUME Sane, calls' = calls
    PROVE  CallsMore
BY Carried DEF Sane, CallsMore, SameCall

LEMMA OpenBadge ==
    ASSUME Sane, Sane', BadgeInv, TimerOpen, OpenThread
    PROVE  BadgeInv' /\ TimerOpen'
<1>1. /\ UNCHANGED <<log, lastRead, thread, online, wire, disturbed>>
      /\ ~pane.open
  BY DEF OpenThread, IsOpen
<1>2. PICK n : n = Count(thread, optimistic)
  OBVIOUS
<1>3. n \in Nat /\ (n > 0 \/ n = 0)
  BY <1>2, CountType
<1>4. pane' = [Closed EXCEPT !.open = TRUE, !.timer = (n > 0)]
      /\ badge' = IF n > 0 THEN 0 ELSE badge
  BY <1>2 DEF OpenThread
<1>5. pane'.open = TRUE /\ pane'.timer = (n > 0) /\ pane.timer \in BOOLEAN
  <2>1. pane \in Pane
    BY DEF Sane, MessagingTypeOK
  <2> QED BY <1>4, <2>1 DEF Closed, Pane
<1>6. CallsMore
  <2>1. CASE hydrated
    BY <2>1, CallsSame DEF OpenThread
  <2>2. CASE ~hydrated
    BY <2>2, CallMore DEF OpenThread
  <2> QED BY <2>1, <2>2
<1>7. ReadComes' \/ (badge' = badge /\ pane'.timer = pane.timer)
  <2>1. CASE n > 0
    <3>1. (n > 0) = TRUE
      BY <2>1
    <3> QED BY <1>5, <3>1, Zenon DEF ReadComes
  <2>2. CASE n = 0
    <3>1. (n > 0) = FALSE
      BY <2>2
    <3>2. pane'.timer = FALSE /\ pane.timer = FALSE
      BY <1>1, <1>5, <3>1, Zenon DEF TimerOpen
    <3> QED BY <1>4, <3>1, <3>2
  <2> QED BY <1>3, <2>1, <2>2
<1>8. BadgeInv'
  BY <1>1, <1>6, <1>7, LocalBadge
<1>9. TimerOpen'
  BY <1>5 DEF TimerOpen
<1> QED BY <1>8, <1>9

LEMMA CloseBadge ==
    ASSUME Sane, Sane', BadgeInv, CloseThread
    PROVE  BadgeInv' /\ TimerOpen'
<1>1. UNCHANGED <<log, lastRead, thread, badge, online, wire>> /\ pane' = Closed
  BY DEF CloseThread
<1>2. "badge" \notin disturbed' => "badge" \notin disturbed /\ pane.timer = FALSE
  <2>1. pane.timer \in BOOLEAN
    BY DEF Sane, MessagingTypeOK, Pane
  <2>2. CASE pane.timer
    BY <2>2 DEF CloseThread, Disturb
  <2>3. CASE ~pane.timer
    BY <2>1, <2>3 DEF CloseThread, Undisturbed
  <2> QED BY <2>2, <2>3
<1>3. calls \in Seq(Call) /\ Len(calls) \in Nat /\ DOMAIN calls = 1 .. Len(calls)
      /\ calls' \in Seq(Call) /\ \A i \in 1 .. Len(calls) : calls[i] \in Call
  BY Carried, LenProperties DEF Sane, MessagingTypeOK
<1>4. calls' = [i \in 1 .. Len(calls) |->
                  IF calls[i].op = "history" THEN [calls[i] EXCEPT !.live = FALSE] ELSE calls[i]]
  BY <1>3 DEF CloseThread
<1>5. \A i \in 1 .. Len(calls) : SameCall(calls'[i], calls[i])
  BY <1>3, <1>4 DEF Call, SameCall
<1>6. Len(calls') = Len(calls)
  BY <1>3, <1>4, LenProperties
<1>7. CallsMore
  BY <1>3, <1>5, <1>6 DEF CallsMore
<1>8. pane'.timer = FALSE
  BY <1>1 DEF Closed
<1>9. BadgeInv'
  BY <1>1, <1>2, <1>7, <1>8, LocalBadge
<1> QED BY <1>8, <1>9 DEF TimerOpen

LEMMA TimerBadge ==
    ASSUME Sane, Sane', BadgeInv, TimerFires
    PROVE  BadgeInv' /\ TimerOpen'
<1>1. /\ UNCHANGED <<log, lastRead, thread, badge, online, wire, disturbed>>
      /\ pane' = [pane EXCEPT !.timer = FALSE] /\ calls' = Append(calls, NewCall("read", 0, Gone, 0))
  BY DEF TimerFires
<1>2. /\ CallsMore /\ Len(calls) + 1 \in 1 .. Len(calls')
      /\ calls'[Len(calls) + 1].op = "read" /\ ~calls'[Len(calls) + 1].sent
  BY <1>1, CallMore
<1>3. ReadComes'
  BY <1>2 DEF ReadComes
<1>4. pane'.timer = FALSE
  <2>1. pane \in Pane
    BY DEF Sane, MessagingTypeOK
  <2> QED BY <1>1, <2>1 DEF Pane
<1>5. BadgeInv'
  BY <1>1, <1>2, <1>3, LocalBadge
<1> QED BY <1>4, <1>5 DEF TimerOpen

LEMMA SendBadge ==
    ASSUME Sane, Sane', BadgeInv, TimerOpen, NEW b \in Bodies, Send(b)
    PROVE  BadgeInv' /\ TimerOpen'
<1>1. PICK n, s, e, p :
        /\ n = pane.seq + 1 /\ s = spent.sends + 1 /\ e = [body |-> b, send |-> s]
        /\ p = [pane EXCEPT !.sending = TRUE, !.seq = n]
  OBVIOUS
<1>2. /\ UNCHANGED <<log, lastRead, hydrated, online, wire, disturbed>>
      /\ calls' = Append(calls, NewCall("send", n, b, s))
      /\ Show(thread, [optimistic EXCEPT ![n] = e], badge, p)
      /\ spent.sends < MaxSends /\ spent.sends \in 0 .. MaxSends
      /\ pane \in Pane /\ pane.seq <= spent.sends /\ pane.seq \in 0 .. MaxSends
      /\ optimistic \in [Nonces -> Optimistic \cup {Absent}]
  <2>1. spent.sends \in 0 .. MaxSends
    BY Counting DEF Sane
  <2>2. pane \in Pane /\ pane.seq <= spent.sends /\ pane.seq \in 0 .. MaxSends
    BY DEF Sane, StoreFits, MessagingTypeOK, Pane
  <2> QED BY <1>1, <2>1, <2>2 DEF Send, Sane, MessagingTypeOK
<1>3. n \in 1 .. MaxSends /\ n \in Nonces /\ s \in 1 .. MaxSends
  BY <1>1, <1>2, Kinds DEF Nonces
<1>4. p \in Pane /\ p.open = pane.open /\ p.timer = pane.timer
  <2>1. n \in 0 .. MaxSends
    BY <1>3, Kinds
  <2> QED BY <1>1, <1>2, <2>1 DEF Pane
<1>5. PICK q : q = [optimistic EXCEPT ![n] = e]
  OBVIOUS
<1>6. e # Absent /\ q[n] = e
  <2>1. e \in Optimistic
    BY <1>1, <1>3 DEF Optimistic, Nonces
  <2> QED BY <1>2, <1>3, <1>5, <2>1, Kinds
<1>7. Count(thread, q) # 0
  BY <1>3, <1>6, CountZero
<1>8. Show(thread, q, badge, p)
  BY <1>2, <1>5
<1>9. /\ (badge' = badge /\ pane' = p) \/ pane'.timer = TRUE
      /\ (p.timer => p.open) => TimerOpen'
  BY <1>4, <1>7, <1>8, BadgeShown
<1>10. thread' = thread
  BY <1>4, <1>8, Showing
<1>11. CallsMore
  BY <1>2, CallMore
<1>12. ReadComes' \/ (badge' = badge /\ pane'.timer = pane.timer)
  BY <1>4, <1>9 DEF ReadComes
<1>13. BadgeInv'
  BY <1>2, <1>10, <1>11, <1>12, LocalBadge
<1> QED BY <1>4, <1>9, <1>13 DEF TimerOpen

LEMMA LoadOlderBadge ==
    ASSUME Sane, Sane', BadgeInv, TimerOpen, LoadOlder
    PROVE  BadgeInv' /\ TimerOpen'
<1>1. /\ UNCHANGED <<log, lastRead, thread, badge, online, wire>>
      /\ pane' = [pane EXCEPT !.loadingOlder = TRUE]
      /\ "badge" \notin disturbed' => "badge" \notin disturbed
  BY DEF LoadOlder
<1>2. pane'.timer = pane.timer /\ pane'.open = pane.open
  <2>1. pane \in Pane
    BY DEF Sane, MessagingTypeOK
  <2> QED BY <1>1, <2>1 DEF Pane
<1>3. PICK first : calls' = Append(calls, NewCall("older", first, Gone, 0))
  BY DEF LoadOlder
<1>4. CallsMore
  BY <1>3, CallMore
<1>5. BadgeInv'
  BY <1>1, <1>2, <1>4, LocalBadge
<1> QED BY <1>2, <1>5 DEF TimerOpen

LEMMA RelistBadge ==
    ASSUME Sane, Sane', BadgeInv, TimerOpen, Relist
    PROVE  BadgeInv' /\ TimerOpen'
<1>1. UNCHANGED <<log, lastRead, thread, badge, pane, online, wire, disturbed>>
  BY DEF Relist
<1>2. CallsMore
  BY CallMore DEF Relist, List
<1>3. BadgeInv'
  BY <1>1, <1>2, LocalBadge
<1> QED BY <1>1, <1>3 DEF TimerOpen

\* A new socket has the conversations listed anew.
LEMMA ConnectBadge ==
    ASSUME Sane, Sane', BadgeInv, TimerOpen, Connect
    PROVE  BadgeInv' /\ TimerOpen'
<1>1. UNCHANGED <<log, lastRead, pane, wire, disturbed>> /\ calls' = Append(calls, List)
  BY DEF Connect
<1>2. /\ Len(calls) + 1 \in 1 .. Len(calls')
      /\ calls'[Len(calls) + 1].op = "list" /\ ~calls'[Len(calls) + 1].sent
  BY <1>1, CallMore DEF List
<1>3. ListComes'
  BY <1>2 DEF ListComes
<1>4. NewStay => NewStay'
  BY <1>1 DEF NewStay, Creates
<1> QED BY <1>1, <1>3, <1>4 DEF BadgeInv, TimerOpen

-----------------------------------------------------------------------------
(* What the browser receives.                                                *)

\* The first of the wire goes: what counts is still what comes after.
LEMMA Shifted ==
    ASSUME Taken(1), UNCHANGED <<log, lastRead>>,
           \A j \in 1 .. Len(wire') : \A op : Reply(j, op)' <=> Reply(j + 1, op)
    PROVE  /\ \A j \in 1 .. Len(wire') : j + 1 \in 1 .. Len(wire) /\ wire'[j] = wire[j + 1]
           /\ \A m \in 1 .. Len(wire) : m > 1 => m - 1 \in 1 .. Len(wire') /\ wire'[m - 1] = wire[m]
           /\ Len(wire) \in Nat /\ Len(wire') \in Nat
           /\ \A j \in 1 .. Len(wire') : Sets(j)' <=> Sets(j + 1)
           /\ \A j \in Nat : NoneSetsAfter(j)' <=> NoneSetsAfter(j + 1)
           /\ \A j \in Nat : \A k : Announced(k, j)' <=> Announced(k, j + 1)
           /\ \A j \in Nat : New(j)' = New(j + 1)
           /\ Unread' = Unread
<1>1. PICK n \in Nat, t \in Nat : n = Len(wire) /\ t = Len(wire')
  BY DEF Taken
<1>2. \A j \in 1 .. t : j + 1 \in 1 .. n /\ wire'[j] = wire[j + 1]
  BY <1>1, FirstTaken
<1>3. \A m \in 1 .. n : m > 1 => m - 1 \in 1 .. t /\ wire'[m - 1] = wire[m]
  BY <1>1, FirstTaken
<1>4. \A j \in 1 .. t : Sets(j)' <=> Sets(j + 1)
  BY <1>1, <1>2 DEF Sets, IsRead
<1>5. ASSUME NEW j \in Nat
      PROVE  NoneSetsAfter(j)' <=> NoneSetsAfter(j + 1)
  <2>1. ASSUME NoneSetsAfter(j)', NEW m \in 1 .. n, m > j + 1
        PROVE  ~Sets(m)
    <3>1. m - 1 \in 1 .. t /\ m - 1 > j /\ (m - 1) + 1 = m
      BY <1>3, <2>1
    <3>2. ~Sets(m - 1)'
      <4>1. PICK i \in 1 .. t : i = m - 1 /\ i > j
        BY <3>1
      <4>2. ~Sets(i)'
        BY <1>1, <2>1, <4>1 DEF NoneSetsAfter
      <4> QED BY <1>1, <4>1, <4>2 DEF Sets, IsRead, Reply
    <3>3. PICK i \in 1 .. t : i = m - 1 /\ i + 1 = m
      BY <3>1
    <3>4. ~Sets(i)'
      BY <1>1, <2>1, <3>1, <3>3 DEF NoneSetsAfter
    <3> QED BY <1>4, <3>3, <3>4
  <2>2. ASSUME NoneSetsAfter(j + 1), NEW m \in 1 .. t, m > j
        PROVE  ~Sets(m)'
    <3>1. m + 1 \in 1 .. n
      BY <1>2
    <3>2. m + 1 > j + 1
      BY <2>2
    <3> QED BY <1>1, <1>4, <2>2, <3>1, <3>2 DEF NoneSetsAfter
  <2>3. NoneSetsAfter(j)' => NoneSetsAfter(j + 1)
    BY <1>1, <2>1 DEF NoneSetsAfter
  <2>4. NoneSetsAfter(j + 1) => NoneSetsAfter(j)'
    <3>1. ASSUME NoneSetsAfter(j + 1)
          PROVE  \A m \in 1 .. t : m > j => ~Sets(m)'
      BY <2>2, <3>1
    <3> QED BY <1>1, <3>1 DEF NoneSetsAfter
  <2> QED BY <2>3, <2>4
<1>6. ASSUME NEW j \in Nat, NEW k
      PROVE  Announced(k, j)' <=> Announced(k, j + 1)
  <2>1. ASSUME Announced(k, j)'  PROVE Announced(k, j + 1)
    <3>1. PICK m \in 1 .. t : m > j /\ Creates(wire'[m]) /\ wire'[m].id = k
      BY <1>1, <2>1 DEF Announced, Creates
    <3>2. m + 1 \in 1 .. n /\ wire'[m] = wire[m + 1] /\ m + 1 > j + 1
      BY <1>2, <3>1
    <3> QED BY <1>1, <3>1, <3>2 DEF Announced
  <2>2. ASSUME Announced(k, j + 1)  PROVE Announced(k, j)'
    <3>1. PICK m \in 1 .. n : m > j + 1 /\ Creates(wire[m]) /\ wire[m].id = k
      BY <1>1, <2>2 DEF Announced
    <3>2. PICK i \in 1 .. t : i = m - 1 /\ wire'[i] = wire[m] /\ i > j
      BY <1>3, <3>1
    <3> QED BY <1>1, <3>1, <3>2 DEF Announced, Creates
  <2> QED BY <2>1, <2>2
<1>7. \A j \in Nat : New(j)' = New(j + 1)
  BY <1>6 DEF New
<1>8. Unread' = Unread
  BY DEF Unread
<1> QED BY <1>1, <1>2, <1>3, <1>4, <1>5, <1>6, <1>7, <1>8

\* What is left of the books when the first of the wire goes.
LEMMA BooksShift ==
    ASSUME Sane, Taken(1), UNCHANGED <<log, lastRead>>,
           \A j \in 1 .. Len(wire') : \A op : Reply(j, op)' <=> Reply(j + 1, op)
    PROVE  /\ NewStay => NewStay'
           /\ EmptyPage => EmptyPage'
           /\ SetRight => SetRight'
           /\ NoneSetsAfter(0)' <=> NoneSetsAfter(1)
           /\ New(0)' = New(1) /\ Unread' = Unread
           /\ 1 \in 1 .. Len(wire) => (NoneSetsAfter(0) <=> ~Sets(1) /\ NoneSetsAfter(1))
<1>1. /\ \A j \in 1 .. Len(wire') : j + 1 \in 1 .. Len(wire) /\ wire'[j] = wire[j + 1]
      /\ \A m \in 1 .. Len(wire) : m > 1 => m - 1 \in 1 .. Len(wire') /\ wire'[m - 1] = wire[m]
      /\ Len(wire) \in Nat /\ Len(wire') \in Nat
      /\ \A j \in 1 .. Len(wire') : Sets(j)' <=> Sets(j + 1)
      /\ \A j \in Nat : NoneSetsAfter(j)' <=> NoneSetsAfter(j + 1)
      /\ \A j \in Nat : \A k : Announced(k, j)' <=> Announced(k, j + 1)
      /\ \A j \in Nat : New(j)' = New(j + 1)
      /\ Unread' = Unread
  BY Shifted
<1>9. Len(wire) \in Nat /\ Len(wire') \in Nat
  BY <1>1
<1>10. \A j \in 1 .. Len(wire') : j + 1 \in 1 .. Len(wire) /\ wire'[j] = wire[j + 1]
  BY <1>1
<1>2. NewStay => NewStay'
  BY <1>10 DEF NewStay, Creates
<1>3. ASSUME EmptyPage  PROVE EmptyPage'
  <2> SUFFICES ASSUME NEW i \in 1 .. Len(wire'), Reply(i, "history")',
                      \A k \in Ids : wire'[i].messages[k] = Absent
               PROVE  /\ \A k \in 1 .. Len(log') : Announced(k, i)'
                      /\ lastRead' = 0 \/ \E j \in 1 .. Len(wire') : j > i /\ IsRead(wire'[j])
    BY DEF EmptyPage, IsRead
  <2>1. PICK m \in 1 .. Len(wire) : m = i + 1 /\ wire'[i] = wire[m] /\ Reply(m, "history")
    BY <1>1
  <2>2. /\ \A k \in 1 .. Len(log) : Announced(k, m)
        /\ lastRead = 0 \/ \E j \in 1 .. Len(wire) : j > m /\ IsRead(wire[j])
    BY <1>3, <2>1 DEF EmptyPage
  <2>3. \A k : Announced(k, i)' <=> Announced(k, m)
    <3>1. i \in Nat
      BY <1>9
    <3>2. \A k : Announced(k, i)' <=> Announced(k, i + 1)
      BY <1>1, <3>1
    <3> QED BY <2>1, <3>2
  <2>4. ASSUME NEW j \in 1 .. Len(wire), j > m, IsRead(wire[j])
        PROVE  \E l \in 1 .. Len(wire') : l > i /\ IsRead(wire'[l])
    <3>1. j > 1 /\ j - 1 > i
      BY <1>9, <2>1, <2>4
    <3>2. PICK l \in 1 .. Len(wire') : l = j - 1 /\ wire'[l] = wire[j]
      BY <1>1, <3>1
    <3> QED BY <2>4, <3>1, <3>2
  <2> QED BY <2>2, <2>3, <2>4
<1>4. ASSUME SetRight  PROVE SetRight'
  <2> SUFFICES ASSUME NEW i \in 1 .. Len(wire'), Sets(i)', NoneSetsAfter(i)'
               PROVE  (IF IsRead(wire'[i]) THEN 0 ELSE wire'[i].unread) + Cardinality(New(i)')
                         = Cardinality(Unread')
    BY DEF SetRight, IsRead
  <2>1. PICK m \in 1 .. Len(wire) : m = i + 1 /\ wire'[i] = wire[m]
    BY <1>1
  <2>2. Sets(m) /\ NoneSetsAfter(m) /\ New(i)' = New(m)
    BY <1>1, <2>1
  <2> QED BY <1>1, <1>4, <2>1, <2>2 DEF SetRight
<1>5. /\ NoneSetsAfter(0)' <=> NoneSetsAfter(1)
      /\ New(0)' = New(1)
  <2>1. 0 \in Nat /\ 0 + 1 = 1
    OBVIOUS
  <2> QED BY <1>1, <2>1
<1>6. 1 \in 1 .. Len(wire) => (NoneSetsAfter(0) <=> ~Sets(1) /\ NoneSetsAfter(1))
  <2>1. \A j \in 1 .. Len(wire) : j > 0 /\ (j > 1 \/ j = 1)
    BY <1>9
  <2>2. \A j \in 1 .. Len(wire) : j > 1 => j > 0
    BY <1>9
  <2> QED BY <2>1, <2>2 DEF NoneSetsAfter
<1> QED BY <1>1, <1>2, <1>3, <1>4, <1>5, <1>6

\* An event leaves the badge to count, or the thread is about to be marked as read.
LEMMA EventShown ==
    ASSUME Sane, TimerOpen, NEW e \in Event, EventFits(e), ApplyEvent(e)
    PROVE  /\ TimerOpen'
           /\ e.type = "read" => badge' = 0 /\ pane' = pane
           /\ e.type # "read" =>
                \/ badge' = (IF Creates(e) /\ e.by = "other" THEN badge + 1 ELSE badge) /\ pane' = pane
                \/ pane'.timer = TRUE
<1>1. thread \in Copies /\ pane \in Pane /\ (pane.timer => pane.open)
  BY DEF Sane, MessagingTypeOK, TimerOpen
<1>2. e.type \in {"created", "updated", "deleted", "read"} /\ e.by \in {"me", "other"}
  BY Kinds
<1>3. CASE e.type \in {"created", "updated"}
  <2>1. PICK th, op, unread :
          /\ th = Merge(e.id, e.body) /\ op = WithoutEcho(e.by, e.body)
          /\ unread = IF e.type = "created" THEN Counted(e.by) ELSE badge
    OBVIOUS
  <2>2. Show(th, op, unread, pane)
    BY <1>3, <2>1 DEF ApplyEvent
  <2>3. e.id \in Ids /\ e.body # Absent
    <3>1. e.id \in 1 .. Len(log) /\ e.body \in Bodies
      BY <1>3 DEF EventFits
    <3> QED BY <3>1, Carried, Kinds DEF Sane, Ids
  <2>4. th[e.id] # Absent
    BY <1>1, <2>1, <2>3 DEF Merge, Copies
  <2>5. Count(th, op) # 0
    BY <2>3, <2>4, CountZero
  <2>6. /\ (badge' = unread /\ pane' = pane) \/ pane'.timer = TRUE
        /\ TimerOpen'
    BY <1>1, <2>2, <2>5, BadgeShown
  <2>7. unread = IF Creates(e) /\ e.by = "other" THEN badge + 1 ELSE badge
    BY <1>3, <2>1 DEF Counted, Creates
  <2> QED BY <1>3, <2>6, <2>7
<1>4. CASE e.type = "deleted"
  <2>1. PICK th : th = [k \in Ids |-> IF k = e.id /\ thread[k] # Absent THEN Gone ELSE thread[k]]
    OBVIOUS
  <2>2. Show(th, optimistic, badge, pane)
    BY <1>4, <2>1 DEF ApplyEvent
  <2>3. \A k \in Ids : th[k] = Absent <=> thread[k] = Absent
    BY <2>1, Kinds
  <2>4. Count(th, optimistic) = 0 => Count(thread, optimistic) = 0
    BY <2>3, CountZero
  <2>5. /\ (badge' = badge /\ pane' = pane) \/ pane'.timer = TRUE
        /\ TimerOpen'
    BY <1>1, <2>2, <2>4, BadgeShown
  <2> QED BY <1>4, <2>5 DEF Creates
<1>5. CASE e.type = "read"
  <2>1. badge' = 0 /\ UNCHANGED <<thread, optimistic, pane>>
    BY <1>5 DEF ApplyEvent
  <2> QED BY <1>1, <1>5, <2>1 DEF TimerOpen
<1> QED BY <1>2, <1>3, <1>4, <1>5

\* What was announced comes later, or it is this.
LEMMA FirstAnnounces ==
    ASSUME Sane, 1 \in 1 .. Len(wire), NEW e \in Event, e = wire[1]
    PROVE  /\ ~(Creates(e) /\ e.by = "other") => New(0) = New(1)
           /\ Creates(e) /\ e.by = "other" =>
                New(0) = New(1) \cup {e.id} /\ e.id \notin New(1)
<1>1. Len(wire) \in Nat /\ EventFits(e)
  BY Carried DEF Sane, WireFits
<1>2. ASSUME NEW k
      PROVE  Announced(k, 0) <=> Announced(k, 1) \/ (Creates(e) /\ e.id = k)
  <2>1. ASSUME Announced(k, 0)  PROVE Announced(k, 1) \/ (Creates(e) /\ e.id = k)
    <3>1. PICK j \in 1 .. Len(wire) : Creates(wire[j]) /\ wire[j].id = k
      BY <2>1 DEF Announced
    <3>2. j = 1 \/ j > 1
      BY <1>1, <3>1
    <3> QED BY <3>1, <3>2 DEF Announced
  <2>2. ASSUME Announced(k, 1)  PROVE Announced(k, 0)
    <3>1. PICK j \in 1 .. Len(wire) : Creates(wire[j]) /\ wire[j].id = k
      BY <2>2 DEF Announced
    <3>2. j > 0
      BY <1>1, <3>1
    <3> QED BY <3>1, <3>2 DEF Announced
  <2>3. 1 > 0
    OBVIOUS
  <2> QED BY <2>1, <2>2, <2>3 DEF Announced
<1>3. CASE ~(Creates(e) /\ e.by = "other")
  <2>1. Creates(e) => log[e.id].by # "other"
    BY <1>1, <1>3 DEF EventFits, Creates
  <2> QED BY <1>2, <1>3, <2>1 DEF New
<1>4. CASE Creates(e) /\ e.by = "other"
  <2>1. e.id \in 1 .. Len(log) /\ log[e.id].by = "other"
    BY <1>1, <1>4 DEF EventFits, Creates
  <2>2. New(0) = New(1) \cup {e.id}
    BY <1>2, <1>4, <2>1 DEF New
  <2>3. ASSUME Announced(e.id, 1)  PROVE FALSE
    <3>1. PICK j \in 1 .. Len(wire) : j > 1 /\ Creates(wire[j]) /\ wire[j].id = e.id
      BY <2>3 DEF Announced
    <3>2. e.id < e.id
      BY <1>4, <3>1 DEF Sane, WireFits
    <3>3. e.id \in Nat
      BY <2>1
    <3> QED BY <3>2, <3>3
  <2> QED BY <1>4, <2>2, <2>3 DEF New
<1> QED BY <1>3, <1>4

\* The next event is counted.
LEMMA EventCounts ==
    ASSUME Sane, Sane', TimerOpen, NoneSetsAfter(1), SetRight, CountsRight, Taken(1),
           1 \in 1 .. Len(wire), wire[1] \in Event, ApplyEvent(wire[1]),
           UNCHANGED <<log, lastRead, calls>>, ~ReadComes'
    PROVE  badge' + Cardinality(New(1)) = Cardinality(Unread)
<1> PICK e : e = wire[1]
  OBVIOUS
<1>1. e \in Event /\ EventFits(e) /\ e \notin Answer
  BY Kinds DEF Sane, WireFits
<1>2. ~(pane'.timer = TRUE)
  BY DEF ReadComes
<1>3. /\ e.type = "read" => badge' = 0 /\ pane' = pane
      /\ e.type # "read" =>
           badge' = (IF Creates(e) /\ e.by = "other" THEN badge + 1 ELSE badge) /\ pane' = pane
  BY <1>1, <1>2, EventShown
<1>4. CASE e.type = "read"
  <2>1. IsRead(wire[1]) /\ Sets(1)
    BY <1>1, <1>4 DEF IsRead, Sets
  <2>2. 0 + Cardinality(New(1)) = Cardinality(Unread)
    BY <2>1 DEF SetRight
  <2> QED BY <1>3, <1>4, <2>2
<1>5. CASE e.type # "read"
  <2>1. ~Sets(1)
    BY <1>1, <1>5 DEF IsRead, Sets, Reply
  <2>2. NoneSetsAfter(0)
    BY <2>1, Carried DEF NoneSetsAfter, Sane
  <2>3. ~ReadComes
    BY <1>3, <1>5 DEF ReadComes
  <2>4. badge + Cardinality(New(0)) = Cardinality(Unread)
    BY <2>2, <2>3 DEF CountsRight
  <2>5. IsFiniteSet(New(1)) /\ Cardinality(New(1)) \in Nat /\ badge \in Nat
    BY Numbers, Kinds DEF Sane, MessagingTypeOK
  <2>6. CASE Creates(e) /\ e.by = "other"
    <3>1. New(0) = New(1) \cup {e.id} /\ e.id \notin New(1)
      BY <1>1, <2>6, FirstAnnounces
    <3>2. Cardinality(New(0)) = Cardinality(New(1)) + 1
      BY <2>5, <3>1, OneMore
    <3>3. badge' = badge + 1
      BY <1>3, <1>5, <2>6
    <3> QED BY <2>4, <2>5, <3>2, <3>3
  <2>7. CASE ~(Creates(e) /\ e.by = "other")
    <3>1. New(0) = New(1)
      BY <1>1, <2>7, FirstAnnounces
    <3>2. badge' = badge
      BY <1>3, <1>5, <2>7
    <3> QED BY <2>4, <3>1, <3>2
  <2> QED BY <2>6, <2>7
<1> QED BY <1>4, <1>5

LEMMA ReceiveEventBadge ==
    ASSUME Sane, Sane', BadgeInv, TimerOpen, NEW i \in DOMAIN wire, ReceiveEvent(i)
    PROVE  BadgeInv' /\ TimerOpen'
<1>1. /\ wire \in Seq(Event \cup Answer) /\ Len(wire) \in Nat /\ i \in 1 .. Len(wire)
      /\ MessagingTypeOK
  BY Carried, LenProperties DEF Sane
<1>2. /\ wire[i] \in Event /\ ApplyEvent(wire[i]) /\ wire' = RemoveAt(wire, i)
      /\ UNCHANGED <<log, lastRead, hydrated, online, calls>>
  BY DEF ReceiveEvent
<1>3. EventFits(wire[i])
  BY <1>1, <1>2 DEF Sane, WireFits
<1>4. TimerOpen'
  BY <1>2, <1>3, EventShown
<1>5. "badge" \notin disturbed' => i = 1 /\ "badge" \notin disturbed
  <2>1. CASE i > 1
    BY <2>1 DEF ReceiveEvent, Disturb
  <2>2. CASE i = 1
    <3>1. ~(i > 1)
      BY <2>2
    <3>2. CASE wire[i].type = "updated" /\ hydrated /\ thread[wire[i].id] = Absent
      BY <2>2, <3>1, <3>2 DEF ReceiveEvent, Disturb
    <3>3. CASE ~(wire[i].type = "updated" /\ hydrated /\ thread[wire[i].id] = Absent)
      BY <2>2, <3>1, <3>3 DEF ReceiveEvent, Undisturbed
    <3> QED BY <2>2, <3>2, <3>3
  <2> QED BY <1>1, <2>1, <2>2
<1>6. ASSUME "badge" \notin disturbed'
      PROVE  NewStay' /\ (online' /\ ~ListComes' => BadgeFollows')
  <2>1. i = 1 /\ NewStay /\ (online /\ ~ListComes => BadgeFollows)
    BY <1>5, <1>6 DEF BadgeInv
  <2>2. Taken(1) /\ 1 \in 1 .. Len(wire) /\ wire[1] \in Event /\ ApplyEvent(wire[1])
        /\ EventFits(wire[1])
    BY <1>1, <1>2, <1>3, <2>1, WireTaken
  <2>3. \A op : Awaited(op)' <=> Awaited(op)
    BY <1>2 DEF Awaited
  <2>4. \A j \in 1 .. Len(wire') : j + 1 \in 1 .. Len(wire) /\ wire'[j] = wire[j + 1]
    BY <2>2, FirstTaken
  <2>5. \A j \in 1 .. Len(wire') : \A op : Reply(j, op)' <=> Reply(j + 1, op)
    BY <2>3, <2>4 DEF Reply
  <2>6. /\ NewStay => NewStay'
        /\ EmptyPage => EmptyPage'
        /\ SetRight => SetRight'
        /\ NoneSetsAfter(0)' <=> NoneSetsAfter(1)
        /\ New(0)' = New(1) /\ Unread' = Unread
    BY <1>2, <2>2, <2>5, BooksShift
  <2>7. ASSUME online', ~ListComes'  PROVE BadgeFollows'
    <3>1. LostSend /\ EmptyPage /\ SetRight /\ CountsRight
      BY <1>2, <2>1, <2>7 DEF ListComes, BadgeFollows
    <3>2. ASSUME NoneSetsAfter(0)', ~ReadComes'
          PROVE  badge' + Cardinality(New(0)') = Cardinality(Unread')
      BY <1>2, <2>2, <2>6, <3>1, <3>2, EventCounts
    <3>3. CountsRight'
      BY <3>2 DEF CountsRight
    <3>4. LostSend'
      <4> SUFFICES ASSUME NEW m \in 1 .. Len(wire'), wire'[m] \in Answer,
                          wire'[m].type = "error", Awaited("send")'
                   PROVE  \E k \in 1 .. Len(log') :
                            thread'[k] # Absent
                              \/ \E j \in 1 .. Len(wire') : j < m /\ Creates(wire'[j]) /\ wire'[j].id = k
        BY DEF LostSend, Creates
      <4>1. PICK l \in 1 .. Len(wire) : l = m + 1 /\ wire[l] = wire'[m]
        BY <2>4
      <4>2. PICK k \in 1 .. Len(log) :
              thread[k] # Absent
                \/ \E j \in 1 .. Len(wire) : j < l /\ Creates(wire[j]) /\ wire[j].id = k
        BY <2>3, <3>1, <4>1 DEF LostSend
      <4>3. Shows(wire[1])
        BY <2>2, Applied
      <4>4. k \in Ids
        BY <4>2, Carried, Kinds DEF Sane, Ids
      <4>5. CASE thread[k] # Absent
        <5>1. wire[1].body # Absent
          BY <2>2, Kinds
        <5>2. thread'[k] # Absent
          BY <4>3, <4>4, <4>5, <5>1, Kinds DEF Shows
        <5> QED BY <1>2, <5>2
      <4>6. ASSUME NEW j \in 1 .. Len(wire), j < l, Creates(wire[j]), wire[j].id = k, j = 1
            PROVE  thread'[k] # Absent
        <5>1. wire[1].body # Absent /\ About(k, wire[1]) /\ wire[1].type # "deleted"
          BY <2>2, <4>6, Kinds DEF About, Creates
        <5> QED BY <4>3, <4>4, <5>1 DEF Shows
      <4>7. ASSUME NEW j \in 1 .. Len(wire), j < l, Creates(wire[j]), wire[j].id = k, j > 1
            PROVE  \E n \in 1 .. Len(wire') : n < m /\ Creates(wire'[n]) /\ wire'[n].id = k
        <5>1. PICK n \in 1 .. Len(wire') : n = j - 1 /\ wire'[n] = wire[j]
          BY <2>2, <4>7, FirstTaken
        <5>2. n < m
          BY <1>1, <4>1, <4>7, <5>1
        <5> QED BY <4>7, <5>1, <5>2 DEF Creates
      <4>8. \A j \in 1 .. Len(wire) : j = 1 \/ j > 1
        BY <1>1
      <4> QED BY <1>2, <4>2, <4>5, <4>6, <4>7, <4>8
    <3> QED BY <2>6, <3>1, <3>3, <3>4 DEF BadgeFollows
  <2> QED BY <2>1, <2>6, <2>7
<1> QED BY <1>4, <1>6 DEF BadgeInv

NothingIn(th) == \A k \in Ids : th[k] = Absent

\* An answer leaves the badge alone, or it is a list, or the thread is about to be marked as
\* read, or nothing is left of the thread.
LEMMA AnswerShown ==
    ASSUME Sane, TimerOpen, ReceiveAnswer, NEW x, NEW a, x = calls[1], a = wire[1]
    PROVE  /\ TimerOpen'
           /\ \/ pane'.timer = TRUE
              \/ /\ badge' = (IF x.op = "list" /\ a.type = "reply" THEN a.unread ELSE badge)
                 /\ pane'.timer = pane.timer
              \/ x.op = "history" /\ a.type = "reply" /\ NothingIn(a.messages) /\ badge' = badge
              \/ x.op = "send" /\ a.type = "error" /\ NothingIn(thread)
<1>1. /\ thread \in Copies /\ optimistic \in [Nonces -> Optimistic \cup {Absent}]
      /\ pane \in Pane /\ (pane.timer => pane.open)
  BY DEF Sane, MessagingTypeOK, TimerOpen
<1>2. /\ Head(calls) = x /\ Head(wire) = a /\ a \in Answer /\ 1 \in 1 .. Len(calls)
      /\ 1 \in 1 .. Len(wire) /\ Awaited(x.op)
  BY Arriving
<1>3. /\ CallFits(x) /\ AnswerFits(1) /\ a.type \in {"reply", "error"} /\ a.messages \in Copies
      /\ x.op \in {"history", "older", "list", "send", "read"}
  <2>1. x \in Call
    BY <1>2, Carried DEF Sane
  <2> QED BY <1>2, <2>1, Kinds DEF Sane, CallsFit, WireFits
<1>4. CASE x.op = "history"
  <2>1. HistoryArrives(x, a)
    BY <1>2, <1>4 DEF ReceiveAnswer
  <2>2. CASE a.type = "reply" /\ x.live
    <3>1. PICK op, p : /\ op = [n \in Nonces |-> Absent]
                       /\ p = [pane EXCEPT !.reachedStart = Cardinality(Loaded(a.messages)) < Page]
      OBVIOUS
    <3>2. Show(a.messages, op, badge, p)
      BY <2>1, <2>2, <3>1 DEF HistoryArrives
    <3>3. p \in Pane /\ p.open = pane.open /\ p.timer = pane.timer
      <4>1. (Cardinality(Loaded(a.messages)) < Page) \in BOOLEAN
        OBVIOUS
      <4>2. PICK t \in BOOLEAN : p = [pane EXCEPT !.reachedStart = t]
        BY <3>1, <4>1
      <4> QED BY <1>1, <4>2 DEF Pane
    <3>4. /\ \/ badge' = badge /\ pane' = p
             \/ pane'.timer = TRUE
             \/ badge' = badge /\ Count(a.messages, op) = 0
          /\ TimerOpen'
      BY <1>1, <3>2, <3>3, BadgeShown
    <3>5. Count(a.messages, op) = 0 => NothingIn(a.messages)
      BY CountZero DEF NothingIn
    <3> QED BY <1>4, <2>2, <3>3, <3>4, <3>5
  <2>3. CASE ~(a.type = "reply" /\ x.live)
    <3>1. badge' = badge /\ pane' = pane
      BY <2>1, <2>3 DEF HistoryArrives
    <3> QED BY <1>4, <3>1 DEF TimerOpen
  <2> QED BY <2>2, <2>3
<1>5. CASE x.op = "older"
  <2>1. OlderArrives(a)
    BY <1>2, <1>5 DEF ReceiveAnswer
  <2>2. PICK th, p :
          /\ th = [i \in Ids |-> IF thread[i] = Absent /\ a.type = "reply"
                                 THEN a.messages[i] ELSE thread[i]]
          /\ p = IF IsOpen
                 THEN [pane EXCEPT !.loadingOlder = FALSE,
                                   !.reachedStart = @ \/ (a.type = "reply"
                                        /\ Cardinality(Loaded(a.messages)) < Page)]
                 ELSE pane
    OBVIOUS
  <2>3. Show(th, optimistic, badge, p)
    BY <2>1, <2>2 DEF OlderArrives
  <2>4. p \in Pane /\ p.open = pane.open /\ p.timer = pane.timer
    BY <1>1, <2>2 DEF Pane
  <2>5. \A k \in Ids : th[k] = Absent => thread[k] = Absent
    BY <2>2
  <2>6. Count(th, optimistic) = 0 => Count(thread, optimistic) = 0
    BY <2>5, CountZero
  <2>7. ((badge' = badge /\ pane' = p) \/ pane'.timer = TRUE) /\ TimerOpen'
    BY <1>1, <2>3, <2>4, <2>6, BadgeShown
  <2> QED BY <1>5, <2>4, <2>7
<1>6. CASE x.op = "send"
  <2>1. SendArrives(x, a)
    BY <1>2, <1>6 DEF ReceiveAnswer
  <2>2. PICK p : p = IF IsOpen THEN [pane EXCEPT !.sending = FALSE] ELSE pane
    OBVIOUS
  <2>3. p \in Pane /\ p.open = pane.open /\ p.timer = pane.timer
    BY <1>1, <2>2 DEF Pane
  <2>4. CASE a.type = "reply"
    <3>1. PICK k \in 1 .. Len(log) : Brings(a, k)
      BY <1>2, <1>3, <1>6, <2>4 DEF AnswerFits
    <3>2. k \in Ids /\ x.body # Absent
      <4>1. x.body \in Bodies
        BY <1>3, <1>6 DEF CallFits
      <4> QED BY <4>1, Carried, Kinds DEF Sane, Ids
    <3>3. a.messages[k] # Absent
      BY <3>1, <3>2 DEF Brings
    <3>4. PICK s, op :
            /\ s = CHOOSE i \in Loaded(a.messages) : TRUE
            /\ op = [n \in Nonces |-> IF n = x.at THEN Absent ELSE WithoutEcho("me", x.body)[n]]
      OBVIOUS
    <3>5. s \in Ids
      BY <3>2, <3>3, <3>4 DEF Loaded
    <3>6. Show(Merge(s, x.body), op, badge, p)
      BY <2>1, <2>2, <2>4, <3>4 DEF SendArrives
    <3>7. Merge(s, x.body)[s] # Absent
      BY <1>1, <3>2, <3>5 DEF Merge, Copies
    <3>8. Count(Merge(s, x.body), op) # 0
      BY <3>5, <3>7, CountZero
    <3>9. ((badge' = badge /\ pane' = p) \/ pane'.timer = TRUE) /\ TimerOpen'
      BY <1>1, <2>3, <3>6, <3>8, BadgeShown
    <3> QED BY <1>6, <2>3, <3>9
  <2>5. CASE a.type = "error"
    <3>1. PICK op : op = [optimistic EXCEPT ![x.at] = Absent]
      OBVIOUS
    <3>2. Show(thread, op, badge, p)
      BY <2>1, <2>2, <2>5, <3>1 DEF SendArrives
    <3>3. /\ \/ badge' = badge /\ pane' = p
             \/ pane'.timer = TRUE
             \/ Count(thread, op) = 0
          /\ TimerOpen'
      BY <1>1, <2>3, <3>2, BadgeShown
    <3>4. Count(thread, op) = 0 => NothingIn(thread)
      BY CountZero DEF NothingIn
    <3> QED BY <1>6, <2>3, <2>5, <3>3, <3>4
  <2> QED BY <1>3, <2>4, <2>5
<1>7. CASE x.op \in {"list", "read"}
  <2>1. badge' = (IF x.op = "list" /\ a.type = "reply" THEN a.unread ELSE badge) /\ pane' = pane
    <3>1. CASE x.op = "list" /\ a.type = "reply"
      BY <1>2, <3>1 DEF ReceiveAnswer
    <3>2. CASE ~(x.op = "list" /\ a.type = "reply")
      BY <1>2, <1>7, <3>2 DEF ReceiveAnswer
    <3> QED BY <3>1, <3>2
  <2> QED BY <2>1 DEF TimerOpen
<1> QED BY <1>3, <1>4, <1>5, <1>6, <1>7

\* Nothing has been read of a conversation that is all announced: all of it counts.
LEMMA EmptyCounts ==
    ASSUME Sane, NewStay, NoneSetsAfter(1), EmptyPage, 1 \in 1 .. Len(wire),
           Reply(1, "history"), NothingIn(wire[1].messages)
    PROVE  badge + Cardinality(New(1)) = Cardinality(Unread)
<1>1. Len(log) \in Nat /\ badge \in Nat /\ badge <= Len(log)
  BY Carried, Kinds DEF Sane, StoreFits, MessagingTypeOK
<1>2. /\ \A k \in 1 .. Len(log) : Announced(k, 1)
      /\ lastRead = 0
  BY DEF EmptyPage, NothingIn, NoneSetsAfter, Sets
<1>3. ASSUME NEW k \in 1 .. Len(log)
      PROVE  badge < k /\ (log[k].by = "other" => log[k].body # Gone) /\ k > lastRead
  <2>1. PICK j \in 1 .. Len(wire) : Creates(wire[j]) /\ wire[j].id = k
    BY <1>2 DEF Announced
  <2>2. badge < k /\ wire[j].by = log[k].by
    BY <2>1 DEF Sane, WireFits, EventFits, Creates
  <2>3. k > lastRead
    BY <1>1, <1>2
  <2> QED BY <2>1, <2>2, <2>3 DEF NewStay
<1>4. New(1) = Unread
  BY <1>2, <1>3 DEF New, Unread
<1>5. badge = 0
  <2>1. CASE Len(log) = 0
    BY <1>1, <2>1
  <2>2. CASE Len(log) # 0
    <3>1. 1 \in 1 .. Len(log)
      BY <1>1, <2>2
    <3> QED BY <1>1, <1>3, <3>1
  <2> QED BY <2>1, <2>2
<1>6. Cardinality(Unread) \in Nat
  BY Numbers DEF Sane
<1> QED BY <1>4, <1>5, <1>6

\* The answer is in: what it leaves of the badge counts.
LEMMA AnswerCounts ==
    ASSUME Sane, TimerOpen, ReceiveAnswer, NewStay, LostSend, EmptyPage, SetRight, CountsRight,
           NoneSetsAfter(1), 1 \in 1 .. Len(wire), ~ReadComes', ReadComes /\ ~pane.timer => ReadComes'
    PROVE  badge' + Cardinality(New(1)) = Cardinality(Unread)
<1>1. PICK x, a : x = calls[1] /\ a = wire[1]
  OBVIOUS
<1>2. a \in Answer /\ a \notin Event /\ a.type \in {"reply", "error"} /\ Awaited(x.op)
  BY <1>1, Arriving, Kinds
<1>3. ~(pane'.timer = TRUE)
  BY DEF ReadComes
<1>4. \/ /\ badge' = (IF x.op = "list" /\ a.type = "reply" THEN a.unread ELSE badge)
         /\ pane'.timer = pane.timer
      \/ x.op = "history" /\ a.type = "reply" /\ NothingIn(a.messages) /\ badge' = badge
      \/ x.op = "send" /\ a.type = "error" /\ NothingIn(thread)
  BY <1>1, <1>3, AnswerShown
<1>5. \A op : Awaited(op) <=> op = x.op
  BY <1>1, <1>2 DEF Awaited
<1>6. CASE x.op = "list" /\ a.type = "reply"
  <2>1. Reply(1, "list") /\ Sets(1) /\ ~IsRead(wire[1])
    BY <1>1, <1>2, <1>6 DEF Reply, Sets, IsRead
  <2>2. a.unread + Cardinality(New(1)) = Cardinality(Unread)
    BY <1>1, <2>1 DEF SetRight
  <2> QED BY <1>4, <1>6, <2>2
<1>7. CASE /\ ~(x.op = "list" /\ a.type = "reply")
           /\ badge' = badge /\ pane'.timer = pane.timer
  <2>1. ~Sets(1)
    BY <1>1, <1>2, <1>5, <1>7 DEF Sets, IsRead, Reply
  <2>2. NoneSetsAfter(0)
    BY <2>1, Carried DEF NoneSetsAfter, Sane
  <2>3. ~ReadComes
    <3>1. pane.timer # TRUE /\ pane.timer \in BOOLEAN
      BY <1>3, <1>7 DEF Sane, MessagingTypeOK, Pane
    <3> QED BY <3>1
  <2>4. badge + Cardinality(New(0)) = Cardinality(Unread)
    BY <2>2, <2>3 DEF CountsRight
  <2>5. New(0) = New(1)
    <3>1. \A k : Announced(k, 0) <=> Announced(k, 1)
      <4>1. ~Creates(wire[1])
        BY <1>1, <1>2 DEF Creates
      <4>2. \A j \in 1 .. Len(wire) : j = 1 \/ j > 1
        BY Carried DEF Sane
      <4>3. \A j \in 1 .. Len(wire) : j > 0
        OBVIOUS
      <4> QED BY <4>1, <4>2, <4>3 DEF Announced
    <3> QED BY <3>1 DEF New
  <2> QED BY <1>7, <2>4, <2>5
<1>8. CASE x.op = "history" /\ a.type = "reply" /\ NothingIn(a.messages) /\ badge' = badge
  <2>1. Reply(1, "history")
    BY <1>1, <1>2, <1>8 DEF Reply
  <2> QED BY <1>1, <1>8, <2>1, EmptyCounts
<1>9. CASE x.op = "send" /\ a.type = "error" /\ NothingIn(thread)
  <2>1. \E k \in 1 .. Len(log) :
          thread[k] # Absent \/ \E j \in 1 .. Len(wire) : j < 1 /\ Creates(wire[j]) /\ wire[j].id = k
    BY <1>1, <1>2, <1>9 DEF LostSend
  <2>2. \A j \in 1 .. Len(wire) : ~(j < 1)
    OBVIOUS
  <2>3. \A k \in 1 .. Len(log) : k \in Ids
    BY Carried, Kinds DEF Sane, Ids
  <2> QED BY <1>9, <2>1, <2>2, <2>3 DEF NothingIn
<1> QED BY <1>2, <1>4, <1>6, <1>7, <1>8, <1>9

\* A list that is all there is sets the badge right.
LEMMA PeaceCounts ==
    ASSUME Sane, Sane', ReceiveAnswer, InPeace("list", Head(wire).unread = UnreadCount)
    PROVE  NewStay' /\ BadgeFollows'
<1>1. /\ Head(calls) = calls[1] /\ Head(wire) = wire[1] /\ wire[1] \in Answer
      /\ calls[1].op = "list" /\ wire[1].type = "reply" /\ wire[1].unread = UnreadCount
      /\ Len(wire) = 1
  BY Arriving DEF InPeace
<1>2. /\ \A k \in 1 .. Len(wire') : k + 1 \in 1 .. Len(wire)
      /\ UNCHANGED <<log, lastRead>> /\ \A op : ~Awaited(op)' /\ Len(wire') \in Nat
  BY AnswerGone, FirstTaken DEF Taken
<1>3. 1 .. Len(wire') = {}
  <2>1. \A k \in 1 .. Len(wire') : FALSE
    BY <1>1, <1>2
  <2> QED BY <2>1
<1>4. badge' = UnreadCount
  BY <1>1 DEF ReceiveAnswer
<1>5. UnreadCount = Cardinality(Unread) /\ Cardinality(Unread) \in Nat
  BY Numbers DEF Sane
<1>6. New(0)' = {} /\ Unread' = Unread
  BY <1>2, <1>3 DEF New, Unread, Announced
<1>7. Cardinality(New(0)') = 0
  BY <1>6, FS_EmptySet
<1>8. CountsRight'
  BY <1>4, <1>5, <1>6, <1>7 DEF CountsRight
<1> QED BY <1>3, <1>8 DEF NewStay, BadgeFollows, LostSend, EmptyPage, SetRight

LEMMA ReceiveAnswerBadge ==
    ASSUME Sane, Sane', BadgeInv, TimerOpen, ReceiveAnswer
    PROVE  BadgeInv' /\ TimerOpen'
<1>1. TimerOpen'
  BY AnswerShown
<1>2. /\ Taken(1) /\ 1 \in 1 .. Len(wire) /\ 1 \in 1 .. Len(calls) /\ calls[1].sent
      /\ UNCHANGED <<log, lastRead, online, spent>>
      /\ wire[1] \in Answer
  BY Arriving, AnswerGone
<1>3. /\ \A k \in 1 .. Len(calls') : k + 1 \in 1 .. Len(calls) /\ calls'[k] = calls[k + 1]
      /\ \A m \in 1 .. Len(calls) :
           m > 1 => m - 1 \in 1 .. Len(calls') /\ calls'[m - 1] = calls[m]
      /\ Len(calls) \in Nat
  BY AnswerGone
<1>4. \A k \in 1 .. Len(wire') : wire'[k] \in Event
  BY AnswerGone
<1>5. \A j \in 1 .. Len(wire') : \A op : Reply(j, op)' <=> Reply(j + 1, op)
  <2>1. \A j \in 1 .. Len(wire') : j + 1 \in 1 .. Len(wire) /\ wire'[j] = wire[j + 1]
    BY <1>2, FirstTaken
  <2>2. \A j \in 1 .. Len(wire') : wire'[j] \notin Answer
    BY <1>4, Kinds
  <2> QED BY <2>1, <2>2 DEF Reply
<1>6. /\ NewStay => NewStay'
      /\ EmptyPage => EmptyPage'
      /\ SetRight => SetRight'
      /\ NoneSetsAfter(0)' <=> NoneSetsAfter(1)
      /\ New(0)' = New(1) /\ Unread' = Unread
  BY <1>2, <1>5, BooksShift
<1>7. \A m \in 1 .. Len(calls) : ~calls[m].sent =>
        \E k \in 1 .. Len(calls') : calls'[k] = calls[m]
  <2>1. \A m \in 1 .. Len(calls) : ~calls[m].sent => m > 1
    BY <1>2, <1>3
  <2> QED BY <1>3, <2>1
<1>8. ListComes => ListComes'
  BY <1>7 DEF ListComes
<1>9. ReadComes /\ ~pane.timer => ReadComes'
  BY <1>7 DEF ReadComes
<1>10. ASSUME "badge" \notin disturbed'
       PROVE  NewStay' /\ (online' /\ ~ListComes' => BadgeFollows')
  <2>1. CASE "badge" \in disturbed
    <3>1. InPeace("list", Head(wire).unread = UnreadCount)
      BY <1>10, <2>1 DEF ReceiveAnswer
    <3> QED BY <3>1, PeaceCounts
  <2>2. CASE "badge" \notin disturbed
    <3>1. NewStay /\ (online /\ ~ListComes => BadgeFollows)
      BY <2>2 DEF BadgeInv
    <3>2. ASSUME online', ~ListComes'  PROVE BadgeFollows'
      <4>1. LostSend /\ EmptyPage /\ SetRight /\ CountsRight
        BY <1>2, <1>8, <3>1, <3>2 DEF BadgeFollows
      <4>2. ASSUME NoneSetsAfter(0)', ~ReadComes'
            PROVE  badge' + Cardinality(New(0)') = Cardinality(Unread')
        BY <1>2, <1>6, <1>9, <3>1, <4>1, <4>2, AnswerCounts
      <4>3. CountsRight'
        BY <4>2 DEF CountsRight
      <4>4. LostSend'
        <5>1. \A k \in 1 .. Len(wire') : wire'[k] \notin Answer
          BY <1>4, Kinds
        <5> QED BY <5>1 DEF LostSend
      <4> QED BY <1>6, <4>1, <4>3, <4>4 DEF BadgeFollows
    <3> QED BY <1>6, <3>1, <3>2
  <2> QED BY <2>1, <2>2
<1> QED BY <1>1, <1>10 DEF BadgeInv

LEMMA BadgeStepKeeps ==
    ASSUME Sane, Sane', BadgeInv, TimerOpen, [MessagingNext]_messagingVars
    PROVE  BadgeInv' /\ TimerOpen'
<1>1. CASE OpenThread \/ CloseThread \/ TimerFires \/ LoadOlder \/ Relist \/ Connect
  BY <1>1, OpenBadge, CloseBadge, TimerBadge, LoadOlderBadge, RelistBadge, ConnectBadge
<1>2. CASE \E b \in Bodies : Send(b)
  BY <1>2, SendBadge
<1>3. CASE \E b \in Bodies : OtherPosts(b)
  <2>1. BadgeInv'
    BY <1>3, PostBadge
  <2> QED BY <1>3, <2>1 DEF OtherPosts, TimerOpen
<1>4. CASE \E i \in DOMAIN log : Delete(i) \/ \E b \in Bodies : Edit(i, b)
  <2>1. BadgeInv'
    BY <1>4, RewriteBadge
  <2>2. pane' = pane
    BY <1>4 DEF Delete, Edit
  <2> QED BY <2>1, <2>2 DEF TimerOpen
<1>5. CASE (\E lost \in BOOLEAN : Serve(lost)) \/ Refuse \/ ReadElsewhere
  <2>1. BadgeInv'
    BY <1>5, ServeBadge, RefuseBadge, ReadBadge
  <2>2. pane' = pane
    BY <1>5 DEF Serve, Refuse, ReadElsewhere
  <2> QED BY <2>1, <2>2 DEF TimerOpen
<1>6. CASE (\E i \in DOMAIN wire : ReceiveEvent(i)) \/ ReceiveAnswer
  BY <1>6, ReceiveEventBadge, ReceiveAnswerBadge
<1>7. CASE Cut
  <2>1. ~online' /\ pane' = pane
    BY <1>7 DEF Cut
  <2>2. BadgeInv'
    BY <2>1, OfflineBadge
  <2> QED BY <2>1, <2>2 DEF TimerOpen
<1>8. CASE UNCHANGED messagingVars
  <2>1. /\ UNCHANGED <<log, lastRead, thread, badge, pane, online, calls, wire, disturbed>>
        /\ calls' = calls
    BY <1>8 DEF messagingVars
  <2>2. CallsMore
    BY <2>1, CallsSame
  <2>3. BadgeInv'
    BY <2>1, <2>2, LocalBadge
  <2> QED BY <2>1, <2>3 DEF TimerOpen
<1> QED
  BY <1>1, <1>2, <1>3, <1>4, <1>5, <1>6, <1>7, <1>8 DEF MessagingNext

LEMMA BadgeInvariance == MessagingSpec => [](Sane /\ BadgeInv /\ TimerOpen)
<1>1. MessagingInit => BadgeInv /\ TimerOpen
  BY InitBadge DEF MessagingInit, TimerOpen, Closed
<1>2. MessagingInv => Sane
  BY DEF MessagingInv
<1>3. Sane /\ Sane' /\ BadgeInv /\ TimerOpen /\ [MessagingNext]_messagingVars
        => BadgeInv' /\ TimerOpen'
  BY BadgeStepKeeps
<1> QED BY MessagingInvariance, <1>1, <1>2, <1>3, PTL DEF MessagingSpec

LEMMA BadgeSettles ==
    ASSUME Sane, BadgeInv, Settled, "badge" \notin disturbed
    PROVE  badge = UnreadCount
<1>1. online /\ wire = <<>> /\ calls = <<>> /\ ~pane.timer
  BY DEF Settled
<1>2. ~ListComes /\ ~ReadComes /\ NoneSetsAfter(0)
  BY <1>1 DEF ListComes, ReadComes, NoneSetsAfter
<1>3. badge + Cardinality(New(0)) = Cardinality(Unread)
  BY <1>1, <1>2 DEF BadgeInv, BadgeFollows, CountsRight
<1>4. New(0) = {}
  BY <1>1 DEF New, Announced
<1>5. Cardinality(New(0)) = 0
  BY <1>4, FS_EmptySet
<1>6. badge \in Nat /\ UnreadCount = Cardinality(Unread)
  BY Numbers, Kinds DEF Sane, MessagingTypeOK
<1> QED BY <1>3, <1>5, <1>6

\* Once nothing is under way the conversation list's badge is the server's unread count,
\* however the counting of events, the delayed mark-as-read and the listings of the
\* conversations interleave, and also after sockets were lost: the listing that a new socket
\* asks for makes up for what was missed.  After a disturbance of the badge, it is so again
\* from the next listing on that is all there is.
THEOREM BadgeIsRight == MessagingSpec => []BadgeConverges
<1>1. Sane /\ BadgeInv => BadgeConverges
  BY BadgeSettles DEF BadgeConverges
<1> QED BY BadgeInvariance, <1>1, PTL
=============================================================================

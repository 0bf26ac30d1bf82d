-------------------------- MODULE BoardSyncProofs --------------------------
(***************************************************************************)
(* Proofs about BoardSync, for any number of browsers, cards, calls,       *)
(* re-pulls and cuts: every browser that nothing has spoilt comes to show  *)
(* the server's board, and no event moves or changes a card in hand.       *)
(*                                                                         *)
(* The inductive invariant has two halves.  Sane holds always: a browser   *)
(* awaits one answer, and calls, answers and events fit the board they     *)
(* will meet.  Follows holds of a browser that no disturbance has spoilt:  *)
(* the last thing under way about a card says what the board has of it,    *)
(* and wherever browser and board differ, something that will make them    *)
(* agree is still under way (a re-pull, a call of the browser's own, a     *)
(* word of the server).  That the order of answers and events is arbitrary *)
(* is why both speak of the last one about a card.                         *)
(***************************************************************************)
EXTENDS BoardSync, SequenceTheorems, TLAPS

-----------------------------------------------------------------------------
(* The inductive invariant.                                                  *)

\* A browser has one call on its way, the first, and awaits one answer.
OneAnswer(c) ==
    /\ \A i \in 1 .. Len(calls[c]) : calls[c][i].sent => i = 1
    /\ \A i \in 1 .. Len(outbox) : outbox[i].by = c =>
         /\ calls[c] # <<>> /\ calls[c][1].sent
         /\ \A j \in 1 .. Len(outbox) : outbox[j].by = c => j = i
         /\ \A j \in 1 .. Len(wire[c]) : wire[c][j] \notin Answer
    /\ \A i \in 1 .. Len(wire[c]) : wire[c][i] \in Answer =>
         /\ calls[c] # <<>> /\ calls[c][1].sent
         /\ \A j \in 1 .. Len(wire[c]) : wire[c][j] \in Answer => j = i

\* A call fits the board it will meet.
CallFits(x) ==
    /\ x.op # "resync" => x.with \in Card
    /\ x.op \in {"place", "text", "remove"} => board[x.card] # None
    /\ x.op = "create" /\ ~x.sent => board[x.card] = None

CallsFit(c) == \A i \in 1 .. Len(calls[c]) : CallFits(calls[c][i])

\* Two calls do not create the same card.
CreatedOnce ==
    \A c, d \in Browsers : \A i \in 1 .. Len(calls[c]), j \in 1 .. Len(calls[d]) :
        calls[c][i].op = "create" /\ calls[d][j].op = "create"
            /\ calls[c][i].card = calls[d][j].card => c = d /\ i = j

EventFits(e) ==
    IF e.type = "deleted" THEN e.with = None /\ board[e.card] = Deleted
    ELSE e.with \in Card /\ board[e.card] # None

AnswerFits(c, a) ==
    /\ a.type = "reply" /\ calls[c][1].op = "create" => a.board[calls[c][1].card] \in Card
    /\ \A k \in Cards : board[k] = None => a.board[k] = None

\* What the server sends fits the board it has now.
OutFits(out) ==
    /\ out.event # None =>
         EventFits(out.event) /\ out.event.with = out.answer.board[out.event.card]
    /\ AnswerFits(out.by, out.answer)
    /\ calls[out.by][1].op = "resync" => out.event = None

OutboxFits == \A i \in 1 .. Len(outbox) : OutFits(outbox[i])

WireFits(c) ==
    \A i \in 1 .. Len(wire[c]) :
        /\ wire[c][i] \in Event => EventFits(wire[c][i]) /\ online[c]
        /\ wire[c][i] \in Answer => AnswerFits(c, wire[c][i])

\* Nobody sees a card before it is created.
Unseen == \A c \in Browsers, k \in Cards : board[k] = None => view[c][k] = None

EventOn(k, m) == m \in Event /\ m.card = k

\* An answer that decides what the browser will show of the card.
AnswerOn(c, k, a) ==
    /\ a \in Answer /\ a.type = "reply"
    /\ calls[c][1].op = "resync" \/ (calls[c][1].op = "create" /\ calls[c][1].card = k)

NoneOut(k) == \A i \in 1 .. Len(outbox) : ~EventOn(k, outbox[i].event)

NoneOutFrom(k, n) == \A i \in 1 .. Len(outbox) : i >= n => ~EventOn(k, outbox[i].event)

NoneAfter(c, k, n) == \A i \in 1 .. Len(wire[c]) : i > n => ~EventOn(k, wire[c][i])

Resyncing(c) == \E i \in 1 .. Len(calls[c]) : calls[c][i].op = "resync" /\ ~calls[c][i].sent

\* The last that is under way of a card is what the board has of it.
OutCurrent ==
    \A i \in 1 .. Len(outbox), k \in Cards :
        NoneOutFrom(k, i + 1) => outbox[i].answer.board[k] = Visible(board)[k]

WireCurrent(c) ==
    online[c] =>
        \A i \in 1 .. Len(wire[c]), k \in Cards :
            NoneOut(k) /\ NoneAfter(c, k, i) =>
                /\ EventOn(k, wire[c][i]) => wire[c][i].with = Visible(board)[k]
                /\ AnswerOn(c, k, wire[c][i]) /\ ~Resyncing(c) =>
                     wire[c][i].board[k] = Visible(board)[k]

\* A shield outlives its gesture only if the card has been deleted.
ShieldsFit(c) == \A k \in activeIds[c] : hand[c][k] = "empty" => board[k] = Deleted

\* An answer without a card comes before all there is of the card.
Earlier(c) ==
    \A k \in Cards : board[k] # Deleted =>
        /\ \A i \in 1 .. Len(outbox) :
             outbox[i].by = c /\ AnswerOn(c, k, outbox[i].answer) /\ outbox[i].answer.board[k] = None =>
                /\ view[c][k] = None
                /\ \A j \in 1 .. Len(outbox) : j < i => ~EventOn(k, outbox[j].event)
                /\ \A j \in 1 .. Len(wire[c]) : ~EventOn(k, wire[c][j])
        /\ \A i \in 1 .. Len(wire[c]) :
             AnswerOn(c, k, wire[c][i]) /\ wire[c][i].board[k] = None =>
                /\ view[c][k] = None
                /\ \A j \in 1 .. Len(wire[c]) : j < i => ~EventOn(k, wire[c][j])

\* The browser will call the server about the card.
Speaks(c, k) ==
    \E i \in 1 .. Len(calls[c]) :
        ~calls[c][i].sent /\ calls[c][i].op \in {"place", "text", "remove"} /\ calls[c][i].card = k

\* The browser has more to say of the card.
Busy(c, k) == board[k] \in Card /\ (hand[c][k] # "empty" \/ Speaks(c, k))

\* The server has more to say of the card.
Word(c, k) ==
    \/ ~NoneOut(k)
    \/ \E i \in 1 .. Len(outbox) : outbox[i].by = c /\ AnswerOn(c, k, outbox[i].answer)
    \/ \E i \in 1 .. Len(wire[c]) : EventOn(k, wire[c][i]) \/ AnswerOn(c, k, wire[c][i])

WillShow(c) ==
    online[c] => \A k \in Cards :
        Resyncing(c) \/ Busy(c, k) \/ Word(c, k) \/ view[c][k] = Visible(board)[k]

\* A browser that no disturbance has spoilt.
Follows(c) == OutCurrent /\ WireCurrent(c) /\ ShieldsFit(c) /\ Earlier(c) /\ WillShow(c)

Sane ==
    /\ BoardTypeOK /\ CreatedOnce /\ OutboxFits /\ Unseen
    /\ \A c \in Browsers : OneAnswer(c) /\ CallsFit(c) /\ WireFits(c)

BoardInv == Sane /\ \A c \in Browsers : c \notin disturbed => Follows(c)

-----------------------------------------------------------------------------
(* Kinds of values.                                                          *)

LEMMA Kinds ==
    /\ None \notin Card /\ Deleted \notin Card /\ None # Deleted /\ None \notin Event
    /\ \A k \in Cards, b \in [Cards -> Row] :
         /\ Visible(b)[k] \in Shown
         /\ Visible(b)[k] = IF b[k] \in Card THEN b[k] ELSE None
    /\ \A b \in [Cards -> Row] : Visible(b) \in [Cards -> Shown]
    /\ \A m \in Event : m \notin Answer /\ m.card \in Cards /\ m.with \in Shown
                        /\ m.type \in {"upserted", "deleted"}
    /\ \A m \in Answer : m \notin Event /\ m.board \in [Cards -> Shown] /\ m.type \in {"reply", "error"}
    /\ \A x \in Call : x.card \in Cards /\ x.with \in Shown /\ x.sent \in BOOLEAN
                       /\ x.op \in {"create", "place", "text", "remove", "resync"}
BY BoardAssumption DEF BoardAssumption, Event, Answer, Call, Visible, Row, Shown

LEMMA Carried ==
    ASSUME BoardTypeOK
    PROVE  /\ board \in [Cards -> Row]
           /\ outbox \in Seq([by: Browsers, event: Event \cup {None}, answer: Answer])
           /\ \A i \in 1 .. Len(outbox) :
                /\ outbox[i].by \in Browsers /\ outbox[i].event \in Event \cup {None}
                /\ outbox[i].answer \in Answer
           /\ \A c \in Browsers :
                /\ calls[c] \in Seq(Call) /\ Len(calls[c]) \in Nat
                /\ wire[c] \in Seq(Event \cup Answer) /\ Len(wire[c]) \in Nat
                /\ \A i \in 1 .. Len(calls[c]) : calls[c][i] \in Call
                /\ \A i \in 1 .. Len(wire[c]) : wire[c][i] \in Event \cup Answer
                /\ view[c] \in [Cards -> Shown] /\ online[c] \in BOOLEAN
<1>1. outbox \in Seq([by: Browsers, event: Event \cup {None}, answer: Answer])
      /\ board \in [Cards -> Row]
  BY DEF BoardTypeOK
<1>2. ASSUME NEW i \in 1 .. Len(outbox)
      PROVE  outbox[i].by \in Browsers /\ outbox[i].event \in Event \cup {None}
             /\ outbox[i].answer \in Answer
  <2>1. outbox[i] \in [by: Browsers, event: Event \cup {None}, answer: Answer]
    BY <1>1, ElementOfSeq
  <2>. QED
    BY <2>1
<1>3. ASSUME NEW c \in Browsers
      PROVE  /\ calls[c] \in Seq(Call) /\ Len(calls[c]) \in Nat
             /\ wire[c] \in Seq(Event \cup Answer) /\ Len(wire[c]) \in Nat
             /\ \A i \in 1 .. Len(calls[c]) : calls[c][i] \in Call
             /\ \A i \in 1 .. Len(wire[c]) : wire[c][i] \in Event \cup Answer
             /\ view[c] \in [Cards -> Shown] /\ online[c] \in BOOLEAN
  <2>1. calls[c] \in Seq(Call) /\ wire[c] \in Seq(Event \cup Answer)
    BY DEF BoardTypeOK
  <2>2. Len(calls[c]) \in Nat /\ \A i \in 1 .. Len(calls[c]) : calls[c][i] \in Call
    BY <2>1, LenProperties
  <2>3. Len(wire[c]) \in Nat /\ \A i \in 1 .. Len(wire[c]) : wire[c][i] \in Event \cup Answer
    BY <2>1, LenProperties
  <2>4. view[c] \in [Cards -> Shown] /\ online[c] \in BOOLEAN
    BY DEF BoardTypeOK
  <2>. QED
    BY <2>1, <2>2, <2>3, <2>4
<1>. QED
  BY <1>1, <1>2, <1>3

LEMMA InitBoard == BoardInit => BoardInv
<1>. SUFFICES ASSUME BoardInit  PROVE BoardInv
  OBVIOUS
<1>1. /\ outbox = <<>> /\ Len(outbox) = 0
      /\ \A c \in Browsers : calls[c] = <<>> /\ wire[c] = <<>> /\ Len(calls[c]) = 0 /\ Len(wire[c]) = 0
      /\ \A c \in Browsers : online[c] = FALSE /\ activeIds[c] = {} /\ view[c] = Visible(board)
  BY DEF BoardInit
<1>2. board \in [Cards -> Row] /\ \A k \in Cards : board[k] # Deleted
  BY Kinds DEF BoardInit, Row
<1>3. BoardTypeOK
  <2>1. Visible(board) \in [Cards -> Shown]
    BY <1>2, Kinds
  <2>2. spent \in Ceiling
    BY BoardAssumption DEF BoardInit, Ceiling, BoardAssumption
  <2>3. \A c \in Browsers, k \in Cards : hand[c][k] = "empty"
    BY DEF BoardInit
  <2>4. hand \in [Browsers -> [Cards -> {"empty", "drag", "edit"}]]
    BY DEF BoardInit
  <2>. QED
    BY <1>1, <1>2, <2>1, <2>2, <2>3, <2>4 DEF BoardTypeOK, BoardInit
<1>4. Unseen
  BY <1>1, <1>2, Kinds DEF Unseen
<1>5. Sane
  BY <1>1, <1>3, <1>4 DEF Sane, CreatedOnce, OutboxFits, OneAnswer, CallsFit, WireFits
<1>6. \A c \in Browsers : Follows(c)
  BY <1>1, <1>2 DEF Follows, OutCurrent, WireCurrent, ShieldsFit, Earlier, WillShow
<1>. QED
  BY <1>5, <1>6 DEF BoardInv

-----------------------------------------------------------------------------
(* What happens in a browser.                                                *)

\* The queues of calls after one was added, if any.
Added(q) ==
    \A d \in Browsers :
        /\ q[d] \in Seq(Call) /\ Len(q[d]) \in Nat /\ Len(q[d]) >= Len(calls[d])
        /\ \A i \in 1 .. Len(calls[d]) : q[d][i] = calls[d][i]
        /\ \A i \in 1 .. Len(q[d]) : i > Len(calls[d]) => ~q[d][i].sent

\* The calls are in order after a step.
CallsFine ==
    /\ Added(calls') /\ CreatedOnce' /\ \A d \in Browsers : CallsFit(d)'
    /\ calls' \in [Browsers -> Seq(Call)]

LEMMA CallAdded ==
    ASSUME Sane, NEW c \in Browsers, NEW x \in Call, ~x.sent, CallFits(x),
           x.op = "create" => ~Pending("create", x.card), Enqueue(c, x), UNCHANGED board
    PROVE  CallsFine /\ Len(calls'[c]) = Len(calls[c]) + 1 /\ calls'[c][Len(calls[c]) + 1] = x
<1>0. calls \in [Browsers -> Seq(Call)] /\ BoardTypeOK
  BY DEF Sane, BoardTypeOK
<1>1. calls'[c] = Append(calls[c], x) /\ \A d \in Browsers : d # c => calls'[d] = calls[d]
  BY <1>0 DEF Enqueue
<1>2. \A d \in Browsers : calls[d] \in Seq(Call) /\ Len(calls[d]) \in Nat
  BY <1>0, Carried
<1>3. /\ calls'[c] \in Seq(Call) /\ Len(calls'[c]) = Len(calls[c]) + 1
      /\ calls'[c][Len(calls[c]) + 1] = x
      /\ \A i \in 1 .. Len(calls[c]) : calls'[c][i] = calls[c][i]
  BY <1>1, <1>2, AppendProperties
<1>4. Added(calls')
  <2>1. ASSUME NEW d \in Browsers
        PROVE  /\ calls'[d] \in Seq(Call) /\ Len(calls'[d]) \in Nat /\ Len(calls'[d]) >= Len(calls[d])
               /\ \A i \in 1 .. Len(calls[d]) : calls'[d][i] = calls[d][i]
               /\ \A i \in 1 .. Len(calls'[d]) : i > Len(calls[d]) => ~calls'[d][i].sent
    <3>1. CASE d = c
      BY <1>2, <1>3, <3>1
    <3>2. CASE d # c
      BY <1>1, <1>2, <3>2
    <3>. QED
      BY <3>1, <3>2
  <2>. QED
    BY <2>1 DEF Added
<1>5. ASSUME NEW d \in Browsers, NEW i \in 1 .. Len(calls'[d])
      PROVE  (i \in 1 .. Len(calls[d]) /\ calls'[d][i] = calls[d][i])
             \/ (d = c /\ i = Len(calls[c]) + 1 /\ calls'[d][i] = x)
  <2>1. CASE d = c
    BY <1>2, <1>3, <2>1
  <2>2. CASE d # c
    BY <1>1, <2>2
  <2>. QED
    BY <2>1, <2>2
<1>6. \A d \in Browsers : CallsFit(d)'
  <2>. SUFFICES ASSUME NEW d \in Browsers, NEW i \in 1 .. Len(calls'[d])
                PROVE  CallFits(calls'[d][i])
    BY DEF CallsFit, CallFits
  <2>1. CASE i \in 1 .. Len(calls[d]) /\ calls'[d][i] = calls[d][i]
    BY <2>1 DEF Sane, CallsFit
  <2>2. CASE calls'[d][i] = x
    BY <2>2
  <2>. QED
    BY <1>5, <2>1, <2>2
<1>7. CreatedOnce'
  <2>. SUFFICES ASSUME NEW d \in Browsers, NEW e \in Browsers,
                       NEW i \in 1 .. Len(calls'[d]), NEW j \in 1 .. Len(calls'[e]),
                       calls'[d][i].op = "create", calls'[e][j].op = "create",
                       calls'[d][i].card = calls'[e][j].card
                PROVE  d = e /\ i = j
    BY DEF CreatedOnce
  <2>1. \A f \in Browsers : DOMAIN calls[f] = 1 .. Len(calls[f])
    BY <1>2
  <2>2. \A f \in Browsers : \A n \in 1 .. Len(calls[f]) :
          x.op = "create" => ~(calls[f][n].op = "create" /\ calls[f][n].card = x.card)
    BY <2>1 DEF Pending
  <2>3. \A f, g \in Browsers : \A m \in 1 .. Len(calls[f]), n \in 1 .. Len(calls[g]) :
           calls[f][m].op = "create" /\ calls[g][n].op = "create"
             /\ calls[f][m].card = calls[g][n].card => f = g /\ m = n
    BY DEF Sane, CreatedOnce
  <2>4. CASE i \in 1 .. Len(calls[d]) /\ calls'[d][i] = calls[d][i]
    BY <1>5, <2>2, <2>3, <2>4
  <2>5. CASE d = c /\ i = Len(calls[c]) + 1 /\ calls'[d][i] = x
    BY <1>5, <2>2, <2>5
  <2>. QED
    BY <1>5, <2>4, <2>5
<1>8. calls' \in [Browsers -> Seq(Call)]
  BY <1>0, <1>1, <1>3 DEF Enqueue
<1>. QED
  BY <1>3, <1>4, <1>6, <1>7, <1>8 DEF CallsFine

\* Nothing is sent and nothing comes: what a browser does for itself.
LEMMA LocalKeeps ==
    ASSUME BoardInv, UNCHANGED <<board, outbox, wire>>, BoardTypeOK', CallsFine,
           \A d \in Browsers, k \in Cards : view[d][k] = None => view'[d][k] = None,
           \A d \in Browsers : online[d] => online'[d],
           \A d \in Browsers : ~online[d] /\ online'[d] => Resyncing(d)',
           disturbed \subseteq disturbed',
           \A d \in Browsers : d \notin disturbed' => ShieldsFit(d)' /\ WillShow(d)'
    PROVE  BoardInv'
<1>0. /\ BoardTypeOK /\ \A d \in Browsers : Len(calls[d]) \in Nat /\ calls[d] \in Seq(Call)
      /\ Added(calls') /\ CreatedOnce' /\ \A d \in Browsers : CallsFit(d)'
  BY Carried DEF BoardInv, Sane, CallsFine
<1>1. ASSUME NEW d \in Browsers, calls[d] # <<>>
      PROVE  calls'[d] # <<>> /\ calls'[d][1] = calls[d][1]
  <2>1. 1 \in 1 .. Len(calls[d])
    BY <1>0, <1>1
  <2>2. 1 \in 1 .. Len(calls'[d]) /\ calls'[d][1] = calls[d][1]
    BY <1>0, <2>1 DEF Added
  <2>. QED
    BY <2>2
<1>2. ASSUME NEW d \in Browsers
      PROVE  /\ \A i \in 1 .. Len(outbox) : outbox[i].by = d => calls[d] # <<>>
             /\ \A i \in 1 .. Len(wire[d]) : wire[d][i] \in Answer => calls[d] # <<>>
  BY DEF BoardInv, Sane, OneAnswer
<1>3. ASSUME NEW d \in Browsers  PROVE OneAnswer(d)'
  <2>1. OneAnswer(d)
    BY DEF BoardInv, Sane
  <2>2. ASSUME NEW i \in 1 .. Len(calls'[d]), calls'[d][i].sent  PROVE i = 1
    BY <1>0, <2>1, <2>2 DEF Added, OneAnswer
  <2>. QED
    BY <1>1, <2>1, <2>2 DEF OneAnswer
<1>4. \A i \in 1 .. Len(outbox) : OutFits(outbox[i])'
  BY <1>0, <1>1, <1>2, Carried DEF BoardInv, Sane, OutboxFits, OutFits, EventFits, AnswerFits
<1>5. \A d \in Browsers : WireFits(d)'
  BY <1>0, <1>1, <1>2, Carried DEF BoardInv, Sane, WireFits, EventFits, AnswerFits
<1>6. Unseen'
  BY DEF BoardInv, Sane, Unseen
<1>7. Sane'
  BY <1>0, <1>3, <1>4, <1>5, <1>6 DEF Sane, OutboxFits
<1>8. ASSUME NEW d \in Browsers, d \notin disturbed'  PROVE Follows(d)'
  <2>1. Follows(d)
    BY <1>8 DEF BoardInv
  <2>2. OutCurrent'
    BY <2>1 DEF Follows, OutCurrent, NoneOutFrom, EventOn
  <2>3. ASSUME Resyncing(d)  PROVE Resyncing(d)'
    BY <1>0, <2>3 DEF Resyncing, Added
  <2>4. \A k : /\ \A i \in 1 .. Len(outbox) : outbox[i].by = d =>
                    (AnswerOn(d, k, outbox[i].answer)' <=> AnswerOn(d, k, outbox[i].answer))
               /\ \A i \in 1 .. Len(wire[d]) : AnswerOn(d, k, wire[d][i])' <=> AnswerOn(d, k, wire[d][i])
    BY <1>1, <1>2 DEF AnswerOn
  <2>5. WireCurrent(d)'
    <3>. SUFFICES ASSUME online'[d], NEW i \in 1 .. Len(wire[d]), NEW k \in Cards,
                         NoneOut(k), NoneAfter(d, k, i)
                  PROVE  /\ EventOn(k, wire[d][i]) => wire[d][i].with = Visible(board)[k]
                         /\ AnswerOn(d, k, wire[d][i]) /\ ~Resyncing(d)' =>
                              wire[d][i].board[k] = Visible(board)[k]
      <4>1. \A k : (NoneOut(k)' <=> NoneOut(k)) /\ \A i : NoneAfter(d, k, i)' <=> NoneAfter(d, k, i)
        BY DEF NoneOut, NoneAfter, EventOn
      <4>2. Visible(board)' = Visible(board) /\ \A k, m : EventOn(k, m)' <=> EventOn(k, m)
        BY DEF Visible, EventOn
      <4>. QED
        BY <2>4, <4>1, <4>2 DEF WireCurrent, EventOn
    <3>1. CASE online[d]
      BY <2>1, <2>3, <3>1 DEF Follows, WireCurrent
    <3>2. CASE ~online[d]
      BY <3>2 DEF BoardInv, Sane, WireFits, EventOn
    <3>. QED
      BY <3>1, <3>2
  <2>6. Earlier(d)'
    BY <2>1, <2>4 DEF Follows, Earlier, EventOn
  <2>. QED
    BY <1>8, <2>2, <2>5, <2>6 DEF Follows
<1>. QED
  BY <1>7, <1>8 DEF BoardInv

\* Nothing was called.
LEMMA NothingAdded ==
    ASSUME Sane, UNCHANGED <<board, calls>>
    PROVE  CallsFine
<1>1. BoardTypeOK /\ calls' \in [Browsers -> Seq(Call)]
  BY DEF Sane, BoardTypeOK
<1>. QED
  BY <1>1, Carried DEF Sane, Added, CreatedOnce, CallsFit, CallFits, CallsFine

LEMMA ResyncStays ==
    ASSUME BoardTypeOK, Added(calls'), NEW d \in Browsers, Resyncing(d)  PROVE Resyncing(d)'
BY Carried DEF Added, Resyncing

\* The words that are under way stay so.
LEMMA WordStays ==
    ASSUME Sane, Added(calls'), UNCHANGED <<outbox, wire>>, NEW d \in Browsers, NEW k, Word(d, k)
    PROVE  Word(d, k)'
<1>1. ASSUME calls[d] # <<>>  PROVE calls'[d][1] = calls[d][1]
  <2>1. 1 \in 1 .. Len(calls[d])
    BY <1>1, Carried DEF Sane
  <2>. QED
    BY <2>1 DEF Added
<1>2. OneAnswer(d)
  BY DEF Sane
<1>3. CASE ~NoneOut(k)
  BY <1>3 DEF Word, NoneOut, EventOn
<1>4. CASE \E i \in 1 .. Len(outbox) : outbox[i].by = d /\ AnswerOn(d, k, outbox[i].answer)
  BY <1>1, <1>2, <1>4 DEF Word, AnswerOn, OneAnswer
<1>5. CASE \E i \in 1 .. Len(wire[d]) : EventOn(k, wire[d][i]) \/ AnswerOn(d, k, wire[d][i])
  BY <1>1, <1>2, <1>5 DEF Word, AnswerOn, OneAnswer, EventOn
<1>. QED
  BY <1>3, <1>4, <1>5 DEF Word

LEMMA BusyStays ==
    ASSUME BoardTypeOK, Added(calls'), UNCHANGED board, NEW d \in Browsers, NEW k, Busy(d, k),
           hand'[d][k] = hand[d][k]
    PROVE  Busy(d, k)'
<1>1. CASE hand[d][k] # "empty"
  BY <1>1 DEF Busy
<1>2. ASSUME NEW i \in 1 .. Len(calls[d]), ~calls[d][i].sent,
             calls[d][i].op \in {"place", "text", "remove"}, calls[d][i].card = k
      PROVE  Busy(d, k)'
  <2>1. i \in 1 .. Len(calls'[d]) /\ calls'[d][i] = calls[d][i]
    BY Carried DEF Added
  <2>. QED
    BY <1>2, <2>1 DEF Busy, Speaks
<1>. QED
  BY <1>1, <1>2 DEF Busy, Speaks

\* A step is well typed in what gestures change.
TypesFine ==
    /\ view' \in [Browsers -> [Cards -> Shown]]
    /\ hand' \in [Browsers -> [Cards -> {"empty", "drag", "edit"}]]
    /\ activeIds' \in [Browsers -> SUBSET Cards]
    /\ spent' \in Ceiling /\ disturbed' \subseteq Browsers

\* It changes one browser's one card.
Elsewhere(c, k) ==
    \A d \in Browsers, j \in Cards : d # c \/ j # k =>
        /\ view'[d][j] = view[d][j] /\ hand'[d][j] = hand[d][j]
        /\ j \in activeIds'[d] <=> j \in activeIds[d]

\* A card is touched: its gesture goes on, or a call ends it.
LEMMA GestureKeeps ==
    ASSUME BoardInv, UNCHANGED <<board, outbox, wire, online>>, TypesFine, CallsFine,
           NEW c \in Browsers, NEW k \in Cards, view[c][k] # None, Elsewhere(c, k),
           disturbed \subseteq disturbed',
           hand'[c][k] # "empty" => view'[c][k] # None /\ k \in activeIds'[c],
           c \notin disturbed' =>
               /\ k \in activeIds'[c] /\ hand'[c][k] = "empty" =>
                    k \in activeIds[c] /\ hand[c][k] = "empty"
               /\ hand'[c][k] # "empty" \/ Speaks(c, k)'
    PROVE  BoardInv'
<1>0. Sane /\ BoardTypeOK /\ Added(calls')
  BY DEF BoardInv, Sane, CallsFine
<1>5. BoardTypeOK'
  <2>1. \A d \in Browsers, j \in Cards : hand[d][j] # "empty" => view[d][j] # None /\ j \in activeIds[d]
    BY <1>0 DEF BoardTypeOK
  <2>2. ASSUME NEW d \in Browsers, NEW j \in Cards, hand'[d][j] # "empty"
        PROVE  view'[d][j] # None /\ j \in activeIds'[d]
    <3>1. CASE d # c \/ j # k
      BY <2>1, <2>2, <3>1 DEF Elsewhere
    <3>2. CASE d = c /\ j = k
      BY <2>2, <3>2
    <3>. QED
      BY <3>1, <3>2
  <2>. QED
    BY <1>0, <2>2 DEF BoardTypeOK, CallsFine, TypesFine
<1>1. ASSUME NEW d \in Browsers, d \notin disturbed'  PROVE ShieldsFit(d)'
  <2>1. ShieldsFit(d)
    BY <1>1 DEF BoardInv, Follows
  <2>2. activeIds'[d] \subseteq Cards
    BY DEF TypesFine
  <2>. QED
    BY <1>1, <2>1, <2>2 DEF ShieldsFit, Elsewhere
<1>2. ASSUME NEW d \in Browsers, d \notin disturbed'  PROVE WillShow(d)'
  <2>1. SUFFICES ASSUME online[d], NEW j \in Cards
                 PROVE  Resyncing(d)' \/ Busy(d, j)' \/ Word(d, j)' \/ view'[d][j] = Visible(board)[j]
    BY DEF WillShow, Visible
  <2>2. Resyncing(d) \/ Busy(d, j) \/ Word(d, j) \/ view[d][j] = Visible(board)[j]
    BY <1>2, <2>1 DEF BoardInv, Follows, WillShow
  <2>3. CASE Resyncing(d) \/ Word(d, j)
    BY <1>0, <2>3, ResyncStays, WordStays
  <2>4. CASE d # c \/ j # k
    <3>1. view'[d][j] = view[d][j] /\ hand'[d][j] = hand[d][j]
      BY <2>4 DEF Elsewhere
    <3>2. Busy(d, j) => Busy(d, j)'
      BY <1>0, <3>1, BusyStays
    <3>. QED
      BY <2>2, <2>3, <3>1, <3>2
  <2>5. CASE d = c /\ j = k /\ board[k] \in Card
    BY <1>2, <2>5 DEF Busy
  <2>6. CASE d = c /\ j = k /\ board[k] \notin Card
    <3>1. Visible(board)[k] = None
      BY <2>6 DEF Visible
    <3>2. ~Busy(c, k)
      BY <2>6 DEF Busy
    <3>. QED
      BY <2>2, <2>3, <2>6, <3>1, <3>2
  <2>. QED
    BY <2>4, <2>5, <2>6
<1>3. \A d \in Browsers, j \in Cards : view[d][j] = None => view'[d][j] = None
  BY DEF Elsewhere
<1>. QED
  BY <1>1, <1>2, <1>3, <1>5, LocalKeeps

\* A call that no gesture has made.
LEMMA CallKeeps ==
    ASSUME BoardInv, UNCHANGED <<board, outbox, wire, view, activeIds, hand, disturbed>>,
           spent' \in Ceiling, online' \in [Browsers -> BOOLEAN],
           CallsFine,
           \A d \in Browsers : online[d] => online'[d],
           \A d \in Browsers : ~online[d] /\ online'[d] => Resyncing(d)'
    PROVE  BoardInv'
<1>0. Sane /\ BoardTypeOK
  BY DEF BoardInv, Sane
<1>1. BoardTypeOK' /\ Added(calls')
  BY <1>0 DEF BoardTypeOK, CallsFine
<1>2. ASSUME NEW d \in Browsers, d \notin disturbed'  PROVE ShieldsFit(d)' /\ WillShow(d)'
  <2>1. Follows(d)
    BY <1>2 DEF BoardInv
  <2>2. ShieldsFit(d)'
    BY <2>1 DEF Follows, ShieldsFit
  <2>3. SUFFICES ASSUME online'[d], NEW j \in Cards
                 PROVE  Resyncing(d)' \/ Busy(d, j)' \/ Word(d, j)' \/ view[d][j] = Visible(board)[j]
    BY <2>2 DEF WillShow, Visible
  <2>4. CASE ~online[d]
    BY <2>3, <2>4
  <2>5. CASE online[d]
    <3>1. Resyncing(d) \/ Busy(d, j) \/ Word(d, j) \/ view[d][j] = Visible(board)[j]
      BY <2>1, <2>5 DEF Follows, WillShow
    <3>2. Busy(d, j) => Busy(d, j)'
      BY <1>0, <1>1, BusyStays
    <3>. QED
      BY <1>0, <1>1, <3>1, <3>2, ResyncStays, WordStays
  <2>. QED
    BY <2>4, <2>5
<1>. QED
  BY <1>1, <1>2, LocalKeeps

\* A call, a re-pull and a mishap stay within their bounds.
LEMMA Counting ==
    ASSUME BoardTypeOK
    PROVE  /\ spent.calls < MaxCalls => [spent EXCEPT !.calls = @ + 1] \in Ceiling
           /\ spent.resyncs < MaxResyncs => [spent EXCEPT !.resyncs = @ + 1] \in Ceiling
           /\ spent.mishaps < MaxMishaps => [spent EXCEPT !.mishaps = @ + 1] \in Ceiling
<1>1. spent \in Ceiling /\ MaxCalls \in Nat /\ MaxResyncs \in Nat /\ MaxMishaps \in Nat
  BY BoardAssumption DEF BoardAssumption, BoardTypeOK
<1>. QED
  BY <1>1 DEF Ceiling

LEMMA CallCounted ==
    ASSUME BoardTypeOK, NEW c \in Browsers, NEW op, NEW k, NEW with, UserCall(c, op, k, with)
    PROVE  spent' \in Ceiling
BY Counting DEF UserCall

LEMMA MishapCounted == ASSUME BoardTypeOK, Mishap PROVE spent' \in Ceiling
BY Counting DEF Mishap

LEMMA NewCallType ==
    ASSUME NEW op \in {"create", "place", "text", "remove", "resync"}, NEW k \in Cards,
           NEW with \in Shown
    PROVE  /\ NewCall(op, k, with) \in Call /\ ~NewCall(op, k, with).sent
           /\ NewCall(op, k, with).op = op /\ NewCall(op, k, with).card = k
           /\ NewCall(op, k, with).with = with
BY DEF NewCall, Call

LEMMA AddKeeps ==
    ASSUME BoardInv, NEW c \in Browsers, NEW k \in Cards, NEW card \in Card, AddCard(c, k, card)
    PROVE  BoardInv'
<1>. DEFINE x == NewCall("create", k, card)
<1>1. Sane /\ BoardTypeOK /\ card \in Shown
  BY DEF BoardInv, Sane, Shown
<1>2. x \in Call /\ ~x.sent /\ x.op = "create" /\ x.card = k /\ x.with = card
  BY <1>1, NewCallType
<1>3. spent' \in Ceiling /\ Enqueue(c, x) /\ board[k] = None /\ ~Pending("create", k)
      /\ UNCHANGED <<board, outbox, view, activeIds, hand, online, wire, disturbed>>
  BY <1>1, CallCounted DEF AddCard, UserCall
<1>. HIDE DEF x
<1>4. CallFits(x)
  BY <1>2, <1>3 DEF CallFits
<1>5. CallsFine
  BY <1>1, <1>2, <1>3, <1>4, CallAdded
<1>. QED
  BY <1>1, <1>3, <1>5, CallKeeps DEF BoardTypeOK

LEMMA ResyncCalled ==
    ASSUME BoardInv, NEW c \in Browsers, Enqueue(c, Resync), UNCHANGED board
    PROVE  CallsFine /\ Resyncing(c)'
<1>1. Resync \in Call /\ ~Resync.sent /\ Resync.op = "resync"
  BY BoardAssumption, NewCallType DEF BoardAssumption, Resync, Shown
<1>2. CallFits(Resync)
  BY <1>1 DEF CallFits
<1>3. CallsFine /\ Len(calls'[c]) = Len(calls[c]) + 1 /\ calls'[c][Len(calls[c]) + 1] = Resync
  BY <1>1, <1>2, CallAdded DEF BoardInv
<1>4. Len(calls[c]) + 1 \in 1 .. Len(calls'[c])
  BY <1>3, Carried DEF BoardInv, Sane
<1>5. Resyncing(c)'
  BY <1>1, <1>3, <1>4 DEF Resyncing
<1>. QED
  BY <1>3, <1>5

LEMMA ResyncKeeps ==
    ASSUME BoardInv, NEW c \in Browsers, Connect(c) \/ Reconcile(c)  PROVE BoardInv'
<1>1. BoardTypeOK
  BY DEF BoardInv, Sane
<1>2. Enqueue(c, Resync) /\ UNCHANGED <<board, outbox, wire, view, activeIds, hand, disturbed>>
  BY DEF Connect, Reconcile, OnOpen
<1>3. /\ spent' \in Ceiling /\ online' \in [Browsers -> BOOLEAN]
      /\ \A d \in Browsers : (online[d] => online'[d]) /\ (d # c => online'[d] = online[d])
  <2>1. spent' \in Ceiling
    BY <1>1, Counting DEF Connect, Reconcile, BoardTypeOK
  <2>2. CASE Connect(c)
    BY <1>1, <2>1, <2>2 DEF Connect, BoardTypeOK
  <2>3. CASE Reconcile(c)
    BY <1>1, <2>1, <2>3 DEF Reconcile, BoardTypeOK
  <2>. QED
    BY <2>2, <2>3
<1>. QED
  BY <1>2, <1>3, ResyncCalled, CallKeeps

\* What a browser shows instead.
LEMMA ShowsInstead ==
    ASSUME BoardTypeOK, NEW c \in Browsers, NEW v \in [Cards -> Shown], Show(c, v)
    PROVE  /\ view' \in [Browsers -> [Cards -> Shown]]
           /\ hand' \in [Browsers -> [Cards -> {"empty", "drag", "edit"}]]
           /\ view'[c] = v
           /\ \A d \in Browsers : d # c => view'[d] = view[d] /\ hand'[d] = hand[d]
           /\ \A k \in Cards :
                /\ v[k] = None => hand'[c][k] = "empty"
                /\ v[k] # None => hand'[c][k] = hand[c][k]
                /\ v[k] = view[c][k] => hand'[c][k] = hand[c][k]
<1>. DEFINE h == Handled(hand[c], v)
<1>1. view \in [Browsers -> [Cards -> Shown]] /\ hand[c] \in [Cards -> {"empty", "drag", "edit"}]
      /\ hand \in [Browsers -> [Cards -> {"empty", "drag", "edit"}]]
      /\ \A k \in Cards : hand[c][k] # "empty" => view[c][k] # None
  BY DEF BoardTypeOK
<1>2. view' = [view EXCEPT ![c] = v] /\ hand' = [hand EXCEPT ![c] = h]
  BY DEF Show
<1>3. h \in [Cards -> {"empty", "drag", "edit"}]
      /\ \A k \in Cards : h[k] = IF v[k] = None THEN "empty" ELSE hand[c][k]
  BY <1>1 DEF Handled
<1>. HIDE DEF h
<1>. QED
  BY <1>1, <1>2, <1>3

\* A hand takes a card or moves it.
LEMMA HoldKeeps ==
    ASSUME BoardInv, NEW c \in Browsers, NEW k \in Cards,
           \/ Grab(c, k) \/ StartEditing(c, k) \/ \E p \in Places : Drag(c, k, p)
    PROVE  BoardInv'
<1>1. Sane /\ BoardTypeOK /\ UNCHANGED <<board, outbox, wire, online, calls, spent, disturbed>>
  BY DEF BoardInv, Sane, Grab, StartEditing, Drag
<1>2. /\ view \in [Browsers -> [Cards -> Shown]] /\ spent \in Ceiling /\ disturbed \subseteq Browsers
      /\ hand \in [Browsers -> [Cards -> {"empty", "drag", "edit"}]]
      /\ activeIds \in [Browsers -> SUBSET Cards]
      /\ hand[c][k] # "empty" => view[c][k] # None /\ k \in activeIds[c]
  BY <1>1 DEF BoardTypeOK
<1>3. CallsFine
  BY <1>1, NothingAdded
<1>4. CASE Grab(c, k) \/ StartEditing(c, k)
  <2>1. PICK h \in {"drag", "edit"} : hand' = [hand EXCEPT ![c][k] = h]
    BY <1>4 DEF Grab, StartEditing
  <2>2. view' = view /\ view[c][k] # None /\ activeIds' = [activeIds EXCEPT ![c] = activeIds[c] \cup {k}]
    BY <1>4 DEF Grab, StartEditing
  <2>3. /\ hand' \in [Browsers -> [Cards -> {"empty", "drag", "edit"}]]
        /\ activeIds' \in [Browsers -> SUBSET Cards]
        /\ hand'[c][k] # "empty" /\ k \in activeIds'[c]
        /\ \A d \in Browsers, j \in Cards : d # c \/ j # k =>
             hand'[d][j] = hand[d][j] /\ (j \in activeIds'[d] <=> j \in activeIds[d])
    BY <1>2, <2>1, <2>2
  <2>4. Elsewhere(c, k)
    BY <2>2, <2>3 DEF Elsewhere
  <2>5. TypesFine
    BY <1>1, <1>2, <2>2, <2>3 DEF TypesFine
  <2>. QED
    BY <1>1, <1>3, <2>2, <2>3, <2>4, <2>5, GestureKeeps
<1>5. ASSUME NEW p \in Places, Drag(c, k, p)  PROVE BoardInv'
  <2>. DEFINE card == [view[c][k] EXCEPT !.place = p]
  <2>1. hand[c][k] = "drag" /\ UNCHANGED <<hand, activeIds>> /\ view[c][k] \in Card
    BY <1>2, <1>5 DEF Drag, Shown
  <2>2. card \in Card /\ card # None
    BY <2>1, Kinds DEF Card
  <2>3. view' = [view EXCEPT ![c][k] = card]
    BY <1>5, <2>1, Kinds DEF Drag, PatchItem
  <2>. HIDE DEF card
  <2>4. /\ view' \in [Browsers -> [Cards -> Shown]] /\ view'[c][k] # None
        /\ \A d \in Browsers, j \in Cards : d # c \/ j # k => view'[d][j] = view[d][j]
    BY <1>2, <2>2, <2>3 DEF Shown
  <2>5. Elsewhere(c, k)
    BY <2>1, <2>4 DEF Elsewhere
  <2>6. TypesFine
    BY <1>1, <1>2, <2>1, <2>4 DEF TypesFine
  <2>7. view[c][k] # None /\ hand'[c][k] = "drag" /\ k \in activeIds'[c]
    BY <1>2, <2>1
  <2>. QED
    BY <1>1, <1>3, <2>4, <2>5, <2>6, <2>7, GestureKeeps
<1>. QED
  BY <1>4, <1>5

LEMMA UserCalls ==
    ASSUME BoardInv, NEW c \in Browsers, NEW op \in {"place", "text", "remove"}, NEW k \in Cards,
           NEW with \in Card, view[c][k] # None, UserCall(c, op, k, with), UNCHANGED board
    PROVE  CallsFine /\ Speaks(c, k)' /\ spent' \in Ceiling
<1>. DEFINE x == NewCall(op, k, with)
<1>1. Sane /\ BoardTypeOK /\ with \in Shown /\ board[k] # None
  BY DEF BoardInv, Sane, Shown, Unseen
<1>2. x \in Call /\ ~x.sent /\ x.op = op /\ x.card = k /\ x.with = with
  BY <1>1, NewCallType
<1>3. spent' \in Ceiling /\ Enqueue(c, x)
  BY <1>1, CallCounted DEF UserCall
<1>. HIDE DEF x
<1>4. CallFits(x) /\ x.op # "create"
  BY <1>1, <1>2 DEF CallFits
<1>5. CallsFine /\ Len(calls'[c]) = Len(calls[c]) + 1 /\ calls'[c][Len(calls[c]) + 1] = x
  BY <1>1, <1>2, <1>3, <1>4, CallAdded
<1>6. Len(calls[c]) + 1 \in 1 .. Len(calls'[c])
  BY <1>1, <1>5, Carried
<1>7. Speaks(c, k)'
  BY <1>2, <1>5, <1>6 DEF Speaks
<1>. QED
  BY <1>3, <1>5, <1>7

\* A hand lets go of a card.
LEMMA ReleaseKeeps ==
    ASSUME BoardInv, NEW c \in Browsers, NEW k \in Cards,
           \/ Drop(c, k) \/ AbandonText(c, k) \/ \E t \in Texts : CommitText(c, k, t)
    PROVE  BoardInv'
<1>1. Sane /\ BoardTypeOK /\ UNCHANGED <<board, outbox, wire, online>>
  BY DEF BoardInv, Sane, Drop, AbandonText, CommitText
<1>2. /\ view \in [Browsers -> [Cards -> Shown]] /\ disturbed \subseteq Browsers
      /\ hand \in [Browsers -> [Cards -> {"empty", "drag", "edit"}]]
      /\ activeIds \in [Browsers -> SUBSET Cards]
      /\ hand[c][k] # "empty" => view[c][k] # None /\ k \in activeIds[c]
  BY <1>1 DEF BoardTypeOK
<1>3. /\ hand[c][k] # "empty" /\ hand' = [hand EXCEPT ![c][k] = "empty"]
      /\ activeIds' = [activeIds EXCEPT ![c] = activeIds[c] \ {k}]
  BY DEF Drop, AbandonText, CommitText
<1>4. view[c][k] # None /\ view[c][k] \in Card
  BY <1>2, <1>3 DEF Shown
<1>5. /\ hand' \in [Browsers -> [Cards -> {"empty", "drag", "edit"}]]
      /\ activeIds' \in [Browsers -> SUBSET Cards]
      /\ hand'[c][k] = "empty" /\ k \notin activeIds'[c]
      /\ \A d \in Browsers, j \in Cards : d # c \/ j # k =>
           hand'[d][j] = hand[d][j] /\ (j \in activeIds'[d] <=> j \in activeIds[d])
  BY <1>2, <1>3
<1>6. CASE Drop(c, k)
  <2>1. UserCall(c, "place", k, view[c][k]) /\ view' = view /\ disturbed' = disturbed
    BY <1>6 DEF Drop
  <2>2. CallsFine /\ Speaks(c, k)' /\ spent' \in Ceiling
    BY <1>1, <1>4, <2>1, UserCalls
  <2>3. Elsewhere(c, k) /\ TypesFine
    BY <1>2, <1>5, <2>1, <2>2 DEF Elsewhere, TypesFine
  <2>. QED
    BY <1>1, <1>4, <1>5, <2>1, <2>2, <2>3, GestureKeeps
<1>7. CASE AbandonText(c, k)
  <2>1. Mishap /\ disturbed' = disturbed \cup {c} /\ UNCHANGED <<view, calls>>
    BY <1>7 DEF AbandonText, Disturb
  <2>2. CallsFine /\ spent' \in Ceiling
    BY <1>1, <2>1, NothingAdded, MishapCounted
  <2>3. Elsewhere(c, k) /\ TypesFine
    BY <1>2, <1>5, <2>1, <2>2 DEF Elsewhere, TypesFine
  <2>. QED
    BY <1>1, <1>4, <1>5, <2>1, <2>2, <2>3, GestureKeeps
<1>8. ASSUME NEW t \in Texts, CommitText(c, k, t)  PROVE BoardInv'
  <2>. DEFINE card == [view[c][k] EXCEPT !.text = t]
  <2>1. card \in Card /\ card # None
    BY <1>4, Kinds DEF Card
  <2>2. UserCall(c, "text", k, card) /\ PatchItem(c, k, card) /\ disturbed' = disturbed
    BY <1>8 DEF CommitText
  <2>. HIDE DEF card
  <2>3. CallsFine /\ Speaks(c, k)' /\ spent' \in Ceiling
    BY <1>1, <1>4, <2>1, <2>2, UserCalls
  <2>4. view' = [view EXCEPT ![c][k] = card]
    BY <1>4, <2>2 DEF PatchItem
  <2>5. /\ view' \in [Browsers -> [Cards -> Shown]]
        /\ \A d \in Browsers, j \in Cards : d # c \/ j # k => view'[d][j] = view[d][j]
    BY <1>2, <2>1, <2>4 DEF Shown
  <2>6. Elsewhere(c, k) /\ TypesFine
    BY <1>2, <1>5, <2>2, <2>3, <2>5 DEF Elsewhere, TypesFine
  <2>. QED
    BY <1>1, <1>4, <1>5, <2>2, <2>3, <2>6, GestureKeeps
<1>. QED
  BY <1>6, <1>7, <1>8

LEMMA DeleteKeeps ==
    ASSUME BoardInv, NEW c \in Browsers, NEW k \in Cards, DeleteCard(c, k)  PROVE BoardInv'
<1>1. Sane /\ BoardTypeOK /\ UNCHANGED <<board, outbox, wire, online, activeIds, disturbed>>
  BY DEF BoardInv, Sane, DeleteCard
<1>2. /\ view \in [Browsers -> [Cards -> Shown]] /\ disturbed \subseteq Browsers
      /\ activeIds \in [Browsers -> SUBSET Cards]
      /\ view[c][k] # None /\ view[c][k] \in Card /\ hand[c][k] = "empty"
  BY <1>1 DEF BoardTypeOK, DeleteCard, Shown
<1>. DEFINE v == [view[c] EXCEPT ![k] = None]
<1>3. v \in [Cards -> Shown] /\ v[k] = None /\ \A j \in Cards : j # k => v[j] = view[c][j]
  BY <1>2 DEF Shown
<1>4. Show(c, v) /\ UserCall(c, "remove", k, view[c][k])
  BY DEF DeleteCard, RemoveItem
<1>. HIDE DEF v
<1>5. /\ view' \in [Browsers -> [Cards -> Shown]]
      /\ hand' \in [Browsers -> [Cards -> {"empty", "drag", "edit"}]]
      /\ view'[c] = v
      /\ \A d \in Browsers : d # c => view'[d] = view[d] /\ hand'[d] = hand[d]
      /\ \A j \in Cards : v[j] = None => hand'[c][j] = "empty"
      /\ \A j \in Cards : v[j] = view[c][j] => hand'[c][j] = hand[c][j]
  BY <1>1, <1>3, <1>4, ShowsInstead
<1>6. CallsFine /\ Speaks(c, k)' /\ spent' \in Ceiling
  BY <1>1, <1>2, <1>4, UserCalls
<1>7. Elsewhere(c, k) /\ TypesFine
  BY <1>1, <1>2, <1>3, <1>5, <1>6 DEF Elsewhere, TypesFine
<1>8. hand'[c][k] = "empty"
  BY <1>3, <1>5
<1>. QED
  BY <1>1, <1>2, <1>6, <1>7, <1>8, GestureKeeps

-----------------------------------------------------------------------------
(* The server commits.                                                       *)

\* What a commit makes of the board.
LEMMA WrittenBoard ==
    ASSUME BoardTypeOK, NEW x \in Call, CallFits(x), ~x.sent,
           NEW b, b = IF Succeeds(x) THEN Written(x) ELSE board
    PROVE  /\ b \in [Cards -> Row]
           /\ \A k \in Cards : b[k] # board[k] => Succeeds(x) /\ x.op # "resync" /\ k = x.card
           /\ \A k \in Cards : (b[k] = None => board[k] = None) /\ (board[k] = Deleted => b[k] = Deleted)
           /\ Succeeds(x) /\ x.op \in {"create", "place", "text"} => b[x.card] \in Card
           /\ Succeeds(x) /\ x.op = "remove" => b[x.card] = Deleted
<1>1. board \in [Cards -> Row] /\ x.card \in Cards /\ x.with \in Shown
      /\ x.op \in {"create", "place", "text", "remove", "resync"}
  BY Carried, Kinds
<1>. DEFINE k == x.card
<1>2. CASE x.op = "create"
  <2>1. b = [board EXCEPT ![k] = x.with] /\ board[k] = None /\ x.with \in Card
    BY <1>2 DEF Succeeds, Written, CallFits
  <2>. QED
    BY <1>1, <1>2, <2>1, Kinds DEF Row, Succeeds
<1>3. CASE x.op \in {"place", "text"} /\ board[k] \in Card
  <2>1. PICK card \in Card : b = [board EXCEPT ![k] = card]
    <3>1. CASE x.op = "place"
      <4>1. b = [board EXCEPT ![k].place = x.with.place] /\ x.with \in Card
        BY <1>3, <3>1 DEF Succeeds, Written, CallFits
      <4>2. [board[k] EXCEPT !.place = x.with.place] \in Card
        BY <1>3, <4>1 DEF Card
      <4>. QED
        BY <4>1, <4>2
    <3>2. CASE x.op = "text"
      <4>1. b = [board EXCEPT ![k].text = x.with.text] /\ x.with \in Card
        BY <1>3, <3>2 DEF Succeeds, Written, CallFits
      <4>2. [board[k] EXCEPT !.text = x.with.text] \in Card
        BY <1>3, <4>1 DEF Card
      <4>. QED
        BY <4>1, <4>2
    <3>. QED
      BY <1>3, <3>1, <3>2
  <2>. QED
    BY <1>1, <1>3, <2>1, Kinds DEF Row, Succeeds
<1>4. CASE x.op = "remove" /\ board[k] \in Card
  <2>1. b = [board EXCEPT ![k] = Deleted]
    BY <1>4 DEF Succeeds, Written
  <2>. QED
    BY <1>1, <1>4, <2>1, Kinds DEF Row, Succeeds
<1>5. CASE x.op = "resync" \/ (x.op # "create" /\ board[k] \notin Card)
  <2>1. b = board
    BY <1>5 DEF Succeeds, Written
  <2>. QED
    BY <1>1, <1>5, <2>1 DEF Succeeds
<1>. QED
  BY <1>1, <1>2, <1>3, <1>4, <1>5

\* What the server writes and will send: out is the entry of the outbox for it.
Serving(c, x, out) ==
    /\ x \in Call /\ x = calls[c][1] /\ ~x.sent /\ calls[c] # <<>> /\ CallFits(x)
    /\ board' \in [Cards -> Row]
    /\ \A k \in Cards : board'[k] # board[k] => EventOn(k, out.event)
    /\ \A k \in Cards : (board'[k] = None => board[k] = None) /\ (board[k] = Deleted => board'[k] = Deleted)
    /\ outbox' = Append(outbox, out)
    /\ out \in [by: Browsers, event: Event \cup {None}, answer: Answer]
    /\ out.by = c /\ out.answer.board = Visible(board')
    /\ out.event # None =>
         /\ out.event.card = x.card /\ out.event.with = Visible(board')[x.card] /\ Succeeds(x)
         /\ EventFits(out.event)' /\ x.op # "resync"
    /\ Succeeds(x) /\ x.op # "resync" => EventOn(x.card, out.event)
    /\ x.op \in {"create", "resync"} => out.answer.type = "reply"
    /\ x.op = "create" => board'[x.card] \in Card
    /\ UNCHANGED <<view, activeIds, hand, online, wire, spent, disturbed>>

\* The calls after the first one has been sent.
FirstSent(c) ==
    /\ calls' \in [Browsers -> Seq(Call)]
    /\ \A d \in Browsers : Len(calls'[d]) = Len(calls[d])
    /\ \A d \in Browsers : d # c => calls'[d] = calls[d]
    /\ \A i \in 1 .. Len(calls[c]) : i # 1 => calls'[c][i] = calls[c][i]
    /\ calls'[c] # <<>> /\ calls'[c][1].sent
    /\ calls'[c][1].op = calls[c][1].op /\ calls'[c][1].card = calls[c][1].card
    /\ calls'[c][1].with = calls[c][1].with

LEMMA SendsFirst ==
    ASSUME BoardTypeOK, NEW c \in Browsers, calls[c] # <<>>,
           calls' = [calls EXCEPT ![c][1].sent = TRUE]
    PROVE  FirstSent(c)
<1>1. calls \in [Browsers -> Seq(Call)] /\ calls[c] \in Seq(Call) /\ Len(calls[c]) \in Nat
  BY Carried DEF BoardTypeOK
<1>. DEFINE x == calls[c][1]  y == [x EXCEPT !.sent = TRUE]  q == [calls[c] EXCEPT ![1] = y]
<1>2. 1 \in 1 .. Len(calls[c]) /\ x \in Call
  BY <1>1, ElementOfSeq
<1>3. y \in Call /\ y.sent /\ y.op = x.op /\ y.card = x.card /\ y.with = x.with
  BY <1>2 DEF Call
<1>4. calls' = [calls EXCEPT ![c] = q]
  OBVIOUS
<1>. HIDE DEF x, y
<1>5. q \in Seq(Call) /\ Len(q) = Len(calls[c])
      /\ \A i \in 1 .. Len(calls[c]) : q[i] = IF i = 1 THEN y ELSE calls[c][i]
  BY <1>1, <1>2, <1>3, ExceptSeq
<1>. HIDE DEF q
<1>6. calls'[c] = q /\ \A d \in Browsers : d # c => calls'[d] = calls[d]
  BY <1>1, <1>4
<1>7. calls' \in [Browsers -> Seq(Call)]
  BY <1>1, <1>4, <1>5
<1>8. q # <<>> /\ q[1] = y
  BY <1>2, <1>5
<1>. QED
  BY <1>1, <1>3, <1>5, <1>6, <1>7, <1>8 DEF FirstSent, x

LEMMA ServeShape ==
    ASSUME BoardInv, NEW c \in Browsers, Serve(c)
    PROVE  FirstSent(c) /\ \E x, out : Serving(c, x, out)
<1>1. Sane /\ BoardTypeOK /\ calls[c] # <<>>
  BY DEF BoardInv, Sane, Serve
<1>2. FirstSent(c)
  BY <1>1, SendsFirst DEF Serve
<1>a. PICK x : x = calls[c][1]
  OBVIOUS
<1>b. PICK b : b = IF Succeeds(x) THEN Written(x) ELSE board
  OBVIOUS
<1>c. PICK out : out = [by     |-> c,
                        event  |-> IF Succeeds(x) THEN EventOf(x, b) ELSE None,
                        answer |-> [type  |-> IF Succeeds(x) THEN "reply" ELSE "error",
                                    board |-> Visible(b)]]
  OBVIOUS
<1>d. PICK e : e = out.event
  OBVIOUS
<1>3. x = Head(calls[c])
  BY <1>1, <1>a, Carried
<1>4. 1 \in 1 .. Len(calls[c]) /\ x \in Call /\ ~x.sent /\ CallFits(x)
  BY <1>1, <1>3, <1>a, Carried DEF Sane, CallsFit, Serve
<1>5. board' = b /\ outbox' = Append(outbox, out)
      /\ UNCHANGED <<view, activeIds, hand, online, wire, spent, disturbed>>
  BY <1>3, <1>b, <1>c DEF Serve
<1>6. /\ b \in [Cards -> Row]
      /\ \A k \in Cards : b[k] # board[k] => Succeeds(x) /\ x.op # "resync" /\ k = x.card
      /\ \A k \in Cards : (b[k] = None => board[k] = None) /\ (board[k] = Deleted => b[k] = Deleted)
      /\ Succeeds(x) /\ x.op \in {"create", "place", "text"} => b[x.card] \in Card
      /\ Succeeds(x) /\ x.op = "remove" => b[x.card] = Deleted
  BY <1>1, <1>4, <1>b, WrittenBoard
<1>7. x.card \in Cards /\ x.op \in {"create", "place", "text", "remove", "resync"}
  BY <1>4, Kinds
<1>8. Visible(b) \in [Cards -> Shown] /\ Visible(b)[x.card] = IF b[x.card] \in Card THEN b[x.card] ELSE None
  BY <1>6, <1>7, Kinds
<1>. DEFINE ok == Succeeds(x)
<1>9. e = IF ok /\ x.op # "resync"
          THEN [type |-> IF x.op = "remove" THEN "deleted" ELSE "upserted",
                card |-> x.card, with |-> Visible(b)[x.card]]
          ELSE None
  BY <1>c, <1>d DEF EventOf
<1>10. out.by = c /\ out.answer = [type |-> IF ok THEN "reply" ELSE "error", board |-> Visible(b)]
  BY <1>c
<1>11. out.answer \in Answer /\ out.answer.board = Visible(b) /\ (ok => out.answer.type = "reply")
  BY <1>8, <1>10 DEF Answer
<1>12. out \in [by: Browsers, event: {e}, answer: {out.answer}]
  BY <1>c, <1>d
<1>13. ok /\ x.op # "resync" =>
         /\ e \in Event /\ e.card = x.card /\ e.with = Visible(b)[x.card]
         /\ e.type = IF x.op = "remove" THEN "deleted" ELSE "upserted"
  BY <1>7, <1>8, <1>9 DEF Event
<1>14. ~(ok /\ x.op # "resync") => e = None
  BY <1>9
<1>15. ok /\ x.op # "resync" => EventFits(e)'
  <2>1. CASE x.op = "remove"
    BY <1>5, <1>6, <1>8, <1>13, <2>1, Kinds DEF EventFits
  <2>2. CASE x.op # "remove"
    BY <1>5, <1>6, <1>7, <1>8, <1>13, <2>2, Kinds DEF EventFits
  <2>. QED
    BY <2>1, <2>2
<1>16. x.op \in {"create", "resync"} => ok
  BY DEF Succeeds
<1>17. out.event = e
  BY <1>d
<1>18. out \in [by: Browsers, event: Event \cup {None}, answer: Answer]
  BY <1>11, <1>12, <1>13, <1>14
<1>19. \A k \in Cards : board'[k] # board[k] => EventOn(k, out.event)
  BY <1>5, <1>6, <1>13, <1>17 DEF EventOn
<1>20. out.event # None => /\ out.event.card = x.card /\ out.event.with = Visible(board')[x.card]
                           /\ Succeeds(x) /\ EventFits(out.event)' /\ x.op # "resync"
  BY <1>5, <1>13, <1>14, <1>15, <1>17
<1>21. Succeeds(x) /\ x.op # "resync" => EventOn(x.card, out.event)
  BY <1>13, <1>17 DEF EventOn
<1>22. Serving(c, x, out)
  BY <1>1, <1>4, <1>5, <1>6, <1>10, <1>11, <1>16, <1>18, <1>19, <1>20, <1>21, <1>a DEF Serving
<1>. QED
  BY <1>2, <1>22

\* Another call is as it was.
OthersSame(c) ==
    \A d \in Browsers : d # c =>
        /\ calls'[d] = calls[d]
        /\ \A k : Speaks(d, k) => Speaks(d, k)'
        /\ \A k, a : AnswerOn(d, k, a)' <=> AnswerOn(d, k, a)
        /\ Resyncing(d)' <=> Resyncing(d)

\* The browser had nothing under way that the server answers.
Unanswered(c) ==
    /\ \A i \in 1 .. Len(outbox) : outbox[i].by # c
    /\ \A i \in 1 .. Len(wire[c]) : wire[c][i] \notin Answer

\* The outbox has one more entry.
OneMore(out) ==
    /\ Len(outbox) \in Nat /\ Len(outbox') = Len(outbox) + 1
    /\ \A i \in 1 .. Len(outbox) : outbox'[i] = outbox[i]
    /\ outbox'[Len(outbox) + 1] = out

LEMMA AsBefore ==
    ASSUME BoardTypeOK, NEW c \in Browsers, FirstSent(c)  PROVE OthersSame(c)
BY DEF FirstSent, OthersSame, Speaks, AnswerOn, Resyncing

LEMMA NotYetSent ==
    ASSUME Sane, NEW c \in Browsers, calls[c] # <<>>, ~calls[c][1].sent  PROVE Unanswered(c)
BY DEF Sane, OneAnswer, Unanswered

LEMMA MoreOut ==
    ASSUME BoardTypeOK, NEW c, NEW x, NEW out, Serving(c, x, out)  PROVE OneMore(out)
<1>1. outbox \in Seq([by: Browsers, event: Event \cup {None}, answer: Answer])
  BY DEF BoardTypeOK
<1>2. outbox' = Append(outbox, out) /\ out \in [by: Browsers, event: Event \cup {None}, answer: Answer]
  BY DEF Serving
<1>. QED
  BY <1>1, <1>2, AppendProperties DEF OneMore

LEMMA EventStillFits ==
    ASSUME BoardTypeOK, NEW c, NEW x, NEW out, Serving(c, x, out), NEW e \in Event, EventFits(e)
    PROVE  EventFits(e)'
BY Kinds DEF Serving, EventFits

LEMMA FirstCallsFit ==
    ASSUME Sane, NEW c \in Browsers, FirstSent(c), NEW x, NEW out, Serving(c, x, out)
    PROVE  CreatedOnce' /\ \A d \in Browsers : CallsFit(d)'
<1>0. BoardTypeOK /\ \A d \in Browsers : Len(calls[d]) \in Nat
  BY Carried DEF Sane
<1>1. ASSUME NEW d \in Browsers, NEW i \in 1 .. Len(calls'[d])
      PROVE  /\ i \in 1 .. Len(calls[d]) /\ calls'[d][i].op = calls[d][i].op
             /\ calls'[d][i].card = calls[d][i].card /\ calls'[d][i].with = calls[d][i].with
             /\ ~calls'[d][i].sent => ~calls[d][i].sent /\ ~(d = c /\ i = 1)
  <2>1. CASE d = c
    BY <1>0, <2>1 DEF FirstSent
  <2>2. CASE d # c
    BY <1>0, <2>2 DEF FirstSent
  <2>. QED
    BY <2>1, <2>2
<1>2. CreatedOnce'
  <2>. SUFFICES ASSUME NEW d \in Browsers, NEW e \in Browsers,
                       NEW i \in 1 .. Len(calls'[d]), NEW j \in 1 .. Len(calls'[e]),
                       calls'[d][i].op = "create", calls'[e][j].op = "create",
                       calls'[d][i].card = calls'[e][j].card
                PROVE  d = e /\ i = j
    BY DEF CreatedOnce
  <2>1. i \in 1 .. Len(calls[d]) /\ calls[d][i].op = "create" /\ calls'[d][i].card = calls[d][i].card
    BY <1>1
  <2>2. j \in 1 .. Len(calls[e]) /\ calls[e][j].op = "create" /\ calls'[e][j].card = calls[e][j].card
    BY <1>1
  <2>3. CreatedOnce
    BY DEF Sane
  <2>4. calls[d][i].card = calls[e][j].card
    BY <2>1, <2>2
  <2>. QED
    BY <2>1, <2>2, <2>3, <2>4 DEF CreatedOnce
<1>3. ASSUME NEW d \in Browsers, NEW i \in 1 .. Len(calls'[d]), NEW y, y = calls'[d][i]
      PROVE  CallFits(y)'
  <2>0. CallFits(calls[d][i]) /\ calls[d][i] \in Call
    BY <1>0, <1>1, Carried DEF Sane, CallsFit
  <2>1. calls[d][i].card \in Cards
    BY <2>0, Kinds
  <2>2. \A k \in Cards : board'[k] = None => board[k] = None
    BY DEF Serving
  <2>3. ASSUME y.op = "create", ~y.sent  PROVE board'[y.card] = None
    <3>0. PICK k \in Cards : k = calls[d][i].card
      BY <2>1
    <3>1. calls[d][i].op = "create" /\ ~calls[d][i].sent /\ ~(d = c /\ i = 1) /\ board[k] = None
      BY <1>1, <1>3, <2>0, <2>3, <3>0 DEF CallFits
    <3>2. SUFFICES ASSUME board'[k] # board[k]  PROVE FALSE
      BY <1>1, <1>3, <3>0, <3>1
    <3>3. x.card = k /\ x.op # "resync" /\ CallFits(x) /\ x \in Call /\ x = calls[c][1]
      <4>1. EventOn(k, out.event) /\ out.event # None
        BY <3>2, Kinds DEF Serving, EventOn
      <4>. QED
        BY <4>1 DEF Serving, EventOn
    <3>4. x.op = "create"
      BY <3>1, <3>3, Kinds DEF CallFits
    <3>5. 1 \in 1 .. Len(calls[c])
      BY <1>0, Carried DEF Serving
    <3>. QED
      BY <1>1, <3>0, <3>1, <3>3, <3>4, <3>5 DEF Sane, CreatedOnce
  <2>. QED
    BY <1>1, <1>3, <2>0, <2>1, <2>2, <2>3 DEF CallFits
<1>4. ASSUME NEW d \in Browsers  PROVE CallsFit(d)'
  BY <1>3 DEF CallsFit, CallFits
<1>. QED
  BY <1>2, <1>4

LEMMA ServeTypes ==
    ASSUME Sane, NEW c \in Browsers, FirstSent(c), NEW x, NEW out, Serving(c, x, out)
    PROVE  BoardTypeOK'
<1>. DEFINE Out == [by: Browsers, event: Event \cup {None}, answer: Answer]
<1>1. BoardTypeOK /\ outbox \in Seq(Out) /\ outbox' = Append(outbox, out) /\ out \in Out
  BY DEF Sane, BoardTypeOK, Serving
<1>. HIDE DEF Out
<1>2. outbox' \in Seq(Out)
  BY <1>1, AppendProperties
<1>3. /\ board' \in [Cards -> Row] /\ calls' \in [Browsers -> Seq(Call)]
      /\ UNCHANGED <<view, activeIds, hand, online, wire, spent, disturbed>>
  BY DEF Serving, FirstSent
<1>. QED
  BY <1>1, <1>2, <1>3 DEF BoardTypeOK, Out

LEMMA ServeSane ==
    ASSUME Sane, NEW c \in Browsers, FirstSent(c), NEW x, NEW out, Serving(c, x, out)
    PROVE  Sane'
<1>0. /\ BoardTypeOK /\ calls[c] # <<>> /\ ~calls[c][1].sent /\ Unanswered(c) /\ OneMore(out)
      /\ OthersSame(c) /\ x \in Call /\ x = calls[c][1] /\ UNCHANGED <<view, online, wire>>
  BY NotYetSent, MoreOut, AsBefore DEF Sane, Serving
<1>1. /\ \A k \in Cards : (board'[k] = None => board[k] = None)
      /\ \A k \in Cards : board[k] = Deleted => board'[k] = Deleted
      /\ board \in [Cards -> Row] /\ board' \in [Cards -> Row]
  BY <1>0, Carried DEF Serving
<1>2. \A i \in 1 .. Len(outbox') : (i \in 1 .. Len(outbox) /\ outbox'[i] = outbox[i])
                                   \/ (i = Len(outbox) + 1 /\ outbox'[i] = out)
  BY <1>0 DEF OneMore
<1>3. calls'[c] # <<>> /\ calls'[c][1].sent /\ calls'[c][1].op = x.op /\ calls'[c][1].card = x.card
  BY <1>0 DEF FirstSent
<1>4. ASSUME NEW d \in Browsers  PROVE OneAnswer(d)'
  <2>1. OneAnswer(d)
    BY DEF Sane
  <2>2. CASE d = c
    <3>1. \A i \in 1 .. Len(calls'[c]) : calls'[c][i].sent => i = 1
      BY <2>1, <2>2 DEF FirstSent, OneAnswer
    <3>. QED
      BY <1>0, <1>2, <1>3, <2>2, <3>1 DEF OneAnswer, Unanswered
  <2>3. CASE d # c
    <3>1. calls'[d] = calls[d] /\ out.by # d
      BY <1>0, <2>3 DEF OthersSame, Serving
    <3>. QED
      BY <1>0, <1>2, <2>1, <3>1 DEF OneAnswer
  <2>. QED
    BY <2>2, <2>3
<1>5. ASSUME NEW d \in Browsers, d # c, NEW a \in Answer, AnswerFits(d, a)
      PROVE  AnswerFits(d, a)'
  BY <1>0, <1>1, <1>5 DEF AnswerFits, OthersSame
<1>6. ASSUME NEW d \in Browsers  PROVE WireFits(d)'
  <2>1. WireFits(d) /\ \A i \in 1 .. Len(wire[d]) : wire[d][i] \in Event \cup Answer
    BY <1>0, Carried DEF Sane
  <2>2. ASSUME NEW i \in 1 .. Len(wire[d]), wire[d][i] \in Event
        PROVE  EventFits(wire[d][i])' /\ online'[d]
    <3>1. PICK e \in Event : e = wire[d][i]
      BY <2>2
    <3>2. EventFits(e)' /\ online'[d]
      BY <1>0, <2>1, <3>1, EventStillFits DEF WireFits
    <3>. QED
      BY <1>0, <3>1, <3>2 DEF EventFits
  <2>3. ASSUME NEW i \in 1 .. Len(wire[d]), wire[d][i] \in Answer
        PROVE  AnswerFits(d, wire[d][i])'
    <3>1. PICK a \in Answer : a = wire[d][i]
      BY <2>3
    <3>2. AnswerFits(d, a)'
      BY <1>0, <1>5, <2>1, <3>1 DEF WireFits, Unanswered
    <3>. QED
      BY <1>0, <3>1, <3>2 DEF AnswerFits
  <2>. QED
    BY <1>0, <2>2, <2>3 DEF WireFits
<1>7. ASSUME NEW i \in 1 .. Len(outbox'), NEW o, o = outbox'[i]  PROVE OutFits(o)'
  <2>1. CASE i \in 1 .. Len(outbox) /\ outbox'[i] = outbox[i]
    <3>1. /\ o = outbox[i] /\ OutFits(o) /\ o.by \in Browsers /\ o.answer \in Answer
          /\ o.event \in Event \cup {None} /\ o.by # c
      BY <1>0, <1>7, <2>1, Carried DEF Sane, OutboxFits, Unanswered
    <3>2. calls'[o.by] = calls[o.by] /\ AnswerFits(o.by, o.answer)'
      BY <1>0, <1>5, <3>1 DEF OutFits, OthersSame
    <3>3. o.event # None => EventFits(o.event)'
      BY <1>0, <3>1, EventStillFits DEF OutFits
    <3>. QED
      BY <3>1, <3>2, <3>3 DEF OutFits
  <2>2. CASE o = out
    <3>1. /\ out.by = c /\ out.answer.board = Visible(board')
          /\ x.op = "create" => board'[x.card] \in Card
          /\ out.event # None =>
               /\ out.event.card = x.card /\ out.event.with = Visible(board')[x.card]
               /\ EventFits(out.event)' /\ x.op # "resync"
      BY DEF Serving
    <3>2. \A k \in Cards : Visible(board')[k] = IF board'[k] \in Card THEN board'[k] ELSE None
      BY <1>1, Kinds
    <3>3. AnswerFits(c, out.answer)'
      BY <1>0, <1>3, <3>1, <3>2, Kinds DEF AnswerFits
    <3>. QED
      BY <1>3, <2>2, <3>1, <3>3 DEF OutFits
  <2>. QED
    BY <1>2, <1>7, <2>1, <2>2
<1>8. OutboxFits'
  BY <1>7 DEF OutboxFits, OutFits, EventFits, AnswerFits
<1>9. Unseen'
  BY <1>0, <1>1 DEF Sane, Unseen
<1>10. BoardTypeOK' /\ CreatedOnce' /\ \A d \in Browsers : CallsFit(d)'
  BY ServeTypes, FirstCallsFit
<1>. QED
  BY <1>4, <1>6, <1>8, <1>9, <1>10 DEF Sane

\* Nothing of card k is among what is under way if the step adds nothing to it.
LEMMA OutBefore ==
    ASSUME Sane, NEW c, NEW x, NEW out, Serving(c, x, out), NEW k \in Cards
    PROVE  /\ ~EventOn(k, out.event) => board'[k] = board[k] /\ Visible(board)'[k] = Visible(board)[k]
           /\ \A n \in 1 .. Len(outbox) + 1 : NoneOutFrom(k, n)' => NoneOutFrom(k, n) /\ ~EventOn(k, out.event)
           /\ NoneOut(k)' => NoneOut(k) /\ ~EventOn(k, out.event)
           /\ ~NoneOut(k) \/ EventOn(k, out.event) => ~NoneOut(k)'
           /\ board[k] = None => NoneOut(k)
<1>1. BoardTypeOK /\ OneMore(out)
  BY MoreOut DEF Sane
<1>2. ~EventOn(k, out.event) => board'[k] = board[k]
  BY DEF Serving
<1>3. board \in [Cards -> Row] /\ board' \in [Cards -> Row]
  BY <1>1, Carried DEF Serving
<1>4. Len(outbox) + 1 \in 1 .. Len(outbox') /\ \A i \in 1 .. Len(outbox) : i \in 1 .. Len(outbox')
  BY <1>1 DEF OneMore
<1>5. ASSUME NEW n \in 1 .. Len(outbox) + 1, NoneOutFrom(k, n)'
      PROVE  NoneOutFrom(k, n) /\ ~EventOn(k, out.event)
  BY <1>1, <1>4, <1>5 DEF OneMore, NoneOutFrom, EventOn
<1>6. NoneOut(k)' => NoneOut(k) /\ ~EventOn(k, out.event)
  BY <1>1, <1>4 DEF OneMore, NoneOut, EventOn
<1>7. ASSUME board[k] = None, NEW i \in 1 .. Len(outbox), EventOn(k, outbox[i].event)  PROVE FALSE
  <2>1. EventFits(outbox[i].event)
    BY <1>7, Kinds DEF Sane, OutboxFits, OutFits, EventOn
  <2>. QED
    BY <1>7, <2>1, Kinds DEF EventFits, EventOn
<1>. QED
  BY <1>2, <1>3, <1>5, <1>6, <1>7, Kinds DEF Visible, NoneOut

LEMMA NothingOnWire ==
    ASSUME Sane, NEW d \in Browsers, NEW k \in Cards, board[k] = None, NEW i \in 1 .. Len(wire[d])
    PROVE  ~EventOn(k, wire[d][i])
<1>. SUFFICES ASSUME EventOn(k, wire[d][i])  PROVE FALSE
  OBVIOUS
<1>1. EventFits(wire[d][i])
  BY DEF Sane, WireFits, EventOn
<1>. QED
  BY <1>1, Kinds DEF EventFits, EventOn

LEMMA ServeCurrent ==
    ASSUME BoardInv, NEW c \in Browsers, FirstSent(c), NEW x, NEW out, Serving(c, x, out),
           NEW d \in Browsers, Follows(d)
    PROVE  OutCurrent' /\ WireCurrent(d)' /\ ShieldsFit(d)'
<1>0. /\ Sane /\ Unanswered(c) /\ OneMore(out) /\ OthersSame(c) /\ BoardTypeOK
      /\ UNCHANGED <<hand, activeIds, online, wire>> /\ out.answer.board = Visible(board')
  BY NotYetSent, MoreOut, AsBefore DEF BoardInv, Sane, Serving
<1>1. OutCurrent /\ WireCurrent(d) /\ ShieldsFit(d)
  BY DEF Follows
<1>2. ASSUME NEW i \in 1 .. Len(outbox'), NEW k \in Cards, NoneOutFrom(k, i + 1)'
      PROVE  outbox'[i].answer.board[k] = Visible(board)'[k]
  <2>1. CASE i \in 1 .. Len(outbox)
    <3>1. i + 1 \in 1 .. Len(outbox) + 1
      BY <1>0, <2>1 DEF OneMore
    <3>2. NoneOutFrom(k, i + 1) /\ Visible(board)'[k] = Visible(board)[k]
      BY <1>0, <1>2, <3>1, OutBefore
    <3>. QED
      BY <1>0, <1>1, <2>1, <3>2 DEF OutCurrent, OneMore
  <2>2. CASE i = Len(outbox) + 1
    BY <1>0, <2>2 DEF OneMore, Visible
  <2>. QED
    BY <1>0, <2>1, <2>2 DEF OneMore
<1>3. OutCurrent'
  BY <1>2 DEF OutCurrent
<1>4. ASSUME online[d], NEW i \in 1 .. Len(wire[d]), NEW k \in Cards, NoneOut(k)', NoneAfter(d, k, i)
      PROVE  /\ EventOn(k, wire[d][i]) => wire[d][i].with = Visible(board)'[k]
             /\ AnswerOn(d, k, wire[d][i])' /\ ~Resyncing(d)' => wire[d][i].board[k] = Visible(board)'[k]
  <2>1. NoneOut(k) /\ Visible(board)'[k] = Visible(board)[k]
    BY <1>0, <1>4, OutBefore
  <2>2. EventOn(k, wire[d][i]) => wire[d][i].with = Visible(board)[k]
    BY <1>1, <1>4, <2>1 DEF WireCurrent
  <2>3. ASSUME AnswerOn(d, k, wire[d][i])', ~Resyncing(d)'
        PROVE  wire[d][i].board[k] = Visible(board)[k]
    <3>1. d # c
      BY <1>0, <2>3 DEF AnswerOn, Unanswered
    <3>2. AnswerOn(d, k, wire[d][i]) /\ ~Resyncing(d)
      <4>1. PICK a : a = wire[d][i]
        OBVIOUS
      <4>2. AnswerOn(d, k, a)'
        BY <1>0, <2>3, <4>1 DEF AnswerOn
      <4>. QED
        BY <1>0, <2>3, <3>1, <4>1, <4>2 DEF OthersSame
    <3>. QED
      BY <1>1, <1>4, <2>1, <3>2 DEF WireCurrent
  <2>. QED
    BY <2>1, <2>2, <2>3
<1>5. \A k, i : NoneAfter(d, k, i)' <=> NoneAfter(d, k, i)
  BY <1>0 DEF NoneAfter, EventOn
<1>6. WireCurrent(d)'
  BY <1>0, <1>4, <1>5 DEF WireCurrent, EventOn
<1>7. ShieldsFit(d)'
  <2>1. activeIds[d] \subseteq Cards
    BY <1>0 DEF BoardTypeOK
  <2>. QED
    BY <1>0, <1>1, <2>1 DEF ShieldsFit, Serving
<1>. QED
  BY <1>3, <1>6, <1>7

LEMMA ServeEarlier ==
    ASSUME BoardInv, NEW c \in Browsers, FirstSent(c), NEW x, NEW out, Serving(c, x, out),
           NEW d \in Browsers, Follows(d)
    PROVE  Earlier(d)'
<1>0. /\ Sane /\ Unanswered(c) /\ OneMore(out) /\ OthersSame(c) /\ BoardTypeOK
      /\ UNCHANGED <<view, wire>> /\ out.answer.board = Visible(board') /\ out.by = c
      /\ Earlier(d)
  BY NotYetSent, MoreOut, AsBefore DEF BoardInv, Sane, Serving, Follows
<1>1. ASSUME NEW k \in Cards, board'[k] # Deleted  PROVE board[k] # Deleted
  BY <1>1 DEF Serving
<1>2. ASSUME NEW k \in Cards, board'[k] # Deleted, NEW i \in 1 .. Len(outbox'),
             NEW o, o = outbox'[i], o.by = d, AnswerOn(d, k, o.answer)', o.answer.board[k] = None
      PROVE  /\ view[d][k] = None
             /\ \A j \in 1 .. Len(outbox') : j < i => ~EventOn(k, outbox'[j].event)
             /\ \A j \in 1 .. Len(wire[d]) : ~EventOn(k, wire[d][j])
  <2>1. CASE i \in 1 .. Len(outbox)
    <3>1. o = outbox[i] /\ outbox[i].by = d /\ d # c
      BY <1>0, <1>2, <2>1 DEF OneMore, Unanswered
    <3>2. AnswerOn(d, k, outbox[i].answer)
      BY <1>0, <1>2, <3>1 DEF OthersSame
    <3>3. /\ view[d][k] = None
          /\ \A j \in 1 .. Len(outbox) : j < i => ~EventOn(k, outbox[j].event)
          /\ \A j \in 1 .. Len(wire[d]) : ~EventOn(k, wire[d][j])
      BY <1>0, <1>1, <1>2, <2>1, <3>1, <3>2 DEF Earlier
    <3>4. ASSUME NEW j \in 1 .. Len(outbox'), j < i  PROVE ~EventOn(k, outbox'[j].event)
      BY <1>0, <2>1, <3>3, <3>4 DEF OneMore
    <3>. QED
      BY <3>3, <3>4
  <2>2. CASE i = Len(outbox) + 1
    <3>1. Visible(board')[k] = None /\ d = c
      BY <1>0, <1>2, <2>2 DEF OneMore
    <3>2. board' \in [Cards -> Row]
      BY DEF Serving
    <3>3. board'[k] = None
      BY <1>2, <3>1, <3>2, Kinds DEF Row
    <3>4. board[k] = None
      BY <3>3 DEF Serving
    <3>5. NoneOut(k) /\ view[d][k] = None
      BY <1>0, <3>4, OutBefore DEF Sane, Unseen
    <3>6. \A j \in 1 .. Len(wire[d]) : ~EventOn(k, wire[d][j])
      BY <1>0, <3>4, NothingOnWire
    <3>7. ASSUME NEW j \in 1 .. Len(outbox'), j < i  PROVE ~EventOn(k, outbox'[j].event)
      BY <1>0, <2>2, <3>5, <3>7 DEF OneMore, NoneOut
    <3>. QED
      BY <3>5, <3>6, <3>7
  <2>. QED
    BY <1>0, <2>1, <2>2 DEF OneMore
<1>3. ASSUME NEW k \in Cards, board'[k] # Deleted, NEW i \in 1 .. Len(wire[d]),
             AnswerOn(d, k, wire[d][i])', wire[d][i].board[k] = None
      PROVE  view[d][k] = None /\ \A j \in 1 .. Len(wire[d]) : j < i => ~EventOn(k, wire[d][j])
  <2>1. d # c
    BY <1>0, <1>3 DEF AnswerOn, Unanswered
  <2>2. AnswerOn(d, k, wire[d][i])
    <3>1. PICK a : a = wire[d][i]
      OBVIOUS
    <3>2. AnswerOn(d, k, a)'
      BY <1>0, <1>3, <3>1 DEF AnswerOn
    <3>. QED
      BY <1>0, <2>1, <3>1, <3>2 DEF OthersSame
  <2>. QED
    BY <1>0, <1>1, <1>3, <2>2 DEF Earlier
<1>4. UNCHANGED <<view, wire>>
  BY <1>0
<1>. QED
  BY <1>2, <1>3, <1>4 DEF Earlier, EventOn, AnswerOn

LEMMA ServeShows ==
    ASSUME BoardInv, NEW c \in Browsers, FirstSent(c), NEW x, NEW out, Serving(c, x, out),
           NEW d \in Browsers, Follows(d)
    PROVE  WillShow(d)'
<1>0. /\ Sane /\ Unanswered(c) /\ OneMore(out) /\ OthersSame(c) /\ BoardTypeOK
      /\ UNCHANGED <<view, hand, online, wire>> /\ out.by = c /\ out.answer \in Answer
      /\ calls'[c][1].op = x.op /\ calls'[c][1].card = x.card /\ x = calls[c][1] /\ WillShow(d)
  BY NotYetSent, MoreOut, AsBefore DEF BoardInv, Sane, Serving, Follows, FirstSent
<1>1. SUFFICES ASSUME online[d], NEW k \in Cards
               PROVE  Resyncing(d)' \/ Busy(d, k)' \/ Word(d, k)' \/ view[d][k] = Visible(board)'[k]
  BY <1>0 DEF WillShow
<1>2. Resyncing(d) \/ Busy(d, k) \/ Word(d, k) \/ view[d][k] = Visible(board)[k]
  BY <1>0, <1>1 DEF WillShow
<1>3. CASE EventOn(k, out.event)
  BY <1>0, <1>3, OutBefore DEF Word
<1>4. CASE ~EventOn(k, out.event) /\ d = c /\ x.op = "resync"
  <2>1. Len(outbox) + 1 \in 1 .. Len(outbox') /\ outbox'[Len(outbox) + 1] = out
    BY <1>0 DEF OneMore
  <2>2. out.answer.type = "reply"
    BY <1>4 DEF Serving
  <2>3. AnswerOn(c, k, out.answer)'
    BY <1>0, <1>4, <2>2 DEF AnswerOn
  <2>5. PICK n : n = Len(outbox) + 1
    OBVIOUS
  <2>6. AnswerOn(c, k, outbox[n].answer)'
    BY <1>0, <1>4, <2>1, <2>2, <2>5 DEF AnswerOn
  <2>7. n \in 1 .. Len(outbox') /\ outbox'[n].by = c
    BY <1>0, <2>1, <2>5
  <2>. QED
    BY <1>4, <2>6, <2>7 DEF Word
<1>5. CASE ~EventOn(k, out.event) /\ ~(d = c /\ x.op = "resync")
  <2>1. board'[k] = board[k] /\ Visible(board)'[k] = Visible(board)[k]
    BY <1>0, <1>5, OutBefore
  <2>2. Resyncing(d) => Resyncing(d)'
    <3>1. CASE d # c
      BY <1>0, <3>1 DEF OthersSame
    <3>2. CASE d = c
      <4>1. SUFFICES ASSUME NEW i \in 1 .. Len(calls[c]), calls[c][i].op = "resync", ~calls[c][i].sent
                     PROVE  Resyncing(c)'
        BY <3>2 DEF Resyncing
      <4>2. i # 1
        BY <1>0, <1>5, <3>2, <4>1
      <4>3. i \in 1 .. Len(calls'[c]) /\ calls'[c][i] = calls[c][i]
        BY <4>1, <4>2 DEF FirstSent
      <4>. QED
        BY <4>1, <4>3 DEF Resyncing
    <3>. QED
      BY <3>1, <3>2
  <2>3. Busy(d, k) => Busy(d, k)'
    <3>1. CASE hand[d][k] # "empty"
      BY <1>0, <2>1, <3>1 DEF Busy
    <3>2. CASE d # c
      BY <1>0, <2>1, <3>2 DEF Busy, OthersSame
    <3>3. CASE d = c
      <4>1. SUFFICES ASSUME board[k] \in Card, NEW i \in 1 .. Len(calls[c]), calls[c][i].card = k,
                            calls[c][i].op \in {"place", "text", "remove"}, ~calls[c][i].sent
                     PROVE  Busy(c, k)'
        BY <3>1, <3>3 DEF Busy, Speaks
      <4>2. i # 1
        <5>1. SUFFICES ASSUME i = 1  PROVE FALSE
          OBVIOUS
        <5>2. Succeeds(x) /\ x.op # "resync" /\ x.card = k
          BY <1>0, <4>1, <5>1 DEF Succeeds
        <5>. QED
          BY <1>5, <5>2 DEF Serving
      <4>3. i \in 1 .. Len(calls'[c]) /\ calls'[c][i] = calls[c][i]
        BY <4>1, <4>2 DEF FirstSent
      <4>. QED
        BY <2>1, <4>1, <4>3 DEF Busy, Speaks
    <3>. QED
      BY <3>2, <3>3
  <2>4. Word(d, k) => Word(d, k)'
    <3>1. CASE ~NoneOut(k)
      BY <1>0, <3>1, OutBefore DEF Word
    <3>2. ASSUME NEW i \in 1 .. Len(outbox), outbox[i].by = d, AnswerOn(d, k, outbox[i].answer)
          PROVE  Word(d, k)'
      <4>1. d # c /\ i \in 1 .. Len(outbox') /\ outbox'[i] = outbox[i]
        BY <1>0, <3>2 DEF Unanswered, OneMore
      <4>2. PICK a : a = outbox[i].answer
        OBVIOUS
      <4>3. AnswerOn(d, k, a)'
        BY <1>0, <3>2, <4>1, <4>2 DEF OthersSame
      <4>. QED
        BY <3>2, <4>1, <4>2, <4>3 DEF Word, AnswerOn
    <3>3. ASSUME NEW i \in 1 .. Len(wire[d]), EventOn(k, wire[d][i])  PROVE Word(d, k)'
      BY <1>0, <3>3 DEF Word, EventOn
    <3>4. ASSUME NEW i \in 1 .. Len(wire[d]), AnswerOn(d, k, wire[d][i])  PROVE Word(d, k)'
      <4>1. d # c
        BY <1>0, <3>4 DEF Unanswered, AnswerOn
      <4>2. PICK a : a = wire[d][i]
        OBVIOUS
      <4>3. AnswerOn(d, k, a)'
        BY <1>0, <3>4, <4>1, <4>2 DEF OthersSame
      <4>. QED
        BY <1>0, <3>4, <4>2, <4>3 DEF Word, AnswerOn
    <3>. QED
      BY <3>1, <3>2, <3>3, <3>4 DEF Word
  <2>. QED
    BY <1>0, <1>2, <2>1, <2>2, <2>3, <2>4
<1>. QED
  BY <1>3, <1>4, <1>5

LEMMA ServeKeeps ==
    ASSUME BoardInv, NEW c \in Browsers, Serve(c)  PROVE BoardInv'
<1>1. FirstSent(c)
  BY ServeShape
<1>2. PICK x, out : Serving(c, x, out)
  BY ServeShape
<1>3. Sane' /\ disturbed' = disturbed
  BY <1>1, <1>2, ServeSane DEF BoardInv, Serving
<1>4. ASSUME NEW d \in Browsers, d \notin disturbed  PROVE Follows(d)'
  <2>1. Follows(d)
    BY <1>4 DEF BoardInv
  <2>2. OutCurrent' /\ WireCurrent(d)' /\ ShieldsFit(d)'
    BY <1>1, <1>2, <2>1, ServeCurrent
  <2>3. Earlier(d)'
    BY <1>1, <1>2, <2>1, ServeEarlier
  <2>4. WillShow(d)'
    BY <1>1, <1>2, <2>1, ServeShows
  <2>. QED
    BY <2>2, <2>3, <2>4 DEF Follows
<1>. QED
  BY <1>3, <1>4 DEF BoardInv

-----------------------------------------------------------------------------
(* What happens between the server and one browser.                          *)

\* Nothing happens to the browser.
Untouched(d) ==
    /\ view'[d] = view[d] /\ hand'[d] = hand[d] /\ activeIds'[d] = activeIds[d]
    /\ online'[d] = online[d] /\ calls'[d] = calls[d] /\ wire'[d] = wire[d]

LEMMA UntouchedSane ==
    ASSUME UNCHANGED <<board, outbox>>, NEW d \in Browsers, Untouched(d),
           OneAnswer(d), CallsFit(d), WireFits(d)
    PROVE  OneAnswer(d)' /\ CallsFit(d)' /\ WireFits(d)'
<1>1. OneAnswer(d)'
  BY DEF Untouched, OneAnswer
<1>2. CallsFit(d)'
  BY DEF Untouched, CallsFit, CallFits
<1>3. WireFits(d)'
  BY DEF Untouched, WireFits, EventFits, AnswerFits
<1>. QED
  BY <1>1, <1>2, <1>3

LEMMA UntouchedFollows ==
    ASSUME UNCHANGED <<board, outbox>>, NEW d \in Browsers, Untouched(d), Follows(d)
    PROVE  Follows(d)'
<1>1. OutCurrent' /\ WireCurrent(d)' /\ ShieldsFit(d)'
  <2>1. OutCurrent'
    BY DEF Follows, OutCurrent, NoneOutFrom, EventOn, Visible
  <2>2. WireCurrent(d)'
    BY DEF Untouched, Follows, WireCurrent, NoneOut, NoneAfter, EventOn, AnswerOn, Resyncing, Visible
  <2>3. ShieldsFit(d)'
    BY DEF Untouched, Follows, ShieldsFit
  <2>. QED
    BY <2>1, <2>2, <2>3
<1>2. Earlier(d)'
  BY DEF Untouched, Follows, Earlier, EventOn, AnswerOn
<1>3. \A k : /\ Word(d, k)' <=> Word(d, k)
             /\ Busy(d, k)' <=> Busy(d, k)
  BY DEF Untouched, Word, Busy, Speaks, NoneOut, EventOn, AnswerOn
<1>4. Resyncing(d)' <=> Resyncing(d)
  BY DEF Untouched, Resyncing
<1>5. WillShow(d)'
  BY <1>3, <1>4 DEF Untouched, Follows, WillShow, Visible
<1>. QED
  BY <1>1, <1>2, <1>5 DEF Follows

\* One browser is touched: what is to be shown of it.
LEMMA OneTouched ==
    ASSUME BoardInv, UNCHANGED <<board, outbox>>, BoardTypeOK', CreatedOnce',
           OutboxFits', Unseen', NEW c \in Browsers, \A d \in Browsers : d # c => Untouched(d),
           OneAnswer(c)', CallsFit(c)', WireFits(c)',
           \A d \in Browsers : d # c /\ d \notin disturbed' => d \notin disturbed,
           c \notin disturbed' => Follows(c)'
    PROVE  BoardInv'
<1>1. \A d \in Browsers : OneAnswer(d)' /\ CallsFit(d)' /\ WireFits(d)'
  <2>. SUFFICES ASSUME NEW d \in Browsers, d # c  PROVE OneAnswer(d)' /\ CallsFit(d)' /\ WireFits(d)'
    OBVIOUS
  <2>1. OneAnswer(d) /\ CallsFit(d) /\ WireFits(d)
    BY DEF BoardInv, Sane
  <2>. QED
    BY <2>1, UntouchedSane
<1>2. ASSUME NEW d \in Browsers, d \notin disturbed'  PROVE Follows(d)'
  <2>1. CASE d = c
    BY <1>2, <2>1
  <2>2. CASE d # c
    <3>1. Follows(d)
      BY <1>2, <2>2 DEF BoardInv
    <3>. QED
      BY <2>2, <3>1, UntouchedFollows
  <2>. QED
    BY <2>1, <2>2
<1>. QED
  BY <1>1, <1>2 DEF BoardInv, Sane

\* The first call is sent, the board stays.
LEMMA FirstCallsStay ==
    ASSUME Sane, NEW c \in Browsers, calls[c] # <<>>, FirstSent(c), UNCHANGED <<board, outbox>>
    PROVE  CreatedOnce' /\ CallsFit(c)' /\ OutboxFits'
<1>0. BoardTypeOK /\ \A d \in Browsers : Len(calls[d]) \in Nat
  BY Carried DEF Sane
<1>1. ASSUME NEW d \in Browsers, NEW i \in 1 .. Len(calls'[d])
      PROVE  /\ i \in 1 .. Len(calls[d]) /\ calls'[d][i].op = calls[d][i].op
             /\ calls'[d][i].card = calls[d][i].card /\ calls'[d][i].with = calls[d][i].with
             /\ ~calls'[d][i].sent => ~calls[d][i].sent
  <2>1. CASE d = c
    BY <1>0, <2>1 DEF FirstSent
  <2>2. CASE d # c
    BY <1>0, <2>2 DEF FirstSent
  <2>. QED
    BY <2>1, <2>2
<1>2. CreatedOnce'
  <2>. SUFFICES ASSUME NEW d \in Browsers, NEW e \in Browsers,
                       NEW i \in 1 .. Len(calls'[d]), NEW j \in 1 .. Len(calls'[e]),
                       calls'[d][i].op = "create", calls'[e][j].op = "create",
                       calls'[d][i].card = calls'[e][j].card
                PROVE  d = e /\ i = j
    BY DEF CreatedOnce
  <2>1. i \in 1 .. Len(calls[d]) /\ calls[d][i].op = "create" /\ calls'[d][i].card = calls[d][i].card
    BY <1>1
  <2>2. j \in 1 .. Len(calls[e]) /\ calls[e][j].op = "create" /\ calls'[e][j].card = calls[e][j].card
    BY <1>1
  <2>3. CreatedOnce
    BY DEF Sane
  <2>4. calls[d][i].card = calls[e][j].card
    BY <2>1, <2>2
  <2>. QED
    BY <2>1, <2>2, <2>3, <2>4 DEF CreatedOnce
<1>3. CallsFit(c)'
  BY <1>1 DEF Sane, CallsFit, CallFits
<1>4. \A d \in Browsers : calls[d] # <<>> =>
          calls'[d][1].op = calls[d][1].op /\ calls'[d][1].card = calls[d][1].card
  BY DEF FirstSent
<1>5. ASSUME NEW i \in 1 .. Len(outbox)  PROVE OutFits(outbox[i])'
  <2>1. PICK o : o = outbox[i]
    OBVIOUS
  <2>2. OutFits(o) /\ o.by \in Browsers
    BY <1>0, <2>1, Carried DEF Sane, OutboxFits
  <2>3. calls[o.by] # <<>>
    BY <2>1, <2>2 DEF Sane, OneAnswer
  <2>4. OutFits(o)'
    BY <1>4, <2>2, <2>3 DEF OutFits, EventFits, AnswerFits
  <2>. QED
    BY <2>1, <2>4 DEF OutFits, EventFits, AnswerFits
<1>6. OutboxFits'
  BY <1>5 DEF OutboxFits
<1>. QED
  BY <1>2, <1>3, <1>6

LEMMA RefuseKeeps ==
    ASSUME BoardInv, NEW c \in Browsers, Refuse(c)  PROVE BoardInv'
<1>0. /\ Sane /\ BoardTypeOK /\ calls[c] # <<>> /\ Len(wire[c]) \in Nat
      /\ calls[c] \in Seq(Call) /\ wire[c] \in Seq(Event \cup Answer)
      /\ board \in [Cards -> Row]
  BY Carried DEF BoardInv, Sane, Refuse
<1>1. PICK a : a = [type |-> "error", board |-> Visible(board)]
  OBVIOUS
<1>2. /\ FirstSent(c) /\ wire' = [wire EXCEPT ![c] = Append(wire[c], a)]
      /\ Mishap /\ disturbed' = disturbed \cup {c}
      /\ UNCHANGED <<board, outbox, view, activeIds, hand, online>>
  BY <1>0, <1>1, SendsFirst DEF Refuse, Disturb
<1>3. ~calls[c][1].sent /\ Unanswered(c)
  BY <1>0, NotYetSent DEF Refuse
<1>4. a \in Answer /\ a.type = "error" /\ a.board = Visible(board)
  BY <1>0, <1>1, Kinds DEF Answer
<1>5. /\ wire'[c] = Append(wire[c], a) /\ wire'[c] \in Seq(Event \cup Answer)
      /\ \A d \in Browsers : d # c => wire'[d] = wire[d]
      /\ wire' \in [Browsers -> Seq(Event \cup Answer)]
  <2>1. wire \in [Browsers -> Seq(Event \cup Answer)]
    BY <1>0 DEF BoardTypeOK
  <2>2. Append(wire[c], a) \in Seq(Event \cup Answer)
    BY <1>0, <1>4, AppendProperties
  <2>. QED
    BY <1>2, <2>1, <2>2
<1>6. \A i \in 1 .. Len(wire'[c]) : (i \in 1 .. Len(wire[c]) /\ wire'[c][i] = wire[c][i])
                                    \/ (i = Len(wire[c]) + 1 /\ wire'[c][i] = a)
  BY <1>0, <1>4, <1>5, AppendProperties
<1>7. BoardTypeOK'
  BY <1>0, <1>2, <1>5, MishapCounted DEF BoardTypeOK, FirstSent
<1>8. OneAnswer(c)'
  <2>1. OneAnswer(c)
    BY <1>0 DEF Sane
  <2>2. \A i \in 1 .. Len(calls'[c]) : calls'[c][i].sent => i = 1
    BY <1>2, <2>1 DEF OneAnswer, FirstSent
  <2>3. \A i \in 1 .. Len(wire'[c]) : wire'[c][i] \in Answer => i = Len(wire[c]) + 1
    BY <1>3, <1>6 DEF Unanswered
  <2>4. \A i \in 1 .. Len(outbox') : outbox'[i].by # c
    BY <1>2, <1>3 DEF Unanswered
  <2>. QED
    BY <1>2, <2>2, <2>3, <2>4 DEF OneAnswer, FirstSent
<1>9. WireFits(c)'
  <2>1. WireFits(c)
    BY <1>0 DEF Sane
  <2>2. ASSUME NEW i \in 1 .. Len(wire'[c]), NEW m, m = wire'[c][i]
        PROVE  /\ m \in Event => EventFits(m)' /\ online'[c]
               /\ m \in Answer => AnswerFits(c, m)'
    <3>1. CASE m = a
      <4>1. AnswerFits(c, a)'
        BY <1>0, <1>2, <1>4, Kinds DEF AnswerFits
      <4>. QED
        BY <1>4, <3>1, <4>1, Kinds
    <3>2. CASE i \in 1 .. Len(wire[c]) /\ m = wire[c][i]
      <4>1. m \notin Answer /\ (m \in Event => EventFits(m) /\ online[c])
        BY <1>3, <2>1, <3>2 DEF Unanswered, WireFits
      <4>. QED
        BY <1>2, <4>1 DEF EventFits
    <3>. QED
      BY <1>6, <2>2, <3>1, <3>2
  <2>. QED
    BY <2>2 DEF WireFits, EventFits, AnswerFits
<1>10. CreatedOnce' /\ CallsFit(c)' /\ OutboxFits'
  BY <1>0, <1>2, FirstCallsStay
<1>11. Unseen'
  BY <1>0, <1>2 DEF Sane, Unseen
<1>12. \A d \in Browsers : d # c => Untouched(d)
  BY <1>2, <1>5 DEF Untouched, FirstSent
<1>. QED
  BY <1>2, <1>7, <1>8, <1>9, <1>10, <1>11, <1>12, OneTouched

-----------------------------------------------------------------------------
(* The server sends.                                                         *)

\* A queue without its element i.
LEMMA QueueRemoved ==
    ASSUME NEW S, NEW q \in Seq(S), NEW i \in 1 .. Len(q)
    PROVE  /\ RemoveAt(q, i) \in Seq(S) /\ Len(RemoveAt(q, i)) = Len(q) - 1
           /\ \A k \in 1 .. Len(q) - 1 :
                RemoveAt(q, i)[k] = IF k < i THEN q[k] ELSE q[k + 1]
<1>. DEFINE a == SubSeq(q, 1, i - 1)  b == SubSeq(q, i + 1, Len(q))
<1>1. Len(q) \in Nat /\ \A k \in 1 .. Len(q) : q[k] \in S
  BY LenProperties
<1>2. a \in Seq(S) /\ Len(a) = i - 1 /\ \A k \in 1 .. i - 1 : a[k] = q[k]
  <2>1. /\ a \in Seq(S) /\ Len(a) = IF 1 <= i - 1 THEN i - 1 - 1 + 1 ELSE 0
        /\ \A k \in 1 .. (i - 1) - 1 + 1 : a[k] = q[1 + k - 1]
    BY <1>1, SubSeqProperties
  <2>. HIDE DEF a
  <2>. QED
    BY <1>1, <2>1
<1>3. b \in Seq(S) /\ Len(b) = Len(q) - i /\ \A k \in 1 .. Len(q) - i : b[k] = q[k + i]
  <2>1. /\ b \in Seq(S) /\ Len(b) = IF i + 1 <= Len(q) THEN Len(q) - (i + 1) + 1 ELSE 0
        /\ \A k \in 1 .. Len(q) - (i + 1) + 1 : b[k] = q[i + 1 + k - 1]
    BY <1>1, SubSeqProperties
  <2>. HIDE DEF b
  <2>2. \A k \in 1 .. Len(q) - i : i + 1 + k - 1 = k + i
    OBVIOUS
  <2>. QED
    BY <1>1, <2>1, <2>2
<1>4. RemoveAt(q, i) = a \o b
  BY DEF RemoveAt
<1>. HIDE DEF a, b
<1>5. /\ a \o b \in Seq(S) /\ Len(a \o b) = Len(a) + Len(b)
      /\ \A k \in 1 .. Len(a) + Len(b) : (a \o b)[k] = IF k <= Len(a) THEN a[k] ELSE b[k - Len(a)]
  BY <1>2, <1>3, ConcatProperties
<1>6. ASSUME NEW k \in 1 .. Len(q) - 1
      PROVE  (a \o b)[k] = IF k < i THEN q[k] ELSE q[k + 1]
  <2>1. CASE k < i
    BY <1>1, <1>2, <1>3, <1>5, <2>1
  <2>2. CASE ~(k < i)
    <3>1. k - (i - 1) \in 1 .. Len(q) - i /\ k - (i - 1) + i = k + 1
      BY <1>1, <2>2
    <3>2. (a \o b)[k] = b[k - (i - 1)]
      BY <1>1, <1>2, <1>3, <1>5, <2>2
    <3>3. b[k - (i - 1)] = q[k + 1]
      BY <1>3, <3>1
    <3>. QED
      BY <2>2, <3>2, <3>3
  <2>. QED
    BY <2>1, <2>2
<1>7. Len(a) + Len(b) = Len(q) - 1
  BY <1>1, <1>2, <1>3
<1>. QED
  BY <1>4, <1>5, <1>6, <1>7

One(is, m) == IF is THEN <<m>> ELSE <<>>

Grown(q, says, e, answers, a) == q \o One(says, e) \o One(answers, a)

\* r is q with an event, if there is one, and an answer, if there is one.
Extends(r, q, S, says, e, answers, a) ==
    /\ r \in Seq(S) /\ Len(q) \in Nat /\ Len(r) \in Nat /\ Len(r) >= Len(q)
    /\ \A j \in 1 .. Len(q) : r[j] = q[j]
    /\ \A j \in 1 .. Len(r) :
         \/ j \in 1 .. Len(q)
         \/ says /\ j = Len(q) + 1 /\ r[j] = e
         \/ answers /\ j = Len(r) /\ r[j] = a
    /\ says => Len(q) + 1 \in 1 .. Len(r) /\ r[Len(q) + 1] = e
    /\ answers => Len(r) \in 1 .. Len(r) /\ Len(r) > Len(q) /\ r[Len(r)] = a

LEMMA Sentence ==
    ASSUME NEW S, NEW q \in Seq(S), NEW e \in S, NEW a \in S, NEW says \in BOOLEAN, NEW answers \in BOOLEAN,
           NEW r, r = Grown(q, says, e, answers, a)
    PROVE  Extends(r, q, S, says, e, answers, a)
<1>1. PICK u : u = One(says, e)
  OBVIOUS
<1>2. PICK v : v = One(answers, a)
  OBVIOUS
<1>3. u \in Seq(S) /\ Len(u) = (IF says THEN 1 ELSE 0) /\ (says => u[1] = e)
  BY <1>1 DEF One
<1>4. v \in Seq(S) /\ Len(v) = (IF answers THEN 1 ELSE 0) /\ (answers => v[1] = a)
  BY <1>2 DEF One
<1>5. PICK w : w = q \o u
  OBVIOUS
<1>6. r = w \o v
  BY <1>1, <1>2, <1>5 DEF Grown
<1>7. /\ w \in Seq(S) /\ Len(w) = Len(q) + Len(u)
      /\ \A i \in 1 .. Len(q) + Len(u) : w[i] = IF i <= Len(q) THEN q[i] ELSE u[i - Len(q)]
  BY <1>3, <1>5, ConcatProperties
<1>8. /\ r \in Seq(S) /\ Len(r) = Len(w) + Len(v)
      /\ \A i \in 1 .. Len(w) + Len(v) : r[i] = IF i <= Len(w) THEN w[i] ELSE v[i - Len(w)]
  <2>1. w \in Seq(S) /\ v \in Seq(S)
    BY <1>4, <1>7
  <2>2. /\ w \o v \in Seq(S) /\ Len(w \o v) = Len(w) + Len(v)
        /\ \A i \in 1 .. Len(w) + Len(v) : (w \o v)[i] = IF i <= Len(w) THEN w[i] ELSE v[i - Len(w)]
    BY <2>1, ConcatProperties
  <2>. QED
    BY <1>6, <2>2
<1>9. Len(q) \in Nat
  BY LenProperties
<1>10. /\ Len(w) = IF says THEN Len(q) + 1 ELSE Len(q)
       /\ says => w[Len(q) + 1] = e
       /\ \A i \in 1 .. Len(q) : w[i] = q[i]
  <2>1. CASE says
    BY <1>3, <1>7, <1>9, <2>1
  <2>2. CASE ~says
    BY <1>3, <1>7, <1>9, <2>2
  <2>. QED
    BY <2>1, <2>2
<1>11. /\ Len(r) = IF answers THEN Len(w) + 1 ELSE Len(w)
       /\ answers => r[Len(w) + 1] = a
       /\ \A i \in 1 .. Len(w) : r[i] = w[i]
  <2>0. Len(w) \in Nat
    BY <1>9, <1>10
  <2>1. CASE answers
    <3>1. Len(v) = 1 /\ v[1] = a
      BY <1>4, <2>1
    <3>2. Len(r) = Len(w) + 1 /\ r[Len(w) + 1] = v[Len(w) + 1 - Len(w)]
      BY <1>8, <2>0, <3>1
    <3>3. \A i \in 1 .. Len(w) : r[i] = w[i]
      BY <1>8, <2>0, <3>1
    <3>. QED
      <4>1. Len(w) + 1 - Len(w) = 1
        BY <2>0
      <4>2. r[Len(w) + 1] = a
        BY <3>1, <3>2, <4>1
      <4>. QED
        BY <2>1, <3>2, <3>3, <4>2
  <2>2. CASE ~answers
    BY <1>4, <1>8, <2>0, <2>2
  <2>. QED
    BY <2>1, <2>2
<1>. QED
  BY <1>8, <1>9, <1>10, <1>11 DEF Extends

\* What a browser is sent of an entry of the outbox.
Told(d, out) ==
    /\ Len(wire[d]) \in Nat /\ Len(wire'[d]) \in Nat /\ Len(wire'[d]) >= Len(wire[d])
    /\ \A j \in 1 .. Len(wire[d]) : wire'[d][j] = wire[d][j]
    /\ \A j \in 1 .. Len(wire'[d]) :
         \/ j \in 1 .. Len(wire[d])
         \/ out.event # None /\ online[d] /\ j = Len(wire[d]) + 1 /\ wire'[d][j] = out.event
         \/ d = out.by /\ j = Len(wire'[d]) /\ wire'[d][j] = out.answer
    /\ out.event # None /\ online[d] =>
         Len(wire[d]) + 1 \in 1 .. Len(wire'[d]) /\ wire'[d][Len(wire[d]) + 1] = out.event
    /\ d = out.by =>
         /\ Len(wire'[d]) \in 1 .. Len(wire'[d]) /\ Len(wire'[d]) > Len(wire[d])
         /\ wire'[d][Len(wire'[d])] = out.answer
    /\ wire'[d] \in Seq(Event \cup Answer)

\* The entry goes.
OneLess(n, out) ==
    /\ n \in 1 .. Len(outbox) /\ out = outbox[n]
    /\ Len(outbox) \in Nat /\ Len(outbox') = Len(outbox) - 1
    /\ \A j \in 1 .. Len(outbox') : outbox'[j] = IF j < n THEN outbox[j] ELSE outbox[j + 1]
    /\ out.by \in Browsers /\ out.event \in Event \cup {None} /\ out.answer \in Answer

LEMMA SendShape ==
    ASSUME BoardTypeOK, NEW n \in DOMAIN outbox, Send(n), NEW out, out = outbox[n]
    PROVE  /\ OneLess(n, out) /\ BoardTypeOK' /\ \A d \in Browsers : Told(d, out)
           /\ UNCHANGED <<board, view, activeIds, hand, online, calls>>
<1>. DEFINE Out == [by: Browsers, event: Event \cup {None}, answer: Answer]
<1>1. outbox \in Seq(Out) /\ Len(outbox) \in Nat
  BY LenProperties DEF BoardTypeOK
<1>2. n \in 1 .. Len(outbox)
  BY <1>1
<1>3. out.by \in Browsers /\ out.event \in Event \cup {None} /\ out.answer \in Answer
  BY <1>2, Carried
<1>. HIDE DEF Out
<1>4. /\ outbox' \in Seq(Out) /\ Len(outbox') = Len(outbox) - 1
      /\ \A j \in 1 .. Len(outbox) - 1 : outbox'[j] = IF j < n THEN outbox[j] ELSE outbox[j + 1]
  BY <1>1, <1>2, QueueRemoved DEF Send
<1>5. ASSUME NEW d \in Browsers  PROVE Told(d, out)
  <2>1. wire'[d] = wire[d] \o (IF out.event # None /\ online[d] THEN <<out.event>> ELSE <<>>)
                           \o (IF d = out.by THEN <<out.answer>> ELSE <<>>)
    BY DEF Send
  <2>2. PICK says \in BOOLEAN : says <=> out.event # None /\ online[d]
    OBVIOUS
  <2>3. PICK answers \in BOOLEAN : answers <=> d = out.by
    OBVIOUS
  <2>4. PICK e : e = IF says THEN out.event ELSE out.answer
    OBVIOUS
  <2>5. e \in Event \cup Answer /\ out.answer \in Event \cup Answer /\ (says => e = out.event)
    BY <1>3, <2>2, <2>4
  <2>6. wire[d] \in Seq(Event \cup Answer)
    BY DEF BoardTypeOK
  <2>7. PICK a, q, r : a = out.answer /\ q = wire[d] /\ r = wire'[d]
    OBVIOUS
  <2>8. r = Grown(q, says, e, answers, a)
    BY <2>1, <2>2, <2>3, <2>5, <2>7 DEF Grown, One
  <2>9. q \in Seq(Event \cup Answer) /\ a \in Event \cup Answer
    BY <2>5, <2>6, <2>7
  <2>10. Extends(r, q, Event \cup Answer, says, e, answers, a)
    <3>1. PICK S : S = Event \cup Answer
      OBVIOUS
    <3>2. q \in Seq(S) /\ e \in S /\ a \in S
      BY <2>5, <2>9, <3>1
    <3>. QED
      <4>1. Extends(r, q, S, says, e, answers, a)
        BY <2>8, <3>2, Sentence
      <4>. QED
        BY <3>1, <4>1
  <2>. QED
    BY <2>2, <2>3, <2>5, <2>7, <2>10 DEF Told, Extends
<1>6. spent' \in Ceiling /\ disturbed' \subseteq Browsers
  BY MishapCounted DEF Send, Undisturbed, Disturb, BoardTypeOK
<1>7. wire' \in [Browsers -> Seq(Event \cup Answer)]
  <2>1. wire' = [d \in Browsers |-> wire'[d]]
    BY DEF Send
  <2>. QED
    BY <1>5, <2>1 DEF Told
<1>8. UNCHANGED <<board, view, activeIds, hand, online, calls>>
  BY DEF Send
<1>9. BoardTypeOK'
  BY <1>4, <1>6, <1>7, <1>8 DEF BoardTypeOK, Out
<1>. QED
  BY <1>1, <1>2, <1>3, <1>4, <1>5, <1>8, <1>9 DEF OneLess

LEMMA SendSane ==
    ASSUME Sane, NEW n, NEW out, OneLess(n, out), BoardTypeOK', \A d \in Browsers : Told(d, out),
           UNCHANGED <<board, view, activeIds, hand, online, calls>>
    PROVE  Sane'
<1>0. OutFits(out) /\ out.by \in Browsers /\ out.event \in Event \cup {None} /\ out.answer \in Answer
  BY DEF Sane, OutboxFits, OneLess
<1>1. ASSUME NEW j \in 1 .. Len(outbox')
      PROVE  \E i \in 1 .. Len(outbox) : i # n /\ outbox'[j] = outbox[i] /\ i = IF j < n THEN j ELSE j + 1
  BY DEF OneLess
<1>2. ASSUME NEW d \in Browsers  PROVE OneAnswer(d)'
  <2>1. OneAnswer(d) /\ Told(d, out) /\ calls' = calls
    BY DEF Sane
  <2>2. CASE d = out.by
    <3>1. /\ calls[d] # <<>> /\ calls[d][1].sent
          /\ \A i \in 1 .. Len(outbox) : outbox[i].by = d => i = n
          /\ \A j \in 1 .. Len(wire[d]) : wire[d][j] \notin Answer
      BY <2>1, <2>2 DEF OneAnswer, OneLess
    <3>2. \A j \in 1 .. Len(outbox') : outbox'[j].by # d
      BY <1>1, <3>1
    <3>3. \A j \in 1 .. Len(wire'[d]) : wire'[d][j] \in Answer => j = Len(wire'[d])
      BY <1>0, <2>1, <3>1, Kinds DEF Told
    <3>. QED
      BY <2>1, <3>1, <3>2, <3>3 DEF OneAnswer
  <2>3. CASE d # out.by
    <3>1. ASSUME NEW j \in 1 .. Len(outbox'), outbox'[j].by = d
          PROVE  /\ calls[d] # <<>> /\ calls[d][1].sent
                 /\ \A i \in 1 .. Len(outbox') : outbox'[i].by = d => i = j
                 /\ \A i \in 1 .. Len(wire'[d]) : wire'[d][i] \notin Answer
      <4>1. PICK jj \in 1 .. Len(outbox) : outbox'[j] = outbox[jj] /\ jj = IF j < n THEN j ELSE j + 1
        BY <1>1
      <4>2. /\ calls[d] # <<>> /\ calls[d][1].sent
            /\ \A i \in 1 .. Len(outbox) : outbox[i].by = d => i = jj
            /\ \A i \in 1 .. Len(wire[d]) : wire[d][i] \notin Answer
        BY <2>1, <3>1, <4>1 DEF OneAnswer
      <4>3. ASSUME NEW i \in 1 .. Len(outbox'), outbox'[i].by = d  PROVE i = j
        <5>1. PICK ii \in 1 .. Len(outbox) : outbox'[i] = outbox[ii] /\ ii = IF i < n THEN i ELSE i + 1
          BY <1>1
        <5>2. ii = jj
          BY <4>2, <4>3, <5>1
        <5>. QED
          BY <4>1, <5>1, <5>2 DEF OneLess
      <4>4. \A i \in 1 .. Len(wire'[d]) : wire'[d][i] \notin Answer
        BY <1>0, <2>1, <2>3, <4>2, Kinds DEF Told
      <4>. QED
        BY <4>2, <4>3, <4>4
    <3>2. \A j \in 1 .. Len(wire'[d]) : wire'[d][j] \in Answer =>
             j \in 1 .. Len(wire[d]) /\ wire[d][j] \in Answer
      BY <1>0, <2>1, <2>3, Kinds DEF Told
    <3>3. \A i \in 1 .. Len(calls[d]) : calls[d][i].sent => i = 1
      BY <2>1 DEF OneAnswer
    <3>4. ASSUME NEW j \in 1 .. Len(wire'[d]), wire'[d][j] \in Answer
          PROVE  /\ calls[d] # <<>> /\ calls[d][1].sent
                 /\ \A i \in 1 .. Len(wire'[d]) : wire'[d][i] \in Answer => i = j
      BY <2>1, <3>2, <3>4 DEF OneAnswer
    <3>. QED
      BY <2>1, <3>1, <3>3, <3>4 DEF OneAnswer
  <2>. QED
    BY <2>2, <2>3
<1>3. ASSUME NEW d \in Browsers  PROVE WireFits(d)'
  <2>1. WireFits(d) /\ Told(d, out)
    BY DEF Sane
  <2>2. ASSUME NEW j \in 1 .. Len(wire'[d]), NEW m, m = wire'[d][j]
        PROVE  /\ m \in Event => EventFits(m) /\ online[d]
               /\ m \in Answer => AnswerFits(d, m)
    <3>1. CASE j \in 1 .. Len(wire[d])
      BY <2>1, <2>2, <3>1 DEF WireFits, Told
    <3>2. CASE out.event # None /\ online[d] /\ m = out.event
      BY <1>0, <3>2, Kinds DEF OutFits
    <3>3. CASE d = out.by /\ m = out.answer
      BY <1>0, <3>3, Kinds DEF OutFits
    <3>. QED
      BY <2>1, <2>2, <3>1, <3>2, <3>3 DEF Told
  <2>. QED
    BY <2>2 DEF WireFits, EventFits, AnswerFits
<1>4. OutboxFits'
  <2>1. ASSUME NEW j \in 1 .. Len(outbox'), NEW o, o = outbox'[j]  PROVE OutFits(o)'
    <3>1. OutFits(o)
      BY <1>1, <2>1 DEF Sane, OutboxFits
    <3>. QED
      BY <3>1 DEF OutFits, EventFits, AnswerFits
  <2>. QED
    BY <2>1 DEF OutboxFits, OutFits, EventFits, AnswerFits
<1>5. CreatedOnce' /\ Unseen' /\ \A d \in Browsers : CallsFit(d)'
  BY DEF Sane, CreatedOnce, Unseen, CallsFit, CallFits
<1>. QED
  BY <1>2, <1>3, <1>4, <1>5 DEF Sane

\* The oldest entry goes: what is left of a card comes after it.
LEMMA OutAfter ==
    ASSUME Sane, NEW out, OneLess(1, out), NEW k \in Cards
    PROVE  /\ \A j \in 1 .. Len(outbox') : j + 1 \in 1 .. Len(outbox) /\ outbox'[j] = outbox[j + 1]
           /\ \A i \in 1 .. Len(outbox) : i # 1 =>
                i - 1 \in 1 .. Len(outbox') /\ outbox'[i - 1] = outbox[i]
           /\ \A j \in 1 .. Len(outbox') : NoneOutFrom(k, j + 1)' => NoneOutFrom(k, j + 2)
           /\ NoneOut(k)' => NoneOutFrom(k, 2)
           /\ NoneOut(k)' /\ ~EventOn(k, out.event) => NoneOut(k)
<1>1. ASSUME NEW j \in 1 .. Len(outbox')  PROVE j + 1 \in 1 .. Len(outbox) /\ outbox'[j] = outbox[j + 1]
  BY DEF OneLess
<1>2. ASSUME NEW i \in 1 .. Len(outbox), i # 1
      PROVE  i - 1 \in 1 .. Len(outbox') /\ outbox'[i - 1] = outbox[i]
  BY <1>2 DEF OneLess
<1>3. ASSUME NEW j \in 1 .. Len(outbox'), NoneOutFrom(k, j + 1)', NEW i \in 1 .. Len(outbox), i >= j + 2
      PROVE  ~EventOn(k, outbox[i].event)
  <2>1. i # 1 /\ i - 1 >= j + 1
    BY <1>3
  <2>. QED
    BY <1>2, <1>3, <2>1 DEF NoneOutFrom, EventOn
<1>4. ASSUME NoneOut(k)', NEW i \in 1 .. Len(outbox), i # 1  PROVE ~EventOn(k, outbox[i].event)
  BY <1>2, <1>4 DEF NoneOut, EventOn
<1>5. NoneOut(k)' => NoneOutFrom(k, 2)
  BY <1>4 DEF NoneOutFrom
<1>6. NoneOut(k)' /\ ~EventOn(k, out.event) => NoneOut(k)
  BY <1>4 DEF NoneOut, OneLess
<1>. QED
  BY <1>1, <1>2, <1>3, <1>5, <1>6 DEF NoneOutFrom

LEMMA SendCurrent ==
    ASSUME Sane, NEW out, OneLess(1, out), NEW d \in Browsers, Told(d, out),
           UNCHANGED <<board, view, activeIds, hand, online, calls>>, Follows(d)
    PROVE  OutCurrent' /\ WireCurrent(d)' /\ ShieldsFit(d)'
<1>0. /\ OutCurrent /\ WireCurrent(d) /\ ShieldsFit(d) /\ OutFits(out)
      /\ 1 \in 1 .. Len(outbox) /\ out = outbox[1] /\ Len(outbox) \in Nat
      /\ out.event \in Event \cup {None} /\ out.answer \in Answer
  BY DEF Sane, OutboxFits, OneLess, Follows
<1>1. Visible(board)' = Visible(board)
  BY DEF Visible
<1>2. ASSUME NEW j \in 1 .. Len(outbox'), NEW k \in Cards, NoneOutFrom(k, j + 1)'
      PROVE  outbox'[j].answer.board[k] = Visible(board)[k]
  <2>1. j + 1 \in 1 .. Len(outbox) /\ outbox'[j] = outbox[j + 1] /\ NoneOutFrom(k, j + 2)
    BY <1>2, OutAfter
  <2>2. PICK i \in 1 .. Len(outbox) : i = j + 1
    BY <2>1
  <2>3. i + 1 = j + 2
    BY <2>2
  <2>. QED
    BY <1>0, <2>1, <2>2, <2>3 DEF OutCurrent
<1>3. OutCurrent'
  BY <1>1, <1>2 DEF OutCurrent
<1>4. ASSUME NEW k \in Cards, NoneOut(k)'  PROVE out.answer.board[k] = Visible(board)[k]
  <2>1. NoneOutFrom(k, 1 + 1)
    BY <1>4, OutAfter
  <2>. QED
    BY <1>0, <2>1 DEF OutCurrent
<1>5. ASSUME online[d], NEW j \in 1 .. Len(wire'[d]), NEW k \in Cards, NoneOut(k)', NoneAfter(d, k, j)',
             NEW m, m = wire'[d][j]
      PROVE  /\ EventOn(k, m) => m.with = Visible(board)[k]
             /\ AnswerOn(d, k, m) /\ ~Resyncing(d) => m.board[k] = Visible(board)[k]
  <2>1. CASE j \in 1 .. Len(wire[d])
    <3>1. ~EventOn(k, out.event)
      <4>1. SUFFICES ASSUME EventOn(k, out.event)  PROVE FALSE
        OBVIOUS
      <4>2. out.event # None
        BY <4>1, Kinds DEF EventOn
      <4>3. PICK l \in 1 .. Len(wire'[d]) : l = Len(wire[d]) + 1 /\ wire'[d][l] = out.event
        BY <1>5, <4>2 DEF Told
      <4>4. l > j
        BY <2>1, <4>3 DEF Told
      <4>. QED
        BY <1>5, <4>1, <4>3, <4>4 DEF NoneAfter, EventOn
    <3>2. NoneOut(k)
      BY <1>5, <3>1, OutAfter
    <3>3. NoneAfter(d, k, j)
      <4>1. SUFFICES ASSUME NEW l \in 1 .. Len(wire[d]), l > j  PROVE ~EventOn(k, wire[d][l])
        BY DEF NoneAfter
      <4>2. l \in 1 .. Len(wire'[d]) /\ wire'[d][l] = wire[d][l]
        BY <4>1 DEF Told
      <4>. QED
        BY <1>5, <4>1, <4>2 DEF NoneAfter, EventOn
    <3>4. m = wire[d][j]
      BY <1>5, <2>1 DEF Told
    <3>. QED
      BY <1>0, <1>5, <2>1, <3>2, <3>3, <3>4 DEF WireCurrent
  <2>2. CASE out.event # None /\ m = out.event
    <3>1. m \in Event /\ m.with = out.answer.board[m.card]
      BY <1>0, <2>2 DEF OutFits
    <3>2. m \notin Answer
      BY <3>1, Kinds
    <3>. QED
      BY <1>4, <1>5, <3>1, <3>2 DEF EventOn, AnswerOn
  <2>3. CASE m = out.answer
    <3>1. m \in Answer /\ m \notin Event
      BY <1>0, <2>3, Kinds
    <3>. QED
      BY <1>4, <1>5, <2>3, <3>1 DEF EventOn
  <2>. QED
    BY <1>5, <2>1, <2>2, <2>3 DEF Told
<1>6. (Resyncing(d)' <=> Resyncing(d)) /\ online'[d] = online[d]
  BY DEF Resyncing
<1>7. WireCurrent(d)'
  BY <1>1, <1>5, <1>6 DEF WireCurrent, EventOn, AnswerOn
<1>8. ShieldsFit(d)'
  BY <1>0 DEF ShieldsFit
<1>. QED
  BY <1>3, <1>7, <1>8

LEMMA SendEarlier ==
    ASSUME Sane, NEW out, OneLess(1, out), NEW d \in Browsers, Told(d, out),
           UNCHANGED <<board, view, activeIds, hand, online, calls>>, Follows(d)
    PROVE  Earlier(d)'
<1>0. /\ Earlier(d) /\ OutFits(out) /\ 1 \in 1 .. Len(outbox) /\ out = outbox[1] /\ Len(outbox) \in Nat
      /\ out.event \in Event \cup {None} /\ out.answer \in Answer
  BY DEF Sane, OutboxFits, OneLess, Follows
<1>1. ASSUME NEW k \in Cards, board[k] # Deleted, NEW j \in 1 .. Len(outbox'), NEW o, o = outbox'[j],
             o.by = d, AnswerOn(d, k, o.answer), o.answer.board[k] = None
      PROVE  /\ view[d][k] = None
             /\ \A i \in 1 .. Len(outbox') : i < j => ~EventOn(k, outbox'[i].event)
             /\ \A i \in 1 .. Len(wire'[d]) : ~EventOn(k, wire'[d][i])
  <2>1. PICK jj \in 1 .. Len(outbox) : jj = j + 1 /\ o = outbox[jj]
    BY <1>1, OutAfter
  <2>2. /\ view[d][k] = None
        /\ \A i \in 1 .. Len(outbox) : i < jj => ~EventOn(k, outbox[i].event)
        /\ \A i \in 1 .. Len(wire[d]) : ~EventOn(k, wire[d][i])
    BY <1>0, <1>1, <2>1 DEF Earlier
  <2>3. ASSUME NEW i \in 1 .. Len(outbox'), i < j  PROVE ~EventOn(k, outbox'[i].event)
    <3>1. PICK ii \in 1 .. Len(outbox) : ii = i + 1 /\ outbox'[i] = outbox[ii]
      BY <1>1, OutAfter
    <3>. QED
      BY <2>1, <2>2, <2>3, <3>1
  <2>4. ~EventOn(k, out.event)
    BY <1>0, <2>1, <2>2
  <2>5. ~EventOn(k, out.answer)
    BY <1>0, Kinds DEF EventOn
  <2>6. ASSUME NEW i \in 1 .. Len(wire'[d])  PROVE ~EventOn(k, wire'[d][i])
    <3>1. CASE i \in 1 .. Len(wire[d])
      BY <2>2, <3>1 DEF Told
    <3>2. CASE wire'[d][i] = out.event \/ wire'[d][i] = out.answer
      BY <2>4, <2>5, <3>2
    <3>. QED
      BY <3>1, <3>2 DEF Told
  <2>. QED
    BY <2>2, <2>3, <2>6
<1>2. ASSUME NEW k \in Cards, board[k] # Deleted, NEW j \in 1 .. Len(wire'[d]), NEW m, m = wire'[d][j],
             AnswerOn(d, k, m), m.board[k] = None
      PROVE  view[d][k] = None /\ \A i \in 1 .. Len(wire'[d]) : i < j => ~EventOn(k, wire'[d][i])
  <2>1. CASE j \in 1 .. Len(wire[d])
    <3>1. m = wire[d][j]
      BY <1>2, <2>1 DEF Told
    <3>2. view[d][k] = None /\ \A i \in 1 .. Len(wire[d]) : i < j => ~EventOn(k, wire[d][i])
      BY <1>0, <1>2, <2>1, <3>1 DEF Earlier
    <3>3. \A i \in 1 .. Len(wire'[d]) : i < j => i \in 1 .. Len(wire[d]) /\ wire'[d][i] = wire[d][i]
      BY <2>1 DEF Told
    <3>. QED
      BY <3>2, <3>3
  <2>2. CASE d = out.by /\ m = out.answer
    <3>1. /\ view[d][k] = None
          /\ \A i \in 1 .. Len(wire[d]) : ~EventOn(k, wire[d][i])
      BY <1>0, <1>2, <2>2 DEF Earlier
    <3>2. ~EventOn(k, out.event)
      <4>1. CASE calls[d][1].op = "resync"
        BY <1>0, <2>2, <4>1, Kinds DEF OutFits, EventOn
      <4>2. CASE calls[d][1].op = "create" /\ calls[d][1].card = k
        BY <1>0, <1>2, <2>2, <4>2, Kinds DEF OutFits, AnswerFits, AnswerOn
      <4>. QED
        BY <1>2, <4>1, <4>2 DEF AnswerOn
    <3>3. ~EventOn(k, out.answer)
      BY <1>0, Kinds DEF EventOn
    <3>4. ASSUME NEW i \in 1 .. Len(wire'[d])  PROVE ~EventOn(k, wire'[d][i])
      <4>1. CASE i \in 1 .. Len(wire[d])
        BY <3>1, <4>1 DEF Told
      <4>2. CASE wire'[d][i] = out.event \/ wire'[d][i] = out.answer
        BY <3>2, <3>3, <4>2
      <4>. QED
        BY <4>1, <4>2 DEF Told
    <3>. QED
      BY <3>1, <3>4
  <2>3. out.event # None => m # out.event
    <3>1. m \in Answer
      BY <1>2 DEF AnswerOn
    <3>2. m \notin Event
      BY <3>1, Kinds
    <3>. QED
      BY <1>0, <3>2
  <2>. QED
    BY <1>2, <2>1, <2>2, <2>3 DEF Told
<1>3. UNCHANGED <<board, view, calls>>
  OBVIOUS
<1>. QED
  BY <1>1, <1>2, <1>3 DEF Earlier, EventOn, AnswerOn

LEMMA SendShows ==
    ASSUME Sane, NEW out, OneLess(1, out), NEW d \in Browsers, Told(d, out),
           UNCHANGED <<board, view, activeIds, hand, online, calls>>, Follows(d)
    PROVE  WillShow(d)'
<1>0. /\ WillShow(d) /\ 1 \in 1 .. Len(outbox) /\ out = outbox[1]
      /\ out.event \in Event \cup {None} /\ out.answer \in Answer
  BY DEF Sane, OutboxFits, OneLess, Follows
<1>1. SUFFICES ASSUME online[d], NEW k \in Cards
               PROVE  Resyncing(d) \/ Busy(d, k) \/ Word(d, k)' \/ view[d][k] = Visible(board)[k]
  <2>1. (Resyncing(d)' <=> Resyncing(d)) /\ (Visible(board)' = Visible(board)) /\ online'[d] = online[d]
    BY DEF Resyncing, Visible
  <2>2. \A k : Busy(d, k)' <=> Busy(d, k)
    BY DEF Busy, Speaks
  <2>. QED
    BY <2>1, <2>2 DEF WillShow
<1>2. ASSUME Word(d, k)  PROVE Word(d, k)'
  <2>1. ASSUME NEW m, NEW j \in 1 .. Len(wire'[d]), m = wire'[d][j], EventOn(k, m) \/ AnswerOn(d, k, m)
        PROVE  Word(d, k)'
    BY <2>1 DEF Word, EventOn, AnswerOn
  <2>2. ASSUME NEW i \in 1 .. Len(outbox), EventOn(k, outbox[i].event)  PROVE Word(d, k)'
    <3>1. CASE i = 1
      <4>1. out.event # None /\ EventOn(k, out.event)
        BY <1>0, <2>2, <3>1, Kinds DEF EventOn
      <4>2. PICK j \in 1 .. Len(wire'[d]) : wire'[d][j] = out.event
        BY <1>1, <4>1 DEF Told
      <4>. QED
        BY <2>1, <4>1, <4>2
    <3>2. CASE i # 1
      <4>1. PICK j \in 1 .. Len(outbox') : outbox'[j] = outbox[i]
        BY <3>2, OutAfter
      <4>. QED
        BY <2>2, <4>1 DEF Word, NoneOut, EventOn
    <3>. QED
      BY <3>1, <3>2
  <2>3. ASSUME NEW i \in 1 .. Len(outbox), outbox[i].by = d, AnswerOn(d, k, outbox[i].answer)
        PROVE  Word(d, k)'
    <3>1. CASE i = 1
      <4>1. d = out.by /\ AnswerOn(d, k, out.answer)
        BY <1>0, <2>3, <3>1
      <4>2. PICK j \in 1 .. Len(wire'[d]) : wire'[d][j] = out.answer
        BY <4>1 DEF Told
      <4>. QED
        BY <2>1, <4>1, <4>2
    <3>2. CASE i # 1
      <4>1. PICK j \in 1 .. Len(outbox') : outbox'[j] = outbox[i]
        BY <3>2, OutAfter
      <4>. QED
        BY <2>3, <4>1 DEF Word, AnswerOn
    <3>. QED
      BY <3>1, <3>2
  <2>4. ASSUME NEW i \in 1 .. Len(wire[d]), EventOn(k, wire[d][i]) \/ AnswerOn(d, k, wire[d][i])
        PROVE  Word(d, k)'
    <3>1. i \in 1 .. Len(wire'[d]) /\ wire'[d][i] = wire[d][i]
      BY DEF Told
    <3>. QED
      BY <2>1, <2>4, <3>1
  <2>. QED
    BY <1>2, <2>2, <2>3, <2>4 DEF Word, NoneOut
<1>. QED
  BY <1>0, <1>1, <1>2 DEF WillShow

LEMMA SendKeeps ==
    ASSUME BoardInv, NEW n \in DOMAIN outbox, Send(n)  PROVE BoardInv'
<1>1. PICK out : out = outbox[n]
  OBVIOUS
<1>2. Sane /\ BoardTypeOK
  BY DEF BoardInv, Sane
<1>3. /\ OneLess(n, out) /\ BoardTypeOK' /\ \A d \in Browsers : Told(d, out)
      /\ UNCHANGED <<board, view, activeIds, hand, online, calls>>
  BY <1>1, <1>2, SendShape
<1>4. Sane'
  BY <1>2, <1>3, SendSane
<1>5. ASSUME NEW d \in Browsers, d \notin disturbed'  PROVE Follows(d)'
  <2>1. n = 1 /\ d \notin disturbed
    BY <1>5 DEF Send, Disturb, Undisturbed
  <2>2. Follows(d)
    BY <2>1 DEF BoardInv
  <2>3. OutCurrent' /\ WireCurrent(d)' /\ ShieldsFit(d)'
    BY <1>2, <1>3, <2>1, <2>2, SendCurrent
  <2>4. Earlier(d)'
    BY <1>2, <1>3, <2>1, <2>2, SendEarlier
  <2>5. WillShow(d)'
    BY <1>2, <1>3, <2>1, <2>2, SendShows
  <2>. QED
    BY <2>3, <2>4, <2>5 DEF Follows
<1>. QED
  BY <1>4, <1>5 DEF BoardInv

-----------------------------------------------------------------------------
(* A browser receives.                                                       *)

\* Message n goes from the browser's wire.
Taken(c, n) ==
    /\ n \in 1 .. Len(wire[c]) /\ Len(wire[c]) \in Nat /\ Len(wire'[c]) = Len(wire[c]) - 1
    /\ \A j \in 1 .. Len(wire'[c]) : wire'[c][j] = IF j < n THEN wire[c][j] ELSE wire[c][j + 1]
    /\ \A d \in Browsers : d # c => wire'[d] = wire[d]
    /\ wire' \in [Browsers -> Seq(Event \cup Answer)]

LEMMA Taking ==
    ASSUME BoardTypeOK, NEW c \in Browsers, NEW n \in 1 .. Len(wire[c]),
           wire' = [wire EXCEPT ![c] = RemoveAt(wire[c], n)]
    PROVE  Taken(c, n)
<1>1. wire \in [Browsers -> Seq(Event \cup Answer)] /\ Len(wire[c]) \in Nat
      /\ wire[c] \in Seq(Event \cup Answer)
  BY Carried DEF BoardTypeOK
<1>2. PICK q : q = RemoveAt(wire[c], n)
  OBVIOUS
<1>3. PICK S : S = Event \cup Answer
  OBVIOUS
<1>4. wire[c] \in Seq(S)
  BY <1>1, <1>3
<1>5. /\ RemoveAt(wire[c], n) \in Seq(S) /\ Len(RemoveAt(wire[c], n)) = Len(wire[c]) - 1
      /\ \A j \in 1 .. Len(wire[c]) - 1 :
           RemoveAt(wire[c], n)[j] = IF j < n THEN wire[c][j] ELSE wire[c][j + 1]
  BY <1>4, QueueRemoved
<1>6. wire' = [wire EXCEPT ![c] = q] /\ q \in Seq(Event \cup Answer)
  BY <1>2, <1>3, <1>5
<1>7. wire'[c] = q /\ (\A d \in Browsers : d # c => wire'[d] = wire[d])
      /\ wire' \in [Browsers -> Seq(Event \cup Answer)]
  BY <1>1, <1>6
<1>. QED
  BY <1>1, <1>2, <1>5, <1>7 DEF Taken

LEMMA TakingFirst ==
    ASSUME BoardTypeOK, NEW c \in Browsers, wire[c] # <<>>,
           wire' = [wire EXCEPT ![c] = Tail(wire[c])]
    PROVE  Taken(c, 1) /\ Head(wire[c]) = wire[c][1]
<1>1. wire \in [Browsers -> Seq(Event \cup Answer)] /\ Len(wire[c]) \in Nat
      /\ wire[c] \in Seq(Event \cup Answer)
  BY Carried DEF BoardTypeOK
<1>2. PICK q : q = Tail(wire[c])
  OBVIOUS
<1>3. /\ Head(wire[c]) = wire[c][1] /\ q \in Seq(Event \cup Answer) /\ Len(q) = Len(wire[c]) - 1
      /\ \A j \in 1 .. Len(q) : q[j] = wire[c][j + 1]
  BY <1>1, <1>2, HeadTailProperties
<1>4. 1 \in 1 .. Len(wire[c])
  BY <1>1
<1>5. wire' = [wire EXCEPT ![c] = q]
  BY <1>2
<1>6. wire'[c] = q /\ (\A d \in Browsers : d # c => wire'[d] = wire[d])
      /\ wire' \in [Browsers -> Seq(Event \cup Answer)]
  BY <1>1, <1>3, <1>5
<1>7. \A j \in 1 .. Len(q) : ~(j < 1)
  BY <1>1, <1>3
<1>. QED
  BY <1>1, <1>3, <1>4, <1>6, <1>7 DEF Taken

LEMMA WireAfter ==
    ASSUME NEW c, Taken(c, 1)
    PROVE  /\ \A j \in 1 .. Len(wire'[c]) : j + 1 \in 1 .. Len(wire[c]) /\ wire'[c][j] = wire[c][j + 1]
           /\ \A j \in 1 .. Len(wire[c]) : j # 1 =>
                j - 1 \in 1 .. Len(wire'[c]) /\ wire'[c][j - 1] = wire[c][j]
           /\ \A k : \A j \in 1 .. Len(wire'[c]) : NoneAfter(c, k, j)' => NoneAfter(c, k, j + 1)
           /\ \A k : (\A j \in 1 .. Len(wire'[c]) : ~EventOn(k, wire'[c][j])) => NoneAfter(c, k, 1)
<1>1. ASSUME NEW j \in 1 .. Len(wire'[c])  PROVE j + 1 \in 1 .. Len(wire[c]) /\ wire'[c][j] = wire[c][j + 1]
  BY DEF Taken
<1>2. ASSUME NEW j \in 1 .. Len(wire[c]), j # 1
      PROVE  j - 1 \in 1 .. Len(wire'[c]) /\ wire'[c][j - 1] = wire[c][j]
  BY <1>2 DEF Taken
<1>3. ASSUME NEW k, NEW j \in 1 .. Len(wire'[c]), NoneAfter(c, k, j)', NEW l \in 1 .. Len(wire[c]), l > j + 1
      PROVE  ~EventOn(k, wire[c][l])
  <2>1. l # 1 /\ l - 1 > j
    BY <1>3
  <2>. QED
    BY <1>2, <1>3, <2>1 DEF NoneAfter, EventOn
<1>4. ASSUME NEW k, \A j \in 1 .. Len(wire'[c]) : ~EventOn(k, wire'[c][j]),
             NEW l \in 1 .. Len(wire[c]), l > 1
      PROVE  ~EventOn(k, wire[c][l])
  BY <1>2, <1>4
<1>5. \A k : \A j \in 1 .. Len(wire'[c]) : NoneAfter(c, k, j)' => NoneAfter(c, k, j + 1)
  BY <1>3 DEF NoneAfter
<1>6. \A k : (\A j \in 1 .. Len(wire'[c]) : ~EventOn(k, wire'[c][j])) => NoneAfter(c, k, 1)
  BY <1>4 DEF NoneAfter
<1>. QED
  BY <1>1, <1>2, <1>5, <1>6

\* What is left of the wire fits.
LEMMA RestFits ==
    ASSUME NEW c \in Browsers, NEW n, Taken(c, n), UNCHANGED <<board, online, calls>>, WireFits(c)
    PROVE  WireFits(c)'
<1>1. ASSUME NEW j \in 1 .. Len(wire'[c]), NEW m, m = wire'[c][j]
      PROVE  /\ m \in Event => EventFits(m) /\ online[c]
             /\ m \in Answer => AnswerFits(c, m)
  <2>1. PICK i \in 1 .. Len(wire[c]) : m = wire[c][i]
    BY <1>1 DEF Taken
  <2>. QED
    BY <2>1 DEF WireFits
<1>. QED
  BY <1>1 DEF WireFits, EventFits, AnswerFits

LEMMA RestAnswers ==
    ASSUME NEW c \in Browsers, NEW n, Taken(c, n), UNCHANGED <<outbox, calls>>, OneAnswer(c)
    PROVE  OneAnswer(c)'
<1>1. ASSUME NEW j \in 1 .. Len(wire'[c])
      PROVE  \E i \in 1 .. Len(wire[c]) : wire'[c][j] = wire[c][i] /\ i = IF j < n THEN j ELSE j + 1
  BY DEF Taken
<1>2. \A i \in 1 .. Len(outbox) : outbox[i].by = c =>
        \A j \in 1 .. Len(wire'[c]) : wire'[c][j] \notin Answer
  BY <1>1 DEF OneAnswer
<1>3. ASSUME NEW j \in 1 .. Len(wire'[c]), wire'[c][j] \in Answer
      PROVE  /\ calls[c] # <<>> /\ calls[c][1].sent
             /\ \A l \in 1 .. Len(wire'[c]) : wire'[c][l] \in Answer => l = j
  <2>1. PICK jj \in 1 .. Len(wire[c]) : wire'[c][j] = wire[c][jj] /\ jj = IF j < n THEN j ELSE j + 1
    BY <1>1
  <2>2. /\ calls[c] # <<>> /\ calls[c][1].sent
        /\ \A i \in 1 .. Len(wire[c]) : wire[c][i] \in Answer => i = jj
    BY <1>3, <2>1 DEF OneAnswer
  <2>3. ASSUME NEW l \in 1 .. Len(wire'[c]), wire'[c][l] \in Answer  PROVE l = j
    <3>1. PICK ll \in 1 .. Len(wire[c]) : wire'[c][l] = wire[c][ll] /\ ll = IF l < n THEN l ELSE l + 1
      BY <1>1
    <3>2. ll = jj
      BY <2>2, <2>3, <3>1
    <3>. QED
      BY <2>1, <3>1, <3>2 DEF Taken
  <2>. QED
    BY <2>2, <2>3
<1>. QED
  BY <1>2, <1>3 DEF OneAnswer

\* What an event does to what the browser shows.
Applied(c, e) ==
    /\ view' \in [Browsers -> [Cards -> Shown]]
    /\ hand' \in [Browsers -> [Cards -> {"empty", "drag", "edit"}]]
    /\ \A d \in Browsers : d # c => view'[d] = view[d] /\ hand'[d] = hand[d]
    /\ \A k \in Cards : k # e.card => view'[c][k] = view[c][k] /\ hand'[c][k] = hand[c][k]
    /\ hand'[c][e.card] \in {hand[c][e.card], "empty"}
    /\ hand'[c][e.card] = "empty" \/ view'[c][e.card] # None
    /\ e.type = "deleted" => view'[c][e.card] = None
    /\ e.type = "upserted" /\ e.card \in activeIds[c] =>
         view'[c][e.card] = view[c][e.card] /\ hand'[c][e.card] = hand[c][e.card]
    /\ e.type = "upserted" /\ e.card \notin activeIds[c] => view'[c][e.card] = e.with
    /\ e.type = "upserted" /\ e.with # None => hand'[c][e.card] = hand[c][e.card]

LEMMA Applying ==
    ASSUME BoardTypeOK, NEW c \in Browsers, NEW e \in Event, ApplyEvent(c, e)
    PROVE  Applied(c, e)
<1>1. /\ view \in [Browsers -> [Cards -> Shown]]
      /\ hand \in [Browsers -> [Cards -> {"empty", "drag", "edit"}]]
      /\ \A k \in Cards : hand[c][k] # "empty" => view[c][k] # None
      /\ e.card \in Cards /\ e.with \in Shown /\ e.type \in {"upserted", "deleted"}
  BY Kinds DEF BoardTypeOK
<1>2. CASE e.type = "upserted" /\ e.card \in activeIds[c]
  <2>1. UNCHANGED <<view, hand>>
    BY <1>2 DEF ApplyEvent
  <2>. QED
    BY <1>1, <1>2, <2>1 DEF Applied
<1>3. CASE ~(e.type = "upserted" /\ e.card \in activeIds[c])
  <2>1. PICK x \in Shown : x = IF e.type = "deleted" THEN None ELSE e.with
    BY <1>1 DEF Shown
  <2>2. PICK v : v = [view[c] EXCEPT ![e.card] = x]
    OBVIOUS
  <2>3. v \in [Cards -> Shown] /\ v[e.card] = x /\ \A k \in Cards : k # e.card => v[k] = view[c][k]
    BY <1>1, <2>1, <2>2
  <2>4. Show(c, v)
    BY <1>1, <1>3, <2>1, <2>2 DEF ApplyEvent, RemoveItem, UpsertItem
  <2>5. /\ view' \in [Browsers -> [Cards -> Shown]]
        /\ hand' \in [Browsers -> [Cards -> {"empty", "drag", "edit"}]]
        /\ view'[c] = v
        /\ \A d \in Browsers : d # c => view'[d] = view[d] /\ hand'[d] = hand[d]
        /\ \A k \in Cards :
             /\ v[k] = None => hand'[c][k] = "empty"
             /\ v[k] # None => hand'[c][k] = hand[c][k]
             /\ v[k] = view[c][k] => hand'[c][k] = hand[c][k]
    BY <2>3, <2>4, ShowsInstead
  <2>. QED
    BY <1>1, <1>3, <2>1, <2>3, <2>5 DEF Applied
<1>. QED
  BY <1>2, <1>3

LEMMA EventFollows ==
    ASSUME Sane, NEW c \in Browsers, Taken(c, 1), NEW e \in Event, e = wire[c][1], Applied(c, e),
           UNCHANGED <<board, outbox, activeIds, online, calls>>, Follows(c)
    PROVE  Follows(c)'
<1>0. /\ OutCurrent /\ WireCurrent(c) /\ ShieldsFit(c) /\ Earlier(c) /\ WillShow(c)
      /\ EventFits(e) /\ 1 \in 1 .. Len(wire[c]) /\ e.card \in Cards /\ e \notin Answer
      /\ e.type \in {"upserted", "deleted"} /\ activeIds[c] \subseteq Cards
      /\ board \in [Cards -> Row] /\ BoardTypeOK
  BY Kinds DEF Sane, Follows, WireFits, Taken, BoardTypeOK
<1>1. OutCurrent'
  BY <1>0 DEF OutCurrent, NoneOutFrom, EventOn, Visible
<1>2. ASSUME online[c], NEW j \in 1 .. Len(wire'[c]), NEW k \in Cards, NoneOut(k), NoneAfter(c, k, j)',
             NEW m, m = wire'[c][j]
      PROVE  /\ EventOn(k, m) => m.with = Visible(board)[k]
             /\ AnswerOn(c, k, m) /\ ~Resyncing(c) => m.board[k] = Visible(board)[k]
  <2>1. PICK i \in 1 .. Len(wire[c]) : i = j + 1 /\ m = wire[c][i] /\ NoneAfter(c, k, i)
    BY <1>2, WireAfter
  <2>. QED
    BY <1>0, <1>2, <2>1 DEF WireCurrent
<1>3. /\ Resyncing(c)' <=> Resyncing(c)
      /\ Visible(board)' = Visible(board) /\ online'[c] = online[c]
      /\ \A k : NoneOut(k)' <=> NoneOut(k)
  BY DEF Resyncing, Visible, NoneOut, EventOn
<1>4. WireCurrent(c)'
  BY <1>2, <1>3 DEF WireCurrent, EventOn, AnswerOn
<1>5. ShieldsFit(c)'
  <2>1. ASSUME NEW k \in activeIds[c], hand'[c][k] = "empty"  PROVE board[k] = Deleted
    <3>1. CASE hand[c][k] = "empty"
      BY <1>0, <3>1 DEF ShieldsFit
    <3>2. CASE k = e.card /\ hand[c][k] # "empty"
      <4>1. e.type = "deleted"
        BY <1>0, <2>1, <3>2 DEF Applied
      <4>. QED
        BY <1>0, <3>2, <4>1 DEF EventFits
    <3>3. CASE k # e.card /\ hand[c][k] # "empty"
      BY <1>0, <2>1, <3>3 DEF Applied
    <3>. QED
      BY <3>1, <3>2, <3>3
  <2>. QED
    BY <2>1 DEF ShieldsFit
<1>6. Earlier(c)'
  <2>1. ASSUME NEW k \in Cards, board[k] # Deleted, NEW i \in 1 .. Len(outbox), outbox[i].by = c,
               AnswerOn(c, k, outbox[i].answer), outbox[i].answer.board[k] = None
        PROVE  /\ view'[c][k] = None
               /\ \A j \in 1 .. Len(outbox) : j < i => ~EventOn(k, outbox[j].event)
               /\ \A j \in 1 .. Len(wire'[c]) : ~EventOn(k, wire'[c][j])
    <3>1. /\ view[c][k] = None
          /\ \A j \in 1 .. Len(outbox) : j < i => ~EventOn(k, outbox[j].event)
          /\ \A j \in 1 .. Len(wire[c]) : ~EventOn(k, wire[c][j])
      BY <1>0, <2>1 DEF Earlier
    <3>2. k # e.card
      BY <1>0, <3>1 DEF EventOn
    <3>3. view'[c][k] = None
      BY <3>1, <3>2 DEF Applied
    <3>4. \A j \in 1 .. Len(wire'[c]) : ~EventOn(k, wire'[c][j])
      BY <3>1, WireAfter
    <3>. QED
      BY <3>1, <3>3, <3>4
  <2>2. ASSUME NEW k \in Cards, board[k] # Deleted, NEW i \in 1 .. Len(wire'[c]), NEW m, m = wire'[c][i],
               AnswerOn(c, k, m), m.board[k] = None
        PROVE  view'[c][k] = None /\ \A j \in 1 .. Len(wire'[c]) : j < i => ~EventOn(k, wire'[c][j])
    <3>1. PICK ii \in 1 .. Len(wire[c]) : ii = i + 1 /\ m = wire[c][ii]
      BY <2>2, WireAfter
    <3>2. view[c][k] = None /\ \A j \in 1 .. Len(wire[c]) : j < ii => ~EventOn(k, wire[c][j])
      BY <1>0, <2>2, <3>1 DEF Earlier
    <3>3. k # e.card
      BY <1>0, <3>1, <3>2 DEF EventOn
    <3>4. view'[c][k] = None
      BY <3>2, <3>3 DEF Applied
    <3>5. ASSUME NEW j \in 1 .. Len(wire'[c]), j < i  PROVE ~EventOn(k, wire'[c][j])
      <4>1. PICK jj \in 1 .. Len(wire[c]) : jj = j + 1 /\ wire'[c][j] = wire[c][jj]
        BY WireAfter
      <4>. QED
        BY <3>1, <3>2, <3>5, <4>1
    <3>. QED
      BY <3>4, <3>5
  <2>. QED
    BY <2>1, <2>2 DEF Earlier, EventOn, AnswerOn
<1>7. ASSUME online[c], NEW k \in Cards
      PROVE  Resyncing(c) \/ Busy(c, k)' \/ Word(c, k)' \/ view'[c][k] = Visible(board)[k]
  <2>1. Resyncing(c) \/ Busy(c, k) \/ Word(c, k) \/ view[c][k] = Visible(board)[k]
    BY <1>0, <1>7 DEF WillShow
  <2>2. ASSUME NoneOut(k), \A i \in 1 .. Len(outbox) : ~(outbox[i].by = c /\ AnswerOn(c, k, outbox[i].answer)),
               \A j \in 1 .. Len(wire'[c]) : ~EventOn(k, wire'[c][j]) /\ ~AnswerOn(c, k, wire'[c][j])
        PROVE  Resyncing(c) \/ Busy(c, k)' \/ view'[c][k] = Visible(board)[k]
    <3>1. CASE k # e.card
      <4>1. view'[c][k] = view[c][k] /\ hand'[c][k] = hand[c][k]
        BY <3>1 DEF Applied
      <4>2. Busy(c, k) => Busy(c, k)'
        BY <4>1 DEF Busy, Speaks
      <4>3. ~EventOn(k, e) /\ ~AnswerOn(c, k, e)
        BY <1>0, <3>1 DEF EventOn, AnswerOn
      <4>4. \A j \in 1 .. Len(wire[c]) : ~EventOn(k, wire[c][j]) /\ ~AnswerOn(c, k, wire[c][j])
        BY <2>2, <4>3, WireAfter
      <4>5. ~Word(c, k)
        BY <2>2, <4>4 DEF Word
      <4>. QED
        BY <2>1, <4>1, <4>2, <4>5
    <3>2. CASE k = e.card
      <4>1. NoneAfter(c, k, 1)
        BY <2>2, WireAfter
      <4>2. e.with = Visible(board)[k]
        BY <1>0, <1>7, <2>2, <3>2, <4>1 DEF WireCurrent, EventOn
      <4>3. CASE e.type = "deleted"
        BY <1>0, <3>2, <4>2, <4>3 DEF EventFits, Applied
      <4>4. CASE e.type = "upserted" /\ k \notin activeIds[c]
        BY <3>2, <4>2, <4>4 DEF Applied
      <4>5. CASE e.type = "upserted" /\ k \in activeIds[c]
        <5>1. e.with \in Card
          BY <1>0, <4>5 DEF EventFits
        <5>2. board[k] \in Card
          BY <1>0, <4>2, <5>1, Kinds
        <5>3. hand[c][k] # "empty"
          BY <1>0, <4>5, <5>2, Kinds DEF ShieldsFit
        <5>4. hand'[c][k] # "empty"
          BY <3>2, <4>5, <5>3 DEF Applied
        <5>. QED
          BY <5>2, <5>4 DEF Busy
      <4>. QED
        BY <1>0, <4>3, <4>4, <4>5
    <3>. QED
      BY <3>1, <3>2
  <2>. QED
    BY <2>2 DEF Word, NoneOut, EventOn, AnswerOn
<1>8. WillShow(c)'
  BY <1>3, <1>7 DEF WillShow
<1>. QED
  BY <1>1, <1>4, <1>5, <1>6, <1>8 DEF Follows

LEMMA EventKeeps ==
    ASSUME BoardInv, NEW c \in Browsers, NEW n \in DOMAIN wire[c], ReceiveEvent(c, n)
    PROVE  BoardInv'
<1>0. /\ Sane /\ BoardTypeOK /\ wire[c] \in Seq(Event \cup Answer) /\ Len(wire[c]) \in Nat
      /\ OneAnswer(c) /\ WireFits(c)
  BY Carried DEF BoardInv, Sane
<1>1. n \in 1 .. Len(wire[c])
  BY <1>0
<1>2. PICK e \in Event : e = wire[c][n]
  BY DEF ReceiveEvent
<1>3. Taken(c, n) /\ UNCHANGED <<board, outbox, activeIds, online, calls>>
  BY <1>0, <1>1, Taking DEF ReceiveEvent
<1>4. Applied(c, e)
  BY <1>0, <1>2, Applying DEF ReceiveEvent
<1>5. spent' \in Ceiling /\ disturbed' \subseteq Browsers
  BY <1>0, MishapCounted DEF ReceiveEvent, Undisturbed, Disturb, BoardTypeOK
<1>6. EventFits(e) /\ e.card \in Cards
  BY <1>0, <1>1, <1>2, Kinds DEF WireFits
<1>7. BoardTypeOK'
  <2>1. ASSUME NEW d \in Browsers, NEW k \in Cards, hand'[d][k] # "empty"
        PROVE  view'[d][k] # None /\ k \in activeIds'[d]
    <3>1. hand[d][k] # "empty" => view[d][k] # None /\ k \in activeIds[d]
      BY <1>0 DEF BoardTypeOK
    <3>2. CASE d # c \/ k # e.card
      BY <1>3, <1>4, <2>1, <3>1, <3>2 DEF Applied
    <3>3. CASE d = c /\ k = e.card
      BY <1>3, <1>4, <2>1, <3>1, <3>3 DEF Applied
    <3>. QED
      BY <3>2, <3>3
  <2>. QED
    BY <1>0, <1>3, <1>4, <1>5, <2>1 DEF BoardTypeOK, Applied, Taken
<1>8. CreatedOnce' /\ OutboxFits' /\ CallsFit(c)'
  <2>1. CreatedOnce' /\ CallsFit(c)'
    BY <1>0, <1>3 DEF Sane, CreatedOnce, CallsFit, CallFits
  <2>2. OutboxFits'
    BY <1>0, <1>3 DEF Sane, OutboxFits, OutFits, EventFits, AnswerFits
  <2>. QED
    BY <2>1, <2>2
<1>9. Unseen'
  <2>1. ASSUME NEW d \in Browsers, NEW k \in Cards, board[k] = None  PROVE view'[d][k] = None
    <3>1. view[d][k] = None
      BY <1>0, <2>1 DEF Sane, Unseen
    <3>2. CASE d # c \/ k # e.card
      BY <1>4, <3>1, <3>2 DEF Applied
    <3>3. CASE d = c /\ k = e.card
      BY <1>4, <1>6, <2>1, <3>3, Kinds DEF Applied, EventFits
    <3>. QED
      BY <3>2, <3>3
  <2>. QED
    BY <1>3, <2>1 DEF Unseen
<1>10. OneAnswer(c)' /\ WireFits(c)'
  BY <1>0, <1>3, RestFits, RestAnswers
<1>11. \A d \in Browsers : d # c => Untouched(d)
  BY <1>3, <1>4 DEF Untouched, Applied, Taken
<1>12. disturbed' = disturbed \/ disturbed' = disturbed \cup {c}
  BY DEF ReceiveEvent, Undisturbed, Disturb
<1>13. ASSUME c \notin disturbed'  PROVE Follows(c)'
  <2>1. n = 1 /\ c \notin disturbed
    BY <1>12, <1>13 DEF ReceiveEvent, Disturb
  <2>2. Follows(c)
    BY <2>1 DEF BoardInv
  <2>. QED
    BY <1>0, <1>2, <1>3, <1>4, <2>1, <2>2, EventFollows
<1>. QED
  BY <1>3, <1>7, <1>8, <1>9, <1>10, <1>11, <1>12, <1>13, OneTouched

\* What an answer does: x is the call it answers.
Answered(c, x, a) ==
    /\ view' \in [Browsers -> [Cards -> Shown]]
    /\ hand' \in [Browsers -> [Cards -> {"empty", "drag", "edit"}]]
    /\ \A d \in Browsers : d # c => view'[d] = view[d] /\ hand'[d] = hand[d]
    /\ \A k \in Cards : hand'[c][k] = IF view'[c][k] = None THEN "empty" ELSE hand[c][k]
    /\ \A k \in Cards :
         /\ AnswerOn(c, k, a) => view'[c][k] = a.board[k]
         /\ ~AnswerOn(c, k, a) =>
              \/ view'[c][k] = view[c][k]
              \/ a.type = "error" /\ x.op = "remove" /\ k = x.card

\* The first call goes.
Dropped(c, x) ==
    /\ calls' \in [Browsers -> Seq(Call)] /\ Len(calls[c]) \in Nat
    /\ 1 \in 1 .. Len(calls[c]) /\ x = calls[c][1] /\ x \in Call /\ x.sent
    /\ Len(calls'[c]) = Len(calls[c]) - 1
    /\ \A j \in 1 .. Len(calls'[c]) : calls'[c][j] = calls[c][j + 1]
    /\ \A i \in 1 .. Len(calls[c]) : i # 1 => i - 1 \in 1 .. Len(calls'[c]) /\ calls'[c][i - 1] = calls[c][i]
    /\ \A i \in 1 .. Len(calls[c]) : calls[c][i].sent => i = 1
    /\ \A d \in Browsers : d # c => calls'[d] = calls[d]

\* The answer was the only one under way.
LastAnswer(c) ==
    /\ \A i \in 1 .. Len(outbox) : outbox[i].by # c
    /\ \A i \in 1 .. Len(wire[c]) : wire[c][i] \in Answer => i = 1

LEMMA Settling ==
    ASSUME BoardTypeOK, NEW c \in Browsers, NEW x \in Call, x = calls[c][1], NEW a \in Answer,
           Settle(c, x, a)
    PROVE  Answered(c, x, a)
<1>1. /\ view \in [Browsers -> [Cards -> Shown]]
      /\ hand \in [Browsers -> [Cards -> {"empty", "drag", "edit"}]]
      /\ \A k \in Cards : hand[c][k] # "empty" => view[c][k] # None
      /\ a.board \in [Cards -> Shown] /\ a.type \in {"reply", "error"}
      /\ x.card \in Cards /\ x.with \in Shown
      /\ x.op \in {"create", "place", "text", "remove", "resync"}
  BY Kinds DEF BoardTypeOK
<1>2. ASSUME NEW v \in [Cards -> Shown], Show(c, v),
             \A k \in Cards :
               /\ AnswerOn(c, k, a) => v[k] = a.board[k]
               /\ ~AnswerOn(c, k, a) =>
                    \/ v[k] = view[c][k]
                    \/ a.type = "error" /\ x.op = "remove" /\ k = x.card
      PROVE  Answered(c, x, a)
  <2>1. /\ view' \in [Browsers -> [Cards -> Shown]]
        /\ hand' \in [Browsers -> [Cards -> {"empty", "drag", "edit"}]]
        /\ view'[c] = v
        /\ \A d \in Browsers : d # c => view'[d] = view[d] /\ hand'[d] = hand[d]
        /\ \A k \in Cards :
             /\ v[k] = None => hand'[c][k] = "empty"
             /\ v[k] # None => hand'[c][k] = hand[c][k]
             /\ v[k] = view[c][k] => hand'[c][k] = hand[c][k]
    BY <1>2, ShowsInstead
  <2>. QED
    BY <1>2, <2>1 DEF Answered
<1>3. CASE a.type = "reply" /\ x.op = "resync"
  <2>1. Show(c, a.board)
    BY <1>3 DEF Settle, SetItems
  <2>2. \A k \in Cards : AnswerOn(c, k, a)
    BY <1>3 DEF AnswerOn
  <2>3. PICK v \in [Cards -> Shown] : v = a.board
    BY <1>1
  <2>. QED
    BY <1>2, <2>1, <2>2, <2>3
<1>4. CASE a.type = "reply" /\ x.op = "create"
  <2>1. PICK v : v = [view[c] EXCEPT ![x.card] = a.board[x.card]]
    OBVIOUS
  <2>2. v \in [Cards -> Shown] /\ v[x.card] = a.board[x.card]
        /\ \A k \in Cards : k # x.card => v[k] = view[c][k]
    BY <1>1, <2>1
  <2>3. Show(c, v)
    BY <1>4, <2>1 DEF Settle, UpsertItem
  <2>4. \A k \in Cards : AnswerOn(c, k, a) <=> k = x.card
    BY <1>4 DEF AnswerOn
  <2>. QED
    BY <1>2, <2>2, <2>3, <2>4
<1>5. CASE a.type = "error" /\ x.op = "remove"
  <2>1. PICK v : v = [view[c] EXCEPT ![x.card] = x.with]
    OBVIOUS
  <2>2. v \in [Cards -> Shown] /\ \A k \in Cards : k # x.card => v[k] = view[c][k]
    BY <1>1, <2>1
  <2>3. Show(c, v)
    BY <1>5, <2>1 DEF Settle, UpsertItem
  <2>4. \A k \in Cards : ~AnswerOn(c, k, a)
    BY <1>5 DEF AnswerOn
  <2>. QED
    BY <1>2, <1>5, <2>2, <2>3, <2>4
<1>6. CASE ~(a.type = "reply" /\ x.op \in {"resync", "create"}) /\ ~(a.type = "error" /\ x.op = "remove")
  <2>1. UNCHANGED <<view, hand>>
    BY <1>6 DEF Settle
  <2>2. \A k \in Cards : ~AnswerOn(c, k, a)
    BY <1>6 DEF AnswerOn
  <2>3. \A k \in Cards : hand[c][k] = IF view[c][k] = None THEN "empty" ELSE hand[c][k]
    BY <1>1
  <2>. QED
    BY <1>1, <2>1, <2>2, <2>3 DEF Answered
<1>. QED
  BY <1>1, <1>3, <1>4, <1>5, <1>6

LEMMA AnswerShape ==
    ASSUME Sane, NEW c \in Browsers, ReceiveAnswer(c)
    PROVE  \E x \in Call, a \in Answer :
              /\ a = wire[c][1] /\ a = Head(wire[c]) /\ x = Head(calls[c])
              /\ Taken(c, 1) /\ Dropped(c, x) /\ LastAnswer(c) /\ Answered(c, x, a)
              /\ AnswerFits(c, a)
              /\ UNCHANGED <<board, outbox, activeIds, online, spent>>
<1>0. /\ BoardTypeOK /\ wire[c] # <<>> /\ Head(wire[c]) \in Answer
      /\ calls \in [Browsers -> Seq(Call)] /\ calls[c] \in Seq(Call) /\ Len(calls[c]) \in Nat
      /\ OneAnswer(c) /\ WireFits(c) /\ Settle(c, Head(calls[c]), Head(wire[c]))
      /\ UNCHANGED <<board, outbox, activeIds, online, spent>>
  BY Carried DEF Sane, ReceiveAnswer, BoardTypeOK
<1>1. Taken(c, 1) /\ Head(wire[c]) = wire[c][1]
  BY <1>0, TakingFirst DEF ReceiveAnswer
<1>2. PICK a \in Answer : a = wire[c][1]
  BY <1>0, <1>1
<1>3. /\ calls[c] # <<>> /\ calls[c][1].sent /\ 1 \in 1 .. Len(wire[c])
      /\ \A i \in 1 .. Len(wire[c]) : wire[c][i] \in Answer => i = 1
      /\ \A i \in 1 .. Len(outbox) : outbox[i].by # c
      /\ \A i \in 1 .. Len(calls[c]) : calls[c][i].sent => i = 1
  BY <1>0, <1>1, <1>2 DEF OneAnswer, Taken
<1>4. 1 \in 1 .. Len(calls[c]) /\ Head(calls[c]) = calls[c][1]
  BY <1>0, <1>3
<1>5. PICK x \in Call : x = calls[c][1]
  BY <1>0, <1>4, Carried
<1>6. PICK q : q = Tail(calls[c])
  OBVIOUS
<1>7. /\ q \in Seq(Call) /\ Len(q) = Len(calls[c]) - 1
      /\ \A j \in 1 .. Len(q) : q[j] = calls[c][j + 1]
  BY <1>0, <1>3, <1>6, HeadTailProperties
<1>8. calls' = [calls EXCEPT ![c] = q]
  BY <1>6 DEF ReceiveAnswer
<1>9. calls'[c] = q /\ calls' \in [Browsers -> Seq(Call)] /\ \A d \in Browsers : d # c => calls'[d] = calls[d]
  BY <1>0, <1>7, <1>8
<1>10. ASSUME NEW i \in 1 .. Len(calls[c]), i # 1  PROVE i - 1 \in 1 .. Len(q) /\ q[i - 1] = calls[c][i]
  BY <1>0, <1>7, <1>10
<1>11. Dropped(c, x)
  BY <1>0, <1>3, <1>4, <1>5, <1>7, <1>9, <1>10 DEF Dropped
<1>12. LastAnswer(c)
  BY <1>3 DEF LastAnswer
<1>13. Answered(c, x, a)
  BY <1>0, <1>1, <1>2, <1>4, <1>5, Settling
<1>14. AnswerFits(c, a)
  BY <1>0, <1>2, <1>3 DEF WireFits
<1>. QED
  BY <1>0, <1>1, <1>2, <1>4, <1>5, <1>11, <1>12, <1>13, <1>14

\* The browser's side of the invariant after an answer.
LEMMA AnswerSane ==
    ASSUME Sane, NEW c \in Browsers, NEW x \in Call, NEW a \in Answer, Taken(c, 1), Dropped(c, x),
           LastAnswer(c), Answered(c, x, a), AnswerFits(c, a), a = wire[c][1],
           UNCHANGED <<board, outbox, activeIds, online, spent>>, disturbed' \subseteq Browsers
    PROVE  /\ BoardTypeOK' /\ CreatedOnce' /\ OutboxFits' /\ Unseen'
           /\ OneAnswer(c)' /\ CallsFit(c)' /\ WireFits(c)'
<1>0. /\ BoardTypeOK /\ CreatedOnce /\ OutboxFits /\ Unseen /\ CallsFit(c) /\ WireFits(c)
  BY DEF Sane
<1>1. BoardTypeOK'
  <2>1. ASSUME NEW d \in Browsers, NEW k \in Cards, hand'[d][k] # "empty"
        PROVE  view'[d][k] # None /\ k \in activeIds'[d]
    <3>1. hand[d][k] # "empty" => view[d][k] # None /\ k \in activeIds[d]
      BY <1>0 DEF BoardTypeOK
    <3>. QED
      BY <2>1, <3>1 DEF Answered
  <2>. QED
    BY <1>0, <2>1 DEF BoardTypeOK, Answered, Taken, Dropped
<1>2. ASSUME NEW d \in Browsers, NEW i \in 1 .. Len(calls'[d])
      PROVE  \E n \in 1 .. Len(calls[d]) : calls'[d][i] = calls[d][n] /\ n = IF d = c THEN i + 1 ELSE i
  <2>1. CASE d = c
    BY <2>1 DEF Dropped
  <2>2. CASE d # c
    BY <2>2 DEF Dropped
  <2>. QED
    BY <2>1, <2>2
<1>3. CreatedOnce'
  <2>. SUFFICES ASSUME NEW d \in Browsers, NEW e \in Browsers,
                       NEW i \in 1 .. Len(calls'[d]), NEW j \in 1 .. Len(calls'[e]),
                       calls'[d][i].op = "create", calls'[e][j].op = "create",
                       calls'[d][i].card = calls'[e][j].card
                PROVE  d = e /\ i = j
    BY DEF CreatedOnce
  <2>1. PICK ii \in 1 .. Len(calls[d]) : calls'[d][i] = calls[d][ii] /\ ii = IF d = c THEN i + 1 ELSE i
    BY <1>2
  <2>2. PICK jj \in 1 .. Len(calls[e]) : calls'[e][j] = calls[e][jj] /\ jj = IF e = c THEN j + 1 ELSE j
    BY <1>2
  <2>3. d = e /\ ii = jj
    BY <1>0, <2>1, <2>2 DEF CreatedOnce
  <2>4. Len(calls'[d]) \in Nat
    BY <1>1, LenProperties DEF BoardTypeOK
  <2>. QED
    BY <2>1, <2>2, <2>3, <2>4
<1>4. CallsFit(c)'
  BY <1>0, <1>2 DEF CallsFit, CallFits
<1>5. OutboxFits'
  <2>1. ASSUME NEW i \in 1 .. Len(outbox), NEW o, o = outbox[i]  PROVE OutFits(o)'
    <3>1. OutFits(o) /\ o.by # c /\ o.by \in Browsers
      BY <1>0, <2>1, Carried DEF OutboxFits, LastAnswer
    <3>2. calls'[o.by] = calls[o.by]
      BY <3>1 DEF Dropped
    <3>. QED
      BY <3>1, <3>2 DEF OutFits, EventFits, AnswerFits
  <2>. QED
    BY <2>1 DEF OutboxFits, OutFits, EventFits, AnswerFits
<1>6. Unseen'
  <2>1. ASSUME NEW d \in Browsers, NEW k \in Cards, board[k] = None  PROVE view'[d][k] = None
    <3>1. view[d][k] = None
      BY <1>0, <2>1 DEF Unseen
    <3>2. CASE d # c
      BY <3>1, <3>2 DEF Answered
    <3>3. CASE d = c /\ AnswerOn(c, k, a)
      BY <2>1, <3>3 DEF Answered, AnswerFits
    <3>4. CASE d = c /\ ~AnswerOn(c, k, a)
      <4>1. ~(x.op = "remove" /\ k = x.card)
        BY <1>0, <2>1 DEF Dropped, CallsFit, CallFits
      <4>. QED
        BY <3>1, <3>4, <4>1 DEF Answered
    <3>. QED
      BY <3>2, <3>3, <3>4
  <2>. QED
    BY <2>1 DEF Unseen
<1>7. \A j \in 1 .. Len(wire'[c]) : wire'[c][j] \notin Answer
  <2>. SUFFICES ASSUME NEW j \in 1 .. Len(wire'[c])  PROVE wire'[c][j] \notin Answer
    OBVIOUS
  <2>1. PICK i \in 1 .. Len(wire[c]) : i = j + 1 /\ wire'[c][j] = wire[c][i]
    BY WireAfter
  <2>2. i # 1
    BY <2>1
  <2>. QED
    BY <2>1, <2>2 DEF LastAnswer
<1>8. \A j \in 1 .. Len(calls'[c]) : ~calls'[c][j].sent
  BY DEF Dropped
<1>9. OneAnswer(c)'
  BY <1>7, <1>8 DEF OneAnswer, LastAnswer
<1>10. WireFits(c)'
  <2>1. ASSUME NEW j \in 1 .. Len(wire'[c]), wire'[c][j] \in Event
        PROVE  EventFits(wire'[c][j]) /\ online[c]
    BY <1>0, <2>1, WireAfter DEF WireFits
  <2>. QED
    BY <1>7, <2>1 DEF WireFits, EventFits
<1>. QED
  BY <1>1, <1>3, <1>4, <1>5, <1>6, <1>9, <1>10

LEMMA AnswerFollows ==
    ASSUME Sane, NEW c \in Browsers, NEW x \in Call, NEW a \in Answer, Taken(c, 1), Dropped(c, x),
           LastAnswer(c), Answered(c, x, a), AnswerFits(c, a), a = wire[c][1],
           ~(a.type = "error" /\ x.op = "remove"),
           UNCHANGED <<board, outbox, activeIds, online, spent>>, Follows(c)
    PROVE  Follows(c)'
<1>0. /\ OutCurrent /\ WireCurrent(c) /\ ShieldsFit(c) /\ Earlier(c) /\ WillShow(c)
      /\ 1 \in 1 .. Len(wire[c]) /\ a \notin Event /\ x = calls[c][1]
      /\ activeIds[c] \subseteq Cards
      /\ \A k \in Cards : hand[c][k] # "empty" => view[c][k] # None
  BY Kinds DEF Sane, Follows, Taken, Dropped, BoardTypeOK
<1>1. OutCurrent'
  BY <1>0 DEF OutCurrent, NoneOutFrom, EventOn, Visible
<1>2. /\ Visible(board)' = Visible(board) /\ online'[c] = online[c]
      /\ \A k : NoneOut(k)' <=> NoneOut(k)
  BY DEF Visible, NoneOut, EventOn
<1>3. ASSUME NEW j \in 1 .. Len(wire'[c])  PROVE wire'[c][j] \notin Answer
  <2>1. PICK i \in 1 .. Len(wire[c]) : i = j + 1 /\ wire'[c][j] = wire[c][i]
    BY WireAfter
  <2>2. i # 1
    BY <2>1
  <2>. QED
    BY <2>1, <2>2 DEF LastAnswer
<1>4. ASSUME online[c], NEW j \in 1 .. Len(wire'[c]), NEW k \in Cards, NoneOut(k), NoneAfter(c, k, j)',
             NEW m, m = wire'[c][j]
      PROVE  EventOn(k, m) => m.with = Visible(board)[k]
  <2>1. PICK i \in 1 .. Len(wire[c]) : i = j + 1 /\ m = wire[c][i] /\ NoneAfter(c, k, i)
    BY <1>4, WireAfter
  <2>. QED
    BY <1>0, <1>4, <2>1 DEF WireCurrent
<1>5. WireCurrent(c)'
  BY <1>2, <1>3, <1>4 DEF WireCurrent, EventOn, AnswerOn
<1>6. ASSUME NEW k \in Cards, board[k] # Deleted, hand[c][k] # "empty"  PROVE hand'[c][k] = hand[c][k]
  <2>1. view[c][k] # None
    BY <1>0, <1>6
  <2>2. view'[c][k] # None
    <3>1. CASE AnswerOn(c, k, a)
      BY <1>0, <1>6, <2>1, <3>1 DEF Answered, Earlier
    <3>2. CASE ~AnswerOn(c, k, a)
      BY <2>1, <3>2 DEF Answered
    <3>. QED
      BY <3>1, <3>2
  <2>. QED
    BY <2>2 DEF Answered
<1>7. ShieldsFit(c)'
  BY <1>0, <1>6 DEF ShieldsFit
<1>8. Earlier(c)'
  BY <1>3 DEF Earlier, AnswerOn, LastAnswer
<1>9. Resyncing(c) => Resyncing(c)'
  <2>1. SUFFICES ASSUME NEW i \in 1 .. Len(calls[c]), calls[c][i].op = "resync", ~calls[c][i].sent
                 PROVE  Resyncing(c)'
    BY DEF Resyncing
  <2>2. i # 1
    BY <2>1 DEF Dropped
  <2>3. PICK j \in 1 .. Len(calls'[c]) : calls'[c][j] = calls[c][i]
    BY <2>2 DEF Dropped
  <2>. QED
    BY <2>1, <2>3 DEF Resyncing
<1>10. ASSUME NEW k \in Cards, Busy(c, k)  PROVE Busy(c, k)'
  <2>1. board[k] \in Card /\ board[k] # Deleted
    BY <1>10, Kinds DEF Busy
  <2>2. CASE hand[c][k] # "empty"
    BY <1>6, <2>1, <2>2 DEF Busy
  <2>3. ASSUME NEW i \in 1 .. Len(calls[c]), ~calls[c][i].sent, calls[c][i].card = k,
               calls[c][i].op \in {"place", "text", "remove"}
        PROVE  Busy(c, k)'
    <3>1. i # 1
      BY <2>3 DEF Dropped
    <3>2. PICK j \in 1 .. Len(calls'[c]) : calls'[c][j] = calls[c][i]
      BY <3>1 DEF Dropped
    <3>. QED
      BY <2>1, <2>3, <3>2 DEF Busy, Speaks
  <2>. QED
    BY <1>10, <2>2, <2>3 DEF Busy, Speaks
<1>11. ASSUME online[c], NEW k \in Cards, ~Resyncing(c), ~Busy(c, k),
              NoneOut(k), \A j \in 1 .. Len(wire'[c]) : ~EventOn(k, wire'[c][j])
       PROVE  view'[c][k] = Visible(board)[k]
  <2>1. NoneAfter(c, k, 1)
    BY <1>11, WireAfter
  <2>2. CASE AnswerOn(c, k, a)
    <3>1. a.board[k] = Visible(board)[k]
      BY <1>0, <1>11, <2>1, <2>2 DEF WireCurrent
    <3>. QED
      BY <2>2, <3>1 DEF Answered
  <2>3. CASE ~AnswerOn(c, k, a)
    <3>1. \A j \in 1 .. Len(wire[c]) : ~EventOn(k, wire[c][j]) /\ ~AnswerOn(c, k, wire[c][j])
      <4>1. ASSUME NEW j \in 1 .. Len(wire[c]), j # 1  PROVE ~EventOn(k, wire[c][j]) /\ wire[c][j] \notin Answer
        BY <1>11, <4>1, WireAfter DEF LastAnswer
      <4>2. ~EventOn(k, a)
        BY <1>0 DEF EventOn
      <4>. QED
        BY <2>3, <4>1, <4>2 DEF AnswerOn
    <3>2. ~Word(c, k)
      BY <1>11, <3>1 DEF Word, LastAnswer
    <3>3. view[c][k] = Visible(board)[k]
      BY <1>0, <1>11, <3>2 DEF WillShow
    <3>. QED
      BY <2>3, <3>3 DEF Answered
  <2>. QED
    BY <2>2, <2>3
<1>12. ASSUME NEW k \in Cards, ~Word(c, k)'
       PROVE  NoneOut(k) /\ \A j \in 1 .. Len(wire'[c]) : ~EventOn(k, wire'[c][j])
  BY <1>2, <1>12 DEF Word, EventOn
<1>13. WillShow(c)'
  <2>1. ASSUME online[c], NEW k \in Cards
        PROVE  Resyncing(c)' \/ Busy(c, k)' \/ Word(c, k)' \/ view'[c][k] = Visible(board)[k]
    BY <1>9, <1>10, <1>11, <1>12, <2>1
  <2>. QED
    BY <1>2, <2>1 DEF WillShow
<1>. QED
  BY <1>1, <1>5, <1>7, <1>8, <1>13 DEF Follows

LEMMA PeaceFollows ==
    ASSUME BoardTypeOK, NEW c \in Browsers, NEW x \in Call, NEW a \in Answer, Taken(c, 1), Dropped(c, x),
           Answered(c, x, a), x.op = "resync", a.type = "reply",
           Len(calls[c]) = 1, Len(wire[c]) = 1, outbox = <<>>, activeIds[c] = {},
           a.board = Visible(board),
           UNCHANGED <<board, outbox, activeIds, online, spent>>
    PROVE  Follows(c)'
<1>1. /\ \A j \in 1 .. Len(wire'[c]) : FALSE
      /\ \A j \in 1 .. Len(calls'[c]) : FALSE
      /\ \A j \in 1 .. Len(outbox') : FALSE
      /\ activeIds'[c] = {}
  BY DEF Taken, Dropped
<1>2. \A k \in Cards : AnswerOn(c, k, a)
  BY DEF AnswerOn, Dropped
<1>3. \A k \in Cards : view'[c][k] = Visible(board)[k]
  BY <1>2 DEF Answered
<1>4. WillShow(c)'
  BY <1>3 DEF WillShow, Visible
<1>5. OutCurrent' /\ WireCurrent(c)' /\ ShieldsFit(c)' /\ Earlier(c)'
  BY <1>1 DEF OutCurrent, WireCurrent, ShieldsFit, Earlier
<1>. QED
  BY <1>4, <1>5 DEF Follows

LEMMA AnswerKeeps ==
    ASSUME BoardInv, NEW c \in Browsers, ReceiveAnswer(c)  PROVE BoardInv'
<1>0. Sane /\ BoardTypeOK
  BY DEF BoardInv, Sane
<1>1. PICK x \in Call, a \in Answer :
              /\ a = wire[c][1] /\ a = Head(wire[c]) /\ x = Head(calls[c])
              /\ Taken(c, 1) /\ Dropped(c, x) /\ LastAnswer(c) /\ Answered(c, x, a)
              /\ AnswerFits(c, a)
              /\ UNCHANGED <<board, outbox, activeIds, online, spent>>
  BY <1>0, AnswerShape
<1>2. disturbed' = IF PutBack(c) THEN disturbed \cup {c}
                   ELSE IF InPeace(c) THEN disturbed \ {c} ELSE disturbed
  BY DEF ReceiveAnswer
<1>3. disturbed' \subseteq Browsers /\ \A d \in Browsers : d # c /\ d \notin disturbed' => d \notin disturbed
  BY <1>0, <1>2 DEF BoardTypeOK
<1>4. /\ BoardTypeOK' /\ CreatedOnce' /\ OutboxFits' /\ Unseen'
      /\ OneAnswer(c)' /\ CallsFit(c)' /\ WireFits(c)'
  BY <1>0, <1>1, <1>3, AnswerSane
<1>5. \A d \in Browsers : d # c => Untouched(d)
  BY <1>1 DEF Untouched, Answered, Taken, Dropped
<1>6. ASSUME c \notin disturbed'  PROVE Follows(c)'
  <2>1. ~PutBack(c)
    BY <1>2, <1>6
  <2>2. CASE InPeace(c)
    <3>1. /\ x.op = "resync" /\ a.type = "reply"
          /\ Len(calls[c]) = 1 /\ Len(wire[c]) = 1 /\ outbox = <<>> /\ activeIds[c] = {}
          /\ a.board = Visible(board)
      BY <1>1, <2>2 DEF InPeace
    <3>. QED
      BY <1>0, <1>1, <3>1, PeaceFollows
  <2>3. CASE ~InPeace(c)
    <3>1. Follows(c)
      BY <1>2, <1>6, <2>1, <2>3 DEF BoardInv
    <3>2. ~(a.type = "error" /\ x.op = "remove")
      BY <1>1, <2>1 DEF PutBack
    <3>. QED
      BY <1>0, <1>1, <3>1, <3>2, AnswerFollows
  <2>. QED
    BY <2>2, <2>3
<1>. QED
  BY <1>1, <1>3, <1>4, <1>5, <1>6, OneTouched

LEMMA Surviving ==
    ASSUME NEW q \in Seq(Event \cup Answer)
    PROVE  /\ AnswersOnly(q) \in Seq(Event \cup Answer)
           /\ \A j \in 1 .. Len(AnswersOnly(q)) :
                /\ j = 1 /\ AnswersOnly(q)[j] \in Answer
                /\ \E i \in 1 .. Len(q) : AnswersOnly(q)[j] = q[i]
           /\ Len(AnswersOnly(q)) \in {0, 1}
<1>1. DOMAIN q = 1 .. Len(q)
  BY LenProperties
<1>2. PICK A : A = {i \in DOMAIN q : q[i] \in Answer}
  OBVIOUS
<1>3. CASE A = {}
  <2>1. AnswersOnly(q) = <<>>
    BY <1>2, <1>3 DEF AnswersOnly
  <2>. QED
    BY <2>1
<1>4. CASE A # {}
  <2>1. PICK i : i = CHOOSE n \in A : TRUE
    OBVIOUS
  <2>2. i \in A
    BY <1>4, <2>1
  <2>3. AnswersOnly(q) = <<q[i]>>
    BY <1>2, <1>4, <2>1 DEF AnswersOnly
  <2>4. i \in 1 .. Len(q) /\ q[i] \in Answer
    BY <1>1, <1>2, <2>2
  <2>5. PICK a \in Answer : a = q[i]
    BY <2>4
  <2>6. AnswersOnly(q) = <<a>>
    BY <2>3, <2>5
  <2>. QED
    BY <2>4, <2>5, <2>6
<1>. QED
  BY <1>3, <1>4

LEMMA CutKeeps ==
    ASSUME BoardInv, NEW c \in Browsers, Cut(c)  PROVE BoardInv'
<1>0. /\ Sane /\ BoardTypeOK /\ wire[c] \in Seq(Event \cup Answer)
      /\ wire \in [Browsers -> Seq(Event \cup Answer)] /\ online \in [Browsers -> BOOLEAN]
      /\ OneAnswer(c) /\ WireFits(c) /\ CallsFit(c)
  BY DEF BoardInv, Sane, BoardTypeOK
<1>1. PICK q : q = AnswersOnly(wire[c])
  OBVIOUS
<1>2. /\ wire' = [wire EXCEPT ![c] = q] /\ online' = [online EXCEPT ![c] = FALSE] /\ Mishap
      /\ UNCHANGED <<board, outbox, view, activeIds, hand, calls, disturbed>>
  BY <1>1 DEF Cut
<1>3. /\ q \in Seq(Event \cup Answer) /\ Len(q) \in {0, 1}
      /\ \A j \in 1 .. Len(q) : j = 1 /\ q[j] \in Answer /\ \E i \in 1 .. Len(wire[c]) : q[j] = wire[c][i]
  BY <1>0, <1>1, Surviving
<1>4. /\ wire'[c] = q /\ ~online'[c]
      /\ \A d \in Browsers : d # c => wire'[d] = wire[d] /\ online'[d] = online[d]
      /\ wire' \in [Browsers -> Seq(Event \cup Answer)] /\ online' \in [Browsers -> BOOLEAN]
  BY <1>0, <1>2, <1>3
<1>5. BoardTypeOK'
  BY <1>0, <1>2, <1>4, MishapCounted DEF BoardTypeOK
<1>6. CreatedOnce' /\ OutboxFits' /\ Unseen' /\ CallsFit(c)'
  <2>1. CreatedOnce' /\ Unseen' /\ CallsFit(c)'
    BY <1>0, <1>2 DEF Sane, CreatedOnce, Unseen, CallsFit, CallFits
  <2>2. OutboxFits'
    BY <1>0, <1>2 DEF Sane, OutboxFits, OutFits, EventFits, AnswerFits
  <2>. QED
    BY <2>1, <2>2
<1>7. OneAnswer(c)'
  <2>1. \A i \in 1 .. Len(calls[c]) : calls[c][i].sent => i = 1
    BY <1>0 DEF OneAnswer
  <2>2. ASSUME NEW i \in 1 .. Len(outbox), outbox[i].by = c
        PROVE  /\ calls[c] # <<>> /\ calls[c][1].sent
               /\ \A j \in 1 .. Len(outbox) : outbox[j].by = c => j = i
               /\ \A j \in 1 .. Len(q) : q[j] \notin Answer
    <3>1. /\ calls[c] # <<>> /\ calls[c][1].sent
          /\ \A j \in 1 .. Len(outbox) : outbox[j].by = c => j = i
          /\ \A j \in 1 .. Len(wire[c]) : wire[c][j] \notin Answer
      BY <1>0, <2>2 DEF OneAnswer
    <3>. QED
      BY <1>3, <3>1
  <2>3. ASSUME NEW j \in 1 .. Len(q), q[j] \in Answer
        PROVE  calls[c] # <<>> /\ calls[c][1].sent /\ \A l \in 1 .. Len(q) : q[l] \in Answer => l = j
    BY <1>0, <1>3, <2>3 DEF OneAnswer
  <2>. QED
    BY <1>2, <1>4, <2>1, <2>2, <2>3 DEF OneAnswer
<1>8. WireFits(c)'
  <2>1. ASSUME NEW j \in 1 .. Len(q)  PROVE q[j] \notin Event /\ q[j] \in Answer /\ AnswerFits(c, q[j])
    BY <1>0, <1>3, Kinds DEF WireFits
  <2>. QED
    BY <1>2, <1>4, <2>1 DEF WireFits, AnswerFits
<1>9. \A d \in Browsers : d # c => Untouched(d)
  BY <1>2, <1>4 DEF Untouched
<1>10. ASSUME c \notin disturbed  PROVE Follows(c)'
  <2>0. Follows(c)
    BY <1>10 DEF BoardInv
  <2>1. OutCurrent'
    BY <1>2, <2>0 DEF Follows, OutCurrent, NoneOutFrom, EventOn, Visible
  <2>2. ShieldsFit(c)'
    BY <1>2, <2>0 DEF Follows, ShieldsFit
  <2>3. WireCurrent(c)' /\ WillShow(c)'
    BY <1>4 DEF WireCurrent, WillShow
  <2>4. \A k, j : j \in 1 .. Len(q) => ~EventOn(k, q[j])
    BY <1>3, Kinds DEF EventOn
  <2>5. ASSUME NEW k \in Cards, board[k] # Deleted, NEW i \in 1 .. Len(outbox), outbox[i].by = c,
               AnswerOn(c, k, outbox[i].answer), outbox[i].answer.board[k] = None
        PROVE  /\ view[c][k] = None
               /\ \A j \in 1 .. Len(outbox) : j < i => ~EventOn(k, outbox[j].event)
               /\ \A j \in 1 .. Len(q) : ~EventOn(k, q[j])
    BY <2>0, <2>4, <2>5 DEF Follows, Earlier
  <2>6. ASSUME NEW k \in Cards, board[k] # Deleted, NEW j \in 1 .. Len(q), AnswerOn(c, k, q[j]),
               q[j].board[k] = None
        PROVE  view[c][k] = None /\ \A i \in 1 .. Len(q) : i < j => ~EventOn(k, q[i])
    BY <1>3, <2>0, <2>4, <2>6 DEF Follows, Earlier
  <2>7. UNCHANGED <<board, outbox, view, calls>> /\ wire'[c] = q
    BY <1>2, <1>4
  <2>8. Earlier(c)'
    BY <2>5, <2>6, <2>7 DEF Earlier, EventOn, AnswerOn
  <2>. QED
    BY <2>1, <2>2, <2>3, <2>8 DEF Follows
<1>. QED
  BY <1>2, <1>5, <1>6, <1>7, <1>8, <1>9, <1>10, OneTouched

-----------------------------------------------------------------------------
(* Every step.                                                               *)

LEMMA BoardStays == ASSUME BoardInv, UNCHANGED boardVars  PROVE BoardInv'
<1>1. BoardTypeOK /\ Sane
  BY DEF BoardInv, Sane
<1>2. CallsFine
  BY <1>1, NothingAdded DEF boardVars
<1>3. spent' \in Ceiling /\ online' \in [Browsers -> BOOLEAN]
  BY <1>1 DEF BoardTypeOK, boardVars
<1>. QED
  BY <1>2, <1>3, CallKeeps DEF boardVars

LEMMA BoardKept == BoardInv /\ [BoardNext]_boardVars => BoardInv'
<1>. SUFFICES ASSUME BoardInv, [BoardNext]_boardVars  PROVE BoardInv'
  OBVIOUS
<1>1. ASSUME NEW c \in Browsers, NEW k \in Cards, Gesture(c, k)  PROVE BoardInv'
  BY <1>1, AddKeeps, HoldKeeps, ReleaseKeeps, DeleteKeeps DEF Gesture
<1>2. ASSUME NEW c \in Browsers, Serve(c)  PROVE BoardInv'
  BY <1>2, ServeKeeps
<1>3. ASSUME NEW c \in Browsers, Refuse(c)  PROVE BoardInv'
  BY <1>3, RefuseKeeps
<1>4. ASSUME NEW c \in Browsers, Receive(c)  PROVE BoardInv'
  BY <1>4, AnswerKeeps, EventKeeps DEF Receive
<1>5. ASSUME NEW c \in Browsers, Connect(c) \/ Reconcile(c)  PROVE BoardInv'
  BY <1>5, ResyncKeeps
<1>6. ASSUME NEW c \in Browsers, Cut(c)  PROVE BoardInv'
  BY <1>6, CutKeeps
<1>7. ASSUME NEW i \in DOMAIN outbox, Send(i)  PROVE BoardInv'
  BY <1>7, SendKeeps
<1>8. CASE UNCHANGED boardVars
  BY <1>8, BoardStays
<1>. QED
  BY <1>1, <1>2, <1>3, <1>4, <1>5, <1>6, <1>7, <1>8 DEF BoardNext

LEMMA BoardAlways == BoardSpec => []BoardInv
BY InitBoard, BoardKept, PTL DEF BoardSpec

\* Every variable of the board, the browsers and the wires keeps its type; a gesture under
\* way holds a card the browser shows and shields.
THEOREM BoardTypes == BoardSpec => []BoardTypeOK
<1>1. BoardInv => BoardTypeOK
  BY DEF BoardInv, Sane
<1>. QED
  BY <1>1, BoardAlways, PTL

\* A browser with an open socket and nothing under way shows the server's board, for any
\* number of browsers, cards, calls and cuts, unless a disturbance has spoilt it since its
\* last re-pull in peace.
THEOREM BoardsConverge == BoardSpec => []BoardConverges
<1>1. ASSUME BoardInv  PROVE BoardConverges
  <2>. SUFFICES ASSUME NEW c \in Browsers, Settled(c), c \notin disturbed
                PROVE  view[c] = Visible(board)
    BY DEF BoardConverges
  <2>1. /\ BoardTypeOK /\ WillShow(c) /\ online[c]
        /\ Len(calls[c]) = 0 /\ Len(wire[c]) = 0 /\ Len(outbox) = 0
        /\ \A k \in Cards : hand[c][k] = "empty"
    BY <1>1 DEF BoardInv, Sane, Follows, Settled
  <2>2. ASSUME NEW k \in Cards  PROVE view[c][k] = Visible(board)[k]
    <3>1. ~Resyncing(c) /\ ~Speaks(c, k) /\ ~Word(c, k)
      BY <2>1 DEF Resyncing, Speaks, Word, NoneOut
    <3>. QED
      BY <2>1, <3>1 DEF WillShow, Busy
  <2>3. view[c] \in [Cards -> Shown] /\ Visible(board) \in [Cards -> Shown]
    BY <2>1, Carried, Kinds
  <2>. QED
    BY <2>2, <2>3
<1>. QED
  BY <1>1, BoardAlways, PTL

\* A message that comes without ending a call neither moves nor changes a card in hand; at
\* most it takes the card away.
THEOREM NothingYanks == BoardSpec => NoYank
<1>. DEFINE Spared ==
       \A c \in Browsers, k \in Cards :
         (hand[c][k] # "empty" /\ wire[c] # wire'[c] /\ calls[c] = calls'[c])
            => view'[c][k] \in {view[c][k], None}
<1>1. ASSUME BoardInv, [BoardNext]_boardVars  PROVE [Spared]_boardVars
  <2>0. Sane /\ BoardTypeOK /\ \A c \in Browsers : calls[c] \in Seq(Call)
    BY <1>1, Carried DEF BoardInv, Sane
  <2>. SUFFICES ASSUME BoardNext, NEW c \in Browsers, NEW k \in Cards, hand[c][k] # "empty",
                       wire[c] # wire'[c], calls[c] = calls'[c]
                PROVE  view'[c][k] \in {view[c][k], None}
    BY <1>1
  <2>1. ASSUME UNCHANGED view  PROVE view'[c][k] \in {view[c][k], None}
    BY <2>1
  <2>2. ASSUME NEW d \in Browsers, NEW j \in Cards, Gesture(d, j)  PROVE FALSE
    <3>1. UNCHANGED wire
      BY <2>2 DEF Gesture, Grab, Drop, StartEditing, AbandonText, DeleteCard, Drag, CommitText, AddCard
    <3>. QED
      BY <3>1
  <2>3. ASSUME NEW d \in Browsers, NEW i \in DOMAIN wire[d], ReceiveEvent(d, i)
        PROVE  view'[c][k] \in {view[c][k], None}
    <3>1. PICK e \in Event : e = wire[d][i]
      BY <2>3 DEF ReceiveEvent
    <3>2. Applied(d, e) /\ BoardTypeOK
      BY <2>0, <2>3, <3>1, Applying DEF ReceiveEvent
    <3>3. d = c
      BY <2>0, <2>3 DEF ReceiveEvent, BoardTypeOK
    <3>4. CASE k = e.card
      <4>1. k \in activeIds[c] /\ e.type \in {"upserted", "deleted"}
        BY <2>0, Kinds DEF BoardTypeOK
      <4>. QED
        BY <3>2, <3>3, <3>4, <4>1 DEF Applied
    <3>5. CASE k # e.card
      BY <3>2, <3>3, <3>5 DEF Applied
    <3>. QED
      BY <3>4, <3>5
  <2>4. ASSUME NEW d \in Browsers, ReceiveAnswer(d)  PROVE FALSE
    <3>1. PICK x \in Call : Dropped(d, x) /\ Taken(d, 1)
      BY <2>0, <2>4, AnswerShape
    <3>2. d = c
      BY <3>1 DEF Taken
    <3>3. Len(calls'[d]) # Len(calls[d])
      BY <3>1 DEF Dropped
    <3>. QED
      BY <3>2, <3>3
  <2>5. ASSUME NEW d \in Browsers,
               Serve(d) \/ Refuse(d) \/ Connect(d) \/ Cut(d) \/ Reconcile(d)
        PROVE  UNCHANGED view
    BY <2>5 DEF Serve, Refuse, Connect, Cut, Reconcile
  <2>6. ASSUME NEW i \in DOMAIN outbox, Send(i)  PROVE UNCHANGED view
    BY <2>6 DEF Send
  <2>. QED
    BY <2>1, <2>2, <2>3, <2>4, <2>5, <2>6 DEF BoardNext, Receive
<1>2. BoardInv /\ [BoardNext]_boardVars =>
        [\A c \in Browsers, k \in Cards :
           (hand[c][k] # "empty" /\ wire[c] # wire'[c] /\ calls[c] = calls'[c])
              => view'[c][k] \in {view[c][k], None}]_boardVars
  BY <1>1
<1>. QED
  BY <1>2, BoardAlways, PTL DEF BoardSpec, NoYank
=============================================================================

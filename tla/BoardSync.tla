----------------------------- MODULE BoardSync -----------------------------
(***************************************************************************)
(* The collaboration canvas as several browsers see it: the server's cards *)
(* (boards/service.py), each browser's store (stores/use-board-store.ts),  *)
(* the canvas that edits the store first and calls the server afterwards   *)
(* (BoardCanvas.tsx, BoardItem.tsx), the events the server fans out and    *)
(* the re-pull of the whole board (BoardProvider.tsx).                     *)
(*                                                                         *)
(* A card is its place and its text, the two things gestures change; size  *)
(* goes with the place, colour with the text.  Comments and reactions are  *)
(* kept apart from the card in the store and are not modelled here.  A     *)
(* browser's server actions are dispatched one after the other (Next.js).  *)
(*                                                                         *)
(* What the design leaves to the environment is in Disturbances:           *)
(*   "overtake"  an HTTP answer reaches the browser after events the       *)
(*               server sent later (they travel on different connections)  *)
(*   "reorder"   two requests broadcast in the other order than they       *)
(*               committed                                                 *)
(*   "refuse"    a call fails without having any effect                    *)
(*   "escape"    a text edit is abandoned                                  *)
(*   "redelete"  a card is deleted that somebody has deleted already       *)
(***************************************************************************)
EXTENDS Integers, Sequences, FiniteSets, SequencesExt

CONSTANTS
    Browsers,
    Cards,
    Places,
    Texts,
    Disturbances,
    MaxCalls,       \* bound on calls that change the board
    MaxResyncs,     \* bound on re-pulls beyond those of a new socket
    MaxMishaps,     \* bound on disturbances and sockets cut
    None,           \* no card
    Deleted         \* the card has been deleted

Card == [place: Places, text: Texts]

Shown == Card \cup {None}

Event == [type: {"upserted", "deleted"}, card: Cards, with: Shown]

ASSUME BoardAssumption ==
    /\ Disturbances \subseteq {"overtake", "reorder", "refuse", "escape", "redelete"}
    /\ MaxCalls \in Nat /\ MaxResyncs \in Nat /\ MaxMishaps \in Nat
    /\ Cards # {}
    /\ None # Deleted /\ {None, Deleted} \cap Card = {} /\ None \notin Event

VARIABLES
    board,          \* the server's cards
    outbox,         \* requests that have committed and not yet answered
    view,           \* itemsById of each browser
    activeIds,      \* cards a browser shields from events
    hand,           \* the gesture each card's component has under way
    online,         \* the browser's socket is open
    calls,          \* each browser's server actions, the first one under way
    wire,           \* what the server has sent to each browser
    spent,          \* calls, re-pulls and mishaps so far
    disturbed       \* history: browsers that met a disturbance since they last
                    \* re-pulled the board in peace

boardVars == <<board, outbox, view, activeIds, hand, online, calls, wire, spent,
               disturbed>>

\* A card is created once and deleted once.
Row == Card \cup {None, Deleted}

Call == [op: {"create", "place", "text", "remove", "resync"}, card: Cards,
         with: Shown, sent: BOOLEAN]

Answer == [type: {"reply", "error"}, board: [Cards -> Shown]]

Ceiling == [calls: 0 .. MaxCalls, resyncs: 0 .. MaxResyncs, mishaps: 0 .. MaxMishaps]

BoardTypeOK ==
    /\ board \in [Cards -> Row]
    /\ outbox \in Seq([by: Browsers, event: Event \cup {None}, answer: Answer])
    /\ view \in [Browsers -> [Cards -> Shown]]
    /\ activeIds \in [Browsers -> SUBSET Cards]
    /\ hand \in [Browsers -> [Cards -> {"empty", "drag", "edit"}]]
    /\ \A c \in Browsers, k \in Cards :
         hand[c][k] # "empty" => view[c][k] # None /\ k \in activeIds[c]
    /\ online \in [Browsers -> BOOLEAN]
    /\ calls \in [Browsers -> Seq(Call)]
    /\ wire \in [Browsers -> Seq(Event \cup Answer)]
    /\ spent \in Ceiling
    /\ disturbed \subseteq Browsers

-----------------------------------------------------------------------------
(* The store.                                                              *)

\* What a GET of the board shows.
Visible(b) == [k \in Cards |-> IF b[k] \in Card THEN b[k] ELSE None]

\* Defect: a gesture outlives its card.
StillHeld(h, v) == h

\* A card that leaves the store unmounts: its gesture is gone, its shield stays.
Handled(h, v) == [k \in Cards |-> IF v[k] = None THEN "empty" ELSE h[k]]

\* One of the browser's cards changes, or all of them.
Show(c, v) ==
    /\ view' = [view EXCEPT ![c] = v]
    /\ hand' = [hand EXCEPT ![c] = Handled(hand[c], v)]

UpsertItem(c, k, card) == Show(c, [view[c] EXCEPT ![k] = card])

RemoveItem(c, k) == Show(c, [view[c] EXCEPT ![k] = None])

\* patchItem: an optimistic change; nothing if the card is not there.
PatchItem(c, k, card) ==
    view' = [view EXCEPT ![c][k] = IF view[c][k] = None THEN None ELSE card]

\* setItems replaces the cards, the shielded ones included.
SetItems(c, items) == Show(c, items)

\* Defect: the card under the pointer is not shielded.
ApplyAlways(c, e) ==
    IF e.type = "deleted" THEN RemoveItem(c, e.card) ELSE UpsertItem(c, e.card, e.with)

\* applyEvent for the item events.
ApplyEvent(c, e) ==
    IF e.type = "deleted" THEN RemoveItem(c, e.card)
    ELSE IF e.card \in activeIds[c] THEN UNCHANGED <<view, hand>>
    ELSE UpsertItem(c, e.card, e.with)

-----------------------------------------------------------------------------
(* Calls.                                                                  *)

\* Something out of the ordinary, within the bound.
Mishap ==
    /\ spent.mishaps < MaxMishaps
    /\ spent' = [spent EXCEPT !.mishaps = @ + 1]

\* The same, where it disturbs the browsers in S.
Disturb(kind, S) == kind \in Disturbances /\ Mishap /\ disturbed' = disturbed \cup S

Undisturbed == UNCHANGED <<spent, disturbed>>

NewCall(op, k, with) == [op |-> op, card |-> k, with |-> with, sent |-> FALSE]

Enqueue(c, call) == calls' = [calls EXCEPT ![c] = Append(@, call)]

\* A user's call, within the bound.
UserCall(c, op, k, with) ==
    /\ spent.calls < MaxCalls
    /\ spent' = [spent EXCEPT !.calls = @ + 1]
    /\ Enqueue(c, NewCall(op, k, with))

\* A gesture starts only while there is a call left to end it with.
CallLeft == spent.calls < MaxCalls

Pending(op, k) ==
    \E c \in Browsers : \E i \in DOMAIN calls[c] : calls[c][i].op = op /\ calls[c][i].card = k

Resync == NewCall("resync", CHOOSE k \in Cards : TRUE, None)

BoardInit ==
    /\ board \in [Cards -> {None} \cup Card]
    /\ outbox = <<>>
    /\ view = [c \in Browsers |-> Visible(board)]
    /\ activeIds = [c \in Browsers |-> {}]
    /\ hand = [c \in Browsers |-> [k \in Cards |-> "empty"]]
    /\ online = [c \in Browsers |-> FALSE]
    /\ calls = [c \in Browsers |-> <<>>]
    /\ wire = [c \in Browsers |-> <<>>]
    /\ spent = [calls |-> 0, resyncs |-> 0, mishaps |-> 0]
    /\ disturbed = {}

\* handleAddNote, handleAddPin, handleFile: nothing is shown before the answer.
AddCard(c, k, card) ==
    /\ board[k] = None
    /\ ~Pending("create", k)
    /\ UserCall(c, "create", k, card)
    /\ UNCHANGED <<board, outbox, view, activeIds, hand, online, wire, disturbed>>

\* onPointerDownBody, onPointerDownHandle.
Grab(c, k) ==
    /\ CallLeft /\ view[c][k] # None /\ hand[c][k] = "empty"
    /\ hand' = [hand EXCEPT ![c][k] = "drag"]
    /\ activeIds' = [activeIds EXCEPT ![c] = @ \cup {k}]
    /\ UNCHANGED <<board, outbox, view, online, calls, wire, spent, disturbed>>

\* onPointerMove.
Drag(c, k, p) ==
    /\ hand[c][k] = "drag"
    /\ PatchItem(c, k, [view[c][k] EXCEPT !.place = p])
    /\ UNCHANGED <<board, outbox, activeIds, hand, online, calls, wire, spent, disturbed>>

\* onPointerUp: whatever place the store shows is saved.
Drop(c, k) ==
    /\ hand[c][k] = "drag"
    /\ hand' = [hand EXCEPT ![c][k] = "empty"]
    /\ activeIds' = [activeIds EXCEPT ![c] = @ \ {k}]
    /\ UserCall(c, "place", k, view[c][k])
    /\ UNCHANGED <<board, outbox, view, online, wire, disturbed>>

StartEditing(c, k) ==
    /\ CallLeft /\ view[c][k] # None /\ hand[c][k] = "empty"
    /\ hand' = [hand EXCEPT ![c][k] = "edit"]
    /\ activeIds' = [activeIds EXCEPT ![c] = @ \cup {k}]
    /\ UNCHANGED <<board, outbox, view, online, calls, wire, spent, disturbed>>

\* commitText with a changed text.
CommitText(c, k, t) ==
    /\ hand[c][k] = "edit" /\ t # view[c][k].text
    /\ hand' = [hand EXCEPT ![c][k] = "empty"]
    /\ activeIds' = [activeIds EXCEPT ![c] = @ \ {k}]
    /\ LET card == [view[c][k] EXCEPT !.text = t] IN
        PatchItem(c, k, card) /\ UserCall(c, "text", k, card)
    /\ UNCHANGED <<board, outbox, online, wire, disturbed>>

\* commitText after Escape, or with the text it started from.
AbandonText(c, k) ==
    /\ hand[c][k] = "edit"
    /\ Disturb("escape", {c})
    /\ hand' = [hand EXCEPT ![c][k] = "empty"]
    /\ activeIds' = [activeIds EXCEPT ![c] = @ \ {k}]
    /\ UNCHANGED <<board, outbox, view, online, calls, wire>>

\* handleDelete: the card goes at once; the call remembers it.
DeleteCard(c, k) ==
    /\ "redelete" \in Disturbances \/ (board[k] # Deleted /\ ~Pending("remove", k))
    /\ view[c][k] # None /\ hand[c][k] = "empty"
    /\ RemoveItem(c, k)
    /\ UserCall(c, "remove", k, view[c][k])
    /\ UNCHANGED <<board, outbox, activeIds, online, wire, disturbed>>

-----------------------------------------------------------------------------
(* The server.                                                             *)

Succeeds(call) ==
    \/ call.op \in {"create", "resync"}
    \/ board[call.card] \in Card

\* create_item, update_item (a PATCH names the fields it changes), delete_item.
Written(call) ==
    LET k == call.card IN
    CASE call.op = "create" -> [board EXCEPT ![k] = call.with]
      [] call.op = "place"  -> [board EXCEPT ![k].place = call.with.place]
      [] call.op = "text"   -> [board EXCEPT ![k].text = call.with.text]
      [] call.op = "remove" -> [board EXCEPT ![k] = Deleted]
      [] OTHER              -> board

\* Defect: updates are not broadcast.
OnlyCreated(call, b) ==
    IF call.op = "create"
    THEN [type |-> "upserted", card |-> call.card, with |-> Visible(b)[call.card]]
    ELSE None

EventOf(call, b) ==
    IF call.op = "resync" THEN None
    ELSE [type |-> IF call.op = "remove" THEN "deleted" ELSE "upserted",
          card |-> call.card, with |-> Visible(b)[call.card]]

\* The head of a browser's queue reaches the server and commits; the answer and
\* the event are what the request reads back after its commit.
Serve(c) ==
    /\ calls[c] # <<>> /\ ~Head(calls[c]).sent
    /\ LET call == Head(calls[c])
           b    == IF Succeeds(call) THEN Written(call) ELSE board IN
        /\ board' = b
        /\ outbox' = Append(outbox,
              [by     |-> c,
               event  |-> IF Succeeds(call) THEN EventOf(call, b) ELSE None,
               answer |-> [type  |-> IF Succeeds(call) THEN "reply" ELSE "error",
                           board |-> Visible(b)]])
    /\ calls' = [calls EXCEPT ![c][1].sent = TRUE]
    /\ UNCHANGED <<view, activeIds, hand, online, wire, spent, disturbed>>

\* The call is lost on its way, or the server refuses it.
Refuse(c) ==
    /\ calls[c] # <<>> /\ ~Head(calls[c]).sent
    /\ calls' = [calls EXCEPT ![c][1].sent = TRUE]
    /\ wire' = [wire EXCEPT ![c] = Append(@, [type |-> "error", board |-> Visible(board)])]
    /\ Disturb("refuse", {c})
    /\ UNCHANGED <<board, outbox, view, activeIds, hand, online>>

\* _broadcast to every open socket, then the answer.
Send(i) ==
    LET out == outbox[i] IN
    /\ wire' = [c \in Browsers |->
                  wire[c] \o (IF out.event # None /\ online[c] THEN <<out.event>> ELSE <<>>)
                          \o (IF c = out.by THEN <<out.answer>> ELSE <<>>)]
    /\ outbox' = RemoveAt(outbox, i)
    /\ IF i = 1 THEN Undisturbed ELSE Disturb("reorder", Browsers)
    /\ UNCHANGED <<board, view, activeIds, hand, online, calls>>

-----------------------------------------------------------------------------
(* The browser receives.                                                   *)

\* The place in the queue may be another than the first only for an answer.
Arrives(c, i) ==
    \/ i = 1
    \/ /\ wire[c][i] \in Event
       /\ \A j \in 1 .. i - 1 : wire[c][j] \in Answer

ReceiveEvent(c, i) ==
    /\ wire[c][i] \in Event /\ Arrives(c, i)
    /\ ApplyEvent(c, wire[c][i])
    /\ wire' = [wire EXCEPT ![c] = RemoveAt(@, i)]
    /\ IF i = 1 THEN Undisturbed ELSE Disturb("overtake", {c})
    /\ UNCHANGED <<board, outbox, activeIds, online, calls>>

\* The re-pull that is being answered is all there is: nothing on the way to the
\* browser or from it, no request half done, nothing committed since it was read.
InPeace(c) ==
    /\ Head(calls[c]).op = "resync" /\ Head(wire[c]).type = "reply"
    /\ Len(calls[c]) = 1 /\ Len(wire[c]) = 1 /\ outbox = <<>> /\ activeIds[c] = {}
    /\ Head(wire[c]).board = Visible(board)

PutBack(c) == Head(calls[c]).op = "remove" /\ Head(wire[c]).type = "error"

\* What a component does with the answer to its call: a created card and a
\* re-pulled board are shown, an update that succeeded or failed changes nothing,
\* a card whose deletion failed is put back.
Settle(c, call, answer) ==
    CASE answer.type = "reply" /\ call.op = "resync" -> SetItems(c, answer.board)
      [] answer.type = "reply" /\ call.op = "create" ->
            UpsertItem(c, call.card, answer.board[call.card])
      [] answer.type = "error" /\ call.op = "remove" -> UpsertItem(c, call.card, call.with)
      [] OTHER -> UNCHANGED <<view, hand>>

ReceiveAnswer(c) ==
    /\ wire[c] # <<>> /\ Head(wire[c]) \in Answer
    /\ Settle(c, Head(calls[c]), Head(wire[c]))
    /\ calls' = [calls EXCEPT ![c] = Tail(@)]
    /\ wire' = [wire EXCEPT ![c] = Tail(@)]
    /\ disturbed' = IF PutBack(c) THEN disturbed \cup {c}
                     ELSE IF InPeace(c) THEN disturbed \ {c}
                     ELSE disturbed
    /\ UNCHANGED <<board, outbox, activeIds, online, spent>>

\* Defect: a new socket does not re-pull the board.
ConnectOnly(c) == UNCHANGED calls

OnOpen(c) == Enqueue(c, Resync)

\* The socket opens (or opens again): onopen re-pulls the board.
Connect(c) ==
    /\ ~online[c]
    /\ online' = [online EXCEPT ![c] = TRUE]
    /\ OnOpen(c)
    /\ UNCHANGED <<board, outbox, view, activeIds, hand, wire, spent, disturbed>>

\* What is left of a browser's wire without the events: it awaits one answer at a time.
AnswersOnly(q) ==
    LET answers == {i \in DOMAIN q : q[i] \in Answer}
    IN IF answers = {} THEN <<>> ELSE <<q[CHOOSE i \in answers : TRUE]>>

\* The socket is cut: the events on the wire are lost.
Cut(c) ==
    /\ online[c]
    /\ Mishap
    /\ online' = [online EXCEPT ![c] = FALSE]
    /\ wire' = [wire EXCEPT ![c] = AnswersOnly(@)]
    /\ UNCHANGED <<board, outbox, view, activeIds, hand, calls, disturbed>>

\* The tab becomes visible, or twenty seconds have passed without a socket.
Reconcile(c) ==
    /\ spent.resyncs < MaxResyncs
    /\ spent' = [spent EXCEPT !.resyncs = @ + 1]
    /\ Enqueue(c, Resync)
    /\ UNCHANGED <<board, outbox, view, activeIds, hand, online, wire, disturbed>>

Gesture(c, k) ==
    \/ Grab(c, k) \/ Drop(c, k) \/ StartEditing(c, k) \/ AbandonText(c, k)
    \/ DeleteCard(c, k)
    \/ \E p \in Places : Drag(c, k, p)
    \/ \E t \in Texts : CommitText(c, k, t)
    \/ \E card \in Card : AddCard(c, k, card)

Receive(c) == ReceiveAnswer(c) \/ \E i \in DOMAIN wire[c] : ReceiveEvent(c, i)

BoardNext ==
    \/ \E c \in Browsers :
        \/ \E k \in Cards : Gesture(c, k)
        \/ Serve(c) \/ Refuse(c) \/ Receive(c)
        \/ Connect(c) \/ Cut(c) \/ Reconcile(c)
    \/ \E i \in DOMAIN outbox : Send(i)

BoardSpec == BoardInit /\ [][BoardNext]_boardVars

-----------------------------------------------------------------------------
(* Properties.                                                             *)

\* Nothing is under way that concerns browser c.
Settled(c) ==
    /\ online[c]
    /\ outbox = <<>> /\ wire[c] = <<>> /\ calls[c] = <<>>
    /\ \A k \in Cards : hand[c][k] = "empty"

\* A browser with a socket and nothing under way shows the server's board,
\* whatever its user and the others did and whatever was lost while its socket
\* was cut; after a disturbance, from the next re-pull in peace on.
BoardConverges ==
    \A c \in Browsers : Settled(c) /\ c \notin disturbed => view[c] = Visible(board)

\* "so a remote echo can't yank a card out from under the user's pointer"
\* (use-board-store.ts): no event moves or changes a card that is in hand; a
\* deletion takes it away.
NoYank ==
    [][\A c \in Browsers, k \in Cards :
         (hand[c][k] # "empty" /\ wire[c] # wire'[c] /\ calls[c] = calls'[c])
            => view'[c][k] \in {view[c][k], None}]_boardVars
=============================================================================

-------------------------- MODULE WorkspaceProofs ---------------------------
(***************************************************************************)
(* Proofs about the board as one browser works on it: TaskPanel (the comments *)
(* the drawer shows are the card's) and KanbanBoard (no card is lost by what *)
(* lists do, and a board that has settled numbers its cards without a gap), *)
(* for any number of cards, lists, comments and requests; and that every   *)
(* component of the workspace keeps its types when all run side by side.   *)
(***************************************************************************)
EXTENDS MCWorkspace, ClientProofs, StaffProofs, FiniteSetTheorems, SequenceTheorems, TLAPS

-----------------------------------------------------------------------------
(* The task drawer.                                                        *)

-----------------------------------------------------------------------------
(* The inductive invariant.                                                  *)

OnComments == {"fetch", "post", "remove"}

\* A comment is posted or deleted only while nothing else is asked about comments.
NothingBefore ==
    \A i, j \in DOMAIN pending :
        i < j /\ pending[j].op \in {"post", "remove"} => pending[i].op \notin OnComments

LastOnComments(i) ==
    /\ pending[i].op \in OnComments
    /\ \A j \in DOMAIN pending : j > i => pending[j].op \notin OnComments

\* Only the first action can be under way.
OneServed == \A i \in DOMAIN pending : i > 1 => ~pending[i].served

\* Whatever is asked last about comments is asked for the card the drawer shows.
LastForTheCard ==
    panel.card # Unknown =>
        \A i \in DOMAIN pending : LastOnComments(i) => pending[i].card = panel.card

\* What a fetch has read is what the server still has.
FetchedIsCurrent ==
    \A i \in DOMAIN pending :
        pending[i].served /\ pending[i].op = "fetch" => pending[i].got = comments[pending[i].card]

\* The list as it will be when the answer under way has landed.
Landed(l) ==
    IF pending # <<>> /\ Head(pending).served /\ Head(pending).ok
    THEN CASE Head(pending).op = "post"   -> l \cup {Head(pending).comment}
           [] Head(pending).op = "remove" -> l \ {Head(pending).comment}
           [] OTHER -> l
    ELSE l

\* Without a fetch on its way the list is the card's, up to that answer.
ListIsCurrent ==
    panel.card # Unknown /\ ~spoilt /\ ~Under({"fetch"}) =>
        list # Unknown /\ comments[panel.card] = Landed(list)

Seeded ==
    /\ panel.card # Unknown => panel.seeded = panel.card
    /\ panel.open => panel.card # Unknown
    /\ panel.seeded # Unknown => form # Unknown

PanelInv ==
    /\ PanelTypeOK /\ Seeded
    /\ OneServed /\ NothingBefore /\ LastForTheCard
    /\ FetchedIsCurrent /\ ListIsCurrent

USE PanelAssumption DEF PanelAssumption

-----------------------------------------------------------------------------
(* Types.                                                                    *)

LEMMA InitPanel == PanelInit => PanelInv
<1>. SUFFICES ASSUME PanelInit  PROVE PanelInv
  OBVIOUS
<1>1. PanelTypeOK
  <2>1. task \in [Cards -> Fields] /\ columns = task
    BY DEF PanelInit, Fields
  <2>2. comments \in [Cards -> SUBSET Comments] /\ pending = <<>> /\ pending \in Seq(Action)
    BY DEF PanelInit
  <2>3. panel \in [card: Cards \cup {Unknown}, open: BOOLEAN, seeded: Cards \cup {Unknown},
                   editing: BOOLEAN]
    BY DEF PanelInit
  <2>4. used \in [actions: 0 .. MaxActions, others: 0 .. MaxOthers, visits: 0 .. MaxVisits,
                  errors: 0 .. MaxErrors]
    BY DEF PanelInit
  <2>. QED
    BY <2>1, <2>2, <2>3, <2>4 DEF PanelInit, PanelTypeOK
<1>2. pending = <<>> /\ panel.card = Unknown /\ panel.seeded = Unknown /\ ~panel.open
  BY DEF PanelInit
<1>3. OneServed /\ NothingBefore /\ LastForTheCard /\ FetchedIsCurrent /\ ListIsCurrent
  BY <1>2 DEF OneServed, NothingBefore, LastForTheCard, FetchedIsCurrent, ListIsCurrent
<1>. QED
  BY <1>1, <1>2, <1>3 DEF PanelInv, Seeded

\* Something that is counted happens.
LEMMA UseType ==
    ASSUME PanelTypeOK, NEW what \in {"actions", "others", "visits", "errors"}, Use(what)
    PROVE  used' \in [actions: 0 .. MaxActions, others: 0 .. MaxOthers, visits: 0 .. MaxVisits,
                      errors: 0 .. MaxErrors]
BY DEF Use, PanelTypeOK

LEMMA NewActionType ==
    ASSUME PanelTypeOK, NEW op \in {"fetch", "save", "move", "post", "remove"}, NEW k \in Cards,
           NEW f \in Fields, NEW t \in SUBSET {"list", "title"}, NEW c \in Comments
    PROVE  /\ NewAction(op, k, f, t, c) \in Action /\ NewAction(op, k, f, t, c).op = op
           /\ NewAction(op, k, f, t, c).card = k /\ ~NewAction(op, k, f, t, c).served
BY DEF NewAction, Action, PanelTypeOK

LEMMA AnyCommentType == AnyComment \in Comments
BY DEF AnyComment

\* An action is put behind the others.
LEMMA Queued ==
    ASSUME PanelTypeOK, NEW a \in Action, pending' = Append(pending, a)
    PROVE  /\ pending' \in Seq(Action) /\ DOMAIN pending = 1 .. Len(pending)
           /\ Len(pending) \in Nat /\ Len(pending') = Len(pending) + 1
           /\ DOMAIN pending' = 1 .. Len(pending) + 1
           /\ pending'[Len(pending) + 1] = a
           /\ \A i \in DOMAIN pending : i \in DOMAIN pending' /\ pending'[i] = pending[i]
BY DEF PanelTypeOK

\* The first action is taken off.
LEMMA Unqueued ==
    ASSUME PanelTypeOK, pending # <<>>, pending' = Tail(pending)
    PROVE  /\ pending' \in Seq(Action) /\ DOMAIN pending = 1 .. Len(pending)
           /\ Len(pending) \in Nat /\ Len(pending) >= 1 /\ Head(pending) = pending[1]
           /\ DOMAIN pending' = 1 .. Len(pending) - 1
           /\ \A i \in DOMAIN pending' : i + 1 \in DOMAIN pending /\ pending'[i] = pending[i + 1]
BY DEF PanelTypeOK

-----------------------------------------------------------------------------
(* The queue.                                                                *)

LEMMA QuietKeeps ==
    ASSUME PanelInv, PanelTypeOK', Seeded', UNCHANGED <<comments, list, pending, spoilt>>,
           panel'.card \in {panel.card, Unknown}
    PROVE  PanelInv'
<1>1. OneServed' /\ NothingBefore' /\ FetchedIsCurrent'
  BY DEF PanelInv, OneServed, NothingBefore, FetchedIsCurrent
<1>2. LastForTheCard'
  BY DEF PanelInv, LastForTheCard, LastOnComments
<1>3. ListIsCurrent'
  BY DEF PanelInv, ListIsCurrent, Landed, Under
<1>. QED
  BY <1>1, <1>2, <1>3 DEF PanelInv

\* Something is asked: a change of the card, of the comments, or for the comments of the
\* card that the drawer shows from now on.
LEMMA PanelAskKeeps ==
    ASSUME PanelInv, PanelTypeOK', Seeded', NEW a \in Action, ~a.served,
           pending' = Append(pending, a), UNCHANGED <<comments, spoilt>>,
           \/ a.op \in {"save", "move"} /\ UNCHANGED list /\ panel'.card = panel.card
           \/ /\ a.op \in {"post", "remove"} /\ ~Under(OnComments)
              /\ UNCHANGED list /\ panel'.card = panel.card /\ a.card = panel.card
           \/ a.op = "fetch" /\ a.card = panel'.card
    PROVE  PanelInv'
<1>. DEFINE n == Len(pending)
<1>1. /\ DOMAIN pending = 1 .. n /\ n \in Nat /\ DOMAIN pending' = 1 .. n + 1
      /\ pending'[n + 1] = a
      /\ \A i \in 1 .. n : pending'[i] = pending[i]
  BY Queued DEF PanelInv
<1>. HIDE DEF n
<1>2. OneServed'
  BY <1>1 DEF PanelInv, OneServed
<1>3. NothingBefore'
  BY <1>1 DEF PanelInv, NothingBefore, Under
<1>4. LastForTheCard'
  <2>. SUFFICES ASSUME panel'.card # Unknown, NEW i \in 1 .. n + 1, LastOnComments(i)'
                PROVE  pending'[i].card = panel'.card
    BY <1>1 DEF LastForTheCard
  <2>1. pending'[i].op \in OnComments /\ \A j \in 1 .. n + 1 : j > i => pending'[j].op \notin OnComments
    BY <1>1 DEF LastOnComments, OnComments
  <2>2. CASE i = n + 1
    BY <1>1, <2>1, <2>2 DEF OnComments
  <2>3. CASE i \in 1 .. n
    <3>1. a.op \notin OnComments
      BY <1>1, <2>1, <2>3
    <3>2. LastOnComments(i)
      BY <1>1, <2>1, <2>3 DEF LastOnComments
    <3>. QED
      BY <1>1, <2>3, <3>1, <3>2 DEF PanelInv, LastForTheCard, OnComments
  <2>. QED
    BY <1>1, <2>2, <2>3
<1>5. FetchedIsCurrent'
  BY <1>1 DEF PanelInv, FetchedIsCurrent
<1>6. ListIsCurrent'
  <2>. SUFFICES ASSUME panel'.card # Unknown, ~spoilt', ~Under({"fetch"})'
                PROVE  list' # Unknown /\ comments'[panel'.card] = Landed(list)'
    BY DEF ListIsCurrent
  <2>1. a.op # "fetch" /\ ~Under({"fetch"})
    BY <1>1 DEF Under
  <2>2. UNCHANGED <<list, comments, spoilt>> /\ panel'.card = panel.card
    BY <2>1
  <2>3. list # Unknown /\ comments[panel.card] = Landed(list)
    BY <2>1, <2>2 DEF PanelInv, ListIsCurrent
  <2>4. pending' # <<>> /\ Head(pending') = IF pending = <<>> THEN a ELSE Head(pending)
    BY DEF PanelInv, PanelTypeOK
  <2>5. Landed(list)' = Landed(list)
    BY <2>2, <2>4 DEF Landed
  <2>. QED
    BY <2>2, <2>3, <2>5
<1>. QED
  BY <1>2, <1>3, <1>4, <1>5, <1>6 DEF PanelInv

\* What the first action becomes when the server has dealt with it.
Served(ok) ==
    [pending[1] EXCEPT !.served = TRUE, !.ok = ok, !.got = comments[pending[1].card],
                       !.page = task']

LEMMA ServedType ==
    ASSUME PanelTypeOK, NEW ok \in BOOLEAN, Serve(ok)
    PROVE  /\ task' \in [Cards -> Fields] /\ comments' \in [Cards -> SUBSET Comments]
           /\ pending[1] \in Action /\ Served(ok) \in Action
           /\ Served(ok).op = pending[1].op /\ Served(ok).card = pending[1].card
           /\ Served(ok).comment = pending[1].comment
           /\ Served(ok).served /\ Served(ok).ok = ok /\ Served(ok).got = comments[pending[1].card]
           /\ pending' = [pending EXCEPT ![1] = Served(ok)]
           /\ DOMAIN pending' = DOMAIN pending /\ 1 \in DOMAIN pending
           /\ pending \in Seq(Action) /\ pending' \in Seq(Action) /\ pending' # <<>> /\ pending # <<>>
           /\ Head(pending') = Served(ok) /\ Head(pending) = pending[1] /\ ~pending[1].served
           /\ pending'[1] = Served(ok)
           /\ \A i \in DOMAIN pending : i # 1 => pending'[i] = pending[i]
<1>1. /\ pending # <<>> /\ pending \in Seq(Action) /\ Head(pending) = pending[1]
      /\ pending[1] \in Action /\ 1 \in DOMAIN pending
  BY DEF Serve, PanelTypeOK
<1>2. pending[1].card \in Cards /\ pending[1].fields \in Fields /\ pending[1].comment \in Comments
  BY <1>1 DEF Action
<1>3. task' \in [Cards -> Fields]
  <2>1. Stored(pending[1]) \in [Cards -> Fields]
    BY <1>2 DEF Stored, PanelTypeOK, Fields
  <2>2. task' = IF ok THEN Stored(pending[1]) ELSE task
    BY <1>1 DEF Serve
  <2>. QED
    BY <2>1, <2>2 DEF PanelTypeOK
<1>4. comments' \in [Cards -> SUBSET Comments]
  <2>1. \/ comments' = [comments EXCEPT ![pending[1].card] = @ \cup {pending[1].comment}]
        \/ comments' = [comments EXCEPT ![pending[1].card] = @ \ {pending[1].comment}]
        \/ comments' = comments
    BY <1>1 DEF Serve
  <2>. QED
    BY <1>2, <2>1 DEF PanelTypeOK
<1>5. pending' = [pending EXCEPT ![1] = Served(ok)] /\ ~pending[1].served
  BY <1>1 DEF Serve, Served
<1>6. comments[pending[1].card] \in SUBSET Comments
  BY <1>2 DEF PanelTypeOK
<1>7. /\ Served(ok) \in Action /\ Served(ok).op = pending[1].op /\ Served(ok).card = pending[1].card
      /\ Served(ok).comment = pending[1].comment
      /\ Served(ok).served /\ Served(ok).ok = ok /\ Served(ok).got = comments[pending[1].card]
  BY <1>1, <1>3, <1>6 DEF Served, Action
<1>. HIDE DEF Served
<1>8. /\ pending' \in Seq(Action) /\ DOMAIN pending' = DOMAIN pending /\ pending' # <<>>
      /\ Head(pending') = Served(ok) /\ pending'[1] = Served(ok)
      /\ \A i \in DOMAIN pending : i # 1 => pending'[i] = pending[i]
  BY <1>1, <1>5, <1>7
<1>. QED
  BY <1>1, <1>3, <1>4, <1>5, <1>7, <1>8

LEMMA ServeKeeps == ASSUME PanelInv, NEW ok \in BOOLEAN, Serve(ok) PROVE PanelInv'
<1>. DEFINE a == pending[1]  b == Served(ok)
<1>. USE ServedType DEF PanelInv
<1>1. UNCHANGED <<columns, panel, form, touched, list, spoilt>>
  BY DEF Serve
<1>2. PanelTypeOK'
  <2>1. used' \in [actions: 0 .. MaxActions, others: 0 .. MaxOthers, visits: 0 .. MaxVisits,
                   errors: 0 .. MaxErrors]
    BY UseType DEF Serve, PanelTypeOK
  <2>. QED
    BY <1>1, <2>1 DEF PanelTypeOK
<1>3. Seeded'
  BY <1>1 DEF Seeded
<1>. HIDE DEF a, b
<1>4. OneServed' /\ NothingBefore' /\ LastForTheCard'
  <2>1. \A i \in DOMAIN pending : pending'[i].op = pending[i].op /\ pending'[i].card = pending[i].card
    OBVIOUS
  <2>2. OneServed'
    BY DEF OneServed
  <2>3. NothingBefore'
    BY <2>1 DEF NothingBefore
  <2>4. LastForTheCard'
    BY <1>1, <2>1 DEF LastForTheCard, LastOnComments
  <2>. QED
    BY <2>2, <2>3, <2>4
<1>5. /\ ok /\ pending[1].op = "post" =>
           comments' = [comments EXCEPT ![pending[1].card] = @ \cup {pending[1].comment}]
      /\ ok /\ pending[1].op = "remove" =>
           comments' = [comments EXCEPT ![pending[1].card] = @ \ {pending[1].comment}]
      /\ ~ok => comments' = comments
  BY DEF Serve
<1>6. pending[1].op \notin {"post", "remove"} => comments' = comments
  BY DEF Serve
<1>7. FetchedIsCurrent'
  <2>. SUFFICES ASSUME NEW i \in DOMAIN pending, pending'[i].served, pending'[i].op = "fetch"
                PROVE  pending'[i].got = comments'[pending'[i].card]
    BY DEF FetchedIsCurrent
  <2>1. i = 1
    BY DEF OneServed, PanelTypeOK
  <2>. QED
    BY <1>6, <2>1
<1>8. ListIsCurrent'
  <2>. SUFFICES ASSUME panel.card # Unknown, ~spoilt, ~Under({"fetch"})'
                PROVE  list # Unknown /\ comments'[panel.card] = Landed(list)'
    BY <1>1 DEF ListIsCurrent, Landed
  <2>1. ~Under({"fetch"})
    BY DEF Under
  <2>2. list # Unknown /\ comments[panel.card] = list
    BY <2>1 DEF ListIsCurrent, Landed
  <2>3. pending[1].op # "fetch"
    BY <2>1 DEF Under
  <2>4. /\ ok /\ pending[1].op = "post" => Landed(list)' = list \cup {pending[1].comment}
        /\ ok /\ pending[1].op = "remove" => Landed(list)' = list \ {pending[1].comment}
        /\ ~ok \/ pending[1].op \notin {"post", "remove"} => Landed(list)' = list
    BY <1>1 DEF Landed
  <2>5. CASE pending[1].op \in {"post", "remove"}
    <3>1. \A j \in DOMAIN pending : j > 1 => pending[j].op \notin OnComments
      BY <2>1, <2>5 DEF NothingBefore, OnComments, Under
    <3>2. pending[1].card = panel.card
      BY <2>5, <3>1 DEF LastForTheCard, LastOnComments, OnComments
    <3>3. pending[1].card \in Cards
      BY DEF Action
    <3>4. comments'[panel.card] = IF ~ok THEN list
                                  ELSE IF pending[1].op = "post" THEN list \cup {pending[1].comment}
                                  ELSE list \ {pending[1].comment}
      <4>1. comments \in [Cards -> SUBSET Comments]
        BY DEF PanelTypeOK
      <4>2. \A S \in SUBSET Comments : [comments EXCEPT ![panel.card] = S][panel.card] = S
        BY <3>2, <3>3, <4>1
      <4>3. comments[panel.card] \in SUBSET Comments /\ pending[1].comment \in Comments
        BY <3>2, <3>3, <4>1 DEF Action
      <4>4. CASE ok /\ pending[1].op = "post"
        <5>1. comments' = [comments EXCEPT ![panel.card] = comments[panel.card] \cup {pending[1].comment}]
          BY <1>5, <3>2, <4>4
        <5>2. comments[panel.card] \cup {pending[1].comment} \in SUBSET Comments
          BY <4>3
        <5>. QED
          BY <2>2, <4>2, <4>3, <4>4, <5>1, <5>2, Zenon
      <4>5. CASE ok /\ pending[1].op = "remove"
        <5>1. comments' = [comments EXCEPT ![panel.card] = comments[panel.card] \ {pending[1].comment}]
          BY <1>5, <3>2, <4>5
        <5>2. comments[panel.card] \ {pending[1].comment} \in SUBSET Comments /\ pending[1].op # "post"
          BY <4>3, <4>5
        <5>. QED
          BY <2>2, <4>2, <4>3, <4>5, <5>1, <5>2, Zenon
      <4>6. CASE ~ok
        BY <1>5, <2>2, <4>6
      <4>. QED
        BY <2>5, <4>4, <4>5, <4>6
    <3>. QED
      BY <2>2, <2>4, <2>5, <3>4
  <2>6. CASE pending[1].op \notin {"post", "remove"}
    BY <1>6, <2>2, <2>4, <2>6
  <2>. QED
    BY <2>5, <2>6
<1>. QED
  BY <1>2, <1>3, <1>4, <1>7, <1>8

LEMMA PanelAnswerKeeps == ASSUME PanelInv, Answer PROVE PanelInv'
<1>. DEFINE a == pending[1]
<1>1. /\ pending # <<>> /\ pending' = Tail(pending) /\ Head(pending) = a /\ a.served
      /\ UNCHANGED <<task, comments, form, touched, used>>
  BY Unqueued DEF Answer, PanelInv
<1>2. /\ pending' \in Seq(Action) /\ a \in Action /\ 1 \in DOMAIN pending
      /\ DOMAIN pending = 1 .. Len(pending) /\ Len(pending) \in Nat
      /\ DOMAIN pending' = 1 .. Len(pending) - 1
      /\ \A i \in DOMAIN pending' : i + 1 \in DOMAIN pending /\ pending'[i] = pending[i + 1]
  BY <1>1, Unqueued DEF PanelInv, PanelTypeOK
<1>3. /\ list' = CASE a.ok /\ a.op = "fetch"  -> a.got
                   [] a.ok /\ a.op = "post"   -> Shown(list) \cup {a.comment}
                   [] a.ok /\ a.op = "remove" -> Shown(list) \ {a.comment}
                   [] OTHER -> list
      /\ panel' = IF a.ok /\ a.op = "save" THEN [panel EXCEPT !.editing = FALSE] ELSE panel
      /\ columns' = IF a.ok /\ a.op # "fetch" THEN a.page ELSE columns
      /\ spoilt' = IF a.op = "fetch" THEN ~a.ok ELSE spoilt
  BY <1>1 DEF Answer
<1>. HIDE DEF a
<1>4. PanelTypeOK'
  <2>1. a.got \in SUBSET Comments /\ a.comment \in Comments /\ a.page \in [Cards -> Fields] /\ a.ok \in BOOLEAN
    BY <1>2 DEF Action
  <2>2. columns' \in [Cards -> Fields]
    BY <1>3, <2>1 DEF PanelInv, PanelTypeOK
  <2>3. spoilt' \in BOOLEAN
    BY <1>3, <2>1 DEF PanelInv, PanelTypeOK
  <2>4. panel' \in [card: Cards \cup {Unknown}, open: BOOLEAN, seeded: Cards \cup {Unknown},
                    editing: BOOLEAN]
    BY <1>3 DEF PanelInv, PanelTypeOK
  <2>5. list' \in (SUBSET Comments) \cup {Unknown}
    BY <1>3, <2>1 DEF PanelInv, PanelTypeOK, Shown
  <2>. QED
    BY <1>1, <1>2, <2>2, <2>3, <2>4, <2>5 DEF PanelInv, PanelTypeOK
<1>5. Seeded' /\ panel'.card = panel.card
  BY <1>1, <1>3 DEF PanelInv, PanelTypeOK, Seeded
<1>6. \A i \in DOMAIN pending' : ~pending'[i].served
  BY <1>2 DEF PanelInv, OneServed
<1>7. OneServed' /\ FetchedIsCurrent'
  BY <1>6 DEF OneServed, FetchedIsCurrent
<1>8. NothingBefore'
  BY <1>2 DEF PanelInv, NothingBefore
<1>9. LastForTheCard'
  <2>. SUFFICES ASSUME panel'.card # Unknown, NEW i \in DOMAIN pending', LastOnComments(i)'
                PROVE  pending'[i].card = panel'.card
    BY DEF LastForTheCard
  <2>1. pending[i + 1].op \in OnComments /\ i \in Nat /\ i + 1 \in DOMAIN pending
    BY <1>2 DEF LastOnComments, OnComments
  <2>2. ASSUME NEW j \in DOMAIN pending, j > i + 1  PROVE pending[j].op \notin OnComments
    <3>1. j - 1 \in DOMAIN pending' /\ j - 1 > i /\ (j - 1) + 1 = j
      BY <1>2, <2>1, <2>2
    <3>. QED
      BY <1>2, <3>1 DEF LastOnComments, OnComments
  <2>3. LastOnComments(i + 1)
    BY <2>1, <2>2 DEF LastOnComments
  <2>. QED
    BY <1>2, <1>5, <2>1, <2>3 DEF PanelInv, LastForTheCard
<1>10. ListIsCurrent'
  <2>. SUFFICES ASSUME panel.card # Unknown, ~spoilt', ~Under({"fetch"})'
                PROVE  list' # Unknown /\ comments[panel.card] = list'
    <3>1. pending' # <<>> => Head(pending') = pending'[1] /\ 1 \in DOMAIN pending'
      BY <1>2
    <3>2. Landed(list)' = list'
      BY <1>6, <3>1 DEF Landed
    <3>. QED
      BY <1>1, <1>5, <3>2 DEF ListIsCurrent
  <2>1. \A j \in DOMAIN pending : j > 1 => pending[j].op # "fetch"
    <3>. SUFFICES ASSUME NEW j \in DOMAIN pending, j > 1  PROVE pending[j].op # "fetch"
      OBVIOUS
    <3>1. j - 1 \in DOMAIN pending' /\ (j - 1) + 1 = j
      BY <1>2
    <3>. QED
      BY <1>2, <3>1 DEF Under
  <2>2. CASE a.op = "fetch"
    <3>1. \A j \in DOMAIN pending : j > 1 => pending[j].op \notin OnComments
      BY <1>2, <2>1, <2>2 DEF PanelInv, NothingBefore, OnComments, a
    <3>2. LastOnComments(1)
      BY <2>2, <3>1 DEF LastOnComments, OnComments, a
    <3>3. a.card = panel.card
      BY <1>2, <3>2 DEF PanelInv, LastForTheCard, a
    <3>4. a.got = comments[a.card]
      BY <1>1, <1>2, <2>2 DEF PanelInv, FetchedIsCurrent, a
    <3>5. a.ok /\ a.got \in SUBSET Comments
      BY <1>2, <1>3, <2>2 DEF Action
    <3>. QED
      BY <1>3, <2>2, <3>3, <3>4, <3>5
  <2>3. CASE a.op # "fetch"
    <3>1. ~spoilt /\ ~Under({"fetch"})
      BY <1>2, <1>3, <2>1, <2>3 DEF Under, a
    <3>2. list # Unknown /\ comments[panel.card] = Landed(list)
      BY <3>1 DEF PanelInv, ListIsCurrent
    <3>3. Landed(list) = list'
      BY <1>1, <1>3, <2>3, <3>2 DEF Landed, Shown
    <3>4. comments[panel.card] \in SUBSET Comments
      BY DEF PanelInv, PanelTypeOK
    <3>. QED
      BY <3>2, <3>3, <3>4
  <2>. QED
    BY <2>2, <2>3
<1>. QED
  BY <1>4, <1>5, <1>7, <1>8, <1>9, <1>10 DEF PanelInv

-----------------------------------------------------------------------------
(* The steps.                                                                *)

\* A card is opened: the comments of another card than the drawer had are fetched.
LEMMA OpenKeeps == ASSUME PanelInv, NEW k \in Cards, Open(k) PROVE PanelInv'
<1>. DEFINE a == NewAction("fetch", k, columns[k], {}, AnyComment)
<1>1. /\ UNCHANGED <<task, comments, columns, spoilt>> /\ Use("visits") /\ ~panel.open
      /\ pending' = IF panel.card = k THEN pending ELSE Append(pending, a)
  BY DEF Open, Dispatched
<1>2. /\ panel' \in [card: Cards \cup {Unknown}, open: BOOLEAN, seeded: Cards \cup {Unknown},
                     editing: BOOLEAN]
      /\ panel'.card = k /\ panel'.open /\ panel'.seeded = k
      /\ form' \in Fields /\ touched' \in SUBSET {"list", "title"}
      /\ list' \in (SUBSET Comments) \cup {Unknown}
      /\ panel.card = k => list' = list
  <2>1. CASE panel.seeded = k
    <3>1. panel' = [panel EXCEPT !.card = k, !.open = TRUE] /\ UNCHANGED <<form, touched, list>>
      BY <2>1 DEF Open
    <3>. QED
      BY <2>1, <3>1 DEF PanelInv, PanelTypeOK, Seeded
  <2>2. CASE panel.seeded # k
    <3>1. /\ panel' = [card |-> k, open |-> TRUE, seeded |-> k, editing |-> FALSE]
          /\ form' = columns[k] /\ touched' = {} /\ list' = Unknown
      BY <2>2 DEF Open
    <3>. QED
      BY <2>2, <3>1 DEF PanelInv, PanelTypeOK, Seeded
  <2>. QED
    BY <2>1, <2>2
<1>3. /\ columns[k] \in Fields /\ {} \in SUBSET {"list", "title"}
      /\ a \in Action /\ a.op = "fetch" /\ a.card = k /\ ~a.served
  <2>1. columns[k] \in Fields
    BY DEF PanelInv, PanelTypeOK
  <2>. QED
    BY <2>1, NewActionType, AnyCommentType DEF PanelInv
<1>. HIDE DEF a
<1>4. pending' \in Seq(Action)
  BY <1>1, <1>3, Queued DEF PanelInv, PanelTypeOK
<1>5. PanelTypeOK' /\ Seeded'
  BY <1>1, <1>2, <1>4, UseType DEF PanelInv, PanelTypeOK, Seeded, Fields
<1>6. CASE panel.card = k
  BY <1>1, <1>2, <1>5, <1>6, QuietKeeps
<1>7. CASE panel.card # k
  BY <1>1, <1>2, <1>3, <1>5, <1>7, PanelAskKeeps
<1>. QED
  BY <1>6, <1>7

\* The user saves, drags, posts or deletes.
LEMMA DispatchKeeps ==
    ASSUME PanelInv, NEW op \in {"save", "move", "post", "remove"}, NEW k \in Cards,
           NEW f \in Fields, NEW t \in SUBSET {"list", "title"}, NEW c \in Comments,
           Dispatch(op, k, f, t, c),
           op \in {"post", "remove"} => k = panel.card /\ ~Under(OnComments),
           UNCHANGED <<task, comments, columns, panel, form, touched, list, spoilt>>
    PROVE  PanelInv'
<1>. DEFINE a == NewAction(op, k, f, t, c)
<1>1. a \in Action /\ a.op = op /\ a.card = k /\ ~a.served
  BY NewActionType DEF PanelInv
<1>2. pending' = Append(pending, a) /\ Use("actions")
  BY DEF Dispatch, Dispatched
<1>. HIDE DEF a
<1>3. PanelTypeOK' /\ Seeded'
  BY <1>1, <1>2, Queued, UseType DEF PanelInv, PanelTypeOK, Seeded
<1>. QED
  BY <1>1, <1>2, <1>3, PanelAskKeeps

LEMMA OpenCard == ASSUME PanelInv, panel.open PROVE panel.card \in Cards
BY DEF PanelInv, PanelTypeOK, Seeded

LEMMA SaveKeeps == ASSUME PanelInv, Save PROVE PanelInv'
<1>1. form \in Fields /\ touched \in SUBSET {"list", "title"}
  BY DEF Save, PanelInv, PanelTypeOK, Seeded
<1>. QED
  BY <1>1, OpenCard, AnyCommentType, DispatchKeeps DEF Save

LEMMA DragKeeps ==
    ASSUME PanelInv, NEW k \in Cards, NEW l \in Columns, Drag(k, l) PROVE PanelInv'
<1>. DEFINE f == [columns[k] EXCEPT !.list = l]
<1>1. f \in Fields /\ {"list"} \in SUBSET {"list", "title"}
  <2>1. columns[k] \in Fields
    BY DEF PanelInv, PanelTypeOK
  <2>. QED
    BY <2>1 DEF Fields
<1>2. /\ Dispatch("move", k, f, {"list"}, AnyComment)
      /\ UNCHANGED <<task, comments, columns, panel, form, touched, list, spoilt>>
  BY DEF Drag
<1>. HIDE DEF f
<1>. QED
  BY <1>1, <1>2, AnyCommentType, DispatchKeeps

LEMMA CommentKeeps ==
    ASSUME PanelInv, NEW c \in Comments, Post(c) \/ DeleteComment(c) PROVE PanelInv'
<1>1. panel.open /\ ~Under(OnComments)
  BY DEF Post, DeleteComment, OnComments
<1>2. panel.card \in Cards /\ columns[panel.card] \in Fields /\ {} \in SUBSET {"list", "title"}
  BY <1>1, OpenCard DEF PanelInv, PanelTypeOK
<1>3. CASE Post(c)
  BY <1>1, <1>2, <1>3, DispatchKeeps DEF Post
<1>4. CASE DeleteComment(c)
  BY <1>1, <1>2, <1>4, DispatchKeeps DEF DeleteComment
<1>. QED
  BY <1>3, <1>4

\* What leaves the queue alone: the drawer and its form, and other users.
LEMMA IdleKeeps ==
    ASSUME PanelInv,
           \/ Close \/ Closed \/ EditDetails \/ Cancel
           \/ \E k \in Cards, f \in Fields : Elsewhere(k, f)
           \/ \E field \in {"list", "title"}, f \in Fields : Change(field, f)
    PROVE  PanelInv'
<1>1. UNCHANGED <<comments, list, pending, spoilt, columns>>
  BY DEF Close, Closed, EditDetails, Cancel, Elsewhere, Change
<1>2. /\ PanelTypeOK' /\ Seeded' /\ panel'.card \in {panel.card, Unknown}
  <2>1. CASE Close
    BY <2>1 DEF Close, PanelInv, PanelTypeOK, Seeded
  <2>2. CASE Closed
    BY <2>2 DEF Closed, PanelInv, PanelTypeOK, Seeded
  <2>3. CASE EditDetails
    BY <2>3 DEF EditDetails, PanelInv, PanelTypeOK, Seeded
  <2>4. CASE Cancel
    <3>1. columns[panel.card] \in Fields /\ form' = columns[panel.card] /\ form' # Unknown
      BY <2>4, OpenCard DEF Cancel, PanelInv, PanelTypeOK, Fields
    <3>. QED
      BY <2>4, <3>1 DEF Cancel, PanelInv, PanelTypeOK, Seeded
  <2>5. ASSUME NEW k \in Cards, NEW f \in Fields, Elsewhere(k, f)
        PROVE  /\ PanelTypeOK' /\ Seeded' /\ panel'.card \in {panel.card, Unknown}
    <3>1. used' \in [actions: 0 .. MaxActions, others: 0 .. MaxOthers, visits: 0 .. MaxVisits,
                      errors: 0 .. MaxErrors]
      BY <2>5, UseType DEF Elsewhere, PanelInv
    <3>. QED
      BY <2>5, <3>1 DEF Elsewhere, PanelInv, PanelTypeOK, Seeded
  <2>6. ASSUME NEW field \in {"list", "title"}, NEW f \in Fields, Change(field, f)
        PROVE  /\ PanelTypeOK' /\ Seeded' /\ panel'.card \in {panel.card, Unknown}
    <3>1. /\ UNCHANGED <<task, comments, columns, panel, list, pending, spoilt, used>>
          /\ form' = f /\ touched' = touched \cup {field} /\ f # Unknown
      BY <2>6 DEF Change, Fields
    <3>. QED
      BY <3>1 DEF PanelInv, PanelTypeOK, Seeded
  <2>. QED
    BY <2>1, <2>2, <2>3, <2>4, <2>5, <2>6
<1>. QED
  BY <1>1, <1>2, QuietKeeps

LEMMA PanelKept == ASSUME PanelInv, [PanelNext]_panelVars PROVE PanelInv'
<1>1. CASE UNCHANGED panelVars
  <2>1. PanelTypeOK' /\ Seeded'
    BY <1>1 DEF panelVars, PanelInv, PanelTypeOK, Seeded
  <2>. QED
    BY <1>1, <2>1, QuietKeeps DEF panelVars
<1>2. CASE PanelNext
  BY <1>2, IdleKeeps, SaveKeeps, PanelAnswerKeeps, ServeKeeps, OpenKeeps, DragKeeps, CommentKeeps
     DEF PanelNext
<1>. QED
  BY <1>1, <1>2

LEMMA PanelAlways == PanelSpec => []PanelInv
BY InitPanel, PanelKept, PTL DEF PanelSpec

-----------------------------------------------------------------------------
(* The theorems.                                                             *)

\* The drawer, its form and the queue of server actions keep their types.
THEOREM PanelTypes == PanelSpec => []PanelTypeOK
<1>1. PanelInv => PanelTypeOK
  BY DEF PanelInv
<1>. QED
  BY <1>1, PanelAlways, PTL

\* However cards are opened and closed and whatever order their answers come in, the
\* drawer ends up with the comments of the card it shows.
THEOREM CommentsBelong == PanelSpec => []CommentsOfTheCard
<1>1. PanelInv => CommentsOfTheCard
  <2>. SUFFICES ASSUME PanelInv, pending = <<>>, panel.card # Unknown, ~spoilt
                PROVE  list = comments[panel.card]
    BY DEF CommentsOfTheCard
  <2>1. ~Under({"fetch"}) /\ Landed(list) = list
    BY DEF Under, Landed
  <2>. QED
    BY <2>1 DEF PanelInv, ListIsCurrent
<1>. QED
  BY <1>1, PanelAlways, PTL

HIDE PanelAssumption DEF PanelAssumption

-----------------------------------------------------------------------------
(* The board.                                                              *)

USE KanbanAssumption DEF KanbanAssumption

-----------------------------------------------------------------------------
(* Orders.                                                                   *)

\* Every row of S once, and nothing else.
OrderOf(q, S) ==
    /\ q \in Seq(S)
    /\ \A i, j \in 1 .. Len(q) : q[i] = q[j] => i = j
    /\ \A x \in S : \E i \in 1 .. Len(q) : q[i] = x

LEMMA SeqOver ==
    ASSUME NEW S, NEW T, NEW s \in Seq(S), \A i \in 1 .. Len(s) : s[i] \in T
    PROVE  s \in Seq(T)
<1>1. Len(s) \in Nat /\ s \in [1 .. Len(s) -> T]
  BY LenProperties
<1>. QED
  BY <1>1, SeqDef

LEMMA UpTo == ASSUME NEW n \in Nat PROVE IsFiniteSet(1 .. n) /\ Cardinality(1 .. n) = n
BY FS_Interval

LEMMA OrderLength ==
    ASSUME NEW S, NEW q, OrderOf(q, S)
    PROVE  IsFiniteSet(S) /\ Cardinality(S) = Len(q) /\ Len(q) \in Nat /\ Range(q) = S
<1>1. q \in [1 .. Len(q) -> S] /\ Len(q) \in Nat
  BY DEF OrderOf
<1>2. q \in Bijection(1 .. Len(q), S)
  BY <1>1 DEF OrderOf, Bijection, Injection, Surjection, IsInjective
<1>3. ExistsBijection(1 .. Len(q), S)
  BY <1>2 DEF ExistsBijection
<1>4. IsFiniteSet(1 .. Len(q)) /\ Cardinality(1 .. Len(q)) = Len(q)
  BY <1>1, UpTo
<1>5. Range(q) = S
  BY <1>1 DEF OrderOf, Range
<1>. QED
  BY <1>1, <1>3, <1>4, <1>5, FS_Bijection

\* Where a row is in an order.
LEMMA RowAt ==
    ASSUME NEW S, NEW q, OrderOf(q, S), NEW x \in S
    PROVE  IndexOf(q, x) \in 1 .. Len(q) /\ q[IndexOf(q, x)] = x
<1>1. DOMAIN q = 1 .. Len(q)
  BY DEF OrderOf
<1>2. \E i \in DOMAIN q : q[i] = x
  BY <1>1 DEF OrderOf
<1>. QED
  BY <1>1, <1>2 DEF IndexOf

LEMMA RowOf ==
    ASSUME NEW S, NEW q, OrderOf(q, S), NEW i \in 1 .. Len(q)
    PROVE  q[i] \in S /\ IndexOf(q, q[i]) = i
<1>1. q[i] \in S
  BY DEF OrderOf
<1>. QED
  BY <1>1, RowAt DEF OrderOf

LEMMA SetToSeqsOrder ==
    ASSUME NEW S, IsFiniteSet(S), NEW q \in SetToSeqs(S)
    PROVE  OrderOf(q, S)
<1>. DEFINE n == Cardinality(S)
<1>1. n \in Nat
  BY FS_CardinalityType
<1>2. q \in [1 .. n -> S] /\ \A i, j \in 1 .. n : i # j => q[i] # q[j]
  BY DEF SetToSeqs
<1>. HIDE DEF n
<1>3. q \in Seq(S) /\ Len(q) = n
  BY <1>1, <1>2
<1>4. q \in Injection(1 .. n, S)
  BY <1>2 DEF Injection, IsInjective
<1>5. q \in Surjection(1 .. n, S)
  BY <1>1, <1>4, FS_Injection, UpTo DEF n
<1>. QED
  BY <1>2, <1>3, <1>5 DEF OrderOf, Surjection

LEMMA RowRemoved ==
    ASSUME NEW S, NEW q \in Seq(S), NEW i \in 1 .. Len(q)
    PROVE  /\ RemoveAt(q, i) \in Seq(S) /\ Len(RemoveAt(q, i)) = Len(q) - 1
           /\ \A k \in 1 .. Len(q) - 1 :
                RemoveAt(q, i)[k] = IF k < i THEN q[k] ELSE q[k + 1]
<1>. DEFINE a == SubSeq(q, 1, i - 1)  b == SubSeq(q, i + 1, Len(q))
<1>1. Len(q) \in Nat /\ \A k \in 1 .. Len(q) : q[k] \in S
  BY LenProperties
<1>2. a \in Seq(S) /\ Len(a) = i - 1 /\ \A k \in 1 .. i - 1 : a[k] = q[k]
  <2>1. /\ a \in Seq(S) /\ Len(a) = IF 1 <= i - 1 THEN i - 1 - 1 + 1 ELSE 0
        /\ \A k \in 1 .. (i - 1) - 1 + 1 : a[k] = q[1 + k - 1]
    BY <1>1, SubSeqProperties
  <2>. HIDE DEF a
  <2>. QED
    BY <1>1, <2>1
<1>3. b \in Seq(S) /\ Len(b) = Len(q) - i /\ \A k \in 1 .. Len(q) - i : b[k] = q[k + i]
  <2>1. /\ b \in Seq(S) /\ Len(b) = IF i + 1 <= Len(q) THEN Len(q) - (i + 1) + 1 ELSE 0
        /\ \A k \in 1 .. Len(q) - (i + 1) + 1 : b[k] = q[i + 1 + k - 1]
    BY <1>1, SubSeqProperties
  <2>. HIDE DEF b
  <2>2. \A k \in 1 .. Len(q) - i : i + 1 + k - 1 = k + i
    OBVIOUS
  <2>. QED
    BY <1>1, <2>1, <2>2
<1>4. RemoveAt(q, i) = a \o b
  BY DEF RemoveAt
<1>. HIDE DEF a, b
<1>5. /\ a \o b \in Seq(S) /\ Len(a \o b) = Len(a) + Len(b)
      /\ \A k \in 1 .. Len(a) + Len(b) : (a \o b)[k] = IF k <= Len(a) THEN a[k] ELSE b[k - Len(a)]
  BY <1>2, <1>3, ConcatProperties
<1>6. ASSUME NEW k \in 1 .. Len(q) - 1
      PROVE  (a \o b)[k] = IF k < i THEN q[k] ELSE q[k + 1]
  <2>1. CASE k < i
    BY <1>1, <1>2, <1>3, <1>5, <2>1
  <2>2. CASE ~(k < i)
    <3>1. k - (i - 1) \in 1 .. Len(q) - i /\ k - (i - 1) + i = k + 1
      BY <1>1, <2>2
    <3>2. (a \o b)[k] = b[k - (i - 1)]
      BY <1>1, <1>2, <1>3, <1>5, <2>2
    <3>3. b[k - (i - 1)] = q[k + 1]
      BY <1>3, <3>1
    <3>. QED
      BY <2>2, <3>2, <3>3
  <2>. QED
    BY <2>1, <2>2
<1>7. Len(a) + Len(b) = Len(q) - 1
  BY <1>1, <1>2, <1>3
<1>. QED
  BY <1>4, <1>5, <1>6, <1>7

LEMMA OrderWithout ==
    ASSUME NEW S, NEW q, OrderOf(q, S), NEW x
    PROVE  OrderOf(Without(q, x), S \ {x})
<1>. DEFINE n == Len(q)  i == IndexOf(q, x)  r == RemoveAt(q, i)
<1>1. Range(q) = S /\ n \in Nat /\ q \in Seq(S) /\ DOMAIN q = 1 .. n
  BY OrderLength DEF OrderOf
<1>2. CASE x \notin S
  <2>1. Without(q, x) = q /\ S \ {x} = S
    BY <1>1, <1>2 DEF Without
  <2>. QED
    BY <2>1
<1>3. CASE x \in S
  <2>1. i \in 1 .. n /\ q[i] = x
    BY <1>3, RowAt
  <2>2. Without(q, x) = r
    BY <1>1, <1>3 DEF Without
  <2>. HIDE DEF i
  <2>5. /\ r \in Seq(S) /\ Len(r) = n - 1
        /\ \A k \in 1 .. n - 1 : r[k] = IF k < i THEN q[k] ELSE q[k + 1]
    BY <1>1, <2>1, RowRemoved
  <2>. HIDE DEF r, n
  <2>6. ASSUME NEW k \in 1 .. n - 1  PROVE r[k] # x
    <3>1. \A j \in 1 .. n : q[j] = x => j = i
      BY <1>1, <2>1 DEF OrderOf, n
    <3>2. n \in Nat
      BY <1>1 DEF n
    <3>3. CASE k < i
      BY <2>1, <2>5, <3>1, <3>2, <3>3
    <3>4. CASE ~(k < i)
      <4>1. k + 1 \in 1 .. n /\ k + 1 # i
        BY <2>1, <3>2, <3>4
      <4>. QED
        BY <2>5, <3>1, <3>4, <4>1
    <3>. QED
      BY <3>3, <3>4
  <2>7. r \in Seq(S \ {x})
    <3>1. \A k \in 1 .. Len(r) : r[k] \in S \ {x}
      BY <2>5, <2>6
    <3>. QED
      BY <2>5, <3>1, SeqOver
  <2>8. \A k, l \in 1 .. n - 1 : r[k] = r[l] => k = l
    <3>1. \A k, l \in 1 .. n : q[k] = q[l] => k = l
      BY DEF OrderOf, n
    <3>2. ASSUME NEW k \in 1 .. n - 1
          PROVE  \E a \in 1 .. n : r[k] = q[a] /\ ((a = k /\ k < i) \/ (a = k + 1 /\ ~(k < i)))
      <4>1. k \in 1 .. n /\ k + 1 \in 1 .. n
        BY <1>1
      <4>2. CASE k < i
        <5>1. r[k] = q[k]
          BY <1>1, <2>1, <2>5, <4>2
        <5>. QED
          BY <4>1, <4>2, <5>1, Zenon
      <4>3. CASE ~(k < i)
        <5>1. r[k] = q[k + 1]
          BY <1>1, <2>1, <2>5, <4>3
        <5>. QED
          BY <4>1, <4>3, <5>1, Zenon
      <4>. QED
        BY <4>2, <4>3
    <3>. SUFFICES ASSUME NEW k \in 1 .. n - 1, NEW l \in 1 .. n - 1, r[k] = r[l]  PROVE k = l
      OBVIOUS
    <3>3. PICK a \in 1 .. n : r[k] = q[a] /\ ((a = k /\ k < i) \/ (a = k + 1 /\ ~(k < i)))
      BY <3>2
    <3>4. PICK b \in 1 .. n : r[l] = q[b] /\ ((b = l /\ l < i) \/ (b = l + 1 /\ ~(l < i)))
      BY <3>2
    <3>5. a = b
      BY <3>1, <3>3, <3>4
    <3>. QED
      BY <1>1, <2>1, <3>3, <3>4, <3>5
  <2>9. ASSUME NEW y \in S \ {x}  PROVE \E k \in 1 .. n - 1 : r[k] = y
    <3>1. PICK j \in 1 .. n : q[j] = y
      BY DEF OrderOf, n
    <3>2. CASE j < i
      <4>1. j \in 1 .. n - 1 /\ r[j] = y
        BY <1>1, <2>1, <2>5, <3>1, <3>2
      <4>. QED
        BY <4>1
    <3>3. CASE j > i
      <4>1. j - 1 \in 1 .. n - 1 /\ r[j - 1] = y
        BY <1>1, <2>1, <2>5, <3>1, <3>3
      <4>. QED
        BY <4>1
    <3>. QED
      BY <1>1, <2>1, <3>1, <3>2, <3>3
  <2>. QED
    BY <2>2, <2>5, <2>7, <2>8, <2>9 DEF OrderOf
<1>. QED
  BY <1>2, <1>3

LEMMA OrderWith ==
    ASSUME NEW S, NEW q, OrderOf(q, S), NEW x, x \notin S, NEW i \in 1 .. Len(q) + 1
    PROVE  OrderOf(InsertAt(q, i, x), S \cup {x})
<1>. DEFINE n == Len(q)  r == InsertAt(q, i, x)
<1>1. n \in Nat /\ q \in Seq(S) /\ DOMAIN q = 1 .. n
  BY DEF OrderOf
<1>2. /\ SubSeq(q, 1, i - 1) \in Seq(S \cup {x}) /\ Len(SubSeq(q, 1, i - 1)) = i - 1
      /\ \A k \in 1 .. i - 1 : SubSeq(q, 1, i - 1)[k] = q[k]
  BY <1>1
<1>3. /\ SubSeq(q, i, n) \in Seq(S \cup {x}) /\ Len(SubSeq(q, i, n)) = n - i + 1
      /\ \A k \in 1 .. n - i + 1 : SubSeq(q, i, n)[k] = q[k + i - 1]
  BY <1>1
<1>4. /\ <<x>> \in Seq(S \cup {x}) /\ Len(<<x>>) = 1 /\ <<x>>[1] = x
  OBVIOUS
<1>5. /\ r \in Seq(S \cup {x}) /\ Len(r) = n + 1
      /\ \A k \in 1 .. n + 1 : r[k] = IF k < i THEN q[k] ELSE IF k = i THEN x ELSE q[k - 1]
  <2>. DEFINE a == SubSeq(q, 1, i - 1)  b == SubSeq(q, i, n)  c == a \o <<x>>
  <2>. HIDE DEF a, b
  <2>1. c \in Seq(S \cup {x}) /\ Len(c) = i /\ \A k \in 1 .. i : c[k] = IF k < i THEN q[k] ELSE x
    BY <1>1, <1>2 DEF a
  <2>2. r = c \o b
    BY DEF InsertAt, a, b
  <2>. HIDE DEF c, r
  <2>. QED
    BY <1>1, <1>3, <2>1, <2>2 DEF b
<1>. HIDE DEF r, n
<1>6. \A k \in 1 .. n : q[k] # x
  BY <1>1
<1>7. \A k, l \in 1 .. n : q[k] = q[l] => k = l
  BY DEF OrderOf, n
<1>8. \A k, l \in 1 .. n + 1 : r[k] = r[l] => k = l
  BY <1>1, <1>5, <1>6, <1>7 DEF n
<1>9. ASSUME NEW y \in S \cup {x}  PROVE \E k \in 1 .. n + 1 : r[k] = y
  <2>1. CASE y = x
    BY <1>1, <1>5, <2>1 DEF n
  <2>2. CASE y \in S
    <3>1. PICK j \in 1 .. n : q[j] = y
      BY <2>2 DEF OrderOf, n
    <3>2. CASE j < i
      BY <1>1, <1>5, <3>1, <3>2
    <3>3. CASE j >= i
      <4>1. j + 1 \in 1 .. n + 1 /\ r[j + 1] = y
        BY <1>1, <1>5, <3>1, <3>3
      <4>. QED
        BY <4>1
    <3>. QED
      BY <1>1, <3>1, <3>2, <3>3
  <2>. QED
    BY <2>1, <2>2
<1>. QED
  BY <1>5, <1>8, <1>9 DEF OrderOf, r

\* A row that is moved within an order, or into it.
LEMMA OrderReinserted ==
    ASSUME NEW S, NEW q, OrderOf(q, S), NEW x, NEW p \in Nat
    PROVE  OrderOf(Reinserted(q, x, p), S \cup {x})
<1>. DEFINE rest == Without(q, x)  at == IF p > Len(rest) THEN Len(rest) ELSE p
<1>1. OrderOf(rest, S \ {x})
  BY OrderWithout
<1>2. Len(rest) \in Nat
  BY <1>1, OrderLength
<1>. HIDE DEF rest
<1>3. at + 1 \in 1 .. Len(rest) + 1
  BY <1>2
<1>4. OrderOf(InsertAt(rest, at + 1, x), (S \ {x}) \cup {x})
  BY <1>1, <1>3, OrderWith
<1>5. (S \ {x}) \cup {x} = S \cup {x}
  OBVIOUS
<1>. QED
  BY <1>4, <1>5 DEF Reinserted, rest

LEMMA OrderOfNothing == OrderOf(<<>>, {})
BY DEF OrderOf

LEMMA OrderOver ==
    ASSUME NEW S, IsFiniteSet(S), NEW T \in SUBSET S, NEW q \in SetToSeqs(T)
    PROVE  OrderOf(q, T) /\ q \in Seq(S)
<1>1. OrderOf(q, T)
  BY FS_Subset, SetToSeqsOrder
<1>2. q \in Seq(T)
  BY <1>1 DEF OrderOf
<1>3. \A i \in 1 .. Len(q) : q[i] \in S
  BY <1>2, LenProperties
<1>. QED
  BY <1>1, <1>2, <1>3, SeqOver

-----------------------------------------------------------------------------
(* The inductive invariant.                                                  *)

\* What an editor may be asking for, and what it will write.
Asked ==
    {Free} \cup [op: {"addList"}, list: Lists, pos: Positions]
    \cup [op: {"deleteList"}, list: Lists]
    \cup [op: {"moveList"}, list: Lists, aim: Nat, write: SUBSET (Lists \X Positions)]
    \cup [op: {"addTask"}, task: Tasks, list: Lists, pos: Positions]
    \cup [op: {"moveTask", "updateTask"}, task: Tasks, list: Lists,
          write: SUBSET (Tasks \X Positions)]
    \cup [op: {"deleteTask"}, task: Tasks, write: SUBSET (Tasks \X Positions)]

\* Nothing is written to a card that is being deleted.
Spares(r) == r.op = "deleteTask" => \A p \in r.write : p[1] # r.task

\* What a request has loaded is still so.
StillSo(r) ==
    /\ r.op = "deleteList" => Deletable(r.list)
    /\ r.op = "moveTask" =>
         /\ card[r.task] # Nowhere
         /\ \E q \in CardOrders(r.list), o \in CardOrders(card[r.task].list), n \in Nat :
              r.write = CardWrites(Reinserted(q, r.task, n))
                          \cup CardWrites(LeftBehind(r.task, r.list, o))
    /\ r.op = "deleteTask" =>
         /\ card[r.task] # Nowhere
         /\ \E o \in CardOrders(card[r.task].list) : r.write = CardWrites(Without(o, r.task))

\* Without overlap one editor's request is under way, and nothing has changed since.
Alone ==
    mode = "serial" =>
        /\ ListsThere # {}
        /\ \A e \in Editors, r \in Asked \ {Free} :
             request[e] = r => StillSo(r) /\ \A f \in Editors : f # e => request[f] = Free

KanbanInv ==
    /\ KanbanTypeOK
    /\ request \in [Editors -> Asked] /\ \A e \in Editors : Spares(request[e])
    /\ Alone

LEMMA Counts ==
    /\ Cardinality(Lists) \in Nat /\ Cardinality(Tasks) \in Nat
    /\ Positions \subseteq Nat /\ Nowhere \notin Positions /\ Nowhere \notin Spot
    /\ \A S \in SUBSET Lists : IsFiniteSet(S) /\ Cardinality(S) \in Positions
    /\ \A S \in SUBSET Tasks : IsFiniteSet(S) /\ Cardinality(S) \in Positions
<1>1. Cardinality(Lists) \in Nat /\ Cardinality(Tasks) \in Nat
  BY FS_CardinalityType
<1>2. Positions \subseteq Nat /\ Nowhere \notin Positions /\ Nowhere \notin Spot
  BY <1>1 DEF Positions, Spot
<1>3. ASSUME NEW S \in SUBSET Lists  PROVE IsFiniteSet(S) /\ Cardinality(S) \in Positions
  <2>1. IsFiniteSet(S) /\ Cardinality(S) <= Cardinality(Lists)
    BY FS_Subset
  <2>2. Cardinality(S) \in Nat
    BY <2>1, FS_CardinalityType
  <2>. QED
    BY <1>1, <2>1, <2>2 DEF Positions
<1>4. ASSUME NEW S \in SUBSET Tasks  PROVE IsFiniteSet(S) /\ Cardinality(S) \in Positions
  <2>1. IsFiniteSet(S) /\ Cardinality(S) <= Cardinality(Tasks)
    BY FS_Subset
  <2>2. Cardinality(S) \in Nat
    BY <2>1, FS_CardinalityType
  <2>. QED
    BY <1>1, <2>1, <2>2 DEF Positions
<1>. QED
  BY <1>1, <1>2, <1>3, <1>4

\* The position of a card in an order of cards.
LEMMA PositionInOrder ==
    ASSUME NEW S, (S \in SUBSET Tasks) \/ (S \in SUBSET Lists), NEW q, OrderOf(q, S)
    PROVE  \A x \in S : IndexOf(q, x) - 1 \in Positions
<1>. SUFFICES ASSUME NEW x \in S  PROVE IndexOf(q, x) - 1 \in Positions
  OBVIOUS
<1>1. IndexOf(q, x) \in 1 .. Len(q)
  BY RowAt
<1>2. Len(q) \in Nat /\ Len(q) \in Positions
  BY OrderLength, Counts
<1>. QED
  BY <1>1, <1>2, Counts DEF Positions

LEMMA WritesType ==
    ASSUME NEW S \in SUBSET Tasks, NEW q, OrderOf(q, S)
    PROVE  CardWrites(q) \in SUBSET (S \X Positions)
<1>1. Range(q) = S
  BY OrderLength
<1>2. \A t \in S : IndexOf(q, t) - 1 \in Positions
  BY PositionInOrder
<1>. QED
  BY <1>1, <1>2 DEF CardWrites

LEMMA OrdersOf ==
    /\ \A q \in ListOrders : OrderOf(q, ListsThere) /\ q \in Seq(Lists)
    /\ \A l \in Lists : \A q \in CardOrders(l) : OrderOf(q, CardsIn(l)) /\ q \in Seq(Tasks)
<1>1. ListsThere \in SUBSET Lists /\ \A l : CardsIn(l) \in SUBSET Tasks
  BY DEF ListsThere, CardsIn
<1>2. ListOrders \subseteq SetToSeqs(ListsThere) /\ \A l : CardOrders(l) \subseteq SetToSeqs(CardsIn(l))
  BY DEF ListOrders, CardOrders, ByPosition
<1>. QED
  BY <1>1, <1>2, OrderOver

LEMMA RendersType == Renders \subseteq Board
<1>. SUFFICES ASSUME NEW q \in ListOrders,
                     NEW g \in [Lists -> UNION {CardOrders(l) : l \in Lists}],
                     \A l \in Lists : g[l] \in CardOrders(l)
              PROVE  [lists |-> q, cards |-> g] \in Board
  BY DEF Renders
<1>1. q \in Seq(Lists) /\ \A l \in Lists : g[l] \in Seq(Tasks)
  BY OrdersOf
<1>2. g \in [Lists -> Seq(Tasks)]
  BY <1>1
<1>. QED
  BY <1>1, <1>2 DEF Board

\* The same after a step.
LEMMA RendersTypeNext == Renders' \subseteq Board
<1>. SUFFICES ASSUME NEW q \in ListOrders',
                     NEW g \in [Lists -> UNION {CardOrders(l)' : l \in Lists}],
                     \A l \in Lists : g[l] \in CardOrders(l)'
              PROVE  [lists |-> q, cards |-> g] \in Board
  BY DEF Renders
<1>1. ListsThere' \in SUBSET Lists /\ \A l : CardsIn(l)' \in SUBSET Tasks
  BY DEF ListsThere, CardsIn
<1>2. ListOrders' \subseteq SetToSeqs(ListsThere') /\ \A l : CardOrders(l)' \subseteq SetToSeqs(CardsIn(l)')
  BY DEF ListOrders, CardOrders, ByPosition
<1>3. q \in Seq(Lists) /\ \A l \in Lists : g[l] \in Seq(Tasks)
  BY <1>1, <1>2, OrderOver
<1>4. g \in [Lists -> Seq(Tasks)]
  BY <1>3
<1>. QED
  BY <1>3, <1>4 DEF Board

-----------------------------------------------------------------------------
(* What an editor asks.                                                      *)

LEMMA InitKanban == KanbanInit => KanbanInv
<1>. SUFFICES ASSUME KanbanInit  PROVE KanbanInv
  OBVIOUS
<1>1. PICK q \in SetToSeqs(Lists), n \in 1 .. Cardinality(Lists) :
         place = [l \in Lists |-> IF IndexOf(q, l) <= n THEN IndexOf(q, l) - 1 ELSE Nowhere]
  BY DEF KanbanInit
<1>2. OrderOf(q, Lists) /\ Cardinality(Lists) \in Nat
  BY SetToSeqsOrder, Counts
<1>3. place \in [Lists -> Positions \cup {Nowhere}]
  BY <1>1, <1>2, PositionInOrder
<1>4. ListsThere # {}
  <2>1. Len(q) = Cardinality(Lists) /\ 1 \in 1 .. Len(q)
    BY <1>2, OrderLength
  <2>2. q[1] \in Lists /\ IndexOf(q, q[1]) = 1
    BY <1>2, <2>1, RowOf
  <2>3. place[q[1]] = 0
    BY <1>1, <1>2, <2>2
  <2>. QED
    BY <2>2, <2>3 DEF ListsThere
<1>5. shown \in [Editors -> Board]
  BY RendersType DEF KanbanInit
<1>6. request = [e \in Editors |-> Free] /\ card = [t \in Tasks |-> Nowhere] /\ changes = 0
      /\ mode \in {"serial", "overlap"}
  BY DEF KanbanInit
<1>7. KanbanTypeOK
  BY <1>3, <1>5, <1>6 DEF KanbanTypeOK, Free
<1>8. Alone
  BY <1>4, <1>6 DEF Alone
<1>. QED
  BY <1>6, <1>7, <1>8 DEF KanbanInv, Asked, Spares, Free

LEMMA SameStillSo ==
    ASSUME NEW r, UNCHANGED <<place, card>>
    PROVE  StillSo(r)' <=> StillSo(r)
<1>1. ListsThere' = ListsThere /\ \A l : CardsIn(l)' = CardsIn(l)
  BY DEF ListsThere, CardsIn
<1>2. \A l : CardOrders(l)' = CardOrders(l)
  BY <1>1 DEF CardOrders, ByPosition
<1>3. \A q : CardWrites(q)' = CardWrites(q)
  BY DEF CardWrites
<1>4. \A t, l, o : LeftBehind(t, l, o)' = LeftBehind(t, l, o)
  BY DEF LeftBehind
<1>. QED
  BY <1>1, <1>2, <1>3, <1>4 DEF StillSo, Deletable

LEMMA OpsAsked ==
    \A r \in Asked : r.op \in {"none", "addList", "deleteList", "moveList", "addTask", "moveTask",
                              "updateTask", "deleteTask"}
BY DEF Asked, Free

\* The lists and cards stay, and a request starts or is given up.
LEMMA RequestKeeps ==
    ASSUME KanbanInv, NEW e \in Editors, NEW r \in Asked, Spares(r), r = Free \/ StillSo(r),
           request' = [request EXCEPT ![e] = r],
           mode = "serial" => \A f \in Editors : f # e => request[f] = Free,
           UNCHANGED <<mode, place, card, shown>>, changes' \in 0 .. MaxChanges
    PROVE  KanbanInv'
<1>1. request' \in [Editors -> Asked] /\ \A f \in Editors : Spares(request'[f])
  BY DEF KanbanInv
<1>2. KanbanTypeOK'
  BY <1>1, OpsAsked DEF KanbanInv, KanbanTypeOK, ListsThere
<1>3. Alone'
  <2>. SUFFICES ASSUME mode = "serial"
                PROVE  /\ ListsThere # {}
                       /\ \A d \in Editors, x \in Asked \ {Free} :
                            request'[d] = x =>
                                StillSo(x)' /\ \A f \in Editors : f # d => request'[f] = Free
    BY DEF Alone, ListsThere
  <2>1. ListsThere # {}
    BY DEF KanbanInv, Alone
  <2>2. ASSUME NEW d \in Editors, NEW x \in Asked \ {Free}, request'[d] = x
        PROVE  StillSo(x)' /\ \A f \in Editors : f # d => request'[f] = Free
    <3>1. d = e
      BY <2>2 DEF KanbanInv
    <3>2. x = r
      BY <2>2, <3>1 DEF KanbanInv
    <3>. QED
      BY <3>1, <3>2, SameStillSo DEF KanbanInv
  <2>. QED
    BY <2>1, <2>2
<1>. QED
  BY <1>1, <1>2, <1>3 DEF KanbanInv

LEMMA BoardAskKeeps ==
    ASSUME KanbanInv, NEW e \in Editors, NEW r \in Asked, Spares(r), StillSo(r), Ask(e, r)
    PROVE  KanbanInv'
<1>1. changes' \in 0 .. MaxChanges
  BY DEF KanbanInv, KanbanTypeOK, Ask, MayAsk
<1>. QED
  BY <1>1, RequestKeeps DEF Ask, MayAsk

LEMMA FailKeeps == ASSUME KanbanInv, NEW e \in Editors, Fail(e) PROVE KanbanInv'
<1>1. /\ request' = [request EXCEPT ![e] = Free] /\ request[e] # Free
      /\ UNCHANGED <<mode, place, card, shown, changes>> /\ changes' \in 0 .. MaxChanges
  BY DEF Fail, KanbanInv, KanbanTypeOK
<1>2. Free \in Asked /\ Spares(Free)
  BY DEF Asked, Spares, Free
<1>3. mode = "serial" => \A f \in Editors : f # e => request[f] = Free
  BY <1>1 DEF KanbanInv, Alone
<1>. QED
  BY <1>1, <1>2, <1>3, RequestKeeps

LEMMA ListAsks ==
    ASSUME KanbanInv, NEW e \in Editors, NEW l \in Lists,
           \/ AddList(e, l) \/ DeleteList(e, l)
           \/ \E onto \in Lists : MoveList(e, l, onto)
    PROVE  KanbanInv'
<1>1. CASE AddList(e, l)
  <2>. DEFINE r == [op |-> "addList", list |-> l, pos |-> Cardinality(ListsThere)]
  <2>1. Cardinality(ListsThere) \in Positions
    BY Counts DEF ListsThere
  <2>2. r \in Asked /\ Spares(r) /\ StillSo(r)
    BY <2>1 DEF Asked, Spares, StillSo
  <2>. QED
    BY <1>1, <2>2, BoardAskKeeps DEF AddList
<1>2. CASE DeleteList(e, l)
  <2>. DEFINE r == [op |-> "deleteList", list |-> l]
  <2>1. r \in Asked /\ Spares(r) /\ StillSo(r)
    BY <1>2 DEF Asked, Spares, StillSo, DeleteList
  <2>. QED
    BY <1>2, <2>1, BoardAskKeeps DEF DeleteList
<1>3. ASSUME NEW onto \in Lists, MoveList(e, l, onto)  PROVE KanbanInv'
  <2>. DEFINE p == IndexOf(shown[e].lists, onto) - 1
  <2>1. PICK q \in ListOrders :
           LET new == Indexed(Reinserted(q, l, p))
           IN Ask(e, [op |-> "moveList", list |-> l, aim |-> p,
                      write |-> {<<x, new[x]>> : x \in {y \in DOMAIN new : new[y] # place[y]}}])
    BY <1>3 DEF MoveList
  <2>2. p \in Nat
    <3>1. shown[e].lists \in Seq(Lists)
      BY DEF KanbanInv, KanbanTypeOK, Board
    <3>2. \E i \in DOMAIN shown[e].lists : shown[e].lists[i] = onto
      BY <1>3 DEF MoveList, Range
    <3>3. IndexOf(shown[e].lists, onto) \in DOMAIN shown[e].lists
      BY <3>2 DEF IndexOf
    <3>. QED
      BY <3>1, <3>3
  <2>. HIDE DEF p
  <2>. DEFINE new == Indexed(Reinserted(q, l, p))
              w == {<<x, new[x]>> : x \in {y \in DOMAIN new : new[y] # place[y]}}
              r == [op |-> "moveList", list |-> l, aim |-> p, write |-> w]
  <2>3. OrderOf(Reinserted(q, l, p), ListsThere \cup {l}) /\ ListsThere \cup {l} \in SUBSET Lists
    BY <2>2, OrdersOf, OrderReinserted DEF ListsThere
  <2>4. DOMAIN new \in SUBSET Lists /\ \A x \in DOMAIN new : new[x] \in Positions
    BY <2>3, OrderLength, PositionInOrder DEF Indexed
  <2>. HIDE DEF new
  <2>5. w \in SUBSET (Lists \X Positions)
    BY <2>4
  <2>6. Ask(e, r)
    BY <2>1 DEF new
  <2>. HIDE DEF w
  <2>7. r \in Asked /\ Spares(r) /\ StillSo(r)
    BY <2>2, <2>5 DEF Asked, Spares, StillSo
  <2>. QED
    BY <2>6, <2>7, BoardAskKeeps
<1>. QED
  BY <1>1, <1>2, <1>3

\* The cards a moved card leaves behind, in order.
LEMMA LeftInOrder ==
    ASSUME KanbanTypeOK, NEW t \in Tasks, card[t] # Nowhere, NEW l \in Lists,
           NEW o \in CardOrders(card[t].list)
    PROVE  OrderOf(LeftBehind(t, l, o),
                   IF card[t].list = l THEN {} ELSE CardsIn(card[t].list) \ {t})
<1>1. card[t].list \in Lists
  BY Counts DEF KanbanTypeOK, Spot
<1>2. OrderOf(o, CardsIn(card[t].list))
  BY <1>1, OrdersOf
<1>. QED
  BY <1>2, OrderWithout, OrderOfNothing DEF LeftBehind

LEMMA TaskAsks ==
    ASSUME KanbanInv, NEW e \in Editors, NEW t \in Tasks,
           \/ DeleteTask(e, t)
           \/ \E l \in Lists : AddTask(e, t, l) \/ MoveTask(e, t, l) \/ UpdateTask(e, t, l)
    PROVE  KanbanInv'
<1>0. \A l \in Lists : CardsIn(l) \in SUBSET Tasks /\ Cardinality(CardsIn(l)) \in Positions
  BY Counts DEF CardsIn
<1>1. ASSUME NEW l \in Lists, AddTask(e, t, l)  PROVE KanbanInv'
  <2>. DEFINE r == [op |-> "addTask", task |-> t, list |-> l, pos |-> Cardinality(CardsIn(l))]
  <2>1. r \in Asked /\ Spares(r) /\ StillSo(r)
    BY <1>0 DEF Asked, Spares, StillSo
  <2>. QED
    BY <1>1, <2>1, BoardAskKeeps DEF AddTask
<1>2. ASSUME NEW l \in Lists, UpdateTask(e, t, l)  PROVE KanbanInv'
  <2>. DEFINE r == [op |-> "updateTask", task |-> t, list |-> l,
                    write |-> {<<t, Cardinality(CardsIn(l))>>}]
  <2>1. r \in Asked /\ Spares(r) /\ StillSo(r)
    BY <1>0 DEF Asked, Spares, StillSo
  <2>. QED
    BY <1>2, <2>1, BoardAskKeeps DEF UpdateTask
<1>3. ASSUME NEW l \in Lists, MoveTask(e, t, l)  PROVE KanbanInv'
  <2>. DEFINE n == Len(shown[e].cards[l])
  <2>1. card[t] # Nowhere /\ card[t].list \in Lists /\ t \in CardsIn(card[t].list)
    BY <1>3, Counts DEF MoveTask, KanbanInv, KanbanTypeOK, Spot, CardsIn
  <2>2. n \in Nat
    BY DEF KanbanInv, KanbanTypeOK, Board
  <2>3. PICK q \in CardOrders(l), o \in CardOrders(card[t].list) :
           Ask(e, [op |-> "moveTask", task |-> t, list |-> l,
                   write |-> CardWrites(Reinserted(q, t, n)) \cup CardWrites(LeftBehind(t, l, o))])
    BY <1>3 DEF MoveTask
  <2>. HIDE DEF n
  <2>. DEFINE w == CardWrites(Reinserted(q, t, n)) \cup CardWrites(LeftBehind(t, l, o))
              r == [op |-> "moveTask", task |-> t, list |-> l, write |-> w]
  <2>4. CardWrites(Reinserted(q, t, n)) \in SUBSET (Tasks \X Positions)
    <3>1. OrderOf(Reinserted(q, t, n), CardsIn(l) \cup {t})
      BY <2>2, OrdersOf, OrderReinserted
    <3>2. CardsIn(l) \cup {t} \in SUBSET Tasks
      BY <1>0
    <3>3. CardWrites(Reinserted(q, t, n)) \in SUBSET ((CardsIn(l) \cup {t}) \X Positions)
      BY <3>1, <3>2, WritesType
    <3>. QED
      BY <3>2, <3>3
  <2>5. CardWrites(LeftBehind(t, l, o)) \in SUBSET (Tasks \X Positions)
    <3>. DEFINE S == IF card[t].list = l THEN {} ELSE CardsIn(card[t].list) \ {t}
    <3>1. OrderOf(LeftBehind(t, l, o), S)
      BY <2>1, LeftInOrder DEF KanbanInv
    <3>2. S \in SUBSET Tasks
      BY <1>0, <2>1
    <3>. HIDE DEF S
    <3>3. CardWrites(LeftBehind(t, l, o)) \in SUBSET (S \X Positions)
      BY <3>1, <3>2, WritesType
    <3>. QED
      BY <3>2, <3>3
  <2>6. StillSo(r)
    <3>1. r.op = "moveTask" /\ r.task = t /\ r.list = l /\ r.write = w
      OBVIOUS
    <3>. HIDE DEF r
    <3>. QED
      BY <2>1, <2>2, <3>1 DEF StillSo
  <2>7. Ask(e, r)
    BY <2>3
  <2>8. w \in SUBSET (Tasks \X Positions)
    BY <2>4, <2>5
  <2>. HIDE DEF w
  <2>9. r \in Asked /\ Spares(r)
    BY <2>8 DEF Asked, Spares
  <2>. QED
    BY <2>6, <2>7, <2>9, BoardAskKeeps
<1>4. ASSUME DeleteTask(e, t)  PROVE KanbanInv'
  <2>1. card[t] # Nowhere /\ card[t].list \in Lists /\ t \in CardsIn(card[t].list)
    BY <1>4, Counts DEF DeleteTask, KanbanInv, KanbanTypeOK, Spot, CardsIn
  <2>2. PICK o \in CardOrders(card[t].list) :
           Ask(e, [op |-> "deleteTask", task |-> t, write |-> CardWrites(Without(o, t))])
    BY <1>4 DEF DeleteTask
  <2>. DEFINE w == CardWrites(Without(o, t))
              r == [op |-> "deleteTask", task |-> t, write |-> w]
  <2>3. OrderOf(Without(o, t), CardsIn(card[t].list) \ {t})
    BY <2>1, OrdersOf, OrderWithout
  <2>4. w \in SUBSET ((CardsIn(card[t].list) \ {t}) \X Positions)
    <3>1. CardsIn(card[t].list) \ {t} \in SUBSET Tasks
      BY <1>0, <2>1
    <3>. QED
      BY <2>3, <3>1, WritesType
  <2>5. StillSo(r)
    <3>1. r.op = "deleteTask" /\ r.task = t /\ r.write = w
      OBVIOUS
    <3>. HIDE DEF r
    <3>. QED
      BY <2>1, <3>1 DEF StillSo
  <2>6. Ask(e, r)
    BY <2>2
  <2>. HIDE DEF w
  <2>7. r \in Asked
    BY <1>0, <2>1, <2>4 DEF Asked
  <2>8. Spares(r)
    BY <2>4 DEF Spares
  <2>. QED
    BY <2>5, <2>6, <2>7, <2>8, BoardAskKeeps
<1>. QED
  BY <1>1, <1>2, <1>3, <1>4

-----------------------------------------------------------------------------
(* What a request commits.                                                   *)

Cell == Spot \cup {Nowhere}

\* Writing positions to cards that are there leaves them there, in their lists.
LEMMA RewrittenCard ==
    ASSUME NEW f \in [Tasks -> Cell], NEW w \in SUBSET (Tasks \X Positions),
           \A p \in w : f[p[1]] # Nowhere, NEW t \in Tasks
    PROVE  /\ Rewritten(f, w)[t] \in Cell
           /\ Rewritten(f, w)[t] = Nowhere <=> f[t] = Nowhere
           /\ f[t] # Nowhere => Rewritten(f, w)[t].list = f[t].list
           /\ (\E p \in w : p[1] = t) =>
                Rewritten(f, w)[t].pos = (CHOOSE p \in w : p[1] = t)[2]
           /\ ~(\E p \in w : p[1] = t) => Rewritten(f, w)[t] = f[t]
<1>. DEFINE g == Rewritten(f, w)
<1>1. CASE \E p \in w : p[1] = t
  <2>. DEFINE p == CHOOSE p \in w : p[1] = t
  <2>1. p \in w /\ p[1] = t
    BY <1>1
  <2>2. g[t] = [f[t] EXCEPT !.pos = p[2]]
    BY <1>1 DEF Rewritten
  <2>. HIDE DEF p, g
  <2>3. p[2] \in Positions
    BY <2>1
  <2>4. f[t] \in Spot
    BY <2>1 DEF Cell
  <2>5. g[t] \in Spot /\ g[t].list = f[t].list /\ g[t].pos = p[2]
    BY <2>2, <2>3, <2>4 DEF Spot
  <2>6. g[t] # Nowhere /\ f[t] # Nowhere
    BY <2>4, <2>5, Counts
  <2>. QED
    BY <1>1, <2>5, <2>6 DEF Cell, p, g
<1>2. CASE ~ \E p \in w : p[1] = t
  <2>1. g[t] = f[t]
    BY <1>2 DEF Rewritten
  <2>. QED
    BY <1>2, <2>1
<1>. QED
  BY <1>1, <1>2

LEMMA RewrittenType ==
    ASSUME NEW f \in [Tasks -> Cell], NEW w \in SUBSET (Tasks \X Positions),
           \A p \in w : f[p[1]] # Nowhere, NEW g, g = Rewritten(f, w)
    PROVE  /\ g \in [Tasks -> Cell]
           /\ \A t \in Tasks : g[t] = Nowhere <=> f[t] = Nowhere
           /\ \A t \in Tasks : f[t] # Nowhere => g[t].list = f[t].list
<1>1. ASSUME NEW t \in Tasks
      PROVE  g[t] \in Cell /\ (g[t] = Nowhere <=> f[t] = Nowhere)
             /\ (f[t] # Nowhere => g[t].list = f[t].list)
  BY RewrittenCard
<1>2. g \in [Tasks -> Cell]
  BY <1>1 DEF Rewritten
<1>. QED
  BY <1>1, <1>2

\* What a commit makes of the lists and the cards.
CommitShape(r) ==
    /\ place' \in [Lists -> Positions \cup {Nowhere}] /\ card' \in [Tasks -> Cell]
    /\ IF r.op = "deleteList" THEN ListsThere' = ListsThere \ {r.list} ELSE ListsThere \subseteq ListsThere'
    /\ \A t \in Tasks : card'[t] # Nowhere => card'[t].list \in ListsThere'
    /\ \A t \in Tasks : card[t] # Nowhere /\ card'[t] = Nowhere =>
         \/ r.op = "deleteList" /\ t \in CardsIn(r.list)
         \/ r.op = "deleteTask" /\ t = r.task

LEMMA ListsCommitted ==
    ASSUME KanbanTypeOK, NEW r \in Asked, r.op \in {"addList", "deleteList", "moveList"},
           RowsThere(r), Written(r)
    PROVE  CommitShape(r)
<1>1. card \in [Tasks -> Cell] /\ place \in [Lists -> Positions \cup {Nowhere}]
      /\ \A t \in Tasks : card[t] # Nowhere => card[t].list \in ListsThere
  BY DEF KanbanTypeOK, Cell
<1>2. CASE r.op = "addList"
  <2>1. r.list \in Lists /\ r.pos \in Positions /\ r.pos # Nowhere
    BY <1>2, Counts DEF Asked, Free
  <2>2. place' = [place EXCEPT ![r.list] = r.pos] /\ card' = card
    BY <1>2 DEF Written
  <2>3. place' \in [Lists -> Positions \cup {Nowhere}] /\ ListsThere \subseteq ListsThere'
    BY <1>1, <2>1, <2>2 DEF ListsThere
  <2>. QED
    BY <1>1, <1>2, <2>2, <2>3 DEF CommitShape
<1>3. CASE r.op = "deleteList"
  <2>1. r.list \in Lists
    BY <1>3 DEF Asked, Free
  <2>2. place' = [place EXCEPT ![r.list] = Nowhere] /\ card' = Cascaded(r.list)
    BY <1>3 DEF Written
  <2>3. place' \in [Lists -> Positions \cup {Nowhere}] /\ ListsThere' = ListsThere \ {r.list}
    BY <1>1, <2>1, <2>2 DEF ListsThere
  <2>4. \A t \in Tasks : card'[t] = IF t \in CardsIn(r.list) THEN Nowhere ELSE card[t]
    BY <2>2 DEF Cascaded
  <2>5. card' \in [Tasks -> Cell]
    BY <1>1, <2>2 DEF Cascaded, Cell
  <2>6. \A t \in Tasks : card'[t] # Nowhere => card'[t].list \in ListsThere'
    BY <1>1, <2>3, <2>4 DEF CardsIn
  <2>7. \A t \in Tasks : card[t] # Nowhere /\ card'[t] = Nowhere => t \in CardsIn(r.list)
    BY <2>4
  <2>. QED
    BY <1>3, <2>3, <2>5, <2>6, <2>7 DEF CommitShape
<1>4. CASE r.op = "moveList"
  <2>1. r.write \in SUBSET (Lists \X Positions)
    BY <1>4 DEF Asked, Free
  <2>2. place' = [l \in Lists |-> IF \E p \in r.write : p[1] = l
                                  THEN (CHOOSE p \in r.write : p[1] = l)[2] ELSE place[l]]
        /\ card' = card
    BY <1>4 DEF Written
  <2>3. \A p \in r.write : p[1] \in ListsThere
    BY <1>4 DEF RowsThere
  <2>4. ASSUME NEW l \in Lists
        PROVE  place'[l] \in Positions \cup {Nowhere} /\ (place[l] # Nowhere => place'[l] # Nowhere)
    <3>1. CASE \E p \in r.write : p[1] = l
      <4>. DEFINE p == CHOOSE p \in r.write : p[1] = l
      <4>1. p \in r.write
        BY <3>1
      <4>2. place'[l] = p[2]
        BY <2>2, <3>1
      <4>. HIDE DEF p
      <4>. QED
        BY <2>1, <4>1, <4>2, Counts
    <3>2. CASE ~ \E p \in r.write : p[1] = l
      <4>1. place'[l] = place[l]
        BY <2>2, <3>2
      <4>. QED
        BY <1>1, <4>1
    <3>. QED
      BY <3>1, <3>2
  <2>5. place' \in [Lists -> Positions \cup {Nowhere}]
    BY <2>2, <2>4
  <2>6. ListsThere \subseteq ListsThere'
    BY <2>4 DEF ListsThere
  <2>. QED
    BY <1>1, <1>4, <2>2, <2>5, <2>6 DEF CommitShape
<1>. QED
  BY <1>2, <1>3, <1>4

LEMMA TasksCommitted ==
    ASSUME KanbanTypeOK, NEW r \in Asked, Spares(r),
           r.op \in {"addTask", "moveTask", "updateTask", "deleteTask"}, RowsThere(r), Written(r)
    PROVE  CommitShape(r)
<1>1. card \in [Tasks -> Cell] /\ place' = place /\ ListsThere' = ListsThere
      /\ place \in [Lists -> Positions \cup {Nowhere}]
      /\ \A t \in Tasks : card[t] # Nowhere => card[t].list \in ListsThere
  BY DEF KanbanTypeOK, Cell, Written, ListsThere
<1>2. CASE r.op = "addTask"
  <2>1. r.task \in Tasks /\ r.list \in Lists /\ r.pos \in Positions
    BY <1>2 DEF Asked, Free
  <2>. DEFINE v == [list |-> r.list, pos |-> r.pos]
  <2>2. card' = [card EXCEPT ![r.task] = v]
    BY <1>2 DEF Written
  <2>3. v \in Spot /\ v.list \in ListsThere /\ v # Nowhere
    BY <1>2, <2>1, Counts DEF Spot, RowsThere
  <2>. HIDE DEF v
  <2>4. card' \in [Tasks -> Cell]
    BY <1>1, <2>1, <2>2, <2>3 DEF Cell
  <2>5. \A t \in Tasks : card'[t] = IF t = r.task THEN v ELSE card[t]
    BY <1>1, <2>2
  <2>. QED
    BY <1>1, <1>2, <2>3, <2>4, <2>5 DEF CommitShape
<1>3. CASE r.op \in {"moveTask", "updateTask"}
  <2>. DEFINE f == [card EXCEPT ![r.task].list = r.list]
  <2>1. r.task \in Tasks /\ r.list \in Lists /\ r.write \in SUBSET (Tasks \X Positions)
    BY <1>3 DEF Asked, Free
  <2>2. card' = Rewritten(f, r.write)
    BY <1>3 DEF Written
  <2>3. card[r.task] \in Spot /\ r.list \in ListsThere
        /\ \A p \in r.write : card[p[1]] # Nowhere
    BY <1>1, <1>3, <2>1 DEF RowsThere, Cell
  <2>4. [card[r.task] EXCEPT !.list = r.list] \in Spot
        /\ [card[r.task] EXCEPT !.list = r.list].list = r.list
    BY <2>1, <2>3 DEF Spot
  <2>5. \A t \in Tasks : f[t] = IF t = r.task THEN [card[r.task] EXCEPT !.list = r.list] ELSE card[t]
    BY <1>1, <2>1
  <2>6. f \in [Tasks -> Cell]
    <3>1. \A t \in Tasks : f[t] \in Cell
      BY <1>1, <2>4, <2>5 DEF Cell
    <3>. QED
      BY <1>1, <3>1
  <2>. HIDE DEF f
  <2>7. \A t \in Tasks : (f[t] = Nowhere <=> card[t] = Nowhere) /\ (f[t] # Nowhere => f[t].list \in ListsThere)
    BY <1>1, <2>3, <2>4, <2>5, Counts
  <2>8. \A p \in r.write : f[p[1]] # Nowhere
    BY <2>1, <2>3, <2>7
  <2>9. /\ card' \in [Tasks -> Cell]
        /\ \A t \in Tasks : (card'[t] = Nowhere <=> f[t] = Nowhere)
                            /\ (f[t] # Nowhere => card'[t].list = f[t].list)
    <3>. DEFINE w == r.write  g == Rewritten(f, w)
    <3>1. w \in SUBSET (Tasks \X Positions) /\ (\A p \in w : f[p[1]] # Nowhere) /\ card' = g
      BY <2>1, <2>2, <2>8
    <3>. HIDE DEF w
    <3>2. /\ g \in [Tasks -> Cell]
          /\ \A t \in Tasks : g[t] = Nowhere <=> f[t] = Nowhere
          /\ \A t \in Tasks : f[t] # Nowhere => g[t].list = f[t].list
      BY <3>1, <2>6, RewrittenType
    <3>. HIDE DEF g
    <3>. QED
      BY <3>1, <3>2
  <2>. QED
    BY <1>1, <1>3, <2>7, <2>9 DEF CommitShape
<1>4. CASE r.op = "deleteTask"
  <2>. DEFINE f == [card EXCEPT ![r.task] = Nowhere]
  <2>1. r.task \in Tasks /\ r.write \in SUBSET (Tasks \X Positions)
    BY <1>4 DEF Asked, Free
  <2>2. card' = Rewritten(f, r.write)
    BY <1>4 DEF Written
  <2>3. \A p \in r.write : card[p[1]] # Nowhere /\ p[1] # r.task
    BY <1>4 DEF RowsThere, Spares
  <2>4. \A t \in Tasks : f[t] = IF t = r.task THEN Nowhere ELSE card[t]
    BY <1>1
  <2>5. f \in [Tasks -> Cell]
    BY <1>1 DEF Cell
  <2>. HIDE DEF f
  <2>6. \A p \in r.write : f[p[1]] # Nowhere
    BY <2>1, <2>3, <2>4
  <2>7. /\ card' \in [Tasks -> Cell]
        /\ \A t \in Tasks : (card'[t] = Nowhere <=> f[t] = Nowhere)
                            /\ (f[t] # Nowhere => card'[t].list = f[t].list)
    <3>. DEFINE w == r.write  g == Rewritten(f, w)
    <3>1. w \in SUBSET (Tasks \X Positions) /\ (\A p \in w : f[p[1]] # Nowhere) /\ card' = g
      BY <2>1, <2>2, <2>6
    <3>. HIDE DEF w
    <3>2. /\ g \in [Tasks -> Cell]
          /\ \A t \in Tasks : g[t] = Nowhere <=> f[t] = Nowhere
          /\ \A t \in Tasks : f[t] # Nowhere => g[t].list = f[t].list
      BY <3>1, <2>5, RewrittenType
    <3>. HIDE DEF g
    <3>. QED
      BY <3>1, <3>2
  <2>. QED
    BY <1>1, <1>4, <2>4, <2>7 DEF CommitShape
<1>. QED
  BY <1>2, <1>3, <1>4

LEMMA Committing ==
    ASSUME KanbanInv, NEW e \in Editors, Commit(e)
    PROVE  CommitShape(request[e])
<1>1. request[e] \in Asked /\ Spares(request[e]) /\ request[e] # Free /\ KanbanTypeOK
      /\ RowsThere(request[e]) /\ Written(request[e])
  BY DEF KanbanInv, Commit
<1>2. request[e].op \in {"addList", "deleteList", "moveList", "addTask", "moveTask", "updateTask",
                        "deleteTask"}
  BY <1>1 DEF Asked
<1>. QED
  BY <1>1, <1>2, ListsCommitted, TasksCommitted

\* Without overlap the last list stays.
LEMMA AListStays ==
    ASSUME KanbanInv, mode = "serial", NEW e \in Editors, Commit(e)
    PROVE  ListsThere' # {} /\ (request[e].op = "deleteList" => CardsIn(request[e].list) = {})
<1>1. CommitShape(request[e])
  BY Committing
<1>2. request[e] \in Asked \ {Free} /\ StillSo(request[e]) /\ ListsThere # {}
  BY DEF KanbanInv, Alone, Commit
<1>3. CASE request[e].op # "deleteList"
  BY <1>1, <1>2, <1>3 DEF CommitShape
<1>4. CASE request[e].op = "deleteList"
  <2>1. Deletable(request[e].list) /\ ListsThere' = ListsThere \ {request[e].list}
    BY <1>1, <1>2, <1>4 DEF CommitShape, StillSo
  <2>2. ASSUME ListsThere \ {request[e].list} = {}  PROVE FALSE
    <3>1. ListsThere = {request[e].list}
      BY <1>2, <2>2
    <3>2. Cardinality(ListsThere) = 1
      BY <3>1, FS_Singleton
    <3>. QED
      BY <2>1, <3>2 DEF Deletable
  <2>. QED
    BY <2>1, <2>2 DEF Deletable
<1>. QED
  BY <1>3, <1>4

LEMMA CommitKeeps == ASSUME KanbanInv, NEW e \in Editors, Commit(e) PROVE KanbanInv'
<1>1. CommitShape(request[e])
  BY Committing
<1>2. /\ request[e] # Free /\ request' = [request EXCEPT ![e] = Free]
      /\ UNCHANGED <<mode, changes>> /\ shown' \in {[shown EXCEPT ![e] = b] : b \in Renders'}
  BY DEF Commit
<1>3. shown' \in [Editors -> Board]
  <2>1. PICK b \in Renders' : shown' = [shown EXCEPT ![e] = b]
    BY <1>2
  <2>2. b \in Board
    BY <2>1, RendersTypeNext
  <2>. QED
    BY <2>1, <2>2 DEF KanbanInv, KanbanTypeOK
<1>4. request' \in [Editors -> Asked] /\ \A f \in Editors : Spares(request'[f])
  <2>1. Free \in Asked /\ Spares(Free)
    BY DEF Asked, Spares, Free
  <2>. QED
    BY <1>2, <2>1 DEF KanbanInv
<1>5. KanbanTypeOK'
  BY <1>1, <1>2, <1>3, <1>4, OpsAsked DEF KanbanInv, KanbanTypeOK, CommitShape, Cell
<1>6. Alone'
  <2>1. SUFFICES ASSUME mode = "serial"
                 PROVE  ListsThere' # {} /\ \A d \in Editors : request'[d] = Free
    BY <1>2 DEF Alone
  <2>2. request[e] \in Asked \ {Free}
    BY <1>2 DEF KanbanInv
  <2>3. \A f \in Editors : f # e => request[f] = Free
    BY <2>1, <2>2 DEF KanbanInv, Alone
  <2>4. \A d \in Editors : request'[d] = Free
    BY <1>2, <2>3 DEF KanbanInv
  <2>. QED
    BY <2>1, <2>4, AListStays
<1>. QED
  BY <1>4, <1>5, <1>6 DEF KanbanInv

LEMMA KanbanKept == KanbanInv /\ [KanbanNext]_kanbanVars => KanbanInv'
<1>. SUFFICES ASSUME KanbanInv, [KanbanNext]_kanbanVars  PROVE KanbanInv'
  OBVIOUS
<1>1. CASE UNCHANGED kanbanVars
  <2>1. ListsThere' = ListsThere /\ Renders' \subseteq Board
    BY <1>1, RendersTypeNext DEF kanbanVars, ListsThere
  <2>2. KanbanTypeOK'
    BY <1>1 DEF kanbanVars, KanbanInv, KanbanTypeOK, ListsThere
  <2>3. \A r : StillSo(r)' <=> StillSo(r)
    BY <1>1, SameStillSo DEF kanbanVars
  <2>4. Alone'
    BY <1>1, <2>1, <2>3 DEF kanbanVars, KanbanInv, Alone
  <2>. QED
    BY <1>1, <2>2, <2>4 DEF kanbanVars, KanbanInv
<1>2. CASE KanbanNext
  BY <1>2, CommitKeeps, FailKeeps, ListAsks, TaskAsks DEF KanbanNext
<1>. QED
  BY <1>1, <1>2

LEMMA KanbanAlways == KanbanSpec => []KanbanInv
<1>. QED
  BY InitKanban, KanbanKept, PTL DEF KanbanSpec

-----------------------------------------------------------------------------
(* The theorems.                                                             *)

\* Lists and cards keep their types whatever overlaps, and a card is always in a list
\* that is there: a list takes its cards along when it goes.
THEOREM KanbanTypes == KanbanSpec => []KanbanTypeOK
<1>1. KanbanInv => KanbanTypeOK
  BY DEF KanbanInv
<1>. QED
  BY <1>1, KanbanAlways, PTL

LEMMA OnlyCommits ==
    ASSUME KanbanInv, [KanbanNext]_kanbanVars, <<place, card>>' # <<place, card>>
    PROVE  \E e \in Editors : Commit(e)
BY DEF KanbanNext, kanbanVars, Fail, AddList, DeleteList, MoveList, AddTask, MoveTask,
       UpdateTask, DeleteTask, Ask

\* Without overlap a card disappears only when somebody deletes it, and a list stays.
THEOREM CardsAreKept == KanbanSpec => CardsKept
<1>1. ASSUME KanbanInv, [KanbanNext]_kanbanVars, mode = "serial"
      PROVE  /\ ListsThere' # {}
             /\ \A t \in Tasks : card[t] # Nowhere /\ card'[t] = Nowhere =>
                  \E e \in Editors : Committed(e, "deleteTask") /\ request[e].task = t
  <2>1. CASE <<place, card>>' = <<place, card>>
    <3>1. ListsThere' = ListsThere /\ ListsThere # {}
      BY <1>1, <2>1 DEF ListsThere, KanbanInv, Alone
    <3>. QED
      BY <2>1, <3>1
  <2>2. CASE <<place, card>>' # <<place, card>>
    <3>1. PICK e \in Editors : Commit(e)
      BY <1>1, <2>2, OnlyCommits
    <3>2. ListsThere' # {} /\ (request[e].op = "deleteList" => CardsIn(request[e].list) = {})
      BY <1>1, <3>1, AListStays
    <3>3. CommitShape(request[e])
      BY <1>1, <3>1, Committing
    <3>4. ASSUME NEW t \in Tasks, card[t] # Nowhere, card'[t] = Nowhere
          PROVE  request[e].op = "deleteTask" /\ request[e].task = t
      BY <3>2, <3>3, <3>4 DEF CommitShape
    <3>5. request'[e] = Free
      BY <1>1, <3>1 DEF Commit, KanbanInv
    <3>. QED
      BY <2>2, <3>2, <3>4, <3>5 DEF Committed
  <2>. QED
    BY <2>1, <2>2
<1>. QED
  BY <1>1, KanbanAlways, PTL DEF KanbanSpec, CardsKept

\* The cards of an order that is written have their index in it.
LEMMA IndexWritten ==
    ASSUME NEW f \in [Tasks -> Cell], NEW w \in SUBSET (Tasks \X Positions),
           \A p \in w : f[p[1]] # Nowhere, NEW g, g = Rewritten(f, w),
           NEW S \in SUBSET Tasks, NEW s, OrderOf(s, S), CardWrites(s) \subseteq w,
           \A p \in w : p[1] \in S => p \in CardWrites(s),
           \A x \in S : f[x].pos = card[x].pos
    PROVE  \A x \in S : g[x].pos = IndexOf(s, x) - 1
<1>. SUFFICES ASSUME NEW x \in S  PROVE g[x].pos = IndexOf(s, x) - 1
  OBVIOUS
<1>1. Range(s) = S
  BY OrderLength
<1>2. CASE \E p \in w : p[1] = x
  <2>. DEFINE p == CHOOSE p \in w : p[1] = x
  <2>1. p \in w /\ p[1] = x
    BY <1>2
  <2>2. g[x].pos = p[2]
    BY <1>2, RewrittenCard
  <2>. HIDE DEF p
  <2>3. p \in CardWrites(s)
    BY <2>1
  <2>4. p[2] = IndexOf(s, p[1]) - 1
    BY <2>3 DEF CardWrites
  <2>. QED
    BY <2>1, <2>2, <2>4
<1>3. CASE ~ \E p \in w : p[1] = x
  <2>1. g[x] = f[x]
    BY <1>3, RewrittenCard
  <2>2. <<x, IndexOf(s, x) - 1>> \notin CardWrites(s)
    BY <1>3
  <2>3. card[x].pos = IndexOf(s, x) - 1
    BY <1>1, <2>2 DEF CardWrites
  <2>. QED
    BY <2>1, <2>3
<1>. QED
  BY <1>2, <1>3

LEMMA InOrderContiguous ==
    ASSUME NEW g, NEW l, NEW S, NEW s, OrderOf(s, S),
           {x \in Tasks : g[x] # Nowhere /\ g[x].list = l} = S,
           \A x \in S : g[x].pos = IndexOf(s, x) - 1
    PROVE  Contiguous(g, l)
<1>1. Cardinality(S) = Len(s) /\ Len(s) \in Nat
  BY OrderLength
<1>2. ASSUME NEW x \in S  PROVE g[x].pos \in 0 .. Len(s) - 1
  <2>1. IndexOf(s, x) \in 1 .. Len(s)
    BY RowAt
  <2>. QED
    BY <1>1, <2>1
<1>3. ASSUME NEW k \in 0 .. Len(s) - 1  PROVE \E x \in S : g[x].pos = k
  <2>1. k + 1 \in 1 .. Len(s)
    BY <1>1
  <2>2. s[k + 1] \in S /\ IndexOf(s, s[k + 1]) = k + 1
    BY <2>1, RowOf
  <2>. QED
    BY <2>2
<1>4. {g[x].pos : x \in S} = 0 .. Cardinality(S) - 1
  BY <1>1, <1>2, <1>3
<1>. QED
  BY <1>4 DEF Contiguous

\* Without overlap, after a card was moved.
LEMMA MovedContiguous ==
    ASSUME KanbanInv, mode = "serial", NEW e \in Editors, Commit(e),
           request[e].op = "moveTask",
           NEW l, l = card[request[e].task].list \/ l = request[e].list
    PROVE  Contiguous(card', l) /\ card'[request[e].task].list = request[e].list
<1>. DEFINE r == request[e]  t == r.task  to == r.list  from == card[t].list  w == r.write
            f == [card EXCEPT ![t].list = to]
<1>1. r \in Asked \ {Free} /\ StillSo(r) /\ RowsThere(r) /\ Written(r)
  BY DEF KanbanInv, Alone, Commit
<1>2. t \in Tasks /\ to \in Lists /\ w \in SUBSET (Tasks \X Positions)
  BY <1>1 DEF Asked, Free
<1>3. card \in [Tasks -> Cell]
  BY DEF KanbanInv, KanbanTypeOK, Cell
<1>4. card[t] # Nowhere /\ \A p \in w : card[p[1]] # Nowhere
  BY <1>1 DEF RowsThere
<1>5. card[t] \in Spot /\ from \in Lists
  BY <1>2, <1>3, <1>4 DEF Cell, Spot
<1>6. PICK q \in CardOrders(to), o \in CardOrders(from), n \in Nat :
         w = CardWrites(Reinserted(q, t, n)) \cup CardWrites(LeftBehind(t, to, o))
  BY <1>1 DEF StillSo
<1>7. card' = Rewritten(f, w)
  BY <1>1 DEF Written
<1>8. [card[t] EXCEPT !.list = to] \in Spot /\ [card[t] EXCEPT !.list = to].list = to
      /\ [card[t] EXCEPT !.list = to].pos = card[t].pos
  BY <1>2, <1>5 DEF Spot
<1>9. \A x \in Tasks : f[x] = IF x = t THEN [card[t] EXCEPT !.list = to] ELSE card[x]
  BY <1>2, <1>3
<1>10. f \in [Tasks -> Cell]
  <2>1. \A x \in Tasks : f[x] \in Cell
    BY <1>3, <1>8, <1>9 DEF Cell
  <2>. QED
    BY <1>3, <2>1
<1>. DEFINE S == CardsIn(to) \cup {t}
            T == IF from = to THEN {} ELSE CardsIn(from) \ {t}
            s == Reinserted(q, t, n)
            u == LeftBehind(t, to, o)
<1>11. OrderOf(s, S)
  BY <1>2, OrdersOf, OrderReinserted
<1>12. OrderOf(u, T)
  BY <1>2, <1>4, LeftInOrder DEF KanbanInv
<1>13. S \in SUBSET Tasks /\ T \in SUBSET Tasks /\ S \cap T = {} /\ t \notin T
  BY <1>2 DEF CardsIn
<1>14. CardWrites(s) \in SUBSET (S \X Positions) /\ CardWrites(u) \in SUBSET (T \X Positions)
  BY <1>11, <1>12, <1>13, WritesType
<1>. HIDE DEF f
<1>15. \A x \in Tasks : (f[x] # Nowhere <=> card[x] # Nowhere)
                        /\ (card[x] # Nowhere => f[x].list = IF x = t THEN to ELSE card[x].list)
                        /\ (card[x] # Nowhere => f[x].pos = card[x].pos)
  BY <1>4, <1>8, <1>9, Counts
<1>16. (\A p \in w : f[p[1]] # Nowhere) /\ \A x \in S \cup T : card[x] # Nowhere
  BY <1>2, <1>4, <1>15 DEF CardsIn
<1>17. {x \in Tasks : f[x] # Nowhere /\ f[x].list = to} = S
  BY <1>2, <1>4, <1>15 DEF CardsIn
<1>18. from # to => {x \in Tasks : f[x] # Nowhere /\ f[x].list = from} = T
  BY <1>2, <1>4, <1>15 DEF CardsIn
<1>. HIDE DEF S, T, s, u
<1>19. w = CardWrites(s) \cup CardWrites(u)
  BY <1>6 DEF s, u
<1>. HIDE DEF w, from
<1>20. /\ \A x \in Tasks : card'[x] = Nowhere <=> f[x] = Nowhere
       /\ \A x \in Tasks : f[x] # Nowhere => card'[x].list = f[x].list
  BY <1>2, <1>7, <1>10, <1>16, RewrittenType
<1>23. card'[t].list = to
  BY <1>2, <1>4, <1>15, <1>20
<1>21. CASE l = to
  <2>1. {x \in Tasks : card'[x] # Nowhere /\ card'[x].list = l} = S
    BY <1>17, <1>20, <1>21
  <2>2. CardWrites(s) \subseteq w /\ \A p \in w : p[1] \in S => p \in CardWrites(s)
    BY <1>13, <1>14, <1>19
  <2>3. \A x \in S : f[x].pos = card[x].pos
    BY <1>13, <1>15, <1>16
  <2>4. \A x \in S : card'[x].pos = IndexOf(s, x) - 1
    BY <1>2, <1>7, <1>10, <1>11, <1>13, <1>16, <2>2, <2>3, IndexWritten
  <2>. QED
    BY <1>11, <1>23, <2>1, <2>4, InOrderContiguous
<1>22. CASE l = from /\ from # to
  <2>1. {x \in Tasks : card'[x] # Nowhere /\ card'[x].list = l} = T
    BY <1>18, <1>20, <1>22
  <2>2. CardWrites(u) \subseteq w /\ \A p \in w : p[1] \in T => p \in CardWrites(u)
    BY <1>13, <1>14, <1>19
  <2>3. \A x \in T : f[x].pos = card[x].pos
    BY <1>13, <1>15, <1>16
  <2>4. \A x \in T : card'[x].pos = IndexOf(u, x) - 1
    BY <1>2, <1>7, <1>10, <1>12, <1>13, <1>16, <2>2, <2>3, IndexWritten
  <2>. QED
    BY <1>12, <1>23, <2>1, <2>4, InOrderContiguous
<1>. QED
  BY <1>21, <1>22 DEF from

\* Without overlap, after a card was deleted.
LEMMA DeletedContiguous ==
    ASSUME KanbanInv, mode = "serial", NEW e \in Editors, Commit(e),
           request[e].op = "deleteTask"
    PROVE  Contiguous(card', card[request[e].task].list) /\ card'[request[e].task] = Nowhere
<1>. DEFINE r == request[e]  t == r.task  from == card[t].list  w == r.write
            f == [card EXCEPT ![t] = Nowhere]
<1>1. r \in Asked \ {Free} /\ StillSo(r) /\ RowsThere(r) /\ Written(r) /\ Spares(r)
  BY DEF KanbanInv, Alone, Commit
<1>2. t \in Tasks /\ w \in SUBSET (Tasks \X Positions)
  BY <1>1 DEF Asked, Free
<1>3. card \in [Tasks -> Cell]
  BY DEF KanbanInv, KanbanTypeOK, Cell
<1>4. card[t] # Nowhere /\ \A p \in w : card[p[1]] # Nowhere /\ p[1] # t
  BY <1>1 DEF RowsThere, Spares
<1>5. from \in Lists
  BY <1>2, <1>3, <1>4 DEF Cell, Spot
<1>6. PICK o \in CardOrders(from) : w = CardWrites(Without(o, t))
  BY <1>1 DEF StillSo
<1>7. card' = Rewritten(f, w)
  BY <1>1 DEF Written
<1>8. \A x \in Tasks : f[x] = IF x = t THEN Nowhere ELSE card[x]
  BY <1>3
<1>9. f \in [Tasks -> Cell]
  BY <1>3 DEF Cell
<1>. DEFINE S == CardsIn(from) \ {t}  s == Without(o, t)
<1>10. OrderOf(s, S)
  BY <1>5, OrdersOf, OrderWithout
<1>11. S \in SUBSET Tasks
  BY DEF CardsIn
<1>. HIDE DEF f
<1>12. \A p \in w : f[p[1]] # Nowhere
  BY <1>2, <1>4, <1>8
<1>13. {x \in Tasks : f[x] # Nowhere /\ f[x].list = from} = S
  BY <1>2, <1>8 DEF CardsIn
<1>14. \A x \in S : f[x].pos = card[x].pos
  BY <1>8, <1>11
<1>. HIDE DEF S, s
<1>15. w = CardWrites(s)
  BY <1>6 DEF s
<1>. HIDE DEF w, from
<1>16. /\ \A x \in Tasks : card'[x] = Nowhere <=> f[x] = Nowhere
       /\ \A x \in Tasks : f[x] # Nowhere => card'[x].list = f[x].list
  BY <1>2, <1>7, <1>9, <1>12, RewrittenType
<1>17. {x \in Tasks : card'[x] # Nowhere /\ card'[x].list = from} = S
  BY <1>13, <1>16
<1>18. \A x \in S : card'[x].pos = IndexOf(s, x) - 1
  BY <1>2, <1>7, <1>9, <1>10, <1>11, <1>12, <1>14, <1>15, IndexWritten
<1>19. Contiguous(card', from)
  BY <1>10, <1>17, <1>18, InOrderContiguous
<1>20. card'[t] = Nowhere
  BY <1>2, <1>8, <1>16
<1>. QED
  BY <1>19, <1>20 DEF from

\* Without overlap the lists that a card was moved between, or deleted from, have
\* their cards at 0, 1, 2, ... again, whatever gaps and ties there were before and
\* however old the board is that the card was dragged on.
THEOREM OrderIsRestored == KanbanSpec => ContiguousAgain
<1>1. ASSUME KanbanInv, [KanbanNext]_kanbanVars, NEW e \in Editors, mode = "serial",
             Committed(e, "moveTask") \/ Committed(e, "deleteTask"), NEW l \in Lists,
             \/ l = card[request[e].task].list
             \/ card'[request[e].task] # Nowhere /\ l = card'[request[e].task].list
      PROVE  Contiguous(card', l)
  <2>1. PICK d \in Editors : Commit(d)
    BY <1>1, OnlyCommits DEF Committed
  <2>2. d = e
    <3>1. request[e] # Free /\ request[d] \in Asked \ {Free}
      BY <1>1, <2>1 DEF Committed, Commit, Free, KanbanInv
    <3>. QED
      BY <1>1, <3>1 DEF KanbanInv, Alone
  <2>3. CASE request[e].op = "deleteTask"
    BY <1>1, <2>1, <2>2, <2>3, DeletedContiguous
  <2>4. CASE request[e].op = "moveTask"
    <3>1. CASE l = card[request[e].task].list
      BY <1>1, <2>1, <2>2, <2>4, <3>1, MovedContiguous
    <3>2. CASE card'[request[e].task] # Nowhere /\ l = card'[request[e].task].list
      <4>1. card'[request[e].task].list = request[e].list
        BY <1>1, <2>1, <2>2, <2>4, <3>2, MovedContiguous
      <4>. QED
        BY <1>1, <2>1, <2>2, <2>4, <3>2, <4>1, MovedContiguous
    <3>. QED
      BY <1>1, <3>1, <3>2
  <2>. QED
    BY <1>1, <2>3, <2>4 DEF Committed
<1>2. KanbanInv /\ [KanbanNext]_kanbanVars =>
        [\A e \in Editors :
           mode = "serial" /\ (Committed(e, "moveTask") \/ Committed(e, "deleteTask")) =>
              LET t == request[e].task IN
              \A l \in Lists :
                  (l = card[t].list \/ (card'[t] # Nowhere /\ l = card'[t].list))
                      => Contiguous(card', l)]_kanbanVars
  BY <1>1
<1>. QED
  BY <1>2, KanbanAlways, PTL DEF KanbanSpec, ContiguousAgain

HIDE KanbanAssumption DEF KanbanAssumption

-----------------------------------------------------------------------------
(* Side by side.                                                           *)

\* The components of the workspace share no state: run side by side, each of them does
\* what it does alone.
LEMMA WorkspaceParts ==
    WorkspaceSpec => /\ KanbanSpec /\ PanelSpec /\ SessionSpec
                     /\ TimeSpec /\ MeetingsSpec /\ ProposalSpec
<1>1. WorkspaceInit => /\ KanbanInit /\ PanelInit /\ SessionInit
                       /\ TimeInit /\ MeetingsInit /\ ProposalInit
  BY DEF WorkspaceInit
<1>2. [WorkspaceNext]_<<focus, parts>> =>
        /\ [KanbanNext]_kanbanVars /\ [PanelNext]_panelVars /\ [SessionNext]_sessionVars
        /\ [TimeNext]_timeVars /\ [MeetingsNext]_meetingsVars /\ [ProposalNext]_proposalVars
  BY Zenon DEF WorkspaceNext, parts, OfClients, OfStaff
<1>. QED
  BY <1>1, <1>2, PTL DEF WorkspaceSpec, KanbanSpec, PanelSpec, SessionSpec, TimeSpec,
                         MeetingsSpec, ProposalSpec

\* Whichever component of the workspace is in use, its state is what its type says: a card
\* is on a list that is there, a recipient is shown no draft (projects/service.py,
\* auth/service.py, time_tracking/service.py, meetings/service.py,
\* proposals/service.py).
THEOREM WorkspaceTypes == WorkspaceSpec => []WorkspaceTypeOK
<1>1. KanbanTypeOK /\ PanelTypeOK /\ SessionTypeOK /\ TimeTypeOK /\ MeetingsTypeOK /\ ProposalTypeOK
        => WorkspaceTypeOK
  BY DEF WorkspaceTypeOK
<1>. QED
  BY <1>1, WorkspaceParts, KanbanTypes, PanelTypes, SessionTypes, TimeTypes, MeetingsTypes,
     ProposalTypes, PTL
=============================================================================

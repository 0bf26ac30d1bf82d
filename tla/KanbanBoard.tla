---------------------------- MODULE KanbanBoard ----------------------------
(***************************************************************************)
(* A project's task board: KanbanBoard.tsx asks for one change at a time,  *)
(* with a position computed from the board it shows, and re-renders with   *)
(* the answer; projects/service.py keeps lists and cards in order by an    *)
(* integer position that each operation recomputes from the rows it loads. *)
(*                                                                         *)
(* A request loads what it needs in one step and commits in another; with  *)
(* "overlap" other requests commit in between.  Rows with equal positions  *)
(* come in any order.  SQLAlchemy writes the columns that have changed     *)
(* against what was loaded, and the request fails as a whole when a row it *)
(* writes is gone.  Names, descriptions and assignees are not modelled.    *)
(***************************************************************************)
EXTENDS Integers, Sequences, FiniteSets, SequencesExt

CONSTANTS
    Editors,        \* browsers showing the board
    Lists,
    Tasks,
    Modes,          \* what the run considers, a subset of {"serial", "overlap"}
    MaxChanges,     \* bound on requests
    Nowhere         \* no such list, no such card

ASSUME KanbanAssumption ==
    /\ Modes \subseteq {"serial", "overlap"} /\ MaxChanges \in Nat
    /\ IsFiniteSet(Lists) /\ IsFiniteSet(Tasks)
    /\ Nowhere \notin Nat \cup [list: Lists, pos: Nat]

VARIABLES
    mode,
    place,          \* the position of each list, Nowhere if there is none
    card,           \* the list and position of each card, or Nowhere
    shown,          \* the board each editor shows
    request,        \* each editor's request: what it asks and what it will write
    changes

kanbanVars == <<mode, place, card, shown, request, changes>>

Positions == 0 .. Cardinality(Tasks) + Cardinality(Lists)

Spot == [list: Lists, pos: Positions]

\* An order of lists and, for each list, of its cards.
Board == [lists: Seq(Lists), cards: [Lists -> Seq(Tasks)]]

Free == [op |-> "none"]

ListsThere == {l \in Lists : place[l] # Nowhere}

CardsIn(l) == {t \in Tasks : card[t] # Nowhere /\ card[t].list = l}

KanbanTypeOK ==
    /\ mode \in {"serial", "overlap"}
    /\ place \in [Lists -> Positions \cup {Nowhere}]
    /\ card \in [Tasks -> Spot \cup {Nowhere}]
    /\ \A t \in Tasks : card[t] # Nowhere => card[t].list \in ListsThere
    /\ shown \in [Editors -> Board]
    /\ \A e \in Editors : request[e].op \in
         {"none", "addList", "deleteList", "moveList", "addTask", "moveTask", "updateTask",
          "deleteTask"}
    /\ changes \in 0 .. MaxChanges

-----------------------------------------------------------------------------
(* Orders.                                                                 *)

\* The orders in which the database may return the rows S, by position.
ByPosition(S, pos(_)) ==
    {q \in SetToSeqs(S) : \A i \in 1 .. Len(q) - 1 : pos(q[i]) <= pos(q[i + 1])}

ListOrders == ByPosition(ListsThere, LAMBDA l : place[l])

CardOrders(l) == ByPosition(CardsIn(l), LAMBDA t : card[t].pos)

Renders ==
    {[lists |-> q, cards |-> f] :
        q \in ListOrders,
        f \in {g \in [Lists -> UNION {CardOrders(l) : l \in Lists}] :
                 \A l \in Lists : g[l] \in CardOrders(l)}}

IndexOf(q, x) == CHOOSE i \in DOMAIN q : q[i] = x

\* The order without a row.
Without(q, x) == IF x \in Range(q) THEN RemoveAt(q, IndexOf(q, x)) ELSE q

\* The row is taken out of the order and put back at a position, clamped.
Reinserted(q, x, p) ==
    LET rest == Without(q, x)
        at == IF p > Len(rest) THEN Len(rest) ELSE p
    IN InsertAt(rest, at + 1, x)

\* What a reindexed order makes of the rows in it.
Indexed(q) == [x \in Range(q) |-> IndexOf(q, x) - 1]

-----------------------------------------------------------------------------

KanbanInit ==
    /\ mode \in Modes
    /\ \E q \in SetToSeqs(Lists), n \in 1 .. Cardinality(Lists) :
         place = [l \in Lists |-> IF IndexOf(q, l) <= n THEN IndexOf(q, l) - 1 ELSE Nowhere]
    /\ card = [t \in Tasks |-> Nowhere]
    /\ shown \in [Editors -> Renders]
    /\ request = [e \in Editors |-> Free]
    /\ changes = 0

\* A request may start: the editor has none under way, and in the serial mode
\* nobody has.
MayAsk(e) ==
    /\ request[e] = Free
    /\ mode = "serial" => \A f \in Editors : request[f] = Free
    /\ changes < MaxChanges /\ changes' = changes + 1

Ask(e, r) ==
    /\ MayAsk(e)
    /\ request' = [request EXCEPT ![e] = r]
    /\ UNCHANGED <<mode, place, card, shown>>

\* create_task_list: "at the right-hand end of the board".
AddList(e, l) ==
    /\ place[l] = Nowhere /\ \A f \in Editors : request[f].op = "addList" => request[f].list # l
    /\ Ask(e, [op |-> "addList", list |-> l, pos |-> Cardinality(ListsThere)])

\* Defect: the API trusts the button to spare lists that hold cards.
WithoutCards(l) == Cardinality(ListsThere) > 1

Deletable(l) == CardsIn(l) = {} /\ Cardinality(ListsThere) > 1

\* delete_task_list, and the button that is disabled for the last list and for
\* one that shows cards.
DeleteList(e, l) ==
    /\ Len(shown[e].lists) > 1 /\ l \in Range(shown[e].lists) /\ shown[e].cards[l] = <<>>
    /\ l \in ListsThere /\ Deletable(l)
    /\ Ask(e, [op |-> "deleteList", list |-> l])

\* handleDropOnColumn: to the place of the list it is dropped on.
\* move_task_list: reinsert and reindex.
MoveList(e, l, onto) ==
    /\ {l, onto} \subseteq Range(shown[e].lists) /\ l # onto /\ l \in ListsThere
    /\ \E q \in ListOrders :
         LET p == IndexOf(shown[e].lists, onto) - 1
             new == Indexed(Reinserted(q, l, p))
         IN Ask(e, [op |-> "moveList", list |-> l, aim |-> p,
                    write |-> {<<x, new[x]>> : x \in {y \in DOMAIN new : new[y] # place[y]}}])

\* create_task: at the bottom of the list.
AddTask(e, t, l) ==
    /\ card[t] = Nowhere /\ \A f \in Editors : request[f].op = "addTask" => request[f].task # t
    /\ l \in Range(shown[e].lists) \cap ListsThere
    /\ Ask(e, [op |-> "addTask", task |-> t, list |-> l, pos |-> Cardinality(CardsIn(l))])

Shows(e, t) == \E l \in Range(shown[e].lists) : t \in Range(shown[e].cards[l])

\* The writes that give the cards of an order their index.
CardWrites(q) ==
    {<<t, IndexOf(q, t) - 1>> : t \in {u \in Range(q) : card[u].pos # IndexOf(q, u) - 1}}

\* Defect: only the list the card is moved to is reindexed.
NotReindexed(t, l, o) == <<>>

\* The order of the list that a card leaves.
LeftBehind(t, l, o) == IF card[t].list = l THEN <<>> ELSE Without(o, t)

\* handleMoveTask: to the bottom of the list as shown.
\* move_task: reinsert and reindex there, reindex where the card was.
MoveTask(e, t, l) ==
    /\ Shows(e, t) /\ card[t] # Nowhere
    /\ l \in Range(shown[e].lists) \cap ListsThere /\ t \notin Range(shown[e].cards[l])
    /\ \E q \in CardOrders(l), o \in CardOrders(card[t].list) :
         LET new == Reinserted(q, t, Len(shown[e].cards[l]))
             left == LeftBehind(t, l, o)
         IN Ask(e, [op |-> "moveTask", task |-> t, list |-> l,
                    write |-> CardWrites(new) \cup CardWrites(left)])

\* update_task with another list: to the bottom of it, and the gap stays.
UpdateTask(e, t, l) ==
    /\ Shows(e, t) /\ card[t] # Nowhere /\ l \in Range(shown[e].lists) \cap ListsThere
    /\ l # card[t].list
    /\ Ask(e, [op |-> "updateTask", task |-> t, list |-> l,
               write |-> {<<t, Cardinality(CardsIn(l))>>}])

\* delete_task closes the gap.
DeleteTask(e, t) ==
    /\ Shows(e, t) /\ card[t] # Nowhere
    /\ \E o \in CardOrders(card[t].list) :
         Ask(e, [op |-> "deleteTask", task |-> t,
                 write |-> CardWrites(Without(o, t))])

-----------------------------------------------------------------------------
(* The commit.                                                             *)

Rewritten(f, w) ==
    [t \in Tasks |-> IF \E p \in w : p[1] = t
                     THEN [f[t] EXCEPT !.pos = (CHOOSE p \in w : p[1] = t)[2]] ELSE f[t]]

\* Every row the request writes, deletes or refers to is still there.
RowsThere(r) ==
    /\ r.op \in {"deleteList", "moveList", "addTask", "moveTask", "updateTask"}
         => r.list \in ListsThere
    /\ r.op = "moveList" => \A p \in r.write : p[1] \in ListsThere
    /\ r.op \in {"moveTask", "updateTask", "deleteTask"}
         => card[r.task] # Nowhere /\ \A p \in r.write : card[p[1]] # Nowhere

\* Defect: the cards of a deleted list are left behind.
Orphaned(l) == card

\* ON DELETE CASCADE.
Cascaded(l) == [t \in Tasks |-> IF t \in CardsIn(l) THEN Nowhere ELSE card[t]]

Written(r) ==
    /\ place' = CASE r.op = "addList"    -> [place EXCEPT ![r.list] = r.pos]
                  [] r.op = "deleteList" -> [place EXCEPT ![r.list] = Nowhere]
                  [] r.op = "moveList"   ->
                       [l \in Lists |-> IF \E p \in r.write : p[1] = l
                                        THEN (CHOOSE p \in r.write : p[1] = l)[2] ELSE place[l]]
                  [] OTHER -> place
    /\ card' = CASE r.op = "addTask"    -> [card EXCEPT ![r.task] = [list |-> r.list, pos |-> r.pos]]
                 [] r.op = "deleteList" -> Cascaded(r.list)
                 [] r.op \in {"moveTask", "updateTask"} ->
                      Rewritten([card EXCEPT ![r.task].list = r.list], r.write)
                 [] r.op = "deleteTask" ->
                      Rewritten([card EXCEPT ![r.task] = Nowhere], r.write)
                 [] OTHER -> card

\* The editor's page re-renders with what the database has after the commit.
Commit(e) ==
    /\ request[e] # Free /\ RowsThere(request[e])
    /\ Written(request[e])
    /\ shown' \in {[shown EXCEPT ![e] = b] : b \in Renders'}
    /\ request' = [request EXCEPT ![e] = Free]
    /\ UNCHANGED <<mode, changes>>

Fail(e) ==
    /\ request[e] # Free /\ ~RowsThere(request[e])
    /\ request' = [request EXCEPT ![e] = Free]
    /\ UNCHANGED <<mode, place, card, shown, changes>>

KanbanNext ==
    \E e \in Editors :
        \/ Commit(e) \/ Fail(e)
        \/ \E l \in Lists :
            \/ AddList(e, l) \/ DeleteList(e, l)
            \/ \E k \in Lists : MoveList(e, l, k)
            \/ \E t \in Tasks : AddTask(e, t, l) \/ MoveTask(e, t, l) \/ UpdateTask(e, t, l)
        \/ \E t \in Tasks : DeleteTask(e, t)

KanbanSpec == KanbanInit /\ [][KanbanNext]_kanbanVars

-----------------------------------------------------------------------------
(* Properties.                                                             *)

\* The request an editor's step has committed.
Committed(e, op) == request[e].op = op /\ request'[e] = Free /\ <<place, card>> # <<place, card>>'

\* "Refuses if it still has cards" (projects/service.py, delete_task_list): without
\* overlapping requests a card disappears only when somebody deletes that card,
\* however stale the board is that an editor acts on.  "A project should always have
\* somewhere for a task to live" (the same): the last list stays.
CardsKept ==
    [][mode = "serial" =>
         /\ ListsThere' # {}
         /\ \A t \in Tasks : card[t] # Nowhere /\ card'[t] = Nowhere =>
              \E e \in Editors : Committed(e, "deleteTask") /\ request[e].task = t]_kanbanVars

Contiguous(f, l) ==
    LET here == {t \in Tasks : f[t] # Nowhere /\ f[t].list = l} IN
    {f[t].pos : t \in here} = 0 .. Cardinality(here) - 1

\* "so the remaining cards stay contiguously ordered" (delete_task), and "Reindexes both
\* the destination list ... and the old list too" (move_task): whatever order the lists
\* were in, the list a card was moved to, moved from or deleted from is contiguous then.
ContiguousAgain ==
    [][\A e \in Editors :
         mode = "serial" /\ (Committed(e, "moveTask") \/ Committed(e, "deleteTask")) =>
            LET t == request[e].task IN
            \A l \in Lists :
                (l = card[t].list \/ (card'[t] # Nowhere /\ l = card'[t].list))
                    => Contiguous(card', l)]_kanbanVars
=============================================================================

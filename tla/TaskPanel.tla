----------------------------- MODULE TaskPanel -----------------------------
(***************************************************************************)
(* A card's drawer on the task board: TaskDetailPanel.tsx, one component   *)
(* instance that shows whichever card KanbanBoard.tsx has selected, seeds  *)
(* its form when that is another card than the one it was last seeded      *)
(* from, and fetches the comments when a card is opened.  Answers are      *)
(* applied to the state of the instance, whatever it shows by then.        *)
(*                                                                         *)
(* The form is two fields, the list and the title; description, due date   *)
(* and assignee behave like the title, files like comments.  The browser's *)
(* server actions are dispatched one after the other (Next.js), and the    *)
(* answer to one that changes the project carries the board re-rendered    *)
(* (refresh()).  Other users change titles and lists at any time.          *)
(***************************************************************************)
EXTENDS Integers, Sequences, FiniteSets, SequencesExt

CONSTANTS
    Cards,
    Columns,
    Titles,
    Comments,
    MaxActions,     \* bound on server actions beyond fetches
    MaxOthers,      \* bound on changes by other users
    MaxVisits,      \* bound on cards opened
    MaxErrors,      \* bound on server actions that fail
    Unknown         \* nothing: no card, or comments not fetched yet

ASSUME PanelAssumption ==
    /\ MaxActions \in Nat /\ MaxOthers \in Nat /\ MaxVisits \in Nat /\ MaxErrors \in Nat
    /\ Comments # {} /\ Unknown \notin Cards
    /\ \A s \in SUBSET Comments : s # Unknown
    /\ \A c \in [list: Columns, title: Titles] : c # Unknown

VARIABLES
    task,           \* the server's cards
    comments,       \* the server's comments of each card
    columns,        \* the cards as the page shows them
    panel,          \* the drawer
    form,           \* the values in its form
    touched,        \* history: the fields the user has changed since the form was opened
    list,           \* the comments it shows
    pending,        \* server actions, the first one under way
    spoilt,         \* history: the last fetch failed
    used            \* how much of each bound

panelVars == <<task, comments, columns, panel, form, touched, list, pending, spoilt, used>>

Fields == [list: Columns, title: Titles]

Action == [op: {"fetch", "save", "move", "post", "remove"}, card: Cards, fields: Fields,
           touched: SUBSET {"list", "title"}, comment: Comments, served: BOOLEAN, ok: BOOLEAN,
           got: SUBSET Comments, page: [Cards -> Fields]]

PanelTypeOK ==
    /\ task \in [Cards -> Fields] /\ columns \in [Cards -> Fields]
    /\ comments \in [Cards -> SUBSET Comments]
    /\ panel \in [card: Cards \cup {Unknown}, open: BOOLEAN, seeded: Cards \cup {Unknown},
                  editing: BOOLEAN]
    /\ form \in Fields \cup {Unknown}
    /\ touched \in SUBSET {"list", "title"}
    /\ list \in (SUBSET Comments) \cup {Unknown}
    /\ pending \in Seq(Action)
    /\ spoilt \in BOOLEAN
    /\ used \in [actions: 0 .. MaxActions, others: 0 .. MaxOthers, visits: 0 .. MaxVisits,
                errors: 0 .. MaxErrors]

-----------------------------------------------------------------------------

NewAction(op, k, f, t, c) ==
    [op |-> op, card |-> k, fields |-> f, touched |-> t, comment |-> c, served |-> FALSE,
     ok |-> FALSE, got |-> {}, page |-> columns]

AnyComment == CHOOSE c \in Comments : TRUE

\* Defect: the fetch goes by a route of its own and does not wait for server actions.
FetchFirst(q, a) == IF a.op = "fetch" THEN <<a>> \o q ELSE Append(q, a)

Dispatched(q, a) == Append(q, a)

Use(what) ==
    /\ used[what] < (CASE what = "actions" -> MaxActions [] what = "others" -> MaxOthers
                       [] what = "visits" -> MaxVisits [] OTHER -> MaxErrors)
    /\ used' = [used EXCEPT ![what] = @ + 1]

Dispatch(op, k, f, t, c) ==
    Use("actions") /\ pending' = Dispatched(pending, NewAction(op, k, f, t, c))

\* isSaving, isPostingComment: the transitions that disable their buttons.
Under(ops) == \E i \in DOMAIN pending : pending[i].op \in ops

PanelInit ==
    /\ \E l \in Columns, s \in Titles : task = [k \in Cards |-> [list |-> l, title |-> s]]
    /\ columns = task
    /\ comments = [k \in Cards |-> {}]
    /\ panel = [card |-> Unknown, open |-> FALSE, seeded |-> Unknown, editing |-> FALSE]
    /\ form = Unknown /\ touched = {} /\ list = Unknown
    /\ pending = <<>> /\ spoilt = FALSE
    /\ used = [actions |-> 0, others |-> 0, visits |-> 0, errors |-> 0]

-----------------------------------------------------------------------------
(* The user.                                                               *)

\* A card's title is clicked.  Another card than the one last seeded from reseeds
\* every field; a change of the selected card runs the fetch.
Open(k) ==
    /\ ~panel.open /\ Use("visits")
    /\ IF panel.seeded = k
       THEN /\ panel' = [panel EXCEPT !.card = k, !.open = TRUE]
            /\ UNCHANGED <<form, touched, list>>
       ELSE /\ panel' = [card |-> k, open |-> TRUE, seeded |-> k, editing |-> FALSE]
            /\ form' = columns[k] /\ touched' = {} /\ list' = Unknown
    /\ pending' = IF panel.card = k THEN pending
                  ELSE Dispatched(pending,
                                  NewAction("fetch", k, columns[k], {}, AnyComment))
    /\ UNCHANGED <<task, comments, columns, spoilt>>

Close ==
    /\ panel.open
    /\ panel' = [panel EXCEPT !.open = FALSE]
    /\ UNCHANGED <<task, comments, columns, form, touched, list, pending, spoilt, used>>

\* onClosed: the transition is over and the selection forgotten; the seed stays.
Closed ==
    /\ ~panel.open /\ panel.card # Unknown
    /\ panel' = [panel EXCEPT !.card = Unknown]
    /\ UNCHANGED <<task, comments, columns, form, touched, list, pending, spoilt, used>>

\* "Edit details" only swaps the form in.
EditDetails ==
    /\ panel.open /\ ~panel.editing
    /\ panel' = [panel EXCEPT !.editing = TRUE]
    /\ touched' = {}
    /\ UNCHANGED <<task, comments, columns, form, list, pending, spoilt, used>>

\* resetFields.
Cancel ==
    /\ panel.open /\ panel.editing /\ ~Under({"save"})
    /\ panel' = [panel EXCEPT !.editing = FALSE]
    /\ form' = columns[panel.card] /\ touched' = {}
    /\ UNCHANGED <<task, comments, columns, list, pending, spoilt, used>>

Change(field, f) ==
    /\ panel.open /\ panel.editing
    /\ f[field] # form[field] /\ f = [form EXCEPT ![field] = f[field]]
    /\ form' = f /\ touched' = touched \cup {field}
    /\ UNCHANGED <<task, comments, columns, panel, list, pending, spoilt, used>>

\* handleSave.
Save ==
    /\ panel.open /\ panel.editing /\ ~Under({"save"})
    /\ Dispatch("save", panel.card, form, touched, AnyComment)
    /\ UNCHANGED <<task, comments, columns, panel, form, touched, list, spoilt>>

\* handleDropOnList: the drawer is modal, cards are dragged while it is closed.
Drag(k, l) ==
    /\ ~panel.open /\ ~Under({"move"}) /\ columns[k].list # l
    /\ Dispatch("move", k, [columns[k] EXCEPT !.list = l], {"list"}, AnyComment)
    /\ UNCHANGED <<task, comments, columns, panel, form, touched, list, spoilt>>

\* handlePostComment, handleDeleteComment.
Post(c) ==
    /\ panel.open /\ ~Under({"fetch", "post", "remove"})
    /\ \A k \in Cards : c \notin comments[k]
    /\ Dispatch("post", panel.card, columns[panel.card], {}, c)
    /\ UNCHANGED <<task, comments, columns, panel, form, touched, list, spoilt>>

DeleteComment(c) ==
    /\ panel.open /\ ~Under({"fetch", "post", "remove"})
    /\ list # Unknown /\ c \in list
    /\ Dispatch("remove", panel.card, columns[panel.card], {}, c)
    /\ UNCHANGED <<task, comments, columns, panel, form, touched, list, spoilt>>

-----------------------------------------------------------------------------
(* The server.                                                             *)

\* update_task replaces every field of the card, move_task its list.
Stored(a) ==
    CASE a.op = "save" -> [task EXCEPT ![a.card] = a.fields]
      [] a.op = "move" -> [task EXCEPT ![a.card].list = a.fields.list]
      [] OTHER -> task

Serve(ok) ==
    /\ pending # <<>> /\ ~Head(pending).served
    /\ IF ok THEN UNCHANGED used ELSE Use("errors")
    /\ LET a == Head(pending) IN
        /\ a.op = "remove" /\ a.comment \notin comments[a.card] => ~ok
        /\ task' = IF ok THEN Stored(a) ELSE task
        /\ comments' = CASE ok /\ a.op = "post" -> [comments EXCEPT ![a.card] = @ \cup {a.comment}]
                         [] ok /\ a.op = "remove" -> [comments EXCEPT ![a.card] = @ \ {a.comment}]
                         [] OTHER -> comments
        /\ pending' = [pending EXCEPT ![1].served = TRUE, ![1].ok = ok,
                                      ![1].got = comments[a.card], ![1].page = task']
    /\ UNCHANGED <<columns, panel, form, touched, list, spoilt>>

\* Another user saves or drags the card.
Elsewhere(k, f) ==
    /\ f # task[k] /\ Use("others")
    /\ task' = [task EXCEPT ![k] = f]
    /\ UNCHANGED <<comments, columns, panel, form, touched, list, pending, spoilt>>

-----------------------------------------------------------------------------
(* The answer.                                                             *)

Shown(l) == IF l = Unknown THEN {} ELSE l

Answer ==
    /\ pending # <<>> /\ Head(pending).served
    /\ LET a == Head(pending) IN
        /\ list' = CASE a.ok /\ a.op = "fetch"  -> a.got
                     [] a.ok /\ a.op = "post"   -> Shown(list) \cup {a.comment}
                     [] a.ok /\ a.op = "remove" -> Shown(list) \ {a.comment}
                     [] OTHER -> list
        /\ panel' = IF a.ok /\ a.op = "save" THEN [panel EXCEPT !.editing = FALSE] ELSE panel
        /\ columns' = IF a.ok /\ a.op # "fetch" THEN a.page ELSE columns
        /\ spoilt' = IF a.op = "fetch" THEN ~a.ok ELSE spoilt
    /\ pending' = Tail(pending)
    /\ UNCHANGED <<task, comments, form, touched, used>>

PanelNext ==
    \/ Close \/ Closed \/ EditDetails \/ Cancel \/ Save \/ Answer
    \/ \E ok \in BOOLEAN : Serve(ok)
    \/ \E k \in Cards : Open(k) \/ \E l \in Columns : Drag(k, l)
    \/ \E k \in Cards, f \in Fields : Elsewhere(k, f)
    \/ \E field \in {"list", "title"}, f \in Fields : Change(field, f)
    \/ \E c \in Comments : Post(c) \/ DeleteComment(c)

PanelSpec == PanelInit /\ [][PanelNext]_panelVars

-----------------------------------------------------------------------------
(* Properties.                                                             *)

\* The drawer shows the comments of the card it shows, once nothing is under way,
\* although answers for a card that was open before land in the same state; unless
\* the card's own fetch failed.
CommentsOfTheCard ==
    pending = <<>> /\ panel.card # Unknown /\ ~spoilt => list = comments[panel.card]

\* "A card is moved to another column by dragging it there ... or from the List field in
\* its detail panel" (KanbanBoard.tsx): an action of this user changes a card's list only
\* if the user has dragged it or chosen another list.
MovedOnlyWhenAsked ==
    [][(Len(pending') = Len(pending) /\ pending' # pending) =>
         \A k \in Cards : task'[k].list # task[k].list => "list" \in Head(pending).touched]_panelVars
=============================================================================

-------------------------- MODULE MessagingClient --------------------------
(***************************************************************************)
(* One conversation as one browser sees it: the store                      *)
(* (stores/use-messaging-store.ts), the thread, the composer and the       *)
(* conversation list that use it (MessageThread.tsx, MessageComposer.tsx,  *)
(* MessagingProvider.tsx), their server actions, and what the server does  *)
(* with them (messaging/service.py).  Everybody else acts on the server.   *)
(*                                                                         *)
(* The server stamps messages in the order of their numbers.  The store    *)
(* keeps a thread sorted by that stamp, so a thread is a function from     *)
(* numbers to what is shown.  The browser's server actions are dispatched  *)
(* one after the other (Next.js); a request broadcasts as it commits.      *)
(*                                                                         *)
(* What the design leaves to the environment is in Disturbances:           *)
(*   "overtake"  an HTTP answer reaches the browser after events the       *)
(*               server sent later (they travel on different connections)  *)
(*   "missed"    an event finds no socket, or is lost with it              *)
(*   "refuse"    a call fails without having any effect                    *)
(*   "leave"     the thread is left before it has been marked as read      *)
(*   "retract"   a message is deleted that has not been read yet           *)
(*   "editold"   a message is edited that is above what has been loaded    *)
(*   "early"     earlier messages are asked for before the history came    *)
(***************************************************************************)
EXTENDS Integers, Sequences, FiniteSets, SequencesExt

CONSTANTS
    Bodies,
    Page,           \* PAGE_SIZE
    Disturbances,
    MaxMessages,    \* bound on messages of the conversation
    MaxSends,       \* bound on messages sent from this browser
    MaxMoves,       \* bound on visits, re-lists, pages, edits and deletions
    MaxMishaps,     \* bound on disturbances, lost answers and lost sockets
    Gone,           \* the empty body of a deleted message
    Absent          \* no message

Nonces == 1 .. MaxSends

Optimistic == [body: Bodies, send: Nonces]

\* The conversation may already fill a page when it is first opened.
ASSUME MessagingAssumption ==
    /\ Disturbances \subseteq
         {"overtake", "missed", "refuse", "leave", "retract", "editold", "early"}
    /\ MaxMessages \in Nat /\ MaxSends \in Nat /\ MaxMoves \in Nat /\ MaxMishaps \in Nat
    /\ Page \in 1 .. MaxMessages
    /\ Gone \notin Bodies /\ Absent \notin Bodies \cup {Gone} \cup Optimistic

VARIABLES
    log,            \* the server's messages
    lastRead,       \* the reader's last_read_at: the last message it covers
    thread,         \* messagesByConversation: what is shown of each message
    optimistic,     \* the entries the composer put there, by nonce
    hydrated,       \* the history has been loaded
    badge,          \* unread_count in the conversation list
    pane,           \* the thread and composer: mounted or not, and their state
    online,         \* the socket is open
    calls,          \* server actions, the first one under way
    wire,           \* what the server has sent to the browser
    spent,          \* moves and mishaps so far
    disturbed       \* history: what a disturbance has spoilt

messagingVars == <<log, lastRead, thread, optimistic, hydrated, badge, pane, online,
                   calls, wire, spent, disturbed>>

Ids == 1 .. MaxMessages

\* send: the number of the sending of it, 0 for messages sent elsewhere.
Message == [by: {"me", "other"}, body: Bodies \cup {Gone}, send: 0 .. MaxSends]

Copies == [Ids -> Bodies \cup {Gone, Absent}]

\* timer: mark-as-read is due; seq: optimisticSeqRef.
Pane == [open: BOOLEAN, timer: BOOLEAN, sending: BOOLEAN, seq: 0 .. MaxSends,
         loadingOlder: BOOLEAN, reachedStart: BOOLEAN]

Closed == [open |-> FALSE, timer |-> FALSE, sending |-> FALSE, seq |-> 0,
           loadingOlder |-> FALSE, reachedStart |-> FALSE]

\* at: the nonce of a send, the number a page of history ends before.
\* live: the effect that asked has not been cleaned up; sent: under way.
Call == [op: {"history", "older", "list", "send", "read"},
         at: (0 .. MaxMessages + 1) \cup Nonces, body: Bodies \cup {Gone},
         send: 0 .. MaxSends, live: BOOLEAN, sent: BOOLEAN]

Event == [type: {"created", "updated", "deleted", "read"}, id: 0 .. MaxMessages,
          body: Bodies \cup {Gone}, by: {"me", "other"}]

Answer == [type: {"reply", "error"}, messages: Copies, unread: 0 .. MaxMessages]

MessagingTypeOK ==
    /\ log \in Seq(Message) /\ Len(log) <= MaxMessages
    /\ lastRead \in 0 .. Len(log)
    /\ thread \in Copies
    /\ optimistic \in [Nonces -> Optimistic \cup {Absent}]
    /\ hydrated \in BOOLEAN
    /\ badge \in 0 .. MaxMessages
    /\ pane \in Pane
    /\ online \in BOOLEAN
    /\ calls \in Seq(Call)
    /\ wire \in Seq(Event \cup Answer)
    /\ spent \in [moves: 0 .. MaxMoves, mishaps: 0 .. MaxMishaps, sends: 0 .. MaxSends]
    /\ disturbed \in SUBSET {"thread", "badge"}

-----------------------------------------------------------------------------
(* What the server knows.                                                  *)

Copy(S) == [i \in Ids |-> IF i \in S THEN log[i].body ELSE Absent]

\* list_messages: the last page of what was stamped before number k.
PageBefore(k) == {i \in DOMAIN log : i < k /\ i >= k - Page}

\* _unread_count.
UnreadCount ==
    Cardinality({i \in DOMAIN log : i > lastRead /\ log[i].by = "other" /\ log[i].body # Gone})

-----------------------------------------------------------------------------
(* The store.                                                              *)

IsOpen == pane.open

Loaded(th) == {i \in Ids : th[i] # Absent}

Count(th, op) == Cardinality(Loaded(th)) + Cardinality({n \in Nonces : op[n] # Absent})

\* The thread becomes th and op, the list says "unread".  If the thread is shown
\* and its length changes, its effect marks it as read here, and soon there.
Show(th, op, unread, p) ==
    LET n == Count(th, op)
        changed == p.open /\ n # Count(thread, optimistic)
    IN
    /\ thread' = th /\ optimistic' = op
    /\ badge' = IF changed /\ n > 0 THEN 0 ELSE unread
    /\ pane' = IF changed THEN [p EXCEPT !.timer = (n > 0)] ELSE p

\* Defect: the optimistic copy stays beside the server's.
NoEcho(by, body) == optimistic

\* mergeMessage drops the optimistic entries that look like the message.
WithoutEcho(by, body) ==
    [n \in Nonces |->
        IF by = "me" /\ optimistic[n] # Absent /\ optimistic[n].body = body
        THEN Absent ELSE optimistic[n]]

\* Defect: a message that is there already is not replaced.
MergeNew(i, body) ==
    IF thread[i] = Absent THEN [thread EXCEPT ![i] = body] ELSE thread

Merge(i, body) == [thread EXCEPT ![i] = body]

\* Defect: one's own messages count as unread.
CountAll(by) == badge + 1

Counted(by) == IF by = "other" THEN badge + 1 ELSE badge

\* Defect: an edited message counts as a new one.
ApplyCounted(e) ==
    IF e.type = "read" THEN badge' = 0 /\ UNCHANGED <<thread, optimistic, pane>>
    ELSE Show(Merge(e.id, e.body), WithoutEcho(e.by, e.body), Counted(e.by), pane)

ApplyEvent(e) ==
    CASE e.type = "created" ->
            Show(Merge(e.id, e.body), WithoutEcho(e.by, e.body), Counted(e.by), pane)
      [] e.type = "updated" ->
            Show(Merge(e.id, e.body), WithoutEcho(e.by, e.body), badge, pane)
      [] e.type = "deleted" ->
            Show([i \in Ids |-> IF i = e.id /\ thread[i] # Absent THEN Gone ELSE thread[i]],
                 optimistic, badge, pane)
      [] OTHER -> badge' = 0 /\ UNCHANGED <<thread, optimistic, pane>>

-----------------------------------------------------------------------------
(* Bounds and disturbances.                                                *)

Move == spent.moves < MaxMoves /\ spent' = [spent EXCEPT !.moves = @ + 1]

Mishap == spent.mishaps < MaxMishaps /\ spent' = [spent EXCEPT !.mishaps = @ + 1]

Disturb(kind, what) ==
    kind \in Disturbances /\ Mishap /\ disturbed' = disturbed \cup {what}

Undisturbed == UNCHANGED <<spent, disturbed>>

NewCall(op, at, body, send) ==
    [op |-> op, at |-> at, body |-> body, send |-> send, live |-> TRUE, sent |-> FALSE]

List == NewCall("list", 0, Gone, 0)

MessagingInit ==
    /\ log \in {[i \in 1 .. n |-> [by |-> "other", body |-> b, send |-> 0]] :
                   n \in 0 .. Page, b \in Bodies}
    /\ lastRead \in 0 .. Len(log)
    /\ thread = [i \in Ids |-> Absent]
    /\ optimistic = [n \in Nonces |-> Absent]
    /\ hydrated = FALSE
    /\ badge = UnreadCount
    /\ pane = Closed
    /\ online = FALSE
    /\ calls = <<>> /\ wire = <<>>
    /\ spent = [moves |-> 0, mishaps |-> 0, sends |-> 0]
    /\ disturbed = {}

-----------------------------------------------------------------------------
(* The reader.                                                             *)

\* The thread mounts: its two effects run.
OpenThread ==
    /\ ~IsOpen /\ Move
    /\ LET n == Count(thread, optimistic) IN
        /\ pane' = [Closed EXCEPT !.open = TRUE, !.timer = (n > 0)]
        /\ badge' = IF n > 0 THEN 0 ELSE badge
    /\ calls' = IF hydrated THEN calls
                ELSE Append(calls, NewCall("history", Len(log) + 1, Gone, 0))
    /\ UNCHANGED <<log, lastRead, thread, optimistic, hydrated, online, wire, disturbed>>

\* The thread unmounts: the timer is cleared, the history is not wanted any more.
CloseThread ==
    /\ IsOpen
    /\ pane' = Closed
    /\ calls' = [i \in DOMAIN calls |->
                   IF calls[i].op = "history" THEN [calls[i] EXCEPT !.live = FALSE] ELSE calls[i]]
    /\ IF pane.timer THEN Disturb("leave", "badge") ELSE Undisturbed
    /\ UNCHANGED <<log, lastRead, thread, optimistic, hydrated, badge, online, wire>>

\* 400 ms later.
TimerFires ==
    /\ pane.timer
    /\ pane' = [pane EXCEPT !.timer = FALSE]
    /\ calls' = Append(calls, NewCall("read", 0, Gone, 0))
    /\ UNCHANGED <<log, lastRead, thread, optimistic, hydrated, badge, online, wire, spent,
                   disturbed>>

\* handleSend.  The nonce counts the sends of this composer, and starts again
\* with the next one.
Send(b) ==
    /\ IsOpen /\ ~pane.sending
    /\ spent.sends < MaxSends /\ spent' = [spent EXCEPT !.sends = @ + 1]
    /\ LET n == pane.seq + 1
           s == spent.sends + 1
       IN
        /\ Show(thread, [optimistic EXCEPT ![n] = [body |-> b, send |-> s]], badge,
                [pane EXCEPT !.sending = TRUE, !.seq = n])
        /\ calls' = Append(calls, NewCall("send", n, b, s))
    /\ UNCHANGED <<log, lastRead, hydrated, online, wire, disturbed>>

\* handleLoadOlder: what is above the first message shown.  Events may have put a
\* message there that the history, when it comes, replaces.
LoadOlder ==
    /\ IsOpen /\ ~pane.loadingOlder /\ ~pane.reachedStart
    /\ Count(thread, optimistic) > 0 /\ Move
    /\ pane' = [pane EXCEPT !.loadingOlder = TRUE]
    /\ IF hydrated THEN UNCHANGED disturbed
       ELSE "early" \in Disturbances /\ disturbed' = disturbed \cup {"thread"}
    /\ LET first == CHOOSE i \in Loaded(thread) \cup {Len(log) + 1} :
                       \A j \in Loaded(thread) : i <= j
       IN calls' = Append(calls, NewCall("older", first, Gone, 0))
    /\ UNCHANGED <<log, lastRead, thread, optimistic, hydrated, badge, online, wire>>

\* refreshConversations, called when the tab becomes visible, every 20 seconds
\* without a socket, and after a structural event.
Relist ==
    /\ Move
    /\ calls' = Append(calls, List)
    /\ UNCHANGED <<log, lastRead, thread, optimistic, hydrated, badge, pane, online, wire,
                   disturbed>>

-----------------------------------------------------------------------------
(* The server.                                                             *)

\* _notify: to the browser if its socket is open.
Notified(e) == IF online THEN <<e>> ELSE <<>>

\* An event that finds no socket is missed if the history has been read before.
MissedUnless(ok) ==
    IF ok \/ (~hydrated /\ ~ \E i \in DOMAIN calls : calls[i].op = "history" /\ calls[i].sent)
    THEN UNCHANGED disturbed ELSE "missed" \in Disturbances /\ disturbed' = disturbed \cup {"thread"}

\* The call under way commits: post_message, mark_read, or a read.  An answer
\* that is lost on its way looks like an error.
Serve(lost) ==
    /\ calls # <<>> /\ ~Head(calls).sent
    /\ IF lost THEN Mishap ELSE UNCHANGED spent
    /\ LET call == Head(calls)
           id   == Len(log) + 1
           note == CASE call.op = "send" -> Notified([type |-> "created", id |-> id,
                                                       body |-> call.body, by |-> "me"])
                     [] call.op = "read" -> Notified([type |-> "read", id |-> 0,
                                                       body |-> Gone, by |-> "me"])
                     [] OTHER -> <<>>
           page == CASE call.op = "history" -> Copy(PageBefore(id))
                     [] call.op = "older" -> Copy(PageBefore(call.at))
                     [] call.op = "send" -> [i \in Ids |-> IF i = id THEN call.body ELSE Absent]
                     [] OTHER -> [i \in Ids |-> Absent]
       IN
        /\ call.op = "send" => id \in Ids
        /\ log' = IF call.op = "send"
                  THEN Append(log, [by |-> "me", body |-> call.body, send |-> call.send])
                  ELSE log
        /\ lastRead' = IF call.op = "read" THEN Len(log) ELSE lastRead
        /\ wire' = wire \o note \o
             <<[type |-> IF lost THEN "error" ELSE "reply", messages |-> page,
                unread |-> UnreadCount]>>
        /\ disturbed' = IF lost /\ call.op = "list" THEN disturbed \cup {"badge"}
                        ELSE IF lost /\ call.op = "send" /\ ~online
                        THEN disturbed \cup {"thread"} ELSE disturbed
    /\ calls' = [calls EXCEPT ![1].sent = TRUE]
    /\ UNCHANGED <<thread, optimistic, hydrated, badge, pane, online>>

Refuse ==
    /\ calls # <<>> /\ ~Head(calls).sent
    /\ calls' = [calls EXCEPT ![1].sent = TRUE]
    /\ wire' = Append(wire, [type |-> "error", messages |-> [i \in Ids |-> Absent], unread |-> 0])
    /\ Disturb("refuse", "badge")
    /\ UNCHANGED <<log, lastRead, thread, optimistic, hydrated, badge, pane, online>>

\* post_message by somebody else.
OtherPosts(b) ==
    /\ Len(log) < MaxMessages
    /\ log' = Append(log, [by |-> "other", body |-> b, send |-> 0])
    /\ wire' = wire \o Notified([type |-> "created", id |-> Len(log) + 1, body |-> b,
                                 by |-> "other"])
    /\ MissedUnless(online)
    /\ UNCHANGED <<lastRead, thread, optimistic, hydrated, badge, pane, online, calls, spent>>

\* edit_message, asked for here or elsewhere: only its event changes the store.
Edit(i, b) ==
    /\ log[i].body \notin {b, Gone} /\ Move
    /\ log' = [log EXCEPT ![i].body = b]
    /\ wire' = wire \o Notified([type |-> "updated", id |-> i, body |-> b, by |-> log[i].by])
    /\ MissedUnless(online)
    /\ UNCHANGED <<lastRead, thread, optimistic, hydrated, badge, pane, online, calls>>

\* delete_message, likewise.
Delete(i) ==
    /\ log[i].body # Gone /\ Move
    /\ log' = [log EXCEPT ![i].body = Gone]
    /\ wire' = wire \o Notified([type |-> "deleted", id |-> i, body |-> Gone, by |-> log[i].by])
    /\ IF i > lastRead /\ log[i].by = "other"
       THEN /\ "retract" \in Disturbances
            /\ online \/ "missed" \in Disturbances
            /\ disturbed' = disturbed \cup {"badge"} \cup (IF online THEN {} ELSE {"thread"})
       ELSE MissedUnless(online)
    /\ UNCHANGED <<lastRead, thread, optimistic, hydrated, badge, pane, online, calls>>

\* mark_read from another tab or device.
ReadElsewhere ==
    /\ lastRead < Len(log) /\ Move
    /\ lastRead' = Len(log)
    /\ wire' = wire \o Notified([type |-> "read", id |-> 0, body |-> Gone, by |-> "me"])
    /\ UNCHANGED <<log, thread, optimistic, hydrated, badge, pane, online, calls, disturbed>>

-----------------------------------------------------------------------------
(* The browser receives.                                                   *)

ReceiveEvent(i) ==
    /\ wire[i] \in Event
    /\ \A j \in 1 .. i - 1 : wire[j] \in Answer
    /\ ApplyEvent(wire[i])
    /\ wire' = RemoveAt(wire, i)
    /\ CASE i > 1 -> /\ "overtake" \in Disturbances /\ Mishap
                     /\ disturbed' = disturbed \cup {"thread", "badge"}
         [] i = 1 /\ wire[i].type = "updated" /\ hydrated /\ thread[wire[i].id] = Absent ->
                     Disturb("editold", "thread")
         [] OTHER -> Undisturbed
    /\ UNCHANGED <<log, lastRead, hydrated, online, calls>>

\* The answer is all there is, and nothing has happened since it was read.
InPeace(op, current) ==
    Head(calls).op = op /\ Head(wire).type = "reply" /\ Len(calls) = 1 /\ Len(wire) = 1
        /\ ~pane.timer /\ current

\* loadMessagesAction: setMessages replaces what events have put there.
HistoryArrives(call, answer) ==
    IF answer.type = "reply" /\ call.live
    THEN /\ Show(answer.messages, [n \in Nonces |-> Absent], badge,
                 [pane EXCEPT !.reachedStart = Cardinality(Loaded(answer.messages)) < Page])
         /\ hydrated' = TRUE
    ELSE UNCHANGED <<thread, optimistic, badge, pane, hydrated>>

\* prependMessages; the pane that asked may be closed by now.
OlderArrives(answer) ==
    LET older == answer.messages
        short == answer.type = "reply" /\ Cardinality(Loaded(older)) < Page
    IN
    /\ Show([i \in Ids |-> IF thread[i] = Absent /\ answer.type = "reply"
                            THEN older[i] ELSE thread[i]],
            optimistic, badge,
            IF IsOpen THEN [pane EXCEPT !.loadingOlder = FALSE,
                                        !.reachedStart = @ \/ short] ELSE pane)
    /\ UNCHANGED hydrated

\* The rest of handleSend: the optimistic copy goes, the server's is shown.
SendArrives(call, answer) ==
    LET without == [optimistic EXCEPT ![call.at] = Absent]
        p == IF IsOpen THEN [pane EXCEPT !.sending = FALSE] ELSE pane
        sentId == CHOOSE i \in Loaded(answer.messages) : TRUE
    IN
    /\ IF answer.type = "reply"
       THEN Show(Merge(sentId, call.body),
                 [n \in Nonces |-> IF n = call.at THEN Absent
                                   ELSE WithoutEcho("me", call.body)[n]], badge, p)
       ELSE Show(thread, without, badge, p)
    /\ UNCHANGED hydrated

ReceiveAnswer ==
    /\ wire # <<>> /\ Head(wire) \in Answer
    /\ LET call == Head(calls)
           answer == Head(wire)
       IN
        CASE call.op = "history" -> HistoryArrives(call, answer)
          [] call.op = "older"   -> OlderArrives(answer)
          [] call.op = "send"    -> SendArrives(call, answer)
          [] call.op = "list" /\ answer.type = "reply" ->
                badge' = answer.unread /\ UNCHANGED <<thread, optimistic, pane, hydrated>>
          [] OTHER -> UNCHANGED <<thread, optimistic, badge, pane, hydrated>>
    /\ disturbed' =
         IF InPeace("history", Head(calls).live /\ Head(wire).messages = Copy(PageBefore(Len(log) + 1)))
         THEN disturbed \ {"thread"}
         ELSE IF InPeace("list", Head(wire).unread = UnreadCount)
         THEN disturbed \ {"badge"} ELSE disturbed
    /\ calls' = Tail(calls) /\ wire' = Tail(wire)
    /\ UNCHANGED <<log, lastRead, online, spent>>

\* The socket opens: onopen re-lists the conversations.
Connect ==
    /\ ~online /\ online' = TRUE
    /\ calls' = Append(calls, List)
    /\ UNCHANGED <<log, lastRead, thread, optimistic, hydrated, badge, pane, wire, spent,
                   disturbed>>

\* What is left of the wire without the events: one answer is awaited at a time.
AnswersOnly(q) ==
    LET answers == {i \in DOMAIN q : q[i] \in Answer}
    IN IF answers = {} THEN <<>> ELSE <<q[CHOOSE i \in answers : TRUE]>>

\* The socket is cut, or the messages area is left: events on the wire are lost.
Cut ==
    /\ online /\ Mishap
    /\ online' = FALSE
    /\ wire' = AnswersOnly(wire)
    /\ MissedUnless(\A i \in DOMAIN wire : wire[i] \in Answer)
    /\ UNCHANGED <<log, lastRead, thread, optimistic, hydrated, badge, pane, calls>>

MessagingNext ==
    \/ OpenThread \/ CloseThread \/ TimerFires \/ LoadOlder \/ Relist
    \/ \E b \in Bodies : Send(b) \/ OtherPosts(b)
    \/ \E i \in DOMAIN log : Delete(i) \/ \E b \in Bodies : Edit(i, b)
    \/ \E lost \in BOOLEAN : Serve(lost)
    \/ Refuse \/ ReadElsewhere
    \/ \E i \in DOMAIN wire : ReceiveEvent(i)
    \/ ReceiveAnswer \/ Connect \/ Cut

MessagingSpec == MessagingInit /\ [][MessagingNext]_messagingVars

-----------------------------------------------------------------------------
(* Properties.                                                             *)

\* Nothing is under way that concerns this browser.
Settled == online /\ wire = <<>> /\ calls = <<>> /\ ~pane.timer

\* The server's messages from the first one shown on, and nothing else.
ShowsTheLog ==
    /\ \A i \in DOMAIN log :
         thread[i] = (IF \E j \in Loaded(thread) : j <= i THEN log[i].body ELSE Absent)
    /\ \A n \in Nonces : optimistic[n] = Absent
    /\ thread[Len(log)] # Absent

\* A loaded thread is "kept live by the store" (MessageThread.tsx): once nothing is
\* under way it shows the newest messages without a gap, whatever the order in which
\* answers and echoes came, as long as no disturbance has spoilt it.
ThreadConverges ==
    Settled /\ hydrated /\ log # <<>> /\ "thread" \notin disturbed => ShowsTheLog

\* "so a missed event always reconciles" (MessagingProvider.tsx): the same, disturbances
\* or not.
ThreadReconciles == Settled /\ hydrated /\ log # <<>> => ShowsTheLog

\* The list's badge is the server's unread count once nothing is under way, also
\* after sockets were lost; after a disturbance, from the next list in peace on.
BadgeConverges == Settled /\ "badge" \notin disturbed => badge = UnreadCount

\* A sent message is never shown twice, as what the composer put there and as the
\* server's copy, whichever of the answer and the echo comes first.
SentOnce ==
    "thread" \notin disturbed =>
        \A n \in Nonces : optimistic[n] # Absent =>
            ~ \E i \in DOMAIN log : log[i].send = optimistic[n].send /\ thread[i] # Absent
=============================================================================

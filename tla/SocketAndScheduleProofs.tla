---------------------- MODULE SocketAndScheduleProofs -----------------------
(***************************************************************************)
(* Proofs about what runs by itself: RealtimeSocket, for the components    *)
(* whose effect keeps its flag and its socket in variables of its own      *)
(* (useRealtimeSocket.ts), and RecurringInvoices: no period is passed over, *)
(* and none is billed twice by requests that follow one another.           *)
(***************************************************************************)
EXTENDS RealtimeSocket, RecurringInvoices, TLAPS

-----------------------------------------------------------------------------
(* The socket.                                                             *)

\* What a run of the hook's effect may have going on.  A run that has been cleaned up is
\* closed, holds no socket that is not being closed, and can only come to nothing.
Tidy(r) ==
    /\ current[r] \in {0, r}
    /\ r > run => task[r] = "none" /\ current[r] = 0
    /\ r <= run /\ (r < run \/ ~mounted) => closed[r]
    /\ task[r] \in {"opening", "open"} => mounted /\ r = run /\ current[r] = r

SocketInv ==
    /\ SocketTypeOK
    /\ owner = "hook"
    /\ mounted => run \in Runs
    /\ \A r \in Runs : Tidy(r)

USE SocketAssumption DEF SocketAssumption

-----------------------------------------------------------------------------

LEMMA InitSocketInv ==
    ASSUME Owners = {"hook"}, SocketInit
    PROVE  SocketInv
<1>1. SocketTypeOK
  <2>1. closed \in [Runs -> BOOLEAN] /\ task \in [Runs -> Tasks] /\ current \in [Runs -> 0 .. MaxRuns]
    BY DEF SocketInit, Tasks
  <2>2. mounted \in BOOLEAN
    BY Zenon DEF SocketInit
  <2>3. owner \in OwnerKinds /\ run \in 0 .. MaxRuns /\ drops \in 0 .. MaxDrops
    BY DEF SocketInit, OwnerKinds
  <2>. QED
    BY <2>1, <2>2, <2>3, Zenon DEF SocketTypeOK
<1>2. ASSUME NEW r \in Runs  PROVE Tidy(r)
  BY <1>2 DEF SocketInit, Tidy, Runs
<1>3. owner = "hook" /\ ~mounted
  BY Zenon DEF SocketInit
<1>. QED
  BY <1>1, <1>2, <1>3, Zenon DEF SocketInv

LEMMA MountKeeps == ASSUME SocketInv, Mount PROVE SocketInv'
<1>1. closed' = [closed EXCEPT ![run + 1] = FALSE]
  BY DEF Mount, SetClosed, SharingFlag, SocketInv, SocketTypeOK
<1>2. run' = run + 1 /\ run + 1 \in Runs /\ run \in Nat /\ owner' = owner /\ drops' = drops
  BY DEF Mount, SocketInv, SocketTypeOK, Runs
<1>3. task' = [task EXCEPT ![run + 1] = "fetching"] /\ current' = current
  BY DEF Mount
<1>4. ~mounted /\ mounted' /\ mounted' \in BOOLEAN
  BY Zenon DEF Mount
<1>5. SocketTypeOK'
  <2>1. closed' \in [Runs -> BOOLEAN]
    BY <1>1, Zenon DEF SocketInv, SocketTypeOK
  <2>2. task' \in [Runs -> Tasks] /\ current' \in [Runs -> 0 .. MaxRuns] /\ run' \in 0 .. MaxRuns
    BY <1>2, <1>3 DEF SocketInv, SocketTypeOK, Tasks, Runs
  <2>. QED
    BY <1>2, <1>4, <2>1, <2>2, Zenon DEF SocketInv, SocketTypeOK
<1>6. ASSUME NEW r \in Runs  PROVE Tidy(r)'
  <2>1. r # run + 1 => (closed'[r] <=> closed[r])
    BY <1>1, <1>2, Zenon DEF SocketInv, SocketTypeOK
  <2>2. r <= run => closed[r]
    BY <1>4 DEF SocketInv, Tidy
  <2>3. task[r] \notin {"opening", "open"} /\ task'[r] \notin {"opening", "open"}
    BY <1>3, <1>4 DEF SocketInv, Tidy, SocketTypeOK
  <2>4. /\ current'[r] \in {0, r}
        /\ r > run' => task'[r] = "none" /\ current'[r] = 0
    BY <1>2, <1>3 DEF SocketInv, SocketTypeOK, Tidy, Runs
  <2>5. r < run' => closed'[r]
    BY <1>2, <2>1, <2>2 DEF Runs
  <2>. QED
    BY <1>4, <2>3, <2>4, <2>5 DEF Tidy
<1>. QED
  BY <1>2, <1>5, <1>6, Zenon DEF SocketInv

\* What cleaning up does to the tasks of the runs.
LEMMA CleaningUp ==
    ASSUME SocketInv, mounted
    PROVE  /\ CleanedUp \in [Runs -> Tasks]
           /\ \A r \in Runs : CleanedUp[r] = "none" \/ CleanedUp[r] = task[r] \/ CleanedUp[r] = "closing"
           /\ \A r \in Runs : CleanedUp[r] \notin {"opening", "open"}
           /\ \A r \in Runs : r > run => CleanedUp[r] = "none"
<1>. DEFINE t == [r \in Runs |-> IF r = run /\ task[r] = "waiting" THEN "none" ELSE task[r]]
<1>1. NoTimer(run, task) = t
  BY DEF NoTimer, SharingSocket, SocketInv
<1>2. CleanedUp = [r \in Runs |-> IF r = current[run] /\ t[r] \in {"opening", "open"}
                                 THEN "closing" ELSE t[r]]
  BY <1>1 DEF CleanedUp, CloseSocket
<1>. QED
  BY <1>2 DEF SocketInv, SocketTypeOK, Tidy, Runs, Tasks

LEMMA UnmountKeeps == ASSUME SocketInv, Unmount PROVE SocketInv'
<1>1. /\ mounted /\ ~mounted' /\ mounted' \in BOOLEAN
      /\ owner' = owner /\ run' = run /\ drops' = drops
      /\ task' = CleanedUp /\ run \in Runs
  BY Zenon DEF Unmount, SocketInv
<1>2. closed' = [closed EXCEPT ![run] = TRUE] /\ current' = [current EXCEPT ![run] = 0]
  BY DEF Unmount, SetClosed, SetSocket, SharingFlag, SharingSocket, SocketInv, SocketTypeOK
<1>3. SocketTypeOK'
  <2>1. closed' \in [Runs -> BOOLEAN]
    BY <1>2, Zenon DEF SocketInv, SocketTypeOK
  <2>2. current' \in [Runs -> 0 .. MaxRuns] /\ task' \in [Runs -> Tasks]
    BY <1>1, <1>2, CleaningUp DEF SocketInv, SocketTypeOK
  <2>. QED
    BY <1>1, <2>1, <2>2, Zenon DEF SocketInv, SocketTypeOK
<1>4. ASSUME NEW r \in Runs  PROVE Tidy(r)'
  <2>1. r # run => (closed'[r] <=> closed[r])
    BY <1>2, Zenon DEF SocketInv, SocketTypeOK
  <2>2. closed'[run]
    BY <1>1, <1>2, Zenon DEF SocketInv, SocketTypeOK
  <2>3. r < run => closed[r]
    BY DEF SocketInv, SocketTypeOK, Tidy, Runs
  <2>4. r <= run => closed'[r]
    BY <1>1, <2>1, <2>2, <2>3 DEF Runs
  <2>5. current'[r] \in {0, r} /\ (r > run => task'[r] = "none" /\ current'[r] = 0)
    BY <1>1, <1>2, CleaningUp DEF SocketInv, SocketTypeOK, Tidy
  <2>6. task'[r] \notin {"opening", "open"}
    BY <1>1, CleaningUp
  <2>. QED
    BY <1>1, <2>4, <2>5, <2>6 DEF Tidy
<1>. QED
  BY <1>1, <1>3, <1>4, Zenon DEF SocketInv

LEMMA RerunKeeps == ASSUME SocketInv, Rerun PROVE SocketInv'
<1>1. /\ mounted /\ mounted' /\ mounted' \in BOOLEAN
      /\ owner' = owner /\ run' = run + 1 /\ drops' = drops
      /\ task' = [CleanedUp EXCEPT ![run + 1] = "fetching"] /\ run \in Runs
  BY Zenon DEF Rerun, SocketInv, SocketTypeOK
<1>2. run + 1 \in Runs /\ run + 1 # run
  BY <1>1 DEF Rerun, Runs
<1>3. current' = [current EXCEPT ![run] = 0]
  BY DEF Rerun, SetSocket, SharingSocket, SocketInv, SocketTypeOK
<1>4. closed' = [r \in Runs |-> IF r = run + 1 THEN FALSE ELSE SetClosed(run, TRUE)[r]]
  BY DEF Rerun, SharingFlag, SocketInv
<1>5. \A r \in Runs : SetClosed(run, TRUE)[r] = IF r = run THEN TRUE ELSE closed[r]
  BY DEF SetClosed, SharingFlag, SocketInv
<1>6. SocketTypeOK'
  <2>1. closed' \in [Runs -> BOOLEAN]
    <3>1. \A r \in Runs : closed[r] \in BOOLEAN
      BY Zenon DEF SocketInv, SocketTypeOK
    <3>2. \A r \in Runs : SetClosed(run, TRUE)[r] \in BOOLEAN
      BY <1>5, <3>1, Zenon
    <3>. QED
      BY <1>4, <3>2, Zenon
  <2>2. current' \in [Runs -> 0 .. MaxRuns] /\ task' \in [Runs -> Tasks] /\ run' \in 0 .. MaxRuns
    BY <1>1, <1>2, <1>3, CleaningUp DEF SocketInv, SocketTypeOK, Tasks, Runs
  <2>. QED
    BY <1>1, <2>1, <2>2, Zenon DEF SocketInv, SocketTypeOK
<1>7. ASSUME NEW r \in Runs  PROVE Tidy(r)'
  <2>1. r # run /\ r # run + 1 => (closed'[r] <=> closed[r])
    BY <1>4, <1>5, Zenon
  <2>2. closed'[run]
    BY <1>1, <1>2, <1>4, <1>5, Zenon
  <2>3. r < run => closed[r]
    BY DEF SocketInv, SocketTypeOK, Tidy, Runs
  <2>4. r < run + 1 => closed'[r]
    BY <1>1, <2>1, <2>2, <2>3 DEF Runs
  <2>5. current'[r] \in {0, r} /\ (r > run' => task'[r] = "none" /\ current'[r] = 0)
    BY <1>1, <1>2, <1>3, CleaningUp DEF SocketInv, SocketTypeOK, Tidy, Runs
  <2>6. task'[r] \notin {"opening", "open"}
    BY <1>1, CleaningUp
  <2>. QED
    BY <1>1, <2>4, <2>5, <2>6 DEF Tidy
<1>. QED
  BY <1>1, <1>2, <1>6, <1>7, Zenon DEF SocketInv

LEMMA TicketArrivesKeeps ==
    ASSUME SocketInv, NEW e \in Runs, TicketArrives(e)
    PROVE  SocketInv'
BY DEF SocketInv, SocketTypeOK, TicketArrives, Bails, SetSocket, SharingSocket, OwnerKinds,
       Runs, Tasks, Tidy

LEMMA TicketRefusedKeeps ==
    ASSUME SocketInv, NEW e \in Runs, TicketRefused(e)
    PROVE  SocketInv'
BY DEF SocketInv, SocketTypeOK, TicketRefused, Rescheduled, NoTimer, SharingSocket, OwnerKinds,
       Runs, Tasks, Tidy

LEMMA SocketOpensKeeps ==
    ASSUME SocketInv, NEW e \in Runs, SocketOpens(e)
    PROVE  SocketInv'
BY DEF SocketInv, SocketTypeOK, SocketOpens, OwnerKinds, Runs, Tasks, Tidy

LEMMA SocketClosesKeeps ==
    ASSUME SocketInv, NEW e \in Runs, SocketCloses(e)
    PROVE  SocketInv'
BY DEF SocketInv, SocketTypeOK, SocketCloses, OnClose, Rescheduled, NoTimer, SetSocket,
       SharingSocket, OwnerKinds, Runs, Tasks, Tidy

LEMMA SocketLostKeeps ==
    ASSUME SocketInv, NEW e \in Runs, SocketLost(e)
    PROVE  SocketInv'
BY DEF SocketInv, SocketTypeOK, SocketLost, OnClose, Rescheduled, NoTimer, SetSocket,
       SharingSocket, OwnerKinds, Runs, Tasks, Tidy

LEMMA TimerFiresKeeps ==
    ASSUME SocketInv, NEW e \in Runs, TimerFires(e)
    PROVE  SocketInv'
BY DEF SocketInv, SocketTypeOK, TimerFires, OwnerKinds, Runs, Tasks, Tidy

\* The invariant is inductive: every step of the component keeps it.
LEMMA SocketNextKeeps ==
    ASSUME SocketInv, [SocketNext]_socketVars
    PROVE  SocketInv'
<1>1. CASE Mount
  BY <1>1, MountKeeps
<1>2. CASE Unmount
  BY <1>2, UnmountKeeps
<1>3. CASE Rerun
  BY <1>3, RerunKeeps
<1>4. ASSUME NEW e \in Runs, Progress(e)  PROVE SocketInv'
  BY <1>4, TicketArrivesKeeps, SocketOpensKeeps, SocketClosesKeeps, TimerFiresKeeps DEF Progress
<1>5. ASSUME NEW e \in Runs, TicketRefused(e)  PROVE SocketInv'
  BY <1>5, TicketRefusedKeeps
<1>6. ASSUME NEW e \in Runs, SocketLost(e)  PROVE SocketInv'
  BY <1>6, SocketLostKeeps
<1>7. CASE UNCHANGED socketVars
  BY <1>7 DEF socketVars, SocketInv, SocketTypeOK, Tidy
<1>. QED
  BY <1>1, <1>2, <1>3, <1>4, <1>5, <1>6, <1>7 DEF SocketNext

\* The variables of the hook keep their types.
THEOREM SocketTypes ==
    ASSUME Owners = {"hook"}
    PROVE  SocketSpec => []SocketTypeOK
<1>1. SocketInit => SocketInv
  BY InitSocketInv
<1>2. SocketInv /\ [SocketNext]_socketVars => SocketInv'
  BY SocketNextKeeps
<1>3. SocketInv => SocketTypeOK
  BY DEF SocketInv
<1>. QED
  BY <1>1, <1>2, <1>3, PTL DEF SocketSpec

\* However often the component mounts, unmounts and re-runs its effect, and whatever was in
\* flight then (useRealtimeSocket.ts): a socket that nobody is closing is that of the mounted
\* component's latest run.
THEOREM OneSocket ==
    ASSUME Owners = {"hook"}
    PROVE  SocketSpec => []NoStraySocket
<1>1. SocketInit => SocketInv
  BY InitSocketInv
<1>2. SocketInv /\ [SocketNext]_socketVars => SocketInv'
  BY SocketNextKeeps
<1>3. SocketInv => NoStraySocket
  BY DEF SocketInv, NoStraySocket, Tidy
<1>. QED
  BY <1>1, <1>2, <1>3, PTL DEF SocketSpec

HIDE SocketAssumption DEF SocketAssumption

-----------------------------------------------------------------------------
(* The schedules.                                                          *)

\* The dates a request holds are of periods within the bound, and every earlier period
\* has an invoice; the period of a schedule it has created has one, too.
LoadTidy(l) ==
    /\ load[l].todo \cap load[l].created = {}
    /\ \A s \in Held(l) :
        /\ load[l].dates[s] \in Periods
        /\ \A p \in Periods : p < load[l].dates[s] => made[s][p] >= 1
    /\ \A s \in load[l].created : made[s][load[l].dates[s]] >= 1
    /\ \A s, t \in load[l].created : s = t

SkippedInv ==
    /\ RecurringTypeOK
    /\ NoPeriodSkipped
    /\ \A l \in Loads : LoadTidy(l)

\* Of a schedule that two requests never held at once: one request holds it, at its own
\* date; the periods from that date on have no invoice, but for the one just created.
AloneTidy(s) ==
    /\ \A l, m \in Loads : s \in Held(l) /\ s \in Held(m) => l = m
    /\ \A l \in Loads : s \in Held(l) => load[l].dates[s] = next[s]
    /\ \A p \in Periods :
        /\ made[s][p] <= 1
        /\ p > next[s] => made[s][p] = 0
        /\ p = next[s] /\ (\A l \in Loads : s \notin load[l].created) => made[s][p] = 0

RecurringInv ==
    /\ SkippedInv
    /\ \A s \in Schedules \ shared : AloneTidy(s)

USE RecurringAssumption DEF RecurringAssumption

-----------------------------------------------------------------------------
(* Types and periods passed over.                                           *)

LEMMA InitRecurringInv == RecurringInit => RecurringInv
<1>. SUFFICES ASSUME RecurringInit  PROVE RecurringInv
  OBVIOUS
<1>. USE DEF RecurringInit
<1>1. RecurringTypeOK
  BY DEF RecurringTypeOK, Nobody, Periods
<1>2. NoPeriodSkipped
  BY DEF NoPeriodSkipped, Periods
<1>3. ASSUME NEW l \in Loads  PROVE Held(l) = {} /\ load[l].created = {} /\ load[l].todo = {}
  BY DEF Held, Nobody
<1>4. ASSUME NEW l \in Loads  PROVE LoadTidy(l)
  BY <1>3 DEF LoadTidy
<1>5. ASSUME NEW s \in Schedules  PROVE AloneTidy(s)
  BY <1>3 DEF AloneTidy, Periods
<1>. QED
  BY <1>1, <1>2, <1>4, <1>5 DEF RecurringInv, SkippedInv

\* Steps that leave the invoices, the dates and the requests alone.
LEMMA QuietKeeps ==
    ASSUME RecurringInv, UNCHANGED <<next, made, load>>, shared' = shared, RecurringTypeOK'
    PROVE  RecurringInv'
<1>1. NoPeriodSkipped'
  BY DEF RecurringInv, SkippedInv, NoPeriodSkipped
<1>2. \A l \in Loads : Held(l)' = Held(l)
  BY DEF Held
<1>3. \A l \in Loads : LoadTidy(l)'
  BY <1>2 DEF RecurringInv, SkippedInv, LoadTidy
<1>4. \A s \in Schedules \ shared' : AloneTidy(s)'
  BY <1>2 DEF RecurringInv, AloneTidy
<1>. QED
  BY <1>1, <1>3, <1>4 DEF RecurringInv, SkippedInv

LEMMA NewPeriodKeeps == ASSUME RecurringInv, NewPeriod PROVE RecurringInv'
<1>1. RecurringTypeOK'
  BY DEF RecurringInv, SkippedInv, RecurringTypeOK, NewPeriod
<1>. QED
  BY <1>1, QuietKeeps DEF NewPeriod

LEMMA ToggleKeeps == ASSUME RecurringInv, NEW s \in Schedules, Toggle(s) PROVE RecurringInv'
<1>1. active' \in [Schedules -> BOOLEAN]
  BY Zenon DEF RecurringInv, SkippedInv, RecurringTypeOK, Toggle
<1>2. breaks' \in 0 .. MaxBreaks
  BY DEF RecurringInv, SkippedInv, RecurringTypeOK, Toggle
<1>3. RecurringTypeOK'
  BY <1>1, <1>2, Zenon DEF RecurringInv, SkippedInv, RecurringTypeOK, Toggle
<1>. QED
  BY <1>3, QuietKeeps DEF Toggle

\* A request takes schedules whose dates are within the bound.
LEMMA BeginKeeps ==
    ASSUME RecurringInv, NEW l \in Loads, NEW S \in SUBSET Schedules, Begin(l, S),
           \A s \in S : next[s] <= MaxPeriod
    PROVE  RecurringInv'
<1>. USE DEF RecurringInv, SkippedInv
<1>1. /\ load' = [load EXCEPT ![l] = [todo |-> S, dates |-> next, created |-> {}]]
      /\ load[l].todo = {} /\ load[l].created = {}
      /\ UNCHANGED <<next, active, made, today, breaks>>
  BY DEF Begin, Nobody
<1>2. RecurringTypeOK'
  <2>1. [todo |-> S, dates |-> next, created |-> {}] \in
          [todo: SUBSET Schedules, dates: [Schedules -> 1 .. MaxPeriod + 1], created: SUBSET Schedules]
    BY DEF RecurringTypeOK
  <2>2. load' \in [Loads -> [todo: SUBSET Schedules, dates: [Schedules -> 1 .. MaxPeriod + 1],
                             created: SUBSET Schedules]]
    BY <1>1, <2>1, Zenon DEF RecurringTypeOK
  <2>3. shared' \in SUBSET Schedules
    BY DEF RecurringTypeOK, Begin
  <2>. QED
    BY <1>1, <2>2, <2>3, Zenon DEF RecurringTypeOK
<1>3. /\ load'[l] = [todo |-> S, dates |-> next, created |-> {}]
      /\ \A m \in Loads : m # l => load'[m] = load[m]
  BY <1>1 DEF RecurringTypeOK
<1>4. Held(l) = {} /\ Held(l)' = S /\ \A m \in Loads : m # l => Held(m)' = Held(m)
  BY <1>1, <1>3 DEF Held
<1>5. NoPeriodSkipped'
  BY <1>1 DEF NoPeriodSkipped
<1>6. ASSUME NEW m \in Loads  PROVE LoadTidy(m)'
  <2>1. CASE m = l
    <3>1. \A s \in S : next[s] \in Periods
      BY DEF RecurringTypeOK, Periods
    <3>. QED
      BY <1>1, <1>3, <1>4, <2>1, <3>1 DEF LoadTidy, NoPeriodSkipped
  <2>2. CASE m # l
    BY <1>1, <1>3, <1>4, <2>2 DEF LoadTidy
  <2>. QED
    BY <2>1, <2>2
<1>7. ASSUME NEW s \in Schedules \ shared'  PROVE AloneTidy(s)'
  <2>1. s \notin shared /\ (s \in S => \A m \in Loads : s \notin Held(m))
    BY DEF Begin
  <2>2. AloneTidy(s)
    BY <2>1
  <2>3. \A m, n \in Loads : s \in Held(m)' /\ s \in Held(n)' => m = n
    BY <1>4, <2>1, <2>2 DEF AloneTidy
  <2>4. \A m \in Loads : s \in Held(m)' => load'[m].dates[s] = next'[s]
    BY <1>1, <1>3, <1>4, <2>2 DEF AloneTidy
  <2>5. (\A m \in Loads : s \notin load'[m].created) => \A m \in Loads : s \notin load[m].created
    BY <1>1, <1>3
  <2>. QED
    BY <1>1, <2>2, <2>3, <2>4, <2>5 DEF AloneTidy
<1>. QED
  BY <1>2, <1>5, <1>6, <1>7

LEMMA CreateKeeps ==
    ASSUME RecurringInv, NEW l \in Loads, NEW s \in Schedules, Create(l, s)
    PROVE  RecurringInv'
<1>. USE DEF RecurringInv, SkippedInv
<1>. DEFINE p == load[l].dates[s]
<1>1. /\ s \in load[l].todo /\ load[l].created = {} /\ s \in Held(l) /\ p \in Periods
      /\ load[l] \in [todo: SUBSET Schedules, dates: [Schedules -> 1 .. MaxPeriod + 1],
                      created: SUBSET Schedules]
      /\ UNCHANGED <<next, active, today, shared, breaks>>
  BY DEF Create, Held, LoadTidy, RecurringTypeOK
<1>2. /\ load'[l] = [load[l] EXCEPT !.todo = @ \ {s}, !.created = {s}]
      /\ load' = [load EXCEPT ![l] = [load[l] EXCEPT !.todo = @ \ {s}, !.created = {s}]]
      /\ \A m \in Loads : m # l => load'[m] = load[m]
  BY DEF Create, RecurringTypeOK
<1>3. /\ load'[l].todo = load[l].todo \ {s} /\ load'[l].created = {s}
      /\ load'[l].dates = load[l].dates
  BY <1>1, <1>2
<1>4. \A m \in Loads : Held(m)' = Held(m)
  BY <1>1, <1>2, <1>3 DEF Held
<1>5. /\ made' \in [Schedules -> [Periods -> 0 .. 2]]
      /\ made'[s][p] = IF made[s][p] = 2 THEN 2 ELSE made[s][p] + 1
      /\ \A q \in Periods : q # p => made'[s][q] = made[s][q]
      /\ \A t \in Schedules : t # s => made'[t] = made[t]
  BY <1>1 DEF Create, RecurringTypeOK
<1>6. \A t \in Schedules, q \in Periods : made[t][q] >= 1 => made'[t][q] >= 1
  BY <1>5 DEF RecurringTypeOK
<1>7. RecurringTypeOK'
  <2>1. load' \in [Loads -> [todo: SUBSET Schedules, dates: [Schedules -> 1 .. MaxPeriod + 1],
                             created: SUBSET Schedules]]
    BY <1>1, <1>2 DEF RecurringTypeOK
  <2>. QED
    BY <1>1, <1>5, <2>1, Zenon DEF RecurringTypeOK
<1>8. NoPeriodSkipped'
  BY <1>1, <1>6 DEF NoPeriodSkipped
<1>9. ASSUME NEW m \in Loads  PROVE LoadTidy(m)'
  <2>1. LoadTidy(m) /\ Held(m) \subseteq Schedules /\ load[m].created \subseteq Held(m)
    BY DEF RecurringTypeOK, Held
  <2>2. load'[m].dates = load[m].dates
    BY <1>2, <1>3
  <2>3. \A t \in Held(m)' : /\ load'[m].dates[t] \in Periods
                            /\ \A q \in Periods : q < load'[m].dates[t] => made'[t][q] >= 1
    BY <1>4, <1>6, <2>1, <2>2 DEF LoadTidy
  <2>4. CASE m = l
    <3>1. made'[s][p] >= 1
      BY <1>1, <1>5 DEF RecurringTypeOK
    <3>. QED
      BY <1>3, <2>2, <2>3, <2>4, <3>1 DEF LoadTidy
  <2>5. CASE m # l
    BY <1>2, <1>6, <2>1, <2>3, <2>5 DEF LoadTidy
  <2>. QED
    BY <2>4, <2>5
<1>10. ASSUME NEW t \in Schedules \ shared'  PROVE AloneTidy(t)'
  <2>1. AloneTidy(t)
    BY <1>1
  <2>2. /\ \A m, n \in Loads : t \in Held(m)' /\ t \in Held(n)' => m = n
        /\ \A m \in Loads : t \in Held(m)' => load'[m].dates[t] = next'[t]
    BY <1>1, <1>2, <1>3, <1>4, <2>1 DEF AloneTidy
  <2>3. CASE t = s
    <3>1. p = next[s]
      BY <1>1, <2>1, <2>3 DEF AloneTidy
    <3>2. \A m \in Loads : s \notin load[m].created
      <4>1. \A m \in Loads : s \in load[m].created => m = l
        BY <1>1, <2>1, <2>3 DEF AloneTidy, Held
      <4>. QED
        BY <1>1, <4>1
    <3>3. made[s][p] = 0
      BY <1>1, <2>1, <2>3, <3>1, <3>2 DEF AloneTidy
    <3>4. \A q \in Periods : made'[s][q] <= 1 /\ (q > next'[s] => made'[s][q] = 0)
      <4>1. next'[s] = next[s]
        BY <1>1
      <4>2. \A q \in Periods : made[s][q] <= 1 /\ (q > next[s] => made[s][q] = 0)
        BY <2>1, <2>3 DEF AloneTidy
      <4>3. made'[s][p] = 1
        BY <1>1, <1>5, <3>3
      <4>4. ASSUME NEW q \in Periods
            PROVE  made'[s][q] <= 1 /\ (q > next'[s] => made'[s][q] = 0)
        <5>1. CASE q = p
          BY <3>1, <4>1, <4>3, <5>1 DEF Periods
        <5>2. CASE q # p
          BY <1>5, <4>1, <4>2, <5>2 DEF Periods
        <5>. QED
          BY <5>1, <5>2
      <4>. QED
        BY <4>4
    <3>5. s \in load'[l].created
      BY <1>3
    <3>. QED
      BY <2>2, <2>3, <3>4, <3>5 DEF AloneTidy
  <2>4. CASE t # s
    <3>1. \A m \in Loads : t \in load'[m].created <=> t \in load[m].created
      BY <1>1, <1>2, <1>3, <2>4
    <3>. QED
      BY <1>1, <1>5, <2>1, <2>2, <2>4, <3>1 DEF AloneTidy
  <2>. QED
    BY <2>3, <2>4
<1>. QED
  BY <1>7, <1>8, <1>9, <1>10

LEMMA AdvanceKeeps ==
    ASSUME RecurringInv, NEW l \in Loads, NEW s \in Schedules, Advance(l, s)
    PROVE  RecurringInv'
<1>. USE DEF RecurringInv, SkippedInv
<1>. DEFINE p == load[l].dates[s]
<1>1. /\ s \in load[l].created /\ s \in Held(l) /\ s \notin load[l].todo /\ p \in Periods
      /\ load[l] \in [todo: SUBSET Schedules, dates: [Schedules -> 1 .. MaxPeriod + 1],
                      created: SUBSET Schedules]
      /\ UNCHANGED <<active, made, today, shared, breaks>>
  BY DEF Advance, Held, LoadTidy, RecurringTypeOK
<1>2. /\ next'[s] = p + 1 /\ p + 1 \in 1 .. MaxPeriod + 1
      /\ \A t \in Schedules : t # s => next'[t] = next[t]
      /\ next' \in [Schedules -> 1 .. MaxPeriod + 1]
  <2>1. next' = [next EXCEPT ![s] = p + 1]
    BY DEF Advance, Following
  <2>. QED
    BY <1>1, <2>1 DEF RecurringTypeOK, Periods
<1>3. /\ \A m \in Loads : m # l => load'[m] = load[m]
      /\ load'[l].created = {} /\ load'[l].todo = load[l].todo
      /\ load[l].todo # {} => load'[l].dates = load[l].dates
      /\ load' \in [Loads -> [todo: SUBSET Schedules, dates: [Schedules -> 1 .. MaxPeriod + 1],
                              created: SUBSET Schedules]]
  <2>1. CASE load[l].todo = {}
    <3>1. load' = [load EXCEPT ![l] = Nobody]
      BY <2>1 DEF Advance
    <3>2. Nobody \in [todo: SUBSET Schedules, dates: [Schedules -> 1 .. MaxPeriod + 1],
                      created: SUBSET Schedules]
      BY DEF Nobody
    <3>3. Nobody.todo = {} /\ Nobody.created = {}
      BY DEF Nobody
    <3>. QED
      BY <2>1, <3>1, <3>2, <3>3 DEF RecurringTypeOK
  <2>2. CASE load[l].todo # {}
    <3>1. load' = [load EXCEPT ![l] = [load[l] EXCEPT !.created = {}]]
      BY <2>2 DEF Advance
    <3>. QED
      BY <1>1, <3>1 DEF RecurringTypeOK
  <2>. QED
    BY <2>1, <2>2
<1>4. /\ Held(l)' = load[l].todo /\ Held(l)' \subseteq Held(l)
      /\ \A m \in Loads : m # l => Held(m)' = Held(m)
  BY <1>3 DEF Held
<1>5. RecurringTypeOK'
  BY <1>1, <1>2, <1>3, Zenon DEF RecurringTypeOK
<1>6. NoPeriodSkipped'
  <2>1. ASSUME NEW q \in Periods, q < p + 1  PROVE made[s][q] >= 1
    <3>1. q < p \/ q = p
      BY <1>1, <2>1 DEF Periods
    <3>. QED
      BY <1>1, <3>1 DEF LoadTidy
  <2>. QED
    BY <1>1, <1>2, <2>1 DEF NoPeriodSkipped
<1>7. ASSUME NEW m \in Loads  PROVE LoadTidy(m)'
  <2>1. LoadTidy(m)
    OBVIOUS
  <2>2. CASE m = l
    BY <1>1, <1>3, <1>4, <2>1, <2>2 DEF LoadTidy, Held
  <2>3. CASE m # l
    BY <1>1, <1>3, <1>4, <2>1, <2>3 DEF LoadTidy
  <2>. QED
    BY <2>2, <2>3
<1>8. ASSUME NEW t \in Schedules \ shared'  PROVE AloneTidy(t)'
  <2>1. AloneTidy(t)
    BY <1>1
  <2>2. CASE t = s
    <3>1. p = next[s]
      BY <1>1, <2>1, <2>2 DEF AloneTidy
    <3>2. \A m \in Loads : s \notin Held(m)'
      BY <1>1, <1>4, <2>1, <2>2 DEF AloneTidy
    <3>3. \A q \in Periods : made[s][q] <= 1 /\ (q > p => made[s][q] = 0)
      BY <2>1, <2>2, <3>1 DEF AloneTidy
    <3>4. \A q \in Periods : q > p + 1 \/ q = p + 1 => q > p
      BY <1>1 DEF Periods
    <3>. QED
      BY <1>1, <1>2, <2>2, <3>2, <3>3, <3>4 DEF AloneTidy
  <2>3. CASE t # s
    <3>1. \A m \in Loads : t \in Held(m)' => t \in Held(m) /\ load'[m].dates[t] = load[m].dates[t]
      BY <1>3, <1>4
    <3>2. load[l].created = {s}
      BY <1>1 DEF LoadTidy
    <3>3. (\A m \in Loads : t \notin load'[m].created) => \A m \in Loads : t \notin load[m].created
      BY <1>3, <2>3, <3>2
    <3>. QED
      BY <1>1, <1>2, <2>1, <2>3, <3>1, <3>3 DEF AloneTidy
  <2>. QED
    BY <2>2, <2>3
<1>. QED
  BY <1>5, <1>6, <1>7, <1>8

\* A request that ends before it is done lets go of what it holds.  It has created
\* nothing that is not advanced, unless its schedules are excused from now on.
LEMMA LettingGoKeeps ==
    ASSUME RecurringInv, NEW l \in Loads, load' = [load EXCEPT ![l] = Nobody],
           UNCHANGED <<next, active, made, today>>, breaks' \in 0 .. MaxBreaks,
           shared' = shared \cup load[l].created
    PROVE  RecurringInv'
<1>. USE DEF RecurringInv, SkippedInv
<1>1. /\ load'[l] = Nobody /\ Nobody.todo = {} /\ Nobody.created = {}
      /\ \A m \in Loads : m # l => load'[m] = load[m]
      /\ load' \in [Loads -> [todo: SUBSET Schedules, dates: [Schedules -> 1 .. MaxPeriod + 1],
                              created: SUBSET Schedules]]
  BY DEF RecurringTypeOK, Nobody
<1>2. /\ Held(l)' = {} /\ \A m \in Loads : m # l => Held(m)' = Held(m)
  BY <1>1 DEF Held
<1>3. RecurringTypeOK'
  <2>1. shared' \in SUBSET Schedules
    BY DEF RecurringTypeOK
  <2>. QED
    BY <1>1, <2>1, Zenon DEF RecurringTypeOK
<1>4. NoPeriodSkipped'
  BY DEF NoPeriodSkipped
<1>5. ASSUME NEW m \in Loads  PROVE LoadTidy(m)'
  BY <1>1, <1>2 DEF LoadTidy
<1>6. ASSUME NEW t \in Schedules \ shared'  PROVE AloneTidy(t)'
  <2>1. AloneTidy(t) /\ t \notin load[l].created
    OBVIOUS
  <2>2. \A m \in Loads : t \in Held(m)' => t \in Held(m) /\ load'[m] = load[m]
    BY <1>1, <1>2
  <2>3. (\A m \in Loads : t \notin load'[m].created) => \A m \in Loads : t \notin load[m].created
    BY <1>1, <2>1
  <2>. QED
    BY <2>1, <2>2, <2>3 DEF AloneTidy
<1>. QED
  BY <1>3, <1>4, <1>5, <1>6

LEMMA GenerationFailsKeeps ==
    ASSUME RecurringInv, NEW l \in Loads, NEW s \in Schedules, GenerationFails(l, s)
    PROVE  RecurringInv'
<1>1. breaks' \in 0 .. MaxBreaks
  BY DEF RecurringInv, SkippedInv, RecurringTypeOK, GenerationFails
<1>2. shared' = shared \cup load[l].created
  BY DEF GenerationFails
<1>. QED
  BY <1>1, <1>2, LettingGoKeeps DEF GenerationFails, Abandon

LEMMA DiesKeeps ==
    ASSUME RecurringInv, NEW l \in Loads, Dies(l)
    PROVE  RecurringInv'
<1>1. breaks' \in 0 .. MaxBreaks
  BY DEF RecurringInv, SkippedInv, RecurringTypeOK, Dies
<1>. QED
  BY <1>1, LettingGoKeeps DEF Dies

\* The invariant is inductive.
LEMMA RecurringNextKeeps ==
    ASSUME RecurringInv, [RecurringNext]_recurringVars
    PROVE  RecurringInv'
<1>1. CASE NewPeriod
  BY <1>1, NewPeriodKeeps
<1>2. ASSUME NEW s \in Schedules, Toggle(s)  PROVE RecurringInv'
  BY <1>2, ToggleKeeps
<1>3. ASSUME NEW l \in Loads, OpenPage(l)  PROVE RecurringInv'
  <2>1. Due \in SUBSET Schedules /\ \A s \in Due : next[s] <= MaxPeriod
    BY DEF Due, RecurringInv, SkippedInv, RecurringTypeOK
  <2>. QED
    BY <1>3, <2>1, BeginKeeps DEF OpenPage
<1>4. ASSUME NEW l \in Loads, NEW s \in Schedules, RunNow(l, s)  PROVE RecurringInv'
  <2>1. {s} \in SUBSET Schedules /\ (\A t \in {s} : next[t] <= MaxPeriod) /\ Begin(l, {s})
    BY <1>4 DEF RunNow
  <2>. QED
    BY <2>1, BeginKeeps
<1>5. ASSUME NEW l \in Loads, Dies(l)  PROVE RecurringInv'
  BY <1>5, DiesKeeps
<1>6. ASSUME NEW l \in Loads, NEW s \in Schedules,
             Create(l, s) \/ Advance(l, s) \/ GenerationFails(l, s)
      PROVE  RecurringInv'
  BY <1>6, CreateKeeps, AdvanceKeeps, GenerationFailsKeeps
<1>7. CASE UNCHANGED recurringVars
  <2>1. RecurringTypeOK'
    BY <1>7, Zenon DEF recurringVars, RecurringInv, SkippedInv, RecurringTypeOK
  <2>. QED
    BY <1>7, <2>1, QuietKeeps DEF recurringVars
<1>. QED
  BY <1>1, <1>2, <1>3, <1>4, <1>5, <1>6, <1>7 DEF RecurringNext

-----------------------------------------------------------------------------

\* The schedules, the requests and the counters keep their types.
THEOREM RecurringTypes == RecurringSpec => []RecurringTypeOK
<1>1. RecurringInv => RecurringTypeOK
  BY DEF RecurringInv, SkippedInv
<1>. QED
  BY <1>1, InitRecurringInv, RecurringNextKeeps, PTL DEF RecurringSpec

\* catch_up_due_schedules and run_schedule_now never pass over a period, however many
\* requests overlap, fail between schedules or die between the commits of one.
THEOREM NothingSkipped == RecurringSpec => []NoPeriodSkipped
<1>1. RecurringInv => NoPeriodSkipped
  BY DEF RecurringInv, SkippedInv
<1>. QED
  BY <1>1, InitRecurringInv, RecurringNextKeeps, PTL DEF RecurringSpec

\* _generate_one bills a period once, for a schedule that no two requests held at once
\* and no request let go between its commits.
THEOREM BilledOncePerPeriod == RecurringSpec => []PeriodBilledOnce
<1>1. RecurringInv => PeriodBilledOnce
  BY DEF RecurringInv, AloneTidy, PeriodBilledOnce
<1>. QED
  BY <1>1, InitRecurringInv, RecurringNextKeeps, PTL DEF RecurringSpec
=============================================================================

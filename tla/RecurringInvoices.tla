------------------------- MODULE RecurringInvoices -------------------------
(***************************************************************************)
(* Recurring invoices: invoicing/recurring_service.py.  There is no        *)
(* worker; opening the page of schedules generates what has come due       *)
(* (catch_up_due_schedules), and a button generates one schedule now.      *)
(*                                                                         *)
(* A request loads the schedules it will generate at once, and for each    *)
(* creates the invoice in one commit and advances the schedule, from the   *)
(* date it loaded, in a later one.  Dates are counted in periods of the    *)
(* schedule.  Issuing in between (auto_issue) is left out, and so are      *)
(* edits that give a schedule a new start date.                            *)
(***************************************************************************)
EXTENDS Integers, FiniteSets

CONSTANTS
    Schedules,
    Bad,            \* schedules whose invoice cannot be created, a subset of Schedules
    Loads,          \* requests that may be under way at once
    MaxPeriod,      \* bound on time
    MaxBreaks       \* bound on pauses, and on requests that die or fail with a good schedule

ASSUME RecurringAssumption ==
    /\ Bad \subseteq Schedules
    /\ MaxPeriod \in Nat /\ MaxBreaks \in Nat

VARIABLES
    next,           \* next_run_date of each schedule
    active,         \* is_active
    made,           \* how many invoices each period of a schedule has, 2 for more than one
    today,
    load,           \* the requests: the schedules still to do, the dates as loaded, the one created
    shared,         \* history: schedules that two requests held at once, or one let go half way
    breaks

recurringVars == <<next, active, made, today, load, shared, breaks>>

Periods == 1 .. MaxPeriod

Nobody == [todo |-> {}, dates |-> [s \in Schedules |-> 1], created |-> {}]

RecurringTypeOK ==
    /\ next \in [Schedules -> 1 .. MaxPeriod + 1]
    /\ active \in [Schedules -> BOOLEAN]
    /\ made \in [Schedules -> [Periods -> 0 .. 2]]
    /\ today \in 0 .. MaxPeriod
    /\ load \in [Loads -> [todo: SUBSET Schedules, dates: [Schedules -> 1 .. MaxPeriod + 1],
                           created: SUBSET Schedules]]
    /\ shared \in SUBSET Schedules
    /\ breaks \in 0 .. MaxBreaks

Due == {s \in Schedules : active[s] /\ next[s] <= today}

Held(l) == load[l].todo \cup load[l].created

RecurringInit ==
    /\ next = [s \in Schedules |-> 1]
    /\ active = [s \in Schedules |-> TRUE]
    /\ made = [s \in Schedules |-> [p \in Periods |-> 0]]
    /\ today \in {0, MaxPeriod}
    /\ load = [l \in Loads |-> Nobody]
    /\ shared = {} /\ breaks = 0

-----------------------------------------------------------------------------

NewPeriod ==
    /\ today < MaxPeriod /\ today' = today + 1
    /\ UNCHANGED <<next, active, made, load, shared, breaks>>

\* set_active.
Toggle(s) ==
    /\ IF active[s] THEN breaks < MaxBreaks /\ breaks' = breaks + 1 ELSE UNCHANGED breaks
    /\ active' = [active EXCEPT ![s] = ~@]
    /\ UNCHANGED <<next, made, today, load, shared>>

Begin(l, S) ==
    /\ load[l] = Nobody /\ S # {}
    /\ load' = [load EXCEPT ![l] = [todo |-> S, dates |-> next, created |-> {}]]
    /\ shared' = shared \cup {s \in S : \E m \in Loads : s \in Held(m)}
    /\ UNCHANGED <<next, active, made, today, breaks>>

\* catch_up_due_schedules, called by list_schedules.
OpenPage(l) == Begin(l, Due)

\* run_schedule_now.
RunNow(l, s) == active[s] /\ next[s] <= MaxPeriod /\ Begin(l, {s})

\* _generate_one, up to the commit of create_invoice.
Create(l, s) ==
    LET p == load[l].dates[s] IN
    /\ load[l].created = {} /\ s \in load[l].todo \ Bad
    /\ made' = [made EXCEPT ![s][p] = IF @ = 2 THEN 2 ELSE @ + 1]
    /\ load' = [load EXCEPT ![l].todo = @ \ {s}, ![l].created = {s}]
    /\ UNCHANGED <<next, active, today, shared, breaks>>

\* Defect: the next date is counted from today.
FromToday(l, s) == today + 1

\* Defect: generating leaves the schedule where it is.
Staying(l, s) == load[l].dates[s]

\* _advance.
Following(l, s) == load[l].dates[s] + 1

\* The request is over when it has done the last schedule.
Advance(l, s) ==
    /\ s \in load[l].created
    /\ next' = [next EXCEPT ![s] = Following(l, s)]
    /\ load' = [load EXCEPT ![l] = IF load[l].todo = {} THEN Nobody ELSE [@ EXCEPT !.created = {}]]
    /\ UNCHANGED <<active, made, today, shared, breaks>>

\* Defect: the schedule is advanced before its invoice is created.
AbandonAdvanced(l) == [s \in Schedules |-> IF s \in load[l].todo THEN Following(l, s) ELSE next[s]]

Abandon(l) == next

\* A schedule fails: the rollback expires the schedules that were loaded, and the next use
\* of one, for the log or for the next turn of the loop, ends the request.
GenerationFails(l, s) ==
    /\ load[l].created = {} /\ s \in load[l].todo
    /\ IF s \in Bad THEN UNCHANGED breaks ELSE breaks < MaxBreaks /\ breaks' = breaks + 1
    /\ next' = Abandon(l)
    /\ load' = [load EXCEPT ![l] = Nobody]
    /\ UNCHANGED <<active, made, today, shared>>

\* The API dies between the commits.
Dies(l) ==
    /\ load[l].created # {}
    /\ breaks < MaxBreaks /\ breaks' = breaks + 1
    /\ shared' = shared \cup load[l].created
    /\ load' = [load EXCEPT ![l] = Nobody]
    /\ UNCHANGED <<next, active, made, today>>

Generate(l) ==
    \E s \in Schedules : Create(l, s) \/ Advance(l, s) \/ (s \in Bad /\ GenerationFails(l, s))

RecurringNext ==
    \/ NewPeriod
    \/ \E s \in Schedules : Toggle(s)
    \/ \E l \in Loads :
        \/ OpenPage(l) \/ Dies(l)
        \/ \E s \in Schedules :
            RunNow(l, s) \/ Create(l, s) \/ Advance(l, s) \/ GenerationFails(l, s)

RecurringSpec == RecurringInit /\ [][RecurringNext]_recurringVars

\* Requests get on, and somebody opens the page again.
RecurringFairness ==
    /\ \A l \in Loads : WF_recurringVars(Generate(l))
    /\ WF_recurringVars(\E l \in Loads : OpenPage(l))

RecurringFairSpec == RecurringSpec /\ RecurringFairness

-----------------------------------------------------------------------------
(* Properties.                                                             *)

\* No period is billed twice by requests that follow one another, however far behind a
\* schedule is, and whatever fails without dying between the two commits.
PeriodBilledOnce == \A s \in Schedules \ shared : \A p \in Periods : made[s][p] <= 1

\* No period is passed over: a schedule has advanced only past periods that have an
\* invoice, also when requests overlap, fail or die.
NoPeriodSkipped == \A s \in Schedules : \A p \in Periods : p < next[s] => made[s][p] >= 1

\* "one bad schedule never blocks the rest" (catch_up_due_schedules): a period that has come
\* is billed in the end, unless the schedule is paused; however far behind it was, and
\* although the failure of another schedule ends the request that would have billed it.
DueIsBilled ==
    \A s \in Schedules \ Bad : \A p \in Periods :
        (next[s] = p /\ p <= today) ~> (made[s][p] >= 1 \/ ~active[s])
=============================================================================

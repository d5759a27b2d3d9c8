---------------------------- MODULE CalendarPlan ----------------------------
(***************************************************************************)
(* A planning run replaces what is planned in a brand's calendar (agents    *)
(* workflows/planning/nodes.py, graph.py; shared/tools/database.py).  It    *)
(* generates week by week, in waves, for the whole horizon or for the weeks *)
(* that touch the months a user changed; then it deletes what is still      *)
(* planned there and inserts the new items, in two transactions.  All the   *)
(* while items are taken into generation.                                   *)
(*                                                                         *)
(* Days are numbers, and a month is MonthDays of them.  The items are known  *)
(* by their day and run; channels, campaigns and words are left out.  A day *)
(* the model writes need not lie in its week.  Earlier runs are what the    *)
(* calendar holds when this one begins.                                     *)
(***************************************************************************)
EXTENDS Integers, FiniteSets

CONSTANTS
    Today,      \* the day of the run; the year starts on day 0
    Weeks,      \* the horizon, scope_weeks
    WeekDays,   \* batch_size_days
    MonthDays,  \* days in a month
    WaveSize    \* windows generated together

VARIABLES
    items,   \* calendar_items: the day, whether this run stored it, whether it is planned
    step,    \* the node of the run, or how it ended
    months,  \* target_months, empty for the whole horizon
    windows, \* batch windows to generate, by their first day
    failed,  \* whether a batch failed
    drafts,  \* the days generated
    before,  \* the items as the run found them
    cut      \* what went wrong in the store: "none", "purge", "insert"

plan_vars == <<items, step, months, windows, failed, drafts, before, cut>>

Month(day) == day \div MonthDays
Horizon == Today + Weeks * WeekDays

Item(day, new, planned) == [day |-> day, new |-> new, planned |-> planned]

\* What earlier runs left: items may be dated before the year and at its ends.
InitPlan ==
    /\ items \in {{Item(day, FALSE, TRUE) : day \in days} :
                      days \in {{}, {-1, Today - 1, Today}, {Today, Horizon}}}
    /\ step = "idle" /\ months = {} /\ windows = {}
    /\ failed = FALSE /\ drafts = {} /\ before = {} /\ cut = "none"

Proceed(next) == step' = next

----------------------------------------------------------------------------
(* What others do to the calendar *)

\* An item goes into generation.
Take ==
    /\ \E item \in items :
         /\ item.planned
         /\ items' = (items \ {item}) \cup {Item(item.day, item.new, FALSE)}
    /\ UNCHANGED <<step, months, windows, failed, drafts, before, cut>>

----------------------------------------------------------------------------
(* The run *)

\* The windows of the horizon, or those whose first or last day is in a month
\* to be planned again.
BatchWindows(targets) ==
    {first \in {Today + k * WeekDays : k \in 0..(Weeks - 1)} :
        \/ targets = {}
        \/ Month(first) \in targets \/ Month(first + WeekDays - 1) \in targets}

\* Without a strategy the run ends.
load_plan_strategy ==
    /\ step = "idle"
    /\ months' \in SUBSET {Month(day) : day \in Today..Horizon}
    /\ windows' = BatchWindows(months')
    /\ before' = items
    /\ Proceed("generate_campaigns") \/ Proceed("failed")
    /\ UNCHANGED <<items, failed, drafts, cut>>

\* Any campaign chunk or section that fails, or does not validate, ends it.
generate_campaigns ==
    /\ step = "generate_campaigns"
    /\ Proceed("generate_calendar") \/ Proceed("failed")
    /\ UNCHANGED <<items, months, windows, failed, drafts, before, cut>>

\* The days one batch may write; an answer that cannot be parsed is no items
\* and no failure, and a day may lie anywhere.
_run_batch(first) == {first, first + WeekDays - 1, -1, Horizon + 1}

_wave_size ==
    {wave \in SUBSET windows :
        /\ Cardinality(wave) = IF Cardinality(windows) < WaveSize
                               THEN Cardinality(windows) ELSE WaveSize
        /\ \A first \in wave, later \in windows \ wave : first < later}

\* The waves follow one another whether or not a batch failed.
GenerateWave ==
    /\ step = "generate_calendar" /\ windows # {}
    /\ \E wave \in _wave_size :
         /\ windows' = windows \ wave
         /\ \E written \in SUBSET UNION {_run_batch(first) : first \in wave} :
                drafts' = drafts \cup written
    /\ failed' \in {failed, TRUE}
    /\ UNCHANGED <<items, step, months, before, cut>>

\* One failed batch, or nothing at all, fails the run.
generate_calendar ==
    /\ step = "generate_calendar" /\ windows = {}
    /\ IF failed \/ drafts = {} THEN Proceed("failed") ELSE Proceed("assign_products")
    /\ UNCHANGED <<items, months, windows, failed, drafts, before, cut>>

\* Products that cannot be loaded match nothing; anything else ends the run.
assign_products ==
    /\ step = "assign_products"
    /\ Proceed("validate") \/ Proceed("failed")
    /\ UNCHANGED <<items, months, windows, failed, drafts, before, cut>>

\* The valid items within the months; none end the run before the calendar is
\* touched.
ValidateItems ==
    /\ step = "validate"
    /\ \E valid \in SUBSET drafts :
         drafts' = {day \in valid : months = {} \/ Month(day) \in months}
    /\ IF drafts' = {} THEN Proceed("failed") ELSE Proceed("purge")
    /\ UNCHANGED <<items, months, windows, failed, before, cut>>

\* The window of the purge: whole months, or from the first day of the year.
Purged(day) ==
    IF months = {} THEN day >= 0 /\ day <= Horizon
    ELSE Month(day) \in months

\* Mutant: what is deleted was read when the run began.
StalePlanned == {item \in items : \E old \in before : old.planned /\ Purged(old.day)
                                     /\ old.day = item.day /\ old.new = item.new}

delete_planned_calendar_items == {item \in items : item.planned /\ Purged(item.day)}

\* A purge that fails is passed over.
Purge ==
    /\ step = "purge" /\ Proceed("insert")
    /\ \/ items' = items \ delete_planned_calendar_items /\ UNCHANGED cut
       \/ cut' = "purge" /\ UNCHANGED items
    /\ UNCHANGED <<months, windows, failed, drafts, before>>

\* All items or none; beyond the horizon an item is skipped, and of a channel
\* that was disabled meanwhile all are.  The documents and the notice that
\* follow stop nothing.
store_calendar_items ==
    /\ step = "insert"
    /\ \/ /\ items' \in {items, items \cup {Item(day, TRUE, TRUE) : day \in {d \in drafts : d <= Horizon}}}
          /\ Proceed("completed") /\ UNCHANGED cut
       \/ Proceed("failed") /\ cut' = "insert" /\ UNCHANGED items
    /\ UNCHANGED <<months, windows, failed, drafts, before>>

NextPlan ==
    \/ Take \/ load_plan_strategy \/ generate_campaigns \/ GenerateWave \/ generate_calendar
    \/ assign_products \/ ValidateItems \/ Purge \/ store_calendar_items

PlanSpec == InitPlan /\ [][NextPlan]_plan_vars

----------------------------------------------------------------------------
(* Properties *)

Same(item, other) == item.day = other.day /\ item.new = other.new

\* An item in generation is never lost to a plan, however late it was taken.
\* A run that fails leaves every item in place, unless the insert failed after
\* the purge had committed ("Never purge the existing plan to replace it with
\* nothing", nodes.py, store_calendar).  A run that completes leaves nothing
\* planned by an earlier one in the days it answers for, unless its purge
\* failed.
PlanIsReplacedWhole ==
    [][/\ \A item \in items : ~item.planned => item \in items'
       /\ step # "failed" /\ step' = "failed" /\ cut' # "insert" =>
            \A old \in before' : \E item \in items' : Same(item, old)
       /\ step # "completed" /\ step' = "completed" /\ cut' # "purge" =>
            \A item \in items' : item.planned /\ ~item.new => ~Purged(item.day)
      ]_plan_vars

=============================================================================

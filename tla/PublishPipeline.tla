-------------------------- MODULE PublishPipeline --------------------------
(***************************************************************************)
(* The publishing pipeline of the backend: the scheduler tick that sweeps, *)
(* expires and claims due calendar items (scheduler/publish_checker.py),   *)
(* the background tasks that post them (publish_service.py), the kill      *)
(* switch (system_flags) and the operators who approve, patch, reschedule  *)
(* and delete items through the REST API.                                  *)
(*                                                                         *)
(* One action is the code between two points where the coroutine may be    *)
(* suspended: a committed SQL statement, the semaphore, the platform call. *)
(* Time is abstracted to what the code compares it with: an item's slot    *)
(* (scheduled_at) is unset, in the future, due, or more than a day late;   *)
(* `aged' says that the row has been untouched for PUBLISHING_TIMEOUT.     *)
(***************************************************************************)
EXTENDS Naturals, FiniteSets

CONSTANTS
  Items,          \* calendar items
  Procs,          \* backend processes, each with its scheduler and semaphore
  Tasks,          \* slots for background publish tasks (bounds concurrency)
  Scopes,         \* the scoped kill-switch flags: one per brand, per channel
  Global,         \* the global kill-switch flag
  ScopesOf,       \* ScopesOf[i]: the brand and channel flags that gate item i
  MaxConcurrent,  \* MAX_CONCURRENT_DIRECT_PUBLISHES
  Overstay,       \* task states that may outlast PUBLISHING_TIMEOUT
  PatchFrom,      \* statuses from which an operator patches an item
  PatchTo,        \* statuses an operator patches an item to
  FlagReadsFail,  \* may a read of system_flags fail (the code fails closed)?
  MaxArms,        \* bound: how often one item is put into 'scheduled'
  MaxRestarts,    \* bound: backend restarts
  None            \* no item, no process

Statuses == {"in_review", "scheduled", "publishing", "published", "failed",
             "absent"}
Slots == {"none", "future", "due", "late"}
Flags == Scopes \cup {Global}

TickSteps == {"idle", "sweep", "query", "expire", "loop", "claim"}
\* A task holding a slot of the semaphore, in the order of _run_direct_publish.
Holding == {"loaded", "dispatching", "posted", "rejected", "releasing",
            "recorded", "crashed", "failing"}
TaskSteps == {"none", "waiting"} \cup Holding
\* The tasks that may still post, or hand the item back to 'scheduled'.
Pending == {"waiting", "loaded", "dispatching", "releasing"}

ASSUME PipelineAssumption ==
  /\ IsFiniteSet(Tasks)
  /\ Global \notin Scopes
  /\ ScopesOf \in [Items -> SUBSET Scopes]
  /\ MaxConcurrent \in Nat \ {0}
  /\ Overstay \subseteq {"waiting", "dispatching"}
  /\ PatchFrom \subseteq Statuses \ {"absent"}
  /\ PatchTo \subseteq Statuses \ {"absent"}
  /\ FlagReadsFail \in BOOLEAN
  /\ MaxArms \in Nat
  /\ MaxRestarts \in Nat
  /\ None \notin Items \cup Procs

VARIABLES
  status,      \* calendar_items.status; "absent" once the row is deleted
  slot,        \* calendar_items.scheduled_at against now
  aged,        \* the items with updated_at < now - PUBLISHING_TIMEOUT
  noted,       \* the items with publish_note = UNRECONCILED_NOTE
  withContent, \* the items that have a content row with is_current
  engaged,     \* the kill-switch flags stored as disabled
  tickPc,      \* tickPc[p]: where the tick of process p stands
  batch,       \* rows the tick selected and is about to write 'failed' to
  fresh,       \* due rows of the tick's snapshot still to dispatch
  cand,        \* the row the tick is about to claim
  pc,          \* pc[t]: where task t stands
  titem,       \* the item of task t
  tproc,       \* the process task t runs in
  restarts,
  arms,        \* history: how often an operator put item i into 'scheduled'
  posts,       \* history: posts of item i that reached its platform
  reached,     \* history: the items with a post since armed, not recorded
  leak         \* history: posts since the global switch was engaged

item_row == <<status, slot, aged, noted, withContent>>
tick     == <<tickPc, batch, fresh, cand>>
task     == <<pc, titem, tproc>>
history  == <<arms, posts, reached, leak>>
vars     == <<item_row, engaged, tick, task, restarts, history>>

TypeOK ==
  /\ status \in [Items -> Statuses]
  /\ slot \in [Items -> Slots]
  /\ aged \subseteq Items
  /\ noted \subseteq Items
  /\ withContent \subseteq Items
  /\ engaged \subseteq Flags
  /\ tickPc \in [Procs -> TickSteps]
  /\ batch \in [Procs -> SUBSET Items]
  /\ fresh \in [Procs -> SUBSET Items]
  /\ cand \in [Procs -> Items \cup {None}]
  /\ \A p \in Procs : tickPc[p] = "claim" => cand[p] \in Items
  /\ pc \in [Tasks -> TaskSteps]
  /\ titem \in [Tasks -> Items \cup {None}]
  /\ tproc \in [Tasks -> Procs \cup {None}]
  /\ \A t \in Tasks :
       pc[t] # "none" => titem[t] \in Items /\ tproc[t] \in Procs
  /\ restarts \in Nat
  /\ arms \in [Items -> Nat]
  /\ posts \in [Items -> Nat]
  /\ reached \subseteq Items
  /\ leak \in Nat

-----------------------------------------------------------------------------
(* Helpers. *)

\* is_publishing_enabled: the global flag and every scope of the item.
Enabled(i)    == engaged \cap (ScopesOf[i] \cup {Global}) = {}
GlobalEnabled == Global \notin engaged

\* An UPDATE of calendar_items: the status, and updated_at by its trigger.
Write(S, st) ==
  /\ status' = [i \in Items |-> IF i \in S THEN st ELSE status[i]]
  /\ aged' = aged \ S

Exists(S) == \A i \in S : status[i] # "absent"
Holders(p) == {t \in Tasks : pc[t] \in Holding /\ tproc[t] = p}

Init ==
  /\ status = [i \in Items |-> "in_review"]
  /\ slot \in [Items -> {"none", "future"}]
  /\ aged = {}
  /\ noted = {}
  /\ withContent \in SUBSET Items
  /\ engaged = {}
  /\ tickPc = [p \in Procs |-> "idle"]
  /\ batch = [p \in Procs |-> {}]
  /\ fresh = [p \in Procs |-> {}]
  /\ cand = [p \in Procs |-> None]
  /\ pc = [t \in Tasks |-> "none"]
  /\ titem = [t \in Tasks |-> None]
  /\ tproc = [t \in Tasks |-> None]
  /\ restarts = 0
  /\ arms = [i \in Items |-> 0]
  /\ posts = [i \in Items |-> 0]
  /\ reached = {}
  /\ leak = 0

-----------------------------------------------------------------------------
(* The scheduler tick: check_due_content.                                  *)

\* Mutant: no sweep.
TickStartNoSweep(p) ==
  /\ tickPc[p] = "idle"
  /\ GlobalEnabled
  /\ tickPc' = [tickPc EXCEPT ![p] = "query"]
  /\ UNCHANGED <<item_row, engaged, batch, fresh, cand, task, restarts, history>>

\* The switch is open: SELECT the rows stuck in 'publishing'.
TickStart(p) ==
  /\ tickPc[p] = "idle"
  /\ GlobalEnabled
  /\ LET stuck == {i \in Items : status[i] = "publishing" /\ i \in aged}
     IN  /\ batch' = [batch EXCEPT ![p] = stuck]
         /\ tickPc' = [tickPc EXCEPT
                         ![p] = IF stuck = {} THEN "query" ELSE "sweep"]
  /\ UNCHANGED <<item_row, engaged, fresh, cand, task, restarts, history>>

\* The ORM writes every selected row by its id, whatever it holds by now. A
\* row deleted meanwhile makes the flush raise, which ends the tick.
SweepWrite(p) ==
  /\ tickPc[p] = "sweep"
  /\ \/ /\ Exists(batch[p])
        /\ Write(batch[p], "failed")
        /\ noted' = noted \cup batch[p]
        /\ tickPc' = [tickPc EXCEPT ![p] = "query"]
     \/ /\ ~Exists(batch[p])
        /\ tickPc' = [tickPc EXCEPT ![p] = "idle"]
        /\ UNCHANGED <<status, aged, noted>>
  /\ batch' = [batch EXCEPT ![p] = {}]
  /\ UNCHANGED <<slot, withContent, engaged, fresh, cand, task, restarts,
                 history>>

\* Mutant: late rows are left out instead of expired.
DueQueryNoExpiry(p) ==
  /\ tickPc[p] = "query"
  /\ fresh' = [fresh EXCEPT ![p] = {i \in Items : /\ status[i] = "scheduled"
                                                 /\ slot[i] = "due"}]
  /\ tickPc' = [tickPc EXCEPT ![p] = "loop"]
  /\ UNCHANGED <<item_row, engaged, batch, cand, task, restarts, history>>

\* SELECT the due rows; those more than STALE_THRESHOLD late are to expire.
DueQuery(p) ==
  /\ tickPc[p] = "query"
  /\ LET due == {i \in Items : /\ status[i] = "scheduled"
                               /\ slot[i] \in {"due", "late"}}
         late == {i \in due : slot[i] = "late"}
     IN  /\ batch' = [batch EXCEPT ![p] = late]
         /\ fresh' = [fresh EXCEPT ![p] = due \ late]
         /\ tickPc' = [tickPc EXCEPT ![p] = IF late # {} THEN "expire"
                                            ELSE "loop"]
  /\ UNCHANGED <<item_row, engaged, cand, task, restarts, history>>

ExpireWrite(p) ==
  /\ tickPc[p] = "expire"
  /\ \/ /\ Exists(batch[p])
        /\ Write(batch[p], "failed")
        /\ tickPc' = [tickPc EXCEPT ![p] = "loop"]
        /\ UNCHANGED fresh
     \/ /\ ~Exists(batch[p])
        /\ tickPc' = [tickPc EXCEPT ![p] = "idle"]
        /\ fresh' = [fresh EXCEPT ![p] = {}]
        /\ UNCHANGED <<status, aged>>
  /\ batch' = [batch EXCEPT ![p] = {}]
  /\ UNCHANGED <<slot, noted, withContent, engaged, cand, task, restarts,
                 history>>

\* One round of the dispatch loop up to the claim: the item's switches, then
\* its current content row.
LoopStep(p, i) ==
  /\ tickPc[p] = "loop"
  /\ i \in fresh[p]
  /\ \/ /\ Enabled(i)
        /\ i \in withContent
        /\ cand' = [cand EXCEPT ![p] = i]
        /\ fresh' = [fresh EXCEPT ![p] = @ \ {i}]
        /\ tickPc' = [tickPc EXCEPT ![p] = "claim"]
     \/ /\ GlobalEnabled
        /\ Enabled(i) => i \notin withContent \/ FlagReadsFail
        /\ fresh' = [fresh EXCEPT ![p] = @ \ {i}]
        /\ UNCHANGED <<cand, tickPc>>
     \/ /\ ~GlobalEnabled \/ FlagReadsFail
        /\ fresh' = [fresh EXCEPT ![p] = {}]
        /\ tickPc' = [tickPc EXCEPT ![p] = "idle"]
        /\ UNCHANGED cand
  /\ UNCHANGED <<item_row, engaged, batch, task, restarts, history>>

TickEnd(p) ==
  /\ tickPc[p] = "loop"
  /\ fresh[p] = {}
  /\ tickPc' = [tickPc EXCEPT ![p] = "idle"]
  /\ UNCHANGED <<item_row, engaged, batch, fresh, cand, task, restarts, history>>

\* Mutant: the claim does not compare the status.
ClaimBlind(p) ==
  /\ tickPc[p] = "claim"
  /\ Write({cand[p]}, "publishing")
  /\ \E t \in Tasks :
       /\ pc[t] = "none"
       /\ pc' = [pc EXCEPT ![t] = "waiting"]
       /\ titem' = [titem EXCEPT ![t] = cand[p]]
       /\ tproc' = [tproc EXCEPT ![t] = p]
  /\ tickPc' = [tickPc EXCEPT ![p] = "loop"]
  /\ cand' = [cand EXCEPT ![p] = None]
  /\ UNCHANGED <<slot, noted, withContent, engaged, batch, fresh, restarts,
                 history>>

\* _claim_for_publishing, a compare-and-set, and _spawn_direct_publish: no
\* suspension point lies between the commit and the new task.
Claim(p) ==
  /\ tickPc[p] = "claim"
  /\ LET i == cand[p] IN
     \/ /\ status[i] = "scheduled"
        /\ Write({i}, "publishing")
        /\ \E t \in Tasks :
             /\ pc[t] = "none"
             /\ pc' = [pc EXCEPT ![t] = "waiting"]
             /\ titem' = [titem EXCEPT ![t] = i]
             /\ tproc' = [tproc EXCEPT ![t] = p]
     \/ /\ status[i] # "scheduled"
        /\ UNCHANGED <<status, aged, task>>
  /\ tickPc' = [tickPc EXCEPT ![p] = "loop"]
  /\ cand' = [cand EXCEPT ![p] = None]
  /\ UNCHANGED <<slot, noted, withContent, engaged, batch, fresh, restarts,
                 history>>

-----------------------------------------------------------------------------
(* A background task: _run_direct_publish, publish_direct and               *)
(* record_publish_result.                                                   *)

To(t, step) == pc' = [pc EXCEPT ![t] = step] /\ UNCHANGED <<titem, tproc>>
Finish(t) ==
  /\ pc' = [pc EXCEPT ![t] = "none"]
  /\ titem' = [titem EXCEPT ![t] = None]
  /\ tproc' = [tproc EXCEPT ![t] = None]

\* The semaphore admits the task, which re-loads its rows: it goes on only
\* when the item is still 'publishing'.
Admit(t) ==
  /\ pc[t] = "waiting"
  /\ Cardinality(Holders(tproc[t])) < MaxConcurrent
  /\ IF status[titem[t]] = "publishing" THEN To(t, "loaded") ELSE Finish(t)
  /\ UNCHANGED <<item_row, engaged, tick, restarts, history>>

\* Mutant: the switch is not asked again after the wait for the semaphore.
CheckNothing(t) ==
  /\ pc[t] = "loaded"
  /\ To(t, "dispatching")
  /\ UNCHANGED <<item_row, engaged, tick, restarts, history>>

\* publish_direct asks the kill switch; PublishingDisabledError releases.
CheckKillSwitch(t) ==
  /\ pc[t] = "loaded"
  /\ \/ Enabled(titem[t]) /\ To(t, "dispatching")
     \/ (~Enabled(titem[t]) \/ FlagReadsFail) /\ To(t, "releasing")
  /\ UNCHANGED <<item_row, engaged, tick, restarts, history>>

\* _release_claim, a compare-and-set from 'publishing'.
ReleaseClaim(t) ==
  /\ pc[t] = "releasing"
  /\ Finish(t)
  /\ IF status[titem[t]] = "publishing"
     THEN Write({titem[t]}, "scheduled")
     ELSE UNCHANGED <<status, aged>>
  /\ UNCHANGED <<slot, noted, withContent, engaged, tick, restarts, history>>

\* The platform takes the post. The publisher may still report a failure: the
\* answer was lost, or a status poll gave up.
PlatformPosts(t) ==
  /\ pc[t] = "dispatching"
  /\ posts' = [posts EXCEPT ![titem[t]] = @ + 1]
  /\ reached' = reached \cup {titem[t]}
  /\ leak' = IF GlobalEnabled THEN leak ELSE leak + 1
  /\ To(t, "posted") \/ To(t, "rejected")
  /\ UNCHANGED <<item_row, engaged, tick, restarts, arms>>

\* No publisher, no credentials, or the platform refuses: a failed outcome.
PlatformRefuses(t) ==
  /\ pc[t] = "dispatching"
  /\ To(t, "rejected")
  /\ UNCHANGED <<item_row, engaged, tick, restarts, history>>

\* record_publish_result: an ORM write by id, without a test of the status. On
\* a deleted row the flush raises.
RecordPublished(t) ==
  /\ pc[t] = "posted"
  /\ LET i == titem[t] IN
     IF Exists({i})
     THEN /\ Write({i}, "published")
          /\ reached' = reached \ {i}
          /\ To(t, "recorded")
     ELSE To(t, "crashed") /\ UNCHANGED <<status, aged, reached>>
  /\ UNCHANGED <<slot, noted, withContent, engaged, tick, restarts, arms, posts,
                 leak>>

\* Mutant: the outcome's status is ignored.
RecordAnyAsPublished(t) ==
  /\ pc[t] = "rejected"
  /\ Write({titem[t]}, "published")
  /\ To(t, "recorded")
  /\ UNCHANGED <<slot, noted, withContent, engaged, tick, restarts, history>>

RecordFailed(t) ==
  /\ pc[t] = "rejected"
  /\ IF Exists({titem[t]})
     THEN Write({titem[t]}, "failed") /\ To(t, "recorded")
     ELSE To(t, "crashed") /\ UNCHANGED <<status, aged>>
  /\ UNCHANGED <<slot, noted, withContent, engaged, tick, restarts, history>>

\* The job-log row and the failure notice; the task ends.
LogOutcome(t) ==
  /\ pc[t] = "recorded"
  /\ Finish(t)
  /\ UNCHANGED <<item_row, engaged, tick, restarts, history>>

\* A database error, or an exception outside publish_direct's own handler.
Raise(t) ==
  /\ pc[t] \in {"loaded", "posted", "rejected", "releasing", "recorded"}
  /\ To(t, "crashed")
  /\ UNCHANGED <<item_row, engaged, tick, restarts, history>>

\* The except clause reads the row, and then writes it by its id. Its own
\* failure is only logged.
CrashRead(t) ==
  /\ pc[t] = "crashed"
  /\ \/ status[titem[t]] = "publishing" /\ To(t, "failing")
     \/ Finish(t)
  /\ UNCHANGED <<item_row, engaged, tick, restarts, history>>

CrashWrite(t) ==
  /\ pc[t] = "failing"
  /\ Finish(t)
  /\ IF Exists({titem[t]})
     THEN Write({titem[t]}, "failed")
     ELSE UNCHANGED <<status, aged>>
  /\ UNCHANGED <<slot, noted, withContent, engaged, tick, restarts, history>>

-----------------------------------------------------------------------------
(* Operators: the REST API.                                                *)

\* Only an operator's write may arm an item: put it into 'scheduled' anew.
Arm(i, st) ==
  IF st = "scheduled" /\ status[i] # "scheduled"
  THEN /\ arms[i] < MaxArms
       /\ arms' = [arms EXCEPT ![i] = @ + 1]
       /\ reached' = reached \ {i}
  ELSE UNCHANGED <<arms, reached>>

\* resolve_approval with 'approved': VALID_TRANSITIONS lets in_review and
\* failed items through, and a slot that is unset or past rolls forward.
Approve(i) ==
  /\ status[i] \in {"in_review", "failed"}
  /\ Write({i}, "scheduled")
  /\ Arm(i, "scheduled")
  /\ slot' = [slot EXCEPT ![i] = "future"]
  /\ UNCHANGED <<noted, withContent, engaged, tick, task, restarts, posts,
                 leak>>

\* update_calendar_item (PUT and PATCH): any status and any slot are stored.
Patch(i, st, sl) ==
  /\ status[i] \in PatchFrom
  /\ <<st, sl>> # <<status[i], slot[i]>>
  /\ Write({i}, st)
  /\ Arm(i, st)
  /\ slot' = [slot EXCEPT ![i] = sl]
  /\ UNCHANGED <<noted, withContent, engaged, tick, task, restarts, posts,
                 leak>>

\* delete_calendar_item; the content rows go with it (ON DELETE CASCADE).
Delete(i) ==
  /\ Exists({i})
  /\ Write({i}, "absent")
  /\ withContent' = withContent \ {i}
  /\ UNCHANGED <<slot, noted, engaged, tick, task, restarts, history>>

\* create_content: from now on the item has a current content row.
CreateContent(i) ==
  /\ Exists({i})
  /\ i \notin withContent
  /\ withContent' = withContent \cup {i}
  /\ UNCHANGED <<status, slot, aged, noted, engaged, tick, task, restarts,
                 history>>

\* set_publishing_kill_switch, for one flag.
SetKillSwitch(f) ==
  /\ engaged' = IF f \in engaged THEN engaged \ {f} ELSE engaged \cup {f}
  /\ leak' = IF f = Global THEN 0 ELSE leak
  /\ UNCHANGED <<item_row, tick, task, restarts, arms, posts, reached>>

-----------------------------------------------------------------------------
(* The environment: time and restarts.                                     *)

ClockMoves(i) ==
  /\ \/ slot[i] = "future" /\ slot' = [slot EXCEPT ![i] = "due"]
     \/ slot[i] = "due"    /\ slot' = [slot EXCEPT ![i] = "late"]
  /\ Exists({i})
  /\ UNCHANGED <<status, aged, noted, withContent, engaged, tick, task,
                 restarts, history>>

\* PUBLISHING_TIMEOUT passes over a claimed row; a live task of the item is
\* then in a state that may last that long.
Ages(i) ==
  /\ status[i] = "publishing"
  /\ i \notin aged
  /\ \A t \in Tasks : titem[t] = i => pc[t] \in Overstay
  /\ aged' = aged \cup {i}
  /\ UNCHANGED <<status, slot, noted, withContent, engaged, tick, task,
                 restarts, history>>

\* The process dies and comes back: its tick and its tasks are gone.
Restart(p) ==
  /\ restarts < MaxRestarts
  /\ restarts' = restarts + 1
  /\ tickPc' = [tickPc EXCEPT ![p] = "idle"]
  /\ batch' = [batch EXCEPT ![p] = {}]
  /\ fresh' = [fresh EXCEPT ![p] = {}]
  /\ cand' = [cand EXCEPT ![p] = None]
  /\ pc' = [t \in Tasks |-> IF tproc[t] = p THEN "none" ELSE pc[t]]
  /\ titem' = [t \in Tasks |-> IF tproc[t] = p THEN None ELSE titem[t]]
  /\ tproc' = [t \in Tasks |-> IF tproc[t] = p THEN None ELSE tproc[t]]
  /\ UNCHANGED <<item_row, engaged, history>>

-----------------------------------------------------------------------------
TickStep(p) ==
  \/ TickStart(p) \/ SweepWrite(p) \/ DueQuery(p) \/ ExpireWrite(p)
  \/ (\E i \in Items : LoopStep(p, i)) \/ TickEnd(p) \/ Claim(p)

TaskStep(t) ==
  \/ Admit(t) \/ CheckKillSwitch(t) \/ ReleaseClaim(t)
  \/ PlatformPosts(t) \/ PlatformRefuses(t)
  \/ RecordPublished(t) \/ RecordFailed(t) \/ LogOutcome(t)
  \/ Raise(t) \/ CrashRead(t) \/ CrashWrite(t)

OperatorStep ==
  \/ \E i \in Items : Approve(i) \/ Delete(i) \/ CreateContent(i)
  \/ \E i \in Items, st \in PatchTo : \E sl \in {slot[i], "future"} :
       Patch(i, st, sl)
  \/ \E f \in Flags : SetKillSwitch(f)

Next ==
  \/ \E p \in Procs : TickStep(p) \/ Restart(p)
  \/ \E t \in Tasks : TaskStep(t)
  \/ OperatorStep
  \/ \E i \in Items : ClockMoves(i) \/ Ages(i)

Spec == Init /\ [][Next]_vars

\* Fairness. The interval trigger fires tick after tick and the event loop runs
\* every ready coroutine (weak fairness); the semaphore wakes its waiters in
\* the order they came, so none is passed over for ever (strong fairness);
\* platform calls have timeouts; time passes.
Fairness ==
  /\ \A p \in Procs : WF_vars(TickStep(p))
  /\ \A t \in Tasks : WF_vars(TaskStep(t)) /\ SF_vars(Admit(t))
  /\ \A i \in Items : WF_vars(ClockMoves(i)) /\ WF_vars(Ages(i))
FairSpec == Spec /\ Fairness

-----------------------------------------------------------------------------
(* The abstract ledger. The credits of an item are its being 'scheduled' and  *)
(* its tasks that may still post or hand it back.                             *)

PendingTasks(i) == {t \in Tasks : titem[t] = i /\ pc[t] \in Pending}
Queued(i) == IF status[i] = "scheduled" THEN 1 ELSE 0
Credit == [i \in Items |-> Queued(i) + Cardinality(PendingTasks(i))]

Ledger == INSTANCE PublishLedger WITH credit <- Credit

-----------------------------------------------------------------------------
(* Properties. *)

\* The pipeline implements the ledger: every step is a scheduling decision of an
\* operator, a post that spends a credit, a loss of credits, or a stutter.
ImplementsLedger == Ledger!Spec

\* An item is posted at most as often as an operator scheduled it: no tick,
\* replica, restart, release or sweep ever adds a post of its own
\* (_claim_for_publishing, _release_claim and the status test of the task).
PostsWithinArms == \A i \in Items : posts[i] <= arms[i]

\* The strengthening that is inductive: the credits not yet spent count too.
TokenInv == \A i \in Items : posts[i] + Credit[i] <= arms[i]

\* A calendar item shows 'published' only after its platform took a post: no
\* failed outcome, crash or sweep is ever recorded as a success.
PublishedWasPosted == \A i \in Items : status[i] = "published" => posts[i] > 0

\* Once the global switch is engaged, no more posts leave than the calls that
\* were past publish_direct's check, at most the semaphore's width per process.
LeakBounded == leak <= MaxConcurrent * Cardinality(Procs)

\* An in-flight task never dispatches an item another task is dispatching.
OneDispatchPerItem ==
  \A t, u \in Tasks :
    /\ pc[t] = "dispatching" /\ pc[u] = "dispatching"
    /\ titem[t] = titem[u]
    => t = u

\* No item stays 'publishing' for ever, whatever crashed: a task finishes it
\* or the sweep fails it, unless the switch freezes the tick.
PublishingLeaves ==
  \A i \in Items :
    status[i] = "publishing" ~> status[i] # "publishing" \/ ~GlobalEnabled

\* A due item is eventually claimed or expired, content or not, unless the
\* switch freezes the tick.
DueIsServed ==
  \A i \in Items :
    status[i] = "scheduled" /\ slot[i] \in {"due", "late"}
    ~> \/ status[i] # "scheduled"
       \/ slot[i] = "future"
       \/ ~GlobalEnabled

=============================================================================

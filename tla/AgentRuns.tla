------------------------------- MODULE AgentRuns -------------------------------
(***************************************************************************)
(* The runs of one (brand, agent_type) pair: rows of agent_runs with a     *)
(* lease (claimed_by, heartbeat_at), the messages that start and resume    *)
(* them, the workers that execute them, drain and die, the human decisions *)
(* a paused run waits for, and the reaper that frees abandoned leases.     *)
(*                                                                         *)
(* A worker has two subscriptions that matter here, the workflow's own and *)
(* agent.resume.run; each handles one message at a time. One action is the *)
(* code of a handler between two awaits. Messages and runs are numbered in *)
(* the order in which they are made. A message that JetStream delivers     *)
(* once more although its first delivery was handled is a second message.  *)
(* Time is abstracted to "the heartbeat is older than                      *)
(* HEARTBEAT_STALE_MINUTES".                                               *)
(***************************************************************************)
EXTENDS Naturals

CONSTANTS
  Workers,
  Workflows,    \* the kinds of workflow: see below
  MaxRuns,      \* bound: rows
  MaxMsgs,      \* bound: messages
  MaxRounds,    \* the interrupts one run can reach (the graphs' MAX_REVISIONS)
  Drains,       \* the workers that may be told to drain (SIGTERM)
  Faults,       \* the faults that occur, a subset of FaultKinds
  MaxFaults,    \* bound: faults
  None          \* no run, no worker

Runs == 1..MaxRuns
Msgs == 1..MaxMsgs
Lanes == {"trigger", "resume"}
Handlers == Workers \X Lanes

Statuses == {"none", "running", "paused_for_review", "completed", "failed",
             "cancelled"}
Terminal == {"completed", "failed", "cancelled"}

\* "reviewed": the graph may interrupt, and a message that finds a running run
\* is dropped (strategy, adaptation); "item": no interrupt, and such a message
\* is retried (content, video).
WorkflowKinds == {"reviewed", "item"}

\* The steps in which a handler may still act on its run, and those in which the
\* in-flight registry names the run.
Carrying == {"probing", "running", "asking"}
Registered == Carrying \cup {"acking", "naking"}
Steps == {"idle", "started", "claiming", "cancelled", "handback"} \cup Registered
FaultKinds == {"crash", "stall", "cancel", "pause", "probe", "unregistered"}

ASSUME RunsAssumption ==
  /\ Workflows \subseteq WorkflowKinds
  /\ MaxRuns \in Nat /\ MaxMsgs \in Nat /\ MaxRounds \in Nat
  /\ MaxFaults \in Nat
  /\ Drains \subseteq Workers
  /\ Faults \subseteq FaultKinds
  /\ None \notin Runs \cup Workers \cup Msgs

VARIABLES
  workflow,   \* the kind of this pair's workflow, fixed
  status,     \* agent_runs.status; "none" before the row exists
  owner,      \* claimed_by of a running run
  lapsed,     \* the running runs whose heartbeat_at is too old
  round,      \* the interrupts each run's graph has reached
  origin,     \* history: the message that started each run
  mail,       \* where each message is
  letter,     \* what it says, and the round its sender had seen
  draining,   \* the workers that were told to drain
  step,       \* step[h]: where handler h stands
  on,         \* the message it handles
  run,        \* the run it registered
  faults

rows     == <<workflow, status, owner, lapsed, round, origin>>
messages == <<mail, letter>>
handlers == <<step, on, run>>
vars     == <<rows, messages, draining, handlers, faults>>

Letters == [kind : {"none"} \cup Lanes, run : Runs \cup {None},
            round : 0..MaxRounds]
Blank == [kind |-> "none", run |-> None, round |-> 0]

RowTypes ==
  /\ status \in [Runs -> Statuses]
  /\ owner \in [Runs -> Workers \cup {None}]
  /\ lapsed \subseteq Runs

MailTypes ==
  /\ mail \in [Msgs -> {"unsent", "pending", "held", "unacked", "gone"}]
  /\ letter \in [Msgs -> Letters]
  /\ \A m \in Msgs :
       /\ (mail[m] = "unsent") <=> (letter[m].kind = "none")
       /\ letter[m].kind = "resume" => letter[m].run \in Runs

HandTypes ==
  /\ step \in [Handlers -> Steps]
  /\ on \in [Handlers -> Msgs \cup {None}]
  /\ run \in [Handlers -> Runs \cup {None}]
  /\ \A h \in Handlers :
       /\ step[h] # "idle" => on[h] \in Msgs /\ letter[on[h]].kind = h[2]
       /\ step[h] \in Carrying \cup {"claiming"} => run[h] \in Runs
       /\ step[h] \in {"claiming", "probing"} => h[2] = "resume"

OtherTypes ==
  /\ workflow \in WorkflowKinds
  /\ round \in [Runs -> 0..MaxRounds]
  /\ origin \in [Runs -> Msgs \cup {None}]
  /\ draining \subseteq Workers
  /\ faults \in 0..MaxFaults

TypeOK == RowTypes /\ MailTypes /\ HandTypes /\ OtherTypes

Init ==
  /\ workflow \in Workflows
  /\ status = [r \in Runs |-> "none"]
  /\ owner = [r \in Runs |-> None]
  /\ lapsed = {}
  /\ round = [r \in Runs |-> 0]
  /\ origin = [r \in Runs |-> None]
  /\ mail = [m \in Msgs |-> "unsent"]
  /\ letter = [m \in Msgs |-> Blank]
  /\ draining = {}
  /\ step = [h \in Handlers |-> "idle"]
  /\ on = [h \in Handlers |-> None]
  /\ run = [h \in Handlers |-> None]
  /\ faults = 0

-----------------------------------------------------------------------------
(* Helpers. *)

Running(r) == status[r] = "running"
\* A live worker has the run in hand.
Held(r) == \E h \in Handlers : run[h] = r /\ step[h] \in Registered

Goto(h, s) == step' = [step EXCEPT ![h] = s] /\ UNCHANGED <<on, run>>
Carry(h, s, r) == /\ step' = [step EXCEPT ![h] = s]
                  /\ run' = [run EXCEPT ![h] = r]
                  /\ UNCHANGED on
Idle(H) == /\ step' = [h \in Handlers |-> IF h \in H THEN "idle" ELSE step[h]]
           /\ on' = [h \in Handlers |-> IF h \in H THEN None ELSE on[h]]
           /\ run' = [h \in Handlers |-> IF h \in H THEN None ELSE run[h]]

\* The lease of a run that does not run is not read.
SetStatus(st) ==
  /\ status' = st
  /\ owner' = [r \in Runs |-> IF st[r] = "running" THEN owner[r] ELSE None]
  /\ lapsed' = {r \in lapsed : st[r] = "running"}

\* The status becomes 'running' and the lease is stamped, in one statement.
Lease(r, w) ==
  /\ status' = [status EXCEPT ![r] = "running"]
  /\ owner' = [owner EXCEPT ![r] = w]
  /\ lapsed' = lapsed \ {r}

\* complete_agent_run: a run that is no longer 'running' is left alone.
Complete(r, st) ==
  SetStatus([status EXCEPT ![r] = IF @ = "running" THEN st ELSE @])

Faulty(kind) == kind \in Faults /\ faults < MaxFaults /\ faults' = faults + 1

NextRun(r) == status[r] = "none" /\ \A q \in Runs : q < r => status[q] # "none"
NextMsg(m) == mail[m] = "unsent" /\ \A n \in Msgs : n < m => mail[n] # "unsent"

Post(m, what) == /\ NextMsg(m)
                 /\ mail' = [mail EXCEPT ![m] = "pending"]
                 /\ letter' = [letter EXCEPT ![m] = what]

-----------------------------------------------------------------------------
(* Requests. *)

\* The API, the scheduler or an earlier stage starts the workflow.
Trigger(m) ==
  /\ Post(m, [Blank EXCEPT !.kind = "trigger"])
  /\ UNCHANGED <<rows, draining, handlers, faults>>

\* review_agent_run: the run is paused, and a resume message is published. The
\* message names the run and not the interrupt the reviewer looked at.
Review(m, r) ==
  /\ status[r] = "paused_for_review"
  /\ Post(m, [kind |-> "resume", run |-> r, round |-> round[r]])
  /\ UNCHANGED <<rows, draining, handlers, faults>>

\* update_brand: deactivating the brand cancels what runs.
CancelBrand ==
  /\ Faulty("cancel")
  /\ \E r \in Runs : Running(r)
  /\ SetStatus([r \in Runs |-> IF Running(r) THEN "cancelled" ELSE status[r]])
  /\ UNCHANGED <<workflow, round, origin, messages, draining, handlers>>

-----------------------------------------------------------------------------
(* The handlers. *)

Deliver(h, m) ==
  /\ h[1] \notin draining /\ step[h] = "idle"
  /\ mail[m] = "pending" /\ letter[m].kind = h[2]
  /\ mail' = [mail EXCEPT ![m] = "held"]
  /\ step' = [step EXCEPT ![h] = "started"]
  /\ on' = [on EXCEPT ![h] = m]
  /\ UNCHANGED <<rows, letter, draining, run, faults>>

\* The handler goes on with run r, unless a drain cancels it before the statement
\* that gave it the run has returned: then the registry never names the run.
Takes(h, s, r) ==
  \/ Carry(h, s, r) /\ UNCHANGED faults
  \/ /\ h[1] \in draining /\ Faulty("unregistered")
     /\ Carry(h, "cancelled", None)

\* create_agent_run and _register_run_id: the partial unique index admits one
\* running row. The graph starts.
Create(h) ==
  /\ h[2] = "trigger" /\ step[h] = "started"
  /\ \A r \in Runs : ~Running(r)
  /\ \E r \in Runs :
       /\ NextRun(r)
       /\ Lease(r, h[1])
       /\ origin' = [origin EXCEPT ![r] = on[h]]
       /\ Takes(h, "running", r)
  /\ UNCHANGED <<workflow, round, messages, draining>>

\* The duplicate is dropped, or retried after five minutes; on the last
\* delivery the nak discards it (a content batch is handed on).
Blocked(h) ==
  /\ h[2] = "trigger" /\ step[h] = "started"
  /\ \E r \in Runs : Running(r)
  /\ Goto(h, IF workflow = "item" THEN "naking" ELSE "acking")
  /\ UNCHANGED <<rows, messages, draining, faults>>

\* _handle_resume reads the row first.
LoadRun(h) ==
  /\ h[2] = "resume" /\ step[h] = "started"
  /\ IF status[letter[on[h]].run] = "paused_for_review"
     THEN Carry(h, "claiming", letter[on[h]].run)
     ELSE Goto(h, "acking")
  /\ UNCHANGED <<rows, messages, draining, faults>>

\* Mutant: the claim does not compare the status.
ClaimBlind(h) ==
  /\ step[h] = "claiming"
  /\ ~\E q \in Runs \ {run[h]} : Running(q)
  /\ Lease(run[h], h[1])
  /\ Takes(h, "probing", run[h])
  /\ UNCHANGED <<workflow, round, origin, messages, draining>>

\* The compare-and-set paused_for_review -> running stamps the lease.
ClaimPaused(h) ==
  /\ step[h] = "claiming"
  /\ status[run[h]] = "paused_for_review" /\ ~\E q \in Runs : Running(q)
  /\ Lease(run[h], h[1])
  /\ Takes(h, "probing", run[h])
  /\ UNCHANGED <<workflow, round, origin, messages, draining>>

\* The unique index forbids it for now, or the claim was lost.
ClaimFails(h) ==
  /\ step[h] = "claiming"
  /\ \/ /\ status[run[h]] = "paused_for_review"
        /\ \E q \in Runs : Running(q)
        /\ Carry(h, "naking", None)
     \/ /\ status[run[h]] # "paused_for_review"
        /\ Carry(h, "acking", None)
  /\ UNCHANGED <<rows, messages, draining, faults>>

\* A run without a checkpoint is failed, never run again from the start.
Probe(h) ==
  /\ step[h] = "probing"
  /\ \/ Goto(h, "running") /\ UNCHANGED <<status, owner, lapsed, faults>>
     \/ Faulty("probe") /\ Complete(run[h], "failed") /\ Goto(h, "acking")
  /\ UNCHANGED <<workflow, round, origin, messages, draining>>

\* The graph returns with an interrupt: a first review, a revision to review,
\* or the next tier.
Interrupts(h) ==
  /\ step[h] = "running"
  /\ workflow = "reviewed" /\ round[run[h]] < MaxRounds
  /\ round' = [round EXCEPT ![run[h]] = @ + 1]
  /\ Goto(h, "asking")
  /\ UNCHANGED <<workflow, status, owner, lapsed, origin, messages, draining,
                 faults>>

\* _record_paused_run swallows a failed write.
RecordPause(h) ==
  /\ step[h] = "asking"
  /\ \/ Complete(run[h], "paused_for_review") /\ UNCHANGED faults
     \/ Faulty("pause") /\ UNCHANGED <<status, owner, lapsed>>
  /\ Goto(h, "acking")
  /\ UNCHANGED <<workflow, round, origin, messages, draining>>

\* Mutant: the result is written whatever became of the run.
EndsBlind(h) ==
  /\ step[h] = "running"
  /\ \E st \in {"completed", "failed"} :
       SetStatus([status EXCEPT ![run[h]] = st])
  /\ Goto(h, "acking")
  /\ UNCHANGED <<workflow, round, origin, messages, draining, faults>>

\* The graph completes, fails or raises, or times out.
Ends(h) ==
  /\ step[h] = "running"
  /\ \/ Complete(run[h], "completed") /\ Goto(h, "acking")
     \/ Complete(run[h], "failed") /\ Goto(h, "acking")
     \/ Complete(run[h], "failed") /\ Goto(h, "naking")
  /\ UNCHANGED <<workflow, round, origin, messages, draining, faults>>

\* The message is acknowledged or handed back, and the handler returns.
Settle(h) ==
  /\ step[h] \in {"acking", "naking"}
  /\ mail' = [mail EXCEPT ![on[h]] =
                IF step[h] = "acking" THEN "gone" ELSE "pending"]
  /\ Idle({h})
  /\ UNCHANGED <<rows, letter, draining, faults>>

-----------------------------------------------------------------------------
(* Leases. *)

\* A heartbeat is missed for HEARTBEAT_STALE_MINUTES: nobody holds the run, or
\* its worker stalls.
Lapse(r) ==
  /\ Running(r) /\ r \notin lapsed
  /\ IF Held(r) THEN Faulty("stall") ELSE UNCHANGED faults
  /\ lapsed' = lapsed \cup {r}
  /\ UNCHANGED <<workflow, status, owner, round, origin, messages, draining,
                 handlers>>

\* _heartbeat_once renews the worker's own rows.
Heartbeat(w) ==
  /\ \E r \in lapsed :
       /\ Running(r) /\ owner[r] = w
       /\ \E h \in Handlers :
            h[1] = w /\ run[h] = r /\ step[h] \in Registered
       /\ lapsed' = lapsed \ {r}
  /\ UNCHANGED <<workflow, status, owner, round, origin, messages, draining,
                 handlers, faults>>

\* Mutant: only rows that carry no lease are reaped.
ReapUnleased(r) ==
  /\ Running(r) /\ r \in lapsed
  /\ owner[r] = None
  /\ SetStatus([status EXCEPT ![r] = "failed"])
  /\ UNCHANGED <<workflow, round, origin, messages, draining, handlers, faults>>

\* reap_stale_agent_runs.
Reap(r) ==
  /\ Running(r) /\ r \in lapsed
  /\ SetStatus([status EXCEPT ![r] = "failed"])
  /\ UNCHANGED <<workflow, round, origin, messages, draining, handlers, faults>>

-----------------------------------------------------------------------------
(* Workers stop and start. *)

Busy(w) == {h \in Handlers : h[1] = w /\ step[h] # "idle"}

\* SIGTERM: no new work; a message that arrives is handed back at the exit.
BeginDrain(w) ==
  /\ w \in Drains
  /\ w \notin draining
  /\ draining' = draining \cup {w}
  /\ UNCHANGED <<rows, messages, handlers, faults>>

\* The budget is exhausted, or the render has not been submitted yet: the tasks
\* are cancelled together, and their failure handling with them.
DrainCancels(w) ==
  LET H == {h \in Busy(w) : step[h] \notin {"cancelled", "handback"}} IN
  /\ w \in draining /\ H # {}
  /\ step' = [h \in Handlers |-> IF h \in H THEN "cancelled" ELSE step[h]]
  /\ run' = [h \in Handlers |-> IF h \in H /\ step[h] \notin Registered
                                THEN None ELSE run[h]]
  /\ UNCHANGED <<rows, messages, draining, on, faults>>

\* The registered runs of the cancelled handlers.
Cancelled(w) == {run[h] : h \in {g \in Busy(w) : step[g] = "cancelled"}}

HandsBack(w) ==
  step' = [h \in Handlers |-> IF h \in Busy(w) THEN "handback" ELSE step[h]]

\* Mutant: the drain does not release the cancelled runs.
DrainKeeps(w) ==
  /\ w \in draining /\ \E h \in Busy(w) : step[h] = "cancelled"
  /\ HandsBack(w)
  /\ UNCHANGED <<rows, messages, draining, on, run, faults>>

\* Mutant: the release does not ask whose lease it is.
DrainReleasesAny(w) ==
  /\ w \in draining /\ \E h \in Busy(w) : step[h] = "cancelled"
  /\ SetStatus([r \in Runs |-> IF r \in Cancelled(w) /\ Running(r)
                               THEN "failed" ELSE status[r]])
  /\ HandsBack(w)
  /\ UNCHANGED <<workflow, round, origin, messages, draining, on, run, faults>>

\* Every registered run that was cancelled is failed, if this worker still has
\* its lease, before the messages go back.
DrainReleases(w) ==
  /\ w \in draining /\ \E h \in Busy(w) : step[h] = "cancelled"
  /\ SetStatus([r \in Runs |->
                  IF r \in Cancelled(w) /\ Running(r) /\ owner[r] = w
                  THEN "failed" ELSE status[r]])
  /\ HandsBack(w)
  /\ UNCHANGED <<workflow, round, origin, messages, draining, on, run, faults>>

\* The deferred messages go back, and the replacement subscribes. It takes the
\* name of the worker it replaces, as a pinned WORKER_ID makes it.
DrainExits(w) ==
  /\ w \in draining
  /\ \A h \in Busy(w) : step[h] = "handback"
  /\ mail' = [m \in Msgs |-> IF \E h \in Busy(w) : on[h] = m
                             THEN "pending" ELSE mail[m]]
  /\ Idle(Busy(w))
  /\ draining' = draining \ {w}
  /\ UNCHANGED <<rows, letter, faults>>

\* The messages in hand stay unacknowledged until their ack_wait.
Crash(w) ==
  /\ Faulty("crash")
  /\ mail' = [m \in Msgs |->
                IF \E h \in Busy(w) : on[h] = m THEN "unacked" ELSE mail[m]]
  /\ Idle(Busy(w))
  /\ draining' = draining \ {w}
  /\ UNCHANGED <<rows, letter>>

\* ack_wait (92 minutes) passes, and by then the reaper, every 30 minutes, has
\* freed the runs nobody holds.
AckWait(m) ==
  /\ mail[m] = "unacked"
  /\ \A r \in Runs : Running(r) => Held(r)
  /\ mail' = [mail EXCEPT ![m] = "pending"]
  /\ UNCHANGED <<rows, letter, draining, handlers, faults>>

-----------------------------------------------------------------------------
HandlerStep(h) ==
  \/ Create(h) \/ Blocked(h)
  \/ LoadRun(h) \/ ClaimPaused(h) \/ ClaimFails(h) \/ Probe(h)
  \/ Interrupts(h) \/ RecordPause(h) \/ Ends(h) \/ Settle(h)

Request(m) ==
  Trigger(m) \/ \E r \in Runs : Review(m, r)

WorkerStep(w) ==
  \/ Heartbeat(w) \/ BeginDrain(w) \/ Crash(w)
  \/ DrainCancels(w) \/ DrainReleases(w) \/ DrainExits(w)

Next ==
  \/ \E m \in Msgs : Request(m) \/ AckWait(m)
  \/ \E h \in Handlers, m \in Msgs : Deliver(h, m)
  \/ \E h \in Handlers : HandlerStep(h)
  \/ \E r \in Runs : Lapse(r) \/ Reap(r)
  \/ \E w \in Workers : WorkerStep(w)
  \/ CancelBrand

Spec == Init /\ [][Next]_vars

\* A handler ends because the workflow has a timeout; a drain has a budget; time
\* passes for heartbeats, and the scheduler fires the reaper.
Fairness ==
  /\ \A h \in Handlers : WF_vars(HandlerStep(h))
  /\ \A w \in Workers : WF_vars(DrainReleases(w))
  /\ \A r \in Runs : WF_vars(Lapse(r)) /\ WF_vars(Reap(r))
FairSpec == Spec /\ Fairness

-----------------------------------------------------------------------------
(* Properties. *)

\* No two handlers ever work on the same run: one decision resumes a paused run
\* (the compare-and-set of _handle_resume), whoever stalls, drains or dies.
OneExecutor ==
  \A g, h \in Handlers :
    step[g] \in Carrying /\ step[h] \in Carrying /\ run[g] = run[h] => g = h

\* A run that was completed, failed or cancelled stays so: a zombie that
\* finishes late does not resurrect it (complete_agent_run).
TerminalStays ==
  [][\A r \in Runs : status[r] \in Terminal => status'[r] = status[r]]_vars

\* A run is failed only by the handler that executes it, or after its lease
\* lapsed: a drain never fails the live run of another worker.
LiveRunIsNotFailed ==
  [][\A r \in Runs, h \in Handlers :
       /\ Running(r) /\ status'[r] = "failed" /\ r \notin lapsed
       /\ run[h] = r /\ step[h] = "running"
       => step'[h] # "running"]_vars

\* A message is never dropped because of the run its own abandoned attempt left
\* behind (one that never paused): a drain releases that run before it hands the
\* message back, and a death is reaped before the message is delivered again.
OwnRunNeverBlocks ==
  [][\A h \in Handlers, r \in Runs :
       /\ h[2] = "trigger" /\ step[h] = "started" /\ step'[h] = "acking"
       /\ Running(r) /\ origin[r] = on[h] /\ round[r] = 0
       => \E g \in Handlers : run[g] = r]_vars

\* Every run leaves 'running', which would block the workflow for the brand:
\* its handler ends, or the lease lapses and the reaper takes it.
RunLeavesRunning ==
  \A r \in Runs : status[r] = "running" ~> status[r] # "running"

=============================================================================

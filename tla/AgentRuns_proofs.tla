---------------------------- MODULE AgentRuns_proofs ----------------------------
(***************************************************************************)
(* Type correctness of AgentRuns, the mutual exclusion of the handlers of  *)
(* one run, the stability of terminal runs, and that no message is dropped *)
(* for the run its own attempt left behind, for any number of workers,     *)
(* runs, messages, rounds and faults.                                      *)
(***************************************************************************)
EXTENDS AgentRuns, TLAPS



\* SetStatus keeps the types of the rows.
LEMMA StatusTypes ==
  ASSUME TypeOK, NEW st \in [Runs -> Statuses], SetStatus(st)
  PROVE  RowTypes'
  BY DEF TypeOK, RowTypes, SetStatus

\* So does the conditional write of a result.
LEMMA CompleteTypes ==
  ASSUME TypeOK, NEW r \in Runs, NEW s \in Statuses, Complete(r, s)
  PROVE  RowTypes'
<1> DEFINE st == [status EXCEPT ![r] = IF @ = "running" THEN s ELSE @]
<1>1. st \in [Runs -> Statuses]
  BY DEF TypeOK, RowTypes
<1>2. SetStatus(st)
  BY DEF Complete
<1> QED
  BY <1>1, <1>2, StatusTypes

\* And the stamp of a lease.
LEMMA LeaseTypes ==
  ASSUME TypeOK, NEW r \in Runs, NEW w \in Workers, Lease(r, w)
  PROVE  RowTypes'
  BY DEF TypeOK, RowTypes, Lease, Statuses

\* A handler that moves on keeps its message and its run.
LEMMA GotoTypes ==
  ASSUME TypeOK, NEW h \in Handlers, NEW s \in Steps, Goto(h, s), UNCHANGED letter,
         step[h] # "idle",
         s \in Carrying \cup {"claiming"} => run[h] \in Runs,
         s \in {"claiming", "probing"} => h[2] = "resume"
  PROVE  HandTypes'
  BY DEF TypeOK, HandTypes, Goto

\* A handler that takes or drops a run keeps its message.
LEMMA CarryTypes ==
  ASSUME TypeOK, NEW h \in Handlers, NEW s \in Steps, NEW r \in Runs \cup {None},
         Carry(h, s, r), UNCHANGED letter, step[h] # "idle",
         s \in Carrying \cup {"claiming"} => r \in Runs,
         s \in {"claiming", "probing"} => h[2] = "resume"
  PROVE  HandTypes'
  BY DEF TypeOK, HandTypes, Carry

\* Handlers that return have no message and no run.
LEMMA IdleTypes ==
  ASSUME TypeOK, NEW H, Idle(H), UNCHANGED letter
  PROVE  HandTypes'
  BY DEF TypeOK, HandTypes, Idle, Steps, Carrying

\* A fault is counted below its bound.
LEMMA FaultTypes ==
  ASSUME TypeOK, NEW kind, Faulty(kind)
  PROVE  faults' \in 0..MaxFaults
  BY RunsAssumption DEF TypeOK, OtherTypes, Faulty

\* A handler at work has a message that was sent on its lane.
LEMMA OfItsLane ==
  ASSUME TypeOK, NEW h \in Handlers, step[h] # "idle"
  PROVE  on[h] \in Msgs /\ letter[on[h]].kind = h[2] /\ letter[on[h]].kind # "none"
<1>1. on[h] \in Msgs /\ letter[on[h]].kind = h[2]
  BY DEF TypeOK, HandTypes
<1>2. h[2] \in Lanes
  BY DEF Handlers
<1>3. h[2] # "none"
  BY <1>2 DEF Lanes
<1> QED
  BY <1>1, <1>3

-----------------------------------------------------------------------------
(* Type correctness, action by action. *)

\* The variables start with their types.
LEMMA InitTypes == Init => TypeOK
  BY RunsAssumption
  DEF Init, TypeOK, RowTypes, MailTypes, HandTypes, OtherTypes, Statuses, Letters,
      Blank, Steps, Carrying, Runs, Msgs

\* Requests keep the types: a new message is one that nobody handles.
LEMMA RequestTypes ==
  ASSUME TypeOK, NEW m \in Msgs, Request(m)
  PROVE  TypeOK'
<1>1. ASSUME NEW what \in Letters, Post(m, what), what.kind # "none",
             what.kind = "resume" => what.run \in Runs,
             UNCHANGED handlers
      PROVE  MailTypes' /\ HandTypes'
  <2>1. MailTypes'
    BY <1>1 DEF TypeOK, MailTypes, Post, NextMsg
  <2>2. \A h \in Handlers : step[h] # "idle" => on[h] # m
    BY <1>1, OfItsLane DEF TypeOK, MailTypes, Post, NextMsg
  <2>3. HandTypes'
    BY <1>1, <2>2 DEF TypeOK, MailTypes, HandTypes, Post, handlers
  <2> QED
    BY <2>1, <2>3
<1>2. CASE Trigger(m)
  <2>1. [Blank EXCEPT !.kind = "trigger"] \in Letters
    BY RunsAssumption DEF Blank, Letters, Lanes
  <2>2. MailTypes' /\ HandTypes'
    BY <1>1, <1>2, <2>1 DEF Trigger, Blank
  <2> QED
    BY <1>2, <2>2 DEF TypeOK, RowTypes, OtherTypes, Trigger, rows, handlers
<1>3. ASSUME NEW r \in Runs, Review(m, r) PROVE TypeOK'
  <2>1. [kind |-> "resume", run |-> r, round |-> round[r]] \in Letters
    BY DEF TypeOK, OtherTypes, Letters, Lanes
  <2>2. MailTypes' /\ HandTypes'
    BY <1>1, <1>3, <2>1 DEF Review
  <2> QED
    BY <1>3, <2>2 DEF TypeOK, RowTypes, OtherTypes, Review, rows, handlers
<1> QED
  BY <1>2, <1>3 DEF Request

\* A delivery keeps the types: the handler takes a message of its lane.
LEMMA DeliverTypes ==
  ASSUME TypeOK, NEW h \in Handlers, NEW m \in Msgs, Deliver(h, m)
  PROVE  TypeOK'
<1>1. MailTypes'
  BY DEF TypeOK, MailTypes, HandTypes, Deliver, Handlers, Lanes
<1>2. HandTypes'
  BY DEF TypeOK, HandTypes, Deliver, Steps, Carrying
<1> QED
  BY <1>1, <1>2 DEF TypeOK, RowTypes, OtherTypes, Deliver, rows

\* A handler that takes a run keeps the types.
LEMMA TakesTypes ==
  ASSUME TypeOK, NEW h \in Handlers, NEW s \in {"running", "probing"},
         NEW r \in Runs, Takes(h, s, r), UNCHANGED letter, step[h] # "idle",
         s = "probing" => h[2] = "resume"
  PROVE  HandTypes' /\ faults' \in 0..MaxFaults
<1>1. CASE Carry(h, s, r) /\ UNCHANGED faults
  BY <1>1, CarryTypes DEF Steps, Carrying, Registered, TypeOK, OtherTypes
<1>2. CASE Faulty("unregistered") /\ Carry(h, "cancelled", None)
  BY <1>2, CarryTypes, FaultTypes DEF Steps, Carrying
<1> QED
  BY <1>1, <1>2 DEF Takes

\* Every step of a handler keeps the types.
LEMMA HandlerTypes ==
  ASSUME TypeOK, NEW h \in Handlers, HandlerStep(h)
  PROVE  TypeOK'
<1> USE DEF TypeOK
<1>1. CASE Create(h)
  <2>1. PICK r \in Runs : /\ Lease(r, h[1])
                          /\ origin' = [origin EXCEPT ![r] = on[h]]
                          /\ Takes(h, "running", r)
    BY <1>1 DEF Create
  <2>2. h[1] \in Workers /\ on[h] \in Msgs
    BY <1>1 DEF Create, HandTypes, Handlers
  <2>3. RowTypes'
    BY <2>1, <2>2, LeaseTypes
  <2>4. HandTypes' /\ faults' \in 0..MaxFaults
    BY <1>1, <2>1, TakesTypes DEF Create, messages
  <2> QED
    BY <1>1, <2>1, <2>2, <2>3, <2>4 DEF Create, MailTypes, OtherTypes, messages
<1>2. CASE Blocked(h)
  <2>1. HandTypes'
    BY <1>2, GotoTypes DEF Blocked, messages, Steps, Carrying, Registered
  <2> QED
    BY <1>2, <2>1 DEF Blocked, RowTypes, MailTypes, OtherTypes, rows, messages
<1>3. CASE LoadRun(h)
  <2>1. letter[on[h]].run \in Runs
    BY <1>3, OfItsLane DEF LoadRun, MailTypes
  <2>2. HandTypes'
    BY <1>3, <2>1, GotoTypes, CarryTypes
    DEF LoadRun, messages, Steps, Carrying, Registered
  <2> QED
    BY <1>3, <2>2 DEF LoadRun, RowTypes, MailTypes, OtherTypes, rows, messages
<1>4. CASE ClaimPaused(h)
  <2>1. run[h] \in Runs /\ h[1] \in Workers /\ h[2] = "resume"
    BY <1>4 DEF ClaimPaused, HandTypes, Handlers
  <2>2. RowTypes'
    BY <1>4, <2>1, LeaseTypes DEF ClaimPaused
  <2>3. HandTypes' /\ faults' \in 0..MaxFaults
    BY <1>4, <2>1, TakesTypes DEF ClaimPaused, messages
  <2> QED
    BY <1>4, <2>2, <2>3 DEF ClaimPaused, MailTypes, OtherTypes, messages
<1>5. CASE ClaimFails(h)
  <2>1. HandTypes'
    BY <1>5, CarryTypes DEF ClaimFails, messages, Steps, Carrying, Registered
  <2> QED
    BY <1>5, <2>1 DEF ClaimFails, RowTypes, MailTypes, OtherTypes, rows, messages
<1>6. CASE Probe(h)
  <2>1. run[h] \in Runs
    BY <1>6 DEF Probe, HandTypes, Carrying
  <2>2. HandTypes'
    BY <1>6, <2>1, GotoTypes DEF Probe, messages, Steps, Carrying, Registered
  <2>3. RowTypes'
    BY <1>6, <2>1, CompleteTypes DEF Probe, RowTypes, Statuses
  <2>4. faults' \in 0..MaxFaults
    BY <1>6, FaultTypes DEF Probe, OtherTypes
  <2> QED
    BY <1>6, <2>2, <2>3, <2>4 DEF Probe, MailTypes, OtherTypes, messages
<1>7. CASE Interrupts(h)
  <2>1. run[h] \in Runs
    BY <1>7 DEF Interrupts, HandTypes, Carrying
  <2>2. HandTypes'
    BY <1>7, <2>1, GotoTypes DEF Interrupts, messages, Steps, Carrying, Registered
  <2>3. round' \in [Runs -> 0..MaxRounds]
    BY <1>7, <2>1, RunsAssumption DEF Interrupts, OtherTypes
  <2> QED
    BY <1>7, <2>2, <2>3 DEF Interrupts, RowTypes, MailTypes, OtherTypes, messages
<1>8. CASE RecordPause(h)
  <2>1. run[h] \in Runs
    BY <1>8 DEF RecordPause, HandTypes, Carrying
  <2>2. HandTypes'
    BY <1>8, GotoTypes DEF RecordPause, messages, Steps, Carrying, Registered
  <2>3. RowTypes'
    BY <1>8, <2>1, CompleteTypes DEF RecordPause, RowTypes, Statuses
  <2>4. faults' \in 0..MaxFaults
    BY <1>8, FaultTypes DEF RecordPause, OtherTypes
  <2> QED
    BY <1>8, <2>2, <2>3, <2>4 DEF RecordPause, MailTypes, OtherTypes, messages
<1>9. CASE Ends(h)
  <2>1. run[h] \in Runs
    BY <1>9 DEF Ends, HandTypes, Carrying
  <2>2. HandTypes'
    BY <1>9, GotoTypes DEF Ends, messages, Steps, Carrying, Registered
  <2>3. RowTypes'
    BY <1>9, <2>1, CompleteTypes DEF Ends, Statuses
  <2> QED
    BY <1>9, <2>2, <2>3 DEF Ends, MailTypes, OtherTypes, messages
<1>10. CASE Settle(h)
  <2>1. on[h] \in Msgs /\ letter[on[h]].kind # "none"
    BY <1>10, OfItsLane DEF Settle
  <2>2. MailTypes'
    BY <1>10, <2>1 DEF Settle, MailTypes
  <2>3. HandTypes'
    BY <1>10, IdleTypes DEF Settle
  <2> QED
    BY <1>10, <2>2, <2>3 DEF Settle, RowTypes, OtherTypes, rows
<1> QED
  BY <1>1, <1>2, <1>3, <1>4, <1>5, <1>6, <1>7, <1>8, <1>9, <1>10 DEF HandlerStep

\* Leases, the reaper and the deactivation of the brand keep the types.
LEMMA LeaseStepTypes ==
  ASSUME TypeOK, CancelBrand \/ \E r \in Runs : Lapse(r) \/ Reap(r)
  PROVE  TypeOK'
<1> USE DEF TypeOK
<1>1. CASE CancelBrand
  <2>1. RowTypes'
    BY <1>1, StatusTypes DEF CancelBrand, RowTypes, Statuses
  <2>2. faults' \in 0..MaxFaults
    BY <1>1, FaultTypes DEF CancelBrand
  <2> QED
    BY <1>1, <2>1, <2>2
    DEF CancelBrand, MailTypes, HandTypes, OtherTypes, messages, handlers
<1>2. ASSUME NEW r \in Runs, Lapse(r) PROVE TypeOK'
  <2>1. faults' \in 0..MaxFaults
    BY <1>2, FaultTypes DEF Lapse, OtherTypes
  <2> QED
    BY <1>2, <2>1
    DEF Lapse, RowTypes, MailTypes, HandTypes, OtherTypes, messages, handlers
<1>3. ASSUME NEW r \in Runs, Reap(r) PROVE TypeOK'
  <2>1. RowTypes'
    BY <1>3, StatusTypes DEF Reap, RowTypes, Statuses
  <2> QED
    BY <1>3, <2>1 DEF Reap, MailTypes, HandTypes, OtherTypes, messages, handlers
<1> QED
  BY <1>1, <1>2, <1>3

\* Messages that go back are messages that were sent.
LEMMA BackTypes ==
  ASSUME TypeOK, NEW w \in Workers, NEW s \in {"pending", "unacked"},
         UNCHANGED letter,
         mail' = [m \in Msgs |-> IF \E h \in Busy(w) : on[h] = m
                                 THEN s ELSE mail[m]]
  PROVE  MailTypes'
<1>1. \A h \in Busy(w) : letter[on[h]].kind # "none"
  BY OfItsLane DEF Busy
<1> QED
  BY <1>1 DEF TypeOK, MailTypes

\* Every step of a worker keeps the types.
LEMMA WorkerTypes ==
  ASSUME TypeOK, NEW w \in Workers, WorkerStep(w)
  PROVE  TypeOK'
<1> USE DEF TypeOK
<1>1. CASE Heartbeat(w)
  BY <1>1
  DEF Heartbeat, RowTypes, MailTypes, HandTypes, OtherTypes, messages, handlers
<1>2. CASE BeginDrain(w)
  BY <1>2 DEF BeginDrain, RowTypes, MailTypes, HandTypes, OtherTypes, rows,
              messages, handlers
<1>3. CASE Crash(w)
  <2>1. MailTypes'
    BY <1>3, BackTypes DEF Crash
  <2>2. HandTypes'
    BY <1>3, IdleTypes DEF Crash
  <2>3. faults' \in 0..MaxFaults
    BY <1>3, FaultTypes DEF Crash
  <2> QED
    BY <1>3, <2>1, <2>2, <2>3 DEF Crash, RowTypes, OtherTypes, rows
<1>4. CASE DrainCancels(w)
  <2>1. HandTypes'
    BY <1>4 DEF DrainCancels, HandTypes, Busy, Steps, Carrying, messages
  <2> QED
    BY <1>4, <2>1 DEF DrainCancels, RowTypes, MailTypes, OtherTypes, rows, messages
<1>5. CASE DrainReleases(w)
  <2>1. RowTypes'
    BY <1>5, StatusTypes DEF DrainReleases, RowTypes, Statuses
  <2>2. HandTypes'
    BY <1>5 DEF DrainReleases, HandsBack, HandTypes, Busy, Steps, Carrying, messages
  <2> QED
    BY <1>5, <2>1, <2>2 DEF DrainReleases, MailTypes, OtherTypes, messages
<1>6. CASE DrainExits(w)
  <2>1. MailTypes'
    BY <1>6, BackTypes DEF DrainExits
  <2>2. HandTypes'
    BY <1>6, IdleTypes DEF DrainExits
  <2> QED
    BY <1>6, <2>1, <2>2 DEF DrainExits, RowTypes, OtherTypes, rows
<1> QED
  BY <1>1, <1>2, <1>3, <1>4, <1>5, <1>6 DEF WorkerStep

\* So does the redelivery of a message.
LEMMA AckWaitTypes ==
  ASSUME TypeOK, NEW m \in Msgs, AckWait(m)
  PROVE  TypeOK'
  BY DEF TypeOK, AckWait, RowTypes, MailTypes, HandTypes, OtherTypes, rows, handlers

\* Type correctness: every variable of AgentRuns keeps its type, a handler at
\* work has a message of its lane, and a handler that works on a run has one.
THEOREM Typing == Spec => []TypeOK
<1>1. TypeOK /\ [Next]_vars => TypeOK'
  <2> SUFFICES ASSUME TypeOK, [Next]_vars PROVE TypeOK'
    OBVIOUS
  <2>1. CASE UNCHANGED vars
    BY <2>1 DEF vars, rows, messages, handlers, TypeOK, RowTypes, MailTypes,
                HandTypes, OtherTypes
  <2>2. CASE Next
    BY <2>2, RequestTypes, AckWaitTypes, DeliverTypes, HandlerTypes,
       LeaseStepTypes, WorkerTypes DEF Next
  <2> QED
    BY <2>1, <2>2
<1> QED
  BY <1>1, InitTypes, PTL DEF Spec

-----------------------------------------------------------------------------
(* What each kind of write does to a run. *)

\* complete_agent_run changes a running run, to the status it is given.
LEMMA CompleteChanges ==
  ASSUME TypeOK, NEW r \in Runs, NEW s \in Statuses, Complete(r, s), NEW q \in Runs
  PROVE  status'[q] = status[q] \/ (q = r /\ status[q] = "running" /\ status'[q] = s)
  BY DEF TypeOK, RowTypes, Complete, SetStatus

\* A step changes the status of a run in one of five ways: the run is created,
\* claimed from its pause, paused by its handler, ended by its handler, or ended
\* by the reaper, a drain or a deactivation.
LEMMA StatusSteps ==
  ASSUME TypeOK, [Next]_vars, NEW r \in Runs, status'[r] # status[r]
  PROVE  \/ status[r] = "none"
         \/ status[r] = "paused_for_review"
         \/ status[r] = "running"
            /\ status'[r] \in Terminal \cup {"paused_for_review"}
<1> USE DEF TypeOK
<1>1. SUFFICES ASSUME Next PROVE \/ status[r] \in {"none", "paused_for_review"}
                                 \/ status[r] = "running"
                                    /\ status'[r] \in Terminal \cup {"paused_for_review"}
  BY DEF vars, rows
<1>2. ASSUME NEW h \in Handlers, HandlerStep(h)
      PROVE  \/ status[r] \in {"none", "paused_for_review"}
             \/ status[r] = "running" /\ status'[r] \in Terminal \cup {"paused_for_review"}
  <2>1. CASE Create(h)
    BY <2>1 DEF Create, Lease, NextRun, RowTypes
  <2>2. CASE ClaimPaused(h)
    BY <2>2 DEF ClaimPaused, Lease, RowTypes
  <2>3. CASE Probe(h)
    <3>1. run[h] \in Runs
      BY <2>3 DEF Probe, HandTypes, Carrying
    <3>2. Complete(run[h], "failed")
      BY <2>3 DEF Probe
    <3> QED
      BY <3>1, <3>2, CompleteChanges DEF Statuses, Terminal
  <2>4. CASE RecordPause(h)
    <3>1. run[h] \in Runs
      BY <2>4 DEF RecordPause, HandTypes, Carrying
    <3>2. Complete(run[h], "paused_for_review")
      BY <2>4 DEF RecordPause
    <3> QED
      BY <3>1, <3>2, CompleteChanges DEF Statuses, Terminal
  <2>5. CASE Ends(h)
    <3>1. run[h] \in Runs
      BY <2>5 DEF Ends, HandTypes, Carrying
    <3>2. Complete(run[h], "failed") \/ Complete(run[h], "completed")
      BY <2>5 DEF Ends
    <3> QED
      BY <3>1, <3>2, CompleteChanges DEF Statuses, Terminal
  <2>6. CASE Blocked(h) \/ LoadRun(h) \/ ClaimFails(h) \/ Interrupts(h) \/ Settle(h)
    BY <2>6 DEF Blocked, LoadRun, ClaimFails, Interrupts, Settle, rows
  <2> QED
    BY <1>2, <2>1, <2>2, <2>3, <2>4, <2>5, <2>6 DEF HandlerStep
<1>3. ASSUME NEW w \in Workers, WorkerStep(w)
      PROVE  status[r] = "running" /\ status'[r] \in Terminal
  <2>1. CASE DrainReleases(w)
    BY <2>1 DEF DrainReleases, SetStatus, Running, Terminal, RowTypes
  <2> QED
    BY <1>3, <2>1 DEF WorkerStep, Heartbeat, BeginDrain, Crash, DrainCancels,
                     DrainExits, rows
<1>4. ASSUME CancelBrand \/ \E q \in Runs : Lapse(q) \/ Reap(q)
      PROVE  status[r] = "running" /\ status'[r] \in Terminal
  BY <1>4 DEF CancelBrand, Lapse, Reap, SetStatus, Running, Terminal, RowTypes
<1>5. ASSUME NEW m \in Msgs, Request(m) \/ AckWait(m) \/ \E h \in Handlers : Deliver(h, m)
      PROVE  FALSE
  BY <1>5 DEF Request, Trigger, Review, AckWait, Deliver, rows
<1> QED
  BY <1>1, <1>2, <1>3, <1>4, <1>5 DEF Next

\* No resurrection: a run that was completed, failed or cancelled stays so, also
\* when a handler that lost its lease finishes later.
THEOREM NoResurrection == Spec => TerminalStays
<1>1. TypeOK /\ [Next]_vars =>
        [\A r \in Runs : status[r] \in Terminal => status'[r] = status[r]]_vars
  BY StatusSteps DEF Terminal
<1> QED
  BY <1>1, Typing, PTL DEF Spec, TerminalStays

-----------------------------------------------------------------------------
(* Mutual exclusion of the handlers of a run. *)

\* A run in a handler's hands exists and is not paused: whoever takes a run must
\* find it in a status that no run in anybody's hands has.
CarriedRunsAreTaken ==
  \A h \in Handlers :
    step[h] \in Carrying => status[run[h]] \notin {"none", "paused_for_review"}

Exclusion == CarriedRunsAreTaken /\ OneExecutor

\* A step that hands out no run and makes none free keeps the exclusion.
LEMMA NobodyTakes ==
  ASSUME TypeOK, Exclusion,
         \A h \in Handlers : step'[h] \in Carrying
                             => step[h] \in Carrying /\ run'[h] = run[h],
         \A h \in Handlers : step'[h] \in Carrying
                             => \/ status'[run[h]] = status[run[h]]
                                \/ status'[run[h]] \notin {"none", "paused_for_review"}
  PROVE  Exclusion'
  BY DEF Exclusion, CarriedRunsAreTaken, OneExecutor

\* Taking a run that is new or paused keeps it.
LEMMA OneTakes ==
  ASSUME TypeOK, Exclusion, NEW h \in Handlers, NEW r \in Runs,
         NEW s \in {"running", "probing"}, step[h] \notin Carrying,
         status[r] \in {"none", "paused_for_review"},
         Lease(r, h[1]), Takes(h, s, r)
  PROVE  Exclusion'
<1>1. \A g \in Handlers : step[g] \in Carrying => run[g] # r /\ run[g] \in Runs
  BY DEF TypeOK, HandTypes, Exclusion, CarriedRunsAreTaken
<1>2. /\ status'[r] = "running"
      /\ \A q \in Runs \ {r} : status'[q] = status[q]
  BY DEF TypeOK, RowTypes, Lease
<1>3. \A g \in Handlers \ {h} : step'[g] = step[g] /\ run'[g] = run[g]
  BY DEF TypeOK, HandTypes, Takes, Carry
<1>4. step'[h] \in Carrying => run'[h] = r
  BY DEF TypeOK, HandTypes, Takes, Carry, Carrying
<1>5. CarriedRunsAreTaken'
  BY <1>1, <1>2, <1>3, <1>4 DEF Exclusion, CarriedRunsAreTaken
<1>6. OneExecutor'
  BY <1>1, <1>3, <1>4 DEF Exclusion, OneExecutor
<1> QED
  BY <1>5, <1>6 DEF Exclusion

\* Every step of a handler keeps the exclusion.
LEMMA HandlerExclusion ==
  ASSUME TypeOK, Exclusion, NEW h \in Handlers, HandlerStep(h)
  PROVE  Exclusion'
<1> USE DEF TypeOK
<1>1. CASE Create(h)
  BY <1>1, OneTakes DEF Create, NextRun, Carrying
<1>2. CASE ClaimPaused(h)
  <2>1. run[h] \in Runs
    BY <1>2 DEF ClaimPaused, HandTypes
  <2> QED
    BY <1>2, <2>1, OneTakes DEF ClaimPaused, Carrying
<1>3. CASE Blocked(h) \/ LoadRun(h) \/ ClaimFails(h) \/ Settle(h)
  <2>1. \A g \in Handlers : step'[g] \in Carrying
                            => step[g] \in Carrying /\ run'[g] = run[g]
    BY <1>3 DEF Blocked, LoadRun, ClaimFails, Settle, Goto, Carry, Idle, HandTypes,
                Carrying
  <2>2. status' = status
    BY <1>3 DEF Blocked, LoadRun, ClaimFails, Settle, rows
  <2> QED
    BY <2>1, <2>2, NobodyTakes
<1>4. CASE Interrupts(h) \/ Probe(h) \/ Ends(h)
  <2>1. step[h] \in Carrying /\ run[h] \in Runs
    BY <1>4 DEF Interrupts, Probe, Ends, HandTypes, Carrying
  <2>2. \E s \in Steps : Goto(h, s)
    BY <1>4 DEF Interrupts, Probe, Ends, Steps, Carrying, Registered
  <2>3. \A g \in Handlers : step'[g] \in Carrying
                            => step[g] \in Carrying /\ run'[g] = run[g]
    BY <2>1, <2>2 DEF Goto, HandTypes
  <2>4. \/ status' = status
        \/ Complete(run[h], "failed") \/ Complete(run[h], "completed")
    BY <1>4 DEF Interrupts, Probe, Ends
  <2>5. \A q \in Runs : \/ status'[q] = status[q]
                        \/ status'[q] \in {"failed", "completed"}
    BY <2>1, <2>4, CompleteChanges DEF Statuses
  <2>6. \A g \in Handlers : step'[g] \in Carrying => run[g] \in Runs
    BY <2>3 DEF HandTypes
  <2> QED
    BY <2>3, <2>5, <2>6, NobodyTakes
<1>5. CASE RecordPause(h)
  <2>1. step[h] \in Carrying /\ run[h] \in Runs /\ Goto(h, "acking")
    BY <1>5 DEF RecordPause, HandTypes, Carrying
  <2>2. \A g \in Handlers : step'[g] \in Carrying
                            => g # h /\ step[g] \in Carrying /\ run'[g] = run[g]
    BY <2>1 DEF Goto, HandTypes, Carrying
  <2>3. \A g \in Handlers : step'[g] \in Carrying
                            => run[g] \in Runs /\ run[g] # run[h]
    BY <2>1, <2>2 DEF HandTypes, Exclusion, OneExecutor
  <2>4. \A q \in Runs \ {run[h]} : status'[q] = status[q]
    BY <1>5, <2>1, CompleteChanges DEF RecordPause, Statuses
  <2> QED
    BY <2>2, <2>3, <2>4, NobodyTakes
<1> QED
  BY <1>1, <1>2, <1>3, <1>4, <1>5 DEF HandlerStep

\* The steps of everybody else take no run and free none.
LEMMA OthersExclusion ==
  ASSUME TypeOK, Exclusion,
         \/ \E m \in Msgs : \/ Request(m) \/ AckWait(m)
                            \/ \E h \in Handlers : Deliver(h, m)
         \/ \E r \in Runs : Lapse(r) \/ Reap(r)
         \/ \E w \in Workers : WorkerStep(w)
         \/ CancelBrand
  PROVE  Exclusion'
<1> USE DEF TypeOK
<1>1. \A h \in Handlers : step'[h] \in Carrying
                          => step[h] \in Carrying /\ run'[h] = run[h]
  <2>1. CASE \/ \E m \in Msgs : Request(m) \/ AckWait(m)
             \/ \E r \in Runs : Lapse(r) \/ Reap(r)
             \/ CancelBrand
    BY <2>1 DEF Request, Trigger, Review, AckWait, Lapse, Reap, CancelBrand, handlers
  <2>2. CASE \E m \in Msgs, h \in Handlers : Deliver(h, m)
    BY <2>2 DEF Deliver, HandTypes, Carrying
  <2>3. ASSUME NEW w \in Workers, WorkerStep(w)
        PROVE  \A h \in Handlers : step'[h] \in Carrying
                                   => step[h] \in Carrying /\ run'[h] = run[h]
    <3>1. CASE Heartbeat(w) \/ BeginDrain(w)
      BY <3>1 DEF Heartbeat, BeginDrain, handlers
    <3>2. CASE DrainCancels(w)
      BY <3>2 DEF DrainCancels, HandTypes, Carrying
    <3>3. CASE DrainReleases(w)
      BY <3>3 DEF DrainReleases, HandsBack, HandTypes, Carrying
    <3>4. CASE Crash(w) \/ DrainExits(w)
      BY <3>4 DEF Crash, DrainExits, Idle, HandTypes, Carrying
    <3> QED
      BY <2>3, <3>1, <3>2, <3>3, <3>4 DEF WorkerStep
  <2> QED
    BY <2>1, <2>2, <2>3
<1>2. \A q \in Runs : status'[q] = status[q] \/ status'[q] \in Terminal
  <2>1. CASE \E m \in Msgs : \/ Request(m) \/ AckWait(m)
                             \/ \E h \in Handlers : Deliver(h, m)
    BY <2>1 DEF Request, Trigger, Review, AckWait, Deliver, rows
  <2>2. CASE CancelBrand \/ \E r \in Runs : Lapse(r) \/ Reap(r)
    BY <2>2 DEF CancelBrand, Lapse, Reap, SetStatus, Terminal, RowTypes
  <2>3. CASE \E w \in Workers : WorkerStep(w)
    BY <2>3 DEF WorkerStep, Heartbeat, BeginDrain, Crash, DrainCancels,
                DrainReleases, DrainExits, SetStatus, Terminal, RowTypes, rows
  <2> QED
    BY <2>1, <2>2, <2>3
<1>3. \A h \in Handlers : step'[h] \in Carrying => run[h] \in Runs
  BY <1>1 DEF HandTypes
<1> QED
  BY <1>1, <1>2, <1>3, NobodyTakes DEF Terminal

\* Every step keeps the exclusion.
LEMMA ExclusionStep ==
  ASSUME TypeOK, Exclusion, [Next]_vars
  PROVE  Exclusion'
<1>1. CASE UNCHANGED vars
  BY <1>1 DEF vars, rows, handlers, Exclusion, CarriedRunsAreTaken, OneExecutor
<1>2. CASE Next
  BY <1>2, HandlerExclusion, OthersExclusion DEF Next
<1> QED
  BY <1>1, <1>2

\* No two handlers ever work on the same run, whatever stalls, drains and dies.
THEOREM MutualExclusion == Spec => []OneExecutor
<1>1. Init => Exclusion
  BY DEF Init, Exclusion, CarriedRunsAreTaken, OneExecutor, Carrying
<1>2. TypeOK /\ Exclusion /\ [Next]_vars => Exclusion'
  BY ExclusionStep
<1>3. Exclusion => OneExecutor
  BY DEF Exclusion
<1> QED
  BY <1>1, <1>2, <1>3, Typing, PTL DEF Spec

-----------------------------------------------------------------------------
(* Nobody but its executor fails a live run. *)

\* A handler that works on a running run has its lease.
HolderOwns ==
  \A h \in Handlers : step[h] \in Carrying /\ status[run[h]] = "running"
                      => owner[run[h]] = h[1]

\* A handler works on the run it worked on, or took one and stamped its lease.
LEMMA CarrySteps ==
  ASSUME TypeOK, [Next]_vars, NEW h \in Handlers, step'[h] \in Carrying
  PROVE  \/ step[h] \in Carrying /\ run[h] \in Runs /\ run'[h] = run[h]
         \/ run'[h] \in Runs /\ Lease(run'[h], h[1])
<1> USE DEF TypeOK
<1>1. CASE UNCHANGED handlers
  BY <1>1 DEF handlers, HandTypes
<1>2. ASSUME NEW g \in Handlers, HandlerStep(g)
      PROVE  \/ step[h] \in Carrying /\ run[h] \in Runs /\ run'[h] = run[h]
             \/ run'[h] \in Runs /\ Lease(run'[h], h[1])
  <2>1. CASE Create(g)
    <3>1. PICK r \in Runs : Lease(r, g[1]) /\ Takes(g, "running", r)
      BY <2>1 DEF Create
    <3>2. CASE h = g
      BY <3>1, <3>2 DEF Takes, Carry, HandTypes, Carrying
    <3>3. CASE h # g
      BY <3>1, <3>3 DEF Takes, Carry, HandTypes
    <3> QED
      BY <3>2, <3>3
  <2>2. CASE ClaimPaused(g)
    <3>1. run[g] \in Runs /\ Lease(run[g], g[1]) /\ Takes(g, "probing", run[g])
      BY <2>2 DEF ClaimPaused, HandTypes
    <3>2. CASE h = g
      BY <3>1, <3>2 DEF Takes, Carry, HandTypes, Carrying
    <3>3. CASE h # g
      BY <3>1, <3>3 DEF Takes, Carry, HandTypes
    <3> QED
      BY <3>2, <3>3
  <2>3. CASE Blocked(g) \/ LoadRun(g) \/ ClaimFails(g) \/ Settle(g)
    BY <2>3 DEF Blocked, LoadRun, ClaimFails, Settle, Goto, Carry, Idle, HandTypes,
                Carrying
  <2>4. CASE Interrupts(g) \/ Probe(g) \/ Ends(g) \/ RecordPause(g)
    BY <2>4 DEF Interrupts, Probe, Ends, RecordPause, Goto, HandTypes, Carrying
  <2> QED
    BY <1>2, <2>1, <2>2, <2>3, <2>4 DEF HandlerStep
<1>3. ASSUME NEW w \in Workers, WorkerStep(w)
      PROVE  step[h] \in Carrying /\ run[h] \in Runs /\ run'[h] = run[h]
  BY <1>3 DEF WorkerStep, Heartbeat, BeginDrain, DrainCancels, DrainReleases,
              HandsBack, Crash, DrainExits, Idle, HandTypes, Carrying, handlers
<1>4. CASE \E g \in Handlers, m \in Msgs : Deliver(g, m)
  BY <1>4 DEF Deliver, HandTypes, Carrying
<1>5. CASE \/ \E m \in Msgs : Request(m) \/ AckWait(m)
           \/ \E r \in Runs : Lapse(r) \/ Reap(r)
           \/ CancelBrand
  BY <1>1, <1>5 DEF Request, Trigger, Review, AckWait, Lapse, Reap, CancelBrand
<1> QED
  BY <1>1, <1>2, <1>3, <1>4, <1>5 DEF Next, vars

\* A run that goes on running keeps its lease.
LEMMA OwnerSteps ==
  ASSUME TypeOK, [Next]_vars, NEW r \in Runs, status'[r] = "running"
  PROVE  \/ status[r] \in {"none", "paused_for_review"}
         \/ status[r] = "running" /\ owner'[r] = owner[r]
<1> USE DEF TypeOK
<1>1. ASSUME NEW st, SetStatus(st) PROVE owner'[r] = owner[r]
  BY <1>1 DEF SetStatus
<1>2. ASSUME NEW h \in Handlers, Create(h) \/ ClaimPaused(h), status[r] = "running"
      PROVE  FALSE
  BY <1>2 DEF Create, ClaimPaused, Running
<1>3. status[r] = "running" => owner'[r] = owner[r]
  <2> SUFFICES ASSUME status[r] = "running" PROVE owner'[r] = owner[r]
    OBVIOUS
  <2>1. ASSUME NEW h \in Handlers, HandlerStep(h) PROVE owner'[r] = owner[r]
    BY <1>1, <1>2, <2>1 DEF HandlerStep, Blocked, LoadRun, ClaimFails, Probe,
                Interrupts, RecordPause, Ends, Settle, Complete, rows
  <2>2. ASSUME NEW w \in Workers, WorkerStep(w) PROVE owner'[r] = owner[r]
    BY <1>1, <2>2 DEF WorkerStep, Heartbeat, BeginDrain, DrainCancels,
                DrainReleases, Crash, DrainExits, rows
  <2>3. CASE CancelBrand \/ \E q \in Runs : Lapse(q) \/ Reap(q)
    BY <1>1, <2>3 DEF CancelBrand, Lapse, Reap
  <2>4. CASE \E m \in Msgs : \/ Request(m) \/ AckWait(m)
                             \/ \E h \in Handlers : Deliver(h, m)
    BY <2>4 DEF Request, Trigger, Review, AckWait, Deliver, rows
  <2> QED
    BY <2>1, <2>2, <2>3, <2>4 DEF Next, vars, rows
<1>4. CASE status[r] = "running"
  BY <1>3, <1>4
<1>5. CASE status[r] # "running"
  BY <1>5, StatusSteps
<1> QED
  BY <1>4, <1>5

\* The step that fails a live run ends the work of its handler.
LEMMA FailingSteps ==
  ASSUME TypeOK, HolderOwns, OneExecutor, [Next]_vars, NEW r \in Runs,
         NEW h \in Handlers, Running(r), status'[r] = "failed", r \notin lapsed,
         run[h] = r, step[h] = "running"
  PROVE  step'[h] # "running"
<1> USE DEF TypeOK
<1>1. \A g \in Handlers : step[g] \in Carrying /\ run[g] = r => g = h
  BY DEF OneExecutor, Carrying
<1>2. owner[r] = h[1]
  BY DEF HolderOwns, Running, Carrying
<1>3. ASSUME NEW g \in Handlers, HandlerStep(g) PROVE step'[h] # "running"
  <2>1. CASE Probe(g) \/ RecordPause(g) \/ Ends(g)
    <3>1. step[g] \in Carrying /\ run[g] \in Runs
      BY <2>1 DEF Probe, RecordPause, Ends, HandTypes, Carrying
    <3>2. \/ status' = status \/ Complete(run[g], "failed")
          \/ Complete(run[g], "completed") \/ Complete(run[g], "paused_for_review")
      BY <2>1 DEF Probe, RecordPause, Ends
    <3>3. run[g] = r
      BY <3>1, <3>2, CompleteChanges DEF Running, Statuses
    <3>4. g = h
      BY <1>1, <3>1, <3>3
    <3> QED
      BY <2>1, <3>4 DEF Probe, RecordPause, Ends, Goto, HandTypes
  <2>2. CASE Create(g) \/ ClaimPaused(g)
    BY <2>2 DEF Create, ClaimPaused, Running
  <2>3. CASE Blocked(g) \/ LoadRun(g) \/ ClaimFails(g) \/ Interrupts(g) \/ Settle(g)
    BY <2>3 DEF Blocked, LoadRun, ClaimFails, Interrupts, Settle, Running, rows
  <2> QED
    BY <1>3, <2>1, <2>2, <2>3 DEF HandlerStep
<1>4. ASSUME NEW w \in Workers, WorkerStep(w) PROVE step'[h] # "running"
  <2>1. CASE DrainReleases(w)
    <3>1. owner[r] = w
      BY <2>1 DEF DrainReleases, SetStatus, Running
    <3>2. h \in Busy(w)
      BY <1>2, <3>1 DEF Busy
    <3> QED
      BY <2>1, <3>2 DEF DrainReleases, HandsBack
  <2> QED
    BY <1>4, <2>1 DEF WorkerStep, Heartbeat, BeginDrain, DrainCancels, Crash,
                     DrainExits, Running, rows
<1>5. CASE CancelBrand \/ \E q \in Runs : Lapse(q) \/ Reap(q)
  BY <1>5 DEF CancelBrand, Lapse, Reap, SetStatus, Running, RowTypes
<1>6. CASE \E m \in Msgs : \/ Request(m) \/ AckWait(m)
                           \/ \E g \in Handlers : Deliver(g, m)
  BY <1>6 DEF Request, Trigger, Review, AckWait, Deliver, Running, rows
<1> QED
  BY <1>3, <1>4, <1>5, <1>6 DEF Next, vars, rows, Running

\* A live run is failed by nobody but the handler that executes it: no drain, no
\* probe and no late handler of another worker touches it before its lease lapses.
THEOREM LiveRuns == Spec => LiveRunIsNotFailed
<1>1. Init => Exclusion /\ HolderOwns
  BY DEF Init, Exclusion, CarriedRunsAreTaken, OneExecutor, HolderOwns, Carrying
<1>2. TypeOK /\ Exclusion /\ HolderOwns /\ [Next]_vars => HolderOwns'
  <2> SUFFICES ASSUME TypeOK, Exclusion, HolderOwns, [Next]_vars,
                      NEW h \in Handlers, step'[h] \in Carrying,
                      status'[run'[h]] = "running"
               PROVE  owner'[run'[h]] = h[1]
    BY DEF HolderOwns
  <2>1. CASE step[h] \in Carrying /\ run[h] \in Runs /\ run'[h] = run[h]
    <3>1. status[run[h]] \notin {"none", "paused_for_review"}
      BY <2>1 DEF Exclusion, CarriedRunsAreTaken
    <3>2. status[run[h]] = "running" /\ owner'[run[h]] = owner[run[h]]
      BY <2>1, <3>1, OwnerSteps
    <3> QED
      BY <2>1, <3>2 DEF HolderOwns
  <2>2. CASE run'[h] \in Runs /\ Lease(run'[h], h[1])
    BY <2>2 DEF Lease, TypeOK, RowTypes
  <2> QED
    BY <2>1, <2>2, CarrySteps
<1>3. TypeOK /\ Exclusion /\ [Next]_vars => Exclusion'
  BY ExclusionStep
<1>4. TypeOK /\ Exclusion /\ HolderOwns /\ [Next]_vars =>
        [\A r \in Runs, h \in Handlers :
           /\ Running(r) /\ status'[r] = "failed" /\ r \notin lapsed
           /\ run[h] = r /\ step[h] = "running"
           => step'[h] # "running"]_vars
  BY FailingSteps DEF Exclusion
<1> QED
  BY <1>1, <1>2, <1>3, <1>4, Typing, PTL DEF Spec, LiveRunIsNotFailed
-----------------------------------------------------------------------------
(* No message is dropped for the run its own abandoned attempt left behind. *)

\* No drain cancels a handler whose run the registry does not know yet. With it
\* the property is false: nobody releases that run before the message goes back.
AllRegistered == "unregistered" \notin Faults

Stopped  == {"cancelled", "handback"}
Fresh(r) == round[r] = 0

\* A message in hand is in one hand; a handler without work names no run.
Hands ==
  \A h \in Handlers :
    /\ step[h] # "idle" => mail[on[h]] = "held"
    /\ step[h] = "idle" => on[h] = None
    /\ step[h] \in {"idle", "started"} => run[h] = None
    /\ \A g \in Handlers : on[g] = on[h] /\ on[h] # None => g = h

\* The handlers of a worker stop together, and only in a drain.
Halts ==
  \A g, h \in Handlers :
    step[h] \in Stopped /\ g[1] = h[1]
    => h[1] \in draining /\ step[g] \in Stopped \cup {"idle"}

\* A run that never paused is named by the handler that created it; while it
\* runs, that handler works on it or was cancelled at it, and has its lease.
FirstHand ==
  \A h \in Handlers : run[h] \in Runs =>
    /\ status[run[h]] # "none"
    /\ step[h] \in {"claiming", "probing", "asking"} => ~Fresh(run[h])
    /\ Fresh(run[h]) =>
         /\ origin[run[h]] = on[h]
         /\ Running(run[h]) => /\ owner[run[h]] = h[1]
                               /\ step[h] \in {"running", "cancelled"}

\* A run pauses at an interrupt only.
PausedOnce == \A r \in Runs : status[r] = "paused_for_review" => ~Fresh(r)

\* A run that never paused and still runs is in hand, or its message waits out
\* its ack_wait.
Unfinished ==
  \A r \in Runs : Running(r) /\ Fresh(r) =>
    /\ origin[r] \in Msgs
    /\ \/ \E g \in Handlers : run[g] = r
       \/ mail[origin[r]] = "unacked"

OwnInv == Hands /\ Halts /\ FirstHand /\ PausedOnce /\ Unfinished

\* The invariant holds at the start.
LEMMA OwnInit == Init => OwnInv
  BY RunsAssumption
  DEF Init, OwnInv, Hands, Halts, FirstHand, PausedOnce, Unfinished, Stopped,
      Running

\* A step that at most ends running runs, or renews or loses leases of time,
\* keeps it.
LEMMA RowsOwn ==
  ASSUME TypeOK, OwnInv, UNCHANGED <<round, origin, mail, handlers>>,
         draining \subseteq draining',
         \A r \in Runs :
           \/ status'[r] = status[r] /\ (Running(r) => owner'[r] = owner[r])
           \/ status[r] = "running" /\ status'[r] \in Terminal
  PROVE  OwnInv'
<1> USE DEF handlers, Terminal, Running, Fresh
<1>1. Hands'
  BY DEF OwnInv, Hands
<1>2. Halts'
  BY DEF OwnInv, Halts
<1>3. FirstHand'
  BY DEF OwnInv, FirstHand
<1>4. PausedOnce'
  BY DEF OwnInv, PausedOnce
<1>5. Unfinished'
  BY DEF OwnInv, Unfinished
<1> QED
  BY <1>1, <1>2, <1>3, <1>4, <1>5 DEF OwnInv

\* So does a step that only moves a message nobody holds, if it is not that of a
\* run nobody has in hand.
LEMMA MailOwn ==
  ASSUME TypeOK, OwnInv, NEW m \in Msgs,
         UNCHANGED <<rows, draining, handlers>>,
         mail' = [mail EXCEPT ![m] = "pending"],
         \/ mail[m] = "unsent"
         \/ mail[m] = "unacked" /\ \A r \in Runs : Running(r) => Held(r)
  PROVE  OwnInv'
<1> USE DEF handlers, rows, Running, Fresh, TypeOK, MailTypes, HandTypes
<1>1. Hands'
  BY DEF OwnInv, Hands
<1>2. Halts' /\ FirstHand' /\ PausedOnce'
  BY DEF OwnInv, Halts, FirstHand, PausedOnce
<1>3. Unfinished'
  BY DEF OwnInv, Unfinished, Held
<1> QED
  BY <1>1, <1>2, <1>3 DEF OwnInv

\* A delivery gives an idle handler of a worker that does not drain a message
\* nobody holds.
LEMMA DeliverOwn ==
  ASSUME TypeOK, OwnInv, NEW h \in Handlers, NEW m \in Msgs, Deliver(h, m)
  PROVE  OwnInv'
<1> USE DEF rows, Running, Fresh, TypeOK, MailTypes, HandTypes, Deliver
<1>0. None \notin Msgs /\ None \notin Runs
  BY RunsAssumption
<1>1. Hands'
  BY <1>0 DEF OwnInv, Hands
<1>2. Halts'
  BY DEF OwnInv, Halts, Stopped
<1>3. FirstHand'
  BY <1>0 DEF OwnInv, FirstHand, Hands
<1>4. PausedOnce'
  BY DEF OwnInv, PausedOnce
<1>5. Unfinished'
  BY DEF OwnInv, Unfinished
<1> QED
  BY <1>1, <1>2, <1>3, <1>4, <1>5 DEF OwnInv

-----------------------------------------------------------------------------
(* The steps of a handler. *)

\* A handler that works goes on with its message.
LEMMA MovesOn ==
  ASSUME TypeOK, OwnInv, NEW h \in Handlers, NEW s \in Steps, NEW x,
         step[h] \notin Stopped \cup {"idle"},
         s \notin Stopped \cup {"idle", "started"}, Carry(h, s, x),
         UNCHANGED <<mail, draining>>
  PROVE  Hands' /\ Halts'
<1> USE DEF TypeOK, HandTypes, Carry
<1>1. Hands'
  BY DEF OwnInv, Hands
<1>2. Halts'
  BY DEF OwnInv, Halts, Stopped
<1> QED
  BY <1>1, <1>2

\* Going on with the run it has is carrying it.
LEMMA GotoCarries ==
  ASSUME TypeOK, NEW h \in Handlers, NEW s, Goto(h, s)
  PROVE  Carry(h, s, run[h])
  BY DEF TypeOK, HandTypes, Goto, Carry

\* A step of a handler that leaves the rows alone: it has no run, or one that
\* has paused.
LEMMA RowlessOwn ==
  ASSUME TypeOK, OwnInv, NEW h \in Handlers,
         Blocked(h) \/ LoadRun(h) \/ ClaimFails(h)
  PROVE  OwnInv'
<1> USE DEF TypeOK
<1>0. None \notin Runs /\ (run[h] \in Runs => ~Fresh(run[h]))
  BY RunsAssumption
  DEF OwnInv, Hands, FirstHand, Blocked, LoadRun, ClaimFails
<1>1. /\ UNCHANGED <<rows, messages, draining>>
      /\ step[h] \in {"started", "claiming"}
  BY DEF Blocked, LoadRun, ClaimFails
<1>2. PICK s \in {"acking", "naking", "claiming"}, x \in Runs \cup {None} :
        /\ Carry(h, s, x)
        /\ x \in Runs => status[x] = "paused_for_review"
  <2>1. CASE Blocked(h)
    BY <2>1, GotoCarries, <1>0 DEF Blocked, OwnInv, Hands
  <2>2. CASE LoadRun(h)
    <3>1. letter[on[h]].run \in Runs
      BY <2>2, OfItsLane DEF LoadRun, MailTypes
    <3> QED
      BY <2>2, <3>1, GotoCarries, <1>0 DEF LoadRun, OwnInv, Hands
  <2>3. CASE ClaimFails(h)
    BY <2>3, <1>0 DEF ClaimFails
  <2> QED
    BY <2>1, <2>2, <2>3
<1>3. Hands' /\ Halts'
  BY <1>1, <1>2, MovesOn DEF messages, Stopped, Steps, Carrying, Registered
<1>4. /\ \A g \in Handlers \ {h} : step'[g] = step[g] /\ run'[g] = run[g]
      /\ step'[h] = s /\ run'[h] = x /\ on' = on
  BY <1>2 DEF Carry, HandTypes
<1>5. x \in Runs => ~Fresh(x) /\ status[x] # "none"
  BY <1>2 DEF OwnInv, PausedOnce
<1>6. FirstHand'
  BY <1>1, <1>4, <1>5 DEF OwnInv, FirstHand, rows, Running, Fresh
<1>7. PausedOnce'
  BY <1>1 DEF OwnInv, PausedOnce, rows, Fresh
<1>8. Unfinished'
  BY <1>0, <1>1, <1>4 DEF OwnInv, Unfinished, rows, messages, Running, Fresh
<1> QED
  BY <1>3, <1>6, <1>7, <1>8 DEF OwnInv

\* A new run is in the hand of the handler that creates it.
LEMMA CreateOwn ==
  ASSUME TypeOK, OwnInv, AllRegistered, NEW h \in Handlers, Create(h)
  PROVE  OwnInv'
<1> USE DEF TypeOK
<1>1. PICK r \in Runs :
        /\ NextRun(r)
        /\ Lease(r, h[1])
        /\ origin' = [origin EXCEPT ![r] = on[h]]
        /\ Takes(h, "running", r)
  BY DEF Create
<1>2. Carry(h, "running", r)
  BY <1>1 DEF Takes, AllRegistered, Faulty
<1>3. /\ step[h] = "started" /\ on[h] \in Msgs /\ run[h] = None
      /\ UNCHANGED <<round, mail, draining>>
  BY DEF Create, HandTypes, OwnInv, Hands, messages
<1>4. Hands' /\ Halts'
  BY <1>2, <1>3, MovesOn DEF Stopped, Steps, Carrying, Registered
<1>5. /\ \A g \in Handlers \ {h} : step'[g] = step[g] /\ run'[g] = run[g]
      /\ step'[h] = "running" /\ run'[h] = r /\ on' = on
  BY <1>2 DEF Carry, HandTypes
<1>6. \A g \in Handlers : run[g] # r
  BY <1>1 DEF NextRun, OwnInv, FirstHand
<1>7. /\ status'[r] = "running" /\ owner'[r] = h[1] /\ origin'[r] = on[h]
      /\ \A q \in Runs \ {r} : /\ status'[q] = status[q] /\ owner'[q] = owner[q]
                               /\ origin'[q] = origin[q]
  BY <1>1 DEF Lease, RowTypes, OtherTypes
<1>8. FirstHand'
  BY <1>3, <1>5, <1>6, <1>7 DEF OwnInv, FirstHand, Running, Fresh
<1>9. PausedOnce'
  BY <1>3, <1>7 DEF OwnInv, PausedOnce, Fresh
<1>10. Unfinished'
  <2>1. ASSUME NEW q \in Runs \ {r}, Running(q)', Fresh(q)'
        PROVE  /\ origin'[q] \in Msgs
               /\ (\E g \in Handlers : run'[g] = q) \/ mail'[origin'[q]] = "unacked"
    <3>1. ~Running(q)
      BY DEF Create
    <3> QED
      BY <2>1, <3>1, <1>7 DEF Running
  <2> QED
    BY <2>1, <1>3, <1>5, <1>7 DEF Unfinished
<1> QED
  BY <1>4, <1>8, <1>9, <1>10 DEF OwnInv

\* The handler of a run that has paused, or pauses now, goes on with it.
LEMMA ReviewedOwn ==
  ASSUME TypeOK, OwnInv, AllRegistered, NEW h \in Handlers,
         ClaimPaused(h) \/ Probe(h) \/ Interrupts(h) \/ RecordPause(h)
  PROVE  OwnInv'
<1> USE DEF TypeOK
<1> DEFINE r == run[h]
<1>1. /\ r \in Runs /\ step[h] \in {"claiming", "probing", "running", "asking"}
      /\ UNCHANGED <<origin, mail, draining>>
  BY DEF ClaimPaused, Probe, Interrupts, RecordPause, HandTypes, Carrying, messages
<1>2. PICK s \in {"probing", "running", "asking", "acking"} : Carry(h, s, r)
  BY GotoCarries
  DEF ClaimPaused, Probe, Interrupts, RecordPause, Takes, AllRegistered, Faulty
<1>3. Hands' /\ Halts'
  BY <1>1, <1>2, MovesOn DEF Stopped, Steps, Carrying, Registered
<1>4. /\ \A g \in Handlers \ {h} : step'[g] = step[g]
      /\ step'[h] = s /\ run' = run /\ on' = on
  BY <1>2 DEF Carry, HandTypes
<1>5. /\ round'[r] # 0
      /\ \A q \in Runs \ {r} : round'[q] = round[q]
  <2>1. CASE Interrupts(h)
    BY <2>1, <1>1 DEF Interrupts, OtherTypes
  <2>2. CASE ClaimPaused(h) \/ Probe(h) \/ RecordPause(h)
    <3>1. round' = round /\ ~Fresh(r)
      BY <2>2, <1>1 DEF ClaimPaused, Probe, RecordPause, OwnInv, FirstHand
    <3> QED
      BY <3>1 DEF Fresh
  <2> QED
    BY <2>1, <2>2
<1>6. /\ status'[r] # "none"
      /\ \A q \in Runs \ {r} : /\ status'[q] = status[q]
                               /\ Running(q) => owner'[q] = owner[q]
  <2>0. status[r] # "none"
    BY <1>1 DEF OwnInv, FirstHand
  <2>1. CASE ClaimPaused(h)
    BY <2>1, <1>1 DEF ClaimPaused, Lease, RowTypes
  <2>2. ASSUME NEW st \in {"failed", "paused_for_review"}, Complete(r, st)
        PROVE  /\ status'[r] # "none"
               /\ \A q \in Runs \ {r} : /\ status'[q] = status[q]
                                        /\ Running(q) => owner'[q] = owner[q]
    BY <2>0, <2>2, <1>1 DEF Complete, SetStatus, RowTypes, Running
  <2>3. CASE UNCHANGED <<status, owner>>
    BY <2>0, <2>3
  <2> QED
    BY <2>1, <2>2, <2>3 DEF Probe, Interrupts, RecordPause
<1>7. FirstHand'
  BY <1>1, <1>4, <1>5, <1>6 DEF OwnInv, FirstHand, Running, Fresh
<1>8. PausedOnce'
  BY <1>1, <1>5, <1>6 DEF OwnInv, PausedOnce, Fresh
<1>9. Unfinished'
  BY <1>1, <1>4, <1>5, <1>6 DEF OwnInv, Unfinished, Running, Fresh
<1> QED
  BY <1>3, <1>7, <1>8, <1>9 DEF OwnInv

\* The handler that ends its run leaves it ended.
LEMMA EndsOwn ==
  ASSUME TypeOK, OwnInv, NEW h \in Handlers, Ends(h)
  PROVE  OwnInv'
<1> USE DEF TypeOK
<1> DEFINE r == run[h]
<1>1. /\ r \in Runs /\ step[h] = "running"
      /\ UNCHANGED <<origin, round, mail, draining>>
  BY DEF Ends, HandTypes, Carrying, messages
<1>2. PICK s \in {"acking", "naking"}, st \in {"completed", "failed"} :
        Carry(h, s, r) /\ Complete(r, st)
  BY GotoCarries DEF Ends
<1>3. Hands' /\ Halts'
  BY <1>1, <1>2, MovesOn DEF Stopped, Steps, Carrying, Registered
<1>4. /\ \A g \in Handlers \ {h} : step'[g] = step[g]
      /\ step'[h] = s /\ run' = run /\ on' = on
  BY <1>2 DEF Carry, HandTypes
<1>5. /\ status'[r] # "running"
      /\ status'[r] \in {status[r], "completed", "failed"}
      /\ \A q \in Runs \ {r} : /\ status'[q] = status[q]
                               /\ Running(q) => owner'[q] = owner[q]
  BY <1>1, <1>2 DEF Complete, SetStatus, RowTypes, Running
<1>6. FirstHand'
  BY <1>1, <1>4, <1>5 DEF OwnInv, FirstHand, Running, Fresh
<1>7. PausedOnce'
  BY <1>1, <1>5 DEF OwnInv, PausedOnce, Fresh
<1>8. Unfinished'
  BY <1>1, <1>4, <1>5 DEF OwnInv, Unfinished, Running, Fresh
<1> QED
  BY <1>3, <1>6, <1>7, <1>8 DEF OwnInv

\* The handler that settles its message names no run that still runs and never
\* paused.
LEMMA SettleOwn ==
  ASSUME TypeOK, OwnInv, NEW h \in Handlers, Settle(h)
  PROVE  OwnInv'
<1> USE DEF TypeOK
<1>0. None \notin Msgs /\ None \notin Runs
  BY RunsAssumption
<1>1. /\ step[h] \in {"acking", "naking"} /\ on[h] \in Msgs /\ mail[on[h]] = "held"
      /\ UNCHANGED <<rows, draining>>
  BY DEF Settle, HandTypes, OwnInv, Hands
<1>2. /\ \A g \in Handlers \ {h} : /\ step'[g] = step[g] /\ run'[g] = run[g]
                                   /\ on'[g] = on[g]
      /\ step'[h] = "idle" /\ run'[h] = None /\ on'[h] = None
  BY DEF Settle, Idle, HandTypes
<1>3. \A m \in Msgs \ {on[h]} : mail'[m] = mail[m]
  BY <1>1 DEF Settle, MailTypes
<1>4. \A g \in Handlers \ {h} : on[g] # on[h]
  BY <1>0, <1>1 DEF OwnInv, Hands
<1>5. Hands'
  BY <1>0, <1>2, <1>3, <1>4 DEF OwnInv, Hands, HandTypes
<1>6. Halts'
  BY <1>1, <1>2 DEF OwnInv, Halts, Stopped
<1>7. FirstHand'
  BY <1>0, <1>1, <1>2 DEF OwnInv, FirstHand, rows, Running, Fresh
<1>8. PausedOnce'
  BY <1>1 DEF OwnInv, PausedOnce, rows, Fresh
<1>9. \A r \in Runs : Running(r) /\ Fresh(r) => run[h] # r
  BY <1>1 DEF OwnInv, FirstHand
<1>10. Unfinished'
  BY <1>1, <1>2, <1>3, <1>9 DEF OwnInv, Unfinished, rows, Running, Fresh
<1> QED
  BY <1>5, <1>6, <1>7, <1>8, <1>10 DEF OwnInv

\* Every step of a handler keeps the invariant.
LEMMA HandlerOwn ==
  ASSUME TypeOK, OwnInv, AllRegistered, NEW h \in Handlers, HandlerStep(h)
  PROVE  OwnInv'
  BY RowlessOwn, CreateOwn, ReviewedOwn, EndsOwn, SettleOwn DEF HandlerStep
-----------------------------------------------------------------------------
(* The steps of a worker. *)

\* Handlers of one worker that return together keep what the others have.
LEMMA LeaveOwn ==
  ASSUME TypeOK, OwnInv, NEW w \in Workers, NEW s \in {"pending", "unacked"},
         Idle(Busy(w)), draining' = draining \ {w}, UNCHANGED <<rows, letter>>,
         mail' = [m \in Msgs |-> IF \E h \in Busy(w) : on[h] = m
                                 THEN s ELSE mail[m]],
         s = "pending" => \A h \in Busy(w) : step[h] = "handback"
  PROVE  OwnInv'
<1> USE DEF TypeOK
<1>0. None \notin Msgs /\ None \notin Runs
  BY RunsAssumption
<1>1. \A h \in Handlers :
        IF h \in Busy(w)
        THEN step'[h] = "idle" /\ on'[h] = None /\ run'[h] = None
        ELSE step'[h] = step[h] /\ on'[h] = on[h] /\ run'[h] = run[h]
  BY DEF Idle
<1>2. \A h \in Handlers : h[1] = w => step'[h] = "idle"
  BY <1>1 DEF Busy
<1>3. \A g, h \in Handlers : h \in Busy(w) /\ g \notin Busy(w) => on[g] # on[h]
  BY <1>0 DEF OwnInv, Hands, Busy, HandTypes
<1>4. Hands'
  <2>1. ASSUME NEW h \in Handlers, step'[h] # "idle" PROVE mail'[on'[h]] = "held"
    <3>1. h \notin Busy(w) /\ step[h] # "idle" /\ on'[h] = on[h] /\ on[h] \in Msgs
      BY <1>1, <2>1 DEF HandTypes
    <3>2. ~\E g \in Busy(w) : on[g] = on[h]
      BY <1>3, <3>1 DEF Busy
    <3> QED
      BY <3>1, <3>2 DEF OwnInv, Hands
  <2>2. \A h \in Handlers :
          /\ step'[h] = "idle" => on'[h] = None
          /\ step'[h] \in {"idle", "started"} => run'[h] = None
          /\ \A g \in Handlers : on'[g] = on'[h] /\ on'[h] # None => g = h
    BY <1>1 DEF OwnInv, Hands
  <2> QED
    BY <2>1, <2>2 DEF Hands
<1>5. Halts'
  <2> SUFFICES ASSUME NEW g \in Handlers, NEW h \in Handlers,
                      step'[h] \in Stopped, g[1] = h[1]
               PROVE  h[1] \in draining' /\ step'[g] \in Stopped \cup {"idle"}
    BY DEF Halts
  <2>1. h[1] # w /\ step'[h] = step[h] /\ step'[g] = step[g]
    BY <1>1, <1>2 DEF Stopped, Busy
  <2> QED
    BY <2>1 DEF OwnInv, Halts
<1>6. FirstHand'
  BY <1>0, <1>1 DEF OwnInv, FirstHand, rows, Running, Fresh
<1>7. PausedOnce'
  BY DEF OwnInv, PausedOnce, rows, Fresh
<1>8. Unfinished'
  <2> SUFFICES ASSUME NEW r \in Runs, Running(r), Fresh(r)
               PROVE  /\ origin[r] \in Msgs
                      /\ \/ \E g \in Handlers : run'[g] = r
                         \/ mail'[origin[r]] = "unacked"
    BY DEF Unfinished, rows, Running, Fresh
  <2>1. origin[r] \in Msgs
    BY DEF OwnInv, Unfinished
  <2>2. CASE mail[origin[r]] = "unacked"
    BY <2>1, <2>2 DEF OwnInv, Hands, Busy
  <2>3. ASSUME NEW g \in Handlers, run[g] = r, g \notin Busy(w)
        PROVE  run'[g] = r
    BY <1>1, <2>3
  <2>4. ASSUME NEW g \in Busy(w), run[g] = r PROVE mail'[origin[r]] = "unacked"
    <3>1. g \in Handlers /\ origin[r] = on[g] /\ step[g] # "handback"
      BY <2>4 DEF OwnInv, FirstHand, Busy
    <3> QED
      BY <2>1, <2>4, <3>1
  <2> QED
    BY <2>1, <2>2, <2>3, <2>4 DEF OwnInv, Unfinished
<1> QED
  BY <1>4, <1>5, <1>6, <1>7, <1>8 DEF OwnInv

\* A drain cancels the handlers of its worker together; a run of theirs that the
\* registry knows stays named.
LEMMA CancelsOwn ==
  ASSUME TypeOK, OwnInv, NEW w \in Workers, DrainCancels(w)
  PROVE  OwnInv'
<1> USE DEF TypeOK
<1> DEFINE H == {h \in Busy(w) : step[h] \notin {"cancelled", "handback"}}
<1>0. None \notin Runs
  BY RunsAssumption
<1>1. /\ w \in draining /\ UNCHANGED <<rows, mail, draining, on>>
      /\ \A h \in Handlers :
           IF h \in H
           THEN step'[h] = "cancelled"
                /\ run'[h] = IF step[h] \in Registered THEN run[h] ELSE None
           ELSE step'[h] = step[h] /\ run'[h] = run[h]
  BY DEF DrainCancels, messages
<1>2. \A h \in Handlers : /\ h \in H <=> h[1] = w /\ step[h] \notin Stopped \cup {"idle"}
                          /\ step'[h] = "idle" <=> step[h] = "idle"
  BY <1>1 DEF Busy, Stopped
<1>3. Hands'
  <2>1. \A h \in Handlers : step'[h] \in {"idle", "started"} => run'[h] = None
    BY <1>1 DEF OwnInv, Hands
  <2> QED
    BY <1>1, <1>2, <2>1 DEF OwnInv, Hands
<1>4. Halts'
  BY <1>1, <1>2 DEF OwnInv, Halts, Stopped
<1>5. FirstHand'
  <2> SUFFICES ASSUME NEW h \in Handlers, run'[h] \in Runs
               PROVE  /\ status[run'[h]] # "none"
                      /\ step'[h] \in {"claiming", "probing", "asking"} => ~Fresh(run'[h])
                      /\ Fresh(run'[h]) =>
                           /\ origin[run'[h]] = on[h]
                           /\ Running(run'[h]) => /\ owner[run'[h]] = h[1]
                                                  /\ step'[h] \in {"running", "cancelled"}
    BY <1>1 DEF FirstHand, rows, Running, Fresh
  <2>1. run'[h] = run[h] /\ step'[h] \in {step[h], "cancelled"}
    BY <1>0, <1>1
  <2> QED
    BY <2>1 DEF OwnInv, FirstHand
<1>6. PausedOnce'
  BY <1>1 DEF OwnInv, PausedOnce, rows, Fresh
<1>7. Unfinished'
  <2>1. ASSUME NEW r \in Runs, Running(r), Fresh(r), NEW g \in Handlers, run[g] = r
        PROVE  run'[g] = r
    <3>1. step[g] \in {"running", "cancelled"}
      BY <2>1 DEF OwnInv, FirstHand
    <3> QED
      BY <1>1, <2>1, <3>1 DEF Registered, Carrying
  <2> QED
    BY <1>1, <2>1 DEF OwnInv, Unfinished, rows, Running, Fresh
<1> QED
  BY <1>3, <1>4, <1>5, <1>6, <1>7 DEF OwnInv

\* Before a drain hands the messages back it ends the runs that they began.
LEMMA ReleasesOwn ==
  ASSUME TypeOK, OwnInv, NEW w \in Workers, DrainReleases(w)
  PROVE  OwnInv'
<1> USE DEF TypeOK
<1>1. /\ UNCHANGED <<origin, round, mail, draining, on, run>>
      /\ \A h \in Handlers :
           step'[h] = IF h \in Busy(w) THEN "handback" ELSE step[h]
  BY DEF DrainReleases, HandsBack, messages
<1>2. \A r \in Runs :
        \/ status'[r] = status[r] /\ (Running(r) => owner'[r] = owner[r])
        \/ status[r] = "running" /\ status'[r] = "failed"
  BY DEF DrainReleases, SetStatus, RowTypes, Running
<1>3. \A h \in Busy(w) : step[h] \in Stopped
  <2>1. PICK g \in Busy(w) : step[g] = "cancelled"
    BY DEF DrainReleases
  <2> QED
    BY <2>1 DEF OwnInv, Halts, Stopped, Busy
<1>4. Hands'
  BY <1>1 DEF OwnInv, Hands, Busy
<1>5. Halts'
  BY <1>1, <1>3 DEF OwnInv, Halts, Stopped, Busy
<1>6. FirstHand'
  <2>1. ASSUME NEW h \in Busy(w), run[h] \in Runs, Fresh(run[h]), Running(run[h])
        PROVE  status'[run[h]] = "failed"
    <3>1. step[h] = "cancelled" /\ owner[run[h]] = w
      BY <1>3, <2>1 DEF OwnInv, FirstHand, Busy, Stopped
    <3>2. run[h] \in Cancelled(w)
      BY <3>1 DEF Cancelled
    <3> QED
      BY <2>1, <3>1, <3>2 DEF DrainReleases, SetStatus
  <2>2. ASSUME NEW h \in Handlers, run[h] \in Runs
        PROVE  /\ status'[run[h]] # "none"
               /\ step'[h] \in {"claiming", "probing", "asking"} => ~Fresh(run[h])
               /\ Fresh(run[h]) =>
                    /\ origin[run[h]] = on[h]
                    /\ status'[run[h]] = "running" =>
                         /\ owner'[run[h]] = h[1]
                         /\ step'[h] \in {"running", "cancelled"}
    BY <1>1, <1>2, <2>1, <2>2 DEF OwnInv, FirstHand, Running
  <2> QED
    BY <1>1, <2>2 DEF FirstHand, Running, Fresh
<1>7. PausedOnce'
  BY <1>1, <1>2 DEF OwnInv, PausedOnce, Fresh
<1>8. Unfinished'
  BY <1>1, <1>2 DEF OwnInv, Unfinished, Running, Fresh
<1> QED
  BY <1>4, <1>5, <1>6, <1>7, <1>8 DEF OwnInv

\* Every step keeps the invariant.
LEMMA OwnStep ==
  ASSUME TypeOK, OwnInv, AllRegistered, [Next]_vars
  PROVE  OwnInv'
<1> USE DEF TypeOK
<1>1. CASE UNCHANGED vars
  BY <1>1, RowsOwn DEF vars, rows, messages
<1>2. ASSUME NEW m \in Msgs, Request(m) \/ AckWait(m) PROVE OwnInv'
  <2>1. /\ UNCHANGED <<rows, draining, handlers>>
        /\ mail' = [mail EXCEPT ![m] = "pending"]
        /\ \/ mail[m] = "unsent"
           \/ mail[m] = "unacked" /\ \A r \in Runs : Running(r) => Held(r)
    BY <1>2 DEF Request, Trigger, Review, Post, NextMsg, AckWait
  <2> QED
    BY <2>1, MailOwn
<1>3. CASE CancelBrand \/ \E r \in Runs : Lapse(r) \/ Reap(r)
  <2>1. UNCHANGED <<round, origin, mail, handlers, draining>>
    BY <1>3 DEF CancelBrand, Lapse, Reap, messages
  <2>2. \A r \in Runs :
          \/ status'[r] = status[r] /\ (Running(r) => owner'[r] = owner[r])
          \/ status[r] = "running" /\ status'[r] \in Terminal
    BY <1>3 DEF CancelBrand, Lapse, Reap, SetStatus, Running, Terminal, RowTypes
  <2> QED
    BY <2>1, <2>2, RowsOwn
<1>4. ASSUME NEW w \in Workers, WorkerStep(w) PROVE OwnInv'
  <2>1. CASE Heartbeat(w) \/ BeginDrain(w)
    BY <2>1, RowsOwn DEF Heartbeat, BeginDrain, rows, messages
  <2>2. CASE Crash(w)
    BY <2>2, LeaveOwn DEF Crash
  <2>3. CASE DrainExits(w)
    BY <2>3, LeaveOwn DEF DrainExits
  <2> QED
    BY <1>4, <2>1, <2>2, <2>3, CancelsOwn, ReleasesOwn DEF WorkerStep
<1> QED
  BY <1>1, <1>2, <1>3, <1>4, HandlerOwn, DeliverOwn DEF Next

\* No message is ever dropped because of the run its own abandoned attempt left
\* behind: the drain released that run, or the reaper took it, before the message
\* came again.
THEOREM NoRunBlocksItsMessage ==
  ASSUME AllRegistered
  PROVE  Spec => OwnRunNeverBlocks
<1>1. TypeOK /\ OwnInv /\ [Next]_vars => OwnInv'
  BY OwnStep, AllRegistered
<1>2. TypeOK /\ OwnInv /\ [Next]_vars =>
        [\A h \in Handlers, r \in Runs :
           /\ h[2] = "trigger" /\ step[h] = "started" /\ step'[h] = "acking"
           /\ Running(r) /\ origin[r] = on[h] /\ round[r] = 0
           => \E g \in Handlers : run[g] = r]_vars
  <2> SUFFICES ASSUME TypeOK, OwnInv, NEW h \in Handlers, NEW r \in Runs,
                      step[h] = "started", Running(r), origin[r] = on[h],
                      round[r] = 0
               PROVE  \E g \in Handlers : run[g] = r
    OBVIOUS
  <2>1. mail[origin[r]] = "held"
    BY DEF OwnInv, Hands
  <2> QED
    BY <2>1 DEF OwnInv, Unfinished, Fresh
<1> QED
  BY <1>1, <1>2, OwnInit, Typing, PTL DEF Spec, OwnRunNeverBlocks

=============================================================================

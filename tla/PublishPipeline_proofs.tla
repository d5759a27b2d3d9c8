----------------------- MODULE PublishPipeline_proofs -----------------------
(***************************************************************************)
(* Proofs about PublishPipeline for any number of items, processes, tasks  *)
(* and scopes: the type invariant, and that the pipeline implements the    *)
(* ledger, so that an item is posted at most as often as it was scheduled; *)
(* then what is shown as published, what leaves after the global switch is *)
(* engaged, and that what is published stays so.                           *)
(***************************************************************************)
EXTENDS PublishPipeline, FiniteSetTheorems, TLAPS

\* The program starts in a typed state.
LEMMA TypeInit == Init => TypeOK
  BY PipelineAssumption DEF Init, TypeOK, Statuses, Slots, Flags, TickSteps,
     TaskSteps, Holding

\* A step of the scheduler tick keeps the state typed.
LEMMA TypeTick ==
  ASSUME TypeOK, NEW p \in Procs, TickStep(p)
  PROVE  TypeOK'
<1> USE PipelineAssumption DEF TypeOK, Statuses, TickSteps, TaskSteps, Holding,
    item_row, tick, task, history
<1>1. CASE TickStart(p) BY <1>1 DEF TickStart
<1>2. CASE SweepWrite(p) BY <1>2 DEF SweepWrite, Write
<1>3. CASE DueQuery(p) BY <1>3 DEF DueQuery
<1>4. CASE ExpireWrite(p) BY <1>4 DEF ExpireWrite, Write
<1>5. CASE \E i \in Items : LoopStep(p, i) BY <1>5 DEF LoopStep
<1>6. CASE TickEnd(p) BY <1>6 DEF TickEnd
<1>7. CASE Claim(p)
  <2>1. status' \in [Items -> Statuses] /\ aged' \subseteq Items
    BY <1>7 DEF Claim, Write
  <2>2. /\ pc' \in [Tasks -> TaskSteps]
        /\ titem' \in [Tasks -> Items \cup {None}]
        /\ tproc' \in [Tasks -> Procs \cup {None}]
        /\ \A t \in Tasks :
             pc'[t] # "none" => titem'[t] \in Items /\ tproc'[t] \in Procs
    <3>1. CASE UNCHANGED task BY <3>1
    <3>2. CASE \E t \in Tasks :
                 /\ pc' = [pc EXCEPT ![t] = "waiting"]
                 /\ titem' = [titem EXCEPT ![t] = cand[p]]
                 /\ tproc' = [tproc EXCEPT ![t] = p]
      <4>1. cand[p] \in Items BY <1>7 DEF Claim
      <4>2. PICK t \in Tasks :
                 /\ pc' = [pc EXCEPT ![t] = "waiting"]
                 /\ titem' = [titem EXCEPT ![t] = cand[p]]
                 /\ tproc' = [tproc EXCEPT ![t] = p]
        BY <3>2
      <4>3. pc' \in [Tasks -> TaskSteps] BY <4>2
      <4>4. QED BY <4>1, <4>2, <4>3
    <3>3. QED BY <1>7, <3>1, <3>2 DEF Claim
  <2>3. /\ tickPc' \in [Procs -> TickSteps]
        /\ cand' \in [Procs -> Items \cup {None}]
        /\ \A q \in Procs : tickPc'[q] = "claim" => cand'[q] \in Items
    BY <1>7 DEF Claim
  <2>4. QED BY <1>7, <2>1, <2>2, <2>3 DEF Claim
<1>8. QED
  BY <1>1, <1>2, <1>3, <1>4, <1>5, <1>6, <1>7 DEF TickStep

\* A step of a background task keeps the state typed.
LEMMA TypeTask ==
  ASSUME TypeOK, NEW t \in Tasks, TaskStep(t)
  PROVE  TypeOK'
<1> USE PipelineAssumption DEF TypeOK, Statuses, TaskSteps, Holding, To, Finish,
    item_row, tick, task, history
<1>1. CASE Admit(t) BY <1>1 DEF Admit
<1>2. CASE CheckKillSwitch(t) BY <1>2 DEF CheckKillSwitch
<1>3. CASE ReleaseClaim(t) BY <1>3 DEF ReleaseClaim, Write
<1>4. CASE PlatformPosts(t) BY <1>4 DEF PlatformPosts
<1>5. CASE PlatformRefuses(t) BY <1>5 DEF PlatformRefuses
<1>6. CASE RecordPublished(t) BY <1>6 DEF RecordPublished, Write
<1>7. CASE RecordFailed(t) BY <1>7 DEF RecordFailed, Write
<1>8. CASE LogOutcome(t) BY <1>8 DEF LogOutcome
<1>9. CASE Raise(t) BY <1>9 DEF Raise
<1>10. CASE CrashRead(t) BY <1>10 DEF CrashRead
<1>11. CASE CrashWrite(t) BY <1>11 DEF CrashWrite, Write
<1>12. QED
  BY <1>1, <1>2, <1>3, <1>4, <1>5, <1>6, <1>7, <1>8, <1>9, <1>10, <1>11
     DEF TaskStep

\* An operator's request keeps the state typed.
LEMMA TypeOperator ==
  ASSUME TypeOK, OperatorStep
  PROVE  TypeOK'
<1> USE PipelineAssumption DEF TypeOK, Statuses, Slots, Flags, item_row, tick, task,
    history
<1>1. CASE \E i \in Items : Approve(i) BY <1>1 DEF Approve, Arm, Write
<1>2. CASE \E i \in Items : Delete(i) BY <1>2 DEF Delete, Write
<1>3. CASE \E i \in Items : CreateContent(i) BY <1>3 DEF CreateContent
<1>4. CASE \E i \in Items, st \in PatchTo : \E sl \in {slot[i], "future"} :
             Patch(i, st, sl)
  BY <1>4 DEF Patch, Arm, Write
<1>5. CASE \E f \in Flags : SetKillSwitch(f) BY <1>5 DEF SetKillSwitch
<1>6. QED BY <1>1, <1>2, <1>3, <1>4, <1>5 DEF OperatorStep

\* Time and restarts keep the state typed.
LEMMA TypeEnvironment ==
  ASSUME TypeOK,
         \/ \E p \in Procs : Restart(p)
         \/ \E i \in Items : ClockMoves(i) \/ Ages(i)
  PROVE  TypeOK'
<1> USE PipelineAssumption DEF TypeOK, TickSteps, TaskSteps, Slots, item_row, tick,
    task, history
<1>1. CASE \E p \in Procs : Restart(p)
  <2>1. PICK p \in Procs : Restart(p) BY <1>1
  <2>2. /\ tickPc' \in [Procs -> TickSteps]
        /\ cand' \in [Procs -> Items \cup {None}]
        /\ \A q \in Procs : tickPc'[q] = "claim" => cand'[q] \in Items
    BY <2>1 DEF Restart
  <2>3. /\ pc' \in [Tasks -> TaskSteps]
        /\ titem' \in [Tasks -> Items \cup {None}]
        /\ tproc' \in [Tasks -> Procs \cup {None}]
        /\ \A t \in Tasks :
             pc'[t] # "none" => titem'[t] \in Items /\ tproc'[t] \in Procs
    <3>1. pc' \in [Tasks -> TaskSteps] BY <2>1 DEF Restart
    <3>2. titem' \in [Tasks -> Items \cup {None}] BY <2>1 DEF Restart
    <3>3. tproc' \in [Tasks -> Procs \cup {None}] BY <2>1 DEF Restart
    <3>4. ASSUME NEW t \in Tasks, pc'[t] # "none"
          PROVE  titem'[t] \in Items /\ tproc'[t] \in Procs
      BY <2>1, <3>4 DEF Restart
    <3>5. QED BY <3>1, <3>2, <3>3, <3>4
  <2>4. restarts' \in Nat BY <2>1 DEF Restart
  <2>5. batch' \in [Procs -> SUBSET Items] /\ fresh' \in [Procs -> SUBSET Items]
    BY <2>1 DEF Restart
  <2>6. UNCHANGED <<item_row, engaged, history>> BY <2>1 DEF Restart
  <2>7. QED BY <2>2, <2>3, <2>4, <2>5, <2>6
<1>2. CASE \E i \in Items : ClockMoves(i) BY <1>2 DEF ClockMoves
<1>3. CASE \E i \in Items : Ages(i) BY <1>3 DEF Ages
<1>4. QED BY <1>1, <1>2, <1>3

LEMMA TypeStep == TypeOK /\ [Next]_vars => TypeOK'
<1> SUFFICES ASSUME TypeOK, [Next]_vars PROVE TypeOK'
  OBVIOUS
<1>1. CASE Next
  BY <1>1, TypeTick, TypeTask, TypeOperator, TypeEnvironment DEF Next
<1>2. CASE UNCHANGED vars
  BY <1>2 DEF TypeOK, vars, item_row, tick, task, history
<1>3. QED BY <1>1, <1>2

\* Every reachable state is typed; a claim in progress has its item, and a live
\* task has its item and its process.
THEOREM Typing == Spec => []TypeOK
  BY TypeInit, TypeStep, PTL DEF Spec

-----------------------------------------------------------------------------
(* The pipeline implements the ledger.                                     *)

\* The pending tasks of an item can be counted.
LEMMA PendingCounted ==
  ASSUME NEW i \in Items
  PROVE  /\ IsFiniteSet(PendingTasks(i))
         /\ Cardinality(PendingTasks(i)) \in Nat
  <1>1. IsFiniteSet(PendingTasks(i))
    BY PipelineAssumption, FS_Subset DEF PendingTasks
  <1>2. QED BY <1>1, FS_CardinalityType

LEMMA CreditType == Credit \in [Items -> Nat]
  BY PendingCounted DEF Credit, Queued

LEMMA CreditTypeNext == Credit' \in [Items -> Nat]
<1>1. ASSUME NEW i \in Items
      PROVE  Cardinality(PendingTasks(i)') \in Nat
  <2>1. PendingTasks(i)' \subseteq Tasks BY DEF PendingTasks
  <2>2. QED BY <2>1, PipelineAssumption, FS_Subset, FS_CardinalityType
<1>2. QED BY <1>1 DEF Credit, Queued

\* A step that queues no item and starts no task can only lose credits.
LEMMA OnlyForfeits ==
  ASSUME \A i \in Items : PendingTasks(i)' \subseteq PendingTasks(i),
         \A i \in Items : status'[i] = "scheduled" => status[i] = "scheduled",
         UNCHANGED <<arms, posts>>
  PROVE  Ledger!Forfeit
<1>1. Credit' = [i \in Items |-> Queued(i)' + Cardinality(PendingTasks(i)')]
  BY DEF Credit
<1>2. ASSUME NEW i \in Items
      PROVE  Credit'[i] \in Nat /\ Credit'[i] <= Credit[i]
  <2>1. /\ Cardinality(PendingTasks(i)') \in Nat
        /\ Cardinality(PendingTasks(i)') <= Cardinality(PendingTasks(i))
    BY PendingCounted, FS_Subset, FS_CardinalityType
  <2>2. Queued(i)' \in Nat /\ Queued(i) \in Nat /\ Queued(i)' <= Queued(i)
    BY DEF Queued
  <2>3. Cardinality(PendingTasks(i)) \in Nat BY PendingCounted
  <2>4. QED BY <1>1, <2>1, <2>2, <2>3 DEF Credit
<1>3. QED BY <1>1, <1>2 DEF Ledger!Forfeit

\* The same, for a step of one task that ends or leaves the pending states.
LEMMA TaskForfeits ==
  ASSUME TypeOK, NEW t \in Tasks,
         \/ Finish(t)
         \/ \E s \in TaskSteps \ Pending : To(t, s),
         \A i \in Items : status'[i] = "scheduled" => status[i] = "scheduled",
         UNCHANGED <<arms, posts>>
  PROVE  Ledger!Forfeit
<1>1. ASSUME NEW i \in Items
      PROVE  PendingTasks(i)' \subseteq PendingTasks(i)
  BY DEF TypeOK, PendingTasks, Finish, To, Pending, TaskSteps, Holding
<1>2. QED BY <1>1, OnlyForfeits

\* Most ticks and all claims keep every credit: a claim moves it to a task.
LEMMA TickSimulates ==
  ASSUME TypeOK, NEW p \in Procs, TickStep(p)
  PROVE  [Ledger!Next]_(Ledger!vars)
<1>1. ASSUME UNCHANGED <<status, task, history>>
      PROVE  Ledger!Forfeit
  BY <1>1, OnlyForfeits DEF PendingTasks, task, history
<1>2. ASSUME NEW S \in SUBSET Items, Write(S, "failed"),
             UNCHANGED <<task, history>>
      PROVE  Ledger!Forfeit
  <2>1. \A i \in Items : status'[i] = "scheduled" => status[i] = "scheduled"
    BY <1>2 DEF Write
  <2>2. QED BY <1>2, <2>1, OnlyForfeits DEF PendingTasks, task, history
<1>3. CASE Claim(p) /\ status[cand[p]] = "scheduled"
  <2>1. PICK c \in Items : c = cand[p] BY <1>3 DEF Claim, TypeOK
  <2>2. PICK t \in Tasks :
          /\ pc[t] = "none"
          /\ pc' = [pc EXCEPT ![t] = "waiting"]
          /\ titem' = [titem EXCEPT ![t] = c]
    BY <1>3, <2>1 DEF Claim
  <2>3. Queued(c) = 1 /\ Queued(c)' = 0
    BY <1>3, <2>1 DEF Queued, Claim, Write, TypeOK
  <2>4. Cardinality(PendingTasks(c)') = Cardinality(PendingTasks(c)) + 1
    <3>1. PendingTasks(c)' = PendingTasks(c) \cup {t}
      BY <2>1, <2>2 DEF PendingTasks, TypeOK, Pending
    <3>2. t \notin PendingTasks(c) BY <2>2 DEF PendingTasks, Pending
    <3>3. QED BY <2>1, <3>1, <3>2, PendingCounted, FS_AddElement
  <2>5. ASSUME NEW i \in Items, i # c
        PROVE  Queued(i)' = Queued(i) /\ PendingTasks(i)' = PendingTasks(i)
    <3>1. Queued(i)' = Queued(i) BY <1>3, <2>1, <2>5 DEF Queued, Claim, Write
    <3>2. PendingTasks(i)' = PendingTasks(i)
      BY <2>1, <2>2, <2>5 DEF PendingTasks, TypeOK, Pending
    <3>3. QED BY <3>1, <3>2
  <2>6. Credit'[c] = Credit[c]
    BY <2>1, <2>3, <2>4, PendingCounted DEF Credit
  <2>7. Credit' = Credit BY <2>5, <2>6 DEF Credit
  <2>8. QED BY <1>3, <2>7 DEF Claim, history, Ledger!vars
<1>4. CASE Claim(p) /\ status[cand[p]] # "scheduled"
  BY <1>1, <1>4 DEF Claim, task, Ledger!Next
<1>5. CASE SweepWrite(p) \/ ExpireWrite(p)
  BY <1>1, <1>2, <1>5 DEF SweepWrite, ExpireWrite, TypeOK, task, Ledger!Next
<1>6. CASE \/ TickStart(p) \/ DueQuery(p) \/ TickEnd(p)
           \/ \E i \in Items : LoopStep(p, i)
  BY <1>1, <1>6 DEF TickStart, DueQuery, TickEnd, LoopStep, item_row, Ledger!Next
<1>7. QED BY <1>3, <1>4, <1>5, <1>6 DEF TickStep

\* A task spends its credit on the post, hands it back, or loses it.
LEMMA TaskSimulates ==
  ASSUME TypeOK, NEW t \in Tasks, TaskStep(t)
  PROVE  [Ledger!Next]_(Ledger!vars)
<1>1. CASE ReleaseClaim(t) /\ status[titem[t]] = "publishing"
  <2>1. PICK c \in Items : c = titem[t] BY <1>1 DEF ReleaseClaim, TypeOK
  <2>2. Queued(c) = 0 /\ Queued(c)' = 1
    BY <1>1, <2>1 DEF Queued, ReleaseClaim, Write, TypeOK
  <2>3. Cardinality(PendingTasks(c)') = Cardinality(PendingTasks(c)) - 1
    <3>1. PendingTasks(c)' = PendingTasks(c) \ {t}
      BY <1>1, <2>1 DEF PendingTasks, TypeOK, Pending, ReleaseClaim, Finish
    <3>2. t \in PendingTasks(c)
      BY <1>1, <2>1 DEF PendingTasks, Pending, ReleaseClaim
    <3>3. QED BY <3>1, <3>2, PendingCounted, FS_RemoveElement
  <2>4. ASSUME NEW i \in Items, i # c
        PROVE  Queued(i)' = Queued(i) /\ PendingTasks(i)' = PendingTasks(i)
    <3>1. Queued(i)' = Queued(i)
      BY <1>1, <2>1, <2>4 DEF Queued, ReleaseClaim, Write
    <3>2. PendingTasks(i)' = PendingTasks(i)
      BY <1>1, <2>1, <2>4 DEF PendingTasks, TypeOK, Pending, ReleaseClaim, Finish
    <3>3. QED BY <3>1, <3>2
  <2>5. Credit'[c] = Credit[c]
    BY <2>1, <2>2, <2>3, PendingCounted DEF Credit
  <2>6. Credit' = Credit BY <2>4, <2>5 DEF Credit
  <2>7. QED BY <1>1, <2>6 DEF ReleaseClaim, history, Ledger!vars
<1>2. CASE PlatformPosts(t)
  <2>1. PICK c \in Items : c = titem[t] BY <1>2 DEF PlatformPosts, TypeOK
  <2>2. t \in PendingTasks(c)
    BY <1>2, <2>1 DEF PendingTasks, Pending, PlatformPosts
  <2>3. /\ Cardinality(PendingTasks(c)') = Cardinality(PendingTasks(c)) - 1
        /\ Cardinality(PendingTasks(c)') \in Nat
    <3>1. PendingTasks(c)' = PendingTasks(c) \ {t}
      BY <1>2, <2>1 DEF PendingTasks, TypeOK, Pending, PlatformPosts, To
    <3>2. QED BY <3>1, <2>2, PendingCounted, FS_RemoveElement, FS_CardinalityType
  <2>4. ASSUME NEW i \in Items, i # c
        PROVE  PendingTasks(i)' = PendingTasks(i)
    BY <1>2, <2>1, <2>4 DEF PendingTasks, TypeOK, Pending, PlatformPosts, To
  <2>5. ASSUME NEW i \in Items
        PROVE  Queued(i)' = Queued(i) /\ Queued(i) \in Nat
    BY <1>2 DEF PlatformPosts, item_row, Queued
  <2>6. Credit[c] > 0 /\ Credit'[c] = Credit[c] - 1
    BY <2>1, <2>3, <2>5, PendingCounted DEF Credit
  <2>7. Credit' = [Credit EXCEPT ![c] = @ - 1]
    BY <2>4, <2>5, <2>6 DEF Credit
  <2>8. Ledger!Post(c)
    BY <1>2, <2>1, <2>6, <2>7 DEF Ledger!Post, PlatformPosts
  <2>9. QED BY <2>8 DEF Ledger!Next
<1>3. CASE CheckKillSwitch(t)
  <2>1. \A i \in Items : PendingTasks(i)' = PendingTasks(i)
    BY <1>3 DEF CheckKillSwitch, To, PendingTasks, Pending, TypeOK
  <2>2. QED
    BY <1>3, <2>1, OnlyForfeits DEF CheckKillSwitch, item_row, history, Ledger!Next
<1>4. CASE Admit(t)
  <2>1. CASE To(t, "loaded")
    <3>1. \A i \in Items : PendingTasks(i)' = PendingTasks(i)
      BY <1>4, <2>1 DEF Admit, To, PendingTasks, Pending, TypeOK
    <3>2. QED BY <1>4, <3>1, OnlyForfeits DEF Admit, item_row, history, Ledger!Next
  <2>2. CASE Finish(t)
    BY <1>4, <2>2, TaskForfeits DEF Admit, item_row, history, Ledger!Next
  <2>3. QED BY <1>4, <2>1, <2>2 DEF Admit
<1>5. CASE ReleaseClaim(t) /\ status[titem[t]] # "publishing"
  BY <1>5, TaskForfeits DEF ReleaseClaim, history, Ledger!Next
<1>6. CASE PlatformRefuses(t) \/ LogOutcome(t) \/ Raise(t) \/ CrashRead(t)
  <2>1. \/ Finish(t)
        \/ \E s \in TaskSteps \ Pending : To(t, s)
    BY <1>6 DEF PlatformRefuses, LogOutcome, Raise, CrashRead, TaskSteps,
       Holding, Pending
  <2>2. UNCHANGED <<status, arms, posts>>
    BY <1>6 DEF PlatformRefuses, LogOutcome, Raise, CrashRead, item_row, history
  <2>3. QED BY <2>1, <2>2, TaskForfeits DEF Ledger!Next
<1>7. CASE RecordPublished(t) \/ RecordFailed(t) \/ CrashWrite(t)
  <2>1. \/ Finish(t)
        \/ \E s \in TaskSteps \ Pending : To(t, s)
    BY <1>7 DEF RecordPublished, RecordFailed, CrashWrite, TaskSteps,
       Holding, Pending
  <2>2. \A i \in Items : status'[i] = "scheduled" => status[i] = "scheduled"
    BY <1>7 DEF RecordPublished, RecordFailed, CrashWrite, Write
  <2>3. UNCHANGED <<arms, posts>>
    BY <1>7 DEF RecordPublished, RecordFailed, CrashWrite, history
  <2>4. QED BY <2>1, <2>2, <2>3, TaskForfeits DEF Ledger!Next
<1>8. QED BY <1>1, <1>2, <1>3, <1>4, <1>5, <1>6, <1>7 DEF TaskStep

\* An operator's write arms an item, or at most withdraws it.
LEMMA OperatorSimulates ==
  ASSUME TypeOK, OperatorStep
  PROVE  [Ledger!Next]_(Ledger!vars)
<1>1. ASSUME NEW c \in Items, status[c] # "scheduled", Write({c}, "scheduled"),
             Arm(c, "scheduled"), UNCHANGED <<task, posts>>
      PROVE  Ledger!Schedule(c)
  <2>1. ASSUME NEW i \in Items
        PROVE  PendingTasks(i)' = PendingTasks(i)
    BY <1>1 DEF PendingTasks, task
  <2>2. Queued(c) = 0 /\ Queued(c)' = 1 BY <1>1 DEF Queued, Write, TypeOK
  <2>3. ASSUME NEW i \in Items, i # c
        PROVE  Queued(i)' = Queued(i)
    BY <1>1, <2>3 DEF Queued, Write
  <2>4. Credit'[c] = Credit[c] + 1
    BY <2>1, <2>2, PendingCounted DEF Credit
  <2>5. ASSUME NEW i \in Items, i # c
        PROVE  Credit'[i] = Credit[i]
    BY <2>1, <2>3, <2>5 DEF Credit
  <2>6. /\ Credit' = [i \in Items |-> Credit'[i]]
        /\ Credit = [i \in Items |-> Credit[i]]
    BY DEF Credit
  <2>7. Credit' = [Credit EXCEPT ![c] = @ + 1]
    BY <2>4, <2>5, <2>6
  <2>8. QED BY <1>1, <2>7 DEF Ledger!Schedule, Arm
<1>2. ASSUME NEW c \in Items, NEW st,
             st = "scheduled" => status[c] = "scheduled",
             Write({c}, st), UNCHANGED <<task, arms, posts>>
      PROVE  Ledger!Forfeit
  <2>1. \A i \in Items : status'[i] = "scheduled" => status[i] = "scheduled"
    BY <1>2 DEF Write
  <2>2. QED BY <1>2, <2>1, OnlyForfeits DEF PendingTasks, task
<1>3. CASE \E i \in Items : Approve(i)
  BY <1>1, <1>3 DEF Approve, Ledger!Next
<1>4. CASE \E i \in Items, st \in PatchTo : \E sl \in {slot[i], "future"} :
             Patch(i, st, sl)
  BY <1>1, <1>2, <1>4 DEF Patch, Arm, Ledger!Next
<1>5. CASE \E i \in Items : Delete(i)
  BY <1>2, <1>5 DEF Delete, history, Ledger!Next
<1>6. CASE \/ \E i \in Items : CreateContent(i)
           \/ \E f \in Flags : SetKillSwitch(f)
  BY <1>6, OnlyForfeits
     DEF CreateContent, SetKillSwitch, PendingTasks, item_row, task, history,
         Ledger!Next
<1>7. QED BY <1>3, <1>4, <1>5, <1>6 DEF OperatorStep

\* Time changes no credit; a restart loses those of its tasks.
LEMMA EnvironmentSimulates ==
  ASSUME TypeOK,
         \/ \E p \in Procs : Restart(p)
         \/ \E i \in Items : ClockMoves(i) \/ Ages(i)
  PROVE  [Ledger!Next]_(Ledger!vars)
<1>1. CASE \E p \in Procs : Restart(p)
  <2>1. ASSUME NEW i \in Items
        PROVE  PendingTasks(i)' \subseteq PendingTasks(i)
    BY <1>1, <2>1 DEF Restart, PendingTasks, Pending
  <2>2. UNCHANGED <<status, arms, posts>> BY <1>1 DEF Restart, item_row, history
  <2>3. QED BY <2>1, <2>2, OnlyForfeits DEF Ledger!Next
<1>2. CASE \E i \in Items : ClockMoves(i) \/ Ages(i)
  BY <1>2, OnlyForfeits
     DEF ClockMoves, Ages, PendingTasks, task, history, Ledger!Next
<1>3. QED BY <1>1, <1>2

LEMMA LedgerInit == Init => Ledger!Init
<1> SUFFICES ASSUME Init PROVE Credit = [i \in Items |-> 0]
  BY DEF Init, Ledger!Init
<1>1. ASSUME NEW i \in Items
      PROVE  Queued(i) = 0 /\ PendingTasks(i) = {}
  BY DEF Init, Queued, PendingTasks, Pending
<1>2. QED BY <1>1, FS_EmptySet DEF Credit

LEMMA LedgerStep == TypeOK /\ [Next]_vars => [Ledger!Next]_(Ledger!vars)
<1> SUFFICES ASSUME TypeOK, [Next]_vars PROVE [Ledger!Next]_(Ledger!vars)
  OBVIOUS
<1>1. CASE Next
  BY <1>1, TickSimulates, TaskSimulates, OperatorSimulates,
     EnvironmentSimulates DEF Next
<1>2. CASE UNCHANGED vars
  BY <1>2, OnlyForfeits
     DEF vars, item_row, task, history, PendingTasks, Ledger!Next
<1>3. QED BY <1>1, <1>2

\* Every behaviour of the tick, the tasks, the kill switch, the operators and
\* crashing backends is one of the ledger: nothing but an operator creates the
\* right to post, and each post uses one up.
THEOREM Refinement == Spec => ImplementsLedger
<1>1. TypeOK /\ [Next]_vars => [Ledger!Next]_(Ledger!vars) BY LedgerStep
<1>2. QED
  BY <1>1, LedgerInit, Typing, PTL DEF Spec, ImplementsLedger, Ledger!Spec

-----------------------------------------------------------------------------
(* At most one post per scheduling decision.                               *)

\* The ledger itself never overdraws.
LEMMA TokenStep ==
  ASSUME TypeOK, TypeOK', TokenInv, [Ledger!Next]_(Ledger!vars)
  PROVE  TokenInv'
<1> USE CreditType DEF TokenInv
<1>1. Credit' \in [Items -> Nat] BY CreditTypeNext
<1>2. CASE \E i \in Items : Ledger!Schedule(i)
  BY <1>2 DEF Ledger!Schedule, TypeOK
<1>3. CASE \E i \in Items : Ledger!Post(i)
  BY <1>3 DEF Ledger!Post, TypeOK
<1>4. CASE Ledger!Forfeit
  BY <1>1, <1>4 DEF Ledger!Forfeit, TypeOK
<1>5. CASE UNCHANGED Ledger!vars
  BY <1>5 DEF Ledger!vars
<1>6. QED BY <1>2, <1>3, <1>4, <1>5 DEF Ledger!Next

\* Posts made and posts still possible never exceed the scheduling decisions.
THEOREM Tokens == Spec => []TokenInv
<1>1. Init => TokenInv
  BY LedgerInit DEF Init, TokenInv, Ledger!Init
<1>2. TypeOK /\ TypeOK' /\ TokenInv /\ [Next]_vars => TokenInv'
  BY LedgerStep, TokenStep
<1>3. QED BY <1>1, <1>2, Typing, PTL DEF Spec

\* An item is posted at most as often as an operator scheduled it.
THEOREM AtMostOncePerScheduling == Spec => []PostsWithinArms
<1>1. TypeOK /\ TokenInv => PostsWithinArms
  BY CreditType DEF TokenInv, PostsWithinArms, TypeOK
<1>2. QED BY <1>1, Tokens, Typing, PTL

-----------------------------------------------------------------------------
(* What shows as published was posted. Tasks are told apart by their step: a  *)
(* task that reports a success has posted its item.                           *)

ReportsPosted == \A t \in Tasks : pc[t] = "posted" => posts[titem[t]] > 0
PostedInv == TypeOK /\ ReportsPosted /\ PublishedWasPosted

\* Where nothing is published anew and no task has a new success to report.
LEMMA NothingPublished ==
  ASSUME PostedInv, TypeOK',
         \A i \in Items : posts'[i] >= posts[i],
         \A i \in Items : status'[i] = "published" => status[i] = "published",
         \A t \in Tasks : pc'[t] = "posted" => pc[t] = "posted" /\ titem'[t] = titem[t]
  PROVE  PostedInv'
BY DEF PostedInv, TypeOK, ReportsPosted, PublishedWasPosted

LEMMA TickPosted ==
  ASSUME PostedInv, NEW p \in Procs, TickStep(p)
  PROVE  PostedInv'
<1> USE DEF item_row, tick, task, history
<1>1. TypeOK /\ TypeOK' BY TypeTick DEF PostedInv
<1>2. UNCHANGED history
  BY DEF TickStep, TickStart, SweepWrite, DueQuery, ExpireWrite, LoopStep, TickEnd, Claim
<1>3. \A i \in Items : posts'[i] >= posts[i] BY <1>1, <1>2 DEF TypeOK
<1>4. \A i \in Items : status'[i] = "published" => status[i] = "published"
  BY <1>1 DEF TickStep, TickStart, SweepWrite, DueQuery, ExpireWrite, LoopStep, TickEnd,
     Claim, Write
<1>5. \A t \in Tasks : pc'[t] = "posted" => pc[t] = "posted" /\ titem'[t] = titem[t]
  <2>1. CASE Claim(p) BY <1>1, <2>1 DEF Claim, TypeOK
  <2>2. CASE UNCHANGED task BY <2>2
  <2> QED BY <2>1, <2>2
      DEF TickStep, TickStart, SweepWrite, DueQuery, ExpireWrite, LoopStep, TickEnd
<1> QED BY <1>1, <1>3, <1>4, <1>5, NothingPublished

LEMMA TaskPosted ==
  ASSUME PostedInv, NEW t \in Tasks, TaskStep(t)
  PROVE  PostedInv'
<1> USE DEF item_row, tick, task, history
<1>1. TypeOK /\ TypeOK' BY TypeTask DEF PostedInv
<1>2. CASE PlatformPosts(t)
  <2>1. titem[t] \in Items /\ UNCHANGED <<status, titem>>
    BY <1>1, <1>2 DEF PlatformPosts, To, TypeOK
  <2>2. \A i \in Items : posts'[i] >= posts[i] BY <1>1, <1>2, <2>1 DEF PlatformPosts, TypeOK
  <2>3. posts'[titem[t]] > 0 BY <1>1, <1>2, <2>1 DEF PlatformPosts, TypeOK
  <2>4. \A u \in Tasks \ {t} : pc'[u] = pc[u] BY <1>1, <1>2 DEF PlatformPosts, To, TypeOK
  <2>5. ReportsPosted'
    <3> SUFFICES ASSUME NEW u \in Tasks, pc'[u] = "posted" PROVE posts'[titem'[u]] > 0
      BY DEF ReportsPosted
    <3>1. CASE u = t BY <2>1, <2>3, <3>1
    <3>2. CASE u # t
      <4>1. pc[u] = "posted" /\ titem[u] \in Items /\ titem'[u] = titem[u]
        BY <1>1, <2>1, <2>4, <3>2 DEF TypeOK
      <4>2. posts[titem[u]] > 0 BY <4>1 DEF PostedInv, ReportsPosted
      <4>3. posts[titem[u]] \in Nat /\ posts'[titem[u]] \in Nat BY <1>1, <4>1 DEF TypeOK
      <4> QED BY <2>2, <4>1, <4>2, <4>3
    <3> QED BY <3>1, <3>2
  <2>6. PublishedWasPosted'
    BY <1>1, <2>1, <2>2 DEF PostedInv, PublishedWasPosted, TypeOK
  <2> QED BY <1>1, <2>5, <2>6 DEF PostedInv
<1>3. CASE RecordPublished(t)
  <2>1. titem[t] \in Items /\ posts[titem[t]] > 0
    BY <1>1, <1>3 DEF RecordPublished, PostedInv, ReportsPosted, TypeOK
  <2>2. UNCHANGED <<posts, titem>> BY <1>3 DEF RecordPublished, To
  <2>3. \A u \in Tasks : pc'[u] = "posted" => pc[u] = "posted"
    BY <1>1, <1>3 DEF RecordPublished, To, TypeOK
  <2>4. \A i \in Items : status'[i] = "published" => status[i] = "published" \/ i = titem[t]
    BY <1>1, <1>3 DEF RecordPublished, Write, TypeOK
  <2>5. ReportsPosted' BY <2>2, <2>3 DEF PostedInv, ReportsPosted
  <2>6. PublishedWasPosted' BY <2>1, <2>2, <2>4 DEF PostedInv, PublishedWasPosted
  <2> QED BY <1>1, <2>5, <2>6 DEF PostedInv
<1>4. CASE \/ Admit(t) \/ CheckKillSwitch(t) \/ ReleaseClaim(t) \/ PlatformRefuses(t)
           \/ RecordFailed(t) \/ LogOutcome(t) \/ Raise(t) \/ CrashRead(t) \/ CrashWrite(t)
  <2>1. UNCHANGED history
    BY <1>4 DEF Admit, CheckKillSwitch, ReleaseClaim, PlatformRefuses, RecordFailed,
       LogOutcome, Raise, CrashRead, CrashWrite
  <2>2. \A i \in Items : posts'[i] >= posts[i] BY <1>1, <2>1 DEF TypeOK
  <2>3. \A i \in Items : status'[i] = "published" => status[i] = "published"
    BY <1>1, <1>4 DEF Admit, CheckKillSwitch, ReleaseClaim, PlatformRefuses, RecordFailed,
       LogOutcome, Raise, CrashRead, CrashWrite, Write
  <2>4. \A u \in Tasks : pc'[u] = "posted" => pc[u] = "posted" /\ titem'[u] = titem[u]
    BY <1>1, <1>4 DEF Admit, CheckKillSwitch, ReleaseClaim, PlatformRefuses, RecordFailed,
       LogOutcome, Raise, CrashRead, CrashWrite, To, Finish, TypeOK
  <2> QED BY <1>1, <2>2, <2>3, <2>4, NothingPublished
<1> QED BY <1>2, <1>3, <1>4 DEF TaskStep

LEMMA OthersPosted ==
  ASSUME PostedInv, "published" \notin PatchTo,
         \/ OperatorStep
         \/ \E p \in Procs : Restart(p)
         \/ \E i \in Items : ClockMoves(i) \/ Ages(i)
  PROVE  PostedInv'
<1> USE DEF item_row, tick, task, history
<1>1. TypeOK /\ TypeOK' BY TypeOperator, TypeEnvironment DEF PostedInv
<1>2. UNCHANGED posts
  BY DEF OperatorStep, Approve, Delete, CreateContent, Patch, SetKillSwitch, Restart,
     ClockMoves, Ages
<1>3. \A i \in Items : posts'[i] >= posts[i] BY <1>1, <1>2 DEF TypeOK
<1>4. \A i \in Items : status'[i] = "published" => status[i] = "published"
  BY <1>1 DEF OperatorStep, Approve, Delete, CreateContent, Patch, SetKillSwitch, Restart,
     ClockMoves, Ages, Write
<1>5. \A t \in Tasks : pc'[t] = "posted" => pc[t] = "posted" /\ titem'[t] = titem[t]
  BY <1>1, ZenonT(60) DEF OperatorStep, Approve, Delete, CreateContent, Patch, SetKillSwitch, Restart,
     ClockMoves, Ages
<1> QED BY <1>1, <1>3, <1>4, <1>5, NothingPublished

\* An item is shown as published only after its platform took a post, as long as
\* nobody writes that status by hand (record_publish_result and every other
\* write of the scheduler and the API).
THEOREM ShownWasPosted ==
  ASSUME "published" \notin PatchTo
  PROVE  Spec => []PublishedWasPosted
<1>1. Init => PostedInv
  <2> SUFFICES ASSUME Init PROVE PostedInv OBVIOUS
  <2>1. (\A t \in Tasks : pc[t] = "none") /\ (\A i \in Items : status[i] = "in_review")
    BY DEF Init
  <2> QED BY <2>1, TypeInit DEF PostedInv, ReportsPosted, PublishedWasPosted
<1>2. PostedInv /\ [Next]_vars => PostedInv'
  <2> SUFFICES ASSUME PostedInv, [Next]_vars PROVE PostedInv' OBVIOUS
  <2>1. CASE Next BY <2>1, TickPosted, TaskPosted, OthersPosted DEF Next
  <2>2. CASE UNCHANGED vars
    BY <2>2 DEF vars, item_row, tick, task, history, PostedInv, TypeOK, ReportsPosted,
       PublishedWasPosted
  <2> QED BY <2>1, <2>2
<1>3. PostedInv => PublishedWasPosted BY DEF PostedInv
<1> QED BY <1>1, <1>2, <1>3, PTL DEF Spec

-----------------------------------------------------------------------------
(* The global switch. What may still leave after it is engaged was past the   *)
(* check then, and the semaphores of the processes bound that.                *)

Dispatching == {t \in Tasks : pc[t] = "dispatching"}

\* A process holds no more tasks than its semaphore admits.
SemaphoreHolds == \A p \in Procs : Cardinality(Holders(p)) <= MaxConcurrent

\* While the switch is engaged, a call that leaves was one of those at large.
LeakInv ==
  /\ SemaphoreHolds
  /\ GlobalEnabled => leak = 0
  /\ ~GlobalEnabled =>
       leak + Cardinality(Dispatching) <= MaxConcurrent * Cardinality(Procs)

\* The tasks can be counted, whatever is asked of them.
LEMMA TasksCounted ==
  ASSUME NEW S \in SUBSET Tasks
  PROVE  IsFiniteSet(S) /\ Cardinality(S) \in Nat
  BY PipelineAssumption, FS_Subset, FS_CardinalityType

\* A set of at most n elements can be numbered within 1..n.
LEMMA Numbering ==
  ASSUME NEW S, IsFiniteSet(S), NEW n \in Nat, Cardinality(S) <= n
  PROVE  \E f : f \in Injection(S, 1..n)
<1>1. Cardinality(S) \in Nat /\ ExistsBijection(1..Cardinality(S), S)
  BY FS_CardinalityType
<1>2. PICK g : g \in Bijection(1..Cardinality(S), S)
  BY <1>1 DEF ExistsBijection
<1> DEFINE f == [s \in S |-> CHOOSE k \in 1..Cardinality(S) : g[k] = s]
<1>3. \A s \in S : f[s] \in 1..Cardinality(S) /\ g[f[s]] = s
  BY <1>2 DEF Bijection, Surjection
<1>4. 1..Cardinality(S) \subseteq 1..n
  BY <1>1
<1>5. f \in [S -> 1..n]
  BY <1>3, <1>4
<1>6. \A s, u \in S : f[s] = f[u] => s = u
  BY <1>3
<1> HIDE DEF f
<1>7. f \in Injection(S, 1..n)
  BY <1>5, <1>6 DEF Injection, IsInjective
<1> QED
  BY <1>7

\* All semaphores together: at most MaxConcurrent tasks for each process.
LEMMA AtLarge ==
  ASSUME TypeOK, SemaphoreHolds, IsFiniteSet(Procs)
  PROVE  Cardinality(Dispatching) <= MaxConcurrent * Cardinality(Procs)
<1> DEFINE number == [p \in Procs |-> CHOOSE f : f \in Injection(Holders(p), 1..MaxConcurrent)]
           place == [t \in Dispatching |-> <<tproc[t], number[tproc[t]][t]>>]
<1>1. \A p \in Procs : number[p] \in Injection(Holders(p), 1..MaxConcurrent)
  <2>1. SUFFICES ASSUME NEW p \in Procs
                 PROVE  \E f : f \in Injection(Holders(p), 1..MaxConcurrent)
    OBVIOUS
  <2>2. IsFiniteSet(Holders(p)) /\ Cardinality(Holders(p)) <= MaxConcurrent
    BY TasksCounted DEF SemaphoreHolds, Holders
  <2> QED
    BY <2>2, Numbering, PipelineAssumption
<1>2. \A t \in Dispatching : tproc[t] \in Procs /\ t \in Holders(tproc[t])
  BY DEF Dispatching, Holders, Holding, TypeOK
<1> HIDE DEF number
<1>3. place \in [Dispatching -> Procs \X (1..MaxConcurrent)]
  BY <1>1, <1>2 DEF Injection
<1>4. \A t, u \in Dispatching : place[t] = place[u] => t = u
  <2>1. SUFFICES ASSUME NEW t \in Dispatching, NEW u \in Dispatching, place[t] = place[u]
                 PROVE  t = u
    OBVIOUS
  <2>2. tproc[t] = tproc[u] /\ number[tproc[t]][t] = number[tproc[t]][u]
    BY <2>1
  <2>3. t \in Holders(tproc[t]) /\ u \in Holders(tproc[t]) /\ tproc[t] \in Procs
    BY <1>2, <2>2
  <2>4. number[tproc[t]] \in Injection(Holders(tproc[t]), 1..MaxConcurrent)
    BY <1>1, <2>3
  <2>5. /\ DOMAIN number[tproc[t]] = Holders(tproc[t])
        /\ IsInjective(number[tproc[t]])
    BY <2>4 DEF Injection
  <2> QED
    BY <2>2, <2>3, <2>5 DEF IsInjective
<1> HIDE DEF place
<1>5. place \in Injection(Dispatching, Procs \X (1..MaxConcurrent))
  BY <1>3, <1>4 DEF Injection, IsInjective
<1>6. IsFiniteSet(1..MaxConcurrent) /\ Cardinality(1..MaxConcurrent) = MaxConcurrent
  BY FS_Interval, PipelineAssumption
<1>7. /\ IsFiniteSet(Procs \X (1..MaxConcurrent))
      /\ Cardinality(Procs \X (1..MaxConcurrent)) = Cardinality(Procs) * MaxConcurrent
  BY <1>6, FS_Product
<1>8. Cardinality(Dispatching) <= Cardinality(Procs) * MaxConcurrent
  BY <1>5, <1>7, FS_Injection
<1> QED
  BY <1>8, FS_CardinalityType, PipelineAssumption

\* Fewer holders are no more than there were.
LEMMA FewerHold ==
  ASSUME SemaphoreHolds, \A p \in Procs : Holders(p)' \subseteq Holders(p)
  PROVE  SemaphoreHolds'
<1> SUFFICES ASSUME NEW p \in Procs PROVE Cardinality(Holders(p)') <= MaxConcurrent
  BY DEF SemaphoreHolds
<1>1. IsFiniteSet(Holders(p)) /\ Cardinality(Holders(p)) \in Nat
  BY TasksCounted DEF Holders
<1>2. Cardinality(Holders(p)') <= Cardinality(Holders(p)) /\ Cardinality(Holders(p)') \in Nat
  BY <1>1, FS_Subset, FS_CardinalityType
<1> QED
  BY <1>1, <1>2, PipelineAssumption DEF SemaphoreHolds

\* A step that neither posts nor lets a call out under the switch.
LEMMA NothingLeaks ==
  ASSUME TypeOK, LeakInv, SemaphoreHolds', UNCHANGED <<engaged, leak>>, IsFiniteSet(Procs),
         ~GlobalEnabled => Dispatching' \subseteq Dispatching
  PROVE  LeakInv'
<1>1. CASE GlobalEnabled
  BY <1>1 DEF LeakInv, GlobalEnabled
<1>2. CASE ~GlobalEnabled
  <2>1. IsFiniteSet(Dispatching) /\ Cardinality(Dispatching) \in Nat
    BY TasksCounted DEF Dispatching
  <2>2. Cardinality(Dispatching') <= Cardinality(Dispatching)
        /\ Cardinality(Dispatching') \in Nat
    BY <1>2, <2>1, FS_Subset, FS_CardinalityType
  <2>3. leak' + Cardinality(Dispatching') <= leak + Cardinality(Dispatching)
    BY <2>1, <2>2 DEF TypeOK
  <2>4. leak + Cardinality(Dispatching) <= MaxConcurrent * Cardinality(Procs)
    BY <1>2 DEF LeakInv
  <2> DEFINE most == MaxConcurrent * Cardinality(Procs)
             before == leak + Cardinality(Dispatching)
             after == leak' + Cardinality(Dispatching')
  <2>5. after \in Int /\ before \in Int /\ most \in Int
    BY <2>1, <2>2, FS_CardinalityType, PipelineAssumption DEF TypeOK
  <2>6. after <= before /\ before <= most
    BY <2>3, <2>4
  <2>7. after <= most
    <3> HIDE DEF after, before, most
    <3> QED BY <2>5, <2>6
  <2> QED
    BY <1>2, <2>7 DEF LeakInv, GlobalEnabled
<1> QED
  BY <1>1, <1>2

\* A step that admits nobody, posts nothing and lets no call out.
LEMMA QuietStep ==
  ASSUME TypeOK, LeakInv, IsFiniteSet(Procs), UNCHANGED <<engaged, leak>>,
         \A p \in Procs : Holders(p)' \subseteq Holders(p),
         ~GlobalEnabled => Dispatching' \subseteq Dispatching
  PROVE  LeakInv'
  BY FewerHold, NothingLeaks DEF LeakInv

\* Only a task between none and waiting comes into being: the tick holds nothing.
LEMMA TickLeaks ==
  ASSUME TypeOK, LeakInv, IsFiniteSet(Procs), NEW p \in Procs, TickStep(p) \/ Restart(p)
  PROVE  LeakInv'
<1>1. UNCHANGED <<engaged, leak>>
  BY DEF TickStep, TickStart, SweepWrite, DueQuery, ExpireWrite, LoopStep, TickEnd, Claim,
     Restart, history
<1>2. \A t \in Tasks : pc'[t] \in Holding => pc'[t] = pc[t] /\ tproc'[t] = tproc[t]
  <2>1. CASE UNCHANGED task
    BY <2>1 DEF task
  <2>2. CASE Claim(p)
    <3>1. CASE UNCHANGED task
      BY <3>1 DEF task
    <3>2. CASE \E t \in Tasks : /\ pc[t] = "none"
                                /\ pc' = [pc EXCEPT ![t] = "waiting"]
                                /\ tproc' = [tproc EXCEPT ![t] = p]
      BY <3>2 DEF TypeOK, Holding
    <3> QED
      BY <2>2, <3>1, <3>2 DEF Claim
  <2>3. CASE Restart(p)
    BY <2>3 DEF Restart, Holding
  <2> QED
    BY <2>1, <2>2, <2>3 DEF TickStep, TickStart, SweepWrite, DueQuery, ExpireWrite, LoopStep,
       TickEnd
<1>3. \A q \in Procs : Holders(q)' \subseteq Holders(q)
  BY <1>2 DEF Holders
<1>4. Dispatching' \subseteq Dispatching
  BY <1>2 DEF Dispatching, Holding
<1> QED
  BY <1>1, <1>3, <1>4, QuietStep

\* The semaphore admits a task only while it has a place.
LEMMA AdmitHolds ==
  ASSUME TypeOK, SemaphoreHolds, NEW t \in Tasks, Admit(t)
  PROVE  SemaphoreHolds'
<1>1. CASE Finish(t)
  <2>1. \A p \in Procs : Holders(p)' \subseteq Holders(p)
    BY <1>1 DEF Finish, Holders, Holding, TypeOK
  <2> QED
    BY <2>1, FewerHold
<1>2. CASE To(t, "loaded")
  <2> SUFFICES ASSUME NEW p \in Procs PROVE Cardinality(Holders(p)') <= MaxConcurrent
    BY DEF SemaphoreHolds
  <2>1. IsFiniteSet(Holders(p)) /\ Cardinality(Holders(p)) \in Nat
    BY TasksCounted DEF Holders
  <2>2. CASE tproc[t] = p
    <3>1. Holders(p)' = Holders(p) \cup {t}
      BY <1>2, <2>2 DEF To, Holders, Holding, TypeOK
    <3>2. Cardinality(Holders(p)) < MaxConcurrent
      BY <2>2 DEF Admit
    <3>3. Cardinality(Holders(p)') <= Cardinality(Holders(p)) + 1
          /\ Cardinality(Holders(p)') \in Nat
      <4>1. Cardinality(Holders(p) \cup {t}) \in
              {Cardinality(Holders(p)), Cardinality(Holders(p)) + 1}
        BY <2>1, FS_AddElement
      <4> QED
        BY <2>1, <3>1, <4>1
    <3> QED
      BY <2>1, <3>2, <3>3, PipelineAssumption
  <2>3. CASE tproc[t] # p
    <3>1. Holders(p)' = Holders(p)
      BY <1>2, <2>3 DEF To, Holders, TypeOK
    <3> QED
      BY <3>1 DEF SemaphoreHolds
  <2> QED
    BY <2>2, <2>3
<1> QED
  BY <1>1, <1>2 DEF Admit

\* A post under the switch is one call fewer at large.
LEMMA PostLeaks ==
  ASSUME TypeOK, LeakInv, IsFiniteSet(Procs), NEW t \in Tasks, PlatformPosts(t)
  PROVE  LeakInv'
<1>1. pc[t] = "dispatching" /\ (To(t, "posted") \/ To(t, "rejected"))
  BY DEF PlatformPosts
<1>2. SemaphoreHolds'
  <2>1. \A p \in Procs : Holders(p)' \subseteq Holders(p)
    BY <1>1 DEF To, Holders, Holding, TypeOK
  <2> QED
    BY <2>1, FewerHold DEF LeakInv
<1>3. Dispatching' = Dispatching \ {t} /\ t \in Dispatching
  BY <1>1 DEF To, Dispatching, TypeOK
<1>4. Cardinality(Dispatching') = Cardinality(Dispatching) - 1
      /\ Cardinality(Dispatching) \in Nat
  BY <1>3, TasksCounted, FS_RemoveElement DEF Dispatching
<1>5. GlobalEnabled' <=> GlobalEnabled
  BY DEF PlatformPosts, GlobalEnabled
<1>6. CASE GlobalEnabled
  BY <1>2, <1>5, <1>6 DEF LeakInv, PlatformPosts
<1>7. CASE ~GlobalEnabled
  <2>1. leak' = leak + 1 /\ leak \in Nat
    BY <1>7 DEF PlatformPosts, TypeOK
  <2>2. leak' + Cardinality(Dispatching') = leak + Cardinality(Dispatching)
    BY <1>4, <2>1
  <2> QED
    BY <1>2, <1>5, <1>7, <2>2 DEF LeakInv
<1> QED
  BY <1>6, <1>7

\* Every step of a task: it enters by the semaphore, goes out by the switch's
\* check, and gives its place back when it ends.
LEMMA TaskLeaks ==
  ASSUME TypeOK, LeakInv, IsFiniteSet(Procs), NEW t \in Tasks, TaskStep(t)
  PROVE  LeakInv'
<1>1. CASE Admit(t)
  <2>1. Dispatching' \subseteq Dispatching
    BY <1>1 DEF Admit, To, Finish, Dispatching, TypeOK
  <2>2. UNCHANGED <<engaged, leak>>
    BY <1>1 DEF Admit, history
  <2>3. SemaphoreHolds'
    BY <1>1, AdmitHolds DEF LeakInv
  <2> QED
    BY <2>1, <2>2, <2>3, NothingLeaks
<1>2. CASE PlatformPosts(t)
  BY <1>2, PostLeaks
<1>3. CASE CheckKillSwitch(t)
  <2>1. UNCHANGED <<engaged, leak>> /\ pc[t] = "loaded"
    BY <1>3 DEF CheckKillSwitch, history
  <2>2. To(t, "dispatching") \/ To(t, "releasing")
    BY <1>3 DEF CheckKillSwitch
  <2>3. ~GlobalEnabled => To(t, "releasing")
    BY <1>3 DEF CheckKillSwitch, Enabled, GlobalEnabled
  <2>4. \A p \in Procs : Holders(p)' \subseteq Holders(p)
    BY <2>1, <2>2 DEF To, Holders, Holding, TypeOK
  <2>5. ~GlobalEnabled => Dispatching' \subseteq Dispatching
    BY <2>3 DEF To, Dispatching, TypeOK
  <2> QED
    BY <2>1, <2>4, <2>5, QuietStep
<1>4. CASE \/ ReleaseClaim(t) \/ PlatformRefuses(t) \/ RecordPublished(t) \/ RecordFailed(t)
           \/ LogOutcome(t) \/ Raise(t) \/ CrashRead(t) \/ CrashWrite(t)
  <2>1. UNCHANGED <<engaged, leak>>
    BY <1>4 DEF ReleaseClaim, PlatformRefuses, RecordPublished, RecordFailed, LogOutcome, Raise,
       CrashRead, CrashWrite, history
  <2>2. pc[t] \in Holding
    BY <1>4 DEF ReleaseClaim, PlatformRefuses, RecordPublished, RecordFailed, LogOutcome, Raise,
       CrashRead, CrashWrite, Holding
  <2>3. \/ Finish(t)
        \/ \E st \in Holding \ {"dispatching"} : To(t, st)
    BY <1>4 DEF ReleaseClaim, PlatformRefuses, RecordPublished, RecordFailed, LogOutcome, Raise,
       CrashRead, CrashWrite, Holding
  <2>4. \A p \in Procs : Holders(p)' \subseteq Holders(p)
    BY <2>2, <2>3 DEF To, Finish, Holders, Holding, TypeOK
  <2>5. Dispatching' \subseteq Dispatching
    BY <2>3 DEF To, Finish, Dispatching, TypeOK
  <2> QED
    BY <2>1, <2>4, <2>5, QuietStep
<1> QED
  BY <1>1, <1>2, <1>3, <1>4 DEF TaskStep

\* Engaging the switch starts the count anew; all that is at large then may
\* still leave.
LEMMA SwitchLeaks ==
  ASSUME TypeOK, LeakInv, IsFiniteSet(Procs), NEW f \in Flags, SetKillSwitch(f)
  PROVE  LeakInv'
<1>1. UNCHANGED <<pc, tproc>>
  BY DEF SetKillSwitch, task
<1>2. Dispatching' = Dispatching /\ \A p \in Procs : Holders(p)' = Holders(p)
  BY <1>1 DEF Dispatching, Holders
<1>3. SemaphoreHolds'
  BY <1>2 DEF LeakInv, SemaphoreHolds
<1>4. CASE f = Global
  <2>1. leak' = 0
    BY <1>4 DEF SetKillSwitch
  <2>2. Cardinality(Dispatching) <= MaxConcurrent * Cardinality(Procs)
        /\ Cardinality(Dispatching) \in Nat
    BY AtLarge, TasksCounted DEF LeakInv, Dispatching
  <2>3. leak' + Cardinality(Dispatching') <= MaxConcurrent * Cardinality(Procs)
    BY <1>2, <2>1, <2>2
  <2> QED
    BY <1>3, <2>1, <2>3 DEF LeakInv
<1>5. CASE f # Global
  <2>1. leak' = leak /\ (GlobalEnabled' <=> GlobalEnabled)
    BY <1>5 DEF SetKillSwitch, GlobalEnabled
  <2> QED
    BY <1>2, <1>3, <2>1 DEF LeakInv
<1> QED
  BY <1>4, <1>5

\* The other operators and the clock touch no task.
LEMMA OthersLeak ==
  ASSUME TypeOK, LeakInv, IsFiniteSet(Procs),
         OperatorStep \/ (\E i \in Items : ClockMoves(i) \/ Ages(i))
  PROVE  LeakInv'
<1>1. CASE \E f \in Flags : SetKillSwitch(f)
  BY <1>1, SwitchLeaks
<1>2. CASE UNCHANGED <<engaged, leak, pc, tproc>>
  <2>1. Dispatching' = Dispatching /\ \A p \in Procs : Holders(p)' = Holders(p)
    BY <1>2 DEF Dispatching, Holders
  <2> QED
    BY <1>2, <2>1, QuietStep
<1> QED
  BY <1>1, <1>2 DEF OperatorStep, Approve, Delete, CreateContent, Patch, ClockMoves, Ages, task,
     history

\* Once the global switch is engaged no more posts leave than the semaphores of
\* all processes can hold, however the flags, restarts and tasks interleave
\* (publish_direct's check of is_publishing_enabled after the semaphore). The
\* processes are finitely many.
THEOREM SwitchBoundsPosts ==
  ASSUME IsFiniteSet(Procs)
  PROVE  Spec => []LeakBounded
<1>1. Init => LeakInv
  <2> SUFFICES ASSUME Init PROVE LeakInv OBVIOUS
  <2>1. \A p \in Procs : Holders(p) = {}
    BY DEF Init, Holders, Holding
  <2>2. GlobalEnabled /\ leak = 0
    BY DEF Init, GlobalEnabled
  <2> QED
    BY <2>1, <2>2, FS_EmptySet, PipelineAssumption DEF LeakInv, SemaphoreHolds
<1>2. TypeOK /\ LeakInv /\ [Next]_vars => LeakInv'
  <2> SUFFICES ASSUME TypeOK, LeakInv, [Next]_vars PROVE LeakInv' OBVIOUS
  <2>1. CASE Next
    BY <2>1, TickLeaks, TaskLeaks, OthersLeak DEF Next
  <2>2. CASE UNCHANGED vars
    <3>1. UNCHANGED <<engaged, leak, pc, tproc>>
      BY <2>2 DEF vars, task, history
    <3>2. Dispatching' = Dispatching /\ \A p \in Procs : Holders(p)' = Holders(p)
      BY <3>1 DEF Dispatching, Holders
    <3> QED
      BY <3>1, <3>2, QuietStep
  <2> QED
    BY <2>1, <2>2
<1>3. TypeOK /\ LeakInv => LeakBounded
  <2> SUFFICES ASSUME TypeOK, LeakInv PROVE LeakBounded OBVIOUS
  <2> DEFINE most == MaxConcurrent * Cardinality(Procs)
  <2>1. most \in Nat
    BY FS_CardinalityType, PipelineAssumption
  <2>2. Cardinality(Dispatching) \in Nat /\ leak \in Nat
    BY TasksCounted DEF Dispatching, TypeOK
  <2>3. leak = 0 \/ leak + Cardinality(Dispatching) <= most
    BY DEF LeakInv
  <2>4. leak <= most
    <3> HIDE DEF most
    <3> QED BY <2>1, <2>2, <2>3
  <2> QED
    BY <2>4 DEF LeakBounded
<1> QED
  BY <1>1, <1>2, <1>3, Typing, PTL DEF Spec

=============================================================================

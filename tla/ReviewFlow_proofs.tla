--------------------------- MODULE ReviewFlow_proofs ---------------------------
(***************************************************************************)
(* What holds of the review flow for any number of requests, messages,     *)
(* editions and approvals: the types of its rows, that nothing goes to the *)
(* publisher before some approval, that an open approval is about the      *)
(* current row, and that a post in review has one before the first fault.  *)
(* The hypotheses about the operations in use are named below.             *)
(***************************************************************************)
EXTENDS ReviewFlow, SequenceTheorems, TLAPS

-----------------------------------------------------------------------------
(* Types.  A request and a job are typed by what they are about.            *)

ReqSteps == {"idle", "clicked", "read", "decided", "committed", "reopening"}
JobSteps == {"free", "sent", "running", "claimed", "rendering", "inserted",
             "stored", "reviewed", "edited", "asking", "releasing", "settling",
             "reported", "failing", "leaving"}
Kinds == {"none", "content", "video", "regen", "rebrand"}

Request == [op : ApiOps \cup {"none"}, step : ReqSteps, seen : Statuses,
            ref : Nat, to : Statuses \cup Verdicts]
Job == [kind : Kinds, step : JobSteps, ver : Nat,
        prior : {"queued", "in_review", "reworking"}]
Approval == [ver : Nat, state : {"pending", "revision"} \cup Verdicts]

\* A decision has a verdict, an update a status, a trigger saw an allowed one.
Sensible(q) ==
  /\ q.op = "decide" => q.to \in Verdicts
  /\ q.op \in {"patch", "put"} => q.to \in Statuses
  /\ q.op \in Triggers => q.seen \in Allowed(q.op)

RowTypes ==
  /\ status \in Statuses
  /\ version \in Nat /\ edition \in Nat /\ reel \in BOOLEAN
  /\ genError \in BOOLEAN /\ pubError \in BOOLEAN
  /\ approvals \in Seq(Approval)
ActorTypes ==
  /\ req \in [Requests -> Request]
  /\ \A r \in Requests : Sensible(req[r])
  /\ job \in [Jobs -> Job]
  /\ pub \in Nat
HistoryTypes ==
  /\ faults \in Nat
  /\ vetted \in BOOLEAN /\ handed \subseteq Nat
TypeOK == RowTypes /\ ActorTypes /\ HistoryTypes

\* The states of a request that changes nothing but its step keep its sense.
LEMMA GoOnTypes ==
  ASSUME ActorTypes, NEW r \in Requests, NEW s \in ReqSteps, GoOn(r, s)
  PROVE  req' \in [Requests -> Request] /\ \A q \in Requests : Sensible(req'[q])
  BY DEF ActorTypes, GoOn, Request, Sensible

\* So does an answer, which frees the slot.
LEMMA ReplyTypes ==
  ASSUME ActorTypes, NEW r \in Requests, Reply(r)
  PROVE  req' \in [Requests -> Request] /\ \A q \in Requests : Sensible(req'[q])
<1>1. NoReq \in Request /\ Sensible(NoReq)
  BY DEF NoReq, Request, Sensible, ApiOps, Triggers, ReqSteps, Statuses
<1> QED
  BY <1>1 DEF ActorTypes, Reply

\* A job that moves on is a job, whatever the step.
LEMMA GotoTypes ==
  ASSUME ActorTypes, NEW j \in Jobs, NEW s \in JobSteps, Goto(j, s)
  PROVE  job' \in [Jobs -> Job]
  BY DEF ActorTypes, Goto, Job

\* An acknowledged message leaves a free slot.
LEMMA AckedTypes ==
  ASSUME ActorTypes, NEW j \in Jobs, Acked(j)
  PROVE  job' \in [Jobs -> Job]
<1>1. NoJob \in Job
  BY DEF NoJob, Job, Kinds, JobSteps
<1> QED
  BY <1>1 DEF ActorTypes, Acked

\* A message that is sent is a job at its first step.
LEMMA SendTypes ==
  ASSUME ActorTypes, NEW kind \in Kinds, NEW ver \in Nat,
         NEW prior \in {"queued", "in_review", "reworking"}, Send(kind, ver, prior)
  PROVE  job' \in [Jobs -> Job]
<1>1. [kind |-> kind, step |-> "sent", ver |-> ver, prior |-> prior] \in Job
  BY DEF Job, JobSteps
<1> QED
  BY <1>1 DEF ActorTypes, Send

-----------------------------------------------------------------------------
(* What becomes of the approvals. *)

\* A new approval is pending, and the only one that is new.
LEMMA AskedAdds ==
  ASSUME approvals \in Seq(Approval), NEW ver \in Nat, approvals' = Asked(ver)
  PROVE  /\ approvals' \in Seq(Approval)
         /\ Len(approvals') = Len(approvals) + 1
         /\ \A a \in 1..Len(approvals) : approvals'[a] = approvals[a]
         /\ approvals'[Len(approvals) + 1] = [ver |-> ver, state |-> "pending"]
         /\ Pending' = Pending \cup {Len(approvals) + 1}
<1> DEFINE asked == [ver |-> ver, state |-> "pending"]
<1>1. asked \in Approval
  BY DEF Approval
<1>2. /\ approvals' \in Seq(Approval)
      /\ Len(approvals') = Len(approvals) + 1
      /\ \A a \in 1..Len(approvals) : approvals'[a] = approvals[a]
      /\ approvals'[Len(approvals) + 1] = asked
  BY <1>1 DEF Asked
<1>3. DOMAIN approvals' = 1..Len(approvals) + 1 /\ DOMAIN approvals = 1..Len(approvals)
      /\ Len(approvals) \in Nat
  BY <1>2, LenProperties
<1>4. \A a : a \in Pending' <=> a \in Pending \cup {Len(approvals) + 1}
  BY <1>2, <1>3 DEF Pending
<1> QED
  BY <1>2, <1>4

\* A decision resolves one approval and leaves the others.
LEMMA DecidedResolves ==
  ASSUME approvals \in Seq(Approval), NEW i \in Nat, NEW v \in Verdicts,
         approvals' = [approvals EXCEPT ![i].state = v]
  PROVE  /\ approvals' \in Seq(Approval)
         /\ Len(approvals') = Len(approvals)
         /\ \A a \in 1..Len(approvals) :
              /\ a # i => approvals'[a] = approvals[a]
              /\ approvals'[a].ver = approvals[a].ver
         /\ Pending' = Pending \ {i}
<1>1. /\ Len(approvals) \in Nat /\ DOMAIN approvals = 1..Len(approvals)
      /\ \A a \in 1..Len(approvals) : approvals[a] \in Approval
  BY LenProperties, ElementOfSeq
<1>2. CASE i \in 1..Len(approvals)
  <2> DEFINE e == [approvals[i] EXCEPT !.state = v]
  <2>1. e \in Approval /\ e.ver = approvals[i].ver /\ e.state = v
    BY <1>1, <1>2 DEF Approval
  <2> HIDE DEF e
  <2>2. approvals' = [approvals EXCEPT ![i] = e]
    BY DEF e
  <2>3. /\ approvals' \in Seq(Approval) /\ Len(approvals') = Len(approvals)
        /\ \A a \in 1..Len(approvals) : approvals'[a] = IF a = i THEN e ELSE approvals[a]
    BY <1>2, <2>1, <2>2, ExceptSeq
  <2>4. DOMAIN approvals' = 1..Len(approvals)
    BY <2>3, LenProperties
  <2>5. \A a : a \in Pending' <=> a \in Pending \ {i}
    BY <1>1, <2>1, <2>3, <2>4 DEF Pending, Verdicts
  <2> QED
    BY <2>1, <2>3, <2>5
<1>3. CASE i \notin 1..Len(approvals)
  <2>1. approvals' = approvals
    BY <1>1, <1>3
  <2> QED
    BY <1>1, <1>3, <2>1 DEF Pending
<1> QED
  BY <1>2, <1>3

\* Storing a row closes what was open and asks for nothing.
LEMMA StoreResolves ==
  ASSUME approvals \in Seq(Approval),
         approvals' = [a \in DOMAIN approvals |->
                         IF a \in Pending
                         THEN [approvals[a] EXCEPT !.state = "revision"]
                         ELSE approvals[a]]
  PROVE  /\ approvals' \in Seq(Approval)
         /\ Len(approvals') = Len(approvals)
         /\ Pending' = {}
<1> DEFINE closed(a) == IF a \in Pending
                       THEN [approvals[a] EXCEPT !.state = "revision"]
                       ELSE approvals[a]
<1>1. /\ Len(approvals) \in Nat /\ DOMAIN approvals = 1..Len(approvals)
      /\ \A a \in 1..Len(approvals) : approvals[a] \in Approval
  BY LenProperties, ElementOfSeq
<1>2. \A a \in 1..Len(approvals) : closed(a) \in Approval /\ closed(a).state # "pending"
  BY <1>1 DEF Approval, Pending
<1>3. approvals' = [a \in 1..Len(approvals) |-> closed(a)]
  BY <1>1
<1> HIDE DEF closed
<1>4. approvals' \in [1..Len(approvals) -> Approval]
  BY <1>2, <1>3
<1>5. approvals' \in Seq(Approval) /\ DOMAIN approvals' = 1..Len(approvals)
  BY <1>1, <1>4, SeqDef
<1>6. Len(approvals') = Len(approvals)
  BY <1>1, <1>5, LenProperties
<1>7. \A a \in DOMAIN approvals' : approvals'[a].state # "pending"
  BY <1>2, <1>3, <1>5
<1> QED
  BY <1>5, <1>6, <1>7 DEF Pending

\* The first state is well typed.
LEMMA InitTypes == Init => TypeOK
<1> SUFFICES ASSUME Init PROVE TypeOK
  OBVIOUS
<1>1. NoReq \in Request /\ Sensible(NoReq) /\ NoJob \in Job
  BY DEF NoReq, NoJob, Request, Job, Sensible, ApiOps, Triggers, ReqSteps, Statuses,
         Kinds, JobSteps
<1>2. <<>> \in Seq(Approval)
  OBVIOUS
<1>3. RowTypes
  BY <1>2 DEF Init, RowTypes, Statuses
<1> QED
  BY <1>1, <1>3 DEF Init, TypeOK, ActorTypes, HistoryTypes

-----------------------------------------------------------------------------
(* Type correctness, actor by actor. *)

\* A click, or the read that starts a trigger, fills one slot.
LEMMA NewRequestTypes ==
  ASSUME TypeOK, NEW r \in Requests, NewRequest(r)
  PROVE  TypeOK'
<1>1. NoReq \in Request
  BY DEF NoReq, Request, Sensible, ApiOps, Triggers, ReqSteps, Statuses
<1>2. ASSUME NEW a \in DOMAIN approvals, NEW v \in Verdicts, DecideClick(r, a, v)
      PROVE  TypeOK'
  <2>1. a \in Nat
    BY DEF TypeOK, RowTypes
  <2>2. req' \in [Requests -> Request] /\ \A q \in Requests : Sensible(req'[q])
    BY <1>2, <2>1 DEF TypeOK, RowTypes, ActorTypes, DecideClick, Request, Sensible, ApiOps,
       Triggers, ReqSteps
  <2> QED
    BY <1>2, <2>2 DEF DecideClick, TypeOK, RowTypes, ActorTypes, HistoryTypes, content, errors,
       history
<1>3. ASSUME NEW st \in Statuses, PatchClick(r, st) PROVE TypeOK'
  <2>1. req' \in [Requests -> Request] /\ \A q \in Requests : Sensible(req'[q])
    BY <1>1, <1>3 DEF TypeOK, ActorTypes, PatchClick, NoReq, Request, Sensible, ApiOps,
       Triggers, ReqSteps
  <2> QED
    BY <1>3, <2>1 DEF PatchClick, TypeOK, RowTypes, ActorTypes, HistoryTypes, content, errors,
       history
<1>4. ASSUME NEW st \in Statuses, PutRequest(r, st) PROVE TypeOK'
  <2>1. req' \in [Requests -> Request] /\ \A q \in Requests : Sensible(req'[q])
    BY <1>1, <1>4 DEF TypeOK, ActorTypes, PutRequest, NoReq, Request, Sensible, ApiOps,
       Triggers, ReqSteps
  <2> QED
    BY <1>4, <2>1 DEF PutRequest, TypeOK, RowTypes, ActorTypes, HistoryTypes, content, errors,
       history
<1>5. ASSUME NEW op \in Triggers, TriggerRead(r, op) PROVE TypeOK'
  <2>1. req' \in [Requests -> Request] /\ \A q \in Requests : Sensible(req'[q])
    BY <1>1, <1>5 DEF TypeOK, RowTypes, ActorTypes, TriggerRead, NoReq, Request, Sensible,
       ApiOps, Triggers, ReqSteps
  <2> QED
    BY <1>5, <2>1 DEF TriggerRead, TypeOK, RowTypes, ActorTypes, HistoryTypes, content, errors,
       history
<1> QED
  BY <1>2, <1>3, <1>4, <1>5 DEF NewRequest

\* Each step of a request: decision, update, trigger.
LEMMA RequestStepTypes ==
  ASSUME TypeOK, NEW r \in Requests, RequestStep(r)
  PROVE  TypeOK'
<1> USE DEF TypeOK
<1>q. req[r] \in Request /\ Sensible(req[r])
  BY DEF ActorTypes
<1>1. CASE DecideRead(r)
  <2>1. GoOn(r, "read") \/ Reply(r)
    BY <1>1 DEF DecideRead
  <2> QED
    BY <1>1, <2>1, GoOnTypes, ReplyTypes
    DEF DecideRead, RowTypes, ActorTypes, HistoryTypes, content, errors, history, ReqSteps
<1>2. CASE DecideValidate(r)
  <2>1. GoOn(r, "decided") \/ Reply(r)
    BY <1>2 DEF DecideValidate
  <2> QED
    BY <1>2, <2>1, GoOnTypes, ReplyTypes
    DEF DecideValidate, RowTypes, ActorTypes, HistoryTypes, content, errors, history, ReqSteps
<1>3. CASE DecideCommit(r)
  <2>1. req[r].to \in Verdicts
    BY <1>3, <1>q DEF DecideCommit, Sensible
  <2>2. approvals' \in Seq(Approval)
    BY <1>3, <1>q, <2>1, DecidedResolves DEF DecideCommit, RowTypes, Request
  <2>3. status' \in Statuses
    BY <1>3 DEF DecideCommit, Target, Statuses
  <2>4. vetted' \in BOOLEAN
    BY <1>3 DEF DecideCommit, HistoryTypes, RowTypes
  <2> QED
    BY <1>3, <2>2, <2>3, <2>4, ReplyTypes
    DEF DecideCommit, RowTypes, ActorTypes, HistoryTypes, content, errors
<1>4. CASE UpdateRead(r)
  <2> DEFINE read == [req[r] EXCEPT !.step = "read", !.seen = status]
  <2>1. req' = [req EXCEPT ![r] = read]
    BY <1>4 DEF UpdateRead
  <2>2. read \in Request
    BY <1>q DEF Request, ReqSteps, RowTypes
  <2>3. Sensible(read)
    BY <1>4, <1>q DEF UpdateRead, Sensible, Request, Triggers
  <2>4. req' \in [Requests -> Request] /\ \A q \in Requests : Sensible(req'[q])
    BY <2>1, <2>2, <2>3 DEF ActorTypes
  <2> QED
    BY <1>4, <2>4
    DEF UpdateRead, RowTypes, ActorTypes, HistoryTypes, content, errors, history
<1>5. CASE UpdateCommit(r)
  <2>1. GoOn(r, "committed") \/ Reply(r)
    BY <1>5 DEF UpdateCommit
  <2>2. status' \in Statuses
    BY <1>5, <1>q DEF UpdateCommit, RowTypes, Sensible
  <2> QED
    BY <1>5, <2>1, <2>2, GoOnTypes, ReplyTypes
    DEF UpdateCommit, RowTypes, ActorTypes, HistoryTypes, content, errors, history, ReqSteps
<1>6. CASE Reopen(r)
  <2>1. CASE Reply(r)
    BY <1>6, <2>1, ReplyTypes
    DEF Reopen, RowTypes, ActorTypes, HistoryTypes, content, errors, history
  <2>2. CASE ~Reply(r)
    <3>1. /\ approvals # <<>>
          /\ req' = [req EXCEPT ![r].step = "reopening",
                                ![r].ref = approvals[Len(approvals)].ver]
      BY <1>6, <2>2 DEF Reopen
    <3>a. approvals \in Seq(Approval)
      BY DEF RowTypes
    <3>b. Len(approvals) \in 1..Len(approvals)
      BY <3>1, <3>a, EmptySeq, LenProperties
    <3>c. approvals[Len(approvals)] \in Approval
      BY <3>a, <3>b, ElementOfSeq
    <3>2. approvals[Len(approvals)].ver \in Nat
      BY <3>c DEF Approval
    <3> DEFINE again == [req[r] EXCEPT !.step = "reopening",
                                       !.ref = approvals[Len(approvals)].ver]
    <3>3. again \in Request /\ Sensible(again)
      BY <3>2, <1>q DEF Request, Sensible, ReqSteps
    <3>4. req' = [req EXCEPT ![r] = again]
      BY <3>1
    <3>5. req' \in [Requests -> Request] /\ \A q \in Requests : Sensible(req'[q])
      BY <3>3, <3>4 DEF ActorTypes
    <3> QED
      BY <1>6, <3>5
      DEF Reopen, RowTypes, ActorTypes, HistoryTypes, content, errors, history
  <2> QED
    BY <2>1, <2>2
<1>7. CASE ReopenCommit(r)
  <2>1. approvals' \in Seq(Approval)
    BY <1>7, <1>q, AskedAdds DEF RowTypes, ReopenCommit, Request
  <2> QED
    BY <1>7, <2>1, ReplyTypes
    DEF ReopenCommit, RowTypes, ActorTypes, HistoryTypes, content, errors, history
<1>8. CASE TriggerCommit(r)
  <2>1. status' \in Statuses
    BY <1>8 DEF TriggerCommit, Flipped, RowTypes, Statuses
  <2> QED
    BY <1>8, <2>1, GoOnTypes
    DEF TriggerCommit, RowTypes, ActorTypes, HistoryTypes, content, errors, history, ReqSteps
<1>9. CASE TriggerSend(r)
  <2>1. job' \in [Jobs -> Job]
    <3>1. CASE req[r].op = "render"
      BY <1>9, <3>1, SendTypes DEF TriggerSend, Kinds
    <3>2. CASE req[r].op = "regen"
      BY <1>9, <3>2, <1>q, SendTypes DEF TriggerSend, Kinds, Request
    <3>3. CASE req[r].op = "rebrand"
      <4>1. req[r].seen \in {"in_review", "reworking"}
        BY <3>3, <1>q DEF Sensible, Allowed, Triggers
      <4> QED
        BY <1>9, <3>3, <1>q, <4>1, SendTypes DEF TriggerSend, Kinds, Request
    <3> QED
      BY <1>9, <3>1, <3>2, <3>3 DEF TriggerSend, Triggers
  <2> QED
    BY <1>9, <2>1, ReplyTypes
    DEF TriggerSend, RowTypes, ActorTypes, HistoryTypes, content, errors, history
<1> QED
  BY <1>1, <1>2, <1>3, <1>4, <1>5, <1>6, <1>7, <1>8, <1>9 DEF RequestStep

\* A new row has no video and no error of its own.
LEMMA NewRowTypes ==
  ASSUME RowTypes, NewRow
  PROVE  /\ version' \in Nat /\ edition' \in Nat /\ reel' \in BOOLEAN
         /\ genError' \in BOOLEAN /\ pubError' \in BOOLEAN
<1>1. version' \in Nat /\ edition' \in Nat
  BY DEF NewRow, RowTypes
<1>2. reel' \in BOOLEAN /\ genError' \in BOOLEAN /\ pubError' \in BOOLEAN
  BY Zenon DEF NewRow, RowTypes
<1> QED
  BY <1>1, <1>2

\* The other entries of the API: new content, the failure of a request, the
\* message that asks for a generation.
LEMMA ApiTypes ==
  ASSUME TypeOK, \/ \E r \in Requests : ApiFails(r)
                 \/ CreateContent \/ SendGeneration
  PROVE  TypeOK'
<1> USE DEF TypeOK
<1>1. ASSUME NEW r \in Requests, ApiFails(r) PROVE TypeOK'
  BY <1>1, ReplyTypes
  DEF ApiFails, RowTypes, ActorTypes, HistoryTypes, content, errors, history
<1>2. CASE CreateContent
  BY <1>2, NewRowTypes
  DEF CreateContent, RowTypes, ActorTypes, HistoryTypes, history
<1>3. CASE SendGeneration
  BY <1>3, SendTypes
  DEF SendGeneration, RowTypes, ActorTypes, HistoryTypes, content, errors, history, Kinds
<1> QED
  BY <1>1, <1>2, <1>3

\* The steps of a job, those that fail included.
LEMMA JobStepTypes ==
  ASSUME TypeOK, NEW j \in Jobs, JobStep(j) \/ TimesOut(j)
  PROVE  TypeOK'
<1> USE DEF TypeOK
<1>j. job[j] \in Job
  BY DEF ActorTypes
<1>1. CASE PickUp(j)
  <2>1. job' \in [Jobs -> Job]
    <3>1. CASE Acked(j)
      BY <3>1, AckedTypes
    <3>2. CASE Goto(j, "running")
      BY <3>2, GotoTypes DEF JobSteps
    <3>3. CASE job' = [job EXCEPT ![j].kind = "video"]
      BY <3>3, <1>j DEF ActorTypes, Job, Kinds
    <3> QED
      BY <1>1, <3>1, <3>2, <3>3 DEF PickUp
  <2> QED
    BY <1>1, <2>1
    DEF PickUp, RowTypes, ActorTypes, HistoryTypes, content, errors, history
<1>2. CASE Claim(j)
  BY <1>2, GotoTypes
  DEF Claim, RowTypes, ActorTypes, HistoryTypes, content, errors, history, JobSteps,
      Statuses
<1>3. CASE Render(j)
  BY <1>3, GotoTypes
  DEF Render, RowTypes, ActorTypes, HistoryTypes, content, errors, history, JobSteps,
      Statuses
<1>4. CASE Store(j)
  <2>1. approvals' \in Seq(Approval)
    BY <1>4, StoreResolves DEF Store, RowTypes
  <2>2. job' \in [Jobs -> Job]
    <3> DEFINE filled == [job[j] EXCEPT !.step = Stored(j), !.ver = edition + 1]
    <3>a. Stored(j) \in JobSteps /\ edition + 1 \in Nat
      BY DEF Stored, JobSteps, RowTypes
    <3>1. filled \in Job
      BY <1>j, <3>a DEF Job
    <3>2. job' = [job EXCEPT ![j] = filled]
      BY <1>4 DEF Store
    <3> QED
      BY <3>1, <3>2 DEF ActorTypes
  <2> QED
    BY <1>4, <2>1, <2>2, NewRowTypes
    DEF Store, RowTypes, ActorTypes, HistoryTypes, history
<1>5. CASE LinkVideo(j)
  BY <1>5, GotoTypes
  DEF LinkVideo, RowTypes, ActorTypes, HistoryTypes, errors, history, JobSteps
<1>6. CASE ToReview(j)
  BY <1>6, GotoTypes
  DEF ToReview, RowTypes, ActorTypes, HistoryTypes, content, errors, history, JobSteps,
      Statuses
<1>7. CASE AskApproval(j) \/ EditAsks(j)
  <2>1. Goto(j, "settling") \/ Goto(j, "releasing")
    BY <1>7 DEF AskApproval, EditAsks
  <2>2. job' \in [Jobs -> Job]
    BY <2>1, GotoTypes DEF JobSteps
  <2>3. approvals' \in Seq(Approval)
    BY <1>7, <1>j, AskedAdds DEF AskApproval, EditAsks, RowTypes, Job
  <2>4. faults' \in Nat
    BY <1>7 DEF AskApproval, EditAsks, AskFails, HistoryTypes
  <2> QED
    BY <1>7, <2>2, <2>3, <2>4
    DEF AskApproval, EditAsks, RowTypes, ActorTypes, HistoryTypes, content, errors, history
<1>8. CASE PickUpEdit(j)
  BY <1>8, GotoTypes
  DEF PickUpEdit, RowTypes, ActorTypes, HistoryTypes, content, errors, history, JobSteps,
      Statuses
<1>9. CASE Edit(j)
  <2>1. Goto(j, "edited") \/ Goto(j, "releasing")
    BY <1>9 DEF Edit
  <2>2. job' \in [Jobs -> Job]
    BY <2>1, GotoTypes DEF JobSteps
  <2>3. edition' \in Nat /\ faults' \in Nat
    BY <1>9 DEF Edit, RowTypes, HistoryTypes
  <2> QED
    BY <1>9, <2>2, <2>3
    DEF Edit, RowTypes, ActorTypes, HistoryTypes, errors, history
<1>10. CASE EditChecks(j)
  <2>1. Goto(j, "asking") \/ Goto(j, "releasing")
    BY <1>10 DEF EditChecks
  <2> QED
    BY <1>10, <2>1, GotoTypes
    DEF EditChecks, RowTypes, ActorTypes, HistoryTypes, content, errors, history, JobSteps
<1>11. CASE Release(j)
  <2>1. status' \in Statuses
    BY <1>11, <1>j DEF Release, RowTypes, Statuses, Job
  <2> QED
    BY <1>11, <2>1, GotoTypes
    DEF Release, RowTypes, ActorTypes, HistoryTypes, content, errors, history, JobSteps
<1>12. CASE Settle(j)
  BY <1>12, AckedTypes
  DEF Settle, RowTypes, ActorTypes, HistoryTypes, content, errors, history
<1>13. CASE VideoFails(j)
  BY <1>13, GotoTypes
  DEF VideoFails, RowTypes, ActorTypes, HistoryTypes, content, errors, history, JobSteps,
      Statuses
<1>14. CASE WorkflowFails(j)
  <2>1. Goto(j, "failing") \/ Goto(j, "reported")
    BY <1>14 DEF WorkflowFails
  <2> QED
    BY <1>14, <2>1, GotoTypes
    DEF WorkflowFails, RowTypes, ActorTypes, HistoryTypes, content, errors, history, JobSteps
<1>15. CASE AckFailure(j)
  BY <1>15, GotoTypes
  DEF AckFailure, RowTypes, ActorTypes, HistoryTypes, content, errors, history, JobSteps
<1>16. CASE ReleaseStuck(j)
  <2>1. job' \in [Jobs -> Job]
    BY <1>16, GotoTypes, AckedTypes DEF ReleaseStuck, JobSteps
  <2>2. status' \in Statuses /\ genError' \in BOOLEAN
    BY <1>16 DEF ReleaseStuck, RowTypes, Statuses
  <2> QED
    BY <1>16, <2>1, <2>2
    DEF ReleaseStuck, RowTypes, ActorTypes, HistoryTypes, content, history
<1>17. CASE TimesOut(j)
  <2>1. job' \in [Jobs -> Job]
    BY <1>17, GotoTypes DEF TimesOut, JobSteps
  <2>2. status' \in Statuses /\ genError' \in BOOLEAN
    BY <1>17 DEF TimesOut, RowTypes, Statuses
  <2> QED
    BY <1>17, <2>1, <2>2
    DEF TimesOut, RowTypes, ActorTypes, HistoryTypes, content, history
<1> QED
  BY <1>1, <1>2, <1>3, <1>4, <1>5, <1>6, <1>7, <1>8, <1>9, <1>10, <1>11, <1>12, <1>13,
     <1>14, <1>15, <1>16, <1>17
  DEF JobStep

\* The death of the worker and the publisher.
LEMMA OthersTypes ==
  ASSUME TypeOK, WorkerDies \/ PublisherStep
  PROVE  TypeOK'
<1> USE DEF TypeOK
<1>1. CASE WorkerDies
  <2>1. job' \in [Jobs -> Job]
    BY <1>1 DEF WorkerDies, ActorTypes, NoJob, Job, Kinds, JobSteps
  <2> QED
    BY <1>1, <2>1
    DEF WorkerDies, RowTypes, ActorTypes, HistoryTypes, content, errors, history
<1>2. CASE PublisherStep
  <2>1. CASE PublishStart
    BY <2>1
    DEF PublishStart, Statuses, RowTypes, ActorTypes, HistoryTypes, content, errors, history
  <2>2. CASE PublishSucceeds
    BY <2>2
    DEF PublishSucceeds, Statuses, RowTypes, ActorTypes, HistoryTypes, content, errors, history
  <2>3. CASE PublishFails
    <3>1. pubError' \in BOOLEAN
      BY <2>3, Zenon DEF PublishFails
    <3> QED
      BY <2>3, <3>1
      DEF PublishFails, Statuses, RowTypes, ActorTypes, HistoryTypes, content, history
  <2>4. CASE PublishGivesUp
    BY <2>4
    DEF PublishGivesUp, Statuses, RowTypes, ActorTypes, HistoryTypes, content, errors, history
  <2> QED
    BY <1>2, <2>1, <2>2, <2>3, <2>4 DEF PublisherStep
<1> QED
  BY <1>1, <1>2

\* Every step keeps the types, of every actor.
LEMMA TypeStep == TypeOK /\ [Next]_vars => TypeOK'
<1> SUFFICES ASSUME TypeOK, [Next]_vars PROVE TypeOK'
  OBVIOUS
<1>1. CASE UNCHANGED vars
  BY <1>1
  DEF vars, content, errors, history, TypeOK, RowTypes, ActorTypes, HistoryTypes
<1>2. CASE Next
  BY <1>2, NewRequestTypes, RequestStepTypes, ApiTypes, JobStepTypes, OthersTypes DEF Next
<1> QED
  BY <1>1, <1>2

\* The rows, the requests and the jobs of the review flow have their types in
\* every reachable state, whatever operations, faults and duplicates occur.
THEOREM Typing == Spec => []TypeOK
  BY InitTypes, TypeStep, PTL DEF Spec

-----------------------------------------------------------------------------
(* Nothing goes to the publisher before an approval. *)

\* What only the publisher and a decision may write, with "failed", which the
\* page takes for a failed publish when no generation error is recorded.
Handed == {"scheduled", "publishing", "published", "failed"}

\* Nobody puts an item in the publisher's hands without a decision: a PUT never
\* does, and a button does so only as the retry of a failed item.
NoHandScheduling ==
  /\ \A c \in Puts : c[2] \notin Handed
  /\ \A c \in Clicks : /\ c[2] \notin Handed \ {"scheduled"}
                       /\ c[2] = "scheduled" => c[1] = "failed"

\* A request to change the status does not hand the item over.
Harmless(q) == q.op \in {"patch", "put"} => q.to \notin Handed

\* Before the first approval the publisher never had the item, and what failed
\* was a generation, so no page offers to retry the publish.
Untouched ==
  /\ handed = {} /\ pub = 0 /\ pubError = FALSE
  /\ status \notin Handed \ {"failed"}
  /\ status = "failed" => genError = TRUE
  /\ \A r \in Requests : Harmless(req[r])
Unhanded == ~vetted => Untouched

\* An approval is the end of the first phase: what follows is not restricted.
LEMMA OnceVetted == vetted /\ [Next]_vars => vetted'
<1> SUFFICES ASSUME vetted, [Next]_vars PROVE vetted'
  OBVIOUS
<1> QED
  BY ZenonT(60) DEF Next, vars, history, NewRequest, RequestStep, JobStep, PublisherStep, DecideClick,
     PatchClick, PutRequest, TriggerRead, DecideRead, DecideValidate, DecideCommit,
     UpdateRead, UpdateCommit, Reopen, ReopenCommit, TriggerCommit, TriggerSend, ApiFails,
     CreateContent, SendGeneration, PickUp, Claim, Render, Store, LinkVideo, ToReview,
     AskApproval, PickUpEdit, Edit, EditChecks, EditAsks, Release, Settle, VideoFails,
     WorkflowFails, AckFailure, ReleaseStuck, TimesOut, WorkerDies, PublishStart,
     PublishSucceeds, PublishFails, PublishGivesUp

\* A slot that is freed or goes on carries no new target.
LEMMA StaysHarmless ==
  ASSUME ActorTypes, \A q \in Requests : Harmless(req[q]), NEW r \in Requests,
         Reply(r) \/ \E s \in ReqSteps : GoOn(r, s)
  PROVE  \A q \in Requests : Harmless(req'[q])
  BY DEF ActorTypes, Request, Harmless, Reply, GoOn, NoReq

\* A click before the first approval does not schedule the item.
LEMMA ClickUntouched ==
  ASSUME TypeOK, NoHandScheduling, Untouched, NEW r \in Requests, NewRequest(r)
  PROVE  Untouched'
<1> USE DEF TypeOK
<1>1. ASSUME NEW a \in DOMAIN approvals, NEW v \in Verdicts, DecideClick(r, a, v)
      PROVE  Untouched'
  BY <1>1 DEF DecideClick, Untouched, Harmless, ActorTypes, content, errors, history
<1>2. ASSUME NEW st \in Statuses, PatchClick(r, st) PROVE Untouched'
  <2>1. <<status, st>> \in Clicks /\ (status = "failed" => ~genError \/ pubError)
    BY <1>2 DEF PatchClick, RetryShown
  <2>2. st \notin Handed
    BY <2>1 DEF NoHandScheduling, Untouched, Handed
  <2>3. \A q \in Requests : Harmless(req'[q])
    BY <1>2, <2>2 DEF PatchClick, NoReq, Untouched, Harmless, ActorTypes
  <2> QED
    BY <1>2, <2>3 DEF PatchClick, Untouched, content, errors, history
<1>3. ASSUME NEW st \in Statuses, PutRequest(r, st) PROVE Untouched'
  <2>1. st \notin Handed
    BY <1>3 DEF PutRequest, NoHandScheduling
  <2>2. \A q \in Requests : Harmless(req'[q])
    BY <1>3, <2>1 DEF PutRequest, NoReq, Untouched, Harmless, ActorTypes
  <2> QED
    BY <1>3, <2>2 DEF PutRequest, Untouched, content, errors, history
<1>4. ASSUME NEW op \in Triggers, TriggerRead(r, op) PROVE Untouched'
  <2>1. \A q \in Requests : Harmless(req'[q])
    BY <1>4 DEF TriggerRead, NoReq, Untouched, Harmless, ActorTypes, Triggers
  <2> QED
    BY <1>4, <2>1 DEF TriggerRead, Untouched, content, errors, history
<1> QED
  BY <1>1, <1>2, <1>3, <1>4 DEF NewRequest

\* A step of a request leaves the item alone, or is the first approval.
LEMMA RequestUntouched ==
  ASSUME TypeOK, Untouched, NEW r \in Requests, RequestStep(r) \/ ApiFails(r),
         ~vetted'
  PROVE  Untouched'
<1> USE DEF TypeOK, Untouched
<1>1. CASE DecideRead(r) \/ DecideValidate(r) \/ ApiFails(r)
  <2>1. GoOn(r, "read") \/ GoOn(r, "decided") \/ Reply(r)
    BY <1>1 DEF DecideRead, DecideValidate, ApiFails
  <2>2. \A q \in Requests : Harmless(req'[q])
    BY <2>1, StaysHarmless DEF ReqSteps
  <2> QED
    BY <1>1, <2>2 DEF DecideRead, DecideValidate, ApiFails, content, errors, history
<1>2. CASE DecideCommit(r)
  <2>1. req[r].to # "approved"
    BY <1>2 DEF DecideCommit
  <2>2. status' = "reworking"
    BY <1>2, <2>1 DEF DecideCommit, Target
  <2>3. \A q \in Requests : Harmless(req'[q])
    BY <1>2, StaysHarmless DEF DecideCommit
  <2> QED
    BY <1>2, <2>2, <2>3 DEF DecideCommit, errors, Handed
<1>3. CASE UpdateRead(r)
  <2>1. \A q \in Requests : Harmless(req'[q])
    BY <1>3 DEF UpdateRead, ActorTypes, Request, Harmless
  <2> QED
    BY <1>3, <2>1 DEF UpdateRead, content, errors, history
<1>4. CASE UpdateCommit(r)
  <2>1. status' = status \/ status' \notin Handed
    BY <1>4 DEF UpdateCommit, Harmless
  <2>2. GoOn(r, "committed") \/ Reply(r)
    BY <1>4 DEF UpdateCommit
  <2>3. \A q \in Requests : Harmless(req'[q])
    BY <2>2, StaysHarmless DEF ReqSteps
  <2> QED
    BY <1>4, <2>1, <2>3 DEF UpdateCommit, errors, history, Handed
<1>5. CASE Reopen(r) \/ ReopenCommit(r)
  <2>1. \A q \in Requests : Harmless(req'[q])
    BY <1>5, StaysHarmless DEF Reopen, ReopenCommit, ActorTypes, Request, Harmless
  <2> QED
    BY <1>5, <2>1 DEF Reopen, ReopenCommit, content, errors, history
<1>6. CASE TriggerCommit(r)
  <2>1. status' = status \/ status' \in {"queued", "working"}
    BY <1>6 DEF TriggerCommit, Flipped
  <2>2. \A q \in Requests : Harmless(req'[q])
    BY <1>6, StaysHarmless DEF TriggerCommit, ReqSteps
  <2> QED
    BY <1>6, <2>1, <2>2 DEF TriggerCommit, errors, history, Handed
<1>7. CASE TriggerSend(r)
  <2>1. \A q \in Requests : Harmless(req'[q])
    BY <1>7, StaysHarmless DEF TriggerSend
  <2> QED
    BY <1>7, <2>1 DEF TriggerSend, errors, history
<1> QED
  BY <1>1, <1>2, <1>3, <1>4, <1>5, <1>6, <1>7 DEF RequestStep

\* The worker never hands the item over, and when it fails it, says so.
LEMMA WorkerUntouched ==
  ASSUME TypeOK, Untouched,
         \/ \E j \in Jobs : JobStep(j) \/ TimesOut(j)
         \/ WorkerDies \/ CreateContent \/ SendGeneration
  PROVE  Untouched'
<1> USE DEF TypeOK, Untouched
<1>1. req' = req /\ pub' = pub /\ handed' = handed
  BY DEF JobStep, PickUp, Claim, Render, Store, LinkVideo, ToReview, AskApproval,
     PickUpEdit, Edit, EditChecks, EditAsks, Release, Settle, VideoFails, WorkflowFails,
     AckFailure, ReleaseStuck, TimesOut, WorkerDies, CreateContent, SendGeneration, history
<1>2. pubError' = FALSE
  BY DEF JobStep, PickUp, Claim, Render, Store, LinkVideo, ToReview, AskApproval,
     PickUpEdit, Edit, EditChecks, EditAsks, Release, Settle, VideoFails, WorkflowFails,
     AckFailure, ReleaseStuck, TimesOut, WorkerDies, CreateContent, SendGeneration, NewRow,
     errors
<1>3. \/ status' = "failed" /\ genError' = TRUE
      \/ status' = status /\ genError' = genError
      \/ status' \notin Handed
  <2>1. CASE WorkerDies \/ CreateContent \/ SendGeneration
    BY <2>1 DEF WorkerDies, CreateContent, SendGeneration, NewRow, errors
  <2>2. ASSUME NEW j \in Jobs, JobStep(j) \/ TimesOut(j)
        PROVE  \/ status' = "failed" /\ genError' = TRUE
               \/ status' = status /\ genError' = genError
               \/ status' \notin Handed
    <3>1. job[j].prior \notin Handed
      BY DEF ActorTypes, Job, Handed
    <3> QED
      BY <2>2, <3>1
      DEF JobStep, PickUp, Claim, Render, Store, LinkVideo, ToReview, AskApproval,
          PickUpEdit, Edit, EditChecks, EditAsks, Release, Settle, VideoFails,
          WorkflowFails, AckFailure, ReleaseStuck, TimesOut, NewRow, errors, Handed
  <2> QED
    BY <2>1, <2>2
<1> QED
  BY <1>1, <1>2, <1>3 DEF Handed

\* The publisher finds nothing to claim and holds nothing.
LEMMA PublisherUntouched ==
  ASSUME TypeOK, Untouched PROVE ~PublisherStep
  BY DEF TypeOK, Untouched, Handed, PublisherStep, PublishStart, PublishSucceeds,
     PublishFails, PublishGivesUp

\* Every step keeps the first phase as it is until an approval ends it.
LEMMA UnhandedStep ==
  TypeOK /\ NoHandScheduling /\ Unhanded /\ [Next]_vars => Unhanded'
<1> SUFFICES ASSUME TypeOK, NoHandScheduling, Unhanded, [Next]_vars, ~vetted'
             PROVE  Untouched'
  BY DEF Unhanded
<1>1. Untouched
  BY OnceVetted DEF Unhanded
<1>2. CASE UNCHANGED vars
  BY <1>1, <1>2 DEF vars, Untouched, errors, history
<1>3. CASE Next
  BY <1>1, <1>3, ClickUntouched, RequestUntouched, WorkerUntouched, PublisherUntouched
  DEF Next
<1> QED
  BY <1>2, <1>3

\* Nothing goes to the publisher before a reviewer approved some version of the item:
\* whatever requests, jobs and publishes overlap, whatever fails and is
\* delivered again, as long as nobody schedules the item by hand.
THEOREM ApprovalFirst ==
  ASSUME NoHandScheduling PROVE Spec => []NothingAutoPublishes
<1>1. Init => Unhanded
  BY DEF Init, Unhanded, Untouched, Harmless, NoReq, Handed
<1>2. TypeOK /\ Unhanded /\ [Next]_vars => Unhanded'
  BY UnhandedStep
<1>3. Unhanded => NothingAutoPublishes
  BY DEF Unhanded, Untouched, NothingAutoPublishes
<1> QED
  BY <1>1, <1>2, <1>3, Typing, PTL DEF Spec

-----------------------------------------------------------------------------
(* A subscription works at one message at a time. *)

\* Of two messages of a subscription, one at least waits.
OnePerLane ==
  \A j, k \in Jobs :
    j # k /\ job[j].kind # "none" /\ job[k].kind # "none" /\ Lane(j) = Lane(k)
      => job[j].step = "sent" \/ job[k].step = "sent"

\* A job moves on when it is at work, or when it is picked up.
LEMMA GotoLane ==
  ASSUME ActorTypes, OnePerLane, NEW j \in Jobs, NEW s \in JobSteps, Goto(j, s),
         job[j].step # "sent" \/ LaneFree(j) \/ s = "sent"
  PROVE  OnePerLane'
<1>1. \A k \in Jobs : /\ job'[k].kind = job[k].kind /\ Lane(k)' = Lane(k)
                      /\ k # j => job'[k].step = job[k].step
                      /\ k = j => job'[k].step = s
  BY DEF ActorTypes, Job, Goto, Lane
<1>2. \A k \in Jobs :
        k # j /\ job[j].kind # "none" /\ job[k].kind # "none" /\ Lane(j) = Lane(k)
          => s = "sent" \/ job[k].step = "sent"
  BY DEF OnePerLane, LaneFree, Live, Lane
<1> QED
  BY <1>1, <1>2 DEF OnePerLane

\* A slot that is freed disturbs nobody.
LEMMA AckedLane ==
  ASSUME ActorTypes, OnePerLane, NEW j \in Jobs, Acked(j)
  PROVE  OnePerLane'
<1>1. \A k \in Jobs : /\ k = j => job'[k].kind = "none"
                      /\ k # j => job'[k] = job[k]
  BY DEF ActorTypes, Acked, NoJob
<1> QED
  BY <1>1 DEF OnePerLane, Lane

\* A message that is sent waits.
LEMMA SendLane ==
  ASSUME ActorTypes, OnePerLane, NEW kind, NEW ver, NEW prior, Send(kind, ver, prior)
  PROVE  OnePerLane'
<1>1. PICK j \in Jobs :
        job' = [job EXCEPT ![j] = [kind |-> kind, step |-> "sent", ver |-> ver,
                                   prior |-> prior]]
  BY DEF Send
<1>2. \A k \in Jobs : /\ k = j => job'[k].step = "sent"
                      /\ k # j => job'[k] = job[k]
  BY <1>1 DEF ActorTypes
<1> QED
  BY <1>2 DEF OnePerLane, Lane

\* A step of a job starts at its own place and leaves the other jobs alone.
LEMMA JobLane ==
  ASSUME ActorTypes, OnePerLane, NEW j \in Jobs, JobStep(j) \/ TimesOut(j)
  PROVE  OnePerLane'
<1>1. CASE PickUp(j)
  <2>1. CASE Acked(j)
    BY <2>1, AckedLane
  <2>2. CASE Goto(j, "running")
    BY <1>1, <2>2, GotoLane DEF PickUp, JobSteps
  <2>3. CASE job' = [job EXCEPT ![j].kind = "video"]
    <3>1. \A k \in Jobs : /\ k = j => job'[k].step = "sent"
                          /\ k # j => job'[k] = job[k]
      BY <1>1, <2>3 DEF PickUp, ActorTypes, Job
    <3> QED
      BY <3>1 DEF OnePerLane, Lane
  <2> QED
    BY <1>1, <2>1, <2>2, <2>3 DEF PickUp
<1>2. CASE Store(j)
  <2>1. \A k \in Jobs : /\ job'[k].kind = job[k].kind
                        /\ k # j => job'[k].step = job[k].step
    BY <1>2 DEF Store, ActorTypes, Job
  <2>2. job[j].step # "sent"
    BY <1>2 DEF Store, Finished
  <2> QED
    BY <2>1, <2>2 DEF OnePerLane, Lane
<1>3. CASE PickUpEdit(j)
  BY <1>3, GotoLane DEF PickUpEdit, JobSteps
<1>4. CASE Settle(j) \/ (ReleaseStuck(j) /\ Acked(j))
  BY <1>4, AckedLane DEF Settle
<1>5. CASE ~(PickUp(j) \/ Store(j) \/ PickUpEdit(j) \/ Settle(j)
             \/ (ReleaseStuck(j) /\ Acked(j)))
  <2>1. \E s \in JobSteps : Goto(j, s)
    BY <1>5
    DEF JobStep, Claim, Render, LinkVideo, ToReview, AskApproval, Edit, EditChecks,
        EditAsks, Release, VideoFails, WorkflowFails, AckFailure, ReleaseStuck, TimesOut,
        JobSteps
  <2>2. job[j].step # "sent"
    BY <1>5
    DEF JobStep, Claim, Render, LinkVideo, ToReview, AskApproval, Edit, EditChecks,
        EditAsks, Release, VideoFails, WorkflowFails, AckFailure, ReleaseStuck, TimesOut
  <2> QED
    BY <2>1, <2>2, GotoLane
<1> QED
  BY <1>1, <1>2, <1>3, <1>4, <1>5

\* No step of anybody starts a second job of a subscription.
LEMMA LaneStep == TypeOK /\ OnePerLane /\ [Next]_vars => OnePerLane'
<1> SUFFICES ASSUME ActorTypes, OnePerLane, [Next]_vars PROVE OnePerLane'
  BY DEF TypeOK
<1>1. CASE job' = job
  BY <1>1 DEF OnePerLane, Lane
<1>2. CASE \E r \in Requests : TriggerSend(r)
  BY <1>2, SendLane DEF TriggerSend
<1>3. CASE SendGeneration
  BY <1>3, SendLane DEF SendGeneration
<1>4. CASE \E j \in Jobs : JobStep(j) \/ TimesOut(j)
  BY <1>4, JobLane
<1>5. CASE WorkerDies
  <2>1. \A j \in Jobs : job'[j].kind = "none" \/ job'[j].step = "sent"
    BY <1>5 DEF WorkerDies, NoJob, ActorTypes, Job
  <2> QED
    BY <2>1 DEF OnePerLane
<1>6. CASE ~(job' = job \/ SendGeneration \/ WorkerDies
             \/ (\E r \in Requests : TriggerSend(r))
             \/ (\E j \in Jobs : JobStep(j) \/ TimesOut(j)))
  BY <1>6
  DEF Next, vars, NewRequest, RequestStep, PublisherStep, DecideClick, PatchClick,
      PutRequest, TriggerRead, DecideRead, DecideValidate, DecideCommit, UpdateRead,
      UpdateCommit, Reopen, ReopenCommit, TriggerCommit, ApiFails, CreateContent,
      PublishStart, PublishSucceeds, PublishFails, PublishGivesUp
<1> QED
  BY <1>1, <1>2, <1>3, <1>4, <1>5, <1>6

\* The worker never handles two messages of one subscription at a time, however
\* many are outstanding, repeated or redelivered: the premise of everything the
\* jobs read and write without a lock.
THEOREM OneJobPerLane == Spec => []OnePerLane
<1>1. Init => OnePerLane
  BY DEF Init, OnePerLane, NoJob
<1> QED
  BY <1>1, LaneStep, Typing, PTL DEF Spec

-----------------------------------------------------------------------------
(* An open approval is about the current row. *)

\* The rows of the item are written by one subscription: no row is created by
\* hand, no approval made from an old one by a PATCH or by a regeneration, and
\* only a reel is rendered.
OneWriter ==
  /\ Ops \cap {"create", "patch", "regen"} = {}
  /\ IsReel \/ "render" \notin Ops

\* The requests and the messages there can be then.
Admitted(q) ==
  /\ q.op \notin {"patch", "regen"}
  /\ q.op = "render" => IsReel
Carried(q) ==
  /\ q.kind # "regen" /\ q.step \notin {"edited", "asking"}
  /\ IsReel => q.kind # "content" \/ q.step = "sent"
  /\ ~IsReel => q.kind # "video"
AsPlanned ==
  /\ \A r \in Requests : Admitted(req[r])
  /\ \A j \in Jobs : Carried(job[j])

\* Between its insert and its approval a job's row is the current one.
Unasked == {"inserted", "stored", "reviewed"}
TailIsCurrent ==
  \A j \in Jobs :
    job[j].step \in Unasked => Generates(j) /\ job[j].ver = version

\* The step of a request keeps to what is admitted.
LEMMA RequestPlanned ==
  ASSUME TypeOK, OneWriter, AsPlanned, NEW r \in Requests,
         NewRequest(r) \/ RequestStep(r) \/ ApiFails(r)
  PROVE  AsPlanned'
<1> USE DEF TypeOK, AsPlanned
<1>1. CASE NewRequest(r)
  <2>1. job' = job
    BY <1>1 DEF NewRequest, DecideClick, PatchClick, PutRequest, TriggerRead
  <2>2. PICK new : Admitted(new) /\ req' = [req EXCEPT ![r] = new]
    <3>1. ASSUME NEW a \in DOMAIN approvals, NEW v \in Verdicts, DecideClick(r, a, v)
          PROVE  \E new : Admitted(new) /\ req' = [req EXCEPT ![r] = new]
      BY <3>1 DEF DecideClick, Admitted
    <3>2. ASSUME NEW st \in Statuses, PatchClick(r, st) \/ PutRequest(r, st)
          PROVE  \E new : Admitted(new) /\ req' = [req EXCEPT ![r] = new]
      BY <3>2 DEF PatchClick, PutRequest, OneWriter, Admitted, NoReq
    <3>3. ASSUME NEW op \in Triggers, TriggerRead(r, op)
          PROVE  \E new : Admitted(new) /\ req' = [req EXCEPT ![r] = new]
      BY <3>3 DEF TriggerRead, OneWriter, Admitted, NoReq
    <3> QED
      BY <1>1, <3>1, <3>2, <3>3 DEF NewRequest
  <2>3. \A q \in Requests : Admitted(req'[q])
    BY <2>2 DEF ActorTypes
  <2> QED
    BY <2>1, <2>3
<1>2. ASSUME RequestStep(r) \/ ApiFails(r) PROVE \A q \in Requests : Admitted(req'[q])
  <2>1. \/ Reply(r) \/ \E s \in ReqSteps : GoOn(r, s)
        \/ UpdateRead(r) \/ Reopen(r)
    BY <1>2
    DEF RequestStep, ApiFails, DecideRead, DecideValidate, DecideCommit, UpdateCommit,
        ReopenCommit, TriggerCommit, TriggerSend, ReqSteps
  <2> QED
    BY <2>1
    DEF Reply, GoOn, UpdateRead, Reopen, NoReq, ActorTypes, Request, Admitted
<1>3. CASE TriggerSend(r)
  <2>1. PICK kind \in Kinds, ver \in Nat, prior \in Statuses :
          /\ Send(kind, ver, prior)
          /\ kind \in {"video", "rebrand"}
          /\ kind = "video" => IsReel
    <3>1. req[r].op \in {"render", "rebrand"} /\ (req[r].op = "render" => IsReel)
      BY <1>3 DEF TriggerSend, Admitted, Triggers
    <3>2. CASE req[r].op = "render"
      BY <1>3, <3>1, <3>2 DEF TriggerSend, Kinds, Statuses
    <3>3. CASE req[r].op = "rebrand"
      BY <1>3, <3>3 DEF TriggerSend, Kinds, ActorTypes, Request
    <3> QED
      BY <3>1, <3>2, <3>3
  <2>2. \A j \in Jobs : Carried(job'[j])
    BY <2>1 DEF Send, ActorTypes, Carried
  <2> QED
    BY <1>2, <1>3, <2>2 DEF RequestStep
<1>4. CASE (RequestStep(r) \/ ApiFails(r)) /\ ~TriggerSend(r)
  <2>1. job' = job
    BY <1>4
    DEF RequestStep, ApiFails, DecideRead, DecideValidate, DecideCommit, UpdateRead,
        UpdateCommit, Reopen, ReopenCommit, TriggerCommit
  <2> QED
    BY <1>2, <1>4, <2>1
<1> QED
  BY <1>1, <1>3, <1>4

\* So does the step of a job.
LEMMA JobPlanned ==
  ASSUME TypeOK, OneWriter, AsPlanned, NEW j \in Jobs, JobStep(j) \/ TimesOut(j)
  PROVE  AsPlanned'
<1> USE DEF TypeOK, AsPlanned
<1>1. req' = req
  BY DEF JobStep, PickUp, Claim, Render, Store, LinkVideo, ToReview, AskApproval,
     PickUpEdit, Edit, EditChecks, EditAsks, Release, Settle, VideoFails, WorkflowFails,
     AckFailure, ReleaseStuck, TimesOut
<1>2. \A k \in Jobs \ {j} : job'[k] = job[k]
  BY DEF JobStep, PickUp, Claim, Render, Store, LinkVideo, ToReview, AskApproval,
     PickUpEdit, Edit, EditChecks, EditAsks, Release, Settle, VideoFails, WorkflowFails,
     AckFailure, ReleaseStuck, TimesOut, Goto, Acked, ActorTypes
<1>3. Carried(job'[j])
  <2>1. CASE Acked(j)
    BY <2>1 DEF Acked, ActorTypes, NoJob, Carried
  <2>2. CASE PickUp(j) /\ ~Acked(j)
    BY <2>2 DEF PickUp, Goto, ActorTypes, Job, Generates, Carried
  <2>3. CASE Store(j)
    BY <2>3 DEF Store, Finished, Stored, ActorTypes, Job, Carried
  <2>4. CASE ~Acked(j) /\ ~PickUp(j) /\ ~Store(j)
    <3>1. PICK s : Goto(j, s) /\ s \notin {"edited", "asking"}
                   /\ (s = "sent" \/ job[j].step # "sent" \/ job[j].kind # "content")
      BY <2>4
      DEF JobStep, Claim, Render, LinkVideo, ToReview, AskApproval, PickUpEdit, Edit,
          EditChecks, EditAsks, Release, Settle, VideoFails, WorkflowFails, AckFailure,
          ReleaseStuck, TimesOut, Carried, Edits
    <3> QED
      BY <3>1 DEF Goto, ActorTypes, Job, Carried
  <2> QED
    BY <2>1, <2>2, <2>3, <2>4
<1> QED
  BY <1>1, <1>2, <1>3

\* Every step keeps to the plan.
LEMMA PlannedStep == TypeOK /\ OneWriter /\ AsPlanned /\ [Next]_vars => AsPlanned'
<1> SUFFICES ASSUME TypeOK, OneWriter, AsPlanned, [Next]_vars PROVE AsPlanned'
  OBVIOUS
<1>1. CASE UNCHANGED vars
  BY <1>1 DEF vars, AsPlanned
<1>2. CASE CreateContent \/ PublisherStep
  BY <1>2
  DEF CreateContent, PublisherStep, PublishStart, PublishSucceeds, PublishFails,
      PublishGivesUp, AsPlanned
<1>3. CASE SendGeneration
  BY <1>3 DEF SendGeneration, Send, AsPlanned, TypeOK, ActorTypes, Carried
<1>4. CASE WorkerDies
  BY <1>4 DEF WorkerDies, AsPlanned, TypeOK, ActorTypes, Job, Carried, NoJob
<1>5. CASE Next /\ ~(CreateContent \/ PublisherStep \/ SendGeneration \/ WorkerDies)
  BY <1>5, RequestPlanned, JobPlanned DEF Next
<1> QED
  BY <1>1, <1>2, <1>3, <1>4, <1>5

\* The row of a job at its tail stays the current one: another row would take
\* another job of the same subscription.
LEMMA TailStep ==
  TypeOK /\ OneWriter /\ AsPlanned /\ OnePerLane /\ TailIsCurrent /\ [Next]_vars
    => TailIsCurrent'
<1> SUFFICES ASSUME TypeOK, OneWriter, AsPlanned, OnePerLane, TailIsCurrent, [Next]_vars
             PROVE  TailIsCurrent'
  OBVIOUS
<1> USE DEF TypeOK
<1>1. CASE job' = job /\ version' = version
  BY <1>1 DEF TailIsCurrent, Generates
<1>2. ~CreateContent
  BY DEF CreateContent, OneWriter
<1>3. CASE \E r \in Requests : TriggerSend(r)
  <2>1. \A j \in Jobs : job'[j] = job[j] \/ job'[j].step = "sent"
    BY <1>3 DEF TriggerSend, Send, ActorTypes
  <2>2. version' = version
    BY <1>3 DEF TriggerSend, content
  <2> QED
    BY <2>1, <2>2 DEF TailIsCurrent, Unasked, Generates
<1>4. CASE SendGeneration \/ WorkerDies
  <2>1. \A j \in Jobs : job'[j] = job[j] \/ job'[j].step \in {"sent", "free"}
    BY <1>4 DEF SendGeneration, Send, WorkerDies, NoJob, ActorTypes, Job
  <2>2. version' = version
    BY <1>4 DEF SendGeneration, WorkerDies, content
  <2> QED
    BY <2>1, <2>2 DEF TailIsCurrent, Unasked, Generates
<1>5. ASSUME NEW j \in Jobs, Store(j) PROVE TailIsCurrent'
  <2>1. \A k \in Jobs : job[k].step \notin Unasked
    <3>1. SUFFICES ASSUME NEW k \in Jobs, job[k].step \in Unasked PROVE FALSE
      OBVIOUS
    <3>2. Generates(j) /\ Generates(k) /\ job[j].step # "sent" /\ job[k].step # "sent"
      BY <1>5, <3>1 DEF Store, Finished, Generates, TailIsCurrent, Unasked
    <3>3. j # k
      BY <1>5, <3>1 DEF Store, Finished, Unasked
    <3>4. Lane(j) = Lane(k)
      BY <3>2 DEF AsPlanned, Carried, Generates, Lane
    <3> QED
      BY <3>2, <3>3, <3>4 DEF OnePerLane, Generates
  <2>2. job'[j].kind = job[j].kind /\ job'[j].ver = version'
    BY <1>5 DEF Store, NewRow, ActorTypes, Job
  <2>3. \A k \in Jobs \ {j} : job'[k] = job[k]
    BY <1>5 DEF Store, ActorTypes
  <2>4. Generates(j)
    BY <1>5 DEF Store, Finished, Generates
  <2> QED
    BY <2>1, <2>2, <2>3, <2>4 DEF TailIsCurrent, Generates
<1>6. ASSUME NEW j \in Jobs, JobStep(j) \/ TimesOut(j), ~Store(j) PROVE TailIsCurrent'
  <2>1. version' = version
    BY <1>6
    DEF JobStep, PickUp, Claim, Render, LinkVideo, ToReview, AskApproval, PickUpEdit, Edit,
        EditChecks, EditAsks, Release, Settle, VideoFails, WorkflowFails, AckFailure,
        ReleaseStuck, TimesOut, content
  <2>2. CASE Acked(j)
    BY <2>1, <2>2 DEF Acked, ActorTypes, NoJob, TailIsCurrent, Unasked, Generates
  <2>3. CASE PickUp(j) /\ ~Acked(j)
    BY <2>1, <2>3 DEF PickUp, Goto, ActorTypes, Job, TailIsCurrent, Unasked, Generates
  <2>4. CASE ~Acked(j) /\ ~PickUp(j)
    <3>1. PICK s : Goto(j, s) /\ (s \notin Unasked \/ job[j].step \in Unasked)
      BY <1>6, <2>4
      DEF JobStep, Claim, Render, LinkVideo, ToReview, AskApproval, PickUpEdit, Edit,
          EditChecks, EditAsks, Release, Settle, VideoFails, WorkflowFails, AckFailure,
          ReleaseStuck, TimesOut, Unasked
    <3>2. \A k \in Jobs : /\ job'[k].kind = job[k].kind /\ job'[k].ver = job[k].ver
                          /\ job'[k].step \in Unasked => job[k].step \in Unasked
      BY <3>1 DEF Goto, ActorTypes, Job
    <3> QED
      BY <2>1, <3>2 DEF TailIsCurrent, Generates
  <2> QED
    BY <2>2, <2>3, <2>4
<1>7. CASE ~(job' = job /\ version' = version) /\ ~SendGeneration /\ ~WorkerDies
           /\ ~(\E r \in Requests : TriggerSend(r))
           /\ ~(\E j \in Jobs : JobStep(j) \/ TimesOut(j))
  BY <1>2, <1>7, ZenonT(60)
  DEF Next, vars, NewRequest, RequestStep, PublisherStep, DecideClick, PatchClick,
      PutRequest, TriggerRead, DecideRead, DecideValidate, DecideCommit, UpdateRead,
      UpdateCommit, Reopen, ReopenCommit, TriggerCommit, ApiFails, PublishStart,
      PublishSucceeds, PublishFails, PublishGivesUp, content
<1> QED
  BY <1>1, <1>3, <1>4, <1>5, <1>6, <1>7

\* What is asked is asked by a job at its tail, and a new row closes the rest.
LEMMA StaleStep ==
  TypeOK /\ OneWriter /\ AsPlanned /\ TailIsCurrent /\ NoStaleApproval /\ [Next]_vars
    => NoStaleApproval'
<1> SUFFICES ASSUME TypeOK, OneWriter, AsPlanned, TailIsCurrent, NoStaleApproval,
                    [Next]_vars
             PROVE  NoStaleApproval'
  OBVIOUS
<1>a. approvals \in Seq(Approval)
  BY DEF TypeOK, RowTypes
<1>b. Len(approvals) \in Nat /\ DOMAIN approvals = 1..Len(approvals)
  BY <1>a, LenProperties
<1>1. CASE approvals' = approvals /\ version' = version
  BY <1>1 DEF NoStaleApproval, Pending
<1>2. ASSUME NEW r \in Requests, DecideCommit(r) PROVE NoStaleApproval'
  <2>1. req[r].to \in Verdicts /\ req[r].ref \in Nat
    BY <1>2 DEF DecideCommit, TypeOK, ActorTypes, Sensible, Request
  <2>2. approvals' = [approvals EXCEPT ![req[r].ref].state = req[r].to]
        /\ version' = version
    BY <1>2 DEF DecideCommit, content
  <2>3. /\ Pending' = Pending \ {req[r].ref}
        /\ \A a \in 1..Len(approvals) : approvals'[a].ver = approvals[a].ver
    BY <1>a, <2>1, <2>2, DecidedResolves
  <2> QED
    BY <1>b, <2>2, <2>3 DEF NoStaleApproval, Pending
<1>3. ASSUME NEW j \in Jobs, AskApproval(j) PROVE NoStaleApproval'
  <2>1. job[j].ver \in Nat /\ job[j].ver = version /\ version' = version
    BY <1>3 DEF AskApproval, TailIsCurrent, Unasked, TypeOK, ActorTypes, Job, content
  <2>2. CASE approvals' = Asked(job[j].ver)
    <3>1. /\ \A a \in 1..Len(approvals) : approvals'[a] = approvals[a]
          /\ approvals'[Len(approvals) + 1] = [ver |-> job[j].ver, state |-> "pending"]
          /\ Pending' = Pending \cup {Len(approvals) + 1}
      BY <1>a, <2>1, <2>2, AskedAdds
    <3>2. \A a \in Pending : a \in 1..Len(approvals)
      BY <1>b DEF Pending
    <3> QED
      BY <2>1, <3>1, <3>2 DEF NoStaleApproval
  <2> QED
    BY <1>1, <1>3, <2>1, <2>2 DEF AskApproval
<1>4. ASSUME NEW j \in Jobs, Store(j) PROVE NoStaleApproval'
  <2>1. Pending' = {}
    BY <1>a, <1>4, StoreResolves DEF Store
  <2> QED
    BY <2>1 DEF NoStaleApproval
<1>5. /\ ~CreateContent
      /\ ~ \E r \in Requests : ReopenCommit(r)
      /\ ~ \E j \in Jobs : EditAsks(j)
  BY DEF CreateContent, OneWriter, ReopenCommit, EditAsks, AsPlanned, Admitted, Carried
<1>6. CASE ~(approvals' = approvals /\ version' = version)
           /\ ~(\E r \in Requests : DecideCommit(r))
           /\ ~(\E j \in Jobs : AskApproval(j) \/ Store(j))
  BY <1>5, <1>6, ZenonT(60)
  DEF Next, vars, NewRequest, RequestStep, JobStep, PublisherStep, DecideClick,
      PatchClick, PutRequest, TriggerRead, DecideRead, DecideValidate, UpdateRead,
      UpdateCommit, Reopen, TriggerCommit, TriggerSend, ApiFails, SendGeneration, PickUp,
      Claim, Render, LinkVideo, ToReview, PickUpEdit, Edit, EditChecks, Release, Settle,
      VideoFails, WorkflowFails, AckFailure, ReleaseStuck, TimesOut, WorkerDies,
      PublishStart, PublishSucceeds, PublishFails, PublishGivesUp, content
<1> QED
  BY <1>1, <1>2, <1>3, <1>4, <1>6

\* An open approval is about the current row, so a reviewer decides about what
\* would be published: through any number of renders, redeliveries, timeouts,
\* deaths, rebrands and overlapping decisions, as long as one subscription
\* writes the rows.
THEOREM ApprovalsAreCurrent ==
  ASSUME OneWriter PROVE Spec => []NoStaleApproval
<1>1. Init => AsPlanned /\ TailIsCurrent /\ NoStaleApproval
  BY DEF Init, AsPlanned, Admitted, Carried, TailIsCurrent, Unasked, NoStaleApproval, Pending,
     NoReq, NoJob
<1>2. TypeOK /\ AsPlanned /\ [Next]_vars => AsPlanned'
  BY PlannedStep
<1>3. TypeOK /\ AsPlanned /\ OnePerLane /\ TailIsCurrent /\ [Next]_vars => TailIsCurrent'
  BY TailStep
<1>4. TypeOK /\ AsPlanned /\ TailIsCurrent /\ NoStaleApproval /\ [Next]_vars
        => NoStaleApproval'
  BY StaleStep
<1> QED
  BY <1>1, <1>2, <1>3, <1>4, Typing, OneJobPerLane, PTL DEF Spec

-----------------------------------------------------------------------------
(* A post handled by one request at a time.  Every entry into review brings  *)
(* an approval, and the worker leaves a scheduled item alone.  It holds until *)
(* a fault repeats or cuts off a job: the invariant is about the behaviours  *)
(* before the first one.                                                     *)

\* One API request at a time (two triggers that read the same status both
\* start a job), a message only when none is outstanding, a post, the
\* operations of its content page and the three buttons that PATCH a status.
OneByOne ==
  /\ \A r, s \in Requests : r = s
  /\ ~Duplicates /\ ~IsReel
  /\ Ops \subseteq {"decide", "patch", "regen", "rebrand"}
  /\ Clicks \subseteq {<<"scheduled", "in_review">>, <<"reworking", "in_review">>,
                       <<"failed", "scheduled">>}

\* The jobs and the requests there are then.
PostSteps == {"sent", "running", "claimed", "stored", "reviewed", "settling", "failing",
              "reported", "leaving"}
EditSteps == {"sent", "claimed", "edited", "asking", "releasing", "settling"}
IsPostJob(q) ==
  \/ q.kind = "none" /\ q.step = "free"
  \/ q.kind = "content" /\ q.step \in PostSteps
  \/ q.kind = "regen" /\ q.step \in EditSteps /\ q.prior = "in_review"
  \/ /\ q.kind = "rebrand" /\ q.step \in EditSteps \ {"edited", "asking"}
     /\ q.prior \in {"in_review", "reworking"}
OnlyPosts ==
  /\ \A j \in Jobs : IsPostJob(job[j])
  /\ \A r \in Requests : req[r].op \in {"none", "decide", "patch", "regen", "rebrand"}

\* A job labours until it has put the item where it leaves it; a content job at
\* "reviewed" has, and owes the approval.
AtReview(j) == job[j].step = "reviewed"
Labours(j) == job[j].kind # "none" /\ job[j].step \notin {"reviewed", "settling"}
NoRequest == \A r \in Requests : req[r].op = "none"
NoneLabours == \A j \in Jobs : ~Labours(j)

\* One job labours, and the status shows it.
OneLabours == \A j, k \in Jobs : Labours(j) /\ Labours(k) => j = k
LabourShows ==
  \A j \in Jobs : Labours(j) =>
    /\ Edits(j) => status = "working"
    /\ job[j].kind = "content" =>
         /\ approvals = <<>> /\ NoRequest
         /\ status \in {"queued", "working"}
         /\ job[j].step \in {"sent", "running"} => status = "queued"
         /\ job[j].step \in {"claimed", "stored"} => status = "working"
ReviewShows ==
  \A j \in Jobs : AtReview(j) => status \in {"in_review", "working"} /\ approvals = <<>>

\* What each status says of the approvals and the errors.
StatusShows ==
  /\ status \in {"queued", "working", "in_review", "reworking", "scheduled", "failed"}
  /\ status = "queued" => approvals = <<>> /\ NoRequest
  /\ status = "failed" => approvals = <<>> /\ genError
  /\ status \in {"scheduled", "reworking"} => approvals # <<>>
  /\ ~pubError /\ pub = 0

\* What a request that is on its way says of them.
Patching(r) ==
  req[r].op = "patch" =>
    /\ req[r].step \in {"clicked", "read", "committed", "reopening"}
    /\ req[r].step \in {"clicked", "read"} =>
         status \in {"scheduled", "reworking"} /\ req[r].to = "in_review"
    /\ req[r].step = "read" => req[r].seen = status
    /\ req[r].step \in {"committed", "reopening"} => status = "in_review"
    /\ req[r].step = "reopening" => Pending = {}
    /\ approvals # <<>>
Resolving(r) ==
  req[r].op = "decide" =>
    /\ req[r].ref \in DOMAIN approvals
    /\ req[r].step \in {"read", "decided"} => req[r].ref \in Pending
    /\ req[r].step = "decided" => status = "in_review"
Triggering(r) ==
  req[r].op \in {"regen", "rebrand"} =>
    /\ req[r].step \in {"read", "committed"}
    /\ req[r].seen \in Allowed(req[r].op)
    /\ req[r].seen = "reworking" => approvals # <<>>
    /\ req[r].step = "read" => status = req[r].seen
    /\ req[r].step = "committed" => status = "working" /\ NoneLabours
RequestShows == \A r \in Requests : Patching(r) /\ Resolving(r) /\ Triggering(r)

\* Only the last approval is open, and an item that is in review, or goes back
\* there, has one or is about to get it.
Latest == \A a \in Pending : a = Len(approvals)
OpenOrAsked == Pending # {} \/ \E j \in Jobs : AtReview(j)
Reopening(r) == req[r].op = "patch" /\ req[r].step \in {"committed", "reopening"}
ReviewIsDue == status = "in_review" => OpenOrAsked \/ \E r \in Requests : Reopening(r)
RebrandIsDue ==
  \A r \in Requests : req[r].op = "rebrand" /\ req[r].seen = "in_review" => OpenOrAsked
EditIsDue ==
  \A j \in Jobs : Labours(j) /\ Edits(j) =>
    /\ job[j].kind = "rebrand" /\ job[j].prior = "in_review" => OpenOrAsked
    /\ job[j].prior = "reworking" => approvals # <<>>
    /\ job[j].step = "asking" => Pending = {}
    /\ job[j].kind = "regen" /\ job[j].step = "releasing" => Pending # {}

Orderly ==
  /\ OnlyPosts /\ OneLabours /\ LabourShows /\ ReviewShows /\ StatusShows
  /\ RequestShows /\ Latest /\ ReviewIsDue /\ RebrandIsDue /\ EditIsDue

\* The inductive invariant: the order holds until the first fault.
Calm == faults = 0 => Orderly

\* What the steps below start from.
Orderliness == TypeOK /\ OnePerLane /\ OneByOne /\ Orderly

\* A step of a request that changes nothing but its slot.
LEMMA OrderlySlot ==
  ASSUME Orderliness, UNCHANGED <<status, approvals, job, genError, pubError, pub>>,
         \A q \in Requests : req'[q].op \in {"none", "decide", "patch", "regen", "rebrand"},
         RequestShows', ReviewIsDue', RebrandIsDue',
         \/ NoRequest'
         \/ status # "queued" /\ \A j \in Jobs : Labours(j) => job[j].kind # "content"
  PROVE  Orderly'
<1>1. OnlyPosts' /\ OneLabours' /\ ReviewShows' /\ Latest' /\ EditIsDue'
  BY DEF Orderliness, Orderly, OnlyPosts, OneLabours, Labours, ReviewShows, AtReview,
     Latest, EditIsDue, Edits, OpenOrAsked, Pending
<1>2. LabourShows'
  BY DEF Orderliness, Orderly, LabourShows, Labours, Edits
<1>3. StatusShows'
  BY DEF Orderliness, Orderly, StatusShows
<1> QED
  BY <1>1, <1>2, <1>3 DEF Orderly

\* While a request is on its way, or an item has left the generation, no
\* content job labours; an edit labours at 'working' only.
LEMMA WhoLabours ==
  ASSUME Orderliness
  PROVE  /\ ~NoRequest => /\ status # "queued"
                         /\ \A j \in Jobs : Labours(j) => job[j].kind # "content"
         /\ approvals # <<>> => \A j \in Jobs :
                                  /\ Labours(j) => job[j].kind # "content"
                                  /\ ~AtReview(j)
         /\ status \notin {"queued", "working"} => NoneLabours
  BY DEF Orderliness, Orderly, StatusShows, LabourShows, ReviewShows, NoneLabours, Labours,
     OnlyPosts, IsPostJob, Edits

\* Where there are approvals, one is pending or the last one is decided.
LEMMA PendingIsLast ==
  ASSUME Orderliness
  PROVE  /\ DOMAIN approvals = 1..Len(approvals) /\ Len(approvals) \in Nat
         /\ approvals \in Seq(Approval)
         /\ approvals = <<>> => Pending = {}
         /\ Pending \subseteq {Len(approvals)}
         /\ approvals # <<>> => Len(approvals) \in DOMAIN approvals
         /\ \A a \in Pending : a \in DOMAIN approvals
<1>1. approvals \in Seq(Approval)
  BY DEF Orderliness, TypeOK, RowTypes
<1>2. DOMAIN approvals = 1..Len(approvals) /\ Len(approvals) \in Nat
  BY <1>1, LenProperties
<1>3. approvals # <<>> => Len(approvals) \in DOMAIN approvals
  BY <1>1, <1>2, EmptySeq
<1> QED
  BY <1>1, <1>2, <1>3 DEF Pending, Orderliness, Orderly, Latest

\* A reviewer or an operator opens a page and clicks.
LEMMA ClickOrderly ==
  ASSUME Orderliness, NEW r \in Requests, NewRequest(r)
  PROVE  Orderly'
<1>1. UNCHANGED <<status, approvals, job, genError, pubError, pub>>
  BY DEF NewRequest, DecideClick, PatchClick, PutRequest, TriggerRead, errors
<1>2. \A q \in Requests : q = r
  BY DEF Orderliness, OneByOne
<1>3. req[r] = NoReq /\ req \in [Requests -> Request]
  BY DEF NewRequest, DecideClick, PatchClick, PutRequest, TriggerRead, Orderliness, TypeOK,
     ActorTypes
<1>4. NoRequest
  BY <1>2, <1>3 DEF NoRequest, NoReq
<1>5. status # "queued" /\ \A j \in Jobs : Labours(j) => job[j].kind # "content"
  <2>1. CASE \E a \in DOMAIN approvals, v \in Verdicts : DecideClick(r, a, v)
    <3>1. approvals # <<>>
      BY <2>1
    <3>2. status # "queued"
      BY <3>1 DEF Orderliness, Orderly, StatusShows
    <3> QED
      BY <3>1, <3>2, WhoLabours
  <2>2. CASE \E st \in Statuses : PatchClick(r, st) \/ PutRequest(r, st)
    <3>1. status \in {"scheduled", "reworking", "failed"}
      BY <2>2 DEF PatchClick, PutRequest, Orderliness, OneByOne
    <3> QED
      BY <3>1, WhoLabours DEF NoneLabours
  <2>3. CASE \E op \in Triggers : TriggerRead(r, op)
    <3>1. status \in {"in_review", "reworking", "failed"}
      <4>1. PICK op \in {"regen", "rebrand"} : TriggerRead(r, op)
        BY <2>3 DEF TriggerRead, Triggers, Orderliness, OneByOne
      <4> QED
        BY <4>1 DEF TriggerRead, Allowed
    <3> QED
      BY <3>1, WhoLabours DEF NoneLabours
  <2> QED
    BY <2>1, <2>2, <2>3 DEF NewRequest
<1>6. CASE \E a \in DOMAIN approvals, v \in Verdicts : DecideClick(r, a, v)
  <2>1. PICK a \in DOMAIN approvals, v \in Verdicts : DecideClick(r, a, v)
    BY <1>6
  <2>2. /\ req'[r].op = "decide" /\ req'[r].step = "clicked" /\ req'[r].ref = a
        /\ a \in Pending
    BY <1>3, <2>1 DEF DecideClick
  <2>3. RequestShows'
    BY <1>1, <1>2, <2>2 DEF RequestShows, Patching, Resolving, Triggering
  <2>4. ReviewIsDue' /\ RebrandIsDue'
    BY <1>1, <1>2, <2>2 DEF ReviewIsDue, RebrandIsDue, OpenOrAsked, Pending, AtReview
  <2> QED
    BY <1>1, <1>2, <1>5, <2>2, <2>3, <2>4, OrderlySlot
<1>7. CASE \E st \in Statuses : PatchClick(r, st) \/ PutRequest(r, st)
  <2>1. PICK st \in Statuses : PatchClick(r, st)
    BY <1>7 DEF PutRequest, Orderliness, OneByOne
  <2>2. status \in {"scheduled", "reworking"} /\ st = "in_review"
    <3>1. status # "failed"
      BY <2>1 DEF PatchClick, RetryShown, Orderliness, Orderly, StatusShows
    <3> QED
      BY <2>1, <3>1 DEF PatchClick, Orderliness, OneByOne
  <2>3. req'[r].op = "patch" /\ req'[r].step = "clicked" /\ req'[r].to = st
    BY <1>3, <2>1 DEF PatchClick, NoReq
  <2>4. approvals # <<>>
    BY <2>2 DEF Orderliness, Orderly, StatusShows
  <2>5. RequestShows'
    BY <1>1, <1>2, <2>2, <2>3, <2>4 DEF RequestShows, Patching, Resolving, Triggering
  <2>6. ReviewIsDue' /\ RebrandIsDue'
    BY <1>1, <1>2, <2>2, <2>3 DEF ReviewIsDue, RebrandIsDue
  <2> QED
    BY <1>1, <1>2, <1>5, <2>3, <2>5, <2>6, OrderlySlot
<1>8. CASE \E op \in Triggers : TriggerRead(r, op)
  <2>1. PICK op \in {"regen", "rebrand"} : TriggerRead(r, op)
    BY <1>8 DEF TriggerRead, Triggers, Orderliness, OneByOne
  <2>2. status \in Allowed(op)
    BY <2>1 DEF TriggerRead
  <2>3. req'[r].op = op /\ req'[r].step = "read" /\ req'[r].seen = status
    BY <1>3, <2>1 DEF TriggerRead, NoReq
  <2>4. status = "reworking" => approvals # <<>>
    BY DEF Orderliness, Orderly, StatusShows
  <2>5. RequestShows'
    BY <1>1, <1>2, <2>2, <2>3, <2>4 DEF RequestShows, Patching, Resolving, Triggering
  <2>6. status = "in_review" => OpenOrAsked
    BY <1>4 DEF Orderliness, Orderly, ReviewIsDue, Reopening, NoRequest
  <2>7. OpenOrAsked' = OpenOrAsked
    BY <1>1 DEF OpenOrAsked, Pending, AtReview
  <2>8. ReviewIsDue' /\ RebrandIsDue'
    BY <1>1, <1>2, <2>3, <2>6, <2>7 DEF ReviewIsDue, RebrandIsDue
  <2> QED
    BY <1>1, <1>2, <1>5, <2>3, <2>5, <2>8, OrderlySlot
<1> QED
  BY <1>6, <1>7, <1>8 DEF NewRequest

\* A request that is answered, with nothing left to do.
LEMMA ReplyOrderly ==
  ASSUME Orderliness, NEW r \in Requests, Reply(r), ~Reopening(r) \/ OpenOrAsked,
         UNCHANGED <<status, approvals, job, genError, pubError, pub>>
  PROVE  Orderly'
<1>1. \A q \in Requests : req'[q].op = "none" /\ q = r
  BY DEF Reply, NoReq, Orderliness, OneByOne, TypeOK, ActorTypes
<1>2. RequestShows' /\ RebrandIsDue' /\ NoRequest'
  BY <1>1 DEF RequestShows, Patching, Resolving, Triggering, RebrandIsDue, NoRequest
<1>3. OpenOrAsked' = OpenOrAsked
  BY DEF OpenOrAsked, Pending, AtReview
<1>4. ReviewIsDue'
  BY <1>1, <1>3 DEF Orderliness, Orderly, ReviewIsDue
<1> QED
  BY <1>1, <1>2, <1>4, OrderlySlot

\* The steps of a request up to its commit, and the answers.
LEMMA ReadOrderly ==
  ASSUME Orderliness, NEW r \in Requests,
         DecideRead(r) \/ DecideValidate(r) \/ UpdateRead(r) \/ Reopen(r)
  PROVE  Orderly'
<1>1. UNCHANGED <<status, approvals, job, genError, pubError, pub>>
  BY DEF DecideRead, DecideValidate, UpdateRead, Reopen, errors
<1>2. \A q \in Requests : q = r
  BY DEF Orderliness, OneByOne
<1>3. req \in [Requests -> Request] /\ req[r] \in Request
  BY DEF Orderliness, TypeOK, ActorTypes
<1>4. req[r].op # "none"
  BY DEF DecideRead, DecideValidate, UpdateRead, Reopen
<1>5. status # "queued" /\ \A j \in Jobs : Labours(j) => job[j].kind # "content"
  BY <1>4, WhoLabours DEF NoRequest
<1>6. CASE Reply(r) /\ ~Reopen(r)
  <2>1. ~Reopening(r)
    BY <1>6 DEF Reopening, DecideRead, DecideValidate, UpdateRead
  <2> QED
    BY <1>1, <1>6, <2>1, ReplyOrderly
<1>7. CASE DecideRead(r) /\ GoOn(r, "read")
  <2>1. /\ req'[r].op = "decide" /\ req'[r].step = "read" /\ req'[r].ref = req[r].ref
        /\ req[r].op = "decide"
    BY <1>3, <1>7 DEF DecideRead, GoOn, Request
  <2>2. req[r].ref \in Pending /\ Pending' = Pending /\ Pending \subseteq DOMAIN approvals
    <3>1. ~Reply(r)
      BY <1>3, <2>1 DEF Reply, NoReq
    <3> QED
      BY <1>1, <1>7, <3>1 DEF DecideRead, Pending
  <2>4. RequestShows'
    BY <1>1, <1>2, <2>1, <2>2 DEF RequestShows, Patching, Resolving, Triggering
  <2>3. ReviewIsDue' /\ RebrandIsDue'
    BY <1>1, <1>2, <2>1
    DEF ReviewIsDue, RebrandIsDue, OpenOrAsked, Pending, AtReview, Orderliness, Orderly,
        Reopening
  <2> QED
    BY <1>1, <1>2, <1>5, <2>1, <2>4, <2>3, OrderlySlot
<1>8. CASE DecideValidate(r) /\ GoOn(r, "decided")
  <2>1. /\ req'[r].op = "decide" /\ req'[r].step = "decided" /\ req'[r].ref = req[r].ref
        /\ req[r].op = "decide"
    BY <1>3, <1>8 DEF DecideValidate, GoOn, Request
  <2>2. req[r].ref \in DOMAIN approvals /\ req[r].ref \in Pending /\ approvals # <<>>
    BY <1>8, <2>1, PendingIsLast
    DEF DecideValidate, Orderliness, Orderly, RequestShows, Resolving
  <2>3. status = "in_review"
    <3>1. <<status, Target(req[r].to)>> \in VALID_TRANSITIONS
      BY <1>3, <1>8 DEF DecideValidate, Reply, GoOn, NoReq, Request
    <3>2. Target(req[r].to) \in {"scheduled", "reworking"}
      BY DEF Target
    <3>3. status # "failed"
      BY <2>2 DEF Orderliness, Orderly, StatusShows
    <3> QED
      BY <3>1, <3>2, <3>3 DEF VALID_TRANSITIONS
  <2>4. RequestShows'
    BY <1>1, <1>2, <2>1, <2>2, <2>3
    DEF RequestShows, Patching, Resolving, Triggering, Pending
  <2>5. ReviewIsDue' /\ RebrandIsDue'
    BY <1>1, <1>2, <2>1
    DEF ReviewIsDue, RebrandIsDue, OpenOrAsked, Pending, AtReview, Orderliness, Orderly,
        Reopening
  <2> QED
    BY <1>1, <1>2, <1>5, <2>1, <2>4, <2>5, OrderlySlot
<1>9. CASE UpdateRead(r)
  <2>1. /\ req'[r].op = req[r].op /\ req'[r].step = "read" /\ req'[r].seen = status
        /\ req'[r].to = req[r].to
        /\ req[r].op = "patch" /\ req[r].step = "clicked"
    BY <1>3, <1>9 DEF UpdateRead, Request, Orderliness, Orderly, OnlyPosts
  <2>2. /\ status \in {"scheduled", "reworking"} /\ req[r].to = "in_review"
        /\ approvals # <<>>
    BY <2>1 DEF Orderliness, Orderly, RequestShows, Patching
  <2>3. RequestShows'
    BY <1>1, <1>2, <2>1, <2>2 DEF RequestShows, Patching, Resolving, Triggering
  <2>4. ReviewIsDue' /\ RebrandIsDue'
    BY <1>1, <1>2, <2>1, <2>2 DEF ReviewIsDue, RebrandIsDue
  <2> QED
    BY <1>1, <1>2, <1>5, <2>1, <2>3, <2>4, OrderlySlot
<1>10. CASE Reopen(r)
  <2>1. /\ req[r].op = "patch" /\ req[r].step = "committed" /\ status = "in_review"
        /\ approvals # <<>>
    BY <1>10 DEF Reopen, Orderliness, Orderly, RequestShows, Patching
  <2>2. CASE approvals[Len(approvals)].state # "pending"
    <3>1. Pending = {}
      BY <2>2, PendingIsLast DEF Pending
    <3>2. req'[r].op = "patch" /\ req'[r].step = "reopening"
      BY <1>3, <1>10, <2>1, <2>2 DEF Reopen, Request
    <3>3. Pending' = Pending
      BY <1>1 DEF Pending
    <3>4. RequestShows'
      BY <1>1, <1>2, <2>1, <3>1, <3>2, <3>3
      DEF RequestShows, Patching, Resolving, Triggering
    <3>5. ReviewIsDue' /\ RebrandIsDue'
      BY <1>2, <3>2 DEF ReviewIsDue, RebrandIsDue, Reopening
    <3> QED
      BY <1>1, <1>2, <1>5, <3>2, <3>4, <3>5, OrderlySlot
  <2>3. CASE approvals[Len(approvals)].state = "pending"
    <3>1. Pending # {}
      BY <2>1, <2>3, PendingIsLast DEF Pending
    <3>2. Reply(r)
      BY <1>10, <2>3 DEF Reopen
    <3> QED
      BY <1>1, <3>1, <3>2, ReplyOrderly DEF OpenOrAsked
  <2> QED
    BY <2>2, <2>3
<1> QED
  BY <1>6, <1>7, <1>8, <1>9, <1>10 DEF DecideRead, DecideValidate

\* A decision closes the only open approval.
LEMMA DecideOrderly ==
  ASSUME Orderliness, NEW r \in Requests, DecideCommit(r)
  PROVE  Orderly'
<1>1. \A q \in Requests : req'[q].op = "none" /\ q = r
  BY DEF DecideCommit, Reply, NoReq, Orderliness, OneByOne, TypeOK, ActorTypes
<1>2. /\ status = "in_review" /\ req[r].ref \in Pending /\ req[r].ref \in DOMAIN approvals
      /\ req[r].ref \in Nat /\ req[r].to \in Verdicts
  BY DEF DecideCommit, Orderliness, Orderly, RequestShows, Resolving, TypeOK, ActorTypes,
     Request, Sensible
<1>3. /\ approvals' \in Seq(Approval) /\ Len(approvals') = Len(approvals)
      /\ Pending' = Pending \ {req[r].ref}
  BY <1>2, PendingIsLast, DecidedResolves DEF DecideCommit
<1>4. approvals # <<>> /\ approvals' # <<>> /\ Pending' = {}
  BY <1>2, <1>3, PendingIsLast, EmptySeq
<1>5. NoneLabours /\ \A j \in Jobs : ~AtReview(j)
  BY <1>2, <1>4, WhoLabours
<1>6. /\ job' = job /\ genError' = genError /\ pubError' = pubError /\ pub' = pub
      /\ status' \in {"scheduled", "reworking"}
  BY DEF DecideCommit, Target, errors
<1>7. OnlyPosts' /\ OneLabours' /\ LabourShows' /\ ReviewShows' /\ EditIsDue'
  BY <1>1, <1>5, <1>6
  DEF OnlyPosts, OneLabours, LabourShows, ReviewShows, EditIsDue, NoneLabours, Labours,
      AtReview, Orderliness, Orderly
<1>8. StatusShows'
  BY <1>4, <1>6 DEF StatusShows, Orderliness, Orderly
<1>9. RequestShows' /\ RebrandIsDue'
  BY <1>1 DEF RequestShows, Patching, Resolving, Triggering, RebrandIsDue
<1>10. Latest' /\ ReviewIsDue'
  BY <1>4, <1>6 DEF Latest, ReviewIsDue
<1> QED
  BY <1>7, <1>8, <1>9, <1>10 DEF Orderly

\* A PATCH puts the item in review and still owes the approval.
LEMMA UpdateOrderly ==
  ASSUME Orderliness, NEW r \in Requests, UpdateCommit(r)
  PROVE  Orderly'
<1>1. \A q \in Requests : q = r
  BY DEF Orderliness, OneByOne
<1>2. /\ req[r].op = "patch" /\ req[r].step = "read"
      /\ req \in [Requests -> Request] /\ req[r] \in Request
  BY DEF UpdateCommit, Orderliness, Orderly, OnlyPosts, TypeOK, ActorTypes
<1>3. /\ status \in {"scheduled", "reworking"} /\ req[r].to = "in_review"
      /\ req[r].seen = status /\ approvals # <<>>
  BY <1>2 DEF Orderliness, Orderly, RequestShows, Patching
<1>4. /\ req'[r].op = "patch" /\ req'[r].step = "committed" /\ status' = "in_review"
  BY <1>2, <1>3 DEF UpdateCommit, GoOn, Request
<1>5. NoneLabours /\ \A j \in Jobs : ~AtReview(j)
  BY <1>3, WhoLabours
<1>6. UNCHANGED <<job, approvals, genError, pubError, pub>>
  BY DEF UpdateCommit, errors
<1>7. OnlyPosts' /\ OneLabours' /\ LabourShows' /\ ReviewShows' /\ EditIsDue'
  BY <1>1, <1>4, <1>5, <1>6
  DEF OnlyPosts, OneLabours, LabourShows, ReviewShows, EditIsDue, NoneLabours, Labours,
      AtReview, Orderliness, Orderly
<1>8. StatusShows' /\ Latest'
  BY <1>4, <1>6 DEF StatusShows, Latest, Pending, Orderliness, Orderly
<1>9. RequestShows' /\ RebrandIsDue' /\ ReviewIsDue'
  BY <1>1, <1>3, <1>4, <1>6
  DEF RequestShows, Patching, Resolving, Triggering, RebrandIsDue, ReviewIsDue, Reopening
<1> QED
  BY <1>7, <1>8, <1>9 DEF Orderly

\* ... which it then creates.
LEMMA ReopenOrderly ==
  ASSUME Orderliness, NEW r \in Requests, ReopenCommit(r)
  PROVE  Orderly'
<1>1. \A q \in Requests : req'[q].op = "none" /\ q = r
  BY DEF ReopenCommit, Reply, NoReq, Orderliness, OneByOne, TypeOK, ActorTypes
<1>2. status = "in_review" /\ Pending = {} /\ approvals # <<>> /\ req[r].ref \in Nat
  BY DEF ReopenCommit, Orderliness, Orderly, RequestShows, Patching, TypeOK, ActorTypes,
     Request
<1>3. /\ approvals' \in Seq(Approval) /\ Len(approvals') = Len(approvals) + 1
      /\ Pending' = {Len(approvals')}
  BY <1>2, PendingIsLast, AskedAdds DEF ReopenCommit
<1>4. approvals' # <<>>
  BY <1>3, PendingIsLast, EmptySeq
<1>5. NoneLabours /\ \A j \in Jobs : ~AtReview(j)
  BY <1>2, WhoLabours
<1>6. UNCHANGED <<job, status, genError, pubError, pub>>
  BY DEF ReopenCommit, errors
<1>7. OnlyPosts' /\ OneLabours' /\ LabourShows' /\ ReviewShows' /\ EditIsDue'
  BY <1>1, <1>5, <1>6
  DEF OnlyPosts, OneLabours, LabourShows, ReviewShows, EditIsDue, NoneLabours, Labours,
      AtReview, Orderliness, Orderly
<1>8. StatusShows'
  BY <1>2, <1>4, <1>6 DEF StatusShows, Orderliness, Orderly
<1>9. RequestShows' /\ RebrandIsDue'
  BY <1>1 DEF RequestShows, Patching, Resolving, Triggering, RebrandIsDue
<1>10. Latest' /\ ReviewIsDue'
  BY <1>3 DEF Latest, ReviewIsDue, OpenOrAsked
<1> QED
  BY <1>7, <1>8, <1>9, <1>10 DEF Orderly

\* A trigger flips the status of an item nobody labours at, then sends the only
\* message.
LEMMA TriggerOrderly ==
  ASSUME Orderliness, NEW r \in Requests, TriggerCommit(r) \/ TriggerSend(r)
  PROVE  Orderly'
<1>1. \A q \in Requests : q = r
  BY DEF Orderliness, OneByOne
<1>2. /\ req[r].op \in {"regen", "rebrand"}
      /\ req \in [Requests -> Request] /\ req[r] \in Request
      /\ job \in [Jobs -> Job]
  BY DEF TriggerCommit, TriggerSend, Triggers, Orderliness, Orderly, OnlyPosts, TypeOK,
     ActorTypes
<1>3. /\ req[r].seen \in Allowed(req[r].op)
      /\ req[r].seen = "reworking" => approvals # <<>>
      /\ req[r].step = "read" => status = req[r].seen
      /\ req[r].step = "committed" => status = "working" /\ NoneLabours
      /\ req[r].op = "rebrand" /\ req[r].seen = "in_review" => OpenOrAsked
  BY <1>2 DEF Orderliness, Orderly, RequestShows, Triggering, RebrandIsDue
<1>4. CASE TriggerCommit(r)
  <2>1. /\ req'[r].op = req[r].op /\ req'[r].step = "committed"
        /\ req'[r].seen = req[r].seen /\ status' = "working"
    BY <1>2, <1>3, <1>4 DEF TriggerCommit, GoOn, Flipped, Request, Allowed
  <2>2. UNCHANGED <<job, approvals, genError, pubError, pub>>
    BY <1>4 DEF TriggerCommit, errors
  <2>3. status \in {"in_review", "reworking", "failed"}
    BY <1>2, <1>3, <1>4 DEF TriggerCommit, Allowed
  <2>4. NoneLabours
    BY <2>3, WhoLabours
  <2>5. OnlyPosts' /\ OneLabours' /\ LabourShows' /\ ReviewShows' /\ EditIsDue'
    BY <1>1, <1>2, <2>1, <2>2, <2>4
    DEF OnlyPosts, OneLabours, LabourShows, ReviewShows, EditIsDue, NoneLabours, Labours,
        AtReview, Orderliness, Orderly
  <2>6. StatusShows' /\ Latest' /\ ReviewIsDue'
    BY <2>1, <2>2
    DEF StatusShows, Latest, Pending, ReviewIsDue, Orderliness, Orderly
  <2>7. RequestShows'
    BY <1>1, <1>2, <1>3, <2>1, <2>2, <2>4
    DEF RequestShows, Patching, Resolving, Triggering, NoneLabours, Labours
  <2>8. RebrandIsDue'
    BY <1>1, <1>3, <2>1, <2>2 DEF RebrandIsDue, OpenOrAsked, Pending, AtReview
  <2> QED
    BY <2>5, <2>6, <2>7, <2>8 DEF Orderly
<1>5. CASE TriggerSend(r)
  <2>1. \A q \in Requests : req'[q].op = "none"
    BY <1>1, <1>2, <1>5 DEF TriggerSend, Reply, NoReq
  <2>2. UNCHANGED <<status, approvals, genError, pubError, pub>> /\ status = "working"
    BY <1>3, <1>5 DEF TriggerSend, errors
  <2>3. PICK prior \in {"in_review", "reworking"} :
          /\ Send(req[r].op, req[r].ref, prior)
          /\ prior = IF req[r].op = "regen" THEN "in_review" ELSE req[r].seen
    <3>1. CASE req[r].op = "regen"
      BY <1>5, <3>1 DEF TriggerSend
    <3>2. CASE req[r].op = "rebrand"
      BY <1>3, <1>5, <3>2 DEF TriggerSend, Allowed
    <3> QED
      BY <1>2, <3>1, <3>2
  <2>4. PICK j \in Jobs :
          /\ job[j] = NoJob
          /\ job'[j] = [kind |-> req[r].op, step |-> "sent", ver |-> req[r].ref,
                        prior |-> prior]
          /\ \A k \in Jobs : k # j => job'[k] = job[k]
    BY <1>2, <2>3 DEF Send
  <2>5. NoneLabours
    BY <1>3, <1>5 DEF TriggerSend
  <2>6. \A k \in Jobs : Labours(k)' => k = j
    BY <2>4, <2>5 DEF NoneLabours, Labours
  <2>7. OnlyPosts'
    BY <1>2, <2>1, <2>3, <2>4 DEF OnlyPosts, IsPostJob, EditSteps, Orderliness, Orderly
  <2>8. OneLabours' /\ LabourShows'
    BY <1>2, <2>2, <2>4, <2>6 DEF OneLabours, LabourShows, Edits
  <2>9. \A k \in Jobs : AtReview(k)' = AtReview(k)
    BY <2>4 DEF AtReview, NoJob
  <2>10. ReviewShows' /\ OpenOrAsked' = OpenOrAsked
    BY <2>2, <2>9 DEF ReviewShows, OpenOrAsked, Pending, Orderliness, Orderly
  <2>11. StatusShows' /\ Latest' /\ ReviewIsDue'
    BY <2>2 DEF StatusShows, Latest, Pending, ReviewIsDue, Orderliness, Orderly
  <2>12. RequestShows' /\ RebrandIsDue'
    BY <2>1 DEF RequestShows, Patching, Resolving, Triggering, RebrandIsDue
  <2>13. EditIsDue'
    BY <1>3, <2>2, <2>3, <2>4, <2>6, <2>10 DEF EditIsDue, Edits
  <2> QED
    BY <2>7, <2>8, <2>10, <2>11, <2>12, <2>13 DEF Orderly
<1> QED
  BY <1>4, <1>5

\* What a job that is at work, or may start, says of the others.
LEMMA JobAlone ==
  ASSUME Orderliness, NEW j \in Jobs, job[j].kind # "none",
         job[j].step # "sent" \/ LaneFree(j)
  PROVE  /\ \A k \in Jobs : k # j => job[k].kind = "none" \/ job[k].step = "sent"
         /\ \A k \in Jobs : AtReview(k) => k = j
         /\ Labours(j) => \A k \in Jobs : Labours(k) => k = j
<1>1. \A k \in Jobs : /\ job[k].kind # "video"
                      /\ job[k].kind = "none" => job[k].step = "free"
  BY DEF Orderliness, Orderly, OnlyPosts, IsPostJob
<1>2. \A k \in Jobs : k # j => job[k].kind = "none" \/ job[k].step = "sent"
  BY <1>1 DEF Orderliness, OnePerLane, Lane, LaneFree, Live
<1> QED
  BY <1>1, <1>2 DEF AtReview, Orderliness, Orderly, OneLabours

\* While an edit labours, what the requests say does not depend on its step.
LEMMA OrderlyEdit ==
  ASSUME Orderliness, NEW j \in Jobs, Labours(j), Edits(j),
         NEW s \in EditSteps \ {"settling"}, Goto(j, s),
         UNCHANGED <<approvals, req, genError, pubError, pub>>, status' = status,
         IsPostJob([job[j] EXCEPT !.step = s]),
         s = "asking" => Pending = {},
         job[j].kind = "regen" /\ s = "releasing" => Pending # {}
  PROVE  Orderly'
<1>1. s \in JobSteps
  BY DEF EditSteps, JobSteps
<1>2. /\ job'[j] = [job[j] EXCEPT !.step = s]
      /\ \A k \in Jobs : k # j => job'[k] = job[k]
      /\ job[j] \in Job
  BY DEF Goto, Orderliness, TypeOK, ActorTypes
<1>3. \A k \in Jobs : /\ job'[k].kind = job[k].kind /\ job'[k].prior = job[k].prior
                      /\ Labours(k)' = Labours(k) /\ AtReview(k)' = AtReview(k)
                      /\ k # j => ~Labours(k)
  BY <1>2 DEF Labours, AtReview, EditSteps, Edits, Job, Orderliness, Orderly, OneLabours,
     OnlyPosts, IsPostJob
<1>4. Pending' = Pending /\ OpenOrAsked' = OpenOrAsked
  BY <1>3 DEF Pending, OpenOrAsked
<1>5. OnlyPosts' /\ OneLabours' /\ Latest'
  BY <1>2, <1>3, <1>4 DEF OnlyPosts, OneLabours, Latest, Orderliness, Orderly
<1>6. LabourShows' /\ ReviewShows' /\ StatusShows'
  BY <1>2, <1>3
  DEF LabourShows, ReviewShows, StatusShows, Edits, NoRequest, Orderliness, Orderly
<1>7. RequestShows' /\ ReviewIsDue' /\ RebrandIsDue'
  BY <1>3, <1>4
  DEF RequestShows, Patching, Resolving, Triggering, NoneLabours, ReviewIsDue, Reopening,
      RebrandIsDue, Orderliness, Orderly
<1>8. EditIsDue'
  BY <1>2, <1>3, <1>4 DEF EditIsDue, Edits, Orderliness, Orderly, Job
<1> QED
  BY <1>5, <1>6, <1>7, <1>8 DEF Orderly

\* The steps of an edit up to its release.
LEMMA EditOrderly ==
  ASSUME Orderliness, faults' = 0, NEW j \in Jobs,
         PickUpEdit(j) \/ Edit(j) \/ EditChecks(j)
  PROVE  Orderly'
<1>1. /\ job[j].kind \in {"regen", "rebrand"} /\ job[j].step # "settling"
      /\ IsPostJob(job[j]) /\ job[j] \in Job
  BY DEF PickUpEdit, Edit, EditChecks, Edits, Orderliness, Orderly, OnlyPosts, IsPostJob,
     PostSteps, TypeOK, ActorTypes
<1>2. Labours(j) /\ Edits(j)
  BY <1>1 DEF Labours, Edits, IsPostJob, EditSteps
<1>3. status = "working"
  BY <1>2 DEF Orderliness, Orderly, LabourShows
<1>4. UNCHANGED <<approvals, req, genError, pubError, pub>> /\ status' = status
  BY <1>3 DEF PickUpEdit, Edit, EditChecks, errors
<1>5. CASE PickUpEdit(j)
  <2>1. IsPostJob([job[j] EXCEPT !.step = "claimed"]) /\ Goto(j, "claimed")
    BY <1>1, <1>5 DEF IsPostJob, EditSteps, Job, PickUpEdit
  <2> QED
    BY <1>2, <1>4, <2>1, OrderlyEdit DEF EditSteps
<1>6. CASE Edit(j)
  <2>1. Goto(j, IF job[j].kind = "regen" THEN "edited" ELSE "releasing")
    BY <1>6 DEF Edit, Orderliness, TypeOK, HistoryTypes
  <2>2. CASE job[j].kind = "regen"
    <3>1. IsPostJob([job[j] EXCEPT !.step = "edited"]) /\ Goto(j, "edited")
      BY <1>1, <2>1, <2>2 DEF IsPostJob, EditSteps, Job
    <3> QED
      BY <1>2, <1>4, <3>1, OrderlyEdit DEF EditSteps
  <2>3. CASE job[j].kind = "rebrand"
    <3>1. IsPostJob([job[j] EXCEPT !.step = "releasing"]) /\ Goto(j, "releasing")
      BY <1>1, <2>1, <2>3 DEF IsPostJob, EditSteps, Job
    <3> QED
      BY <1>2, <1>4, <2>3, <3>1, OrderlyEdit DEF EditSteps
  <2> QED
    BY <1>1, <2>2, <2>3
<1>7. CASE EditChecks(j)
  <2>1. job[j].kind = "regen"
    BY <1>1, <1>7 DEF IsPostJob, EditChecks
  <2>2. CASE Pending = {}
    <3>1. IsPostJob([job[j] EXCEPT !.step = "asking"]) /\ Goto(j, "asking")
      BY <1>1, <1>7, <2>1, <2>2 DEF IsPostJob, EditSteps, Job, EditChecks
    <3> QED
      BY <1>2, <1>4, <2>2, <3>1, OrderlyEdit DEF EditSteps
  <2>3. CASE Pending # {}
    <3>1. IsPostJob([job[j] EXCEPT !.step = "releasing"]) /\ Goto(j, "releasing")
      BY <1>1, <1>7, <2>1, <2>3 DEF IsPostJob, EditSteps, Job, EditChecks
    <3> QED
      BY <1>2, <1>4, <2>3, <3>1, OrderlyEdit DEF EditSteps
  <2> QED
    BY <2>2, <2>3
<1> QED
  BY <1>5, <1>6, <1>7

\* While the status is 'working', the only requests are decisions that are not
\* yet validated and triggers that have not sent their message.
LEMMA RequestsAtWork ==
  ASSUME Orderliness, status = "working", NEW r \in Requests
  PROVE  /\ req[r].op # "patch"
         /\ req[r].op = "decide" => req[r].step # "decided"
         /\ req[r].op \in {"regen", "rebrand"} => NoneLabours
  BY DEF Orderliness, Orderly, RequestShows, Patching, Resolving, Triggering, Allowed

\* A regeneration asks where nothing is open.
LEMMA EditAsksOrderly ==
  ASSUME Orderliness, faults' = 0, NEW j \in Jobs, EditAsks(j)
  PROVE  Orderly'
<1>1. /\ job[j].kind = "regen" /\ job[j].step = "asking" /\ job[j].prior = "in_review"
      /\ job[j] \in Job /\ job \in [Jobs -> Job]
  BY DEF EditAsks, Orderliness, Orderly, OnlyPosts, IsPostJob, PostSteps, TypeOK, ActorTypes
<1>2. Labours(j) /\ Edits(j)
  BY <1>1 DEF Labours, Edits
<1>3. status = "working" /\ Pending = {}
  BY <1>1, <1>2 DEF Orderliness, Orderly, LabourShows, EditIsDue
<1>4. /\ job'[j] = [job[j] EXCEPT !.step = "releasing"]
      /\ \A k \in Jobs : k # j => job'[k] = job[k]
      /\ approvals' = Asked(job[j].ver)
      /\ UNCHANGED <<status, req, genError, pubError, pub>>
  BY <1>1 DEF EditAsks, AskFails, Goto, errors, Orderliness, TypeOK, HistoryTypes
<1>5. /\ Len(approvals') = Len(approvals) + 1 /\ Pending' = {Len(approvals')}
      /\ approvals' \in Seq(Approval)
      /\ \A a \in DOMAIN approvals : a \in DOMAIN approvals'
  <2>1. job[j].ver \in Nat
    BY <1>1 DEF Job
  <2>2. /\ Len(approvals') = Len(approvals) + 1 /\ approvals' \in Seq(Approval)
        /\ Pending' = {Len(approvals')}
    BY <1>3, <1>4, <2>1, AskedAdds, PendingIsLast
  <2> QED
    BY <2>2, LenProperties, PendingIsLast
<1>6. approvals' # <<>>
  BY <1>5, PendingIsLast, EmptySeq
<1>7. \A k \in Jobs : /\ ~AtReview(k)
                      /\ k # j => ~Labours(k) /\ ~Labours(k)'
                      /\ ~AtReview(k)'
  BY <1>1, <1>2, <1>4, JobAlone DEF AtReview, Labours, Job
<1>8. OnlyPosts'
  BY <1>1, <1>4 DEF OnlyPosts, IsPostJob, EditSteps, Job, Orderliness, Orderly
<1>9. OneLabours' /\ ReviewShows' /\ Latest'
  BY <1>5, <1>7 DEF OneLabours, ReviewShows, Latest
<1>10. LabourShows' /\ StatusShows'
  BY <1>1, <1>3, <1>4, <1>7 DEF LabourShows, StatusShows, Edits, Job, Orderliness, Orderly
<1>11. \A r \in Requests : req[r].op \notin {"patch", "regen", "rebrand"}
  BY <1>2, <1>3, RequestsAtWork DEF NoneLabours, Orderliness
<1>12. RequestShows'
  <2>1. SUFFICES ASSUME NEW r \in Requests, req[r].op = "decide"
                 PROVE  /\ req[r].ref \in DOMAIN approvals'
                        /\ req[r].step \notin {"read", "decided"}
    BY <1>4, <1>11 DEF RequestShows, Patching, Resolving, Triggering
  <2>2. req[r].ref \in DOMAIN approvals /\ req[r].step \notin {"read", "decided"}
    BY <1>3, <2>1 DEF Orderliness, Orderly, RequestShows, Resolving
  <2> QED
    BY <1>5, <2>2
<1>13. ReviewIsDue' /\ RebrandIsDue'
  BY <1>5 DEF ReviewIsDue, RebrandIsDue, OpenOrAsked
<1>14. EditIsDue'
  BY <1>1, <1>4, <1>5, <1>7 DEF EditIsDue, Job
<1> QED
  BY <1>8, <1>9, <1>10, <1>12, <1>13, <1>14 DEF Orderly

\* The release puts the item back where it came from, in review only where an
\* approval is open or about to be asked for.
LEMMA ReleaseOrderly ==
  ASSUME Orderliness, NEW j \in Jobs, Release(j)
  PROVE  Orderly'
<1>1. /\ job[j].step = "releasing" /\ job[j] \in Job /\ job \in [Jobs -> Job]
      /\ \/ job[j].kind = "regen" /\ job[j].prior = "in_review"
         \/ job[j].kind = "rebrand" /\ job[j].prior \in {"in_review", "reworking"}
  BY DEF Release, Orderliness, Orderly, OnlyPosts, IsPostJob, PostSteps, TypeOK, ActorTypes
<1>2. Labours(j) /\ Edits(j)
  BY <1>1 DEF Labours, Edits
<1>3. /\ status = "working"
      /\ job[j].prior = "in_review" => OpenOrAsked
      /\ job[j].prior = "reworking" => approvals # <<>>
  BY <1>1, <1>2 DEF Orderliness, Orderly, LabourShows, EditIsDue, OpenOrAsked
<1>4. /\ job'[j] = [job[j] EXCEPT !.step = "settling"]
      /\ \A k \in Jobs : k # j => job'[k] = job[k]
      /\ UNCHANGED <<approvals, req, genError, pubError, pub>>
      /\ status' = job[j].prior
  BY <1>1, <1>3 DEF Release, Goto, errors
<1>5. \A k \in Jobs : ~Labours(k)' /\ ~AtReview(k)' /\ ~AtReview(k)
  BY <1>1, <1>2, <1>4, JobAlone DEF AtReview, Labours, Job
<1>6. \A r \in Requests : req[r].op \notin {"patch", "regen", "rebrand"}
                          /\ (req[r].op = "decide" => req[r].step # "decided")
  BY <1>2, <1>3, RequestsAtWork DEF NoneLabours, Orderliness
<1>7. OnlyPosts'
  BY <1>1, <1>4 DEF OnlyPosts, IsPostJob, EditSteps, Job, Orderliness, Orderly
<1>8. OneLabours' /\ LabourShows' /\ ReviewShows' /\ EditIsDue'
  BY <1>5 DEF OneLabours, LabourShows, ReviewShows, EditIsDue
<1>9. StatusShows' /\ Latest'
  BY <1>1, <1>3, <1>4 DEF StatusShows, Latest, Pending, Orderliness, Orderly
<1>10. RequestShows' /\ RebrandIsDue'
  BY <1>4, <1>6
  DEF RequestShows, Patching, Resolving, Triggering, RebrandIsDue, Pending, Orderliness,
      Orderly
<1>11. ReviewIsDue'
  BY <1>3, <1>4, <1>5 DEF ReviewIsDue, OpenOrAsked, Pending
<1> QED
  BY <1>7, <1>8, <1>9, <1>10, <1>11 DEF Orderly

\* A message of a content job is the only one while the job labours: nobody has
\* asked for anything yet.
LEMMA ContentAlone ==
  ASSUME Orderliness, NEW j \in Jobs, Labours(j), job[j].kind = "content"
  PROVE  /\ approvals = <<>> /\ NoRequest /\ status \in {"queued", "working"}
         /\ job[j].step \in {"sent", "running"} => status = "queued"
         /\ job[j].step \in {"claimed", "stored"} => status = "working"
         /\ \A k \in Jobs : k # j => ~Labours(k)
         /\ \A k \in Jobs : ~AtReview(k)
         /\ Pending = {}
<1>1. /\ approvals = <<>> /\ NoRequest /\ status \in {"queued", "working"}
      /\ job[j].step \in {"sent", "running"} => status = "queued"
      /\ job[j].step \in {"claimed", "stored"} => status = "working"
      /\ \A k \in Jobs : k # j => ~Labours(k)
      /\ Pending = {}
  BY PendingIsLast DEF Orderliness, Orderly, LabourShows, OneLabours
<1>2. CASE job[j].step = "sent"
  <2>1. status = "queued"
    BY <1>1, <1>2
  <2> QED
    BY <1>1, <2>1 DEF Orderliness, Orderly, ReviewShows
<1>3. CASE job[j].step # "sent"
  BY <1>1, <1>3, JobAlone DEF Labours, AtReview
<1> QED
  BY <1>1, <1>2, <1>3

\* A step of a content job: nothing is asked for, and what it leaves is as its
\* step says.
LEMMA OrderlyContent ==
  ASSUME Orderliness, NEW j \in Jobs, Labours(j), job[j].kind = "content",
         NEW q, IsPostJob(q), q.kind = "content" \/ q = NoJob,
         job'[j] = q, \A k \in Jobs : k # j => job'[k] = job[k],
         UNCHANGED <<req, pub>>, approvals' = <<>>, ~pubError',
         status' \in {"queued", "working", "in_review", "failed"},
         status' = "failed" => genError' /\ q.step \in {"free", "settling"},
         status' = "in_review" => q.step = "reviewed",
         q.step \in {"sent", "running"} => status' = "queued",
         q.step \in {"claimed", "stored"} => status' = "working",
         q.step = "reviewed" => status' = "in_review"
  PROVE  Orderly'
<1>1. NoRequest /\ NoRequest' /\ Pending' = {}
  BY ContentAlone DEF NoRequest, Pending
<1>2. \A k \in Jobs : k # j => /\ ~Labours(k) /\ ~Labours(k)'
                               /\ ~AtReview(k) /\ ~AtReview(k)'
  BY ContentAlone DEF Labours, AtReview
<1>3. OnlyPosts' /\ OneLabours'
  BY <1>2 DEF OnlyPosts, OneLabours, Orderliness, Orderly
<1>4. Labours(j)' => q.kind = "content" /\ status' \in {"queued", "working"}
  BY DEF Labours, NoJob, IsPostJob, PostSteps
<1>5. LabourShows' /\ ReviewShows' /\ EditIsDue'
  BY <1>1, <1>2, <1>4 DEF LabourShows, ReviewShows, AtReview, EditIsDue, Edits
<1>6. StatusShows'
  BY <1>1 DEF StatusShows, Orderliness, Orderly
<1>7. RequestShows' /\ RebrandIsDue' /\ Latest'
  BY <1>1
  DEF RequestShows, Patching, Resolving, Triggering, RebrandIsDue, Latest, NoRequest
<1>8. ReviewIsDue'
  BY DEF ReviewIsDue, OpenOrAsked, AtReview
<1> QED
  BY <1>3, <1>5, <1>6, <1>7, <1>8 DEF Orderly

\* The content job, from its delivery to the review or to the failure.
LEMMA ContentOrderly ==
  ASSUME Orderliness, NEW j \in Jobs,
         \/ PickUp(j) \/ Claim(j) \/ Store(j) \/ ToReview(j)
         \/ WorkflowFails(j) \/ AckFailure(j) \/ ReleaseStuck(j)
  PROVE  Orderly'
<1>1. /\ job[j].kind = "content" /\ job[j].step \in PostSteps
      /\ job[j] \in Job /\ job \in [Jobs -> Job]
      /\ job[j].step \notin {"reviewed", "settling"}
  BY DEF PickUp, Claim, Store, Finished, ToReview, WorkflowFails, AckFailure, ReleaseStuck,
     Generates, Orderliness, Orderly, OnlyPosts, IsPostJob, EditSteps, PostSteps, TypeOK,
     ActorTypes
<1>2. Labours(j)
  BY <1>1 DEF Labours
<1>3. /\ approvals = <<>> /\ status \in {"queued", "working"} /\ ~pubError
      /\ job[j].step \in {"sent", "running"} => status = "queued"
      /\ job[j].step \in {"claimed", "stored"} => status = "working"
  BY <1>1, <1>2, ContentAlone DEF Orderliness, Orderly, StatusShows
<1>4. UNCHANGED <<req, pub>>
  BY DEF PickUp, Claim, Store, ToReview, WorkflowFails, AckFailure, ReleaseStuck
<1>5. \A s \in PostSteps : IsPostJob([job[j] EXCEPT !.step = s])
                           /\ [job[j] EXCEPT !.step = s].kind = "content"
                           /\ [job[j] EXCEPT !.step = s].step = s
  BY <1>1 DEF IsPostJob, Job
<1>6. ASSUME NEW s \in PostSteps, Goto(j, s)
      PROVE  /\ job'[j] = [job[j] EXCEPT !.step = s]
             /\ \A k \in Jobs : k # j => job'[k] = job[k]
  BY <1>1, <1>6 DEF Goto
<1>7. IsPostJob(NoJob)
  BY DEF NoJob, IsPostJob
<1>8. CASE PickUp(j)
  <2>1. status = "queued" /\ Goto(j, "running") /\ UNCHANGED <<approvals, status, pubError>>
    BY <1>1, <1>3, <1>8
    DEF PickUp, PastGeneration, Orderliness, OneByOne, errors
  <2> DEFINE q == [job[j] EXCEPT !.step = "running"]
  <2>2. /\ IsPostJob(q) /\ q.kind = "content" /\ q.step = "running"
        /\ job'[j] = q /\ \A k \in Jobs : k # j => job'[k] = job[k]
    BY <1>5, <1>6, <2>1 DEF PostSteps
  <2> HIDE DEF q
  <2> QED
    BY <1>1, <1>2, <1>3, <1>4, <2>1, <2>2, OrderlyContent
<1>9. CASE Claim(j)
  <2>1. /\ status' = "working" /\ Goto(j, "claimed") /\ UNCHANGED <<approvals, pubError>>
    BY <1>3, <1>9 DEF Claim, errors
  <2> DEFINE q == [job[j] EXCEPT !.step = "claimed"]
  <2>2. /\ IsPostJob(q) /\ q.kind = "content" /\ q.step = "claimed"
        /\ job'[j] = q /\ \A k \in Jobs : k # j => job'[k] = job[k]
    BY <1>5, <1>6, <2>1 DEF PostSteps
  <2> HIDE DEF q
  <2> QED
    BY <1>1, <1>2, <1>3, <1>4, <2>1, <2>2, OrderlyContent
<1>10. CASE Store(j)
  <2>1. /\ status' = status /\ status = "working" /\ approvals' = <<>> /\ ~pubError'
        /\ job' = [job EXCEPT ![j].step = "stored", ![j].ver = edition + 1]
    BY <1>1, <1>3, <1>10 DEF Store, Finished, Stored, NewRow
  <2> DEFINE q == [job[j] EXCEPT !.step = "stored", !.ver = edition + 1]
  <2>2. /\ q.kind = "content" /\ q.step = "stored"
        /\ job'[j] = q /\ \A k \in Jobs : k # j => job'[k] = job[k]
    BY <1>1, <2>1 DEF Job
  <2>3. IsPostJob(q)
    BY <2>2 DEF IsPostJob, PostSteps
  <2> HIDE DEF q
  <2> QED
    BY <1>1, <1>2, <1>4, <2>1, <2>2, <2>3, OrderlyContent
<1>11. CASE ToReview(j)
  <2>1. /\ status' = "in_review" /\ Goto(j, "reviewed") /\ UNCHANGED <<approvals, pubError>>
    BY <1>11 DEF ToReview, errors
  <2> DEFINE q == [job[j] EXCEPT !.step = "reviewed"]
  <2>2. /\ IsPostJob(q) /\ q.kind = "content" /\ q.step = "reviewed"
        /\ job'[j] = q /\ \A k \in Jobs : k # j => job'[k] = job[k]
    BY <1>5, <1>6, <2>1 DEF PostSteps
  <2> HIDE DEF q
  <2> QED
    BY <1>1, <1>2, <1>3, <1>4, <2>1, <2>2, OrderlyContent
<1>12. CASE WorkflowFails(j) \/ AckFailure(j)
  <2>1. PICK s \in {"failing", "reported", "leaving"} :
          Goto(j, s) /\ UNCHANGED <<approvals, status, pubError>>
    BY <1>12 DEF WorkflowFails, AckFailure, errors
  <2> DEFINE q == [job[j] EXCEPT !.step = s]
  <2>2. /\ IsPostJob(q) /\ q.kind = "content" /\ q.step = s
        /\ job'[j] = q /\ \A k \in Jobs : k # j => job'[k] = job[k]
    BY <1>5, <1>6, <2>1 DEF PostSteps
  <2> HIDE DEF q
  <2> QED
    BY <1>1, <1>2, <1>3, <1>4, <2>1, <2>2, OrderlyContent
<1>13. CASE ReleaseStuck(j)
  <2>1. /\ status' = "failed" /\ genError' /\ UNCHANGED <<approvals, pubError>>
        /\ Goto(j, "settling") \/ Acked(j)
    BY <1>3, <1>13 DEF ReleaseStuck, InFlight
  <2>2. CASE Goto(j, "settling")
    <3> DEFINE q == [job[j] EXCEPT !.step = "settling"]
    <3>2. /\ IsPostJob(q) /\ q.kind = "content" /\ q.step = "settling"
          /\ job'[j] = q /\ \A k \in Jobs : k # j => job'[k] = job[k]
      BY <1>5, <1>6, <2>2 DEF PostSteps
    <3> HIDE DEF q
    <3> QED
      BY <1>1, <1>2, <1>3, <1>4, <2>1, <3>2, OrderlyContent
  <2>3. CASE Acked(j)
    <3>1. job'[j] = NoJob /\ NoJob.step = "free" /\ \A k \in Jobs : k # j => job'[k] = job[k]
      BY <1>1, <2>3 DEF Acked, NoJob
    <3> QED
      BY <1>1, <1>2, <1>3, <1>4, <1>7, <2>1, <3>1, OrderlyContent
  <2> QED
    BY <2>1, <2>2, <2>3
<1> QED
  BY <1>8, <1>9, <1>10, <1>11, <1>12, <1>13

\* The content job asks for the first approval there is.
LEMMA AskOrderly ==
  ASSUME Orderliness, faults' = 0, NEW j \in Jobs, AskApproval(j)
  PROVE  Orderly'
<1>1. /\ job[j].step = "reviewed" /\ job[j].kind = "content"
      /\ job[j] \in Job /\ job \in [Jobs -> Job]
  BY DEF AskApproval, Orderliness, Orderly, OnlyPosts, IsPostJob, EditSteps, TypeOK,
     ActorTypes
<1>2. status \in {"in_review", "working"} /\ approvals = <<>> /\ Pending = {}
  BY <1>1, PendingIsLast DEF AtReview, Orderliness, Orderly, ReviewShows
<1>3. /\ job'[j] = [job[j] EXCEPT !.step = "settling"]
      /\ \A k \in Jobs : k # j => job'[k] = job[k]
      /\ approvals' = Asked(job[j].ver)
      /\ UNCHANGED <<status, req, genError, pubError, pub>>
  BY <1>1 DEF AskApproval, AskFails, Goto, errors, Orderliness, TypeOK, HistoryTypes
<1>4. /\ Len(approvals') = Len(approvals) + 1 /\ Pending' = {Len(approvals')}
      /\ approvals' \in Seq(Approval)
  <2>1. job[j].ver \in Nat
    BY <1>1 DEF Job
  <2> QED
    BY <1>2, <1>3, <2>1, AskedAdds, PendingIsLast
<1>5. approvals' # <<>>
  BY <1>4, PendingIsLast, EmptySeq
<1>6. \A k \in Jobs : k # j => job[k].kind = "none" \/ job[k].step = "sent"
  BY <1>1, JobAlone
<1>7. \A k \in Jobs : /\ ~AtReview(k)'
                      /\ Labours(k)' = Labours(k)
                      /\ job'[k].kind = job[k].kind /\ job'[k].prior = job[k].prior
                      /\ Labours(k) => job'[k] = job[k] /\ job[k].step = "sent"
  BY <1>1, <1>3, <1>6, JobAlone DEF AtReview, Labours, Job
<1>8. \A k \in Jobs : Labours(k) => job[k].kind # "content"
  BY <1>2, <1>7 DEF Orderliness, Orderly, LabourShows
<1>9. OnlyPosts'
  BY <1>1, <1>3 DEF OnlyPosts, IsPostJob, PostSteps, Job, Orderliness, Orderly
<1>10. OneLabours' /\ ReviewShows' /\ Latest'
  BY <1>4, <1>7 DEF OneLabours, ReviewShows, Latest, Orderliness, Orderly
<1>11. LabourShows' /\ StatusShows'
  BY <1>2, <1>3, <1>5, <1>7, <1>8
  DEF LabourShows, StatusShows, Edits, Orderliness, Orderly
<1>12. \A r \in Requests : req[r].op \notin {"patch", "decide"}
  BY <1>2 DEF Orderliness, Orderly, RequestShows, Patching, Resolving
<1>13. RequestShows'
  BY <1>3, <1>5, <1>7, <1>12
  DEF RequestShows, Patching, Resolving, Triggering, NoneLabours, Orderliness, Orderly
<1>14. ReviewIsDue' /\ RebrandIsDue'
  BY <1>4 DEF ReviewIsDue, RebrandIsDue, OpenOrAsked
<1>15. EditIsDue'
  BY <1>3, <1>4, <1>5, <1>7 DEF EditIsDue, Edits, OpenOrAsked
<1> QED
  BY <1>9, <1>10, <1>11, <1>13, <1>14, <1>15 DEF Orderly

\* A finished message is acknowledged.
LEMMA SettleOrderly ==
  ASSUME Orderliness, NEW j \in Jobs, Settle(j)
  PROVE  Orderly'
<1>1. /\ job[j].step = "settling" /\ job'[j] = NoJob
      /\ \A k \in Jobs : k # j => job'[k] = job[k]
      /\ UNCHANGED <<status, approvals, req, genError, pubError, pub>>
  BY DEF Settle, Acked, errors, Orderliness, TypeOK, ActorTypes
<1>2. \A k \in Jobs : /\ Labours(k)' = Labours(k) /\ AtReview(k)' = AtReview(k)
                      /\ Labours(k) => job'[k] = job[k]
  BY <1>1 DEF Labours, AtReview, NoJob
<1>3. OnlyPosts'
  BY <1>1 DEF OnlyPosts, IsPostJob, NoJob, Orderliness, Orderly
<1>4. Pending' = Pending /\ OpenOrAsked' = OpenOrAsked
  BY <1>1, <1>2 DEF Pending, OpenOrAsked
<1>5. OneLabours' /\ LabourShows' /\ ReviewShows' /\ StatusShows' /\ Latest'
  BY <1>1, <1>2, <1>4
  DEF OneLabours, LabourShows, Edits, ReviewShows, StatusShows, Latest, NoRequest,
      Orderliness, Orderly
<1>6. RequestShows' /\ ReviewIsDue' /\ RebrandIsDue'
  BY <1>1, <1>2, <1>4
  DEF RequestShows, Patching, Resolving, Triggering, NoneLabours, ReviewIsDue, Reopening,
      RebrandIsDue, Orderliness, Orderly
<1>7. EditIsDue'
  BY <1>1, <1>2, <1>4 DEF EditIsDue, Edits, Orderliness, Orderly
<1> QED
  BY <1>3, <1>5, <1>6, <1>7 DEF Orderly

\* The generation is asked for where there is neither a message nor a trigger.
LEMMA SendOrderly ==
  ASSUME Orderliness, SendGeneration
  PROVE  Orderly'
<1>1. status = "queued" /\ approvals = <<>> /\ NoRequest /\ Live = {}
  BY DEF SendGeneration, Orderliness, OneByOne, Orderly, StatusShows
<1>2. PICK j \in Jobs :
        /\ job'[j] = [kind |-> "content", step |-> "sent", ver |-> 0, prior |-> "queued"]
        /\ \A k \in Jobs : k # j => job'[k] = job[k]
  BY DEF SendGeneration, Send, Orderliness, TypeOK, ActorTypes
<1>3. UNCHANGED <<status, approvals, req, genError, pubError, pub>>
  BY DEF SendGeneration, errors
<1>4. \A k \in Jobs : job[k].kind = "none"
  BY <1>1 DEF Live
<1>5. OnlyPosts'
  BY <1>2, <1>3 DEF OnlyPosts, IsPostJob, PostSteps, Orderliness, Orderly
<1>6. \A k \in Jobs : ~AtReview(k)' /\ (k # j => ~Labours(k)')
  BY <1>2, <1>4 DEF AtReview, Labours, Orderliness, Orderly, OnlyPosts, IsPostJob
<1>7. OneLabours' /\ LabourShows' /\ ReviewShows' /\ EditIsDue'
  BY <1>1, <1>2, <1>3, <1>6
  DEF OneLabours, LabourShows, Edits, ReviewShows, EditIsDue, NoRequest
<1>8. StatusShows' /\ Latest' /\ ReviewIsDue'
  BY <1>1, <1>3
  DEF StatusShows, Latest, Pending, NoRequest, ReviewIsDue, Orderliness, Orderly
<1>9. RequestShows' /\ RebrandIsDue'
  BY <1>1, <1>3
  DEF RequestShows, Patching, Resolving, Triggering, RebrandIsDue, NoRequest
<1> QED
  BY <1>5, <1>7, <1>8, <1>9 DEF Orderly

\* A step that leaves the number of faults at zero is none of them.
LEMMA CalmStep ==
  ASSUME TypeOK, [Next]_vars, faults' = 0
  PROVE  /\ faults = 0 /\ ~WorkerDies
         /\ (\A r \in Requests : ~ApiFails(r)) /\ (\A j \in Jobs : ~TimesOut(j))
<1>1. faults \in Nat
  BY DEF TypeOK, HistoryTypes
<1>2. ~WorkerDies /\ (\A r \in Requests : ~ApiFails(r)) /\ (\A j \in Jobs : ~TimesOut(j))
  BY <1>1 DEF WorkerDies, ApiFails, TimesOut
<1>3. faults' \in {faults, faults + 1}
  BY ZenonT(60) DEF vars, Next, NewRequest, RequestStep, JobStep, PublisherStep, DecideClick,
     PatchClick, PutRequest, TriggerRead, DecideRead, DecideValidate, DecideCommit,
     UpdateRead, UpdateCommit, Reopen, ReopenCommit, TriggerCommit, TriggerSend, ApiFails,
     CreateContent, SendGeneration, PickUp, Claim, Render, Store, LinkVideo, ToReview,
     AskApproval, AskFails, PickUpEdit, Edit, EditChecks, EditAsks, Release, Settle,
     VideoFails, WorkflowFails, AckFailure, ReleaseStuck, TimesOut, WorkerDies,
     PublishStart, PublishSucceeds, PublishFails, PublishGivesUp
<1> QED
  BY <1>1, <1>2, <1>3

\* Every step until the first fault.
LEMMA OrderlyStep ==
  ASSUME OneByOne
  PROVE  /\ TypeOK /\ OnePerLane /\ (faults = 0 => Orderly) /\ [Next]_vars
         => (faults' = 0 => Orderly')
<1> SUFFICES ASSUME TypeOK, OnePerLane, faults = 0 => Orderly, [Next]_vars, faults' = 0
             PROVE  Orderly'
  OBVIOUS
<1>1. /\ faults = 0
      /\ ~WorkerDies /\ (\A r \in Requests : ~ApiFails(r)) /\ (\A j \in Jobs : ~TimesOut(j))
  BY CalmStep
<1>2. Orderliness
  BY <1>1 DEF Orderliness
<1>3. CASE UNCHANGED vars
  BY <1>2, <1>3
  DEF vars, errors, Orderliness, Orderly, OnlyPosts, OneLabours, LabourShows, ReviewShows,
      StatusShows, RequestShows, Patching, Resolving, Triggering, NoneLabours, Latest,
      ReviewIsDue, RebrandIsDue, EditIsDue, Reopening, OpenOrAsked, Pending, AtReview,
      Labours, Edits, NoRequest
<1>4. ASSUME NEW r \in Requests, NewRequest(r) \/ RequestStep(r) PROVE Orderly'
  BY <1>2, <1>4, ClickOrderly, ReadOrderly, DecideOrderly, UpdateOrderly, ReopenOrderly,
     TriggerOrderly DEF RequestStep
<1>5. ASSUME NEW j \in Jobs, JobStep(j) PROVE Orderly'
  <2>1. ~(Render(j) \/ LinkVideo(j) \/ VideoFails(j))
    BY <1>2
    DEF Render, LinkVideo, VideoFails, Orderliness, Orderly, OnlyPosts, IsPostJob, PostSteps,
        EditSteps
  <2> QED
    BY <1>1, <1>2, <1>5, <2>1, ContentOrderly, AskOrderly, EditOrderly, EditAsksOrderly,
       ReleaseOrderly, SettleOrderly DEF JobStep
<1>6. CASE SendGeneration
  BY <1>2, <1>6, SendOrderly
<1>7. ~CreateContent /\ ~PublisherStep
  BY <1>2
  DEF CreateContent, PublisherStep, PublishStart, PublishSucceeds, PublishFails,
      PublishGivesUp, Orderliness, OneByOne, Orderly, StatusShows
<1> QED
  BY <1>1, <1>3, <1>4, <1>5, <1>6, <1>7 DEF Next

\* The order holds from the start.
LEMMA OrderlyInit == Init => Orderly
  BY EmptySeq
  DEF Init, Orderly, OnlyPosts, IsPostJob, OneLabours, Labours, LabourShows, ReviewShows,
      AtReview, StatusShows, NoRequest, RequestShows, Patching, Resolving, Triggering, Latest,
      Pending, ReviewIsDue, RebrandIsDue, EditIsDue, NoReq, NoJob

\* No item is at rest in review without an open approval.
LEMMA OrderlyMeans ==
  ASSUME TypeOK, Calm
  PROVE  ReviewIsOpen
<1> SUFFICES ASSUME Orderly, Quiet, status = "in_review"
             PROVE  OpenOrAsked /\ \A j \in Jobs : ~AtReview(j)
  BY DEF Calm, ReviewIsOpen, OpenOrAsked
<1>1. \A j \in Jobs : ~AtReview(j)
  BY DEF Quiet, Live, AtReview, Orderly, OnlyPosts, IsPostJob
<1>2. \A r \in Requests : ~Reopening(r)
  BY DEF Quiet, Busy, Reopening
<1> QED
  BY <1>1, <1>2 DEF Orderly, ReviewIsDue

\* Until the first fault the flow of a post is in order.
LEMMA InOrder == ASSUME OneByOne PROVE Spec => []Calm
<1>1. Init => Calm
  BY OrderlyInit DEF Calm
<1>2. TypeOK /\ OnePerLane /\ Calm /\ [Next]_vars => Calm'
  BY OrderlyStep DEF Calm
<1> QED
  BY <1>1, <1>2, Typing, OneJobPerLane, PTL DEF Spec

\* Every way into review brings an approval that can be decided: the content
\* job's, the regeneration's, the PATCH's, or the one that was open when a
\* rebrand began.
THEOREM ReviewOpens == ASSUME OneByOne PROVE Spec => []ReviewIsOpen
<1>1. TypeOK /\ Calm => ReviewIsOpen
  BY OrderlyMeans
<1> QED
  BY <1>1, InOrder, Typing, PTL

\* No job labours at an item that a reviewer scheduled: what the worker still
\* does for it changes no status.
THEOREM DecisionsStand == ASSUME OneByOne PROVE Spec => WorkerRespectsDecision
<1> DEFINE Respects == faults' = 0 /\ job' # job /\ req' = req
                       /\ status \in {"scheduled", "publishing", "published"}
                       => status' = status
<1>1. TypeOK /\ OnePerLane /\ Calm /\ [Next]_vars
      => [Respects]_vars
  <2> SUFFICES ASSUME TypeOK, OnePerLane, Calm, [Next]_vars,
                      faults' = 0, job' # job, req' = req,
                      status \in {"scheduled", "publishing", "published"}
               PROVE  status' = status
    OBVIOUS
  <2>1. Orderliness /\ faults = 0
    BY CalmStep DEF Calm, Orderliness
  <2>2. NoneLabours /\ \A j \in Jobs : ~AtReview(j)
    BY <2>1, WhoLabours DEF Orderliness, Orderly, StatusShows
  <2>3. ASSUME NEW j \in Jobs, JobStep(j) PROVE Settle(j)
    <3>1. IsPostJob(job[j]) /\ job[j].step \in {"free", "settling"}
      BY <2>1, <2>2 DEF Orderliness, Orderly, OnlyPosts, IsPostJob, NoneLabours, Labours, AtReview
    <3> QED
      BY <2>3, <3>1
      DEF JobStep, PickUp, Claim, Render, Store, Finished, LinkVideo, ToReview, AskApproval,
          PickUpEdit, Edit, EditChecks, EditAsks, Release, VideoFails, WorkflowFails,
          AckFailure, ReleaseStuck
  <2>4. CASE \E j \in Jobs : JobStep(j)
    BY <2>3, <2>4 DEF Settle
  <2>5. CASE SendGeneration
    BY <2>5 DEF SendGeneration
  <2>6. CASE \E r \in Requests : NewRequest(r) \/ RequestStep(r)
    <3>1. PICK r \in Requests : TriggerSend(r)
      BY <2>6
      DEF NewRequest, RequestStep, DecideClick, PatchClick, PutRequest, TriggerRead,
          DecideRead, DecideValidate, DecideCommit, UpdateRead, UpdateCommit, Reopen,
          ReopenCommit, TriggerCommit
    <3> QED
      BY <3>1 DEF TriggerSend
  <2>7. ~CreateContent /\ ~PublisherStep
    BY DEF CreateContent, PublisherStep, PublishStart, PublishSucceeds, PublishFails,
       PublishGivesUp
  <2> QED
    BY <2>4, <2>5, <2>6, <2>7, CalmStep DEF Next, vars
<1> QED
  BY <1>1, InOrder, Typing, OneJobPerLane, PTL DEF Spec, WorkerRespectsDecision
=============================================================================

----------------------------- MODULE ReviewFlow -----------------------------
(***************************************************************************)
(* The life of one calendar item between the API (approvals, PATCH and     *)
(* PUT, the regenerate, rebrand and render endpoints), the agents' worker  *)
(* (content, video, image regeneration and logo jobs, each a message that  *)
(* is acknowledged at the end) and the publisher.                          *)
(*                                                                         *)
(* One action is the code between two suspension points: a statement that  *)
(* auto-commits, a transaction, a message. A request and a job remember    *)
(* what they read earlier. Content is abstracted to two counters: every    *)
(* write of the current row's text or image starts a new edition, and a    *)
(* version is a row, named by its first edition.                           *)
(***************************************************************************)
EXTENDS Naturals, Sequences, FiniteSets

CONSTANTS
  Requests,      \* slots for API requests (bounds their concurrency)
  Jobs,          \* slots for messages and the jobs they start
  Ops,           \* the operations in use, see Operations
  Clicks,        \* PATCHes the UI offers: pairs <<status shown, new status>>
  Puts,          \* PUTs of a status in use, pairs as above
  IsReel,        \* is the item a reel (item_type)?
  Duplicates,    \* may a generation message be sent while one is outstanding?
  Faults,        \* the faults that occur, a subset of FaultKinds
  MaxFaults,     \* bound: faults
  MaxEditions,   \* bound: no new work once this many editions exist
  MaxApprovals   \* bound: no new work once this many approvals exist

Statuses == {"queued", "working", "rendering", "in_review", "reworking",
             "scheduled", "publishing", "published", "failed"}
Triggers == {"regen", "rebrand", "render"}
ApiOps == {"decide", "patch", "put"} \cup Triggers
Operations == {"create", "publish"} \cup ApiOps
FaultKinds == {"worker", "late", "api", "timeout", "ask", "edit"}
Verdicts == {"approved", "rejected"}

\* The status buttons of the content page: Cancel, Pass to In Review, Retry.
UIClicks == {<<"scheduled", "in_review">>, <<"reworking", "in_review">>,
             <<"failed", "scheduled">>}

ASSUME ReviewAssumption ==
  /\ Ops \subseteq Operations
  /\ Clicks \subseteq Statuses \X Statuses
  /\ Puts \subseteq Statuses \X Statuses
  /\ IsReel \in BOOLEAN /\ Duplicates \in BOOLEAN
  /\ Faults \subseteq FaultKinds
  /\ MaxFaults \in Nat /\ MaxEditions \in Nat /\ MaxApprovals \in Nat

VARIABLES
  status,     \* calendar_items.status
  version,    \* the content row with is_current, 0 when there is none
  edition,    \* the latest edition of any row
  reel,       \* does the current row carry a video_url?
  genError,   \* is last_error recorded on the item?
  pubError,   \* is publish_error recorded on the current row?
  approvals,  \* the item's approvals by created_at: content row and status
  req,        \* req[r]: an API request in progress
  job,        \* job[j]: a message, and what the worker does with it
  pub,        \* the edition the publisher holds, 0 when it is idle
  faults,
  vetted,     \* history: has an approval of the item been given?
  handed      \* history: editions the publisher was given

content == <<version, edition, reel>>
errors  == <<genError, pubError>>
history == <<vetted, handed>>
vars == <<status, content, errors, approvals, req, job, pub, faults, history>>

NoReq == [op |-> "none", step |-> "idle", seen |-> "queued", ref |-> 0,
          to |-> "queued"]
NoJob == [kind |-> "none", step |-> "free", ver |-> 0, prior |-> "queued"]

-----------------------------------------------------------------------------
(* Helpers. *)

\* VALID_TRANSITIONS, without the reset to 'queued' that is always allowed.
VALID_TRANSITIONS ==
  {<<"queued", "working">>, <<"working", "in_review">>, <<"working", "failed">>,
   <<"in_review", "scheduled">>, <<"in_review", "reworking">>,
   <<"reworking", "in_review">>, <<"scheduled", "published">>,
   <<"scheduled", "failed">>, <<"failed", "scheduled">>}

Pending == {a \in DOMAIN approvals : approvals[a].state = "pending"}
Asked(ver) == Append(approvals, [ver |-> ver, state |-> "pending"])
Live == {j \in Jobs : job[j].kind # "none"}
Busy == {r \in Requests : req[r].op # "none"}

\* Room for one more approval and edition, within the bounds.
Room == /\ edition + Cardinality(Live) < MaxEditions
        /\ Len(approvals) + Cardinality(Live) + Cardinality(Busy) < MaxApprovals

Reply(r) == req' = [req EXCEPT ![r] = NoReq]
GoOn(r, step) == req' = [req EXCEPT ![r].step = step]
Acked(j) == job' = [job EXCEPT ![j] = NoJob]
Goto(j, step) == job' = [job EXCEPT ![j].step = step]

Send(kind, ver, prior) ==
  \E j \in Jobs :
    /\ job[j] = NoJob
    /\ job' = [job EXCEPT ![j] = [kind |-> kind, step |-> "sent", ver |-> ver,
                                  prior |-> prior]]

Init ==
  /\ status = "queued"
  /\ version = 0 /\ edition = 0 /\ reel = FALSE
  /\ genError = FALSE /\ pubError = FALSE
  /\ approvals = <<>>
  /\ req = [r \in Requests |-> NoReq]
  /\ job = [j \in Jobs |-> NoJob]
  /\ pub = 0
  /\ faults = 0
  /\ vetted = FALSE /\ handed = {}

-----------------------------------------------------------------------------
(* API: a decision on an approval, resolve_approval.                       *)

\* A reviewer opens the page: it shows the current content and a pending
\* approval, and the click comes later.
DecideClick(r, a, verdict) ==
  /\ "decide" \in Ops
  /\ req[r] = NoReq
  /\ a \in Pending
  /\ req' = [req EXCEPT ![r] = [op |-> "decide", step |-> "clicked",
                                seen |-> status, ref |-> a, to |-> verdict]]
  /\ UNCHANGED <<status, content, errors, approvals, job, pub, faults, history>>

\* get_approval; an approval that is resolved by now is refused.
DecideRead(r) ==
  /\ req[r].op = "decide" /\ req[r].step = "clicked"
  /\ IF req[r].ref \in Pending THEN GoOn(r, "read") ELSE Reply(r)
  /\ UNCHANGED <<status, content, errors, approvals, job, pub, faults, history>>

Target(verdict) == IF verdict = "approved" THEN "scheduled" ELSE "reworking"

\* The autoflush of the next SELECT writes the approval, which locks its row
\* until the commit; the item is read and _validate_transition may refuse.
DecideValidate(r) ==
  /\ req[r].op = "decide" /\ req[r].step = "read"
  /\ \A s \in Requests \ {r} :
       ~(req[s].op = "decide" /\ req[s].step = "decided"
         /\ req[s].ref = req[r].ref)
  /\ IF <<status, Target(req[r].to)>> \in VALID_TRANSITIONS
     THEN GoOn(r, "decided") ELSE Reply(r)
  /\ UNCHANGED <<status, content, errors, approvals, job, pub, faults, history>>

DecideCommit(r) ==
  /\ req[r].op = "decide" /\ req[r].step = "decided"
  /\ status' = Target(req[r].to)
  /\ approvals' = [approvals EXCEPT ![req[r].ref].state = req[r].to]
  /\ vetted' = (vetted \/ req[r].to = "approved")
  /\ Reply(r)
  /\ UNCHANGED <<content, errors, job, pub, faults, handed>>

-----------------------------------------------------------------------------
(* API: a PATCH or PUT of the item's status.                                *)

\* "Retry publish" is shown unless only a generation error is recorded.
RetryShown == pubError \/ ~genError

\* Mutant: the page offers the retry whatever failed.
PatchClickBlind(r, to) ==
  /\ "patch" \in Ops
  /\ req[r] = NoReq
  /\ <<status, to>> \in Clicks
  /\ Room
  /\ req' = [req EXCEPT ![r] = [NoReq EXCEPT !.op = "patch",
                                             !.step = "clicked", !.to = to]]
  /\ UNCHANGED <<status, content, errors, approvals, job, pub, faults, history>>

\* The page shows the status and offers its buttons; the click comes later.
PatchClick(r, to) ==
  /\ "patch" \in Ops
  /\ req[r] = NoReq
  /\ <<status, to>> \in Clicks
  /\ status = "failed" => RetryShown
  /\ Room
  /\ req' = [req EXCEPT ![r] = [NoReq EXCEPT !.op = "patch",
                                             !.step = "clicked", !.to = to]]
  /\ UNCHANGED <<status, content, errors, approvals, job, pub, faults, history>>

PutRequest(r, to) ==
  /\ "put" \in Ops
  /\ req[r] = NoReq
  /\ <<status, to>> \in Puts
  /\ req' = [req EXCEPT ![r] = [NoReq EXCEPT !.op = "put",
                                             !.step = "clicked", !.to = to]]
  /\ UNCHANGED <<status, content, errors, approvals, job, pub, faults, history>>

\* The row is read, whatever its status, and old_status is kept.
UpdateRead(r) ==
  /\ req[r].op \in {"patch", "put"} /\ req[r].step = "clicked"
  /\ req' = [req EXCEPT ![r].step = "read", ![r].seen = status]
  /\ UNCHANGED <<status, content, errors, approvals, job, pub, faults, history>>

\* The ORM writes the status only when it differs from the one that was read.
UpdateCommit(r) ==
  /\ req[r].op \in {"patch", "put"} /\ req[r].step = "read"
  /\ status' = IF req[r].to = req[r].seen THEN status ELSE req[r].to
  /\ IF req[r].op = "patch" /\ req[r].seen # "in_review"
     THEN GoOn(r, "committed") ELSE Reply(r)
  /\ UNCHANGED <<content, errors, approvals, job, pub, faults, history>>

\* Mutant: PATCH does not recreate the approval.
NoReopen(r) ==
  /\ req[r].op = "patch" /\ req[r].step = "committed"
  /\ Reply(r)
  /\ UNCHANGED <<status, content, errors, approvals, job, pub, faults, history>>

\* The refreshed row and the most recent approval decide whether one is due.
Reopen(r) ==
  /\ req[r].op = "patch" /\ req[r].step = "committed"
  /\ IF /\ status = "in_review"
        /\ approvals # <<>>
        /\ approvals[Len(approvals)].state # "pending"
     THEN req' = [req EXCEPT ![r].step = "reopening",
                             ![r].ref = approvals[Len(approvals)].ver]
     ELSE Reply(r)
  /\ UNCHANGED <<status, content, errors, approvals, job, pub, faults, history>>

ReopenCommit(r) ==
  /\ req[r].op = "patch" /\ req[r].step = "reopening"
  /\ approvals' = Asked(req[r].ref)
  /\ Reply(r)
  /\ UNCHANGED <<status, content, errors, job, pub, faults, history>>

-----------------------------------------------------------------------------
(* API: image regeneration, rebranding and rendering flip the status and then *)
(* send a message; new content.                                             *)

Allowed(op) ==
  CASE op = "regen"   -> {"in_review", "reworking", "failed"}
    [] op = "rebrand" -> {"in_review", "reworking"}
    [] op = "render"  -> {"queued", "in_review", "failed"}
Flipped(op) == IF op = "render" THEN "queued" ELSE "working"

\* Mutant: the endpoint does not test the status before it flips it.
TriggerFromAny(r, op) ==
  /\ op \in Ops \cap Triggers
  /\ req[r] = NoReq
  /\ version > 0
  /\ Room
  /\ req' = [req EXCEPT ![r] = [NoReq EXCEPT !.op = op, !.step = "read",
                                  !.seen = status, !.ref = version]]
  /\ UNCHANGED <<status, content, errors, approvals, job, pub, faults, history>>

TriggerRead(r, op) ==
  /\ op \in Ops \cap Triggers
  /\ req[r] = NoReq
  /\ version > 0 /\ status \in Allowed(op)
  /\ Room
  /\ req' = [req EXCEPT ![r] = [NoReq EXCEPT !.op = op, !.step = "read",
                                  !.seen = status, !.ref = version]]
  /\ UNCHANGED <<status, content, errors, approvals, job, pub, faults, history>>

TriggerCommit(r) ==
  /\ req[r].op \in Triggers /\ req[r].step = "read"
  /\ status' = IF req[r].seen = Flipped(req[r].op) THEN status
               ELSE Flipped(req[r].op)
  /\ GoOn(r, "committed")
  /\ UNCHANGED <<content, errors, approvals, job, pub, faults, history>>

\* Only the rebrand carries the status to restore.
TriggerSend(r) ==
  /\ req[r].op \in Triggers /\ req[r].step = "committed"
  /\ IF req[r].op = "render" THEN Send("video", 0, "queued")
     ELSE Send(req[r].op, req[r].ref,
               IF req[r].op = "regen" THEN "in_review" ELSE req[r].seen)
  /\ Reply(r)
  /\ UNCHANGED <<status, content, errors, approvals, pub, faults, history>>

NewRow ==
  /\ edition' = edition + 1
  /\ version' = edition + 1
  /\ reel' = FALSE
  /\ pubError' = FALSE
  /\ UNCHANGED genError

\* create_content: demotion and insert in one transaction.
CreateContent ==
  /\ "create" \in Ops
  /\ Room
  /\ NewRow
  /\ UNCHANGED <<status, approvals, req, job, pub, faults, history>>

\* The backend dies, or the message cannot be sent: the rest is not done.
ApiFails(r) ==
  /\ "api" \in Faults /\ faults < MaxFaults
  /\ req[r] # NoReq
  /\ faults' = faults + 1
  /\ Reply(r)
  /\ UNCHANGED <<status, content, errors, approvals, job, pub, history>>

\* The creation of a queued item, and the morning top-up of queued items.
SendGeneration ==
  /\ status = "queued"
  /\ Duplicates \/ (Live = {} /\ \A r \in Requests : req[r].op \notin Triggers)
  /\ Room
  /\ Send("content", 0, "queued")
  /\ UNCHANGED <<status, content, errors, approvals, req, pub, faults, history>>

-----------------------------------------------------------------------------
(* The worker. The content subjects share one subscription, whose callback   *)
(* handles one message at a time; video.render has its own.                 *)

Lane(j) == IF job[j].kind = "video" THEN "video" ELSE "content"
LaneFree(j) ==
  \A k \in Live \ {j} : Lane(k) = Lane(j) => job[k].step = "sent"
Generates(j) == job[j].kind \in {"content", "video"}
Edits(j)     == job[j].kind \in {"regen", "rebrand"}

\* The guard of _handle_message: generated items are acknowledged and skipped.
PastGeneration(j) ==
  \/ status \in {"in_review", "scheduled", "published"}
  \/ job[j].kind = "video" /\ reel /\ status # "queued"

PickUp(j) ==
  /\ Generates(j) /\ job[j].step = "sent" /\ LaneFree(j)
  /\ CASE PastGeneration(j) -> Acked(j)
       [] ~PastGeneration(j) /\ job[j].kind = "content" /\ IsReel ->
            IF status = "queued"
            THEN job' = [job EXCEPT ![j].kind = "video"]
            ELSE Acked(j)
       [] OTHER -> Goto(j, "running")
  /\ UNCHANGED <<status, content, errors, approvals, req, pub, faults, history>>

\* load_context claims a queued item; another status is left as it is.
Claim(j) ==
  /\ Generates(j) /\ job[j].step = "running"
  /\ status' = IF status = "queued" THEN "working" ELSE status
  /\ Goto(j, "claimed")
  /\ UNCHANGED <<content, errors, approvals, req, pub, faults, history>>

\* load_video_context: 'rendering', whatever the status was.
Render(j) ==
  /\ job[j].kind = "video" /\ job[j].step = "claimed"
  /\ status' = "rendering"
  /\ Goto(j, "rendering")
  /\ UNCHANGED <<content, errors, approvals, req, pub, faults, history>>

Finished(j) == \/ job[j].kind = "content" /\ job[j].step = "claimed"
               \/ job[j].kind = "video" /\ job[j].step = "rendering"

Stored(j) == IF job[j].kind = "video" THEN "inserted" ELSE "stored"

\* Mutant: the open approvals of the old version are not resolved.
StoreOnly(j) ==
  /\ Finished(j)
  /\ NewRow
  /\ job' = [job EXCEPT ![j].step = Stored(j), ![j].ver = edition + 1]
  /\ UNCHANGED <<status, approvals, req, pub, faults, history>>

\* store_content: demotion, resolution of the pending approvals and insert in
\* one transaction, which waits for the row lock of a decision.
Store(j) ==
  /\ Finished(j)
  /\ \A r \in Requests : ~(req[r].op = "decide" /\ req[r].step = "decided"
                           /\ req[r].ref \in Pending)
  /\ NewRow
  /\ approvals' = [a \in DOMAIN approvals |->
                     IF a \in Pending
                     THEN [approvals[a] EXCEPT !.state = "revision"]
                     ELSE approvals[a]]
  /\ job' = [job EXCEPT ![j].step = Stored(j), ![j].ver = edition + 1]
  /\ UNCHANGED <<status, req, pub, faults, history>>

\* store_video adds the video_url to the row it inserted.
LinkVideo(j) ==
  /\ job[j].step = "inserted"
  /\ reel' = (reel \/ job[j].ver = version)
  /\ Goto(j, "stored")
  /\ UNCHANGED <<status, version, edition, errors, approvals, req, pub, faults,
                 history>>

\* 'in_review', whatever the status was.
ToReview(j) ==
  /\ job[j].step = "stored"
  /\ status' = "in_review"
  /\ Goto(j, "reviewed")
  /\ UNCHANGED <<content, errors, approvals, req, pub, faults, history>>

AskFails == "ask" \in Faults /\ faults < MaxFaults /\ faults' = faults + 1

\* The approval is best effort: a failed insert is only logged.
AskApproval(j) ==
  /\ job[j].step = "reviewed"
  /\ \/ approvals' = Asked(job[j].ver) /\ UNCHANGED faults
     \/ AskFails /\ UNCHANGED approvals
  /\ Goto(j, "settling")
  /\ UNCHANGED <<status, content, errors, req, pub, history>>

\* _handle_image_regeneration and _handle_logo_rebrand: 'working', whatever the
\* status was.
PickUpEdit(j) ==
  /\ Edits(j) /\ job[j].step = "sent" /\ LaneFree(j)
  /\ status' = "working"
  /\ Goto(j, "claimed")
  /\ UNCHANGED <<content, errors, approvals, req, pub, faults, history>>

\* The image of the row the message names is replaced in place, or the attempt
\* fails; a regeneration then looks for a pending approval.
Edit(j) ==
  /\ Edits(j) /\ job[j].step = "claimed"
  /\ \/ /\ edition' = IF job[j].ver = version THEN edition + 1 ELSE edition
        /\ Goto(j, IF job[j].kind = "regen" THEN "edited" ELSE "releasing")
        /\ UNCHANGED faults
     \/ /\ "edit" \in Faults /\ faults < MaxFaults
        /\ faults' = faults + 1
        /\ Goto(j, "releasing")
        /\ UNCHANGED edition
  /\ UNCHANGED <<status, version, reel, errors, approvals, req, pub, history>>

EditChecks(j) ==
  /\ job[j].step = "edited"
  /\ Goto(j, IF Pending = {} THEN "asking" ELSE "releasing")
  /\ UNCHANGED <<status, content, errors, approvals, req, pub, faults, history>>

EditAsks(j) ==
  /\ job[j].step = "asking"
  /\ \/ approvals' = Asked(job[j].ver) /\ UNCHANGED faults
     \/ AskFails /\ UNCHANGED approvals
  /\ Goto(j, "releasing")
  /\ UNCHANGED <<status, content, errors, req, pub, history>>

\* Mutant: the job ends without a release.
NoRelease(j) ==
  /\ job[j].step = "releasing"
  /\ Goto(j, "settling")
  /\ UNCHANGED <<status, content, errors, approvals, req, pub, faults, history>>

\* The finally clause releases the handler's own 'working' only.
Release(j) ==
  /\ job[j].step = "releasing"
  /\ status' = IF status = "working" THEN job[j].prior ELSE status
  /\ Goto(j, "settling")
  /\ UNCHANGED <<content, errors, approvals, req, pub, faults, history>>

Settle(j) ==
  /\ job[j].step = "settling"
  /\ Acked(j)
  /\ UNCHANGED <<status, content, errors, approvals, req, pub, faults, history>>

\* The video graph's _fail: 'failed', whatever the status was.
VideoFails(j) ==
  /\ job[j].kind = "video"
  /\ job[j].step \in {"running", "claimed", "rendering", "inserted",
                     "stored"}
  /\ status' = "failed"
  /\ genError' = TRUE
  /\ Goto(j, "reported")
  /\ UNCHANGED <<content, pubError, approvals, req, pub, faults, history>>

\* The workflow raises, or reports a failure in its result.
WorkflowFails(j) ==
  /\ Generates(j)
  /\ job[j].step \in {"running", "claimed", "rendering", "inserted",
                     "stored"}
  /\ Goto(j, "failing") \/ Goto(j, "reported")
  /\ UNCHANGED <<status, content, errors, approvals, req, pub, faults, history>>

\* A reported failure is acknowledged before the item is released.
AckFailure(j) ==
  /\ job[j].step = "reported"
  /\ Goto(j, "leaving")
  /\ UNCHANGED <<status, content, errors, approvals, req, pub, faults, history>>

InFlight(j) == {"working"} \cup
               IF job[j].kind = "video" THEN {"rendering"} ELSE {}

\* Mutant: the release leaves 'queued' items alone.
ReleaseInFlight(j) ==
  /\ job[j].step \in {"failing", "leaving"}
  /\ IF status \in InFlight(j)
     THEN status' = "failed" /\ genError' = TRUE
     ELSE UNCHANGED <<status, genError>>
  /\ IF job[j].step = "failing" THEN Goto(j, "settling") ELSE Acked(j)
  /\ UNCHANGED <<content, pubError, approvals, req, pub, faults, history>>

\* _release_stuck_calendar_item, a compare-and-set. No delivery follows, so
\* the item must leave 'queued' too.
ReleaseStuck(j) ==
  /\ job[j].step \in {"failing", "leaving"}
  /\ IF status \in InFlight(j) \cup {"queued"}
     THEN status' = "failed" /\ genError' = TRUE
     ELSE UNCHANGED <<status, genError>>
  /\ IF job[j].step = "failing" THEN Goto(j, "settling") ELSE Acked(j)
  /\ UNCHANGED <<content, pubError, approvals, req, pub, faults, history>>

\* The workflow exceeds its time: the item fails, the message is redelivered.
TimesOut(j) ==
  /\ "timeout" \in Faults /\ faults < MaxFaults
  /\ Generates(j)
  /\ job[j].step \in {"running", "claimed", "rendering", "inserted", "stored",
                     "reviewed"}
  /\ faults' = faults + 1
  /\ IF status \in InFlight(j)
     THEN status' = "failed" /\ genError' = TRUE
     ELSE UNCHANGED <<status, genError>>
  /\ Goto(j, "sent")
  /\ UNCHANGED <<content, pubError, approvals, req, pub, history>>

\* The worker dies: what is not acknowledged is delivered again. The fault
\* "late" is a death between a job's acknowledgement and its last write.
WorkerDies ==
  /\ "worker" \in Faults /\ faults < MaxFaults
  /\ \E j \in Live : job[j].step # "sent"
  /\ (\E j \in Live : job[j].step = "leaving") => "late" \in Faults
  /\ faults' = faults + 1
  /\ job' = [j \in Jobs |-> IF j \in Live /\ job[j].step # "leaving"
                            THEN [job[j] EXCEPT !.step = "sent"] ELSE NoJob]
  /\ UNCHANGED <<status, content, errors, approvals, req, pub, history>>

-----------------------------------------------------------------------------
(* The publisher, of which PublishPipeline is the detail: it claims a         *)
(* scheduled item that has content and posts what is current then.            *)

PublishStart ==
  /\ "publish" \in Ops
  /\ status = "scheduled" /\ version > 0 /\ pub = 0
  /\ status' = "publishing"
  /\ pub' = edition
  /\ handed' = handed \cup {edition}
  /\ UNCHANGED <<content, errors, approvals, req, job, faults, vetted>>

\* record_publish_result writes the row by its id.
PublishSucceeds ==
  /\ pub > 0
  /\ status' = "published"
  /\ pub' = 0
  /\ UNCHANGED <<content, errors, approvals, req, job, faults, history>>

PublishFails ==
  /\ pub > 0
  /\ status' = "failed"
  /\ pubError' = (pubError \/ pub >= version)
  /\ pub' = 0
  /\ UNCHANGED <<content, genError, approvals, req, job, faults, history>>

\* A release back to 'scheduled'; a sweep of a claim nobody finished.
PublishGivesUp ==
  /\ pub > 0
  /\ IF status = "publishing" THEN status' \in {"scheduled", "failed"}
     ELSE UNCHANGED status
  /\ pub' = 0
  /\ UNCHANGED <<content, errors, approvals, req, job, faults, history>>

-----------------------------------------------------------------------------
RequestStep(r) ==
  \/ DecideRead(r) \/ DecideValidate(r) \/ DecideCommit(r)
  \/ UpdateRead(r) \/ UpdateCommit(r) \/ Reopen(r) \/ ReopenCommit(r)
  \/ TriggerCommit(r) \/ TriggerSend(r)

NewRequest(r) ==
  \/ \E a \in DOMAIN approvals, v \in Verdicts : DecideClick(r, a, v)
  \/ \E st \in Statuses : PatchClick(r, st) \/ PutRequest(r, st)
  \/ \E op \in Triggers : TriggerRead(r, op)

JobStep(j) ==
  \/ PickUp(j) \/ Claim(j) \/ Render(j) \/ Store(j) \/ LinkVideo(j)
  \/ ToReview(j) \/ AskApproval(j)
  \/ PickUpEdit(j) \/ Edit(j) \/ EditChecks(j) \/ EditAsks(j) \/ Release(j)
  \/ Settle(j) \/ VideoFails(j) \/ WorkflowFails(j) \/ AckFailure(j)
  \/ ReleaseStuck(j)

PublisherStep ==
  PublishStart \/ PublishSucceeds \/ PublishFails \/ PublishGivesUp

Next ==
  \/ \E r \in Requests : NewRequest(r) \/ RequestStep(r) \/ ApiFails(r)
  \/ CreateContent \/ SendGeneration
  \/ \E j \in Jobs : JobStep(j) \/ TimesOut(j)
  \/ WorkerDies
  \/ PublisherStep

Spec == Init /\ [][Next]_vars

\* A request runs to its end and so does a job: model calls have timeouts. The
\* stream delivers in order, so no message waits for ever behind younger ones
\* (strong fairness of the pick-up).
Fairness ==
  /\ \A r \in Requests : WF_vars(RequestStep(r))
  /\ \A j \in Jobs :
       WF_vars(JobStep(j)) /\ SF_vars(PickUp(j) \/ PickUpEdit(j))
  /\ WF_vars(SendGeneration)
FairSpec == Spec /\ Fairness

-----------------------------------------------------------------------------
(* Properties. *)

Quiet == Live = {} /\ Busy = {} /\ pub = 0

\* An item at rest in review can be decided: a pending approval exists. Every
\* entry into review must bring one (patch_calendar_item, the tails of the
\* content, video and regeneration jobs), or the item strands. Faults can
\* strand one: the approval is asked for best-effort, after the status.
ReviewIsOpen ==
  Quiet /\ faults = 0 /\ status = "in_review" => Pending # {}

\* At most one approval of the item is open, so one decision settles it: a PATCH
\* into review asks for one only when none is ("No-op if a pending one already
\* exists", _recreate_pending_approval_on_return).
OneOpenApproval == Cardinality(Pending) <= 1

\* An open approval is about the current content row: what the reviewer
\* decides about is what would be published.
NoStaleApproval == \A a \in Pending : approvals[a].ver = version

\* The worker never takes an item away from the publisher: no job step changes
\* the status of an item that is scheduled, being published or published,
\* unless a fault lets a late or repeated job meet it.
WorkerRespectsDecision ==
  [][faults' = 0 /\ job' # job /\ req' = req /\ status \in {"scheduled", "publishing",
                                             "published"}
     => status' = status]_vars

\* Nothing goes to the publisher before a reviewer approved some version of the
\* item: no PUT, retry, duplicate or crash schedules what nobody has seen.
NothingAutoPublishes == handed # {} => vetted

\* "A recorded publish_error means the post already passed review and died at
\* the publishing step", so the content page offers to schedule it again: what
\* is on offer was given to the publisher before.
RetryPassedReview == status = "failed" /\ pubError => edition \in handed

\* 'working' and 'rendering' are transient: whatever fails, the item gets back
\* to a status that somebody can act on.
WorkIsLeft ==
  status \in {"working", "rendering"}
  ~> status \notin {"working", "rendering"}

\* A queued item is eventually generated or failed.
QueuedIsServed == status = "queued" ~> status # "queued"
=============================================================================

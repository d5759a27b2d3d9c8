------------------------------ MODULE Learning ------------------------------
(***************************************************************************)
(* The learning loop of a brand (backend scheduler/engagement_puller.py and *)
(* api/v1/learning.py; agents workflows/evaluation and adaptation).  Posts  *)
(* are measured, an evaluation turns the measures into recommendations that *)
(* are stored as proposed, and an adaptation run shows the pending ones to  *)
(* an operator, the low tiers first, and applies what was approved.  An     *)
(* operator may also decide on one through the API, at any moment.  Only a  *)
(* run that is running holds the lock of its kind: several may be paused.   *)
(*                                                                         *)
(* A recommendation is its tier and status.  Words, scores and confidence   *)
(* are left out, and so is the content row an evaluation anchors them to:   *)
(* the best post that was measured has one.                                 *)
(***************************************************************************)
EXTENDS Naturals, Sequences, FiniteSets

CONSTANTS
    Posts,    \* published posts, by channel
    Runs,     \* adaptation runs, numbered as they start
    Written,  \* what the model may write as a tier, 0 is no tier
    MaxDays,  \* morning jobs
    MaxRows   \* recommendations ever stored

VARIABLES
    day,     \* morning jobs so far
    due,     \* posts the pull has still to measure
    snaps,   \* the latest engagement_metrics row of each post
    eval,    \* the node of the evaluation, or "idle"
    drafted, \* the recommendations' tiers as the model wrote them
    rows,    \* adaptations
    runs,    \* the adaptation runs
    waiting, \* adaptation.trigger messages not yet handled
    replans, \* planning.trigger messages sent
    ordered  \* history: the recommendations somebody said to apply

learn_vars == <<day, due, snaps, eval, drafted, rows, runs, waiting, replans, ordered>>

MAX_ADAPTATION_REVISIONS == 2
MAX_CHAIN_DEPTH == 2

\* The morning job's message carries no chain_depth; a chained one has one more.
EvaluationDepth == 0
AdaptationDepth == EvaluationDepth + 1

NoRun == [node |-> "none", stage |-> 2, loaded |-> {}, shown |-> {}, rounds |-> 0, applied |-> {}]

InitLearn ==
    /\ day = 0 /\ due = {} /\ snaps = [post \in Posts |-> "none"]
    /\ eval = "idle" /\ drafted = <<>> /\ rows = <<>>
    /\ runs = [run \in Runs |-> NoRun]
    /\ waiting = 0 /\ replans = 0 /\ ordered = {}

----------------------------------------------------------------------------
(* Engagement *)

\* The first thing of a morning; its evaluation follows.
pull_all_engagement ==
    /\ day < MaxDays /\ due = {} /\ eval = "idle"
    /\ day' = day + 1 /\ due' = Posts /\ eval' = "pull"
    /\ UNCHANGED <<snaps, drafted, rows, runs, waiting, replans, ordered>>

\* Where each call of a pull is guarded, a platform that answers nothing is
\* measured as zero.
pull_meta_insights == {"measured", "zero"}

\* Elsewhere the pull raises and the post keeps the measure it had.
pull_other_insights(post) == {"measured", snaps[post]}

Insights(post) ==
    IF post \in {"instagram", "facebook"} THEN pull_meta_insights ELSE pull_other_insights(post)

\* A commit that fails leaves the session unusable, and ends the pull.
upsert_engagement ==
    /\ \E post \in due :
         \/ /\ \E snap \in Insights(post) : snaps' = [snaps EXCEPT ![post] = snap]
            /\ due' = due \ {post}
         \/ due' = {} /\ UNCHANGED snaps
    /\ UNCHANGED <<day, eval, drafted, rows, runs, waiting, replans, ordered>>

----------------------------------------------------------------------------
(* Evaluation, "idle" until the morning's message is there *)

GotoStep(next) == eval' = next
GotoStepOrFail(next) == eval' \in {next, "idle"}

get_performance_data == {post \in Posts : snaps[post] # "none"}

\* With nothing measured the run fails.
load_performance ==
    /\ eval = "pull" /\ due = {}
    /\ IF get_performance_data = {} THEN GotoStep("idle") ELSE GotoStepOrFail("analyze")
    /\ UNCHANGED <<day, due, snaps, drafted, rows, runs, waiting, replans, ordered>>

analyze_patterns ==
    /\ eval = "analyze" /\ GotoStepOrFail("recommend")
    /\ UNCHANGED <<day, due, snaps, drafted, rows, runs, waiting, replans, ordered>>

\* Something always comes out: an answer that cannot be parsed becomes one
\* recommendation, one without a list becomes none.
generate_recommendations ==
    /\ eval = "recommend" /\ GotoStepOrFail("classify")
    /\ UNCHANGED <<day, due, snaps, drafted, rows, runs, waiting, replans, ordered>>

\* The model's tier may be no tier at all, 0.
classify_adaptations ==
    /\ eval = "classify" /\ GotoStepOrFail("store")
    /\ \E n \in 0..(MaxRows - Len(rows)) : drafted' \in [1..n -> Written]
    /\ UNCHANGED <<day, due, snaps, rows, runs, waiting, replans, ordered>>

_lift_adaptation_row(tier) == IF tier \in 1..3 THEN tier ELSE 2

Recommendation(tier) == [tier |-> _lift_adaptation_row(tier), status |-> "proposed"]

\* All or none, in one transaction.  A completed evaluation chains to an
\* adaptation, with nothing to store too.
store_adaptations ==
    /\ eval = "store"
    /\ \/ /\ rows' = rows \o [i \in DOMAIN drafted |-> Recommendation(drafted[i])]
          /\ waiting' = waiting + 1
       \/ UNCHANGED <<rows, waiting>>
    /\ GotoStep("idle") /\ drafted' = <<>>
    /\ UNCHANGED <<day, due, snaps, runs, replans, ordered>>

----------------------------------------------------------------------------
(* The operator, one recommendation at a time *)

Decidable == {i \in DOMAIN rows : rows[i].status = "proposed"}

\* Compare and set: a recommendation that was decided answers 409.
decide_adaptation ==
    /\ \E i \in Decidable, action \in {"applied", "rejected"} :
         /\ rows' = [rows EXCEPT ![i].status = action]
         /\ ordered' = IF action = "applied" THEN ordered \cup {i} ELSE ordered
    /\ UNCHANGED <<day, due, snaps, eval, drafted, runs, waiting, replans>>

----------------------------------------------------------------------------
(* An adaptation run *)

Running(run) == runs[run].node \in {"load", "propose", "approved", "revise"}

\* The partial unique index admits one running run of a kind; the message of a
\* second is refused and given back.
Free == \A run \in Runs : ~Running(run)

StartRun(run) ==
    /\ waiting > 0 /\ Free /\ runs[run].node = "none"
    /\ \A earlier \in Runs : earlier < run => runs[earlier].node # "none"
    /\ waiting' = waiting - 1
    /\ runs' = [runs EXCEPT ![run].node = "load"]
    /\ UNCHANGED <<day, due, snaps, eval, drafted, rows, replans, ordered>>

get_pending_adaptations == Decidable

\* With none pending the graph goes through with nothing to show.
load_adaptations(run) ==
    /\ runs[run].node = "load"
    /\ runs' = [runs EXCEPT ![run].node = "propose", ![run].loaded = get_pending_adaptations]
    /\ UNCHANGED <<day, due, snaps, eval, drafted, rows, waiting, replans, ordered>>

StageTiers(stage) == IF stage = 2 THEN {1, 2} ELSE {3}

\* Mutant: what is pending is read again each time the node runs.
PendingNow(run) == {i \in get_pending_adaptations : rows[i].tier \in StageTiers(runs[run].stage)}

\* What a stage is about was read when the run began, whatever was decided or
\* stored since.
Stage(run) == {i \in runs[run].loaded : rows[i].tier \in StageTiers(runs[run].stage)}

\* The feedback loop to planning is for tiers 2 and 3, and not for a run as deep
\* as a chain may be.  A chained run already is, and no other exists.
Replans(run) ==
    /\ \E i \in runs[run].applied : rows[i].tier \in {2, 3}
    /\ AdaptationDepth + 1 < MAX_CHAIN_DEPTH

\* From the first stage on to the second, from the second to the end.
Advance(run) ==
    IF runs[run].stage = 2
    THEN /\ runs' = [runs EXCEPT ![run].stage = 3, ![run].rounds = 0, ![run].node = "propose"]
         /\ UNCHANGED replans
    ELSE /\ runs' = [runs EXCEPT ![run].node = "completed"]
         /\ replans' = IF Replans(run) THEN replans + 1 ELSE replans

\* An empty stage is passed over; otherwise the run pauses.
propose(run) ==
    /\ runs[run].node = "propose"
    /\ \/ Stage(run) = {} /\ Advance(run)
       \/ /\ Stage(run) # {}
          /\ runs' = [runs EXCEPT ![run].node = "asked", ![run].shown = Stage(run)]
          /\ UNCHANGED replans
    /\ UNCHANGED <<day, due, snaps, eval, drafted, rows, waiting, ordered>>

\* The operator's answer resumes the run, unless another one is running.
\* Anything but an approval is a rejection; the last one fails the run.
Decide(run) ==
    /\ runs[run].node = "asked" /\ Free
    /\ \/ /\ runs' = [runs EXCEPT ![run].node = "approved"]
          /\ ordered' = ordered \cup runs[run].shown
       \/ /\ runs' = [runs EXCEPT ![run].node =
                         IF runs[run].rounds >= MAX_ADAPTATION_REVISIONS THEN "failed" ELSE "revise"]
          /\ UNCHANGED ordered
    /\ UNCHANGED <<day, due, snaps, eval, drafted, rows, waiting, replans>>

revise(run) ==
    /\ runs[run].node = "revise"
    /\ runs' = [runs EXCEPT ![run].rounds = @ + 1, ![run].node = "propose"]
    /\ UNCHANGED <<day, due, snaps, eval, drafted, rows, waiting, replans, ordered>>

\* An approval is carried out row by row, each in its own transaction; the row
\* is set whatever it says by now.
update_adaptation_status(run) ==
    /\ runs[run].node = "approved"
    /\ \E i \in Stage(run) \ runs[run].applied :
         /\ \A j \in Stage(run) \ runs[run].applied : i <= j
         /\ rows' = [rows EXCEPT ![i].status = "applied"]
         /\ runs' = [runs EXCEPT ![run].applied = @ \cup {i}]
    /\ UNCHANGED <<day, due, snaps, eval, drafted, waiting, replans, ordered>>

Applied(run) ==
    /\ runs[run].node = "approved" /\ Stage(run) \subseteq runs[run].applied
    /\ Advance(run)
    /\ UNCHANGED <<day, due, snaps, eval, drafted, rows, waiting, ordered>>

\* A call that raises or a worker that dies: what was written stays.
FailRun(run) ==
    /\ Running(run)
    /\ runs' = [runs EXCEPT ![run].node = "failed"]
    /\ UNCHANGED <<day, due, snaps, eval, drafted, rows, waiting, replans, ordered>>

NextLearn ==
    \/ pull_all_engagement \/ upsert_engagement
    \/ load_performance \/ analyze_patterns \/ generate_recommendations
    \/ classify_adaptations \/ store_adaptations \/ decide_adaptation
    \/ \E run \in Runs :
         \/ StartRun(run) \/ load_adaptations(run) \/ propose(run) \/ Decide(run)
         \/ revise(run) \/ update_adaptation_status(run) \/ Applied(run) \/ FailRun(run)

LearnSpec == InitLearn /\ [][NextLearn]_learn_vars

----------------------------------------------------------------------------
(* Properties *)

\* A recommendation is applied only because somebody said so of that one: an
\* approval of a pause covers what the pause showed, and not what was stored
\* while it waited ("Ids never presented stay 'proposed'", adaptation/nodes.py).
AppliedWasSaid == \A i \in DOMAIN rows : rows[i].status = "applied" => i \in ordered

=============================================================================

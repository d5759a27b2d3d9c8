------------------------------ MODULE VideoReel ------------------------------
(***************************************************************************)
(* One run of the video graph (agents/workflows/video): load_context ->     *)
(* source_product_image -> plan_shots -> make_keyframe -> render_video ->   *)
(* store_video.  The graph has no checkpointer, so a run is one pass; every *)
(* call that leaves the process (a language model, a video provider,        *)
(* ffmpeg, the database) is a step that may fail.                           *)
(*                                                                         *)
(* render_video is the heart of it: a plan of shots is fitted to what the   *)
(* providers can render, tried as one native multishot call when the forge  *)
(* offers it, and otherwise rendered shot by shot, each shot starting from  *)
(* the last frame of the one before or, at a cut, from a generated still.   *)
(* Pictures are abstracted to where they come from: how many generations a  *)
(* start frame is away from a still is what the chaining rules are about.   *)
(* Durations are in quarters of a second.                                   *)
(***************************************************************************)
EXTENDS Integers, Sequences, FiniteSets

CONSTANTS
    PlanSizes,       \* numbers of shots a plan may hold after normalisation
    Tiers,           \* quality tiers of the runs, within {"standard", "hero"}
    ChainCap,        \* _MAX_CHAIN_DEPTH
    MaxMotionRetries \* _MAX_MOTION_RETRIES

ASSUME ReelAssumption ==
    /\ PlanSizes \subseteq Nat \ {0}
    /\ Tiers \subseteq {"standard", "hero"}
    /\ ChainCap \in Nat /\ MaxMotionRetries \in Nat

VARIABLES
    reel_node, \* where the run is
    reel_item, \* calendar_items.status
    tier,      \* state.quality_tier
    reel_plan, \* number of planned shots; 0 before plan_shots
    capable,   \* state.native_multishot_capable
    anchors,   \* domain of anchor_frames: planned shots with a still; 0 is the keyframe
    shots,     \* fitted: for each shot to render, the planned shot it shows
    num,       \* render_video's num, the length it goes on working with
    total,     \* requested seconds of the fitted reel
    chain,     \* chain_image, the frame the next shot starts from
    home,      \* anchor_image, the frame re-anchors fall back to
    depth,     \* chain_depth
    clips,     \* shot_metas: start frame and verdict of each kept clip
    calls,     \* idempotency keys of the provider calls, in order
    paid,      \* provider calls that returned a clip, each billed one unit
    cost,      \* total_cost, or video_meta.cost_usd once the render is done
    reel_job,  \* the video_jobs row: none, or its status and cost
    content    \* whether the run stored a content row

shot_plan == <<tier, reel_plan, capable, anchors>>
loop_vars == <<shots, num, total, chain, home, depth, clips>>
bill_vars == <<calls, paid, cost>>
row_vars  == <<reel_item, reel_job, content>>
reel_vars == <<reel_node, shot_plan, loop_vars, bill_vars, row_vars>>

----------------------------------------------------------------------------
(* Frames *)

NoFrame == [src |-> "none", of |-> 0, gen |-> 0]
Still(p) == [src |-> "still", of |-> p, gen |-> 0]
LastOf(i, start) == [src |-> "last", of |-> i, gen |-> start.gen + 1]

(* Fitting a plan to renderable clips *)

TargetTotal == 120   \* TARGET_TOTAL_S
MaxTotal == 140      \* TARGET_MAX_TOTAL_S
Clip   == [lo |-> 12, hi |-> 20, least |-> 4]  \* chained and hero calls
Native == [lo |-> 20, hi |-> 32, least |-> 3]  \* segments of one native call

Clamp(x, lo, hi) == IF x < lo THEN lo ELSE IF x > hi THEN hi ELSE x

\* What _allocate_durations makes n shots sum to.
Allocated(n, r) == Clamp(TargetTotal, n * r.lo, n * r.hi)

\* The shots _fit_shot_durations keeps: trailing ones go when even minimum
\* lengths pass the ceiling.
Kept(s, r) == SubSeq(s, 1, IF Len(s) * r.lo > MaxTotal THEN MaxTotal \div r.lo ELSE Len(s))

\* idx: the first of the longest shots.
FirstLongest(s) ==
    CHOOSE i \in 1..Len(s) : /\ \A j \in 1..Len(s) : s[j].dur <= s[i].dur
                             /\ \A j \in 1..(i - 1) : s[j].dur < s[i].dur

\* One round of _split_to_min_shots: the first of the longest becomes two.
SplitLongest(s) ==
    LET k == FirstLongest(s)
        half == [s[k] EXCEPT !.dur = @ \div 2]
    IN SubSeq(s, 1, k - 1) \o <<half, half>> \o SubSeq(s, k + 1, Len(s))

\* A plan below the floor is shorter than the target at full length, so all of
\* its clips are at the upper bound when it is split; three rounds are enough.
SplitToMin(ps, r) ==
    LET more(s) == IF Len(s) < r.least THEN SplitLongest(s) ELSE s
        at_hi == [i \in 1..Len(ps) |-> [of |-> ps[i], dur |-> r.hi]]
        split == more(more(more(at_hi)))
    IN [i \in 1..Len(split) |-> split[i].of]

Fit(ps, r) == SplitToMin(Kept(ps, r), r)

\* Veo bills 4s or 6s per shot: as many sixes as the target asks for.
HeroTotal(n) ==
    LET longs == Clamp((TargetTotal - 16 * n) \div 8, 0, n) IN 16 * n + 8 * longs

\* The re-anchor points of a reel chained up to the cap.
AnchorIndices(n) == {i \in 0..(n - 1) : i % (ChainCap + 1) = 0}

UsesNative == tier # "hero" /\ capable

----------------------------------------------------------------------------
(* Failure: item and video_jobs row, each written best-effort *)

FailReel(spent) ==
    /\ reel_node' = "end"
    /\ reel_item' \in {reel_item, "failed"}
    /\ reel_job' \in {reel_job, [status |-> "failed", cost |-> spent]}

InitReel ==
    /\ reel_node = "load_context" /\ reel_item = "working"
    /\ tier \in Tiers /\ reel_plan = 0 /\ capable = FALSE /\ anchors = {}
    /\ shots = <<>> /\ num = 0 /\ total = 0 /\ clips = <<>>
    /\ chain = NoFrame /\ home = NoFrame /\ depth = 0
    /\ calls = <<>> /\ paid = 0 /\ cost = 0
    /\ reel_job = [status |-> "none", cost |-> 0] /\ content = FALSE

LoadContext ==
    /\ reel_node = "load_context"
    /\ \/ reel_node' = "plan_shots" /\ reel_item' = "rendering" /\ UNCHANGED reel_job
       \/ FailReel(0)
    /\ UNCHANGED <<shot_plan, loop_vars, bill_vars, content>>

\* The first answer stands unless it cannot be parsed (one repair call) or is
\* in the wrong language (one more call, kept only when it normalises).
PlanShots ==
    /\ reel_node = "plan_shots"
    /\ \/ /\ reel_plan' \in PlanSizes
          /\ reel_node' = "make_keyframe"
          /\ UNCHANGED <<reel_item, reel_job>>
       \/ FailReel(0) /\ UNCHANGED reel_plan
    /\ UNCHANGED <<tier, capable, anchors, loop_vars, bill_vars, content>>

\* Stills for the cut points; the opening one or none at all.
MakeKeyframe ==
    /\ reel_node = "make_keyframe"
    /\ capable' \in IF tier = "hero" THEN {FALSE} ELSE BOOLEAN
    /\ \/ /\ LET wanted == IF capable' THEN {0} ELSE AnchorIndices(reel_plan)
             IN anchors' \in {{}} \cup {a \in SUBSET wanted : 0 \in a}
          /\ reel_node' = "render_video"
          /\ UNCHANGED <<reel_item, reel_job>>
       \/ FailReel(0) /\ UNCHANGED anchors
    /\ UNCHANGED <<tier, reel_plan, loop_vars, bill_vars, content>>

\* Fit the plan, then choose the path.
RenderVideo ==
    /\ reel_node = "render_video"
    /\ LET r == IF UsesNative THEN Native ELSE Clip
           fitted == Fit([i \in 1..reel_plan |-> i - 1], r)
           first == IF 0 \in anchors THEN Still(0) ELSE NoFrame
       IN /\ shots' = fitted
          /\ num' = Len(fitted)
          /\ total' = IF tier = "hero" THEN HeroTotal(Len(fitted))
                      ELSE Allocated(Len(fitted), r)
          /\ chain' = first /\ home' = first /\ depth' = 0 /\ clips' = <<>>
    /\ reel_node' \in {"single", IF UsesNative THEN "native" ELSE "shot"}
    /\ UNCHANGED <<shot_plan, bill_vars, row_vars>>

\* Without ffmpeg the reel is one call; an error after the clip came back
\* reports a bill of nothing.
RenderSingle ==
    /\ reel_node = "single"
    /\ calls' = Append(calls, <<"reel", 0>>)
    /\ \/ /\ paid' = paid + 1 /\ cost' = 1
          /\ reel_node' = "store_video" /\ UNCHANGED <<reel_item, reel_job>>
       \/ /\ paid' \in {paid, paid + 1} /\ UNCHANGED cost
          /\ FailReel(0)
    /\ UNCHANGED <<shot_plan, loop_vars, content>>

Attempts == Len(calls)

\* Mutant: what the native attempts cost is forgotten.
ChainUnbilled(spent) ==
    LET ps == SplitToMin(shots, Clip) IN
    /\ reel_node' = "shot"
    /\ cost' = 0
    /\ shots' = ps
    /\ total' = Allocated(Len(ps), Clip)
    /\ UNCHANGED <<num, chain, home, depth, clips>>

\* Back to the chained loop: refit to its clip lengths.
Chain(spent) ==
    LET ps == SplitToMin(shots, Clip) IN
    /\ reel_node' = "shot"
    /\ cost' = spent
    /\ shots' = ps
    /\ total' = Allocated(Len(ps), Clip)
    /\ UNCHANGED <<num, chain, home, depth, clips>>

\* One whole-reel call; a frozen or labelled first take is re-rolled once, a
\* labelled second take ships.
RenderNative ==
    /\ reel_node = "native"
    /\ calls' = Append(calls, <<"ms", Attempts + 1>>)
    /\ \/ paid' = paid /\ Chain(cost)                       \* timeout or error
       \/ /\ paid' = paid + 1
          /\ \/ /\ Attempts = 0 /\ cost' = cost + 1         \* re-roll
                /\ UNCHANGED <<reel_node, loop_vars>>
             \/ Chain(cost + 1)     \* frozen twice, too short, finishing failed
             \/ /\ cost' = cost + 1 /\ reel_node' = "store_video"
                /\ UNCHANGED loop_vars
    /\ UNCHANGED <<shot_plan, row_vars>>

\* A take of the next shot: failed, or a clip that moves or does not.
RenderShot ==
    /\ reel_node = "shot"
    /\ calls' = Append(calls, <<"shot", Len(clips)>>)
    /\ \/ /\ FailReel(cost) /\ UNCHANGED <<paid, cost, clips>>
       \/ \E bad \in BOOLEAN :
            /\ paid' = paid + 1 /\ cost' = cost + 1
            /\ clips' = Append(clips, [start |-> chain, bad |-> bad])
            /\ reel_node' = IF /\ bad /\ home # NoFrame /\ depth > 0
                          /\ Cardinality({c \in DOMAIN calls : calls[c][1] = "retry"})
                               < MaxMotionRetries
                       THEN "retry" ELSE "seam"
            /\ UNCHANGED <<reel_item, reel_job>>
    /\ UNCHANGED <<shot_plan, shots, num, total, chain, home, depth, content>>

\* One more take from the fixed frame, kept only when it moves.
RetryShot ==
    /\ reel_node = "retry"
    /\ reel_node' = "seam"
    /\ calls' = Append(calls, <<"retry", Len(clips) - 1>>)
    /\ \/ UNCHANGED <<paid, cost, clips, depth>>            \* the call failed
       \/ /\ paid' = paid + 1 /\ cost' = cost + 1
          /\ \/ UNCHANGED <<clips, depth>>                   \* no better
             \/ /\ clips' = [clips EXCEPT ![Len(clips)] = [start |-> home, bad |-> FALSE]]
                /\ depth' = 0
    /\ UNCHANGED <<shot_plan, shots, num, total, chain, home, row_vars>>

LastClip == clips[Len(clips)]
HasStill == Len(clips) \in anchors   \* anchor_frames.get(i + 1)

\* Mutant: the cap is off by one.
ReanchorsLate == (LastClip.bad \/ depth > ChainCap) /\ (HasStill \/ home # NoFrame)

Reanchors == (LastClip.bad \/ depth >= ChainCap) /\ (HasStill \/ home # NoFrame)
MoreSeams == Len(clips) < num     \* i < num - 1
Onward == IF Len(clips) < Len(shots) THEN "shot" ELSE "finish"

\* A cut: the next shot starts from its own still, or from the fixed frame.
Reanchor ==
    /\ reel_node = "seam" /\ MoreSeams /\ Reanchors
    /\ reel_node' = Onward
    /\ chain' = IF HasStill THEN Still(Len(clips)) ELSE home
    /\ depth' = 0
    /\ UNCHANGED <<shot_plan, shots, num, total, home, clips, bill_vars, row_vars>>

\* No cut: the next shot starts from this clip's last frame, which becomes the
\* fixed frame of a reel that has none.
ChainOn ==
    /\ reel_node = "seam" /\ MoreSeams /\ ~Reanchors
    /\ \/ LET frame == LastOf(Len(clips) - 1, LastClip.start) IN
          /\ reel_node' = Onward
          /\ chain' = frame
          /\ home' = IF home = NoFrame THEN frame ELSE home
          /\ depth' = IF home = NoFrame THEN 0 ELSE depth + 1
          /\ UNCHANGED <<reel_item, reel_job>>
       \/ FailReel(cost) /\ UNCHANGED <<chain, home, depth>>     \* no frame extracted
    /\ UNCHANGED <<shot_plan, shots, num, total, clips, bill_vars, content>>

\* After what the loop takes for the last shot nothing is chained.
LastSeam ==
    /\ reel_node = "seam" /\ ~MoreSeams
    /\ reel_node' = Onward
    /\ UNCHANGED <<shot_plan, loop_vars, bill_vars, row_vars>>

\* Normalise, join (copy, else re-encode), check the length, guard, burn, mix.
FinishReel ==
    /\ reel_node = "finish"
    /\ \/ reel_node' = "store_video" /\ UNCHANGED <<reel_item, reel_job>>
       \/ FailReel(cost)
    /\ UNCHANGED <<shot_plan, loop_vars, bill_vars, content>>

\* Upload, content row, bookkeeping, hand-over: an error anywhere fails the
\* item, whatever is stored by then.
StoreVideo ==
    /\ reel_node = "store_video"
    /\ \/ /\ reel_node' = "end" /\ reel_item' = "in_review" /\ content' = TRUE
          /\ reel_job' = [status |-> "succeeded", cost |-> cost]
       \/ content' \in BOOLEAN /\ FailReel(cost)
    /\ UNCHANGED <<shot_plan, loop_vars, bill_vars>>

NextReel ==
    \/ LoadContext \/ PlanShots \/ MakeKeyframe \/ RenderVideo
    \/ RenderSingle \/ RenderNative \/ RenderShot \/ RetryShot
    \/ Reanchor \/ ChainOn \/ LastSeam \/ FinishReel \/ StoreVideo

ReelSpec == InitReel /\ [][NextReel]_reel_vars

----------------------------------------------------------------------------
(* Properties *)

\* However chains, cuts and retries interleave, no clip starts further from a
\* still than the cap allows; a reel without a keyframe has its first clip's
\* last frame in the still's place, one generation further (nodes.py, the
\* chain_depth and anchor_image bookkeeping of render_video).
DriftBounded ==
    \A c \in DOMAIN clips :
        clips[c].start.gen <= IF 0 \in anchors THEN ChainCap ELSE ChainCap + 1

\* In a reel that has a keyframe no shot starts from the last frame of a clip
\* that ships as frozen or churning, not even after a retry replaced it.
FrozenNotChained ==
    0 \in anchors =>
        \A c \in DOMAIN clips :
            clips[c].start.src = "last" => ~clips[clips[c].start.of + 1].bad

\* Outside the single-call path the video_jobs row carries every render the
\* run paid for: native attempts it gave up on, takes a retry replaced or
\* failed to replace, and shots of a reel that failed later.
CostRecorded ==
    reel_job.status # "none" /\ (\A c \in DOMAIN calls : calls[c][1] # "reel")
        => reel_job.cost = paid

\* A shot after the first starts where the one before ended, from a still made
\* for the beat it shows, or from the reel's fixed frame.
CutOrContinue(c) ==
    LET f == clips[c].start IN
    \/ f.src = "last" /\ f.of = c - 2
    \/ f.src = "still" /\ f.of = shots[c]
    \/ f = home

\* When no beat was split, every cut lands on the still of the shot it opens
\* or on the keyframe, and every other shot continues the one before it.
CutsLandRight ==
    Len(shots) = reel_plan => \A c \in DOMAIN clips : c > 1 => CutOrContinue(c)

\* Whatever fell back, was split or was retried on the way, each clip starts
\* from a frame that is fit to go on from: near a still, not frozen, and that of
\* its own beat when it is a cut (render_video).
SeamsAreSound == DriftBounded /\ FrozenNotChained /\ CutsLandRight

=============================================================================

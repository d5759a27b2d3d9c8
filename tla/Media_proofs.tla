------------------------------ MODULE Media_proofs ------------------------------
(***************************************************************************)
(* What is made and where it goes: the seams and the bill of a reel        *)
(* (VideoReel), the picture a user uploads (ImageEdit) and the outcome     *)
(* that is recorded of an attempt to publish (ChannelPublishers), for      *)
(* every size of a plan or a file, every cap and every number of edits.    *)
(***************************************************************************)
EXTENDS ChannelPublishers, ImageEdit, VideoReel, TLAPS

(* ImageEdit. *)

Objects  == {"none", "background", "branded", "upload"}
PostRows == [base : Objects, shown : Objects, uploaded : BOOLEAN]
Prior    == {"none", "in_review", "reworking", "failed", "working"}
EditStep == {"none", "sent", "context", "draw", "swap", "brand", "mockups", "patch",
             "raised", "release", "fetch", "overlay"}
Edits    == [kind : {"none", "regen", "rebrand"}, step : EditStep, prior : Prior,
             made : Int, name : Objects]
Uploads  == [at : {"none", "read", "stored"}, read : PostRows]

\* The types of what an edit and an upload read and write.
EditTypes ==
    /\ item_status \in Prior
    /\ photos \in Int
    /\ store \in [background : Int, branded : Int, upload : Int]
    /\ edit_row \in PostRows
    /\ edit_job \in Edits
    /\ upload \in Uploads

\* Nothing in flight is of these types.
LEMMA NothingInFlight == NoJob \in Edits /\ NoUpload \in Uploads
  BY DEF NoJob, NoUpload, Edits, Uploads, PostRows, Objects, Prior, EditStep

\* A handler that goes on, or raises, keeps the type of its job.
LEMMA GoesOn ==
    ASSUME EditTypes, NEW s \in EditStep, EditGoto(s)
    PROVE  edit_job' \in Edits
  BY DEF EditTypes, EditGoto, Edits

\* What a patch makes of the row is a row.
LEMMA PatchedIsRow ==
    ASSUME EditTypes, NEW o \in Objects
    PROVE  /\ Merge([shown |-> o]) \in PostRows
           /\ Merge([base |-> "background", shown |-> o]) \in PostRows
           /\ Merge([shown |-> o]).uploaded = edit_row.uploaded
           /\ Merge([base |-> "background", shown |-> o]).uploaded = edit_row.uploaded
  BY DEF EditTypes, Merge, PostRows, Objects

\* Every step keeps the types.
LEMMA EditTypesStep ==
    ASSUME EditTypes, [NextEdit]_edit_vars
    PROVE  EditTypes'
<1>0. EditTypes
  OBVIOUS
<1> USE DEF EditTypes
<1>1. CASE Api
  <2>1. CASE AskRegenerate \/ AskRebrand
    BY <2>1, NothingInFlight
    DEF AskRegenerate, AskRebrand, Accept, NoJob, Edits, Objects, Prior, EditStep
  <2>2. CASE DecideOnPost
    BY <2>2 DEF DecideOnPost, Prior
  <2>3. CASE UploadRead
    BY <2>3 DEF UploadRead, Uploads
  <2>4. CASE UploadStore
    BY <2>4 DEF UploadStore, Uploads
  <2>5. CASE UploadWrite
    <3>1. [upload.read EXCEPT !.shown = "upload", !.uploaded = TRUE] \in PostRows
      BY DEF Uploads, PostRows, Objects
    <3> QED
      BY <2>5, <3>1, NothingInFlight DEF UploadWrite
  <2> QED
    BY <1>1, <2>1, <2>2, <2>3, <2>4, <2>5 DEF Api
<1>2. CASE Regenerate
  <2>1. CASE RegenClaim \/ RegenContext \/ RegenMockups \/ RegenRecord
    BY <1>0, <2>1, GoesOn
    DEF RegenClaim, RegenContext, RegenMockups, RegenRecord, EditRaises, EditStep, Prior
  <2>2. CASE RegenDraw
    <3>1. photos + 1 \in Int
      OBVIOUS
    <3>2. \A n \in Int : [edit_job EXCEPT !.step = "swap", !.made = n] \in Edits
      BY DEF Edits, EditStep
    <3> QED
      BY <1>0, <2>2, <3>1, <3>2, GoesOn DEF RegenDraw, EditRaises, EditStep
  <2>3. CASE RegenStore
    <3>1. [store EXCEPT !.background = edit_job.made]
            \in [background : Int, branded : Int, upload : Int]
      BY DEF Edits
    <3> QED
      BY <1>0, <2>3, <3>1, GoesOn DEF RegenStore, EditRaises, EditStep
  <2>4. CASE RegenBrand
    BY <2>4 DEF RegenBrand, Edits, EditStep, Objects
  <2>5. CASE RegenPatch
    <3>1. edit_job.name \in Objects
      BY DEF Edits
    <3> QED
      BY <1>0, <2>5, <3>1, GoesOn, PatchedIsRow DEF RegenPatch, EditRaises, EditStep
  <2> QED
    BY <1>2, <2>1, <2>2, <2>3, <2>4, <2>5 DEF Regenerate
<1>3. CASE Rebrand
  <2>1. CASE RebrandClaim
    BY <1>0, <2>1, GoesOn DEF RebrandClaim, EditStep, Prior
  <2>2. CASE RebrandFetch
    <3>1. [edit_job EXCEPT !.step = "overlay", !.made = store.background] \in Edits
      BY DEF Edits, EditStep
    <3> QED
      BY <1>0, <2>2, <3>1, GoesOn DEF RebrandFetch, EditStep
  <2>3. CASE RebrandOverlay
    BY <2>3 DEF RebrandOverlay, Edits, EditStep, Objects
  <2>4. CASE RebrandPatch
    <3>1. edit_job.name \in Objects
      BY DEF Edits
    <3> QED
      BY <1>0, <2>4, <3>1, GoesOn, PatchedIsRow DEF RebrandPatch, EditStep
  <2> QED
    BY <1>3, <2>1, <2>2, <2>3, <2>4 DEF Rebrand
<1>4. CASE Release
  <2>1. edit_job.prior \in Prior
    BY DEF Edits
  <2> QED
    BY <1>4, <2>1, NothingInFlight DEF Release, Prior
<1>5. CASE UNCHANGED edit_vars
  BY <1>5 DEF edit_vars
<1> QED
  BY <1>1, <1>2, <1>3, <1>4, <1>5 DEF NextEdit

\* Whatever an edit of the worker read before the upload, and however edits and
\* uploads interleave, no write of the row forgets that the user uploaded.
THEOREM UploadsAreRemembered == EditSpec => UploadIsRemembered
<1>1. InitEdit => EditTypes
  <2> SUFFICES ASSUME InitEdit PROVE EditTypes
    OBVIOUS
  <2>1. edit_row \in PostRows
    <3>1. PICK b \in {"none", "background"} :
            edit_row = [base |-> b, shown |-> "branded", uploaded |-> FALSE]
      BY DEF InitEdit
    <3> QED
      BY <3>1 DEF PostRows, Objects
  <2>2. store \in [background : Int, branded : Int, upload : Int]
    BY DEF InitEdit
  <2> QED
    BY <2>1, <2>2, NothingInFlight DEF InitEdit, EditTypes, Prior
<1>2. EditTypes /\ [NextEdit]_edit_vars => EditTypes'
  BY EditTypesStep
<1>3. EditTypes /\ [NextEdit]_edit_vars =>
        [edit_row.uploaded => edit_row'.uploaded]_edit_vars
  <2> SUFFICES ASSUME EditTypes, NextEdit, edit_row.uploaded
               PROVE  edit_row'.uploaded
    OBVIOUS
  <2> USE DEF EditTypes
  <2>0. edit_job.name \in Objects
    BY DEF Edits
  <2>1. CASE UploadWrite
    BY <2>1 DEF UploadWrite, Uploads, PostRows
  <2>2. CASE RegenPatch
    BY <2>0, <2>2, PatchedIsRow DEF RegenPatch, EditRaises
  <2>3. CASE RebrandPatch
    BY <2>0, <2>3, PatchedIsRow DEF RebrandPatch
  <2> QED
    BY <2>1, <2>2, <2>3
    DEF NextEdit, Api, Regenerate, Rebrand, AskRegenerate, AskRebrand, Accept,
        DecideOnPost, UploadRead, UploadStore, RegenClaim, RegenContext, RegenDraw,
        RegenStore, RegenBrand, RegenMockups, RegenRecord, Release, RebrandClaim,
        RebrandFetch, RebrandOverlay, EditRaises
<1> QED
  BY <1>1, <1>2, <1>3, PTL DEF EditSpec, UploadIsRemembered
----------------------------------------------------------------------------
(* VideoReel: fitting a plan. *)

Timed == [of : Nat, dur : Nat]

\* Sequences joined.
LEMMA Joined ==
    ASSUME NEW S, NEW a \in Seq(S), NEW b \in Seq(S)
    PROVE  a \o b \in Seq(S) /\ Len(a \o b) = Len(a) + Len(b)
  OBVIOUS

\* One round of the split makes a plan of at most three shots one shot longer.
LEMMA OneMore ==
    ASSUME NEW s \in Seq(Timed), Len(s) >= 1, Len(s) <= 3
    PROVE  SplitLongest(s) \in Seq(Timed) /\ Len(SplitLongest(s)) = Len(s) + 1
<1> DEFINE longest(i) == /\ \A j \in 1..Len(s) : s[j].dur <= s[i].dur
                         /\ \A j \in 1..(i - 1) : s[j].dur < s[i].dur
           k == FirstLongest(s)
           half == [s[k] EXCEPT !.dur = @ \div 2]
<1>1. \A i \in 1..Len(s) : s[i].dur \in Nat
  <2>1. \A i \in 1..Len(s) : s[i] \in Timed
    OBVIOUS
  <2>2. \A t \in Timed : t.dur \in Nat
    BY DEF Timed
  <2> QED
    BY <2>1, <2>2
<1>2. \E i \in 1..Len(s) : longest(i)
  <2>1. CASE Len(s) = 1
    BY <1>1, <2>1
  <2>2. CASE Len(s) = 2
    <3>1. CASE s[1].dur >= s[2].dur
      <4>1. longest(1)
        BY <1>1, <2>2, <3>1
      <4> QED
        BY <2>2, <4>1
    <3>2. CASE s[1].dur < s[2].dur
      <4>1. longest(2)
        BY <1>1, <2>2, <3>2
      <4> QED
        BY <2>2, <4>1
    <3> QED
      BY <1>1, <2>2, <3>1, <3>2
  <2>3. CASE Len(s) = 3
    <3>1. CASE s[1].dur >= s[2].dur /\ s[1].dur >= s[3].dur
      <4>1. longest(1)
        BY <1>1, <2>3, <3>1
      <4> QED
        BY <2>3, <4>1
    <3>2. CASE s[1].dur < s[2].dur /\ s[2].dur >= s[3].dur
      <4>1. longest(2)
        BY <1>1, <2>3, <3>2
      <4> QED
        BY <2>3, <4>1
    <3>3. CASE s[1].dur < s[3].dur /\ s[2].dur < s[3].dur
      <4>1. longest(3)
        BY <1>1, <2>3, <3>3
      <4> QED
        BY <2>3, <4>1
    <3> QED
      BY <1>1, <2>3, <3>1, <3>2, <3>3
  <2>4. Len(s) = 1 \/ Len(s) = 2 \/ Len(s) = 3
    <3>1. Len(s) \in Nat
      OBVIOUS
    <3>2. \A n \in Nat : n >= 1 /\ n <= 3 => n = 1 \/ n = 2 \/ n = 3
      OBVIOUS
    <3> QED
      BY <3>1, <3>2
  <2> QED
    BY <2>1, <2>2, <2>3, <2>4
<1>3. k \in 1..Len(s)
  BY <1>2 DEF FirstLongest
<1>4. half \in Timed
  <2>1. s[k] \in Timed
    BY <1>3
  <2>2. s[k].dur \div 2 \in Nat
    BY <1>1, <1>3
  <2> QED
    BY <2>1, <2>2 DEF Timed
<1> DEFINE before == SubSeq(s, 1, k - 1)
           after == SubSeq(s, k + 1, Len(s))
<1>5. SplitLongest(s) = before \o <<half, half>> \o after
  BY DEF SplitLongest
<1> HIDE DEF k, half
<1>6. before \in Seq(Timed) /\ Len(before) = k - 1
  BY <1>3
<1>7. after \in Seq(Timed) /\ Len(after) = Len(s) - k
  BY <1>3
<1>8. <<half, half>> \in Seq(Timed) /\ Len(<<half, half>>) = 2
  BY <1>4
<1> DEFINE upto == before \o <<half, half>>
<1> HIDE DEF before, after
<1>9. upto \in Seq(Timed) /\ Len(upto) = Len(before) + 2
  BY <1>6, <1>8, Joined
<1> HIDE DEF upto
<1>10. upto \o after \in Seq(Timed) /\ Len(upto \o after) = Len(upto) + Len(after)
  BY <1>7, <1>9, Joined
<1>11. SplitLongest(s) = upto \o after
  BY <1>5 DEF upto
<1>12. Len(upto) + Len(after) = Len(s) + 1
  BY <1>3, <1>6, <1>7, <1>9
<1> QED
  BY <1>10, <1>11, <1>12

Ranges == {Clip, Native}

\* A plan at the floor or above it is not split; one below it grows.
LEMMA SplitGrows ==
    ASSUME NEW ps \in Seq(Nat), ps # <<>>, NEW r \in Ranges
    PROVE  /\ SplitToMin(ps, r) \in Seq(Nat)
           /\ Len(ps) >= r.least => SplitToMin(ps, r) = ps
           /\ Len(ps) < r.least => Len(SplitToMin(ps, r)) > Len(ps)
<1> DEFINE more(s) == IF Len(s) < r.least THEN SplitLongest(s) ELSE s
           at_hi == [i \in 1..Len(ps) |-> [of |-> ps[i], dur |-> r.hi]]
           split == more(more(more(at_hi)))
<1>1. r.least \in Nat /\ r.least >= 3 /\ r.least <= 4 /\ r.hi \in Nat
  BY DEF Ranges, Clip, Native
<1>2. at_hi \in Seq(Timed) /\ Len(at_hi) = Len(ps) /\ Len(ps) >= 1
  BY <1>1 DEF Timed
<1>3. ASSUME NEW s \in Seq(Timed), Len(s) >= 1
      PROVE  /\ more(s) \in Seq(Timed) /\ Len(more(s)) >= Len(s)
             /\ Len(s) < r.least => Len(more(s)) > Len(s)
             /\ Len(s) >= r.least => more(s) = s
  <2>1. CASE Len(s) < r.least
    <3>1. Len(s) <= 3
      BY <1>1, <1>3, <2>1
    <3>2. SplitLongest(s) \in Seq(Timed) /\ Len(SplitLongest(s)) = Len(s) + 1
      BY <1>3, <3>1, OneMore
    <3> QED
      BY <1>1, <2>1, <3>2
  <2>2. CASE ~(Len(s) < r.least)
    BY <1>1, <1>3, <2>2
  <2> QED
    BY <2>1, <2>2
<1> HIDE DEF more, at_hi
<1>4. /\ split \in Seq(Timed)
      /\ Len(ps) >= r.least => split = at_hi
      /\ Len(ps) < r.least => Len(split) > Len(ps)
  <2>1. more(at_hi) \in Seq(Timed) /\ Len(more(at_hi)) >= Len(at_hi)
    BY <1>2, <1>3
  <2>2. /\ more(more(at_hi)) \in Seq(Timed)
        /\ Len(more(more(at_hi))) >= Len(more(at_hi))
    BY <1>2, <1>3, <2>1
  <2>3. /\ split \in Seq(Timed)
        /\ Len(split) >= Len(more(more(at_hi)))
    BY <1>2, <1>3, <2>1, <2>2
  <2>4. Len(ps) >= r.least => split = at_hi
    BY <1>2, <1>3
  <2>5. Len(ps) < r.least => Len(more(at_hi)) > Len(ps)
    BY <1>2, <1>3
  <2> QED
    BY <1>1, <1>2, <2>1, <2>2, <2>3, <2>4, <2>5
<1>5. SplitToMin(ps, r) = [i \in 1..Len(split) |-> split[i].of]
  BY DEF SplitToMin, more, at_hi
<1> HIDE DEF split
<1>6. SplitToMin(ps, r) \in Seq(Nat) /\ Len(SplitToMin(ps, r)) = Len(split)
  <2>1. \A i \in 1..Len(split) : split[i] \in Timed
    BY <1>4
  <2>2. \A t \in Timed : t.of \in Nat
    BY DEF Timed
  <2> QED
    BY <1>4, <1>5, <2>1, <2>2
<1>7. ASSUME Len(ps) >= r.least PROVE SplitToMin(ps, r) = ps
  <2>1. Len(split) = Len(ps) /\ \A i \in 1..Len(ps) : split[i].of = ps[i]
    BY <1>2, <1>4, <1>7 DEF at_hi
  <2> QED
    BY <1>5, <2>1
<1> QED
  BY <1>4, <1>6, <1>7

\* The plan as it was written: shot i shows beat i - 1.
Straight(n) == [i \in 1..n |-> i - 1]

\* A fitted plan is the plan itself, or has another number of shots: more than
\* were planned, or fewer and then at least four.
LEMMA FitShape ==
    ASSUME NEW n \in Nat \ {0}, NEW r \in Ranges
    PROVE  LET q == Fit(Straight(n), r) IN
           /\ q \in Seq(Nat) /\ q # <<>>
           /\ \/ q = Straight(n) \/ Len(q) > n
              \/ Len(q) < n /\ Len(q) >= 4
<1> DEFINE ps == Straight(n)
           kept == Kept(ps, r)
<1>1. ps \in Seq(Nat) /\ Len(ps) = n
  BY DEF Straight
<1>2. CASE n * r.lo > MaxTotal
  <2>1. MaxTotal \div r.lo \in {7, 11} /\ MaxTotal \div r.lo < n /\ r.least <= 4
    <3>1. CASE r = Clip
      BY <1>2, <3>1 DEF Clip, MaxTotal
    <3>2. CASE r = Native
      BY <1>2, <3>2 DEF Native, MaxTotal
    <3> QED
      BY <3>1, <3>2 DEF Ranges
  <2>2. kept = SubSeq(ps, 1, MaxTotal \div r.lo)
    BY <1>1, <1>2 DEF Kept
  <2>3. kept \in Seq(Nat) /\ Len(kept) = MaxTotal \div r.lo
    BY <1>1, <2>1, <2>2
  <2>4. r.least \in Nat
    BY DEF Ranges, Clip, Native
  <2>5. SplitToMin(kept, r) = kept
    BY <2>1, <2>3, <2>4, SplitGrows
  <2> QED
    BY <2>1, <2>3, <2>5 DEF Fit
<1>3. CASE ~(n * r.lo > MaxTotal)
  <2>1. kept = ps
    BY <1>1, <1>3 DEF Kept
  <2>2. r.least \in Nat
    BY DEF Ranges, Clip, Native
  <2>3. ps # <<>>
    BY <1>1
  <2>4. /\ SplitToMin(ps, r) \in Seq(Nat)
        /\ Len(ps) >= r.least => SplitToMin(ps, r) = ps
        /\ Len(ps) < r.least => Len(SplitToMin(ps, r)) > Len(ps)
    BY <1>1, <2>3, SplitGrows
  <2>5. SplitToMin(ps, r) = ps \/ Len(SplitToMin(ps, r)) > n
    BY <1>1, <2>2, <2>4
  <2> QED
    BY <1>1, <2>1, <2>3, <2>4, <2>5 DEF Fit
<1> QED
  BY <1>2, <1>3
----------------------------------------------------------------------------
(* VideoReel: types. *)

\* A sequence with one element replaced.
LEMMA Replaced ==
    ASSUME NEW S, NEW q \in Seq(S), NEW i \in 1..Len(q), NEW t \in S
    PROVE  LET z == [q EXCEPT ![i] = t] IN
           /\ z \in Seq(S) /\ Len(z) = Len(q) /\ DOMAIN z = DOMAIN q
           /\ z[i] = t /\ \A j \in DOMAIN q \ {i} : z[j] = q[j]
  OBVIOUS

Frames   == [src : {"none", "still", "last"}, of : Nat, gen : Nat]
Takes    == [start : Frames, bad : BOOLEAN]
CallKeys == {"reel", "ms", "shot", "retry"} \X Int
JobRows  == [status : {"none", "failed", "succeeded"}, cost : Nat]

\* The types of the loop and of the bill, and where there is something to work on.
ReelTypes ==
    /\ reel_plan \in Nat /\ num \in Nat /\ depth \in Nat
    /\ shots \in Seq(Nat) /\ clips \in Seq(Takes)
    /\ chain \in Frames /\ home \in Frames
    /\ calls \in Seq(CallKeys) /\ paid \in Nat /\ cost \in Nat
    /\ reel_job \in JobRows
    /\ reel_node \in {"make_keyframe", "render_video"} => reel_plan # 0
    /\ reel_node = "native" => shots # <<>>
    /\ reel_node \in {"retry", "seam"} => clips # <<>>

\* The frames a shot may start from are frames.
LEMMA FrameTypes ==
    /\ NoFrame \in Frames
    /\ \A p \in Nat : Still(p) \in Frames
    /\ \A i \in Nat, f \in Frames : LastOf(i, f) \in Frames
  BY DEF Frames, NoFrame, Still, LastOf

\* The types hold at the start.
LEMMA ReelTypesInit == InitReel => ReelTypes
  BY FrameTypes DEF InitReel, ReelTypes, JobRows

\* A failed run leaves a row of its type.
LEMMA FailTypes ==
    ASSUME ReelTypes, NEW spent \in Nat, FailReel(spent)
    PROVE  reel_job' \in JobRows /\ reel_node' = "end"
  BY DEF ReelTypes, FailReel, JobRows

\* Every step keeps the types.
LEMMA ReelTypesStep ==
    ASSUME ReelTypes, [NextReel]_reel_vars
    PROVE  ReelTypes'
<1>0. ReelTypes
  OBVIOUS
<1> USE DEF ReelTypes
<1>1. CASE UNCHANGED reel_vars
  BY <1>1 DEF reel_vars, shot_plan, loop_vars, bill_vars, row_vars
<1>2. CASE LoadContext \/ PlanShots \/ MakeKeyframe
  <2>1. CASE LoadContext
    BY <1>0, <2>1, FailTypes DEF LoadContext, shot_plan, loop_vars, bill_vars
  <2>2. CASE PlanShots
    BY <1>0, <2>2, FailTypes, ReelAssumption DEF PlanShots, loop_vars, bill_vars
  <2>3. CASE MakeKeyframe
    BY <1>0, <2>3, FailTypes DEF MakeKeyframe, loop_vars, bill_vars
  <2> QED
    BY <1>2, <2>1, <2>2, <2>3
<1>3. CASE RenderVideo
  <2>1. PICK r \in Ranges :
          LET fitted == Fit(Straight(reel_plan), r)
              first == IF 0 \in anchors THEN Still(0) ELSE NoFrame
          IN /\ shots' = fitted /\ num' = Len(fitted)
             /\ chain' = first /\ home' = first /\ depth' = 0 /\ clips' = <<>>
    BY <1>3 DEF RenderVideo, Ranges, Straight
  <2>2. reel_plan \in Nat \ {0}
    BY <1>3 DEF RenderVideo
  <2>3. shots' \in Seq(Nat) /\ shots' # <<>> /\ num' \in Nat
    BY <2>1, <2>2, FitShape
  <2>4. chain' \in Frames /\ home' \in Frames
    BY <2>1, FrameTypes
  <2> QED
    BY <1>3, <2>1, <2>3, <2>4 DEF RenderVideo, shot_plan, bill_vars, row_vars
<1>4. CASE RenderSingle
  <2>1. calls' \in Seq(CallKeys)
    BY <1>4 DEF RenderSingle, CallKeys
  <2>2. paid' \in Nat /\ cost' \in Nat
    BY <1>4 DEF RenderSingle
  <2> QED
    BY <1>0, <1>4, <2>1, <2>2, FailTypes DEF RenderSingle, shot_plan, loop_vars
<1>5. CASE RenderNative
  <2>1. calls' \in Seq(CallKeys)
    BY <1>5 DEF RenderNative, CallKeys, Attempts
  <2>2. paid' \in Nat /\ cost' \in Nat
    BY <1>5 DEF RenderNative, Chain
  <2>3. \/ UNCHANGED loop_vars /\ reel_node' \in {"native", "store_video"}
        \/ /\ shots' = SplitToMin(shots, Clip)
           /\ reel_node' = "shot" /\ UNCHANGED <<num, chain, home, depth, clips>>
    BY <1>5 DEF RenderNative, Chain
  <2>4. shots # <<>>
    BY <1>5 DEF RenderNative
  <2>5. SplitToMin(shots, Clip) \in Seq(Nat)
    BY <2>4, SplitGrows DEF Ranges
  <2> QED
    BY <1>5, <2>1, <2>2, <2>3, <2>4, <2>5
    DEF RenderNative, shot_plan, row_vars, loop_vars
<1>6. CASE RenderShot
  <2>1. calls' \in Seq(CallKeys)
    BY <1>6 DEF RenderShot, CallKeys
  <2>2. \A bad \in BOOLEAN : [start |-> chain, bad |-> bad] \in Takes
    BY DEF Takes
  <2>3. CASE FailReel(cost) /\ UNCHANGED <<paid, cost, clips>>
    BY <1>0, <1>6, <2>1, <2>3, FailTypes DEF RenderShot, shot_plan
  <2>4. ASSUME NEW bad \in BOOLEAN, paid' = paid + 1, cost' = cost + 1,
               clips' = Append(clips, [start |-> chain, bad |-> bad]),
               reel_node' \in {"retry", "seam"}, UNCHANGED reel_job
        PROVE  ReelTypes'
    <3>1. clips' \in Seq(Takes) /\ clips' # <<>>
      BY <2>2, <2>4
    <3> QED
      BY <1>6, <2>1, <2>4, <3>1, SMTT(60) DEF RenderShot, shot_plan
  <2>5. \/ FailReel(cost) /\ UNCHANGED <<paid, cost, clips>>
        \/ \E bad \in BOOLEAN :
             /\ paid' = paid + 1 /\ cost' = cost + 1
             /\ clips' = Append(clips, [start |-> chain, bad |-> bad])
             /\ reel_node' \in {"retry", "seam"} /\ UNCHANGED reel_job
    BY <1>6 DEF RenderShot
  <2> QED
    BY <2>3, <2>4, <2>5
<1>7. CASE RetryShot
  <2>1. calls' \in Seq(CallKeys)
    BY <1>7 DEF RetryShot, CallKeys
  <2>2. [start |-> home, bad |-> FALSE] \in Takes
    BY DEF Takes
  <2>4. clips # <<>> /\ reel_node' = "seam"
    BY <1>7 DEF RetryShot
  <2>3. clips' \in Seq(Takes) /\ Len(clips') = Len(clips) /\ depth' \in Nat
    <3>1. clips' = clips \/ clips' = [clips EXCEPT ![Len(clips)] =
                                         [start |-> home, bad |-> FALSE]]
      BY <1>7 DEF RetryShot
    <3>2. depth' \in Nat
      BY <1>7 DEF RetryShot
    <3>3. Len(clips) \in 1..Len(clips)
      BY <2>4
    <3> DEFINE z == [clips EXCEPT ![Len(clips)] = [start |-> home, bad |-> FALSE]]
    <3>4. z \in Seq(Takes) /\ Len(z) = Len(clips)
      BY <2>2, <3>3, Replaced
    <3> HIDE DEF z
    <3>5. clips' = clips \/ clips' = z
      BY <3>1 DEF z
    <3> QED
      BY <3>2, <3>4, <3>5
  <2>5. clips' # <<>>
    BY <2>3, <2>4
  <2> QED
    BY <1>7, <2>1, <2>3, <2>4, <2>5 DEF RetryShot, shot_plan, row_vars
<1>8. CASE Reanchor
  <2>1. Len(clips) \in Nat /\ chain' \in Frames
    BY <1>8, FrameTypes DEF Reanchor
  <2> QED
    BY <1>8, <2>1 DEF Reanchor, Onward, shot_plan, bill_vars, row_vars
<1>9. CASE ChainOn
  <2>1. clips # <<>> /\ LastClip \in Takes
    BY <1>9 DEF ChainOn, LastClip
  <2>2. LastClip.start \in Frames /\ Len(clips) - 1 \in Nat
    BY <2>1 DEF Takes
  <2>3. LastOf(Len(clips) - 1, LastClip.start) \in Frames
    BY <2>2, FrameTypes
  <2> QED
    BY <1>0, <1>9, <2>3, FailTypes DEF ChainOn, Onward, shot_plan, bill_vars
<1>10. CASE LastSeam \/ FinishReel
  BY <1>0, <1>10, FailTypes
  DEF LastSeam, FinishReel, Onward, shot_plan, loop_vars, bill_vars, row_vars
<1>11. CASE StoreVideo
  BY <1>0, <1>11, FailTypes DEF StoreVideo, shot_plan, loop_vars, bill_vars, JobRows
<1> QED
  BY <1>1, <1>2, <1>3, <1>4, <1>5, <1>6, <1>7, <1>8, <1>9, <1>10, <1>11
  DEF NextReel

----------------------------------------------------------------------------
(* VideoReel: the bill. *)

\* No call was the single one of a whole reel.
ByShots == \A c \in DOMAIN calls : calls[c][1] # "reel"

\* The cost is what was paid, and the row of a run that is over says so; only a
\* run that is over has one.
Billed ==
    /\ ByShots => cost = paid
    /\ reel_node # "end" => reel_job.status = "none"
    /\ reel_job.status # "none" /\ ByShots => reel_job.cost = paid
    /\ reel_node \in {"load_context", "plan_shots", "make_keyframe"} => cost = 0

\* A run that fails reports what it was asked to report.
LEMMA FailBilled ==
    ASSUME ReelTypes, Billed, NEW spent \in Nat, FailReel(spent), reel_node # "end",
           UNCHANGED calls, UNCHANGED <<paid, cost>>, ByShots => spent = paid
    PROVE  Billed'
  BY DEF ReelTypes, FailReel, Billed, ByShots, JobRows

\* A call that is not that of a whole reel leaves a reel rendered by shots.
LEMMA CallKept ==
    ASSUME ReelTypes, NEW k \in CallKeys, k[1] # "reel", calls' = Append(calls, k)
    PROVE  ByShots' <=> ByShots
<1>1. /\ \A c \in DOMAIN calls : calls'[c] = calls[c] /\ c \in DOMAIN calls'
      /\ \A c \in DOMAIN calls' : c \in DOMAIN calls \/ calls'[c] = k
  BY DEF ReelTypes
<1> QED
  BY <1>1 DEF ByShots
\* Every step keeps the books.
LEMMA BilledStep ==
    ASSUME ReelTypes, Billed, [NextReel]_reel_vars
    PROVE  Billed'
<1>0. ReelTypes /\ Billed
  OBVIOUS
<1>1. CASE UNCHANGED reel_vars
  BY <1>1 DEF reel_vars, bill_vars, row_vars, Billed, ByShots
<1>2. CASE LoadContext \/ PlanShots \/ MakeKeyframe
  <2>1. /\ UNCHANGED <<calls, paid, cost>>
        /\ reel_node \in {"load_context", "plan_shots", "make_keyframe"}
        /\ \/ FailReel(0)
           \/ /\ UNCHANGED reel_job
              /\ reel_node' \in {"plan_shots", "make_keyframe", "render_video"}
    BY <1>2 DEF LoadContext, PlanShots, MakeKeyframe, bill_vars
  <2>2. CASE FailReel(0)
    <3>1. ByShots => 0 = paid
      BY <2>1 DEF Billed
    <3> QED
      BY <1>0, <2>1, <2>2, <3>1, FailBilled
  <2>3. CASE ~FailReel(0)
    BY <2>1, <2>3 DEF Billed, ByShots
  <2> QED
    BY <2>2, <2>3
<1>3. CASE RenderVideo
  BY <1>3 DEF RenderVideo, bill_vars, row_vars, Billed, ByShots
<1>4. CASE RenderSingle
  <2>1. Len(calls) + 1 \in DOMAIN calls' /\ calls'[Len(calls) + 1][1] = "reel"
    BY <1>4 DEF RenderSingle, ReelTypes
  <2>2. ~ByShots'
    BY <2>1 DEF ByShots
  <2>3. \/ reel_node' = "end"
        \/ reel_node' = "store_video" /\ UNCHANGED reel_job
    BY <1>4 DEF RenderSingle, FailReel
  <2> QED
    BY <1>4, <2>2, <2>3 DEF Billed, RenderSingle
<1>5. CASE RenderNative \/ RenderShot \/ RetryShot
  <2>1. \E k \in CallKeys : k[1] # "reel" /\ calls' = Append(calls, k)
    <3>1. CASE RenderNative
      <4>1. <<"ms", Attempts + 1>> \in CallKeys
        BY DEF Attempts, CallKeys, ReelTypes
      <4> QED
        BY <3>1, <4>1 DEF RenderNative
    <3>2. CASE RenderShot
      <4>1. <<"shot", Len(clips)>> \in CallKeys
        BY DEF CallKeys, ReelTypes
      <4> QED
        BY <3>2, <4>1 DEF RenderShot
    <3>3. CASE RetryShot
      <4>1. <<"retry", Len(clips) - 1>> \in CallKeys
        BY DEF CallKeys, ReelTypes
      <4> QED
        BY <3>3, <4>1 DEF RetryShot
    <3> QED
      BY <1>5, <3>1, <3>2, <3>3
  <2>2. ByShots' <=> ByShots
    BY <2>1, CallKept
  <2>3. \/ /\ \/ paid' = paid /\ cost' = cost
              \/ paid' = paid + 1 /\ cost' = cost + 1
           /\ UNCHANGED reel_job
           /\ reel_node' \notin {"end", "load_context", "plan_shots", "make_keyframe"}
        \/ FailReel(cost) /\ UNCHANGED <<paid, cost>>
    <3>1. CASE RenderNative
      BY <3>1 DEF RenderNative, Chain, row_vars
    <3>2. CASE RenderShot
      BY <3>2 DEF RenderShot
    <3>3. CASE RetryShot
      BY <3>3 DEF RetryShot, row_vars
    <3> QED
      BY <1>5, <3>1, <3>2, <3>3
  <2>4. reel_node # "end"
    BY <1>5 DEF RenderNative, RenderShot, RetryShot
  <2> QED
    BY <2>2, <2>3, <2>4 DEF Billed, ReelTypes, FailReel, JobRows
<1>6. CASE Reanchor \/ ChainOn \/ LastSeam \/ FinishReel \/ StoreVideo
  <2>1. UNCHANGED <<calls, paid, cost>> /\ reel_node \in {"seam", "finish", "store_video"}
    BY <1>6 DEF Reanchor, ChainOn, LastSeam, FinishReel, StoreVideo, bill_vars
  <2>2. \/ FailReel(cost)
        \/ UNCHANGED reel_job /\ reel_node' \in {"shot", "finish", "store_video"}
        \/ reel_job' = [status |-> "succeeded", cost |-> cost] /\ reel_node' = "end"
    BY <1>6 DEF Reanchor, ChainOn, LastSeam, FinishReel, StoreVideo, Onward, row_vars
  <2>3. CASE FailReel(cost)
    <3>1. ByShots => cost = paid
      BY DEF Billed
    <3> QED
      BY <1>0, <2>1, <2>3, <3>1, FailBilled DEF ReelTypes
  <2>4. CASE ~FailReel(cost)
    BY <2>1, <2>2, <2>4 DEF Billed, ByShots
  <2> QED
    BY <2>3, <2>4
<1> QED
  BY <1>1, <1>2, <1>3, <1>4, <1>5, <1>6 DEF NextReel

\* Outside the single-call path the row of a run that is over carries every
\* render that was paid for, whatever fell back, was retried or failed.
THEOREM CostIsRecorded == ReelSpec => []CostRecorded
<1>1. InitReel => Billed
  BY DEF InitReel, Billed, ByShots
<1>2. ReelTypes /\ Billed /\ [NextReel]_reel_vars => Billed'
  BY BilledStep
<1>3. Billed => CostRecorded
  BY DEF Billed, CostRecorded, ByShots
<1>4. ReelTypes /\ [NextReel]_reel_vars => ReelTypes'
  BY ReelTypesStep
<1> QED
  BY <1>1, <1>2, <1>3, <1>4, ReelTypesInit, PTL DEF ReelSpec
----------------------------------------------------------------------------
(* VideoReel: the seams. *)

Planning == {"load_context", "plan_shots", "make_keyframe", "render_video"}
Looping  == {"native", "shot", "retry", "seam"}

\* Generations between a still and the fixed frame of the reel.
HomeGen == IF 0 \in anchors THEN 0 ELSE 1

\* Nothing is rendered before the loop, and a native attempt leaves the loop as
\* it found it.
Unstarted ==
    /\ reel_node \in Planning =>
         clips = <<>> /\ chain = NoFrame /\ home = NoFrame /\ depth = 0
    /\ reel_node = "native" => clips = <<>> /\ chain = home /\ depth = 0

\* The fixed frame is the keyframe, or the last frame of a reel's first clip; as
\* long as there is none nothing was chained.
Homes ==
    /\ anchors = {} \/ 0 \in anchors
    /\ 0 \in anchors /\ reel_node \in Looping => home = Still(0)
    /\ \/ home = NoFrame \/ home = Still(0)
       \/ 0 \notin anchors /\ home.gen = 1
    /\ home = NoFrame => /\ chain = NoFrame
                         /\ \A c \in DOMAIN clips : clips[c].start = NoFrame

\* While cuts are still to come, chain_depth says how far the next frame is from
\* the fixed one.  Past the length render_video goes on with it says nothing.
Drift ==
    /\ DriftBounded /\ depth <= ChainCap /\ chain.gen <= ChainCap + HomeGen
    /\ reel_node = "shot" /\ Len(clips) < num => chain.gen <= depth + HomeGen
    /\ reel_node \in {"retry", "seam"} /\ Len(clips) < num =>
         clips[Len(clips)].start.gen <= depth + HomeGen
    /\ reel_node = "retry" => home # NoFrame

\* A frame taken from a clip is taken from one that is kept and that moves.
Sound(f) == f.src = "last" => f.of + 1 \in DOMAIN clips /\ ~clips[f.of + 1].bad
Moving == 0 \in anchors => /\ Sound(chain)
                           /\ \A c \in DOMAIN clips : Sound(clips[c].start)

AsPlanned == Len(shots) = reel_plan
Continues == chain.src = "last" /\ chain.of = Len(clips) - 1
OnItsBeat == chain.src = "still" /\ chain.of = shots[Len(clips) + 1]

\* A fitted plan with as many shots as were planned is the plan, and its length
\* the one the loop goes on with; then every clip is cut where its beat opens.
BeatsOf ==
    /\ reel_node \in Looping =>
         \/ shots = Straight(reel_plan) /\ num = reel_plan
         \/ Len(shots) > reel_plan
         \/ Len(shots) < reel_plan /\ Len(shots) >= 4
    /\ reel_node = "shot" => Len(clips) < Len(shots)
    /\ CutsLandRight
    /\ AsPlanned /\ home = NoFrame =>
         Len(clips) <= 1 /\ (reel_node = "shot" => clips = <<>>)
    /\ AsPlanned /\ reel_node = "shot" /\ clips # <<>> =>
         Continues \/ OnItsBeat \/ chain = home

SeamInv == Unstarted /\ Homes /\ Drift /\ Moving /\ BeatsOf

\* The invariant holds at the start.
LEMMA SeamInit == InitReel => SeamInv
<1> SUFFICES ASSUME InitReel PROVE SeamInv
  OBVIOUS
<1>1. Unstarted /\ Homes
  BY DEF InitReel, Unstarted, Homes, Planning, Looping
<1>2. Drift
  BY ReelAssumption DEF InitReel, Drift, DriftBounded, HomeGen, NoFrame
<1>3. Moving
  BY DEF InitReel, Moving, Sound, NoFrame
<1>4. BeatsOf
  BY DEF InitReel, BeatsOf, CutsLandRight, Looping
<1> QED
  BY <1>1, <1>2, <1>3, <1>4 DEF SeamInv

\* A step that leaves the loop as it is and is not in it keeps the invariant.
LEMMA QuietStep ==
    ASSUME ReelTypes, SeamInv, UNCHANGED <<anchors, reel_plan, loop_vars>>,
           reel_node' \notin Looping,
           reel_node' \in Planning => reel_node \in Planning
    PROVE  SeamInv'
<1> USE DEF loop_vars
<1>1. Unstarted'
  BY DEF SeamInv, Unstarted, Looping
<1>2. Homes'
  BY DEF SeamInv, Homes
<1>3. Drift'
  BY DEF SeamInv, Drift, DriftBounded, HomeGen, Looping
<1>4. Moving'
  BY DEF SeamInv, Moving, Sound
<1>5. BeatsOf'
  BY DEF SeamInv, BeatsOf, CutsLandRight, CutOrContinue, AsPlanned, Looping
<1> QED
  BY <1>1, <1>2, <1>3, <1>4, <1>5 DEF SeamInv

\* So does a step of the planning: there is no clip yet.
LEMMA PlanningStep ==
    ASSUME ReelTypes, SeamInv, LoadContext \/ PlanShots \/ MakeKeyframe
    PROVE  SeamInv'
<1>1. /\ clips = <<>> /\ chain = NoFrame /\ home = NoFrame /\ depth = 0
      /\ UNCHANGED loop_vars
      /\ reel_node' \in Planning \cup {"end"}
  BY DEF LoadContext, PlanShots, MakeKeyframe, FailReel, SeamInv, Unstarted, Planning
<1>2. anchors' = {} \/ 0 \in anchors'
  <2>1. CASE LoadContext \/ PlanShots
    BY <2>1 DEF LoadContext, PlanShots, shot_plan, SeamInv, Homes
  <2>2. CASE MakeKeyframe
    BY <2>2 DEF MakeKeyframe, SeamInv, Homes
  <2> QED
    BY <2>1, <2>2
<1> USE DEF loop_vars
<1>3. Unstarted'
  BY <1>1 DEF Unstarted, Planning
<1>4. Homes'
  BY <1>1, <1>2 DEF Homes, Planning, Looping
<1>5. Drift'
  BY <1>1, ReelAssumption DEF Drift, DriftBounded, HomeGen, NoFrame, Planning
<1>6. Moving'
  BY <1>1 DEF Moving, Sound, NoFrame
<1>7. BeatsOf'
  BY <1>1 DEF BeatsOf, CutsLandRight, Planning, Looping
<1> QED
  BY <1>3, <1>4, <1>5, <1>6, <1>7 DEF SeamInv

\* The loop starts from the keyframe, or from nothing.
LEMMA RenderStep ==
    ASSUME ReelTypes, SeamInv, RenderVideo
    PROVE  SeamInv'
<1>1. PICK r \in Ranges :
        LET fitted == Fit(Straight(reel_plan), r)
            first == IF 0 \in anchors THEN Still(0) ELSE NoFrame
        IN /\ shots' = fitted /\ num' = Len(fitted)
           /\ chain' = first /\ home' = first /\ depth' = 0 /\ clips' = <<>>
  BY DEF RenderVideo, Ranges, Straight
<1>2. /\ reel_plan \in Nat \ {0} /\ UNCHANGED <<anchors, reel_plan>>
      /\ reel_node' \in {"single", "native", "shot"}
  BY DEF ReelTypes, RenderVideo, shot_plan
<1>3. /\ shots' \in Seq(Nat) /\ shots' # <<>>
      /\ \/ shots' = Straight(reel_plan) \/ Len(shots') > reel_plan
         \/ Len(shots') < reel_plan /\ Len(shots') >= 4
  BY <1>1, <1>2, FitShape
<1>4. Len(Straight(reel_plan)) = reel_plan
  BY <1>2 DEF Straight
<1>5. Unstarted'
  BY <1>1, <1>2 DEF Unstarted, Planning
<1>6. Homes'
  BY <1>1, <1>2 DEF SeamInv, Homes
<1>7. Drift'
  BY <1>1, <1>2, ReelAssumption DEF Drift, DriftBounded, HomeGen, NoFrame, Still
<1>8. Moving'
  BY <1>1, <1>2 DEF Moving, Sound, NoFrame, Still
<1>9. BeatsOf'
  BY <1>1, <1>2, <1>3, <1>4 DEF BeatsOf, CutsLandRight
<1> QED
  BY <1>5, <1>6, <1>7, <1>8, <1>9 DEF SeamInv

\* The native attempt is repeated, ends the run's rendering, or leaves the plan to
\* the loop, split up to its floor.
LEMMA NativeStep ==
    ASSUME ReelTypes, SeamInv, RenderNative
    PROVE  SeamInv'
<1>1. /\ reel_node = "native" /\ clips = <<>> /\ chain = home /\ depth = 0
      /\ shots # <<>> /\ UNCHANGED <<anchors, reel_plan>>
  BY DEF RenderNative, SeamInv, Unstarted, ReelTypes, shot_plan
<1>2. CASE UNCHANGED loop_vars /\ reel_node' = "native"
  <2> USE DEF loop_vars
  <2>1. Unstarted' /\ Homes' /\ Moving'
    BY <1>1, <1>2 DEF SeamInv, Unstarted, Homes, Moving, Sound
  <2>2. Drift'
    BY <1>1, <1>2 DEF SeamInv, Drift, DriftBounded, HomeGen
  <2>3. BeatsOf'
    BY <1>1, <1>2 DEF SeamInv, BeatsOf, CutsLandRight, AsPlanned
  <2> QED
    BY <2>1, <2>2, <2>3 DEF SeamInv
<1>3. CASE UNCHANGED loop_vars /\ reel_node' = "store_video"
  BY <1>1, <1>3, QuietStep DEF Looping, Planning
<1>4. CASE /\ shots' = SplitToMin(shots, Clip) /\ reel_node' = "shot"
           /\ UNCHANGED <<num, chain, home, depth, clips>>
  <2>1. /\ SplitToMin(shots, Clip) \in Seq(Nat)
        /\ Len(shots) >= 4 => SplitToMin(shots, Clip) = shots
        /\ Len(shots) < 4 => Len(SplitToMin(shots, Clip)) > Len(shots)
    <3>1. Clip \in Ranges /\ Clip.least = 4 /\ shots \in Seq(Nat)
      BY DEF Ranges, Clip, ReelTypes
    <3>2. /\ SplitToMin(shots, Clip) \in Seq(Nat)
          /\ Len(shots) >= Clip.least => SplitToMin(shots, Clip) = shots
          /\ Len(shots) < Clip.least => Len(SplitToMin(shots, Clip)) > Len(shots)
      BY <1>1, <3>1, SplitGrows
    <3> QED
      BY <3>1, <3>2
  <2>2. \/ shots = Straight(reel_plan) /\ num = reel_plan
        \/ Len(shots) > reel_plan
        \/ Len(shots) < reel_plan /\ Len(shots) >= 4
    BY <1>1 DEF SeamInv, BeatsOf, Looping
  <2>3. Len(Straight(reel_plan)) = reel_plan /\ Len(shots) \in Nat
    BY DEF Straight, ReelTypes
  <2>4. \/ shots' = Straight(reel_plan) /\ num = reel_plan
        \/ Len(shots') > reel_plan
        \/ Len(shots') < reel_plan /\ Len(shots') >= 4
    BY <1>4, <2>1, <2>2, <2>3 DEF ReelTypes
  <2>5. Len(shots') > 0
    <3>1. Len(shots) > 0
      BY <1>1, <2>3 DEF ReelTypes
    <3> QED
      BY <1>4, <2>1, <2>3, <3>1
  <2>6. Unstarted' /\ Homes' /\ Moving'
    BY <1>1, <1>4 DEF SeamInv, Unstarted, Homes, Moving, Sound, Planning, Looping
  <2>7. Drift'
    <3>1. home.gen <= HomeGen
      BY DEF SeamInv, Homes, HomeGen, NoFrame, Still
    <3> QED
      BY <1>1, <1>4, <3>1, ReelAssumption
      DEF SeamInv, Drift, DriftBounded, HomeGen, ReelTypes, Frames
  <2>8. BeatsOf'
    BY <1>1, <1>4, <2>4, <2>5 DEF BeatsOf, CutsLandRight, AsPlanned
  <2> QED
    BY <2>6, <2>7, <2>8 DEF SeamInv
<1> QED
  BY <1>2, <1>3, <1>4 DEF RenderNative, Chain

\* The fixed frame is within a generation of a still.
LEMMA HomeIsNear == SeamInv => home.gen <= HomeGen
  BY DEF SeamInv, Homes, HomeGen, NoFrame, Still

\* A new clip starts from the chain frame, which is within the cap, moves, and
\* continues the clip before it or opens its own beat.
LEMMA ShotStep ==
    ASSUME ReelTypes, SeamInv, RenderShot
    PROVE  SeamInv'
<1>1. CASE FailReel(cost) /\ UNCHANGED clips
  <2>1. UNCHANGED <<anchors, reel_plan, loop_vars>> /\ reel_node' = "end"
    BY <1>1 DEF RenderShot, FailReel, shot_plan, loop_vars
  <2> QED
    BY <2>1, QuietStep DEF Looping, Planning
<1>2. ASSUME NEW bad \in BOOLEAN,
             clips' = Append(clips, [start |-> chain, bad |-> bad]),
             reel_node' \in {"retry", "seam"},
             reel_node' = "retry" => home # NoFrame
      PROVE  SeamInv'
  <2>1. /\ reel_node = "shot"
        /\ UNCHANGED <<anchors, reel_plan, shots, num, chain, home, depth>>
    BY DEF RenderShot, shot_plan
  <2> DEFINE new == [start |-> chain, bad |-> bad]
  <2>2. /\ Len(clips') = Len(clips) + 1 /\ DOMAIN clips' = DOMAIN clips \cup {Len(clips) + 1}
        /\ clips'[Len(clips) + 1] = new
        /\ \A c \in DOMAIN clips : c \in 1..Len(clips) /\ clips'[c] = clips[c]
        /\ Len(clips) \in Nat
    <3>1. new \in Takes
      BY DEF Takes, ReelTypes
    <3> HIDE DEF new
    <3>2. clips' = Append(clips, new)
      BY <1>2 DEF new
    <3> QED
      BY <3>1, <3>2 DEF ReelTypes
  <2>3. new.start = chain
    OBVIOUS
  <2> HIDE DEF new
  <2>4. Unstarted'
    BY <1>2 DEF Unstarted, Planning
  <2>5. Homes'
    BY <1>2, <2>1, <2>2, <2>3 DEF SeamInv, Homes, Looping
  <2>6. Drift'
    <3>1. DriftBounded'
      <4> SUFFICES ASSUME NEW c \in DOMAIN clips'
                   PROVE  clips'[c].start.gen <= IF 0 \in anchors THEN ChainCap ELSE ChainCap + 1
        BY <2>1 DEF DriftBounded
      <4>1. CASE c \in DOMAIN clips
        BY <2>2, <4>1 DEF SeamInv, Drift, DriftBounded
      <4>2. CASE c = Len(clips) + 1
        <5>1. clips'[c].start = chain
          BY <2>2, <2>3, <4>2
        <5>2. chain.gen <= IF 0 \in anchors THEN ChainCap ELSE ChainCap + 1
          BY ReelAssumption DEF SeamInv, Drift, HomeGen
        <5> QED
          BY <5>1, <5>2
      <4> QED
        BY <2>2, <4>1, <4>2
    <3>2. Len(clips') < num' => chain.gen <= depth + HomeGen
      BY <2>1, <2>2 DEF SeamInv, Drift, ReelTypes
    <3> QED
      BY <1>2, <2>1, <2>2, <2>3, <3>1, <3>2 DEF SeamInv, Drift, HomeGen
  <2>7. Moving'
    BY <1>2, <2>1, <2>2, <2>3 DEF SeamInv, Moving, Sound
  <2>8. CutsLandRight'
    <3> SUFFICES ASSUME AsPlanned, NEW c \in DOMAIN clips', c > 1
                 PROVE  CutOrContinue(c)'
      BY <2>1 DEF CutsLandRight, AsPlanned
    <3>1. CASE c \in DOMAIN clips
      BY <2>1, <2>2, <3>1 DEF SeamInv, BeatsOf, CutsLandRight, CutOrContinue, AsPlanned
    <3>2. CASE c = Len(clips) + 1
      <4>1. clips # <<>>
        BY <3>2
      <4>2. Continues \/ OnItsBeat \/ chain = home
        BY <2>1, <4>1 DEF SeamInv, BeatsOf
      <4>3. clips'[c].start = chain
        BY <2>2, <2>3, <3>2
      <4> QED
        BY <2>1, <2>2, <3>2, <4>2, <4>3 DEF CutOrContinue, Continues, OnItsBeat
    <3> QED
      BY <2>2, <3>1, <3>2
  <2>9. BeatsOf'
    <3>1. AsPlanned /\ home = NoFrame => Len(clips') <= 1
      BY <2>1, <2>2 DEF SeamInv, BeatsOf
    <3> QED
      BY <1>2, <2>1, <2>8, <3>1 DEF SeamInv, BeatsOf, AsPlanned, Looping
  <2> QED
    BY <2>4, <2>5, <2>6, <2>7, <2>9 DEF SeamInv
<1> QED
  BY <1>1, <1>2 DEF RenderShot

\* A retake that is kept starts from the fixed frame, and moves.
LEMMA RetryStep ==
    ASSUME ReelTypes, SeamInv, RetryShot
    PROVE  SeamInv'
<1>1. /\ reel_node = "retry" /\ reel_node' = "seam" /\ clips # <<>> /\ home # NoFrame
      /\ UNCHANGED <<anchors, reel_plan, shots, num, chain, home>>
  BY DEF RetryShot, shot_plan, ReelTypes, SeamInv, Drift
<1>2. Unstarted'
  BY <1>1 DEF Unstarted, Planning
<1>3. Homes'
  BY <1>1 DEF SeamInv, Homes, Looping
<1>4. CASE UNCHANGED <<clips, depth>>
  <2>1. Drift' /\ Moving'
    BY <1>1, <1>4 DEF SeamInv, Drift, DriftBounded, HomeGen, Moving, Sound
  <2>2. BeatsOf'
    BY <1>1, <1>4 DEF SeamInv, BeatsOf, CutsLandRight, CutOrContinue, AsPlanned, Looping
  <2> QED
    BY <1>2, <1>3, <2>1, <2>2 DEF SeamInv
<1>5. CASE /\ clips' = [clips EXCEPT ![Len(clips)] = [start |-> home, bad |-> FALSE]]
           /\ depth' = 0
  <2> DEFINE new == [start |-> home, bad |-> FALSE]
  <2>1. /\ new \in Takes /\ new.start = home /\ ~new.bad
        /\ Len(clips) \in 1..Len(clips) /\ DOMAIN clips = 1..Len(clips)
    BY <1>1 DEF Takes, ReelTypes
  <2> HIDE DEF new
  <2>2. clips' = [clips EXCEPT ![Len(clips)] = new]
    BY <1>5 DEF new
  <2>3. /\ Len(clips') = Len(clips) /\ DOMAIN clips' = DOMAIN clips
        /\ clips'[Len(clips)] = new
        /\ \A j \in DOMAIN clips \ {Len(clips)} : clips'[j] = clips[j]
    BY <2>1, <2>2, Replaced DEF ReelTypes
  <2>4. Drift'
    <3>1. home.gen <= HomeGen /\ home.gen \in Nat /\ HomeGen \in Nat
      BY HomeIsNear DEF ReelTypes, Frames, HomeGen
    <3>2. DriftBounded'
      BY <1>1, <2>1, <2>3, <3>1, ReelAssumption DEF SeamInv, Drift, DriftBounded, HomeGen
    <3> QED
      BY <1>1, <1>5, <2>1, <2>3, <3>1, <3>2, ReelAssumption DEF SeamInv, Drift, HomeGen
  <2>5. Moving'
    <3> SUFFICES ASSUME 0 \in anchors
                 PROVE  Sound(chain)' /\ \A c \in DOMAIN clips : Sound(clips[c].start)'
      BY <1>1, <2>3 DEF Moving, Sound
    <3>1. home.src = "still"
      BY <1>1 DEF SeamInv, Homes, Looping, Still
    <3>2. Sound(chain)'
      BY <1>1, <2>1, <2>3 DEF SeamInv, Moving, Sound
    <3>3. ASSUME NEW c \in DOMAIN clips PROVE Sound(clips[c].start)'
      BY <1>1, <2>1, <2>3, <3>1 DEF SeamInv, Moving, Sound
    <3> QED
      BY <3>2, <3>3
  <2>6. BeatsOf'
    BY <1>1, <2>1, <2>3 DEF SeamInv, BeatsOf, CutsLandRight, CutOrContinue, AsPlanned, Looping
  <2> QED
    BY <1>2, <1>3, <2>4, <2>5, <2>6 DEF SeamInv
<1> QED
  BY <1>4, <1>5 DEF RetryShot

\* At a cut the next shot starts from the still of its own beat, or from the
\* fixed frame, which a reel that is cut has.
LEMMA CutStep ==
    ASSUME ReelTypes, SeamInv, Reanchor
    PROVE  SeamInv'
<1>1. /\ reel_node = "seam" /\ clips # <<>>
      /\ UNCHANGED <<anchors, reel_plan, shots, num, home, clips>> /\ depth' = 0
      /\ reel_node' \in {"shot", "finish"}
      /\ reel_node' = "shot" => Len(clips) < Len(shots)
  BY DEF Reanchor, Onward, shot_plan, ReelTypes
<1>2. \/ chain' = Still(Len(clips)) /\ Len(clips) \in anchors
      \/ chain' = home /\ home # NoFrame
  BY DEF Reanchor, Reanchors, HasStill
<1>3. home # NoFrame
  BY <1>1, <1>2 DEF SeamInv, Homes, Looping, NoFrame, Still
<1>4. Len(clips) \in Nat \ {0} /\ Len(shots) \in Nat
  BY <1>1 DEF ReelTypes
<1>5. Unstarted'
  BY <1>1 DEF Unstarted, Planning
<1>6. Homes'
  BY <1>1, <1>3 DEF SeamInv, Homes, Looping
<1>7. Drift'
  <2>1. chain'.gen <= HomeGen /\ HomeGen \in Nat
    BY <1>2, HomeIsNear DEF Still, HomeGen
  <2>2. chain'.gen \in Nat
    BY <1>2 DEF ReelTypes, Frames, Still
  <2> QED
    BY <1>1, <2>1, <2>2, ReelAssumption DEF SeamInv, Drift, DriftBounded, HomeGen
<1>8. Moving'
  <2>1. 0 \in anchors => chain'.src = "still"
    BY <1>1, <1>2 DEF SeamInv, Homes, Looping, Still
  <2> QED
    BY <1>1, <2>1 DEF SeamInv, Moving, Sound
<1>9. BeatsOf'
  <2>1. AsPlanned /\ reel_node' = "shot" => OnItsBeat' \/ chain' = home
    <3> SUFFICES ASSUME AsPlanned, reel_node' = "shot", chain' = Still(Len(clips))
                 PROVE  OnItsBeat'
      BY <1>2
    <3>1. shots = Straight(reel_plan) /\ Len(clips) + 1 \in 1..reel_plan
      BY <1>1, <1>4 DEF SeamInv, BeatsOf, AsPlanned, Looping
    <3>2. shots[Len(clips) + 1] = Len(clips)
      BY <1>4, <3>1 DEF Straight
    <3> QED
      BY <1>1, <3>2 DEF OnItsBeat, Still
  <2>2. CutsLandRight'
    BY <1>1 DEF SeamInv, BeatsOf, CutsLandRight, CutOrContinue
  <2> QED
    BY <1>1, <1>3, <2>1, <2>2 DEF SeamInv, BeatsOf, AsPlanned, Looping
<1> QED
  BY <1>5, <1>6, <1>7, <1>8, <1>9 DEF SeamInv

\* Otherwise it starts from the last frame of a clip that moves, one generation
\* further; the first such frame of a reel without a keyframe becomes its fixed one.
LEMMA ChainStep ==
    ASSUME ReelTypes, SeamInv, ChainOn
    PROVE  SeamInv'
<1>1. CASE FailReel(cost) /\ UNCHANGED <<chain, home, depth>>
  <2>1. UNCHANGED <<anchors, reel_plan, loop_vars>> /\ reel_node' = "end"
    BY <1>1 DEF ChainOn, FailReel, shot_plan, loop_vars
  <2> QED
    BY <2>1, QuietStep DEF Looping, Planning
<1>2. CASE LET frame == LastOf(Len(clips) - 1, LastClip.start) IN
           /\ reel_node' = Onward
           /\ chain' = frame
           /\ home' = IF home = NoFrame THEN frame ELSE home
           /\ depth' = IF home = NoFrame THEN 0 ELSE depth + 1
  <2> DEFINE f == LastOf(Len(clips) - 1, LastClip.start)
  <2>1. /\ reel_node = "seam" /\ clips # <<>> /\ Len(clips) < num
        /\ UNCHANGED <<anchors, reel_plan, shots, num, clips>>
        /\ reel_node' \in {"shot", "finish"}
        /\ reel_node' = "shot" => Len(clips) < Len(shots)
    BY <1>2 DEF ChainOn, MoreSeams, Onward, shot_plan, ReelTypes
  <2>2. /\ Len(clips) \in Nat \ {0} /\ Len(clips) \in DOMAIN clips
        /\ Len(shots) \in Nat /\ num \in Nat /\ depth \in Nat /\ ChainCap \in Nat
    BY <2>1, ReelAssumption DEF ReelTypes
  <2>3. LastClip \in Takes /\ LastClip.start.gen \in Nat /\ LastClip = clips[Len(clips)]
    <3>1. LastClip \in Takes
      BY <2>2 DEF ReelTypes, LastClip
    <3> QED
      BY <3>1 DEF Takes, Frames, LastClip
  <2>4. /\ f.src = "last" /\ f.of = Len(clips) - 1
        /\ f.gen = LastClip.start.gen + 1 /\ f # NoFrame
    BY DEF LastOf, NoFrame
  <2>5. chain' = f /\ home' = (IF home = NoFrame THEN f ELSE home)
        /\ depth' = (IF home = NoFrame THEN 0 ELSE depth + 1)
    BY <1>2
  <2> HIDE DEF f
  <2>6. Unstarted'
    BY <2>1 DEF Unstarted, Planning
  <2>7. CASE home = NoFrame
    <3>1. 0 \notin anchors /\ LastClip.start = NoFrame
      BY <2>1, <2>2, <2>3, <2>7 DEF SeamInv, Homes, Looping, NoFrame, Still
    <3>2. chain' = f /\ home' = f /\ depth' = 0 /\ f.gen = 1
      BY <2>4, <2>5, <2>7, <3>1 DEF NoFrame
    <3>3. Homes'
      BY <2>1, <2>4, <3>1, <3>2 DEF SeamInv, Homes
    <3>4. Drift'
      BY <2>1, <2>2, <3>1, <3>2 DEF SeamInv, Drift, DriftBounded, HomeGen
    <3>5. Moving'
      BY <2>1, <3>1 DEF Moving
    <3>6. AsPlanned => Len(clips) <= 1
      BY <2>7 DEF SeamInv, BeatsOf
    <3>7. CutsLandRight'
      BY <2>1, <2>2, <3>6 DEF CutsLandRight, AsPlanned, ReelTypes
    <3>8. BeatsOf'
      BY <2>1, <2>4, <3>2, <3>7 DEF SeamInv, BeatsOf, AsPlanned, Looping
    <3> QED
      BY <2>6, <3>3, <3>4, <3>5, <3>8 DEF SeamInv
  <2>8. CASE home # NoFrame
    <3>1. ~LastClip.bad /\ depth < ChainCap
      BY <2>2, <2>8 DEF ChainOn, Reanchors
    <3>2. chain' = f /\ home' = home /\ depth' = depth + 1
      BY <2>5, <2>8
    <3>3. Homes'
      BY <2>1, <2>8, <3>2 DEF SeamInv, Homes, Looping
    <3>4. Drift'
      <4>1. LastClip.start.gen <= depth + HomeGen /\ HomeGen \in Nat
        BY <2>1, <2>3 DEF SeamInv, Drift, HomeGen
      <4>2. f.gen <= depth + 1 + HomeGen /\ f.gen \in Nat
        BY <2>2, <2>3, <2>4, <4>1
      <4> QED
        BY <2>1, <2>2, <3>1, <3>2, <4>1, <4>2 DEF SeamInv, Drift, DriftBounded, HomeGen
    <3>5. Moving'
      <4>1. Sound(f)
        BY <2>2, <2>3, <2>4, <3>1 DEF Sound
      <4> QED
        BY <2>1, <3>2, <4>1 DEF SeamInv, Moving, Sound
    <3>6. Continues'
      BY <2>1, <2>4, <3>2 DEF Continues
    <3>7. CutsLandRight'
      BY <2>1, <3>2 DEF SeamInv, BeatsOf, CutsLandRight, CutOrContinue
    <3>8. BeatsOf'
      BY <2>1, <2>8, <3>2, <3>6, <3>7 DEF SeamInv, BeatsOf, AsPlanned, Looping
    <3> QED
      BY <2>6, <3>3, <3>4, <3>5, <3>8 DEF SeamInv
  <2> QED
    BY <2>7, <2>8
<1> QED
  BY <1>1, <1>2 DEF ChainOn

\* The loop goes on past its length only when beats were split.
LEMMA LastStep ==
    ASSUME ReelTypes, SeamInv, LastSeam
    PROVE  SeamInv'
<1>1. /\ reel_node = "seam" /\ ~(Len(clips) < num) /\ clips # <<>>
      /\ UNCHANGED <<anchors, reel_plan, loop_vars>>
      /\ reel_node' \in {"shot", "finish"}
      /\ reel_node' = "shot" => Len(clips) < Len(shots)
  BY DEF LastSeam, MoreSeams, Onward, shot_plan, ReelTypes
<1>2. CASE reel_node' = "finish"
  BY <1>1, <1>2, QuietStep DEF Looping, Planning
<1>3. CASE reel_node' = "shot"
  <2> USE DEF loop_vars
  <2>1. ~AsPlanned
    BY <1>1, <1>3 DEF SeamInv, BeatsOf, AsPlanned, Looping, ReelTypes
  <2>2. Unstarted' /\ Homes' /\ Moving'
    BY <1>1, <1>3 DEF SeamInv, Unstarted, Homes, Moving, Sound, Planning, Looping
  <2>3. Drift'
    BY <1>1, <1>3 DEF SeamInv, Drift, DriftBounded, HomeGen
  <2>4. BeatsOf'
    BY <1>1, <1>3, <2>1 DEF SeamInv, BeatsOf, CutsLandRight, AsPlanned, Looping
  <2> QED
    BY <2>2, <2>3, <2>4 DEF SeamInv
<1> QED
  BY <1>1, <1>2, <1>3

\* Every step keeps the invariant.
LEMMA SeamStep == ReelTypes /\ SeamInv /\ [NextReel]_reel_vars => SeamInv'
<1> SUFFICES ASSUME ReelTypes, SeamInv, [NextReel]_reel_vars PROVE SeamInv'
  OBVIOUS
<1>1. CASE RenderSingle \/ FinishReel \/ StoreVideo
  <2>1. UNCHANGED <<anchors, reel_plan, loop_vars>> /\ reel_node' \in {"end", "store_video"}
    BY <1>1 DEF RenderSingle, FinishReel, StoreVideo, FailReel, shot_plan
  <2> QED
    BY <2>1, QuietStep DEF Looping, Planning
<1>2. CASE UNCHANGED reel_vars
  <2> USE <1>2 DEF reel_vars, shot_plan, loop_vars
  <2>1. Unstarted' /\ Homes' /\ Moving'
    BY DEF SeamInv, Unstarted, Homes, Moving, Sound
  <2>2. Drift' /\ BeatsOf'
    BY DEF SeamInv, Drift, DriftBounded, HomeGen, BeatsOf, CutsLandRight, CutOrContinue,
           AsPlanned, Continues, OnItsBeat
  <2> QED
    BY <2>1, <2>2 DEF SeamInv
<1> QED
  BY <1>1, <1>2, PlanningStep, RenderStep, NativeStep, ShotStep, RetryStep, CutStep,
     ChainStep, LastStep DEF NextReel

\* For every plan, cap and number of retries: however chains, cuts, retries and
\* fallbacks interleave, every clip starts near a still, from a frame that moves,
\* and at a cut from the still of its own beat or the fixed frame.
THEOREM SeamsHold == ReelSpec => []SeamsAreSound
<1>1. SeamInv => SeamsAreSound
  <2>1. SeamInv => DriftBounded /\ CutsLandRight
    BY DEF SeamInv, Drift, BeatsOf
  <2>2. SeamInv => FrozenNotChained
    BY DEF SeamInv, Moving, Sound, FrozenNotChained
  <2> QED
    BY <2>1, <2>2 DEF SeamsAreSound
<1>2. ReelTypes /\ [NextReel]_reel_vars => ReelTypes'
  BY ReelTypesStep
<1> QED
  BY <1>1, <1>2, ReelTypesInit, SeamInit, SeamStep, PTL DEF ReelSpec
----------------------------------------------------------------------------
(* ChannelPublishers. *)

Requests == {"check", "bytes", "best_effort", "ask", "init", "parts", "close", "wait",
             "commit", "confirm"}

\* What the flows that end in a commit have in common.
Direct(s) ==
    /\ s \in Seq(Requests)
    /\ \E i \in DOMAIN s : s[i] = "commit"
    /\ \A i \in DOMAIN s : s[i] = "close" => \E j \in DOMAIN s : j > i /\ s[j] = "wait"
    /\ \A i \in DOMAIN s : s[i] = "commit" /\ i # Len(s) => s[i + 1] = "confirm"
    /\ \A i \in DOMAIN s : s[i] = "confirm" => i = Len(s)

LEMMA DirectFlows == \A f \in DOMAIN Flows \ {"tiktok"} : Direct(Flows[f])
<1>1. Direct(InstagramImage) /\ Direct(InstagramReel)
  BY DEF Direct, InstagramImage, InstagramReel, Requests
<1>2. Direct(FacebookPhoto) /\ Direct(FacebookReel)
  BY DEF Direct, FacebookPhoto, FacebookReel, Requests
<1>3. Direct(LinkedInText) /\ Direct(LinkedInImage) /\ Direct(LinkedInVideo)
  BY DEF Direct, LinkedInText, LinkedInImage, LinkedInVideo, Requests
<1>4. Direct(XText) /\ Direct(XImage) /\ Direct(XVideo)
  BY DEF Direct, XText, XImage, XVideo, Requests
<1>5. Direct(YouTube) /\ Direct(Blog) /\ Direct(BlogText) /\ Direct(Teams)
  BY DEF Direct, YouTube, Blog, BlogText, Teams, Requests
<1> QED
  BY <1>1, <1>2, <1>3, <1>4, <1>5 DEF Flows

\* TikTok posts with the last part, and confirms it.
LEMMA TikTokFlow ==
    LET s == Flows["tiktok"] IN
    /\ s \in Seq(Requests) /\ Len(s) = 5
    /\ \A i \in 1..5 : (s[i] = "parts" <=> i = 4) /\ (s[i] = "confirm" <=> i = 5)
    /\ \A i \in 1..5 : s[i] \notin {"close", "wait"}
  BY DEF Flows, TikTok, Requests

ChannelTypes ==
    /\ flow \in DOMAIN Flows /\ channel_at \in Nat \ {0} /\ size \in Nat
    /\ channel_parts \in Seq(Nat \X Nat)
    /\ outcome \in {"none", "published", "failed"}

\* A request the attempt has still to make.
Ahead(step) == \E i \in DOMAIN Flows[flow] : i >= channel_at /\ Flows[flow][i] = step
Under == outcome # "failed"

\* An attempt is published when it is past its last request.
AtEnd == outcome = "published" <=> channel_at = Len(Flows[flow]) + 1

\* The ranges follow one another, and reach the end with the last one.
Contiguous(ps) ==
    ps # <<>> => /\ ps[1][1] = 0
                 /\ \A i \in 1..(Len(ps) - 1) : ps[i][2] = ps[i + 1][1]
Whole == channel_parts # <<>> /\ Under /\ ~Ahead("parts") => Sent = size

\* What is behind an attempt that goes on: the post, and the processing of its
\* media.
Puts   == IF flow = "tiktok" THEN "parts" ELSE "commit"
Watch  == IF flow = "tiktok" THEN "confirm" ELSE "wait"
Watched == \E i \in DOMAIN Flows[flow] : Flows[flow][i] = Watch
Taken  == Under /\ ~Ahead(Puts) => posted /\ answered
Settled ==
    flow # "facebook_reel" /\ Under /\ ~Ahead(Watch) =>
        media = IF Watched THEN "ready" ELSE "none"

\* An answer that was read leaves nothing but a confirmation to wait for.
ReadAnswer ==
    answered /\ flow # "tiktok" =>
        \/ outcome = "published"
        \/ outcome = "none" /\ Step = "confirm"
        \/ outcome = "failed" /\ media = "broken"

AttemptInv == /\ AtEnd /\ Contiguous(channel_parts) /\ Whole
              /\ Taken /\ Settled /\ ReadAnswer

\* Every flow is a sequence of requests.
LEMMA FlowTypes == \A f \in DOMAIN Flows : Flows[f] \in Seq(Requests) /\ Flows[f] # <<>>
<1>1. \A f \in DOMAIN Flows \ {"tiktok"} : Flows[f] \in Seq(Requests) /\ Flows[f] # <<>>
  BY DirectFlows DEF Direct
<1>2. Flows["tiktok"] \in Seq(Requests) /\ Flows["tiktok"] # <<>>
  BY TikTokFlow
<1> QED
  BY <1>1, <1>2

\* The invariant holds at the start.
LEMMA AttemptInit == InitAttempt => ChannelTypes /\ AttemptInv
<1> SUFFICES ASSUME InitAttempt PROVE ChannelTypes /\ AttemptInv
  OBVIOUS
<1>1. ChannelTypes
  BY ChannelAssumption DEF InitAttempt, ChannelTypes
<1>2. Flows[flow] \in Seq(Requests) /\ Len(Flows[flow]) # 0
  BY <1>1, FlowTypes DEF ChannelTypes
<1>3. AtEnd /\ Contiguous(channel_parts) /\ Whole /\ ReadAnswer
  BY <1>2 DEF InitAttempt, AtEnd, Contiguous, Whole, ReadAnswer
<1>4. Ahead(Puts)
  <2>1. CASE flow = "tiktok"
    BY <2>1, TikTokFlow DEF Ahead, Puts, InitAttempt
  <2>2. CASE flow # "tiktok"
    <3>1. \E i \in DOMAIN Flows[flow] : Flows[flow][i] = "commit"
      BY <1>1, <2>2, DirectFlows DEF Direct, ChannelTypes
    <3> QED
      BY <1>2, <2>2, <3>1 DEF Ahead, Puts, InitAttempt
  <2> QED
    BY <2>1, <2>2
<1>5. Ahead(Watch) <=> Watched
  BY <1>2 DEF Ahead, Watched, InitAttempt
<1> QED
  BY <1>1, <1>3, <1>4, <1>5 DEF AttemptInv, Taken, Settled, InitAttempt

\* Passing a request takes only that one from what is ahead.
LEMMA PastRequest ==
    ASSUME ChannelTypes, AttemptInv, NEW t \in Requests, AtStep(t), ToNext, flow' = flow
    PROVE  /\ channel_at \in DOMAIN Flows[flow] /\ Flows[flow][channel_at] = t
           /\ outcome = "none" /\ outcome' \in {"none", "published"}
           /\ outcome' = "published" <=> channel_at = Len(Flows[flow])
           /\ AtEnd' /\ channel_at' = channel_at + 1
           /\ \A s \in Requests \ {t} : Ahead(s)' <=> Ahead(s)
<1>1. Flows[flow] \in Seq(Requests)
  BY FlowTypes DEF ChannelTypes
<1>2. channel_at \in DOMAIN Flows[flow] /\ Flows[flow][channel_at] = t /\ outcome = "none"
  BY DEF AtStep, Step, Requests
<1>3. channel_at' = channel_at + 1 /\ outcome' \in {"none", "published"}
  BY <1>2 DEF ToNext
<1>4. outcome' = "published" <=> channel_at = Len(Flows[flow])
  BY <1>2 DEF ToNext
<1>5. AtEnd'
  BY <1>1, <1>2, <1>3, <1>4 DEF AtEnd
<1>6. ASSUME NEW s \in Requests \ {t} PROVE Ahead(s)' <=> Ahead(s)
  BY <1>1, <1>2, <1>3 DEF Ahead
<1> QED
  BY <1>2, <1>3, <1>4, <1>5, <1>6

\* An attempt that fails without its answer, or after the platform's rejection,
\* keeps the invariant.
LEMMA FailedAttempt ==
    ASSUME ChannelTypes, AttemptInv, outcome = "none", FailAttempt, flow' = flow,
           Contiguous(channel_parts)',
           answered' /\ flow # "tiktok" => media' = "broken"
    PROVE  AttemptInv'
<1>1. outcome' = "failed" /\ channel_at' = channel_at /\ channel_at # Len(Flows[flow]) + 1
  BY DEF FailAttempt, AttemptInv, AtEnd
<1> QED
  BY <1>1 DEF AttemptInv, AtEnd, Whole, Taken, Settled, ReadAnswer, Under

\* No other request comes after an answer that was read.
LEMMA NothingAfter ==
    ASSUME AttemptInv, NEW t \in Requests \ {"confirm"}, AtStep(t)
    PROVE  answered => flow = "tiktok"
  BY DEF AttemptInv, ReadAnswer, AtStep

\* A request that changes nothing else: the attempt goes on or fails.
LEMMA PlainRequest ==
    ASSUME ChannelTypes, AttemptInv,
           NEW t \in {"check", "bytes", "best_effort", "ask", "init"},
           AtStep(t), ToNext \/ FailAttempt,
           UNCHANGED <<flow, size, channel_parts, platform>>
    PROVE  AttemptInv'
<1> USE DEF platform
<1>1. t \in Requests \ {"confirm"} /\ outcome = "none" /\ (answered => flow = "tiktok")
  BY NothingAfter DEF Requests, AtStep
<1>2. Contiguous(channel_parts)'
  BY DEF AttemptInv, Contiguous
<1>3. CASE FailAttempt
  BY <1>1, <1>2, <1>3, FailedAttempt
<1>4. CASE ToNext
  <2>1. AtEnd' /\ Under' /\ Under
    BY <1>1, <1>4, PastRequest DEF Under
  <2>2. (Ahead("parts")' <=> Ahead("parts")) /\ (Ahead(Puts)' <=> Ahead(Puts))
        /\ (Ahead(Watch)' <=> Ahead(Watch))
    <3>1. {"parts", "commit", "wait", "confirm"} \subseteq Requests \ {t}
      BY DEF Requests
    <3> QED
      BY <1>1, <1>4, <3>1, PastRequest DEF Puts, Watch
  <2>3. Whole'
    BY <2>1, <2>2 DEF AttemptInv, Whole, Sent
  <2>4. Taken' /\ Settled' /\ ReadAnswer'
    BY <1>1, <2>1, <2>2
    DEF AttemptInv, Taken, Settled, ReadAnswer, Puts, Watch, Watched
  <2> QED
    BY <1>2, <2>1, <2>3, <2>4 DEF AttemptInv
<1> QED
  BY <1>3, <1>4

\* One more range goes on from where the last one ended; the one sent last ends
\* where the file does.
LEMMA OnePart ==
    ASSUME ChannelTypes, AttemptInv
    PROVE  LET ps == Append(channel_parts, <<Sent, ChunkEnd>>) IN
           /\ ps \in Seq(Nat \X Nat) /\ Contiguous(ps)
           /\ ps # channel_parts /\ ps # <<>>
           /\ LastPart => ps[Len(ps)][2] = size
<1> DEFINE new == <<Sent, ChunkEnd>>
           ps  == Append(channel_parts, new)
<1>1. Sent \in Nat /\ ChunkEnd \in Nat
  <2>1. Sent \in Nat
    <3>1. CASE channel_parts = <<>>
      BY <3>1 DEF Sent
    <3>2. CASE channel_parts # <<>>
      <4>1. channel_parts[Len(channel_parts)] \in Nat \X Nat
        BY <3>2 DEF ChannelTypes
      <4> QED
        BY <3>2, <4>1 DEF Sent
    <3> QED
      BY <3>1, <3>2
  <2> QED
    BY <2>1 DEF ChannelTypes, ChunkEnd, Lower, TikTokChunk, XChunk, LinkedInChunk
<1>2. LastPart => ChunkEnd = size
  BY <1>1 DEF ChannelTypes, LastPart, ChunkEnd, Lower, XChunk, LinkedInChunk
<1>3. new \in Nat \X Nat /\ new[1] = Sent /\ new[2] = ChunkEnd
  BY <1>1
<1> HIDE DEF new
<1>4. /\ Len(ps) = Len(channel_parts) + 1 /\ ps[Len(ps)] = new /\ ps \in Seq(Nat \X Nat)
      /\ \A i \in 1..Len(channel_parts) : ps[i] = channel_parts[i]
      /\ Len(channel_parts) \in Nat
  BY <1>3 DEF ChannelTypes
<1>5. Contiguous(ps)
  <2>1. CASE channel_parts = <<>>
    <3>1. Len(ps) = 1 /\ ps[1][1] = 0
      BY <1>3, <1>4, <2>1 DEF Sent
    <3> QED
      BY <3>1 DEF Contiguous
  <2>2. CASE channel_parts # <<>>
    <3>1. Len(channel_parts) \in Nat \ {0}
      BY <2>2 DEF ChannelTypes
    <3>2. ps[1][1] = 0
      BY <1>4, <2>2, <3>1 DEF AttemptInv, Contiguous
    <3>3. ASSUME NEW i \in 1..(Len(ps) - 1) PROVE ps[i][2] = ps[i + 1][1]
      <4>1. CASE i = Len(channel_parts)
        BY <1>3, <1>4, <2>2, <3>1, <4>1 DEF Sent
      <4>2. CASE i # Len(channel_parts)
        BY <1>4, <2>2, <3>1, <4>2 DEF AttemptInv, Contiguous
      <4> QED
        BY <4>1, <4>2
    <3> QED
      BY <3>2, <3>3 DEF Contiguous
  <2> QED
    BY <2>1, <2>2
<1>6. ps # channel_parts /\ ps # <<>> /\ (LastPart => ps[Len(ps)][2] = size)
  BY <1>2, <1>3, <1>4, SMTT(60)
<1> QED
  BY <1>4, <1>5, <1>6 DEF new

\* The last part ends the upload, and on TikTok it is the post.
LEMMA PartStep ==
    ASSUME ChannelTypes, AttemptInv, UploadPart
    PROVE  AttemptInv' /\ channel_parts' \in Seq(Nat \X Nat)
<1> USE DEF platform
<1> DEFINE ps == Append(channel_parts, <<Sent, ChunkEnd>>)
<1>1. /\ ps \in Seq(Nat \X Nat) /\ Contiguous(ps) /\ ps # channel_parts /\ ps # <<>>
      /\ LastPart => ps[Len(ps)][2] = size
  BY OnePart
<1>2. AtStep("parts") /\ outcome = "none" /\ UNCHANGED <<flow, size>>
  BY DEF UploadPart, AtStep
<1>3. "parts" \in Requests \ {"confirm"} /\ (answered => flow = "tiktok")
  BY <1>2, NothingAfter DEF Requests
<1> SUFFICES AttemptInv'
  BY <1>1 DEF UploadPart, ChannelTypes
<1>4. CASE channel_parts' = ps /\ LastPart /\ ToNext
  <2>1. /\ channel_at \in DOMAIN Flows[flow] /\ Flows[flow][channel_at] = "parts"
        /\ outcome' \in {"none", "published"} /\ AtEnd' /\ channel_at' = channel_at + 1
        /\ outcome' = "published" <=> channel_at = Len(Flows[flow])
        /\ \A s \in Requests \ {"parts"} : Ahead(s)' <=> Ahead(s)
    BY <1>2, <1>3, <1>4, PastRequest
  <2>2. Contiguous(channel_parts)' /\ Whole'
    BY <1>1, <1>2, <1>4 DEF Contiguous, Whole, Sent
  <2>3. CASE flow = "tiktok"
    <3>1. channel_at = 4 /\ Len(Flows[flow]) = 5 /\ Flows[flow][5] = "confirm"
      BY <2>1, <2>3, TikTokFlow
    <3>2. posted' /\ answered'
      BY <1>1, <1>4, <2>1, <2>3, <3>1 DEF UploadPart
    <3>3. Ahead(Watch)'
      BY <1>2, <2>1, <2>3, <3>1 DEF Ahead, Watch
    <3> QED
      BY <1>2, <2>1, <2>2, <2>3, <3>2, <3>3
      DEF AttemptInv, Taken, Settled, ReadAnswer
  <2>4. CASE flow # "tiktok"
    <3>1. UNCHANGED platform
      BY <2>4 DEF UploadPart
    <3>2. Ahead("commit")' <=> Ahead("commit")
      BY <2>1 DEF Requests
    <3>3. Ahead("wait")' <=> Ahead("wait")
      BY <2>1 DEF Requests
    <3> QED
      BY <1>2, <1>3, <2>1, <2>2, <2>4, <3>1, <3>2, <3>3
      DEF AttemptInv, Taken, Settled, ReadAnswer, Under, Puts, Watch, Watched
  <2> QED
    BY <2>3, <2>4
<1>5. CASE channel_parts' = ps /\ ~LastPart /\ UNCHANGED <<channel_at, outcome>>
  <2>1. UNCHANGED platform
    BY <1>5 DEF UploadPart
  <2>2. Ahead("parts")
    BY <1>2 DEF Ahead, AtStep, Step, ChannelTypes
  <2>3. Contiguous(channel_parts)' /\ Whole'
    BY <1>1, <1>2, <1>5, <2>2 DEF Whole, Ahead
  <2> QED
    BY <1>2, <1>5, <2>1, <2>3
    DEF AttemptInv, AtEnd, Taken, Settled, ReadAnswer, Under, Puts, Watch, Watched,
        Ahead, Step
<1>6. CASE channel_parts' \in {channel_parts, ps} /\ FailAttempt
  <2>1. Contiguous(channel_parts)'
    BY <1>1, <1>6 DEF AttemptInv, Contiguous
  <2>2. answered' => flow = "tiktok"
    BY <1>3 DEF UploadPart
  <2> QED
    BY <1>2, <1>6, <2>1, <2>2, FailedAttempt
<1> QED
  BY <1>4, <1>5, <1>6 DEF UploadPart

\* A platform that processes the media before the post is waited for.
LEMMA CloseStep ==
    ASSUME ChannelTypes, AttemptInv, CloseUpload
    PROVE  AttemptInv'
<1>1. /\ AtStep("close") /\ outcome = "none"
      /\ UNCHANGED <<flow, size, channel_parts, posted, answered>>
  BY DEF CloseUpload, AtStep
<1>2. "close" \in Requests \ {"confirm"} /\ (answered => flow = "tiktok")
  BY <1>1, NothingAfter DEF Requests
<1>3. Contiguous(channel_parts)'
  BY <1>1 DEF AttemptInv, Contiguous
<1>4. CASE ToNext
  <2>1. /\ channel_at \in DOMAIN Flows[flow] /\ Flows[flow][channel_at] = "close"
        /\ AtEnd' /\ channel_at' = channel_at + 1
        /\ \A s \in Requests \ {"close"} : Ahead(s)' <=> Ahead(s)
    BY <1>1, <1>2, <1>4, PastRequest
  <2>2. flow # "tiktok"
    BY <2>1, TikTokFlow
  <2>3. PICK j \in DOMAIN Flows[flow] : j > channel_at /\ Flows[flow][j] = "wait"
    BY <2>1, <2>2, DirectFlows DEF Direct, ChannelTypes
  <2>4. Ahead(Watch)'
    <3>1. DOMAIN Flows[flow] \subseteq Nat
      BY FlowTypes DEF ChannelTypes
    <3> QED
      BY <1>1, <2>1, <2>2, <2>3, <3>1 DEF Ahead, Watch, ChannelTypes
  <2>5. (Ahead("parts")' <=> Ahead("parts")) /\ (Ahead("commit")' <=> Ahead("commit"))
    BY <2>1 DEF Requests
  <2>6. Whole' /\ Taken'
    BY <1>1, <2>2, <2>5 DEF AttemptInv, Whole, Taken, Under, Puts, Sent
  <2> QED
    BY <1>1, <1>2, <1>3, <2>1, <2>2, <2>4, <2>6 DEF AttemptInv, Settled, ReadAnswer
<1>5. CASE FailAttempt
  BY <1>1, <1>2, <1>3, <1>5, FailedAttempt
<1> QED
  BY <1>4, <1>5 DEF CloseUpload

\* A status poll, a refreshed token or a step of the platform's own that leaves
\* the attempt where it is.
LEMMA IdleStep ==
    ASSUME AttemptInv,
           UNCHANGED <<flow, channel_at, size, channel_parts, posted, answered, outcome>>,
           media' = media \/ media = "processing"
    PROVE  AttemptInv'
<1>1. AtEnd' /\ Contiguous(channel_parts)' /\ Whole' /\ Taken'
  BY DEF AttemptInv, AtEnd, Contiguous, Whole, Taken, Under, Puts, Ahead, Sent
<1>2. Settled'
  BY DEF AttemptInv, Settled, Under, Watch, Watched, Ahead
<1>3. ReadAnswer'
  BY DEF AttemptInv, ReadAnswer, Step
<1> QED
  BY <1>1, <1>2, <1>3 DEF AttemptInv

\* A wait is passed with the media ready.
LEMMA WaitStep ==
    ASSUME ChannelTypes, AttemptInv, WaitUntilProcessed
    PROVE  AttemptInv'
<1> USE DEF platform
<1>1. /\ AtStep("wait") /\ outcome = "none"
      /\ UNCHANGED <<flow, size, channel_parts, platform>>
  BY DEF WaitUntilProcessed, AtStep
<1>2. "wait" \in Requests \ {"confirm"} /\ (answered => flow = "tiktok")
  BY <1>1, NothingAfter DEF Requests
<1>3. Contiguous(channel_parts)'
  BY <1>1 DEF AttemptInv, Contiguous
<1>4. CASE media = "ready" /\ ToNext
  <2>1. /\ channel_at \in DOMAIN Flows[flow] /\ Flows[flow][channel_at] = "wait"
        /\ AtEnd' /\ \A s \in Requests \ {"wait"} : Ahead(s)' <=> Ahead(s)
    BY <1>1, <1>2, <1>4, PastRequest
  <2>2. flow # "tiktok" /\ Watched
    BY <2>1, TikTokFlow DEF Watched, Watch
  <2>3. (Ahead("parts")' <=> Ahead("parts")) /\ (Ahead("commit")' <=> Ahead("commit"))
    BY <2>1 DEF Requests
  <2>4. Whole' /\ Taken'
    BY <1>1, <2>2, <2>3 DEF AttemptInv, Whole, Taken, Under, Puts, Sent
  <2>5. Settled'
    BY <1>1, <1>4, <2>2 DEF Settled, Watched, Watch
  <2> QED
    BY <1>1, <1>2, <1>3, <2>1, <2>2, <2>4, <2>5 DEF AttemptInv, ReadAnswer
<1>5. CASE FailAttempt
  BY <1>1, <1>2, <1>3, <1>5, FailedAttempt
<1>6. CASE UNCHANGED <<channel_at, outcome>>
  BY <1>1, <1>6, IdleStep
<1> QED
  BY <1>4, <1>5, <1>6 DEF WaitUntilProcessed, GivesUp

\* What follows a commit is a confirmation, if anything.
LEMMA CommitStep ==
    ASSUME ChannelTypes, AttemptInv, Commit
    PROVE  AttemptInv'
<1> USE DEF platform
<1>1. AtStep("commit") /\ outcome = "none" /\ UNCHANGED <<flow, size, channel_parts>>
  BY DEF Commit, AtStep
<1>2. "commit" \in Requests \ {"confirm"} /\ (answered => flow = "tiktok")
  BY <1>1, NothingAfter DEF Requests
<1>3. Contiguous(channel_parts)'
  BY <1>1 DEF AttemptInv, Contiguous
<1>4. CASE posted' = TRUE /\ answered' = TRUE /\ ToNext
  <2>1. /\ channel_at \in DOMAIN Flows[flow] /\ Flows[flow][channel_at] = "commit"
        /\ outcome' \in {"none", "published"} /\ AtEnd' /\ channel_at' = channel_at + 1
        /\ outcome' = "published" <=> channel_at = Len(Flows[flow])
        /\ \A s \in Requests \ {"commit"} : Ahead(s)' <=> Ahead(s)
    BY <1>1, <1>2, <1>4, PastRequest
  <2>2. (Ahead("parts")' <=> Ahead("parts")) /\ (Ahead(Watch)' <=> Ahead(Watch))
    <3>1. {"parts", "wait", "confirm"} \subseteq Requests \ {"commit"}
      BY DEF Requests
    <3> QED
      BY <1>1, <2>1, <3>1 DEF Watch
  <2>3. Whole' /\ Taken'
    BY <1>1, <1>4, <2>1, <2>2 DEF AttemptInv, Whole, Taken, Under, Sent
  <2>4. flow # "facebook_reel" => media' = media
    BY <1>4 DEF Commit
  <2>5. Settled'
    BY <1>1, <2>1, <2>2, <2>4 DEF AttemptInv, Settled, Under, Watch, Watched
  <2>6. ReadAnswer'
    <3> SUFFICES ASSUME flow # "tiktok", channel_at # Len(Flows[flow])
                 PROVE  outcome' = "none" /\ Step' = "confirm"
      BY <1>1, <2>1 DEF ReadAnswer
    <3>1. Direct(Flows[flow])
      BY DirectFlows DEF ChannelTypes
    <3>2. Flows[flow][channel_at + 1] = "confirm" /\ channel_at + 1 \in DOMAIN Flows[flow]
      BY <2>1, <3>1 DEF Direct
    <3> QED
      BY <1>1, <2>1, <3>2 DEF Step
  <2> QED
    BY <1>3, <2>1, <2>3, <2>5, <2>6 DEF AttemptInv
<1>5. CASE FailAttempt /\ (answered' = FALSE \/ UNCHANGED platform)
  BY <1>1, <1>2, <1>3, <1>5, FailedAttempt
<1> QED
  BY <1>4, <1>5 DEF Commit

\* A confirmation is the last request; only a Facebook reel passes it without
\* knowing.
LEMMA ConfirmStep ==
    ASSUME ChannelTypes, AttemptInv, Confirm
    PROVE  AttemptInv'
<1> USE DEF platform
<1>1. /\ AtStep("confirm") /\ outcome = "none"
      /\ UNCHANGED <<flow, size, channel_parts, platform>>
  BY DEF Confirm, AtStep
<1>2. "confirm" \in Requests
  BY DEF Requests
<1>3. Contiguous(channel_parts)'
  BY <1>1 DEF AttemptInv, Contiguous
<1>4. CASE ToNext /\ (media = "ready" \/ flow = "facebook_reel")
  <2>1. /\ channel_at \in DOMAIN Flows[flow] /\ Flows[flow][channel_at] = "confirm"
        /\ outcome' \in {"none", "published"} /\ AtEnd'
        /\ outcome' = "published" <=> channel_at = Len(Flows[flow])
        /\ \A s \in Requests \ {"confirm"} : Ahead(s)' <=> Ahead(s)
    BY <1>1, <1>2, <1>4, PastRequest
  <2>2. (Ahead("parts")' <=> Ahead("parts")) /\ (Ahead(Puts)' <=> Ahead(Puts))
        /\ (Ahead("wait")' <=> Ahead("wait"))
    <3>1. {"parts", "commit", "wait"} \subseteq Requests \ {"confirm"}
      BY DEF Requests
    <3> QED
      BY <1>1, <2>1, <3>1 DEF Puts
  <2>3. Whole' /\ Taken'
    BY <1>1, <2>2 DEF AttemptInv, Whole, Taken, Under, Puts, Sent
  <2>4. Settled'
    <3>1. flow = "tiktok" => Watched
      BY <2>1 DEF Watched, Watch
    <3> QED
      BY <1>1, <1>4, <2>1, <2>2, <3>1 DEF AttemptInv, Settled, Under, Watch, Watched
  <2>5. flow # "tiktok" => outcome' = "published"
    BY <2>1, DirectFlows DEF Direct, ChannelTypes
  <2> QED
    BY <1>1, <1>3, <2>1, <2>3, <2>4, <2>5 DEF AttemptInv, ReadAnswer
<1>5. CASE FailAttempt /\ (media = "broken" \/ flow = "tiktok")
  BY <1>1, <1>3, <1>5, FailedAttempt
<1>6. CASE UNCHANGED <<channel_at, outcome>>
  BY <1>1, <1>6, IdleStep
<1> QED
  BY <1>4, <1>5, <1>6 DEF Confirm, GivesUp

\* Every step keeps the types and the invariant.
LEMMA AttemptStep ==
    ChannelTypes /\ AttemptInv /\ [NextAttempt]_attempt_vars => (ChannelTypes /\ AttemptInv)'
<1> SUFFICES ASSUME ChannelTypes, AttemptInv, [NextAttempt]_attempt_vars
             PROVE  ChannelTypes' /\ AttemptInv'
  OBVIOUS
<1>1. flow' = flow /\ size' = size
  BY DEF NextAttempt, Attempt, CheckConfig, LoadBytes, BestEffort, Ask, InitPost, UploadPart,
         CloseUpload, WaitUntilProcessed, Commit, Confirm, Processed, attempt_vars
<1>2. channel_at' \in {channel_at, channel_at + 1} /\ outcome' \in {"none", "published", "failed"}
  BY DEF NextAttempt, Attempt, CheckConfig, LoadBytes, BestEffort, Ask, InitPost, UploadPart,
         CloseUpload, WaitUntilProcessed, Commit, Confirm, Processed, attempt_vars,
         ToNext, FailAttempt, GivesUp, ChannelTypes
<1>3. CASE UploadPart
  BY <1>1, <1>2, <1>3, PartStep DEF ChannelTypes
<1>4. CASE ~UploadPart
  <2>1. channel_parts' = channel_parts
    BY <1>4 DEF NextAttempt, Attempt, CheckConfig, LoadBytes, BestEffort, Ask, InitPost,
                CloseUpload, WaitUntilProcessed, Commit, Confirm, Processed, attempt_vars
  <2>2. ChannelTypes'
    BY <1>1, <1>2, <2>1 DEF ChannelTypes
  <2> SUFFICES AttemptInv'
    BY <2>2
  <2>3. CASE CheckConfig
    BY <2>3, PlainRequest DEF CheckConfig
  <2>4. CASE LoadBytes
    BY <2>4, PlainRequest DEF LoadBytes
  <2>5. CASE BestEffort
    BY <2>5, PlainRequest DEF BestEffort
  <2>6. CASE Ask
    BY <2>6, PlainRequest DEF Ask
  <2>7. CASE InitPost
    <3>1. CASE UNCHANGED <<channel_at, outcome>>
      BY <2>7, <3>1, IdleStep DEF InitPost, platform
    <3>2. CASE ToNext \/ FailAttempt
      BY <2>7, <3>2, PlainRequest DEF InitPost
    <3> QED
      BY <2>7, <3>1, <3>2 DEF InitPost
  <2>8. CASE Processed
    BY <2>8, IdleStep DEF Processed
  <2>9. CASE UNCHANGED attempt_vars
    BY <2>9, IdleStep DEF attempt_vars, platform
  <2> QED
    BY <1>4, <2>3, <2>4, <2>5, <2>6, <2>7, <2>8, <2>9,
       CloseStep, WaitStep, CommitStep, ConfirmStep
    DEF NextAttempt, Attempt
<1> QED
  BY <1>3, <1>4

\* For videos of every size and waits of every length: what is recorded as
\* published was accepted with the whole file and processed, and a failure whose
\* acceptance was read is the platform's own or an unconfirmed TikTok post.
THEOREM OutcomesAreTrue == ChannelSpec => []OutcomeIsTrue
<1>1. ChannelTypes /\ AttemptInv => OutcomeIsTrue
  <2> SUFFICES ASSUME ChannelTypes, AttemptInv PROVE OutcomeIsTrue
    OBVIOUS
  <2>1. ASSUME outcome = "published"
        PROVE  posted /\ answered /\ WholeUpload /\ (media \in {"none", "ready"} \/ flow = "facebook_reel")
    <3>1. \A s : ~Ahead(s)
      <4>1. channel_at = Len(Flows[flow]) + 1 /\ Flows[flow] \in Seq(Requests)
        BY <2>1, FlowTypes DEF AttemptInv, AtEnd, ChannelTypes
      <4> QED
        BY <4>1 DEF Ahead
    <3>2. WholeUpload
      BY <2>1, <3>1 DEF AttemptInv, Contiguous, Whole, WholeUpload, Sent, Under
    <3> QED
      BY <2>1, <3>1, <3>2 DEF AttemptInv, Taken, Settled, Under
  <2>2. outcome = "failed" /\ answered => media = "broken" \/ flow = "tiktok"
    BY DEF AttemptInv, ReadAnswer
  <2> QED
    BY <2>1, <2>2 DEF OutcomeIsTrue
<1> QED
  BY <1>1, AttemptInit, AttemptStep, PTL DEF ChannelSpec

================================================================================

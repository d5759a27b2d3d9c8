---------------------------- MODULE Render_proofs ----------------------------
(***************************************************************************)
(* What holds of every rendering: the pictures of an item, the attempts at *)
(* one picture, the calls to the video providers, and the film and its     *)
(* captions.                                                               *)
(***************************************************************************)
EXTENDS ContentRender, ImageRender, VideoCall, ReelFinish, Recursion, TLAPS

-----------------------------------------------------------------------------
(* ContentRender. A row's paths hold the pictures of its run, for any logo
   variants and any number of runs.  The invariant says what the state
   carries between apply_branding and the row, and that the current row is an
   older run's for as long as pictures are still being written. *)

Early == {"enrich_user_brief", "generate_hook", "generate_caption", "generate_hashtags",
          "source_product_image", "enhance_image_prompt", "generate_background",
          "apply_branding"}
Late == {"review_branding", "adapt_platforms", "generate_mockups"}
Stored == {"mark_in_review", "open_approval"}

DrawnPictures == [run : Nat, variant : Variants \cup {"none"}, vendor : BOOLEAN]
States == [format : {"ad", "lifestyle"}, vendor : BOOLEAN, image : BOOLEAN,
           branded : BOOLEAN, bytes : DrawnPictures, variant : Variants \cup {"none"},
           revised : BOOLEAN, mockups : BOOLEAN]

RenderTypes ==
    /\ run \in Nat
    /\ node \in {"idle", "store_content"} \cup Early \cup Late \cup Stored
    /\ state \in States
    /\ objects \in [background : DrawnPictures, composed : DrawnPictures, branded : DrawnPictures,
                    mockups : DrawnPictures]
    /\ row \in [run : Nat, state : States, background : BOOLEAN]

\* The current row is the run's own only after it was stored; the pending
\* approval is about the current row.
RowAge ==
    /\ row.run <= run
    /\ node \in Early \cup Late \cup {"store_content"} => row.run < run
    /\ node \in Stored => row.run = run
    /\ approval \in {0, row.run}

\* The branded picture is the one carried, drawn as the state says.
Carried ==
    state.branded =>
        /\ objects.branded = state.bytes
        /\ state.bytes.run = run /\ state.bytes.variant = state.variant
        /\ state.bytes.vendor = state.vendor \/ state.revised
        /\ objects.composed = Raw(run)

Previewed ==
    state.mockups => objects.mockups = IF state.branded THEN state.bytes ELSE Raw(run)

Progress ==
    /\ node \in Early => ~state.branded /\ ~state.mockups
    /\ node \in Late => Carried /\ ~state.mockups
    /\ node = "store_content" => Carried /\ Previewed

RenderInv == RenderTypes /\ RowAge /\ Progress /\ ShipsWhatItShows

----------------------------------------------------------------------------
\* DrawnPictures may change while the row is another run's.
LEMMA OldRowShips ==
    ASSUME RenderTypes', RowAge', row'.run # run'
    PROVE  ShipsWhatItShows'
    BY DEF ShipsWhatItShows

LEMMA RawIsPicture == ASSUME NEW r \in Nat PROVE Raw(r) \in DrawnPictures
    BY DEF Raw, Picture, DrawnPictures

LEMMA DrawnIsPicture ==
    ASSUME NEW r \in Nat, NEW variant \in Variants, NEW vendor \in BOOLEAN
    PROVE  Picture(r, variant, vendor) \in DrawnPictures
    BY DEF Picture, DrawnPictures

LEMMA RenderInit == InitRender => RenderInv
<1> SUFFICES ASSUME InitRender PROVE RenderInv
    OBVIOUS
<1>1. NoPicture \in DrawnPictures
    BY DEF NoPicture, Picture, DrawnPictures
<1>2. Fresh \in States
    BY <1>1 DEF Fresh, States
<1>3. RenderTypes
    BY <1>1, <1>2 DEF InitRender, RenderTypes, NoRow
<1>4. RowAge /\ Progress /\ ShipsWhatItShows
    BY DEF InitRender, RowAge, Progress, ShipsWhatItShows, NoRow, Early, Late, Stored
<1> QED BY <1>3, <1>4 DEF RenderInv

\* A node that writes words, or ends the run, changes no picture.
LEMMA WordsKeep ==
    RenderInv /\ (\/ enrich_user_brief \/ generate_hook \/ generate_caption
                  \/ generate_hashtags \/ enhance_image_prompt \/ adapt_platforms)
        => RenderInv'
<1> SUFFICES ASSUME RenderInv,
                    \/ enrich_user_brief \/ generate_hook \/ generate_caption
                    \/ generate_hashtags \/ enhance_image_prompt \/ adapt_platforms
             PROVE  RenderInv'
    OBVIOUS
<1>1. UNCHANGED <<run, state, objects, row, approval>>
    BY DEF enrich_user_brief, generate_hook, generate_caption, generate_hashtags,
           enhance_image_prompt, adapt_platforms
<1>2. \/ node \in Early /\ node' \in Early \cup {"idle"}
      \/ node \in Late /\ node' \in Late \cup {"idle"}
    BY DEF enrich_user_brief, generate_hook, generate_caption, generate_hashtags,
           enhance_image_prompt, adapt_platforms, GotoOrFail, Goto, Failed, Early, Late
<1>3. RenderTypes'
    BY <1>1, <1>2 DEF RenderInv, RenderTypes
<1>4. RowAge' /\ ShipsWhatItShows'
    BY <1>1, <1>2 DEF RenderInv, RowAge, ShipsWhatItShows, Early, Late, Stored
<1>5. Progress'
    BY <1>1, <1>2 DEF RenderInv, Progress, Carried, Early, Late
<1> QED BY <1>3, <1>4, <1>5 DEF RenderInv

\* A new run has no pictures, and the row is an older run's.
LEMMA LoadKeeps == RenderInv /\ load_context => RenderInv'
<1> SUFFICES ASSUME RenderInv, load_context PROVE RenderInv'
    OBVIOUS
<1>1. /\ run' = run + 1 /\ state' = Fresh /\ UNCHANGED <<objects, row, approval>>
      /\ node' \in {"idle", "enrich_user_brief"}
    BY DEF load_context, Goto, Failed
<1>2. Fresh \in States
    BY DEF Fresh, States, NoPicture, Picture, DrawnPictures
<1>3. RenderTypes'
    BY <1>1, <1>2 DEF RenderInv, RenderTypes, Early
<1>4. row'.run < run'
    BY <1>1 DEF RenderInv, RenderTypes, RowAge
<1>5. RowAge'
    BY <1>1, <1>3, <1>4 DEF RenderInv, RenderTypes, RowAge, Early, Late, Stored
<1>6. Progress'
    BY <1>1 DEF Progress, Fresh, Early, Late
<1>7. ShipsWhatItShows'
    BY <1>3, <1>4, <1>5, OldRowShips DEF RenderTypes
<1> QED BY <1>3, <1>5, <1>6, <1>7 DEF RenderInv

\* What the state learns before the branding says nothing of pictures yet.
LEMMA SourceKeeps ==
    RenderInv /\ (source_product_image \/ generate_background) => RenderInv'
<1> SUFFICES ASSUME RenderInv, source_product_image \/ generate_background
             PROVE  RenderInv'
    OBVIOUS
<1>1. /\ UNCHANGED <<run, objects, row, approval>>
      /\ node \in Early /\ node' \in Early \cup {"idle"}
    BY DEF source_product_image, generate_background, Goto, Failed, Early
<1>2. /\ state' \in States
      /\ state'.branded = state.branded /\ state'.mockups = state.mockups
    BY DEF RenderInv, RenderTypes, States, source_product_image, generate_background,
           _decide_image_format
<1>3. RenderTypes'
    BY <1>1, <1>2 DEF RenderInv, RenderTypes
<1>4. RowAge' /\ ShipsWhatItShows'
    BY <1>1 DEF RenderInv, RowAge, ShipsWhatItShows, Early, Late, Stored
<1>5. Progress'
    BY <1>1, <1>2 DEF RenderInv, Progress, Early, Late
<1> QED BY <1>3, <1>4, <1>5 DEF RenderInv

\* The branded picture and the state agree, or the state does not call it
\* branded.
LEMMA BrandKeeps == RenderInv /\ apply_branding => RenderInv'
<1> SUFFICES ASSUME RenderInv, apply_branding PROVE RenderInv'
    OBVIOUS
<1>1. /\ UNCHANGED <<run, row, approval>>
      /\ node = "apply_branding" /\ node' = "review_branding"
    BY DEF apply_branding, Goto
<1>2. RowAge' /\ row'.run < run'
    BY <1>1 DEF RenderInv, RowAge, Early, Late, Stored
<1>3. ~state.branded /\ ~state.mockups
    BY <1>1 DEF RenderInv, Progress, Early
<1>4. RenderTypes' /\ Carried' /\ ~state'.mockups
  <2>1. CASE UNCHANGED <<state, objects>>
      BY <1>1, <1>3, <2>1 DEF RenderInv, RenderTypes, Carried, Late
  <2>2. CASE \E variant \in _resolve_logo_placement, vendor \in ProductLogo :
                 LET drawn == Picture(run, variant, vendor) IN
                 \/ /\ objects' = [objects EXCEPT !.branded = drawn]
                    /\ UNCHANGED state
                 \/ /\ objects' = [objects EXCEPT !.branded = drawn, !.composed = Raw(run)]
                    /\ state' = [state EXCEPT !.branded = TRUE, !.bytes = drawn,
                                              !.variant = variant, !.vendor = vendor]
    <3>1. PICK variant \in Variants, vendor \in {FALSE, state.vendor} :
              LET drawn == Picture(run, variant, vendor) IN
              \/ /\ objects' = [objects EXCEPT !.branded = drawn]
                 /\ UNCHANGED state
              \/ /\ objects' = [objects EXCEPT !.branded = drawn, !.composed = Raw(run)]
                 /\ state' = [state EXCEPT !.branded = TRUE, !.bytes = drawn,
                                           !.variant = variant, !.vendor = vendor]
        BY <2>2 DEF _resolve_logo_placement, ProductLogo
    <3>2. state \in States /\ state.vendor \in BOOLEAN /\ vendor \in BOOLEAN
        BY DEF RenderInv, RenderTypes, States
    <3> DEFINE drawn == Picture(run, variant, vendor)
    <3>3. /\ drawn \in DrawnPictures /\ Raw(run) \in DrawnPictures
          /\ drawn.run = run /\ drawn.variant = variant /\ drawn.vendor = vendor
        BY <3>2, DrawnIsPicture, RawIsPicture DEF RenderInv, RenderTypes, Picture
    <3>4. \/ /\ objects' = [objects EXCEPT !.branded = drawn]
             /\ UNCHANGED state
          \/ /\ objects' = [objects EXCEPT !.branded = drawn, !.composed = Raw(run)]
             /\ state' = [state EXCEPT !.branded = TRUE, !.bytes = drawn,
                                       !.variant = variant, !.vendor = vendor]
        BY <3>1
    <3> HIDE DEF drawn
    <3>5. /\ objects \in [background : DrawnPictures, composed : DrawnPictures, branded : DrawnPictures,
                          mockups : DrawnPictures]
          /\ run \in Nat
        BY DEF RenderInv, RenderTypes
    <3>6. /\ state' \in States
          /\ objects' \in [background : DrawnPictures, composed : DrawnPictures,
                           branded : DrawnPictures, mockups : DrawnPictures]
        BY <3>2, <3>3, <3>4, <3>5 DEF States
    <3>7. RenderTypes'
        BY <1>1, <3>6 DEF RenderInv, RenderTypes, Late
    <3>8. state'.mockups = state.mockups /\ objects'.branded = drawn
        BY <3>2, <3>4, <3>5 DEF States
    <3>9. \/ state' = state
          \/ /\ state'.bytes = drawn /\ state'.variant = variant /\ state'.vendor = vendor
             /\ objects'.composed = Raw(run)
        BY <3>2, <3>4, <3>5 DEF States
    <3>10. Carried'
        BY <1>1, <1>3, <3>3, <3>8, <3>9 DEF Carried, Raw
    <3> QED BY <1>3, <3>7, <3>8, <3>10
  <2> QED BY <2>1, <2>2 DEF apply_branding
<1>5. Progress'
    BY <1>1, <1>4 DEF Progress, Early, Late
<1>6. ShipsWhatItShows'
    BY <1>1, <1>2, <1>4, OldRowShips DEF RenderTypes
<1> QED BY <1>2, <1>4, <1>5, <1>6 DEF RenderInv

\* A picture drawn again replaces the one carried as well as the one stored.
LEMMA ReviewKeeps == RenderInv /\ review_branding => RenderInv'
<1> SUFFICES ASSUME RenderInv, review_branding PROVE RenderInv'
    OBVIOUS
<1>1. /\ UNCHANGED <<run, row, approval>>
      /\ node = "review_branding" /\ node' \in {"adapt_platforms", "idle"}
    BY DEF review_branding, Goto, Failed
<1>2. RowAge' /\ row'.run < run'
    BY <1>1 DEF RenderInv, RenderTypes, RowAge, Early, Late, Stored
<1>3. Carried /\ ~state.mockups
    BY <1>1 DEF RenderInv, Progress, Late
<1>4. RenderTypes' /\ Carried' /\ ~state'.mockups
  <2>1. CASE UNCHANGED <<state, objects>>
      BY <1>1, <1>3, <2>1 DEF RenderInv, RenderTypes, Carried, Late
  <2>2. CASE /\ state.branded
             /\ \E variant \in _resolve_logo_placement : state' = Redrawn(variant)
             /\ objects' = [objects EXCEPT !.branded = Picture(run, state'.variant, FALSE)]
    <3>1. PICK variant \in Variants : state' = Redrawn(variant)
        BY <2>2 DEF _resolve_logo_placement
    <3>2. /\ Picture(run, variant, FALSE) \in DrawnPictures
          /\ Picture(run, variant, FALSE).run = run
          /\ Picture(run, variant, FALSE).variant = variant
        BY DrawnIsPicture DEF RenderInv, RenderTypes, Picture
    <3>3. /\ state' \in States /\ state'.variant = variant /\ state'.revised
          /\ state'.bytes = Picture(run, variant, FALSE)
          /\ state'.mockups = state.mockups
        BY <3>1, <3>2 DEF RenderInv, RenderTypes, States, Redrawn
    <3>4. RenderTypes'
        BY <1>1, <2>2, <3>2, <3>3 DEF RenderInv, RenderTypes, Late
    <3>5. Carried'
        BY <1>1, <1>3, <2>2, <3>2, <3>3 DEF RenderInv, RenderTypes, Carried, Raw
    <3> QED BY <1>3, <3>3, <3>4, <3>5
  <2> QED BY <2>1, <2>2 DEF review_branding
<1>5. Progress'
    BY <1>1, <1>4 DEF Progress, Early, Late
<1>6. ShipsWhatItShows'
    BY <1>1, <1>2, <1>4, OldRowShips DEF RenderTypes
<1> QED BY <1>2, <1>4, <1>5, <1>6 DEF RenderInv

LEMMA MockupsKeep == RenderInv /\ generate_mockups => RenderInv'
<1> SUFFICES ASSUME RenderInv, generate_mockups PROVE RenderInv'
    OBVIOUS
<1>1. /\ UNCHANGED <<run, row, approval>>
      /\ node = "generate_mockups" /\ node' = "store_content"
    BY DEF generate_mockups, Goto
<1>2. RowAge' /\ row'.run < run'
    BY <1>1 DEF RenderInv, RenderTypes, RowAge, Early, Late, Stored
<1>3. Carried /\ ~state.mockups
    BY <1>1 DEF RenderInv, Progress, Late
<1>4. RenderTypes' /\ Carried' /\ Previewed'
  <2>1. CASE UNCHANGED <<state, objects>>
      BY <1>1, <1>3, <2>1 DEF RenderInv, RenderTypes, Carried, Previewed
  <2>2. CASE /\ objects' = [objects EXCEPT !.mockups =
                                IF state.branded THEN state.bytes ELSE Raw(run)]
             /\ state' = [state EXCEPT !.mockups = TRUE]
    <3>1. state.bytes \in DrawnPictures /\ Raw(run) \in DrawnPictures
        BY RawIsPicture DEF RenderInv, RenderTypes, States
    <3>2. RenderTypes'
        BY <1>1, <2>2, <3>1, ZenonT(60) DEF RenderInv, RenderTypes, States
    <3>3. Carried' /\ Previewed'
        BY <1>1, <1>3, <2>2 DEF RenderInv, RenderTypes, States, Carried, Previewed, Raw
    <3> QED BY <3>2, <3>3
  <2> QED BY <2>1, <2>2 DEF generate_mockups
<1>5. Progress'
    BY <1>1, <1>4 DEF Progress, Early, Late
<1>6. ShipsWhatItShows'
    BY <1>1, <1>2, <1>4, OldRowShips DEF RenderTypes
<1> QED BY <1>2, <1>4, <1>5, <1>6 DEF RenderInv

\* The row takes over what the state carries.
LEMMA StoreKeeps == RenderInv /\ store_content_node => RenderInv'
<1> SUFFICES ASSUME RenderInv, store_content_node PROVE RenderInv'
    OBVIOUS
<1>1. /\ UNCHANGED <<run, state>> /\ node = "store_content"
      /\ objects' \in {objects, [objects EXCEPT !.background =
                                     IF state.image THEN Raw(run) ELSE @]}
    BY DEF store_content_node
<1>2. /\ objects' \in [background : DrawnPictures, composed : DrawnPictures, branded : DrawnPictures,
                       mockups : DrawnPictures]
      /\ objects'.branded = objects.branded /\ objects'.composed = objects.composed
      /\ objects'.mockups = objects.mockups
    BY <1>1, RawIsPicture DEF RenderInv, RenderTypes
<1>3. Carried /\ Previewed /\ row.run < run
    BY <1>1 DEF RenderInv, Progress, RowAge
<1>4. CASE store_content /\ node' = "mark_in_review"
  <2>1. /\ row' = [run |-> run, state |-> state, background |-> objects'.background = Raw(run)]
        /\ approval' = 0
      BY <1>4 DEF store_content
  <2>2. /\ row'.run = run /\ row'.state = state
        /\ row'.background = (objects'.background = Raw(run))
        /\ row' \in [run : Nat, state : States, background : BOOLEAN]
      BY <2>1 DEF RenderInv, RenderTypes
  <2>3. RenderTypes'
      BY <1>1, <1>2, <1>4, <2>2 DEF RenderInv, RenderTypes, Stored
  <2>4. RowAge' /\ Progress'
      BY <1>1, <1>4, <2>1, <2>2 DEF RenderInv, RenderTypes, RowAge, Progress,
                                    Early, Late, Stored
  <2>5. ShipsWhatItShows'
      BY <1>1, <1>2, <1>3, <2>1, <2>2, ZenonT(60) DEF ShipsWhatItShows, Carried, Previewed, Raw
  <2> QED BY <2>3, <2>4, <2>5 DEF RenderInv
<1>5. CASE Failed /\ UNCHANGED <<row, approval>>
  <2>1. node' = "idle"
      BY <1>5 DEF Failed
  <2>2. RenderTypes'
      BY <1>1, <1>2, <1>5, <2>1 DEF RenderInv, RenderTypes
  <2>3. RowAge' /\ Progress'
      BY <1>1, <1>5, <2>1 DEF RenderInv, RowAge, Progress, Early, Late, Stored
  <2>4. ShipsWhatItShows'
      BY <1>1, <1>3, <1>5, <2>2, <2>3, OldRowShips DEF RenderInv, RenderTypes
  <2> QED BY <2>2, <2>3, <2>4 DEF RenderInv
<1> QED BY <1>4, <1>5 DEF store_content_node, Goto

\* After the row nothing is drawn, and an approval is opened about that row.
LEMMA SettleKeeps ==
    RenderInv /\ (MarkInReview \/ OpenApproval \/ Abort \/ resolve_approval \/ transition_status)
        => RenderInv'
<1> SUFFICES ASSUME RenderInv,
                    \/ MarkInReview \/ OpenApproval \/ Abort
                    \/ resolve_approval \/ transition_status
             PROVE  RenderInv'
    OBVIOUS
<1>1. UNCHANGED <<run, state, objects, row>>
    BY DEF MarkInReview, OpenApproval, Abort, resolve_approval, transition_status
<1>2. \/ node' = node
      \/ node' = "idle"
      \/ node = "mark_in_review" /\ node' = "open_approval"
    BY DEF MarkInReview, OpenApproval, Abort, resolve_approval, transition_status,
           GotoOrFail, Goto, Failed
<1>3. \/ approval' \in {0, approval}
      \/ node = "open_approval" /\ approval' \in {0, run}
    BY DEF MarkInReview, OpenApproval, Abort, resolve_approval, transition_status
<1>4. RenderTypes'
    BY <1>1, <1>2 DEF RenderInv, RenderTypes, Stored
<1>5. RowAge'
    BY <1>1, <1>2, <1>3 DEF RenderInv, RowAge, Early, Late, Stored
<1>6. Progress'
    BY <1>1, <1>2 DEF RenderInv, Progress, Carried, Previewed, Early, Late
<1>7. approval' \in {0, row'.run}
    BY <1>5 DEF RowAge
<1>8. ShipsWhatItShows'
    BY <1>1, <1>7 DEF RenderInv, ShipsWhatItShows
<1> QED BY <1>4, <1>5, <1>6, <1>8 DEF RenderInv

----------------------------------------------------------------------------
\* Once a run has written its row, and until the next run starts, every path
\* the row names holds that run's picture, drawn as the row says, the previews
\* show the picture that ships and the open approval is about that row
\* (store_content_node, review_branding).
THEOREM RowShipsItsPictures == RenderSpec => []ShipsWhatItShows
<1>1. RenderInv /\ [NextRender]_render_vars => RenderInv'
  <2> SUFFICES ASSUME RenderInv, [NextRender]_render_vars PROVE RenderInv'
      OBVIOUS
  <2>1. CASE NextRender
      BY <2>1, WordsKeep, LoadKeeps, SourceKeeps, BrandKeeps, ReviewKeeps, MockupsKeep,
         StoreKeeps, SettleKeeps DEF NextRender
  <2>2. CASE UNCHANGED render_vars
      BY <2>2 DEF render_vars, RenderInv, RenderTypes, RowAge, Progress, Carried,
                  Previewed, ShipsWhatItShows
  <2> QED BY <2>1, <2>2
<1>2. RenderInv => ShipsWhatItShows
    BY DEF RenderInv
<1> QED BY <1>1, <1>2, RenderInit, PTL DEF RenderSpec

-----------------------------------------------------------------------------
(* ImageRender. The least bad picture leaves generate_image, for any number
   of retries, models and polls.  The invariant follows the loop: as long as
   it runs, every frame but the one to be looked at was flagged, and best is
   the earliest of the least severe among them. *)

Frame == [severity : Severities, verdict : Severities]
Frames == Seq(Frame)

Looping == at \in {"submit", "poll", "cloud", "inspect"}

\* The frames the guard has looked at.
Seen == IF at = "inspect" THEN Len(frames) - 1 ELSE Len(frames)

\* b is the earliest of the least severe among the first n frames of f.
IsBest(b, f, n) ==
    /\ b \in 1..n
    /\ \A k \in 1..n : f[b].verdict <= f[k].verdict
    /\ \A k \in 1..(b - 1) : f[k].verdict > f[b].verdict

Flagged(f, n) == \A k \in 1..n : f[k].verdict > 0

\* What may leave: the best of all frames, a flagged one only at the end.
MayLeave(p, f) ==
    /\ IsBest(p, f, Len(f))
    /\ f[p].verdict > 0 => Len(f) = Retries + 1

InLoop ==
    Looping =>
        /\ picture = 0 /\ pack = "blank"
        /\ at = "inspect" => Len(frames) > 0
        /\ Flagged(frames, Seen)
        /\ IF Seen = 0 THEN best = 0 ELSE IsBest(best, frames, Seen)

Leaving ==
    at \in {"swap", "end"} =>
        IF picture = 0 THEN at = "end" /\ (keyed => model = Models) /\ pack = "blank"
        ELSE MayLeave(picture, frames)

ImageInv ==
    /\ frames \in Frames /\ picture \in Nat
    /\ at \in {"submit", "poll", "cloud", "inspect", "swap", "end"}
    /\ InLoop /\ Leaving

----------------------------------------------------------------------------
LEMMA FrameInFrames ==
    ASSUME NEW f \in Frames, NEW i \in 1..Len(f)
    PROVE  f[i] \in Frame
    BY DEF Frames

\* A new frame waits for its look and changes nothing about those before it.
LEMMA NewFrame ==
    ASSUME ImageInv, at \in {"submit", "poll", "cloud"}, Rendered,
           UNCHANGED <<best, picture, pack>>
    PROVE  ImageInv'
<1>1. PICK severity \in Severities :
        frames' = Append(frames, [severity |-> severity, verdict |-> 0])
    BY DEF Rendered
<1>2. at' = "inspect"
    BY DEF Rendered
<1>3. /\ frames \in Frames /\ frames' \in Frames
      /\ Len(frames') = Len(frames) + 1 /\ Len(frames) \in Nat
      /\ \A k \in 1..Len(frames) : frames'[k] = frames[k]
    BY <1>1 DEF ImageInv, Frames, Frame, Severities
<1>4. Seen' = Len(frames) /\ Seen = Len(frames)
    BY <1>2, <1>3 DEF Seen
<1>5. Flagged(frames', Len(frames))
    BY <1>3, <1>4 DEF ImageInv, InLoop, Looping, Flagged
<1>6. IF Len(frames) = 0 THEN best = 0 ELSE IsBest(best, frames', Len(frames))
    BY <1>3, <1>4 DEF ImageInv, InLoop, Looping, IsBest
<1>7. InLoop'
    BY <1>2, <1>3, <1>4, <1>5, <1>6 DEF ImageInv, InLoop, Looping
<1>8. Leaving'
    BY <1>2 DEF Leaving
<1> QED BY <1>2, <1>3, <1>7, <1>8 DEF ImageInv

\* A step within the cascade that renders nothing.
LEMMA NoFrame ==
    ASSUME ImageInv, at \in {"submit", "poll", "cloud"},
           at' \in {"submit", "poll", "cloud"},
           UNCHANGED <<frames, best, picture, pack>>
    PROVE  ImageInv'
<1>1. Seen' = Seen
    BY DEF Seen
<1> QED BY <1>1 DEF ImageInv, InLoop, Looping, Leaving, IsBest, Flagged

LEMMA CascadeKeeps ==
    ImageInv /\ (SubmitLocal \/ PollLocal \/ CloudTry) => ImageInv'
<1>1. ASSUME ImageInv, SubmitLocal PROVE ImageInv'
    BY <1>1, NoFrame DEF SubmitLocal, FallBack
<1>2. ASSUME ImageInv, PollLocal PROVE ImageInv'
    BY <1>2, NewFrame, NoFrame DEF PollLocal, FallBack
<1>3. ASSUME ImageInv, CloudTry PROVE ImageInv'
  <2>1. UNCHANGED <<keyed, best, picture, pack>> /\ at = "cloud"
      BY <1>3 DEF CloudTry
  <2>2. CASE Rendered
      BY <1>3, <2>1, <2>2, NewFrame
  <2>3. CASE UNCHANGED <<at, frames>>
      BY <1>3, <2>1, <2>3, NoFrame
  <2>4. CASE (keyed => model = Models) /\ at' = "end" /\ UNCHANGED <<model, try, frames>>
    <3>1. picture = 0 /\ pack = "blank"
        BY <1>3, <2>1 DEF ImageInv, InLoop, Looping
    <3>2. InLoop' /\ Leaving'
        BY <2>1, <2>4, <3>1 DEF InLoop, Leaving, Looping
    <3> QED BY <1>3, <2>1, <2>4, <3>2 DEF ImageInv
  <2> QED BY <1>3, <2>2, <2>3, <2>4 DEF CloudTry
<1> QED BY <1>1, <1>2, <1>3

\* A clean look ends the loop with the latest frame; a flagged one updates
\* best, and ends it when no retry is left.
LEMMA InspectKeeps == ImageInv /\ Inspect => ImageInv'
<1> SUFFICES ASSUME ImageInv, Inspect PROVE ImageInv'
    OBVIOUS
<1> DEFINE k == Len(frames)
<1>1. at = "inspect" /\ UNCHANGED <<pack, model, keyed>>
    BY DEF Inspect
<1>2. PICK verdict \in {frames[k].severity, 0} :
        LET seen == [frames EXCEPT ![k].verdict = verdict] IN
        /\ frames' = seen
        /\ IF verdict = 0 THEN Took(k) /\ UNCHANGED best
           ELSE /\ best' = Keep(seen)
                /\ IF k = Retries + 1 THEN Took(best')
                   ELSE at' = First /\ UNCHANGED <<picture, try>>
    BY DEF Inspect
<1>3. /\ k \in Nat /\ k > 0 /\ frames \in Frames
      /\ picture = 0 /\ pack = "blank" /\ Seen = k - 1
      /\ Flagged(frames, k - 1)
      /\ IF k - 1 = 0 THEN best = 0 ELSE IsBest(best, frames, k - 1)
    BY <1>1 DEF ImageInv, InLoop, Looping, Seen, Frames
<1>4. frames[k] \in Frame /\ verdict \in Severities
  <2>1. k \in 1..Len(frames)
      BY <1>3
  <2>2. frames[k] \in Frame
      BY <1>3, <2>1, FrameInFrames
  <2>3. frames[k].severity \in Severities
      BY <2>2 DEF Frame
  <2> QED BY <2>2, <2>3 DEF Severities
<1>5. /\ frames' \in Frames /\ Len(frames') = k
      /\ frames'[k].verdict = verdict
      /\ \A i \in 1..(k - 1) : frames'[i] = frames[i]
    BY <1>2, <1>3, <1>4 DEF Frames, Frame
<1>6. Flagged(frames', k - 1)
    BY <1>3, <1>5 DEF Flagged
<1>7. \A i \in 1..k : frames'[i].verdict \in Severities
    BY <1>5, FrameInFrames DEF Frame
<1> HIDE DEF k
<1>8. CASE verdict = 0
  <2>1. picture' = k /\ at' \in {"swap", "end"}
      BY <1>2, <1>8 DEF Took
  <2>2. MayLeave(k, frames')
      BY <1>3, <1>5, <1>6, <1>7, <1>8 DEF MayLeave, IsBest, Flagged, Severities
  <2> QED BY <1>3, <1>5, <2>1, <2>2 DEF ImageInv, InLoop, Looping, Leaving
<1>9. CASE verdict # 0
  <2>1. best' = IF best = 0 \/ frames'[k].verdict < frames'[best].verdict THEN k ELSE best
      BY <1>2, <1>5, <1>9 DEF Keep
  <2>2. IsBest(best', frames', k)
    <3>1. CASE k - 1 = 0
        BY <1>3, <1>5, <1>7, <2>1, <3>1 DEF IsBest, Severities
    <3>2. CASE k - 1 # 0
      <4>1. IsBest(best, frames', k - 1)
          BY <1>3, <1>5, <3>2 DEF IsBest
      <4>2. best \in 1..(k - 1) /\ frames'[best].verdict \in Severities
          BY <1>3, <1>7, <4>1 DEF IsBest
      <4> QED BY <1>3, <1>7, <2>1, <4>1, <4>2 DEF IsBest, Severities
    <3> QED BY <3>1, <3>2
  <2>3. Flagged(frames', k)
      BY <1>3, <1>4, <1>5, <1>6, <1>9 DEF Flagged, Severities
  <2>4. CASE k = Retries + 1
    <3>1. picture' = best' /\ at' \in {"swap", "end"}
        BY <1>2, <1>9, <2>4 DEF Took, k
    <3>2. MayLeave(best', frames') /\ best' \in Nat /\ best' # 0
      <4>1. best' \in 1..k
          BY <2>2 DEF IsBest
      <4> QED BY <1>3, <1>5, <2>2, <2>4, <4>1 DEF MayLeave
    <3> QED BY <1>5, <3>1, <3>2 DEF ImageInv, InLoop, Looping, Leaving
  <2>5. CASE k # Retries + 1
    <3>1. at' \in {"submit", "cloud"} /\ picture' = picture
        BY <1>2, <1>9, <2>5 DEF First, k
    <3>2. Seen' = k
        BY <1>5, <3>1 DEF Seen
    <3> QED BY <1>1, <1>3, <1>5, <2>2, <2>3, <3>1, <3>2
            DEF ImageInv, InLoop, Looping, Leaving
  <2> QED BY <2>4, <2>5
<1> QED BY <1>8, <1>9

\* The GPU and the swap change no frame and no choice.
LEMMA OthersKeep == ImageInv /\ (Forge \/ SwapTry) => ImageInv'
<1>1. ASSUME ImageInv, Forge PROVE ImageInv'
    BY <1>1 DEF Forge, ImageInv, InLoop, Looping, Leaving, Seen, IsBest, Flagged, MayLeave
<1>2. ASSUME ImageInv, SwapTry PROVE ImageInv'
  <2>1. /\ at = "swap" /\ at' \in {"swap", "end"}
        /\ UNCHANGED <<frames, picture>> /\ picture # 0
      BY <1>2 DEF SwapTry, ImageInv, Leaving
  <2>2. MayLeave(picture, frames)'
      BY <1>2, <2>1 DEF ImageInv, Leaving, MayLeave, IsBest
  <2> QED BY <1>2, <2>1, <2>2 DEF ImageInv, InLoop, Looping, Leaving
<1> QED BY <1>1, <1>2

LEMMA ImageInit == InitImage => ImageInv
    BY DEF InitImage, First, ImageInv, Frames, InLoop, Looping, Leaving, Seen, Flagged

LEMMA ImageInvLeaves == ImageInv => LeastBadLeaves
<1> SUFFICES ASSUME ImageInv, at = "end" PROVE LeastBadLeaves
    BY DEF LeastBadLeaves
<1>1. CASE picture = 0
    BY <1>1 DEF ImageInv, Leaving, LeastBadLeaves
<1>2. CASE picture # 0
    BY <1>2 DEF ImageInv, Leaving, MayLeave, IsBest, LeastBadLeaves
<1> QED BY <1>1, <1>2

----------------------------------------------------------------------------
\* The picture that leaves the guard is the earliest of the least severe
\* frames, a flagged one leaves only when all retries were spent, and none
\* leaves only when the last model failed or there is no key to ask one with
\* (generate_image, _generate_image_once).
THEOREM LeastBadPicture == ImageSpec => []LeastBadLeaves
<1>1. ImageInv /\ [NextImage]_image_vars => ImageInv'
  <2> SUFFICES ASSUME ImageInv, [NextImage]_image_vars PROVE ImageInv'
      OBVIOUS
  <2>1. CASE NextImage
      BY <2>1, CascadeKeeps, InspectKeeps, OthersKeep DEF NextImage
  <2>2. CASE UNCHANGED image_vars
      BY <2>2 DEF image_vars, ImageInv, InLoop, Looping, Leaving, Seen, IsBest,
                  Flagged, MayLeave
  <2> QED BY <2>1, <2>2
<1> QED BY <1>1, ImageInit, ImageInvLeaves, PTL DEF ImageSpec

-----------------------------------------------------------------------------
(* VideoCall. No cloud is paid for what the request is not for, however often
   the clip is asked for, whatever the keys become and however long a job
   takes. *)

Entries == [provider : Providers,
            event : {"skipped", "failed", "submitted", "config_error", "succeeded"}]
Phases == {"available", "submit", "poll", "fetch", "refused", "given up", "failed", "delivered"}
Asking == {"available", "submit", "poll", "fetch"}

CallTypes ==
    /\ segmented \in BOOLEAN
    /\ todo \in Seq(Providers) /\ (phase \in Asking => todo # <<>>)
    /\ phase \in Phases
    /\ ledger \in Seq(Entries)

\* A refused key ends the call, and no provider is asked after it.
RefusalEnds == Logged("config_error") => phase = "refused"

\* A cloud is given a job only of a request it takes.
AskedTakes == phase = "submit" => ~(segmented /\ Provider \in Paid)

CallInv == CallTypes /\ RefusalEnds /\ AskedTakes /\ PaidOnlyWhenMeant

\* The provider asked is one of the cascade.
LEMMA ProviderIsOne ==
  ASSUME CallTypes, phase \in Asking
  PROVE  /\ Provider \in Providers /\ Tail(todo) \in Seq(Providers)
         /\ Len(todo) # 1 => Tail(todo) # <<>>
<1>1. todo \in Seq(Providers) /\ todo # <<>> BY DEF CallTypes
<1>2. Head(todo) \in Providers /\ Tail(todo) \in Seq(Providers) /\ Len(Tail(todo)) = Len(todo) - 1
  BY <1>1, HeadTailProperties
<1>3. Len(todo) # 1 => Len(Tail(todo)) # 0 BY <1>1, <1>2
<1>4. Len(<<>>) = 0 OBVIOUS
<1> QED BY <1>2, <1>3, <1>4 DEF Provider

\* A call begins with a provider and with nothing logged.
LEMMA CascadeTypes == Cascade \in Seq(Providers) /\ Cascade # <<>>
<1>1. <<"veo", "fal", "forge">> \in Seq(Providers) /\ <<"forge", "fal">> \in Seq(Providers)
  BY DEF Providers, Paid
<1>2. <<"veo", "fal", "forge">> # <<>> /\ <<"forge", "fal">> # <<>> OBVIOUS
<1> QED BY <1>1, <1>2 DEF Cascade

LEMMA NothingLogged ==
  ASSUME NEW l, l = <<>>
  PROVE  l \in Seq(Entries) /\ ~\E i \in 1..Len(l) : l[i].event = "config_error"
BY EmptySeq

\* What is logged is in the ledger from then on, and nothing else is new.
LEMMA LogAdds ==
  ASSUME CallTypes, phase \in Asking, NEW event, Log(event),
         event \in {"skipped", "failed", "submitted", "config_error", "succeeded"}
  PROVE  /\ ledger' \in Seq(Entries)
         /\ event # "config_error" => (Logged("config_error")' => Logged("config_error"))
<1>1. Provider \in Providers BY ProviderIsOne
<1>2. DEFINE e == [provider |-> Provider, event |-> event]
<1>3. e \in Entries BY <1>1 DEF Entries
<1>4. ledger \in Seq(Entries) /\ ledger' = Append(ledger, e) BY DEF Log, CallTypes
<1>5. ledger' \in Seq(Entries) BY <1>3, <1>4
<1>6. ASSUME event # "config_error", Logged("config_error")' PROVE Logged("config_error")
  <2>1. PICK i \in 1..Len(ledger') : ledger'[i].event = "config_error"
    BY <1>6 DEF Logged
  <2>2. e.event = event OBVIOUS
  <2> HIDE DEF e
  <2>3. Len(ledger') = Len(ledger) + 1 /\ Len(ledger) \in Nat
        /\ ledger'[Len(ledger) + 1] = e
        /\ \A j \in 1..Len(ledger) : ledger'[j] = ledger[j]
    BY <1>3, <1>4
  <2>4. i \in 1..Len(ledger)
    BY <1>6, <2>1, <2>2, <2>3
  <2> QED BY <2>1, <2>3, <2>4 DEF Logged
<1> QED BY <1>5, <1>6

\* Going on to the next provider keeps all that is promised.
LEMMA NextKeeps ==
  ASSUME CallInv, phase \in Asking, NextProvider, segmented' = segmented, spent' = spent,
         ledger' \in Seq(Entries), Logged("config_error")' => Logged("config_error")
  PROVE  CallInv'
<1>1. Tail(todo) \in Seq(Providers) /\ (Len(todo) # 1 => Tail(todo) # <<>>)
  BY ProviderIsOne DEF CallInv
<1>2. phase' \in {"failed", "available"} /\ (phase' \in Asking => todo' # <<>>)
  BY <1>1 DEF NextProvider, Asking
<1>3. CallTypes' BY <1>1, <1>2 DEF CallInv, CallTypes, NextProvider, Phases
<1>4. ~Logged("config_error")' BY DEF CallInv, RefusalEnds, Asking
<1> QED BY <1>2, <1>3, <1>4 DEF CallInv, RefusalEnds, AskedTakes, PaidOnlyWhenMeant

\* A provider that is skipped or fails is followed by the next.
LEMMA SkipKeeps ==
  ASSUME CallInv, phase \in Asking, Skip \/ FailProvider,
         segmented' = segmented, spent' = spent
  PROVE  CallInv'
BY LogAdds, NextKeeps DEF Skip, FailProvider, CallInv

\* A submission is paid for only by a request the cloud takes, and before any
\* refusal.
LEMMA SpendKeeps ==
  ASSUME CallInv, phase = "submit", Spend \/ spent' = spent
  PROVE  PaidOnlyWhenMeant'
<1>1. ~Logged("config_error") /\ ~(segmented /\ Provider \in Paid)
  BY DEF CallInv, RefusalEnds, AskedTakes
<1> QED BY <1>1 DEF Spend, PaidOnlyWhenMeant, CallInv

LEMMA InitMeant == InitCall => CallInv
<1> SUFFICES ASSUME InitCall PROVE CallInv OBVIOUS
<1>1. Cascade \in Seq(Providers) /\ Cascade # <<>> BY CascadeTypes
<1>2. ledger \in Seq(Entries) /\ ~Logged("config_error") BY NothingLogged DEF InitCall, Logged
<1> QED BY <1>1, <1>2
  DEF InitCall, CallInv, CallTypes, Phases, RefusalEnds, AskedTakes, PaidOnlyWhenMeant

LEMMA CallStep == CallInv /\ [NextCall]_call_vars => CallInv'
<1> SUFFICES ASSUME CallInv, [NextCall]_call_vars PROVE CallInv' OBVIOUS
<1>0. CallTypes BY DEF CallInv
<1>1. CASE available
  <2>1. CASE Takes(Provider) /\ phase' = "submit" /\ UNCHANGED <<todo, waits, ledger>>
    BY <2>1, <1>1 DEF available, Takes, request, CallInv, CallTypes, Phases, Asking, RefusalEnds,
       AskedTakes, PaidOnlyWhenMeant, Logged, Provider
  <2>2. CASE Skip
    BY <2>2, <1>1, SkipKeeps DEF available, request, Asking
  <2> QED BY <1>1, <2>1, <2>2 DEF available
<1>2. CASE submit
  <2>0. phase = "submit" /\ phase \in Asking /\ segmented' = segmented
    BY <1>2 DEF submit, request, Asking
  <2>1. CASE Log("submitted") /\ phase' = "poll" /\ Spend /\ UNCHANGED <<todo, waits>>
    <3>1. PaidOnlyWhenMeant' BY <2>0, <2>1, SpendKeeps
    <3>2. ledger' \in Seq(Entries) /\ ~Logged("config_error")'
      BY <2>0, <2>1, <1>0, LogAdds DEF CallInv, RefusalEnds
    <3> QED BY <2>0, <2>1, <3>1, <3>2 DEF CallInv, CallTypes, Phases, RefusalEnds, AskedTakes
  <2>2. CASE FailProvider /\ (Spend \/ UNCHANGED spent)
    <3>1. PaidOnlyWhenMeant' BY <2>0, <2>2, SpendKeeps
    <3>2. ledger' \in Seq(Entries) /\ ~Logged("config_error")'
      BY <2>0, <2>2, <1>0, LogAdds DEF CallInv, RefusalEnds, FailProvider
    <3>3. Tail(todo) \in Seq(Providers) /\ (Len(todo) # 1 => Tail(todo) # <<>>)
      BY <2>0, <1>0, ProviderIsOne
    <3>4. phase' \in {"failed", "available"} /\ (phase' \in Asking => todo' # <<>>)
      BY <2>2, <3>3 DEF FailProvider, NextProvider, Asking
    <3>5. CallTypes'
      BY <2>0, <2>2, <3>2, <3>3, <3>4 DEF CallInv, CallTypes, FailProvider, NextProvider, Phases
    <3> QED BY <3>1, <3>2, <3>4, <3>5 DEF CallInv, RefusalEnds, AskedTakes
  <2>3. CASE Skip /\ UNCHANGED spent
    BY <2>0, <2>3, SkipKeeps
  <2> QED BY <1>2, <2>1, <2>2, <2>3 DEF submit
<1>3. CASE submit_refused
  <2>0. phase = "submit" /\ phase \in Asking /\ segmented' = segmented /\ spent' = spent
    BY <1>3 DEF submit_refused, request, Asking
  <2>1. CASE Refuse
    <3>1. ledger' \in Seq(Entries) BY <2>0, <2>1, <1>0, LogAdds DEF Refuse
    <3> QED BY <2>0, <2>1, <3>1 DEF Refuse, CallInv, CallTypes, Phases, Asking, RefusalEnds,
               AskedTakes, PaidOnlyWhenMeant
  <2>2. CASE Skip \/ FailProvider
    BY <2>0, <2>2, SkipKeeps
  <2> QED BY <1>3, <2>1, <2>2 DEF submit_refused
<1>4. CASE poll
  <2>0. phase = "poll" /\ phase \in Asking /\ segmented' = segmented /\ spent' = spent
    BY <1>4 DEF poll, request, Asking
  <2>1. CASE Log("succeeded") /\ phase' = "fetch" /\ UNCHANGED <<todo, waits>>
    <3>1. ledger' \in Seq(Entries) /\ ~Logged("config_error")'
      BY <2>0, <2>1, <1>0, LogAdds DEF CallInv, RefusalEnds
    <3> QED BY <2>0, <2>1, <3>1 DEF CallInv, CallTypes, Phases, RefusalEnds, AskedTakes,
               PaidOnlyWhenMeant
  <2>2. CASE UNCHANGED <<todo, phase, ledger>>
    BY <2>0, <2>2 DEF CallInv, CallTypes, RefusalEnds, AskedTakes, PaidOnlyWhenMeant, Logged
  <2>3. CASE FailProvider
    BY <2>0, <2>3, SkipKeeps
  <2> QED BY <1>4, <2>1, <2>2, <2>3 DEF poll
<1>5. CASE poll_deadline
  BY <1>5, SkipKeeps DEF poll_deadline, request, Asking
<1>6. CASE fetch
  <2>0. phase = "fetch" /\ phase \in Asking /\ segmented' = segmented /\ spent' = spent
    BY <1>6 DEF fetch, request, Asking
  <2>1. CASE phase' = "delivered" /\ UNCHANGED <<todo, waits, ledger>>
    BY <2>0, <2>1 DEF CallInv, CallTypes, Phases, Asking, RefusalEnds, AskedTakes,
       PaidOnlyWhenMeant, Logged
  <2>2. CASE FailProvider
    BY <2>0, <2>2, SkipKeeps
  <2> QED BY <1>6, <2>1, <2>2 DEF fetch
<1>7. CASE give_up
  <2>1. ledger' \in Seq(Entries) /\ ~Logged("config_error")'
    BY <1>7, NothingLogged DEF give_up, Logged
  <2> QED BY <1>7, <2>1 DEF give_up, request, CallInv, CallTypes, Phases, Asking, RefusalEnds,
             AskedTakes, PaidOnlyWhenMeant
<1>8. CASE ask_again
  <2>1. ledger' \in Seq(Entries) /\ ~Logged("config_error")'
    BY <1>8, NothingLogged DEF ask_again, Logged
  <2> QED BY <1>8, <2>1, CascadeTypes DEF ask_again, CallInv, CallTypes, Phases, RefusalEnds,
             AskedTakes, PaidOnlyWhenMeant
<1>9. CASE Work \/ UNCHANGED call_vars
  BY <1>9 DEF Work, call_vars, request, CallInv, CallTypes, RefusalEnds, AskedTakes,
     PaidOnlyWhenMeant, Logged, Provider
<1> QED BY <1>1, <1>2, <1>3, <1>4, <1>5, <1>6, <1>7, <1>8, <1>9 DEF NextCall

\* Money is spent only on what the request is for (generate_video,
\* ProviderConfigError).
THEOREM PaymentsAreMeant == CallSpec => []PaidOnlyWhenMeant
<1>1. CallInv => PaidOnlyWhenMeant BY DEF CallInv
<1> QED BY InitMeant, CallStep, <1>1, PTL DEF CallSpec

-----------------------------------------------------------------------------
(* ReelFinish.  What the first shots last together, and the length of the film:
   the footage, and the card once it is on, as long as a probe answered. *)

\* The running total of a sequence of numbers.
LEMMA Sums ==
  ASSUME NEW w \in Seq(Int)
  PROVE  /\ Upto(w) \in [0..Len(w) -> Int] /\ Upto(w)[0] = 0
         /\ \A i \in 1..Len(w) : Upto(w)[i] = Upto(w)[i - 1] + w[i]
<1> DEFINE n == Len(w)
           rule == [i \in 1..n |-> [x \in Int |-> x + w[i]]]
           Is(g) == g = [i \in 0..n |-> IF i = 0 THEN 0 ELSE g[i - 1] + w[i]]
<1>1. n \in Nat /\ \A i \in 1..n : w[i] \in Int
  OBVIOUS
<1>2. rule \in [1..n -> [Int -> Int]]
  BY <1>1
<1>3. \E f : Recurses(f, n, Int, 0, rule)
  <2>1. 0 \in Int
    OBVIOUS
  <2> HIDE DEF n, rule
  <2> QED
    BY <1>1, <1>2, <2>1, Recursive
<1>4. PICK f : Recurses(f, n, Int, 0, rule)
  BY <1>3
<1>5. \A i \in 1..n : f[i] = f[i - 1] + w[i]
  <2> SUFFICES ASSUME NEW i \in 1..n PROVE f[i] = f[i - 1] + w[i]
    OBVIOUS
  <2>1. i - 1 \in 0..n
    BY <1>1
  <2>2. rule[i] = [x \in Int |-> x + w[i]]
    OBVIOUS
  <2> HIDE DEF n, rule
  <2>3. f[i - 1] \in Int /\ f[i] = rule[i][f[i - 1]]
    BY <1>4, <2>1 DEF Recurses
  <2> QED
    BY <2>2, <2>3
<1>6. Is(f)
  <2> HIDE DEF n
  <2> QED
    BY <1>1, <1>4, <1>5 DEF Recurses
<1>7. Upto(w) = CHOOSE g : Is(g)
  BY DEF Upto
<1>8. Is(Upto(w))
  <2> HIDE DEF Is
  <2> QED
    BY <1>6, <1>7
<1>9. Upto(w) = f
  <2> DEFINE u == Upto(w)
             T == {i \in 0..n : u[i] = f[i]}
  <2>1. 0 \in T
    BY <1>1, <1>4, <1>8 DEF Recurses
  <2>2. \A k \in 0..(n - 1) : k \in T => k + 1 \in T
    <3> SUFFICES ASSUME NEW k \in 0..(n - 1), k \in T PROVE k + 1 \in T
      OBVIOUS
    <3>1. k + 1 \in 1..n /\ k + 1 - 1 = k /\ k + 1 # 0
      BY <1>1
    <3>2. u[k + 1] = u[k] + w[k + 1]
      BY <1>8, <3>1
    <3> QED
      BY <3>1, <3>2, <1>5
  <2>3. 0..n \subseteq T
    <3> HIDE DEF T
    <3> QED
      BY <1>1, <2>1, <2>2, UpTo
  <2>4. \A i \in 0..n : u[i] = f[i]
    BY <2>3
  <2>5. u = [i \in 0..n |-> u[i]]
    BY <1>8
  <2> HIDE DEF u
  <2> QED
    BY <2>4, <2>5 DEF u
<1> QED
  BY <1>4, <1>5, <1>9 DEF Recurses

\* Lengths that are not negative add up to one that is not.
LEMMA SumsAreNatural ==
  ASSUME NEW w \in Seq(Nat)
  PROVE  Upto(w) \in [0..Len(w) -> Nat]
<1>1. w \in Seq(Int) /\ Len(w) \in Nat /\ \A i \in 1..Len(w) : w[i] \in Nat
  OBVIOUS
<1> DEFINE u == Upto(w)
           n == Len(w)
           T == {i \in 0..n : u[i] >= 0}
<1>2. /\ u \in [0..n -> Int] /\ u[0] = 0
      /\ \A i \in 1..n : u[i] = u[i - 1] + w[i]
  BY <1>1, Sums
<1> HIDE DEF u
<1>3. 0 \in T
  BY <1>1, <1>2
<1>4. \A k \in 0..(n - 1) : k \in T => k + 1 \in T
  <2> SUFFICES ASSUME NEW k \in 0..(n - 1), k \in T PROVE k + 1 \in T
    OBVIOUS
  <2>1. k + 1 \in 1..n /\ k + 1 - 1 = k /\ k + 1 \in 0..n
    BY <1>1
  <2>2. u[k + 1] = u[k] + w[k + 1] /\ u[k] \in Int /\ w[k + 1] \in Nat
    BY <1>1, <1>2, <2>1, SMTT(60)
  <2> QED
    BY <2>1, <2>2
<1>5. 0..n \subseteq T
  <2> HIDE DEF T
  <2> QED
    BY <1>1, <1>3, <1>4, UpTo
<1> QED
  BY <1>1, <1>2, <1>5 DEF u

\* How long the film is in every step: its footage, and its card once that is on.
Longer == IF film.card THEN EndCard ELSE 0
LengthInv ==
    /\ DOMAIN film = {"length", "burned", "card", "music", "sound"}
    /\ DOMAIN meta = {"overlay", "end_card", "audio", "length"}
    /\ footage \in Nat /\ known \in {0, footage}
    /\ film.card \in BOOLEAN
    /\ film_at \in {"join", "probe", "guard", "card", "burn", "attach"} =>
           ~film.card
    /\ film_at \in {"assemble", "audio"} /\ known > 0 => meta.length = known + Longer
    /\ film_at # "end" /\ (film_at # "store" \/ known > 0) => film.length = footage + Longer

\* The lengths of a plan add up to a natural number.
LEMMA PlanAddsUp ==
  ASSUME FinishAssumption, film_shots \in FittedPlans
  PROVE  Total(Planned) \in Nat
<1>1. PICK n \in 1..MaxShots :
         film_shots \in [1..n -> [of : 1..MaxShots, text : Wordings, dur : Lengths]]
  BY DEF FittedPlans
<1>2. n \in Nat /\ Lengths \subseteq Nat
  BY DEF FinishAssumption
<1>6. Len(film_shots) = n
  <2> DEFINE S == [of : 1..MaxShots, text : Wordings, dur : Lengths]
  <2>1. film_shots \in [1..n -> S]
    BY <1>1
  <2> HIDE DEF S
  <2> QED
    BY <1>2, <2>1
<1>7. \A i \in 1..n : film_shots[i].dur \in Nat
  BY <1>1, <1>2
<1>3. Planned \in [1..n -> Nat]
  BY <1>6, <1>7 DEF Planned
<1>4. Planned \in Seq(Nat) /\ Len(Planned) = n
  BY <1>2, <1>3
<1>5. Upto(Planned) \in [0..n -> Nat]
  BY <1>4, SumsAreNatural
<1> QED
  BY <1>2, <1>4, <1>5 DEF Total

\* Every reel starts with the length of its footage.
LEMMA LengthStart == FinishAssumption /\ InitFinish => LengthInv
<1> SUFFICES ASSUME FinishAssumption, InitFinish PROVE LengthInv
  OBVIOUS
<1>1. footage \in Nat
  <2>1. CASE lane = "single"
    BY <2>1 DEF InitFinish, FinishAssumption
  <2>2. CASE lane # "single"
    <3>1. film_shots \in FittedPlans
      BY DEF InitFinish
    <3>2. footage = (3 * Total(Planned)) \div 4
      BY <2>2 DEF InitFinish
    <3> QED
      BY <3>1, <3>2, PlanAddsUp
  <2> QED
    BY <2>1, <2>2
<1> QED
  BY <1>1 DEF InitFinish, LengthInv, Longer, NoMeta

\* No pass takes footage or card away, as far as the length is known.
LEMMA LengthStep == LengthInv /\ [NextFinish]_finish_vars => LengthInv'
<1> SUFFICES ASSUME LengthInv, [NextFinish]_finish_vars PROVE LengthInv'
  OBVIOUS
<1> USE DEF Longer, FailFilm
<1>1. CASE JoinClips
  <2>1. CASE FailFilm /\ UNCHANGED <<film, footage, known, timed>>
    BY <1>1, <2>1 DEF JoinClips, LengthInv
  <2>2. ASSUME NEW answers \in BOOLEAN, NEW length \in {footage, footage \div 3},
               known' = (IF answers THEN length ELSE 0),
               footage' = length, film' = [film EXCEPT !.length = length], film_at' = "guard",
               film_at = "join", meta' = meta
        PROVE  LengthInv'
    <3>1. length \in Nat
      BY <2>2 DEF LengthInv
    <3> QED
      BY <2>2, <3>1 DEF LengthInv
  <2>3. CASE FailFilm /\ UNCHANGED <<film, footage, known>>
    BY <1>1, <2>3 DEF JoinClips, LengthInv
  <2> QED
    BY <1>1, <2>1, <2>2, <2>3 DEF JoinClips
<1>2. CASE ProbeNative
  BY <1>2 DEF ProbeNative, LengthInv
<1>3. CASE LabelGuard
  BY <1>3 DEF LabelGuard, LengthInv
<1>4. CASE BuildEndCard
  BY <1>4 DEF BuildEndCard, LengthInv
<1>5. CASE BurnOverlays
  <2>1. /\ film_at = "burn" /\ film_at' = "attach" /\ UNCHANGED <<footage, known>>
    BY <1>5 DEF BurnOverlays
  <2>2. \/ film' = film
        \/ \E events : film' = [film EXCEPT !.burned = events]
    BY <1>5 DEF BurnOverlays
  <2>3. \E o : meta' = [meta EXCEPT !.overlay = o]
    BY <1>5 DEF BurnOverlays
  <2> QED
    BY <2>1, <2>2, <2>3 DEF LengthInv
<1>6. CASE AttachEndCard
  <2>1. CASE ~card_made /\ meta' = [meta EXCEPT !.length = SaidLength(FALSE)] /\ film' = film
    BY <1>6, <2>1 DEF AttachEndCard, SaidLength, BareLength, LengthInv
  <2>2. CASE /\ card_made
             /\ film' = [film EXCEPT !.card = TRUE, !.length = @ + EndCard]
             /\ meta' = [meta EXCEPT !.length = SaidLength(TRUE)]
    BY <1>6, <2>2 DEF AttachEndCard, SaidLength, BareLength, LengthInv
  <2>3. CASE /\ card_made
             /\ meta' = [AttachFailure(meta) EXCEPT !.length = SaidLength(FALSE)]
             /\ film' = film
    BY <1>6, <2>3 DEF AttachEndCard, SaidLength, BareLength, LengthInv, AttachFailure
  <2> QED
    BY <1>6, <2>1, <2>2, <2>3 DEF AttachEndCard
<1>7. CASE AssembleAudio
  BY <1>7 DEF AssembleAudio, LengthInv
<1>8. CASE FinishAudio
  <2>1. /\ film_at = "audio" /\ film_at' = "store" /\ UNCHANGED <<footage, known>>
        /\ \E b : meta' = [meta EXCEPT !.audio = b]
    BY <1>8 DEF FinishAudio
  <2>2. CASE film' = film
    BY <2>1, <2>2 DEF LengthInv
  <2>3. ASSUME NEW keep, NEW bed, NEW d \in PassLength, d > 0, film' = Mixed(keep, bed, d)
        PROVE  LengthInv'
    <3>1. known > 0 => d = film.length
      BY <2>1, <2>3 DEF PassLength, LengthInv
    <3>2. known > 0 => film'.length = film.length
      BY <2>3, <3>1 DEF Mixed, Least, LengthInv
    <3>3. film'.card = film.card /\ DOMAIN film' = DOMAIN film
      BY <2>3 DEF Mixed
    <3> QED
      BY <2>1, <3>2, <3>3 DEF LengthInv
  <2> QED
    BY <1>8, <2>2, <2>3 DEF FinishAudio
<1>9. CASE StoreFilm
  BY <1>9 DEF StoreFilm, LengthInv
<1>10. CASE UNCHANGED finish_vars
  BY <1>10 DEF finish_vars, LengthInv
<1> QED
  BY <1>1, <1>2, <1>3, <1>4, <1>5, <1>6, <1>7, <1>8, <1>9, <1>10 DEF NextFinish, Render

\* A reel whose length the code could measure keeps it through every pass, for
\* every plan, footage and outcome of a probe (_audio_finish_cmd).
THEOREM FilmKeepsItsLength == FinishSpec => []KeepsItsLength
<1>1. InitFinish => LengthInv
  BY FinishAssumption, LengthStart DEF FinishAssumption
<1>2. LengthInv => KeepsItsLength
  BY DEF LengthInv, KeepsItsLength, Longer
<1> QED
  BY <1>1, <1>2, LengthStep, PTL DEF FinishSpec

-----------------------------------------------------------------------------
(* Captions.  Beats in a chain, each starting where the one before ends, merged
   and held over: no line comes back, and the last one ends with the reel. *)

\* A line over a stretch of the reel; the call to action has a style of its own.
Stretches(texts) ==
    {e \in [text : texts, style : {"Hook", "Overlay", "CTA"}, from : Nat, to : Nat] :
        e.style = "CTA" <=> e.text = AskLine}

\* From the start of the reel on, one stretch begins where the one before ends.
Chain(s, texts) ==
    /\ s \in Seq(Stretches(texts)) /\ s # <<>> /\ s[1].from = 0
    /\ \A j \in 1..Len(s) : s[j].from <= s[j].to
    /\ \A j \in 1..(Len(s) - 1) : s[j].to = s[j + 1].from

\* No line comes back.
Distinct(s) ==
    \A j \in 1..Len(s) : \A i \in 1..(j - 1) : s[i].text # "" => s[i].text # s[j].text

\* t is s with a longer last stretch.
Extends(t, s, to) ==
    /\ Len(t) = Len(s) /\ t # <<>> /\ \A j \in 1..(Len(s) - 1) : t[j] = s[j]
    /\ t[Len(s)].to = to /\ t[Len(s)].from = s[Len(s)].from
    /\ t[Len(s)].text = s[Len(s)].text /\ t[Len(s)].style = s[Len(s)].style

\* ExtendLast changes the end of the last stretch and nothing else.
LEMMA ExtendedLast ==
  ASSUME NEW texts, NEW s \in Seq(Stretches(texts)), s # <<>>,
         NEW e \in Stretches(texts)
  PROVE  ExtendLast(s, e) \in Seq(Stretches(texts)) /\ Extends(ExtendLast(s, e), s, e.to)
<1> DEFINE n == Len(s)
           last == [s[n] EXCEPT !.to = e.to]
           t == ExtendLast(s, e)
<1>1. n \in Nat /\ n > 0 /\ s[n] \in Stretches(texts)
  BY EmptySeq
<1>2. /\ last \in Stretches(texts) /\ last.to = e.to /\ last.from = s[n].from
      /\ last.text = s[n].text /\ last.style = s[n].style
  BY <1>1 DEF Stretches
<1>3. t = [s EXCEPT ![n] = last]
  BY DEF ExtendLast
<1> HIDE DEF last, t
<1>4. t \in [1..n -> Stretches(texts)]
  BY <1>1, <1>2, <1>3
<1>5. t \in Seq(Stretches(texts)) /\ Len(t) = n
  BY <1>1, <1>4
<1>6. t[n] = last /\ \A j \in 1..(n - 1) : t[j] = s[j]
  BY <1>1, <1>3
<1> QED
  BY <1>1, <1>2, <1>5, <1>6 DEF t, Extends

\* Either way a chain grows into one that ends where the next stretch does.
LEMMA ChainGrows ==
  ASSUME NEW texts, NEW s, Chain(s, texts), NEW e \in Stretches(texts), s[Len(s)].to = e.from,
         e.from <= e.to,
         NEW t, t = ExtendLast(s, e) \/ t = Append(s, e)
  PROVE  Chain(t, texts) /\ t[Len(t)].to = e.to
<1> DEFINE n == Len(s)
<1>1. s \in Seq(Stretches(texts)) /\ s # <<>> /\ n \in Nat /\ n > 0 /\ s[n] \in Stretches(texts)
  BY EmptySeq DEF Chain
<1>2. /\ e.from <= e.to /\ s[n].from <= s[n].to
      /\ s[n].from \in Nat /\ s[n].to \in Nat /\ e.from \in Nat /\ e.to \in Nat
  BY <1>1 DEF Stretches, Chain
<1>3. CASE t = ExtendLast(s, e)
  <2>1. /\ t \in Seq(Stretches(texts)) /\ Len(t) = n /\ t # <<>>
        /\ \A j \in 1..(n - 1) : t[j] = s[j]
        /\ t[n].to = e.to /\ t[n].from = s[n].from
    BY <1>1, <1>2, <1>3, ExtendedLast, ZenonT(60) DEF Extends
  <2>2. t[1].from = 0
    BY <1>1, <2>1 DEF Chain
  <2>3. ASSUME NEW j \in 1..(n - 1) PROVE t[j].to = t[j + 1].from
    <3>1. CASE j + 1 = n
      BY <1>1, <2>1, <3>1 DEF Chain
    <3>2. CASE j + 1 # n
      BY <1>1, <2>1, <3>2 DEF Chain
    <3> QED
      BY <3>1, <3>2
  <2>4. \A j \in 1..n : t[j].from <= t[j].to
    BY <1>1, <1>2, <2>1 DEF Chain
  <2> QED
    BY <2>1, <2>2, <2>3, <2>4 DEF Chain
<1>4. CASE t = Append(s, e)
  <2>1. /\ t \in Seq(Stretches(texts)) /\ Len(t) = n + 1 /\ t # <<>>
        /\ \A j \in 1..n : t[j] = s[j]
        /\ t[n + 1] = e
    BY <1>1, <1>4
  <2>2. t[1].from = 0
    BY <1>1, <2>1 DEF Chain
  <2>3. ASSUME NEW j \in 1..n PROVE t[j].to = t[j + 1].from
    <3>1. CASE j = n
      BY <1>1, <2>1, <3>1
    <3>2. CASE j # n
      BY <1>1, <2>1, <3>2 DEF Chain
    <3> QED
      BY <3>1, <3>2
  <2>4. \A j \in 1..(n + 1) : t[j].from <= t[j].to
    BY <1>1, <1>2, <2>1 DEF Chain
  <2> QED
    BY <1>1, <2>1, <2>2, <2>3, <2>4 DEF Chain
<1> QED
  BY <1>3, <1>4

\* Where nothing comes back but what goes on, Joined leaves no line twice.
GoesOn(s) ==
    \A j \in 1..Len(s) : \A i \in 1..(j - 1) :
        s[i].text # "" /\ s[i].text = s[j].text
            => s[j - 1].text = s[j].text /\ s[j - 1].style = s[j].style

\* Every line of s is one of the first k of of.
From(s, of, k) == \A j \in 1..Len(s) : \E i \in 1..k : s[j].text = of[i].text

\* Joined makes the last stretch longer or adds one.
LEMMA JoinedStretches ==
  ASSUME NEW texts, NEW s \in Seq(Stretches(texts)), NEW e \in Stretches(texts)
  PROVE  Joined(s, e) = Append(s, e) \/ (s # <<>> /\ Joined(s, e) = ExtendLast(s, e))
  BY DEF Joined

\* What Joined makes of a beat.
LEMMA JoinedKeeps ==
  ASSUME NEW texts, NEW beats, Chain(beats, texts), GoesOn(beats),
         NEW k \in 1..(Len(beats) - 1), NEW e, e = beats[k + 1],
         NEW s, Chain(s, texts), Distinct(s), From(s, beats, k),
         s[Len(s)].to = beats[k].to, s[Len(s)].text = beats[k].text,
         s[Len(s)].style = beats[k].style,
         NEW t, t = Joined(s, e)
  PROVE  /\ Chain(t, texts) /\ Distinct(t) /\ From(t, beats, k + 1)
         /\ t[Len(t)].to = e.to /\ t[Len(t)].text = e.text /\ t[Len(t)].style = e.style
<1> DEFINE n == Len(s)
<1>1. /\ s \in Seq(Stretches(texts)) /\ s # <<>> /\ n \in Nat /\ n > 0 /\ Last(s) = s[n]
      /\ k + 1 \in 1..Len(beats) /\ e \in Stretches(texts) /\ beats[k].to = e.from
      /\ k \in Nat /\ e.from <= e.to
  BY EmptySeq, SMTT(60) DEF Chain, Last
<1>2. \A j \in 1..n : \A i \in 1..(j - 1) : s[i].text # "" => s[i].text # s[j].text
  BY DEF Distinct
<1>3. \A j \in 1..n : \E i \in 1..k : s[j].text = beats[i].text
  BY DEF From
<1>4. \A j \in 1..n : \E i \in 1..(k + 1) : s[j].text = beats[i].text
  BY <1>1, <1>3
<1>7. n = Len(s)
  OBVIOUS
<1>8. n \in Nat /\ s[Len(s)].to = e.from
  BY <1>1
<1>9. s \in Seq(Stretches(texts)) /\ s # <<>> /\ e \in Stretches(texts) /\ e.from <= e.to
  BY <1>1
<1> HIDE DEF n
<1>5. CASE s[n].text = e.text /\ s[n].style = e.style
  <2>1. t = ExtendLast(s, e)
    BY <1>1, <1>5 DEF Joined
  <2>2. /\ Len(t) = n /\ t[n].text = s[n].text /\ t[n].style = s[n].style
        /\ \A j \in 1..(n - 1) : t[j] = s[j]
    <3>1. Extends(t, s, e.to)
      BY <1>9, <2>1, ExtendedLast
    <3> QED
      BY <1>7, <3>1 DEF Extends
  <2>3. \A j \in 1..n : t[j].text = s[j].text
    BY <1>1, <2>2
  <2>4. \A j \in 1..n : \A i \in 1..(j - 1) : t[i].text # "" => t[i].text # t[j].text
    <3> SUFFICES ASSUME NEW j \in 1..n, NEW i \in 1..(j - 1)
                 PROVE  t[i].text # "" => t[i].text # t[j].text
      OBVIOUS
    <3>1. i \in 1..n
      BY <1>8
    <3> QED
      BY <1>2, <2>3, <3>1, ZenonT(60)
  <2>5. Distinct(t)
    BY <2>2, <2>4 DEF Distinct
  <2>6. From(t, beats, k + 1)
    BY <1>4, <2>2, <2>3 DEF From
  <2>7. Chain(t, texts) /\ t[Len(t)].to = e.to
    <3>1. t = ExtendLast(s, e) \/ t = Append(s, e)
      BY <2>1
    <3> QED
      BY <1>8, <1>9, <3>1, ChainGrows
  <2> QED
    BY <1>5, <1>7, <2>2, <2>5, <2>6, <2>7
<1>6. CASE ~(s[n].text = e.text /\ s[n].style = e.style)
  <2>1. t = Append(s, e)
    BY <1>1, <1>6 DEF Joined
  <2>2. Len(t) = n + 1 /\ t[n + 1] = e /\ \A j \in 1..n : t[j] = s[j]
    BY <1>1, <1>7, <2>1
  <2>3. \A j \in 1..n : s[j].text # "" => s[j].text # e.text
    <3> SUFFICES ASSUME NEW j \in 1..n PROVE s[j].text # "" => s[j].text # e.text
      OBVIOUS
    <3>1. PICK i \in 1..k : s[j].text = beats[i].text
      BY <1>3
    <3>2. i \in 1..((k + 1) - 1) /\ (k + 1) - 1 = k
      BY <1>1
    <3>3. \A h \in 1..Len(beats) : \A g \in 1..(h - 1) :
            beats[g].text # "" /\ beats[g].text = beats[h].text
              => beats[h - 1].text = beats[h].text /\ beats[h - 1].style = beats[h].style
      BY DEF GoesOn
    <3>4. beats[i].text # "" /\ beats[i].text = e.text
             => beats[k].text = e.text /\ beats[k].style = e.style
      BY <1>1, <3>2, <3>3
    <3> QED
      BY <1>6, <1>7, <3>1, <3>4
  <2>4. \A j \in 1..(n + 1) : \A i \in 1..(j - 1) : t[i].text # "" => t[i].text # t[j].text
    <3> SUFFICES ASSUME NEW j \in 1..(n + 1), NEW i \in 1..(j - 1)
                 PROVE  t[i].text # "" => t[i].text # t[j].text
      OBVIOUS
    <3>1. i \in 1..n /\ (j = n + 1 \/ j \in 1..n)
      BY <1>8
    <3>2. t[i] = s[i]
      BY <2>2, <3>1
    <3>3. CASE j = n + 1
      BY <2>2, <2>3, <3>1, <3>2, <3>3
    <3>4. CASE j \in 1..n
      BY <1>2, <2>2, <3>2, <3>4, ZenonT(60)
    <3> QED
      BY <3>1, <3>3, <3>4
  <2>5. Distinct(t)
    BY <2>2, <2>4 DEF Distinct
  <2>6. From(t, beats, k + 1)
    <3> SUFFICES ASSUME NEW j \in 1..(n + 1) PROVE \E i \in 1..(k + 1) : t[j].text = beats[i].text
      BY <2>2 DEF From
    <3>1. j = n + 1 \/ j \in 1..n
      BY <1>8
    <3>3. e.text = beats[k + 1].text /\ k + 1 \in 1..(k + 1)
      BY <1>1
    <3>4. j = n + 1 => t[j] = e
      BY <2>2
    <3> QED
      BY <1>4, <2>2, <3>1, <3>3, <3>4
  <2>7. Chain(t, texts) /\ t[Len(t)].to = e.to
    <3>1. t = ExtendLast(s, e) \/ t = Append(s, e)
      BY <2>1
    <3> QED
      BY <1>8, <1>9, <3>1, ChainGrows
  <2> QED
    BY <2>1, <2>2, <2>5, <2>6, <2>7
<1> QED
  BY <1>5, <1>6

\* The recursion of Merged, over the beats of a chain.
LEMMA MergedIs ==
  ASSUME NEW texts, NEW beats, Chain(beats, texts)
  PROVE  \E m : /\ Merged(beats) = m[Len(beats)] /\ m[0] = <<>>
                /\ \A i \in 1..Len(beats) : m[i] = Joined(m[i - 1], beats[i])
<1> DEFINE n == Len(beats)
           S == Seq(Stretches(texts))
           rule == [i \in 1..n |-> [s \in S |-> Joined(s, beats[i])]]
           Is(g) == g = [i \in 0..n |-> IF i = 0 THEN <<>> ELSE Joined(g[i - 1], beats[i])]
           m == CHOOSE g : Is(g)
<1>1. n \in Nat /\ <<>> \in S /\ beats \in S
  BY DEF Chain
<1>2. ASSUME NEW i \in 1..n, NEW s \in S PROVE Joined(s, beats[i]) \in S
  <2>1. beats[i] \in Stretches(texts)
    BY <1>1
  <2>2. CASE Joined(s, beats[i]) = Append(s, beats[i])
    BY <2>1, <2>2
  <2>3. CASE s # <<>> /\ Joined(s, beats[i]) = ExtendLast(s, beats[i])
    BY <2>1, <2>3, ExtendedLast
  <2> QED
    BY <2>1, <2>2, <2>3, JoinedStretches
<1>3. Merged(beats) = m[n]
  BY DEF Merged
<1> HIDE DEF S
<1>4. rule \in [1..n -> [S -> S]]
  BY <1>2
<1> HIDE DEF n
<1>5. PICK f : Recurses(f, n, S, <<>>, rule)
  <2> HIDE DEF rule
  <2> QED
    BY <1>1, <1>4, Recursive
<1>6. \A i \in 1..n : f[i] = Joined(f[i - 1], beats[i])
  <2> SUFFICES ASSUME NEW i \in 1..n PROVE f[i] = Joined(f[i - 1], beats[i])
    OBVIOUS
  <2>1. i - 1 \in 0..n /\ rule[i] = [s \in S |-> Joined(s, beats[i])]
    BY <1>1
  <2> HIDE DEF rule
  <2> QED
    BY <1>5, <2>1 DEF Recurses
<1>7. Is(f)
  BY <1>1, <1>5, <1>6 DEF Recurses
<1>8. Is(m)
  <2> HIDE DEF Is
  <2> QED
    BY <1>7
<1> HIDE DEF m
<1>9. m[0] = <<>> /\ \A i \in 1..n : m[i] = Joined(m[i - 1], beats[i])
  BY <1>1, <1>8
<1> QED
  BY <1>3, <1>9 DEF n

\* Beats of a chain, merged, are a chain without a line twice, and its last is theirs.
LEMMA MergedKeeps ==
  ASSUME NEW texts, NEW beats, Chain(beats, texts), GoesOn(beats),
         NEW s, s = Merged(beats)
  PROVE  /\ Chain(s, texts) /\ Distinct(s)
         /\ s[Len(s)].to = beats[Len(beats)].to /\ s[Len(s)].text = beats[Len(beats)].text
         /\ s[Len(s)].style = beats[Len(beats)].style
<1> DEFINE n == Len(beats)
           Good(t, k) == /\ Chain(t, texts) /\ Distinct(t) /\ From(t, beats, k)
                         /\ t[Len(t)].to = beats[k].to /\ t[Len(t)].text = beats[k].text
                         /\ t[Len(t)].style = beats[k].style
<1>1. n \in Nat /\ n > 0 /\ beats \in Seq(Stretches(texts)) /\ beats[1] \in Stretches(texts)
  BY EmptySeq DEF Chain
<1>2. PICK m : /\ Merged(beats) = m[n] /\ m[0] = <<>>
               /\ \A i \in 1..n : m[i] = Joined(m[i - 1], beats[i])
  BY MergedIs
<1>3. Good(m[1], 1)
  <2>1. m[1] = Joined(m[0], beats[1])
    BY <1>1, <1>2
  <2>2. m[1] = <<beats[1]>>
    BY <1>2, <2>1 DEF Joined
  <2> DEFINE t == <<beats[1]>>
  <2>3. /\ t \in Seq(Stretches(texts)) /\ t # <<>> /\ Len(t) = 1 /\ t[1] = beats[1]
        /\ beats[1].from = 0 /\ beats[1].from <= beats[1].to
    BY <1>1 DEF Chain
  <2> HIDE DEF t
  <2>4. Chain(t, texts)
    BY <2>3 DEF Chain
  <2>5. Distinct(t) /\ From(t, beats, 1)
    BY <2>3 DEF Distinct, From
  <2> QED
    BY <2>2, <2>3, <2>4, <2>5 DEF t
<1> DEFINE T == {i \in 0..n : i = 0 \/ Good(m[i], i)}
<1>4. 0 \in T
  BY <1>1
<1>5. ASSUME NEW k \in 0..(n - 1), k \in T PROVE k + 1 \in T
  <2>1. CASE k = 0
    BY <1>1, <1>3, <2>1
  <2>2. CASE k # 0
    <3>1. k \in 1..(n - 1) /\ k + 1 \in 1..n /\ k + 1 - 1 = k /\ Good(m[k], k)
      BY <1>1, <1>5, <2>2
    <3>2. m[k + 1] = Joined(m[k], beats[k + 1])
      BY <1>2, <3>1
    <3>3. Good(m[k + 1], k + 1)
      BY <3>1, <3>2, JoinedKeeps
    <3> HIDE DEF Good
    <3> QED
      BY <3>1, <3>3
  <2> QED
    BY <2>1, <2>2
<1>6. 0..n \subseteq T
  <2> HIDE DEF T
  <2> QED
    BY <1>1, <1>4, <1>5, UpTo
<1>7. Good(m[n], n)
  <2> HIDE DEF Good
  <2> QED
    BY <1>1, <1>6
<1> QED
  BY <1>2, <1>7

\* What HeldOver makes of a stretch: no line comes back, and a call to action is not swallowed.
LEMMA HeldOverKeeps ==
  ASSUME NEW texts, NEW of, Chain(of, texts), Distinct(of),
         NEW k \in 1..(Len(of) - 1), NEW e, e = of[k + 1],
         NEW s, Chain(s, texts), Distinct(s), From(s, of, k), s[Len(s)].to = of[k].to,
         NEW t, t = HeldOver(s, e)
  PROVE  /\ Chain(t, texts) /\ Distinct(t) /\ From(t, of, k + 1) /\ t[Len(t)].to = e.to
         /\ e.text = AskLine => t[Len(t)].text = AskLine
<1> DEFINE n == Len(s)
<1>1. /\ s \in Seq(Stretches(texts)) /\ s # <<>> /\ n \in Nat /\ n > 0 /\ Last(s) = s[n]
      /\ k + 1 \in 1..Len(of) /\ e \in Stretches(texts) /\ of[k].to = e.from
      /\ k \in Nat /\ e.from <= e.to
  BY EmptySeq DEF Chain, Last
<1>2. \A j \in 1..n : \A i \in 1..(j - 1) : s[i].text # "" => s[i].text # s[j].text
  BY DEF Distinct
<1>3. \A j \in 1..n : \E i \in 1..k : s[j].text = of[i].text
  BY DEF From
<1>4. \A j \in 1..n : \E i \in 1..(k + 1) : s[j].text = of[i].text
  BY <1>1, <1>3
<1>7. n = Len(s)
  OBVIOUS
<1>8. n \in Nat /\ s[Len(s)].to = e.from
  BY <1>1
<1>9. s \in Seq(Stretches(texts)) /\ s # <<>> /\ e \in Stretches(texts) /\ e.from <= e.to
  BY <1>1
<1>10. n \in 1..n
  BY <1>1
<1>11. \A j \in 1..n : s[j].text # "" => s[j].text # e.text
  <2> SUFFICES ASSUME NEW j \in 1..n PROVE s[j].text # "" => s[j].text # e.text
    OBVIOUS
  <2>1. PICK i \in 1..k : s[j].text = of[i].text
    BY <1>3
  <2>2. i \in 1..((k + 1) - 1)
    BY <1>1
  <2>3. of[i].text # "" => of[i].text # of[k + 1].text
    BY <1>1, <2>2 DEF Distinct
  <2> QED
    BY <2>1, <2>3
<1>12. s[n].style = "CTA" <=> s[n].text = AskLine
  BY <1>1 DEF Stretches
<1>13. e.style = "CTA" <=> e.text = AskLine
  BY <1>1 DEF Stretches
<1> HIDE DEF n
<1>5. CASE Brief(s[n]) /\ (e.style = s[n].style \/ e.text = "")
  <2>1. t = ExtendLast(s, e)
    BY <1>1, <1>5 DEF HeldOver
  <2>2. /\ Len(t) = n /\ t[n].text = s[n].text /\ t[n].style = s[n].style
        /\ \A j \in 1..(n - 1) : t[j] = s[j]
    <3>1. Extends(t, s, e.to)
      BY <1>9, <2>1, ExtendedLast
    <3> QED
      BY <1>7, <3>1 DEF Extends
  <2>3. \A j \in 1..n : t[j].text = s[j].text
    BY <1>1, <2>2
  <2>4. \A j \in 1..n : \A i \in 1..(j - 1) : t[i].text # "" => t[i].text # t[j].text
    <3> SUFFICES ASSUME NEW j \in 1..n, NEW i \in 1..(j - 1)
                 PROVE  t[i].text # "" => t[i].text # t[j].text
      OBVIOUS
    <3>1. i \in 1..n
      BY <1>8
    <3> QED
      BY <1>2, <2>3, <3>1, ZenonT(60)
  <2>5. Distinct(t)
    BY <2>2, <2>4 DEF Distinct
  <2>6. From(t, of, k + 1)
    BY <1>4, <2>2, <2>3 DEF From
  <2>7. Chain(t, texts) /\ t[Len(t)].to = e.to
    <3>1. t = ExtendLast(s, e) \/ t = Append(s, e)
      BY <2>1
    <3> QED
      BY <1>8, <1>9, <3>1, ChainGrows
  <2>8. e.text # AskLine
    <3>1. s[n].text # ""
      BY <1>5 DEF Brief
    <3>2. s[n].text # e.text
      BY <1>10, <1>11, <3>1
    <3>3. AskLine # ""
      BY DEF AskLine
    <3> QED
      BY <1>5, <1>12, <1>13, <3>2, <3>3
  <2> QED
    BY <2>5, <2>6, <2>7, <2>8
<1>6. CASE ~(Brief(s[n]) /\ (e.style = s[n].style \/ e.text = ""))
  <2>1. t = Append(s, e)
    BY <1>1, <1>6 DEF HeldOver
  <2>2. Len(t) = n + 1 /\ t[n + 1] = e /\ \A j \in 1..n : t[j] = s[j]
    BY <1>1, <1>7, <2>1
  <2>4. \A j \in 1..(n + 1) : \A i \in 1..(j - 1) : t[i].text # "" => t[i].text # t[j].text
    <3> SUFFICES ASSUME NEW j \in 1..(n + 1), NEW i \in 1..(j - 1)
                 PROVE  t[i].text # "" => t[i].text # t[j].text
      OBVIOUS
    <3>1. i \in 1..n /\ (j = n + 1 \/ j \in 1..n)
      BY <1>8
    <3>2. t[i] = s[i]
      BY <2>2, <3>1
    <3>3. CASE j = n + 1
      BY <2>2, <1>11, <3>1, <3>2, <3>3
    <3>4. CASE j \in 1..n
      BY <1>2, <2>2, <3>2, <3>4, ZenonT(60)
    <3> QED
      BY <3>1, <3>3, <3>4
  <2>5. Distinct(t)
    BY <2>2, <2>4 DEF Distinct
  <2>6. From(t, of, k + 1)
    <3> SUFFICES ASSUME NEW j \in 1..(n + 1) PROVE \E i \in 1..(k + 1) : t[j].text = of[i].text
      BY <2>2 DEF From
    <3>1. j = n + 1 \/ j \in 1..n
      BY <1>8
    <3>3. e.text = of[k + 1].text /\ k + 1 \in 1..(k + 1)
      BY <1>1
    <3>4. j = n + 1 => t[j] = e
      BY <2>2
    <3> QED
      BY <1>4, <2>2, <3>1, <3>3, <3>4
  <2>7. Chain(t, texts) /\ t[Len(t)].to = e.to
    <3>1. t = ExtendLast(s, e) \/ t = Append(s, e)
      BY <2>1
    <3> QED
      BY <1>8, <1>9, <3>1, ChainGrows
  <2> QED
    BY <2>2, <2>5, <2>6, <2>7
<1> QED
  BY <1>5, <1>6

\* The recursion of Held, over a chain.
LEMMA HeldIs ==
  ASSUME NEW texts, NEW of, Chain(of, texts)
  PROVE  \E h : /\ Held(of) = h[Len(of)] /\ h[0] = <<>>
                /\ \A i \in 1..Len(of) : h[i] = HeldOver(h[i - 1], of[i])
<1> DEFINE n == Len(of)
           S == Seq(Stretches(texts))
           rule == [i \in 1..n |-> [s \in S |-> HeldOver(s, of[i])]]
           Is(g) == g = [i \in 0..n |-> IF i = 0 THEN <<>> ELSE HeldOver(g[i - 1], of[i])]
           h == CHOOSE g : Is(g)
<1>1. n \in Nat /\ <<>> \in S /\ of \in S
  BY DEF Chain
<1>2. ASSUME NEW i \in 1..n, NEW s \in S PROVE HeldOver(s, of[i]) \in S
  <2>1. of[i] \in Stretches(texts)
    BY <1>1
  <2>2. CASE HeldOver(s, of[i]) = Append(s, of[i])
    BY <2>1, <2>2
  <2>3. CASE s # <<>> /\ HeldOver(s, of[i]) = ExtendLast(s, of[i])
    BY <2>1, <2>3, ExtendedLast
  <2> QED
    BY <2>1, <2>2, <2>3 DEF HeldOver
<1>3. Held(of) = h[n]
  BY DEF Held
<1> HIDE DEF S
<1>4. rule \in [1..n -> [S -> S]]
  BY <1>2
<1> HIDE DEF n
<1>5. PICK f : Recurses(f, n, S, <<>>, rule)
  <2> HIDE DEF rule
  <2> QED
    BY <1>1, <1>4, Recursive
<1>6. \A i \in 1..n : f[i] = HeldOver(f[i - 1], of[i])
  <2> SUFFICES ASSUME NEW i \in 1..n PROVE f[i] = HeldOver(f[i - 1], of[i])
    OBVIOUS
  <2>1. i - 1 \in 0..n /\ rule[i] = [s \in S |-> HeldOver(s, of[i])]
    BY <1>1
  <2> HIDE DEF rule
  <2> QED
    BY <1>5, <2>1 DEF Recurses
<1>7. Is(f)
  BY <1>1, <1>5, <1>6 DEF Recurses
<1>8. Is(h)
  <2> HIDE DEF Is
  <2> QED
    BY <1>7
<1> HIDE DEF h
<1>9. h[0] = <<>> /\ \A i \in 1..n : h[i] = HeldOver(h[i - 1], of[i])
  BY <1>1, <1>8
<1> QED
  BY <1>3, <1>9 DEF n

\* Merged beats, held, are a chain without a line twice; a call to action stays last.
LEMMA HeldKeeps ==
  ASSUME NEW texts, NEW of, Chain(of, texts), Distinct(of), NEW s, s = Held(of)
  PROVE  /\ Chain(s, texts) /\ Distinct(s) /\ s[Len(s)].to = of[Len(of)].to
         /\ of[Len(of)].text = AskLine => s[Len(s)].text = AskLine
<1> DEFINE n == Len(of)
           Good(t, k) == /\ Chain(t, texts) /\ Distinct(t) /\ From(t, of, k)
                         /\ t[Len(t)].to = of[k].to
                         /\ of[k].text = AskLine => t[Len(t)].text = AskLine
<1>1. n \in Nat /\ n > 0 /\ of \in Seq(Stretches(texts)) /\ of[1] \in Stretches(texts)
  BY EmptySeq DEF Chain
<1>2. PICK h : /\ Held(of) = h[n] /\ h[0] = <<>>
               /\ \A i \in 1..n : h[i] = HeldOver(h[i - 1], of[i])
  BY HeldIs
<1>3. Good(h[1], 1)
  <2>1. h[1] = HeldOver(h[0], of[1])
    BY <1>1, <1>2
  <2>2. h[1] = <<of[1]>>
    <3>1. HeldOver(<<>>, of[1]) = Append(<<>>, of[1])
      BY DEF HeldOver
    <3> QED
      BY <1>2, <2>1, <3>1
  <2> DEFINE t == <<of[1]>>
  <2>3. /\ t \in Seq(Stretches(texts)) /\ t # <<>> /\ Len(t) = 1 /\ t[1] = of[1]
        /\ of[1].from = 0 /\ of[1].from <= of[1].to
    BY <1>1 DEF Chain
  <2> HIDE DEF t
  <2>4. Chain(t, texts)
    BY <2>3 DEF Chain
  <2>5. Distinct(t) /\ From(t, of, 1)
    <3>4. \A j \in 1..1 : 1..(j - 1) = {}
      OBVIOUS
    <3>1. Distinct(t)
      BY <2>3, <3>4 DEF Distinct
    <3>2. 1 \in 1..1 /\ \A j \in 1..1 : t[j].text = of[1].text
      BY <2>3
    <3>3. From(t, of, 1)
      BY <2>3, <3>2 DEF From
    <3> QED
      BY <3>1, <3>3
  <2> QED
    BY <2>2, <2>3, <2>4, <2>5 DEF t
<1> DEFINE T == {i \in 0..n : i = 0 \/ Good(h[i], i)}
<1>4. 0 \in T
  BY <1>1
<1>5. ASSUME NEW k \in 0..(n - 1), k \in T PROVE k + 1 \in T
  <2>1. CASE k = 0
    BY <1>1, <1>3, <2>1
  <2>2. CASE k # 0
    <3>1. k \in 1..(n - 1) /\ k + 1 \in 1..n /\ k + 1 - 1 = k /\ Good(h[k], k)
      BY <1>1, <1>5, <2>2
    <3>2. h[k + 1] = HeldOver(h[k], of[k + 1])
      BY <1>2, <3>1
    <3>3. Good(h[k + 1], k + 1)
      BY <3>1, <3>2, HeldOverKeeps
    <3> HIDE DEF Good
    <3> QED
      BY <3>1, <3>3
  <2> QED
    BY <2>1, <2>2
<1>6. 0..n \subseteq T
  <2> HIDE DEF T
  <2> QED
    BY <1>1, <1>4, <1>5, UpTo
<1>7. Good(h[n], n)
  <2> HIDE DEF Good
  <2> QED
    BY <1>1, <1>6
<1> QED
  BY <1>2, <1>7

\* What the stretches of a chain are.
LEMMA ChainTypes ==
  ASSUME NEW texts, NEW s, Chain(s, texts)
  PROVE  /\ s \in Seq(Stretches(texts)) /\ Len(s) \in Nat /\ Len(s) > 0
         /\ \A j \in 1..Len(s) :
              /\ s[j] \in Stretches(texts) /\ s[j].text \in texts
              /\ s[j].style \in {"Hook", "Overlay", "CTA"}
              /\ s[j].from \in Nat /\ s[j].to \in Nat /\ s[j].from <= s[j].to
              /\ s[j].style = "CTA" <=> s[j].text = AskLine
<1>1. s \in Seq(Stretches(texts)) /\ Len(s) \in Nat /\ Len(s) > 0
  BY EmptySeq DEF Chain
<1>2. \A j \in 1..Len(s) : s[j] \in Stretches(texts) /\ s[j].from <= s[j].to
  BY <1>1 DEF Chain
<1>3. \A e \in Stretches(texts) :
        /\ e.text \in texts /\ e.style \in {"Hook", "Overlay", "CTA"}
        /\ e.from \in Nat /\ e.to \in Nat
        /\ e.style = "CTA" <=> e.text = AskLine
  BY DEF Stretches
<1> QED
  BY <1>1, <1>2, <1>3

\* What comes earlier in a chain is over before what comes later begins.
LEMMA ChainOrder ==
  ASSUME NEW texts, NEW s, Chain(s, texts), NEW j \in 1..Len(s), NEW i \in 1..(j - 1)
  PROVE  s[i].to <= s[j].from
<1> DEFINE n == Len(s)
           T == {d \in 0..(n - i - 1) : s[i].to <= s[i + 1 + d].from}
<1>1. n \in Nat /\ i \in 1..(n - 1) /\ i \in 1..n /\ i + 1 \in 1..n /\ n - i - 1 \in Nat
  BY ChainTypes
<1>2. /\ \A h \in 1..n : s[h].from \in Nat /\ s[h].to \in Nat /\ s[h].from <= s[h].to
      /\ \A h \in 1..(n - 1) : s[h].to = s[h + 1].from
  BY ChainTypes DEF Chain
<1>3. 0 \in T
  BY <1>1, <1>2
<1>4. \A d \in 0..(n - i - 1 - 1) : d \in T => d + 1 \in T
  <2> SUFFICES ASSUME NEW d \in 0..(n - i - 1 - 1), d \in T PROVE d + 1 \in T
    OBVIOUS
  <2>1. i + 1 + d \in 1..(n - 1) /\ i + 1 + d \in 1..n /\ i + 1 + (d + 1) \in 1..n
        /\ i + 1 + (d + 1) = (i + 1 + d) + 1 /\ d + 1 \in 0..(n - i - 1)
    BY <1>1
  <2>2. s[i + 1 + d].to = s[i + 1 + (d + 1)].from /\ s[i + 1 + d].from <= s[i + 1 + d].to
        /\ s[i].to <= s[i + 1 + d].from
    BY <1>2, <2>1
  <2>3. s[i].to \in Nat /\ s[i + 1 + d].from \in Nat /\ s[i + 1 + d].to \in Nat
    BY <1>1, <1>2, <2>1
  <2>5. \A x, y, z \in Nat : x <= y /\ y <= z => x <= z
    OBVIOUS
  <2>6. s[i].to <= s[i + 1 + d].to
    BY <2>2, <2>3, <2>5
  <2> HIDE DEF T, n
  <2>4. s[i].to <= s[i + 1 + (d + 1)].from
    BY <2>2, <2>6
  <2> QED
    BY <2>1, <2>4 DEF T
<1>5. 0..(n - i - 1) \subseteq T
  <2> HIDE DEF T
  <2> QED
    BY <1>1, <1>3, <1>4, UpTo
<1>6. j - i - 1 \in 0..(n - i - 1) /\ i + 1 + (j - i - 1) = j
  BY <1>1
<1> QED
  BY <1>5, <1>6

\* Every stretch is over by the end of the reel, and before the next begins
\* unless there is nothing left of it.
InPlace(s, total) ==
    \A j \in 1..Len(s) :
        /\ s[j].to <= total
        /\ \A i \in 1..(j - 1) : s[i].to <= s[j].from \/ s[i].to <= s[i].from

\* A chain is in place over what its last stretch ends at.
LEMMA ChainInPlace ==
  ASSUME NEW texts, NEW s, Chain(s, texts)
  PROVE  InPlace(s, s[Len(s)].to)
<1> DEFINE n == Len(s)
<1>1. n \in Nat /\ n > 0 /\ n \in 1..n
      /\ \A j \in 1..n : s[j].from \in Nat /\ s[j].to \in Nat /\ s[j].from <= s[j].to
  BY ChainTypes
<1>2. ASSUME NEW j \in 1..n PROVE s[j].to <= s[n].to
  <2>1. CASE j = n
    BY <1>1, <2>1
  <2>2. CASE j # n
    <3>1. j \in 1..(n - 1)
      BY <1>1, <2>2
    <3>2. s[j].to <= s[n].from
      BY <1>1, <3>1, ChainOrder
    <3> QED
      BY <1>1, <3>2
  <2> QED
    BY <2>1, <2>2
<1> QED
  BY <1>2, ChainOrder DEF InPlace

\* Other times for the same lines bring none of them back.
LEMMA SameLines ==
  ASSUME NEW s, NEW t, Len(s) \in Nat, Len(t) = Len(s), Distinct(s),
         \A j \in 1..Len(s) : t[j].text = s[j].text
  PROVE  Distinct(t)
<1> DEFINE n == Len(s)
<1>1. n \in Nat /\ Len(t) = n /\ \A j \in 1..n : t[j].text = s[j].text
  OBVIOUS
<1>2. \A j \in 1..n : \A i \in 1..(j - 1) : s[i].text # "" => s[i].text # s[j].text
  BY DEF Distinct
<1> HIDE DEF n
<1>3. ASSUME NEW j \in 1..n, NEW i \in 1..(j - 1) PROVE t[i].text # "" => t[i].text # t[j].text
  <2>1. i \in 1..n
    BY <1>1
  <2> QED
    BY <1>1, <1>2, <2>1
<1> QED
  BY <1>1, <1>3 DEF Distinct

\* A call to action that takes time back leaves every stretch in its place, and
\* is as long as a line must be when the reel is.
LEMMA TakenBack ==
  ASSUME NEW texts, NEW held, Chain(held, texts), Distinct(held),
         NEW total, total = held[Len(held)].to,
         NEW s, s = AskTakesBack(held)
  PROVE  /\ s \in Seq(Stretches(texts)) /\ Len(s) = Len(held)
         /\ InPlace(s, total) /\ Distinct(s)
         /\ s[Len(s)].text = held[Len(held)].text
         /\ held[Len(held)].text = AskLine /\ total >= Dwell
              => s[Len(s)].to - s[Len(s)].from >= Dwell
<1> DEFINE n == Len(held)
           last == held[n]
<1>1. /\ held \in Seq(Stretches(texts)) /\ n \in Nat /\ n > 0 /\ n \in 1..n
      /\ \A j \in 1..n : /\ held[j] \in Stretches(texts)
                         /\ held[j].from \in Nat /\ held[j].to \in Nat /\ held[j].from <= held[j].to
      /\ last.style = "CTA" <=> last.text = AskLine
      /\ total \in Nat
  BY ChainTypes
<1>5. held[1].from = 0 /\ Dwell \in Nat
  BY DEF Chain, Dwell, MinOnScreen, PadIn, PadOut
<1>2. InPlace(held, total)
  BY ChainInPlace
<1>3. CASE ~(n > 1 /\ last.style = "CTA" /\ last.to - last.from < Dwell)
  <2>1. s = held
    BY <1>3 DEF AskTakesBack
  <2>2. last.text = AskLine /\ total >= Dwell => last.to - last.from >= Dwell
    BY <1>1, <1>3, <1>5
  <2> QED
    BY <1>1, <1>2, <2>1, <2>2
<1>4. CASE n > 1 /\ last.style = "CTA" /\ last.to - last.from < Dwell
  <2> DEFINE start == Most(held[1].from, total - Dwell)
             cut(e) == [e EXCEPT !.to = Least(@, Most(e.from, start))]
             end == [last EXCEPT !.from = start]
  <2>1. s = Append([i \in 1..(n - 1) |-> cut(held[i])], end)
    BY <1>4 DEF AskTakesBack
  <2>2. start \in Nat /\ (total >= Dwell => start = total - Dwell) /\ start <= total
    BY <1>1, <1>5 DEF Most, Dwell, MinOnScreen, PadIn, PadOut
  <2>3. ASSUME NEW j \in 1..(n - 1)
        PROVE  /\ cut(held[j]) \in Stretches(texts) /\ cut(held[j]).text = held[j].text
               /\ cut(held[j]).from = held[j].from /\ cut(held[j]).to \in Nat
               /\ cut(held[j]).to <= held[j].to
               /\ cut(held[j]).to <= start \/ cut(held[j]).to <= held[j].from
    <3>1. j \in 1..n
      BY <1>1
    <3>2. Least(held[j].to, Most(held[j].from, start)) \in Nat
          /\ Least(held[j].to, Most(held[j].from, start)) <= held[j].to
          /\ (\/ Least(held[j].to, Most(held[j].from, start)) <= start
              \/ Least(held[j].to, Most(held[j].from, start)) <= held[j].from)
      BY <1>1, <2>2, <3>1 DEF Least, Most
    <3> DEFINE to == Least(held[j].to, Most(held[j].from, start))
    <3>3. cut(held[j]) = [held[j] EXCEPT !.to = to]
      OBVIOUS
    <3>4. held[j] \in Stretches(texts) /\ to \in Nat
      BY <1>1, <3>1, <3>2
    <3> HIDE DEF to, cut
    <3>5. /\ cut(held[j]) \in Stretches(texts) /\ cut(held[j]).text = held[j].text
          /\ cut(held[j]).from = held[j].from /\ cut(held[j]).to = to
      BY <3>3, <3>4 DEF Stretches
    <3> QED
      BY <3>2, <3>4, <3>5 DEF to
  <2>4. /\ end \in Stretches(texts) /\ end.text = last.text /\ end.from = start
        /\ end.to = total
    <3> HIDE DEF start
    <3> QED
      BY <1>1, <2>2 DEF Stretches
  <2> DEFINE before == [i \in 1..(n - 1) |-> cut(held[i])]
  <2> HIDE DEF cut, end, start
  <2>5. before \in Seq(Stretches(texts)) /\ Len(before) = n - 1
    BY <1>1, <2>3
  <2>6. /\ s \in Seq(Stretches(texts)) /\ Len(s) = n /\ s[n] = end
        /\ \A j \in 1..(n - 1) : s[j] = cut(held[j])
    <3>1. \A j \in 1..(n - 1) : before[j] = cut(held[j])
      OBVIOUS
    <3>2. s = Append(before, end)
      BY <2>1
    <3> HIDE DEF before, n, last
    <3> QED
      BY <1>1, <2>4, <2>5, <3>1, <3>2
  <2>7. \A j \in 1..n : s[j].text = held[j].text
    BY <1>1, <2>3, <2>4, <2>6
  <2>8. Distinct(s)
    BY <1>1, <2>6, <2>7, SameLines
  <2>9. InPlace(s, total)
    <3> SUFFICES ASSUME NEW j \in 1..n
                 PROVE  /\ s[j].to <= total
                        /\ \A i \in 1..(j - 1) : s[i].to <= s[j].from \/ s[i].to <= s[i].from
      BY <2>6 DEF InPlace
    <3>1. CASE j = n
      BY <1>1, <2>2, <2>3, <2>4, <2>6, <3>1
    <3>2. CASE j # n
      <4>1. j \in 1..(n - 1)
        BY <1>1, <3>2
      <4>2. s[j].to <= total
        BY <1>1, <1>2, <2>3, <2>6, <4>1 DEF InPlace
      <4>3. ASSUME NEW i \in 1..(j - 1) PROVE s[i].to <= s[j].from
        <5>1. i \in 1..(n - 1) /\ i \in 1..n
          BY <1>1, <4>1
        <5>2. held[i].to <= held[j].from
          BY <4>1, ChainOrder
        <5>3. s[i].to <= held[i].to /\ s[j].from = held[j].from /\ s[i].to \in Nat
          BY <2>3, <2>6, <4>1, <5>1
        <5> QED
          BY <1>1, <4>1, <5>1, <5>2, <5>3
      <4> QED
        BY <4>2, <4>3
    <3> QED
      BY <3>1, <3>2
  <2>10. total >= Dwell => total - start >= Dwell
    BY <1>1, <1>5, <2>2
  <2> QED
    BY <1>1, <2>4, <2>6, <2>8, <2>9, <2>10
<1> QED
  BY <1>3, <1>4

-----------------------------------------------------------------------------
(* Captions.  What is burned of such stretches: events one after the other
   within the reel, at most three, the call to action long enough to be read. *)

\* A line on screen.
Events(texts) ==
    [text : texts, style : {"Hook", "Overlay", "CTA"}, start : Int, end : Int]

\* An event that is worth burning.
Passes(e) == e.text # "" /\ e.end - e.start >= MinEvent

\* Events one after the other, no line twice.
InTurn(s) ==
    \A j \in 1..Len(s) : \A i \in 1..(j - 1) :
        s[i].end < s[j].start /\ s[i].text # s[j].text

\* The events of a film whose last line must be read, in their places.
Fit(lines, total) ==
    /\ Len(lines) \in Nat /\ (lines = <<>> \/ Len(lines) > 0) /\ Len(lines) <= 3
    /\ InTurn(lines)
    /\ \A j \in 1..Len(lines) : lines[j].start >= PadIn /\ lines[j].end < total

\* v is the event of the stretch e.
Shows(v, e) ==
    /\ v.text = e.text /\ v.style = e.style
    /\ v.end <= e.to - PadOut /\ v.start >= PadIn /\ v.start >= e.from
    /\ e.text = AskLine => v.start = e.from + PadIn /\ v.end = e.to - PadOut

\* OnScreen makes an event of a stretch, within it.
LEMMA OnScreenFits ==
  ASSUME NEW texts, NEW e \in Stretches(texts)
  PROVE  OnScreen(e) \in Events(texts) /\ Shows(OnScreen(e), e)
<1> DEFINE start == IF e.style = "Hook" /\ e.from < HookStart THEN HookStart ELSE e.from + PadIn
           end == e.to - PadOut
           stop == IF e.style = "CTA" THEN end ELSE Least(end, start + MaxHold)
<1>1. /\ e.text \in texts /\ e.style \in {"Hook", "Overlay", "CTA"}
      /\ e.from \in Nat /\ e.to \in Nat
      /\ e.style = "CTA" <=> e.text = AskLine
  BY DEF Stretches
<1>2. start \in Int /\ start >= PadIn /\ start >= e.from
  BY <1>1 DEF HookStart, PadIn
<1>3. stop \in Int /\ stop <= end
  BY <1>1, <1>2 DEF PadOut, MaxHold, Least
<1>4. e.text = AskLine => start = e.from + PadIn /\ stop = e.to - PadOut
  BY <1>1
<1>5. OnScreen(e) = [text |-> e.text, style |-> e.style, start |-> start, end |-> stop]
  BY DEF OnScreen
<1> HIDE DEF start, stop
<1> QED
  BY <1>1, <1>2, <1>3, <1>4, <1>5 DEF Events, Shows

\* The recursion of Burnt, over events.
LEMMA BurntIs ==
  ASSUME NEW texts, NEW events \in Seq(Events(texts))
  PROVE  \E b : /\ Burnt(events) = b[Len(events)] /\ b[0] = <<>>
                /\ \A i \in 1..Len(events) :
                     b[i] = IF Passes(events[i]) THEN Append(b[i - 1], events[i]) ELSE b[i - 1]
<1> DEFINE n == Len(events)
           S == Seq(Events(texts))
           Rest(i, s) == IF events[i].text # "" /\ events[i].end - events[i].start >= MinEvent
                         THEN Append(s, events[i]) ELSE s
           rule == [i \in 1..n |-> [s \in S |-> Rest(i, s)]]
           Is(g) == g = [i \in 0..n |-> IF i = 0 THEN <<>> ELSE Rest(i, g[i - 1])]
           b == CHOOSE g : Is(g)
<1>1. n \in Nat /\ <<>> \in S
  OBVIOUS
<1>2. \A i \in 1..n, s \in S : Rest(i, s) \in S
  <2> SUFFICES ASSUME NEW i \in 1..n, NEW s \in S PROVE Rest(i, s) \in S
    OBVIOUS
  <2>1. events[i] \in Events(texts)
    OBVIOUS
  <2>2. Append(s, events[i]) \in S
    BY <2>1
  <2>3. Rest(i, s) = Append(s, events[i]) \/ Rest(i, s) = s
    OBVIOUS
  <2> HIDE DEF Rest
  <2> QED
    BY <2>2, <2>3
<1>3. Burnt(events) = b[n]
  BY DEF Burnt
<1>10. \A i, s : Rest(i, s) = IF Passes(events[i]) THEN Append(s, events[i]) ELSE s
  BY DEF Passes
<1> HIDE DEF S, Rest
<1>4. rule \in [1..n -> [S -> S]]
  BY <1>2
<1> HIDE DEF n
<1>5. PICK f : Recurses(f, n, S, <<>>, rule)
  <2> HIDE DEF rule
  <2> QED
    BY <1>1, <1>4, Recursive
<1>6. \A i \in 1..n : f[i] = Rest(i, f[i - 1])
  <2> SUFFICES ASSUME NEW i \in 1..n PROVE f[i] = Rest(i, f[i - 1])
    OBVIOUS
  <2>1. i - 1 \in 0..n /\ rule[i] = [s \in S |-> Rest(i, s)]
    BY <1>1
  <2> HIDE DEF rule
  <2> QED
    BY <1>5, <2>1 DEF Recurses
<1>7. Is(f)
  BY <1>1, <1>5, <1>6 DEF Recurses
<1>8. Is(b)
  <2> HIDE DEF Is
  <2> QED
    BY <1>7
<1> HIDE DEF b
<1>9. b[0] = <<>> /\ \A i \in 1..n : b[i] = Rest(i, b[i - 1])
  BY <1>1, <1>8
<1> QED
  BY <1>3, <1>9, <1>10 DEF n

\* What is burnt of events is some of them, in their order, and the last if it passes.
LEMMA BurntKeeps ==
  ASSUME NEW texts, NEW events \in Seq(Events(texts)),
         \A j \in 1..Len(events) : \A i \in 1..(j - 1) :
            Passes(events[i]) /\ Passes(events[j])
              => events[i].end < events[j].start /\ events[i].text # events[j].text
  PROVE  LET b == Burnt(events) IN
         /\ b \in Seq(Events(texts)) /\ InTurn(b)
         /\ \A j \in 1..Len(b) : \E i \in 1..Len(events) : b[j] = events[i] /\ Passes(events[i])
         /\ Len(events) > 0 /\ Passes(events[Len(events)])
              => b # <<>> /\ b[Len(b)] = events[Len(events)]
<1> DEFINE n == Len(events)
           Some(b, k) == \A j \in 1..Len(b) : \E i \in 1..k : b[j] = events[i] /\ Passes(events[i])
           Good(b, k) == b \in Seq(Events(texts)) /\ InTurn(b) /\ Some(b, k)
<1>1. n \in Nat /\ \A i \in 1..n : events[i] \in Events(texts)
  OBVIOUS
<1>2. PICK b : /\ Burnt(events) = b[n] /\ b[0] = <<>>
               /\ \A i \in 1..n :
                    b[i] = IF Passes(events[i]) THEN Append(b[i - 1], events[i]) ELSE b[i - 1]
  BY BurntIs
<1> DEFINE T == {i \in 0..n : Good(b[i], i)}
<1>3. 0 \in T
  <2>1. Len(<<>>) = 0 /\ <<>> \in Seq(Events(texts)) /\ 1..0 = {}
    OBVIOUS
  <2>2. Good(<<>>, 0)
    BY <2>1 DEF InTurn
  <2> HIDE DEF Good
  <2> QED
    BY <1>1, <1>2, <2>2
<1>4. ASSUME NEW k \in 0..(n - 1), k \in T PROVE k + 1 \in T
  <2>1. k + 1 \in 1..n /\ k + 1 - 1 = k /\ k + 1 \in 0..n /\ k \in Nat
    BY <1>1
  <2>2. b[k + 1] = IF Passes(events[k + 1]) THEN Append(b[k], events[k + 1]) ELSE b[k]
    BY <1>2, <2>1
  <2>3. b[k] \in Seq(Events(texts)) /\ InTurn(b[k]) /\ Some(b[k], k)
    BY <1>4
  <2>4. CASE ~Passes(events[k + 1])
    <3>1. b[k + 1] = b[k]
      BY <2>2, <2>4
    <3>2. Some(b[k], k + 1)
      BY <2>1, <2>3
    <3>3. Good(b[k + 1], k + 1)
      BY <2>3, <3>1, <3>2
    <3> HIDE DEF Good
    <3> QED
      BY <2>1, <3>3
  <2>5. CASE Passes(events[k + 1])
    <3> DEFINE s == b[k]
               e == events[k + 1]
               t == Append(s, e)
               m == Len(s)
    <3>1. b[k + 1] = t
      BY <2>2, <2>5
    <3>2. m \in Nat /\ t \in Seq(Events(texts)) /\ Len(t) = m + 1 /\ t[m + 1] = e
          /\ \A j \in 1..m : t[j] = s[j]
      BY <1>1, <2>1, <2>3
    <3>3. \A j \in 1..m : \E i \in 1..k : s[j] = events[i] /\ Passes(events[i])
      BY <2>3
    <3>4. \A i \in 1..k : Passes(events[i])
             => events[i].end < e.start /\ events[i].text # e.text
      <4>1. \A i \in 1..((k + 1) - 1) : Passes(events[i]) /\ Passes(events[k + 1])
             => events[i].end < events[k + 1].start /\ events[i].text # events[k + 1].text
        BY <2>1
      <4> QED
        BY <2>1, <2>5, <4>1
    <3>5. \A j \in 1..m : s[j].end < e.start /\ s[j].text # e.text
      BY <3>3, <3>4
    <3>6. \A j \in 1..m : \A i \in 1..(j - 1) : s[i].end < s[j].start /\ s[i].text # s[j].text
      BY <2>3 DEF InTurn
    <3>11. e = events[k + 1] /\ Passes(e)
      BY <2>5
    <3> HIDE DEF s, e, t, m, n
    <3>7. ASSUME NEW j \in 1..(m + 1), NEW i \in 1..(j - 1)
          PROVE  t[i].end < t[j].start /\ t[i].text # t[j].text
      <4>1. i \in 1..m /\ (j = m + 1 \/ j \in 1..m)
        BY <3>2
      <4>2. t[i] = s[i]
        BY <3>2, <4>1
      <4>3. CASE j = m + 1
        BY <3>2, <3>5, <4>1, <4>2, <4>3
      <4>4. CASE j \in 1..m
        BY <3>2, <3>6, <4>2, <4>4
      <4> QED
        BY <4>1, <4>3, <4>4
    <3>8. InTurn(t)
      BY <3>2, <3>7 DEF InTurn
    <3>9. Some(t, k + 1)
      <4> SUFFICES ASSUME NEW j \in 1..(m + 1)
                   PROVE  \E i \in 1..(k + 1) : t[j] = events[i] /\ Passes(events[i])
        BY <3>2
      <4>1. j = m + 1 \/ j \in 1..m
        BY <3>2
      <4>2. k + 1 \in 1..(k + 1) /\ \A i \in 1..k : i \in 1..(k + 1)
        BY <2>1
      <4> QED
        BY <3>2, <3>3, <3>11, <4>1, <4>2
    <3>10. Good(b[k + 1], k + 1)
      BY <3>1, <3>2, <3>8, <3>9
    <3> HIDE DEF Good
    <3> QED
      BY <2>1, <3>10
  <2> QED
    BY <2>4, <2>5
<1>5. 0..n \subseteq T
  <2> HIDE DEF T
  <2> QED
    BY <1>1, <1>3, <1>4, UpTo
<1>6. Good(b[n], n)
  <2> HIDE DEF Good
  <2> QED
    BY <1>1, <1>5
<1>7. ASSUME n > 0, Passes(events[n])
      PROVE  b[n] # <<>> /\ b[n][Len(b[n])] = events[n]
  <2>1. n \in 1..n /\ n - 1 \in 0..n
    BY <1>1, <1>7
  <2>2. b[n] = Append(b[n - 1], events[n])
    BY <1>2, <1>7, <2>1
  <2>3. Good(b[n - 1], n - 1)
    <3> HIDE DEF Good
    <3> QED
      BY <1>5, <2>1
  <2>4. b[n - 1] \in Seq(Events(texts))
    BY <2>3
  <2> HIDE DEF Good
  <2> QED
    BY <1>1, <2>1, <2>2, <2>4
<1> QED
  BY <1>2, <1>6, <1>7

\* Three lines have no room for a fourth.
LEMMA ThreeLines ==
  ASSUME NEW x, NEW y, NEW z, NEW s, Len(s) \in Nat,
         \A j \in 1..Len(s) : s[j].text \in {x, y, z},
         \A j \in 1..Len(s) : \A i \in 1..(j - 1) : s[i].text # s[j].text
  PROVE  Len(s) <= 3
<1> DEFINE n == Len(s)
<1>1. n \in Nat /\ (\A j \in 1..n : s[j].text \in {x, y, z})
      /\ \A j \in 1..n : \A i \in 1..(j - 1) : s[i].text # s[j].text
  OBVIOUS
<1> HIDE DEF n
<1> SUFFICES ASSUME n > 3 PROVE FALSE
  BY <1>1 DEF n
<1>2. 1 \in 1..n /\ 2 \in 1..n /\ 3 \in 1..n /\ 4 \in 1..n
  BY <1>1
<1>3. /\ 1 \in 1..(2 - 1) /\ 1 \in 1..(3 - 1) /\ 2 \in 1..(3 - 1)
      /\ 1 \in 1..(4 - 1) /\ 2 \in 1..(4 - 1) /\ 3 \in 1..(4 - 1)
  OBVIOUS
<1>4. /\ s[1].text # s[2].text /\ s[1].text # s[3].text /\ s[2].text # s[3].text
      /\ s[1].text # s[4].text /\ s[2].text # s[4].text /\ s[3].text # s[4].text
  BY <1>1, <1>2, <1>3
<1>5. /\ s[1].text \in {x, y, z} /\ s[2].text \in {x, y, z}
      /\ s[3].text \in {x, y, z} /\ s[4].text \in {x, y, z}
  BY <1>1, <1>2
<1> QED
  BY <1>4, <1>5

\* The fields of a stretch.
LEMMA StretchTypes ==
  ASSUME NEW texts, NEW e \in Stretches(texts)
  PROVE  /\ e.from \in Nat /\ e.to \in Nat /\ e.text \in texts
         /\ e.style = "CTA" <=> e.text = AskLine
  BY DEF Stretches

\* The times of an event.
LEMMA EventTypes ==
  ASSUME NEW texts, NEW v \in Events(texts)
  PROVE  v.start \in Int /\ v.end \in Int
  BY DEF Events

\* An event is over before the next one if its stretch is, and is none if nothing is left of it.
LEMMA TwoInTurn ==
  ASSUME NEW texts, NEW d \in Stretches(texts), NEW e \in Stretches(texts),
         NEW u \in Events(texts), NEW v \in Events(texts), Shows(u, d), Shows(v, e),
         d.to <= e.from \/ d.to <= d.from, Passes(u)
  PROVE  u.end < v.start
<1>1. /\ d.from \in Nat /\ d.to \in Nat /\ e.from \in Nat
      /\ u.start \in Int /\ u.end \in Int /\ v.start \in Int
  BY StretchTypes, EventTypes
<1>2. u.end <= d.to - 3 /\ u.start >= d.from /\ v.start >= e.from
  BY DEF Shows, PadOut
<1>3. u.end - u.start >= 6
  BY DEF Passes, MinEvent
<1> QED
  BY <1>1, <1>2, <1>3

\* The event of a stretch is within the reel, and a call to action that has its
\* time is burned and read.
LEMMA OneFits ==
  ASSUME NEW texts, NEW e \in Stretches(texts), NEW v \in Events(texts), Shows(v, e),
         NEW total \in Nat, e.to <= total
  PROVE  /\ v.start >= PadIn /\ v.end < total
         /\ e.text = AskLine /\ e.to - e.from >= Dwell
              => Passes(v) /\ v.style = "CTA" /\ v.end - v.start >= MinOnScreen
<1>1. /\ e.from \in Nat /\ e.to \in Nat /\ v.start \in Int /\ v.end \in Int
      /\ e.style = "CTA" <=> e.text = AskLine
  BY StretchTypes, EventTypes
<1>2. /\ v.text = e.text /\ v.style = e.style /\ v.end <= e.to - 3 /\ v.start >= PadIn
      /\ e.text = AskLine => v.start = e.from + 4 /\ v.end = e.to - 3
  BY DEF Shows, PadOut, PadIn
<1>3. v.end < total
  BY <1>1, <1>2
<1>4. ASSUME e.text = AskLine, e.to - e.from >= Dwell
      PROVE  Passes(v) /\ v.style = "CTA" /\ v.end - v.start >= MinOnScreen
  <2>1. e.to - e.from >= 39
    BY <1>4 DEF Dwell, MinOnScreen, PadIn, PadOut
  <2>2. v.end - v.start >= 32
    BY <1>1, <1>2, <1>4, <2>1
  <2>3. v.end - v.start >= 6 /\ AskLine # ""
    BY <1>1, <2>2 DEF AskLine
  <2> QED
    BY <1>1, <1>2, <1>4, <2>2, <2>3 DEF Passes, MinEvent, MinOnScreen
<1> QED
  BY <1>2, <1>3, <1>4

\* The events of stretches, one each.
Shown(events, s, texts) ==
    /\ events \in Seq(Events(texts)) /\ Len(events) = Len(s)
    /\ \A i \in 1..Len(s) : Shows(events[i], s[i])

\* The last of the lines is the call to action, long enough to be read.
Asks(lines) ==
    /\ lines # <<>> /\ lines[Len(lines)].style = "CTA"
    /\ lines[Len(lines)].end - lines[Len(lines)].start >= MinOnScreen

\* Lines of stretches, each within the reel, and a call to action that is read.
Placed(lines, s, texts, total) ==
    /\ lines \in Seq(Events(texts)) /\ InTurn(lines)
    /\ \A j \in 1..Len(lines) : /\ lines[j].start >= PadIn /\ lines[j].end < total
                                /\ lines[j].text \in texts /\ lines[j].text # ""
    /\ s[Len(s)].text = AskLine /\ s[Len(s)].to - s[Len(s)].from >= Dwell => Asks(lines)

\* Stretches in their places make events that fit; the last of them can be read
\* if it asks for something and is long enough.
LEMMA EventsFit ==
  ASSUME NEW texts, NEW total \in Nat,
         NEW s \in Seq(Stretches(texts)), Len(s) > 0, InPlace(s, total), Distinct(s),
         NEW events, Shown(events, s, texts)
  PROVE  Placed(Burnt(events), s, texts, total)
<1> DEFINE n == Len(s)
           lines == Burnt(events)
<1>1. /\ n \in Nat /\ n > 0 /\ n \in 1..n /\ Len(events) = n
      /\ \A i \in 1..n : s[i] \in Stretches(texts) /\ events[i] \in Events(texts)
      /\ \A i \in 1..n : Shows(events[i], s[i])
      /\ events \in Seq(Events(texts))
  BY DEF Shown
<1>2. \A j \in 1..n :
        /\ s[j].to <= total
        /\ \A i \in 1..(j - 1) : s[i].to <= s[j].from \/ s[i].to <= s[i].from
  BY DEF InPlace
<1>3. \A j \in 1..n : \A i \in 1..(j - 1) : s[i].text # "" => s[i].text # s[j].text
  BY DEF Distinct
<1>4. \A j \in 1..n : \A i \in 1..(j - 1) : i \in 1..n
  BY <1>1
<1>5. \A i \in 1..n : events[i].text = s[i].text /\ s[i].text \in texts
  BY <1>1, StretchTypes DEF Shows
<1>6. \A j \in 1..n : \A i \in 1..(j - 1) :
         Passes(events[i]) /\ Passes(events[j])
              => events[i].end < events[j].start /\ events[i].text # events[j].text
  <2> SUFFICES ASSUME NEW j \in 1..n, NEW i \in 1..(j - 1)
               PROVE  Passes(events[i])
                        => events[i].end < events[j].start /\ events[i].text # events[j].text
    OBVIOUS
  <2> HIDE DEF n
  <2>1. i \in 1..n
    BY <1>4
  <2>2. Passes(events[i]) => events[i].end < events[j].start
    BY <1>1, <1>2, <2>1, TwoInTurn
  <2>3. Passes(events[i]) => events[i].text # ""
    BY DEF Passes
  <2> QED
    BY <1>3, <1>5, <2>1, <2>2, <2>3
<1>7. /\ lines \in Seq(Events(texts)) /\ InTurn(lines)
      /\ \A j \in 1..Len(lines) : \E i \in 1..n : lines[j] = events[i] /\ Passes(events[i])
      /\ Passes(events[n]) => lines # <<>> /\ lines[Len(lines)] = events[n]
  BY <1>1, <1>6, BurntKeeps
<1> HIDE DEF n, lines
<1>8. ASSUME NEW j \in 1..Len(lines)
      PROVE  /\ lines[j].start >= PadIn /\ lines[j].end < total
             /\ lines[j].text \in texts /\ lines[j].text # ""
  <2>1. PICK i \in 1..n : lines[j] = events[i] /\ Passes(events[i])
    BY <1>7
  <2>2. events[i].start >= PadIn /\ events[i].end < total
    BY <1>1, <1>2, OneFits
  <2>3. events[i].text \in texts /\ events[i].text # ""
    BY <1>5, <2>1 DEF Passes
  <2> QED
    BY <2>1, <2>2, <2>3
<1>9. ASSUME s[n].text = AskLine, s[n].to - s[n].from >= Dwell
      PROVE  Asks(lines)
  <2>1. /\ Passes(events[n]) /\ events[n].style = "CTA"
        /\ events[n].end - events[n].start >= MinOnScreen
    BY <1>1, <1>2, <1>9, OneFits
  <2> QED
    BY <1>7, <2>1 DEF Asks
<1> QED
  BY <1>7, <1>8, <1>9 DEF n, lines, Placed

\* The call to action starts on a shot, or after the last.
LEMMA AskFromBounds ==
  ASSUME NEW shots, Len(shots) \in Nat, Len(shots) > 0, NEW asks \in BOOLEAN
  PROVE  /\ AskFrom(shots, asks) \in 1..(Len(shots) + 1)
         /\ asks => AskFrom(shots, asks) <= Len(shots)
<1> DEFINE n == Len(shots)
           tail == {i \in 1..n : \A j \in i..n : shots[j].of = shots[n].of}
           first == CHOOSE i \in tail : \A j \in tail : i <= j
<1>1. CASE asks
  <2>1. n \in tail /\ tail \subseteq Nat /\ tail \subseteq 1..n
    OBVIOUS
  <2>2. \E i \in tail : \A j \in tail : i <= j
    <3> HIDE DEF tail
    <3> QED
      BY <2>1, LeastOf
  <2>3. first \in tail
    <3> HIDE DEF tail
    <3> QED
      BY <2>2
  <2>4. AskFrom(shots, asks) = first
    BY <1>1 DEF AskFrom
  <2> HIDE DEF first, tail
  <2> QED
    BY <2>1, <2>3, <2>4
<1>2. CASE ~asks
  <2>1. AskFrom(shots, asks) = n + 1
    BY <1>2 DEF AskFrom
  <2> QED
    BY <1>2, <2>1
<1> QED
  BY <1>1, <1>2

\* Of the lines in the middle one is kept at most.
LEMMA OneProof ==
  ASSUME NEW shots, NEW w \in Seq(Nat), NEW from,
         NEW i \in KeptLines(shots, w, from), NEW j \in KeptLines(shots, w, from), i # 1, j # 1,
         from \in 1..(Len(w) + 1)
  PROVE  /\ i = j /\ i \in 2..(from - 1)
         /\ shots[i].text # "" /\ shots[i].text # shots[1].text
<1> DEFINE mids == Proofs(shots, from)
           longest(k) == \A h \in mids : w[h] < w[k] \/ (w[h] = w[k] /\ h <= k)
<1>1. i \in mids /\ j \in mids /\ longest(i) /\ longest(j)
  BY DEF KeptLines
<1>2. mids \subseteq 1..Len(w)
  <2>1. Len(w) \in Nat /\ \A k \in 2..(from - 1) : k \in 1..Len(w)
    OBVIOUS
  <2>2. \A k \in mids : k \in 2..(from - 1)
    BY DEF Proofs
  <2> HIDE DEF mids
  <2> QED
    BY <2>1, <2>2
<1>3. w[i] \in Nat /\ w[j] \in Nat /\ i \in Nat /\ j \in Nat
  BY <1>1, <1>2
<1>4. (w[i] < w[j] \/ (w[i] = w[j] /\ i <= j)) /\ (w[j] < w[i] \/ (w[j] = w[i] /\ j <= i))
  BY <1>1
<1>5. i = j
  BY <1>3, <1>4
<1> QED
  BY <1>1, <1>5 DEF Proofs

\* e is the beat of shot i, where the hook is x and the line y on shot one is kept.
IsBeat(e, i, a, b, from, x, y, one) ==
    /\ e.from = a /\ e.to = b
    /\ i >= from => e.text = AskLine /\ e.style = "CTA"
    /\ i < from => /\ e.style \in {"Hook", "Overlay"}
                   /\ e.text = "" \/ (i = 1 /\ e.text = x) \/ (i = one /\ e.text = y)

\* Shots whose lines are of a set of words; beats, each a record.
Worded(shots, n, words) == Len(shots) = n /\ \A i \in 1..n : shots[i].text \in words
IsRecord(e) == e = [text |-> e.text, style |-> e.style, from |-> e.from, to |-> e.to]
Beaten(beats, n, u, from, x, y, one) ==
    /\ beats = [i \in 1..n |-> beats[i]]
    /\ \A i \in 1..n : /\ IsRecord(beats[i])
                       /\ IsBeat(beats[i], i, u[i - 1], u[i], from, x, y, one)

\* The lines a reel may show: none, the hook x, the line y and the call to action.
FourTexts(texts, x, y) ==
    texts = {"", x, y, AskLine} /\ x # AskLine /\ y # AskLine

\* A beat lasts as long as its window.
LEMMA BeatWindow ==
  ASSUME NEW e, NEW i, NEW a, NEW b, NEW from, NEW x, NEW y, NEW one,
         IsBeat(e, i, a, b, from, x, y, one)
  PROVE  e.from = a /\ e.to = b
  BY DEF IsBeat

\* A beat is a stretch.
LEMMA BeatType ==
  ASSUME NEW texts, NEW x, NEW y, FourTexts(texts, x, y), NEW i \in Int, NEW from \in Int,
         NEW a \in Nat, NEW b \in Nat, NEW one, NEW e, IsBeat(e, i, a, b, from, x, y, one),
         IsRecord(e)
  PROVE  e \in Stretches(texts)
<1>1. e.from \in Nat /\ e.to \in Nat
  BY DEF IsBeat
<1>2. AskLine # ""
  BY DEF AskLine
<1>3. CASE i >= from
  <2>1. e.text = AskLine /\ e.style = "CTA"
    BY <1>3 DEF IsBeat
  <2>2. AskLine \in texts
    BY DEF FourTexts
  <2> QED
    BY <1>1, <2>1, <2>2 DEF Stretches, IsRecord
<1>4. CASE i < from
  <2>1. e.style \in {"Hook", "Overlay"} /\ e.text \in texts /\ e.text # AskLine
    BY <1>2, <1>4 DEF IsBeat, FourTexts
  <2> QED
    BY <1>1, <2>1 DEF Stretches, IsRecord
<1> QED
  BY <1>3, <1>4

\* Two shots before the call to action that show the same line are one.
LEMMA OneLineEach ==
  ASSUME NEW none, NEW x, NEW y, NEW s, NEW t, NEW i, NEW j, NEW first, NEW one, NEW nought,
         s = none \/ (i = first /\ s = x) \/ (i = one /\ s = y),
         t = none \/ (j = one /\ t = y), i # j, j # nought, one # nought => y # x
  PROVE  s = none \/ s # t
  BY Zenon

\* Such beats are a chain, and no line comes back after another.
LEMMA BeatsInTurn ==
  ASSUME NEW texts, NEW x, NEW y, FourTexts(texts, x, y),
         NEW one \in Nat, one # 0 => y # x, one # 1,
         NEW n \in Nat, n > 0, NEW from \in 1..(n + 1),
         NEW u \in [0..n -> Nat], u[0] = 0, \A i \in 1..n : u[i - 1] <= u[i],
         NEW beats, Beaten(beats, n, u, from, x, y, one)
  PROVE  Chain(beats, texts) /\ GoesOn(beats)
<1>1. \A i \in 1..n : /\ IsRecord(beats[i])
                     /\ IsBeat(beats[i], i, u[i - 1], u[i], from, x, y, one)
  BY DEF Beaten
<1>8. beats = [i \in 1..n |-> beats[i]]
  BY DEF Beaten
<1>2. \A i \in 1..n : /\ beats[i].from = u[i - 1] /\ beats[i].to = u[i] /\ u[i - 1] <= u[i]
                      /\ u[i] \in Nat /\ u[i - 1] \in Nat
  <2>1. \A i \in 1..n : u[i] \in Nat /\ u[i - 1] \in Nat
    OBVIOUS
  <2>2. \A i \in 1..n : beats[i].from = u[i - 1] /\ beats[i].to = u[i]
    BY <1>1, BeatWindow
  <2> QED
    BY <2>1, <2>2
<1>3. from \in Int /\ \A i \in 1..n : i \in Int
  OBVIOUS
<1>4. \A i \in 1..n : beats[i] \in Stretches(texts)
  BY <1>1, <1>2, <1>3, BeatType
<1>5. Chain(beats, texts)
  <2>1. beats \in [1..n -> Stretches(texts)]
    BY <1>4, <1>8
  <2>2. beats \in Seq(Stretches(texts)) /\ beats # <<>> /\ Len(beats) = n
    BY <2>1
  <2>3. beats[1].from = 0 /\ \A i \in 1..n : beats[i].from <= beats[i].to
    <3>1. 1 \in 1..n /\ 1 - 1 = 0
      OBVIOUS
    <3>2. beats[1].from = u[0]
      BY <1>2, <3>1, ZenonT(30)
    <3>3. \A i \in 1..n : beats[i].from <= beats[i].to
      BY <1>2, ZenonT(30)
    <3> QED
      BY <3>2, <3>3, ZenonT(30)
  <2>4. ASSUME NEW i \in 1..(n - 1) PROVE beats[i].to = beats[i + 1].from
    <3>1. i \in 1..n /\ i + 1 \in 1..n /\ i + 1 - 1 = i
      OBVIOUS
    <3> QED
      BY <1>2, <3>1
  <2> QED
    BY <2>2, <2>3, <2>4 DEF Chain
<1>6. ASSUME NEW j \in 1..n, NEW i \in 1..(j - 1)
      PROVE  beats[i].text # "" /\ beats[i].text = beats[j].text
                => beats[j - 1].text = beats[j].text /\ beats[j - 1].style = beats[j].style
  <2>1. i \in 1..n /\ j - 1 \in 1..n /\ j # 1 /\ i # j /\ j # 0
    OBVIOUS
  <2>2. /\ IsBeat(beats[i], i, u[i - 1], u[i], from, x, y, one)
        /\ IsBeat(beats[j], j, u[j - 1], u[j], from, x, y, one)
        /\ IsBeat(beats[j - 1], j - 1, u[j - 1 - 1], u[j - 1], from, x, y, one)
    BY <1>1, <2>1
  <2>3. CASE i >= from
    <3>1. j - 1 >= from /\ j >= from
      BY <2>3
    <3> QED
      BY <2>2, <3>1 DEF IsBeat
  <2>4. CASE i < from /\ j >= from
    <3>1. beats[i].text \in {"", x, y} /\ beats[j].text = AskLine
      BY <2>2, <2>4 DEF IsBeat
    <3>2. beats[i].text = AskLine => AskLine = ""
      BY <3>1 DEF FourTexts
    <3> QED
      BY <3>1, <3>2
  <2>5. CASE i < from /\ j < from
    <3>1. /\ beats[i].text = "" \/ (i = 1 /\ beats[i].text = x) \/ (i = one /\ beats[i].text = y)
          /\ beats[j].text = "" \/ (j = one /\ beats[j].text = y)
      BY <2>1, <2>2, <2>5 DEF IsBeat
    <3>2. beats[i].text = "" \/ beats[i].text # beats[j].text
      BY <2>1, <3>1, OneLineEach
    <3> QED
      BY <3>2
  <2>6. i >= from \/ (i < from /\ j >= from) \/ (i < from /\ j < from)
    BY <1>3, <2>1
  <2> QED
    BY <2>3, <2>4, <2>5, <2>6
<1>9. Len(beats) = n
  BY <1>8
<1>7. GoesOn(beats)
  BY <1>6, <1>9 DEF GoesOn
<1> QED
  BY <1>5, <1>7

\* Beats over n shots of a reel that lasts total, with the hook x and the proof line y.
Told(beats, x, y, texts, n, total, asks) ==
    /\ texts = {"", x, y, AskLine} /\ Chain(beats, texts) /\ GoesOn(beats)
    /\ Len(beats) = n /\ beats[n].to = total
    /\ asks => beats[n].text = AskLine

\* The beats of a reel are a chain of three lines at most over its windows, the
\* call to action last, and no line comes back after another.
LEMMA BeatsChain ==
  ASSUME NEW words, AskLine \notin words,
         NEW shots, NEW n \in Nat, n > 0, Worded(shots, n, words),
         NEW w \in Seq(Nat), Len(w) = n, NEW asks \in BOOLEAN
  PROVE  \E x, y, texts : Told(Beats(shots, w, asks), x, y, texts, n, Total(w), asks)
<1> DEFINE from == AskFrom(shots, asks)
           kept == KeptLines(shots, w, from)
           one == IF \E i \in 1..n : i # 1 /\ i \in kept
                  THEN CHOOSE i \in 1..n : i # 1 /\ i \in kept ELSE 0
           x == shots[1].text
           y == IF one = 0 THEN "" ELSE shots[one].text
           u == Upto(w)
           beats == Beats(shots, w, asks)
           texts == {"", x, y, AskLine}
<1> HIDE DEF from, kept, one, x, y, u, beats, texts
<1>17. Len(shots) = n
  BY DEF Worded
<1>1. from \in 1..(n + 1) /\ (asks => from <= n)
  BY <1>17, AskFromBounds DEF from
<1>2. Upto(w) \in [0..Len(w) -> Nat] /\ w \in Seq(Int)
  BY SumsAreNatural
<1>3. u \in [0..n -> Nat] /\ u[0] = 0
  BY <1>2, Sums DEF u
<1>4. \A i \in 1..n : u[i - 1] <= u[i]
  <2>1. \A i \in 1..n : u[i] = u[i - 1] + w[i] /\ w[i] \in Nat
    <3>1. \A i \in 1..Len(w) : Upto(w)[i] = Upto(w)[i - 1] + w[i]
      BY <1>2, Sums
    <3>2. \A i \in 1..Len(w) : w[i] \in Nat
      OBVIOUS
    <3>3. Len(w) = n /\ u = Upto(w)
      BY DEF u
    <3> QED
      BY <3>1, <3>2, <3>3
  <2> SUFFICES ASSUME NEW i \in 1..n PROVE u[i - 1] <= u[i]
    OBVIOUS
  <2>2. i - 1 \in 0..n /\ u[i - 1] \in Nat
    BY <1>3
  <2> QED
    BY <2>1, <2>2
<1>5. \A i \in kept : i # 1 => i \in 1..n /\ shots[i].text # "" /\ shots[i].text # x
  <2>1. Len(w) = n
    OBVIOUS
  <2>2. \A i \in 2..(from - 1) : i \in 1..n
    BY <1>1
  <2> QED
    BY <1>1, <2>1, <2>2, OneProof DEF kept, x
<1>6. \A i, j \in kept : i # 1 /\ j # 1 => i = j
  BY <1>1, OneProof DEF kept
<1>7. /\ \A i \in kept : i = 1 \/ i = one
      /\ one # 0 => one \in 1..n /\ one # 1 /\ one \in kept
  BY <1>5, <1>6 DEF one
<1>8. x # AskLine /\ y # AskLine /\ (one # 0 => y # x) /\ one # 1
  <2>1. 1 \in 1..n /\ \A i \in 1..n : shots[i].text # AskLine
    BY DEF Worded
  <2>2. "" # AskLine
    BY DEF AskLine
  <2>3. one # 0 => shots[one].text # AskLine /\ shots[one].text # x /\ one # 1
    BY <1>5, <1>7, <2>1
  <2>4. x # AskLine
    BY <2>1 DEF x
  <2>5. y # AskLine /\ (one # 0 => y # x)
    BY <2>2, <2>3 DEF y
  <2>6. one = 0 => one # 1
    OBVIOUS
  <2> QED
    BY <2>3, <2>4, <2>5, <2>6
<1>18. shots[1].text = x /\ (one # 0 => shots[one].text = y) /\ one \in Nat
  <2>1. one = 0 \/ one \in 1..n
    BY <1>7
  <2>2. one \in Nat
    BY <2>1
  <2> QED
    BY <2>2 DEF x, y
<1>9. beats = [i \in 1..n |->
         [text |-> IF i >= from THEN AskLine
                   ELSE IF i \in kept THEN shots[i].text ELSE "",
          style |-> IF i >= from THEN "CTA" ELSE IF i = 1 THEN "Hook" ELSE "Overlay",
          from |-> u[i - 1], to |-> u[i + 1 - 1]]]
  BY <1>17 DEF Beats, StartOf, kept, beats, from, u
<1>12. ASSUME NEW i \in 1..n PROVE IsBeat(beats[i], i, u[i - 1], u[i], from, x, y, one)
  <2>1. i + 1 - 1 = i /\ from \in Int /\ i \in Int
    BY <1>1
  <2>2. beats[i] = [text |-> IF i >= from THEN AskLine
                             ELSE IF i \in kept THEN shots[i].text ELSE "",
                    style |-> IF i >= from THEN "CTA" ELSE IF i = 1 THEN "Hook" ELSE "Overlay",
                    from |-> u[i - 1], to |-> u[i]]
    BY <1>9, <2>1
  <2>3. CASE i >= from
    <3>1. ~(i < from)
      BY <2>1, <2>3
    <3> QED
      BY <2>2, <2>3, <3>1 DEF IsBeat
  <2>4. CASE i < from
    <3>1. ~(i >= from)
      BY <2>1, <2>4
    <3>2. i \in kept => i = 1 \/ (i = one /\ one # 0)
      BY <1>7, <2>1
    <3>3. /\ beats[i].from = u[i - 1] /\ beats[i].to = u[i]
          /\ beats[i].text = (IF i \in kept THEN shots[i].text ELSE "")
          /\ beats[i].style \in {"Hook", "Overlay"}
      <4> DEFINE e == beats[i]
                 t == shots[i].text
                 a == u[i - 1]
                 b == u[i]
      <4>1. e = [text |-> IF i >= from THEN AskLine ELSE IF i \in kept THEN t ELSE "",
                 style |-> IF i >= from THEN "CTA" ELSE IF i = 1 THEN "Hook" ELSE "Overlay",
                 from |-> a, to |-> b]
        BY <2>2
      <4> HIDE DEF e, t, a, b
      <4>2. /\ e.from = a /\ e.to = b /\ e.text = (IF i \in kept THEN t ELSE "")
            /\ e.style \in {"Hook", "Overlay"}
        BY <3>1, <4>1
      <4> QED
        BY <4>2 DEF e, t, a, b
    <3>5. beats[i].text = "" \/ (i = 1 /\ beats[i].text = x) \/ (i = one /\ beats[i].text = y)
      BY <3>2, <3>3, <1>18
    <3> QED
      BY <3>1, <3>3, <3>5 DEF IsBeat
  <2> QED
    BY <2>1, <2>3, <2>4
<1>11. Beaten(beats, n, u, from, x, y, one)
  <2>1. beats = [i \in 1..n |-> beats[i]] /\ \A i \in 1..n : IsRecord(beats[i])
    BY <1>9 DEF IsRecord
  <2> QED
    BY <1>12, <2>1 DEF Beaten
<1>10. Len(beats) = n
  <2>1. beats = [i \in 1..n |-> beats[i]]
    BY <1>11 DEF Beaten
  <2> QED
    BY <2>1
<1>13. Chain(beats, texts) /\ GoesOn(beats)
  <2>1. FourTexts(texts, x, y)
    BY <1>8 DEF FourTexts, texts
  <2> QED
    BY <2>1, <1>1, <1>3, <1>4, <1>8, <1>11, <1>18, BeatsInTurn
<1>14. n \in 1..n /\ IsBeat(beats[n], n, u[n - 1], u[n], from, x, y, one)
  BY <1>12
<1>15. beats[n].to = Total(w)
  BY <1>14, BeatWindow DEF Total, u
<1>16. asks => beats[n].text = AskLine
  BY <1>1, <1>14 DEF IsBeat
<1>19. Told(beats, x, y, texts, n, Total(w), asks)
  BY <1>10, <1>13, <1>15, <1>16 DEF Told, texts
<1> QED
  BY <1>19 DEF beats

\* Each stretch has its event.
LEMMA OneShown ==
  ASSUME NEW texts, NEW s \in Seq(Stretches(texts)), NEW n, n = Len(s),
         NEW events, events = [i \in 1..n |-> OnScreen(s[i])]
  PROVE  Shown(events, s, texts)
<1>1. n \in Nat /\ \A i \in 1..n : s[i] \in Stretches(texts)
  OBVIOUS
<1>2. \A i \in 1..n : events[i] \in Events(texts) /\ Shows(events[i], s[i])
  BY <1>1, OnScreenFits
<1>3. events \in [1..n -> Events(texts)]
  BY <1>2
<1> QED
  BY <1>1, <1>2, <1>3 DEF Shown

\* What a reel shows fits it, whatever its plan and its windows.
LEMMA LinesFit ==
  ASSUME NEW words, AskLine \notin words,
         NEW shots, NEW n \in Nat, n > 0, Worded(shots, n, words),
         NEW w \in Seq(Nat), Len(w) = n, NEW asks \in BOOLEAN,
         NEW lines, lines = OverlayEvents(shots, w, asks)
  PROVE  /\ Fit(lines, Total(w))
         /\ asks /\ Total(w) >= Dwell => Asks(lines)
<1> DEFINE beats == Beats(shots, w, asks)
           merged == Merged(beats)
           held == Held(merged)
           s == AskTakesBack(held)
           events == [i \in 1..Len(s) |-> OnScreen(s[i])]
           total == Total(w)
<1>0. PICK x, y, texts : Told(beats, x, y, texts, n, total, asks)
  BY BeatsChain
<1>1. /\ Chain(beats, texts) /\ GoesOn(beats) /\ Len(beats) = n /\ beats[n].to = total
      /\ asks => beats[n].text = AskLine
  BY <1>0 DEF Told
<1>11. lines = Burnt(events)
  BY DEF OverlayEvents, events, s, held, merged, beats
<1>12. total \in Nat
  BY SumsAreNatural DEF Total, total
<1> HIDE DEF beats, total, merged, held, s, events
<1>2. /\ Chain(merged, texts) /\ Distinct(merged) /\ merged[Len(merged)].to = total
      /\ asks => merged[Len(merged)].text = AskLine
  BY <1>1, MergedKeeps DEF merged
<1>3. /\ Chain(held, texts) /\ Distinct(held) /\ held[Len(held)].to = total
      /\ asks => held[Len(held)].text = AskLine
  BY <1>2, HeldKeeps DEF held
<1>4. Len(held) \in Nat /\ Len(held) > 0
  BY <1>3, ChainTypes
<1>5. /\ s \in Seq(Stretches(texts)) /\ Len(s) = Len(held)
      /\ InPlace(s, total) /\ Distinct(s)
      /\ asks => s[Len(s)].text = AskLine
      /\ asks /\ total >= Dwell => s[Len(s)].to - s[Len(s)].from >= Dwell
  BY <1>3, TakenBack DEF s
<1>6. Shown(events, s, texts)
  BY <1>5, OneShown DEF events
<1>7. Placed(lines, s, texts, total)
  <2>1. Len(s) > 0
    BY <1>4, <1>5
  <2> QED
    BY <1>5, <1>6, <1>11, <1>12, <2>1, EventsFit
<1>9. InTurn(lines) /\ \A j \in 1..Len(lines) : lines[j].start >= PadIn /\ lines[j].end < total
  BY <1>7 DEF Placed
<1>10. asks /\ total >= Dwell => Asks(lines)
  BY <1>5, <1>7 DEF Placed
<1>8. Len(lines) \in Nat /\ (lines = <<>> \/ Len(lines) > 0) /\ Len(lines) <= 3
  <2>1. \A j \in 1..Len(lines) : lines[j].text \in {x, y, AskLine}
    <3>1. \A t \in texts : t # "" => t \in {x, y, AskLine}
      BY <1>0 DEF Told
    <3> QED
      BY <1>7, <3>1 DEF Placed
  <2>2. \A j \in 1..Len(lines) : \A i \in 1..(j - 1) : lines[i].text # lines[j].text
    BY <1>9 DEF InTurn
  <2>3. Len(lines) \in Nat /\ (lines = <<>> \/ Len(lines) > 0)
    <3>1. lines \in Seq(Events(texts))
      BY <1>7 DEF Placed
    <3> QED
      BY <3>1, EmptySeq
  <2>4. Len(lines) <= 3
    BY <2>1, <2>2, <2>3, ThreeLines
  <2> QED
    BY <2>3, <2>4
<1> QED
  BY <1>8, <1>9, <1>10 DEF Fit, total

-----------------------------------------------------------------------------
(* Windows.  A plan scaled onto a clip, and the boundaries of a native file moved
   to its cuts, leave every shot a length: shares add up to no more than the
   whole, and a fitted shot is longer than a boundary can move. *)

\* What a quotient leaves over is not negative.
LEMMA Quotient ==
  ASSUME NEW a \in Nat, NEW b \in Nat, b > 0
  PROVE  /\ a \div b \in Nat /\ (a \div b) * b <= a
         /\ \A m \in Nat : a >= m * b => a \div b >= m
<1> DEFINE q == a \div b
<1>1. q \in Int /\ b * q <= a /\ a < b * (q + 1)
  OBVIOUS
<1> HIDE DEF q
<1>2. \A m \in Nat : a >= m * b => q >= m
  <2> SUFFICES ASSUME NEW m \in Nat, a >= m * b PROVE q >= m
    OBVIOUS
  <2>1. CASE q + 1 <= m
    <3>1. b * (q + 1) <= b * m
      BY <1>1, <2>1
    <3> QED
      BY <1>1, <3>1
  <2> QED
    BY <1>1, <2>1
<1>3. q >= 0
  <2>1. a >= 0 * b
    OBVIOUS
  <2> QED
    BY <1>2, <2>1
<1> QED
  BY <1>1, <1>2, <1>3 DEF q

\* What is multiplied by a positive number keeps its order.
LEMMA Cancelled ==
  ASSUME NEW a \in Int, NEW b \in Int, NEW c \in Nat, c > 0, a * c <= c * b
  PROVE  a <= b
<1>1. CASE a >= b + 1
  <2>1. a * c >= (b + 1) * c
    BY <1>1
  <2>2. (b + 1) * c = c * b + c
    OBVIOUS
  <2>3. a * c \in Int /\ c * b \in Int
    OBVIOUS
  <2> QED
    BY <2>1, <2>2, <2>3
<1> QED
  BY <1>1

\* The shares q and the lengths l, with their sums s and p.
Shared(n, p, s, q, l, whole, total) ==
    /\ p \in [0..n -> Nat] /\ s \in [0..n -> Int] /\ s[0] = 0 /\ p[0] = 0
    /\ q \in [1..n -> Nat] /\ l \in [1..n -> Nat]
    /\ \A i \in 1..n : s[i] = s[i - 1] + q[i]
    /\ \A i \in 1..n : p[i] = p[i - 1] + l[i]
    /\ \A i \in 1..n : q[i] * whole <= l[i] * total

\* Shares of a whole add up to no more than their part of it.
LEMMA SharesFit ==
  ASSUME NEW n \in Nat, NEW total \in Nat, NEW whole \in Nat,
         NEW p, NEW s, NEW q, NEW l, Shared(n, p, s, q, l, whole, total)
  PROVE  s[n] * whole <= p[n] * total
<1> USE DEF Shared
<1> DEFINE T == {i \in 0..n : s[i] * whole <= p[i] * total}
<1>1. 0 \in T
  OBVIOUS
<1>2. ASSUME NEW k \in 0..(n - 1), k \in T PROVE k + 1 \in T
  <2>1. k + 1 \in 1..n /\ k + 1 - 1 = k /\ k + 1 \in 0..n /\ k \in 0..n
    OBVIOUS
  <2>8. s[k] * whole <= p[k] * total
    BY <1>2, ZenonT(30)
  <2>10. k + 1 \in 1..n
    BY <2>1
  <2>11. /\ \A i \in 1..n : s[i] = s[i - 1] + q[i]
         /\ \A i \in 1..n : p[i] = p[i - 1] + l[i]
    BY Zenon
  <2> HIDE DEF Shared
  <2>9. /\ s[k + 1] = s[k + 1 - 1] + q[k + 1] /\ p[k + 1] = p[k + 1 - 1] + l[k + 1]
        /\ q[k + 1] * whole <= l[k + 1] * total
    <3>1. s[k + 1] = s[k + 1 - 1] + q[k + 1]
      BY <2>10, <2>11
    <3>2. p[k + 1] = p[k + 1 - 1] + l[k + 1]
      BY <2>10, <2>11
    <3>3. q[k + 1] * whole <= l[k + 1] * total
      BY <2>10, ZenonT(30) DEF Shared
    <3> QED
      BY <3>1, <3>2, <3>3
  <2>2. /\ s[k + 1] = s[k] + q[k + 1] /\ p[k + 1] = p[k] + l[k + 1]
        /\ q[k + 1] * whole <= l[k + 1] * total
        /\ s[k] * whole <= p[k] * total
    BY <2>1, <2>8, <2>9, ZenonT(30)
  <2> DEFINE a == s[k]
             b == q[k + 1]
             c == p[k]
             d == l[k + 1]
  <2> USE DEF Shared
  <2>3. a \in Int /\ b \in Int /\ c \in Int /\ d \in Int
    BY <2>1, SMTT(60)
  <2>4. s[k + 1] = a + b /\ p[k + 1] = c + d /\ b * whole <= d * total /\ a * whole <= c * total
    BY <2>2, ZenonT(30)
  <2> HIDE DEF a, b, c, d
  <2>5. (a + b) * whole = a * whole + b * whole /\ (c + d) * total = c * total + d * total
    BY <2>3
  <2>6. a * whole \in Int /\ b * whole \in Int /\ c * total \in Int /\ d * total \in Int
    BY <2>3
  <2>7. s[k + 1] * whole <= p[k + 1] * total
    BY <2>4, <2>5, <2>6
  <2> QED
    BY <2>1, <2>7
<1>3. 0..n \subseteq T
  <2>1. \A k \in 0..(n - 1) : k \in T => k + 1 \in T
    BY <1>2
  <2> HIDE DEF T
  <2> QED
    BY <1>1, <2>1, UpTo
<1>4. n \in T
  <2>1. n \in 0..n
    OBVIOUS
  <2> HIDE DEF T
  <2> QED
    BY <1>3, <2>1
<1> QED
  BY <1>4

\* Windows for n shots, each at least m long.
AtLeast(w, n, m) ==
    w \in Seq(Nat) /\ Len(w) = n /\ \A i \in 1..n : w[i] >= m

\* Every planned length is worth m of the clip it is scaled onto.
Worth(planned, total, m) ==
    \A i \in 1..Len(planned) : planned[i] * total >= m * Total(planned)

\* Lengths scaled onto a clip are windows that fill it, none of them shorter than
\* its worth.
LEMMA Distributed ==
  ASSUME NEW planned \in Seq(Nat), NEW n \in Nat, n = Len(planned), n > 0, NEW total \in Nat,
         Total(planned) > 0, NEW m \in Nat, Worth(planned, total, m)
  PROVE  AtLeast(Distribute(planned, total), n, m)
<1> DEFINE whole == Total(planned)
           p == Upto(planned)
           shares == [i \in 1..(n - 1) |-> (planned[i] * total) \div whole]
           s == Upto(shares)
           d == Distribute(planned, total)
<1>1. /\ p \in [0..n -> Nat] /\ p[0] = 0 /\ whole = p[n] /\ whole \in Nat /\ whole > 0
      /\ \A i \in 1..n : p[i] = p[i - 1] + planned[i]
  <2>1. planned \in Seq(Int)
    OBVIOUS
  <2>2. p \in [0..n -> Nat] /\ p[0] = 0
    BY <2>1, Sums, SumsAreNatural
  <2>3. \A i \in 1..n : p[i] = p[i - 1] + planned[i]
    BY <2>1, Sums
  <2> HIDE DEF p
  <2>4. whole = p[n]
    BY DEF Total, p
  <2> QED
    BY <2>2, <2>3, <2>4
<1>2. d = IF total <= 0 THEN [i \in 1..n |-> 0]
          ELSE [i \in 1..n |-> IF i < n THEN shares[i] ELSE total - Total(shares)]
  BY DEF Distribute
<1>3. \A i \in 1..n : planned[i] \in Nat /\ planned[i] * total \in Nat
                        /\ planned[i] * total >= m * whole
  BY DEF Worth
<1> HIDE DEF whole, p
<1>4. \A i \in 1..(n - 1) : /\ shares[i] \in Nat /\ shares[i] >= m
                            /\ shares[i] * whole <= planned[i] * total
  <2> SUFFICES ASSUME NEW i \in 1..(n - 1)
               PROVE  /\ shares[i] \in Nat /\ shares[i] >= m
                      /\ shares[i] * whole <= planned[i] * total
    OBVIOUS
  <2>1. i \in 1..n
    OBVIOUS
  <2> DEFINE a == planned[i] * total
  <2>2. a \in Nat /\ a >= m * whole
    BY <1>3, <2>1
  <2>3. shares[i] = a \div whole
    OBVIOUS
  <2> HIDE DEF a, shares
  <2>4. a \div whole \in Nat /\ (a \div whole) * whole <= a /\ a \div whole >= m
    BY <1>1, <2>2, Quotient
  <2> QED
    BY <2>3, <2>4 DEF a
<1>5. shares \in Seq(Nat) /\ Len(shares) = n - 1
  <2>1. shares \in [1..(n - 1) -> Nat]
    BY <1>4
  <2>2. n - 1 \in Nat
    OBVIOUS
  <2> HIDE DEF shares
  <2> QED
    BY <2>1, <2>2
<1> HIDE DEF shares
<1>6. /\ s \in [0..(n - 1) -> Int] /\ s[0] = 0
      /\ \A i \in 1..(n - 1) : s[i] = s[i - 1] + shares[i]
  <2>1. shares \in Seq(Int)
    BY <1>5
  <2>2. Upto(shares) \in [0..Len(shares) -> Int] /\ Upto(shares)[0] = 0
    BY <2>1, Sums
  <2>3. \A i \in 1..Len(shares) : Upto(shares)[i] = Upto(shares)[i - 1] + shares[i]
    BY <2>1, Sums
  <2> QED
    BY <1>5, <2>2, <2>3
<1>7. Total(shares) = s[n - 1]
  BY <1>5 DEF Total
<1> HIDE DEF s
<1>8. s[n - 1] * whole <= p[n - 1] * total
  <2> DEFINE k == n - 1
             r == [i \in 0..k |-> p[i]]
             l == [i \in 1..k |-> planned[i]]
             h == [i \in 1..k |-> shares[i]]
  <2>1. k \in Nat /\ \A i \in 0..k : i \in 0..n
    OBVIOUS
  <2>2. \A i \in 1..k : i \in 1..n /\ i - 1 \in 0..k /\ i \in 0..k
    BY <2>1
  <2>3. r \in [0..k -> Nat] /\ r[0] = 0
    BY <1>1, <2>1
  <2>4. l \in [1..k -> Nat] /\ h \in [1..k -> Nat]
    BY <1>3, <1>4, <2>2
  <2>5. \A i \in 1..k : s[i] = s[i - 1] + h[i]
    BY <1>6
  <2>6. \A i \in 1..k : r[i] = r[i - 1] + l[i]
    BY <1>1, <2>2
  <2>7. \A i \in 1..k : h[i] * whole <= l[i] * total
    BY <1>4
  <2>8. r[k] = p[n - 1] /\ k = n - 1
    BY <2>1
  <2> HIDE DEF k, r, l, h
  <2>10. Shared(k, r, s, h, l, whole, total)
    BY <1>6, <2>3, <2>4, <2>5, <2>6, <2>7, <2>8 DEF Shared
  <2>9. s[k] * whole <= r[k] * total
    BY <1>1, <2>1, <2>10, SharesFit
  <2> QED
    BY <2>8, <2>9
<1>9. total - s[n - 1] >= m /\ s[n - 1] \in Int
  <2> DEFINE a == s[n - 1]
             b == p[n - 1]
             c == planned[n]
  <2>1. n - 1 \in 0..(n - 1) /\ n - 1 \in 0..n /\ n \in 1..n
    OBVIOUS
  <2>2. a \in Int /\ b \in Nat /\ c \in Nat /\ whole = b + c
    BY <1>1, <1>3, <1>6, <2>1
  <2>3. a * whole <= b * total /\ c * total >= m * whole
    BY <1>3, <1>8, <2>1
  <2> HIDE DEF a, b, c
  <2>4. whole * total = b * total + c * total
    BY <2>2
  <2>5. (a + m) * whole <= whole * total
    <3>1. (a + m) * whole = a * whole + m * whole
      BY <1>1, <2>2
    <3>2. a * whole \in Int /\ m * whole \in Int /\ b * total \in Int /\ c * total \in Int
      BY <1>1, <2>2
    <3> QED
      BY <2>3, <2>4, <3>1, <3>2
  <2>6. a + m <= total
    <3> DEFINE e == a + m
    <3>1. e \in Int /\ e * whole <= whole * total
      BY <2>2, <2>5
    <3> HIDE DEF e
    <3>3. total \in Int /\ whole \in Nat /\ whole > 0
      BY <1>1
    <3>2. e <= total
      BY <3>1, <3>3, Cancelled
    <3> QED
      BY <3>2 DEF e
  <2> QED
    BY <2>2, <2>6 DEF a
<1>10. \A i \in 1..n : d[i] \in Nat /\ d[i] >= m
  <2>1. CASE total <= 0
    <3>1. m * whole <= 0
      <4>1. 1 \in 1..n /\ total = 0
        BY <2>1
      <4>2. planned[1] * total >= m * whole /\ planned[1] \in Nat
        BY <1>3, <4>1
      <4>3. planned[1] * total = 0
        BY <4>1, <4>2
      <4> QED
        BY <1>1, <4>2, <4>3
    <3>2. m = 0
      BY <1>1, <3>1
    <3> QED
      BY <1>2, <2>1, <3>2
  <2>2. CASE ~(total <= 0)
    <3> SUFFICES ASSUME NEW i \in 1..n PROVE d[i] \in Nat /\ d[i] >= m
      OBVIOUS
    <3>1. d[i] = IF i < n THEN shares[i] ELSE total - s[n - 1]
      BY <1>2, <1>7, <2>2
    <3> HIDE DEF d
    <3>2. CASE i < n
      <4>1. i \in 1..(n - 1)
        BY <3>2
      <4> QED
        BY <1>4, <3>1, <3>2, <4>1
    <3>3. CASE ~(i < n)
      BY <1>9, <3>1, <3>3
    <3> QED
      BY <3>2, <3>3
  <2> QED
    BY <2>1, <2>2
<1>11. d = [i \in 1..n |-> d[i]]
  BY <1>2
<1> HIDE DEF d
<1>12. d \in [1..n -> Nat]
  BY <1>10, <1>11
<1>13. d \in Seq(Nat) /\ Len(d) = n
  BY <1>12
<1> QED
  BY <1>10, <1>13 DEF AtLeast, d

\* Cuts, and boundaries that moved to them, leave every shot some time.
LEMMA SnappedEnds ==
  ASSUME NEW w, AtLeast(w, Len(w), SnapTolerance), NEW cuts, cuts \subseteq Int,
         NEW end, end = Snapped(w, cuts).ends
  PROVE  end \in [0..Len(w) -> Int] /\ \A i \in 1..Len(w) : end[i - 1] <= end[i]
<1> DEFINE n == Len(w)
           planned == Upto(w)
           moved(i) == i < n /\ Near(planned[i], cuts) # {}
           wish == [i \in 1..n |-> IF moved(i) THEN CHOOSE c \in Near(planned[i], cuts) : TRUE
                                   ELSE planned[i]]
           fits(prev, i) == prev + HalfSecond <= wish[i] /\ wish[i] <= wish[i + 1] - HalfSecond
           Rest(i, e) == IF moved(i) /\ fits(e, i) THEN wish[i] ELSE planned[i]
           rule == [i \in 1..n |-> [e \in Int |-> Rest(i, e)]]
           Is(g) == g = [i \in 0..n |-> IF i = 0 THEN 0 ELSE Rest(i, g[i - 1])]
           h == CHOOSE g : Is(g)
<1>2. end = h
  BY DEF Snapped
<1>1. n \in Nat /\ w \in Seq(Nat) /\ Len(w) = n /\ \A i \in 1..n : w[i] \in Nat /\ w[i] >= 20
  BY DEF AtLeast, SnapTolerance
<1> HIDE DEF n
<1>3. /\ planned \in [0..n -> Nat] /\ planned[0] = 0
      /\ \A i \in 1..n : planned[i] = planned[i - 1] + w[i]
  <2>1. w \in Seq(Int)
    BY <1>1
  <2>2. Upto(w) \in [0..Len(w) -> Nat] /\ Upto(w)[0] = 0
    BY <1>1, <2>1, Sums, SumsAreNatural
  <2>3. \A i \in 1..Len(w) : Upto(w)[i] = Upto(w)[i - 1] + w[i]
    BY <2>1, Sums
  <2> QED
    BY <1>1, <2>2, <2>3
<1> HIDE DEF planned
<1>4. \A b \in Int : \A c \in Near(b, cuts) : c \in Int /\ c <= b + 20
  BY DEF Near, SnapTolerance
<1>5. \A i \in 1..n : wish[i] \in Int /\ wish[i] <= planned[i] + 20
  <2> SUFFICES ASSUME NEW i \in 1..n PROVE wish[i] \in Int /\ wish[i] <= planned[i] + 20
    OBVIOUS
  <2>1. planned[i] \in Nat
    BY <1>3
  <2>2. CASE moved(i)
    <3>1. wish[i] \in Near(planned[i], cuts)
      BY <2>2
    <3> QED
      BY <1>4, <2>1, <3>1
  <2>3. CASE ~moved(i)
    <3>1. wish[i] = planned[i]
      BY <2>3
    <3> QED
      BY <2>1, <3>1
  <2> QED
    BY <2>2, <2>3
<1> HIDE DEF wish
<1>6. \A i \in 1..n, e \in Int :
         /\ Rest(i, e) \in Int /\ Rest(i, e) <= planned[i] + 20
         /\ Rest(i, e) = planned[i] \/ e + 10 <= Rest(i, e)
  <2> SUFFICES ASSUME NEW i \in 1..n, NEW e \in Int
               PROVE /\ Rest(i, e) \in Int /\ Rest(i, e) <= planned[i] + 20
                     /\ Rest(i, e) = planned[i] \/ e + 10 <= Rest(i, e)
    OBVIOUS
  <2>1. planned[i] \in Nat /\ wish[i] \in Int /\ wish[i] <= planned[i] + 20
    BY <1>3, <1>5
  <2>2. CASE moved(i) /\ fits(e, i)
    <3>1. Rest(i, e) = wish[i] /\ e + 10 <= wish[i]
      BY <2>2 DEF HalfSecond
    <3> QED
      BY <2>1, <3>1
  <2>3. CASE ~(moved(i) /\ fits(e, i))
    <3>1. Rest(i, e) = planned[i]
      BY <2>3
    <3> QED
      BY <2>1, <3>1
  <2> QED
    BY <2>2, <2>3
<1> HIDE DEF Rest
<1>7. rule \in [1..n -> [Int -> Int]]
  BY <1>6
<1>14. \E f : Recurses(f, n, Int, 0, rule)
  <2>1. 0 \in Int /\ n \in Nat
    BY <1>1
  <2> HIDE DEF rule
  <2> QED
    BY <1>7, <2>1, Recursive
<1>8. PICK f : Recurses(f, n, Int, 0, rule)
  BY <1>14
<1>9. f \in [0..n -> Int] /\ f[0] = 0 /\ \A i \in 1..n : f[i] = Rest(i, f[i - 1])
  <2>1. f \in [0..n -> Int] /\ f[0] = 0 /\ \A i \in 1..n : f[i] = rule[i][f[i - 1]]
    BY <1>8 DEF Recurses
  <2>2. \A i \in 1..n : f[i - 1] \in Int
    BY <1>1, <2>1
  <2>3. \A i \in 1..n, e \in Int : rule[i][e] = Rest(i, e)
    OBVIOUS
  <2> HIDE DEF rule
  <2> QED
    BY <2>1, <2>2, <2>3
<1>10. Is(f)
  BY <1>9
<1>11. Is(h)
  <2> HIDE DEF Is
  <2> QED
    BY <1>10
<1> HIDE DEF h
<1>12. h = f
  <2>1. \A i \in 0..n : h[i] = IF i = 0 THEN 0 ELSE Rest(i, h[i - 1])
    BY <1>11
  <2>2. h = [i \in 0..n |-> h[i]]
    BY <1>11
  <2> DEFINE T == {i \in 0..n : h[i] = f[i]}
  <2>3. 0 \in T
    BY <1>1, <1>9, <2>1
  <2>4. ASSUME NEW k \in 0..(n - 1), k \in T PROVE k + 1 \in T
    <3>1. k + 1 \in 1..n /\ k + 1 - 1 = k /\ k + 1 \in 0..n /\ k + 1 # 0
      BY <1>1
    <3>2. h[k + 1] = Rest(k + 1, h[k + 1 - 1]) /\ f[k + 1] = Rest(k + 1, f[k + 1 - 1])
      BY <1>9, <2>1, <3>1
    <3>3. h[k] = f[k]
      BY <2>4
    <3> QED
      BY <3>1, <3>2, <3>3
  <2>5. \A k \in 0..(n - 1) : k \in T => k + 1 \in T
    BY <2>4
  <2>6. 0..n \subseteq T
    <3> HIDE DEF T
    <3> QED
      BY <1>1, <2>3, <2>5, UpTo
  <2>7. \A i \in 0..n : h[i] = f[i]
    BY <2>6
  <2>8. f = [i \in 0..n |-> f[i]]
    BY <1>9
  <2> QED
    BY <2>2, <2>7, <2>8
<1>13. ASSUME NEW i \in 1..n PROVE f[i - 1] <= f[i]
  <2> DEFINE a == f[i - 1]
             b == f[i]
  <2>1. i - 1 \in 0..n /\ i \in 0..n /\ (i - 1 = 0 \/ i - 1 \in 1..n)
    BY <1>1
  <2>2. a \in Int /\ b \in Int /\ planned[i] = planned[i - 1] + w[i] /\ w[i] >= 20
        /\ planned[i - 1] \in Nat /\ planned[i] \in Nat /\ w[i] \in Nat
    BY <1>1, <1>3, <1>9, <2>1
  <2>3. b = planned[i] \/ a + 10 <= b
    BY <1>6, <1>9, <2>2
  <2>4. a <= planned[i - 1] + 20
    <3>1. CASE i - 1 = 0
      <4>1. a = 0
        BY <1>9, <3>1
      <4> QED
        BY <2>2, <4>1
    <3>2. CASE i - 1 \in 1..n
      <4> DEFINE j == i - 1
      <4>1. j \in 1..n
        BY <3>2
      <4> HIDE DEF j
      <4>2. j - 1 \in 0..n /\ f[j - 1] \in Int /\ f[j] = Rest(j, f[j - 1])
        BY <1>1, <1>9, <4>1
      <4>3. f[j] <= planned[j] + 20
        BY <1>6, <4>1, <4>2
      <4> QED
        BY <4>3 DEF j
    <3> QED
      BY <2>1, <3>1, <3>2
  <2> HIDE DEF a, b
  <2>5. a <= b
    BY <2>2, <2>3, <2>4
  <2> QED
    BY <2>5 DEF a, b
<1> QED
  BY <1>2, <1>9, <1>12, <1>13 DEF n

\* The windows of a native file are lengths, one for each shot.
LEMMA NativeAreLengths ==
  ASSUME NEW w, AtLeast(w, Len(w), SnapTolerance), NEW cuts, cuts \subseteq Int
  PROVE  AtLeast(NativeWindows(w, cuts), Len(w), 0)
<1> DEFINE n == Len(w)
           s == Snapped(w, cuts)
           end == s.ends
           lengths == [i \in 1..n |-> end[i] - end[i - 1]]
           leaves(i) == i \in 2..Len(lengths) /\ i \notin s.sure /\ lengths[i] - Nudge >= MinNudged
           t == NativeWindows(w, cuts)
<1>1. n \in Nat
  BY DEF AtLeast
<1>2. t = [i \in 1..Len(lengths) |-> lengths[i] - (IF leaves(i) THEN Nudge ELSE 0)
                                   + (IF leaves(i + 1) THEN Nudge ELSE 0)]
  BY DEF NativeWindows, DissolveSafe
<1>3. end \in [0..n -> Int] /\ \A i \in 1..n : end[i - 1] <= end[i]
  BY SnappedEnds
<1> HIDE DEF s, end
<1> HIDE DEF n
<1>4. \A i \in 1..n : lengths[i] \in Nat
  <2> SUFFICES ASSUME NEW i \in 1..n PROVE lengths[i] \in Nat
    OBVIOUS
  <2>1. end[i] \in Int /\ end[i - 1] \in Int /\ end[i - 1] <= end[i]
    BY <1>1, <1>3
  <2> QED
    BY <2>1
<1>5. Len(lengths) = n
  BY <1>1
<1> HIDE DEF lengths, t
<1>6. \A i \in 1..n : t[i] \in Nat
  <2> SUFFICES ASSUME NEW i \in 1..n PROVE t[i] \in Nat
    OBVIOUS
  <2>1. t[i] = lengths[i] - (IF leaves(i) THEN 7 ELSE 0) + (IF leaves(i + 1) THEN 7 ELSE 0)
    BY <1>2, <1>5 DEF Nudge
  <2>2. leaves(i) => lengths[i] - 7 >= 40
    BY DEF Nudge, MinNudged
  <2> HIDE DEF leaves
  <2>3. lengths[i] \in Nat
    BY <1>4
  <2> QED
    BY <2>1, <2>2, <2>3
<1>7. t = [i \in 1..n |-> t[i]]
  BY <1>2, <1>5
<1>8. t \in [1..n -> Nat]
  BY <1>6, <1>7
<1>9. t \in Seq(Nat) /\ Len(t) = n
  BY <1>1, <1>8
<1>10. \A i \in 1..n : t[i] >= 0
  BY <1>6
<1> QED
  BY <1>9, <1>10 DEF AtLeast, t, n

-----------------------------------------------------------------------------
(* ReelFinish.  The lines in the film are those of the windows it is timed by. *)

\* Windows that are long enough for more are long enough for less.
LEMMA AtLeastLess ==
  ASSUME NEW w, NEW n, NEW a \in Nat, NEW b \in Nat, a >= b, n \in Nat, AtLeast(w, n, a)
  PROVE  AtLeast(w, n, b)
<1>1. w \in Seq(Nat) /\ Len(w) = n /\ \A i \in 1..n : w[i] >= a
  BY DEF AtLeast
<1>2. \A i \in 1..n : w[i] \in Nat
  BY <1>1
<1>3. \A i \in 1..n : w[i] >= b
  BY <1>1, <1>2
<1> QED
  BY <1>1, <1>3 DEF AtLeast

\* A fitted plan has shots that are long enough, and lines of their own.
LEMMA PlanIsFitted ==
  ASSUME FinishAssumption, film_shots \in FittedPlans
  PROVE  /\ Len(film_shots) \in Nat /\ Len(film_shots) > 0
         /\ AtLeast(Planned, Len(film_shots), 60)
         /\ Worded(film_shots, Len(film_shots), Wordings)
         /\ Total(Planned) \in Nat /\ Total(Planned) >= 60
<1>1. PICK n \in 1..MaxShots :
         film_shots \in [1..n -> [of : 1..MaxShots, text : Wordings, dur : Lengths]]
  BY DEF FittedPlans
<1>2. n \in Nat /\ n > 0 /\ Lengths \subseteq Nat /\ \A d \in Lengths : d >= 60
  BY DEF FinishAssumption, MinShot
<1>3. Len(film_shots) = n
  <2> DEFINE S == [of : 1..MaxShots, text : Wordings, dur : Lengths]
  <2>1. film_shots \in [1..n -> S]
    BY <1>1
  <2> HIDE DEF S
  <2> QED
    BY <1>2, <2>1
<1>4. \A i \in 1..n : film_shots[i].dur \in Nat /\ film_shots[i].dur >= 60
  BY <1>1, <1>2
<1>5. \A i \in 1..n : film_shots[i].text \in Wordings
  BY <1>1
<1>6. Planned = [i \in 1..n |-> film_shots[i].dur]
  BY <1>3 DEF Planned
<1>7. Planned \in [1..n -> Nat] /\ \A i \in 1..n : Planned[i] >= 60
  BY <1>4, <1>6
<1>8. Planned \in Seq(Nat) /\ Len(Planned) = n
  BY <1>2, <1>7
<1>9. AtLeast(Planned, n, 60)
  BY <1>7, <1>8 DEF AtLeast
<1>10. Total(Planned) \in Nat /\ Total(Planned) >= 60
  <2> DEFINE u == Upto(Planned)
  <2>1. u \in [0..n -> Nat] /\ Planned \in Seq(Int)
    BY <1>8, SumsAreNatural
  <2>2. u[n] = u[n - 1] + Planned[n]
    BY <1>2, <1>8, <2>1, Sums, SMTT(60)
  <2>3. Total(Planned) = u[n]
    BY <1>8 DEF Total
  <2> HIDE DEF u
  <2>4. u[n - 1] \in Nat /\ u[n] \in Nat /\ Planned[n] \in Nat /\ Planned[n] >= 60
    BY <1>2, <1>7, <2>1
  <2> QED
    BY <2>2, <2>3, <2>4
<1> QED
  BY <1>2, <1>3, <1>5, <1>9, <1>10 DEF Worded

\* The windows a plan is scaled to are lengths, and long ones for a native file.
LEMMA SpreadPlan ==
  ASSUME FinishAssumption, film_shots \in FittedPlans, NEW total \in Nat
  PROVE  /\ AtLeast(Distribute(Planned, total), Len(film_shots), 0)
         /\ total = (3 * Total(Planned)) \div 4
              => AtLeast(Distribute(Planned, total), Len(film_shots), 20)
<1> DEFINE n == Len(film_shots)
           whole == Total(Planned)
           l(i) == Planned[i]
<1>1. /\ n \in Nat /\ n > 0 /\ AtLeast(Planned, n, 60) /\ whole \in Nat /\ whole >= 60
  BY PlanIsFitted
<1>2. /\ Planned \in Seq(Nat) /\ Len(Planned) = n
      /\ \A i \in 1..n : Planned[i] \in Nat /\ Planned[i] >= 60
  BY <1>1 DEF AtLeast
<1>3. Worth(Planned, total, 0)
  <2>1. \A i \in 1..n : Planned[i] * total >= 0 * whole
    <3> SUFFICES ASSUME NEW i \in 1..n PROVE Planned[i] * total >= 0 * whole
      OBVIOUS
    <3> DEFINE d == Planned[i]
    <3>1. d \in Nat
      BY <1>2
    <3> HIDE DEF d, whole
    <3>2. d * total >= 0
      BY <3>1
    <3>3. 0 * whole = 0
      BY <1>1
    <3> QED
      BY <3>2, <3>3 DEF d
  <2> QED
    BY <1>2, <2>1 DEF Worth
<1>4. ASSUME total = (3 * whole) \div 4 PROVE Worth(Planned, total, 20)
  <2>1. 4 * total >= 3 * whole - 3
    BY <1>1, <1>4
  <2>2. 60 * total >= 20 * whole
    BY <1>1, <2>1
  <2>3. \A i \in 1..n : Planned[i] * total >= 20 * whole
    <3> SUFFICES ASSUME NEW i \in 1..n PROVE Planned[i] * total >= 20 * whole
      OBVIOUS
    <3> DEFINE d == Planned[i]
    <3>1. d \in Nat /\ d >= 60
      BY <1>2
    <3> HIDE DEF d, whole
    <3>2. d * total >= 60 * total
      BY <3>1
    <3>3. d * total \in Nat
      BY <3>1
    <3> QED
      BY <1>1, <2>2, <3>2, <3>3 DEF d
  <2> QED
    BY <1>2, <2>3 DEF Worth
<1>5. whole > 0
  BY <1>1
<1> HIDE DEF n, whole
<1>6. AtLeast(Distribute(Planned, total), n, 0)
  BY <1>1, <1>2, <1>3, <1>5, Distributed DEF whole
<1>7. total = (3 * whole) \div 4 => AtLeast(Distribute(Planned, total), n, 20)
  BY <1>1, <1>2, <1>4, <1>5, Distributed DEF whole
<1> QED
  BY <1>6, <1>7 DEF n, whole

\* The cuts of a file are times.
LEMMA CutsAreTimes ==
  ASSUME NEW w \in Seq(Nat), Len(w) > 1, NEW cuts \in CutsOf(w)
  PROVE  cuts \subseteq Int
<1>1. w[1] \in Nat /\ w[2] \in Nat
  OBVIOUS
<1> QED
  BY <1>1, SMTT(60) DEF CutsOf, SnapTolerance

\* What is burned when the pass succeeds.
Expected == OverlayEvents(film_shots, timed, ask /\ ~card_made)

\* The lines in the film are those of the windows it is timed by.
CaptionInv ==
    /\ film_shots \in FittedPlans /\ ask \in BOOLEAN /\ card_made \in BOOLEAN
    /\ AtLeast(timed, Len(film_shots), 0)
    /\ film_at = "probe" => Len(film_shots) > 1 /\ footage = (3 * Total(Planned)) \div 4
    /\ film_at \in {"join", "probe", "guard", "card", "burn"} =>
           film.burned = <<>> /\ meta.overlay = "none"
    /\ film.burned = <<>> \/ film.burned = Expected
    /\ meta.overlay = "ok" => film.burned = Expected

\* Lines that follow the windows fit the reel.
LEMMA CaptionsHold == FinishAssumption /\ CaptionInv => CaptionsFit
<1> SUFFICES ASSUME FinishAssumption, CaptionInv PROVE CaptionsFit
  OBVIOUS
<1> DEFINE n == Len(film_shots)
           total == Total(timed)
           asks == ask /\ ~card_made
<1>1. /\ n \in Nat /\ n > 0 /\ Worded(film_shots, n, Wordings) /\ AskLine \notin Wordings
      /\ timed \in Seq(Nat) /\ Len(timed) = n
  BY PlanIsFitted DEF FinishAssumption, CaptionInv, AtLeast
<1>2. asks \in BOOLEAN
  BY DEF CaptionInv
<1>3. Expected = OverlayEvents(film_shots, timed, asks)
  BY DEF Expected
<1> HIDE DEF asks
<1>4. Fit(Expected, total) /\ (asks /\ total >= Dwell => Asks(Expected))
  BY <1>1, <1>2, <1>3, LinesFit
<1>5. total \in Nat
  BY <1>1, SumsAreNatural DEF Total
<1>6. LinesAreBeats
  <2>1. CASE Lines = <<>>
    BY <2>1 DEF LinesAreBeats
  <2>2. CASE Lines # <<>> /\ Lines = Expected
    <3>1. Fit(Lines, total)
      BY <1>4, <2>2
    <3> QED
      BY <2>2, <3>1 DEF Fit, InTurn, LinesAreBeats, Last
  <2> QED
    BY <2>1, <2>2 DEF CaptionInv, Lines
<1>7. AskCanBeRead
  BY <1>4 DEF AskCanBeRead, CaptionInv, Lines, AskEvents, Asks, asks
<1> QED
  BY <1>6, <1>7 DEF CaptionsFit

\* Nothing is burned before the first step.
LEMMA CaptionStart == FinishAssumption /\ InitFinish => CaptionInv
<1> SUFFICES ASSUME FinishAssumption, InitFinish PROVE CaptionInv
  OBVIOUS
<1>1. film_shots \in FittedPlans /\ timed = Planned /\ (lane # "single" => Len(film_shots) > 1)
  BY DEF InitFinish
<1>2. AtLeast(timed, Len(film_shots), 0)
  BY <1>1, PlanIsFitted, AtLeastLess
<1>3. film_at = "probe" => lane = "native"
  BY DEF InitFinish
<1>4. lane # "single" => footage = (3 * Total(Planned)) \div 4
  BY DEF InitFinish
<1>5. film.burned = <<>> /\ meta.overlay = "none" /\ ask \in BOOLEAN /\ card_made = FALSE
  BY DEF InitFinish, NoMeta
<1> QED
  BY <1>1, <1>2, <1>3, <1>4, <1>5 DEF CaptionInv

\* A step that leaves the plan, the windows and the lines keeps what is burned.
LEMMA CaptionsKept ==
  ASSUME CaptionInv, UNCHANGED <<given, timed, card_made>>, film'.burned = film.burned,
         meta'.overlay = meta.overlay, film_at' # "probe",
         film_at' \in {"join", "guard", "card", "burn"} =>
             film_at \in {"join", "probe", "guard", "card", "burn"}
  PROVE  CaptionInv'
<1>1. Planned' = Planned /\ FittedPlans' = FittedPlans
  BY DEF Planned, given, FittedPlans
<1>2. Expected' = Expected
  BY DEF Expected, given
<1> QED
  BY <1>1, <1>2 DEF CaptionInv, given

\* Before the pass the windows may change: nothing is burned yet.
LEMMA WindowsChange ==
  ASSUME CaptionInv, UNCHANGED given, card_made' \in BOOLEAN,
         film_at \in {"join", "probe", "guard", "card", "burn"}, film_at' # "probe",
         film'.burned = <<>>, meta'.overlay = "none", AtLeast(timed', Len(film_shots), 0)
  PROVE  CaptionInv'
<1>1. film_shots' \in FittedPlans' /\ film_shots' = film_shots /\ ask' = ask
  BY DEF given, CaptionInv, FittedPlans
<1> QED
  BY <1>1 DEF CaptionInv

\* Every pass keeps the lines those of the windows.
LEMMA CaptionStep ==
  FinishAssumption /\ LengthInv /\ CaptionInv /\ [NextFinish]_finish_vars => CaptionInv'
<1> SUFFICES ASSUME FinishAssumption, LengthInv, CaptionInv, [NextFinish]_finish_vars
             PROVE  CaptionInv'
  OBVIOUS
<1> DEFINE n == Len(film_shots)
<1>0. /\ film_shots \in FittedPlans /\ n \in Nat /\ AtLeast(Planned, n, 60) /\ footage \in Nat
      /\ Total(Planned) \in Nat
      /\ "overlay" \in DOMAIN meta /\ "burned" \in DOMAIN film
  BY PlanIsFitted DEF CaptionInv, LengthInv
<1>11. AtLeast(Planned, n, 0) /\ AtLeast(Planned, n, 20)
  BY <1>0, AtLeastLess
<1>12. \A total \in Nat : AtLeast(Distribute(Planned, total), n, 0)
  BY <1>0, SpreadPlan
<1>13. film_at \in {"join", "probe", "guard", "card", "burn"} =>
           film.burned = <<>> /\ meta.overlay = "none"
  BY DEF CaptionInv
<1> USE DEF FailFilm
<1>1. CASE JoinClips
  <2>1. film_at = "join" /\ film_at' \in {"guard", "end"} /\ UNCHANGED <<given, card_made, meta>>
    BY <1>1 DEF JoinClips
  <2>2. film' = film \/ \E length : film' = [film EXCEPT !.length = length]
    BY <1>1 DEF JoinClips
  <2>3. film'.burned = <<>>
    BY <1>0, <1>13, <2>1, <2>2
  <2>4. timed' \in {timed, Planned, Distribute(Planned, footage)}
    BY <1>1 DEF JoinClips
  <2>5. AtLeast(timed', n, 0)
    BY <1>0, <1>11, <1>12, <2>4 DEF CaptionInv
  <2> QED
    BY <1>13, <2>1, <2>3, <2>5, WindowsChange DEF CaptionInv
<1>2. CASE ProbeNative
  <2>1. film_at = "probe" /\ film_at' = "card" /\ UNCHANGED <<given, card_made, film, meta>>
    BY <1>2 DEF ProbeNative
  <2>2. PICK w \in {Planned, Distribute(Planned, footage)} :
           \E cuts \in CutsOf(w) : timed' = NativeWindows(w, cuts)
    BY <1>2 DEF ProbeNative
  <2>3. PICK cuts \in CutsOf(w) : timed' = NativeWindows(w, cuts)
    BY <2>2
  <2>4. n > 1 /\ footage = (3 * Total(Planned)) \div 4
    BY <2>1 DEF CaptionInv
  <2>5. AtLeast(w, n, 20)
    BY <1>0, <1>11, <2>2, <2>4, SpreadPlan
  <2>6. w \in Seq(Nat) /\ Len(w) = n
    BY <2>5 DEF AtLeast
  <2>7. cuts \subseteq Int
    BY <2>3, <2>4, <2>6, CutsAreTimes
  <2>8. AtLeast(timed', n, 0)
    BY <2>3, <2>5, <2>6, <2>7, NativeAreLengths DEF SnapTolerance
  <2> QED
    BY <1>13, <2>1, <2>8, WindowsChange DEF CaptionInv
<1>3. CASE LabelGuard
  BY <1>3, CaptionsKept DEF LabelGuard
<1>4. CASE BuildEndCard
  <2>1. /\ film_at = "card" /\ film_at' = "burn" /\ UNCHANGED <<given, timed, film>>
        /\ card_made' \in {FALSE, ask /\ tools}
        /\ \E c : meta' = [meta EXCEPT !.end_card = c]
    BY <1>4 DEF BuildEndCard
  <2>2. meta'.overlay = meta.overlay
    BY <2>1
  <2>3. card_made' \in BOOLEAN
    BY <2>1
  <2> QED
    BY <1>13, <2>1, <2>2, <2>3, WindowsChange DEF CaptionInv
<1>5. CASE BurnOverlays
  <2>1. /\ film_at = "burn" /\ film_at' = "attach" /\ UNCHANGED <<given, footage, card_made>>
    BY <1>5 DEF BurnOverlays
  <2>2. CASE /\ UNCHANGED <<film, timed>>
             /\ \E o \in {"skipped", "failed"} : meta' = [meta EXCEPT !.overlay = o]
    <3>1. meta'.overlay \in {"skipped", "failed"}
      BY <1>0, <2>2
    <3>2. film_shots' \in FittedPlans' /\ film_shots' = film_shots /\ ask' = ask
      BY <1>0, <2>1 DEF given, FittedPlans
    <3> QED
      BY <1>13, <2>1, <2>2, <3>1, <3>2 DEF CaptionInv
  <2>3. ASSUME NEW w \in BurnWindows, timed' = w,
               film' = [film EXCEPT !.burned = OverlayEvents(film_shots, w, ask /\ ~card_made)]
        PROVE  CaptionInv'
    <3>1. Expected' = OverlayEvents(film_shots, w, ask /\ ~card_made)
      BY <2>1, <2>3 DEF Expected, given
    <3>2. film'.burned = Expected'
      BY <1>0, <2>3, <3>1
    <3>3. AtLeast(timed', n, 0)
      <4>1. w \in {timed, Distribute(Planned, footage), Distribute(Planned, Total(Planned))}
        BY DEF BurnWindows
      <4> QED
        BY <1>0, <1>12, <2>3, <4>1 DEF CaptionInv
    <3>4. film_shots' \in FittedPlans' /\ film_shots' = film_shots /\ ask' = ask
      BY <1>0, <2>1 DEF given, FittedPlans
    <3> QED
      BY <2>1, <3>2, <3>3, <3>4 DEF CaptionInv
  <2> QED
    BY <1>5, <2>2, <2>3 DEF BurnOverlays
<1>6. CASE AttachEndCard
  <2>1. /\ film_at = "attach" /\ film_at' = "assemble" /\ UNCHANGED <<given, timed, card_made>>
        /\ film' = film \/ film' = [film EXCEPT !.card = TRUE, !.length = @ + EndCard]
        /\ \/ \E d : meta' = [meta EXCEPT !.length = d]
           \/ \E d : meta' = [[meta EXCEPT !.end_card = "failed"] EXCEPT !.length = d]
    BY <1>6 DEF AttachEndCard, AttachFailure
  <2>2. film'.burned = film.burned /\ meta'.overlay = meta.overlay
    BY <1>0, <2>1
  <2> QED
    BY <2>1, <2>2, CaptionsKept
<1>7. CASE AssembleAudio
  BY <1>7, CaptionsKept DEF AssembleAudio
<1>8. CASE FinishAudio
  <2>1. /\ film_at = "audio" /\ film_at' = "store" /\ UNCHANGED <<given, timed, card_made>>
        /\ \E b : meta' = [meta EXCEPT !.audio = b]
    BY <1>8 DEF FinishAudio
  <2>2. film' = film \/ \E keep, bed, d : film' = Mixed(keep, bed, d)
    BY <1>8 DEF FinishAudio
  <2>3. film'.burned = film.burned /\ meta'.overlay = meta.overlay
    BY <1>0, <2>1, <2>2 DEF Mixed
  <2> QED
    BY <2>1, <2>3, CaptionsKept
<1>9. CASE StoreFilm
  BY <1>9, CaptionsKept DEF StoreFilm
<1>10. CASE UNCHANGED finish_vars
  <2>1. UNCHANGED <<given, timed, card_made, film, meta, film_at, footage>>
    BY <1>10 DEF finish_vars
  <2>2. film_shots' = film_shots /\ ask' = ask /\ Planned' = Planned /\ FittedPlans' = FittedPlans
        /\ Expected' = Expected
    BY <2>1 DEF given, Planned, FittedPlans, Expected
  <2> QED
    BY <2>1, <2>2 DEF CaptionInv
<1> QED
  BY <1>1, <1>2, <1>3, <1>4, <1>5, <1>6, <1>7, <1>8, <1>9, <1>10 DEF NextFinish, Render

\* What is burned over the footage fits it: at most a hook, a proof line and the
\* call to action, one after the other and within the reel, and the call to
\* action long enough to be read (_overlay_events, _select_caption_beats).
THEOREM CaptionsAlwaysFit == FinishSpec => []CaptionsFit
<1>1. InitFinish => LengthInv /\ CaptionInv
  BY FinishAssumption, LengthStart, CaptionStart DEF FinishAssumption
<1>2. LengthInv /\ CaptionInv /\ [NextFinish]_finish_vars => (LengthInv /\ CaptionInv)'
  BY FinishAssumption, LengthStep, CaptionStep DEF FinishAssumption
<1>3. LengthInv /\ CaptionInv => CaptionsFit
  BY FinishAssumption, CaptionsHold DEF FinishAssumption
<1> QED
  BY <1>1, <1>2, <1>3, PTL DEF FinishSpec
=============================================================================

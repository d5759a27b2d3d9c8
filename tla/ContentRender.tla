---------------------------- MODULE ContentRender ----------------------------
(***************************************************************************)
(* What a content run makes of one item (agents workflows/content/nodes.py, *)
(* graph.py).  The nodes run in a fixed order and pass a state along; one   *)
(* that reports "failed" ends the run.  The pictures are written to the     *)
(* object store as they are made, under paths that belong to the item and   *)
(* not to the run; only the last node writes the content row that names     *)
(* them.  The item may be generated again whatever became of it, so a       *)
(* second run writes over pictures that an earlier row still names.         *)
(*                                                                         *)
(* The words a node writes are left out; a picture is known by its run, by  *)
(* the logo variant on it and by whether the manufacturer's logo is on it.  *)
(* Who may run when is the subject of ContentBatch.                         *)
(***************************************************************************)
EXTENDS Naturals

CONSTANTS
    Variants,  \* the brand's logo variants; empty when it has none
    MaxRuns    \* how often the item is generated

VARIABLES
    item,     \* calendar_items.status
    run,      \* runs so far; the latest is the only one
    node,     \* the node the run is at, "idle" when there is none
    state,    \* the part of ContentState that later nodes read
    objects,  \* the object store: path to picture
    row,      \* the current content row
    approval  \* run of the row whose approval is pending, 0 is none

render_vars == <<item, run, node, state, objects, row, approval>>

Picture(r, variant, vendor) == [run |-> r, variant |-> variant, vendor |-> vendor]
NoPicture == Picture(0, "none", FALSE)
Raw(r) == Picture(r, "none", FALSE)

Fresh == [format |-> "lifestyle", vendor |-> FALSE, image |-> FALSE, branded |-> FALSE,
          bytes |-> NoPicture, variant |-> "none", revised |-> FALSE, mockups |-> FALSE]

NoRow == [run |-> 0, state |-> Fresh, background |-> FALSE]

InitRender ==
    /\ item = "queued" /\ run = 0 /\ node = "idle" /\ state = Fresh
    /\ objects = [background |-> NoPicture, composed |-> NoPicture,
                  branded |-> NoPicture, mockups |-> NoPicture]
    /\ row = NoRow /\ approval = 0

Goto(next) == node' = next

\* The run ends without a row; only a working item is released.
Failed ==
    /\ node' = "idle"
    /\ item' = IF item = "working" THEN "failed" ELSE item

GotoOrFail(next) == (Goto(next) /\ UNCHANGED item) \/ Failed

----------------------------------------------------------------------------
(* The words *)

\* No brand, no item or no brief ends the run before the item is claimed.
load_context ==
    /\ node = "idle" /\ run < MaxRuns /\ item \in {"queued", "working"}
    /\ run' = run + 1 /\ state' = Fresh
    /\ \/ Goto("enrich_user_brief") /\ item' = "working"
       \/ Failed
    /\ UNCHANGED <<objects, row, approval>>

\* A brief that cannot be enriched stays as it is.
enrich_user_brief ==
    /\ node = "enrich_user_brief" /\ Goto("generate_hook")
    /\ UNCHANGED <<item, run, state, objects, row, approval>>

generate_hook ==
    /\ node = "generate_hook"
    /\ GotoOrFail("generate_caption")
    /\ UNCHANGED <<run, state, objects, row, approval>>

generate_caption ==
    /\ node = "generate_caption"
    /\ GotoOrFail("generate_hashtags")
    /\ UNCHANGED <<run, state, objects, row, approval>>

generate_hashtags ==
    /\ node = "generate_hashtags"
    /\ GotoOrFail("source_product_image")
    /\ UNCHANGED <<run, state, objects, row, approval>>

adapt_platforms ==
    /\ node = "adapt_platforms"
    /\ GotoOrFail("generate_mockups")
    /\ UNCHANGED <<run, state, objects, row, approval>>

----------------------------------------------------------------------------
(* The picture *)

\* The manufacturer's logo, of the product or of its category, if any.
source_product_image ==
    /\ node = "source_product_image"
    /\ \/ Goto("enhance_image_prompt") /\ state' \in {state, [state EXCEPT !.vendor = TRUE]}
          /\ UNCHANGED item
       \/ Failed /\ UNCHANGED state
    /\ UNCHANGED <<run, objects, row, approval>>

enhance_image_prompt ==
    /\ node = "enhance_image_prompt"
    /\ GotoOrFail("generate_background")
    /\ UNCHANGED <<run, state, objects, row, approval>>

\* The format that is under-represented among all posts.
_decide_image_format == {"ad", "lifestyle"}

\* A post goes on without a picture when none can be generated.
generate_background ==
    /\ node = "generate_background" /\ Goto("apply_branding")
    /\ \E format \in _decide_image_format, image \in BOOLEAN :
           state' = [state EXCEPT !.format = format, !.image = image]
    /\ UNCHANGED <<item, run, objects, row, approval>>

\* The manufacturer's logo on a branded picture: not when it is the brand's
\* own mark.
ProductLogo == {FALSE, state.vendor}

\* The variant that reads best where the planner puts it, among those that
\* could be loaded.
_resolve_logo_placement == Variants

\* Compose, upload the branded picture, upload the clean one.  Whatever goes
\* wrong the run continues without branding, with what was uploaded in place.
apply_branding ==
    /\ node = "apply_branding" /\ Goto("review_branding")
    /\ \/ UNCHANGED <<state, objects>>
       \/ /\ state.image
          /\ \E variant \in _resolve_logo_placement, vendor \in ProductLogo :
                 LET drawn == Picture(run, variant, vendor) IN
                 \/ /\ objects' = [objects EXCEPT !.branded = drawn]
                    /\ UNCHANGED state
                 \/ /\ objects' = [objects EXCEPT !.branded = drawn, !.composed = Raw(run)]
                    /\ state' = [state EXCEPT !.branded = TRUE, !.bytes = drawn,
                                              !.variant = variant, !.vendor = vendor]
    /\ UNCHANGED <<item, run, row, approval>>

\* Mutant: the bytes carried on are those from before the review.
RedrawnBehind(variant) == [state EXCEPT !.variant = variant, !.revised = TRUE]

\* The picture is drawn again without the manufacturer's logo, which the state
\* still calls enabled; the new bytes replace the ones carried.
Redrawn(variant) ==
    [state EXCEPT !.variant = variant, !.revised = TRUE, !.bytes = Picture(run, variant, FALSE)]

\* An ad is reported on and never drawn again.  The upload is not guarded: an
\* error there ends the run.
review_branding ==
    /\ node = "review_branding"
    /\ \/ Goto("adapt_platforms") /\ UNCHANGED <<item, state, objects>>
       \/ /\ state.branded /\ state.format = "lifestyle"
          /\ \/ /\ \E variant \in _resolve_logo_placement : state' = Redrawn(variant)
                /\ objects' = [objects EXCEPT !.branded = Picture(run, state'.variant, FALSE)]
                /\ Goto("adapt_platforms") /\ UNCHANGED item
             \/ Failed /\ UNCHANGED <<state, objects>>
    /\ UNCHANGED <<run, row, approval>>

\* Previews of the picture that is carried, or of the background; none when a
\* preview fails.
generate_mockups ==
    /\ node = "generate_mockups" /\ Goto("store_content")
    /\ \/ UNCHANGED <<state, objects>>
       \/ /\ state.image
          /\ objects' = [objects EXCEPT !.mockups =
                             IF state.branded THEN state.bytes ELSE Raw(run)]
          /\ state' = [state EXCEPT !.mockups = TRUE]
    /\ UNCHANGED <<item, run, row, approval>>

----------------------------------------------------------------------------
(* The row *)

\* One transaction demotes the earlier row, closes its approval and inserts
\* the new one.
store_content ==
    /\ row' = [run |-> run, state |-> state, background |-> objects'.background = Raw(run)]
    /\ approval' = 0

\* The background is uploaded if it can be; a record that does not validate,
\* or cannot be stored, ends the run.
store_content_node ==
    /\ node = "store_content"
    /\ objects' \in {objects, [objects EXCEPT !.background =
                                   IF state.image THEN Raw(run) ELSE @]}
    /\ \/ store_content /\ Goto("mark_in_review") /\ UNCHANGED item
       \/ Failed /\ UNCHANGED <<row, approval>>
    /\ UNCHANGED <<run, state>>

\* After the row, the item, whatever its status; then an approval, if there
\* is a reviewer.
MarkInReview ==
    /\ node = "mark_in_review"
    /\ \/ item' = "in_review" /\ Goto("open_approval")
       \/ Failed
    /\ UNCHANGED <<run, state, objects, row, approval>>

OpenApproval ==
    /\ node = "open_approval"
    /\ approval' \in {0, run} /\ Goto("idle")
    /\ UNCHANGED <<item, run, state, objects, row>>

\* The worker dies, or the run is cut short between two steps by an error or
\* by its deadline; only a worker that lives releases the item.
Abort ==
    /\ node # "idle"
    /\ GotoOrFail("idle")
    /\ UNCHANGED <<run, state, objects, row, approval>>

\* A decision about the row whose approval is pending.
resolve_approval ==
    /\ approval # 0 /\ item = "in_review"
    /\ item' \in {"scheduled", "reworking"}
    /\ approval' = 0
    /\ UNCHANGED <<run, node, state, objects, row>>

Transitions ==
    [planned |-> {"queued"}, queued |-> {"working"}, working |-> {"in_review", "failed"},
     in_review |-> {"scheduled", "reworking"}, reworking |-> {"in_review"},
     scheduled |-> {"published", "failed"}, published |-> {}, failed |-> {"scheduled"}]

\* The status of an item that has content, set by hand; no approval is opened
\* or closed.  Any status can be reset, with content or without.
transition_status ==
    /\ \/ item' = "queued"
       \/ row.run > 0 /\ item' \in Transitions[item]
    /\ UNCHANGED <<run, node, state, objects, row, approval>>

NextRender ==
    \/ load_context \/ enrich_user_brief \/ generate_hook \/ generate_caption
    \/ generate_hashtags \/ source_product_image \/ enhance_image_prompt
    \/ generate_background \/ apply_branding \/ review_branding \/ adapt_platforms
    \/ generate_mockups \/ store_content_node \/ MarkInReview \/ OpenApproval
    \/ Abort \/ resolve_approval \/ transition_status

RenderSpec == InitRender /\ [][NextRender]_render_vars

----------------------------------------------------------------------------
(* Properties *)

\* Once a run has written its row, and until the next run starts, the paths
\* the row names hold that run's pictures, drawn as the row says, and the
\* previews show the picture that ships; and the approval that is open is
\* about that row.  "Replace the carried bytes with the re-render so
\* generate_mockups previews the image that was actually shipped" (nodes.py,
\* review_branding).  The manufacturer's logo is excepted when the review
\* drew the picture again.
ShipsWhatItShows ==
    row.run = run /\ run > 0 =>
        /\ row.state.branded =>
             /\ objects.branded.run = run
             /\ objects.branded.variant = row.state.variant
             /\ objects.branded.vendor = row.state.vendor \/ row.state.revised
             /\ objects.composed = Raw(run)
        /\ row.state.mockups =>
             objects.mockups = IF row.state.branded THEN objects.branded ELSE Raw(run)
        /\ row.background => objects.background = Raw(run)
        /\ approval \in {0, run}

=============================================================================

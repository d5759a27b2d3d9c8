------------------------------- MODULE ImageEdit -------------------------------
(***************************************************************************)
(* Changing the picture of one finished post: "regenerate", the logo        *)
(* editor's "rebrand" and a user's own upload (agents/worker.py             *)
(* _handle_image_regeneration, _handle_logo_rebrand; api/v1/content.py).    *)
(* The first two are accepted one at a time and run in the worker, on       *)
(* objects at fixed paths; the upload is an API request that reads the row, *)
(* stores its object and writes the row back.                               *)
(*                                                                         *)
(* A photo is a number: what the camera, or the image model, saw.  Objects  *)
(* hold photos, a branded object also says whether it wears the logo; the   *)
(* row names objects.                                                       *)
(***************************************************************************)
EXTENDS Integers

CONSTANTS
    MaxPhotos,  \* bound: photos there may be, the first render's included
    MaxAttempts \* bound: regenerations picked up

VARIABLES
    item_status, \* calendar_items.status
    err,      \* generation_metadata.regen_error: the attempt it is about, 0 for none
    edit_row, \* content.generation_metadata: base, shown and the upload key
    store,    \* what the objects hold
    photos,   \* photos there have been
    edit_job, \* the edit in flight
    attempt,  \* regenerations picked up
    upload    \* the upload request in flight: the row it read, or none

edit_vars == <<item_status, err, edit_row, store, photos, edit_job, attempt, upload>>

NoJob == [kind |-> "none", step |-> "none", prior |-> "none", made |-> 0, name |-> "none"]
NoUpload == [at |-> "none", read |-> [base |-> "none", shown |-> "none", uploaded |-> FALSE]]

\* A post as the content workflow leaves it; an older one has no clean base.
InitEdit ==
    /\ item_status = "in_review" /\ err = 0
    /\ edit_row \in {[base |-> b, shown |-> "branded", uploaded |-> FALSE] :
                      b \in {"none", "background"}}
    /\ store = [background |-> 1, branded |-> 1, upload |-> 0]
    /\ photos = 1 /\ edit_job = NoJob /\ attempt = 0 /\ upload = NoUpload

EditGoto(step) == edit_job' = [edit_job EXCEPT !.step = step]
EditAt(kind, step) == edit_job.kind = kind /\ edit_job.step = step

----------------------------------------------------------------------------
(* The API *)

\* The status is committed before the message is sent; a send that fails
\* leaves the item 'working'.
Accept(kind, from) ==
    /\ item_status \in from /\ edit_job = NoJob
    /\ item_status' = "working"
    /\ \/ edit_job' = [NoJob EXCEPT !.kind = kind, !.step = "sent", !.prior = item_status]
       \/ UNCHANGED edit_job
    /\ UNCHANGED <<err, edit_row, store, photos, attempt, upload>>

\* _IMAGE_REGEN_ALLOWED_STATUSES; 'failed' is entered elsewhere.
AskRegenerate == /\ photos < MaxPhotos /\ attempt < MaxAttempts
                 /\ Accept("regen", {"in_review", "reworking", "failed"})

AskRebrand == Accept("rebrand", {"in_review", "reworking"})

\* A reviewer sends the post back, or takes it up again.
DecideOnPost == /\ <<item_status, edit_job>> \in {<<"in_review", NoJob>>, <<"reworking", NoJob>>}
          /\ item_status' = (IF item_status = "in_review" THEN "reworking" ELSE "in_review")
          /\ UNCHANGED <<err, edit_row, store, photos, edit_job, attempt, upload>>

\* upload_content_image: refused for published and failed items only.
UploadRead ==
    /\ upload = NoUpload /\ item_status \notin {"published", "failed"} /\ photos < MaxPhotos
    /\ upload' = [at |-> "read", read |-> edit_row]
    /\ UNCHANGED <<item_status, err, edit_row, store, photos, edit_job, attempt>>

UploadStore ==
    /\ upload.at = "read"
    /\ photos' = photos + 1 /\ store' = [store EXCEPT !.upload = photos + 1]
    /\ upload' = [upload EXCEPT !.at = "stored"]
    /\ UNCHANGED <<item_status, err, edit_row, edit_job, attempt>>

\* The metadata the request read goes back whole, with the upload in
\* branded_image, which renders first.
UploadWrite ==
    /\ upload.at = "stored"
    /\ edit_row' = [upload.read EXCEPT !.shown = "upload", !.uploaded = TRUE]
    /\ upload' = NoUpload
    /\ UNCHANGED <<item_status, err, store, photos, edit_job, attempt>>

----------------------------------------------------------------------------
(* Regeneration in the worker; any step may raise, which goes to the record   *)

EditRaises == EditGoto("raised") /\ UNCHANGED <<item_status, err, edit_row, store, photos>>

ClearError == err' = 0

RegenClaim ==
    /\ EditAt("regen", "sent")
    /\ item_status' = "working" /\ ClearError /\ attempt' = attempt + 1
    /\ \/ EditGoto("context") \/ EditGoto("release")   \* the content row is gone
    /\ UNCHANGED <<edit_row, store, photos, upload>>

\* The row, the brand, the item and its product, whose photo is only noted.
RegenContext ==
    /\ EditAt("regen", "context")
    /\ (EditGoto("draw") \/ EditGoto("raised"))
    /\ UNCHANGED <<item_status, err, edit_row, store, photos, attempt, upload>>

\* A new scene from the prompt or the caption.
RegenDraw ==
    /\ EditAt("regen", "draw")
    /\ \/ /\ photos' = photos + 1
          /\ edit_job' = [edit_job EXCEPT !.step = "swap", !.made = photos + 1]
          /\ UNCHANGED <<item_status, err, edit_row, store>>
       \/ EditRaises
    /\ UNCHANGED <<attempt, upload>>

\* The product is swapped in, or the scene stays as it is; background.png is
\* replaced from here on.
RegenStore ==
    /\ EditAt("regen", "swap")
    /\ \/ /\ store' = [store EXCEPT !.background = edit_job.made]
          /\ EditGoto("brand")
          /\ UNCHANGED <<item_status, err, edit_row, photos>>
       \/ EditRaises
    /\ UNCHANGED <<attempt, upload>>

\* Logo and text, best-effort: without them the clean picture is shown.
RegenBrand ==
    /\ EditAt("regen", "brand")
    /\ \/ /\ store' = [store EXCEPT !.branded = edit_job.made]
          /\ edit_job' = [edit_job EXCEPT !.step = "mockups", !.name = "branded"]
       \/ /\ edit_job' = [edit_job EXCEPT !.step = "mockups", !.name = "background"]
          /\ UNCHANGED store
    /\ UNCHANGED <<item_status, err, edit_row, photos, attempt, upload>>

\* The branded picture is read back for the mockups; each mockup is guarded.
RegenMockups ==
    /\ EditAt("regen", "mockups")
    /\ \/ EditGoto("patch") /\ UNCHANGED <<item_status, err, edit_row, store, photos>>
       \/ EditRaises
    /\ UNCHANGED <<attempt, upload>>

\* Mutant: the row the handler read at its start is written back whole.
Overwrite(keys) == [base |-> "background", shown |-> keys.shown, uploaded |-> FALSE]

Merge(keys) == [edit_row EXCEPT !.base = IF "base" \in DOMAIN keys THEN keys.base ELSE @,
                           !.shown = keys.shown]

\* Only the handler's own keys, merged into what the row holds now; then a
\* pending approval is asked for when there is none (ReviewFlow).
RegenPatch ==
    /\ EditAt("regen", "patch")
    /\ \/ /\ edit_row' = Merge([base |-> "background", shown |-> edit_job.name])
          /\ EditGoto("release")
          /\ UNCHANGED <<item_status, err, store, photos>>
       \/ EditRaises
    /\ UNCHANGED <<attempt, upload>>

RegenRecord ==
    /\ EditAt("regen", "raised")
    /\ err' \in {err, attempt}
    /\ EditGoto("release")
    /\ UNCHANGED <<item_status, edit_row, store, photos, attempt, upload>>

\* A regeneration ends in review whatever came of it; a rebrand gives back the
\* status it was asked in.  Either releases its own 'working' only.
Release ==
    /\ edit_job.step = "release"
    /\ item_status' = (IF item_status # "working" THEN item_status
                  ELSE IF edit_job.kind = "regen" \/ edit_job.prior = "working"
                  THEN "in_review"
                  ELSE edit_job.prior)
    /\ edit_job' = NoJob
    /\ UNCHANGED <<err, edit_row, store, photos, attempt, upload>>

----------------------------------------------------------------------------
(* Rebranding in the worker *)

\* Nothing to start from: no row, or no clean base.
RebrandClaim ==
    /\ EditAt("rebrand", "sent")
    /\ item_status' = "working"
    /\ \/ edit_row.base = "background" /\ EditGoto("fetch")
       \/ EditGoto("release")
    /\ UNCHANGED <<err, edit_row, store, photos, attempt, upload>>

\* The base's bytes, the brand, the product's logos.
RebrandFetch ==
    /\ EditAt("rebrand", "fetch")
    /\ \/ edit_job' = [edit_job EXCEPT !.step = "overlay", !.made = store.background]
       \/ EditGoto("release")
    /\ UNCHANGED <<item_status, err, edit_row, store, photos, attempt, upload>>

\* Logo and text where the user put them; without a logo, or when the overlay
\* fails, the base itself is what the row will show.
RebrandOverlay ==
    /\ EditAt("rebrand", "overlay")
    /\ \/ /\ store' = [store EXCEPT !.branded = edit_job.made]
          /\ edit_job' = [edit_job EXCEPT !.step = "patch", !.name = "branded"]
       \/ /\ edit_job' = [edit_job EXCEPT !.step = "patch", !.name = "background"]
          /\ UNCHANGED store
    /\ UNCHANGED <<item_status, err, edit_row, photos, attempt, upload>>

\* Mockups, guarded as a whole, then the patch.
RebrandPatch ==
    /\ EditAt("rebrand", "patch")
    /\ \/ edit_row' = Merge([shown |-> edit_job.name]) \/ UNCHANGED edit_row
    /\ EditGoto("release")
    /\ UNCHANGED <<item_status, err, store, photos, attempt, upload>>

Api == AskRegenerate \/ AskRebrand \/ DecideOnPost \/ UploadRead \/ UploadStore \/ UploadWrite
Regenerate == RegenClaim \/ RegenContext \/ RegenDraw \/ RegenStore \/ RegenBrand
              \/ RegenMockups \/ RegenPatch \/ RegenRecord
Rebrand == RebrandClaim \/ RebrandFetch \/ RebrandOverlay \/ RebrandPatch
NextEdit == Api \/ Regenerate \/ Rebrand \/ Release
EditSpec == InitEdit /\ [][NextEdit]_edit_vars

----------------------------------------------------------------------------
\* The photo a reviewer sees.
Shown == store[edit_row.shown]

\* What a user uploaded is not forgotten: no patch of the worker, whatever it
\* read before the upload, takes the key away (_handle_image_regeneration step 4,
\* _handle_logo_rebrand).
UploadIsRemembered == [][edit_row.uploaded => edit_row'.uploaded]_edit_vars

\* What the editor's docstring promises: a rebrand places logo and text anew,
\* "so the underlying photo is unchanged" (_handle_logo_rebrand).
PhotoIsKept ==
    [][edit_job.kind = "rebrand" /\ edit_job' # edit_job => Shown' = Shown]_edit_vars

=============================================================================

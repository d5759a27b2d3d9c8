----------------------------- MODULE ImageRender -----------------------------
(***************************************************************************)
(* One picture for a post (agents shared/llm.py, image_text_guard.py,       *)
(* product_swap.py).  generate_image renders, has a vision model look for   *)
(* lettering nobody asked for, and renders again, keeping the least bad     *)
(* frame; a render is a cascade, the GPU at home first and the cloud models *)
(* after it.  Then the real product may be swapped into the blank pack.     *)
(* Every guard on the way fails open.                                       *)
(***************************************************************************)
EXTENDS Naturals, Sequences

CONSTANTS
    Retries,  \* guard.retry_cap()
    Models,   \* cloud models in the cascade
    MaxPolls  \* polls until the GPU job's deadline

VARIABLES
    at,      \* the step of the caller
    local,   \* whether the GPU is tried first
    keyed,   \* whether OPENAI_API_KEY is set
    product, \* whether there is a real product large enough to swap in
    model,   \* the cloud model being tried
    try,     \* sub_attempt with it; later the attempt of the swap
    job,     \* the GPU's side
    polls,   \* polls of the job
    frames,  \* the frames rendered, each as it is and as it was judged
    best,    \* best_ref, as an index in frames, 0 is None
    picture, \* what the caller has at the end, 0 is none
    pack,    \* the pack in the picture
    blind    \* whether the last look at a swap failed open

image_vars ==
    <<at, local, keyed, product, model, try, job, polls, frames, best, picture, pack, blind>>

SubAttempts == 3   \* _IMAGE_SUBATTEMPTS
SwapAttempts == 2  \* SWAP_ATTEMPTS
Severities == 0..2

First == IF local THEN "submit" ELSE "cloud"

InitImage ==
    /\ local \in BOOLEAN /\ keyed \in BOOLEAN /\ product \in BOOLEAN
    /\ at = First
    /\ model = 1 /\ try = 1 /\ job = "none" /\ polls = 0
    /\ frames = <<>> /\ best = 0 /\ picture = 0
    /\ pack = "blank" /\ blind = FALSE

----------------------------------------------------------------------------
(* _generate_image_once: the GPU, then the cloud *)

\* A frame comes out; what it shows is the generator's choice.  The verdict is
\* filled in by Inspect.
Rendered ==
    /\ \E severity \in Severities :
           frames' = Append(frames, [severity |-> severity, verdict |-> 0])
    /\ at' = "inspect"

FallBack == at' = "cloud" /\ UNCHANGED frames

SubmitLocal ==
    /\ at = "submit"
    /\ \/ job' = "running" /\ polls' = 0 /\ at' = "poll" /\ UNCHANGED frames
       \/ job' \in {"none", "running"} /\ FallBack /\ UNCHANGED polls
    /\ UNCHANGED <<local, keyed, product, model, try, best, picture, pack, blind>>

\* A job that times out is cancelled, if the gateway hears it; one whose poll
\* or result is lost is not.
PollLocal ==
    /\ at = "poll"
    /\ \/ job = "succeeded" /\ Rendered /\ UNCHANGED <<job, polls>>
       \/ job = "running" /\ polls < MaxPolls /\ polls' = polls + 1
             /\ UNCHANGED <<job, at, frames>>
       \/ job = "running" /\ polls = MaxPolls /\ job' \in {"cancelled", "running"}
             /\ FallBack /\ UNCHANGED polls
       \/ FallBack /\ UNCHANGED <<job, polls>>
    /\ UNCHANGED <<local, keyed, product, model, try, best, picture, pack, blind>>

\* The GPU's own doing.
Forge ==
    /\ job = "running" /\ job' \in {"succeeded", "failed"}
    /\ UNCHANGED <<at, local, keyed, product, model, try, polls, frames, best, picture, pack, blind>>

\* The next try of the same model after a transient error, the next model
\* after a permanent one or the last try.  When all models failed, or none was
\* tried for want of a key, the error leaves generate_image too, whatever frames
\* there were.
CloudTry ==
    /\ at = "cloud"
    /\ \/ keyed /\ Rendered /\ model' = 1 /\ try' = 1
       \/ keyed /\ try < SubAttempts /\ try' = try + 1 /\ UNCHANGED <<model, at, frames>>
       \/ keyed /\ model < Models /\ model' = model + 1 /\ try' = 1 /\ UNCHANGED <<at, frames>>
       \/ (keyed => model = Models) /\ at' = "end" /\ UNCHANGED <<model, try, frames>>
    /\ UNCHANGED <<local, keyed, product, job, polls, best, picture, pack, blind>>

----------------------------------------------------------------------------
(* generate_image: the guard around it *)

\* Mutant: the frame kept is the latest.
KeepLatest(seen) == Len(seen)

\* The earliest of the least severe frames.
Keep(seen) ==
    IF best = 0 \/ seen[Len(seen)].verdict < seen[best].verdict THEN Len(seen) ELSE best

Took(k) ==
    /\ picture' = k
    /\ at' = IF product THEN "swap" ELSE "end"
    /\ try' = 1

\* A look that fails calls the frame clean.
Inspect ==
    /\ at = "inspect"
    /\ LET k == Len(frames) IN
       \E verdict \in {frames[k].severity, 0} :
           LET seen == [frames EXCEPT ![k].verdict = verdict] IN
           /\ frames' = seen
           /\ IF verdict = 0 THEN Took(k) /\ UNCHANGED best
              ELSE /\ best' = Keep(seen)
                   /\ IF k = Retries + 1 THEN Took(best')
                      ELSE at' = First /\ UNCHANGED <<picture, try>>
    /\ UNCHANGED <<local, keyed, product, model, job, polls, pack, blind>>

----------------------------------------------------------------------------
(* swap_product_into_image *)

\* One edit.  Nothing, or an error, keeps the blank pack; so does the second
\* edit that invents copy.
SwapTry ==
    /\ at = "swap"
    /\ \/ at' = "end" /\ UNCHANGED <<try, pack, blind>>
       \/ at' = "end" /\ pack' = "faithful" /\ blind' \in BOOLEAN /\ UNCHANGED try
       \/ at' = "end" /\ pack' = "invented" /\ blind' = TRUE /\ UNCHANGED try
       \/ try < SwapAttempts /\ try' = try + 1 /\ UNCHANGED <<at, pack, blind>>
    /\ UNCHANGED <<local, keyed, product, model, job, polls, frames, best, picture>>

NextImage == SubmitLocal \/ PollLocal \/ Forge \/ CloudTry \/ Inspect \/ SwapTry

ImageSpec == InitImage /\ [][NextImage]_image_vars

----------------------------------------------------------------------------
(* Properties *)

\* A picture that leaves generate_image is, as far as the guard could see, no
\* worse than any frame it was chosen from, and a flagged one leaves only when
\* all the retries were spent; a picture is missing only after the last cloud
\* model failed on its last chance, or when the cloud could not be asked at all
\* (llm.py, generate_image; _generate_image_once raises without a key).
LeastBadLeaves ==
    at = "end" =>
        IF picture = 0 THEN (keyed => model = Models) /\ pack = "blank"
        ELSE /\ \A k \in 1..Len(frames) : frames[picture].verdict <= frames[k].verdict
             /\ frames[picture].verdict > 0 => Len(frames) = Retries + 1
             /\ \A k \in 1..(picture - 1) : frames[k].verdict > frames[picture].verdict

=============================================================================

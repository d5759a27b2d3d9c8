------------------------------ MODULE ReelFinish ------------------------------
(***************************************************************************)
(* From rendered footage to a stored reel (agents/workflows/video/nodes.py, *)
(* the second half of render_video, and store_video).  Three lanes share    *)
(* it: one clip ("single"), one native multishot file ("native") and clips  *)
(* to join ("chained").  Every ffmpeg pass after the join is best-effort:   *)
(* when it fails the reel goes on as it was, with the reason in video_meta. *)
(* The film is what its viewer gets: how long it is, what is burned into    *)
(* it, whether the end card is on it, what it sounds like and how far its   *)
(* music reaches.                                                           *)
(***************************************************************************)
EXTENDS Captions

CONSTANTS
    MaxShots,   \* rendered shots of a reel
    Lengths,    \* planned lengths of a shot
    Clips,      \* lengths a single-call clip comes back with
    Wordings    \* lines a shot may have, none of them the call to action

MinShot == 60        \* MIN_SHOT_RENDER_S

\* Every plan is fitted before its lane is chosen.
ASSUME FinishAssumption ==
    /\ MaxShots \in Nat /\ Clips \subseteq Nat
    /\ Lengths \subseteq Nat /\ \A d \in Lengths : d >= MinShot
    /\ AskLine \notin Wordings

VARIABLES
    film_at,        \* the next step
    lane, ask, tools, \* lane, a CTA in the plan, ffmpeg installed
    film_shots, footage,         \* fitted shots; what the raw footage really lasts
    timed,   \* lengths the captions are timed by
    known,     \* final_duration: the length the code goes by, 0 when no probe answered
    card_made,      \* the end card exists in the work directory
    film, meta,\* video_bytes and video_meta
    film_job, film_content, film_item      \* the rows store_video writes

given == <<lane, ask, tools, film_shots>>
film_rows == <<film_job, film_content, film_item>>
finish_vars == <<film_at, given, footage, timed, known, card_made, film, meta, film_rows>>

EndCard == 48        \* _END_CARD_S
Planned == [i \in 1..Len(film_shots) |-> film_shots[i].dur]
NoMeta == [overlay |-> "none", end_card |-> "none", audio |-> FALSE, length |-> 0]

\* Plans as they reach the render: a beat split in two keeps its line.
FittedPlans ==
    {s \in UNION {[1..n -> [of : 1..MaxShots, text : Wordings, dur : Lengths]]
                  : n \in 1..MaxShots} :
        /\ s[1].of = 1
        /\ \A i \in 2..Len(s) : \/ s[i].of = s[i - 1].of + 1
                                \/ s[i] = s[i - 1]}

InitFinish ==
    /\ lane \in {"single", "native", "chained"}
    /\ film_shots \in {s \in FittedPlans : lane = "single" \/ Len(s) > 1}
    /\ footage \in IF lane = "single" THEN Clips ELSE {(3 * Total(Planned)) \div 4}
    /\ ask \in BOOLEAN
    /\ tools \in BOOLEAN /\ (lane = "single" \/ tools)
    /\ \E sound \in {"none", "ambient"} :
           film = [length |-> footage, burned |-> <<>>, card |-> FALSE, music |-> 0,
                   sound |-> sound]
    /\ film_at = CASE lane = "single" -> "guard" [] lane = "native" -> "probe"
              [] lane = "chained" -> "join"
    /\ known = (IF lane = "single" THEN footage ELSE 0)
    /\ timed = Planned /\ card_made = FALSE /\ meta = NoMeta
    /\ film_job = "none" /\ film_content = "none" /\ film_item = "rendering"

\* _fail: the item and a failed job, each written best-effort.
FailFilm ==
    /\ film_at' = "end"
    /\ film_item' \in {film_item, "failed"}
    /\ film_job' \in {film_job, "failed"}

----------------------------------------------------------------------------
(* The raw reel *)

\* Clips that are not the forge's, or not at the master spec, are brought to
\* it; then all are joined, re-encoded when a copy fails.  Each clip's probe,
\* and the probe of the joined file, may give no answer.  A joined file that
\* comes back short is refused when its probe answers.
JoinClips ==
    /\ film_at = "join"
    /\ \/ FailFilm /\ UNCHANGED <<film, footage, known, timed>>
       \/ \E clips_answer \in BOOLEAN, file_answers \in BOOLEAN,
             length \in {footage, footage \div 3} :
             /\ timed' = IF clips_answer THEN Distribute(Planned, footage) ELSE Planned
             /\ IF file_answers /\ 2 * length < Total(timed')
                THEN FailFilm /\ UNCHANGED <<film, footage, known>>
                ELSE /\ known' = (IF file_answers THEN length ELSE 0)
                     /\ footage' = length /\ film' = [film EXCEPT !.length = length]
                     /\ film_at' = "guard"
                     /\ UNCHANGED <<film_job, film_item>>
    /\ UNCHANGED <<given, card_made, meta, film_content>>

\* A native file's cuts are where the model put them: none, as a rule, or near
\* a planned boundary, or somewhere else.
CutsOf(w) ==
    LET b == w[1] IN {{}, {b - 15}, {b + SnapTolerance}, {b + 25}, {b, b + w[2] + 10}}

\* A native reel that is too short, or any exception up to its end, leaves the
\* lane for the chained one (VideoReel); here the file is long enough.
ProbeNative ==
    /\ film_at = "probe"
    /\ \E answers \in BOOLEAN :
          LET w == IF answers THEN Distribute(Planned, footage) ELSE Planned
          IN /\ known' = (IF answers THEN footage ELSE 0)
             /\ \E cuts \in CutsOf(w) : timed' = NativeWindows(w, cuts)
    /\ film_at' = "card"
    /\ UNCHANGED <<given, footage, card_made, film, meta, film_rows>>

\* Lettering the brief bans is recorded, never acted on, in these two lanes.
LabelGuard ==
    /\ film_at = "guard" /\ film_at' = "card"
    /\ UNCHANGED <<given, footage, known, timed, card_made, film, meta, film_rows>>

----------------------------------------------------------------------------
(* Picture: the card first, since it carries the call to action *)

BuildEndCard ==
    /\ film_at = "card" /\ film_at' = "burn"
    /\ card_made' \in {FALSE, ask /\ tools}
    /\ meta' = [meta EXCEPT !.end_card = IF ~ask THEN "skipped"
                                         ELSE IF card_made' THEN "ok" ELSE "failed"]
    /\ UNCHANGED <<given, footage, known, timed, film, film_rows>>

\* The single lane spreads the plan over what the clip's probe says.
BurnWindows ==
    IF lane # "single" THEN {timed}
    ELSE {Distribute(Planned, footage), Distribute(Planned, Total(Planned))}

HasText == (ask /\ ~card_made) \/ \E i \in 1..Len(film_shots) : film_shots[i].text # ""

\* A grade can make the pass run without a line.
BurnOverlays ==
    /\ film_at = "burn" /\ film_at' = "attach"
    /\ \E w \in BurnWindows, graded \in BOOLEAN :
          LET events == OverlayEvents(film_shots, w, ask /\ ~card_made)
              wanted == \/ HasText /\ (~tools \/ events # <<>>)
                        \/ graded /\ lane # "single"
          IN \/ /\ ~wanted /\ meta' = [meta EXCEPT !.overlay = "skipped"]
                /\ UNCHANGED <<film, timed>>
             \/ /\ wanted /\ meta' = [meta EXCEPT !.overlay = "failed"]
                /\ UNCHANGED <<film, timed>>
             \/ /\ wanted /\ tools
                /\ film' = [film EXCEPT !.burned = events]
                /\ meta' = [meta EXCEPT !.overlay = "ok"]
                /\ timed' = w
    /\ UNCHANGED <<given, footage, known, card_made, film_rows>>

\* What is known of a reel that cannot be probed is what was planned of a native
\* one, and nothing of a chained one.
BareLength ==
    IF known # 0 THEN known ELSE IF lane = "native" THEN Total(Planned) ELSE 0

\* Mutant: the card is not counted.
SaidLengthBare(attached) == BareLength

\* What the lane says the reel lasts, with the card on it or without.
SaidLength(attached) == BareLength + IF attached THEN EndCard ELSE 0

AttachFailure(m) == [m EXCEPT !.end_card = "failed"]

\* Copy, then re-encode; when both fail the reel goes on without its card.
AttachEndCard ==
    /\ film_at = "attach" /\ film_at' = "assemble"
    /\ \/ /\ ~card_made
          /\ meta' = [meta EXCEPT !.length = SaidLength(FALSE)] /\ UNCHANGED film
       \/ /\ card_made
          /\ film' = [film EXCEPT !.card = TRUE, !.length = @ + EndCard]
          /\ meta' = [meta EXCEPT !.length = SaidLength(TRUE)]
       \/ /\ card_made
          /\ meta' = [AttachFailure(meta) EXCEPT !.length = SaidLength(FALSE)]
          /\ UNCHANGED film
    /\ UNCHANGED <<given, footage, known, timed, card_made, film_rows>>

----------------------------------------------------------------------------
(* Sound *)

\* The shots' own sound laid again as one level track, its last seconds under
\* the card.  Neither success nor failure changes what the film is.
AssembleAudio ==
    /\ film_at = "assemble" /\ film_at' = "audio"
    /\ UNCHANGED <<given, footage, known, timed, card_made, film, meta, film_rows>>

\* _has_real_audio: only a measured signal counts.
HasRealAudio(heard) == heard = "ambient"

\* What the pass goes by: the lane's length, or, with none, the file's own.
PassLength == IF meta.length > 0 THEN {meta.length} ELSE {film.length, 0}

\* _audio_finish_cmd: the bed is cut to the length given, and the file to the
\* shorter of picture and sound.
Mixed(keep, bed, d) ==
    [film EXCEPT !.sound = IF ~bed THEN @ ELSE IF keep THEN "mix" ELSE "bed",
                 !.music = IF bed THEN d ELSE 0,
                 !.length = IF keep THEN @ ELSE Least(@, d)]

\* Measure, find a bed, search the gain, render.  Every way out but the last
\* leaves the film as it was.
FinishAudio ==
    /\ film_at = "audio" /\ film_at' = "store"
    /\ \E heard \in {film.sound, "unmeasured"}, bed \in BOOLEAN, d \in PassLength :
          LET keep == HasRealAudio(heard)
              audible(b) == meta' = [meta EXCEPT !.audio = b]
          IN \/ /\ ~tools /\ audible(FALSE) /\ UNCHANGED film
             \/ /\ tools /\ audible(FALSE) /\ UNCHANGED film           \* an exception
             \/ /\ tools /\ d = 0 /\ audible(keep) /\ UNCHANGED film   \* unknown duration
             \/ /\ tools /\ d > 0 /\ ~bed /\ ~keep
                /\ audible(FALSE) /\ UNCHANGED film                    \* silent
             \/ /\ tools /\ d > 0 /\ (bed \/ keep)
                /\ audible(keep) /\ UNCHANGED film                     \* the render fails
             \/ /\ tools /\ d > 0 /\ (bed \/ keep)
                /\ audible(TRUE) /\ film' = Mixed(keep, bed, d)
    /\ UNCHANGED <<given, footage, known, timed, card_made, film_rows>>

----------------------------------------------------------------------------
(* Storing *)

\* final.mp4, thumb.jpg, the content row, video_jobs (a second render under one
\* key refreshes the row of the first), media_assets, the item; any of them may
\* fail, and what was written before stays.
StoreFilm ==
    /\ film_at = "store"
    /\ \/ FailFilm /\ UNCHANGED film_content
       \/ FailFilm /\ film_content' = "in_review"
       \/ /\ film_content' = "in_review"
          /\ film_job' = "succeeded" /\ film_at' = "end" /\ film_item' \in {film_item, "failed"}
       \/ film_content' = "in_review" /\ film_job' = "succeeded" /\ film_item' = "in_review" /\ film_at' = "end"
    /\ UNCHANGED <<given, footage, known, timed, card_made, film, meta>>

Render == ProbeNative \/ JoinClips \/ LabelGuard \/ BuildEndCard \/ BurnOverlays
          \/ AttachEndCard \/ AssembleAudio \/ FinishAudio
NextFinish == Render \/ StoreFilm
FinishSpec == InitFinish /\ [][NextFinish]_finish_vars

----------------------------------------------------------------------------
Lines == film.burned
AskEvents == {i \in 1..Len(Lines) : Lines[i].style = "CTA"}

\* A call to action that is burned into the footage can be read: whatever the
\* lines before it need, it is the last event and it stays for the readable
\* minimum when the reel is long enough to hold one line (_overlay_events).
AskCanBeRead ==
    (meta.overlay = "ok" /\ ask /\ ~card_made /\ Total(timed) >= Dwell) =>
        \E i \in AskEvents : /\ i = Len(Lines)
                             /\ Lines[i].end - Lines[i].start >= MinOnScreen

\* At most a hook, one proof line and the call to action are burned, one after
\* the other, none of them twice (_select_caption_beats, _overlay_events).
LinesAreBeats ==
    /\ Len(Lines) <= 3
    /\ \A i, j \in 1..Len(Lines) : i < j =>
           Lines[i].end < Lines[j].start /\ Lines[i].text # Lines[j].text
    /\ Lines # <<>> => Lines[1].start >= PadIn /\ Last(Lines).end < Total(timed)

\* A reel whose length the code could measure keeps it: no pass after the join
\* cuts footage or card away (_audio_finish_cmd's -shortest).
KeepsItsLength ==
    (film_at = "store" /\ known > 0) =>
        film.length = footage + (IF film.card THEN EndCard ELSE 0)

\* What is burned over the footage fits it: every line has its place and the
\* last one, when it asks for something, can be read (_burn_overlays).
CaptionsFit == AskCanBeRead /\ LinesAreBeats

=============================================================================

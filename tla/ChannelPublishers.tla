-------------------------- MODULE ChannelPublishers --------------------------
(***************************************************************************)
(* One publish attempt of publish_direct (backend services/publish_service  *)
(* .py, services/publishers): the publisher of the item's channel walks     *)
(* through its platform's requests, and whatever happens becomes one        *)
(* outcome, published or failed.  PublishPipeline knows an attempt only by  *)
(* that outcome and by whether the post is out; here is why they differ.    *)
(*                                                                         *)
(* A flow is the sequence of the requests of one channel and kind of media. *)
(* One of them puts the post out; on some platforms the media is processed  *)
(* before it, on others after it.  An answer that is lost, or that lacks    *)
(* the id, fails the attempt whatever the platform did.  Sizes are in MB.   *)
(***************************************************************************)
EXTENDS Naturals, Sequences

CONSTANTS
    Sizes,          \* sizes of the videos
    ChannelMaxPolls \* status polls until the deadline of a wait

ASSUME ChannelAssumption == Sizes \subseteq Nat /\ ChannelMaxPolls \in Nat

VARIABLES
    flow,          \* the channel and kind of media
    channel_at,    \* the request the attempt is at
    size,          \* bytes of the video
    channel_parts, \* ranges uploaded
    channel_polls, \* polls of the current wait
    token_live,    \* whether TikTok would take the access token
    media,         \* the platform's side: the state of processing
    posted,        \* the platform's side: whether the post was accepted
    answered,      \* whether the acceptance was read
    outcome        \* PublishOutcome.status

platform == <<media, posted, answered>>
attempt_vars == <<flow, channel_at, size, channel_parts, channel_polls, token_live,
                  platform, outcome>>

\* The requests of each flow, in order.  "close" starts the processing the
\* platform does before a post, "confirm" watches the one it does after it.
InstagramImage == <<"check", "ask", "commit">>
InstagramReel  == <<"check", "best_effort", "close", "wait", "commit">>
FacebookPhoto  == <<"check", "best_effort", "commit">>
FacebookReel   == <<"check", "best_effort", "bytes", "ask", "ask", "commit", "confirm">>
LinkedInText   == <<"check", "commit">>
LinkedInImage  == <<"bytes", "check", "ask", "ask", "commit">>
LinkedInVideo  == <<"bytes", "check", "ask", "parts", "close", "wait", "commit">>
XText          == <<"check", "commit">>
XImage         == <<"check", "bytes", "ask", "commit">>
XVideo         == <<"check", "bytes", "ask", "parts", "close", "wait", "commit">>
TikTok         == <<"check", "bytes", "init", "parts", "confirm">>
YouTube        == <<"bytes", "check", "ask", "ask", "commit">>
Blog           == <<"check", "bytes", "ask", "commit">>
BlogText       == <<"check", "commit">>
Teams          == <<"check", "commit">>

Flows ==
    [instagram_image |-> InstagramImage, instagram_reel |-> InstagramReel,
     facebook_photo |-> FacebookPhoto, facebook_reel |-> FacebookReel,
     linkedin_text |-> LinkedInText, linkedin_image |-> LinkedInImage,
     linkedin_video |-> LinkedInVideo, x_text |-> XText, x_image |-> XImage,
     x_video |-> XVideo, tiktok |-> TikTok, youtube |-> YouTube,
     blog |-> Blog, blog_text |-> BlogText, teams |-> Teams]

Step == IF channel_at \in DOMAIN Flows[flow] THEN Flows[flow][channel_at] ELSE "end"
AtStep(step) == outcome = "none" /\ Step = step

\* Past the last request the attempt is published.
ToNext ==
    /\ channel_at' = channel_at + 1
    /\ outcome' = IF channel_at = Len(Flows[flow]) THEN "published" ELSE outcome

FailAttempt == outcome' = "failed" /\ UNCHANGED channel_at

InitAttempt ==
    /\ flow \in DOMAIN Flows /\ channel_at = 1
    /\ size \in IF flow \in {"linkedin_video", "x_video", "tiktok"} THEN Sizes ELSE {0}
    /\ channel_parts = <<>> /\ channel_polls = 0
    /\ token_live \in IF flow = "tiktok" THEN BOOLEAN ELSE {TRUE}
    /\ media = "none" /\ posted = FALSE /\ answered = FALSE
    /\ outcome = "none"

----------------------------------------------------------------------------
(* What comes before the post *)

\* Credentials and media are there or not.
CheckConfig ==
    /\ AtStep("check") /\ (ToNext \/ FailAttempt)
    /\ UNCHANGED <<flow, size, channel_parts, channel_polls, token_live, platform>>

\* The bytes are loaded from the object store; an error there is caught last,
\* in publish_direct.
LoadBytes ==
    /\ AtStep("bytes") /\ (ToNext \/ FailAttempt)
    /\ UNCHANGED <<flow, size, channel_parts, channel_polls, token_live, platform>>

\* The page token and the quota check stop nothing.
BestEffort ==
    /\ AtStep("best_effort") /\ ToNext
    /\ UNCHANGED <<flow, size, channel_parts, channel_polls, token_live, platform>>

Ask ==
    /\ AtStep("ask") /\ (ToNext \/ FailAttempt)
    /\ UNCHANGED <<flow, size, channel_parts, channel_polls, token_live, platform>>

\* TikTok's init with an expired token: one refresh, which must give a token,
\* and the init once more.
InitPost ==
    /\ AtStep("init")
    /\ \/ token_live /\ ToNext /\ UNCHANGED token_live
       \/ ~token_live /\ token_live' = TRUE /\ UNCHANGED <<channel_at, outcome>>
       \/ FailAttempt /\ UNCHANGED token_live
    /\ UNCHANGED <<flow, size, channel_parts, channel_polls, platform>>

MaxSingleChunk == 64  \* MAX_SINGLE_CHUNK_SIZE
TikTokChunk == 10     \* CHUNK_SIZE
XChunk == 4           \* UPLOAD_CHUNK_SIZE
LinkedInChunk == 4    \* the ranges LinkedIn asks for

Lower(a, b) == IF a < b THEN a ELSE b
Sent == IF channel_parts = <<>> THEN 0 ELSE channel_parts[Len(channel_parts)][2]

LastPart ==
    IF flow = "tiktok"
    THEN size <= MaxSingleChunk \/ Len(channel_parts) + 1 = size \div TikTokChunk
    ELSE Sent + (IF flow = "x_video" THEN XChunk ELSE LinkedInChunk) >= size

\* TikTok's last chunk takes the remainder; the others go on to the end.
ChunkEnd ==
    IF flow = "tiktok"
    THEN IF LastPart THEN size ELSE Sent + TikTokChunk
    ELSE Lower(size, Sent + IF flow = "x_video" THEN XChunk ELSE LinkedInChunk)

\* One chunk.  TikTok posts what it was sent once the last one arrived.
UploadPart ==
    /\ AtStep("parts")
    /\ \/ /\ channel_parts' = Append(channel_parts, <<Sent, ChunkEnd>>)
          /\ IF LastPart THEN ToNext ELSE UNCHANGED <<channel_at, outcome>>
       \/ /\ channel_parts' \in {channel_parts, Append(channel_parts, <<Sent, ChunkEnd>>)}
          /\ FailAttempt
    /\ IF flow = "tiktok" /\ LastPart /\ channel_parts' # channel_parts
       THEN /\ posted' = TRUE /\ media' = "processing"
            /\ answered' = (outcome' = "none")
       ELSE UNCHANGED platform
    /\ UNCHANGED <<flow, size, channel_polls, token_live>>

\* The request after which the platform processes the media, or has nothing
\* to process.
CloseUpload ==
    /\ AtStep("close")
    /\ \/ ToNext /\ media' \in {"processing", "ready"}
       \/ FailAttempt /\ media' \in {"none", "processing"}
    /\ UNCHANGED <<flow, size, channel_parts, channel_polls, token_live, posted, answered>>

----------------------------------------------------------------------------
(* Waiting, and the post *)

\* Mutant: a wait that gives up goes on.
GivesUpAndGoesOn == channel_polls = ChannelMaxPolls /\ ToNext

\* The deadline of poll_until, or of LinkedIn's own loop.
GivesUp == channel_polls = ChannelMaxPolls /\ FailAttempt

\* A status that cannot be read fails the attempt.
WaitUntilProcessed ==
    /\ AtStep("wait")
    /\ \/ media = "ready" /\ ToNext /\ UNCHANGED channel_polls
       \/ media = "broken" /\ FailAttempt /\ UNCHANGED channel_polls
       \/ media = "processing" /\ channel_polls < ChannelMaxPolls
             /\ channel_polls' = channel_polls + 1
             /\ UNCHANGED <<channel_at, outcome>>
       \/ media = "processing" /\ GivesUp /\ UNCHANGED channel_polls
       \/ FailAttempt /\ UNCHANGED channel_polls
    /\ UNCHANGED <<flow, size, channel_parts, token_live, platform>>

\* The request that puts the post out, if the platform accepts it; a Teams
\* card has no id to miss.
Commit ==
    /\ AtStep("commit")
    /\ \/ /\ posted' = TRUE
          /\ media' = IF flow = "facebook_reel" THEN "processing" ELSE media
          /\ \/ answered' = TRUE /\ ToNext
             \/ answered' = FALSE /\ FailAttempt
       \/ FailAttempt /\ UNCHANGED platform
    /\ UNCHANGED <<flow, size, channel_parts, channel_polls, token_live>>

\* TikTok must confirm; a reel that Facebook took is published unless it says
\* otherwise.
Confirm ==
    /\ AtStep("confirm")
    /\ \/ media = "ready" /\ ToNext /\ UNCHANGED channel_polls
       \/ media = "broken" /\ FailAttempt /\ UNCHANGED channel_polls
       \/ media = "processing" /\ channel_polls < ChannelMaxPolls
             /\ channel_polls' = channel_polls + 1
             /\ UNCHANGED <<channel_at, outcome>>
       \/ media = "processing" /\ flow = "tiktok" /\ GivesUp /\ UNCHANGED channel_polls
       \/ flow = "tiktok" /\ FailAttempt /\ UNCHANGED channel_polls
       \/ flow = "facebook_reel" /\ ToNext /\ UNCHANGED channel_polls
    /\ UNCHANGED <<flow, size, channel_parts, token_live, platform>>

\* The platform's own doing.
Processed ==
    /\ media = "processing"
    /\ media' \in {"ready", "broken"}
    /\ UNCHANGED <<flow, channel_at, size, channel_parts, channel_polls, token_live,
                   posted, answered, outcome>>

Attempt ==
    \/ CheckConfig \/ LoadBytes \/ BestEffort \/ Ask \/ InitPost
    \/ UploadPart \/ CloseUpload \/ WaitUntilProcessed \/ Commit \/ Confirm

NextAttempt == Attempt \/ Processed
ChannelSpec == InitAttempt /\ [][NextAttempt]_attempt_vars

----------------------------------------------------------------------------
(* Properties *)

\* The ranges follow one another from the first byte to the last.
WholeUpload ==
    channel_parts # <<>> =>
        /\ channel_parts[1][1] = 0 /\ channel_parts[Len(channel_parts)][2] = size
        /\ \A i \in 1..(Len(channel_parts) - 1) :
              channel_parts[i][2] = channel_parts[i + 1][1]

\* An item recorded as published was accepted by its platform with the whole
\* file and, but for a Facebook reel whose status could not be read, with the
\* media processed; and an attempt recorded as failed although its acceptance
\* was read is one the platform rejected afterwards, or a TikTok post nobody
\* could confirm.
OutcomeIsTrue ==
    /\ outcome = "published" =>
         /\ posted /\ answered /\ WholeUpload
         /\ media \in {"none", "ready"} \/ flow = "facebook_reel"
    /\ outcome = "failed" /\ answered => media = "broken" \/ flow = "tiktok"

=============================================================================

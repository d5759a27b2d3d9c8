------------------------------- MODULE MCReview -------------------------------
(***************************************************************************)
(* Three instances of ReviewFlow in one run: a post under races (the module *)
(* itself, with the constants of the configuration), a post and the edits   *)
(* of its image under fair scheduling (Calm), and a reel that is rendered    *)
(* again (Film).  They have the same variables; a behaviour is one of one    *)
(* instance, chosen at the start.                                           *)
(***************************************************************************)
EXTENDS ReviewFlow

CONSTANTS OneRequest, TwoJobs

\* A client of the API may put an item in review whatever it shows.
AnyToReview == Statuses \X {"in_review"}

VARIABLE which
review_vars == <<which, vars>>

Calm == INSTANCE ReviewFlow WITH
    Requests <- OneRequest, Jobs <- TwoJobs,
    Ops <- {"decide", "patch", "regen", "rebrand"}, Puts <- {},
    Duplicates <- FALSE, Faults <- {"worker", "timeout", "ask", "edit"},
    MaxEditions <- 3, MaxApprovals <- 4

Film == INSTANCE ReviewFlow WITH
    Requests <- OneRequest, IsReel <- TRUE,
    Ops <- {"decide", "render", "publish"}, Puts <- {},
    Duplicates <- FALSE, Faults <- {"ask"}, MaxEditions <- 5, MaxApprovals <- 6

ReviewInit ==
    \/ which = "races" /\ Init
    \/ which = "calm" /\ Calm!Init
    \/ which = "film" /\ Film!Init

ReviewNext ==
    /\ UNCHANGED which
    /\ \/ which = "races" /\ Next
       \/ which = "calm" /\ Calm!Next
       \/ which = "film" /\ Film!Next

\* The fairness of ReviewFlow, for the instance whose liveness is checked.
InCalm(A) == which = "calm" /\ A /\ UNCHANGED which

CalmIsFair ==
    /\ \A r \in OneRequest : WF_review_vars(InCalm(Calm!RequestStep(r)))
    /\ \A j \in TwoJobs :
         /\ WF_review_vars(InCalm(Calm!JobStep(j)))
         /\ SF_review_vars(InCalm(Calm!PickUp(j) \/ Calm!PickUpEdit(j)))
    /\ WF_review_vars(InCalm(Calm!SendGeneration))

ReviewSpec == ReviewInit /\ [][ReviewNext]_review_vars /\ CalmIsFair

----------------------------------------------------------------------------
(* Properties of ReviewFlow, each for the instance it is checked of; its      *)
(* NothingAutoPublishes is checked of all three.                             *)

\* The post at rest in review has an approval that can be decided (ReviewIsOpen).
PostIsOpen == which = "calm" => Calm!ReviewIsOpen

\* No job takes the post away from the publisher (WorkerRespectsDecision).
PostStaysDecided ==
    [][(which = "calm" /\ faults' = 0 /\ job' # job /\ req' = req
          /\ status \in {"scheduled", "publishing", "published"})
         => status' = status]_review_vars

\* The post leaves 'working' and 'rendering', whatever fails (WorkIsLeft).
PostLeavesWork ==
    (which = "calm" /\ status \in {"working", "rendering"})
      ~> status \notin {"working", "rendering"}

\* The queued post is eventually generated or failed (QueuedIsServed).
PostIsServed == (which = "calm" /\ status = "queued") ~> status # "queued"

\* An open approval of the reel is about its current row (NoStaleApproval).
ReelApprovalIsCurrent == which = "film" => Film!NoStaleApproval

=============================================================================

------------------------------- MODULE MCStages -------------------------------
(***************************************************************************)
(* The machines that share no state with one another, model-checked in one *)
(* run: a behaviour is one of one machine, chosen at the start, and the    *)
(* variables of the others keep their first values.                        *)
(***************************************************************************)
EXTENDS BCClient, CalendarPlan, Catalogue, ChannelPublishers, ContentRender,
        ImageEdit, ImageRender, Learning, ReelFinish, Research,
        Strategy, VideoCall, VideoReel

VARIABLE which

Machines ==
    {"channel", "image", "content", "plan", "reel", "call", "finish", "edit",
     "learn", "strat", "rival", "stock", "bc"}

\* A machine that may start in several ways starts in one of them when it is
\* not the one that is run.
StagesInit ==
    /\ which \in Machines
    /\ InitAttempt
    /\ which = "channel" \/
          (flow = "teams")
    /\ InitImage
    /\ which = "image" \/
          (local /\ keyed /\ product)
    /\ InitRender
    /\ InitPlan
    /\ which = "plan" \/
          (items = {})
    /\ InitReel
    /\ which = "reel" \/
          (tier = "standard")
    /\ InitCall
    /\ which = "call" \/
          (~hero /\ ~segmented /\ start_frame = "none" /\ bounded /\ \A p \in DOMAIN keys : keys[p] = "good")
    /\ InitFinish
    /\ which = "finish" \/
          (lane = "single" /\ film_shots = <<[of |-> 1, text |-> "", dur |-> CHOOSE d \in Lengths : TRUE]>>
             /\ ~ask /\ ~tools /\ film.sound = "none")
    /\ InitEdit
    /\ which = "edit" \/
          (edit_row.base = "none")
    /\ InitLearn
    /\ InitStrategy
    /\ which = "strat" \/
          (unattended /\ auto /\ research)
    /\ InitResearch
    /\ InitCatalogue
    /\ which = "stock" \/
          (included /\ filter /\ item_card)
    /\ InitClient

StagesNext ==
    /\ UNCHANGED which
    /\ \/ /\ which = "channel" /\ NextAttempt
          /\ UNCHANGED <<image_vars, render_vars, plan_vars, reel_vars,
                         call_vars, finish_vars, edit_vars, learn_vars,
                         strategy_vars, research_vars, catalogue_vars, bc_vars>>
       \/ /\ which = "image" /\ NextImage
          /\ UNCHANGED <<attempt_vars, render_vars, plan_vars, reel_vars,
                         call_vars, finish_vars, edit_vars, learn_vars,
                         strategy_vars, research_vars, catalogue_vars, bc_vars>>
       \/ /\ which = "content" /\ NextRender
          /\ UNCHANGED <<attempt_vars, image_vars, plan_vars, reel_vars,
                         call_vars, finish_vars, edit_vars, learn_vars,
                         strategy_vars, research_vars, catalogue_vars, bc_vars>>
       \/ /\ which = "plan" /\ NextPlan
          /\ UNCHANGED <<attempt_vars, image_vars, render_vars, reel_vars,
                         call_vars, finish_vars, edit_vars, learn_vars,
                         strategy_vars, research_vars, catalogue_vars, bc_vars>>
       \/ /\ which = "reel" /\ NextReel
          /\ UNCHANGED <<attempt_vars, image_vars, render_vars, plan_vars,
                         call_vars, finish_vars, edit_vars, learn_vars,
                         strategy_vars, research_vars, catalogue_vars, bc_vars>>
       \/ /\ which = "call" /\ NextCall
          /\ UNCHANGED <<attempt_vars, image_vars, render_vars, plan_vars,
                         reel_vars, finish_vars, edit_vars, learn_vars,
                         strategy_vars, research_vars, catalogue_vars, bc_vars>>
       \/ /\ which = "finish" /\ NextFinish
          /\ UNCHANGED <<attempt_vars, image_vars, render_vars, plan_vars,
                         reel_vars, call_vars, edit_vars, learn_vars,
                         strategy_vars, research_vars, catalogue_vars, bc_vars>>
       \/ /\ which = "edit" /\ NextEdit
          /\ UNCHANGED <<attempt_vars, image_vars, render_vars, plan_vars,
                         reel_vars, call_vars, finish_vars, learn_vars,
                         strategy_vars, research_vars, catalogue_vars, bc_vars>>
       \/ /\ which = "learn" /\ NextLearn
          /\ UNCHANGED <<attempt_vars, image_vars, render_vars, plan_vars,
                         reel_vars, call_vars, finish_vars, edit_vars,
                         strategy_vars, research_vars, catalogue_vars, bc_vars>>
       \/ /\ which = "strat" /\ NextStrategy
          /\ UNCHANGED <<attempt_vars, image_vars, render_vars, plan_vars,
                         reel_vars, call_vars, finish_vars, edit_vars,
                         learn_vars, research_vars, catalogue_vars, bc_vars>>
       \/ /\ which = "rival" /\ NextResearch
          /\ UNCHANGED <<attempt_vars, image_vars, render_vars, plan_vars,
                         reel_vars, call_vars, finish_vars, edit_vars,
                         learn_vars, strategy_vars, catalogue_vars, bc_vars>>
       \/ /\ which = "stock" /\ NextCatalogue
          /\ UNCHANGED <<attempt_vars, image_vars, render_vars, plan_vars,
                         reel_vars, call_vars, finish_vars, edit_vars,
                         learn_vars, strategy_vars, research_vars, bc_vars>>
       \/ /\ which = "bc" /\ NextClient
          /\ UNCHANGED <<attempt_vars, image_vars, render_vars, plan_vars,
                         reel_vars, call_vars, finish_vars, edit_vars,
                         learn_vars, strategy_vars, research_vars, catalogue_vars>>

stages_vars == <<which, attempt_vars, image_vars, render_vars, plan_vars, reel_vars,
          call_vars, finish_vars, edit_vars, learn_vars, strategy_vars,
          research_vars, catalogue_vars, bc_vars>>
StagesSpec == StagesInit /\ [][StagesNext]_stages_vars

=============================================================================

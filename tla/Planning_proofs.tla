--------------------------- MODULE Planning_proofs ---------------------------
(***************************************************************************)
(* What holds of every plan: its replacement as a whole, the review of the *)
(* strategy it is made from, and the recommendations that are applied.     *)
(* What holds of what plans are made from: the lookups of the Business     *)
(* Central client, the products, and the competitors table.                *)
(***************************************************************************)
EXTENDS CalendarPlan, Strategy, Learning, BCClient, Catalogue, Research, Recursion,
        FiniteSetTheorems

-----------------------------------------------------------------------------
(* CalendarPlan. A plan is replaced whole, for every horizon, month and wave
   length. Until the purge commits the run has taken nothing away (Kept);
   from then until the insert nothing planned is left where it purged,
   because an item taken meanwhile is no longer planned (Cleared). *)

\* Whatever the run found is there until its purge.
Kept ==
    step \notin {"insert", "completed", "failed"} =>
        \A old \in before : \E item \in items : Same(item, old)

\* Between a purge that went through and the insert, nothing of an earlier run
\* is planned in the days the run answers for.
Cleared ==
    step = "insert" /\ cut # "purge" =>
        \A item \in items : item.planned /\ ~item.new => ~Purged(item.day)

PlanInv == Kept /\ Cleared

\* The step that PlanIsReplacedWhole allows.
WholeStep ==
    /\ \A item \in items : ~item.planned => item \in items'
    /\ step # "failed" /\ step' = "failed" /\ cut' # "insert" =>
         \A old \in before' : \E item \in items' : Same(item, old)
    /\ step # "completed" /\ step' = "completed" /\ cut' # "purge" =>
         \A item \in items' : item.planned /\ ~item.new => ~Purged(item.day)

----------------------------------------------------------------------------
\* The calendar may hold anything of earlier runs; the run has found nothing
\* yet.
LEMMA PlanInit == InitPlan => PlanInv
<1> SUFFICES ASSUME InitPlan PROVE PlanInv
    OBVIOUS
<1> QED BY DEF InitPlan, PlanInv, Kept, Cleared

\* Taking an item keeps its day and its run, so it still stands for what the
\* run found; and it is no longer planned.
LEMMA TakeWhole == PlanInv /\ Take => PlanInv' /\ WholeStep
<1> SUFFICES ASSUME PlanInv, Take PROVE PlanInv' /\ WholeStep
    OBVIOUS
<1> USE DEF PlanInv
<1>1. PICK item \in items :
        /\ item.planned
        /\ items' = (items \ {item}) \cup {Item(item.day, item.new, FALSE)}
    BY DEF Take
<1> DEFINE taken == Item(item.day, item.new, FALSE)
<1>2. taken.day = item.day /\ taken.new = item.new /\ taken.planned = FALSE
    BY DEF Item
<1> HIDE DEF taken
<1>3. items' = (items \ {item}) \cup {taken}
    BY <1>1 DEF taken
<1>4. UNCHANGED <<step, months, windows, failed, drafts, before, cut>>
    BY DEF Take
<1>5. \A old : (\E i \in items : Same(i, old)) => \E i \in items' : Same(i, old)
    BY <1>2, <1>3 DEF Same
<1>6. Kept'
    BY <1>4, <1>5 DEF Kept
<1>7. Cleared'
    BY <1>2, <1>3, <1>4 DEF Cleared, Purged
<1>8. WholeStep
    BY <1>1, <1>3, <1>4 DEF WholeStep
<1> QED BY <1>6, <1>7, <1>8

\* The nodes before the purge, failing or not, leave the calendar alone.
LEMMA BeforePurgeWhole ==
    PlanInv /\ (\/ load_plan_strategy \/ generate_campaigns \/ GenerateWave
                \/ generate_calendar \/ assign_products \/ ValidateItems)
        => PlanInv' /\ WholeStep
<1> SUFFICES ASSUME PlanInv,
                    \/ load_plan_strategy \/ generate_campaigns \/ GenerateWave
                    \/ generate_calendar \/ assign_products \/ ValidateItems
             PROVE  PlanInv' /\ WholeStep
    OBVIOUS
<1> USE DEF PlanInv
<1>1. items' = items
    BY DEF load_plan_strategy, generate_campaigns, GenerateWave, generate_calendar,
           assign_products, ValidateItems
<1>2. before' = items \/ before' = before
    BY DEF load_plan_strategy, generate_campaigns, GenerateWave, generate_calendar,
           assign_products, ValidateItems
<1>3. step \notin {"insert", "completed", "failed"}
    BY DEF load_plan_strategy, generate_campaigns, GenerateWave, generate_calendar,
           assign_products, ValidateItems
<1>4. step' \notin {"insert", "completed"}
    BY <1>3 DEF load_plan_strategy, generate_campaigns, GenerateWave, generate_calendar,
           assign_products, ValidateItems, Proceed
<1>5. \A old \in before' : \E item \in items' : Same(item, old)
    BY <1>1, <1>2, <1>3 DEF Kept, Same
<1>6. Kept' /\ Cleared'
    BY <1>1, <1>4, <1>5 DEF Kept, Cleared
<1>7. WholeStep
    BY <1>1, <1>4, <1>5 DEF WholeStep
<1> QED BY <1>6, <1>7

\* Only planned items go, and all of them that lie in the window.
LEMMA PurgeWhole == PlanInv /\ Purge => PlanInv' /\ WholeStep
<1> SUFFICES ASSUME PlanInv, Purge PROVE PlanInv' /\ WholeStep
    OBVIOUS
<1> USE DEF PlanInv
<1>1. step = "purge" /\ step' = "insert" /\ months' = months
    BY DEF Purge, Proceed
<1>2. items' \subseteq items
    BY DEF Purge
<1>3. \A item \in items : ~item.planned => item \in items'
    BY DEF Purge, delete_planned_calendar_items
<1>4. cut' # "purge" => items' = items \ delete_planned_calendar_items
    BY DEF Purge
<1>5. Kept'
    BY <1>1, <1>2 DEF Kept
<1>6. Cleared'
    BY <1>1, <1>4 DEF Cleared, Purged, delete_planned_calendar_items
<1>7. WholeStep
    BY <1>1, <1>3 DEF WholeStep
<1> QED BY <1>5, <1>6, <1>7

\* The insert adds to what the purge left, or fails after it.
LEMMA StoreWhole == PlanInv /\ store_calendar_items => PlanInv' /\ WholeStep
<1> SUFFICES ASSUME PlanInv, store_calendar_items PROVE PlanInv' /\ WholeStep
    OBVIOUS
<1> USE DEF PlanInv
<1> DEFINE inserted == {Item(when, TRUE, TRUE) : when \in {d \in drafts : d <= Horizon}}
<1>1. \A item \in inserted : item.new
    BY DEF Item
<1> HIDE DEF inserted
<1>2. /\ step = "insert" /\ months' = months /\ before' = before
      /\ step' \in {"completed", "failed"}
      /\ step' = "failed" => cut' = "insert"
      /\ step' = "completed" => cut' = cut
      /\ items' \in {items, items \cup inserted}
    BY DEF store_calendar_items, Proceed, inserted
<1>3. Kept' /\ Cleared'
    BY <1>1, <1>2 DEF Kept, Cleared
<1>4. WholeStep
    BY <1>1, <1>2 DEF WholeStep, Cleared, Purged
<1> QED BY <1>3, <1>4

----------------------------------------------------------------------------
\* A planning run replaces what was planned and loses nothing else: an item in
\* generation stays, a failing run leaves every item in place unless its insert
\* failed after the purge, and a completed one leaves nothing planned by an
\* earlier run in the window it purged (store_calendar).
THEOREM PlanReplacedWhole == PlanSpec => PlanIsReplacedWhole
<1>1. InitPlan => PlanInv
    BY PlanInit
<1>2. PlanInv /\ [NextPlan]_plan_vars => PlanInv' /\ (WholeStep \/ UNCHANGED plan_vars)
  <2> SUFFICES ASSUME PlanInv, [NextPlan]_plan_vars
               PROVE  PlanInv' /\ (WholeStep \/ UNCHANGED plan_vars)
      OBVIOUS
  <2>1. CASE NextPlan
      BY <2>1, TakeWhole, BeforePurgeWhole, PurgeWhole, StoreWhole DEF NextPlan
  <2>2. CASE UNCHANGED plan_vars
      BY <2>2 DEF plan_vars, PlanInv, Kept, Cleared, Purged
  <2> QED BY <2>1, <2>2
<1>3. PlanInv /\ [NextPlan]_plan_vars => [WholeStep]_plan_vars
    BY <1>2
<1> QED BY <1>1, <1>2, <1>3, PTL DEF PlanSpec, PlanIsReplacedWhole, WholeStep

-----------------------------------------------------------------------------
(* Strategy. A plan is made of vetted text, or of text that was overruled, for
   any number of edits and any answers to a revision. *)

Texts == [Parts -> Nat]
Payloads == [graph : Texts, doc : Texts]
Edits == [row : {"own", "stored"}, payload : Payloads, part : Parts]

StrategyTypes ==
    /\ parts \in Texts /\ revision_count \in Nat
    /\ stored \in Payloads \cup {Nothing} /\ own \in Payloads
    /\ edit \in Edits \cup {Nothing}
    /\ accepted \subseteq Texts /\ overruled \subseteq Texts
    /\ plan \in Texts \cup {Nothing}

\* What was stored as approved.
Said == accepted \cup overruled

\* Every part of a text is empty, edited, or as some such strategy has it.
Vetted(text) ==
    \A part \in Parts : text[part] \in {0, Edited} \cup {strategy[part] : strategy \in Said}

\* What the interrupt shows is what the graph will store.
PauseShowsParts == run_status = "paused" => position = "review" /\ shown = parts

RunIsSaid == position = "approved" => parts \in Said

\* The rows that planning may read, and what an open edit will write to them.
\* The row of a run that failed is not one of them.
RowsVetted ==
    /\ stored # Nothing => Vetted(stored.graph)
    /\ run_status # "failed" => Vetted(own.graph)
    /\ (edit # Nothing /\ edit.row = "stored") => Vetted(edit.payload.graph)
    /\ (edit # Nothing /\ edit.row = "own" /\ run_status # "failed") => Vetted(edit.payload.graph)

PlanVetted == plan # Nothing => Vetted(plan)

VettingInv == StrategyTypes /\ PauseShowsParts /\ RunIsSaid /\ RowsVetted /\ PlanVetted

\* Approving more takes no text's vetting away.
LEMMA VettedStays ==
  ASSUME NEW text, Vetted(text), Said \subseteq Said'
  PROVE  Vetted(text)'
BY DEF Vetted, Said

\* An approved strategy is vetted, and so is its positioning alone.
LEMMA SaidIsVetted ==
  ASSUME NEW strategy \in Texts, strategy \in Said
  PROVE  /\ Vetted(strategy) /\ Vetted(Positioning(strategy))
         /\ Positioning(strategy) \in Texts
BY DEF Vetted, Said, Positioning, Empty, Texts, Parts

\* An edit changes a part of the graph's keys to Edited, or none.
LEMMA EditKeepsVetted ==
  ASSUME NEW payload \in Payloads, NEW part \in Parts
  PROVE  /\ WithEdit(payload, part) \in Payloads
         /\ Vetted(payload.graph) => Vetted(WithEdit(payload, part).graph)
<1>1. payload.graph \in Texts /\ payload.doc \in Texts BY DEF Payloads
<1>2. Edited \in Nat BY DEF Edited, MAX_REVISIONS
<1> QED BY <1>1, <1>2 DEF WithEdit, Payload, Payloads, Texts, Vetted, Said

LEMMA InitVetted == InitStrategy => VettingInv
<1> SUFFICES ASSUME InitStrategy PROVE VettingInv OBVIOUS
<1>1. Empty \in Texts BY DEF Empty, Texts
<1>2. Vetted(Empty) BY DEF Vetted, Said, Empty
<1>3. own \in Payloads /\ own.graph = Empty
  BY <1>1 DEF InitStrategy, Payload, Payloads
<1> QED BY <1>1, <1>2, <1>3
  DEF InitStrategy, VettingInv, StrategyTypes, PauseShowsParts, RunIsSaid, RowsVetted, PlanVetted

\* The nodes that write a text leave rows, edits and plans alone.
LEMMA DraftStep ==
  ASSUME VettingInv,
         position \in {"load", "positioning", "pillars", "audiences", "cadence", "themes", "revise"},
         parts' \in Texts, revision_count' \in Nat, position' # "approved",
         UNCHANGED <<run_status, stored, own, edit, plan, accepted, overruled>>
  PROVE  VettingInv'
BY DEF VettingInv, StrategyTypes, PauseShowsParts, RunIsSaid, RowsVetted, PlanVetted, Vetted, Said

LEMMA VettingStep == VettingInv /\ [NextStrategy]_strategy_vars => VettingInv'
<1> SUFFICES ASSUME VettingInv, [NextStrategy]_strategy_vars PROVE VettingInv' OBVIOUS
<1>t. StrategyTypes BY DEF VettingInv
<1>1. ASSUME NEW part \in {"positioning", "pillars", "audiences", "cadence", "themes"},
             NEW next \in {"pillars", "audiences", "cadence", "themes", "review"},
             NEW versions \in SUBSET Nat, Generate(part, next, versions)
      PROVE  VettingInv'
  <2>1. parts' \in Texts BY <1>1, <1>t DEF Generate, StrategyTypes, Texts, Parts
  <2>2. position' # "approved" BY <1>1 DEF Generate, GotoPart
  <2>3. revision_count' \in Nat BY <1>1, <1>t DEF Generate, StrategyTypes
  <2> QED BY <1>1, <2>1, <2>2, <2>3, DraftStep DEF Generate
<1>2. CASE load_research
  <2>1. parts' \in Texts /\ revision_count' \in Nat /\ position' # "approved"
    BY <1>2, <1>t DEF load_research, StrategyTypes
  <2> QED BY <1>2, <2>1, DraftStep DEF load_research
<1>3. CASE generate_positioning \/ define_pillars \/ define_audiences \/ plan_cadence
           \/ generate_themes
  BY <1>3, <1>1 DEF generate_positioning, define_pillars, define_audiences, plan_cadence,
     generate_themes
<1>4. CASE revise_strategy
  <2>1. parts' \in Texts
    BY <1>4, <1>t DEF revise_strategy, Revised, StrategyTypes, Texts
  <2>2. revision_count' \in Nat /\ position' # "approved"
    BY <1>4, <1>t DEF revise_strategy, StrategyTypes
  <2> QED BY <1>4, <2>1, <2>2, DraftStep DEF revise_strategy
<1>5. ASSUME parts \in Said', Said' \subseteq Texts, Said \subseteq Said',
             stored' \in {stored, Payload(Positioning(parts), parts)},
             run_status' # "paused", run_status' = "failed" <=> run_status = "failed",
             UNCHANGED <<parts, revision_count, own, edit, plan>>
      PROVE  VettingInv'
  <2>1. Vetted(Positioning(parts))' /\ Positioning(parts) \in Texts
    <3>1. parts \in Texts BY <1>t DEF StrategyTypes
    <3> QED BY <3>1, <1>5 DEF Vetted, Positioning, Empty, Texts, Parts
  <2>2. stored' # Nothing => Vetted(stored.graph)'
    <3>1. CASE stored' = stored
      BY <3>1, <1>5, VettedStays DEF VettingInv, RowsVetted, Vetted
    <3>2. CASE stored' = Payload(Positioning(parts), parts)
      BY <3>2, <2>1, <1>5 DEF Payload, Vetted
    <3> QED BY <1>5, <3>1, <3>2
  <2>3. stored' \in Payloads \cup {Nothing}
    BY <1>5, <1>t, <2>1 DEF StrategyTypes, Payload, Payloads
  <2>4. StrategyTypes' BY <1>5, <1>t, <2>3 DEF StrategyTypes, Said
  <2>5. PauseShowsParts' /\ RunIsSaid' BY <1>5 DEF PauseShowsParts, RunIsSaid
  <2>6. RowsVetted' /\ PlanVetted'
    BY <1>5, <2>2 DEF VettingInv, RowsVetted, PlanVetted, Vetted
  <2> QED BY <2>4, <2>5, <2>6 DEF VettingInv
<1>6. CASE human_review
  <2>0. parts \in Texts BY <1>t DEF StrategyTypes
  <2>1. CASE /\ AutoApproves /\ store_strategy
             /\ accepted' = accepted \cup {parts} /\ UNCHANGED <<run_status, shown>>
    BY <2>1, <2>0, <1>5, <1>6, <1>t DEF human_review, store_strategy, StrategyTypes, Said
  <2>2. CASE position' \in {"failed", "end"} /\ UNCHANGED <<run_status, shown, stored, accepted, overruled>>
    BY <2>2, <1>6 DEF human_review, VettingInv, StrategyTypes, PauseShowsParts, RunIsSaid,
       RowsVetted, PlanVetted, Vetted, Said
  <2>3. CASE /\ run_status = "running" /\ shown' = parts /\ run_status' = "paused"
             /\ UNCHANGED <<position, stored, accepted, overruled>>
    BY <2>3, <1>6 DEF human_review, VettingInv, StrategyTypes, PauseShowsParts, RunIsSaid,
       RowsVetted, PlanVetted, Vetted, Said
  <2> QED BY <1>6, <2>1, <2>2, <2>3 DEF human_review
<1>7. ASSUME NEW decision, Resume(decision) PROVE VettingInv'
  <2>0. parts \in Texts /\ shown = parts /\ run_status = "paused"
    BY <1>7, <1>t DEF StrategyTypes, VettingInv, PauseShowsParts, Resume
  <2>1. CASE AutoApproves \/ decision = "approved"
    BY <2>1, <2>0, <1>5, <1>7, <1>t DEF Resume, store_strategy, StrategyTypes, Approves, Said
  <2>2. CASE ~(AutoApproves \/ decision = "approved")
    <3>1. /\ position' # "approved" /\ run_status' = "running"
          /\ UNCHANGED <<parts, revision_count, stored, own, edit, plan, accepted, overruled>>
      BY <2>2, <1>7 DEF Resume, Approves
    <3> QED BY <3>1, <2>0 DEF VettingInv, StrategyTypes, PauseShowsParts, RunIsSaid,
               RowsVetted, PlanVetted, Vetted, Said
  <2> QED BY <2>1, <2>2
<1>8. CASE complete_agent_run
  <2>0. parts \in Texts /\ position' = "end" /\ run_status' # "paused"
    BY <1>8, <1>t DEF StrategyTypes, complete_agent_run, VettingInv, PauseShowsParts
  <2>1. CASE run_status # "running"
    BY <2>1, <2>0, <1>8 DEF complete_agent_run, VettingInv, StrategyTypes, PauseShowsParts,
       RunIsSaid, RowsVetted, PlanVetted, Vetted, Said
  <2>2. CASE run_status = "running"
    <3>1. own' \in Payloads /\ own'.graph = parts
      BY <2>0, <2>2, <1>8 DEF complete_agent_run, Payload, Payloads, Positioning, Empty, Texts
    <3>2. run_status' # "failed" => Vetted(parts)
      BY <2>2, <2>0, <1>8, SaidIsVetted DEF complete_agent_run, VettingInv, RunIsSaid
    <3>3. UNCHANGED <<parts, revision_count, stored, edit, plan, accepted, overruled>>
      BY <1>8 DEF complete_agent_run
    <3>4. StrategyTypes' BY <3>1, <3>3, <1>t DEF StrategyTypes
    <3>5. PauseShowsParts' /\ RunIsSaid' BY <2>0 DEF PauseShowsParts, RunIsSaid
    <3>6. RowsVetted' /\ PlanVetted'
      BY <2>2, <3>1, <3>2, <3>3 DEF VettingInv, RowsVetted, PlanVetted, Vetted, Said
    <3> QED BY <3>4, <3>5, <3>6 DEF VettingInv
  <2> QED BY <2>1, <2>2
<1>9. CASE SetAutoApprove \/ UNCHANGED strategy_vars
  BY <1>9 DEF SetAutoApprove, strategy_vars, VettingInv, StrategyTypes, PauseShowsParts,
     RunIsSaid, RowsVetted, PlanVetted, Vetted, Said
<1>10. CASE Deactivate
  BY <1>10 DEF Deactivate, VettingInv, StrategyTypes, PauseShowsParts,
     RunIsSaid, RowsVetted, PlanVetted, Vetted, Said
<1>11. CASE OpenReport
  <2>1. PICK part \in Parts :
          \/ edit' = [row |-> "own", payload |-> own, part |-> part]
          \/ stored # Nothing /\ edit' = [row |-> "stored", payload |-> stored, part |-> part]
    BY <1>11 DEF OpenReport
  <2>2. UNCHANGED <<position, run_status, parts, shown, revision_count, stored, own, plan, accepted, overruled>>
    BY <1>11 DEF OpenReport
  <2>3. edit' \in Edits BY <2>1, <1>t DEF StrategyTypes, Edits
  <2>4. StrategyTypes' BY <2>2, <2>3, <1>t DEF StrategyTypes
  <2>5. RowsVetted' BY <2>1, <2>2 DEF VettingInv, RowsVetted, Vetted, Said
  <2> QED BY <2>2, <2>4, <2>5 DEF VettingInv, PauseShowsParts, RunIsSaid, PlanVetted, Vetted, Said
<1>12. CASE edit_report
  <2>1. edit \in Edits /\ edit' = Nothing /\ edit # Nothing
    BY <1>12, <1>t DEF edit_report, StrategyTypes
  <2>2. UNCHANGED <<position, run_status, parts, shown, revision_count, plan, accepted, overruled>>
    BY <1>12 DEF edit_report
  <2>3. edit.payload \in Payloads /\ edit.part \in Parts /\ edit.row \in {"own", "stored"}
    BY <2>1 DEF Edits
  <2>4. /\ WithEdit(edit.payload, edit.part) \in Payloads
        /\ Vetted(edit.payload.graph) => Vetted(WithEdit(edit.payload, edit.part).graph)
    BY <2>3, EditKeepsVetted
  <2>5. CASE edit.row = "own"
    BY <2>5, <2>1, <2>2, <2>4, <1>12 DEF edit_report, VettingInv, StrategyTypes, PauseShowsParts,
       RunIsSaid, RowsVetted, PlanVetted, Vetted, Said
  <2>6. CASE edit.row = "stored"
    BY <2>6, <2>1, <2>2, <2>4, <1>12 DEF edit_report, VettingInv, StrategyTypes, PauseShowsParts,
       RunIsSaid, RowsVetted, PlanVetted, Vetted, Said
  <2> QED BY <2>3, <2>5, <2>6
<1>13. CASE load_strategy
  <2>1. Vetted(get_latest_strategy.graph) /\ get_latest_strategy \in Payloads
    BY <1>13 DEF load_strategy, get_latest_strategy, VettingInv, RowsVetted, StrategyTypes
  <2>2. plan' \in Texts /\ Vetted(plan') BY <2>1, <1>13 DEF load_strategy, Payloads
  <2>3. UNCHANGED <<position, run_status, parts, shown, revision_count, stored, own, edit, accepted, overruled>>
    BY <1>13 DEF load_strategy
  <2> QED BY <2>2, <2>3 DEF VettingInv, StrategyTypes, PauseShowsParts, RunIsSaid, RowsVetted,
             PlanVetted, Vetted, Said
<1> QED BY <1>2, <1>3, <1>4, <1>6, <1>7, <1>8, <1>9, <1>10, <1>11, <1>12, <1>13 DEF NextStrategy

\* A plan is made of text that was approved, part by part, or that an editor
\* wrote, or that was rejected when the flag had been set meanwhile
\* (human_review, edit_report, get_latest_strategy).
THEOREM PlansAreVetted == StrategySpec => []PlanIsVetted
<1>1. VettingInv => PlanIsVetted BY DEF VettingInv, PlanVetted, PlanIsVetted, Vetted, Said
<1> QED BY InitVetted, VettingStep, <1>1, PTL DEF StrategySpec

-----------------------------------------------------------------------------
(* Learning. Only what somebody said to apply is applied, for any number of
   recommendations, runs, days and posts. *)

Row == [tier : 1..3, status : {"proposed", "applied", "rejected"}]
Nodes == {"none", "load", "propose", "asked", "approved", "revise", "completed", "failed"}
RunRow == [node : Nodes, stage : {2, 3}, loaded : SUBSET (DOMAIN rows),
           shown : SUBSET (DOMAIN rows), rounds : Nat, applied : SUBSET (DOMAIN rows)]

LearnTypes ==
    /\ drafted \in Seq(Written)
    /\ rows \in Seq(Row)
    /\ runs \in [Runs -> RunRow]

\* A pause shows all of its stage, and an approved stage is said in full.
PauseShowsStage == \A run \in Runs : runs[run].node = "asked" => runs[run].shown = Stage(run)
StageIsSaid == \A run \in Runs : runs[run].node = "approved" => Stage(run) \subseteq ordered

LearnInv == LearnTypes /\ PauseShowsStage /\ StageIsSaid /\ AppliedWasSaid

LEMMA InitSaid == InitLearn => LearnInv
<1> SUFFICES ASSUME InitLearn PROVE LearnInv OBVIOUS
<1>1. rows = <<>> /\ drafted = <<>> /\ runs = [run \in Runs |-> NoRun] BY DEF InitLearn
<1>2. rows \in Seq(Row) /\ drafted \in Seq(Written) /\ DOMAIN rows = {}
  BY <1>1, EmptySeq
<1>3. NoRun \in RunRow BY DEF NoRun, RunRow, Nodes
<1>4. LearnTypes BY <1>1, <1>2, <1>3 DEF LearnTypes
<1>5. \A run \in Runs : runs[run].node = "none" BY <1>1 DEF NoRun
<1> QED BY <1>2, <1>4, <1>5 DEF LearnInv, PauseShowsStage, StageIsSaid, AppliedWasSaid

\* What does not touch the recommendations, the runs and what was said.
LEMMA Elsewhere ==
  ASSUME LearnInv, UNCHANGED <<rows, runs, ordered>>, drafted' \in Seq(Written)
  PROVE  LearnInv'
BY DEF LearnInv, LearnTypes, RunRow, PauseShowsStage, StageIsSaid, AppliedWasSaid, Stage

\* Rows that keep their tiers, and of which only said ones become applied.
LEMMA RowsChange ==
  ASSUME LearnInv, rows' \in Seq(Row), DOMAIN rows \subseteq DOMAIN rows',
         \A i \in DOMAIN rows : rows'[i].tier = rows[i].tier,
         \A i \in DOMAIN rows' : rows'[i].status = "applied" => i \in ordered',
         ordered \subseteq ordered', UNCHANGED runs, drafted' \in Seq(Written)
  PROVE  LearnInv'
<1>1. ASSUME NEW run \in Runs
      PROVE  /\ runs'[run] = runs[run] /\ runs[run] \in RunRow
             /\ runs[run] \in RunRow'
             /\ Stage(run)' = Stage(run)
  BY <1>1 DEF LearnInv, LearnTypes, RunRow, Stage
<1>2. LearnTypes'
  <2>1. runs' \in [Runs -> RunRow']
    BY <1>1 DEF LearnInv, LearnTypes
  <2> QED BY <2>1 DEF LearnTypes
<1>3. PauseShowsStage' /\ StageIsSaid'
  BY <1>1 DEF LearnInv, PauseShowsStage, StageIsSaid
<1>4. AppliedWasSaid' BY DEF AppliedWasSaid
<1> QED BY <1>2, <1>3, <1>4 DEF LearnInv

\* One run moves on and the rows stay as they are.
LEMMA RunMoves ==
  ASSUME LearnInv, NEW run \in Runs, NEW r \in RunRow,
         runs' = [runs EXCEPT ![run] = r],
         r.node = "asked" =>
             r.shown = {i \in r.loaded : rows[i].tier \in StageTiers(r.stage)},
         r.node = "approved" =>
             {i \in r.loaded : rows[i].tier \in StageTiers(r.stage)} \subseteq ordered',
         ordered \subseteq ordered', UNCHANGED <<rows, drafted>>
  PROVE  LearnInv'
<1>1. LearnTypes' BY DEF LearnInv, LearnTypes, RunRow
<1>2. runs'[run] = r /\ \A other \in Runs \ {run} : runs'[other] = runs[other]
  BY DEF LearnInv, LearnTypes
<1>3. \A other \in Runs \ {run} : Stage(other)' = Stage(other)
  BY <1>2 DEF Stage
<1>4. Stage(run)' = {i \in r.loaded : rows[i].tier \in StageTiers(r.stage)}
  BY <1>2 DEF Stage
<1>5. PauseShowsStage'
  BY <1>2, <1>3, <1>4 DEF LearnInv, PauseShowsStage
<1>6. StageIsSaid'
  BY <1>2, <1>3, <1>4 DEF LearnInv, StageIsSaid
<1>7. AppliedWasSaid' BY DEF LearnInv, AppliedWasSaid
<1> QED BY <1>1, <1>5, <1>6, <1>7 DEF LearnInv

LEMMA LearnStep == LearnInv /\ [NextLearn]_learn_vars => LearnInv'
<1> SUFFICES ASSUME LearnInv, [NextLearn]_learn_vars PROVE LearnInv' OBVIOUS
<1>t. drafted \in Seq(Written) /\ rows \in Seq(Row) /\ runs \in [Runs -> RunRow]
  BY DEF LearnInv, LearnTypes
<1>1. CASE pull_all_engagement \/ upsert_engagement \/ load_performance \/ analyze_patterns
           \/ generate_recommendations \/ UNCHANGED learn_vars
  BY <1>1, <1>t, Elsewhere DEF pull_all_engagement, upsert_engagement, load_performance,
     analyze_patterns, generate_recommendations, learn_vars
<1>2. CASE classify_adaptations
  <2>1. PICK n \in 0..(MaxRows - Len(rows)) : drafted' \in [1..n -> Written]
    BY <1>2 DEF classify_adaptations
  <2>2. drafted' \in Seq(Written) BY <2>1
  <2> QED BY <1>2, <2>2, Elsewhere DEF classify_adaptations
<1>3. CASE store_adaptations
  <2>0. drafted' = <<>> /\ UNCHANGED <<runs, ordered>> BY <1>3 DEF store_adaptations
  <2>1. drafted' \in Seq(Written) BY <2>0, EmptySeq
  <2>2. CASE UNCHANGED rows BY <2>0, <2>1, <2>2, Elsewhere
  <2>3. CASE rows' = rows \o [i \in DOMAIN drafted |-> Recommendation(drafted[i])]
    <3> DEFINE new == [i \in DOMAIN drafted |-> Recommendation(drafted[i])]
    <3>1. \A i \in DOMAIN drafted : Recommendation(drafted[i]) \in Row
      BY DEF Recommendation, _lift_adaptation_row, Row
    <3>2. \A i \in DOMAIN drafted : Recommendation(drafted[i]).status = "proposed"
      BY DEF Recommendation
    <3>3. new \in Seq(Row) /\ Len(new) = Len(drafted) /\ DOMAIN drafted = 1..Len(drafted)
      BY <1>t, <3>1
    <3>4. \A i \in 1..Len(new) : new[i].status = "proposed" BY <3>2, <3>3
    <3> HIDE DEF new
    <3>5. /\ rows' \in Seq(Row) /\ Len(rows') = Len(rows) + Len(new)
          /\ \A i \in 1..Len(rows') :
               rows'[i] = IF i <= Len(rows) THEN rows[i] ELSE new[i - Len(rows)]
      BY <2>3, <3>3, <1>t, ConcatProperties DEF new
    <3>6. DOMAIN rows = 1..Len(rows) /\ DOMAIN rows' = 1..Len(rows')
          /\ Len(rows) \in Nat /\ Len(new) \in Nat
      BY <1>t, <3>3, <3>5
    <3>7. \A i \in DOMAIN rows' : rows'[i].status = "applied" => i \in DOMAIN rows /\ rows'[i] = rows[i]
      <4> SUFFICES ASSUME NEW i \in DOMAIN rows', rows'[i].status = "applied"
                   PROVE  i \in DOMAIN rows /\ rows'[i] = rows[i]
        OBVIOUS
      <4>1. i \in 1..(Len(rows) + Len(new)) BY <3>5, <3>6
      <4>2. CASE i <= Len(rows) BY <3>5, <3>6, <4>1, <4>2
      <4>3. CASE i > Len(rows)
        <5>1. rows'[i] = new[i - Len(rows)] /\ i - Len(rows) \in 1..Len(new)
          BY <3>5, <3>6, <4>1, <4>3
        <5>2. rows'[i].status = "proposed" BY <3>4, <5>1
        <5> QED BY <5>2
      <4> QED BY <3>6, <4>1, <4>2, <4>3
    <3>8. \A i \in DOMAIN rows' : rows'[i].status = "applied" => i \in ordered'
      BY <3>7, <2>0 DEF LearnInv, AppliedWasSaid
    <3> QED BY <2>0, <2>1, <3>5, <3>6, <3>8, RowsChange
  <2> QED BY <1>3, <2>2, <2>3 DEF store_adaptations
<1>4. CASE decide_adaptation
  <2>1. PICK i \in Decidable, action \in {"applied", "rejected"} :
          /\ rows' = [rows EXCEPT ![i].status = action]
          /\ ordered' = IF action = "applied" THEN ordered \cup {i} ELSE ordered
    BY <1>4 DEF decide_adaptation
  <2>2. i \in DOMAIN rows /\ rows[i] \in Row BY <1>t, <2>1 DEF Decidable
  <2>3. UNCHANGED <<runs, drafted>> BY <1>4 DEF decide_adaptation
  <2>4. rows' \in Seq(Row) /\ DOMAIN rows' = DOMAIN rows
        /\ rows'[i].status = action
        /\ (\A j \in DOMAIN rows : rows'[j].tier = rows[j].tier)
        /\ (\A j \in DOMAIN rows \ {i} : rows'[j] = rows[j])
    BY <1>t, <2>1, <2>2 DEF Row
  <2>5. \A j \in DOMAIN rows' : rows'[j].status = "applied" => j \in ordered'
    BY <2>1, <2>4 DEF LearnInv, AppliedWasSaid
  <2> QED BY <1>t, <2>1, <2>3, <2>4, <2>5, RowsChange
<1>5. ASSUME NEW run \in Runs, Advance(run), UNCHANGED <<rows, drafted, ordered>> PROVE LearnInv'
  <2>0. runs[run] \in RunRow BY <1>t
  <2>1. CASE runs[run].stage = 2
    <3>1. [runs[run] EXCEPT !.stage = 3, !.rounds = 0, !.node = "propose"] \in RunRow
      BY <2>0 DEF RunRow, Nodes
    <3>2. runs' = [runs EXCEPT ![run] =
                      [runs[run] EXCEPT !.stage = 3, !.rounds = 0, !.node = "propose"]]
      BY <1>5, <1>t, <2>0, <2>1 DEF Advance, RunRow
    <3>3. [runs[run] EXCEPT !.stage = 3, !.rounds = 0, !.node = "propose"].node = "propose"
      BY <2>0 DEF RunRow
    <3> QED BY <1>5, <3>1, <3>2, <3>3, RunMoves
  <2>2. CASE runs[run].stage # 2
    <3>1. [runs[run] EXCEPT !.node = "completed"] \in RunRow
      BY <2>0 DEF RunRow, Nodes
    <3>2. runs' = [runs EXCEPT ![run] = [runs[run] EXCEPT !.node = "completed"]]
      BY <1>5, <1>t, <2>0, <2>2 DEF Advance, RunRow
    <3>3. [runs[run] EXCEPT !.node = "completed"].node = "completed"
      BY <2>0 DEF RunRow
    <3> QED BY <1>5, <3>1, <3>2, <3>3, RunMoves
  <2> QED BY <2>1, <2>2
<1>6. ASSUME NEW run \in Runs, NEW r \in RunRow, r.node \notin {"asked", "approved"},
             runs' = [runs EXCEPT ![run] = r], ordered \subseteq ordered', UNCHANGED <<rows, drafted>>
      PROVE  LearnInv'
  BY <1>6, RunMoves
<1>7. ASSUME NEW run \in Runs, StartRun(run) PROVE LearnInv'
  <2>0. runs[run] \in RunRow BY <1>t
  <2> DEFINE r == [runs[run] EXCEPT !.node = "load"]
  <2>1. r \in RunRow /\ r.node = "load" BY <2>0 DEF RunRow, Nodes
  <2>2. runs' = [runs EXCEPT ![run] = r] BY <1>7 DEF StartRun
  <2>3. UNCHANGED <<rows, drafted, ordered>> BY <1>7 DEF StartRun
  <2> HIDE DEF r
  <2> QED BY <2>1, <2>2, <2>3, <1>6
<1>8. ASSUME NEW run \in Runs, load_adaptations(run) PROVE LearnInv'
  <2>0. runs[run] \in RunRow BY <1>t
  <2>1. get_pending_adaptations \in SUBSET (DOMAIN rows)
    BY DEF get_pending_adaptations, Decidable
  <2> DEFINE r == [runs[run] EXCEPT !.node = "propose", !.loaded = get_pending_adaptations]
  <2>2. r \in RunRow /\ r.node = "propose" BY <2>0, <2>1 DEF RunRow, Nodes
  <2>3. runs' = [runs EXCEPT ![run] = r] BY <1>8, <1>t, <2>0 DEF load_adaptations, RunRow
  <2>4. UNCHANGED <<rows, drafted, ordered>> BY <1>8 DEF load_adaptations
  <2> HIDE DEF r
  <2> QED BY <2>2, <2>3, <2>4, <1>6
<1>9. ASSUME NEW run \in Runs, propose(run) PROVE LearnInv'
  <2>0. runs[run] \in RunRow BY <1>t
  <2>1. CASE Advance(run) BY <1>5, <1>9, <2>1 DEF propose
  <2>2. CASE runs' = [runs EXCEPT ![run].node = "asked", ![run].shown = Stage(run)]
    <3> DEFINE r == [runs[run] EXCEPT !.node = "asked", !.shown = Stage(run)]
    <3>1. Stage(run) \in SUBSET (DOMAIN rows) BY <2>0 DEF Stage, RunRow
    <3>2. r \in RunRow BY <2>0, <3>1 DEF RunRow, Nodes
    <3>3. /\ r.node = "asked" /\ r.shown = Stage(run)
          /\ r.loaded = runs[run].loaded /\ r.stage = runs[run].stage
      BY <2>0 DEF RunRow
    <3>4. runs' = [runs EXCEPT ![run] = r] BY <2>2, <1>t, <2>0 DEF RunRow
    <3> HIDE DEF r
    <3>5. r.shown = {i \in r.loaded : rows[i].tier \in StageTiers(r.stage)} BY <3>3 DEF Stage
    <3> QED BY <1>9, <3>2, <3>3, <3>4, <3>5, RunMoves DEF propose
  <2> QED BY <1>9, <2>1, <2>2 DEF propose
<1>10. ASSUME NEW run \in Runs, Decide(run) PROVE LearnInv'
  <2>0. runs[run] \in RunRow /\ runs[run].node = "asked" BY <1>10, <1>t DEF Decide
  <2>1. CASE runs' = [runs EXCEPT ![run].node = "approved"] /\ ordered' = ordered \cup runs[run].shown
    <3> DEFINE r == [runs[run] EXCEPT !.node = "approved"]
    <3>1. r \in RunRow BY <2>0 DEF RunRow, Nodes
    <3>2. /\ r.node = "approved" /\ r.loaded = runs[run].loaded /\ r.stage = runs[run].stage
      BY <2>0 DEF RunRow
    <3>3. runs' = [runs EXCEPT ![run] = r] BY <2>1, <1>t, <2>0 DEF RunRow
    <3> HIDE DEF r
    <3>4. Stage(run) \subseteq ordered' BY <2>0, <2>1 DEF LearnInv, PauseShowsStage
    <3>5. {i \in r.loaded : rows[i].tier \in StageTiers(r.stage)} \subseteq ordered'
      BY <3>2, <3>4 DEF Stage
    <3>6. ordered \subseteq ordered' BY <2>1
    <3> QED BY <1>10, <3>1, <3>2, <3>3, <3>5, <3>6, RunMoves DEF Decide
  <2>2. CASE /\ runs' = [runs EXCEPT ![run].node =
                            IF runs[run].rounds >= MAX_ADAPTATION_REVISIONS THEN "failed" ELSE "revise"]
             /\ UNCHANGED ordered
    <3> DEFINE node == IF runs[run].rounds >= MAX_ADAPTATION_REVISIONS THEN "failed" ELSE "revise"
               r == [runs[run] EXCEPT !.node = node]
    <3>1. r \in RunRow /\ r.node = node BY <2>0 DEF RunRow, Nodes
    <3>2. r.node \notin {"asked", "approved"} BY <3>1
    <3>3. runs' = [runs EXCEPT ![run] = r] BY <2>2
    <3>4. UNCHANGED <<rows, drafted, ordered>> BY <1>10, <2>2 DEF Decide
    <3> HIDE DEF r
    <3> QED BY <3>1, <3>2, <3>3, <3>4, <1>6
  <2> QED BY <1>10, <2>1, <2>2 DEF Decide
<1>11. ASSUME NEW run \in Runs, revise(run) PROVE LearnInv'
  <2>0. runs[run] \in RunRow /\ runs[run].rounds + 1 \in Nat BY <1>t DEF RunRow
  <2> DEFINE r == [runs[run] EXCEPT !.rounds = runs[run].rounds + 1, !.node = "propose"]
  <2>1. r \in RunRow /\ r.node = "propose" BY <2>0 DEF RunRow, Nodes
  <2>2. runs' = [runs EXCEPT ![run] = r] BY <1>11, <1>t, <2>0 DEF revise, RunRow
  <2>3. UNCHANGED <<rows, drafted, ordered>> BY <1>11 DEF revise
  <2> HIDE DEF r
  <2> QED BY <2>1, <2>2, <2>3, <1>6
<1>12. ASSUME NEW run \in Runs, FailRun(run) PROVE LearnInv'
  <2>0. runs[run] \in RunRow BY <1>t
  <2> DEFINE r == [runs[run] EXCEPT !.node = "failed"]
  <2>1. r \in RunRow /\ r.node = "failed" BY <2>0 DEF RunRow, Nodes
  <2>2. runs' = [runs EXCEPT ![run] = r] BY <1>12 DEF FailRun
  <2>3. UNCHANGED <<rows, drafted, ordered>> BY <1>12 DEF FailRun
  <2> HIDE DEF r
  <2> QED BY <2>1, <2>2, <2>3, <1>6
<1>13. ASSUME NEW run \in Runs, Applied(run) PROVE LearnInv'
  BY <1>5, <1>13 DEF Applied
<1>14. ASSUME NEW run \in Runs, update_adaptation_status(run) PROVE LearnInv'
  <2>0. runs[run] \in RunRow BY <1>t
  <2>1. PICK i \in Stage(run) \ runs[run].applied :
          /\ rows' = [rows EXCEPT ![i].status = "applied"]
          /\ runs' = [runs EXCEPT ![run].applied = @ \cup {i}]
    BY <1>14 DEF update_adaptation_status
  <2>2. i \in ordered /\ UNCHANGED <<drafted, ordered>>
    BY <1>14, <2>1 DEF update_adaptation_status, LearnInv, StageIsSaid
  <2>3. i \in DOMAIN rows /\ rows[i] \in Row BY <1>t, <2>0, <2>1 DEF Stage, RunRow
  <2> DEFINE row == [rows[i] EXCEPT !.status = "applied"]
  <2>4a. row \in Row /\ row.tier = rows[i].tier BY <2>3 DEF Row
  <2>4b. rows' = [rows EXCEPT ![i] = row] BY <2>1
  <2> HIDE DEF row
  <2>4. rows' \in Seq(Row) /\ DOMAIN rows' = DOMAIN rows
        /\ (\A j \in DOMAIN rows : rows'[j].tier = rows[j].tier)
        /\ (\A j \in DOMAIN rows \ {i} : rows'[j] = rows[j])
    BY <1>t, <2>3, <2>4a, <2>4b
  <2>5. runs[run].applied \cup {i} \in SUBSET (DOMAIN rows) BY <2>0, <2>3 DEF RunRow
  <2>6. ASSUME NEW other \in Runs
        PROVE  /\ runs'[other] \in RunRow /\ runs'[other].node = runs[other].node
               /\ runs'[other].shown = runs[other].shown
               /\ runs'[other].loaded = runs[other].loaded
               /\ runs'[other].stage = runs[other].stage
    <3>1. CASE other = run BY <3>1, <1>t, <2>0, <2>1, <2>5 DEF RunRow
    <3>2. CASE other # run BY <3>2, <1>t, <2>1
    <3> QED BY <3>1, <3>2
  <2>7. RunRow' = RunRow BY <2>4 DEF RunRow
  <2>8. LearnTypes'
    <3>1. runs' \in [Runs -> RunRow] BY <1>t, <2>1, <2>6
    <3> QED BY <3>1, <2>2, <2>4, <2>7, <1>t DEF LearnTypes
  <2>9. ASSUME NEW other \in Runs PROVE Stage(other)' = Stage(other)
    <3>1. runs[other].loaded \subseteq DOMAIN rows BY <1>t DEF RunRow
    <3> QED BY <3>1, <2>4, <2>6 DEF Stage
  <2>10. PauseShowsStage' /\ StageIsSaid'
    BY <2>2, <2>6, <2>9 DEF LearnInv, PauseShowsStage, StageIsSaid
  <2>11. AppliedWasSaid' BY <2>2, <2>4 DEF LearnInv, AppliedWasSaid
  <2> QED BY <2>8, <2>10, <2>11 DEF LearnInv
<1> QED BY <1>1, <1>2, <1>3, <1>4, <1>7, <1>8, <1>9, <1>10, <1>11, <1>12, <1>13, <1>14
       DEF NextLearn

\* A recommendation is applied only because somebody said so of that one
\* (adaptation's human review and decide_adaptation).
THEOREM OnlySaidIsApplied == LearnSpec => []AppliedWasSaid
<1>1. LearnInv => AppliedWasSaid BY DEF LearnInv
<1> QED BY InitSaid, LearnStep, <1>1, PTL DEF LearnSpec

-----------------------------------------------------------------------------
(* The client: a rejection that trips the breaker ends the lookup it came to, *)
(* and no lookup begins before the cooldown is over.                          *)

UnderWay == {c \in Calls : call[c] # Idle}

Places == {"idle", "token", "login", "permit", "sleep", "sent", "backoff"}
Lookup == [ask : Nat, at : Places, attempt : Nat, wake : Nat]

ClientTypes ==
    /\ now \in Nat /\ disabled_until \in Nat /\ doomed \in Nat
    /\ last \in Nat /\ call \in [Calls -> Lookup]

\* The lookups that may still be rejected and those that were.
Spent ==
    /\ now >= disabled_until => doomed = 0
    /\ doomed + Cardinality(UnderWay) <= Cardinality(Calls)

ClientInv == ClientTypes /\ Spent

LEMMA LookupsCounted ==
  ASSUME NEW S \in SUBSET Calls
  PROVE  /\ IsFiniteSet(S) /\ Cardinality(S) \in Nat
         /\ Cardinality(S) <= Cardinality(Calls)
  BY BCAssumption, FS_Subset, FS_CardinalityType

LEMMA BecomeTypes ==
  ASSUME ClientTypes, NEW c \in Calls, NEW record \in Lookup, Become(c, record)
  PROVE  call' \in [Calls -> Lookup] /\ \A d \in Calls \ {c} : call'[d] = call[d]
  BY DEF ClientTypes, Become

LEMMA IdleTypes == Idle \in Lookup
  BY DEF Idle, Lookup, Places

\* Continue touches one lookup.
LEMMA ContinueTypes ==
  ASSUME ClientTypes, NEW c \in Calls, NEW a \in Nat, Continue(c, a)
  PROVE  call' \in [Calls -> Lookup] /\ \A d \in Calls \ {c} : call'[d] = call[d]
<1>1. [ask |-> a, at |-> "token", attempt |-> 0, wake |-> 0] \in Lookup
  BY DEF Lookup, Places
<1> QED
  BY <1>1, IdleTypes, BecomeTypes DEF Continue

\* A lookup that takes a step of its own, and is not rejected, was under way.
LEMMA GoesOn ==
  ASSUME ClientInv, ClientTypes', UNCHANGED <<now, disabled_until, doomed>>,
         UnderWay' \subseteq UnderWay
  PROVE  ClientInv'
<1>1. /\ Cardinality(UnderWay') <= Cardinality(UnderWay)
      /\ Cardinality(UnderWay') \in Nat /\ Cardinality(UnderWay) \in Nat
      /\ Cardinality(Calls) \in Nat
  BY LookupsCounted, FS_Subset DEF UnderWay
<1> QED
  BY <1>1 DEF ClientInv, ClientTypes, Spent

\* A rejection: one lookup fewer under way, one request more rejected.
LEMMA Rejected ==
  ASSUME ClientInv, ClientTypes', NEW c \in Calls, call[c] # Idle,
         _trip_breaker, Become(c, Idle), UNCHANGED now
  PROVE  ClientInv'
<1>1. UnderWay' = UnderWay \ {c} /\ c \in UnderWay
  BY DEF UnderWay, Become, ClientInv, ClientTypes
<1>2. /\ Cardinality(UnderWay') = Cardinality(UnderWay) - 1
      /\ Cardinality(UnderWay) \in Nat /\ Cardinality(Calls) \in Nat
  BY <1>1, LookupsCounted, FS_RemoveElement DEF UnderWay
<1>3. now < disabled_until' /\ doomed' = doomed + 1
  BY BCAssumption DEF _trip_breaker, ClientInv, ClientTypes
<1> QED
  BY <1>2, <1>3 DEF ClientInv, ClientTypes, Spent

\* A step of one lookup that was under way, in which nothing is rejected.
LEMMA OneGoesOn ==
  ASSUME ClientInv, UNCHANGED <<now, disabled_until, doomed>>, last' \in Nat,
         NEW c \in Calls, call[c] # Idle,
         call' \in [Calls -> Lookup], \A d \in Calls \ {c} : call'[d] = call[d]
  PROVE  ClientInv'
<1>1. ClientTypes' BY DEF ClientInv, ClientTypes
<1>2. UnderWay' \subseteq UnderWay BY DEF UnderWay
<1> QED BY <1>1, <1>2, GoesOn

\* The twelve steps of a lookup.
LEMMA LookupStep ==
  ASSUME ClientInv, NEW c \in Calls,
         \/ fetch_item_picture(c) \/ _get_token(c) \/ Login(c) \/ _semaphore(c)
         \/ _respect_min_interval(c) \/ _get_rejected(c) \/ _get_failed(c)
         \/ _get_throttled(c) \/ BackOff(c) \/ _resolve(c) \/ _fetch_item_picture(c)
  PROVE  ClientInv'
<1> USE DEF ClientInv
<1>1. /\ call[c] \in Lookup /\ now \in Nat /\ last \in Nat
      /\ call[c].ask \in Nat /\ call[c].attempt \in Nat
  BY DEF ClientTypes, Lookup
<1>2. CASE fetch_item_picture(c)
  <2>1. UNCHANGED <<now, disabled_until, doomed, last>> /\ call[c] = Idle
    BY <1>2 DEF fetch_item_picture
  <2>2. CASE is_available
    <3>1. doomed = 0 BY <2>2 DEF is_available, Spent
    <3>2. \E a \in Nat : Continue(c, a)
      BY <1>2, <2>2 DEF fetch_item_picture, NextAsk
    <3>3. ClientTypes' BY <2>1, <3>2, ContinueTypes DEF ClientTypes
    <3>4. Cardinality(UnderWay') <= Cardinality(Calls) /\ Cardinality(UnderWay') \in Nat
      BY LookupsCounted DEF UnderWay
    <3> QED BY <2>1, <3>1, <3>3, <3>4 DEF Spent
  <2>3. CASE ~is_available
    <3>1. UNCHANGED call BY <1>2, <2>3 DEF fetch_item_picture
    <3>2. ClientTypes' /\ UnderWay' = UnderWay BY <2>1, <3>1 DEF ClientTypes, UnderWay
    <3> QED BY <2>1, <3>2, GoesOn
  <2> QED BY <2>2, <2>3
<1>3. CASE _get_token(c)
  <2>1. /\ UNCHANGED <<now, disabled_until, doomed, last>>
        /\ call[c].at = "token"
        /\ \E st \in {"permit", "login"} : Become(c, [call[c] EXCEPT !.at = st])
    BY <1>3 DEF _get_token
  <2>2. \A st \in {"permit", "login"} : [call[c] EXCEPT !.at = st] \in Lookup
    BY <1>1 DEF Lookup, Places
  <2> QED BY <1>1, <2>1, <2>2, BecomeTypes, OneGoesOn DEF Idle
<1>4. CASE Login(c)
  <2>1. UNCHANGED <<now, last>> /\ call[c].at = "login" /\ call[c] # Idle
    BY <1>4 DEF Login, Idle
  <2>2. CASE _trip_breaker /\ Become(c, Idle)
    <3>1. ClientTypes'
      BY <2>1, <2>2, IdleTypes, BecomeTypes, BCAssumption DEF ClientTypes, _trip_breaker
    <3> QED BY <2>1, <2>2, <3>1, Rejected
  <2>3. CASE /\ UNCHANGED <<disabled_until, doomed>>
             /\ Become(c, [call[c] EXCEPT !.at = "permit"]) \/ Become(c, Idle)
    <3>1. [call[c] EXCEPT !.at = "permit"] \in Lookup BY <1>1 DEF Lookup, Places
    <3> QED BY <1>1, <2>1, <2>3, <3>1, IdleTypes, BecomeTypes, OneGoesOn
  <2> QED BY <1>4, <2>2, <2>3 DEF Login
<1>5. CASE _semaphore(c)
  <2>1. [call[c] EXCEPT !.at = "sleep", !.wake = IF last = now THEN now + 1 ELSE now] \in Lookup
    <3> DEFINE w == IF last = now THEN now + 1 ELSE now
    <3>1. w \in Nat BY <1>1
    <3> HIDE DEF w
    <3>2. [call[c] EXCEPT !.at = "sleep", !.wake = w] \in Lookup
      BY <1>1, <3>1 DEF Lookup, Places
    <3> QED BY <3>2 DEF w
  <2> QED BY <1>1, <1>5, <2>1, BecomeTypes, OneGoesOn DEF _semaphore, Idle
<1>6. CASE _respect_min_interval(c)
  <2>1. [call[c] EXCEPT !.at = "sent"] \in Lookup
    BY <1>1 DEF Lookup, Places
  <2> QED BY <1>1, <1>6, <2>1, BecomeTypes, OneGoesOn DEF _respect_min_interval, Idle
<1>7. CASE _get_rejected(c)
  <2>1. call[c] # Idle /\ UNCHANGED <<now, last>> /\ _trip_breaker /\ Become(c, Idle)
    BY <1>7 DEF _get_rejected, Answer, Idle
  <2>2. ClientTypes'
    BY <2>1, IdleTypes, BecomeTypes, BCAssumption DEF ClientTypes, _trip_breaker
  <2> QED BY <2>1, <2>2, Rejected
<1>8. CASE _get_failed(c)
  BY <1>1, <1>8, IdleTypes, BecomeTypes, OneGoesOn DEF _get_failed, Answer, Idle
<1>9. CASE _get_throttled(c)
  <2>1. [call[c] EXCEPT !.at = "backoff", !.attempt = @ + 1, !.wake = now + 1] \in Lookup
    <3> DEFINE n == call[c].attempt + 1
               w == now + 1
    <3>1. n \in Nat /\ w \in Nat BY <1>1
    <3> HIDE DEF n, w
    <3>2. [call[c] EXCEPT !.at = "backoff", !.attempt = n, !.wake = w] \in Lookup
      BY <1>1, <3>1 DEF Lookup, Places
    <3> QED BY <3>2 DEF n, w
  <2> QED BY <1>1, <1>9, <2>1, BecomeTypes, OneGoesOn DEF _get_throttled, Answer, Idle
<1>10. CASE BackOff(c)
  <2>1. [call[c] EXCEPT !.at = "token"] \in Lookup
    BY <1>1 DEF Lookup, Places
  <2> QED BY <1>1, <1>10, <2>1, BecomeTypes, OneGoesOn DEF BackOff, Idle
<1>11. CASE _resolve(c) \/ _fetch_item_picture(c)
  <2>1. /\ UNCHANGED <<now, disabled_until, doomed, last>> /\ call[c].at = "sent"
        /\ Become(c, Idle) \/ \E a \in Nat : Continue(c, a)
    <3>1. call[c].ask + 1 \in Nat /\ NextAsk(call[c].ask) \in Nat BY <1>1 DEF NextAsk
    <3>2. CASE _resolve(c)
      BY <3>1, <3>2 DEF _resolve, Answer
    <3>3. CASE _fetch_item_picture(c)
      BY <3>1, <3>3 DEF _fetch_item_picture, Answer
    <3> QED BY <1>11, <3>2, <3>3
  <2>2. call' \in [Calls -> Lookup] /\ \A d \in Calls \ {c} : call'[d] = call[d]
    BY <2>1, IdleTypes, BecomeTypes, ContinueTypes
  <2> QED BY <1>1, <2>1, <2>2, OneGoesOn DEF Idle
<1> QED
  BY <1>2, <1>3, <1>4, <1>5, <1>6, <1>7, <1>8, <1>9, <1>10, <1>11

\* The breaker bounds what it was built to stop: in one cooldown no more
\* requests are rejected than lookups can be under way at once, for every
\* interleaving of their awaits, retries and the token's refresh
\* (is_available at the start of fetch_item_picture, _trip_breaker).
THEOREM BreakerBounds == ClientSpec => []DoomedBounded
<1>1. InitClient => ClientInv
  <2> SUFFICES ASSUME InitClient PROVE ClientInv OBVIOUS
  <2>1. ClientTypes BY IdleTypes DEF InitClient, ClientTypes
  <2>2. UnderWay = {} BY DEF InitClient, UnderWay
  <2> QED BY <2>1, <2>2, FS_EmptySet, BCAssumption, FS_CardinalityType
          DEF ClientInv, Spent, InitClient
<1>2. ClientInv /\ [NextClient]_bc_vars => ClientInv'
  <2> SUFFICES ASSUME ClientInv, [NextClient]_bc_vars PROVE ClientInv' OBVIOUS
  <2>1. CASE Tick
    <3>1. UnderWay' = UnderWay /\ ClientTypes'
      BY <2>1 DEF Tick, ClientInv, ClientTypes, UnderWay
    <3>2. /\ doomed' = doomed \/ doomed' = 0
          /\ now' >= disabled_until' => doomed' = 0
      BY <2>1 DEF Tick, ClientInv, ClientTypes
    <3>3. Cardinality(UnderWay) \in Nat /\ Cardinality(UnderWay) <= Cardinality(Calls)
      BY LookupsCounted DEF UnderWay
    <3> QED BY <3>1, <3>2, <3>3 DEF ClientInv, Spent
  <2>2. CASE Expire \/ UNCHANGED bc_vars
    BY <2>2 DEF Expire, bc_vars, ClientInv, ClientTypes, Spent, UnderWay
  <2> QED BY <2>1, <2>2, LookupStep DEF NextClient
<1>3. ClientInv => DoomedBounded
  <2> SUFFICES ASSUME ClientInv PROVE DoomedBounded OBVIOUS
  <2>1. Cardinality(UnderWay) \in Nat /\ Cardinality(Calls) \in Nat
    BY LookupsCounted DEF UnderWay
  <2> QED BY <2>1 DEF ClientInv, ClientTypes, Spent, DoomedBounded
<1> QED
  BY <1>1, <1>2, <1>3, PTL DEF ClientSpec

-----------------------------------------------------------------------------
(* The competitors table: what an open transaction inserted had no row when   *)
(* it looked, and still has none unless somebody else wrote it since.         *)

TableTypes ==
    /\ active \in [Names -> Nat] /\ dropped \in [Names -> Nat]
    /\ known_names \in SUBSET Names
    /\ found \in [Jobs -> SUBSET Names] /\ insert \in [Jobs -> SUBSET Names]

LookedUp ==
    \A name \in Names \ raced :
        /\ Rows(name) <= 1
        /\ \A job \in Jobs : name \in insert[job] => Rows(name) = 0

TableInv == TableTypes /\ LookedUp

LEMMA InsertKeeps ==
  ASSUME TableInv, NEW job \in Jobs, Insert(job)
  PROVE  TableInv'
<1>1. /\ UNCHANGED <<active, dropped, raced, found, known_names>>
      /\ insert' = [insert EXCEPT ![job] = NewNames(found[job])]
  BY DEF Insert
<1>2. TableTypes'
  BY <1>1 DEF TableInv, TableTypes, NewNames
<1>3. ASSUME NEW name \in Names \ raced
      PROVE  /\ Rows(name)' <= 1
             /\ \A other \in Jobs : name \in insert'[other] => Rows(name)' = 0
  <2>1. Rows(name)' = Rows(name) BY <1>1 DEF Rows
  <2>2. name \in insert'[job] => Rows(name) = 0
    BY <1>1 DEF TableInv, TableTypes, NewNames
  <2>3. \A other \in Jobs \ {job} : insert'[other] = insert[other]
    BY <1>1 DEF TableInv, TableTypes
  <2> QED BY <2>1, <2>2, <2>3 DEF TableInv, LookedUp
<1> QED
  BY <1>1, <1>2, <1>3 DEF TableInv, LookedUp

\* A name that both transactions inserted becomes two rows with the second
\* commit, and is known as raced from the first on.
LEMMA CommitKeeps ==
  ASSUME TableInv, NEW job \in Jobs, CommitRows(job)
  PROVE  TableInv'
<1>1. /\ UNCHANGED <<dropped, known_names>>
      /\ insert' = [insert EXCEPT ![job] = {}] /\ found' = [found EXCEPT ![job] = {}]
  BY DEF CommitRows
<1>2. TableTypes'
  BY <1>1 DEF CommitRows, TableInv, TableTypes
<1>3. insert'[job] = {} /\ \A other \in Jobs \ {job} : insert'[other] = insert[other]
  BY <1>1 DEF TableInv, TableTypes
<1>4. CASE brand
  <2>1. raced' = raced \cup (insert[job] \cap OtherOpen(job))
    BY <1>4 DEF CommitRows
  <2>2. ASSUME NEW name \in Names \ raced'
        PROVE  /\ Rows(name)' <= 1
               /\ \A other \in Jobs : name \in insert'[other] => Rows(name)' = 0
    <3>1. /\ name \notin raced
          /\ Rows(name) <= 1
          /\ \A other \in Jobs : name \in insert[other] => Rows(name) = 0
      BY <2>1 DEF TableInv, LookedUp
    <3>2. CASE name \in insert[job]
      <4>1. active'[name] = active[name] + 1 BY <1>4, <3>2 DEF CommitRows
      <4>2. Rows(name)' = 1
        BY <1>1, <3>1, <3>2, <4>1 DEF Rows, TableInv, TableTypes
      <4>3. \A other \in Jobs \ {job} : name \notin insert[other]
        BY <2>1, <3>2 DEF OtherOpen
      <4> QED BY <1>3, <4>2, <4>3
    <3>3. CASE name \notin insert[job]
      <4>1. active'[name] = active[name]
        BY <1>4, <3>3 DEF CommitRows, TableInv, TableTypes
      <4>2. Rows(name)' = Rows(name) BY <1>1, <4>1 DEF Rows
      <4> QED BY <1>3, <3>1, <4>2
    <3> QED BY <3>2, <3>3
  <2> QED BY <1>2, <2>2 DEF TableInv, LookedUp
<1>5. CASE ~brand
  <2>1. UNCHANGED <<active, raced>> BY <1>5 DEF CommitRows
  <2>2. \A name \in Names : Rows(name)' = Rows(name) BY <1>1, <2>1 DEF Rows
  <2> QED BY <1>2, <1>3, <2>1, <2>2 DEF TableInv, LookedUp
<1> QED
  BY <1>4, <1>5

\* The nodes of the run before it writes, and the start of the job.
LEMMA ReadingKeeps ==
  ASSUME TableInv, TableTypes', UNCHANGED <<active, dropped, insert, raced>>
  PROVE  TableInv'
<1>1. \A name \in Names : Rows(name)' = Rows(name) BY DEF Rows
<1> QED
  BY <1>1 DEF TableInv, LookedUp

\* The brand's people may write what they want: what they add is theirs, and
\* what they take away makes no twin.
LEMMA PeopleKeep ==
  ASSUME TableInv,
         create_competitor \/ update_competitor \/ delete_competitor \/ delete_brand
  PROVE  TableInv'
<1>1. UNCHANGED <<insert, found, known_names>>
  BY DEF create_competitor, update_competitor, delete_competitor, delete_brand
<1>2. CASE create_competitor
  <2>1. PICK name \in Names : /\ active' = [active EXCEPT ![name] = @ + 1]
                              /\ raced' = raced \cup {name} /\ UNCHANGED dropped
    BY <1>2 DEF create_competitor
  <2>2. TableTypes' BY <1>1, <2>1 DEF TableInv, TableTypes
  <2>3. \A other \in Names \ {name} : Rows(other)' = Rows(other)
    BY <2>1 DEF Rows, TableInv, TableTypes
  <2> QED BY <1>1, <2>1, <2>2, <2>3 DEF TableInv, LookedUp
<1>3. CASE update_competitor
  <2>1. PICK name \in Names : /\ active[name] > 0 /\ UNCHANGED raced
                              /\ active' = [active EXCEPT ![name] = @ - 1]
                              /\ dropped' = [dropped EXCEPT ![name] = @ + 1]
    BY <1>3 DEF update_competitor
  <2>2. TableTypes' BY <1>1, <2>1 DEF TableInv, TableTypes
  <2>3. \A other \in Names : Rows(other)' = Rows(other)
    BY <2>1 DEF Rows, TableInv, TableTypes
  <2> QED BY <1>1, <2>1, <2>2, <2>3 DEF TableInv, LookedUp
<1>4. CASE delete_competitor
  <2>1. TableTypes' /\ UNCHANGED raced
    BY <1>1, <1>4 DEF delete_competitor, TableInv, TableTypes
  <2>2. \A other \in Names : Rows(other)' <= Rows(other)
    BY <1>4 DEF delete_competitor, Rows, TableInv, TableTypes
  <2>3. \A other \in Names : Rows(other)' \in Nat /\ Rows(other) \in Nat
    BY <2>1 DEF Rows, TableInv, TableTypes
  <2> QED BY <1>1, <2>1, <2>2, <2>3 DEF TableInv, LookedUp
<1>5. CASE delete_brand
  <2>1. TableTypes' /\ UNCHANGED raced
    BY <1>1, <1>5 DEF delete_brand, TableInv, TableTypes, Nobody
  <2>2. \A other \in Names : Rows(other)' = 0
    BY <1>5 DEF delete_brand, Rows, Nobody
  <2> QED BY <1>1, <2>1, <2>2 DEF TableInv, LookedUp
<1> QED
  BY <1>2, <1>3, <1>4, <1>5

\* A competitor is listed twice only by a person or by two open transactions
\* (store_competitors looks a name up in the transaction that inserts it, with
\* no unique index behind it): for any number of names, runs and jobs.
THEOREM OnlyRacesMakeTwins == ResearchSpec => []TwinsAreRaces
<1>1. InitResearch => TableInv
  BY DEF InitResearch, TableInv, TableTypes, LookedUp, Rows, Nobody
<1>2. TableInv /\ [NextResearch]_research_vars => TableInv'
  <2> SUFFICES ASSUME TableInv, [NextResearch]_research_vars PROVE TableInv' OBVIOUS
  <2>1. CASE \/ load_events \/ crawl_website \/ analyze_social \/ ReadKnown
             \/ analyze_competitors \/ identify_gaps \/ build_personas
    <3>1. UNCHANGED <<active, dropped, insert, raced>>
      BY <2>1 DEF load_events, crawl_website, analyze_social, ReadKnown, analyze_competitors,
         identify_gaps, build_personas
    <3>2. TableTypes'
      BY <2>1, <3>1 DEF load_events, crawl_website, analyze_social, ReadKnown,
         analyze_competitors, identify_gaps, build_personas, TableInv, TableTypes, Active, Sets,
         WithKnown
    <3> QED BY <3>1, <3>2, ReadingKeeps
  <2>2. CASE store_results
    <3>1. "research" \in Jobs BY DEF Jobs
    <3> QED BY <2>2, <3>1, InsertKeeps, CommitKeeps DEF store_results
  <2>3. CASE discover_competitors_standalone
    <3>1. "discover" \in Jobs BY DEF Jobs
    <3>2. CASE /\ UNCHANGED <<active, dropped, known_names, insert, raced>>
               /\ \E names \in Sets(MaxFound) :
                    found' = [found EXCEPT !["discover"] =
                                IF discover' = "store" THEN names \ Active ELSE {}]
      <4>1. TableTypes' BY <3>2 DEF TableInv, TableTypes, Sets
      <4> QED BY <3>2, <4>1, ReadingKeeps
    <3> QED BY <2>3, <3>1, <3>2, InsertKeeps, CommitKeeps DEF discover_competitors_standalone
  <2>4. CASE UNCHANGED research_vars
    <3>1. TableTypes' /\ UNCHANGED <<active, dropped, insert, raced>>
      BY <2>4 DEF research_vars, TableInv, TableTypes
    <3> QED BY <3>1, ReadingKeeps
  <2> QED BY <2>1, <2>2, <2>3, <2>4, PeopleKeep DEF NextResearch
<1>3. TableInv => TwinsAreRaces
  <2> SUFFICES ASSUME TableInv, NEW name \in Names, name \notin raced
               PROVE  ~(Rows(name) > 1)
    BY DEF TwinsAreRaces
  <2>1. Rows(name) <= 1 /\ Rows(name) \in Nat
    BY DEF TableInv, TableTypes, LookedUp, Rows
  <2> QED BY <2>1
<1> QED
  BY <1>1, <1>2, <1>3, PTL DEF ResearchSpec

-----------------------------------------------------------------------------
(* The catalogue: what the gallery lists and what the product shows are object *)
(* names, so nothing that is written over them is "no picture".                *)

Galleries == {entries \in Seq(ObjectNames) : Len(entries) <= MaxGallery}

CatalogueInv ==
    /\ pictures \in 0..MaxPictures /\ gallery \in Galleries
    /\ requests = [r \in PageSlots |-> requests[r]]
    /\ \A r \in PageSlots :
          requests[r] # Missing =>
            /\ requests[r].gallery \in Galleries
            /\ requests[r].step = "stored" \/ requests[r].kind = "delete"
                 => requests[r].name \in ObjectNames

\* The entries that are left are some of those there were.
LEMMA WithoutSome ==
  ASSUME NEW entries \in Seq(ObjectNames), NEW name
  PROVE  Without(entries, name) \in Seq(ObjectNames)
<1> DEFINE n == Len(entries)
           S == Seq(ObjectNames)
           Rest(i, s) == IF entries[i] = name THEN s ELSE Append(s, entries[i])
           rule == [i \in 1..n |-> [s \in S |-> Rest(i, s)]]
           Is(g) == g = [i \in 0..n |-> IF i = 0 THEN <<>> ELSE Rest(i, g[i - 1])]
           left == CHOOSE g : Is(g)
<1>1. n \in Nat /\ <<>> \in S /\ \A i \in 1..n, s \in S : Rest(i, s) \in S
  OBVIOUS
<1>2. Without(entries, name) = left[n]
  BY DEF Without
<1> HIDE DEF n, S, Rest
<1>3. rule \in [1..n -> [S -> S]]
  BY <1>1
<1>4. PICK f : Recurses(f, n, S, <<>>, rule)
  <2> HIDE DEF rule
  <2> QED
    BY <1>1, <1>3, Recursive
<1>5. \A i \in 1..n : f[i] = Rest(i, f[i - 1])
  <2> SUFFICES ASSUME NEW i \in 1..n PROVE f[i] = Rest(i, f[i - 1])
    OBVIOUS
  <2>1. i - 1 \in 0..n /\ rule[i] = [s \in S |-> Rest(i, s)]
    BY <1>1
  <2> HIDE DEF rule
  <2> QED
    BY <1>4, <2>1 DEF Recurses
<1>6. Is(f)
  BY <1>1, <1>4, <1>5 DEF Recurses
<1>7. Is(left)
  <2> HIDE DEF Is
  <2> QED
    BY <1>6
<1> DEFINE T == {i \in 0..n : left[i] \in S}
<1> HIDE DEF left
<1>8. 0 \in T
  BY <1>1, <1>7
<1>9. \A k \in 0..(n - 1) : k \in T => k + 1 \in T
  <2> SUFFICES ASSUME NEW k \in 0..(n - 1), k \in T PROVE k + 1 \in T
    OBVIOUS
  <2>1. k + 1 \in 1..n /\ k + 1 - 1 = k /\ k + 1 # 0 /\ k + 1 \in 0..n
    BY <1>1
  <2>2. left[k + 1] = Rest(k + 1, left[k])
    BY <1>7, <2>1
  <2> QED
    BY <1>1, <2>1, <2>2
<1>10. 0..n \subseteq T
  <2> HIDE DEF T
  <2> QED
    BY <1>1, <1>8, <1>9, UpTo
<1> QED
  BY <1>1, <1>2, <1>10 DEF S

LEMMA Named ==
  /\ \A name \in ObjectNames : name # Missing
  /\ \A n \in 1..MaxGallery + 1 : Web(n) \in ObjectNames
  /\ \A n \in 1..MaxPictures : Upload(n) \in ObjectNames
  /\ Card \in ObjectNames /\ External \in ObjectNames
  BY CatalogueAssumption DEF ObjectNames

LEMMA CatalogueStart == InitCatalogue => CatalogueInv
  BY CatalogueAssumption DEF InitCatalogue, CatalogueInv, Galleries

KeepsPicture ==
    primary # Missing /\ primary' = Missing =>
        \/ ~exists'
        \/ \E r \in PageSlots : requests[r] # Missing /\ requests[r].kind = "delete"
                                /\ requests'[r] = Missing

\* What a request writes back is a gallery, and a picture unless it deletes one.
LEMMA WriteBackKeeps ==
  ASSUME CatalogueInv, NEW r \in PageSlots, WriteBack(r)
  PROVE  gallery' \in Galleries /\ KeepsPicture
<1> DEFINE asked == requests[r]
<1>1. /\ asked # Missing /\ asked.gallery \in Galleries /\ asked.name \in ObjectNames
      /\ gallery \in Galleries /\ asked.name # Missing
  BY Named DEF CatalogueInv, WriteBack
<1>2. requests'[r] = Missing
  BY DEF CatalogueInv, WriteBack, Ends
<1>3. CASE asked.gone
  BY <1>1, <1>3 DEF WriteBack, KeepsPicture
<1>4. CASE ~asked.gone
  <2>1. /\ Len(GalleryOf(asked)) <= MaxGallery /\ gallery' = GalleryOf(asked)
        /\ primary' = IF NewPrimary(asked) = asked.primary THEN primary ELSE NewPrimary(asked)
    BY <1>4 DEF WriteBack
  <2>2. Without(asked.gallery, asked.name) \in Seq(ObjectNames)
    BY <1>1, WithoutSome DEF Galleries
  <2>3. GalleryOf(asked) \in Seq(ObjectNames)
    BY <1>1, <2>2 DEF GalleryOf, Galleries
  <2>4. asked.kind # "delete" => NewPrimary(asked) \in {asked.primary, asked.name}
    BY DEF NewPrimary
  <2> HIDE DEF asked
  <2>5. asked.kind # "delete" /\ primary # Missing => primary' # Missing
    BY <1>1, <2>1, <2>4
  <2> QED
    BY <1>1, <1>2, <2>1, <2>3, <2>5 DEF asked, KeepsPicture, Galleries
<1> QED
  BY <1>3, <1>4

LEMMA CatalogueStep ==
  CatalogueInv /\ [NextCatalogue]_catalogue_vars => CatalogueInv' /\ KeepsPicture
<1> SUFFICES ASSUME CatalogueInv, [NextCatalogue]_catalogue_vars
             PROVE  CatalogueInv' /\ KeepsPicture
  OBVIOUS
<1> USE DEF CatalogueInv, KeepsPicture, world_vars, product_vars
<1>1. ASSUME NEW r \in PageSlots, NEW kind, NEW name, NEW phase, ReadRow(r, kind, name, phase),
             phase = "stored" \/ kind = "delete" => name \in ObjectNames
      PROVE  CatalogueInv' /\ KeepsPicture
  BY <1>1 DEF ReadRow
<1>2. ASSUME NEW r \in PageSlots,
             \/ upload_product_image(r) \/ delete_product_image(r)
             \/ set_primary_product_image(r) \/ fetch_product_images(r)
      PROVE  CatalogueInv' /\ KeepsPicture
  <2>1. \A i \in DOMAIN gallery : gallery[i] \in ObjectNames
    BY DEF Galleries
  <2> QED
    BY <1>1, <1>2, <2>1 DEF upload_product_image, delete_product_image,
       set_primary_product_image, fetch_product_images
<1>3. ASSUME NEW r \in PageSlots, CallStore(r) PROVE CatalogueInv' /\ KeepsPicture
  <2>1. /\ requests[r] # Missing /\ requests[r].step = "read"
        /\ UNCHANGED <<gallery, primary>>
    BY <1>3 DEF CallStore
  <2>2. CASE Ends(r) /\ UNCHANGED pictures
    BY <2>1, <2>2 DEF Ends
  <2>3. ASSUME NEW name \in ObjectNames, Stores(r, name) PROVE CatalogueInv' /\ KeepsPicture
    <3>1. pictures' \in 0..MaxPictures
      BY <2>3, CatalogueAssumption DEF Stores, Put
    <3>2. requests' = [requests EXCEPT ![r].step = "stored", ![r].name = name]
      BY <2>3 DEF Stores
    <3> QED
      BY <2>1, <2>3, <3>1, <3>2
  <2>4. CASE Stores(r, Upload(pictures + 1))
    <3>1. pictures + 1 \in 1..MaxPictures
      BY <2>4, CatalogueAssumption DEF Stores
    <3> QED
      BY <2>3, <2>4, <3>1, Named
  <2>5. CASE \E name \in _fetch_one_product_image(requests[r].gallery) \ {Missing} :
               Stores(r, name)
    <3>1. Len(requests[r].gallery) + 1 \in 1..MaxGallery + 1
      BY <2>1, CatalogueAssumption DEF Galleries
    <3>2. _fetch_one_product_image(requests[r].gallery) \ {Missing} \subseteq ObjectNames
      BY <3>1, Named DEF _fetch_one_product_image
    <3> QED
      BY <2>3, <2>5, <3>2
  <2>6. CASE /\ requests[r].kind = "delete"
             /\ requests' = [requests EXCEPT ![r].step = "stored"]
             /\ UNCHANGED pictures
    BY <2>1, <2>6
  <2> QED
    BY <1>3, <2>2, <2>4, <2>5, <2>6 DEF CallStore
<1>4. ASSUME NEW r \in PageSlots, WriteBack(r) PROVE CatalogueInv' /\ KeepsPicture
  BY <1>4, WriteBackKeeps DEF WriteBack, Ends
<1>5. CASE update_product
  BY <1>5 DEF update_product
<1>7. ASSUME NEW filtered, Sync(filtered) PROVE CatalogueInv' /\ KeepsPicture
  <2>1. CASE upsert_from_bc /\ UNCHANGED requests
    BY <1>7, <2>1 DEF upsert_from_bc
  <2>2. CASE UNCHANGED requests /\ UNCHANGED product_vars
    BY <2>2
  <2>3. CASE prune_brand_products_not_in
             /\ requests' = [r \in PageSlots |->
                               IF requests[r] = Missing THEN Missing
                               ELSE [requests[r] EXCEPT !.gone = TRUE]]
    <3>1. <<>> \in Galleries
      BY CatalogueAssumption DEF Galleries
    <3>2. ASSUME NEW r \in PageSlots, requests'[r] # Missing
          PROVE  /\ requests[r] # Missing /\ requests'[r].gallery = requests[r].gallery
                 /\ requests'[r].step = requests[r].step /\ requests'[r].kind = requests[r].kind
                 /\ requests'[r].name = requests[r].name
      BY <2>3, <3>2
    <3> QED
      BY <2>3, <3>1, <3>2 DEF prune_brand_products_not_in
  <2> QED
    BY <1>7, <2>1, <2>2, <2>3 DEF Sync
<1>8. CASE sync_bc_products
  BY <1>7, <1>8 DEF sync_bc_products
<1>9. CASE sync_brand_products
  BY <1>7, <1>9 DEF sync_brand_products
<1>10. CASE StockMoves
  BY <1>10 DEF StockMoves
<1>11. CASE discover_brands
  BY <1>11 DEF discover_brands
<1>12. CASE research_brand
  BY <1>12 DEF research_brand
<1>13. CASE match_products_to_brands
  BY <1>13 DEF match_products_to_brands, upsert_product, Coalesce
<1>14. CASE source_product_images_node
  BY <1>14 DEF source_product_images_node, upsert_product, Coalesce
<1>15. CASE flag_promotable
  BY <1>15 DEF flag_promotable
<1>16. CASE UNCHANGED catalogue_vars
  BY <1>16 DEF catalogue_vars
<1> QED
  BY <1>2, <1>3, <1>4, <1>5, <1>8, <1>9, <1>10, <1>11, <1>12, <1>13, <1>14, <1>15, <1>16
     DEF NextCatalogue

\* Whatever a run or a sync read, and however late it writes, a product that has
\* a picture loses it only to a deletion somebody asked for or with its row
\* (upsert_product, upsert_from_bc).
THEOREM PicturesSurviveRuns == CatalogueSpec => ImageSurvivesRuns
<1>1. CatalogueInv /\ [NextCatalogue]_catalogue_vars => [KeepsPicture]_<<primary>>
  BY CatalogueStep
<1>2. [][KeepsPicture]_<<primary>> => ImageSurvivesRuns
  BY DEF KeepsPicture, ImageSurvivesRuns
<1> QED
  BY CatalogueStart, CatalogueStep, <1>1, <1>2, PTL DEF CatalogueSpec
=============================================================================

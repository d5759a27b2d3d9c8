----------------------------- MODULE BrandChain -----------------------------
(***************************************************************************)
(* How a brand is activated (backend api/v1/brands.py, api/v1/intelligence  *)
(* .py; agents/worker.py).  Activation is not a process: the endpoint sets  *)
(* a status and sends one message, and each workflow that completes under   *)
(* the "activation" trigger sends the next one, research -> strategy ->     *)
(* planning, until planning makes the brand active.  On the way messages    *)
(* meet completed stages (they skip ahead), runs that are already live      *)
(* (they are dropped), a human review of the strategy (the run pauses), and *)
(* the other triggers of the same workflows.                                *)
(*                                                                         *)
(* Runs are kept only while they matter: a completed one is an element of   *)
(* done, a failed one is nothing.  The batch that content generation walks  *)
(* through is the subject of ContentBatch; here a calendar is generated in  *)
(* one step.                                                                *)
(***************************************************************************)
EXTENDS Naturals, Bags

CONSTANTS
    RunSlots,    \* names for the runs that live at one time
    Requests,    \* what operators may ask for, besides activating
    MaxRequests, \* how often operators and the morning jobs act
    MaxDeaths    \* how many workers die

VARIABLES
    brand,     \* brands.status
    gate,      \* context_approvals: absent, or whether all documents are approved
    calendar,  \* the calendar items: none, planned, queued, made
    queue,     \* messages sent and not yet acknowledged
    runs,      \* per slot: a live or paused run, or the executor of a cancelled one
    done,      \* agent types with a completed row
    requested, \* requests so far
    deaths,    \* deaths so far
    broken     \* was the last activation cut short in a known way, or set by hand?

chain_vars == <<brand, gate, calendar, queue, runs, done, requested, deaths, broken>>

Reports == {"research", "strategy", "planning"}
Reviewed == {"strategy", "adaptation"}   \* graphs with an interrupt
NoRun == [stage |-> "none", trigger |-> "none", depth |-> 0, row |-> "none",
          at |-> "none", fed |-> FALSE]

Msg(to, trigger, depth) ==
    [to |-> to, trigger |-> trigger, depth |-> depth, checked |-> FALSE]

Default(trigger, default) == IF trigger = "none" THEN default ELSE trigger

Send(ms) == queue' = queue (+) SetToBag(ms)
Replace(m, ms) == queue' = (queue (-) SetToBag({m})) (+) SetToBag(ms)

\* The partial unique index on agent_runs.
Running(stage) == \E s \in RunSlots : runs[s].stage = stage /\ runs[s].row = "running"
AnyRunning == \E s \in RunSlots : runs[s].row = "running"

\* The stage an activation goes on with after this one: the first report that
\* has not completed, and content when there is none.
NextOpen(stage) ==
    CASE stage = "research" /\ "strategy" \notin done -> "strategy"
      [] stage # "planning" /\ "planning" \notin done -> "planning"
      [] OTHER -> "content"

InitChain ==
    /\ brand = "onboarding" /\ gate = "absent" /\ calendar = "none"
    /\ queue = EmptyBag /\ runs = [s \in RunSlots |-> NoRun] /\ done = {}
    /\ requested = 0 /\ deaths = 0 /\ broken = FALSE

----------------------------------------------------------------------------
(* The operators and the morning jobs *)

Ask == requested < MaxRequests /\ requested' = requested + 1

\* The status is committed first; the message may not be sent.
Activate ==
    /\ Ask
    /\ brand = "activating" => ~AnyRunning
    /\ brand' = "activating"
    /\ gate' = IF gate = "approved" THEN gate ELSE "pending"
    /\ \/ Send({Msg("research", "activation", 0)}) /\ broken' = FALSE
       \/ broken' = TRUE /\ UNCHANGED queue
    /\ UNCHANGED <<calendar, runs, done, deaths>>

\* A manager's PUT sets any status and starts nothing. One that deactivates the
\* brand cancels its running rows; the graphs behind them go on.
UpdateBrand ==
    /\ "update" \in Requests /\ Ask
    /\ \/ /\ brand' \in {"inactive", "onboarding"}
          /\ runs' = [s \in RunSlots |-> IF runs[s].row # "running" THEN runs[s]
                                         ELSE IF runs[s].at = "dead" THEN NoRun
                                         ELSE [runs[s] EXCEPT !.row = "cancelled"]]
          /\ broken' = (broken \/ AnyRunning)
       \/ /\ brand' \in {"active", "activating"}
          /\ broken' = (broken \/ (brand' = "activating" /\ brand # "activating"))
          /\ UNCHANGED runs
    /\ UNCHANGED <<gate, calendar, queue, done, deaths>>

\* The trigger endpoints send no trigger; a re-plan from the overrides does.
Trigger(stage) ==
    /\ stage \in Requests /\ Ask
    /\ \E trigger \in IF stage = "planning" THEN {"none", "manual"} ELSE {"none"} :
           Send({Msg(stage, trigger, 0)})
    /\ UNCHANGED <<brand, gate, calendar, runs, done, deaths, broken>>

MorningEvaluation ==
    /\ "morning" \in Requests /\ Ask
    /\ brand = "active"
    /\ Send({Msg("evaluation", "none", 0)})
    /\ UNCHANGED <<brand, gate, calendar, runs, done, deaths, broken>>

\* All four documents approved closes the gate for good.
ApproveContext ==
    /\ gate # "approved" /\ done # {}
    /\ gate' = "approved"
    /\ UNCHANGED <<brand, calendar, queue, runs, done, requested, deaths, broken>>

GenerateContent ==
    /\ "generate" \in Requests /\ Ask
    /\ gate # "pending" /\ Reports \subseteq done
    /\ calendar \in {"planned", "queued"}
    /\ calendar' = "queued"
    /\ Send({Msg("item", "manual", 0)})
    /\ UNCHANGED <<brand, gate, runs, done, deaths, broken>>

----------------------------------------------------------------------------
(* The worker takes a message *)

\* A content message without an item: queue what is planned and start on it,
\* or plan again when there is nothing.
ContentSkipForward(m) ==
    /\ BagIn(m, queue) /\ m.to = "content"
    /\ IF calendar \in {"planned", "queued"}
       THEN /\ calendar' = "queued"
            /\ Replace(m, {Msg("item", Default(m.trigger, "activation"), m.depth)})
            /\ UNCHANGED done
       ELSE /\ done' = done \ {"planning"}
            /\ Replace(m, {Msg("planning", Default(m.trigger, "activation"), 0)})
            /\ UNCHANGED calendar
    /\ UNCHANGED <<brand, gate, runs, requested, deaths, broken>>

ContentItems(m) ==
    /\ BagIn(m, queue) /\ m.to = "item"
    /\ Replace(m, {})
    /\ calendar' \in {calendar, IF calendar = "queued" THEN "made" ELSE calendar}
    /\ UNCHANGED <<brand, gate, runs, done, requested, deaths, broken>>

NeedsCheck(m) == m.to \in Reports /\ m.trigger = "activation" /\ ~m.checked

\* An activation message asks whether its stage is already done.  One that
\* skips past planning leaves the brand's status to nobody.
EntrySkip(m) ==
    /\ BagIn(m, queue) /\ NeedsCheck(m)
    /\ IF m.to \in done
       THEN /\ Replace(m, {Msg(NextOpen(m.to), "activation", 0)})
            /\ broken' = (broken \/ NextOpen(m.to) = "content")
       ELSE /\ Replace(m, {[m EXCEPT !.checked = TRUE]})
            /\ UNCHANGED broken
    /\ UNCHANGED <<brand, gate, calendar, runs, done, requested, deaths>>

\* Mutant: no workflow looks for its input.
AlwaysFed(stage) == TRUE

\* What load_research and load_strategy find.
Fed(stage) ==
    /\ stage = "strategy" => "research" \in done
    /\ stage = "planning" => "strategy" \in done

\* The run's row is inserted, or the message is dropped as a duplicate.
StartRun(m) ==
    /\ BagIn(m, queue) /\ m.to \notin {"content", "item"} /\ ~NeedsCheck(m)
    /\ \E s \in RunSlots : runs[s] = NoRun
    /\ Replace(m, {})
    /\ IF Running(m.to)
       THEN /\ broken' = (broken \/ m.trigger = "activation")
            /\ UNCHANGED runs
       ELSE LET s == CHOOSE s \in RunSlots : runs[s] = NoRun IN
            /\ runs' = [runs EXCEPT ![s] =
                   [stage |-> m.to, trigger |-> m.trigger, depth |-> m.depth,
                    row |-> "running", at |-> "work", fed |-> Fed(m.to)]]
            /\ UNCHANGED broken
    /\ UNCHANGED <<brand, gate, calendar, done, requested, deaths>>

----------------------------------------------------------------------------
(* A run ends *)

FailRun(s) ==
    /\ runs[s].at = "work"
    /\ runs' = [runs EXCEPT ![s] = NoRun]
    /\ broken' = (broken \/ runs[s].trigger = "activation")
    /\ UNCHANGED <<brand, gate, calendar, queue, done, requested, deaths>>

\* A strategy is reviewed unless the trigger is "event"; a cancelled run
\* cannot be recorded as paused and ends here.
PauseRun(s) ==
    /\ runs[s].at = "work" /\ runs[s].fed
    /\ runs[s].stage \in Reviewed
    /\ runs[s].stage = "strategy" => runs[s].trigger # "event"
    /\ runs' = [runs EXCEPT ![s] =
           IF @.row = "running" THEN [@ EXCEPT !.row = "paused", !.at = "review"]
           ELSE NoRun]
    /\ UNCHANGED <<brand, gate, calendar, queue, done, requested, deaths, broken>>

\* A decision: the run goes on, unless another of its kind is live.
ResumeRun(s) ==
    /\ runs[s].row = "paused" /\ ~Running(runs[s].stage)
    /\ runs' = [runs EXCEPT ![s].row = "running", ![s].at = "work"]
    /\ UNCHANGED <<brand, gate, calendar, queue, done, requested, deaths, broken>>

Activating(r) == r.stage = "planning" /\ r.trigger = "activation"

\* The row, if still running, is completed; a strategy stores a completed row
\* of its own.  Planning replaces what is planned and, under an activation,
\* makes the brand active.
CompleteRun(s) ==
    LET r == runs[s] IN
    /\ r.at = "work" /\ r.fed
    /\ done' = IF r.row = "running" \/ r.stage = "strategy"
               THEN done \cup {r.stage} ELSE done
    /\ calendar' = IF r.stage = "planning" /\ calendar # "queued" THEN "planned" ELSE calendar
    /\ brand' = IF Activating(r) THEN "active" ELSE brand
    /\ runs' = [runs EXCEPT ![s].row = "none", ![s].at = "chain"]
    /\ UNCHANGED <<gate, queue, requested, deaths, broken>>

\* Mutant: the strategy of an activation is not followed by a plan.
NextNever(r) ==
    IF r.trigger = "activation" /\ r.stage = "research" THEN {NextOpen(r.stage)}
    ELSE IF r.stage = "evaluation" THEN {"adaptation"} ELSE {"none"}

\* CHAIN_NEXT and its two conditional links; only applied changes of a higher
\* tier lead to a new plan.
NextSubjects(r) ==
    CASE r.trigger = "activation" /\ r.stage \in {"research", "strategy"} ->
             {NextOpen(r.stage)}
      [] r.stage = "evaluation" -> {"adaptation"}
      [] r.stage = "product" /\ "research" \in done -> {"strategy"}
      [] r.stage = "adaptation" /\ r.depth + 1 < 2 -> {"none", "planning"}
      [] OTHER -> {"none"}

\* After the acknowledgement: the next message, and once more the status.  An
\* activation with every report done has nothing to chain to.
ChainRun(s) ==
    LET r == runs[s] IN
    /\ r.at = "chain"
    /\ \E next \in NextSubjects(r) :
         /\ IF next \in {"none", "content"} THEN UNCHANGED queue
            ELSE Send({Msg(next, Default(r.trigger, "event"), r.depth + 1)})
         /\ broken' = (broken \/ next = "content")
    /\ brand' = IF Activating(r) THEN "active" ELSE brand
    /\ runs' = [runs EXCEPT ![s] = NoRun]
    /\ UNCHANGED <<gate, calendar, done, requested, deaths>>

\* The worker dies: before the acknowledgement the message comes back, and
\* the row stays running; after it the next message is never sent.
Die(s) ==
    LET r == runs[s] IN
    /\ deaths < MaxDeaths /\ deaths' = deaths + 1
    /\ r.at \in {"work", "chain"}
    /\ broken' = TRUE
    /\ IF r.at = "work" THEN Send({Msg(r.stage, r.trigger, r.depth)}) ELSE UNCHANGED queue
    /\ runs' = [runs EXCEPT ![s] = IF r.row = "running" THEN [r EXCEPT !.at = "dead"] ELSE NoRun]
    /\ UNCHANGED <<brand, gate, calendar, done, requested>>

ReapRun(s) ==
    /\ runs[s].at = "dead"
    /\ runs' = [runs EXCEPT ![s] = NoRun]
    /\ UNCHANGED <<brand, gate, calendar, queue, done, requested, deaths, broken>>

TakeMessage(m) == ContentSkipForward(m) \/ ContentItems(m) \/ EntrySkip(m) \/ StartRun(m)
Settle(s) == FailRun(s) \/ PauseRun(s) \/ CompleteRun(s) \/ ChainRun(s) \/ ReapRun(s)

NextChain ==
    \/ Activate \/ UpdateBrand \/ MorningEvaluation \/ ApproveContext \/ GenerateContent
    \/ \E stage \in Reports \cup {"content", "product"} : Trigger(stage)
    \/ \E m \in BagToSet(queue) : TakeMessage(m)
    \/ \E s \in RunSlots : Settle(s) \/ ResumeRun(s) \/ Die(s)

\* Messages are delivered and graphs end; nobody is obliged to decide.
ChainFairness ==
    /\ WF_chain_vars(\E m \in BagToSet(queue) : TakeMessage(m))
    /\ \A s \in RunSlots : WF_chain_vars(Settle(s))

ChainSpec == InitChain /\ [][NextChain]_chain_vars /\ ChainFairness

----------------------------------------------------------------------------
(* Properties *)

\* An activation ends with an active brand or waits for the review of a
\* strategy, unless it was cut short in one of the ways the module names:
\* the message not sent, a failure, a cancellation, a death, a duplicate
\* dropped, a chain that skipped past planning, or a status that a manager wrote
\* by hand (brands.py, activate_content_factory; worker.py, _invoke_and_settle).
ActivationEnds ==
    brand = "activating" ~>
        \/ brand # "activating" \/ broken
        \/ \E s \in RunSlots : runs[s].row = "paused" /\ runs[s].stage = "strategy"

\* Whatever skips, repeats, cancellations and plain triggers there were, the
\* runs make a brand active only with a research report and an approved strategy
\* behind its plan; only a manager can, with a PUT of the status, that asks for
\* neither (update_brand).
ActiveHasStrategy ==
    [][brand # "active" /\ brand' = "active" /\ ~UpdateBrand
       => {"research", "strategy"} \subseteq done']_chain_vars

=============================================================================

------------------------------ MODULE Strategy ------------------------------
(***************************************************************************)
(* One strategy run of a brand, its review, and what planning then reads    *)
(* (agents workflows/strategy, shared/tools/database.py, planning's          *)
(* load_strategy; backend api/v1/intelligence.py and brands.py).  A reviewed *)
(* strategy leaves two completed rows: the one store_strategy inserts, under *)
(* the document's key names, and the run's own, under the graph's.  Editors  *)
(* write the document's keys of either row, planning reads the graph's keys  *)
(* of the newest.                                                            *)
(*                                                                         *)
(* A part of a strategy is the version of the text it holds: 0 for an empty  *)
(* one, 1 as generated, 1 + r after revision r, Edited from an editor.       *)
(***************************************************************************)
EXTENDS Naturals, FiniteSets

CONSTANTS MaxEdits, \* edits of a report
          Answers,  \* the parts an answer to a revision may hold
          Nothing   \* no row, no interrupt, no edit

VARIABLES
    unattended, \* trigger = "event", or the message said auto_approve
    auto,       \* brand_guidelines.pipeline_auto_approve
    research,   \* a completed research row exists
    position,   \* the graph's next node
    run_status, \* agent_runs.status of the run
    parts,      \* the graph's state
    revision_count,
    shown,      \* what the open interrupt shows
    stored,     \* store_strategy's row
    own,        \* output_payload of the run's row
    edit,       \* an edit_report between its read and its commit
    edits,
    plan,       \* the strategy the last planning run loaded
    accepted,   \* history: the strategies approved, by a reviewer or unasked
    overruled   \* history: those rejected and stored all the same

strategy_vars ==
    <<unattended, auto, research, position, run_status, parts, revision_count, shown, stored, own,
      edit, edits, plan, accepted, overruled>>

MAX_REVISIONS == 2

Parts == {"positioning", "pillars", "audiences", "cadence", "themes"}
Edited == MAX_REVISIONS + 2
Empty == [part \in Parts |-> 0]

\* A payload: the graph's keys and the document's.
Payload(graph, doc) == [graph |-> graph, doc |-> doc]

\* positioning has one name in both.
Positioning(doc) == [Empty EXCEPT !["positioning"] = doc["positioning"]]

InitStrategy ==
    /\ unattended \in BOOLEAN /\ auto \in BOOLEAN /\ research \in BOOLEAN
    /\ position = "load" /\ run_status = "running" /\ parts = Empty /\ revision_count = 0
    /\ shown = Nothing /\ stored = Nothing /\ own = Payload(Empty, Empty)
    /\ edit = Nothing /\ edits = 0 /\ plan = Nothing
    /\ accepted = {} /\ overruled = {}

----------------------------------------------------------------------------
(* The graph: a node that fails, or cannot write, ends it *)

GotoPart(next) == position' \in {next, "failed"}

load_research ==
    /\ position = "load" /\ position' = (IF research THEN "positioning" ELSE "failed")
    /\ UNCHANGED <<unattended, auto, research, run_status, parts, revision_count, shown, stored,
                   own, edit, edits, plan, accepted, overruled>>

Generate(part, next, versions) ==
    /\ position = part /\ GotoPart(next)
    /\ parts' \in {[parts EXCEPT ![part] = v] : v \in versions}
    /\ UNCHANGED <<unattended, auto, research, run_status, revision_count, shown, stored, own,
                   edit, edits, plan, accepted, overruled>>

\* An answer that is not JSON is kept as it is, one that is may be empty.
generate_positioning == Generate("positioning", "pillars", {0, 1})

define_pillars == Generate("pillars", "audiences", {0, 1})

define_audiences == Generate("audiences", "cadence", {0, 1})

\* Every enabled channel gets an entry, and there always is one.
plan_cadence == Generate("cadence", "themes", {1})

generate_themes == Generate("themes", "review", {0, 1})

----------------------------------------------------------------------------
(* Review *)

store_strategy == stored' = Payload(Positioning(parts), parts)

\* The node runs from its top at the pause and again at the resume.
AutoApproves == unattended \/ auto

\* What is approved without being asked is stored, whatever the row says; a
\* pause is recorded only on a row that is still running, and else lost.
human_review ==
    /\ position = "review" /\ run_status # "paused"
    /\ \/ /\ AutoApproves
          /\ store_strategy /\ position' = "approved" /\ accepted' = accepted \cup {parts}
          /\ UNCHANGED <<run_status, shown>>
       \/ AutoApproves /\ position' = "failed" /\ UNCHANGED <<run_status, shown, stored, accepted>>
       \/ /\ ~AutoApproves /\ run_status = "running"
          /\ shown' = parts /\ run_status' = "paused"
          /\ UNCHANGED <<position, stored, accepted>>
       \/ /\ ~AutoApproves /\ run_status # "running" /\ position' = "end"
          /\ UNCHANGED <<run_status, shown, stored, accepted>>
    /\ UNCHANGED <<unattended, auto, research, parts, revision_count, own, edit, edits, plan,
                   overruled>>

\* Mutant: what is not a rejection is an approval.
OpenApproves(decision) == decision # "rejected"

\* Whatever is not an approval is a rejection.
Approves(decision) == decision = "approved"

\* The run is resumed with a decision.  The flag is read again, before the
\* decision is: if it is set by now, what was rejected is stored.
Resume(decision) ==
    /\ position = "review" /\ run_status = "paused"
    /\ run_status' = "running" /\ shown' = Nothing
    /\ IF decision = "approved"
         THEN accepted' = accepted \cup {shown} /\ UNCHANGED overruled
         ELSE /\ overruled' = IF AutoApproves THEN overruled \cup {shown} ELSE overruled
              /\ UNCHANGED accepted
    /\ \/ /\ AutoApproves \/ Approves(decision)
          /\ \/ store_strategy /\ position' = "approved"
             \/ UNCHANGED stored /\ position' = "failed"
       \/ /\ ~AutoApproves /\ ~Approves(decision) /\ UNCHANGED stored
          /\ position' = IF revision_count >= MAX_REVISIONS THEN "failed" ELSE "revise"
    /\ UNCHANGED <<unattended, auto, research, parts, revision_count, own, edit, edits, plan>>

\* Only what the answer holds replaces what was there.
Revised(returned, version) ==
    [part \in Parts |-> IF part \in returned THEN version ELSE parts[part]]

revise_strategy ==
    /\ position = "revise"
    /\ \/ /\ position' = "review" /\ revision_count' = revision_count + 1
          /\ \E returned \in Answers : parts' = Revised(returned, revision_count + 2)
       \/ position' = "failed" /\ UNCHANGED <<parts, revision_count>>
    /\ UNCHANGED <<unattended, auto, research, run_status, shown, stored, own, edit, edits, plan,
                   accepted, overruled>>

\* Only a row that is still running is completed.
complete_agent_run ==
    /\ position \in {"approved", "failed"}
    /\ position' = "end"
    /\ IF run_status = "running"
         THEN /\ run_status' = IF position = "approved" THEN "completed" ELSE "failed"
              /\ own' = Payload(parts, Positioning(parts))
         ELSE UNCHANGED <<run_status, own>>
    /\ UNCHANGED <<unattended, auto, research, parts, revision_count, shown, stored, edit,
                   edits, plan, accepted, overruled>>

----------------------------------------------------------------------------
(* The brand's people *)

\* Saving the brand's guidelines, at any time.
SetAutoApprove ==
    /\ auto' = ~auto
    /\ UNCHANGED <<unattended, research, position, run_status, parts, revision_count, shown, stored,
                   own, edit, edits, plan, accepted, overruled>>

\* Deactivating the brand cancels the row, and not the graph.
Deactivate ==
    /\ run_status = "running" /\ run_status' = "cancelled"
    /\ UNCHANGED <<unattended, auto, research, position, parts, revision_count, shown, stored,
                   own, edit, edits, plan, accepted, overruled>>

\* An editor's request reads a row, whatever its status, and asks for a new
\* summary before it writes.
OpenReport ==
    /\ edit = Nothing /\ edits < MaxEdits
    /\ edits' = edits + 1
    /\ \E part \in Parts :
         \/ edit' = [row |-> "own", payload |-> own, part |-> part]
         \/ stored # Nothing /\ edit' = [row |-> "stored", payload |-> stored, part |-> part]
    /\ UNCHANGED <<unattended, auto, research, position, run_status, parts, revision_count, shown,
                   stored, own, plan, accepted, overruled>>

\* The payload that was read, with the edited key, is the row's payload: what
\* the run wrote since then is gone.
WithEdit(payload, part) ==
    Payload([payload.graph EXCEPT ![part] = IF part = "positioning" THEN Edited ELSE @],
            [payload.doc EXCEPT ![part] = Edited])

edit_report ==
    /\ edit # Nothing /\ edit' = Nothing
    /\ IF edit.row = "own"
         THEN own' = WithEdit(edit.payload, edit.part) /\ UNCHANGED stored
         ELSE stored' = WithEdit(edit.payload, edit.part) /\ UNCHANGED own
    /\ UNCHANGED <<unattended, auto, research, position, run_status, parts, revision_count, shown,
                   edits, plan, accepted, overruled>>

----------------------------------------------------------------------------
(* Planning *)

\* The newest completed row: the run's own is completed last.
get_latest_strategy ==
    IF run_status = "completed" THEN own ELSE stored

\* Whatever the row, the graph's keys are read.
load_strategy ==
    /\ get_latest_strategy # Nothing
    /\ plan' = get_latest_strategy.graph
    /\ UNCHANGED <<unattended, auto, research, position, run_status, parts, revision_count, shown,
                   stored, own, edit, edits, accepted, overruled>>

NextStrategy ==
    \/ load_research \/ generate_positioning \/ define_pillars \/ define_audiences
    \/ plan_cadence \/ generate_themes \/ human_review \/ revise_strategy
    \/ \E decision \in {"approved", "rejected", "other"} : Resume(decision)
    \/ complete_agent_run
    \/ SetAutoApprove \/ Deactivate \/ OpenReport \/ edit_report \/ load_strategy

StrategySpec == InitStrategy /\ [][NextStrategy]_strategy_vars

----------------------------------------------------------------------------
(* Properties *)

\* A plan is made of text that was approved, part by part, or that an editor
\* wrote, through revisions, cancellations, edits of stale rows and flags set or
\* reset at any time.  One exception: the text of a strategy that was rejected
\* when the brand had been set to approve unasked while its run waited
\* (human_review, edit_report, get_latest_strategy).
PlanIsVetted ==
    plan # Nothing =>
        \A part \in Parts :
            plan[part] \in {0, Edited} \cup {strategy[part] : strategy \in accepted \cup overruled}

=============================================================================

------------------------------ MODULE Research ------------------------------
(***************************************************************************)
(* Research of a brand and its competitors table (agents workflows/research *)
(* nodes.py, discover_competitors.py and graph.py; store_competitors in      *)
(* shared/tools/database.py; the competitor endpoints of backend brands.py). *)
(* Three write the table: a research run, the Auto-discover job, which takes *)
(* no run lock, and the brand's people.  The two jobs look a name up and     *)
(* insert it in a transaction of their own, and no unique index is behind    *)
(* them.                                                                    *)
(*                                                                         *)
(* A competitor is its name.  Pages, profiles, gaps and personas are what    *)
(* prompts are made of, and are left out with the wording.                   *)
(***************************************************************************)
EXTENDS Naturals, FiniteSets

CONSTANTS Names,    \* competitors' names, in lower case
          MaxFound, \* names taken from one answer of the model
          MaxJobs,  \* jobs of each kind
          MaxTwins  \* rows of one name

VARIABLES
    brand,         \* the brand's row exists
    active,        \* rows of a name with is_active
    dropped,       \* rows of a name without
    research_node, \* the research run's next node
    known_names,   \* existing_competitors, as the node read them
    found,         \* what each job brings to the table
    insert,        \* names an open transaction of a job has inserted
    discover,      \* the Auto-discover job's next step
    report,        \* competitor_analysis of the last completed research run
    started,       \* jobs started of each kind
    raced          \* history: names two open transactions inserted, or a person wrote

research_vars ==
    <<brand, active, dropped, research_node, known_names, found, insert, discover, report,
      started, raced>>

Jobs == {"research", "discover"}
Nobody == [name \in Names |-> 0]
Rows(name) == active[name] + dropped[name]
Active == {name \in Names : active[name] > 0}

InitResearch ==
    /\ brand = TRUE /\ active = Nobody /\ dropped = Nobody
    /\ research_node = "idle" /\ discover = "idle" /\ known_names = {}
    /\ found = [job \in Jobs |-> {}] /\ insert = [job \in Jobs |-> {}]
    /\ report = {} /\ started = [job \in Jobs |-> 0] /\ raced = {}

Sets(max) == {names \in SUBSET Names : Cardinality(names) <= max}

----------------------------------------------------------------------------
(* The research run: a node that fails ends it *)

\* Without events the research goes on.
load_events ==
    /\ research_node = "idle" /\ started["research"] < MaxJobs
    /\ started' = [started EXCEPT !["research"] = @ + 1]
    /\ research_node' = "crawl" /\ known_names' = {}
    /\ UNCHANGED <<brand, active, dropped, found, insert, discover, report, raced>>

GoOn(next) == research_node' \in {next, "idle"}

\* No brand, no website and no page are one failure.
crawl_website ==
    /\ research_node = "crawl" /\ GoOn("social") /\ (~brand => research_node' = "idle")
    /\ UNCHANGED <<brand, active, dropped, known_names, found, insert, discover,
                   report, started, raced>>

analyze_social ==
    /\ research_node = "social" /\ GoOn("competitors") /\ (~brand => research_node' = "idle")
    /\ UNCHANGED <<brand, active, dropped, known_names, found, insert, discover,
                   report, started, raced>>

\* The active rows are read before the model is asked.  A brand that is gone by
\* then is an error the node does not catch.
ReadKnown ==
    /\ research_node = "competitors"
    /\ IF brand THEN research_node' = "identify" /\ known_names' = Active
                ELSE research_node' = "idle" /\ UNCHANGED known_names
    /\ UNCHANGED <<brand, active, dropped, found, insert, discover, report, started, raced>>

\* What is known and was not found again is added.
WithKnown(discovered) == discovered \cup known_names

\* A short answer is completed by web searches; at most five are taken.
analyze_competitors ==
    /\ research_node = "identify" /\ GoOn("gaps")
    /\ \E discovered \in Sets(MaxFound) :
         found' = [found EXCEPT !["research"] = WithKnown(discovered)]
    /\ UNCHANGED <<brand, active, dropped, known_names, insert, discover,
                   report, started, raced>>

identify_gaps ==
    /\ research_node = "gaps" /\ GoOn("personas")
    /\ UNCHANGED <<brand, active, dropped, known_names, found, insert, discover,
                   report, started, raced>>

build_personas ==
    /\ research_node = "personas" /\ GoOn("store")
    /\ UNCHANGED <<brand, active, dropped, known_names, found, insert, discover,
                   report, started, raced>>

----------------------------------------------------------------------------
(* store_competitors, from either job *)

\* Mutant: only an active row counts.
AnyNames(names) == {name \in names : active[name] = 0}

\* A name with a row, active or not, is left alone.
NewNames(names) == {name \in names : Rows(name) = 0}

OtherOpen(job) == UNION {insert[other] : other \in Jobs \ {job}}

\* Nobody sees the rows of a transaction before its commit.
Insert(job) ==
    /\ insert' = [insert EXCEPT ![job] = NewNames(found[job])]
    /\ UNCHANGED <<brand, active, dropped, known_names, found, report, started, raced>>

\* Without the brand the foreign key refuses them all.
CommitRows(job) ==
    /\ active' = IF brand THEN [name \in Names |->
                                  active[name] + IF name \in insert[job] THEN 1 ELSE 0]
                          ELSE active
    /\ raced' = IF brand THEN raced \cup (insert[job] \cap OtherOpen(job)) ELSE raced
    /\ insert' = [insert EXCEPT ![job] = {}]
    /\ found' = [found EXCEPT ![job] = {}]
    /\ UNCHANGED <<brand, dropped, known_names, started>>

\* The vector store may be down.
store_results ==
    \/ /\ research_node = "store" /\ research_node' = "commit"
       /\ Insert("research") /\ UNCHANGED discover
    \/ /\ research_node = "commit" /\ research_node' = "idle"
       /\ CommitRows("research") /\ UNCHANGED discover
       /\ report' = IF brand THEN found["research"] ELSE report

\* The job asks the web and the model, and drops what was active by name when
\* it began.  A brand that is gone has an empty name.
discover_competitors_standalone ==
    \/ /\ discover = "idle" /\ started["discover"] < MaxJobs
       /\ started' = [started EXCEPT !["discover"] = @ + 1]
       /\ discover' \in {"store", "idle"}
       /\ \E names \in Sets(MaxFound) :
            found' = [found EXCEPT !["discover"] =
                        IF discover' = "store" THEN names \ Active ELSE {}]
       /\ UNCHANGED <<brand, active, dropped, research_node, known_names, insert, report, raced>>
    \/ /\ discover = "store" /\ discover' = "commit"
       /\ Insert("discover") /\ UNCHANGED research_node
    \/ /\ discover = "commit" /\ discover' = "idle"
       /\ CommitRows("discover") /\ UNCHANGED <<research_node, report>>

----------------------------------------------------------------------------
(* The brand's people *)

\* No lookup: a person may add a name twice.
create_competitor ==
    /\ brand
    /\ \E name \in Names :
         /\ Rows(name) < MaxTwins
         /\ active' = [active EXCEPT ![name] = @ + 1]
         /\ raced' = raced \cup {name}
    /\ UNCHANGED <<brand, dropped, research_node, known_names, found, insert, discover,
                   report, started>>

update_competitor ==
    /\ \E name \in Names :
         /\ active[name] > 0
         /\ active' = [active EXCEPT ![name] = @ - 1]
         /\ dropped' = [dropped EXCEPT ![name] = @ + 1]
    /\ UNCHANGED <<brand, research_node, known_names, found, insert, discover,
                   report, started, raced>>

\* A research run that read the row before still brings it back.
delete_competitor ==
    /\ \E name \in Names :
         \/ active[name] > 0 /\ active' = [active EXCEPT ![name] = @ - 1] /\ UNCHANGED dropped
         \/ dropped[name] > 0 /\ dropped' = [dropped EXCEPT ![name] = @ - 1] /\ UNCHANGED active
    /\ UNCHANGED <<brand, research_node, known_names, found, insert, discover,
                   report, started, raced>>

\* The rows go with the brand.
delete_brand ==
    /\ brand /\ brand' = FALSE
    /\ active' = Nobody /\ dropped' = Nobody
    /\ UNCHANGED <<research_node, known_names, found, insert, discover, report, started, raced>>

NextResearch ==
    \/ load_events \/ crawl_website \/ analyze_social \/ ReadKnown \/ analyze_competitors
    \/ identify_gaps \/ build_personas \/ store_results
    \/ discover_competitors_standalone
    \/ create_competitor \/ update_competitor \/ delete_competitor \/ delete_brand

ResearchSpec == InitResearch /\ [][NextResearch]_research_vars

----------------------------------------------------------------------------
(* Properties *)

\* Two rows of one competitor are the doing of a person or of two writers at
\* once: jobs one after the other, with rows dismissed and deleted in between,
\* never list a name twice (store_competitors).
TwinsAreRaces == \A name \in Names : Rows(name) > 1 => name \in raced

=============================================================================

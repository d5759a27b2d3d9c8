---------------------------- MODULE ContentBatch ----------------------------
(***************************************************************************)
(* How one brand's queue of calendar items is walked by content.generate   *)
(* messages (agents/worker.py).  The batch lives only in the message in    *)
(* flight: an item to generate and the queue behind it.  A message without *)
(* an item asks the worker to derive the queue from the rows; a message    *)
(* that ends an item publishes the next.  The brand's content run row is   *)
(* the lock that keeps two runs apart.                                      *)
(*                                                                         *)
(* Items are numbered by scheduled_at.  JetStream redelivers a message that *)
(* was not acknowledged, MaxDeliver times at most.                         *)
(***************************************************************************)
EXTENDS Integers, Sequences, FiniteSets

CONSTANTS
    Items,       \* calendar items of the brand, 1..n in order of scheduled_at
    Reels,       \* those planned as item_type 'reel'
    Planned,     \* those that may still be 'planned' at the start, not 'queued'
    Workers,     \* agents' workers
    Slots,       \* bound: messages of the lane that exist at once
    MaxDeliver,  \* _MAX_DELIVER
    BatchLimit,  \* LIMIT of the queue derivation
    TopUpLimit,  \* _TOPUP_BATCH_LIMIT
    Triggers,    \* sources of messages in use
    MaxTriggers, \* bound: messages from outside, the morning job's apart
    Faults,      \* what may go wrong
    MaxFaults,   \* bound: faults
    Free         \* model value: nothing, nobody

ASSUME BatchAssumption ==
    /\ Items \subseteq Nat /\ IsFiniteSet(Items)
    /\ Reels \subseteq Items /\ Planned \subseteq Items
    /\ MaxDeliver \in Nat /\ BatchLimit \in Nat /\ TopUpLimit \in Nat
    /\ 1..TopUpLimit \subseteq Slots  \* a round of the morning job fits the lane
    /\ Free \notin Items /\ Workers \cap {Free, "dead"} = {}

VARIABLES
    status,   \* calendar_items.status
    msgs,     \* content.generate messages of the brand
    at,       \* the handler each worker runs
    lock,     \* owner of the 'running' content run: Free, a worker or "dead"
    renders,  \* reels with a video.render message waiting (of several, the later
              \* ones find the reel past its queue)
    replanned, \* has a new plan been asked for (planning.trigger)?
    sent,     \* messages from outside so far, the morning job's apart
    asked,    \* was content.generate ever sent without an item from outside?
    faults,   \* faults so far
    gens,     \* history: content versions of an item, those of overtaken runs apart
    torn,     \* history: runs of an item cut off between its version and its status
    overtaken, \* history: handlers whose item another run finished after they had
              \* looked at its status
    adrift    \* history: items no message was made for, or whose message went
              \* away with nothing to carry them

outside == <<sent, asked, faults>>
versions == <<gens, torn, overtaken>>
batch_vars == <<status, msgs, at, lock, renders, replanned, outside, versions, adrift>>

NoMsg == [state |-> "free", item |-> Free, rest |-> <<>>, resume |-> FALSE, tries |-> 0]
Idle == [msg |-> Free, step |-> "idle", body |-> NoMsg]
\* Mutant: an item in review counts as not yet generated.
PastReview == {"approved", "scheduled", "published"}
Past == {"in_review", "approved", "scheduled", "published"}

InitBatch ==
    /\ \E later \in SUBSET Planned :
         status = [i \in Items |-> IF i \in later THEN "planned" ELSE "queued"]
    /\ msgs = [s \in Slots |-> NoMsg]
    /\ at = [w \in Workers |-> Idle]
    /\ lock = Free
    /\ renders = {} /\ replanned = FALSE
    /\ sent = 0 /\ asked = FALSE /\ faults = 0
    /\ gens = [i \in Items |-> 0] /\ torn = [i \in Items |-> 0] /\ overtaken = {}
    /\ adrift = Items

----------------------------------------------------------------------------
(* Messages *)

Live == {s \in Slots : msgs[s].state # "free"}
Message(i, rest, resume) ==
    [state |-> "waiting", item |-> i, rest |-> rest, resume |-> resume, tries |-> 0]

\* The lane after message m joined box, the lane without what was just settled.
Publish(box, m) == \E s \in Slots :
    /\ box[s].state = "free" /\ (\A t \in Slots : t < s => box[t].state # "free")
    /\ msgs' = [box EXCEPT ![s] = m]

Gone(s) == [msgs EXCEPT ![s] = NoMsg]
\* A nak, or an ack deadline that passed: another delivery, or none left.
Returned(s) == IF msgs[s].tries >= MaxDeliver THEN Gone(s)
               ELSE [msgs EXCEPT ![s].state = "waiting"]

\* Mutant: the batch ends with its item.
ContinueNothing(box, m) == msgs' = box

\* Queue-less message that makes the worker derive the queue again; only a
\* message with a queue behind it leaves one.
Continue(box, m) == IF m.rest = <<>> THEN msgs' = box
                    ELSE Publish(box, Message(Free, <<>>, TRUE))

NextOf(m) == Message(Head(m.rest), Tail(m.rest), FALSE)

Elems(seq) == {seq[k] : k \in DOMAIN seq}

\* Message m still leads to item i; one without an item finds the queued ones.
Waits == {i \in Items : status[i] \in {"planned", "queued"}}
Leads(m, i) == IF m.item = Free THEN i \in Waits ELSE i = m.item \/ i \in Elems(m.rest)

\* Items with one of the statuses, in order of scheduled_at, at most n.
InOrder(stats, st, n) ==
    LET S == {i \in Items : st[i] \in stats}
        nth(k) == CHOOSE i \in S : Cardinality({j \in S : j <= i}) = k
    IN [k \in 1..(IF Cardinality(S) < n THEN Cardinality(S) ELSE n) |-> nth(k)]

Promoted == [i \in Items |-> IF status[i] = "planned" THEN "queued" ELSE status[i]]

----------------------------------------------------------------------------
(* Where messages come from *)

\* Bound: what comes from outside leaves a slot to every worker, to a message
\* still owed after an acknowledgement, and to one published before a crash.
Owing == {w \in Workers : at[w].step \in {"chain", "resume"}}
Room == Cardinality(Live) + Cardinality(Workers) + Cardinality(Owing)
            + MaxFaults - faults < Cardinality(Slots)
Outside(source) ==
    source \in Triggers /\ Room /\ sent < MaxTriggers /\ sent' = sent + 1

\* The trigger endpoint, or an activation whose reports are all done.
TriggerContent ==
    /\ Outside("content") /\ asked' = TRUE
    /\ Publish(msgs, Message(Free, <<>>, FALSE))
    /\ adrift' = adrift \ Waits
    /\ UNCHANGED <<status, at, lock, renders, replanned, faults, versions>>

\* The brand page's button: everything in the window becomes one batch.
GenerateAll ==
    LET ids == InOrder({"queued", "planned"}, status, Cardinality(Items)) IN
    /\ Outside("generate") /\ UNCHANGED asked
    /\ ids # <<>>
    /\ status' = Promoted
    /\ Publish(msgs, Message(Head(ids), Tail(ids), FALSE))
    /\ adrift' = adrift \ Elems(ids)
    /\ UNCHANGED <<at, lock, renders, replanned, faults, versions>>

\* An item created or saved as 'queued' starts on its own.
TriggerItem ==
    /\ Outside("item") /\ UNCHANGED asked
    /\ \E i \in Items :
         /\ status[i] = "queued"
         /\ Publish(msgs, Message(i, <<>>, FALSE)) /\ adrift' = adrift \ {i}
    /\ UNCHANGED <<status, at, lock, renders, replanned, faults, versions>>

\* The morning job: one message per queued item, the oldest first.
TopUp ==
    LET ids == InOrder({"queued"}, status, TopUpLimit) IN
    /\ "topup" \in Triggers
    /\ ids # <<>> /\ Live = {}  \* bound: at most one round of it in the lane
    /\ msgs' = [s \in Slots |-> IF s \in DOMAIN ids THEN Message(ids[s], <<>>, FALSE)
                                ELSE NoMsg]
    /\ adrift' = adrift \ Elems(ids)
    /\ UNCHANGED <<status, at, lock, renders, replanned, outside, versions>>

----------------------------------------------------------------------------
(* The handler *)

Body(w) == at[w].body
Goto(w, step) == at' = [at EXCEPT ![w].step = step]
Leave(w) == at' = [at EXCEPT ![w] = Idle]
Fault(kind) == kind \in Faults /\ faults < MaxFaults /\ faults' = faults + 1

Deliver(w, s) ==
    /\ at[w] = Idle /\ msgs[s].state = "waiting"
    /\ msgs' = [msgs EXCEPT ![s].state = "held", ![s].tries = @ + 1]
    /\ at' = [at EXCEPT ![w] = [msg |-> s, step |-> "start", body |-> msgs'[s]]]
    /\ overtaken' = overtaken \ {w}
    /\ UNCHANGED <<status, lock, renders, replanned, outside, gens, torn, adrift>>

\* A message without an item: derive the queue; a resume neither promotes
\* planned items nor asks for a new plan.
SkipForward(w) ==
    LET m == Body(w)
        after == IF m.resume THEN status ELSE Promoted
        ids == InOrder({"queued"}, after, BatchLimit)
    IN
    /\ at[w].step = "start" /\ m.item = Free
    /\ status' = after
    /\ \/ /\ ids # <<>>
          /\ Publish(msgs, Message(Head(ids), Tail(ids), FALSE))
          /\ UNCHANGED replanned
       \/ /\ ids = <<>>
          /\ replanned' = (replanned \/ ~m.resume)
          /\ UNCHANGED msgs
    /\ adrift' = (adrift \cup {i \in Items : after[i] = "queued"}) \ Elems(ids)
    /\ Goto(w, "ack")
    /\ UNCHANGED <<lock, renders, outside, versions>>

\* An item past generation is skipped; a reel goes to the video lane, once it
\* is its turn, and the batch moves on.
Guards(w) ==
    LET m == Body(w) IN
    /\ at[w].step = "start" /\ m.item # Free
    /\ \/ /\ status[m.item] \in Past
          /\ Continue(msgs, m) /\ Goto(w, "ack") /\ UNCHANGED renders
       \/ /\ status[m.item] \notin Past /\ m.item \in Reels
          /\ renders' = IF status[m.item] \in {"queued", "planned"}
                        THEN renders \cup {m.item} ELSE renders
          /\ IF m.rest = <<>> THEN UNCHANGED msgs ELSE Publish(msgs, NextOf(m))
          /\ Goto(w, "ack")
       \/ /\ status[m.item] \notin Past /\ m.item \notin Reels
          /\ Goto(w, "insert") /\ UNCHANGED <<msgs, renders>>
    /\ UNCHANGED <<status, lock, replanned, outside, versions, adrift>>

\* The run row: inserted, or refused because one is running.
CreateRun(w) ==
    /\ at[w].step = "insert" /\ lock = Free
    /\ lock' = w /\ Goto(w, "run")
    /\ UNCHANGED <<status, msgs, renders, replanned, outside, versions, adrift>>

Blocked(w) ==
    LET m == Body(w) IN
    /\ at[w].step = "insert" /\ lock # Free
    /\ \/ /\ m.tries < MaxDeliver
          /\ msgs' = Returned(at[w].msg) /\ Leave(w) /\ UNCHANGED adrift
       \/ /\ m.tries >= MaxDeliver
          /\ Continue(msgs, m) /\ Goto(w, "ack")
          /\ adrift' = IF m.rest = <<>> \/ status[m.item] = "working"
                       THEN adrift \cup {m.item} ELSE adrift
    /\ UNCHANGED <<status, lock, renders, replanned, outside, versions>>

\* _release_stuck_calendar_item for a content run.
Released(i, stuck) == [status EXCEPT ![i] = IF @ \in stuck THEN "failed" ELSE @]

RunRejected(w) ==
    LET m == Body(w) IN
    /\ at[w].step = "insert" /\ Fault("reject")
    /\ status' = Released(m.item, {"queued", "working"})
    /\ Continue(msgs, m) /\ Goto(w, "ack")
    /\ UNCHANGED <<lock, renders, replanned, sent, asked, versions, adrift>>

\* load_context claims a queued item, and whatever it finds it goes on.
Claim(w) ==
    /\ at[w].step = "run" /\ Goto(w, "generate")
    /\ status' = [status EXCEPT ![Body(w).item] = IF @ = "queued" THEN "working" ELSE @]
    /\ UNCHANGED <<msgs, lock, renders, replanned, outside, versions, adrift>>

\* The new version is committed first, the item's status in a statement of its
\* own, whatever the status is by then.
StoreContent(w) ==
    LET i == Body(w).item IN
    /\ at[w].step = "generate" /\ Goto(w, "stored")
    /\ gens' = IF w \in overtaken THEN gens ELSE [gens EXCEPT ![i] = @ + 1]
    /\ UNCHANGED <<status, msgs, lock, renders, replanned, outside, torn, overtaken, adrift>>

\* Past its guard, before its own version.
Underway(v) == at[v].step \in {"insert", "run", "generate"}

ToReview(w) ==
    LET i == Body(w).item IN
    /\ at[w].step = "stored" /\ Goto(w, "reviewed")
    /\ status' = [status EXCEPT ![i] = "in_review"]
    /\ overtaken' = overtaken \cup {v \in Workers : Underway(v) /\ Body(v).item = i}
    /\ UNCHANGED <<msgs, lock, renders, replanned, outside, gens, torn, adrift>>

\* What a run that ends here leaves: its version without the status.
TornBy(w) == IF at[w].step = "stored" THEN [torn EXCEPT ![Body(w).item] = @ + 1]
             ELSE torn

\* The run completes, the message is acknowledged, the next one is published.
Complete(w) ==
    /\ at[w].step = "reviewed" /\ Goto(w, "done") /\ lock' = Free
    /\ UNCHANGED <<status, msgs, renders, replanned, outside, versions, adrift>>

AckDone(w) ==
    /\ at[w].step = "done" /\ msgs' = Gone(at[w].msg) /\ Goto(w, "chain")
    /\ UNCHANGED <<status, lock, renders, replanned, outside, versions, adrift>>

ChainNext(w) ==
    /\ at[w].step = "chain" /\ Leave(w)
    /\ IF Body(w).rest = <<>> THEN UNCHANGED msgs ELSE Publish(msgs, NextOf(Body(w)))
    /\ UNCHANGED <<status, lock, renders, replanned, outside, versions, adrift>>

\* The graph reports a failure, before or after it claimed the item: the run
\* ends and the message is acknowledged before the item is released.
WorkflowFails(w) ==
    /\ at[w].step \in {"run", "generate"} /\ Fault("fail")
    /\ lock' = Free /\ msgs' = Gone(at[w].msg) /\ Goto(w, "resume")
    /\ UNCHANGED <<status, renders, replanned, sent, asked, versions, adrift>>

ReleaseAndContinue(w) ==
    /\ at[w].step = "resume"
    /\ status' = Released(Body(w).item, {"queued", "working"})
    /\ Continue(msgs, Body(w)) /\ Leave(w)
    /\ UNCHANGED <<lock, renders, replanned, outside, versions, adrift>>

InGraph == {"run", "generate", "stored", "reviewed"}

\* An exception: the acknowledgement is the last thing that happens.
WorkflowRaises(w) ==
    /\ at[w].step \in InGraph /\ Fault("raise")
    /\ lock' = Free /\ torn' = TornBy(w)
    /\ status' = Released(Body(w).item, {"queued", "working"})
    /\ Continue(msgs, Body(w)) /\ Goto(w, "ack")
    /\ UNCHANGED <<renders, replanned, sent, asked, gens, overtaken, adrift>>

\* Mutant: the timeout leaves the run row 'running'.
TimesOutRunning(w) ==
    LET m == Body(w)
        final == m.tries >= MaxDeliver
        stuck == IF final THEN {"queued", "working"} ELSE {"working"}
        back == Returned(at[w].msg)
    IN
    /\ at[w].step \in InGraph /\ Fault("timeout")
    /\ torn' = TornBy(w)
    /\ status' = Released(m.item, stuck)
    /\ IF final THEN Continue(back, m) ELSE msgs' = back
    /\ Leave(w)
    /\ UNCHANGED <<lock, renders, replanned, sent, asked, gens, overtaken, adrift>>

\* A timeout keeps a queued item for the next delivery, if there is one.
TimesOut(w) ==
    LET m == Body(w)
        final == m.tries >= MaxDeliver
        stuck == IF final THEN {"queued", "working"} ELSE {"working"}
        back == Returned(at[w].msg)
    IN
    /\ at[w].step \in InGraph /\ Fault("timeout")
    /\ lock' = Free /\ torn' = TornBy(w)
    /\ status' = Released(m.item, stuck)
    /\ IF final THEN Continue(back, m) ELSE msgs' = back
    /\ Leave(w)
    /\ UNCHANGED <<renders, replanned, sent, asked, gens, overtaken, adrift>>

Ack(w) ==
    /\ at[w].step = "ack" /\ msgs' = Gone(at[w].msg) /\ Leave(w)
    /\ UNCHANGED <<status, lock, renders, replanned, outside, versions, adrift>>

----------------------------------------------------------------------------
(* The rest of the system *)

\* What is still to be published after the acknowledgement dies with the worker.
Crash(w) ==
    LET m == Body(w)
        last == m.tries >= MaxDeliver /\ at[w].step # "ack"
    IN
    /\ at[w] # Idle /\ Fault("crash")
    /\ msgs' = IF at[w].step \in {"chain", "resume"} THEN msgs ELSE Returned(at[w].msg)
    /\ lock' = IF lock = w THEN "dead" ELSE lock
    /\ adrift' = adrift \cup IF last \/ at[w].step \in {"chain", "resume"}
                            THEN {i \in Items : Leads(m, i)} ELSE {}
    /\ torn' = TornBy(w)
    /\ Leave(w)
    /\ UNCHANGED <<status, renders, replanned, sent, asked, gens, overtaken>>

\* The reaper fails the running row of a dead worker; it takes one that only
\* stalls for dead, which is left to AgentRuns.
Reap ==
    /\ lock = "dead" /\ lock' = Free
    /\ UNCHANGED <<status, msgs, at, renders, replanned, outside, versions, adrift>>

\* The video lane, by what it leaves: a queued reel is rendered or fails, any
\* other is skipped.
Render(i) ==
    /\ i \in renders /\ renders' = renders \ {i}
    /\ IF status[i] \in {"queued", "planned"}
       THEN status' \in {[status EXCEPT ![i] = s] : s \in {"in_review", "failed"}}
       ELSE UNCHANGED status
    /\ UNCHANGED <<msgs, at, lock, replanned, outside, versions, adrift>>

Handle(w) ==
    \/ \E s \in Slots : Deliver(w, s)
    \/ SkipForward(w) \/ Guards(w) \/ CreateRun(w) \/ Blocked(w) \/ Claim(w)
    \/ StoreContent(w) \/ ToReview(w) \/ Complete(w) \/ AckDone(w) \/ ChainNext(w)
    \/ ReleaseAndContinue(w) \/ Ack(w)

Disturb(w) ==
    WorkflowFails(w) \/ WorkflowRaises(w) \/ TimesOut(w) \/ RunRejected(w) \/ Crash(w)

NextBatch ==
    \/ TriggerContent \/ GenerateAll \/ TriggerItem \/ TopUp
    \/ \E w \in Workers : Handle(w) \/ Disturb(w)
    \/ Reap
    \/ \E i \in Reels : Render(i)

BatchSpec == InitBatch /\ [][NextBatch]_batch_vars

\* Workers take messages, the reaper and the morning job come round, and
\* renders end.
FairBatchSpec ==
    /\ BatchSpec
    /\ \A w \in Workers : WF_batch_vars(Handle(w))
    /\ WF_batch_vars(Reap) /\ WF_batch_vars(TopUp)
    /\ \A i \in Reels : WF_batch_vars(Render(i))

----------------------------------------------------------------------------
(* Properties *)

Carried(i) ==
    \/ \E s \in Live : Leads(msgs[s], i)
    \/ \E w \in Workers : at[w].step \in {"chain", "resume"} /\ Leads(Body(w), i)
    \/ i \in renders

\* An item that waits, or is at work, is still led to by a message, a handler
\* or a render, unless it is adrift: however an item's run ends, on whichever
\* delivery, the batch behind it goes on.  Every terminal path of worker.py is
\* meant to see to that (_continue_content_chain).
BatchIsCarried ==
    \A i \in Items :
        status[i] \in {"queued", "working"} /\ i \notin adrift => Carried(i)

\* However often its message is delivered and however many batches name it, an
\* item gets one content version ("never regenerate a content item that's
\* already past generation", _handle_message), and one more for each run that was
\* cut off between its version and the item's status.  A run that another one
\* overtook, since its guard read the status before it inserted its run row,
\* adds a version of its own and is not counted.
GeneratedOnce == \A i \in Items : gens[i] <= torn[i] + 1

\* A queued item is taken up, whatever its batch went through: the morning
\* job finds what no message leads to.
QueuedIsServed == \A i \in Items : status[i] = "queued" ~> status[i] # "queued"

=============================================================================

-------------------------- MODULE Workflows_proofs --------------------------
(***************************************************************************)
(* Theorems about what messages drive over several workflows.  A brand's   *)
(* batch of calendar items: whatever ends the run of one item, on whichever *)
(* delivery and for any number of workers, the items behind it are still   *)
(* led to; and an item is generated again only when a run of it was cut off *)
(* or overtaken.  A brand's activation: it ends with the reports that       *)
(* planning rests on.                                                       *)
(***************************************************************************)
EXTENDS BrandChain, ContentBatch, FiniteSetTheorems, SequenceTheorems, TLAPS

-----------------------------------------------------------------------------
(* The batch: types. *)

Statuses == {"planned", "queued", "working", "in_review", "failed"}
Holding == {"start", "insert", "run", "generate", "stored", "reviewed", "done", "ack"}
Owes == {"chain", "resume"}
Job == [state : {"free", "waiting", "held"}, item : Items \cup {Free}, rest : Seq(Items),
        resume : BOOLEAN, tries : Nat]
Handler == [msg : Slots \cup {Free}, step : {"idle"} \cup Holding \cup Owes, body : Job]

RowTypes ==
    /\ status \in [Items -> Statuses]
    /\ renders \in SUBSET Items /\ adrift \in SUBSET Items
LaneTypes ==
    /\ msgs \in [Slots -> Job]
    /\ at \in [Workers -> Handler]

\* Elements of a queue: the head, and those of the tail.
LEMMA QueueElems ==
  ASSUME NEW q \in Seq(Items), q # <<>>
  PROVE  /\ Head(q) \in Items /\ Tail(q) \in Seq(Items)
         /\ Elems(q) = {Head(q)} \cup Elems(Tail(q))
<1>1. Head(q) = q[1] /\ Head(q) \in Items /\ Tail(q) \in Seq(Items) /\ Len(q) \in Nat \ {0}
  OBVIOUS
<1>2. Len(Tail(q)) = Len(q) - 1 /\ \A k \in 1..(Len(q) - 1) : Tail(q)[k] = q[k + 1]
  OBVIOUS
<1>3. \A k \in 2..Len(q) : k - 1 \in 1..(Len(q) - 1) /\ q[k] = Tail(q)[k - 1]
  BY <1>1, <1>2
<1>4. Elems(q) \subseteq {Head(q)} \cup Elems(Tail(q))
  <2> SUFFICES ASSUME NEW k \in 1..Len(q) PROVE q[k] \in {Head(q)} \cup Elems(Tail(q))
    BY DEF Elems
  <2>1. CASE k = 1 BY <1>1, <2>1
  <2>2. CASE k # 1
    <3>1. k - 1 \in DOMAIN Tail(q) /\ q[k] = Tail(q)[k - 1] BY <1>1, <1>2, <1>3, <2>2
    <3> QED BY <3>1 DEF Elems
  <2> QED BY <2>1, <2>2
<1>5. {Head(q)} \cup Elems(Tail(q)) \subseteq Elems(q)
  <2>1. Head(q) \in Elems(q) BY <1>1 DEF Elems
  <2>2. \A k \in DOMAIN Tail(q) : k + 1 \in DOMAIN q /\ Tail(q)[k] = q[k + 1]
    BY <1>1, <1>2
  <2> QED BY <2>1, <2>2 DEF Elems
<1> QED BY <1>1, <1>4, <1>5

\* The queue derived from the rows: items with one of the statuses, all of them
\* when the limit lets them in. Its k-th item is the one with k items up to it,
\* and there is one for every k since counting them is injective.
LEMMA InOrderIs ==
  ASSUME NEW stats, NEW st, NEW n \in Nat
  PROVE  LET S == {i \in Items : st[i] \in stats}
             ids == InOrder(stats, st, n)
         IN  /\ ids \in Seq(Items) /\ Elems(ids) \subseteq S
             /\ DOMAIN ids \subseteq 1..n
             /\ Cardinality(S) <= n => Elems(ids) = S
<1> DEFINE S == {i \in Items : st[i] \in stats}
           c == Cardinality(S)
           upTo(i) == {j \in S : j <= i}
           rank == [i \in S |-> Cardinality(upTo(i))]
           m == IF c < n THEN c ELSE n
           ids == [k \in 1..m |-> CHOOSE i \in S : Cardinality(upTo(i)) = k]
<1>1. IsFiniteSet(S) /\ c \in Nat /\ S \subseteq Nat
  BY BatchAssumption, FS_Subset, FS_CardinalityType
<1>2. \A i \in S : /\ IsFiniteSet(upTo(i)) /\ Cardinality(upTo(i)) \in 1..c
                  /\ Cardinality(upTo(i)) \in Nat
  <2> SUFFICES ASSUME NEW i \in S
               PROVE  /\ IsFiniteSet(upTo(i)) /\ Cardinality(upTo(i)) \in 1..c
                      /\ Cardinality(upTo(i)) \in Nat
    OBVIOUS
  <2>1. IsFiniteSet(upTo(i)) /\ Cardinality(upTo(i)) <= c /\ Cardinality(upTo(i)) \in Nat
    BY <1>1, FS_Subset, FS_CardinalityType
  <2>2. i \in upTo(i) BY <1>1
  <2>3. Cardinality(upTo(i)) # 0 BY <2>1, <2>2, FS_EmptySet
  <2> QED BY <1>1, <2>1, <2>3
<1>3. \A i, j \in S : i < j => Cardinality(upTo(i)) < Cardinality(upTo(j))
  <2> SUFFICES ASSUME NEW i \in S, NEW j \in S, i < j
               PROVE  Cardinality(upTo(i)) < Cardinality(upTo(j))
    OBVIOUS
  <2>1. upTo(i) \subseteq upTo(j) /\ j \in upTo(j) /\ j \notin upTo(i) BY <1>1
  <2>2. Cardinality(upTo(i)) <= Cardinality(upTo(j)) BY <1>2, <2>1, FS_Subset
  <2>3. Cardinality(upTo(i)) # Cardinality(upTo(j)) BY <1>2, <2>1, FS_Subset
  <2> QED BY <1>1, <1>2, <2>2, <2>3
<1>4. \A i, j \in S : rank[i] = rank[j] => i = j
  <2> SUFFICES ASSUME NEW i \in S, NEW j \in S, rank[i] = rank[j] PROVE i = j OBVIOUS
  <2>1. Cardinality(upTo(i)) = Cardinality(upTo(j)) OBVIOUS
  <2>2. ~(i < j) /\ ~(j < i)
    <3>1. \A a, b \in S : a < b => Cardinality(upTo(a)) # Cardinality(upTo(b))
      <4> HIDE DEF upTo, S
      <4> QED BY <1>2, <1>3
    <3> HIDE DEF rank, upTo, S
    <3> QED BY <2>1, <3>1
  <2> QED BY <1>1, <2>2
<1>5. rank \in Injection(S, 1..c)
  <2>1. rank \in [S -> 1..c] BY <1>2
  <2> HIDE DEF rank
  <2> QED BY <1>4, <2>1 DEF Injection, IsInjective
<1>6. rank \in Surjection(S, 1..c)
  <2>1. IsFiniteSet(1..c) /\ Cardinality(1..c) = c BY <1>1, FS_Interval
  <2> HIDE DEF rank
  <2> QED BY <1>1, <1>5, <2>1, FS_Injection
<1>7. \A k \in 1..c : \E i \in S : Cardinality(upTo(i)) = k
  BY <1>6 DEF Surjection
<1>8. m \in Nat /\ m <= c /\ m <= n BY <1>1
<1>9. \A k \in 1..m : ids[k] \in S /\ Cardinality(upTo(ids[k])) = k
  <2> SUFFICES ASSUME NEW k \in 1..m
               PROVE  ids[k] \in S /\ Cardinality(upTo(ids[k])) = k
    OBVIOUS
  <2>1. k \in 1..c
    <3> HIDE DEF m, c
    <3> QED BY <1>1, <1>8
  <2>2. \E i \in S : Cardinality(upTo(i)) = k BY <1>7, <2>1
  <2> QED BY <2>2
<1>10. ids = InOrder(stats, st, n) BY DEF InOrder
<1> HIDE DEF m
<1>11. ids \in Seq(Items) /\ DOMAIN ids = 1..m
  <2>1. DOMAIN ids = 1..m /\ ids = [k \in 1..m |-> ids[k]] OBVIOUS
  <2>2. \A k \in 1..m : ids[k] \in Items BY <1>9
  <2>3. ids \in [1..m -> Items]
    <3> HIDE DEF ids
    <3> QED BY <2>1, <2>2
  <2> HIDE DEF ids
  <2> QED BY <1>8, <2>1, <2>3
<1>12. Elems(ids) \subseteq S BY <1>9, <1>11 DEF Elems
<1>13. ASSUME c <= n PROVE S \subseteq Elems(ids)
  <2>1. m = c BY <1>1, <1>13 DEF m
  <2> SUFFICES ASSUME NEW i \in S PROVE i \in Elems(ids) OBVIOUS
  <2>2. rank[i] \in 1..m BY <1>2, <2>1
  <2>3. ids[rank[i]] \in S /\ rank[ids[rank[i]]] = rank[i] BY <1>9, <2>2
  <2>4. ids[rank[i]] = i BY <1>4, <2>3
  <2> QED BY <1>11, <2>2, <2>4 DEF Elems
<1>14. DOMAIN ids \subseteq 1..n BY <1>8, <1>11
<1> HIDE DEF ids
<1> QED BY <1>10, <1>11, <1>12, <1>13, <1>14

-----------------------------------------------------------------------------
(* The invariant. *)

\* A handler that has not settled its message has it to itself.
Custody ==
    /\ \A w \in Workers : at[w].step = "idle" => at[w] = Idle
    /\ \A w \in Workers : at[w].step \in Holding =>
         at[w].msg \in Slots /\ msgs[at[w].msg] = Body(w) /\ Body(w).state = "held"
    /\ \A v, w \in Workers :
         at[v].step \in Holding /\ at[w].step \in Holding /\ at[v].msg = at[w].msg => v = w

\* How far the item of a handler is.
Progress ==
    /\ \A w \in Workers :
         at[w].step \in {"insert", "run", "generate", "stored", "reviewed", "done", "chain",
                        "resume"}
           => Body(w).item \in Items \ Reels
    /\ \A w \in Workers :
         at[w].step \in {"reviewed", "done", "chain"} => status[Body(w).item] = "in_review"
    /\ \A i \in Reels : status[i] # "working"

\* A message that is not about to be settled with nothing more to do.
Bearing(s) ==
    /\ msgs[s].state # "free"
    /\ \A w \in Workers : at[w].step = "ack" => at[w].msg # s

\* What leads to a queued item, and what has the item of a run in hand.
Led(i) ==
    \/ \E s \in Slots : Bearing(s) /\ Leads(msgs[s], i)
    \/ \E w \in Workers : at[w].step \in Owes /\ Leads(Body(w), i)
    \/ i \in renders
Owned(i) ==
    \/ \E s \in Slots : Bearing(s) /\ msgs[s].item = i
    \/ \E w \in Workers : at[w].step = "resume" /\ Body(w).item = i

Borne ==
    \A i \in Items \ adrift :
        /\ status[i] = "queued" => Led(i)
        /\ status[i] = "working" => Owned(i)

BatchInv == RowTypes /\ LaneTypes /\ Custody /\ Progress /\ Borne

-----------------------------------------------------------------------------
(* The lane. *)

\* What a step does to the messages: box is the lane after the handled message
\* was settled, or left as it was.
LaneIs(box) == msgs' = box \/ \E m \in Job : m.state = "waiting" /\ Publish(box, m)

\* A step of handler w on the lane: it moves on with its message, settles it and
\* moves on without, or leaves.
Moves(w, box, new) ==
    /\ box \in [Slots -> Job] /\ new \in Handler
    /\ at[w].step \in Holding \/ box = msgs
    /\ \A s \in Slots : s # at[w].msg => box[s] = msgs[s]
    /\ LaneIs(box)
    /\ at' = [at EXCEPT ![w] = new]
    /\ \/ new = Idle
       \/ new.step \in Owes
       \/ /\ at[w].step \in Holding /\ box = msgs /\ new.step \in Holding
          /\ new.msg = at[w].msg /\ new.body = at[w].body

LEMMA MessageTypes ==
  ASSUME NEW i \in Items \cup {Free}, NEW rest \in Seq(Items), NEW resume \in BOOLEAN
  PROVE  /\ Message(i, rest, resume) \in Job
         /\ Message(i, rest, resume).state = "waiting"
         /\ Message(i, rest, resume).item = i
         /\ Message(i, rest, resume).rest = rest
  BY DEF Message, Job

LEMMA OneItem ==
  ASSUME NEW i \in Items \cup {Free}, NEW resume \in BOOLEAN
  PROVE  LET m == Message(i, <<>>, resume)
         IN  m \in Job /\ m.state = "waiting" /\ m.item = i /\ m.rest = <<>>
<1>1. <<>> \in Seq(Items) OBVIOUS
<1> QED BY <1>1, MessageTypes, ZenonT(60)

LEMMA NoMsgTypes == NoMsg \in Job /\ NoMsg.state = "free" /\ Idle \in Handler
  BY DEF NoMsg, Job, Idle, Handler

\* A message joins a free slot.
LEMMA Published ==
  ASSUME NEW box \in [Slots -> Job], LaneIs(box)
  PROVE  /\ msgs' \in [Slots -> Job]
         /\ \A s \in Slots : box[s].state # "free" => msgs'[s] = box[s]
         /\ \A s \in Slots : msgs'[s] # box[s] => msgs'[s].state = "waiting"
  BY DEF LaneIs, Publish

\* Custody is kept, whatever else bore an item still does, and what is
\* published does from now on.
LEMMA LaneStep ==
  ASSUME LaneTypes, Custody, NEW w \in Workers, NEW box, NEW new, Moves(w, box, new)
  PROVE  /\ LaneTypes' /\ Custody'
         /\ \A s \in Slots : Bearing(s) /\ box[s].state # "free"
                             /\ ~(new.step = "ack" /\ new.msg = s)
                               => Bearing(s)' /\ msgs'[s] = box[s]
         /\ \A m \in Job : m.state = "waiting" /\ Publish(box, m)
                             => \E s \in Slots : Bearing(s)' /\ msgs'[s] = m
<1> USE DEF Moves
<1>1. LaneTypes'
  BY Published DEF LaneTypes
<1>2. at'[w] = new /\ \A v \in Workers \ {w} : at'[v] = at[v]
  BY DEF LaneTypes
<1>3. \A s \in Slots : box[s].state # "free" => msgs'[s] = box[s]
  BY Published
<1>4. \A v \in Workers \ {w} : at[v].step \in Holding =>
        at[v].msg \in Slots /\ box[at[v].msg] = msgs[at[v].msg]
  BY DEF Custody
<1>5. \A v \in Workers \ {w} : at[v].step \in Holding =>
        msgs'[at[v].msg] = msgs[at[v].msg] /\ msgs[at[v].msg].state = "held"
  BY <1>3, <1>4 DEF Custody
<1>6. Idle.step \notin Holding /\ \A step \in Owes : step \notin Holding
  BY DEF Idle, Holding, Owes
<1>7. new.step \in Holding =>
        msgs'[new.msg] = new.body /\ new.body.state = "held" /\ new.msg \in Slots
  BY <1>3, <1>6 DEF Custody, Body
<1>8. Custody'
  <2>1. \A v \in Workers : at'[v].step = "idle" => at'[v] = Idle
    BY <1>2 DEF Custody, Holding, Owes
  <2>2. \A v \in Workers : at'[v].step \in Holding =>
          at'[v].msg \in Slots /\ msgs'[at'[v].msg] = Body(v)' /\ Body(v)'.state = "held"
    BY <1>2, <1>5, <1>7 DEF Custody, Body
  <2>3. \A u, v \in Workers :
          at'[u].step \in Holding /\ at'[v].step \in Holding /\ at'[u].msg = at'[v].msg => u = v
    BY <1>2, <1>6 DEF Custody
  <2> QED BY <2>1, <2>2, <2>3 DEF Custody
<1>9. ASSUME NEW s \in Slots, Bearing(s), box[s].state # "free",
             ~(new.step = "ack" /\ new.msg = s)
      PROVE  Bearing(s)' /\ msgs'[s] = box[s]
  BY <1>2, <1>3, <1>9 DEF Bearing
<1>10. ASSUME NEW m \in Job, m.state = "waiting", Publish(box, m)
       PROVE  \E s \in Slots : Bearing(s)' /\ msgs'[s] = m
  <2>1. PICK s \in Slots : box[s].state = "free" /\ msgs' = [box EXCEPT ![s] = m]
    BY <1>10 DEF Publish
  <2>2. msgs'[s] = m BY <2>1
  <2>3. \A v \in Workers : at'[v].step = "ack" => msgs'[at'[v].msg].state = "held"
    BY <1>2, <1>5, <1>7 DEF Holding
  <2> QED BY <1>10, <2>2, <2>3 DEF Bearing
<1> QED BY <1>1, <1>8, <1>9, <1>10

\* The same for a message from outside.
LEMMA OutsideStep ==
  ASSUME LaneTypes, Custody, NEW m \in Job, m.state = "waiting", Publish(msgs, m),
         UNCHANGED at
  PROVE  /\ LaneTypes' /\ Custody'
         /\ \A s \in Slots : Bearing(s) => Bearing(s)' /\ msgs'[s] = msgs[s]
         /\ \E s \in Slots : Bearing(s)' /\ msgs'[s] = m
<1>1. LaneIs(msgs) BY DEF LaneIs
<1>2. LaneTypes' /\ \A s \in Slots : msgs[s].state # "free" => msgs'[s] = msgs[s]
  BY <1>1, Published DEF LaneTypes
<1>3. Custody' BY <1>2 DEF Custody, Body
<1>4. \A s \in Slots : Bearing(s) => Bearing(s)' /\ msgs'[s] = msgs[s]
  BY <1>2 DEF Bearing
<1>5. PICK s \in Slots : msgs[s].state = "free" /\ msgs' = [msgs EXCEPT ![s] = m]
  BY DEF Publish
<1>6. msgs'[s] = m BY <1>5 DEF LaneTypes
<1>7. Bearing(s)'
  <2>1. \A v \in Workers : at[v].step = "ack" => msgs[at[v].msg].state = "held"
    BY DEF Custody, Holding
  <2> QED BY <1>5, <1>6, <2>1 DEF Bearing
<1> QED BY <1>2, <1>3, <1>4, <1>6, <1>7

-----------------------------------------------------------------------------
(* Messages from outside. *)

\* What led to an item, or had it in hand, still does when no message is lost.
LEMMA LedStays ==
  ASSUME NEW i \in Items, Led(i), UNCHANGED at, renders \subseteq renders',
         status'[i] \in {"planned", "queued"},
         \A s \in Slots : Bearing(s) => Bearing(s)' /\ msgs'[s] = msgs[s]
  PROVE  Led(i)'
  BY DEF Led, Leads, Waits, Body

LEMMA OwnedStays ==
  ASSUME NEW i \in Items, Owned(i), UNCHANGED at,
         \A s \in Slots : Bearing(s) => Bearing(s)' /\ msgs'[s] = msgs[s]
  PROVE  Owned(i)'
  BY DEF Owned, Body

LEMMA PromotedTypes ==
  ASSUME RowTypes
  PROVE  /\ Promoted \in [Items -> Statuses]
         /\ \A i \in Items : Promoted[i] # status[i] =>
              status[i] = "planned" /\ Promoted[i] = "queued"
  BY DEF RowTypes, Promoted, Statuses

\* A trigger's message leads to whatever waits when it is taken.
LEMMA TriggerKeeps ==
  ASSUME BatchInv, TriggerContent \/ TriggerItem
  PROVE  BatchInv'
<1> USE DEF BatchInv
<1>1. UNCHANGED <<status, at, renders>>
  BY DEF TriggerContent, TriggerItem
<1>2. adrift' \subseteq adrift
  BY DEF TriggerContent, TriggerItem
<1>3. \E m \in Job : /\ m.state = "waiting" /\ Publish(msgs, m)
                     /\ \A i \in adrift \ adrift' :
                          Leads(m, i) /\ status[i] \in {"planned", "queued"}
  <2>1. CASE TriggerContent
    <3>1. \A i \in adrift \ adrift' : i \in Waits BY <2>1 DEF TriggerContent
    <3>2. /\ Message(Free, <<>>, FALSE) \in Job
          /\ Message(Free, <<>>, FALSE).state = "waiting"
          /\ \A i \in Waits : Leads(Message(Free, <<>>, FALSE), i)
      BY OneItem DEF Leads
    <3>3. Publish(msgs, Message(Free, <<>>, FALSE)) BY <2>1 DEF TriggerContent
    <3> QED BY <3>1, <3>2, <3>3 DEF Waits
  <2>2. CASE TriggerItem
    <3>1. PICK i \in Items : /\ status[i] = "queued" /\ Publish(msgs, Message(i, <<>>, FALSE))
                             /\ adrift' = adrift \ {i}
      BY <2>2 DEF TriggerItem
    <3>2. Leads(Message(i, <<>>, FALSE), i)
      BY OneItem, BatchAssumption DEF Leads
    <3>3. Message(i, <<>>, FALSE) \in Job /\ Message(i, <<>>, FALSE).state = "waiting"
      BY OneItem
    <3> QED BY <3>1, <3>2, <3>3
  <2> QED BY <2>1, <2>2
<1>4. PICK m \in Job : /\ m.state = "waiting" /\ Publish(msgs, m)
                       /\ \A i \in adrift \ adrift' :
                            Leads(m, i) /\ status[i] \in {"planned", "queued"}
  BY <1>3
<1>5. LaneTypes' /\ Custody' /\ \A s \in Slots : Bearing(s) => Bearing(s)' /\ msgs'[s] = msgs[s]
  BY <1>1, <1>4, OutsideStep
<1>6. PICK s \in Slots : Bearing(s)' /\ msgs'[s] = m
  BY <1>1, <1>4, OutsideStep
<1>7. RowTypes' /\ Progress'
  BY <1>1, <1>2 DEF RowTypes, Progress, Body
<1>8. ASSUME NEW i \in Items \ adrift'
      PROVE  (status'[i] = "queued" => Led(i)') /\ (status'[i] = "working" => Owned(i)')
  <2>1. CASE i \notin adrift
    BY <1>1, <1>5, <2>1, LedStays, OwnedStays DEF Borne
  <2>2. CASE i \in adrift
    <3>1. Leads(m, i)' /\ status'[i] \in {"planned", "queued"}
      BY <1>1, <1>4, <2>2 DEF Leads, Waits
    <3> QED BY <1>6, <3>1 DEF Led
  <2> QED BY <2>1, <2>2
<1> QED BY <1>5, <1>7, <1>8 DEF Borne

\* Everything in the window is in the batch.
LEMMA GenerateAllKeeps ==
  ASSUME BatchInv, GenerateAll
  PROVE  BatchInv'
<1> USE DEF BatchInv
<1> DEFINE open == {i \in Items : status[i] \in {"queued", "planned"}}
           ids == InOrder({"queued", "planned"}, status, Cardinality(Items))
<1>1. /\ ids # <<>> /\ status' = Promoted
      /\ Publish(msgs, Message(Head(ids), Tail(ids), FALSE))
      /\ adrift' = adrift \ Elems(ids) /\ UNCHANGED <<at, renders>>
  BY DEF GenerateAll
<1>2. ids \in Seq(Items) /\ Elems(ids) = open
  <2>1. IsFiniteSet(Items) /\ Cardinality(Items) \in Nat /\ Cardinality(open) <= Cardinality(Items)
    BY BatchAssumption, FS_Subset, FS_CardinalityType
  <2> QED BY <2>1, InOrderIs
<1> HIDE DEF ids
<1>3. Head(ids) \in Items /\ Tail(ids) \in Seq(Items) /\ open = {Head(ids)} \cup Elems(Tail(ids))
  BY <1>1, <1>2, QueueElems
<1>4. PICK m \in Job : /\ Publish(msgs, m) /\ m.state = "waiting"
                      /\ m.item = Head(ids) /\ m.rest = Tail(ids)
  <2>1. /\ Message(Head(ids), Tail(ids), FALSE) \in Job
        /\ Message(Head(ids), Tail(ids), FALSE).state = "waiting"
        /\ Message(Head(ids), Tail(ids), FALSE).item = Head(ids)
        /\ Message(Head(ids), Tail(ids), FALSE).rest = Tail(ids)
    BY <1>3, MessageTypes
  <2> QED BY <1>1, <2>1
<1>5. \A i \in open : Leads(m, i)'
  BY <1>3, <1>4, BatchAssumption DEF Leads
<1>6. LaneTypes' /\ Custody' /\ \A s \in Slots : Bearing(s) => Bearing(s)' /\ msgs'[s] = msgs[s]
  BY <1>1, <1>4, OutsideStep
<1>7. PICK s \in Slots : Bearing(s)' /\ msgs'[s] = m
  BY <1>1, <1>4, OutsideStep
<1>8. RowTypes'
  BY <1>1, PromotedTypes DEF RowTypes
<1>9. Progress'
  BY <1>1, PromotedTypes, BatchAssumption DEF Progress, Body, RowTypes
<1>10. ASSUME NEW i \in Items \ adrift'
       PROVE  (status'[i] = "queued" => Led(i)') /\ (status'[i] = "working" => Owned(i)')
  <2>1. CASE i \in open
    <3>1. status'[i] = "queued" BY <1>1, <2>1 DEF Promoted
    <3> QED BY <1>5, <1>7, <2>1, <3>1 DEF Led
  <2>2. CASE i \notin open
    <3>1. status'[i] = status[i] /\ i \notin adrift /\ status[i] # "queued"
      BY <1>1, <1>2, <2>2, PromotedTypes
    <3> QED BY <1>1, <1>6, <3>1, OwnedStays DEF Borne
  <2> QED BY <2>1, <2>2
<1> QED BY <1>6, <1>8, <1>9, <1>10 DEF Borne

\* A round of the morning job enters an empty lane: what bore an item before was
\* no message.
LEMMA TopUpKeeps ==
  ASSUME BatchInv, TopUp
  PROVE  BatchInv'
<1> USE DEF BatchInv
<1> DEFINE ids == InOrder({"queued"}, status, TopUpLimit)
<1>1. /\ UNCHANGED <<status, at, renders>> /\ adrift' = adrift \ Elems(ids)
      /\ msgs' = [s \in Slots |-> IF s \in DOMAIN ids THEN Message(ids[s], <<>>, FALSE)
                                  ELSE NoMsg]
  BY DEF TopUp
<1>2. \A s \in Slots : msgs[s].state = "free"
  BY DEF TopUp, Live
<1>3. /\ ids \in Seq(Items) /\ DOMAIN ids \subseteq Slots
      /\ \A i \in Elems(ids) : status[i] = "queued"
  <2>1. TopUpLimit \in Nat /\ 1..TopUpLimit \subseteq Slots BY BatchAssumption
  <2>2. /\ ids \in Seq(Items) /\ Elems(ids) \subseteq {i \in Items : status[i] \in {"queued"}}
        /\ DOMAIN ids \subseteq 1..TopUpLimit
    BY <2>1, InOrderIs
  <2> HIDE DEF ids
  <2> QED BY <2>1, <2>2
<1> HIDE DEF ids
<1>4. \A s \in DOMAIN ids : ids[s] \in Items
  BY <1>3
<1>5. \A w \in Workers : at[w].step \notin Holding
  BY <1>2 DEF Custody
<1>6. \A s \in DOMAIN ids : /\ Message(ids[s], <<>>, FALSE) \in Job
                            /\ Message(ids[s], <<>>, FALSE).item = ids[s]
                            /\ Message(ids[s], <<>>, FALSE).state = "waiting"
  BY <1>4, OneItem
<1>7. LaneTypes' /\ RowTypes' /\ Custody' /\ Progress'
  BY <1>1, <1>5, <1>6, NoMsgTypes DEF LaneTypes, RowTypes, Custody, Progress, Body
<1>8. ASSUME NEW i \in Items \ adrift'
      PROVE  (status'[i] = "queued" => Led(i)') /\ (status'[i] = "working" => Owned(i)')
  <2>1. CASE i \in Elems(ids)
    <3>1. PICK s \in DOMAIN ids : ids[s] = i BY <2>1 DEF Elems
    <3>2. s \in Slots /\ msgs'[s].item = i /\ msgs'[s].state = "waiting"
      BY <1>1, <1>3, <1>6, <3>1
    <3>3. Bearing(s)' BY <1>1, <1>5, <3>2 DEF Bearing, Holding
    <3>4. Leads(msgs[s], i)' BY <3>2, BatchAssumption DEF Leads
    <3> QED BY <1>1, <1>3, <2>1, <3>2, <3>3, <3>4 DEF Led
  <2>2. CASE i \notin Elems(ids)
    <3>1. i \notin adrift BY <1>1, <2>2
    <3>2. \A s \in Slots : ~Bearing(s) BY <1>2 DEF Bearing
    <3> QED BY <1>1, <3>1, <3>2, LedStays, OwnedStays DEF Borne
  <2> QED BY <2>1, <2>2
<1> QED BY <1>7, <1>8 DEF Borne

-----------------------------------------------------------------------------
(* The handler. *)

\* The message of a handler, and what moving on with it looks like.
LEMMA HandlerIs ==
  ASSUME LaneTypes, NEW w \in Workers
  PROVE  /\ at[w].msg \in Slots \cup {Free} /\ Body(w) \in Job
         /\ Body(w).item \in Items \cup {Free} /\ Body(w).rest \in Seq(Items)
         /\ Body(w).resume \in BOOLEAN /\ Body(w).tries \in Nat
         /\ \A step \in Holding \cup Owes :
              LET new == [at[w] EXCEPT !.step = step]
              IN  /\ new \in Handler /\ new.step = step /\ new.msg = at[w].msg
                  /\ new.body = at[w].body
                  /\ Goto(w, step) => at' = [at EXCEPT ![w] = new]
<1>1. at[w] \in Handler BY DEF LaneTypes
<1>2. Body(w) \in Job BY <1>1 DEF Body, Handler
<1>3. ASSUME NEW step \in Holding \cup Owes
      PROVE  [at[w] EXCEPT !.step = step] \in Handler
  BY <1>1, <1>3 DEF Handler
<1> QED BY <1>1, <1>2, <1>3 DEF Handler, Job, Goto, LaneTypes

\* The ways to move.
LEMMA MovesToAck ==
  ASSUME LaneTypes, NEW w \in Workers, NEW step \in Holding,
         at[w].step \in Holding, LaneIs(msgs), Goto(w, step)
  PROVE  Moves(w, msgs, [at[w] EXCEPT !.step = step])
  BY HandlerIs DEF Moves, LaneTypes

LEMMA MovesAway ==
  ASSUME LaneTypes, NEW w \in Workers, at[w].step \in Owes, LaneIs(msgs), Leave(w)
  PROVE  Moves(w, msgs, Idle)
  BY NoMsgTypes DEF Moves, LaneTypes, Leave

LEMMA GoneIs ==
  ASSUME LaneTypes, NEW x \in Slots
  PROVE  /\ Gone(x) \in [Slots -> Job] /\ Gone(x)[x].state = "free"
         /\ \A s \in Slots : s # x => Gone(x)[s] = msgs[s]
  BY NoMsgTypes DEF LaneTypes, Gone

LEMMA ReturnedIs ==
  ASSUME LaneTypes, NEW x \in Slots
  PROVE  /\ Returned(x) \in [Slots -> Job]
         /\ \A s \in Slots : s # x => Returned(x)[s] = msgs[s]
         /\ ~(msgs[x].tries >= MaxDeliver) =>
              /\ Returned(x)[x].state = "waiting"
              /\ Returned(x)[x].item = msgs[x].item /\ Returned(x)[x].rest = msgs[x].rest
<1>1. [msgs[x] EXCEPT !.state = "waiting"] \in Job
  BY DEF LaneTypes, Job
<1>2. [msgs EXCEPT ![x].state = "waiting"] = [msgs EXCEPT ![x] = [msgs[x] EXCEPT !.state = "waiting"]]
  OBVIOUS
<1>3. CASE msgs[x].tries >= MaxDeliver
  BY <1>3, GoneIs DEF Returned
<1>4. CASE ~(msgs[x].tries >= MaxDeliver)
  <2>1. Returned(x) = [msgs EXCEPT ![x] = [msgs[x] EXCEPT !.state = "waiting"]]
    BY <1>2, <1>4 DEF Returned
  <2> QED BY <1>1, <2>1 DEF LaneTypes, Job
<1> QED BY <1>3, <1>4

\* The message a handler has in hand goes on in its slot.
Stays(w, box, new) ==
    /\ at[w].step \in Holding
    /\ box[at[w].msg].state # "free"
    /\ box[at[w].msg].item = Body(w).item /\ box[at[w].msg].rest = Body(w).rest
    /\ new.step # "ack"

\* What has to be seen of a step of a handler: that what its message leads to,
\* or its run has in hand, is led to, or in hand, when the message goes away.
LEMMA HandlerKeeps ==
  ASSUME BatchInv, NEW w \in Workers, NEW box, NEW new, Moves(w, box, new),
         RowTypes', Progress', renders \subseteq renders',
         \A i \in Items \ adrift' : status'[i] = "queued" =>
           \/ Led(i)'
           \/ /\ status[i] = "queued" /\ i \notin adrift
              /\ Leads(Body(w), i) /\ at[w].step # "ack" => Stays(w, box, new),
         \A i \in Items \ adrift' : status'[i] = "working" =>
           \/ Owned(i)'
           \/ /\ status[i] = "working" /\ i \notin adrift
              /\ Body(w).item = i /\ at[w].step # "ack" => Stays(w, box, new)
  PROVE  BatchInv'
<1>1. LaneTypes /\ Custody BY DEF BatchInv
<1>2. /\ LaneTypes' /\ Custody'
      /\ \A s \in Slots : Bearing(s) /\ box[s].state # "free"
                          /\ ~(new.step = "ack" /\ new.msg = s)
                            => Bearing(s)' /\ msgs'[s] = box[s]
  BY <1>1, LaneStep
<1>3. at'[w] = new /\ \A v \in Workers \ {w} : at'[v] = at[v]
  BY <1>1 DEF Moves, LaneTypes
<1>4. ASSUME NEW s \in Slots, Bearing(s), at[w].step \in Holding => s # at[w].msg
      PROVE  Bearing(s)' /\ msgs'[s] = msgs[s]
  <2>1. box[s] = msgs[s] BY <1>4 DEF Moves
  <2>2. ~(new.step = "ack" /\ new.msg = s) BY <1>4 DEF Moves, Holding, Owes, Idle
  <2> QED BY <1>2, <1>4, <2>1, <2>2 DEF Bearing
<1>5. ASSUME NEW s \in Slots, Bearing(s), at[w].step \in Holding, s = at[w].msg
      PROVE  at[w].step # "ack" /\ msgs[s] = Body(w)
  BY <1>1, <1>5 DEF Bearing, Custody
<1>6. ASSUME NEW s \in Slots, Bearing(s), s = at[w].msg, Stays(w, box, new)
      PROVE  Bearing(s)' /\ msgs'[s].item = Body(w).item /\ msgs'[s].rest = Body(w).rest
  BY <1>2, <1>6 DEF Stays
<1>7. ASSUME NEW i \in Items \ adrift', status'[i] = "queued" PROVE Led(i)'
  <2>1. SUFFICES ASSUME status[i] = "queued", i \notin adrift,
                        Leads(Body(w), i) /\ at[w].step # "ack" => Stays(w, box, new)
                 PROVE  Led(i)'
    BY <1>7
  <2>2. Led(i) BY <2>1 DEF BatchInv, Borne
  <2>3. CASE \E s \in Slots : Bearing(s) /\ Leads(msgs[s], i)
    <3>1. PICK s \in Slots : Bearing(s) /\ Leads(msgs[s], i) BY <2>3
    <3>2. CASE at[w].step \in Holding => s # at[w].msg
      <4>1. Bearing(s)' /\ msgs'[s] = msgs[s] BY <1>4, <3>1, <3>2
      <4>2. Leads(msgs[s], i)' BY <1>7, <3>1, <4>1 DEF Leads, Waits
      <4> QED BY <4>1, <4>2 DEF Led
    <3>3. CASE at[w].step \in Holding /\ s = at[w].msg
      <4>1. Stays(w, box, new) BY <1>5, <2>1, <3>1, <3>3
      <4>2. Bearing(s)' /\ msgs'[s].item = msgs[s].item /\ msgs'[s].rest = msgs[s].rest
        BY <1>5, <1>6, <3>1, <3>3, <4>1
      <4>3. Leads(msgs[s], i)' BY <1>7, <3>1, <4>2 DEF Leads, Waits
      <4> QED BY <4>2, <4>3 DEF Led
    <3> QED BY <3>2, <3>3
  <2>4. CASE \E v \in Workers : at[v].step \in Owes /\ Leads(Body(v), i)
    <3>1. PICK v \in Workers : at[v].step \in Owes /\ Leads(Body(v), i) BY <2>4
    <3>2. v # w BY <2>1, <3>1 DEF Stays, Owes, Holding
    <3>3. at'[v] = at[v] BY <1>3, <3>2
    <3>4. Leads(Body(v), i)' BY <1>7, <3>1, <3>3 DEF Leads, Waits, Body
    <3> QED BY <3>1, <3>3, <3>4 DEF Led
  <2>5. CASE i \in renders BY <2>5 DEF Led
  <2> QED BY <2>2, <2>3, <2>4, <2>5 DEF Led
<1>8. ASSUME NEW i \in Items \ adrift', status'[i] = "working" PROVE Owned(i)'
  <2>1. SUFFICES ASSUME status[i] = "working", i \notin adrift,
                        Body(w).item = i /\ at[w].step # "ack" => Stays(w, box, new)
                 PROVE  Owned(i)'
    BY <1>8
  <2>2. Owned(i) BY <2>1 DEF BatchInv, Borne
  <2>3. CASE \E s \in Slots : Bearing(s) /\ msgs[s].item = i
    <3>1. PICK s \in Slots : Bearing(s) /\ msgs[s].item = i BY <2>3
    <3>2. CASE at[w].step \in Holding => s # at[w].msg
      BY <1>4, <3>1, <3>2 DEF Owned
    <3>3. CASE at[w].step \in Holding /\ s = at[w].msg
      <4>1. Stays(w, box, new) BY <1>5, <2>1, <3>1, <3>3
      <4> QED BY <1>5, <1>6, <3>1, <3>3, <4>1 DEF Owned
    <3> QED BY <3>2, <3>3
  <2>4. CASE \E v \in Workers : at[v].step = "resume" /\ Body(v).item = i
    <3>1. PICK v \in Workers : at[v].step = "resume" /\ Body(v).item = i BY <2>4
    <3>2. v # w BY <2>1, <3>1 DEF Stays, Holding
    <3>3. at'[v] = at[v] BY <1>3, <3>2
    <3> QED BY <3>1, <3>3 DEF Owned, Body
  <2> QED BY <2>2, <2>3, <2>4 DEF Owned
<1> QED BY <1>2, <1>7, <1>8 DEF BatchInv, Borne

-----------------------------------------------------------------------------
(* How a batch goes on. *)

LEMMA ItemLeads ==
  ASSUME NEW m \in Job, m.item # Free, NEW i \in Items, Leads(m, i), i # m.item
  PROVE  i \in Elems(m.rest) /\ m.rest # <<>>
  BY DEF Leads, Elems

LEMMA ContinueIs ==
  ASSUME NEW box, NEW m \in Job, Continue(box, m)
  PROVE  /\ LaneIs(box)
         /\ m.rest # <<>> =>
              \E n \in Job : n.state = "waiting" /\ n.item = Free /\ Publish(box, n)
<1>1. CASE m.rest = <<>> BY <1>1 DEF Continue, LaneIs
<1>2. CASE m.rest # <<>>
  <2>1. Publish(box, Message(Free, <<>>, TRUE)) BY <1>2 DEF Continue
  <2>2. /\ Message(Free, <<>>, TRUE) \in Job /\ Message(Free, <<>>, TRUE).state = "waiting"
        /\ Message(Free, <<>>, TRUE).item = Free
    BY OneItem
  <2> QED BY <2>1, <2>2 DEF LaneIs
<1> QED BY <1>1, <1>2

\* A message that carries queue q leads to all of it.
LEMMA QueueIs ==
  ASSUME NEW box, NEW q \in Seq(Items), q # <<>>,
         Publish(box, Message(Head(q), Tail(q), FALSE))
  PROVE  /\ LaneIs(box)
         /\ \E n \in Job : /\ n.state = "waiting" /\ n.item # Free /\ Publish(box, n)
                           /\ \A i \in Elems(q) : i = n.item \/ i \in Elems(n.rest)
<1>1. /\ Head(q) \in Items /\ Tail(q) \in Seq(Items)
      /\ Elems(q) = {Head(q)} \cup Elems(Tail(q))
  BY QueueElems
<1>2. PICK n \in Job : /\ Publish(box, n) /\ n.state = "waiting"
                       /\ n.item = Head(q) /\ n.rest = Tail(q)
  <2>1. /\ Message(Head(q), Tail(q), FALSE) \in Job
        /\ Message(Head(q), Tail(q), FALSE).state = "waiting"
        /\ Message(Head(q), Tail(q), FALSE).item = Head(q)
        /\ Message(Head(q), Tail(q), FALSE).rest = Tail(q)
    BY <1>1, MessageTypes
  <2> QED BY <2>1
<1>3. n.item # Free BY <1>1, <1>2, BatchAssumption
<1> QED BY <1>1, <1>2, <1>3 DEF LaneIs

\* After a resume message, every item that waits is led to.
LEMMA QueueResumes ==
  ASSUME LaneTypes, Custody, NEW w \in Workers, NEW box, NEW new, Moves(w, box, new),
         Continue(box, Body(w)), Body(w).rest # <<>>,
         NEW i \in Items, status'[i] \in {"planned", "queued"}
  PROVE  Led(i)'
<1>1. PICK n \in Job : n.state = "waiting" /\ n.item = Free /\ Publish(box, n)
  BY HandlerIs, ContinueIs
<1>2. PICK s \in Slots : Bearing(s)' /\ msgs'[s] = n
  BY <1>1, LaneStep
<1>3. Leads(msgs[s], i)' BY <1>1, <1>2 DEF Leads, Waits
<1> QED BY <1>2, <1>3 DEF Led

\* After the next message of a queue, every item of it is led to.
LEMMA QueueGoesOn ==
  ASSUME LaneTypes, Custody, NEW w \in Workers, NEW box, NEW new, Moves(w, box, new),
         NEW q \in Seq(Items), q # <<>>,
         Publish(box, Message(Head(q), Tail(q), FALSE)), NEW i \in Elems(q)
  PROVE  Led(i)'
<1>1. PICK n \in Job : /\ n.state = "waiting" /\ n.item # Free /\ Publish(box, n)
                       /\ i = n.item \/ i \in Elems(n.rest)
  BY QueueIs
<1>2. PICK s \in Slots : Bearing(s)' /\ msgs'[s] = n
  BY <1>1, LaneStep
<1>3. Leads(msgs[s], i)' BY <1>1, <1>2 DEF Leads
<1> QED BY <1>2, <1>3 DEF Led

\* A handler that holds its message has the item of it in hand.
LEMMA HoldsOwn ==
  ASSUME Custody', NEW w \in Workers, at'[w].step \in Holding \ {"ack"}
  PROVE  Bearing(at[w].msg)' /\ msgs'[at'[w].msg] = Body(w)' /\ at'[w].msg \in Slots
<1>1. at'[w].msg \in Slots /\ msgs'[at'[w].msg] = Body(w)' /\ Body(w)'.state = "held"
  BY DEF Custody
<1>2. \A v \in Workers : at'[v].step = "ack" => at'[v].msg # at'[w].msg
  BY DEF Custody, Holding
<1> QED BY <1>1, <1>2 DEF Bearing

\* What has to be seen of a step for Progress.
LEMMA ProgressStep ==
  ASSUME LaneTypes, Progress, NEW w \in Workers, NEW new, at' = [at EXCEPT ![w] = new],
         \A i \in Items : status[i] = "in_review" => status'[i] = "in_review",
         \A i \in Reels : status'[i] # "working",
         new.step \in {"insert", "run", "generate", "stored", "reviewed", "done", "chain",
                       "resume"}
           => new.body.item \in Items \ Reels,
         new.step \in {"reviewed", "done", "chain"} => status'[new.body.item] = "in_review"
  PROVE  Progress'
<1>1. at'[w] = new /\ \A v \in Workers \ {w} : at'[v] = at[v] BY DEF LaneTypes
<1> QED BY <1>1 DEF Progress, Body

\* What releasing an item does to the rows.
LEMMA ReleasedIs ==
  ASSUME RowTypes, NEW i \in Items, NEW stuck, status' = Released(i, stuck)
  PROVE  /\ status' \in [Items -> Statuses]
         /\ \A j \in Items : j # i => status'[j] = status[j]
         /\ status'[i] = IF status[i] \in stuck THEN "failed" ELSE status[i]
  BY DEF RowTypes, Released, Statuses

-----------------------------------------------------------------------------
(* The steps of a handler. *)

\* The handler moves on with its message in hand.
LEMMA StaysHere ==
  ASSUME Custody, NEW w \in Workers, at[w].step \in Holding, NEW new, new.step # "ack"
  PROVE  Stays(w, msgs, new)
  BY DEF Stays, Custody

\* The run of an item ends with the item released and the batch resumed.
LEMMA EndsItem ==
  ASSUME BatchInv, NEW w \in Workers, NEW box, NEW new, Moves(w, box, new),
         new.step \in {"ack", "idle"},
         Body(w).item \in Items \ Reels, Continue(box, Body(w)),
         status' = Released(Body(w).item, {"queued", "working"}),
         UNCHANGED <<renders, adrift>>
  PROVE  BatchInv'
<1> DEFINE m == Body(w)
<1>1. RowTypes /\ LaneTypes /\ Custody /\ Progress BY DEF BatchInv
<1>2. /\ status' \in [Items -> Statuses]
      /\ \A j \in Items : j # m.item => status'[j] = status[j]
      /\ status'[m.item] = IF status[m.item] \in {"queued", "working"} THEN "failed"
                           ELSE status[m.item]
  BY <1>1, ReleasedIs
<1>3. RowTypes' BY <1>1, <1>2 DEF RowTypes
<1>4. Progress'
  <2>1. \A i \in Items : status[i] = "in_review" => status'[i] = "in_review" BY <1>2
  <2>2. \A i \in Reels : status'[i] # "working"
    BY <1>1, <1>2, BatchAssumption DEF Progress
  <2>3. at' = [at EXCEPT ![w] = new] BY DEF Moves
  <2> QED BY <1>1, <2>1, <2>2, <2>3, ProgressStep
<1>5. ASSUME NEW i \in Items, status'[i] = "queued", Leads(m, i) PROVE Led(i)'
  <2>1. i # m.item BY <1>2, <1>5
  <2>2. m \in Job /\ m.item # Free BY <1>1, HandlerIs, BatchAssumption
  <2>3. m.rest # <<>> BY <1>5, <2>1, <2>2, ItemLeads
  <2> QED BY <1>1, <1>5, <2>3, QueueResumes
<1>6. \A i \in Items : status'[i] = "queued" => status[i] = "queued" BY <1>2
<1>7. \A i \in Items : status'[i] = "working" => status[i] = "working" /\ m.item # i
  BY <1>2
<1> QED BY <1>3, <1>4, <1>5, <1>6, <1>7, HandlerKeeps

\* A message without an item: the queue found is the next batch.
LEMMA SkipForwardKeeps ==
  ASSUME BatchInv, NEW w \in Workers, SkipForward(w)
  PROVE  BatchInv'
<1> DEFINE m == Body(w)
           after == IF m.resume THEN status ELSE Promoted
           ids == InOrder({"queued"}, after, BatchLimit)
           new == [at[w] EXCEPT !.step = "ack"]
<1>1. RowTypes /\ LaneTypes /\ Custody /\ Progress BY DEF BatchInv
<1>2. /\ at[w].step = "start" /\ m.item = Free /\ status' = after /\ Goto(w, "ack")
      /\ UNCHANGED renders
      /\ adrift' = (adrift \cup {i \in Items : after[i] = "queued"}) \ Elems(ids)
      /\ \/ ids # <<>> /\ Publish(msgs, Message(Head(ids), Tail(ids), FALSE))
         \/ ids = <<>> /\ UNCHANGED msgs
  BY DEF SkipForward
<1>3. ids \in Seq(Items) BY InOrderIs, BatchAssumption
<1>4. /\ after \in [Items -> Statuses]
      /\ \A i \in Items : after[i] # status[i] => status[i] = "planned" /\ after[i] = "queued"
  BY <1>1, PromotedTypes DEF RowTypes
<1> HIDE DEF ids, after
<1>5. LaneIs(msgs)
  <2>1. CASE ids = <<>> BY <1>2, <2>1 DEF LaneIs
  <2>2. CASE ids # <<>> BY <1>2, <1>3, <2>2, QueueIs
  <2> QED BY <2>1, <2>2
<1>6. Moves(w, msgs, new)
  BY <1>1, <1>2, <1>5, MovesToAck DEF Holding
<1>7. new.step = "ack" /\ at' = [at EXCEPT ![w] = new]
  BY <1>1, <1>2, HandlerIs DEF Holding
<1>8. RowTypes' BY <1>1, <1>2, <1>4 DEF RowTypes
<1>9. Progress'
  <2>1. \A i \in Items : status[i] = "in_review" => status'[i] = "in_review" BY <1>2, <1>4
  <2>2. \A i \in Reels : status'[i] # "working"
    BY <1>1, <1>2, <1>4, BatchAssumption DEF Progress
  <2> QED BY <1>1, <1>7, <2>1, <2>2, ProgressStep
<1>10. ASSUME NEW i \in Items \ adrift', status'[i] = "queued" PROVE Led(i)'
  <2>1. i \in Elems(ids) BY <1>2, <1>10
  <2>2. ids # <<>> BY <2>1 DEF Elems
  <2> QED BY <1>1, <1>2, <1>3, <1>6, <2>1, <2>2, QueueGoesOn
<1>11. \A i \in Items \ adrift' : status'[i] = "working" =>
         status[i] = "working" /\ i \notin adrift /\ m.item # i
  <2>1. \A i \in Items \ adrift' : status'[i] = "working" => status[i] = "working"
    BY <1>2, <1>4
  <2>2. \A i \in Items \ adrift' : i \notin adrift \/ i \in Elems(ids) BY <1>2
  <2>3. \A i \in Elems(ids) : status'[i] = "queued"
    <3>1. Elems(ids) \subseteq {i \in Items : after[i] \in {"queued"}}
      BY InOrderIs, BatchAssumption DEF ids
    <3> QED BY <1>2, <3>1
  <2> QED BY <1>2, <2>1, <2>2, <2>3, BatchAssumption
<1> QED BY <1>2, <1>6, <1>8, <1>9, <1>10, <1>11, HandlerKeeps

\* An item already made, a reel, or an item to generate.
LEMMA GuardsKeep ==
  ASSUME BatchInv, NEW w \in Workers, Guards(w)
  PROVE  BatchInv'
<1> DEFINE m == Body(w)
           new(step) == [at[w] EXCEPT !.step = step]
<1>1. RowTypes /\ LaneTypes /\ Custody /\ Progress BY DEF BatchInv
<1>2. m \in Job /\ m.rest \in Seq(Items) /\ at[w].step = "start" /\ m.item \in Items
      /\ m.item # Free
  BY <1>1, HandlerIs DEF Guards
<1>3. UNCHANGED <<status, adrift>> BY DEF Guards
<1>4. \A step \in Holding : /\ new(step).step = step /\ new(step).body = at[w].body
                            /\ Goto(w, step) => at' = [at EXCEPT ![w] = new(step)]
  BY <1>1, HandlerIs
<1>5. ASSUME NEW step \in {"ack", "insert"}, Goto(w, step), LaneIs(msgs),
             step = "insert" => m.item \notin Reels
      PROVE  Moves(w, msgs, new(step)) /\ Progress'
  <2>1. step \in Holding /\ at[w].step \in Holding BY <1>2 DEF Holding
  <2>2. Moves(w, msgs, new(step)) BY <1>1, <1>5, <2>1, MovesToAck
  <2>3. at' = [at EXCEPT ![w] = new(step)] /\ new(step).step = step
        /\ new(step).body = at[w].body
    BY <1>4, <1>5, <2>1
  <2>4. \A i \in Reels : status'[i] # "working" BY <1>1, <1>3 DEF Progress
  <2> HIDE DEF new
  <2>5. Progress' BY <1>1, <1>2, <1>3, <1>5, <2>3, <2>4, ProgressStep DEF Body
  <2> QED BY <2>2, <2>5
<1>6. CASE /\ status[m.item] \in Past
           /\ Continue(msgs, m) /\ Goto(w, "ack") /\ UNCHANGED renders
  <2>1. LaneIs(msgs) BY <1>2, <1>6, ContinueIs
  <2>2. Moves(w, msgs, new("ack")) /\ Progress'
    <3>1. Goto(w, "ack") BY <1>6
    <3> HIDE DEF new
    <3> QED BY <1>5, <2>1, <3>1
  <2>3. RowTypes' BY <1>1, <1>3, <1>6 DEF RowTypes
  <2> HIDE DEF new
  <2>4. ASSUME NEW i \in Items, status'[i] = "queued", Leads(m, i) PROVE Led(i)'
    <3>1. i # m.item BY <1>3, <1>6, <2>4 DEF Past
    <3>2. m.rest # <<>> BY <1>2, <2>4, <3>1, ItemLeads
    <3> QED BY <1>1, <1>6, <2>2, <2>4, <3>2, QueueResumes
  <2>5. \A i \in Items : status'[i] = "working" => i # m.item BY <1>3, <1>6 DEF Past
  <2> QED BY <1>3, <1>6, <2>2, <2>3, <2>4, <2>5, HandlerKeeps
<1>7. CASE /\ m.item \in Reels
           /\ renders' = IF status[m.item] \in {"queued", "planned"}
                         THEN renders \cup {m.item} ELSE renders
           /\ IF m.rest = <<>> THEN UNCHANGED msgs ELSE Publish(msgs, NextOf(m))
           /\ Goto(w, "ack")
  <2>1. m.rest # <<>> => Publish(msgs, Message(Head(m.rest), Tail(m.rest), FALSE))
    BY <1>7 DEF NextOf
  <2>2. LaneIs(msgs)
    <3>1. CASE m.rest = <<>> BY <1>7, <3>1 DEF LaneIs
    <3>2. CASE m.rest # <<>> BY <1>2, <2>1, <3>2, QueueIs
    <3> QED BY <3>1, <3>2
  <2>3. Moves(w, msgs, new("ack")) /\ Progress'
    <3>1. Goto(w, "ack") BY <1>7
    <3> HIDE DEF new
    <3> QED BY <1>5, <2>2, <3>1
  <2>4. RowTypes' BY <1>1, <1>2, <1>3, <1>7 DEF RowTypes
  <2>5. renders \subseteq renders' BY <1>7
  <2> HIDE DEF new
  <2>6. ASSUME NEW i \in Items, status'[i] = "queued", Leads(m, i) PROVE Led(i)'
    <3>1. CASE i = m.item BY <1>3, <1>7, <2>6, <3>1 DEF Led
    <3>2. CASE i # m.item
      <4>1. i \in Elems(m.rest) /\ m.rest # <<>> BY <1>2, <2>6, <3>2, ItemLeads
      <4> QED BY <1>1, <1>2, <2>1, <2>3, <4>1, QueueGoesOn
    <3> QED BY <3>1, <3>2
  <2>7. \A i \in Items : status'[i] = "working" => i # m.item
    BY <1>1, <1>3, <1>7 DEF Progress
  <2> QED BY <1>3, <2>3, <2>4, <2>5, <2>6, <2>7, HandlerKeeps
<1>8. CASE m.item \notin Reels /\ Goto(w, "insert") /\ UNCHANGED <<msgs, renders>>
  <2>1. LaneIs(msgs) BY <1>8 DEF LaneIs
  <2>2. Moves(w, msgs, new("insert")) /\ Progress'
    BY <1>2, <1>5, <1>8, <2>1 DEF Holding
  <2>3. RowTypes' BY <1>1, <1>3, <1>8 DEF RowTypes
  <2>4. new("insert").step # "ack" BY <1>4 DEF Holding
  <2> HIDE DEF new
  <2>5. Stays(w, msgs, new("insert")) BY <1>1, <1>2, <2>4, StaysHere DEF Holding
  <2> QED BY <1>3, <1>8, <2>2, <2>3, <2>5, HandlerKeeps
<1> QED BY <1>6, <1>7, <1>8 DEF Guards

\* A run is started, stores its version, and completes.
LEMMA RunKeeps ==
  ASSUME BatchInv, NEW w \in Workers, CreateRun(w) \/ StoreContent(w) \/ Complete(w)
  PROVE  BatchInv'
<1>1. RowTypes /\ LaneTypes /\ Custody /\ Progress BY DEF BatchInv
<1>2. PICK step \in {"run", "stored", "done"} :
        /\ Goto(w, step)
        /\ step = "run" => at[w].step = "insert"
        /\ step = "stored" => at[w].step = "generate"
        /\ step = "done" => at[w].step = "reviewed"
        /\ UNCHANGED <<status, msgs, renders, adrift>>
  BY DEF CreateRun, StoreContent, Complete
<1> DEFINE new == [at[w] EXCEPT !.step = step]
<1>3. at[w].step \in Holding /\ step \in Holding BY <1>2 DEF Holding
<1>4. at' = [at EXCEPT ![w] = new] /\ new.step = step /\ new.body = at[w].body
  BY <1>1, <1>2, <1>3, HandlerIs
<1>5. Moves(w, msgs, new)
  <2>1. LaneIs(msgs) BY <1>2 DEF LaneIs
  <2> QED BY <1>1, <1>2, <1>3, <2>1, MovesToAck
<1> HIDE DEF new
<1>6. RowTypes' BY <1>1, <1>2 DEF RowTypes
<1>7. Progress'
  <2>1. Body(w).item \in Items \ Reels
        /\ (step = "done" => status[Body(w).item] = "in_review")
    BY <1>1, <1>2 DEF Progress
  <2>2. \A i \in Reels : status'[i] # "working" BY <1>1, <1>2 DEF Progress
  <2> QED BY <1>1, <1>2, <1>4, <2>1, <2>2, ProgressStep DEF Body
<1>8. Stays(w, msgs, new) BY <1>1, <1>2, <1>3, <1>4, StaysHere
<1> QED BY <1>2, <1>5, <1>6, <1>7, <1>8, HandlerKeeps

\* Another run has the brand: the message comes back, or goes for good.
LEMMA BlockedKeeps ==
  ASSUME BatchInv, NEW w \in Workers, Blocked(w)
  PROVE  BatchInv'
<1> DEFINE m == Body(w)
<1>1. RowTypes /\ LaneTypes /\ Custody /\ Progress BY DEF BatchInv
<1>2. at[w].step = "insert" /\ UNCHANGED <<status, renders>> BY DEF Blocked
<1>3. m \in Job /\ m.item \in Items \ Reels /\ m.item # Free /\ m.tries \in Nat
  BY <1>1, <1>2, HandlerIs, BatchAssumption DEF Progress
<1>4. at[w].msg \in Slots /\ msgs[at[w].msg] = m BY <1>1, <1>2 DEF Custody, Holding
<1>5. \A i \in Reels : status'[i] # "working" BY <1>1, <1>2 DEF Progress
<1>6. CASE /\ m.tries < MaxDeliver
           /\ msgs' = Returned(at[w].msg) /\ Leave(w) /\ UNCHANGED adrift
  <2> DEFINE box == Returned(at[w].msg)
  <2>1. /\ box \in [Slots -> Job] /\ \A s \in Slots : s # at[w].msg => box[s] = msgs[s]
        /\ box[at[w].msg].state = "waiting"
        /\ box[at[w].msg].item = m.item /\ box[at[w].msg].rest = m.rest
    BY <1>1, <1>3, <1>4, <1>6, ReturnedIs, BatchAssumption
  <2> HIDE DEF box
  <2>2. Moves(w, box, Idle)
    BY <1>2, <1>6, <2>1, NoMsgTypes DEF Moves, LaneIs, Leave, Holding, box
  <2>3. Stays(w, box, Idle) BY <1>2, <2>1 DEF Stays, Idle, Holding
  <2>4. Progress'
    <3>1. at' = [at EXCEPT ![w] = Idle] BY <1>6 DEF Leave
    <3> QED BY <1>1, <1>2, <1>5, <3>1, ProgressStep DEF Idle
  <2>5. RowTypes' BY <1>1, <1>2, <1>6 DEF RowTypes
  <2> QED BY <1>2, <1>6, <2>2, <2>3, <2>4, <2>5, HandlerKeeps
<1>7. CASE /\ Continue(msgs, m) /\ Goto(w, "ack")
           /\ adrift' = IF m.rest = <<>> \/ status[m.item] = "working"
                        THEN adrift \cup {m.item} ELSE adrift
  <2> DEFINE new == [at[w] EXCEPT !.step = "ack"]
  <2>1. LaneIs(msgs) BY <1>3, <1>7, ContinueIs
  <2>2. Moves(w, msgs, new) BY <1>1, <1>2, <1>7, <2>1, MovesToAck DEF Holding
  <2>3. new.step = "ack" /\ at' = [at EXCEPT ![w] = new]
    BY <1>1, <1>7, HandlerIs DEF Holding
  <2> HIDE DEF new
  <2>4. Progress' BY <1>1, <1>2, <1>5, <2>3, ProgressStep
  <2>5. RowTypes' BY <1>1, <1>2, <1>3, <1>7 DEF RowTypes
  <2>6. ASSUME NEW i \in Items \ adrift', status'[i] = "queued", Leads(m, i) PROVE Led(i)'
    <3>1. CASE m.rest = <<>>
      <4>1. i # m.item BY <1>7, <2>6, <3>1
      <4> QED BY <1>3, <2>6, <3>1, <4>1, ItemLeads
    <3>2. CASE m.rest # <<>> BY <1>1, <1>7, <2>2, <2>6, <3>2, QueueResumes
    <3> QED BY <3>1, <3>2
  <2>7. \A i \in Items \ adrift' : i \notin adrift BY <1>7
  <2>8. \A i \in Items \ adrift' : status'[i] = "working" => m.item # i
    BY <1>2, <1>7
  <2> QED BY <1>2, <2>2, <2>4, <2>5, <2>6, <2>7, <2>8, HandlerKeeps
<1> QED BY <1>6, <1>7 DEF Blocked

\* A claimed item is in the hands of the run that claims it; a finished one waits
\* for its review.
LEMMA ClaimReviewKeep ==
  ASSUME BatchInv, NEW w \in Workers, Claim(w) \/ ToReview(w)
  PROVE  BatchInv'
<1> DEFINE i == Body(w).item
<1>1. RowTypes /\ LaneTypes /\ Custody /\ Progress BY DEF BatchInv
<1>2. UNCHANGED <<msgs, renders, adrift>> BY DEF Claim, ToReview
<1>3. at[w].step \in {"run", "stored"} BY DEF Claim, ToReview
<1>4. i \in Items \ Reels BY <1>1, <1>3 DEF Progress
<1>5. PICK step \in {"generate", "reviewed"} :
        /\ Goto(w, step)
        /\ step = "generate" => status' =
             [status EXCEPT ![i] = IF status[i] = "queued" THEN "working" ELSE status[i]]
        /\ step = "reviewed" => status' = [status EXCEPT ![i] = "in_review"]
  BY <1>1 DEF Claim, ToReview
<1> DEFINE new == [at[w] EXCEPT !.step = step]
<1>6. at[w].step \in Holding /\ step \in Holding BY <1>3, <1>5 DEF Holding
<1>7. at' = [at EXCEPT ![w] = new] /\ new.step = step /\ new.body = at[w].body
  BY <1>1, <1>5, <1>6, HandlerIs
<1>8. Moves(w, msgs, new)
  <2>1. LaneIs(msgs) BY <1>2 DEF LaneIs
  <2> QED BY <1>1, <1>5, <1>6, <2>1, MovesToAck
<1> HIDE DEF new
<1>9. /\ status' \in [Items -> Statuses]
      /\ \A j \in Items : j # i => status'[j] = status[j]
      /\ step = "generate" =>
           status'[i] = IF status[i] = "queued" THEN "working" ELSE status[i]
      /\ step = "reviewed" => status'[i] = "in_review"
  <2>1. "working" \in Statuses /\ "in_review" \in Statuses BY DEF Statuses
  <2> HIDE DEF i
  <2> QED BY <1>1, <1>4, <1>5, <2>1 DEF RowTypes
<1>10. RowTypes' BY <1>1, <1>2, <1>9 DEF RowTypes
<1>11. Progress'
  <2>1. \A j \in Items : status[j] = "in_review" => status'[j] = "in_review"
    BY <1>4, <1>5, <1>9
  <2>2. \A j \in Reels : status'[j] # "working"
    BY <1>1, <1>4, <1>9, BatchAssumption DEF Progress
  <2>3. new.body.item = i BY <1>7 DEF Body
  <2> QED BY <1>1, <1>4, <1>5, <1>7, <1>9, <2>1, <2>2, <2>3, ProgressStep
<1>12. Stays(w, msgs, new) BY <1>1, <1>5, <1>6, <1>7, StaysHere
<1>13. \A j \in Items : status'[j] = "queued" => status[j] = "queued" /\ j # i
  BY <1>5, <1>9
<1>14. ASSUME NEW j \in Items, status'[j] = "working", status[j] # "working"
       PROVE  Owned(j)'
  <2>1. j = i /\ step = "generate" BY <1>5, <1>9, <1>14
  <2>2. Custody' BY <1>1, <1>8, LaneStep
  <2>3. at'[w] = new BY <1>1, <1>7 DEF LaneTypes
  <2>4. at'[w].step \in Holding \ {"ack"} BY <1>7, <2>1, <2>3 DEF Holding
  <2>5. Bearing(at[w].msg)' /\ msgs'[at'[w].msg] = Body(w)' /\ at'[w].msg \in Slots
    BY <2>2, <2>4, HoldsOwn
  <2>6. Body(w)'.item = j BY <1>7, <2>1, <2>3 DEF Body
  <2> QED BY <2>5, <2>6 DEF Owned
<1> QED BY <1>2, <1>8, <1>10, <1>11, <1>12, <1>13, <1>14, HandlerKeeps

\* The message is acknowledged before the batch goes on: from then on the
\* handler itself leads to what is behind it.
LEMMA AckFirstKeeps ==
  ASSUME BatchInv, NEW w \in Workers, AckDone(w) \/ WorkflowFails(w)
  PROVE  BatchInv'
<1> DEFINE m == Body(w)
<1>1. RowTypes /\ LaneTypes /\ Custody /\ Progress BY DEF BatchInv
<1>2. UNCHANGED <<status, renders, adrift>> /\ msgs' = Gone(at[w].msg)
  BY DEF AckDone, WorkflowFails
<1>3. PICK step \in Owes :
        /\ Goto(w, step)
        /\ step = "chain" => at[w].step = "done"
        /\ at[w].step \in {"run", "generate", "done"}
  BY DEF AckDone, WorkflowFails, Owes
<1> DEFINE new == [at[w] EXCEPT !.step = step]
           box == Gone(at[w].msg)
<1>4. at[w].step \in Holding BY <1>3 DEF Holding
<1>5. /\ at' = [at EXCEPT ![w] = new] /\ new.step = step /\ new.body = at[w].body
      /\ new \in Handler
  BY <1>1, <1>3, HandlerIs
<1>6. m \in Job /\ m.item \in Items \ Reels /\ m.item # Free
      /\ (step = "chain" => status[m.item] = "in_review")
  BY <1>1, <1>3, HandlerIs, BatchAssumption DEF Progress
<1>7. box \in [Slots -> Job] /\ \A s \in Slots : s # at[w].msg => box[s] = msgs[s]
  BY <1>1, <1>4, GoneIs DEF Custody
<1> HIDE DEF new
<1>8. Moves(w, box, new)
  BY <1>2, <1>3, <1>4, <1>5, <1>7 DEF Moves, LaneIs
<1> HIDE DEF box
<1>9. RowTypes' BY <1>1, <1>2 DEF RowTypes
<1>10. Progress'
  <2>1. \A i \in Reels : status'[i] # "working" BY <1>1, <1>2 DEF Progress
  <2>2. new.body.item = m.item BY <1>5 DEF Body
  <2>3. new.step \in {"chain", "resume"} BY <1>3, <1>5 DEF Owes
  <2> QED BY <1>1, <1>2, <1>5, <1>6, <2>1, <2>2, <2>3, ProgressStep
<1>11. at'[w] = new BY <1>1, <1>5 DEF LaneTypes
<1>12. ASSUME NEW i \in Items, Leads(m, i) PROVE Led(i)'
  <2>1. Body(w)' = m /\ at'[w].step \in Owes BY <1>3, <1>5, <1>11 DEF Body
  <2>2. Leads(Body(w), i)' BY <1>6, <1>12, <2>1 DEF Leads
  <2> QED BY <2>1, <2>2 DEF Led
<1>13. ASSUME NEW i \in Items, status'[i] = "working", m.item = i PROVE Owned(i)'
  <2>1. step = "resume" BY <1>2, <1>3, <1>6, <1>13 DEF Owes
  <2>2. Body(w)' = m /\ at'[w].step = "resume" BY <1>5, <1>11, <2>1 DEF Body
  <2> QED BY <1>13, <2>2 DEF Owned
<1> QED BY <1>2, <1>8, <1>9, <1>10, <1>12, <1>13, HandlerKeeps

LEMMA ChainNextKeeps ==
  ASSUME BatchInv, NEW w \in Workers, ChainNext(w)
  PROVE  BatchInv'
<1> DEFINE m == Body(w)
<1>1. RowTypes /\ LaneTypes /\ Custody /\ Progress BY DEF BatchInv
<1>2. /\ at[w].step = "chain" /\ Leave(w) /\ UNCHANGED <<status, renders, adrift>>
      /\ IF m.rest = <<>> THEN UNCHANGED msgs ELSE Publish(msgs, NextOf(m))
  BY DEF ChainNext
<1>3. /\ m \in Job /\ m.rest \in Seq(Items) /\ m.item \in Items /\ m.item # Free
      /\ status[m.item] = "in_review"
  BY <1>1, <1>2, HandlerIs, BatchAssumption DEF Progress
<1>4. m.rest # <<>> => Publish(msgs, Message(Head(m.rest), Tail(m.rest), FALSE))
  BY <1>2 DEF NextOf
<1>5. LaneIs(msgs)
  <2>1. CASE m.rest = <<>> BY <1>2, <2>1 DEF LaneIs
  <2>2. CASE m.rest # <<>> BY <1>3, <1>4, <2>2, QueueIs
  <2> QED BY <2>1, <2>2
<1>6. Moves(w, msgs, Idle) BY <1>1, <1>2, <1>5, MovesAway DEF Owes
<1>7. RowTypes' BY <1>1, <1>2 DEF RowTypes
<1>8. Progress'
  <2>1. at' = [at EXCEPT ![w] = Idle] BY <1>2 DEF Leave
  <2>2. \A i \in Reels : status'[i] # "working" BY <1>1, <1>2 DEF Progress
  <2> QED BY <1>1, <1>2, <2>1, <2>2, ProgressStep DEF Idle
<1>9. ASSUME NEW i \in Items, status'[i] = "queued", Leads(m, i) PROVE Led(i)'
  <2>1. i # m.item BY <1>2, <1>3, <1>9
  <2>2. i \in Elems(m.rest) /\ m.rest # <<>> BY <1>3, <1>9, <2>1, ItemLeads
  <2> QED BY <1>1, <1>3, <1>4, <1>6, <2>2, QueueGoesOn
<1>10. \A i \in Items : status'[i] = "working" => m.item # i BY <1>2, <1>3
<1> QED BY <1>2, <1>6, <1>7, <1>8, <1>9, <1>10, HandlerKeeps

\* A run that failed, was refused or raised releases its item and resumes the
\* batch, before or after the acknowledgement.
LEMMA FailureKeeps ==
  ASSUME BatchInv, NEW w \in Workers,
         ReleaseAndContinue(w) \/ RunRejected(w) \/ WorkflowRaises(w)
  PROVE  BatchInv'
<1> DEFINE m == Body(w)
<1>1. RowTypes /\ LaneTypes /\ Custody /\ Progress BY DEF BatchInv
<1>2. /\ Continue(msgs, m) /\ status' = Released(m.item, {"queued", "working"})
      /\ UNCHANGED <<renders, adrift>>
  BY DEF ReleaseAndContinue, RunRejected, WorkflowRaises
<1>3. m.item \in Items \ Reels
  BY <1>1 DEF ReleaseAndContinue, RunRejected, WorkflowRaises, InGraph, Progress
<1>4. LaneIs(msgs) BY <1>1, <1>2, HandlerIs, ContinueIs
<1>5. CASE at[w].step = "resume" /\ Leave(w)
  <2>1. Moves(w, msgs, Idle) BY <1>1, <1>4, <1>5, MovesAway DEF Owes
  <2>2. Idle.step = "idle" BY DEF Idle
  <2> QED BY <1>2, <1>3, <2>1, <2>2, EndsItem
<1>6. CASE at[w].step \in {"insert"} \cup InGraph /\ Goto(w, "ack")
  <2> DEFINE new == [at[w] EXCEPT !.step = "ack"]
  <2>1. Moves(w, msgs, new) BY <1>1, <1>4, <1>6, MovesToAck DEF InGraph, Holding
  <2>2. new.step = "ack" BY <1>1, HandlerIs DEF Holding
  <2> HIDE DEF new
  <2> QED BY <1>2, <1>3, <2>1, <2>2, EndsItem
<1> QED BY <1>5, <1>6 DEF ReleaseAndContinue, RunRejected, WorkflowRaises

\* A timeout: another delivery takes the item up where it was, or the batch goes
\* on without it.
LEMMA TimesOutKeeps ==
  ASSUME BatchInv, NEW w \in Workers, TimesOut(w)
  PROVE  BatchInv'
<1> DEFINE m == Body(w)
           box == Returned(at[w].msg)
<1>1. RowTypes /\ LaneTypes /\ Custody /\ Progress BY DEF BatchInv
<1>2. /\ at[w].step \in {"run", "generate", "stored", "reviewed"} /\ Leave(w)
      /\ UNCHANGED <<renders, adrift>>
  BY DEF TimesOut, InGraph
<1>3. m \in Job /\ m.item \in Items \ Reels /\ m.item # Free
  BY <1>1, <1>2, HandlerIs, BatchAssumption DEF Progress
<1>4. at[w].msg \in Slots /\ msgs[at[w].msg] = m
  BY <1>1, <1>2 DEF Custody, Holding
<1>5. /\ box \in [Slots -> Job] /\ \A s \in Slots : s # at[w].msg => box[s] = msgs[s]
      /\ ~(m.tries >= MaxDeliver) =>
           /\ box[at[w].msg].state = "waiting"
           /\ box[at[w].msg].item = m.item /\ box[at[w].msg].rest = m.rest
  BY <1>1, <1>4, ReturnedIs
<1>6. ASSUME LaneIs(box) PROVE Moves(w, box, Idle)
  BY <1>2, <1>5, <1>6, NoMsgTypes DEF Moves, Leave, Holding
<1>7. Idle.step = "idle" BY DEF Idle
<1>8. CASE m.tries >= MaxDeliver
  <2>1. Continue(box, m) /\ status' = Released(m.item, {"queued", "working"})
    BY <1>8 DEF TimesOut
  <2> HIDE DEF box
  <2>2. LaneIs(box) BY <1>3, <2>1, ContinueIs
  <2> QED BY <1>2, <1>3, <1>6, <1>7, <2>1, <2>2, EndsItem
<1>9. CASE ~(m.tries >= MaxDeliver)
  <2>1. msgs' = box /\ status' = Released(m.item, {"working"}) BY <1>9 DEF TimesOut
  <2> HIDE DEF box
  <2>2. Moves(w, box, Idle) BY <1>6, <2>1 DEF LaneIs
  <2>3. Stays(w, box, Idle) BY <1>2, <1>5, <1>7, <1>9 DEF Stays, Holding
  <2>4. /\ status' \in [Items -> Statuses]
        /\ \A j \in Items : j # m.item => status'[j] = status[j]
        /\ status'[m.item] = IF status[m.item] \in {"working"} THEN "failed"
                             ELSE status[m.item]
    BY <1>1, <1>3, <2>1, ReleasedIs
  <2>5. RowTypes' BY <1>1, <1>2, <2>4 DEF RowTypes
  <2>6. Progress'
    <3>1. at' = [at EXCEPT ![w] = Idle] BY <1>2 DEF Leave
    <3>2. \A i \in Reels : status'[i] # "working"
      BY <1>1, <1>3, <2>4, BatchAssumption DEF Progress
    <3>3. \A i \in Items : status[i] = "in_review" => status'[i] = "in_review" BY <2>4
    <3> QED BY <1>1, <3>1, <3>2, <3>3, ProgressStep DEF Idle
  <2>7. \A i \in Items : status'[i] \in {"queued", "working"} => status[i] = status'[i]
    BY <2>4
  <2> QED BY <1>2, <2>2, <2>3, <2>5, <2>6, <2>7, HandlerKeeps
<1> QED BY <1>8, <1>9

LEMMA AckKeeps ==
  ASSUME BatchInv, NEW w \in Workers, Ack(w)
  PROVE  BatchInv'
<1> DEFINE box == Gone(at[w].msg)
<1>1. RowTypes /\ LaneTypes /\ Custody /\ Progress BY DEF BatchInv
<1>2. /\ at[w].step = "ack" /\ msgs' = box /\ Leave(w)
      /\ UNCHANGED <<status, renders, adrift>>
  BY DEF Ack
<1>3. box \in [Slots -> Job] /\ \A s \in Slots : s # at[w].msg => box[s] = msgs[s]
  BY <1>1, <1>2, GoneIs DEF Custody, Holding
<1> HIDE DEF box
<1>4. Moves(w, box, Idle)
  BY <1>2, <1>3, NoMsgTypes DEF Moves, LaneIs, Leave, Holding
<1>5. RowTypes' BY <1>1, <1>2 DEF RowTypes
<1>6. Progress'
  <2>1. at' = [at EXCEPT ![w] = Idle] BY <1>2 DEF Leave
  <2>2. \A i \in Reels : status'[i] # "working" BY <1>1, <1>2 DEF Progress
  <2> QED BY <1>1, <1>2, <2>1, <2>2, ProgressStep DEF Idle
<1> QED BY <1>2, <1>4, <1>5, <1>6, HandlerKeeps

\* A crash: the message comes back, or what it led to is adrift.
LEMMA CrashKeeps ==
  ASSUME BatchInv, NEW w \in Workers, Crash(w)
  PROVE  BatchInv'
<1> DEFINE m == Body(w)
           owes == at[w].step \in {"chain", "resume"}
           last == m.tries >= MaxDeliver /\ at[w].step # "ack"
           box == IF owes THEN msgs ELSE Returned(at[w].msg)
<1>1. RowTypes /\ LaneTypes /\ Custody /\ Progress BY DEF BatchInv
<1>2. /\ at[w] # Idle /\ Leave(w) /\ msgs' = box /\ UNCHANGED <<status, renders>>
      /\ adrift' = adrift \cup IF last \/ owes THEN {i \in Items : Leads(m, i)} ELSE {}
  BY DEF Crash
<1>3. owes \/ at[w].step \in Holding
  <2>1. at[w].step # "idle" BY <1>1, <1>2 DEF Custody
  <2> QED BY <1>1, <2>1 DEF LaneTypes, Handler, Owes
<1>4. ~owes => at[w].msg \in Slots /\ msgs[at[w].msg] = m
  BY <1>1, <1>3 DEF Custody
<1>5. /\ box \in [Slots -> Job] /\ \A s \in Slots : s # at[w].msg => box[s] = msgs[s]
      /\ ~owes /\ ~(m.tries >= MaxDeliver) =>
           /\ box[at[w].msg].state = "waiting"
           /\ box[at[w].msg].item = m.item /\ box[at[w].msg].rest = m.rest
      /\ owes => box = msgs
  <2>1. CASE owes BY <1>1, <2>1 DEF LaneTypes
  <2>2. CASE ~owes BY <1>1, <1>4, <2>2, ReturnedIs
  <2> QED BY <2>1, <2>2
<1>6. at[w].step \in Holding \/ box = msgs BY <1>3, <1>5
<1> HIDE DEF box
<1>7. Moves(w, box, Idle)
  BY <1>2, <1>5, <1>6, NoMsgTypes DEF Moves, LaneIs, Leave
<1>8. RowTypes' BY <1>1, <1>2 DEF RowTypes
<1>9. Progress'
  <2>1. at' = [at EXCEPT ![w] = Idle] BY <1>2 DEF Leave
  <2>2. \A i \in Reels : status'[i] # "working" BY <1>1, <1>2 DEF Progress
  <2> QED BY <1>1, <1>2, <2>1, <2>2, ProgressStep DEF Idle
<1>10. ASSUME NEW i \in Items \ adrift', at[w].step # "ack", Leads(m, i)
       PROVE  Stays(w, box, Idle)
  <2>1. ~last /\ ~owes BY <1>2, <1>10
  <2>2. at[w].step \in Holding /\ ~(m.tries >= MaxDeliver) BY <1>3, <1>10, <2>1
  <2> QED BY <1>5, <2>1, <2>2 DEF Stays, Idle
<1>11. \A i \in Items : m.item = i => Leads(m, i) BY BatchAssumption DEF Leads
<1>12. \A i \in Items \ adrift' : i \notin adrift BY <1>2
<1> QED BY <1>2, <1>7, <1>8, <1>9, <1>10, <1>11, <1>12, HandlerKeeps

\* A delivery gives a waiting message to a worker that is free.
LEMMA DeliverKeeps ==
  ASSUME BatchInv, NEW w \in Workers, NEW s \in Slots, Deliver(w, s)
  PROVE  BatchInv'
<1> DEFINE held == [msgs[s] EXCEPT !.state = "held", !.tries = msgs[s].tries + 1]
           new == [msg |-> s, step |-> "start", body |-> held]
<1>1. RowTypes /\ LaneTypes /\ Custody /\ Progress BY DEF BatchInv
<1>2. /\ at[w] = Idle /\ msgs[s].state = "waiting"
      /\ UNCHANGED <<status, renders, adrift>>
  BY DEF Deliver
<1>3. msgs[s] \in Job BY <1>1 DEF LaneTypes
<1>4. /\ held \in Job /\ held.state = "held"
      /\ held.item = msgs[s].item /\ held.rest = msgs[s].rest
  <2>1. PICK m : m = msgs[s] OBVIOUS
  <2>2. PICK n : n = m.tries + 1 OBVIOUS
  <2>3. m \in Job /\ n \in Nat BY <1>3, <2>1, <2>2 DEF Job
  <2>4. /\ [m EXCEPT !.state = "held", !.tries = n] \in Job
        /\ [m EXCEPT !.state = "held", !.tries = n].state = "held"
        /\ [m EXCEPT !.state = "held", !.tries = n].item = m.item
        /\ [m EXCEPT !.state = "held", !.tries = n].rest = m.rest
    BY <2>3 DEF Job
  <2> QED BY <2>1, <2>2, <2>4
<1>5. msgs' = [msgs EXCEPT ![s] = held]
  BY <1>1 DEF Deliver, LaneTypes
<1>6. msgs'[s] = held /\ \A x \in Slots : x # s => msgs'[x] = msgs[x]
  BY <1>1, <1>5 DEF LaneTypes
<1> HIDE DEF held
<1>7. at' = [at EXCEPT ![w] = new] BY <1>6 DEF Deliver
<1>8. new \in Handler /\ new.step = "start" /\ new.msg = s /\ new.body = held
  BY <1>4 DEF Handler, Holding
<1> HIDE DEF new
<1>9. at'[w] = new /\ \A v \in Workers : v # w => at'[v] = at[v]
  BY <1>1, <1>7 DEF LaneTypes
<1>10. LaneTypes' BY <1>1, <1>4, <1>5, <1>7, <1>8 DEF LaneTypes
<1>11. \A v \in Workers : v # w /\ at[v].step \in Holding =>
         at[v].msg \in Slots /\ at[v].msg # s
  BY <1>1, <1>2 DEF Custody, Body
<1>12. Custody'
  <2>1. \A v \in Workers : at'[v].step = "idle" => at'[v] = Idle
    BY <1>1, <1>8, <1>9 DEF Custody
  <2>2. ASSUME NEW v \in Workers, at'[v].step \in Holding
        PROVE  at'[v].msg \in Slots /\ msgs'[at'[v].msg] = Body(v)' /\ Body(v)'.state = "held"
    <3>1. CASE v = w BY <1>4, <1>6, <1>8, <1>9, <3>1 DEF Body
    <3>2. CASE v # w BY <1>1, <1>6, <1>9, <1>11, <2>2, <3>2 DEF Custody, Body
    <3> QED BY <3>1, <3>2
  <2>3. \A u, v \in Workers :
          at'[u].step \in Holding /\ at'[v].step \in Holding /\ at'[u].msg = at'[v].msg => u = v
    BY <1>1, <1>8, <1>9, <1>11 DEF Custody
  <2> QED BY <2>1, <2>2, <2>3 DEF Custody
<1>13. Progress'
  <2>1. \A i \in Reels : status'[i] # "working" BY <1>1, <1>2 DEF Progress
  <2> QED BY <1>1, <1>2, <1>7, <1>8, <2>1, ProgressStep
<1>14. RowTypes' BY <1>1, <1>2 DEF RowTypes
<1>15. ASSUME NEW x \in Slots, Bearing(x)
       PROVE  Bearing(x)' /\ msgs'[x].item = msgs[x].item /\ msgs'[x].rest = msgs[x].rest
  <2>1. msgs'[x].item = msgs[x].item /\ msgs'[x].rest = msgs[x].rest
        /\ msgs'[x].state # "free"
    BY <1>4, <1>6, <1>15 DEF Bearing
  <2>2. \A v \in Workers : at'[v].step = "ack" => at'[v].msg # x
    BY <1>8, <1>9, <1>15 DEF Bearing
  <2> QED BY <2>1, <2>2 DEF Bearing
<1>16. \A v \in Workers : at[v].step \in Owes => at'[v] = at[v]
  BY <1>2, <1>9 DEF Idle, Owes
<1>17. ASSUME NEW i \in Items, Led(i) PROVE Led(i)'
  <2>1. CASE \E x \in Slots : Bearing(x) /\ Leads(msgs[x], i)
    <3>1. PICK x \in Slots : Bearing(x) /\ Leads(msgs[x], i) BY <2>1
    <3>2. Bearing(x)' /\ Leads(msgs[x], i)'
      BY <1>2, <1>15, <3>1 DEF Leads, Waits
    <3> QED BY <3>2 DEF Led
  <2>2. CASE \E v \in Workers : at[v].step \in Owes /\ Leads(Body(v), i)
    <3>1. PICK v \in Workers : at[v].step \in Owes /\ Leads(Body(v), i) BY <2>2
    <3>2. at'[v].step \in Owes /\ Leads(Body(v), i)'
      BY <1>2, <1>16, <3>1 DEF Leads, Waits, Body
    <3> QED BY <3>2 DEF Led
  <2>3. CASE i \in renders BY <1>2, <2>3 DEF Led
  <2> QED BY <1>17, <2>1, <2>2, <2>3 DEF Led
<1>18. ASSUME NEW i \in Items, Owned(i) PROVE Owned(i)'
  BY <1>15, <1>16, <1>18 DEF Owned, Body, Owes
<1> QED BY <1>2, <1>10, <1>12, <1>13, <1>14, <1>17, <1>18 DEF BatchInv, Borne

\* A render ends: its reel waits for a review, or has failed.
LEMMA RenderKeeps ==
  ASSUME BatchInv, NEW r \in Reels, Render(r)
  PROVE  BatchInv'
<1>1. RowTypes /\ LaneTypes /\ Custody /\ Progress BY DEF BatchInv
<1>2. UNCHANGED <<msgs, at, adrift>> /\ renders' = renders \ {r} BY DEF Render
<1>3. /\ status' \in [Items -> Statuses]
      /\ \A i \in Items : i # r => status'[i] = status[i]
      /\ status'[r] # status[r] =>
           status[r] \in {"queued", "planned"} /\ status'[r] \in {"in_review", "failed"}
      /\ status'[r] # "queued"
  BY <1>1, BatchAssumption DEF Render, RowTypes, Statuses
<1>4. RowTypes' /\ LaneTypes' /\ Custody'
  BY <1>1, <1>2, <1>3 DEF RowTypes, LaneTypes, Custody, Body
<1>5. Progress'
  <2>1. \A i \in Items : status[i] = "in_review" => status'[i] = "in_review" BY <1>3
  <2>2. \A i \in Reels : status'[i] # "working" BY <1>1, <1>3, BatchAssumption DEF Progress
  <2> QED BY <1>1, <1>2, <2>1, <2>2 DEF Progress, Body
<1>6. ASSUME NEW i \in Items \ adrift', status'[i] = "queued" PROVE Led(i)'
  <2>1. i # r /\ status[i] = "queued" BY <1>3, <1>6
  <2>2. Led(i) BY <1>2, <1>6, <2>1 DEF BatchInv, Borne
  <2>4. CASE \E s \in Slots : Bearing(s) /\ Leads(msgs[s], i)
    <3>1. PICK s \in Slots : Bearing(s) /\ Leads(msgs[s], i) BY <2>4
    <3>2. Bearing(s)' /\ Leads(msgs[s], i)'
      BY <1>2, <1>6, <3>1 DEF Leads, Waits, Bearing
    <3> QED BY <3>2 DEF Led
  <2>5. CASE \E v \in Workers : at[v].step \in Owes /\ Leads(Body(v), i)
    <3>1. PICK v \in Workers : at[v].step \in Owes /\ Leads(Body(v), i) BY <2>5
    <3>2. at'[v].step \in Owes /\ Leads(Body(v), i)'
      BY <1>2, <1>6, <3>1 DEF Leads, Waits, Body
    <3> QED BY <3>2 DEF Led
  <2>6. CASE i \in renders BY <1>2, <2>1, <2>6 DEF Led
  <2> QED BY <2>2, <2>4, <2>5, <2>6 DEF Led
<1>7. ASSUME NEW i \in Items \ adrift', status'[i] = "working" PROVE Owned(i)'
  <2>1. i # r /\ status[i] = "working" BY <1>1, <1>3, <1>7 DEF Progress
  <2>2. Owned(i) BY <1>2, <1>7, <2>1 DEF BatchInv, Borne
  <2> QED BY <1>2, <2>2 DEF Owned, Bearing, Body
<1> QED BY <1>4, <1>5, <1>6, <1>7 DEF BatchInv, Borne

LEMMA SameBatch ==
  ASSUME BatchInv, UNCHANGED <<status, msgs, at, renders, adrift>>
  PROVE  BatchInv'
  BY DEF BatchInv, RowTypes, LaneTypes, Custody, Progress, Borne, Led, Owned, Bearing,
         Leads, Waits, Body

-----------------------------------------------------------------------------
(* The batch goes on. *)

LEMMA BatchStarts == InitBatch => BatchInv
<1> SUFFICES ASSUME InitBatch PROVE BatchInv OBVIOUS
<1>1. RowTypes BY DEF InitBatch, RowTypes, Statuses
<1>2. LaneTypes BY NoMsgTypes DEF InitBatch, LaneTypes
<1>3. \A w \in Workers : at[w] = Idle /\ at[w].step = "idle" BY DEF InitBatch, Idle
<1>4. Custody BY <1>3 DEF Custody, Holding
<1>5. Progress BY <1>3, BatchAssumption DEF Progress, InitBatch
<1>6. Borne BY DEF InitBatch, Borne
<1> QED BY <1>1, <1>2, <1>4, <1>5, <1>6 DEF BatchInv

LEMMA BatchGoesOn == BatchInv /\ [NextBatch]_batch_vars => BatchInv'
<1> SUFFICES ASSUME BatchInv, [NextBatch]_batch_vars PROVE BatchInv' OBVIOUS
<1>1. CASE TriggerContent \/ TriggerItem BY <1>1, TriggerKeeps
<1>2. CASE GenerateAll BY <1>2, GenerateAllKeeps
<1>3. CASE TopUp BY <1>3, TopUpKeeps
<1>4. ASSUME NEW w \in Workers, Handle(w) PROVE BatchInv'
  <2>1. CASE \E s \in Slots : Deliver(w, s) BY <2>1, DeliverKeeps
  <2>2. CASE SkipForward(w) BY <2>2, SkipForwardKeeps
  <2>3. CASE Guards(w) BY <2>3, GuardsKeep
  <2>4. CASE CreateRun(w) \/ StoreContent(w) \/ Complete(w) BY <2>4, RunKeeps
  <2>5. CASE Blocked(w) BY <2>5, BlockedKeeps
  <2>6. CASE Claim(w) \/ ToReview(w) BY <2>6, ClaimReviewKeep
  <2>7. CASE AckDone(w) BY <2>7, AckFirstKeeps
  <2>8. CASE ChainNext(w) BY <2>8, ChainNextKeeps
  <2>9. CASE ReleaseAndContinue(w) BY <2>9, FailureKeeps
  <2>10. CASE Ack(w) BY <2>10, AckKeeps
  <2> QED BY <1>4, <2>1, <2>2, <2>3, <2>4, <2>5, <2>6, <2>7, <2>8, <2>9, <2>10 DEF Handle
<1>5. ASSUME NEW w \in Workers, Disturb(w) PROVE BatchInv'
  BY <1>5, AckFirstKeeps, FailureKeeps, TimesOutKeeps, CrashKeeps DEF Disturb
<1>6. CASE Reap BY <1>6, SameBatch DEF Reap
<1>7. ASSUME NEW i \in Reels, Render(i) PROVE BatchInv' BY <1>7, RenderKeeps
<1>8. CASE UNCHANGED batch_vars BY <1>8, SameBatch DEF batch_vars
<1> QED BY <1>1, <1>2, <1>3, <1>4, <1>5, <1>6, <1>7, <1>8 DEF NextBatch

\* However the run of an item ends (done, failed, refused, raised, timed out,
\* blocked, or with a worker that crashed), on whichever delivery, the items
\* that wait behind it are still led to: by a message, by the handler that has
\* yet to publish one, or by a render. No item falls off the batch other than
\* those BatchIsCarried excepts, for any number of workers, items and faults
\* (worker.py's terminal paths, _continue_content_chain).
THEOREM TheBatchGoesOn == BatchSpec => []BatchIsCarried
<1>1. BatchInv => BatchIsCarried
  <2> SUFFICES ASSUME BatchInv, NEW i \in Items,
                      status[i] \in {"queued", "working"}, i \notin adrift
               PROVE  Carried(i)
    BY DEF BatchIsCarried
  <2>1. CASE status[i] = "queued"
    <3>1. Led(i) BY <2>1 DEF BatchInv, Borne
    <3> QED BY <3>1 DEF Led, Carried, Live, Bearing, Owes
  <2>2. CASE status[i] = "working"
    <3>1. Owned(i) BY <2>2 DEF BatchInv, Borne
    <3>2. \A m : m.item = i => Leads(m, i) BY BatchAssumption DEF Leads
    <3> QED BY <3>1, <3>2 DEF Owned, Carried, Live, Bearing
  <2> QED BY <2>1, <2>2
<1> QED BY <1>1, BatchStarts, BatchGoesOn, PTL DEF BatchSpec

-----------------------------------------------------------------------------
(* One generation, unless a run is cut off or overtaken. *)

Generating == {"insert", "run", "generate"}
StoredBy(w, i) == at[w].step = "stored" /\ Body(w).item = i

\* The run row keeps runs of the brand apart.
Locked == \A w \in Workers : at[w].step \in InGraph => lock = w

\* A version that no cut-off run left behind is in review for good, or its run
\* is about to put it there; and who works on the item by then was overtaken.
Fine(i) ==
    /\ gens[i] <= torn[i] + 1
    /\ gens[i] > torn[i] => status[i] = "in_review" \/ \E w \in Workers : StoredBy(w, i)
    /\ \A w \in Workers :
         at[w].step \in Generating /\ Body(w).item = i /\ gens[i] > torn[i]
           => w \in overtaken \/ \E v \in Workers : StoredBy(v, i)
Once ==
    /\ gens \in [Items -> Nat] /\ torn \in [Items -> Nat]
    /\ Locked
    /\ \A i \in Items : Fine(i)

\* One run of the brand at a time, until the reaper frees a dead one's row.
LEMMA LockedStep ==
  ASSUME BatchInv, Locked, [NextBatch]_batch_vars
  PROVE  Locked'
<1>1. LaneTypes BY DEF BatchInv
<1>2. ASSUME NEW w \in Workers, NEW new \in Handler, at' = [at EXCEPT ![w] = new],
             new.step \notin InGraph, lock' = lock \/ (lock' \in {Free, "dead"} /\ lock = w)
      PROVE  Locked'
  BY <1>1, <1>2 DEF Locked, LaneTypes
<1>3. \A w \in Workers, step \in Holding \cup Owes :
         Goto(w, step) => /\ at' = [at EXCEPT ![w] = [at[w] EXCEPT !.step = step]]
                          /\ [at[w] EXCEPT !.step = step] \in Handler
                          /\ [at[w] EXCEPT !.step = step].step = step
  BY <1>1, HandlerIs DEF Goto
<1>4. ASSUME NEW w \in Workers, NEW step \in (Holding \cup Owes) \ InGraph, Goto(w, step),
             lock' = lock \/ (lock' \in {Free, "dead"} /\ lock = w)
      PROVE  Locked'
  <2> DEFINE new == [at[w] EXCEPT !.step = step]
  <2>1. new \in Handler /\ new.step \notin InGraph /\ at' = [at EXCEPT ![w] = new]
    BY <1>3, <1>4
  <2> HIDE DEF new
  <2> QED BY <1>2, <1>4, <2>1
<1>5. ASSUME NEW w \in Workers, Leave(w),
             lock' = lock \/ (lock' \in {Free, "dead"} /\ lock = w)
      PROVE  Locked'
  <2>1. Idle \in Handler /\ Idle.step = "idle" BY NoMsgTypes DEF Idle
  <2> QED BY <1>2, <1>5, <2>1 DEF Leave, InGraph
<1>6. ASSUME NEW w \in Workers, at[w].step \in InGraph, NEW step \in InGraph, Goto(w, step),
             lock' = lock
      PROVE  Locked'
  BY <1>1, <1>6 DEF Goto, Locked, LaneTypes
<1>7. \A w \in Workers : at[w].step \in InGraph => lock = w BY DEF Locked
<1>8. ASSUME NEW w \in Workers, Handle(w) PROVE Locked'
  <2>1. ASSUME NEW s \in Slots, Deliver(w, s) PROVE Locked'
    BY <1>1, <2>1 DEF Deliver, Locked, LaneTypes, InGraph
  <2>2. CASE SkipForward(w) \/ Ack(w) \/ Blocked(w) \/ AckDone(w) \/ ChainNext(w)
             \/ ReleaseAndContinue(w)
    BY <1>4, <1>5, <2>2
       DEF SkipForward, Ack, Blocked, AckDone, ChainNext, ReleaseAndContinue, Holding, Owes,
           InGraph
  <2>3. CASE Guards(w)
    BY <1>4, <2>3 DEF Guards, Holding, InGraph
  <2>4. CASE CreateRun(w)
    <3>1. \A v \in Workers : at[v].step \notin InGraph
      BY <2>4, BatchAssumption DEF CreateRun, Locked
    <3> QED BY <1>1, <2>4, <3>1 DEF CreateRun, Goto, Locked, LaneTypes
  <2>5. CASE Claim(w) \/ StoreContent(w) \/ ToReview(w)
    BY <1>6, <2>5 DEF Claim, StoreContent, ToReview, InGraph
  <2>6. CASE Complete(w)
    <3>1. lock' = Free /\ lock = w BY <1>7, <2>6 DEF Complete, InGraph
    <3> QED BY <1>4, <2>6, <3>1 DEF Complete, Holding, InGraph
  <2> QED BY <1>8, <2>1, <2>2, <2>3, <2>4, <2>5, <2>6 DEF Handle
<1>9. ASSUME NEW w \in Workers, Disturb(w) PROVE Locked'
  <2>1. CASE RunRejected(w)
    BY <1>4, <2>1 DEF RunRejected, Holding, InGraph
  <2>2. CASE WorkflowFails(w) \/ WorkflowRaises(w) \/ TimesOut(w)
    <3>1. lock' = Free /\ lock = w
      BY <1>7, <2>2 DEF WorkflowFails, WorkflowRaises, TimesOut, InGraph
    <3> QED BY <1>4, <1>5, <2>2, <3>1
          DEF WorkflowFails, WorkflowRaises, TimesOut, Holding, Owes, InGraph
  <2>3. CASE Crash(w)
    BY <1>5, <2>3 DEF Crash
  <2> QED BY <1>9, <2>1, <2>2, <2>3 DEF Disturb
<1>10. CASE Reap
  BY <1>10, BatchAssumption DEF Reap, Locked
<1>11. CASE UNCHANGED <<at, lock>> BY <1>11 DEF Locked
<1> QED BY <1>8, <1>9, <1>10, <1>11
      DEF NextBatch, TriggerContent, GenerateAll, TriggerItem, TopUp, Render, batch_vars

\* Nothing in the lane takes an item out of its review.
LEMMA ReviewStays ==
  ASSUME BatchInv, [NextBatch]_batch_vars, NEW i \in Items, status[i] = "in_review"
  PROVE  status'[i] = "in_review"
<1>1. RowTypes /\ LaneTypes /\ Progress BY DEF BatchInv
<1>2. Promoted[i] = "in_review" BY <1>1, PromotedTypes
<1>3. ASSUME NEW w \in Workers, Handle(w) PROVE status'[i] = "in_review"
  <2>1. CASE SkipForward(w) BY <1>2, <2>1 DEF SkipForward
  <2>2. CASE Claim(w) \/ ToReview(w) BY <1>1, <2>2 DEF Claim, ToReview, RowTypes
  <2>3. CASE ReleaseAndContinue(w) BY <1>1, <2>3 DEF ReleaseAndContinue, Released, RowTypes
  <2>4. CASE UNCHANGED status BY <2>4
  <2> QED BY <1>3, <2>1, <2>2, <2>3, <2>4
        DEF Handle, Deliver, Guards, CreateRun, Blocked, StoreContent, Complete, AckDone, ChainNext, Ack
<1>4. ASSUME NEW w \in Workers, Disturb(w) PROVE status'[i] = "in_review"
  <2>1. CASE WorkflowRaises(w) BY <1>1, <2>1 DEF WorkflowRaises, Released, RowTypes
  <2>2. CASE RunRejected(w) BY <1>1, <2>2 DEF RunRejected, Released, RowTypes
  <2>3. CASE TimesOut(w) BY <1>1, <2>3 DEF TimesOut, Released, RowTypes
  <2>4. CASE UNCHANGED status BY <2>4
  <2> QED BY <1>4, <2>1, <2>2, <2>3, <2>4 DEF Disturb, WorkflowFails, Crash
<1>5. ASSUME NEW r \in Reels, Render(r) PROVE status'[i] = "in_review"
  BY <1>1, <1>5 DEF Render, RowTypes
<1>6. CASE GenerateAll BY <1>2, <1>6 DEF GenerateAll
<1>7. CASE UNCHANGED status BY <1>7
<1> QED BY <1>3, <1>4, <1>5, <1>6, <1>7
      DEF NextBatch, TriggerContent, TriggerItem, TopUp, Reap, batch_vars

\* A run is entered for an item that is not yet in review, and is about that
\* item to its end.
LEMMA GeneratingIs ==
  ASSUME BatchInv, [NextBatch]_batch_vars, NEW w \in Workers, at'[w].step \in Generating
  PROVE  /\ Body(w)' = Body(w) /\ Body(w).item \in Items
         /\ at[w].step \in Generating \/ status[Body(w).item] # "in_review"
<1>1. RowTypes /\ LaneTypes /\ Progress BY DEF BatchInv
<1>2. CASE at'[w] = at[w]
  BY <1>1, <1>2 DEF Body, Generating, Progress
<1>3. ASSUME NEW v \in Workers, Handle(v) \/ Disturb(v), at'[w] # at[w]
      PROVE  v = w
  BY <1>1, <1>3
     DEF Handle, Disturb, Deliver, SkipForward, Guards, CreateRun, Blocked, Claim, StoreContent, ToReview,
         Complete, AckDone, ChainNext, ReleaseAndContinue, Ack, WorkflowFails,
         WorkflowRaises, TimesOut, RunRejected, Crash, Goto, Leave, LaneTypes
<1>4. ASSUME NEW step, Goto(w, step)
      PROVE  at'[w].step = step /\ Body(w)' = Body(w)
  BY <1>1, <1>4 DEF Goto, Body, LaneTypes, Handler
<1>5. ~Leave(w) BY <1>1 DEF Leave, LaneTypes, Idle, Generating
<1>6. \A step \in (Holding \cup Owes) \ Generating : ~Goto(w, step)
  BY <1>4
<1>7. CASE Handle(w)
  <2>1. CASE \E s \in Slots : Deliver(w, s)
    BY <1>1, <2>1 DEF Deliver, LaneTypes, Generating
  <2>2. CASE Guards(w) /\ Goto(w, "insert")
    <3>1. status[Body(w).item] \notin Past /\ Body(w).item \in Items
      BY <1>1, <1>6, <2>2, HandlerIs DEF Guards, Holding, Generating
    <3> QED BY <1>4, <2>2, <3>1 DEF Past
  <2>3. CASE CreateRun(w) /\ Goto(w, "run")
    BY <1>1, <1>4, <2>3 DEF CreateRun, Generating, Progress
  <2>4. CASE Claim(w) /\ Goto(w, "generate")
    BY <1>1, <1>4, <2>4 DEF Claim, Generating, Progress
  <2> QED BY <1>5, <1>6, <1>7, <2>1, <2>2, <2>3, <2>4
        DEF Handle, SkipForward, Guards, CreateRun, Blocked, Claim, StoreContent, ToReview, Complete,
            AckDone, ChainNext, ReleaseAndContinue, Ack, Holding, Owes, Generating
<1>8. CASE Disturb(w)
  BY <1>5, <1>6, <1>8
     DEF Disturb, WorkflowFails, WorkflowRaises, TimesOut, RunRejected, Crash, Holding,
         Owes, Generating
<1>9. CASE UNCHANGED at BY <1>2, <1>9
<1> QED BY <1>2, <1>3, <1>7, <1>8, <1>9
      DEF NextBatch, TriggerContent, GenerateAll, TriggerItem, TopUp, Reap, Render,
          batch_vars

\* Who was overtaken stays so, until the next message.
LEMMA OvertakenStays ==
  ASSUME BatchInv, [NextBatch]_batch_vars, NEW w \in Workers, at'[w].step \in Generating,
         w \in overtaken
  PROVE  w \in overtaken'
<1>1. LaneTypes BY DEF BatchInv
<1>2. ASSUME NEW v \in Workers, Handle(v) PROVE w \in overtaken'
  <2>1. ASSUME NEW s \in Slots, Deliver(v, s) PROVE w \in overtaken'
    BY <1>1, <2>1 DEF Deliver, LaneTypes, Generating
  <2>2. CASE ToReview(v) BY <2>2 DEF ToReview
  <2> QED BY <1>2, <2>1, <2>2
        DEF Handle, SkipForward, Guards, CreateRun, Blocked, Claim, StoreContent, Complete,
            AckDone, ChainNext, ReleaseAndContinue, Ack, versions
<1> QED BY <1>2
      DEF NextBatch, Disturb, WorkflowFails, WorkflowRaises, TimesOut, RunRejected, Crash,
          TriggerContent, GenerateAll, TriggerItem, TopUp, Reap, Render, batch_vars, versions

\* An item no version of which is stored, and no run of which leaves before it
\* has set the status.
LEMMA FineStays ==
  ASSUME BatchInv, Once, [NextBatch]_batch_vars, NEW i \in Items,
         gens'[i] = gens[i], torn'[i] = torn[i],
         \A v \in Workers : StoredBy(v, i) => StoredBy(v, i)'
  PROVE  Fine(i)'
<1>1. Fine(i) BY DEF Once
<1>2. status[i] = "in_review" => status'[i] = "in_review" BY ReviewStays
<1>3. ASSUME NEW w \in Workers, at'[w].step \in Generating, Body(w)'.item = i,
             gens[i] > torn[i]
      PROVE  w \in overtaken' \/ \E v \in Workers : StoredBy(v, i)'
  <2>1. /\ Body(w)' = Body(w)
        /\ at[w].step \in Generating \/ status[i] # "in_review"
    BY <1>3, GeneratingIs
  <2>2. w \in overtaken \/ \E v \in Workers : StoredBy(v, i)
    BY <1>1, <1>3, <2>1 DEF Fine
  <2> QED BY <1>3, <2>2, OvertakenStays
<1> QED BY <1>1, <1>2, <1>3 DEF Fine

\* A version is stored by the only run there is: it is the item's first, or
\* follows one that was cut off, or its run was overtaken.
LEMMA StoreIsFine ==
  ASSUME BatchInv, Once, [NextBatch]_batch_vars, NEW w \in Workers, StoreContent(w)
  PROVE  gens' \in [Items -> Nat] /\ torn' = torn /\ \A i \in Items : Fine(i)'
<1>1. LaneTypes /\ Progress BY DEF BatchInv
<1>2. PICK n \in Items : at[w].step = "generate" /\ n = Body(w).item /\ torn' = torn
  BY <1>1 DEF StoreContent, Progress
<1>3. at' = [at EXCEPT ![w].step = "stored"] BY DEF StoreContent, Goto
<1>4. \A v \in Workers : Body(v)' = Body(v) /\ (at[v].step = "stored" => at'[v] = at[v])
  BY <1>1, <1>2, <1>3 DEF LaneTypes, Handler, Body
<1>5. StoredBy(w, n)' BY <1>1, <1>2, <1>3, <1>4 DEF LaneTypes, Handler, StoredBy
<1>6. \A v \in Workers : ~StoredBy(v, n)
  BY <1>2 DEF StoredBy, Once, Locked, InGraph
<1>7. gens \in [Items -> Nat] /\ torn \in [Items -> Nat] /\ Fine(n) BY <1>2 DEF Once
<1>8. /\ gens' \in [Items -> Nat] /\ \A i \in Items : i # n => gens'[i] = gens[i]
      /\ w \in overtaken => gens'[n] = gens[n]
      /\ w \notin overtaken => gens'[n] = gens[n] + 1
  BY <1>2, <1>7 DEF StoreContent
<1>9. gens'[n] <= torn[n] + 1
  <2>1. w \notin overtaken => gens[n] <= torn[n]
    BY <1>2, <1>6, <1>7 DEF Fine, Generating
  <2>2. gens[n] \in Nat /\ torn[n] \in Nat /\ gens[n] <= torn[n] + 1
    BY <1>2, <1>7 DEF Fine
  <2> QED BY <1>8, <2>1, <2>2
<1>10. Fine(n)' BY <1>2, <1>5, <1>9 DEF Fine
<1>11. ASSUME NEW i \in Items, i # n PROVE Fine(i)'
  <2>1. \A v \in Workers : StoredBy(v, i) => StoredBy(v, i)' BY <1>4 DEF StoredBy
  <2> QED BY <1>2, <1>8, <1>11, <2>1, FineStays
<1> QED BY <1>2, <1>8, <1>10, <1>11

\* The status follows: whoever works on the item by then is overtaken.
LEMMA ReviewIsFine ==
  ASSUME BatchInv, Once, [NextBatch]_batch_vars, NEW w \in Workers, ToReview(w)
  PROVE  UNCHANGED <<gens, torn>> /\ \A i \in Items : Fine(i)'
<1>1. RowTypes /\ LaneTypes /\ Progress BY DEF BatchInv
<1>2. PICK n \in Items :
      /\ at[w].step = "stored" /\ n = Body(w).item /\ UNCHANGED <<gens, torn>>
      /\ at' = [at EXCEPT ![w].step = "reviewed"]
      /\ overtaken' = overtaken \cup {v \in Workers : Underway(v) /\ Body(v).item = n}
  BY <1>1 DEF ToReview, Progress, Goto
<1>3. status'[n] = "in_review" BY <1>1, <1>2 DEF ToReview, RowTypes
<1>4. \A v \in Workers : Body(v)' = Body(v) /\ (v # w => at'[v] = at[v])
  BY <1>1, <1>2 DEF LaneTypes, Handler, Body
<1>5. at'[w].step = "reviewed" BY <1>1, <1>2 DEF LaneTypes, Handler
<1>6. Fine(n)'
  <2>1. gens'[n] <= torn'[n] + 1 BY <1>2 DEF Once, Fine
  <2>2. ASSUME NEW v \in Workers, at'[v].step \in Generating, Body(v)'.item = n
        PROVE  v \in overtaken'
    BY <1>2, <1>4, <1>5, <2>2 DEF Generating, Underway
  <2> QED BY <1>3, <2>1, <2>2 DEF Fine
<1>7. ASSUME NEW i \in Items, i # n PROVE Fine(i)'
  <2>1. \A v \in Workers : StoredBy(v, i) => StoredBy(v, i)'
    BY <1>2, <1>4, <1>7 DEF StoredBy
  <2> QED BY <1>2, <2>1, FineStays
<1> QED BY <1>2, <1>6, <1>7

\* A run cut off between the two leaves a version that counts for nothing.
LEMMA TornIsFine ==
  ASSUME BatchInv, Once, [NextBatch]_batch_vars, NEW w \in Workers,
         WorkflowRaises(w) \/ TimesOut(w) \/ Crash(w)
  PROVE  gens' = gens /\ torn' \in [Items -> Nat] /\ \A i \in Items : Fine(i)'
<1>1. LaneTypes /\ Progress BY DEF BatchInv
<1>2. gens' = gens /\ torn' = TornBy(w) BY DEF WorkflowRaises, TimesOut, Crash
<1>3. \A v \in Workers : v # w => at'[v] = at[v]
  BY <1>1 DEF WorkflowRaises, TimesOut, Crash, Goto, Leave, LaneTypes
<1>4. gens \in [Items -> Nat] /\ torn \in [Items -> Nat] BY DEF Once
<1>5. CASE at[w].step # "stored"
  <2>1. torn' = torn BY <1>2, <1>5 DEF TornBy
  <2>2. \A v \in Workers, i \in Items : StoredBy(v, i) => StoredBy(v, i)'
    BY <1>3, <1>5 DEF StoredBy, Body
  <2> QED BY <1>2, <1>4, <2>1, <2>2, FineStays
<1>6. CASE at[w].step = "stored"
  <2>1. PICK n \in Items : n = Body(w).item BY <1>1, <1>6 DEF Progress
  <2>2. /\ torn' \in [Items -> Nat] /\ torn'[n] = torn[n] + 1
        /\ \A i \in Items : i # n => torn'[i] = torn[i]
    BY <1>2, <1>4, <1>6, <2>1 DEF TornBy
  <2>3. gens[n] \in Nat /\ torn[n] \in Nat /\ gens[n] <= torn[n] + 1
    BY <1>4, <2>1 DEF Once, Fine
  <2>4. Fine(n)'
    <3>1. gens'[n] <= torn'[n] /\ gens'[n] \in Nat /\ torn'[n] \in Nat
      BY <1>2, <2>2, <2>3
    <3> QED BY <3>1 DEF Fine
  <2>5. ASSUME NEW i \in Items, i # n PROVE Fine(i)'
    <3>1. \A v \in Workers : StoredBy(v, i) => StoredBy(v, i)'
      BY <1>3, <2>1, <2>5 DEF StoredBy, Body
    <3> QED BY <1>2, <2>2, <2>5, <3>1, FineStays
  <2> QED BY <1>2, <2>2, <2>4, <2>5
<1> QED BY <1>5, <1>6

\* However often its message is delivered, however many batches name it, however
\* many workers there are and whatever fails, an item gets one version, and one
\* more for each run that was cut off between its version and the item's status:
\* a later delivery finds it in review (worker.py's guard), and two runs of a
\* brand do not overlap. Runs that were past that guard when another one
\* finished the item are the exception, and are told apart.
THEOREM ContentIsGeneratedOnce == BatchSpec => []GeneratedOnce
<1>1. InitBatch => Once
  <2> SUFFICES ASSUME InitBatch PROVE Once OBVIOUS
  <2>1. gens \in [Items -> Nat] /\ torn \in [Items -> Nat]
        /\ \A i \in Items : gens[i] = 0 /\ torn[i] = 0
    BY DEF InitBatch
  <2>2. \A w \in Workers : at[w].step = "idle" BY DEF InitBatch, Idle
  <2> QED BY <2>1, <2>2 DEF Once, Locked, InGraph, Fine, Generating
<1>2. BatchInv /\ Once /\ [NextBatch]_batch_vars => Once'
  <2> SUFFICES ASSUME BatchInv, Once, [NextBatch]_batch_vars PROVE Once' OBVIOUS
  <2>1. Locked' BY LockedStep DEF Once
  <2>2. gens \in [Items -> Nat] /\ torn \in [Items -> Nat] BY DEF Once
  <2>3. CASE \E w \in Workers : StoreContent(w)
    BY <2>1, <2>2, <2>3, StoreIsFine DEF Once
  <2>4. CASE \E w \in Workers : ToReview(w)
    BY <2>1, <2>2, <2>4, ReviewIsFine DEF Once
  <2>5. CASE \E w \in Workers : WorkflowRaises(w) \/ TimesOut(w) \/ Crash(w)
    BY <2>1, <2>2, <2>5, TornIsFine DEF Once
  <2>6. ASSUME UNCHANGED <<gens, torn>>,
               \A v \in Workers : at[v].step = "stored" => at'[v] = at[v]
        PROVE  Once'
    <3>1. \A v \in Workers, i \in Items : StoredBy(v, i) => StoredBy(v, i)'
      BY <2>6 DEF StoredBy, Body
    <3>2. \A i \in Items : Fine(i)' BY <2>6, <3>1, FineStays
    <3> QED BY <2>1, <2>2, <2>6, <3>2 DEF Once
  <2>7. ASSUME NEW w \in Workers, Handle(w), ~StoreContent(w), ~ToReview(w)
        PROVE  Once'
    <3>1. LaneTypes BY DEF BatchInv
    <3>2. at[w].step # "stored" /\ UNCHANGED <<gens, torn>>
      <4>1. CASE \E s \in Slots : Deliver(w, s)
        <5>1. at[w].step = "idle" BY <4>1 DEF Deliver, Idle
        <5> QED BY <4>1, <5>1 DEF Deliver
      <4>2. CASE SkipForward(w) \/ Guards(w) BY <4>2 DEF SkipForward, Guards, versions
      <4>3. CASE CreateRun(w) \/ Blocked(w) \/ Claim(w) \/ Complete(w)
        BY <4>3 DEF CreateRun, Blocked, Claim, Complete, versions
      <4>4. CASE AckDone(w) \/ ChainNext(w) \/ ReleaseAndContinue(w) \/ Ack(w)
        BY <4>4 DEF AckDone, ChainNext, ReleaseAndContinue, Ack, versions
      <4> QED BY <2>7, <4>1, <4>2, <4>3, <4>4 DEF Handle
    <3>3. \A v \in Workers : v # w => at'[v] = at[v]
      BY <2>7, <3>1
         DEF Handle, Deliver, SkipForward, Guards, CreateRun, Blocked, Claim, Complete,
             AckDone, ChainNext, ReleaseAndContinue, Ack, Goto, Leave, LaneTypes
    <3> QED BY <2>6, <3>2, <3>3
  <2>8. ASSUME NEW w \in Workers, WorkflowFails(w) \/ RunRejected(w)
        PROVE  Once'
    <3>1. LaneTypes BY DEF BatchInv
    <3>2. at[w].step # "stored" /\ UNCHANGED <<gens, torn>>
      BY <2>8 DEF WorkflowFails, RunRejected, versions
    <3>3. \A v \in Workers : v # w => at'[v] = at[v]
      BY <2>8, <3>1 DEF WorkflowFails, RunRejected, Goto, LaneTypes
    <3> QED BY <2>6, <3>2, <3>3
  <2>9. CASE UNCHANGED <<gens, torn, at>> BY <2>6, <2>9
  <2> QED BY <2>3, <2>4, <2>5, <2>7, <2>8, <2>9
        DEF NextBatch, Disturb, TriggerContent, GenerateAll, TriggerItem, TopUp, Reap, Render,
            batch_vars, versions
<1>3. Once => GeneratedOnce
  BY DEF Once, Fine, GeneratedOnce
<1> QED BY <1>1, <1>2, <1>3, BatchStarts, BatchGoesOn, PTL DEF BatchSpec

-----------------------------------------------------------------------------
(* Activation. *)

Subjects == {"research", "strategy", "planning", "evaluation", "adaptation", "product",
             "content", "item", "none"}
Triggered == {"activation", "event", "manual", "none"}
RunRows == {"running", "paused", "cancelled", "none"}
RunSteps == {"work", "review", "chain", "dead", "none"}
ChainMessage == [to : Subjects, trigger : Triggered, depth : Nat, checked : BOOLEAN]
Run == [stage : Subjects, trigger : Triggered, depth : Nat, row : RunRows, at : RunSteps,
        fed : BOOLEAN]

ChainTypes == BagToSet(queue) \subseteq ChainMessage /\ runs \in [RunSlots -> Run]

\* What a run that found its input rests on stays: a strategy on the research, a
\* plan on the strategy. Only the plan is ever taken back.
Grounded ==
    /\ \A s \in RunSlots : runs[s].fed /\ runs[s].stage = "strategy" => "research" \in done
    /\ \A s \in RunSlots : runs[s].fed /\ runs[s].stage = "planning" => "strategy" \in done
    /\ \A s \in RunSlots : runs[s].at = "chain" => runs[s].fed
    /\ "strategy" \in done => "research" \in done

LEMMA Sent ==
  ASSUME NEW ms \in SUBSET ChainMessage, BagToSet(queue) \subseteq ChainMessage
  PROVE  /\ Send(ms) => BagToSet(queue)' \subseteq ChainMessage
         /\ \A m : Replace(m, ms) => BagToSet(queue)' \subseteq ChainMessage
  BY DEF Send, Replace, BagToSet, SetToBag, (+), (-)

LEMMA MsgTypes ==
  ASSUME NEW to \in Subjects, NEW trigger \in Triggered, NEW depth \in Nat
  PROVE  Msg(to, trigger, depth) \in ChainMessage
  BY DEF Msg, ChainMessage

LEMMA NoRunTypes == NoRun \in Run /\ ~NoRun.fed /\ NoRun.at = "none"
  BY DEF NoRun, Run, Subjects, Triggered, RunRows, RunSteps

\* What a step other than the start and the completion of a run may do to the
\* runs: end some, or move them on without a new input.
Moved(r, s) ==
    \/ s = NoRun
    \/ s.stage = r.stage /\ s.fed = r.fed /\ (s.at = "chain" => r.at = "chain")

LEMMA GroundedStays ==
  ASSUME ChainTypes, Grounded, runs' \in [RunSlots -> Run],
         \A s \in RunSlots : Moved(runs[s], runs'[s]),
         done' = done \/ done' = done \ {"planning"}
  PROVE  Grounded'
<1>1. \A s \in RunSlots : runs'[s].fed =>
        runs'[s] # NoRun /\ runs'[s].stage = runs[s].stage /\ runs[s].fed
  BY NoRunTypes DEF Moved
<1>2. \A s \in RunSlots : runs'[s].at = "chain" => runs[s].at = "chain" /\ runs'[s].fed = runs[s].fed
  BY NoRunTypes DEF Moved
<1> QED BY <1>1, <1>2 DEF Grounded

\* Messages carry what messages carry, whoever sends them.
LEMMA QueueKeepsTypes ==
  ASSUME ChainTypes, NextChain
  PROVE  BagToSet(queue)' \subseteq ChainMessage
<1>1. \A to \in Subjects, trigger \in Triggered : Msg(to, trigger, 0) \in ChainMessage
  BY MsgTypes
<1>2. ASSUME NEW m \in BagToSet(queue)
      PROVE  m \in ChainMessage /\ m.to \in Subjects /\ m.trigger \in Triggered /\ m.depth \in Nat
  BY <1>2 DEF ChainTypes, ChainMessage
<1>3. \A t, d \in Triggered : Default(t, d) \in Triggered BY DEF Default
<1>4. \A stage : NextOpen(stage) \in Subjects BY DEF NextOpen, Subjects
<1>5. CASE UNCHANGED queue BY <1>5 DEF ChainTypes, BagToSet
<1>6. CASE Activate
  <2>1. Msg("research", "activation", 0) \in ChainMessage BY <1>1 DEF Subjects, Triggered
  <2> QED BY <1>5, <1>6, <2>1, Sent DEF Activate, ChainTypes
<1>7. ASSUME NEW stage \in Reports \cup {"content", "product"}, Trigger(stage)
      PROVE  BagToSet(queue)' \subseteq ChainMessage
  <2>1. \A t \in {"none", "manual"} : Msg(stage, t, 0) \in ChainMessage
    BY <1>1 DEF Reports, Subjects, Triggered
  <2>2. \E t \in {"none", "manual"} : Send({Msg(stage, t, 0)}) BY <1>7 DEF Trigger
  <2> QED BY <2>1, <2>2, Sent DEF ChainTypes
<1>8. CASE MorningEvaluation
  <2>1. Msg("evaluation", "none", 0) \in ChainMessage
    BY <1>1 DEF Subjects, Triggered
  <2> QED BY <1>8, <2>1, Sent DEF MorningEvaluation, ChainTypes
<1>9. CASE GenerateContent
  <2>1. Msg("item", "manual", 0) \in ChainMessage
    BY <1>1 DEF Subjects, Triggered
  <2> QED BY <1>9, <2>1, Sent DEF GenerateContent, ChainTypes
<1>10. ASSUME NEW m \in BagToSet(queue), TakeMessage(m)
       PROVE  BagToSet(queue)' \subseteq ChainMessage
  <2>1. PICK ms \in SUBSET ChainMessage : Replace(m, ms)
    <3>1. CASE ContentSkipForward(m)
      <4>1. Default(m.trigger, "activation") \in Triggered BY <1>2, <1>3 DEF Triggered
      <4>2. /\ Msg("item", Default(m.trigger, "activation"), m.depth) \in ChainMessage
            /\ Msg("planning", Default(m.trigger, "activation"), 0) \in ChainMessage
        BY <1>2, <4>1, MsgTypes DEF Subjects
      <4> QED BY <3>1, <4>2 DEF ContentSkipForward
    <3>2. CASE EntrySkip(m)
      <4>1. Msg(NextOpen(m.to), "activation", 0) \in ChainMessage
        BY <1>1, <1>4 DEF Triggered
      <4>2. [m EXCEPT !.checked = TRUE] \in ChainMessage BY <1>2 DEF ChainMessage
      <4> QED BY <3>2, <4>1, <4>2 DEF EntrySkip
    <3>3. CASE ContentItems(m) \/ StartRun(m)
      BY <3>3 DEF ContentItems, StartRun
    <3> QED BY <1>10, <3>1, <3>2, <3>3 DEF TakeMessage
  <2> QED BY <2>1, Sent DEF ChainTypes
<1>11. ASSUME NEW s \in RunSlots, ChainRun(s) \/ Die(s)
       PROVE  BagToSet(queue)' \subseteq ChainMessage
  <2>1. runs[s].stage \in Subjects /\ runs[s].trigger \in Triggered /\ runs[s].depth \in Nat
    BY DEF ChainTypes, Run
  <2>2. CASE Die(s)
    <3>1. Msg(runs[s].stage, runs[s].trigger, runs[s].depth) \in ChainMessage
      BY <2>1, MsgTypes
    <3> QED BY <1>5, <2>2, <3>1, Sent DEF Die, ChainTypes
  <2>3. CASE ChainRun(s)
    <3>1. PICK next \in NextSubjects(runs[s]) :
            \/ UNCHANGED queue
            \/ Send({Msg(next, Default(runs[s].trigger, "event"), runs[s].depth + 1)})
      BY <2>3 DEF ChainRun
    <3>2. next \in Subjects BY <1>4 DEF NextSubjects, Subjects
    <3>3. Default(runs[s].trigger, "event") \in Triggered /\ runs[s].depth + 1 \in Nat
      BY <1>3, <2>1 DEF Triggered
    <3>4. Msg(next, Default(runs[s].trigger, "event"), runs[s].depth + 1) \in ChainMessage
      BY <3>2, <3>3, MsgTypes
    <3> QED BY <1>5, <3>1, <3>4, Sent DEF ChainTypes
  <2> QED BY <1>11, <2>2, <2>3
<1> QED BY <1>5, <1>6, <1>7, <1>8, <1>9, <1>10, <1>11
      DEF NextChain, UpdateBrand, ApproveContext, Settle, FailRun, PauseRun, CompleteRun,
          ReapRun, ResumeRun

\* A run starts fed if what it reads is there.
LEMMA StartKeeps ==
  ASSUME ChainTypes, Grounded, NEW m \in BagToSet(queue), StartRun(m)
  PROVE  runs' \in [RunSlots -> Run] /\ Grounded'
<1>1. done' = done BY DEF StartRun
<1>2. CASE UNCHANGED runs BY <1>1, <1>2 DEF ChainTypes, Grounded
<1>3. CASE ~ UNCHANGED runs
  <2> DEFINE new == [stage |-> m.to, trigger |-> m.trigger, depth |-> m.depth,
                     row |-> "running", at |-> "work", fed |-> Fed(m.to)]
  <2>1. PICK s \in RunSlots : runs' = [runs EXCEPT ![s] = new]
    BY <1>3 DEF StartRun
  <2>2. new \in Run
    <3>1. m.to \in Subjects /\ m.trigger \in Triggered /\ m.depth \in Nat
      BY DEF ChainTypes, ChainMessage
    <3>2. Fed(m.to) \in BOOLEAN BY DEF Fed
    <3> QED BY <3>1, <3>2 DEF Run, RunRows, RunSteps
  <2>3. /\ new.fed /\ new.stage = "strategy" => "research" \in done
        /\ new.fed /\ new.stage = "planning" => "strategy" \in done
        /\ new.at # "chain"
    BY DEF Fed
  <2> HIDE DEF new
  <2>4. runs'[s] = new /\ \A t \in RunSlots : t # s => runs'[t] = runs[t]
    BY <2>1 DEF ChainTypes
  <2> QED BY <1>1, <2>1, <2>2, <2>3, <2>4 DEF ChainTypes, Grounded
<1> QED BY <1>2, <1>3

\* A run that completes had found its input.
LEMMA CompleteKeeps ==
  ASSUME ChainTypes, Grounded, NEW s \in RunSlots, CompleteRun(s)
  PROVE  runs' \in [RunSlots -> Run] /\ Grounded'
<1> DEFINE new == [runs[s] EXCEPT !.row = "none", !.at = "chain"]
<1>1. runs[s] \in Run /\ runs[s].fed BY DEF CompleteRun, ChainTypes
<1>2. new \in Run /\ new.stage = runs[s].stage /\ new.fed = runs[s].fed
  BY <1>1 DEF Run, RunRows, RunSteps
<1>3. runs' = [runs EXCEPT ![s] = new]
  BY DEF CompleteRun
<1>4. done \subseteq done' /\ done' \subseteq done \cup {runs[s].stage}
  BY DEF CompleteRun
<1> HIDE DEF new
<1>5. runs'[s] = new /\ \A t \in RunSlots : t # s => runs'[t] = runs[t]
  BY <1>3 DEF ChainTypes
<1>6. "strategy" \in done' => "research" \in done'
  BY <1>1, <1>4 DEF Grounded
<1> QED BY <1>1, <1>2, <1>3, <1>4, <1>5, <1>6 DEF ChainTypes, Grounded

\* The other steps of a run.
LEMMA RunMoves ==
  ASSUME ChainTypes, NEW s \in RunSlots,
         \/ FailRun(s) \/ PauseRun(s) \/ ChainRun(s) \/ ReapRun(s) \/ ResumeRun(s) \/ Die(s)
  PROVE  /\ runs' \in [RunSlots -> Run] /\ done' = done
         /\ \A t \in RunSlots : Moved(runs[t], runs'[t])
<1>1. runs[s] \in Run BY DEF ChainTypes
<1>2. \A row \in RunRows, a \in RunSteps :
        /\ [runs[s] EXCEPT !.row = row, !.at = a] \in Run
        /\ [runs[s] EXCEPT !.row = row, !.at = a].stage = runs[s].stage
        /\ [runs[s] EXCEPT !.row = row, !.at = a].fed = runs[s].fed
        /\ [runs[s] EXCEPT !.row = row, !.at = a].at = a
  BY <1>1 DEF Run
<1>3. \A a \in RunSteps :
        /\ [runs[s] EXCEPT !.at = a] \in Run
        /\ [runs[s] EXCEPT !.at = a].stage = runs[s].stage
        /\ [runs[s] EXCEPT !.at = a].fed = runs[s].fed
        /\ [runs[s] EXCEPT !.at = a].at = a
  BY <1>1 DEF Run
<1>4. PICK new \in Run : runs' = [runs EXCEPT ![s] = new] /\ Moved(runs[s], new)
  <2>1. CASE FailRun(s) \/ ChainRun(s) \/ ReapRun(s)
    BY <2>1, NoRunTypes DEF FailRun, ChainRun, ReapRun, Moved
  <2>2. CASE PauseRun(s)
    <3>1. runs' = [runs EXCEPT ![s] = IF runs[s].row = "running"
                     THEN [runs[s] EXCEPT !.row = "paused", !.at = "review"] ELSE NoRun]
      BY <2>2 DEF PauseRun
    <3> QED BY <1>2, <3>1, NoRunTypes DEF Moved, RunRows, RunSteps
  <2>3. CASE ResumeRun(s)
    <3>1. runs' = [runs EXCEPT ![s] = [runs[s] EXCEPT !.row = "running", !.at = "work"]]
      BY <2>3 DEF ResumeRun, ChainTypes
    <3> QED BY <1>2, <3>1 DEF Moved, RunRows, RunSteps
  <2>4. CASE Die(s)
    <3>1. runs' = [runs EXCEPT ![s] = IF runs[s].row = "running"
                     THEN [runs[s] EXCEPT !.at = "dead"] ELSE NoRun]
      BY <2>4 DEF Die
    <3> QED BY <1>3, <3>1, NoRunTypes DEF Moved, RunRows, RunSteps
  <2> QED BY <2>1, <2>2, <2>3, <2>4
<1>5. runs' \in [RunSlots -> Run] BY <1>4 DEF ChainTypes
<1>6. \A t \in RunSlots : Moved(runs[t], runs'[t])
  BY <1>4 DEF ChainTypes, Moved
<1>7. done' = done
  BY DEF FailRun, PauseRun, ChainRun, ReapRun, ResumeRun, Die
<1> QED BY <1>5, <1>6, <1>7

LEMMA UpdateMoves ==
  ASSUME ChainTypes, UpdateBrand
  PROVE  /\ runs' \in [RunSlots -> Run] /\ done' = done
         /\ \A t \in RunSlots : Moved(runs[t], runs'[t])
<1>1. \A t \in RunSlots : /\ [runs[t] EXCEPT !.row = "cancelled"] \in Run
                          /\ Moved(runs[t], [runs[t] EXCEPT !.row = "cancelled"])
  BY DEF ChainTypes, Run, Moved, RunRows
<1>2. CASE runs' = [s \in RunSlots |-> IF runs[s].row # "running" THEN runs[s]
                                       ELSE IF runs[s].at = "dead" THEN NoRun
                                       ELSE [runs[s] EXCEPT !.row = "cancelled"]]
  <2>1. \A t \in RunSlots : runs'[t] \in Run /\ Moved(runs[t], runs'[t])
    BY <1>1, <1>2, NoRunTypes DEF ChainTypes, Moved
  <2> QED BY <1>2, <2>1 DEF UpdateBrand
<1>3. CASE UNCHANGED runs
  BY <1>3 DEF UpdateBrand, ChainTypes, Moved
<1> QED BY <1>2, <1>3 DEF UpdateBrand

LEMMA ChainKeeps == ChainTypes /\ Grounded /\ [NextChain]_chain_vars => ChainTypes' /\ Grounded'
<1> SUFFICES ASSUME ChainTypes, Grounded, [NextChain]_chain_vars
             PROVE  ChainTypes' /\ Grounded'
  OBVIOUS
<1>1. CASE UNCHANGED chain_vars
  BY <1>1 DEF chain_vars, ChainTypes, Grounded, BagToSet
<1>2. CASE NextChain
  <2>1. BagToSet(queue)' \subseteq ChainMessage BY <1>2, QueueKeepsTypes
  <2>2. CASE /\ runs' \in [RunSlots -> Run] /\ done' = done
             /\ \A t \in RunSlots : Moved(runs[t], runs'[t])
    BY <2>1, <2>2, GroundedStays DEF ChainTypes
  <2>3. CASE /\ UNCHANGED runs /\ (done' = done \/ done' = done \ {"planning"})
    <3>1. \A t \in RunSlots : Moved(runs[t], runs'[t]) BY <2>3 DEF Moved
    <3>2. runs' \in [RunSlots -> Run] BY <2>3 DEF ChainTypes
    <3> QED BY <2>1, <2>3, <3>1, <3>2, GroundedStays DEF ChainTypes
  <2>4. ASSUME NEW m \in BagToSet(queue), TakeMessage(m) PROVE ChainTypes' /\ Grounded'
    <3>1. CASE StartRun(m) BY <2>1, <3>1, StartKeeps DEF ChainTypes
    <3> QED BY <2>3, <2>4, <3>1 DEF TakeMessage, ContentSkipForward, ContentItems, EntrySkip
  <2>5. ASSUME NEW s \in RunSlots, Settle(s) \/ ResumeRun(s) \/ Die(s)
        PROVE  ChainTypes' /\ Grounded'
    <3>1. CASE CompleteRun(s) BY <2>1, <3>1, CompleteKeeps DEF ChainTypes
    <3> QED BY <2>2, <2>5, <3>1, RunMoves DEF Settle
  <2>6. CASE UpdateBrand BY <2>2, <2>6, UpdateMoves
  <2> QED BY <1>2, <2>3, <2>4, <2>5, <2>6
        DEF NextChain, Activate, MorningEvaluation, ApproveContext, GenerateContent, Trigger
<1> QED BY <1>1, <1>2

\* Whatever skips, repeats, cancellations, deaths and triggers of single stages
\* there were, in whatever order, and whatever status a manager wrote in between,
\* the runs make a brand active only when a research report and a strategy are
\* there (worker.py, _invoke_and_settle: only a plan made under an activation
\* sets the status). A plan must have found a strategy and that one its research,
\* and nothing takes those two back.
THEOREM ActiveRestsOnReports == ChainSpec => ActiveHasStrategy
<1>1. InitChain => ChainTypes /\ Grounded
  BY NoRunTypes
     DEF InitChain, ChainTypes, Grounded, EmptyBag, SetToBag, BagToSet
<1>2. ChainTypes /\ Grounded /\ [NextChain]_chain_vars =>
        [brand # "active" /\ brand' = "active" /\ ~UpdateBrand
         => {"research", "strategy"} \subseteq done']_chain_vars
  <2> SUFFICES ASSUME ChainTypes, Grounded, NextChain, brand # "active", brand' = "active",
                      ~UpdateBrand
               PROVE  {"research", "strategy"} \subseteq done'
    BY DEF chain_vars
  <2>1. PICK s \in RunSlots : /\ CompleteRun(s) \/ ChainRun(s)
                              /\ Activating(runs[s])
    <3>1. ASSUME NEW m \in BagToSet(queue), TakeMessage(m) PROVE brand' = brand
      BY <3>1 DEF TakeMessage, ContentSkipForward, ContentItems, EntrySkip, StartRun
    <3>2. ~Activate BY DEF Activate
    <3> QED BY <3>1, <3>2
          DEF NextChain, MorningEvaluation, ApproveContext, GenerateContent, Trigger,
              Settle, FailRun, PauseRun, CompleteRun, ChainRun, ReapRun, ResumeRun, Die
  <2>2. runs[s].fed /\ runs[s].stage = "planning"
    BY <2>1 DEF CompleteRun, ChainRun, Activating, Grounded
  <2>3. done \subseteq done' BY <2>1 DEF CompleteRun, ChainRun
  <2> QED BY <2>2, <2>3 DEF Grounded
<1>3. ChainSpec => [](ChainTypes /\ Grounded)
  BY <1>1, ChainKeeps, PTL DEF ChainSpec
<1> QED BY <1>2, <1>3, PTL DEF ChainSpec, ActiveHasStrategy

=============================================================================

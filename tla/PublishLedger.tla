--------------------------- MODULE PublishLedger ---------------------------
(***************************************************************************)
(* What the publishing pipeline promises, without tasks, sweeps or flags:  *)
(* scheduling an item is a credit for one post. A post spends a credit; a  *)
(* credit may be forfeited (expired, swept, withdrawn, lost in a crash),   *)
(* but nothing except an operator ever creates one.                        *)
(***************************************************************************)
EXTENDS Naturals

CONSTANT Items

VARIABLES
  arms,    \* how often an operator scheduled the item
  credit,  \* posts the item may still cause
  posts    \* posts that reached the platform

vars == <<arms, credit, posts>>

Init ==
  /\ arms = [i \in Items |-> 0]
  /\ credit = [i \in Items |-> 0]
  /\ posts = [i \in Items |-> 0]

Schedule(i) ==
  /\ arms' = [arms EXCEPT ![i] = @ + 1]
  /\ credit' = [credit EXCEPT ![i] = @ + 1]
  /\ UNCHANGED posts

Post(i) ==
  /\ credit[i] > 0
  /\ credit' = [credit EXCEPT ![i] = @ - 1]
  /\ posts' = [posts EXCEPT ![i] = @ + 1]
  /\ UNCHANGED arms

Forfeit ==
  /\ credit' \in [Items -> Nat]
  /\ \A i \in Items : credit'[i] <= credit[i]
  /\ UNCHANGED <<arms, posts>>

Next == (\E i \in Items : Schedule(i) \/ Post(i)) \/ Forfeit

Spec == Init /\ [][Next]_vars
=============================================================================

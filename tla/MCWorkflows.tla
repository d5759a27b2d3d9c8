----------------------------- MODULE MCWorkflows -----------------------------
(***************************************************************************)
(* The two machines that messages drive over several workflows, in one run: *)
(* the activation of a brand and the batch of its calendar items.  They     *)
(* share no state as they are modelled (BrandChain generates a calendar in  *)
(* one step), so a behaviour is one of one machine, chosen at the start,    *)
(* and the other one's variables keep their first values.                   *)
(***************************************************************************)
EXTENDS BrandChain, ContentBatch

VARIABLE which

vars == <<which, chain_vars, batch_vars>>

Init ==
    /\ which \in {"chain", "batch"}
    /\ InitChain /\ InitBatch
    /\ which = "chain" => \A i \in Items : status[i] = "queued"

Next ==
    /\ UNCHANGED which
    /\ \/ which = "chain" /\ NextChain /\ UNCHANGED batch_vars
       \/ which = "batch" /\ NextBatch /\ UNCHANGED chain_vars

\* The fairness of the two modules, each for the machine that runs.
ChainIsFair ==
    /\ WF_vars(which = "chain" /\ (\E m \in BagToSet(queue) : TakeMessage(m))
               /\ UNCHANGED <<which, batch_vars>>)
    /\ \A s \in RunSlots :
           WF_vars(which = "chain" /\ Settle(s) /\ UNCHANGED <<which, batch_vars>>)

BatchIsFair ==
    /\ \A w \in Workers :
           WF_vars(which = "batch" /\ Handle(w) /\ UNCHANGED <<which, chain_vars>>)
    /\ WF_vars(which = "batch" /\ Reap /\ UNCHANGED <<which, chain_vars>>)
    /\ WF_vars(which = "batch" /\ TopUp /\ UNCHANGED <<which, chain_vars>>)
    /\ \A i \in Reels :
           WF_vars(which = "batch" /\ Render(i) /\ UNCHANGED <<which, chain_vars>>)

Spec == Init /\ [][Next]_vars /\ ChainIsFair /\ BatchIsFair

----------------------------------------------------------------------------
\* A queued item is taken up (ContentBatch).
BatchIsServed ==
    \A i \in Items : (which = "batch" /\ status[i] = "queued") ~> status[i] # "queued"

=============================================================================

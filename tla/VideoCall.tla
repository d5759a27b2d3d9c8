------------------------------- MODULE VideoCall -------------------------------
(***************************************************************************)
(* One clip through the provider cascade (agents/shared/video.py            *)
(* generate_video): the local forge, which costs nothing, and two paid      *)
(* clouds, in an order that depends on the quality tier.  Each provider is  *)
(* asked whether it is available, given the job, polled and fetched from.   *)
(* The forge knows a job by its idempotency key, so a call that is made     *)
(* again after a crash finds the job of the first; the clouds do not.       *)
(***************************************************************************)
EXTENDS Naturals, Sequences

CONSTANTS
    MaxVideoCalls,  \* bound: how often the clip is asked for under one key
    MaxVideoPolls   \* bound: polls that find a job still running

VARIABLES
    hero,      \* quality_tier = "hero"
    segmented, \* a native multishot request
    start_frame, \* the request's image: "none", "bytes" or "url"
    keys,      \* per provider: "good", "wrong" or "blank"
    bounded,   \* the caller gives the whole call the time of one provider (a shot)
    todo,      \* the providers left, the current one first
    phase,     \* what is asked of it
    waits,     \* polls so far
    jobs,      \* per provider: the jobs it accepted, and what became of them
    ledger,    \* generation_ledger of this call: [provider, event]
    times,     \* calls so far
    spent      \* history: paid submissions, with what the call knew then

call_vars == <<hero, segmented, start_frame, keys, bounded, todo, phase, waits, jobs, ledger,
               times, spent>>
request == <<hero, segmented, start_frame, keys, bounded>>

Paid == {"fal", "veo"}
Providers == Paid \cup {"forge"}
Cascade == IF hero THEN <<"veo", "fal", "forge">> ELSE <<"forge", "fal">>
Provider == Head(todo)

InitCall ==
    /\ hero \in BOOLEAN /\ segmented \in {b \in BOOLEAN : b => ~hero}
    /\ start_frame \in {"none", "bytes", "url"} /\ bounded \in BOOLEAN
    /\ keys \in [Providers -> {"good", "wrong", "blank"}]
    /\ todo = Cascade /\ phase = "available" /\ waits = 0
    /\ jobs = [p \in Providers |-> "none"] /\ ledger = <<>> /\ times = 1 /\ spent = {}

Log(event) == ledger' = Append(ledger, [provider |-> Provider, event |-> event])
Logged(event) == \E i \in 1..Len(ledger) : ledger[i].event = event

\* The next provider, or the end: all have failed.
NextProvider ==
    /\ todo' = Tail(todo) /\ waits' = 0
    /\ phase' = IF Len(todo) = 1 THEN "failed" ELSE "available"

\* A provider that cannot serve the request, and one that tried.
Skip == Log("skipped") /\ NextProvider
FailProvider == Log("failed") /\ NextProvider

----------------------------------------------------------------------------
\* The clouds refuse segments; a blank key is looked for before the forge's
\* open health probe.
Takes(p) == keys[p] # "blank" /\ ~(segmented /\ p \in Paid)

available ==
    /\ phase = "available"
    /\ \/ Takes(Provider) /\ phase' = "submit" /\ UNCHANGED <<todo, waits, ledger>>
       \/ (~Takes(Provider) \/ Provider = "forge") /\ Skip
    /\ UNCHANGED <<request, jobs, times, spent>>

\* fal needs the picture at an address and uploads it; when it cannot, it is
\* skipped.  veo downloads a picture it only has the address of.
Pictures == Provider = "fal" /\ start_frame = "bytes"

Spend == spent' = IF Provider \in Paid
                  THEN spent \cup {[segmented |-> segmented, refused |-> Logged("config_error")]}
                  ELSE spent

\* A job is accepted and named, or accepted and the answer is lost, or refused.
\* The forge gives back the job it has under this key, whatever its state.
submit ==
    /\ phase = "submit" /\ keys[Provider] = "good"
    /\ \/ /\ Log("submitted") /\ phase' = "poll" /\ Spend
          /\ jobs' = [jobs EXCEPT ![Provider] =
                          IF Provider = "forge" /\ @ # "none" THEN @ ELSE "running"]
          /\ UNCHANGED <<todo, waits>>
       \/ /\ FailProvider /\ Spend
          /\ jobs' = [jobs EXCEPT ![Provider] =
                          IF Provider = "forge" /\ @ # "none" THEN @ ELSE "running"]
       \/ FailProvider /\ UNCHANGED <<jobs, spent>>
       \/ Pictures /\ Skip /\ UNCHANGED <<jobs, spent>>
    /\ UNCHANGED <<request, times>>

\* Mutant: a refused key is a failure like any other.
RefuseAndGoOn == Log("config_error") /\ NextProvider

\* The forge's 401 ends the cascade, so that no money is spent on it.
Refuse == Log("config_error") /\ phase' = "refused" /\ UNCHANGED <<todo, waits>>

submit_refused ==
    /\ phase = "submit" /\ keys[Provider] = "wrong"
    /\ IF Provider = "forge" THEN Refuse ELSE (FailProvider \/ (Pictures /\ Skip))
    /\ UNCHANGED <<request, jobs, times, spent>>

\* The provider finishes the job or loses it, in its own time.
Work ==
    /\ \E p \in Providers : jobs[p] = "running"
                            /\ jobs' \in {[jobs EXCEPT ![p] = s] : s \in {"succeeded", "failed"}}
    /\ UNCHANGED <<request, todo, phase, waits, ledger, times, spent>>

poll ==
    /\ phase = "poll"
    /\ \/ /\ jobs[Provider] = "succeeded" /\ Log("succeeded") /\ phase' = "fetch"
          /\ UNCHANGED <<todo, waits>>
       \/ jobs[Provider] \in {"failed", "cancelled"} /\ FailProvider
       \/ /\ jobs[Provider] = "running" /\ waits < MaxVideoPolls
          /\ waits' = waits + 1 /\ UNCHANGED <<todo, phase, ledger>>
       \/ FailProvider   \* the poll's own request fails
    /\ UNCHANGED <<request, jobs, times, spent>>

\* The provider's time is up: only the forge's job is called off, best-effort.
poll_deadline ==
    /\ phase = "poll" /\ jobs[Provider] = "running" /\ waits = MaxVideoPolls /\ ~bounded
    /\ FailProvider
    /\ jobs' \in {jobs, [jobs EXCEPT !["forge"] = IF Provider = "forge" THEN "cancelled" ELSE @]}
    /\ UNCHANGED <<request, times, spent>>

\* A shot's time is that of one provider and began earlier: the caller gives
\* up first, wherever the call is, and its ledger is lost.
give_up ==
    /\ bounded /\ phase \in {"available", "submit", "poll", "fetch"}
    /\ phase' = "given up" /\ ledger' = <<>>
    /\ UNCHANGED <<request, todo, waits, jobs, times, spent>>

fetch ==
    /\ phase = "fetch"
    /\ \/ phase' = "delivered" /\ UNCHANGED <<todo, waits, ledger>>
       \/ FailProvider
    /\ UNCHANGED <<request, jobs, times, spent>>

\* The worker dies, or the item is rendered anew from the same plan: the clip
\* is asked for again, under the same key.
ask_again ==
    /\ times < MaxVideoCalls /\ times' = times + 1
    /\ todo' = Cascade /\ phase' = "available" /\ waits' = 0 /\ ledger' = <<>>
    /\ keys' \in {keys, [keys EXCEPT !["forge"] = "good"]}
    /\ UNCHANGED <<hero, segmented, start_frame, bounded, jobs, spent>>

NextCall ==
    \/ available \/ submit \/ submit_refused \/ Work \/ poll \/ poll_deadline
    \/ give_up \/ fetch \/ ask_again

CallSpec == InitCall /\ [][NextCall]_call_vars

----------------------------------------------------------------------------
\* Money is spent only on what the request is for: no cloud is given a
\* segmented request, which it would shoot as one clip of the first prompt,
\* and none stands in for a forge that refused the key (generate_video,
\* ProviderConfigError).
PaidOnlyWhenMeant == \A p \in spent : ~p.segmented /\ ~p.refused

=============================================================================

------------------------------ MODULE BCClient ------------------------------
(***************************************************************************)
(* The Business Central client (shared/tools/bc_api.py, vendored in the      *)
(* backend): lookups of an item card's picture that share a token, caches, a *)
(* semaphore, a request interval and a circuit breaker in one event loop.    *)
(* Only an await lets another lookup run.  A lookup asks for the company,    *)
(* the item, the picture record and its bytes, and never raises: whatever    *)
(* goes wrong, it has no picture.                                            *)
(*                                                                         *)
(* Time is counted in request intervals, the cooldown and the token's life   *)
(* are shortened to a few.  All lookups are for one item.                    *)
(***************************************************************************)
EXTENDS Naturals, Sequences, FiniteSets

CONSTANTS Calls,          \* lookups that may be under way at once
          MAX_CONCURRENT, \* requests in flight
          MAX_RETRIES,
          COOLDOWN,       \* _AUTH_FAILURE_COOLDOWN_S
          TOKEN_LIFE,     \* expires_in
          MaxTime,
          MaxCalls        \* lookups begun

ASSUME BCAssumption ==
    /\ IsFiniteSet(Calls)
    /\ COOLDOWN \in Nat \ {0}

VARIABLES
    now,
    disabled_until,
    token,    \* the cached token's expiry, 0 without one
    last,     \* _last_request_at
    free,     \* permits of the semaphore
    cache,    \* answers kept: the company, the item, that there is no picture
    call,     \* each lookup: what it asks for, where it is, attempt, wake-up
    begun,
    doomed    \* history: requests rejected in this cooldown

bc_vars == <<now, disabled_until, token, last, free, cache, call, begun, doomed>>

Asks == <<"company", "item", "picture", "content">>
Idle == [ask |-> 0, at |-> "idle", attempt |-> 0, wake |-> 0]

InitClient ==
    /\ now = 0 /\ disabled_until = 0 /\ token = 0 /\ last = 0
    /\ free = MAX_CONCURRENT /\ cache = {}
    /\ call = [c \in Calls |-> Idle] /\ begun = 0 /\ doomed = 0

\* Mutant: the cooldown is not waited for.
AlwaysAvailable == now + COOLDOWN >= disabled_until

is_available == now >= disabled_until

Become(c, record) == call' = [call EXCEPT ![c] = record]

\* The next thing to ask for that no cache answers.
NextAsk(ask) == IF ask = 1 /\ "item" \in cache THEN 3 ELSE ask + 1

\* What a lookup goes on with, or that it ends.
Continue(c, ask) ==
    IF ask > Len(Asks) \/ (ask >= 3 /\ "no picture" \in cache) THEN Become(c, Idle)
    ELSE Become(c, [ask |-> ask, at |-> "token", attempt |-> 0, wake |-> 0])

\* Inside a cooldown the lookup ends before it begins.
fetch_item_picture(c) ==
    /\ call[c] = Idle /\ begun < MaxCalls /\ begun' = begun + 1
    /\ IF ~is_available THEN UNCHANGED call
       ELSE Continue(c, IF "company" \in cache THEN NextAsk(1) ELSE 1)
    /\ UNCHANGED <<now, disabled_until, token, last, free, cache, doomed>>

\* The first rejection of a cooldown, and every one after it, prolongs it.
_trip_breaker ==
    /\ disabled_until' = now + COOLDOWN
    /\ token' = 0
    /\ doomed' = doomed + 1

\* A token that is cached costs no await; without one the lookup asks for it.
_get_token(c) ==
    /\ call[c].at = "token"
    /\ \/ now < token /\ Become(c, [call[c] EXCEPT !.at = "permit"])
          /\ UNCHANGED <<disabled_until, token, doomed>>
       \/ now >= token /\ Become(c, [call[c] EXCEPT !.at = "login"])
          /\ UNCHANGED <<disabled_until, token, doomed>>
    /\ UNCHANGED <<now, last, free, cache, begun>>

\* A refused login trips the breaker, an error of the connection does not.
Login(c) ==
    /\ call[c].at = "login"
    /\ \/ token' = now + TOKEN_LIFE /\ Become(c, [call[c] EXCEPT !.at = "permit"])
          /\ UNCHANGED <<disabled_until, doomed>>
       \/ _trip_breaker /\ Become(c, Idle)
       \/ UNCHANGED <<disabled_until, token, doomed>> /\ Become(c, Idle)
    /\ UNCHANGED <<now, last, free, cache, begun>>

_semaphore(c) ==
    /\ call[c].at = "permit" /\ free > 0 /\ free' = free - 1
    /\ Become(c, [call[c] EXCEPT !.at = "sleep",
                                 !.wake = IF last = now THEN now + 1 ELSE now])
    /\ UNCHANGED <<now, disabled_until, token, last, cache, begun, doomed>>

\* The wait is worked out before the sleep, and the time set after it: lookups
\* that slept at once send at once.
_respect_min_interval(c) ==
    /\ call[c].at = "sleep" /\ now >= call[c].wake
    /\ last' = now /\ Become(c, [call[c] EXCEPT !.at = "sent"])
    /\ UNCHANGED <<now, disabled_until, token, free, cache, begun, doomed>>

\* Every answer gives the permit back.  The breaker is asked by no request,
\* only by a lookup that begins.
Answer(c) ==
    /\ call[c].at = "sent" /\ free' = free + 1
    /\ UNCHANGED <<now, last, begun>>

_get_rejected(c) == Answer(c) /\ _trip_breaker /\ Become(c, Idle) /\ UNCHANGED cache

_get_failed(c) ==
    Answer(c) /\ Become(c, Idle) /\ UNCHANGED <<disabled_until, token, cache, doomed>>

_get_throttled(c) ==
    /\ Answer(c) /\ call[c].attempt < MAX_RETRIES
    /\ Become(c, [call[c] EXCEPT !.at = "backoff", !.attempt = @ + 1, !.wake = now + 1])
    /\ UNCHANGED <<disabled_until, token, cache, doomed>>

BackOff(c) ==
    /\ call[c].at = "backoff" /\ now >= call[c].wake
    /\ Become(c, [call[c] EXCEPT !.at = "token"])
    /\ UNCHANGED <<now, disabled_until, token, last, free, cache, begun, doomed>>

\* The company list and the item's number are kept; a name that is in neither
\* ends the lookup.
_resolve(c) ==
    /\ call[c].ask \in {1, 2} /\ Answer(c)
    /\ cache' = cache \cup {Asks[call[c].ask]}
    /\ Continue(c, NextAsk(call[c].ask)) \/ Become(c, Idle)
    /\ UNCHANGED <<disabled_until, token, doomed>>

\* That there is no picture is kept too, a picture is not.
_fetch_item_picture(c) ==
    /\ call[c].ask \in {3, 4} /\ Answer(c)
    /\ \/ cache' = cache \cup {"no picture"} /\ Become(c, Idle)
       \/ UNCHANGED cache /\ Continue(c, call[c].ask + 1)
    /\ UNCHANGED <<disabled_until, token, doomed>>

\* A cooldown that is over is forgotten.
Tick ==
    /\ now < MaxTime /\ now' = now + 1
    /\ doomed' = IF now + 1 >= disabled_until THEN 0 ELSE doomed
    /\ UNCHANGED <<disabled_until, token, last, free, cache, call, begun>>

\* The kept answers live half an hour.
Expire ==
    /\ \E answer \in cache : cache' = cache \ {answer}
    /\ UNCHANGED <<now, disabled_until, token, last, free, call, begun, doomed>>

NextClient ==
    \/ \E c \in Calls :
         \/ fetch_item_picture(c) \/ _get_token(c) \/ Login(c) \/ _semaphore(c)
         \/ _respect_min_interval(c) \/ _get_rejected(c) \/ _get_failed(c)
         \/ _get_throttled(c) \/ BackOff(c) \/ _resolve(c) \/ _fetch_item_picture(c)
    \/ Tick \/ Expire

ClientSpec == InitClient /\ [][NextClient]_bc_vars

----------------------------------------------------------------------------
(* Properties *)

\* One rejection stops the path: in one cooldown the service rejects no more
\* requests than lookups were already under way, however many are begun
\* ("Without this a 600-product sync would fire 600 doomed requests").
DoomedBounded == doomed <= Cardinality(Calls)

=============================================================================

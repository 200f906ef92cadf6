----------------------------- MODULE RegistryAuth -----------------------------
(***************************************************************************)
(* One request of the distribution client: the cached bearer token, the    *)
(* anonymous request that earns a challenge, the token fetch and the       *)
(* retry, each of them repeated while the registry answers 429.  Gets of   *)
(* one repository run concurrently and share the token cache; a token may  *)
(* expire at any time.                                                     *)
(***************************************************************************)
EXTENDS Naturals, FiniteSets

CONSTANTS Gets,          \* concurrent authenticated_get calls
          Public,        \* the registry answers anonymous requests
          MaxTokens,     \* tokens the registry issues
          MaxThrottles,  \* 429 answers
          MaxFaults      \* other errors

Attempts == 4
NoToken == 0

VARIABLES
    token,               \* the cached token of the repository's scope
    issued, live,        \* tokens issued; tokens that have not expired
    pc, bearer, attempt, \* per get: its locals,
    fetched, sent,       \* whether it fetched bearer itself, its requests
    throttles, faults

vars == <<token, issued, live, pc, bearer, attempt, fetched, sent, throttles, faults>>

\* What an honest registry and its token service answer to the request of g.
Answer(g) ==
    CASE pc[g] = "anonymous" -> IF Public THEN 200 ELSE 401
      [] pc[g] = "challenge" -> 200
      [] OTHER               -> IF bearer[g] \in live THEN 200 ELSE 401

Sending == {"cached", "anonymous", "challenge", "retry"}

\* Requests are counted up to one past the bound the code promises.
SentCap == 4 * Attempts + 1
Request(g) == sent' = [sent EXCEPT ![g] = IF @ < SentCap THEN @ + 1 ELSE @]

Turn(g, l) == /\ pc' = [pc EXCEPT ![g] = l]
              /\ attempt' = [attempt EXCEPT ![g] = 0]

\* get_cached_token: a cached token is tried first.
Begin(g) ==
    /\ pc[g] = "begin"
    /\ bearer' = [bearer EXCEPT ![g] = token]
    /\ fetched' = [fetched EXCEPT ![g] = FALSE]
    /\ Turn(g, IF token = NoToken THEN "anonymous" ELSE "cached")
    /\ UNCHANGED <<token, issued, live, sent, throttles, faults>>

\* Any answer but success to the cached token: ask again without it.
CachedAnswered(g, status) ==
    /\ pc[g] = "cached"
    /\ Turn(g, IF status = 200 THEN "ok" ELSE "anonymous")
    /\ UNCHANGED <<token, issued, live, bearer, fetched>>

\* 401 starts the challenge, success ends the get.
AnonymousAnswered(g, status) ==
    /\ pc[g] = "anonymous"
    /\ Turn(g, IF status = 401 THEN "challenge" ELSE IF status = 200 THEN "ok" ELSE "failed")
    /\ UNCHANGED <<token, issued, live, bearer, fetched>>

\* fetch_token and cache_token: the new token replaces whatever is cached.
TokenFetched(g, status) ==
    /\ pc[g] = "challenge"
    /\ IF status = 200 /\ issued < MaxTokens
       THEN /\ issued' = issued + 1
            /\ live' = live \cup {issued + 1}
            /\ token' = issued + 1
            /\ bearer' = [bearer EXCEPT ![g] = issued + 1]
            /\ fetched' = [fetched EXCEPT ![g] = TRUE]
            /\ Turn(g, "retry")
       ELSE Turn(g, "failed") /\ UNCHANGED <<token, issued, live, bearer, fetched>>

\* The fetched token is used once.
RetryAnswered(g, status) ==
    /\ pc[g] = "retry"
    /\ Turn(g, IF status = 200 THEN "ok" ELSE "failed")
    /\ UNCHANGED <<token, issued, live, bearer, fetched>>

\* A status that send_with_rate_limit hands on.
Handle(g, status) ==
    \/ CachedAnswered(g, status) \/ AnonymousAnswered(g, status)
    \/ TokenFetched(g, status) \/ RetryAnswered(g, status)

Answered(g) ==
    /\ pc[g] \in Sending
    /\ Handle(g, Answer(g)) /\ Request(g)
    /\ UNCHANGED <<throttles, faults>>

\* 429: the request is sent again after a pause, and the fourth 429 handed on.
Throttled(g) ==
    /\ pc[g] \in Sending /\ throttles < MaxThrottles
    /\ throttles' = throttles + 1
    /\ Request(g)
    /\ IF attempt[g] < Attempts - 1
       THEN /\ attempt' = [attempt EXCEPT ![g] = @ + 1]
            /\ UNCHANGED <<token, issued, live, pc, bearer, fetched>>
       ELSE Handle(g, 429)
    /\ UNCHANGED faults

\* The request itself fails.
TransportFails(g) ==
    /\ pc[g] \in Sending /\ faults < MaxFaults
    /\ Request(g) /\ Turn(g, "failed")
    /\ faults' = faults + 1
    /\ UNCHANGED <<token, issued, live, bearer, fetched, throttles>>

\* Some other status: 403, 404, 500.
Refused(g) ==
    /\ pc[g] \in Sending /\ faults < MaxFaults
    /\ Handle(g, 500) /\ Request(g)
    /\ faults' = faults + 1
    /\ UNCHANGED throttles

\* The next manifest or blob of the pull.
GetNext(g) ==
    /\ pc[g] \in {"ok", "failed"}
    /\ pc' = [pc EXCEPT ![g] = "begin"] /\ sent' = [sent EXCEPT ![g] = 0]
    /\ UNCHANGED <<token, issued, live, bearer, attempt, fetched, throttles, faults>>

Expire(t) ==
    /\ t \in live /\ live' = live \ {t}
    /\ UNCHANGED <<token, issued, pc, bearer, attempt, fetched, sent, throttles, faults>>

Init ==
    /\ token = NoToken /\ issued = 0 /\ live = {}
    /\ pc = [g \in Gets |-> "begin"] /\ bearer = [g \in Gets |-> NoToken]
    /\ attempt = [g \in Gets |-> 0] /\ fetched = [g \in Gets |-> FALSE]
    /\ sent = [g \in Gets |-> 0]
    /\ throttles = 0 /\ faults = 0

Step(g) == Begin(g) \/ Answered(g) \/ Throttled(g) \/ TransportFails(g) \/ Refused(g)

Next ==
    \/ \E g \in Gets : Step(g) \/ GetNext(g)
    \/ \E t \in 1..MaxTokens : Expire(t)

\* A get is polled until it returns, and each request ends.
Spec == Init /\ [][Next]_vars
-----------------------------------------------------------------------------
\* Tokens, locals and counters have their types.
TypeOK ==
    /\ token \in 0..issued /\ issued \in 0..MaxTokens /\ live \subseteq 1..issued
    /\ pc \in [Gets -> Sending \cup {"begin", "ok", "failed"}]
    /\ bearer \in [Gets -> 0..issued] /\ fetched \in [Gets -> BOOLEAN]
    /\ attempt \in [Gets -> 0..(Attempts - 1)]
    /\ sent \in [Gets -> 0..SentCap] /\ throttles \in 0..MaxThrottles

\* A get sends at most sixteen requests, four in each of its four turns.
RequestsBounded == \A g \in Gets : sent[g] <= 4 * Attempts

\* However stale the cached token is, and whatever other gets do to the
\* cache, a get fails only for a reason of its own: a fault, four 429 in a
\* turn, no token left to issue, or a fresh token that expired before use.
StaleTokenRecovers ==
    \A g \in Gets : pc[g] = "failed" =>
        \/ faults > 0 \/ throttles >= Attempts \/ issued = MaxTokens
        \/ fetched[g] /\ bearer[g] \notin live
=============================================================================

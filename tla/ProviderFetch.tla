---------------------------- MODULE ProviderFetch ----------------------------
(***************************************************************************)
(* The requests of a sweep over job portals (providers/_http.mjs) and the  *)
(* lookups of host names behind them (_dns-cache.mjs, _ip-guard.mjs): a    *)
(* cache, one lookup for all who wait for a name, and a bucket of tokens   *)
(* that paces the resolver.  A request gives up an attempt after a time    *)
(* and tries again, so an answer can come to an attempt that is over.      *)
(*                                                                         *)
(* A tick is the time in which the bucket gains a token.  The JavaScript   *)
(* is single-threaded: what runs between two callbacks is one step.        *)
(***************************************************************************)
EXTENDS Naturals, Sequences, SequencesExt

CONSTANTS
  Requests, HostOf,    \* requests, and the host name of each
  Providers,           \* requests that are those of a provider
  AttemptsOf,          \* retries of its policy + 1
  Capacity,            \* DEFAULT_BURST
  MaxNames,          \* DEFAULT_MAX_ENTRIES
  Ttl, NegativeTtl     \* in ticks

\* A request has an attempt at least, and the cache room for a name.
ASSUME FetchAssumption ==
  /\ AttemptsOf \in [Requests -> Nat \ {0}]
  /\ Capacity \in Nat /\ MaxNames \in Nat \ {0} /\ Ttl \in Nat /\ NegativeTtl \in Nat

VARIABLES
  request,   \* of each its attempt and what the attempt is at
  cache,     \* sequence of entries, the one inserted first in front
  inflight,  \* of each host name the attempts that wait for its lookup
  delivering, \* attempts to be called back with what was in the cache
  lookups,   \* sequence of names that wait for a token
  resolving, \* names the resolver is asked for
  tokens, timer,
  burst      \* history: lookups that began since the last tick

fetchVars == <<request, cache, inflight, delivering, lookups, resolving, tokens, timer, burst>>

Hosts == {HostOf[r] : r \in Requests}

\* What the resolver answers: two kinds of addresses, two kinds of failures.
Answers == {"public", "private", "ENOTFOUND", "EREFUSED"}

FetchInit ==
  /\ request = [r \in Requests |-> [at |-> "idle", attempt |-> 0]]
  /\ cache = <<>>
  /\ inflight = [h \in Hosts |-> <<>>]
  /\ delivering = {} /\ lookups = <<>> /\ resolving = {}
  /\ tokens = Capacity /\ timer = "off" /\ burst = 0
-----------------------------------------------------------------------------
\* Retries.

AttemptOf(r) == <<r, request[r].attempt>>

\* withRetry: after a failure worth another attempt, unless it was the last.
Retried(r) ==
  [request[r] EXCEPT !.at = IF request[r].attempt = AttemptsOf[r] THEN "ended" ELSE "sleeping"]

\* guarded: a provider is not connected to an address that is not public.
Guarded(r, answer) == answer = "public" \/ (answer = "private" /\ r \notin Providers)

\* What the callback of the lookup does to its request.
Connected(r, answer) ==
  IF Guarded(r, answer) THEN [request[r] EXCEPT !.at = "connected"] ELSE Retried(r)

\* Attempts are called back; one that was given up does not listen any more.
CallBack(attempts, answer) ==
  request' = [r \in Requests |->
    IF request[r].at = "lookup" /\ AttemptOf(r) \in attempts
    THEN Connected(r, answer) ELSE request[r]]
-----------------------------------------------------------------------------
\* The bucket.

Schedule == IF timer = "off" THEN "set" ELSE timer

\* take: those who wait go first.
Take(h) ==
  IF lookups = <<>> /\ tokens >= 1
  THEN /\ tokens' = tokens - 1 /\ burst' = burst + 1
       /\ resolving' = resolving \cup {h}
       /\ UNCHANGED <<lookups, timer>>
  ELSE /\ lookups' = Append(lookups, h) /\ timer' = Schedule
       /\ UNCHANGED <<tokens, burst, resolving>>

\* pump: as many as there are tokens, and the timer again for the others.
Pump ==
  /\ timer = "due"
  /\ LET n == IF Len(lookups) <= tokens THEN Len(lookups) ELSE tokens
     IN  /\ resolving' = resolving \cup ToSet(SubSeq(lookups, 1, n))
         /\ lookups' = SubSeq(lookups, n + 1, Len(lookups))
         /\ tokens' = tokens - n /\ burst' = burst + n
  /\ timer' = IF lookups' = <<>> THEN "off" ELSE "set"
  /\ UNCHANGED <<request, cache, inflight, delivering>>

\* Plausible bug: tokens pile up while nobody asks.
Piled == tokens + 1

Refilled == IF tokens < Capacity THEN tokens + 1 ELSE Capacity

\* Time goes by; an entry that is over stays in its place.
Tick ==
  /\ tokens' = Refilled
  /\ cache' = [i \in DOMAIN cache |->
       [cache[i] EXCEPT !.left = IF @ = 0 THEN 0 ELSE @ - 1]]
  /\ timer' = IF timer = "set" THEN "due" ELSE timer
  /\ burst' = 0
  /\ UNCHANGED <<request, inflight, delivering, lookups, resolving>>
-----------------------------------------------------------------------------
\* The lookup.

EntriesOf(h) == {i \in DOMAIN cache : cache[i].host = h}

Hits(h) == {cache[i].answer : i \in {j \in EntriesOf(h) : cache[j].left > 0}}

\* Plausible bug: every attempt asks the resolver for itself.
NobodyWaits(h) == FALSE

Coalesces(h) == inflight[h] # <<>>

\* cachedLookup, for the attempt that r begins.
Lookup(r) ==
  LET h == HostOf[r]
      attempt == AttemptOf(r)'
  IN  IF Hits(h) # {}
      THEN /\ \E answer \in Hits(h) : delivering' = delivering \cup {<<attempt, answer>>}
           /\ UNCHANGED <<inflight, lookups, resolving, tokens, timer, burst>>
      ELSE /\ inflight' = [inflight EXCEPT ![h] = Append(@, attempt)]
           /\ IF Coalesces(h)
              THEN UNCHANGED <<lookups, resolving, tokens, timer, burst>>
              ELSE Take(h)
           /\ UNCHANGED delivering

\* Plausible bug: a retry counts its attempts from the first.
FromTheFirst(r) ==
  /\ request[r].at \in {"idle", "sleeping"}
  /\ request' = [request EXCEPT ![r] = [at |-> "lookup", attempt |-> 1]]
  /\ Lookup(r)
  /\ UNCHANGED cache

Fetch(r) ==
  /\ request[r].at \in {"idle", "sleeping"}
  /\ request' = [request EXCEPT ![r] = [at |-> "lookup", attempt |-> @.attempt + 1]]
  /\ Lookup(r)
  /\ UNCHANGED cache

\* Plausible bug: a failure of any kind is kept as long as an answer.
AllTtl(answer) == Ttl

\* Only a resolver that refuses is remembered, and for a short time.
TtlOf(answer) ==
  CASE answer = "ENOTFOUND" -> 0
    [] answer = "EREFUSED" -> NegativeTtl
    [] OTHER -> Ttl

\* The entry put in front of others is dropped when the cache is full, even if
\* the new one replaces another; Map.set leaves an entry in its old place.
Remember(h, answer) ==
  LET kept == IF Len(cache) >= MaxNames THEN Tail(cache) ELSE cache
      entry == [host |-> h, answer |-> answer, left |-> TtlOf(answer)]
      place == {i \in DOMAIN kept : kept[i].host = h}
  IN  IF TtlOf(answer) = 0 THEN cache
      ELSE IF place = {} THEN Append(kept, entry)
      ELSE [i \in DOMAIN kept |-> IF i \in place THEN entry ELSE kept[i]]

\* The resolver answers, to all who wait.
Resolve(h, answer) ==
  /\ h \in resolving
  /\ resolving' = resolving \ {h}
  /\ inflight' = [inflight EXCEPT ![h] = <<>>]
  /\ cache' = Remember(h, answer)
  /\ CallBack(ToSet(inflight[h]), answer)
  /\ UNCHANGED <<delivering, lookups, tokens, timer, burst>>

\* process.nextTick, for an answer out of the cache.
Deliver(hit) ==
  /\ delivering' = delivering \ {hit}
  /\ CallBack({hit[1]}, hit[2])
  /\ UNCHANGED <<cache, inflight, lookups, resolving, tokens, timer, burst>>
-----------------------------------------------------------------------------
\* The request.

\* The answer to the request, its body read: good, an error that may pass (429,
\* 5xx, transport) or one that stays.
Respond(r) ==
  /\ request[r].at = "connected"
  /\ request' \in {[request EXCEPT ![r].at = "ended"], [request EXCEPT ![r] = Retried(r)]}
  /\ UNCHANGED <<cache, inflight, delivering, lookups, resolving, tokens, timer, burst>>

\* The time of the attempt is over, in the lookup, the request or its body.
Abort(r) ==
  /\ request[r].at \in {"lookup", "connected"}
  /\ request' = [request EXCEPT ![r] = Retried(r)]
  /\ UNCHANGED <<cache, inflight, delivering, lookups, resolving, tokens, timer, burst>>

Retry(r) == request[r].at = "sleeping" /\ Fetch(r)

FirstFetch(r) == request[r].at = "idle" /\ Fetch(r)

\* What goes on once requests have begun.
Progress ==
  \/ \E r \in Requests : Retry(r) \/ Respond(r) \/ Abort(r)
  \/ \E h \in Hosts, answer \in Answers : Resolve(h, answer)
  \/ \E hit \in delivering : Deliver(hit)
  \/ Pump \/ Tick

FetchNext == Progress \/ \E r \in Requests : FirstFetch(r)

FetchSpec == FetchInit /\ [][FetchNext]_fetchVars

\* Timers fire, and the resolver answers with a failure at the latest.
FetchFairness == WF_fetchVars(Progress)
-----------------------------------------------------------------------------

\* Every variable has its type.
FetchTypeOK ==
  /\ \A r \in Requests :
       /\ request[r].at \in {"idle", "lookup", "connected", "sleeping", "ended"}
       /\ request[r].attempt \in 0 .. AttemptsOf[r]
  /\ \A i \in DOMAIN cache : cache[i].host \in Hosts /\ cache[i].answer \in Answers
  /\ ToSet(lookups) \cup resolving \subseteq Hosts
  /\ timer \in {"off", "set", "due"}

\* Those who wait for one name wait for one lookup, however they came, were
\* given up and came again: a name is asked for once at a time, and exactly
\* when somebody waits for it.
LookupIsShared ==
  /\ IsInjective(lookups) /\ ToSet(lookups) \cap resolving = {}
  /\ {h \in Hosts : inflight[h] # <<>>} = ToSet(lookups) \cup resolving

\* An attempt that looks up a name will be called back, by one lookup or out of
\* the cache, and an attempt that is over is not called back with its answer.
CalledBackOnce ==
  \A r \in Requests :
    LET waits == {i \in DOMAIN inflight[HostOf[r]] : inflight[HostOf[r]][i] = AttemptOf(r)}
        hits == {hit \in delivering : hit[1] = AttemptOf(r)}
    IN  /\ request[r].at = "lookup" => \/ hits = {} /\ \E i \in waits : waits = {i}
                                       \/ waits = {} /\ \E hit \in hits : hits = {hit}
        /\ request[r].at = "idle" => waits = {} /\ hits = {}

\* A failure passes soon: a name that does not exist is never remembered, and a
\* resolver that refused is asked again after the short time, however answers,
\* evictions and overwritten entries come; the cache is bounded.  (The file's
\* header, line 43, says more: that failed resolutions are never cached.  The
\* code remembers a refusal for negativeTtlMs, lines 313-324.)
FailuresPassSoon ==
  /\ Len(cache) <= MaxNames
  /\ \A i, j \in DOMAIN cache : cache[i].host = cache[j].host => i = j
  /\ \A i \in DOMAIN cache :
       /\ cache[i].answer # "ENOTFOUND"
       /\ cache[i].left <= IF cache[i].answer = "EREFUSED" THEN NegativeTtl ELSE Ttl

\* The resolver is asked for a bounded number of names at a time.
LookupsArePaced == burst <= Capacity

\* What the cached lookup of _dns-cache.mjs promises its callers, all of it: one
\* lookup for those who wait for a name, one answer for each attempt, no failure
\* that outlives its time to live, and a paced resolver.
FetchIsFair == LookupIsShared /\ CalledBackOnce /\ FailuresPassSoon /\ LookupsArePaced

\* A request that has begun ends, however many wait before it for a token and
\* whatever is answered, late or not at all.  (None of them begins again.)
RequestsEnd == []<>(\A r \in Requests : request[r].at \in {"idle", "ended"})
=============================================================================

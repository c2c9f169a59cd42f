------------------------------- MODULE RateLimits -------------------------------
(***************************************************************************)
(* What keeps a run, an organisation or a user within bounds: the model    *)
(* gateway's token buckets and leases of requests in flight (llm-gateway,  *)
(* rate-limit.ts and server.ts), with the cache of answered steps, and the *)
(* control plane's limits of requests, counted in Redis or, when that      *)
(* fails, in a bucket of its own, and of open event streams                *)
(* (security/rate-limit.ts, api/server.ts).                                *)
(***************************************************************************)
EXTENDS Integers, Sequences, SequencesExt, FiniteSets, FiniteSetsExt, Functions

CONSTANTS
  Sessions,     \* runs that call the model, all of one organisation
  PerWindow,    \* RATE_LIMIT_*: tokens a bucket gains in a window, by policy
  Burst,        \* RATE_LIMIT_*_BURST, by policy
  Window,       \* RATE_LIMIT_*_WINDOW_MS
  AtOnce,       \* RATE_LIMIT_LLM_INFLIGHT_RUN, _ORG and RATE_LIMIT_SSE, by policy
  StepTtl,      \* TTL_MS of step-cache.ts
  MaxMoment,    \* bound: milliseconds
  MaxChats,     \* bound: calls of the model
  MaxAsks,      \* bound: requests to the API
  MaxViewers    \* bound: event streams

Policies == {"llm_run", "llm_org", "api"}
LeasePolicies == {"run", "org", "sse"}
ASSUME RateNumbers ==
  /\ Window \in Nat \ {0} /\ MaxMoment \in Nat /\ StepTtl \in Nat
  /\ MaxChats \in Nat /\ MaxAsks \in Nat /\ MaxViewers \in Nat
ASSUME RatesGiven ==
  /\ PerWindow \in [Policies -> Nat \ {0}] /\ Burst \in [Policies -> Nat \ {0}]
  /\ AtOnce \in [LeasePolicies -> Nat \ {0}]

VARIABLES
  moment,      \* Date.now()
  buckets,     \* of both processes: tokens (in parts of 1/Window) and updatedAt
  inflight,    \* leases out, by key
  chats,       \* requests in the gateway
  cache,       \* expiry of the step's cached answer, 0 if there is none
  windows,     \* Redis: the count of each window of the API's key
  asks,        \* API requests that wait for Redis
  viewers,     \* requests for an event stream
  ratePast     \* history: admitted (key, moment, by) in order, requests, stale, told
rateVars == <<moment, buckets, inflight, chats, cache, windows, asks, viewers, ratePast>>

Org == "org"
BucketKeys == {<<"llm_run", s>> : s \in Sessions} \cup {<<"llm_org", Org>>, <<"api", "user">>}
LeaseKeys == {<<"run", s>> : s \in Sessions} \cup {<<"org", Org>>, <<"sse", "user">>}
Moments == 0..MaxMoment
Full(k) == Burst[k[1]] * Window
WindowOf(t) == t \div Window

RateTypeOK ==
  /\ moment \in Moments /\ cache \in Nat
  /\ DOMAIN buckets = BucketKeys
  /\ \A k \in BucketKeys : buckets[k] \in [tokens : 0..Full(k), at : Moments]
  /\ inflight \in [LeaseKeys -> Nat]
  /\ \A c \in DOMAIN chats :
       chats[c] \in [run : Sessions, step : BOOLEAN, pc : {"body", "upstream", "stream"}]
  /\ windows \in [0..WindowOf(MaxMoment) -> Nat]
  /\ \A a \in DOMAIN asks : asks[a] \in Moments
  /\ \A v \in DOMAIN viewers : viewers[v] \in [pc : {"loading", "open"}, gone : BOOLEAN]

RateInit ==
  /\ moment = 0 /\ cache = 0
  /\ buckets = [k \in BucketKeys |-> [tokens |-> Full(k), at |-> 0]]
  /\ inflight = [k \in LeaseKeys |-> 0]
  /\ chats = <<>> /\ asks = <<>> /\ viewers = <<>>
  /\ windows = [w \in 0..WindowOf(MaxMoment) |-> 0]
  /\ ratePast = [admitted |-> <<>>, chats |-> 0, asks |-> 0, viewers |-> 0, stale |-> FALSE,
                 told |-> [k \in BucketKeys |-> -1]]

\* A request under a number of its own.
Joined(f, x, v) == [y \in DOMAIN f \cup {x} |-> IF y = x THEN v ELSE f[y]]

-----------------------------------------------------------------------------
(* Buckets. *)

RefilledUncapped(b, k, at) ==
  b.tokens + (IF at > b.at THEN (at - b.at) * PerWindow[k[1]] ELSE 0)
\* consumeBucket: tokens at a moment; never more than the burst, and a clock that reads
\* less than updatedAt adds none.
Refilled(b, k, at) ==
  LET gained == IF at > b.at THEN (at - b.at) * PerWindow[k[1]] ELSE 0
  IN Min({Full(k), b.tokens + gained})
Enough(b, k, at) == Refilled(b, k, at) >= Window
\* What the bucket holds after a request, granted or not.
Consumed(b, k, at) ==
  [tokens |-> Refilled(b, k, at) - (IF Enough(b, k, at) THEN Window ELSE 0), at |-> at]
\* Math.ceil((1 - tokens) / refillPerMs)
RetryAfter(b, k, at) ==
  LET missing == Window - Refilled(b, k, at)
  IN (missing + PerWindow[k[1]] - 1) \div PerWindow[k[1]]

\* The refusal tells the client when to come back; an admission of the key voids it.
Told(told, k, at, ok) == [told EXCEPT ![k] = IF ok THEN -1 ELSE at + RetryAfter(buckets[k], k, at)]
Admits(k, at, by) == <<[key |-> k, at |-> at, by |-> by]>>

\* acquireGatewayConcurrency, acquireConcurrency
LeaseLeft(k) == inflight[k] < AtOnce[k[1]]
LeasesForLeaky(s) ==
  IF LeaseLeft(<<"run", s>>)
  THEN [k \in LeaseKeys |-> inflight[k] +
          (IF k = <<"run", s>> \/ (k = <<"org", Org>> /\ LeaseLeft(k)) THEN 1 ELSE 0)]
  ELSE inflight
\* server.ts: the run's lease is given back when the organisation has none left.
LeasesFor(s) ==
  LET both == {<<"run", s>>, <<"org", Org>>}
  IN IF \A k \in both : LeaseLeft(k)
     THEN [k \in LeaseKeys |-> inflight[k] + (IF k \in both THEN 1 ELSE 0)]
     ELSE inflight
Released(f, ks) == [k \in LeaseKeys |-> IF k \in ks THEN f[k] - 1 ELSE f[k]]

-----------------------------------------------------------------------------
(* The gateway. *)

RunLease(s) == <<"run", s>>
OrgLease == <<"org", Org>>
Spare == CHOOSE i \in 1..MaxChats : i \notin DOMAIN chats

\* POST /v1/chat/completions up to its body: the run's bucket, the organisation's, the
\* run's lease and the organisation's, each of which may answer 429.
ChatArrives(s, step) ==
  LET kr == <<"llm_run", s>>
      ko == <<"llm_org", Org>>
      okRun == Enough(buckets[kr], kr, moment)
      okOrg == okRun /\ Enough(buckets[ko], ko, moment)
      ok == okOrg /\ LeaseLeft(RunLease(s)) /\ LeaseLeft(OrgLease)
      toldRun == Told(ratePast.told, kr, moment, okRun)
  IN /\ ratePast.chats < MaxChats
     /\ buckets' = [k \in BucketKeys |->
          IF k = kr \/ (k = ko /\ okRun) THEN Consumed(buckets[k], k, moment) ELSE buckets[k]]
     /\ inflight' = IF okOrg THEN LeasesFor(s) ELSE inflight
     /\ chats' = IF ok THEN Joined(chats, Spare, [run |-> s, step |-> step, pc |-> "body"]) ELSE chats
     /\ ratePast' = [ratePast EXCEPT !.chats = @ + 1,
          !.told = IF okRun THEN Told(toldRun, ko, moment, okOrg) ELSE toldRun,
          !.admitted = @ \o (IF okRun THEN Admits(kr, moment, "bucket") ELSE <<>>)
                         \o (IF okOrg THEN Admits(ko, moment, "bucket") ELSE <<>>)]
     /\ UNCHANGED <<moment, cache, windows, asks, viewers>>

\* The finally block.
Ends(c) ==
  /\ chats' = Restrict(chats, DOMAIN chats \ {c})
  /\ inflight' = Released(inflight, {RunLease(chats[c].run), OrgLease})
ChatGoesOn(c, pc) == chats' = [chats EXCEPT ![c].pc = pc] /\ UNCHANGED inflight

\* The body has come: it is no JSON, the step was answered before, or the upstream is asked.
BodyRead(c) ==
  /\ chats[c].pc = "body"
  /\ \/ Ends(c)
     \/ ~(chats[c].step /\ cache > moment) /\ ChatGoesOn(c, "upstream")
  /\ cache' = IF chats[c].step /\ cache <= moment THEN 0 ELSE cache
  /\ UNCHANGED <<moment, buckets, windows, asks, viewers, ratePast>>

\* The upstream answers: an error, a whole answer that is remembered for the step
\* (rememberSuccessfulStep), or a stream.
UpstreamAnswers(c) ==
  /\ chats[c].pc = "upstream"
  /\ \/ Ends(c) /\ UNCHANGED cache
     \/ Ends(c) /\ chats[c].step /\ cache' = moment + StepTtl
     \/ ChatGoesOn(c, "stream") /\ UNCHANGED cache
  /\ UNCHANGED <<moment, buckets, windows, asks, viewers, ratePast>>

\* The upstream ends its stream or breaks it; the client's leaving ends nothing (writePayload).
StreamEnds(c) ==
  /\ chats[c].pc = "stream" /\ Ends(c)
  /\ UNCHANGED <<moment, buckets, cache, windows, asks, viewers, ratePast>>

-----------------------------------------------------------------------------
(* The API of the control plane. *)

User == <<"api", "user">>
\* consumeRateLimit reads the clock and asks Redis.
AskArrives ==
  /\ ratePast.asks < MaxAsks
  /\ asks' = Joined(asks, ratePast.asks + 1, moment)
  /\ ratePast' = [ratePast EXCEPT !.asks = @ + 1]
  /\ UNCHANGED <<moment, buckets, inflight, chats, cache, windows, viewers>>

\* consumeRedisWindow: INCR of the window of the moment the request came.
RedisCounts(a) ==
  LET w == WindowOf(asks[a])
      ok == windows[w] + 1 <= PerWindow["api"]
  IN /\ windows' = [windows EXCEPT ![w] = @ + 1]
     /\ asks' = Restrict(asks, DOMAIN asks \ {a})
     /\ ratePast' = IF ok THEN [ratePast EXCEPT
                                  !.admitted = @ \o Admits(User, asks[a], "redis")]
                    ELSE ratePast
     /\ UNCHANGED <<moment, buckets, inflight, chats, cache, viewers>>

\* Redis fails: the bucket in memory, with the moment at which the request came.
RedisFails(a) ==
  LET at == asks[a]
      ok == Enough(buckets[User], User, at)
  IN /\ buckets' = [buckets EXCEPT ![User] = Consumed(@, User, at)]
     /\ asks' = Restrict(asks, DOMAIN asks \ {a})
     /\ ratePast' = [ratePast EXCEPT
          !.stale = @ \/ at < buckets[User].at,
          !.told = Told(@, User, at, ok),
          !.admitted = @ \o (IF ok THEN Admits(User, at, "bucket") ELSE <<>>)]
     /\ UNCHANGED <<moment, inflight, chats, cache, windows, viewers>>

-----------------------------------------------------------------------------
(* Event streams: GET /v1/runs/<id>/events. *)

Sse == <<"sse", "user">>
\* The request waits for the actor and the run (requireRun).
ViewerComes ==
  /\ ratePast.viewers < MaxViewers
  /\ viewers' = Joined(viewers, ratePast.viewers + 1, [pc |-> "loading", gone |-> FALSE])
  /\ ratePast' = [ratePast EXCEPT !.viewers = @ + 1]
  /\ UNCHANGED <<moment, buckets, inflight, chats, cache, windows, asks>>
Without(v) == Restrict(viewers, DOMAIN viewers \ {v})

\* acquireSseLease, the listener of "close" and attachEventStream.
ViewerServed(v) ==
  /\ viewers[v].pc = "loading"
  /\ IF LeaseLeft(Sse)
     THEN inflight' = [inflight EXCEPT ![Sse] = @ + 1] /\ viewers' = [viewers EXCEPT ![v].pc = "open"]
     ELSE viewers' = Without(v) /\ UNCHANGED inflight
  /\ UNCHANGED <<moment, buckets, chats, cache, windows, asks, ratePast>>

\* The connection closes.  Before the listener is there nobody hears of it.
ViewerLeaves(v) ==
  /\ ~viewers[v].gone
  /\ IF viewers[v].pc = "open"
     THEN inflight' = Released(inflight, {Sse}) /\ viewers' = Without(v)
     ELSE viewers' = [viewers EXCEPT ![v].gone = TRUE] /\ UNCHANGED inflight
  /\ UNCHANGED <<moment, buckets, chats, cache, windows, asks, ratePast>>

Ticks ==
  /\ moment < MaxMoment /\ moment' = moment + 1
  /\ UNCHANGED <<buckets, inflight, chats, cache, windows, asks, viewers, ratePast>>

-----------------------------------------------------------------------------
RateNext ==
  \/ \E s \in Sessions, step \in BOOLEAN : ChatArrives(s, step)
  \/ \E c \in DOMAIN chats : BodyRead(c) \/ UpstreamAnswers(c) \/ StreamEnds(c)
  \/ AskArrives \/ \E a \in DOMAIN asks : RedisCounts(a) \/ RedisFails(a)
  \/ ViewerComes \/ \E v \in DOMAIN viewers : ViewerServed(v) \/ ViewerLeaves(v)
  \/ Ticks

RateSpec == RateInit /\ [][RateNext]_rateVars

-----------------------------------------------------------------------------
(* Properties *)

\* A lease is out for each request that holds it and for no other, and never more than
\* the limit: every way out of a request gives back what it took, also when the run had
\* its lease and the organisation had none left (rate-limit.test.ts: "SSE concurrency
\* leases release so the next subscriber can attach").  Streams whose client left while
\* the run was loaded hold theirs for ever and are counted.
LeasesCounted ==
  /\ \A s \in Sessions : inflight[RunLease(s)] = Cardinality({c \in DOMAIN chats : chats[c].run = s})
  /\ inflight[OrgLease] = Cardinality(DOMAIN chats)
  /\ inflight[Sse] = Cardinality({v \in DOMAIN viewers : viewers[v].pc = "open"})
  /\ \A k \in LeaseKeys : inflight[k] \in 0..AtOnce[k[1]]
LeasesCountedAlways ==
  inflight[Sse] = Cardinality({v \in DOMAIN viewers : viewers[v].pc = "open" /\ ~viewers[v].gone})

\* In any stretch of time a bucket admits at most its burst and what it gains meanwhile
\* (consumeBucket, consumeMemoryBucket), and Redis at most the limit in each of its
\* windows; and a client told to come back in retryAfterMs is let in then, if no other
\* request of its key was, and not a millisecond earlier.  Left out: a request that found
\* Redis failing after a later one had, whose earlier moment sets the bucket's clock back.
Through(adm, k) == {i \in DOMAIN adm : adm[i].by = "bucket" /\ adm[i].key = k}
Within(adm, T, from, to) == {i \in T : adm[i].at \in from..to}
WithinBudget ==
  LET adm == ratePast.admitted
  IN \A k \in BucketKeys : \A i, j \in Through(adm, k) :
       LET from == adm[i].at
           to == adm[j].at
       IN from <= to => Cardinality(Within(adm, Through(adm, k), from, to)) * Window
                          <= Full(k) + (to - from) * PerWindow[k[1]]
ByRedis(adm, w) == {i \in DOMAIN adm : adm[i].by = "redis" /\ WindowOf(adm[i].at) = w}
WithinWindows ==
  \A w \in DOMAIN windows : Cardinality(ByRedis(ratePast.admitted, w)) <= PerWindow["api"]
RetryHonest ==
  \A k \in BucketKeys :
    LET due == ratePast.told[k]
    IN due # -1 => /\ Enough(buckets[k], k, due)
                   /\ due - 1 > buckets[k].at => ~Enough(buckets[k], k, due - 1)
RateHolds == WithinWindows /\ (ratePast.stale \/ (WithinBudget /\ RetryHonest))
RateHoldsAlways == WithinBudget
===============================================================================

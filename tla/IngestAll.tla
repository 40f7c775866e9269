------------------------------ MODULE IngestAll ------------------------------
(***************************************************************************)
(* flows._ingest_all: one pass over every (asset, source) pair in the      *)
(* order of config.yaml, with its two circuit breakers, against providers  *)
(* that may meter requests.  A call is flows.ingest_asset: what it         *)
(* does to bronze is BronzeIngest's subject, here only its outcome and the *)
(* number of requests it spends count.                                     *)
(***************************************************************************)
EXTENDS Integers, FiniteSets

CONSTANTS
  NPairs,       \* pairs, numbered in call order
  SourceOf,     \* SourceOf[p]: the source client of pair p
  Keyed,        \* sources that need an API key (TIINGO_SOURCES)
  AccountOf,    \* AccountOf[s]: the provider account whose quota source s spends, if it is metered
  Quota,        \* Quota[a]: requests account a grants per window
  Leftover,     \* what a run may find left of the quotas: earlier runs and bronze.main spend them too
  MaxTries,     \* request_json's MAX_TRIES
  MaxRetries,   \* retries of the ingest_asset task
  Broken,       \* pairs whose every request is answered with an error
  Flaky,        \* may a healthy pair fail too?
  Refusing      \* sources that may answer 429, 401 or 403 to any request

Pairs == 1 .. NPairs

\* Requests one call of ingest_asset can spend on a page: every attempt retries every 5xx.
\* Only a backfill from coinbase, which asks 300 days at a time, has more pages than one.
CallMax == (MaxRetries + 1) * MaxTries

ASSUME IngestAllAssumption ==
  /\ NPairs \in Nat \ {0} /\ MaxTries \in Nat \ {0} /\ MaxRetries \in Nat
  /\ Flaky \in BOOLEAN /\ Broken \subseteq 1 .. NPairs
  /\ Quota \in [DOMAIN Quota -> Nat]
  /\ Leftover \subseteq [DOMAIN Quota -> Nat]
  /\ \A b \in Leftover : \A a \in DOMAIN Quota : b[a] <= Quota[a]
  /\ \A s \in DOMAIN AccountOf : AccountOf[s] \in DOMAIN Quota

VARIABLES
  next,         \* the pair the loops have come to
  outcome,      \* outcome[p]: what became of p in this run
  hasKey,       \* is TIINGO_API_KEY set in this run?
  budget        \* budget[a]: requests account a still grants

ingestVars == <<next, outcome, hasKey, budget>>

Called == {"ok", "failed", "limited", "auth"}
Outcomes == Called \cup {"waiting", "skipped", "cut", "deferred"}

IngestTypeOK ==
  /\ next \in 1 .. NPairs + 1
  /\ outcome \in [Pairs -> Outcomes]
  /\ hasKey \in BOOLEAN
  /\ budget \in [DOMAIN Quota -> Nat] /\ \A a \in DOMAIN Quota : budget[a] <= Quota[a]

-----------------------------------------------------------------------------

\* auth_failed_sources and limited_sources.
Rejected == {SourceOf[p] : p \in {q \in Pairs : outcome[q] = "auth"}}
Limited == {SourceOf[p] : p \in {q \in Pairs : outcome[q] = "limited"}}

Metered(p) == SourceOf[p] \in DOMAIN AccountOf
Account(p) == AccountOf[SourceOf[p]]

IngestInit ==
  /\ next = 1
  /\ outcome = [p \in Pairs |-> "waiting"]
  /\ hasKey \in BOOLEAN
  /\ budget \in Leftover

\* Mutant: a tripped breaker outlives its run.
BeginPass_Remembers ==
  /\ next' = 1
  /\ outcome' = [p \in Pairs |-> IF outcome[p] = "limited" THEN "limited" ELSE "waiting"]
  /\ hasKey' \in BOOLEAN
  /\ budget' \in Leftover

\* A run begins: the breakers are forgotten, the quotas are what the window still grants.
BeginPass ==
  /\ next' = 1
  /\ outcome' = [p \in Pairs |-> "waiting"]
  /\ hasKey' \in BOOLEAN
  /\ budget' \in Leftover

Becomes(p, o) ==
  /\ outcome' = [outcome EXCEPT ![p] = o]
  /\ next' = next + 1
  /\ UNCHANGED hasKey

\* No key: skipped with a warning, whatever the breakers say.
Skip(p) ==
  /\ SourceOf[p] \in Keyed /\ ~hasKey
  /\ Becomes(p, "skipped") /\ UNCHANGED budget

Reachable(p) == SourceOf[p] \notin Keyed \/ hasKey

\* The source rejected the credential earlier in this pass.
ShortCircuit(p) ==
  /\ Reachable(p) /\ SourceOf[p] \in Rejected
  /\ Becomes(p, "cut") /\ UNCHANGED budget

\* The source answered 429 earlier in this pass.
Defer(p) ==
  /\ Reachable(p) /\ SourceOf[p] \notin Rejected /\ SourceOf[p] \in Limited
  /\ Becomes(p, "deferred") /\ UNCHANGED budget

\* Mutant: only a rejected credential opens the breaker.
MayCall_Limited(p) == Reachable(p) /\ SourceOf[p] \notin Rejected

MayCall(p) == Reachable(p) /\ SourceOf[p] \notin Rejected \cup Limited

Spend(p, n) ==
  IF Metered(p) THEN /\ n <= budget[Account(p)]
                     /\ budget' = [budget EXCEPT ![Account(p)] = @ - n]
  ELSE UNCHANGED budget

\* An empty window succeeds without a request (n = 0), a healthy pair with its last one.
CallSucceeds(p, n) ==
  /\ MayCall(p) /\ (n = 0 \/ p \notin Broken) /\ (n > 1 => Flaky)
  /\ Spend(p, n)
  /\ Becomes(p, "ok")

\* Every attempt fails, after at least one request each where it is the provider that
\* answers with errors; the database or the client may refuse sooner, or without any.
CallFails(p, n) ==
  /\ MayCall(p) /\ (Flaky \/ (p \in Broken /\ n > MaxRetries))
  /\ Spend(p, n)
  /\ Becomes(p, "failed")

\* The account is exhausted before n requests were enough.
Exhausted(p, n) ==
  /\ Metered(p) /\ n = budget[Account(p)] /\ n < CallMax
  /\ n > 0 => p \in Broken \/ Flaky
  /\ p \in Broken /\ ~Flaky => n <= MaxRetries

\* 429, by the meter or for a reason of the provider's own.
CallLimited(p, n) ==
  /\ MayCall(p) /\ (SourceOf[p] \in Refusing \/ Exhausted(p, n))
  /\ Spend(p, n)
  /\ Becomes(p, "limited")

\* 401 or 403.
CallRejected(p, n) ==
  /\ MayCall(p) /\ SourceOf[p] \in Refusing /\ n > 0
  /\ Spend(p, n)
  /\ Becomes(p, "auth")

IngestPair(p) ==
  /\ next = p
  /\ \/ Skip(p) \/ ShortCircuit(p) \/ Defer(p)
     \/ \E n \in 0 .. CallMax :
          CallSucceeds(p, n) \/ CallFails(p, n) \/ CallLimited(p, n) \/ CallRejected(p, n)

IngestPass == \E p \in Pairs : IngestPair(p)

PassDone == next > NPairs

PassNext == IngestPass \/ (PassDone /\ BeginPass)

PassSpec == IngestInit /\ [][PassNext]_ingestVars

\* The flow runs daily and works through its pairs; the key stays configured.
FairPassSpec == PassSpec /\ WF_ingestVars(PassNext) /\ []hasKey

-----------------------------------------------------------------------------

\* Behind a refusal no pair of the same source is asked again in the run: no call,
\* so no further request, no second refusal and no retry against it.
BreakerHolds ==
  \A p, q \in Pairs :
    /\ p < q /\ SourceOf[p] = SourceOf[q] /\ outcome[p] \in {"limited", "auth"}
    => outcome[q] \notin Called

\* What is not asked has its reason in this very run: no key, or a refusal by its own
\* source earlier on.  No breaker outlives its run or reaches another source.
OnlyRefusalsDefer ==
  \A p \in Pairs :
    /\ outcome[p] = "skipped" => SourceOf[p] \in Keyed /\ ~hasKey
    /\ outcome[p] = "deferred" => \E q \in 1 .. p - 1 : SourceOf[q] = SourceOf[p] /\ outcome[q] = "limited"
    /\ outcome[p] = "cut" => \E q \in 1 .. p - 1 : SourceOf[q] = SourceOf[p] /\ outcome[q] = "auth"

\* The invariant of the pass: the pairs the loops have not come to have no outcome yet,
\* so a refusal can only be followed by pairs that are still to be decided.
PassInv ==
  /\ IngestTypeOK
  /\ \A p \in Pairs : p >= next => outcome[p] = "waiting"
  /\ BreakerHolds
  /\ OnlyRefusalsDefer

\* "They resume on the next run": a deferred pair that is not itself broken is
\* ingested again some day.
DeferredResumes ==
  \A p \in Pairs \ Broken : outcome[p] = "deferred" ~> outcome[p] = "ok"
=============================================================================

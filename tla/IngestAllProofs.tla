--------------------------- MODULE IngestAllProofs ---------------------------
(***************************************************************************)
(* The circuit breakers hold for every number of pairs, sources, accounts  *)
(* and every quota.                                                        *)
(***************************************************************************)
EXTENDS IngestAll, TLAPS

LEMMA BecomesKeepsTypes ==
  ASSUME IngestTypeOK, NEW p \in Pairs, next = p, NEW o \in Outcomes, Becomes(p, o),
         \/ UNCHANGED budget
         \/ \E n \in Nat : Spend(p, n)
  PROVE  IngestTypeOK'
<1>1. next' \in 1 .. NPairs + 1
  BY IngestAllAssumption DEF IngestTypeOK, Becomes, Pairs
<1>2. outcome' \in [Pairs -> Outcomes]
  BY DEF IngestTypeOK, Becomes
<1>3. budget' \in [DOMAIN Quota -> Nat] /\ \A a \in DOMAIN Quota : budget'[a] <= Quota[a]
  <2>1. CASE UNCHANGED budget
    BY <2>1 DEF IngestTypeOK
  <2>2. ASSUME NEW n \in Nat, Spend(p, n)
        PROVE  budget' \in [DOMAIN Quota -> Nat] /\ \A a \in DOMAIN Quota : budget'[a] <= Quota[a]
    <3>1. budget \in [DOMAIN Quota -> Nat] /\ \A a \in DOMAIN Quota : budget[a] <= Quota[a]
      BY DEF IngestTypeOK
    <3>2. CASE ~Metered(p)
      BY <2>2, <3>1, <3>2 DEF Spend
    <3>3. CASE Metered(p)
      <4>1. Account(p) \in DOMAIN Quota /\ Quota \in [DOMAIN Quota -> Nat]
        BY <3>3, IngestAllAssumption DEF Account, Metered
      <4>2. n <= budget[Account(p)] /\ budget' = [budget EXCEPT ![Account(p)] = @ - n]
        BY <2>2, <3>3 DEF Spend
      <4>3. budget[Account(p)] - n \in Nat /\ budget[Account(p)] - n <= Quota[Account(p)]
        BY <3>1, <4>1, <4>2
      <4> QED
        BY <3>1, <4>1, <4>2, <4>3
    <3> QED
      BY <3>2, <3>3
  <2> QED
    BY <2>1, <2>2
<1> QED
  BY <1>1, <1>2, <1>3 DEF IngestTypeOK, Becomes

\* Deciding pair p keeps the breakers closed as long as it was called only if it might be.
LEMMA BecomesKeepsBreakers ==
  ASSUME PassInv, NEW p \in Pairs, next = p, NEW o, Becomes(p, o), o \in Called => MayCall(p)
  PROVE  /\ \A q \in Pairs : q >= next' => outcome'[q] = "waiting"
         /\ BreakerHolds'
<1>1. outcome \in [Pairs -> Outcomes] /\ Pairs \subseteq Int
  BY IngestAllAssumption DEF PassInv, IngestTypeOK, Pairs
<1>2. outcome' = [outcome EXCEPT ![p] = o] /\ next' = p + 1
  BY DEF Becomes
<1>3. \A q \in Pairs : q >= p => outcome[q] = "waiting"
  BY DEF PassInv
<1>4. \A q \in Pairs : q >= next' => outcome'[q] = "waiting"
  BY <1>1, <1>2, <1>3
<1>5. ASSUME NEW r \in Pairs, NEW q \in Pairs, r < q, SourceOf[r] = SourceOf[q],
             outcome'[r] \in {"limited", "auth"}
      PROVE  outcome'[q] \notin Called
  <2>1. CASE q = p
    <3>1. outcome'[r] = outcome[r]
      BY <1>1, <1>2, <1>5, <2>1
    <3>2. SourceOf[r] \in Rejected \cup Limited
      BY <1>5, <3>1 DEF Rejected, Limited
    <3> QED
      BY <1>1, <1>2, <1>5, <2>1, <3>2 DEF MayCall
  <2>2. CASE q > p
    BY <1>1, <1>2, <1>3, <2>2 DEF Called
  <2>3. CASE q < p
    <3>1. outcome'[r] = outcome[r] /\ outcome'[q] = outcome[q]
      BY <1>1, <1>2, <1>5, <2>3
    <3> QED
      BY <1>5, <3>1 DEF PassInv, BreakerHolds
  <2> QED
    BY <1>1, <2>1, <2>2, <2>3
<1> QED
  BY <1>4, <1>5 DEF BreakerHolds

\* A refusal the breakers know of lies behind the pair the loops have come to.
LEMMA BecomesKeepsReasons ==
  ASSUME PassInv, NEW p \in Pairs, next = p, NEW o, Becomes(p, o),
         o = "skipped" => SourceOf[p] \in Keyed /\ ~hasKey,
         o = "deferred" => SourceOf[p] \in Limited,
         o = "cut" => SourceOf[p] \in Rejected
  PROVE  OnlyRefusalsDefer'
<1>1. outcome \in [Pairs -> Outcomes] /\ Pairs = 1 .. NPairs /\ NPairs \in Nat
  BY IngestAllAssumption DEF PassInv, IngestTypeOK, Pairs
<1>2. outcome' = [outcome EXCEPT ![p] = o] /\ hasKey' = hasKey
  BY DEF Becomes
<1>3. \A q \in Pairs : q >= p => outcome[q] = "waiting"
  BY DEF PassInv
<1>4. \A q \in 1 .. p - 1 : q \in Pairs /\ outcome'[q] = outcome[q]
  BY <1>1, <1>2
<1>5. ASSUME NEW q \in Pairs, q # p
      PROVE  /\ outcome'[q] = "skipped" => SourceOf[q] \in Keyed /\ ~hasKey'
             /\ outcome'[q] = "deferred" =>
                  \E r \in 1 .. q - 1 : SourceOf[r] = SourceOf[q] /\ outcome'[r] = "limited"
             /\ outcome'[q] = "cut" =>
                  \E r \in 1 .. q - 1 : SourceOf[r] = SourceOf[q] /\ outcome'[r] = "auth"
  <2>1. outcome'[q] = outcome[q]
    BY <1>1, <1>2, <1>5
  <2>2. CASE q > p
    BY <1>1, <1>3, <2>1, <2>2
  <2>3. CASE q < p
    <3>1. \A r \in 1 .. q - 1 : r \in 1 .. p - 1
      BY <1>1, <2>3
    <3> QED
      BY <1>2, <1>4, <1>5, <2>1, <3>1 DEF PassInv, OnlyRefusalsDefer
  <2> QED
    BY <1>1, <1>5, <2>2, <2>3
<1>6. \A q \in Pairs : outcome[q] \in {"auth", "limited"} => q \in 1 .. p - 1
  BY <1>1, <1>3
<1>7. /\ o = "deferred" => \E r \in 1 .. p - 1 : SourceOf[r] = SourceOf[p] /\ outcome'[r] = "limited"
      /\ o = "cut" => \E r \in 1 .. p - 1 : SourceOf[r] = SourceOf[p] /\ outcome'[r] = "auth"
  <2>1. ASSUME o = "deferred"
        PROVE  \E r \in 1 .. p - 1 : SourceOf[r] = SourceOf[p] /\ outcome'[r] = "limited"
    <3>1. PICK q \in Pairs : outcome[q] = "limited" /\ SourceOf[q] = SourceOf[p]
      BY <2>1 DEF Limited
    <3> QED
      BY <1>4, <1>6, <3>1
  <2>2. ASSUME o = "cut"
        PROVE  \E r \in 1 .. p - 1 : SourceOf[r] = SourceOf[p] /\ outcome'[r] = "auth"
    <3>1. PICK q \in Pairs : outcome[q] = "auth" /\ SourceOf[q] = SourceOf[p]
      BY <2>2 DEF Rejected
    <3> QED
      BY <1>4, <1>6, <3>1
  <2> QED
    BY <2>1, <2>2
<1>8. outcome'[p] = o
  BY <1>1, <1>2
<1> QED
  BY <1>2, <1>5, <1>7, <1>8 DEF OnlyRefusalsDefer

LEMMA BeginPassInv == IngestTypeOK /\ BeginPass => PassInv'
<1> SUFFICES ASSUME IngestTypeOK, BeginPass PROVE PassInv'
  OBVIOUS
<1>1. IngestTypeOK'
  BY IngestAllAssumption DEF BeginPass, IngestTypeOK, Outcomes
<1>2. \A p \in Pairs : outcome'[p] = "waiting"
  BY DEF BeginPass
<1> QED
  BY <1>1, <1>2 DEF PassInv, BreakerHolds, OnlyRefusalsDefer

LEMMA IngestPairInv ==
  ASSUME PassInv, NEW p \in Pairs, IngestPair(p)
  PROVE  PassInv'
<1>1. next = p /\ IngestTypeOK
  BY DEF IngestPair, PassInv
<1>2. CallMax \in Nat
  BY IngestAllAssumption DEF CallMax
<1>3. PICK o \in Outcomes :
         /\ Becomes(p, o)
         /\ UNCHANGED budget \/ \E n \in Nat : Spend(p, n)
         /\ o \in Called => MayCall(p)
         /\ o = "skipped" => SourceOf[p] \in Keyed /\ ~hasKey
         /\ o = "deferred" => SourceOf[p] \in Limited
         /\ o = "cut" => SourceOf[p] \in Rejected
  <2>1. CASE Skip(p)
    BY <2>1 DEF Skip, Outcomes, Called
  <2>2. CASE ShortCircuit(p)
    BY <2>2 DEF ShortCircuit, Outcomes, Called
  <2>3. CASE Defer(p)
    BY <2>3 DEF Defer, Outcomes, Called
  <2>4. ASSUME NEW n \in 0 .. CallMax,
               CallSucceeds(p, n) \/ CallFails(p, n) \/ CallLimited(p, n) \/ CallRejected(p, n)
        PROVE  \E o \in Called : Becomes(p, o) /\ Spend(p, n) /\ MayCall(p)
    BY <2>4 DEF CallSucceeds, CallFails, CallLimited, CallRejected, Called
  <2>5. \A n \in 0 .. CallMax : n \in Nat
    BY <1>2
  <2> QED
    BY <2>1, <2>2, <2>3, <2>4, <2>5 DEF IngestPair, Outcomes, Called
<1>4. IngestTypeOK'
  BY <1>1, <1>3, BecomesKeepsTypes
<1> QED
  BY <1>1, <1>3, <1>4, BecomesKeepsBreakers, BecomesKeepsReasons DEF PassInv

LEMMA PassInvHolds == PassSpec => []PassInv
<1>1. IngestInit => PassInv
  <2> SUFFICES ASSUME IngestInit PROVE PassInv
    OBVIOUS
  <2>1. IngestTypeOK
    BY IngestAllAssumption DEF IngestInit, IngestTypeOK, Outcomes
  <2> QED
    BY <2>1 DEF IngestInit, PassInv, BreakerHolds, OnlyRefusalsDefer
<1>2. PassInv /\ [PassNext]_ingestVars => PassInv'
  <2> SUFFICES ASSUME PassInv, [PassNext]_ingestVars PROVE PassInv'
    OBVIOUS
  <2>1. CASE IngestPass
    BY <2>1, IngestPairInv DEF IngestPass
  <2>2. CASE BeginPass
    BY <2>2, BeginPassInv DEF PassInv
  <2>3. CASE UNCHANGED ingestVars
    BY <2>3 DEF ingestVars, PassInv, IngestTypeOK, BreakerHolds, OnlyRefusalsDefer
  <2> QED
    BY <2>1, <2>2, <2>3 DEF PassNext
<1> QED
  BY <1>1, <1>2, PTL DEF PassSpec

\* No account is ever asked for more than it grants, and the loops end behind the last pair.
THEOREM PassTypeCorrect == PassSpec => []IngestTypeOK
<1>1. PassInv => IngestTypeOK
  BY DEF PassInv
<1> QED
  BY <1>1, PassInvHolds, PTL

\* Behind a 429 or a rejected credential no pair of the same source is called again in
\* the pass.
THEOREM BreakersHold == PassSpec => []BreakerHolds
<1>1. PassInv => BreakerHolds
  BY DEF PassInv
<1> QED
  BY <1>1, PassInvHolds, PTL

\* Every pair that is not called has its reason in the same pass.
THEOREM OnlyRefusalsStop == PassSpec => []OnlyRefusalsDefer
<1>1. PassInv => OnlyRefusalsDefer
  BY DEF PassInv
<1> QED
  BY <1>1, PassInvHolds, PTL
=============================================================================

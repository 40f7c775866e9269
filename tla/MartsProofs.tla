----------------------------- MODULE MartsProofs -----------------------------
(***************************************************************************)
(* The published shares lie in [0, 1] for every number of variants and     *)
(* every measurement.  The argument is one about NULL: what beats buy and  *)
(* hold in a window was measured there.  And what an index over its byte   *)
(* budget keeps is the best there is: the ranking is a strict total order. *)
(* The last part is what SQL's AND makes of a window nobody traded in.     *)
(***************************************************************************)
EXTENDS Marts, FiniteSetTheorems, WellFoundedInduction, TLAPS

LEMMA TrueConjunct ==
  ASSUME NEW a, NEW b, And3(a, b) = TRUE
  PROVE  a # Null
<1>1. Null # TRUE /\ Null # FALSE
  BY MartsAssumption
<1>2. CASE a = Null
  <2>1. And3(a, b) \in {FALSE, Null}
    BY <1>2 DEF And3
  <2> QED
    BY <1>1, <2>1
<1> QED
  BY <1>2

\* A comparison that is TRUE had two numbers to compare, so the excess is a number.
LEMMA BeatsIsMeasured ==
  ASSUME NEW w \in Window, Beats(w) = TRUE
  PROVE  Excess(w) # Null
<1>1. w.ret # Null /\ w.hold # Null
  <2>1. Greater3(w.ret, w.hold) # Null
    BY TrueConjunct DEF Beats
  <2> QED
    BY <2>1 DEF Greater3
<1>2. w \in Measures
  BY <1>1 DEF Window, NotMeasured
<1>3. w.ret \in Int /\ w.hold \in Int
  BY <1>2, MartsAssumption DEF EngineCan
<1>4. w.ret - w.hold \in Int
  BY <1>3
<1> QED
  BY <1>1, <1>4, MartsAssumption DEF Excess, Minus3

\* A variant that beat buy and hold both in and out of sample has a drop.
LEMMA SurvivorHasDrop ==
  ASSUME NEW u \in Window, NEW w \in Window, Beats(u) = TRUE, Beats(w) = TRUE
  PROVE  Minus3(Excess(u), Excess(w)) # Null
<1>1. Excess(u) # Null /\ Excess(w) # Null
  BY BeatsIsMeasured
<1>2. \A x \in Window : Excess(x) # Null => Excess(x) \in Int
  BY MartsAssumption DEF Excess, Minus3, Window, NotMeasured, EngineCan
<1>3. Excess(u) - Excess(w) \in Int
  BY <1>1, <1>2
<1> QED
  BY <1>1, <1>3, MartsAssumption DEF Minus3

LEMMA CountsAreNested ==
  ASSUME TypeOK, NEW S \in SUBSET Ran
  PROVE  /\ Survivors(S) \subseteq ScoredWinners(S)
         /\ ScoredWinners(S) \subseteq Winners(S)
         /\ Winners(S) \subseteq Evaluated(S, "is_excess")
         /\ Won(S, "beat_bh_oos") \subseteq Evaluated(S, "oos_excess")
         /\ Won(S, "beat_bh_full") \subseteq Evaluated(S, "excess")
         /\ Survivors(S) \subseteq Evaluated(S, "drop")
<1>1. ASSUME NEW v \in S
      PROVE  /\ Mart[v]["excess"] = Excess(latest[v].full)
             /\ Mart[v]["is_excess"] = Excess(latest[v].is)
             /\ Mart[v]["oos_excess"] = Excess(latest[v].oos)
             /\ Mart[v]["drop"] = Minus3(Excess(latest[v].is), Excess(latest[v].oos))
             /\ Mart[v]["beat_bh_full"] = Beats(latest[v].full)
             /\ Mart[v]["beat_bh_is"] = Beats(latest[v].is)
             /\ Mart[v]["beat_bh_oos"] = Beats(latest[v].oos)
  BY <1>1 DEF Mart
<1>2. ASSUME NEW v \in S
      PROVE  /\ latest[v].full \in Window /\ latest[v].is \in Window /\ latest[v].oos \in Window
  <2>1. latest[v] \in Row
    BY <1>2 DEF TypeOK, Ran
  <2> QED
    BY <2>1 DEF Row, Window
<1>3. ASSUME NEW v \in S, Mart[v]["beat_bh_full"] = TRUE PROVE Mart[v]["excess"] # Null
  <2>1. Beats(latest[v].full) = TRUE
    BY <1>1, <1>3, Zenon
  <2>2. Excess(latest[v].full) # Null
    BY <1>2, <2>1, BeatsIsMeasured
  <2> QED
    BY <1>1, <2>2, Zenon
<1>4. ASSUME NEW v \in S, Mart[v]["beat_bh_is"] = TRUE PROVE Mart[v]["is_excess"] # Null
  <2>1. Beats(latest[v].is) = TRUE
    BY <1>1, <1>4, Zenon
  <2>2. Excess(latest[v].is) # Null
    BY <1>2, <2>1, BeatsIsMeasured
  <2> QED
    BY <1>1, <2>2, Zenon
<1>5. ASSUME NEW v \in S, Mart[v]["beat_bh_oos"] = TRUE PROVE Mart[v]["oos_excess"] # Null
  <2>1. Beats(latest[v].oos) = TRUE
    BY <1>1, <1>5, Zenon
  <2>2. Excess(latest[v].oos) # Null
    BY <1>2, <2>1, BeatsIsMeasured
  <2> QED
    BY <1>1, <2>2, Zenon
<1>6. ASSUME NEW v \in S, Mart[v]["beat_bh_is"] = TRUE, Mart[v]["beat_bh_oos"] = TRUE
      PROVE  Mart[v]["drop"] # Null
  <2>1. Beats(latest[v].is) = TRUE /\ Beats(latest[v].oos) = TRUE
    BY <1>1, <1>6, Zenon
  <2>2. Minus3(Excess(latest[v].is), Excess(latest[v].oos)) # Null
    BY <1>2, <2>1, SurvivorHasDrop
  <2> QED
    BY <1>1, <2>2, Zenon
<1>7. /\ Won(S, "beat_bh_full") \subseteq Evaluated(S, "excess")
      /\ Won(S, "beat_bh_oos") \subseteq Evaluated(S, "oos_excess")
      /\ Winners(S) \subseteq Evaluated(S, "is_excess")
  BY <1>3, <1>4, <1>5, Zenon DEF Winners, Won, Evaluated
<1>8. /\ Survivors(S) \subseteq ScoredWinners(S) /\ ScoredWinners(S) \subseteq Winners(S)
      /\ Survivors(S) \subseteq Evaluated(S, "drop")
  BY <1>5, <1>6, Zenon DEF Survivors, ScoredWinners, Winners, Won, Evaluated
<1> QED
  BY <1>7, <1>8

\* What a row of gold may hold: a measurement of the engine or, for a window, none.
THEOREM TypeCorrect == Spec => []TypeOK
<1>1. Init => TypeOK
  BY DEF Init, TypeOK
<1>2. TypeOK /\ [Next]_vars => TypeOK'
  BY DEF TypeOK, Next, Backtest, BuildMarts, vars
<1> QED
  BY <1>1, <1>2, PTL DEF Spec

\* Every published share of the two marts lies in [0, 1], whatever was measured.
THEOREM SharesAreShares == Spec => []RatesAreShares
<1>1. TypeOK => RatesAreShares
  <2> SUFFICES ASSUME TypeOK, NEW S \in Groups
               PROVE  LET c == Counts(S)
                      IN /\ c.n_beat_is_and_oos <= c.n_beat_is_scored_oos
                         /\ c.n_beat_is_scored_oos <= c.n_beat_is
                         /\ c.n_beat_is <= c.n_evaluated_is
                         /\ c.n_beat_oos <= c.n_evaluated_oos
                         /\ c.n_beat_full <= c.n_evaluated_full
                         /\ c.n_beat_is_and_oos <= c.n_evaluated_both
    BY DEF RatesAreShares
  <2>1. S \in SUBSET Ran /\ IsFiniteSet(S)
    <3>1. S \in SUBSET Ran
      BY DEF Groups, Overall, BySize, ByClass
    <3>2. IsFiniteSet(Ran)
      BY MartsAssumption, FS_Subset DEF Ran
    <3> QED
      BY <3>1, <3>2, FS_Subset
  <2>2. \A T, U : T \subseteq U /\ U \subseteq S => Cardinality(T) <= Cardinality(U)
    BY <2>1, FS_Subset
  <2>3. /\ Winners(S) \subseteq S /\ ScoredWinners(S) \subseteq S
        /\ \A column : Evaluated(S, column) \subseteq S
    BY DEF Winners, ScoredWinners, Won, Evaluated
  <2>4. /\ Cardinality(Survivors(S)) <= Cardinality(ScoredWinners(S))
        /\ Cardinality(ScoredWinners(S)) <= Cardinality(Winners(S))
        /\ Cardinality(Winners(S)) <= Cardinality(Evaluated(S, "is_excess"))
        /\ Cardinality(Won(S, "beat_bh_oos")) <= Cardinality(Evaluated(S, "oos_excess"))
        /\ Cardinality(Won(S, "beat_bh_full")) <= Cardinality(Evaluated(S, "excess"))
        /\ Cardinality(Survivors(S)) <= Cardinality(Evaluated(S, "drop"))
    BY <2>1, <2>2, <2>3, CountsAreNested
  <2> QED
    BY <2>4 DEF Counts
<1> QED
  BY <1>1, TypeCorrect, PTL

\* The out-of-sample rates of a group do not see its variants without an out-of-sample
\* measurement, whatever else was measured of them.
THEOREM UnscoredVariantsDoNotCount == Spec => []UnscoredIsNotADeath
<1>1. TypeOK => UnscoredIsNotADeath
  <2> SUFFICES ASSUME TypeOK, NEW S \in Groups
               PROVE  LET scored == Rates(Evaluated(S, "oos_excess"))
                      IN /\ scored.oos_survival_rate = Rates(S).oos_survival_rate
                         /\ scored.share_beat_oos = Rates(S).share_beat_oos
                         /\ scored.share_beat_is_and_oos = Rates(S).share_beat_is_and_oos
    BY DEF UnscoredIsNotADeath
  <2> DEFINE T == Evaluated(S, "oos_excess")
  <2>1. S \in SUBSET Ran
    BY DEF Groups, Overall, BySize, ByClass
  <2>2. T \subseteq S /\ \A v \in S : Mart[v]["oos_excess"] # Null <=> v \in T
    BY DEF Evaluated
  <2>3. Won(S, "beat_bh_oos") \subseteq T
    BY <2>1, CountsAreNested
  <2>4. ASSUME NEW v \in S, Mart[v]["drop"] # Null PROVE v \in T
    <3>1. /\ Mart[v]["drop"] = Minus3(Excess(latest[v].is), Excess(latest[v].oos))
          /\ Mart[v]["oos_excess"] = Excess(latest[v].oos)
      BY <2>1, <2>4 DEF Mart
    <3>2. Excess(latest[v].oos) # Null
      BY <2>4, <3>1 DEF Minus3
    <3> QED
      BY <2>2, <3>1, <3>2
  <2> HIDE DEF T
  <2>5. Won(T, "beat_bh_oos") = Won(S, "beat_bh_oos")
    BY <2>2, <2>3, Zenon DEF Won
  <2>6. Evaluated(T, "oos_excess") = Evaluated(S, "oos_excess")
    BY <2>2, Zenon DEF Evaluated
  <2>7. Evaluated(T, "drop") = Evaluated(S, "drop")
    BY <2>2, <2>4, Zenon DEF Evaluated
  <2>8. Survivors(T) = Survivors(S)
    BY <2>2, <2>3, Zenon DEF Survivors, Winners, Won
  <2>9. ScoredWinners(T) = ScoredWinners(S)
    BY <2>2, Zenon DEF ScoredWinners, Winners, Won
  <2>10. /\ Rates(T).oos_survival_rate = Rates(S).oos_survival_rate
         /\ Rates(T).share_beat_oos = Rates(S).share_beat_oos
         /\ Rates(T).share_beat_is_and_oos = Rates(S).share_beat_is_and_oos
    BY <2>5, <2>6, <2>7, <2>8, <2>9 DEF Rates, Counts
  <2> QED
    BY <2>10 DEF T
<1> QED
  BY <1>1, TypeCorrect, PTL

\* Where a round trip was completed, the mart's verdict and export.py's are the same.
LEMMA VerdictsAgree ==
  ASSUME NEW w \in Window, Traded(w)
  PROVE  Beats(w) = Derived(w)
<1>1. w \in Measures
  BY DEF Window, NotMeasured, Traded, Coalesce
<1>2. /\ w.ret \in Int /\ w.hold \in Int /\ w.trades \in Int
      /\ w.ret # Null /\ w.hold # Null /\ w.trades # Null /\ w.ret - w.hold # Null
  BY <1>1, MartsAssumption DEF EngineCan
<1>3. Null # TRUE /\ Null # FALSE
  BY MartsAssumption
<1>4. CASE w.ret > w.hold
  <2>1. Greater3(w.ret, w.hold) = TRUE /\ Greater3(Coalesce(w.trades, 0), 0) = TRUE
    <3>1. Coalesce(w.trades, 0) = w.trades /\ w.trades > 0 /\ 0 # Null
      BY <1>2, MartsAssumption DEF Coalesce, Traded
    <3> QED
      BY <1>2, <1>4, <3>1 DEF Greater3
  <2>2. Beats(w) = TRUE
    BY <1>3, <2>1, Zenon DEF Beats, And3
  <2>3. Derived(w) = TRUE
    BY <1>2, <1>4, MartsAssumption DEF Derived, Excess, Minus3, Greater3
  <2> QED
    BY <2>2, <2>3
<1>5. CASE ~(w.ret > w.hold)
  <2>1. Greater3(w.ret, w.hold) = FALSE
    BY <1>2, <1>5 DEF Greater3
  <2>2. Beats(w) = FALSE
    BY <2>1, Zenon DEF Beats, And3
  <2>3. Derived(w) = FALSE
    BY <1>2, <1>5, MartsAssumption DEF Derived, Excess, Minus3, Greater3
  <2> QED
    BY <2>2, <2>3
<1> QED
  BY <1>4, <1>5

\* The first build of the marts changes no verdict on a traded window, for any number of
\* variants and whatever was measured.
THEOREM VerdictsSurviveTheSwitch == Spec => SwitchKeepsVerdicts
<1> DEFINE Keeps ==
      \A v \in Ran :
        /\ Traded(latest[v].full) => Entry(v).beat_bh_full' = Entry(v).beat_bh_full
        /\ Traded(latest[v].oos) => Entry(v).beat_bh_oos' = Entry(v).beat_bh_oos
<1>1. TypeOK /\ [Next]_vars => [Keeps]_martExists
  <2> SUFFICES ASSUME TypeOK, [Next]_vars, martExists' # martExists, NEW v \in Ran
               PROVE  /\ Traded(latest[v].full) => Entry(v).beat_bh_full' = Entry(v).beat_bh_full
                      /\ Traded(latest[v].oos) => Entry(v).beat_bh_oos' = Entry(v).beat_bh_oos
    OBVIOUS
  <2>1. ~martExists /\ martExists' = TRUE /\ latest' = latest
    BY DEF Next, Backtest, BuildMarts, vars
  <2>2. v \in Ran' /\ latest'[v] = latest[v]
    BY <2>1 DEF Ran
  <2>3. latest[v].full \in Window /\ latest[v].oos \in Window
    BY DEF TypeOK, Ran, Row, Window
  <2>4. /\ Entry(v).beat_bh_full = Derived(latest[v].full)
        /\ Entry(v).beat_bh_oos = Derived(latest[v].oos)
    BY <2>1 DEF Entry
  <2>5. /\ Entry(v).beat_bh_full' = Mart'[v].beat_bh_full
        /\ Entry(v).beat_bh_oos' = Mart'[v].beat_bh_oos
    BY <2>1 DEF Entry
  <2>6. /\ Mart'[v].beat_bh_full = Beats(latest[v].full)
        /\ Mart'[v].beat_bh_oos = Beats(latest[v].oos)
    BY <2>2 DEF Mart
  <2> QED
    BY <2>3, <2>4, <2>5, <2>6, VerdictsAgree, Zenon
<1> QED
  BY <1>1, TypeCorrect, PTL DEF Spec, SwitchKeepsVerdicts

-----------------------------------------------------------------------------
(* The index over its byte budget *)

Better(s, v) == {u \in EntriesOf(s) : Outranks(u, v)}

LEMMA EntryTypes ==
  ASSUME TypeOK, NEW s
  PROVE  /\ EntriesOf(s) \subseteq Variants /\ EntriesOf(s) \subseteq Nat /\ IsFiniteSet(EntriesOf(s))
         /\ \A v \in EntriesOf(s) :
              /\ OosExcess(v) \in Int \cup {Null}
              /\ IsFiniteSet(Better(s, v)) /\ Cardinality(Better(s, v)) \in Nat
<1>1. EntriesOf(s) \subseteq Variants /\ EntriesOf(s) \subseteq Nat /\ IsFiniteSet(EntriesOf(s))
  <2>1. EntriesOf(s) \subseteq Variants
    BY DEF EntriesOf, Ran
  <2> QED
    BY <2>1, FS_Subset, MartsAssumption
<1>2. ASSUME NEW v \in EntriesOf(s) PROVE OosExcess(v) \in Int \cup {Null}
  <2>1. v \in Ran
    BY DEF EntriesOf
  <2>2. latest[v].oos \in Window
    BY <2>1 DEF TypeOK, Ran, Row
  <2>3. OosExcess(v) = Excess(latest[v].oos)
    BY <2>1 DEF OosExcess, Mart
  <2>4. \A w \in Window : (w.ret \in Int /\ w.hold \in Int) \/ w.ret = Null
    BY MartsAssumption DEF Window, NotMeasured, EngineCan
  <2> QED
    BY <2>2, <2>3, <2>4 DEF Excess, Minus3
<1>3. ASSUME NEW v \in EntriesOf(s)
      PROVE  IsFiniteSet(Better(s, v)) /\ Cardinality(Better(s, v)) \in Nat
  BY <1>1, FS_Subset, FS_CardinalityType DEF Better
<1> QED
  BY <1>1, <1>2, <1>3

\* The ranking is a strict total order.
LEMMA RankingIsTotal ==
  ASSUME TypeOK, NEW s
  PROVE  /\ \A u \in EntriesOf(s) : ~Outranks(u, u)
         /\ \A u, v \in EntriesOf(s) : u = v \/ Outranks(u, v) \/ Outranks(v, u)
         /\ \A u, v, w \in EntriesOf(s) : Outranks(u, v) /\ Outranks(v, w) => Outranks(u, w)
<1>1. /\ \A v \in EntriesOf(s) : v \in Nat /\ (OosExcess(v) \in Int \/ OosExcess(v) = Null)
      /\ Null \notin Int
  BY EntryTypes, MartsAssumption
<1>2. \A u \in EntriesOf(s) : ~Outranks(u, u)
  BY <1>1 DEF Outranks
<1>3. \A u, v \in EntriesOf(s) : u = v \/ Outranks(u, v) \/ Outranks(v, u)
  BY <1>1 DEF Outranks
<1>4. \A u, v, w \in EntriesOf(s) : Outranks(u, v) /\ Outranks(v, w) => Outranks(u, w)
  BY <1>1 DEF Outranks
<1> QED
  BY <1>2, <1>3, <1>4

\* So the better of two has fewer that are better.
LEMMA BetterRanksLower ==
  ASSUME TypeOK, NEW s, NEW u \in EntriesOf(s), NEW v \in EntriesOf(s), Outranks(u, v)
  PROVE  Cardinality(Better(s, u)) < Cardinality(Better(s, v))
<1>1. Better(s, u) \cup {u} \subseteq Better(s, v) /\ u \notin Better(s, u)
  BY RankingIsTotal DEF Better
<1>2. /\ IsFiniteSet(Better(s, u)) /\ Cardinality(Better(s, u)) \in Nat
      /\ IsFiniteSet(Better(s, v)) /\ Cardinality(Better(s, v)) \in Nat
  BY EntryTypes
<1>3. Cardinality(Better(s, u) \cup {u}) = Cardinality(Better(s, u)) + 1
  BY <1>1, <1>2, FS_AddElement
<1>4. Cardinality(Better(s, u) \cup {u}) <= Cardinality(Better(s, v))
  BY <1>1, <1>2, FS_Subset
<1> QED
  BY <1>2, <1>3, <1>4

\* Places are distinct, so no more than Top are kept.
LEMMA AtMostTop ==
  ASSUME TypeOK, NEW s
  PROVE  IsFiniteSet(Kept(s)) /\ Cardinality(Kept(s)) \in Nat /\ Cardinality(Kept(s)) <= Top
<1> DEFINE place == [v \in Kept(s) |-> Cardinality(Better(s, v))]
<1>1. \A v \in Kept(s) : v \in EntriesOf(s) /\ Cardinality(Better(s, v)) < Top
  BY DEF Kept, Better
<1>2. Top \in Nat /\ \A v \in EntriesOf(s) : Cardinality(Better(s, v)) \in Nat
  BY EntryTypes, MartsAssumption
<1>3. \A v \in Kept(s) : Cardinality(Better(s, v)) \in 0 .. Top - 1
  BY <1>1, <1>2
<1>4. \A u, v \in Kept(s) : Cardinality(Better(s, u)) = Cardinality(Better(s, v)) => u = v
  <2> SUFFICES ASSUME NEW u \in Kept(s), NEW v \in Kept(s), u # v,
                      Cardinality(Better(s, u)) = Cardinality(Better(s, v))
               PROVE  FALSE
    OBVIOUS
  <2>1. Outranks(u, v) \/ Outranks(v, u)
    BY <1>1, RankingIsTotal
  <2> QED
    BY <1>1, <1>2, <2>1, BetterRanksLower
<1>5. place \in Injection(Kept(s), 0 .. Top - 1)
  BY <1>3, <1>4 DEF Injection, IsInjective
<1>6. IsFiniteSet(0 .. Top - 1) /\ Cardinality(0 .. Top - 1) = Top
  <2>1. 0 \in Int /\ Top - 1 \in Int /\ (0 > Top - 1 <=> Top = 0) /\ Top - 1 - 0 + 1 = Top
    BY <1>2
  <2> QED
    BY <2>1, FS_Interval
<1> HIDE DEF place
<1> QED
  BY <1>5, <1>6, FS_Injection, FS_CardinalityType

\* Where something is left out, the best of it has Top better ones, all of them kept.
LEMMA AtLeastTop ==
  ASSUME TypeOK, NEW s, Kept(s) # EntriesOf(s)
  PROVE  Cardinality(Kept(s)) >= Top
<1> DEFINE Less == OpToRel(<, Nat)
           Out == EntriesOf(s) \ Kept(s)
           T == {Cardinality(Better(s, v)) : v \in Out}
<1>1. Out # {} /\ Kept(s) \subseteq EntriesOf(s)
  BY DEF Kept
<1>2. Top \in Nat /\ \A v \in EntriesOf(s) : Cardinality(Better(s, v)) \in Nat
  BY EntryTypes, MartsAssumption
<1>3. T # {} /\ T \subseteq Nat
  BY <1>1, <1>2
<1>4. PICK n \in T : \A m \in T : ~ (<<m, n>> \in Less)
  <2> HIDE DEF T
  <2>1. IsWellFoundedOn(Less, Nat)
    BY NatLessThanWellFounded
  <2> HIDE DEF Less
  <2> QED
    BY <1>3, <2>1, WFMin
<1>5. \A m \in T : ~(m < n)
  <2> HIDE DEF T
  <2> SUFFICES ASSUME NEW m \in T, m < n PROVE FALSE
    OBVIOUS
  <2>1. <<m, n>> \in Less
    BY <1>3 DEF OpToRel
  <2> QED
    BY <1>4, <2>1
<1>6. PICK v \in Out : n = Cardinality(Better(s, v))
  OBVIOUS
<1>7. ASSUME NEW u \in Better(s, v) PROVE u \in Kept(s)
  <2>1. u \in EntriesOf(s) /\ Outranks(u, v)
    BY <1>7 DEF Better
  <2>2. Cardinality(Better(s, u)) < n
    BY <1>6, <2>1, BetterRanksLower
  <2> QED
    BY <1>5, <2>1, <2>2
<1>8. Cardinality(Better(s, v)) >= Top
  BY <1>2 DEF Kept, Better
<1>9. Cardinality(Better(s, v)) <= Cardinality(Kept(s))
  BY <1>7, AtMostTop, FS_Subset
<1> QED
  BY <1>2, <1>8, <1>9, AtMostTop

\* What the index is cut down to is the best there is, for any number of variants and any budget.
THEOREM IndexIsTheBest == Spec => []IndexKeepsTheBest
<1>1. TypeOK => IndexKeepsTheBest
  <2> SUFFICES ASSUME TypeOK, NEW s \in {SymbolOf[v] : v \in Ran}
               PROVE  /\ Cardinality(Kept(s)) = IF Cardinality(EntriesOf(s)) < Top
                                                THEN Cardinality(EntriesOf(s)) ELSE Top
                      /\ \A u \in Kept(s) : \A v \in EntriesOf(s) \ Kept(s) :
                           OosExcess(v) # Null => OosExcess(u) # Null /\ OosExcess(u) >= OosExcess(v)
    BY DEF IndexKeepsTheBest
  <2>1. Kept(s) \subseteq EntriesOf(s) /\ IsFiniteSet(EntriesOf(s)) /\ Top \in Nat
    BY EntryTypes, MartsAssumption DEF Kept
  <2>2. Cardinality(Kept(s)) <= Cardinality(EntriesOf(s)) /\ Cardinality(EntriesOf(s)) \in Nat
    BY <2>1, FS_Subset, FS_CardinalityType
  <2>3. Cardinality(Kept(s)) = IF Cardinality(EntriesOf(s)) < Top THEN Cardinality(EntriesOf(s)) ELSE Top
    <3>1. Cardinality(Kept(s)) \in Nat /\ Cardinality(Kept(s)) <= Top
      BY AtMostTop
    <3>2. Kept(s) # EntriesOf(s) => Cardinality(Kept(s)) >= Top
      BY AtLeastTop
    <3>3. Kept(s) = EntriesOf(s) => Cardinality(Kept(s)) = Cardinality(EntriesOf(s))
      OBVIOUS
    <3> QED
      BY <2>1, <2>2, <3>1, <3>2, <3>3
  <2>4. ASSUME NEW u \in Kept(s), NEW v \in EntriesOf(s) \ Kept(s), OosExcess(v) # Null
        PROVE  OosExcess(u) # Null /\ OosExcess(u) >= OosExcess(v)
    <3>1. u \in EntriesOf(s) /\ v \in EntriesOf(s) /\ u # v
      BY <2>1
    <3>2. /\ Cardinality(Better(s, u)) < Top /\ ~(Cardinality(Better(s, v)) < Top)
          /\ Cardinality(Better(s, u)) \in Nat /\ Cardinality(Better(s, v)) \in Nat
      BY <3>1, EntryTypes DEF Kept, Better
    <3>3. ~Outranks(v, u)
      BY <2>1, <3>1, <3>2, BetterRanksLower
    <3>4. Outranks(u, v)
      BY <3>1, <3>3, RankingIsTotal
    <3> QED
      BY <2>4, <3>1, <3>4, EntryTypes, MartsAssumption DEF Outranks
  <2> QED
    BY <2>3, <2>4
<1> QED
  BY <1>1, TypeCorrect, PTL

-----------------------------------------------------------------------------
(* What the marts say of a window nobody traded in, or nobody measured *)

\* No verdict of the mart is ever NULL, and that of a window that was not measured is FALSE.
VerdictsAreKnown ==
  \A v \in Ran :
    /\ Mart[v].beat_bh_full \in BOOLEAN /\ Mart[v].beat_bh_is \in BOOLEAN
    /\ Mart[v].beat_bh_oos \in BOOLEAN
    /\ latest[v].is = NotMeasured => Mart[v].beat_bh_is = FALSE
    /\ latest[v].oos = NotMeasured => Mart[v].beat_bh_oos = FALSE

\* The first build of the marts takes verdicts back, to FALSE and on windows without a round
\* trip only; it awards none.
SwitchOnlyWithdraws ==
  [][\A v \in Ran :
       /\ \/ Entry(v).beat_bh_full' = Entry(v).beat_bh_full
          \/ ~Traded(latest[v].full) /\ Entry(v).beat_bh_full' = FALSE
       /\ \/ Entry(v).beat_bh_oos' = Entry(v).beat_bh_oos
          \/ ~Traded(latest[v].oos) /\ Entry(v).beat_bh_oos' = FALSE]_martExists

\* AND with a FALSE side is FALSE, whatever NULL the other side holds.
LEMMA UntradedLoses ==
  ASSUME NEW w \in Window, ~Traded(w)
  PROVE  Beats(w) = FALSE
<1>1. /\ Coalesce(w.trades, 0) \in Int /\ Coalesce(w.trades, 0) # Null /\ 0 # Null
      /\ ~(Coalesce(w.trades, 0) > 0)
  BY MartsAssumption DEF Coalesce, Traded, Window, NotMeasured, EngineCan
<1>2. Greater3(Coalesce(w.trades, 0), 0) = FALSE
  BY <1>1 DEF Greater3
<1> QED
  BY <1>2, Zenon DEF Beats, And3

LEMMA TradedIsKnown ==
  ASSUME NEW w \in Window, Traded(w)
  PROVE  Beats(w) \in BOOLEAN
<1>1. w \in Measures
  BY DEF Window, NotMeasured, Traded, Coalesce
<1>2. w.ret \in Int /\ w.hold \in Int
  BY <1>1, MartsAssumption DEF EngineCan
<1>3. Derived(w) \in BOOLEAN
  <2>1. Excess(w) \in Int
    BY <1>2, MartsAssumption DEF Excess, Minus3
  <2>2. Excess(w) # Null /\ 0 # Null
    BY <2>1, MartsAssumption
  <2>3. Excess(w) > 0 => Derived(w) = TRUE
    BY <2>2 DEF Derived, Greater3
  <2>4. ~(Excess(w) > 0) => Derived(w) = FALSE
    BY <2>2 DEF Derived, Greater3
  <2> QED
    BY <2>3, <2>4
<1> QED
  BY <1>3, VerdictsAgree

\* The extent of what the run mart_never_measured finds: the NULL that the mart's comment
\* promises for a window that was not measured occurs for no variant and no measurement.
THEOREM UnmeasuredReadsFailed == Spec => []VerdictsAreKnown
<1>1. TypeOK => VerdictsAreKnown
  <2> SUFFICES ASSUME TypeOK, NEW v \in Ran
               PROVE  /\ Mart[v].beat_bh_full \in BOOLEAN /\ Mart[v].beat_bh_is \in BOOLEAN
                      /\ Mart[v].beat_bh_oos \in BOOLEAN
                      /\ latest[v].is = NotMeasured => Mart[v].beat_bh_is = FALSE
                      /\ latest[v].oos = NotMeasured => Mart[v].beat_bh_oos = FALSE
    BY DEF VerdictsAreKnown
  <2>1. latest[v].full \in Window /\ latest[v].is \in Window /\ latest[v].oos \in Window
    BY DEF TypeOK, Ran, Row, Window
  <2>2. /\ Mart[v].beat_bh_full = Beats(latest[v].full)
        /\ Mart[v].beat_bh_is = Beats(latest[v].is)
        /\ Mart[v].beat_bh_oos = Beats(latest[v].oos)
    BY DEF Mart
  <2>3. \A w \in Window : Beats(w) \in BOOLEAN
    BY UntradedLoses, TradedIsKnown
  <2>4. ~Traded(NotMeasured)
    BY DEF Traded, NotMeasured, Coalesce
  <2> QED
    BY <2>1, <2>2, <2>3, <2>4, UntradedLoses
<1> QED
  BY <1>1, TypeCorrect, PTL

\* Where SQL and export.py disagree they disagree in one direction: building the marts for the
\* first time never makes a variant a winner that the export did not already publish as one.
THEOREM SwitchAwardsNothing == Spec => SwitchOnlyWithdraws
<1>1. TypeOK /\ [Next]_vars =>
        [\A v \in Ran :
           /\ \/ Entry(v).beat_bh_full' = Entry(v).beat_bh_full
              \/ ~Traded(latest[v].full) /\ Entry(v).beat_bh_full' = FALSE
           /\ \/ Entry(v).beat_bh_oos' = Entry(v).beat_bh_oos
              \/ ~Traded(latest[v].oos) /\ Entry(v).beat_bh_oos' = FALSE]_martExists
  <2> SUFFICES ASSUME TypeOK, [Next]_vars, martExists' # martExists, NEW v \in Ran
               PROVE  /\ \/ Entry(v).beat_bh_full' = Entry(v).beat_bh_full
                         \/ ~Traded(latest[v].full) /\ Entry(v).beat_bh_full' = FALSE
                      /\ \/ Entry(v).beat_bh_oos' = Entry(v).beat_bh_oos
                         \/ ~Traded(latest[v].oos) /\ Entry(v).beat_bh_oos' = FALSE
    OBVIOUS
  <2>1. ~martExists /\ martExists' = TRUE /\ latest' = latest
    BY DEF Next, Backtest, BuildMarts, vars
  <2>2. v \in Ran' /\ latest'[v] = latest[v]
    BY <2>1 DEF Ran
  <2>3. latest[v].full \in Window /\ latest[v].oos \in Window
    BY DEF TypeOK, Ran, Row, Window
  <2>4. /\ Entry(v).beat_bh_full = Derived(latest[v].full)
        /\ Entry(v).beat_bh_oos = Derived(latest[v].oos)
    BY <2>1 DEF Entry
  <2>5. /\ Entry(v).beat_bh_full' = Beats(latest[v].full)
        /\ Entry(v).beat_bh_oos' = Beats(latest[v].oos)
    <3>1. /\ Entry(v).beat_bh_full' = Mart'[v].beat_bh_full
          /\ Entry(v).beat_bh_oos' = Mart'[v].beat_bh_oos
      BY <2>1 DEF Entry
    <3> QED
      BY <2>2, <3>1 DEF Mart
  <2>6. /\ Traded(latest[v].full) => Beats(latest[v].full) = Derived(latest[v].full)
        /\ Traded(latest[v].oos) => Beats(latest[v].oos) = Derived(latest[v].oos)
    BY <2>3, VerdictsAgree
  <2>7. /\ ~Traded(latest[v].full) => Beats(latest[v].full) = FALSE
        /\ ~Traded(latest[v].oos) => Beats(latest[v].oos) = FALSE
    BY <2>3, UntradedLoses
  <2> QED
    BY <2>4, <2>5, <2>6, <2>7, Zenon
<1> QED
  BY <1>1, TypeCorrect, PTL DEF Spec, SwitchOnlyWithdraws
=============================================================================

----------------------------- MODULE EngineProofs -----------------------------
(***************************************************************************)
(* What the run shows on short frames and few strategies, for frames of    *)
(* any length, any strategies and any split.                               *)
(***************************************************************************)
EXTENDS Backtest, FiniteSetTheorems, WellFoundedInduction, TLAPS

\* Where a run of variant v that began at bar start has been in the market by bar t.
GreenBars(v, start, t) == {a \in start + 1 .. t - 1 : IsGreen(v, a - 1)}

\* The completed stays by bar t of a run that has been in the market on the bars held.
StaysBefore(s, t) == {w \in Bars \X Bars : w[2] < t /\ IsStay(s, w[1], w[2])}

\* The loop of _simulate in midway.
LoopInv ==
  /\ sim.start <= sim.t /\ sim.t <= sim.stop
  /\ sim.held = GreenBars(sim.variant, sim.start, sim.t)
  /\ sim.long <=> sim.t - 1 \in sim.held
  /\ sim.long => /\ sim.entry < sim.t
                 /\ sim.entry .. sim.t - 1 \subseteq sim.held
                 /\ sim.entry - 1 \notin sim.held
  /\ sim.trades = StaysBefore(sim, sim.t)

\* The full period begins at the first bar, for every variant.
FullIsWhole ==
  /\ sim.window = "full" /\ sim # Idle => sim.start = 0 /\ sim.stop = N
  /\ \A r \in results : r.window = "full" => r.start = 0 /\ r.stop = N /\ r.measured

\* What has been recorded is what the loop had at its end.
EInv == TypeOK /\ LoopInv /\ FullIsWhole /\ HeldIsSignalled /\ RoundTripsAreStays

-----------------------------------------------------------------------------

LEMMA ClampInRange ==
  ASSUME NEW x \in Int, NEW bound \in Nat PROVE Clamp(x, bound) \in 0 .. bound
  BY DEF Clamp

\* Each window lies inside the frame, and its first bar does not come after its end.
LEMMA WindowInFrame ==
  ASSUME NEW v \in (SUBSET Components) \ {{}}, NEW window \in Windows
  PROVE  /\ Start(v, window) \in 0 .. N /\ Stop(v, window) \in 0 .. N
         /\ Start(v, window) <= Stop(v, window)
<1> USE EngineAssumption
<1> DEFINE c == CHOOSE c \in v : \A d \in v : WarmupBars[d] <= WarmupBars[c]
<1>1. c \in v
  OBVIOUS
<1>2. WarmupBars[c] \in Int
  BY <1>1
<1>3. Warmup(v) \in 0 .. N
  BY <1>2, ClampInRange DEF Warmup
<1>4. N - Warmup(v) \in 0 .. N
  BY <1>3
<1>5. TrainBars[N - Warmup(v)] \in Int
  BY <1>4
<1>6. Clamp(TrainBars[N - Warmup(v)], N - Warmup(v)) \in 0 .. (N - Warmup(v))
  BY <1>4, <1>5, ClampInRange
<1>7. Split(v) \in Warmup(v) .. N
  BY <1>3, <1>6 DEF Split
<1> QED
  BY <1>3, <1>7 DEF Start, Stop, Windows

LEMMA IdleTyped == Idle \in Sim
  BY EngineAssumption DEF Idle, Sim, Windows

LEMMA InitInv == Init => EInv
<1> SUFFICES ASSUME Init PROVE EInv
  OBVIOUS
<1> USE EngineAssumption
<1>1. TypeOK
  BY IdleTyped DEF Init, TypeOK
<1>2. LoopInv
  BY DEF Init, LoopInv, Idle, GreenBars, StaysBefore, IsStay, Bars
<1>3. FullIsWhole /\ HeldIsSignalled /\ RoundTripsAreStays
  BY DEF Init, FullIsWhole, HeldIsSignalled, RoundTripsAreStays
<1> QED
  BY <1>1, <1>2, <1>3 DEF EInv

\* A run that has not entered any bar has no stay.
LEMMA NoStayUnheld ==
  ASSUME NEW s, s.held = {}, NEW t PROVE StaysBefore(s, t) = {}
<1> SUFFICES ASSUME NEW w \in StaysBefore(s, t) PROVE FALSE
  OBVIOUS
<1>1. w[1] \in Int /\ w[2] \in Int /\ w[1] < w[2] /\ w[1] .. w[2] - 1 \subseteq {}
  BY EngineAssumption DEF StaysBefore, IsStay, Bars
<1> QED
  BY <1>1

LEMMA BeginInv ==
  ASSUME EInv, NEW v \in Variants, NEW window \in Windows, Begin(v, window) PROVE EInv'
<1> USE EngineAssumption
<1>1. v \in (SUBSET Components) \ {{}}
  BY DEF EInv, TypeOK, Variants
<1>2. /\ Start(v, window) \in 0 .. N /\ Stop(v, window) \in 0 .. N
      /\ Start(v, window) <= Stop(v, window)
  BY <1>1, WindowInFrame
<1>3. /\ sim' = [variant |-> v, window |-> window, start |-> Start(v, window),
                 stop |-> Stop(v, window), t |-> Start(v, window), long |-> FALSE,
                 entry |-> 0, held |-> {}, trades |-> {}]
      /\ green' = green /\ usable' = usable /\ results' = results
  BY DEF Begin, Call, Idle
<1>4. TypeOK'
  BY <1>1, <1>2, <1>3 DEF EInv, TypeOK, Sim
<1>5. LoopInv'
  <2>1. StaysBefore(sim', sim'.t) = {}
    BY <1>3, NoStayUnheld
  <2>2. sim'.held = {} /\ GreenBars(v, Start(v, window), Start(v, window))' = {}
    BY <1>2, <1>3 DEF GreenBars
  <2> QED
    BY <2>1, <2>2, <1>2, <1>3 DEF LoopInv, StaysBefore, IsStay, GreenBars, Bars
<1>6. FullIsWhole'
  BY <1>3 DEF EInv, FullIsWhole, Start, Stop
<1>7. HeldIsSignalled' /\ RoundTripsAreStays'
  BY <1>3 DEF EInv, HeldIsSignalled, RoundTripsAreStays, IsGreen, IsStay, Bars
<1> QED
  BY <1>4, <1>5, <1>6, <1>7 DEF EInv

LEMMA TooShortInv ==
  ASSUME EInv, NEW v \in Variants, NEW window \in Windows, TooShort(v, window) PROVE EInv'
<1> USE EngineAssumption
<1> DEFINE none == [variant |-> v, window |-> window, start |-> Start(v, window),
                    stop |-> Stop(v, window), measured |-> FALSE, held |-> {}, trades |-> {}]
<1>1. v \in (SUBSET Components) \ {{}}
  BY DEF EInv, TypeOK, Variants
<1>2. Start(v, window) \in 0 .. N /\ Stop(v, window) \in 0 .. N
  BY <1>1, WindowInFrame
<1>3. results' = results \cup {none} /\ UNCHANGED <<green, usable, sim>> /\ window # "full"
  BY DEF TooShort, LongEnough
<1>4. none \in Result
  BY <1>1, <1>2 DEF Result
<1>5. TypeOK'
  BY <1>3, <1>4 DEF EInv, TypeOK
<1>6. LoopInv'
  BY <1>3 DEF EInv, LoopInv, GreenBars, StaysBefore, IsGreen, IsStay, Bars
<1>7. FullIsWhole'
  BY <1>3 DEF EInv, FullIsWhole
<1>8. HeldIsSignalled'
  BY <1>3 DEF EInv, HeldIsSignalled, IsGreen
<1>9. RoundTripsAreStays'
  <2> SUFFICES ASSUME NEW r \in results'
               PROVE  r.trades = StaysBefore(r, r.stop)
    BY DEF RoundTripsAreStays, StaysBefore, IsStay, Bars
  <2>1. CASE r \in results
    BY <2>1 DEF EInv, RoundTripsAreStays, StaysBefore
  <2>2. CASE r = none
    BY <2>2, NoStayUnheld
  <2> QED
    BY <1>3, <2>1, <2>2
<1> QED
  BY <1>5, <1>6, <1>7, <1>8, <1>9 DEF EInv

-----------------------------------------------------------------------------

\* One turn of the loop extends the bars held by the one it has come to, if that one is
\* behind a green one, and completes the stay it leaves.
LEMMA BarInv == ASSUME EInv, Bar PROVE EInv'
<1> USE EngineAssumption
<1> DEFINE t == sim.t  in == Target(sim)  out == sim.long /\ ~in
<1>1. /\ sim \in Sim /\ sim.start <= t /\ t < sim.stop /\ t \in Bars
      /\ UNCHANGED <<green, usable, results>>
  BY DEF EInv, LoopInv, TypeOK, Bar, Sim, Bars
<1>2. /\ sim'.variant = sim.variant /\ sim'.window = sim.window
      /\ sim'.start = sim.start /\ sim'.stop = sim.stop
      /\ sim'.t = t + 1 /\ sim'.long = in
      /\ sim'.entry = IF in /\ ~sim.long THEN t ELSE sim.entry
      /\ sim'.held = IF in THEN sim.held \cup {t} ELSE sim.held
      /\ sim'.trades = IF out THEN sim.trades \cup {<<sim.entry, t>>} ELSE sim.trades
  BY <1>1 DEF Bar, Sim
<1>3. in \in BOOLEAN
  BY DEF Target, IsGreen
<1>4. sim.held \subseteq 1 .. t - 1 /\ sim.held \subseteq Int
  BY <1>1 DEF EInv, LoopInv, GreenBars, Sim
<1>5. out => sim.entry \in Bars /\ sim.entry < t
  BY <1>1 DEF EInv, LoopInv, Sim, Bars
<1>6. TypeOK'
  <2>1. /\ t + 1 \in 0 .. N /\ sim'.entry \in 0 .. N
        /\ sim'.held \in SUBSET Bars
        /\ out => <<sim.entry, t>> \in Bars \X Bars
    BY <1>1, <1>2, <1>5 DEF Sim, Bars
  <2>2. sim'.trades \in SUBSET (Bars \X Bars)
    BY <2>1, <1>1, <1>2 DEF Sim
  <2>3. sim' \in Sim
    BY <2>1, <2>2, <1>1, <1>2, <1>3 DEF Bar, Sim
  <2> QED
    BY <2>3, <1>1 DEF EInv, TypeOK
<1>7. sim'.held = GreenBars(sim.variant, sim.start, t + 1)
  <2>1. GreenBars(sim.variant, sim.start, t + 1)
          = IF in THEN GreenBars(sim.variant, sim.start, t) \cup {t}
            ELSE GreenBars(sim.variant, sim.start, t)
    <3> DEFINE now == GreenBars(sim.variant, sim.start, t + 1)
               before == GreenBars(sim.variant, sim.start, t)
    <3>1. sim.start \in Int /\ t \in Int
      BY <1>1 DEF Sim, Bars
    <3>2. ASSUME NEW a \in Int
          PROVE  a \in now <=> a \in before \/ (a = t /\ in)
      BY <3>1 DEF GreenBars, Target
    <3>3. now \subseteq Int /\ before \subseteq Int
      BY <3>1 DEF GreenBars
    <3> HIDE DEF now, before
    <3>4. in => \A a : a \in now <=> a \in before \cup {t}
      BY <3>1, <3>2, <3>3
    <3>5. ~in => \A a : a \in now <=> a \in before
      BY <3>1, <3>2, <3>3
    <3>6. in => now = before \cup {t}
      BY <3>4
    <3>7. ~in => now = before
      BY <3>5
    <3> HIDE DEF in
    <3> QED
      BY <3>6, <3>7 DEF now, before
  <2> QED
    BY <2>1, <1>2 DEF EInv, LoopInv
<1>8. sim'.long <=> t \in sim'.held
  BY <1>2, <1>3, <1>4, <1>1 DEF Bars
<1>9. sim'.long => /\ sim'.entry < t + 1
                   /\ sim'.entry .. t \subseteq sim'.held
                   /\ sim'.entry - 1 \notin sim'.held
  <2> SUFFICES ASSUME in
               PROVE  /\ sim'.entry < t + 1
                      /\ sim'.entry .. t \subseteq sim'.held
                      /\ sim'.entry - 1 \notin sim'.held
    BY <1>2
  <2>1. CASE sim.long
    <3>1. sim'.entry = sim.entry /\ sim'.held = sim.held \cup {t}
      BY <2>1, <1>2
    <3>2. /\ sim.entry < t /\ sim.entry .. t - 1 \subseteq sim.held
          /\ sim.entry - 1 \notin sim.held
      BY <2>1 DEF EInv, LoopInv
    <3>3. sim.entry \in Int /\ t \in Int
      BY <1>1 DEF Sim, Bars
    <3>4. \A a \in sim.entry .. t : a \in sim.entry .. t - 1 \/ a = t
      BY <3>3
    <3> QED
      BY <3>1, <3>2, <3>3, <3>4
  <2>2. CASE ~sim.long
    BY <2>2, <1>1, <1>2 DEF EInv, LoopInv, Sim, Bars
  <2> QED
    BY <2>1, <2>2, <1>1 DEF Sim
<1>10. sim'.trades = StaysBefore(sim', t + 1)
  <2>1. ASSUME NEW b \in Bars, NEW e \in Bars, e < t
        PROVE  IsStay(sim', b, e) <=> IsStay(sim, b, e)
    <3>1. \A a \in Int : a < t => (a \in sim'.held <=> a \in sim.held)
      BY <1>1, <1>2 DEF Bars
    <3>2. (b - 1 \in Int /\ b - 1 < t) \/ ~(b < e)
      BY <2>1, <1>1 DEF Bars
    <3>3. b .. e - 1 \subseteq sim'.held <=> b .. e - 1 \subseteq sim.held
      <4>1. \A a \in b .. e - 1 : a \in Int /\ a < t
        BY <2>1, <1>1 DEF Bars
      <4> QED
        BY <4>1, <3>1
    <3>4. b < e => (b - 1 \in sim'.held <=> b - 1 \in sim.held)
      BY <3>1, <3>2
    <3>5. e \in sim'.held <=> e \in sim.held
      BY <3>1, <2>1 DEF Bars
    <3> QED
      BY <3>3, <3>4, <3>5 DEF IsStay
  <2>2. ASSUME NEW b \in Bars
        PROVE  IsStay(sim', b, t) <=> out /\ b = sim.entry
    <3>1. CASE in
      BY <3>1, <1>2 DEF IsStay
    <3>2. CASE ~in /\ ~sim.long
      <4>1. t - 1 \notin sim'.held
        BY <3>2, <1>2 DEF EInv, LoopInv
      <4> QED
        BY <4>1, <3>2, <1>1, t - 1 \in b .. t - 1 \/ ~(b < t) DEF IsStay, Bars
    <3>3. CASE out
      <4>1. sim'.held = sim.held /\ t \notin sim.held
        BY <3>3, <1>2, <1>4, <1>1 DEF Bars
      <4>2. /\ sim.entry < t /\ sim.entry .. t - 1 \subseteq sim.held
            /\ sim.entry - 1 \notin sim.held
        BY <3>3 DEF EInv, LoopInv
      <4>3. ASSUME IsStay(sim', b, t) PROVE b = sim.entry
        <5>1. b < t /\ b .. t - 1 \subseteq sim.held /\ b - 1 \notin sim.held
          BY <4>1, <4>3 DEF IsStay
        <5>2. CASE b < sim.entry
          <6>1. sim.entry - 1 \in b .. t - 1
            BY <5>2, <4>2, <1>5, <3>3, <1>1 DEF Bars
          <6> QED
            BY <6>1, <5>1, <4>2
        <5>3. CASE sim.entry < b
          <6>1. b - 1 \in sim.entry .. t - 1
            BY <5>3, <5>1, <1>5, <3>3, <1>1 DEF Bars
          <6> QED
            BY <6>1, <5>1, <4>2
        <5> QED
          BY <5>2, <5>3, <1>5, <3>3 DEF Bars
      <4>4. IsStay(sim', sim.entry, t)
        BY <4>1, <4>2 DEF IsStay
      <4> QED
        BY <4>3, <4>4, <3>3
    <3> QED
      BY <3>1, <3>2, <3>3, <1>3
  <2>3. sim.trades = StaysBefore(sim, t)
    BY DEF EInv, LoopInv
  <2>4. ASSUME NEW b \in Bars, NEW e \in Bars
        PROVE  <<b, e>> \in sim'.trades <=> <<b, e>> \in StaysBefore(sim', t + 1)
    <3>0. /\ <<b, e>> \in sim.trades <=> e < t /\ IsStay(sim, b, e)
          /\ <<b, e>> \in StaysBefore(sim', t + 1) <=> e < t + 1 /\ IsStay(sim', b, e)
          /\ <<b, e>> \in sim'.trades <=> <<b, e>> \in sim.trades \/ (out /\ b = sim.entry /\ e = t)
      BY <2>3, <1>2 DEF StaysBefore
    <3>1. CASE e < t
      BY <3>0, <3>1, <2>1, <1>1 DEF Bars
    <3>2. CASE e = t
      BY <3>0, <3>2, <2>2, <1>1 DEF Bars
    <3>3. CASE e > t
      BY <3>0, <3>3, <1>1 DEF Bars
    <3> QED
      BY <3>1, <3>2, <3>3, <1>1 DEF Bars
  <2>5. sim'.trades \subseteq Bars \X Bars
    BY <1>6 DEF TypeOK, Sim
  <2>6. StaysBefore(sim', t + 1) \subseteq Bars \X Bars
    BY DEF StaysBefore
  <2> DEFINE now == StaysBefore(sim', t + 1)
  <2> HIDE DEF now
  <2>7. \A w \in Bars \X Bars : w \in sim'.trades <=> w \in now
    BY <2>4 DEF now
  <2>8. now \subseteq Bars \X Bars
    BY <2>6 DEF now
  <2> QED
    BY <2>5, <2>7, <2>8 DEF now
<1>11. LoopInv'
  <2>1. GreenBars(sim.variant, sim.start, t + 1)
          = {a \in sim'.start + 1 .. sim'.t - 1 : \A c \in sim'.variant : a - 1 \in green'[c]}
    BY <1>1, <1>2 DEF GreenBars, IsGreen
  <2>2. sim'.start <= sim'.t /\ sim'.t <= sim'.stop /\ sim'.t - 1 = t
    BY <1>1, <1>2 DEF Sim, Bars
  <2>3. sim'.held = GreenBars(sim.variant, sim.start, sim.t)'
    BY <2>1, <1>2, <1>7 DEF GreenBars, IsGreen
  <2>4. StaysBefore(sim', t + 1) = StaysBefore(sim, sim.t)'
    BY <1>2 DEF StaysBefore, IsStay, Bars
  <2> QED
    BY <2>2, <2>3, <2>4, <1>2, <1>8, <1>9, <1>10 DEF LoopInv
<1>12. FullIsWhole'
  BY <1>1, <1>2 DEF EInv, FullIsWhole, Bar, Idle, Sim, Bars
<1>13. HeldIsSignalled' /\ RoundTripsAreStays'
  BY <1>1 DEF EInv, HeldIsSignalled, RoundTripsAreStays, IsGreen, IsStay, Bars
<1> QED
  BY <1>6, <1>11, <1>12, <1>13 DEF EInv

\* What is recorded is what the loop had when it was over.
LEMMA FinishInv == ASSUME EInv, Finish PROVE EInv'
<1> USE EngineAssumption
<1> DEFINE scored == [variant |-> sim.variant, window |-> sim.window, start |-> sim.start,
                      stop |-> sim.stop, measured |-> TRUE, held |-> sim.held,
                      trades |-> sim.trades]
<1>1. /\ results' = results \cup {scored} /\ sim' = Idle /\ sim # Idle /\ sim.t = sim.stop
      /\ UNCHANGED <<green, usable>>
  BY DEF Finish
<1>2. scored \in Result
  BY DEF EInv, TypeOK, Sim, Result
<1>3. TypeOK'
  BY <1>1, <1>2, IdleTyped DEF EInv, TypeOK
<1>4. LoopInv'
  <2>1. StaysBefore(Idle, 0) = {}
    BY NoStayUnheld DEF Idle
  <2> QED
    BY <1>1, <2>1 DEF LoopInv, Idle, GreenBars, StaysBefore, IsStay, Bars
<1>5. FullIsWhole'
  BY <1>1 DEF EInv, FullIsWhole
<1>6. HeldIsSignalled'
  BY <1>1 DEF EInv, LoopInv, HeldIsSignalled, GreenBars, IsGreen
<1>7. RoundTripsAreStays'
  <2> SUFFICES ASSUME NEW r \in results'
               PROVE  r.trades = StaysBefore(r, r.stop)
    BY DEF RoundTripsAreStays, StaysBefore, IsStay, Bars
  <2>1. CASE r \in results
    BY <2>1 DEF EInv, RoundTripsAreStays, StaysBefore
  <2>2. CASE r = scored
    BY <2>2, <1>1 DEF EInv, LoopInv, StaysBefore, IsStay
  <2> QED
    BY <1>1, <2>1, <2>2
<1> QED
  BY <1>3, <1>4, <1>5, <1>6, <1>7 DEF EInv

LEMMA EngineInvariance == Spec => []EInv
<1>1. EInv /\ [Next]_vars => EInv'
  <2> SUFFICES ASSUME EInv, [Next]_vars PROVE EInv'
    OBVIOUS
  <2>1. CASE UNCHANGED vars
    BY <2>1 DEF vars, EInv, TypeOK, LoopInv, FullIsWhole, HeldIsSignalled,
                RoundTripsAreStays, GreenBars, StaysBefore, IsGreen, IsStay
  <2>2. ASSUME NEW v \in Variants, NEW window \in Windows,
               Begin(v, window) \/ TooShort(v, window)
        PROVE  EInv'
    BY <2>2, BeginInv, TooShortInv
  <2> QED
    BY <2>1, <2>2, BarInv, FinishInv DEF Next
<1> QED
  BY <1>1, InitInv, PTL DEF Spec

-----------------------------------------------------------------------------

\* Every call, window and recorded outcome has its type: no window leaves the frame,
\* however long the warm-up is and whatever the split rounds to.
THEOREM EngineTypeCorrect == Spec => []TypeOK
<1>1. EInv => TypeOK
  BY DEF EInv
<1> QED
  BY <1>1, EngineInvariance, PTL

\* No window of any variant acts on the signal of its own bar, on the last one, or on one
\* from before its first bar.
THEOREM NoLookAhead == Spec => []HeldIsSignalled
<1>1. EInv => HeldIsSignalled
  BY DEF EInv
<1> QED
  BY <1>1, EngineInvariance, PTL

\* n_trades counts each completed stay in the market once and nothing else.
THEOREM RoundTripsCounted == Spec => []RoundTripsAreStays
<1>1. EInv => RoundTripsAreStays
  BY DEF EInv
<1> QED
  BY <1>1, EngineInvariance, PTL

\* Over the full period no combination is in the market on a bar on which one of its
\* parts is not.
THEOREM CombinationsFilter == Spec => []CombinationsOnlyFilter
<1>1. EInv => CombinationsOnlyFilter
  <2> SUFFICES ASSUME EInv, NEW r \in results, NEW q \in results,
                      r.window = "full", q.window = "full", q.variant \subseteq r.variant
               PROVE  r.held \subseteq q.held
    BY DEF CombinationsOnlyFilter
  <2>1. r.start = 0 /\ q.start = 0 /\ r.stop = N /\ q.stop = N /\ r.measured /\ q.measured
    BY DEF EInv, FullIsWhole
  <2>2. /\ r.held = {a \in 1 .. N - 1 : IsGreen(r.variant, a - 1)}
        /\ q.held = {a \in 1 .. N - 1 : IsGreen(q.variant, a - 1)}
    BY <2>1 DEF EInv, HeldIsSignalled
  <2> QED
    BY <2>2 DEF IsGreen
<1> QED
  BY <1>1, EngineInvariance, PTL

-----------------------------------------------------------------------------
(* Backtest runs Engine: what is proved of Engine holds of it. *)

\* The signals of the strategies are one of the choices Engine starts from, and a step of
\* an asset's backtest is a step of Engine.
THEOREM BacktestIsEngine == BacktestSpec => Spec
<1>1. BacktestInit => Init
  <2> SUFFICES ASSUME BacktestInit PROVE Init
    OBVIOUS
  <2>1. IsInput(input) /\ Components = Registry
    BY BacktestAssumption DEF BacktestInit
  <2>2. usable \in SUBSET Components
    BY <2>1 DEF BacktestInit, Applicable, Kept, StrategiesFor, IsInput
  <2>3. ASSUME NEW c \in Components PROVE Signal(c, input.frame) \subseteq Bars
    BY <2>1 DEF IsInput, Registry, Signal, SmaCross, Macd, RsiReversion, VolumeBreakout, Fibonacci
  <2>4. green \in [Components -> SUBSET Bars]
    BY <2>3 DEF BacktestInit
  <2> QED
    BY <2>2, <2>4 DEF BacktestInit, Init
<1>2. [BacktestNext]_backtestVars => [Next]_vars
  BY DEF BacktestNext, backtestVars
<1> QED
  BY <1>1, <1>2, PTL DEF BacktestSpec, Spec

\* No strategy's signal acts on its own bar, in any window of any variant.
THEOREM BacktestHasNoLookAhead == BacktestSpec => []HeldIsSignalled
  BY BacktestIsEngine, NoLookAhead, PTL

-----------------------------------------------------------------------------
(* Induction over numbers, and sums *)

\* A set of numbers has a smallest.
LEMMA SmallestExists ==
  ASSUME NEW T, T \subseteq Nat, T # {} PROVE \E m \in T : \A k \in T : m <= k
<1> DEFINE Less == OpToRel(<, Nat)
<1>1. PICK m \in T : \A k \in T : ~(<<k, m>> \in Less)
  <2>1. IsWellFoundedOn(Less, Nat)
    BY NatLessThanWellFounded
  <2> HIDE DEF Less
  <2> QED
    BY <2>1, WFMin
<1>2. m \in Nat /\ \A k \in T : k \in Nat /\ ~(k < m)
  BY <1>1 DEF OpToRel
<1> HIDE DEF Less
<1>3. \A k \in T : m <= k
  BY <1>2
<1> QED
  BY <1>3

\* The element a sum takes next.
Some(s) == CHOOSE i \in s : TRUE

\* The subsets of S that have at most k elements.
UpTo(S, k) == {s \in SUBSET S : Cardinality(s) <= k}

\* y gives each set of D the sum of x over it.
IsSum(y, x, D) == y = [s \in D |-> IF s = {} THEN 0 ELSE x[Some(s)] + y[s \ {Some(s)}]]

\* Taking it leaves a smaller set.
LEMMA OneLess ==
  ASSUME NEW S, IsFiniteSet(S), NEW k \in Nat, NEW s \in UpTo(S, k), s # {}
  PROVE  k # 0 /\ s \ {Some(s)} \in UpTo(S, k - 1) /\ s \ {Some(s)} \in UpTo(S, k) /\ Some(s) \in S
<1>1. Some(s) \in s
  BY Zenon DEF Some
<1>2. IsFiniteSet(s) /\ Cardinality(s) \in Nat
  BY FS_Subset, FS_CardinalityType DEF UpTo
<1>3. Cardinality(s \ {Some(s)}) = Cardinality(s) - 1
  BY <1>1, <1>2, FS_RemoveElement
<1>4. Cardinality(s \ {Some(s)}) \in Nat
  BY <1>2, FS_RemoveElement, FS_CardinalityType, FS_Subset
<1> QED
  BY <1>1, <1>2, <1>3, <1>4 DEF UpTo

\* The recursion of MapThenFoldSet over the subsets of a finite set has a solution.
LEMMA SumExists ==
  ASSUME NEW x, NEW S, IsFiniteSet(S), NEW n \in Nat PROVE \E y : IsSum(y, x, UpTo(S, n))
<1> DEFINE T == {m \in Nat : ~\E y : IsSum(y, x, UpTo(S, m))}
<1> SUFFICES ASSUME T # {} PROVE FALSE
  OBVIOUS
<1>1. PICK m \in T : \A k \in T : m <= k
  BY SmallestExists
<1>2. m \in Nat /\ ~\E y : IsSum(y, x, UpTo(S, m))
  BY <1>1
<1>3. CASE m = 0
  <2> DEFINE y == [s \in UpTo(S, m) |-> 0]
  <2>1. \A s \in UpTo(S, m) : s = {}
    BY <1>3, OneLess
  <2>2. IsSum(y, x, UpTo(S, m))
    BY <2>1 DEF IsSum
  <2> QED
    BY <2>2, <1>2
<1>4. CASE m # 0
  <2>1. m - 1 \in Nat /\ m - 1 \notin T
    BY <1>1, <1>2, <1>4
  <2>2. PICK y : IsSum(y, x, UpTo(S, m - 1))
    BY <2>1
  <2> DEFINE z == [s \in UpTo(S, m) |-> IF s = {} THEN 0 ELSE x[Some(s)] + y[s \ {Some(s)}]]
  <2>3. ASSUME NEW s \in UpTo(S, m), s # {} PROVE z[s \ {Some(s)}] = y[s \ {Some(s)}]
    <3> DEFINE r == s \ {Some(s)}
    <3>1. r \in UpTo(S, m - 1) /\ r \in UpTo(S, m)
      BY <2>3, <1>2, OneLess
    <3> HIDE DEF r
    <3>2. y[r] = IF r = {} THEN 0 ELSE x[Some(r)] + y[r \ {Some(r)}]
      BY <3>1, <2>2, Zenon DEF IsSum
    <3>3. z[r] = IF r = {} THEN 0 ELSE x[Some(r)] + y[r \ {Some(r)}]
      BY <3>1, Zenon
    <3>4. z[r] = y[r]
      BY <3>2, <3>3, Zenon
    <3> QED
      BY <3>4, Zenon DEF r
  <2>4. z = [s \in UpTo(S, m) |-> IF s = {} THEN 0 ELSE x[Some(s)] + z[s \ {Some(s)}]]
    <3>1. ASSUME NEW s \in UpTo(S, m)
          PROVE  (IF s = {} THEN 0 ELSE x[Some(s)] + y[s \ {Some(s)}])
                   = (IF s = {} THEN 0 ELSE x[Some(s)] + z[s \ {Some(s)}])
      <4> HIDE DEF z
      <4> QED
        BY <2>3, Zenon
    <3> QED
      BY <3>1, Zenon
  <2> QED
    BY <2>4, <1>2, Zenon DEF IsSum
<1> QED
  BY <1>3, <1>4

\* A finite sum of whole numbers is one.
LEMMA SumTyped ==
  ASSUME NEW x, IsFiniteSet(DOMAIN x), \A i \in DOMAIN x : x[i] \in Int
  PROVE  SumFunction(x) \in Int
<1> DEFINE S == DOMAIN x
           Sum(y) == [s \in SUBSET S |-> IF s = {} THEN 0 ELSE x[Some(s)] + y[s \ {Some(s)}]]
           sum == CHOOSE y : y = Sum(y)
<1>1. SumFunction(x) = sum[S]
  BY Zenon DEF SumFunction, SumFunctionOnSet, FoldFunctionOnSet, MapThenFoldSet, Some
<1>2. Cardinality(S) \in Nat
  BY FS_CardinalityType
<1>3. SUBSET S = UpTo(S, Cardinality(S))
  BY FS_Subset DEF UpTo
<1>4. \E y : y = Sum(y)
  <2>1. PICK y : IsSum(y, x, UpTo(S, Cardinality(S)))
    BY <1>2, SumExists
  <2> QED
    BY <2>1, <1>3, Zenon DEF IsSum
<1>5. sum = Sum(sum)
  BY <1>4, Zenon
<1> HIDE DEF sum
<1>6. \A s \in SUBSET S : sum[s] = IF s = {} THEN 0 ELSE x[Some(s)] + sum[s \ {Some(s)}]
  BY <1>5, Zenon
<1> DEFINE T == {k \in Nat : \E s \in UpTo(S, k) : sum[s] \notin Int}
<1>7. T = {}
  <2> SUFFICES ASSUME T # {} PROVE FALSE
    OBVIOUS
  <2>1. PICK m \in T : \A k \in T : m <= k
    BY SmallestExists
  <2>2. m \in Nat /\ \E s \in UpTo(S, m) : sum[s] \notin Int
    BY <2>1
  <2>3. PICK s \in UpTo(S, m) : sum[s] \notin Int
    BY <2>2
  <2>4. s # {} /\ s \in SUBSET S
    <3>1. s \in SUBSET S
      BY DEF UpTo
    <3>2. s = {} => sum[s] = 0
      BY <3>1, <1>6, Zenon
    <3> QED
      BY <2>3, <3>1, <3>2
  <2>5. m # 0 /\ s \ {Some(s)} \in UpTo(S, m - 1) /\ Some(s) \in S
    BY <2>2, <2>4, OneLess
  <2>6. m - 1 \notin T /\ m - 1 \in Nat
    BY <2>1, <2>2, <2>5
  <2>7. sum[s \ {Some(s)}] \in Int
    BY <2>5, <2>6
  <2>8. sum[s] = x[Some(s)] + sum[s \ {Some(s)}]
    BY <1>6, <2>4, Zenon
  <2> QED
    BY <2>3, <2>5, <2>7, <2>8
<1>8. S \in UpTo(S, Cardinality(S)) /\ Cardinality(S) \notin T
  BY <1>2, <1>3, <1>7
<1> QED
  BY <1>1, <1>2, <1>8

-----------------------------------------------------------------------------
(* What looks back over a frame: averages and rolling windows *)

\* y is the average of x over its first bars, up to bar m.
IsEma(y, x, span, m) ==
  y = [t \in 0 .. m |-> IF t = 0 THEN x[0] ELSE Smooth(span, y[t - 1], x[t])]

\* The recursion has a solution for every length, and Ema is one.
LEMMA EmaExists ==
  ASSUME NEW x, NEW span, NEW n \in Nat PROVE \E y : IsEma(y, x, span, n)
<1> DEFINE T == {m \in Nat : ~\E y : IsEma(y, x, span, m)}
<1> SUFFICES ASSUME T # {} PROVE FALSE
  OBVIOUS
<1>1. PICK m \in T : \A k \in T : m <= k
  BY SmallestExists
<1>2. m \in Nat /\ ~\E y : IsEma(y, x, span, m)
  BY <1>1
<1>3. CASE m = 0
  <2> DEFINE y == [t \in 0 .. m |-> x[0]]
  <2>1. IsEma(y, x, span, m)
    BY <1>3 DEF IsEma
  <2> QED
    BY <2>1, <1>2
<1>4. CASE m # 0
  <2>1. m - 1 \in Nat /\ m - 1 \notin T
    BY <1>1, <1>2, <1>4
  <2>2. PICK y : IsEma(y, x, span, m - 1)
    BY <2>1
  <2> DEFINE z == [t \in 0 .. m |-> IF t = 0 THEN x[0] ELSE Smooth(span, y[t - 1], x[t])]
  <2>3. ASSUME NEW t \in 0 .. m, t # 0 PROVE z[t - 1] = y[t - 1]
    <3>1. t - 1 \in 0 .. m - 1 /\ t - 1 \in 0 .. m
      BY <2>3, <1>2
    <3>2. y[t - 1] = IF t - 1 = 0 THEN x[0] ELSE Smooth(span, y[(t - 1) - 1], x[t - 1])
      BY <3>1, <2>2, Zenon DEF IsEma
    <3> QED
      BY <3>1, <3>2
  <2>4. z = [t \in 0 .. m |-> IF t = 0 THEN x[0] ELSE Smooth(span, z[t - 1], x[t])]
    BY <2>3
  <2> QED
    BY <2>4, <1>2 DEF IsEma
<1> QED
  BY <1>3, <1>4

LEMMA EmaEquation ==
  ASSUME NEW x, NEW span, NEW n \in Nat, DOMAIN x = 0 .. n
  PROVE  IsEma(Ema(x, span), x, span, n)
<1>1. \E y : y = [t \in 0 .. n |-> IF t = 0 THEN x[0] ELSE Smooth(span, y[t - 1], x[t])]
  <2>1. PICK y : IsEma(y, x, span, n)
    BY EmaExists
  <2> QED
    BY <2>1 DEF IsEma
<1>2. \E y : y = [t \in DOMAIN x |-> IF t = 0 THEN x[0] ELSE Smooth(span, y[t - 1], x[t])]
  BY <1>1
<1> DEFINE e == Ema(x, span)
<1>3. e = [t \in DOMAIN x |-> IF t = 0 THEN x[0] ELSE Smooth(span, e[t - 1], x[t])]
  BY <1>2, Zenon DEF Ema
<1> HIDE DEF e
<1>4. IsEma(e, x, span, n)
  BY <1>3 DEF IsEma
<1> QED
  BY <1>4 DEF e

\* What an average is at a bar depends on the bars up to it.
LEMMA EmaIsCausal ==
  ASSUME NEW x, NEW z, NEW span, NEW m \in Nat, NEW n \in Nat, m <= n,
         DOMAIN x = 0 .. n, DOMAIN z = 0 .. m, \A u \in 0 .. m : z[u] = x[u]
  PROVE  \A u \in 0 .. m : Ema(z, span)[u] = Ema(x, span)[u]
<1> DEFINE a == Ema(x, span)  b == Ema(z, span)  T == {u \in 0 .. m : b[u] # a[u]}
<1>1. /\ \A t \in 0 .. n : a[t] = IF t = 0 THEN x[0] ELSE Smooth(span, a[t - 1], x[t])
      /\ \A t \in 0 .. m : b[t] = IF t = 0 THEN z[0] ELSE Smooth(span, b[t - 1], z[t])
  <2>1. IsEma(a, x, span, n) /\ IsEma(b, z, span, m)
    BY EmaEquation
  <2> HIDE DEF a, b
  <2> QED
    BY <2>1, Zenon DEF IsEma
<1> HIDE DEF a, b
<1> SUFFICES ASSUME T # {} PROVE FALSE
  BY DEF a, b
<1>2. T \subseteq Nat
  OBVIOUS
<1>3. PICK u \in T : \A k \in T : u <= k
  BY <1>2, SmallestExists
<1>4. u \in 0 .. m /\ b[u] # a[u]
  BY <1>3
<1>5. u # 0
  BY <1>1, <1>4
<1>6. u - 1 \in 0 .. m /\ u - 1 \notin T
  BY <1>2, <1>3, <1>4, <1>5
<1>7. b[u - 1] = a[u - 1]
  BY <1>6
<1> QED
  BY <1>1, <1>4, <1>5, <1>7

\* The frame g is f cut off after its bar m.
IsCut(g, f, m, n) ==
  /\ m \in Nat /\ n \in Nat /\ m <= n
  /\ DOMAIN g = 0 .. m /\ DOMAIN f = 0 .. n
  /\ \A u \in 0 .. m : g[u] = f[u]

\* A rolling window, and what is summed over it, looks back only.
LEMMA WindowsAgree ==
  ASSUME NEW f, NEW g, NEW m, NEW n, IsCut(g, f, m, n), NEW t \in 0 .. m, NEW w
  PROVE  /\ Trailing(g, t, w) = Trailing(f, t, w) /\ Trailing(f, t, w) \subseteq 0 .. m
         /\ \A column : SmaSum(g, column, t, w) = SmaSum(f, column, t, w)
         /\ GainSum(g, t, w) = GainSum(f, t, w) /\ LossSum(g, t, w) = LossSum(f, t, w)
<1>1. Trailing(g, t, w) = Trailing(f, t, w) /\ Trailing(f, t, w) \subseteq 0 .. m
  BY DEF Trailing, IsCut
<1>2. ASSUME NEW column PROVE SmaSum(g, column, t, w) = SmaSum(f, column, t, w)
  <2>1. [u \in Trailing(g, t, w) |-> g[u][column]] = [u \in Trailing(f, t, w) |-> f[u][column]]
    BY <1>1 DEF IsCut
  <2> QED
    BY <2>1 DEF SmaSum
<1>3. ASSUME NEW u \in Trailing(f, t, w) \ {0}
      PROVE  Gain(g, u) = Gain(f, u) /\ Loss(g, u) = Loss(f, u)
  <2>1. u \in 0 .. m /\ u - 1 \in 0 .. m
    BY <1>1 DEF IsCut
  <2> QED
    BY <2>1 DEF IsCut, Gain, Loss
<1>4. GainSum(g, t, w) = GainSum(f, t, w)
  <2>1. [u \in Trailing(g, t, w) \ {0} |-> Gain(g, u)] = [u \in Trailing(f, t, w) \ {0} |-> Gain(f, u)]
    BY <1>1, <1>3
  <2> QED
    BY <2>1 DEF GainSum
<1>5. LossSum(g, t, w) = LossSum(f, t, w)
  <2>1. [u \in Trailing(g, t, w) \ {0} |-> Loss(g, u)] = [u \in Trailing(f, t, w) \ {0} |-> Loss(f, u)]
    BY <1>1, <1>3
  <2> QED
    BY <2>1 DEF LossSum
<1> QED
  BY <1>1, <1>2, <1>4, <1>5

-----------------------------------------------------------------------------
(* The loop of RsiReversion *)

\* The two comparisons of the loop.
Enters(f, t) == RsiBelow(f, t, Params.rsi_reversion.entry_below)
Leaves(f, t) == RsiAbove(f, t, Params.rsi_reversion.exit_above)

\* They look back only.
LEMMA CrossingsAgree ==
  ASSUME NEW f, NEW g, NEW m, NEW n, IsCut(g, f, m, n), NEW t \in 0 .. m
  PROVE  /\ Enters(g, t) <=> Enters(f, t)
         /\ Leaves(g, t) <=> Leaves(f, t)
<1> DEFINE w == Params.rsi_reversion.period
<1>1. GainSum(g, t, w) = GainSum(f, t, w) /\ LossSum(g, t, w) = LossSum(f, t, w)
  BY WindowsAgree
<1>2. RsiDefined(g, t) <=> RsiDefined(f, t)
  BY <1>1 DEF RsiDefined
<1> QED
  BY <1>1, <1>2 DEF Enters, Leaves, RsiBelow, RsiAbove

\* y is the position after each of the first bars, up to bar m.
IsPosition(y, f, m) ==
  y = [t \in 0 .. m |-> IF t > 0 /\ y[t - 1] THEN ~Leaves(f, t) ELSE Enters(f, t)]

\* The loop has an outcome for every frame.
LEMMA PositionExists ==
  ASSUME NEW f, NEW n \in Nat PROVE \E y : IsPosition(y, f, n)
<1> DEFINE T == {m \in Nat : ~\E y : IsPosition(y, f, m)}
<1> SUFFICES ASSUME T # {} PROVE FALSE
  OBVIOUS
<1>1. PICK m \in T : \A k \in T : m <= k
  BY SmallestExists
<1>2. m \in Nat /\ ~\E y : IsPosition(y, f, m)
  BY <1>1
<1>3. CASE m = 0
  <2> DEFINE y == [t \in 0 .. m |-> Enters(f, t)]
  <2>1. \A t \in 0 .. m : ~(t > 0)
    BY <1>3
  <2>2. IsPosition(y, f, m)
    BY <2>1 DEF IsPosition
  <2> QED
    BY <2>2, <1>2
<1>4. CASE m # 0
  <2>1. m - 1 \in Nat /\ m - 1 \notin T
    BY <1>1, <1>2, <1>4
  <2>2. PICK y : IsPosition(y, f, m - 1)
    BY <2>1
  <2> DEFINE z == [t \in 0 .. m |-> IF t > 0 /\ y[t - 1] THEN ~Leaves(f, t) ELSE Enters(f, t)]
  <2>3. ASSUME NEW t \in 0 .. m, t > 0 PROVE z[t - 1] = y[t - 1]
    <3>1. t - 1 \in 0 .. m - 1 /\ t - 1 \in 0 .. m
      BY <2>3, <1>2
    <3>2. y[t - 1] = IF t - 1 > 0 /\ y[(t - 1) - 1] THEN ~Leaves(f, t - 1) ELSE Enters(f, t - 1)
      BY <3>1, <2>2, Zenon DEF IsPosition
    <3>3. z[t - 1] = IF t - 1 > 0 /\ y[(t - 1) - 1] THEN ~Leaves(f, t - 1) ELSE Enters(f, t - 1)
      BY <3>1, Zenon
    <3> QED
      BY <3>2, <3>3, Zenon
  <2>4. z = [t \in 0 .. m |-> IF t > 0 /\ z[t - 1] THEN ~Leaves(f, t) ELSE Enters(f, t)]
    <3>1. ASSUME NEW t \in 0 .. m
          PROVE  (IF t > 0 /\ y[t - 1] THEN ~Leaves(f, t) ELSE Enters(f, t))
                   = (IF t > 0 /\ z[t - 1] THEN ~Leaves(f, t) ELSE Enters(f, t))
      <4> HIDE DEF z
      <4>1. t > 0 => z[t - 1] = y[t - 1]
        BY <2>3
      <4> QED
        BY <4>1, Zenon
    <3> QED
      BY <3>1, Zenon
  <2> QED
    BY <2>4, <1>2, Zenon DEF IsPosition
<1> QED
  BY <1>3, <1>4

\* RsiReversion is green on the bars after which the loop is long.
LEMMA RsiReversionIsPosition ==
  ASSUME NEW f, NEW n \in Nat, DOMAIN f = 0 .. n
  PROVE  \E y : IsPosition(y, f, n) /\ RsiReversion(f) = {t \in 0 .. n : y[t]}
<1> DEFINE Loop(y) == [t \in DOMAIN f |-> IF t > 0 /\ y[t - 1] THEN ~Leaves(f, t) ELSE Enters(f, t)]
           long == CHOOSE y : y = Loop(y)
<1>1. \E y : y = Loop(y)
  <2>1. PICK y : IsPosition(y, f, n)
    BY PositionExists
  <2> QED
    BY <2>1, Zenon DEF IsPosition
<1>2. long = Loop(long)
  BY <1>1, Zenon
<1>3. RsiReversion(f) = {t \in DOMAIN f : long[t]}
  BY Zenon DEF RsiReversion, Leaves, Enters
<1>4. IsPosition(long, f, n)
  <2> HIDE DEF long
  <2> QED
    BY <1>2, Zenon DEF IsPosition
<1> HIDE DEF long
<1> QED
  BY <1>3, <1>4, Zenon

LEMMA ProductsOrdered ==
  ASSUME NEW a \in Int, NEW b \in Int, NEW s \in Int, s > 0, a < b PROVE a * s < b * s
  OBVIOUS

\* The closes of f are whole numbers.
Numbers(f, n) == \A t \in 0 .. n : f[t].close \in Int

\* No bar both enters and leaves.
LEMMA CrossingsExclude ==
  ASSUME NEW f, NEW n \in Nat, DOMAIN f = 0 .. n, Numbers(f, n), NEW t \in 0 .. n,
         Enters(f, t)
  PROVE  ~Leaves(f, t)
<1> DEFINE p == Params.rsi_reversion
           G == GainSum(f, t, p.period)
           L == LossSum(f, t, p.period)
<1>1. /\ p.period \in Int /\ p.entry_below \in Int /\ p.exit_above \in Int
      /\ p.entry_below < p.exit_above
  BY StrategiesAssumption DEF ParamsTyped, ParamsAccepted, RsiReversionAccepted
<1>2. Trailing(f, t, p.period) \subseteq 0 .. n /\ IsFiniteSet(Trailing(f, t, p.period) \ {0})
  <2>1. Trailing(f, t, p.period) \subseteq 0 .. n
    BY DEF Trailing
  <2>2. IsFiniteSet(0 .. n)
    BY FS_Interval
  <2>3. Trailing(f, t, p.period) \ {0} \in SUBSET (0 .. n)
    BY <2>1
  <2> QED
    BY <2>1, <2>2, <2>3, FS_Subset
<1>3. ASSUME NEW u \in Trailing(f, t, p.period) \ {0} PROVE Gain(f, u) \in Int /\ Loss(f, u) \in Int
  <2>1. u \in 0 .. n /\ u - 1 \in 0 .. n
    BY <1>2
  <2> QED
    BY <2>1 DEF Numbers, Gain, Loss
<1>4. G \in Int
  <2> DEFINE x == [u \in Trailing(f, t, p.period) \ {0} |-> Gain(f, u)]
  <2>1. DOMAIN x = Trailing(f, t, p.period) \ {0} /\ \A u \in DOMAIN x : x[u] \in Int
    BY <1>3
  <2> HIDE DEF x
  <2>2. SumFunction(x) \in Int
    BY <2>1, <1>2, SumTyped
  <2> QED
    BY <2>2 DEF GainSum, x
<1>5. L \in Int
  <2> DEFINE x == [u \in Trailing(f, t, p.period) \ {0} |-> Loss(f, u)]
  <2>1. DOMAIN x = Trailing(f, t, p.period) \ {0} /\ \A u \in DOMAIN x : x[u] \in Int
    BY <1>3
  <2> HIDE DEF x
  <2>2. SumFunction(x) \in Int
    BY <2>1, <1>2, SumTyped
  <2> QED
    BY <2>2 DEF LossSum, x
<1>6. RsiDefined(f, t) /\ 100 * G < p.entry_below * (G + L)
  BY DEF Enters, RsiBelow
<1>7. G + L > 0
  BY <1>6 DEF RsiDefined
<1>8. Leaves(f, t) => 100 * G > p.exit_above * (G + L)
  BY DEF Leaves, RsiAbove
<1> HIDE DEF G, L, p
<1>9. p.entry_below * (G + L) < p.exit_above * (G + L)
  BY <1>1, <1>4, <1>5, <1>7, ProductsOrdered
<1> DEFINE g == 100 * G  a == p.entry_below * (G + L)  b == p.exit_above * (G + L)
<1>10. g \in Int /\ a \in Int /\ b \in Int
  BY <1>1, <1>4, <1>5
<1>11. g < a /\ a < b /\ (Leaves(f, t) => g > b)
  BY <1>6, <1>8, <1>9
<1> HIDE DEF g, a, b
<1> QED
  BY <1>10, <1>11

\* The bar the loop of RsiReversion was last set at, and not left since.
LEMMA PositionIsALatch ==
  ASSUME NEW f, NEW n \in Nat, DOMAIN f = 0 .. n, Numbers(f, n)
  PROVE  \A t \in 0 .. n :
           t \in RsiReversion(f) <=> \E u \in 0 .. t : Enters(f, u) /\ \A w \in u + 1 .. t : ~Leaves(f, w)
<1>1. PICK y : IsPosition(y, f, n) /\ RsiReversion(f) = {t \in 0 .. n : y[t]}
  BY RsiReversionIsPosition
<1> DEFINE Green == RsiReversion(f)
           Set(t) == \E u \in 0 .. t : Enters(f, u) /\ \A w \in u + 1 .. t : ~Leaves(f, w)
<1>2. ASSUME NEW t \in 0 .. n
      PROVE  t \in Green <=> IF t > 0 /\ t - 1 \in Green THEN ~Leaves(f, t) ELSE Enters(f, t)
  <2>1. y[t] = IF t > 0 /\ y[t - 1] THEN ~Leaves(f, t) ELSE Enters(f, t)
    BY <1>1, Zenon DEF IsPosition
  <2>2. t \in Green <=> y[t]
    BY <1>1, Zenon
  <2>3. t > 0 => (t - 1 \in Green <=> y[t - 1])
    <3>1. t > 0 => t - 1 \in 0 .. n
      OBVIOUS
    <3> QED
      BY <3>1, <1>1, Zenon
  <2> QED
    BY <2>1, <2>2, <2>3, Zenon
<1>3. ASSUME NEW t \in 0 .. n
      PROVE  Set(t) <=> IF t > 0 /\ Set(t - 1) THEN ~Leaves(f, t) ELSE Enters(f, t)
  <2>1. ASSUME Enters(f, t) PROVE Set(t) /\ ~Leaves(f, t)
    <3>1. \A w \in t + 1 .. t : FALSE
      OBVIOUS
    <3>2. t \in 0 .. t
      OBVIOUS
    <3> QED
      BY <2>1, <3>1, <3>2, CrossingsExclude
  <2>2. ASSUME t > 0, Set(t - 1), ~Leaves(f, t) PROVE Set(t)
    <3>1. PICK u \in 0 .. t - 1 : Enters(f, u) /\ \A w \in u + 1 .. t - 1 : ~Leaves(f, w)
      BY <2>2
    <3>2. u \in 0 .. t /\ \A w \in u + 1 .. t : w \in u + 1 .. t - 1 \/ w = t
      BY <2>2
    <3> QED
      BY <2>2, <3>1, <3>2
  <2>3. ASSUME Set(t), ~Enters(f, t) PROVE t > 0 /\ Set(t - 1) /\ ~Leaves(f, t)
    <3>1. PICK u \in 0 .. t : Enters(f, u) /\ \A w \in u + 1 .. t : ~Leaves(f, w)
      BY <2>3
    <3>2. u # t
      BY <3>1, <2>3
    <3>3. u \in 0 .. t - 1 /\ t \in u + 1 .. t /\ \A w \in u + 1 .. t - 1 : w \in u + 1 .. t
      BY <3>2
    <3> QED
      BY <3>1, <3>3
  <2> HIDE DEF Set
  <2> QED
    BY <2>1, <2>2, <2>3
<1> DEFINE T == {t \in 0 .. n : ~(t \in Green <=> Set(t))}
<1> HIDE DEF Green, Set
<1>4. T = {}
  <2> SUFFICES ASSUME T # {} PROVE FALSE
    OBVIOUS
  <2>1. T \subseteq Nat
    OBVIOUS
  <2>2. PICK m \in T : \A k \in T : m <= k
    BY <2>1, SmallestExists
  <2>3. m \in 0 .. n /\ ~(m \in Green <=> Set(m))
    BY <2>2
  <2>4. m > 0 => (m - 1 \in Green <=> Set(m - 1))
    <3>1. m > 0 => m - 1 \in 0 .. n /\ m - 1 \notin T
      BY <2>2, <2>3
    <3> QED
      BY <3>1
  <2> QED
    BY <2>3, <2>4, <1>2, <1>3
<1>5. \A t \in 0 .. n : t \in Green <=> Set(t)
  BY <1>4
<1> QED
  BY <1>5 DEF Green, Set

-----------------------------------------------------------------------------
(* What a signal knows *)

LEMMA MacdIsCausal ==
  ASSUME NEW f, NEW g, NEW m, NEW n, IsCut(g, f, m, n), NEW t \in 0 .. m
  PROVE  t \in Macd(g) <=> t \in Macd(f)
<1> DEFINE p == Params.macd
           Close(h) == [u \in DOMAIN h |-> h[u].close * Scale]
           Line(h) == [u \in DOMAIN h |-> Ema(Close(h), p.fast)[u] - Ema(Close(h), p.slow)[u]]
<1>1. /\ m \in Nat /\ n \in Nat /\ m <= n /\ t \in 0 .. n
      /\ DOMAIN g = 0 .. m /\ DOMAIN f = 0 .. n
  BY DEF IsCut
<1>2. /\ DOMAIN Close(g) = 0 .. m /\ DOMAIN Close(f) = 0 .. n
      /\ \A u \in 0 .. m : Close(g)[u] = Close(f)[u]
  BY DEF IsCut
<1> HIDE DEF Close
<1>3. ASSUME NEW span PROVE \A u \in 0 .. m : Ema(Close(g), span)[u] = Ema(Close(f), span)[u]
  BY <1>1, <1>2, EmaIsCausal
<1>4. /\ DOMAIN Line(g) = 0 .. m /\ DOMAIN Line(f) = 0 .. n
      /\ \A u \in 0 .. m : Line(g)[u] = Line(f)[u]
  BY <1>1, <1>3
<1>5. /\ t \in Macd(g) <=> Line(g)[t] > Ema(Line(g), p.signal)[t]
      /\ t \in Macd(f) <=> Line(f)[t] > Ema(Line(f), p.signal)[t]
  BY <1>1, Zenon DEF Macd, Close
<1> HIDE DEF Line
<1>6. Ema(Line(g), p.signal)[t] = Ema(Line(f), p.signal)[t]
  BY <1>1, <1>4, EmaIsCausal
<1> QED
  BY <1>4, <1>5, <1>6

LEMMA RsiReversionIsCausal ==
  ASSUME NEW f, NEW g, NEW m, NEW n, IsCut(g, f, m, n), NEW t \in 0 .. m
  PROVE  t \in RsiReversion(g) <=> t \in RsiReversion(f)
<1>1. /\ m \in Nat /\ n \in Nat /\ m <= n
      /\ DOMAIN g = 0 .. m /\ DOMAIN f = 0 .. n
  BY DEF IsCut
<1>2. PICK y : IsPosition(y, f, n) /\ RsiReversion(f) = {u \in 0 .. n : y[u]}
  BY <1>1, RsiReversionIsPosition
<1>3. PICK z : IsPosition(z, g, m) /\ RsiReversion(g) = {u \in 0 .. m : z[u]}
  BY <1>1, RsiReversionIsPosition
<1> DEFINE T == {u \in 0 .. m : z[u] # y[u]}
<1>4. T = {}
  <2> SUFFICES ASSUME T # {} PROVE FALSE
    OBVIOUS
  <2>1. T \subseteq Nat
    OBVIOUS
  <2>2. PICK k \in T : \A j \in T : k <= j
    BY <2>1, SmallestExists
  <2>3. k \in 0 .. m /\ k \in 0 .. n /\ z[k] # y[k]
    BY <2>2, <1>1
  <2>4. /\ y[k] = IF k > 0 /\ y[k - 1] THEN ~Leaves(f, k) ELSE Enters(f, k)
        /\ z[k] = IF k > 0 /\ z[k - 1] THEN ~Leaves(g, k) ELSE Enters(g, k)
    BY <1>2, <1>3, <2>3, Zenon DEF IsPosition
  <2>5. (Enters(g, k) <=> Enters(f, k)) /\ (Leaves(g, k) <=> Leaves(f, k))
    BY <2>3, CrossingsAgree
  <2>6. k > 0 => z[k - 1] = y[k - 1]
    <3>1. k > 0 => k - 1 \in 0 .. m /\ k - 1 \notin T
      BY <1>1, <2>2, <2>3
    <3> QED
      BY <3>1
  <2>7. Enters(g, k) \in BOOLEAN /\ Enters(f, k) \in BOOLEAN
    BY DEF Enters, RsiBelow
  <2>8. Enters(g, k) = Enters(f, k) /\ (~Leaves(g, k)) = (~Leaves(f, k))
    BY <2>5, <2>7
  <2> QED
    BY <2>3, <2>4, <2>6, <2>8, Zenon
<1>5. z[t] = y[t] /\ t \in 0 .. n
  BY <1>1, <1>4
<1> QED
  BY <1>2, <1>3, <1>5, Zenon

\* Each strategy is green on a bar or not by the bars up to that one alone.
LEMMA SignalIsCausal ==
  ASSUME NEW f, NEW g, NEW m, NEW n, IsCut(g, f, m, n), NEW t \in 0 .. m,
         NEW c \in Registry
  PROVE  t \in Signal(c, g) <=> t \in Signal(c, f)
<1>1. /\ t \in DOMAIN f /\ t \in DOMAIN g /\ f[t] = g[t]
  BY DEF IsCut
<1>2. CASE c = "sma_cross"
  <2> DEFINE Crosses(h) ==
        /\ Full(t, Params.sma_cross.fast) /\ Full(t, Params.sma_cross.slow)
        /\ SmaSum(h, "close", t, Params.sma_cross.fast) * Params.sma_cross.slow
             > SmaSum(h, "close", t, Params.sma_cross.slow) * Params.sma_cross.fast
  <2>1. ASSUME NEW w PROVE SmaSum(g, "close", t, w) = SmaSum(f, "close", t, w)
    BY WindowsAgree
  <2>2. Crosses(g) <=> Crosses(f)
    BY <2>1
  <2>3. (t \in SmaCross(g) <=> Crosses(g)) /\ (t \in SmaCross(f) <=> Crosses(f))
    BY <1>1, Zenon DEF SmaCross
  <2>4. t \in SmaCross(g) <=> t \in SmaCross(f)
    BY <2>2, <2>3, Zenon
  <2> QED
    BY <2>4, <1>2 DEF Signal
<1>3. CASE c = "macd"
  BY <1>3, MacdIsCausal DEF Signal
<1>4. CASE c = "rsi_reversion"
  BY <1>4, RsiReversionIsCausal DEF Signal
<1>5. CASE c = "volume_breakout"
  <2>1. ASSUME NEW w, NEW column PROVE SmaSum(g, column, t, w) = SmaSum(f, column, t, w)
    BY WindowsAgree
  <2>2. t \in VolumeBreakout(g) <=> t \in VolumeBreakout(f)
    BY <1>1, <2>1, Zenon DEF VolumeBreakout
  <2> QED
    BY <2>2, <1>5 DEF Signal
<1>6. CASE c = "fibonacci"
  <2>1. /\ {g[u].high : u \in Trailing(g, t, Params.fibonacci.window)}
            = {f[u].high : u \in Trailing(f, t, Params.fibonacci.window)}
        /\ {g[u].low : u \in Trailing(g, t, Params.fibonacci.window)}
            = {f[u].low : u \in Trailing(f, t, Params.fibonacci.window)}
    <3>1. /\ Trailing(g, t, Params.fibonacci.window) = Trailing(f, t, Params.fibonacci.window)
          /\ Trailing(f, t, Params.fibonacci.window) \subseteq 0 .. m
      BY WindowsAgree
    <3>2. \A u \in Trailing(f, t, Params.fibonacci.window) : g[u] = f[u]
      BY <3>1 DEF IsCut
    <3> QED
      BY <3>1, <3>2
  <2>2. t \in Fibonacci(g) <=> t \in Fibonacci(f)
    BY <1>1, <2>1, Zenon DEF Fibonacci
  <2> QED
    BY <2>2, <1>6 DEF Signal
<1> QED
  BY <1>2, <1>3, <1>4, <1>5, <1>6 DEF Registry

-----------------------------------------------------------------------------
(* Warm-up *)

LEMMA MaxOfTwo ==
  ASSUME NEW a \in Int, NEW b \in Int PROVE Max({a, b}) = IF a >= b THEN a ELSE b
<1> DEFINE m == IF a >= b THEN a ELSE b
<1>1. m \in {a, b} /\ \A y \in {a, b} : m >= y
  OBVIOUS
<1>2. \A x \in {a, b} : (\A y \in {a, b} : x >= y) => x = m
  OBVIOUS
<1>3. Max({a, b}) \in {a, b} /\ \A y \in {a, b} : Max({a, b}) >= y
  BY <1>1, Zenon DEF Max
<1> HIDE DEF m
<1>4. Max({a, b}) = m
  BY <1>2, <1>3, Zenon
<1> QED
  BY <1>4 DEF m

\* No strategy is green before its indicator is there.
LEMMA SignalIsReached ==
  ASSUME NEW f, NEW n \in Nat, DOMAIN f = 0 .. n, Numbers(f, n), NEW c \in Registry,
         NEW t \in Signal(c, f)
  PROVE  Reached(c, t)
<1>1. CASE c = "sma_cross"
  BY <1>1 DEF Signal, SmaCross, Reached
<1>2. CASE c = "macd"
  BY <1>2 DEF Reached
<1>3. CASE c = "rsi_reversion"
  <2> DEFINE p == Params.rsi_reversion.period
  <2>1. t \in RsiReversion(f) /\ p \in Int
    BY <1>3, StrategiesAssumption DEF Signal, ParamsTyped
  <2>2. t \in 0 .. n
    BY <2>1 DEF RsiReversion
  <2>3. PICK u \in 0 .. t : Enters(f, u)
    BY <2>1, <2>2, PositionIsALatch
  <2>4. Full(u - 1, p)
    BY <2>3 DEF Enters, RsiBelow, RsiDefined
  <2>5. Full(t - 1, p)
    BY <2>1, <2>2, <2>4 DEF Full
  <2> QED
    BY <1>3, <2>5 DEF Reached
<1>4. CASE c = "volume_breakout"
  BY <1>4 DEF Signal, VolumeBreakout, Reached
<1>5. CASE c = "fibonacci"
  BY <1>5 DEF Signal, Fibonacci, Reached
<1> QED
  BY <1>1, <1>2, <1>3, <1>4, <1>5 DEF Registry

\* Each strategy's warmup_bars are enough for its indicator to have all its bars, and for
\* the EMAs to forget their seed.
LEMMA WarmupsAreEnough ==
  ASSUME NEW c \in Registry, NEW t \in Int, t >= Warmups[c]
  PROVE  Reached(c, t) /\ Settled(c, t)
<1> USE StrategiesAssumption DEF ParamsTyped
<1>1. CASE c = "sma_cross"
  <2>1. /\ Params.sma_cross.fast \in Int /\ Params.sma_cross.slow \in Int
        /\ Params.sma_cross.fast < Params.sma_cross.slow /\ t >= Params.sma_cross.slow
    BY <1>1 DEF ParamsAccepted, SmaCrossAccepted, Warmups, SmaCrossWarmup
  <2> QED
    BY <2>1, <1>1 DEF Reached, Settled, Full
<1>2. CASE c = "macd"
  BY <1>2 DEF Reached, Settled, Warmups, MacdWarmup
<1>3. CASE c = "rsi_reversion"
  <2>1. Params.rsi_reversion.period \in Int /\ t >= Params.rsi_reversion.period + 1
    BY <1>3 DEF Warmups, RsiReversionWarmup
  <2> QED
    BY <2>1, <1>3 DEF Reached, Settled, Full
<1>4. CASE c = "volume_breakout"
  <2> DEFINE p == Params.volume_breakout
  <2>1. p.price_window \in Int /\ p.volume_window \in Int
    OBVIOUS
  <2>2. Warmups[c] = IF p.price_window >= p.volume_window THEN p.price_window ELSE p.volume_window
    BY <1>4, <2>1, MaxOfTwo DEF Warmups, VolumeBreakoutWarmup
  <2>3. t >= p.price_window /\ t >= p.volume_window
    BY <2>1, <2>2
  <2> QED
    BY <2>1, <2>3, <1>4 DEF Reached, Settled, Full
<1>5. CASE c = "fibonacci"
  <2>1. Params.fibonacci.window \in Int /\ t >= Params.fibonacci.window
    BY <1>5 DEF Warmups, FibonacciWarmup
  <2> QED
    BY <2>1, <1>5 DEF Reached, Settled, Full
<1> QED
  BY <1>1, <1>2, <1>3, <1>4, <1>5 DEF Registry

\* A variant is of strategies in use, and each scored window of it begins no earlier than
\* each of them is warm.
WarmInv ==
  /\ sim.variant \subseteq usable /\ \A r \in results : r.variant \subseteq usable
  /\ sim.window # "full" => \A c \in sim.variant : WarmupBars[c] <= sim.start
  /\ \A r \in results :
       r.measured /\ r.window # "full" => \A c \in r.variant : WarmupBars[c] <= r.start

LEMMA WindowIsWarm ==
  ASSUME NEW v \in (SUBSET Components) \ {{}}, NEW window \in Windows, window # "full",
         LongEnough(v, window)
  PROVE  \A c \in v : WarmupBars[c] <= Start(v, window)
<1> USE EngineAssumption
<1> DEFINE top == CHOOSE c \in v : \A d \in v : WarmupBars[d] <= WarmupBars[c]
<1>1. top \in v /\ \A d \in v : WarmupBars[d] <= WarmupBars[top]
  OBVIOUS
<1>2. Warmup(v) = Clamp(WarmupBars[top], N)
  BY DEF Warmup
<1> HIDE DEF top
<1>3. WarmupBars[top] \in Int /\ \A d \in v : WarmupBars[d] \in Int
  BY <1>1
<1>4. Warmup(v) \in 0 .. N /\ Start(v, window) \in 0 .. N /\ Stop(v, window) \in 0 .. N
  BY <1>2, <1>3, ClampInRange, WindowInFrame
<1>5. Warmup(v) <= Start(v, window)
  <2>1. N - Warmup(v) \in 0 .. N
    BY <1>4
  <2>2. TrainBars[N - Warmup(v)] \in Int
    BY <2>1
  <2>3. Clamp(TrainBars[N - Warmup(v)], N - Warmup(v)) \in 0 .. (N - Warmup(v))
    BY <2>1, <2>2, ClampInRange
  <2> QED
    BY <1>4, <2>3 DEF Start, Split, Windows
<1>6. Start(v, window) < Stop(v, window)
  BY <1>4 DEF LongEnough
<1>7. WarmupBars[top] <= Warmup(v)
  BY <1>2, <1>3, <1>4, <1>5, <1>6 DEF Clamp
<1> QED
  BY <1>1, <1>3, <1>4, <1>5, <1>7

LEMMA WarmInvariance == Spec => []WarmInv
<1>1. Init => WarmInv
  BY DEF Init, WarmInv, Idle
<1>2. EInv /\ WarmInv /\ [Next]_vars => WarmInv'
  <2> SUFFICES ASSUME EInv, WarmInv, [Next]_vars PROVE WarmInv'
    OBVIOUS
  <2>1. CASE UNCHANGED vars
    BY <2>1 DEF vars, WarmInv
  <2>2. ASSUME NEW v \in Variants, NEW window \in Windows, Begin(v, window)
        PROVE  WarmInv'
    <3>1. v \in (SUBSET Components) \ {{}} /\ v \subseteq usable /\ usable' = usable
      BY <2>2 DEF EInv, TypeOK, Variants, Begin
    <3>2. /\ sim'.window = window /\ sim'.variant = v /\ sim'.start = Start(v, window)
          /\ results' = results /\ LongEnough(v, window)
      BY <2>2 DEF Begin, Call, Idle
    <3> QED
      BY <3>1, <3>2, WindowIsWarm DEF WarmInv
  <2>3. ASSUME NEW v \in Variants, NEW window \in Windows, TooShort(v, window)
        PROVE  WarmInv'
    BY <2>3 DEF TooShort, WarmInv, Variants
  <2>4. CASE Bar
    <3>1. /\ sim'.window = sim.window /\ sim'.variant = sim.variant /\ sim'.start = sim.start
          /\ results' = results /\ usable' = usable
      BY <2>4 DEF EInv, TypeOK, Sim, Bar
    <3> QED
      BY <3>1 DEF WarmInv
  <2>5. CASE Finish
    BY <2>5 DEF Finish, WarmInv, Idle
  <2> QED
    BY <2>1, <2>2, <2>3, <2>4, <2>5 DEF Next
<1> QED
  BY <1>1, <1>2, EngineInvariance, PTL DEF Spec

-----------------------------------------------------------------------------
(* An asset's backtest *)

\* What the variants are made of is what the strategies said of the asset's frame.
SignalsThere ==
  /\ IsInput(input) /\ usable = Applicable(input)
  /\ green = [c \in Components |-> IF c \in usable THEN Signal(c, input.frame) ELSE {}]

\* Nothing recomputes or changes them.
LEMMA SignalsStay == BacktestSpec => []SignalsThere
<1>1. BacktestInit => SignalsThere
  BY BacktestAssumption DEF BacktestInit, SignalsThere
<1>2. SignalsThere /\ [BacktestNext]_backtestVars => SignalsThere'
  <2> SUFFICES ASSUME SignalsThere, [BacktestNext]_backtestVars PROVE SignalsThere'
    OBVIOUS
  <2>1. UNCHANGED <<input, usable, green>>
    BY DEF BacktestNext, backtestVars, Next, Begin, TooShort, Bar, Finish, vars
  <2> QED
    BY <2>1 DEF SignalsThere
<1> QED
  BY <1>1, <1>2, PTL DEF BacktestSpec

\* What the other lemmas ask of a frame holds of the asset's.
LEMMA FrameOfInput ==
  ASSUME SignalsThere
  PROVE  /\ N - 1 \in Nat /\ Bars = 0 .. N - 1
         /\ DOMAIN input.frame = 0 .. N - 1 /\ Numbers(input.frame, N - 1)
         /\ Components = Registry /\ usable \subseteq Registry
         /\ \A c \in usable : green[c] = Signal(c, input.frame)
<1>1. N - 1 \in Nat /\ Bars = 0 .. N - 1 /\ Components = Registry
  BY EngineAssumption, BacktestAssumption DEF Bars
<1>2. input.frame \in [Bars -> Candle] /\ input.configured \subseteq Registry
  BY DEF SignalsThere, IsInput
<1>3. usable \subseteq Registry
  BY <1>2 DEF SignalsThere, Applicable, Kept, StrategiesFor
<1>4. Numbers(input.frame, N - 1)
  BY <1>1, <1>2 DEF Numbers, Candle
<1> QED
  BY <1>1, <1>2, <1>3, <1>4 DEF SignalsThere

LEMMA SignalsThereAreCausal ==
  ASSUME SignalsThere, NEW c \in usable, NEW t \in Bars
  PROVE  t \in green[c] <=> t \in Signal(c, Until(t))
<1>1. IsCut(Until(t), input.frame, t, N - 1)
  BY FrameOfInput DEF IsCut, Until
<1>2. t \in 0 .. t /\ c \in Registry /\ green[c] = Signal(c, input.frame)
  BY FrameOfInput
<1> QED
  BY <1>1, <1>2, SignalIsCausal

\* For frames of any length and any prices: had the frame ended at a bar, each strategy, the
\* EMAs and the RSI's loop included, would have given that bar the same signal.
THEOREM SignalsSeeNoFuture == BacktestSpec => []SignalsAreCausal
<1>1. SignalsThere => SignalsAreCausal
  BY SignalsThereAreCausal DEF SignalsAreCausal
<1> QED
  BY <1>1, SignalsStay, PTL

\* The position of RsiReversion's loop is the last crossing that meant something, however
\* long ago and whatever was undefined since.
THEOREM RsiReversionIsALatch == BacktestSpec => []RsiIsALatch
<1>1. SignalsThere => RsiIsALatch
  <2> SUFFICES ASSUME SignalsThere, "rsi_reversion" \in usable PROVE RsiIsALatch
    BY DEF RsiIsALatch
  <2>1. green["rsi_reversion"] = RsiReversion(input.frame)
    BY FrameOfInput DEF Signal
  <2>2. \A t \in Bars :
          t \in RsiReversion(input.frame) <=>
            \E u \in 0 .. t : Enters(input.frame, u) /\ \A w \in u + 1 .. t : ~Leaves(input.frame, w)
    BY FrameOfInput, PositionIsALatch
  <2> QED
    BY <2>1, <2>2, Zenon DEF RsiIsALatch, Enters, Leaves
<1> QED
  BY <1>1, SignalsStay, PTL

\* No strategy is green on a partial indicator, and every scored window of a variant
\* begins where each of its strategies has all its bars and its EMAs have forgotten their
\* seed, however long the warm-ups are.
THEOREM ScoredWindowsAreWarm == BacktestSpec => []WindowsAreWarm
<1>1. SignalsThere /\ TypeOK /\ WarmInv => WindowsAreWarm
  <2> SUFFICES ASSUME SignalsThere, TypeOK, WarmInv PROVE WindowsAreWarm
    OBVIOUS
  <2>1. ASSUME NEW c \in usable, NEW t \in green[c] PROVE Reached(c, t)
    BY FrameOfInput, SignalIsReached
  <2>2. ASSUME NEW r \in results, r.measured, r.window # "full",
               NEW c \in r.variant, NEW t \in r.start .. r.stop - 1
        PROVE  Reached(c, t) /\ Settled(c, t)
    <3>1. c \in Registry /\ t \in Int /\ r.start <= t /\ r.start \in Int /\ WarmupBars[c] <= r.start
      BY <2>2, FrameOfInput, EngineAssumption DEF TypeOK, Result, WarmInv
    <3>2. WarmupBars[c] \in Int /\ WarmupBars[c] = Warmups[c]
      BY <3>1, EngineAssumption, BacktestAssumption
    <3>3. t >= Warmups[c]
      BY <3>1, <3>2
    <3> QED
      BY <3>1, <3>3, WarmupsAreEnough
  <2> QED
    BY <2>1, <2>2 DEF WindowsAreWarm
<1> QED
  BY <1>1, SignalsStay, BacktestIsEngine, EngineTypeCorrect, WarmInvariance, PTL

\* What a variant of the five strategies trades on a bar, in any window, is what they said
\* of the frame as it was when the bar before closed.
THEOREM VariantsTradeOnThePast == BacktestSpec => []TradesOnThePast
<1>1. SignalsThere /\ TypeOK /\ WarmInv /\ HeldIsSignalled => TradesOnThePast
  <2> SUFFICES ASSUME SignalsThere, TypeOK, WarmInv, HeldIsSignalled,
                      NEW r \in results, r.measured
               PROVE  r.held = {a \in r.start + 1 .. r.stop - 1 :
                                  \A c \in r.variant : a - 1 \in Signal(c, Until(a - 1))}
    BY DEF TradesOnThePast
  <2>1. /\ r.held = {a \in r.start + 1 .. r.stop - 1 : IsGreen(r.variant, a - 1)}
        /\ r.variant \subseteq usable /\ r.start \in 0 .. N /\ r.stop \in 0 .. N
    BY DEF HeldIsSignalled, WarmInv, TypeOK, Result
  <2>2. ASSUME NEW a \in r.start + 1 .. r.stop - 1, NEW c \in r.variant
        PROVE  a - 1 \in green[c] <=> a - 1 \in Signal(c, Until(a - 1))
    <3>1. a - 1 \in Bars /\ c \in usable
      BY <2>1, EngineAssumption DEF Bars
    <3> QED
      BY <3>1, SignalsThereAreCausal
  <2> QED
    BY <2>1, <2>2 DEF IsGreen
<1> QED
  BY <1>1, SignalsStay, WarmInvariance, BacktestIsEngine, EngineTypeCorrect, NoLookAhead, PTL

\* The completed stays of a variant of the five strategies are counted once.
THEOREM BacktestCountsRoundTrips == BacktestSpec => []RoundTripsAreStays
  BY BacktestIsEngine, RoundTripsCounted, PTL

\* Over the full period no combination of the five strategies adds exposure.
THEOREM BacktestCombinationsFilter == BacktestSpec => []CombinationsOnlyFilter
  BY BacktestIsEngine, CombinationsFilter, PTL
=============================================================================

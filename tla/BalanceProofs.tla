--------------------------- MODULE BalanceProofs ---------------------------
(***************************************************************************)
(* Proofs that Upstream balances its load, for any number of targets and   *)
(* callers, any weights and any width of the counters: what round robin    *)
(* deals out, and whom least connections returns.                          *)
(***************************************************************************)
EXTENDS UpstreamProofs, FiniteSetTheorems, WellFoundedInduction

-----------------------------------------------------------------------------
(* Least connections.  A call during which nothing else happened compares  *)
(* what it would compare in one instant.                                   *)

\* Does m score no higher than t?
NoHigher(m, t) ==
  connections[m] * AtLeastOne(Weight[t]) <= connections[t] * AtLeastOne(Weight[m])

Listed(c, t) == \E i \in 1..Len(list[c]) : list[c][i] = t
AllHealthyListed(c) == \A t \in Targets : healthy[t] => Listed(c, t)
OnlyHealthyListed(c) == \A i \in 1..Len(list[c]) : healthy[list[c][i]]

\* The running minimum is one, of what the scan has compared.
MinimumSoFar(c) ==
  /\ healthy[target[c]]
  /\ \A i \in 1..Len(list[c]) : i < pos[c] => NoHigher(target[c], list[c][i])

\* A call of LeastConnections during which nothing else happened.
Undisturbed(c) == strategy = "LeastConnections" /\ quiet[c]

QuietCall(c) == Undisturbed(c) =>
  /\ pc[c] = "filter" =>
       /\ OnlyHealthyListed(c)
       /\ \A t \in Targets : t < pos[c] /\ healthy[t] => Listed(c, t)
  /\ pc[c] \in {"left", "right"} =>
       AllHealthyListed(c) /\ OnlyHealthyListed(c) /\ MinimumSoFar(c)
  /\ pc[c] = "right" => score[c] = connections[target[c]]
  /\ pc[c] = "selected" /\ target[c] # NoTarget =>
       \A t \in Targets : healthy[t] => NoHigher(target[c], t)

QuietInv == IInv /\ \A c \in Callers : QuietCall(c)

-----------------------------------------------------------------------------
(* Round robin.  A round of the counter is divided into as many slots as   *)
(* the targets have together; those of target t end at Until(t).           *)

\* The sums of the first weights.
IsPrefixSums(f, n) ==
  /\ f \in [0..n -> Nat]
  /\ f[0] = 0
  /\ \A t \in 1..n : f[t] = f[t-1] + Weight[t]

WeightsUntil == CHOOSE f \in [0..NumTargets -> Nat] : IsPrefixSums(f, NumTargets)

Until(t) == IF strategy = "RoundRobin" THEN t ELSE WeightsUntil[t]
Round == Until(NumTargets)

\* s is what a scan collects of the targets before p, when all are healthy.
IsScan(s, p) ==
  /\ p \in 1..(NumTargets + 1)
  /\ Len(s) = Until(p - 1)
  /\ \A i \in 1..Len(s) : s[i] < p
  /\ \A t \in Targets : t < p =>
       /\ Until(t) <= Len(s)
       /\ \A i \in 1..Len(s) : s[i] = t <=> Until(t - 1) < i /\ i <= Until(t)

Scans(c) ==
  pc[c] = "weigh" \/ (pc[c] = "filter" /\ strategy = "RoundRobin")

ScanInv == flapped = {} =>
  /\ \A t \in Targets : healthy[t]
  /\ \A c \in Callers : Scans(c) => IsScan(list[c], pos[c])

\* Those of the first r slots of a round that belong to target t.
Part(t, r) ==
  IF r <= Until(t - 1) THEN 0
  ELSE IF r <= Until(t) THEN r - Until(t - 1)
  ELSE Slots(t)

\* base is what was picked before the counter last wrapped; since then q
\* rounds and r slots were handed out.
Dealt(base, q, r) ==
  /\ counter = q * Round + r
  /\ r < Round \/ (q = 0 /\ r = 0)
  /\ \A t \in Targets : picks[t] = base[t] + (q * Slots(t) + Part(t, r))
  /\ \A t, u \in Targets :
       base[t] * Slots(u) <= base[u] * Slots(t) + wraps * (Slots(t) * Slots(u))

ShareInv == flapped = {} =>
  \E base \in [Targets -> Nat], q \in Nat, r \in Nat : Dealt(base, q, r)
-----------------------------------------------------------------------------
(* Proofs: least connections *)

\* To score no higher is a total preorder.
LEMMA NoHigherFacts ==
  ASSUME TypeOK, NEW m \in Targets, NEW t \in Targets, NEW u \in Targets
  PROVE  /\ NoHigher(m, m)
         /\ NoHigher(m, t) \/ NoHigher(t, m)
         /\ NoHigher(m, t) /\ NoHigher(t, u) => NoHigher(m, u)
<1> DEFINE a == connections[m]  b == connections[t]  d == connections[u]
           x == AtLeastOne(Weight[m])  y == AtLeastOne(Weight[t])  z == AtLeastOne(Weight[u])
<1>1. a \in Nat /\ b \in Nat /\ d \in Nat
  BY SizesAssumption DEF TypeOK
<1>2. x \in Nat \ {0} /\ y \in Nat \ {0} /\ z \in Nat \ {0}
  BY WeightAssumption DEF AtLeastOne
<1>3. NoHigher(m, m) /\ (NoHigher(m, t) \/ NoHigher(t, m))
  <2>1. a * x \in Nat /\ a * y \in Nat /\ b * x \in Nat
    BY <1>1, <1>2
  <2> HIDE DEF a, b, x, y
  <2>2. a * x <= a * x /\ (a * y <= b * x \/ b * x <= a * y)
    BY <2>1
  <2> QED
    BY <2>2 DEF NoHigher, a, b, x, y
<1>4. ASSUME NoHigher(m, t), NoHigher(t, u) PROVE NoHigher(m, u)
  <2>1. a * y <= b * x /\ b * z <= d * y
    BY <1>4 DEF NoHigher
  <2> HIDE DEF a, b, d, x, y, z
  <2>2. a * y * z <= b * x * z /\ b * z * x <= d * y * x
    BY <1>1, <1>2, <2>1
  <2>3. (a * z) * y <= (d * x) * y
    BY <1>1, <1>2, <2>2
  <2>4. a * z <= d * x
    BY <1>1, <1>2, <2>3
  <2> QED
    BY <2>4 DEF NoHigher, a, d, x, z
<1> QED
  BY <1>3, <1>4

\* A step that leaves alone what a call reads, or disturbs it.
LEMMA QuietKept ==
  ASSUME NEW c \in Callers, QuietCall(c), strategy' = strategy,
         \/ ~quiet'[c]
         \/ /\ UNCHANGED <<healthy, connections, pc[c], pos[c], list[c], target[c], score[c]>>
            /\ quiet'[c] => quiet[c]
  PROVE  QuietCall(c)'
<1>1. CASE ~quiet'[c]
  BY <1>1 DEF QuietCall, Undisturbed
<1>2. CASE /\ UNCHANGED <<healthy, connections, pc[c], pos[c], list[c], target[c], score[c]>>
           /\ quiet'[c] => quiet[c]
  BY <1>2 DEF QuietCall, Undisturbed, OnlyHealthyListed, AllHealthyListed,
              Listed, MinimumSoFar, NoHigher
<1> QED
  BY <1>1, <1>2

\* Every action keeps what an undisturbed call knows.
LEMMA QuietStep ==
  ASSUME QuietInv, [Next]_vars, NEW c \in Callers
  PROVE  QuietCall(c)'
<1>t. TypeOK /\ MinimumInList /\ QuietCall(c) /\ WeighOnlyWeighted
  BY DEF QuietInv, IInv, TypeInv
<1> USE DEF TypeOK
<1>1. ASSUME NEW d \in Callers, d # c, Call(d) \/ Step(d) \/ GiveUp(d) PROVE QuietCall(c)'
  <2>1. /\ strategy' = strategy
        /\ UNCHANGED <<healthy, connections, pc[c], pos[c], list[c], target[c], score[c]>>
        /\ quiet'[c] => quiet[c]
    <3>1. CASE Call(d) \/ GiveUp(d)
      BY <1>t, <1>1, <3>1 DEF Call, GiveUp, Leave, shared
    <3>2. CASE Filter(d) \/ NoHealthyTarget(d) \/ SelectRandom(d) \/ Weigh(d) \/ StartWeighted(d)
      BY <1>t, <1>1, <3>2 DEF Filter, NoHealthyTarget, SelectRandom, Filtered, Weigh,
                        StartWeighted, Return, shared, history
    <3>3. CASE SelectRoundRobin(d) \/ SelectWeighted(d)
      BY <1>t, <1>1, <3>3
         DEF SelectRoundRobin, SelectWeighted, Filtered, TakeTurn, Return, shared, history
    <3>4. CASE StartLeastConnections(d) \/ ScoreLeft(d) \/ SelectLeastConnections(d)
      BY <1>t, <1>1, <3>4 DEF StartLeastConnections, ScoreLeft, SelectLeastConnections, Filtered,
                        Return, shared, history
    <3>5. CASE ScoreRight(d)
      <4>1. target' = target \/ \E r : target' = [target EXCEPT ![d] = r]
        BY <3>5 DEF ScoreRight
      <4> QED
        BY <1>t, <1>1, <3>5, <4>1 DEF ScoreRight, shared, history
    <3> QED
      BY <1>1, <3>1, <3>2, <3>3, <3>4, <3>5 DEF Step
  <2> QED
    BY <1>t, <2>1, QuietKept
<1>2. ASSUME NEW d \in Callers, d # c, Begin(d) \/ End(d) PROVE QuietCall(c)'
  <2>1. ~quiet'[c] /\ strategy' = strategy
    BY <1>2 DEF Begin, End, Leave, OthersDisturbed
  <2> QED
    BY <1>t, <2>1, QuietKept
<1>3. CASE Call(c)
  <2>1. pc'[c] = "filter" /\ pos'[c] = 1 /\ list'[c] = <<>>
    BY <1>t, <1>3 DEF Call, QuietInv, IInv, AtRest
  <2> QED
    BY <2>1 DEF QuietCall, OnlyHealthyListed, Targets
<1>4. CASE Filter(c)
  <2> SUFFICES ASSUME Undisturbed(c)
               PROVE  /\ OnlyHealthyListed(c)'
                      /\ \A t \in Targets : t < pos'[c] /\ healthy'[t] => Listed(c, t)'
    BY <1>t, <1>4 DEF Filter, QuietCall, Undisturbed, history, shared
  <2>1. pos[c] \in Targets /\ pos'[c] = pos[c] + 1 /\ healthy' = healthy
    BY <1>t, <1>4, SizesAssumption DEF Filter, Exhausted, Advance, Targets, shared
  <2>2. OnlyHealthyListed(c) /\ \A t \in Targets : t < pos[c] /\ healthy[t] => Listed(c, t)
    BY <1>t, <1>4 DEF Filter, QuietCall
  <2>3. CASE healthy[pos[c]]
    <3>1. list'[c] = Append(list[c], pos[c])
      BY <1>t, <1>4, <2>3 DEF Filter, IsHealthy
    <3>2. /\ Len(list'[c]) = Len(list[c]) + 1 /\ Len(list[c]) \in Nat
          /\ list'[c][Len(list[c]) + 1] = pos[c]
          /\ \A i \in 1..Len(list[c]) : list'[c][i] = list[c][i]
      BY <1>t, <3>1
    <3>3. \A t \in Targets : t < pos[c] \/ t = pos[c] \/ ~(t < pos'[c])
      BY <2>1 DEF Targets
    <3>4. ASSUME NEW t \in Targets, Listed(c, t) \/ t = pos[c] PROVE Listed(c, t)'
      <4>1. CASE Listed(c, t)
        <5>1. PICK i \in 1..Len(list[c]) : list[c][i] = t
          BY <4>1 DEF Listed
        <5>2. i \in 1..Len(list'[c]) /\ list'[c][i] = t
          BY <3>2, <5>1
        <5> QED
          BY <5>2 DEF Listed
      <4>2. CASE t = pos[c]
        <5>1. Len(list[c]) + 1 \in 1..Len(list'[c])
          BY <3>2
        <5> QED
          BY <3>2, <4>2, <5>1 DEF Listed
      <4> QED
        BY <3>4, <4>1, <4>2
    <3>5. OnlyHealthyListed(c)'
      BY <2>1, <2>2, <2>3, <3>2 DEF OnlyHealthyListed
    <3> QED
      BY <2>1, <2>2, <3>3, <3>4, <3>5
  <2>4. CASE ~healthy[pos[c]]
    <3>1. list' = list
      BY <1>4, <2>4 DEF Filter, IsHealthy
    <3> QED
      BY <2>1, <2>2, <2>4, <3>1 DEF OnlyHealthyListed, Listed, Targets
  <2> QED
    BY <2>3, <2>4
<1>5. CASE StartLeastConnections(c)
  <2> SUFFICES ASSUME Undisturbed(c)
               PROVE  AllHealthyListed(c)' /\ OnlyHealthyListed(c)' /\ MinimumSoFar(c)'
    BY <1>t, <1>5 DEF StartLeastConnections, Filtered, QuietCall, Undisturbed, history, shared
  <2>1. OnlyHealthyListed(c) /\ \A t \in Targets : t < pos[c] /\ healthy[t] => Listed(c, t)
    BY <1>t, <1>5 DEF StartLeastConnections, Filtered, QuietCall
  <2>2. AllHealthyListed(c)
    BY <1>t, <1>5, <2>1, SizesAssumption
       DEF StartLeastConnections, Filtered, Exhausted, AllHealthyListed, Targets
  <2>3. list[c] \in Seq(Targets) /\ Len(list[c]) \in Nat \ {0} /\ list[c][1] \in Targets
    BY <1>t, <1>5 DEF StartLeastConnections, Filtered
  <2>4. /\ target'[c] = list[c][1] /\ pos'[c] = 2
        /\ UNCHANGED <<list, healthy, connections>>
    BY <1>t, <1>5 DEF StartLeastConnections, shared
  <2>5. NoHigher(list[c][1], list[c][1])
    BY <1>t, <2>3, NoHigherFacts
  <2>6. MinimumSoFar(c)'
    <3>1. healthy[list[c][1]]
      BY <2>1, <2>3 DEF OnlyHealthyListed
    <3>2. \A i \in 1..Len(list[c]) : i < 2 => i = 1
      OBVIOUS
    <3> QED
      BY <2>4, <2>5, <3>1, <3>2 DEF MinimumSoFar, NoHigher
  <2> QED
    BY <2>1, <2>2, <2>4, <2>6 DEF AllHealthyListed, OnlyHealthyListed, Listed
<1>6. CASE ScoreLeft(c)
  <2> SUFFICES ASSUME Undisturbed(c)
               PROVE  /\ AllHealthyListed(c)' /\ OnlyHealthyListed(c)' /\ MinimumSoFar(c)'
                      /\ score'[c] = connections'[target'[c]]
    BY <1>t, <1>6 DEF ScoreLeft, QuietCall, Undisturbed, history, shared
  <2>1. AllHealthyListed(c) /\ OnlyHealthyListed(c) /\ MinimumSoFar(c)
    BY <1>t, <1>6 DEF ScoreLeft, QuietCall
  <2>2. /\ score'[c] = Score(target[c])
        /\ UNCHANGED <<list, healthy, connections, target, pos>>
    BY <1>t, <1>6 DEF ScoreLeft, shared
  <2> QED
    BY <2>1, <2>2 DEF AllHealthyListed, OnlyHealthyListed, MinimumSoFar, Listed,
                      Score, IsHealthy, NoHigher
<1>7. CASE ScoreRight(c)
  <2> SUFFICES ASSUME Undisturbed(c)
               PROVE  AllHealthyListed(c)' /\ OnlyHealthyListed(c)' /\ MinimumSoFar(c)'
    BY <1>t, <1>7 DEF ScoreRight, QuietCall, Undisturbed, history, shared
  <2>1. /\ AllHealthyListed(c) /\ OnlyHealthyListed(c) /\ MinimumSoFar(c)
        /\ score[c] = connections[target[c]]
    BY <1>t, <1>7 DEF ScoreRight, QuietCall
  <2>2. /\ pos'[c] = pos[c] + 1
        /\ UNCHANGED <<list, healthy, connections>>
    BY <1>t, <1>7 DEF ScoreRight, shared
  <2> DEFINE rival == list[c][pos[c]]
  <2>3. rival \in Targets /\ target[c] \in Targets /\ pos[c] \in 1..Len(list[c])
    BY <1>t, <1>7 DEF ScoreRight, MinimumInList
  <2>4. healthy[rival] /\ healthy[target[c]]
    BY <2>1, <2>3 DEF OnlyHealthyListed, MinimumSoFar
  <2>5. /\ Outscores(score[c], target[c], Score(rival), rival) <=> ~NoHigher(target[c], rival)
        /\ target'[c] \in {target[c], rival}
        /\ target'[c] = IF Outscores(score[c], target[c], Score(rival), rival)
                        THEN rival ELSE target[c]
    <3>1. score[c] = connections[target[c]] /\ Score(rival) = connections[rival]
      BY <2>1, <2>4 DEF Score, IsHealthy
    <3>2. connections[target[c]] # Infinity /\ connections[rival] # Infinity
      BY <1>t, <2>3, SizesAssumption DEF Infinity
    <3>3. connections[target[c]] * AtLeastOne(Weight[rival]) \in Nat
          /\ connections[rival] * AtLeastOne(Weight[target[c]]) \in Nat
      <4>1. connections[target[c]] \in Nat /\ connections[rival] \in Nat
        BY <1>t, <2>3, SizesAssumption
      <4>2. AtLeastOne(Weight[rival]) \in Nat /\ AtLeastOne(Weight[target[c]]) \in Nat
        BY <2>3, WeightAssumption DEF AtLeastOne
      <4> HIDE DEF rival
      <4> QED
        BY <4>1, <4>2
    <3>4. Outscores(score[c], target[c], Score(rival), rival) <=> ~NoHigher(target[c], rival)
      <4> HIDE DEF rival
      <4> QED
        BY <3>1, <3>2, <3>3 DEF Outscores, NoHigher
    <3> QED
      BY <1>t, <1>7, <3>4 DEF ScoreRight
  <2>6. /\ target'[c] \in Targets /\ healthy[target'[c]]
        /\ NoHigher(target'[c], target[c]) /\ NoHigher(target'[c], rival)
    <3> HIDE DEF rival
    <3> QED
      BY <1>t, <2>3, <2>4, <2>5, NoHigherFacts
  <2>7. ASSUME NEW i \in 1..Len(list[c]), i < pos'[c] PROVE NoHigher(target'[c], list[c][i])
    <3>1. CASE i < pos[c]
      <4>1. NoHigher(target[c], list[c][i]) /\ list[c][i] \in Targets
        BY <1>t, <2>1, <3>1 DEF MinimumSoFar
      <4> QED
        BY <1>t, <2>3, <2>6, <4>1, NoHigherFacts
    <3>2. CASE i = pos[c]
      BY <2>6, <3>2
    <3> QED
      BY <2>2, <2>3, <2>7, <3>1, <3>2
  <2> QED
    BY <2>1, <2>2, <2>6, <2>7 DEF AllHealthyListed, OnlyHealthyListed, MinimumSoFar, Listed, NoHigher
<1>8. CASE SelectLeastConnections(c)
  <2>0. pc'[c] = "selected" /\ quiet' = quiet /\ strategy' = strategy
    BY <1>t, <1>8 DEF SelectLeastConnections, Return, history, shared
  <2> SUFFICES ASSUME Undisturbed(c)
               PROVE  \A t \in Targets : healthy'[t] => NoHigher(target[c], t)'
    BY <2>0 DEF QuietCall, Undisturbed
  <2>1. AllHealthyListed(c) /\ MinimumSoFar(c)
    BY <1>t, <1>8 DEF SelectLeastConnections, QuietCall
  <2>2. target'[c] = target[c] /\ UNCHANGED <<healthy, connections>>
    BY <1>t, <1>8 DEF SelectLeastConnections, Return, shared
  <2>3. \A i \in 1..Len(list[c]) : i < pos[c]
    BY <1>t, <1>8 DEF SelectLeastConnections
  <2>4. \A t \in Targets : healthy[t] => NoHigher(target[c], t)
    BY <2>1, <2>3 DEF AllHealthyListed, MinimumSoFar, Listed
  <2> QED
    BY <2>2, <2>4 DEF NoHigher
<1>9. CASE NoHealthyTarget(c)
  <2>1. pc'[c] = "selected" /\ target'[c] = NoTarget
    BY <1>t, <1>9 DEF NoHealthyTarget, Return
  <2> QED
    BY <2>1 DEF QuietCall
<1>10. CASE \/ SelectRoundRobin(c) \/ SelectRandom(c)
            \/ StartWeighted(c) \/ Weigh(c) \/ SelectWeighted(c)
  <2>1. strategy # "LeastConnections" /\ strategy' = strategy
    BY <1>t, <1>10 DEF SelectRoundRobin, SelectRandom, StartWeighted, Weigh, SelectWeighted,
                       Filtered, TakeTurn, WeighOnlyWeighted, shared
  <2> QED
    BY <2>1 DEF QuietCall, Undisturbed
<1>11. CASE Begin(c) \/ End(c) \/ GiveUp(c)
  <2>1. pc'[c] \in {"serving", "idle"}
    BY <1>t, <1>11 DEF Begin, End, GiveUp, Leave
  <2> QED
    BY <2>1 DEF QuietCall
<1>12. ASSUME NEW t \in Flapping, NEW h \in BOOLEAN, SetHealthy(t, h) PROVE QuietCall(c)'
  <2>1. ~quiet'[c] /\ strategy' = strategy
    BY <1>12 DEF SetHealthy
  <2> QED
    BY <1>t, <2>1, QuietKept
<1>13. CASE UNCHANGED vars
  BY <1>t, <1>13, QuietKept DEF vars, shared, locals, history
<1>14. ASSUME NEW d \in Callers, Call(d) \/ Step(d) \/ Begin(d) \/ End(d) \/ GiveUp(d)
       PROVE  QuietCall(c)'
  <2>1. CASE d # c
    BY <1>1, <1>2, <1>14, <2>1
  <2>2. CASE d = c
    BY <1>3, <1>4, <1>5, <1>6, <1>7, <1>8, <1>9, <1>10, <1>11, <1>14, <2>2 DEF Step
  <2> QED
    BY <2>1, <2>2
<1> QED
  BY <1>12, <1>13, <1>14 DEF Next

\* LeastConnections returns a target that no healthy one undercuts, for its
\* weight, if nothing else happened during the call: whatever the atomics hold,
\* and however often min_by reads them (upstream.rs:65-74, target.rs:78-87).
THEOREM LowestScoreCorrect == Spec => []LowestScore
<1>1. Init => QuietInv
  BY IInvInit DEF Init, QuietInv, QuietCall
<1>2. QuietInv /\ [Next]_vars => QuietInv'
  BY IInvStep, QuietStep DEF QuietInv
<1>3. QuietInv => LowestScore
  <2> SUFFICES ASSUME QuietInv, NEW c \in Callers,
                      strategy = "LeastConnections", pc[c] = "selected", quiet[c],
                      target[c] # NoTarget, NEW t \in Targets, healthy[t]
               PROVE  connections[target[c]] * AtLeastOne(Weight[t])
                        <= connections[t] * AtLeastOne(Weight[target[c]])
    BY DEF LowestScore
  <2>1. NoHigher(target[c], t)
    BY DEF QuietInv, QuietCall, Undisturbed
  <2> QED
    BY <2>1 DEF NoHigher
<1> QED
  BY <1>1, <1>2, <1>3, PTL DEF Spec

-----------------------------------------------------------------------------
(* Proofs: round robin *)

\* There are prefix sums of the weights.
LEMMA PrefixSums == IsPrefixSums(WeightsUntil, NumTargets)
<1> DEFINE Has(n) == \E f \in [0..n -> Nat] : IsPrefixSums(f, n)
           Bad == {n \in 0..NumTargets : ~Has(n)}
<1>1. Has(0)
  <2>1. [t \in 0..0 |-> 0] \in [0..0 -> Nat] /\ 1..0 = {}
    OBVIOUS
  <2>2. IsPrefixSums([t \in 0..0 |-> 0], 0)
    BY <2>1 DEF IsPrefixSums
  <2> QED
    BY <2>1, <2>2
<1>2. ASSUME NEW n \in 1..NumTargets, Has(n - 1) PROVE Has(n)
  <2>1. PICK f \in [0..(n-1) -> Nat] : IsPrefixSums(f, n - 1)
    BY <1>2
  <2> DEFINE g == [t \in 0..n |-> IF t = n THEN f[n-1] + Weight[n] ELSE f[t]]
  <2>2. n \in Nat \ {0} /\ n - 1 \in 0..(n-1) /\ Weight[n] \in Nat /\ f[n-1] \in Nat
    BY SizesAssumption, WeightAssumption DEF Targets
  <2>3. \A t \in 0..n : t = n \/ t \in 0..(n-1)
    BY <2>2
  <2>4. g \in [0..n -> Nat]
    BY <2>2, <2>3
  <2>5. g[0] = 0
    BY <2>1, <2>2 DEF IsPrefixSums
  <2>6. \A t \in 1..n : g[t] = g[t-1] + Weight[t]
    <3> TAKE t \in 1..n
    <3>1. CASE t = n
      <4>1. g[n] = f[n-1] + Weight[n] /\ g[n-1] = f[n-1]
        BY <2>2
      <4> QED
        BY <3>1, <4>1
    <3>2. CASE t # n
      <4>1. t \in 1..(n-1) /\ t \in 0..n /\ t - 1 \in 0..n /\ t - 1 # n
        BY <2>2, <3>2
      <4>2. f[t] = f[t-1] + Weight[t]
        BY <2>1, <4>1 DEF IsPrefixSums
      <4> QED
        BY <3>2, <4>1, <4>2
    <3> QED
      BY <3>1, <3>2
  <2> QED
    BY <2>4, <2>5, <2>6 DEF IsPrefixSums
<1> HIDE DEF Has
<1>3. Bad = {}
  <2> SUFFICES ASSUME Bad # {} PROVE FALSE
    OBVIOUS
  <2>1. Bad \subseteq Nat
    BY SizesAssumption
  <2>2. PICK n \in Bad : \A m \in Bad : ~(<<m, n>> \in OpToRel(<, Nat))
    BY <2>1, NatLessThanWellFounded, WFMin
  <2>3. \A m \in Bad : ~(m < n)
    BY <2>1, <2>2 DEF OpToRel
  <2>4. n \in 1..NumTargets
    BY <1>1, SizesAssumption
  <2>5. n - 1 \in 0..NumTargets /\ n - 1 < n
    BY <2>4, SizesAssumption
  <2>6. Has(n - 1)
    BY <2>3, <2>5
  <2> QED
    BY <1>2, <2>4, <2>6
<1>4. Has(NumTargets)
  BY <1>3, SizesAssumption
<1> QED
  BY <1>4 DEF Has, WeightsUntil

\* The slots of a target follow those of the one before it.
LEMMA SlotFacts ==
  /\ Until(0) = 0
  /\ \A t \in 0..NumTargets : Until(t) \in Nat
  /\ \A t \in Targets : /\ Slots(t) \in Nat
                        /\ t - 1 \in 0..NumTargets /\ t \in 0..NumTargets
                        /\ Until(t) = Until(t - 1) + Slots(t)
<1>1. \A t \in Targets : t - 1 \in 0..NumTargets /\ t \in 0..NumTargets /\ (t - 1) + 1 = t
  BY SizesAssumption DEF Targets
<1>2. CASE strategy = "RoundRobin"
  BY <1>1, <1>2, SizesAssumption DEF Until, Slots
<1>3. CASE strategy # "RoundRobin"
  <2>1. /\ WeightsUntil \in [0..NumTargets -> Nat]
        /\ WeightsUntil[0] = 0
        /\ \A t \in Targets : WeightsUntil[t] = WeightsUntil[t-1] + Weight[t]
    BY PrefixSums DEF IsPrefixSums, Targets
  <2> QED
    BY <1>1, <1>3, <2>1, WeightAssumption DEF Until, Slots
<1> QED
  BY <1>2, <1>3

\* A round has a number of slots, which may be 0.
LEMMA RoundType == Round \in Nat
BY SlotFacts, SizesAssumption DEF Round

\* A scan that meets a healthy target adds its slots.
LEMMA ScanNext ==
  ASSUME NEW s \in Seq(Targets), NEW p \in Targets, IsScan(s, p),
         NEW r \in Seq(Targets), Len(r) = Slots(p), \A i \in 1..Len(r) : r[i] = p
  PROVE  IsScan(s \o r, p + 1)
<1> DEFINE sr == s \o r
<1>1. /\ p \in Nat /\ p + 1 \in 1..(NumTargets + 1) /\ (p + 1) - 1 = p
      /\ \A t \in Targets : t \in Nat /\ (t < p + 1 <=> t < p \/ t = p)
  BY SizesAssumption DEF Targets
<1>2. /\ Len(s) \in Nat /\ Len(r) \in Nat
      /\ Len(s) = Until(p - 1) /\ Until(p) = Len(s) + Len(r)
  BY SlotFacts DEF IsScan
<1>3. /\ Len(sr) = Len(s) + Len(r)
      /\ \A i \in 1..Len(s) : sr[i] = s[i] /\ s[i] \in Targets
      /\ \A i \in 1..Len(sr) : i \in 1..Len(s) \/ (i > Len(s) /\ i <= Len(sr) /\ i \in Nat)
  BY <1>2
<1>4. \A i \in 1..Len(sr) : i > Len(s) => sr[i] = p
  <2> TAKE i \in 1..Len(sr)
  <2>1. CASE i > Len(s)
    BY <2>1, <1>2, ConcatParts
  <2> QED
    BY <2>1
<1> HIDE DEF sr
<1>5. \A i \in 1..Len(sr) : sr[i] < p + 1
  BY <1>1, <1>3, <1>4 DEF IsScan
<1>6. ASSUME NEW t \in Targets, t < p + 1
      PROVE  /\ Until(t) <= Len(sr)
             /\ \A i \in 1..Len(sr) : sr[i] = t <=> Until(t - 1) < i /\ i <= Until(t)
  <2>0. Until(t) \in Nat /\ Until(t - 1) \in Nat
    BY SlotFacts
  <2>1. CASE t = p
    <3>1. \A i \in 1..Len(s) : s[i] # p
      BY <1>1, <1>3 DEF IsScan
    <3> QED
      BY <1>2, <1>3, <1>4, <2>1, <3>1
  <2>2. CASE t < p
    <3>1. /\ Until(t) <= Len(s)
          /\ \A i \in 1..Len(s) : s[i] = t <=> Until(t - 1) < i /\ i <= Until(t)
      BY <2>2 DEF IsScan
    <3>2. t # p
      BY <1>1, <2>2
    <3> QED
      BY <1>2, <1>3, <1>4, <2>0, <3>1, <3>2
  <2> QED
    BY <1>1, <1>6, <2>1, <2>2
<1>7. Len(sr) = Until((p + 1) - 1)
  BY <1>1, <1>2, <1>3
<1> QED
  BY <1>1, <1>5, <1>6, <1>7 DEF IsScan, sr

\* A scan has collected nothing before it looks at the first target.
LEMMA NoScan == IsScan(<<>>, 1)
BY SlotFacts, SizesAssumption DEF IsScan, Targets

\* A slot more belongs to the target whose turn it is.
LEMMA NextSlot ==
  ASSUME NEW s \in Seq(Targets), IsScan(s, NumTargets + 1),
         NEW r \in Nat, r < Len(s), NEW t \in Targets
  PROVE  /\ Len(s) = Round
         /\ Part(t, r + 1) = Part(t, r) + (IF s[r + 1] = t THEN 1 ELSE 0)
         /\ Part(t, r) \in Nat /\ Part(t, r + 1) <= Slots(t)
         /\ Part(t, 0) = 0 /\ Part(t, Round) = Slots(t)
<1>1. /\ (NumTargets + 1) - 1 = NumTargets /\ t < NumTargets + 1
      /\ r + 1 \in 1..Len(s)
  BY SizesAssumption DEF Targets
<1>2. Len(s) = Round
  BY <1>1 DEF IsScan, Round
<1>3. /\ Until(t) <= Len(s)
      /\ s[r + 1] = t <=> Until(t - 1) < r + 1 /\ r + 1 <= Until(t)
  BY <1>1 DEF IsScan
<1>4. Until(t) = Until(t - 1) + Slots(t) /\ Slots(t) \in Nat /\ Until(t - 1) \in Nat /\ Until(t) \in Nat
  BY SlotFacts
<1> DEFINE a == Until(t - 1)  b == Until(t)
<1>5. Part(t, r + 1) = Part(t, r) + (IF s[r + 1] = t THEN 1 ELSE 0)
  BY <1>3, <1>4 DEF Part
<1> QED
  BY <1>2, <1>3, <1>4, <1>5 DEF Part

\* A scan depends on nothing but the strategy and its own locals.
LEMMA ScanKept ==
  ASSUME NEW c, IsScan(list[c], pos[c]), UNCHANGED <<strategy, list[c], pos[c]>>
  PROVE  IsScan(list[c], pos[c])'
BY DEF IsScan, Until

\* No scan runs at first.
LEMMA ScanInit == Init => ScanInv
<1> SUFFICES ASSUME Init PROVE ScanInv
  OBVIOUS
<1>1. \A c \in Callers : list[c] = <<>> /\ pos[c] = 1
  BY DEF Init
<1> QED
  BY <1>1, NoScan DEF Init, ScanInv

\* Every action keeps the scans.
LEMMA ScanStep ==
  ASSUME IInv, ScanInv, [Next]_vars
  PROVE  ScanInv'
<1>t. TypeOK /\ AtRest
  BY DEF IInv, TypeInv
<1> USE DEF TypeOK
<1>1. ASSUME NEW t \in Flapping, NEW h \in BOOLEAN, SetHealthy(t, h) PROVE ScanInv'
  BY <1>1 DEF SetHealthy, ScanInv
<1>2. CASE UNCHANGED vars
  <2>1. UNCHANGED <<strategy, healthy, flapped, pc, list, pos>>
    BY <1>2 DEF vars, shared, locals, history
  <2> QED
    BY <2>1, ScanKept DEF ScanInv, Scans
<1>3. ASSUME NEW d \in Callers, Call(d) \/ Step(d) \/ Begin(d) \/ End(d) \/ GiveUp(d)
      PROVE  ScanInv'
  <2>1. /\ UNCHANGED <<strategy, healthy, flapped>>
        /\ \A c \in Callers : c # d => UNCHANGED <<pc[c], pos[c], list[c]>>
    <3>1. CASE Call(d) \/ GiveUp(d)
      BY <1>t, <3>1 DEF Call, GiveUp, Leave, shared
    <3>2. CASE Filter(d) \/ NoHealthyTarget(d) \/ SelectRandom(d) \/ Weigh(d) \/ StartWeighted(d)
      BY <1>t, <3>2 DEF Filter, NoHealthyTarget, SelectRandom, Filtered, Weigh,
                        StartWeighted, Return, shared, history
    <3>3. CASE SelectRoundRobin(d) \/ SelectWeighted(d)
      BY <1>t, <3>3
         DEF SelectRoundRobin, SelectWeighted, Filtered, TakeTurn, Return, shared, history
    <3>4. CASE \/ StartLeastConnections(d) \/ ScoreLeft(d)
               \/ SelectLeastConnections(d) \/ ScoreRight(d)
      BY <1>t, <3>4 DEF StartLeastConnections, ScoreLeft, ScoreRight, SelectLeastConnections, Filtered,
                        Return, shared, history
    <3>5. CASE Begin(d) \/ End(d)
      BY <1>t, <3>5 DEF Begin, End, Leave
    <3> QED
      BY <1>3, <3>1, <3>2, <3>3, <3>4, <3>5 DEF Step
  <2> SUFFICES ASSUME flapped = {}
               PROVE  Scans(d)' => IsScan(list[d], pos[d])'
    <3>1. ASSUME NEW c \in Callers, c # d, Scans(c)', flapped = {}
          PROVE  IsScan(list[c], pos[c])'
      <4>1. IsScan(list[c], pos[c])
        BY <2>1, <3>1 DEF ScanInv, Scans
      <4> QED
        BY <2>1, <3>1, <4>1, ScanKept
    <3> QED
      BY <2>1, <3>1 DEF ScanInv
  <2>2. \A t \in Targets : healthy[t]
    BY DEF ScanInv
  <2>3. CASE Call(d) \/ StartWeighted(d)
    <3>1. pos'[d] = 1 /\ list'[d] = <<>>
      BY <1>t, <2>3 DEF Call, StartWeighted, AtRest
    <3>2. IsScan(<<>>, 1)'
      BY <2>1, NoScan DEF IsScan, Until
    <3> QED
      BY <3>1, <3>2 DEF IsScan
  <2>4. CASE Filter(d) \/ Weigh(d)
    <3> SUFFICES ASSUME Scans(d) PROVE IsScan(list[d], pos[d])'
      BY <1>t, <2>1, <2>4 DEF Scans, Filter, Weigh
    <3>1. IsScan(list[d], pos[d]) /\ pos[d] \in Targets /\ list[d] \in Seq(Targets)
      BY <1>t, <2>4, SizesAssumption DEF ScanInv, Filter, Weigh, Exhausted, Targets
    <3>2. PICK r \in Seq(Targets) : /\ Len(r) = Slots(pos[d])
                                    /\ \A i \in 1..Len(r) : r[i] = pos[d]
                                    /\ list'[d] = list[d] \o r
      <4>1. CASE Filter(d)
        <5>1. strategy = "RoundRobin"
          BY <2>4, <4>1 DEF Scans, Filter
        <5>2. list'[d] = Append(list[d], pos[d])
          BY <1>t, <2>2, <3>1, <4>1 DEF Filter, IsHealthy
        <5>3. Append(list[d], pos[d]) = list[d] \o <<pos[d]>>
          BY <3>1
        <5>4. <<pos[d]>> \in Seq(Targets) /\ Len(<<pos[d]>>) = 1 /\ \A i \in 1..1 : <<pos[d]>>[i] = pos[d]
          BY <3>1
        <5> QED
          BY <5>1, <5>2, <5>3, <5>4 DEF Slots
      <4>2. CASE Weigh(d)
        <5>1. strategy # "RoundRobin"
          BY <4>2 DEF IInv, WeighOnlyWeighted, Weigh
        <5>2. list'[d] = list[d] \o Copies(pos[d])
          BY <1>t, <2>2, <3>1, <4>2 DEF Weigh, IsHealthy
        <5>3. /\ Copies(pos[d]) \in Seq(Targets)
              /\ Len(Copies(pos[d])) = Weight[pos[d]]
              /\ \A i \in 1..Weight[pos[d]] : Copies(pos[d])[i] = pos[d]
          BY <3>1, CopiesType, WeightAssumption DEF Copies
        <5> QED
          BY <5>1, <5>2, <5>3 DEF Slots
      <4> QED
        BY <2>4, <4>1, <4>2
    <3>3. pos'[d] = pos[d] + 1
      BY <1>t, <2>4 DEF Filter, Weigh, Advance
    <3>4. IsScan(list[d] \o r, pos[d] + 1)
      BY <3>1, <3>2, ScanNext
    <3> QED
      BY <2>1, <3>2, <3>3, <3>4 DEF IsScan, Until
  <2>5. CASE ~(Call(d) \/ StartWeighted(d) \/ Filter(d) \/ Weigh(d))
    <3>1. pc'[d] \notin {"filter", "weigh"}
      BY <1>t, <1>3, <2>5 DEF Step, NoHealthyTarget, SelectRoundRobin, SelectRandom, SelectWeighted,
         StartLeastConnections, ScoreLeft, ScoreRight, SelectLeastConnections,
         TakeTurn, Return, Begin, End, GiveUp, Leave
    <3> QED
      BY <3>1 DEF Scans
  <2> QED
    BY <2>3, <2>4, <2>5
<1> QED
  BY <1>1, <1>2, <1>3 DEF Next

\* How far two targets are apart after q rounds and P, R slots of a round.
LEMMA Spread ==
  ASSUME NEW a \in Nat, NEW b \in Nat, NEW q \in Nat, NEW S \in Nat, NEW T \in Nat,
         NEW P \in Nat, NEW R \in Nat, NEW w \in Nat,
         a * T <= b * S + w * (S * T), P <= S
  PROVE  (a + (q * S + P)) * T <= (b + (q * T + R)) * S + (w + 1) * (S * T)
<1>1. (a + (q * S + P)) * T = a * T + (q * S * T + P * T)
  OBVIOUS
<1>2. (b + (q * T + R)) * S = b * S + (q * S * T + R * S)
  OBVIOUS
<1>3. (w + 1) * (S * T) = w * (S * T) + S * T
  OBVIOUS
<1>4. P * T <= S * T /\ R * S >= 0
  OBVIOUS
<1>5. a * T \in Nat /\ b * S \in Nat /\ w * (S * T) \in Nat /\ q * S * T \in Nat
      /\ P * T \in Nat /\ R * S \in Nat /\ S * T \in Nat
  OBVIOUS
<1> QED
  BY <1>1, <1>2, <1>3, <1>4, <1>5

\* What is left over of a number of rounds.
LEMMA LeftOver ==
  ASSUME NEW n \in Nat, NEW k \in Nat \ {0}, NEW q \in Nat, NEW r \in Nat, r < k, n = q * k + r
  PROVE  n % k = r
OBVIOUS

\* Nothing is dealt at first.
LEMMA ShareInit == Init => ShareInv
<1> SUFFICES ASSUME Init PROVE \E base \in [Targets -> Nat], q \in Nat, r \in Nat : Dealt(base, q, r)
  BY DEF ShareInv
<1> DEFINE base == [t \in Targets |-> 0]
<1>1. /\ counter = 0 /\ wraps = 0
      /\ \A t \in Targets : picks[t] = 0 /\ base[t] = 0
  BY DEF Init
<1>2. \A t \in Targets : Slots(t) \in Nat /\ Part(t, 0) = 0
  BY SlotFacts DEF Part
<1>3. Round \in Nat
  BY RoundType
<1> HIDE DEF base
<1>4. Dealt(base, 0, 0)
  BY <1>1, <1>2, <1>3 DEF Dealt
<1>5. base \in [Targets -> Nat]
  BY DEF base
<1> QED
  BY <1>4, <1>5

\* Dealt speaks of the strategy, the counter and the picks only.
LEMMA DealtKept ==
  ASSUME NEW base \in [Targets -> Nat], NEW q \in Nat, NEW r \in Nat, Dealt(base, q, r),
         UNCHANGED <<strategy, counter, picks, wraps>>
  PROVE  Dealt(base, q, r)'
BY DEF Dealt, Round, Until, Part, Slots

\* Every turn deals the next slot, and the last one of a round begins another.
LEMMA TurnDealt ==
  ASSUME TypeOK, NEW c \in Callers, IsScan(list[c], NumTargets + 1), list[c] # <<>>,
         NEW base \in [Targets -> Nat], NEW q \in Nat, NEW r \in Nat, Dealt(base, q, r),
         TakeTurn(c)
  PROVE  \E base2 \in [Targets -> Nat], q2 \in Nat, r2 \in Nat : Dealt(base2, q2, r2)'
<1> DEFINE L == list[c]
<1>1. L \in Seq(Targets) /\ Len(L) \in Nat \ {0} /\ Len(L) = Round
  BY SizesAssumption DEF TypeOK, IsScan, Round
<1>2. r < Round /\ counter = q * Round + r /\ counter \in Nat
  <2>1. counter \in Nat
    BY SizesAssumption DEF TypeOK
  <2> QED
    BY <1>1, <2>1 DEF Dealt
<1>3. Turn(L) = L[r + 1]
  <2>1. counter % Len(L) = r
    BY <1>1, <1>2, LeftOver
  <2> QED
    BY <2>1 DEF Turn
<1>4. \A t \in Targets :
        /\ Part(t, r + 1) = Part(t, r) + (IF L[r + 1] = t THEN 1 ELSE 0)
        /\ Part(t, r) \in Nat /\ Part(t, r + 1) \in Nat /\ Part(t, r + 1) <= Slots(t)
        /\ Part(t, 0) = 0 /\ Part(t, Round) = Slots(t)
        /\ Slots(t) \in Nat
  <2> TAKE t \in Targets
  <2>1. /\ Part(t, r + 1) = Part(t, r) + (IF L[r + 1] = t THEN 1 ELSE 0)
        /\ Part(t, r) \in Nat /\ Part(t, r + 1) <= Slots(t)
        /\ Part(t, 0) = 0 /\ Part(t, Round) = Slots(t)
    <3>1. IsScan(L, NumTargets + 1) /\ r < Len(L)
      BY <1>1, <1>2
    <3> HIDE DEF L
    <3> QED
      BY <1>1, <3>1, NextSlot
  <2>2. Part(t, r + 1) \in Nat
    BY <2>1
  <2> QED
    BY <2>1, <2>2, SlotFacts
<1>5. /\ strategy' = strategy
      /\ \A t \in Targets : /\ Slots(t)' = Slots(t)
                            /\ \A n \in Nat : Part(t, n)' = Part(t, n)
      /\ Round' = Round
  BY DEF TakeTurn, shared, Slots, Part, Until, Round
<1>6. L[r + 1] \in Targets
  BY <1>1, <1>2
<1>7. \A t \in Targets : picks'[t] = base[t] + (q * Slots(t) + Part(t, r + 1))
  <2> TAKE t \in Targets
  <2>1. picks[t] = base[t] + (q * Slots(t) + Part(t, r))
    BY DEF Dealt
  <2> DEFINE m == L[r + 1]
             e == IF m = t THEN 1 ELSE 0
  <2>2. picks'[t] = picks[t] + e
    <3>1. picks' = [picks EXCEPT ![m] = @ + 1]
      BY <1>3 DEF TakeTurn
    <3>2. picks \in [Targets -> Nat]
      BY DEF TypeOK
    <3> HIDE DEF L, m
    <3> QED
      BY <1>6, <3>1, <3>2 DEF m
  <2> DEFINE x == q * Slots(t)
  <2>3. base[t] \in Nat /\ x \in Nat /\ e \in Nat
    BY <1>4
  <2>4. Part(t, r + 1) = Part(t, r) + e /\ Part(t, r) \in Nat /\ Part(t, r + 1) \in Nat
    BY <1>4
  <2>5. picks[t] = base[t] + (x + Part(t, r))
    BY <2>1
  <2> HIDE DEF e, x
  <2>6. picks'[t] = base[t] + (x + Part(t, r + 1))
    BY <2>2, <2>3, <2>4, <2>5
  <2> QED
    BY <2>6 DEF x
<1>8. \A t, u \in Targets :
        base[t] * Slots(u) <= base[u] * Slots(t) + wraps * (Slots(t) * Slots(u))
  BY DEF Dealt
<1> HIDE DEF L
<1>9. CASE counter + 1 # CounterMod
  <2>1. counter' = counter + 1 /\ wraps' = wraps
    <3>1. counter + 1 \in 0..(CounterMod - 1) /\ CounterMod \in Nat \ {0}
      <4>1. counter \in 0..(CounterMod - 1) /\ CounterMod \in Nat \ {0}
        BY SizesAssumption DEF TypeOK
      <4> QED
        BY <1>9, <4>1
    <3>2. (counter + 1) % CounterMod = counter + 1
      BY <3>1
    <3> QED
      BY <1>9, <3>2 DEF TakeTurn, NextCounter
  <2>2. CASE r + 1 < Round
    <3>1. counter' = q * Round + (r + 1)
      <4>1. q * Round \in Nat
        BY <1>1
      <4> QED
        BY <1>2, <2>1, <4>1
    <3>2. Dealt(base, q, r + 1)'
      BY <1>5, <1>7, <1>8, <2>1, <2>2, <3>1 DEF Dealt
    <3> QED
      BY <3>2
  <2>3. CASE ~(r + 1 < Round)
    <3>1. r + 1 = Round
      BY <1>1, <1>2, <2>3
    <3>2. counter' = (q + 1) * Round + 0
      <4> DEFINE x == q * Round
      <4>1. x \in Nat /\ Round \in Nat /\ (q + 1) * Round = x + Round
        BY <1>1
      <4>2. counter = x + r
        BY <1>2
      <4> HIDE DEF x
      <4> QED
        BY <2>1, <3>1, <4>1, <4>2
    <3>3. \A t \in Targets : picks'[t] = base[t] + ((q + 1) * Slots(t) + Part(t, 0))
      <4> TAKE t \in Targets
      <4>1. (q + 1) * Slots(t) = q * Slots(t) + Slots(t) /\ q * Slots(t) \in Nat
        BY <1>4
      <4> QED
        BY <1>4, <1>7, <3>1, <4>1
    <3>4. Dealt(base, q + 1, 0)'
      BY <1>1, <1>5, <1>8, <2>1, <3>2, <3>3 DEF Dealt
    <3> QED
      BY <3>4
  <2> QED
    BY <2>2, <2>3
<1>10. CASE counter + 1 = CounterMod
  <2>1. counter' = 0 /\ wraps' = wraps + 1
    <3>1. CounterMod \in Nat \ {0}
      BY SizesAssumption
    <3>2. CounterMod % CounterMod = 0
      BY <3>1
    <3> QED
      BY <1>10, <3>2 DEF TakeTurn, NextCounter
  <2>2. \A t \in Targets : picks'[t] \in Nat
    <3>1. \A t \in Targets : base[t] \in Nat /\ q * Slots(t) \in Nat
      BY <1>4
    <3> QED
      BY <1>4, <1>7, <3>1
  <2>3. PICK base2 \in [Targets -> Nat] : \A t \in Targets : base2[t] = picks'[t]
    <3>1. [t \in Targets |-> picks'[t]] \in [Targets -> Nat]
      BY <2>2
    <3> QED
      BY <3>1
  <2>4. wraps \in Nat
    BY DEF TypeOK
  <2>5. ASSUME NEW t \in Targets, NEW u \in Targets
        PROVE  base2[t] * Slots(u) <= base2[u] * Slots(t) + (wraps + 1) * (Slots(t) * Slots(u))
    <3>1. /\ base[t] \in Nat /\ base[u] \in Nat /\ Slots(t) \in Nat /\ Slots(u) \in Nat
          /\ Part(t, r + 1) \in Nat /\ Part(u, r + 1) \in Nat /\ Part(t, r + 1) <= Slots(t)
      BY <1>4
    <3>2. base[t] * Slots(u) <= base[u] * Slots(t) + wraps * (Slots(t) * Slots(u))
      BY <1>8
    <3>3. (base[t] + (q * Slots(t) + Part(t, r + 1))) * Slots(u)
            <= (base[u] + (q * Slots(u) + Part(u, r + 1))) * Slots(t)
                 + (wraps + 1) * (Slots(t) * Slots(u))
      BY <2>4, <3>1, <3>2, Spread
    <3>4. /\ base2[t] = base[t] + (q * Slots(t) + Part(t, r + 1))
          /\ base2[u] = base[u] + (q * Slots(u) + Part(u, r + 1))
      BY <1>7, <2>3
    <3> QED
      BY <3>3, <3>4, Zenon
  <2>6. \A t \in Targets : picks'[t] = base2[t] + (0 * Slots(t) + Part(t, 0))
    <3> TAKE t \in Targets
    <3>1. 0 * Slots(t) = 0 /\ Part(t, 0) = 0 /\ base2[t] \in Nat
      BY <1>4, <2>3
    <3> QED
      BY <2>3, <3>1
  <2>7. 0 = 0 * Round + 0
    BY <1>1
  <2>8. Dealt(base2, 0, 0)'
    <3>1. counter' = 0 * Round' + 0
      BY <1>1, <1>5, <2>1, <2>7
    <3>2. \A t \in Targets : picks'[t] = base2[t] + (0 * Slots(t)' + Part(t, 0)')
      BY <1>5, <2>6
    <3>3. \A t, u \in Targets :
            base2[t] * Slots(u)' <= base2[u] * Slots(t)' + wraps' * (Slots(t)' * Slots(u)')
      BY <1>5, <2>1, <2>5, Zenon
    <3> QED
      BY <3>1, <3>2, <3>3, Zenon DEF Dealt
  <2> QED
    BY <2>8
<1> QED
  BY <1>9, <1>10

\* Only the two round robins deal, and they deal the next slot.
LEMMA ShareStep ==
  ASSUME IInv, ScanInv, ShareInv, [Next]_vars
  PROVE  ShareInv'
<1>t. TypeOK
  BY DEF IInv, TypeInv
<1>1. CASE (flapped' # {} \/ flapped' = flapped) /\ UNCHANGED <<strategy, counter, picks, wraps>>
  BY <1>1, DealtKept DEF ShareInv
<1>2. ASSUME NEW c \in Callers, SelectRoundRobin(c) \/ SelectWeighted(c) PROVE ShareInv'
  <2> SUFFICES ASSUME flapped = {} PROVE ShareInv'
    BY <1>2 DEF ShareInv, SelectRoundRobin, SelectWeighted, TakeTurn, history
  <2>1. Scans(c) /\ Exhausted(c) /\ list[c] # <<>> /\ TakeTurn(c)
    BY <1>2 DEF Scans, SelectRoundRobin, SelectWeighted, Filtered
  <2>2. IsScan(list[c], NumTargets + 1)
    <3>1. IsScan(list[c], pos[c])
      BY <2>1 DEF ScanInv
    <3>2. pos[c] = NumTargets + 1
      BY <2>1, <3>1, SizesAssumption DEF IsScan, Exhausted
    <3> QED
      BY <3>1, <3>2
  <2>3. PICK base \in [Targets -> Nat], q \in Nat, r \in Nat : Dealt(base, q, r)
    BY DEF ShareInv
  <2> QED
    BY <1>t, <2>1, <2>2, <2>3, TurnDealt DEF ShareInv
<1>3. ASSUME NEW c \in Callers, Call(c) \/ GiveUp(c) \/ Begin(c) \/ End(c) PROVE ShareInv'
  BY <1>1, <1>3 DEF Call, GiveUp, Begin, End, Leave, shared, turns
<1>4. ASSUME NEW c \in Callers, Step(c), ~(SelectRoundRobin(c) \/ SelectWeighted(c)) PROVE ShareInv'
  BY <1>1, <1>4
     DEF Step, Filter, NoHealthyTarget, SelectRandom, StartLeastConnections, ScoreLeft,
         ScoreRight, SelectLeastConnections, StartWeighted, Weigh, shared, turns, history
<1>5. ASSUME NEW t \in Flapping, NEW h \in BOOLEAN, SetHealthy(t, h) PROVE ShareInv'
  BY <1>1, <1>5 DEF SetHealthy, turns
<1>6. CASE UNCHANGED vars
  BY <1>1, <1>6 DEF vars, shared, turns, history
<1> QED
  BY <1>2, <1>3, <1>4, <1>5, <1>6 DEF Next

\* However the calls interleave, whichever weights the targets have and wherever
\* the usize counter wraps, two targets that stay up are never further apart
\* than the rounds that a wrap cut short, and one (upstream.rs:61-62, 96-98).
THEOREM ShareCorrect == Spec => []ProportionalShare
<1> DEFINE Inv == IInv /\ ScanInv /\ ShareInv
<1>1. Init => Inv
  BY IInvInit, ScanInit, ShareInit
<1>2. Inv /\ [Next]_vars => Inv'
  BY IInvStep, ScanStep, ShareStep
<1>3. Inv => ProportionalShare
  <2> SUFFICES ASSUME Inv, flapped = {}, NEW t \in Targets, NEW u \in Targets
               PROVE  picks[t] * Slots(u)
                        <= picks[u] * Slots(t) + (1 + wraps) * Slots(t) * Slots(u)
    BY DEF ProportionalShare
  <2>1. PICK base \in [Targets -> Nat], q \in Nat, r \in Nat : Dealt(base, q, r)
    BY DEF ShareInv
  <2>2. /\ Slots(t) \in Nat /\ Slots(u) \in Nat /\ wraps \in Nat
        /\ base[t] \in Nat /\ base[u] \in Nat
    BY SlotFacts DEF IInv, TypeInv, TypeOK
  <2>3. Part(t, r) \in Nat /\ Part(u, r) \in Nat /\ Part(t, r) <= Slots(t)
    BY SlotFacts DEF Part
  <2>4. (base[t] + (q * Slots(t) + Part(t, r))) * Slots(u)
          <= (base[u] + (q * Slots(u) + Part(u, r))) * Slots(t)
               + (wraps + 1) * (Slots(t) * Slots(u))
    BY <2>1, <2>2, <2>3, Spread DEF Dealt
  <2>5. (wraps + 1) * (Slots(t) * Slots(u)) = (1 + wraps) * Slots(t) * Slots(u)
    BY <2>2
  <2>6. /\ picks[t] = base[t] + (q * Slots(t) + Part(t, r))
        /\ picks[u] = base[u] + (q * Slots(u) + Part(u, r))
    BY <2>1 DEF Dealt
  <2> QED
    BY <2>4, <2>5, <2>6, Zenon
<1> QED
  BY <1>1, <1>2, <1>3, PTL DEF Spec

=============================================================================

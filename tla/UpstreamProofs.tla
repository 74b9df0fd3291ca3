--------------------------- MODULE UpstreamProofs ---------------------------
(***************************************************************************)
(* Proofs about Upstream, for any number of targets and callers, any       *)
(* weights, any width of the counters and any flapping of the flags.       *)
(***************************************************************************)
EXTENDS Upstream, TLAPS

(* The inductive strengthening of SelectedWasHealthy and NoneNeedsOutage.  *)

\* Outside select_target its locals are at rest.
AtRest ==
  \A c \in Callers :
    pc[c] \in {"idle", "selected", "serving"} => pos[c] = 1 /\ list[c] = <<>>

\* The history of a running call covers the current flags.
FlagsRecorded ==
  \A c \in Callers : InCall(c) =>
    \A t \in Targets : IF healthy[t] THEN t \in upSince[c] ELSE t \in downSince[c]

\* What a call has collected was healthy when it was collected.
CollectedWereHealthy ==
  \A c \in Callers : InCall(c) =>
    \A i \in 1..Len(list[c]) : list[c][i] \in upSince[c]

\* The running minimum is one of the collected targets, and min_by reads the
\* list inside its bounds.
MinimumInList ==
  \A c \in Callers :
    /\ pc[c] \in {"left", "right"} => target[c] \in Targets
    /\ pc[c] = "right" => pos[c] <= Len(list[c])

MinimumWasHealthy ==
  \A c \in Callers : pc[c] \in {"left", "right"} => target[c] \in upSince[c]

\* A target the scan has passed was collected, or down, or has no share.
PassedOver(c, t) ==
  \/ t \in downSince[c]
  \/ \E i \in 1..Len(list[c]) : list[c][i] = t
  \/ strategy = "WeightedRoundRobin" /\ Weight[t] = 0

PassedAccountedFor ==
  \A c \in Callers : pc[c] \in {"filter", "weigh"} =>
    \A t \in Targets : t < pos[c] => PassedOver(c, t)

WeighOnlyWeighted ==
  \A c \in Callers : pc[c] = "weigh" => strategy = "WeightedRoundRobin"

TypeInv == TypeOK /\ MinimumInList

IInv ==
  /\ TypeInv
  /\ AtRest
  /\ FlagsRecorded
  /\ CollectedWereHealthy
  /\ MinimumWasHealthy
  /\ PassedAccountedFor
  /\ WeighOnlyWeighted
  /\ SelectedWasHealthy
  /\ NoneNeedsOutage

-----------------------------------------------------------------------------
(* Facts about the operators. *)

\* A turn is always an element of the list: % keeps the index in range.
LEMMA TurnInList ==
  ASSUME NEW s \in Seq(Targets), s # <<>>, counter \in Nat
  PROVE  /\ (counter % Len(s)) + 1 \in 1..Len(s)
         /\ Turn(s) \in Targets
<1>1. Len(s) \in Nat \ {0}
  OBVIOUS
<1>2. counter % Len(s) \in 0..(Len(s) - 1)
  BY <1>1
<1>3. (counter % Len(s)) + 1 \in 1..Len(s)
  BY <1>1, <1>2
<1> QED
  BY <1>3 DEF Turn

\* An element of a concatenation is an element of one of its parts.
LEMMA ConcatParts ==
  ASSUME NEW S, NEW s \in Seq(S), NEW r \in Seq(S), NEW i \in 1..Len(s \o r)
  PROVE  \/ i \in 1..Len(s) /\ (s \o r)[i] = s[i]
         \/ \E j \in 1..Len(r) : (s \o r)[i] = r[j]
<1>1. CASE i <= Len(s)
  BY <1>1
<1>2. CASE i > Len(s)
  <2>1. i - Len(s) \in 1..Len(r)
    BY <1>2
  <2>2. (s \o r)[i] = r[i - Len(s)]
    BY <1>2
  <2> QED
    BY <2>1, <2>2
<1> QED
  BY <1>1, <1>2

\* What follows s in s \o r is the first element of r.
LEMMA ConcatNext ==
  ASSUME NEW S, NEW s \in Seq(S), NEW r \in Seq(S), r # <<>>
  PROVE  /\ Len(s) + 1 \in 1..Len(s \o r)
         /\ (s \o r)[Len(s) + 1] = r[1]
OBVIOUS

\* The copies that a target adds to the weighted list are of that target.
LEMMA CopiesType ==
  ASSUME NEW t \in Targets
  PROVE  Copies(t) \in Seq(Targets)
BY WeightAssumption DEF Copies

\* Connection counts wrap inside their width.
LEMMA CounterType ==
  ASSUME NEW n \in Nat
  PROVE  /\ Increment(n) \in 0..(CounterMod - 1)
         /\ Decrement(n) \in 0..(CounterMod - 1)
BY SizesAssumption DEF Increment, Decrement

\* A score is a connection count, or infinity.
LEMMA ScoreType ==
  ASSUME TypeOK, NEW t \in Targets
  PROVE  Score(t) \in 0..Infinity
BY SizesAssumption DEF TypeOK, Score, Infinity

-----------------------------------------------------------------------------
(* Type correctness *)

\* The types hold initially.
LEMMA TypeInit == Init => TypeInv
BY SizesAssumption, StrategiesAssumption
DEF Init, TypeInv, TypeOK, MinimumInList, Scanning, Infinity

\* Every action keeps the types.
LEMMA TypeStep == TypeInv /\ [Next]_vars => TypeInv'
<1> SUFFICES ASSUME TypeOK, MinimumInList, [Next]_vars
             PROVE  TypeInv'
  BY DEF TypeInv
<1> USE SizesAssumption DEF TypeOK, MinimumInList, Scanning, Infinity,
            shared, locals, turns, history
<1>1. ASSUME NEW c \in Callers, Call(c) PROVE TypeInv'
  <2>1. TypeOK'
    BY <1>1 DEF Call
  <2>2. MinimumInList'
    BY <1>1 DEF Call
  <2> QED
    BY <2>1, <2>2 DEF TypeInv
<1>2. ASSUME NEW c \in Callers, Filter(c) PROVE TypeInv'
  <2>1. pos[c] \in Targets /\ Append(list[c], pos[c]) \in Seq(Targets)
    BY <1>2 DEF Filter, Exhausted, Targets
  <2>2. TypeOK'
    BY <1>2, <2>1, SMTT(20) DEF Filter, Exhausted, IsHealthy, Advance
  <2>3. MinimumInList'
    BY <1>2, <2>1 DEF Filter, Exhausted, IsHealthy, Advance
  <2> QED
    BY <2>2, <2>3 DEF TypeInv
<1>3. ASSUME NEW c \in Callers, NoHealthyTarget(c) PROVE TypeInv'
  <2>1. TypeOK'
    BY <1>3 DEF NoHealthyTarget, Return
  <2>2. MinimumInList'
    BY <1>3 DEF NoHealthyTarget, Return
  <2> QED
    BY <2>1, <2>2 DEF TypeInv
<1>4. ASSUME NEW c \in Callers, SelectRoundRobin(c) PROVE TypeInv'
  <2>1. Turn(list[c]) \in Targets
    BY <1>4, TurnInList DEF SelectRoundRobin, Filtered
  <2>2. TypeOK'
    BY <1>4, <2>1, SMTT(20) DEF SelectRoundRobin, Filtered, TakeTurn, Return, NextCounter
  <2>3. MinimumInList'
    BY <1>4, <2>1 DEF SelectRoundRobin, Filtered, TakeTurn, Return, NextCounter
  <2> QED
    BY <2>2, <2>3 DEF TypeInv
<1>5. ASSUME NEW c \in Callers, SelectRandom(c) PROVE TypeInv'
  <2>1. TypeOK'
    BY <1>5, SMTT(20) DEF SelectRandom, Filtered, Return
  <2>2. MinimumInList'
    BY <1>5 DEF SelectRandom, Filtered, Return
  <2> QED
    BY <2>1, <2>2 DEF TypeInv
<1>6. ASSUME NEW c \in Callers, StartLeastConnections(c) PROVE TypeInv'
  <2>1. TypeOK'
    BY <1>6, SMTT(20) DEF StartLeastConnections, Filtered
  <2>2. MinimumInList'
    BY <1>6 DEF StartLeastConnections, Filtered
  <2> QED
    BY <2>1, <2>2 DEF TypeInv
<1>7. ASSUME NEW c \in Callers, ScoreLeft(c) PROVE TypeInv'
  <2>1. TypeOK'
    BY <1>7, ScoreType DEF ScoreLeft
  <2>2. MinimumInList'
    BY <1>7, ScoreType DEF ScoreLeft
  <2> QED
    BY <2>1, <2>2 DEF TypeInv
<1>8. ASSUME NEW c \in Callers, ScoreRight(c) PROVE TypeInv'
  <2>1. list[c][pos[c]] \in Targets
    BY <1>8 DEF ScoreRight
  <2>2. TypeOK'
    <3>1. target' \in [Callers -> Targets \cup {NoTarget}]
      BY <1>8, <2>1 DEF ScoreRight
    <3>2. /\ pos' = [pos EXCEPT ![c] = @ + 1]
          /\ pc' = [pc EXCEPT ![c] = "left"]
          /\ UNCHANGED <<shared, turns, history, list, score>>
      BY <1>8 DEF ScoreRight
    <3> QED
      BY <3>1, <3>2
  <2>3. MinimumInList'
    BY <1>8, <2>1 DEF ScoreRight
  <2> QED
    BY <2>2, <2>3 DEF TypeInv
<1>9. ASSUME NEW c \in Callers, SelectLeastConnections(c) PROVE TypeInv'
  <2>1. TypeOK'
    BY <1>9 DEF SelectLeastConnections, Return
  <2>2. MinimumInList'
    BY <1>9 DEF SelectLeastConnections, Return
  <2> QED
    BY <2>1, <2>2 DEF TypeInv
<1>10. ASSUME NEW c \in Callers, StartWeighted(c) PROVE TypeInv'
  <2>1. TypeOK'
    BY <1>10 DEF StartWeighted, Filtered
  <2>2. MinimumInList'
    BY <1>10 DEF StartWeighted, Filtered
  <2> QED
    BY <2>1, <2>2 DEF TypeInv
<1>11. ASSUME NEW c \in Callers, Weigh(c) PROVE TypeInv'
  <2>1. pos[c] \in Targets /\ list[c] \o Copies(pos[c]) \in Seq(Targets)
    <3>1. pos[c] \in Targets
      BY <1>11 DEF Weigh, Exhausted, Targets
    <3> QED
      BY <3>1, CopiesType
  <2>2. TypeOK'
    BY <1>11, <2>1 DEF Weigh, IsHealthy, Advance
  <2>3. MinimumInList'
    BY <1>11, <2>1 DEF Weigh, IsHealthy, Advance
  <2> QED
    BY <2>2, <2>3 DEF TypeInv
<1>12. ASSUME NEW c \in Callers, SelectWeighted(c) PROVE TypeInv'
  <2>1. Turn(list[c]) \in Targets
    BY <1>12, TurnInList DEF SelectWeighted
  <2>2. TypeOK'
    BY <1>12, <2>1, SMTT(30) DEF SelectWeighted, TakeTurn, Return, NextCounter
  <2>3. MinimumInList'
    BY <1>12, <2>1 DEF SelectWeighted, TakeTurn, Return, NextCounter
  <2> QED
    BY <2>2, <2>3 DEF TypeInv
<1>13. ASSUME NEW c \in Callers, Begin(c) PROVE TypeInv'
  <2>1. connections' \in [Targets -> 0..(CounterMod - 1)]
    <3>1. \A t \in Targets : Increment(connections[t]) \in 0..(CounterMod - 1)
      BY CounterType
    <3> QED
      BY <1>13, <3>1 DEF Begin
  <2>2. TypeOK'
    BY <1>13, <2>1 DEF Begin, OthersDisturbed
  <2>3. MinimumInList'
    BY <1>13, <2>1 DEF Begin, OthersDisturbed
  <2> QED
    BY <2>2, <2>3 DEF TypeInv
<1>14. ASSUME NEW c \in Callers, End(c) PROVE TypeInv'
  <2>1. connections' \in [Targets -> 0..(CounterMod - 1)]
    <3>1. \A t \in Targets : Decrement(connections[t]) \in 0..(CounterMod - 1)
      BY CounterType
    <3> QED
      BY <1>14, <3>1 DEF End
  <2>2. TypeOK'
    BY <1>14, <2>1 DEF End, Leave, OthersDisturbed
  <2>3. MinimumInList'
    BY <1>14, <2>1 DEF End, Leave, OthersDisturbed
  <2> QED
    BY <2>2, <2>3 DEF TypeInv
<1>15. ASSUME NEW c \in Callers, GiveUp(c) PROVE TypeInv'
  <2>1. TypeOK'
    BY <1>15 DEF GiveUp, Leave
  <2>2. MinimumInList'
    BY <1>15 DEF GiveUp, Leave
  <2> QED
    BY <2>1, <2>2 DEF TypeInv
<1>16. ASSUME NEW t \in Flapping, NEW h \in BOOLEAN, SetHealthy(t, h) PROVE TypeInv'
  <2>1. TypeOK'
    BY <1>16, FlappingAssumption DEF SetHealthy, InCall
  <2>2. MinimumInList'
    BY <1>16, FlappingAssumption DEF SetHealthy, InCall
  <2> QED
    BY <2>1, <2>2 DEF TypeInv
<1>17. CASE UNCHANGED vars
  <2>1. TypeOK'
    BY <1>17 DEF vars
  <2>2. MinimumInList'
    BY <1>17 DEF vars
  <2> QED
    BY <2>1, <2>2 DEF TypeInv
<1> QED
  BY <1>1, <1>2, <1>3, <1>4, <1>5, <1>6, <1>7, <1>8, <1>9, <1>10, <1>11, <1>12, <1>13, <1>14, <1>15, <1>16, <1>17
     DEF Next, Step

\* Every action keeps the rest of the inductive invariant.
LEMMA IInvStep == IInv /\ [Next]_vars => IInv'
<1> SUFFICES ASSUME IInv, TypeInv', [Next]_vars
             PROVE  IInv'
  BY TypeStep DEF IInv
<1> USE NoTargetAssumption
    DEF IInv, TypeInv, TypeOK, InCall, Scanning, Targets, PassedOver,
        shared, locals, turns, history
<1>1. ASSUME NEW c \in Callers, Call(c) PROVE IInv'
  <2>1. CollectedWereHealthy'
    BY <1>1 DEF CollectedWereHealthy, AtRest, Call
  <2>2. PassedAccountedFor'
    BY <1>1 DEF PassedAccountedFor, AtRest, Call
  <2>3. /\ AtRest'
        /\ FlagsRecorded'
        /\ MinimumWasHealthy'
        /\ WeighOnlyWeighted'
        /\ SelectedWasHealthy'
        /\ NoneNeedsOutage'
    BY <1>1
       DEF AtRest, FlagsRecorded, MinimumWasHealthy, WeighOnlyWeighted,
           SelectedWasHealthy, NoneNeedsOutage, Call
  <2> QED
    BY <2>1, <2>2, <2>3 DEF IInv
<1>2. ASSUME NEW c \in Callers, Filter(c) PROVE IInv'
  <2>1. CollectedWereHealthy'
    BY <1>2
       DEF CollectedWereHealthy, FlagsRecorded, Filter, Exhausted, IsHealthy,
           Advance
  <2>2. PassedAccountedFor'
    <3>1. \A t \in Targets : t < pos[c] => PassedOver(c, t)'
      <4> SUFFICES ASSUME NEW t \in Targets, t < pos[c] PROVE PassedOver(c, t)'
        OBVIOUS
      <4>1. PassedOver(c, t)
        BY <1>2 DEF PassedAccountedFor, Filter
      <4>2. \A i \in 1..Len(list[c]) : i \in 1..Len(list'[c]) /\ list'[c][i] = list[c][i]
        BY <1>2 DEF Filter
      <4> QED
        BY <1>2, <4>1, <4>2 DEF Filter
    <3>2. \A t \in Targets : t = pos[c] => PassedOver(c, t)'
      <4>0. pos[c] \in Targets /\ UNCHANGED <<downSince, strategy>>
        BY <1>2, SizesAssumption DEF Filter, Exhausted
      <4>1. CASE healthy[pos[c]]
        <5>1. list'[c] = Append(list[c], pos[c])
          BY <1>2, <4>1 DEF Filter, IsHealthy
        <5>2. Len(list'[c]) = Len(list[c]) + 1 /\ list'[c][Len(list[c]) + 1] = pos[c]
          BY <5>1
        <5> QED
          <6>1. Len(list[c]) + 1 \in 1..Len(list'[c])
            BY <5>2
          <6> QED
            BY <5>2, <6>1
      <4>2. CASE ~healthy[pos[c]]
        BY <1>2, <4>0, <4>2 DEF Filter, FlagsRecorded
      <4> QED
        BY <4>1, <4>2
    <3>3. pos'[c] = pos[c] + 1 /\ \A d \in Callers : d # c => pos'[d] = pos[d] /\ list'[d] = list[d]
      BY <1>2 DEF Filter, Advance
    <3> SUFFICES ASSUME NEW d \in Callers, pc'[d] \in {"filter", "weigh"},
                        NEW t \in Targets, t < pos'[d]
                 PROVE  PassedOver(d, t)'
      BY DEF PassedAccountedFor
    <3>4. CASE d = c
      <4>1. t < pos[c] \/ t = pos[c]
        BY <3>3, <3>4
      <4> QED
        BY <3>1, <3>2, <3>4, <4>1
    <3>5. CASE d # c
      BY <1>2, <3>3, <3>5 DEF PassedAccountedFor, Filter
    <3> QED
      BY <3>4, <3>5
  <2>3. /\ AtRest'
        /\ FlagsRecorded'
        /\ MinimumWasHealthy'
        /\ WeighOnlyWeighted'
        /\ SelectedWasHealthy'
        /\ NoneNeedsOutage'
    BY <1>2
       DEF AtRest, FlagsRecorded, MinimumWasHealthy, WeighOnlyWeighted,
           SelectedWasHealthy, NoneNeedsOutage, Filter, Exhausted, IsHealthy,
           Advance
  <2> QED
    BY <2>1, <2>2, <2>3 DEF IInv
<1>3. ASSUME NEW c \in Callers, NoHealthyTarget(c) PROVE IInv'
  <2>1. NoneNeedsOutage'
    <3>1. \A t \in Targets : PassedOver(c, t)
      <4> SUFFICES ASSUME NEW t \in Targets PROVE PassedOver(c, t)
        OBVIOUS
      <4>1. pc[c] \in {"filter", "weigh"} /\ t < pos[c]
        BY <1>3, SizesAssumption DEF NoHealthyTarget, Exhausted
      <4> QED
        BY <4>1 DEF PassedAccountedFor
    <3> QED
      BY <1>3, <3>1 DEF NoneNeedsOutage, NoHealthyTarget, Return
  <2>2. /\ AtRest'
        /\ FlagsRecorded'
        /\ CollectedWereHealthy'
        /\ MinimumWasHealthy'
        /\ PassedAccountedFor'
        /\ WeighOnlyWeighted'
        /\ SelectedWasHealthy'
    BY <1>3
       DEF AtRest, FlagsRecorded, CollectedWereHealthy, MinimumWasHealthy,
           PassedAccountedFor, WeighOnlyWeighted, SelectedWasHealthy,
           NoHealthyTarget, Exhausted, Return
  <2> QED
    BY <2>1, <2>2 DEF IInv
<1>4. ASSUME NEW c \in Callers, SelectRoundRobin(c) PROVE IInv'
  <2>1. \E i \in 1..Len(list[c]) : Turn(list[c]) = list[c][i]
    BY <1>4, TurnInList DEF SelectRoundRobin, Filtered, Turn
  <2>2. SelectedWasHealthy'
    BY <1>4, <2>1
       DEF SelectedWasHealthy, CollectedWereHealthy, SelectRoundRobin,
           Filtered, TakeTurn, Return
  <2>3. NoneNeedsOutage'
    BY <1>4, <2>1
       DEF NoneNeedsOutage, SelectRoundRobin, Filtered, TakeTurn, Return
  <2>4. /\ AtRest'
        /\ FlagsRecorded'
        /\ CollectedWereHealthy'
        /\ MinimumWasHealthy'
        /\ PassedAccountedFor'
        /\ WeighOnlyWeighted'
    BY <1>4
       DEF AtRest, FlagsRecorded, CollectedWereHealthy, MinimumWasHealthy,
           PassedAccountedFor, WeighOnlyWeighted, SelectRoundRobin, Filtered,
           TakeTurn, Return
  <2> QED
    BY <2>1, <2>2, <2>3, <2>4 DEF IInv
<1>5. ASSUME NEW c \in Callers, SelectRandom(c) PROVE IInv'
  <2>1. SelectedWasHealthy'
    BY <1>5
       DEF SelectedWasHealthy, CollectedWereHealthy, SelectRandom, Filtered,
           Return
  <2>2. NoneNeedsOutage'
    <3>1. PICK i \in 1..Len(list[c]) : Return(c, list[c][i])
      BY <1>5 DEF SelectRandom
    <3>2. list[c][i] \in Targets
      <4> HIDE DEF Targets
      <4>1. list[c] \in Seq(Targets) /\ i \in 1..Len(list[c])
        BY <3>1
      <4> QED
        BY <4>1
    <3> QED
      BY <1>5, <3>1, <3>2, SMTT(20) DEF NoneNeedsOutage, SelectRandom, Return
  <2>3. /\ AtRest'
        /\ FlagsRecorded'
        /\ CollectedWereHealthy'
        /\ MinimumWasHealthy'
        /\ PassedAccountedFor'
        /\ WeighOnlyWeighted'
    BY <1>5
       DEF AtRest, FlagsRecorded, CollectedWereHealthy, MinimumWasHealthy,
           PassedAccountedFor, WeighOnlyWeighted, SelectRandom, Filtered,
           Return
  <2> QED
    BY <2>1, <2>2, <2>3 DEF IInv
<1>6. ASSUME NEW c \in Callers, StartLeastConnections(c) PROVE IInv'
  <2>1. MinimumWasHealthy'
    BY <1>6
       DEF MinimumWasHealthy, CollectedWereHealthy, StartLeastConnections,
           Filtered
  <2>2. /\ AtRest'
        /\ FlagsRecorded'
        /\ CollectedWereHealthy'
        /\ PassedAccountedFor'
        /\ WeighOnlyWeighted'
        /\ SelectedWasHealthy'
        /\ NoneNeedsOutage'
    BY <1>6, SMTT(20)
       DEF AtRest, FlagsRecorded, CollectedWereHealthy, PassedAccountedFor,
           WeighOnlyWeighted, SelectedWasHealthy, NoneNeedsOutage,
           StartLeastConnections, Filtered
  <2> QED
    BY <2>1, <2>2 DEF IInv
<1>7. ASSUME NEW c \in Callers, ScoreLeft(c) PROVE IInv'
  <2>1. /\ AtRest'
        /\ FlagsRecorded'
        /\ CollectedWereHealthy'
        /\ MinimumWasHealthy'
        /\ PassedAccountedFor'
        /\ WeighOnlyWeighted'
        /\ SelectedWasHealthy'
        /\ NoneNeedsOutage'
    BY <1>7, SMTT(20)
       DEF AtRest, FlagsRecorded, CollectedWereHealthy, MinimumWasHealthy,
           PassedAccountedFor, WeighOnlyWeighted, SelectedWasHealthy,
           NoneNeedsOutage, ScoreLeft
  <2> QED
    BY <2>1 DEF IInv
<1>8. ASSUME NEW c \in Callers, ScoreRight(c) PROVE IInv'
  <2>1. MinimumWasHealthy'
    BY <1>8
       DEF MinimumWasHealthy, MinimumInList, CollectedWereHealthy, ScoreRight
  <2>2. /\ AtRest'
        /\ FlagsRecorded'
        /\ CollectedWereHealthy'
        /\ PassedAccountedFor'
        /\ WeighOnlyWeighted'
        /\ SelectedWasHealthy'
        /\ NoneNeedsOutage'
    BY <1>8, SMTT(20)
       DEF AtRest, FlagsRecorded, CollectedWereHealthy, PassedAccountedFor,
           WeighOnlyWeighted, SelectedWasHealthy, NoneNeedsOutage, ScoreRight
  <2> QED
    BY <2>1, <2>2 DEF IInv
<1>9. ASSUME NEW c \in Callers, SelectLeastConnections(c) PROVE IInv'
  <2>1. SelectedWasHealthy'
    BY <1>9
       DEF SelectedWasHealthy, MinimumWasHealthy, SelectLeastConnections,
           Return
  <2>2. NoneNeedsOutage'
    BY <1>9 DEF NoneNeedsOutage, MinimumInList, SelectLeastConnections, Return
  <2>3. /\ AtRest'
        /\ FlagsRecorded'
        /\ CollectedWereHealthy'
        /\ MinimumWasHealthy'
        /\ PassedAccountedFor'
        /\ WeighOnlyWeighted'
    BY <1>9
       DEF AtRest, FlagsRecorded, CollectedWereHealthy, MinimumWasHealthy,
           PassedAccountedFor, WeighOnlyWeighted, SelectLeastConnections,
           Return
  <2> QED
    BY <2>1, <2>2, <2>3 DEF IInv
<1>10. ASSUME NEW c \in Callers, StartWeighted(c) PROVE IInv'
  <2>1. /\ AtRest'
        /\ FlagsRecorded'
        /\ CollectedWereHealthy'
        /\ MinimumWasHealthy'
        /\ PassedAccountedFor'
        /\ WeighOnlyWeighted'
        /\ SelectedWasHealthy'
        /\ NoneNeedsOutage'
    BY <1>10
       DEF AtRest, FlagsRecorded, CollectedWereHealthy, MinimumWasHealthy,
           PassedAccountedFor, WeighOnlyWeighted, SelectedWasHealthy,
           NoneNeedsOutage, StartWeighted, Filtered
  <2> QED
    BY <2>1 DEF IInv
<1>11. ASSUME NEW c \in Callers, Weigh(c) PROVE IInv'
  <2>1. CollectedWereHealthy'
    <3>1. \A i \in 1..Len(list'[c]) : list'[c][i] \in upSince[c]
      <4>1. CASE healthy[pos[c]]
        <5>1. list'[c] = list[c] \o Copies(pos[c])
          BY <1>11, <4>1 DEF Weigh, IsHealthy
        <5>2. pos[c] \in Targets /\ pos[c] \in upSince[c]
          BY <1>11, <4>1, SizesAssumption DEF Weigh, Exhausted, FlagsRecorded
        <5>3. \A i \in 1..Len(Copies(pos[c])) : Copies(pos[c])[i] = pos[c]
          BY <5>2, WeightAssumption DEF Copies
        <5>4. \A i \in 1..Len(list[c]) : list[c][i] \in upSince[c]
          BY <1>11 DEF CollectedWereHealthy, Weigh
        <5>5. list[c] \in Seq(Targets) /\ Copies(pos[c]) \in Seq(Targets)
          BY <5>2, CopiesType
        <5>6. ASSUME NEW i \in 1..Len(list'[c])
              PROVE  \/ i \in 1..Len(list[c]) /\ list'[c][i] = list[c][i]
                     \/ \E j \in 1..Len(Copies(pos[c])) :
                          list'[c][i] = Copies(pos[c])[j]
          <6>1. i \in 1..Len(list[c] \o Copies(pos[c]))
            BY <5>1
          <6>2. \/ i \in 1..Len(list[c]) /\ (list[c] \o Copies(pos[c]))[i] = list[c][i]
                \/ \E j \in 1..Len(Copies(pos[c])) :
                     (list[c] \o Copies(pos[c]))[i] = Copies(pos[c])[j]
            BY <5>5, <6>1, ConcatParts, SMTT(20)
          <6> QED
            BY <5>1, <6>2, Zenon
        <5> QED
          BY <5>2, <5>3, <5>4, <5>6
      <4>2. CASE ~healthy[pos[c]]
        BY <1>11, <4>2 DEF CollectedWereHealthy, Weigh, IsHealthy
      <4> QED
        BY <4>1, <4>2
    <3> QED
      BY <1>11, <3>1 DEF CollectedWereHealthy, Weigh
  <2>2. PassedAccountedFor'
    <3>1. \A t \in Targets : t < pos[c] => PassedOver(c, t)'
      <4> SUFFICES ASSUME NEW t \in Targets, t < pos[c] PROVE PassedOver(c, t)'
        OBVIOUS
      <4>1. PassedOver(c, t)
        BY <1>11 DEF PassedAccountedFor, Weigh
      <4>2. \A i \in 1..Len(list[c]) : i \in 1..Len(list'[c]) /\ list'[c][i] = list[c][i]
        BY <1>11, CopiesType DEF Weigh
      <4> QED
        BY <1>11, <4>1, <4>2 DEF Weigh
    <3>2. \A t \in Targets : t = pos[c] => PassedOver(c, t)'
      <4>0. pos[c] \in Targets /\ UNCHANGED <<downSince, strategy>>
        BY <1>11, SizesAssumption DEF Weigh, Exhausted
      <4>1. CASE healthy[pos[c]] /\ Weight[pos[c]] # 0
        <5>1. list'[c] = list[c] \o Copies(pos[c])
          BY <1>11, <4>1 DEF Weigh, IsHealthy
        <5>2. Len(Copies(pos[c])) = Weight[pos[c]] /\ Copies(pos[c])[1] = pos[c]
          BY <4>0, <4>1, WeightAssumption DEF Copies
        <5>3. list[c] \in Seq(Targets) /\ Copies(pos[c]) \in Seq(Targets)
          BY <4>0, CopiesType
        <5>4. Copies(pos[c]) # <<>>
          BY <4>0, <4>1, <5>2, WeightAssumption
        <5>5. /\ Len(list[c]) + 1 \in 1..Len(list'[c])
              /\ list'[c][Len(list[c]) + 1] = pos[c]
          BY <5>1, <5>2, <5>3, <5>4, ConcatNext, SMTT(20)
        <5> QED
          BY <5>5
      <4>2. CASE healthy[pos[c]] /\ Weight[pos[c]] = 0
        BY <1>11, <4>0, <4>2 DEF Weigh, WeighOnlyWeighted
      <4>3. CASE ~healthy[pos[c]]
        BY <1>11, <4>0, <4>3 DEF Weigh, FlagsRecorded
      <4> QED
        BY <4>1, <4>2, <4>3
    <3>3. pos'[c] = pos[c] + 1 /\ \A d \in Callers : d # c => pos'[d] = pos[d] /\ list'[d] = list[d]
      BY <1>11 DEF Weigh, Advance
    <3> SUFFICES ASSUME NEW d \in Callers, pc'[d] \in {"filter", "weigh"},
                        NEW t \in Targets, t < pos'[d]
                 PROVE  PassedOver(d, t)'
      BY DEF PassedAccountedFor
    <3>4. CASE d = c
      <4>1. t < pos[c] \/ t = pos[c]
        BY <3>3, <3>4
      <4> QED
        BY <3>1, <3>2, <3>4, <4>1
    <3>5. CASE d # c
      BY <1>11, <3>3, <3>5 DEF PassedAccountedFor, Weigh
    <3> QED
      BY <3>4, <3>5
  <2>3. /\ AtRest'
        /\ FlagsRecorded'
        /\ MinimumWasHealthy'
        /\ WeighOnlyWeighted'
        /\ SelectedWasHealthy'
        /\ NoneNeedsOutage'
    BY <1>11
       DEF AtRest, FlagsRecorded, MinimumWasHealthy, WeighOnlyWeighted,
           SelectedWasHealthy, NoneNeedsOutage, Weigh, Exhausted, IsHealthy,
           Advance
  <2> QED
    BY <2>1, <2>2, <2>3 DEF IInv
<1>12. ASSUME NEW c \in Callers, SelectWeighted(c) PROVE IInv'
  <2>1. \E i \in 1..Len(list[c]) : Turn(list[c]) = list[c][i]
    <3>1. list[c] \in Seq(Targets) /\ list[c] # <<>> /\ counter \in Nat
      BY <1>12 DEF SelectWeighted
    <3> QED
      BY <3>1, TurnInList DEF Turn
  <2>2. SelectedWasHealthy'
    BY <1>12, <2>1
       DEF SelectedWasHealthy, CollectedWereHealthy, SelectWeighted, TakeTurn,
           Return
  <2>3. NoneNeedsOutage'
    BY <1>12, <2>1 DEF NoneNeedsOutage, SelectWeighted, TakeTurn, Return
  <2>4. /\ AtRest'
        /\ FlagsRecorded'
        /\ CollectedWereHealthy'
        /\ MinimumWasHealthy'
        /\ PassedAccountedFor'
        /\ WeighOnlyWeighted'
    BY <1>12, SMTT(20)
       DEF AtRest, FlagsRecorded, CollectedWereHealthy, MinimumWasHealthy,
           PassedAccountedFor, WeighOnlyWeighted, SelectWeighted, TakeTurn,
           Return
  <2> QED
    BY <2>1, <2>2, <2>3, <2>4 DEF IInv
<1>13. ASSUME NEW c \in Callers, Begin(c) PROVE IInv'
  <2>1. /\ AtRest'
        /\ FlagsRecorded'
        /\ CollectedWereHealthy'
        /\ MinimumWasHealthy'
        /\ PassedAccountedFor'
        /\ WeighOnlyWeighted'
        /\ SelectedWasHealthy'
        /\ NoneNeedsOutage'
    BY <1>13
       DEF AtRest, FlagsRecorded, CollectedWereHealthy, MinimumWasHealthy,
           PassedAccountedFor, WeighOnlyWeighted, SelectedWasHealthy,
           NoneNeedsOutage, Begin
  <2> QED
    BY <2>1 DEF IInv
<1>14. ASSUME NEW c \in Callers, End(c) PROVE IInv'
  <2>1. /\ AtRest'
        /\ FlagsRecorded'
        /\ CollectedWereHealthy'
        /\ MinimumWasHealthy'
        /\ PassedAccountedFor'
        /\ WeighOnlyWeighted'
        /\ SelectedWasHealthy'
        /\ NoneNeedsOutage'
    BY <1>14
       DEF AtRest, FlagsRecorded, CollectedWereHealthy, MinimumWasHealthy,
           PassedAccountedFor, WeighOnlyWeighted, SelectedWasHealthy,
           NoneNeedsOutage, End, Leave
  <2> QED
    BY <2>1 DEF IInv
<1>15. ASSUME NEW c \in Callers, GiveUp(c) PROVE IInv'
  <2>1. /\ AtRest'
        /\ FlagsRecorded'
        /\ CollectedWereHealthy'
        /\ MinimumWasHealthy'
        /\ PassedAccountedFor'
        /\ WeighOnlyWeighted'
        /\ SelectedWasHealthy'
        /\ NoneNeedsOutage'
    BY <1>15
       DEF AtRest, FlagsRecorded, CollectedWereHealthy, MinimumWasHealthy,
           PassedAccountedFor, WeighOnlyWeighted, SelectedWasHealthy,
           NoneNeedsOutage, GiveUp, Leave
  <2> QED
    BY <2>1 DEF IInv
<1>16. ASSUME NEW t \in Flapping, NEW h \in BOOLEAN, SetHealthy(t, h) PROVE IInv'
  <2>1. /\ AtRest'
        /\ FlagsRecorded'
        /\ CollectedWereHealthy'
        /\ MinimumWasHealthy'
        /\ PassedAccountedFor'
        /\ WeighOnlyWeighted'
        /\ SelectedWasHealthy'
        /\ NoneNeedsOutage'
    BY <1>16
       DEF AtRest, FlagsRecorded, CollectedWereHealthy, MinimumWasHealthy,
           PassedAccountedFor, WeighOnlyWeighted, SelectedWasHealthy,
           NoneNeedsOutage, SetHealthy
  <2> QED
    BY <2>1 DEF IInv
<1>17. CASE UNCHANGED vars
  <2>1. /\ AtRest'
        /\ FlagsRecorded'
        /\ CollectedWereHealthy'
        /\ MinimumWasHealthy'
        /\ PassedAccountedFor'
        /\ WeighOnlyWeighted'
        /\ SelectedWasHealthy'
        /\ NoneNeedsOutage'
    BY <1>17
       DEF AtRest, FlagsRecorded, CollectedWereHealthy, MinimumWasHealthy,
           PassedAccountedFor, WeighOnlyWeighted, SelectedWasHealthy,
           NoneNeedsOutage, vars
  <2> QED
    BY <2>1 DEF IInv
<1> QED
  BY <1>1, <1>2, <1>3, <1>4, <1>5, <1>6, <1>7, <1>8, <1>9, <1>10, <1>11, <1>12,
     <1>13, <1>14, <1>15, <1>16, <1>17, SMTT(20)
     DEF Next, Step

-----------------------------------------------------------------------------
(* Results *)

\* The types hold of every reachable state: in particular both usize counters
\* stay inside their width and min_by never reads outside its list.
THEOREM TypeCorrect == Spec => []TypeOK
<1>1. TypeInv => TypeOK
  BY DEF TypeInv
<1> QED
  BY <1>1, TypeInit, TypeStep, PTL DEF Spec

\* The inductive invariant holds initially: nothing runs, no history.
LEMMA IInvInit == Init => IInv
<1> SUFFICES ASSUME Init PROVE IInv
  OBVIOUS
<1>1. TypeInv
  BY TypeInit
<1> QED
  BY <1>1 DEF Init, IInv, AtRest, FlagsRecorded, CollectedWereHealthy, InCall,
              Scanning, MinimumWasHealthy, PassedAccountedFor,
              WeighOnlyWeighted, SelectedWasHealthy, NoneNeedsOutage

\* No strategy ever selects a target that was down during the whole call, for
\* any flapping of the flags between the loads (upstream.rs:34-99).
THEOREM SelectionCorrect == Spec => []SelectedWasHealthy
<1>1. IInv => SelectedWasHealthy
  BY DEF IInv
<1> QED
  BY <1>1, IInvInit, IInvStep, PTL DEF Spec

\* A call that returns None saw every target with a share down at some instant
\* (upstream.rs:41-44, 92-94).
THEOREM NoneCorrect == Spec => []NoneNeedsOutage
<1>1. IInv => NoneNeedsOutage
  BY DEF IInv
<1> QED
  BY <1>1, IInvInit, IInvStep, PTL DEF Spec

=============================================================================

-------------------------- MODULE SelectionProofs --------------------------
(***************************************************************************)
(* Upstream implements Selection, for any number of targets and callers,   *)
(* any weights, and any flapping of the flags: every step of a call is a   *)
(* step of Selection under the mapping of Abstract, or leaves its state.   *)
(***************************************************************************)
EXTENDS UpstreamProofs

\* What the weighted scan has collected has a share.
CollectedHaveShare ==
  \A c \in Callers : pc[c] = "weigh" =>
    \A i \in 1..Len(list[c]) : Weight[list[c][i]] # 0

\* Only least connections keeps a running minimum.
MinimumOfLeast ==
  \A c \in Callers : pc[c] \in {"left", "right"} => strategy = "LeastConnections"

RInv == IInv /\ CollectedHaveShare /\ MinimumOfLeast

Answered(c) == pc[c] \in {"selected", "serving"}

-----------------------------------------------------------------------------
(* The invariant *)

\* An element of the copies of a target is that target, and there is none
\* without a share.
LEMMA CopiesHaveShare ==
  ASSUME NEW t \in Targets, NEW i \in 1..Len(Copies(t))
  PROVE  Copies(t)[i] = t /\ Weight[t] # 0
BY WeightAssumption DEF Copies

\* Two lists of targets with a share make one.
LEMMA SharesConcat ==
  ASSUME NEW s \in Seq(Targets), NEW r \in Seq(Targets),
         \A i \in 1..Len(s) : Weight[s[i]] # 0,
         \A i \in 1..Len(r) : Weight[r[i]] # 0
  PROVE  \A i \in 1..Len(s \o r) : Weight[(s \o r)[i]] # 0
<1> SUFFICES ASSUME NEW i \in 1..Len(s \o r) PROVE Weight[(s \o r)[i]] # 0
  OBVIOUS
<1>1. \/ i \in 1..Len(s) /\ (s \o r)[i] = s[i]
      \/ \E j \in 1..Len(r) : (s \o r)[i] = r[j]
  BY ConcatParts
<1> QED
  BY <1>1, Zenon

\* One iteration of the weighted scan adds only what has a share.
LEMMA WeighKeepsShare ==
  ASSUME RInv, NEW c \in Callers, Weigh(c)
  PROVE  CollectedHaveShare'
<1>0. pos[c] \in Targets
  BY SizesAssumption DEF RInv, IInv, TypeInv, TypeOK, Weigh, Exhausted, Targets
<1>1. list[c] \in Seq(Targets) /\ Copies(pos[c]) \in Seq(Targets)
  BY <1>0, CopiesType DEF RInv, IInv, TypeInv, TypeOK
<1>2. \A i \in 1..Len(list[c]) : Weight[list[c][i]] # 0
  BY DEF RInv, CollectedHaveShare, Weigh
<1>3. \A i \in 1..Len(list[c] \o Copies(pos[c])) : Weight[(list[c] \o Copies(pos[c]))[i]] # 0
  <2>1. \A i \in 1..Len(Copies(pos[c])) : Weight[Copies(pos[c])[i]] # 0
    BY <1>0, CopiesHaveShare
  <2> QED
    BY <1>1, <1>2, <2>1, SharesConcat
<1>4. list'[c] = list[c] \o Copies(pos[c]) \/ list'[c] = list[c]
  BY DEF RInv, IInv, TypeInv, TypeOK, Weigh
<1>5. \A i \in 1..Len(list'[c]) : Weight[list'[c][i]] # 0
  BY <1>2, <1>3, <1>4
<1> QED
  BY <1>5 DEF RInv, IInv, TypeInv, TypeOK, CollectedHaveShare, Weigh

\* The invariant holds initially, and every step keeps it.
LEMMA RInvInit == Init => RInv
BY IInvInit DEF RInv, Init, CollectedHaveShare, MinimumOfLeast

\* Every action keeps the running minimum among the shares.
LEMMA MinimumStep == RInv /\ [Next]_vars => MinimumOfLeast'
<1> SUFFICES ASSUME RInv, [Next]_vars PROVE MinimumOfLeast'
  OBVIOUS
<1> USE DEF RInv, IInv, TypeInv, TypeOK, MinimumOfLeast
<1>1. ASSUME NEW c \in Callers, StartLeastConnections(c) PROVE MinimumOfLeast'
  BY <1>1 DEF StartLeastConnections, Filtered, shared
<1>2. ASSUME NEW c \in Callers, \/ Filter(c) \/ ScoreLeft(c) \/ ScoreRight(c)
                                \/ StartWeighted(c) \/ Weigh(c)
      PROVE  MinimumOfLeast'
  BY <1>2 DEF Filter, ScoreLeft, ScoreRight, StartWeighted, Weigh, shared
<1>3. ASSUME NEW c \in Callers,
             \/ NoHealthyTarget(c) \/ SelectRoundRobin(c) \/ SelectRandom(c)
             \/ SelectLeastConnections(c) \/ SelectWeighted(c)
      PROVE  MinimumOfLeast'
  BY <1>3 DEF NoHealthyTarget, SelectRoundRobin, SelectRandom, SelectLeastConnections,
              SelectWeighted, TakeTurn, Return, shared
<1>4. ASSUME NEW c \in Callers, Call(c) \/ Begin(c) \/ End(c) \/ GiveUp(c)
      PROVE  MinimumOfLeast'
  BY <1>4 DEF Call, Begin, End, GiveUp, Leave, shared
<1>5. ASSUME NEW t \in Flapping, NEW h \in BOOLEAN, SetHealthy(t, h)
      PROVE  MinimumOfLeast'
  BY <1>5 DEF SetHealthy, locals
<1>6. CASE UNCHANGED vars
  BY <1>6 DEF vars, shared, locals
<1> QED
  BY <1>1, <1>2, <1>3, <1>4, <1>5, <1>6 DEF Next, Step

\* Every action keeps the strengthening.
LEMMA RInvStep == RInv /\ [Next]_vars => RInv'
<1> SUFFICES ASSUME RInv, [Next]_vars PROVE CollectedHaveShare'
  BY IInvStep, MinimumStep DEF RInv
<1>1. ASSUME NEW c \in Callers, Weigh(c) PROVE CollectedHaveShare'
  BY <1>1, WeighKeepsShare
<1>2. ASSUME NEW c \in Callers, StartWeighted(c) PROVE CollectedHaveShare'
  BY <1>2 DEF RInv, IInv, TypeInv, TypeOK, CollectedHaveShare, StartWeighted
<1>3. ASSUME NEW c \in Callers, Call(c) \/ Filter(c) \/ StartLeastConnections(c)
                                \/ ScoreLeft(c) \/ ScoreRight(c)
      PROVE  CollectedHaveShare'
  <2>1. \A d \in Callers : pc'[d] = "weigh" => pc[d] = "weigh" /\ list'[d] = list[d]
    BY <1>3 DEF RInv, IInv, TypeInv, TypeOK, Call, Filter, StartLeastConnections,
                ScoreLeft, ScoreRight
  <2> QED
    BY <2>1 DEF RInv, CollectedHaveShare
<1>4. ASSUME NEW c \in Callers, NoHealthyTarget(c) \/ SelectRoundRobin(c)
               \/ SelectRandom(c) \/ SelectLeastConnections(c) \/ SelectWeighted(c)
      PROVE  CollectedHaveShare'
  BY <1>4 DEF RInv, IInv, TypeInv, TypeOK, CollectedHaveShare, NoHealthyTarget,
              SelectRoundRobin, SelectRandom, SelectLeastConnections,
              SelectWeighted, TakeTurn, Return
<1>5. ASSUME NEW c \in Callers, Begin(c) \/ End(c) \/ GiveUp(c)
      PROVE  CollectedHaveShare'
  <2>1. \A d \in Callers : pc'[d] = "weigh" => pc[d] = "weigh" /\ list'[d] = list[d]
    BY <1>5 DEF RInv, IInv, TypeInv, TypeOK, Begin, End, GiveUp, Leave
  <2> QED
    BY <2>1 DEF RInv, CollectedHaveShare
<1>6. ASSUME NEW t \in Flapping, NEW h \in BOOLEAN, SetHealthy(t, h)
      PROVE  CollectedHaveShare'
  BY <1>6 DEF CollectedHaveShare, RInv, SetHealthy, locals
<1>7. CASE UNCHANGED vars
  BY <1>7 DEF CollectedHaveShare, RInv, vars, locals
<1> QED
  BY <1>1, <1>2, <1>3, <1>4, <1>5, <1>6, <1>7 DEF Next, Step

-----------------------------------------------------------------------------
(* The mapping *)

\* Steps inside of a call, and of a caller that has its answer, change nothing
\* of Selection's state.
LEMMA Unseen ==
  ASSUME UNCHANGED <<strategy, healthy, upSince, downSince>>,
         \A d \in Callers : InCall(d)' = InCall(d),
         \A d \in Callers : Answered(d)' = Answered(d),
         \A d \in Callers : Answered(d) => target'[d] = target[d]
  PROVE  UNCHANGED Abstract!vars
<1>1. Asking' = Asking
  BY DEF Asking
<1>2. Among' = Among
  BY DEF Among, InsideCall, HasShare
<1>3. SeenUp' = SeenUp /\ SeenDown' = SeenDown
  BY DEF SeenUp, SeenDown, InsideCall
<1>4. Given' = Given
  BY DEF Given, Answered
<1> QED
  BY <1>1, <1>2, <1>3, <1>4 DEF Abstract!vars

\* A call that returns t leaves Selection's state as a call there does.
LEMMA ReturnMaps ==
  ASSUME TypeOK, NEW c \in Callers, NEW t, InCall(c), Return(c, t),
         UNCHANGED <<strategy, healthy, upSince, downSince>>
  PROVE  c \in Asking /\ Abstract!Return(c, t)
<1>1. /\ pc' = [pc EXCEPT ![c] = "selected"]
      /\ target' = [target EXCEPT ![c] = t]
      /\ pc \in [Callers -> Scanning \cup {"idle", "selected", "serving"}]
      /\ target \in [Callers -> Targets \cup {NoTarget}]
  BY DEF Return, TypeOK
<1>2. \A d \in Callers : InCall(d)' = (d # c /\ InCall(d))
  BY <1>1 DEF InCall, Scanning
<1>3. Asking' = Asking \ {c} /\ c \in Asking
  BY <1>2 DEF Asking
<1>4. Among' = [Among EXCEPT ![c] = {}]
  BY <1>2 DEF Among, InsideCall, HasShare
<1>5. SeenUp' = [SeenUp EXCEPT ![c] = {}] /\ SeenDown' = [SeenDown EXCEPT ![c] = {}]
  BY <1>2 DEF SeenUp, SeenDown, InsideCall
<1>6. Given' = [Given EXCEPT ![c] = t]
  BY <1>1 DEF Given
<1> QED
  BY <1>3, <1>4, <1>5, <1>6 DEF Abstract!Return

\* A call that returns a target that was up and has a share gives it.
LEMMA GiveMaps ==
  ASSUME TypeOK, NEW c \in Callers, NEW t \in Targets, InCall(c), Return(c, t),
         t \in upSince[c], HasShare(t),
         UNCHANGED <<strategy, healthy, upSince, downSince>>
  PROVE  Abstract!Give(c, t)
<1>1. t \in Among[c] /\ t \in SeenUp[c]
  BY DEF Among, SeenUp, InsideCall
<1> QED
  BY <1>1, ReturnMaps DEF Abstract!Give

\* What each of the four strategies returns was up and has a share.
LEMMA SelectMaps ==
  ASSUME RInv, NEW c \in Callers,
         \/ SelectRoundRobin(c) \/ SelectRandom(c)
         \/ SelectLeastConnections(c) \/ SelectWeighted(c)
  PROVE  \E t \in Targets : Abstract!Give(c, t)
<1> USE DEF RInv, IInv, TypeInv
<1>1. UNCHANGED <<strategy, healthy, upSince, downSince>>
  BY DEF SelectRoundRobin, SelectRandom, SelectLeastConnections, SelectWeighted,
         TakeTurn, shared, history
<1>2. InCall(c)
  BY DEF SelectRoundRobin, SelectRandom, SelectLeastConnections, SelectWeighted,
         Filtered, InCall, Scanning
<1>3. \A i \in 1..Len(list[c]) : list[c][i] \in Targets /\ list[c][i] \in upSince[c]
  <2>1. \A i \in 1..Len(list[c]) : list[c][i] \in upSince[c]
    BY <1>2 DEF CollectedWereHealthy
  <2>2. upSince[c] \subseteq Targets
    BY DEF TypeOK
  <2> QED
    BY <2>1, <2>2
<1>4. ASSUME NEW i \in 1..Len(list[c]), Return(c, list[c][i]), HasShare(list[c][i])
      PROVE  \E t \in Targets : Abstract!Give(c, t)
  BY <1>1, <1>2, <1>3, <1>4, GiveMaps
<1>5. list[c] \in Seq(Targets) /\ counter \in Nat
  BY DEF TypeOK
<1>6. CASE SelectRoundRobin(c)
  <2>1. PICK i \in 1..Len(list[c]) : Turn(list[c]) = list[c][i]
    BY <1>5, <1>6, TurnInList DEF SelectRoundRobin, Filtered, Turn
  <2> QED
    BY <1>4, <1>6, <2>1 DEF SelectRoundRobin, Filtered, TakeTurn, HasShare
<1>7. CASE SelectRandom(c)
  BY <1>4, <1>7 DEF SelectRandom, Filtered, HasShare
<1>8. CASE SelectLeastConnections(c)
  <2>1. /\ target[c] \in Targets /\ target[c] \in upSince[c]
        /\ Return(c, target[c])
    <3>1. pc[c] = "left"
      BY <1>8 DEF SelectLeastConnections
    <3> QED
      BY <1>8, <3>1 DEF SelectLeastConnections, MinimumInList, MinimumWasHealthy
  <2>2. HasShare(target[c])
    BY <1>8 DEF SelectLeastConnections, MinimumOfLeast, HasShare
  <2> QED
    BY <1>1, <1>2, <2>1, <2>2, GiveMaps
<1>9. CASE SelectWeighted(c)
  <2>1. PICK i \in 1..Len(list[c]) : Turn(list[c]) = list[c][i]
    BY <1>5, <1>9, TurnInList DEF SelectWeighted, Turn
  <2>2. HasShare(list[c][i])
    BY <1>3, <1>9, WeightAssumption DEF SelectWeighted, CollectedHaveShare, HasShare
  <2> QED
    BY <1>4, <1>9, <2>1, <2>2 DEF SelectWeighted, TakeTurn
<1> QED
  BY <1>6, <1>7, <1>8, <1>9

\* A call comes back empty-handed only if every target with a share was down.
LEMMA NoneMaps ==
  ASSUME RInv, NEW c \in Callers, NoHealthyTarget(c)
  PROVE  Abstract!GiveNone(c)
<1> USE DEF RInv, IInv, TypeInv
<1>1. /\ UNCHANGED <<strategy, healthy, upSince, downSince>>
      /\ InCall(c) /\ Return(c, NoTarget)
  BY DEF NoHealthyTarget, InCall, Scanning, shared, history
<1>2. \A t \in Targets : HasShare(t) => t \in downSince[c]
  <2>1. \A t \in Targets : t < pos[c]
    BY SizesAssumption DEF NoHealthyTarget, Exhausted, TypeOK, Targets
  <2>2. list[c] = <<>> /\ pc[c] \in {"filter", "weigh"}
    BY DEF NoHealthyTarget
  <2>3. \A t \in Targets : PassedOver(c, t)
    BY <2>1, <2>2 DEF PassedAccountedFor
  <2> QED
    BY <2>2, <2>3 DEF PassedOver, HasShare
<1>3. Among[c] \subseteq SeenDown[c]
  BY <1>1, <1>2 DEF Among, SeenDown, InsideCall
<1> QED
  BY <1>1, <1>3, ReturnMaps DEF Abstract!GiveNone

\* A task that enters select_target asks for a target with a share.
LEMMA CallMaps ==
  ASSUME RInv, NEW c \in Callers, Call(c)
  PROVE  Abstract!Ask(c, {t \in Targets : HasShare(t)})
<1> USE DEF RInv, IInv, TypeInv, TypeOK
<1>1. /\ pc' = [pc EXCEPT ![c] = "filter"] /\ pc[c] = "idle"
      /\ UNCHANGED <<strategy, healthy, target>>
  BY DEF Call, shared
<1>2. /\ InCall(c)' /\ ~InCall(c)
      /\ \A d \in Callers : d # c => InCall(d)' = InCall(d)
  BY <1>1 DEF InCall, Scanning
<1>3. Asking' = Asking \cup {c} /\ c \notin Asking
  BY <1>2 DEF Asking
<1>4. Among' = [Among EXCEPT ![c] = {t \in Targets : HasShare(t)}]
  BY <1>1, <1>2 DEF Among, InsideCall, HasShare
<1>5. /\ SeenUp' = [SeenUp EXCEPT ![c] = Abstract!Up]
      /\ SeenDown' = [SeenDown EXCEPT ![c] = Targets \ Abstract!Up]
  <2>1. /\ upSince' = [upSince EXCEPT ![c] = Abstract!Up]
        /\ downSince' = [downSince EXCEPT ![c] = Targets \ Abstract!Up]
    BY DEF Call, Abstract!Up
  <2> QED
    BY <1>2, <2>1 DEF SeenUp, SeenDown, InsideCall
<1>6. Given' = [Given EXCEPT ![c] = NoTarget]
  BY <1>1 DEF Given
<1> QED
  BY <1>1, <1>3, <1>4, <1>5, <1>6 DEF Abstract!Ask

\* A caller that is done forgets its target.
LEMMA LeaveMaps ==
  ASSUME RInv, NEW c \in Callers, End(c) \/ GiveUp(c)
  PROVE  Abstract!Forget(c)
<1> USE DEF RInv, IInv, TypeInv, TypeOK
<1>1. /\ pc' = [pc EXCEPT ![c] = "idle"] /\ pc[c] \in {"serving", "selected"}
      /\ target' = [target EXCEPT ![c] = NoTarget]
      /\ upSince' = [upSince EXCEPT ![c] = {}]
      /\ downSince' = [downSince EXCEPT ![c] = {}]
      /\ UNCHANGED <<strategy, healthy>>
  BY DEF End, GiveUp, Leave
<1>2. ~InCall(c) /\ \A d \in Callers : InCall(d)' = InCall(d)
  BY <1>1 DEF InCall, Scanning
<1>3. Asking' = Asking /\ c \notin Asking
  BY <1>2 DEF Asking
<1>4. Among' = Among
  BY <1>1, <1>2 DEF Among, InsideCall, HasShare
<1>5. SeenUp' = SeenUp /\ SeenDown' = SeenDown
  BY <1>1, <1>2 DEF SeenUp, SeenDown, InsideCall
<1>6. Given' = [Given EXCEPT ![c] = NoTarget]
  BY <1>1 DEF Given
<1> QED
  BY <1>1, <1>3, <1>4, <1>5, <1>6 DEF Abstract!Forget

\* The running calls observe a flag that changes.
LEMMA FlagMaps ==
  ASSUME RInv, NEW t \in Flapping, NEW h \in BOOLEAN, SetHealthy(t, h)
  PROVE  Abstract!SetHealthy(t, h)
<1> USE DEF RInv, IInv, TypeInv, TypeOK
<1>1. /\ healthy' = [healthy EXCEPT ![t] = h] /\ t \in Targets
      /\ UNCHANGED <<strategy, pc, target>>
  BY FlappingAssumption DEF SetHealthy, locals
<1>2. /\ Asking' = Asking /\ Among' = Among /\ Given' = Given
  BY <1>1 DEF Asking, Among, InsideCall, InCall, HasShare, Given
<1>3. \A d \in Callers : InCall(d)' = InCall(d) /\ (d \in Asking <=> InCall(d))
  BY <1>1 DEF InCall, Asking
<1>4. ASSUME NEW d \in Callers, InCall(d)
      PROVE  /\ upSince'[d] = upSince[d] \cup {u \in Targets : healthy'[u]}
             /\ downSince'[d] = downSince[d] \cup {u \in Targets : ~healthy'[u]}
  <2>1. \A u \in Targets : IF healthy[u] THEN u \in upSince[d] ELSE u \in downSince[d]
    BY <1>4 DEF FlagsRecorded
  <2>2. /\ upSince'[d] = IF h THEN upSince[d] \cup {t} ELSE upSince[d]
        /\ downSince'[d] = IF ~h THEN downSince[d] \cup {t} ELSE downSince[d]
    BY <1>4 DEF SetHealthy
  <2>3. \A u \in Targets : healthy'[u] = IF u = t THEN h ELSE healthy[u]
    BY <1>1
  <2> QED
    BY <1>1, <2>1, <2>2, <2>3
<1>5. /\ SeenUp' = [d \in Callers |->
           IF d \in Asking THEN SeenUp[d] \cup {u \in Targets : healthy'[u]} ELSE SeenUp[d]]
      /\ SeenDown' = [d \in Callers |->
           IF d \in Asking THEN SeenDown[d] \cup {u \in Targets : ~healthy'[u]} ELSE SeenDown[d]]
  BY <1>3, <1>4 DEF SeenUp, SeenDown, InsideCall
<1> QED
  BY <1>1, <1>2, <1>5 DEF Abstract!SetHealthy, Abstract!Observe

-----------------------------------------------------------------------------
(* Result *)

\* Init maps to Init.
LEMMA InitMaps == Init => Abstract!Init
<1> SUFFICES ASSUME Init PROVE Abstract!Init
  OBVIOUS
<1>1. \A c \in Callers : ~InCall(c) /\ ~Answered(c)
  BY DEF Init, InCall, Scanning, Answered
<1>2. /\ Asking = {} /\ Among = [c \in Callers |-> {}]
      /\ SeenUp = [c \in Callers |-> {}] /\ SeenDown = [c \in Callers |-> {}]
      /\ Given = [c \in Callers |-> NoTarget]
  BY <1>1 DEF Asking, Among, SeenUp, SeenDown, InsideCall, Given, Answered
<1> QED
  BY <1>2 DEF Init, Abstract!Init

\* Every step maps to a step of Selection or leaves its state.
LEMMA StepMaps == RInv /\ [Next]_vars => [Abstract!Next]_Abstract!vars
<1> SUFFICES ASSUME RInv, [Next]_vars PROVE [Abstract!Next]_Abstract!vars
  OBVIOUS
<1>1. ASSUME NEW c \in Callers, Call(c) PROVE Abstract!Next
  <2>1. {t \in Targets : HasShare(t)} \in SUBSET Targets
    OBVIOUS
  <2> QED
    BY <1>1, <2>1, CallMaps DEF Abstract!Next
<1>2. ASSUME NEW c \in Callers,
             \/ SelectRoundRobin(c) \/ SelectRandom(c)
             \/ SelectLeastConnections(c) \/ SelectWeighted(c)
      PROVE  Abstract!Next
  BY <1>2, SelectMaps DEF Abstract!Next
<1>3. ASSUME NEW c \in Callers, NoHealthyTarget(c) PROVE Abstract!Next
  BY <1>3, NoneMaps DEF Abstract!Next
<1>4. ASSUME NEW c \in Callers, End(c) \/ GiveUp(c) PROVE Abstract!Next
  BY <1>4, LeaveMaps DEF Abstract!Next
<1>5. ASSUME NEW t \in Flapping, NEW h \in BOOLEAN, SetHealthy(t, h) PROVE Abstract!Next
  BY <1>5, FlagMaps, FlappingAssumption DEF Abstract!Next
<1>6. ASSUME NEW c \in Callers,
             \/ Filter(c) \/ StartLeastConnections(c) \/ ScoreLeft(c) \/ ScoreRight(c)
             \/ StartWeighted(c) \/ Weigh(c)
      PROVE  UNCHANGED Abstract!vars
  <2>1. UNCHANGED <<strategy, healthy, upSince, downSince>>
    BY <1>6 DEF Filter, StartLeastConnections, ScoreLeft, ScoreRight, StartWeighted,
                Weigh, shared, history
  <2>2. /\ pc[c] \in Scanning /\ pc'[c] \in Scanning
        /\ \A d \in Callers : d # c => pc'[d] = pc[d] /\ target'[d] = target[d]
    BY <1>6 DEF RInv, IInv, TypeInv, TypeOK, Filter, StartLeastConnections, ScoreLeft,
                ScoreRight, StartWeighted, Weigh, Filtered, Scanning
  <2> QED
    BY <2>1, <2>2, Unseen DEF InCall, Answered, Scanning
<1>7. ASSUME NEW c \in Callers, Begin(c) PROVE UNCHANGED Abstract!vars
  BY <1>7, Unseen DEF RInv, IInv, TypeInv, TypeOK, Begin, InCall, Scanning, Answered
<1>8. CASE UNCHANGED vars
  BY <1>8, Unseen DEF vars, shared, locals, history, InCall, Answered
<1> QED
  BY <1>1, <1>2, <1>3, <1>4, <1>5, <1>6, <1>7, <1>8 DEF Next, Step

\* Whatever a strategy loads, and however the flags flip between its loads, a
\* call of select_target is a call of Selection (upstream.rs:34-99).
THEOREM SelectionImplemented == Spec => ImplementsSelection
<1>1. Spec => []RInv
  BY RInvInit, RInvStep, PTL DEF Spec
<1> QED
  BY <1>1, InitMaps, StepMaps, PTL DEF Spec, ImplementsSelection, Abstract!Spec

=============================================================================

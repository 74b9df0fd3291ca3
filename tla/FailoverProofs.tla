--------------------------- MODULE FailoverProofs ---------------------------
(***************************************************************************)
(* Proofs about Failover: the health checker's theorems hold under calls   *)
(* of select_target, and the calls fail over, for any number of targets    *)
(* and callers, any interval and timeout.                                  *)
(***************************************************************************)
EXTENDS Failover, HealthCheckProofs

\* The calls are over their own callers, and consider all the targets.
CallTypes ==
  /\ asking \subseteq Callers
  /\ among \in [Callers -> SUBSET Targets]
  /\ up \in [Callers -> SUBSET Targets]
  /\ down \in [Callers -> SUBSET Targets]
  /\ DOMAIN given = Callers
  /\ settled \in [Callers -> SUBSET Targets]
  /\ \A c \in asking : among[c] = Targets

\* Only a checker with an interval of zero is gone.
PanickedAtZero == pc = "panicked" => interval = 0

CheckerInv == IInv /\ StaleInv /\ PanickedAtZero

\* What a running call has seen of a target that is old news is what it still
\* does.
SettledSeen ==
  interval # 0 => \A c \in asking : \A t \in settled[c] :
    /\ age[t] > Notice(t)
    /\ t \in up[c] => Good(t)
    /\ t \in down[c] => ~Good(t)

FailoverInv == CheckerInv /\ CallTypes /\ SettledSeen

\* The checker's invariants hold initially.
LEMMA CheckerInit == Init => CheckerInv
BY TypeInit, StaleInit
   DEF Init, CheckerInv, IInv, WasIsCurrent, FlagIsLastVerdict, PanickedAtZero

\* The checker's steps keep its invariants.
LEMMA CheckerStep == CheckerInv /\ [Next]_vars => CheckerInv'
<1> SUFFICES ASSUME CheckerInv, [Next]_vars PROVE CheckerInv'
  OBVIOUS
<1>1. IInv' /\ StaleInv'
  BY TypeStep, FlagStep, StaleStep DEF CheckerInv, IInv
<1>2. interval' = interval
  BY IntervalKept
<1>3. pc' = "panicked" => pc = "panicked" \/ interval = 0
  <2>1. CASE Start
    BY <2>1 DEF Start
  <2>2. CASE BeginRound \/ BeginProbe \/ EndRound
    BY <2>2 DEF BeginRound, BeginProbe, EndRound
  <2>3. CASE Answered \/ TimedOut
    BY <2>3 DEF Answered, TimedOut, Conclude
  <2>4. CASE Tick \/ UNCHANGED vars
    BY <2>4 DEF Tick, vars, checker
  <2>5. CASE \E t \in Targets, m \in Modes : Change(t, m)
    BY <2>5 DEF Change, checker
  <2> QED
    BY <2>1, <2>2, <2>3, <2>4, <2>5 DEF Next, Step
<1> QED
  BY <1>1, <1>2, <1>3 DEF CheckerInv, PanickedAtZero

\* A call takes no step of the checker, its targets or the clock.
LEMMA CallsAside ==
  ASSUME NEW c \in Callers,
         \/ Ask(c) \/ GiveNone(c) \/ Forget(c)
         \/ \E t \in Targets : Give(c, t)
  PROVE  UNCHANGED vars
BY DEF Ask, Give, GiveNone, Forget, Select!Ask, Select!Give, Select!GiveNone,
   Select!Forget, Select!Return, vars, checker

\* Requests leave the checker alone.
LEMMA CheckerUnderCalls == [FailoverNext]_all => [Next]_vars
<1>1. CASE Background
  BY <1>1 DEF Background
<1>2. CASE UNCHANGED all
  BY <1>2 DEF all
<1> QED
  BY <1>1, <1>2, CallsAside DEF FailoverNext

\* The bound follows from the checker's invariants.
LEMMA CheckerDetects == CheckerInv => DetectionBound
BY StaleWithinNotice DEF CheckerInv, IInv

\* The same after the step.
LEMMA DetectionNext == CheckerInv' => DetectionBound'
BY CheckerDetects, PTL

\* The flags of old news are right.
LEMMA OldIsFlagged ==
  ASSUME CheckerInv, interval # 0, NEW t \in Targets, age[t] > Notice(t)
  PROVE  healthy[t] = Good(t)
BY CheckerDetects DEF CheckerInv, PanickedAtZero, DetectionBound

\* Old news stays so while the target does not change.
LEMMA AgeGrows ==
  ASSUME TypeInv, [Next]_vars, NEW t \in Targets, (mode'[t] = "good") = Good(t)
  PROVE  age[t] \in Nat /\ age'[t] \in Nat /\ age[t] <= age'[t]
<1>a. age \in [Targets -> Nat] /\ MaxAge \in Nat
  BY BoundsAssumption DEF TypeInv, TypeOK
<1>1. CASE Start \/ BeginRound \/ BeginProbe \/ EndRound
  BY <1>a, <1>1 DEF Start, BeginRound, BeginProbe, EndRound
<1>2. CASE Answered \/ TimedOut
  <2>1. age' = age
    BY <1>2 DEF Answered, TimedOut, Conclude
  <2> QED
    BY <1>a, <2>1
<1>3. CASE UNCHANGED vars
  BY <1>a, <1>3 DEF vars
<1>4. CASE Tick
  BY <1>a, <1>4 DEF Tick
<1>5. CASE \E s \in Targets, m \in Modes : Change(s, m)
  <2>1. PICK s \in Targets, m \in Modes : Change(s, m)
    BY <1>5
  <2>2. mode'[t] = IF t = s THEN m ELSE mode[t]
    BY <2>1 DEF Change, TypeInv, TypeOK
  <2>3. age'[t] = age[t]
    BY <1>a, <2>1, <2>2 DEF Change
  <2> QED
    BY <1>a, <2>3
<1> QED
  BY <1>1, <1>2, <1>3, <1>4, <1>5 DEF Next, Step

\* The invariant holds initially: no call runs.
LEMMA FailoverInitInv == FailoverInit => FailoverInv
BY CheckerInit
   DEF FailoverInit, FailoverInv, Select!Init, CallTypes, SettledSeen

\* A call begins: what it sees of the old targets is what they do.
LEMMA AskSettled ==
  ASSUME FailoverInv, NEW c \in Callers, Ask(c)
  PROVE  CallTypes' /\ SettledSeen'
<1>a. CheckerInv /\ CallTypes
  BY DEF FailoverInv
<1>b. UNCHANGED vars
  BY CallsAside
<1>c. /\ interval' = interval /\ age' = age /\ mode' = mode /\ healthy' = healthy
      /\ asking' = asking \cup {c}
      /\ among' = [among EXCEPT ![c] = Targets]
      /\ up' = [up EXCEPT ![c] = Select!Up]
      /\ down' = [down EXCEPT ![c] = Targets \ Select!Up]
      /\ given' = [given EXCEPT ![c] = NoTarget]
      /\ settled' = [settled EXCEPT ![c] = Old]
  BY <1>b DEF Ask, Select!Ask, vars, checker
<1>1. CallTypes'
  BY <1>a, <1>c DEF CallTypes, Old, Select!Up
<1>2. ASSUME interval # 0, NEW d \in asking', NEW t \in settled'[d]
      PROVE  /\ age[t] > Notice(t)
             /\ t \in up'[d] => Good(t)
             /\ t \in down'[d] => ~Good(t)
  <2>1. d \in Callers
    BY <1>a, <1>c DEF CallTypes
  <2>2. CASE d = c
    <3>1. t \in Targets /\ age[t] > Notice(t)
      BY <1>a, <1>c, <2>2 DEF CallTypes, Old
    <3>2. healthy[t] = Good(t)
      BY <1>a, <1>2, <3>1, OldIsFlagged
    <3> QED
      BY <1>a, <1>c, <2>2, <3>1, <3>2 DEF CallTypes, Select!Up
  <2>3. CASE d # c
    BY <1>a, <1>c, <1>2, <2>1, <2>3 DEF CallTypes, FailoverInv, SettledSeen
  <2> QED
    BY <2>2, <2>3
<1>3. SettledSeen'
  BY <1>c, <1>2 DEF SettledSeen, Notice, NextRound, RoundFits, Good
<1> QED
  BY <1>1, <1>3

\* A call ends, or its caller is done with the target.
LEMMA ReturnSettled ==
  ASSUME FailoverInv, NEW c \in Callers,
         GiveNone(c) \/ Forget(c) \/ \E t \in Targets : Give(c, t)
  PROVE  CallTypes' /\ SettledSeen'
<1>a. CallTypes /\ SettledSeen
  BY DEF FailoverInv
<1>b. UNCHANGED <<interval, age, mode>>
  BY CallsAside DEF vars, checker
<1>1. CASE Forget(c)
  BY <1>a, <1>b, <1>1 DEF Forget, Select!Forget, CallTypes, SettledSeen, Notice,
     NextRound, RoundFits, Good
<1>2. CASE GiveNone(c) \/ \E t \in Targets : Give(c, t)
  <2>1. PICK x : Select!Return(c, x) /\ settled' = [settled EXCEPT ![c] = {}]
    BY <1>2 DEF GiveNone, Give, Select!GiveNone, Select!Give
  <2>2. CallTypes'
    BY <1>a, <2>1 DEF CallTypes, Select!Return
  <2>3. ASSUME NEW d \in asking'
        PROVE  /\ d \in asking /\ d # c
               /\ up'[d] = up[d] /\ down'[d] = down[d] /\ settled'[d] = settled[d]
    BY <1>a, <2>1 DEF CallTypes, Select!Return
  <2>4. SettledSeen'
    BY <1>a, <1>b, <2>3 DEF SettledSeen, Notice, NextRound, RoundFits, Good
  <2> QED
    BY <2>2, <2>4
<1> QED
  BY <1>1, <1>2

\* Under the calls: a flag that a call newly sees is the one of an old target.
LEMMA BackgroundSettled ==
  ASSUME FailoverInv, Background
  PROVE  CallTypes' /\ SettledSeen'
<1>a. CheckerInv /\ CheckerInv' /\ CallTypes /\ SettledSeen /\ [Next]_vars /\ TypeInv
  BY CheckerStep DEF FailoverInv, Background, CheckerInv, IInv
<1>b. interval' = interval
  BY <1>a, IntervalKept
<1>c. /\ asking' = asking /\ among' = among /\ given' = given
      /\ settled' = [c \in Callers |->
           {t \in settled[c] : (mode'[t] = "good") = Good(t)}]
      /\ up' = [c \in Callers |->
           IF c \in asking THEN up[c] \cup {t \in Targets : healthy'[t]} ELSE up[c]]
      /\ down' = [c \in Callers |->
           IF c \in asking THEN down[c] \cup {t \in Targets : ~healthy'[t]} ELSE down[c]]
  BY DEF Background, Select!Observe
<1>1. CallTypes'
  BY <1>a, <1>c DEF CallTypes
<1>2. ASSUME interval # 0, NEW c \in asking, NEW t \in settled'[c]
      PROVE  /\ age'[t] > Notice(t)
             /\ t \in up'[c] => (mode'[t] = "good")
             /\ t \in down'[c] => ~(mode'[t] = "good")
  <2>1. c \in Callers /\ t \in settled[c] /\ t \in Targets
    BY <1>a, <1>c DEF CallTypes
  <2>2. (mode'[t] = "good") = Good(t)
    BY <1>c, <2>1
  <2>3. age[t] > Notice(t)
    BY <1>a, <1>2, <2>1 DEF SettledSeen
  <2>4. Notice(t) \in Int
    BY <1>a, <2>1, NextRoundFacts, StateTypes DEF Notice, TypeInv, Targets
  <2>5. age'[t] > Notice(t)
    BY <1>a, <2>1, <2>2, <2>3, <2>4, AgeGrows
  <2>6. healthy'[t] = (mode'[t] = "good")
    <3>1. (age[t] > Notice(t))'
      BY <1>b, <2>5 DEF Notice, NextRound, RoundFits
    <3>2. DetectionBound'
      BY <1>a, DetectionNext
    <3>3. (healthy[t] = Good(t))'
      BY <1>a, <1>b, <1>2, <2>1, <3>1, <3>2
         DEF CheckerInv, PanickedAtZero, DetectionBound
    <3> QED
      BY <3>3 DEF Good
  <2>7. (t \in up[c] => Good(t)) /\ (t \in down[c] => ~Good(t))
    BY <1>a, <1>2, <2>1 DEF SettledSeen
  <2> QED
    BY <1>c, <2>1, <2>2, <2>5, <2>6, <2>7
<1>3. SettledSeen'
  BY <1>b, <1>c, <1>2 DEF SettledSeen, Notice, NextRound, RoundFits, Good
<1> QED
  BY <1>1, <1>3

\* Every action of the checker and of the calls keeps the invariant.
LEMMA FailoverStep == FailoverInv /\ [FailoverNext]_all => FailoverInv'
<1> SUFFICES ASSUME FailoverInv, [FailoverNext]_all PROVE FailoverInv'
  OBVIOUS
<1>1. CheckerInv'
  BY CheckerUnderCalls, CheckerStep DEF FailoverInv
<1>2. CASE Background
  BY <1>1, <1>2, BackgroundSettled DEF FailoverInv
<1>3. CASE \E c \in Callers :
             \/ Ask(c) \/ GiveNone(c) \/ Forget(c)
             \/ \E t \in Targets : Give(c, t)
  BY <1>1, <1>3, AskSettled, ReturnSettled DEF FailoverInv
<1>4. CASE UNCHANGED all
  BY <1>1, <1>4 DEF all, calls, vars, checker, FailoverInv, CallTypes, SettledSeen,
     Notice, NextRound, RoundFits, Good
<1> QED
  BY <1>2, <1>3, <1>4 DEF FailoverNext

\* What a call gives when it ends: a target it has seen up, or nothing when it
\* has seen every target down.
LEMMA CallEnds ==
  ASSUME FailoverInv, [FailoverNext]_all, NEW c \in asking, c \notin asking'
  PROVE  \/ \E t \in Targets : t \in up[c] /\ given'[c] = t
         \/ Targets \subseteq down[c] /\ given'[c] = NoTarget
<1>a. c \in Callers /\ among[c] = Targets /\ DOMAIN given = Callers
  BY DEF FailoverInv, CallTypes
<1>1. CASE Background \/ UNCHANGED all
  BY <1>1 DEF Background, Select!Observe, all, calls
<1>2. CASE \E d \in Callers : Ask(d) \/ Forget(d)
  BY <1>2 DEF Ask, Forget, Select!Ask, Select!Forget
<1>3. CASE \E d \in Callers : GiveNone(d)
  BY <1>a, <1>3 DEF GiveNone, Select!GiveNone, Select!Return
<1>4. CASE \E d \in Callers, t \in Targets : Give(d, t)
  BY <1>a, <1>4 DEF Give, Select!Give, Select!Return
<1> QED
  BY <1>1, <1>2, <1>3, <1>4 DEF FailoverNext

\* However calls, probes and other calls overlap: a target that has not been
\* good for longer than Notice(t) when a call begins, and all through it, is not
\* given, and no call comes back empty-handed while a target is good for so long
\* (README.md:210-211).  Of a checker that lives, that is with an interval that
\* is not zero.
THEOREM FailoverCorrect == FailoverSpec => FailsOver
<1>1. FailoverInv /\ [FailoverNext]_all =>
        [interval # 0 => \A c \in Callers :
           c \in asking /\ c \notin asking' =>
             /\ given'[c] # NoTarget => ~(given'[c] \in settled[c] /\ ~Good(given'[c]))
             /\ given'[c] = NoTarget => ~\E t \in settled[c] : Good(t)]_all
  <2> SUFFICES ASSUME FailoverInv, [FailoverNext]_all, interval # 0,
                      NEW c \in asking, c \notin asking'
               PROVE  /\ given'[c] # NoTarget =>
                           ~(given'[c] \in settled[c] /\ ~Good(given'[c]))
                      /\ given'[c] = NoTarget => ~\E t \in settled[c] : Good(t)
    OBVIOUS
  <2>1. /\ settled[c] \subseteq Targets
        /\ \A t \in settled[c] : (t \in up[c] => Good(t)) /\ (t \in down[c] => ~Good(t))
    BY DEF FailoverInv, CallTypes, SettledSeen
  <2>2. CASE \E t \in Targets : t \in up[c] /\ given'[c] = t
    BY <2>1, <2>2, NoTargetAssumption
  <2>3. CASE Targets \subseteq down[c] /\ given'[c] = NoTarget
    BY <2>1, <2>3
  <2> QED
    BY <2>2, <2>3, CallEnds
<1> QED
  BY FailoverInitInv, FailoverStep, <1>1, PTL DEF FailoverSpec, FailsOver

\* The checker is not disturbed by the calls that read its flags.
THEOREM DetectionUnderCalls == FailoverSpec => []DetectionBound
<1>1. FailoverInv => DetectionBound
  BY CheckerDetects DEF FailoverInv
<1> QED
  BY FailoverInitInv, FailoverStep, <1>1, PTL DEF FailoverSpec

=============================================================================

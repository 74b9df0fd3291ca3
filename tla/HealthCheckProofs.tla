------------------------- MODULE HealthCheckProofs -------------------------
(***************************************************************************)
(* Proofs about HealthCheck, for any number of targets, any interval and   *)
(* timeout, and any behaviour of the targets.                              *)
(***************************************************************************)
EXTENDS HealthCheck, TLAPS

\* A probe is a probe of some target.
ProbesTarget == pc = "probing" => pos \in Targets

\* was_healthy still is the flag of the probed target: nobody else stores it.
WasIsCurrent == pc = "probing" => was = healthy[pos]

TypeInv == TypeOK /\ ProbesTarget
IInv == TypeInv /\ WasIsCurrent /\ FlagIsLastVerdict

\* The types hold initially.
LEMMA TypeInit == Init => TypeInv
BY TargetsAssumption, TimesAssumption, BoundsAssumption
   DEF Init, TypeInv, TypeOK, ProbesTarget, Targets

\* What check_target returns is a Boolean.
LEMMA StoredType ==
  ASSUME TypeOK, NEW ok \in BOOLEAN
  PROVE  Stored(ok) \in [Targets -> BOOLEAN]
BY DEF TypeOK, Stored

\* A finished probe keeps the types.
LEMMA ConcludeType ==
  ASSUME TypeInv, pc = "probing", NEW ok \in BOOLEAN, Conclude(ok)
  PROVE  TypeInv'
<1>1. healthy' \in [Targets -> BOOLEAN]
  BY StoredType DEF TypeInv, Conclude
<1>2. verdict' \in [Targets -> BOOLEAN]
  BY DEF TypeInv, TypeOK, Conclude
<1>3. pos' \in 1..(NumTargets + 1)
  BY TargetsAssumption DEF TypeInv, TypeOK, ProbesTarget, Conclude, Targets
<1>4. elapsed' \in 0..Timeout /\ seen' \subseteq Modes
  BY TimesAssumption DEF Conclude
<1>5. pc' = "next"
  BY DEF Conclude
<1>6. UNCHANGED <<interval, mode, due, was, age>>
  BY DEF Conclude
<1> QED
  BY <1>1, <1>2, <1>3, <1>4, <1>5, <1>6 DEF TypeInv, TypeOK, ProbesTarget

\* Every action keeps the types.
LEMMA TypeStep == TypeInv /\ [Next]_vars => TypeInv'
<1> SUFFICES ASSUME TypeInv, [Next]_vars PROVE TypeInv'
  OBVIOUS
<1> USE DEF TypeInv, TypeOK, ProbesTarget
<1>a. /\ interval \in Nat /\ Timeout \in Nat \ {0} /\ MaxLag \in Nat
      /\ MaxAge \in Nat /\ NumTargets \in Nat \ {0}
  BY TargetsAssumption, TimesAssumption, BoundsAssumption
<1>1. CASE Start
  BY <1>1 DEF Start
<1>2. CASE BeginRound
  <2>1. due' \in -MaxLag..interval'
    BY <1>a, <1>2 DEF BeginRound
  <2>2. pos' \in 1..(NumTargets + 1) /\ pc' = "next"
    BY <1>a, <1>2 DEF BeginRound
  <2> QED
    BY <1>2, <2>1, <2>2 DEF BeginRound
<1>3. CASE BeginProbe
  <2>1. pos \in Targets /\ pos' = pos
    BY <1>a, <1>3 DEF BeginProbe, Targets
  <2>2. was' \in BOOLEAN /\ seen' \subseteq Modes /\ elapsed' \in 0..Timeout
    BY <1>a, <1>3, <2>1 DEF BeginProbe
  <2>3. pc' = "probing"
    BY <1>3 DEF BeginProbe
  <2> QED
    BY <1>3, <2>1, <2>2, <2>3 DEF BeginProbe
<1>4. CASE EndRound
  BY <1>4 DEF EndRound
<1>5. CASE Answered
  <2>1. PICK m \in seen \ {"hung"} : Conclude(ExpectedStatus(m))
    BY <1>5 DEF Answered
  <2> QED
    BY <1>5, <2>1, ConcludeType DEF Answered, ExpectedStatus
<1>6. CASE TimedOut
  BY <1>6, ConcludeType DEF TimedOut
<1>7. CASE Tick
  <2>1. due' \in -MaxLag..interval'
    BY <1>a, <1>7 DEF Tick, checker
  <2>2. elapsed' \in 0..Timeout
    BY <1>a, <1>7 DEF Tick, WithinTimeout
  <2>3. age' \in [Targets -> 0..MaxAge]
    BY <1>a, <1>7 DEF Tick
  <2> QED
    BY <1>7, <2>1, <2>2, <2>3 DEF Tick
<1>8. CASE \E t \in Targets, m \in Modes : Change(t, m)
  <2>1. PICK t \in Targets, m \in Modes : Change(t, m)
    BY <1>8
  <2>2. seen' \subseteq Modes
    BY <2>1 DEF Change
  <2>3. age' \in [Targets -> 0..MaxAge]
    BY <1>a, <2>1 DEF Change
  <2>4. mode' \in [Targets -> Modes]
    BY <2>1 DEF Change
  <2> QED
    BY <2>1, <2>2, <2>3, <2>4 DEF Change, checker
<1>9. CASE UNCHANGED vars
  BY <1>9 DEF vars, checker
<1> QED
  BY <1>1, <1>2, <1>3, <1>4, <1>5, <1>6, <1>7, <1>8, <1>9 DEF Next, Step

\* The types hold of every reachable state: the loop index stays inside the
\* list of targets, and no probe outlasts the client's timeout.
THEOREM TypeCorrect == Spec => []TypeOK
<1>1. TypeInv => TypeOK
  BY DEF TypeInv
<1> QED
  BY TypeInit, TypeStep, <1>1, PTL DEF Spec

-----------------------------------------------------------------------------
(* The flag *)

\* When a probe is over the flag is its verdict: either it was stored, or the
\* flag had that value already.
LEMMA ConcludeFlag ==
  ASSUME IInv, pc = "probing", NEW ok \in BOOLEAN, Conclude(ok)
  PROVE  WasIsCurrent' /\ FlagIsLastVerdict'
<1>1. pos \in Targets /\ was = healthy[pos]
  BY DEF IInv, TypeInv, ProbesTarget, WasIsCurrent
<1>2. /\ healthy \in [Targets -> BOOLEAN]
      /\ verdict \in [Targets -> BOOLEAN]
  BY DEF IInv, TypeInv, TypeOK
<1>3. healthy' = [healthy EXCEPT ![pos] = ok]
  <2>1. CASE was # ok
    BY <2>1 DEF Conclude, Stored
  <2>2. CASE was = ok
    BY <1>1, <1>2, <2>2 DEF Conclude, Stored
  <2> QED
    BY <2>1, <2>2
<1>4. verdict' = [verdict EXCEPT ![pos] = ok] /\ pc' = "next"
  BY DEF Conclude
<1>5. FlagIsLastVerdict'
  BY <1>2, <1>3, <1>4 DEF IInv, FlagIsLastVerdict
<1> QED
  BY <1>4, <1>5 DEF WasIsCurrent

\* Every action keeps the flag equal to the last verdict.
LEMMA FlagStep == IInv /\ [Next]_vars => WasIsCurrent' /\ FlagIsLastVerdict'
<1> SUFFICES ASSUME IInv, [Next]_vars PROVE WasIsCurrent' /\ FlagIsLastVerdict'
  OBVIOUS
<1> USE DEF WasIsCurrent, FlagIsLastVerdict
<1>a. WasIsCurrent /\ FlagIsLastVerdict
  BY DEF IInv
<1>1. CASE Start
  BY <1>a, <1>1 DEF Start
<1>2. CASE BeginRound
  BY <1>a, <1>2 DEF BeginRound
<1>3. CASE BeginProbe
  BY <1>a, <1>3 DEF BeginProbe
<1>4. CASE EndRound
  BY <1>a, <1>4 DEF EndRound
<1>5. CASE Answered
  <2>1. PICK m \in seen \ {"hung"} : Conclude(ExpectedStatus(m))
    BY <1>5 DEF Answered
  <2> QED
    BY <1>5, <2>1, ConcludeFlag DEF Answered, ExpectedStatus
<1>6. CASE TimedOut
  BY <1>6, ConcludeFlag DEF TimedOut
<1>7. CASE Tick
  BY <1>a, <1>7 DEF Tick
<1>8. CASE \E t \in Targets, m \in Modes : Change(t, m)
  BY <1>a, <1>8 DEF Change, checker
<1>9. CASE UNCHANGED vars
  BY <1>a, <1>9 DEF vars, checker
<1> QED
  BY <1>1, <1>2, <1>3, <1>4, <1>5, <1>6, <1>7, <1>8, <1>9 DEF Next, Step

\* Although the verdict is stored only when it differs from a value read before
\* the probe, the flag always is the last verdict (health_check.rs:46-57).
THEOREM FlagCorrect == Spec => []FlagIsLastVerdict
<1>1. Init => IInv
  BY TypeInit DEF Init, IInv, WasIsCurrent, FlagIsLastVerdict
<1>2. IInv /\ [Next]_vars => IInv'
  BY TypeStep, FlagStep DEF IInv
<1>3. IInv => FlagIsLastVerdict
  BY DEF IInv
<1> QED
  BY <1>1, <1>2, <1>3, PTL DEF Spec

-----------------------------------------------------------------------------
(* The schedule *)

\* How far the deadline is ahead while the checker is inside a round: the
\* probes that are over, and the one that runs, took at most a timeout each.
Ahead ==
  RoundFits =>
    /\ pc \in {"start", "waiting"} => due >= 0
    /\ pc = "next" => due >= interval - (pos - 1) * Timeout
    /\ pc = "probing" => due >= interval - (pos - 1) * Timeout - elapsed
    /\ pc # "panicked"

\* Timeouts of k targets fit where those of all targets do.
LEMMA FewerFit ==
  ASSUME TypeOK, RoundFits, NEW k \in 0..NumTargets
  PROVE  k * Timeout <= interval
<1>1. Timeout \in Nat /\ NumTargets \in Nat /\ interval \in Nat /\ k \in Nat
  BY TargetsAssumption, TimesAssumption DEF TypeOK
<1>2. (NumTargets - k) * Timeout >= 0
  BY <1>1
<1>3. NumTargets * Timeout = (NumTargets - k) * Timeout + k * Timeout
  BY <1>1
<1> QED
  BY <1>1, <1>2, <1>3 DEF RoundFits

\* A finished probe took at most a timeout.
LEMMA ConcludeAhead ==
  ASSUME TypeInv, Ahead, pc = "probing", NEW ok \in BOOLEAN, Conclude(ok)
  PROVE  Ahead'
<1> SUFFICES ASSUME RoundFits PROVE Ahead'
  BY DEF Conclude, RoundFits, Ahead
<1>1. /\ Timeout \in Nat /\ elapsed \in 0..Timeout /\ due \in Int
      /\ interval \in Nat /\ pos \in Nat
  BY TimesAssumption, BoundsAssumption DEF TypeInv, TypeOK
<1>2. due >= interval - (pos - 1) * Timeout - elapsed
  BY DEF Ahead
<1>3. (pos + 1 - 1) * Timeout = (pos - 1) * Timeout + Timeout
  BY <1>1
<1>4. (pos - 1) * Timeout \in Int
  BY <1>1
<1>5. due >= interval - (pos + 1 - 1) * Timeout
  BY <1>1, <1>2, <1>3, <1>4
<1> QED
  <2>1. /\ interval' = interval /\ due' = due
        /\ pos' = pos + 1 /\ pc' = "next"
    BY DEF Conclude
  <2>2. due' >= interval' - (pos' - 1) * Timeout
    BY <1>1, <1>4, <1>5, <2>1
  <2> QED
    BY <2>1, <2>2 DEF Ahead

\* interval_seconds is fixed when the checker is built.
LEMMA IntervalKept == [Next]_vars => interval' = interval
<1>1. CASE Start \/ BeginRound \/ BeginProbe \/ EndRound
  BY <1>1 DEF Start, BeginRound, BeginProbe, EndRound
<1>2. CASE Answered \/ TimedOut
  BY <1>2 DEF Answered, TimedOut, Conclude
<1>3. CASE Tick \/ UNCHANGED vars
  BY <1>3 DEF Tick, vars, checker
<1>4. CASE \E t \in Targets, m \in Modes : Change(t, m)
  BY <1>4 DEF Change, checker
<1> QED
  BY <1>1, <1>2, <1>3, <1>4 DEF Next, Step

\* Every action keeps the deadline ahead.
LEMMA AheadStep == TypeInv /\ Ahead /\ [Next]_vars => Ahead'
<1> SUFFICES ASSUME TypeInv, Ahead, [Next]_vars, RoundFits PROVE Ahead'
  BY IntervalKept DEF RoundFits, Ahead
<1>a. /\ interval \in Nat /\ Timeout \in Nat \ {0} /\ MaxLag \in Nat
      /\ NumTargets \in Nat \ {0} /\ due \in Int /\ elapsed \in Nat
      /\ pos \in 1..(NumTargets + 1)
  BY TargetsAssumption, TimesAssumption, BoundsAssumption DEF TypeInv, TypeOK
<1>b. interval >= 1
  <2>1. 1 * Timeout <= interval
    BY <1>a, FewerFit DEF TypeInv
  <2> QED
    BY <1>a, <2>1
<1>1. CASE Start
  BY <1>b, <1>1 DEF Start, Ahead
<1>2. CASE BeginRound
  <2>1. pos' = 1 /\ pc' = "next" /\ due' >= interval'
    BY <1>a, <1>2 DEF BeginRound, Ahead
  <2> QED
    BY <1>a, <1>2, <2>1 DEF BeginRound, Ahead
<1>3. CASE BeginProbe
  <2>1. due >= interval - (pos - 1) * Timeout
    BY <1>3 DEF BeginProbe, Ahead
  <2>2. (pos - 1) * Timeout \in Int
    BY <1>a
  <2> QED
    BY <1>a, <1>3, <2>1, <2>2 DEF BeginProbe, Ahead
<1>4. CASE EndRound
  <2>1. pos = NumTargets + 1
    BY <1>a, <1>4 DEF EndRound
  <2>2. due >= interval - NumTargets * Timeout
    BY <1>a, <1>4, <2>1 DEF EndRound, Ahead
  <2>3. NumTargets * Timeout <= interval /\ NumTargets * Timeout \in Int
    BY <1>a DEF RoundFits
  <2>4. due >= 0
    BY <1>a, <2>2, <2>3
  <2> QED
    BY <1>4, <2>4 DEF EndRound, Ahead
<1>5. CASE Answered
  <2>1. PICK m \in seen \ {"hung"} : Conclude(ExpectedStatus(m))
    BY <1>5 DEF Answered
  <2> QED
    BY <1>5, <2>1, ConcludeAhead DEF Answered, ExpectedStatus
<1>6. CASE TimedOut
  BY <1>6, ConcludeAhead DEF TimedOut
<1>7. CASE Tick
  <2>1. CASE pc = "waiting" /\ due > 0
    BY <1>a, <1>7, <2>1 DEF Tick, Ahead
  <2>2. CASE pc = "probing"
    <3>1. due >= interval - (pos - 1) * Timeout - elapsed
      BY <2>2 DEF Ahead
    <3>2. due' >= due - 1 /\ elapsed' = elapsed + 1
      BY <1>a, <1>7, <2>2 DEF Tick
    <3>3. (pos - 1) * Timeout \in Int /\ due' \in Int
      BY <1>a, <1>7 DEF Tick
    <3>4. due' >= interval - (pos - 1) * Timeout - elapsed'
      BY <1>a, <3>1, <3>2, <3>3
    <3> QED
      BY <1>7, <2>2, <3>4 DEF Tick, Ahead
  <2>3. pc # "panicked"
    BY DEF Ahead
  <2> QED
    BY <1>7, <2>1, <2>2, <2>3 DEF Tick
<1>8. CASE \E t \in Targets, m \in Modes : Change(t, m)
  BY <1>8 DEF Change, checker, Ahead, RoundFits
<1>9. CASE UNCHANGED vars
  BY <1>9 DEF vars, checker, Ahead, RoundFits
<1> QED
  BY <1>1, <1>2, <1>3, <1>4, <1>5, <1>6, <1>7, <1>8, <1>9 DEF Next, Step

\* A deadline that is ahead has not been missed.
LEMMA AheadIsOnTime == TypeInv /\ Ahead => RoundsOnSchedule
<1> SUFFICES ASSUME TypeInv, Ahead, RoundFits PROVE due >= 0
  BY DEF RoundsOnSchedule
<1>1. /\ interval \in Nat /\ Timeout \in Nat /\ NumTargets \in Nat
      /\ due \in Int /\ elapsed \in 0..Timeout /\ pos \in 1..(NumTargets + 1)
  BY TargetsAssumption, TimesAssumption, BoundsAssumption DEF TypeInv, TypeOK
<1>2. CASE pc = "next"
  <2>1. due >= interval - (pos - 1) * Timeout
    BY <1>2 DEF Ahead
  <2>2. (pos - 1) * Timeout <= interval /\ (pos - 1) * Timeout \in Int
    BY <1>1, FewerFit DEF TypeInv
  <2> QED
    BY <1>1, <2>1, <2>2
<1>3. CASE pc = "probing"
  <2>1. due >= interval - (pos - 1) * Timeout - elapsed
    BY <1>3 DEF Ahead
  <2>2. pos \in 1..NumTargets
    BY <1>3 DEF TypeInv, ProbesTarget, Targets
  <2>3. pos * Timeout <= interval
    BY <1>1, <2>2, FewerFit DEF TypeInv
  <2>4. pos * Timeout = (pos - 1) * Timeout + Timeout /\ (pos - 1) * Timeout \in Int
    BY <1>1
  <2> QED
    BY <1>1, <2>1, <2>3, <2>4
<1>4. CASE pc \in {"start", "waiting"}
  BY <1>4 DEF Ahead
<1> QED
  BY <1>2, <1>3, <1>4 DEF TypeInv, TypeOK, Ahead

\* Where a round of timeouts fits in the interval, rounds begin on schedule: no
\* deadline passes while the checker is busy, however its targets behave
\* (health_check.rs:36-59).
THEOREM ScheduleCorrect == Spec => []RoundsOnSchedule
<1>1. Init => Ahead
  BY DEF Init, Ahead
<1>2. TypeInv /\ Ahead /\ [Next]_vars => (TypeInv /\ Ahead)'
  BY TypeStep, AheadStep
<1> QED
  BY TypeInit, <1>1, <1>2, AheadIsOnTime, PTL DEF Spec

-----------------------------------------------------------------------------
(* The age of a stale flag *)

\* What k probes take at most.
Span(k) == k * Timeout

\* What the running round has taken at most.
Spent == Span(pos - 1) + elapsed

InRound == pc \in {"next", "probing"}

\* A target whose probe in the last round is over.
Checked(t) == pc = "waiting" \/ (InRound /\ t < pos)

\* A probe is not older than its round, and an answer that no longer is true of
\* the target has become so since the probe was sent.
ProbeIsRecent ==
  /\ pc # "probing" => elapsed = 0
  /\ due > 0 => elapsed <= interval - due
  /\ pc = "probing" =>
       /\ mode[pos] \in seen
       /\ \A m \in seen : ExpectedStatus(m) # Good(pos) => age[pos] <= elapsed

\* A flag that is not what the target does has become so since the last probe of
\* the target was sent: in this round, or in the one before.
StaleIsRecent ==
  \A t \in Targets : healthy[t] # Good(t) =>
    /\ pc = "start" => age[t] = 0
    /\ Checked(t) /\ due > 0 => age[t] <= interval - due
    /\ pc = "waiting" => age[t] <= NextRound
    /\ InRound /\ t < pos => age[t] <= Spent
    /\ InRound /\ t >= pos => age[t] <= NextRound + Spent

StaleInv == ProbeIsRecent /\ StaleIsRecent

\* The time that k probes may take grows by a timeout with each.
LEMMA SpanFacts ==
  /\ Span(0) = 0
  /\ \A k \in Nat : Span(k) \in Nat /\ Span(k + 1) = Span(k) + Timeout
  /\ \A j, k \in Nat : j <= k => Span(j) <= Span(k)
<1>1. Timeout \in Nat
  BY TimesAssumption
<1>2. ASSUME NEW k \in Nat
      PROVE  Span(k) \in Nat /\ Span(k + 1) = Span(k) + Timeout
  BY <1>1 DEF Span
<1>3. ASSUME NEW j \in Nat, NEW k \in Nat, j <= k
      PROVE  Span(j) <= Span(k)
  <2>1. (k - j) * Timeout >= 0
    BY <1>1, <1>3
  <2>2. Span(k) = Span(j) + (k - j) * Timeout
    BY <1>1 DEF Span
  <2> QED
    BY <1>1, <2>1, <2>2 DEF Span
<1>4. Span(0) = 0
  BY <1>1 DEF Span
<1> QED
  BY <1>2, <1>3, <1>4

\* A round may begin as late as the one before it ends.
LEMMA NextRoundFacts ==
  ASSUME TypeOK
  PROVE  /\ NextRound \in Nat
         /\ interval <= NextRound
         /\ Span(NumTargets) <= NextRound
<1>1. NumTargets \in Nat /\ interval \in Nat
  BY TargetsAssumption, TimesAssumption DEF TypeOK
<1>2. Span(NumTargets) \in Nat /\ Span(NumTargets) = NumTargets * Timeout
  BY <1>1, SpanFacts DEF Span
<1> QED
  BY <1>1, <1>2 DEF NextRound, RoundFits

\* When the next round comes does not depend on the state.
LEMMA NextRoundKept == [Next]_vars => NextRound' = NextRound
BY IntervalKept DEF NextRound, RoundFits

\* The numbers in the state, as the proofs below use them.
LEMMA StateTypes ==
  ASSUME TypeInv
  PROVE  /\ interval \in Nat /\ Timeout \in Nat \ {0} /\ MaxLag \in Nat
         /\ NumTargets \in Nat /\ due \in Int /\ due <= interval
         /\ elapsed \in Nat /\ elapsed <= Timeout
         /\ pos \in Nat /\ pos - 1 \in Nat /\ pos <= NumTargets + 1
         /\ \A t \in Targets : age[t] \in Nat /\ t \in Nat /\ t <= NumTargets
         /\ Span(pos - 1) \in Nat /\ Span(pos) = Span(pos - 1) + Timeout
         /\ Spent \in Nat
<1>1. /\ interval \in Nat /\ Timeout \in Nat \ {0} /\ MaxLag \in Nat
      /\ NumTargets \in Nat /\ due \in Int /\ due <= interval
      /\ elapsed \in Nat /\ elapsed <= Timeout
      /\ pos \in Nat /\ pos - 1 \in Nat /\ pos <= NumTargets + 1
  BY TargetsAssumption, TimesAssumption, BoundsAssumption DEF TypeInv, TypeOK
<1>2. \A t \in Targets : age[t] \in Nat /\ t \in Nat /\ t <= NumTargets
  BY <1>1, BoundsAssumption DEF TypeInv, TypeOK, Targets
<1>3. Span(pos - 1) \in Nat /\ Span(pos) = Span(pos - 1) + Timeout
  <2>1. (pos - 1) + 1 = pos
    BY <1>1
  <2> QED
    BY <1>1, <2>1, SpanFacts
<1> QED
  BY <1>1, <1>2, <1>3 DEF Spent

\* A verdict that is wrong when it is stored has become so during its probe.
LEMMA ConcludeStale ==
  ASSUME IInv, StaleInv, pc = "probing", NEW m \in seen, Conclude(ExpectedStatus(m))
  PROVE  StaleInv'
<1> USE DEF StaleInv
<1>a. /\ TypeInv /\ pos \in Targets /\ was = healthy[pos]
      /\ healthy \in [Targets -> BOOLEAN]
  BY DEF IInv, TypeInv, TypeOK, ProbesTarget, WasIsCurrent
<1>b. /\ interval' = interval /\ due' = due /\ mode' = mode /\ age' = age
      /\ pos' = pos + 1 /\ elapsed' = 0 /\ pc' = "next"
  BY DEF Conclude
<1>1. \A t \in Targets :
        healthy'[t] = IF t = pos THEN ExpectedStatus(m) ELSE healthy[t]
  BY <1>a DEF Conclude, Stored
<1>2. Spent' = Span(pos - 1) + Timeout /\ Spent <= Spent'
  <2>1. pos + 1 - 1 = pos
    BY <1>a, StateTypes
  <2>2. Spent' = Span(pos) + 0
    BY <1>a, <1>b, <2>1, StateTypes DEF Spent, Span
  <2> QED
    BY <1>a, <2>2, StateTypes DEF Spent
<1>3. ProbeIsRecent'
  <2>1. due <= interval /\ due \in Int /\ interval \in Nat
    BY <1>a, StateTypes
  <2> QED
    BY <1>b, <2>1 DEF ProbeIsRecent
<1>4. NextRound' = NextRound /\ NextRound \in Nat
  BY <1>a, <1>b, NextRoundFacts DEF NextRound, RoundFits, TypeInv
<1>5. ASSUME NEW t \in Targets, healthy'[t] # Good(t)'
      PROVE  /\ Checked(t)' /\ due > 0 => age[t] <= interval - due
             /\ t < pos + 1 => age[t] <= Spent'
             /\ t >= pos + 1 => age[t] <= NextRound + Spent'
  <2>a. /\ interval \in Nat /\ due \in Int /\ elapsed \in Nat /\ elapsed <= Timeout
        /\ pos \in Nat /\ t \in Nat /\ age[t] \in Nat
        /\ Span(pos - 1) \in Nat /\ Spent \in Nat /\ Timeout \in Nat
    BY <1>a, StateTypes
  <2>1. CASE t = pos
    <3>1. ExpectedStatus(m) # Good(pos)
      BY <1>1, <1>5, <1>b, <2>1 DEF Good
    <3>2. age[pos] <= elapsed /\ (due > 0 => elapsed <= interval - due)
      BY <3>1 DEF ProbeIsRecent
    <3> QED
      BY <2>a, <1>2, <2>1, <3>2
  <2>2. CASE t # pos
    <3>1. healthy[t] # Good(t)
      BY <1>1, <1>5, <1>b, <2>2 DEF Good
    <3>2. /\ t < pos /\ due > 0 => age[t] <= interval - due
          /\ t < pos => age[t] <= Spent
          /\ t >= pos => age[t] <= NextRound + Spent
      BY <3>1 DEF StaleIsRecent, Checked, InRound
    <3>3. Checked(t)' => t < pos + 1
      BY <1>b DEF Checked
    <3> QED
      BY <2>a, <1>2, <1>4, <2>2, <3>2, <3>3
  <2> QED
    BY <2>1, <2>2
<1>6. StaleIsRecent'
  BY <1>b, <1>4, <1>5 DEF StaleIsRecent
<1> QED
  BY <1>3, <1>6

\* A new round: the flags are at most as stale as the last one allows.
LEMMA BeginRoundStale ==
  ASSUME TypeInv, StaleInv, BeginRound
  PROVE  StaleInv'
<1>a. /\ interval \in Nat /\ due \in Int /\ due <= 0 /\ elapsed = 0
      /\ NextRound \in Nat /\ NextRound' = NextRound
  BY StateTypes, NextRoundFacts
     DEF TypeInv, StaleInv, ProbeIsRecent, BeginRound, NextRound, RoundFits
<1>b. /\ interval' = interval /\ due' = due + interval /\ pos' = 1
      /\ elapsed' = 0 /\ pc = "waiting" /\ pc' = "next"
      /\ mode' = mode /\ healthy' = healthy /\ age' = age
  BY <1>a DEF BeginRound
<1>1. ProbeIsRecent'
  BY <1>a, <1>b DEF ProbeIsRecent
<1>2. Spent' = 0
  BY <1>b, SpanFacts DEF Spent, Span
<1>3. ASSUME NEW t \in Targets, healthy[t] # Good(t)
      PROVE  /\ age[t] <= NextRound
             /\ t \in Nat /\ t >= 1
  BY <1>3, <1>b DEF StaleInv, StaleIsRecent, Targets
<1>4. \A t \in Targets : Good(t)' = Good(t)
  BY <1>b DEF Good
<1>5. StaleIsRecent'
  BY <1>a, <1>b, <1>2, <1>3, <1>4 DEF StaleIsRecent, Checked, InRound
<1> QED
  BY <1>1, <1>5 DEF StaleInv

\* The end of a round: every target has been probed in it.
LEMMA EndRoundStale ==
  ASSUME TypeInv, StaleInv, EndRound
  PROVE  StaleInv'
<1>a. /\ interval' = interval /\ due' = due /\ pos' = pos /\ elapsed' = elapsed
      /\ pc = "next" /\ pc' = "waiting" /\ pos > NumTargets
      /\ mode' = mode /\ healthy' = healthy /\ age' = age
  BY DEF EndRound
<1>b. /\ NextRound' = NextRound /\ NextRound \in Nat
      /\ Span(NumTargets) <= NextRound
  BY <1>a, NextRoundFacts DEF TypeInv, NextRound, RoundFits
<1>1. ProbeIsRecent'
  BY <1>a DEF ProbeIsRecent, StaleInv
<1>2. Spent <= NextRound /\ Spent \in Nat
  <2>1. elapsed = 0 /\ pos - 1 = NumTargets
    BY <1>a, StateTypes DEF StaleInv, ProbeIsRecent
  <2> QED
    BY <1>b, <2>1, StateTypes DEF Spent
<1>3. \A t \in Targets : t < pos /\ age[t] \in Nat
  BY <1>a, StateTypes
<1>4. ASSUME NEW t \in Targets, healthy[t] # Good(t)
      PROVE  /\ due > 0 => age[t] <= interval - due
             /\ age[t] <= NextRound
  <2>1. /\ due > 0 => age[t] <= interval - due
        /\ age[t] <= Spent
    BY <1>3, <1>4, <1>a DEF StaleInv, StaleIsRecent, Checked, InRound
  <2> QED
    BY <1>b, <1>2, <1>3, <2>1
<1>5. \A t \in Targets : Good(t)' = Good(t)
  BY <1>a DEF Good
<1>6. StaleIsRecent'
  BY <1>a, <1>b, <1>4, <1>5 DEF StaleIsRecent, InRound
<1> QED
  BY <1>1, <1>6 DEF StaleInv

\* A probe begins: its target was probed as long ago as the others allow.
LEMMA BeginProbeStale ==
  ASSUME TypeInv, StaleInv, BeginProbe
  PROVE  StaleInv'
<1>a. /\ interval' = interval /\ due' = due /\ pos' = pos /\ elapsed' = 0
      /\ pc = "next" /\ pc' = "probing" /\ pos <= NumTargets
      /\ mode' = mode /\ healthy' = healthy /\ age' = age /\ seen' = {mode[pos]}
  BY DEF BeginProbe
<1>b. elapsed = 0 /\ NextRound' = NextRound
  BY <1>a DEF StaleInv, ProbeIsRecent, NextRound, RoundFits
<1>1. ProbeIsRecent'
  BY <1>a, StateTypes DEF ProbeIsRecent, Good, ExpectedStatus
<1>2. Spent' = Spent
  BY <1>a, <1>b DEF Spent, Span
<1>3. \A t \in Targets : Good(t)' = Good(t)
  BY <1>a DEF Good
<1>4. StaleIsRecent'
  BY <1>a, <1>b, <1>2, <1>3 DEF StaleInv, StaleIsRecent, Checked, InRound
<1> QED
  BY <1>1, <1>4 DEF StaleInv

\* Time: what is bounded by a clock ages with it, and no time passes unbounded.
LEMMA TickStale ==
  ASSUME TypeInv, StaleInv, Tick
  PROVE  StaleInv'
<1>a. /\ interval' = interval /\ pos' = pos /\ pc' = pc /\ seen' = seen
      /\ mode' = mode /\ healthy' = healthy
      /\ due' = IF due > -MaxLag THEN due - 1 ELSE due
      /\ elapsed' = IF pc = "probing" THEN elapsed + 1 ELSE elapsed
  BY DEF Tick
<1>b. \A t \in Targets : age[t] \in Nat /\ age'[t] \in Nat /\ age'[t] <= age[t] + 1
  BY BoundsAssumption DEF Tick, TypeInv, TypeOK
<1>c. /\ interval \in Nat /\ due \in Int /\ MaxLag \in Nat /\ elapsed \in Nat
      /\ Span(pos - 1) \in Nat /\ interval <= NextRound
      /\ NextRound \in Nat /\ NextRound' = NextRound
  BY <1>a, StateTypes, NextRoundFacts DEF TypeInv, NextRound, RoundFits
<1>d. due' > 0 => due > 0 /\ due' = due - 1
  BY <1>a, <1>c
<1>e. \A t \in Targets : Good(t)' = Good(t)
  BY <1>a DEF Good
<1>1. ProbeIsRecent'
  <2>1. CASE pc = "probing"
    <3>1. pos \in Targets /\ pos' = pos
      BY <1>a, <2>1 DEF TypeInv, ProbesTarget
    <3>2. /\ mode[pos] \in seen
          /\ \A m \in seen : ExpectedStatus(m) # Good(pos) => age[pos] <= elapsed
      BY <2>1 DEF StaleInv, ProbeIsRecent
    <3>3. \A m \in seen : ExpectedStatus(m) # Good(pos) => age'[pos] <= elapsed + 1
      BY <1>b, <1>c, <3>1, <3>2
    <3>4. Good(pos)' = Good(pos)
      BY <1>e, <3>1
    <3>5. due' > 0 => elapsed + 1 <= interval - due'
      BY <1>c, <1>d DEF StaleInv, ProbeIsRecent
    <3> QED
      BY <1>a, <2>1, <3>1, <3>2, <3>3, <3>4, <3>5 DEF ProbeIsRecent, ExpectedStatus
  <2>2. CASE pc # "probing"
    <3>1. elapsed' = 0
      BY <1>a, <2>2 DEF StaleInv, ProbeIsRecent
    <3>2. due' > 0 => 0 <= interval - due'
      BY <1>c, <1>d, StateTypes
    <3> QED
      BY <1>a, <2>2, <3>1, <3>2 DEF ProbeIsRecent
  <2> QED
    BY <2>1, <2>2
<1>2. ASSUME NEW t \in Targets, healthy'[t] # Good(t)'
      PROVE  /\ pc' = "start" => age'[t] = 0
             /\ Checked(t)' /\ due' > 0 => age'[t] <= interval' - due'
             /\ pc' = "waiting" => age'[t] <= NextRound'
             /\ InRound' /\ t < pos' => age'[t] <= Spent'
             /\ InRound' /\ t >= pos' => age'[t] <= NextRound' + Spent'
  <2>1. healthy[t] # Good(t)
    BY <1>2, <1>a, <1>e
  <2>2. Checked(t)' /\ due' > 0 => age'[t] <= interval - due'
    <3>1. Checked(t)' => Checked(t)
      BY <1>a DEF Checked, InRound
    <3>2. Checked(t) /\ due > 0 => age[t] <= interval - due
      BY <2>1 DEF StaleInv, StaleIsRecent
    <3> QED
      BY <1>b, <1>c, <1>d, <3>1, <3>2
  <2>3. pc = "waiting" => age'[t] <= NextRound
    <3>1. SUFFICES ASSUME pc = "waiting" PROVE age'[t] <= NextRound
      OBVIOUS
    <3>2. due > 0
      BY <3>1 DEF Tick
    <3>3. age[t] <= interval - due
      BY <2>1, <3>1, <3>2 DEF StaleInv, StaleIsRecent, Checked
    <3> QED
      BY <1>b, <1>c, <3>2, <3>3
  <2>4. CASE pc = "probing"
    <3>1. Spent' = Spent + 1 /\ Spent \in Nat
      <4>1. elapsed' = elapsed + 1
        BY <1>a, <2>4
      <4> QED
        BY <1>a, <1>c, <4>1 DEF Spent, Span
    <3>2. /\ t < pos => age[t] <= Spent
          /\ t >= pos => age[t] <= NextRound + Spent
      BY <2>1, <2>4 DEF StaleInv, StaleIsRecent, InRound
    <3>3. /\ t < pos => age'[t] <= Spent'
          /\ t >= pos => age'[t] <= NextRound + Spent'
      BY <1>b, <1>c, <3>1, <3>2
    <3> QED
      BY <1>a, <1>c, <2>2, <2>3, <2>4, <3>3 DEF InRound
  <2>5. CASE pc # "probing"
    <3>1. pc \in {"waiting", "panicked"}
      BY <2>5 DEF Tick
    <3> QED
      BY <1>a, <1>c, <2>2, <2>3, <3>1 DEF InRound
  <2> QED
    BY <2>4, <2>5
<1>3. StaleIsRecent'
  BY <1>2 DEF StaleIsRecent
<1> QED
  BY <1>1, <1>3 DEF StaleInv

\* A target that changes its mind is as young as can be.
LEMMA ChangeStale ==
  ASSUME TypeInv, StaleInv, NEW t \in Targets, NEW m \in Modes, Change(t, m)
  PROVE  StaleInv'
<1>a. /\ interval' = interval /\ due' = due /\ pos' = pos /\ elapsed' = elapsed
      /\ pc' = pc /\ healthy' = healthy
  BY DEF Change, checker
<1>b. /\ Spent' = Spent /\ NextRound' = NextRound
      /\ Spent \in Nat /\ NextRound \in Nat
      /\ interval \in Nat /\ due \in Int /\ due <= interval /\ elapsed \in Nat
  BY <1>a, StateTypes, NextRoundFacts DEF TypeInv, Spent, Span, NextRound, RoundFits
<1>1. \A s \in Targets :
        /\ mode'[s] = IF s = t THEN m ELSE mode[s]
        /\ age'[s] = IF s = t /\ Good(t) # (m = "good") THEN 0 ELSE age[s]
  BY DEF Change, TypeInv, TypeOK
<1>2. ASSUME NEW s \in Targets
      PROVE  \/ age'[s] = 0
             \/ age'[s] = age[s] /\ Good(s)' = Good(s)
  <2>1. CASE s = t /\ Good(t) # (m = "good")
    BY <1>1, <2>1
  <2>2. CASE s = t /\ Good(t) = (m = "good")
    BY <1>1, <2>2 DEF Good
  <2>3. CASE s # t
    BY <1>1, <2>3 DEF Good
  <2> QED
    BY <2>1, <2>2, <2>3
<1>3. ProbeIsRecent'
  <2>1. CASE pc # "probing"
    BY <1>a, <2>1 DEF StaleInv, ProbeIsRecent
  <2>2. CASE pc = "probing"
    <3>1. pos \in Targets
      BY <2>2 DEF TypeInv, ProbesTarget
    <3>2. seen' = IF pos = t THEN seen \cup {m} ELSE seen
      BY <2>2 DEF Change
    <3>3. mode'[pos] \in seen'
      BY <1>1, <2>2, <3>1, <3>2 DEF StaleInv, ProbeIsRecent
    <3>4. ASSUME NEW n \in seen', ExpectedStatus(n) # Good(pos)'
          PROVE  age'[pos] <= elapsed
      <4>1. CASE age'[pos] = 0
        BY <1>b, <4>1
      <4>2. CASE age'[pos] = age[pos] /\ Good(pos)' = Good(pos)
        <5>1. CASE n \in seen
          BY <2>2, <3>4, <4>2, <5>1 DEF StaleInv, ProbeIsRecent
        <5>2. CASE n \notin seen
          <6>1. n = m /\ pos = t
            BY <3>2, <5>2
          <6>2. Good(pos)' = ExpectedStatus(m)
            BY <1>1, <1>a, <3>1, <6>1 DEF Good, ExpectedStatus
          <6> QED
            BY <3>4, <6>1, <6>2
        <5> QED
          BY <5>1, <5>2
      <4>3. \/ age'[pos] = 0
            \/ age'[pos] = age[pos] /\ (mode'[pos] = "good") = Good(pos)
        BY <1>2, <3>1 DEF Good
      <4> QED
        BY <1>a, <4>1, <4>2, <4>3 DEF Good
    <3> QED
      BY <1>a, <2>2, <3>3, <3>4 DEF StaleInv, ProbeIsRecent, ExpectedStatus, Good
  <2> QED
    BY <2>1, <2>2
<1>4. ASSUME NEW s \in Targets, healthy'[s] # Good(s)'
      PROVE  /\ pc' = "start" => age'[s] = 0
             /\ Checked(s)' /\ due' > 0 => age'[s] <= interval' - due'
             /\ pc' = "waiting" => age'[s] <= NextRound'
             /\ InRound' /\ s < pos' => age'[s] <= Spent'
             /\ InRound' /\ s >= pos' => age'[s] <= NextRound' + Spent'
  <2>1. CASE age'[s] = 0
    BY <1>a, <1>b, <2>1
  <2>2. CASE age'[s] = age[s] /\ Good(s)' = Good(s)
    <3>1. healthy[s] # Good(s)
      BY <1>4, <1>a, <2>2
    <3> QED
      BY <1>a, <1>b, <2>2, <3>1 DEF StaleInv, StaleIsRecent, Checked, InRound
  <2> QED
    BY <1>2, <2>1, <2>2
<1>5. StaleIsRecent'
  BY <1>4 DEF StaleIsRecent
<1> QED
  BY <1>3, <1>5 DEF StaleInv

\* Nothing is old at first.
LEMMA StaleInit == Init => StaleInv
<1> SUFFICES ASSUME Init PROVE StaleInv
  OBVIOUS
<1>1. pc = "start" /\ due = 0 /\ elapsed = 0 /\ \A t \in Targets : age[t] = 0
  BY DEF Init
<1> QED
  BY <1>1 DEF StaleInv, ProbeIsRecent, StaleIsRecent, Checked, InRound

\* Every action keeps the bounds on the age of a stale flag.
LEMMA StaleStep == IInv /\ StaleInv /\ [Next]_vars => StaleInv'
<1> SUFFICES ASSUME IInv, StaleInv, [Next]_vars PROVE StaleInv'
  OBVIOUS
<1>a. TypeInv
  BY DEF IInv
<1>1. CASE Start
  <2>1. /\ interval' = interval /\ due' = due /\ pos' = pos /\ elapsed' = elapsed
        /\ pc = "start" /\ pc' \in {"waiting", "panicked"}
        /\ mode' = mode /\ healthy' = healthy /\ age' = age
    BY <1>1 DEF Start
  <2>2. NextRound' = NextRound /\ NextRound \in Nat /\ interval \in Nat
    <3>1. NextRound' = NextRound
      BY <2>1 DEF NextRound, RoundFits
    <3> QED
      BY <1>a, <3>1, StateTypes, NextRoundFacts DEF TypeInv
  <2>3. elapsed = 0 /\ ProbeIsRecent'
    BY <2>1 DEF StaleInv, ProbeIsRecent
  <2>4. \A t \in Targets : Good(t)' = Good(t)
    BY <2>1 DEF Good
  <2>5. ASSUME NEW t \in Targets, healthy[t] # Good(t)
        PROVE  age[t] = 0 /\ age[t] <= NextRound /\ age[t] <= interval - due
    BY <1>a, <2>1, <2>2, <2>5, StateTypes DEF StaleInv, StaleIsRecent
  <2>6. StaleIsRecent'
    BY <2>1, <2>2, <2>4, <2>5 DEF StaleIsRecent, InRound
  <2> QED
    BY <2>3, <2>6 DEF StaleInv
<1>2. CASE BeginRound
  BY <1>a, <1>2, BeginRoundStale
<1>3. CASE BeginProbe
  BY <1>a, <1>3, BeginProbeStale
<1>4. CASE EndRound
  BY <1>a, <1>4, EndRoundStale
<1>5. CASE Answered
  BY <1>5, ConcludeStale DEF Answered
<1>6. CASE TimedOut
  <2>1. ExpectedStatus("hung") = FALSE
    BY DEF ExpectedStatus
  <2> QED
    BY <1>6, <2>1, ConcludeStale DEF TimedOut
<1>7. CASE Tick
  BY <1>a, <1>7, TickStale
<1>8. CASE \E t \in Targets, m \in Modes : Change(t, m)
  BY <1>a, <1>8, ChangeStale
<1>9. CASE UNCHANGED vars
  BY <1>9 DEF vars, checker, StaleInv, ProbeIsRecent, StaleIsRecent,
     Checked, InRound, Spent, Span, NextRound, RoundFits, Good, ExpectedStatus
<1> QED
  BY <1>1, <1>2, <1>3, <1>4, <1>5, <1>6, <1>7, <1>8, <1>9 DEF Next, Step

\* Whatever the state of the schedule, the bounds stay within Notice(t).
LEMMA StaleWithinNotice == TypeInv /\ StaleInv => DetectionBound
<1> SUFFICES ASSUME TypeInv, StaleInv, NEW t \in Targets,
                    pc # "panicked", healthy[t] # Good(t)
             PROVE  ~(age[t] > Notice(t))
  BY DEF DetectionBound
<1>1. /\ t \in Nat /\ t - 1 \in Nat /\ t <= NumTargets /\ NumTargets \in Nat
      /\ age[t] \in Nat /\ pos \in Nat /\ elapsed \in Nat /\ elapsed <= Timeout
      /\ Timeout \in Nat /\ Span(pos - 1) \in Nat /\ Span(pos) = Span(pos - 1) + Timeout
      /\ pos - 1 \in Nat /\ pos <= NumTargets + 1
  BY StateTypes DEF Targets
<1>2. /\ NextRound \in Nat /\ Span(NumTargets) <= NextRound
  BY NextRoundFacts DEF TypeInv
<1>3. Notice(t) = NextRound + Span(t) /\ Span(t) \in Nat
  BY <1>1, SpanFacts DEF Notice, Span
<1>4. CASE pc \in {"start", "waiting"}
  BY <1>1, <1>2, <1>3, <1>4 DEF StaleInv, StaleIsRecent
<1>5. CASE InRound /\ t < pos
  <2>1. age[t] <= Spent
    BY <1>5 DEF StaleInv, StaleIsRecent
  <2>2. Spent <= Span(NumTargets) /\ Spent \in Nat /\ Span(NumTargets) \in Nat
    <3>1. CASE pc = "probing"
      <4>1. pos <= NumTargets
        BY <3>1 DEF TypeInv, ProbesTarget, Targets
      <4>2. Span(pos) <= Span(NumTargets) /\ Span(NumTargets) \in Nat
        BY <1>1, <4>1, SpanFacts
      <4> QED
        BY <1>1, <4>2 DEF Spent
    <3>2. CASE pc = "next"
      <4>1. elapsed = 0
        BY <3>2 DEF StaleInv, ProbeIsRecent
      <4>2. pos - 1 <= NumTargets
        BY <1>1
      <4>3. Span(pos - 1) <= Span(NumTargets) /\ Span(NumTargets) \in Nat
        BY <1>1, <4>2, SpanFacts
      <4> QED
        BY <1>1, <4>1, <4>3 DEF Spent
    <3> QED
      BY <1>5, <3>1, <3>2 DEF InRound
  <2> QED
    BY <1>1, <1>2, <1>3, <2>1, <2>2
<1>6. CASE InRound /\ t >= pos
  <2>1. age[t] <= NextRound + Spent
    BY <1>6 DEF StaleInv, StaleIsRecent
  <2>2. Span(pos) <= Span(t)
    BY <1>1, <1>6, SpanFacts
  <2> QED
    BY <1>1, <1>2, <1>3, <2>1, <2>2 DEF Spent
<1> QED
  BY <1>1, <1>4, <1>5, <1>6 DEF TypeInv, TypeOK, InRound

\* A target that has been good (or not good) for longer than Notice(t) is
\* flagged so, for any number of targets, any interval and timeout, and although
\* the probes of a round wait for each other (health_check.rs:38-59).
THEOREM DetectionCorrect == Spec => []DetectionBound
<1>1. Init => IInv /\ StaleInv
  BY TypeInit, StaleInit DEF Init, IInv, WasIsCurrent, FlagIsLastVerdict
<1>2. IInv /\ StaleInv /\ [Next]_vars => (IInv /\ StaleInv)'
  BY TypeStep, FlagStep, StaleStep DEF IInv
<1>3. IInv /\ StaleInv => DetectionBound
  BY StaleWithinNotice DEF IInv
<1> QED
  BY <1>1, <1>2, <1>3, PTL DEF Spec

=============================================================================

---------------------------- MODULE HealthCheck ----------------------------
(***************************************************************************)
(* One HealthChecker (health_check.rs): the task that probes the targets   *)
(* of an upstream one after the other, every interval_seconds, and stores  *)
(* the verdict in Target::healthy.  Server::new (server.rs) gives every    *)
(* upstream with a health_check section one checker, so a target's flag    *)
(* has one writer.                                                         *)
(*                                                                         *)
(* Time is counted in ticks.  A step of the checker takes no time; a probe *)
(* takes from 0 to Timeout ticks.  tokio's interval is ready at once the   *)
(* first time, and its missed deadlines are caught up in a burst: the next *)
(* deadline is one interval after the last deadline, not after the round.  *)
(***************************************************************************)
EXTENDS Integers

CONSTANTS
  NumTargets,  \* HealthChecker::targets, probed in this order
  Intervals,   \* values of interval_seconds, which validate does not constrain
  Timeout,     \* timeout_seconds of the HTTP client
  MaxLag,      \* ticks behind schedule beyond which lateness is not counted
  MaxAge       \* ages beyond this one are not told apart

Targets == 1..NumTargets

\* What a target does with a probe: gives the expected status, gives another
\* status or refuses the connection, or does not answer in time.
Modes == {"good", "bad", "hung"}

\* Server::new makes no checker for an upstream without targets.
ASSUME TargetsAssumption == NumTargets \in Nat \ {0}
ASSUME TimesAssumption == Intervals \subseteq Nat /\ Timeout \in Nat \ {0}
ASSUME BoundsAssumption == MaxLag \in Nat /\ MaxAge \in Nat

VARIABLES
  interval, \* the interval_seconds of this checker
  mode,     \* what each target currently does with a probe
  healthy,  \* Target::healthy
  pc,       \* where the checker is
  due,      \* ticks to the interval's next deadline, negative when missed
  pos,      \* the loop index of check_all_targets
  was,      \* was_healthy, read before the probe
  seen,     \* modes of the probed target since the probe was sent
  elapsed,  \* ticks since the probe was sent
  \* History:
  verdict,  \* the verdict of each target's last finished probe
  age       \* ticks since each target last began or ceased to be good

checker == <<interval, pc, due, pos, was, elapsed>>
vars == <<mode, healthy, checker, seen, verdict, age>>

Good(t) == mode[t] = "good"

Init ==
  /\ interval \in Intervals
  /\ mode \in [Targets -> Modes]
  /\ healthy = [t \in Targets |-> TRUE]
  /\ pc = "start"
  /\ due = 0
  /\ pos = 1
  /\ was = TRUE
  /\ seen = {}
  /\ elapsed = 0
  /\ verdict = [t \in Targets |-> TRUE]
  /\ age = [t \in Targets |-> 0]

\* interval(period) panics on a period of zero: the task is gone, and
\* start_all drops the error of the join.
Start ==
  /\ pc = "start"
  /\ pc' = IF interval = 0 THEN "panicked" ELSE "waiting"
  /\ UNCHANGED <<interval, mode, healthy, due, pos, was, seen, elapsed, verdict, age>>

\* interval.tick() returns.
BeginRound ==
  /\ pc = "waiting"
  /\ due <= 0
  /\ due' = due + interval
  /\ pos' = 1
  /\ pc' = "next"
  /\ UNCHANGED <<interval, mode, healthy, was, seen, elapsed, verdict, age>>

BeginProbe ==
  /\ pc = "next"
  /\ pos <= NumTargets
  /\ was' = healthy[pos]
  /\ seen' = {mode[pos]}
  /\ elapsed' = 0
  /\ pc' = "probing"
  /\ UNCHANGED <<interval, mode, healthy, due, pos, verdict, age>>

EndRound ==
  /\ pc = "next"
  /\ pos > NumTargets
  /\ pc' = "waiting"
  /\ UNCHANGED <<interval, mode, healthy, due, pos, was, seen, elapsed, verdict, age>>

\* Mutant: a target that has recovered is not re-added.
StoredDownOnly(ok) == IF was # ok /\ ~ok THEN [healthy EXCEPT ![pos] = ok] ELSE healthy

\* `if was_healthy != is_healthy { target.set_healthy(is_healthy) }`
Stored(ok) == IF was # ok THEN [healthy EXCEPT ![pos] = ok] ELSE healthy

\* check_target returned ok.
Conclude(ok) ==
  /\ healthy' = Stored(ok)
  /\ verdict' = [verdict EXCEPT ![pos] = ok]
  /\ pos' = pos + 1
  /\ seen' = {}
  /\ elapsed' = 0
  /\ pc' = "next"
  /\ UNCHANGED <<interval, mode, due, was, age>>

ConnectedIsGood(m) == TRUE  \* mutant: the status is not looked at

\* `status == expected_status`, or false when the request failed.
ExpectedStatus(m) == m = "good"

\* The target answered, as it did at some instant since the probe was sent.
Answered ==
  /\ pc = "probing"
  /\ \E m \in seen \ {"hung"} : Conclude(ExpectedStatus(m))

WithoutTimeout == TRUE  \* mutant: the client is built without a timeout
WithinTimeout == elapsed < Timeout

\* The client gives up on a target that did not answer.
TimedOut ==
  /\ pc = "probing"
  /\ ~WithinTimeout
  /\ "hung" \in seen
  /\ Conclude(FALSE)

Step == Start \/ BeginRound \/ BeginProbe \/ EndRound \/ Answered \/ TimedOut

-----------------------------------------------------------------------------
(* The targets and the clock *)

\* A target begins to do something else with probes.
Change(t, m) ==
  /\ mode[t] # m
  /\ mode' = [mode EXCEPT ![t] = m]
  /\ seen' = IF pc = "probing" /\ pos = t THEN seen \cup {m} ELSE seen
  /\ age' = IF Good(t) # (m = "good") THEN [age EXCEPT ![t] = 0] ELSE age
  /\ UNCHANGED <<healthy, checker, verdict>>

\* Time passes while the checker waits for its interval or for an answer.
Tick ==
  /\ \/ pc = "waiting" /\ due > 0
     \/ pc = "probing" /\ WithinTimeout
     \/ pc = "panicked"
  /\ due' = IF due > -MaxLag THEN due - 1 ELSE due
  /\ elapsed' = IF pc = "probing" THEN elapsed + 1 ELSE elapsed
  /\ age' = [t \in Targets |-> IF age[t] < MaxAge THEN age[t] + 1 ELSE age[t]]
  /\ UNCHANGED <<interval, mode, healthy, pc, pos, was, seen, verdict>>

Next ==
  \/ Step
  \/ Tick
  \/ \E t \in Targets, m \in Modes : Change(t, m)

Spec == Init /\ [][Next]_vars

\* The runtime polls a ready task, and time goes on.
FairSpec == Spec /\ WF_vars(Step) /\ WF_vars(Tick)

-----------------------------------------------------------------------------
(* Properties *)

\* Types of the state.
TypeOK ==
  /\ interval \in Intervals
  /\ mode \in [Targets -> Modes]
  /\ healthy \in [Targets -> BOOLEAN]
  /\ pc \in {"start", "waiting", "next", "probing", "panicked"}
  /\ due \in -MaxLag..interval
  /\ pos \in 1..(NumTargets + 1)
  /\ was \in BOOLEAN
  /\ seen \subseteq Modes
  /\ elapsed \in 0..Timeout
  /\ verdict \in [Targets -> BOOLEAN]
  /\ age \in [Targets -> 0..MaxAge]

\* The flag always is the verdict of the last finished probe, although it is
\* stored only when it differs from a value read before the probe
\* (health_check.rs:46-57).
FlagIsLastVerdict == \A t \in Targets : healthy[t] = verdict[t]

\* The next round begins after an interval, or when a round of timeouts that
\* does not fit in one is over.
RoundFits == NumTargets * Timeout <= interval
NextRound == IF RoundFits THEN interval ELSE NumTargets * Timeout

\* Ticks after which a change of target t has been noticed: in the next round,
\* behind the probes of all the targets before it.
Notice(t) == NextRound + t * Timeout

\* A target that has been good (or not good) for longer than Notice(t) is
\* flagged so, whatever the others do: no verdict in use is older than that,
\* although the probes are sequential (health_check.rs:38-59).
DetectionBound ==
  \A t \in Targets :
    pc # "panicked" /\ age[t] > Notice(t) => healthy[t] = Good(t)

\* Rounds begin on the schedule of the interval (README.md:199), if a round of
\* timeouts fits in it: no deadline passes while the checker is still busy.
RoundsOnSchedule == RoundFits => due >= 0

\* A target that stays bad is excluded in the end (README.md:210).
UnhealthyExcluded ==
  \A t \in Targets : <>[]~Good(t) => <>[]~healthy[t]

\* The same of every checker that lives, late or not.
ProbedExcluded == interval # 0 => UnhealthyExcluded

\* A target that stays good is re-added in the end (README.md:211).
RecoveredReadded ==
  \A t \in Targets : <>[]Good(t) => <>[]healthy[t]

=============================================================================

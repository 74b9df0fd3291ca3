------------------------------ MODULE Failover ------------------------------
(***************************************************************************)
(* A health checker and the requests that read its flags: HealthCheck with *)
(* calls of Selection over the same `healthy`, whatever their strategy.    *)
(* This is where the promises of both meet: a target that has been down    *)
(* for long enough gets no requests, one that is up does not lose them.    *)
(***************************************************************************)
EXTENDS HealthCheck

CONSTANTS
  Callers,  \* request tasks that may be inside select_target at once
  NoTarget  \* None

ASSUME NoTargetAssumption == NoTarget \notin Targets

VARIABLES
  asking, among, up, down, given,  \* see Selection
  settled   \* the targets whose state was old news when a call began, and has
            \* been the same since: see Notice in HealthCheck

calls == <<asking, among, up, down, given>>
all == <<vars, calls, settled>>

Select == INSTANCE Selection

Old == {t \in Targets : age[t] > Notice(t)}

FailoverInit ==
  /\ Init
  /\ Select!Init
  /\ settled = [c \in Callers |-> {}]

Ask(c) ==
  /\ given[c] = NoTarget
  /\ Select!Ask(c, Targets)
  /\ settled' = [settled EXCEPT ![c] = Old]
  /\ UNCHANGED <<mode, checker, seen, verdict, age>>

Give(c, t) ==
  /\ Select!Give(c, t)
  /\ settled' = [settled EXCEPT ![c] = {}]
  /\ UNCHANGED <<mode, checker, seen, verdict, age>>

GiveNone(c) ==
  /\ Select!GiveNone(c)
  /\ settled' = [settled EXCEPT ![c] = {}]
  /\ UNCHANGED <<mode, checker, seen, verdict, age>>

Forget(c) ==
  /\ Select!Forget(c)
  /\ UNCHANGED <<mode, checker, seen, verdict, age, settled>>

\* The checker, the targets and the clock go on under the calls.
Background ==
  /\ Next
  /\ Select!Observe
  /\ settled' = [c \in Callers |->
       {t \in settled[c] : (mode'[t] = "good") = Good(t)}]

FailoverNext ==
  \/ Background
  \/ \E c \in Callers :
       \/ Ask(c) \/ GiveNone(c) \/ Forget(c)
       \/ \E t \in Targets : Give(c, t)

FailoverSpec == FailoverInit /\ [][FailoverNext]_all
FairFailoverSpec ==
  FailoverSpec /\ WF_all(Step /\ Background) /\ WF_all(Tick /\ Background)

-----------------------------------------------------------------------------
(* Properties *)

\* However a call overlaps probes and other calls, a target that has not been
\* good for longer than Notice(t) when it begins, and all through it, is not
\* given; and a call does not come back empty-handed while a target is good for
\* so long (README.md:210-211).  Of a checker that lives.
FailsOver ==
  [][interval # 0 => \A c \in Callers :
       c \in asking /\ c \notin asking' =>
         /\ given'[c] # NoTarget => ~(given'[c] \in settled[c] /\ ~Good(given'[c]))
         /\ given'[c] = NoTarget => ~\E t \in settled[c] : Good(t)]_all

=============================================================================

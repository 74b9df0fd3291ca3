----------------------------- MODULE Selection -----------------------------
(***************************************************************************)
(* What a call of select_target promises while health flags flip under it: *)
(* a target is given only if it was up at some instant of the call, and no *)
(* target only if all of them were down at some instant of it, each at its *)
(* own.  Upstream implements this; Proxy and Failover are built on it.     *)
(***************************************************************************)
CONSTANTS
  Targets,
  Callers,
  NoTarget  \* None

VARIABLES
  healthy,  \* Target::healthy
  asking,   \* the callers inside a call
  among,    \* the targets that a call may be given, {} outside of a call
  up, down, \* those that were up, down at some instant of it
  given     \* what its last call gave to a caller

vars == <<healthy, asking, among, up, down, given>>

Up == {t \in Targets : healthy[t]}

Init ==
  /\ healthy = [t \in Targets |-> TRUE]
  /\ asking = {}
  /\ among = [c \in Callers |-> {}]
  /\ up = [c \in Callers |-> {}]
  /\ down = [c \in Callers |-> {}]
  /\ given = [c \in Callers |-> NoTarget]

Ask(c, S) ==
  /\ c \notin asking
  /\ asking' = asking \cup {c}
  /\ among' = [among EXCEPT ![c] = S]
  /\ up' = [up EXCEPT ![c] = Up]
  /\ down' = [down EXCEPT ![c] = Targets \ Up]
  /\ given' = [given EXCEPT ![c] = NoTarget]
  /\ UNCHANGED healthy

Return(c, t) ==
  /\ asking' = asking \ {c}
  /\ among' = [among EXCEPT ![c] = {}]
  /\ up' = [up EXCEPT ![c] = {}]
  /\ down' = [down EXCEPT ![c] = {}]
  /\ given' = [given EXCEPT ![c] = t]
  /\ UNCHANGED healthy

Give(c, t) ==
  /\ c \in asking
  /\ t \in among[c] \cap up[c]
  /\ Return(c, t)

GiveNone(c) ==
  /\ c \in asking
  /\ among[c] \subseteq down[c]
  /\ Return(c, NoTarget)

\* The caller is done with what it was given.
Forget(c) ==
  /\ c \notin asking
  /\ given' = [given EXCEPT ![c] = NoTarget]
  /\ UNCHANGED <<healthy, asking, among, up, down>>

\* The calls that run live to see the new flags.
Observe ==
  /\ up' = [c \in Callers |->
              IF c \in asking THEN up[c] \cup {t \in Targets : healthy'[t]} ELSE up[c]]
  /\ down' = [c \in Callers |->
                IF c \in asking THEN down[c] \cup {t \in Targets : ~healthy'[t]} ELSE down[c]]
  /\ UNCHANGED <<asking, among, given>>

SetHealthy(t, h) == healthy' = [healthy EXCEPT ![t] = h] /\ Observe

Next ==
  \/ \E c \in Callers :
       \/ \E S \in SUBSET Targets : Ask(c, S)
       \/ \E t \in Targets : Give(c, t)
       \/ GiveNone(c) \/ Forget(c)
  \/ \E t \in Targets, h \in BOOLEAN : SetHealthy(t, h)

Spec == Init /\ [][Next]_vars

=============================================================================

------------------------------ MODULE Upstream ------------------------------
(***************************************************************************)
(* Load balancing: Upstream::select_target (upstream.rs) over its Targets  *)
(* (target.rs), called by any number of request tasks at once while the    *)
(* health checker flips the targets' `healthy` flags.                      *)
(*                                                                         *)
(* select_target takes no lock.  Every atomic load it does of a target is  *)
(* a step here, so a call sees each target at a different instant.  Two    *)
(* loads are merged where no other order can be told apart:                *)
(*  - is_healthy() and the second is_healthy() of effective_weight(), in   *)
(*    the weighted scan: the pair pushes what one of the two loads alone   *)
(*    would have pushed;                                                   *)
(*  - the two loads of one connection_score().                             *)
(***************************************************************************)
EXTENDS Naturals, Sequences, FiniteSets

CONSTANTS
  NumTargets,  \* length of Upstream::targets
  Weight,      \* Weight[t]: the weight of target t, 0 allowed
  Strategies,  \* the load balancing strategies an upstream is built with
  Flapping,    \* the targets whose health check ever changes its mind
  Callers,     \* request tasks that may be inside select_target at once
  CounterMod,  \* 2^w, w the width of usize
  Counted,     \* do callers count connections, as the unit tests of
               \* upstream.rs do, or not, as proxy.rs does?
  MaxFetches,  \* bound on round robin turns taken
  NoTarget     \* None

Targets == 1..NumTargets
StrategyNames ==
  {"RoundRobin", "LeastConnections", "Random", "WeightedRoundRobin"}

ASSUME SizesAssumption == /\ NumTargets \in Nat
                          /\ MaxFetches \in Nat
                          /\ CounterMod \in Nat \ {0}
ASSUME WeightAssumption == Weight \in [Targets -> Nat]
ASSUME FlappingAssumption == Flapping \subseteq Targets
ASSUME StrategiesAssumption == Strategies \subseteq StrategyNames
ASSUME CountedAssumption == Counted \in BOOLEAN
ASSUME NoTargetAssumption == NoTarget \notin Nat

VARIABLES
  strategy,     \* Upstream::strategy, fixed when the upstream is built
  healthy,      \* Target::healthy
  connections,  \* Target::active_connections, a wrapping usize
  counter,      \* Upstream::round_robin_counter, a wrapping usize
  pc,           \* where each caller is
  pos,          \* its loop index in the scan it is doing
  list,         \* its healthy_targets, then its weighted_targets
  target,       \* its running minimum, then the target it was given
  score,        \* the score of its running minimum, when it has read it
  \* History, read by no guard but the bound on turns:
  upSince,      \* targets that were healthy at some instant of the call
  downSince,    \* targets that were unhealthy at some instant of the call
  quiet,        \* nothing else happened since the call began
  picks,        \* picks[t]: turns target t was given
  wraps,        \* how often counter wrapped
  flapped       \* targets whose flag ever changed

shared  == <<strategy, healthy, connections>>
locals  == <<pc, pos, list, target, score>>
turns   == <<counter, picks, wraps>>
history == <<upSince, downSince, quiet, flapped>>
vars    == <<shared, locals, turns, history>>

-----------------------------------------------------------------------------
(* Reading a target *)

AlwaysHealthy(t) == TRUE  \* mutant: the filter is lost
IsHealthy(t) == healthy[t]

\* An unhealthy target scores f64::INFINITY: above any number of connections.
Infinity == CounterMod

Score(t) == IF IsHealthy(t) THEN connections[t] ELSE Infinity

AtLeastOne(w) == IF w = 0 THEN 1 ELSE w

\* Mutant: connections are compared without the weights.
OutscoresUnweighted(a, t, b, u) == b # Infinity /\ (a = Infinity \/ a > b)

\* Does score a of target t compare Greater than score b of target u?  A
\* score is connections / max(weight, 1); two infinities compare Equal.
Outscores(a, t, b, u) ==
  /\ b # Infinity
  /\ \/ a = Infinity
     \/ a * AtLeastOne(Weight[u]) > b * AtLeastOne(Weight[t])

-----------------------------------------------------------------------------
(* Callers *)

Scanning == {"filter", "weigh", "left", "right"}
InCall(c) == pc[c] \in Scanning
Serving(t) == {c \in Callers : pc[c] = "serving" /\ target[c] = t}

Fetches == counter + CounterMod * wraps

Init ==
  /\ strategy \in Strategies
  /\ healthy = [t \in Targets |-> TRUE]
  /\ connections = [t \in Targets |-> 0]
  /\ counter = 0
  /\ pc = [c \in Callers |-> "idle"]
  /\ pos = [c \in Callers |-> 1]
  /\ list = [c \in Callers |-> <<>>]
  /\ target = [c \in Callers |-> NoTarget]
  /\ score = [c \in Callers |-> Infinity]
  /\ upSince = [c \in Callers |-> {}]
  /\ downSince = [c \in Callers |-> {}]
  /\ quiet = [c \in Callers |-> TRUE]
  /\ picks = [t \in Targets |-> 0]
  /\ wraps = 0
  /\ flapped = {}

\* A request task enters select_target.
Call(c) ==
  /\ pc[c] = "idle"
  /\ Fetches + Cardinality({d \in Callers : InCall(d)}) < MaxFetches
  /\ pc' = [pc EXCEPT ![c] = "filter"]
  /\ upSince' = [upSince EXCEPT ![c] = {t \in Targets : healthy[t]}]
  /\ downSince' = [downSince EXCEPT ![c] = {t \in Targets : ~healthy[t]}]
  /\ quiet' = [quiet EXCEPT ![c] = TRUE]
  /\ UNCHANGED <<shared, turns, pos, list, target, score, flapped>>

ExhaustedEarly(c) == pos[c] >= NumTargets  \* mutant: the last one is missed

\* The loop over all targets is over.
Exhausted(c) == pos[c] > NumTargets

\* Mutant: the loop sticks at an unhealthy target.
AdvanceIfHealthy(c) == IF IsHealthy(pos[c]) THEN pos[c] + 1 ELSE pos[c]
Advance(c) == pos[c] + 1

\* One iteration of `filter(|target| target.is_healthy())`.
Filter(c) ==
  /\ pc[c] = "filter"
  /\ ~Exhausted(c)
  /\ list' = IF IsHealthy(pos[c])
             THEN [list EXCEPT ![c] = Append(@, pos[c])]
             ELSE list
  /\ pos' = [pos EXCEPT ![c] = Advance(c)]
  /\ UNCHANGED <<shared, turns, history, pc, target, score>>

\* select_target returns t (or None) and its locals go out of scope.
Return(c, t) ==
  /\ target' = [target EXCEPT ![c] = t]
  /\ pc' = [pc EXCEPT ![c] = "selected"]
  /\ pos' = [pos EXCEPT ![c] = 1]
  /\ list' = [list EXCEPT ![c] = <<>>]
  /\ score' = [score EXCEPT ![c] = Infinity]

NoHealthyTarget(c) ==
  /\ pc[c] \in {"filter", "weigh"}
  /\ Exhausted(c)
  /\ list[c] = <<>>
  /\ Return(c, NoTarget)
  /\ UNCHANGED <<shared, turns, history>>

Filtered(c, s) ==
  /\ pc[c] = "filter"
  /\ Exhausted(c)
  /\ list[c] # <<>>
  /\ strategy = s

UnwrappedCounter == counter + 1  \* mutant: the counter leaves its width
NextCounter == (counter + 1) % CounterMod

\* The element of sequence s whose turn it is.
Turn(s) == s[(counter % Len(s)) + 1]

\* `list[round_robin_counter.fetch_add(1) % list.len()]`
TakeTurn(c) ==
  /\ counter' = NextCounter
  /\ wraps' = IF counter + 1 = CounterMod THEN wraps + 1 ELSE wraps
  /\ picks' = [picks EXCEPT ![Turn(list[c])] = @ + 1]
  /\ Return(c, Turn(list[c]))
  /\ UNCHANGED <<shared, history>>

SelectRoundRobin(c) == Filtered(c, "RoundRobin") /\ TakeTurn(c)

SelectRandom(c) ==
  /\ Filtered(c, "Random")
  /\ \E i \in 1..Len(list[c]) : Return(c, list[c][i])
  /\ UNCHANGED <<shared, turns, history>>

-----------------------------------------------------------------------------
(* min_by over the healthy targets: the running minimum is `target`; each  *)
(* comparison evaluates the score of both operands anew.                   *)

StartLeastConnections(c) ==
  /\ Filtered(c, "LeastConnections")
  /\ target' = [target EXCEPT ![c] = list[c][1]]
  /\ pos' = [pos EXCEPT ![c] = 2]
  /\ pc' = [pc EXCEPT ![c] = "left"]
  /\ UNCHANGED <<shared, turns, history, list, score>>

ScoreLeft(c) ==
  /\ pc[c] = "left"
  /\ pos[c] <= Len(list[c])
  /\ score' = [score EXCEPT ![c] = Score(target[c])]
  /\ pc' = [pc EXCEPT ![c] = "right"]
  /\ UNCHANGED <<shared, turns, history, pos, list, target>>

ScoreRight(c) ==
  /\ pc[c] = "right"
  /\ LET rival == list[c][pos[c]]
     IN  target' = IF Outscores(score[c], target[c], Score(rival), rival)
                   THEN [target EXCEPT ![c] = rival]
                   ELSE target
  /\ pos' = [pos EXCEPT ![c] = @ + 1]
  /\ pc' = [pc EXCEPT ![c] = "left"]
  /\ UNCHANGED <<shared, turns, history, list, score>>

SelectLeastConnections(c) ==
  /\ pc[c] = "left"
  /\ pos[c] > Len(list[c])
  /\ Return(c, target[c])
  /\ UNCHANGED <<shared, turns, history>>

-----------------------------------------------------------------------------
(* Weighted round robin ignores the filtered list and scans again. *)

StartWeighted(c) ==
  /\ Filtered(c, "WeightedRoundRobin")
  /\ pc' = [pc EXCEPT ![c] = "weigh"]
  /\ pos' = [pos EXCEPT ![c] = 1]
  /\ list' = [list EXCEPT ![c] = <<>>]
  /\ UNCHANGED <<shared, turns, history, target, score>>

UnweightedCopies(t) == <<t>>  \* mutant: weights are ignored
Copies(t) == [i \in 1..Weight[t] |-> t]

Weigh(c) ==
  /\ pc[c] = "weigh"
  /\ ~Exhausted(c)
  /\ list' = IF IsHealthy(pos[c])
             THEN [list EXCEPT ![c] = @ \o Copies(pos[c])]
             ELSE list
  /\ pos' = [pos EXCEPT ![c] = Advance(c)]
  /\ UNCHANGED <<shared, turns, history, pc, target, score>>

SelectWeighted(c) ==
  /\ pc[c] = "weigh"
  /\ Exhausted(c)
  /\ list[c] # <<>>
  /\ TakeTurn(c)

-----------------------------------------------------------------------------
(* What the callers do with the answer, and the health checker. *)

OthersDisturbed(c) == [d \in Callers |-> IF d = c THEN quiet[d] ELSE FALSE]

\* fetch_add(1) and fetch_sub(1) of a usize wrap.
Increment(n) == (n + 1) % CounterMod
Decrement(n) == (n + CounterMod - 1) % CounterMod

\* The request is forwarded to the selected target.
Begin(c) ==
  /\ pc[c] = "selected"
  /\ target[c] # NoTarget
  /\ pc' = [pc EXCEPT ![c] = "serving"]
  /\ connections' = IF Counted
                    THEN [connections EXCEPT ![target[c]] = Increment(@)]
                    ELSE connections
  /\ quiet' = OthersDisturbed(c)
  /\ UNCHANGED <<strategy, healthy, turns, pos, list, target, score,
                 upSince, downSince, flapped>>

Leave(c) ==
  /\ pc' = [pc EXCEPT ![c] = "idle"]
  /\ target' = [target EXCEPT ![c] = NoTarget]
  /\ upSince' = [upSince EXCEPT ![c] = {}]
  /\ downSince' = [downSince EXCEPT ![c] = {}]
  /\ UNCHANGED <<strategy, healthy, turns, pos, list, score, flapped>>

\* The exchange with the target is over.
End(c) ==
  /\ pc[c] = "serving"
  /\ connections' = IF Counted
                    THEN [connections EXCEPT ![target[c]] = Decrement(@)]
                    ELSE connections
  /\ quiet' = OthersDisturbed(c)
  /\ Leave(c)

\* The caller got None: no target of this upstream serves the request.
GiveUp(c) ==
  /\ pc[c] = "selected"
  /\ target[c] = NoTarget
  /\ Leave(c)
  /\ UNCHANGED <<connections, quiet>>

\* Target::set_healthy, called by the health checker at any instant.
SetHealthy(t, h) ==
  /\ healthy[t] # h
  /\ healthy' = [healthy EXCEPT ![t] = h]
  /\ upSince' = [c \in Callers |->
                   IF h /\ InCall(c) THEN upSince[c] \cup {t} ELSE upSince[c]]
  /\ downSince' = [c \in Callers |->
                     IF ~h /\ InCall(c) THEN downSince[c] \cup {t}
                                        ELSE downSince[c]]
  /\ quiet' = [c \in Callers |-> FALSE]
  /\ flapped' = flapped \cup {t}
  /\ UNCHANGED <<strategy, connections, locals, turns>>

Step(c) ==
  \/ Filter(c) \/ NoHealthyTarget(c)
  \/ SelectRoundRobin(c) \/ SelectRandom(c)
  \/ StartLeastConnections(c) \/ ScoreLeft(c) \/ ScoreRight(c)
  \/ SelectLeastConnections(c)
  \/ StartWeighted(c) \/ Weigh(c) \/ SelectWeighted(c)

Next ==
  \/ \E c \in Callers : Call(c) \/ Step(c) \/ Begin(c) \/ End(c) \/ GiveUp(c)
  \/ \E t \in Flapping, h \in BOOLEAN : SetHealthy(t, h)

Spec == Init /\ [][Next]_vars

\* select_target never awaits: once polled, a call runs to its end.
FairSpec == Spec /\ \A c \in Callers : WF_vars(Step(c))

-----------------------------------------------------------------------------
(* What a call is meant to promise: Selection. *)

\* Weighted round robin gives a target of weight 0 no share.
HasShare(t) == strategy # "WeightedRoundRobin" \/ Weight[t] > 0

InsideCall(S) == [c \in Callers |-> IF InCall(c) THEN S[c] ELSE {}]

Asking == {c \in Callers : InCall(c)}
Among == InsideCall([c \in Callers |-> {t \in Targets : HasShare(t)}])
SeenUp == InsideCall(upSince)
SeenDown == InsideCall(downSince)
Given == [c \in Callers |->
            IF pc[c] \in {"selected", "serving"} THEN target[c] ELSE NoTarget]

Abstract == INSTANCE Selection WITH
  asking <- Asking, among <- Among, up <- SeenUp, down <- SeenDown, given <- Given

-----------------------------------------------------------------------------
(* Properties *)

\* Types of the state; both usize counters stay inside their width.
TypeOK ==
  /\ strategy \in Strategies
  /\ healthy \in [Targets -> BOOLEAN]
  /\ connections \in [Targets -> 0..(CounterMod - 1)]
  /\ counter \in 0..(CounterMod - 1)
  /\ pc \in [Callers -> Scanning \cup {"idle", "selected", "serving"}]
  /\ pos \in [Callers -> Nat \ {0}]
  /\ list \in [Callers -> Seq(Targets)]
  /\ target \in [Callers -> Targets \cup {NoTarget}]
  /\ score \in [Callers -> 0..Infinity]
  /\ upSince \in [Callers -> SUBSET Targets]
  /\ downSince \in [Callers -> SUBSET Targets]
  /\ quiet \in [Callers -> BOOLEAN]
  /\ picks \in [Targets -> Nat]
  /\ wraps \in Nat
  /\ flapped \subseteq Targets

\* Whatever the health checker did while select_target was running, the target
\* it returns was healthy at some instant of the call: a target that was down
\* all along is never selected, by any strategy (upstream.rs:34-54).
SelectedWasHealthy ==
  \A c \in Callers :
    pc[c] \in {"selected", "serving"} /\ target[c] # NoTarget
      => target[c] \in upSince[c]

\* None is returned only if every target was down at some instant of the call.
\* One target that is up all along is enough for an answer, unless weighted
\* round robin gives it no share (upstream.rs:41-44, 92-94).
NoneNeedsOutage ==
  \A c \in Callers :
    pc[c] = "selected" /\ target[c] = NoTarget
      => \A t \in Targets :
           t \in downSince[c] \/ (strategy = "WeightedRoundRobin" /\ Weight[t] = 0)

\* Whatever the strategy loads, and in whatever order, a call is a call of
\* Selection: the flags may be torn between two targets, but no answer needs
\* more than one instant for each target (upstream.rs:34-99).
ImplementsSelection == Abstract!Spec

\* Turns in a full round of the counter that belong to target t.
Slots(t) == IF strategy = "RoundRobin" THEN 1 ELSE Weight[t]

\* While no flag changes, concurrent callers share the turns in proportion to
\* the slots: fetch_add hands out every turn once, so two targets are never
\* further apart than one round; each wrap of the usize counter may cut one
\* round short (upstream.rs:61-62, 96-98).
ProportionalShare ==
  flapped = {} =>
    \A t, u \in Targets :
      picks[t] * Slots(u) <= picks[u] * Slots(t) + (1 + wraps) * Slots(t) * Slots(u)

\* LeastConnections, whatever the counts stand at and whoever counts: if nothing
\* else happened since the call began, no healthy target scores less than the one
\* returned, although min_by reads both of its operands anew each time
\* (upstream.rs:65-74, target.rs:78-87).
LowestScore ==
  \A c \in Callers :
    /\ strategy = "LeastConnections"
    /\ pc[c] = "selected" /\ quiet[c]
    /\ target[c] # NoTarget
    => \A t \in Targets : healthy[t] =>
         connections[target[c]] * AtLeastOne(Weight[t])
           <= connections[t] * AtLeastOne(Weight[target[c]])

\* LeastConnections: in such a call no healthy target has fewer requests in
\* flight, for its weight, than the one returned (README.md:162).
FewestConnections ==
  \A c \in Callers :
    /\ strategy = "LeastConnections"
    /\ pc[c] = "selected" /\ quiet[c]
    /\ target[c] # NoTarget
    => \A t \in Targets : healthy[t] =>
         Cardinality(Serving(target[c])) * AtLeastOne(Weight[t])
           <= Cardinality(Serving(t)) * AtLeastOne(Weight[target[c]])

\* Every call of select_target returns, however often the flags change under
\* it: the scans are over a fixed list (upstream.rs:34-99).
CallsReturn == \A c \in Callers : InCall(c) ~> pc[c] = "selected"

=============================================================================

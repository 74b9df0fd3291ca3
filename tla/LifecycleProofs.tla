-------------------------- MODULE LifecycleProofs --------------------------
(***************************************************************************)
(* Proofs about Lifecycle, for any configurations, any number of servers,  *)
(* upstreams and connections, and any addresses that are taken.            *)
(***************************************************************************)
EXTENDS Lifecycle, SequenceTheorems, TLAPS

\* Servers run only by an accepted configuration.
RunsAccepted ==
  /\ phase \in {"spawning", "joining"} => Accepted
  /\ \A i \in Servers : server[i] # "none" \/ manager[i] # "none" => Accepted

\* The checkers are those of the managers that have run.
CheckersOfManagers ==
  \A k : k \in checkers <=> \E i \in Servers : manager[i] = "running" /\ k \in CheckersOf(i)

\* A server is spawned once, and its manager after it.
InOrder ==
  /\ phase \in {"loading", "spawning"} =>
       \A i \in Servers : i >= next => server[i] = "none"
  /\ \A i \in Servers : server[i] \in {"none", "spawned"} => manager[i] = "none"

IInv == TypeOK /\ RunsAccepted /\ CheckersOfManagers /\ InOrder

-----------------------------------------------------------------------------
(* Facts about the configuration. *)

\* With distinct ids a router keeps every upstream, under its own section.
LEMMA UpstreamOfSection ==
  ASSUME Parsed, DistinctUpstreams, NEW j \in Sections
  PROVE  Upstream(config.upstreams[j].id) = j
<1> DEFINE P(x) == /\ config.upstreams[x].id = config.upstreams[j].id
                   /\ \A k \in Sections : config.upstreams[k].id = config.upstreams[j].id => k <= x
<1>1. \A k \in Sections : config.upstreams[k].id = config.upstreams[j].id => k = j
  BY DEF DistinctUpstreams
<1>2. j <= j
  BY DEF Sections
<1>3. \A x \in Sections : P(x) <=> x = j
  BY <1>1, <1>2
<1>4. (CHOOSE x \in Sections : P(x)) = j
  <2> HIDE DEF P
  <2> QED
    BY <1>3
<1> QED
  BY <1>4 DEF Upstream

\* A checker belongs to the server that it was made for.
LEMMA CheckerShape ==
  ASSUME Parsed, DistinctUpstreams, NEW i, NEW k
  PROVE  k \in CheckersOf(i) <=>
           \E j \in Sections : /\ config.upstreams[j].checked
                               /\ config.upstreams[j].targets > 0
                               /\ k = [server |-> i, section |-> j, upstream |-> j]
BY UpstreamOfSection DEF CheckersOf

-----------------------------------------------------------------------------
(* The invariant *)

\* A file has a number of servers.
LEMMA NumServersType == config \in Configs => NumServers \in Nat
BY ConfigsAssumption DEF NumServers, Parsed

\* The inductive invariant holds initially.
LEMMA IInvInit == Init => IInv
<1> SUFFICES ASSUME Init PROVE IInv
  OBVIOUS
<1>1. NumServers \in Nat
  BY NumServersType DEF Init
<1>2. TypeOK
  BY <1>1 DEF Init, TypeOK
<1>3. RunsAccepted /\ CheckersOfManagers /\ InOrder
  BY DEF Init, RunsAccepted, CheckersOfManagers, InOrder
<1> QED
  BY <1>2, <1>3 DEF IInv

\* What is derived from the configuration does not change.
LEMMA ConfigFixed ==
  ASSUME config' = config
  PROVE  /\ Servers' = Servers /\ NumServers' = NumServers /\ Accepted' = Accepted
         /\ \A i : CheckersOf(i)' = CheckersOf(i)
         /\ \A i : Addr(i)' = Addr(i)
BY DEF Servers, NumServers, Parsed, Accepted, Valid, RoutesResolve, DistinctServers,
       DistinctUpstreams, Sections, CheckersOf, Upstream, Addr

\* At its end main leaves nothing behind.
LEMMA ExitStep == IInv /\ Exit => IInv'
<1> SUFFICES ASSUME IInv, Exit PROVE IInv'
  OBVIOUS
<1>1. config' = config /\ NumServers \in Nat
  BY NumServersType DEF IInv, TypeOK, Exit
<1>2. /\ Servers' = Servers /\ NumServers' = NumServers
      /\ UNCHANGED <<taken, next>>
  BY <1>1, ConfigFixed DEF Exit
<1>3. \A i \in Servers : server'[i] = "none" /\ manager'[i] = "none"
  BY DEF Exit
<1>4. TypeOK'
  BY <1>1, <1>2, <1>3 DEF IInv, TypeOK, Exit
<1>5. RunsAccepted' /\ CheckersOfManagers' /\ InOrder'
  BY <1>2, <1>3 DEF Exit, RunsAccepted, CheckersOfManagers, InOrder
<1> QED
  BY <1>4, <1>5 DEF IInv

\* What main does short of its end.
LEMMA MainStepKeeps ==
  IInv /\ (LoadConfig \/ SpawnServer \/ BeginJoin \/ JoinServer) => IInv'
<1> SUFFICES ASSUME IInv, LoadConfig \/ SpawnServer \/ BeginJoin \/ JoinServer
             PROVE  IInv'
  OBVIOUS
<1>1. /\ config' = config /\ NumServers \in Nat
      /\ UNCHANGED <<taken, manager, checkers, stage, peer, backlog>>
  BY NumServersType
  DEF IInv, TypeOK, LoadConfig, SpawnServer, BeginJoin, JoinServer, tasks, conns
<1>2. /\ Servers' = Servers /\ NumServers' = NumServers /\ Accepted' = Accepted
      /\ \A i : CheckersOf(i)' = CheckersOf(i)
      /\ \A i : Addr(i)' = Addr(i)
  BY <1>1, ConfigFixed
<1>3. /\ phase' \in {"spawning", "joining"} /\ next' \in 1..(NumServers + 1)
      /\ Accepted
  BY <1>1 DEF IInv, TypeOK, RunsAccepted, LoadConfig, SpawnServer, BeginJoin, JoinServer
<1>4. /\ server' \in [Servers -> {"none", "spawned", "binding", "listening", "failed"}]
      /\ \A i \in Servers : server'[i] = "listening" => server[i] = "listening"
  BY <1>1 DEF IInv, TypeOK, LoadConfig, SpawnServer, BeginJoin, JoinServer, tasks
<1>5. TypeOK'
  BY <1>1, <1>2, <1>3, <1>4 DEF IInv, TypeOK
<1>6. RunsAccepted' /\ CheckersOfManagers'
  BY <1>1, <1>2, <1>3 DEF IInv, RunsAccepted, CheckersOfManagers
<1>7. InOrder'
  <2>1. CASE SpawnServer
    <3>1. /\ phase' = "spawning" /\ next' = next + 1 /\ next \in Servers /\ next \in Nat
          /\ server' = [server EXCEPT ![next] = "spawned"]
      BY <1>1, <2>1 DEF IInv, TypeOK, SpawnServer, Servers
    <3>2. \A i \in Servers : i >= next => server[i] = "none"
      BY <2>1 DEF IInv, InOrder, SpawnServer
    <3>3. manager[next] = "none"
      BY <1>1, <3>1, <3>2 DEF IInv, InOrder, Servers
    <3>4. \A i \in Servers : i >= next' => server'[i] = "none"
      BY <1>1, <3>1, <3>2 DEF IInv, TypeOK, Servers
    <3>5. \A i \in Servers : server'[i] \in {"none", "spawned"} => manager[i] = "none"
      BY <3>1, <3>3 DEF IInv, TypeOK, InOrder
    <3> QED
      BY <1>1, <1>2, <3>4, <3>5 DEF InOrder
  <2>2. CASE LoadConfig \/ BeginJoin \/ JoinServer
    <3>1. server' = server /\ phase' = "spawning" => phase = "loading" /\ next' = next
      BY <2>2 DEF LoadConfig, BeginJoin, JoinServer
    <3>2. server' = server /\ phase' # "loading"
      BY <2>2 DEF LoadConfig, BeginJoin, JoinServer, tasks
    <3> QED
      BY <1>1, <1>2, <3>1, <3>2 DEF IInv, InOrder
  <2> QED
    BY <2>1, <2>2
<1> QED
  BY <1>5, <1>6, <1>7 DEF IInv

\* What the tasks of the servers do.
LEMMA ServerStepKeeps ==
  ASSUME IInv, NEW i \in Servers, ServerStep(i) \/ StartAll(i)
  PROVE  IInv'
<1>1. config' = config /\ UNCHANGED <<taken, phase, next, stage, peer, backlog>>
  BY DEF ServerStep, StartServer, Bind, StartAll, conns
<1>2. /\ Servers' = Servers /\ NumServers' = NumServers /\ Accepted' = Accepted
      /\ \A k : CheckersOf(k)' = CheckersOf(k)
      /\ \A k : Addr(k)' = Addr(k)
  BY <1>1, ConfigFixed
<1>3. Accepted
  BY DEF IInv, RunsAccepted, ServerStep, StartServer, Bind, StartAll
<1>4. /\ server' \in [Servers -> {"none", "spawned", "binding", "listening", "failed"}]
      /\ manager' \in [Servers -> {"none", "spawned", "running"}]
  BY DEF IInv, TypeOK, ServerStep, StartServer, Bind, StartAll
<1>5. checkers' \subseteq UNION {CheckersOf(k) : k \in Servers}
  BY DEF IInv, TypeOK, ServerStep, StartServer, Bind, StartAll
<1>6. ASSUME NEW j \in Servers, NEW k \in Servers, j # k,
             server'[j] = "listening", server'[k] = "listening"
      PROVE  Addr(j) # Addr(k)
  <2>1. CASE StartServer(i) \/ StartAll(i)
    BY <1>6, <2>1 DEF IInv, TypeOK, StartServer, StartAll
  <2>2. CASE Bind(i)
    BY <1>6, <2>2 DEF IInv, TypeOK, Bind, Free
  <2> QED
    BY <2>1, <2>2 DEF ServerStep
<1>7. TypeOK'
  BY <1>1, <1>2, <1>4, <1>5, <1>6 DEF IInv, TypeOK
<1>8. CheckersOfManagers'
  <2>1. CASE ServerStep(i)
    <3>1. checkers' = checkers
      BY <2>1 DEF ServerStep, StartServer, Bind
    <3>2. \A j \in Servers : manager'[j] = "running" <=> manager[j] = "running"
      <4>1. CASE StartServer(i)
        BY <4>1 DEF IInv, TypeOK, InOrder, StartServer
      <4>2. CASE Bind(i)
        BY <4>2 DEF Bind
      <4> QED
        BY <2>1, <4>1, <4>2 DEF ServerStep
    <3> QED
      BY <1>2, <3>1, <3>2 DEF IInv, CheckersOfManagers
  <2>2. CASE StartAll(i)
    BY <1>2, <2>2 DEF IInv, TypeOK, CheckersOfManagers, StartAll
  <2> QED
    BY <2>1, <2>2
<1>9. RunsAccepted'
  BY <1>1, <1>2, <1>3 DEF IInv, RunsAccepted
<1>10. InOrder'
  BY <1>1, <1>2 DEF IInv, TypeOK, InOrder, ServerStep, StartServer, Bind, StartAll
<1> QED
  BY <1>7, <1>8, <1>9, <1>10 DEF IInv

ConnTypes == \* of the next state
  /\ stage' \in [Conns -> {"away", "pending", "handshake", "serving"}]
  /\ peer' \in [Conns -> 0..NumServers]
  /\ backlog' \in [Servers -> Seq(Conns)]

\* What the connections and the accept loops do leaves the tasks alone.
LEMMA ConnectionStepKeeps ==
  ASSUME IInv,
         \/ \E i \in Servers : AcceptLoop(i)
         \/ \E c \in Conns : \/ \E i \in Servers : Connect(c, i)
                            \/ Handshake(c) \/ Close(c)
  PROVE  IInv'
<1>1. config' = config /\ UNCHANGED <<taken, phase, next, server, manager, checkers>>
  BY DEF Connect, AcceptLoop, Accept, AcceptFails, GoesOn, Handshake, Close, tasks
<1>2. /\ Servers' = Servers /\ NumServers' = NumServers /\ Accepted' = Accepted
      /\ \A k : CheckersOf(k)' = CheckersOf(k)
      /\ \A k : Addr(k)' = Addr(k)
  BY <1>1, ConfigFixed
<1>3. NumServers \in Nat /\ 0 \in 0..NumServers
  BY NumServersType DEF IInv, TypeOK
<1>4. ConnTypes
  <2>1. /\ stage \in [Conns -> {"away", "pending", "handshake", "serving"}]
        /\ peer \in [Conns -> 0..NumServers]
        /\ backlog \in [Servers -> Seq(Conns)]
    BY DEF IInv, TypeOK
  <2>2. ASSUME NEW c \in Conns, NEW i \in Servers, Connect(c, i)
        PROVE  ConnTypes
    <3>1. i \in 0..NumServers
      BY <1>3 DEF Servers
    <3>2. Append(backlog[i], c) \in Seq(Conns)
      BY <2>1, AppendProperties
    <3> QED
      BY <2>1, <2>2, <3>1, <3>2 DEF Connect, ConnTypes
  <2>3. ASSUME NEW i \in Servers, AcceptLoop(i)
        PROVE  ConnTypes
    <3>1. backlog[i] # <<>> /\ backlog[i] \in Seq(Conns)
      BY <2>1, <2>3 DEF AcceptLoop, Accept, AcceptFails
    <3>2. Head(backlog[i]) \in Conns /\ Tail(backlog[i]) \in Seq(Conns)
      BY <3>1, HeadTailProperties
    <3> QED
      BY <1>3, <2>1, <2>3, <3>2 DEF AcceptLoop, Accept, AcceptFails, conns, ConnTypes
  <2>4. ASSUME NEW c \in Conns, Handshake(c) \/ Close(c)
        PROVE  ConnTypes
    BY <1>3, <2>1, <2>4 DEF Handshake, Close, ConnTypes
  <2> QED
    BY <2>2, <2>3, <2>4
<1>5. TypeOK'
  BY <1>1, <1>2, <1>4 DEF IInv, TypeOK, ConnTypes
<1>6. RunsAccepted' /\ CheckersOfManagers' /\ InOrder'
  BY <1>1, <1>2 DEF IInv, RunsAccepted, CheckersOfManagers, InOrder
<1> QED
  BY <1>5, <1>6 DEF IInv

\* Every action keeps the inductive invariant.
LEMMA IInvStep == IInv /\ [Next]_vars => IInv'
<1> SUFFICES ASSUME IInv, [Next]_vars PROVE IInv'
  OBVIOUS
<1>1. CASE MainStep
  BY <1>1, ExitStep, MainStepKeeps DEF MainStep, RefuseConfig, NoServers, FinishJoin
<1>2. CASE \E i \in Servers : ServerStep(i) \/ StartAll(i)
  BY <1>2, ServerStepKeeps
<1>3. CASE \/ \E i \in Servers : AcceptLoop(i)
           \/ \E c \in Conns : \/ \E i \in Servers : Connect(c, i)
                              \/ Handshake(c) \/ Close(c)
  BY <1>3, ConnectionStepKeeps
<1>4. CASE UNCHANGED vars
  <2>1. config' = config /\ UNCHANGED <<taken, phase, next, server, manager, checkers, stage, peer, backlog>>
    BY <1>4 DEF vars, tasks, conns
  <2>2. /\ Servers' = Servers /\ NumServers' = NumServers /\ Accepted' = Accepted
        /\ \A k : CheckersOf(k)' = CheckersOf(k)
        /\ \A k : Addr(k)' = Addr(k)
    BY <2>1, ConfigFixed
  <2> QED
    BY <2>1, <2>2 DEF IInv, TypeOK, RunsAccepted, CheckersOfManagers, InOrder
<1> QED
  BY <1>1, <1>2, <1>3, <1>4 DEF Next

-----------------------------------------------------------------------------
(* Results *)

\* The types hold of every reachable state, and no two listeners of the process
\* have one address.
THEOREM TypeCorrect == Spec => []TypeOK
<1>1. IInv => TypeOK
  BY DEF IInv
<1> QED
  BY <1>1, IInvInit, IInvStep, PTL DEF Spec

\* With the checkers of all managers that ran, and distinct upstream ids, every
\* upstream has exactly its own.
LEMMA CheckersAreWriters == IInv => OneWriter
<1> SUFFICES ASSUME IInv, NEW i \in Servers, manager[i] = "running", NEW u \in Kept
             PROVE  {k \in checkers : k.server = i /\ k.upstream = u} = Writers(i, u)
  BY DEF OneWriter
<1>1. Parsed /\ DistinctUpstreams
  BY DEF IInv, RunsAccepted, Accepted, Valid
<1>2. u \in Sections
  BY <1>1, UpstreamOfSection DEF Kept
<1>3. ASSUME NEW k \in checkers, k.server = i, k.upstream = u
      PROVE  k \in Writers(i, u)
  <2>1. PICK j \in Servers : k \in CheckersOf(j)
    BY DEF IInv, CheckersOfManagers
  <2>2. PICK v \in Sections : /\ config.upstreams[v].checked
                              /\ config.upstreams[v].targets > 0
                              /\ k = [server |-> j, section |-> v, upstream |-> v]
    BY <1>1, <2>1, CheckerShape
  <2> QED
    BY <1>3, <2>2 DEF Writers
<1>4. ASSUME NEW k \in Writers(i, u)
      PROVE  k \in checkers /\ k.server = i /\ k.upstream = u
  <2>1. /\ config.upstreams[u].checked /\ config.upstreams[u].targets > 0
        /\ k = [server |-> i, section |-> u, upstream |-> u]
    BY <1>4 DEF Writers
  <2>2. k \in CheckersOf(i)
    BY <1>1, <1>2, <2>1, CheckerShape
  <2> QED
    BY <2>1, <2>2 DEF IInv, CheckersOfManagers
<1> QED
  BY <1>3, <1>4

\* Every upstream of a running server has one checker, by its own section, or
\* none when it has no such section or no targets (server.rs:55-72).
THEOREM OneWriterCorrect == Spec => []OneWriter
BY CheckersAreWriters, IInvInit, IInvStep, PTL DEF Spec

=============================================================================

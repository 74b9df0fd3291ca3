----------------------------- MODULE Lifecycle -----------------------------
(***************************************************************************)
(* From the configuration to running servers: Config::validate (config.rs),*)
(* main (main.rs), Server::new and Server::start (server.rs) and           *)
(* HealthCheckManager::start_all (health_check.rs).                        *)
(*                                                                         *)
(* Tasks of one process run at once: main, a task per server, a manager of *)
(* its checkers, a task per checker and per connection.  What a checker    *)
(* does is HealthCheck, what is served on a connection is Proxy.           *)
(***************************************************************************)
EXTENDS Naturals, Sequences, FiniteSets

CONSTANTS
  Configs,  \* what the configuration file may hold: None, or sequences
            \*   upstreams: [id, targets |-> how many, checked |-> health_check?]
            \*   servers: [id, addr, tls, routes |-> a set of upstream ids]
  Foreign,  \* addresses that another process may be bound to
  Conns,    \* connections that clients may open
  MaxOpen,  \* how many of them the process has descriptors for
  None      \* a file that does not parse; a server without a tls section

ASSUME ConfigsAssumption ==
  \A c \in Configs \ {None} :
    /\ Len(c.upstreams) \in Nat /\ Len(c.servers) \in Nat
    /\ \A j \in 1..Len(c.upstreams) :
         c.upstreams[j].targets \in Nat /\ c.upstreams[j].checked \in BOOLEAN
    /\ \A i \in 1..Len(c.servers) : c.servers[i].tls \in {None, "loads", "fails"}
ASSUME MaxOpenAssumption == MaxOpen \in Nat

VARIABLES
  config,   \* the Config that was read
  taken,    \* the addresses that other processes hold
  phase,    \* where main is
  next,     \* the server its loop is at
  server,   \* where the task of each server is
  manager,  \* its start_all
  checkers, \* the tasks that check targets
  stage,    \* where each connection is
  peer,     \* the server it was made to
  backlog   \* the connections the kernel has queued behind each listener

tasks == <<server, manager, checkers>>
conns == <<stage, peer, backlog>>
vars == <<config, taken, phase, next, tasks, conns>>

Parsed == config # None
NumServers == IF Parsed THEN Len(config.servers) ELSE 0
Servers == 1..NumServers
Sections == IF Parsed THEN 1..Len(config.upstreams) ELSE {}
Addr(i) == config.servers[i].addr

-----------------------------------------------------------------------------
(* What is made of the configuration *)

RoutesResolve ==
  \A i \in Servers : config.servers[i].routes \subseteq {config.upstreams[j].id : j \in Sections}

DistinctServers ==
  \A i, j \in Servers : config.servers[i].id = config.servers[j].id => i = j

AnyUpstreams == TRUE  \* mutant: upstream ids are not looked at
DistinctUpstreams ==
  \A i, j \in Sections : config.upstreams[i].id = config.upstreams[j].id => i = j

\* Config::validate.
Valid == RoutesResolve /\ DistinctServers /\ DistinctUpstreams

\* The upstreams of a router are collected into a HashMap: of sections of the
\* same id the last one stays.
Upstream(id) == CHOOSE j \in Sections :
  /\ config.upstreams[j].id = id
  /\ \A k \in Sections : config.upstreams[k].id = id => k <= j

Kept == {Upstream(config.upstreams[j].id) : j \in Sections}

HasManager == \E j \in Sections : config.upstreams[j].checked

\* The checkers of server i: each runs by the health_check of a section, over
\* the targets of the upstream that the router has under the section's id.
CheckersOf(i) ==
  {[server |-> i, section |-> j, upstream |-> Upstream(config.upstreams[j].id)] :
     j \in {j \in Sections :
              /\ config.upstreams[j].checked
              /\ config.upstreams[Upstream(config.upstreams[j].id)].targets > 0}}

\* load_tls_config gave the server an acceptor; without one it talks plain HTTP.
HasAcceptor(i) == config.servers[i].tls = "loads"

-----------------------------------------------------------------------------
(* main *)

Init ==
  /\ config \in Configs
  /\ taken \in SUBSET Foreign
  /\ phase = "loading"
  /\ next = 1
  /\ server = [i \in Servers |-> "none"]
  /\ manager = [i \in Servers |-> "none"]
  /\ checkers = {}
  /\ stage = [c \in Conns |-> "away"]
  /\ peer = [c \in Conns |-> 0]
  /\ backlog = [i \in Servers |-> <<>>]

\* main returns: the runtime is dropped, and all of its tasks with it.
Exit ==
  /\ phase' = "exited"
  /\ server' = [i \in Servers |-> "none"]
  /\ manager' = [i \in Servers |-> "none"]
  /\ checkers' = {}
  /\ stage' = [c \in Conns |-> "away"]
  /\ peer' = [c \in Conns |-> 0]
  /\ backlog' = [i \in Servers |-> <<>>]
  /\ UNCHANGED <<config, taken, next>>

Accepted == Parsed /\ Valid

LoadConfig ==
  /\ phase = "loading"
  /\ Accepted
  /\ phase' = "spawning"
  /\ UNCHANGED <<config, taken, next, tasks, conns>>

RefuseConfig == phase = "loading" /\ ~Accepted /\ Exit

\* Server::new, and a task for its start.
SpawnServer ==
  /\ phase = "spawning"
  /\ next <= NumServers
  /\ server' = [server EXCEPT ![next] = "spawned"]
  /\ next' = next + 1
  /\ UNCHANGED <<config, taken, phase, manager, checkers, conns>>

NoServers == phase = "spawning" /\ NumServers = 0 /\ Exit

BeginJoin ==
  /\ phase = "spawning"
  /\ next > NumServers /\ NumServers > 0
  /\ phase' = "joining"
  /\ next' = 1
  /\ UNCHANGED <<config, taken, tasks, conns>>

\* `let _ = task.await`: start returns only when it fails.
JoinServer ==
  /\ phase = "joining"
  /\ next <= NumServers
  /\ server[next] = "failed"
  /\ next' = next + 1
  /\ UNCHANGED <<config, taken, phase, tasks, conns>>

\* Mutants: the first failure ends main; main also waits for the checkers.
AnyJoined == \E i \in Servers : server[i] = "failed"
AllAndCheckersJoined == next > NumServers /\ checkers = {}
AllJoined == next > NumServers

FinishJoin == phase = "joining" /\ AllJoined /\ Exit

MainStep ==
  \/ LoadConfig \/ RefuseConfig \/ SpawnServer \/ NoServers
  \/ BeginJoin \/ JoinServer \/ FinishJoin

-----------------------------------------------------------------------------
(* Server::start *)

\* The health checks are started first, then the address is bound.
StartServer(i) ==
  /\ server[i] = "spawned"
  /\ manager' = [manager EXCEPT ![i] = IF HasManager THEN "spawned" ELSE "none"]
  /\ server' = [server EXCEPT ![i] = "binding"]
  /\ UNCHANGED <<config, taken, phase, next, checkers, conns>>

StartAll(i) ==
  /\ manager[i] = "spawned"
  /\ manager' = [manager EXCEPT ![i] = "running"]
  /\ checkers' = checkers \cup CheckersOf(i)
  /\ UNCHANGED <<config, taken, phase, next, server, conns>>

FreeOfOthers(a) == a \notin taken  \* mutant: own listeners are not in the way
Free(a) == /\ a \notin taken
           /\ \A j \in Servers : server[j] = "listening" => Addr(j) # a

Bind(i) ==
  /\ server[i] = "binding"
  /\ server' = [server EXCEPT ![i] = IF Free(Addr(i)) THEN "listening" ELSE "failed"]
  /\ UNCHANGED <<config, taken, phase, next, manager, checkers, conns>>

\* A client connects: the kernel queues it behind the listener.
Connect(c, i) ==
  /\ stage[c] = "away"
  /\ server[i] = "listening"
  /\ stage' = [stage EXCEPT ![c] = "pending"]
  /\ peer' = [peer EXCEPT ![c] = i]
  /\ backlog' = [backlog EXCEPT ![i] = Append(@, c)]
  /\ UNCHANGED <<config, taken, phase, next, tasks>>

\* Mutant: the handshake is part of the accept loop.
AtAcceptAlone(i) ==
  server[i] = "listening" /\ \A d \in Conns : ~(stage[d] = "handshake" /\ peer[d] = i)
\* The loop comes back to accept whatever the connections do.
AtAccept(i) == server[i] = "listening"

\* Every connection that was accepted holds a descriptor.
Exhausted == Cardinality({c \in Conns : stage[c] \in {"handshake", "serving"}}) >= MaxOpen

\* The connection gets a task, which begins with the handshake, if any.
Accept(i) ==
  /\ AtAccept(i)
  /\ backlog[i] # <<>> /\ ~Exhausted
  /\ stage' = [stage EXCEPT ![Head(backlog[i])] = IF HasAcceptor(i) THEN "handshake" ELSE "serving"]
  /\ backlog' = [backlog EXCEPT ![i] = Tail(@)]
  /\ UNCHANGED <<config, taken, phase, next, tasks, peer>>

\* Mutant: the error is returned, as that of bind is.
EndsOnError(i) == [server EXCEPT ![i] = "failed"]
\* An error of accept is logged, and the loop goes on.
GoesOn(i) == server

\* accept has no descriptor for the connection, which stays where it is; or it
\* reports that the client has broken it off.
AcceptFails(i) ==
  /\ AtAccept(i)
  /\ backlog[i] # <<>>
  /\ server' = GoesOn(i)
  /\ \/ Exhausted /\ UNCHANGED conns
     \/ /\ ~Exhausted
        /\ stage' = [stage EXCEPT ![Head(backlog[i])] = "away"]
        /\ peer' = [peer EXCEPT ![Head(backlog[i])] = 0]
        /\ backlog' = [backlog EXCEPT ![i] = Tail(@)]
  /\ UNCHANGED <<config, taken, phase, next, manager, checkers>>

AcceptLoop(i) == Accept(i) \/ AcceptFails(i)

\* Nothing limits how long a client takes for the handshake.
Handshake(c) ==
  /\ stage[c] = "handshake"
  /\ stage' = [stage EXCEPT ![c] = "serving"]
  /\ UNCHANGED <<config, taken, phase, next, tasks, peer, backlog>>

\* The handshake fails, or the connection is over.
Close(c) ==
  /\ stage[c] \in {"handshake", "serving"}
  /\ stage' = [stage EXCEPT ![c] = "away"]
  /\ peer' = [peer EXCEPT ![c] = 0]
  /\ UNCHANGED <<config, taken, phase, next, tasks, backlog>>

ServerStep(i) == StartServer(i) \/ Bind(i)

Next ==
  \/ MainStep
  \/ \E i \in Servers : ServerStep(i) \/ StartAll(i) \/ AcceptLoop(i)
  \/ \E c \in Conns :
       \/ \E i \in Servers : Connect(c, i)
       \/ Handshake(c) \/ Close(c)

Spec == Init /\ [][Next]_vars

AnyServers == UNION {1..Len(c.servers) : c \in Configs \ {None}}

\* Ready tasks are polled, the accept loop of each server being one.  Clients
\* need not do anything, nor go away.
FairSpec ==
  /\ Spec
  /\ WF_vars(MainStep)
  /\ WF_vars(\E i \in Servers : ServerStep(i))
  /\ WF_vars(\E i \in Servers : StartAll(i))
  /\ \A i \in AnyServers : WF_vars(i \in Servers /\ AcceptLoop(i))

-----------------------------------------------------------------------------
(* Properties *)

\* Types of the state; no two of the process's listeners have one address.
TypeOK ==
  /\ config \in Configs
  /\ taken \subseteq Foreign
  /\ phase \in {"loading", "spawning", "joining", "exited"}
  /\ next \in 1..(NumServers + 1)
  /\ server \in [Servers -> {"none", "spawned", "binding", "listening", "failed"}]
  /\ manager \in [Servers -> {"none", "spawned", "running"}]
  /\ checkers \subseteq UNION {CheckersOf(i) : i \in Servers}
  /\ stage \in [Conns -> {"away", "pending", "handshake", "serving"}]
  /\ peer \in [Conns -> 0..NumServers]
  /\ backlog \in [Servers -> Seq(Conns)]
  /\ \A i, j \in Servers :
       i # j /\ server[i] = "listening" /\ server[j] = "listening" => Addr(i) # Addr(j)

\* The checkers that an upstream's flags are meant to have.
Writers(i, u) ==
  IF config.upstreams[u].checked /\ config.upstreams[u].targets > 0
  THEN {[server |-> i, section |-> u, upstream |-> u]}
  ELSE {}

\* Every upstream of a running server is watched as its own section says, and by
\* nobody else: the flags that requests read have one writer, although every
\* server starts checkers of its own and the router keeps one upstream for each
\* id (server.rs:55-72, router.rs:25-32).  Upstream and HealthCheck rely on it.
OneWriter ==
  \A i \in Servers : manager[i] = "running" =>
    \A u \in Kept : {k \in checkers : k.server = i /\ k.upstream = u} = Writers(i, u)

\* An address that some server of an accepted configuration wants and no other
\* process holds is served in the end and from then on: the failure of another
\* server, or of a second one for the same address, does not end the process
\* (main.rs:28-47, server.rs:131).
Addresses == UNION {{c.servers[i].addr : i \in 1..Len(c.servers)} : c \in Configs \ {None}}
Serving(a) == \E i \in Servers : server[i] = "listening" /\ Addr(i) = a

AddressServed ==
  \A a \in Addresses :
    Accepted /\ a \notin taken /\ (\E i \in Servers : Addr(i) = a) => <>[]Serving(a)

\* A process with nothing to serve ends, although the checkers that were started
\* before the failed binds still run (main.rs:38-47, server.rs:124-131).
IdleProcessExits == (\A i \in Servers : Addr(i) \in taken) => <>(phase = "exited")

\* A connection leaves the queue in the end, even if the clients before it never
\* finish their handshakes and accept fails again and again, unless those clients
\* hold all descriptors: a handshake has no timeout (server.rs:138-195).
PendingAccepted ==
  \A c \in Conns : stage[c] = "pending" ~> stage[c] # "pending" \/ Exhausted

=============================================================================

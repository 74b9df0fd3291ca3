----------------------------- MODULE ProxyProofs -----------------------------
(***************************************************************************)
(* Proofs about Proxy, for any routes, requests, connections and put tasks *)
(* and any cache.  What is proved of ResponseCache in CacheProofs holds of *)
(* the cache inside the proxy, whose every step is a step of it: Cached!T  *)
(* is theorem T about that cache.                                          *)
(***************************************************************************)
EXTENDS Proxy, FiniteSetTheorems, SequenceTheorems, WellFoundedInduction, TLAPS

CacheKeys == {KeyOf(q) : q \in Queries}

Cached == INSTANCE CacheProofs WITH
  Keys <- {KeyOf(q) : q \in Queries},
  Responses <- Answers,
  Requests <- {q.lines : q \in Queries}

-----------------------------------------------------------------------------
(* The cache of the proxy *)

\* The proxy meets what ResponseCache assumes of its constants.
LEMMA CacheAssumed ==
  /\ None \notin Int
  /\ \A r \in Answers : Cached!ResponseType(r)
  /\ {q.lines : q \in Queries} \subseteq Cached!HeaderLines
  /\ MaxSizes \subseteq Nat /\ IsFiniteSet({KeyOf(q) : q \in Queries})
  /\ DefaultTtl \in Nat /\ MaxTime \in Nat /\ MaxInstant \in Nat
<1>1. Cache!HeaderLines = Cached!HeaderLines
  BY DEF Cache!HeaderLines, Cached!HeaderLines, Cache!AnyDirective,
     Cached!AnyDirective, Cache!Names, Cached!Names
<1>2. ASSUME NEW r \in Answers
      PROVE  Cached!ResponseType(r)
  <2>1. PICK q \in Queries, url \in Urls, by \in Targets \cup {Elsewhere}, lines \in Controls :
          r = Response(q, url, by, lines)
    BY DEF Answers
  <2>2. lines \in Cached!HeaderLines
    BY <1>1, ControlsAssumption
  <2> QED
    BY <2>1, <2>2 DEF Response, Cached!ResponseType
<1>3. IsFiniteSet({KeyOf(q) : q \in Queries})
  <2> DEFINE f == [q \in Queries |-> KeyOf(q)]
  <2>1. f \in Surjection(Queries, {KeyOf(q) : q \in Queries})
    BY DEF Surjection
  <2> QED
    BY <2>1, QueriesAssumption, FS_Surjection
<1> QED
  BY <1>1, <1>2, <1>3, QueriesAssumption, CacheAssumption

\* Cache and Cached are two instances of one module.
LEMMA SameInit == Cache!Init <=> Cached!Init
BY Zenon DEF Cache!Init, Cached!Init

\* The two instances get alike.
LEMMA SameGet ==
  ASSUME NEW k, NEW q
  PROVE  Cache!Get(k, q) <=> Cached!Get(k, q)
BY Zenon DEF Cache!Get, Cached!Get, Cache!Hit, Cached!Hit,
   Cache!Cached, Cached!Cached, Cache!Unexpired, Cached!Unexpired,
   Cache!Acceptable, Cached!Acceptable, Cache!FromHeaders, Cached!FromHeaders,
   Cache!MaxAgeOf, Cached!MaxAgeOf, Cache!ReadLine, Cached!ReadLine,
   Cache!Says, Cached!Says, Cache!Ages, Cached!Ages

\* The two instances prepare a put alike.
LEMMA SamePrepare ==
  ASSUME NEW p, NEW k, NEW r
  PROVE  Cache!Prepare(p, k, r) <=> Cached!Prepare(p, k, r)
BY Zenon DEF Cache!Prepare, Cached!Prepare, Cache!IsCacheable, Cached!IsCacheable,
   Cache!FitsInstant, Cached!FitsInstant, Cache!NewEntry, Cached!NewEntry,
   Cache!Ttl, Cached!Ttl, Cache!FromHeaders, Cached!FromHeaders,
   Cache!MaxAgeOf, Cached!MaxAgeOf, Cache!ReadLine, Cached!ReadLine,
   Cache!Says, Cached!Says, Cache!Ages, Cached!Ages

\* The two instances commit a put alike.
LEMMA SameCommit ==
  ASSUME NEW p
  PROVE  Cache!Commit(p) <=> Cached!Commit(p)
BY Zenon DEF Cache!Commit, Cached!Commit, Cache!Full, Cached!Full,
   Cache!Oldest, Cached!Oldest, Cache!Cached, Cached!Cached,
   Cache!Insert, Cached!Insert, Cache!Without, Cached!Without,
   Cache!Cardinality, Cached!Cardinality

\* The two instances have one clock.
LEMMA SameTick == Cache!Tick <=> Cached!Tick
BY Zenon DEF Cache!Tick, Cached!Tick

\* What CacheProofs says of a step, and of the initial states.
LEMMA CachedInit == Cache!Init => Cached!TypeInv
BY SameInit, CacheAssumed, Cached!TypeInit, Zenon
   DEF IsFiniteSet, Cached!IsFiniteSet

\* The types of the cache are kept by its steps.
LEMMA CachedStep == Cached!TypeInv /\ [Cached!Next]_(Cached!vars) => Cached!TypeInv'
BY CacheAssumed, Cached!TypeStep, Zenon DEF IsFiniteSet, Cached!IsFiniteSet

-----------------------------------------------------------------------------
(* Types *)

States == {"idle", "lookup", "walk", "select", "body", "sent", "replied"}
Job == [key : CacheKeys, response : Answers]

Types ==
  /\ healthy \in [Targets -> BOOLEAN]
  /\ pc \in [Tasks -> States]
  /\ req \in [Tasks -> Queries \cup {NoRequest}]
  /\ route \in [Tasks -> 1..(Len(Routes) + 1)]
  /\ target \in [Tasks -> Targets \cup {NoTarget}]
  /\ reply \in [Tasks -> Answers \cup {NotFound, BadGateway, NoReply}]
  /\ jobs \in [Putters -> Job \cup {NoJob}]
  /\ up \in [Tasks -> SUBSET Targets]
  /\ down \in [Tasks -> SUBSET Targets]
  /\ downDuring \in [Tasks -> SUBSET Targets]

\* A task at work has a request, one that asks its upstream has a route that
\* matches it, and one that forwards has a target of that route.
OnRoute ==
  \A c \in Tasks :
    /\ pc[c] \notin {"idle", "replied"} => req[c] \in Queries
    /\ pc[c] \in {"select", "body", "sent"} =>
         /\ route[c] \in 1..Len(Routes)
         /\ Matches(CurrentRoute(c), req[c].host, req[c].path)
    /\ pc[c] \in {"body", "sent"} => target[c] \in UpstreamTargets(route[c])

TypeInv == Types /\ OnRoute /\ Cached!TypeInv

\* The targets of a route are targets.
LEMMA RouteTargets ==
  ASSUME NEW i \in 1..Len(Routes)
  PROVE  UpstreamTargets(i) \subseteq Targets
BY RoutesAssumption DEF UpstreamTargets, Targets

\* The types hold initially.
LEMMA TypeInit == Init => TypeInv
<1> SUFFICES ASSUME Init PROVE TypeInv
  OBVIOUS
<1>1. Cached!TypeInv
  BY CachedInit DEF Init
<1>2. Types
  BY RoutesAssumption DEF Init, Select!Init, Types, States, NoTarget, NoRequest, NoReply, NoJob
<1>3. OnRoute
  BY DEF Init, OnRoute
<1> QED
  BY <1>1, <1>2, <1>3 DEF TypeInv

\* Every step of the proxy is a step of its cache, or none.
LEMMA CacheStep ==
  ASSUME TypeInv, [Next]_vars
  PROVE  [Cached!Next]_(Cached!vars)
<1>1. ASSUME NEW c \in Tasks, Lookup(c)
      PROVE  Cached!Next
  <2>1. req[c] \in Queries
    BY <1>1 DEF TypeInv, OnRoute, Lookup
  <2>2. Cached!Get(KeyOf(req[c]), req[c].lines)
    BY <1>1, SameGet DEF Lookup
  <2> QED
    BY <2>1, <2>2 DEF Cached!Next
<1>2. ASSUME NEW p \in Putters, StartPut(p)
      PROVE  Cached!Next
  <2>1. jobs[p].key \in CacheKeys /\ jobs[p].response \in Answers
    BY <1>2 DEF TypeInv, Types, StartPut, Job
  <2>2. Cached!Prepare(p, jobs[p].key, jobs[p].response)
    BY <1>2, SamePrepare DEF StartPut
  <2> QED
    BY <2>1, <2>2 DEF Cached!Next, CacheKeys
<1>3. ASSUME NEW p \in Putters, FinishPut(p)
      PROVE  Cached!Next
  BY <1>3, SameCommit DEF FinishPut, Cached!Next
<1>4. CASE Tick
  BY <1>4, SameTick DEF Tick, Cached!Next
<1>5. ASSUME NEW c \in Tasks,
             \/ \E q \in Queries : Arrive(c, q)
             \/ SkipRoute(c) \/ TakeRoute(c) \/ Selected(c) \/ NoneSelected(c)
             \/ NoRoute(c) \/ Answered(c) \/ Failed(c)
             \/ BodyReceived(c) \/ BodyFailed(c) \/ Done(c) \/ Disconnect(c)
      PROVE  UNCHANGED Cached!vars
  BY <1>5 DEF Arrive, SkipRoute, TakeRoute, Selected, NoneSelected, NoRoute,
     Answered, Failed, BodyReceived, BodyFailed, Done, Disconnect, Clear,
     cached, Cached!vars
<1>6. ASSUME NEW p \in Putters, DropPut(p)
      PROVE  UNCHANGED Cached!vars
  BY <1>6 DEF DropPut, cached, Cached!vars
<1>7. ASSUME NEW t \in Flapping, SetHealthy(t)
      PROVE  UNCHANGED Cached!vars
  BY <1>7 DEF SetHealthy, cached, Cached!vars
<1>8. CASE UNCHANGED vars
  BY <1>8 DEF vars, cached, Cached!vars
<1> QED
  BY <1>1, <1>2, <1>3, <1>4, <1>5, <1>6, <1>7, <1>8 DEF Next, Step, PutStep

\* A request comes in, or the task is done with its request.
LEMMA EndsTypes ==
  ASSUME Types, OnRoute, NEW c \in Tasks,
         (\E q \in Queries : Arrive(c, q)) \/ Done(c) \/ Disconnect(c)
  PROVE  Types' /\ OnRoute'
<1>a. 1 \in 1..(Len(Routes) + 1)
  BY RoutesAssumption
<1>1. CASE \E q \in Queries : Arrive(c, q)
  <2>1. PICK q \in Queries : Arrive(c, q)
    BY <1>1
  <2>2. Types'
    BY <1>a, <2>1 DEF Arrive, Types, States, NoTarget, NoReply, Down, Select!Up, cached
  <2>3. OnRoute'
    BY <2>1 DEF Arrive, Types, OnRoute, CurrentRoute
  <2> QED
    BY <2>2, <2>3
<1>2. CASE Clear(c)
  <2>1. Types'
    BY <1>a, <1>2 DEF Clear, Types, States, NoTarget, NoReply, NoRequest
  <2>2. OnRoute'
    BY <1>2 DEF Clear, Types, OnRoute, CurrentRoute
  <2> QED
    BY <2>1, <2>2
<1> QED
  BY <1>1, <1>2 DEF Done, Disconnect

\* A hit is a target's answer.
LEMMA LookupTypes ==
  ASSUME Types, OnRoute, Cached!TypeInv', NEW c \in Tasks, Lookup(c)
  PROVE  Types' /\ OnRoute'
<1>1. reply' \in [Tasks -> Answers \cup {NotFound, BadGateway, NoReply}]
  <2>1. answer' # NoAnswer => answer'.response \in Answers
    BY DEF Cached!TypeInv, Cached!TypeOK, Cached!Entry
  <2> QED
    BY <2>1 DEF Lookup, Types
<1>2. pc' \in [Tasks -> States]
  BY DEF Lookup, Types, States
<1>3. UNCHANGED <<healthy, req, route, target, jobs, up, down, downDuring>>
  BY DEF Lookup, routing
<1>4. \A d \in Tasks : pc'[d] = pc[d] \/ (d = c /\ pc'[d] \in {"walk", "replied"} /\ pc[d] = "lookup")
  BY DEF Lookup, Types
<1> QED
  BY <1>1, <1>2, <1>3, <1>4 DEF Types, OnRoute, CurrentRoute

\* The walk along the routes.
LEMMA WalkTypes ==
  ASSUME Types, OnRoute, NEW c \in Tasks, SkipRoute(c) \/ TakeRoute(c)
  PROVE  Types' /\ OnRoute'
<1>a. Len(Routes) \in Nat /\ route[c] \in 1..(Len(Routes) + 1)
  BY RoutesAssumption DEF Types
<1>1. CASE SkipRoute(c)
  <2>1. route' \in [Tasks -> 1..(Len(Routes) + 1)]
    BY <1>a, <1>1 DEF SkipRoute, NextRoute, Types
  <2>2. \A d \in Tasks : route'[d] = route[d] \/ (d = c /\ pc[d] = "walk")
    BY <1>1 DEF SkipRoute, Types
  <2>3. UNCHANGED <<healthy, pc, req, target, reply, jobs, up, down, downDuring>>
    BY <1>1 DEF SkipRoute, routing
  <2> QED
    BY <2>1, <2>2, <2>3 DEF Types, OnRoute, CurrentRoute
<1>2. CASE TakeRoute(c)
  <2>1. route[c] \in 1..Len(Routes) /\ req[c] \in Queries
    BY <1>a, <1>2 DEF TakeRoute, OnRoute
  <2>2. Types'
    BY <1>2 DEF TakeRoute, Select!Ask, Select!Up, Types, States, NoTarget
  <2>3. \A d \in Tasks : d # c => pc'[d] = pc[d] /\ target'[d] = target[d]
    BY <1>2 DEF TakeRoute, Select!Ask, Types
  <2>4. pc'[c] = "select" /\ req' = req /\ route' = route
    BY <1>2 DEF TakeRoute, Types
  <2>5. OnRoute'
    BY <1>2, <2>1, <2>3, <2>4 DEF TakeRoute, OnRoute, CurrentRoute
  <2> QED
    BY <2>2, <2>5
<1> QED
  BY <1>1, <1>2

\* The answer of select_target.
LEMMA SelectTypes ==
  ASSUME Types, OnRoute, NEW c \in Tasks, Selected(c) \/ NoneSelected(c)
  PROVE  Types' /\ OnRoute'
<1>a. /\ Len(Routes) \in Nat /\ route[c] \in 1..Len(Routes) /\ req[c] \in Queries
      /\ Matches(CurrentRoute(c), req[c].host, req[c].path)
  BY RoutesAssumption DEF Selected, NoneSelected, OnRoute
<1>1. CASE Selected(c)
  <2>1. PICK t \in UpstreamTargets(route[c]) : Select!Give(c, t)
    BY <1>1 DEF Selected
  <2>2. t \in Targets
    BY <1>a, RouteTargets
  <2>3. Types'
    BY <1>1, <2>1, <2>2 DEF Selected, Select!Give, Select!Return, Types, States
  <2>4. \A d \in Tasks : d # c => pc'[d] = pc[d] /\ target'[d] = target[d]
    BY <1>1, <2>1 DEF Selected, Select!Give, Select!Return, Types
  <2>5. pc'[c] = "body" /\ target'[c] = t /\ req' = req /\ route' = route
    BY <1>1, <2>1 DEF Selected, Select!Give, Select!Return, Types
  <2>6. OnRoute'
    BY <1>a, <2>1, <2>4, <2>5 DEF OnRoute, CurrentRoute
  <2> QED
    BY <2>3, <2>6
<1>2. CASE NoneSelected(c)
  <2>1. route' \in [Tasks -> 1..(Len(Routes) + 1)]
    BY <1>a, <1>2 DEF NoneSelected, NextRoute, Types
  <2>2. Types'
    BY <1>2, <2>1 DEF NoneSelected, Select!GiveNone, Select!Return, Types, States, NoTarget
  <2>3. \A d \in Tasks : d # c => /\ pc'[d] = pc[d] /\ target'[d] = target[d]
                                  /\ route'[d] = route[d]
    BY <1>2 DEF NoneSelected, Select!GiveNone, Select!Return, Types
  <2>4. pc'[c] = "walk" /\ req' = req
    BY <1>2 DEF NoneSelected, Types
  <2>5. OnRoute'
    BY <1>a, <2>3, <2>4 DEF OnRoute, CurrentRoute
  <2> QED
    BY <2>2, <2>5
<1> QED
  BY <1>1, <1>2

\* A reply, or the wait for the client's body.
LEMMA ReplyTypes ==
  ASSUME Types, OnRoute, NEW c \in Tasks,
         \/ NoRoute(c) \/ BodyReceived(c) \/ BodyFailed(c)
         \/ Answered(c) \/ Failed(c)
  PROVE  Types' /\ OnRoute'
<1>1. CASE BodyReceived(c)
  <2>1. Types'
    BY <1>1 DEF BodyReceived, Types, States, routing
  <2>2. \A d \in Tasks : d # c => pc'[d] = pc[d]
    BY <1>1 DEF BodyReceived, Types
  <2>3. pc[c] = "body" /\ pc'[c] = "sent" /\ UNCHANGED <<req, route, target>>
    BY <1>1 DEF BodyReceived, Types
  <2> QED
    BY <2>1, <2>2, <2>3 DEF OnRoute, CurrentRoute
<1>2. CASE NoRoute(c) \/ BodyFailed(c) \/ Failed(c) \/ Answered(c)
  <2>1. PICK r \in Answers \cup {NotFound, BadGateway} :
          Reply(c, r) /\ jobs' \in [Putters -> Job \cup {NoJob}]
    <3>1. CASE NoRoute(c) \/ BodyFailed(c) \/ Failed(c)
      BY <3>1 DEF NoRoute, BodyFailed, Failed, Types
    <3>2. CASE Answered(c)
      <4>1. req[c] \in Queries /\ target[c] \in Targets /\ route[c] \in 1..Len(Routes)
        BY <3>2, RouteTargets DEF Answered, OnRoute
      <4> DEFINE url == RequestUrl(c)
      <4>2. url \in Urls \ {NoUrl}
        BY <3>2, <4>1 DEF Answered, RequestUrl, Urls, CurrentRoute
      <4>3. PICK by \in Answerers(url.at), lines \in Controls :
              /\ Reply(c, Response(req[c], url, by, lines))
              /\ \/ UNCHANGED jobs
                 \/ \E p \in Putters : jobs' = [jobs EXCEPT ![p] =
                      [key |-> KeyOf(req[c]), response |-> Response(req[c], url, by, lines)]]
        BY <3>2 DEF Answered
      <4>m. by \in Targets \cup {Elsewhere}
        <5>1. url.at \in {target[c], Elsewhere}
          BY <4>2 DEF RequestUrl, Url
        <5> HIDE DEF url
        <5> QED
          BY <4>1, <4>3, <5>1 DEF Answerers
      <4> HIDE DEF url
      <4>4. Response(req[c], url, by, lines) \in Answers
        BY <4>1, <4>2, <4>m DEF Answers
      <4>5. jobs' \in [Putters -> Job \cup {NoJob}]
        BY <4>1, <4>3, <4>4 DEF Types, Job, CacheKeys
      <4> QED
        BY <4>3, <4>4, <4>5
    <3> QED
      BY <1>2, <3>1, <3>2
  <2>2. UNCHANGED <<healthy, req, route, target, up, down, downDuring>>
    BY <1>2 DEF NoRoute, BodyFailed, Failed, Answered, routing
  <2>3. Types'
    BY <2>1, <2>2 DEF Reply, Types, States
  <2>4. \A d \in Tasks : pc'[d] = IF d = c THEN "replied" ELSE pc[d]
    BY <2>1 DEF Reply, Types
  <2> QED
    BY <2>2, <2>3, <2>4 DEF OnRoute, CurrentRoute
<1> QED
  BY <1>1, <1>2

\* The puts, the health checker and the clock.
LEMMA BackgroundTypes ==
  ASSUME Types, OnRoute,
         \/ \E p \in Putters : PutStep(p)
         \/ \E t \in Flapping : SetHealthy(t)
         \/ Tick
         \/ UNCHANGED vars
  PROVE  Types' /\ OnRoute'
<1>1. CASE \E p \in Putters : PutStep(p)
  <2>1. PICK p \in Putters : PutStep(p)
    BY <1>1
  <2>2. jobs' \in [Putters -> Job \cup {NoJob}]
    BY <2>1 DEF PutStep, StartPut, DropPut, FinishPut, Types
  <2>3. UNCHANGED <<healthy, pc, req, route, target, reply, up, down, downDuring>>
    BY <2>1 DEF PutStep, StartPut, DropPut, FinishPut, routing
  <2> QED
    BY <2>2, <2>3 DEF Types, OnRoute, CurrentRoute
<1>2. CASE \E t \in Flapping : SetHealthy(t)
  <2>1. PICK t \in Targets : SetHealthy(t)
    BY <1>2, FlappingAssumption
  <2>2. UNCHANGED <<pc, req, route, reply, jobs, target>>
    BY <2>1 DEF SetHealthy, Select!SetHealthy, Select!Observe
  <2>3. /\ healthy' \in [Targets -> BOOLEAN]
        /\ up' \in [Tasks -> SUBSET Targets]
        /\ down' \in [Tasks -> SUBSET Targets]
        /\ downDuring' \in [Tasks -> SUBSET Targets]
    BY <2>1 DEF SetHealthy, Select!SetHealthy, Select!Observe, Types
  <2> QED
    BY <2>2, <2>3 DEF Types, OnRoute, CurrentRoute
<1>3. CASE Tick \/ UNCHANGED vars
  BY <1>3 DEF Tick, vars, routing, Types, OnRoute, CurrentRoute
<1> QED
  BY <1>1, <1>2, <1>3

\* Every action keeps the types.
LEMMA TypeStep == TypeInv /\ [Next]_vars => TypeInv'
<1> SUFFICES ASSUME TypeInv, [Next]_vars PROVE TypeInv'
  OBVIOUS
<1>1. Cached!TypeInv'
  BY CacheStep, CachedStep DEF TypeInv
<1>2. Types' /\ OnRoute'
  BY <1>1, EndsTypes, LookupTypes, WalkTypes, SelectTypes, ReplyTypes, BackgroundTypes
     DEF TypeInv, Next, Step
<1> QED
  BY <1>1, <1>2 DEF TypeInv

\* The types hold of every reachable state: a task past its routing has a target
\* of the route it stands at, and a reply of the proxy or of some target.
THEOREM TypeCorrect == Spec => []TypeOK
<1>1. TypeInv => TypeOK
  <2> SUFFICES ASSUME TypeInv PROVE TypeOK
    OBVIOUS
  <2>1. Cache!TypeOK <=> Cached!TypeOK
    BY Zenon DEF Cache!TypeOK, Cached!TypeOK, Cache!Entry, Cached!Entry
  <2>2. Cache!TypeOK
    BY <2>1 DEF TypeInv, Cached!TypeInv
  <2> QED
    BY <2>2 DEF TypeInv, Types, OnRoute, States, TypeOK
<1> QED
  BY TypeInit, TypeStep, <1>1, PTL DEF Spec

\* The cache sees a behaviour of ResponseCache, whatever tasks, puts that outlive
\* their requests and clients that go away do (proxy.rs:51-56, 156-166).
THEOREM CacheImplemented == Spec => Cached!Spec
<1>1. Init => Cached!Init
  BY SameInit DEF Init
<1>2. TypeInv /\ [Next]_vars => [Cached!Next]_(Cached!vars)
  BY CacheStep
<1> QED
  BY TypeInit, TypeStep, <1>1, <1>2, PTL DEF Spec, Cached!Spec

\* So that what is proved of ResponseCache holds behind the proxy: its cache
\* never outgrows max_size, however many puts run at once (cache.rs:195-202).
THEOREM CacheBounded == Spec => []Cached!Bounded
<1>1. Cached!Init => Cached!BoundInv
  BY CacheAssumed, Cached!TypeInit, Cached!BoundInit, Zenon
     DEF Cached!BoundInv, IsFiniteSet, Cached!IsFiniteSet
<1>2. Cached!BoundInv /\ [Cached!Next]_(Cached!vars) => Cached!BoundInv'
  BY CacheAssumed, Cached!TypeStep, Cached!BoundStep, Zenon
     DEF Cached!BoundInv, IsFiniteSet, Cached!IsFiniteSet
<1>3. Cached!BoundInv => Cached!Bounded
  BY DEF Cached!BoundInv
<1> QED
  BY CacheImplemented, <1>1, <1>2, <1>3, PTL DEF Cached!Spec

-----------------------------------------------------------------------------
(* The order of the routes *)

TaskStep(c) ==
  \/ \E q \in Queries : Arrive(c, q)
  \/ Step(c) \/ BodyReceived(c) \/ BodyFailed(c) \/ Done(c) \/ Disconnect(c)

\* A task changes nothing of the others, and no flag.
LEMMA OthersStay ==
  ASSUME Types, NEW c \in Tasks, TaskStep(c)
  PROVE  /\ healthy' = healthy
         /\ \A d \in Tasks : d # c =>
              /\ pc'[d] = pc[d] /\ req'[d] = req[d] /\ route'[d] = route[d]
              /\ reply'[d] = reply[d] /\ down'[d] = down[d]
              /\ downDuring'[d] = downDuring[d]
<1>1. CASE (\E q \in Queries : Arrive(c, q)) \/ Done(c) \/ Disconnect(c)
  BY <1>1 DEF Arrive, Done, Disconnect, Clear, Types
<1>2. CASE Lookup(c)
  BY <1>2 DEF Lookup, Types, routing
<1>3. CASE SkipRoute(c) \/ TakeRoute(c)
  BY <1>3 DEF SkipRoute, TakeRoute, Select!Ask, Types, routing
<1>4. CASE Selected(c) \/ NoneSelected(c)
  BY <1>4 DEF Selected, NoneSelected, Select!Give, Select!GiveNone, Select!Return, Types
<1>5. CASE NoRoute(c) \/ BodyReceived(c) \/ BodyFailed(c) \/ Failed(c)
  BY <1>5 DEF NoRoute, BodyReceived, BodyFailed, Failed, Reply, Types, routing
<1>6. CASE Answered(c)
  BY <1>6 DEF Answered, Reply, Types, routing
<1> QED
  BY <1>1, <1>2, <1>3, <1>4, <1>5, <1>6 DEF TaskStep, Step

\* While a task routes, downDuring holds what is down and what its call of
\* select_target has seen down; the routes behind it were down.
Walked(c) ==
  /\ pc[c] = "lookup" => route[c] = 1
  /\ Routing(c) => Down \subseteq downDuring[c]
  /\ pc[c] = "select" => down[c] \subseteq downDuring[c]
  /\ pc[c] \in {"walk", "select", "body"} =>
       \A i \in MatchingRoutes(req[c].host, req[c].path) :
         i < route[c] => UpstreamTargets(i) \subseteq downDuring[c]

WalkInv == TypeInv /\ \A c \in Tasks : Walked(c)

\* No task walks at first.
LEMMA WalkInit == Init => WalkInv
<1>1. Init => \A c \in Tasks : Walked(c)
  BY DEF Init, Walked, Routing
<1> QED
  BY <1>1, TypeInit DEF WalkInv

\* A task's own steps.
LEMMA OwnWalk ==
  ASSUME TypeInv, NEW c \in Tasks, Walked(c), TaskStep(c)
  PROVE  Walked(c)'
<1>a. Types /\ Len(Routes) \in Nat /\ route[c] \in 1..(Len(Routes) + 1)
  BY RoutesAssumption DEF TypeInv, Types
<1>b. Down' = Down
  BY <1>a, OthersStay DEF Down, Select!Up
<1>c. \A h, p : MatchingRoutes(h, p) \subseteq 1..Len(Routes)
  BY DEF MatchingRoutes
<1>1. CASE \E q \in Queries : Arrive(c, q)
  <2>1. route'[c] = 1 /\ downDuring'[c] = Down /\ pc'[c] \in {"lookup", "walk"}
    BY <1>a, <1>1 DEF Arrive, Types
  <2> QED
    BY <1>a, <1>b, <1>c, <2>1 DEF Walked, Routing
<1>2. CASE Lookup(c)
  <2>1. /\ pc[c] = "lookup" /\ pc'[c] \in {"walk", "replied"}
        /\ UNCHANGED <<req, route, downDuring, down>>
    BY <1>a, <1>2 DEF Lookup, Types, routing
  <2>2. route[c] = 1
    BY <2>1 DEF Walked
  <2> QED
    BY <1>a, <1>b, <1>c, <2>1, <2>2 DEF Walked, Routing
<1>3. CASE SkipRoute(c)
  <2>1. /\ pc[c] = "walk" /\ route'[c] = route[c] + 1
        /\ route[c] \notin MatchingRoutes(req[c].host, req[c].path)
        /\ UNCHANGED <<pc, req, downDuring, down>>
    BY <1>a, <1>3 DEF SkipRoute, NextRoute, CurrentRoute, MatchingRoutes, Types, routing
  <2>2. \A i \in MatchingRoutes(req[c].host, req[c].path) :
          i < route[c] + 1 => i < route[c]
    BY <1>a, <1>c, <2>1
  <2> QED
    BY <1>b, <2>1, <2>2 DEF Walked, Routing
<1>4. CASE TakeRoute(c)
  <2>1. /\ pc[c] = "walk" /\ pc'[c] = "select" /\ down'[c] = Down
        /\ UNCHANGED <<req, route, downDuring>>
    BY <1>a, <1>4 DEF TakeRoute, Select!Ask, Down, Types
  <2> QED
    BY <1>b, <2>1 DEF Walked, Routing
<1>5. CASE Selected(c)
  <2>1. /\ pc[c] = "select" /\ pc'[c] = "body"
        /\ UNCHANGED <<req, route, downDuring>>
    BY <1>a, <1>5 DEF Selected, Types
  <2> QED
    BY <2>1 DEF Walked, Routing
<1>6. CASE NoneSelected(c)
  <2>1. /\ pc[c] = "select" /\ pc'[c] = "walk" /\ route'[c] = route[c] + 1
        /\ UpstreamTargets(route[c]) \subseteq down[c]
        /\ UNCHANGED <<req, downDuring>>
    BY <1>a, <1>6 DEF NoneSelected, NextRoute, Select!GiveNone, Types
  <2>2. UpstreamTargets(route[c]) \subseteq downDuring[c]
    BY <2>1 DEF Walked
  <2>3. \A i \in MatchingRoutes(req[c].host, req[c].path) :
          i < route[c] + 1 => i < route[c] \/ i = route[c]
    BY <1>a, <1>c
  <2> QED
    BY <1>b, <2>1, <2>2, <2>3 DEF Walked, Routing
<1>7. CASE \/ Done(c) \/ Disconnect(c) \/ NoRoute(c) \/ BodyReceived(c)
           \/ BodyFailed(c) \/ Failed(c) \/ Answered(c)
  <2>1. pc'[c] \in {"idle", "replied", "sent"}
    BY <1>a, <1>7 DEF Done, Disconnect, Clear, NoRoute, BodyReceived, BodyFailed,
       Failed, Answered, Reply, Types
  <2> QED
    BY <2>1 DEF Walked, Routing
<1> QED
  BY <1>1, <1>2, <1>3, <1>4, <1>5, <1>6, <1>7 DEF TaskStep, Step

\* A flag that goes down is noted by every task that routes.
LEMMA FlagWalk ==
  ASSUME TypeInv, NEW c \in Tasks, Walked(c), NEW t \in Flapping, SetHealthy(t)
  PROVE  Walked(c)'
<1>1. Types /\ t \in Targets
  BY FlappingAssumption DEF TypeInv
<1>2. UNCHANGED <<pc, req, route>>
  BY DEF SetHealthy
<1>3. healthy' = [healthy EXCEPT ![t] = ~healthy[t]]
  BY DEF SetHealthy, Select!SetHealthy
<1>4. Down' \subseteq IF healthy[t] THEN Down \cup {t} ELSE Down
  BY <1>1, <1>3 DEF Down, Select!Up, Types
<1>5. downDuring'[c] = IF Routing(c) /\ healthy[t] THEN downDuring[c] \cup {t}
                                                   ELSE downDuring[c]
  BY DEF SetHealthy
<1>6. pc[c] = "select" => down'[c] = down[c] \cup Down'
  BY DEF SetHealthy, Select!SetHealthy, Select!Observe, Down, Select!Up
<1>7. Routing(c) => Down' \subseteq downDuring'[c]
  BY <1>4, <1>5 DEF Walked
<1>8. downDuring[c] \subseteq downDuring'[c] /\ (pc[c] = "select" => Routing(c))
  BY <1>5 DEF Routing
<1> QED
  BY <1>2, <1>6, <1>7, <1>8 DEF Walked, Routing

\* Every action keeps what a walk has passed over.
LEMMA WalkStep == WalkInv /\ [Next]_vars => WalkInv'
<1> SUFFICES ASSUME WalkInv, [Next]_vars PROVE WalkInv'
  OBVIOUS
<1>a. TypeInv /\ TypeInv' /\ Types
  BY TypeStep DEF WalkInv, TypeInv
<1>1. ASSUME NEW c \in Tasks, TaskStep(c), NEW d \in Tasks
      PROVE  Walked(d)'
  <2>1. CASE d = c
    BY <1>a, <1>1, <2>1, OwnWalk DEF WalkInv
  <2>2. CASE d # c
    <3>1. /\ pc'[d] = pc[d] /\ req'[d] = req[d] /\ route'[d] = route[d]
          /\ down'[d] = down[d] /\ downDuring'[d] = downDuring[d]
          /\ Down' = Down
      BY <1>a, <1>1, <2>2, OthersStay DEF Down, Select!Up
    <3> QED
      BY <3>1 DEF WalkInv, Walked, Routing
  <2> QED
    BY <2>1, <2>2
<1>2. ASSUME NEW t \in Flapping, SetHealthy(t), NEW d \in Tasks
      PROVE  Walked(d)'
  BY <1>a, <1>2, FlagWalk DEF WalkInv
<1>3. CASE (\E p \in Putters : PutStep(p)) \/ Tick \/ UNCHANGED vars
  <2>1. UNCHANGED <<healthy, pc, req, route, down, downDuring>>
    BY <1>3 DEF PutStep, StartPut, DropPut, FinishPut, Tick, vars, routing
  <2> QED
    BY <1>a, <2>1 DEF WalkInv, Walked, Routing, Down, Select!Up
<1> QED
  BY <1>a, <1>1, <1>2, <1>3 DEF WalkInv, Next, TaskStep

\* However flags flap while a request walks the routes, a route that matches it
\* is passed over only when each target of its upstream was down at some instant
\* of the walk: each at its own (router.rs:60-81).
THEOREM RoutesInOrder == Spec => []EarlierRoutesDown
<1>1. WalkInv => EarlierRoutesDown
  BY DEF WalkInv, Walked, EarlierRoutesDown
<1> QED
  BY WalkInit, WalkStep, <1>1, PTL DEF Spec

-----------------------------------------------------------------------------
(* What is in the cache *)

\* Entries only move: from a put to its key.
LEMMA CachedMoves ==
  Cached!TypeInv /\ [Cached!Next]_(Cached!vars) =>
    \A k \in CacheKeys : \/ entries'[k] \in {NoEntry, entries[k]}
                         \/ \E p \in Putters : entries'[k] = puts[p]
<1> SUFFICES ASSUME Cached!TypeInv, [Cached!Next]_(Cached!vars)
             PROVE  \A k \in {KeyOf(q) : q \in Queries} :
                      \/ entries'[k] \in {NoEntry, entries[k]}
                      \/ \E p \in Putters : entries'[k] = puts[p]
  BY DEF CacheKeys
<1> QED
  BY CacheAssumed, Cached!EntriesMove, Zenon DEF IsFiniteSet, Cached!IsFiniteSet

\* No route leaves anything of a path that, behind the port, makes another
\* address: what it leaves is empty, begins with a slash, or makes no URL.
NeverReaddressed ==
  \A i \in 1..Len(Routes), q \in Queries :
    LET left == TargetPath(Routes[i], q.path)
    IN  left # <<>> => Head(left) \notin Readdressing

\* A target of a matching route was asked for the path that route leaves, and
\* answered or redirected.
Given(r) ==
  \E i \in MatchingRoutes(r.body.to.host, r.body.to.path) :
    \E t \in UpstreamTargets(i) :
      /\ Stripped(Routes[i], t, r.body.to.path, r.body.url)
      /\ r.body.by = t \/ t \in Redirecting

\* An answer to a safe request, under that request's key.
Filed(e) ==
  /\ e.key = KeyOf(e.response.body.to)
  /\ e.response.body.to.method \in Cacheable
  /\ NeverReaddressed => Given(e.response)

FiledInv ==
  /\ TypeInv
  /\ \A p \in Putters : jobs[p] # NoJob => Filed(jobs[p])
  /\ \A p \in Putters : puts[p] # NoEntry => Filed(puts[p])
  /\ \A k \in CacheKeys : entries[k] # NoEntry => Filed(entries[k])

\* Nothing is filed at first.
LEMMA FiledInit == Init => FiledInv
<1> SUFFICES ASSUME Init PROVE FiledInv
  OBVIOUS
<1>1. Cached!Init
  BY SameInit DEF Init
<1> QED
  BY <1>1, TypeInit DEF Init, FiledInv, Cached!Init, CacheKeys, NoJob

\* The prefix that matched is a prefix, and with what is left it is the path.
LEMMA PrefixAndRest ==
  ASSUME NEW i \in 1..Len(Routes), NEW q \in Queries
  PROVE  LET prefix == MatchedPrefix(Routes[i], q.path)
             left == TargetPath(Routes[i], q.path)
         IN  q.path = prefix \o left /\ (left = <<>> => q.path = prefix)
<1> DEFINE path == q.path
           prefix == MatchedPrefix(Routes[i], path)
           paths == Routes[i].paths
           W == Range(path)
<1>1. path \in Seq(W) /\ Len(path) \in Nat
  BY QueriesAssumption, LenProperties DEF IsPath
<1>2. prefix = SubSeq(path, 1, Len(prefix)) /\ Len(prefix) \in 0..Len(path)
  <2>1. CASE PathMatches(Routes[i], path)
    <3> DEFINE M == MatchingPaths(Routes[i], path)
    <3>1. M \subseteq Nat /\ M # {}
      BY <2>1, RoutesAssumption DEF PathMatches, MatchingPaths
    <3>2. \E j \in M : \A k \in M : j <= k
      <4> HIDE DEF M
      <4> DEFINE Less == {ss \in Nat \X Nat : ss[1] < ss[2]}
      <4>n. IsWellFoundedOn(Less, Nat)
        BY NatLessThanWellFounded, Zenon DEF OpToRel
      <4> HIDE DEF Less
      <4>1. PICK j \in M : \A k \in M : ~ (<<k, j>> \in Less)
        BY <3>1, <4>n, WFMin
      <4>2. ASSUME NEW k \in M PROVE j <= k
        <5>1. <<k, j>> \in Nat \X Nat /\ <<k, j>>[1] = k /\ <<k, j>>[2] = j
          BY <3>1
        <5>2. ~ (<<k, j>> \in Less)
          BY <4>1
        <5>3. ~ (k < j)
          BY <5>1, <5>2 DEF Less
        <5> QED
          BY <3>1, <5>3
      <4> QED
        BY <4>2
    <3>3. PICK j \in M : prefix = paths[j]
      BY <2>1, <3>2 DEF MatchedPrefix
    <3>4. IsPath(prefix) /\ IsPrefix(prefix, path)
      BY <3>3, RoutesAssumption DEF MatchingPaths
    <3> HIDE DEF prefix
    <3>5. /\ prefix \in Seq(Range(prefix)) /\ Len(prefix) \in Nat
          /\ Len(prefix) <= Len(path)
          /\ SubSeq(prefix, 1, Len(prefix)) = SubSeq(path, 1, Len(prefix))
      BY <3>4, LenProperties DEF IsPath, IsPrefix
    <3> QED
      BY <1>1, <3>5, SubSeqFull
  <2>2. CASE ~PathMatches(Routes[i], path)
    <3>1. prefix = <<>>
      BY <2>2 DEF MatchedPrefix
    <3> QED
      BY <1>1, <3>1, SubSeqEmpty
  <2> QED
    BY <2>1, <2>2
<1>3. TargetPath(Routes[i], path) = SubSeq(path, Len(prefix) + 1, Len(path))
  BY DEF TargetPath
<1> HIDE DEF prefix, path
<1>4. path = prefix \o SubSeq(path, Len(prefix) + 1, Len(path))
  <2> DEFINE k == Len(prefix)
             n == Len(path)
  <2>1. k \in 0..n /\ n \in Nat
    BY <1>1, <1>2
  <2> HIDE DEF k
  <2>2. SubSeq(path, 1, k) \o SubSeq(path, k + 1, n) = SubSeq(path, 1, n)
    <3>1. 1 \in 1..n + 1 /\ k \in 1 - 1..n /\ n \in k..n
      BY <2>1
    <3> QED
      BY <1>1, <3>1, ConcatAdjacentSubSeq
  <2> QED
    BY <1>1, <1>2, <2>2, SubSeqFull DEF k
<1>5. prefix \in Seq(W)
  <2>1. \A j \in 1..Len(prefix) : path[j] \in W
    BY <1>1, <1>2, ElementOfSeq
  <2> QED
    BY <1>2, <2>1, SubSeqProperties
<1> QED
  BY <1>3, <1>4, <1>5, ConcatEmptySeq DEF prefix, path

\* If target_url is a URL at all, it is the target's.
LEMMA UrlStripped ==
  ASSUME NeverReaddressed, NEW i \in 1..Len(Routes), NEW q \in Queries, NEW t,
         Url(t, TargetPath(Routes[i], q.path)) # NoUrl
  PROVE  Stripped(Routes[i], t, q.path, Url(t, TargetPath(Routes[i], q.path)))
<1> DEFINE left == TargetPath(Routes[i], q.path)
           prefix == MatchedPrefix(Routes[i], q.path)
<1>1. q.path = prefix \o left /\ (left = <<>> => q.path = prefix)
  BY PrefixAndRest
<1>2. left # <<>> => Head(left) \notin Readdressing
  BY DEF NeverReaddressed
<1> HIDE DEF left
<1>3. /\ left = <<>> \/ Head(left) = "/"
      /\ Url(t, left) = [at |-> t, path |-> IF left = <<>> THEN <<"/">> ELSE left]
  BY <1>2 DEF Url, left
<1> DEFINE url == Url(t, left)
<1>4. CASE left = <<>>
  <2>1. url.at = t /\ url.path = <<"/">> /\ Head(url.path) = "/"
    BY <1>3, <1>4
  <2> HIDE DEF url
  <2> QED
    BY <1>1, <1>4, <2>1 DEF Stripped, left, url
<1>5. CASE left # <<>>
  <2>1. url.at = t /\ url.path = left
    BY <1>3, <1>5
  <2> HIDE DEF url
  <2> QED
    BY <1>1, <1>3, <1>5, <2>1 DEF Stripped, left, url
<1> QED
  BY <1>4, <1>5

\* The answer that a task passes on is an answer to its request.
LEMMA AnswerGiven ==
  ASSUME TypeInv, NEW c \in Tasks, Answered(c)
  PROVE  \E by, lines :
           LET r == Response(req[c], RequestUrl(c), by, lines)
           IN  /\ NeverReaddressed => Given(r)
               /\ r.body.to = req[c]
               /\ Reply(c, r)
               /\ \/ UNCHANGED jobs
                  \/ \E p \in Putters :
                       /\ Uses(req[c])
                       /\ jobs' = [jobs EXCEPT ![p] = [key |-> KeyOf(req[c]), response |-> r]]
<1>1. /\ route[c] \in 1..Len(Routes) /\ target[c] \in UpstreamTargets(route[c])
      /\ Matches(CurrentRoute(c), req[c].host, req[c].path) /\ req[c] \in Queries
      /\ RequestUrl(c) # NoUrl
  BY DEF TypeInv, OnRoute, Answered
<1>2. ASSUME NEW by \in Answerers(RequestUrl(c).at), NEW lines
      PROVE  LET r == Response(req[c], RequestUrl(c), by, lines)
             IN  (NeverReaddressed => Given(r)) /\ r.body.to = req[c]
  <2> DEFINE r == Response(req[c], RequestUrl(c), by, lines)
  <2>1. r.body.to = req[c] /\ r.body.url = RequestUrl(c) /\ r.body.by = by
    BY DEF Response
  <2>2. ASSUME NeverReaddressed PROVE Given(r)
    <3>1. Stripped(Routes[route[c]], target[c], req[c].path, RequestUrl(c))
      BY <1>1, <2>2, UrlStripped DEF RequestUrl, CurrentRoute
    <3>2. by = target[c] \/ target[c] \in Redirecting
      BY <3>1 DEF Stripped, Answerers
    <3>3. route[c] \in MatchingRoutes(req[c].host, req[c].path)
      BY <1>1 DEF MatchingRoutes, CurrentRoute
    <3> HIDE DEF r
    <3> QED
      BY <1>1, <2>1, <3>1, <3>2, <3>3 DEF Given
  <2> QED
    BY <2>1, <2>2
<1> QED
  BY <1>2 DEF Answered

\* Where a step leaves the jobs and the prepared entries.
LEMMA FiledMoves ==
  ASSUME FiledInv, [Next]_vars, NEW p \in Putters
  PROVE  /\ jobs'[p] # NoJob => Filed(jobs'[p])
         /\ puts'[p] # NoEntry => Filed(puts'[p])
<1>a. /\ TypeInv /\ Types /\ puts \in [Putters -> Cached!Filled]
      /\ jobs[p] # NoJob => Filed(jobs[p])
      /\ puts[p] # NoEntry => Filed(puts[p])
  BY DEF FiledInv, TypeInv, Cached!TypeInv
<1>1. ASSUME NEW c \in Tasks, Answered(c)
      PROVE  (jobs'[p] # NoJob => Filed(jobs'[p])) /\ UNCHANGED puts
  <2>1. UNCHANGED puts
    BY <1>1 DEF Answered, cached
  <2>2. PICK by, lines :
          LET r == Response(req[c], RequestUrl(c), by, lines)
          IN  /\ NeverReaddressed => Given(r)
              /\ r.body.to = req[c]
              /\ \/ UNCHANGED jobs
                 \/ \E o \in Putters :
                      /\ Uses(req[c])
                      /\ jobs' = [jobs EXCEPT ![o] = [key |-> KeyOf(req[c]), response |-> r]]
    BY <1>a, <1>1, AnswerGiven
  <2> DEFINE r == Response(req[c], RequestUrl(c), by, lines)
             job == [key |-> KeyOf(req[c]), response |-> r]
  <2>3. jobs'[p] = jobs[p] \/ (Uses(req[c]) /\ jobs'[p] = job)
    BY <1>a, <2>2 DEF Types
  <2>4. Uses(req[c]) => Filed(job)
    <3> HIDE DEF r
    <3>1. r.body.to = req[c] /\ (NeverReaddressed => Given(r))
      BY <2>2 DEF r
    <3> QED
      BY <3>1 DEF Filed, Uses, MethodCacheable
  <2> HIDE DEF r, job
  <2> QED
    BY <1>a, <2>1, <2>3, <2>4
<1>2. ASSUME NEW o \in Putters, StartPut(o)
      PROVE  /\ jobs'[p] \in {NoJob, jobs[p]}
             /\ puts'[p] # NoEntry => Filed(puts'[p])
  <2>1. Cached!Prepare(o, jobs[o].key, jobs[o].response) /\ jobs[o] # NoJob
    BY <1>2, SamePrepare DEF StartPut
  <2>2. /\ puts' = [puts EXCEPT ![o] = Cached!NewEntry(jobs[o].key, jobs[o].response)]
        /\ jobs' = [jobs EXCEPT ![o] = NoJob]
    BY <1>2, <2>1 DEF StartPut, Cached!Prepare
  <2>3. Filed(Cached!NewEntry(jobs[o].key, jobs[o].response))
    BY <2>1 DEF FiledInv, Filed, Cached!NewEntry
  <2> QED
    BY <1>a, <2>2, <2>3 DEF Types
<1>3. ASSUME NEW o \in Putters, DropPut(o)
      PROVE  jobs'[p] \in {NoJob, jobs[p]} /\ puts'[p] = puts[p]
  BY <1>a, <1>3 DEF DropPut, Types, cached
<1>4. ASSUME NEW o \in Putters, FinishPut(o)
      PROVE  jobs'[p] = jobs[p] /\ puts'[p] \in {NoEntry, puts[p]}
  <2>1. Cached!Commit(o) /\ UNCHANGED jobs
    BY <1>4, SameCommit DEF FinishPut
  <2>2. puts' = [puts EXCEPT ![o] = NoEntry]
    BY <2>1 DEF Cached!Commit, Cached!Insert
  <2> QED
    BY <1>a, <2>1, <2>2
<1>5. ASSUME NEW c \in Tasks, TaskStep(c), ~Answered(c)
      PROVE  UNCHANGED <<jobs, puts>>
  <2>1. CASE (\E q \in Queries : Arrive(c, q)) \/ Done(c) \/ Disconnect(c)
    BY <2>1 DEF Arrive, Done, Disconnect, Clear, cached
  <2>2. CASE Lookup(c)
    BY <2>2, SameGet DEF Lookup, Cached!Get
  <2>3. CASE SkipRoute(c) \/ TakeRoute(c) \/ Selected(c) \/ NoneSelected(c)
    BY <2>3 DEF SkipRoute, TakeRoute, Selected, NoneSelected, cached
  <2>4. CASE NoRoute(c) \/ BodyReceived(c) \/ BodyFailed(c) \/ Failed(c)
    BY <2>4 DEF NoRoute, BodyReceived, BodyFailed, Failed, cached
  <2> QED
    BY <1>5, <2>1, <2>2, <2>3, <2>4 DEF TaskStep, Step
<1>6. CASE (\E t \in Flapping : SetHealthy(t)) \/ Tick \/ UNCHANGED vars
  BY <1>a, <1>6, SameTick DEF SetHealthy, Tick, Cached!Tick, vars, cached
<1> QED
  BY <1>a, <1>1, <1>2, <1>3, <1>4, <1>5, <1>6 DEF Next, TaskStep, PutStep

\* Every action keeps each response under the key of the request it answers.
LEMMA FiledStep == FiledInv /\ [Next]_vars => FiledInv'
<1> SUFFICES ASSUME FiledInv, [Next]_vars PROVE FiledInv'
  OBVIOUS
<1>1. TypeInv /\ TypeInv' /\ Cached!TypeInv
  BY TypeStep DEF FiledInv, TypeInv
<1>2. \A k \in CacheKeys : \/ entries'[k] \in {NoEntry, entries[k]}
                           \/ \E p \in Putters : entries'[k] = puts[p]
  BY <1>1, CacheStep, CachedMoves
<1>3. \A k \in CacheKeys : entries'[k] # NoEntry => Filed(entries'[k])
  BY <1>2 DEF FiledInv
<1>4. \A p \in Putters : /\ jobs'[p] # NoJob => Filed(jobs'[p])
                         /\ puts'[p] # NoEntry => Filed(puts'[p])
  BY FiledMoves
<1> QED
  BY <1>1, <1>3, <1>4 DEF FiledInv, Filed, Given

\* Only answers to GET and HEAD requests are ever in the cache, although a put
\* runs on behind the request that spawned it (proxy.rs:26-32, README.md:301).
THEOREM SafeMethodsCorrect == Spec => []OnlySafeMethodsCached
<1>1. FiledInv => OnlySafeMethodsCached
  BY DEF FiledInv, Filed, OnlySafeMethodsCached, Cache!Cached, CacheKeys
<1> QED
  BY FiledInit, FiledStep, <1>1, PTL DEF Spec

-----------------------------------------------------------------------------
(* The key of a request, which generate_cache_key joins from parts some of *)
(* which may be missing.  The code escapes nothing: that no part holds a   *)
(* mark which begins another must be assumed.                              *)

\* Requests that differ have different keys.
KeysTellApart ==
  \A q1, q2 \in Queries : KeyOf(q1) = KeyOf(q2) => Identity(q1) = Identity(q2)

\* No lexeme before the query is one of the marks that the key puts between
\* its parts, and a path begins with a slash, which no host is.
Marks == {"?", ";cookie:", ";auth:"}
Lexemes == UNION {{q.path[i] : i \in 1..Len(q.path)} : q \in Queries}
PlainQueries ==
  /\ Marks \cap Lexemes = {}
  /\ \A q \in Queries :
       /\ q.path \in Seq(Lexemes) /\ q.path # <<>> /\ q.path[1] = "/"
       /\ q.host # "/" /\ {q.method, q.host} \cap Marks = {}

Unmarked(s) == \A i \in 1..Len(s) : s[i] \notin Marks
StartsIn(s, tags) == s = <<>> \/ s[1] \in tags
StartsOutside(s, tag) == s = <<>> \/ s[1] # tag

\* Where the second of two joined sequences is.
LEMMA SecondPart ==
  ASSUME NEW S, NEW s \in Seq(S), NEW t \in Seq(S), NEW i \in 1..Len(t)
  PROVE  (s \o t)[Len(s) + i] = t[i]
<1>1. Len(s) \in Nat /\ Len(t) \in Nat
  BY LenProperties
<1>2. /\ Len(s) + i \in 1..Len(s) + Len(t)
      /\ ~ (Len(s) + i <= Len(s))
      /\ (Len(s) + i) - Len(s) = i
  BY <1>1
<1> DEFINE n == Len(s) + i
<1>3. (s \o t)[n] = IF n <= Len(s) THEN s[n] ELSE t[n - Len(s)]
  <2>1. n \in 1..Len(s) + Len(t)
    BY <1>2
  <2> HIDE DEF n
  <2> QED
    BY <2>1, ConcatProperties
<1> QED
  BY <1>2, <1>3

\* What precedes the first mark, and what follows it, can be told.
LEMMA FirstMark ==
  ASSUME NEW S, NEW p1 \in Seq(S), NEW p2 \in Seq(S), NEW t1 \in Seq(S), NEW t2 \in Seq(S),
         Unmarked(p1), Unmarked(p2), StartsIn(t1, Marks), StartsIn(t2, Marks),
         p1 \o t1 = p2 \o t2
  PROVE  p1 = p2 /\ t1 = t2
<1> DEFINE k == p1 \o t1
<1>1. /\ Len(k) = Len(p1) + Len(t1)
      /\ \A i \in 1..Len(p1) + Len(t1) :
           k[i] = IF i <= Len(p1) THEN p1[i] ELSE t1[i - Len(p1)]
  BY ConcatProperties
<1>2. /\ Len(k) = Len(p2) + Len(t2)
      /\ \A i \in 1..Len(p2) + Len(t2) :
           k[i] = IF i <= Len(p2) THEN p2[i] ELSE t2[i - Len(p2)]
  BY ConcatProperties
<1>s. /\ \A i \in 1..Len(t1) : k[Len(p1) + i] = t1[i]
      /\ \A i \in 1..Len(t2) : k[Len(p2) + i] = t2[i]
  BY SecondPart
<1> HIDE DEF k
<1>t. Len(p1) \in Nat /\ Len(p2) \in Nat /\ Len(t1) \in Nat /\ Len(t2) \in Nat
  BY LenProperties
<1>e. (t1 # <<>> => Len(t1) > 0) /\ (t2 # <<>> => Len(t2) > 0)
  BY <1>t, EmptySeq
<1>3. ~ Len(p1) < Len(p2)
  <2>1. SUFFICES ASSUME Len(p1) < Len(p2) PROVE FALSE
    OBVIOUS
  <2>2. Len(t1) > 0
    BY <1>1, <1>2, <1>t, <2>1
  <2>3. k[Len(p1) + 1] = t1[1]
    BY <1>s, <1>t, <2>2
  <2>4. k[Len(p1) + 1] = p2[Len(p1) + 1] /\ Len(p1) + 1 \in 1..Len(p2)
    BY <1>2, <1>t, <2>1
  <2> QED
    BY <2>2, <2>3, <2>4, <1>e DEF Unmarked, StartsIn
<1>4. ~ Len(p2) < Len(p1)
  <2>1. SUFFICES ASSUME Len(p2) < Len(p1) PROVE FALSE
    OBVIOUS
  <2>2. Len(t2) > 0
    BY <1>1, <1>2, <1>t, <2>1
  <2>3. k[Len(p2) + 1] = t2[1]
    BY <1>s, <1>t, <2>2
  <2>4. k[Len(p2) + 1] = p1[Len(p2) + 1] /\ Len(p2) + 1 \in 1..Len(p1)
    BY <1>1, <1>t, <2>1
  <2> QED
    BY <2>2, <2>3, <2>4, <1>e DEF Unmarked, StartsIn
<1>5. Len(p1) = Len(p2) /\ Len(t1) = Len(t2)
  BY <1>1, <1>2, <1>3, <1>4, <1>t
<1>6. p1 = p2
  <2>1. \A i \in 1..Len(p1) : p1[i] = p2[i]
    BY <1>1, <1>2, <1>5, <1>t
  <2> QED
    BY <1>5, <2>1, SeqEqual
<1>7. t1 = t2
  <2>1. ASSUME NEW i \in 1..Len(t1) PROVE t1[i] = t2[i]
    BY <1>s, <1>5
  <2> QED
    BY <1>5, <2>1, SeqEqual
<1> QED
  BY <1>6, <1>7

\* A part that may be missing can be told from what follows it.
LEMMA FirstTag ==
  ASSUME NEW S, NEW tag \in S, NEW v \in S, NEW w \in S,
         NEW r1 \in Seq(S), NEW r2 \in Seq(S),
         StartsOutside(r1, tag), StartsOutside(r2, tag),
         Tagged(tag, v) \o r1 = Tagged(tag, w) \o r2
  PROVE  v = w /\ r1 = r2
<1>1. ASSUME NEW u \in S, NEW r \in Seq(S)
      PROVE  /\ <<tag, u>> \o r \in Seq(S)
             /\ Len(<<tag, u>> \o r) = 2 + Len(r)
             /\ (<<tag, u>> \o r)[1] = tag
             /\ (<<tag, u>> \o r)[2] = u
             /\ \A i \in 1..Len(r) : (<<tag, u>> \o r)[2 + i] = r[i]
  <2>1. <<tag, u>> \in Seq(S) /\ Len(<<tag, u>>) = 2
    OBVIOUS
  <2> QED
    BY <2>1, ConcatProperties, LenProperties
<1>2. \A r \in Seq(S) : <<>> \o r = r
  BY ConcatEmptySeq
<1>3. ASSUME NEW u \in S, NEW x \in Seq(S), NEW r \in Seq(S),
             StartsOutside(r, tag), <<tag, u>> \o x = r
      PROVE  FALSE
  <2>1. r # <<>>
    BY <1>1, <1>3, LenProperties
  <2> QED
    BY <1>1, <1>3, <2>1 DEF StartsOutside
<1>4. CASE v = None /\ w = None
  BY <1>2, <1>4 DEF Tagged
<1>5. CASE v # None /\ w = None
  BY <1>2, <1>3, <1>5 DEF Tagged
<1>6. CASE v = None /\ w # None
  <2>1. <<tag, w>> \o r2 = r1
    BY <1>2, <1>6 DEF Tagged
  <2> QED
    BY <1>3, <1>6, <2>1
<1>7. CASE v # None /\ w # None
  <2>1. <<tag, v>> \o r1 = <<tag, w>> \o r2 /\ v \in S /\ w \in S
    BY <1>7 DEF Tagged
  <2>2. v = w
    BY <1>1, <2>1
  <2>3. Len(r1) = Len(r2)
    BY <1>1, <2>1, LenProperties
  <2>4. \A i \in 1..Len(r1) : r1[i] = r2[i]
    BY <1>1, <2>1, <2>3
  <2> QED
    BY <2>2, <2>3, <2>4, SeqEqual
<1> QED
  BY <1>4, <1>5, <1>6, <1>7

\* generate_cache_key tells requests apart, whichever parts they have, when no
\* lexeme of theirs is one of the marks.
THEOREM PlainQueriesTellApart == ASSUME PlainQueries PROVE KeysTellApart
<1> SUFFICES ASSUME NEW q1 \in Queries, NEW q2 \in Queries, KeyOf(q1) = KeyOf(q2)
             PROVE  Identity(q1) = Identity(q2)
  BY DEF KeysTellApart
<1> DEFINE
  Words == Lexemes \cup Marks \cup {":"} \cup
             UNION {{q.method, q.host, q.query, q.cookie, q.auth} : q \in Queries}
  Start(q) == IF q.host = NoHost THEN <<q.method, ":">> ELSE <<q.method, ":", q.host>>
  AfterCookie(q) == Tagged(";auth:", q.auth)
  AfterQuery(q) == Tagged(";cookie:", q.cookie) \o AfterCookie(q)
  AfterPath(q) == Tagged("?", q.query) \o AfterQuery(q)
<1>1. ASSUME NEW q \in Queries
      PROVE  /\ q.method \in Words /\ q.host \in Words
             /\ q.query \in Words /\ q.cookie \in Words /\ q.auth \in Words
  OBVIOUS
<1>1m. ":" \in Words /\ Marks \subseteq Words /\ Lexemes \subseteq Words
  OBVIOUS
<1> HIDE DEF Words, Start, AfterCookie, AfterQuery, AfterPath
<1>j. ASSUME NEW r \in Seq(Words), NEW s \in Seq(Words), NEW t \in Seq(Words)
      PROVE  (r \o s) \o t = r \o (s \o t)
  BY ConcatAssociative
<1>t. ASSUME NEW tag \in Marks, NEW v \in Words
      PROVE  /\ Tagged(tag, v) \in Seq(Words)
             /\ Tagged(tag, v) = <<>> \/ Tagged(tag, v)[1] = tag
  <2>1. CASE v = None
    BY <2>1 DEF Tagged
  <2>2. CASE v # None
    <3>1. Tagged(tag, v) \in Seq(Words)
      BY <1>1m, <2>2 DEF Tagged
    <3>2. Tagged(tag, v)[1] = tag
      BY <2>2 DEF Tagged
    <3> QED
      BY <3>1, <3>2
  <2> QED
    BY <2>1, <2>2
<1>2. ASSUME NEW tag \in Marks, NEW v, v \in Words \/ v = None, NEW r \in Seq(Words)
      PROVE  /\ Tagged(tag, v) \o r \in Seq(Words)
             /\ v = None => Tagged(tag, v) \o r = r
             /\ v # None => /\ Tagged(tag, v) \o r # <<>>
                            /\ (Tagged(tag, v) \o r)[1] = tag
  <2>1. CASE v = None
    BY <2>1, ConcatEmptySeq DEF Tagged
  <2>2. CASE v # None
    <3>1. <<tag, v>> \in Seq(Words) /\ Len(<<tag, v>>) = 2 /\ Tagged(tag, v) = <<tag, v>>
      BY <1>2, <1>1m, <2>2 DEF Tagged
    <3>2. Len(<<tag, v>> \o r) = 2 + Len(r) /\ (<<tag, v>> \o r)[1] = <<tag, v>>[1]
      BY <3>1, ConcatProperties, LenProperties
    <3> QED
      BY <2>2, <3>1, <3>2, ConcatProperties, LenProperties, EmptySeq
  <2> QED
    BY <2>1, <2>2
<1>3. ASSUME NEW q \in Queries
      PROVE  /\ AfterCookie(q) \in Seq(Words)
             /\ AfterCookie(q) = <<>> \/ AfterCookie(q)[1] = ";auth:"
             /\ AfterQuery(q) \in Seq(Words)
             /\ AfterQuery(q) = <<>> \/ AfterQuery(q)[1] \in {";cookie:", ";auth:"}
             /\ AfterPath(q) \in Seq(Words)
             /\ StartsIn(AfterPath(q), Marks)
  <2>1. /\ AfterCookie(q) \in Seq(Words)
        /\ AfterCookie(q) = <<>> \/ AfterCookie(q)[1] = ";auth:"
    BY <1>1, <1>t DEF AfterCookie, Marks
  <2>2. /\ AfterQuery(q) \in Seq(Words)
        /\ AfterQuery(q) = AfterCookie(q) \/ AfterQuery(q)[1] = ";cookie:"
    BY <1>1, <1>2, <2>1 DEF AfterQuery, Marks
  <2>3. /\ AfterPath(q) \in Seq(Words)
        /\ AfterPath(q) = AfterQuery(q) \/ AfterPath(q)[1] = "?"
    BY <1>1, <1>2, <2>2 DEF AfterPath, Marks
  <2> QED
    BY <2>1, <2>2, <2>3 DEF Marks, StartsIn
<1>4. ASSUME NEW q \in Queries
      PROVE  /\ q.path \in Seq(Words) /\ Start(q) \in Seq(Words)
             /\ Start(q) \o q.path \in Seq(Words)
             /\ KeyOf(q) = (Start(q) \o q.path) \o AfterPath(q)
  <2>1. q.path \in Seq(Words) /\ Start(q) \in Seq(Words)
    <3>1. <<q.method, ":">> \in Seq(Words) /\ <<q.method, ":", q.host>> \in Seq(Words)
      BY <1>1, <1>1m
    <3>2. \A i \in 1..Len(q.path) : q.path[i] \in Words
      BY <1>1m, LenProperties DEF PlainQueries
    <3> QED
      BY <3>1, <3>2, LenProperties DEF PlainQueries, Start
  <2>2. /\ Tagged("?", q.query) \in Seq(Words)
        /\ Tagged(";cookie:", q.cookie) \in Seq(Words)
        /\ Tagged(";auth:", q.auth) \in Seq(Words)
    BY <1>1, <1>t DEF Marks
  <2>3. Start(q) \o q.path \in Seq(Words)
    BY <2>1, ConcatProperties
  <2>4. KeyOf(q) = (((Start(q) \o q.path) \o Tagged("?", q.query))
                     \o Tagged(";cookie:", q.cookie)) \o Tagged(";auth:", q.auth)
    BY DEF KeyOf, Start
  <2> DEFINE p == Start(q) \o q.path
             a == Tagged("?", q.query)
             b == Tagged(";cookie:", q.cookie)
             d == Tagged(";auth:", q.auth)
  <2>5. p \in Seq(Words) /\ a \in Seq(Words) /\ b \in Seq(Words) /\ d \in Seq(Words)
    BY <2>2, <2>3
  <2>6. KeyOf(q) = ((p \o a) \o b) \o d /\ AfterPath(q) = a \o (b \o d)
    BY <2>4 DEF AfterPath, AfterQuery, AfterCookie
  <2> HIDE DEF p, a, b, d
  <2>7. ((p \o a) \o b) \o d = p \o (a \o (b \o d))
    <3>1. p \o a \in Seq(Words) /\ b \o d \in Seq(Words)
      BY <2>5, ConcatProperties
    <3>2. ((p \o a) \o b) \o d = (p \o a) \o (b \o d)
      BY <2>5, <3>1, <1>j
    <3>3. ASSUME NEW e \in Seq(Words) PROVE (p \o a) \o e = p \o (a \o e)
      BY <2>5, <1>j
    <3> QED
      BY <3>1, <3>2, <3>3
  <2> QED
    BY <2>1, <2>3, <2>6, <2>7 DEF p
<1>5. ASSUME NEW q \in Queries
      PROVE  LET p == Start(q) \o q.path IN
               /\ p[1] = q.method
               /\ p[3] = IF q.host = NoHost THEN "/" ELSE q.host
               /\ Len(p) = Len(Start(q)) + Len(q.path)
               /\ \A i \in 1..Len(q.path) : p[Len(Start(q)) + i] = q.path[i]
               /\ Unmarked(p)
  <2> DEFINE p == Start(q) \o q.path
             n == Len(Start(q))
  <2>1. /\ n = IF q.host = NoHost THEN 2 ELSE 3
        /\ Start(q)[1] = q.method
        /\ Start(q)[2] = ":"
        /\ q.host # NoHost => Start(q)[3] = q.host
    BY DEF Start
  <2>m. \A i \in 1..n : Start(q)[i] \notin Marks
    <3>1. ":" \notin Marks /\ q.method \notin Marks /\ q.host \notin Marks
      BY DEF PlainQueries, Marks
    <3> HIDE DEF n
    <3> QED
      BY <2>1, <3>1
  <2>2. /\ Len(q.path) \in Nat /\ Len(q.path) > 0
        /\ \A i \in 1..Len(q.path) : q.path[i] \notin Marks
    BY <1>4, EmptySeq, LenProperties DEF PlainQueries
  <2>3. /\ Len(p) = n + Len(q.path)
        /\ \A i \in 1..n + Len(q.path) : p[i] = IF i <= n THEN Start(q)[i] ELSE q.path[i - n]
        /\ \A i \in 1..Len(q.path) : p[n + i] = q.path[i]
    BY <1>4, ConcatProperties, SecondPart
  <2> HIDE DEF p, n
  <2>n. n \in {2, 3} /\ 1 \in 1..Len(q.path)
    BY <2>1, <2>2
  <2>4. p[1] = q.method
    <3>1. 1 \in 1..n + Len(q.path) /\ 1 <= n
      BY <2>2, <2>n
    <3> QED
      BY <2>1, <2>3, <3>1
  <2>5. p[3] = IF q.host = NoHost THEN "/" ELSE q.host
    <3>1. CASE q.host = NoHost
      <4>1. p[n + 1] = q.path[1] /\ n = 2
        BY <2>1, <2>3, <2>n, <3>1
      <4> QED
        BY <3>1, <4>1 DEF PlainQueries
    <3>2. CASE q.host # NoHost
      <4>1. 3 \in 1..n + Len(q.path) /\ 3 <= n
        BY <2>1, <2>2, <3>2
      <4> QED
        BY <2>1, <2>3, <3>2, <4>1
    <3> QED
      BY <3>1, <3>2
  <2>6. Unmarked(p)
    <3>1. ASSUME NEW i \in 1..n + Len(q.path) PROVE p[i] \notin Marks
      <4>1. CASE i <= n
        <5>1. i \in 1..n
          BY <2>2, <2>n, <4>1
        <5> QED
          BY <2>3, <2>m, <4>1, <5>1
      <4>2. CASE ~ (i <= n)
        <5>1. i - n \in 1..Len(q.path)
          BY <2>2, <2>n, <4>2
        <5> QED
          BY <2>2, <2>3, <4>2, <5>1
      <4> QED
        BY <4>1, <4>2
    <3> QED
      BY <2>3, <3>1 DEF Unmarked
  <2> QED
    BY <2>3, <2>4, <2>5, <2>6 DEF p, n
<1>6. Start(q1) \o q1.path = Start(q2) \o q2.path /\ AfterPath(q1) = AfterPath(q2)
  <2> DEFINE p1 == Start(q1) \o q1.path
             p2 == Start(q2) \o q2.path
  <2>1. p1 \in Seq(Words) /\ Unmarked(p1)
    BY <1>4, <1>5
  <2>2. p2 \in Seq(Words) /\ Unmarked(p2)
    BY <1>4, <1>5
  <2>3. p1 \o AfterPath(q1) = p2 \o AfterPath(q2)
    BY <1>4
  <2> HIDE DEF p1, p2
  <2>4. p1 = p2 /\ AfterPath(q1) = AfterPath(q2)
    BY <1>3, <2>1, <2>2, <2>3, FirstMark
  <2> QED
    BY <2>4 DEF p1, p2
<1>7. q1.method = q2.method /\ q1.host = q2.host /\ q1.path = q2.path
  <2>1. q1.method = q2.method
    BY <1>5, <1>6
  <2>2. q1.host = q2.host
    BY <1>5, <1>6 DEF PlainQueries
  <2>3. Len(Start(q1)) = Len(Start(q2)) /\ Len(Start(q1)) \in Nat
    BY <2>2 DEF Start
  <2>4. Len(q1.path) = Len(q2.path)
    <3>1. Len(Start(q1)) + Len(q1.path) = Len(Start(q2)) + Len(q2.path)
      BY <1>5, <1>6
    <3>2. Len(q1.path) \in Nat /\ Len(q2.path) \in Nat
      BY <1>4, LenProperties
    <3> QED
      BY <2>3, <3>1, <3>2
  <2>5. ASSUME NEW i \in 1..Len(q1.path) PROVE q1.path[i] = q2.path[i]
    <3>1. (Start(q1) \o q1.path)[Len(Start(q1)) + i] = q1.path[i]
      BY <1>5
    <3>2. (Start(q2) \o q2.path)[Len(Start(q2)) + i] = q2.path[i]
      BY <1>5, <2>4
    <3> QED
      BY <1>6, <2>3, <3>1, <3>2
  <2>6. q1.path = q2.path
    BY <1>4, <2>4, <2>5, SeqEqual
  <2> QED
    BY <2>1, <2>2, <2>6
<1>8. q1.query = q2.query /\ AfterQuery(q1) = AfterQuery(q2)
  <2>1. ASSUME NEW q \in Queries
        PROVE  /\ q.query \in Words /\ AfterQuery(q) \in Seq(Words)
               /\ StartsOutside(AfterQuery(q), "?")
    BY <1>1, <1>3 DEF StartsOutside
  <2>2. Tagged("?", q1.query) \o AfterQuery(q1) = Tagged("?", q2.query) \o AfterQuery(q2)
    BY <1>6 DEF AfterPath
  <2>3. "?" \in Words
    BY <1>1m DEF Marks
  <2> QED
    BY <2>1, <2>2, <2>3, FirstTag
<1>9. q1.cookie = q2.cookie /\ AfterCookie(q1) = AfterCookie(q2)
  <2>1. ASSUME NEW q \in Queries
        PROVE  /\ q.cookie \in Words /\ AfterCookie(q) \in Seq(Words)
               /\ StartsOutside(AfterCookie(q), ";cookie:")
    BY <1>1, <1>3 DEF StartsOutside
  <2>2. Tagged(";cookie:", q1.cookie) \o AfterCookie(q1)
          = Tagged(";cookie:", q2.cookie) \o AfterCookie(q2)
    BY <1>8 DEF AfterQuery
  <2>3. ";cookie:" \in Words
    BY <1>1m DEF Marks
  <2> QED
    BY <2>1, <2>2, <2>3, FirstTag
<1>10. q1.auth = q2.auth
  <2>1. Tagged(";auth:", q1.auth) \o <<>> = Tagged(";auth:", q2.auth) \o <<>>
    BY <1>9 DEF AfterCookie
  <2>2. ";auth:" \in Words /\ <<>> \in Seq(Words) /\ StartsOutside(<<>>, ";auth:")
    BY <1>1m, EmptySeq DEF Marks, StartsOutside
  <2> QED
    BY <1>1, <2>1, <2>2, FirstTag
<1> QED
  BY <1>7, <1>8, <1>9, <1>10 DEF Identity

-----------------------------------------------------------------------------
(* What a request is replied *)

\* An answer is to a request.
LEMMA AnswerTo == \A r \in Answers : r.body.to \in Queries
<1> SUFFICES ASSUME NEW r \in Answers PROVE r.body.to \in Queries
  OBVIOUS
<1>1. PICK q \in Queries, url \in Urls, by \in Targets \cup {Elsewhere}, lines \in Controls :
        r = Response(q, url, by, lines)
  BY DEF Answers
<1> QED
  BY <1>1 DEF Response

\* A hit answers this request.
LEMMA HitIsRight ==
  ASSUME KeysTellApart, FiledInv, NEW c \in Tasks, Lookup(c), answer' # NoAnswer
  PROVE  /\ Identity(answer'.response.body.to) = Identity(req[c])
         /\ NeverReaddressed => Given(answer'.response)
<1>1. req[c] \in Queries /\ Cached!Get(KeyOf(req[c]), req[c].lines)
  BY SameGet DEF FiledInv, TypeInv, OnRoute, Lookup
<1> DEFINE k == KeyOf(req[c])
<1>2. k \in CacheKeys /\ entries[k] # NoEntry /\ answer' = entries[k]
  BY <1>1 DEF CacheKeys, Cached!Get, Cached!Hit, Cached!Cached
<1>3. entries[k].key = k /\ entries[k].response \in Answers
  BY <1>2 DEF FiledInv, TypeInv, Cached!TypeInv, Cached!TypeOK, Cached!Entry, CacheKeys
<1>4. Filed(entries[k])
  BY <1>2 DEF FiledInv
<1>5. entries[k].response.body.to \in Queries
  BY <1>3, AnswerTo
<1> QED
  BY <1>1, <1>2, <1>3, <1>4, <1>5 DEF Filed, KeysTellApart

\* RightAnswer, of one task.
Right(c) ==
  reply[c] # NoReply /\ FromTarget(reply[c])
    => /\ Identity(reply[c].body.to) = Identity(req[c])
       /\ NeverReaddressed => Given(reply[c])

RightInv == FiledInv /\ \A c \in Tasks : Right(c)

\* Nothing is replied at first.
LEMMA RightInit == Init => RightInv
BY FiledInit DEF Init, RightInv, Right

\* What a task replies itself is right.
LEMMA OwnReply ==
  ASSUME KeysTellApart, FiledInv, NEW c \in Tasks, Right(c), TaskStep(c)
  PROVE  Right(c)'
<1>a. TypeInv /\ Types
  BY DEF FiledInv, TypeInv
<1>1. CASE (\E q \in Queries : Arrive(c, q)) \/ Done(c) \/ Disconnect(c)
  <2>1. reply'[c] = NoReply
    BY <1>a, <1>1 DEF Arrive, Done, Disconnect, Clear, Types
  <2> QED
    BY <2>1 DEF Right
<1>2. CASE Lookup(c)
  <2>1. req' = req
    BY <1>2 DEF Lookup
  <2>2. CASE answer' = NoAnswer
    BY <1>2, <2>1, <2>2 DEF Lookup, Right, Given, FromTarget
  <2>3. CASE answer' # NoAnswer
    <3>1. reply'[c] = answer'.response
      BY <1>a, <1>2, <2>3 DEF Lookup, Types
    <3> QED
      BY <1>2, <2>1, <2>3, <3>1, HitIsRight DEF Right, Given, Identity
  <2> QED
    BY <2>2, <2>3
<1>3. CASE \/ SkipRoute(c) \/ TakeRoute(c) \/ Selected(c) \/ NoneSelected(c)
           \/ BodyReceived(c)
  <2>1. UNCHANGED <<reply, req>>
    BY <1>3 DEF SkipRoute, TakeRoute, Selected, NoneSelected, BodyReceived
  <2> QED
    BY <2>1 DEF Right, Given, FromTarget
<1>4. CASE NoRoute(c) \/ BodyFailed(c) \/ Failed(c)
  <2>1. reply'[c] \in {NotFound, BadGateway}
    BY <1>a, <1>4 DEF NoRoute, BodyFailed, Failed, Reply, Types
  <2> QED
    BY <2>1 DEF Right, FromTarget
<1>5. CASE Answered(c)
  <2>1. req' = req
    BY <1>5 DEF Answered
  <2>2. (NeverReaddressed => Given(reply'[c])) /\ reply'[c].body.to = req[c]
    BY <1>a, <1>5, AnswerGiven DEF Reply, Types
  <2> QED
    BY <2>1, <2>2 DEF Right, Given
<1> QED
  BY <1>1, <1>2, <1>3, <1>4, <1>5 DEF TaskStep, Step

\* Every action keeps the replies right.
LEMMA RightStep ==
  ASSUME KeysTellApart, RightInv, [Next]_vars
  PROVE  RightInv'
<1>a. FiledInv /\ FiledInv' /\ Types
  BY FiledStep DEF RightInv, FiledInv, TypeInv
<1>1. ASSUME NEW c \in Tasks, TaskStep(c), NEW d \in Tasks
      PROVE  Right(d)'
  <2>1. CASE d = c
    BY <1>a, <1>1, <2>1, OwnReply DEF RightInv
  <2>2. CASE d # c
    <3>1. reply'[d] = reply[d] /\ req'[d] = req[d]
      BY <1>a, <1>1, <2>2, OthersStay
    <3> QED
      BY <3>1 DEF RightInv, Right, Given, FromTarget
  <2> QED
    BY <2>1, <2>2
<1>2. CASE (\E p \in Putters : PutStep(p)) \/ (\E t \in Flapping : SetHealthy(t))
             \/ Tick \/ UNCHANGED vars
  <2>1. UNCHANGED <<reply, req>>
    BY <1>2 DEF PutStep, StartPut, DropPut, FinishPut, SetHealthy, Tick, vars
  <2> QED
    BY <1>a, <2>1 DEF RightInv, Right, Given, FromTarget
<1> QED
  BY <1>a, <1>1, <1>2 DEF RightInv, Next, TaskStep

\* Whatever tasks, puts and flags do, a reply that is an answer, be it from the
\* cache or not, answers this request, and a target of a route that matches it
\* was asked for the path which that route leaves, and answered or redirected
\* (proxy.rs:34-95).  Provided that requests which differ have different cache
\* keys, as they have by PlainQueriesTellApart, and that what a route leaves of
\* a path does not make another address of the target's.
THEOREM AnswersCorrect ==
  ASSUME KeysTellApart, NeverReaddressed PROVE Spec => []RightAnswer
<1>1. RightInv /\ [Next]_vars => RightInv'
  BY RightStep
<1>2. RightInv => RightAnswer
  BY DEF RightInv, Right, Given, Identity, RightAnswer
<1> QED
  BY RightInit, <1>1, <1>2, PTL DEF Spec

=============================================================================

------------------------------- MODULE Proxy -------------------------------
(***************************************************************************)
(* ProxyHandler (proxy.rs): the life of requests, over the Router of one   *)
(* server, its ResponseCache, and the health flags of its targets.         *)
(*                                                                         *)
(* Each connection is a task that handles one request at a time; a cached  *)
(* response is stored by a task of its own.  select_target is not one      *)
(* step: a call of it is a call of Selection, which Upstream implements.   *)
(***************************************************************************)
EXTENDS Router, FiniteSets

CONSTANTS
  Tasks,      \* connections
  Queries,    \* the requests that clients make: see the fields in KeyOf
  Controls,   \* Cache-Control lines of targets' responses
  Flapping,   \* the targets whose health check ever changes its mind
  Putters,    \* bound on put tasks in flight
  Caching,    \* does the server have a cache?
  Readdressing, \* the lexemes that, written behind the port of a URL, make it
                \* the URL of another address: more digits, an @ and a host
  Redirecting,  \* the targets that redirect requests, to whatever address
  Elsewhere,    \* an address that is not the selected target's
  NotFound, BadGateway,  \* the replies of the proxy itself: 404, 502
  None, NoEntry, NoAnswer,
  MaxSizes, DefaultTtl, MaxInstant, MaxTime  \* see ResponseCache

Targets == UNION {TargetsOf[u] : u \in DOMAIN TargetsOf}

\* target_url: "http://host:port" and the path, with nothing in between.  It is
\* the target's URL if the path is empty or begins with a slash; if what the
\* path begins with makes another address of it, it is that one's; otherwise
\* it is not a URL.
NoUrl == None

Url(t, path) ==
  LET readdressed == path # <<>> /\ Head(path) \in Readdressing
      rest == IF readdressed THEN Tail(path) ELSE path
  IN  IF rest = <<>> \/ Head(rest) = "/"
      THEN [at |-> IF readdressed THEN Elsewhere ELSE t,
            path |-> IF rest = <<>> THEN <<"/">> ELSE rest]
      ELSE NoUrl

\* Who may answer a request to an address: reqwest follows redirects.
Answerers(address) ==
  {address} \cup (IF address \in Redirecting THEN {Elsewhere} ELSE {})

\* An answer remembers which request it answers, to which URL this was sent and
\* who answered.
Response(q, url, by, lines) ==
  [body |-> [to |-> q, url |-> url, by |-> by],
   cacheable |-> TRUE, lines |-> lines, expires |-> None]

Urls == {Url(t, TargetPath(Routes[i], q.path)) :
           t \in Targets, i \in 1..Len(Routes), q \in Queries}

Answers == {Response(q, url, by, lines) :
  q \in Queries, url \in Urls \ {NoUrl}, by \in Targets \cup {Elsewhere}, lines \in Controls}

VARIABLES
  healthy,  \* Target::healthy
  pc,       \* where each task is
  req,      \* the request it handles
  route,    \* the index of the route it considers
  target,   \* the target it has selected
  reply,    \* what it replied
  jobs,     \* the put calls that have been spawned and have not started
  up, down,   \* of the running calls of select_target: see Selection
  downDuring, \* targets down at some instant of the routing
  max_size, now, entries, size, puts, answer  \* ResponseCache

Cacheable == {"GET", "HEAD"}

\* Mutants: any method is cached; the query is not part of the key.
AnyMethodCacheable(q) == TRUE
MethodCacheable(q) == q.method \in Cacheable

Tagged(tag, value) == IF value = None THEN <<>> ELSE <<tag, value>>

KeyWithoutQuery(q) ==
  <<q.method, ":", q.host>> \o q.path
    \o Tagged(";cookie:", q.cookie) \o Tagged(";auth:", q.auth)

\* generate_cache_key
KeyOf(q) ==
  (IF q.host = NoHost THEN <<q.method, ":">> ELSE <<q.method, ":", q.host>>)
    \o q.path \o Tagged("?", q.query)
    \o Tagged(";cookie:", q.cookie) \o Tagged(";auth:", q.auth)

Cache == INSTANCE ResponseCache WITH
  Keys <- {KeyOf(q) : q \in Queries},
  Responses <- Answers,
  Requests <- {q.lines : q \in Queries}

ASSUME QueriesAssumption ==
  /\ IsFiniteSet(Queries)
  /\ \A q \in Queries : q.lines \in Cache!HeaderLines /\ IsPath(q.path)
ASSUME ControlsAssumption == Controls \subseteq Cache!HeaderLines
ASSUME CacheAssumption ==
  /\ None \notin Int /\ MaxSizes \subseteq Nat
  /\ DefaultTtl \in Nat /\ MaxTime \in Nat /\ MaxInstant \in Nat
ASSUME FlappingAssumption == Flapping \subseteq Targets
ASSUME AddressAssumption == Redirecting \subseteq Targets /\ "/" \notin Readdressing

cached == <<max_size, now, entries, size, puts, answer>>
routing == <<up, down, downDuring>>
vars == <<healthy, pc, req, route, target, reply, jobs, routing, cached>>

\* A request's call of select_target asks among the targets of its route.
Select == INSTANCE Selection WITH
  Callers <- Tasks,
  NoTarget <- NoAnswer,
  asking <- {c \in Tasks : pc[c] = "select"},
  among  <- [c \in Tasks |-> IF pc[c] = "select" THEN UpstreamTargets(route[c]) ELSE {}],
  given  <- target

NoRequest == NoAnswer
NoTarget == NoAnswer
NoReply == NoAnswer
NoJob == NoEntry

Init ==
  /\ pc = [c \in Tasks |-> "idle"]
  /\ req = [c \in Tasks |-> NoRequest]
  /\ route = [c \in Tasks |-> 1]
  /\ reply = [c \in Tasks |-> NoReply]
  /\ jobs = [p \in Putters |-> NoJob]
  /\ downDuring = [c \in Tasks |-> {}]
  /\ target = [c \in Tasks |-> NoTarget]
  /\ Select!Init
  /\ Cache!Init

Uses(q) == Caching /\ MethodCacheable(q)
Down == Targets \ Select!Up
FirstRoute(c) == Routes[1]  \* mutant: the first route's prefix is stripped
CurrentRoute(c) == Routes[route[c]]

-----------------------------------------------------------------------------
(* handle_request *)

\* hyper hands a connection's next request to handle_request.
Arrive(c, q) ==
  /\ pc[c] = "idle"
  /\ req' = [req EXCEPT ![c] = q]
  /\ route' = [route EXCEPT ![c] = 1]
  /\ target' = [target EXCEPT ![c] = NoTarget]
  /\ reply' = [reply EXCEPT ![c] = NoReply]
  /\ downDuring' = [downDuring EXCEPT ![c] = Down]
  /\ pc' = [pc EXCEPT ![c] = IF Uses(q) THEN "lookup" ELSE "walk"]
  /\ UNCHANGED <<healthy, jobs, up, down, cached>>

\* The cache is asked; a hit is the reply.
Lookup(c) ==
  /\ pc[c] = "lookup"
  /\ Cache!Get(KeyOf(req[c]), req[c].lines)
  /\ IF answer' = NoAnswer
     THEN /\ pc' = [pc EXCEPT ![c] = "walk"]
          /\ UNCHANGED reply
     ELSE /\ pc' = [pc EXCEPT ![c] = "replied"]
          /\ reply' = [reply EXCEPT ![c] = answer'.response]
  /\ UNCHANGED <<healthy, req, route, target, jobs, routing>>

\* Mutants: the later routes are not tried; the same one is tried again; one is
\* jumped over.
StopAtRoute(c) == Len(Routes) + 1
SameRoute(c) == route[c]
SecondNextRoute(c) == route[c] + 2
NextRoute(c) == route[c] + 1

\* The loop of route_request at a route that does not match.
SkipRoute(c) ==
  /\ pc[c] = "walk"
  /\ route[c] <= Len(Routes)
  /\ ~Matches(CurrentRoute(c), req[c].host, req[c].path)
  /\ route' = [route EXCEPT ![c] = NextRoute(c)]
  /\ UNCHANGED <<healthy, pc, req, target, reply, jobs, routing, cached>>

\* ... at a route that matches: its upstream is asked for a target.
TakeRoute(c) ==
  /\ pc[c] = "walk"
  /\ route[c] <= Len(Routes)
  /\ Matches(CurrentRoute(c), req[c].host, req[c].path)
  /\ pc' = [pc EXCEPT ![c] = "select"]
  /\ UNCHANGED <<req, route, reply, jobs, downDuring, cached>>
  /\ Select!Ask(c, UpstreamTargets(route[c]))

\* select_target returns a target: the walk is over.
Selected(c) ==
  /\ pc[c] = "select"
  /\ pc' = [pc EXCEPT ![c] = "body"]
  /\ UNCHANGED <<req, route, reply, jobs, downDuring, cached>>
  /\ \E t \in UpstreamTargets(route[c]) : Select!Give(c, t)

\* select_target returns None: the next routes are tried.
NoneSelected(c) ==
  /\ pc[c] = "select"
  /\ route' = [route EXCEPT ![c] = NextRoute(c)]
  /\ pc' = [pc EXCEPT ![c] = "walk"]
  /\ UNCHANGED <<req, reply, jobs, downDuring, cached>>
  /\ Select!GiveNone(c)

Reply(c, r) ==
  /\ reply' = [reply EXCEPT ![c] = r]
  /\ pc' = [pc EXCEPT ![c] = "replied"]

NoRoute(c) ==
  /\ pc[c] = "walk"
  /\ route[c] > Len(Routes)
  /\ Reply(c, NotFound)
  /\ UNCHANGED <<healthy, req, route, target, jobs, routing, cached>>

\* What target_url is for the request of task c.
RequestUrl(c) == Url(target[c], TargetPath(CurrentRoute(c), req[c].path))

\* The client's body is there, and the request is sent on.  Nothing limits how
\* long this takes.
BodyReceived(c) ==
  /\ pc[c] = "body"
  /\ pc' = [pc EXCEPT ![c] = "sent"]
  /\ UNCHANGED <<healthy, req, route, target, reply, jobs, routing, cached>>

BodyFailed(c) ==
  /\ pc[c] = "body"
  /\ Reply(c, BadGateway)
  /\ UNCHANGED <<healthy, req, route, target, jobs, routing, cached>>

\* The request was answered: the answer is the reply, and a put of it is spawned.
Answered(c) ==
  /\ pc[c] = "sent"
  /\ RequestUrl(c) # NoUrl
  /\ \E by \in Answerers(RequestUrl(c).at), lines \in Controls :
       LET r == Response(req[c], RequestUrl(c), by, lines)
       IN  /\ Reply(c, r)
           /\ IF Uses(req[c])
              THEN \E p \in Putters :
                     /\ jobs[p] = NoJob /\ puts[p] = NoEntry
                     /\ jobs' = [jobs EXCEPT ![p] = [key |-> KeyOf(req[c]), response |-> r]]
              ELSE UNCHANGED jobs
  /\ UNCHANGED <<healthy, req, route, target, routing, cached>>

\* target_url is not a URL, or whoever was asked refused the connection, broke
\* it off, or took over 30 seconds.
Failed(c) ==
  /\ pc[c] = "sent"
  /\ Reply(c, BadGateway)
  /\ UNCHANGED <<healthy, req, route, target, jobs, routing, cached>>

\* The task is ready for its next request.
Clear(c) ==
  /\ pc' = [pc EXCEPT ![c] = "idle"]
  /\ req' = [req EXCEPT ![c] = NoRequest]
  /\ route' = [route EXCEPT ![c] = 1]
  /\ target' = [target EXCEPT ![c] = NoTarget]
  /\ reply' = [reply EXCEPT ![c] = NoReply]
  /\ downDuring' = [downDuring EXCEPT ![c] = {}]
  /\ UNCHANGED <<healthy, up, down, jobs, cached>>

\* The reply is written.
Done(c) == pc[c] = "replied" /\ Clear(c)

\* The client closes its connection: hyper drops the future of handle_request
\* where it awaits, and nothing of it runs any more.
Disconnect(c) == pc[c] \in {"body", "sent"} /\ Clear(c)

-----------------------------------------------------------------------------
(* The spawned puts, the health checker and the clock. *)

StartPut(p) ==
  /\ jobs[p] # NoJob
  /\ Cache!Prepare(p, jobs[p].key, jobs[p].response)
  /\ jobs' = [jobs EXCEPT ![p] = NoJob]
  /\ UNCHANGED <<healthy, pc, req, route, target, reply, routing>>

\* put ends early: the response is not cacheable, or its expiry overflows.
DropPut(p) ==
  /\ jobs[p] # NoJob
  /\ \/ ~Cache!IsCacheable(jobs[p].response)
     \/ ~Cache!FitsInstant(jobs[p].response)
  /\ jobs' = [jobs EXCEPT ![p] = NoJob]
  /\ UNCHANGED <<healthy, pc, req, route, target, reply, routing, cached>>

FinishPut(p) ==
  /\ Cache!Commit(p)
  /\ UNCHANGED <<healthy, pc, req, route, target, reply, jobs, routing>>

Routing(c) == pc[c] \in {"lookup", "walk", "select"}

\* The health checker changes its mind about target t.
SetHealthy(t) ==
  /\ downDuring' = [c \in Tasks |-> IF Routing(c) /\ healthy[t]
                                    THEN downDuring[c] \cup {t} ELSE downDuring[c]]
  /\ UNCHANGED <<pc, req, route, reply, jobs, cached>>
  /\ Select!SetHealthy(t, ~healthy[t])

Tick ==
  /\ Cache!Tick
  /\ UNCHANGED <<healthy, pc, req, route, target, reply, jobs, routing>>

\* What a task does without waiting for its client.
Step(c) ==
  \/ Lookup(c) \/ SkipRoute(c) \/ TakeRoute(c)
  \/ Selected(c) \/ NoneSelected(c) \/ NoRoute(c)
  \/ Answered(c) \/ Failed(c)

PutStep(p) == StartPut(p) \/ DropPut(p) \/ FinishPut(p)

Next ==
  \/ \E c \in Tasks :
       \/ \E q \in Queries : Arrive(c, q)
       \/ Step(c) \/ BodyReceived(c) \/ BodyFailed(c) \/ Done(c) \/ Disconnect(c)
  \/ \E p \in Putters : PutStep(p)
  \/ \E t \in Flapping : SetHealthy(t)
  \/ Tick

Spec == Init /\ [][Next]_vars

\* Ready tasks are polled, and a target's answer or the timeout comes; clients
\* need neither send a request nor finish its body.
FairSpec ==
  /\ Spec
  /\ \A c \in Tasks : WF_vars(Step(c))
  /\ \A p \in Putters : WF_vars(PutStep(p))

-----------------------------------------------------------------------------
(* Properties *)

\* Types of the state: a task past its routing has a target of the route.
TypeOK ==
  /\ healthy \in [Targets -> BOOLEAN]
  /\ pc \in [Tasks -> {"idle", "lookup", "walk", "select", "body", "sent", "replied"}]
  /\ req \in [Tasks -> Queries \cup {NoRequest}]
  /\ route \in [Tasks -> 1..(Len(Routes) + 1)]
  /\ reply \in [Tasks -> Answers \cup {NotFound, BadGateway, NoReply}]
  /\ \A c \in Tasks : pc[c] \in {"body", "sent"} => target[c] \in UpstreamTargets(route[c])
  /\ Cache!TypeOK

FromTarget(r) == r \notin {NotFound, BadGateway, NoReply}

Identity(q) == <<q.method, q.host, q.path, q.query, q.cookie, q.auth>>

\* The request for path is the target's, with the prefix of its route stripped
\* and nothing else changed: "/api/users becomes /users" (README.md:122-128).
Stripped(via, t, path, url) ==
  /\ url.at = t
  /\ Head(url.path) = "/"
  /\ LET prefix == MatchedPrefix(via, path)
     IN  path = prefix \o url.path \/ (path = prefix /\ url.path = <<"/">>)

\* Whatever tasks and puts overlap, a reply that is some answer answers this very
\* request: same method, host, path, query, cookies and authorization, be it
\* from the cache or not; and a target of a route that matches the request was
\* asked for what this route leaves of the path, and answered, or the address
\* that it redirected to did (proxy.rs:34-95, cache.rs:267-299).
RightAnswer ==
  \A c \in Tasks :
    reply[c] # NoReply /\ FromTarget(reply[c])
      => LET body == reply[c].body
         IN  /\ Identity(body.to) = Identity(req[c])
             /\ \E i \in MatchingRoutes(req[c].host, req[c].path) :
                  \E t \in UpstreamTargets(i) :
                    /\ Stripped(Routes[i], t, req[c].path, body.url)
                    /\ body.by = t \/ t \in Redirecting

\* "Automatic path prefix stripping for clean backend requests" (README.md:13): a
\* request that is sent on is the selected target's, for what its route leaves
\* of the path (proxy.rs:86-95).  Does not hold: nothing puts a slash between
\* the port and what is left.
CleanRequest ==
  \A c \in Tasks : pc[c] = "sent" =>
    /\ RequestUrl(c) # NoUrl
    /\ Stripped(CurrentRoute(c), target[c], req[c].path, RequestUrl(c))

\* Only GET and HEAD requests are cached (README.md:301).
OnlySafeMethodsCached ==
  \A k \in Cache!Cached : entries[k].response.body.to.method \in Cacheable

\* The routes are tried in order: a route is passed over only if every target
\* of its upstream was down at some instant of the routing.  404 passes over
\* all of them (router.rs:60-81).
EarlierRoutesDown ==
  \A c \in Tasks : pc[c] \in {"walk", "select", "body"} =>
    \A i \in MatchingRoutes(req[c].host, req[c].path) :
      i < route[c] => UpstreamTargets(i) \subseteq downDuring[c]

\* However often flags change while it routes, a request gets to wait for its
\* client's body, or is replied to; once it is sent on, it is replied to, unless
\* the client goes away (proxy.rs:58-169).
RequestsAnswered ==
  \A c \in Tasks : pc[c] \in {"lookup", "walk", "select", "sent"}
                    ~> pc[c] \in {"body", "replied", "idle"}

=============================================================================

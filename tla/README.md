# A formal model of sret

sret is a reverse proxy: it accepts HTTP requests, chooses a route and one of
the route's targets, forwards the request, may answer from a cache, and probes
its targets in the background. This directory holds TLA+ modules translated from
its source, TLC runs that check them on small instances, and theorems that TLAPS
checks for every instance. Paths below are relative to the repository.

    tlc -config select.cfg MCUpstream      # one run; see "Runs"
    tlapm UpstreamProofs.tla               # the proofs of one module

`PROJECT.json` lists components, runs, mutants (one small bug per property that
makes it fail), the source lines each definition stands for, findings, hazards
and theorems.

## The system

| Component | State | Operations | Talks to |
|---|---|---|---|
| **Target** (`src/target.rs`) | atomics `healthy`, `active_connections` | read and set the flag, count connections, `connection_score` | shared by request tasks and the health checker |
| **Upstream** (`src/upstream.rs`) | targets, strategy, atomic `round_robin_counter` | `select_target` and its four strategies | called by the router; reads targets without a lock |
| **HealthChecker** (`src/health_check.rs`) | the position in a round; tokio's interval | probe every target in turn, store the verdict | one task per upstream and server; sets `healthy` |
| **CacheControl** (`src/cache.rs`) | none | `from_headers` | used by `get` and `put` |
| **ResponseCache** (`src/cache.rs`) | map and metrics behind `RwLock`s | `get`, `put`, `evict_lru` | read by request tasks, written by tasks they spawn |
| **Router** (`src/router.rs`) | routes, upstreams (immutable) | `route_request` | asks upstreams for targets |
| **ProxyHandler** (`src/proxy.rs`) | none of its own | `handle_request`, `do_proxy_request` | cache, router, targets; spawns puts |
| **Server** (`src/server.rs`, `main.rs`) | the above, one set per server | TLS set-up, spawn checkers, bind, accept | `Config` |
| **Config** (`src/config.rs`) | none | parse, `validate` | read once by `main` |

Each server builds its own router, upstreams, targets and cache from the shared
configuration, so a target's flag has exactly one writer.

What is hard in it, and what makes each component correct:

- *Upstream.* A call of `select_target` loads one flag after the other while the
  health checker stores them; the weighted strategy scans a second time, and
  `min_by` reads scores anew at every comparison. Correct means: nothing that
  was down all along is selected; `None` only when every target was down at some
  point; turns are shared by the slots although callers run at once and the
  counter wraps; least connections finds a lowest score; every call returns.
- *HealthChecker.* Probes are sequential and each may take the whole timeout, so
  a verdict is old when it is stored and a round may overrun its interval; the
  flag is stored only if it differs from a value read before the `await`.
  Correct means: the flag is the last verdict, follows a target within a bound
  that can be stated, rounds keep their schedule, and in the end bad targets are
  excluded and good ones re-added.
- *ResponseCache.* `put` reads the clock and only then queues for the write
  lock, in a task that outlives its request. Correct means: bounded, never
  serves what is expired, forbidden or of another key, evicts the right entry.
- *Router and ProxyHandler.* Routes are tried in order while flags change; a
  client may go away at any `await`; puts commit behind later requests. Correct
  means: an answer belongs to its request and to a route that matches it, what is
  asked for is what the route leaves of the path, a route is passed over only for
  cause, and a request that can go on is answered.
- *Server and Config.* Servers come up at the same time; a certificate may not
  load, an address may be taken by another process or by a server of the same
  file, a client may never finish its handshake, `accept` may fail. Correct means: what can be
  served is served and stays so, every upstream is watched by its own checker
  and nobody else's, one client does not hold up another, and a process that
  serves nothing ends.

## Modules

| Module | Models | State and actions |
|---|---|---|
| `Selection` | abstract | what a call of `select_target` promises: `Ask`, then `Give` a target that was up at some instant of the call, or `GiveNone` when each was down at some instant of it |
| `Upstream` | `upstream.rs`, `target.rs` | `healthy`, `connections`, `counter` are the atomics; `pc`, `pos`, `list`, `target`, `score` the locals of each running call. One action per loop iteration or atomic operation: `Filter`, `TakeTurn`, `ScoreLeft`, `ScoreRight`, `Weigh`, ... `SetHealthy` is the health checker at any instant. |
| `HealthCheck` | one `HealthChecker`, with a clock | `Start`, `BeginRound`, `BeginProbe`, `Answered`, `TimedOut`, `EndRound`; `Change` is a target that begins to act differently, `Tick` the clock. `due` counts down to tokio's next deadline, and is negative when it was missed. |
| `Failover` | a checker and the requests that read its flags | `HealthCheck` (EXTENDS) and `Selection` (`Select == INSTANCE`) over one `healthy`; `settled` remembers, for a running call, which targets' states were old news when it began |
| `CacheControl` | `CacheControl::from_headers` | operators only |
| `ResponseCache` | `ResponseCache` | `Get` (under the read lock), `Prepare` and `Commit` (the two halves of `put`), `Tick` |
| `CacheUse` | `ResponseCache` with a history of uses | adds `lastUse`, which the code does not keep |
| `TtlStore` | abstract | what a cache promises whatever its size and policy: a request is given only a copy that was offered for its key, may be stored, is inside its lifetime and fresh enough for the request; copies may be lost at any time |
| `Router` | `router.rs`, the path that `proxy.rs` forwards | operators only |
| `Proxy` | `handle_request`, `do_proxy_request`, the walk over the routes | composes `Router` (EXTENDS), `ResponseCache` (`Cache == INSTANCE`) and `Selection` (`Select == INSTANCE`): `Arrive`, `Lookup`, `SkipRoute`, `TakeRoute`, `Selected`, `NoneSelected`, `NoRoute`, `BodyReceived`, `Answered`, `Failed`, `Disconnect`, and the puts; `Url` is the URL that port and path make |
| `Lifecycle` | `main`, `validate`, `Server::new`, `Server::start`, `start_all` | `config` is the file; `server` and `manager` are the tasks of each server, `checkers` the checker tasks, `stage` and `peer` the connections, `backlog` what the kernel has queued behind each listener. `LoadConfig`, `RefuseConfig`, `SpawnServer`, `StartServer`, `StartAll`, `Bind`, `Connect`, `Accept` and `AcceptFails` of each server's loop, `Handshake`, `Close`, `JoinServer`, `FinishJoin`, ... |
| `MCUpstream`, `MCResponseCache`, `MCProxy`, `MCLifecycle` | - | weights, requests, responses, routes and files for TLC |
| `UpstreamProofs`, `SelectionProofs`, `BalanceProofs` | - | theorems about `Upstream`; the last two extend the first |
| `HealthCheckProofs`, `FailoverProofs` | - | theorems about `HealthCheck` and, on top of them, `Failover` |
| `CacheProofs`, `ProxyProofs`, `LifecycleProofs` | - | theorems about `ResponseCache`, `Proxy` (which instantiates `CacheProofs`) and `Lifecycle` |

Composition: neither `Proxy` nor `Failover` repeats the loads of `select_target`.
Both call `Selection`, and `Upstream` implements it: that is `ImplementsSelection`,
checked in `select` and proved in `SelectionProofs`. (`Selection!Ask` takes the
targets that have a share; `Proxy` asks among all targets of a route, and so leaves
out a target of weight 0 under the weighted strategy.) `Upstream` and `HealthCheck`
take it for granted that a flag has one writer; `OneWriter` of `Lifecycle` says that
the checkers the servers start are such. What `HealthCheck` promises of one checker
and `Selection` of one call come together in `FailsOver`. Requests are not joined to
`Lifecycle`: a connection there is served or not, and what is served is `Proxy`.

Abstractions: a response is its status class, its Cache-Control lines and its
Expires offset; a path is a sequence of lexemes, so that prefixes of the text are
prefixes of the sequence; `DomainOf` stands for the splitting and lower-casing of
a Host header; time is in ticks; a server's address is one value, and whether it
can be bound depends on the listeners of this process and on the addresses that
others hold, which are chosen when the process starts. An address with port 0 is
left out. A connection takes a descriptor from `Accept` to `Close`, of which there are
`MaxOpen`; the descriptors of listeners and of requests to targets are not counted, and
a kernel's queue has no limit. `connection_score`
divides two `f64`; the model compares the quotients exactly, which is what the
rounded ones do too as long as no count times a weight reaches 2^52. Two loads are
merged in `Upstream` where no order can be told apart (its header says which).

`proxy.rs` writes port and path one after the other. `Url` is what comes of it: the
target's URL if the path begins with a slash or is empty, that of another address
(`Elsewhere`) if the path begins with one of `Readdressing`, such as a digit, and otherwise
none, so that `send` fails. What reqwest does to the text of a URL besides, such as
resolving dot segments, is left out. reqwest follows redirects, since nothing tells it not
to: a target of `Redirecting` may answer itself or have `Elsewhere` answer. Of the Host,
Cookie and Authorization lines a request may have several of each; the key takes the first
of each, if it is text, while all are forwarded. A request of the model has at most one of
each, so that two requests which differ in a second line only, and share a key, do not
occur in it.

Definitions marked "mutant" are plausible bugs that no action uses.

## Runs

| Run | Instance | Shows |
|---|---|---|
| `select` | 2 targets, weights 0 and 2, 2 callers, all strategies, both flags flip | `SelectedWasHealthy`, `NoneNeedsOutage`, `TypeOK`, that every call returns (`CallsReturn`), and that all of it is a `Selection` (`ImplementsSelection`) |
| `balance` | 3 targets of weights 1, 0, 2, one of which flaps, 3 callers, counter modulo 4, 9 turns, connections counted | `ProportionalShare`: turns differ by at most one round, plus one for each wrap; `LowestScore`: a call that nothing disturbs gives a lowest score |
| `failover` | 2 targets, timeout 1, intervals 0, 1 and 2, 1 caller | `FlagIsLastVerdict`, `DetectionBound`, `RoundsOnSchedule`, in the end `ProbedExcluded` and `RecoveredReadded`, and for the requests `FailsOver` |
| `cache` | 2 keys, 0, 1 or 2 places, 2 puts, every kind of request and response | `ImplementsStore`: the cache refines `TtlStore`; `Bounded`; `EvictsFirstCreated`: what is dropped was created no later than what stays; `ForbiddenNeverCached` for headers on one line |
| `routing` | 3 routes that overlap, 3 flapping targets and one that is always up, one of them redirects, one path is no URL behind the port, a cache | `EarlierRoutesDown`, `RightAnswer`, `RequestsAnswered`, `TypeOK` |
| `proxy_cache` | 2 connections, 2 puts, 1 place, 1 tick, requests that differ in query, host and method | `RightAnswer`, `OnlySafeMethodsCached` |
| `lifecycle` | 9 files, any of 2 addresses taken, 3 connections, 2 descriptors | `OneWriter`, `AddressServed`, `IdleProcessExits`, `PendingAccepted`, `TypeOK` |
| `least_as_proxied` | 2 targets, nobody counts | violated: see below |
| `checker_zero` | interval 0 | violated: see below |
| `cache_lru` | 3 keys, 2 places, 1 put | violated: see below |
| `cache_forbidden` | a header on a second line | violated: see below |
| `proxy_glued` | a route whose prefix ends in a slash | violated: see below |

### Bounds

- Two callers are enough for an interleaving of two calls; a call never looks at
  another call's locals, only at the flags, the counts and the counter. `balance`
  takes three, so that connections can differ by two.
- `MaxFetches` bounds turns. In `balance` it is more than twice `CounterMod`, so
  the counter wraps twice and both cut rounds occur; 4 is not a multiple of the
  lists' lengths, which is the case that matters.
- In `failover` a round of timeouts takes 2 ticks: it fits in the interval 2 and
  not in 1. `MaxAge` exceeds every `Notice(t)` of the intervals used, so a late
  flag would be seen; `MaxLag` is what a round can be late by at once. Two targets
  show the delay of one behind the other; calls do not disturb each other, so one
  caller is enough.
- `cache` has two keys, and so one victim to choose wrongly. `MaxTime` is beyond
  the default lifetime and `max-age` 1, and `MaxInstant` below the "endless"
  lifetime, which is there to overflow it. In `proxy_cache` an entry
  expires once; `routing` lets no time pass.
- In `cache_lru` every use has an instant of its own (`NewInstant`), as it has in the
  code, so that `evict_lru` never chooses between equals, and one put runs at a time. Four instants are enough to
  store two keys, serve the first, and store a third; lifetimes exceed them.
- In `lifecycle` two unfinished handshakes take both descriptors while a third client
  waits, behind the same listener or another one.
- The files of `lifecycle` are the kinds that the code tells apart: with and
  without checkers, an upstream without targets, a certificate that loads and one
  that does not, two servers on one address, no servers, and a file for each
  refusal of `validate`.
- Symmetry is used for callers, keys, put calls and connections, in runs that
  check no liveness.

### Fairness

- `Upstream!FairSpec`: a call never awaits, so its next step is taken. Nothing is
  assumed of new calls or of the flags, which may flip for ever.
- `HealthCheck!FairSpec`: the runtime polls a ready task, and time passes. The
  targets are free to change, to hang or to stay as they are.
- `Failover!FairFailoverSpec`: the same for the checker and the clock; nothing is
  assumed of the requests.
- `Proxy!FairSpec`: a ready task is polled, and a request that was sent on comes
  to an answer or to the 30 s timeout. Clients need neither send a request nor
  finish a body: `RequestsAnswered` promises nothing while a body is awaited.
- `Lifecycle!FairSpec`: main, the servers' tasks and their managers are polled
  when they are ready, and so is the accept loop of each server. That says nothing of a
  client: it waits behind others, and a turn of the loop may be an error. Clients need
  neither connect, finish a handshake, nor go away.

## Where code and documentation disagree

Five runs keep a counterexample:

- `least_as_proxied`. `README.md:162` promises the target with the fewest active
  connections, but `proxy.rs` never counts connections: all scores are 0 and the
  first healthy target is always chosen. The selection itself is not at fault:
  `LowestScore`, in `balance`, holds whatever the counts are.
- `checker_zero`. `interval_seconds: 0` passes `validate`; `tokio::time::interval`
  panics on it, the task dies silently and no target is ever excluded
  (`README.md:210`).
- `cache_lru`. `README.md:294` says LRU, but `get` does not refresh
  `last_accessed`: the entry that was just served goes, if it was created first
  (`EvictsFirstCreated`).
- `cache_forbidden`. `README.md:303` says no-store responses are never cached,
  but only the first Cache-Control line is read.
- `proxy_glued`. `README.md:13` promises path prefix stripping "for clean backend
  requests". With the prefix `/api/`, `/api/users` becomes `users`, and the URL
  `http://host:portusers`, which is none: the client gets 502 from a target that is up.
  The prefix `/api` does the same to `/apix`.

Others were met while modelling and are kept by no run:

- `README.md:154`, even distribution: the round robin counter indexes a list that
  changes its length, so one flapping target can make two stable ones uneven for
  ever. `ProportionalShare` is about times in which no flag changes.
- `README.md:199`, every 30 seconds: when timeouts add up to more than the
  interval, a round begins late and the next ones run in a burst.
  `RoundsOnSchedule` is therefore conditional on `RoundFits`.
- `README.md:423`, `max_size`: with 0 one response is kept. `Bounded` says so.
- `README.md:236`, HTTP/1.1 over TLS: a server whose certificate does not load
  listens in plain HTTP on the same port (`HasAcceptor` of `Lifecycle`).
- `README.md:131`, combined routing: a route with domains and paths matches on
  either, not on both.
- `README.md:433-439` lists port conflicts among what validation reports on startup,
  but `validate` does not look at addresses: the second server fails at `bind`, its
  task logs that, and the process goes on. `AddressServed` shows that the address is
  served all the same.
- `proxy.rs:70`, "No matching route found" is also the reply when a route matched
  and its targets are all down.
- An Expires date in the past is not understood and yields the default lifetime.

## Proofs

`UpstreamProofs` proves, for any number of targets and callers, any weights, any
width of the counters and any flapping:

- `TypeCorrect`: `Spec => []TypeOK`; the counters stay inside their width and
  (`MinimumInList`) `min_by` reads inside its list.
- `SelectionCorrect`: `Spec => []SelectedWasHealthy`.
- `NoneCorrect`: `Spec => []NoneNeedsOutage`.

They rest on the ASSUMEs of `Upstream` only: sizes are naturals, the counter's
modulus is positive, weights are naturals, `Flapping` are targets, the strategies
are the four of the code, `NoTarget` is not a number. TLC evaluates them on every
run of `MCUpstream`.

Neither property is inductive, since it speaks of calls that are over. `IInv`
says what a running call knows: its history covers the current flags
(`FlagsRecorded`), what it collected was healthy during the call
(`CollectedWereHealthy`, `MinimumWasHealthy`), every target its scan has passed
was collected, was down, or has no share (`PassedAccountedFor`), and only the
weighted strategy scans twice (`WeighOnlyWeighted`). When the scan is over, an
empty list then accounts for every target, and an element of the list was up.
`TypeStep` and `IInvStep` go through the actions one by one; the lemmas before
them are about `%` and concatenation.

`SelectionProofs` extends it and proves `SelectionImplemented`: `Spec =>
ImplementsSelection`. Initial states map to initial states, and every step maps to a
step of `Selection` or to a stutter: `Call` to `Ask`, the five ways to return to `Give`
or `GiveNone`, the end of a request to `Forget`, a flag to `SetHealthy`. The
strengthening adds to `IInv` that whatever a call has collected has a share
(`CollectedHaveShare`), which the abstract call is limited to, and that the running
minimum is one of it (`MinimumOfLeast`).

`BalanceProofs` proves, of the same specification:

- `ShareCorrect`: `Spec => []ProportionalShare`. While no flag flaps, a scan builds a
  list in which target `t` has the places from `Until(t-1)` to `Until(t)`, the sums of
  the weights before it and up to it (`ScanInv`). A turn is therefore a slot of a round
  of `Round` slots, and after `q` rounds and `r` slots a target has been picked `q`
  times its slots, and `Part(t, r)`, more often than when the counter last wrapped
  (`Dealt`). A wrap ends the round wherever it is, which costs one round of
  difference. The sums exist by well-founded induction on the target (`WFMin`).
- `LowestScoreCorrect`: `Spec => []LowestScore`, whoever counts connections or does not.
  `QuietInv` follows the running minimum of a call that nothing disturbed: what `min_by`
  has compared scores no less, and what it reads anew is what it read.

`HealthCheckProofs` proves, for any number of targets, any interval and timeout,
and targets that do as they like:

- `TypeCorrect`: `Spec => []TypeOK`.
- `FlagCorrect`: `Spec => []FlagIsLastVerdict`. The strengthening is
  `WasIsCurrent`: while a probe runs, `was_healthy` still is the flag, because
  the checker is its only writer. It would fail with a second writer.
- `ScheduleCorrect`: `Spec => []RoundsOnSchedule`. The strengthening is `Ahead`:
  in a round, the deadline is at least an interval minus a timeout for each probe
  done, minus the time the running probe has taken, away. With `RoundFits` that
  is never negative (`FewerFit`).
- `DetectionCorrect`: `Spec => []DetectionBound`. `StaleInv` says how old a wrong
  flag can be at each place of the loop (`StaleIsRecent`): before the round it dates
  from the round before, after it only from this one; and that what a probe has seen
  is no older than the probe (`ProbeIsRecent`). The bound `Notice(t)` is what the
  positions of the list and the timeouts add up to, overrunning rounds included.

They rest on the ASSUMEs of `HealthCheck` only: there is a target, the intervals
are naturals, the timeout is a positive one.

`FailoverProofs` extends it to the requests that read the flags:

- `DetectionUnderCalls`: the bound holds with calls running beside the checker.
- `FailoverCorrect`: `FailoverSpec => FailsOver`. While a call runs, a target that
  was old news when it began, and has not changed, has been seen by the call only as
  what it is (`SettledSeen`): by `DetectionBound` its flag is right at every instant of
  the call. What a call may give is `Selection`'s promise, so that the theorem is about
  any implementation of it, and `SelectionImplemented` says that `Upstream` is one.

`CacheProofs` proves, for any keys, requests, responses, sizes and numbers of puts:

- `TypeCorrect`: `Spec => []TypeOK`.
- `BoundedCorrect`: `Spec => []Bounded`. One insertion and the eviction before it leave
  the number of entries as it was or one higher, and not higher when it was `max_size`.
- `EvictionCorrect`: `Spec => EvictsFirstCreated`. `UnreadInv` says why this is not LRU: no
  entry, prepared or held, was ever accessed after it was made. It is not first-in
  first-out either: the clock is read before the lock is taken, so a later insertion may
  be of an earlier instant.
- `ForbiddenCorrect`: `PlainResponses` implies `Spec => []ForbiddenNeverCached`. An
  entry is checked when it is prepared, and entries only move (`AllowedInv`).
- `StoreImplemented`: `PlainHeaders` implies `Spec => ImplementsStore`. `Get` maps to
  the store's answer, `Prepare` to an offer, `Commit` to keeping an offered copy and losing
  others. The strengthening says that an entry expires exactly when the lifetime its
  response states is over (`Exact`).

`PlainResponses` says that Cache-Control stands on one line and in lower case;
`PlainHeaders` adds that there is one `max-age` and no past Expires, and the same of
requests. They are hypotheses and not ASSUMEs because the code accepts other headers:
those of `cache.cfg` satisfy them, those of `cache_forbidden.cfg` do not, and there TLC
finds the property violated. Otherwise the ASSUMEs of `ResponseCache` suffice: finitely
many keys, sizes and times that are naturals, headers made of directives.

`ProxyProofs` proves, for any routes, upstreams, requests, answers and tasks:

- `TypeCorrect`: `Spec => []TypeOK`.
- `CacheImplemented`: `Spec => Cached!Spec`, where `Cached` is `CacheProofs` with the
  proxy's cache for its own: whatever the proxy does is an action of the cache or
  leaves it alone. `CacheBounded` takes `Bounded` behind the proxy that way.
- `RoutesInOrder`: `Spec => []EarlierRoutesDown`. `WalkInv`: each matching route behind
  the walk had all its targets down during it, because `downDuring` covers what the
  running call of `select_target` has seen.
- `SafeMethodsCorrect`: `Spec => []OnlySafeMethodsCached`. `FiledInv`: what is prepared or
  held under a key answers a GET or HEAD of that key, and was given by a target of a route
  that matches it.
- `AnswersCorrect`: `KeysTellApart` and `NeverReaddressed` imply `Spec => []RightAnswer`. By
  `FiledInv` a hit is the answer to a request of the same key, and so to this request.
  That a URL is the target's, for what the route leaves of the path, is
  `UrlStripped`: what is left and the prefix are the path (`PrefixAndRest`; that a first
  matching prefix exists is `WFMin`), and what is left begins with a slash, or makes no URL.
- `PlainQueriesTellApart`: `PlainQueries` implies `KeysTellApart`.

`KeysTellApart`, that requests which differ have different keys, is a hypothesis
because `generate_cache_key` escapes nothing when it joins a key from parts of which
some may be missing: it is false of a path that holds `;cookie:`. `PlainQueries` says
that no part before the query holds one of the marks, and that paths begin with a slash.
In the model a query, a cookie or a token is one value, so the marks inside them cannot
occur; of the code the same has to be asked of their text. `NeverReaddressed` says that nothing a route leaves of a path names
another address when it is written behind the port, as `1` and `@host` do; it is a hypothesis because the code checks
nothing of the kind. The instances of `MCProxy` satisfy both `PlainQueries` and
`NeverReaddressed`: what `/apix` leaves is no URL. The other assumptions are those of
`Router` and `Proxy`: each route has an upstream, paths are sequences, only targets
redirect, requests are finitely many, the cache's are as above.

`LifecycleProofs` proves, for any files, servers, connections and foreign addresses:

- `TypeCorrect`: `Spec => []TypeOK`, in which no two listeners share an address.
- `OneWriterCorrect`: `Spec => []OneWriter`. The strengthening says that servers run
  only by a file that `validate` accepted (`RunsAccepted`), that the checkers are
  exactly those of the managers that ran (`CheckersOfManagers`), and that a manager
  comes after its server's spawn (`InOrder`), so that none runs twice. With distinct
  upstream ids a router keeps each section's own upstream (`UpstreamOfSection`).

They rest on `ConfigsAssumption`: a file has finitely many sections and servers.

## Only model-checked

Liveness everywhere: `CallsReturn`, `ProbedExcluded`, `RecoveredReadded`,
`RequestsAnswered`, `AddressServed`, `IdleProcessExits`, `PendingAccepted`. It rests on
fairness and ENABLED, which TLAPS does not treat here. The five counterexamples are
TLC's as well. Every invariant and every action property of the passing runs is
also a theorem.

`PendingAccepted` is about a client that waits behind others, and about a loop that meets
errors. It ends in "or all descriptors are taken", and has to: a handshake has no
timeout, so that clients which never finish theirs may keep every descriptor, and then
nobody is accepted any more.

## Not modelled

- `shutdown`, which only logs, and the command line.
- The cache's hit, miss and eviction counters and the `stats` methods: nothing
  reads them but reports. `last_health_check` is stored and never read.
- Header copying, the normalisation of URLs, the text of replies, TLS itself, parsing of YAML,
  of HTTP dates and of command lines, logging.
- `get` and `put` take the metrics' lock separately from the map's. The size
  metric is written under both, so it is modelled; the counters are not.

## Plan

1. `Upstream`, `HealthCheck`, `ResponseCache` with `TtlStore`, `Router` and
   `Proxy`, their runs, and the proofs of `Upstream` and `HealthCheck` (done).
2. `Selection`, with `Upstream` shown to implement it and `Proxy` written over it;
   `Lifecycle`; `Failover`; their proofs (done).
3. Proofs of the remaining safety properties: the load balancing, detection and
   failover, the cache with its refinement, and the proxy (done).
4. To do: `ImplementsStore` and `EvictsFirstCreated` behind the proxy, from
   `CacheImplemented`; that the walk takes the first matching route that is up; a lemma
   on `Lifecycle` (a listener belongs to a
   server that was spawned from an accepted file).

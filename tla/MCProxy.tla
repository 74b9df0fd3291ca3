------------------------------ MODULE MCProxy ------------------------------
(* Servers, requests and answers for TLC. *)
EXTENDS Proxy, TLC

Query(method, host, path, query, cookie) ==
  [method |-> method, host |-> host, path |-> path, query |-> query,
   cookie |-> cookie, auth |-> None, lines |-> <<>>]

Api == <<"/", "api">>
ApiUsers == <<"/", "api", "/", "users">>
Apix == <<"/", "api", "x">>
Users == <<"/", "users">>

\* The kinds of route in README.md:116-139.  Their order makes a request for
\* site.org/api/... match all three.
ThreeRoutes == <<
  [domains |-> {"api.org"}, paths |-> <<Api>>, upstream |-> "api"],
  [domains |-> {},          paths |-> <<Users, Api>>, upstream |-> "pool"],
  [domains |-> {"site.org"}, paths |-> <<>>, upstream |-> "site"] >>

\* A prefix that ends in a slash.
SlashRoute == << [domains |-> {}, paths |-> << <<"/", "api", "/">> >>, upstream |-> "api"] >>

OneRoute == << [domains |-> {}, paths |-> <<Users, Api>>, upstream |-> "api"] >>

ThreeUpstreams == [u \in {"api", "pool", "site"} |->
  CASE u = "api" -> {1} [] u = "pool" -> {2, 3} [] u = "site" -> {4}]
OneUpstream == [u \in {"api"} |-> {1}]

Domains == [h \in {"api.org", "API.org:80", "site.org", "no.org"} |->
              IF h = "API.org:80" THEN "api.org" ELSE h]

\* Requests that match three, two and none of the routes; only the answers to
\* the first are cached.  What the routes leave of /apix is glued to the port,
\* and is not a URL.
RoutedQueries == {
  Query("GET", "site.org", ApiUsers, None, None),
  Query("POST", "API.org:80", Apix, None, None),
  Query("POST", "no.org", <<"/">>, None, None) }

\* Requests whose keys differ in one part, and an unsafe one.
CachedQueries == {
  Query("GET", "api.org", Api, None, None),
  Query("GET", "api.org", Api, "q", None),
  Query("POST", NoHost, ApiUsers, None, "s") }

NoStore == << <<[name |-> "no-store", lower |-> TRUE, arg |-> None]>> >>
Plainly == {<<>>}
PlainlyOrNoStore == {<<>>, NoStore}

\* What the prefix leaves of the first is not a URL, nor any path.
SlashQueries == {
  Query("GET", NoHost, ApiUsers, None, None),
  Query("POST", NoHost, ApiUsers, None, None),
  Query("GET", NoHost, <<"/", "api", "/", "/", "users">>, "q", None) }

\* Connections and put tasks are interchangeable.
ProxySymmetry == Permutations(Tasks) \cup Permutations(Putters)

=============================================================================

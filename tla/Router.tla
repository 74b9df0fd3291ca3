------------------------------- MODULE Router -------------------------------
(***************************************************************************)
(* Router (router.rs) and what proxy.rs makes of its result: which routes  *)
(* match a request, and the path that is forwarded.                        *)
(*                                                                         *)
(* A path is a sequence of lexemes ("/", "api", ...), so that a prefix of  *)
(* the sequence stands for a prefix of the string.  A host is the Host     *)
(* header as it is written; DomainOf is what route matching makes of it.   *)
(***************************************************************************)
EXTENDS Integers, Sequences, SequencesExt

CONSTANTS
  Routes,     \* the server's routes, in the order of the configuration:
              \* [domains |-> a set, paths |-> a sequence, upstream |-> an id]
  TargetsOf,  \* TargetsOf[u]: the targets of upstream u
  DomainOf,   \* DomainOf[h]: host h in lower case and without its port
  NoHost      \* a request without a Host header

IsPath(path) == path \in Seq(Range(path))

\* Config::validate lets a route name only an upstream that exists.
ASSUME RoutesAssumption ==
  /\ Len(Routes) \in Nat
  /\ \A i \in 1..Len(Routes) :
       /\ Routes[i].upstream \in DOMAIN TargetsOf
       /\ Len(Routes[i].paths) \in Nat
       /\ \A j \in 1..Len(Routes[i].paths) : IsPath(Routes[i].paths[j])

DomainMatches(route, host) == host # NoHost /\ DomainOf[host] \in route.domains

\* The configured prefixes a path starts with; find_map takes the first.
MatchingPaths(route, path) ==
  {i \in 1..Len(route.paths) : IsPrefix(route.paths[i], path)}

PathMatches(route, path) == MatchingPaths(route, path) # {}

\* `domain_matches || path_match.is_some()`
Matches(route, host, path) == DomainMatches(route, host) \/ PathMatches(route, path)

\* The prefix that matched: empty when the route matched by its domain only.
MatchedPrefix(route, path) ==
  IF PathMatches(route, path)
  THEN LET first == CHOOSE i \in MatchingPaths(route, path) :
                      \A j \in MatchingPaths(route, path) : i <= j
       IN  route.paths[first]
  ELSE <<>>

\* `path.strip_prefix(prefix)`: what the target is asked for.
TargetPath(route, path) == SubSeq(path, Len(MatchedPrefix(route, path)) + 1, Len(path))

\* The routes of the server that match, in the order in which they are tried.
MatchingRoutes(host, path) == {i \in 1..Len(Routes) : Matches(Routes[i], host, path)}

UpstreamTargets(i) == TargetsOf[Routes[i].upstream]

=============================================================================

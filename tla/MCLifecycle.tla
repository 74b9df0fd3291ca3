---------------------------- MODULE MCLifecycle ----------------------------
(* Configuration files for TLC. *)
EXTENDS Lifecycle

Section(id, targets, checked) == [id |-> id, targets |-> targets, checked |-> checked]
ServerOf(id, addr, tls, routes) == [id |-> id, addr |-> addr, tls |-> tls, routes |-> routes]
File(upstreams, servers) == [upstreams |-> upstreams, servers |-> servers]

Api == Section("api", 2, TRUE)
Site == Section("site", 1, TRUE)
Unchecked == Section("site", 1, FALSE)
Empty == Section("none", 0, TRUE)
Twin == Section("api", 1, TRUE)

Https == ServerOf("https", "a1:443", "loads", {"api", "site"})
Http == ServerOf("http", "a1:80", None, {"api"})
BadCert == ServerOf("bad", "a1:80", "fails", {"api"})
HttpToo == ServerOf("http", "a1:81", None, {})
Lost == ServerOf("lost", "a1:81", None, {"nowhere"})

\* Two servers, one of which another process may be in the way of, over every
\* kind of upstream; two servers on one address; one server, with checkers
\* and without; no servers; the kinds of file that validate refuses.
Files == {
  None,
  File(<<Api, Site, Empty>>, <<Https, Http>>),
  File(<<Unchecked, Api>>, <<BadCert, Https, Http>>),
  File(<<Unchecked>>, <<HttpToo>>),
  File(<<Api>>, <<BadCert>>),
  File(<<Api>>, <<>>),
  File(<<Api, Twin>>, <<Http>>),
  File(<<Api>>, <<Http, HttpToo>>),
  File(<<Api>>, <<Lost>>) }

=============================================================================

-------------------------- MODULE MCResponseCache --------------------------
(* Requests and responses for TLC: one of each kind the cache tells apart. *)
EXTENDS ResponseCache, TLC

MaxAge(n) == Directive("max-age", TRUE, n)
NoCache == Directive("no-cache", TRUE, None)
NoStore == Directive("no-store", TRUE, None)
Other == Directive("other", TRUE, None)

Response(body, cacheable, lines, expires) ==
  [body |-> body, cacheable |-> cacheable, lines |-> lines, expires |-> expires]

\* No header at all; max-age over Expires; an Expires date alone.
Plain == Response("plain", TRUE, <<>>, None)
Aged == Response("aged", TRUE, << <<Other, MaxAge(2)>> >>, 3)
Dated == Response("dated", TRUE, << <<Other>> >>, 3)
\* Not to be stored: by a directive, by the status, by an endless lifetime.
Revalidated == Response("revalidated", TRUE, << <<NoCache, MaxAge(1)>> >>, None)
Private == Response("private", TRUE, << <<MaxAge(1), NoStore>> >>, None)
Failed == Response("failed", FALSE, <<>>, None)
Endless == Response("endless", TRUE, << <<MaxAge(9)>> >>, None)

AllResponses == {Plain, Aged, Dated, Revalidated, Private, Failed, Endless}
PlainOnly == {Plain}
AnyRequest == {<<>>}
AllRequests == {<<>>, << <<NoCache>> >>, << <<MaxAge(1)>> >>}

\* The prohibition stands on a line of its own.
SecondLine == Response("second", TRUE, << <<MaxAge(1)>>, <<NoStore>> >>, None)
SecondLines == {Plain, SecondLine}

\* Keys and put calls are interchangeable.
CacheSymmetry == Permutations(Keys) \cup Permutations(Putters)

=============================================================================

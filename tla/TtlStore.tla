------------------------------ MODULE TtlStore ------------------------------
(***************************************************************************)
(* What a response cache promises, whatever its size and policy: a request *)
(* is only ever given a response that was offered for its key, that may be *)
(* stored, that is still inside its lifetime, and that is young enough for *)
(* the request.  The store may lose any response at any time.              *)
(***************************************************************************)
EXTENDS Integers, FiniteSets

CONSTANTS
  Keys, Responses, Requests,
  Storable,   \* the responses that may be kept at all
  Lifetime,   \* Lifetime[r]: for how long response r may be reused
  Patience,   \* Patience[q]: request q takes a response younger than this
  NoAnswer    \* what a request is given on a miss

VARIABLES
  now,     \* the time
  offers,  \* copies of responses on their way into the store
  held,    \* copies in the store
  answer   \* what the last request was given

vars == <<now, offers, held, answer>>

Copy(k, r, t) == [key |-> k, response |-> r, since |-> t]
Fresh(c, q) == /\ now < c.since + Lifetime[c.response]
               /\ now - c.since < Patience[q]

Init ==
  /\ now = 0
  /\ offers = {}
  /\ held = {}
  /\ answer = NoAnswer

Offer(k, r) ==
  /\ r \in Storable
  /\ offers' = offers \cup {Copy(k, r, now)}
  /\ UNCHANGED <<now, held, answer>>

\* A copy arrives: it replaces the one of the same key, and any other copies
\* may be lost.  The same response may have been offered twice.
Keep(c) ==
  /\ c \in offers
  /\ offers' \in {offers, offers \ {c}}
  /\ \E lost \in SUBSET held :
       held' = {h \in held \ lost : h.key # c.key} \cup {c}
  /\ UNCHANGED <<now, answer>>

Answer(k, q) ==
  /\ answer' \in {c \in held : c.key = k /\ Fresh(c, q)} \cup {NoAnswer}
  /\ UNCHANGED <<now, offers, held>>

Tick == now' > now /\ UNCHANGED <<offers, held, answer>>

Next ==
  \/ \E k \in Keys, r \in Responses : Offer(k, r)
  \/ \E c \in offers : Keep(c)
  \/ \E k \in Keys, q \in Requests : Answer(k, q)
  \/ Tick

Spec == Init /\ [][Next]_vars

=============================================================================

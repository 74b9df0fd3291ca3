---------------------------- MODULE CacheControl ----------------------------
(***************************************************************************)
(* CacheControl::from_headers (cache.rs): what the cache understands of    *)
(* the Cache-Control header lines of a request or of a response.           *)
(*                                                                         *)
(* Header lines are a sequence of lines, a line is a sequence of           *)
(* directives.  A directive keeps what the parser tells apart: its name,   *)
(* whether it is spelled in lower case, and its argument when that is a    *)
(* number a u64 can hold.                                                  *)
(***************************************************************************)
EXTENDS Integers, Sequences

CONSTANT None  \* no value, or an argument that is no u64 number

ASSUME NoneAssumption == None \notin Int

Names == {"max-age", "no-cache", "no-store", "other"}

Directive(name, lower, arg) == [name |-> name, lower |-> lower, arg |-> arg]

\* All that Cache-Control lines can be: an argument is a u64 number or None.
AnyDirective == [name : Names, lower : BOOLEAN, arg : Nat \cup {None}]
HeaderLines == Seq(Seq(AnyDirective))

Directives(lines) == UNION {{line[i] : i \in 1..Len(line)} :
                              line \in {lines[j] : j \in 1..Len(lines)}}

-----------------------------------------------------------------------------
(* The parser *)

\* headers.get returns the first of several lines.
ReadLine(lines) == IF lines = <<>> THEN <<>> ELSE lines[1]

\* Directives are compared as they are spelled.
Says(line, name) == \E i \in 1..Len(line) : line[i].name = name /\ line[i].lower

\* Where a max-age that parses as a u64 stands.
Ages(line) ==
  {i \in 1..Len(line) :
     line[i].name = "max-age" /\ line[i].lower /\ line[i].arg # None}

\* Each max-age that parses replaces the one before it.
MaxAgeOf(line) ==
  IF Ages(line) = {} THEN None
  ELSE line[CHOOSE i \in Ages(line) : \A j \in Ages(line) : j <= i].arg

FromHeaders(lines) ==
  [max_age  |-> MaxAgeOf(ReadLine(lines)),
   no_cache |-> Says(ReadLine(lines), "no-cache"),
   no_store |-> Says(ReadLine(lines), "no-store")]

-----------------------------------------------------------------------------
(* What the lines say, however they are laid out: all lines count, and the *)
(* names of directives have no case.                                       *)

Stated(lines, name) == \E d \in Directives(lines) : d.name = name

StatedAges(lines) ==
  {d.arg : d \in {e \in Directives(lines) : e.name = "max-age" /\ e.arg # None}}

=============================================================================

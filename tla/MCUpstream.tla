----------------------------- MODULE MCUpstream -----------------------------
(* Constants for TLC: which upstream, and which callers. *)
EXTENDS Upstream, TLC

\* One target without a share and one twice as heavy as the first.
UnevenWeights == <<1, 0, 2>>
EqualPair == <<1, 1>>
ZeroWeights == <<0, 2>>

\* Callers run the same code: any permutation of them is a symmetry.
CallerSymmetry == Permutations(Callers)

=============================================================================

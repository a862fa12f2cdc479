---------------------------- MODULE MCSymbolCache ----------------------------
(* Small instances of SymbolCache for TLC. *)
EXTENDS SymbolCache, TLC

CONSTANTS a1, a2, b1, b2, h1, h2

MCSymmetry == Permutations({h1, h2}) \cup Permutations({a1, a2})
=============================================================================

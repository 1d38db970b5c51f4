----------------------------- MODULE MCSourceMap -----------------------------
(***************************************************************************)
(* SourceMap over every file of a few letters, newlines and returns.  Each *)
(* letter is its own number, so that an item from a wrong place shows.     *)
(***************************************************************************)
EXTENDS SourceMap, TLC

MCNewline == 10
MCReturn == 13

Letter(k) == k
MCFiles ==
  {f \in UNION {[1..n -> 1..5 \cup {MCNewline, MCReturn}] : n \in 0..5} :
     \A k \in DOMAIN f : f[k] \in {Letter(k), MCNewline, MCReturn}}
MCGarbage == -2
Symmetry == Permutations(Objs)
=============================================================================

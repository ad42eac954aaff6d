----------------------------- MODULE MCRecovery -----------------------------
(* Instances of Recovery for TLC: each take has bytes and a prefix of its own, *)
(* and xg is what a misplaced read yields.                                     *)
EXTENDS Recovery, TLC

CONSTANTS s1, s2, a, b, xa, xb, xg

MCAudioOf == [t \in Take |-> IF t = a THEN xa ELSE xb]
MCPrefixOf == [t \in Take |-> t]
MCSymmetry == Permutations(Serial)
=============================================================================

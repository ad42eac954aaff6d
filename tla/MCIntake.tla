------------------------------ MODULE MCIntake ------------------------------
(* Instances of Intake for TLC.  Take a may carry markers; b and c have the  *)
(* same bytes.  Each take has a prefix of its own, and xg is what a misplaced *)
(* read yields.                                                              *)
EXTENDS Intake, TLC

CONSTANTS s1, s2, a, b, c, xa, xb, xg

MCAudioOf == [t \in Take |-> IF t = a THEN xa ELSE xb]
MCPrefixOf == [t \in Take |-> t]
=============================================================================

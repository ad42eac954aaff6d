----------------------------- MODULE MCEraseCard -----------------------------
(* Instances of EraseCard for TLC.  Every take has bytes and a prefix of its *)
(* own.                                                                      *)
EXTENDS EraseCard, TLC

CONSTANTS s1, s2, a, b, c, xa, xb, xc

MCAudioOf == [t \in Take |-> IF t = a THEN xa ELSE IF t = b THEN xb ELSE xc]
MCPrefixOf == [t \in Take |-> t]

\* Two transmitters with a take each, and one more take to be recorded.
MCTwoCards == EraseInit /\ card = (s1 :> {a} @@ s2 :> {c})
MCSwapSpec == MCTwoCards /\ [][EraseNext]_vars /\ WF_vars(EraseStep)
=============================================================================

---------------------------- MODULE MCConnector ----------------------------
(* Values for the constants of Connector that a .cfg cannot write, and the  *)
(* symmetry the safety runs use.                                            *)
EXTENDS Connector, TLC

CONSTANTS c1, c2, c3, a, b, s1, s2, s3, q1, q2

Symmetry == Permutations(Callers) \cup Permutations(Ids) \cup Permutations(Sessions)
            \cup Permutations(Sql)
=============================================================================

------------------------------- MODULE MCRest -------------------------------
(* CleanLogs and Devices on two bots.  Two classes share a product name, as  *)
(* in the product map.                                                      *)
EXTENDS CleanLogs, TLC

CONSTANTS c1, c2, n1, r1, t1, t2, x1, x2

SharedName  == [c \in {c1, c2} |-> n1]
TwoRobots   == <<[mid |-> c1, group |-> n1, category |-> "DEEBOT"],
                 [mid |-> NoValue, group |-> n1, category |-> "WINBOT"]>>
TwoCleanings == {<<1, 1, r1>>, <<1, 2, r1>>}
NoPrefix    == [n \in {n1} |-> "UNKNOWN"]

\* No definition names a type or a content.
Alike == Permutations({t1, t2}) \cup Permutations({x1, x2})
=============================================================================

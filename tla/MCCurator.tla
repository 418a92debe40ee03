------------------------------ MODULE MCCurator ------------------------------
(***************************************************************************)
(* Small instances of Curator for TLC: a depositor and the curator, a      *)
(* market that matures at 1 and one that does not.                         *)
(***************************************************************************)
EXTENDS Curator

CONSTANTS alice, curator, near, far

SomeFunds == [u \in Holders |-> IF u = alice THEN 2 ELSE 0]
LargerFunds == [u \in Holders |-> IF u = alice THEN 5 ELSE 0]
TwoExpiries == [m \in Markets |-> IF m = near THEN 1 ELSE 9]
SmallPool == [m \in Markets |-> [pt |-> IF m = near THEN 3 ELSE 0, sy |-> 1, lp |-> 5]]
Backed == [rate |-> ONE, base |-> 2]

Entry(m, c, d) == [market |-> m, weight |-> 1, cap |-> c, deployed |-> d]
OneList == {<<Entry(near, 2, 0), Entry(far, 2, 0)>>}
TwoLists == OneList \cup {<<Entry(near, 2, 1), Entry(far, 1, 0)>>}
=============================================================================

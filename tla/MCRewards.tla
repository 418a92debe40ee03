------------------------------ MODULE MCRewards ------------------------------
(***************************************************************************)
(* Small instances of Rewards for TLC.                                     *)
(***************************************************************************)
EXTENDS Rewards

CONSTANTS u1, u2, A, B

OneEach == [u \in {u1, u2} |-> 1]
=============================================================================

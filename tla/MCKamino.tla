------------------------------- MODULE MCKamino -------------------------------
(***************************************************************************)
(* Small instances of KaminoAdapter for TLC: one user and the core vault's *)
(* authority, and a reserve in which others already lend and borrow.       *)
(***************************************************************************)
EXTENDS KaminoAdapter

CONSTANTS alice, vault

SomeFunds == [u \in Users |-> IF u = alice THEN 2 ELSE 0]
Lent == [available |-> 2, borrowed |-> 2, fees |-> 0, supply |-> 3]
Interest == {[interest |-> 1, fee |-> 0], [interest |-> 2, fee |-> 1]}
Lists == {<<>>, <<vault>>}
=============================================================================

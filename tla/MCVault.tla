------------------------------- MODULE MCVault -------------------------------
(***************************************************************************)
(* Small instances of Vault for TLC.                                       *)
(***************************************************************************)
EXTENDS Vault

CONSTANTS u1, u2, robot

AllOpen == [status |-> Flags, feeBps |-> 2500, minStrip |-> 1, minMerge |-> 1]
Restricted ==
    [status |-> {"merge", "withdraw_yt"}, feeBps |-> 0, minStrip |-> 4, minMerge |-> 4]

NoSettings == {}
SomeSettings == {AllOpen, Restricted}

NoLimits == {}
TightLimits == {<<1, 0>>, <<2, 1>>}
=============================================================================

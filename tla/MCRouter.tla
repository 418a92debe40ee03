------------------------------ MODULE MCRouter ------------------------------
(***************************************************************************)
(* A small instance of Router for TLC.                                     *)
(***************************************************************************)
EXTENDS Router

AllOpen == [status |-> Flags, feeBps |-> 5000]
NoSettings == {}
NoLimits == {}
OnePool == {<<2, 2>>}
OneUser == [pt |-> 0, yt |-> 2, sy |-> 1]
=============================================================================

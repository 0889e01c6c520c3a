------------------------------ MODULE MCMyPs ------------------------------
(***************************************************************************)
(* Instances of CDDMyPs for TLC: the processes there are at first.         *)
(***************************************************************************)
EXTENDS CDDMyPs

TwoUsers == <<2, 3>>
===========================================================================

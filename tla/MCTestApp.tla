----------------------------- MODULE MCTestApp -----------------------------
(***************************************************************************)
(* TestAppCh5 for TLC: the processes there are at first.                   *)
(***************************************************************************)
EXTENDS TestAppCh5

MainAndIntruder == <<2, 3>>
============================================================================

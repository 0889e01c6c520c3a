------------------------------ MODULE MCReport ------------------------------
(* CDDReport for TLC: its constants are model values and need no definition. *)
EXTENDS CDDReport
=============================================================================

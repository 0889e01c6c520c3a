------------------------------ MODULE MCDevice ------------------------------
(***************************************************************************)
(* Instances of CDDDevice for TLC: the workloads the tasks may run.        *)
(***************************************************************************)
EXTENDS CDDClaims, TLC

Open(acc)     == [acc |-> acc, trunc |-> FALSE, append |-> FALSE, nonblock |-> FALSE]
OpenTrunc(acc) == [Open(acc) EXCEPT !.trunc = TRUE]

(* What the shell and the test applications use: cat, echo >, echo >>, and  *)
(* a reader that does not wait.                                             *)
ShellModes == {Open("O_RDONLY"), [Open("O_RDONLY") EXCEPT !.nonblock = TRUE],
               OpenTrunc("O_RDWR"), [Open("O_WRONLY") EXCEPT !.append = TRUE]}

(* Blocking readers against truncating writers. *)
WaitModes == {Open("O_RDONLY"), OpenTrunc("O_WRONLY")}

(* Writers that keep what is there, overwriting or appending. *)
PlainModes == {Open("O_RDWR"), [Open("O_WRONLY") EXCEPT !.append = TRUE]}

(* Plain and appending writers. *)
AppendModes == {Open("O_WRONLY"), [Open("O_WRONLY") EXCEPT !.append = TRUE]}

(* A reader that asks for truncation, and a writer. *)
TruncReaderModes == {OpenTrunc("O_RDONLY"), Open("O_WRONLY")}

NoOffsets   == {}
EndOffsets  == {0}
SeekOffsets == {-1, 0, 1, 2 * IntHalf + 1}

Symmetry == Permutations(Tasks) \cup Permutations(Files)
=============================================================================

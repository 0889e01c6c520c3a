--------------------------- MODULE CDDArithCheck ---------------------------
(***************************************************************************)
(* The position arithmetic against exact arithmetic: one call of read,     *)
(* write or llseek with inputs drawn from every combination that fits the  *)
(* types, positions of several times 2^32 included.  pread and pwrite pass *)
(* the driver any position, and llseek any 64-bit offset.                  *)
(***************************************************************************)
EXTENDS CDDArith

CONSTANT Reach   \* bound: the largest position or offset drawn

ASSUME ReachAssumption == Reach \in Nat

VARIABLES
    call,                  \* the call made: "none" before it
    append, counter, size, \* the device: append flag, content, buffer
    ppos, count,           \* the position and the length of a copy
    offset                 \* the offset of a seek

vars == <<call, append, counter, size, ppos, count, offset>>

Init == /\ call = "none" /\ append = FALSE /\ counter = 0 /\ size = 0
        /\ ppos = 0 /\ count = 0 /\ offset = 0

Device == size' \in 0 .. IntHalf - 1 /\ counter' \in 0 .. size'

Copy(kind) ==
    /\ call = "none" /\ call' = kind /\ Device
    /\ append' \in BOOLEAN
    /\ ppos' \in 0 .. Reach /\ count' \in 0 .. IntHalf - 1
    /\ UNCHANGED offset

Seek ==
    /\ call = "none" /\ call' = "llseek" /\ Device
    /\ ppos' \in 0 .. size' /\ offset' \in -Reach .. Reach
    /\ UNCHANGED <<append, count>>

Next == Copy("read") \/ Copy("write") \/ Seek

Spec == Init /\ [][Next]_vars

-----------------------------------------------------------------------------
(* Everything fits its type, and the content fits the buffer.               *)
TypeOK ==
    /\ call \in {"none", "read", "write", "llseek"} /\ append \in BOOLEAN
    /\ size \in 0 .. IntHalf - 1 /\ counter \in 0 .. size
    /\ ppos \in Nat /\ count \in 0 .. IntHalf - 1 /\ offset \in Int
    /\ call = "llseek" => ppos <= size

(* CDD_write never copies outside the buffer, whatever position it is given *)
(* and however the int arithmetic wraps, and does not move the end of the   *)
(* content past the buffer.                                                 *)
WriteStaysInBuffer ==
    LET pos == WritePos(append, counter, ppos) IN
    call = "write" /\ WriteAccepted(pos, count, size)
        => /\ pos \in 0 .. size /\ pos + count <= size
           /\ WriteEnd(pos, count) = pos + count

(* CDD_write refuses no write that fits: as long as the position fits an    *)
(* int, it is accepted exactly when its range lies in the buffer.           *)
WriteRefusesOnlyOverflow ==
    LET start == IF append THEN counter ELSE ppos IN
    call = "write" /\ start < IntHalf
        => (WriteAccepted(WritePos(append, counter, ppos), count, size)
              <=> start + count <= size)

(* CDD_read delivers what lies between the position and the end of the      *)
(* content, up to the length asked for, and nothing at or past the end.     *)
ReadDeliversTheRest ==
    LET rest == {n \in 0 .. count : n = 0 \/ ppos + n <= counter} IN
    call = "read" => /\ ReadLen(ppos, count, counter) \in rest
                     /\ \A n \in rest : n <= ReadLen(ppos, count, counter)

(* CDD_llseek moves to the exact sum when that lies within the content and  *)
(* refuses every other sum that fits an int.                                *)
SeekIsExact ==
    \A from \in {0, ppos, counter} :
        LET target == from + offset IN
        call = "llseek" /\ target \in Int32
            => /\ SeekPos(ToInt(from), offset) = target
               /\ SeekAccepted(SeekPos(ToInt(from), offset), counter)
                     <=> target \in 0 .. counter
=============================================================================

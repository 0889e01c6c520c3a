------------------------------ MODULE CDDArith ------------------------------
(***************************************************************************)
(* The position arithmetic of CDD_read, CDD_write and CDD_llseek.          *)
(*                                                                         *)
(* The VFS hands the driver 64-bit positions (loff_t), the driver computes *)
(* with "int pos, end" and compares the results with the unsigned members  *)
(* counter and alloc_len.  64-bit quantities are integers here; the        *)
(* conversions to int and to unsigned int wrap.                            *)
(***************************************************************************)
EXTENDS Integers

CONSTANT IntHalf   \* 2^31: int ranges over -IntHalf .. IntHalf - 1

ASSUME IntHalfAssumption == IntHalf \in Nat \ {0, 1}

Int32 == -IntHalf .. IntHalf - 1

(* Assignment of a 64-bit value to an int keeps its low 32 bits. *)
ToInt(x) == ((x + IntHalf) % (2 * IntHalf)) - IntHalf

ToUnsigned_Signed(x) == x

(* An int operand of a comparison with an unsigned int. *)
ToUnsigned(x) == IF x < 0 THEN x + 2 * IntHalf ELSE x

(* CDD_write: where the copy starts, and where it ends. *)
WritePos(appending, used, ppos) == ToInt(IF appending THEN used ELSE ppos)
WriteEnd(pos, count)            == ToInt(pos + count)

(* CDD_write: the overflow test, then the underflow test. *)
WriteAccepted_NoOverflowTest(pos, count, size) == pos >= 0

WriteAccepted_OffByOne(pos, count, size) ==
    ToUnsigned(WriteEnd(pos, count)) < size /\ pos >= 0

WriteAccepted(pos, count, size) ==
    /\ ToUnsigned(WriteEnd(pos, count)) <= size
    /\ pos >= 0

(* CDD_read: how many bytes are delivered; 0 stands for end of file. *)
ReadLen_OffByOne(ppos, count, used) ==
    IF ppos >= used THEN 0
    ELSE IF ppos + count > used + 1 THEN used - ppos ELSE count

ReadLen(ppos, count, used) ==
    IF ppos >= used THEN 0
    ELSE IF ppos + count >= used THEN used - ppos ELSE count

(* CDD_llseek: the new position, and the test it must pass. *)
SeekPos(from, offset)   == ToInt(from + offset)
SeekAccepted_Unbounded(pos, used) == pos >= 0
SeekAccepted_EndExcluded(pos, used) == pos >= 0 /\ pos < used
SeekAccepted(pos, used) == pos >= 0 /\ pos <= used
=============================================================================

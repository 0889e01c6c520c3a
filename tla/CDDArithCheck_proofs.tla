------------------------ MODULE CDDArithCheck_proofs ------------------------
(***************************************************************************)
(* The properties of CDDArithCheck for every width of int and every reach. *)
(***************************************************************************)
EXTENDS CDDArithCheck, CDDArith_proofs

(* Every call has inputs of the declared types.                             *)
THEOREM TypeCorrect == Spec => []TypeOK
<1>1. Init => TypeOK
  <2> SUFFICES ASSUME Init  PROVE TypeOK
    OBVIOUS
  <2>1. append \in BOOLEAN
    BY DEF Init
  <2>2. /\ call = "none" /\ counter = 0 /\ size = 0 /\ ppos = 0 /\ count = 0
        /\ offset = 0
    BY DEF Init
  <2> QED  BY <2>1, <2>2, IntHalfAssumption DEF TypeOK
<1>2. TypeOK /\ [Next]_vars => TypeOK'
  <2> SUFFICES ASSUME TypeOK, [Next]_vars  PROVE TypeOK'
    OBVIOUS
  <2> USE IntHalfAssumption, ReachAssumption DEF TypeOK, Device
  <2>1. CASE Copy("read")
    BY <2>1 DEF Copy
  <2>2. CASE Copy("write")
    BY <2>2 DEF Copy
  <2>3. CASE Seek
    BY <2>3 DEF Seek
  <2>4. CASE UNCHANGED vars
    BY <2>4 DEF vars
  <2> QED  BY <2>1, <2>2, <2>3, <2>4 DEF Next
<1> QED  BY <1>1, <1>2, PTL DEF Spec

(* No write leaves the buffer, whatever position it is given and however    *)
(* the int arithmetic of CDD_write wraps.                                   *)
THEOREM WritesStayInBuffer == Spec => []WriteStaysInBuffer
<1>1. TypeOK => WriteStaysInBuffer
  <2> SUFFICES ASSUME TypeOK, WriteAccepted(WritePos(append, counter, ppos), count, size)
               PROVE  LET pos == WritePos(append, counter, ppos) IN
                      /\ pos \in 0 .. size /\ pos + count <= size
                      /\ WriteEnd(pos, count) = pos + count
    BY DEF WriteStaysInBuffer
  <2> DEFINE pos == WritePos(append, counter, ppos)
  <2>1. pos \in Int32
    BY ToIntInt32 DEF TypeOK, WritePos
  <2>2. size \in 0 .. IntHalf - 1 /\ count \in 0 .. IntHalf - 1
    BY DEF TypeOK
  <2> HIDE DEF pos
  <2>3. pos >= 0 /\ pos + count <= size /\ WriteEnd(pos, count) = pos + count
    BY <2>1, <2>2, WriteAcceptedExact DEF pos
  <2> QED  BY <2>1, <2>2, <2>3 DEF pos, Int32
<1> QED  BY <1>1, TypeCorrect, PTL

(* CDD_write accepts every write that fits.                                 *)
THEOREM WritesAreNotRefused == Spec => []WriteRefusesOnlyOverflow
<1>1. TypeOK => WriteRefusesOnlyOverflow
  <2> DEFINE start == IF append THEN counter ELSE ppos
  <2> SUFFICES ASSUME TypeOK, start < IntHalf
               PROVE  WriteAccepted(WritePos(append, counter, ppos), count, size)
                         <=> start + count <= size
    BY DEF WriteRefusesOnlyOverflow
  <2>1. start \in Int32 /\ start >= 0
    BY IntHalfAssumption DEF TypeOK, Int32
  <2>2. WritePos(append, counter, ppos) = start
    BY <2>1, ToIntExact DEF WritePos
  <2>3. size \in 0 .. IntHalf - 1 /\ count \in 0 .. IntHalf - 1
    BY DEF TypeOK
  <2> HIDE DEF start
  <2>4. WriteAccepted(start, count, size) <=> start + count <= size
    BY <2>1, <2>3, WriteAcceptedExact
  <2> QED  BY <2>2, <2>4
<1> QED  BY <1>1, TypeCorrect, PTL

(* CDD_read delivers exactly the rest of the content, up to its length.     *)
THEOREM ReadsDeliverTheRest == Spec => []ReadDeliversTheRest
<1>1. TypeOK => ReadDeliversTheRest
  <2> SUFFICES ASSUME TypeOK  PROVE ReadDeliversTheRest
    OBVIOUS
  <2>1. ppos \in Nat /\ count \in Nat /\ counter \in Nat
    BY IntHalfAssumption DEF TypeOK
  <2>2. /\ ReadLen(ppos, count, counter) \in 0 .. count
        /\ ReadLen(ppos, count, counter) > 0
              => ppos + ReadLen(ppos, count, counter) <= counter
        /\ \A n \in 0 .. count :
              ppos + n <= counter => n <= ReadLen(ppos, count, counter)
    BY <2>1, ReadLenExact
  <2> QED  BY <2>1, <2>2 DEF ReadDeliversTheRest
<1> QED  BY <1>1, TypeCorrect, PTL

(* CDD_llseek goes to the exact sum, or refuses.                            *)
THEOREM SeeksAreExact == Spec => []SeekIsExact
<1>1. TypeOK => SeekIsExact
  <2> SUFFICES ASSUME TypeOK, NEW from \in {0, ppos, counter}, call = "llseek",
                      from + offset \in Int32
               PROVE  /\ SeekPos(ToInt(from), offset) = from + offset
                      /\ SeekAccepted(SeekPos(ToInt(from), offset), counter)
                            <=> from + offset \in 0 .. counter
    BY DEF SeekIsExact
  <2>1. from \in Int32 /\ offset \in Int
    BY IntHalfAssumption DEF TypeOK, Int32
  <2>2. ToInt(from) = from
    BY <2>1, ToIntExact
  <2>3. SeekPos(from, offset) = from + offset
    BY <2>1, SeekPosExact
  <2>4. from + offset >= 0 /\ from + offset <= counter <=> from + offset \in 0 .. counter
    BY <2>1 DEF TypeOK, Int32
  <2> QED  BY <2>2, <2>3, <2>4 DEF SeekAccepted
<1> QED  BY <1>1, TypeCorrect, PTL
=============================================================================

--------------------------- MODULE CDDArith_proofs ---------------------------
(***************************************************************************)
(* What the position arithmetic guarantees for every width of int.         *)
(***************************************************************************)
EXTENDS CDDArith, TLAPS

(* The remainder of a number below one modulus, and below two.              *)
LEMMA ModBelow ==
    ASSUME NEW m \in Nat \ {0}, NEW x \in 0 .. m - 1
    PROVE  x % m = x
  OBVIOUS

LEMMA ModOnce ==
    ASSUME NEW m \in Nat \ {0}, NEW x \in m .. 2 * m - 1
    PROVE  x % m = x - m
  OBVIOUS

(* The conversion to int yields an int, and keeps the value of one.         *)
LEMMA ToIntInt32 ==
    ASSUME NEW x \in Int
    PROVE  ToInt(x) \in Int32
  BY IntHalfAssumption DEF ToInt, Int32

LEMMA ToIntExact ==
    ASSUME NEW x \in Int32
    PROVE  ToInt(x) = x
<1>1. /\ 2 * IntHalf \in Nat \ {0}
      /\ x + IntHalf \in 0 .. 2 * IntHalf - 1
  BY IntHalfAssumption DEF Int32
<1>2. (x + IntHalf) % (2 * IntHalf) = x + IntHalf
  BY <1>1, ModBelow
<1> QED  BY <1>2, IntHalfAssumption DEF ToInt, Int32

(* The end of a write wraps to a negative number or not at all.             *)
LEMMA WriteEndValue ==
    ASSUME NEW pos \in Int32, pos >= 0, NEW count \in 0 .. IntHalf - 1
    PROVE  WriteEnd(pos, count) =
              IF pos + count < IntHalf THEN pos + count
              ELSE pos + count - 2 * IntHalf
<1>1. CASE pos + count < IntHalf
  BY <1>1, ToIntExact, IntHalfAssumption DEF WriteEnd, Int32
<1>2. CASE ~(pos + count < IntHalf)
  <2> DEFINE m == 2 * IntHalf
             x == pos + count + IntHalf
  <2>1. m \in Nat \ {0} /\ x \in m .. 2 * m - 1
    BY <1>2, IntHalfAssumption DEF Int32
  <2>2. x % m = x - m
    BY <2>1, ModOnce
  <2> QED  BY <1>2, <2>2, IntHalfAssumption DEF WriteEnd, ToInt, Int32
<1> QED  BY <1>1, <1>2

(* The two tests of CDD_write, unsigned overflow then sign, admit exactly   *)
(* the ranges that lie inside the buffer, wrapped ends included.            *)
THEOREM WriteAcceptedExact ==
    ASSUME NEW pos \in Int32, NEW count \in 0 .. IntHalf - 1,
           NEW size \in 0 .. IntHalf - 1
    PROVE  /\ WriteAccepted(pos, count, size) <=> pos >= 0 /\ pos + count <= size
           /\ WriteAccepted(pos, count, size) => WriteEnd(pos, count) = pos + count
<1>1. CASE pos >= 0
  <2>1. WriteEnd(pos, count) = IF pos + count < IntHalf THEN pos + count
                               ELSE pos + count - 2 * IntHalf
    BY <1>1, WriteEndValue
  <2> QED  BY <1>1, <2>1, IntHalfAssumption DEF WriteAccepted, ToUnsigned, Int32
<1>2. CASE ~(pos >= 0)
  BY <1>2 DEF WriteAccepted
<1> QED  BY <1>1, <1>2

(* A read delivers no more than asked for and nothing beyond the content.   *)
THEOREM ReadLenExact ==
    ASSUME NEW pos \in Nat, NEW count \in Nat, NEW used \in Nat
    PROVE  /\ ReadLen(pos, count, used) \in 0 .. count
           /\ ReadLen(pos, count, used) > 0 => pos + ReadLen(pos, count, used) <= used
           /\ \A n \in 0 .. count :
                 pos + n <= used => n <= ReadLen(pos, count, used)
  BY DEF ReadLen

(* A seek whose exact target fits an int is decided on that target.         *)
THEOREM SeekPosExact ==
    ASSUME NEW from \in Int32, NEW offset \in Int, from + offset \in Int32
    PROVE  SeekPos(from, offset) = from + offset
  BY ToIntExact DEF SeekPos
=============================================================================

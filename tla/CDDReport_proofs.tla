-------------------------- MODULE CDDReport_proofs --------------------------
(***************************************************************************)
(* Proofs about CDDReport, for any tasks and minors and any number of      *)
(* changes: that the semaphore and the end-of-file flag make the report of *)
(* a reader that is alone what it should be, although the buffers are      *)
(* static and open and write calls go on meanwhile.                        *)
(***************************************************************************)
EXTENDS CDDReport, TLAPS

Cat  == {"read", "eof", "usage", "strcpy", "snprintf", "done"}
Held == {"eof", "usage", "strcpy", "snprintf", "done", "ioctl", "copyout", "return"}

(* A task inside a call holds the semaphore of a minor.                     *)
Locked ==
    \A t \in Tasks : /\ pc[t] # "idle" => dev[t] \in Minors
                     /\ pc[t] \in Held => t \in readers

Solitary ==
    \A t \in alone : pc[t] # "idle" /\ \A u \in Tasks : u # t => pc[u] = "idle"

(* What the static buffers hold is what the minor of a lone task has now.   *)
IsNow(string, k, t) == string = get_CDD_usage(k, dev[t])

Buffers ==
    \A t \in alone :
        /\ pc[t] \in {"strcpy", "copyout"} => IsNow(retbuf, kind[t], t)
        /\ pc[t] \in {"usage", "strcpy"} =>
               \A k \in Kinds : k < kind[t] => IsNow(result[k], k, t)
        /\ pc[t] = "snprintf" => \A k \in Kinds : IsNow(result[k], k, t)
        /\ pc[t] = "done" => \A k \in Kinds : IsNow(report[t][k], k, t)
        /\ pc[t] = "return" => IsNow(report[t][kind[t]], kind[t], t)

(* A lone cat that has printed finds the flag it has set.                   *)
Flagged ==
    /\ \A t \in printed : pc[t] \in Cat
    /\ \A t \in alone : t \in printed => eof /\ pc[t] \in {"read", "eof"}

IInv == TypeOK /\ Locked /\ Solitary /\ Buffers /\ Flagged

(* The mode of a minor is "Written" when there is a write no report shows,  *)
(* or until the reader that has printed it resets the flag.                 *)
Unreset ==
    \A m \in Minors :
        procflag[m] => m \in pending \/ \E u \in Tasks : At(u, "done") /\ dev[u] = m

-----------------------------------------------------------------------------
(* A usage string is one. *)
LEMMA Usage ==
    ASSUME TypeOK, NEW k \in Kinds, NEW m \in Minors
    PROVE  get_CDD_usage(k, m) \in Strings
  BY DEF TypeOK, get_CDD_usage, Strings

(* The three usage strings, in the order they are printed in. *)
LEMMA KindFacts ==
    /\ Kinds = 0 .. 2 /\ CDDCMD_DEVSIZE = 0 /\ CDDCMD_DEVOPENS = 2
    /\ CDDCMD_DEVSIZE \in Kinds
    /\ \A k \in Kinds : /\ ~(k < CDDCMD_DEVSIZE)
                        /\ k # CDDCMD_DEVOPENS => k + 1 \in Kinds
                        /\ \A j \in Kinds : j < k + 1 => j < k \/ j = k
                        /\ k = CDDCMD_DEVOPENS => \A j \in Kinds : j < k \/ j = k
  BY DEF Kinds, CDDCMD_DEVSIZE, CDDCMD_DEVOPENS

(* Every action keeps the types. *)
LEMMA TypesStep ==
    ASSUME TypeOK, Locked, [Next]_vars
    PROVE  TypeOK'
  <1> USE DEF TypeOK, Locked, Held
  <1>1. ASSUME NEW t \in Tasks, ReadLock(t) PROVE TypeOK'
    BY <1>1 DEF ReadLock, Goto, At, procVars, statics, taskVars
  <1>2. ASSUME NEW t \in Tasks, ReadRefused(t) PROVE TypeOK'
    BY <1>2, KindFacts
       DEF ReadRefused, Goto, At, procVars, statics, taskVars, End, NoReport
  <1>3. ASSUME NEW t \in Tasks, ReadEof(t) PROVE TypeOK'
    <2>1. eof' = FALSE /\ End(t) /\ UNCHANGED <<usage, procflag, pending, retbuf, result, mode>>
      BY <1>3 DEF ReadEof, procVars
    <2> QED
      BY <2>1, KindFacts DEF End, Goto, NoReport
  <1>4. ASSUME NEW t \in Tasks, ReadBegin(t) PROVE TypeOK'
    BY <1>4, KindFacts DEF ReadBegin, Goto, At, procVars, statics, taskVars
  <1>5. ASSUME NEW t \in Tasks, ReadUsage(t) PROVE TypeOK'
    BY <1>5, Usage DEF ReadUsage, Goto, At, procVars, statics, taskVars
  <1>6. ASSUME NEW t \in Tasks, ReadCopy(t) PROVE TypeOK'
    <2>1. kind[t] \in Kinds /\ retbuf \in Strings \cup {NoString}
      OBVIOUS
    <2>2. result' \in [Kinds -> Strings \cup {NoString}]
      BY <1>6, <2>1 DEF ReadCopy
    <2>3. kind' \in [Tasks -> Kinds]
      BY <1>6, <2>1, KindFacts DEF ReadCopy
    <2>4. pc' = [pc EXCEPT ![t] = "snprintf"] \/ pc' = [pc EXCEPT ![t] = "usage"]
      BY <1>6 DEF ReadCopy, Goto
    <2> QED
      BY <1>6, <2>2, <2>3, <2>4 DEF ReadCopy, procVars
  <1>7. ASSUME NEW t \in Tasks, ReadPrint(t) PROVE TypeOK'
    BY <1>7, KindFacts DEF ReadPrint, Goto, At, procVars, statics, taskVars
  <1>8. ASSUME NEW t \in Tasks, ReadFinish(t) PROVE TypeOK'
    BY <1>8
       DEF ReadFinish, Goto, At, procVars, statics, taskVars, FinishWith, NoReport
  <1>9. ASSUME NEW t \in Tasks, IoctlUsage(t) PROVE TypeOK'
    BY <1>9, Usage DEF IoctlUsage, Goto, At, procVars, statics, taskVars
  <1>10. ASSUME NEW t \in Tasks, IoctlCopy(t) PROVE TypeOK'
    BY <1>10 DEF IoctlCopy, Goto, At, procVars, statics, taskVars
  <1>11. ASSUME NEW t \in Tasks, IoctlFault(t) PROVE TypeOK'
    BY <1>11, KindFacts
       DEF IoctlFault, Goto, At, procVars, statics, taskVars, End, NoReport
  <1>12. ASSUME NEW t \in Tasks, IoctlReturn(t) PROVE TypeOK'
    BY <1>12, KindFacts
       DEF IoctlReturn, Goto, At, procVars, statics, taskVars, End, NoReport
  <1>13. ASSUME NEW t \in Tasks, NEW m \in Minors, StartCat(t, m) PROVE TypeOK'
    BY <1>13 DEF StartCat, Begin, Goto, At, procVars, statics
  <1>14. ASSUME NEW t \in Tasks, NEW m \in Minors, NEW type \in Kinds, IoctlLock(t,
     m, type)
     PROVE TypeOK'
    BY <1>14 DEF IoctlLock, Begin, Goto, At, procVars, statics
  <1>15. ASSUME NEW m \in Minors, WriteProc(m) PROVE TypeOK'
    BY <1>15 DEF WriteProc, statics, taskVars
  <1>16. ASSUME NEW m \in Minors, Update(m) PROVE TypeOK'
    BY <1>16, ReportAssumption, SMTT(30) DEF Update, statics, taskVars
  <1>17. CASE UNCHANGED vars
    BY <1>17 DEF vars, procVars, statics, taskVars
  <1> QED
    BY <1>1, <1>2, <1>3, <1>4, <1>5, <1>6, <1>7, <1>8, <1>9, <1>10, <1>11, <1>12,
       <1>13, <1>14, <1>15, <1>16, <1>17
       DEF Next, Step

(* An action that enters a call takes the semaphore,
   and only its own task gives it up. *)
LEMMA LocksStep ==
    ASSUME TypeOK, Locked, [Next]_vars
    PROVE  Locked'
  <1> USE DEF TypeOK, Locked, Held
  <1>1. ASSUME NEW t \in Tasks, ReadLock(t) PROVE Locked'
    BY <1>1 DEF ReadLock, Goto, At, procVars, statics, taskVars
  <1>2. ASSUME NEW t \in Tasks, ReadRefused(t) PROVE Locked'
    BY <1>2 DEF ReadRefused, Goto, At, procVars, statics, taskVars, End, NoReport
  <1>3. ASSUME NEW t \in Tasks, ReadEof(t) PROVE Locked'
    BY <1>3 DEF ReadEof, Goto, At, procVars, statics, taskVars, End, NoReport
  <1>4. ASSUME NEW t \in Tasks, ReadBegin(t) PROVE Locked'
    BY <1>4 DEF ReadBegin, Goto, At, procVars, statics, taskVars
  <1>5. ASSUME NEW t \in Tasks, ReadUsage(t) PROVE Locked'
    BY <1>5 DEF ReadUsage, Goto, At, procVars, statics, taskVars
  <1>6. ASSUME NEW t \in Tasks, ReadCopy(t) PROVE Locked'
    BY <1>6 DEF ReadCopy, Goto, At, procVars, statics, taskVars
  <1>7. ASSUME NEW t \in Tasks, ReadPrint(t) PROVE Locked'
    BY <1>7 DEF ReadPrint, Goto, At, procVars, statics, taskVars
  <1>8. ASSUME NEW t \in Tasks, ReadFinish(t) PROVE Locked'
    BY <1>8
       DEF ReadFinish, Goto, At, procVars, statics, taskVars, FinishWith, NoReport
  <1>9. ASSUME NEW t \in Tasks, IoctlUsage(t) PROVE Locked'
    BY <1>9 DEF IoctlUsage, Goto, At, procVars, statics, taskVars
  <1>10. ASSUME NEW t \in Tasks, IoctlCopy(t) PROVE Locked'
    BY <1>10 DEF IoctlCopy, Goto, At, procVars, statics, taskVars
  <1>11. ASSUME NEW t \in Tasks, IoctlFault(t) PROVE Locked'
    BY <1>11 DEF IoctlFault, Goto, At, procVars, statics, taskVars, End, NoReport
  <1>12. ASSUME NEW t \in Tasks, IoctlReturn(t) PROVE Locked'
    BY <1>12 DEF IoctlReturn, Goto, At, procVars, statics, taskVars, End, NoReport
  <1>13. ASSUME NEW t \in Tasks, NEW m \in Minors, StartCat(t, m) PROVE Locked'
    BY <1>13 DEF StartCat, Begin, Goto, At, procVars, statics
  <1>14. ASSUME NEW t \in Tasks, NEW m \in Minors, NEW type \in Kinds, IoctlLock(t,
     m, type)
     PROVE Locked'
    BY <1>14 DEF IoctlLock, Begin, Goto, At, procVars, statics
  <1>15. ASSUME NEW m \in Minors, WriteProc(m) PROVE Locked'
    BY <1>15 DEF WriteProc, statics, taskVars
  <1>16. ASSUME NEW m \in Minors, Update(m) PROVE Locked'
    BY <1>16 DEF Update, statics, taskVars
  <1>17. CASE UNCHANGED vars
    BY <1>17 DEF vars, procVars, statics, taskVars
  <1> QED
    BY <1>1, <1>2, <1>3, <1>4, <1>5, <1>6, <1>7, <1>8, <1>9, <1>10, <1>11, <1>12,
       <1>13, <1>14, <1>15, <1>16, <1>17
       DEF Next, Step

(* A task that begins ends the solitude of the others. *)
LEMMA SolitaryStep ==
    ASSUME TypeOK, Solitary, [Next]_vars
    PROVE  Solitary'
  <1> USE DEF TypeOK, Solitary
  <1>1. ASSUME NEW t \in Tasks, ReadLock(t) PROVE Solitary'
    BY <1>1 DEF ReadLock, Goto, At, procVars, statics, taskVars
  <1>2. ASSUME NEW t \in Tasks, ReadRefused(t) PROVE Solitary'
    BY <1>2 DEF ReadRefused, Goto, At, procVars, statics, taskVars, End, NoReport
  <1>3. ASSUME NEW t \in Tasks, ReadEof(t) PROVE Solitary'
    BY <1>3 DEF ReadEof, Goto, At, procVars, statics, taskVars, End, NoReport
  <1>4. ASSUME NEW t \in Tasks, ReadBegin(t) PROVE Solitary'
    BY <1>4 DEF ReadBegin, Goto, At, procVars, statics, taskVars
  <1>5. ASSUME NEW t \in Tasks, ReadUsage(t) PROVE Solitary'
    BY <1>5 DEF ReadUsage, Goto, At, procVars, statics, taskVars
  <1>6. ASSUME NEW t \in Tasks, ReadCopy(t) PROVE Solitary'
    BY <1>6 DEF ReadCopy, Goto, At, procVars, statics, taskVars
  <1>7. ASSUME NEW t \in Tasks, ReadPrint(t) PROVE Solitary'
    BY <1>7 DEF ReadPrint, Goto, At, procVars, statics, taskVars
  <1>8. ASSUME NEW t \in Tasks, ReadFinish(t) PROVE Solitary'
    BY <1>8
       DEF ReadFinish, Goto, At, procVars, statics, taskVars, FinishWith, NoReport
  <1>9. ASSUME NEW t \in Tasks, IoctlUsage(t) PROVE Solitary'
    BY <1>9 DEF IoctlUsage, Goto, At, procVars, statics, taskVars
  <1>10. ASSUME NEW t \in Tasks, IoctlCopy(t) PROVE Solitary'
    BY <1>10 DEF IoctlCopy, Goto, At, procVars, statics, taskVars
  <1>11. ASSUME NEW t \in Tasks, IoctlFault(t) PROVE Solitary'
    BY <1>11 DEF IoctlFault, Goto, At, procVars, statics, taskVars, End, NoReport
  <1>12. ASSUME NEW t \in Tasks, IoctlReturn(t) PROVE Solitary'
    BY <1>12 DEF IoctlReturn, Goto, At, procVars, statics, taskVars, End, NoReport
  <1>13. ASSUME NEW t \in Tasks, NEW m \in Minors, StartCat(t, m) PROVE Solitary'
    BY <1>13 DEF StartCat, Begin, Goto, At, procVars, statics
  <1>14. ASSUME NEW t \in Tasks, NEW m \in Minors, NEW type \in Kinds, IoctlLock(t,
     m, type)
     PROVE Solitary'
    BY <1>14 DEF IoctlLock, Begin, Goto, At, procVars, statics
  <1>15. ASSUME NEW m \in Minors, WriteProc(m) PROVE Solitary'
    BY <1>15 DEF WriteProc, statics, taskVars
  <1>16. ASSUME NEW m \in Minors, Update(m) PROVE Solitary'
    BY <1>16 DEF Update, statics, taskVars
  <1>17. CASE UNCHANGED vars
    BY <1>17 DEF vars, procVars, statics, taskVars
  <1> QED
    BY <1>1, <1>2, <1>3, <1>4, <1>5, <1>6, <1>7, <1>8, <1>9, <1>10, <1>11, <1>12,
       <1>13, <1>14, <1>15, <1>16, <1>17
       DEF Next, Step

(* Only a lone task writes to the static buffers, and its minor does not change. *)
LEMMA BuffersStep ==
    ASSUME TypeOK, Locked, Solitary, Buffers, [Next]_vars
    PROVE  Buffers'
  <1> USE DEF TypeOK, Locked, Solitary, Buffers, IsNow, Held, get_CDD_usage
  <1>1. ASSUME NEW t \in Tasks, ReadLock(t) PROVE Buffers'
    BY <1>1 DEF ReadLock, Goto, At, procVars, statics, taskVars
  <1>2. ASSUME NEW t \in Tasks, ReadRefused(t) PROVE Buffers'
    BY <1>2 DEF ReadRefused, Goto, At, procVars, statics, taskVars, End, NoReport
  <1>3. ASSUME NEW t \in Tasks, ReadEof(t) PROVE Buffers'
    BY <1>3 DEF ReadEof, Goto, At, procVars, statics, taskVars, End, NoReport
  <1>4. ASSUME NEW t \in Tasks, ReadBegin(t) PROVE Buffers'
    BY <1>4, KindFacts DEF ReadBegin, Goto, At, procVars, statics, taskVars
  <1>5. ASSUME NEW t \in Tasks, ReadUsage(t) PROVE Buffers'
    BY <1>5 DEF ReadUsage, Goto, At, procVars, statics, taskVars
  <1>6. ASSUME NEW t \in Tasks, ReadCopy(t) PROVE Buffers'
    <2> SUFFICES ASSUME t \in alone
                 PROVE  Buffers'
      BY <1>6 DEF ReadCopy, Goto, At, procVars
    <2>1. \A u \in alone : u = t
      BY <1>6 DEF ReadCopy, At
    <2>2. pc[t] = "strcpy" /\ pc' = [pc EXCEPT ![t] = pc'[t]]
      BY <1>6 DEF ReadCopy, Goto, At
    <2>3. kind[t] \in Kinds /\ IsNow(retbuf, kind[t], t)
      BY <2>2
    <2>4. \A k \in Kinds : k < kind[t] \/ k = kind[t] => IsNow(result'[k], k, t)
      BY <1>6, <2>2, <2>3 DEF ReadCopy
    <2>5. CASE kind[t] = CDDCMD_DEVOPENS
      <3>1. pc'[t] = "snprintf"
        BY <1>6, <2>5 DEF ReadCopy, Goto
      <3>2. \A k \in Kinds : k < kind[t] \/ k = kind[t]
        <4> HIDE DEF TypeOK, Locked, Solitary, Buffers
        <4> QED
          BY <2>3, <2>5, KindFacts
      <3>3. \A k \in Kinds : IsNow(result'[k], k, t)
        BY <2>4, <3>2
      <3> QED
        BY <1>6, <2>1, <3>1, <3>3 DEF ReadCopy, procVars
    <2>6. CASE kind[t] # CDDCMD_DEVOPENS
      <3>1. pc'[t] = "usage" /\ kind'[t] = kind[t] + 1
        BY <1>6, <2>6 DEF ReadCopy, Goto
      <3>2. \A k \in Kinds : k < kind'[t] => k < kind[t] \/ k = kind[t]
        <4> HIDE DEF TypeOK, Locked, Solitary, Buffers
        <4> QED
          BY <2>3, <3>1, KindFacts
      <3>3. \A k \in Kinds : k < kind'[t] => IsNow(result'[k], k, t)
        BY <2>4, <3>2
      <3> QED
        BY <1>6, <2>1, <3>1, <3>3 DEF ReadCopy, procVars
    <2> QED
      BY <2>5, <2>6
  <1>7. ASSUME NEW t \in Tasks, ReadPrint(t) PROVE Buffers'
    BY <1>7 DEF ReadPrint, Goto, At, procVars, statics, taskVars
  <1>8. ASSUME NEW t \in Tasks, ReadFinish(t) PROVE Buffers'
    BY <1>8
       DEF ReadFinish, Goto, At, procVars, statics, taskVars, FinishWith, NoReport
  <1>9. ASSUME NEW t \in Tasks, IoctlUsage(t) PROVE Buffers'
    BY <1>9 DEF IoctlUsage, Goto, At, procVars, statics, taskVars
  <1>10. ASSUME NEW t \in Tasks, IoctlCopy(t) PROVE Buffers'
    <2>1. pc[t] = "copyout" /\ pc'[t] = "return" /\ kind[t] \in Kinds
      BY <1>10 DEF IoctlCopy, Goto, At
    <2>2. report'[t][kind[t]] = retbuf
      BY <1>10, <2>1 DEF IoctlCopy
    <2>3. \A u \in alone : u = t
      BY <2>1
    <2> QED
      BY <1>10, <2>1, <2>2, <2>3 DEF IoctlCopy, procVars, statics
  <1>11. ASSUME NEW t \in Tasks, IoctlFault(t) PROVE Buffers'
    BY <1>11 DEF IoctlFault, Goto, At, procVars, statics, taskVars, End, NoReport
  <1>12. ASSUME NEW t \in Tasks, IoctlReturn(t) PROVE Buffers'
    BY <1>12 DEF IoctlReturn, Goto, At, procVars, statics, taskVars, End, NoReport
  <1>13. ASSUME NEW t \in Tasks, NEW m \in Minors, StartCat(t, m) PROVE Buffers'
    BY <1>13 DEF StartCat, Begin, Goto, At, procVars, statics
  <1>14. ASSUME NEW t \in Tasks, NEW m \in Minors, NEW type \in Kinds, IoctlLock(t,
     m, type)
     PROVE Buffers'
    BY <1>14 DEF IoctlLock, Begin, Goto, At, procVars, statics
  <1>15. ASSUME NEW m \in Minors, WriteProc(m) PROVE Buffers'
    BY <1>15 DEF WriteProc, statics, taskVars
  <1>16. ASSUME NEW m \in Minors, Update(m) PROVE Buffers'
    BY <1>16 DEF Update, statics, taskVars
  <1>17. CASE UNCHANGED vars
    BY <1>17 DEF vars, procVars, statics, taskVars
  <1> QED
    BY <1>1, <1>2, <1>3, <1>4, <1>5, <1>6, <1>7, <1>8, <1>9, <1>10, <1>11, <1>12,
       <1>13, <1>14, <1>15, <1>16, <1>17
       DEF Next, Step

(* Nobody else takes the flag of a lone cat. *)
LEMMA FlaggedStep ==
    ASSUME TypeOK, Solitary, Flagged, [Next]_vars
    PROVE  Flagged'
  <1> USE DEF TypeOK, Solitary, Flagged, Cat
  <1>1. ASSUME NEW t \in Tasks, ReadLock(t) PROVE Flagged'
    BY <1>1 DEF ReadLock, Goto, At, procVars, statics, taskVars
  <1>2. ASSUME NEW t \in Tasks, ReadRefused(t) PROVE Flagged'
    BY <1>2 DEF ReadRefused, Goto, At, procVars, statics, taskVars, End, NoReport
  <1>3. ASSUME NEW t \in Tasks, ReadEof(t) PROVE Flagged'
    BY <1>3 DEF ReadEof, Goto, At, procVars, statics, taskVars, End, NoReport
  <1>4. ASSUME NEW t \in Tasks, ReadBegin(t) PROVE Flagged'
    BY <1>4 DEF ReadBegin, Goto, At, procVars, statics, taskVars
  <1>5. ASSUME NEW t \in Tasks, ReadUsage(t) PROVE Flagged'
    BY <1>5 DEF ReadUsage, Goto, At, procVars, statics, taskVars
  <1>6. ASSUME NEW t \in Tasks, ReadCopy(t) PROVE Flagged'
    BY <1>6 DEF ReadCopy, Goto, At, procVars, statics, taskVars
  <1>7. ASSUME NEW t \in Tasks, ReadPrint(t) PROVE Flagged'
    BY <1>7 DEF ReadPrint, Goto, At, procVars, statics, taskVars
  <1>8. ASSUME NEW t \in Tasks, ReadFinish(t) PROVE Flagged'
    BY <1>8
       DEF ReadFinish, Goto, At, procVars, statics, taskVars, FinishWith, NoReport
  <1>9. ASSUME NEW t \in Tasks, IoctlUsage(t) PROVE Flagged'
    BY <1>9 DEF IoctlUsage, Goto, At, procVars, statics, taskVars
  <1>10. ASSUME NEW t \in Tasks, IoctlCopy(t) PROVE Flagged'
    BY <1>10 DEF IoctlCopy, Goto, At, procVars, statics, taskVars
  <1>11. ASSUME NEW t \in Tasks, IoctlFault(t) PROVE Flagged'
    BY <1>11 DEF IoctlFault, Goto, At, procVars, statics, taskVars, End, NoReport
  <1>12. ASSUME NEW t \in Tasks, IoctlReturn(t) PROVE Flagged'
    BY <1>12 DEF IoctlReturn, Goto, At, procVars, statics, taskVars, End, NoReport
  <1>13. ASSUME NEW t \in Tasks, NEW m \in Minors, StartCat(t, m) PROVE Flagged'
    BY <1>13 DEF StartCat, Begin, Goto, At, procVars, statics
  <1>14. ASSUME NEW t \in Tasks, NEW m \in Minors, NEW type \in Kinds, IoctlLock(t,
     m, type)
     PROVE Flagged'
    BY <1>14 DEF IoctlLock, Begin, Goto, At, procVars, statics
  <1>15. ASSUME NEW m \in Minors, WriteProc(m) PROVE Flagged'
    BY <1>15 DEF WriteProc, statics, taskVars
  <1>16. ASSUME NEW m \in Minors, Update(m) PROVE Flagged'
    BY <1>16 DEF Update, statics, taskVars
  <1>17. CASE UNCHANGED vars
    BY <1>17 DEF vars, procVars, statics, taskVars
  <1> QED
    BY <1>1, <1>2, <1>3, <1>4, <1>5, <1>6, <1>7, <1>8, <1>9, <1>10, <1>11, <1>12,
       <1>13, <1>14, <1>15, <1>16, <1>17
       DEF Next, Step

(* A flag set after its report was printed has its reader to reset it. *)
LEMMA UnresetStep ==
    ASSUME TypeOK, Locked, Unreset, [Next]_vars
    PROVE  Unreset'
  <1> USE DEF TypeOK, Locked, Unreset
  <1>1. ASSUME NEW t \in Tasks, ReadLock(t) PROVE Unreset'
    BY <1>1 DEF ReadLock, Goto, At, procVars, statics, taskVars
  <1>2. ASSUME NEW t \in Tasks, ReadRefused(t) PROVE Unreset'
    BY <1>2 DEF ReadRefused, Goto, At, procVars, statics, taskVars, End, NoReport
  <1>3. ASSUME NEW t \in Tasks, ReadEof(t) PROVE Unreset'
    BY <1>3 DEF ReadEof, Goto, At, procVars, statics, taskVars, End, NoReport
  <1>4. ASSUME NEW t \in Tasks, ReadBegin(t) PROVE Unreset'
    BY <1>4 DEF ReadBegin, Goto, At, procVars, statics, taskVars
  <1>5. ASSUME NEW t \in Tasks, ReadUsage(t) PROVE Unreset'
    BY <1>5 DEF ReadUsage, Goto, At, procVars, statics, taskVars
  <1>6. ASSUME NEW t \in Tasks, ReadCopy(t) PROVE Unreset'
    BY <1>6 DEF ReadCopy, Goto, At, procVars, statics, taskVars
  <1>7. ASSUME NEW t \in Tasks, ReadPrint(t) PROVE Unreset'
    BY <1>7 DEF ReadPrint, Goto, At, procVars, statics, taskVars
  <1>8. ASSUME NEW t \in Tasks, ReadFinish(t) PROVE Unreset'
    BY <1>8
       DEF ReadFinish, Goto, At, procVars, statics, taskVars, FinishWith, NoReport
  <1>9. ASSUME NEW t \in Tasks, IoctlUsage(t) PROVE Unreset'
    BY <1>9 DEF IoctlUsage, Goto, At, procVars, statics, taskVars
  <1>10. ASSUME NEW t \in Tasks, IoctlCopy(t) PROVE Unreset'
    BY <1>10 DEF IoctlCopy, Goto, At, procVars, statics, taskVars
  <1>11. ASSUME NEW t \in Tasks, IoctlFault(t) PROVE Unreset'
    BY <1>11 DEF IoctlFault, Goto, At, procVars, statics, taskVars, End, NoReport
  <1>12. ASSUME NEW t \in Tasks, IoctlReturn(t) PROVE Unreset'
    BY <1>12 DEF IoctlReturn, Goto, At, procVars, statics, taskVars, End, NoReport
  <1>13. ASSUME NEW t \in Tasks, NEW m \in Minors, StartCat(t, m) PROVE Unreset'
    BY <1>13 DEF StartCat, Begin, Goto, At, procVars, statics
  <1>14. ASSUME NEW t \in Tasks, NEW m \in Minors, NEW type \in Kinds, IoctlLock(t,
     m, type)
     PROVE Unreset'
    BY <1>14 DEF IoctlLock, Begin, Goto, At, procVars, statics
  <1>15. ASSUME NEW m \in Minors, WriteProc(m) PROVE Unreset'
    BY <1>15 DEF At, WriteProc, statics, taskVars
  <1>16. ASSUME NEW m \in Minors, Update(m) PROVE Unreset'
    BY <1>16 DEF At, Update, statics, taskVars
  <1>17. CASE UNCHANGED vars
    BY <1>17 DEF At, vars, procVars, statics, taskVars
  <1> QED
    BY <1>1, <1>2, <1>3, <1>4, <1>5, <1>6, <1>7, <1>8, <1>9, <1>10, <1>11, <1>12,
       <1>13, <1>14, <1>15, <1>16, <1>17
       DEF Next, Step

-----------------------------------------------------------------------------
LEMMA Initially == Init => IInv /\ Unreset
  <1> SUFFICES ASSUME Init
               PROVE  IInv /\ Unreset
    OBVIOUS
  <1>1. TypeOK
    <2>1. NoReport \in [Kinds -> Strings \cup {NoString}]
      BY DEF NoReport
    <2>2. 0 \in 0 .. MaxUpdates
      BY ReportAssumption
    <2> QED
      BY <2>1, <2>2, KindFacts DEF Init, TypeOK
  <1>2. Locked
    BY DEF Init, Locked, Held
  <1>3. Solitary /\ Buffers /\ Flagged /\ Unreset
    BY DEF Init, Solitary, Buffers, Flagged, Unreset
  <1> QED
    BY <1>1, <1>2, <1>3 DEF IInv

(* IInv is inductive, and so is IInv together with Unreset.                 *)
THEOREM Invariance == Spec => [](IInv /\ Unreset)
  <1>1. Init => IInv /\ Unreset
    BY Initially
  <1>2. IInv /\ Unreset /\ [Next]_vars => (IInv /\ Unreset)'
    BY TypesStep, LocksStep, SolitaryStep, BuffersStep, FlaggedStep, UnresetStep DEF IInv
  <1> QED
    BY <1>1, <1>2, PTL DEF Spec

(* Every state has its type: no usage string is asked for that there is not. *)
THEOREM TypeCorrect == Spec => []TypeOK
  <1>1. IInv => TypeOK
    BY DEF IInv
  <1> QED
    BY <1>1, Invariance, PTL

(* The report of a lone reader, or ioctl, is of one moment and one minor,   *)
(* however many opens and writes are tried meanwhile.                       *)
THEOREM ReportsAreSnapshots == Spec => []ReportIsSnapshot
  <1>1. IInv => ReportIsSnapshot
    BY DEF IInv, TypeOK, Buffers, IsNow, ReportIsSnapshot, Shown, At
  <1> QED
    BY <1>1, Invariance, PTL

(* A lone cat prints its report once at most, although each read is a new   *)
(* call and nothing but the static flag tells them apart.                   *)
THEOREM LoneCatPrintsOnce == Spec => []CatPrintsOnce
  <1>1. IInv => CatPrintsOnce
    BY DEF IInv, Flagged, CatPrintsOnce, At
  <1> QED
    BY <1>1, Invariance, PTL

(* A report says "Written" of writes no earlier report was printed after,   *)
(* whenever they come, but for readers that have printed and not yet reset. *)
THEOREM WritesAreNew == Spec => WrittenIsNew
  <1> DEFINE New == \A t \in Tasks :
          /\ At(t, "snprintf") /\ At(t, "done")' /\ mode'[t]
          /\ \A u \in Tasks : At(u, "done") => dev[u] # dev[t]
          => dev[t] \in pending
  <1>1. ASSUME TypeOK, Locked, Unreset, [Next]_vars PROVE [New]_vars
    <2> SUFFICES ASSUME NEW t \in Tasks, At(t, "snprintf"), At(t, "done")', mode'[t],
                        \A u \in Tasks : At(u, "done") => dev[u] # dev[t]
                 PROVE  dev[t] \in pending
      OBVIOUS
    <2>1. dev[t] \in Minors
      BY <1>1 DEF Locked, At
    <2>2. procflag[dev[t]]
      <3> USE DEF TypeOK, At, Goto
      <3>1. ASSUME NEW u \in Tasks, Step(u), u # t PROVE FALSE
        BY <1>1, <3>1 DEF Step, ReadLock, ReadRefused, ReadEof, ReadBegin, ReadUsage,
              ReadCopy, ReadPrint, ReadFinish, FinishWith, IoctlUsage, IoctlCopy,
              IoctlFault, IoctlReturn, End
      <3>2. ASSUME Step(t) PROVE procflag[dev[t]]
        <4>1. ReadPrint(t)
          BY <3>2 DEF Step, ReadLock, ReadRefused, ReadEof, ReadBegin, ReadUsage,
                ReadCopy, ReadFinish, FinishWith, IoctlUsage, IoctlCopy,
                IoctlFault, IoctlReturn, End
        <4> QED
          BY <1>1, <4>1 DEF ReadPrint
      <3>3. ASSUME NEW u \in Tasks, NEW m \in Minors, StartCat(u, m) PROVE FALSE
        BY <1>1, <3>3 DEF StartCat, Begin
      <3>4. ASSUME NEW u \in Tasks, NEW m \in Minors, NEW type \in Kinds,
                   IoctlLock(u, m, type)
            PROVE  FALSE
        BY <1>1, <3>4 DEF IoctlLock, Begin
      <3>5. ASSUME NEW m \in Minors, WriteProc(m) \/ Update(m) PROVE FALSE
        BY <1>1, <3>5 DEF WriteProc, Update, taskVars
      <3>6. CASE UNCHANGED vars
        BY <3>6 DEF vars, taskVars
      <3> QED
        BY <1>1, <3>1, <3>2, <3>3, <3>4, <3>5, <3>6 DEF Next
    <2> QED
      BY <1>1, <2>1, <2>2 DEF Unreset
  <1>2. IInv => TypeOK /\ Locked
    BY DEF IInv
  <1> QED
    BY <1>1, <1>2, Invariance, PTL DEF Spec, WrittenIsNew
=============================================================================

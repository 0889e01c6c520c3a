-------------------------- MODULE CDDDevice_proofs --------------------------
(***************************************************************************)
(* Safety of the device for every number of tasks and files, every buffer  *)
(* length, every width of int and every workload.  IInv is the inductive   *)
(* invariant; each of its parts has a lemma saying that a step keeps it,   *)
(* and the theorems at the end read the properties off it.                 *)
(***************************************************************************)
EXTENDS CDDDevice, CDDArith_proofs

(* Which call works on which file: a call works on a file that is not free, *)
(* open on one nobody else can see yet, the others on an installed one.     *)
FileLifetime ==
    \A t \in Tasks :
        /\ pc[t] = "idle" => fd[t] = NoFile
        /\ pc[t] # "idle" => fd[t] \in Files /\ fstate[fd[t]] # "free"
        /\ pc[t] \in OpenLabels => fstate[fd[t]] = "opening"
        /\ pc[t] \notin OpenLabels \cup {"idle", "return"} => fstate[fd[t]] = "installed"
        /\ pc[t] = "return" =>
              /\ ret[t] \in Errors \cup {"ok"}
              /\ ret[t] = "ok" => fstate[fd[t]] \in {"opened", "installed"}
              /\ ret[t] # "ok" => fstate[fd[t]] \in {"opening", "installed"}
        /\ pc[t] # "idle" /\ fstate[fd[t]] \in {"opening", "opened"}
              => \A u \in Tasks \ {t} : fd[u] # fd[t]

(* Once an open has allocated, the device has its full length for good.     *)
PastAlloc == {"test", "prepare"} \cup WaitLabels

Bounds ==
    /\ counter <= alloc_len
    /\ CDD_storage # NULL => alloc_len = BufLen
    /\ \A t \in Tasks :
          /\ pc[t] \in PastAlloc => alloc_len = BufLen
          /\ pc[t] = "rbody" /\ cnt[t] > 0 => ppos[t] + cnt[t] <= counter
          /\ pc[t] = "set_pos" => pos[t] >= 0

(* Only readers wait, only writers write, and an open for writing that      *)
(* holds the semaphore after allocating still has the buffer it allocated.  *)
Modes ==
    \A t \in Tasks :
        LET flags == f_flags[fd[t]] IN
        /\ pc[t] \in PastAlloc \ {"test"} => ~Writeable(flags)
        /\ pc[t] \in {"write", "wbody", "up_write", "wake"} => Writeable(flags)
        /\ pc[t] = "test" /\ Writeable(flags) => CDD_storage # NULL

(* Sleepers are queued, entries belong to waits in progress, and a sleeper  *)
(* that could go on has a writer on its way to wake it.                     *)
Waiting ==
    /\ interruptible \subseteq inq
    /\ NoDanglingWaiter
    /\ \A t \in Tasks :
          /\ pc[t] = "schedule" /\ t \in interruptible
          /\ ~content_is_unavailable(f_flags[fd[t]])
          => \E u \in Tasks : pc[u] \in {"up_write", "wake"}

(* Without truncation, every position in use is within the content, and an  *)
(* append starts no earlier than the position it advances.                  *)
Positions ==
    NoTruncation =>
        /\ \A f \in Files : ~f_flags[f].trunc /\ f_pos[f] <= counter
        /\ \A t \in Tasks :
              /\ ppos[t] <= counter
              /\ pc[t] = "wbody" => ppos[t] <= pos[t] /\ pos[t] <= counter
              /\ pc[t] = "set_pos" => pos[t] <= counter

IInv == TypeOK /\ FileLifetime /\ LockDiscipline /\ Bounds /\ Modes /\ Waiting /\ Positions

-----------------------------------------------------------------------------
(* Constants and arithmetic. *)

(* The buffer is not empty and its length is an int.                        *)
LEMMA SizeFacts ==
    /\ IntHalf \in Nat /\ IntHalf >= 2
    /\ BufLen \in Nat /\ BufLen >= 1 /\ BufLen < IntHalf
  BY IntHalfAssumption, DeviceAssumption

(* The range a write was admitted for.                                      *)
LEMMA AdmittedWrite ==
    ASSUME TypeOK, NEW t \in Tasks, WriteAccepted(pos[t], cnt[t], alloc_len)
    PROVE  /\ pos[t] \in 0 .. alloc_len
           /\ pos[t] + cnt[t] <= alloc_len
           /\ WriteEnd(pos[t], cnt[t]) = pos[t] + cnt[t]
<1>1. /\ pos[t] \in Int32 /\ cnt[t] \in 0 .. IntHalf - 1
      /\ alloc_len \in 0 .. IntHalf - 1
  BY SizeFacts DEF TypeOK, TaskType, DevType
<1>2. /\ pos[t] >= 0 /\ pos[t] + cnt[t] <= alloc_len
      /\ WriteEnd(pos[t], cnt[t]) = pos[t] + cnt[t]
  BY <1>1, WriteAcceptedExact
<1> QED  BY <1>1, <1>2, SizeFacts DEF Int32

-----------------------------------------------------------------------------
(* The invariant holds initially. *)

(* The state after module initialisation satisfies the invariant.          *)
LEMMA InitInv == Init => IInv
<1> SUFFICES ASSUME Init  PROVE IInv
  OBVIOUS
<1>1. append \in BOOLEAN /\ DevType /\ LockType
  <2>1. append \in BOOLEAN
    BY DEF Init
  <2>2. DevType
    BY SizeFacts DEF Init, DevType
  <2>3. LockType
    BY DEF Init, LockType
  <2> QED  BY <2>1, <2>2, <2>3
<1>2. NoFlags \in OpenFlags /\ ~NoFlags.trunc
  BY DEF NoFlags, OpenFlags
<1>3. FileType
  BY <1>2 DEF Init, FileType
<1>4. TaskType
  BY SizeFacts DEF Init, TaskType, Labels, Errors, Int32
<1>5. FileLifetime
  BY DEF Init, FileLifetime, OpenLabels
<1>6. LockDiscipline
  BY DeviceAssumption DEF Init, LockDiscipline, WriteLabels
<1>7. Bounds
  BY DEF Init, Bounds, PastAlloc, WaitLabels
<1>8. Modes
  BY DEF Init, Modes, PastAlloc, WaitLabels
<1>9. Waiting
  BY DEF Init, Waiting, NoDanglingWaiter
<1>10. Positions
  BY <1>2 DEF Init, Positions
<1> QED
  BY <1>1, <1>3, <1>4, <1>5, <1>6, <1>7, <1>8, <1>9, <1>10 DEF IInv, TypeOK

-----------------------------------------------------------------------------
(* Types. *)

(* A call has a file: what the types of a step depend on.                  *)
HasFile == \A t \in Tasks : pc[t] # "idle" => fd[t] \in Files

(* A position that passed the test of llseek is not negative.              *)
SeekChecked == \A t \in Tasks : pc[t] = "set_pos" => pos[t] >= 0

Typed == DevType /\ LockType /\ FileType /\ TaskType

(* A step keeps every type but that of append.                             *)
LEMMA TypedStep ==
    ASSUME TypeOK, HasFile, SeekChecked, [Next]_vars
    PROVE  Typed'
<1> USE DEF TypeOK, DevType, LockType, FileType, TaskType, HasFile, Typed, Labels,
            OpenLabels, Errors, devVars, semVars, waitVars, fileVars, taskVars,
            At, Goto, Finish, Leave, DownWrite, UpWrite, DownRead, UpRead,
            WriteTrylockFails
<1>1. ASSUME NEW t \in Tasks, NEW f \in Files, NEW flags \in OpenModes, SysOpen(t, f, flags)
      PROVE  Typed'
  BY <1>1, DeviceAssumption DEF SysOpen
<1>2. ASSUME NEW t \in Tasks, NEW f \in Files, NEW n \in Counts, SysRead(t, f, n)
      PROVE  Typed'
  BY <1>2, DeviceAssumption DEF SysRead
<1>3. ASSUME NEW t \in Tasks, NEW f \in Files, NEW n \in Counts, SysWrite(t, f, n)
      PROVE  Typed'
  BY <1>3, DeviceAssumption DEF SysWrite
<1>4. ASSUME NEW t \in Tasks, NEW f \in Files, NEW w \in Whences, NEW o \in Offsets,
             SysSeek(t, f, w, o)
      PROVE  Typed'
  <2> DEFINE from == CASE w = "SEEK_SET" -> 0
                       [] w = "SEEK_CUR" -> ToInt(f_pos[f])
                       [] w = "SEEK_END" -> ToInt(counter)
  <2>1. from \in Int /\ o \in Int
    BY ToIntInt32, DeviceAssumption, SizeFacts DEF Whences, Int32
  <2> HIDE DEF from
  <2>2. SeekPos(from, o) \in Int32
    BY <2>1, ToIntInt32 DEF SeekPos
  <2>3. pos' = [pos EXCEPT ![t] = SeekPos(from, o)]
    BY <1>4 DEF SysSeek, from
  <2> QED  BY <1>4, <2>2, <2>3 DEF SysSeek
<1>5. ASSUME NEW t \in Tasks, OpenLock(t)  PROVE Typed'
  BY <1>5 DEF OpenLock
<1>6. ASSUME NEW t \in Tasks, OpenAlloc(t)  PROVE Typed'
  BY <1>6 DEF OpenAlloc
<1>7. ASSUME NEW t \in Tasks, OpenAllocFails(t)  PROVE Typed'
  BY <1>7 DEF OpenAllocFails
<1>8. ASSUME NEW t \in Tasks, OpenComplete(t)  PROVE Typed'
  BY <1>8, SizeFacts, IntHalfAssumption DEF OpenComplete
<1>9. ASSUME NEW t \in Tasks, OpenUnavailable(t)  PROVE Typed'
  BY <1>9 DEF OpenUnavailable
<1>10. ASSUME NEW t \in Tasks, OpenPrepare(t)  PROVE Typed'
  BY <1>10 DEF OpenPrepare, prepare_to_wait
<1>11. ASSUME NEW t \in Tasks, OpenRecheck(t)  PROVE Typed'
  BY <1>11 DEF OpenRecheck
<1>12. ASSUME NEW t \in Tasks, OpenAwake(t)  PROVE Typed'
  BY <1>12 DEF OpenAwake
<1>13. ASSUME NEW t \in Tasks, OpenFinishWait(t)  PROVE Typed'
  BY <1>13 DEF OpenFinishWait, finish_wait
<1>14. ASSUME NEW t \in Tasks, ReadLock(t)  PROVE Typed'
  BY <1>14, SizeFacts DEF ReadLock, ReadLen
<1>15. ASSUME NEW t \in Tasks, ReadCopy(t)  PROVE Typed'
  BY <1>15, SizeFacts DEF ReadCopy
<1>16. ASSUME NEW t \in Tasks, ReadFault(t)  PROVE Typed'
  BY <1>16 DEF ReadFault
<1>17. ASSUME NEW t \in Tasks, WriteLock(t)  PROVE Typed'
  BY <1>17, ToIntInt32, SizeFacts DEF WriteLock, WritePos
<1>18. ASSUME NEW t \in Tasks, WriteReject(t)  PROVE Typed'
  BY <1>18 DEF WriteReject
<1>19. ASSUME NEW t \in Tasks, NEW k \in 0 .. cnt[t], WriteFault(t, k)  PROVE Typed'
  BY <1>19, AdmittedWrite, SizeFacts DEF WriteFault, StoredBytes
<1>20. ASSUME NEW t \in Tasks, WriteCopy(t)  PROVE Typed'
  BY <1>20, AdmittedWrite, SizeFacts DEF WriteCopy, StoredBytes
<1>21. ASSUME NEW t \in Tasks, WriteWake(t)  PROVE Typed'
  BY <1>21 DEF WriteWake, wake_up_interruptible
<1>22. ASSUME NEW t \in Tasks, SeekTest(t)  PROVE Typed'
  BY <1>22, SizeFacts DEF SeekTest, Int32
<1>23. ASSUME NEW t \in Tasks, SeekSet(t)  PROVE Typed'
  BY <1>23, SizeFacts DEF SeekSet, SeekChecked, Int32
<1>24. ASSUME NEW t \in Tasks, WriteUnlock(t)  PROVE Typed'
  BY <1>24 DEF WriteUnlock
<1>25. ASSUME NEW t \in Tasks, ReturnOk(t)  PROVE Typed'
  BY <1>25, SizeFacts DEF ReturnOk, Int32
<1>26. ASSUME NEW t \in Tasks, ReturnError(t)  PROVE Typed'
  <2>1. NoFlags \in OpenFlags
    BY DEF NoFlags, OpenFlags
  <2>2. CASE fstate[fd[t]] = "opening"
    BY <1>26, <2>1, <2>2, SizeFacts DEF ReturnError, Int32
  <2>3. CASE fstate[fd[t]] # "opening"
    BY <1>26, <2>3, SizeFacts DEF ReturnError, Int32
  <2> QED  BY <2>2, <2>3
<1>27. ASSUME NEW t \in Tasks, Signal(t)  PROVE Typed'
  BY <1>27 DEF Signal
<1>28. ASSUME NEW f \in Files, Close(f)  PROVE Typed'
  BY <1>28 DEF Close, NoFlags, OpenFlags
<1>29. CASE UNCHANGED vars
  BY <1>29 DEF vars
<1> QED
  BY <1>1, <1>2, <1>3, <1>4, <1>5, <1>6, <1>7, <1>8, <1>9, <1>10, <1>11, <1>12,
     <1>13, <1>14, <1>15, <1>16, <1>17, <1>18, <1>19, <1>20, <1>21, <1>22, <1>23,
     <1>24, <1>25, <1>26, <1>27, <1>28, <1>29
  DEF Next, Call, Step, OpenStep, ReadStep, WriteStep, SeekStep

(* append is a Boolean: only the end of an open assigns it.                 *)
LEMMA AppendStep ==
    ASSUME TypeOK, HasFile, [Next]_vars
    PROVE  append' \in BOOLEAN
<1>1. ASSUME NEW t \in Tasks, OpenComplete(t)  PROVE append' \in BOOLEAN
  <2>1. f_flags[fd[t]] \in OpenFlags
    BY <1>1 DEF OpenComplete, At, TypeOK, FileType, HasFile
  <2> QED  BY <1>1, <2>1 DEF OpenComplete, OpenFlags
<1>2. ASSUME append' = append  PROVE append' \in BOOLEAN
  BY <1>2 DEF TypeOK
<1>3. append' = append \/ \E t \in Tasks : OpenComplete(t)
  BY DEF Next, Call, Step, OpenStep, ReadStep, WriteStep, SeekStep, vars, devVars,
       SysOpen,
         SysRead, SysWrite, SysSeek, OpenLock, OpenAlloc, OpenAllocFails,
         OpenUnavailable, OpenPrepare, OpenRecheck, OpenAwake, OpenFinishWait,
         ReadLock, ReadCopy, ReadFault, WriteLock, WriteReject, WriteFault,
         WriteCopy, WriteUnlock, WriteWake, SeekTest, SeekSet, ReturnOk, ReturnError,
         Signal, Close
<1> QED  BY <1>1, <1>2, <1>3

-----------------------------------------------------------------------------
(* Files, the semaphore, bounds. *)

(* A call keeps its file to itself while it opens it, and alive afterwards. *)
LEMMA FileStep ==
    ASSUME TypeOK, FileLifetime, [Next]_vars
    PROVE  FileLifetime'
<1> USE DEF TypeOK, FileType, TaskType, Labels, OpenLabels, Errors, FileLifetime,
            fileVars, taskVars, At, Goto, Finish, Leave
<1>1. ASSUME NEW t \in Tasks, Call(t)  PROVE FileLifetime'
  BY <1>1, DeviceAssumption DEF Call, SysOpen, SysRead, SysWrite, SysSeek
<1>2. ASSUME NEW t \in Tasks, OpenStep(t)  PROVE FileLifetime'
  BY <1>2, DeviceAssumption
  DEF OpenStep, OpenLock, OpenAlloc, OpenAllocFails, OpenComplete,
         OpenUnavailable, OpenPrepare, OpenRecheck, OpenAwake, OpenFinishWait
<1>3. ASSUME NEW t \in Tasks, ReadStep(t)  PROVE FileLifetime'
  BY <1>3 DEF ReadStep, ReadLock, ReadCopy, ReadFault
<1>4. ASSUME NEW t \in Tasks, WriteStep(t)  PROVE FileLifetime'
  BY <1>4 DEF WriteStep, WriteLock, WriteReject, WriteFault, WriteCopy,
       WriteUnlock, WriteWake
<1>5. ASSUME NEW t \in Tasks, SeekStep(t)  PROVE FileLifetime'
  BY <1>5, DeviceAssumption DEF SeekStep, SeekTest, SeekSet
<1>6. ASSUME NEW t \in Tasks, ReturnOk(t)  PROVE FileLifetime'
  BY <1>6, DeviceAssumption DEF ReturnOk
<1>7. ASSUME NEW t \in Tasks, ReturnError(t)  PROVE FileLifetime'
  BY <1>7, DeviceAssumption DEF ReturnError
<1>8. ASSUME NEW t \in Tasks, Signal(t)  PROVE FileLifetime'
  BY <1>8 DEF Signal
<1>9. ASSUME NEW f \in Files, Close(f)  PROVE FileLifetime'
  BY <1>9 DEF Close
<1>10. CASE UNCHANGED vars
  BY <1>10 DEF vars
<1> QED
  BY <1>1, <1>2, <1>3, <1>4, <1>5, <1>6, <1>7, <1>8, <1>9, <1>10 DEF Next, Step

(* Every path through a handler releases what it took, once.                *)
LEMMA LockStep ==
    ASSUME TypeOK, LockDiscipline, [Next]_vars
    PROVE  LockDiscipline'
<1> USE DEF TypeOK, LockType, TaskType, LockDiscipline, Labels, OpenLabels, WriteLabels,
            devVars, semVars, taskVars, At, Goto, Finish, Leave,
            DownWrite, UpWrite, DownRead, UpRead, WriteTrylockFails
<1>1. ASSUME NEW t \in Tasks, Call(t)  PROVE LockDiscipline'
  BY <1>1 DEF Call, SysOpen, SysRead, SysWrite, SysSeek
<1>2. ASSUME NEW t \in Tasks, OpenStep(t)  PROVE LockDiscipline'
  BY <1>2, DeviceAssumption
  DEF OpenStep, OpenLock, OpenAlloc, OpenAllocFails, OpenComplete,
         OpenUnavailable, OpenPrepare, OpenRecheck, OpenAwake, OpenFinishWait
<1>3. ASSUME NEW t \in Tasks, ReadStep(t)  PROVE LockDiscipline'
  BY <1>3, DeviceAssumption DEF ReadStep, ReadLock, ReadCopy, ReadFault
<1>4. ASSUME NEW t \in Tasks, WriteStep(t)  PROVE LockDiscipline'
  BY <1>4, DeviceAssumption
  DEF WriteStep, WriteLock, WriteReject, WriteFault, WriteCopy, WriteUnlock, WriteWake
<1>5. ASSUME NEW t \in Tasks, SeekStep(t)  PROVE LockDiscipline'
  BY <1>5 DEF SeekStep, SeekTest, SeekSet
<1>6. ASSUME NEW t \in Tasks, ReturnOk(t)  PROVE LockDiscipline'
  BY <1>6 DEF ReturnOk
<1>7. ASSUME NEW t \in Tasks, ReturnError(t)  PROVE LockDiscipline'
  BY <1>7 DEF ReturnError
<1>8. ASSUME NEW t \in Tasks, Signal(t)  PROVE LockDiscipline'
  BY <1>8 DEF Signal
<1>9. ASSUME NEW f \in Files, Close(f)  PROVE LockDiscipline'
  BY <1>9 DEF Close
<1>10. CASE UNCHANGED vars
  BY <1>10 DEF vars
<1> QED
  BY <1>1, <1>2, <1>3, <1>4, <1>5, <1>6, <1>7, <1>8, <1>9, <1>10 DEF Next, Step

(* The content stays within the buffer, and ranges about to be read stay in  *)
(* the content: whoever could shrink it needs the semaphore the reader has. *)
LEMMA BoundsStep ==
    ASSUME TypeOK, LockDiscipline, Bounds, [Next]_vars
    PROVE  Bounds'
<1> USE DEF TypeOK, DevType, TaskType, LockDiscipline, Bounds, WriteLabels, PastAlloc,
            WaitLabels, devVars, semVars, taskVars, At, Goto, Finish, Leave,
            DownWrite, UpWrite, DownRead, UpRead, WriteTrylockFails
<1>1. ASSUME NEW t \in Tasks, Call(t)  PROVE Bounds'
  BY <1>1 DEF Call, SysOpen, SysRead, SysWrite, SysSeek
<1>2. ASSUME NEW t \in Tasks, OpenStep(t)  PROVE Bounds'
  BY <1>2, SizeFacts, DeviceAssumption
  DEF OpenStep, OpenLock, OpenAlloc, OpenAllocFails, OpenComplete,
         OpenUnavailable, OpenPrepare, OpenRecheck, OpenAwake, OpenFinishWait
<1>3. ASSUME NEW t \in Tasks, ReadStep(t)  PROVE Bounds'
  BY <1>3, SizeFacts, DeviceAssumption
  DEF ReadStep, ReadLock, ReadCopy, ReadFault, ReadLen
<1>4. ASSUME NEW t \in Tasks, WriteStep(t)  PROVE Bounds'
  BY <1>4, SizeFacts, DeviceAssumption, AdmittedWrite
  DEF WriteStep, WriteLock, WriteReject, WriteFault, WriteCopy, WriteUnlock, WriteWake,
      StoredBytes
<1>5. ASSUME NEW t \in Tasks, SeekStep(t)  PROVE Bounds'
  BY <1>5 DEF SeekStep, SeekTest, SeekSet, SeekAccepted
<1>6. ASSUME NEW t \in Tasks, ReturnOk(t)  PROVE Bounds'
  BY <1>6 DEF ReturnOk
<1>7. ASSUME NEW t \in Tasks, ReturnError(t)  PROVE Bounds'
  BY <1>7 DEF ReturnError
<1>8. ASSUME NEW t \in Tasks, Signal(t)  PROVE Bounds'
  BY <1>8 DEF Signal
<1>9. ASSUME NEW f \in Files, Close(f)  PROVE Bounds'
  BY <1>9 DEF Close
<1>10. CASE UNCHANGED vars
  BY <1>10 DEF vars
<1> QED
  BY <1>1, <1>2, <1>3, <1>4, <1>5, <1>6, <1>7, <1>8, <1>9, <1>10 DEF Next, Step

-----------------------------------------------------------------------------
(* Open modes, waiting, positions. *)

(* The file of a call, and its flags, do not change while the call lasts.   *)
LEMMA FlagsStable ==
    ASSUME TypeOK, FileLifetime, NEW c \in Tasks, pc[c] # "idle", pc'[c] # "idle",
           [Next]_vars
    PROVE  fd'[c] = fd[c] /\ f_flags'[fd[c]] = f_flags[fd[c]]
<1> USE DEF TypeOK, FileType, TaskType, FileLifetime, OpenLabels, fileVars, taskVars,
            At, Goto, Finish, Leave
<1>1. ASSUME NEW t \in Tasks, Call(t)
      PROVE fd'[c] = fd[c] /\ f_flags'[fd[c]] = f_flags[fd[c]]
  BY <1>1 DEF Call, SysOpen, SysRead, SysWrite, SysSeek
<1>2. ASSUME NEW t \in Tasks, OpenStep(t)
      PROVE fd'[c] = fd[c] /\ f_flags'[fd[c]] = f_flags[fd[c]]
  BY <1>2 DEF OpenStep, OpenLock, OpenAlloc, OpenAllocFails, OpenComplete,
         OpenUnavailable, OpenPrepare, OpenRecheck, OpenAwake, OpenFinishWait
<1>3. ASSUME NEW t \in Tasks, ReadStep(t)
      PROVE fd'[c] = fd[c] /\ f_flags'[fd[c]] = f_flags[fd[c]]
  BY <1>3 DEF ReadStep, ReadLock, ReadCopy, ReadFault
<1>4. ASSUME NEW t \in Tasks, WriteStep(t)
      PROVE fd'[c] = fd[c] /\ f_flags'[fd[c]] = f_flags[fd[c]]
  BY <1>4 DEF WriteStep, WriteLock, WriteReject, WriteFault, WriteCopy,
       WriteUnlock, WriteWake
<1>5. ASSUME NEW t \in Tasks, SeekStep(t)
      PROVE fd'[c] = fd[c] /\ f_flags'[fd[c]] = f_flags[fd[c]]
  BY <1>5 DEF SeekStep, SeekTest, SeekSet
<1>6. ASSUME NEW t \in Tasks, ReturnOk(t)
      PROVE fd'[c] = fd[c] /\ f_flags'[fd[c]] = f_flags[fd[c]]
  BY <1>6 DEF ReturnOk
<1>7. ASSUME NEW t \in Tasks, ReturnError(t)
      PROVE fd'[c] = fd[c] /\ f_flags'[fd[c]] = f_flags[fd[c]]
  BY <1>7 DEF ReturnError
<1>8. ASSUME NEW t \in Tasks, Signal(t)
      PROVE fd'[c] = fd[c] /\ f_flags'[fd[c]] = f_flags[fd[c]]
  BY <1>8 DEF Signal
<1>9. ASSUME NEW f \in Files, Close(f)
      PROVE fd'[c] = fd[c] /\ f_flags'[fd[c]] = f_flags[fd[c]]
  BY <1>9 DEF Close
<1>10. CASE UNCHANGED vars
  BY <1>10 DEF vars
<1> QED
  BY <1>1, <1>2, <1>3, <1>4, <1>5, <1>6, <1>7, <1>8, <1>9, <1>10 DEF Next, Step

(* Who waits, who writes, and who still owns the buffer it allocated.       *)
LEMMA ModesStep ==
    ASSUME TypeOK, FileLifetime, LockDiscipline, Modes, [Next]_vars
    PROVE  Modes'
<1> USE DEF TypeOK, TaskType, LockDiscipline, Modes, WriteLabels, PastAlloc, WaitLabels,
            devVars, semVars, fileVars, taskVars, Writeable, At, Goto, Finish, Leave,
            DownWrite, UpWrite, DownRead, UpRead,
            WriteTrylockFails
<1>1. ASSUME NEW t \in Tasks, Call(t)  PROVE Modes'
  BY <1>1, FlagsStable DEF Call, SysOpen, SysRead, SysWrite, SysSeek
<1>2. ASSUME NEW t \in Tasks, OpenStep(t)  PROVE Modes'
  BY <1>2, FlagsStable, DeviceAssumption
  DEF OpenStep, OpenLock, OpenAlloc, OpenAllocFails, OpenComplete,
         OpenUnavailable, OpenPrepare, OpenRecheck, OpenAwake, OpenFinishWait, content_is_unavailable
<1>3. ASSUME NEW t \in Tasks, ReadStep(t)  PROVE Modes'
  BY <1>3, FlagsStable DEF ReadStep, ReadLock, ReadCopy, ReadFault
<1>4. ASSUME NEW t \in Tasks, WriteStep(t)  PROVE Modes'
  BY <1>4, FlagsStable
  DEF WriteStep, WriteLock, WriteReject, WriteFault, WriteCopy, WriteUnlock, WriteWake
<1>5. ASSUME NEW t \in Tasks, SeekStep(t)  PROVE Modes'
  BY <1>5, FlagsStable DEF SeekStep, SeekTest, SeekSet
<1>6. ASSUME NEW t \in Tasks, ReturnOk(t)  PROVE Modes'
  BY <1>6, FlagsStable DEF ReturnOk
<1>7. ASSUME NEW t \in Tasks, ReturnError(t)  PROVE Modes'
  BY <1>7, FlagsStable DEF ReturnError
<1>8. ASSUME NEW t \in Tasks, Signal(t)  PROVE Modes'
  BY <1>8, FlagsStable DEF Signal
<1>9. ASSUME NEW f \in Files, Close(f)  PROVE Modes'
  BY <1>9, FlagsStable DEF Close
<1>10. CASE UNCHANGED vars
  BY <1>10 DEF vars
<1> QED
  BY <1>1, <1>2, <1>3, <1>4, <1>5, <1>6, <1>7, <1>8, <1>9, <1>10 DEF Next, Step

(* No wake-up is lost: the counter leaves zero only in a write that then     *)
(* wakes the queue, and a sleeper tested the counter after it queued.       *)
LEMMA WaitingStep ==
    ASSUME TypeOK, FileLifetime, Modes, Waiting, [Next]_vars
    PROVE  Waiting'
<1> USE DEF TypeOK, DevType, LockType, TaskType, Waiting, NoDanglingWaiter, WaitLabels,
            devVars, waitVars, fileVars, taskVars, content_is_unavailable, At, Goto,
            Finish, Leave
<1>1. ASSUME NEW t \in Tasks, Call(t)  PROVE Waiting'
  BY <1>1, FlagsStable DEF Call, SysOpen, SysRead, SysWrite, SysSeek
<1>2. ASSUME NEW t \in Tasks, OpenStep(t)  PROVE Waiting'
  BY <1>2, FlagsStable DEF OpenStep, OpenLock, OpenAlloc, OpenAllocFails, OpenComplete,
         OpenUnavailable, OpenPrepare, OpenRecheck, OpenAwake, OpenFinishWait, prepare_to_wait, finish_wait
<1>3. ASSUME NEW t \in Tasks, ReadStep(t)  PROVE Waiting'
  BY <1>3, FlagsStable DEF ReadStep, ReadLock, ReadCopy, ReadFault
<1>4. ASSUME NEW t \in Tasks, WriteStep(t)  PROVE Waiting'
  BY <1>4, FlagsStable, AdmittedWrite
  DEF WriteStep, WriteLock, WriteReject, WriteFault, WriteCopy, WriteUnlock, WriteWake,
      wake_up_interruptible
<1>5. ASSUME NEW t \in Tasks, SeekStep(t)  PROVE Waiting'
  BY <1>5, FlagsStable DEF SeekStep, SeekTest, SeekSet
<1>6. ASSUME NEW t \in Tasks, ReturnOk(t)  PROVE Waiting'
  BY <1>6, FlagsStable DEF ReturnOk
<1>7. ASSUME NEW t \in Tasks, ReturnError(t)  PROVE Waiting'
  BY <1>7, FlagsStable DEF ReturnError
<1>8. ASSUME NEW t \in Tasks, Signal(t)  PROVE Waiting'
  BY <1>8, FlagsStable DEF Signal
<1>9. ASSUME NEW f \in Files, Close(f)  PROVE Waiting'
  BY <1>9, FlagsStable DEF Close
<1>10. CASE UNCHANGED vars
  BY <1>10 DEF vars
<1> QED
  BY <1>1, <1>2, <1>3, <1>4, <1>5, <1>6, <1>7, <1>8, <1>9, <1>10 DEF Next, Step

(* Positions stay within the content as long as it only grows.             *)
LEMMA PositionsStep ==
    ASSUME TypeOK, FileLifetime, LockDiscipline, Bounds, Positions, [Next]_vars
    PROVE  Positions'
<1> USE DEF TypeOK, DevType, FileType, TaskType, LockDiscipline, Bounds, Positions,
            NoTruncation,
            WriteLabels, devVars, semVars, fileVars, taskVars, At, Goto, Finish, Leave
<1>1. ASSUME NEW t \in Tasks, Call(t)  PROVE Positions'
  BY <1>1, DeviceAssumption DEF Call, SysOpen, SysRead, SysWrite, SysSeek
<1>2. ASSUME NEW t \in Tasks, OpenStep(t)  PROVE Positions'
  BY <1>2 DEF OpenStep, OpenLock, OpenAlloc, OpenAllocFails, OpenComplete,
         OpenUnavailable, OpenPrepare, OpenRecheck, OpenAwake, OpenFinishWait, FileLifetime, OpenLabels
<1>3. ASSUME NEW t \in Tasks, ReadStep(t)  PROVE Positions'
  BY <1>3, SizeFacts DEF ReadStep, ReadLock, ReadCopy, ReadFault, ReadLen, DownRead
<1>4. ASSUME NEW t \in Tasks, WriteStep(t)  PROVE Positions'
  BY <1>4, SizeFacts, AdmittedWrite, ToIntExact
  DEF WriteStep, WriteLock, WriteReject, WriteFault, WriteCopy, WriteUnlock, WriteWake,
      DownWrite, WritePos, Int32
<1>5. ASSUME NEW t \in Tasks, SeekStep(t)  PROVE Positions'
  BY <1>5 DEF SeekStep, SeekTest, SeekSet, SeekAccepted
<1>6. ASSUME NEW t \in Tasks, ReturnOk(t)  PROVE Positions'
  BY <1>6 DEF ReturnOk
<1>7. ASSUME NEW t \in Tasks, ReturnError(t)  PROVE Positions'
  BY <1>7 DEF ReturnError, NoFlags
<1>8. ASSUME NEW t \in Tasks, Signal(t)  PROVE Positions'
  BY <1>8 DEF Signal
<1>9. ASSUME NEW f \in Files, Close(f)  PROVE Positions'
  BY <1>9 DEF Close, NoFlags
<1>10. CASE UNCHANGED vars
  BY <1>10 DEF vars
<1> QED
  BY <1>1, <1>2, <1>3, <1>4, <1>5, <1>6, <1>7, <1>8, <1>9, <1>10 DEF Next, Step

-----------------------------------------------------------------------------
(* The theorems. *)

(* Every step of the device keeps the invariant.                           *)
LEMMA InvStep == IInv /\ [Next]_vars => IInv'
<1> SUFFICES ASSUME IInv, [Next]_vars  PROVE IInv'
  OBVIOUS
<1>1. HasFile /\ SeekChecked
  BY DEF IInv, FileLifetime, HasFile, Bounds, SeekChecked
<1>2. TypeOK'
  BY <1>1, TypedStep, AppendStep DEF IInv, TypeOK, Typed
<1>3. FileLifetime' /\ LockDiscipline' /\ Bounds'
  BY FileStep, LockStep, BoundsStep DEF IInv
<1>4. Modes' /\ Waiting' /\ Positions'
  BY ModesStep, WaitingStep, PositionsStep DEF IInv
<1> QED  BY <1>2, <1>3, <1>4 DEF IInv

(* The inductive invariant holds in every reachable state.                 *)
THEOREM Invariance == Spec => []IInv
  BY InitInv, InvStep, PTL DEF Spec

(* Every variable keeps its type: no position, count or content ever leaves *)
(* the range the code's variables have.                                     *)
THEOREM TypeCorrect == Spec => []TypeOK
<1>1. IInv => TypeOK
  BY DEF IInv
<1> QED  BY <1>1, Invariance, PTL

(* The semaphore is held exactly where the handlers think it is.            *)
THEOREM SemaphoreCorrect == Spec => []LockDiscipline
<1>1. IInv => LockDiscipline
  BY DEF IInv
<1> QED  BY <1>1, Invariance, PTL

(* No copy leaves the content or the buffer, and an O_TRUNC open never      *)
(* stores through a pointer that a failed allocation took away.             *)
THEOREM CopiesCorrect == Spec => []CopiesInBounds
<1>1. IInv => CopiesInBounds
  <2> SUFFICES ASSUME IInv  PROVE CopiesInBounds
    OBVIOUS
  <2>1. TypeOK /\ Bounds
    BY DEF IInv
  <2>2. ASSUME NEW t \in Tasks, WriteAccepted(pos[t], cnt[t], alloc_len)
        PROVE  pos[t] >= 0 /\ pos[t] + cnt[t] <= alloc_len
    BY <2>1, <2>2, AdmittedWrite, SizeFacts DEF TypeOK, DevType
  <2>3. ASSUME NEW t \in Tasks, At(t, "test"), f_flags[fd[t]].trunc,
               ~content_is_unavailable(f_flags[fd[t]])
        PROVE  CDD_storage # NULL
    BY <2>3 DEF IInv, Modes, At, content_is_unavailable
  <2> QED  BY <2>1, <2>2, <2>3 DEF Bounds, CopiesInBounds, At
<1> QED  BY <1>1, Invariance, PTL

(* No wait-queue entry outlives the call it belongs to.                     *)
THEOREM WaitersAlive == Spec => []NoDanglingWaiter
<1>1. IInv => NoDanglingWaiter
  BY DEF IInv, Waiting
<1> QED  BY <1>1, Invariance, PTL

(* No wake-up is lost.                                                      *)
THEOREM WakeupsKept == Spec => []NoLostWakeup
<1>1. IInv => NoLostWakeup
  BY DEF IInv, Waiting, NoLostWakeup, Asleep, At
<1> QED  BY <1>1, Invariance, PTL

(* Without truncation no position passes the end of the content.            *)
THEOREM NoGaps == Spec => []NoGapWithoutTruncation
<1>1. IInv => NoGapWithoutTruncation
  BY DEF IInv, Positions, NoGapWithoutTruncation, At
<1> QED  BY <1>1, Invariance, PTL

-----------------------------------------------------------------------------
(* Refinement. *)

(* A device before its first open is an empty file without a buffer.       *)
LEMMA RefInit == Init => File!Init
  BY DEF Init, File!Init, Handle

(* Steps the abstract file does not see.                                    *)
Hidden == /\ UNCHANGED <<alloc_len, counter, active_opens>>
          /\ \A f \in Files : Handle(f)' = Handle(f)

(* A hidden step leaves the abstract file as it is.                         *)
LEMMA HiddenStep ==
    ASSUME Hidden  PROVE UNCHANGED File!absVars
<1>1. [f \in Files |-> Handle(f)]' = [f \in Files |-> Handle(f)]
  BY DEF Hidden
<1> QED  BY <1>1 DEF Hidden, File!absVars

(* Every step of the device is a step of the abstract file or hidden.      *)
LEMMA RefStep ==
    ASSUME IInv, [Next]_vars
    PROVE  [File!Next]_(File!absVars)
<1> USE DEF IInv, TypeOK, DevType, FileType, TaskType, FileLifetime, OpenLabels, Errors,
            devVars, semVars, waitVars, fileVars, taskVars, At, Goto, Finish, Leave
<1> DEFINE H == [f \in Files |-> Handle(f)]
<1>1. ASSUME NEW t \in Tasks, Call(t)  PROVE Hidden
  BY <1>1 DEF Hidden, Handle, Call, SysOpen, SysRead, SysWrite, SysSeek
<1>2. ASSUME NEW t \in Tasks, OpenAlloc(t)  PROVE Hidden \/ File!Allocate
  <2>1. \A f \in Files : Handle(f)' = Handle(f)
    BY <1>2 DEF OpenAlloc, Handle
  <2>2. H' = H
    BY <2>1
  <2> QED  BY <1>2, <2>1, <2>2 DEF Hidden, OpenAlloc, File!Allocate
<1>3. ASSUME NEW t \in Tasks, OpenComplete(t)
      PROVE  \E h \in Files : File!OpenReader(h) \/ File!OpenWriter(h)
  <2>0. PICK h \in Files : h = fd[t]
    BY <1>3 DEF OpenComplete
  <2> DEFINE flags == f_flags[h]
  <2>1. fstate[h] = "opening" /\ fstate'[h] = "opened"
    BY <1>3, <2>0 DEF OpenComplete
  <2>2. Handle(h) = "none" /\ Handle(h)' = IF Writeable(flags) THEN "writer" ELSE "reader"
    BY <1>3, <2>0, <2>1 DEF OpenComplete, Handle
  <2>3. \A f \in Files \ {h} : Handle(f)' = Handle(f)
    BY <1>3, <2>0 DEF OpenComplete, Handle
  <2>4. H' = [H EXCEPT ![h] = Handle(h)']
    BY <2>1, <2>3
  <2>5. alloc_len = BufLen /\ alloc_len' = alloc_len
        /\ active_opens' = (active_opens + 1) % (2 * IntHalf)
    BY <1>3 DEF OpenComplete, Bounds, PastAlloc
  <2>6. CASE Writeable(flags)
    <3>1. counter' \in {0, counter}
      BY <1>3, <2>0 DEF OpenComplete
    <3>2. File!OpenWriter(h)
      BY <2>1, <2>2, <2>4, <2>5, <2>6, <3>1 DEF File!OpenWriter
    <3> QED  BY <3>2
  <2>7. CASE ~Writeable(flags)
    <3>1. counter > 0 /\ counter' = counter
      BY <1>3, <2>0, <2>7, SizeFacts DEF OpenComplete, content_is_unavailable
    <3>2. File!OpenReader(h)
      BY <2>1, <2>2, <2>4, <2>5, <2>7, <3>1 DEF File!OpenReader
    <3> QED  BY <3>2
  <2> QED  BY <2>6, <2>7
<1>4. ASSUME NEW t \in Tasks,
             OpenLock(t) \/ OpenAllocFails(t) \/ OpenUnavailable(t) \/ OpenPrepare(t)
                \/ OpenRecheck(t) \/ OpenAwake(t) \/ OpenFinishWait(t)
      PROVE  Hidden
  BY <1>4 DEF Hidden, Handle, OpenLock, OpenAllocFails, OpenUnavailable, OpenPrepare,
         OpenRecheck, OpenAwake, OpenFinishWait
<1>5. ASSUME NEW t \in Tasks, ReadStep(t) \/ Signal(t)  PROVE Hidden
  BY <1>5 DEF Hidden, Handle, ReadStep, ReadLock, ReadCopy, ReadFault, Signal
<1>6. ASSUME NEW t \in Tasks, WriteCopy(t)
      PROVE  Hidden \/ \E h \in Files : File!Extend(h)
  <2>1. \A f \in Files : Handle(f)' = Handle(f)
    BY <1>6 DEF WriteCopy, Handle
  <2>2. H' = H
    BY <2>1
  <2>3. fd[t] \in Files /\ Handle(fd[t]) = "writer"
    BY <1>6 DEF WriteCopy, Modes, Handle
  <2>4. counter' = counter \/ counter' \in counter + 1 .. alloc_len
    BY <1>6, AdmittedWrite, SizeFacts DEF WriteCopy
  <2>5. CASE counter' = counter
    BY <1>6, <2>1, <2>5 DEF Hidden, WriteCopy
  <2>6. CASE counter' \in counter + 1 .. alloc_len
    BY <1>6, <2>2, <2>3, <2>6 DEF WriteCopy, File!Extend
  <2> QED  BY <2>4, <2>5, <2>6
<1>7. ASSUME NEW t \in Tasks,
             WriteLock(t) \/ WriteReject(t) \/ (\E k \in 0 .. cnt[t] : WriteFault(t, k))
                \/ WriteUnlock(t) \/ WriteWake(t) \/ SeekStep(t)
      PROVE  Hidden
  BY <1>7 DEF Hidden, Handle, WriteLock, WriteReject, WriteFault, WriteUnlock,
         WriteWake, SeekStep, SeekTest, SeekSet
<1>8. ASSUME NEW t \in Tasks, ReturnOk(t)  PROVE Hidden
  BY <1>8 DEF Hidden, Handle, ReturnOk
<1>9. ASSUME NEW t \in Tasks, ReturnError(t)  PROVE Hidden
  BY <1>9 DEF Hidden, Handle, ReturnError
<1>10. ASSUME NEW f \in Files, Close(f)  PROVE File!Close(f)
  <2>1. Handle(f) # "none" /\ Handle(f)' = "none"
    BY <1>10 DEF Close, Handle
  <2>2. \A g \in Files \ {f} : Handle(g)' = Handle(g)
    BY <1>10 DEF Close, Handle
  <2>3. H' = [H EXCEPT ![f] = "none"]
    BY <2>1, <2>2
  <2> QED  BY <1>10, <2>1, <2>3 DEF Close, File!Close
<1>11. ASSUME UNCHANGED vars  PROVE Hidden
  <2>1. /\ fstate' = fstate /\ f_flags' = f_flags
        /\ UNCHANGED <<alloc_len, counter, active_opens>>
    BY <1>11 DEF vars
  <2> QED  BY <2>1 DEF Hidden, Handle, Writeable
<1>12. \/ Hidden \/ File!Allocate
       \/ \E h \in Files : \/ File!OpenReader(h) \/ File!OpenWriter(h)
                           \/ File!Extend(h) \/ File!Close(h)
  BY <1>1, <1>2, <1>3, <1>4, <1>5, <1>6, <1>7, <1>8, <1>9, <1>10, <1>11
  DEF Next, Step, OpenStep, WriteStep
<1> QED  BY <1>12, HiddenStep DEF File!Next

(* The device implements the abstract file: with any number of tasks inside *)
(* the driver, every open, truncation and extension takes effect at once.   *)
THEOREM Refinement == Spec => ImplementsFile
  BY RefInit, RefStep, Invariance, PTL DEF Spec, ImplementsFile, File!Spec
=============================================================================

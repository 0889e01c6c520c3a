----------------------------- MODULE CDDReport -----------------------------
(***************************************************************************)
(* The reports on the use of the devices: reads of and writes to           *)
(* /proc/CDD/CDDx (proc_ops.c) and the ioctls (basic_ops.c).  A reader     *)
(* holds the semaphore of the minor it reports on; the buffer the usage    *)
(* strings are printed to, the three buffers they are kept in and the      *)
(* end-of-file flag are static: one of each for all minors and all tasks.  *)
(*                                                                         *)
(* A task is a program like cat, which reads an entry until it gets 0, or  *)
(* one that calls ioctl.  A usage string is the record of what it is the   *)
(* print of; a version of a minor stands for the three numbers printed.    *)
(***************************************************************************)
EXTENDS Naturals

CONSTANTS
    Tasks, Minors,
    NoString,    \* a buffer nothing was printed to
    NoMinor,     \* the minor of a task that is in no call
    MaxUpdates   \* bound: changes of one minor

ASSUME ReportAssumption == MaxUpdates \in Nat

VARIABLES
    usage,      \* of each minor: the version of its numbers
    procflag,   \* CDD_procflag of each minor
    eof, retbuf, result,   \* the static variables
    pc, dev, kind,         \* of each task: its place, its minor, which usage string
    readers,    \* the tasks that hold CDD_sem of their minor
    report,     \* of each task: the strings it has been given, until the call returns
    mode,       \* of each task: the mode in its report
    printed,    \* tasks whose cat has printed a report
    alone,      \* history: tasks nobody else has run with since they began
    pending     \* history: minors written to since a report of them was printed

procVars == <<usage, procflag, pending>>
statics  == <<eof, retbuf, result>>
taskVars == <<pc, dev, kind, readers, report, mode, printed, alone>>
vars     == <<procVars, statics, taskVars>>

CDDCMD_DEVSIZE  == 0
CDDCMD_DEVUSED  == 1
CDDCMD_DEVOPENS == 2
Kinds == CDDCMD_DEVSIZE .. CDDCMD_DEVOPENS

get_CDD_usage(type, m) == [type |-> type, minor |-> m, version |-> usage[m]]

Strings == [type : Kinds, minor : Minors, version : 0 .. MaxUpdates]
NoReport == [k \in Kinds |-> NoString]

At(t, label) == pc[t] = label
Goto(t, label) == pc' = [pc EXCEPT ![t] = label]

(* The task ends; what is left of its local variables is gone.              *)
End(t) ==
    /\ Goto(t, "idle")
    /\ dev' = [dev EXCEPT ![t] = NoMinor]
    /\ kind' = [kind EXCEPT ![t] = CDDCMD_DEVSIZE]
    /\ readers' = readers \ {t}
    /\ report' = [report EXCEPT ![t] = NoReport]
    /\ printed' = printed \ {t} /\ alone' = alone \ {t}

Init ==
    /\ usage = [m \in Minors |-> 0]
    /\ procflag = [m \in Minors |-> FALSE] /\ pending = {}
    /\ eof = FALSE /\ retbuf = NoString /\ result = NoReport
    /\ pc = [t \in Tasks |-> "idle"] /\ dev = [t \in Tasks |-> NoMinor]
    /\ kind = [t \in Tasks |-> CDDCMD_DEVSIZE]
    /\ readers = {}
    /\ report = [t \in Tasks |-> NoReport]
    /\ mode = [t \in Tasks |-> FALSE]
    /\ printed = {} /\ alone = {}

(* A task begins to use minor m: whoever runs already is disturbed by it.   *)
Begin(t, m) ==
    /\ At(t, "idle")
    /\ dev' = [dev EXCEPT ![t] = m]
    /\ alone' = IF \A u \in Tasks : At(u, "idle") THEN {t} ELSE {}

-----------------------------------------------------------------------------
(* readproc_CDD2, called again until it returns 0 or an error. *)

StartCat(t, m) ==
    /\ Begin(t, m) /\ Goto(t, "read")
    /\ UNCHANGED <<procVars, statics, kind, readers, report, mode, printed>>

ReadLock_Unlocked(t) ==
    /\ At(t, "read") /\ Goto(t, "eof")
    /\ UNCHANGED <<procVars, statics, dev, kind, readers, report, mode, printed, alone>>

ReadLock(t) ==
    /\ At(t, "read") /\ Goto(t, "eof")
    /\ readers' = readers \cup {t}
    /\ UNCHANGED <<procVars, statics, dev, kind, report, mode, printed, alone>>

(* An open or a write of the device holds the semaphore: -ERESTARTSYS.      *)
ReadRefused(t) == At(t, "read") /\ End(t) /\ UNCHANGED <<procVars, statics, mode>>

(* The flag is taken, the read returns 0 and cat ends.                      *)
ReadEof(t) ==
    /\ At(t, "eof") /\ eof
    /\ eof' = FALSE
    /\ End(t)
    /\ UNCHANGED <<procVars, retbuf, result, mode>>

ReadBegin(t) ==
    /\ At(t, "eof") /\ ~eof
    /\ kind' = [kind EXCEPT ![t] = CDDCMD_DEVSIZE]
    /\ Goto(t, "usage")
    /\ UNCHANGED <<procVars, statics, dev, readers, report, mode, printed, alone>>

(* get_CDD_usage prints, the caller copies.                                 *)
ReadUsage(t) ==
    /\ At(t, "usage") /\ Goto(t, "strcpy")
    /\ retbuf' = get_CDD_usage(kind[t], dev[t])
    /\ UNCHANGED <<procVars, eof, result, dev, kind, readers, report, mode, printed, alone>>

ReadCopy_PastLast(t) ==
    /\ At(t, "strcpy")
    /\ result' = [result EXCEPT ![kind[t]] = retbuf]
    /\ IF kind[t] > CDDCMD_DEVOPENS
       THEN Goto(t, "snprintf") /\ UNCHANGED kind
       ELSE Goto(t, "usage") /\ kind' = [kind EXCEPT ![t] = @ + 1]
    /\ UNCHANGED <<procVars, eof, retbuf, dev, readers, report, mode, printed, alone>>

ReadCopy(t) ==
    /\ At(t, "strcpy")
    /\ result' = [result EXCEPT ![kind[t]] = retbuf]
    /\ IF kind[t] = CDDCMD_DEVOPENS
       THEN Goto(t, "snprintf") /\ UNCHANGED kind
       ELSE Goto(t, "usage") /\ kind' = [kind EXCEPT ![t] = @ + 1]
    /\ UNCHANGED <<procVars, eof, retbuf, dev, readers, report, mode, printed, alone>>

ReadPrint(t) ==
    /\ At(t, "snprintf") /\ Goto(t, "done")
    /\ pending' = pending \ {dev[t]}
    /\ report' = [report EXCEPT ![t] = result]
    /\ mode' = [mode EXCEPT ![t] = procflag[dev[t]]]
    /\ kind' = [kind EXCEPT ![t] = CDDCMD_DEVSIZE]
    /\ UNCHANGED <<usage, procflag, statics, dev, readers, printed, alone>>

FinishWith(t, flag, end) ==
    /\ At(t, "done") /\ Goto(t, "read")
    /\ procflag' = [procflag EXCEPT ![dev[t]] = flag]
    /\ eof' = end
    /\ readers' = readers \ {t}
    /\ printed' = printed \cup {t}
    /\ report' = [report EXCEPT ![t] = NoReport]
    /\ mode' = [mode EXCEPT ![t] = FALSE]
    /\ UNCHANGED <<usage, pending, retbuf, result, dev, kind, alone>>

ReadFinish_KeepingFlag(t) == FinishWith(t, procflag[dev[t]], TRUE)

ReadFinish_WithoutEof(t) == FinishWith(t, FALSE, eof)

ReadFinish(t) == FinishWith(t, FALSE, TRUE)

(* writeproc_CDD2 takes no lock.                                            *)
WriteProc(m) ==
    /\ procflag' = [procflag EXCEPT ![m] = TRUE]
    /\ pending' = pending \cup {m}
    /\ UNCHANGED <<usage, statics, taskVars>>

-----------------------------------------------------------------------------
(* CDD_ioctl. *)

IoctlLock(t, m, type) ==
    /\ Begin(t, m) /\ Goto(t, "ioctl")
    /\ kind' = [kind EXCEPT ![t] = type]
    /\ readers' = readers \cup {t}
    /\ UNCHANGED <<procVars, statics, report, mode, printed>>

IoctlUsage(t) ==
    /\ At(t, "ioctl") /\ Goto(t, "copyout")
    /\ retbuf' = get_CDD_usage(kind[t], dev[t])
    /\ UNCHANGED <<procVars, eof, result, dev, kind, readers, report, mode, printed, alone>>

IoctlCopy(t) ==
    /\ At(t, "copyout") /\ Goto(t, "return")
    /\ report' = [report EXCEPT ![t][kind[t]] = retbuf]
    /\ UNCHANGED <<procVars, statics, dev, kind, readers, mode, printed, alone>>

(* -EFAULT.                                                                 *)
IoctlFault(t) == At(t, "copyout") /\ End(t) /\ UNCHANGED <<procVars, statics, mode>>

IoctlReturn(t) == At(t, "return") /\ End(t) /\ UNCHANGED <<procVars, statics, mode>>

-----------------------------------------------------------------------------
(* An open or a write of minor m changes the numbers that are printed       *)
(* (alloc_len, active_opens, counter) under the semaphore for writing; no   *)
(* reader of the minor sees one of them changed without the others.         *)
Update(m) ==
    /\ usage[m] < MaxUpdates
    /\ \A t \in readers : dev[t] # m
    /\ usage' = [usage EXCEPT ![m] = @ + 1]
    /\ UNCHANGED <<procflag, pending, statics, taskVars>>

Step(t) == \/ ReadLock(t) \/ ReadRefused(t) \/ ReadEof(t) \/ ReadBegin(t)
           \/ ReadUsage(t) \/ ReadCopy(t) \/ ReadPrint(t) \/ ReadFinish(t)
           \/ IoctlUsage(t) \/ IoctlCopy(t) \/ IoctlFault(t) \/ IoctlReturn(t)

Next == \/ \E t \in Tasks : Step(t)
        \/ \E t \in Tasks, m \in Minors :
               StartCat(t, m) \/ \E type \in Kinds : IoctlLock(t, m, type)
        \/ \E m \in Minors : WriteProc(m) \/ Update(m)

Spec == Init /\ [][Next]_vars

(* Every task that is inside a call, or between two reads, goes on.         *)
FairSpec == Spec /\ \A t \in Tasks : WF_vars(Step(t))

-----------------------------------------------------------------------------
TypeOK ==
    /\ usage \in [Minors -> 0 .. MaxUpdates]
    /\ procflag \in [Minors -> BOOLEAN] /\ pending \subseteq Minors
    /\ eof \in BOOLEAN /\ retbuf \in Strings \cup {NoString}
    /\ result \in [Kinds -> Strings \cup {NoString}]
    /\ pc \in [Tasks -> {"idle", "read", "eof", "usage", "strcpy", "snprintf", "done",
                         "ioctl", "copyout", "return"}]
    /\ dev \in [Tasks -> Minors \cup {NoMinor}] /\ kind \in [Tasks -> Kinds]
    /\ readers \subseteq Tasks /\ printed \subseteq Tasks /\ alone \subseteq Tasks
    /\ report \in [Tasks -> [Kinds -> Strings \cup {NoString}]]
    /\ mode \in [Tasks -> BOOLEAN]

(* A report that no other reader or ioctl runs with shows the three numbers *)
(* the minor has at one moment, whoever opens and writes it meanwhile; and  *)
(* the same is true of the one string of an ioctl.                          *)
Shown(t) == CASE At(t, "done") -> Kinds
              [] At(t, "return") -> {kind[t]}
              [] OTHER -> {}

ReportIsSnapshot ==
    \A t \in alone : \A k \in Shown(t) : report[t][k] = get_CDD_usage(k, dev[t])

(* A report says "Written" only if the entry has been written to since the *)
(* last report of the minor was printed, unless another reader has printed  *)
(* one and has not reset the flag yet.  Writes, which take no lock, may come *)
(* at any time.                                                             *)
WrittenIsNew ==
    [][\A t \in Tasks :
          /\ At(t, "snprintf") /\ At(t, "done")' /\ mode'[t]
          /\ \A u \in Tasks : At(u, "done") => dev[u] # dev[t]
          => dev[t] \in pending]_vars

(* A cat that nobody else reads or calls ioctl with prints no report twice. *)
CatPrintsOnce == \A t \in alone : At(t, "done") => t \notin printed

NoMoreCats == <>[][\A t \in Tasks, m \in Minors : ~StartCat(t, m)]_vars

InCat(t) == pc[t] \in {"read", "eof", "usage", "strcpy", "snprintf", "done"}

(* Cats that run together take each other's end of file, and one may print  *)
(* its report again for that; when no more of them come, each of them ends. *)
CatsEnd == NoMoreCats => <>[](\A t \in Tasks : ~InCat(t))
=============================================================================

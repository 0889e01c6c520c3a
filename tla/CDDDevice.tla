------------------------------ MODULE CDDDevice ------------------------------
(***************************************************************************)
(* One minor device of the CDD character driver: struct CDDdev_struct, its *)
(* reader/writer semaphore, its wait queue, and the file operations open,  *)
(* read, write, llseek and release run by concurrent tasks (basic_ops.c).  *)
(*                                                                         *)
(* A task runs one system call at a time; pc[t] names the place in the     *)
(* handler it has reached.  Everything a handler does while it holds       *)
(* CDD_sem for writing is invisible to the others except for the counter,  *)
(* which llseek and the wait loop read without the lock.                   *)
(*                                                                         *)
(* The content of the buffer is abstracted to the offsets that hold bytes  *)
(* stored by CDD_write since the buffer was allocated or truncated.        *)
(*                                                                         *)
(* An operator named X_Y, Y saying what is wrong, is what X would be after *)
(* a plausible mistake in the code: PROJECT.json pairs it with a property  *)
(* that notices.  No specification uses it.                                *)
(***************************************************************************)
EXTENDS CDDArith, FiniteSets

CONSTANTS
    Tasks,      \* the tasks (threads of control) that call the driver
    Files,      \* the open file descriptions (struct file) they may use
    BufLen,     \* get_storage_length(minor): length of the buffer
    Counts,     \* the byte counts a read or a write may ask for
    OpenModes,  \* the flag combinations open is called with
    Offsets,    \* the offsets llseek is called with
    MaxOpens,   \* bound: no open is issued while active_opens is this, if it can be
    NoTask, NoFile, NULL

OpenFlags == [acc : {"O_RDONLY", "O_WRONLY", "O_RDWR"},
              trunc : BOOLEAN, append : BOOLEAN, nonblock : BOOLEAN]

(* A request is at most MAX_RW_COUNT < 2^31 bytes: the VFS sees to it. *)
ASSUME DeviceAssumption ==
    /\ BufLen \in 1 .. IntHalf - 1
    /\ Counts \subseteq 0 .. IntHalf - 1
    /\ OpenModes \subseteq OpenFlags
    /\ Offsets \subseteq Int
    /\ MaxOpens \in Nat
    /\ NoTask \notin Tasks
    /\ NoFile \notin Files
    /\ \A s \in SUBSET (0 .. BufLen - 1) : NULL # s

VARIABLES
    counter, alloc_len, CDD_storage, append, active_opens,  \* CDDdev_struct
    writer, readers,            \* CDD_sem: who holds it for writing, reading
    inq,                        \* CDD_inq: tasks with an entry on the queue
    interruptible,              \* tasks in state TASK_INTERRUPTIBLE
    signalled,                  \* tasks with a signal pending
    fstate, f_flags, f_pos,     \* the open file descriptions
    pc, fd,                     \* place in the handler; file it works on
    ppos, pos, cnt, ret         \* locals of the handlers

devVars  == <<counter, alloc_len, CDD_storage, append, active_opens>>
semVars  == <<writer, readers>>
waitVars == <<inq, interruptible, signalled>>
fileVars == <<fstate, f_flags, f_pos>>
taskVars == <<pc, fd, ppos, pos, cnt, ret>>
vars     == <<devVars, semVars, waitVars, fileVars, taskVars>>

NoFlags == [acc |-> "O_RDONLY", trunc |-> FALSE,
            append |-> FALSE, nonblock |-> FALSE]
Errors  == {"EFAULT", "EAGAIN", "ERESTARTSYS", "ENOMEM"}

Writeable(flags) == flags.acc # "O_RDONLY"
Readable(flags)  == flags.acc # "O_WRONLY"

(* content_is_unavailable: would open(flags) have to sleep? *)
content_is_unavailable_IgnoringEmpty(flags) == ~Writeable(flags) /\ flags.trunc

content_is_unavailable(flags) ==
    ~Writeable(flags) /\ (counter = 0 \/ flags.trunc)

Init ==
    /\ counter = 0 /\ alloc_len = 0 /\ CDD_storage = NULL
    /\ append = FALSE /\ active_opens = 0
    /\ writer = NoTask /\ readers = {}
    /\ inq = {} /\ interruptible = {} /\ signalled = {}
    /\ fstate  = [f \in Files |-> "free"]
    /\ f_flags = [f \in Files |-> NoFlags]
    /\ f_pos   = [f \in Files |-> 0]
    /\ pc   = [t \in Tasks |-> "idle"]
    /\ fd   = [t \in Tasks |-> NoFile]
    /\ ppos = [t \in Tasks |-> 0]
    /\ pos  = [t \in Tasks |-> 0]
    /\ cnt  = [t \in Tasks |-> 0]
    /\ ret  = [t \in Tasks |-> "none"]

-----------------------------------------------------------------------------
(* Control flow and the semaphore. *)

At(t, label)   == pc[t] = label
Goto(t, label) == pc' = [pc EXCEPT ![t] = label] /\ UNCHANGED ret
Finish(t, res) == /\ pc'  = [pc EXCEPT ![t] = "return"]
                  /\ ret' = [ret EXCEPT ![t] = res]

WriteTrylockFails == writer # NoTask \/ readers # {}
DownWrite(t) == ~WriteTrylockFails /\ writer' = t /\ UNCHANGED readers
UpWrite(t)   == writer' = NoTask /\ UNCHANGED readers
DownRead(t)  == writer = NoTask /\ readers' = readers \cup {t} /\ UNCHANGED writer
UpRead(t)    == readers' = readers \ {t} /\ UNCHANGED writer

(* The kernel's wait queue. A task to wake is taken off the queue as well.  *)
prepare_to_wait(t) == /\ inq' = inq \cup {t}
                      /\ interruptible' = interruptible \cup {t}

finish_wait_KeepingEntry(t) == interruptible' = interruptible \ {t} /\ UNCHANGED inq

finish_wait(t) == inq' = inq \ {t} /\ interruptible' = interruptible \ {t}

wake_up_nobody == UNCHANGED <<inq, interruptible>>

wake_up_interruptible == /\ inq' = inq \ interruptible
                         /\ interruptible' = interruptible \ inq

(* The VFS on the way out: a file whose open failed is freed, a file whose  *)
(* open succeeded becomes usable, and a successful read or write stores the *)
(* position it worked on back into the file.                                *)
Leave(t) ==
    /\ pc'   = [pc   EXCEPT ![t] = "idle"]
    /\ fd'   = [fd   EXCEPT ![t] = NoFile]
    /\ ppos' = [ppos EXCEPT ![t] = 0]
    /\ pos'  = [pos  EXCEPT ![t] = 0]
    /\ cnt'  = [cnt  EXCEPT ![t] = 0]
    /\ ret'  = [ret  EXCEPT ![t] = "none"]
    /\ signalled' = signalled \ {t}

ReturnOk(t) ==
    /\ At(t, "return") /\ ret[t] = "ok"
    /\ fstate' = [fstate EXCEPT ![fd[t]] = "installed"]
    /\ f_pos'  = [f_pos  EXCEPT ![fd[t]] = ppos[t]]
    /\ Leave(t)
    /\ UNCHANGED <<devVars, semVars, inq, interruptible, f_flags>>

ReturnError(t) ==
    /\ At(t, "return") /\ ret[t] \in Errors
    /\ IF fstate[fd[t]] = "opening"
       THEN /\ fstate'  = [fstate  EXCEPT ![fd[t]] = "free"]
            /\ f_flags' = [f_flags EXCEPT ![fd[t]] = NoFlags]
       ELSE UNCHANGED <<fstate, f_flags>>
    /\ Leave(t)
    /\ UNCHANGED <<devVars, semVars, inq, interruptible, f_pos>>

-----------------------------------------------------------------------------
(* CDD_open, wait_for_content, allocate_storage. *)

SysOpen(t, f, flags) ==
    /\ At(t, "idle") /\ fstate[f] = "free" /\ active_opens < MaxOpens
    /\ fd'      = [fd EXCEPT ![t] = f]
    /\ fstate'  = [fstate EXCEPT ![f] = "opening"]
    /\ f_flags' = [f_flags EXCEPT ![f] = flags]
    /\ Goto(t, "open")
    /\ UNCHANGED <<devVars, semVars, waitVars, f_pos, ppos, pos, cnt>>

OpenLock(t) ==
    /\ At(t, "open")
    /\ \/ WriteTrylockFails /\ Finish(t, "ERESTARTSYS") /\ UNCHANGED semVars
       \/ DownWrite(t) /\ Goto(t, "alloc")
    /\ UNCHANGED <<devVars, waitVars, fileVars, fd, ppos, pos, cnt>>

(* allocate_storage runs on every open and replaces the buffer; the new one *)
(* is not initialised and the old one is not freed.                         *)
OpenAlloc(t) ==
    /\ At(t, "alloc")
    /\ CDD_storage' = {} /\ alloc_len' = BufLen
    /\ Goto(t, "test")
    /\ UNCHANGED <<counter, append, active_opens, semVars, waitVars, fileVars,
                   fd, ppos, pos, cnt>>

OpenAllocFails_KeepingLock(t) ==
    /\ At(t, "alloc")
    /\ CDD_storage' = NULL
    /\ UNCHANGED semVars /\ Finish(t, "ENOMEM")
    /\ UNCHANGED <<counter, alloc_len, append, active_opens, waitVars, fileVars,
                   fd, ppos, pos, cnt>>

OpenAllocFails(t) ==
    /\ At(t, "alloc")
    /\ CDD_storage' = NULL
    /\ UpWrite(t) /\ Finish(t, "ENOMEM")
    /\ UNCHANGED <<counter, alloc_len, append, active_opens, waitVars, fileVars,
                   fd, ppos, pos, cnt>>

OpenComplete(t) ==
    LET flags == f_flags[fd[t]] IN
    /\ At(t, "test") /\ ~content_is_unavailable(flags)
    /\ active_opens' = (active_opens + 1) % (2 * IntHalf)    \* unsigned int
    /\ append' = flags.append
    /\ IF flags.trunc THEN counter' = 0 /\ CDD_storage' = {}
                      ELSE UNCHANGED <<counter, CDD_storage>>
    /\ fstate' = [fstate EXCEPT ![fd[t]] = "opened"]
    /\ UpWrite(t) /\ Finish(t, "ok")
    /\ UNCHANGED <<alloc_len, waitVars, f_flags, f_pos, fd, ppos, pos, cnt>>

OpenUnavailable(t) ==
    LET flags == f_flags[fd[t]] IN
    /\ At(t, "test") /\ content_is_unavailable(flags)
    /\ UpWrite(t)
    /\ IF flags.nonblock THEN Finish(t, "EAGAIN") ELSE Goto(t, "prepare")
    /\ UNCHANGED <<devVars, waitVars, fileVars, fd, ppos, pos, cnt>>

OpenPrepare(t) ==
    /\ At(t, "prepare")
    /\ prepare_to_wait(t) /\ Goto(t, "recheck")
    /\ UNCHANGED <<devVars, semVars, signalled, fileVars, fd, ppos, pos, cnt>>

OpenRecheck_Skipped(t) ==
    /\ At(t, "recheck")
    /\ Goto(t, "schedule")
    /\ UNCHANGED <<devVars, semVars, waitVars, fileVars, fd, ppos, pos, cnt>>

OpenRecheck(t) ==
    /\ At(t, "recheck")
    /\ Goto(t, IF content_is_unavailable(f_flags[fd[t]]) THEN "schedule" ELSE "finish")
    /\ UNCHANGED <<devVars, semVars, waitVars, fileVars, fd, ppos, pos, cnt>>

OpenAwake_Uninterruptible(t) ==
    /\ At(t, "schedule") /\ t \notin interruptible
    /\ Goto(t, "finish")
    /\ UNCHANGED <<devVars, semVars, waitVars, fileVars, fd, ppos, pos, cnt>>

(* schedule() returns once the task was woken or has a signal to handle. *)
OpenAwake(t) ==
    /\ At(t, "schedule") /\ (t \notin interruptible \/ t \in signalled)
    /\ interruptible' = interruptible \ {t}
    /\ Goto(t, "finish")
    /\ UNCHANGED <<devVars, semVars, inq, signalled, fileVars, fd, ppos, pos, cnt>>

OpenFinishWait(t) ==
    /\ At(t, "finish")
    /\ finish_wait(t)
    /\ \/ /\ t \in signalled \/ WriteTrylockFails
          /\ Finish(t, "ERESTARTSYS") /\ UNCHANGED semVars
       \/ t \notin signalled /\ DownWrite(t) /\ Goto(t, "test")
    /\ UNCHANGED <<devVars, signalled, fileVars, fd, ppos, pos, cnt>>

(* A signal is sent to a task that is inside open. *)
OpenLabels == {"open", "alloc", "test", "prepare", "recheck", "schedule", "finish"}

Signal(t) ==
    /\ pc[t] \in OpenLabels /\ t \notin signalled
    /\ signalled' = signalled \cup {t}
    /\ UNCHANGED <<devVars, semVars, inq, interruptible, fileVars, taskVars>>

(* CDD_release: the last reference to the file is dropped. *)
Close(f) ==
    /\ fstate[f] = "installed" /\ \A t \in Tasks : fd[t] # f
    /\ fstate'  = [fstate  EXCEPT ![f] = "free"]
    /\ f_flags' = [f_flags EXCEPT ![f] = NoFlags]
    /\ f_pos'   = [f_pos   EXCEPT ![f] = 0]
    /\ UNCHANGED <<devVars, semVars, waitVars, taskVars>>

-----------------------------------------------------------------------------
(* CDD_read.  The VFS copies f_pos before it calls the handler, and takes   *)
(* no lock for it: a character device is not FMODE_ATOMIC_POS.              *)

SysRead(t, f, n) ==
    /\ At(t, "idle") /\ fstate[f] = "installed" /\ Readable(f_flags[f])
    /\ fd'   = [fd   EXCEPT ![t] = f]
    /\ ppos' = [ppos EXCEPT ![t] = f_pos[f]]
    /\ cnt'  = [cnt  EXCEPT ![t] = n]
    /\ Goto(t, "read")
    /\ UNCHANGED <<devVars, semVars, waitVars, fileVars, pos>>

ReadLock(t) ==
    /\ At(t, "read") /\ DownRead(t)
    /\ cnt' = [cnt EXCEPT ![t] = ReadLen(ppos[t], @, counter)]
    /\ Goto(t, "rbody")
    /\ UNCHANGED <<devVars, waitVars, fileVars, fd, ppos, pos>>

(* Zero bytes are end of file: nothing is copied.  A copy from a buffer that *)
(* is gone faults, on the x86 kernels the driver was built for.              *)
ReadCopy(t) ==
    /\ At(t, "rbody") /\ (cnt[t] = 0 \/ CDD_storage # NULL)
    /\ ppos' = [ppos EXCEPT ![t] = @ + cnt[t]]
    /\ UpRead(t) /\ Finish(t, "ok")
    /\ UNCHANGED <<devVars, waitVars, fileVars, fd, pos, cnt>>

ReadFault(t) ==
    /\ At(t, "rbody") /\ cnt[t] > 0
    /\ UpRead(t) /\ Finish(t, "EFAULT")
    /\ UNCHANGED <<devVars, waitVars, fileVars, fd, ppos, pos, cnt>>

-----------------------------------------------------------------------------
(* CDD_write. *)

SysWrite(t, f, n) ==
    /\ At(t, "idle") /\ fstate[f] = "installed" /\ Writeable(f_flags[f])
    /\ fd'   = [fd   EXCEPT ![t] = f]
    /\ ppos' = [ppos EXCEPT ![t] = f_pos[f]]
    /\ cnt'  = [cnt  EXCEPT ![t] = n]
    /\ Goto(t, "write")
    /\ UNCHANGED <<devVars, semVars, waitVars, fileVars, pos>>

WriteLock(t) ==
    /\ At(t, "write")
    /\ \/ /\ WriteTrylockFails /\ Finish(t, "ERESTARTSYS")
          /\ UNCHANGED <<semVars, pos>>
       \/ /\ DownWrite(t) /\ Goto(t, "wbody")
          /\ pos' = [pos EXCEPT ![t] = WritePos(append, counter, ppos[t])]
    /\ UNCHANGED <<devVars, waitVars, fileVars, fd, ppos, cnt>>

WriteReject(t) ==
    /\ At(t, "wbody") /\ ~WriteAccepted(pos[t], cnt[t], alloc_len)
    /\ UpWrite(t) /\ Finish(t, "EFAULT")
    /\ UNCHANGED <<devVars, waitVars, fileVars, fd, ppos, pos, cnt>>

(* The buffer after k of the cnt bytes of a write arrived: copy_from_user    *)
(* fills the rest of the range with zeros.                                  *)
StoredBytes(t, k) ==
    IF CDD_storage = NULL THEN NULL
    ELSE (CDD_storage \ (pos[t] .. pos[t] + cnt[t] - 1)) \cup (pos[t] .. pos[t] + k - 1)

(* copy_from_user faults after it copied k bytes. *)
WriteFault(t, k) ==
    /\ At(t, "wbody") /\ WriteAccepted(pos[t], cnt[t], alloc_len)
    /\ k < cnt[t]
    /\ CDD_storage' = StoredBytes(t, k)
    /\ UpWrite(t) /\ Finish(t, "EFAULT")
    /\ UNCHANGED <<counter, alloc_len, append, active_opens, waitVars, fileVars,
                   fd, ppos, pos, cnt>>

WriteCopy(t) ==
    LET end == WriteEnd(pos[t], cnt[t]) IN
    /\ At(t, "wbody") /\ WriteAccepted(pos[t], cnt[t], alloc_len)
    /\ cnt[t] = 0 \/ CDD_storage # NULL
    /\ CDD_storage' = StoredBytes(t, cnt[t])
    /\ counter' = IF end > counter THEN end ELSE counter
    /\ ppos' = [ppos EXCEPT ![t] = @ + cnt[t]]
    /\ Goto(t, "up_write")
    /\ UNCHANGED <<alloc_len, append, active_opens, semVars, waitVars, fileVars, fd, pos,
                   cnt>>

(* The loop of wait_for_content may see the counter before this.           *)
WriteUnlock(t) ==
    /\ At(t, "up_write")
    /\ UpWrite(t) /\ Goto(t, "wake")
    /\ UNCHANGED <<devVars, waitVars, fileVars, fd, ppos, pos, cnt>>

(* release_oblk, after the semaphore was released. *)
WriteWake(t) ==
    /\ At(t, "wake")
    /\ wake_up_interruptible /\ Finish(t, "ok")
    /\ UNCHANGED <<devVars, semVars, signalled, fileVars, fd, ppos, pos, cnt>>

-----------------------------------------------------------------------------
(* CDD_llseek: no lock; the counter is read for SEEK_END, and for the test, *)
(* and may have changed when the position is stored.                        *)

SysSeek(t, f, whence, offset) ==
    LET from == CASE whence = "SEEK_SET" -> 0
                  [] whence = "SEEK_CUR" -> ToInt(f_pos[f])
                  [] whence = "SEEK_END" -> ToInt(counter)
    IN
    /\ At(t, "idle") /\ fstate[f] = "installed"
    /\ fd'  = [fd  EXCEPT ![t] = f]
    /\ pos' = [pos EXCEPT ![t] = SeekPos(from, offset)]
    /\ Goto(t, "seek")
    /\ UNCHANGED <<devVars, semVars, waitVars, fileVars, ppos, cnt>>

SeekTest(t) ==
    /\ At(t, "seek")
    /\ \/ /\ SeekAccepted(pos[t], counter) /\ Goto(t, "set_pos")
          /\ UNCHANGED <<signalled, fd, ppos, pos, cnt>>
       \/ ~SeekAccepted(pos[t], counter) /\ Leave(t)
    /\ UNCHANGED <<devVars, semVars, inq, interruptible, fileVars>>

SeekSet(t) ==
    /\ At(t, "set_pos")
    /\ f_pos' = [f_pos EXCEPT ![fd[t]] = pos[t]]
    /\ Leave(t)
    /\ UNCHANGED <<devVars, semVars, inq, interruptible, fstate, f_flags>>

-----------------------------------------------------------------------------
Whences == {"SEEK_SET", "SEEK_CUR", "SEEK_END"}

(* The calls the environment makes, and the steps the kernel takes for them. *)
Call(t) ==
    \E f \in Files :
        \/ \E flags \in OpenModes : SysOpen(t, f, flags)
        \/ \E n \in Counts : SysRead(t, f, n) \/ SysWrite(t, f, n)
        \/ \E w \in Whences, o \in Offsets : SysSeek(t, f, w, o)

OpenStep(t) ==
    \/ OpenLock(t) \/ OpenAlloc(t) \/ OpenAllocFails(t)
    \/ OpenComplete(t) \/ OpenUnavailable(t)
    \/ OpenPrepare(t) \/ OpenRecheck(t) \/ OpenAwake(t) \/ OpenFinishWait(t)

ReadStep(t)  == ReadLock(t) \/ ReadCopy(t) \/ ReadFault(t)
WriteStep(t) == \/ WriteLock(t) \/ WriteReject(t) \/ WriteCopy(t) \/ WriteUnlock(t)
                \/ WriteWake(t) \/ \E k \in 0 .. cnt[t] : WriteFault(t, k)
SeekStep(t)  == SeekTest(t) \/ SeekSet(t)
Step(t)      == \/ OpenStep(t) \/ ReadStep(t) \/ WriteStep(t) \/ SeekStep(t)
                \/ ReturnOk(t) \/ ReturnError(t)

Next == \/ \E t \in Tasks : Call(t) \/ Step(t) \/ Signal(t)
        \/ \E f \in Files : Close(f)

Spec == Init /\ [][Next]_vars

(* The scheduler runs every task that can run, and the semaphore hands over *)
(* to a task queued in down_read.                                           *)
Fairness == \A t \in Tasks : WF_vars(Step(t)) /\ SF_vars(ReadLock(t))

FairSpec == Spec /\ Fairness

-----------------------------------------------------------------------------
Labels == OpenLabels \cup {"idle", "read", "rbody", "write", "wbody", "wake",
                           "up_write", "seek", "set_pos", "return"}

DevType ==
    /\ counter \in 0 .. BufLen /\ alloc_len \in {0, BufLen}
    /\ CDD_storage = NULL \/ CDD_storage \in SUBSET (0 .. BufLen - 1)
    /\ active_opens \in 0 .. 2 * IntHalf - 1

LockType ==
    /\ writer \in Tasks \cup {NoTask} /\ readers \subseteq Tasks
    /\ inq \subseteq Tasks /\ interruptible \subseteq Tasks
    /\ signalled \subseteq Tasks

FileType ==
    /\ fstate \in [Files -> {"free", "opening", "opened", "installed"}]
    /\ f_flags \in [Files -> OpenFlags]
    /\ f_pos \in [Files -> Nat]

TaskType ==
    /\ pc \in [Tasks -> Labels]
    /\ fd \in [Tasks -> Files \cup {NoFile}]
    /\ ppos \in [Tasks -> Nat]
    /\ pos \in [Tasks -> Int32]
    /\ cnt \in [Tasks -> 0 .. IntHalf - 1]
    /\ ret \in [Tasks -> Errors \cup {"ok", "none"}]

(* Every variable has its type.                                             *)
TypeOK == DevType /\ append \in BOOLEAN /\ LockType /\ FileType /\ TaskType

-----------------------------------------------------------------------------
(* Safety. *)

WriteLabels == {"alloc", "test", "wbody", "up_write"}   \* CDD_sem is held for writing
WaitLabels  == {"recheck", "schedule", "finish"}

(* CDD_sem is held exactly while a handler is between taking and releasing  *)
(* it, on every path: no error return of open, of its wait loop, of read or *)
(* of write keeps the semaphore or releases it twice, and no reader copies  *)
(* while a writer is inside.                                                *)
LockDiscipline ==
    /\ \A t \in Tasks : writer = t <=> pc[t] \in WriteLabels
    /\ readers = {t \in Tasks : pc[t] = "rbody"}
    /\ writer # NoTask => readers = {}

(* The content never exceeds the buffer, and the range a read or write is   *)
(* about to copy, computed before the copy, still lies within the content   *)
(* or the buffer when the copy is made, whatever the other tasks did.  An   *)
(* open with O_TRUNC stores its final zero into a buffer that exists, though *)
(* an allocation by another open can fail and take the buffer away.         *)
CopiesInBounds ==
    /\ counter <= alloc_len
    /\ CDD_storage # NULL => alloc_len = BufLen
    /\ \A t \in Tasks :
          /\ At(t, "rbody") /\ cnt[t] > 0 => ppos[t] + cnt[t] <= counter
          /\ At(t, "wbody") /\ WriteAccepted(pos[t], cnt[t], alloc_len)
                => pos[t] >= 0 /\ pos[t] + cnt[t] <= alloc_len
          /\ LET flags == f_flags[fd[t]] IN
             At(t, "test") /\ flags.trunc /\ ~content_is_unavailable(flags)
                => CDD_storage # NULL

(* The wait-queue entry lives on the stack of wait_for_content: it is on    *)
(* CDD_inq only while the task is inside the wait, never after a return.    *)
NoDanglingWaiter ==
    \A t \in inq \cup interruptible : pc[t] \in WaitLabels

(* No lost wake-up: a task that sleeps in open although there is content    *)
(* for it is about to be woken by a write that has set the counter and not  *)
(* yet called release_oblk.                                                 *)
Asleep(t) == At(t, "schedule") /\ t \in interruptible /\ t \notin signalled

NoLostWakeup ==
    \A t \in Tasks :
        Asleep(t) /\ ~content_is_unavailable(f_flags[fd[t]])
            => /\ t \in inq
               /\ \E u \in Tasks : At(u, "up_write") \/ At(u, "wake")

(* Positions only pass the end of the content when the content is dropped   *)
(* under them: as long as no open truncates, every file position and every  *)
(* write in progress is within the content, so no write leaves a gap of     *)
(* bytes nobody wrote.                                                      *)
NoTruncation == \A m \in OpenModes : ~m.trunc

NoGapWithoutTruncation ==
    NoTruncation => /\ \A f \in Files : f_pos[f] <= counter
                    /\ \A t \in Tasks : At(t, "wbody") => pos[t] <= counter

-----------------------------------------------------------------------------
(* The device implements the abstract file. *)

Handle(f) == CASE fstate[f] \in {"free", "opening"} -> "none"
               [] OTHER -> IF Writeable(f_flags[f]) THEN "writer" ELSE "reader"

File == INSTANCE CDDFile WITH
            Handles <- Files, Len <- BufLen, Width <- 2 * IntHalf,
            size <- alloc_len, used <- counter, opens <- active_opens,
            handle <- [f \in Files |-> Handle(f)]

(* Whatever the interleaving: a read-only open succeeds only on a device    *)
(* with content, content is dropped only by an open for writing that        *)
(* succeeds and extended only through a file open for writing, and exactly  *)
(* the successful opens are counted.                                        *)
ImplementsFile == File!Spec

-----------------------------------------------------------------------------
(* Liveness, under FairSpec. *)

(* A task sleeping in open while there is content for it does not sleep on. *)
BlockedReaderWakes ==
    \A t \in Tasks :
        Asleep(t) /\ ~content_is_unavailable(f_flags[fd[t]]) ~> ~Asleep(t)

(* Every call returns, but an open may sleep.  The loop of wait_for_content *)
(* has no bound: the content an open was woken for, or saw without the      *)
(* semaphore, can be dropped before it has that.  So an open that never     *)
(* sleeps for long returns unless content comes and is dropped again and    *)
(* again, for ever; reads, writes and seeks return even then.               *)
CallsReturn ==
    \A t \in Tasks :
        /\ pc[t] \notin OpenLabels ~> pc[t] = "idle"
        /\ \/ pc[t] \in OpenLabels ~> pc[t] \notin OpenLabels \/ Asleep(t)
           \/ []<><<counter' < counter>>_vars

(* A signal gets a task out of a blocking open. *)
SignalInterruptsOpen ==
    \A t \in Tasks : t \in signalled ~> pc[t] = "idle"
=============================================================================

----------------------------- MODULE CDDModule -----------------------------
(***************************************************************************)
(* Loading and unloading the driver: CDD_init and CDD_exit of main.c with  *)
(* CDDproc_init, CDDproc_exit and free_storage.  The two functions handle  *)
(* the minors one after the other; a device that has been added is open to *)
(* everybody at once, and so is its /proc entry, while the loop goes on.   *)
(***************************************************************************)
EXTENDS CDDProcDir

CONSTANTS
    MaxOpens,    \* bound: opens of one device
    Failures     \* the sets of kernel calls that may fail together

(* CDDdev.h allows one to five minors, numbered from 0.                     *)
ASSUME ModuleAssumption ==
    /\ \E n \in 0 .. 4 : Minors = 0 .. n
    /\ Marker \notin Minors
    /\ MaxOpens \in Nat

AllocTypes == <<"ALLOC_VMALLOC", "ALLOC_KMALLOC", "ALLOC_KMALLOC_HIGH",
                "ALLOC_KMALLOC_DMA", "ALLOC_KMEMCACHE">>

get_storage_type(minor_number) == AllocTypes[minor_number + 1]

VARIABLES
    state,      \* of the module: the code of a loading, live or going one exists
    at, minor,  \* the place in CDD_init or CDD_exit and the loop variable
    myps,       \* /proc/myps exists
    mypsuse,    \* its readers: none is inside, some are, one will never leave
    region,     \* the device numbers are registered
    devno,      \* minors with a non-zero devno
    added,      \* minors whose cdev the kernel can open
    CDD_sem,    \* minors whose semaphore is allocated
    caches,     \* minors whose slab cache exists
    CDD_storage, alloc_type,  \* minors with a buffer; its recorded type
    buffers,    \* how many buffers allocated for the minor exist
    opens,      \* files open on the minor: each holds a module reference
    procvalue,  \* minors whose CDD_procvalue buffer is allocated
    procuse     \* names whose /proc entry is being read or written

devVars == <<devno, added, CDD_sem, caches, CDD_storage, alloc_type>>
useVars == <<buffers, opens, procuse, mypsuse>>
vars    == <<dirVars, state, at, minor, myps, region, devVars, useVars, procvalue>>

LastMinor == CHOOSE m \in Minors : \A n \in Minors : n <= m

Init ==
    /\ MayFail \in Failures
    /\ DirInit
    /\ state = "coming" /\ at = "region" /\ minor = 0
    /\ myps = TRUE         \* CDDproc_seq_init comes first
    /\ region = FALSE
    /\ devno = {} /\ added = {} /\ CDD_sem = {} /\ caches = {}
    /\ CDD_storage = {} /\ alloc_type = [m \in Minors |-> "ALLOC_VMALLOC"]
    /\ buffers = [m \in Minors |-> 0] /\ opens = [m \in Minors |-> 0]
    /\ procvalue = {} /\ procuse = {} /\ mypsuse = "none"

InitAt(label) == state = "coming" /\ at = label
ExitAt(label) == state = "going" /\ at = label

-----------------------------------------------------------------------------
(* CDD_init. *)

InitRegion ==
    /\ InitAt("region")
    /\ \/ region' = TRUE /\ at' = "sem" /\ UNCHANGED myps
       \/ /\ "register_chrdev_region" \in MayFail
          /\ at' = "seq_exit" /\ myps' = FALSE /\ UNCHANGED region
    /\ UNCHANGED <<dirVars, state, minor, devVars, useVars, procvalue>>

InitSem ==
    /\ InitAt("sem")
    /\ \/ CDD_sem' = CDD_sem \cup {minor} /\ at' = "cache"
       \/ "kmalloc" \in MayFail /\ UNCHANGED CDD_sem /\ at' = "decommission"
    /\ UNCHANGED <<dirVars, state, minor, myps, region, devno, added, caches,
                   CDD_storage, alloc_type, useVars, procvalue>>

InitCache ==
    /\ InitAt("cache")
    /\ alloc_type' = [alloc_type EXCEPT ![minor] = "ALLOC_VMALLOC"]
    /\ \/ caches' = caches \cup {minor} /\ at' = "cdev"
       \/ "kmem_cache_create" \in MayFail /\ UNCHANGED caches /\ at' = "decommission"
    /\ UNCHANGED <<dirVars, state, minor, myps, region, devno, added, CDD_sem,
                   CDD_storage, useVars, procvalue>>

InitCdev ==
    /\ InitAt("cdev")
    /\ \/ /\ devno' = devno \cup {minor} /\ added' = added \cup {minor}
          /\ at' = "procvalue"
       \/ "cdev_add" \in MayFail /\ UNCHANGED <<devno, added>> /\ at' = "decommission"
    /\ UNCHANGED <<dirVars, state, minor, myps, region, CDD_sem, caches,
                   CDD_storage, alloc_type, useVars, procvalue>>

InitProc ==
    /\ InitAt("procvalue")
    /\ procvalue' = procvalue \cup {minor}
    /\ IF topdir_entry_count = 0 THEN create_CDD_procdir_entry(Marker)
                                 ELSE UNCHANGED dirVars
    /\ at' = "procentry"
    /\ UNCHANGED <<state, minor, myps, region, devVars, useVars>>

InitEntry ==
    /\ InitAt("procentry")
    /\ create_CDD_procdir_entry(minor)
    /\ IF minor = LastMinor THEN state' = "live" /\ at' = "idle" /\ UNCHANGED minor
                            ELSE minor' = minor + 1 /\ at' = "sem" /\ UNCHANGED state
    /\ UNCHANGED <<myps, region, devVars, useVars, procvalue>>

(* Partial_decommission_exit: the devices that were added are let to keep   *)
(* running; thisCDD is the last minor's when the slab cache is destroyed.   *)
Decommission(freed, none) ==
    /\ InitAt("decommission")
    /\ CDD_sem' = CDD_sem \ freed
    /\ IF none THEN region' = FALSE /\ caches' = caches \ {LastMinor}
               ELSE UNCHANGED <<region, caches>>
    /\ myps' = FALSE
    /\ at' = "seq_exit"
    /\ UNCHANGED <<dirVars, state, minor, devno, added, CDD_storage, alloc_type, useVars,
                   procvalue>>

InitDecommission_FreeingAll == Decommission(Minors, added = {})

InitDecommission_KeepingRegion == Decommission(Minors \ devno, FALSE)

InitDecommission == Decommission(Minors \ devno, added = {})

(* CDDproc_seq_exit: the entry is gone, but remove_proc_entry returns only  *)
(* when no reader is inside.  Then the kernel discards the module, because  *)
(* its init failed.                                                         *)
InitSeqExit ==
    /\ InitAt("seq_exit") /\ mypsuse = "none"
    /\ state' = "unloaded"
    /\ UNCHANGED <<dirVars, at, minor, myps, region, devVars, useVars, procvalue>>

-----------------------------------------------------------------------------
(* CDD_exit.  rmmod refuses while a file is open; no file can be opened     *)
(* once it has begun.                                                       *)

ExitBegin ==
    /\ state = "live" /\ \A m \in Minors : opens[m] = 0
    /\ state' = "going" /\ myps' = FALSE
    /\ at' = "seq_exit" /\ minor' = 0
    /\ UNCHANGED <<dirVars, region, devVars, useVars, procvalue>>

ExitSeqExit ==
    /\ ExitAt("seq_exit") /\ mypsuse = "none"
    /\ at' = "procvalue"
    /\ UNCHANGED <<dirVars, state, minor, myps, region, devVars, useVars, procvalue>>

ExitProc ==
    /\ ExitAt("procvalue")
    /\ procvalue' = procvalue \ {minor}
    /\ at' = "marker"
    /\ UNCHANGED <<dirVars, state, minor, myps, region, devVars, useVars>>

(* remove_proc_entry lets nobody into the handlers of the entry any more,   *)
(* and returns once nobody is inside.                                       *)
ExitMarker ==
    /\ ExitAt("marker")
    /\ IF topdir_entry_count = 1 THEN Marker \notin procuse /\ RemoveMarker
                                 ELSE UNCHANGED dirVars
    /\ at' = "procentry"
    /\ UNCHANGED <<state, minor, myps, region, devVars, useVars, procvalue>>

RemoveEntryWhen(drained) ==
    /\ ExitAt("procentry")
    /\ drained
    /\ RemoveDevice(minor)
    /\ at' = "cdev"
    /\ UNCHANGED <<state, minor, myps, region, devVars, useVars, procvalue>>


ExitEntry == RemoveEntryWhen(minor \notin procuse)

ExitCdev ==
    /\ ExitAt("cdev")
    /\ added' = added \ {minor} /\ at' = "storage"
    /\ UNCHANGED <<dirVars, state, minor, myps, region, devno, CDD_sem, caches,
                   CDD_storage, alloc_type, useVars, procvalue>>

(* How many buffers free_storage frees: the one the pointer is to, if it is *)
(* of the recorded type; vfree of what vmalloc did not give only warns.     *)
free_storage_Unchecked(m) == 1

free_storage(m) ==
    IF m \in CDD_storage /\ alloc_type[m] = get_storage_type(m) THEN 1 ELSE 0

ExitStorage ==
    /\ ExitAt("storage")
    /\ buffers' = [buffers EXCEPT ![minor] = @ - free_storage(minor)]
    /\ CDD_storage' = CDD_storage \ {minor}
    /\ CDD_sem' = CDD_sem \ {minor}
    /\ IF minor = LastMinor THEN at' = "end" /\ UNCHANGED minor
                            ELSE at' = "procvalue" /\ minor' = minor + 1
    /\ UNCHANGED <<dirVars, state, myps, region, devno, added, caches, alloc_type,
                   opens, procuse, mypsuse, procvalue>>

ExitEnd ==
    /\ ExitAt("end")
    /\ caches' = caches \ {LastMinor}
    /\ region' = FALSE /\ state' = "unloaded"
    /\ UNCHANGED <<dirVars, at, minor, myps, devno, added, CDD_sem, CDD_storage,
                   alloc_type, useVars, procvalue>>

-----------------------------------------------------------------------------
(* What others do meanwhile. *)

(* An open takes a module reference, and allocates a buffer over the old;   *)
(* the number of buffers grows with the opens, MaxOpens bounds both.        *)
Open(m) ==
    /\ state \in {"coming", "live"} /\ m \in added /\ buffers[m] < MaxOpens
    /\ opens' = [opens EXCEPT ![m] = @ + 1]
    /\ buffers' = [buffers EXCEPT ![m] = @ + 1]
    /\ CDD_storage' = CDD_storage \cup {m}
    /\ UNCHANGED <<dirVars, state, at, minor, myps, region, devno, added, CDD_sem,
                   caches, alloc_type, procuse, mypsuse, procvalue>>

Close(m) ==
    /\ opens[m] > 0 /\ opens' = [opens EXCEPT ![m] = @ - 1]
    /\ UNCHANGED <<dirVars, state, at, minor, myps, region, devVars, buffers, procuse,
                   mypsuse, procvalue>>

(* readproc_CDD2 and writeproc_CDD2 of an entry; the files have no owner,   *)
(* so they do not hold the module.                                          *)
BeingRemoved(name) ==
    \/ ExitAt("procentry") /\ name = minor
    \/ ExitAt("marker") /\ name = Marker /\ topdir_entry_count = 1

ProcBegin(name) ==
    /\ state # "unloaded" /\ name \in entries /\ name \notin procuse
    /\ ~BeingRemoved(name)
    /\ procuse' = procuse \cup {name}
    /\ UNCHANGED <<dirVars, state, at, minor, myps, region, devVars, buffers, opens,
                   mypsuse, procvalue>>

ProcEnd(name) ==
    /\ name \in procuse /\ procuse' = procuse \ {name}
    /\ UNCHANGED <<dirVars, state, at, minor, myps, region, devVars, buffers, opens,
                   mypsuse, procvalue>>

(* Reads of and writes to /proc/myps.  A read may crash inside, or go on    *)
(* for ever over a list that changed under it (CDDMyPs): it never leaves.   *)
MypsBegin ==
    /\ myps /\ mypsuse = "none" /\ mypsuse' = "some"
    /\ UNCHANGED <<dirVars, state, at, minor, myps, region, devVars, buffers, opens,
                   procuse, procvalue>>

MypsEnd ==
    /\ mypsuse = "some" /\ mypsuse' \in {"none", "stuck"}
    /\ UNCHANGED <<dirVars, state, at, minor, myps, region, devVars, buffers, opens,
                   procuse, procvalue>>

-----------------------------------------------------------------------------
CDD_init == \/ InitRegion \/ InitSem \/ InitCache \/ InitCdev \/ InitProc
            \/ InitEntry \/ InitDecommission \/ InitSeqExit
CDD_exit == \/ ExitSeqExit \/ ExitProc \/ ExitMarker \/ ExitEntry \/ ExitCdev
            \/ ExitStorage \/ ExitEnd

Users == \/ \E m \in Minors : Open(m) \/ Close(m)
         \/ \E name \in Minors \cup {Marker} : ProcBegin(name) \/ ProcEnd(name)
         \/ MypsBegin \/ MypsEnd

Next == CDD_init \/ CDD_exit \/ ExitBegin \/ Users

Spec == Init /\ [][Next]_vars

(* The loading and unloading tasks run, and calls on /proc files return, or *)
(* are stuck.                                                               *)
Fairness == /\ WF_vars(CDD_init) /\ WF_vars(CDD_exit) /\ WF_vars(MypsEnd)
            /\ \A name \in Minors \cup {Marker} : WF_vars(ProcEnd(name))

FairSpec == Spec /\ Fairness

-----------------------------------------------------------------------------
(* The type invariant; no buffer is freed that does not exist.              *)
TypeOK ==
    /\ state \in {"coming", "live", "going", "unloaded"}
    /\ at \in {"region", "sem", "cache", "cdev", "procvalue", "procentry", "decommission",
               "idle", "seq_exit", "marker", "storage", "end"}
    /\ minor \in Minors
    /\ myps \in BOOLEAN /\ region \in BOOLEAN /\ topdir \in BOOLEAN
    /\ devno \subseteq Minors /\ added \subseteq devno /\ CDD_sem \subseteq Minors
    /\ caches \subseteq Minors /\ CDD_storage \subseteq devno
    /\ alloc_type \in [Minors -> {AllocTypes[i] : i \in 1 .. 5}]
    /\ buffers \in [Minors -> 0 .. MaxOpens] /\ opens \in [Minors -> 0 .. MaxOpens]
    /\ procvalue \subseteq Minors /\ procuse \subseteq Minors \cup {Marker}
    /\ mypsuse \in {"none", "some", "stuck"}
    /\ topdir_refcount \in Nat
    /\ entries \subseteq Minors \cup {Marker} /\ proc_entry \subseteq Minors \cup {Marker}

Busy(m) == m \in added \/ m \in entries \/ m \in procuse \/ opens[m] > 0

(* CDD_open and readproc_CDD2 take CDD_sem, and allocate_storage the slab   *)
(* cache, without testing the pointer: as long as a device can be opened,   *)
(* is open, or has a /proc entry that can be or is being read, both exist   *)
(* and its number is registered, at every point of a load that succeeds or  *)
(* fails and of an unload.  And nobody is left in the handlers of /proc/myps *)
(* when their code is unloaded.                                             *)
UsersAreServed ==
    /\ \A m \in Minors : Busy(m) => m \in CDD_sem /\ m \in caches /\ region
    /\ mypsuse # "none" => state # "unloaded"

(* The reference count of proc_ops.c is the number of entries, and the      *)
(* directory exists as long as it has one: neither is it removed over an    *)
(* entry nor kept when empty, as long as the proc_ calls do not fail.       *)
ProcCalls == {"proc_mkdir", "proc_create"}

DirectoryCounted ==
    MayFail \cap ProcCalls = {} =>
        /\ topdir_refcount = Cardinality(entries)
        /\ topdir <=> entries # {}

(* Whatever fails on the way, remove_CDD_procdir_entry never removes the    *)
(* directory while an entry is left in it: its count is never too low.      *)
DirectoryRemovedEmpty == [][topdir /\ ~topdir' => entries' = {}]_vars

(* CDD_exit ends at "end"; a load that fails ends at "seq_exit".            *)
Unloaded(last) == state = "unloaded" /\ at = last

(* What the kernel knows of the driver, and the memory it frees by name.    *)
Unregistered == ~region /\ ~myps /\ ~topdir /\ entries = {} /\ added = {}

Freed == CDD_sem = {} /\ procvalue = {} /\ CDD_storage = {}

(* After an unload in which no proc_ call failed, numbers, devices, /proc   *)
(* entries, the directory and the marker are taken back and the locks are   *)
(* freed.  The slab caches are not, but that of the last minor: main.c:153  *)
(* makes one for each, main.c:261 takes the last for that of all devices.   *)
UnloadLeavesCaches ==
    Unloaded("end") /\ MayFail \cap ProcCalls = {} =>
        Unregistered /\ Freed /\ caches = Minors \ {LastMinor}

(* A load that fails before any device was added takes the same back.  What *)
(* it may leave is the cache of minor 0: main.c:206 destroys the last one's.*)
FailedLoadLeavesCache ==
    Unloaded("seq_exit") /\ added = {} =>
        Unregistered /\ Freed /\ caches \subseteq {0} \ {LastMinor}

(* A load or an unload that has begun ends, however many readers keep       *)
(* coming to the entries that are still there: it waits for those of one    *)
(* entry at a time.  One thing stops it, a reader of /proc/myps that never  *)
(* leaves, and then nothing else has been taken back by an unload.          *)
Stopped == mypsuse = "stuck" /\ at = "seq_exit"


-----------------------------------------------------------------------------
(* What a comment says; it is violated in a run of its own.                 *)

(* main.c:181, if device was added to kernel, let it keep running: a device *)
(* that runs has the module whose functions it calls.                       *)
KeptDeviceHasModule == state = "unloaded" => added = {} /\ \A m \in Minors : opens[m] = 0
=============================================================================

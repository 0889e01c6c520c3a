-------------------------- MODULE CDDModule_proofs --------------------------
(***************************************************************************)
(* Proofs about CDDModule, for any number of minors the code allows, any   *)
(* set of failing kernel calls and any number of opens.                    *)
(***************************************************************************)
EXTENDS CDDModule, FiniteSetTheorems, TLAPS

-----------------------------------------------------------------------------
(* The inductive invariant. *)

InitPlaces == {"region", "sem", "cache", "cdev", "procvalue", "procentry", "decommission"}
ExitPlaces == {"procvalue", "marker", "procentry", "cdev", "storage", "end"}

(* Where CDD_init and CDD_exit are in each state of the module.             *)
Places ==
    /\ state = "coming" => at \in InitPlaces \cup {"seq_exit"}
    /\ state = "live" => at = "idle"
    /\ state = "going" => at \in ExitPlaces \cup {"seq_exit"}
    /\ state = "unloaded" => at \in {"seq_exit", "end"}

(* Nobody begins with /proc/myps, or is left there, once it is removed.     *)
MypsGone ==
    /\ state \in {"going", "unloaded"} \/ at = "seq_exit" => ~myps
    /\ state = "unloaded" \/ (state = "going" /\ at # "seq_exit") => mypsuse = "none"

(* While the module is not going, whoever is busy is so with an added       *)
(* device, and an added device has all it needs.                            *)
Loading ==
    state \in {"coming", "live"} =>
        /\ \A m \in Minors : Busy(m) => m \in added
        /\ added \subseteq CDD_sem \cap caches
        /\ added # {} => region

(* What CDD_init has at each place.                                         *)
LoadProgress ==
    state = "coming" =>
        /\ at = "region" => ~region
        /\ ~region => at \in {"region", "seq_exit"}
        /\ at \in {"cache", "cdev", "procvalue", "procentry"} => minor \in CDD_sem
        /\ at \in {"cdev", "procvalue", "procentry"} => minor \in caches
        /\ at \in {"procvalue", "procentry"} => minor \in added

(* How far CDD_exit has got: the minors it is through with are not busy.    *)
ExitProgress ==
    state = "going" =>
        /\ \A m \in Minors : opens[m] = 0
        /\ \A m \in Minors : m < minor => ~Busy(m)
        /\ at = "cdev" => minor \notin entries /\ minor \notin procuse
        /\ at = "storage" => ~Busy(minor)
        /\ at = "end" => \A m \in Minors : ~Busy(m)

(* A file that is open is one that allocated; a pointer is to a buffer.     *)
Buffers ==
    \A m \in Minors : /\ opens[m] <= buffers[m]
                      /\ m \in CDD_storage => buffers[m] > 0

(* The pointers are to the entries, but for the one of the removed marker;  *)
(* the count is at least the number of entries.                             *)
Directory ==
    /\ proc_entry \cap Minors = entries \cap Minors
    /\ entries \subseteq proc_entry
    /\ Cardinality(entries) <= topdir_refcount
    /\ Marker \in proc_entry /\ Marker \notin entries =>
           state # "coming" /\ (state = "unloaded" \/ topdir_refcount <= 1)

IInv == /\ TypeOK /\ UsersAreServed /\ Places /\ MypsGone /\ Loading /\ LoadProgress
        /\ ExitProgress /\ Buffers /\ Directory

-----------------------------------------------------------------------------
(* Lemmas. *)

(* The minors are an interval that starts at 0.                             *)
LEMMA MinorFacts ==
    /\ Minors \subseteq Nat /\ 0 \in Minors /\ IsFiniteSet(Minors)
    /\ LastMinor \in Minors
    /\ \A m \in Minors : m <= LastMinor
    /\ \A m \in Minors : m # LastMinor => m + 1 \in Minors
    /\ Marker \notin Minors
<1>1. PICK n \in 0 .. 4 : Minors = 0 .. n
  BY ModuleAssumption DEF ModuleAssumption
<1>2. \E m \in Minors : \A k \in Minors : k <= m
  BY <1>1
<1>3. LastMinor \in Minors /\ \A m \in Minors : m <= LastMinor
  BY <1>2 DEF LastMinor
<1>4. IsFiniteSet(Minors)
  BY <1>1, FS_Interval
<1> QED
  BY <1>1, <1>3, <1>4, ModuleAssumption DEF ModuleAssumption

(* How the number of entries changes with an entry.                         *)
LEMMA EntryCount ==
    ASSUME NEW E, E \subseteq Minors \cup {Marker}, NEW name
    PROVE  /\ Cardinality(E) \in Nat
           /\ Cardinality(E \cup {name}) \in Nat
           /\ Cardinality(E \cup {name}) <= Cardinality(E) + 1
           /\ Cardinality(E \ {name}) \in Nat
           /\ Cardinality(E \ {name}) <= Cardinality(E)
           /\ name \in E => /\ Cardinality(E) >= 1
                            /\ Cardinality(E \ {name}) = Cardinality(E) - 1
<1>1. IsFiniteSet(Minors \cup {Marker})
  BY MinorFacts, FS_AddElement
<1>2. IsFiniteSet(E)
  BY <1>1, FS_Subset
<1>3. Cardinality(E) \in Nat
  BY <1>2, FS_CardinalityType
<1>4. name \in E => Cardinality(E \ {name}) = Cardinality(E) - 1
  BY <1>2, FS_RemoveElement
<1>9. name \in E => Cardinality(E) # 0
  BY <1>2, FS_EmptySet
<1>5. name \notin E => Cardinality(E \ {name}) = Cardinality(E)
  <2>1. name \notin E => E \ {name} = E
    OBVIOUS
  <2> QED
    BY <2>1
<1>6. IsFiniteSet(E \ {name}) /\ Cardinality(E \ {name}) \in Nat
  BY <1>2, FS_RemoveElement, FS_CardinalityType
<1>7. IsFiniteSet(E \cup {name}) /\ Cardinality(E \cup {name}) \in Nat
  BY <1>2, FS_AddElement, FS_CardinalityType
<1>8. Cardinality(E \cup {name}) <= Cardinality(E) + 1
  <2>1. \/ Cardinality(E \cup {name}) = Cardinality(E)
        \/ Cardinality(E \cup {name}) = Cardinality(E) + 1
    BY <1>2, FS_AddElement, Zenon
  <2> QED
    BY <1>3, <2>1
<1> QED
  BY <1>3, <1>4, <1>5, <1>6, <1>7, <1>8, <1>9

(* The directory's part of the type invariant.                              *)
DirType == /\ topdir_refcount \in Nat
           /\ entries \subseteq Minors \cup {Marker}
           /\ proc_entry \subseteq Minors \cup {Marker}

(* What an entry made by create_CDD_procdir_entry leaves true.              *)
LEMMA CreateKeeps ==
    ASSUME DirType, NEW name \in Minors \cup {Marker}, create_CDD_procdir_entry(name)
    PROVE  /\ DirType'
           /\ \/ entries' = entries /\ proc_entry' = proc_entry
              \/ entries' = entries \cup {name} /\ proc_entry' = proc_entry \cup {name}
           /\ Cardinality(entries) <= topdir_refcount =>
                  Cardinality(entries') <= topdir_refcount'
<1>1. /\ Cardinality(entries) \in Nat
      /\ Cardinality(entries \cup {name}) \in Nat
      /\ Cardinality(entries \cup {name}) <= Cardinality(entries) + 1
  BY EntryCount DEF DirType
<1>2. entries' = entries \/ entries' = entries \cup {name}
  BY DEF create_CDD_procdir_entry
<1>3. Cardinality(entries) <= topdir_refcount => Cardinality(entries') <= topdir_refcount'
  BY <1>1, <1>2 DEF DirType, create_CDD_procdir_entry
<1> QED
  BY <1>3 DEF DirType, create_CDD_procdir_entry

(* What the removal of an entry that exists leaves true: the count stays a  *)
(* natural number, and a directory that goes is empty.                      *)
LEMMA RemoveKeeps ==
    ASSUME DirType, Cardinality(entries) <= topdir_refcount,
           NEW name \in entries, remove_CDD_procdir_entry(name)
    PROVE  /\ topdir_refcount' \in Nat /\ topdir' \in BOOLEAN
           /\ entries' = entries \ {name}
           /\ Cardinality(entries') <= topdir_refcount'
           /\ topdir /\ ~topdir' => entries' = {}
<1>1. /\ Cardinality(entries) \in Nat /\ Cardinality(entries) >= 1
      /\ Cardinality(entries \ {name}) = Cardinality(entries) - 1
  BY EntryCount DEF DirType
<1>2. entries' = entries \ {name}
  BY DEF remove_CDD_procdir_entry
<1>3. topdir_refcount' \in Nat /\ Cardinality(entries') <= topdir_refcount'
  BY <1>1, <1>2 DEF DirType, remove_CDD_procdir_entry
<1>4. ASSUME topdir, ~topdir'
      PROVE  entries' = {}
  <2>1. topdir_refcount = 1
    BY <1>4 DEF remove_CDD_procdir_entry
  <2>2. Cardinality(entries') = 0
    BY <1>1, <1>2, <2>1
  <2>3. IsFiniteSet(entries')
    BY <1>2, MinorFacts, FS_AddElement, FS_Subset DEF DirType
  <2> QED
    BY <2>2, <2>3, FS_EmptySet
<1>5. topdir' \in BOOLEAN
  BY DEF remove_CDD_procdir_entry
<1> QED
  BY <1>2, <1>3, <1>4, <1>5

-----------------------------------------------------------------------------
(* The invariant is inductive. *)

LEMMA InitHolds == Init => IInv
<1> SUFFICES ASSUME Init PROVE IInv
  OBVIOUS
<1> USE MinorFacts DEF Init, DirInit
<1>1. TypeOK
  <2>1. "ALLOC_VMALLOC" \in {AllocTypes[i] : i \in 1 .. 5}
    BY AllocTypes[1] = "ALLOC_VMALLOC" DEF AllocTypes
  <2>2. 0 .. MaxOpens \subseteq Nat /\ 0 \in 0 .. MaxOpens
    BY ModuleAssumption DEF ModuleAssumption
  <2> QED
    BY <2>1, <2>2 DEF TypeOK
<1>2. /\ UsersAreServed /\ Places /\ MypsGone /\ Loading /\ LoadProgress
      /\ ExitProgress /\ Buffers
  BY DEF UsersAreServed, Busy, Places, MypsGone, InitPlaces, Loading, LoadProgress, ExitProgress,
         Buffers
<1>3. Directory
  BY FS_EmptySet DEF Directory
<1> QED
  BY <1>1, <1>2, <1>3 DEF IInv

(* Every step of CDD_init and CDD_exit, and of the users of the devices,    *)
(* keeps the invariant.                                                     *)
LEMMA StepKeeps == IInv /\ [Next]_vars => IInv'
<1> SUFFICES ASSUME IInv, [Next]_vars PROVE IInv'
  OBVIOUS
<1> USE MinorFacts
<1> DirType
  BY DEF IInv, TypeOK, DirType
<1> DEFINE Parts == /\ TypeOK /\ UsersAreServed /\ Places /\ MypsGone /\ Loading
                    /\ LoadProgress /\ ExitProgress /\ Buffers
<1> Parts /\ Directory
  BY DEF IInv
<1> SUFFICES Parts' /\ Directory'
  BY DEF IInv
<1>a. "ALLOC_VMALLOC" \in {AllocTypes[k] : k \in 1 .. 5}
  BY AllocTypes[1] = "ALLOC_VMALLOC" DEF AllocTypes
<1>b. MaxOpens \in Nat
  BY ModuleAssumption DEF ModuleAssumption
<1> USE DEF TypeOK, UsersAreServed, Busy, Places, MypsGone, InitPlaces, ExitPlaces,
    Loading, LoadProgress, ExitProgress, Buffers, Directory, DirType, InitAt, ExitAt, devVars, useVars,
    dirVars
<1>1. CASE InitRegion
  BY <1>1, <1>a, <1>b DEF InitRegion
<1>2. CASE InitSem
  BY <1>2, <1>a, <1>b DEF InitSem
<1>3. CASE InitCache
  BY <1>3, <1>a, <1>b DEF InitCache
<1>4. CASE InitCdev
  BY <1>4, <1>a, <1>b DEF InitCdev
<1>5. CASE InitProc
  <2> USE DEF InitProc
  <2>1. CASE topdir_entry_count = 0
    <3>1. create_CDD_procdir_entry(Marker)
      BY <1>5, <2>1
    <3>2. /\ DirType' /\ topdir' \in BOOLEAN
          /\ \/ entries' = entries /\ proc_entry' = proc_entry
             \/ entries' = entries \cup {Marker} /\ proc_entry' = proc_entry \cup {Marker}
          /\ Cardinality(entries') <= topdir_refcount'
      BY <3>1, CreateKeeps DEF create_CDD_procdir_entry
    <3>3. entries' \cap Minors = entries \cap Minors
      BY <3>2
    <3>4. Parts'
      BY <1>5, <3>2, <3>3
    <3>5. Directory'
      BY <1>5, <3>2, <3>3
    <3> QED
      BY <3>4, <3>5
  <2>2. CASE topdir_entry_count # 0
    BY <1>5, <2>2
  <2> QED
    BY <2>1, <2>2
<1>6. CASE InitEntry
  <2> USE DEF InitEntry
  <2>1. create_CDD_procdir_entry(minor)
    BY <1>6
  <2>2. /\ DirType' /\ topdir' \in BOOLEAN
        /\ \/ entries' = entries /\ proc_entry' = proc_entry
           \/ entries' = entries \cup {minor} /\ proc_entry' = proc_entry \cup {minor}
        /\ Cardinality(entries') <= topdir_refcount'
    BY <2>1, CreateKeeps DEF create_CDD_procdir_entry
  <2>3. Parts'
    BY <1>6, <2>2
  <2>4. Directory'
    BY <1>6, <2>2
  <2> QED
    BY <2>3, <2>4
<1>7. CASE InitDecommission
  BY <1>7, <1>a, <1>b DEF InitDecommission, Decommission
<1>8. CASE ExitBegin
  <2>1. TypeOK'
    BY <1>8 DEF ExitBegin
  <2>2. ExitProgress' /\ Buffers' /\ UsersAreServed'
    BY <1>8 DEF ExitBegin
  <2>3. Places' /\ MypsGone' /\ Loading' /\ LoadProgress' /\ Directory'
    BY <1>8 DEF ExitBegin
  <2> QED
    BY <2>1, <2>2, <2>3
<1>9. CASE ExitProc
  BY <1>9, <1>a, <1>b DEF ExitProc
<1>10. CASE ExitMarker
  <2> USE DEF ExitMarker
  <2>1. CASE topdir_entry_count = 1 /\ Marker \in proc_entry
    <3>1. topdir_refcount = 2 /\ Marker \in entries
      BY <1>10, <2>1 DEF topdir_entry_count
    <3>2. remove_CDD_procdir_entry(Marker) /\ UNCHANGED proc_entry
      BY <1>10, <2>1 DEF RemoveMarker
    <3>3. topdir_refcount' = 1
      BY <3>1, <3>2 DEF remove_CDD_procdir_entry
    <3>4. /\ topdir_refcount' \in Nat /\ topdir' \in BOOLEAN
          /\ entries' = entries \ {Marker}
          /\ Cardinality(entries') <= topdir_refcount'
      BY <3>1, <3>2, RemoveKeeps
    <3>5. entries' \cap Minors = entries \cap Minors
      BY <3>4
    <3>6. Parts'
      BY <1>10, <3>2, <3>4, <3>5
    <3>7. Directory'
      <4>1. Marker \in proc_entry' /\ Marker \notin entries' => topdir_refcount' <= 1
        BY <3>3
      <4>2. entries' \subseteq proc_entry' /\ state' = state
        BY <1>10, <3>2, <3>4
      <4> QED
        BY <1>10, <3>2, <3>4, <3>5, <4>1, <4>2
    <3> QED
      BY <3>6, <3>7
  <2>2. CASE UNCHANGED dirVars
    BY <1>10, <2>2
  <2> QED
    BY <1>10, <2>1, <2>2 DEF RemoveMarker
<1>11. CASE ExitEntry
  <2> USE DEF ExitEntry, RemoveEntryWhen
  <2>1. CASE minor \in proc_entry
    <3>1. /\ remove_CDD_procdir_entry(minor)
          /\ proc_entry' = proc_entry \ {minor} /\ minor \in entries
      BY <1>11, <2>1 DEF RemoveDevice
    <3>2. topdir_refcount' <= topdir_refcount
      BY <3>1 DEF remove_CDD_procdir_entry
    <3>3. /\ topdir_refcount' \in Nat /\ topdir' \in BOOLEAN
          /\ entries' = entries \ {minor}
          /\ Cardinality(entries') <= topdir_refcount'
      BY <3>1, RemoveKeeps
    <3>4. Parts'
      BY <1>11, <3>1, <3>3
    <3>5. Directory'
      BY <1>11, <3>1, <3>2, <3>3
    <3> QED
      BY <3>4, <3>5
  <2>2. CASE minor \notin proc_entry
    BY <1>11, <2>2 DEF RemoveDevice
  <2> QED
    BY <2>1, <2>2
<1>12. CASE ExitCdev
  BY <1>12, <1>a, <1>b DEF ExitCdev
<1>13. CASE ExitStorage
  BY <1>13, <1>a, <1>b DEF ExitStorage, free_storage
<1>14. CASE ExitEnd
  BY <1>14, <1>a, <1>b DEF ExitEnd
<1>15. ASSUME NEW m \in Minors, Open(m)
     PROVE  Parts' /\ Directory'
  BY <1>15, <1>b DEF Open
<1>16. ASSUME NEW m \in Minors, Close(m)
     PROVE  Parts' /\ Directory'
  BY <1>16, <1>b DEF Close
<1>17. ASSUME NEW name \in Minors \cup {Marker}, ProcBegin(name)
     PROVE  Parts' /\ Directory'
  BY <1>17, <1>b DEF ProcBegin, BeingRemoved
<1>18. ASSUME NEW name \in Minors \cup {Marker}, ProcEnd(name)
     PROVE  Parts' /\ Directory'
  BY <1>18, <1>b DEF ProcEnd
<1>19. CASE MypsBegin \/ MypsEnd
  <2>1. /\ UNCHANGED <<dirVars, state, at, minor, myps, region, devVars, buffers, opens,
                       procuse, procvalue>>
        /\ mypsuse' \in {"none", "some", "stuck"}
        /\ myps \/ mypsuse # "none"
    BY <1>19 DEF MypsBegin, MypsEnd
  <2>2. TypeOK' /\ Directory' /\ Buffers'
    BY <2>1
  <2>3. UsersAreServed' /\ MypsGone' /\ Places'
    BY <2>1
  <2>4. Loading' /\ LoadProgress' /\ ExitProgress'
    BY <2>1
  <2> QED
    BY <2>2, <2>3, <2>4
<1>20. CASE InitSeqExit
  BY <1>20, <1>a, <1>b DEF InitSeqExit
<1>21. CASE ExitSeqExit
  BY <1>21, <1>a, <1>b DEF ExitSeqExit
<1>22. CASE UNCHANGED vars
  BY <1>22 DEF vars
<1> QED
  BY <1>1, <1>2, <1>3, <1>4, <1>5, <1>6, <1>7, <1>8, <1>9, <1>10, <1>11, <1>12,
       <1>13, <1>14, <1>15, <1>16, <1>17, <1>18, <1>19, <1>20, <1>21, <1>22
  DEF Next, CDD_init, CDD_exit, Users
-----------------------------------------------------------------------------
(* The invariant holds in every state that the driver reaches.              *)
THEOREM Invariance == Spec => []IInv
<1> QED
  BY InitHolds, StepKeeps, PTL DEF Spec

(* Every variable keeps its type: the count of the directory is never       *)
(* negative, and free_storage frees no buffer that does not exist.          *)
THEOREM TypeCorrect == Spec => []TypeOK
<1>1. IInv => TypeOK
  BY DEF IInv
<1> QED
  BY <1>1, Invariance, PTL

(* CDD_open and the /proc handlers find the semaphore and the slab cache    *)
(* they use, for any number of minors and whichever calls of CDD_init fail. *)
THEOREM ResourcesOutliveUsers == Spec => []UsersAreServed
<1>1. IInv => UsersAreServed
  BY DEF IInv
<1> QED
  BY <1>1, Invariance, PTL

(* Only ExitMarker and ExitEntry make the directory go.                     *)
LEMMA DirectoryStep ==
    ASSUME IInv, [Next]_vars, topdir, ~topdir'
    PROVE  entries' = {}
<1> USE DEF dirVars
<1>1. DirType /\ Cardinality(entries) <= topdir_refcount
  BY DEF IInv, TypeOK, DirType, Directory
<1>2. \/ ExitMarker \/ ExitEntry
      \/ create_CDD_procdir_entry(Marker) \/ create_CDD_procdir_entry(minor)
      \/ UNCHANGED dirVars
  BY DEF Next, Users, CDD_init, CDD_exit, InitRegion, InitSem, InitCache, InitCdev,
       InitProc,
         InitEntry, InitDecommission, Decommission, ExitBegin, InitSeqExit, ExitSeqExit, ExitProc, ExitCdev,
         ExitStorage, ExitEnd, Open, Close, ProcBegin, ProcEnd, MypsBegin, MypsEnd, vars
<1>3. ASSUME NEW name, create_CDD_procdir_entry(name)
      PROVE  FALSE
  BY <1>3 DEF create_CDD_procdir_entry
<1>4. CASE ExitMarker
  <2>1. topdir_entry_count = 1 /\ remove_CDD_procdir_entry(Marker)
    BY <1>4 DEF ExitMarker, RemoveMarker
  <2>2. topdir_refcount # 1
    BY <1>1, <2>1 DEF topdir_entry_count, DirType
  <2> QED
    BY <2>1, <2>2 DEF remove_CDD_procdir_entry
<1>5. CASE ExitEntry
  <2>1. minor \in Minors /\ proc_entry \cap Minors = entries \cap Minors
    BY DEF IInv, TypeOK, Directory
  <2>2. minor \in entries /\ remove_CDD_procdir_entry(minor)
    BY <1>5, <2>1 DEF ExitEntry, RemoveEntryWhen, RemoveDevice
  <2> QED
    BY <1>1, <2>2, RemoveKeeps
<1> QED
  BY <1>2, <1>3, <1>4, <1>5

(* Whatever fails, /proc/CDD is removed only with the last of its entries.  *)
THEOREM DirectoryGoesLast == Spec => DirectoryRemovedEmpty
<1>1. IInv /\ [Next]_vars => [topdir /\ ~topdir' => entries' = {}]_vars
  BY DirectoryStep
<1> QED
  BY <1>1, Invariance, PTL DEF Spec, DirectoryRemovedEmpty

-----------------------------------------------------------------------------
(* What is in the directory, and what is left behind. *)

Good == MayFail \cap ProcCalls = {}

From(n)  == {m \in Minors : m >= n}
Below(n) == {m \in Minors : m < n}

WithMarker(S) == IF S = {} THEN {} ELSE S \cup {Marker}

(* Which entries there are at each place, when no call of /proc fails.      *)
Listing ==
    /\ state = "live" => entries = WithMarker(Minors)
    /\ state = "coming" /\ at = "procentry" => entries = Below(minor) \cup {Marker}
    /\ state \in {"coming", "unloaded"} /\ at \notin {"procentry", "end"} =>
           entries = WithMarker(Below(minor))
    /\ state = "going" /\ at \in {"seq_exit", "procvalue", "marker"} =>
           entries = WithMarker(From(minor))
    /\ state = "going" /\ at = "procentry" =>
           entries = From(minor) \cup WithMarker(From(minor + 1))
    /\ state = "going" /\ at \in {"cdev", "storage"} => entries = WithMarker(From(minor + 1))
    /\ at = "end" => entries = {}

CountIsExact ==
    /\ topdir_refcount = Cardinality(entries)
    /\ topdir <=> entries # {}

Counted == Good => CountIsExact /\ Listing

(* A load that has added nothing is still at minor 0 and has made no entry; *)
(* when it is over, at most the slab cache of minor 0 is left.              *)
Unused ==
    /\ state = "coming" => devno = added
    /\ state = "coming" /\ added = {} => /\ ~topdir /\ entries = {} /\ procvalue = {}
                                         /\ minor = 0 /\ caches \subseteq {0}
    /\ state = "coming" /\ at = "region" => CDD_sem = {} /\ caches = {}
    /\ state = "coming" /\ at = "seq_exit" /\ added = {} =>
           ~region /\ CDD_sem = {} /\ LastMinor \notin caches

(* Every minor gets a slab cache, and an unload begins with all of them.    *)
CachesMade ==
    /\ state = "coming" => Below(minor) \subseteq caches
    /\ state \in {"live", "going"} => caches = Minors

Taken(m) == m \in added \cup CDD_sem \cup CDD_storage \cup procvalue

(* What CDD_exit has taken back of the minors it is through with.           *)
TakenBack ==
    /\ state = "going" =>
          /\ \A m \in Minors : m < minor \/ at = "end" => ~Taken(m)
          /\ at \notin {"seq_exit", "procvalue"} => minor \notin procvalue
          /\ at = "storage" => minor \notin added
    /\ Unloaded("end") =>
          ~region /\ caches = Minors \ {LastMinor} /\ \A m \in Minors : ~Taken(m)

JInv == Counted /\ Unused /\ CachesMade /\ TakenBack /\ FailedLoadLeavesCache

(* The count is 0 exactly without entries, and is at least 2 when there are *)
(* two of them.                                                             *)
LEMMA CountOfEntries ==
    ASSUME DirType
    PROVE  /\ Cardinality(entries) \in Nat
           /\ Cardinality(entries) = 0 <=> entries = {}
           /\ \A a, b \in entries : a # b => Cardinality(entries) >= 2
           /\ \A a, b, c \in entries : a # b /\ a # c /\ b # c => Cardinality(entries) >= 3
           /\ \A a, b : a # b /\ entries = {a, b} => Cardinality(entries) = 2
<1>1. IsFiniteSet(entries)
  BY MinorFacts, FS_AddElement, FS_Subset DEF DirType
<1>2. Cardinality(entries) \in Nat /\ (Cardinality(entries) = 0 <=> entries = {})
  BY <1>1, FS_CardinalityType, FS_EmptySet
<1>3. ASSUME NEW a \in entries
      PROVE  /\ IsFiniteSet(entries \ {a}) /\ Cardinality(entries \ {a}) \in Nat
             /\ Cardinality(entries) = Cardinality(entries \ {a}) + 1
  <2>1. /\ IsFiniteSet(entries \ {a})
        /\ Cardinality(entries \ {a}) = Cardinality(entries) - 1
    BY <1>1, FS_RemoveElement
  <2> QED
    BY <2>1, <1>2, FS_CardinalityType
<1>4. ASSUME NEW a \in entries, NEW b \in entries, a # b
      PROVE  /\ IsFiniteSet((entries \ {a}) \ {b})
             /\ Cardinality((entries \ {a}) \ {b}) \in Nat
             /\ Cardinality(entries) = Cardinality((entries \ {a}) \ {b}) + 2
  <2>1. b \in entries \ {a} /\ IsFiniteSet(entries \ {a})
    BY <1>3, <1>4
  <2>2. /\ IsFiniteSet((entries \ {a}) \ {b})
        /\ Cardinality((entries \ {a}) \ {b}) = Cardinality(entries \ {a}) - 1
    BY <2>1, FS_RemoveElement
  <2>3. Cardinality((entries \ {a}) \ {b}) \in Nat
    BY <2>2, FS_CardinalityType
  <2> QED
    BY <2>2, <2>3, <1>3
<1>5. ASSUME NEW a \in entries, NEW b \in entries, NEW c \in entries, a # b, a # c, b # c
      PROVE  Cardinality(entries) >= 3
  <2>1. c \in (entries \ {a}) \ {b}
    BY <1>5
  <2>2. Cardinality((entries \ {a}) \ {b}) # 0
    BY <2>1, <1>4, <1>5, FS_EmptySet
  <2> QED
    BY <2>2, <1>4, <1>5
<1>6. ASSUME NEW a, NEW b, a # b, entries = {a, b}
      PROVE  Cardinality(entries) = 2
  <2>1. a \in entries /\ b \in entries /\ (entries \ {a}) \ {b} = {}
    BY <1>6
  <2>2. Cardinality((entries \ {a}) \ {b}) = 0
    BY <2>1, FS_EmptySet
  <2> QED
    BY <2>1, <2>2, <1>4, <1>6
<1>7. ASSUME NEW a \in entries, NEW b \in entries, a # b
      PROVE  Cardinality(entries) >= 2
  <2>1. PICK k \in Nat : Cardinality(entries) = k + 2
    BY <1>4, <1>7
  <2> QED
    BY <2>1
<1> QED
  BY <1>2, <1>5, <1>6, <1>7

(* A new entry is counted.                                                  *)
LEMMA CreateCounts ==
    ASSUME DirType, Good, CountIsExact, NEW name, name \notin entries,
           create_CDD_procdir_entry(name)
    PROVE  CountIsExact' /\ Good' /\ entries' = entries \cup {name}
<1>1. IsFiniteSet(entries)
  BY MinorFacts, FS_AddElement, FS_Subset DEF DirType
<1>2. Cardinality(entries \cup {name}) = Cardinality(entries) + 1
  BY <1>1, FS_AddElement
<1>3. entries' = entries \cup {name} /\ topdir_refcount' = topdir_refcount + 1
  BY DEF create_CDD_procdir_entry, Good, ProcCalls
<1>4. topdir' /\ Good'
  BY CountOfEntries DEF create_CDD_procdir_entry, Good, ProcCalls, CountIsExact
<1> QED
  BY <1>2, <1>3, <1>4 DEF CountIsExact

(* An entry that goes is no longer counted.                                 *)
LEMMA RemoveCounts ==
    ASSUME DirType, Good, CountIsExact, NEW name \in entries,
           remove_CDD_procdir_entry(name)
    PROVE  CountIsExact' /\ Good' /\ entries' = entries \ {name}
<1>1. IsFiniteSet(entries)
  BY MinorFacts, FS_AddElement, FS_Subset DEF DirType
<1>2. /\ IsFiniteSet(entries \ {name})
      /\ Cardinality(entries \ {name}) = Cardinality(entries) - 1
  BY <1>1, FS_RemoveElement
<1>3. Cardinality(entries \ {name}) = 0 <=> entries \ {name} = {}
  BY <1>2, FS_EmptySet
<1>4. Cardinality(entries) \in Nat /\ topdir
  BY CountOfEntries DEF CountIsExact
<1>5. /\ entries' = entries \ {name} /\ topdir_refcount' = topdir_refcount - 1
      /\ topdir' <=> topdir_refcount # 1
  BY <1>4, Zenon DEF remove_CDD_procdir_entry
<1>6. topdir_refcount = Cardinality(entries)
  BY DEF CountIsExact
<1>7. topdir_refcount # 1 <=> entries \ {name} # {}
  BY <1>2, <1>3, <1>4, <1>6
<1>8. Good'
  BY DEF remove_CDD_procdir_entry, Good
<1>9. topdir_refcount' = Cardinality(entries')
  BY <1>2, <1>5, <1>6
<1> QED
  BY <1>5, <1>7, <1>8, <1>9, Zenon DEF CountIsExact

(* The minors after, and before, the next one.                              *)
LEMMA Neighbours ==
    ASSUME NEW n \in Minors
    PROVE  /\ Below(n) \cup {n} = Below(n + 1) /\ n \notin Below(n)
           /\ From(n) = From(n + 1) \cup {n} /\ n \notin From(n + 1)
           /\ Below(0) = {} /\ From(0) = Minors /\ Below(LastMinor + 1) = Minors
           /\ n > 0 => 0 \in Below(n)
           /\ From(n + 1) = {} <=> n = LastMinor
           /\ n # LastMinor => n + 1 \in From(n + 1)
<1>1. n \in Nat /\ \A m \in Minors : m \in Nat /\ m <= LastMinor
  BY MinorFacts
<1>2. \A m \in Minors : /\ m < n + 1 <=> m < n \/ m = n
                        /\ m >= n <=> m >= n + 1 \/ m = n
  BY <1>1
<1>3. LastMinor \in Minors /\ (n # LastMinor => n + 1 \in Minors)
  BY MinorFacts
<1>4. From(n + 1) = {} <=> n = LastMinor
  <2>1. n = LastMinor => \A m \in Minors : ~(m >= n + 1)
    BY <1>1
  <2>2. n # LastMinor => n + 1 \in From(n + 1)
    BY <1>1, <1>3 DEF From
  <2> QED
    BY <2>1, <2>2 DEF From
<1>5. n # LastMinor => n + 1 \in From(n + 1)
  BY <1>1, <1>3 DEF From
<1>6. Below(n) \cup {n} = Below(n + 1) /\ n \notin Below(n)
  <2>1. \A m \in Minors : m < n + 1 <=> m < n \/ m = n
    BY <1>2
  <2>2. ~(n < n)
    BY <1>1
  <2> QED
    BY <2>1, <2>2, Zenon DEF Below
<1>7. From(n) = From(n + 1) \cup {n} /\ n \notin From(n + 1)
  <2>1. \A m \in Minors : m >= n <=> m >= n + 1 \/ m = n
    BY <1>2
  <2>2. ~(n >= n + 1)
    BY <1>1
  <2> QED
    BY <2>1, <2>2, Zenon DEF From
<1>8. \A m \in Minors : ~(m < 0) /\ m >= 0 /\ m < LastMinor + 1
  BY <1>1, <1>3
<1>9. Below(0) = {} /\ From(0) = Minors /\ Below(LastMinor + 1) = Minors
  BY <1>8 DEF From, Below
<1>10. n > 0 => 0 \in Below(n)
  BY MinorFacts DEF Below
<1> QED
  BY <1>4, <1>5, <1>6, <1>7, <1>9, <1>10

(* Without failures of /proc, each step keeps the list of entries.          *)
LEMMA CountedKeeps ==
    ASSUME IInv, Counted, [Next]_vars, MayFail' = MayFail, Good
    PROVE  CountIsExact' /\ Listing'
<1> DirType /\ minor \in Minors /\ Places /\ CountIsExact /\ Listing
  BY DEF IInv, TypeOK, DirType, Counted
<1> USE DEF InitAt, ExitAt, Places, InitPlaces, ExitPlaces, dirVars, devVars, useVars
<1>1. ASSUME UNCHANGED dirVars PROVE CountIsExact'
  BY <1>1 DEF CountIsExact
<1>2. CASE InitRegion
  BY <1>1, <1>2 DEF InitRegion, Listing
<1>3. CASE InitSem
  BY <1>1, <1>3 DEF InitSem, Listing
<1>4. CASE InitCache
  BY <1>1, <1>4 DEF InitCache, Listing
<1>5. CASE InitCdev
  BY <1>1, <1>5 DEF InitCdev, Listing
<1>6. CASE InitProc
  <2>1. /\ entries = WithMarker(Below(minor))
        /\ state' = "coming" /\ at' = "procentry" /\ minor' = minor
    BY <1>6 DEF InitProc, Listing
  <2>2. CASE minor = 0
    <3>1. entries = {} /\ Below(minor) = {}
      BY <2>1, <2>2, Neighbours DEF WithMarker
    <3>2. topdir_entry_count = 0
      BY <3>1, CountOfEntries DEF CountIsExact, topdir_entry_count
    <3>3. create_CDD_procdir_entry(Marker)
      BY <1>6, <3>2 DEF InitProc
    <3>4. CountIsExact' /\ entries' = {Marker}
      BY <3>1, <3>3, CreateCounts
    <3> QED
      BY <2>1, <3>1, <3>4 DEF Listing
  <2>3. CASE minor # 0
    <3>1. 0 \in Below(minor) /\ Marker # 0
      BY <2>3, Neighbours, MinorFacts
    <3>2. entries = Below(minor) \cup {Marker} /\ 0 \in entries /\ Marker \in entries
      BY <2>1, <3>1 DEF WithMarker
    <3>3. Cardinality(entries) \in Nat /\ Cardinality(entries) >= 2
      BY <3>1, <3>2, CountOfEntries
    <3>4. topdir_entry_count # 0
      BY <3>3 DEF CountIsExact, topdir_entry_count
    <3>5. UNCHANGED dirVars
      BY <1>6, <3>4 DEF InitProc
    <3> QED
      BY <1>1, <2>1, <3>2, <3>5 DEF Listing
  <2> QED
    BY <2>2, <2>3
<1>7. CASE InitEntry
  <2>1. entries = Below(minor) \cup {Marker} /\ minor \notin entries
    BY <1>7, Neighbours, MinorFacts DEF InitEntry, Listing
  <2>2. CountIsExact' /\ entries' = entries \cup {minor}
    BY <1>7, <2>1, CreateCounts DEF InitEntry
  <2>3. entries' = Below(minor + 1) \cup {Marker} /\ Below(minor + 1) # {}
    BY <2>1, <2>2, Neighbours
  <2>4. CASE minor = LastMinor
    <3>1. entries' = WithMarker(Minors)
      BY <2>3, <2>4, Neighbours DEF WithMarker
    <3> QED
      BY <1>7, <2>2, <2>4, <3>1 DEF InitEntry, Listing
  <2>5. CASE minor # LastMinor
    <3>1. entries' = WithMarker(Below(minor + 1))
      BY <2>3 DEF WithMarker
    <3> QED
      BY <1>7, <2>2, <2>5, <3>1 DEF InitEntry, Listing
  <2> QED
    BY <2>4, <2>5
<1>8. CASE InitDecommission
  BY <1>1, <1>8 DEF InitDecommission, Decommission, Listing
<1>9. CASE ExitBegin
  <2>1. entries' = WithMarker(From(0))
    BY <1>9, Neighbours, MinorFacts DEF ExitBegin, Listing
  <2> QED
    BY <1>1, <1>9, <2>1 DEF ExitBegin, Listing
<1>10. CASE ExitProc
  BY <1>1, <1>10 DEF ExitProc, Listing
<1>11. CASE ExitMarker
  <2>1. /\ entries = WithMarker(From(minor)) /\ minor \in From(minor)
        /\ state' = "going" /\ at' = "procentry" /\ minor' = minor
    BY <1>11, Neighbours DEF ExitMarker, Listing
  <2>2. /\ entries = From(minor) \cup {Marker} /\ Marker # minor
        /\ From(minor) = From(minor + 1) \cup {minor}
        /\ Marker \notin From(minor)
    <3>1. Marker \notin From(minor)
      BY MinorFacts DEF From
    <3> QED
      BY <2>1, <3>1, Neighbours DEF WithMarker
  <2>3. CASE minor = LastMinor
    <3>1. entries = {Marker, minor} /\ From(minor) = {minor} /\ From(minor + 1) = {}
      BY <2>2, <2>3, Neighbours
    <3>2. Cardinality(entries) = 2
      BY <2>2, <3>1, CountOfEntries
    <3>3. topdir_entry_count = 1
      BY <3>2 DEF CountIsExact, topdir_entry_count
    <3>4. Marker \in entries /\ remove_CDD_procdir_entry(Marker)
      BY <1>11, <3>1, <3>3 DEF ExitMarker, RemoveMarker, IInv, Directory
    <3>5. CountIsExact' /\ entries' = From(minor) \cup WithMarker(From(minor + 1))
      BY <2>2, <3>1, <3>4, RemoveCounts DEF WithMarker
    <3> QED
      BY <2>1, <3>5 DEF Listing
  <2>4. CASE minor # LastMinor
    <3>1. /\ minor + 1 \in From(minor + 1) /\ minor \notin From(minor + 1)
          /\ minor # minor + 1 /\ Marker # minor + 1
      <4>1. minor + 1 \in From(minor + 1) /\ minor \notin From(minor + 1)
        BY <2>4, Neighbours
      <4> QED
        BY <4>1, <2>2
    <3>2. Marker \in entries /\ minor \in entries /\ minor + 1 \in entries
      BY <2>1, <2>2, <3>1
    <3>3. Cardinality(entries) \in Nat /\ Cardinality(entries) >= 3
      BY <2>2, <3>1, <3>2, CountOfEntries
    <3>4. topdir_entry_count # 1
      BY <3>3 DEF CountIsExact, topdir_entry_count
    <3>5. UNCHANGED dirVars
      BY <1>11, <3>4 DEF ExitMarker
    <3>6. entries' = From(minor) \cup WithMarker(From(minor + 1))
      BY <2>2, <3>1, <3>5 DEF WithMarker
    <3> QED
      BY <1>1, <2>1, <3>5, <3>6 DEF Listing
  <2> QED
    BY <2>3, <2>4
<1>12. CASE ExitEntry
  <2>1. /\ entries = From(minor) \cup WithMarker(From(minor + 1))
        /\ state' = "going" /\ at' = "cdev" /\ minor' = minor /\ RemoveDevice(minor)
    BY <1>12 DEF ExitEntry, RemoveEntryWhen, Listing
  <2>2. minor \in entries /\ minor \in proc_entry
    BY <2>1, Neighbours DEF IInv, Directory
  <2>3. CountIsExact' /\ entries' = entries \ {minor}
    BY <2>1, <2>2, RemoveCounts DEF RemoveDevice
  <2>4. entries' = WithMarker(From(minor + 1))
    BY <2>1, <2>3, Neighbours, MinorFacts DEF WithMarker
  <2> QED
    BY <2>1, <2>3, <2>4 DEF Listing
<1>13. CASE ExitCdev
  BY <1>1, <1>13 DEF ExitCdev, Listing
<1>14. CASE ExitStorage
  <2>1. entries' = WithMarker(From(minor + 1))
    BY <1>14 DEF ExitStorage, Listing
  <2>2. minor = LastMinor => entries' = {}
    BY <2>1, Neighbours DEF WithMarker
  <2> QED
    BY <1>1, <1>14, <2>1, <2>2 DEF ExitStorage, Listing
<1>15. CASE ExitEnd
  BY <1>1, <1>15 DEF ExitEnd, Listing
<1>16. CASE InitSeqExit
  BY <1>1, <1>16 DEF InitSeqExit, Listing
<1>17. CASE ExitSeqExit
  BY <1>1, <1>17 DEF ExitSeqExit, Listing
<1>18. CASE Users \/ UNCHANGED vars
  <2>1. UNCHANGED <<dirVars, state, at, minor>>
    BY <1>18 DEF Users, Open, Close, ProcBegin, ProcEnd, MypsBegin, MypsEnd, vars
  <2> QED
    BY <1>1, <2>1 DEF Listing
<1> QED
  BY <1>2, <1>3, <1>4, <1>5, <1>6, <1>7, <1>8, <1>9, <1>10, <1>11, <1>12, <1>13,
     <1>14, <1>15, <1>16, <1>17, <1>18 DEF Next, CDD_init, CDD_exit

(* Which calls may fail is chosen once.                                     *)
LEMMA FailuresStay == [Next]_vars => MayFail' = MayFail
  BY DEF Next, Users, CDD_init, CDD_exit, InitRegion, InitSem, InitCache, InitCdev,
       InitProc,
         InitEntry, InitDecommission, Decommission, ExitBegin, InitSeqExit, ExitSeqExit, ExitProc, ExitMarker,
         ExitEntry, RemoveEntryWhen, ExitCdev, ExitStorage, ExitEnd, Open, Close, ProcBegin,
         ProcEnd, MypsBegin, MypsEnd,
         vars, dirVars, RemoveMarker, RemoveDevice, create_CDD_procdir_entry,
         remove_CDD_procdir_entry

(* A load adds a device before it makes an entry for it.                    *)
LEMMA UnusedKeeps ==
    ASSUME IInv, Unused, [Next]_vars
    PROVE  Unused'
<1> /\ Places /\ LoadProgress /\ minor \in Minors /\ added \subseteq devno
    /\ devno \subseteq Minors /\ CDD_sem \subseteq Minors
  BY DEF IInv, TypeOK
<1> USE DEF InitAt, ExitAt, Unused, Places, InitPlaces, dirVars, devVars, useVars
<1>1. CASE InitRegion \/ InitSem \/ InitCache \/ InitCdev
  <2>1. CASE InitRegion
    BY <2>1 DEF InitRegion, LoadProgress
  <2>2. CASE InitSem
    BY <2>2 DEF InitSem
  <2>3. CASE InitCache
    BY <2>3 DEF InitCache
  <2>4. CASE InitCdev
    BY <2>4 DEF InitCdev
  <2> QED
    BY <1>1, <2>1, <2>2, <2>3, <2>4
<1>2. CASE InitProc \/ InitEntry
  <2>1. minor \in added /\ UNCHANGED <<devno, added>> /\ state' \in {"coming", "live"}
    BY <1>2 DEF InitProc, InitEntry, LoadProgress
  <2> QED
    BY <1>2, <2>1 DEF InitProc, InitEntry
<1>3. CASE InitDecommission
  BY <1>3 DEF InitDecommission, Decommission
<1>4. CASE InitSeqExit
  BY <1>4 DEF InitSeqExit
<1>5. CASE ExitBegin \/ CDD_exit
  <2>1. state' = "going" \/ ExitEnd
    BY <1>5 DEF ExitBegin, CDD_exit, ExitSeqExit, ExitProc, ExitMarker, ExitEntry,
         RemoveEntryWhen, ExitCdev, ExitStorage
  <2>2. ExitEnd => state' = "unloaded" /\ at' = "end"
    BY DEF ExitEnd
  <2> QED
    BY <2>1, <2>2
<1>6. CASE Users \/ UNCHANGED vars
  BY <1>6 DEF Users, Open, Close, ProcBegin, ProcEnd, MypsBegin, MypsEnd, vars
<1> QED
  BY <1>1, <1>2, <1>3, <1>4, <1>5, <1>6 DEF Next, CDD_init

(* Each round of CDD_init makes a cache; only CDD_exit destroys one then.   *)
LEMMA CachesKeep ==
    ASSUME IInv, Unused, CachesMade, [Next]_vars
    PROVE  CachesMade'
<1> Places /\ LoadProgress /\ minor \in Minors /\ caches \subseteq Minors
  BY DEF IInv, TypeOK
<1> USE DEF InitAt, ExitAt, CachesMade, dirVars, devVars, useVars
<1>1. CASE InitCache
  <2>1. Below(minor)' = Below(minor)
    BY <1>1 DEF InitCache, Below
  <2> QED
    BY <1>1, <2>1 DEF InitCache
<1>2. CASE InitEntry
  <2>1. Below(minor) \cup {minor} \subseteq caches
    BY <1>2 DEF InitEntry, LoadProgress
  <2>2. Below(minor + 1) \subseteq caches /\ (minor = LastMinor => Minors \subseteq caches)
    BY <2>1, Neighbours
  <2> QED
    BY <1>2, <2>2 DEF InitEntry, Below
<1>3. CASE InitDecommission
  <2>1. added = {} => Below(minor) = {}
    BY <1>3, MinorFacts, Neighbours DEF InitDecommission, Decommission, Unused
  <2>2. Below(minor)' = Below(minor)
    BY <1>3 DEF InitDecommission, Decommission, Below
  <2> QED
    BY <1>3, <2>1, <2>2 DEF InitDecommission, Decommission
<1>4. CASE InitRegion \/ InitSem \/ InitCdev \/ InitProc \/ InitSeqExit
  <2>1. UNCHANGED <<minor, caches>> /\ state' \in {"coming", "unloaded"} /\ state = "coming"
    BY <1>4 DEF InitRegion, InitSem, InitCdev, InitProc, InitSeqExit
  <2>2. Below(minor)' = Below(minor)
    BY <2>1 DEF Below
  <2> QED
    BY <2>1, <2>2
<1>5. CASE ExitBegin \/ CDD_exit
  <2>1. /\ state \in {"live", "going"}
        /\ ExitEnd \/ (state' = "going" /\ caches' = caches)
    BY <1>5 DEF ExitBegin, CDD_exit, ExitSeqExit, ExitProc, ExitMarker, ExitEntry,
         RemoveEntryWhen, ExitCdev, ExitStorage, ExitEnd
  <2> QED
    BY <2>1 DEF ExitEnd
<1>6. CASE Users \/ UNCHANGED vars
  <2>1. UNCHANGED <<state, minor, caches>>
    BY <1>6 DEF Users, Open, Close, ProcBegin, ProcEnd, MypsBegin, MypsEnd, vars
  <2>2. Below(minor)' = Below(minor)
    BY <2>1 DEF Below
  <2> QED
    BY <2>1, <2>2
<1> QED
  BY <1>1, <1>2, <1>3, <1>4, <1>5, <1>6 DEF Next, CDD_init

(* CDD_exit goes through the minors and takes all back of each.             *)
LEMMA TakenBackKeeps ==
    ASSUME IInv, CachesMade, TakenBack, [Next]_vars
    PROVE  TakenBack'
<1> /\ Places /\ minor \in Minors
    /\ added \subseteq Minors /\ CDD_sem \subseteq Minors
  BY DEF IInv, TypeOK
<1> USE DEF InitAt, ExitAt, Places, InitPlaces, ExitPlaces, dirVars, devVars, useVars
<1> USE DEF TakenBack, Taken, Unloaded
<1>1. CASE CDD_init
  <2>1. \/ state' \in {"coming", "live"}
        \/ state' = "unloaded" /\ at' = "seq_exit"
    <3>1. CASE InitRegion \/ InitDecommission
      BY <3>1 DEF InitRegion, InitDecommission, Decommission
    <3>2. CASE InitSem \/ InitCache \/ InitCdev \/ InitProc
      BY <3>2 DEF InitSem, InitCache, InitCdev, InitProc
    <3>3. CASE InitEntry \/ InitSeqExit
      BY <3>3 DEF InitEntry, InitSeqExit
    <3> QED
      BY <1>1, <3>1, <3>2, <3>3 DEF CDD_init
  <2> QED
    BY <2>1
<1>2. CASE ExitBegin
  <2>1. \A m \in Minors : ~(m < 0)
    BY MinorFacts
  <2> QED
    BY <1>2, <2>1 DEF ExitBegin
<1>3. CASE ExitSeqExit
  BY <1>3 DEF ExitSeqExit
<1>4. CASE ExitProc
  BY <1>4 DEF ExitProc
<1>5. CASE ExitMarker
  BY <1>5 DEF ExitMarker
<1>6. CASE ExitEntry
  BY <1>6 DEF ExitEntry, RemoveEntryWhen
<1>7. CASE ExitCdev
  BY <1>7 DEF ExitCdev
<1>8. CASE ExitStorage
  <2>1. \A m \in Minors : m < minor \/ m = minor => ~Taken(m)'
    BY <1>8 DEF ExitStorage
  <2>2. \A m \in Minors : /\ m < minor + 1 => m < minor \/ m = minor
                          /\ minor = LastMinor => m < minor \/ m = minor
    BY MinorFacts
  <2> QED
    BY <1>8, <2>1, <2>2 DEF ExitStorage
<1>9. CASE ExitEnd
  BY <1>9 DEF ExitEnd, CachesMade
<1>10. CASE Users \/ UNCHANGED vars
  <2>1. /\ UNCHANGED <<state, at, minor, region, added, CDD_sem, caches, procvalue>>
        /\ state \in {"going", "unloaded"} => UNCHANGED CDD_storage
    BY <1>10 DEF Users, Open, Close, ProcBegin, ProcEnd, MypsBegin, MypsEnd, vars
  <2> QED
    BY <2>1
<1> QED
  BY <1>1, <1>2, <1>3, <1>4, <1>5, <1>6, <1>7, <1>8, <1>9, <1>10 DEF Next, CDD_exit

(* Partial_decommission_exit without a device leaves at most a cache.       *)
LEMMA FailedLoadKeeps ==
    ASSUME IInv, Unused, FailedLoadLeavesCache, [Next]_vars
    PROVE  FailedLoadLeavesCache'
<1> SUFFICES ASSUME Unloaded("seq_exit")', added' = {}
             PROVE  (Unregistered /\ Freed /\ caches \subseteq {0} \ {LastMinor})'
  BY DEF FailedLoadLeavesCache
<1> USE DEF InitAt, ExitAt, Unloaded, Unregistered, Freed, dirVars, devVars, useVars
<1>1. CASE InitSeqExit
  <2>1. state = "coming" /\ at = "seq_exit" /\ added = {}
    BY <1>1 DEF InitSeqExit
  <2>2. /\ devno = {} /\ ~topdir /\ entries = {} /\ procvalue = {} /\ CDD_storage = {}
        /\ ~region /\ ~myps /\ CDD_sem = {} /\ caches \subseteq {0} \ {LastMinor}
    BY <2>1 DEF Unused, IInv, TypeOK, MypsGone
  <2> QED
    BY <1>1, <2>1, <2>2 DEF InitSeqExit
<1>2. CASE state = "unloaded"
  <2>1. UNCHANGED <<dirVars, state, at, myps, region, added, CDD_sem, caches,
                    CDD_storage, procvalue>>
    <3>1. CASE Users \/ UNCHANGED vars
      BY <1>2, <3>1 DEF Users, Open, Close, ProcBegin, ProcEnd, MypsBegin, MypsEnd, vars,
           IInv, MypsGone
    <3>2. ~CDD_init /\ ~CDD_exit /\ ~ExitBegin
      BY <1>2 DEF CDD_init, InitRegion, InitSem, InitCache, InitCdev, InitProc,
           InitEntry, InitDecommission, Decommission, InitSeqExit, CDD_exit, ExitSeqExit,
           ExitProc, ExitMarker, ExitEntry, RemoveEntryWhen, ExitCdev, ExitStorage,
           ExitEnd, ExitBegin
    <3> QED
      BY <3>1, <3>2 DEF Next
  <2> QED
    BY <1>2, <2>1 DEF FailedLoadLeavesCache
<1>3. InitSeqExit \/ state = "unloaded"
  <2>1. ASSUME state # "unloaded", ~InitSeqExit  PROVE FALSE
    <3>1. state' = "unloaded" /\ at' = "seq_exit"
      OBVIOUS
    <3>2. ~(Users \/ UNCHANGED vars)
      BY <2>1, <3>1 DEF Users, Open, Close, ProcBegin, ProcEnd, MypsBegin, MypsEnd, vars
    <3>3. ~CDD_init
      BY <2>1, <3>1 DEF CDD_init, InitRegion, InitSem, InitCache, InitCdev, InitProc,
           InitEntry, InitDecommission, Decommission
    <3>4. ~CDD_exit /\ ~ExitBegin
      BY <2>1, <3>1 DEF CDD_exit, ExitSeqExit, ExitProc, ExitMarker, ExitEntry,
           RemoveEntryWhen, ExitCdev, ExitStorage, ExitEnd, ExitBegin
    <3> QED
      BY <3>2, <3>3, <3>4 DEF Next
  <2> QED
    BY <2>1
<1> QED
  BY <1>1, <1>2, <1>3

(* A load begins with no entry, and with nothing taken.                     *)
LEMMA BeginsWithNothing == Init => JInv
<1> SUFFICES ASSUME Init PROVE JInv
  OBVIOUS
<1> USE DEF Init, DirInit
<1>1. Below(0) = {}
  BY MinorFacts, Neighbours
<1>2. Counted
  BY <1>1, FS_EmptySet DEF Counted, CountIsExact, Listing, WithMarker
<1>3. Unused /\ CachesMade /\ TakenBack /\ FailedLoadLeavesCache
  BY <1>1 DEF Unused, CachesMade, TakenBack, Unloaded, FailedLoadLeavesCache
<1> QED
  BY <1>2, <1>3 DEF JInv

(* The listing, and what is taken back, hold in every state.                *)
THEOREM NothingForgotten == Spec => []JInv
<1>1. IInv /\ JInv /\ [Next]_vars => JInv'
  <2> SUFFICES ASSUME IInv, JInv, [Next]_vars PROVE JInv'
    OBVIOUS
  <2>1. Counted'
    BY FailuresStay, CountedKeeps DEF JInv, Counted, Good
  <2> QED
    BY <2>1, UnusedKeeps, CachesKeep, TakenBackKeeps, FailedLoadKeeps DEF JInv
<1> QED
  BY <1>1, BeginsWithNothing, Invariance, PTL DEF Spec

(* The count is the number of the entries, and the directory is there as    *)
(* long as there are any, for any number of minors.                         *)
THEOREM DirectoryIsCounted == Spec => []DirectoryCounted
<1>1. JInv => DirectoryCounted
  BY DEF JInv, Counted, Good, CountIsExact, DirectoryCounted
<1> QED
  BY <1>1, NothingForgotten, PTL

(* After CDD_exit the kernel knows nothing of the driver and only the slab  *)
(* caches are left, but for the last minor's: for any number of minors and  *)
(* whatever has been done with the devices.                                 *)
THEOREM UnloadLeavesOnlyCaches == Spec => []UnloadLeavesCaches
<1>1. IInv /\ JInv => UnloadLeavesCaches
  <2> SUFFICES ASSUME IInv, JInv, Unloaded("end"), Good
               PROVE  Unregistered /\ Freed /\ caches = Minors \ {LastMinor}
    BY DEF UnloadLeavesCaches, Good
  <2>1. entries = {} /\ ~topdir
    BY DEF JInv, Counted, CountIsExact, Listing, Unloaded
  <2>2. /\ ~region /\ caches = Minors \ {LastMinor} /\ \A m \in Minors : ~Taken(m)
        /\ ~myps
    BY DEF JInv, TakenBack, IInv, MypsGone, Unloaded
  <2>3. /\ added \subseteq Minors /\ CDD_sem \subseteq Minors
        /\ CDD_storage \subseteq Minors /\ procvalue \subseteq Minors
    BY DEF IInv, TypeOK
  <2> QED
    BY <2>1, <2>2, <2>3 DEF Unregistered, Freed, Taken
<1> QED
  BY <1>1, Invariance, NothingForgotten, PTL

(* A load that fails before any device was added leaves at most the slab    *)
(* cache of minor 0, and not even that when there is but one minor,         *)
(* whichever of its calls fails.                                            *)
THEOREM FailedLoadLeavesOnlyCache == Spec => []FailedLoadLeavesCache
<1>1. JInv => FailedLoadLeavesCache
  BY DEF JInv
<1> QED
  BY <1>1, NothingForgotten, PTL
=============================================================================

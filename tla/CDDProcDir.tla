----------------------------- MODULE CDDProcDir -----------------------------
(***************************************************************************)
(* The directory /proc/CDD (proc_ops.c, proc_log_marker.c): a reference    *)
(* count decides when the directory is made and removed, and the entry     *)
(* "marker" comes with the first device entry and goes with the last.      *)
(*                                                                         *)
(* The operations are parts of the steps of CDDModule: each describes the  *)
(* next value of some variables of the directory.                          *)
(***************************************************************************)
EXTENDS Naturals, FiniteSets

CONSTANTS
    Minors,    \* the minor numbers, 0 .. CDDNUMDEVS - 1
    Marker     \* the name of the marker file

VARIABLES
    MayFail,          \* the kernel calls that may fail this time
    topdir,           \* /proc/CDD exists
    topdir_refcount,  \* as in proc_ops.c
    entries,          \* the names that exist in it: minors and "marker"
    proc_entry        \* the names whose struct proc_dir_entry pointer is set

dirVars == <<MayFail, topdir, topdir_refcount, entries, proc_entry>>

DirInit == topdir = FALSE /\ topdir_refcount = 0 /\ entries = {} /\ proc_entry = {}

topdir_entry_count_WithMarker == topdir_refcount

topdir_entry_count == IF topdir_refcount = 0 THEN 0 ELSE topdir_refcount - 1

(* proc_create fails: the caller gets NULL, the count has been raised.      *)
create_CDD_procdir_entry(name) ==
    /\ topdir_refcount' = topdir_refcount + 1 /\ UNCHANGED MayFail
    /\ \/ topdir_refcount = 0 /\ topdir' = TRUE
       \/ topdir_refcount = 0 /\ "proc_mkdir" \in MayFail /\ UNCHANGED topdir
       \/ topdir_refcount > 0 /\ UNCHANGED topdir
    /\ \/ entries' = entries \cup {name} /\ proc_entry' = proc_entry \cup {name}
       \/ "proc_create" \in MayFail /\ UNCHANGED <<entries, proc_entry>>

remove_CDD_procdir_entry_Uncounted(name) ==
    /\ entries' = entries \ {name}
    /\ UNCHANGED <<MayFail, topdir, topdir_refcount>>

remove_CDD_procdir_entry_OneEarly(name) ==
    /\ topdir_refcount' = topdir_refcount - 1 /\ UNCHANGED MayFail
    /\ entries' = entries \ {name}
    /\ topdir' = (topdir /\ topdir_refcount > 2)

remove_CDD_procdir_entry(name) ==
    /\ topdir_refcount' = topdir_refcount - 1 /\ UNCHANGED MayFail
    /\ entries' = entries \ {name}
    /\ topdir' = (topdir /\ topdir_refcount # 1)

(* CDDproc_log_marker_exit: the pointer is not cleared.                     *)
RemoveMarker ==
    IF Marker \in proc_entry
    THEN remove_CDD_procdir_entry(Marker) /\ UNCHANGED proc_entry
    ELSE UNCHANGED dirVars

RemoveDevice(m) ==
    IF m \in proc_entry
    THEN remove_CDD_procdir_entry(m) /\ proc_entry' = proc_entry \ {m}
    ELSE UNCHANGED dirVars
=============================================================================

------------------------------- MODULE CDDFile -------------------------------
(***************************************************************************)
(* What a minor device promises the programs that use it, without tasks,   *)
(* locks or wait queues: a bounded amount of content that handles opened   *)
(* for writing extend or truncate, and that a read-only handle is only     *)
(* given out for when there is some.  CDDDevice implements this.           *)
(***************************************************************************)
EXTENDS Integers

CONSTANTS
    Handles, Len,
    Width     \* of the count of opens, which wraps

VARIABLES
    size,    \* bytes allocated: 0 until the first open
    used,    \* bytes of content
    opens,   \* how many opens succeeded so far, modulo Width
    handle   \* what each handle is open for

absVars == <<size, used, opens, handle>>

Init == /\ size = 0 /\ used = 0 /\ opens = 0
        /\ handle = [h \in Handles |-> "none"]

Allocate == size = 0 /\ size' = Len /\ UNCHANGED <<used, opens, handle>>

(* A reader is let in only when there is content, and never changes it. *)
OpenReader(h) ==
    /\ handle[h] = "none" /\ used > 0
    /\ handle' = [handle EXCEPT ![h] = "reader"] /\ opens' = (opens + 1) % Width
    /\ UNCHANGED <<size, used>>

(* A writer is always let in, and may drop the whole content as it enters. *)
OpenWriter(h) ==
    /\ handle[h] = "none" /\ size = Len
    /\ handle' = [handle EXCEPT ![h] = "writer"] /\ opens' = (opens + 1) % Width
    /\ used' \in {0, used}
    /\ UNCHANGED size

Extend(h) ==
    /\ handle[h] = "writer"
    /\ used' \in used + 1 .. size
    /\ UNCHANGED <<size, opens, handle>>

Close(h) ==
    /\ handle[h] # "none"
    /\ handle' = [handle EXCEPT ![h] = "none"]
    /\ UNCHANGED <<size, used, opens>>

Next == \/ Allocate
        \/ \E h \in Handles : OpenReader(h) \/ OpenWriter(h) \/ Extend(h) \/ Close(h)

Spec == Init /\ [][Next]_absVars
=============================================================================

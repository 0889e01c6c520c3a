---------------------------- MODULE StartBarrier ----------------------------
(***************************************************************************)
(* What the count of testApp_ch4.c is for: threads are made, then they     *)
(* check in, and the program goes on when all that were made have.         *)
(***************************************************************************)
CONSTANT Threads

VARIABLES
    created, started,   \* the threads made; those that have checked in
    phase               \* of the program: "creating", "waiting", "past"

bvars == <<created, started, phase>>

BInit == created = {} /\ started = {} /\ phase = "creating"

Create(t) ==
    /\ phase = "creating" /\ t \notin created
    /\ created' = created \cup {t}
    /\ UNCHANGED <<started, phase>>

Wait ==
    /\ phase = "creating" /\ phase' = "waiting"
    /\ UNCHANGED <<created, started>>

CheckIn(t) ==
    /\ phase = "waiting" /\ t \in created \ started
    /\ started' = started \cup {t}
    /\ UNCHANGED <<created, phase>>

GoOn ==
    /\ phase = "waiting" /\ started = created
    /\ phase' = "past"
    /\ UNCHANGED <<created, started>>

BNext == Wait \/ GoOn \/ \E t \in Threads : Create(t) \/ CheckIn(t)

BSpec == BInit /\ [][BNext]_bvars
=============================================================================

----------------------------- MODULE TestAppCh4 -----------------------------
(***************************************************************************)
(* The threads of testApp_ch4.c.  main makes them under running_mutex,     *)
(* raising running_threads before each; each thread lowers it once, under  *)
(* the mutex; main then waits, reading the count without the mutex, until  *)
(* it is 0, and reads /proc/myps.  ++ and -- of the volatile count are a   *)
(* load and a store.                                                       *)
(***************************************************************************)
EXTENDS Naturals, FiniteSets

CONSTANTS
    MaxThreads,    \* the largest argument: the help of the program says < 100
    Wrap           \* 2^w, w the width of running_threads

ASSUME ThreadsAssumption == MaxThreads \in Nat /\ Wrap \in Nat /\ MaxThreads < Wrap

VARIABLES
    running_threads,
    running_mutex,                  \* it is locked
    main, i, num_threads, status,   \* main: its place and its variables
    reg,                            \* main: the count between load and store
    pc, treg                        \* of each thread: its place, the count it loaded

mainVars   == <<main, i, num_threads, status, reg>>
threadVars == <<pc, treg>>
vars       == <<running_threads, running_mutex, mainVars, threadVars>>

Threads == 0 .. MaxThreads - 1
Ok      == "ok"
EAGAIN  == "EAGAIN"
Counts  == 0 .. Wrap - 1

MainAt(label) == main = label
At(t, label)  == pc[t] = label
Goto(t, label) == pc' = [pc EXCEPT ![t] = label]

Init ==
    /\ running_threads = 0 /\ running_mutex = FALSE
    /\ main = "lock" /\ i = 0 /\ num_threads \in 0 .. MaxThreads
    /\ status = Ok /\ reg = 0
    /\ pc = [t \in Threads |-> "none"] /\ treg = [t \in Threads |-> 0]

-----------------------------------------------------------------------------
(* main. *)

MainLock_Skipped ==
    /\ MainAt("lock")
    /\ main' = "loop"
    /\ UNCHANGED <<running_threads, running_mutex, i, num_threads, status, reg, threadVars>>

MainLock ==
    /\ MainAt("lock") /\ ~running_mutex
    /\ running_mutex' = TRUE /\ main' = "loop"
    /\ UNCHANGED <<running_threads, i, num_threads, status, reg, threadVars>>

LoopWhile(again) ==
    /\ MainAt("loop")
    /\ IF again THEN reg' = running_threads /\ main' = "store" /\ UNCHANGED num_threads
                ELSE num_threads' = i /\ main' = "unlock" /\ UNCHANGED reg
    /\ UNCHANGED <<running_threads, running_mutex, i, status, threadVars>>

MainLoop_OnceMore == LoopWhile(i <= num_threads)

MainLoop == LoopWhile(i < num_threads)

MainStore ==
    /\ MainAt("store")
    /\ running_threads' = (reg + 1) % Wrap /\ main' = "create"
    /\ UNCHANGED <<running_mutex, i, num_threads, status, reg, threadVars>>

(* A thread that cannot be made ends the loop; its raise of the count stays. *)
MainCreate ==
    /\ MainAt("create")
    /\ \/ /\ pc' = [pc EXCEPT ![i] = "lock"]
          /\ i' = i + 1 /\ main' = "loop"
          /\ UNCHANGED <<status, num_threads>>
       \/ /\ status' = EAGAIN /\ num_threads' = i /\ main' = "unlock"
          /\ UNCHANGED <<i, pc>>
    /\ UNCHANGED <<running_threads, running_mutex, reg, treg>>

MainUnlock ==
    /\ MainAt("unlock")
    /\ running_mutex' = FALSE /\ main' = "wait"
    /\ UNCHANGED <<running_threads, i, num_threads, status, reg, threadVars>>

(* One turn of the wait loop; usleep returns some time later.               *)
MainWait ==
    /\ MainAt("wait")
    /\ main' = IF running_threads > 0 THEN "usleep" ELSE "echo"
    /\ UNCHANGED <<running_threads, running_mutex, i, num_threads, status, reg, threadVars>>

MainWake ==
    /\ MainAt("usleep") /\ main' = "wait"
    /\ UNCHANGED <<running_threads, running_mutex, i, num_threads, status, reg, threadVars>>

(* echo pid > /proc/myps, cat /proc/myps; then only main's thread ends.     *)
MainRun ==
    /\ \/ MainAt("echo") /\ main' = "cat"
       \/ MainAt("cat") /\ main' = "pthread_exit"
    /\ UNCHANGED <<running_threads, running_mutex, i, num_threads, status, reg, threadVars>>

MainNext == \/ MainLock \/ MainLoop \/ MainStore \/ MainCreate \/ MainUnlock
            \/ MainWait \/ MainWake \/ MainRun

-----------------------------------------------------------------------------
(* thread_function. *)

ThreadLock_Skipped(t) ==
    /\ At(t, "lock")
    /\ Goto(t, "load")
    /\ UNCHANGED <<running_threads, running_mutex, mainVars, treg>>

ThreadLock(t) ==
    /\ At(t, "lock") /\ ~running_mutex
    /\ running_mutex' = TRUE /\ Goto(t, "load")
    /\ UNCHANGED <<running_threads, mainVars, treg>>

ThreadLoad(t) ==
    /\ At(t, "load")
    /\ treg' = [treg EXCEPT ![t] = running_threads] /\ Goto(t, "store")
    /\ UNCHANGED <<running_threads, running_mutex, mainVars>>

ThreadStore(t) ==
    /\ At(t, "store")
    /\ running_threads' = (treg[t] + Wrap - 1) % Wrap /\ Goto(t, "unlock")
    /\ UNCHANGED <<running_mutex, mainVars, treg>>

ThreadUnlock(t) ==
    /\ At(t, "unlock")
    /\ running_mutex' = FALSE /\ Goto(t, "alive")
    /\ UNCHANGED <<running_threads, mainVars, treg>>

ThreadDie(t) ==
    /\ At(t, "alive") /\ Goto(t, "dead")
    /\ UNCHANGED <<running_threads, running_mutex, mainVars, treg>>

ThreadNext(t) == \/ ThreadLock(t) \/ ThreadLoad(t) \/ ThreadStore(t)
                 \/ ThreadUnlock(t) \/ ThreadDie(t)

-----------------------------------------------------------------------------
Next == MainNext \/ \E t \in Threads : ThreadNext(t)

Spec == Init /\ [][Next]_vars

(* The scheduler runs main and every thread.  A thread takes the mutex once, *)
(* so weak fairness is enough for the lock.                                  *)
Fairness == WF_vars(MainNext) /\ \A t \in Threads : WF_vars(ThreadNext(t))

FairSpec == Spec /\ Fairness

-----------------------------------------------------------------------------
(* The type invariant.                                                      *)
TypeOK ==
    /\ running_threads \in Counts /\ running_mutex \in BOOLEAN
    /\ main \in {"lock", "loop", "store", "create", "unlock", "wait", "usleep",
                 "echo", "cat", "pthread_exit"}
    /\ i \in 0 .. MaxThreads /\ num_threads \in 0 .. MaxThreads
    /\ status \in {Ok, EAGAIN} /\ reg \in Counts
    /\ pc \in [Threads -> {"none", "lock", "load", "store", "unlock", "alive", "dead"}]
    /\ treg \in [Threads -> Counts]

Unchecked == {t \in Threads : pc[t] \in {"lock", "load", "store"}}

Owed == IF main = "create" \/ status = EAGAIN THEN 1 ELSE 0

(* running_threads is the number of threads that have not checked in yet,   *)
(* for the unlocked read of main too, and one more for ever when a thread   *)
(* could not be made: no update of the count is lost and it never wraps.    *)
CountExact == running_threads = Cardinality(Unchecked) + Owed

Phase == IF main \in {"wait", "usleep"} THEN "waiting"
         ELSE IF main \in {"echo", "cat", "pthread_exit"} THEN "past"
         ELSE "creating"

Barrier == INSTANCE StartBarrier WITH
    created <- {t \in Threads : pc[t] # "none"},
    started <- {t \in Threads : pc[t] \in {"unlock", "alive", "dead"}},
    phase   <- Phase

(* The count is a barrier: no thread checks in before all are made, and     *)
(* main reads /proc/myps only when every thread that was made has.          *)
StartsTogether == Barrier!BSpec

(* When every thread could be made, main gets past the barrier and ends.    *)
MainGoesOn == MainAt("wait") /\ status = Ok ~> MainAt("pthread_exit")

(* testApp_ch4.c:110, "stop creating when we error out", and 117, "Now wait *)
(* to give the threads a chance to start": main goes on with the threads    *)
(* there are.  Refuted by a run: the raise for the missing one stays.       *)
GoesOnWithThoseMade == MainAt("wait") ~> MainAt("pthread_exit")
=============================================================================

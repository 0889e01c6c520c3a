-------------------------- MODULE TestAppCh4_proofs --------------------------
(***************************************************************************)
(* The start barrier of testApp_ch4.c, for any number of threads that the  *)
(* width of the count allows.                                              *)
(***************************************************************************)
EXTENDS TestAppCh4, FiniteSetTheorems, TLAPS

MainInside == main \in {"loop", "store", "create", "unlock"}

Inside(t) == pc[t] \in {"load", "store", "unlock"}

(* Who holds the mutex follows from the places.                             *)
Mutex ==
    /\ running_mutex <=> MainInside \/ \E t \in Threads : Inside(t)
    /\ \A t \in Threads : Inside(t) => ~MainInside
    /\ \A t, u \in Threads : Inside(t) /\ Inside(u) => t = u

(* What was loaded is still the count when it is stored.                    *)
Loaded ==
    /\ main = "store" => reg = running_threads
    /\ \A t \in Threads : pc[t] = "store" => treg[t] = running_threads

(* The threads made are those below i; they wait for the mutex as long as   *)
(* main is making them.                                                     *)
Made ==
    /\ \A t \in Threads : pc[t] # "none" <=> t < i
    /\ Phase = "creating" => \A t \in Threads : pc[t] \in {"none", "lock"}
    /\ main \in {"lock", "loop", "store", "create"} => i <= num_threads /\ status = Ok
    /\ main \in {"store", "create"} => i < num_threads
    /\ main = "lock" => i = 0

(* Past the barrier all have checked in.                                    *)
Past == Phase = "past" => Unchecked = {}

IInv == TypeOK /\ Mutex /\ Loaded /\ Made /\ CountExact /\ Past

-----------------------------------------------------------------------------
(* The set of threads that have not checked in is finite, and no larger     *)
(* than the number of those made.                                           *)
LEMMA UncheckedFinite ==
    ASSUME TypeOK, Made
    PROVE  /\ IsFiniteSet(Unchecked)
           /\ Cardinality(Unchecked) \in 0 .. i
<1>1. Unchecked \subseteq 0 .. i - 1
  <2>1. ASSUME NEW t \in Unchecked PROVE t \in 0 .. i - 1
    <3>1. t \in Threads /\ pc[t] # "none"
      BY <2>1 DEF Unchecked
    <3>2. t < i
      BY <3>1 DEF Made
    <3> QED
      BY <3>1, <3>2, ThreadsAssumption DEF Threads, TypeOK
  <2> QED
    BY <2>1
<1>2. i \in Nat
  BY ThreadsAssumption DEF TypeOK
<1>3. IsFiniteSet(0 .. i - 1) /\ Cardinality(0 .. i - 1) = i
  BY <1>2, FS_Interval
<1>4. IsFiniteSet(Unchecked) /\ Cardinality(Unchecked) <= i
  BY <1>1, <1>3, FS_Subset
<1>5. Cardinality(Unchecked) \in Nat
  BY <1>4, FS_CardinalityType
<1> QED
  BY <1>2, <1>4, <1>5

(* When main begins to wait, no one is left exactly when the count says so. *)
LEMMA NoneLeft ==
    ASSUME TypeOK, Made, CountExact, running_threads = 0
    PROVE  Unchecked = {} /\ status = Ok
<1>1. IsFiniteSet(Unchecked) /\ Cardinality(Unchecked) \in 0 .. i
  BY UncheckedFinite
<1>2. Owed \in {0, 1} /\ (status = EAGAIN => Owed = 1)
  BY DEF Owed
<1>3. Cardinality(Unchecked) = 0 /\ Owed = 0
  BY <1>1, <1>2, ThreadsAssumption DEF CountExact, TypeOK
<1>4. Unchecked = {}
  BY <1>1, <1>3, FS_EmptySet
<1>5. status = Ok
  BY <1>2, <1>3 DEF TypeOK
<1> QED
  BY <1>4, <1>5

(* An update of the count that does not wrap is one up or one down.         *)
LEMMA CountSteps ==
    ASSUME NEW n \in Nat
    PROVE  /\ n + 1 < Wrap => (n + 1) % Wrap = n + 1
           /\ 0 < n /\ n < Wrap => (n + Wrap - 1) % Wrap = n - 1
<1>1. Wrap \in Nat
  BY ThreadsAssumption
<1>2. ASSUME NEW m \in Nat, m < Wrap PROVE m % Wrap = m /\ (m + Wrap) % Wrap = m
  BY <1>1, <1>2, SMTT(30)
<1>3. CASE 0 < n /\ n < Wrap
  <2>1. n - 1 \in Nat /\ n - 1 < Wrap /\ (n - 1) + Wrap = n + Wrap - 1
    BY <1>1, <1>3
  <2> QED
    BY <2>1, <1>2, <1>1
<1> QED
  BY <1>1, <1>2, <1>3

(* Nothing is made yet.                                                     *)
LEMMA InitHolds == Init => IInv
<1> SUFFICES ASSUME Init PROVE IInv
  OBVIOUS
<1>1. TypeOK
  <2>1. 0 \in Counts /\ 0 \in 0 .. MaxThreads
    BY ThreadsAssumption DEF Counts
  <2>2. /\ pc \in [Threads -> {"none", "lock", "load", "store", "unlock", "alive", "dead"}]
        /\ treg \in [Threads -> Counts]
    BY <2>1 DEF Init
  <2>3. running_mutex \in BOOLEAN
    BY Zenon DEF Init
  <2> QED
    BY <2>1, <2>2, <2>3 DEF Init, TypeOK
<1>2. Mutex /\ Loaded
  BY DEF Init, Mutex, Loaded, MainInside, Inside
<1>3. Made
  BY ThreadsAssumption DEF Init, Made, Threads, Phase
<1>4. Unchecked = {}
  BY DEF Init, Unchecked
<1>5. Cardinality(Unchecked) = 0
  BY <1>4, FS_EmptySet
<1>6. CountExact /\ Past
  BY <1>4, <1>5 DEF Init, CountExact, Past, Owed, Ok, EAGAIN
<1> QED
  BY <1>1, <1>2, <1>3, <1>6 DEF IInv

(* Types: i < num_threads where a thread is made. *)
LEMMA TypesKept == IInv /\ [Next]_vars => TypeOK'
<1> SUFFICES ASSUME IInv, [Next]_vars PROVE TypeOK'
  OBVIOUS
<1> USE DEF IInv
<1>1. CASE MainLock
  BY <1>1, ThreadsAssumption DEF TypeOK, Counts, MainAt, mainVars, threadVars, MainLock
<1>2. CASE MainLoop
  BY <1>2, ThreadsAssumption DEF TypeOK, Counts, MainAt, mainVars, threadVars,
       MainLoop, LoopWhile
<1>3. CASE MainStore
  BY <1>3, ThreadsAssumption DEF TypeOK, Counts, MainAt, mainVars, threadVars, MainStore
<1>4. CASE MainCreate
  BY <1>4, ThreadsAssumption DEF TypeOK, Made, MainAt, MainCreate
<1>5. CASE MainUnlock
  BY <1>5, ThreadsAssumption DEF TypeOK, Counts, MainAt, mainVars, threadVars,
       MainUnlock
<1>6. CASE MainWait
  BY <1>6, ThreadsAssumption DEF TypeOK, Counts, MainAt, mainVars, threadVars, MainWait
<1>7. CASE MainWake
  BY <1>7, ThreadsAssumption DEF TypeOK, Counts, MainAt, mainVars, threadVars, MainWake
<1>8. CASE MainRun
  BY <1>8, ThreadsAssumption DEF TypeOK, Counts, MainAt, mainVars, threadVars, MainRun
<1>9. ASSUME NEW t \in Threads, ThreadLock(t) PROVE TypeOK'
  BY <1>9, ThreadsAssumption DEF TypeOK, Counts, MainAt, mainVars, threadVars,
       ThreadLock, Goto, At
<1>10. ASSUME NEW t \in Threads, ThreadLoad(t) PROVE TypeOK'
  BY <1>10, ThreadsAssumption DEF TypeOK, Counts, MainAt, mainVars, threadVars,
       ThreadLoad, Goto, At
<1>11. ASSUME NEW t \in Threads, ThreadStore(t) PROVE TypeOK'
  BY <1>11, ThreadsAssumption DEF TypeOK, Counts, MainAt, mainVars, threadVars,
       ThreadStore, Goto, At
<1>12. ASSUME NEW t \in Threads, ThreadUnlock(t) PROVE TypeOK'
  BY <1>12, ThreadsAssumption DEF TypeOK, Counts, MainAt, mainVars, threadVars,
       ThreadUnlock, Goto, At
<1>13. ASSUME NEW t \in Threads, ThreadDie(t) PROVE TypeOK'
  BY <1>13, ThreadsAssumption DEF TypeOK, Counts, MainAt, mainVars, threadVars,
       ThreadDie, Goto, At
<1>14. CASE UNCHANGED vars
  BY <1>14, ThreadsAssumption DEF TypeOK, Counts, MainAt, mainVars, threadVars,
       vars, mainVars, threadVars
<1> QED
  BY <1>1, <1>2, <1>3, <1>4, <1>5, <1>6, <1>7, <1>8, <1>9, <1>10, <1>11, <1>12,
       <1>13, <1>14 DEF Next, MainNext, ThreadNext

(* Nobody takes the mutex before it is free. *)
LEMMA MutexKept == IInv /\ [Next]_vars => Mutex'
<1> SUFFICES ASSUME IInv, [Next]_vars PROVE Mutex'
  OBVIOUS
<1> USE DEF IInv
<1>1. CASE MainLock
  BY <1>1 DEF TypeOK, Mutex, MainInside, Inside, MainAt, mainVars, threadVars, MainLock
<1>2. CASE MainLoop
  BY <1>2 DEF TypeOK, Mutex, MainInside, Inside, MainAt, mainVars, threadVars,
       MainLoop, LoopWhile
<1>3. CASE MainStore
  BY <1>3 DEF TypeOK, Mutex, MainInside, Inside, MainAt, mainVars, threadVars, MainStore
<1>4. CASE MainCreate
  BY <1>4 DEF TypeOK, Mutex, MainInside, Inside, MainAt, mainVars, threadVars,
       MainCreate
<1>5. CASE MainUnlock
  BY <1>5 DEF TypeOK, Mutex, MainInside, Inside, MainAt, mainVars, threadVars,
       MainUnlock
<1>6. CASE MainWait
  BY <1>6 DEF TypeOK, Mutex, MainInside, Inside, MainAt, mainVars, threadVars, MainWait
<1>7. CASE MainWake
  BY <1>7 DEF TypeOK, Mutex, MainInside, Inside, MainAt, mainVars, threadVars, MainWake
<1>8. CASE MainRun
  BY <1>8 DEF TypeOK, Mutex, MainInside, Inside, MainAt, mainVars, threadVars, MainRun
<1>9. ASSUME NEW t \in Threads, ThreadLock(t) PROVE Mutex'
  BY <1>9 DEF TypeOK, Mutex, MainInside, Inside, MainAt, mainVars, threadVars,
       ThreadLock, Goto, At
<1>10. ASSUME NEW t \in Threads, ThreadLoad(t) PROVE Mutex'
  BY <1>10 DEF TypeOK, Mutex, MainInside, Inside, MainAt, mainVars, threadVars,
       ThreadLoad, Goto, At
<1>11. ASSUME NEW t \in Threads, ThreadStore(t) PROVE Mutex'
  BY <1>11 DEF TypeOK, Mutex, MainInside, Inside, MainAt, mainVars, threadVars,
       ThreadStore, Goto, At
<1>12. ASSUME NEW t \in Threads, ThreadUnlock(t) PROVE Mutex'
  BY <1>12 DEF TypeOK, Mutex, MainInside, Inside, MainAt, mainVars, threadVars,
       ThreadUnlock, Goto, At
<1>13. ASSUME NEW t \in Threads, ThreadDie(t) PROVE Mutex'
  BY <1>13 DEF TypeOK, Mutex, MainInside, Inside, MainAt, mainVars, threadVars,
       ThreadDie, Goto, At
<1>14. CASE UNCHANGED vars
  BY <1>14 DEF TypeOK, Mutex, MainInside, Inside, MainAt, mainVars, threadVars,
       vars, mainVars, threadVars
<1> QED
  BY <1>1, <1>2, <1>3, <1>4, <1>5, <1>6, <1>7, <1>8, <1>9, <1>10, <1>11, <1>12,
       <1>13, <1>14 DEF Next, MainNext, ThreadNext

(* Whoever holds a loaded count holds the mutex, so nobody else stores. *)
LEMMA LoadedKept == IInv /\ [Next]_vars => Loaded'
<1> SUFFICES ASSUME IInv, [Next]_vars PROVE Loaded'
  OBVIOUS
<1> USE DEF IInv
<1>1. CASE MainLock
  BY <1>1 DEF TypeOK, Mutex, MainInside, Inside, Loaded, MainAt, mainVars,
       threadVars, MainLock
<1>2. CASE MainLoop
  BY <1>2 DEF TypeOK, Mutex, MainInside, Inside, Loaded, MainAt, mainVars,
       threadVars, MainLoop, LoopWhile
<1>3. CASE MainStore
  BY <1>3 DEF TypeOK, Mutex, MainInside, Inside, Loaded, MainAt, mainVars,
       threadVars, MainStore
<1>4. CASE MainCreate
  BY <1>4 DEF TypeOK, Mutex, MainInside, Inside, Loaded, MainAt, mainVars,
       threadVars, MainCreate
<1>5. CASE MainUnlock
  BY <1>5 DEF TypeOK, Mutex, MainInside, Inside, Loaded, MainAt, mainVars,
       threadVars, MainUnlock
<1>6. CASE MainWait
  BY <1>6 DEF TypeOK, Mutex, MainInside, Inside, Loaded, MainAt, mainVars,
       threadVars, MainWait
<1>7. CASE MainWake
  BY <1>7 DEF TypeOK, Mutex, MainInside, Inside, Loaded, MainAt, mainVars,
       threadVars, MainWake
<1>8. CASE MainRun
  BY <1>8 DEF TypeOK, Mutex, MainInside, Inside, Loaded, MainAt, mainVars,
       threadVars, MainRun
<1>9. ASSUME NEW t \in Threads, ThreadLock(t) PROVE Loaded'
  BY <1>9 DEF TypeOK, Mutex, MainInside, Inside, Loaded, MainAt, mainVars,
       threadVars, ThreadLock, Goto, At
<1>10. ASSUME NEW t \in Threads, ThreadLoad(t) PROVE Loaded'
  BY <1>10 DEF TypeOK, Mutex, MainInside, Inside, Loaded, MainAt, mainVars,
       threadVars, ThreadLoad, Goto, At
<1>11. ASSUME NEW t \in Threads, ThreadStore(t) PROVE Loaded'
  BY <1>11 DEF TypeOK, Mutex, MainInside, Inside, Loaded, MainAt, mainVars,
       threadVars, ThreadStore, Goto, At
<1>12. ASSUME NEW t \in Threads, ThreadUnlock(t) PROVE Loaded'
  BY <1>12 DEF TypeOK, Mutex, MainInside, Inside, Loaded, MainAt, mainVars,
       threadVars, ThreadUnlock, Goto, At
<1>13. ASSUME NEW t \in Threads, ThreadDie(t) PROVE Loaded'
  BY <1>13 DEF TypeOK, Mutex, MainInside, Inside, Loaded, MainAt, mainVars,
       threadVars, ThreadDie, Goto, At
<1>14. CASE UNCHANGED vars
  BY <1>14 DEF TypeOK, Mutex, MainInside, Inside, Loaded, MainAt, mainVars,
       threadVars, vars, mainVars, threadVars
<1> QED
  BY <1>1, <1>2, <1>3, <1>4, <1>5, <1>6, <1>7, <1>8, <1>9, <1>10, <1>11, <1>12,
       <1>13, <1>14 DEF Next, MainNext, ThreadNext

(* A thread gets the mutex only when main has left it. *)
LEMMA MadeKept == IInv /\ [Next]_vars => Made'
<1> SUFFICES ASSUME IInv, [Next]_vars PROVE Made'
  OBVIOUS
<1> USE DEF IInv
<1>1. CASE MainLock
  BY <1>1, ThreadsAssumption DEF TypeOK, Made, Mutex, MainInside, Phase, MainAt,
       mainVars, threadVars, Threads, MainLock
<1>2. CASE MainLoop
  BY <1>2, ThreadsAssumption DEF TypeOK, Made, Mutex, MainInside, Phase, MainAt,
       mainVars, threadVars, Threads, MainLoop, LoopWhile
<1>3. CASE MainStore
  BY <1>3, ThreadsAssumption DEF TypeOK, Made, Mutex, MainInside, Phase, MainAt,
       mainVars, threadVars, Threads, MainStore
<1>4. CASE MainCreate
  BY <1>4, ThreadsAssumption DEF TypeOK, Made, Mutex, MainInside, Phase, MainAt,
       mainVars, threadVars, Threads, MainCreate
<1>5. CASE MainUnlock
  BY <1>5, ThreadsAssumption DEF TypeOK, Made, Mutex, MainInside, Phase, MainAt,
       mainVars, threadVars, Threads, MainUnlock
<1>6. CASE MainWait
  BY <1>6, ThreadsAssumption DEF TypeOK, Made, Mutex, MainInside, Phase, MainAt,
       mainVars, threadVars, Threads, MainWait
<1>7. CASE MainWake
  BY <1>7, ThreadsAssumption DEF TypeOK, Made, Mutex, MainInside, Phase, MainAt,
       mainVars, threadVars, Threads, MainWake
<1>8. CASE MainRun
  BY <1>8, ThreadsAssumption DEF TypeOK, Made, Mutex, MainInside, Phase, MainAt,
       mainVars, threadVars, Threads, MainRun
<1>9. ASSUME NEW t \in Threads, ThreadLock(t) PROVE Made'
  BY <1>9, ThreadsAssumption DEF TypeOK, Made, Mutex, MainInside, Phase, MainAt,
       mainVars, threadVars, Threads, ThreadLock, Goto, At
<1>10. ASSUME NEW t \in Threads, ThreadLoad(t) PROVE Made'
  BY <1>10, ThreadsAssumption DEF TypeOK, Made, Mutex, MainInside, Phase, MainAt,
       mainVars, threadVars, Threads, ThreadLoad, Goto, At
<1>11. ASSUME NEW t \in Threads, ThreadStore(t) PROVE Made'
  BY <1>11, ThreadsAssumption DEF TypeOK, Made, Mutex, MainInside, Phase, MainAt,
       mainVars, threadVars, Threads, ThreadStore, Goto, At
<1>12. ASSUME NEW t \in Threads, ThreadUnlock(t) PROVE Made'
  BY <1>12, ThreadsAssumption DEF TypeOK, Made, Mutex, MainInside, Phase, MainAt,
       mainVars, threadVars, Threads, ThreadUnlock, Goto, At
<1>13. ASSUME NEW t \in Threads, ThreadDie(t) PROVE Made'
  BY <1>13, ThreadsAssumption DEF TypeOK, Made, Mutex, MainInside, Phase, MainAt,
       mainVars, threadVars, Threads, ThreadDie, Goto, At
<1>14. CASE UNCHANGED vars
  BY <1>14, ThreadsAssumption DEF TypeOK, Made, Mutex, MainInside, Phase, MainAt,
       mainVars, threadVars, Threads, vars, mainVars, threadVars
<1> QED
  BY <1>1, <1>2, <1>3, <1>4, <1>5, <1>6, <1>7, <1>8, <1>9, <1>10, <1>11, <1>12,
       <1>13, <1>14 DEF Next, MainNext, ThreadNext

(* A step that moves nobody through the barrier leaves the count right.     *)
LEMMA SameCount ==
    ASSUME CountExact, UNCHANGED <<running_threads, pc>>, Owed' = Owed
    PROVE  CountExact'
<1>1. Unchecked' = Unchecked
  BY DEF Unchecked
<1> QED
  BY <1>1 DEF CountExact

(* The count goes up before a thread is made and down when one checks in. *)
LEMMA CountKept == IInv /\ [Next]_vars => CountExact'
<1> SUFFICES ASSUME IInv, [Next]_vars PROVE CountExact'
  OBVIOUS
<1> USE DEF IInv
<1>1. CASE MainLock
  BY <1>1, SameCount DEF MainLock, MainAt, Owed, threadVars
<1>2. CASE MainLoop
  BY <1>2, SameCount DEF MainLoop, LoopWhile, MainAt, Owed, threadVars
<1>3. CASE MainStore
  <2>1. Unchecked' = Unchecked /\ Owed = 0 /\ Owed' = 1
    BY <1>3 DEF MainStore, MainAt, Made, Unchecked, Owed, threadVars, Ok, EAGAIN
  <2>2. Cardinality(Unchecked) \in 0 .. i /\ i < num_threads
    BY <1>3, UncheckedFinite DEF MainStore, MainAt, Made
  <2>3. Cardinality(Unchecked) \in Nat /\ Cardinality(Unchecked) + 1 < Wrap
    BY <2>2, ThreadsAssumption DEF TypeOK
  <2>4. running_threads' = (Cardinality(Unchecked) + 1) % Wrap
    BY <1>3, <2>1, <2>3 DEF MainStore, MainAt, Loaded, CountExact
  <2>5. running_threads' = Cardinality(Unchecked) + 1
    BY <2>3, <2>4, CountSteps
  <2> QED
    BY <2>1, <2>5 DEF CountExact
<1>4. CASE MainCreate
  <2>1. Owed = 1 /\ UNCHANGED running_threads
    BY <1>4 DEF MainCreate, MainAt, Owed
  <2>2. IsFiniteSet(Unchecked) /\ Cardinality(Unchecked) \in Nat
    BY UncheckedFinite, ThreadsAssumption DEF TypeOK
  <2>3. CASE status' = EAGAIN /\ pc' = pc
    <3>1. Unchecked' = Unchecked /\ Owed' = 1
      BY <2>3 DEF Unchecked, Owed
    <3> QED
      BY <2>1, <3>1 DEF CountExact
  <2>4. CASE pc' = [pc EXCEPT ![i] = "lock"] /\ main' = "loop" /\ status' = status
    <3>1. i \in Threads /\ status = Ok
      BY <1>4, ThreadsAssumption DEF MainCreate, MainAt, Made, Threads, TypeOK
    <3>2. i \notin Unchecked
      BY <3>1 DEF Unchecked, Made, TypeOK
    <3>3. Unchecked' = Unchecked \cup {i}
      BY <2>4, <3>1 DEF Unchecked, TypeOK
    <3>4. Cardinality(Unchecked \cup {i}) = Cardinality(Unchecked) + 1
      BY <2>2, <3>2, FS_AddElement
    <3>5. Owed' = 0
      BY <2>4, <3>1 DEF Owed, Ok, EAGAIN
    <3> QED
      BY <2>1, <2>2, <3>3, <3>4, <3>5 DEF CountExact
  <2> QED
    BY <1>4, <2>3, <2>4 DEF MainCreate
<1>5. CASE MainUnlock
  BY <1>5, SameCount DEF MainUnlock, MainAt, Owed, threadVars
<1>6. CASE MainWait
  BY <1>6, SameCount DEF MainWait, MainAt, Owed, threadVars
<1>7. CASE MainWake
  BY <1>7, SameCount DEF MainWake, MainAt, Owed, threadVars
<1>8. CASE MainRun
  BY <1>8, SameCount DEF MainRun, MainAt, Owed, threadVars
<1>9. ASSUME NEW t \in Threads, ThreadLock(t) PROVE CountExact'
  <2>1. Unchecked' = Unchecked
    BY <1>9 DEF ThreadLock, Goto, At, Unchecked, TypeOK
  <2> QED
    BY <1>9, <2>1 DEF ThreadLock, Owed, CountExact, mainVars
<1>10. ASSUME NEW t \in Threads, ThreadLoad(t) PROVE CountExact'
  <2>1. Unchecked' = Unchecked
    BY <1>10 DEF ThreadLoad, Goto, At, Unchecked, TypeOK
  <2> QED
    BY <1>10, <2>1 DEF ThreadLoad, Owed, CountExact, mainVars
<1>11. ASSUME NEW t \in Threads, ThreadStore(t) PROVE CountExact'
  <2>1. t \in Unchecked /\ Unchecked' = Unchecked \ {t}
    BY <1>11 DEF ThreadStore, Goto, At, Unchecked, TypeOK
  <2>2. Owed' = Owed /\ Owed \in {0, 1}
    BY <1>11 DEF ThreadStore, Owed, mainVars
  <2>3. IsFiniteSet(Unchecked) /\ Cardinality(Unchecked) \in Nat
    BY UncheckedFinite, ThreadsAssumption DEF TypeOK
  <2>4. Cardinality(Unchecked \ {t}) = Cardinality(Unchecked) - 1
    BY <2>1, <2>3, FS_RemoveElement
  <2>5. Cardinality(Unchecked) # 0
    BY <2>1, <2>3, FS_EmptySet
  <2>6. running_threads \in Nat /\ running_threads < Wrap
    BY ThreadsAssumption DEF TypeOK, Counts
  <2>7. 0 < running_threads
    BY <2>2, <2>3, <2>5, <2>6 DEF CountExact
  <2>8. running_threads' = (running_threads + Wrap - 1) % Wrap
    BY <1>11 DEF ThreadStore, At, Loaded
  <2>9. running_threads' = running_threads - 1
    BY <2>6, <2>7, <2>8, CountSteps
  <2> QED
    BY <2>1, <2>2, <2>3, <2>4, <2>9 DEF CountExact
<1>12. ASSUME NEW t \in Threads, ThreadUnlock(t) PROVE CountExact'
  <2>1. Unchecked' = Unchecked
    BY <1>12 DEF ThreadUnlock, Goto, At, Unchecked, TypeOK
  <2> QED
    BY <1>12, <2>1 DEF ThreadUnlock, Owed, CountExact, mainVars
<1>13. ASSUME NEW t \in Threads, ThreadDie(t) PROVE CountExact'
  <2>1. Unchecked' = Unchecked
    BY <1>13 DEF ThreadDie, Goto, At, Unchecked, TypeOK
  <2> QED
    BY <1>13, <2>1 DEF ThreadDie, Owed, CountExact, mainVars
<1>14. CASE UNCHANGED vars
  BY <1>14 DEF CountExact, Owed, Unchecked, vars, mainVars, threadVars
<1> QED
  BY <1>1, <1>2, <1>3, <1>4, <1>5, <1>6, <1>7, <1>8, <1>9, <1>10, <1>11, <1>12,
       <1>13, <1>14 DEF Next, MainNext, ThreadNext

(* Nobody is left when main goes on, and no thread is made after. *)
LEMMA PastKept == IInv /\ [Next]_vars => Past'
<1> SUFFICES ASSUME IInv, [Next]_vars PROVE Past'
  OBVIOUS
<1> USE DEF IInv
<1>1. CASE MainLock
  BY <1>1 DEF TypeOK, Past, Phase, Unchecked, MainAt, mainVars, threadVars, MainLock
<1>2. CASE MainLoop
  BY <1>2 DEF TypeOK, Past, Phase, Unchecked, MainAt, mainVars, threadVars,
       MainLoop, LoopWhile
<1>3. CASE MainStore
  BY <1>3 DEF TypeOK, Past, Phase, Unchecked, MainAt, mainVars, threadVars, MainStore
<1>4. CASE MainCreate
  BY <1>4 DEF TypeOK, Past, Phase, Unchecked, MainAt, mainVars, threadVars, MainCreate
<1>5. CASE MainUnlock
  BY <1>5 DEF TypeOK, Past, Phase, Unchecked, MainAt, mainVars, threadVars, MainUnlock
<1>6. CASE MainWait
  <2>1. CASE running_threads > 0
    BY <1>6, <2>1 DEF MainWait, Past, Phase
  <2>2. CASE ~(running_threads > 0)
    <3>1. running_threads = 0
      BY <2>2, ThreadsAssumption DEF TypeOK, Counts
    <3>2. Unchecked = {}
      BY <3>1, NoneLeft
    <3> QED
      BY <1>6, <3>2 DEF MainWait, Past, Unchecked, threadVars
  <2> QED
    BY <2>1, <2>2
<1>7. CASE MainWake
  BY <1>7 DEF TypeOK, Past, Phase, Unchecked, MainAt, mainVars, threadVars, MainWake
<1>8. CASE MainRun
  BY <1>8 DEF TypeOK, Past, Phase, Unchecked, MainAt, mainVars, threadVars, MainRun
<1>9. ASSUME NEW t \in Threads, ThreadLock(t) PROVE Past'
  BY <1>9 DEF TypeOK, Past, Phase, Unchecked, MainAt, mainVars, threadVars,
       ThreadLock, Goto, At
<1>10. ASSUME NEW t \in Threads, ThreadLoad(t) PROVE Past'
  BY <1>10 DEF TypeOK, Past, Phase, Unchecked, MainAt, mainVars, threadVars,
       ThreadLoad, Goto, At
<1>11. ASSUME NEW t \in Threads, ThreadStore(t) PROVE Past'
  BY <1>11 DEF TypeOK, Past, Phase, Unchecked, MainAt, mainVars, threadVars,
       ThreadStore, Goto, At
<1>12. ASSUME NEW t \in Threads, ThreadUnlock(t) PROVE Past'
  BY <1>12 DEF TypeOK, Past, Phase, Unchecked, MainAt, mainVars, threadVars,
       ThreadUnlock, Goto, At
<1>13. ASSUME NEW t \in Threads, ThreadDie(t) PROVE Past'
  BY <1>13 DEF TypeOK, Past, Phase, Unchecked, MainAt, mainVars, threadVars,
       ThreadDie, Goto, At
<1>14. CASE UNCHANGED vars
  BY <1>14 DEF TypeOK, Past, Phase, Unchecked, MainAt, mainVars, threadVars, vars,
       mainVars, threadVars
<1> QED
  BY <1>1, <1>2, <1>3, <1>4, <1>5, <1>6, <1>7, <1>8, <1>9, <1>10, <1>11, <1>12,
       <1>13, <1>14 DEF Next, MainNext, ThreadNext

(* A step of main or of a thread keeps all of it.                           *)
LEMMA StepKeeps == IInv /\ [Next]_vars => IInv'
  BY TypesKept, MutexKept, LoadedKept, MadeKept, CountKept, PastKept DEF IInv

(* The inductive invariant: the count, the mutex and the places of main and *)
(* of the threads in testApp_ch4.c agree at every step.                     *)
THEOREM Invariant == Spec => []IInv
  BY InitHolds, StepKeeps, PTL DEF Spec

(* The variables of main and of the threads keep their types.               *)
THEOREM TypeCorrect == Spec => []TypeOK
  BY Invariant, PTL DEF IInv

(* However many threads the argument asks for, running_threads is exactly   *)
(* the number that have not checked in, and one more once a creation failed. *)
THEOREM CountIsExact == Spec => []CountExact
  BY Invariant, PTL DEF IInv

-----------------------------------------------------------------------------
(* Each step of the program is one of the barrier or hidden.                *)
LEMMA BarrierInit == Init => Barrier!BInit
  BY DEF Init, Barrier!BInit, Phase

(* A step of main.                                                          *)
LEMMA MainRefines == IInv /\ MainNext => [Barrier!BNext]_(Barrier!bvars)
<1> SUFFICES ASSUME IInv, MainNext PROVE [Barrier!BNext]_(Barrier!bvars)
  OBVIOUS
<1> USE DEF IInv
<1>1. ASSUME UNCHANGED pc, Phase' = Phase PROVE UNCHANGED Barrier!bvars
  BY <1>1 DEF Barrier!bvars
<1>2. CASE MainLock
  BY <1>1, <1>2 DEF MainLock, MainAt, Phase, threadVars
<1>3. CASE MainLoop
  BY <1>1, <1>3 DEF MainLoop, LoopWhile, MainAt, Phase, threadVars
<1>4. CASE MainStore
  BY <1>1, <1>4 DEF MainStore, MainAt, Phase, threadVars
<1>5. CASE MainCreate
  <2>1. Phase = "creating" /\ Phase' = "creating"
    BY <1>5 DEF MainCreate, MainAt, Phase
  <2>2. CASE UNCHANGED pc
    BY <2>1, <2>2, <1>1
  <2>3. CASE pc' = [pc EXCEPT ![i] = "lock"]
    <3>1. i \in Threads /\ pc[i] = "none"
      BY <1>5, ThreadsAssumption DEF MainCreate, MainAt, Made, Threads, TypeOK
    <3>2. PICK t \in Threads : t = i
      BY <3>1
    <3>3. Barrier!Create(t)
      BY <2>1, <2>3, <3>1, <3>2 DEF Barrier!Create, TypeOK
    <3> QED
      BY <3>3 DEF Barrier!BNext
  <2> QED
    BY <1>5, <2>2, <2>3 DEF MainCreate
<1>6. CASE MainUnlock
  <2>1. Phase = "creating" /\ Phase' = "waiting" /\ UNCHANGED pc
    BY <1>6 DEF MainUnlock, MainAt, Phase, threadVars
  <2> QED
    BY <2>1 DEF Barrier!BNext, Barrier!Wait
<1>7. CASE MainWait
  <2>1. Phase = "waiting" /\ UNCHANGED pc
    BY <1>7 DEF MainWait, MainAt, Phase, threadVars
  <2>2. CASE running_threads > 0
    BY <1>1, <1>7, <2>1, <2>2 DEF MainWait, Phase
  <2>3. CASE ~(running_threads > 0)
    <3>1. running_threads = 0
      BY <2>3, ThreadsAssumption DEF TypeOK, Counts
    <3>2. Unchecked = {}
      BY <3>1, NoneLeft
    <3>3. {t \in Threads : pc[t] # "none"}
            = {t \in Threads : pc[t] \in {"unlock", "alive", "dead"}}
      BY <3>2 DEF Unchecked, TypeOK
    <3>4. Phase' = "past"
      BY <1>7, <2>3 DEF MainWait, Phase
    <3>5. Barrier!GoOn
      BY <2>1, <3>3, <3>4 DEF Barrier!GoOn
    <3> QED
      BY <3>5 DEF Barrier!BNext
  <2> QED
    BY <2>2, <2>3
<1>8. CASE MainWake
  BY <1>1, <1>8 DEF MainWake, MainAt, Phase, threadVars
<1>9. CASE MainRun
  BY <1>1, <1>9 DEF MainRun, MainAt, Phase, threadVars
<1> QED
  BY <1>2, <1>3, <1>4, <1>5, <1>6, <1>7, <1>8, <1>9 DEF MainNext

(* A step of a thread.                                                      *)
LEMMA ThreadRefines ==
    ASSUME IInv, NEW t \in Threads, ThreadNext(t)
    PROVE  [Barrier!BNext]_(Barrier!bvars)
<1> USE DEF IInv
<1>1. Phase' = Phase
  BY DEF ThreadNext, ThreadLock, ThreadLoad, ThreadStore, ThreadUnlock, ThreadDie,
         mainVars, Phase
<1>2. CASE ThreadStore(t)
  <2>1. pc[t] = "store" /\ pc' = [pc EXCEPT ![t] = "unlock"]
    BY <1>2 DEF ThreadStore, At, Goto
  <2>2. Phase = "waiting"
    BY <2>1 DEF Made, Past, Phase, Unchecked
  <2>3. Barrier!CheckIn(t)
    BY <1>1, <2>1, <2>2 DEF Barrier!CheckIn, TypeOK
  <2> QED
    BY <2>3 DEF Barrier!BNext
<1>3. CASE ThreadLock(t) \/ ThreadLoad(t) \/ ThreadUnlock(t) \/ ThreadDie(t)
  <2>1. /\ pc[t] # "none" /\ pc'[t] # "none"
        /\ pc[t] \in {"unlock", "alive", "dead"} <=> pc'[t] \in {"unlock", "alive", "dead"}
        /\ \A u \in Threads \ {t} : pc'[u] = pc[u]
    BY <1>3 DEF ThreadLock, ThreadLoad, ThreadUnlock, ThreadDie, At, Goto, TypeOK
  <2> QED
    BY <1>1, <2>1 DEF Barrier!bvars
<1> QED
  BY <1>2, <1>3 DEF ThreadNext

(* testApp_ch4.c is a barrier: no thread checks in before all are made, and *)
(* main goes on only when all that were made have checked in.               *)
THEOREM Refinement == Spec => StartsTogether
<1>1. IInv /\ [Next]_vars => [Barrier!BNext]_(Barrier!bvars)
  <2>1. ASSUME UNCHANGED vars PROVE UNCHANGED Barrier!bvars
    BY <2>1 DEF vars, threadVars, mainVars, Barrier!bvars, Phase
  <2> QED
    BY <2>1, MainRefines, ThreadRefines DEF Next
<1> QED
  BY <1>1, BarrierInit, Invariant, PTL DEF Spec, StartsTogether, Barrier!BSpec
=============================================================================

------------------------- MODULE TestAppCh5_proofs -------------------------
(***************************************************************************)
(* What testApp_ch5 promises, for any number of children, any page, and    *)
(* whatever the intruder does.                                             *)
(***************************************************************************)
EXTENDS TestAppCh5, CDDMyPs_proofs

(* Where main is, and that it and the intruder are processes.               *)
Program ==
    /\ state[main] = IF mpc = "gone" THEN "zombie" ELSE "alive"
    /\ state[intruder] = "alive"
    /\ i <= num_threads /\ (mpc = "fork" => i < num_threads)

(* main has not waited for a child yet.                                     *)
Early == mpc \in {"files", "fork", "echo", "pclose", "cat"}

(* The children that are made are the first i; until main waits for them,   *)
(* its list is these, in order, and the shell that there is.                *)
Family ==
    /\ \A k \in 0 .. MaxKids - 1 : k >= i <=> state[KidPid(k)] = "none"
    /\ Early =>
         /\ Len(children[main]) = IF \E s \in Shells : Living(s) THEN i + 1 ELSE i
         /\ \A k \in 1 .. i : children[main][k] = KidPid(k - 1)
         /\ \A s \in Shells : Living(s) => children[main][i + 1] = s

(* The program's children are main's, and only they are; they have none,    *)
(* and when main exits it has none either.                                  *)
Offspring ==
    /\ \A p \in Pids : \A k \in Listed(p) : children[p][k] \in Kids \cup Shells <=> p = main
    /\ \A p \in Kids \cup Shells : children[p] = <<>>
    /\ mpc \in {"exit", "gone"} => children[main] = <<>>

(* There is one shell at a time, echo before cat, while main reads from it; *)
(* a shell in a call is alive, and echo can write when it comes to it.      *)
Commands ==
    /\ \A s \in Shells :
         /\ Living(s) => mpc = "pclose" /\ \A t \in Shells \ {s} : ~Living(t)
         /\ s \in ran => state[s] # "none"
         /\ pc[s] \notin {"idle", "oops"} => state[s] = "alive"
         /\ pc[s] # "idle" => s \in ran
    /\ mpc \in {"files", "fork", "echo"} => state[echo] = "none"
    /\ mpc \in {"files", "fork", "echo", "cat"} \/ Living(echo) => state[cat] = "none"

Writes ==
    echo \notin ran => /\ stored < MaxWrites
                       /\ pc[intruder] \in {"parse", "store"} => stored + 1 < MaxWrites

(* Between its opens and the fork main has files for the next child.        *)
Files == mpc = "fork" => num_open_fds[main] <= num_files(i)

(* A shell that has not ended.                                              *)
Unended(s) == state[s] \in {"none", "alive"}

(* Without the intruder, the shells meet only main and themselves, and a    *)
(* pid that is used is used by cat.                                         *)
Alone ==
    quiet =>
      /\ pc[intruder] = "idle" /\ \A s \in Shells : Unended(s) => s \notin robbed
      /\ Unended(cat) /\ target[cat] # NULL => had[cat] = Len(children[target[cat]])
      /\ testid \in {0, main}
      /\ target[echo] \in {NULL, main} /\ target[cat] \in {NULL, main, cat}
      /\ pc[cat] = "reset" => target[cat] = main
      /\ used > 0 => cat \in ran /\ (pc[cat] = "idle" \/ target[cat] = main)

TestInv == /\ Core /\ TestTypeOK /\ Program /\ Family /\ Offspring /\ Commands /\ Writes
           /\ FilesAreOwn /\ Files /\ Alone

-----------------------------------------------------------------------------
(* The pids.                                                                *)
LEMMA Names ==
    /\ main \in Pids /\ intruder \in Pids /\ echo \in Pids /\ cat \in Pids
    /\ Users = {intruder, echo, cat} /\ Shells = {echo, cat}
    /\ main \notin {1, intruder, echo, cat} /\ main \notin Kids
    /\ intruder \notin {1, echo, cat} /\ intruder \notin Kids
    /\ echo \notin {1, cat} /\ echo \notin Kids /\ cat # 1 /\ cat \notin Kids
    /\ NULL \notin Pids /\ 1 \in Pids /\ Kids \subseteq Pids \ {1}
    /\ Others \subseteq Pids \ ({1, main, intruder} \cup Kids \cup Shells)
    /\ \A k \in 0 .. MaxKids - 1 : KidPid(k) \in Kids
    /\ \A k, l \in 0 .. MaxKids - 1 : KidPid(k) = KidPid(l) => k = l
    /\ \A c \in Kids : \E k \in 0 .. MaxKids - 1 : c = KidPid(k)
<1>1. /\ Pids = 1 .. NumPids /\ NumPids \in Nat /\ NumPids >= MaxKids + 5
      /\ MaxKids \in Nat /\ Users = {intruder} \cup Shells
  BY MyPsAssumption, TestAssumption DEF Pids
<1>2. ASSUME NEW c \in Kids PROVE \E k \in 0 .. MaxKids - 1 : c = KidPid(k)
  <2>1. c - 4 \in 0 .. MaxKids - 1 /\ c = (c - 4) + 4
    BY <1>1, <1>2 DEF Kids
  <2> QED
    BY <2>1 DEF KidPid
<1> QED
  BY <1>1, <1>2 DEF main, intruder, echo, cat, Kids, Shells, Others, KidPid, NULL

(* A child needs fewer files than there are.                                *)
LEMMA FilesNeeded == \A k \in Nat : num_files(k) \in 0 .. MAX_TESTFILES
<1> SUFFICES ASSUME NEW k \in Nat PROVE num_files(k) \in 0 .. MAX_TESTFILES
  OBVIOUS
<1>1. new_prio(k) + 1 \in Nat
  BY DEF new_prio
<1> QED
  BY <1>1 DEF num_files, get_num_files_needed, MAX_TESTFILES

(* A fork of p adds to its list at the end.                                 *)
LEMMA ForkAppends ==
    ASSUME Core, NEW p \in Pids, NEW c \in Pids, Fork(p, c)
    PROVE  /\ Len(children[p]) \in Nat /\ Len(children'[p]) = Len(children[p]) + 1
           /\ \A k \in 1 .. Len(children[p]) : children'[p][k] = children[p][k]
           /\ children'[p][Len(children[p]) + 1] = c
<1>1. children[p] \in Seq(Pids) /\ Len(children[p]) \in Nat
  BY ListFacts DEF Core
<1>2. children'[p] = Append(children[p], c)
  BY DEF Fork, Core, TypeOK
<1> QED
  BY <1>1, <1>2, AppendProperties

(* When the last in a list is waited for, the others stay where they are.   *)
LEMMA ReapOfLast ==
    ASSUME Core, NEW p \in Pids, NEW n \in Nat, Len(children[p]) = n + 1,
           NEW c \in Pids, children[p][n + 1] = c, Reap(c)
    PROVE  /\ Len(children'[p]) = n
           /\ \A k \in 1 .. n : children'[p][k] = children[p][k]
<1>1. children[p] \in Seq(Pids) /\ n + 1 \in 1 .. Len(children[p])
  BY ListFacts DEF Core
<1>2. Parent(c) = p /\ Place(c) = n + 1
  BY <1>1, PlaceOfChild DEF Core, Listed
<1>3. children'[p] = RemoveAt(children[p], n + 1)
  BY <1>2 DEF Reap, Core, TypeOK
<1>4. /\ Len(RemoveAt(children[p], n + 1)) = Len(children[p]) - 1
      /\ \A j \in 1 .. Len(children[p]) - 1 :
           RemoveAt(children[p], n + 1)[j] =
             IF j < n + 1 THEN children[p][j] ELSE children[p][j + 1]
  BY <1>1, RemoveAtProperties
<1>5. Len(children[p]) - 1 = n /\ \A j \in 1 .. n : j < n + 1
  OBVIOUS
<1> QED
  BY <1>3, <1>4, <1>5

-----------------------------------------------------------------------------
(* The program begins. *)

LEMMA TestInitHolds == TestInit => TestInv
<1> SUFFICES ASSUME TestInit PROVE TestInv
  OBVIOUS
<1> USE Names
<1>1. Core
  BY InitHolds DEF TestInit, IInv
<1>2. TypeOK
  BY <1>1 DEF Core
<1>3. /\ mpc = "files" /\ i = 0 /\ num_threads \in 0 .. MaxKids /\ MaxKids \in Nat
      /\ ran = {} /\ num_open_fds = [p \in Pids |-> IF p = main THEN 1 ELSE 0]
      /\ quiet \in BOOLEAN
  BY TestAssumption, Zenon DEF TestInit
<1>4. TestTypeOK
  BY <1>2, <1>3 DEF TestTypeOK, MAX_TESTFILES
<1>5. /\ state[main] = "alive" /\ state[intruder] = "alive"
      /\ \A c \in Kids \cup Shells : state[c] = "none"
      /\ children[main] = <<>>
  <2>1. Len(Started) = 2 /\ Started[1] = main /\ Started[2] = intruder
    BY TestAssumption
  <2>2. \A p \in Pids : p = 1 \/ (\E k \in 1 .. Len(Started) : Started[k] = p)
                        <=> p \in {1, main, intruder}
    BY <2>1
  <2> QED
    BY <2>2 DEF TestInit, Init
<1>6. Program /\ Files
  BY <1>3, <1>5 DEF Program, Files
<1>7. Family
  <2>1. Len(children[main]) = 0 /\ \A s \in Shells : ~Living(s)
    BY <1>5, EmptySeq DEF Living
  <2> QED
    BY <2>1, <1>3, <1>5 DEF Family
<1>8. Offspring
  <2>1. Len(Started) = 2 /\ Started[1] = main /\ Started[2] = intruder
    BY TestAssumption
  <2>2. children[1] = Started /\ \A p \in Pids \ {1} : children[p] = <<>>
    BY DEF TestInit, Init
  <2>3. \A p \in Pids : \A k \in Listed(p) : p = 1 /\ children[p][k] \in {main, intruder}
    BY <2>1, <2>2, EmptySeq DEF Listed
  <2> QED
    BY <1>3, <2>2, <2>3 DEF Offspring
<1>9. Commands /\ Writes
  BY <1>3, <1>5, TestAssumption DEF Commands, Writes, TestInit, Init, Living
<1>10. FilesAreOwn
  BY <1>3, FilesNeeded DEF FilesAreOwn, MAX_TESTFILES
<1>11. Alone
  BY <1>3 DEF Alone, TestInit, Init
<1> QED
  BY <1>1, <1>4, <1>6, <1>7, <1>8, <1>9, <1>10, <1>11 DEF TestInv

-----------------------------------------------------------------------------
(* Commands. *)

(* What a shell in a call is about: then main waits for it.                 *)
LEMMA InCall ==
    ASSUME TestInv, quiet, NEW s \in Shells, Unended(s), target[s] # NULL
    PROVE  /\ state[s] = "alive" /\ mpc = "pclose"
           /\ \A t \in Shells \ {s} : ~Living(t)
           /\ target[s] \in {main, s}
<1>1. s \in Users
  BY Names
<1>2. pc[s] # "idle"
  BY <1>1 DEF TestInv, Core, Fresh
<1>3. state[s] = "alive" /\ Living(s)
  BY <1>2 DEF TestInv, Commands, Unended, Living
<1>4. target[s] \in {main, s}
  BY Names DEF TestInv, Alone
<1> QED
  BY <1>2, <1>3, <1>4 DEF TestInv, Commands

(* A command that goes on leaves the program where it is.                   *)
LEMMA UserKeepsProgram ==
    ASSUME TestInv, NEW v \in Users, state[v] = "alive", UserStep(v),
           ran' \subseteq Shells, ran \subseteq ran', ran' \subseteq ran \cup {v},
           v \in Shells => v \in ran', quiet' \in BOOLEAN,
           UNCHANGED <<mpc, i, num_threads, num_open_fds>>
    PROVE  /\ Core' /\ TestTypeOK' /\ Program' /\ Family' /\ Offspring' /\ Commands'
           /\ FilesAreOwn' /\ Files'
<1>1. UNCHANGED <<state, children>>
  BY UserLeavesTree
<1>2. Core'
  BY UserStepKeepsCore DEF TestInv
<1>3. TestTypeOK'
  BY <1>2 DEF TestInv, TestTypeOK, Core
<1>4. Program' /\ Family' /\ Offspring' /\ FilesAreOwn' /\ Files'
  BY <1>1 DEF TestInv, Program, Family, Offspring, Early, FilesAreOwn, Files,
       Living, Listed
<1>5. Commands'
  <2>1. \A s \in Shells \ {v} : pc'[s] = pc[s]
    BY OthersStay, Names DEF TestInv, Core
  <2>2. ASSUME NEW s \in Shells
        PROVE  /\ s \in ran' => state[s] # "none"
               /\ pc'[s] \notin {"idle", "oops"} => state[s] = "alive"
               /\ pc'[s] # "idle" => s \in ran'
    BY <2>1, Names DEF TestInv, Commands
  <2> QED
    BY <1>1, <2>2 DEF TestInv, Commands, Living
<1> QED
  BY <1>2, <1>3, <1>4, <1>5

(* echo writes the pid of main, and no other.                               *)
LEMMA EchoKeeps ==
    ASSUME TestInv, UNCHANGED quiet, UNCHANGED <<mpc, i, num_threads, num_open_fds>>,
           \/ /\ state[echo] = "alive" /\ echo \notin ran
              /\ ran' = ran \cup {echo} /\ WriteLock(echo)
           \/ (WriteFind(echo, main) \/ WriteStore(echo)) /\ UNCHANGED ran
    PROVE  TestInv'
<1> USE Names
<1>1. UserStep(echo) /\ state[echo] = "alive" /\ echo \in ran' /\ ran' = ran \cup {echo}
  <2>1. CASE state[echo] = "alive" /\ echo \notin ran /\ ran' = ran \cup {echo} /\ WriteLock(echo)
    BY <2>1 DEF UserStep, TestInv, Writes
  <2>2. CASE (WriteFind(echo, main) \/ WriteStore(echo)) /\ UNCHANGED ran
    <3>1. pc[echo] \in {"parse", "store"}
      BY <2>2 DEF WriteFind, WriteFindIf, WriteStore, At
    <3>2. state[echo] = "alive" /\ echo \in ran
      BY <3>1 DEF TestInv, Commands
    <3>3. UserStep(echo)
      BY <2>2 DEF UserStep, ct_write
    <3> QED
      BY <2>2, <3>2, <3>3
  <2> QED
    BY <2>1, <2>2
<1>2. /\ Core' /\ TestTypeOK' /\ Program' /\ Family' /\ Offspring' /\ Commands'
      /\ FilesAreOwn' /\ Files'
  BY <1>1, UserKeepsProgram DEF TestInv, TestTypeOK
<1>3. Writes'
  BY <1>1 DEF Writes
<1>4. Alone'
  <2>1. SUFFICES ASSUME quiet PROVE Alone'
    BY DEF Alone
  <2>2. /\ pc'[intruder] = pc[intruder] /\ pc'[cat] = pc[cat] /\ target'[cat] = target[cat]
        /\ had'[cat] = had[cat] /\ (cat \in robbed' <=> cat \in robbed)
        /\ UNCHANGED <<state, children>>
    BY <1>1, OthersStay, UserLeavesTree DEF TestInv, Core
  <2>3. target \in [Users -> Pids \cup {NULL}] /\ echo \notin robbed'
    <3>1. echo \notin robbed
      BY <2>1, <1>1 DEF TestInv, Alone, Unended
    <3> QED
      BY <3>1, <1>1 DEF TestInv, Core, TypeOK, WriteLock, Calm, WriteFind,
         WriteFindIf, WriteStore, vars
  <2>4. CASE WriteLock(echo)
    BY <2>1, <2>2, <2>3, <2>4, <1>1 DEF TestInv, Alone, Unended, WriteLock, vars,
         userVars
  <2>5. CASE WriteFind(echo, main)
    BY <2>1, <2>2, <2>3, <2>5, <1>1 DEF TestInv, Alone, Unended, WriteFind, WriteFindIf
  <2>6. CASE WriteStore(echo)
    <3>1. target[echo] = main /\ state[target[echo]] # "gone"
      BY <2>1, <2>6 DEF TestInv, Core, Known, Program, Alone, WriteStore, At
    <3> QED
      BY <2>1, <2>2, <2>3, <2>6, <3>1, <1>1 DEF TestInv, Alone, Unended, WriteStore
  <2> QED
    BY <2>4, <2>5, <2>6
<1> QED
  BY <1>2, <1>3, <1>4 DEF TestInv

(* What cat does to the pid and to what it reads.                           *)
LEMMA CatStep ==
    ASSUME TypeOK, StartLock(cat) \/ seq_read(cat) \/ Lost(cat)
    PROVE  /\ stored' = stored
           /\ \/ StartLock(cat) \/ StartPick(cat) \/ StartReset(cat) \/ ReadEnd(cat)
              \/ /\ pc[cat] # "idle" /\ pc'[cat] # "reset"
                 /\ UNCHANGED <<testid, target, had, robbed, used>>
<1>1. cat \in Users /\ pc' = [pc EXCEPT ![cat] = pc'[cat]]
  <2>1. cat \in Users
    BY Names
  <2> QED
    BY <2>1 DEF StartLock, seq_read, ct_seq_start, StartPick, StartReset,
         StartList, StartCount,
       StartFirst, StartAgain, Show, ShowFiles, PrintLine, SeqNext, SeqStop, ReadEnd, Lost, Walk, Goto, TypeOK
<1> QED
  BY <1>1 DEF StartLock, seq_read, ct_seq_start, StartPick, StartReset, StartList,
       StartCount,
     StartFirst, StartAgain, Show, ShowFiles, PrintLine, SeqNext, SeqStop, ReadEnd, Lost, Walk, Goto, At, TypeOK

(* cat reads the list of main, if it is that what echo wrote, or its own.   *)
LEMMA CatKeeps ==
    ASSUME TestInv, UNCHANGED quiet, UNCHANGED <<mpc, i, num_threads, num_open_fds>>,
           \/ state[cat] = "alive" /\ cat \notin ran /\ ran' = ran \cup {cat} /\ StartLock(cat)
           \/ (seq_read(cat) \/ Lost(cat)) /\ UNCHANGED ran
    PROVE  TestInv'
<1> USE Names
<1>1. /\ UserStep(cat) /\ state[cat] = "alive" /\ cat \in ran' /\ ran' = ran \cup {cat}
      /\ pc[cat] = "idle" => cat \notin ran
  <2>1. CASE state[cat] = "alive" /\ cat \notin ran /\ ran' = ran \cup {cat} /\ StartLock(cat)
    BY <2>1 DEF UserStep
  <2>2. CASE (seq_read(cat) \/ Lost(cat)) /\ UNCHANGED ran
    <3>1. pc[cat] \notin {"idle", "oops"}
      BY <2>2 DEF seq_read, ct_seq_start, StartPick, StartReset, StartList, StartCount,
         StartFirst, StartAgain, Show, ShowFiles, PrintLine, SeqNext, SeqStop, ReadEnd, Lost, At
    <3>2. state[cat] = "alive" /\ cat \in ran
      BY <3>1 DEF TestInv, Commands
    <3> QED
      BY <2>2, <3>1, <3>2 DEF UserStep
  <2> QED
    BY <2>1, <2>2
<1>2. /\ Core' /\ TestTypeOK' /\ Program' /\ Family' /\ Offspring' /\ Commands'
      /\ FilesAreOwn' /\ Files'
  BY <1>1, UserKeepsProgram DEF TestInv, TestTypeOK
<1>3. /\ stored' = stored
      /\ \/ StartLock(cat) \/ StartPick(cat) \/ StartReset(cat) \/ ReadEnd(cat)
         \/ /\ pc[cat] # "idle" /\ pc'[cat] # "reset"
            /\ UNCHANGED <<testid, target, had, robbed, used>>
  BY CatStep DEF TestInv, Core
<1>4. /\ pc'[intruder] = pc[intruder] /\ target'[echo] = target[echo]
      /\ echo \in robbed' <=> echo \in robbed
      /\ UNCHANGED <<state, children>>
  BY <1>1, OthersStay, UserLeavesTree DEF TestInv, Core
<1>5. Writes'
  BY <1>1, <1>3, <1>4 DEF TestInv, Writes
<1>6. Alone'
  <2>1. SUFFICES ASSUME quiet PROVE Alone'
    BY DEF Alone
  <2>2. /\ target \in [Users -> Pids \cup {NULL}] /\ had \in [Users -> Nat]
        /\ pc \in [Users -> {"idle", "parse", "store", "pick", "reset", "list", "count",
                     "first", "show", "files", "next", "stop", "again", "end", "lost",
                     "oops"}]
        /\ testid \in {0, main} /\ used \in Nat
    BY <2>1 DEF TestInv, Core, TypeOK, Alone
  <2>3. CASE StartLock(cat)
    <3>1. cat \notin ran /\ ~(used > 0)
      BY <2>1, <2>3, <1>1 DEF TestInv, Alone, StartLock, At
    <3>2. \A s \in Shells : Unended(s) => s \notin robbed'
      BY <2>1, <2>3 DEF TestInv, Alone, Unended, StartLock, Calm
    <3>3. target'[cat] \in {NULL, main, cat} /\ pc'[cat] # "reset"
      BY <2>1, <2>2, <2>3 DEF TestInv, Alone, StartLock, Goto
    <3>4. target'[cat] # NULL => had'[cat] = Len(children[target'[cat]])
      <4>1. target[cat] = NULL
        BY <2>3 DEF TestInv, Core, Fresh, StartLock, At
      <4> QED
        BY <2>2, <2>3, <4>1 DEF StartLock, Has
    <3> QED
      BY <2>1, <2>3, <1>1, <1>4, <3>1, <3>2, <3>3, <3>4 DEF TestInv, Alone,
           Unended, StartLock
  <2>4. CASE StartPick(cat)
    <3>1. ~(used > 0)
      BY <2>1, <2>4 DEF TestInv, Alone, Core, Fresh, StartPick, At
    <3>2. testid # 0 => Exists(testid) /\ state[testid] # "gone"
      BY <2>2 DEF Exists, TestInv, Program, NULL
    <3>3. /\ target'[cat] \in {main, cat} /\ (pc'[cat] = "reset" => target'[cat] = main)
          /\ robbed' = robbed
      BY <2>2, <2>4, <3>2 DEF StartPick, Goto
    <3>4. had'[cat] = Len(children[target'[cat]])
      BY <2>2, <2>4, <3>2 DEF StartPick, Has
    <3> QED
      BY <2>1, <2>4, <1>1, <1>4, <3>1, <3>3, <3>4 DEF TestInv, Alone, Unended, StartPick
  <2>5. CASE StartReset(cat)
    BY <2>1, <2>2, <2>5, <1>1, <1>4 DEF TestInv, Alone, Unended, StartReset, At, Goto
  <2>6. CASE ReadEnd(cat)
    <3>1. pc'[cat] = "idle" /\ target'[cat] = NULL
      BY <2>2, <2>6 DEF ReadEnd, Goto
    <3> QED
      BY <2>1, <2>6, <1>1, <1>4, <3>1 DEF TestInv, Alone, Unended, ReadEnd
  <2>7. CASE pc[cat] # "idle" /\ pc'[cat] # "reset" /\ UNCHANGED <<testid, target, had, robbed, used>>
    BY <2>1, <2>7, <1>1, <1>4 DEF TestInv, Alone, Unended
  <2> QED
    BY <1>3, <2>3, <2>4, <2>5, <2>6, <2>7
<1> QED
  BY <1>2, <1>5, <1>6 DEF TestInv

(* The intruder may do anything but write once more than echo can bear.     *)
LEMMA IntruderKeeps == TestInv /\ Intruder => TestInv'
<1> SUFFICES ASSUME TestInv, Intruder PROVE TestInv'
  OBVIOUS
<1> USE Names
<1>1. /\ ~quiet' /\ quiet' \in BOOLEAN
      /\ UNCHANGED <<mpc, i, num_threads, num_open_fds, ran>>
  BY DEF Intruder, progVars
<1>2. /\ stored \in Nat /\ MaxWrites \in Nat /\ stored <= MaxWrites
      /\ pc \in [Users -> {"idle", "parse", "store", "pick", "reset", "list", "count",
                   "first", "show", "files", "next", "stop", "again", "end", "lost",
                     "oops"}]
  BY MyPsAssumption DEF TestInv, Core, TypeOK
<1>3. UserStep(intruder)
  BY <1>2 DEF Intruder, UserStep
<1>4. ran \subseteq Shells
  BY DEF TestInv, TestTypeOK
<1>5. /\ Core' /\ TestTypeOK' /\ Program' /\ Family' /\ Offspring' /\ Commands'
      /\ FilesAreOwn' /\ Files'
  <2>1. state[intruder] = "alive"
    BY DEF TestInv, Program
  <2> QED
    BY <1>1, <1>3, <1>4, <2>1, UserKeepsProgram
<1>6. Writes'
  <2>1. SUFFICES ASSUME echo \notin ran
                 PROVE  /\ stored' < MaxWrites
                        /\ pc'[intruder] \in {"parse", "store"} => stored' + 1 < MaxWrites
    BY <1>1 DEF Writes
  <2>2. /\ stored < MaxWrites
        /\ pc[intruder] \in {"parse", "store"} => stored + 1 < MaxWrites
    BY <2>1 DEF TestInv, Writes
  <2>3. CASE stored + 1 < MaxWrites /\ WriteLock(intruder)
    BY <2>2, <2>3, <1>2 DEF WriteLock, vars
  <2>4. CASE ct_write(intruder)
    <3>1. CASE WriteRefuse(intruder)
      BY <2>2, <3>1, <1>2 DEF WriteRefuse, Goto
    <3>2. CASE WriteStore(intruder)
      BY <2>2, <3>2, <1>2 DEF WriteStore, Goto, At
    <3>3. CASE \E p \in Pids : WriteFind(intruder, p)
      BY <2>2, <3>3, <1>2 DEF WriteFind, WriteFindIf, At
    <3> QED
      BY <2>4, <3>1, <3>2, <3>3 DEF ct_write
  <2>5. CASE StartLock(intruder) \/ seq_read(intruder) \/ Lost(intruder)
    <3>1. stored' = stored /\ pc'[intruder] \notin {"parse", "store"}
      BY <2>5, <1>2 DEF StartLock, seq_read, ct_seq_start, StartPick, StartReset,
           StartList,
         StartCount, StartFirst, StartAgain, Show, ShowFiles, PrintLine, SeqNext, SeqStop, ReadEnd, Lost, Walk, Goto, At
    <3> QED
      BY <2>2, <3>1
  <2> QED
    BY <2>3, <2>4, <2>5 DEF Intruder
<1>7. Alone'
  BY <1>1 DEF Alone
<1> QED
  BY <1>5, <1>6, <1>7 DEF TestInv

-----------------------------------------------------------------------------
(* Processes that are made, end and are waited for. *)

(* Whom main has made and not waited for is in its list.                    *)
LEMMA OnlyMainHas ==
    ASSUME Core, Offspring, NEW c \in Kids \cup Shells, Living(c)
    PROVE  children[main] # <<>> /\ Parent(c) = main
<1> USE Names
<1>1. PICK p \in Pids : \E k \in Listed(p) : children[p][k] = c
  BY IsListed DEF Core
<1>2. PICK k \in Listed(p) : children[p][k] = c
  BY <1>1
<1>3. Parent(c) = p
  BY <1>2, PlaceOfChild DEF Core
<1>4. children[p] # <<>>
  BY <1>2, ListFacts DEF Core, Listed
<1>5. p = main
  BY <1>2 DEF Offspring
<1> QED
  BY <1>3, <1>4, <1>5

(* What a fork, an exit and a wait do to the processes.                     *)
LEMMA TreeFacts ==
    ASSUME Core, NEW p \in Pids, NEW q \in Pids
    PROVE  /\ \A c \in Pids : Fork(p, c) =>
                state[c] = "none" /\ state'[q] = IF q = c THEN "alive" ELSE state[q]
           /\ Exit(p) => /\ state[p] = "alive" /\ state'[q] = IF q = p THEN "zombie" ELSE state[q]
                         /\ q \notin {1, p} => children'[q] = children[q]
           /\ Reap(p) => state[p] = "zombie" /\ state'[q] = IF q = p THEN "gone" ELSE state[q]
<1>1. state \in [Pids -> {"none", "alive", "zombie", "gone"}] /\ children \in [Pids -> Seq(Pids)]
  BY DEF Core, TypeOK
<1> QED
  BY <1>1 DEF Fork, Exit, Reap

(* What main makes or waits for is in its own list.                         *)
LEMMA TreeKeepsOffspring ==
    ASSUME TestInv, NEW c \in Kids \cup Shells, Fork(main, c) \/ Reap(c),
           mpc \notin {"exit", "gone"}, mpc' \notin {"exit", "gone"}
    PROVE  Offspring'
<1> USE Names
<1>1. c \in Pids /\ c # 1 /\ children \in [Pids -> Seq(Pids)]
  BY DEF TestInv, Core, TypeOK
<1>2. Reap(c) => Parent(c) = main
  <2>1. Reap(c) => Living(c)
    BY DEF Reap, Living
  <2> QED
    BY <2>1, OnlyMainHas DEF TestInv
<1>3. \A p \in Pids \ {main} : children'[p] = children[p]
  BY <1>1, <1>2 DEF Fork, Reap
<1>4. \A k \in Listed(main)' : children'[main][k] \in Kids \cup Shells
  <2>1. CASE Fork(main, c)
    <3>1. ASSUME NEW k \in Listed(main)'
          PROVE  \/ children'[main][k] = c
                 \/ k \in Listed(main) /\ children'[main][k] = children[main][k]
      <4>1. /\ Len(children[main]) \in Nat /\ Len(children'[main]) = Len(children[main]) + 1
            /\ \A l \in 1 .. Len(children[main]) : children'[main][l] = children[main][l]
            /\ children'[main][Len(children[main]) + 1] = c
        BY <1>1, <2>1, ForkAppends DEF TestInv
      <4> QED
        BY <4>1 DEF Listed
    <3> QED
      BY <3>1 DEF TestInv, Offspring
  <2>2. CASE Reap(c)
    <3>1. Living(c)
      BY <2>2 DEF Reap, Living
    <3>2. PICK p \in Pids : \E k \in Listed(p) : children[p][k] = c
      BY <1>1, <3>1, IsListed DEF TestInv, Core
    <3>3. PICK n \in Listed(p) : children[p][n] = c
      BY <3>2
    <3>4. p = main /\ Place(c) = n
      BY <3>3, PlaceOfChild DEF TestInv, Core, Offspring
    <3>5. children'[main] = RemoveAt(children[main], n)
      BY <2>2, <1>1, <1>2, <3>4 DEF Reap
    <3>6. ASSUME NEW k \in Listed(main)'
          PROVE  \E l \in Listed(main) : children'[main][k] = children[main][l]
      <4>1. /\ Len(children[main]) \in Nat /\ n \in 1 .. Len(children[main])
            /\ Len(RemoveAt(children[main], n)) = Len(children[main]) - 1
            /\ \A l \in 1 .. Len(children[main]) - 1 :
                 RemoveAt(children[main], n)[l] =
                   IF l < n THEN children[main][l] ELSE children[main][l + 1]
        BY <1>1, <3>3, <3>4, RemoveAtProperties, ListFacts DEF TestInv, Core, Listed
      <4>2. k \in 1 .. Len(children[main]) - 1 /\ k \in Listed(main) /\ k + 1 \in Listed(main)
        BY <4>1, <3>5 DEF Listed
      <4> QED
        BY <4>1, <4>2, <3>5
    <3> QED
      BY <3>6 DEF TestInv, Offspring
  <2> QED
    BY <2>1, <2>2
<1> QED
  BY <1>3, <1>4 DEF TestInv, Offspring, Listed

(* Nothing changes what the shells are about.                               *)
LEMMA TreeKeepsAlone ==
    ASSUME TestInv, Rob, UNCHANGED <<testid, pc, target, used, quiet, ran>>,
           \A s \in Shells : Unended(s)' => Unended(s),
           quiet => \A s \in Shells : Unended(s)' /\ target[s] # NULL =>
                      children'[target[s]] = children[target[s]] /\ state'[target[s]] # "gone"
    PROVE  Alone'
<1> SUFFICES ASSUME quiet PROVE Alone'
  BY DEF Alone
<1>1. ASSUME NEW s \in Shells, Unended(s)'
      PROVE  s \notin robbed' /\ had'[s] = had[s]
  <2>1. s \in Users /\ s \notin robbed
    BY <1>1, Names DEF TestInv, Alone
  <2>2. target[s] # NULL => Kept(target[s]) /\ state'[target[s]] # "gone"
    <3>1. target[s] # NULL => target[s] \in Pids
      BY <2>1 DEF TestInv, Core, TypeOK
    <3>2. target[s] # NULL => Len(children[target[s]]) \in Nat
      BY <3>1, ListFacts DEF TestInv, Core
    <3> QED
      BY <1>1, <3>2 DEF Kept
  <2> QED
    BY <2>1, <2>2 DEF Rob, Robbed
<1>2. Unended(cat)' /\ target[cat] # NULL => had'[cat] = Len(children'[target[cat]])
  BY <1>1, Names DEF TestInv, Alone
<1> QED
  BY <1>1, <1>2, Names DEF TestInv, Alone

(* main makes processes and waits for them when no shell is in a call.      *)
LEMMA MainKeepsAlone ==
    ASSUME TestInv, Rob, UNCHANGED <<testid, pc, target, used, quiet, ran>>,
           \A s \in Shells : Unended(s)' => Unended(s),
           mpc # "pclose" \/ \E t \in Shells : state[t] = "zombie"
    PROVE  Alone'
<1>1. ASSUME quiet, NEW s \in Shells, Unended(s), target[s] # NULL PROVE FALSE
  <2>1. mpc = "pclose" /\ state[s] = "alive" /\ \A t \in Shells \ {s} : ~Living(t)
    BY <1>1, InCall
  <2> QED
    BY <2>1 DEF Living
<1> QED
  BY <1>1, TreeKeepsAlone

(* What concerns no process.                                                *)
LEMMA MainFilesKeeps == TestInv /\ MainFiles /\ UNCHANGED quiet => TestInv'
<1> SUFFICES ASSUME TestInv, MainFiles, UNCHANGED quiet PROVE TestInv'
  OBVIOUS
<1> USE Names
<1>1. /\ mpc = "files" /\ UNCHANGED <<vars, i, num_threads, ran, quiet>>
      /\ \/ /\ i < num_threads /\ mpc' = "fork"
            /\ \E opened \in 0 .. num_files(i) :
                 num_open_fds' = [num_open_fds EXCEPT ![main] = opened]
         \/ /\ mpc' = "echo" /\ num_open_fds' = [num_open_fds EXCEPT ![main] = 0]
  <2>1. num_files(i) \in 0 .. MAX_TESTFILES
    BY FilesNeeded DEF TestInv, TestTypeOK
  <2>2. \A n \in 0 .. num_files(i) : 0 + n = n
    BY <2>1 DEF MAX_TESTFILES
  <2> QED
    BY <2>2 DEF MainFiles, Reopen, MainAt
<1>2. UNCHANGED <<state, children, testid, pc, target, had, robbed, stored, used>>
  BY <1>1 DEF vars, treeVars, userVars
<1>3. Core'
  BY <1>1, StutterKeepsCore DEF TestInv
<1>4. num_open_fds' \in [Pids -> 0 .. MAX_TESTFILES]
  <2>1. num_files(i) \in 0 .. MAX_TESTFILES
    BY FilesNeeded DEF TestInv, TestTypeOK
  <2>2. \A n \in 0 .. num_files(i) : n \in 0 .. MAX_TESTFILES
    BY <2>1 DEF MAX_TESTFILES
  <2> QED
    BY <1>1, <2>2 DEF TestInv, TestTypeOK, MAX_TESTFILES
<1>5. TestTypeOK'
  BY <1>1, <1>3, <1>4 DEF TestInv, TestTypeOK, Core
<1>6. Program' /\ Commands' /\ Writes' /\ Alone'
  BY <1>1, <1>2 DEF TestInv, Program, Commands, Writes, Alone, Unended, Living
<1>7. Family' /\ Offspring'
  BY <1>1, <1>2 DEF TestInv, Family, Offspring, Early, Living, Listed
<1>8. FilesAreOwn' /\ Files'
  <2>1. num_files(i) \in Nat
    BY FilesNeeded DEF TestInv, TestTypeOK, MAX_TESTFILES
  <2> QED
    BY <1>1, <2>1 DEF TestInv, TestTypeOK, FilesAreOwn, Files
<1> QED
  BY <1>3, <1>5, <1>6, <1>7, <1>8 DEF TestInv

(* A child that is made is the next in the list.                            *)
LEMMA MainForkKeeps == TestInv /\ MainFork /\ UNCHANGED quiet => TestInv'
<1> SUFFICES ASSUME TestInv, MainFork, UNCHANGED quiet PROVE TestInv'
  OBVIOUS
<1> USE Names
<1>1. /\ mpc = "fork" /\ i < num_threads /\ num_threads \in 0 .. MaxKids /\ i \in 0 .. MaxKids
      /\ state[main] = "alive" /\ num_open_fds[main] <= num_files(i)
      /\ num_open_fds \in [Pids -> 0 .. MAX_TESTFILES] /\ MaxKids \in Nat
      /\ UNCHANGED <<testid, mtx, userVars, stored, used, ran>>
      /\ UNCHANGED <<pc, target>>
  BY TestAssumption DEF TestInv, TestTypeOK, Program, Files, MainFork, MainAt, userVars
<1>2. \A s \in Shells : ~Living(s)
  BY <1>1 DEF TestInv, Commands
<1>3. CASE /\ Fork(main, KidPid(i)) /\ i' = i + 1 /\ mpc' = "files" /\ UNCHANGED num_threads
           /\ num_open_fds' = [num_open_fds EXCEPT ![KidPid(i)] = num_open_fds[main]]
  <2>1. i \in 0 .. MaxKids - 1 /\ KidPid(i) \in Kids
    BY <1>1
  <2>2. Core'
    BY <1>1, <1>3, <2>1, TreeStepKeepsCore DEF TestInv
  <2>3. \A q \in Pids : state'[q] = IF q = KidPid(i) THEN "alive" ELSE state[q]
    BY <1>3, <2>1, TreeFacts DEF TestInv
  <2>4. TestTypeOK'
    BY <1>1, <1>3, <2>1, <2>2 DEF TestInv, TestTypeOK, Core
  <2>5. Program' /\ Files'
    BY <1>1, <1>3, <2>1, <2>3 DEF TestInv, Program, Files
  <2>6. \A s \in Shells : ~Living(s)' /\ state'[s] = state[s]
    BY <1>2, <2>1, <2>3 DEF Living
  <2>7. Family'
    <3>1. /\ Len(children'[main]) = i + 1
          /\ \A k \in 1 .. i : children'[main][k] = KidPid(k - 1)
          /\ children'[main][i + 1] = KidPid(i)
      BY <1>1, <1>2, <1>3, <2>1, ForkAppends DEF TestInv, Family, Early
    <3>2. ASSUME NEW k \in 1 .. i + 1 PROVE children'[main][k] = KidPid(k - 1)
      <4>1. k \in 1 .. i \/ (k = i + 1 /\ k - 1 = i)
        BY <1>1
      <4> QED
        BY <3>1, <4>1
    <3>3. \A k \in 0 .. MaxKids - 1 : k >= i + 1 <=> state'[KidPid(k)] = "none"
      <4>1. \A k \in 0 .. MaxKids - 1 : k >= i <=> state[KidPid(k)] = "none"
        BY DEF TestInv, Family
      <4>2. \A k \in 0 .. MaxKids - 1 :
              /\ KidPid(k) \in Pids /\ (KidPid(k) = KidPid(i) => k = i)
              /\ state'[KidPid(k)] = IF KidPid(k) = KidPid(i) THEN "alive" ELSE state[KidPid(k)]
        BY <2>1, <2>3
      <4> QED
        BY <1>1, <4>1, <4>2
    <3> QED
      BY <1>3, <2>6, <3>1, <3>2, <3>3 DEF Family
  <2>8. Commands' /\ Writes'
    BY <1>1, <1>3, <2>6 DEF TestInv, Commands, Writes
  <2>9. FilesAreOwn'
    BY <1>1, <1>3, <2>1 DEF TestInv, FilesAreOwn
  <2>10. Alone'
    BY <1>1, <1>3, <2>6, MainKeepsAlone DEF Fork, Unended
  <2>11. Offspring'
    BY <1>1, <1>3, <2>1, TreeKeepsOffspring
  <2> QED
    BY <2>2, <2>4, <2>5, <2>7, <2>8, <2>9, <2>10, <2>11 DEF TestInv
<1>4. CASE /\ num_threads' = i /\ mpc' = "echo" /\ UNCHANGED <<treeVars, had, robbed, i>>
           /\ num_open_fds' = [num_open_fds EXCEPT ![main] = 0]
  <2>1. UNCHANGED vars /\ UNCHANGED <<state, children, had, robbed>>
    BY <1>1, <1>4 DEF vars, treeVars
  <2>2. Core'
    BY <2>1, StutterKeepsCore DEF TestInv
  <2>3. TestTypeOK'
    BY <1>1, <1>4, <2>2 DEF TestInv, TestTypeOK, Core, MAX_TESTFILES
  <2>4. Program' /\ Commands' /\ Writes' /\ Alone'
    BY <1>1, <1>4, <2>1 DEF TestInv, Program, Commands, Writes, Alone, Unended, Living
  <2>5. Family' /\ Offspring'
    BY <1>1, <1>4, <2>1 DEF TestInv, Family, Offspring, Early, Living, Listed
  <2>6. FilesAreOwn' /\ Files'
    BY <1>1, <1>4 DEF TestInv, FilesAreOwn, Files
  <2> QED
    BY <2>2, <2>3, <2>4, <2>5, <2>6 DEF TestInv
<1> QED
  BY <1>3, <1>4 DEF MainFork

(* One of the two times main runs a command.                                *)
TheCommands(shell, label, next) ==
    \/ shell = echo /\ label = "echo" /\ next = "cat"
    \/ shell = cat /\ label = "cat" /\ next = "wait"

(* A shell is made at the end of the list.                                  *)
LEMMA PopenKeeps ==
    ASSUME TestInv, NEW shell, NEW label, NEW next, TheCommands(shell, label, next),
           mpc = label, Popen(shell), mpc' = "pclose",
           UNCHANGED <<i, num_threads, num_open_fds, ran, quiet>>
    PROVE  TestInv'
<1> USE Names
<1>1. /\ shell \in Shells /\ mpc \in {"echo", "cat"} /\ Fork(main, shell) /\ state[main] = "alive"
      /\ i \in 0 .. MaxKids /\ num_threads \in 0 .. MaxKids /\ MaxKids \in Nat
      /\ UNCHANGED <<testid, mtx, userVars, stored, used>> /\ UNCHANGED <<pc, target>>
  BY TestAssumption DEF TheCommands, Popen, TestInv, TestTypeOK, Program, userVars
<1>2. \A s \in Shells : ~Living(s)
  BY <1>1 DEF TestInv, Commands
<1>3. Core'
  BY <1>1, TreeStepKeepsCore DEF TestInv
<1>4. \A q \in Pids : state'[q] = IF q = shell THEN "alive" ELSE state[q]
  BY <1>1, TreeFacts DEF TestInv
<1>5. TestTypeOK'
  BY <1>3 DEF TestInv, TestTypeOK, Core
<1>6. Program' /\ Files' /\ FilesAreOwn' /\ Writes'
  BY <1>1, <1>4 DEF TestInv, Program, Files, FilesAreOwn, Writes
<1>7. Living(shell)' /\ \A s \in Shells \ {shell} : ~Living(s)' /\ state'[s] = state[s]
  BY <1>1, <1>2, <1>4 DEF Living
<1>8. Family'
  <2>1. /\ Len(children'[main]) = i + 1
        /\ \A k \in 1 .. i : children'[main][k] = KidPid(k - 1)
        /\ children'[main][i + 1] = shell
    <3>1. /\ Len(children[main]) = i
          /\ \A k \in 1 .. i : children[main][k] = KidPid(k - 1)
      BY <1>1, <1>2 DEF TestInv, Family, Early
    <3>2. /\ Len(children'[main]) = Len(children[main]) + 1
          /\ \A k \in 1 .. Len(children[main]) : children'[main][k] = children[main][k]
          /\ children'[main][Len(children[main]) + 1] = shell
      BY <1>1, ForkAppends DEF TestInv
    <3> QED
      BY <3>1, <3>2
  <2>2. \A k \in 0 .. MaxKids - 1 : k >= i <=> state'[KidPid(k)] = "none"
    BY <1>1, <1>4 DEF TestInv, Family
  <2>3. \E s \in Shells : Living(s)'
    BY <1>1, <1>7
  <2> QED
    BY <1>1, <1>7, <2>1, <2>2, <2>3 DEF Family
<1>9. Commands'
  <2>1. ASSUME NEW s \in Shells
        PROVE  /\ Living(s)' => \A t \in Shells \ {s} : ~Living(t)'
               /\ s \in ran => state'[s] # "none"
               /\ pc[s] \notin {"idle", "oops"} => state'[s] = "alive"
               /\ pc[s] # "idle" => s \in ran
    BY <1>1, <1>4, <1>7 DEF TestInv, Commands
  <2>2. Living(echo)' => state'[cat] = "none"
    BY <1>7, <1>4 DEF TestInv, Commands, TheCommands
  <2> QED
    BY <1>1, <2>1, <2>2 DEF Commands
<1>10. Alone'
  <2>1. \A s \in Shells : Unended(s)' => Unended(s)
    BY <1>1, <1>4 DEF Fork, Unended
  <2> QED
    BY <1>1, <2>1, MainKeepsAlone DEF Fork
<1>11. Offspring'
  BY <1>1, TreeKeepsOffspring
<1> QED
  BY <1>3, <1>5, <1>6, <1>8, <1>9, <1>10, <1>11 DEF TestInv

(* The shell that main waits for is the last in its list.                   *)
LEMMA PcloseKeeps ==
    ASSUME TestInv, NEW shell, NEW label, NEW next, TheCommands(shell, label, next),
           mpc = "pclose", Pclose(shell), mpc' = next,
           UNCHANGED <<i, num_threads, num_open_fds, ran, quiet>>
    PROVE  TestInv'
<1> USE Names
<1>1. /\ shell \in Shells /\ next \in {"cat", "wait"} /\ Reap(shell) /\ state[main] = "alive"
      /\ i \in 0 .. MaxKids /\ num_threads \in 0 .. MaxKids /\ MaxKids \in Nat
      /\ UNCHANGED <<testid, mtx, userVars, stored, used>> /\ UNCHANGED <<pc, target>>
  BY TestAssumption DEF TheCommands, Pclose, TestInv, TestTypeOK, Program, userVars
<1>2. state[shell] = "zombie" /\ \A q \in Pids : state'[q] = IF q = shell THEN "gone" ELSE state[q]
  BY <1>1, TreeFacts DEF TestInv
<1>3. Living(shell) /\ \A s \in Shells \ {shell} : ~Living(s)
  BY <1>1, <1>2 DEF TestInv, Commands, Living
<1>4. Core'
  BY <1>1, TreeStepKeepsCore DEF TestInv
<1>5. TestTypeOK'
  BY <1>1, <1>4 DEF TestInv, TestTypeOK, Core
<1>6. Program' /\ Files' /\ FilesAreOwn' /\ Writes'
  BY <1>1, <1>2 DEF TestInv, Program, Files, FilesAreOwn, Writes
<1>7. \A s \in Shells : ~Living(s)'
  BY <1>1, <1>2, <1>3 DEF Living
<1>8. Family'
  <2>1. /\ Len(children[main]) = i + 1 /\ children[main][i + 1] = shell
        /\ \A k \in 1 .. i : children[main][k] = KidPid(k - 1)
    BY <1>1, <1>3 DEF TestInv, Family, Early
  <2>2. /\ Len(children'[main]) = i
        /\ \A k \in 1 .. i : children'[main][k] = children[main][k]
    <3>1. Core /\ i \in Nat /\ shell \in Pids
      BY <1>1 DEF TestInv
    <3> QED
      BY <1>1, <2>1, <3>1, ReapOfLast
  <2>3. \A k \in 0 .. MaxKids - 1 : k >= i <=> state'[KidPid(k)] = "none"
    BY <1>1, <1>2 DEF TestInv, Family
  <2> QED
    BY <1>1, <1>7, <2>1, <2>2, <2>3 DEF Family
<1>9. Commands'
  <2>1. ASSUME NEW s \in Shells
        PROVE  /\ s \in ran => state'[s] # "none"
               /\ pc[s] \notin {"idle", "oops"} => state'[s] = "alive"
               /\ pc[s] # "idle" => s \in ran
    BY <1>1, <1>2 DEF TestInv, Commands
  <2>2. next = "cat" => state'[cat] = "none"
    BY <1>2, <1>3 DEF TestInv, Commands, TheCommands
  <2> QED
    BY <1>1, <1>7, <2>1, <2>2 DEF Commands
<1>10. Alone'
  BY <1>1, <1>2, MainKeepsAlone DEF Reap, Unended
<1>11. Offspring'
  BY <1>1, TreeKeepsOffspring
<1> QED
  BY <1>4, <1>5, <1>6, <1>8, <1>9, <1>10, <1>11 DEF TestInv

(* A popen that fails runs no command.                                      *)
LEMMA RunOpKeeps ==
    ASSUME TestInv, NEW shell, NEW label, NEW next, TheCommands(shell, label, next),
           RunOp(shell, label, next),
           UNCHANGED <<i, num_threads, num_open_fds, ran, quiet>>
    PROVE  TestInv'
<1>1. CASE mpc = label /\ Popen(shell) /\ mpc' = "pclose"
  BY <1>1, PopenKeeps
<1>2. CASE mpc = "pclose" /\ Pclose(shell) /\ mpc' = next
  BY <1>2, PcloseKeeps
<1>3. CASE mpc = label /\ UNCHANGED vars /\ mpc' = next
  <2>1. /\ UNCHANGED <<state, children, testid, pc, target, had, robbed, stored, used>>
        /\ mpc \in {"echo", "cat"} /\ next \in {"cat", "wait"}
    BY <1>3 DEF vars, treeVars, userVars, TheCommands
  <2>2. Core'
    BY <1>3, StutterKeepsCore DEF TestInv
  <2>3. TestTypeOK'
    BY <1>3, <2>1, <2>2 DEF TestInv, TestTypeOK, Core
  <2>4. Program' /\ Writes' /\ Files' /\ FilesAreOwn' /\ Alone'
    BY <1>3, <2>1 DEF TestInv, Program, Writes, Files, FilesAreOwn, Alone, Unended
  <2>5. Family' /\ Offspring'
    BY <1>3, <2>1 DEF TestInv, Family, Offspring, Early, Living, Listed
  <2>6. Commands'
    BY <1>3, <2>1 DEF TestInv, Commands, Living, TheCommands
  <2> QED
    BY <2>2, <2>3, <2>4, <2>5, <2>6 DEF TestInv
<1> QED
  BY <1>1, <1>2, <1>3 DEF RunOp, MainAt

(* main waits for children when its commands are done.                      *)
LEMMA MainWaitKeeps == TestInv /\ MainWait /\ UNCHANGED quiet => TestInv'
<1> SUFFICES ASSUME TestInv, MainWait, UNCHANGED quiet PROVE TestInv'
  OBVIOUS
<1> USE Names
<1>1. /\ mpc = "wait" /\ state[main] = "alive" /\ \A s \in Shells : ~Living(s)
      /\ UNCHANGED <<i, num_threads, num_open_fds, ran>>
  BY DEF MainWait, MainAt, TestInv, Program, Commands
<1>2. ASSUME NEW c \in Kids, Reap(c), UNCHANGED <<testid, mtx, userVars, stored, used, mpc>>
      PROVE  TestInv'
  <2>1. c \in Pids /\ UNCHANGED <<pc, target>>
    BY <1>2 DEF userVars
  <2>2. Core'
    BY <1>2, <2>1, TreeStepKeepsCore DEF TestInv
  <2>3. state[c] = "zombie" /\ \A q \in Pids : state'[q] = IF q = c THEN "gone" ELSE state[q]
    BY <1>2, <2>1, TreeFacts DEF TestInv
  <2>4. TestTypeOK'
    BY <1>1, <1>2, <2>1, <2>2 DEF TestInv, TestTypeOK, Core
  <2>5. Program' /\ Files' /\ FilesAreOwn' /\ Writes'
    BY <1>1, <1>2, <2>1, <2>3 DEF TestInv, Program, Files, FilesAreOwn, Writes
  <2>6. Family'
    BY <1>1, <1>2, <2>3 DEF TestInv, Family, Early
  <2>7. Commands'
    <3>1. \A s \in Shells : state'[s] = state[s]
      BY <2>3
    <3> QED
      BY <1>1, <1>2, <2>1, <3>1 DEF TestInv, Commands, Living
  <2>8. Alone'
    BY <1>1, <1>2, <2>1, <2>3, MainKeepsAlone DEF Reap, Unended
  <2>9. Offspring'
    BY <1>1, <1>2, TreeKeepsOffspring
  <2> QED
    BY <2>2, <2>4, <2>5, <2>6, <2>7, <2>8, <2>9 DEF TestInv
<1>3. CASE children[main] = <<>> /\ mpc' = "exit" /\ UNCHANGED vars
  <2>1. UNCHANGED <<state, children, testid, pc, target, had, robbed, stored, used>>
    BY <1>3 DEF vars, treeVars, userVars
  <2>2. Core'
    BY <1>3, StutterKeepsCore DEF TestInv
  <2>3. TestTypeOK'
    BY <1>1, <1>3, <2>2 DEF TestInv, TestTypeOK, Core
  <2>4. Program' /\ Writes' /\ Files' /\ FilesAreOwn' /\ Alone' /\ Commands'
    BY <1>1, <1>3, <2>1 DEF TestInv, Program, Writes, Files, FilesAreOwn, Alone,
       Unended, Commands, Living
  <2>5. Family' /\ Offspring'
    BY <1>1, <1>3, <2>1 DEF TestInv, Family, Offspring, Early, Listed
  <2> QED
    BY <2>2, <2>3, <2>4, <2>5 DEF TestInv
<1> QED
  BY <1>2, <1>3 DEF MainWait

(* The program, a child or a shell ends: none of them is in a call.         *)
LEMMA ExitKeepsTest ==
    ASSUME TestInv, NEW p \in {main} \cup Kids \cup Shells, Exit(p),
           p = main => mpc = "exit" /\ mpc' = "gone",
           p # main => mpc' = mpc,
           p \in Shells => pc[p] \in {"idle", "oops"},
           num_open_fds' = IF p \in Kids THEN [num_open_fds EXCEPT ![p] = 0] ELSE num_open_fds,
           UNCHANGED <<testid, mtx, userVars, stored, used, i, num_threads, ran, quiet>>
    PROVE  TestInv'
<1> USE Names
<1>1. p \in Pids /\ UNCHANGED <<pc, target>>
  BY DEF userVars
<1>2. Core'
  BY <1>1, TreeStepKeepsCore DEF TestInv
<1>3. /\ state[p] = "alive"
      /\ \A q \in Pids : state'[q] = IF q = p THEN "zombie" ELSE state[q]
      /\ \A q \in Pids \ {1, p} : children'[q] = children[q]
  BY <1>1, TreeFacts DEF TestInv
<1>4. Offspring'
  <2>1. /\ children \in [Pids -> Seq(Pids)] /\ p # 1
        /\ children' = [children EXCEPT ![1] = children[1] \o children[p], ![p] = <<>>]
    BY DEF Exit, TestInv, Core, TypeOK
  <2>2. children[p] = <<>>
    BY <1>1, <2>1 DEF TestInv, Offspring
  <2>3. children[1] \o children[p] = children[1]
    BY <2>1, <2>2, <1>1, ConcatEmptySeq
  <2>4. /\ 1 \in Pids /\ main \notin {1} /\ children' \in [Pids -> Seq(Pids)]
        /\ children'[1] = children[1] /\ children'[p] = <<>>
        /\ \A q \in Pids \ {1, p} : children'[q] = children[q]
    <3>1. 1 \in Pids
      BY MyPsAssumption DEF Pids
    <3>2. children' \in [Pids -> Seq(Pids)]
      BY <1>2 DEF Core, TypeOK
    <3> QED
      BY <1>1, <2>1, <2>3, <3>1, <3>2
  <2> QED
    <3>1. children' = children
      BY <1>1, <2>1, <2>2, <2>4
    <3>2. mpc' \in {"exit", "gone"} => mpc \in {"exit", "gone"}
      OBVIOUS
    <3> QED
      BY <3>1, <3>2 DEF TestInv, Offspring, Listed
<1>5. \A q \in Pids : Living(q)' <=> Living(q)
  BY <1>3 DEF Living
<1>6. TestTypeOK'
  <2>1. num_open_fds' \in [Pids -> 0 .. MAX_TESTFILES]
    BY DEF TestInv, TestTypeOK, MAX_TESTFILES
  <2> QED
    BY <1>2, <2>1 DEF TestInv, TestTypeOK, Core
<1>7. Program' /\ Writes'
  BY <1>1, <1>3 DEF TestInv, Program, Writes
<1>8. Files' /\ FilesAreOwn'
  <2>1. \A k \in 0 .. MaxKids - 1 : 0 <= num_files(k)
    BY FilesNeeded DEF MAX_TESTFILES
  <2> QED
    BY <1>1, <2>1 DEF TestInv, TestTypeOK, Files, FilesAreOwn
<1>9. Family'
  <2>1. \A k \in 0 .. MaxKids - 1 : k >= i <=> state'[KidPid(k)] = "none"
    BY <1>3 DEF TestInv, Family
  <2>2. Early' => p # main /\ Early /\ children'[main] = children[main]
    BY <1>3 DEF Early
  <2> QED
    BY <1>5, <2>1, <2>2 DEF TestInv, Family
<1>10. Commands'
  <2>1. ASSUME NEW s \in Shells
        PROVE  /\ s \in ran => state'[s] # "none"
               /\ pc[s] \notin {"idle", "oops"} => state'[s] = "alive"
               /\ pc[s] # "idle" => s \in ran
    BY <1>3 DEF TestInv, Commands
  <2>2. mpc' # mpc => mpc = "exit" /\ mpc' = "gone"
    OBVIOUS
  <2>3. /\ state[echo] = "none" => state'[echo] = "none"
        /\ state[cat] = "none" => state'[cat] = "none"
    BY <1>3
  <2> QED
    BY <1>1, <1>5, <2>1, <2>2, <2>3 DEF TestInv, Commands
<1>11. Alone'
  <2>1. Rob
    BY DEF Exit
  <2>2. \A s \in Shells : Unended(s)' => Unended(s) /\ s # p
    BY <1>3 DEF Unended
  <2>3. ASSUME quiet, NEW s \in Shells, Unended(s)', target[s] # NULL
        PROVE  children'[target[s]] = children[target[s]] /\ state'[target[s]] # "gone"
    <3>1. /\ state[s] = "alive" /\ mpc = "pclose" /\ s # p
          /\ \A t \in Shells \ {s} : ~Living(t)
          /\ target[s] \in {main, s}
      BY <2>2, <2>3, InCall
    <3>2. p # main /\ p \notin Shells
      BY <1>3, <3>1 DEF Living
    <3>3. state[target[s]] # "gone" /\ target[s] \in Pids \ {1, p}
      BY <3>1, <3>2 DEF TestInv, Program
    <3> QED
      BY <1>3, <3>3
  <2> QED
    BY <1>1, <2>1, <2>2, <2>3, TreeKeepsAlone
<1> QED
  BY <1>2, <1>4, <1>6, <1>7, <1>8, <1>9, <1>10, <1>11 DEF TestInv

(* What the other processes do leaves the program's lists as they are.      *)
LEMMA OthersTree ==
    ASSUME TestInv, NEW c \in Others, NEW p \in {1, intruder} \cup Others,
           Fork(p, c) \/ Exit(c) \/ Reap(c)
    PROVE  /\ \A q \in {main, intruder} \cup Kids \cup Shells : state'[q] = state[q]
           /\ \A q \in {main} \cup Kids \cup Shells : children'[q] = children[q]
           /\ \A q \in Pids : \A k \in Listed(q)' :
                children'[q][k] \in Kids \cup Shells <=> q = main
<1> USE Names
<1> DEFINE Ours == Kids \cup Shells
<1>1. /\ c \in Pids /\ p \in Pids /\ c # 1 /\ c \notin {main, intruder} \cup Ours
      /\ p \notin {main} \cup Ours
      /\ state \in [Pids -> {"none", "alive", "zombie", "gone"}]
      /\ children \in [Pids -> Seq(Pids)]
  BY DEF TestInv, Core, TypeOK
<1>2. \A q \in {main, intruder} \cup Ours : state'[q] = state[q]
  BY <1>1 DEF Fork, Exit, Reap
<1>3. \A q \in Pids : \A k \in Listed(q) : children[q][k] \in Ours <=> q = main
  BY DEF TestInv, Offspring
<1> HIDE DEF Ours
<1>4. CASE Fork(p, c)
  <2>1. \A q \in Pids \ {p} : children'[q] = children[q]
    BY <1>1, <1>4 DEF Fork
  <2>2. ASSUME NEW k \in Listed(p)' PROVE children'[p][k] \notin Ours
    <3>1. /\ Len(children[p]) \in Nat /\ Len(children'[p]) = Len(children[p]) + 1
          /\ \A l \in 1 .. Len(children[p]) : children'[p][l] = children[p][l]
          /\ children'[p][Len(children[p]) + 1] = c
      BY <1>1, <1>4, ForkAppends DEF TestInv
    <3>2. \/ k \in Listed(p) /\ children'[p][k] = children[p][k]
          \/ children'[p][k] = c
      BY <3>1 DEF Listed
    <3> QED
      BY <1>1, <1>3, <3>2
  <2>3. \A q \in Pids : \A k \in Listed(q)' : children'[q][k] \in Ours <=> q = main
    BY <1>1, <1>3, <2>1, <2>2 DEF Listed
  <2> QED
    BY <1>1, <1>2, <2>1, <2>3 DEF Ours
<1>5. CASE Exit(c)
  <2>1. children' = [children EXCEPT ![1] = children[1] \o children[c], ![c] = <<>>]
    BY <1>5 DEF Exit
  <2>2. /\ children[1] \in Seq(Pids) /\ children[c] \in Seq(Pids)
        /\ Len(children[1]) \in Nat /\ Len(children[c]) \in Nat
    BY <1>1, ListFacts DEF TestInv, Core
  <2>3. /\ children'[c] = <<>> /\ children'[1] = children[1] \o children[c]
        /\ \A q \in Pids \ {1, c} : children'[q] = children[q]
    BY <1>1, <2>1
  <2>4. ASSUME NEW k \in Listed(1)' PROVE children'[1][k] \notin Ours
    <3> DEFINE m == Len(children[1])
               n == Len(children[c])
    <3>1. /\ Len(children'[1]) = m + n
          /\ \A l \in 1 .. m + n :
               children'[1][l] = IF l <= m THEN children[1][l] ELSE children[c][l - m]
      <4> DEFINE front == children[1]
                 back  == children[c]
      <4>1. front \in Seq(Pids) /\ back \in Seq(Pids)
        BY <2>2
      <4>2. m = Len(front) /\ n = Len(back) /\ children'[1] = front \o back
        BY <2>3
      <4> HIDE DEF front, back, m, n
      <4>3. /\ Len(front \o back) = Len(front) + Len(back)
            /\ \A l \in 1 .. Len(front) + Len(back) :
                 (front \o back)[l] = IF l <= Len(front) THEN front[l] ELSE back[l - Len(front)]
        BY <4>1, ConcatProperties
      <4> QED
        BY <4>2, <4>3 DEF front, back
    <3>2. m \in Nat /\ n \in Nat /\ Listed(1) = 1 .. m /\ Listed(c) = 1 .. n
      BY <2>2 DEF Listed
    <3> HIDE DEF m, n
    <3>3. k \in 1 .. m + n
      BY <2>4, <3>1 DEF Listed
    <3>4. CASE k <= m
      <4>1. k \in Listed(1) /\ children'[1][k] = children[1][k]
        BY <3>1, <3>2, <3>3, <3>4
      <4> QED
        BY <1>1, <1>3, <4>1
    <3>5. CASE ~(k <= m)
      <4>1. k - m \in Listed(c) /\ children'[1][k] = children[c][k - m]
        BY <3>1, <3>2, <3>3, <3>5
      <4> QED
        BY <1>1, <1>3, <4>1
    <3> QED
      BY <3>4, <3>5
  <2>5. Listed(c)' = {}
    BY <2>3, EmptySeq DEF Listed
  <2>6. \A q \in Pids : \A k \in Listed(q)' : children'[q][k] \in Ours <=> q = main
    BY <1>1, <1>3, <2>3, <2>4, <2>5 DEF Listed
  <2> QED
    BY <1>1, <1>2, <2>3, <2>6 DEF Ours
<1>6. CASE Reap(c)
  <2>1. Living(c)
    BY <1>6 DEF Reap, Living
  <2>2. PICK q \in Pids : \E n \in Listed(q) : children[q][n] = c
    BY <1>1, <2>1, IsListed DEF TestInv, Core
  <2>3. PICK n \in Listed(q) : children[q][n] = c
    BY <2>2
  <2>4. Parent(c) = q /\ Place(c) = n
    BY <2>3, PlaceOfChild DEF TestInv, Core
  <2>5. q # main /\ q \notin Ours
    <3>1. children[q] # <<>>
      BY <2>3, ListFacts DEF TestInv, Core, Listed
    <3> QED
      BY <1>1, <1>3, <2>3, <3>1 DEF TestInv, Offspring, Ours
  <2>6. /\ children'[q] = RemoveAt(children[q], n)
        /\ \A r \in Pids \ {q} : children'[r] = children[r]
    BY <1>1, <1>6, <2>4 DEF Reap
  <2>7. ASSUME NEW k \in Listed(q)' PROVE children'[q][k] \notin Ours
    <3>1. /\ Len(children[q]) \in Nat /\ n \in 1 .. Len(children[q])
          /\ Len(RemoveAt(children[q], n)) = Len(children[q]) - 1
          /\ \A l \in 1 .. Len(children[q]) - 1 :
               RemoveAt(children[q], n)[l] =
                 IF l < n THEN children[q][l] ELSE children[q][l + 1]
      BY <1>1, <2>3, RemoveAtProperties, ListFacts DEF TestInv, Core, Listed
    <3>2. k \in 1 .. Len(children[q]) - 1 /\ k \in Listed(q) /\ k + 1 \in Listed(q)
      BY <3>1, <2>6 DEF Listed
    <3> QED
      BY <1>3, <2>5, <2>6, <3>1, <3>2
  <2>8. \A r \in Pids : \A k \in Listed(r)' : children'[r][k] \in Ours <=> r = main
    BY <1>3, <2>5, <2>6, <2>7 DEF Listed
  <2> QED
    BY <1>1, <1>2, <2>5, <2>6, <2>8 DEF Ours
<1> QED
  BY <1>4, <1>5, <1>6

(* Nor do they disturb who runs a command.                                  *)
LEMMA OthersKeep == TestInv /\ OtherProcesses /\ UNCHANGED quiet => TestInv'
<1> SUFFICES ASSUME TestInv, OtherProcesses, UNCHANGED quiet PROVE TestInv'
  OBVIOUS
<1> USE Names
<1>1. PICK c \in Others : \E p \in {1, intruder} \cup Others : Fork(p, c) \/ Exit(c) \/ Reap(c)
  BY DEF OtherProcesses
<1>2. PICK p \in {1, intruder} \cup Others : Fork(p, c) \/ Exit(c) \/ Reap(c)
  BY <1>1
<1>3. /\ UNCHANGED <<testid, mtx, userVars, stored, used, mpc, i, num_threads>>
      /\ UNCHANGED <<num_open_fds, ran, pc, target>>
      /\ c \in Pids /\ p \in Pids
  BY DEF OtherProcesses, progVars, userVars
<1>4. /\ \A q \in {main, intruder} \cup Kids \cup Shells : state'[q] = state[q]
      /\ \A q \in {main} \cup Kids \cup Shells : children'[q] = children[q]
      /\ \A q \in Pids : \A k \in Listed(q)' : children'[q][k] \in Kids \cup Shells <=> q = main
  BY <1>2, OthersTree
<1>5. Core'
  <2>1. Fork(p, c) \/ Exit(c) \/ Reap(c)
    BY <1>2
  <2>2. CASE Fork(p, c)
    BY <1>3, <2>2, TreeStepKeepsCore DEF TestInv
  <2>3. CASE Exit(c) \/ Reap(c)
    BY <1>3, <2>3, TreeStepKeepsCore DEF TestInv
  <2> QED
    BY <2>1, <2>2, <2>3
<1>6. TestTypeOK'
  BY <1>3, <1>5 DEF TestInv, TestTypeOK, Core
<1>7. Program' /\ Writes' /\ Files' /\ FilesAreOwn'
  BY <1>3, <1>4 DEF TestInv, Program, Writes, Files, FilesAreOwn
<1>8. Family' /\ Commands'
  <2>1. \A s \in Shells : Living(s)' <=> Living(s)
    BY <1>4 DEF Living
  <2>2. \A k \in 0 .. MaxKids - 1 : state'[KidPid(k)] = state[KidPid(k)]
    BY <1>4
  <2>3. Family'
    BY <1>3, <1>4, <2>1, <2>2 DEF TestInv, Family, Early
  <2>4. Commands'
    BY <1>3, <1>4, <2>1 DEF TestInv, Commands
  <2> QED
    BY <2>3, <2>4
<1>9. Offspring'
  BY <1>3, <1>4 DEF TestInv, Offspring
<1>10. Alone'
  <2>1. Rob
    BY <1>2 DEF Fork, Exit, Reap
  <2>2. \A s \in Shells : Unended(s)' => Unended(s)
    BY <1>4 DEF Unended
  <2>3. ASSUME quiet, NEW s \in Shells, Unended(s)', target[s] # NULL
        PROVE  children'[target[s]] = children[target[s]] /\ state'[target[s]] # "gone"
    <3>1. state[s] = "alive" /\ target[s] \in {main, s}
      BY <2>2, <2>3, InCall
    <3>2. state[target[s]] # "gone"
      BY <3>1 DEF TestInv, Program
    <3> QED
      BY <1>4, <3>1, <3>2
  <2> QED
    BY <1>3, <2>1, <2>2, <2>3, TreeKeepsAlone
<1> QED
  BY <1>5, <1>6, <1>7, <1>8, <1>9, <1>10 DEF TestInv

-----------------------------------------------------------------------------
(* Every step keeps all of it.                                              *)
LEMMA TestStepKeeps == TestInv /\ [TestNext]_allVars => TestInv'
<1> SUFFICES ASSUME TestInv, [TestNext]_allVars PROVE TestInv'
  OBVIOUS
<1> USE Names
<1>1. CASE Intruder
  BY <1>1, IntruderKeeps
<1>2. CASE UNCHANGED quiet /\ MainNext
  <2>1. CASE MainFiles
    BY <1>2, <2>1, MainFilesKeeps
  <2>2. CASE MainFork
    BY <1>2, <2>2, MainForkKeeps
  <2>3. CASE MainEcho
    BY <1>2, <2>3, RunOpKeeps DEF MainEcho, TheCommands
  <2>4. CASE MainCat
    BY <1>2, <2>4, RunOpKeeps DEF MainCat, TheCommands
  <2>5. CASE MainWait
    BY <1>2, <2>5, MainWaitKeeps
  <2>6. CASE MainExit
    <3>1. /\ Exit(main) /\ mpc = "exit" /\ mpc' = "gone" /\ num_open_fds' = num_open_fds
          /\ UNCHANGED <<testid, mtx, userVars, stored, used, i, num_threads, ran, quiet>>
      BY <1>2, <2>6 DEF MainExit, MainAt
    <3> QED
      BY <3>1, ExitKeepsTest
  <2> QED
    BY <1>2, <2>1, <2>2, <2>3, <2>4, <2>5, <2>6 DEF MainNext
<1>3. CASE UNCHANGED quiet /\ \E k \in Kids : KidExit(k)
  <2>1. PICK k \in Kids : KidExit(k)
    BY <1>3
  <2>2. /\ Exit(k) /\ mpc' = mpc /\ num_open_fds' = [num_open_fds EXCEPT ![k] = 0]
        /\ UNCHANGED <<testid, mtx, userVars, stored, used, i, num_threads, ran, quiet>>
    BY <1>3, <2>1 DEF KidExit
  <2> QED
    BY <2>2, ExitKeepsTest
<1>4. CASE UNCHANGED quiet /\ \E s \in Shells : ShellExit(s)
  <2>1. PICK s \in Shells : ShellExit(s)
    BY <1>4
  <2>2. /\ Exit(s) /\ mpc' = mpc /\ num_open_fds' = num_open_fds /\ pc[s] \in {"idle", "oops"}
        /\ UNCHANGED <<testid, mtx, userVars, stored, used, i, num_threads, ran, quiet>>
    BY <1>4, <2>1 DEF ShellExit, At, progVars
  <2> QED
    BY <2>2, ExitKeepsTest
<1>5. CASE /\ UNCHANGED quiet
           /\ \/ ShellRuns(echo, WriteLock(echo))
              \/ (WriteFind(echo, main) \/ WriteStore(echo)) /\ UNCHANGED progVars
  BY <1>5, EchoKeeps DEF ShellRuns, progVars
<1>6. CASE /\ UNCHANGED quiet
           /\ \/ ShellRuns(cat, StartLock(cat))
              \/ (seq_read(cat) \/ Lost(cat)) /\ UNCHANGED progVars
  BY <1>6, CatKeeps DEF ShellRuns, progVars
<1>7. CASE OtherProcesses /\ UNCHANGED quiet
  BY <1>7, OthersKeep
<1>8. CASE UNCHANGED allVars
  <2>1. UNCHANGED <<vars, mpc, i, num_threads, num_open_fds, ran, quiet>>
    BY <1>8 DEF allVars, progVars
  <2>2. UNCHANGED <<state, children, testid, pc, target, had, robbed, stored, used>>
    BY <2>1 DEF vars, treeVars, userVars
  <2>3. Core'
    BY <2>1, StutterKeepsCore DEF TestInv
  <2>4. TestTypeOK' /\ Program' /\ Writes' /\ Files' /\ FilesAreOwn' /\ Alone'
    BY <2>1, <2>2, <2>3 DEF TestInv, Core, TestTypeOK, Program, Writes, Files,
         FilesAreOwn, Alone, Unended
  <2>5. Family' /\ Offspring' /\ Commands'
    BY <2>1, <2>2 DEF TestInv, Family, Offspring, Early, Commands, Living, Listed
  <2> QED
    BY <2>3, <2>4, <2>5 DEF TestInv
<1> QED
  BY <1>1, <1>2, <1>3, <1>4, <1>5, <1>6, <1>8, <1>7 DEF TestNext, Echo, Cat, CatLost

(* The inductive invariant: where main is, which processes there are and    *)
(* what the commands are about fit together.                                *)
THEOREM TestInvariant == TestSpec => []TestInv
  BY TestInitHolds, TestStepKeeps, PTL DEF TestSpec

(* The variables keep their types: echo can always write what it is given,  *)
(* and no process has more test files than there are.                       *)
THEOREM TestTypeCorrect == TestSpec => []TestTypeOK
  BY TestInvariant, PTL DEF TestInv

(* A list that ends, about main, is of the children and cat.                *)
LEMMA EndedListOfMain == TestInv => CatListsChildren
<1> SUFFICES ASSUME TestInv, At(cat, "end"), quiet, used = 1
             PROVE  page[cat] = SubSeq([k \in 1 .. i + 1 |->
                                          IF k <= i THEN KidPid(k - 1) ELSE cat],
                                       1, Fit(i + 1))
  BY DEF CatListsChildren
<1> USE Names
<1> DEFINE list == [k \in 1 .. i + 1 |-> IF k <= i THEN KidPid(k - 1) ELSE cat]
<1>1. /\ target[cat] = main /\ main # NULL /\ cat \notin robbed
      /\ had[cat] = Len(children[main])
  <2>1. pc[cat] # "idle" /\ state[cat] = "alive"
    BY DEF TestInv, Commands, At
  <2> QED
    BY <2>1 DEF TestInv, Alone, Unended
<1>2. page[cat] = SubSeq(children[main], 1, Fit(Len(children[main])))
  <2>1. PICK n \in Fit(had[cat]) .. Fit(Len(children[main])) :
               page[cat] = SubSeq(children[main], 1, n)
    BY <1>1, EndedListIsExact DEF TestInv, ListIsExact
  <2>2. Len(children[main]) \in Nat /\ PageLines \in Nat
    BY ListFacts, MyPsAssumption DEF TestInv, Core
  <2>3. n = Fit(Len(children[main]))
    BY <1>1, <2>2 DEF Fit
  <2> QED
    BY <2>1, <2>3
<1>3. state[cat] = "alive" /\ Living(cat) /\ mpc = "pclose"
  BY DEF TestInv, Commands, At, Living
<1>4. /\ Len(children[main]) = i + 1 /\ children[main][i + 1] = cat
      /\ \A k \in 1 .. i : children[main][k] = KidPid(k - 1)
  BY <1>3 DEF TestInv, Family, Early
<1>5. children[main] \in Seq(Pids) /\ i \in 0 .. MaxKids
  BY DEF TestInv, TestTypeOK, TypeOK
<1>6. ASSUME NEW k \in 1 .. i + 1
      PROVE  list[k] \in Pids /\ children[main][k] = list[k]
  <2>1. CASE k <= i
    <3>1. k \in 1 .. i /\ children[main][k] = KidPid(k - 1)
      BY <1>4, <1>5, <2>1
    <3>2. k - 1 \in 0 .. MaxKids - 1
      BY <1>5, <3>1, TestAssumption
    <3> QED
      BY <2>1, <3>1, <3>2
  <2>2. CASE ~(k <= i)
    <3>1. k = i + 1
      BY <1>5, <2>2
    <3> QED
      BY <1>4, <2>2, <3>1
  <2> QED
    BY <2>1, <2>2
<1>7. children[main] = list
  <2>1. DOMAIN children[main] = 1 .. i + 1 /\ DOMAIN list = 1 .. i + 1
    BY <1>4, <1>5, LenProperties
  <2>2. children[main] = [k \in 1 .. i + 1 |-> children[main][k]]
    BY <1>5, <2>1, <1>4, ElementOfSeq
  <2> QED
    BY <2>1, <2>2, <1>6
<1> QED
  BY <1>2, <1>4, <1>7

(* When nobody else uses /proc/myps and echo has stored the pid, cat prints *)
(* the children main has made, in order, and itself, however many they are  *)
(* and whether they have ended or not, as far as they fit the page.         *)
THEOREM CatPrintsChildren == TestSpec => []CatListsChildren
  BY TestInvariant, EndedListOfMain, PTL

(* When nobody else uses /proc/myps the commands of the program meet no     *)
(* process that goes and no list that changes, and cat crashes only when a  *)
(* child exits just as it is shown, however many children there are and     *)
(* whatever other processes do.                                             *)
THEOREM ListStaysStill == TestSpec => []ListHoldsStill
<1>1. TestInv => ListHoldsStill
  BY Names DEF TestInv, Alone, Unended, Core, Undisturbed, Steady, ListHoldsStill
<1> QED
  BY <1>1, TestInvariant, PTL

(* No child has test files of another, and main none when it prints.        *)
THEOREM FilesStayOwn == TestSpec => []FilesAreOwn
  BY TestInvariant, PTL DEF TestInv

(* When the program ends it has waited for every child and every shell that *)
(* it made, whatever the intruder does.                                     *)
THEOREM EndsAlone == TestSpec => [](state[main] = "zombie" => NobodyLeft)
<1>1. TestInv => (state[main] = "zombie" => NobodyLeft)
  <2>1. SUFFICES ASSUME TestInv, mpc = "gone", NEW c \in Kids \cup Shells
                 PROVE  state[c] \in {"none", "gone"}
    BY DEF TestInv, Program, NobodyLeft
  <2>2. ~Living(c)
    <3>1. children[main] = <<>>
      BY <2>1 DEF TestInv, Offspring
    <3> QED
      BY <2>1, <3>1, OnlyMainHas DEF TestInv
  <2>3. state[c] \in {"none", "alive", "zombie", "gone"}
    <3>1. c \in Pids
      BY Names
    <3> QED
      BY <2>1, <3>1 DEF TestInv, Core, TypeOK
  <2> QED
    BY <2>2, <2>3 DEF Living
<1> QED
  BY <1>1, TestInvariant, PTL

(* What /proc/myps promises holds also when the processes that use it are   *)
(* made, run a command, end and are waited for: a pid is used once, a list  *)
(* is exact, and no walk over freed memory without a process that goes, nor *)
(* a crash without that or a child that exits as it is shown.               *)
THEOREM PromisesHold == TestSpec => [](PidUsedOnce /\ ListIsExact /\ CrashNeedsExit)
<1>1. TestInv => PidUsedOnce /\ ListIsExact /\ CrashNeedsExit
  BY EndedListIsExact DEF TestInv, Core, Undisturbed, Steady, CrashNeedsExit, At
<1> QED
  BY <1>1, TestInvariant, PTL
=============================================================================

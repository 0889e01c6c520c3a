----------------------------- MODULE TestAppCh5 -----------------------------
(***************************************************************************)
(* testApp_ch5.c with /proc/myps: a program makes children, each with some *)
(* files open, writes its own pid to /proc/myps through a shell, reads the *)
(* list through another, and waits for the children.  A third process, the *)
(* intruder, may use /proc/myps at any time, and other processes come and  *)
(* go, as children of the intruder, of init or of each other.              *)
(***************************************************************************)
EXTENDS CDDMyPs

CONSTANTS
    MaxKids,     \* the largest argument: the help of the program says < 100
    MaxFailed    \* bound: opens of test files that fail for one child

main     == 2
intruder == 3
Kids     == 4 .. MaxKids + 3
echo     == MaxKids + 4     \* the shell of popen("/bin/echo ..")
cat      == MaxKids + 5     \* the shell of popen("/bin/cat ..")
Shells   == {echo, cat}
Others   == MaxKids + 6 .. NumPids

ASSUME TestAssumption ==
    /\ MaxKids \in Nat /\ MaxKids < 100 /\ MaxFailed \in Nat
    /\ NumPids >= MaxKids + 5 /\ MaxWrites > 0
    /\ Users = {intruder} \cup Shells /\ Started = <<main, intruder>>

VARIABLES
    mpc, i, num_threads,    \* main: its place and its variables
    num_open_fds,           \* of each process: test files open
    ran,                    \* the shells whose command has begun
    quiet                   \* history: the intruder has done nothing

progVars == <<mpc, i, num_threads, num_open_fds, ran>>
allVars  == <<vars, progVars, quiet>>

MAX_TESTFILES == 20

(* The files of child k: its priority is (3 * k) % 100, or the largest one, *)
(* 99, when that is 0.                                                      *)
new_prio(k) == IF (3 * k) % 100 = 0 THEN 99 ELSE (3 * k) % 100

get_num_files_needed(raw) == raw % MAX_TESTFILES

num_files(k) == get_num_files_needed(new_prio(k) + 1)

KidPid(k) == k + 4

MainAt(label) == mpc = label

TestInit ==
    /\ Init
    /\ mpc = "files" /\ i = 0 /\ num_threads \in 0 .. MaxKids
    /\ num_open_fds = [p \in Pids |-> IF p = main THEN 1 ELSE 0]
    /\ ran = {} /\ quiet = TRUE

-----------------------------------------------------------------------------
(* main. *)

(* The files of the last child are closed, those of the next are opened;    *)
(* each open that fails is passed over.                                     *)
Reopen(left, again) ==
    /\ MainAt("files")
    /\ IF again
       THEN /\ mpc' = "fork"
            /\ \E opened \in {n \in 0 .. num_files(i) : n + MaxFailed >= num_files(i)} :
                 num_open_fds' = [num_open_fds EXCEPT ![main] = left + opened]
       ELSE /\ mpc' = "echo"
            /\ num_open_fds' = [num_open_fds EXCEPT ![main] = left]
    /\ UNCHANGED <<vars, i, num_threads, ran>>

MainFiles_Unclosed == Reopen(num_open_fds[main], i < num_threads)

MainFiles_OnceMore == Reopen(0, i <= num_threads)

MainFiles == Reopen(0, i < num_threads)

(* The child has main's files; a fork that fails ends the loop, and what is *)
(* open is closed.                                                          *)
MainFork ==
    /\ MainAt("fork")
    /\ \/ /\ Fork(main, KidPid(i))
          /\ num_open_fds' = [num_open_fds EXCEPT ![KidPid(i)] = num_open_fds[main]]
          /\ i' = i + 1 /\ mpc' = "files"
          /\ UNCHANGED num_threads
       \/ /\ num_threads' = i /\ mpc' = "echo"
          /\ num_open_fds' = [num_open_fds EXCEPT ![main] = 0]
          /\ UNCHANGED <<treeVars, had, robbed, i>>
    /\ UNCHANGED <<testid, mtx, userVars, stored, used, ran>>

(* run_op: popen makes a shell, fgets reads until it is done, and pclose    *)
(* waits for it.                                                            *)
Popen(shell) ==
    /\ Fork(main, shell)
    /\ UNCHANGED <<testid, mtx, userVars, stored, used>>

Pclose_AnyChild(shell) ==
    /\ \E c \in Kids \cup {shell} : Reap(c)
    /\ UNCHANGED <<testid, mtx, userVars, stored, used>>

Pclose(shell) ==
    /\ Reap(shell)
    /\ UNCHANGED <<testid, mtx, userVars, stored, used>>

RunOp_Unwaited(shell, label, next) ==
    /\ MainAt(label) /\ Popen(shell) /\ mpc' = next

RunOp(shell, label, next) ==
    \/ MainAt(label) /\ Popen(shell) /\ mpc' = "pclose"
    \/ MainAt(label) /\ UNCHANGED vars /\ mpc' = next    \* popen failed
    \/ MainAt("pclose") /\ Pclose(shell) /\ mpc' = next

MainEcho ==
    /\ RunOp(echo, "echo", "cat")
    /\ UNCHANGED <<i, num_threads, num_open_fds, ran>>

MainCat ==
    /\ RunOp(cat, "cat", "wait")
    /\ UNCHANGED <<i, num_threads, num_open_fds, ran>>

(* wait(NULL) until there is no child left.                                 *)
MainWait ==
    /\ MainAt("wait")
    /\ \/ /\ \E c \in Kids : Reap(c)
          /\ UNCHANGED <<testid, mtx, userVars, stored, used, mpc>>
       \/ children[main] = <<>> /\ mpc' = "exit" /\ UNCHANGED vars
    /\ UNCHANGED <<i, num_threads, num_open_fds, ran>>

MainExit ==
    /\ MainAt("exit")
    /\ Exit(main) /\ mpc' = "gone"
    /\ UNCHANGED <<testid, mtx, userVars, stored, used, i, num_threads, num_open_fds, ran>>

MainNext == MainFiles \/ MainFork \/ MainEcho \/ MainCat \/ MainWait \/ MainExit

-----------------------------------------------------------------------------
(* thread_function, then the files are closed and the child ends.           *)
KidExit(k) ==
    /\ Exit(k)
    /\ num_open_fds' = [num_open_fds EXCEPT ![k] = 0]
    /\ UNCHANGED <<testid, mtx, userVars, stored, used, mpc, i, num_threads, ran>>

(* A shell runs its command, which is the user, and ends with it.           *)
ShellRuns(shell, Command) ==
    /\ state[shell] = "alive" /\ shell \notin ran
    /\ ran' = ran \cup {shell} /\ Command
    /\ UNCHANGED <<mpc, i, num_threads, num_open_fds>>

ShellExit(shell) ==
    /\ shell \in ran /\ (At(shell, "idle") \/ At(shell, "oops"))
    /\ Exit(shell)
    /\ UNCHANGED <<testid, mtx, userVars, stored, used, progVars>>

Echo ==
    \/ ShellRuns(echo, WriteLock(echo))
    \/ (WriteFind(echo, main) \/ WriteStore(echo)) /\ UNCHANGED progVars
    \/ ShellExit(echo)

Cat ==
    \/ ShellRuns(cat, StartLock(cat))
    \/ seq_read(cat) /\ UNCHANGED progVars
    \/ ShellExit(cat)

CatLost == Lost(cat) /\ UNCHANGED progVars

Intruder ==
    /\ \/ stored + 1 < MaxWrites /\ WriteLock(intruder)
       \/ ct_write(intruder) \/ StartLock(intruder) \/ seq_read(intruder) \/ Lost(intruder)
    /\ quiet' = FALSE
    /\ UNCHANGED progVars

OtherProcesses ==
    /\ \E c \in Others : \/ \E p \in {1, intruder} \cup Others : Fork(p, c)
                         \/ Exit(c) \/ Reap(c)
    /\ UNCHANGED <<testid, mtx, userVars, stored, used, progVars>>

TestNext ==
    \/ /\ \/ MainNext \/ Echo \/ Cat \/ CatLost \/ OtherProcesses
          \/ \E k \in Kids : KidExit(k)
       /\ UNCHANGED quiet
    \/ Intruder

TestSpec == TestInit /\ [][TestNext]_allVars

(* The scheduler runs the program, its children and its shells; nothing is  *)
(* assumed of the intruder and the others, nor of a cat that is lost.       *)
TestFairSpec ==
    /\ TestSpec
    /\ WF_allVars(MainNext /\ UNCHANGED quiet)
    /\ WF_allVars(Echo /\ UNCHANGED quiet) /\ WF_allVars(Cat /\ UNCHANGED quiet)
    /\ \A k \in Kids : WF_allVars(KidExit(k) /\ UNCHANGED quiet)

-----------------------------------------------------------------------------
(* The type invariant.                                                      *)
TestTypeOK ==
    /\ TypeOK
    /\ mpc \in {"files", "fork", "echo", "pclose", "cat", "wait", "exit", "gone"}
    /\ i \in 0 .. MaxKids /\ num_threads \in 0 .. MaxKids
    /\ num_open_fds \in [Pids -> 0 .. MAX_TESTFILES]
    /\ ran \subseteq Shells /\ quiet \in BOOLEAN

(* When nobody else uses /proc/myps and echo has stored the pid, cat lists  *)
(* the children main has made, in order, and itself at the end, whether     *)
(* they still run or not, as far as they fit a page.                        *)
CatListsChildren ==
    At(cat, "end") /\ quiet /\ used = 1 =>
        page[cat] = SubSeq([k \in 1 .. i + 1 |-> IF k <= i THEN KidPid(k - 1) ELSE cat],
                           1, Fit(i + 1))

(* main waits for nobody while its commands run: when nobody else uses      *)
(* /proc/myps, the list that cat walks does not change, neither command     *)
(* walks freed memory, and cat crashes only when a child exits just as it   *)
(* is shown.                                                                *)
ListHoldsStill ==
    \A u \in Shells : quiet /\ state[u] = "alive" =>
        /\ u \notin robbed /\ ~At(u, "lost")
        /\ At(u, "oops") => Startled(u)
        /\ u = cat /\ target[u] # NULL => had[u] = Len(children[target[u]])

(* A child holds no more test files than its own, and main none when the    *)
(* list is printed: the files of one child are closed before the next.      *)
FilesAreOwn ==
    /\ \A k \in 0 .. MaxKids - 1 : num_open_fds[KidPid(k)] <= num_files(k)
    /\ mpc \notin {"files", "fork"} => num_open_fds[main] = 0

(* Nothing that main has made is left to run or to be waited for.           *)
NobodyLeft == \A c \in Kids \cup Shells : state[c] \in {"none", "gone"}

=============================================================================

------------------------------ MODULE CDDMyPs ------------------------------
(***************************************************************************)
(* /proc/myps (proc_seq_ops.c): a write leaves the pid of a process, the   *)
(* next read lists the children of that process, a line each.  The reads   *)
(* are made by the kernel's seq_read, which calls start, show, next and    *)
(* stop; the list is walked without a lock, while processes are made, exit *)
(* and are waited for.                                                     *)
(*                                                                         *)
(* A user is a process that runs cat (read until 0) or echo.  A node is a  *)
(* list_head: that of a process in the list of its parent, or the head of  *)
(* a list of children.                                                     *)
(***************************************************************************)
EXTENDS Naturals, Sequences

CONSTANTS
    NumPids,      \* bound: pids there ever are; 1 is init
    Users,        \* the processes that use /proc/myps
    Started,      \* the processes init has made at the beginning, in order
    PageLines,    \* lines that fit the page seq_read fills
    MaxWrites     \* bound: pids stored

Pids == 1 .. NumPids

ASSUME MyPsAssumption ==
    /\ NumPids \in Nat \ {0} /\ PageLines \in Nat \ {0} /\ MaxWrites \in Nat
    /\ Users \subseteq Pids \ {1} /\ Started \in Seq(Pids \ {1})
    /\ \A j, k \in 1 .. Len(Started) : Started[j] = Started[k] => j = k

VARIABLES
    state, children,       \* of each pid: its life, the list of its children
    testid, mtx,           \* the pid stored, 0 for none; the mutex is locked
    pc, target, pos, page, \* of each user: its place, test_task or ftask, spos->pos, lines
    had, robbed,           \* history: children the target had at first; who lost some, or it
    stored, used           \* history: pids stored by writes, taken by reads

treeVars == <<state, children>>
userVars == <<pc, target, pos, page>>
vars     == <<treeVars, testid, mtx, userVars, had, robbed, stored, used>>

NULL == 0

TaskNode(p) == [kind |-> "task", pid |-> p]
HeadNode(p) == [kind |-> "head", pid |-> p]

At(u, label)   == pc[u] = label
Goto(u, label) == pc' = [pc EXCEPT ![u] = label]

Exists(p) == p # NULL /\ state[p] \in {"alive", "zombie"}

Init ==
    /\ state = [p \in Pids |-> IF p = 1 \/ \E k \in 1 .. Len(Started) : Started[k] = p
                              THEN "alive" ELSE "none"]
    /\ children = [p \in Pids |-> IF p = 1 THEN Started ELSE <<>>]
    /\ testid = 0 /\ mtx = FALSE     \* CDDproc_seq_init
    /\ pc = [u \in Users |-> "idle"] /\ target = [u \in Users |-> NULL]
    /\ pos = [u \in Users |-> HeadNode(1)] /\ page = [u \in Users |-> <<>>]
    /\ had = [u \in Users |-> 0] /\ robbed = {} /\ stored = 0 /\ used = 0

-----------------------------------------------------------------------------
(* The kernel's processes. *)

(* The children of p still are in its list, where they were.                *)
Kept(p) ==
    /\ Len(children[p]) <= Len(children'[p])
    /\ \A k \in 1 .. Len(children[p]) : children'[p][k] = children[p][k]

(* A user in a call is robbed when its process goes or loses children; then *)
(* it owes nothing.                                                         *)
Robbed(u) == target[u] # NULL /\ (state'[target[u]] = "gone" \/ ~Kept(target[u]))

Rob ==
    /\ robbed' = robbed \cup {u \in Users : Robbed(u)}
    /\ had' = [u \in Users |-> IF u \in robbed' THEN 0 ELSE had[u]]

(* A call of u begins; it is about p.                                       *)
Calm(u) == robbed' = robbed \ {u}

Has(u, p) == had' = [had EXCEPT ![u] = IF p = NULL THEN 0 ELSE Len(children[p])]

Fork(p, c) ==
    /\ state[p] = "alive" /\ state[c] = "none"
    /\ state' = [state EXCEPT ![c] = "alive"]
    /\ children' = [children EXCEPT ![p] = Append(@, c)]
    /\ Rob

(* The children of a process that exits become those of init.               *)
Exit(p) ==
    /\ p # 1 /\ state[p] = "alive"
    /\ state' = [state EXCEPT ![p] = "zombie"]
    /\ children' = [children EXCEPT ![1] = @ \o children[p], ![p] = <<>>]
    /\ Rob

Parent(c) == CHOOSE p \in Pids : \E k \in 1 .. Len(children[p]) : children[p][k] = c

Place(c) == CHOOSE k \in 1 .. Len(children[Parent(c)]) : children[Parent(c)][k] = c

RemoveAt(list, k) == SubSeq(list, 1, k - 1) \o SubSeq(list, k + 1, Len(list))

(* A parent waits for c: the pid and the node of c are no more.             *)
Reap(c) ==
    /\ state[c] = "zombie"
    /\ state' = [state EXCEPT ![c] = "gone"]
    /\ children' = [children EXCEPT ![Parent(c)] = RemoveAt(@, Place(c))]
    /\ Rob

NextOf(node) ==
    LET p == IF node.kind = "head" THEN node.pid ELSE Parent(node.pid)
        k == IF node.kind = "head" THEN 0 ELSE Place(node.pid)
    IN  IF k < Len(children[p]) THEN TaskNode(children[p][k + 1]) ELSE HeadNode(p)

-----------------------------------------------------------------------------
(* ct_write. *)

(* The write fails without memory, and when the mutex is taken.             *)
WriteLock(u) ==
    /\ At(u, "idle")
    /\ \/ UNCHANGED vars
       \/ /\ ~mtx /\ mtx' = TRUE /\ Goto(u, "parse")
          /\ Calm(u)
          /\ UNCHANGED <<treeVars, testid, target, pos, page, had, stored, used>>

(* What is written is no number, or no process has it.                      *)
WriteRefuse(u) ==
    /\ At(u, "parse")
    /\ mtx' = FALSE /\ Goto(u, "idle")
    /\ UNCHANGED <<treeVars, testid, target, pos, page, had, robbed, stored, used>>

WriteFindIf(u, p, found) ==
    /\ At(u, "parse") /\ found
    /\ target' = [target EXCEPT ![u] = p] /\ Goto(u, "store")
    /\ UNCHANGED <<treeVars, testid, mtx, pos, page, had, robbed, stored, used>>

WriteFind_Unchecked(u, p) == WriteFindIf(u, p, TRUE)

WriteFind(u, p) == WriteFindIf(u, p, Exists(p))

(* ftask is not held: if it has gone, its memory is as it was left or is    *)
(* that of another process, or is no longer mapped.                         *)
WriteStore(u) ==
    /\ At(u, "store")
    /\ \/ /\ testid' \in IF state[target[u]] = "gone" THEN {p \in Pids : state[p] # "none"}
                       ELSE {target[u]}
          /\ mtx' = FALSE /\ stored' = stored + 1
          /\ Goto(u, "idle") /\ target' = [target EXCEPT ![u] = NULL]
       \/ /\ state[target[u]] = "gone"
          /\ Goto(u, "oops") /\ UNCHANGED <<testid, mtx, stored, target>>
    /\ UNCHANGED <<treeVars, pos, page, had, robbed, used>>

-----------------------------------------------------------------------------
(* seq_read and the sequence.  A read begins with ct_seq_start at index 0;  *)
(* without memory for the iterator, it is as if the list were empty.        *)

StartLock_Ignored(u) ==
    /\ At(u, "idle")
    /\ Calm(u)
    /\ mtx' = TRUE
    /\ Goto(u, "pick")
    /\ UNCHANGED <<treeVars, testid, target, pos, page, had, stored, used>>

StartLock(u) ==
    /\ At(u, "idle")
    /\ Calm(u)
    /\ \/ Goto(u, "end") /\ UNCHANGED <<mtx, target, had>>
       \/ /\ mtx
          /\ target' = [target EXCEPT ![u] = u] /\ Has(u, u) /\ Goto(u, "list")
          /\ UNCHANGED mtx
       \/ /\ ~mtx /\ mtx' = TRUE
          /\ Goto(u, "pick") /\ UNCHANGED <<target, had>>
    /\ UNCHANGED <<treeVars, testid, pos, page, stored, used>>

(* The process may have gone since the write: pid_task gives NULL then.     *)
StartPick(u) ==
    /\ At(u, "pick")
    /\ IF testid # 0
       THEN /\ LET found == IF Exists(testid) THEN testid ELSE NULL IN
               target' = [target EXCEPT ![u] = found] /\ Has(u, found)
            /\ robbed' = IF state[testid] = "gone" THEN robbed \cup {u} ELSE robbed
            /\ Goto(u, "reset") /\ UNCHANGED mtx
       ELSE /\ target' = [target EXCEPT ![u] = u] /\ Has(u, u)
            /\ mtx' = FALSE /\ Goto(u, "list")
            /\ UNCHANGED robbed
    /\ UNCHANGED <<treeVars, testid, pos, page, stored, used>>

StartReset(u) ==
    /\ At(u, "reset")
    /\ testid' = 0 /\ mtx' = FALSE /\ used' = used + 1
    /\ Goto(u, "list")
    /\ UNCHANGED <<treeVars, target, pos, page, had, robbed, stored>>

(* Whether the walk of u is at memory that is no list node of a process.    *)
Stale(u) ==
    \/ state[target[u]] = "gone"
    \/ pos[u].kind = "task" /\ state[pos[u].pid] = "gone"

StartList_EmptyToo(u) ==
    /\ At(u, "list")
    /\ pos' = [pos EXCEPT ![u] = HeadNode(IF target[u] = NULL THEN 1 ELSE target[u])]
    /\ Goto(u, IF target[u] = NULL THEN "oops"
               ELSE IF state[target[u]] = "gone" THEN "lost"
               ELSE "count")
    /\ UNCHANGED <<treeVars, testid, mtx, target, page, had, robbed, stored, used>>

StartList(u) ==
    /\ At(u, "list")
    /\ pos' = [pos EXCEPT ![u] = HeadNode(IF target[u] = NULL THEN 1 ELSE target[u])]
    /\ Goto(u, IF target[u] = NULL THEN "oops"
               ELSE IF state[target[u]] = "gone" THEN "lost"
               ELSE IF children[target[u]] = <<>> THEN "end"
               ELSE "count")
    /\ UNCHANGED <<treeVars, testid, mtx, target, page, had, robbed, stored, used>>

(* One step of a walk of u: to the next node, or what is to be done at the  *)
(* head of the list it began at.                                            *)
Walk(u, onward, over) ==
    IF Stale(u) THEN Goto(u, "lost") /\ UNCHANGED pos
    ELSE LET node == NextOf(pos[u]) IN
         /\ pos' = [pos EXCEPT ![u] = node]
         /\ Goto(u, IF node = HeadNode(target[u]) THEN over ELSE onward)

(* The children are counted in advance, list_for_each.                      *)
StartCount(u) ==
    /\ At(u, "count")
    /\ Walk(u, "count", "first")
    /\ UNCHANGED <<treeVars, testid, mtx, target, page, had, robbed, stored, used>>

StartFirst_AtSecond(u) ==
    /\ At(u, "first")
    /\ IF Stale(u) THEN Goto(u, "lost") /\ UNCHANGED pos
       ELSE pos' = [pos EXCEPT ![u] = NextOf(NextOf(pos[u]))] /\ Goto(u, "show")
    /\ UNCHANGED <<treeVars, testid, mtx, target, page, had, robbed, stored, used>>

StartFirst(u) ==
    /\ At(u, "first")
    /\ Walk(u, "show", "show")
    /\ UNCHANGED <<treeVars, testid, mtx, target, page, had, robbed, stored, used>>

(* A line that does not fit the page is dropped, and the iterator freed.    *)
PrintLine_Overlong(u) ==
    IF Len(page[u]) > PageLines
    THEN Goto(u, "stop") /\ UNCHANGED page
    ELSE page' = [page EXCEPT ![u] = Append(@, pos[u].pid)] /\ Goto(u, "next")

PrintLine(u) ==
    IF Len(page[u]) = PageLines
    THEN Goto(u, "stop") /\ UNCHANGED page
    ELSE page' = [page EXCEPT ![u] = Append(@, pos[u].pid)] /\ Goto(u, "next")

(* ct_seq_show tests task->files, which is NULL once the process has exited; *)
(* it prints 0 open files then.                                             *)
Show(u) ==
    /\ At(u, "show")
    /\ \/ /\ Stale(u) \/ pos[u].kind = "head"
          /\ Goto(u, "lost") /\ UNCHANGED page
       \/ /\ ~Stale(u) /\ pos[u].kind = "task"
          /\ IF state[pos[u].pid] = "alive" THEN Goto(u, "files") /\ UNCHANGED page
                                            ELSE PrintLine(u)
    /\ UNCHANGED <<treeVars, testid, mtx, target, pos, had, robbed, stored, used>>

(* Then it follows task->files, without a lock.  If the process has exited  *)
(* meanwhile that is NULL, or freed memory if the pointer was kept.         *)
ShowFiles(u) ==
    /\ At(u, "files")
    /\ \/ Stale(u) /\ Goto(u, "lost") /\ UNCHANGED page
       \/ ~Stale(u) /\ PrintLine(u)
       \/ /\ ~Stale(u) /\ state[pos[u].pid] # "alive"
          /\ Goto(u, "oops") /\ UNCHANGED page
    /\ UNCHANGED <<treeVars, testid, mtx, target, pos, had, robbed, stored, used>>


SeqNext(u) ==
    /\ At(u, "next")
    /\ Walk(u, "show", "again")
    /\ UNCHANGED <<treeVars, testid, mtx, target, page, had, robbed, stored, used>>

SeqStop(u) ==
    /\ At(u, "stop")
    /\ Goto(u, IF state[target[u]] = "gone" THEN "lost" ELSE "again")
    /\ UNCHANGED <<treeVars, testid, mtx, target, pos, page, had, robbed, stored, used>>

(* The page is delivered, and read again: ct_seq_start at index 1 finds no  *)
(* iterator in s->private, where nobody puts one, and returns NULL.         *)
StartAgain(u) ==
    /\ At(u, "again")
    /\ Goto(u, "end")
    /\ UNCHANGED <<treeVars, testid, mtx, target, pos, page, had, robbed, stored, used>>

(* The read returns 0 and cat ends.                                         *)
ReadEnd(u) ==
    /\ At(u, "end")
    /\ Goto(u, "idle")
    /\ target' = [target EXCEPT ![u] = NULL] /\ pos' = [pos EXCEPT ![u] = HeadNode(1)]
    /\ page' = [page EXCEPT ![u] = <<>>] /\ had' = [had EXCEPT ![u] = 0]
    /\ UNCHANGED <<treeVars, testid, mtx, robbed, stored, used>>

(* Reading memory that was freed crashes, or ends, or goes on for ever.     *)
Lost(u) ==
    /\ At(u, "lost")
    /\ Goto(u, "oops") \/ Goto(u, "end") \/ UNCHANGED pc
    /\ UNCHANGED <<treeVars, testid, mtx, target, pos, page, had, robbed, stored, used>>

-----------------------------------------------------------------------------
ct_write(u) == \/ WriteRefuse(u) \/ WriteStore(u)
               \/ \E p \in Pids : WriteFind(u, p)

ct_seq_start(u) == \/ StartPick(u) \/ StartReset(u) \/ StartList(u)
                   \/ StartCount(u) \/ StartFirst(u) \/ StartAgain(u)

seq_read(u) == \/ ct_seq_start(u) \/ Show(u) \/ ShowFiles(u) \/ SeqNext(u) \/ SeqStop(u)
               \/ ReadEnd(u)

(* What the others do: only init and processes that are no users.           *)
Processes ==
    /\ \E p, c \in Pids \ Users : Fork(p, c) \/ Exit(p) \/ Reap(c)
    /\ UNCHANGED <<testid, mtx, userVars, stored, used>>

Next ==
    \/ Processes
    \/ \E u \in Users : \/ stored < MaxWrites /\ WriteLock(u)
                        \/ ct_write(u) \/ StartLock(u) \/ seq_read(u) \/ Lost(u)

Spec == Init /\ [][Next]_vars

(* A cat that has begun goes on; nothing is assumed of who starts what.     *)
FairSpec == Spec /\ \A u \in Users : WF_vars(seq_read(u))

-----------------------------------------------------------------------------
Nodes == {TaskNode(p) : p \in Pids} \cup {HeadNode(p) : p \in Pids}

(* The type invariant.                                                      *)
TypeOK ==
    /\ state \in [Pids -> {"none", "alive", "zombie", "gone"}]
    /\ children \in [Pids -> Seq(Pids)]
    /\ testid \in Pids \cup {0} /\ mtx \in BOOLEAN
    /\ pc \in [Users -> {"idle", "parse", "store", "pick", "reset", "list", "count",
                         "first", "show", "files", "next", "stop", "again", "end", "lost",
                         "oops"}]
    /\ target \in [Users -> Pids \cup {NULL}] /\ pos \in [Users -> Nodes]
    /\ page \in [Users -> Seq(Pids)] /\ \A u \in Users : Len(page[u]) <= PageLines
    /\ had \in [Users -> Nat] /\ robbed \subseteq Users
    /\ stored \in 0 .. MaxWrites /\ used \in Nat

(* A pid that was written is used for one read at most (proc_seq_ops.c:120, *)
(* once only): two reads, or a read and a write, never find the same one.   *)
PidUsedOnce == used + (IF testid # 0 THEN 1 ELSE 0) <= stored

(* What fits the page of n lines.                                           *)
Fit(n) == IF n < PageLines THEN n ELSE PageLines

(* A cat whose process has not gone or lost children lists these, in order  *)
(* and once each, as far as they fit the page: at least those there were    *)
(* when it began, and the first of those that were made meanwhile.          *)
ListIsExact ==
    \A u \in Users \ robbed : At(u, "end") /\ target[u] # NULL =>
        LET list == children[target[u]] IN
        \E n \in Fit(had[u]) .. Fit(Len(list)) : page[u] = SubSeq(list, 1, n)

(* The process u was showing when it crashed has exited.                    *)
Startled(u) == At(u, "oops") /\ pos[u].kind = "task" /\ state[pos[u].pid] # "alive"

(* A read or a write walks over freed memory only when the process it is    *)
(* about goes, or loses children, meanwhile or between the write and the    *)
(* read.  It crashes only then, or when the child it is showing exits, which *)
(* stays in the list but has no files any more (proc_seq_ops.c:253): never  *)
(* because of a process that is made, or of another child that exits.       *)
CrashNeedsExit ==
    \A u \in Users : /\ At(u, "lost") => u \in robbed
                     /\ At(u, "oops") => u \in robbed \/ Startled(u)

Reading(u) ==
    pc[u] \in {"list", "count", "first", "show", "files", "next", "stop", "again"}

(* A cat ends, unless its process goes or loses children, or the child it   *)
(* is showing exits: not even one to which children are added as it reads   *)
(* goes on for ever.                                                        *)
CatEnds ==
    \A u \in Users : Reading(u) ~> At(u, "end") \/ u \in robbed \/ Startled(u)
=============================================================================

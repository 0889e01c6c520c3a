-------------------------- MODULE CDDMyPs_proofs --------------------------
(***************************************************************************)
(* What /proc/myps promises, for any processes, users and page.            *)
(***************************************************************************)
EXTENDS CDDMyPs, SequenceTheorems, TLAPS

Listed(p) == 1 .. Len(children[p])

Living(p) == state[p] \in {"alive", "zombie"}

(* Every process there is but init is in one list, at one place.            *)
Lists ==
    /\ \A p \in Pids : \A k \in Listed(p) : children[p][k] # 1 /\ Living(children[p][k])
    /\ \A p, q \in Pids : \A j \in Listed(p), k \in Listed(q) :
         children[p][j] = children[q][k] => p = q /\ j = k
    /\ \A c \in Pids \ {1} : Living(c) => \E p \in Pids : \E k \in Listed(p) : children[p][k] = c

(* A walk is at a process that is or was there.                             *)
Positions ==
    \A u \in Users : pos[u].kind = "task" => pos[u].pid # 1 /\ state[pos[u].pid] # "none"

Holds(u) == pc[u] \in {"parse", "store", "pick", "reset"}

(* One user at most is where the mutex is held, and it is locked then.      *)
Mutex ==
    /\ \A u \in Users : Holds(u) => mtx
    /\ \A u, v \in Users : Holds(u) /\ Holds(v) => u = v
    /\ \A u \in Users : pc[u] = "reset" => testid # 0
    /\ \A u \in Users : pc[u] \in {"parse", "store"} => stored < MaxWrites

(* The pid stored, and that about to be, is or was that of a process.       *)
Known ==
    /\ testid # 0 => state[testid] # "none"
    /\ \A u \in Users : pc[u] = "store" => target[u] # NULL /\ state[target[u]] # "none"
    /\ \A u \in Users : pc[u] \in {"count", "first", "show", "files", "next", "stop"}
                         => target[u] # NULL

(* A user in no call has no target, and a page is filled by show only.      *)
Fresh ==
    \A u \in Users :
        /\ pc[u] \in {"idle", "parse", "pick"} => target[u] = NULL
        /\ pc[u] \in {"idle", "parse", "store", "pick"} => had[u] = 0
        /\ pc[u] \in {"idle", "parse", "store", "pick", "reset", "list", "count", "first"}
             => page[u] = <<>>

(* The page is the beginning of the list.                                   *)
Copied(u) ==
    /\ Len(page[u]) <= Len(children[target[u]])
    /\ \A k \in 1 .. Len(page[u]) : page[u][k] = children[target[u]][k]

(* A walk is at the nth process of the list.                                *)
AtChild(u, n) == n \in Listed(target[u]) /\ pos[u] = TaskNode(children[target[u]][n])

(* How far a user is that was not robbed.                                   *)
Steady(u) ==
    /\ ~At(u, "lost") /\ (At(u, "oops") => Startled(u))
    /\ target[u] # NULL => state[target[u]] # "gone"
    /\ pc[u] \in {"store", "reset", "list"} => target[u] # NULL
    /\ pc[u] \in {"count", "first"} => children[target[u]] # <<>>
    /\ pc[u] = "count" => pos[u] = HeadNode(target[u]) \/ \E k \in Listed(target[u]) : AtChild(u, k)
    /\ pc[u] = "first" => pos[u] = HeadNode(target[u])
    /\ pc[u] \in {"show", "files"} => Copied(u) /\ AtChild(u, Len(page[u]) + 1)
    /\ pc[u] = "next" => Copied(u) /\ AtChild(u, Len(page[u]))
    /\ pc[u] = "stop" => Copied(u) /\ Len(page[u]) = PageLines
    /\ pc[u] \in {"again", "end"} /\ target[u] # NULL => Copied(u)

(* What it owes: the children its process had when it began, as they fit.   *)
Owes(u) ==
    target[u] # NULL =>
        /\ had[u] <= Len(children[target[u]])
        /\ pc[u] \in {"again", "end"} => Fit(had[u]) <= Len(page[u])

Undisturbed == \A u \in Users \ robbed : Steady(u) /\ Owes(u)

(* What holds whatever the processes do, the users among them.              *)
Core == /\ TypeOK /\ Lists /\ state[1] = "alive" /\ Positions /\ Mutex /\ PidUsedOnce
        /\ Known /\ Fresh /\ Undisturbed

(* The users stay as they are.                                              *)
Staying == \A u \in Users : state[u] \in {"none", "alive"}

IInv == Core /\ Staying

-----------------------------------------------------------------------------
(* The lists. *)

(* A list without one of its elements.                                      *)
LEMMA RemoveAtProperties ==
    ASSUME NEW list \in Seq(Pids), NEW k \in 1 .. Len(list)
    PROVE  /\ RemoveAt(list, k) \in Seq(Pids)
           /\ Len(RemoveAt(list, k)) = Len(list) - 1
           /\ \A j \in 1 .. Len(list) - 1 :
                RemoveAt(list, k)[j] = IF j < k THEN list[j] ELSE list[j + 1]
<1> DEFINE front == SubSeq(list, 1, k - 1)
           back  == SubSeq(list, k + 1, Len(list))
<1>1. Len(list) \in Nat /\ \A j \in 1 .. Len(list) : list[j] \in Pids
  BY LenProperties, ElementOfSeq
<1>2. /\ front \in Seq(Pids) /\ Len(front) = k - 1
      /\ \A j \in 1 .. k - 1 : front[j] = list[j]
  <2>1. \A j \in 1 .. k - 1 : list[j] \in Pids
    BY <1>1
  <2>2. 1 \in Int /\ k - 1 \in Int
    BY <1>1
  <2>3. /\ front \in Seq(Pids) /\ Len(front) = IF 1 <= k - 1 THEN (k - 1) - 1 + 1 ELSE 0
        /\ \A j \in 1 .. (k - 1) - 1 + 1 : front[j] = list[1 + j - 1]
    BY <2>1, <2>2, SubSeqProperties
  <2> QED
    BY <2>3, <1>1
<1>3. /\ back \in Seq(Pids) /\ Len(back) = Len(list) - k
      /\ \A j \in 1 .. Len(list) - k : back[j] = list[k + j]
  <2>1. \A j \in k + 1 .. Len(list) : list[j] \in Pids
    BY <1>1
  <2>2. k + 1 \in Int /\ Len(list) \in Int
    BY <1>1
  <2>3. /\ back \in Seq(Pids)
        /\ Len(back) = IF k + 1 <= Len(list) THEN Len(list) - (k + 1) + 1 ELSE 0
        /\ \A j \in 1 .. Len(list) - (k + 1) + 1 : back[j] = list[(k + 1) + j - 1]
    BY <2>1, <2>2, SubSeqProperties
  <2> QED
    BY <2>3, <1>1
<1> HIDE DEF front, back
<1>4. /\ front \o back \in Seq(Pids) /\ Len(front \o back) = Len(front) + Len(back)
      /\ \A j \in 1 .. Len(front) + Len(back) :
           (front \o back)[j] = IF j <= Len(front) THEN front[j] ELSE back[j - Len(front)]
  BY <1>2, <1>3, ConcatProperties
<1>5. Len(front) + Len(back) = Len(list) - 1
  BY <1>1, <1>2, <1>3
<1>6. ASSUME NEW j \in 1 .. Len(list) - 1
      PROVE  (front \o back)[j] = IF j < k THEN list[j] ELSE list[j + 1]
  <2>1. CASE j < k
    BY <2>1, <1>1, <1>2, <1>4, <1>5, SMTT(30)
  <2>2. CASE ~(j < k)
    <3>1. j - (k - 1) \in 1 .. Len(list) - k /\ k + (j - (k - 1)) = j + 1
      BY <2>2, <1>1
    <3>2. back[j - (k - 1)] = list[j + 1]
      BY <3>1, <1>3
    <3> QED
      BY <2>2, <3>2, <1>1, <1>2, <1>4, <1>5, SMTT(30)
  <2> QED
    BY <2>1, <2>2
<1>7. RemoveAt(list, k) = front \o back
  BY DEF RemoveAt, front, back
<1> QED
  BY <1>4, <1>5, <1>6, <1>7

(* The lists are sequences of pids.                                         *)
LEMMA ListFacts ==
    ASSUME TypeOK, NEW p \in Pids
    PROVE  /\ children[p] \in Seq(Pids) /\ Len(children[p]) \in Nat
           /\ \A k \in Listed(p) : children[p][k] \in Pids
           /\ children[p] # <<>> <=> Len(children[p]) > 0
<1>1. children[p] \in Seq(Pids)
  BY DEF TypeOK
<1>2. Len(children[p]) \in Nat /\ \A k \in Listed(p) : children[p][k] \in Pids
  BY <1>1, LenProperties, ElementOfSeq DEF Listed
<1> QED
  BY <1>1, <1>2, EmptySeq

(* A process in a list has the parent and the place that say so.            *)
LEMMA PlaceOfChild ==
    ASSUME TypeOK, Lists, NEW p \in Pids, NEW k \in Listed(p)
    PROVE  /\ Parent(children[p][k]) = p /\ Place(children[p][k]) = k
           /\ NextOf(TaskNode(children[p][k])) =
                IF k < Len(children[p]) THEN TaskNode(children[p][k + 1]) ELSE HeadNode(p)
<1> DEFINE c == children[p][k]
<1>1. Parent(c) = p
  <2>1. \A q \in Pids : (\E j \in 1 .. Len(children[q]) : children[q][j] = c) <=> q = p
    BY DEF Lists, Listed
  <2> QED
    BY <2>1 DEF Parent
<1>2. \A j \in 1 .. Len(children[p]) : children[p][j] = c <=> j = k
  BY DEF Lists, Listed
<1>3. Place(c) = k
  <2>1. Place(c) = CHOOSE j \in 1 .. Len(children[p]) : children[p][j] = c
    BY <1>1 DEF Place
  <2> HIDE DEF c
  <2> QED
    BY <1>2, <2>1 DEF Listed
<1> QED
  BY <1>1, <1>3 DEF NextOf, TaskNode

(* From the head of a list the walk goes to its first process.              *)
LEMMA NextOfHead ==
    ASSUME TypeOK, NEW p \in Pids
    PROVE  NextOf(HeadNode(p)) =
             IF children[p] # <<>> THEN TaskNode(children[p][1]) ELSE HeadNode(p)
<1>1. Len(children[p]) \in Nat /\ (children[p] # <<>> <=> Len(children[p]) > 0)
  BY ListFacts
<1> QED
  BY <1>1 DEF NextOf, HeadNode

(* A living process is in a list.                                           *)
LEMMA IsListed ==
    ASSUME TypeOK, Lists, NEW c \in Pids, c # 1, Living(c)
    PROVE  \E p \in Pids : \E k \in Listed(p) : children[p][k] = c
  BY DEF Lists

(* A step of a walk that is not stale is to the head of a list or to a      *)
(* process in one.                                                          *)
LEMMA NextOfNode ==
    ASSUME Core, NEW u \in Users, target[u] # NULL, ~Stale(u)
    PROVE  \/ \E p \in Pids : NextOf(pos[u]) = HeadNode(p)
           \/ \E p \in Pids : \E k \in Listed(p) : NextOf(pos[u]) = TaskNode(children[p][k])
<1> USE DEF Core
<1>1. PICK p \in Pids : pos[u] = TaskNode(p) \/ pos[u] = HeadNode(p)
  <2>1. pos[u] \in Nodes
    BY DEF TypeOK
  <2> QED
    BY <2>1 DEF Nodes
<1>2. CASE pos[u] = HeadNode(p)
  <2>1. Len(children[p]) \in Nat /\ (children[p] # <<>> <=> Len(children[p]) > 0)
    BY ListFacts
  <2>2. children[p] # <<>> => 1 \in Listed(p)
    BY <2>1 DEF Listed
  <2> QED
    BY <1>2, <2>2, NextOfHead
<1>3. CASE pos[u] = TaskNode(p)
  <2>1. pos[u].kind = "task" /\ pos[u].pid = p
    BY <1>3 DEF TaskNode
  <2>2. state[p] \in {"none", "alive", "zombie", "gone"}
    BY DEF TypeOK
  <2>3. p # 1 /\ Living(p)
    BY <2>1, <2>2 DEF Positions, Stale, Living
  <2>4. PICK q \in Pids : \E k \in Listed(q) : children[q][k] = p
    BY <2>3, IsListed
  <2>5. PICK k \in Listed(q) : children[q][k] = p
    BY <2>4
  <2>6. Len(children[q]) \in Nat
    BY ListFacts
  <2>7. k < Len(children[q]) => k + 1 \in Listed(q)
    BY <2>6 DEF Listed
  <2>8. NextOf(pos[u]) =
          IF k < Len(children[q]) THEN TaskNode(children[q][k + 1]) ELSE HeadNode(q)
    BY <1>3, <2>5, PlaceOfChild
  <2> QED
    BY <2>7, <2>8
<1> QED
  BY <1>1, <1>2, <1>3

(* What that means of the next position.                                    *)
LEMMA NextOfFacts ==
    ASSUME Core, NEW u \in Users, target[u] # NULL, ~Stale(u)
    PROVE  /\ NextOf(pos[u]) \in Nodes
           /\ NextOf(pos[u]).kind = "task" =>
                NextOf(pos[u]).pid # 1 /\ state[NextOf(pos[u]).pid] # "none"
<1> USE DEF Core
<1>1. CASE \E p \in Pids : NextOf(pos[u]) = HeadNode(p)
  BY <1>1 DEF Nodes, HeadNode
<1>2. CASE \E p \in Pids : \E k \in Listed(p) : NextOf(pos[u]) = TaskNode(children[p][k])
  <2>1. PICK p \in Pids : \E k \in Listed(p) : NextOf(pos[u]) = TaskNode(children[p][k])
    BY <1>2
  <2>2. PICK k \in Listed(p) : NextOf(pos[u]) = TaskNode(children[p][k])
    BY <2>1
  <2>3. children[p][k] \in Pids
    BY ListFacts
  <2>4. children[p][k] # 1 /\ Living(children[p][k])
    BY DEF Lists
  <2> QED
    BY <2>2, <2>3, <2>4 DEF Nodes, TaskNode, Living
<1> QED
  BY <1>1, <1>2, NextOfNode

-----------------------------------------------------------------------------
(* Processes that are made, exit and are waited for. *)

(* A process that is made is at the end of the list of its parent.          *)
LEMMA ForkKeeps ==
    ASSUME TypeOK, Lists, state[1] = "alive", NEW p \in Pids, NEW c \in Pids, Fork(p, c)
    PROVE  /\ Lists' /\ children' \in [Pids -> Seq(Pids)]
           /\ state' \in [Pids -> {"none", "alive", "zombie", "gone"}]
<1>1. /\ c # 1 /\ c # p /\ state[c] = "none"
      /\ state' = [state EXCEPT ![c] = "alive"]
      /\ children' = [children EXCEPT ![p] = Append(children[p], c)]
  BY DEF Fork
<1>2. /\ Append(children[p], c) \in Seq(Pids)
      /\ Len(Append(children[p], c)) = Len(children[p]) + 1
      /\ \A k \in Listed(p) : Append(children[p], c)[k] = children[p][k]
      /\ Append(children[p], c)[Len(children[p]) + 1] = c
  BY ListFacts, AppendProperties DEF Listed
<1>3. /\ children' \in [Pids -> Seq(Pids)]
      /\ state' \in [Pids -> {"none", "alive", "zombie", "gone"}]
      /\ \A q \in Pids : state'[q] = IF q = c THEN "alive" ELSE state[q]
  BY <1>1, <1>2 DEF TypeOK
<1>4. ASSUME NEW q \in Pids
      PROVE  /\ Len(children[q]) \in Nat
             /\ Len(children'[q]) = IF q = p THEN Len(children[q]) + 1 ELSE Len(children[q])
             /\ \A k \in Listed(q) : k \in Listed(q)' /\ children'[q][k] = children[q][k]
             /\ \A k \in Listed(q)' : \/ k \in Listed(q) /\ children'[q][k] = children[q][k]
                                      \/ q = p /\ k = Len(children[p]) + 1 /\ children'[q][k] = c
  <2>1. Len(children[q]) \in Nat
    BY ListFacts
  <2>2. children'[q] = IF q = p THEN Append(children[p], c) ELSE children[q]
    BY <1>1 DEF TypeOK
  <2> QED
    BY <2>1, <2>2, <1>2 DEF Listed
<1>5. \A q \in Pids : \A k \in Listed(q) : children[q][k] # c
  BY <1>1 DEF Lists, Living
<1>6. ASSUME NEW q \in Pids, NEW k \in Listed(q)'
      PROVE  children'[q][k] # 1 /\ Living(children[q][k])'
  <2>1. CASE k \in Listed(q) /\ children'[q][k] = children[q][k]
    <3>1. children[q][k] \in Pids /\ children[q][k] # 1 /\ Living(children[q][k])
      BY <2>1, ListFacts DEF Lists
    <3> QED
      BY <2>1, <3>1, <1>3 DEF Living
  <2>2. CASE children'[q][k] = c
    BY <2>2, <1>1, <1>3 DEF Living
  <2> QED
    BY <2>1, <2>2, <1>4
<1>7. ASSUME NEW q \in Pids, NEW r \in Pids, NEW j \in Listed(q)', NEW k \in Listed(r)',
             children'[q][j] = children'[r][k]
      PROVE  q = r /\ j = k
  <2>1. \/ j \in Listed(q) /\ children'[q][j] = children[q][j]
        \/ q = p /\ j = Len(children[p]) + 1 /\ children'[q][j] = c
    BY <1>4
  <2>2. \/ k \in Listed(r) /\ children'[r][k] = children[r][k]
        \/ r = p /\ k = Len(children[p]) + 1 /\ children'[r][k] = c
    BY <1>4
  <2>3. CASE j \in Listed(q) /\ children'[q][j] = children[q][j]
    <3>1. k \in Listed(r) /\ children'[r][k] = children[r][k]
      BY <1>5, <1>7, <2>2, <2>3
    <3>2. children[q][j] = children[r][k]
      BY <1>7, <2>3, <3>1
    <3> QED
      BY <2>3, <3>1, <3>2 DEF Lists
  <2>4. CASE q = p /\ j = Len(children[p]) + 1 /\ children'[q][j] = c
    <3>1. r = p /\ k = Len(children[p]) + 1
      BY <1>5, <1>7, <2>2, <2>4
    <3> QED
      BY <2>4, <3>1
  <2> QED
    BY <2>1, <2>3, <2>4
<1>8. ASSUME NEW d \in Pids \ {1}, Living(d)'
      PROVE  \E q \in Pids : \E k \in Listed(q)' : children'[q][k] = d
  <2>1. CASE d = c
    <3>1. /\ Len(children[p]) + 1 \in Listed(p)'
          /\ children'[p][Len(children[p]) + 1] = c
      <4>1. children'[p] = Append(children[p], c) /\ Len(children[p]) \in Nat
        BY <1>1, <1>4 DEF TypeOK
      <4> QED
        BY <4>1, <1>2 DEF Listed
    <3> QED
      BY <2>1, <3>1
  <2>2. CASE d # c
    <3>1. Living(d)
      BY <1>3, <1>8, <2>2 DEF Living
    <3>2. PICK q \in Pids : \E k \in Listed(q) : children[q][k] = d
      BY <3>1 DEF Lists
    <3> QED
      BY <3>2, <1>4
  <2> QED
    BY <2>1, <2>2
<1> QED
  BY <1>3, <1>6, <1>7, <1>8 DEF Lists

(* The children of a process that exits follow those of init.               *)
LEMMA ExitKeeps ==
    ASSUME TypeOK, Lists, NEW p \in Pids, Exit(p)
    PROVE  /\ Lists' /\ children' \in [Pids -> Seq(Pids)]
           /\ state' \in [Pids -> {"none", "alive", "zombie", "gone"}]
<1> DEFINE both == children[1] \o children[p]
           m    == Len(children[1])
           n    == Len(children[p])
<1>1. 1 \in Pids
  BY MyPsAssumption DEF Pids
<1>2. /\ p # 1 /\ state[p] = "alive"
      /\ state' = [state EXCEPT ![p] = "zombie"]
      /\ children' = [children EXCEPT ![1] = both, ![p] = <<>>]
  BY DEF Exit
<1>3. /\ m \in Nat /\ n \in Nat
      /\ children[1] \in Seq(Pids) /\ children[p] \in Seq(Pids)
  BY <1>1, ListFacts
<1>4. /\ both \in Seq(Pids) /\ Len(both) = m + n
      /\ \A k \in 1 .. m + n : both[k] = IF k <= m THEN children[1][k] ELSE children[p][k - m]
  BY <1>3, ConcatProperties
<1>5. m = Len(children[1]) /\ n = Len(children[p])
  OBVIOUS
<1> HIDE DEF m, n
<1>6. <<>> \in Seq(Pids) /\ Len(<<>>) = 0
  BY EmptySeq
<1> HIDE DEF both
<1>7. /\ children' \in [Pids -> Seq(Pids)]
      /\ state' \in [Pids -> {"none", "alive", "zombie", "gone"}]
      /\ \A q \in Pids : Living(q)' <=> Living(q)
  BY <1>2, <1>4, <1>6 DEF TypeOK, Living
<1>8. \A q \in Pids : children'[q] = IF q = p THEN <<>> ELSE IF q = 1 THEN both ELSE children[q]
  BY <1>2 DEF TypeOK
<1>9. /\ Len(children'[1]) = m + n
      /\ \A k \in Listed(1) : k \in Listed(1)' /\ children'[1][k] = children[1][k]
      /\ \A k \in Listed(p) : m + k \in Listed(1)' /\ children'[1][m + k] = children[p][k]
      /\ \A k \in Listed(1)' : \/ k \in Listed(1) /\ children'[1][k] = children[1][k]
                               \/ /\ ~(k \in Listed(1)) /\ k - m \in Listed(p)
                                  /\ children'[1][k] = children[p][k - m]
  <2>1. children'[1] = both
    BY <1>1, <1>2, <1>8
  <2>2. Listed(1)' = 1 .. m + n /\ Listed(1) = 1 .. m /\ Listed(p) = 1 .. n
    BY <2>1, <1>4, <1>5 DEF Listed
  <2>3. ASSUME NEW k \in Listed(p)
        PROVE  m + k \in Listed(1)' /\ children'[1][m + k] = children[p][k]
    <3>1. k \in 1 .. n /\ m + k \in 1 .. m + n /\ ~(m + k <= m) /\ (m + k) - m = k
      BY <2>2, <2>3, <1>3
    <3> QED
      BY <2>1, <2>2, <3>1, <1>4
  <2>4. ASSUME NEW k \in Listed(1)'
        PROVE  \/ k \in Listed(1) /\ children'[1][k] = children[1][k]
               \/ /\ ~(k \in Listed(1)) /\ k - m \in Listed(p)
                  /\ children'[1][k] = children[p][k - m]
    <3>1. k \in 1 .. m + n /\ (k <= m => k \in 1 .. m) /\ (~(k <= m) => k - m \in 1 .. n)
      BY <2>2, <2>4, <1>3
    <3>2. ~(k <= m) => ~(k \in 1 .. m)
      BY <1>3
    <3> QED
      BY <2>1, <2>2, <3>1, <3>2, <1>4
  <2>5. ASSUME NEW k \in Listed(1)
        PROVE  k \in Listed(1)' /\ children'[1][k] = children[1][k]
    <3>1. k \in 1 .. m + n /\ k <= m
      BY <2>2, <2>5, <1>3
    <3> QED
      BY <2>1, <2>2, <3>1, <1>4
  <2> QED
    BY <2>1, <2>3, <2>4, <2>5, <1>4
<1>10. Listed(p)' = {} /\ \A q \in Pids \ {1, p} : children'[q] = children[q] /\ Listed(q)' = Listed(q)
  BY <1>6, <1>8 DEF Listed
<1>11. ASSUME NEW q \in Pids, NEW k \in Listed(q)'
      PROVE  \E r \in Pids : \E j \in Listed(r) :
               /\ children'[q][k] = children[r][j]
               /\ \/ q # 1 /\ r = q /\ j = k
                  \/ q = 1 /\ r = 1 /\ j = k
                  \/ q = 1 /\ r = p /\ j = k - m
  BY <1>1, <1>9, <1>10
<1>12. ASSUME NEW q \in Pids, NEW k \in Listed(q)'
       PROVE  children'[q][k] # 1 /\ Living(children[q][k])'
  <2>1. PICK r \in Pids : \E j \in Listed(r) : children'[q][k] = children[r][j]
    BY <1>11
  <2>2. PICK j \in Listed(r) : children'[q][k] = children[r][j]
    BY <2>1
  <2>3. children[r][j] \in Pids /\ children[r][j] # 1 /\ Living(children[r][j])
    BY ListFacts DEF Lists
  <2> QED
    BY <2>2, <2>3, <1>7 DEF Living
<1>13. ASSUME NEW q \in Pids, NEW r \in Pids, NEW j \in Listed(q)', NEW k \in Listed(r)',
              children'[q][j] = children'[r][k]
       PROVE  q = r /\ j = k
  <2>1. q # p /\ r # p
    BY <1>10
  <2>2. PICK q0 \in Pids : \E j0 \in Listed(q0) :
               /\ children'[q][j] = children[q0][j0]
               /\ \/ q # 1 /\ q0 = q /\ j0 = j
                  \/ q = 1 /\ q0 = 1 /\ j0 = j
                  \/ q = 1 /\ q0 = p /\ j0 = j - m
    BY <1>11
  <2>3. PICK r0 \in Pids : \E k0 \in Listed(r0) :
               /\ children'[r][k] = children[r0][k0]
               /\ \/ r # 1 /\ r0 = r /\ k0 = k
                  \/ r = 1 /\ r0 = 1 /\ k0 = k
                  \/ r = 1 /\ r0 = p /\ k0 = k - m
    BY <1>11
  <2>4. q0 = r0
    BY <1>13, <2>2, <2>3 DEF Lists
  <2>5. j \in Int /\ k \in Int
    BY DEF Listed
  <2> QED
    BY <1>2, <1>3, <1>13, <2>1, <2>2, <2>3, <2>4, <2>5 DEF Lists
<1>14. ASSUME NEW d \in Pids \ {1}, Living(d)'
       PROVE  \E q \in Pids : \E k \in Listed(q)' : children'[q][k] = d
  <2>1. PICK q \in Pids : \E k \in Listed(q) : children[q][k] = d
    BY <1>7, <1>14 DEF Lists
  <2> QED
    BY <1>1, <2>1, <1>9, <1>10
<1> QED
  BY <1>7, <1>12, <1>13, <1>14 DEF Lists

(* A process that is waited for is taken from the list of its parent.       *)
LEMMA ReapKeeps ==
    ASSUME TypeOK, Lists, state[1] = "alive", NEW c \in Pids, Reap(c)
    PROVE  /\ Lists' /\ children' \in [Pids -> Seq(Pids)]
           /\ state' \in [Pids -> {"none", "alive", "zombie", "gone"}]
<1>1. c # 1 /\ state[c] = "zombie" /\ Living(c)
  BY DEF Reap, Living
<1>2. PICK p \in Pids : \E k \in Listed(p) : children[p][k] = c
  BY <1>1 DEF Lists
<1>3. PICK k \in Listed(p) : children[p][k] = c
  BY <1>2
<1> DEFINE rest == RemoveAt(children[p], k)
           n    == Len(children[p])
<1>4. /\ state' = [state EXCEPT ![c] = "gone"]
      /\ children' = [children EXCEPT ![p] = rest]
  <2>1. Parent(c) = p /\ Place(c) = k
    BY <1>3, PlaceOfChild
  <2> QED
    BY <2>1 DEF Reap
<1>5. /\ children[p] \in Seq(Pids) /\ n \in Nat /\ k \in 1 .. n
      /\ rest \in Seq(Pids) /\ Len(rest) = n - 1
      /\ \A j \in 1 .. n - 1 : rest[j] = IF j < k THEN children[p][j] ELSE children[p][j + 1]
  BY <1>3, ListFacts, RemoveAtProperties DEF Listed
<1> HIDE DEF rest
<1>6. /\ children' \in [Pids -> Seq(Pids)]
      /\ state' \in [Pids -> {"none", "alive", "zombie", "gone"}]
      /\ \A q \in Pids : Living(q)' <=> Living(q) /\ q # c
  BY <1>1, <1>4, <1>5 DEF TypeOK, Living
<1>7. /\ \A j \in Listed(p)' : \/ j < k /\ j \in Listed(p) /\ children'[p][j] = children[p][j]
                               \/ j >= k /\ j + 1 \in Listed(p) /\ children'[p][j] = children[p][j + 1]
      /\ \A j \in Listed(p) : /\ j < k => j \in Listed(p)' /\ children'[p][j] = children[p][j]
                              /\ j > k => j - 1 \in Listed(p)' /\ children'[p][j - 1] = children[p][j]
  <2>1. children'[p] = rest
    BY <1>4 DEF TypeOK
  <2>2. ASSUME NEW j \in Listed(p)'
        PROVE  \/ j < k /\ j \in Listed(p) /\ children'[p][j] = children[p][j]
               \/ j >= k /\ j + 1 \in Listed(p) /\ children'[p][j] = children[p][j + 1]
    <3>1. j \in 1 .. n - 1
      BY <2>1, <2>2, <1>5 DEF Listed
    <3> QED
      BY <2>1, <3>1, <1>5 DEF Listed
  <2>3. ASSUME NEW j \in Listed(p), j < k
        PROVE  j \in Listed(p)' /\ children'[p][j] = children[p][j]
    <3>1. j \in 1 .. n - 1
      BY <2>3, <1>5 DEF Listed
    <3> QED
      BY <2>1, <2>3, <3>1, <1>5 DEF Listed
  <2>4. ASSUME NEW j \in Listed(p), j > k
        PROVE  j - 1 \in Listed(p)' /\ children'[p][j - 1] = children[p][j]
    <3>1. j - 1 \in 1 .. n - 1 /\ ~(j - 1 < k) /\ (j - 1) + 1 = j
      BY <2>4, <1>5 DEF Listed
    <3>2. rest[j - 1] = children[p][j]
      BY <3>1, <1>5
    <3> QED
      BY <2>1, <3>1, <3>2, <1>5 DEF Listed
  <2> QED
    BY <2>2, <2>3, <2>4
<1>8. \A q \in Pids \ {p} : children'[q] = children[q] /\ Listed(q)' = Listed(q)
  BY <1>4 DEF TypeOK, Listed
<1>9. \A j \in Listed(p) : children[p][j] = c => j = k
  BY <1>3 DEF Lists
<1>10. \A q \in Pids \ {p} : \A j \in Listed(q) : children[q][j] # c
  BY <1>3 DEF Lists
<1>11. \A q \in Pids : \A j \in Listed(q) : j \in Int /\ k \in Int
  BY <1>5 DEF Listed
<1>12. ASSUME NEW q \in Pids, NEW j \in Listed(q)'
       PROVE  children'[q][j] # 1 /\ Living(children[q][j])'
  <2>1. CASE q = p
    <3>1. PICK i \in Listed(p) : i # k /\ children'[p][j] = children[p][i]
      <4>1. j \in Listed(p)' /\ j \in Int /\ k \in Int
        BY <1>11, <1>12, <2>1 DEF Listed
      <4>2. CASE j < k /\ j \in Listed(p) /\ children'[p][j] = children[p][j]
        BY <4>1, <4>2
      <4>3. CASE j >= k /\ j + 1 \in Listed(p) /\ children'[p][j] = children[p][j + 1]
        BY <4>1, <4>3
      <4> QED
        BY <4>1, <4>2, <4>3, <1>7
    <3>2. children[p][i] \in Pids /\ children[p][i] # 1 /\ Living(children[p][i])
      BY ListFacts DEF Lists
    <3> QED
      BY <2>1, <3>1, <3>2, <1>6, <1>9 DEF Living
  <2>2. CASE q # p
    <3>1. j \in Listed(q) /\ children'[q][j] = children[q][j]
      BY <2>2, <1>8
    <3>2. children[q][j] \in Pids /\ children[q][j] # 1 /\ Living(children[q][j])
      BY <3>1, ListFacts DEF Lists
    <3> QED
      BY <2>2, <3>1, <3>2, <1>6, <1>10 DEF Living
  <2> QED
    BY <2>1, <2>2
<1>13. ASSUME NEW q \in Pids, NEW r \in Pids, NEW i \in Listed(q)', NEW j \in Listed(r)',
              children'[q][i] = children'[r][j]
       PROVE  q = r /\ i = j
  <2>1. CASE q # p \/ r # p
    BY <1>7, <1>8, <1>13, <2>1 DEF Lists
  <2>2. CASE q = p /\ r = p
    <3>1. i \in Int /\ j \in Int
      BY DEF Listed
    <3> QED
      BY <1>7, <1>11, <1>13, <2>2, <3>1 DEF Lists
  <2> QED
    BY <2>1, <2>2
<1>14. ASSUME NEW d \in Pids \ {1}, Living(d)'
       PROVE  \E q \in Pids : \E j \in Listed(q)' : children'[q][j] = d
  <2>1. Living(d) /\ d # c
    BY <1>6, <1>14
  <2>2. PICK q \in Pids : \E j \in Listed(q) : children[q][j] = d
    BY <2>1 DEF Lists
  <2>3. PICK j \in Listed(q) : children[q][j] = d
    BY <2>2
  <2>4. CASE q = p
    <3>1. j < k \/ j > k
      BY <1>3, <1>11, <2>1, <2>3, <2>4
    <3> QED
      BY <1>7, <2>3, <2>4, <3>1
  <2>5. CASE q # p
    BY <1>8, <2>3, <2>5
  <2> QED
    BY <2>4, <2>5
<1> QED
  BY <1>6, <1>12, <1>13, <1>14 DEF Lists

-----------------------------------------------------------------------------
(* What a user does. *)

UserStep(v) ==
    \/ stored < MaxWrites /\ WriteLock(v)
    \/ ct_write(v) \/ StartLock(v) \/ seq_read(v) \/ Lost(v)

(* A user leaves the processes alone.                                       *)
LEMMA UserLeavesTree ==
    ASSUME NEW v \in Users, UserStep(v)
    PROVE  UNCHANGED <<state, children>>
  BY DEF UserStep, ct_write, ct_seq_start, seq_read, vars, treeVars, WriteLock,
       WriteRefuse, WriteStore, WriteFind, WriteFindIf, StartLock, StartPick,
       StartReset, StartList, StartCount, StartFirst, Show, ShowFiles, PrintLine, SeqNext,
       SeqStop, StartAgain, ReadEnd, Lost

(* Where a user walks it has a target, and is stale or goes on.             *)
LEMMA WalkFacts ==
    ASSUME Core, NEW v \in Users, pc[v] \in {"count", "first", "next"}, ~Stale(v)
    PROVE  /\ NextOf(pos[v]) \in Nodes
           /\ NextOf(pos[v]).kind = "task" =>
                NextOf(pos[v]).pid # 1 /\ state[NextOf(pos[v]).pid] # "none"
<1>1. target[v] # NULL
  BY DEF Core, Known
<1> QED
  BY <1>1, NextOfFacts

(* A line that is printed fits the page.                                    *)
LEMMA LineIsTyped ==
    ASSUME TypeOK, NEW v \in Users, Len(page[v]) # PageLines,
           page' = [page EXCEPT ![v] = Append(page[v], pos[v].pid)]
    PROVE  page' \in [Users -> Seq(Pids)] /\ \A u \in Users : Len(page'[u]) <= PageLines
<1>1. page[v] \in Seq(Pids) /\ Len(page[v]) \in Nat /\ Len(page[v]) <= PageLines
  BY LenProperties DEF TypeOK
<1>2. pos[v].pid \in Pids
  BY DEF TypeOK, Nodes, TaskNode, HeadNode
<1>3. /\ Append(page[v], pos[v].pid) \in Seq(Pids)
      /\ Len(Append(page[v], pos[v].pid)) = Len(page[v]) + 1
  BY <1>1, <1>2, AppendProperties
<1>4. Len(page[v]) + 1 <= PageLines
  BY <1>1, MyPsAssumption
<1> QED
  BY <1>3, <1>4 DEF TypeOK

(* Types: a page is never longer than it may be, no write is one too many.  *)
LEMMA UserTypes ==
    ASSUME Core, NEW v \in Users, UserStep(v)
    PROVE  TypeOK'
<1> USE DEF Core
<1>1. CASE stored < MaxWrites /\ WriteLock(v)
  BY <1>1 DEF TypeOK, WriteLock, Calm, At, Goto, vars, treeVars, userVars
<1>2. CASE WriteRefuse(v)
  BY <1>2 DEF TypeOK, At, Goto, treeVars, vars, NULL, WriteRefuse
<1>3. CASE WriteStore(v)
  <2>1. stored < MaxWrites /\ target[v] \in Pids
    BY <1>3 DEF WriteStore, At, Mutex, Known, TypeOK, NULL
  <2>2. stored' \in 0 .. MaxWrites
    BY <1>3, <2>1, MyPsAssumption DEF WriteStore, TypeOK
  <2>3. testid' \in Pids \cup {0}
    BY <1>3, <2>1 DEF WriteStore, TypeOK
  <2>4. /\ pc' \in [Users -> {"idle", "parse", "store", "pick", "reset", "list", "count",
                         "first", "show", "files", "next", "stop", "again", "end", "lost",
                         "oops"}]
        /\ target' \in [Users -> Pids \cup {NULL}] /\ mtx' \in BOOLEAN
    BY <1>3 DEF WriteStore, Goto, TypeOK, NULL
  <2> QED
    BY <1>3, <2>2, <2>3, <2>4 DEF TypeOK, WriteStore, treeVars
<1>4. CASE StartLock(v)
  <2>1. pc' \in [Users -> {"idle", "parse", "store", "pick", "reset", "list", "count",
                         "first", "show", "files", "next", "stop", "again", "end", "lost",
                         "oops"}]
    BY <1>4 DEF StartLock, Goto, TypeOK
  <2>2. target' \in [Users -> Pids \cup {NULL}]
    BY <1>4, MyPsAssumption DEF StartLock, TypeOK, NULL
  <2>3. mtx' \in BOOLEAN
    BY <1>4, Zenon DEF StartLock, TypeOK
  <2>4. had' \in [Users -> Nat] /\ robbed' \subseteq Users
    <3>1. v \in Pids /\ v # NULL
      BY MyPsAssumption DEF Pids, NULL
    <3>2. Len(children[v]) \in Nat
      BY <3>1, ListFacts
    <3>3. had' = had \/ had' = [had EXCEPT ![v] = Len(children[v])]
      BY <1>4, <3>1 DEF StartLock, Has
    <3> QED
      BY <1>4, <3>2, <3>3 DEF StartLock, Calm, TypeOK
  <2> QED
    BY <1>4, <2>1, <2>2, <2>3, <2>4 DEF TypeOK, StartLock, treeVars
<1>5. CASE StartPick(v)
  <2>1. pc' \in [Users -> {"idle", "parse", "store", "pick", "reset", "list", "count",
                         "first", "show", "files", "next", "stop", "again", "end", "lost",
                         "oops"}]
    BY <1>5 DEF StartPick, Goto, TypeOK
  <2>2. target' \in [Users -> Pids \cup {NULL}]
    BY <1>5, MyPsAssumption DEF StartPick, Exists, TypeOK, NULL
  <2>3. mtx' \in BOOLEAN
    BY <1>5, Zenon DEF StartPick, TypeOK
  <2>4. robbed' \subseteq Users
    BY <1>5 DEF StartPick, TypeOK
  <2>5. had' \in [Users -> Nat]
    <3>1. v \in Pids /\ (testid # 0 => testid \in Pids)
      BY MyPsAssumption DEF TypeOK
    <3>2. Len(children[v]) \in Nat /\ (testid # 0 => Len(children[testid]) \in Nat)
      BY <3>1, ListFacts
    <3>3. \E n \in Nat : had' = [had EXCEPT ![v] = n]
      BY <1>5, <3>2 DEF StartPick, Has, NULL
    <3> QED
      BY <3>3 DEF TypeOK
  <2> QED
    BY <1>5, <2>1, <2>2, <2>3, <2>4, <2>5 DEF TypeOK, StartPick, treeVars
<1>6. CASE StartReset(v)
  <2>1. pc' \in [Users -> {"idle", "parse", "store", "pick", "reset", "list", "count",
                         "first", "show", "files", "next", "stop", "again", "end", "lost",
                         "oops"}]
    BY <1>6 DEF StartReset, Goto, TypeOK
  <2>2. testid' \in Pids \cup {0} /\ used' \in Nat
    BY <1>6 DEF StartReset, TypeOK
  <2>3. mtx' \in BOOLEAN
    BY <1>6 DEF StartReset
  <2> QED
    BY <1>6, <2>1, <2>2, <2>3 DEF TypeOK, StartReset, treeVars
<1>7. CASE StartList(v)
  <2>1. HeadNode(IF target[v] = NULL THEN 1 ELSE target[v]) \in Nodes
    <3>1. 1 \in Pids /\ target[v] \in Pids \cup {NULL}
      BY MyPsAssumption DEF TypeOK, Pids
    <3> QED
      BY <3>1 DEF Nodes
  <2>2. pos' \in [Users -> Nodes]
    BY <1>7, <2>1 DEF StartList, TypeOK
  <2> QED
    BY <1>7, <2>2 DEF TypeOK, StartList, At, Goto, treeVars
<1>8. CASE StartCount(v)
  <2>1. pos' \in [Users -> Nodes]
    BY <1>8, WalkFacts DEF StartCount, Walk, At, TypeOK
  <2>2. pc' \in [Users -> {"idle", "parse", "store", "pick", "reset", "list", "count",
                         "first", "show", "files", "next", "stop", "again", "end", "lost",
                         "oops"}]
    BY <1>8 DEF StartCount, Walk, Goto, TypeOK
  <2> QED
    BY <1>8, <2>1, <2>2 DEF TypeOK, StartCount, treeVars
<1>9. CASE StartFirst(v)
  <2>1. pos' \in [Users -> Nodes]
    BY <1>9, WalkFacts DEF StartFirst, Walk, At, TypeOK
  <2>2. pc' \in [Users -> {"idle", "parse", "store", "pick", "reset", "list", "count",
                         "first", "show", "files", "next", "stop", "again", "end", "lost",
                         "oops"}]
    BY <1>9 DEF StartFirst, Walk, Goto, TypeOK
  <2> QED
    BY <1>9, <2>1, <2>2 DEF TypeOK, StartFirst, treeVars
<1>10. CASE Show(v)
  <2>1. CASE UNCHANGED page
    BY <1>10, <2>1 DEF TypeOK, Show, PrintLine, At, Goto, treeVars
  <2>2. CASE page' = [page EXCEPT ![v] = Append(page[v], pos[v].pid)] /\ Len(page[v]) # PageLines
    BY <1>10, <2>2, LineIsTyped DEF TypeOK, Show, PrintLine, At, Goto, treeVars
  <2> QED
    BY <1>10, <2>1, <2>2 DEF Show, PrintLine
<1>11. CASE SeqNext(v)
  <2>1. pos' \in [Users -> Nodes]
    BY <1>11, WalkFacts DEF SeqNext, Walk, At, TypeOK
  <2>2. pc' \in [Users -> {"idle", "parse", "store", "pick", "reset", "list", "count",
                         "first", "show", "files", "next", "stop", "again", "end", "lost",
                         "oops"}]
    BY <1>11 DEF SeqNext, Walk, Goto, TypeOK
  <2> QED
    BY <1>11, <2>1, <2>2 DEF TypeOK, SeqNext, treeVars
<1>12. CASE SeqStop(v)
  BY <1>12 DEF TypeOK, At, Goto, treeVars, vars, NULL, SeqStop
<1>13. CASE StartAgain(v)
  BY <1>13 DEF TypeOK, At, Goto, treeVars, vars, NULL, StartAgain
<1>14. CASE ReadEnd(v)
  <2>1. HeadNode(1) \in Nodes /\ <<>> \in Seq(Pids) /\ Len(<<>>) = 0
    BY MyPsAssumption, EmptySeq DEF Nodes, Pids
  <2>2. pos' \in [Users -> Nodes] /\ page' \in [Users -> Seq(Pids)]
    BY <1>14, <2>1 DEF ReadEnd, TypeOK
  <2>3. \A u \in Users : Len(page'[u]) <= PageLines
    BY <1>14, <2>1, MyPsAssumption DEF ReadEnd, TypeOK
  <2> QED
    BY <1>14, <2>2, <2>3 DEF TypeOK, ReadEnd, At, Goto, treeVars, NULL
<1>15. CASE Lost(v)
  BY <1>15 DEF TypeOK, At, Goto, treeVars, vars, NULL, Lost
<1>16. ASSUME NEW p \in Pids, WriteFind(v, p) PROVE TypeOK'
  BY <1>16 DEF TypeOK, At, Goto, treeVars, vars, NULL, WriteFind, WriteFindIf, Exists
<1>17. CASE ShowFiles(v)
  <2>1. CASE UNCHANGED page
    BY <1>17, <2>1 DEF TypeOK, ShowFiles, PrintLine, At, Goto, treeVars
  <2>2. CASE page' = [page EXCEPT ![v] = Append(page[v], pos[v].pid)] /\ Len(page[v]) # PageLines
    BY <1>17, <2>2, LineIsTyped DEF TypeOK, ShowFiles, PrintLine, At, Goto, treeVars
  <2> QED
    BY <1>17, <2>1, <2>2 DEF ShowFiles, PrintLine
<1> QED
  BY <1>1, <1>2, <1>3, <1>4, <1>5, <1>6, <1>7, <1>8, <1>9, <1>10, <1>11, <1>12,
       <1>13, <1>14, <1>15, <1>16, <1>17
     DEF UserStep, ct_write, ct_seq_start, seq_read

(* Whether it goes on or is over, a step of a walk leaves it at a node.      *)
LEMMA WalkKeepsPositions ==
    ASSUME Core, NEW v \in Users, pc[v] \in {"count", "first", "next"},
           NEW onward, NEW over, Walk(v, onward, over), UNCHANGED state
    PROVE  Positions'
<1>1. pos \in [Users -> Nodes] /\ Positions
  BY DEF Core, TypeOK
<1>2. \/ pos' = pos
      \/ ~Stale(v) /\ pos' = [pos EXCEPT ![v] = NextOf(pos[v])]
  BY DEF Walk
<1>3. CASE pos' = pos
  BY <1>1, <1>3 DEF Positions
<1>4. CASE ~Stale(v) /\ pos' = [pos EXCEPT ![v] = NextOf(pos[v])]
  <2>1. NextOf(pos[v]).kind = "task" =>
          NextOf(pos[v]).pid # 1 /\ state[NextOf(pos[v]).pid] # "none"
    BY <1>4, WalkFacts
  <2>2. \A u \in Users : pos'[u] = IF u = v THEN NextOf(pos[v]) ELSE pos[u]
    BY <1>1, <1>4
  <2> QED
    BY <1>1, <2>1, <2>2 DEF Positions
<1> QED
  BY <1>2, <1>3, <1>4

(* A walk goes to nodes of processes and to heads.                          *)
LEMMA UserPositions ==
    ASSUME Core, NEW v \in Users, UserStep(v)
    PROVE  Positions'
<1> USE DEF Core
<1>1. CASE WriteLock(v)
  BY <1>1 DEF Positions, TypeOK, At, Goto, treeVars, vars, HeadNode, WriteLock, userVars
<1>2. CASE WriteRefuse(v)
  BY <1>2 DEF Positions, TypeOK, At, Goto, treeVars, vars, HeadNode, WriteRefuse
<1>3. CASE WriteStore(v)
  BY <1>3 DEF Positions, TypeOK, At, Goto, treeVars, vars, HeadNode, WriteStore
<1>4. CASE StartLock(v)
  BY <1>4 DEF Positions, TypeOK, At, Goto, treeVars, vars, HeadNode, StartLock
<1>5. CASE StartPick(v)
  BY <1>5 DEF Positions, TypeOK, At, Goto, treeVars, vars, HeadNode, StartPick, Exists
<1>6. CASE StartReset(v)
  BY <1>6 DEF Positions, TypeOK, At, Goto, treeVars, vars, HeadNode, StartReset
<1>7. CASE StartList(v)
  BY <1>7 DEF Positions, TypeOK, At, Goto, treeVars, vars, HeadNode, StartList
<1>8. CASE StartCount(v)
  BY <1>8, WalkKeepsPositions DEF StartCount, At, treeVars
<1>9. CASE StartFirst(v)
  BY <1>9, WalkKeepsPositions DEF StartFirst, At, treeVars
<1>10. CASE Show(v)
  BY <1>10 DEF Positions, TypeOK, At, Goto, treeVars, vars, HeadNode, Show, PrintLine
<1>11. CASE SeqNext(v)
  BY <1>11, WalkKeepsPositions DEF SeqNext, At, treeVars
<1>12. CASE SeqStop(v)
  BY <1>12 DEF Positions, TypeOK, At, Goto, treeVars, vars, HeadNode, SeqStop
<1>13. CASE StartAgain(v)
  BY <1>13 DEF Positions, TypeOK, At, Goto, treeVars, vars, HeadNode, StartAgain
<1>14. CASE ReadEnd(v)
  BY <1>14 DEF Positions, TypeOK, At, Goto, treeVars, vars, HeadNode, ReadEnd
<1>15. CASE Lost(v)
  BY <1>15 DEF Positions, TypeOK, At, Goto, treeVars, vars, HeadNode, Lost
<1>16. ASSUME NEW p \in Pids, WriteFind(v, p) PROVE Positions'
  BY <1>16 DEF Positions, TypeOK, At, Goto, treeVars, vars, HeadNode, WriteFind,
       WriteFindIf, Exists
<1>17. CASE ShowFiles(v)
  BY <1>17 DEF Positions, TypeOK, At, Goto, treeVars, vars, HeadNode, ShowFiles,
       PrintLine
<1> QED
  BY <1>1, <1>2, <1>3, <1>4, <1>5, <1>6, <1>7, <1>8, <1>9, <1>10, <1>11, <1>12,
       <1>13, <1>14, <1>15, <1>16, <1>17
     DEF UserStep, ct_write, ct_seq_start, seq_read

(* The mutex is left by who took it.                                        *)
LEMMA UserMutex ==
    ASSUME Core, NEW v \in Users, UserStep(v)
    PROVE  Mutex'
<1> USE DEF Core
<1>1. CASE stored < MaxWrites /\ WriteLock(v)
  BY <1>1 DEF Mutex, Holds, TypeOK, WriteLock, At, Goto, vars, treeVars, userVars
<1>2. CASE WriteRefuse(v)
  BY <1>2 DEF Mutex, Holds, TypeOK, At, Goto, treeVars, vars, WriteRefuse
<1>3. CASE WriteStore(v)
  BY <1>3 DEF Mutex, Holds, TypeOK, At, Goto, treeVars, vars, WriteStore
<1>4. CASE StartLock(v)
  BY <1>4 DEF Mutex, Holds, TypeOK, At, Goto, treeVars, vars, StartLock
<1>5. CASE StartPick(v)
  BY <1>5 DEF Mutex, Holds, TypeOK, At, Goto, treeVars, vars, StartPick, Exists
<1>6. CASE StartReset(v)
  BY <1>6 DEF Mutex, Holds, TypeOK, At, Goto, treeVars, vars, StartReset
<1>7. CASE StartList(v)
  BY <1>7 DEF Mutex, Holds, TypeOK, At, Goto, treeVars, vars, StartList
<1>8. CASE StartCount(v)
  BY <1>8 DEF Mutex, Holds, TypeOK, At, Goto, treeVars, vars, StartCount, Walk
<1>9. CASE StartFirst(v)
  BY <1>9 DEF Mutex, Holds, TypeOK, At, Goto, treeVars, vars, StartFirst, Walk
<1>10. CASE Show(v)
  BY <1>10 DEF Mutex, Holds, TypeOK, At, Goto, treeVars, vars, Show, PrintLine
<1>11. CASE SeqNext(v)
  BY <1>11 DEF Mutex, Holds, TypeOK, At, Goto, treeVars, vars, SeqNext, Walk
<1>12. CASE SeqStop(v)
  BY <1>12 DEF Mutex, Holds, TypeOK, At, Goto, treeVars, vars, SeqStop
<1>13. CASE StartAgain(v)
  BY <1>13 DEF Mutex, Holds, TypeOK, At, Goto, treeVars, vars, StartAgain
<1>14. CASE ReadEnd(v)
  BY <1>14 DEF Mutex, Holds, TypeOK, At, Goto, treeVars, vars, ReadEnd
<1>15. CASE Lost(v)
  BY <1>15 DEF Mutex, Holds, TypeOK, At, Goto, treeVars, vars, Lost
<1>16. ASSUME NEW p \in Pids, WriteFind(v, p) PROVE Mutex'
  BY <1>16 DEF Mutex, Holds, TypeOK, At, Goto, treeVars, vars, WriteFind,
       WriteFindIf, Exists
<1>17. CASE ShowFiles(v)
  BY <1>17 DEF Mutex, Holds, TypeOK, At, Goto, treeVars, vars, ShowFiles, PrintLine
<1> QED
  BY <1>1, <1>2, <1>3, <1>4, <1>5, <1>6, <1>7, <1>8, <1>9, <1>10, <1>11, <1>12,
       <1>13, <1>14, <1>15, <1>16, <1>17
     DEF UserStep, ct_write, ct_seq_start, seq_read

(* Only who holds the mutex stores, uses or resets a pid.                   *)
LEMMA UserUsesOnce ==
    ASSUME Core, NEW v \in Users, UserStep(v)
    PROVE  PidUsedOnce'
<1> USE DEF Core
<1>1. CASE WriteLock(v)
  BY <1>1, MyPsAssumption DEF PidUsedOnce, Mutex, TypeOK, At, Goto, treeVars, vars,
       WriteLock, userVars
<1>2. CASE WriteRefuse(v)
  BY <1>2, MyPsAssumption DEF PidUsedOnce, Mutex, TypeOK, At, Goto, treeVars, vars,
       WriteRefuse
<1>3. CASE WriteStore(v)
  BY <1>3, MyPsAssumption DEF PidUsedOnce, Mutex, TypeOK, At, Goto, treeVars, vars,
       WriteStore
<1>4. CASE StartLock(v)
  BY <1>4, MyPsAssumption DEF PidUsedOnce, Mutex, TypeOK, At, Goto, treeVars, vars,
       StartLock
<1>5. CASE StartPick(v)
  BY <1>5, MyPsAssumption DEF PidUsedOnce, Mutex, TypeOK, At, Goto, treeVars, vars,
       StartPick, Exists
<1>6. CASE StartReset(v)
  BY <1>6, MyPsAssumption DEF PidUsedOnce, Mutex, TypeOK, At, Goto, treeVars, vars,
       StartReset
<1>7. CASE StartList(v)
  BY <1>7, MyPsAssumption DEF PidUsedOnce, Mutex, TypeOK, At, Goto, treeVars, vars,
       StartList
<1>8. CASE StartCount(v)
  BY <1>8, MyPsAssumption DEF PidUsedOnce, Mutex, TypeOK, At, Goto, treeVars, vars,
       StartCount, Walk
<1>9. CASE StartFirst(v)
  BY <1>9, MyPsAssumption DEF PidUsedOnce, Mutex, TypeOK, At, Goto, treeVars, vars,
       StartFirst, Walk
<1>10. CASE Show(v)
  BY <1>10, MyPsAssumption DEF PidUsedOnce, Mutex, TypeOK, At, Goto, treeVars,
       vars, Show, PrintLine
<1>11. CASE SeqNext(v)
  BY <1>11, MyPsAssumption DEF PidUsedOnce, Mutex, TypeOK, At, Goto, treeVars,
       vars, SeqNext, Walk
<1>12. CASE SeqStop(v)
  BY <1>12, MyPsAssumption DEF PidUsedOnce, Mutex, TypeOK, At, Goto, treeVars,
       vars, SeqStop
<1>13. CASE StartAgain(v)
  BY <1>13, MyPsAssumption DEF PidUsedOnce, Mutex, TypeOK, At, Goto, treeVars,
       vars, StartAgain
<1>14. CASE ReadEnd(v)
  BY <1>14, MyPsAssumption DEF PidUsedOnce, Mutex, TypeOK, At, Goto, treeVars,
       vars, ReadEnd
<1>15. CASE Lost(v)
  BY <1>15, MyPsAssumption DEF PidUsedOnce, Mutex, TypeOK, At, Goto, treeVars,
       vars, Lost
<1>16. ASSUME NEW p \in Pids, WriteFind(v, p) PROVE PidUsedOnce'
  BY <1>16, MyPsAssumption DEF PidUsedOnce, Mutex, TypeOK, At, Goto, treeVars,
       vars, WriteFind, WriteFindIf, Exists
<1>17. CASE ShowFiles(v)
  BY <1>17, MyPsAssumption DEF PidUsedOnce, Mutex, TypeOK, At, Goto, treeVars,
       vars, ShowFiles, PrintLine
<1> QED
  BY <1>1, <1>2, <1>3, <1>4, <1>5, <1>6, <1>7, <1>8, <1>9, <1>10, <1>11, <1>12,
       <1>13, <1>14, <1>15, <1>16, <1>17
     DEF UserStep, ct_write, ct_seq_start, seq_read

(* A pid that is stored is that of a process.                               *)
LEMMA UserKnown ==
    ASSUME Core, NEW v \in Users, UserStep(v)
    PROVE  Known'
<1> USE DEF Core
<1>1. CASE WriteLock(v)
  BY <1>1 DEF Known, Mutex, Holds, TypeOK, At, Goto, treeVars, vars, NULL,
       WriteLock, userVars
<1>2. CASE WriteRefuse(v)
  BY <1>2 DEF Known, Mutex, Holds, TypeOK, At, Goto, treeVars, vars, NULL, WriteRefuse
<1>3. CASE WriteStore(v)
  BY <1>3 DEF Known, Mutex, Holds, TypeOK, At, Goto, treeVars, vars, NULL, WriteStore
<1>4. CASE StartLock(v)
  BY <1>4 DEF Known, Mutex, Holds, TypeOK, At, Goto, treeVars, vars, NULL, StartLock
<1>5. CASE StartPick(v)
  BY <1>5 DEF Known, Mutex, Holds, TypeOK, At, Goto, treeVars, vars, NULL,
       StartPick, Exists
<1>6. CASE StartReset(v)
  BY <1>6 DEF Known, Mutex, Holds, TypeOK, At, Goto, treeVars, vars, NULL, StartReset
<1>7. CASE StartList(v)
  BY <1>7 DEF Known, Mutex, Holds, TypeOK, At, Goto, treeVars, vars, NULL, StartList
<1>8. CASE StartCount(v)
  BY <1>8 DEF Known, Mutex, Holds, TypeOK, At, Goto, treeVars, vars, NULL,
       StartCount, Walk
<1>9. CASE StartFirst(v)
  BY <1>9 DEF Known, Mutex, Holds, TypeOK, At, Goto, treeVars, vars, NULL,
       StartFirst, Walk
<1>10. CASE Show(v)
  BY <1>10 DEF Known, Mutex, Holds, TypeOK, At, Goto, treeVars, vars, NULL, Show,
       PrintLine
<1>11. CASE SeqNext(v)
  BY <1>11 DEF Known, Mutex, Holds, TypeOK, At, Goto, treeVars, vars, NULL,
       SeqNext, Walk
<1>12. CASE SeqStop(v)
  BY <1>12 DEF Known, Mutex, Holds, TypeOK, At, Goto, treeVars, vars, NULL, SeqStop
<1>13. CASE StartAgain(v)
  BY <1>13 DEF Known, Mutex, Holds, TypeOK, At, Goto, treeVars, vars, NULL, StartAgain
<1>14. CASE ReadEnd(v)
  BY <1>14 DEF Known, Mutex, Holds, TypeOK, At, Goto, treeVars, vars, NULL, ReadEnd
<1>15. CASE Lost(v)
  BY <1>15 DEF Known, Mutex, Holds, TypeOK, At, Goto, treeVars, vars, NULL, Lost
<1>16. ASSUME NEW p \in Pids, WriteFind(v, p) PROVE Known'
  BY <1>16 DEF Known, Mutex, Holds, TypeOK, At, Goto, treeVars, vars, NULL,
       WriteFind, WriteFindIf, Exists
<1>17. CASE ShowFiles(v)
  BY <1>17 DEF Known, Mutex, Holds, TypeOK, At, Goto, treeVars, vars, NULL, ShowFiles,
       PrintLine
<1> QED
  BY <1>1, <1>2, <1>3, <1>4, <1>5, <1>6, <1>7, <1>8, <1>9, <1>10, <1>11, <1>12,
       <1>13, <1>14, <1>15, <1>16, <1>17
     DEF UserStep, ct_write, ct_seq_start, seq_read

(* A page is filled by show, and both go when the read ends.                *)
LEMMA UserFresh ==
    ASSUME Core, NEW v \in Users, UserStep(v)
    PROVE  Fresh'
<1> USE DEF Core
<1>1. CASE WriteLock(v)
  BY <1>1 DEF Fresh, TypeOK, At, Goto, treeVars, vars, NULL, WriteLock, userVars
<1>2. CASE WriteRefuse(v)
  BY <1>2 DEF Fresh, TypeOK, At, Goto, treeVars, vars, NULL, WriteRefuse
<1>3. CASE WriteStore(v)
  BY <1>3 DEF Fresh, TypeOK, At, Goto, treeVars, vars, NULL, WriteStore
<1>4. CASE StartLock(v)
  <2>1. \A u \in Users : u # v \/ pc'[u] = "pick" => had'[u] = had[u]
    BY <1>4 DEF StartLock, Has, Goto, TypeOK
  <2> QED
    BY <1>4, <2>1 DEF Fresh, TypeOK, At, Goto, treeVars, vars, NULL, StartLock
<1>5. CASE StartPick(v)
  <2>1. pc'[v] \in {"list", "reset"} /\ \A u \in Users \ {v} : had'[u] = had[u]
    BY <1>5 DEF StartPick, Has, Goto, TypeOK
  <2> QED
    BY <1>5, <2>1 DEF Fresh, TypeOK, At, Goto, treeVars, vars, NULL, StartPick, Exists
<1>6. CASE StartReset(v)
  BY <1>6 DEF Fresh, TypeOK, At, Goto, treeVars, vars, NULL, StartReset
<1>7. CASE StartList(v)
  BY <1>7 DEF Fresh, TypeOK, At, Goto, treeVars, vars, NULL, StartList
<1>8. CASE StartCount(v)
  BY <1>8 DEF Fresh, TypeOK, At, Goto, treeVars, vars, NULL, StartCount, Walk
<1>9. CASE StartFirst(v)
  BY <1>9 DEF Fresh, TypeOK, At, Goto, treeVars, vars, NULL, StartFirst, Walk
<1>10. CASE Show(v)
  BY <1>10 DEF Fresh, TypeOK, At, Goto, treeVars, vars, NULL, Show, PrintLine
<1>11. CASE SeqNext(v)
  BY <1>11 DEF Fresh, TypeOK, At, Goto, treeVars, vars, NULL, SeqNext, Walk
<1>12. CASE SeqStop(v)
  BY <1>12 DEF Fresh, TypeOK, At, Goto, treeVars, vars, NULL, SeqStop
<1>13. CASE StartAgain(v)
  BY <1>13 DEF Fresh, TypeOK, At, Goto, treeVars, vars, NULL, StartAgain
<1>14. CASE ReadEnd(v)
  BY <1>14 DEF Fresh, TypeOK, At, Goto, treeVars, vars, NULL, ReadEnd
<1>15. CASE Lost(v)
  BY <1>15 DEF Fresh, TypeOK, At, Goto, treeVars, vars, NULL, Lost
<1>16. ASSUME NEW p \in Pids, WriteFind(v, p) PROVE Fresh'
  BY <1>16 DEF Fresh, TypeOK, At, Goto, treeVars, vars, NULL, WriteFind,
       WriteFindIf, Exists
<1>17. CASE ShowFiles(v)
  BY <1>17 DEF Fresh, TypeOK, At, Goto, treeVars, vars, NULL, ShowFiles, PrintLine
<1> QED
  BY <1>1, <1>2, <1>3, <1>4, <1>5, <1>6, <1>7, <1>8, <1>9, <1>10, <1>11, <1>12,
       <1>13, <1>14, <1>15, <1>16, <1>17
     DEF UserStep, ct_write, ct_seq_start, seq_read

(* A step of one user does not touch what another has.                      *)
LEMMA OthersStay ==
    ASSUME TypeOK, NEW v \in Users, UserStep(v), NEW u \in Users \ {v}
    PROVE  /\ pc'[u] = pc[u] /\ target'[u] = target[u]
           /\ pos'[u] = pos[u] /\ page'[u] = page[u]
           /\ had'[u] = had[u] /\ (u \in robbed' <=> u \in robbed)
<1>1. /\ pc \in [Users -> {"idle", "parse", "store", "pick", "reset", "list", "count",
                    "first", "show", "files", "next", "stop", "again", "end", "lost",
                         "oops"}]
      /\ target \in [Users -> Pids \cup {NULL}]
      /\ pos \in [Users -> Nodes] /\ page \in [Users -> Seq(Pids)]
      /\ had \in [Users -> Nat] /\ robbed \subseteq Users
  BY DEF TypeOK
<1>2. CASE WriteLock(v)
  BY <1>1, <1>2 DEF WriteLock, Calm, Goto, vars, userVars
<1>3. CASE WriteRefuse(v)
  BY <1>1, <1>3 DEF WriteRefuse, Goto
<1>4. CASE WriteStore(v)
  BY <1>1, <1>4 DEF WriteStore, Goto
<1>5. CASE StartLock(v)
  BY <1>1, <1>5 DEF StartLock, Calm, Has, Goto
<1>6. CASE StartPick(v)
  BY <1>1, <1>6 DEF StartPick, Has, Goto
<1>7. CASE StartReset(v)
  BY <1>1, <1>7 DEF StartReset, Goto
<1>8. CASE StartList(v)
  BY <1>1, <1>8 DEF StartList, Goto
<1>9. CASE StartCount(v)
  BY <1>1, <1>9 DEF StartCount, Goto, Walk
<1>10. CASE StartFirst(v)
  BY <1>1, <1>10 DEF StartFirst, Goto, Walk
<1>11. CASE Show(v)
  BY <1>1, <1>11 DEF Show, PrintLine, Goto
<1>12. CASE SeqNext(v)
  BY <1>1, <1>12 DEF SeqNext, Goto, Walk
<1>13. CASE SeqStop(v)
  BY <1>1, <1>13 DEF SeqStop, Goto
<1>14. CASE StartAgain(v)
  BY <1>1, <1>14 DEF StartAgain, Goto
<1>15. CASE ReadEnd(v)
  BY <1>1, <1>15 DEF ReadEnd, Goto
<1>16. CASE Lost(v)
  BY <1>1, <1>16 DEF Lost, Goto
<1>17. CASE \E p \in Pids : WriteFind(v, p)
  BY <1>1, <1>17 DEF WriteFind, Goto, WriteFindIf
<1>18. CASE ShowFiles(v)
  BY <1>1, <1>18 DEF ShowFiles, PrintLine, Goto
<1> QED
  BY <1>2, <1>3, <1>4, <1>5, <1>6, <1>7, <1>8, <1>9, <1>10, <1>11, <1>12, <1>13,
       <1>14, <1>15, <1>16, <1>17, <1>18
     DEF UserStep, ct_write, ct_seq_start, seq_read

(* How far a user is depends on what it has, and on its list as far as it   *)
(* has got.                                                                 *)
LEMMA SteadyStays ==
    ASSUME TypeOK, NEW u \in Users, Known, Steady(u),
           pc'[u] = pc[u], target'[u] = target[u], pos'[u] = pos[u], page'[u] = page[u],
           target[u] # NULL => Kept(target[u]) /\ state'[target[u]] # "gone",
           Startled(u) => state'[pos[u].pid] # "alive",
           children' \in [Pids -> Seq(Pids)]
    PROVE  Steady(u)'
<1>1. CASE target[u] = NULL
  BY <1>1 DEF Known, Steady, Startled, At
<1>2. CASE target[u] # NULL
  <2>1. target[u] \in Pids
    BY <1>2 DEF TypeOK
  <2>2. /\ children[target[u]] \in Seq(Pids) /\ children'[target[u]] \in Seq(Pids)
        /\ page[u] \in Seq(Pids)
    BY <2>1 DEF TypeOK
  <2>3. /\ Len(children[target[u]]) \in Nat /\ Len(children'[target[u]]) \in Nat
        /\ Len(page[u]) \in Nat
        /\ children[target[u]] # <<>> => children'[target[u]] # <<>>
    BY <1>2, <2>2, LenProperties, EmptySeq DEF Kept
  <2>4. Copied(u) => Copied(u)'
    BY <1>2, <2>3 DEF Kept, Copied
  <2>5. \A n \in Listed(target[u]) : n \in Listed(target[u])' /\ (AtChild(u, n) => AtChild(u, n)')
    BY <1>2, <2>3 DEF Kept, AtChild, Listed
  <2>6. \A n : AtChild(u, n) => n \in Listed(target[u]) /\ AtChild(u, n)'
    BY <2>5 DEF AtChild
  <2>7. /\ AtChild(u, Len(page[u])) => AtChild(u, Len(page[u]))'
        /\ AtChild(u, Len(page[u]) + 1) => AtChild(u, Len(page[u]) + 1)'
    BY <2>6 DEF AtChild
  <2>8. (\E k \in Listed(target[u]) : AtChild(u, k)) => \E k \in Listed(target[u])' : AtChild(u, k)'
    BY <2>5
  <2> QED
    BY <1>2, <2>3, <2>4, <2>7, <2>8 DEF Steady, Startled, At
<1> QED
  BY <1>1, <1>2

(* A user that walks its list and was not robbed is at living processes.    *)
LEMMA NotStale ==
    ASSUME Core, NEW v \in Users, Steady(v),
           pc[v] \in {"count", "first", "show", "files", "next", "stop"}
    PROVE  /\ target[v] \in Pids /\ state[target[v]] # "gone"
           /\ pc[v] # "stop" => ~Stale(v)
<1> USE DEF Core
<1>1. target[v] \in Pids /\ state[target[v]] # "gone"
  BY DEF Known, TypeOK, NULL, Steady
<1>2. ASSUME NEW n \in Listed(target[v]), pos[v] = TaskNode(children[target[v]][n])
      PROVE  ~Stale(v)
  <2>1. Living(children[target[v]][n])
    BY <1>1 DEF Lists
  <2> QED
    BY <1>1, <1>2, <2>1 DEF Stale, TaskNode, Living
<1>3. ASSUME pos[v] = HeadNode(target[v]) PROVE ~Stale(v)
  BY <1>1, <1>3 DEF Stale, HeadNode
<1> QED
  BY <1>1, <1>2, <1>3 DEF Steady, AtChild

(* Only when its next call begins is a user that was robbed no longer so.   *)
LEMMA OnceRobbed ==
    ASSUME TypeOK, NEW v \in Users, UserStep(v), v \notin robbed', pc[v] # "idle"
    PROVE  v \notin robbed
BY DEF UserStep, ct_write, ct_seq_start, seq_read, At, WriteLock,
   WriteRefuse, WriteStore, StartLock, StartPick, StartReset, StartList,
   StartCount, StartFirst, Show, ShowFiles, SeqNext, SeqStop, StartAgain, ReadEnd, Lost,
   WriteFind, WriteFindIf, TypeOK

(* A user that prints the line of the child it is at goes on as it should.  *)
LEMMA PrintedIsSteady ==
    ASSUME TypeOK, NEW v \in Users, Steady(v), target[v] \in Pids,
           Copied(v), AtChild(v, Len(page[v]) + 1), PrintLine(v),
           UNCHANGED <<state, children, target, pos>>
    PROVE  Steady(v)'
<1>1. /\ page[v] \in Seq(Pids) /\ Len(page[v]) \in Nat
      /\ children[target[v]] \in Seq(Pids) /\ Len(children[target[v]]) \in Nat
      /\ Len(page[v]) + 1 <= Len(children[target[v]])
  BY ListFacts, LenProperties DEF TypeOK, AtChild, Listed
<1>2. pos[v].pid = children[target[v]][Len(page[v]) + 1]
  BY DEF AtChild, TaskNode
<1>3. CASE Len(page[v]) = PageLines
  <2>1. pc'[v] = "stop" /\ page' = page
    BY <1>3 DEF PrintLine, Goto, TypeOK
  <2> QED
    BY <1>3, <2>1 DEF Steady, At, Copied
<1>4. CASE Len(page[v]) # PageLines
  <2>1. pc'[v] = "next" /\ page'[v] = Append(page[v], pos[v].pid)
    BY <1>4 DEF PrintLine, Goto, TypeOK
  <2>2. children[target[v]][Len(page[v]) + 1] \in Pids
    BY ListFacts DEF AtChild
  <2>3. /\ Len(page'[v]) = Len(page[v]) + 1
        /\ \A k \in 1 .. Len(page[v]) : page'[v][k] = page[v][k]
        /\ page'[v][Len(page[v]) + 1] = children[target[v]][Len(page[v]) + 1]
    BY <1>1, <1>2, <2>1, <2>2, AppendProperties
  <2>4. Copied(v)'
    <3>1. ASSUME NEW k \in 1 .. Len(page'[v])
          PROVE  page'[v][k] = children[target[v]][k]
      <4>1. k \in 1 .. Len(page[v]) \/ k = Len(page[v]) + 1
        BY <1>1, <2>3
      <4> QED
        BY <4>1, <2>3 DEF Copied
    <3> QED
      BY <1>1, <2>3, <3>1 DEF Copied
  <2>5. AtChild(v, Len(page[v]))'
    BY <2>3 DEF AtChild, Listed
  <2> QED
    BY <2>1, <2>4, <2>5 DEF Steady, At
<1> QED
  BY <1>3, <1>4

(* A user that is not robbed goes on as it should.                          *)
LEMMA UserSteady ==
    ASSUME Core, NEW v \in Users, state[v] # "gone", UserStep(v), v \notin robbed'
    PROVE  Steady(v)'
<1> USE DEF Core
<1>1. pc[v] # "idle" => Steady(v)
  BY OnceRobbed DEF Undisturbed
<1>2. CASE stored < MaxWrites /\ WriteLock(v)
  <2>1. CASE UNCHANGED vars
    BY <2>1 DEF Undisturbed, vars, treeVars, userVars, Steady, Startled, At,
         Copied, AtChild,
         Listed
  <2>2. CASE ~UNCHANGED vars
    BY <1>2, <2>2 DEF WriteLock, At, Goto, TypeOK, Fresh, Steady, NULL
  <2> QED
    BY <2>1, <2>2
<1>3. CASE WriteRefuse(v)
  <2>1. pc'[v] = "idle" /\ target'[v] = target[v] /\ target[v] = NULL
    BY <1>3 DEF WriteRefuse, Goto, At, TypeOK, Fresh
  <2> QED
    BY <2>1 DEF Steady, At
<1>4. CASE WriteStore(v)
  BY <1>4, <1>1 DEF WriteStore, At, Goto, TypeOK, Steady, NULL
<1>5. CASE StartLock(v)
  <2>1. page'[v] = <<>> /\ target[v] = NULL /\ state'[v] # "gone"
    BY <1>5 DEF StartLock, At, Fresh, treeVars
  <2>2. v # NULL
    BY MyPsAssumption DEF Pids, NULL
  <2>3. \/ pc'[v] = "end" /\ target'[v] = NULL
        \/ pc'[v] = "list" /\ target'[v] = v
        \/ pc'[v] = "pick" /\ target'[v] = NULL
    BY <1>5, <2>1 DEF StartLock, Goto, TypeOK
  <2> QED
    BY <2>1, <2>2, <2>3 DEF Steady, At
<1>6. CASE StartPick(v)
  <2>1. CASE testid = 0
    <3>1. target'[v] = v /\ pc'[v] = "list"
      BY <1>6, <2>1 DEF StartPick, Goto, TypeOK
    <3>2. state'[v] # "gone"
      BY <1>6 DEF StartPick, treeVars
    <3>3. v # NULL
      BY MyPsAssumption DEF Pids, NULL
    <3> QED
      BY <3>1, <3>2, <3>3 DEF Steady, At
  <2>2. CASE testid # 0
    <3>1. state[testid] # "gone" /\ Exists(testid)
      BY <1>6, <2>2 DEF StartPick, Known, TypeOK, Exists, NULL
    <3>2. target'[v] = testid /\ pc'[v] = "reset" /\ state' = state
      BY <1>6, <2>2, <3>1 DEF StartPick, Goto, TypeOK, treeVars
    <3> QED
      BY <2>2, <3>1, <3>2 DEF Steady, At, NULL
  <2> QED
    BY <2>1, <2>2
<1>7. CASE StartReset(v)
  <2>1. pc[v] = "reset" /\ pc'[v] = "list" /\ UNCHANGED <<state, children, target, pos, page>>
    BY <1>7 DEF StartReset, At, Goto, treeVars, TypeOK
  <2> QED
    BY <1>1, <2>1 DEF Steady, At
<1>8. CASE StartList(v)
  <2>1. target[v] \in Pids /\ state[target[v]] # "gone" /\ page[v] = <<>>
    BY <1>8, <1>1 DEF StartList, At, Steady, Fresh, TypeOK, NULL
  <2>2. pos'[v] = HeadNode(target[v])
    BY <1>8, <2>1, MyPsAssumption DEF StartList, TypeOK, NULL, Pids
  <2>3. UNCHANGED <<state, children, target, page>>
    BY <1>8 DEF StartList, treeVars
  <2>4. CASE children[target[v]] = <<>>
    <3>1. pc'[v] = "end"
      BY <1>8, <2>1, <2>4, MyPsAssumption DEF StartList, Goto, TypeOK, NULL, Pids
    <3>2. Len(page[v]) = 0 /\ Len(children[target[v]]) = 0
      BY <2>1, <2>4, EmptySeq
    <3> QED
      BY <2>1, <2>3, <3>1, <3>2 DEF Steady, At, Copied
  <2>5. CASE children[target[v]] # <<>>
    <3>1. pc'[v] = "count"
      BY <1>8, <2>1, <2>5, MyPsAssumption DEF StartList, Goto, TypeOK, NULL, Pids
    <3> QED
      BY <2>1, <2>2, <2>3, <2>5, <3>1 DEF Steady, At
  <2> QED
    BY <2>4, <2>5
<1>9. CASE StartCount(v)
  <2>1. pc[v] = "count" /\ target[v] \in Pids /\ ~Stale(v)
    BY <1>9, <1>1, NotStale DEF StartCount, At
  <2>2. /\ pos' = [pos EXCEPT ![v] = NextOf(pos[v])]
        /\ UNCHANGED <<state, children, target, page>>
        /\ pc' = [pc EXCEPT ![v] = IF NextOf(pos[v]) = HeadNode(target[v])
                                  THEN "first" ELSE "count"]
    BY <1>9, <2>1 DEF StartCount, Walk, Goto, treeVars
  <2>3. /\ children[target[v]] # <<>> /\ Len(children[target[v]]) \in Nat
        /\ Len(children[target[v]]) > 0
    BY <1>1, <2>1, ListFacts DEF Steady, At
  <2>4. \/ NextOf(pos[v]) = HeadNode(target[v])
        \/ \E n \in Listed(target[v]) : NextOf(pos[v]) = TaskNode(children[target[v]][n])
    <3>1. CASE pos[v] = HeadNode(target[v])
      BY <2>1, <2>3, <3>1, NextOfHead DEF Listed
    <3>2. CASE \E k \in Listed(target[v]) : AtChild(v, k)
      <4>1. PICK k \in Listed(target[v]) : AtChild(v, k)
        BY <3>2
      <4>2. NextOf(pos[v]) = IF k < Len(children[target[v]])
                             THEN TaskNode(children[target[v]][k + 1]) ELSE HeadNode(target[v])
        BY <2>1, <4>1, PlaceOfChild DEF AtChild
      <4>3. k < Len(children[target[v]]) => k + 1 \in Listed(target[v])
        BY <2>3 DEF Listed
      <4> QED
        BY <4>2, <4>3
    <3> QED
      BY <1>1, <2>1, <3>1, <3>2 DEF Steady, At
  <2>5. pos'[v] = NextOf(pos[v])
    BY <2>2 DEF TypeOK
  <2>6. CASE NextOf(pos[v]) = HeadNode(target[v])
    <3>1. pc'[v] = "first"
      BY <2>2, <2>6 DEF TypeOK
    <3> QED
      BY <1>1, <2>1, <2>2, <2>3, <2>5, <2>6, <3>1 DEF Steady, At
  <2>7. CASE NextOf(pos[v]) # HeadNode(target[v])
    <3>1. pc'[v] = "count"
      BY <2>2, <2>7 DEF TypeOK
    <3>2. \E n \in Listed(target[v])' : AtChild(v, n)'
      BY <2>2, <2>4, <2>5, <2>7 DEF AtChild, Listed
    <3> QED
      BY <1>1, <2>1, <2>2, <2>3, <3>1, <3>2 DEF Steady, At, NULL
  <2> QED
    BY <2>6, <2>7
<1>10. CASE StartFirst(v)
  <2>1. pc[v] = "first" /\ target[v] \in Pids /\ ~Stale(v)
    BY <1>10, <1>1, NotStale DEF StartFirst, At
  <2>2. /\ pos' = [pos EXCEPT ![v] = NextOf(pos[v])] /\ pc'[v] = "show"
        /\ UNCHANGED <<state, children, target, page>>
    BY <1>10, <2>1 DEF StartFirst, Walk, Goto, treeVars, TypeOK
  <2>3. /\ children[target[v]] # <<>> /\ Len(children[target[v]]) \in Nat
        /\ Len(children[target[v]]) > 0
    BY <1>1, <2>1, ListFacts DEF Steady, At
  <2>4. pos'[v] = TaskNode(children[target[v]][1])
    BY <1>1, <2>1, <2>2, <2>3, NextOfHead DEF Steady, TypeOK
  <2>5. page[v] = <<>> /\ Len(page[v]) = 0
    BY <2>1, EmptySeq DEF Fresh
  <2>6. Copied(v)' /\ AtChild(v, Len(page[v]) + 1)'
    BY <2>2, <2>3, <2>4, <2>5 DEF Copied, AtChild, Listed
  <2> QED
    BY <1>1, <2>1, <2>2, <2>6 DEF Steady, At
<1>11. CASE Show(v)
  <2>1. /\ pc[v] = "show" /\ target[v] \in Pids /\ ~Stale(v)
        /\ Copied(v) /\ AtChild(v, Len(page[v]) + 1)
    BY <1>11, <1>1, NotStale DEF Show, At, Steady
  <2>2. UNCHANGED <<state, children, target, pos>> /\ pos[v].kind # "head"
    BY <1>11, <2>1 DEF Show, treeVars, AtChild, TaskNode
  <2>3. CASE pc'[v] = "files" /\ UNCHANGED page
    BY <1>1, <2>1, <2>2, <2>3 DEF Steady, At, Copied, AtChild, Listed
  <2>4. CASE PrintLine(v)
    BY <1>1, <2>1, <2>2, <2>4, PrintedIsSteady
  <2> QED
    BY <1>11, <2>1, <2>2, <2>3, <2>4 DEF Show, Goto, TypeOK
<1>12. CASE SeqNext(v)
  <2>1. /\ pc[v] = "next" /\ target[v] \in Pids /\ ~Stale(v)
        /\ Copied(v) /\ AtChild(v, Len(page[v]))
    BY <1>12, <1>1, NotStale DEF SeqNext, At, Steady
  <2>2. /\ pos' = [pos EXCEPT ![v] = NextOf(pos[v])]
        /\ UNCHANGED <<state, children, target, page>>
        /\ pc' = [pc EXCEPT ![v] = IF NextOf(pos[v]) = HeadNode(target[v])
                                  THEN "again" ELSE "show"]
    BY <1>12, <2>1 DEF SeqNext, Walk, Goto, treeVars
  <2>3. /\ Len(page[v]) \in Nat /\ Len(children[target[v]]) \in Nat
        /\ Len(page[v]) \in Listed(target[v]) /\ Len(page[v]) <= Len(children[target[v]])
    BY <2>1, ListFacts, LenProperties DEF TypeOK, AtChild, Listed
  <2>4. NextOf(pos[v]) = IF Len(page[v]) < Len(children[target[v]])
                         THEN TaskNode(children[target[v]][Len(page[v]) + 1])
                         ELSE HeadNode(target[v])
    BY <2>1, <2>3, PlaceOfChild DEF AtChild
  <2>5. pos'[v] = NextOf(pos[v])
    BY <2>2 DEF TypeOK
  <2>6. Copied(v)'
    BY <2>1, <2>2 DEF Copied
  <2>7. CASE Len(page[v]) < Len(children[target[v]])
    <3>1. NextOf(pos[v]) # HeadNode(target[v])
      BY <2>4, <2>7 DEF TaskNode, HeadNode
    <3>2. pc'[v] = "show"
      BY <2>2, <3>1 DEF TypeOK
    <3>3. AtChild(v, Len(page[v]) + 1)'
      BY <2>2, <2>3, <2>4, <2>5, <2>7 DEF AtChild, Listed
    <3> QED
      BY <1>1, <2>1, <2>2, <2>6, <3>2, <3>3 DEF Steady, At
  <2>8. CASE ~(Len(page[v]) < Len(children[target[v]]))
    <3>1. pc'[v] = "again"
      BY <2>2, <2>4, <2>8 DEF TypeOK
    <3>2. Len(page[v]) = Len(children[target[v]])
      BY <2>3, <2>8
    <3> QED
      BY <1>1, <2>1, <2>2, <2>6, <3>1, <3>2 DEF Steady, At
  <2> QED
    BY <2>7, <2>8
<1>13. CASE SeqStop(v)
  <2>1. /\ pc[v] = "stop" /\ target[v] \in Pids /\ state[target[v]] # "gone"
        /\ Copied(v) /\ Len(page[v]) = PageLines
    BY <1>13, <1>1, NotStale DEF SeqStop, At, Steady
  <2>2. pc'[v] = "again" /\ UNCHANGED <<state, children, target, pos, page>>
    BY <1>13, <2>1 DEF SeqStop, Goto, treeVars, TypeOK
  <2> QED
    BY <1>1, <2>1, <2>2 DEF Steady, At, Copied
<1>14. CASE StartAgain(v)
  <2>1. pc[v] = "again" /\ pc'[v] = "end" /\ UNCHANGED <<state, children, target, pos, page>>
    BY <1>14 DEF StartAgain, At, Goto, treeVars, TypeOK
  <2>2. Copied(v)' = Copied(v)
    BY <2>1 DEF Copied
  <2> QED
    BY <1>1, <2>1, <2>2 DEF Steady, At
<1>15. CASE ReadEnd(v)
  <2>1. pc'[v] = "idle" /\ target'[v] = NULL
    BY <1>15 DEF ReadEnd, Goto, TypeOK
  <2> QED
    BY <2>1 DEF Steady, At
<1>16. CASE Lost(v)
  BY <1>16, <1>1 DEF Lost, At, Steady
<1>17. ASSUME NEW p \in Pids, WriteFind(v, p) PROVE Steady(v)'
  <2>1. state'[p] # "gone" /\ p # NULL
    BY <1>17 DEF WriteFind, WriteFindIf, Exists, treeVars
  <2>2. pc'[v] = "store" /\ target'[v] = p
    BY <1>17 DEF WriteFind, WriteFindIf, Goto, TypeOK
  <2> QED
    BY <2>1, <2>2 DEF Steady, At
<1>18. CASE ShowFiles(v)
  <2>1. /\ pc[v] = "files" /\ target[v] \in Pids /\ ~Stale(v)
        /\ Copied(v) /\ AtChild(v, Len(page[v]) + 1)
    BY <1>18, <1>1, NotStale DEF ShowFiles, At, Steady
  <2>2. UNCHANGED <<state, children, target, pos>> /\ pos[v].kind = "task"
    BY <1>18, <2>1 DEF ShowFiles, treeVars, AtChild, TaskNode
  <2>3. CASE pc'[v] = "oops" /\ state[pos[v].pid] # "alive"
    BY <1>1, <2>1, <2>2, <2>3 DEF Steady, Startled, At
  <2>4. CASE PrintLine(v)
    BY <1>1, <2>1, <2>2, <2>4, PrintedIsSteady
  <2> QED
    BY <1>18, <2>1, <2>2, <2>3, <2>4 DEF ShowFiles, Goto, TypeOK
<1> QED
  BY <1>2, <1>3, <1>4, <1>5, <1>6, <1>7, <1>8, <1>9, <1>10, <1>11, <1>12, <1>13,
       <1>14, <1>15, <1>16, <1>17, <1>18
     DEF UserStep, ct_write, ct_seq_start, seq_read

(* A read is over when the page is full or when it meets the head.          *)
LEMMA UserOwes ==
    ASSUME Core, NEW v \in Users, UserStep(v), v \notin robbed'
    PROVE  Owes(v)'
<1> USE DEF Core
<1>1. pc[v] # "idle" => Steady(v) /\ Owes(v)
  BY OnceRobbed DEF Undisturbed
<1>2. /\ v \in Pids /\ v # NULL /\ \A p \in Pids : Len(children[p]) \in Nat
      /\ had[v] \in Nat /\ PageLines \in Nat \ {0}
      /\ testid # 0 => testid \in Pids /\ testid # NULL
      /\ UNCHANGED <<state, children>>
  <2>1. v \in Pids /\ v # NULL /\ PageLines \in Nat \ {0}
    BY MyPsAssumption DEF Pids, NULL
  <2>2. had[v] \in Nat /\ (testid # 0 => testid \in Pids /\ testid # NULL)
    BY DEF TypeOK, NULL
  <2> QED
    BY <2>1, <2>2, ListFacts, UserLeavesTree
<1>3. CASE StartLock(v)
  <2>1. pc'[v] # "again" /\ (pc'[v] = "end" => target'[v] = NULL)
    BY <1>3 DEF StartLock, At, Goto, Fresh, TypeOK
  <2>2. target'[v] = NULL \/ (target'[v] = v /\ had'[v] = Len(children[v]))
    BY <1>2, <1>3 DEF StartLock, Has, At, Fresh, TypeOK
  <2> QED
    BY <1>2, <2>1, <2>2 DEF Owes
<1>4. CASE StartPick(v)
  <2>1. pc'[v] \notin {"again", "end"}
    BY <1>4 DEF StartPick, Goto, TypeOK
  <2>2. target'[v] = NULL \/ (target'[v] \in Pids /\ had'[v] = Len(children[target'[v]]))
    BY <1>2, <1>4 DEF StartPick, Has, TypeOK
  <2> QED
    BY <1>2, <2>1, <2>2 DEF Owes
<1>5. CASE StartList(v)
  <2>1. target[v] \in Pids /\ UNCHANGED <<target, page, had>> /\ pc[v] = "list" /\ page[v] = <<>>
    BY <1>5, <1>1 DEF StartList, At, Steady, Fresh, TypeOK
  <2>2. had[v] <= Len(children[target[v]])
    BY <1>1, <2>1, <1>2 DEF Owes, NULL, Steady
  <2>3. CASE children[target[v]] = <<>>
    <3>1. Len(page[v]) = 0 /\ Len(children[target[v]]) = 0
      BY <2>1, <2>3, EmptySeq
    <3>2. had[v] = 0 /\ Fit(had[v]) = 0
      BY <1>2, <2>2, <3>1 DEF Fit
    <3> QED
      BY <1>2, <2>1, <2>2, <3>1, <3>2 DEF Owes, Fit
  <2>4. CASE children[target[v]] # <<>>
    <3>1. pc'[v] \notin {"again", "end"}
      BY <1>5, <1>1, <2>1, <2>4 DEF StartList, At, Goto, Steady, TypeOK
    <3> QED
      BY <1>2, <2>1, <2>2, <3>1 DEF Owes
  <2> QED
    BY <2>3, <2>4
<1>6. CASE SeqNext(v)
  <2>1. /\ pc[v] = "next" /\ target[v] \in Pids /\ ~Stale(v)
        /\ Copied(v) /\ AtChild(v, Len(page[v]))
    BY <1>6, <1>1, NotStale DEF SeqNext, At, Steady
  <2>2. /\ UNCHANGED <<children, target, page, had>>
        /\ pc' = [pc EXCEPT ![v] = IF NextOf(pos[v]) = HeadNode(target[v])
                                  THEN "again" ELSE "show"]
    BY <1>6, <2>1 DEF SeqNext, Walk, Goto, treeVars
  <2>3. /\ Len(page[v]) \in Nat /\ Len(children[target[v]]) \in Nat
        /\ Len(page[v]) \in Listed(target[v]) /\ Len(page[v]) <= Len(children[target[v]])
    BY <2>1, ListFacts, LenProperties DEF TypeOK, AtChild, Listed
  <2>4. NextOf(pos[v]) = IF Len(page[v]) < Len(children[target[v]])
                         THEN TaskNode(children[target[v]][Len(page[v]) + 1])
                         ELSE HeadNode(target[v])
    BY <2>1, <2>3, PlaceOfChild DEF AtChild
  <2>5. target[v] # NULL => had[v] <= Len(children[target[v]])
    BY <1>1, <2>1 DEF Owes
  <2>6. CASE Len(page[v]) < Len(children[target[v]])
    <3>1. NextOf(pos[v]) # HeadNode(target[v])
      BY <2>4, <2>6 DEF TaskNode, HeadNode
    <3>2. pc'[v] = "show"
      BY <2>2, <3>1 DEF TypeOK
    <3> QED
      BY <2>2, <2>5, <3>2 DEF Owes
  <2>7. CASE ~(Len(page[v]) < Len(children[target[v]]))
    <3>1. Len(page[v]) = Len(children[target[v]])
      BY <2>3, <2>7
    <3>2. target[v] # NULL => Fit(had[v]) <= Len(page[v])
      BY <1>2, <2>3, <2>5, <3>1 DEF Fit
    <3> QED
      BY <2>2, <2>5, <3>2 DEF Owes, Fit
  <2> QED
    BY <2>6, <2>7
<1>7. CASE SeqStop(v)
  <2>1. pc[v] = "stop" /\ UNCHANGED <<children, target, page, had>>
    BY <1>7 DEF SeqStop, At, treeVars
  <2>2. Len(page[v]) = PageLines
    BY <1>1, <2>1 DEF Steady
  <2>3. Fit(had[v]) <= Len(page[v])
    BY <1>2, <2>2 DEF Fit
  <2> QED
    BY <1>1, <2>1, <2>3 DEF Owes, Fit
<1>8. CASE StartAgain(v)
  <2>1. pc[v] = "again" /\ UNCHANGED <<children, target, page, had>>
    BY <1>8 DEF StartAgain, At, treeVars
  <2> QED
    BY <1>1, <2>1 DEF Owes, Fit
<1>9. CASE Lost(v)
  BY <1>9, <1>1 DEF Lost, At, Steady
<1>10. CASE WriteLock(v)
  <2>1. target'[v] = NULL
    BY <1>10 DEF WriteLock, At, Fresh, vars, userVars
  <2> QED
    BY <2>1 DEF Owes
<1>11. CASE WriteRefuse(v) \/ WriteStore(v) \/ ReadEnd(v)
  <2>1. target'[v] = NULL \/ (pc[v] = "store" /\ UNCHANGED <<target, had>> /\ pc'[v] = "oops")
    BY <1>11 DEF WriteRefuse, WriteStore, ReadEnd, At, Goto, Fresh, TypeOK
  <2> QED
    BY <1>1, <1>2, <2>1 DEF Owes
<1>12. ASSUME NEW p \in Pids, WriteFind(v, p) PROVE Owes(v)'
  <2>1. target'[v] = p /\ had'[v] = 0 /\ pc'[v] = "store"
    BY <1>12 DEF WriteFind, WriteFindIf, At, Goto, Fresh, TypeOK
  <2> QED
    BY <1>2, <2>1 DEF Owes
<1>13. CASE StartReset(v) \/ StartCount(v) \/ StartFirst(v) \/ Show(v) \/ ShowFiles(v)
  <2>1. /\ pc[v] # "idle" /\ UNCHANGED <<children, target, had>>
        /\ pc'[v] \notin {"again", "end"}
    BY <1>13 DEF StartReset, StartCount, StartFirst, Show, ShowFiles, PrintLine,
         Walk, At,
         Goto, treeVars, TypeOK
  <2> QED
    BY <1>1, <2>1 DEF Owes
<1> QED
  BY <1>3, <1>4, <1>5, <1>6, <1>7, <1>8, <1>9, <1>10, <1>11, <1>12, <1>13
     DEF UserStep, ct_write, ct_seq_start, seq_read

-----------------------------------------------------------------------------
(* Steps. *)

(* Whatever a process does that is in no call leaves every user where it is. *)
LEMMA TreeStepKeepsCore ==
    ASSUME Core, NEW p \in Pids, NEW c \in Pids, Fork(p, c) \/ Exit(p) \/ Reap(c),
           UNCHANGED <<testid, mtx, userVars, stored, used>>
    PROVE  Core' /\ \A q \in Pids : state[q] # "none" => state'[q] # "none"
<1> USE DEF Core
<1>1. /\ Lists' /\ children' \in [Pids -> Seq(Pids)]
      /\ state' \in [Pids -> {"none", "alive", "zombie", "gone"}]
  BY ForkKeeps, ExitKeeps, ReapKeeps
<1>2. UNCHANGED <<testid, mtx, pc, target, pos, page, stored, used>>
  BY DEF userVars
<1>3. Rob
  BY DEF Fork, Exit, Reap
<1>4. TypeOK'
  <2>1. had' \in [Users -> Nat] /\ robbed' \subseteq Users
    BY <1>3 DEF Rob, TypeOK
  <2> QED
    BY <1>1, <1>2, <2>1 DEF TypeOK
<1>5. /\ state'[1] = "alive"
      /\ \A q \in Pids : state[q] # "none" => state'[q] # "none"
  <2>1. 1 \in Pids
    BY MyPsAssumption DEF Pids
  <2>2. \/ state[c] = "none" /\ state' = [state EXCEPT ![c] = "alive"]
        \/ p # 1 /\ state' = [state EXCEPT ![p] = "zombie"]
        \/ state[c] = "zombie" /\ state' = [state EXCEPT ![c] = "gone"]
    BY DEF Fork, Exit, Reap
  <2> QED
    BY <2>1, <2>2 DEF TypeOK
<1>6. /\ Positions'
      /\ \A u \in Users : pos[u].kind = "task" /\ state[pos[u].pid] # "alive"
                           => state'[pos[u].pid] # "alive"
  <2>1. \A u \in Users : pos[u].kind = "task" => pos[u].pid \in Pids
    BY DEF TypeOK, Nodes, TaskNode, HeadNode
  <2>2. \A q \in Pids : state[q] \notin {"none", "alive"} => state'[q] # "alive"
    BY DEF Fork, Exit, Reap, TypeOK
  <2> QED
    BY <1>2, <1>5, <2>1, <2>2 DEF Positions
<1>7. Known'
  BY <1>2, <1>5 DEF Known, TypeOK, NULL
<1>8. Mutex' /\ PidUsedOnce' /\ Fresh'
  <2>1. \A u \in Users : had'[u] \in {0, had[u]}
    BY <1>3 DEF Rob
  <2> QED
    BY <1>2, <2>1 DEF Mutex, Holds, PidUsedOnce, Fresh
<1>9. Undisturbed'
  <2>1. SUFFICES ASSUME NEW u \in Users \ robbed' PROVE Steady(u)' /\ Owes(u)'
    BY DEF Undisturbed
  <2>2. /\ Steady(u) /\ Owes(u) /\ had'[u] = had[u]
        /\ target[u] # NULL => Kept(target[u]) /\ state'[target[u]] # "gone"
    BY <1>3 DEF Undisturbed, Rob, Robbed
  <2>3. Steady(u)'
    <3>1. Startled(u) => state'[pos[u].pid] # "alive"
      BY <1>6 DEF Startled
    <3> QED
      BY <2>2, <3>1, <1>1, <1>2, SteadyStays
  <2>4. Owes(u)'
    <3>1. target[u] # NULL => /\ had[u] \in Nat
                              /\ Len(children[target[u]]) \in Nat /\ Len(children'[target[u]]) \in Nat
                              /\ Len(children[target[u]]) <= Len(children'[target[u]])
      BY <1>1, <2>2, LenProperties DEF TypeOK, Kept
    <3> QED
      BY <1>2, <2>2, <3>1 DEF Owes, Fit
  <2> QED
    BY <2>3, <2>4
<1> QED
  BY <1>1, <1>4, <1>5, <1>6, <1>7, <1>8, <1>9

(* A step of a user that is still a process disturbs no other.              *)
LEMMA UserStepKeepsCore ==
    ASSUME Core, NEW v \in Users, state[v] # "gone", UserStep(v)
    PROVE  Core'
<1>1. UNCHANGED <<state, children>>
  BY UserLeavesTree
<1>2. Lists' /\ (state[1] = "alive")'
  BY <1>1 DEF Core, Lists, Listed, Living
<1>3. TypeOK' /\ Positions' /\ Mutex' /\ PidUsedOnce' /\ Known' /\ Fresh'
  BY UserTypes, UserPositions, UserMutex, UserUsesOnce, UserKnown, UserFresh
<1>4. Undisturbed'
  <2>1. v \notin robbed' => Steady(v)' /\ Owes(v)'
    BY UserSteady, UserOwes
  <2>2. ASSUME NEW u \in Users \ {v}, u \notin robbed' PROVE Steady(u)' /\ Owes(u)'
    <3>1. /\ pc'[u] = pc[u] /\ target'[u] = target[u] /\ u \notin robbed
          /\ pos'[u] = pos[u] /\ page'[u] = page[u] /\ had'[u] = had[u]
      BY <2>2, OthersStay DEF Core
    <3>2. Steady(u) /\ Owes(u)
      BY <3>1 DEF Core, Undisturbed
    <3> QED
      BY <1>1, <3>1, <3>2 DEF Steady, Startled, At, Owes, Fit, Copied, AtChild, Listed
  <2> QED
    BY <2>1, <2>2 DEF Undisturbed
<1> QED
  BY <1>2, <1>3, <1>4 DEF Core

(* A step that changes nothing here keeps it too.                           *)
LEMMA StutterKeepsCore == Core /\ UNCHANGED vars => Core'
<1> SUFFICES ASSUME Core, UNCHANGED vars PROVE Core'
  OBVIOUS
<1>1. UNCHANGED <<state, children, testid, mtx, pc, target, pos, page, had, robbed, stored, used>>
  BY DEF vars, treeVars, userVars
<1>2. TypeOK' /\ Lists' /\ (state[1] = "alive")' /\ Positions' /\ Mutex' /\ PidUsedOnce' /\ Known' /\ Fresh'
  BY <1>1 DEF Core, TypeOK, Lists, Listed, Living, Positions, Mutex, Holds,
       PidUsedOnce, Known, Fresh
<1>3. Undisturbed'
  BY <1>1 DEF Core, Undisturbed, Steady, Startled, At, Owes, Fit, Copied, AtChild,
       Listed
<1> QED
  BY <1>2, <1>3 DEF Core

(* Nothing is written or read yet.                                          *)
LEMMA InitHolds == Init => IInv
<1> SUFFICES ASSUME Init PROVE IInv
  OBVIOUS
<1>1. 1 \in Pids /\ Users \subseteq Pids \ {1} /\ Started \in Seq(Pids \ {1})
  BY MyPsAssumption DEF Pids
<1>2. /\ Started \in Seq(Pids) /\ Len(Started) \in Nat
      /\ \A k \in 1 .. Len(Started) : Started[k] \in Pids \ {1}
  <2>1. Started \in Seq(Pids)
    BY <1>1, SeqMonotonic
  <2> QED
    BY <1>1, <2>1, LenProperties, ElementOfSeq
<1>3. <<>> \in Seq(Pids) /\ Len(<<>>) = 0
  BY EmptySeq
<1>4. /\ children \in [Pids -> Seq(Pids)]
      /\ children[1] = Started /\ \A p \in Pids \ {1} : children[p] = <<>>
  BY <1>1, <1>2, <1>3 DEF Init
<1>5. /\ state \in [Pids -> {"none", "alive", "zombie", "gone"}]
      /\ state[1] = "alive" /\ \A k \in 1 .. Len(Started) : Living(Started[k])
      /\ \A c \in Pids \ {1} : Living(c) => \E k \in 1 .. Len(Started) : Started[k] = c
      /\ \A p \in Pids : state[p] \in {"none", "alive"}
  BY <1>1, <1>2 DEF Init, Living
<1>6. Lists
  <2>1. Listed(1) = 1 .. Len(Started) /\ \A p \in Pids \ {1} : Listed(p) = {}
    BY <1>3, <1>4 DEF Listed
  <2>2. \A q \in Pids : \A j \in Listed(q) : q = 1 /\ j \in 1 .. Len(Started) /\ children[q][j] = Started[j]
    BY <1>4, <2>1
  <2>3. \A q \in Pids : \A j \in Listed(q) : children[q][j] # 1 /\ Living(children[q][j])
    BY <1>2, <1>5, <2>2
  <2>4. \A p \in Pids, q \in Pids : \A j \in Listed(p), k \in Listed(q) :
          children[p][j] = children[q][k] => p = q /\ j = k
    BY <2>2, MyPsAssumption
  <2>5. \A c \in Pids \ {1} : Living(c) => \E q \in Pids : \E k \in Listed(q) : children[q][k] = c
    BY <1>1, <1>4, <1>5, <2>1
  <2> QED
    BY <2>3, <2>4, <2>5 DEF Lists
<1>7. HeadNode(1) \in Nodes
  BY <1>1 DEF Nodes
<1>8. /\ pos \in [Users -> Nodes] /\ page \in [Users -> Seq(Pids)]
      /\ \A u \in Users : page[u] = <<>> /\ Len(page[u]) <= PageLines
  BY <1>3, <1>7, MyPsAssumption DEF Init
<1>9. /\ pc \in [Users -> {"idle"}] /\ target \in [Users -> {NULL}]
      /\ mtx \in BOOLEAN /\ stored \in 0 .. MaxWrites /\ used \in Nat
  <2>1. /\ pc = [u \in Users |-> "idle"] /\ target = [u \in Users |-> NULL]
        /\ stored = 0 /\ used = 0
    BY DEF Init
  <2>2. mtx \in BOOLEAN
    BY Zenon DEF Init
  <2>3. 0 \in 0 .. MaxWrites /\ 0 \in Nat
    BY MyPsAssumption
  <2> QED
    BY <2>1, <2>2, <2>3
<1>10. TypeOK
  <2>1. had \in [Users -> Nat] /\ robbed \subseteq Users
    BY DEF Init
  <2> QED
    BY <1>4, <1>5, <1>8, <1>9, <2>1 DEF Init, TypeOK
<1>11. Staying /\ Positions /\ Mutex /\ PidUsedOnce /\ Known /\ Fresh
  BY <1>1, <1>5, <1>8, <1>9
     DEF Init, Staying, Positions, HeadNode, Mutex, Holds, PidUsedOnce, Known, Fresh
<1>12. Undisturbed
  BY <1>9 DEF Undisturbed, Steady, At, Owes
<1> QED
  BY <1>5, <1>6, <1>10, <1>11, <1>12 DEF IInv, Core

(* The processes that come and go are no users.                             *)
LEMMA ProcessesKeep == IInv /\ Processes => IInv'
<1> SUFFICES ASSUME IInv, Processes PROVE IInv'
  OBVIOUS
<1>1. PICK p \in Pids \ Users, c \in Pids \ Users : Fork(p, c) \/ Exit(p) \/ Reap(c)
  BY DEF Processes
<1>2. Core'
  BY <1>1, TreeStepKeepsCore DEF IInv, Processes
<1>3. \A u \in Users : state'[u] = state[u]
  <2>1. Users \subseteq Pids
    BY MyPsAssumption
  <2> QED
    BY <1>1, <2>1 DEF Fork, Exit, Reap, IInv, Core, TypeOK
<1> QED
  BY <1>2, <1>3 DEF IInv, Staying

(* Every step keeps all of it.                                              *)
LEMMA StepKeeps == IInv /\ [Next]_vars => IInv'
<1> SUFFICES ASSUME IInv, [Next]_vars PROVE IInv'
  OBVIOUS
<1>1. CASE Processes
  BY <1>1, ProcessesKeep
<1>2. ASSUME NEW v \in Users, UserStep(v) PROVE IInv'
  <2>1. state[v] # "gone" /\ Staying
    BY DEF IInv, Staying
  <2>2. Core'
    BY <1>2, <2>1, UserStepKeepsCore DEF IInv
  <2> QED
    BY <1>2, <2>1, <2>2, UserLeavesTree DEF IInv, Staying
<1>3. CASE UNCHANGED vars
  BY <1>3, StutterKeepsCore DEF IInv, Staying, vars, treeVars
<1> QED
  BY <1>1, <1>2, <1>3 DEF Next, UserStep

(* The inductive invariant: processes, lists and walks fit together.        *)
THEOREM Invariant == Spec => []IInv
  BY InitHolds, StepKeeps, PTL DEF Spec

(* The variables keep their types, and no page gets longer than it may be.  *)
THEOREM TypeCorrect == Spec => []TypeOK
  BY Invariant, PTL DEF IInv, Core

(* A pid written to /proc/myps is used for one read at most, however many   *)
(* users race for the mutex that they only try.                             *)
THEOREM PidsAreUsedOnce == Spec => []PidUsedOnce
  BY Invariant, PTL DEF IInv, Core

(* What a cat that was not robbed has printed when it ends is the first of  *)
(* the list, and as much of it as it owes.                                  *)
LEMMA EndedListIsExact == Core => ListIsExact
<1> SUFFICES ASSUME Core, NEW u \in Users \ robbed, At(u, "end"), target[u] # NULL
             PROVE  \E n \in Fit(had[u]) .. Fit(Len(children[target[u]])) :
                       page[u] = SubSeq(children[target[u]], 1, n)
  BY DEF ListIsExact
<1> DEFINE list == children[target[u]]
           n    == Len(page[u])
<1>1. Copied(u) /\ Fit(had[u]) <= n
  BY DEF Core, Undisturbed, Steady, Owes, At
<1>2. /\ list \in Seq(Pids) /\ Len(list) \in Nat /\ PageLines \in Nat
      /\ \A k \in 1 .. Len(list) : list[k] \in Pids
      /\ page[u] \in Seq(Pids) /\ n \in Nat /\ n <= PageLines /\ had[u] \in Nat
  BY ListFacts, LenProperties, MyPsAssumption DEF Core, TypeOK, NULL, Listed
<1>3. n <= Len(list) /\ \A k \in 1 .. n : page[u][k] = list[k]
  BY <1>1 DEF Copied
<1>4. /\ SubSeq(list, 1, n) \in Seq(Pids) /\ Len(SubSeq(list, 1, n)) = n
      /\ \A k \in 1 .. n : SubSeq(list, 1, n)[k] = list[k]
  <2>1. /\ 1 \in Int /\ n \in Int /\ \A k \in 1 .. n : list[k] \in Pids
    BY <1>2, <1>3
  <2> HIDE DEF n, list
  <2>2. /\ SubSeq(list, 1, n) \in Seq(Pids)
        /\ Len(SubSeq(list, 1, n)) = IF 1 <= n THEN n - 1 + 1 ELSE 0
        /\ \A k \in 1 .. n - 1 + 1 : SubSeq(list, 1, n)[k] = list[1 + k - 1]
    BY <2>1, SubSeqProperties
  <2> QED
    BY <2>2, <1>2
<1>5. page[u] = SubSeq(list, 1, n)
  <2> HIDE DEF list
  <2> QED
    BY <1>2, <1>3, <1>4, SeqEqual
<1>6. n \in Fit(had[u]) .. Fit(Len(list))
  BY <1>1, <1>2, <1>3 DEF Fit
<1> QED
  BY <1>5, <1>6

(* A cat whose process does not go or lose children prints these, in order  *)
(* and once each, as far as they fit the page, whatever other processes do: *)
(* all there were when it began, and the first of those made meanwhile.     *)
THEOREM ListsAreExact == Spec => []ListIsExact
  BY Invariant, EndedListIsExact, PTL DEF IInv

(* No read or write walks over freed memory unless the process that it is   *)
(* about goes or loses children; none crashes but then or when the child it *)
(* is showing exits.  Processes that are made do it no harm, and others     *)
(* that exit.                                                               *)
THEOREM CrashesNeedExit == Spec => []CrashNeedsExit
<1>1. IInv => CrashNeedsExit
  BY DEF IInv, Core, Undisturbed, Steady, CrashNeedsExit, At
<1> QED
  BY <1>1, Invariant, PTL
=============================================================================

--------------------------- MODULE WorkQueueProofs --------------------------
(***************************************************************************)
(* Proofs about WorkQueue, for every number of threads, nodes and calls:   *)
(* IInv is inductive, the list is a FIFO queue, no wakeup is lost.         *)
(***************************************************************************)
EXTENDS WorkQueue, FiniteSetTheorems, SequenceTheorems, TLAPS

(* createQueue establishes the invariant. *)
LEMMA InitIInv == Init => IInv
  BY QueueAssumption DEF Init, IInv, TypeOK, PcRole, MutualExclusion, LocalNodes,
     ListShape, HeapAccounting, Linked, PrivateNodes, Private, Holding, Location, Status, Threads, Task

(* A new node is different from all nodes in use. *)
LEMMA EnqAllocStep ==
  ASSUME NEW p \in Producers, IInv, status = "live", EnqAlloc(p)
  PROVE  IInv'
<1> USE QueueAssumption DEF IInv, Threads, EnqAlloc, Goto, list
<1>0. PICK n \in Nodes \ alloc : /\ alloc' = alloc \cup {n}
       /\ task' = [task EXCEPT ![n] = <<p, made[p] + 1>>]
       /\ nxt' = [nxt EXCEPT ![n] = NULL]
       /\ node' = [node EXCEPT ![p] = n]
  OBVIOUS
<1>1. <<p, made[p] + 1>> \in Task
  BY DEF TypeOK, Task
<1>2. TypeOK'
  BY <1>0, <1>1 DEF TypeOK, Location, Status
<1>3. PcRole'
  BY <1>0 DEF TypeOK, PcRole
<1>4. MutualExclusion'
  BY <1>0 DEF TypeOK, MutualExclusion, Holding
<1>5. LocalNodes'
  <2>1. (\A t \in Threads : pc[t] \in Private => node[t] \in Nodes)'
    BY <1>0 DEF TypeOK, LocalNodes, Private
  <2>2. (\A q \in Producers : pc[q] \in {"enqLock", "enqLink"} =>
           nxt[node[q]] = NULL /\ task[node[q]] \in Task)'
    <3> SUFFICES ASSUME NEW q \in Producers, pc'[q] \in {"enqLock", "enqLink"}
                 PROVE  nxt'[node'[q]] = NULL /\ task'[node'[q]] \in Task
      OBVIOUS
    <3>1. CASE q = p
      BY <3>1, <1>0, <1>1 DEF TypeOK
    <3>2. CASE q # p
      BY <3>2, <1>0, <1>1 DEF TypeOK, LocalNodes, Private
    <3> QED BY <3>1, <3>2
  <2>3. (\A i \in 1..Len(chain) : task[chain[i]] \in Task)'
    BY <1>0, <1>1 DEF TypeOK, LocalNodes
  <2> QED BY <2>1, <2>2, <2>3 DEF LocalNodes
<1>6. ListShape'
  BY <1>0 DEF TypeOK, ListShape, HeapAccounting, Linked
<1>7. HeapAccounting'
  <2>1. Linked' = Linked
    BY DEF Linked
  <2>2. PrivateNodes' = PrivateNodes \cup {n}
    BY <1>0 DEF TypeOK, PrivateNodes, Private
  <2>3. n \notin Linked /\ n \notin PrivateNodes
    BY <1>0 DEF HeapAccounting
  <2>4. \A t \in Threads : pc[t] \in Private => node[t] \in PrivateNodes
    BY DEF PrivateNodes
  <2>5. (\A t, u \in Threads :
           t # u /\ pc[t] \in Private /\ pc[u] \in Private => node[t] # node[u])'
    BY <1>0, <2>3, <2>4 DEF TypeOK, HeapAccounting, Private
  <2> QED BY <1>0, <2>1, <2>2, <2>3, <2>5 DEF HeapAccounting
<1> QED BY <1>2, <1>3, <1>4, <1>5, <1>6, <1>7

(* What a step leaves true that touches neither the list nor the heap. *)
LEMMA Frame ==
  ASSUME IInv, UNCHANGED <<list, heap, node, status>>,
         \A t \in Threads : pc'[t] \in Private <=> pc[t] \in Private,
         \A p \in Producers : pc'[p] \in {"enqLock", "enqLink"}
                               => pc[p] \in {"enqLock", "enqLink"}
  PROVE  LocalNodes' /\ ListShape' /\ HeapAccounting'
<1> USE DEF IInv, list, heap
<1>1. LocalNodes'
  BY DEF LocalNodes
<1>2. ListShape'
  BY DEF ListShape
<1>3. HeapAccounting'
  <2>1. Linked' = Linked /\ PrivateNodes' = PrivateNodes
    BY DEF Linked, PrivateNodes
  <2> QED BY <2>1 DEF HeapAccounting
<1> QED BY <1>1, <1>2, <1>3

(* The steps that take, give up or wait for the mutex, and the signal.     *)
LEMMA MutexStep ==
  ASSUME IInv, status = "live",
         \/ \E p \in Producers : EnqLock(p) \/ EnqSignal(p)
         \/ \E c \in Consumers : DeqLock(c) \/ DeqWait(c) \/ SpuriousWake(c) \/ DeqRelock(c)
         \/ \E t \in Threads : Unlock(t) \/ IsEmpty(t)
  PROVE  IInv'
<1> USE QueueAssumption DEF IInv, Threads, Goto, TypeOK, PcRole, MutualExclusion,
        Holding, Private, Location
<1>1. ASSUME NEW p \in Producers, EnqLock(p) PROVE IInv'
  <2>1. TypeOK' /\ PcRole' /\ MutualExclusion'
    BY <1>1 DEF EnqLock, list, heap
  <2>2. LocalNodes' /\ ListShape' /\ HeapAccounting'
    BY <1>1, Frame DEF EnqLock
  <2> QED BY <2>1, <2>2
<1>2. ASSUME NEW p \in Producers, EnqSignal(p) PROVE IInv'
  <2>1. TypeOK' /\ PcRole' /\ MutualExclusion'
    <3>1. /\ pc' \in [Threads -> Location] /\ UNCHANGED <<list, heap, lock, node, made, got, status, cur>>
          /\ \A t \in Threads :
               \/ pc'[t] = pc[t]
               \/ t \in Producers /\ pc[t] = "enqSignal" /\ pc'[t] = "unlock"
               \/ t \in Consumers /\ pc[t] = "deqWait" /\ pc'[t] = "deqRelock"
      BY <1>2 DEF EnqSignal, Waiting
    <3>2. TypeOK'
      BY <3>1 DEF list, heap
    <3>3. PcRole'
      BY <3>1
    <3>4. MutualExclusion'
      BY <3>1
    <3> QED BY <3>2, <3>3, <3>4
  <2>2. LocalNodes' /\ ListShape' /\ HeapAccounting'
    BY <1>2, Frame DEF EnqSignal, Waiting
  <2> QED BY <2>1, <2>2
<1>3. ASSUME NEW c \in Consumers, DeqLock(c) \/ DeqWait(c) \/ SpuriousWake(c) \/ DeqRelock(c)
      PROVE  IInv'
  <2>1. TypeOK' /\ PcRole' /\ MutualExclusion'
    <3>1. CASE DeqLock(c)
      BY <3>1 DEF DeqLock, list, heap
    <3>2. CASE DeqWait(c)
      BY <3>2 DEF DeqWait, list, heap
    <3>3. CASE SpuriousWake(c)
      BY <3>3 DEF SpuriousWake, list, heap
    <3>4. CASE DeqRelock(c)
      BY <3>4 DEF DeqRelock, list, heap
    <3> QED BY <1>3, <3>1, <3>2, <3>3, <3>4
  <2>2. LocalNodes' /\ ListShape' /\ HeapAccounting'
    BY <1>3, Frame DEF DeqLock, DeqWait, SpuriousWake, DeqRelock
  <2> QED BY <2>1, <2>2
<1>4. ASSUME NEW t \in Threads, Unlock(t) \/ IsEmpty(t) PROVE IInv'
  <2>1. TypeOK' /\ PcRole' /\ MutualExclusion'
    <3>1. CASE Unlock(t)
      BY <3>1 DEF Unlock, list, heap
    <3>2. CASE IsEmpty(t)
      BY <3>2 DEF IsEmpty, list, heap
    <3> QED BY <1>4, <3>1, <3>2
  <2>2. LocalNodes' /\ ListShape' /\ HeapAccounting'
    BY <1>4, Frame DEF Unlock, IsEmpty
  <2> QED BY <2>1, <2>2
<1> QED BY <1>1, <1>2, <1>3, <1>4

(* malloc failing and deleteQueue leave the list and all threads alone.    *)
LEMMA LifeStep ==
  ASSUME IInv,
         Delete \/ \E p \in Producers : status = "live" /\ EnqAllocFails(p)
  PROVE  IInv'
<1> USE QueueAssumption DEF IInv
<1>1. /\ UNCHANGED <<head, tail, chain, nxt, task, lock, pc, node, made, got>>
      /\ \/ UNCHANGED alloc /\ (status' \in {"live", "exited"} => status \in {"live", "exited"})
         \/ alloc' \subseteq alloc /\ status' \notin {"live", "exited"}
  <2>1. CASE DeleteBegin
    BY <2>1 DEF DeleteBegin, list, heap
  <2>2. CASE DeleteStep
    BY <2>2 DEF DeleteStep, list
  <2>3. CASE DeleteEnd
    BY <2>3 DEF DeleteEnd, list, heap
  <2>4. ASSUME NEW p \in Producers, status = "live", EnqAllocFails(p)
        PROVE  /\ UNCHANGED <<head, tail, chain, nxt, task, lock, pc, node, made, got, alloc>>
               /\ status' \in {"live", "exited"} => status \in {"live", "exited"}
    BY <2>4 DEF EnqAllocFails, list, heap
  <2> QED BY <2>1, <2>2, <2>3, <2>4 DEF Delete
<1>2. status' \in Status /\ cur' \in Nodes \cup {NULL}
  BY DEF Delete, DeleteBegin, DeleteStep, DeleteEnd, EnqAllocFails, Status, TypeOK
<1>3. TypeOK' /\ PcRole' /\ MutualExclusion' /\ LocalNodes' /\ ListShape'
  BY <1>1, <1>2 DEF TypeOK, PcRole, MutualExclusion, LocalNodes, ListShape
<1>4. HeapAccounting'
  <2>1. Linked' = Linked /\ PrivateNodes' = PrivateNodes
    BY <1>1 DEF Linked, PrivateNodes
  <2> QED BY <1>1, <2>1 DEF HeapAccounting
<1> QED BY <1>3, <1>4

(* Linking a node behind the last one. *)
LEMMA EnqLinkStep ==
  ASSUME NEW p \in Producers, IInv, status = "live", EnqLink(p)
  PROVE  IInv'
<1> USE QueueAssumption DEF IInv, Threads, EnqLink, Goto
<1> DEFINE k == Len(chain)
<1>1. /\ k \in Nat /\ node[p] \in Nodes /\ nxt[node[p]] = NULL /\ task[node[p]] \in Task
      /\ node[p] \in PrivateNodes /\ node[p] \notin Linked
  BY DEF TypeOK, LocalNodes, HeapAccounting, Private, PrivateNodes
<1>2. /\ chain' \in Seq(Nodes) /\ Len(chain') = k + 1 /\ chain'[k + 1] = node[p]
      /\ \A i \in 1..k : chain'[i] = chain[i] /\ chain'[i] \in Linked
  BY <1>1 DEF TypeOK, Linked
<1>3. Linked' = Linked \cup {node[p]}
  BY <1>1, <1>2 DEF Linked, TypeOK
<1>4. head = NULL <=> k = 0
  BY DEF ListShape, TypeOK
<1>5. TypeOK'
  BY <1>1, <1>2 DEF TypeOK, Location
<1>6. PcRole' /\ MutualExclusion'
  BY DEF TypeOK, PcRole, MutualExclusion, Holding
<1>7. LocalNodes'
  <2>1. (\A t \in Threads : pc[t] \in Private => node[t] \in Nodes)'
    BY DEF TypeOK, LocalNodes, Private
  <2>2. (\A q \in Producers : pc[q] \in {"enqLock", "enqLink"} =>
           nxt[node[q]] = NULL /\ task[node[q]] \in Task)'
    <3> SUFFICES ASSUME NEW q \in Producers, pc'[q] \in {"enqLock", "enqLink"}
                 PROVE  nxt'[node[q]] = NULL /\ task[node[q]] \in Task
      OBVIOUS
    <3>1. q # p /\ pc[q] \in {"enqLock", "enqLink"}
      BY DEF TypeOK
    <3>2. node[q] \in PrivateNodes
      BY <3>1 DEF PrivateNodes, Private
    <3>3. node[q] \notin Linked /\ (k # 0 => tail \in Linked)
      BY <3>2, <1>1 DEF HeapAccounting, ListShape, Linked
    <3>4. node[q] \in Nodes /\ nxt[node[q]] = NULL /\ task[node[q]] \in Task
      BY <3>1 DEF LocalNodes, Private
    <3>5. nxt'[node[q]] = nxt[node[q]]
      <4>1. CASE k = 0
        BY <4>1, <1>4
      <4>2. CASE k # 0
        BY <4>2, <1>4, <3>3, <3>4 DEF TypeOK
      <4> QED BY <4>1, <4>2
    <3> QED BY <3>4, <3>5 DEF heap
  <2>3. (\A i \in 1..Len(chain) : task[chain[i]] \in Task)'
    BY <1>1, <1>2 DEF LocalNodes
  <2> QED BY <2>1, <2>2, <2>3 DEF LocalNodes
<1>8. ListShape'
  <2>1. CASE k = 0
    BY <2>1, <1>1, <1>2, <1>4 DEF ListShape, TypeOK
  <2>2. CASE k # 0
    <3>1. head # NULL /\ tail = chain[k] /\ tail \in Nodes /\ tail \in Linked
      BY <2>2, <1>1, <1>4 DEF ListShape, TypeOK, Linked
    <3>2. nxt'[tail] = node[p] /\ \A n \in Nodes \ {tail} : nxt'[n] = nxt[n]
      BY <3>1 DEF TypeOK
    <3>3. \A i \in 1..k : i # k => chain[i] # tail /\ chain[i] \in Nodes
      BY <3>1, <1>1 DEF HeapAccounting, TypeOK
    <3>4. ASSUME NEW i \in 1..(k + 1)
          PROVE  nxt'[chain'[i]] = IF i = k + 1 THEN NULL ELSE chain'[i + 1]
      <4>1. CASE i = k + 1
        BY <4>1, <3>1, <3>2, <1>1, <1>2
      <4>2. CASE i = k
        BY <4>2, <3>1, <3>2, <1>1, <1>2
      <4>3. CASE i < k
        BY <4>3, <3>2, <3>3, <1>1, <1>2 DEF ListShape
      <4> QED BY <4>1, <4>2, <4>3, <1>1
    <3>5. head' = chain'[1] /\ tail' = chain'[k + 1] /\ chain' # <<>>
      BY <2>2, <3>1, <1>1, <1>2 DEF ListShape
    <3> QED BY <3>4, <3>5, <1>2 DEF ListShape
  <2> QED BY <2>1, <2>2
<1>9. HeapAccounting'
  <2>1. PrivateNodes' = PrivateNodes \ {node[p]}
    BY DEF TypeOK, PrivateNodes, Private, HeapAccounting
  <2>2. (\A i, j \in 1..Len(chain) : i # j => chain[i] # chain[j])'
    BY <1>1, <1>2 DEF HeapAccounting
  <2>3. (\A t, u \in Threads :
           t # u /\ pc[t] \in Private /\ pc[u] \in Private => node[t] # node[u])'
    BY DEF TypeOK, HeapAccounting, Private
  <2> QED BY <1>1, <1>3, <2>1, <2>2, <2>3 DEF HeapAccounting
<1> QED BY <1>5, <1>6, <1>7, <1>8, <1>9

(* Unlinking the first node. *)
LEMMA DeqTakeStep ==
  ASSUME NEW c \in Consumers, IInv, status = "live", DeqTake(c)
  PROVE  IInv'
<1> USE QueueAssumption DEF IInv, Threads, DeqTake, Goto, heap
<1> DEFINE k == Len(chain)
<1>1. k \in Nat \ {0} /\ head = chain[1] /\ head \in Nodes /\ head \in Linked
      /\ nxt[head] = (IF k = 1 THEN NULL ELSE chain[2]) /\ task[head] \in Task
  <2>1. chain \in Seq(Nodes) /\ chain # <<>> /\ head = chain[1]
    BY DEF TypeOK, ListShape
  <2>2. k \in Nat \ {0}
    BY <2>1
  <2>3. 1 \in 1..k
    BY <2>2
  <2>4. nxt[chain[1]] = (IF 1 = k THEN NULL ELSE chain[1 + 1])
    BY <2>3 DEF ListShape
  <2>5. head \in Nodes /\ head \in Linked /\ task[head] \in Task
    BY <2>1, <2>3 DEF Linked, LocalNodes
  <2> QED BY <2>1, <2>2, <2>4, <2>5
<1>2. /\ chain' \in Seq(Nodes) /\ Len(chain') = k - 1
      /\ \A i \in 1..(k - 1) : chain'[i] = chain[i + 1]
  BY <1>1 DEF TypeOK
<1>3. Linked' = Linked \ {head}
  <2>1. \A i \in 1..k : i = 1 <=> chain[i] = head
    BY <1>1 DEF HeapAccounting
  <2>2. ASSUME NEW i \in 1..(k - 1) PROVE chain'[i] \in Linked \ {head}
    <3>1. i + 1 \in 1..k /\ i + 1 # 1 /\ chain'[i] = chain[i + 1]
      BY <1>1, <1>2, <2>2
    <3> QED BY <3>1, <2>1 DEF Linked
  <2>3. ASSUME NEW i \in 1..k, i # 1 PROVE chain[i] \in Linked'
    <3>1. i - 1 \in 1..(k - 1) /\ chain[i] = chain'[i - 1]
      BY <1>1, <1>2, <2>3
    <3> QED BY <3>1, <1>2 DEF Linked
  <2> QED BY <2>1, <2>2, <2>3 DEF Linked
<1>4. TypeOK'
  BY <1>1, <1>2 DEF TypeOK, Location
<1>5. PcRole' /\ MutualExclusion'
  BY DEF TypeOK, PcRole, MutualExclusion, Holding
<1>6. LocalNodes'
  <2>1. (\A t \in Threads : pc[t] \in Private => node[t] \in Nodes)'
    BY <1>1 DEF TypeOK, LocalNodes, Private
  <2>2. (\A q \in Producers : pc[q] \in {"enqLock", "enqLink"} =>
           nxt[node[q]] = NULL /\ task[node[q]] \in Task)'
    BY DEF TypeOK, LocalNodes
  <2>3. (\A i \in 1..Len(chain) : task[chain[i]] \in Task)'
    BY <1>1, <1>2 DEF LocalNodes
  <2> QED BY <2>1, <2>2, <2>3 DEF LocalNodes
<1>7. ListShape'
  <2>0. /\ nxt' = nxt /\ head' = nxt[head]
        /\ tail' = (IF nxt[head] = NULL THEN NULL ELSE tail)
        /\ tail = chain[k]
        /\ \A i \in 1..k : nxt[chain[i]] = IF i = k THEN NULL ELSE chain[i + 1]
    BY <1>1 DEF ListShape
  <2>1. \A i \in 1..k : chain[i] \in Nodes
    BY DEF TypeOK
  <2> HIDE DEF k, IInv, DeqTake
  <2>2. CASE k = 1
    <3>1. head' = NULL /\ tail' = NULL /\ chain' = <<>>
      BY <2>2, <2>0, <1>1, <1>2
    <3> QED BY <3>1, <2>2, <1>2 DEF ListShape
  <2>3. CASE k # 1
    <3>1. k > 1 /\ k - 1 \in Nat /\ 1 \in 1..(k - 1) /\ k - 1 \in 1..(k - 1) /\ 2 \in 1..k
      BY <2>3, <1>1
    <3>2. chain' # <<>>
      BY <3>1, <1>2
    <3>3. nxt[head] # NULL /\ head' = chain'[1]
      BY <3>1, <2>0, <2>1, <1>1, <1>2
    <3>4. chain'[k - 1] = chain[(k - 1) + 1] /\ (k - 1) + 1 = k
      BY <3>1, <1>1, <1>2
    <3>5. tail' = chain'[k - 1]
      BY <3>3, <3>4, <2>0
    <3>6. ASSUME NEW i \in 1..(k - 1)
          PROVE  nxt[chain'[i]] = IF i = k - 1 THEN NULL ELSE chain'[i + 1]
      <4>1. i \in Nat /\ i + 1 \in 1..k /\ chain'[i] = chain[i + 1]
        BY <3>1, <1>1, <1>2
      <4>2. nxt[chain[i + 1]] = IF i + 1 = k THEN NULL ELSE chain[(i + 1) + 1]
        BY <4>1, <2>0
      <4>3. CASE i = k - 1
        BY <4>1, <4>2, <4>3, <3>1, <1>1
      <4>4. CASE i # k - 1
        <5>1. i + 1 \in 1..(k - 1) /\ i + 1 # k
          BY <4>4, <4>1, <3>1, <1>1
        <5> QED BY <5>1, <4>1, <4>2, <4>4, <1>2
      <4> QED BY <4>3, <4>4
    <3> QED BY <2>0, <3>2, <3>3, <3>5, <3>6, <1>2 DEF ListShape
  <2> QED BY <2>2, <2>3
<1>8. HeapAccounting'
  <2>1. PrivateNodes' = PrivateNodes \cup {head}
    BY DEF TypeOK, PrivateNodes, Private
  <2>2. (\A i, j \in 1..Len(chain) : i # j => chain[i] # chain[j])'
    BY <1>1, <1>2 DEF HeapAccounting
  <2>3. (\A t, u \in Threads :
           t # u /\ pc[t] \in Private /\ pc[u] \in Private => node[t] # node[u])'
    <3>1. \A t \in Threads : pc[t] \in Private => node[t] \in PrivateNodes
      BY DEF PrivateNodes
    <3>2. head \notin PrivateNodes
      BY <1>1 DEF HeapAccounting
    <3> QED BY <3>1, <3>2 DEF TypeOK, HeapAccounting, Private
  <2>4. head \notin PrivateNodes
    BY <1>1 DEF HeapAccounting
  <2> QED BY <1>1, <1>3, <2>1, <2>2, <2>3, <2>4 DEF HeapAccounting
<1> QED BY <1>4, <1>5, <1>6, <1>7, <1>8

(* Freeing the node that was unlinked. *)
LEMMA DeqFreeStep ==
  ASSUME NEW c \in Consumers, IInv, status = "live", DeqFree(c)
  PROVE  IInv'
<1> USE QueueAssumption DEF IInv, Threads, DeqFree, Goto, list
<1>1. TypeOK' /\ PcRole' /\ MutualExclusion'
  BY DEF TypeOK, PcRole, MutualExclusion, Holding, Location
<1>2. LocalNodes' /\ ListShape'
  BY DEF TypeOK, LocalNodes, ListShape, Private
<1>3. HeapAccounting'
  <2>1. Linked' = Linked
    BY DEF Linked
  <2>2. PrivateNodes' = PrivateNodes \ {node[c]}
    BY DEF TypeOK, PrivateNodes, Private, HeapAccounting
  <2>3. node[c] \in PrivateNodes
    BY DEF PrivateNodes, Private
  <2>4. (\A t, u \in Threads :
           t # u /\ pc[t] \in Private /\ pc[u] \in Private => node[t] # node[u])'
    BY DEF TypeOK, HeapAccounting, Private
  <2> QED BY <2>1, <2>2, <2>3, <2>4 DEF HeapAccounting
<1> QED BY <1>1, <1>2, <1>3

(* The invariant is inductive. *)
LEMMA NextIInv == IInv /\ [Next]_vars => IInv'
<1> SUFFICES ASSUME IInv, [Next]_vars PROVE IInv'
  OBVIOUS
<1>1. CASE Operate
  BY <1>1, EnqAllocStep, EnqLinkStep, DeqTakeStep, DeqFreeStep, MutexStep, LifeStep
     DEF Operate, Producer, Consumer
<1>2. CASE Delete
  BY <1>2, LifeStep
<1>3. CASE UNCHANGED vars
  <2> USE <1>3 DEF vars, IInv
  <2>1. TypeOK' /\ PcRole' /\ MutualExclusion'
    BY DEF TypeOK, PcRole, MutualExclusion
  <2>2. LocalNodes' /\ ListShape' /\ HeapAccounting'
    BY Frame DEF list, heap
  <2> QED BY <2>1, <2>2
<1> QED BY <1>1, <1>2, <1>3 DEF Next

(* queue.c keeps the inductive invariant at every step of any number of    *)
(* threads that call enqueue, dequeue, isEmpty and deleteQueue.            *)
THEOREM Invariance == Spec => []IInv
  BY InitIInv, NextIInv, PTL DEF Spec

(* Every variable of queue.c keeps its type (queue.c:5-120).               *)
THEOREM TypeCorrect == Spec => []TypeOK
<1>1. IInv => TypeOK
  BY DEF IInv
<1> QED BY <1>1, Invariance, PTL

(* The thread in a critical section of queue.c is the one that holds       *)
(* queue->mutex, also around pthread_cond_wait (queue.c:63-78, 83-106).    *)
THEOREM Exclusion == Spec => []MutualExclusion
<1>1. IInv => MutualExclusion
  BY DEF IInv
<1> QED BY <1>1, Invariance, PTL

(* head, tail and the next fields always describe the list of the nodes    *)
(* that were linked and not yet unlinked (queue.c:66-75, 96-102).          *)
THEOREM ListSound == Spec => []ListShape
<1>1. IInv => ListShape
  BY DEF IInv
<1> QED BY <1>1, Invariance, PTL

(* enqueue and dequeue neither leak a node nor free one that is in use     *)
(* (queue.c:56, 104).                                                      *)
THEOREM HeapSound == Spec => []HeapAccounting
<1>1. IInv => HeapAccounting
  BY DEF IInv
<1> QED BY <1>1, Invariance, PTL

(***************************************************************************)
(* The refinement: EnqLink is Enqueue, DeqTake is Dequeue, and every other *)
(* step leaves the abstract queue as it is.                                *)
(***************************************************************************)
LEMMA InitFifo == Init => Fifo!Init
<1> SUFFICES ASSUME Init PROVE Fifo!Init
  OBVIOUS
<1>1. chain = <<>> /\ got = [c \in Consumers |-> <<>>]
  BY DEF Init
<1>2. Items = <<>>
  BY <1>1 DEF Items
<1> QED BY <1>1, <1>2 DEF Fifo!Init

(* Linking a node is an Enqueue of its task. *)
LEMMA EnqueueFifo ==
  ASSUME NEW p \in Producers, IInv, EnqLink(p)
  PROVE  Fifo!Enqueue(task[node[p]]) /\ task[node[p]] \in Task
<1>1. /\ node[p] \in Nodes /\ task[node[p]] \in Task /\ chain \in Seq(Nodes)
      /\ task' = task /\ got' = got /\ chain' = Append(chain, node[p])
  BY DEF IInv, LocalNodes, Private, EnqLink, TypeOK, Threads
<1>2. Items \in Seq(Task)
  BY <1>1 DEF Items, IInv, LocalNodes
<1>3. Len(Items) = Len(chain) /\ \A i \in 1..Len(chain) : Items[i] = task[chain[i]]
  BY <1>1 DEF Items
<1>4. Items' = [i \in 1..(Len(chain) + 1) |-> task[chain'[i]]]
  BY <1>1 DEF Items
<1>5. Items' = Append(Items, task[node[p]])
  BY <1>1, <1>2, <1>3, <1>4
<1> QED BY <1>1, <1>5 DEF Fifo!Enqueue

(* Unlinking the first node is a Dequeue. *)
LEMMA DequeueFifo ==
  ASSUME NEW c \in Consumers, IInv, DeqTake(c)
  PROVE  Fifo!Dequeue(c)
<1>1. /\ chain \in Seq(Nodes) /\ chain # <<>> /\ head = chain[1]
      /\ task' = task /\ chain' = Tail(chain)
      /\ got' = [got EXCEPT ![c] = Append(@, task[head])]
  BY DEF IInv, DeqTake, ListShape, TypeOK, heap
<1>2. Items \in Seq(Task)
  BY <1>1 DEF Items, IInv, LocalNodes
<1>3. Len(Items) = Len(chain) /\ \A i \in 1..Len(chain) : Items[i] = task[chain[i]]
  BY <1>1 DEF Items
<1>4. Items' = [i \in 1..(Len(chain) - 1) |-> task[chain'[i]]]
  BY <1>1 DEF Items
<1>5. Items' = Tail(Items)
  <2>1. \A i \in 1..(Len(chain) - 1) : chain'[i] = chain[i + 1] /\ i + 1 \in 1..Len(chain)
    BY <1>1
  <2>2. \A i \in 1..(Len(chain) - 1) : task[chain'[i]] = Items[i + 1]
    BY <2>1, <1>3
  <2>3. Tail(Items) = [i \in 1..(Len(chain) - 1) |-> Items[i + 1]]
    <3>1. Items # <<>> /\ Len(Items) \in Nat
      BY <1>1, <1>2, <1>3
    <3>2. Len(Tail(Items)) = Len(Items) - 1 /\ Tail(Items) \in Seq(Task)
      BY <3>1, <1>2
    <3>3. \A i \in 1..(Len(Items) - 1) : Tail(Items)[i] = Items[i + 1]
      BY <3>1, <1>2
    <3>4. Tail(Items) \in [1..(Len(Items) - 1) -> Task]
      BY <3>2, LenProperties
    <3> QED BY <3>3, <3>4, <1>3
  <2> QED BY <1>4, <2>2, <2>3
<1>6. Items # <<>> /\ Head(Items) = task[head]
  BY <1>1, <1>2, <1>3
<1> QED BY <1>1, <1>5, <1>6 DEF Fifo!Dequeue

(* Every step of the code is a step of the queue or changes nothing. *)
LEMMA NextFifo == IInv /\ [Next]_vars => [Fifo!Next]_(Fifo!vars)
<1> SUFFICES ASSUME IInv, [Next]_vars PROVE [Fifo!Next]_(Fifo!vars)
  OBVIOUS
<1>1. ASSUME chain' = chain, got' = got,
             \A i \in 1..Len(chain) : task'[chain[i]] = task[chain[i]]
      PROVE  UNCHANGED Fifo!vars
  BY <1>1 DEF Fifo!vars, Items
<1>2. ASSUME status = "live", NEW p \in Producers, Producer(p) PROVE [Fifo!Next]_(Fifo!vars)
  <2>1. CASE EnqLink(p)
    BY <2>1, EnqueueFifo DEF Fifo!Next
  <2>2. CASE EnqAlloc(p)
    <3>1. chain' = chain /\ got' = got /\ \A i \in 1..Len(chain) : chain[i] \in alloc
      BY <2>2, <1>2 DEF EnqAlloc, list, IInv, HeapAccounting, Linked
    <3>2. \A i \in 1..Len(chain) : task'[chain[i]] = task[chain[i]]
      BY <2>2, <3>1 DEF EnqAlloc, IInv, TypeOK
    <3> QED BY <3>1, <3>2, <1>1
  <2>3. CASE EnqAllocFails(p) \/ EnqLock(p) \/ EnqSignal(p)
    BY <2>3, <1>1 DEF EnqAllocFails, EnqLock, EnqSignal, list, heap
  <2> QED BY <1>2, <2>1, <2>2, <2>3 DEF Producer
<1>3. ASSUME NEW c \in Consumers, Consumer(c) PROVE [Fifo!Next]_(Fifo!vars)
  <2>1. CASE DeqTake(c)
    BY <2>1, DequeueFifo DEF Fifo!Next
  <2>2. CASE DeqLock(c) \/ DeqWait(c) \/ SpuriousWake(c) \/ DeqRelock(c) \/ DeqFree(c)
    BY <2>2, <1>1 DEF DeqLock, DeqWait, SpuriousWake, DeqRelock, DeqFree, list, heap
  <2> QED BY <1>3, <2>1, <2>2 DEF Consumer
<1>4. ASSUME NEW t \in Threads, Unlock(t) \/ IsEmpty(t) PROVE [Fifo!Next]_(Fifo!vars)
  BY <1>4, <1>1 DEF Unlock, IsEmpty, list, heap
<1>5. CASE Delete
  BY <1>5, <1>1 DEF Delete, DeleteBegin, DeleteStep, DeleteEnd, list, heap
<1>6. CASE UNCHANGED vars
  BY <1>6, <1>1 DEF vars
<1> QED BY <1>2, <1>3, <1>4, <1>5, <1>6 DEF Next, Operate

(* queue.c is a FIFO queue: for any number of threads and nodes, in any    *)
(* interleaving, tasks leave in the order in which enqueue linked them and *)
(* each is returned by exactly one dequeue.                                *)
THEOREM Refinement == Spec => ImplementsFifo
<1>1. Init => Fifo!Init
  BY InitFifo
<1>2. IInv /\ [Next]_vars => [Fifo!Next]_(Fifo!vars)
  BY NextFifo
<1> QED BY <1>1, <1>2, Invariance, PTL DEF Spec, ImplementsFifo, Fifo!Spec

(***************************************************************************)
(* No lost wakeup.  NoLostWakeup is inductive relative to IInv: linking a  *)
(* task adds a thread that looks (its own producer), a signal hands that   *)
(* role from the producer to the woken consumer, taking a task gives up    *)
(* both, and a consumer starts to wait only when the list is empty.        *)
(***************************************************************************)
LEMMA LookingFinite ==
  ASSUME IInv
  PROVE  /\ IsFiniteSet(Looking) /\ Cardinality(Looking) \in Nat
         /\ Len(chain) \in Nat /\ (head = NULL <=> Len(chain) = 0)
<1>1. IsFiniteSet(Looking)
  BY QueueAssumption, FS_Subset DEF Looking
<1>2. Len(chain) \in Nat /\ (head = NULL <=> Len(chain) = 0)
  BY QueueAssumption DEF IInv, TypeOK, ListShape
<1> QED BY <1>1, <1>2, FS_CardinalityType

(* Each step keeps a thread on its way for each task in the list. *)
LEMMA WakeupStep ==
  ASSUME IInv, IInv', NoLostWakeup, [Next]_vars
  PROVE  NoLostWakeup'
<1> USE QueueAssumption, LookingFinite DEF Goto, Threads
<1> DEFINE Same == chain' = chain /\ Looking' = Looking /\ (Waiting' # {} => Waiting # {})
<1>0. pc \in [Threads -> Location] /\ chain \in Seq(Nodes)
  BY DEF IInv, TypeOK
<1>1. ASSUME Same PROVE NoLostWakeup'
  BY <1>1 DEF NoLostWakeup
<1>2. ASSUME status = "live", NEW p \in Producers, Producer(p) PROVE NoLostWakeup'
  <2>1. CASE EnqLink(p)
    <3>1. p \notin Looking /\ Looking' = Looking \cup {p} /\ Waiting' = Waiting
      BY <2>1, <1>0 DEF EnqLink, Looking, Waiting
    <3>2. Cardinality(Looking') = Cardinality(Looking) + 1
      BY <3>1, FS_AddElement
    <3>3. Len(chain') = Len(chain) + 1
      BY <2>1, <1>0 DEF EnqLink, IInv, LocalNodes, Private
    <3> QED BY <3>1, <3>2, <3>3 DEF NoLostWakeup
  <2>2. CASE EnqSignal(p)
    <3>1. CASE Waiting = {} /\ Goto(p, "unlock")
      BY <3>1, <1>0 DEF NoLostWakeup, Waiting
    <3>2. ASSUME NEW c \in Waiting, pc' = [pc EXCEPT ![p] = "unlock", ![c] = "deqRelock"]
          PROVE  NoLostWakeup'
      <4>1. c \in Threads /\ c # p /\ c \notin Looking /\ p \in Looking
        BY <2>2, <1>0 DEF Waiting, Looking, EnqSignal
      <4>2. Looking' = (Looking \ {p}) \cup {c}
        BY <3>2, <4>1, <1>0 DEF Looking
      <4>3. Cardinality(Looking \ {p}) = Cardinality(Looking) - 1 /\ IsFiniteSet(Looking \ {p})
        BY <4>1, FS_RemoveElement
      <4>4. Cardinality(Looking') = Cardinality(Looking)
        <5>1. c \notin Looking \ {p}
          BY <4>1
        <5>2. Cardinality((Looking \ {p}) \cup {c}) = Cardinality(Looking \ {p}) + 1
          BY <5>1, <4>3, FS_AddElement
        <5> QED BY <5>2, <4>2, <4>3
      <4>5. chain' = chain /\ Waiting # {}
        BY <2>2 DEF EnqSignal, list
      <4> QED BY <4>4, <4>5 DEF NoLostWakeup
    <3> QED BY <2>2, <3>1, <3>2 DEF EnqSignal
  <2>3. CASE EnqAlloc(p) \/ EnqAllocFails(p) \/ EnqLock(p)
    <3>1. Same
      BY <2>3, <1>0 DEF EnqAlloc, EnqAllocFails, EnqLock, Looking, Waiting, list
    <3> QED BY <3>1, <1>1
  <2> QED BY <1>2, <2>1, <2>2, <2>3 DEF Producer
<1>3. ASSUME NEW c \in Consumers, Consumer(c) PROVE NoLostWakeup'
  <2>1. CASE DeqTake(c)
    <3>1. c \in Looking /\ Looking' = Looking \ {c} /\ Waiting' = Waiting
      BY <2>1, <1>0 DEF DeqTake, Looking, Waiting
    <3>2. Cardinality(Looking') = Cardinality(Looking) - 1
      BY <3>1, FS_RemoveElement
    <3>3. Len(chain') = Len(chain) - 1
      BY <2>1, <1>0 DEF DeqTake
    <3> QED BY <3>1, <3>2, <3>3 DEF NoLostWakeup
  <2>2. CASE DeqWait(c)
    <3>1. Len(chain') = 0 /\ Cardinality(Looking') \in Nat
      BY <2>2, LookingFinite, IInv', FS_CardinalityType, FS_Subset DEF DeqWait, list, Looking
    <3> QED BY <3>1 DEF NoLostWakeup
  <2>3. CASE DeqLock(c) \/ SpuriousWake(c)
    <3>1. c \notin Looking /\ Looking' = Looking \cup {c} /\ (Waiting' # {} => Waiting # {})
      BY <2>3, <1>0 DEF DeqLock, SpuriousWake, Looking, Waiting
    <3>2. Cardinality(Looking') = Cardinality(Looking) + 1 /\ chain' = chain
      BY <2>3, <3>1, FS_AddElement DEF DeqLock, SpuriousWake, list
    <3> QED BY <3>1, <3>2 DEF NoLostWakeup
  <2>4. CASE DeqRelock(c) \/ DeqFree(c)
    <3>1. Same
      BY <2>4, <1>0 DEF DeqRelock, DeqFree, Looking, Waiting, list
    <3> QED BY <3>1, <1>1
  <2> QED BY <1>3, <2>1, <2>2, <2>3, <2>4 DEF Consumer
<1>4. ASSUME NEW t \in Threads, Unlock(t) \/ IsEmpty(t) PROVE NoLostWakeup'
  <2>1. Same
    BY <1>4, <1>0 DEF Unlock, IsEmpty, Looking, Waiting, list
  <2> QED BY <2>1, <1>1
<1>5. CASE Delete \/ UNCHANGED vars
  <2>1. chain' = chain /\ pc' = pc
    BY <1>5 DEF Delete, DeleteBegin, DeleteStep, DeleteEnd, list, vars
  <2>2. Same
    BY <2>1 DEF Looking, Waiting
  <2> QED BY <2>2, <1>1
<1> QED BY <1>2, <1>3, <1>4, <1>5 DEF Next, Operate

(* No lost wakeup, for any number of producers and consumers: while a      *)
(* consumer waits, each task in the list has its own thread on the way.    *)
THEOREM WakeupSafety == Spec => []NoLostWakeup
<1>1. Init => NoLostWakeup
  BY DEF Init, NoLostWakeup, Waiting, Threads
<1>2. IInv /\ IInv' /\ NoLostWakeup /\ [Next]_vars => NoLostWakeup'
  BY WakeupStep
<1> QED BY <1>1, <1>2, Invariance, PTL DEF Spec

-----------------------------------------------------------------------------
(* What deleteQueue has freed when its loop has advanced over the first m  *)
(* nodes: every other one of them.                                         *)
Left(m) == {chain[i] : i \in {j \in 1..Len(chain) : j % 2 = 0 \/ j > m}}
At(m) == IF m = Len(chain) THEN NULL ELSE chain[m + 1]

Deleting ==
  /\ status = "deleting" =>
       \E m \in 0..Len(chain) : m % 2 = 0 /\ cur = At(m) /\ alloc = Left(m)
  /\ DeleteOutcome

LEMMA Parity ==
  /\ 0 % 2 = 0
  /\ \A m \in Nat : m % 2 = 0 => (m + 1) % 2 = 1 /\ (m + 2) % 2 = 0
  OBVIOUS

LEMMA DeleteBeginStep ==
  ASSUME IInv, DeleteBegin
  PROVE  Deleting'
<1> USE DEF IInv
<1>1. /\ status' = "deleting" /\ cur' = head /\ UNCHANGED <<chain, alloc>>
      /\ PrivateNodes = {} /\ alloc = Linked /\ Len(chain) \in Nat
  <2>1. status = "live" /\ status' = "deleting" /\ cur' = head /\ UNCHANGED <<chain, alloc>>
        /\ \A t \in Threads : pc[t] = "idle"
    BY DEF DeleteBegin, list, heap
  <2>2. PrivateNodes = {}
    BY <2>1 DEF PrivateNodes, Private
  <2>3. alloc = Linked
    BY <2>1, <2>2 DEF HeapAccounting
  <2> QED BY <2>1, <2>2, <2>3 DEF TypeOK
<1>2. 0 \in 0..Len(chain) /\ 0 % 2 = 0
  BY <1>1, Parity
<1>3. cur' = At(0)
  BY <1>1 DEF At, ListShape, TypeOK
<1>4. alloc' = Left(0)
  <2>1. {j \in 1..Len(chain) : j % 2 = 0 \/ j > 0} = 1..Len(chain)
    BY <1>1
  <2> QED BY <1>1, <2>1 DEF Left, Linked
<1>5. At(0)' = At(0) /\ Left(0)' = Left(0)
  BY <1>1 DEF At, Left
<1> QED BY <1>1, <1>2, <1>3, <1>4, <1>5 DEF Deleting, DeleteOutcome, At, Left

(* One turn frees a node at an odd place and skips the one behind it.      *)
LEMMA DeleteTurn ==
  ASSUME IInv, Deleting, DeleteStep
  PROVE  Deleting'
<1> USE DEF IInv
<1>1. /\ status = "deleting" /\ cur # NULL /\ alloc' = alloc \ {cur} /\ UNCHANGED <<chain, nxt>>
      /\ IF nxt[cur] = NULL THEN status' = "crashed" /\ cur' = cur
                            ELSE cur' = nxt[nxt[cur]] /\ status' = "deleting"
  BY DEF DeleteStep, list
<1>2. PICK m \in 0..Len(chain) : m % 2 = 0 /\ cur = At(m) /\ alloc = Left(m)
  BY <1>1 DEF Deleting
<1>3. /\ Len(chain) \in Nat /\ m \in Nat /\ m + 1 \in 1..Len(chain) /\ m # Len(chain)
      /\ cur = chain[m + 1] /\ (m + 1) % 2 = 1 /\ (m + 2) % 2 = 0
  <2>1. Len(chain) \in Nat
    BY DEF TypeOK
  <2>2. m # Len(chain) /\ cur = chain[m + 1]
    BY <1>1, <1>2 DEF At
  <2> QED BY <1>2, <2>1, <2>2, Parity
<1>4. /\ \A i \in 1..Len(chain) : chain[i] \in Nodes /\ chain[i] # NULL
      /\ \A i \in 1..Len(chain) : nxt[chain[i]] = IF i = Len(chain) THEN NULL ELSE chain[i + 1]
      /\ \A i, j \in 1..Len(chain) : i # j => chain[i] # chain[j]
  BY QueueAssumption DEF TypeOK, ListShape, HeapAccounting
<1>5. CASE m + 1 = Len(chain)
  <2>1. status' = "crashed" /\ Len(chain') % 2 = 1
    BY <1>1, <1>3, <1>4, <1>5
  <2> QED BY <2>1 DEF Deleting, DeleteOutcome
<1>6. CASE m + 1 # Len(chain)
  <2>1. m + 2 \in 1..Len(chain) /\ m + 2 \in 0..Len(chain) /\ m + 2 = (m + 1) + 1
    BY <1>3, <1>6
  <2>2. nxt[cur] = chain[m + 2] /\ nxt[cur] # NULL
    BY <1>3, <1>4, <1>6, <2>1
  <2>3. cur' = nxt[chain[m + 2]] /\ status' = "deleting"
    BY <1>1, <2>2
  <2>4. cur' = At(m + 2)
    <3>1. nxt[chain[m + 2]] = IF m + 2 = Len(chain) THEN NULL ELSE chain[(m + 2) + 1]
      BY <1>4, <2>1
    <3> QED BY <2>3, <3>1 DEF At
  <2>5. alloc' = Left(m + 2)
    <3> DEFINE I(n) == {j \in 1..Len(chain) : j % 2 = 0 \/ j > n}
    <3>1. \A j \in 1..Len(chain) : j \in I(m + 2) <=> j \in I(m) /\ j # m + 1
      BY <1>3
    <3>2. Left(m) = {chain[i] : i \in I(m)} /\ Left(m + 2) = {chain[i] : i \in I(m + 2)}
      BY DEF Left
    <3>3. I(m) \subseteq 1..Len(chain) /\ I(m + 2) \subseteq 1..Len(chain)
      OBVIOUS
    <3> HIDE DEF I
    <3>4. alloc' = {chain[i] : i \in I(m)} \ {chain[m + 1]}
      BY <1>1, <1>2, <1>3, <3>2
    <3>5. \A i \in I(m + 2) : i \in I(m) /\ chain[i] # chain[m + 1]
      BY <1>3, <1>4, <3>1, <3>3
    <3>6. \A i \in I(m) : chain[i] # chain[m + 1] => i \in I(m + 2)
      BY <3>1, <3>3
    <3> QED BY <3>2, <3>4, <3>5, <3>6
  <2>6. At(m + 2)' = At(m + 2) /\ Left(m + 2)' = Left(m + 2)
    BY <1>1 DEF At, Left
  <2>7. \E n \in 0..Len(chain') : n % 2 = 0 /\ cur' = At(n)' /\ alloc' = Left(n)'
    BY <1>1, <1>3, <2>1, <2>4, <2>5, <2>6
  <2> QED BY <2>3, <2>7 DEF Deleting, DeleteOutcome
<1> QED BY <1>5, <1>6

LEMMA DeleteEndStep ==
  ASSUME IInv, Deleting, DeleteEnd
  PROVE  Deleting'
<1> USE DEF IInv
<1>1. status = "deleting" /\ cur = NULL /\ status' = "deleted" /\ UNCHANGED <<chain, alloc>>
  BY DEF DeleteEnd, list, heap
<1>2. PICK m \in 0..Len(chain) : m % 2 = 0 /\ cur = At(m) /\ alloc = Left(m)
  BY <1>1 DEF Deleting
<1>3. Len(chain) \in Nat /\ \A i \in 1..Len(chain) : chain[i] # NULL
  BY QueueAssumption DEF TypeOK
<1>4. m = Len(chain)
  <2> SUFFICES ASSUME m # Len(chain)
               PROVE  FALSE
    OBVIOUS
  <2>1. m + 1 \in 1..Len(chain)
    BY <1>3
  <2> QED BY <1>1, <1>2, <1>3, <2>1 DEF At
<1>5. {j \in 1..Len(chain) : j % 2 = 0 \/ j > m} = {j \in 1..Len(chain) : j % 2 = 0}
  BY <1>3, <1>4
<1>6. alloc = {chain[i] : i \in {j \in 1..Len(chain) : j % 2 = 0}}
  BY <1>2, <1>5 DEF Left
<1> QED BY <1>1, <1>2, <1>4, <1>6 DEF Deleting, DeleteOutcome

LEMMA DeletingStep ==
  ASSUME IInv, Deleting, [Next]_vars
  PROVE  Deleting'
<1>1. CASE Operate
  <2>1. status' \in {"live", "exited"}
    BY <1>1 DEF Operate, Producer, Consumer, EnqAlloc, EnqAllocFails, EnqLock, EnqLink, EnqSignal, Unlock,
                DeqLock, DeqWait, SpuriousWake, DeqRelock, DeqTake, DeqFree, IsEmpty
  <2> QED BY <2>1 DEF Deleting, DeleteOutcome
<1>2. CASE UNCHANGED vars
  BY <1>2 DEF vars, list, heap, Deleting, DeleteOutcome, At, Left
<1> QED BY <1>1, <1>2, DeleteBeginStep, DeleteTurn, DeleteEndStep DEF Next, Delete

(* deleteQueue frees every second node of a list of even length and        *)
(* follows a null pointer at the end of one of odd length, however long    *)
(* the list is (queue.c:42-47).                                            *)
THEOREM DeleteLeaks == Spec => []DeleteOutcome
<1>1. Init => Deleting
  BY DEF Init, Deleting, DeleteOutcome
<1>2. Deleting => DeleteOutcome
  BY DEF Deleting
<1> QED BY <1>1, <1>2, DeletingStep, Invariance, PTL DEF Spec
=============================================================================

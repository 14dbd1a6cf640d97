----------------------------- MODULE WorkQueue -----------------------------
(***************************************************************************)
(* queue.c: a singly linked list with head and tail pointers, protected by *)
(* one mutex and one condition variable, shared by any number of threads.  *)
(*                                                                         *)
(* Every lock, wait, signal and unlock is a step of its own; the code      *)
(* between two of them, which the mutex makes indivisible for the other    *)
(* threads, is one step, except that free is separated from the unlinking  *)
(* because malloc runs outside the mutex and may hand the node out again.  *)
(***************************************************************************)
EXTENDS Integers, Sequences, FiniteSets

CONSTANTS Producers,  \* threads that call enqueue
          Consumers,  \* threads that call dequeue
          Nodes,      \* the heap cells malloc can hand out
          NULL,       \* the null pointer
          MaxEnq      \* bound: calls of enqueue per producer

Threads == Producers \cup Consumers

ASSUME QueueAssumption ==
  /\ NULL \notin Nodes \cup Threads
  /\ Producers \cap Consumers = {}
  /\ IsFiniteSet(Threads) /\ IsFiniteSet(Nodes)
  /\ MaxEnq \in Nat

(* The task a producer passes in its k-th call: tasks are told apart only  *)
(* by who enqueued them and when.                                          *)
Task == Producers \X (1..MaxEnq)

VARIABLES
  head, tail,  \* the two pointers of struct Queue
  nxt, task,   \* the two fields of every struct Node
  alloc,       \* the nodes malloc has handed out and free has not taken back
  lock,        \* the thread that holds queue->mutex, or NULL
  pc,          \* where each thread is in the queue's operations
  node,        \* the local variable "node" of enqueue and dequeue
  made,        \* made[p]: how often p has called enqueue
  got,         \* got[c]: history of what dequeue returned to c
  chain,       \* history: the nodes linked and not yet unlinked, oldest first
  status,      \* of the queue and its process
  cur          \* the loop variable "current" of deleteQueue

heap == <<nxt, task, alloc>>
list == <<head, tail, chain>>
vars == <<head, tail, nxt, task, alloc, lock, pc, node, made, got, chain,
          status, cur>>

Status == {"live",      \* createQueue has returned
           "exited",    \* malloc failed and enqueue called exit(1)
           "deleting", "deleted",
           "crashed"}   \* deleteQueue followed a null pointer

Location == {"idle", "enqLock", "enqLink", "enqSignal", "deqTest", "deqWait",
             "deqRelock", "deqFree", "unlock"}

(* Locations inside a critical section. *)
Holding == {"enqLink", "enqSignal", "deqTest", "deqFree", "unlock"}

(* Locations at which the local "node" is allocated and not in the list.   *)
Private == {"enqLock", "enqLink", "deqFree"}

Goto(t, l) == pc' = [pc EXCEPT ![t] = l]

-----------------------------------------------------------------------------
(* createQueue *)
Init ==
  /\ head = NULL /\ tail = NULL /\ chain = <<>>
  /\ nxt = [n \in Nodes |-> NULL]
  /\ task = [n \in Nodes |-> NULL]
  /\ alloc = {}
  /\ lock = NULL
  /\ pc = [t \in Threads |-> "idle"]
  /\ node = [t \in Threads |-> NULL]
  /\ made = [p \in Producers |-> 0]
  /\ got = [c \in Consumers |-> <<>>]
  /\ status = "live"
  /\ cur = NULL

-----------------------------------------------------------------------------
(* enqueue: the node is allocated and filled in before the mutex is taken. *)
EnqAlloc(p) ==
  /\ pc[p] = "idle" /\ made[p] < MaxEnq
  /\ made' = [made EXCEPT ![p] = @ + 1]
  /\ \E n \in Nodes \ alloc :
       /\ alloc' = alloc \cup {n}
       /\ task' = [task EXCEPT ![n] = <<p, made[p] + 1>>]
       /\ nxt' = [nxt EXCEPT ![n] = NULL]
       /\ node' = [node EXCEPT ![p] = n]
  /\ Goto(p, "enqLock")
  /\ UNCHANGED <<list, lock, got, status, cur>>

(* malloc returns NULL: exit(1) ends the whole process, other threads      *)
(* included, wherever they are.                                            *)
EnqAllocFails(p) ==
  /\ pc[p] = "idle" /\ made[p] < MaxEnq
  /\ Nodes \subseteq alloc
  /\ status' = "exited"
  /\ UNCHANGED <<list, heap, lock, pc, node, made, got, cur>>

EnqLock(p) ==
  /\ pc[p] = "enqLock" /\ lock = NULL
  /\ lock' = p
  /\ Goto(p, "enqLink")
  /\ UNCHANGED <<list, heap, node, made, got, status, cur>>

(* Mutant: the tail stays behind when the list is not empty. *)
EnqLinkStaleTail(p) ==
  /\ pc[p] = "enqLink"
  /\ \/ head = NULL /\ head' = node[p] /\ tail' = node[p] /\ UNCHANGED nxt
     \/ head # NULL /\ nxt' = [nxt EXCEPT ![tail] = node[p]] /\ UNCHANGED <<head, tail>>
  /\ chain' = Append(chain, node[p])
  /\ Goto(p, "enqSignal")
  /\ UNCHANGED <<task, alloc, lock, node, made, got, status, cur>>

EnqLink(p) ==
  /\ pc[p] = "enqLink"
  /\ \/ head = NULL /\ head' = node[p] /\ UNCHANGED nxt
     \/ head # NULL /\ nxt' = [nxt EXCEPT ![tail] = node[p]] /\ UNCHANGED head
  /\ tail' = node[p]
  /\ chain' = Append(chain, node[p])
  /\ Goto(p, "enqSignal")
  /\ UNCHANGED <<task, alloc, lock, node, made, got, status, cur>>

Waiting == {c \in Consumers : pc[c] = "deqWait"}

(* Mutant: signals only when the list was empty before. *)
EnqSignalOnFirst(p) ==
  /\ pc[p] = "enqSignal"
  /\ \/ (Waiting = {} \/ head # tail) /\ Goto(p, "unlock")
     \/ head = tail /\ \E c \in Waiting :
          pc' = [pc EXCEPT ![p] = "unlock", ![c] = "deqRelock"]
  /\ UNCHANGED <<list, heap, lock, node, made, got, status, cur>>

(* Mutant: the signal is forgotten. *)
EnqNoSignal(p) ==
  /\ pc[p] = "enqSignal"
  /\ Goto(p, "unlock")
  /\ UNCHANGED <<list, heap, lock, node, made, got, status, cur>>

(* pthread_cond_signal wakes one of the waiting threads, if there is one;  *)
(* the woken thread must take the mutex again before it returns.           *)
EnqSignal(p) ==
  /\ pc[p] = "enqSignal"
  /\ \/ Waiting = {} /\ Goto(p, "unlock")
     \/ \E c \in Waiting :
          pc' = [pc EXCEPT ![p] = "unlock", ![c] = "deqRelock"]
  /\ UNCHANGED <<list, heap, lock, node, made, got, status, cur>>

Unlock(t) ==
  /\ pc[t] = "unlock"
  /\ lock' = NULL
  /\ Goto(t, "idle")
  /\ UNCHANGED <<list, heap, node, made, got, status, cur>>

-----------------------------------------------------------------------------
(* dequeue: pthread_cond_wait in a loop that tests the head again. *)
DeqLock(c) ==
  /\ pc[c] = "idle" /\ lock = NULL
  /\ lock' = c
  /\ Goto(c, "deqTest")
  /\ UNCHANGED <<list, heap, node, made, got, status, cur>>

(* Mutant: waits without giving up the mutex. *)
DeqWaitHolding(c) ==
  /\ pc[c] = "deqTest" /\ head = NULL
  /\ Goto(c, "deqWait")
  /\ UNCHANGED <<list, heap, lock, node, made, got, status, cur>>

DeqWait(c) ==
  /\ pc[c] = "deqTest" /\ head = NULL
  /\ lock' = NULL
  /\ Goto(c, "deqWait")
  /\ UNCHANGED <<list, heap, node, made, got, status, cur>>

(* POSIX lets pthread_cond_wait return without a signal. *)
SpuriousWake(c) ==
  /\ pc[c] = "deqWait"
  /\ Goto(c, "deqRelock")
  /\ UNCHANGED <<list, heap, lock, node, made, got, status, cur>>

DeqRelock(c) ==
  /\ pc[c] = "deqRelock" /\ lock = NULL
  /\ lock' = c
  /\ Goto(c, "deqTest")
  /\ UNCHANGED <<list, heap, node, made, got, status, cur>>

(* Mutant: the tail keeps pointing to the node that was the last one. *)
DeqTakeStaleTail(c) ==
  /\ pc[c] = "deqTest" /\ head # NULL
  /\ node' = [node EXCEPT ![c] = head]
  /\ got' = [got EXCEPT ![c] = Append(@, task[head])]
  /\ head' = nxt[head]
  /\ chain' = Tail(chain)
  /\ Goto(c, "deqFree")
  /\ UNCHANGED <<heap, tail, lock, made, status, cur>>

DeqTake(c) ==
  /\ pc[c] = "deqTest" /\ head # NULL
  /\ node' = [node EXCEPT ![c] = head]
  /\ got' = [got EXCEPT ![c] = Append(@, task[head])]
  /\ head' = nxt[head]
  /\ tail' = IF nxt[head] = NULL THEN NULL ELSE tail
  /\ chain' = Tail(chain)
  /\ Goto(c, "deqFree")
  /\ UNCHANGED <<heap, lock, made, status, cur>>

(* Mutant: frees the node that is now the head. *)
DeqFreeHead(c) ==
  /\ pc[c] = "deqFree"
  /\ alloc' = alloc \ {head}
  /\ Goto(c, "unlock")
  /\ UNCHANGED <<list, nxt, task, lock, node, made, got, status, cur>>

DeqFree(c) ==
  /\ pc[c] = "deqFree"
  /\ alloc' = alloc \ {node[c]}
  /\ Goto(c, "unlock")
  /\ UNCHANGED <<list, nxt, task, lock, node, made, got, status, cur>>

(* isEmpty holds the mutex while it looks at the head; its answer is used  *)
(* by no caller, so that only its hold on the mutex is modelled.           *)
IsEmpty(t) ==
  /\ pc[t] = "idle" /\ lock = NULL
  /\ lock' = t
  /\ Goto(t, "unlock")
  /\ UNCHANGED <<list, heap, node, made, got, status, cur>>

-----------------------------------------------------------------------------
(* deleteQueue.  Its caller, stop(), has joined the thread that consumes   *)
(* from the queue, and the queue is gone afterwards: it runs when no       *)
(* thread is in an operation, and none starts one later.                   *)
(* Mutant: the loop starts at the wrong end. *)
DeleteFromTail ==
  /\ status = "live"
  /\ \A t \in Threads : pc[t] = "idle"
  /\ status' = "deleting"
  /\ cur' = tail
  /\ UNCHANGED <<list, heap, lock, pc, node, made, got>>

DeleteBegin ==
  /\ status = "live"
  /\ \A t \in Threads : pc[t] = "idle"
  /\ status' = "deleting"
  /\ cur' = head
  /\ UNCHANGED <<list, heap, lock, pc, node, made, got>>

(* One turn of the loop: the body already moves current to the next node,  *)
(* and the loop's step moves it once more, through a null pointer if the   *)
(* freed node was the last one.                                            *)
DeleteStep ==
  /\ status = "deleting" /\ cur # NULL
  /\ alloc' = alloc \ {cur}
  /\ IF nxt[cur] = NULL
       THEN status' = "crashed" /\ UNCHANGED cur
       ELSE cur' = nxt[nxt[cur]] /\ UNCHANGED status
  /\ UNCHANGED <<list, nxt, task, lock, pc, node, made, got>>

DeleteEnd ==
  /\ status = "deleting" /\ cur = NULL
  /\ status' = "deleted"
  /\ UNCHANGED <<list, heap, lock, pc, node, made, got, cur>>

-----------------------------------------------------------------------------
Producer(p) ==
  \/ EnqAlloc(p) \/ EnqAllocFails(p) \/ EnqLock(p) \/ EnqLink(p) \/ EnqSignal(p)

Consumer(c) ==
  \/ DeqLock(c) \/ DeqWait(c) \/ SpuriousWake(c) \/ DeqRelock(c)
  \/ DeqTake(c) \/ DeqFree(c)

Operate ==
  /\ status = "live"
  /\ \/ \E p \in Producers : Producer(p)
     \/ \E c \in Consumers : Consumer(c)
     \/ \E t \in Threads : Unlock(t) \/ IsEmpty(t)

Delete == DeleteBegin \/ DeleteStep \/ DeleteEnd

Next == Operate \/ Delete

Spec == Init /\ [][Next]_vars

(* Fairness.  A thread inside the mutex is never stopped there; a thread   *)
(* that keeps asking for a mutex that keeps being released gets it in the  *)
(* end; a consumer calls dequeue again when a call has returned, as the    *)
(* loop of run() does.  Nothing makes a producer start another call, and   *)
(* no spurious wakeup is relied on.                                        *)
Running(A) == status = "live" /\ A

FairSpec ==
  /\ Spec
  /\ \A p \in Producers :
       /\ SF_vars(Running(EnqLock(p)))
       /\ WF_vars(Running(EnqLink(p) \/ EnqSignal(p)))
  /\ \A c \in Consumers :
       /\ SF_vars(Running(DeqLock(c)))
       /\ SF_vars(Running(DeqRelock(c)))
       /\ WF_vars(Running(DeqWait(c) \/ DeqTake(c) \/ DeqFree(c)))
  /\ \A t \in Threads : WF_vars(Running(Unlock(t)))

-----------------------------------------------------------------------------
TypeOK ==
  /\ head \in Nodes \cup {NULL} /\ tail \in Nodes \cup {NULL}
  /\ nxt \in [Nodes -> Nodes \cup {NULL}]
  /\ task \in [Nodes -> Task \cup {NULL}]
  /\ alloc \subseteq Nodes
  /\ lock \in Threads \cup {NULL}
  /\ pc \in [Threads -> Location]
  /\ node \in [Threads -> Nodes \cup {NULL}]
  /\ made \in [Producers -> 0..MaxEnq]
  /\ got \in [Consumers -> Seq(Task)]
  /\ chain \in Seq(Nodes)
  /\ status \in Status
  /\ cur \in Nodes \cup {NULL}

(* The mutex works: whoever is in a critical section holds it, and nobody  *)
(* else holds it.                                                          *)
MutualExclusion ==
  \A t \in Threads : pc[t] \in Holding <=> lock = t

(* Following next from head visits exactly the nodes linked and not yet    *)
(* unlinked, in the order they were linked, and tail is the last of them:  *)
(* at every step, also between the pointer updates of enqueue and dequeue  *)
(* in different threads (queue.c:66-75, 96-102).                           *)
ListShape ==
  /\ head = IF chain = <<>> THEN NULL ELSE chain[1]
  /\ tail = IF chain = <<>> THEN NULL ELSE chain[Len(chain)]
  /\ \A i \in 1..Len(chain) :
       nxt[chain[i]] = IF i = Len(chain) THEN NULL ELSE chain[i + 1]

Linked == {chain[i] : i \in 1..Len(chain)}
PrivateNodes == {node[t] : t \in {u \in Threads : pc[u] \in Private}}

(* No node is lost, freed twice or used after free: until the queue is     *)
(* deleted the allocated nodes are exactly the linked ones and those a     *)
(* thread is about to link or to free, and these are all different         *)
(* (queue.c:56, 104: malloc runs outside the mutex, free inside).          *)
HeapAccounting ==
  /\ \A i, j \in 1..Len(chain) : i # j => chain[i] # chain[j]
  /\ \A t, u \in Threads :
       t # u /\ pc[t] \in Private /\ pc[u] \in Private => node[t] # node[u]
  /\ Linked \cap PrivateNodes = {}
  /\ status \in {"live", "exited"} => alloc = Linked \cup PrivateNodes

(* Producers only enqueue and consumers only dequeue.                      *)
PcRole ==
  /\ \A p \in Producers :
       pc[p] \in {"idle", "enqLock", "enqLink", "enqSignal", "unlock"}
  /\ \A c \in Consumers :
       pc[c] \in {"idle", "deqTest", "deqWait", "deqRelock", "deqFree", "unlock"}

(* A node on its way into the list is allocated, filled in and ends the    *)
(* list it will be linked to; every linked node carries a task.            *)
LocalNodes ==
  /\ \A t \in Threads : pc[t] \in Private => node[t] \in Nodes
  /\ \A p \in Producers : pc[p] \in {"enqLock", "enqLink"} =>
       nxt[node[p]] = NULL /\ task[node[p]] \in Task
  /\ \A i \in 1..Len(chain) : task[chain[i]] \in Task

(* The inductive invariant: the pointers of the list are right because the *)
(* nodes outside it are nobody else's and end in a null pointer, and these *)
(* are because malloc never hands out a node that is still in use.         *)
IInv ==
  TypeOK /\ PcRole /\ MutualExclusion /\ LocalNodes /\ ListShape /\ HeapAccounting

(* Threads that will look at the list, or make a waiting thread look.      *)
Looking == {t \in Threads : pc[t] \in {"enqSignal", "deqTest", "deqRelock"}}

(* No lost wakeup: while a consumer waits, every task in the list has a    *)
(* thread of its own on its way to look at the list.  One signal per       *)
(* enqueue is what guarantees it (queue.c:77).                             *)
NoLostWakeup == Waiting # {} => Len(chain) <= Cardinality(Looking)

(* What deleteQueue leaves behind: its loop advances twice per turn, so    *)
(* that it frees every second node of a list of even length and follows a  *)
(* null pointer at the end of a list of odd length (queue.c:42-47).  Only  *)
(* a drained queue is deleted cleanly.                                     *)
DeleteOutcome ==
  /\ status = "deleted" => alloc = {chain[i] : i \in {j \in 1..Len(chain) : j % 2 = 0}}
  /\ status = "deleted" => Len(chain) % 2 = 0
  /\ status = "crashed" => Len(chain) % 2 = 1

(* queue.c implements the FIFO queue that its callers rely on.             *)
Items == [i \in 1..Len(chain) |-> task[chain[i]]]
Fifo == INSTANCE FifoQueue WITH items <- Items
ImplementsFifo == Fifo!Spec

(* A task that is linked is handed to some consumer, unless the process    *)
(* ends or the queue is deleted first.                                     *)
Delivered(t) == \E c \in Consumers : \E i \in 1..Len(got[c]) : got[c][i] = t
EveryTaskDelivered ==
  \A t \in Task :
    (\E i \in 1..Len(chain) : task[chain[i]] = t) ~> (Delivered(t) \/ status # "live")

(* A call of enqueue returns: neither the mutex nor a waiting consumer     *)
(* can keep a producer for ever.                                           *)
EnqueueReturns ==
  \A p \in Producers : pc[p] = "enqLock" ~> (pc[p] = "idle" \/ status # "live")
=============================================================================

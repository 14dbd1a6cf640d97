----------------------------- MODULE FifoQueue -----------------------------
(***************************************************************************)
(* What queue.c promises to the threads that share a queue: a task enters  *)
(* at the end, leaves from the front, and is handed to exactly one caller  *)
(* of dequeue.  Module WorkQueue, the linked list under its mutex and      *)
(* condition variable, is shown to implement this specification.           *)
(***************************************************************************)
EXTENDS Sequences

CONSTANTS Task,      \* what callers may enqueue
          Consumers  \* threads that call dequeue

VARIABLES items,     \* the tasks in the queue, oldest first
          got        \* got[c]: the tasks dequeue has returned to c, in order

vars == <<items, got>>

Init ==
  /\ items = <<>>
  /\ got = [c \in Consumers |-> <<>>]

Enqueue(t) ==
  /\ items' = Append(items, t)
  /\ UNCHANGED got

Dequeue(c) ==
  /\ items # <<>>
  /\ items' = Tail(items)
  /\ got' = [got EXCEPT ![c] = Append(@, Head(items))]

Next ==
  \/ \E t \in Task : Enqueue(t)
  \/ \E c \in Consumers : Dequeue(c)

Spec == Init /\ [][Next]_vars
=============================================================================

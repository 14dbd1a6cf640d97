-------------------------------- MODULE Jobs --------------------------------
(***************************************************************************)
(* threads_mutex_example: mutex.c and problem.c.  Main creates threads,    *)
(* each of which counts itself in a global counter and prints it when it   *)
(* starts and when it finishes; main joins the first two and returns.      *)
(* mutex.c creates two threads and holds a mutex around their work;        *)
(* problem.c creates one per processor, without a mutex.                   *)
(***************************************************************************)
EXTENDS Naturals, Sequences, FiniteSets

CONSTANTS MaxCpus,  \* bound: processors
          Garbage   \* what a write behind tid may leave in counter

ASSUME JobsAssumption == MaxCpus \in Nat \ {0} /\ Garbage \subseteq Nat

VARIABLES
  prog,     \* the program that runs
  n,        \* the threads it creates
  mainPc,   \* where main is
  k,        \* main's loop variable, or the thread it joins, from 0
  created,  \* the threads that pthread_create could create
  pc, reg,  \* where each thread is, and the value of counter it will add to
  counter,
  lock,     \* the thread that holds the mutex, or n
  out       \* history: what was printed, as <<event, thread, number>>

vars == <<prog, n, mainPc, k, created, pc, reg, counter, lock, out>>

Tid == 0..1  \* the slots of tid
Thread == 0..(n - 1)
Running == mainPc \notin {"returned", "crashed"}

Init ==
  /\ \/ prog = "mutex" /\ n = 2
     \/ prog = "problem" /\ n \in 1..MaxCpus
  /\ mainPc = "create" /\ k = 0 /\ created = {}
  /\ pc = [t \in Thread |-> "none"] /\ reg = [t \in Thread |-> 0]
  /\ counter = 0 /\ lock = n /\ out = <<>>

-----------------------------------------------------------------------------
(* main.  A third thread's id is written behind tid, where counter may be. *)
(* A thread that cannot be created is reported and then forgotten.         *)
Create ==
  /\ mainPc = "create" /\ k < n
  /\ \/ /\ created' = created \cup {k}
        /\ pc' = [pc EXCEPT ![k] = IF prog = "mutex" THEN "lock" ELSE "load"]
        /\ counter' \in {counter} \cup (IF k \in Tid THEN {} ELSE Garbage)
     \/ UNCHANGED <<created, pc, counter>>
  /\ k' = k + 1
  /\ UNCHANGED <<prog, n, mainPc, reg, lock, out>>

EndCreate ==
  /\ mainPc = "create" /\ k = n
  /\ mainPc' = "join" /\ k' = 0
  /\ UNCHANGED <<prog, n, created, pc, reg, counter, lock, out>>

(* What tid holds for a thread that does not exist is a null pointer, or   *)
(* what a failed pthread_create left, which the join may notice.  The      *)
(* return of main ends all threads.                                        *)
Join ==
  /\ mainPc = "join"
  /\ \/ k \notin created /\ mainPc' = "crashed" /\ UNCHANGED k
     \/ /\ k < n /\ (k \in created => pc[k] = "done")
        /\ IF k = 1 THEN mainPc' = "returned" /\ UNCHANGED k
                    ELSE k' = k + 1 /\ UNCHANGED mainPc
  /\ UNCHANGED <<prog, n, created, pc, reg, counter, lock, out>>

-----------------------------------------------------------------------------
(* doSomeThing. *)
Lock(t) ==
  /\ pc[t] = "lock" /\ lock = n
  /\ lock' = t /\ pc' = [pc EXCEPT ![t] = "load"]
  /\ UNCHANGED <<prog, n, mainPc, k, created, reg, counter, out>>

(* counter += 1 *)
Load(t) ==
  /\ pc[t] = "load"
  /\ reg' = [reg EXCEPT ![t] = counter]
  /\ pc' = [pc EXCEPT ![t] = "store"]
  /\ UNCHANGED <<prog, n, mainPc, k, created, counter, lock, out>>

Store(t) ==
  /\ pc[t] = "store"
  /\ counter' = reg[t] + 1 /\ reg' = [reg EXCEPT ![t] = 0]
  /\ pc' = [pc EXCEPT ![t] = "start"]
  /\ UNCHANGED <<prog, n, mainPc, k, created, lock, out>>

Prints(t, event, next) ==
  /\ out' = Append(out, <<event, t, counter>>)
  /\ pc' = [pc EXCEPT ![t] = next]

Start(t) ==
  /\ pc[t] = "start" /\ Prints(t, "started", "finish")
  /\ UNCHANGED <<prog, n, mainPc, k, created, reg, counter, lock>>

(* Mutant: the mutex is released before the last line is printed. *)
FinishUnlocked(t) ==
  /\ pc[t] = "finish" /\ Prints(t, "finished", "done")
  /\ UNCHANGED <<prog, n, mainPc, k, created, reg, counter, lock>>

Finish(t) ==
  /\ pc[t] = "finish"
  /\ Prints(t, "finished", IF prog = "mutex" THEN "unlock" ELSE "done")
  /\ UNCHANGED <<prog, n, mainPc, k, created, reg, counter, lock>>

Unlock(t) ==
  /\ pc[t] = "unlock"
  /\ lock' = n /\ pc' = [pc EXCEPT ![t] = "done"]
  /\ UNCHANGED <<prog, n, mainPc, k, created, reg, counter, out>>

doSomeThing(t) ==
  Lock(t) \/ Load(t) \/ Store(t) \/ Start(t) \/ Finish(t) \/ Unlock(t)

Next ==
  /\ Running
  /\ Create \/ EndCreate \/ Join \/ \E t \in Thread : doSomeThing(t)

Spec == Init /\ [][Next]_vars

-----------------------------------------------------------------------------
TypeOK ==
  /\ prog \in {"mutex", "problem"} /\ n \in Nat \ {0}
  /\ mainPc \in {"create", "join", "returned", "crashed"}
  /\ k \in 0..n /\ created \subseteq Thread /\ lock \in 0..n
  /\ pc \in [Thread -> {"none", "lock", "load", "store", "start", "finish", "unlock", "done"}]
  /\ reg \in [Thread -> Nat] /\ counter \in Nat
  /\ out \in Seq({"started", "finished"} \X Thread \X Nat)

Inside(t) == pc[t] \in {"load", "store", "start", "finish", "unlock"}
Counted == {t \in Thread : pc[t] \in {"start", "finish", "unlock", "done"}}

(* With the mutex one thread works at a time, no increment is lost, and    *)
(* the jobs are numbered in the order of their work: what is printed is    *)
(* the start and the end of job 1, of job 2 and so on (mutex.c:13-23).     *)
JobsPaired ==
  prog = "mutex" =>
    /\ \A t \in Thread : Inside(t) <=> lock = t
    /\ counter = Cardinality(Counted)
    /\ \A t \in Thread : pc[t] = "store" => reg[t] = counter
    /\ \A m \in 1..Len(out) :
         /\ out[m][1] = IF m % 2 = 1 THEN "started" ELSE "finished"
         /\ out[m][3] = (m + 1) \div 2
         /\ m % 2 = 0 => out[m][2] = out[m - 1][2]

(* Without it the increments of two threads may be one, and only the first *)
(* two threads are sure to finish; numbers stay within the threads created *)
(* as long as these are two (problem.c:13, 31).  With one processor main   *)
(* never returns.                                                          *)
Outcome ==
  /\ n <= 2 => counter <= Cardinality(created)
  /\ mainPc = "returned" =>
       /\ n > 1
       /\ \A t \in Tid \cap created : \E a, b \in 1..Len(out) :
            a < b /\ out[a][1] = "started" /\ out[b][1] = "finished"
              /\ out[a][2] = t /\ out[b][2] = t
       /\ n = 2 /\ created # {} => counter > 0

(* What holds in every state, and is kept by every step. *)
IInv == TypeOK /\ JobsPaired /\ Outcome
=============================================================================

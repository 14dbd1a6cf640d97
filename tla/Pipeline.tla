------------------------------ MODULE Pipeline ------------------------------
(***************************************************************************)
(* task5: activeobject.c and st_pipeline.c.  Each active object has a      *)
(* queue, a thread that runs run(), a function and a next object.  Main    *)
(* creates them from the last to the first, hands the first one a control  *)
(* block, joins their threads and frees them.  The first object sends the  *)
(* address of one and the same local variable down the line, once for      *)
(* every number it draws, and null as the end mark.                        *)
(*                                                                         *)
(* The queues are FIFO sequences with atomic operations: WorkQueue is      *)
(* shown to implement exactly that.                                        *)
(***************************************************************************)
EXTENDS Integers, Sequences

CONSTANTS
  N,             \* how many active objects; main creates 4
  Size,          \* argv[1], the numbers to draw
  GarbageFlags,  \* what an uninitialised flag may hold: 1 or another value, 0
  AllocMayFail,  \* malloc may return a null pointer
  NULL, Block, Num  \* what is enqueued: end mark, control block, &num

ASSUME PipelineAssumption ==
  /\ N \in Nat /\ N >= 2
  /\ Size \in Nat
  /\ AllocMayFail \in BOOLEAN
  /\ GarbageFlags \subseteq {0, 1}
  /\ NULL # Block /\ NULL # Num /\ Block # Num

AO == 1..N

VARIABLES
  status,  \* of the process
  mainPc,  \* main's phase
  mainK,   \* the object main creates, joins or stops
  obj,     \* what became of ao_k
  flag,    \* ao_k->flag: 1, or 0 for every other value
  queue,   \* queue[k]: the contents of ao_k->queue
  st,      \* where the thread of ao_k is
  hand,    \* what it dequeued last
  pos,     \* how far it is in its function
  drawn,   \* the loop variable i of partD_a
  cell,    \* the variable num of partD_a, or Dead when its life has ended
  shown,   \* history: what each object printed
  late,    \* history: 1 if a sleep was ever too short for the others to be
           \* through with the number, 0 if not
  count    \* history: how many numbers each object has worked off

vars == <<status, mainPc, mainK, obj, flag, queue, st, hand, pos, drawn,
          cell, shown, late, count>>
thread == <<st, hand, pos, drawn, cell, shown, late, count>>
main == <<mainPc, mainK, obj, flag>>

Item == {NULL, Block, Num}

(* A value of num is told by which number was drawn and what was added.    *)
(* Of a dead variable nothing is known.                                    *)
Dead == [base |-> 0, off |-> 0]

(* partD_b, partD_c and partD_d: 0 stands for printing *num, any other     *)
(* entry is added to it.                                                   *)
Script(k) ==
  IF k = N THEN <<0, 2, 0>> ELSE IF k = 2 THEN <<11, 0>> ELSE <<-13, 0>>

HasNext(k) == k < N /\ obj[k + 1] # "null"

Put(k, x) == queue' = [queue EXCEPT ![k] = Append(@, x)]
Goto(k, l) == st' = [st EXCEPT ![k] = l]
Crash == status' = "crashed"

Init ==
  /\ status = "running" /\ mainPc = "create" /\ mainK = N
  /\ obj = [k \in AO |-> "none"]
  /\ flag = [k \in AO |-> 0]
  /\ queue = [k \in AO |-> <<>>]
  /\ st = [k \in AO |-> "none"]
  /\ hand = [k \in AO |-> NULL]
  /\ pos = [k \in AO |-> 1]
  /\ drawn = 0
  /\ cell = Dead /\ late = 0
  /\ shown = [k \in AO |-> <<>>]
  /\ count = [k \in AO |-> 0]

-----------------------------------------------------------------------------
(* main.  Created says where main goes when ao_k exists or could not be    *)
(* allocated; the flag of a new object is whatever malloc left there.      *)
Created(k) ==
  IF k = 1 THEN mainPc' = "flag" /\ mainK' = 1
           ELSE mainPc' = "create" /\ mainK' = k - 1

Create ==
  /\ mainPc = "create"
  /\ obj' = [obj EXCEPT ![mainK] = "live"]
  /\ \E f \in GarbageFlags : flag' = [flag EXCEPT ![mainK] = f]
  /\ Goto(mainK, "dequeue")
  /\ Created(mainK)
  /\ UNCHANGED <<status, queue, hand, pos, drawn, cell, shown, late, count>>

CreateFails ==
  /\ mainPc = "create" /\ AllocMayFail
  /\ obj' = [obj EXCEPT ![mainK] = "null"]
  /\ Created(mainK)
  /\ UNCHANGED <<status, flag, queue, thread>>

(* Mutant: the flag of ao_1 keeps what malloc left there. *)
LeaveFlag ==
  /\ mainPc = "flag"
  /\ IF obj[1] = "null" THEN Crash ELSE UNCHANGED status
  /\ mainPc' = "feed"
  /\ UNCHANGED <<mainK, flag, obj, queue, thread>>

SetFlag ==
  /\ mainPc = "flag"
  /\ IF obj[1] = "null"
       THEN Crash /\ UNCHANGED <<mainPc, flag>>
       ELSE mainPc' = "feed" /\ flag' = [flag EXCEPT ![1] = 1] /\ UNCHANGED status
  /\ UNCHANGED <<mainK, obj, queue, thread>>

Feed ==
  /\ mainPc = "feed"
  /\ Put(1, Block)
  /\ mainPc' = "join"
  /\ UNCHANGED <<status, mainK, obj, flag, thread>>

Advance(phase, next) ==
  IF mainK = N THEN mainPc' = next /\ mainK' = 1
               ELSE mainPc' = phase /\ mainK' = mainK + 1

(* Mutant: main waits for the first thread only. *)
JoinFirstOnly ==
  /\ mainPc = "join"
  /\ mainK = 1 => st[1] = "ended"
  /\ Advance("join", "stop")
  /\ UNCHANGED <<status, obj, flag, queue, thread>>

Join ==
  /\ mainPc = "join"
  /\ \/ obj[mainK] = "null" /\ Crash /\ UNCHANGED <<mainPc, mainK>>
     \/ st[mainK] = "ended" /\ Advance("join", "stop") /\ UNCHANGED status
  /\ UNCHANGED <<obj, flag, queue, thread>>

(* stop waits for a thread that runs; it is only called for threads that   *)
(* have been joined before, which is undefined: in the build an error code *)
(* (the stack is cached) or a crash (it is unmapped).  Then deleteQueue,   *)
(* which follows a null pointer if the queue's length is odd               *)
(* (DeleteOutcome in WorkQueue), and free.                                 *)
Stop ==
  /\ mainPc = "stop" /\ st[mainK] = "ended"
  /\ \/ Crash /\ UNCHANGED <<mainPc, mainK, obj>>
     \/ /\ Len(queue[mainK]) % 2 = 0
        /\ obj' = [obj EXCEPT ![mainK] = "freed"]
        /\ Advance("stop", "return")
        /\ UNCHANGED status
  /\ UNCHANGED <<flag, queue, thread>>

Return ==
  /\ mainPc = "return"
  /\ status' = "returned"
  /\ UNCHANGED <<main, queue, thread>>

Main == Create \/ CreateFails \/ SetFlag \/ Feed \/ Join \/ Stop \/ Return

-----------------------------------------------------------------------------
(* run(): the thread of ao_k.  Its function is partD_a for the first       *)
(* object (it starts at "draw") and the Script for the others.             *)
Dequeue(k) ==
  /\ st[k] = "dequeue" /\ queue[k] # <<>>
  /\ hand' = [hand EXCEPT ![k] = Head(queue[k])]
  /\ queue' = [queue EXCEPT ![k] = Tail(@)]
  /\ pos' = [pos EXCEPT ![k] = 1]
  /\ Goto(k, IF Head(queue[k]) = NULL THEN "last" ELSE IF k = 1 THEN "draw" ELSE "work")
  /\ UNCHANGED <<status, main, drawn, cell, shown, late, count>>

(* Mutant: prints before it adds, whichever object it is. *)
WorkPrintsFirst(k) ==
  /\ st[k] = "work"
  /\ IF pos[k] = 1
       THEN shown' = [shown EXCEPT ![k] = Append(@, cell)] /\ UNCHANGED cell
       ELSE cell' = [cell EXCEPT !.off = @ + Script(k)[1]] /\ UNCHANGED shown
  /\ IF pos[k] < 2
       THEN pos' = [pos EXCEPT ![k] = @ + 1] /\ UNCHANGED <<st, count>>
       ELSE Goto(k, "forward") /\ count' = [count EXCEPT ![k] = @ + 1] /\ UNCHANGED pos
  /\ UNCHANGED <<status, main, queue, hand, drawn, late>>

(* The additions of two objects to the one variable race when the sleep is *)
(* too short (late); their result is looked at only where it was not.      *)
Work(k) ==
  /\ st[k] = "work"
  /\ LET d == Script(k)[pos[k]] IN
       IF d = 0 THEN shown' = [shown EXCEPT ![k] = Append(@, cell)] /\ UNCHANGED cell
                ELSE cell' = [cell EXCEPT !.off = @ + d] /\ UNCHANGED shown
  /\ IF pos[k] < Len(Script(k))
       THEN pos' = [pos EXCEPT ![k] = @ + 1] /\ UNCHANGED <<st, count>>
       ELSE Goto(k, "forward") /\ count' = [count EXCEPT ![k] = @ + 1] /\ UNCHANGED pos
  /\ UNCHANGED <<status, main, queue, hand, drawn, late>>

(* Mutant: the test of the flag is inverted. *)
ForwardIfFlag(k) ==
  /\ st[k] = "forward"
  /\ IF flag[k] = 1 /\ HasNext(k) THEN Put(k + 1, hand[k]) ELSE UNCHANGED queue
  /\ Goto(k, "dequeue")
  /\ UNCHANGED <<status, main, hand, pos, drawn, cell, shown, late, count>>

Forward(k) ==
  /\ st[k] = "forward"
  /\ IF flag[k] # 1 /\ HasNext(k) THEN Put(k + 1, hand[k]) ELSE UNCHANGED queue
  /\ Goto(k, "dequeue")
  /\ UNCHANGED <<status, main, hand, pos, drawn, cell, shown, late, count>>

(* Mutant: an object whose flag is set keeps the end mark, too. *)
LastUnlessFlag(k) ==
  /\ st[k] = "last"
  /\ IF flag[k] # 1 /\ HasNext(k) THEN Put(k + 1, NULL) ELSE UNCHANGED queue
  /\ Goto(k, "ended")
  /\ UNCHANGED <<status, main, hand, pos, drawn, cell, shown, late, count>>

Last(k) ==
  /\ st[k] = "last"
  /\ IF HasNext(k) THEN Put(k + 1, NULL) ELSE UNCHANGED queue
  /\ Goto(k, "ended")
  /\ UNCHANGED <<status, main, hand, pos, drawn, cell, shown, late, count>>

-----------------------------------------------------------------------------
(* partD_a, the function of ao_1: one number at a time is written to num,  *)
(* and its address is enqueued to ao_2.                                    *)
Draw ==
  /\ st[1] = "draw" /\ drawn < Size
  /\ cell' = [base |-> drawn + 1, off |-> 0]
  /\ drawn' = drawn + 1
  /\ Goto(1, "send")
  /\ UNCHANGED <<status, main, queue, hand, pos, shown, late, count>>

Send ==
  /\ st[1] = "send"
  /\ IF obj[2] = "null"
       THEN Crash /\ UNCHANGED <<queue, st>>
       ELSE Put(2, Num) /\ Goto(1, "asleep") /\ UNCHANGED status
  /\ UNCHANGED <<main, hand, pos, drawn, cell, shown, late, count>>

(* No number is queued or being worked on. *)
Quiet == \A k \in 2..N : st[k] = "dequeue" /\ queue[k] = <<>>

(* The sleep of one second may be too short. *)
Wake ==
  /\ st[1] = "asleep"
  /\ late' = IF Quiet THEN late ELSE 1
  /\ Goto(1, "draw")
  /\ UNCHANGED <<status, main, queue, hand, pos, drawn, cell, shown, count>>

(* Mutant: the end mark goes to the next object, ahead of the numbers that *)
(* are still to come there from run().                                     *)
FinishNext ==
  /\ st[1] = "draw" /\ drawn = Size
  /\ queue' = [queue EXCEPT ![1] = Append(@, NULL), ![2] = Append(@, NULL)]
  /\ cell' = Dead
  /\ Goto(1, "forward")
  /\ UNCHANGED <<status, main, hand, pos, drawn, shown, late, count>>

Finish ==
  /\ st[1] = "draw" /\ drawn = Size
  /\ Put(1, NULL)
  /\ cell' = Dead
  /\ Goto(1, "forward")
  /\ UNCHANGED <<status, main, hand, pos, drawn, shown, late, count>>

Stage(k) ==
  \/ Dequeue(k) \/ Work(k) \/ Forward(k) \/ Last(k)
  \/ k = 1 /\ (Draw \/ Send \/ Wake \/ Finish)

(* createQueue and enqueue call exit(1) when they get no memory.           *)
OutOfMemory ==
  /\ AllocMayFail
  /\ \/ mainPc \in {"create", "feed"}
     \/ st[1] \in {"send", "draw"}
     \/ \E k \in AO : st[k] \in {"forward", "last"} /\ HasNext(k)
  /\ status' = "exited"
  /\ UNCHANGED <<main, queue, thread>>

Next ==
  /\ status = "running"
  /\ Main \/ OutOfMemory \/ \E k \in AO : Stage(k)

Spec == Init /\ [][Next]_vars

(* Every thread keeps running while it can; nothing depends on a failure.  *)
FairSpec ==
  /\ Spec
  /\ WF_vars(status = "running" /\ (Main \/ OutOfMemory))
  /\ \A k \in AO : WF_vars(status = "running" /\ Stage(k))

-----------------------------------------------------------------------------
TypeOK ==
  /\ status \in {"running", "exited", "crashed", "returned"}
  /\ mainPc \in {"create", "flag", "feed", "join", "stop", "return"}
  /\ mainK \in AO
  /\ obj \in [AO -> {"none", "null", "live", "freed"}]
  /\ flag \in [AO -> {0, 1}]
  /\ queue \in [AO -> Seq(Item)]
  /\ st \in [AO -> {"none", "dequeue", "work", "forward", "last", "ended",
                    "draw", "send", "asleep"}]
  /\ hand \in [AO -> Item]
  /\ pos \in [AO -> 1..3]
  /\ drawn \in 0..Size
  /\ cell \in [base : 0..Size, off : Int]
  /\ shown \in [AO -> Seq([base : 0..Size, off : Int])]
  /\ count \in [AO -> Nat] /\ late \in {0, 1}

Holds(q, x) == \E i \in 1..Len(q) : q[i] = x

(* The control block, which the other functions would take for a number,   *)
(* stays with ao_1: main sets its flag before it enqueues the block, while *)
(* the thread is already running (st_pipeline.c:92-95, activeobject.c:12). *)
ControlBlockConfined ==
  \A k \in AO \ {1} : hand[k] # Block /\ ~Holds(queue[k], Block)

(* The end mark is the last thing an object gets: nothing is queued behind *)
(* it, nothing is left when it has been taken, and it is sent only when    *)
(* the object before has ended (activeobject.c:9-18).                      *)
SentinelLast ==
  \A k \in AO :
    LET marked == st[k] \in {"last", "ended"} \/ Holds(queue[k], NULL) IN
      /\ \A i \in 1..Len(queue[k]) : queue[k][i] = NULL => i = Len(queue[k])
      /\ st[k] \in {"last", "ended"} => queue[k] = <<>>
      /\ marked /\ k > 1 => st[k - 1] = "ended"

(* When main, in stop, comes to delete the queue of an object, and from    *)
(* then on, the thread of the object has ended, its queue is empty (the    *)
(* only case deleteQueue handles) and nobody is left who could enqueue to  *)
(* it or read its fields (st_pipeline.c:97-104, activeobject.c:41-48).     *)
Deleting(k) == mainPc = "stop" /\ mainK = k /\ st[k] = "ended"

FreedSafe ==
  \A k \in AO : Deleting(k) \/ obj[k] = "freed" =>
    /\ st[k] = "ended" /\ queue[k] = <<>>
    /\ k > 1 => st[k - 1] = "ended"

(* Only ao_1 draws; the others have a number in hand while they work.      *)
Roles ==
  /\ st[1] # "work"
  /\ \A k \in AO \ {1} : st[k] \notin {"draw", "send", "asleep"}
  /\ \A k \in AO \ {1} : st[k] \in {"work", "forward"} => hand[k] = Num
  /\ \A k \in AO : st[k] = "work" => pos[k] <= Len(Script(k))

(* Main creates from N down to 1 and frees last; only what was created     *)
(* has a thread.                                                           *)
Creation ==
  /\ \A k \in AO : obj[k] \in {"none", "null"} <=> st[k] = "none"
  /\ mainPc = "create" => \A k \in 1..mainK : obj[k] = "none"
  /\ mainPc # "create" => obj[1] # "none"
  /\ mainPc \notin {"stop", "return"} => \A k \in AO : obj[k] # "freed"

(* The life of ao_1: it gets one control block, draws, and gets its end    *)
(* mark from itself.                                                       *)
FirstObject ==
  IF mainPc \in {"create", "flag", "feed"}
    THEN /\ queue[1] = <<>> /\ st[1] \in {"none", "dequeue"}
         /\ mainPc = "feed" => flag[1] = 1 /\ st[1] = "dequeue"
    ELSE /\ flag[1] = 1
         /\ \/ queue[1] = <<Block>> /\ st[1] = "dequeue"
            \/ queue[1] = <<>> /\ st[1] \in {"draw", "send", "asleep", "last", "ended"}
            \/ queue[1] = <<NULL>> /\ st[1] \in {"forward", "dequeue"}

(* Main goes on to free the objects when all threads have ended: stop      *)
(* never waits, it always joins for the second time.                       *)
Joined ==
  /\ mainPc \in {"flag", "feed"} => mainK = 1
  /\ mainPc = "join" => \A j \in 1..(mainK - 1) : st[j] = "ended"
  /\ mainPc \in {"stop", "return"} => \A j \in AO : st[j] = "ended"

(* The inductive invariant: that the end mark is the last item depends on  *)
(* the control block's reaching ao_1 alone and only once, and this on the  *)
(* order in which main sets the flag and feeds ao_1.                       *)
IInv ==
  /\ TypeOK /\ Roles /\ Creation /\ FirstObject /\ Joined
  /\ ControlBlockConfined /\ SentinelLast

(* Nothing is lost or doubled on the way: an object that ends has worked   *)
(* off every number if no flag before it happens to be set, and none at    *)
(* all otherwise (activeobject.c:12 reads flags nobody initialised).       *)
AllProcessed ==
  \A k \in AO \ {1} : st[k] = "ended" =>
    count[k] = IF \E j \in 2..(k - 1) : flag[j] = 1 THEN 0 ELSE Size

(* What object k prints for the i-th number, if every object before it     *)
(* has done its part.                                                      *)
Before(k) == IF k = 2 THEN 0 ELSE 11 - 13 * (k - 3)
Prints(k, i) ==
  IF k = N THEN <<[base |-> i, off |-> Before(k)], [base |-> i, off |-> Before(k) + 2]>>
           ELSE <<[base |-> i, off |-> Before(k) + Script(k)[1]]>>

(* As long as no sleep was too short, sharing one variable does no harm:   *)
(* every object prints the numbers in the order drawn, each changed by     *)
(* exactly the objects before it, although all work on the same variable   *)
(* (st_pipeline.c:38-40).                                                  *)
OutputInOrder ==
  late = 0 => \A k \in AO \ {1} : \A j \in 1..Len(shown[k]) :
    LET w == Len(Prints(k, 1)) IN
      shown[k][j] = Prints(k, (j - 1) \div w + 1)[((j - 1) % w) + 1]

(* The end mark gets through and main returns, unless a failure ends the   *)
(* program before.                                                         *)
Termination == <>(status # "running")
=============================================================================

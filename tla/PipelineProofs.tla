--------------------------- MODULE PipelineProofs ---------------------------
(***************************************************************************)
(* Proofs about Pipeline, for every number of active objects and every     *)
(* size, with any contents of the flags and any failure of malloc.         *)
(***************************************************************************)
EXTENDS Pipeline, SequenceTheorems, TLAPS

(* The facts about the parameters that the proofs need. *)
LEMMA Parameters ==
  /\ N \in Nat /\ N >= 2 /\ Size \in Nat /\ GarbageFlags \subseteq {0, 1}
  /\ NULL # Block /\ NULL # Num /\ Block # Num
  BY PipelineAssumption DEF PipelineAssumption

(* The neighbours of an object in the line. *)
LEMMA Neighbours ==
  /\ 1 \in AO /\ 2 \in AO /\ N \in AO
  /\ \A k \in AO : /\ k \in Nat /\ k >= 1 /\ k <= N
                   /\ k # 1 => k - 1 \in AO
                   /\ k # N => k + 1 \in AO
                   /\ \A j \in 1..k : j \in AO
  BY Parameters DEF AO

(* Nothing is created, queued or marked in the beginning. *)
LEMMA InitIInv == Init => IInv
<1> SUFFICES ASSUME Init PROVE IInv
  OBVIOUS
<1> USE PipelineAssumption DEF Init, AO
<1>1. TypeOK
  BY DEF TypeOK, Item, Dead
<1>2. Roles /\ Creation /\ FirstObject /\ Joined
  BY DEF Roles, Creation, FirstObject, Joined
<1>3. ControlBlockConfined /\ SentinelLast
  BY DEF ControlBlockConfined, SentinelLast, Holds
<1> QED BY <1>1, <1>2, <1>3 DEF IInv

(* What the lines of a function's script are. *)
LEMMA ScriptType ==
  ASSUME NEW k \in AO
  PROVE  /\ Len(Script(k)) \in 2..3
         /\ 1 <= Len(Script(k))
         /\ \A i \in 1..Len(Script(k)) : Script(k)[i] \in Int
  BY DEF Script

(* The items behind the append and after the removal of one.               *)
LEMMA HoldsAppend ==
  ASSUME NEW q \in Seq(Item), NEW x \in Item, NEW y \in Item
  PROVE  /\ Append(q, x) \in Seq(Item)
         /\ Holds(Append(q, x), y) <=> Holds(q, y) \/ x = y
<1>1. /\ Append(q, x) \in Seq(Item) /\ Len(Append(q, x)) = Len(q) + 1
      /\ Len(q) \in Nat
      /\ \A i \in 1..Len(q) : Append(q, x)[i] = q[i]
      /\ Append(q, x)[Len(q) + 1] = x
  OBVIOUS
<1> QED BY <1>1 DEF Holds

LEMMA HoldsTail ==
  ASSUME NEW q \in Seq(Item), q # <<>>, NEW y
  PROVE  /\ Tail(q) \in Seq(Item) /\ Head(q) \in Item
         /\ Len(Tail(q)) = Len(q) - 1 /\ Len(q) \in Nat \ {0} /\ q[1] = Head(q)
         /\ \A i \in 1..Len(Tail(q)) : Tail(q)[i] = q[i + 1]
         /\ Holds(Tail(q), y) => Holds(q, y)
         /\ Holds(q, Head(q))
<1>1. /\ Tail(q) \in Seq(Item) /\ Head(q) \in Item
      /\ Len(Tail(q)) = Len(q) - 1 /\ Len(q) \in Nat \ {0} /\ q[1] = Head(q)
      /\ \A i \in 1..Len(Tail(q)) : Tail(q)[i] = q[i + 1]
  OBVIOUS
<1>2. Holds(Tail(q), y) => Holds(q, y)
  <2> SUFFICES ASSUME NEW i \in 1..Len(Tail(q)), Tail(q)[i] = y PROVE Holds(q, y)
    BY DEF Holds
  <2>1. i + 1 \in 1..Len(q) /\ q[i + 1] = y
    BY <1>1
  <2> QED BY <2>1 DEF Holds
<1> QED BY <1>1, <1>2 DEF Holds

(* A step that moves no item and ends no thread does not disturb the mark. *)
LEMMA StillMarked ==
  ASSUME SentinelLast, UNCHANGED queue,
         \A k \in AO : /\ st'[k] \in {"last", "ended"} => st[k] \in {"last", "ended"}
                       /\ st[k] = "ended" => st'[k] = "ended"
  PROVE  SentinelLast'
<1> SUFFICES ASSUME NEW k \in AO
             PROVE  /\ \A i \in 1..Len(queue[k]) : queue[k][i] = NULL => i = Len(queue[k])
                    /\ st'[k] \in {"last", "ended"} => queue[k] = <<>>
                    /\ (st'[k] \in {"last", "ended"} \/ Holds(queue[k], NULL)) /\ k > 1
                         => st'[k - 1] = "ended"
  BY DEF SentinelLast
<1>1. /\ \A i \in 1..Len(queue[k]) : queue[k][i] = NULL => i = Len(queue[k])
      /\ st[k] \in {"last", "ended"} => queue[k] = <<>>
      /\ (st[k] \in {"last", "ended"} \/ Holds(queue[k], NULL)) /\ k > 1
           => st[k - 1] = "ended"
  BY DEF SentinelLast
<1>2. k > 1 => k - 1 \in AO
  BY Neighbours
<1> QED BY <1>1, <1>2

(***************************************************************************)
(* main.                                                                   *)
(***************************************************************************)
(* Creating an object, or failing to, starts at most a thread that waits.  *)
LEMMA CreateStep ==
  ASSUME IInv, Create \/ CreateFails
  PROVE  IInv'
<1> USE DEF IInv
<1>1. /\ mainPc = "create" /\ mainK \in AO /\ obj[mainK] = "none" /\ st[mainK] = "none"
      /\ mainK \in Nat
  <2>1. mainPc = "create" /\ mainK \in AO
    BY DEF Create, CreateFails, TypeOK
  <2>2. mainK \in Nat /\ mainK \in 1..mainK
    BY <2>1, Neighbours
  <2> QED BY <2>1, <2>2 DEF Creation
<1>2. \/ mainK = 1 /\ mainPc' = "flag" /\ mainK' = 1
      \/ mainK # 1 /\ mainPc' = "create" /\ mainK' = mainK - 1
  BY DEF Create, CreateFails, Created
<1>3. flag' \in [AO -> {0, 1}]
  BY Parameters DEF Create, CreateFails, TypeOK
<1>4. /\ UNCHANGED <<status, queue, hand, pos, drawn, cell, shown, late, count>>
      /\ \/ obj' = [obj EXCEPT ![mainK] = "live"] /\ st' = [st EXCEPT ![mainK] = "dequeue"]
         \/ obj' = [obj EXCEPT ![mainK] = "null"] /\ st' = st
  BY DEF Create, CreateFails, Goto, thread
<1>5. \A k \in AO : k # mainK => obj'[k] = obj[k] /\ st'[k] = st[k]
  BY <1>4 DEF TypeOK
<1>6. /\ obj'[mainK] \in {"live", "null"} /\ st'[mainK] \in {"none", "dequeue"}
      /\ obj'[mainK] = "null" <=> st'[mainK] = "none"
  BY <1>1, <1>4 DEF TypeOK
<1>7. TypeOK'
  <2>1. mainK' \in AO
    BY <1>1, <1>2, Neighbours
  <2> QED BY <1>1, <1>2, <1>3, <1>4, <2>1 DEF TypeOK
<1>8. Roles'
  <2>1. \A k \in AO : st'[k] = st[k] \/ st'[k] = "dequeue"
    BY <1>1, <1>5, <1>6
  <2> QED BY <1>4, <2>1, Neighbours DEF Roles
<1>9. Creation'
  <2>1. \A k \in AO : obj'[k] \in {"none", "null"} <=> st'[k] = "none"
    BY <1>5, <1>6 DEF Creation
  <2>2. ASSUME mainPc' = "create", NEW k \in 1..mainK' PROVE obj'[k] = "none"
    <3>1. k \in 1..mainK /\ k # mainK /\ k \in AO
      BY <2>2, <1>1, <1>2, Neighbours
    <3> QED BY <3>1, <1>1, <1>5 DEF Creation
  <2>3. mainPc' # "create" => obj'[1] # "none"
    BY <1>2, <1>6
  <2>4. \A k \in AO : obj'[k] # "freed"
    BY <1>1, <1>5, <1>6 DEF Creation
  <2> QED BY <2>1, <2>2, <2>3, <2>4 DEF Creation
<1>10. FirstObject'
  <2>1. st'[1] \in {"none", "dequeue"}
    BY <1>1, <1>5, <1>6, Neighbours DEF FirstObject
  <2> QED BY <1>1, <1>2, <1>4, <2>1 DEF FirstObject
<1>11. Joined'
  BY <1>2 DEF Joined
<1>12. ControlBlockConfined'
  BY <1>4 DEF ControlBlockConfined
<1>13. SentinelLast'
  <2>1. \A k \in AO : /\ st'[k] \in {"last", "ended"} => st[k] \in {"last", "ended"}
                      /\ st[k] = "ended" => st'[k] = "ended"
    BY <1>1, <1>5, <1>6
  <2>2. queue' = queue
    BY <1>4
  <2> QED BY <2>1, <2>2, StillMarked
<1> QED BY <1>7, <1>8, <1>9, <1>10, <1>11, <1>12, <1>13

(* Setting the flag, joining and freeing touch no thread and no queue.     *)
LEMMA MainStep ==
  ASSUME IInv, SetFlag \/ Join \/ Stop \/ Return \/ OutOfMemory
  PROVE  IInv'
<1> USE DEF IInv
<1>1. UNCHANGED <<queue, thread>>
  BY DEF SetFlag, Join, Stop, Return, OutOfMemory
<1>2. ControlBlockConfined' /\ SentinelLast' /\ Roles'
  BY <1>1 DEF ControlBlockConfined, SentinelLast, Roles, thread
<1>3. CASE SetFlag
  <2>1. TypeOK'
    BY <1>3, <1>1, Neighbours DEF SetFlag, TypeOK, Crash, thread
  <2>2. Creation' /\ Joined'
    BY <1>3, <1>1 DEF SetFlag, Creation, Joined, thread
  <2>3. FirstObject'
    <3>1. CASE mainPc' = "feed"
      <4>1. flag'[1] = 1
        BY <1>3, <3>1, Neighbours DEF SetFlag, TypeOK
      <4>2. st[1] = "dequeue" /\ queue[1] = <<>>
        BY <1>3, <3>1, Neighbours DEF SetFlag, TypeOK, Creation, FirstObject
      <4> QED BY <3>1, <4>1, <4>2, <1>1 DEF FirstObject, thread
    <3>2. CASE mainPc' # "feed"
      BY <1>3, <3>2, <1>1 DEF SetFlag, FirstObject, thread
    <3> QED BY <3>1, <3>2
  <2> QED BY <1>2, <2>1, <2>2, <2>3
<1>4. CASE Join
  <2>1. \/ UNCHANGED <<mainPc, mainK>> /\ mainPc = "join" /\ status' = "crashed"
        \/ mainPc = "join" /\ st[mainK] = "ended" /\ UNCHANGED status /\ Advance("join", "stop")
    BY <1>4 DEF Join, Crash
  <2>2. UNCHANGED <<obj, flag>>
    BY <1>4 DEF Join
  <2>3. mainPc' \in {"join", "stop"} /\ mainK' \in AO /\ mainPc = "join"
    BY <2>1, Neighbours DEF Advance, TypeOK
  <2>4. TypeOK'
    BY <1>1, <2>1, <2>2, <2>3 DEF TypeOK, thread
  <2>5. Joined'
    <3>1. mainK \in AO /\ mainK \in 1..N /\ \A j \in AO : j \in 1..N
      <4>1. mainK \in AO
        BY DEF TypeOK
      <4> QED BY <4>1, Neighbours, Parameters
    <3>2. \A j \in 1..(mainK - 1) : st[j] = "ended"
      BY <2>3 DEF Joined
    <3>3. CASE UNCHANGED <<mainPc, mainK>>
      BY <3>3, <2>3, <3>2, <1>1 DEF Joined, thread
    <3>4. CASE st[mainK] = "ended" /\ Advance("join", "stop")
      <4>1. \A j \in 1..mainK : st[j] = "ended"
        BY <3>1, <3>2, <3>4
      <4>2. CASE mainK = N
        <5>1. mainPc' = "stop" /\ \A j \in AO : st'[j] = "ended"
          BY <3>1, <3>4, <4>1, <4>2, <1>1 DEF Advance, thread
        <5> QED BY <5>1 DEF Joined
      <4>3. CASE mainK # N
        <5>1. mainPc' = "join" /\ mainK' = mainK + 1 /\ st' = st
          BY <3>4, <4>3, <1>1 DEF Advance, thread
        <5>2. 1..(mainK' - 1) = 1..mainK
          BY <5>1, <3>1
        <5> QED BY <5>1, <5>2, <4>1 DEF Joined
      <4> QED BY <4>2, <4>3
    <3> QED BY <2>1, <3>3, <3>4
  <2>6. Creation'
    BY <1>1, <2>2, <2>3 DEF Creation, thread
  <2>7. FirstObject'
    BY <1>1, <2>2, <2>3 DEF FirstObject, thread
  <2> QED BY <1>2, <2>4, <2>5, <2>6, <2>7
<1>5. CASE Stop
  <2>1. /\ mainPc = "stop" /\ mainK \in AO
        /\ \/ UNCHANGED <<mainPc, mainK, obj>> /\ status' = "crashed"
           \/ /\ obj' = [obj EXCEPT ![mainK] = "freed"]
              /\ UNCHANGED status /\ Advance("stop", "return")
    BY <1>5 DEF Stop, Crash, TypeOK
  <2>2. UNCHANGED flag
    BY <1>5 DEF Stop
  <2>3. mainPc' \in {"stop", "return"} /\ mainK' \in AO
    BY <2>1, Neighbours DEF Advance
  <2>4. TypeOK'
    BY <1>1, <2>1, <2>2, <2>3 DEF TypeOK, thread
  <2>5. \A j \in AO : st[j] = "ended"
    BY <2>1 DEF Joined
  <2>6. Joined'
    BY <1>1, <2>3, <2>5 DEF Joined, thread
  <2>7. Creation'
    <3>1. \A k \in AO : obj'[k] = obj[k] \/ obj'[k] = "freed"
      BY <2>1 DEF TypeOK
    <3> QED BY <1>1, <2>3, <2>5, <3>1, Neighbours DEF Creation, thread
  <2>8. FirstObject'
    BY <1>1, <2>1, <2>2, <2>3 DEF FirstObject, thread
  <2> QED BY <1>2, <2>4, <2>6, <2>7, <2>8
<1>6. CASE Return \/ OutOfMemory
  <2>1. UNCHANGED main /\ status' \in {"returned", "exited"}
    BY <1>6 DEF Return, OutOfMemory
  <2>2. TypeOK' /\ Joined' /\ Creation' /\ FirstObject'
    BY <1>1, <2>1 DEF main, thread, TypeOK, Joined, Creation, FirstObject
  <2> QED BY <1>2, <2>2
<1> QED BY <1>3, <1>4, <1>5, <1>6

(* The control block goes to ao_1, whose flag is set and queue empty.      *)
LEMMA FeedStep ==
  ASSUME IInv, Feed
  PROVE  IInv'
<1> USE DEF IInv, Feed, Put, thread
<1>1. /\ queue' = [queue EXCEPT ![1] = <<Block>>] /\ queue \in [AO -> Seq(Item)]
      /\ flag[1] = 1 /\ st[1] = "dequeue" /\ mainK = 1 /\ mainPc' = "join"
      /\ UNCHANGED <<status, mainK, obj, flag, thread>>
  <2>1. /\ mainPc = "feed" /\ mainPc' = "join" /\ queue[1] = <<>>
        /\ flag[1] = 1 /\ st[1] = "dequeue" /\ mainK = 1
    BY DEF FirstObject, Joined
  <2>2. Append(queue[1], Block) = <<Block>>
    BY <2>1
  <2> QED BY <2>1, <2>2 DEF TypeOK
<1>2. queue'[1] = <<Block>> /\ \A k \in AO \ {1} : queue'[k] = queue[k]
  BY <1>1, Neighbours
<1>3. TypeOK'
  <2>1. queue' \in [AO -> Seq(Item)]
    <3>1. Block \in Item
      BY DEF Item
    <3>2. <<Block>> \in Seq(Item)
      BY <3>1
    <3> QED BY <1>1, <3>2
  <2>2. TypeOK /\ UNCHANGED <<status, mainK, obj, flag, st, hand, pos, drawn, cell, shown, late, count>>
    BY <1>1
  <2> HIDE DEF IInv, Feed, Put, thread
  <2>3. mainPc' \in {"create", "flag", "feed", "join", "stop", "return"}
    BY <1>1
  <2> QED BY <2>1, <2>2, <2>3 DEF TypeOK
<1>4. Roles' /\ Creation'
  BY <1>1 DEF Roles, Creation
<1>5. FirstObject' /\ Joined'
  BY <1>1, <1>2 DEF FirstObject, Joined
<1>6. ControlBlockConfined'
  BY <1>1, <1>2 DEF ControlBlockConfined
<1>7. SentinelLast'
  <2>1. /\ \A i \in 1..Len(queue'[1]) : queue'[1][i] = NULL => i = Len(queue'[1])
        /\ st'[1] \notin {"last", "ended"}
    BY <1>1, <1>2
  <2>2. \A k \in AO \ {1} : queue'[k] = queue[k] /\ st' = st
    BY <1>1, <1>2
  <2> QED BY <2>1, <2>2, Neighbours DEF SentinelLast
<1> QED BY <1>3, <1>4, <1>5, <1>6, <1>7

(***************************************************************************)
(* The threads.                                                            *)
(***************************************************************************)
(* A thread's step leaves what main has done as it is.                     *)
LEMMA ThreadFrame ==
  ASSUME IInv, UNCHANGED <<status, main>>, NEW k \in AO, NEW l,
         st' = [st EXCEPT ![k] = l], st[k] \notin {"none", "ended"}, l # "none"
  PROVE  /\ Creation' /\ Joined'
         /\ \A j \in AO \ {k} : st'[j] = st[j]
         /\ st'[k] = l
         /\ mainPc \notin {"stop", "return"}
<1> USE DEF IInv, main
<1>1. st \in [AO -> {"none", "dequeue", "work", "forward", "last", "ended",
                    "draw", "send", "asleep"}]
  BY DEF TypeOK
<1>2. st'[k] = l /\ \A j \in AO \ {k} : st'[j] = st[j]
  BY <1>1
<1>3. Creation'
  BY <1>2 DEF Creation
<1>4. mainPc \notin {"stop", "return"}
  BY DEF Joined
<1>5. Joined'
  <2>1. ASSUME mainPc = "join", NEW j \in 1..(mainK - 1) PROVE st'[j] = "ended"
    <3>1. mainK \in AO /\ mainK \in Nat
      BY Neighbours DEF TypeOK
    <3>2. j \in AO
      BY <3>1, Neighbours
    <3>3. st[j] = "ended"
      BY <2>1 DEF Joined
    <3> QED BY <3>2, <3>3, <1>2
  <2> QED BY <2>1, <1>4 DEF Joined
<1> QED BY <1>2, <1>3, <1>4, <1>5

(* Handing an item to the next object, which has not met the mark yet.     *)
LEMMA PutStep ==
  ASSUME IInv, NEW k \in AO, k + 1 \in AO, NEW x \in Item \ {Block},
         UNCHANGED hand, Put(k + 1, x), NEW l, st' = [st EXCEPT ![k] = l],
         \/ x # NULL /\ st[k] \notin {"last", "ended"} /\ l \notin {"last", "ended"}
         \/ x = NULL /\ st[k] = "last" /\ l = "ended"
  PROVE  /\ queue' \in [AO -> Seq(Item)] /\ queue'[1] = queue[1]
         /\ ControlBlockConfined' /\ SentinelLast'
<1> USE DEF IInv
<1> DEFINE q == queue[k + 1]
<1>1. k \in Nat /\ k >= 1 /\ k + 1 # 1 /\ k # k + 1 /\ 1 \in AO /\ (k + 1) - 1 = k
  BY Neighbours
<1>2. q \in Seq(Item) /\ queue \in [AO -> Seq(Item)] /\ x \in Item
      /\ NULL \in Item /\ Block \in Item
  BY DEF TypeOK, Item
<1>3. /\ Append(q, x) \in Seq(Item) /\ Len(Append(q, x)) = Len(q) + 1
      /\ Len(q) \in Nat
      /\ \A i \in 1..Len(q) : Append(q, x)[i] = q[i]
  BY <1>2
<1>4. /\ Holds(Append(q, x), NULL) <=> Holds(q, NULL) \/ x = NULL
      /\ Holds(Append(q, x), Block) <=> Holds(q, Block) \/ x = Block
  BY <1>2, HoldsAppend
<1>5. queue'[k + 1] = Append(q, x) /\ \A j \in AO \ {k + 1} : queue'[j] = queue[j]
  BY <1>2 DEF Put
<1>6. st'[k] = l /\ \A j \in AO \ {k} : st'[j] = st[j]
  BY DEF TypeOK
<1>7. queue' \in [AO -> Seq(Item)] /\ queue'[1] = queue[1]
  BY <1>1, <1>2, <1>3, <1>5 DEF Put
<1>8. ControlBlockConfined'
  BY <1>4, <1>5 DEF ControlBlockConfined
<1>9. st[k] # "ended" /\ ~Holds(q, NULL) /\ st[k + 1] \notin {"last", "ended"}
  BY <1>1 DEF SentinelLast
<1>10. ASSUME NEW j \in AO
       PROVE  /\ \A i \in 1..Len(queue'[j]) : queue'[j][i] = NULL => i = Len(queue'[j])
              /\ st'[j] \in {"last", "ended"} => queue'[j] = <<>>
              /\ (st'[j] \in {"last", "ended"} \/ Holds(queue'[j], NULL)) /\ j > 1
                   => st'[j - 1] = "ended"
  <2>0. /\ \A i \in 1..Len(queue[j]) : queue[j][i] = NULL => i = Len(queue[j])
        /\ st[j] \in {"last", "ended"} => queue[j] = <<>>
        /\ (st[j] \in {"last", "ended"} \/ Holds(queue[j], NULL)) /\ j > 1
             => st[j - 1] = "ended"
    BY DEF SentinelLast
  <2>1. CASE j = k + 1
    <3>1. \A i \in 1..Len(q) : q[i] # NULL
      BY <1>9 DEF Holds
    <3>2. \A i \in 1..(Len(q) + 1) : i \in 1..Len(q) \/ i = Len(q) + 1
      BY <1>3
    <3>3. \A i \in 1..Len(queue'[j]) : queue'[j][i] = NULL => i = Len(queue'[j])
      BY <1>3, <1>5, <2>1, <3>1, <3>2
    <3>4. st'[j] \notin {"last", "ended"}
      BY <2>1, <1>1, <1>6, <1>9
    <3>5. Holds(queue'[j], NULL) => st'[j - 1] = "ended"
      BY <2>1, <1>1, <1>4, <1>5, <1>6, <1>9
    <3> QED BY <3>3, <3>4, <3>5
  <2>2. CASE j # k + 1
    <3>1. queue'[j] = queue[j] /\ (st'[j] \in {"last", "ended"} => st[j] \in {"last", "ended"})
      BY <2>2, <1>5, <1>6
    <3>2. j > 1 => j - 1 \in AO /\ j - 1 # k
      BY <2>2, <1>1, Neighbours
    <3> QED BY <2>0, <3>1, <3>2, <1>6
  <2> QED BY <2>1, <2>2
<1>11. SentinelLast'
  BY <1>10 DEF SentinelLast
<1> QED BY <1>7, <1>8, <1>11

(* Taking an item: what remains was behind it, and nothing is behind the   *)
(* mark.                                                                   *)
LEMMA DequeueStep ==
  ASSUME IInv, NEW k \in AO, Dequeue(k)
  PROVE  IInv'
<1> USE DEF IInv
<1> DEFINE q == queue[k]
           l == IF Head(q) = NULL THEN "last" ELSE IF k = 1 THEN "draw" ELSE "work"
<1>1. /\ st[k] = "dequeue" /\ q # <<>> /\ q \in Seq(Item) /\ queue \in [AO -> Seq(Item)]
      /\ hand' = [hand EXCEPT ![k] = Head(q)]
      /\ queue' = [queue EXCEPT ![k] = Tail(q)]
      /\ pos' = [pos EXCEPT ![k] = 1]
      /\ st' = [st EXCEPT ![k] = l]
      /\ UNCHANGED <<status, main, drawn, cell, shown, late, count>>
  BY DEF Dequeue, Goto, TypeOK
<1>2. /\ Tail(q) \in Seq(Item) /\ Head(q) \in Item
      /\ Len(Tail(q)) = Len(q) - 1 /\ Len(q) \in Nat \ {0} /\ q[1] = Head(q)
      /\ \A i \in 1..Len(Tail(q)) : Tail(q)[i] = q[i + 1]
      /\ Holds(Tail(q), Block) => Holds(q, Block)
      /\ Holds(Tail(q), NULL) => Holds(q, NULL)
      /\ Holds(q, Head(q))
  BY <1>1, HoldsTail
<1>3. l \in {"last", "draw", "work"}
  OBVIOUS
<1>4. /\ Creation' /\ Joined' /\ st'[k] = l /\ \A j \in AO \ {k} : st'[j] = st[j]
      /\ mainPc \notin {"stop", "return"}
  BY <1>1, <1>3, ThreadFrame
<1>5. /\ queue'[k] = Tail(q) /\ hand'[k] = Head(q) /\ pos'[k] = 1
      /\ \A j \in AO \ {k} : queue'[j] = queue[j] /\ hand'[j] = hand[j] /\ pos'[j] = pos[j]
  BY <1>1 DEF TypeOK
<1>6. TypeOK'
  <2>1. queue' \in [AO -> Seq(Item)] /\ hand' \in [AO -> Item] /\ pos' \in [AO -> 1..3]
    BY <1>1, <1>2 DEF TypeOK
  <2> HIDE DEF l
  <2>2. st' \in [AO -> {"none", "dequeue", "work", "forward", "last", "ended",
                       "draw", "send", "asleep"}]
    BY <1>1, <1>3 DEF TypeOK
  <2> QED BY <1>1, <2>1, <2>2 DEF TypeOK, main
<1>7. ControlBlockConfined'
  BY <1>2, <1>5 DEF ControlBlockConfined
<1>8. Roles'
  <2>1. k # 1 => Head(q) # Block
    BY <1>2 DEF ControlBlockConfined
  <2>2. l = "work" => k # 1 /\ Head(q) = Num
    BY <1>2, <2>1 DEF Item
  <2>3. st'[1] # "work"
    BY <1>4, <2>2, Neighbours DEF Roles
  <2>4. \A j \in AO \ {1} : st'[j] \notin {"draw", "send", "asleep"}
    BY <1>4 DEF Roles
  <2>5. \A j \in AO \ {1} : st'[j] \in {"work", "forward"} => hand'[j] = Num
    BY <1>3, <1>4, <1>5, <2>2 DEF Roles
  <2>6. \A j \in AO : st'[j] = "work" => pos'[j] <= Len(Script(j))
    <3> SUFFICES ASSUME NEW j \in AO, st'[j] = "work" PROVE pos'[j] <= Len(Script(j))
      OBVIOUS
    <3>1. CASE j = k
      <4>1. 1 <= Len(Script(j))
        BY ScriptType
      <4>2. pos'[j] = 1
        BY <3>1, <1>5, Zenon
      <4> QED BY <4>1, <4>2, Zenon
    <3>2. CASE j # k
      BY <3>2, <1>4, <1>5 DEF Roles
    <3> QED BY <3>1, <3>2
  <2> QED BY <2>3, <2>4, <2>5, <2>6 DEF Roles
<1>9. FirstObject'
  <2>1. CASE k # 1
    BY <2>1, <1>1, <1>4, <1>5, Neighbours DEF FirstObject, main
  <2>2. CASE k = 1
    <3>1. /\ mainPc \notin {"create", "flag", "feed"} /\ flag[1] = 1
          /\ q = <<Block>> \/ q = <<NULL>>
      BY <2>2, <1>1 DEF FirstObject
    <3>2. Tail(q) = <<>> /\ Head(q) \in {Block, NULL}
      <4>1. \A x \in Item : Tail(<<x>>) = <<>> /\ Head(<<x>>) = x
        OBVIOUS
      <4>2. Block \in Item /\ NULL \in Item
        BY DEF Item
      <4> HIDE DEF l
      <4> QED BY <3>1, <4>1, <4>2
    <3>3. l \in {"draw", "last"}
      BY <2>2
    <3> HIDE DEF l
    <3> QED BY <2>2, <3>1, <3>2, <3>3, <1>1, <1>4, <1>5 DEF FirstObject, main
  <2> QED BY <2>1, <2>2
<1>10. ASSUME NEW j \in AO
       PROVE  /\ \A i \in 1..Len(queue'[j]) : queue'[j][i] = NULL => i = Len(queue'[j])
              /\ st'[j] \in {"last", "ended"} => queue'[j] = <<>>
              /\ (st'[j] \in {"last", "ended"} \/ Holds(queue'[j], NULL)) /\ j > 1
                   => st'[j - 1] = "ended"
  <2>0. /\ \A i \in 1..Len(queue[j]) : queue[j][i] = NULL => i = Len(queue[j])
        /\ st[j] \in {"last", "ended"} => queue[j] = <<>>
        /\ (st[j] \in {"last", "ended"} \/ Holds(queue[j], NULL)) /\ j > 1
             => st[j - 1] = "ended"
    BY DEF SentinelLast
  <2>1. j > 1 => j - 1 \in AO
    BY Neighbours
  <2>2. j > 1 /\ st[j - 1] = "ended" => st'[j - 1] = "ended"
    BY <2>1, <1>1, <1>4
  <2>3. CASE j # k
    BY <2>0, <2>2, <2>3, <1>4, <1>5
  <2>4. CASE j = k
    <3>1. \A i \in 1..Len(queue'[j]) : queue'[j][i] = NULL => i = Len(queue'[j])
      <4> SUFFICES ASSUME NEW i \in 1..Len(Tail(q)), Tail(q)[i] = NULL
                   PROVE  i = Len(Tail(q))
        BY <2>4, <1>5
      <4>1. i + 1 \in 1..Len(q) /\ q[i + 1] = NULL
        BY <1>2
      <4> QED BY <4>1, <2>0, <2>4, <1>2
    <3>2. st'[j] \in {"last", "ended"} => Head(q) = NULL
      BY <2>4, <1>4
    <3>3. Head(q) = NULL => Tail(q) = <<>>
      <4> SUFFICES ASSUME Head(q) = NULL PROVE Tail(q) = <<>>
        OBVIOUS
      <4>1. Len(q) = 1
        <5>1. 1 \in 1..Len(q) /\ q[1] = NULL
          BY <1>2
        <5> QED BY <5>1, <2>0, <2>4
      <4> QED BY <4>1, <1>1
    <3>4. st'[j] \in {"last", "ended"} \/ Holds(queue'[j], NULL) => Holds(queue[j], NULL)
      BY <2>4, <3>2, <1>2, <1>5
    <3> QED BY <2>0, <2>2, <2>4, <3>1, <3>2, <3>3, <3>4, <1>5
  <2> QED BY <2>3, <2>4
<1>11. SentinelLast'
  BY <1>10 DEF SentinelLast
<1> QED BY <1>4, <1>6, <1>7, <1>8, <1>9, <1>11

(* Working on a number prints it or changes it.                            *)
LEMMA WorkStep ==
  ASSUME IInv, NEW k \in AO, Work(k)
  PROVE  IInv'
<1> USE DEF IInv
<1> DEFINE d == Script(k)[pos[k]]
<1>1. /\ st[k] = "work" /\ pos[k] \in 1..3 /\ pos[k] <= Len(Script(k))
      /\ UNCHANGED <<status, main, queue, hand, drawn, late>>
  BY DEF Work, TypeOK, Roles
<1>2. Len(Script(k)) \in 2..3 /\ d \in Int
  <2>1. pos[k] \in 1..Len(Script(k))
    BY <1>1, ScriptType
  <2> QED BY <2>1, ScriptType
<1>3. \/ pos[k] < Len(Script(k)) /\ pos' = [pos EXCEPT ![k] = pos[k] + 1]
           /\ UNCHANGED <<st, count>>
      \/ /\ st' = [st EXCEPT ![k] = "forward"] /\ pos' = pos
         /\ count' = [count EXCEPT ![k] = count[k] + 1]
  BY DEF Work, Goto
<1>4. \/ shown' = [shown EXCEPT ![k] = Append(shown[k], cell)] /\ cell' = cell
      \/ cell' = [cell EXCEPT !.off = cell.off + d] /\ shown' = shown
  BY DEF Work
<1> HIDE DEF d
<1>5. /\ pos' \in [AO -> 1..3] /\ count' \in [AO -> Nat]
      /\ st' \in [AO -> {"none", "dequeue", "work", "forward", "last", "ended",
                         "draw", "send", "asleep"}]
  <2>1. pos[k] < Len(Script(k)) => pos[k] + 1 \in 1..3
    <3>1. Len(Script(k)) \in 2..3
      BY <1>2
    <3>2. \A a \in 1..3, b \in 2..3 : a < b => a + 1 \in 1..3
      OBVIOUS
    <3> HIDE DEF IInv
    <3> QED BY <1>1, <3>1, <3>2
  <2>2. pos' \in [AO -> 1..3]
    BY <1>3, <2>1 DEF TypeOK
  <2>3. count' \in [AO -> Nat]
    <3>1. count \in [AO -> Nat] /\ count[k] + 1 \in Nat
      BY DEF TypeOK
    <3> QED BY <1>3, <3>1
  <2>4. st' \in [AO -> {"none", "dequeue", "work", "forward", "last", "ended",
                       "draw", "send", "asleep"}]
    BY <1>3 DEF TypeOK
  <2> QED BY <2>2, <2>3, <2>4
<1>6. cell' \in [base : 0..Size, off : Int] /\ shown' \in [AO -> Seq([base : 0..Size, off : Int])]
  <2>1. cell \in [base : 0..Size, off : Int] /\ cell.off + d \in Int
    BY <1>2 DEF TypeOK
  <2>2. cell' \in [base : 0..Size, off : Int]
    BY <1>4, <2>1
  <2>3. Append(shown[k], cell) \in Seq([base : 0..Size, off : Int])
    <3>1. shown[k] \in Seq([base : 0..Size, off : Int])
      BY DEF TypeOK
    <3> QED BY <2>1, <3>1
  <2>4. shown' \in [AO -> Seq([base : 0..Size, off : Int])]
    BY <1>4, <2>3 DEF TypeOK
  <2> QED BY <2>2, <2>4
<1>7. TypeOK'
  BY <1>1, <1>5, <1>6 DEF TypeOK, main
<1>8. Creation' /\ Joined' /\ st'[k] \in {"work", "forward"} /\ \A j \in AO \ {k} : st'[j] = st[j]
  <2>1. CASE st' = st
    BY <2>1, <1>1 DEF Creation, Joined, main
  <2>2. CASE st' = [st EXCEPT ![k] = "forward"]
    BY <2>2, <1>1, ThreadFrame
  <2> QED BY <2>1, <2>2, <1>3
<1>9. k # 1
  BY <1>1 DEF Roles
<1>10. Roles'
  <2>1. \A j \in AO : pos'[j] = pos[j] \/ j = k
    BY <1>3 DEF TypeOK
  <2>2. st'[k] = "work" => pos'[k] <= Len(Script(k))
    BY <1>1, <1>2, <1>3 DEF TypeOK
  <2>3. hand' = hand
    BY <1>1
  <2>4. \A j \in AO : st'[j] = "work" => pos'[j] <= Len(Script(j))
    BY <1>8, <2>1, <2>2 DEF Roles
  <2>5. \A j \in AO \ {1} : st'[j] \in {"work", "forward"} => hand[j] = Num
    BY <1>1, <1>8, <1>9 DEF Roles
  <2>6. st'[1] # "work" /\ \A j \in AO \ {1} : st'[j] \notin {"draw", "send", "asleep"}
    BY <1>8, <1>9, Neighbours DEF Roles
  <2> QED BY <2>3, <2>4, <2>5, <2>6 DEF Roles
<1>11. FirstObject'
  BY <1>1, <1>8, <1>9, Neighbours DEF FirstObject, main
<1>12. ControlBlockConfined'
  BY <1>1 DEF ControlBlockConfined
<1>13. SentinelLast'
  <2>1. queue' = queue
    BY <1>1
  <2>2. \A j \in AO : /\ st'[j] \in {"last", "ended"} => st[j] \in {"last", "ended"}
                      /\ st[j] = "ended" => st'[j] = "ended"
    BY <1>1, <1>8
  <2> QED BY <2>1, <2>2, StillMarked
<1> QED BY <1>7, <1>8, <1>10, <1>11, <1>12, <1>13

(* What is left to show of a step of ao_k that changes only its own place  *)
(* and perhaps puts an item into the next queue.                           *)
LEMMA OwnStep ==
  ASSUME IInv, NEW k \in AO, NEW l \in {"dequeue", "ended", "draw", "send", "asleep"},
         UNCHANGED <<status, main, hand, pos, shown, count>>,
         st' = [st EXCEPT ![k] = l], st[k] \notin {"none", "ended"},
         l \in {"draw", "send", "asleep"} => k = 1,
         queue' \in [AO -> Seq(Item)], drawn' \in 0..Size,
         cell' \in [base : 0..Size, off : Int], late' \in {0, 1}
  PROVE  /\ TypeOK' /\ Roles' /\ Creation' /\ Joined'
         /\ st'[k] = l /\ \A j \in AO \ {k} : st'[j] = st[j]
<1> USE DEF IInv
<1>1. /\ Creation' /\ Joined' /\ st'[k] = l /\ \A j \in AO \ {k} : st'[j] = st[j]
  BY ThreadFrame
<1>2. TypeOK'
  BY DEF TypeOK, main
<1>3. Roles'
  BY <1>1 DEF Roles
<1> QED BY <1>1, <1>2, <1>3

(* A number that has been worked on, or the end mark, is handed on: ao_1   *)
(* hands on no control block, because its flag is set.                     *)
LEMMA HandOnStep ==
  ASSUME IInv, NEW k \in AO, Forward(k) \/ Last(k)
  PROVE  IInv'
<1> USE DEF IInv
<1> DEFINE x == IF st[k] = "last" THEN NULL ELSE hand[k]
           l == IF st[k] = "last" THEN "ended" ELSE "dequeue"
<1>1. /\ st[k] \in {"forward", "last"} /\ st' = [st EXCEPT ![k] = l]
      /\ UNCHANGED <<status, main, hand, pos, drawn, cell, shown, late, count>>
  BY DEF Forward, Last, Goto
<1>2. \/ queue' = queue
      \/ Put(k + 1, x) /\ k # N /\ (st[k] = "last" \/ flag[k] # 1)
  BY Neighbours DEF Forward, Last, HasNext
<1>3. st[k] = "forward" /\ k # 1 => x = Num
  BY DEF Roles
<1>4. st[k] = "forward" /\ k = 1 => flag[k] = 1
  BY DEF FirstObject
<1>5. queue' \in [AO -> Seq(Item)] /\ queue'[1] = queue[1] /\ ControlBlockConfined' /\ SentinelLast'
  <2>1. CASE queue' = queue
    <3>1. st'[k] = l /\ \A j \in AO \ {k} : st'[j] = st[j]
      BY <1>1 DEF TypeOK
    <3>2. \A j \in AO : /\ st'[j] \in {"last", "ended"} => st[j] \in {"last", "ended"}
                        /\ st[j] = "ended" => st'[j] = "ended"
      BY <1>1, <3>1
    <3>3. SentinelLast'
      BY <2>1, <3>2, StillMarked
    <3>4. ControlBlockConfined'
      BY <2>1, <1>1 DEF ControlBlockConfined
    <3> QED BY <2>1, <3>3, <3>4 DEF TypeOK
  <2>2. CASE Put(k + 1, x) /\ k # N /\ (st[k] = "last" \/ flag[k] # 1)
    <3>1. k + 1 \in AO
      BY <2>2, Neighbours
    <3>2. \/ st[k] = "last" /\ x = NULL /\ l = "ended"
          \/ st[k] = "forward" /\ x = Num /\ l = "dequeue"
      BY <2>2, <1>1, <1>3, <1>4
    <3>3. x \in Item \ {Block}
      BY <3>2, Parameters DEF Item
    <3>4. \/ x # NULL /\ st[k] \notin {"last", "ended"} /\ l \notin {"last", "ended"}
          \/ x = NULL /\ st[k] = "last" /\ l = "ended"
      BY <3>2, Parameters
    <3>5. hand' = hand
      BY <1>1
    <3> HIDE DEF x, l
    <3> QED BY <2>2, <3>1, <3>3, <3>4, <3>5, <1>1, PutStep
  <2> QED BY <1>2, <2>1, <2>2
<1>6. /\ TypeOK' /\ Roles' /\ Creation' /\ Joined'
      /\ st'[k] = l /\ \A j \in AO \ {k} : st'[j] = st[j]
  <2>1. /\ drawn' \in 0..Size /\ cell' \in [base : 0..Size, off : Int]
        /\ late' \in {0, 1} /\ l \in {"dequeue", "ended"}
    BY <1>1 DEF TypeOK
  <2> HIDE DEF x, l
  <2> QED BY <1>1, <1>5, <2>1, OwnStep
<1>7. FirstObject'
  <2>1. CASE k # 1
    BY <2>1, <1>1, <1>5, <1>6, Neighbours DEF FirstObject, main
  <2>2. CASE k = 1
    BY <2>2, <1>1, <1>5, <1>6 DEF FirstObject, main
  <2> QED BY <2>1, <2>2
<1> QED BY <1>5, <1>6, <1>7

(***************************************************************************)
(* partD_a.                                                                *)
(***************************************************************************)
(* Drawing a number and sleeping touch no queue.                           *)
LEMMA DrawStep ==
  ASSUME IInv, Draw \/ Wake
  PROVE  IInv'
<1> USE DEF IInv
<1>1. PICK l \in {"send", "draw"} :
        /\ st[1] \in {"draw", "asleep"} /\ st' = [st EXCEPT ![1] = l]
        /\ UNCHANGED <<status, main, queue, hand, pos, shown, count>>
  BY DEF Draw, Wake, Goto
<1>2. drawn' \in 0..Size /\ cell' \in [base : 0..Size, off : Int] /\ late' \in {0, 1}
  <2>1. CASE Draw
    <3>1. drawn + 1 \in 0..Size
      BY <2>1, Parameters DEF Draw, TypeOK
    <3>2. late' \in {0, 1}
      BY <2>1 DEF Draw, TypeOK
    <3> QED BY <2>1, <3>1, <3>2 DEF Draw
  <2>2. CASE Wake
    BY <2>2 DEF Wake, TypeOK
  <2> QED BY <2>1, <2>2
<1>3. /\ TypeOK' /\ Roles' /\ Creation' /\ Joined'
      /\ st'[1] = l /\ \A j \in AO \ {1} : st'[j] = st[j]
  <2>1. queue' \in [AO -> Seq(Item)] /\ 1 \in AO
    BY <1>1, Neighbours DEF TypeOK
  <2> QED BY <1>1, <1>2, <2>1, OwnStep
<1>4. FirstObject'
  BY <1>1, <1>3 DEF FirstObject, main
<1>5. ControlBlockConfined'
  BY <1>1 DEF ControlBlockConfined
<1>6. SentinelLast'
  <2>1. queue' = queue
    BY <1>1
  <2>2. \A j \in AO : /\ st'[j] \in {"last", "ended"} => st[j] \in {"last", "ended"}
                      /\ st[j] = "ended" => st'[j] = "ended"
    BY <1>1, <1>3
  <2> QED BY <2>1, <2>2, StillMarked
<1> QED BY <1>3, <1>4, <1>5, <1>6

(* The address of the number goes to ao_2.                                 *)
LEMMA SendStep ==
  ASSUME IInv, Send
  PROVE  IInv'
<1> USE DEF IInv
<1>1. CASE obj[2] = "null"
  <2>1. UNCHANGED <<main, queue, thread>> /\ status' = "crashed"
    BY <1>1 DEF Send, Crash, thread
  <2>2. TypeOK' /\ Roles' /\ Creation' /\ FirstObject' /\ Joined'
    BY <2>1 DEF main, thread, TypeOK, Roles, Creation, FirstObject, Joined
  <2>3. ControlBlockConfined' /\ SentinelLast'
    BY <2>1 DEF main, thread, ControlBlockConfined, SentinelLast
  <2> QED BY <2>2, <2>3
<1>2. CASE obj[2] # "null"
  <2>1. /\ st[1] = "send" /\ Put(1 + 1, Num) /\ st' = [st EXCEPT ![1] = "asleep"]
        /\ UNCHANGED <<status, main, hand, pos, drawn, cell, shown, late, count>>
    BY <1>2 DEF Send, Goto
  <2>2. 1 \in AO /\ 1 + 1 \in AO /\ Num \in Item \ {Block} /\ Num # NULL
    BY Neighbours, Parameters DEF Item
  <2>3. /\ queue' \in [AO -> Seq(Item)] /\ queue'[1] = queue[1]
        /\ ControlBlockConfined' /\ SentinelLast'
    BY <2>1, <2>2, PutStep
  <2>4. /\ TypeOK' /\ Roles' /\ Creation' /\ Joined'
        /\ st'[1] = "asleep" /\ \A j \in AO \ {1} : st'[j] = st[j]
    <3>1. drawn' \in 0..Size /\ cell' \in [base : 0..Size, off : Int] /\ late' \in {0, 1}
      BY <2>1 DEF TypeOK
    <3> QED BY <2>1, <2>2, <2>3, <3>1, OwnStep
  <2>5. FirstObject'
    BY <2>1, <2>3, <2>4 DEF FirstObject, main
  <2> QED BY <2>3, <2>4, <2>5
<1> QED BY <1>1, <1>2

(* The end mark that ao_1 sends itself when its control block is used up.  *)
LEMMA FinishStep ==
  ASSUME IInv, Finish
  PROVE  IInv'
<1> USE DEF IInv
<1>1. /\ st[1] = "draw" /\ queue[1] = <<>> /\ flag[1] = 1
      /\ mainPc \notin {"create", "flag", "feed"}
  BY DEF Finish, FirstObject
<1>2. /\ queue' = [queue EXCEPT ![1] = <<NULL>>] /\ cell' = Dead
      /\ st' = [st EXCEPT ![1] = "forward"]
      /\ UNCHANGED <<status, main, hand, pos, drawn, shown, late, count>>
  <2>1. Append(queue[1], NULL) = <<NULL>>
    BY <1>1
  <2> QED BY <2>1 DEF Finish, Put, Goto
<1>3. queue'[1] = <<NULL>> /\ \A j \in AO \ {1} : queue'[j] = queue[j]
  BY <1>2, Neighbours DEF TypeOK
<1>4. /\ Creation' /\ Joined' /\ st'[1] = "forward"
      /\ \A j \in AO \ {1} : st'[j] = st[j]
  BY <1>1, <1>2, Neighbours, ThreadFrame
<1>5. TypeOK'
  <2>1. NULL \in Item
    BY DEF Item
  <2>2. <<NULL>> \in Seq(Item)
    BY <2>1
  <2>3. queue' \in [AO -> Seq(Item)]
    BY <1>2, <2>2 DEF TypeOK
  <2>4. cell' \in [base : 0..Size, off : Int]
    BY <1>2, Parameters DEF Dead
  <2> QED BY <1>2, <2>3, <2>4 DEF TypeOK, main
<1>6. Roles'
  BY <1>2, <1>4 DEF Roles
<1>7. FirstObject'
  BY <1>1, <1>2, <1>3, <1>4 DEF FirstObject, main
<1>8. ControlBlockConfined'
  BY <1>2, <1>3 DEF ControlBlockConfined
<1>9. SentinelLast'
  <2>1. /\ \A i \in 1..Len(queue'[1]) : queue'[1][i] = NULL => i = Len(queue'[1])
        /\ st'[1] \notin {"last", "ended"}
    BY <1>3, <1>4
  <2>2. \A j \in AO \ {1} : queue'[j] = queue[j] /\ st'[j] = st[j]
    BY <1>3, <1>4
  <2>3. \A j \in AO : j > 1 /\ st[j - 1] = "ended" => st'[j - 1] = "ended"
    BY <1>1, <1>4, Neighbours
  <2> QED BY <2>1, <2>2, <2>3, Neighbours DEF SentinelLast
<1> QED BY <1>4, <1>5, <1>6, <1>7, <1>8, <1>9

(***************************************************************************)
(* The theorems.                                                           *)
(***************************************************************************)
(* The invariant is inductive. *)
LEMMA NextIInv == IInv /\ [Next]_vars => IInv'
<1> SUFFICES ASSUME IInv, [Next]_vars PROVE IInv'
  OBVIOUS
<1>1. CASE Main
  BY <1>1, CreateStep, MainStep, FeedStep DEF Main
<1>2. CASE OutOfMemory
  BY <1>2, MainStep
<1>3. ASSUME NEW k \in AO, Stage(k) PROVE IInv'
  <2>1. CASE Dequeue(k)
    BY <2>1, DequeueStep
  <2>2. CASE Work(k)
    BY <2>2, WorkStep
  <2>3. CASE Forward(k) \/ Last(k)
    BY <2>3, HandOnStep
  <2>4. CASE Draw \/ Wake
    BY <2>4, DrawStep
  <2>5. CASE Send
    BY <2>5, SendStep
  <2>6. CASE Finish
    BY <2>6, FinishStep
  <2> QED BY <1>3, <2>1, <2>2, <2>3, <2>4, <2>5, <2>6 DEF Stage
<1>4. CASE UNCHANGED vars
  <2>1. TypeOK' /\ Roles' /\ Creation'
    BY <1>4 DEF vars, IInv, TypeOK, Roles, Creation
  <2>2. FirstObject' /\ Joined'
    BY <1>4 DEF vars, IInv, FirstObject, Joined
  <2>3. ControlBlockConfined' /\ SentinelLast'
    BY <1>4 DEF vars, IInv, ControlBlockConfined, SentinelLast
  <2> QED BY <2>1, <2>2, <2>3 DEF IInv
<1> QED BY <1>1, <1>2, <1>3, <1>4 DEF Next

(* The active objects keep the inductive invariant at every step of main   *)
(* and of all threads (activeobject.c, st_pipeline.c).                     *)
THEOREM Invariance == Spec => []IInv
  BY InitIInv, NextIInv, PTL DEF Spec

(* The control block of ao_1 never reaches another object's function,      *)
(* although ao_1 may run before main has set its flag (st_pipeline.c:92-95,*)
(* activeobject.c:12).                                                     *)
THEOREM Confinement == Spec => []ControlBlockConfined
<1>1. IInv => ControlBlockConfined
  BY DEF IInv
<1> QED BY <1>1, Invariance, PTL

(* The end mark is the last item that an object gets (activeobject.c:9-18).*)
THEOREM SentinelSafety == Spec => []SentinelLast
<1>1. IInv => SentinelLast
  BY DEF IInv
<1> QED BY <1>1, Invariance, PTL

(* Main deletes an object's queue, and frees the object, only when its     *)
(* thread has ended, the queue is empty and nobody can enqueue to it any   *)
(* more (st_pipeline.c:97-104, activeobject.c:41-48).                      *)
THEOREM FreeSafety == Spec => []FreedSafe
<1>1. IInv => FreedSafe
  <2> SUFFICES ASSUME IInv, NEW k \in AO, Deleting(k) \/ obj[k] = "freed"
               PROVE  /\ st[k] = "ended" /\ queue[k] = <<>>
                      /\ k > 1 => st[k - 1] = "ended"
    BY DEF FreedSafe
  <2>1. \A j \in AO : st[j] = "ended"
    BY DEF IInv, Creation, Joined, Deleting
  <2>2. queue[k] = <<>>
    BY <2>1 DEF IInv, SentinelLast
  <2> QED BY <2>1, <2>2, Neighbours
<1> QED BY <1>1, Invariance, PTL

(***************************************************************************)
(* The numbers that are on their way.                                      *)
(***************************************************************************)
(* The numbers in a queue, whose last item may be the end mark.            *)
Nums(q) == IF q # <<>> /\ q[Len(q)] = NULL THEN Len(q) - 1 ELSE Len(q)

(* The numbers that have reached object k, and those it has handed on.     *)
In(k) == count[k] + Nums(queue[k]) + (IF st[k] = "work" THEN 1 ELSE 0)
Out(k) ==
  IF k = 1 THEN drawn - (IF st[1] = "send" THEN 1 ELSE 0)
  ELSE IF flag[k] = 1 THEN 0
  ELSE count[k] - (IF st[k] = "forward" THEN 1 ELSE 0)

(* Nothing moves before the control block is there.                        *)
Early == mainPc \in {"create", "flag", "feed"}
Still ==
  Early =>
    drawn = 0 /\ \A k \in AO : st[k] \in {"none", "dequeue"} /\ queue[k] = <<>> /\ count[k] = 0

Flow == \A k \in AO \ {1} : st[k] # "none" => In(k) = Out(k - 1)

Expected(k) == IF \E j \in 2..(k - 1) : flag[j] = 1 THEN 0 ELSE Size

Ends ==
  /\ Holds(queue[1], NULL) \/ st[1] \in {"forward", "last", "ended"} => drawn = Size
  /\ \A k \in AO \ {1} : st[k] \in {"last", "ended"} => count[k] = Expected(k)

Counting == Still /\ Flow /\ Ends

LEMMA NumsPut ==
  ASSUME NEW q \in Seq(Item), ~Holds(q, NULL)
  PROVE  /\ Nums(Append(q, Num)) = Nums(q) + 1 /\ Nums(Append(q, NULL)) = Nums(q)
         /\ Nums(q) \in Nat
<1>1. /\ Len(q) \in Nat /\ NULL # Num
      /\ \A x \in Item : /\ Append(q, x) # <<>> /\ Len(Append(q, x)) = Len(q) + 1
                         /\ Append(q, x)[Len(q) + 1] = x
  BY Parameters, AppendProperties
<1>2. Nums(q) = Len(q)
  <2>1. q # <<>> => Len(q) \in 1..Len(q)
    BY EmptySeq, LenProperties
  <2> QED BY <2>1 DEF Nums, Holds
<1>3. NULL \in Item /\ Num \in Item
  BY DEF Item
<1> QED BY <1>1, <1>2, <1>3 DEF Nums

LEMMA NumsTail ==
  ASSUME NEW q \in Seq(Item), q # <<>>, \A i \in 1..Len(q) : q[i] = NULL => i = Len(q)
  PROVE  /\ Head(q) = NULL => Nums(q) = 0 /\ Nums(Tail(q)) = 0
         /\ Head(q) # NULL => Nums(q) = Nums(Tail(q)) + 1
<1> DEFINE t == Tail(q)
<1>1. /\ t \in Seq(Item) /\ Len(t) = Len(q) - 1 /\ Len(q) \in Nat /\ Len(q) > 0
      /\ q[1] = Head(q)
      /\ \A i \in 1..Len(t) : t[i] = q[i + 1]
  BY HoldsTail
<1> HIDE DEF t
<1>2. t # <<>> <=> Len(t) > 0
  BY <1>1, EmptySeq, LenProperties
<1>3. CASE Head(q) = NULL
  <2>1. Len(q) = 1 /\ Len(t) = 0
    <3>1. 1 \in 1..Len(q)
      BY <1>1
    <3> QED BY <1>1, <1>3, <3>1
  <2>2. t = <<>>
    BY <1>2, <2>1
  <2>3. Nums(t) = 0
    BY <2>1, <2>2 DEF Nums
  <2>4. Nums(q) = 0
    BY <1>1, <1>3, <2>1 DEF Nums
  <2> QED BY <1>3, <2>3, <2>4 DEF t
<1>4. CASE Head(q) # NULL
  <2>1. CASE Len(q) = 1
    <3>1. t = <<>> /\ Len(t) = 0
      BY <1>1, <1>2, <2>1
    <3>2. Nums(t) = 0
      BY <3>1 DEF Nums
    <3>3. Nums(q) = 1
      BY <1>1, <1>4, <2>1 DEF Nums
    <3> QED BY <1>4, <3>2, <3>3 DEF t
  <2>2. CASE Len(q) # 1
    <3>1. Len(t) \in 1..Len(t) /\ Len(t) + 1 = Len(q) /\ Len(t) > 0 /\ Len(t) \in Nat
      BY <1>1, <2>2
    <3>2. t[Len(t)] = q[Len(q)]
      BY <1>1, <3>1
    <3>3. t # <<>> /\ q # <<>>
      BY <1>2, <3>1
    <3>4. Nums(q) = Nums(t) + 1
      BY <3>1, <3>2, <3>3 DEF Nums
    <3> QED BY <1>4, <3>4 DEF t
  <2> QED BY <2>1, <2>2
<1> QED BY <1>3, <1>4

(* The numbers are integers. *)
LEMMA CountTypes ==
  ASSUME TypeOK, NEW k \in AO
  PROVE  In(k) \in Int /\ Out(k) \in Int /\ Nums(queue[k]) \in Int
<1>1. queue[k] \in Seq(Item) /\ Len(queue[k]) \in Nat /\ count[k] \in Nat
  BY LenProperties DEF TypeOK
<1>2. Nums(queue[k]) \in Int
  BY <1>1 DEF Nums
<1>3. drawn \in Nat
  BY Parameters DEF TypeOK
<1> QED BY <1>1, <1>2, <1>3 DEF In, Out

(* A step of one object leaves what the others have got and handed on.     *)
LEMMA Others ==
  ASSUME NEW j \in AO, st'[j] = st[j], count'[j] = count[j], flag' = flag, drawn' = drawn
  PROVE  /\ queue'[j] = queue[j] => In(j)' = In(j)
         /\ Out(j)' = Out(j)
<1>1. queue'[j] = queue[j] => In(j)' = In(j)
  BY DEF In
<1>2. Out(j)' = Out(j)
  <2>1. CASE j = 1
    BY <2>1 DEF Out
  <2>2. CASE j # 1
    BY <2>2 DEF Out
  <2> QED BY <2>1, <2>2
<1> QED BY <1>1, <1>2

(* Before the control block is there, all numbers are zero.                *)
LEMMA StillCounts ==
  TypeOK /\ Still /\ Early => Flow /\ Ends
<1> SUFFICES ASSUME TypeOK, Still, Early
             PROVE  Flow /\ Ends
  OBVIOUS
<1>1. \A k \in AO : In(k) = 0
  BY DEF Still, In, Nums
<1>2. \A k \in AO : Out(k) = 0
  BY Neighbours DEF Still, Out
<1>3. ~Holds(queue[1], NULL)
  BY Neighbours DEF Still, Holds
<1> QED BY <1>1, <1>2, <1>3, Neighbours DEF Flow, Ends, Still

LEMMA StillCountsNext ==
  TypeOK' /\ Still' /\ Early' => Flow' /\ Ends'
  BY StillCounts, PTL

LEMMA InitCounting == Init => Counting
<1> SUFFICES ASSUME Init
             PROVE  Counting
  OBVIOUS
<1>1. TypeOK
  BY InitIInv DEF IInv
<1>2. Still /\ Early
  BY DEF Init, Still, Early
<1> QED BY <1>1, <1>2, StillCounts DEF Counting

LEMMA MainCounting ==
  ASSUME IInv, IInv', Counting, Main \/ OutOfMemory
  PROVE  Counting'
<1> USE DEF IInv, Counting
<1>1. CASE Create \/ CreateFails \/ SetFlag
  <2>1. /\ mainPc \in {"create", "flag"} /\ mainPc' \in {"create", "flag", "feed"}
        /\ UNCHANGED <<queue, drawn, count>>
        /\ st' = st \/ st' = [st EXCEPT ![mainK] = "dequeue"]
    BY <1>1 DEF Create, CreateFails, SetFlag, Created, Goto, thread
  <2>2. \A k \in AO : st'[k] = st[k] \/ st'[k] = "dequeue"
    BY <2>1 DEF TypeOK
  <2>3. Still' /\ Early'
    BY <2>1, <2>2 DEF Still, Early
  <2> QED BY <2>3, StillCountsNext
<1>2. CASE Feed
  <2>1. /\ mainPc = "feed" /\ mainPc' = "join" /\ UNCHANGED <<flag, st, drawn, count>>
        /\ queue' = [queue EXCEPT ![1] = Append(@, Block)]
    BY <1>2 DEF Feed, Put, thread
  <2>2. \A k \in AO \ {1} : queue'[k] = queue[k]
    BY <2>1 DEF TypeOK
  <2>3. st[1] \notin {"forward", "last", "ended"} /\ ~Holds(queue'[1], NULL)
    <3>0. Early /\ st[1] \in {"none", "dequeue"}
      BY <2>1, Neighbours DEF Still, Early
    <3>1. queue[1] = <<>> /\ queue[1] \in Seq(Item) /\ Block \in Item /\ NULL \in Item
      BY <3>0, Neighbours DEF Still, TypeOK, Item
    <3>2. ~Holds(queue[1], NULL)
      BY <3>1 DEF Holds
    <3>3. queue'[1] = Append(queue[1], Block)
      BY <2>1, Neighbours DEF TypeOK
    <3>4. ~Holds(queue'[1], NULL)
      <4> HIDE DEF IInv, Counting
      <4>1. Holds(Append(queue[1], Block), NULL) <=> Holds(queue[1], NULL) \/ Block = NULL
        BY <3>1, HoldsAppend
      <4> QED BY <3>2, <3>3, <4>1, Parameters
    <3> QED BY <3>0, <3>4
  <2>4. \A k \in AO \ {1} : In(k)' = In(k)
    BY <2>1, <2>2 DEF In
  <2>5. \A k \in AO : Out(k)' = Out(k)
    BY <2>1 DEF Out
  <2>6. Flow'
    BY <2>1, <2>4, <2>5, Neighbours DEF Flow
  <2> QED BY <2>1, <2>3, <2>6 DEF Still, Early, Ends, Expected
<1>3. CASE Join \/ Stop \/ Return \/ OutOfMemory
  <2>1. /\ UNCHANGED <<queue, st, flag, drawn, count>>
        /\ mainPc' \in {"create", "flag", "feed"} => mainPc' = mainPc
    BY <1>3 DEF Join, Stop, Return, OutOfMemory, Advance, thread, main
  <2>2. \A k \in AO : In(k)' = In(k) /\ Out(k)' = Out(k)
    BY <2>1 DEF In, Out
  <2>3. Still'
    BY <2>1 DEF Still, Early
  <2>4. Flow'
    BY <2>1, <2>2, Neighbours DEF Flow
  <2>5. Ends'
    BY <2>1 DEF Ends, Expected
  <2> QED BY <2>3, <2>4, <2>5
<1> QED BY <1>1, <1>2, <1>3 DEF Main

(* The threads move only after main has fed the first object.              *)
LEMMA StageLate ==
  ASSUME TypeOK, Still, NEW k \in AO, Stage(k)
  PROVE  ~Early /\ UNCHANGED <<mainPc, obj, flag>> /\ Still'
<1>1. UNCHANGED <<mainPc, obj, flag>>
  BY DEF Stage, Dequeue, Work, Forward, Last, Draw, Send, Wake, Finish, main
<1>2. ~(st[k] \in {"none", "dequeue"} /\ queue[k] = <<>>)
  BY DEF Stage, Dequeue, Work, Forward, Last, Draw, Send, Wake, Finish
<1>3. ~Early
  BY <1>2 DEF Still
<1> QED BY <1>1, <1>3 DEF Still, Early

(* A step that neither hands on nor loses a number.                        *)
LEMMA FlowKept ==
  ASSUME Flow, \A j \in AO : Out(j)' = Out(j),
         \A j \in AO \ {1} : In(j)' = In(j) /\ (st'[j] # "none" => st[j] # "none")
  PROVE  Flow'
BY Neighbours DEF Flow

(* An object that takes the end mark has got all that was handed on to it. *)
LEMMA MarkTaken ==
  ASSUME IInv, Counting, NEW k \in AO \ {1}, st[k] = "dequeue",
         Holds(queue[k], NULL), Nums(queue[k]) = 0
  PROVE  count[k] = Expected(k)
<1> USE DEF IInv, Counting
<1>1. k - 1 \in AO /\ k \in Nat /\ k > 1 /\ k - 1 \in Nat
  <2>1. k \in Nat /\ k >= 1 /\ k # 1 /\ k - 1 \in AO
    BY Neighbours
  <2> QED BY <2>1
<1>2. st[k - 1] = "ended"
  BY <1>1 DEF SentinelLast
<1>3. count[k] = Out(k - 1)
  <2>1. In(k) = Out(k - 1)
    BY DEF Flow
  <2>2. count[k] \in Nat
    BY DEF TypeOK
  <2> QED BY <2>1, <2>2 DEF In
<1>4. CASE k = 2
  <2>1. drawn = Size /\ drawn \in Nat
    BY <1>2, <1>4, Parameters DEF Ends
  <2>2. Out(k - 1) = Size
    BY <1>2, <1>4, <2>1 DEF Out
  <2> QED BY <1>3, <1>4, <2>2 DEF Expected
<1>5. CASE k # 2
  <2>1. k - 1 \in AO \ {1} /\ count[k - 1] \in Nat
    BY <1>1, <1>5 DEF TypeOK
  <2>2. count[k - 1] = Expected(k - 1)
    BY <1>2, <2>1 DEF Ends
  <2>3. Out(k - 1) = IF flag[k - 1] = 1 THEN 0 ELSE Expected(k - 1)
    BY <1>2, <2>1, <2>2 DEF Out
  <2>4. (\E j \in 2..(k - 1) : flag[j] = 1)
          <=> flag[k - 1] = 1 \/ \E j \in 2..(k - 1 - 1) : flag[j] = 1
    <3>1. 2..(k - 1) = (2..(k - 1 - 1)) \cup {k - 1}
      BY <1>1, <1>5
    <3> QED BY <3>1
  <2> QED BY <1>3, <2>3, <2>4 DEF Expected
<1> QED BY <1>4, <1>5

LEMMA DequeueCounting ==
  ASSUME IInv, Counting, NEW k \in AO, Dequeue(k)
  PROVE  Counting'
<1> USE DEF IInv, Counting
<1>1. Still' /\ UNCHANGED <<flag, drawn, count>>
  BY StageLate DEF Stage, Dequeue, main
<1> DEFINE q == queue[k]  x == Head(q)
<1>2. /\ q \in Seq(Item) /\ q # <<>> /\ st[k] = "dequeue"
      /\ queue' = [queue EXCEPT ![k] = Tail(q)]
      /\ st' = [st EXCEPT ![k] =
                  IF x = NULL THEN "last" ELSE IF k = 1 THEN "draw" ELSE "work"]
  BY DEF Dequeue, Goto, TypeOK
<1>3. /\ queue'[k] = Tail(q)
      /\ st'[k] = IF x = NULL THEN "last" ELSE IF k = 1 THEN "draw" ELSE "work"
      /\ \A j \in AO : j # k => queue'[j] = queue[j] /\ st'[j] = st[j]
  BY <1>2 DEF TypeOK
<1>4. /\ x = NULL => Nums(q) = 0 /\ Nums(Tail(q)) = 0
      /\ x # NULL => Nums(q) = Nums(Tail(q)) + 1
      /\ Nums(q) \in Int /\ Nums(Tail(q)) \in Int
  <2>1. \A i \in 1..Len(q) : q[i] = NULL => i = Len(q)
    BY DEF SentinelLast
  <2>2. Nums(q) \in Int
    BY CountTypes
  <2>3. Tail(q) \in Seq(Item) /\ Len(Tail(q)) \in Nat
    BY <1>2, HoldsTail, LenProperties
  <2>4. Nums(Tail(q)) \in Int
    BY <2>3 DEF Nums
  <2> HIDE DEF q
  <2> QED BY <1>2, <2>1, <2>2, <2>4, NumsTail
<1>5. Holds(Tail(q), NULL) \/ x = NULL => Holds(q, NULL)
  BY <1>2, HoldsTail
<1>6. k # 1 => In(k)' = In(k)
  <2>1. count[k] \in Nat
    BY DEF TypeOK
  <2> HIDE DEF q
  <2> QED BY <1>1, <1>2, <1>3, <1>4, <2>1 DEF In, q
<1>7. Out(k)' = Out(k)
  <2>1. CASE k = 1
    BY <1>1, <1>2, <1>3, <2>1 DEF Out
  <2>2. CASE k # 1
    BY <1>1, <1>2, <1>3, <2>2 DEF Out
  <2> QED BY <2>1, <2>2
<1>8. Flow'
  <2>1. \A j \in AO : j # k => In(j)' = In(j) /\ Out(j)' = Out(j)
    BY <1>1, <1>3, Others
  <2>2. \A j \in AO : st'[j] # "none" => st[j] # "none"
    BY <1>2, <1>3
  <2> QED BY <1>6, <1>7, <2>1, <2>2, FlowKept
<1>9. Ends'
  <2>1. Holds(queue'[1], NULL) \/ st'[1] \in {"forward", "last", "ended"}
          => Holds(queue[1], NULL) \/ st[1] \in {"forward", "last", "ended"}
    <3>1. CASE k = 1
      BY <1>3, <1>5, <3>1
    <3>2. CASE k # 1
      BY <1>3, <3>2, Neighbours
    <3> QED BY <3>1, <3>2
  <2>2. ASSUME NEW j \in AO \ {1}, st'[j] \in {"last", "ended"}
        PROVE  count[j] = Expected(j)
    <3>1. CASE j = k
      BY <1>2, <1>3, <1>4, <1>5, <2>2, <3>1, MarkTaken
    <3>2. CASE j # k
      BY <1>3, <2>2, <3>2 DEF Ends
    <3> QED BY <3>1, <3>2
  <2> QED BY <1>1, <2>1, <2>2 DEF Ends, Expected
<1> QED BY <1>1, <1>8, <1>9

LEMMA WorkCounting ==
  ASSUME IInv, Counting, NEW k \in AO, Work(k)
  PROVE  Counting'
<1> USE DEF IInv, Counting
<1>1. Still' /\ UNCHANGED <<flag, drawn, queue>> /\ st[k] = "work" /\ k # 1
  BY StageLate DEF Stage, Work, main, Roles
<1>2. \/ UNCHANGED <<st, count>>
      \/ /\ st' = [st EXCEPT ![k] = "forward"]
         /\ count' = [count EXCEPT ![k] = @ + 1]
  BY DEF Work, Goto
<1>3. \A j \in AO : j # k => st'[j] = st[j] /\ count'[j] = count[j]
  BY <1>2 DEF TypeOK
<1>4. \/ st'[k] = "work" /\ count'[k] = count[k]
      \/ st'[k] = "forward" /\ count'[k] = count[k] + 1
  BY <1>1, <1>2 DEF TypeOK
<1>5. count[k] \in Nat /\ Nums(queue[k]) \in Int
  BY CountTypes DEF TypeOK
<1>6. In(k)' = In(k)
  BY <1>1, <1>4, <1>5 DEF In
<1>7. Out(k)' = Out(k)
  BY <1>1, <1>4, <1>5 DEF Out
<1>8. Flow'
  <2>1. \A j \in AO : j # k => In(j)' = In(j) /\ Out(j)' = Out(j)
    BY <1>1, <1>3, Others
  <2>2. \A j \in AO : st'[j] # "none" => st[j] # "none"
    BY <1>1, <1>3
  <2> QED BY <1>6, <1>7, <2>1, <2>2, FlowKept
<1>9. Ends'
  <2>1. ASSUME NEW j \in AO \ {1}, st'[j] \in {"last", "ended"}
        PROVE  count'[j] = Expected(j)
    BY <1>3, <1>4, <2>1 DEF Ends
  <2>2. queue'[1] = queue[1] /\ st'[1] = st[1]
    BY <1>1, <1>3, Neighbours
  <2> QED BY <1>1, <2>1, <2>2 DEF Ends, Expected
<1> QED BY <1>1, <1>8, <1>9

(* The queue of the next object gets a number or the end mark.             *)
LEMMA NextGets ==
  ASSUME IInv, NEW k \in AO, k # N, st[k] # "ended"
  PROVE  /\ k + 1 \in AO \ {1} /\ k + 1 # k /\ queue[k + 1] \in Seq(Item)
         /\ ~Holds(queue[k + 1], NULL) /\ st[k + 1] \notin {"last", "ended"}
         /\ Nums(Append(queue[k + 1], Num)) = Nums(queue[k + 1]) + 1
         /\ Nums(Append(queue[k + 1], NULL)) = Nums(queue[k + 1])
<1> USE DEF IInv
<1>1. k + 1 \in AO /\ k + 1 > 1 /\ (k + 1) - 1 = k /\ k + 1 # k /\ k + 1 # 1
  BY Neighbours
<1>2. queue[k + 1] \in Seq(Item)
  BY <1>1 DEF TypeOK
<1>3. ~Holds(queue[k + 1], NULL) /\ st[k + 1] \notin {"last", "ended"}
  BY <1>1 DEF SentinelLast
<1> QED BY <1>1, <1>2, <1>3, NumsPut

(* One object puts a number into the next one's queue.                     *)
LEMMA HandOver ==
  ASSUME IInv, Flow, NEW k \in AO, k # N, st[k] # "ended",
         queue' = [queue EXCEPT ![k + 1] = Append(@, Num)],
         flag' = flag, drawn' = drawn, count' = count,
         \A j \in AO : j # k => st'[j] = st[j],
         Out(k)' = Out(k) + 1, k # 1 => In(k)' = In(k), st[k] # "none"
  PROVE  Flow'
<1>1. /\ k + 1 \in AO \ {1} /\ k + 1 # k /\ queue[k + 1] \in Seq(Item)
      /\ Nums(Append(queue[k + 1], Num)) = Nums(queue[k + 1]) + 1
  BY NextGets
<1>2. /\ queue'[k + 1] = Append(queue[k + 1], Num)
      /\ \A j \in AO : j # k + 1 => queue'[j] = queue[j]
  BY <1>1 DEF IInv, TypeOK
<1>3. In(k + 1)' = In(k + 1) + 1
  <2>1. count[k + 1] \in Nat /\ Nums(queue[k + 1]) \in Int
    BY <1>1, CountTypes DEF IInv, TypeOK
  <2> QED BY SMTT(20), <1>1, <1>2, <2>1 DEF In
<1>4. \A j \in AO : j # k => Out(j)' = Out(j) /\ (j # k + 1 => In(j)' = In(j))
  BY <1>2, Others
<1> SUFFICES ASSUME NEW j \in AO \ {1}, st'[j] # "none" PROVE In(j)' = Out(j - 1)'
  BY DEF Flow
<1>5. st[j] # "none" /\ j - 1 \in AO /\ j \in Nat /\ k \in Nat
  BY Neighbours
<1>6. In(j) = Out(j - 1)
  BY <1>5 DEF Flow
<1>7. CASE j = k + 1
  <2>1. j - 1 = k
    BY <1>5, <1>7
  <2> QED BY <1>3, <1>6, <1>7, <2>1
<1>8. CASE j # k + 1
  <2>1. j - 1 # k
    BY <1>5, <1>8
  <2>2. In(j)' = In(j)
    BY <1>4, <1>8
  <2> QED BY <1>4, <1>5, <1>6, <2>1, <2>2
<1> QED BY <1>7, <1>8

LEMMA ForwardCounting ==
  ASSUME IInv, Counting, NEW k \in AO, Forward(k)
  PROVE  Counting'
<1> USE DEF IInv, Counting
<1>1. /\ Still' /\ ~Early /\ UNCHANGED <<flag, obj, drawn, count>>
      /\ st[k] = "forward" /\ st' = [st EXCEPT ![k] = "dequeue"]
  BY StageLate DEF Stage, Forward, main, Goto
<1>2. st'[k] = "dequeue" /\ \A j \in AO : j # k => st'[j] = st[j]
  BY <1>1 DEF TypeOK
<1>3. count[k] \in Nat
  BY DEF TypeOK
<1>4. k = 1 => flag[k] = 1
  BY <1>1 DEF FirstObject, Early
<1>5. CASE UNCHANGED queue /\ (flag[k] = 1 \/ k = N)
  <2>1. \A j \in AO : j # k => In(j)' = In(j) /\ Out(j)' = Out(j)
    BY <1>1, <1>2, <1>5, Others
  <2>2. In(k)' = In(k)
    BY <1>1, <1>2, <1>5 DEF In
  <2>3. CASE flag[k] = 1
    <3>1. Out(k)' = Out(k)
      <4>1. CASE k = 1
        BY <1>1, <1>2, <4>1 DEF Out
      <4>2. CASE k # 1
        BY <1>1, <2>3, <4>2 DEF Out
      <4> QED BY <4>1, <4>2
    <3>2. \A j \in AO : st'[j] # "none" => st[j] # "none"
      BY <1>1, <1>2
    <3>3. Flow'
      BY <2>1, <2>2, <3>1, <3>2, FlowKept
    <3>4. Ends'
      BY <1>1, <1>2, <1>5, Neighbours DEF Ends, Expected
    <3> QED BY <1>1, <3>3, <3>4
  <2>4. CASE k = N
    <3>1. ASSUME NEW j \in AO \ {1} PROVE j - 1 \in AO /\ j - 1 # k
      BY <2>4, Neighbours
    <3>2. \A j \in AO : st'[j] # "none" => st[j] # "none"
      BY <1>1, <1>2
    <3>3. Flow'
      BY <2>1, <2>2, <3>1, <3>2 DEF Flow
    <3>4. Ends'
      BY <1>1, <1>2, <1>5, Neighbours DEF Ends, Expected
    <3> QED BY <1>1, <3>3, <3>4
  <2> QED BY <1>5, <2>3, <2>4
<1>6. CASE UNCHANGED queue /\ k # N /\ flag[k] # 1 /\ obj[k + 1] = "null"
  <2>1. \A j \in AO : j # k => In(j)' = In(j) /\ Out(j)' = Out(j)
    BY <1>1, <1>2, <1>6, Others
  <2>2. In(k)' = In(k)
    BY <1>1, <1>2, <1>6 DEF In
  <2>3. k + 1 \in AO /\ k + 1 # k /\ st[k + 1] = "none" /\ k \in Nat
    BY <1>6, Neighbours DEF Creation
  <2>4. Flow'
    <3> SUFFICES ASSUME NEW j \in AO \ {1}, st'[j] # "none" PROVE In(j)' = Out(j - 1)'
      BY DEF Flow
    <3>1. st[j] # "none" /\ j - 1 \in AO /\ j \in Nat /\ j # k + 1
      BY <1>1, <1>2, <2>3, Neighbours
    <3>2. j - 1 # k
      BY <2>3, <3>1
    <3> QED BY <2>1, <2>2, <3>1, <3>2 DEF Flow
  <2>5. Ends'
    BY <1>1, <1>2, <1>6, Neighbours DEF Ends, Expected
  <2> QED BY <1>1, <2>4, <2>5
<1>7. CASE /\ k # N /\ flag[k] # 1
           /\ queue' = [queue EXCEPT ![k + 1] = Append(@, hand[k])]
  <2>1. hand[k] = Num /\ k # 1
    BY <1>1, <1>4, <1>7 DEF Roles
  <2>2. k + 1 \in AO \ {1} /\ k + 1 # k
    BY <1>1, <1>7, NextGets
  <2>3. queue'[k] = queue[k] /\ queue'[1] = queue[1]
    BY <1>7, <2>2, Neighbours DEF TypeOK
  <2>4. In(k)' = In(k)
    BY <1>1, <1>2, <2>3 DEF In
  <2>5. Out(k)' = Out(k) + 1
    BY <1>1, <1>2, <1>3, <1>7, <2>1 DEF Out
  <2>6. Flow'
    BY <1>1, <1>2, <1>7, <2>1, <2>4, <2>5, HandOver
  <2>7. Ends'
    BY <1>1, <1>2, <2>1, <2>3, Neighbours DEF Ends, Expected
  <2> QED BY <1>1, <2>6, <2>7
<1>8. \/ UNCHANGED queue /\ (flag[k] = 1 \/ k = N)
      \/ UNCHANGED queue /\ k # N /\ flag[k] # 1 /\ obj[k + 1] = "null"
      \/ /\ k # N /\ flag[k] # 1
         /\ queue' = [queue EXCEPT ![k + 1] = Append(@, hand[k])]
  <2>1. k < N <=> k # N
    BY Neighbours, Parameters
  <2> QED BY <2>1 DEF Forward, Put, HasNext
<1> QED BY <1>5, <1>6, <1>7, <1>8

LEMMA LastCounting ==
  ASSUME IInv, Counting, NEW k \in AO, Last(k)
  PROVE  Counting'
<1> USE DEF IInv, Counting
<1>1. /\ Still' /\ UNCHANGED <<flag, obj, drawn, count>>
      /\ st[k] = "last" /\ st' = [st EXCEPT ![k] = "ended"]
  BY StageLate DEF Stage, Last, main, Goto
<1>2. st'[k] = "ended" /\ \A j \in AO : j # k => st'[j] = st[j]
  BY <1>1 DEF TypeOK
<1>3. /\ \A j \in AO : Nums(queue'[j]) = Nums(queue[j])
      /\ queue'[1] = queue[1]
  <2>1. CASE UNCHANGED queue
    BY <2>1
  <2>2. CASE k # N /\ queue' = [queue EXCEPT ![k + 1] = Append(@, NULL)]
    <3>1. /\ k + 1 \in AO \ {1} /\ k + 1 # k
          /\ Nums(Append(queue[k + 1], NULL)) = Nums(queue[k + 1])
      BY <1>1, <2>2, NextGets
    <3>2. queue'[k + 1] = Append(queue[k + 1], NULL)
      BY <2>2, <3>1 DEF TypeOK
    <3>3. \A j \in AO : j # k + 1 => queue'[j] = queue[j]
      BY <2>2, <3>1 DEF TypeOK
    <3>4. queue'[1] = queue[1]
      BY <3>1, <3>3, Neighbours
    <3>5. \A j \in AO : Nums(queue'[j]) = Nums(queue[j])
      BY <3>1, <3>2, <3>3
    <3> QED BY <3>4, <3>5
  <2> QED BY <2>1, <2>2, Neighbours DEF Last, Put, HasNext
<1>4. \A j \in AO : In(j)' = In(j)
  <2> SUFFICES ASSUME NEW j \in AO PROVE In(j)' = In(j)
    OBVIOUS
  <2>1. st'[j] = "work" <=> st[j] = "work"
    BY <1>1, <1>2
  <2>2. Nums(queue[j])' = Nums(queue[j])
    <3>1. Nums(queue'[j]) = Nums(queue[j])
      BY <1>3
    <3> QED BY <3>1 DEF Nums
  <2> QED BY <1>1, <2>1, <2>2 DEF In
<1>5. \A j \in AO : Out(j)' = Out(j)
  <2> SUFFICES ASSUME NEW j \in AO PROVE Out(j)' = Out(j)
    OBVIOUS
  <2>1. CASE j = k
    <3>1. CASE k = 1
      BY <1>1, <1>2, <2>1, <3>1 DEF Out
    <3>2. CASE k # 1
      BY <1>1, <1>2, <2>1, <3>2 DEF Out
    <3> QED BY <3>1, <3>2
  <2>2. CASE j # k
    BY <1>1, <1>2, <2>2, Others
  <2> QED BY <2>1, <2>2
<1>6. \A j \in AO : st'[j] # "none" => st[j] # "none"
  BY <1>1, <1>2
<1>7. Flow'
  BY <1>4, <1>5, <1>6, FlowKept
<1>8. Ends'
  <2>1. \A j \in AO : st'[j] \in {"last", "ended"} => st[j] \in {"last", "ended"}
    BY <1>1, <1>2
  <2>2. st'[1] \in {"forward", "last", "ended"} => st[1] \in {"forward", "last", "ended"}
    BY <1>1, <1>2, Neighbours
  <2> QED BY <1>1, <1>3, <2>1, <2>2 DEF Ends, Expected
<1> QED BY <1>1, <1>7, <1>8

(* partD_a: it draws, sends, sleeps and ends.                              *)
LEMMA FirstCounting ==
  ASSUME IInv, Counting, Draw \/ Send \/ Wake \/ Finish
  PROVE  Counting'
<1> USE DEF IInv, Counting
<1>1. /\ Still' /\ ~Early /\ UNCHANGED <<flag, obj, count>> /\ 1 \in AO /\ 1 # N
      /\ 1 + 1 = 2 /\ drawn \in Nat
  <2>1. 1 \in AO /\ Stage(1)
    BY Neighbours DEF Stage
  <2>2. Still' /\ ~Early /\ UNCHANGED <<flag, obj>>
    BY <2>1, StageLate
  <2>3. UNCHANGED count
    BY DEF Draw, Send, Wake, Finish
  <2> QED BY <2>1, <2>2, <2>3, Parameters DEF TypeOK
<1>2. /\ st[1] \in {"draw", "send", "asleep"}
      /\ \A j \in AO : j # 1 => st'[j] = st[j]
  BY DEF Draw, Send, Wake, Finish, Goto, TypeOK
<1>3. ~Holds(queue[1], NULL)
  BY <1>1, <1>2, Parameters DEF FirstObject, Early, Holds
<1>4. \A j \in AO \ {1} : queue'[j] = queue[j] => In(j)' = In(j)
  BY <1>1, <1>2 DEF In
<1>5. \A j \in AO \ {1} : Out(j)' = Out(j)
  BY <1>1, <1>2 DEF Out
<1>6. \A j \in AO \ {1} : st'[j] \in {"last", "ended"} => count'[j] = Expected(j)'
  BY <1>1, <1>2 DEF Ends, Expected
<1>7. CASE Draw
  <2>1. /\ st[1] = "draw" /\ st'[1] = "send" /\ drawn' = drawn + 1 /\ UNCHANGED queue
    BY <1>1, <1>7 DEF Draw, Goto, TypeOK
  <2>2. Out(1)' = Out(1)
    BY <1>1, <2>1 DEF Out
  <2>3. Flow'
    BY <1>2, <1>4, <1>5, <2>1, <2>2, FlowKept
  <2> QED BY <1>1, <1>3, <1>6, <2>1, <2>3 DEF Ends
<1>8. CASE Send
  <2>1. CASE st' = st /\ queue' = queue /\ drawn' = drawn
    <3>1. Out(1)' = Out(1)
      BY <2>1 DEF Out
    <3>2. Flow'
      BY <1>2, <1>4, <1>5, <2>1, <3>1, FlowKept
    <3> QED BY <1>1, <1>6, <2>1, <3>2 DEF Ends
  <2>2. CASE Put(2, Num) /\ Goto(1, "asleep") /\ drawn' = drawn
    <3>1. /\ queue' = [queue EXCEPT ![2] = Append(@, Num)] /\ st[1] = "send"
          /\ st'[1] = "asleep" /\ queue'[1] = queue[1]
      BY <1>1, <1>8, <2>2 DEF Send, Put, Goto, TypeOK
    <3>2. Out(1)' = Out(1) + 1
      BY <1>1, <2>2, <3>1 DEF Out
    <3>3. Flow'
      BY <1>1, <1>2, <2>2, <3>1, <3>2, HandOver
    <3> QED BY <1>1, <1>3, <1>6, <3>1, <3>3 DEF Ends
  <2> QED BY <1>8, <2>1, <2>2 DEF Send
<1>9. CASE Wake
  <2>1. st[1] = "asleep" /\ st'[1] = "draw" /\ UNCHANGED <<queue, drawn>>
    BY <1>1, <1>9 DEF Wake, Goto, TypeOK
  <2>2. Out(1)' = Out(1)
    BY <2>1 DEF Out
  <2>3. Flow'
    BY <1>2, <1>4, <1>5, <2>1, <2>2, FlowKept
  <2> QED BY <1>1, <1>3, <1>6, <2>1, <2>3 DEF Ends
<1>10. CASE Finish
  <2>1. /\ st[1] = "draw" /\ st'[1] = "forward" /\ drawn = Size /\ drawn' = drawn
        /\ \A j \in AO \ {1} : queue'[j] = queue[j]
    BY <1>1, <1>10 DEF Finish, Put, Goto, TypeOK
  <2>2. Out(1)' = Out(1)
    BY <2>1 DEF Out
  <2>3. Flow'
    BY <1>2, <1>4, <1>5, <2>1, <2>2, FlowKept
  <2> QED BY <1>1, <1>6, <2>1, <2>3 DEF Ends
<1> QED BY <1>7, <1>8, <1>9, <1>10

LEMMA NextCounting == IInv /\ IInv' /\ Counting /\ [Next]_vars => Counting'
<1> SUFFICES ASSUME IInv, IInv', Counting, [Next]_vars
             PROVE  Counting'
  OBVIOUS
<1>1. CASE Main \/ OutOfMemory
  BY <1>1, MainCounting
<1>2. CASE \E k \in AO : Stage(k)
  <2> PICK k \in AO : Stage(k)
    BY <1>2
  <2> QED BY DequeueCounting, WorkCounting, ForwardCounting, LastCounting, FirstCounting
          DEF Stage
<1>3. CASE UNCHANGED vars
  <2>1. UNCHANGED <<mainPc, flag, queue, st, drawn, count>>
    BY <1>3 DEF vars
  <2>2. \A j \in AO : In(j)' = In(j) /\ Out(j)' = Out(j)
    BY <2>1 DEF In, Out
  <2>3. Flow'
    BY <2>1, <2>2, FlowKept DEF Counting
  <2>4. Still'
    BY <2>1 DEF Counting, Still, Early
  <2>5. Ends'
    BY <2>1 DEF Counting, Ends, Expected
  <2> QED BY <2>3, <2>4, <2>5 DEF Counting
<1> QED BY <1>1, <1>2, <1>3 DEF Next

(* What has reached an object is what the object before it has handed on,  *)
(* at every step of main and of all threads (activeobject.c:9-18).         *)
THEOREM CountingInvariance == Spec => []Counting
<1>1. Init => Counting
  BY InitCounting
<1>2. IInv /\ IInv' /\ Counting /\ [Next]_vars => Counting'
  BY NextCounting
<1> QED BY <1>1, <1>2, Invariance, PTL DEF Spec

(* Every number drawn passes through every object, once, up to the first   *)
(* one whose uninitialised flag happens to be set, and none passes beyond  *)
(* that one (activeobject.c:9-18).                                         *)
THEOREM NumbersProcessed == Spec => []AllProcessed
<1>1. Counting => AllProcessed
  BY DEF Counting, Ends, Expected, AllProcessed
<1> QED BY <1>1, CountingInvariance, PTL

(***************************************************************************)
(* What is printed while no sleep has been too short.                      *)
(***************************************************************************)
(* The number is with object k: queued, or being worked on.                *)
Busy(k) == st[k] \in {"work", "forward"} \/ Holds(queue[k], Num)

(* What object k has added so far, and whether it has printed once of two. *)
Added(k) ==
  IF st[k] = "forward" \/ (st[k] = "work" /\ pos[k] = Len(Script(k)))
    THEN Script(k)[Len(Script(k)) - 1] ELSE 0
Half(k) == IF k = N /\ st[k] = "work" /\ pos[k] > 1 THEN 1 ELSE 0

(* One number is on its way, and it is what the objects before made of it. *)
Carried(k) ==
  /\ st[1] = "asleep" /\ st[k] \in {"dequeue", "work", "forward"}
  /\ \A j \in AO \ {1} : j # k => ~Busy(j)
  /\ queue[k] = IF st[k] = "dequeue" THEN <<Num>> ELSE <<>>
  /\ cell = [base |-> drawn, off |-> Before(k) + Added(k)]
  /\ count[k] = IF st[k] = "forward" THEN drawn ELSE drawn - 1

(* What object k has printed: each number once, the last object twice.     *)
Written(k) ==
  /\ Len(shown[k]) = (IF k = N THEN 2 * count[k] ELSE count[k]) + Half(k)
  /\ IF k = N
       THEN \A c \in Nat :
              /\ 2 * c + 1 <= Len(shown[k]) =>
                   shown[k][2 * c + 1] = [base |-> c + 1, off |-> Before(k)]
              /\ 2 * c + 2 <= Len(shown[k]) =>
                   shown[k][2 * c + 2] = [base |-> c + 1, off |-> Before(k) + 2]
       ELSE \A j \in 1..Len(shown[k]) :
              shown[k][j] = [base |-> j, off |-> Before(k) + Script(k)[1]]

Marks ==
  st[1] # "ended" =>
    \A k \in AO \ {1} : st[k] \notin {"last", "ended"} /\ ~Holds(queue[k], NULL)

OneNumber ==
  late = 0 =>
    /\ st[1] = "send" => cell = [base |-> drawn, off |-> 0]
    /\ \A k \in AO \ {1} : Written(k) /\ (Busy(k) => Carried(k))

(* Main creates every object before it goes on. *)
Made == \A k \in AO : obj[k] = "none" => mainPc = "create" /\ k <= mainK

Carrying == Marks /\ Made /\ OneNumber

LEMMA ScriptFacts ==
  ASSUME NEW k \in AO \ {1}
  PROVE  /\ k = N => /\ Len(Script(k)) = 3 /\ Script(k)[1] = 0
                     /\ Script(k)[2] = 2 /\ Script(k)[3] = 0
         /\ k # N => /\ Len(Script(k)) = 2 /\ Script(k)[1] \in Int \ {0}
                     /\ Script(k)[2] = 0
                     /\ Before(k + 1) = Before(k) + Script(k)[1]
         /\ Before(k) \in Int /\ Before(2) = 0
<1>1. k \in Nat /\ k >= 2
  <2>1. k \in Nat /\ k >= 1 /\ k # 1
    BY Neighbours
  <2> QED BY <2>1
<1>2. Before(k) \in Int /\ Before(2) = 0
  BY <1>1 DEF Before
<1>3. CASE k = N
  BY <1>2, <1>3 DEF Script
<1>4. CASE k # N
  <2>1. Script(k) = IF k = 2 THEN <<11, 0>> ELSE <<-13, 0>>
    BY <1>4 DEF Script
  <2>2. Before(k + 1) = Before(k) + (IF k = 2 THEN 11 ELSE -13)
    BY <1>1 DEF Before
  <2> QED BY <1>2, <1>4, <2>1, <2>2
<1> QED BY <1>3, <1>4

LEMMA AddedFacts ==
  ASSUME NEW k \in AO \ {1}
  PROVE  Added(k) = IF k = N
                     THEN IF st[k] = "forward" \/ (st[k] = "work" /\ pos[k] = 3) THEN 2 ELSE 0
                     ELSE IF st[k] = "forward" \/ (st[k] = "work" /\ pos[k] = 2)
                            THEN Script(k)[1] ELSE 0
<1>1. 3 - 1 = 2 /\ 2 - 1 = 1
  OBVIOUS
<1>2. CASE k = N
  BY <1>1, <1>2, ScriptFacts DEF Added
<1>3. CASE k # N
  BY <1>1, <1>3, ScriptFacts DEF Added
<1> QED BY <1>2, <1>3

LEMMA AddedNext ==
  ASSUME NEW k \in AO \ {1}
  PROVE  Added(k)' = IF k = N
                      THEN IF st'[k] = "forward" \/ (st'[k] = "work" /\ pos'[k] = 3) THEN 2 ELSE 0
                      ELSE IF st'[k] = "forward" \/ (st'[k] = "work" /\ pos'[k] = 2)
                             THEN Script(k)[1] ELSE 0
<1>1. 3 - 1 = 2 /\ 2 - 1 = 1
  OBVIOUS
<1>2. CASE k = N
  BY <1>1, <1>2, ScriptFacts DEF Added
<1>3. CASE k # N
  BY <1>1, <1>3, ScriptFacts DEF Added
<1> QED BY <1>2, <1>3

(* A sequence that holds nothing is empty. *)
LEMMA HoldsNothing ==
  ASSUME NEW q \in Seq(Item), \A x \in Item : ~Holds(q, x)
  PROVE  q = <<>>
<1> SUFFICES ASSUME q # <<>> PROVE FALSE
  OBVIOUS
<1>1. Holds(q, Head(q)) /\ Head(q) \in Item
  BY HoldsTail
<1> QED BY <1>1

LEMMA NotAsleep ==
  ASSUME OneNumber, late = 0, st[1] # "asleep", NEW k \in AO \ {1}
  PROVE  ~Busy(k)
BY DEF OneNumber, Carried

(* A step that leaves what an object has printed.                          *)
LEMMA WrittenKept ==
  ASSUME NEW k \in AO, Written(k), shown'[k] = shown[k], count'[k] = count[k],
         Half(k)' = Half(k)
  PROVE  Written(k)'
<1>1. CASE k = N
  BY <1>1 DEF Written
<1>2. CASE k # N
  BY <1>2 DEF Written
<1> QED BY <1>1, <1>2

(* A step behind which no number is on its way.                            *)
LEMMA NoneBusy ==
  ASSUME OneNumber, shown' = shown, count' = count, late' = 0 => late = 0,
         \A k \in AO \ {1} : Half(k)' = Half(k),
         late' = 0 => \A k \in AO \ {1} : ~Busy(k)',
         late' = 0 /\ st'[1] = "send" => cell' = [base |-> drawn', off |-> 0]
  PROVE  OneNumber'
<1> SUFFICES ASSUME late' = 0, NEW k \in AO \ {1}
             PROVE  Written(k)'
  BY DEF OneNumber
<1>1. Written(k)
  BY DEF OneNumber
<1> QED BY <1>1, WrittenKept

(* A step behind which a number is with object m.                          *)
LEMMA CarryOn ==
  ASSUME NEW m \in AO \ {1},
         late' = 0 => Carried(m)' /\ \A k \in AO \ {1} : Written(k)'
  PROVE  OneNumber'
<1> SUFFICES ASSUME late' = 0 PROVE OneNumber'
  BY DEF OneNumber
<1>1. Carried(m)' /\ \A k \in AO \ {1} : Written(k)'
  OBVIOUS
<1>2. st'[1] = "asleep" /\ \A j \in AO \ {1} : j # m => ~Busy(j)'
  BY <1>1 DEF Carried
<1> QED BY <1>1, <1>2 DEF OneNumber

LEMMA InitCarrying == Init => Carrying
<1> SUFFICES ASSUME Init
             PROVE  Carrying
  OBVIOUS
<1>1. 1 \in AO /\ \A k \in AO : k \in Nat /\ k <= N
  BY Neighbours
<1>2. \A k \in AO : st[k] = "none" /\ queue[k] = <<>> /\ count[k] = 0 /\ shown[k] = <<>>
  BY DEF Init
<1>3. \A k \in AO, x \in Item : ~Holds(queue[k], x)
  BY <1>2 DEF Holds
<1>4. Marks
  BY <1>2, <1>3 DEF Marks, Item
<1>5. Made
  BY <1>1 DEF Made, Init
<1>6. \A k \in AO : Written(k)
  <2> SUFFICES ASSUME NEW k \in AO PROVE Written(k)
    OBVIOUS
  <2>1. Half(k) = 0 /\ Len(shown[k]) = 0
    BY <1>2 DEF Half
  <2>2. \A c \in Nat : ~(2 * c + 1 <= 0) /\ ~(2 * c + 2 <= 0)
    OBVIOUS
  <2> QED BY <1>2, <2>1, <2>2 DEF Written
<1>7. OneNumber
  BY <1>1, <1>2, <1>3, <1>6 DEF OneNumber, Busy, Item
<1> QED BY <1>4, <1>5, <1>7 DEF Carrying

LEMMA UnmovedCarrying ==
  ASSUME Marks, OneNumber,
         UNCHANGED <<queue, st, pos, drawn, cell, shown, late, count>>
  PROVE  Marks' /\ OneNumber'
<1>1. Marks'
  BY DEF Marks
<1>2. \A k \in AO : /\ Busy(k)' = Busy(k) /\ Added(k)' = Added(k) /\ Half(k)' = Half(k)
                    /\ Written(k)' = Written(k)
  BY DEF Busy, Added, Half, Written
<1>3. \A k \in AO : Carried(k)' = Carried(k)
  BY <1>2 DEF Carried
<1> QED BY <1>1, <1>2, <1>3 DEF OneNumber

LEMMA MainCarrying ==
  ASSUME IInv, IInv', Counting, Counting', Carrying, Main \/ OutOfMemory
  PROVE  Carrying'
<1> USE DEF IInv, Counting, Carrying
<1>1. CASE Create \/ CreateFails
  <2>1. /\ mainPc = "create" /\ UNCHANGED <<queue, pos, drawn, cell, shown, late, count>>
        /\ mainK \in Nat /\ mainPc' \in {"create", "flag"}
        /\ mainK = 1 \/ (mainPc' = "create" /\ mainK' = mainK - 1)
    BY <1>1, Neighbours DEF Create, CreateFails, Created, thread, TypeOK
  <2>2. \A k \in AO : /\ st[k] \in {"none", "dequeue"} /\ queue[k] = <<>>
                      /\ st'[k] \in {"none", "dequeue"} /\ queue'[k] = <<>>
    <3>1. Early /\ Early'
      BY <2>1 DEF Early
    <3> QED BY <3>1 DEF Still
  <2>3. \A x, k : k \in AO => ~Holds(queue'[k], x)
    BY <2>2 DEF Holds
  <2>4. Marks'
    BY <2>2, <2>3 DEF Marks
  <2>5. Made'
    <3>1. obj'[mainK] # "none" /\ \A k \in AO : k # mainK => obj'[k] = obj[k]
      BY <1>1 DEF Create, CreateFails, TypeOK
    <3> SUFFICES ASSUME NEW k \in AO, obj'[k] = "none" PROVE mainPc' = "create" /\ k <= mainK'
      BY DEF Made
    <3>2. k # mainK /\ k <= mainK /\ k \in Nat /\ k >= 1
      BY <3>1, Neighbours DEF Made
    <3> QED BY <2>1, <3>2
  <2>6. \A k \in AO : Half(k)' = Half(k) /\ ~Busy(k)'
    BY <2>2, <2>3 DEF Half, Busy
  <2>7. st'[1] # "send"
    BY <2>2, Neighbours
  <2> QED BY <2>1, <2>4, <2>5, <2>6, <2>7, NoneBusy
<1>2. CASE Feed
  <2>1. /\ mainPc = "feed" /\ UNCHANGED <<obj, st, pos, drawn, cell, shown, late, count>>
        /\ queue' = [queue EXCEPT ![1] = Append(@, Block)]
    BY <1>2 DEF Feed, Put, thread
  <2>2. \A k \in AO \ {1} : queue'[k] = queue[k]
    BY <2>1 DEF TypeOK
  <2>3. \A k \in AO : st[k] \in {"none", "dequeue"} /\ queue[k] = <<>>
    BY <2>1 DEF Still, Early
  <2>4. \A x : \A k \in AO \ {1} : ~Holds(queue'[k], x)
    BY <2>2, <2>3 DEF Holds
  <2>5. Marks'
    BY <2>1, <2>3, <2>4 DEF Marks
  <2>6. Made'
    BY <2>1 DEF Made
  <2>7. \A k \in AO \ {1} : Half(k)' = Half(k) /\ ~Busy(k)'
    BY <2>1, <2>3, <2>4 DEF Half, Busy
  <2>8. st'[1] # "send"
    BY <2>1, <2>3, Neighbours
  <2> QED BY <2>1, <2>5, <2>6, <2>7, <2>8, NoneBusy
<1>3. CASE SetFlag \/ Join \/ Stop \/ Return \/ OutOfMemory
  <2>1. /\ UNCHANGED <<queue, st, pos, drawn, cell, shown, late, count>>
        /\ mainPc = "create" => mainPc' = mainPc /\ mainK' = mainK
        /\ \/ obj' = obj
           \/ obj' = [obj EXCEPT ![mainK] = "freed"]
    BY <1>3 DEF SetFlag, Join, Stop, Return, OutOfMemory, thread, main
  <2>2. Made'
    <3>1. \A k \in AO : obj'[k] = "none" => obj[k] = "none"
      BY <2>1 DEF TypeOK
    <3> QED BY <2>1, <3>1 DEF Made
  <2> QED BY <2>1, <2>2, UnmovedCarrying
<1> QED BY <1>1, <1>2, <1>3 DEF Main

LEMMA DequeueCarrying ==
  ASSUME IInv, Counting, Carrying, NEW k \in AO, Dequeue(k)
  PROVE  Marks' /\ OneNumber'
<1> USE DEF IInv, Counting, Carrying
<1> DEFINE q == queue[k]  x == Head(q)
<1>1. /\ q \in Seq(Item) /\ q # <<>> /\ st[k] = "dequeue"
      /\ UNCHANGED <<drawn, cell, shown, late, count>>
      /\ queue' = [queue EXCEPT ![k] = Tail(q)]
      /\ pos' = [pos EXCEPT ![k] = 1]
      /\ st' = [st EXCEPT ![k] =
                  IF x = NULL THEN "last" ELSE IF k = 1 THEN "draw" ELSE "work"]
  BY DEF Dequeue, Goto, TypeOK
<1>2. /\ queue'[k] = Tail(q) /\ pos'[k] = 1
      /\ st'[k] = IF x = NULL THEN "last" ELSE IF k = 1 THEN "draw" ELSE "work"
      /\ \A j \in AO : j # k => queue'[j] = queue[j] /\ st'[j] = st[j] /\ pos'[j] = pos[j]
  BY <1>1 DEF TypeOK
<1>3. x \in Item /\ Holds(q, x) /\ \A y : Holds(Tail(q), y) => Holds(q, y)
  BY <1>1, HoldsTail
<1>4. \A j \in AO \ {1} : Half(j)' = Half(j)
  <2> SUFFICES ASSUME NEW j \in AO \ {1} PROVE Half(j)' = Half(j)
    OBVIOUS
  <2>1. CASE j = k
    BY <1>1, <1>2, <2>1 DEF Half
  <2>2. CASE j # k
    BY <1>2, <2>2 DEF Half
  <2> QED BY <2>1, <2>2
<1>5. st'[1] = "send" => st[1] = "send"
  BY <1>2, Neighbours
<1>6. CASE k = 1 \/ x = NULL
  <2>1. st[1] # "asleep" /\ (k = 1 \/ st[1] = "ended")
    BY <1>1, <1>3, <1>6 DEF Marks
  <2>2. late = 0 => \A j \in AO \ {1} : ~Busy(j)
    BY <2>1, NotAsleep
  <2>3. \A j \in AO \ {1} : Busy(j)' => Busy(j)
    <3> SUFFICES ASSUME NEW j \in AO \ {1}, Busy(j)' PROVE Busy(j)
      OBVIOUS
    <3>1. CASE j = k
      BY <1>1, <1>2, <1>3, <1>6, <3>1 DEF Busy
    <3>2. CASE j # k
      BY <1>2, <3>2 DEF Busy
    <3> QED BY <3>1, <3>2
  <2>4. OneNumber'
    <3>1. late' = 0 /\ st'[1] = "send" => cell' = [base |-> drawn', off |-> 0]
      BY <1>1, <1>5 DEF OneNumber
    <3> QED BY <1>1, <1>4, <2>2, <2>3, <3>1, NoneBusy
  <2>5. Marks'
    <3>1. CASE k = 1
      BY <1>1, <1>2, <3>1 DEF Marks
    <3>2. CASE k # 1
      BY <1>2, <2>1, <3>2, Neighbours DEF Marks
    <3> QED BY <3>1, <3>2
  <2> QED BY <2>4, <2>5
<1>7. CASE k # 1 /\ x # NULL
  <2>1. x = Num
    BY <1>3, <1>7 DEF ControlBlockConfined, Item
  <2>2. Busy(k)
    BY <1>3, <2>1 DEF Busy
  <2>3. Marks'
    <3> SUFFICES ASSUME st[1] # "ended", NEW j \in AO \ {1}
                 PROVE  st'[j] \notin {"last", "ended"} /\ ~Holds(queue'[j], NULL)
      BY <1>2, <1>7, Neighbours DEF Marks
    <3>1. st[j] \notin {"last", "ended"} /\ ~Holds(queue[j], NULL)
      BY DEF Marks
    <3>2. CASE j = k
      BY <1>2, <1>3, <1>7, <3>1, <3>2
    <3>3. CASE j # k
      BY <1>2, <3>1, <3>3
    <3> QED BY <3>2, <3>3
  <2>4. ASSUME late' = 0
        PROVE  Carried(k)' /\ \A j \in AO \ {1} : Written(j)'
    <3>1. late = 0 /\ Carried(k) /\ \A j \in AO \ {1} : Written(j)
      BY <1>1, <1>7, <2>2, <2>4 DEF OneNumber
    <3>2. q = <<Num>> /\ st[1] = "asleep" /\ \A j \in AO \ {1} : j # k => ~Busy(j)
      BY <1>1, <3>1 DEF Carried
    <3>3. queue'[k] = <<>> /\ st'[k] = "work" /\ st'[1] = "asleep"
      BY <1>2, <1>7, <3>2, Neighbours
    <3>4. Added(k) = 0 /\ Added(k)' = 0
      BY <1>1, <1>2, <1>7, <3>3, AddedFacts, AddedNext
    <3>5. \A j \in AO \ {1} : j # k => ~Busy(j)'
      BY <1>2, <3>2 DEF Busy
    <3>6. Carried(k)'
      <4>1. cell = [base |-> drawn, off |-> Before(k) + 0] /\ count[k] = drawn - 1
        BY <1>1, <3>1, <3>4 DEF Carried
      <4> HIDE DEF q, x
      <4> QED BY <1>1, <3>3, <3>4, <3>5, <4>1 DEF Carried
    <3>7. \A j \in AO \ {1} : Written(j)'
      BY <1>1, <1>4, <3>1, WrittenKept
    <3> QED BY <3>6, <3>7
  <2> QED BY <1>7, <2>3, <2>4, CarryOn
<1> QED BY <1>6, <1>7

(* A number is printed: the next one in the list of what is printed.       *)
LEMMA Printed ==
  ASSUME IInv, NEW k \in AO \ {1}, Written(k), Half(k) \in {0, 1}, count[k] \in Nat,
         NEW x \in [base : 0..Size, off : Int], shown'[k] = Append(shown[k], x),
         k # N => /\ Half(k) = 0 /\ Half(k)' = 0 /\ count'[k] = count[k] + 1
                  /\ x = [base |-> count[k] + 1, off |-> Before(k) + Script(k)[1]],
         k = N => x = [base |-> count[k] + 1, off |-> Before(k) + 2 * Half(k)],
         k = N /\ Half(k) = 0 => Half(k)' = 1 /\ count'[k] = count[k],
         k = N /\ Half(k) = 1 => Half(k)' = 0 /\ count'[k] = count[k] + 1
  PROVE  Written(k)'
<1> DEFINE s == shown[k]  r == shown'[k]  n == count[k]
<1>1. /\ Len(s) \in Nat /\ Len(r) = Len(s) + 1 /\ r[Len(s) + 1] = x
      /\ \A i \in 1..Len(s) : r[i] = s[i]
  <2>1. s \in Seq([base : 0..Size, off : Int]) /\ r = Append(s, x)
    BY DEF IInv, TypeOK
  <2> HIDE DEF s, r
  <2> QED BY <2>1, AppendProperties, LenProperties
<1> HIDE DEF s, r, n
<1>2. CASE k = N
  <2>1. /\ Len(s) = 2 * n + Half(k)
        /\ \A c \in Nat :
             2 * c + 1 <= Len(s) => s[2 * c + 1] = [base |-> c + 1, off |-> Before(k)]
        /\ \A c \in Nat :
             2 * c + 2 <= Len(s) => s[2 * c + 2] = [base |-> c + 1, off |-> Before(k) + 2]
    BY <1>2 DEF Written, s, n
  <2>2. n \in Nat /\ Before(k) \in Int
    BY ScriptFacts DEF n
  <2>3. Len(r) = 2 * count'[k] + Half(k)'
    <3>1. CASE Half(k) = 0
      <4>1. Len(r) = 2 * n + 1 /\ count'[k] = n /\ Half(k)' = 1
        BY <1>1, <1>2, <2>1, <2>2, <3>1 DEF n
      <4> QED BY <4>1
    <3>2. CASE Half(k) = 1
      <4>1. Len(r) = 2 * n + 2 /\ count'[k] = n + 1 /\ Half(k)' = 0
        BY <1>1, <1>2, <2>1, <2>2, <3>2 DEF n
      <4> QED BY <2>2, <4>1
    <3> QED BY <3>1, <3>2
  <2>4. ASSUME NEW c \in Nat, 2 * c + 1 <= Len(r)
        PROVE  r[2 * c + 1] = [base |-> c + 1, off |-> Before(k)]
    <3>1. CASE 2 * c + 1 <= Len(s)
      <4>1. 2 * c + 1 \in 1..Len(s)
        BY <1>1, <3>1
      <4>2. r[2 * c + 1] = s[2 * c + 1]
        BY <1>1, <4>1
      <4>3. s[2 * c + 1] = [base |-> c + 1, off |-> Before(k)]
        BY <2>1, <3>1
      <4> QED BY <4>2, <4>3
    <3>2. CASE 2 * c + 1 = Len(s) + 1
      <4>0. \A a, h \in Nat : 2 * c + 1 = 2 * a + h + 1 /\ h \in {0, 1} => c = a /\ h = 0
        OBVIOUS
      <4>1. c = n /\ Half(k) = 0
        BY <2>1, <2>2, <3>2, <4>0
      <4>2. x = [base |-> c + 1, off |-> Before(k)]
        BY <1>2, <2>2, <4>1 DEF n
      <4> QED BY <1>1, <3>2, <4>2
    <3>3. 2 * c + 1 <= Len(s) \/ 2 * c + 1 = Len(s) + 1
      <4>1. \A a \in Nat : 2 * c + 1 <= a + 1 => 2 * c + 1 <= a \/ 2 * c + 1 = a + 1
        OBVIOUS
      <4>2. 2 * c + 1 <= Len(s) + 1 /\ Len(s) \in Nat
        BY <1>1, <2>4
      <4> QED BY <4>1, <4>2
    <3> QED BY <3>1, <3>2, <3>3
  <2>5. ASSUME NEW c \in Nat, 2 * c + 2 <= Len(r)
        PROVE  r[2 * c + 2] = [base |-> c + 1, off |-> Before(k) + 2]
    <3>1. CASE 2 * c + 2 <= Len(s)
      <4>1. 2 * c + 2 \in 1..Len(s)
        BY <1>1, <3>1
      <4>2. r[2 * c + 2] = s[2 * c + 2]
        BY <1>1, <4>1
      <4>3. s[2 * c + 2] = [base |-> c + 1, off |-> Before(k) + 2]
        BY <2>1, <3>1
      <4> QED BY <4>2, <4>3
    <3>2. CASE 2 * c + 2 = Len(s) + 1
      <4>0. \A a, h \in Nat : 2 * c + 2 = 2 * a + h + 1 /\ h \in {0, 1} => c = a /\ h = 1
        OBVIOUS
      <4>1. c = n /\ Half(k) = 1
        BY <2>1, <2>2, <3>2, <4>0
      <4>2. x = [base |-> c + 1, off |-> Before(k) + 2]
        BY <1>2, <2>2, <4>1 DEF n
      <4> QED BY <1>1, <3>2, <4>2
    <3>3. 2 * c + 2 <= Len(s) \/ 2 * c + 2 = Len(s) + 1
      <4>1. \A a \in Nat : 2 * c + 2 <= a + 1 => 2 * c + 2 <= a \/ 2 * c + 2 = a + 1
        OBVIOUS
      <4>2. 2 * c + 2 <= Len(s) + 1 /\ Len(s) \in Nat
        BY <1>1, <2>5
      <4> QED BY <4>1, <4>2
    <3> QED BY <3>1, <3>2, <3>3
  <2> QED BY <1>2, <2>3, <2>4, <2>5 DEF Written, r
<1>3. CASE k # N
  <2>1. /\ Len(s) = n /\ n \in Nat
        /\ \A j \in 1..Len(s) : s[j] = [base |-> j, off |-> Before(k) + Script(k)[1]]
    BY <1>3 DEF Written, s, n
  <2>2. Len(r) = count'[k] + Half(k)' /\ Len(r) = n + 1
    BY <1>1, <1>3, <2>1 DEF n
  <2>3. x = [base |-> n + 1, off |-> Before(k) + Script(k)[1]]
    BY <1>3 DEF n
  <2>4. ASSUME NEW j \in 1..Len(r)
        PROVE  r[j] = [base |-> j, off |-> Before(k) + Script(k)[1]]
    <3>1. CASE j \in 1..Len(s)
      BY <1>1, <2>1, <3>1
    <3>2. CASE j = Len(s) + 1
      BY <1>1, <2>1, <2>3, <3>2
    <3> QED BY <1>1, <2>4, <3>1, <3>2
  <2> QED BY <1>3, <2>2, <2>4 DEF Written, r
<1> QED BY <1>2, <1>3

LEMMA WorkCarrying ==
  ASSUME IInv, Carrying, NEW k \in AO, Work(k)
  PROVE  Marks' /\ OneNumber'
<1> USE DEF IInv, Carrying
<1>1. /\ st[k] = "work" /\ k \in AO \ {1} /\ UNCHANGED <<queue, drawn, late>>
      /\ pos[k] \in 1..Len(Script(k)) /\ count[k] \in Nat /\ drawn \in Nat
      /\ cell \in [base : 0..Size, off : Int]
  <2>1. st[k] = "work" /\ UNCHANGED <<queue, drawn, late>>
    BY DEF Work
  <2>2. k # 1 /\ pos[k] <= Len(Script(k))
    BY <2>1 DEF Roles
  <2>3. /\ pos[k] \in Nat \ {0} /\ count[k] \in Nat /\ drawn \in Nat
        /\ cell \in [base : 0..Size, off : Int]
    <3> HIDE DEF IInv, Carrying
    <3>1. TypeOK
      BY DEF IInv
    <3>2. pos[k] \in 1..3 /\ count[k] \in Nat
      BY <3>1 DEF TypeOK
    <3>3. drawn \in 0..Size /\ cell \in [base : 0..Size, off : Int]
      BY <3>1 DEF TypeOK
    <3> QED BY <3>2, <3>3, Parameters
  <2>4. Len(Script(k)) \in Nat
    BY DEF Script
  <2> QED BY <2>1, <2>2, <2>3, <2>4
<1>2. /\ \/ UNCHANGED <<st, count>> /\ pos' = [pos EXCEPT ![k] = @ + 1]
            /\ pos[k] < Len(Script(k))
         \/ /\ st' = [st EXCEPT ![k] = "forward"] /\ UNCHANGED pos
            /\ count' = [count EXCEPT ![k] = @ + 1] /\ ~(pos[k] < Len(Script(k)))
      /\ \/ /\ shown' = [shown EXCEPT ![k] = Append(@, cell)] /\ UNCHANGED cell
            /\ Script(k)[pos[k]] = 0
         \/ /\ cell' = [cell EXCEPT !.off = @ + Script(k)[pos[k]]] /\ UNCHANGED shown
            /\ Script(k)[pos[k]] # 0
  BY DEF Work, Goto
<1>3. \A j \in AO : j # k => /\ st'[j] = st[j] /\ pos'[j] = pos[j]
                             /\ count'[j] = count[j] /\ shown'[j] = shown[j]
  BY <1>2 DEF TypeOK
<1>4. /\ \/ st'[k] = "work" /\ count'[k] = count[k] /\ pos'[k] = pos[k] + 1
            /\ pos[k] < Len(Script(k))
         \/ st'[k] = "forward" /\ count'[k] = count[k] + 1 /\ pos'[k] = pos[k]
            /\ ~(pos[k] < Len(Script(k)))
      /\ \/ /\ shown'[k] = Append(shown[k], cell) /\ UNCHANGED cell
            /\ Script(k)[pos[k]] = 0
         \/ /\ cell' = [cell EXCEPT !.off = @ + Script(k)[pos[k]]] /\ shown'[k] = shown[k]
            /\ Script(k)[pos[k]] # 0
  BY <1>1, <1>2 DEF TypeOK
<1>5. Marks'
  <2>1. \A j \in AO \ {1} : st'[j] \in {"last", "ended"} => st[j] \in {"last", "ended"}
    BY <1>3, <1>4
  <2>2. st'[1] = st[1]
    BY <1>1, <1>3, Neighbours
  <2> QED BY <1>1, <2>1, <2>2 DEF Marks
<1>6. ASSUME late' = 0
      PROVE  Carried(k)' /\ \A j \in AO \ {1} : Written(j)'
  <2>1. late = 0 /\ Carried(k) /\ \A j \in AO \ {1} : Written(j)
    BY <1>1, <1>6 DEF OneNumber, Busy
  <2>2. /\ st[1] = "asleep" /\ queue[k] = <<>> /\ count[k] = drawn - 1
        /\ cell = [base |-> drawn, off |-> Before(k) + Added(k)]
        /\ \A j \in AO \ {1} : j # k => ~Busy(j)
    BY <1>1, <2>1 DEF Carried
  <2>3. \A j \in AO \ {1} : j # k => ~Busy(j)'
    BY <1>1, <1>3, <2>2 DEF Busy
  <2>4. \A j \in AO \ {1} : j # k => Written(j)'
    <3>1. \A j \in AO \ {1} : j # k => Half(j)' = Half(j)
      BY <1>3 DEF Half
    <3> QED BY <1>3, <2>1, <3>1, WrittenKept
  <2>5. st'[1] = "asleep" /\ Before(k) \in Int
    BY <1>1, <1>3, <2>2, Neighbours, ScriptFacts
  <2>6. cell' = [base |-> drawn, off |-> Before(k) + Added(k)'] /\ Written(k)'
    <3>1. CASE k = N
      <4>0. /\ Len(Script(k)) = 3 /\ Script(k)[1] = 0 /\ Script(k)[2] = 2 /\ Script(k)[3] = 0
            /\ pos[k] \in 1..3
        BY <1>1, <3>1, ScriptFacts
      <4>1. CASE pos[k] = 1
        <5>1. /\ Added(k) = 0 /\ Added(k)' = 0 /\ Half(k) = 0 /\ Half(k)' = 1
              /\ count'[k] = count[k] /\ cell' = cell /\ shown'[k] = Append(shown[k], cell)
          BY <1>1, <1>4, <3>1, <4>0, <4>1, AddedFacts, AddedNext DEF Half
        <5>2. cell = [base |-> count[k] + 1, off |-> Before(k) + 2 * Half(k)]
          BY <1>1, <2>2, <2>5, <5>1
        <5>3. Written(k)'
          BY <1>1, <2>1, <3>1, <5>1, <5>2, Printed
        <5> QED BY <2>2, <5>1, <5>3
      <4>2. CASE pos[k] = 2
        <5>1. /\ Added(k) = 0 /\ Added(k)' = 2 /\ Half(k) = 1 /\ Half(k)' = 1
              /\ count'[k] = count[k] /\ cell' = [cell EXCEPT !.off = @ + 2]
              /\ shown'[k] = shown[k]
          BY <1>1, <1>4, <3>1, <4>0, <4>2, AddedFacts, AddedNext DEF Half
        <5>2. cell' = [base |-> drawn, off |-> Before(k) + 2]
          BY <2>2, <2>5, <5>1
        <5>3. Written(k)'
          BY <1>1, <2>1, <5>1, WrittenKept
        <5> QED BY <5>1, <5>2, <5>3
      <4>3. CASE pos[k] = 3
        <5>1. /\ Added(k) = 2 /\ Added(k)' = 2 /\ Half(k) = 1 /\ Half(k)' = 0
              /\ count'[k] = count[k] + 1 /\ cell' = cell /\ shown'[k] = Append(shown[k], cell)
          BY <1>1, <1>4, <3>1, <4>0, <4>3, AddedFacts, AddedNext DEF Half
        <5>2. cell = [base |-> count[k] + 1, off |-> Before(k) + 2 * Half(k)]
          BY <1>1, <2>2, <2>5, <5>1
        <5>3. Written(k)'
          BY <1>1, <2>1, <3>1, <5>1, <5>2, Printed
        <5> QED BY <2>2, <5>1, <5>3
      <4> QED BY <4>0, <4>1, <4>2, <4>3
    <3>2. CASE k # N
      <4>0. /\ Len(Script(k)) = 2 /\ Script(k)[1] \in Int \ {0} /\ Script(k)[2] = 0
            /\ pos[k] \in 1..2 /\ Half(k) = 0 /\ Half(k)' = 0
        BY <1>1, <3>2, ScriptFacts DEF Half
      <4>1. CASE pos[k] = 1
        <5>1. /\ Added(k) = 0 /\ Added(k)' = Script(k)[1] /\ count'[k] = count[k]
              /\ cell' = [cell EXCEPT !.off = @ + Script(k)[1]] /\ shown'[k] = shown[k]
          BY <1>1, <1>4, <3>2, <4>0, <4>1, AddedFacts, AddedNext
        <5>2. cell' = [base |-> drawn, off |-> Before(k) + Script(k)[1]]
          BY <2>2, <2>5, <5>1
        <5>3. Written(k)'
          BY <1>1, <2>1, <4>0, <5>1, WrittenKept
        <5> QED BY <5>1, <5>2, <5>3
      <4>2. CASE pos[k] = 2
        <5>1. /\ Added(k) = Script(k)[1] /\ Added(k)' = Script(k)[1]
              /\ count'[k] = count[k] + 1 /\ cell' = cell /\ shown'[k] = Append(shown[k], cell)
          BY <1>1, <1>4, <3>2, <4>0, <4>2, AddedFacts, AddedNext
        <5>2. cell = [base |-> count[k] + 1, off |-> Before(k) + Script(k)[1]]
          BY <1>1, <2>2, <2>5, <5>1
        <5>3. Written(k)'
          BY <1>1, <2>1, <3>2, <4>0, <5>1, <5>2, Printed
        <5> QED BY <2>2, <5>1, <5>3
      <4> QED BY <4>0, <4>1, <4>2
    <3> QED BY <3>1, <3>2
  <2>7. Carried(k)'
    <3>1. /\ st'[k] \in {"work", "forward"} /\ drawn' = drawn /\ queue'[k] = <<>>
          /\ count'[k] = IF st'[k] = "forward" THEN drawn ELSE drawn - 1
      BY <1>1, <1>4, <2>2
    <3> QED BY <2>3, <2>5, <2>6, <3>1 DEF Carried
  <2> QED BY <2>4, <2>6, <2>7
<1> QED BY <1>1, <1>5, <1>6, CarryOn

(* An object that exists and is not busy waits for the next number.        *)
LEMMA NextWaits ==
  ASSUME IInv, Counting, Made, ~Early, NEW k \in AO, k # N, st[k] \notin {"none", "ended"},
         obj[k + 1] # "null", ~Busy(k + 1)
  PROVE  /\ k + 1 \in AO \ {1} /\ k + 1 # k
         /\ queue[k + 1] = <<>> /\ st[k + 1] = "dequeue" /\ count[k + 1] = Out(k)
<1> USE DEF IInv, Counting
<1>1. /\ k + 1 \in AO \ {1} /\ k + 1 # k /\ queue[k + 1] \in Seq(Item)
      /\ ~Holds(queue[k + 1], NULL) /\ st[k + 1] \notin {"last", "ended"}
  BY NextGets
<1>2. queue[k + 1] = <<>>
  <2>1. ~Holds(queue[k + 1], Num) /\ ~Holds(queue[k + 1], Block)
    BY <1>1 DEF Busy, ControlBlockConfined
  <2>2. \A x \in Item : ~Holds(queue[k + 1], x)
    BY <1>1, <2>1 DEF Item
  <2> QED BY <1>1, <2>2, HoldsNothing
<1>3. st[k + 1] = "dequeue"
  <2>1. st[k + 1] # "none"
    BY <1>1 DEF Made, Early, Creation
  <2>2. st[k + 1] \notin {"draw", "send", "asleep", "work", "forward"}
    BY <1>1 DEF Roles, Busy
  <2> QED BY <1>1, <2>1, <2>2 DEF TypeOK
<1>4. count[k + 1] = Out(k)
  <2>1. In(k + 1) = Out((k + 1) - 1)
    BY <1>1, <1>3 DEF Flow
  <2>2. In(k + 1) = count[k + 1] /\ (k + 1) - 1 = k
    <3>1. count[k + 1] \in Nat /\ Nums(queue[k + 1]) = 0 /\ k \in Nat
      BY <1>1, <1>2, Neighbours DEF TypeOK, Nums
    <3> QED BY <1>3, <3>1 DEF In
  <2> QED BY <2>1, <2>2
<1> QED BY <1>1, <1>2, <1>3, <1>4

(* The next object gets the only number there is.                          *)
LEMMA Passed ==
  ASSUME TypeOK, NEW m \in AO \ {1}, queue[m] = <<>>, st[m] = "dequeue", st'[m] = "dequeue",
         queue' = [queue EXCEPT ![m] = Append(@, Num)],
         st'[1] = "asleep", UNCHANGED <<drawn, cell, count>>,
         \A j \in AO \ {1} : j # m => st'[j] \notin {"work", "forward"} /\ ~Holds(queue[j], Num),
         cell = [base |-> drawn, off |-> Before(m)], count[m] = drawn - 1
  PROVE  Carried(m)'
<1>1. queue'[m] = <<Num>> /\ \A j \in AO : j # m => queue'[j] = queue[j]
  <2>1. queue'[m] = Append(<<>>, Num) /\ \A j \in AO : j # m => queue'[j] = queue[j]
    BY DEF TypeOK
  <2>2. Append(<<>>, Num) = <<Num>>
    OBVIOUS
  <2> QED BY <2>1, <2>2
<1>2. \A j \in AO \ {1} : j # m => ~Busy(j)'
  BY <1>1 DEF Busy
<1>3. Added(m)' = 0 /\ Before(m) \in Int
  BY AddedNext, ScriptFacts
<1>4. cell' = [base |-> drawn', off |-> Before(m) + Added(m)']
  BY <1>3
<1> QED BY <1>1, <1>2, <1>4 DEF Carried

LEMMA ForwardCarrying ==
  ASSUME IInv, Counting, Carrying, NEW k \in AO, Forward(k)
  PROVE  Marks' /\ OneNumber'
<1> USE DEF IInv, Counting, Carrying
<1>1. /\ ~Early /\ UNCHANGED <<flag, obj, drawn, cell, shown, late, count, pos>>
      /\ st[k] = "forward" /\ st' = [st EXCEPT ![k] = "dequeue"]
  BY StageLate DEF Stage, Forward, main, Goto
<1>2. st'[k] = "dequeue" /\ \A j \in AO : j # k => st'[j] = st[j]
  BY <1>1 DEF TypeOK
<1>3. k = 1 => flag[k] = 1
  BY <1>1 DEF FirstObject, Early
<1>4. \A j \in AO \ {1} : Half(j)' = Half(j)
  BY <1>1, <1>2 DEF Half
<1>5. /\ st'[1] = "send" => st[1] = "send"
      /\ st[1] = "asleep" => st'[1] = "asleep" /\ k # 1
      /\ st'[1] # "ended" => st[1] # "ended"
  BY <1>1, <1>2, Neighbours
<1>6. late = 0 /\ k # 1 => Carried(k)
  BY <1>1 DEF OneNumber, Busy
<1>7. CASE UNCHANGED queue
  <2>1. Marks'
    BY <1>2, <1>5, <1>7 DEF Marks
  <2>2. ASSUME late = 0, NEW j \in AO \ {1} PROVE ~Busy(j)'
    <3>1. CASE k = 1
      <4>1. ~Busy(j)
        BY <1>1, <2>2, <3>1, NotAsleep
      <4> QED BY <1>2, <1>7, <3>1, <4>1 DEF Busy
    <3>2. CASE k # 1
      <4>1. queue[k] = <<>> /\ (j # k => ~Busy(j))
        BY <1>1, <1>6, <2>2, <3>2 DEF Carried
      <4>2. ~Holds(<<>>, Num)
        BY DEF Holds
      <4> QED BY <1>2, <1>7, <4>1, <4>2 DEF Busy
    <3> QED BY <3>1, <3>2
  <2>3. late = 0 /\ st'[1] = "send" => cell = [base |-> drawn, off |-> 0]
    BY <1>5 DEF OneNumber
  <2> QED BY <1>1, <1>4, <2>1, <2>2, <2>3, NoneBusy
<1>8. CASE /\ k # N /\ flag[k] # 1 /\ obj[k + 1] # "null"
           /\ queue' = [queue EXCEPT ![k + 1] = Append(@, hand[k])]
  <2>1. hand[k] = Num /\ k # 1
    BY <1>1, <1>3, <1>8 DEF Roles
  <2>2. /\ k + 1 \in AO \ {1} /\ k + 1 # k /\ queue[k + 1] \in Seq(Item)
        /\ ~Holds(queue[k + 1], NULL)
    BY <1>1, <1>8, NextGets
  <2>3. queue'[k + 1] = Append(queue[k + 1], Num) /\ \A j \in AO : j # k + 1 => queue'[j] = queue[j]
    BY <1>8, <2>1, <2>2 DEF TypeOK
  <2>4. Marks'
    <3>1. ~Holds(queue'[k + 1], NULL)
      BY <2>2, <2>3, HoldsAppend, Parameters DEF Item
    <3>2. st[1] # "ended" => \A j \in AO \ {1} : st[j] \notin {"last", "ended"} /\ ~Holds(queue[j], NULL)
      BY DEF Marks
    <3>3. st'[1] # "ended" => \A j \in AO \ {1} : st'[j] \notin {"last", "ended"} /\ ~Holds(queue'[j], NULL)
      BY <1>2, <1>5, <2>3, <3>1, <3>2
    <3> QED BY <3>3 DEF Marks
  <2>5. ASSUME late' = 0
        PROVE  Carried(k + 1)' /\ \A j \in AO \ {1} : Written(j)'
    <3>1. late = 0 /\ Carried(k) /\ \A j \in AO \ {1} : Written(j)
      BY <1>1, <1>6, <2>1, <2>5 DEF OneNumber
    <3>2. /\ st[1] = "asleep" /\ queue[k] = <<>> /\ count[k] = drawn
          /\ cell = [base |-> drawn, off |-> Before(k) + Added(k)]
          /\ \A j \in AO \ {1} : j # k => ~Busy(j)
      BY <1>1, <3>1 DEF Carried
    <3>3. queue[k + 1] = <<>> /\ st[k + 1] = "dequeue" /\ count[k + 1] = Out(k)
      BY <1>1, <1>8, <2>2, <3>2, NextWaits
    <3>4. Out(k) = drawn - 1
      BY <1>1, <1>8, <2>1, <3>2 DEF Out
    <3>5. cell = [base |-> drawn, off |-> Before(k + 1)]
      <4>1. Added(k) = Script(k)[1] /\ Before(k + 1) = Before(k) + Script(k)[1]
        BY <1>1, <1>8, <2>1, AddedFacts, ScriptFacts
      <4> QED BY <3>2, <4>1
    <3>6. \A j \in AO \ {1} : j # k + 1 => st'[j] \notin {"work", "forward"} /\ ~Holds(queue[j], Num)
      <4> SUFFICES ASSUME NEW j \in AO \ {1}, j # k + 1
                   PROVE  st'[j] \notin {"work", "forward"} /\ ~Holds(queue[j], Num)
        OBVIOUS
      <4>1. CASE j = k
        <5>1. ~Holds(<<>>, Num)
          BY DEF Holds
        <5> QED BY <1>2, <3>2, <4>1, <5>1
      <4>2. CASE j # k
        BY <1>2, <3>2, <4>2 DEF Busy
      <4> QED BY <4>1, <4>2
    <3>7. /\ st'[k + 1] = "dequeue" /\ st'[1] = "asleep" /\ count[k + 1] = drawn - 1
          /\ queue' = [queue EXCEPT ![k + 1] = Append(@, Num)]
      BY <1>2, <1>5, <1>8, <2>1, <2>2, <3>2, <3>3, <3>4
    <3>8. Carried(k + 1)'
      BY <1>1, <2>2, <3>3, <3>5, <3>6, <3>7, Passed
    <3>9. \A j \in AO \ {1} : Written(j)'
      BY <1>1, <1>4, <3>1, WrittenKept
    <3> QED BY <3>8, <3>9
  <2> QED BY <2>2, <2>4, <2>5, CarryOn
<1>9. \/ UNCHANGED queue
      \/ /\ k # N /\ flag[k] # 1 /\ obj[k + 1] # "null"
         /\ queue' = [queue EXCEPT ![k + 1] = Append(@, hand[k])]
  <2>1. k < N => k # N
    BY Neighbours, Parameters
  <2> QED BY <2>1 DEF Forward, Put, HasNext
<1> QED BY <1>7, <1>8, <1>9

LEMMA LastCarrying ==
  ASSUME IInv, Carrying, NEW k \in AO, Last(k)
  PROVE  Marks' /\ OneNumber'
<1> USE DEF IInv, Carrying
<1>1. /\ UNCHANGED <<drawn, cell, shown, late, count, pos>>
      /\ st[k] = "last" /\ st' = [st EXCEPT ![k] = "ended"]
  BY DEF Last, Goto
<1>2. st'[k] = "ended" /\ \A j \in AO : j # k => st'[j] = st[j]
  BY <1>1 DEF TypeOK
<1>3. k = 1 \/ st[1] = "ended"
  BY <1>1 DEF Marks
<1>4. st[1] # "asleep" /\ st'[1] = "ended"
  BY <1>1, <1>2, <1>3, Neighbours
<1>5. \A j \in AO : Holds(queue'[j], Num) => Holds(queue[j], Num)
  <2>1. CASE UNCHANGED queue
    BY <2>1
  <2>2. CASE k # N /\ queue' = [queue EXCEPT ![k + 1] = Append(@, NULL)]
    <3>1. k + 1 \in AO /\ queue[k + 1] \in Seq(Item) /\ NULL \in Item /\ Num \in Item
      BY <2>2, Neighbours DEF TypeOK, Item
    <3>2. Holds(Append(queue[k + 1], NULL), Num) => Holds(queue[k + 1], Num)
      BY <3>1, HoldsAppend, Parameters
    <3>3. /\ queue'[k + 1] = Append(queue[k + 1], NULL)
          /\ \A j \in AO : j # k + 1 => queue'[j] = queue[j]
      BY <2>2, <3>1 DEF TypeOK
    <3> QED BY <3>2, <3>3
  <2> QED BY <2>1, <2>2, Neighbours DEF Last, Put, HasNext
<1>6. late = 0 => \A j \in AO \ {1} : ~Busy(j)'
  <2> SUFFICES ASSUME late = 0, NEW j \in AO \ {1} PROVE ~Busy(j)'
    OBVIOUS
  <2>1. ~Busy(j)
    BY <1>4, NotAsleep
  <2> QED BY <1>2, <1>5, <2>1 DEF Busy
<1>7. \A j \in AO \ {1} : Half(j)' = Half(j)
  BY <1>1, <1>2 DEF Half
<1>8. Marks'
  BY <1>4 DEF Marks
<1> QED BY <1>1, <1>4, <1>6, <1>7, <1>8, NoneBusy

LEMMA FirstCarrying ==
  ASSUME IInv, Counting, Carrying, Draw \/ Send \/ Wake \/ Finish
  PROVE  Marks' /\ OneNumber'
<1> USE DEF IInv, Counting, Carrying
<1>1. /\ UNCHANGED <<flag, obj, count, shown, pos>> /\ ~Early /\ 1 \in AO /\ 1 # N
      /\ 1 + 1 = 2 /\ drawn \in Nat /\ 2 \in AO \ {1}
  <2>1. 1 \in AO /\ 2 \in AO /\ Stage(1)
    BY Neighbours DEF Stage
  <2>2. ~Early /\ UNCHANGED <<flag, obj>>
    BY <2>1, StageLate
  <2>3. UNCHANGED <<count, shown, pos>>
    BY DEF Draw, Send, Wake, Finish
  <2> QED BY <2>1, <2>2, <2>3, Parameters DEF TypeOK
<1>2. /\ st[1] \in {"draw", "send", "asleep"} /\ \A j \in AO : j # 1 => st'[j] = st[j]
  BY DEF Draw, Send, Wake, Finish, Goto, TypeOK
<1>3. \A j \in AO \ {1} : Half(j)' = Half(j)
  BY <1>1, <1>2 DEF Half
<1>4. CASE Draw \/ Finish
  <2>1. /\ st[1] = "draw" /\ UNCHANGED late /\ st'[1] \in {"send", "forward"}
        /\ \A j \in AO \ {1} : queue'[j] = queue[j]
        /\ st'[1] = "send" => cell' = [base |-> drawn', off |-> 0]
    BY <1>1, <1>4 DEF Draw, Finish, Put, Goto, TypeOK
  <2>2. late = 0 => \A j \in AO \ {1} : ~Busy(j)'
    <3> SUFFICES ASSUME late = 0, NEW j \in AO \ {1} PROVE ~Busy(j)'
      OBVIOUS
    <3>1. ~Busy(j)
      BY <2>1, NotAsleep
    <3> QED BY <1>2, <2>1, <3>1 DEF Busy
  <2>3. Marks'
    BY <1>2, <2>1 DEF Marks
  <2> QED BY <1>1, <1>3, <2>1, <2>2, <2>3, NoneBusy
<1>5. CASE Wake
  <2>1. /\ st[1] = "asleep" /\ st'[1] = "draw" /\ UNCHANGED <<queue, drawn, cell>>
        /\ late' = IF Quiet THEN late ELSE 1
    BY <1>1, <1>5 DEF Wake, Goto, TypeOK
  <2>2. late' = 0 => late = 0 /\ \A j \in AO \ {1} : ~Busy(j)'
    <3> SUFFICES ASSUME late' = 0, NEW j \in AO \ {1} PROVE late = 0 /\ ~Busy(j)'
      BY <1>1
    <3>1. Quiet /\ late = 0
      BY <2>1
    <3>2. j \in 2..N
      BY Neighbours DEF AO
    <3>3. st[j] = "dequeue" /\ queue[j] = <<>>
      BY <3>1, <3>2 DEF Quiet
    <3>4. ~Holds(<<>>, Num)
      BY DEF Holds
    <3> QED BY <1>2, <2>1, <3>1, <3>3, <3>4 DEF Busy
  <2>3. Marks'
    BY <1>2, <2>1 DEF Marks
  <2> QED BY <1>1, <1>3, <2>1, <2>2, <2>3, NoneBusy
<1>6. CASE Send
  <2>1. CASE UNCHANGED <<queue, st>>
    <3>1. UNCHANGED <<drawn, cell, late>>
      BY <1>6 DEF Send
    <3> QED BY <1>1, <2>1, <3>1, UnmovedCarrying
  <2>2. CASE Put(2, Num) /\ Goto(1, "asleep") /\ obj[2] # "null"
    <3>1. /\ queue' = [queue EXCEPT ![2] = Append(@, Num)] /\ st[1] = "send"
          /\ st'[1] = "asleep" /\ UNCHANGED <<drawn, cell, late>>
      BY <1>1, <1>6, <2>2 DEF Send, Put, Goto, TypeOK
    <3>2. /\ queue'[2] = Append(queue[2], Num) /\ \A j \in AO : j # 2 => queue'[j] = queue[j]
          /\ queue[2] \in Seq(Item)
      BY <1>1, <3>1 DEF TypeOK
    <3>3. Marks'
      <4>1. \A j \in AO \ {1} : st[j] \notin {"last", "ended"} /\ ~Holds(queue[j], NULL)
        BY <3>1 DEF Marks
      <4>2. ~Holds(queue'[2], NULL)
        BY <1>1, <3>2, <4>1, HoldsAppend, Parameters DEF Item
      <4> QED BY <1>2, <3>2, <4>1, <4>2 DEF Marks
    <3>4. ASSUME late' = 0
          PROVE  Carried(2)' /\ \A j \in AO \ {1} : Written(j)'
      <4>1. /\ late = 0 /\ cell = [base |-> drawn, off |-> 0]
            /\ \A j \in AO \ {1} : Written(j)
        BY <3>1, <3>4 DEF OneNumber
      <4>2. \A j \in AO \ {1} : ~Busy(j)
        BY <3>1, <4>1, NotAsleep
      <4>3. queue[2] = <<>> /\ st[2] = "dequeue" /\ count[2] = Out(1)
        BY <1>1, <2>2, <3>1, <4>2, NextWaits
      <4>4. Out(1) = drawn - 1 /\ Before(2) = 0
        BY <1>1, <3>1, ScriptFacts DEF Out
      <4>5. \A j \in AO \ {1} : j # 2 => st'[j] \notin {"work", "forward"} /\ ~Holds(queue[j], Num)
        BY <1>2, <4>2 DEF Busy
      <4>6. st'[2] = "dequeue"
        BY <1>1, <1>2, <4>3
      <4>7. Carried(2)'
        BY <1>1, <3>1, <4>1, <4>3, <4>4, <4>5, <4>6, Passed
      <4>8. \A j \in AO \ {1} : Written(j)'
        BY <1>1, <1>3, <4>1, WrittenKept
      <4> QED BY <4>7, <4>8
    <3> QED BY <1>1, <3>3, <3>4, CarryOn
  <2> QED BY <1>6, <2>1, <2>2 DEF Send
<1> QED BY <1>4, <1>5, <1>6

LEMMA NextCarrying ==
  IInv /\ IInv' /\ Counting /\ Counting' /\ Carrying /\ [Next]_vars => Carrying'
<1> SUFFICES ASSUME IInv, IInv', Counting, Counting', Carrying, [Next]_vars
             PROVE  Carrying'
  OBVIOUS
<1>1. CASE Main \/ OutOfMemory
  BY <1>1, MainCarrying
<1>2. CASE \E k \in AO : Stage(k)
  <2> PICK k \in AO : Stage(k)
    BY <1>2
  <2>1. Marks' /\ OneNumber'
    BY DequeueCarrying, WorkCarrying, ForwardCarrying, LastCarrying, FirstCarrying
       DEF Stage, Carrying
  <2>2. Made'
    BY StageLate DEF IInv, Counting, Carrying, Made, Early
  <2> QED BY <2>1, <2>2 DEF Carrying
<1>3. CASE UNCHANGED vars
  <2>1. /\ UNCHANGED <<queue, st, pos, drawn, cell, shown, late, count>>
        /\ UNCHANGED <<obj, mainPc, mainK>>
    BY <1>3 DEF vars
  <2>2. Made'
    BY <2>1 DEF Carrying, Made
  <2> QED BY <2>1, <2>2, UnmovedCarrying DEF Carrying
<1> QED BY <1>1, <1>2, <1>3 DEF Next

(* As long as no sleep was too short, one number at a time is on its way,  *)
(* and the shared variable holds what the objects before made of it        *)
(* (st_pipeline.c:27-41).                                                  *)
THEOREM CarryingInvariance == Spec => []Carrying
<1>1. Init => Carrying
  BY InitCarrying
<1>2. IInv /\ IInv' /\ Counting /\ Counting' /\ Carrying /\ [Next]_vars => Carrying'
  BY NextCarrying
<1> QED BY <1>1, <1>2, Invariance, CountingInvariance, PTL DEF Spec

(* As long as no sleep was too short, every object prints the numbers in   *)
(* the order drawn, each changed by exactly the objects before it, however *)
(* long the line is and however many numbers are drawn (st_pipeline.c:38). *)
THEOREM OutputOrdered == Spec => []OutputInOrder
<1>1. ASSUME TypeOK, OneNumber PROVE OutputInOrder
  <2> SUFFICES ASSUME late = 0, NEW k \in AO \ {1}, NEW j \in 1..Len(shown[k])
               PROVE  shown[k][j] = Prints(k, (j - 1) \div Len(Prints(k, 1)) + 1)
                                          [((j - 1) % Len(Prints(k, 1))) + 1]
    BY DEF OutputInOrder
  <2>1. Written(k)
    BY <1>1 DEF OneNumber
  <2>2. j \in Nat /\ j >= 1 /\ j <= Len(shown[k])
    <3>1. Len(shown[k]) \in Nat
      BY <1>1, LenProperties DEF TypeOK
    <3> QED BY <3>1
  <2>3. CASE k # N
    <3>1. Len(Prints(k, 1)) = 1
      BY <2>3 DEF Prints
    <3>2. (j - 1) \div 1 + 1 = j /\ ((j - 1) % 1) + 1 = 1
      BY <2>2
    <3>3. Prints(k, j)[1] = [base |-> j, off |-> Before(k) + Script(k)[1]]
      BY <2>3 DEF Prints
    <3>4. shown[k][j] = [base |-> j, off |-> Before(k) + Script(k)[1]]
      BY <2>1, <2>3 DEF Written
    <3> QED BY <3>1, <3>2, <3>3, <3>4
  <2>4. CASE k = N
    <3>1. Len(Prints(k, 1)) = 2
      BY <2>4 DEF Prints
    <3> DEFINE c == (j - 1) \div 2
    <3>2. /\ c \in Nat
          /\ \/ j = 2 * c + 1 /\ (j - 1) % 2 = 0
             \/ j = 2 * c + 2 /\ (j - 1) % 2 = 1
      BY <2>2
    <3>3. /\ Prints(k, c + 1)[1] = [base |-> c + 1, off |-> Before(k)]
          /\ Prints(k, c + 1)[2] = [base |-> c + 1, off |-> Before(k) + 2]
      BY <2>4 DEF Prints
    <3> HIDE DEF c
    <3>4. CASE j = 2 * c + 1 /\ (j - 1) % 2 = 0
      <4>1. shown[k][2 * c + 1] = [base |-> c + 1, off |-> Before(k)]
        BY <2>1, <2>2, <2>4, <3>2, <3>4 DEF Written
      <4>2. ((j - 1) % 2) + 1 = 1
        BY <3>4
      <4> QED BY <3>1, <3>3, <3>4, <4>1, <4>2 DEF c
    <3>5. CASE j = 2 * c + 2 /\ (j - 1) % 2 = 1
      <4>1. shown[k][2 * c + 2] = [base |-> c + 1, off |-> Before(k) + 2]
        BY <2>1, <2>2, <2>4, <3>2, <3>5 DEF Written
      <4>2. ((j - 1) % 2) + 1 = 2
        BY <3>5
      <4> QED BY <3>1, <3>3, <3>5, <4>1, <4>2 DEF c
    <3> QED BY <3>2, <3>4, <3>5
  <2> QED BY <2>3, <2>4
<1>2. IInv /\ Carrying => OutputInOrder
  BY <1>1 DEF IInv, Carrying
<1> QED BY <1>2, Invariance, CarryingInvariance, PTL
=============================================================================

--------------------------- MODULE ReactorProofs ----------------------------
(***************************************************************************)
(* Proofs about Reactor, for any number of clients and descriptors and any *)
(* first size of the array.                                                *)
(***************************************************************************)
EXTENDS Reactor, SequenceTheorems, WellFoundedInduction, TLAPS

Pass == {"scan", "recv", "send", "hup"}

(* Where the loop is.  The n-th mark is not below n and below i; only the  *)
(* first slot, the listener's, can add a slot to those the pass began with.*)
Walk ==
  /\ phase \in Pass =>
       /\ i <= fdCount /\ fdCount <= room + 1 /\ (i = 0 => fdCount = room)
       /\ \A a \in 1..Len(marks) : a <= marks[a] /\ marks[a] < i
       /\ \A a, b \in 1..Len(marks) : a < b => marks[a] < marks[b]
  /\ phase \in {"recv", "send", "hup"} => 0 < i /\ i < fdCount
  /\ phase = "remove" => Len(marks) < fdCount
  /\ phase \in {"poll", "returned"} => marks = <<>>

(* The slots in use; events are never unregistered; the listener has no    *)
(* errors.                                                                 *)
Table ==
  /\ "err" \notin pfds[0].rev
  /\ \A s \in Slots \ {0} : pfds[s].fd \in events
  /\ marked \subseteq events
  /\ \A f, g \in Fds : f # g /\ peer[f] = peer[g] => peer[f] = "none"
  /\ \A f \in Fds, c \in Clients : peer[f] = c => cl[c] # "new"

(* The marks are all that keeps a removed descriptor in the table, as long *)
(* as no pass has made two.                                                *)
Exact ==
  ~doubled =>
    /\ Len(marks) <= 1
    /\ \A a \in 1..Len(marks) : marks[a] \in Slots /\ pfds[marks[a]].fd \in marked
    /\ Polled = {Listener} \cup (events \ marked) \cup {pfds[marks[a]].fd : a \in 1..Len(marks)}

TableInv == TypeOK /\ Walk /\ Table /\ TableSound /\ NumbersFresh /\ Exact

-----------------------------------------------------------------------------
(* What is unread of a client is the last of what it said.                 *)
Taken(c) == said[c] - Len(in[c])
Unread == \A c \in Clients : \A k \in 1..Len(in[c]) : in[c][k] = Taken(c) + k

(* The message being sent, by the client in slot i.                        *)
Sender == peer[pfds[i].fd]
Message ==
  phase = "send" =>
    /\ todo \subseteq Destinations
    /\ \A k \in 1..Len(msg) : msg[k] = <<Sender, Taken(Sender) - Len(msg) + k>>

(* The number of the last chunk of c that the client in slot s should have.*)
Due(c, s) ==
  IF phase = "send" /\ c = Sender /\ s \in todo THEN Taken(c) - Len(msg) ELSE Taken(c)

(* The last one of the chunks q that is by c, if any, has this number.     *)
UpTo(q, c, number) ==
  \A n \in 1..Len(q) :
    q[n][1] = c /\ (\A k \in (n + 1)..Len(q) : q[k][1] # c) => q[n][2] = number

(* Who is polled and still there has all it should have up to that chunk;  *)
(* who was never accepted has nothing.                                     *)
Delivered ==
  phase \notin Ended =>
    /\ \A s \in Slots \ {0}, c \in Clients :
         LET d == peer[pfds[s].fd]
         IN cl[d] = "up" /\ ~rst[d] => UpTo(inbox[d], c, Due(c, s))
    /\ \A d \in Clients : (\A f \in Fds : peer[f] # d) => inbox[d] = <<>>

IInv == TableInv /\ Unread /\ Message /\ Delivered /\ InboxInOrder

-----------------------------------------------------------------------------
(* The lowest of some numbers is one of them.                              *)
LEMMA LowestIn ==
  ASSUME NEW S \in SUBSET Nat, S # {}
  PROVE  Lowest(S) \in S
<1> DEFINE R == {ss \in Nat \X Nat : ss[1] < ss[2]}
<1>1. IsWellFoundedOn(R, Nat)
  BY NatLessThanWellFounded DEF OpToRel
<1>2. PICK x \in S : \A y \in S : ~(<<y, x>> \in R)
  <2> HIDE DEF R
  <2> QED BY <1>1, WFMin
<1>3. ASSUME NEW y \in S
      PROVE  x <= y
  <2>1. x \in Nat /\ y \in Nat /\ ~(<<y, x>>[1] < <<y, x>>[2])
    BY <1>2
  <2> QED BY <2>1
<1> QED BY <1>3 DEF Lowest

LEMMA InitTable == Init => TableInv
<1> SUFFICES ASSUME Init
             PROVE  TableInv
  OBVIOUS
<1> USE ReactorAssumption DEF Init
<1>1. TypeOK
  <2>1. fdSize \in Nat /\ fdCount \in 1..fdSize /\ i \in 0..fdSize /\ room \in 1..fdSize
    OBVIOUS
  <2>2. pfds \in [0..(fdSize - 1) -> [fd : Fds \cup {0, Listener}, rev : Revents]]
    BY DEF Revents
  <2>3. /\ marks \in Seq(1..(fdSize - 1)) /\ msg \in Seq(Clients \X Nat)
        /\ in \in [Clients -> Seq(Nat)] /\ inbox \in [Clients -> Seq(Clients \X Nat)]
    OBVIOUS
  <2> QED BY <2>1, <2>2, <2>3 DEF TypeOK
<1>2. Slots = {0} /\ Polled = {Listener}
  BY DEF Slots, Polled
<1>3. Walk
  BY DEF Walk, Pass
<1>4. Table
  BY <1>2 DEF Table
<1>5. TableSound /\ NumbersFresh
  BY <1>2 DEF TableSound, NumbersFresh
<1>6. Exact
  BY <1>2 DEF Exact
<1> QED BY <1>1, <1>3, <1>4, <1>5, <1>6 DEF TableInv

(* A step that leaves the descriptors in the table leaves it sound.        *)
LEMMA SameTable ==
  ASSUME TableInv, UNCHANGED <<fdCount, events, peer, marks, marked, doubled>>,
         \A s \in Slots : pfds'[s].fd = pfds[s].fd, "err" \notin pfds'[0].rev,
         phase = "crashed" => phase' = "crashed",
         phase \in Ended => phase' \in Ended,
         \A c \in Clients : cl[c] # "new" => cl'[c] # "new"
  PROVE  Table' /\ TableSound' /\ NumbersFresh' /\ Exact'
<1> USE DEF TableInv
<1>1. Slots' = Slots /\ 0 \in Slots
  BY DEF Slots, TypeOK
<1>2. Table'
  BY <1>1 DEF Table, TypeOK
<1>3. TableSound'
  BY <1>1 DEF TableSound
<1>4. NumbersFresh'
  BY DEF NumbersFresh
<1>5. Exact'
  <2>1. Polled' = Polled
    BY <1>1 DEF Polled
  <2> QED BY <1>1, <2>1 DEF Exact
<1> QED BY <1>2, <1>3, <1>4, <1>5

(* The loop goes on without a mark.                                        *)
LEMMA SkipStep ==
  ASSUME TableInv, Skip
  PROVE  TableInv'
<1> USE DEF TableInv, table, loop, sending, clients, Skip
<1>1. TypeOK'
  BY DEF TypeOK
<1>2. Walk'
  BY DEF TypeOK, Walk, Pass
<1>3. Table' /\ TableSound' /\ NumbersFresh' /\ Exact'
  BY SameTable DEF Ended, Table
<1> QED BY <1>1, <1>2, <1>3

LEMMA StartRecvStep ==
  ASSUME TableInv, StartRecv
  PROVE  TableInv'
<1> USE DEF TableInv, table, loop, sending, clients, StartRecv
<1>1. TypeOK'
  BY DEF TypeOK
<1>2. Walk'
  BY DEF TypeOK, Walk, Pass, TableSound
<1>3. Table' /\ TableSound' /\ NumbersFresh' /\ Exact'
  BY SameTable DEF Ended, Table
<1> QED BY <1>1, <1>2, <1>3

LEMMA EndSendStep ==
  ASSUME TableInv, EndSend
  PROVE  TableInv'
<1> USE DEF TableInv, table, loop, sending, clients, EndSend
<1>1. TypeOK'
  BY DEF TypeOK, Walk
<1>2. Walk'
  BY DEF TypeOK, Walk, Pass
<1>3. Table' /\ TableSound' /\ NumbersFresh' /\ Exact'
  BY SameTable DEF Ended, Table
<1> QED BY <1>1, <1>2, <1>3

(* There are fewer marks than slots before i.                              *)
LEMMA FewMarks ==
  ASSUME TableInv, phase \in Pass
  PROVE  Len(marks) <= i /\ (marks # <<>> => Len(marks) < i)
<1> USE DEF TableInv, TypeOK
<1>1. CASE marks = <<>>
  BY <1>1
<1>2. CASE marks # <<>>
  <2>1. Len(marks) \in 1..Len(marks) /\ marks[Len(marks)] \in Nat
    BY <1>2
  <2>2. Len(marks) <= marks[Len(marks)] /\ marks[Len(marks)] < i
    BY <2>1 DEF Walk
  <2> QED BY <2>1, <2>2
<1> QED BY <1>1, <1>2

LEMMA EndScanStep ==
  ASSUME TableInv, EndScan
  PROVE  TableInv'
<1> USE DEF TableInv, table, loop, sending, clients, EndScan
<1>1. TypeOK'
  BY DEF TypeOK
<1>2. Walk'
  <2>1. Len(marks) < fdCount
    BY SMTT(20), FewMarks DEF TypeOK, Pass, Walk
  <2> QED BY <2>1 DEF Walk, Pass
<1>3. Table' /\ TableSound' /\ NumbersFresh' /\ Exact'
  BY SameTable DEF Ended, Table
<1> QED BY <1>1, <1>2, <1>3

LEMMA EndPassStep ==
  ASSUME TableInv, EndPass
  PROVE  TableInv'
<1> USE DEF TableInv, table, loop, sending, clients, EndPass
<1>1. TypeOK'
  BY DEF TypeOK, Ended
<1>2. Walk'
  BY DEF TypeOK, Walk, Pass
<1>3. Table' /\ TableSound' /\ NumbersFresh' /\ Exact'
  BY SameTable DEF Ended, Table
<1> QED BY <1>1, <1>2, <1>3

LEMMA PollStep ==
  ASSUME TableInv, Poll
  PROVE  TableInv'
<1> USE DEF TableInv, sending, clients, Poll
<1>1. TypeOK'
  <2>1. \A s \in Slots : ReventsOf(pfds[s].fd) \in Revents
    BY DEF ReventsOf, Revents
  <2>2. pfds' \in [0..(fdSize - 1) -> [fd : Fds \cup {0, Listener}, rev : Revents]]
    BY <2>1 DEF TypeOK
  <2> QED BY <2>2 DEF TypeOK
<1>2. Walk'
  BY DEF TypeOK, Walk, Pass
<1>3. \A s \in Slots : pfds'[s].fd = pfds[s].fd
  BY DEF TypeOK, Slots
<1>4. Table' /\ TableSound' /\ NumbersFresh' /\ Exact'
  <2>1. "err" \notin pfds'[0].rev
    BY DEF TypeOK, TableSound, Slots, ReventsOf
  <2>2. UNCHANGED marks
    BY DEF Walk
  <2> QED BY <1>3, <2>1, <2>2, SameTable DEF Ended
<1> QED BY <1>1, <1>2, <1>4

(* A descriptor that was not in use is put behind the others.              *)
LEMMA AddFdEffect ==
  ASSUME TableInv, NEW f \in Fds, AddFd(f)
  PROVE  /\ fdSize' \in Nat /\ fdSize <= fdSize' /\ fdCount' = fdCount + 1 /\ fdCount' <= fdSize'
         /\ pfds' \in [0..(fdSize' - 1) -> [fd : Fds \cup {0, Listener}, rev : Revents]]
         /\ pfds'[fdCount].fd = f
         /\ \A s \in Slots : pfds'[s] = pfds[s]
         /\ events' = events \cup {f}
<1> DEFINE Slot == [fd : Fds \cup {0, Listener}, rev : Revents]
<1>0. fdSize \in Nat /\ fdCount \in 1..fdSize /\ pfds \in [0..(fdSize - 1) -> Slot]
  BY DEF TableInv, TypeOK
<1>1. CASE /\ fdCount < fdSize /\ pfds' = [pfds EXCEPT ![fdCount].fd = f] /\ UNCHANGED fdSize
  <2>1. fdCount \in 0..(fdSize - 1) /\ pfds[fdCount] \in Slot
    BY <1>0, <1>1
  <2>2. pfds' = [pfds EXCEPT ![fdCount] = [pfds[fdCount] EXCEPT !.fd = f]]
    BY <1>1
  <2>3. [pfds[fdCount] EXCEPT !.fd = f] \in Slot /\ [pfds[fdCount] EXCEPT !.fd = f].fd = f
    BY <2>1
  <2>4. pfds' \in [0..(fdSize' - 1) -> Slot] /\ pfds'[fdCount].fd = f
    BY <1>0, <1>1, <2>1, <2>2, <2>3
  <2>5. \A s \in Slots : pfds'[s] = pfds[s]
    BY <1>0, <2>2 DEF Slots
  <2> QED BY <1>0, <1>1, <2>4, <2>5 DEF AddFd
<1>2. ASSUME fdCount = fdSize, fdSize' = 2 * fdSize,
             NEW garbage \in [fdSize..(2 * fdSize - 1) -> Revents],
             pfds' = [s \in 0..(2 * fdSize - 1) |->
                        IF s < fdSize THEN pfds[s]
                        ELSE [fd |-> IF s = fdSize THEN f ELSE 0, rev |-> garbage[s]]]
      PROVE  /\ fdSize' \in Nat /\ fdSize <= fdSize' /\ fdCount + 1 <= fdSize'
             /\ pfds' \in [0..(fdSize' - 1) -> Slot]
             /\ pfds'[fdCount].fd = f
             /\ \A s \in Slots : pfds'[s] = pfds[s]
  <2>1. ASSUME NEW s \in 0..(2 * fdSize - 1)
        PROVE  pfds'[s] \in Slot
    BY <1>0, <1>2
  <2>2. pfds' \in [0..(fdSize' - 1) -> Slot]
    BY <1>2, <2>1
  <2> QED BY <1>0, <1>2, <2>2 DEF Slots
<1> QED BY <1>1, <1>2 DEF AddFd

(* Only the listener's slot is the listener, so that one descriptor at     *)
(* most is added in a pass, before anything is marked.                     *)
LEMMA AcceptStep ==
  ASSUME TableInv, Accept
  PROVE  TableInv'
<1> USE ReactorAssumption DEF TableInv, sending, clients
<1> DEFINE free == {f \in Fds : peer[f] = "none"}
           f == Lowest(free)
<1>1. /\ phase = "scan" /\ i = 0 /\ marks = <<>> /\ fdCount = room
      /\ i' = 1
      /\ UNCHANGED <<running, room, marks, sending, clients, marked, doubled>>
  <2>1. i \in Slots /\ 0 \in Slots
    BY DEF Accept, TypeOK, Slots
  <2>2. i = 0
    BY <2>1 DEF Accept, TableSound
  <2>3. Len(marks) <= 0
    BY <2>2, FewMarks DEF Accept, Pass
  <2> QED BY <2>2, <2>3 DEF Accept, Walk, Pass, TypeOK
<1>2. CASE free = {}
  <2>1. UNCHANGED <<phase, pfds, fdCount, fdSize, events, peer>>
    BY <1>2 DEF Accept
  <2>2. TypeOK' /\ Walk'
    BY <1>1, <2>1 DEF TypeOK, Walk, Pass
  <2>3. Table' /\ TableSound' /\ NumbersFresh' /\ Exact'
    BY <1>1, <2>1, SameTable DEF Ended, Table
  <2> QED BY <2>2, <2>3
<1>3. CASE free # {}
  <2>1. f \in Fds /\ peer[f] = "none" /\ f \notin events
    <3>1. f \in free
      BY <1>3, LowestIn
    <3> QED BY <1>1, <3>1 DEF NumbersFresh, Ended
  <2> HIDE DEF f
  <2>2. PICK c \in Backlog : peer' = [peer EXCEPT ![f] = c]
    BY <1>3 DEF Accept, f
  <2>3. AddFd(f) /\ UNCHANGED phase
    BY <1>3, <2>1 DEF Accept, HandlerCrashes, f
  <2>4. c \in Clients /\ c # "none" /\ cl[c] # "new" /\ \A g \in Fds : peer[g] # c
    BY DEF Backlog
  <2>5. /\ fdSize' \in Nat /\ fdSize <= fdSize' /\ fdCount' = fdCount + 1 /\ fdCount' <= fdSize'
        /\ pfds' \in [0..(fdSize' - 1) -> [fd : Fds \cup {0, Listener}, rev : Revents]]
        /\ pfds'[fdCount].fd = f
        /\ \A s \in Slots : pfds'[s] = pfds[s]
        /\ events' = events \cup {f}
    BY <2>1, <2>3, AddFdEffect
  <2>6. Slots' = Slots \cup {fdCount} /\ fdCount \notin Slots /\ 0 \in Slots /\ fdCount # 0
    BY <2>5 DEF TypeOK, Slots
  <2>7. TypeOK'
    <3>1. /\ i' \in 0..fdSize' /\ room' \in 1..fdSize' /\ fdCount' \in 1..fdSize'
      <4>1. room \in 1..fdSize /\ fdSize \in Nat
        BY DEF TypeOK
      <4> QED BY <1>1, <2>5, <4>1
    <3>2. todo' \subseteq 0..(fdSize' - 1)
      <4>1. todo \subseteq 0..(fdSize - 1) /\ UNCHANGED todo
        BY <1>1 DEF TypeOK
      <4>2. fdSize \in Nat /\ fdSize' \in Nat /\ fdSize <= fdSize'
        BY <2>5 DEF TypeOK
      <4>3. \A m, n \in Nat : m <= n => 0..(m - 1) \subseteq 0..(n - 1)
        OBVIOUS
      <4> QED BY <4>1, <4>2, <4>3
    <3>3. events' \subseteq Fds /\ peer' \in [Fds -> Clients \cup {"none"}]
      BY <2>1, <2>2, <2>4, <2>5 DEF TypeOK
    <3>4. marks' \in Seq(1..(fdSize' - 1))
      BY <1>1
    <3> QED BY <1>1, <2>3, <2>5, <3>1, <3>2, <3>3, <3>4 DEF TypeOK
  <2>8. Walk'
    BY <1>1, <2>3, <2>5 DEF TypeOK, Walk, Pass
  <2>9. Table'
    <3>1. \A s \in Slots' \ {0} : pfds'[s].fd \in events'
      BY <2>5, <2>6 DEF Table
    <3>2. \A g, h \in Fds : g # h /\ peer'[g] = peer'[h] => peer'[g] = "none"
      BY <2>2, <2>4 DEF TypeOK, Table
    <3>3. \A g \in Fds, d \in Clients : peer'[g] = d => cl[d] # "new"
      BY <2>2, <2>4 DEF TypeOK, Table
    <3>4. "err" \notin pfds'[0].rev
      BY <2>5, <2>6 DEF Table
    <3>5. marked' \subseteq events' /\ UNCHANGED cl
      BY <2>5 DEF Accept, Table
    <3> HIDE DEF TableInv, table, loop, sending, clients
    <3> QED BY <3>1, <3>2, <3>3, <3>4, <3>5 DEF Table
  <2>10. TableSound'
    <3>1. \A s \in Slots : pfds[s].fd # f
      BY <2>1, <2>6 DEF TableSound, Table
    <3>2. pfds'[0].fd = Listener
      BY <2>5, <2>6 DEF TableSound
    <3>3. \A s, t \in Slots' : s # t => pfds'[s].fd # pfds'[t].fd
      BY <2>5, <2>6, <3>1 DEF TableSound
    <3>4. \A s \in Slots \ {0} : peer[pfds[s].fd] # "none" /\ pfds[s].fd \in Fds
      BY <1>1 DEF TableSound, TypeOK
    <3>5. peer'[f] # "none" /\ \A g \in Fds : g # f => peer'[g] = peer[g]
      BY <2>1, <2>2, <2>4 DEF TypeOK
    <3>6. ASSUME NEW s \in Slots' \ {0}
          PROVE  pfds'[s].fd \in events' /\ peer'[pfds'[s].fd] # "none"
      <4>1. CASE s = fdCount
        BY <2>5, <3>5, <4>1
      <4>2. CASE s # fdCount
        BY <2>5, <2>6, <3>1, <3>4, <3>5, <4>2 DEF Table
      <4> QED BY <4>1, <4>2
    <3> QED BY <3>2, <3>3, <3>6 DEF TableSound
  <2>11. NumbersFresh'
    BY <1>1, <2>1, <2>2, <2>4, <2>5 DEF TypeOK, NumbersFresh, Ended
  <2>12. Polled' = Polled \cup {f}
    BY <2>5, <2>6 DEF Polled
  <2>13. Exact'
    BY <1>1, <2>1, <2>5, <2>12 DEF Exact, Table
  <2> QED BY <2>7, <2>8, <2>9, <2>10, <2>11, <2>13
<1> QED BY <1>2, <1>3

(* A slot in which something was received belongs to a client.             *)
LEMMA SenderIs ==
  ASSUME TableInv, phase \in {"recv", "send", "hup"}
  PROVE  /\ i \in Slots \ {0} /\ pfds[i].fd \in Fds /\ pfds[i].fd # Listener
         /\ Sender \in Clients
<1>1. i \in Slots \ {0}
  BY DEF TableInv, TypeOK, Walk, Slots
<1>2. pfds[i].fd \in events /\ peer[pfds[i].fd] # "none"
  BY <1>1 DEF TableInv, TableSound
<1> QED BY <1>1, <1>2, ReactorAssumption DEF TableInv, TypeOK, Sender

(* What indices and chunks are.                                            *)
LEMMA SeqOfSlots ==
  ASSUME NEW n \in Nat, NEW s \in Seq(1..(n - 1))
  PROVE  Len(s) \in Nat /\ \A a \in 1..Len(s) : s[a] \in Nat
<1>1. Len(s) \in Nat /\ \A a \in 1..Len(s) : s[a] \in 1..(n - 1)
  OBVIOUS
<1> QED BY <1>1

LEMMA ChunkType ==
  ASSUME NEW c \in Clients, NEW q \in Seq(Nat), NEW n \in 1..Len(q)
  PROVE  [k \in 1..n |-> <<c, q[k]>>] \in Seq(Clients \X Nat)
<1>1. Len(q) \in Nat /\ \A k \in 1..Len(q) : q[k] \in Nat
  OBVIOUS
<1>2. n \in Nat /\ \A k \in 1..n : <<c, q[k]>> \in Clients \X Nat
  BY <1>1
<1> QED BY <1>2

(* The end of a client is seen: a mark.                                    *)
LEMMA RecvEndStep ==
  ASSUME TableInv, RecvEnd
  PROVE  TableInv'
<1> USE DEF TableInv, table, loop, sending, clients, RecvEnd, Mark
<1>1. i \in Slots \ {0} /\ pfds[i].fd \in events /\ pfds[i].fd \in Fds
  BY SenderIs DEF TableSound
<1>2. i \in 1..(fdSize - 1) /\ i + 1 \in 0..fdSize /\ Len(marks) < i
  <2>1. Len(marks) <= i /\ (marks # <<>> => Len(marks) < i)
    BY FewMarks DEF Pass
  <2>2. fdSize \in Nat /\ fdCount \in 1..fdSize /\ marks \in Seq(1..(fdSize - 1))
    BY DEF TypeOK
  <2>3. marks = <<>> => Len(marks) = 0
    OBVIOUS
  <2> QED BY <1>1, <2>1, <2>2, <2>3 DEF Slots
<1>3. /\ marks' \in Seq(1..(fdSize - 1)) /\ Len(marks') = Len(marks) + 1
      /\ marks'[Len(marks) + 1] = i /\ \A a \in 1..Len(marks) : marks'[a] = marks[a]
  BY <1>2 DEF TypeOK
<1>4. TypeOK'
  BY <1>1, <1>2, <1>3 DEF TypeOK
<1>5. Walk'
  <2>1. \A a \in 1..Len(marks) : a <= marks[a] /\ marks[a] < i
    BY DEF Walk, Pass
  <2>2. \A a, b \in 1..Len(marks) : a < b => marks[a] < marks[b]
    BY DEF Walk, Pass
  <2>3. Len(marks) \in Nat /\ \A a \in 1..Len(marks) : marks[a] \in Nat
    <3>1. fdSize \in Nat /\ marks \in Seq(1..(fdSize - 1))
      BY DEF TypeOK
    <3> HIDE DEF RecvEnd, Mark, TableInv
    <3> QED BY <3>1, SeqOfSlots
  <2>4. ASSUME NEW a \in 1..Len(marks')
        PROVE  a <= marks'[a] /\ marks'[a] < i'
    BY <1>2, <1>3, <2>1, <2>3
  <2>5. ASSUME NEW a \in 1..Len(marks'), NEW b \in 1..Len(marks'), a < b
        PROVE  marks'[a] < marks'[b]
    BY <1>2, <1>3, <2>1, <2>2, <2>3, <2>5
  <2>6. i' <= fdCount /\ i' # 0 /\ fdCount <= room + 1
    BY <1>1, <1>2 DEF Slots, Walk, Pass, TypeOK
  <2>7. phase' = "scan" /\ UNCHANGED <<fdCount, room>>
    OBVIOUS
  <2> HIDE DEF RecvEnd, Mark
  <2> QED BY <2>4, <2>5, <2>6, <2>7 DEF Walk
<1>6. Table' /\ TableSound' /\ NumbersFresh'
  BY <1>1 DEF Table, TableSound, NumbersFresh, Ended, Slots
<1>7. Exact'
  <2> SUFFICES ASSUME ~doubled'
               PROVE  /\ Len(marks') <= 1
                      /\ \A a \in 1..Len(marks') : marks'[a] \in Slots' /\ pfds'[marks'[a]].fd \in marked'
                      /\ Polled' = {Listener} \cup (events' \ marked')
                                     \cup {pfds'[marks'[a]].fd : a \in 1..Len(marks')}
    BY DEF Exact
  <2>1. ~doubled /\ marks = <<>> /\ marks' = <<i>>
    <3>1. ~doubled /\ ~(marks # <<>>)
      OBVIOUS
    <3> QED BY <3>1
  <2>2. Polled = {Listener} \cup (events \ marked)
    BY <2>1 DEF Exact
  <2>3. {pfds'[marks'[a]].fd : a \in 1..Len(marks')} = {pfds[i].fd}
    BY <2>1
  <2>4. pfds[i].fd \in Polled /\ Polled' = Polled /\ Slots' = Slots
    BY <1>1 DEF Polled, Slots
  <2>5. \A a \in 1..Len(marks') : marks'[a] \in Slots' /\ pfds'[marks'[a]].fd \in marked'
    BY <1>1, <2>1, <2>4
  <2> QED BY <2>1, <2>2, <2>3, <2>4, <2>5
<1> QED BY <1>4, <1>5, <1>6, <1>7

LEMMA RecvDataStep ==
  ASSUME TableInv, RecvData
  PROVE  TableInv'
<1> USE DEF TableInv, table, loop, clients, RecvData
<1>1. TypeOK'
  <2> DEFINE c == Sender
  <2>1. c \in Clients
    BY SenderIs
  <2>2. PICK n \in 1..Len(in[c]) :
          /\ in' = [in EXCEPT ![c] = SubSeq(@, n + 1, Len(@))]
          /\ msg' = [k \in 1..n |-> <<c, in[c][k]>>]
    BY DEF Sender
  <2>3. in[c] \in Seq(Nat)
    BY <2>1 DEF TypeOK
  <2>4. SubSeq(in[c], n + 1, Len(in[c])) \in Seq(Nat)
    BY <2>3, SubSeqProperties
  <2>5. in' \in [Clients -> Seq(Nat)]
    BY <2>1, <2>2, <2>4 DEF TypeOK
  <2>6. msg' \in Seq(Clients \X Nat)
    <3> HIDE DEF RecvData, TableInv, c
    <3> QED BY <2>1, <2>2, <2>3, ChunkType
  <2>7. todo' \subseteq 0..(fdSize - 1)
    BY DEF Destinations, Slots, TypeOK
  <2> QED BY <2>5, <2>6, <2>7 DEF TypeOK
<1>2. Walk'
  BY DEF TypeOK, Walk, Pass
<1>3. Table' /\ TableSound' /\ NumbersFresh' /\ Exact'
  BY SameTable DEF Ended, Table
<1> QED BY <1>1, <1>2, <1>3

LEMMA SendStep ==
  ASSUME TableInv, Send
  PROVE  TableInv'
<1> USE DEF TableInv, table, loop, Send
<1>1. TypeOK'
  <2> DEFINE d == peer[pfds[Lowest(todo)].fd]
  <2>1. phase' \in {"send", "died"} /\ todo' \subseteq todo
    OBVIOUS
  <2>2. inbox' = inbox \/ inbox' = [inbox EXCEPT ![d] = @ \o msg]
    OBVIOUS
  <2>3. \A e \in Clients : inbox[e] \o msg \in Seq(Clients \X Nat)
    <3>1. msg \in Seq(Clients \X Nat) /\ \A e \in Clients : inbox[e] \in Seq(Clients \X Nat)
      BY DEF TypeOK
    <3> HIDE DEF TableInv, table, loop, Send
    <3> QED BY <3>1, ConcatProperties
  <2>4. inbox' \in [Clients -> Seq(Clients \X Nat)]
    BY <2>2, <2>3 DEF TypeOK
  <2>5. cl' = cl \/ cl' = [cl EXCEPT ![d] = "poked"]
    OBVIOUS
  <2> QED BY <2>1, <2>4, <2>5 DEF TypeOK, Ended
<1>2. Walk'
  BY DEF TypeOK, Walk, Pass
<1>3. Table' /\ TableSound' /\ NumbersFresh' /\ Exact'
  <2>1. \A c \in Clients : cl[c] # "new" => cl'[c] # "new"
    BY DEF TypeOK
  <2>2. /\ phase \notin Ended /\ phase # "crashed"
        /\ UNCHANGED <<fdCount, events, peer, marks, marked, doubled>>
        /\ \A s \in Slots : pfds'[s].fd = pfds[s].fd
    BY DEF Ended
  <2> QED BY <2>1, <2>2, SameTable DEF Table
<1> QED BY <1>1, <1>2, <1>3

(* All descriptors have a null handler: an error ends the process.         *)
LEMMA HangUpStep ==
  ASSUME TableInv, HangUp
  PROVE  TableInv' /\ phase' = "crashed"
<1> USE DEF TableInv
<1>1. /\ phase' = "crashed"
      /\ UNCHANGED <<loop, running, pfds, fdCount, fdSize, events, sending, clients>>
  <2>1. CASE phase = "hup"
    BY <2>1, SenderIs DEF HangUp, HandlerCrashes, loop, TableSound
  <2>2. CASE phase = "scan" /\ i < fdCount /\ pfds[i].rev = {"err"}
    <3>1. i \in Slots \ {0}
      BY <2>2 DEF Slots, TypeOK, Table
    <3> QED BY <2>2, <3>1 DEF HangUp, HandlerCrashes, loop, TableSound
  <2> QED BY <2>1, <2>2 DEF HangUp
<1>2. PICK f : peer' = [peer EXCEPT ![f] = "none"]
  BY DEF HangUp
<1>3. Slots' = Slots /\ Polled' = Polled
  BY <1>1 DEF Slots, Polled
<1> USE <1>1 DEF loop, sending, clients
<1>4. TypeOK'
  BY <1>2 DEF TypeOK, Ended
<1>5. Walk'
  BY DEF Walk, Pass
<1>6. Table'
  <2>1. \A g \in Fds : peer'[g] = peer[g] \/ peer'[g] = "none"
    BY <1>2 DEF TypeOK
  <2>2. "none" \notin Clients
    BY ReactorAssumption
  <2> QED BY <1>3, <2>1, <2>2 DEF Table
<1>7. TableSound' /\ NumbersFresh'
  BY <1>3 DEF TableSound, NumbersFresh, Ended
<1>8. Exact'
  BY <1>3 DEF Exact
<1> QED BY <1>4, <1>5, <1>6, <1>7, <1>8

(* The last slot moves into the one that is given up, which is never the   *)
(* first, whether or not it still exists.                                  *)
LEMMA RemoveStep ==
  ASSUME TableInv, Remove
  PROVE  TableInv'
<1> USE DEF TableInv, sending, clients
<1> DEFINE s == Head(marks)
           last == fdCount - 1
<1>0. /\ phase = "remove" /\ marks # <<>> /\ marks' = Tail(marks)
      /\ pfds' = [pfds EXCEPT ![s] = pfds[last]] /\ fdCount' = last
      /\ running' = (running /\ fdCount - 1 # 1)
      /\ UNCHANGED <<phase, fdSize, events, peer, i, room, msg, todo, cl, said, in, rst, inbox,
                      marked, doubled>>
  BY DEF Remove, DelFromPfds
<1>1. /\ s \in 1..(fdSize - 1) /\ s = marks[1] /\ marks' \in Seq(1..(fdSize - 1))
      /\ Len(marks') = Len(marks) - 1 /\ Len(marks) \in Nat \ {0}
  BY <1>0 DEF TypeOK
<1>2. fdSize \in Nat /\ fdCount \in Nat /\ Len(marks) < fdCount /\ 1 <= last /\ fdCount <= fdSize
  BY <1>0, <1>1 DEF TypeOK, Walk
<1>3. Slots' = 0..(fdCount - 2) /\ Slots = 0..(fdCount - 1) /\ last \in Slots \ {0} /\ last \notin Slots'
  BY <1>0, <1>2 DEF Slots
<1>4. /\ pfds' \in [0..(fdSize - 1) -> [fd : Fds \cup {0, Listener}, rev : Revents]]
      /\ \A t \in 0..(fdSize - 1) : pfds'[t] = IF t = s THEN pfds[last] ELSE pfds[t]
  BY <1>0, <1>1, <1>2 DEF TypeOK
<1>5. \A t \in Slots' : t \in Slots /\ t # last /\ pfds'[t] = IF t = s THEN pfds[last] ELSE pfds[t]
  BY <1>1, <1>2, <1>3, <1>4
<1> HIDE DEF s, last
<1>6. TypeOK'
  <2>1. fdCount' \in 1..fdSize
    BY <1>0, <1>2 DEF last
  <2>2. running' \in BOOLEAN
    BY <1>0
  <2> QED BY <1>0, <1>1, <1>4, <2>1, <2>2 DEF TypeOK
<1>7. Walk'
  BY <1>0, <1>1, <1>2 DEF Walk, Pass, last
<1>8. 0 \in Slots' /\ pfds'[0] = pfds[0]
  BY <1>1, <1>2, <1>3, <1>5
<1>9. Table'
  <2>1. \A t \in Slots' \ {0} : pfds'[t].fd \in events
    BY <1>3, <1>5 DEF Table
  <2> QED BY <1>0, <1>8, <2>1 DEF Table
<1>10. TableSound'
  <2>1. pfds'[0].fd = Listener
    BY <1>8 DEF TableSound
  <2>2. \A t, u \in Slots' : t # u => pfds'[t].fd # pfds'[u].fd
    BY <1>3, <1>5 DEF TableSound
  <2>3. \A t \in Slots' \ {0} : pfds'[t].fd \in events /\ peer[pfds'[t].fd] # "none"
    BY <1>0, <1>3, <1>5 DEF TableSound
  <2> QED BY <1>0, <2>1, <2>2, <2>3 DEF TableSound
<1>11. NumbersFresh'
  BY <1>0 DEF NumbersFresh
<1>12. Exact'
  <2> SUFFICES ASSUME ~doubled
               PROVE  marks' = <<>> /\ Polled' = {Listener} \cup (events \ marked)
    BY <1>0 DEF Exact
  <2>1. Len(marks) = 1 /\ marks' = <<>>
    BY <1>1 DEF Exact
  <2>2. Polled = {Listener} \cup (events \ marked) \cup {pfds[s].fd}
    BY <1>1, <2>1 DEF Exact
  <2>3. s \in Slots \ {0} /\ pfds[s].fd \in marked
    BY <1>1, <2>1 DEF Exact
  <2>4. \A f : f \in Polled' <=> f \in Polled /\ f # pfds[s].fd
    <3>1. \A t \in Slots' : t \in Slots /\ pfds'[t].fd # pfds[s].fd /\ pfds'[t].fd \in Polled
      BY <1>3, <1>5, <2>3 DEF Polled, TableSound
    <3>2. ASSUME NEW t \in Slots, t # s
          PROVE  pfds[t].fd \in Polled'
      <4>1. CASE t # last
        BY <1>2, <1>3, <1>5, <3>2, <4>1 DEF Polled, last
      <4>2. CASE t = last
        BY <1>1, <1>2, <1>3, <1>5, <2>3, <3>2, <4>2 DEF Polled, last
      <4> QED BY <4>1, <4>2
    <3> QED BY <3>1, <3>2 DEF Polled
  <2>5. pfds[s].fd # Listener
    <3>1. 0 \in Slots /\ 0 # s
      BY <1>2, <1>3, <2>3
    <3> QED BY <2>3, <3>1 DEF TableSound
  <2> QED BY <2>1, <2>2, <2>3, <2>4, <2>5
<1> QED BY <1>6, <1>7, <1>9, <1>10, <1>11, <1>12

LEMMA ClientStep ==
  ASSUME TableInv, NEW c \in Clients, Client(c)
  PROVE  TableInv'
<1>1. /\ UNCHANGED <<phase, running, table, loop, sending, inbox>>
      /\ cl' = cl \/ cl' = [cl EXCEPT ![c] = "up"] \/ cl' = [cl EXCEPT ![c] = "closed"]
      /\ rst' = rst \/ rst' = [rst EXCEPT ![c] = TRUE]
      /\ \/ UNCHANGED <<said, in>>
         \/ /\ said' = [said EXCEPT ![c] = said[c] + 1]
            /\ in' = [in EXCEPT ![c] = Append(in[c], said[c] + 1)]
  BY DEF Client, Connect, Say, Leave, Reset
<1> USE DEF TableInv, table, loop, sending
<1>2. TypeOK'
  <2>1. cl' \in [Clients -> {"new", "up", "closed", "poked"}] /\ rst' \in [Clients -> BOOLEAN]
    BY <1>1 DEF TypeOK
  <2>2. said[c] + 1 \in Nat /\ Append(in[c], said[c] + 1) \in Seq(Nat)
    BY DEF TypeOK
  <2>3. said' \in [Clients -> Nat]
    BY <1>1, <2>2 DEF TypeOK
  <2>4. in' \in [Clients -> Seq(Nat)]
    <3>1. CASE UNCHANGED in
      BY <3>1 DEF TypeOK
    <3>2. CASE in' = [in EXCEPT ![c] = Append(in[c], said[c] + 1)]
      <4> DEFINE grown == Append(in[c], said[c] + 1)
      <4>1. grown \in Seq(Nat)
        BY <2>2
      <4> HIDE DEF grown
      <4>2. in' = [in EXCEPT ![c] = grown]
        BY <3>2 DEF grown
      <4> QED BY <4>1, <4>2 DEF TypeOK
    <3> QED BY <1>1, <3>1, <3>2
  <2> QED BY <1>1, <2>1, <2>3, <2>4 DEF TypeOK
<1>3. Walk'
  BY <1>1 DEF Walk
<1>4. Table' /\ TableSound' /\ NumbersFresh' /\ Exact'
  <2>1. \A d \in Clients : cl[d] # "new" => cl'[d] # "new"
    BY <1>1 DEF TypeOK
  <2> QED BY <1>1, <2>1, SameTable DEF Table
<1> QED BY <1>2, <1>3, <1>4

LEMMA NextTable == TableInv /\ [Next]_vars => TableInv'
<1> SUFFICES ASSUME TableInv, [Next]_vars
             PROVE  TableInv'
  OBVIOUS
<1>1. CASE UNCHANGED vars
  <2> USE <1>1 DEF TableInv, vars, table, loop, sending, clients
  <2>1. TypeOK' /\ Walk'
    BY DEF TypeOK, Walk
  <2>2. Table' /\ TableSound' /\ NumbersFresh' /\ Exact'
    BY SameTable DEF Table
  <2> QED BY <2>1, <2>2
<1>2. CASE Server
  BY <1>2, PollStep, SkipStep, AcceptStep, StartRecvStep, RecvEndStep, RecvDataStep, SendStep,
     EndSendStep, HangUpStep, EndScanStep, RemoveStep, EndPassStep DEF Server
<1>3. CASE \E c \in Clients : Client(c)
  BY <1>3, ClientStep
<1> QED BY <1>1, <1>2, <1>3 DEF Next

-----------------------------------------------------------------------------
LEMMA TableInvariance == Spec => []TableInv
  BY InitTable, NextTable, PTL DEF Spec

(* Every variable stays in its type.                                       *)
THEOREM TypeCorrect == Spec => []TypeOK
  BY TableInvariance, PTL DEF TableInv

(* The array of indices, sized before the pass, holds all marks of it; they*)
(* ascend and never name the listener (react_server.c:243, 278, 295).      *)
THEOREM MarksFit == Spec => []RemovalsFit
<1>1. TableInv => RemovalsFit
  <2> SUFFICES ASSUME TableInv, phase \in {"scan", "recv", "send"}
               PROVE  /\ Len(marks) <= room
                      /\ \A a \in 1..Len(marks) : marks[a] \in 1..(fdCount - 1)
                      /\ \A a, b \in 1..Len(marks) : a < b => marks[a] < marks[b]
    BY DEF RemovalsFit
  <2>1. /\ i <= fdCount /\ fdCount <= room + 1
        /\ \A a \in 1..Len(marks) : marks[a] < i
        /\ \A a, b \in 1..Len(marks) : a < b => marks[a] < marks[b]
    BY DEF TableInv, Walk, Pass
  <2>2. /\ i \in Nat /\ fdCount \in Nat /\ room \in Nat \ {0} /\ Len(marks) \in Nat
        /\ \A a \in 1..Len(marks) : marks[a] \in Nat \ {0}
    BY DEF TableInv, TypeOK
  <2>3. Len(marks) <= room
    <3>1. Len(marks) <= i /\ (marks # <<>> => Len(marks) < i)
      BY FewMarks DEF Pass
    <3>2. marks = <<>> => Len(marks) = 0
      OBVIOUS
    <3> QED BY <2>1, <2>2, <3>1, <3>2
  <2> QED BY <2>1, <2>2, <2>3
<1> QED BY <1>1, TableInvariance, PTL

(* Whatever is removed, the listener stays in front, no descriptor is      *)
(* polled twice, and each belongs to a connection (react_server.c:209-211).*)
THEOREM TableStaysSound == Spec => []TableSound
  BY TableInvariance, PTL DEF TableInv

(* accept never meets a handler (react_server.c:275, 295-297).             *)
THEOREM AcceptMeetsNoHandler == Spec => []NumbersFresh
  BY TableInvariance, PTL DEF TableInv

(* As long as no pass has marked two descriptors, exactly those that were  *)
(* marked are gone from the table after it (react_server.c:363-366).       *)
THEOREM OneRemovalExact == Spec => []SingleRemovalExact
<1>1. TableInv => SingleRemovalExact
  BY DEF TableInv, SingleRemovalExact, Exact, Walk
<1> QED BY <1>1, TableInvariance, PTL

(* An error or a hangup that poll reports ends the process: the handler of *)
(* every descriptor is null (react_server.c:277, 354-356).                 *)
THEOREM ErrorsCrash == Spec => [][HangUp => phase' = "crashed"]_vars
<1>1. TableInv => [HangUp => phase' = "crashed"]_vars
  BY HangUpStep
<1> QED BY <1>1, TableInvariance, PTL

-----------------------------------------------------------------------------
(* What InboxInOrder says of one client's chunks.                          *)
InOrder(q, d) ==
  \A n \in 1..Len(q) :
    /\ q[n][1] # d
    /\ \A m \in 1..(n - 1) :
         q[m][1] = q[n][1] /\ (\A k \in (m + 1)..(n - 1) : q[k][1] # q[n][1])
           => q[n][2] = q[m][2] + 1

LEMMA InboxInOrderIs == InboxInOrder <=> \A d \in Clients : InOrder(inbox[d], d)
  BY DEF InboxInOrder, InOrder

(* The next chunks of c behind those that are there already.               *)
LEMMA NextChunks ==
  ASSUME NEW q \in Seq(Clients \X Nat), NEW new \in Seq(Clients \X Nat),
         NEW c \in Clients, NEW d \in Clients, c # d, NEW upto \in Int,
         InOrder(q, d),
         \A k \in 1..Len(new) : new[k] = <<c, upto - Len(new) + k>>,
         UpTo(q, c, upto - Len(new))
  PROVE  /\ InOrder(q \o new, d) /\ UpTo(q \o new, c, upto)
         /\ \A e \in Clients \ {c} : \A number : UpTo(q, e, number) => UpTo(q \o new, e, number)
<1> DEFINE r == q \o new
<1>1. /\ Len(q) \in Nat /\ Len(new) \in Nat /\ Len(r) = Len(q) + Len(new)
      /\ \A k \in 1..Len(q) : r[k] = q[k]
      /\ \A k \in (Len(q) + 1)..Len(r) : r[k] = new[k - Len(q)] /\ k - Len(q) \in 1..Len(new)
  OBVIOUS
<1>2. \A k \in Nat : Len(q) < k /\ k <= Len(r) => r[k][1] = c /\ r[k][2] = upto - Len(r) + k
  BY <1>1
<1> HIDE DEF r
<1>3. ASSUME NEW n \in 1..Len(r)
      PROVE  r[n][1] # d /\ \A m \in 1..(n - 1) :
               r[m][1] = r[n][1] /\ (\A k \in (m + 1)..(n - 1) : r[k][1] # r[n][1])
                 => r[n][2] = r[m][2] + 1
  <2>0. n \in Nat /\ 1 <= n /\ n <= Len(r)
    BY <1>1
  <2>1. CASE n <= Len(q)
    <3>1. \A k \in 1..n : k \in 1..Len(q) /\ r[k] = q[k]
      BY SMTT(20), <1>1, <2>0, <2>1
    <3>2. n \in 1..n /\ \A k \in 1..(n - 1) : k \in 1..n
      BY <2>0
    <3>3. \A m \in 1..(n - 1) : \A k \in (m + 1)..(n - 1) : k \in 1..n
      BY <2>0
    <3>4. n \in 1..Len(q)
      BY <3>1, <3>2
    <3>5. q[n][1] # d
      BY <3>4 DEF InOrder
    <3>6. ASSUME NEW m \in 1..(n - 1), r[m][1] = r[n][1],
                 \A k \in (m + 1)..(n - 1) : r[k][1] # r[n][1]
          PROVE  r[n][2] = r[m][2] + 1
      <4>1. q[m][1] = q[n][1] /\ \A k \in (m + 1)..(n - 1) : q[k][1] # q[n][1]
        BY <3>1, <3>2, <3>3, <3>6
      <4>2. q[n][2] = q[m][2] + 1
        BY <3>4, <4>1 DEF InOrder
      <4> QED BY <3>1, <3>2, <4>2
    <3> QED BY <3>1, <3>2, <3>5, <3>6
  <2>2. CASE Len(q) < n
    <3>1. r[n][1] = c /\ r[n][2] = upto - Len(r) + n
      BY <1>2, <2>0, <2>2
    <3> SUFFICES ASSUME NEW m \in 1..(n - 1), r[m][1] = c,
                        \A k \in (m + 1)..(n - 1) : r[k][1] # c
                 PROVE  r[n][2] = r[m][2] + 1
      BY <3>1
    <3>2. m \in Nat /\ 1 <= m /\ m < n
      BY <2>0
    <3>3. CASE Len(q) < m
      <4>1. r[m][2] = upto - Len(r) + m
        BY <1>2, <2>0, <3>2, <3>3
      <4>2. ASSUME m + 1 < n
            PROVE  FALSE
        <5>1. m + 1 \in (m + 1)..(n - 1)
          BY <2>0, <3>2, <4>2
        <5>2. r[m + 1][1] = c
          BY <1>1, <1>2, <2>0, <3>2, <3>3, <4>2
        <5> QED BY <5>1, <5>2
      <4> QED BY <1>1, <2>0, <3>1, <3>2, <4>1, <4>2
    <3>4. CASE m <= Len(q)
      <4>1. ASSUME Len(q) + 1 < n
            PROVE  FALSE
        <5>1. Len(q) + 1 \in (m + 1)..(n - 1)
          BY <1>1, <2>0, <3>2, <3>4, <4>1
        <5>2. Len(q) + 1 \in Nat /\ Len(q) < Len(q) + 1 /\ Len(q) + 1 <= Len(r)
          BY <1>1, <2>0, <4>1
        <5>3. r[Len(q) + 1][1] = c
          BY <1>2, <5>2
        <5> QED BY <5>1, <5>3
      <4>2. n = Len(q) + 1
        BY <1>1, <2>0, <2>2, <4>1
      <4>3. m \in 1..Len(q) /\ r[m] = q[m]
        BY <1>1, <3>2, <3>4
      <4>4. \A k \in (m + 1)..Len(q) : k \in (m + 1)..(n - 1) /\ r[k] = q[k]
        BY <1>1, <3>2, <4>2
      <4>5. r[m][2] = upto - Len(new)
        BY <4>3, <4>4 DEF UpTo
      <4> QED BY <1>1, <3>1, <4>2, <4>5
    <3> QED BY <1>1, <3>2, <3>3, <3>4
  <2> QED BY <1>1, <2>0, <2>1, <2>2
<1>4. InOrder(r, d)
  BY <1>3 DEF InOrder
<1>5. ASSUME NEW n \in 1..Len(r), r[n][1] = c, \A k \in (n + 1)..Len(r) : r[k][1] # c
      PROVE  r[n][2] = upto
  <2>0. n \in Nat /\ 1 <= n /\ n <= Len(r)
    BY <1>1
  <2>1. ASSUME n < Len(r)
        PROVE  Len(new) = 0
    <3>1. Len(r) \in (n + 1)..Len(r)
      BY <1>1, <2>0, <2>1
    <3>2. r[Len(r)][1] # c
      BY <1>5, <3>1
    <3>3. ~(Len(q) < Len(r))
      BY <1>1, <1>2, <3>2
    <3> QED BY <1>1, <3>3
  <2>2. CASE n <= Len(q)
    <3>1. Len(new) = 0
      BY <1>1, <2>0, <2>1, <2>2
    <3>2. n \in 1..Len(q) /\ Len(q) = Len(r) /\ \A k \in 1..Len(q) : r[k] = q[k]
      BY <1>1, <2>0, <2>2, <3>1
    <3>3. \A k \in (n + 1)..Len(q) : k \in 1..Len(q)
      BY <2>0
    <3>4. q[n][2] = upto - Len(new)
      BY <1>5, <3>2, <3>3 DEF UpTo
    <3> QED BY <3>1, <3>2, <3>4
  <2>3. CASE Len(q) < n
    <3>1. n = Len(r)
      BY <1>1, <2>0, <2>1, <2>3
    <3>2. r[n][2] = upto - Len(r) + n
      BY <1>2, <2>0, <2>3
    <3> QED BY <1>1, <3>1, <3>2
  <2> QED BY <1>1, <2>0, <2>2, <2>3
<1>6. ASSUME NEW e \in Clients \ {c}, NEW number, UpTo(q, e, number),
             NEW n \in 1..Len(r), r[n][1] = e, \A k \in (n + 1)..Len(r) : r[k][1] # e
      PROVE  r[n][2] = number
  <2>1. n \in 1..Len(q)
    BY <1>1, <1>2, <1>6
  <2>2. \A k \in (n + 1)..Len(q) : k \in 1..Len(q) /\ k \in (n + 1)..Len(r)
    BY <1>1, <2>1
  <2>3. q[n] = r[n] /\ \A k \in (n + 1)..Len(q) : q[k][1] # e
    BY <1>1, <1>6, <2>1, <2>2
  <2> QED BY <1>6, <2>1, <2>3 DEF UpTo
<1>7. UpTo(r, c, upto)
  BY <1>5 DEF UpTo
<1>8. ASSUME NEW e \in Clients \ {c}, NEW number, UpTo(q, e, number)
      PROVE  UpTo(r, e, number)
  BY <1>6, <1>8 DEF UpTo
<1> QED BY <1>4, <1>7, <1>8 DEF r

LEMMA InitIInv == Init => IInv
<1> SUFFICES ASSUME Init
             PROVE  IInv
  OBVIOUS
<1>1. TableInv
  BY InitTable
<1>2. Unread /\ Message /\ InboxInOrder
  BY DEF Init, Unread, Message, InboxInOrder
<1>3. Delivered
  BY DEF Init, Delivered, Slots
<1> QED BY <1>1, <1>2, <1>3 DEF IInv

(* A step of the server that neither receives nor sends.  Who is polled    *)
(* after it was polled before it, or has nothing yet.                      *)
LEMMA QuietStep ==
  ASSUME IInv, TableInv', UNCHANGED clients, phase = "send" => todo = {}, phase' # "send",
         phase \in Ended => phase' \in Ended,
         phase' \notin Ended =>
           /\ \A s \in Slots' \ {0} :
                \/ \E t \in Slots \ {0} : peer'[pfds'[s].fd] = peer[pfds[t].fd]
                \/ inbox[peer'[pfds'[s].fd]] = <<>>
           /\ \A d \in Clients : (\A f \in Fds : peer'[f] # d) => (\A f \in Fds : peer[f] # d)
  PROVE  IInv'
<1> USE DEF clients
<1>1. Unread' /\ InboxInOrder' /\ \A c \in Clients : Taken(c)' = Taken(c)
  BY DEF IInv, Unread, InboxInOrder, Taken
<1>2. Message'
  BY DEF Message
<1>3. Delivered'
  <2> SUFFICES ASSUME phase' \notin Ended
               PROVE  Delivered'
    BY DEF Delivered
  <2>1. phase \notin Ended
    OBVIOUS
  <2>2. ASSUME NEW s \in Slots' \ {0}, NEW c \in Clients, NEW d, d = peer'[pfds'[s].fd],
               cl[d] = "up", ~rst[d]
        PROVE  UpTo(inbox[d], c, Taken(c))
    <3>1. CASE inbox[d] = <<>>
      BY <3>1 DEF UpTo
    <3>2. CASE inbox[d] # <<>>
      <4>1. PICK t \in Slots \ {0} : d = peer[pfds[t].fd]
        BY <2>2, <3>2
      <4>2. UpTo(inbox[d], c, Due(c, t))
        BY <2>1, <2>2, <4>1 DEF IInv, Delivered
      <4>3. Due(c, t) = Taken(c)
        BY DEF Due
      <4> QED BY <4>2, <4>3
    <3> QED BY <3>1, <3>2
  <2>3. ASSUME NEW d \in Clients, \A f \in Fds : peer'[f] # d
        PROVE  inbox[d] = <<>>
    BY <2>1, <2>3 DEF IInv, Delivered
  <2>4. ASSUME NEW s \in Slots' \ {0}, NEW c \in Clients, NEW d, d = peer'[pfds'[s].fd],
               cl'[d] = "up", ~rst'[d]
        PROVE  UpTo(inbox'[d], c, Due(c, s)')
    <3>1. Due(c, s)' = Taken(c)
      BY <1>1 DEF Due
    <3> QED BY <2>2, <2>4, <3>1
  <2> HIDE DEF clients
  <2>5. \A d \in Clients : (\A f \in Fds : peer'[f] # d) => inbox'[d] = <<>>
    BY <2>3 DEF clients
  <2> QED BY <2>4, <2>5 DEF Delivered
<1> QED BY <1>1, <1>2, <1>3 DEF IInv

LEMMA QuietSteps ==
  ASSUME IInv,
         Poll \/ Skip \/ StartRecv \/ RecvEnd \/ EndSend \/ HangUp \/ EndScan \/ Remove \/ EndPass
  PROVE  IInv'
<1>1. TableInv'
  BY PollStep, SkipStep, StartRecvStep, RecvEndStep, EndSendStep, HangUpStep, EndScanStep, RemoveStep,
     EndPassStep DEF IInv
<1>2. CASE HangUp
  BY <1>1, <1>2, HangUpStep, QuietStep DEF IInv, HangUp, Ended
<1>3. CASE Remove
  <2> DEFINE s == Head(marks)
             last == fdCount - 1
  <2>1. /\ UNCHANGED <<clients, peer, phase>> /\ phase = "remove"
        /\ pfds' = [pfds EXCEPT ![s] = pfds[last]] /\ fdCount' = last
    BY <1>3 DEF Remove, DelFromPfds
  <2>2. last \in Nat \ {0} /\ pfds \in [0..(fdSize - 1) -> [fd : Fds \cup {0, Listener}, rev : Revents]]
        /\ fdSize \in Nat /\ last < fdSize
    BY SMTT(20), <1>1, <2>1 DEF IInv, TableInv, TypeOK
  <2>3. ASSUME NEW t \in Slots' \ {0}
        PROVE  \E u \in Slots \ {0} : pfds'[t] = pfds[u]
    <3>1. t \in Slots \ {0} /\ last \in Slots \ {0} /\ t \in 0..(fdSize - 1)
      BY <2>1, <2>2 DEF Slots
    <3> QED BY <2>1, <2>2, <3>1
  <2>4. \A t \in Slots' \ {0} : \E u \in Slots \ {0} : peer'[pfds'[t].fd] = peer[pfds[u].fd]
    BY <2>1, <2>3
  <2> QED BY <1>1, <2>1, <2>4, QuietStep
<1>4. CASE Poll \/ Skip \/ StartRecv \/ RecvEnd \/ EndSend \/ EndScan \/ EndPass
  <2>1. /\ UNCHANGED <<clients, peer, fdCount>> /\ phase \notin Ended
        /\ phase = "send" => todo = {}
        /\ phase' # "send"
    BY <1>4 DEF Poll, Skip, StartRecv, RecvEnd, EndSend, EndScan, EndPass, table, Ended
  <2>2. \A s \in Slots : pfds'[s].fd = pfds[s].fd
    <3>1. CASE Poll
      BY <3>1 DEF Poll, IInv, TableInv, TypeOK, Slots
    <3>2. CASE ~Poll
      BY <1>4, <3>2 DEF Skip, StartRecv, RecvEnd, EndSend, EndScan, EndPass, table
    <3> QED BY <3>1, <3>2
  <2>3. \A s \in Slots' \ {0} : \E t \in Slots \ {0} : peer'[pfds'[s].fd] = peer[pfds[t].fd]
    <3>1. Slots' = Slots
      BY <2>1 DEF Slots
    <3> QED BY <2>1, <2>2, <3>1
  <2>4. \A d \in Clients : (\A f \in Fds : peer'[f] # d) => (\A f \in Fds : peer[f] # d)
    BY <2>1
  <2> QED BY <1>1, <2>1, <2>3, <2>4, QuietStep
<1> QED BY <1>2, <1>3, <1>4

(* Who is accepted has nothing yet.                                        *)
LEMMA AcceptQuiet ==
  ASSUME IInv, Accept
  PROVE  IInv'
<1>1. TableInv' /\ UNCHANGED clients /\ phase = "scan" /\ phase' # "send"
  BY AcceptStep DEF Accept, IInv
<1> DEFINE free == {f \in Fds : peer[f] = "none"}
           f == Lowest(free)
<1>2. CASE free = {}
  BY <1>1, <1>2, QuietStep DEF Accept, Slots, Ended
<1>3. CASE free # {}
  <2>1. f \in Fds /\ peer[f] = "none"
    <3>1. f \in free
      BY <1>3, LowestIn, ReactorAssumption
    <3> QED BY <3>1
  <2> HIDE DEF f
  <2>2. PICK c \in Backlog : peer' = [peer EXCEPT ![f] = c]
    BY <1>3 DEF Accept, f
  <2>3. c \in Clients /\ \A g \in Fds : peer[g] # c
    BY DEF Backlog
  <2>4. inbox[c] = <<>>
    BY <1>1, <2>3 DEF IInv, Delivered, Ended
  <2>5. peer'[f] = c /\ \A g \in Fds : g # f => peer'[g] = peer[g]
    BY <2>1, <2>2 DEF IInv, TableInv, TypeOK
  <2>6. \A d \in Clients : (\A g \in Fds : peer'[g] # d) => (\A g \in Fds : peer[g] # d)
    BY <2>1, <2>5, ReactorAssumption
  <2>7. ASSUME phase' \notin Ended, NEW s \in Slots' \ {0}
        PROVE  \/ \E t \in Slots \ {0} : peer'[pfds'[s].fd] = peer[pfds[t].fd]
               \/ inbox[peer'[pfds'[s].fd]] = <<>>
    <3>1. AddFd(f)
      BY <1>3, <2>7 DEF Accept, f, Ended
    <3>2. /\ fdCount' = fdCount + 1 /\ pfds'[fdCount].fd = f
          /\ \A t \in Slots : pfds'[t] = pfds[t]
      BY <2>1, <3>1, AddFdEffect DEF IInv
    <3>3. s \in Slots \/ s = fdCount
      BY <3>2 DEF Slots, IInv, TableInv, TypeOK
    <3>4. CASE s = fdCount
      BY <2>4, <2>5, <3>2, <3>4
    <3>5. CASE s \in Slots
      <4>1. pfds[s].fd \in Fds /\ peer[pfds[s].fd] # "none" /\ pfds'[s] = pfds[s]
        BY <1>1, <3>2, <3>5 DEF IInv, TableInv, TableSound, TypeOK
      <4>2. peer'[pfds'[s].fd] = peer[pfds[s].fd]
        BY <2>1, <2>5, <4>1
      <4> QED BY <3>5, <4>2
    <3> QED BY <3>3, <3>4, <3>5
  <2> QED BY <1>1, <2>6, <2>7, QuietStep DEF Ended
<1> QED BY <1>2, <1>3

LEMMA RecvDataOrder ==
  ASSUME IInv, RecvData
  PROVE  IInv'
<1> USE DEF IInv
<1>0. PICK c : c = Sender
  OBVIOUS
<1>1. /\ TableInv /\ TableInv' /\ phase = "recv" /\ phase' = "send" /\ todo' = Destinations
      /\ UNCHANGED <<table, loop, cl, said, rst, inbox>>
  BY RecvDataStep DEF RecvData
<1>2. /\ c \in Clients /\ Sender' = c /\ i \in Slots \ {0} /\ Slots' = Slots
      /\ in[c] \in Seq(Nat) /\ said[c] \in Nat
  BY <1>0, <1>1, SenderIs DEF table, loop, Sender, Slots, TableInv, TypeOK
<1>3. PICK n \in 1..Len(in[c]) :
        /\ in' = [in EXCEPT ![c] = SubSeq(@, n + 1, Len(@))]
        /\ msg' = [k \in 1..n |-> <<c, in[c][k]>>]
  BY <1>0 DEF RecvData, Sender
<1>4. /\ in'[c] = SubSeq(in[c], n + 1, Len(in[c])) /\ \A e \in Clients \ {c} : in'[e] = in[e]
      /\ n \in Nat /\ n <= Len(in[c]) /\ Len(msg') = n
  BY <1>1, <1>2, <1>3 DEF TableInv, TypeOK
<1>5. /\ Len(in'[c]) = Len(in[c]) - n
      /\ \A k \in 1..Len(in'[c]) : in'[c][k] = in[c][n + k] /\ n + k \in 1..Len(in[c])
  BY <1>2, <1>4
<1>6. Taken(c)' = Taken(c) + n /\ \A e \in Clients \ {c} : Taken(e)' = Taken(e)
  <2>1. Len(in[c]) \in Nat /\ UNCHANGED said
    BY <1>1, <1>2
  <2>2. Taken(c)' = said[c] - (Len(in[c]) - n)
    BY <1>5, <2>1 DEF Taken
  <2>3. Taken(c)' = Taken(c) + n
    BY <1>2, <1>4, <2>1, <2>2 DEF Taken
  <2> QED BY <1>4, <2>1, <2>3 DEF Taken
<1>7. Unread'
  <2>1. \A k \in 1..Len(in'[c]) : in'[c][k] = Taken(c)' + k
    <3>1. Taken(c) \in Int /\ Len(in'[c]) \in Nat
      BY <1>2, <1>5 DEF Taken
    <3>2. ASSUME NEW k \in 1..Len(in'[c])
          PROVE  in'[c][k] = Taken(c)' + k
      <4>1. in[c][n + k] = Taken(c) + (n + k)
        BY <1>2, <1>5 DEF Unread
      <4>2. in'[c][k] = Taken(c) + (n + k)
        BY <1>5, <4>1
      <4>3. k \in Nat
        BY <3>1
      <4> QED BY <1>4, <1>6, <3>1, <4>2, <4>3
    <3> QED BY <3>2
  <2>2. \A e \in Clients \ {c} : \A k \in 1..Len(in'[e]) : in'[e][k] = Taken(e)' + k
    BY <1>4, <1>6 DEF Unread
  <2> QED BY <2>1, <2>2 DEF Unread, Taken
<1>8. Message'
  <2>1. \A k \in 1..n : in[c][k] = Taken(c) + k
    BY <1>2, <1>4 DEF Unread
  <2>2. \A k \in 1..n : msg'[k] = <<c, Taken(c)' - n + k>>
    <3>1. Taken(c) \in Int
      BY <1>2 DEF Taken
    <3>2. \A k \in 1..n : Taken(c) + k = Taken(c)' - n + k
      BY <1>4, <1>6, <3>1
    <3>3. \A k \in 1..n : msg'[k] = <<c, in[c][k]>>
      BY <1>3
    <3> QED BY <2>1, <3>2, <3>3
  <2>3. todo' \subseteq Destinations'
    BY <1>1, <1>2 DEF Destinations, table, loop
  <2> QED BY <1>2, <1>4, <2>2, <2>3 DEF Message, Taken
<1>9. InboxInOrder'
  BY <1>1 DEF InboxInOrder
<1>10. Delivered'
  <2>1. phase \notin Ended
    BY <1>1 DEF Ended
  <2>2. ASSUME NEW s \in Slots \ {0}, NEW e \in Clients, NEW d, d = peer[pfds[s].fd],
               cl[d] = "up", ~rst[d]
        PROVE  UpTo(inbox[d], e, Due(e, s)')
    <3>1. UpTo(inbox[d], e, Due(e, s))
      BY <2>1, <2>2 DEF Delivered
    <3>2. Due(e, s) = Taken(e)
      BY <1>1 DEF Due
    <3>3. CASE e # c
      BY <1>2, <1>6, <3>1, <3>2, <3>3 DEF Due
    <3>4. CASE e = c /\ s \in todo'
      <4>1. Due(e, s)' = Taken(c)' - n
        BY <1>1, <1>2, <1>4, <3>4 DEF Due
      <4>2. Taken(c) \in Int
        BY <1>2 DEF Taken
      <4> QED BY <1>4, <1>6, <3>1, <3>2, <3>4, <4>1, <4>2
    <3>5. CASE e = c /\ s \notin todo'
      <4>1. pfds[s].fd # Listener
        BY SMTT(20), <1>1 DEF TableInv, TableSound, Slots, TypeOK
      <4>2. pfds[s].fd = pfds[i].fd
        BY <1>1, <3>5, <4>1 DEF Destinations
      <4>3. d = c
        BY <1>0, <2>2, <4>2 DEF Sender
      <4> QED BY <1>2, <3>5, <4>3 DEF InboxInOrder, UpTo
    <3> QED BY <3>3, <3>4, <3>5
  <2>3. \A d \in Clients : (\A f \in Fds : peer[f] # d) => inbox[d] = <<>>
    BY <2>1 DEF Delivered
  <2>4. UNCHANGED <<pfds, peer, cl, rst, inbox>>
    BY <1>1 DEF table
  <2> QED BY <1>2, <2>2, <2>3, <2>4 DEF Delivered
<1> QED BY <1>1, <1>7, <1>8, <1>9, <1>10

(* The client next in turn gets what it does not have yet.                 *)
LEMMA SendOrder ==
  ASSUME IInv, Send
  PROVE  IInv'
<1> USE DEF IInv
<1>0. PICK c, s0, d0 : c = Sender /\ s0 = Lowest(todo) /\ d0 = peer[pfds[s0].fd]
  OBVIOUS
<1>1. /\ TableInv /\ TableInv' /\ phase = "send" /\ todo # {} /\ todo' = todo \ {s0}
      /\ IF rst[d0] THEN phase' = "died" ELSE phase' = "send"
      /\ inbox' = IF cl[d0] = "up" /\ ~rst[d0] THEN [inbox EXCEPT ![d0] = @ \o msg] ELSE inbox
      /\ cl' = IF cl[d0] = "closed" /\ ~rst[d0] THEN [cl EXCEPT ![d0] = "poked"] ELSE cl
      /\ UNCHANGED <<running, table, loop, said, in, rst, msg>>
  BY <1>0, SendStep DEF Send
<1>2. c \in Clients /\ Sender' = c /\ i \in Slots \ {0} /\ Slots' = Slots /\ Destinations' = Destinations
  BY <1>0, <1>1, SenderIs DEF table, loop, Sender, Slots, Destinations
<1>3. /\ todo \subseteq Destinations /\ msg \in Seq(Clients \X Nat)
      /\ \A k \in 1..Len(msg) : msg[k] = <<c, Taken(c) - Len(msg) + k>>
  BY <1>0, <1>1 DEF Message, TableInv, TypeOK
<1>4. s0 \in todo /\ s0 \in Slots \ {0} /\ pfds[s0].fd # pfds[i].fd /\ d0 \in Clients /\ d0 # c
  <2>1. s0 \in todo
    <3>1. todo \subseteq 0..(fdSize - 1)
      BY <1>1 DEF TableInv, TypeOK
    <3>2. todo \in SUBSET Nat
      BY <3>1
    <3> QED BY <1>0, <1>1, <3>2, LowestIn
  <2>2. s0 \in Slots /\ pfds[s0].fd # Listener /\ pfds[s0].fd # pfds[i].fd
    BY <1>3, <2>1 DEF Destinations
  <2>3. s0 # 0
    BY <1>1, <2>2 DEF TableInv, TableSound
  <2>4. pfds[s0].fd \in Fds /\ pfds[i].fd \in Fds /\ d0 # "none"
    BY <1>0, <1>1, <1>2, <2>2, <2>3 DEF TableInv, TableSound, TypeOK
  <2>5. d0 \in Clients
    BY <1>0, <1>1, <2>4 DEF TableInv, TypeOK
  <2>6. d0 # c
    BY <1>0, <1>1, <2>2, <2>4 DEF TableInv, Table, Sender
  <2> QED BY <2>1, <2>2, <2>3, <2>5, <2>6
<1>5. Unread' /\ \A e \in Clients : Taken(e)' = Taken(e)
  BY <1>1 DEF Unread, Taken
<1>6. Message'
  BY <1>1, <1>2, <1>3 DEF Message, Taken
<1>7. inbox[d0] \in Seq(Clients \X Nat) /\ said[c] \in Nat /\ in[c] \in Seq(Nat)
  BY <1>1, <1>2, <1>4 DEF TableInv, TypeOK
<1>8. \A e \in Clients : e # d0 => inbox'[e] = inbox[e] /\ cl'[e] = cl[e]
  BY <1>1 DEF TableInv, TypeOK
<1>9. ASSUME phase' = "send", NEW s \in Slots \ {0}, NEW e \in Clients, NEW d, d = peer[pfds[s].fd], d # d0,
             cl'[d] = "up", ~rst[d]
      PROVE  UpTo(inbox'[d], e, Due(e, s)')
  <2>1. d \in Clients
    BY <1>1, <1>9 DEF TableInv, TableSound, TypeOK
  <2>2. UpTo(inbox[d], e, Due(e, s))
    BY <1>1, <1>8, <1>9, <2>1 DEF Delivered, Ended
  <2>3. s \in todo' <=> s \in todo
    BY <1>0, <1>1, <1>9
  <2> QED BY <1>0, <1>1, <1>2, <1>5, <1>8, <1>9, <2>1, <2>2, <2>3 DEF Due
<1>10. ASSUME phase' = "send", NEW d \in Clients, \A f \in Fds : peer[f] # d
       PROVE  inbox'[d] = <<>>
  <2>1. d # d0
    BY <1>0, <1>1, <1>4, <1>10 DEF TableInv, TableSound, TypeOK
  <2> QED BY <1>1, <1>8, <1>10, <2>1 DEF Delivered, Ended
<1>11. ASSUME InOrder(inbox'[d0], d0)
       PROVE  InboxInOrder'
  <2>1. \A e \in Clients : InOrder(inbox[e], e)
    BY InboxInOrderIs
  <2>2. \A e \in Clients : InOrder(inbox'[e], e)
    BY <1>8, <1>11, <2>1
  <2> QED BY <2>2 DEF InboxInOrder, InOrder
<1>12. ASSUME phase' = "send" =>
                \A e \in Clients : cl'[d0] = "up" /\ ~rst[d0] => UpTo(inbox'[d0], e, Due(e, s0)')
       PROVE  Delivered'
  <2>1. SUFFICES ASSUME phase' = "send"
                 PROVE  Delivered'
    BY <1>1 DEF Delivered, Ended
  <2>2. ASSUME NEW s \in Slots \ {0}, NEW e \in Clients, NEW d, d = peer[pfds[s].fd],
               cl'[d] = "up", ~rst[d]
        PROVE  UpTo(inbox'[d], e, Due(e, s)')
    <3>1. CASE s = s0
      BY <1>0, <1>12, <2>1, <2>2, <3>1
    <3>2. CASE s # s0
      <4>1. d # d0
        <5>1. \A f, g \in Fds : f # g /\ peer[f] = peer[g] => peer[f] = "none"
          BY <1>1 DEF TableInv, Table
        <5>2. pfds[s].fd \in Fds /\ pfds[s0].fd \in Fds /\ pfds[s].fd # pfds[s0].fd /\ d # "none"
          <6>1. pfds[s].fd \in events /\ pfds[s0].fd \in events /\ d # "none"
            BY <1>0, <1>1, <1>4, <2>2 DEF TableInv, TableSound
          <6>2. events \subseteq Fds
            BY <1>1 DEF TableInv, TypeOK
          <6>3. pfds[s].fd # pfds[s0].fd
            BY <1>1, <1>4, <2>2, <3>2 DEF TableInv, TableSound
          <6> QED BY <6>1, <6>2, <6>3
        <5> QED BY <1>0, <2>2, <5>1, <5>2
      <4> QED BY <1>9, <2>1, <2>2, <4>1
    <3> QED BY <3>1, <3>2
  <2>3. UNCHANGED <<pfds, peer, rst>>
    BY <1>1 DEF table
  <2> QED BY <1>2, <1>10, <2>1, <2>2, <2>3 DEF Delivered
<1>13. InOrder(inbox[d0], d0)
  BY <1>4, InboxInOrderIs
<1>14. CASE ~(cl[d0] = "up" /\ ~rst[d0])
  <2>1. inbox' = inbox /\ ~(cl'[d0] = "up" /\ ~rst[d0])
    BY <1>1, <1>4, <1>14 DEF TableInv, TypeOK
  <2>2. InOrder(inbox'[d0], d0)
    BY <1>13, <2>1
  <2> QED BY <1>1, <1>5, <1>6, <1>11, <1>12, <2>1, <2>2
<1>15. CASE cl[d0] = "up" /\ ~rst[d0]
  <2>1. phase' = "send" /\ inbox'[d0] = inbox[d0] \o msg
    BY <1>1, <1>4, <1>15 DEF TableInv, TypeOK
  <2>2. \A e \in Clients : UpTo(inbox[d0], e, Due(e, s0))
    BY <1>0, <1>1, <1>4, <1>15 DEF Delivered, Ended
  <2>3. Due(c, s0) = Taken(c) - Len(msg) /\ \A e \in Clients \ {c} : Due(e, s0) = Taken(e)
    BY <1>0, <1>1, <1>4 DEF Due
  <2>4. \A e \in Clients : Due(e, s0)' = Taken(e)
    BY <1>1, <1>5 DEF Due
  <2>5. Taken(c) \in Int
    BY <1>7 DEF Taken
  <2>6. UpTo(inbox[d0], c, Taken(c) - Len(msg))
    BY <1>2, <2>2, <2>3
  <2>7. /\ InOrder(inbox'[d0], d0) /\ UpTo(inbox'[d0], c, Taken(c))
        /\ \A e \in Clients \ {c} : \A number :
             UpTo(inbox[d0], e, number) => UpTo(inbox'[d0], e, number)
    BY <1>2, <1>3, <1>4, <1>7, <1>13, <2>1, <2>5, <2>6, NextChunks
  <2>8. \A e \in Clients : UpTo(inbox'[d0], e, Due(e, s0)')
    BY <1>2, <2>2, <2>3, <2>4, <2>7
  <2> QED BY <1>1, <1>5, <1>6, <1>11, <1>12, <2>7, <2>8
<1> QED BY <1>14, <1>15

LEMMA ClientOrder ==
  ASSUME IInv, NEW c \in Clients, Client(c)
  PROVE  IInv'
<1> USE DEF IInv
<1>1. TableInv'
  BY ClientStep
<1>2. /\ UNCHANGED <<phase, running, table, loop, sending, inbox>>
      /\ \A e \in Clients : cl'[e] = "up" /\ cl[e] # "up" => cl[e] = "new"
      /\ \A e \in Clients : ~rst'[e] => ~rst[e]
      /\ \/ UNCHANGED <<said, in>>
         \/ /\ said' = [said EXCEPT ![c] = said[c] + 1]
            /\ in' = [in EXCEPT ![c] = Append(in[c], said[c] + 1)]
  BY DEF Client, Connect, Say, Leave, Reset, TableInv, TypeOK
<1>3. said[c] \in Nat /\ in[c] \in Seq(Nat)
  BY DEF TableInv, TypeOK
<1>4. Unread' /\ \A e \in Clients : Taken(e)' = Taken(e)
  <2>1. CASE UNCHANGED <<said, in>>
    BY <2>1 DEF Unread, Taken
  <2>2. CASE /\ said' = [said EXCEPT ![c] = said[c] + 1]
             /\ in' = [in EXCEPT ![c] = Append(in[c], said[c] + 1)]
    <3>1. /\ said'[c] = said[c] + 1 /\ in'[c] = Append(in[c], said[c] + 1)
          /\ \A e \in Clients \ {c} : said'[e] = said[e] /\ in'[e] = in[e]
      BY <2>2 DEF TableInv, TypeOK
    <3>2. /\ Len(in'[c]) = Len(in[c]) + 1 /\ in'[c][Len(in[c]) + 1] = said[c] + 1 /\ Len(in[c]) \in Nat
          /\ \A k \in 1..Len(in[c]) : in'[c][k] = in[c][k]
      BY <1>3, <3>1
    <3>3. Taken(c)' = Taken(c)
      <4>1. Taken(c)' = said[c] + 1 - (Len(in[c]) + 1)
        <5>1. /\ said'[c] = said[c] + 1 /\ Len(in'[c]) = Len(in[c]) + 1
              /\ said[c] \in Nat /\ Len(in[c]) \in Nat
          BY <1>3, <3>1, <3>2
        <5> QED BY <5>1 DEF Taken
      <4> QED BY <1>3, <3>2, <4>1 DEF Taken
    <3>4. \A e \in Clients \ {c} : Taken(e)' = Taken(e)
      BY <3>1 DEF Taken
    <3>5. \A k \in 1..Len(in'[c]) : in'[c][k] = Taken(c) + k
      <4>1. ASSUME NEW k \in 1..Len(in'[c])
            PROVE  in'[c][k] = Taken(c) + k
        <5>1. CASE k \in 1..Len(in[c])
          BY <3>2, <5>1 DEF Unread
        <5>2. CASE k = Len(in[c]) + 1
          BY <1>3, <3>2, <5>2 DEF Taken
        <5> QED BY <3>2, <5>1, <5>2
      <4> QED BY <4>1
    <3>6. \A e \in Clients : Taken(e)' = Taken(e)
      BY <3>3, <3>4
    <3>7. \A e \in Clients : \A k \in 1..Len(in'[e]) : in'[e][k] = Taken(e)'+ k
      BY <3>1, <3>5, <3>6 DEF Unread
    <3> QED BY <3>6, <3>7 DEF Unread, Taken
  <2> QED BY <1>2, <2>1, <2>2
<1>5. Message'
  <2>1. UNCHANGED <<phase, msg, todo, Sender, Destinations>>
    BY <1>2 DEF table, loop, sending, Sender, Destinations, Slots
  <2>2. CASE phase = "send"
    <3>1. Sender \in Clients
      BY <2>2, SenderIs
    <3>2. Taken(Sender)' = Taken(Sender)
      BY <1>4, <2>1, <3>1 DEF Taken
    <3> QED BY <2>1, <3>2 DEF Message
  <2> QED BY <2>1, <2>2 DEF Message
<1>6. InboxInOrder'
  BY <1>2 DEF InboxInOrder
<1>7. Delivered'
  <2> SUFFICES ASSUME phase \notin Ended
               PROVE  Delivered'
    BY <1>2 DEF Delivered
  <2>1. UNCHANGED <<phase, todo, pfds, peer, inbox, Slots, Sender, msg>>
    BY <1>2 DEF table, sending, loop, Slots, Sender
  <2>2. ASSUME NEW s \in Slots \ {0}, NEW e \in Clients, NEW d, d = peer[pfds[s].fd],
               cl'[d] = "up", ~rst'[d]
        PROVE  UpTo(inbox[d], e, Due(e, s)')
    <3>1. pfds[s].fd \in Fds /\ d \in Clients
      BY <2>2 DEF TableInv, TableSound, TypeOK, Ended
    <3>2. cl[d] # "new"
      BY <2>2, <3>1 DEF TableInv, Table
    <3>3. UpTo(inbox[d], e, Due(e, s))
      BY <1>2, <2>2, <3>1, <3>2 DEF Delivered
    <3>4. Due(e, s)' = Due(e, s)
      BY <1>4, <2>1 DEF Due
    <3> QED BY <3>3, <3>4
  <2>3. \A d \in Clients : (\A f \in Fds : peer[f] # d) => inbox[d] = <<>>
    BY DEF Delivered
  <2> QED BY <2>1, <2>2, <2>3 DEF Delivered
<1> QED BY <1>1, <1>4, <1>5, <1>6, <1>7

LEMMA NextIInv == IInv /\ [Next]_vars => IInv'
<1> SUFFICES ASSUME IInv, [Next]_vars
             PROVE  IInv'
  OBVIOUS
<1>1. CASE UNCHANGED vars
  <2>1. TableInv'
    BY <1>1, NextTable DEF IInv
  <2> USE DEF vars, table, loop, sending, clients
  <2>2. Unread' /\ InboxInOrder' /\ Message'
    BY <1>1 DEF IInv, Unread, Message, InboxInOrder, Taken, Sender, Destinations, Slots
  <2>3. Delivered'
    <3>1. \A s, c : Due(c, s)' = Due(c, s)
      BY <1>1 DEF Due, Taken, Sender
    <3>2. UNCHANGED <<phase, pfds, peer, cl, rst, inbox, Slots>>
      BY <1>1 DEF Slots
    <3> HIDE DEF vars, table, loop, sending, clients
    <3> QED BY <3>1, <3>2 DEF IInv, Delivered
  <2> QED BY <2>1, <2>2, <2>3 DEF IInv
<1>2. CASE Server
  BY <1>2, QuietSteps, AcceptQuiet, RecvDataOrder, SendOrder DEF Server
<1>3. CASE \E c \in Clients : Client(c)
  BY <1>3, ClientOrder
<1> QED BY <1>1, <1>2, <1>3 DEF Next

(* Every client gets the chunks of every other one in the order they were  *)
(* sent and without a gap, however the table is changed in the meantime    *)
(* (react_server.c:284, 307-313, 366).                                     *)
THEOREM ChunksInOrder == Spec => []InboxInOrder
  BY InitIInv, NextIInv, PTL DEF Spec, IInv
=============================================================================

------------------------------ MODULE Reactor -------------------------------
(***************************************************************************)
(* task4: react_server.c, a chat server with one thread around poll.  The  *)
(* array pfds starts with the listener; what one client sends goes to all  *)
(* others.  Clients and the kernel act between any two steps of the        *)
(* server, so that revents is a picture of the past when it is used.       *)
(***************************************************************************)
EXTENDS Integers, Sequences, FiniteSets, Functions

CONSTANTS
  Clients,   \* connections that may be made
  Fds,       \* descriptor numbers a new connection can get
  Listener,  \* the listener's number
  InitSize,  \* fd_size of a new reactor; 5 in the code
  Deaf,      \* the clients that never read what they are sent
  Room,      \* messages for which there is room on the way to one of them
  MaxSay     \* bound: chunks all clients send together

ASSUME ReactorAssumption ==
  /\ IsFiniteSet(Clients) /\ IsFiniteSet(Fds)
  /\ Fds \subseteq Nat /\ Listener \in Nat \ Fds
  /\ InitSize \in Nat \ {0} /\ MaxSay \in Nat
  /\ Deaf \subseteq Clients /\ Room \in Nat
  /\ "none" \notin Clients

VARIABLES
  phase,    \* where the server is
  running,  \* reactor->running
  pfds,     \* slot -> [fd, rev]; slots 0 .. fd_size - 1 exist
  fdCount, fdSize,
  i,        \* the loop variable over the slots
  room,     \* the length of the array descriptorsToRemove of this pass
  marks,    \* the indices in it that are still to be removed
  msg,      \* what was received and is being sent to the others
  todo,     \* the slots it has still to be sent to
  events,   \* the ids in reactor->events; their handlers are all null
  peer,     \* the client at the other end of a descriptor, or "none"
  cl,       \* state of each client
  said,     \* how many chunks it has sent
  in,       \* chunks of it that the server has not read
  rst,      \* its connection is reset, as the server's kernel sees it
  inbox,    \* history: what it was sent, as <<client, chunk>>
  marked,   \* history: descriptors that were ever marked for removal
  doubled   \* history: some pass marked more than one

clients == <<cl, said, in, rst, inbox>>
table == <<pfds, fdCount, fdSize, events, peer>>
loop == <<i, room, marks, marked, doubled>>
sending == <<msg, todo>>
vars == <<phase, running, table, loop, sending, clients>>

Revents == SUBSET {"in", "err"}   \* POLLIN; POLLERR, POLLHUP or POLLNVAL
Slots == 0..(fdCount - 1)
Polled == {pfds[s].fd : s \in Slots}
Ended == {"returned", "died", "crashed"}

(* main: calloc zeroes the first slots. *)
Init ==
  /\ phase = "poll" /\ running = TRUE
  /\ pfds = [s \in 0..(InitSize - 1) |-> [fd |-> IF s = 0 THEN Listener ELSE 0, rev |-> {}]]
  /\ fdCount = 1 /\ fdSize = InitSize
  /\ i = 0 /\ room = 1 /\ marks = <<>>
  /\ events = {} /\ peer = [f \in Fds |-> "none"]
  /\ cl = [c \in Clients |-> "new"]
  /\ said = [c \in Clients |-> 0]
  /\ in = [c \in Clients |-> <<>>]
  /\ rst = [c \in Clients |-> FALSE]
  /\ inbox = [c \in Clients |-> <<>>]
  /\ msg = <<>> /\ todo = {}
  /\ marked = {} /\ doubled = FALSE

-----------------------------------------------------------------------------
(* The clients and the network: not part of the repository. *)
Connect(c) ==
  /\ cl[c] = "new" /\ phase \notin Ended
  /\ cl' = [cl EXCEPT ![c] = "up"]
  /\ UNCHANGED <<said, in, rst, inbox>>

Say(c) ==
  /\ cl[c] = "up" /\ FoldFunction(+, 0, said) < MaxSay
  /\ said' = [said EXCEPT ![c] = @ + 1]
  /\ in' = [in EXCEPT ![c] = Append(@, said[c] + 1)]
  /\ UNCHANGED <<cl, rst, inbox>>

Leave(c) ==
  /\ cl[c] = "up"
  /\ cl' = [cl EXCEPT ![c] = "closed"]
  /\ UNCHANGED <<said, in, rst, inbox>>

(* It closes with data unread, is killed, or answers what still comes for  *)
(* a closed connection ("poked"): the connection is reset.                 *)
Reset(c) ==
  /\ cl[c] \in {"up", "poked"}
  /\ cl' = [cl EXCEPT ![c] = "closed"]
  /\ rst' = [rst EXCEPT ![c] = TRUE]
  /\ UNCHANGED <<said, in, inbox>>

Client(c) ==
  /\ Connect(c) \/ Say(c) \/ Leave(c) \/ Reset(c)
  /\ UNCHANGED <<phase, running, table, loop, sending>>

-----------------------------------------------------------------------------
(* What poll and recv find. *)
Backlog == {c \in Clients : cl[c] # "new" /\ \A f \in Fds : peer[f] # c}
Gone(c) == rst[c] \/ cl[c] \in {"closed", "poked"}
Readable(f) ==
  IF f = Listener THEN Backlog # {} ELSE in[peer[f]] # <<>> \/ Gone(peer[f])
ReventsOf(f) ==
  (IF Readable(f) THEN {"in"} ELSE {})
    \cup (IF f # Listener /\ rst[peer[f]] THEN {"err"} ELSE {})

(* Mutant: the array of indices has no place for a descriptor that is      *)
(* added in the pass.                                                      *)
PollRoomShort ==
  /\ phase = "poll"
  /\ \E f \in Polled : Readable(f)
  /\ pfds' = [s \in DOMAIN pfds |->
                IF s \in Slots THEN [pfds[s] EXCEPT !.rev = ReventsOf(pfds[s].fd)] ELSE pfds[s]]
  /\ phase' = "scan" /\ i' = 0 /\ room' = fdCount - 1 /\ marks' = <<>>
  /\ UNCHANGED <<running, fdCount, fdSize, events, peer, sending, clients, marked, doubled>>

(* poll, up to its next return with something to report: a timeout only    *)
(* leads back to it.  The array of indices gets the size of this moment.   *)
Poll ==
  /\ phase = "poll"
  /\ \E f \in Polled : Readable(f)
  /\ pfds' = [s \in DOMAIN pfds |->
                IF s \in Slots THEN [pfds[s] EXCEPT !.rev = ReventsOf(pfds[s].fd)] ELSE pfds[s]]
  /\ phase' = "scan" /\ i' = 0 /\ room' = fdCount /\ marks' = <<>>
  /\ UNCHANGED <<running, fdCount, fdSize, events, peer, sending, clients, marked, doubled>>

Skip ==
  /\ phase = "scan" /\ i < fdCount /\ pfds[i].rev = {}
  /\ i' = i + 1
  /\ UNCHANGED <<phase, running, table, room, marks, sending, clients, marked, doubled>>

(* handleEvent calls the handler registered for f: addFd has registered a  *)
(* null pointer for every descriptor.                                      *)
HandlerCrashes(f) == f \in events

(* Mutant: the array is never grown. *)
AddFdNoGrowth(f) ==
  /\ pfds' = [pfds EXCEPT ![fdCount].fd = f]
  /\ fdCount' = fdCount + 1
  /\ events' = events \cup {f}
  /\ UNCHANGED fdSize

(* addFd writes fd and events of the next slot, and leaves its revents: a  *)
(* former occupant's, or whatever realloc finds.                           *)
AddFd(f) ==
  /\ \/ fdCount < fdSize /\ pfds' = [pfds EXCEPT ![fdCount].fd = f] /\ UNCHANGED fdSize
     \/ /\ fdCount = fdSize
        /\ fdSize' = 2 * fdSize
        /\ \E garbage \in [fdSize..(2 * fdSize - 1) -> Revents] :
             pfds' = [s \in 0..(2 * fdSize - 1) |->
                        IF s < fdSize THEN pfds[s]
                        ELSE [fd |-> IF s = fdSize THEN f ELSE 0, rev |-> garbage[s]]]
  /\ fdCount' = fdCount + 1
  /\ events' = events \cup {f}

Lowest(S) == CHOOSE f \in S : \A g \in S : f <= g

(* accept hands out the lowest number that is free, and fails if there is  *)
(* none.                                                                   *)
Accept ==
  /\ phase = "scan" /\ i < fdCount
  /\ "in" \in pfds[i].rev /\ pfds[i].fd = Listener
  /\ LET free == {f \in Fds : peer[f] = "none"}
         f == Lowest(free)
     IN IF free = {}
          THEN UNCHANGED <<phase, pfds, fdCount, fdSize, events, peer>>
          ELSE /\ \E c \in Backlog : peer' = [peer EXCEPT ![f] = c]
               /\ IF HandlerCrashes(f)
                    THEN phase' = "crashed" /\ UNCHANGED <<pfds, fdCount, fdSize, events>>
                    ELSE AddFd(f) /\ UNCHANGED phase
  /\ i' = i + 1
  /\ UNCHANGED <<running, room, marks, sending, clients, marked, doubled>>

StartRecv ==
  /\ phase = "scan" /\ i < fdCount
  /\ "in" \in pfds[i].rev /\ pfds[i].fd # Listener
  /\ phase' = "recv"
  /\ UNCHANGED <<running, table, loop, sending, clients>>

Mark(s) ==
  /\ marks' = Append(marks, s)
  /\ marked' = marked \cup {pfds[s].fd}
  /\ doubled' = (doubled \/ marks # <<>>)

(* Mutant: the descriptor is closed, its event stays registered. *)
RecvEndCloses ==
  /\ phase = "recv"
  /\ LET c == peer[pfds[i].fd] IN in[c] = <<>> /\ Gone(c)
  /\ Mark(i)
  /\ peer' = [peer EXCEPT ![pfds[i].fd] = "none"]
  /\ phase' = "scan" /\ i' = i + 1
  /\ UNCHANGED <<running, pfds, fdCount, fdSize, events, room, sending, clients>>

(* recv on a blocking socket: it waits when there is nothing to read. *)
RecvEnd ==
  /\ phase = "recv"
  /\ LET c == peer[pfds[i].fd] IN in[c] = <<>> /\ Gone(c)
  /\ Mark(i)
  /\ phase' = "scan" /\ i' = i + 1
  /\ UNCHANGED <<running, table, room, sending, clients>>

(* Mutant: the sender is not left out. *)
DestinationsAll == {s \in Slots : pfds[s].fd # Listener}

(* Slots the data from slot i is sent to. *)
Destinations == {s \in Slots : pfds[s].fd \notin {Listener, pfds[i].fd}}

RecvData ==
  /\ phase = "recv"
  /\ LET c == peer[pfds[i].fd] IN
       \E n \in 1..Len(in[c]) :
         /\ in' = [in EXCEPT ![c] = SubSeq(@, n + 1, Len(@))]
         /\ msg' = [k \in 1..n |-> <<c, in[c][k]>>]
  /\ phase' = "send" /\ todo' = Destinations
  /\ UNCHANGED <<running, table, loop, cl, said, rst, inbox>>

(* send blocks when there is no room on the way to d. *)
SendBlocks(d) == cl[d] = "up" /\ ~rst[d] /\ d \in Deaf /\ Len(inbox[d]) >= Room

(* Sending to a connection that is reset ends the process (exit(1) or      *)
(* SIGPIPE); sending to a closed one provokes the reset.                   *)
Send ==
  /\ phase = "send" /\ todo # {}
  /\ LET s == Lowest(todo)
         d == peer[pfds[s].fd]
     IN /\ ~SendBlocks(d)
        /\ IF rst[d] THEN phase' = "died" ELSE UNCHANGED phase
        /\ inbox' = IF cl[d] = "up" /\ ~rst[d] THEN [inbox EXCEPT ![d] = @ \o msg] ELSE inbox
        /\ cl' = IF cl[d] = "closed" /\ ~rst[d] THEN [cl EXCEPT ![d] = "poked"] ELSE cl
        /\ todo' = todo \ {s}
  /\ UNCHANGED <<running, table, loop, said, in, rst, msg>>

EndSend ==
  /\ phase = "send" /\ todo = {}
  /\ msg' = <<>>
  /\ IF "err" \in pfds[i].rev THEN phase' = "hup" /\ UNCHANGED i
                              ELSE phase' = "scan" /\ i' = i + 1
  /\ UNCHANGED <<running, table, room, marks, marked, doubled, todo, clients>>

(* An error or hangup is reported: after data was read, or for a slot      *)
(* without POLLIN.  The descriptor is closed before its handler is called. *)
HangUp ==
  /\ \/ phase = "hup"
     \/ phase = "scan" /\ i < fdCount /\ pfds[i].rev = {"err"}
  /\ LET f == pfds[i].fd IN
       /\ peer' = [peer EXCEPT ![f] = "none"]
       /\ IF HandlerCrashes(f)
            THEN phase' = "crashed" /\ UNCHANGED <<i, marks, marked, doubled>>
            ELSE Mark(i) /\ phase' = "scan" /\ i' = i + 1
  /\ UNCHANGED <<running, pfds, fdCount, fdSize, events, room, sending, clients>>

(* Mutant: the pass ends one slot too early. *)
EndScanEarly ==
  /\ phase = "scan" /\ i >= fdCount - 1
  /\ phase' = "remove"
  /\ UNCHANGED <<running, table, loop, sending, clients>>

EndScan ==
  /\ phase = "scan" /\ i >= fdCount
  /\ phase' = "remove"
  /\ UNCHANGED <<running, table, loop, sending, clients>>

(* Mutant: the last descriptor is copied, and kept. *)
DelFromPfdsKeepCount(s) ==
  /\ pfds' = [pfds EXCEPT ![s] = pfds[fdCount - 1]]
  /\ running' = (running /\ fdCount # 1)
  /\ UNCHANGED fdCount

DelFromPfds(s) ==
  /\ pfds' = [pfds EXCEPT ![s] = pfds[fdCount - 1]]
  /\ fdCount' = fdCount - 1
  /\ running' = (running /\ fdCount - 1 # 1)

Remove ==
  /\ phase = "remove" /\ marks # <<>>
  /\ DelFromPfds(Head(marks))
  /\ marks' = Tail(marks)
  /\ UNCHANGED <<phase, fdSize, events, peer, i, room, sending, clients, marked, doubled>>

(* while (running); then destroyReactor and the end of the process.        *)
EndPass ==
  /\ phase = "remove" /\ marks = <<>>
  /\ phase' = IF running THEN "poll" ELSE "returned"
  /\ UNCHANGED <<running, table, loop, sending, clients>>

Server == Poll \/ Skip \/ Accept \/ StartRecv \/ RecvEnd \/ RecvData \/ Send \/ EndSend
            \/ HangUp \/ EndScan \/ Remove \/ EndPass

Next == Server \/ \E c \in Clients : Client(c)

Spec == Init /\ [][Next]_vars

(* The server goes on whenever it can; clients need not do anything. *)
FairSpec == Spec /\ WF_vars(Server)

-----------------------------------------------------------------------------
TypeOK ==
  /\ phase \in {"poll", "scan", "recv", "send", "hup", "remove"} \cup Ended
  /\ running \in BOOLEAN
  /\ fdSize \in Nat /\ fdCount \in 1..fdSize
  /\ pfds \in [0..(fdSize - 1) -> [fd : Fds \cup {0, Listener}, rev : Revents]]
  /\ i \in 0..fdSize /\ room \in 1..fdSize
  /\ marks \in Seq(1..(fdSize - 1))
  /\ msg \in Seq(Clients \X Nat) /\ todo \subseteq 0..(fdSize - 1)
  /\ events \subseteq Fds /\ marked \subseteq Fds
  /\ peer \in [Fds -> Clients \cup {"none"}]
  /\ cl \in [Clients -> {"new", "up", "closed", "poked"}]
  /\ said \in [Clients -> Nat] /\ in \in [Clients -> Seq(Nat)]
  /\ rst \in [Clients -> BOOLEAN] /\ doubled \in BOOLEAN
  /\ inbox \in [Clients -> Seq(Clients \X Nat)]

(* The array of indices, sized before the pass, holds all marks although   *)
(* a descriptor is added in the middle of it; they ascend and never name   *)
(* the listener (react_server.c:243, 278, 295).                            *)
RemovalsFit ==
  phase \in {"scan", "recv", "send"} =>
    /\ Len(marks) <= room
    /\ \A a \in 1..Len(marks) : marks[a] \in 1..(fdCount - 1)
    /\ \A a, b \in 1..Len(marks) : a < b => marks[a] < marks[b]

(* Whatever is removed, even wrongly, the listener stays in front, no      *)
(* descriptor is polled twice, and each belongs to a connection.           *)
TableSound ==
  /\ pfds[0].fd = Listener
  /\ \A s, t \in Slots : s # t => pfds[s].fd # pfds[t].fd
  /\ phase # "crashed" => \A s \in Slots \ {0} :
       pfds[s].fd \in events /\ peer[pfds[s].fd] # "none"

(* As long as no two clients leave in one pass, exactly those are polled   *)
(* that were accepted and have not been marked.                            *)
SingleRemovalExact ==
  ~doubled /\ phase = "poll" => Polled = {Listener} \cup (events \ marked)

(* A client gets no chunk of its own, and the chunks of another one in the *)
(* order they were sent and without a gap, from the first it got on: the   *)
(* next one after m from the same sender carries the next number.          *)
InboxInOrder ==
  \A d \in Clients :
    \A n \in 1..Len(inbox[d]) :
      /\ inbox[d][n][1] # d
      /\ \A m \in 1..(n - 1) :
           /\ inbox[d][m][1] = inbox[d][n][1]
           /\ \A k \in (m + 1)..(n - 1) : inbox[d][k][1] # inbox[d][n][1]
           => inbox[d][n][2] = inbox[d][m][2] + 1

(* accept never meets a handler: numbers are not used again, because the   *)
(* server does not close the descriptors it removes (react_server.c:275,   *)
(* 295-297).                                                               *)
NumbersFresh ==
  phase \notin Ended => \A f \in Fds : peer[f] = "none" => f \notin events

(* Blocked in recv although there is nothing to read, or in send because   *)
(* the other end does not read.                                            *)
RecvBlocked == phase = "recv" /\ ~Readable(pfds[i].fd)
SendBlocked == phase = "send" /\ todo # {} /\ SendBlocks(peer[pfds[Lowest(todo)].fd])
Blocked == RecvBlocked \/ SendBlocked

(* "Check if someone's ready to read" (react_server.c:250): recv is called *)
(* only for a descriptor that has something to read.                       *)
ReadyWhenRead == ~RecvBlocked

(* "Remove the descriptors from reactor->pfds" (react_server.c:363): after *)
(* the pass the marked descriptors, and no others, are gone.               *)
RemovalExact == phase = "poll" => Polled = {Listener} \cup (events \ marked)

(* What a polled client has sent is read, or it is no longer polled, or    *)
(* the server has ended, or it is blocked by a client that is silent or    *)
(* does not read.                                                          *)
DataIsRead ==
  \A f \in Fds :
    (f \in Polled /\ peer[f] # "none" /\ in[peer[f]] # <<>>)
      ~> (f \notin Polled \/ peer[f] = "none" \/ in[peer[f]] = <<>>
            \/ Blocked \/ phase \in Ended)

(* Who connects is accepted while there is a free number, unless the       *)
(* server is blocked, or has ended because the last client before it left  *)
(* (react_server.c:213, 261).                                              *)
BacklogServed ==
  \A c \in Clients :
    (c \in Backlog)
      ~> (c \notin Backlog \/ (\A f \in Fds : peer[f] # "none")
            \/ Blocked \/ phase \in Ended)
=============================================================================

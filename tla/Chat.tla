-------------------------------- MODULE Chat --------------------------------
(***************************************************************************)
(* task3: stnc.c, the chat between two hosts.  After the connection is     *)
(* made each host forks: the child shows what arrives, the parent sends    *)
(* what is typed.  Both processes hold the same socket, which the kernel   *)
(* closes when the last of them has ended; the end of a direction is seen  *)
(* by the other host as FIN, behind all data.                              *)
(***************************************************************************)
EXTENDS Naturals, Sequences

CONSTANTS Client, Server,  \* the two hosts: stnc -c and stnc -s
          MaxLines         \* bound: lines typed on a host

Host == {Client, Server}
Other(h) == IF h = Client THEN Server ELSE Client

ASSUME ChatAssumption == Client # Server /\ MaxLines \in Nat

VARIABLES
  parent,  \* the process that was started
  child,   \* the forked one
  sent,    \* how many lines the parent has sent
  wire,    \* wire[h]: what h has sent and Other(h) has not received
  shut,    \* h has ended its direction
  shown,   \* history: the lines shown on h
  eof      \* history: the hosts on which the user has ended the input

vars == <<parent, child, sent, wire, shut, shown, eof>>

Fin == 0  \* on the wire; lines are 1, 2, ...

Init ==
  /\ parent = [h \in Host |-> "start"]
  /\ child = [h \in Host |-> "none"]
  /\ sent = [h \in Host |-> 0]
  /\ wire = [h \in Host |-> <<>>]
  /\ shut = [h \in Host |-> FALSE]
  /\ shown = [h \in Host |-> <<>>]
  /\ eof = {}

-----------------------------------------------------------------------------
(* main up to the fork. *)
Listen ==
  /\ parent[Server] = "start"
  /\ parent' = [parent EXCEPT ![Server] = "listening"]
  /\ UNCHANGED <<child, sent, wire, shut, shown, eof>>

(* connect is refused when the server does not listen yet: the client      *)
(* returns 1.  Otherwise the kernel completes it without accept.           *)
Connect ==
  /\ parent[Client] = "start"
  /\ IF parent[Server] = "listening"
       THEN /\ parent' = [parent EXCEPT ![Client] = "chat"]
            /\ child' = [child EXCEPT ![Client] = "recv"]
       ELSE parent' = [parent EXCEPT ![Client] = "refused"] /\ UNCHANGED child
  /\ UNCHANGED <<sent, wire, shut, shown, eof>>

Accept ==
  /\ parent[Server] = "listening" /\ parent[Client] \notin {"start", "refused"}
  /\ parent' = [parent EXCEPT ![Server] = "chat"]
  /\ child' = [child EXCEPT ![Server] = "recv"]
  /\ UNCHANGED <<sent, wire, shut, shown, eof>>

(* h ends its direction, once. *)
EndDirection(h) ==
  /\ wire' = IF shut[h] THEN wire ELSE [wire EXCEPT ![h] = Append(@, Fin)]
  /\ shut' = [shut EXCEPT ![h] = TRUE]

-----------------------------------------------------------------------------
(* The parent: what the user types.  A line is sent as it is. *)
Send(h) ==
  /\ parent[h] = "chat" /\ sent[h] < MaxLines
  /\ sent' = [sent EXCEPT ![h] = @ + 1]
  /\ wire' = [wire EXCEPT ![h] = Append(@, sent[h] + 1)]
  /\ UNCHANGED <<parent, child, shut, shown, eof>>

(* Mutant: exit ends the direction, as the end of input does. *)
ExitShuts(h) ==
  /\ parent[h] = "chat"
  /\ parent' = [parent EXCEPT ![h] = "ended"]
  /\ EndDirection(h)
  /\ UNCHANGED <<child, sent, shown, eof>>

(* "exit": the parent exits; the socket stays open while the child runs.   *)
Exit(h) ==
  /\ parent[h] = "chat"
  /\ parent' = [parent EXCEPT ![h] = "ended"]
  /\ IF child[h] = "ended" THEN EndDirection(h) ELSE UNCHANGED <<wire, shut>>
  /\ UNCHANGED <<child, sent, shown, eof>>

(* Mutant: the end of input ends the parent without a shutdown. *)
EofNoShutdown(h) ==
  /\ parent[h] = "chat"
  /\ parent' = [parent EXCEPT ![h] = "ended"]
  /\ IF child[h] = "ended" THEN EndDirection(h) ELSE UNCHANGED <<wire, shut>>
  /\ eof' = eof \cup {h}
  /\ UNCHANGED <<child, sent, shown>>

(* End of input: shutdown(SHUT_WR), then the end of main. *)
Eof(h) ==
  /\ parent[h] = "chat"
  /\ parent' = [parent EXCEPT ![h] = "ended"]
  /\ EndDirection(h)
  /\ eof' = eof \cup {h}
  /\ UNCHANGED <<child, sent, shown>>

-----------------------------------------------------------------------------
(* The child: handle_client. *)
(* Mutant: a line that arrives while one is shown replaces it. *)
ShowLast(h) ==
  /\ child[h] = "recv" /\ wire[Other(h)] # <<>> /\ Head(wire[Other(h)]) # Fin
  /\ LET w == wire[Other(h)]
         n == CHOOSE k \in 1..Len(w) : w[k] # Fin /\ \A j \in 1..Len(w) : j > k => w[j] = Fin
     IN /\ shown' = [shown EXCEPT ![h] = Append(@, w[n])]
        /\ wire' = [wire EXCEPT ![Other(h)] = SubSeq(@, n + 1, Len(@))]
  /\ UNCHANGED <<parent, child, sent, shut, eof>>

(* Mutant: the end of the stream is taken for data. *)
ShowFin(h) ==
  /\ child[h] = "recv"
  /\ LET w == wire[Other(h)] IN
       \E n \in 1..Len(w) :
         /\ shown' = [shown EXCEPT ![h] = @ \o SubSeq(w, 1, n)]
         /\ wire' = [wire EXCEPT ![Other(h)] = SubSeq(w, n + 1, Len(w))]
  /\ UNCHANGED <<parent, child, sent, shut, eof>>

(* One recv shows one or several lines that have arrived. *)
Show(h) ==
  /\ child[h] = "recv"
  /\ LET w == wire[Other(h)] IN
       \E n \in 1..Len(w) :
         /\ \A k \in 1..n : w[k] # Fin
         /\ shown' = [shown EXCEPT ![h] = @ \o SubSeq(w, 1, n)]
         /\ wire' = [wire EXCEPT ![Other(h)] = SubSeq(w, n + 1, Len(w))]
  /\ UNCHANGED <<parent, child, sent, shut, eof>>

(* Mutant: the child ends at the first line. *)
HangUpEarly(h) ==
  /\ child[h] = "recv" /\ wire[Other(h)] # <<>>
  /\ child' = [child EXCEPT ![h] = "ended"]
  /\ IF parent[h] = "ended" THEN EndDirection(h) ELSE UNCHANGED <<wire, shut>>
  /\ UNCHANGED <<parent, sent, shown, eof>>

(* recv returns 0 at the end of the other direction; the child returns     *)
(* from main, and the socket is closed if the parent is gone.              *)
HangUp(h) ==
  /\ child[h] = "recv" /\ wire[Other(h)] # <<>> /\ Head(wire[Other(h)]) = Fin
  /\ child' = [child EXCEPT ![h] = "ended"]
  /\ IF parent[h] = "ended" THEN EndDirection(h) ELSE UNCHANGED <<wire, shut>>
  /\ UNCHANGED <<parent, sent, shown, eof>>

Setup == Listen \/ Connect \/ Accept
User(h) == Send(h) \/ Exit(h) \/ Eof(h)
Child(h) == Show(h) \/ HangUp(h)

Next == Setup \/ \E h \in Host : User(h) \/ Child(h)

Spec == Init /\ [][Next]_vars

(* The processes run; the users need not type anything. *)
FairSpec == Spec /\ WF_vars(Listen \/ Accept) /\ \A h \in Host : WF_vars(Child(h))

-----------------------------------------------------------------------------
TypeOK ==
  /\ parent \in [Host -> {"start", "listening", "refused", "chat", "ended"}]
  /\ child \in [Host -> {"none", "recv", "ended"}]
  /\ sent \in [Host -> 0..MaxLines]
  /\ wire \in [Host -> Seq(0..MaxLines)]
  /\ shut \in [Host -> BOOLEAN]
  /\ shown \in [Host -> Seq(1..MaxLines)]
  /\ eof \subseteq Host

(* Of n lines typed the first ones are shown and the others on their way,  *)
(* in this order, and behind them the end of the direction if it is over.  *)
Complete(got, way, over, n) ==
  LET lines == IF over THEN Len(way) - 1 ELSE Len(way)
  IN /\ Len(got) + lines = n
     /\ \A k \in 1..Len(got) : got[k] = k
     /\ \A k \in 1..lines : way[k] = Len(got) + k
     /\ over => lines >= 0 /\ way[lines + 1] = Fin

(* Every line typed is either shown or on the way: none is lost,           *)
(* doubled or overtaken, and a child ends only when all is shown, whatever *)
(* the order in which the four processes end (stnc.c:17-27, 92).           *)
LinesInOrder ==
  \A h \in Host :
    /\ Complete(shown[Other(h)], wire[h], shut[h], sent[h])
    /\ child[Other(h)] = "ended" => Len(shown[Other(h)]) = sent[h]

Closed(h) == parent[h] \in {"ended", "refused"} /\ child[h] # "recv"

(* A host is closed only when the other one can no longer send: no line is *)
(* ever sent to a closed socket, and no process is killed by SIGPIPE       *)
(* (stnc.c:92).                                                            *)
NoSendToClosed ==
  \A h \in Host : Closed(h) /\ parent[h] # "refused" => parent[Other(h)] = "ended"

AllEnded == \A h \in Host : parent[h] = "ended" /\ child[h] = "ended"
ParentsEnded == \A h \in Host : parent[h] = "ended"

(* When both users have left, at least one of them by end of input, all    *)
(* four processes end: the shutdown behind the loop (stnc.c:95) is what the *)
(* other host's child waits for, and its end in turn closes its socket.    *)
EofEnds == (ParentsEnded /\ eof # {}) ~> AllEnded

(* Nothing else ends them: a child, or a direction, ends only if somebody  *)
(* has ended the input.  When both users have typed exit, as they are      *)
(* asked to (stnc.c:70, 89), both children wait in recv for ever.          *)
EndNeedsEof ==
  eof = {} => \A h \in Host : child[h] # "ended" /\ ~shut[h]
=============================================================================

----------------------------- MODULE PerfProofs -----------------------------
(***************************************************************************)
(* Proofs about Perf, for any number of programs started with anything,    *)
(* any amount of data and any room: what is reported, and who blocks.      *)
(***************************************************************************)
EXTENDS Perf, TLAPS

Sender(p) == Serves(p) \/ Runs(p, "uds_stream") \/ Runs(p, "mmap") \/ Runs(p, "pipe")

(* Which program can be where. *)
Roles ==
  \A p \in Program :
    /\ pc[p] = "accept" => Serves(p)
    /\ pc[p] = "generate" => Serves(p) \/ Runs(p, "mmap")
    /\ pc[p] = "open" => Runs(p, "pipe")
    /\ pc[p] \in {"send", "reported"} => Sender(p)

(* Nobody reads what is sent to a connection that is queued, or to another *)
(* program of this kind; and nothing is sent before the data are there.    *)
Unread ==
  \A p \in Program :
    /\ far[p] \in {"queued", "program"} => full[p] = sent[p]
    /\ pc[p] \in {"main", "run", "open", "accept", "generate"} => sent[p] = 0

(* Only a program that sends has a peer of this kind, until it ends.       *)
Peers ==
  \A p \in Program : far[p] \in {"queued", "program"} =>
    pc[p] \in {"generate", "send"} \cup Final

IInv == TypeOK /\ Roles /\ Unread /\ Peers /\ ReportedWhole /\ JoinedBlocks

-----------------------------------------------------------------------------
LEMMA InitIInv == Init => IInv
  BY PerfAssumption DEF Init, IInv, TypeOK, Roles, Unread, Peers, ReportedWhole, JoinedBlocks,
     Final, Total

(* A step that only moves a program to a place that says nothing yet of    *)
(* what it has done.                                                       *)
LEMMA GotoStep ==
  ASSUME IInv, NEW p \in Program, NEW place, Goto(p, place),
         pc[p] \in {"main", "run", "open", "generate"},
         place \in {"run", "refused", "crashed", "failed", "open", "accept", "send"},
         place = "open" => Runs(p, "pipe"),
         place = "accept" => Serves(p),
         place = "send" => Sender(p),
         pc[p] = "generate" => place = "send"
  PROVE  IInv'
<1> USE PerfAssumption DEF Goto, IInv, Runs, Serves
<1>1. TypeOK'
  BY DEF TypeOK, Final, Total
<1>2. Roles'
  BY DEF TypeOK, Roles, Sender
<1>3. Unread'
  BY DEF Unread
<1>4. Peers'
  BY DEF TypeOK, Peers, Final
<1>5. ReportedWhole'
  BY DEF TypeOK, ReportedWhole, Total
<1>6. JoinedBlocks'
  BY DEF TypeOK, JoinedBlocks, Peers, Final
<1> QED BY <1>1, <1>2, <1>3, <1>4, <1>5, <1>6

(* A program ends: to others this is at most the end of a connection.      *)
LEMMA TerminateStep ==
  ASSUME IInv, NEW p \in Program, NEW how, Terminate(p, how),
         how \in {"reported", "failed", "killed"}, pc[p] \in {"generate", "send"},
         Cap < Data /\ far[p] = "program" => how = "failed" /\ pc[p] = "generate",
         how = "reported" =>
           /\ Sender(p)
           /\ \/ sent[p] = Total(p)
              \/ Serves(p) /\ far[p] = "reset"
              \/ Runs(p, "mmap") /\ sent[p] > 0 /\ far[p] \in {"closed", "reset"}
  PROVE  IInv'
<1> USE PerfAssumption DEF IInv, Runs, Serves
<1>0. /\ pc' = [pc EXCEPT ![p] = how] /\ UNCHANGED <<args, sent, full>>
      /\ far' \in [Program -> {"none", "open", "queued", "program", "closed", "reset"}]
      /\ \A q \in Program : far'[q] # far[q] => q # p /\ pc[q] \notin Final
      /\ \A q \in Program : far'[q] \in {"queued", "program"} => far[q] = far'[q]
  BY DEF Terminate, TypeOK
<1>1. TypeOK'
  BY <1>0 DEF TypeOK, Final, Total
<1>2. Roles'
  BY <1>0 DEF TypeOK, Roles, Sender
<1>3. Unread'
  BY <1>0 DEF Unread
<1>4. Peers'
  BY <1>0 DEF TypeOK, Peers, Final
<1>5. ReportedWhole'
  BY <1>0 DEF TypeOK, ReportedWhole, Total, Sender, Final
<1>6. JoinedBlocks'
  BY <1>0 DEF TypeOK, JoinedBlocks
<1> QED BY <1>1, <1>2, <1>3, <1>4, <1>5, <1>6

-----------------------------------------------------------------------------
LEMMA TestsThatFail ==
  ASSUME IInv, NEW p \in Program,
         \/ Main(p)
         \/ perform_ipv4_tcp_client_test(p) \/ perform_ipv4_udp_client_test(p)
         \/ perform_ipv6_tcp_client_test(p) \/ perform_ipv6_udp_client_test(p)
         \/ perform_uds_dgram_client_test(p)
  PROVE  IInv'
<1>1. PICK place \in {"run", "refused", "crashed", "failed"} :
        Goto(p, place) /\ pc[p] \in {"main", "run"}
  BY DEF Main, perform_ipv4_tcp_client_test, perform_ipv4_udp_client_test,
     perform_ipv6_tcp_client_test, perform_ipv6_udp_client_test, perform_uds_dgram_client_test
<1> QED BY <1>1, GotoStep

(* Nothing but the state of one program and of its connection changes.     *)
LEMMA StartStep ==
  ASSUME IInv, NEW p \in Program, NEW peer \in {"open", "queued"}, pc[p] = "run", Sender(p),
         NEW place \in {"generate", "send"}, place = "generate" => Runs(p, "mmap"),
         pc' = [pc EXCEPT ![p] = place], far' = [far EXCEPT ![p] = peer],
         UNCHANGED <<args, sent, full>>
  PROVE  IInv'
<1> USE PerfAssumption DEF IInv, Runs, Serves
<1>1. TypeOK'
  BY DEF TypeOK, Final, Total
<1>2. Roles'
  BY DEF TypeOK, Roles, Sender
<1>3. Unread'
  BY DEF Unread, TypeOK
<1>4. Peers'
  BY DEF TypeOK, Peers
<1>5. ReportedWhole'
  BY DEF TypeOK, ReportedWhole, Total
<1>6. JoinedBlocks'
  BY DEF TypeOK, JoinedBlocks
<1> QED BY <1>1, <1>2, <1>3, <1>4, <1>5, <1>6

LEMMA TestsThatSend ==
  ASSUME IInv, NEW p \in Program,
         \/ StartUdsStream(p) \/ StartMmap(p) \/ StartPipe(p) \/ OpenPipe(p) \/ StartServer(p)
  PROVE  IInv'
<1>1. CASE StartUdsStream(p)
  <2>1. CASE \E how \in {"crashed", "failed"} : Goto(p, how)
    BY <1>1, <2>1, GotoStep DEF StartUdsStream
  <2>2. CASE pc' = [pc EXCEPT ![p] = "send"] /\ far' = [far EXCEPT ![p] = "open"]
             /\ UNCHANGED <<args, sent, full>>
    BY <1>1, <2>2, StartStep DEF StartUdsStream, Sender
  <2> QED BY <1>1, <2>1, <2>2 DEF StartUdsStream
<1>2. CASE StartMmap(p)
  <2>1. CASE Goto(p, "failed")
    BY <1>2, <2>1, GotoStep DEF StartMmap
  <2>2. CASE ~Goto(p, "failed")
    <3>1. PICK peer \in {"open", "queued"} : far' = [far EXCEPT ![p] = peer]
      BY <1>2, <2>2 DEF StartMmap
    <3> QED BY <1>2, <2>2, <3>1, StartStep DEF StartMmap, Sender
  <2> QED BY <2>1, <2>2
<1>3. CASE StartPipe(p)
  <2>1. PICK place \in {"crashed", "failed", "open"} : Goto(p, place)
    BY <1>3 DEF StartPipe
  <2> QED BY <1>3, <2>1, GotoStep DEF StartPipe
<1>4. CASE OpenPipe(p)
  BY <1>4, GotoStep DEF OpenPipe, IInv, Roles, Sender
<1>5. CASE StartServer(p)
  <2>1. PICK place \in {"failed", "accept"} : Goto(p, place)
    BY <1>5 DEF StartServer
  <2> QED BY <1>5, <2>1, GotoStep DEF StartServer
<1> QED BY <1>1, <1>2, <1>3, <1>4, <1>5

(* A server takes a connection from its backlog, or from another program.  *)
(* What was sent to it while it was queued the kernel still holds.         *)
LEMMA AcceptStep ==
  ASSUME IInv, NEW p \in Program, Accept(p)
  PROVE  IInv'
<1> USE PerfAssumption DEF IInv, Runs, Serves
<1>0. /\ pc[p] = "accept" /\ pc' = [pc EXCEPT ![p] = "generate"]
      /\ UNCHANGED <<args, sent, full>>
      /\ far' \in [Program -> {"none", "open", "queued", "program", "closed", "reset"}]
      /\ far[p] \in {"open", "none"}
      /\ far'[p] \in {"open", "program", "closed"}
      /\ \A q \in Program : q # p /\ far'[q] # far[q] =>
            /\ far[q] = "queued"
            /\ \/ far'[q] = "closed" /\ pc[q] \in Final
               \/ far'[q] = "program" /\ pc[q] \notin Final
  BY DEF Accept, TypeOK
<1>1. TypeOK'
  BY <1>0 DEF TypeOK, Total
<1>2. Roles'
  BY <1>0 DEF TypeOK, Roles, Sender
<1>3. Unread'
  BY <1>0 DEF TypeOK, Unread
<1>4. Peers'
  BY <1>0 DEF TypeOK, Peers
<1>5. ReportedWhole'
  BY <1>0 DEF TypeOK, ReportedWhole, Total
<1>6. JoinedBlocks'
  <2> SUFFICES ASSUME Cap < Data, NEW q \in Program, far'[q] = "program"
               PROVE  pc'[q] \in {"generate", "send", "failed"} /\ sent[q] <= Cap
    BY <1>0 DEF JoinedBlocks
  <2>1. CASE q = p
    BY <1>0, <2>1 DEF TypeOK, Unread
  <2>2. CASE q # p /\ far[q] = "program"
    BY <1>0, <2>2 DEF TypeOK, JoinedBlocks
  <2>3. CASE q # p /\ far[q] # "program"
    BY <1>0, <2>3 DEF TypeOK, Unread, Peers
  <2> QED BY <2>1, <2>2, <2>3
<1> QED BY <1>1, <1>2, <1>3, <1>4, <1>5, <1>6

LEMMA GenerateStep ==
  ASSUME IInv, NEW p \in Program, Generate(p)
  PROVE  IInv'
<1>1. pc[p] = "generate" /\ Sender(p)
  BY DEF Generate, IInv, Roles, Sender
<1>2. CASE Goto(p, "send")
  BY <1>1, <1>2, GotoStep
<1>3. CASE Terminate(p, "failed")
  BY <1>1, <1>3, TerminateStep
<1> QED BY <1>2, <1>3 DEF Generate

(* The kernel takes a unit only when it has room, so what nobody reads     *)
(* never comes to more than Cap.                                           *)
LEMMA WriteStep ==
  ASSUME IInv, NEW p \in Program, Write(p)
  PROVE  IInv'
<1> USE PerfAssumption DEF IInv, Runs, Serves, Write
<1>1. TypeOK'
  BY DEF TypeOK, Total
<1>2. Roles'
  BY DEF TypeOK, Roles, Sender
<1>3. Unread'
  BY DEF TypeOK, Unread
<1>4. Peers'
  BY DEF TypeOK, Peers
<1>5. ReportedWhole'
  BY DEF TypeOK, ReportedWhole, Total
<1>6. JoinedBlocks'
  BY DEF TypeOK, Unread, JoinedBlocks
<1> QED BY <1>1, <1>2, <1>3, <1>4, <1>5, <1>6

(* A program joined to another has more to send than it can: it neither    *)
(* reports nor sees its peer gone while it is joined.                      *)
LEMMA ReportStep ==
  ASSUME IInv, NEW p \in Program, Report(p)
  PROVE  IInv'
<1>1. pc[p] = "send" /\ sent[p] = Total(p) /\ Sender(p) /\ Terminate(p, "reported")
  BY DEF Report, IInv, Roles
<1>2. ~(Cap < Data /\ far[p] = "program")
  BY <1>1, PerfAssumption DEF IInv, TypeOK, JoinedBlocks, Total
<1> QED BY <1>1, <1>2, TerminateStep

LEMMA BrokenStep ==
  ASSUME IInv, NEW p \in Program, Broken(p)
  PROVE  IInv'
<1>1. pc[p] = "send" /\ Sender(p) /\ far[p] \in {"closed", "reset"}
  BY DEF Broken, IInv, Roles
<1>2. PICK how \in {"reported", "failed", "killed"} :
        /\ Terminate(p, how)
        /\ how = "reported" =>
             \/ Serves(p) /\ far[p] = "reset"
             \/ Runs(p, "mmap") /\ sent[p] > 0 /\ far[p] \in {"closed", "reset"}
  BY DEF Broken
<1> QED BY <1>1, <1>2, TerminateStep

(* Other programs.                                                         *)
LEMMA PeerStep ==
  ASSUME IInv, NEW p \in Program, PeerArrives(p) \/ PeerReads(p) \/ PeerGoes(p)
  PROVE  IInv'
<1> USE PerfAssumption DEF IInv, Runs, Serves, PeerArrives, PeerReads, PeerGoes
<1>1. TypeOK'
  BY DEF TypeOK, Total
<1>2. Roles'
  BY DEF TypeOK, Roles, Sender
<1>3. Unread'
  BY DEF TypeOK, Unread
<1>4. Peers'
  BY DEF TypeOK, Peers
<1>5. ReportedWhole'
  BY DEF TypeOK, ReportedWhole, Total, Final
<1>6. JoinedBlocks'
  BY DEF TypeOK, JoinedBlocks
<1> QED BY <1>1, <1>2, <1>3, <1>4, <1>5, <1>6

LEMMA NextIInv == IInv /\ [Next]_vars => IInv'
<1> SUFFICES ASSUME IInv, [Next]_vars
             PROVE  IInv'
  OBVIOUS
<1>1. CASE UNCHANGED vars
  BY <1>1 DEF vars, IInv, TypeOK, Roles, Unread, Peers, ReportedWhole, JoinedBlocks, Sender,
     Total, Runs, Serves
<1>2. ASSUME NEW p \in Program, Step(p)
      PROVE  IInv'
  BY <1>2, TestsThatFail, TestsThatSend, AcceptStep, GenerateStep, WriteStep, ReportStep, BrokenStep
     DEF Step, perform_uds_stream_client_test, perform_mmap_client_test, perform_pipe_client_test,
     perform_server_performance_test
<1>3. ASSUME NEW p \in Program, PeerArrives(p) \/ PeerReads(p) \/ PeerGoes(p)
      PROVE  IInv'
  BY <1>3, PeerStep
<1> QED BY <1>1, <1>2, <1>3 DEF Next

-----------------------------------------------------------------------------
(* The inductive invariant, in every run of any programs.                  *)
THEOREM Invariance == Spec => []IInv
  BY InitIInv, NextIInv, PTL DEF Spec

(* Every variable stays in its type; no test hands over more than it has,  *)
(* nor more than the kernel has room for.                                  *)
THEOREM TypeCorrect == Spec => []TypeOK
  BY Invariance, PTL DEF IInv

(* What is reported as sent was handed over whole, but for the server      *)
(* whose peer resets and the mmap test whose peer goes (prartb_2.c:603,    *)
(* 774, 789).                                                              *)
THEOREM ReportedSound == Spec => []ReportedWhole
  BY Invariance, PTL DEF IInv

(* A server and an mmap test that have found each other never report, and  *)
(* end only if one of them has no memory (prartb_2.c:585, 603, 752, 773).  *)
THEOREM Joined == Spec => []JoinedBlocks
  BY Invariance, PTL DEF IInv
=============================================================================

-------------------------------- MODULE Perf --------------------------------
(***************************************************************************)
(* task3: prartb_2.c, the program of performance tests.  Several of them   *)
(* are started on one host with any arguments; a server waits for a TCP    *)
(* connection, a client runs one of eight tests.  Whatever a test reports  *)
(* it only ever sends, and no end of a connection between two of these     *)
(* programs reads.  The peers are other programs of unknown behaviour, or  *)
(* the mmap test on one side and a server on port 12345 on the other.      *)
(*                                                                         *)
(* A test is run only if "-p" is the third argument, which is also where   *)
(* a client takes its port from (atoi("-p") is 0), so that the usage that  *)
(* main prints runs no client's test, and that no test with a port gets    *)
(* further than its first packet.                                          *)
(***************************************************************************)
EXTENDS Naturals, FiniteSets

CONSTANTS Program,  \* the processes
          Data,     \* units of data that a test sends (100 MB)
          Cap       \* bound: units that the kernel holds for a peer

ASSUME PerfAssumption == Data \in Nat \ {0} /\ Cap \in Nat \ {0}

Tests == {"ipv4_tcp", "ipv4_udp", "ipv6_tcp", "ipv6_udp", "uds_dgram", "uds_stream", "mmap", "pipe"}
Ports == {"12345", "another"}

(* A command line: the number of arguments, the kind in the first, whether *)
(* the third is -p and the fourth -q, and what the rest asks for.          *)
CommandLine ==
  {a \in [who : {"client", "server", "unknown"}, argc : 3..7, dashp : BOOLEAN,
          quiet : BOOLEAN, test : Tests \cup Ports \cup {"unknown"}] :
     /\ a.argc < 4 => ~a.dashp
     /\ a.argc < 5 => ~a.quiet
     /\ a.test \in Ports <=> a.who = "server"
     /\ a.test \in Tests => a.who = "client" /\ a.argc > 5}

VARIABLES
  args,  \* how each program was started
  pc,    \* where it is, or how it ended
  sent,  \* the units it has handed to the kernel
  full,  \* those of them that the peer has not read
  far    \* the other end of its connection

vars == <<args, pc, sent, full, far>>

Init ==
  /\ args \in [Program -> CommandLine]
  /\ pc = [p \in Program |-> "main"]
  /\ sent = [p \in Program |-> 0] /\ full = [p \in Program |-> 0]
  /\ far = [p \in Program |-> "none"]

Final == {"reported", "failed", "killed", "crashed", "refused"}
Runs(p, t) == args[p].who = "client" /\ args[p].test = t
Serves(p) == args[p].who = "server"
Listens(p) == Serves(p) /\ pc[p] \in {"accept", "generate", "send"}

(* The test, and behind it the checksum unless it is forgotten. *)
Total(p) == IF Runs(p, "uds_stream") THEN Data ELSE Data + 1

(* A process ends and its sockets with it: to its peer this is an end of   *)
(* stream, or a reset if something was left unread; a connection that was  *)
(* never accepted is reset.                                                *)
Terminate(p, how) ==
  /\ pc' = [pc EXCEPT ![p] = how]
  /\ far' = [q \in Program |->
       IF q = p \/ pc[q] \in Final THEN far[q]
       ELSE IF far[q] = "queued" /\ Listens(p) /\ args[p].test = "12345" THEN "reset"
       ELSE IF far[q] = "program" /\ far[p] = "program"
         THEN IF full[q] > 0 THEN "reset" ELSE "closed"
       ELSE far[q]]
  /\ UNCHANGED <<args, sent, full>>

Goto(p, place) == pc' = [pc EXCEPT ![p] = place] /\ UNCHANGED <<args, sent, full, far>>

-----------------------------------------------------------------------------
(* main.  argv[4] is looked at although it may be the null pointer, and    *)
(* so are a client's type and, except for two tests, its parameter.        *)
NullArgument(a) ==
  \/ a.argc = 4
  \/ a.who = "client" /\ a.dashp
       /\ (a.argc = 5 \/ (a.argc = 6 /\ a.test \in Tests \ {"mmap", "pipe"}))

Accepted(a) ==
  /\ a.argc >= 5 /\ a.dashp
  /\ \/ a.who = "client" /\ a.test \in Tests
     \/ a.who = "server" /\ a.quiet

Main(p) ==
  /\ pc[p] = "main"
  /\ IF NullArgument(args[p]) THEN Goto(p, "crashed")
     ELSE Goto(p, IF Accepted(args[p]) THEN "run" ELSE "refused")

(* The tests that need a port: nobody can be reached on port 0.  Two of    *)
(* the others put 100 MB on the stack, where there is no room by default.  *)
perform_ipv4_tcp_client_test(p) ==
  pc[p] = "run" /\ Runs(p, "ipv4_tcp") /\ Goto(p, "failed")

perform_ipv4_udp_client_test(p) ==
  /\ pc[p] = "run" /\ Runs(p, "ipv4_udp")
  /\ \E how \in {"crashed", "failed"} : Goto(p, how)

perform_ipv6_tcp_client_test(p) ==
  pc[p] = "run" /\ Runs(p, "ipv6_tcp") /\ Goto(p, "failed")

(* Here and below an allocation that fails unnoticed is a crash. *)
perform_ipv6_udp_client_test(p) ==
  /\ pc[p] = "run" /\ Runs(p, "ipv6_udp")
  /\ \E how \in {"crashed", "failed"} : Goto(p, how)

perform_uds_dgram_client_test(p) ==
  /\ pc[p] = "run" /\ Runs(p, "uds_dgram")
  /\ \E how \in {"crashed", "failed"} : Goto(p, how)

-----------------------------------------------------------------------------
(* The tests that may get as far as sending. *)
StartUdsStream(p) ==
  /\ pc[p] = "run" /\ Runs(p, "uds_stream")
  /\ \/ \E how \in {"crashed", "failed"} : Goto(p, how)
     \/ /\ pc' = [pc EXCEPT ![p] = "send"] /\ far' = [far EXCEPT ![p] = "open"]
        /\ UNCHANGED <<args, sent, full>>

(* Port 12345 is that of a server of this program, if there is one; it     *)
(* then finds the connection in its backlog.  The buffer comes behind it.  *)
StartMmap(p) ==
  /\ pc[p] = "run" /\ Runs(p, "mmap")
  /\ \/ Goto(p, "failed")
     \/ /\ args[p].argc = 7
        /\ pc' = [pc EXCEPT ![p] = "generate"]
        /\ far' = [far EXCEPT ![p] =
             IF \E q \in Program : Listens(q) /\ args[q].test = "12345" THEN "queued" ELSE "open"]
        /\ UNCHANGED <<args, sent, full>>

StartPipe(p) ==
  /\ pc[p] = "run" /\ Runs(p, "pipe")
  /\ \/ \E how \in {"crashed", "failed"} : Goto(p, how)
     \/ args[p].argc = 7 /\ Goto(p, "open")

(* open returns once the FIFO has a reader. *)
OpenPipe(p) == pc[p] = "open" /\ far[p] = "open" /\ Goto(p, "send")

(* bind fails while another server has the port, or what is left of it. *)
StartServer(p) ==
  /\ pc[p] = "run" /\ Serves(p)
  /\ \/ Goto(p, "failed")
     \/ /\ \A q \in Program : Listens(q) => args[q].test # args[p].test
        /\ Goto(p, "accept")

(* A client may have ended while it was in the backlog. *)
Accept(p) ==
  /\ pc[p] = "accept"
  /\ pc' = [pc EXCEPT ![p] = "generate"]
  /\ \/ far[p] = "open" /\ UNCHANGED far
     \/ \E q \in Program :
          /\ far[p] = "none" /\ args[p].test = "12345"
          /\ far[q] = "queued"
          /\ LET end == IF pc[q] \in Final THEN "closed" ELSE "program"
             IN far' = [far EXCEPT ![p] = end, ![q] = end]
  /\ UNCHANGED <<args, sent, full>>

(* The data are allocated and summed up. *)
Generate(p) == pc[p] = "generate" /\ (Goto(p, "send") \/ Terminate(p, "failed"))

-----------------------------------------------------------------------------
(* Mutant: the loop runs until the remainder is below zero. *)
WriteMore(p) ==
  /\ pc[p] = "send" /\ sent[p] <= Total(p) /\ full[p] < Cap
  /\ far[p] \in {"closed", "reset"} => Serves(p) \/ Runs(p, "mmap")
  /\ sent' = [sent EXCEPT ![p] = @ + 1] /\ full' = [full EXCEPT ![p] = @ + 1]
  /\ UNCHANGED <<args, pc, far>>

(* A unit goes to the kernel while there is room.  A TCP peer that has     *)
(* gone may not be known to have gone yet.                                 *)
Write(p) ==
  /\ pc[p] = "send" /\ sent[p] < Total(p) /\ full[p] < Cap
  /\ far[p] \in {"closed", "reset"} => Serves(p) \/ Runs(p, "mmap")
  /\ sent' = [sent EXCEPT ![p] = @ + 1] /\ full' = [full EXCEPT ![p] = @ + 1]
  /\ UNCHANGED <<args, pc, far>>

(* Mutant: what the first write takes is held to be everything. *)
ReportFirst(p) == pc[p] = "send" /\ sent[p] > 0 /\ Terminate(p, "reported")

Report(p) == pc[p] = "send" /\ sent[p] = Total(p) /\ Terminate(p, "reported")

(* Mutant: with SIGPIPE ignored the loop of uds_stream breaks and reports. *)
BrokenNoSignal(p) ==
  /\ pc[p] = "send" /\ sent[p] < Total(p) /\ far[p] \in {"closed", "reset"}
  /\ Terminate(p, "reported")

(* Mutant: the loop of the server tries again after an error. *)
BrokenRetries(p) ==
  /\ pc[p] = "send" /\ sent[p] < Total(p) /\ far[p] \in {"closed", "reset"}
  /\ IF Serves(p) /\ far[p] = "reset" THEN UNCHANGED vars ELSE Terminate(p, "killed")

(* A write to a peer that has gone.  After an end of stream the signal     *)
(* SIGPIPE kills, after a reset TCP returns an error: the loop of the      *)
(* server breaks and reports.  The one send of the mmap test returns what  *)
(* it has got rid of, which the test does not look at.                     *)
Broken(p) ==
  /\ pc[p] = "send" /\ sent[p] < Total(p) /\ far[p] \in {"closed", "reset"}
  /\ Terminate(p,
       IF Runs(p, "mmap") /\ sent[p] > 0 THEN "reported"
       ELSE IF Serves(p) /\ far[p] = "reset" THEN "reported"
       ELSE IF Runs(p, "mmap") /\ far[p] = "reset" THEN "failed"
       ELSE "killed")

perform_uds_stream_client_test(p) ==
  StartUdsStream(p) \/ (Runs(p, "uds_stream") /\ (Write(p) \/ Report(p) \/ Broken(p)))
perform_mmap_client_test(p) ==
  StartMmap(p) \/ (Runs(p, "mmap") /\ (Generate(p) \/ Write(p) \/ Report(p) \/ Broken(p)))
perform_pipe_client_test(p) ==
  StartPipe(p) \/ OpenPipe(p) \/ (Runs(p, "pipe") /\ (Write(p) \/ Report(p) \/ Broken(p)))
perform_server_performance_test(p) ==
  \/ StartServer(p) \/ Accept(p)
  \/ Serves(p) /\ (Generate(p) \/ Write(p) \/ Report(p) \/ Broken(p))

Step(p) ==
  \/ Main(p)
  \/ perform_ipv4_tcp_client_test(p) \/ perform_ipv4_udp_client_test(p)
  \/ perform_ipv6_tcp_client_test(p) \/ perform_ipv6_udp_client_test(p)
  \/ perform_uds_dgram_client_test(p) \/ perform_uds_stream_client_test(p)
  \/ perform_mmap_client_test(p) \/ perform_pipe_client_test(p)
  \/ perform_server_performance_test(p)

-----------------------------------------------------------------------------
(* Other programs: one connects or opens the FIFO, reads, or goes. *)
PeerArrives(p) ==
  /\ pc[p] \in {"accept", "open"} /\ far[p] = "none"
  /\ far' = [far EXCEPT ![p] = "open"]
  /\ UNCHANGED <<args, pc, sent, full>>

PeerReads(p) ==
  /\ far[p] = "open" /\ full[p] > 0
  /\ full' = [full EXCEPT ![p] = @ - 1]
  /\ UNCHANGED <<args, pc, sent, far>>

PeerGoes(p) ==
  /\ far[p] = "open" /\ pc[p] \in {"generate", "send"}
  /\ far' = [far EXCEPT ![p] = IF full[p] > 0 THEN "reset" ELSE "closed"]
  /\ UNCHANGED <<args, pc, sent, full>>

Next == \E p \in Program : Step(p) \/ PeerArrives(p) \/ PeerReads(p) \/ PeerGoes(p)

(* The kernel runs every program that is able to run; other programs may   *)
(* do nothing for ever.                                                    *)
Spec == Init /\ [][Next]_vars /\ \A p \in Program : WF_vars(Step(p))

-----------------------------------------------------------------------------
TypeOK ==
  /\ args \in [Program -> CommandLine]
  /\ pc \in [Program -> Final \cup {"main", "run", "open", "accept", "generate", "send"}]
  /\ far \in [Program -> {"none", "open", "queued", "program", "closed", "reset"}]
  /\ sent \in [Program -> 0..(Data + 1)] /\ full \in [Program -> 0..Cap]
  /\ \A p \in Program : full[p] <= sent[p] /\ sent[p] <= Total(p)

(* What is reported as sent was handed over whole, except that a server    *)
(* whose peer resets the connection and an mmap test whose peer goes print *)
(* the size and the time of what they have not sent (prartb_2.c:603, 774,  *)
(* 789).  No test over UDP, TCP or datagrams reports at all.               *)
ReportedWhole ==
  \A p \in Program : pc[p] = "reported" =>
    /\ Serves(p) \/ \E t \in {"uds_stream", "mmap", "pipe"} : Runs(p, t)
    /\ \/ sent[p] = Total(p)
       \/ Serves(p) /\ far[p] = "reset"
       \/ Runs(p, "mmap") /\ sent[p] > 0 /\ far[p] \in {"closed", "reset"}

(* The client that can reach a server, the mmap test, does what the server *)
(* does: both send and neither reads.  Neither ever gets done if the data  *)
(* exceed what the kernel holds, unless one of them has no memory          *)
(* (prartb_2.c:585, 603, 752, 773).                                        *)
JoinedBlocks ==
  Cap < Data =>
    \A p \in Program : far[p] = "program" =>
      pc[p] \in {"generate", "send", "failed"} /\ sent[p] <= Cap

(* A program waits for a peer to come, or to read. *)
Waits(p) ==
  \/ pc[p] = "accept" /\ far[p] = "none"
  \/ pc[p] = "open" /\ far[p] = "none"
  \/ pc[p] = "send" /\ full[p] = Cap /\ far[p] \in {"open", "queued", "program"}

(* Every program ends, or waits in the end for a peer that does nothing:   *)
(* no error leaves it in a loop (prartb_2.c:503, 656, 772).                *)
Ends == \A p \in Program : <>(pc[p] \in Final) \/ <>[]Waits(p)
=============================================================================

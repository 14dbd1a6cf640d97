------------------------------ MODULE Transfer ------------------------------
(***************************************************************************)
(* task3: server.c and client.c, one transfer of file.txt over one of      *)
(* eight transports.  The client names the transport in two words on a     *)
(* first TCP connection, waits a tenth of a second after each, and starts  *)
(* the transfer; the server sets up the transport when it has the words.   *)
(* Nothing but these pauses keeps the two in step.  Either may be killed.   *)
(***************************************************************************)
EXTENDS Naturals, Sequences

CONSTANT MaxBlocks  \* bound: blocks (lines, or reads of 1024 bytes) of the file

ASSUME TransferAssumption == MaxBlocks \in Nat

Streams == {"ipv4_tcp", "ipv6_tcp", "uds_stream", "pipe"}
Udp == {"ipv4_udp", "ipv6_udp"}
Protocol == Streams \cup Udp \cup {"uds_dgram", "mmap"}

(* "exit" is a line that reads exit; it is also what the client sends over *)
(* UDP behind the file.  "start" is a last line without its end that reads *)
(* as exit does as far as it goes.                                         *)
Block == {"text", "exit", "start"}
Fin == "fin"  \* the end of a stream

VARIABLES
  proto, file,  \* what is transferred, and how
  timely,       \* the client's pauses are long enough
  faulty,       \* datagrams may be dropped, and a read may fail
  exists,       \* file.txt can be opened
  mortal,       \* one of the two programs may be killed, or both
  srv, cli,     \* where the server and the client are
  words,        \* the first connection: words in flight
  net,          \* the transport: blocks in flight
  fifo,         \* the FIFO exists
  next,         \* how many blocks the client has sent
  cleared,      \* the server's buffer has been cleared since it was declared
  got           \* history: the blocks the server has received as data

env == <<proto, file, timely, faulty, exists, mortal>>
vars == <<env, srv, cli, words, net, fifo, next, cleared, got>>

Init ==
  /\ proto \in Protocol
  /\ file \in UNION {[1..n -> Block] : n \in 0..MaxBlocks}
  /\ \A k \in 1..Len(file) : file[k] = "start" => k = Len(file)
  /\ timely \in BOOLEAN /\ faulty \in BOOLEAN /\ exists \in BOOLEAN
  /\ mortal \in BOOLEAN
  /\ srv = "start" /\ cli = "connect"
  /\ words = <<>> /\ net = <<>> /\ next = 0 /\ got = <<>>
  /\ cleared = FALSE
  /\ fifo \in (IF proto = "pipe" THEN BOOLEAN ELSE {FALSE})

Srv(l) == srv' = l /\ UNCHANGED <<env, cli>>
Cli(l) == cli' = l /\ UNCHANGED <<env, srv>>

-----------------------------------------------------------------------------
(* server_main up to the dispatch. *)
SrvListen ==
  /\ srv = "start" /\ Srv("accept")
  /\ UNCHANGED <<words, net, fifo, next, cleared, got>>

(* The connection may be accepted after the client has given up. *)
SrvAccept ==
  /\ srv = "accept" /\ cli \notin {"connect", "refused"}
  /\ Srv("word1")
  /\ UNCHANGED <<words, net, fifo, next, cleared, got>>

(* Each recv is meant to return one word.  If both have arrived the first  *)
(* may return both and the second nothing: no transport has such a name,   *)
(* and the server exits.  So it does when the client is gone.              *)
SrvWord ==
  /\ \/ srv = "word1" /\ words # <<>> /\ Srv("word2") /\ words' = Tail(words)
     \/ srv = "word1" /\ Len(words) = 2 /\ Srv("failed") /\ words' = <<>>
     \/ srv = "word2" /\ words # <<>> /\ Srv("setup") /\ words' = Tail(words)
     \/ srv \in {"word1", "word2"} /\ words = <<>> /\ cli = "failed"
          /\ Srv("failed") /\ UNCHANGED words
  /\ UNCHANGED <<net, fifo, next, cleared, got>>

(* client_main up to the dispatch. *)
CliConnect ==
  /\ cli = "connect"
  /\ Cli(IF srv = "accept" THEN "word1" ELSE "refused")
  /\ UNCHANGED <<words, net, fifo, next, cleared, got>>

(* A word that is sent to a server that has ended may fail. *)
CliWord ==
  /\ \/ cli = "word1" /\ Cli("pause1") /\ words' = Append(words, cli)
     \/ cli = "word2" /\ Cli("pause2") /\ words' = Append(words, cli)
     \/ cli \in {"word1", "word2"} /\ srv = "failed" /\ Cli("failed") /\ UNCHANGED words
  /\ UNCHANGED <<net, fifo, next, cleared, got>>

Ready == srv \in {"serve", "done", "failed"}

CliPause ==
  /\ \/ cli = "pause1" /\ (timely => srv \notin {"accept", "word1"}) /\ Cli("word2")
     \/ cli = "pause2" /\ (timely => Ready) /\ Cli("open")
  /\ UNCHANGED <<words, net, fifo, next, cleared, got>>

-----------------------------------------------------------------------------
(* Streams.  A connection exists as soon as the server listens; the pipe   *)
(* opens when both ends have called open.  A client that cannot open the   *)
(* file ends, and so does its stream.  The server does not mind a FIFO     *)
(* that exists; the client that finds one waits in open for a reader.      *)
SrvSetup ==
  /\ srv = "setup" /\ Srv("serve")
  /\ fifo' = (fifo \/ proto = "pipe")
  /\ UNCHANGED <<words, net, next, cleared, got>>

(* Mutant: the end of the stream is not waited for. *)
SrvRecvOnce ==
  /\ srv = "serve" /\ net # <<>> /\ Head(net) # Fin
  /\ got' = Append(got, Head(net)) /\ net' = Tail(net) /\ Srv("done")
  /\ UNCHANGED <<words, fifo, next, cleared>>

SrvRecv ==
  /\ srv = "serve" /\ net # <<>>
  /\ IF Head(net) = Fin
       THEN Srv("done") /\ fifo' = FALSE /\ UNCHANGED got
       ELSE Srv("serve") /\ got' = Append(got, Head(net)) /\ UNCHANGED fifo
  /\ net' = Tail(net)
  /\ UNCHANGED <<words, next, cleared>>

(* A connection may break.  Two servers exit; the others take it for the   *)
(* end of the stream.                                                      *)
Lenient == proto \in {"ipv6_tcp", "pipe"}

SrvRecvFails ==
  /\ srv = "serve" /\ faulty /\ (cli = "send" \/ net # <<>>)
  /\ IF Lenient THEN Srv("done") /\ fifo' = FALSE ELSE Srv("failed") /\ UNCHANGED fifo
  /\ UNCHANGED <<words, net, next, cleared, got>>

(* Mutant: the client waits until its connection is accepted. *)
CliOpenWaits ==
  /\ cli = "open" /\ srv = "serve"
  /\ IF exists THEN Cli("send") /\ UNCHANGED net
               ELSE Cli("failed") /\ net' = <<Fin>>
  /\ UNCHANGED <<words, fifo, next, cleared, got>>

CliOpen ==
  /\ cli = "open" /\ (fifo /\ exists => srv = "serve")
  /\ IF srv # "serve" \/ (proto = "pipe" /\ ~exists)
       THEN Cli("failed") /\ UNCHANGED net
       ELSE IF exists THEN Cli("send") /\ UNCHANGED net
                      ELSE Cli("failed") /\ net' = <<Fin>>
  /\ UNCHANGED <<words, fifo, next, cleared, got>>

(* Sending to a server that has ended may fail. *)
CliSend ==
  /\ cli = "send"
  /\ \/ next = Len(file) /\ Cli("done") /\ net' = Append(net, Fin) /\ UNCHANGED next
     \/ next < Len(file) /\ Cli("send") /\ net' = Append(net, file[next + 1]) /\ next' = next + 1
     \/ srv \in {"failed", "done"} /\ next < Len(file) /\ Cli("failed") /\ UNCHANGED <<net, next>>
  /\ UNCHANGED <<words, fifo, cleared, got>>

ServeStream(p) == proto = p /\ (SrvSetup \/ SrvRecv \/ SrvRecvFails)
SendStream(p) == proto = p /\ (CliOpen \/ CliSend)

s_ipv4_tcp == ServeStream("ipv4_tcp")
c_ipv4_tcp == SendStream("ipv4_tcp")
s_ipv6_tcp == ServeStream("ipv6_tcp")
c_ipv6_tcp == SendStream("ipv6_tcp")
s_uds_stream == ServeStream("uds_stream")
c_uds_stream == SendStream("uds_stream")
s_pipe == ServeStream("pipe")
c_pipe == SendStream("pipe")

-----------------------------------------------------------------------------
(* Datagrams.  One that finds no socket bound is lost without notice over  *)
(* UDP, and an error over a Unix socket.                                   *)
OpenFile ==
  /\ cli = "open" /\ Cli(IF exists THEN "send" ELSE "failed")
  /\ UNCHANGED <<words, net, fifo, next, cleared, got>>

Datagram(b) ==
  \/ srv = "serve" /\ net' = Append(net, b)
  \/ (srv # "serve" \/ faulty) /\ UNCHANGED net

(* Mutant: no end mark is sent behind the file. *)
SendUdpNoExit ==
  /\ cli = "send"
  /\ IF next = Len(file)
       THEN Cli("done") /\ UNCHANGED <<net, next>>
       ELSE Cli("send") /\ Datagram(file[next + 1]) /\ next' = next + 1
  /\ UNCHANGED <<words, fifo, cleared, got>>

(* Mutant: the end mark is counted as a block of the file. *)
SendUdpCountsExit ==
  /\ cli = "send"
  /\ IF next = Len(file)
       THEN Cli("done") /\ Datagram("exit")
       ELSE Cli("send") /\ Datagram(file[next + 1])
  /\ next' = next + 1
  /\ UNCHANGED <<words, fifo, cleared, got>>

SendUdp ==
  /\ cli = "send"
  /\ IF next = Len(file)
       THEN Cli("done") /\ Datagram("exit") /\ UNCHANGED next
       ELSE Cli("send") /\ Datagram(file[next + 1]) /\ next' = next + 1
  /\ UNCHANGED <<words, fifo, cleared, got>>

c_ipv4_udp == proto = "ipv4_udp" /\ (OpenFile \/ SendUdp)
c_ipv6_udp == proto = "ipv6_udp" /\ (OpenFile \/ SendUdp)

(* Only what one read of 1024 bytes returns is sent. *)
SendUdsDgram ==
  /\ cli = "send"
  /\ IF file = <<>> THEN Cli("done") /\ UNCHANGED <<net, next>>
     ELSE IF srv # "serve" THEN Cli("failed") /\ UNCHANGED <<net, next>>
     ELSE Cli("done") /\ net' = Append(net, file[1]) /\ next' = 1
  /\ UNCHANGED <<words, fifo, cleared, got>>

c_uds_dgram == proto = "uds_dgram" /\ (OpenFile \/ SendUdsDgram)

(* The text of a datagram is compared with "exit\n" up to a zero byte that *)
(* only a cleared buffer is sure to hold behind it: what the buffer held   *)
(* before may spoil exit or complete the start of it.  Of the blocks that  *)
(* fread cuts, only the single one of a short file can read exit.          *)
IsExit(b) == b = "exit" /\ (proto = "uds_dgram" => Len(file) = 1)
MayEnd(b, clean) == IsExit(b) \/ (b = "start" /\ ~clean)
MayGoOn(b, clean) == ~IsExit(b) \/ ~clean

(* Mutant: a datagram is counted before it is compared with exit. *)
RecvDatagramCountsFirst(clean) ==
  /\ srv = "serve" /\ net # <<>>
  /\ \/ MayEnd(Head(net), clean) /\ Srv("done")
     \/ MayGoOn(Head(net), clean) /\ Srv("serve")
  /\ got' = Append(got, Head(net)) /\ net' = Tail(net) /\ cleared' = TRUE
  /\ UNCHANGED <<words, fifo, next>>

RecvDatagram(clean) ==
  /\ srv = "serve" /\ net # <<>>
  /\ \/ MayEnd(Head(net), clean) /\ Srv("done") /\ UNCHANGED got
     \/ MayGoOn(Head(net), clean) /\ Srv("serve") /\ got' = Append(got, Head(net))
  /\ net' = Tail(net) /\ cleared' = TRUE
  /\ UNCHANGED <<words, fifo, next>>

s_ipv4_udp == proto = "ipv4_udp" /\ (SrvSetup \/ RecvDatagram(cleared))
s_ipv6_udp == proto = "ipv6_udp" /\ (SrvSetup \/ RecvDatagram(TRUE))
s_uds_dgram == proto = "uds_dgram" /\ (SrvSetup \/ RecvDatagram(cleared))

(* mmap: the server waits five seconds for datagrams, the client tries to  *)
(* connect a stream socket, to which nobody listens.                       *)
s_mmap ==
  /\ proto = "mmap"
  /\ \/ srv = "setup" /\ Srv("serve")
     \/ srv = "serve" /\ Srv("done")
  /\ UNCHANGED <<words, net, fifo, next, cleared, got>>

c_mmap ==
  /\ proto = "mmap" /\ cli = "open" /\ Cli("failed")
  /\ UNCHANGED <<words, net, fifo, next, cleared, got>>

-----------------------------------------------------------------------------
(* A signal ends one of the programs.  Its connections end with it, behind *)
(* what has been sent; a FIFO stays.                                       *)
KillServer ==
  /\ mortal /\ srv \notin {"done", "failed"} /\ Srv("failed")
  /\ UNCHANGED <<words, net, fifo, next, cleared, got>>

KillClient ==
  /\ mortal /\ cli \notin {"connect", "refused", "done", "failed"} /\ Cli("failed")
  /\ net' = IF proto \in Streams /\ cli = "send" THEN Append(net, Fin) ELSE net
  /\ UNCHANGED <<words, fifo, next, cleared, got>>

Server == SrvListen \/ SrvAccept \/ SrvWord
            \/ s_ipv4_tcp \/ s_ipv6_tcp \/ s_uds_stream \/ s_pipe
            \/ s_ipv4_udp \/ s_ipv6_udp \/ s_uds_dgram \/ s_mmap
Client == CliConnect \/ CliWord \/ CliPause
            \/ c_ipv4_tcp \/ c_ipv6_tcp \/ c_uds_stream \/ c_pipe
            \/ c_ipv4_udp \/ c_ipv6_udp \/ c_uds_dgram \/ c_mmap

Next == Server \/ Client \/ KillServer \/ KillClient

Spec == Init /\ [][Next]_vars

(* Both programs run until they end or wait for each other. *)
FairSpec == Spec /\ WF_vars(Server) /\ WF_vars(Client)

-----------------------------------------------------------------------------
TypeOK ==
  /\ srv \in {"start", "accept", "word1", "word2", "setup", "serve", "done", "failed"}
  /\ cli \in {"connect", "word1", "pause1", "word2", "pause2", "open", "send", "done", "failed",
             "refused"}
  /\ words \in Seq({"word1", "word2"})
  /\ net \in Seq(Block \cup {Fin}) /\ got \in Seq(Block)
  /\ next \in 0..Len(file) /\ cleared \in BOOLEAN /\ fifo \in BOOLEAN

(* A stream delivers the file from its start and in order, and a server    *)
(* that ends has received all that was sent: however late either side is,  *)
(* a transfer that is reported (server.c:680) is whole, unless the client  *)
(* was killed or could not open its file, which the server cannot tell, or *)
(* a read failed in one of the two servers that take this for the end      *)
(* (server.c:178, 562).                                                    *)
StreamWhole ==
  proto \in Streams =>
    /\ Len(got) <= next
    /\ \A k \in 1..Len(got) : got[k] = file[k]
    /\ srv = "done" => \/ /\ got = SubSeq(file, 1, next)
                          /\ \/ cli = "done" /\ next = Len(file)
                             \/ cli = "failed" /\ (mortal \/ ~exists)
                       \/ faulty /\ Lenient

(* Over UDP the server receives, in order, blocks the client has sent.  It *)
(* takes nothing for data once it has met exit, except that a first        *)
(* datagram may be misread (server.c:235, the buffer is not cleared before *)
(* it).  If none is lost it ends exactly at a line exit or the end mark,   *)
(* or, misreading it, at a first and only line that begins like exit.      *)
(* Over a Unix socket it gets the first 1024 bytes only and no end mark:   *)
(* it ends only if the file is nothing but exit, or misread as that        *)
(* (client.c:254-265).                                                     *)
DatagramsInOrder ==
  /\ proto \in Udp =>
       LET all == Append(file, "exit") IN
         /\ \E f \in [1..Len(got) -> 1..Len(all)] :
               /\ \A a, b \in 1..Len(got) : a < b => f[a] < f[b]
               /\ \A a \in 1..Len(got) : got[a] = all[f[a]]
         /\ \A k \in 2..Len(got) : got[k] # "exit"
         /\ (srv = "done" /\ timely /\ ~faulty) =>
               \/ \E k \in 1..Len(all) : all[k] = "exit" /\ got = SubSeq(all, 1, k - 1)
               \/ proto = "ipv4_udp" /\ file = <<"start">> /\ got = <<>>
  /\ proto = "uds_dgram" =>
       /\ got # <<>> => got = <<file[1]>>
       /\ srv = "done" => file \in {<<"exit">>, <<"start">>} /\ got = <<>>

(* When the pauses suffice, the file can be opened, nothing is dropped, no *)
(* read fails and nobody is killed, every stream and every UDP transfer of *)
(* a file without a line exit is completed and reported from the moment    *)
(* the client is connected.  Over IPv4 UDP this takes a first line that no *)
(* garbage can turn into exit, or spoil (server.c:235-240): an empty file  *)
(* may hang.                                                               *)
UdpCompletes ==
  /\ proto \in Udp
  /\ \A k \in 1..Len(file) : file[k] # "exit"
  /\ proto = "ipv4_udp" => file # <<>> /\ file[1] = "text"

Completes ==
  (/\ timely /\ exists /\ ~faulty /\ ~mortal /\ cli = "word1"
   /\ proto \in Streams \/ UdpCompletes)
    ~> (srv = "done" /\ cli = "done" /\ got = file)

(* The client always ends, whatever the server does, unless the FIFO of a  *)
(* killed server is there and no server comes to read it: then it waits in *)
(* open for ever (client.c:382, server.c:544).                             *)
ClientEnds == <>(cli \in {"done", "failed", "refused"} \/ (fifo /\ exists /\ srv = "failed"))
=============================================================================

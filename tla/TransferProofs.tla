--------------------------- MODULE TransferProofs ---------------------------
(***************************************************************************)
(* Proofs about Transfer, for files of any number of blocks: however late  *)
(* either side is, and whoever is killed, a stream that the server reports *)
(* is whole, and datagrams are blocks of the file in their order.          *)
(***************************************************************************)
EXTENDS Transfer, SequenceTheorems, TLAPS

Env ==
  /\ proto \in Protocol /\ file \in Seq(Block)
  /\ timely \in BOOLEAN /\ faulty \in BOOLEAN /\ exists \in BOOLEAN /\ mortal \in BOOLEAN
  /\ \A k \in 1..Len(file) : file[k] = "start" => k = Len(file)

-----------------------------------------------------------------------------
(* A stream: what is on the way is what the client has sent and the server *)
(* has not received, and the end behind it.                                *)
Ended(q) == q # <<>> /\ q[Len(q)] = Fin
Data(q) == IF Ended(q) THEN Len(q) - 1 ELSE Len(q)

Flow(f, g, q, m) ==
  /\ Len(g) + Data(q) = m
  /\ \A k \in 1..Len(g) : g[k] = f[k]
  /\ \A k \in 1..Data(q) : q[k] = f[Len(g) + k]

(* The end is sent once, by a client that is through with the file, is     *)
(* killed or cannot open it; nothing is sent before the file is open.  The *)
(* server is done behind the end, or where a read failed.                  *)
Over ==
  \/ cli = "done" /\ next = Len(file)
  \/ cli = "failed" /\ (mortal \/ ~exists)

StreamInv ==
  proto \in Streams =>
    /\ Flow(file, got, net, next)
    /\ cli \notin {"send", "done", "failed"} => net = <<>> /\ got = <<>> /\ next = 0
    /\ cli = "send" => ~Ended(net)
    /\ Ended(net) => Over
    /\ srv = "done" => (net = <<>> /\ Over) \/ (faulty /\ Lenient)

-----------------------------------------------------------------------------
(* UDP: the datagrams sent, the end mark included, and those that arrive.  *)
All == Append(file, "exit")
Sent == IF cli = "done" THEN next + 1 ELSE next

(* g was received, q is on the way: both are taken in order from the first *)
(* m of the datagrams.                                                     *)
Picked(all, g, q, m) ==
  \E f \in [1..Len(g) -> 1..m], h \in [1..Len(q) -> 1..m] :
    /\ \A a, b \in 1..Len(g) : a < b => f[a] < f[b]
    /\ \A a, b \in 1..Len(q) : a < b => h[a] < h[b]
    /\ \A a \in 1..Len(g), b \in 1..Len(q) : f[a] < h[b]
    /\ \A a \in 1..Len(g) : g[a] = all[f[a]]
    /\ \A b \in 1..Len(q) : q[b] = all[h[b]]

(* Nothing is lost: g and then q are the first m datagrams.                *)
Exactly(all, g, q, m) ==
  /\ Len(g) + Len(q) = m
  /\ \A a \in 1..Len(g) : g[a] = all[a]
  /\ \A b \in 1..Len(q) : q[b] = all[Len(g) + b]

UntilExit(all, g) ==
  \E k \in 1..Len(all) : all[k] = "exit" /\ Len(g) = k - 1 /\ \A a \in 1..Len(g) : g[a] = all[a]

UdpInv ==
  proto \in Udp =>
    /\ Picked(All, got, net, Sent)
    /\ got # <<>> => cleared
    /\ \A k \in 2..Len(got) : got[k] # "exit"
    /\ ~Ready => net = <<>> /\ got = <<>>
    /\ timely /\ (next > 0 \/ cli \in {"open", "send", "done"}) => Ready
    /\ timely /\ ~faulty /\ srv = "serve" => Exactly(All, got, net, Sent)
    /\ timely /\ ~faulty /\ srv = "done" =>
         UntilExit(All, got) \/ (proto = "ipv4_udp" /\ file = <<"start">> /\ got = <<>>)

(* The Unix socket: one datagram at most.                                  *)
UdsInv ==
  proto = "uds_dgram" =>
    /\ cli # "done" => net = <<>> /\ got = <<>>
    /\ net # <<>> => net = <<file[1]>> /\ got = <<>> /\ file # <<>>
    /\ got # <<>> => got = <<file[1]>> /\ net = <<>>
    /\ srv = "done" => file \in {<<"exit">>, <<"start">>} /\ got = <<>> /\ net = <<>>

IInv == Env /\ TypeOK /\ StreamInv /\ UdpInv /\ UdsInv

-----------------------------------------------------------------------------
(* What is on the way and the file are sequences of blocks.                *)
LEMMA BlockNotFin == \A b \in Block : b # Fin
  BY DEF Fin, Block

LEMMA NotEmpty ==
  ASSUME NEW S, NEW q \in Seq(S)
  PROVE  /\ q # <<>> <=> Len(q) > 0
         /\ q = <<>> <=> Len(q) = 0
  BY EmptySeq, LenProperties

(* A stream before its end takes one more block, or the end.               *)
LEMMA FlowSend ==
  ASSUME NEW f, NEW g \in Seq(Block), NEW q \in Seq(Block \cup {Fin}), NEW m \in Nat,
         Flow(f, g, q, m), ~Ended(q)
  PROVE  /\ f[m + 1] \in Block =>
              Flow(f, g, Append(q, f[m + 1]), m + 1) /\ ~Ended(Append(q, f[m + 1]))
         /\ Flow(f, g, Append(q, Fin), m)
<1>1. Len(q) \in Nat /\ Len(g) \in Nat /\ Len(g) + Len(q) = m
  BY DEF Flow, Data
<1>2. ASSUME NEW e \in Block \cup {Fin}
      PROVE  /\ Append(q, e) # <<>> /\ Len(Append(q, e)) = Len(q) + 1
             /\ Append(q, e)[Len(q) + 1] = e
             /\ \A k \in 1..Len(q) : Append(q, e)[k] = q[k]
  BY AppendProperties
<1>3. ASSUME f[m + 1] \in Block
      PROVE  Flow(f, g, Append(q, f[m + 1]), m + 1) /\ ~Ended(Append(q, f[m + 1]))
  <2> DEFINE r == Append(q, f[m + 1])
  <2>1. /\ Len(r) = Len(q) + 1 /\ r[Len(q) + 1] = f[m + 1]
        /\ \A k \in 1..Len(q) : r[k] = q[k]
    BY <1>2, <1>3
  <2>2. ~Ended(r)
    BY <1>3, <2>1, BlockNotFin DEF Ended
  <2> HIDE DEF r
  <2>3. Data(r) = Len(q) + 1
    BY <2>1, <2>2 DEF Data
  <2>4. ASSUME NEW k \in 1..(Len(q) + 1)
        PROVE  r[k] = f[Len(g) + k]
    <3>1. CASE k = Len(q) + 1
      BY <1>1, <2>1, <3>1
    <3>2. CASE k # Len(q) + 1
      <4>1. k \in 1..Len(q)
        BY <1>1, <3>2
      <4> QED BY <2>1, <4>1 DEF Flow, Data
    <3> QED BY <3>1, <3>2
  <2>5. Len(g) + Data(r) = m + 1
    BY <1>1, <2>3
  <2>6. Flow(f, g, r, m + 1)
    BY <2>3, <2>4, <2>5 DEF Flow
  <2> QED BY <2>2, <2>6 DEF r
<1>4. Flow(f, g, Append(q, Fin), m)
  <2> DEFINE r == Append(q, Fin)
  <2>1. /\ Len(r) = Len(q) + 1 /\ r # <<>> /\ r[Len(q) + 1] = Fin
        /\ \A k \in 1..Len(q) : r[k] = q[k]
    BY <1>2
  <2> HIDE DEF r
  <2>2. Data(r) = Len(q)
    BY <1>1, <2>1 DEF Data, Ended
  <2> QED BY <1>1, <2>1, <2>2 DEF Flow, Data, r
<1> QED BY <1>3, <1>4

(* The server takes the next block, or finds the end, behind all blocks.   *)
LEMMA FlowRecv ==
  ASSUME NEW f \in Seq(Block), NEW g \in Seq(Block), NEW q \in Seq(Block \cup {Fin}),
         NEW m \in 0..Len(f), Flow(f, g, q, m), q # <<>>
  PROVE  /\ Head(q) # Fin => /\ Flow(f, Append(g, Head(q)), Tail(q), m)
                             /\ Head(q) \in Block
                             /\ Ended(Tail(q)) => Ended(q)
         /\ Head(q) = Fin => /\ Ended(q) /\ Tail(q) = <<>>
                             /\ Flow(f, g, <<>>, m)
<1>1. /\ Len(q) \in Nat \ {0} /\ Len(g) \in Nat /\ Len(f) \in Nat /\ m \in Nat /\ Head(q) = q[1]
      /\ Head(q) \in Block \cup {Fin}
  OBVIOUS
<1>2. /\ Len(Tail(q)) = Len(q) - 1 /\ \A i \in 1..(Len(q) - 1) : Tail(q)[i] = q[i + 1]
  BY HeadTailProperties
<1>3. /\ Len(g) + Data(q) = m
      /\ \A k \in 1..Len(g) : g[k] = f[k]
      /\ \A k \in 1..Data(q) : q[k] = f[Len(g) + k]
  BY DEF Flow
<1>4. ASSUME Head(q) # Fin
      PROVE  /\ Flow(f, Append(g, Head(q)), Tail(q), m)
             /\ Head(q) \in Block
             /\ Ended(Tail(q)) => Ended(q)
  <2> DEFINE t == Tail(q)
             h == Append(g, Head(q))
  <2>1. Head(q) \in Block
    BY <1>1, <1>4
  <2>2. /\ Len(h) = Len(g) + 1 /\ h[Len(g) + 1] = q[1] /\ \A k \in 1..Len(g) : h[k] = g[k]
    BY <1>1, <2>1, AppendProperties
  <2>3. Ended(t) <=> Ended(q)
    <3>1. t \in Seq(Block \cup {Fin}) /\ Len(t) = Len(q) - 1
      BY <1>2, HeadTailProperties
    <3>2. \A i \in 1..(Len(q) - 1) : t[i] = q[i + 1]
      BY <1>2
    <3> HIDE DEF t
    <3>3. t # <<>> <=> Len(t) > 0
      BY <3>1, NotEmpty
    <3>4. Len(q) = 1 => ~Ended(q) /\ ~Ended(t)
      BY <1>1, <1>4, <3>1, <3>3 DEF Ended
    <3>5. Len(q) > 1 => t # <<>> /\ t[Len(t)] = q[Len(q)]
      <4> SUFFICES ASSUME Len(q) > 1
                   PROVE  t # <<>> /\ t[Len(t)] = q[Len(q)]
        OBVIOUS
      <4>1. Len(t) \in 1..(Len(q) - 1) /\ Len(t) + 1 = Len(q)
        BY <1>1, <3>1
      <4> QED BY <3>2, <3>3, <4>1
    <3>6. Len(q) = 1 \/ Len(q) > 1
      <4>1. \A l \in Nat \ {0} : l = 1 \/ l > 1
        OBVIOUS
      <4>2. Len(q) \in Nat \ {0}
        BY <1>1
      <4> QED BY <4>1, <4>2, Zenon
    <3>7. Len(q) > 1 => (Ended(t) <=> Ended(q))
      BY <3>5 DEF Ended
    <3> QED BY <3>4, <3>6, <3>7
  <2>4. Data(t) = Data(q) - 1 /\ Data(q) \in Nat
    <3>1. Ended(q) => Len(q) > 1
      BY <1>1, <1>4 DEF Ended
    <3> QED BY <1>1, <1>2, <2>3, <3>1 DEF Data
  <2>5. Data(q) >= 1
    <3>1. Ended(q) => Len(q) > 1
      BY <1>1, <1>4 DEF Ended
    <3> QED BY <1>1, <3>1 DEF Data
  <2>6. Data(q) <= Len(q)
    BY <1>1 DEF Data
  <2> HIDE DEF t, h
  <2>7. Len(h) + Data(t) = m
    BY <1>1, <1>3, <2>2, <2>4
  <2>8. ASSUME NEW k \in 1..Len(h)
        PROVE  h[k] = f[k]
    <3>1. CASE k = Len(g) + 1
      <4>1. q[1] = f[Len(g) + 1]
        BY <1>3, <2>4, <2>5
      <4> QED BY <2>2, <3>1, <4>1
    <3>2. CASE k # Len(g) + 1
      <4>1. k \in 1..Len(g)
        BY <1>1, <2>2, <3>2
      <4> QED BY <1>3, <2>2, <4>1
    <3> QED BY <3>1, <3>2
  <2>9. ASSUME NEW k \in 1..Data(t)
        PROVE  t[k] = f[Len(h) + k]
    <3>1. k + 1 \in 1..Data(q) /\ k \in 1..(Len(q) - 1) /\ Len(h) + k = Len(g) + (k + 1)
      BY <1>1, <2>2, <2>4, <2>6
    <3> QED BY <1>2, <1>3, <3>1 DEF t
  <2>10. Flow(f, h, t, m)
    BY <2>7, <2>8, <2>9 DEF Flow
  <2> QED BY <2>1, <2>3, <2>10 DEF t, h
<1>5. ASSUME Head(q) = Fin
      PROVE  Ended(q) /\ Tail(q) = <<>> /\ Flow(f, g, <<>>, m)
  <2>1. ~(1 <= Data(q))
    <3> SUFFICES ASSUME 1 <= Data(q)
                 PROVE  FALSE
      OBVIOUS
    <3>1. Data(q) \in Nat
      BY <1>1 DEF Data
    <3>2. q[1] = f[Len(g) + 1] /\ Len(g) + 1 \in 1..Len(f)
      BY <1>1, <1>3, <3>1
    <3>3. f[Len(g) + 1] \in Block
      BY <3>2
    <3> QED BY <1>1, <1>5, <3>2, <3>3, BlockNotFin
  <2>2. Ended(q) /\ Len(q) = 1 /\ Data(q) = 0
    <3>1. Ended(q)
      BY <1>1, <2>1 DEF Data
    <3>2. Data(q) = Len(q) - 1
      BY <3>1 DEF Data
    <3>3. \A l \in Nat \ {0} : ~(1 <= l - 1) => l = 1 /\ l - 1 = 0
      OBVIOUS
    <3> QED BY <1>1, <2>1, <3>1, <3>2, <3>3
  <2>3. Tail(q) = <<>>
    <3>1. Len(Tail(q)) = 0 /\ Tail(q) \in Seq(Block \cup {Fin})
      BY <1>2, <2>2
    <3> QED BY <3>1, NotEmpty
  <2>4. Flow(f, g, <<>>, m)
    BY <1>1, <1>3, <2>2 DEF Flow, Data, Ended
  <2> QED BY <2>2, <2>3, <2>4
<1> QED BY <1>4, <1>5

-----------------------------------------------------------------------------
LEMMA Kinds ==
  /\ Streams \cap Udp = {} /\ "uds_dgram" \notin Streams \cup Udp
  /\ "mmap" \notin Streams \cup Udp
  BY DEF Streams, Udp

LEMMA InitIInv == Init => IInv
<1> SUFFICES ASSUME Init
             PROVE  IInv
  OBVIOUS
<1> USE TransferAssumption DEF Init
<1>1. file \in Seq(Block) /\ Len(file) \in Nat
  <2>1. PICK n \in 0..MaxBlocks : file \in [1..n -> Block]
    OBVIOUS
  <2>2. n \in Nat
    OBVIOUS
  <2> QED BY <2>1, <2>2, SeqDef
<1>2. Env
  BY <1>1 DEF Env
<1>3. TypeOK
  <2>1. next \in 0..Len(file) /\ fifo \in BOOLEAN /\ cleared \in BOOLEAN
    <3>1. \A l \in Nat : 0 \in 0..l
      OBVIOUS
    <3>2. next = 0 /\ cleared = FALSE
      OBVIOUS
    <3>3. fifo \in BOOLEAN
      OBVIOUS
    <3> QED BY <1>1, <3>1, <3>2, <3>3
  <2>2. words \in Seq({"word1", "word2"}) /\ net \in Seq(Block \cup {Fin}) /\ got \in Seq(Block)
    BY EmptySeq
  <2> QED BY <2>1, <2>2 DEF TypeOK
<1>4. StreamInv
  BY DEF StreamInv, Flow, Data, Ended
<1>5. UdpInv
  <2>1. Picked(All, got, net, Sent)
    <3>1. [1..Len(got) -> 1..Sent] = [{} -> {}] /\ [1..Len(net) -> 1..Sent] = [{} -> {}]
      BY DEF Sent
    <3>2. \E f \in [{} -> {}] : TRUE
      <4>1. [x \in {} |-> x] \in [{} -> {}]
        OBVIOUS
      <4> QED BY <4>1
    <3> QED BY <3>1, <3>2 DEF Picked
  <2> QED BY <2>1 DEF UdpInv
<1>6. UdsInv
  BY DEF UdsInv
<1> QED BY <1>2, <1>3, <1>4, <1>5, <1>6 DEF IInv

-----------------------------------------------------------------------------
(* The steps that move no block: where the two programs may go in them.    *)
Quiet ==
  /\ UNCHANGED <<env, net, next, got, cleared>>
  /\ srv' = "done" => srv = "done" \/ proto = "mmap"
  /\ srv = "done" => srv' = "done"
  /\ Ready => Ready'
  /\ srv' = "serve" => srv \in {"setup", "serve"}
  /\ cli' = "done" <=> cli = "done"
  /\ cli' = "send" => cli \in {"open", "send"}
  /\ cli \in {"send", "failed"} => cli' \in {cli, "failed"}
  /\ timely /\ cli' \in {"open", "send", "done"} => cli \in {"open", "send", "done"} \/ Ready

LEMMA QuietServer ==
  ASSUME TypeOK, SrvListen \/ SrvAccept \/ SrvWord \/ SrvSetup \/ s_mmap \/ KillServer
  PROVE  Quiet /\ TypeOK'
<1> USE DEF Srv, env
<1>1. UNCHANGED <<env, net, next, got, cleared, cli>>
  BY DEF SrvListen, SrvAccept, SrvWord, SrvSetup, s_mmap, KillServer
<1>2. words' \in Seq({"word1", "word2"}) /\ fifo' \in BOOLEAN
  <2>1. words # <<>> => Tail(words) \in Seq({"word1", "word2"})
    BY HeadTailProperties DEF TypeOK
  <2>2. words \in Seq({"word1", "word2"}) /\ <<>> \in Seq({"word1", "word2"}) /\ fifo \in BOOLEAN
    BY EmptySeq DEF TypeOK
  <2>3. words' = words \/ words' = <<>> \/ (words # <<>> /\ words' = Tail(words))
    BY DEF SrvListen, SrvAccept, SrvWord, SrvSetup, s_mmap, KillServer
  <2>4. fifo' = fifo \/ fifo' = (fifo \/ proto = "pipe")
    BY DEF SrvListen, SrvAccept, SrvWord, SrvSetup, s_mmap, KillServer
  <2> QED BY <2>1, <2>2, <2>3, <2>4
<1>3. /\ srv' \in {"accept", "word1", "word2", "setup", "serve", "done", "failed"}
      /\ srv' = "done" => proto = "mmap"
      /\ srv # "done"
      /\ Ready => Ready'
      /\ srv' = "serve" => srv \in {"setup", "serve"}
  BY DEF SrvListen, SrvAccept, SrvWord, SrvSetup, s_mmap, KillServer, Ready
<1> QED BY <1>1, <1>2, <1>3 DEF TypeOK, Quiet

LEMMA QuietClient ==
  ASSUME TypeOK,
         \/ CliConnect \/ CliWord \/ CliPause \/ OpenFile \/ c_mmap
         \/ KillClient /\ ~(proto \in Streams /\ cli = "send")
  PROVE  Quiet /\ TypeOK'
<1> USE DEF Cli, env
<1>1. UNCHANGED <<env, net, next, got, cleared, srv, fifo>>
  BY DEF CliConnect, CliWord, CliPause, OpenFile, c_mmap, KillClient
<1>2. words' \in Seq({"word1", "word2"})
  <2>1. cli \in {"word1", "word2"} => Append(words, cli) \in Seq({"word1", "word2"})
    BY DEF TypeOK
  <2> QED BY <2>1 DEF CliConnect, CliWord, CliPause, OpenFile, c_mmap, KillClient, TypeOK
<1>3. /\ cli' \in {"word1", "refused", "pause1", "pause2", "word2", "failed", "open", "send"}
      /\ cli \notin {"done", "failed"}
      /\ cli' = "send" => cli = "open"
      /\ cli = "send" => cli' = "failed"
      /\ timely /\ cli' = "open" => Ready
  BY DEF CliConnect, CliWord, CliPause, OpenFile, c_mmap, KillClient
<1>4. Ready' <=> Ready
  BY <1>1 DEF Ready
<1> QED BY <1>1, <1>2, <1>3, <1>4 DEF TypeOK, Quiet

LEMMA QuietStep ==
  ASSUME IInv, Quiet, TypeOK'
  PROVE  IInv'
<1> USE DEF IInv, Quiet, env
<1>1. Env'
  BY DEF Env
<1>2. StreamInv'
  <2> SUFFICES ASSUME proto \in Streams
               PROVE  StreamInv'
    BY DEF StreamInv
  <2>1. proto # "mmap"
    BY Kinds
  <2>2. Flow(file, got, net, next)'
    BY DEF StreamInv
  <2>3. cli' \notin {"send", "done", "failed"} => cli \notin {"send", "done", "failed"}
    OBVIOUS
  <2>4. cli' = "send" => ~Ended(net)
    BY DEF StreamInv, Ended
  <2>5. srv' = "done" <=> srv = "done"
    BY <2>1
  <2>6. (cli = "done" => cli' = "done") /\ (cli = "failed" => cli' = "failed")
    OBVIOUS
  <2>7. (Over => Over') /\ (Lenient' <=> Lenient) /\ (Ended(net)' <=> Ended(net))
    BY <2>6 DEF Over, Lenient, Ended
  <2> QED BY <2>2, <2>3, <2>4, <2>5, <2>7 DEF StreamInv
<1>3. UdpInv'
  <2> SUFFICES ASSUME proto \in Udp
               PROVE  UdpInv'
    BY DEF UdpInv
  <2>1. proto # "mmap"
    BY Kinds
  <2>2. Sent' = Sent /\ All' = All
    BY DEF Sent, All
  <2>3. Picked(All, got, net, Sent)'
    <3>1. Picked(All, got, net, Sent)
      BY DEF UdpInv
    <3>2. All' = All /\ got' = got /\ net' = net /\ Sent' = Sent
      BY <2>2
    <3> QED BY <3>1, <3>2
  <2>4. ~Ready' => net' = <<>> /\ got' = <<>>
    BY DEF UdpInv
  <2>5. timely' /\ (next' > 0 \/ cli' \in {"open", "send", "done"}) => Ready'
    BY DEF UdpInv
  <2>6. ASSUME timely, ~faulty, srv' = "serve"
        PROVE  Exactly(All, got, net, Sent)'
    <3>1. CASE srv = "serve"
      BY <2>2, <2>6, <3>1 DEF UdpInv, Exactly
    <3>2. CASE srv = "setup"
      <4>1. net = <<>> /\ got = <<>> /\ ~Ready
        BY <3>2 DEF UdpInv, Ready
      <4>2. next = 0 /\ cli # "done"
        BY <2>6, <4>1 DEF UdpInv, TypeOK
      <4>3. Sent' = 0
        BY <2>2, <4>2 DEF Sent
      <4> QED BY <4>1, <4>3 DEF Exactly
    <3> QED BY <2>6, <3>1, <3>2
  <2>7. timely' /\ ~faulty' /\ srv' = "done" =>
          UntilExit(All', got') \/ (proto' = "ipv4_udp" /\ file' = <<"start">> /\ got' = <<>>)
    BY <2>1, <2>2 DEF UdpInv, UntilExit
  <2> QED BY <2>3, <2>4, <2>5, <2>6, <2>7 DEF UdpInv
<1>4. UdsInv'
  BY Kinds DEF UdsInv
<1> QED BY <1>1, <1>2, <1>3, <1>4

-----------------------------------------------------------------------------
LEMMA Types ==
  ASSUME Env, TypeOK
  PROVE  /\ file \in Seq(Block) /\ Len(file) \in Nat /\ next \in 0..Len(file) /\ next \in Nat
         /\ net \in Seq(Block \cup {Fin}) /\ got \in Seq(Block)
         /\ next < Len(file) => /\ file[next + 1] \in Block /\ next + 1 \in 0..Len(file)
                                /\ Append(net, file[next + 1]) \in Seq(Block \cup {Fin})
         /\ Append(net, Fin) \in Seq(Block \cup {Fin}) /\ <<Fin>> \in Seq(Block \cup {Fin})
         /\ net # <<>> => Tail(net) \in Seq(Block \cup {Fin}) /\ Head(net) \in Block \cup {Fin}
<1>1. /\ file \in Seq(Block) /\ Len(file) \in Nat /\ next \in 0..Len(file) /\ next \in Nat
      /\ net \in Seq(Block \cup {Fin}) /\ got \in Seq(Block)
  BY DEF Env, TypeOK
<1>2. next < Len(file) => next + 1 \in 1..Len(file)
  BY <1>1
<1>3. next < Len(file) => file[next + 1] \in Block
  BY <1>1, <1>2
<1>4. \A e \in Block \cup {Fin} : Append(net, e) \in Seq(Block \cup {Fin})
  BY <1>1, AppendProperties
<1>5. net # <<>> => Tail(net) \in Seq(Block \cup {Fin}) /\ Head(net) \in Block \cup {Fin}
  BY <1>1, HeadTailProperties
<1>6. <<Fin>> \in Seq(Block \cup {Fin})
  OBVIOUS
<1> QED BY <1>1, <1>2, <1>3, <1>4, <1>5, <1>6

(* A step over a stream says nothing of the other transports.              *)
LEMMA OfStreams ==
  ASSUME IInv, proto \in Streams, UNCHANGED env, TypeOK', StreamInv'
  PROVE  IInv'
  BY Kinds DEF IInv, env, Env, UdpInv, UdsInv

LEMMA StreamRecv ==
  ASSUME IInv, proto \in Streams, SrvRecv
  PROVE  IInv'
<1> USE DEF IInv, env
<1>1. /\ UNCHANGED <<env, cli, words, next, cleared>> /\ srv = "serve" /\ net # <<>> /\ net' = Tail(net)
      /\ \/ Head(net) = Fin /\ srv' = "done" /\ got' = got /\ fifo' = FALSE
         \/ Head(net) # Fin /\ srv' = "serve" /\ got' = Append(got, Head(net)) /\ fifo' = fifo
  BY DEF SrvRecv, Srv
<1>2. /\ file \in Seq(Block) /\ next \in 0..Len(file)
      /\ net \in Seq(Block \cup {Fin}) /\ got \in Seq(Block)
  BY Types
<1>3. Flow(file, got, net, next)
  BY DEF StreamInv
<1>4. /\ Head(net) # Fin => /\ Flow(file, Append(got, Head(net)), Tail(net), next)
                            /\ Head(net) \in Block
                            /\ Ended(Tail(net)) => Ended(net)
      /\ Head(net) = Fin => /\ Ended(net) /\ Tail(net) = <<>>
                            /\ Flow(file, got, <<>>, next)
  BY <1>1, <1>2, <1>3, FlowRecv
<1>5. Tail(net) \in Seq(Block \cup {Fin}) /\ (Head(net) # Fin => Append(got, Head(net)) \in Seq(Block))
  BY <1>1, <1>2, <1>4, Types
<1>6. TypeOK'
  BY <1>1, <1>5 DEF TypeOK
<1>7. cli \in {"send", "done", "failed"}
  BY <1>1 DEF StreamInv
<1>8. StreamInv'
  <2>1. CASE Head(net) = Fin
    <3>1. Flow(file, got, net, next)' /\ net' = <<>> /\ Ended(net)
      BY <1>1, <1>4, <2>1
    <3>2. Over /\ Over'
      BY <1>1, <3>1 DEF StreamInv, Over
    <3> QED BY <1>1, <1>7, <3>1, <3>2 DEF StreamInv, Ended
  <2>2. CASE Head(net) # Fin
    <3>1. Flow(file, got, net, next)' /\ srv' # "done" /\ (Ended(net)' => Ended(net))
      BY <1>1, <1>4, <2>2 DEF Ended
    <3> QED BY <1>1, <1>7, <3>1 DEF StreamInv, Over
  <2> QED BY <2>1, <2>2
<1> QED BY <1>1, <1>6, <1>8, OfStreams

(* Where a read has failed, nothing more is received.                      *)
LEMMA StreamRecvFails ==
  ASSUME IInv, proto \in Streams, SrvRecvFails
  PROVE  IInv'
<1> USE DEF IInv, env
<1>1. /\ UNCHANGED <<env, cli, words, net, next, cleared, got>> /\ faulty
      /\ \/ Lenient /\ srv' = "done" /\ fifo' = FALSE
         \/ srv' = "failed" /\ fifo' = fifo
  BY DEF SrvRecvFails, Srv
<1>2. TypeOK'
  BY <1>1 DEF TypeOK
<1>3. /\ Flow(file, got, net, next)' /\ (Ended(net)' <=> Ended(net)) /\ (Over' <=> Over)
      /\ (Lenient' <=> Lenient)
  BY <1>1 DEF StreamInv, Ended, Over, Lenient
<1> HIDE DEF IInv
<1>4. StreamInv'
  <2>1. StreamInv
    BY DEF IInv
  <2> QED BY <1>1, <1>3, <2>1 DEF StreamInv
<1> QED BY <1>1, <1>2, <1>4, OfStreams

LEMMA StreamOpen ==
  ASSUME IInv, proto \in Streams, CliOpen
  PROVE  IInv'
<1> USE DEF IInv, env
<1>1. /\ UNCHANGED <<env, srv, words, fifo, next, cleared, got>> /\ cli = "open"
      /\ \/ cli' = "failed" /\ net' = net
         \/ cli' = "send" /\ net' = net
         \/ cli' = "failed" /\ net' = <<Fin>> /\ ~exists
  BY DEF CliOpen, Cli
<1>2. /\ net = <<>> /\ got = <<>> /\ next = 0 /\ ~Ended(net)
      /\ srv = "done" => faulty /\ Lenient
  BY <1>1 DEF StreamInv, Ended, Over
<1>3. TypeOK'
  BY <1>1, Types DEF TypeOK
<1>4. Flow(file, got, net, next)'
  <2>1. Flow(file, got, net, next)
    BY DEF StreamInv
  <2>2. Flow(file, <<>>, <<Fin>>, 0)
    BY DEF Flow, Data, Ended
  <2> QED BY <1>1, <1>2, <2>1, <2>2
<1>5. StreamInv'
  BY <1>1, <1>2, <1>4 DEF StreamInv, Ended, Over, Lenient
<1> QED BY <1>1, <1>3, <1>5, OfStreams

(* The client sends the next block, or the end behind the last; a client   *)
(* that is killed leaves the end behind what it has sent.                  *)
LEMMA StreamSend ==
  ASSUME IInv, proto \in Streams, CliSend \/ (KillClient /\ cli = "send")
  PROVE  IInv'
<1> USE DEF IInv, env
<1>1. /\ UNCHANGED <<env, srv, words, fifo, cleared, got>> /\ cli = "send"
      /\ \/ cli' = "done" /\ net' = Append(net, Fin) /\ next = Len(file) /\ next' = next
         \/ cli' = "send" /\ next < Len(file) /\ net' = Append(net, file[next + 1]) /\ next' = next + 1
         \/ cli' = "failed" /\ net' = net /\ next' = next
         \/ cli' = "failed" /\ net' = Append(net, Fin) /\ next' = next /\ mortal
  BY DEF CliSend, KillClient, Cli
<1>2. ~Ended(net) /\ (srv = "done" => faulty /\ Lenient) /\ Flow(file, got, net, next)
  BY <1>1 DEF StreamInv, Over
<1>3. TypeOK'
  BY <1>1, Types DEF TypeOK
<1>4. /\ file \in Seq(Block) /\ next \in Nat /\ (next < Len(file) => file[next + 1] \in Block)
      /\ net \in Seq(Block \cup {Fin}) /\ got \in Seq(Block)
  BY Types
<1>5. /\ Flow(file, got, Append(net, Fin), next)
      /\ next < Len(file) =>
           Flow(file, got, Append(net, file[next + 1]), next + 1) /\ ~Ended(Append(net, file[next + 1]))
  BY <1>2, <1>4, FlowSend
<1>6. /\ Flow(file, got, net, next)' /\ (cli' = "send" => ~Ended(net'))
      /\ (srv' = "done" => faulty' /\ Lenient')
  BY <1>1, <1>2, <1>5 DEF Lenient
<1>7. Ended(net') => \/ cli' = "done" /\ next' = Len(file)
                     \/ cli' = "failed" /\ mortal
  BY <1>1, <1>2, <1>5
<1> HIDE DEF IInv
<1>8. StreamInv'
  BY <1>1, <1>6, <1>7 DEF StreamInv, Ended, Over
<1> QED BY <1>1, <1>3, <1>8, OfStreams

-----------------------------------------------------------------------------
(* One datagram more is sent: it arrives behind the others or is lost.     *)
LEMMA PickedSend ==
  ASSUME NEW all, NEW g \in Seq(Block), NEW q \in Seq(Block \cup {Fin}), NEW m \in Nat,
         Picked(all, g, q, m), all[m + 1] \in Block
  PROVE  /\ Picked(all, g, Append(q, all[m + 1]), m + 1)
         /\ Picked(all, g, q, m + 1)
<1> DEFINE r == Append(q, all[m + 1])
<1>1. PICK f \in [1..Len(g) -> 1..m], h \in [1..Len(q) -> 1..m] :
        /\ \A a, b \in 1..Len(g) : a < b => f[a] < f[b]
        /\ \A a, b \in 1..Len(q) : a < b => h[a] < h[b]
        /\ \A a \in 1..Len(g), b \in 1..Len(q) : f[a] < h[b]
        /\ \A a \in 1..Len(g) : g[a] = all[f[a]]
        /\ \A b \in 1..Len(q) : q[b] = all[h[b]]
  BY DEF Picked
<1>2. 1..m \subseteq 1..(m + 1)
  OBVIOUS
<1>3. f \in [1..Len(g) -> 1..(m + 1)] /\ h \in [1..Len(q) -> 1..(m + 1)]
  BY <1>2
<1>4. Picked(all, g, q, m + 1)
  BY <1>1, <1>3 DEF Picked
<1>5. /\ Len(r) = Len(q) + 1 /\ r[Len(q) + 1] = all[m + 1] /\ Len(q) \in Nat /\ Len(g) \in Nat
      /\ \A k \in 1..Len(q) : r[k] = q[k]
  BY AppendProperties
<1> DEFINE h2 == [b \in 1..(Len(q) + 1) |-> IF b = Len(q) + 1 THEN m + 1 ELSE h[b]]
<1>6. \A b \in 1..(Len(q) + 1) : b = Len(q) + 1 \/ b \in 1..Len(q)
  BY <1>5
<1>7. /\ h2[Len(q) + 1] = m + 1 /\ \A b \in 1..Len(q) : h2[b] = h[b] /\ h2[b] \in 1..m
  <2>1. Len(q) + 1 \in 1..(Len(q) + 1) /\ \A b \in 1..Len(q) : b \in 1..(Len(q) + 1) /\ b # Len(q) + 1
    BY <1>5
  <2> QED BY <2>1
<1>8. h2 \in [1..Len(r) -> 1..(m + 1)]
  <2>1. m + 1 \in 1..(m + 1)
    OBVIOUS
  <2> QED BY <1>2, <1>5, <1>6, <2>1
<1> HIDE DEF r, h2
<1>9. \A a, b \in 1..Len(r) : a < b => h2[a] < h2[b]
  <2> SUFFICES ASSUME NEW a \in 1..Len(r), NEW b \in 1..Len(r), a < b
               PROVE  h2[a] < h2[b]
    OBVIOUS
  <2>1. a \in 1..Len(q)
    BY <1>5
  <2>2. h2[a] = h[a] /\ h2[a] \in 1..m
    BY <1>7, <2>1
  <2>3. CASE b = Len(q) + 1
    BY <1>7, <2>2, <2>3
  <2>4. CASE b \in 1..Len(q)
    BY <1>1, <1>7, <2>1, <2>4
  <2> QED BY <1>5, <1>6, <2>3, <2>4
<1>10. \A a \in 1..Len(g), b \in 1..Len(r) : f[a] < h2[b]
  <2> SUFFICES ASSUME NEW a \in 1..Len(g), NEW b \in 1..Len(r)
               PROVE  f[a] < h2[b]
    OBVIOUS
  <2>1. f[a] \in 1..m
    BY <1>1
  <2>2. CASE b = Len(q) + 1
    BY <1>7, <2>1, <2>2
  <2>3. CASE b \in 1..Len(q)
    BY <1>1, <1>7, <2>3
  <2> QED BY <1>5, <1>6, <2>2, <2>3
<1>11. \A b \in 1..Len(r) : r[b] = all[h2[b]]
  BY <1>1, <1>5, <1>6, <1>7
<1>12. Picked(all, g, r, m + 1)
  BY <1>1, <1>3, <1>8, <1>9, <1>10, <1>11 DEF Picked
<1> QED BY <1>4, <1>12 DEF r

(* The first of the datagrams on the way is received, as data or not.      *)
LEMMA PickedRecv ==
  ASSUME NEW all, NEW g \in Seq(Block), NEW q \in Seq(Block \cup {Fin}), NEW m \in Nat,
         Picked(all, g, q, m), q # <<>>
  PROVE  /\ Head(q) \in Block => Picked(all, Append(g, Head(q)), Tail(q), m)
         /\ Picked(all, g, Tail(q), m)
<1> DEFINE t == Tail(q)
           x == Head(q)
           r == Append(g, x)
<1>1. PICK f \in [1..Len(g) -> 1..m], h \in [1..Len(q) -> 1..m] :
        /\ \A a, b \in 1..Len(g) : a < b => f[a] < f[b]
        /\ \A a, b \in 1..Len(q) : a < b => h[a] < h[b]
        /\ \A a \in 1..Len(g), b \in 1..Len(q) : f[a] < h[b]
        /\ \A a \in 1..Len(g) : g[a] = all[f[a]]
        /\ \A b \in 1..Len(q) : q[b] = all[h[b]]
  BY DEF Picked
<1>2. /\ Len(t) = Len(q) - 1 /\ Len(q) \in Nat \ {0} /\ Len(g) \in Nat /\ x = q[1] /\ Len(t) \in Nat
      /\ \A k \in 1..Len(t) : t[k] = q[k + 1]
  BY HeadTailProperties, NotEmpty
<1>3. \A k \in 1..Len(t) : k + 1 \in 1..Len(q)
  BY <1>2
<1>4. 1 \in 1..Len(q)
  BY <1>2
<1> DEFINE h2 == [b \in 1..Len(t) |-> h[b + 1]]
<1>5. h2 \in [1..Len(t) -> 1..m] /\ \A b \in 1..Len(t) : h2[b] = h[b + 1]
  BY <1>3
<1> HIDE DEF h2, t, x
<1>6. \A a, b \in 1..Len(t) : a < b => h2[a] < h2[b]
  <2> SUFFICES ASSUME NEW a \in 1..Len(t), NEW b \in 1..Len(t), a < b
               PROVE  h2[a] < h2[b]
    OBVIOUS
  <2>1. a + 1 < b + 1
    OBVIOUS
  <2> QED BY <1>1, <1>3, <1>5, <2>1
<1>7. \A a \in 1..Len(g), b \in 1..Len(t) : f[a] < h2[b]
  BY <1>1, <1>3, <1>5
<1>8. \A b \in 1..Len(t) : t[b] = all[h2[b]]
  BY <1>1, <1>2, <1>3, <1>5
<1>9. Picked(all, g, t, m)
  BY <1>1, <1>5, <1>6, <1>7, <1>8 DEF Picked
<1>10. ASSUME x \in Block
       PROVE  Picked(all, r, t, m)
  <2>1. /\ Len(r) = Len(g) + 1 /\ r[Len(g) + 1] = x /\ \A k \in 1..Len(g) : r[k] = g[k]
    BY <1>10, AppendProperties
  <2> DEFINE f2 == [a \in 1..(Len(g) + 1) |-> IF a = Len(g) + 1 THEN h[1] ELSE f[a]]
  <2>2. \A a \in 1..(Len(g) + 1) : a = Len(g) + 1 \/ a \in 1..Len(g)
    <3>1. \A n \in Nat : \A a \in 1..(n + 1) : a = n + 1 \/ a \in 1..n
      OBVIOUS
    <3> QED BY <1>2, <3>1
  <2>3. h[1] \in 1..m
    BY <1>4
  <2>4. f2 \in [1..Len(r) -> 1..m]
    BY <2>1, <2>2, <2>3
  <2>5. f2[Len(g) + 1] = h[1] /\ \A a \in 1..Len(g) : f2[a] = f[a]
    <3>1. Len(g) + 1 \in 1..(Len(g) + 1) /\ \A a \in 1..Len(g) : a \in 1..(Len(g) + 1) /\ a # Len(g) + 1
      BY <1>2
    <3> QED BY <3>1
  <2> HIDE DEF r, f2
  <2>6. \A a, b \in 1..Len(r) : a < b => f2[a] < f2[b]
    <3> SUFFICES ASSUME NEW a \in 1..Len(r), NEW b \in 1..Len(r), a < b
                 PROVE  f2[a] < f2[b]
      OBVIOUS
    <3>1. a \in 1..Len(g)
      BY <1>2, <2>1
    <3>2. CASE b = Len(g) + 1
      BY <1>1, <1>4, <2>5, <3>1, <3>2
    <3>3. CASE b \in 1..Len(g)
      BY <1>1, <2>5, <3>1, <3>3
    <3> QED BY <2>1, <2>2, <3>2, <3>3
  <2>7. \A a \in 1..Len(r), b \in 1..Len(t) : f2[a] < h2[b]
    <3> SUFFICES ASSUME NEW a \in 1..Len(r), NEW b \in 1..Len(t)
                 PROVE  f2[a] < h2[b]
      OBVIOUS
    <3>1. CASE a = Len(g) + 1
      <4>1. 1 < b + 1
        BY <1>2
      <4> QED BY <1>1, <1>3, <1>4, <1>5, <2>5, <3>1, <4>1
    <3>2. CASE a \in 1..Len(g)
      BY <1>7, <2>5, <3>2
    <3> QED BY <2>1, <2>2, <3>1, <3>2
  <2>8. \A a \in 1..Len(r) : r[a] = all[f2[a]]
    BY <1>1, <1>2, <1>4, <2>1, <2>2, <2>5
  <2> QED BY <1>5, <1>6, <1>8, <2>4, <2>6, <2>7, <2>8 DEF Picked
<1> QED BY <1>9, <1>10 DEF t, x

LEMMA ExactlySend ==
  ASSUME NEW all, NEW g \in Seq(Block), NEW q \in Seq(Block \cup {Fin}), NEW m \in Nat,
         Exactly(all, g, q, m), all[m + 1] \in Block
  PROVE  Exactly(all, g, Append(q, all[m + 1]), m + 1)
<1> DEFINE r == Append(q, all[m + 1])
<1>1. /\ Len(r) = Len(q) + 1 /\ r[Len(q) + 1] = all[m + 1] /\ Len(q) \in Nat /\ Len(g) \in Nat
      /\ \A k \in 1..Len(q) : r[k] = q[k]
  BY AppendProperties
<1> HIDE DEF r
<1>2. \A b \in 1..Len(r) : b = Len(q) + 1 \/ b \in 1..Len(q)
  BY <1>1
<1>3. Len(g) + Len(q) = m /\ Len(g) + (Len(q) + 1) = m + 1
  BY <1>1 DEF Exactly
<1>4. \A b \in 1..Len(r) : r[b] = all[Len(g) + b]
  BY <1>1, <1>2, <1>3 DEF Exactly
<1>5. Exactly(all, g, r, m + 1)
  BY <1>1, <1>3, <1>4 DEF Exactly
<1> QED BY <1>5 DEF r

LEMMA ExactlyRecv ==
  ASSUME NEW all \in Seq(Block), NEW g \in Seq(Block), NEW q \in Seq(Block \cup {Fin}), NEW m \in Nat,
         Exactly(all, g, q, m), q # <<>>, m <= Len(all)
  PROVE  /\ Head(q) \in Block => Exactly(all, Append(g, Head(q)), Tail(q), m)
         /\ Head(q) = "exit" => UntilExit(all, g)
<1> DEFINE t == Tail(q)
           x == Head(q)
           r == Append(g, x)
<1>1. /\ Len(t) = Len(q) - 1 /\ Len(q) \in Nat \ {0} /\ Len(g) \in Nat /\ x = q[1] /\ Len(t) \in Nat
      /\ \A k \in 1..Len(t) : t[k] = q[k + 1]
  BY HeadTailProperties, NotEmpty
<1> HIDE DEF t, x
<1>2. /\ Len(g) + Len(q) = m
      /\ \A a \in 1..Len(g) : g[a] = all[a]
      /\ \A b \in 1..Len(q) : q[b] = all[Len(g) + b]
  BY DEF Exactly
<1>3. x = all[Len(g) + 1]
  <2>1. 1 \in 1..Len(q)
    BY <1>1
  <2> QED BY <1>1, <1>2, <2>1
<1>4. ASSUME x \in Block
      PROVE  Exactly(all, r, t, m)
  <2>1. /\ Len(r) = Len(g) + 1 /\ r[Len(g) + 1] = x /\ \A k \in 1..Len(g) : r[k] = g[k]
    BY <1>4, AppendProperties
  <2> HIDE DEF r
  <2>2. \A a \in 1..Len(r) : a = Len(g) + 1 \/ a \in 1..Len(g)
    BY <1>1, <2>1
  <2>3. \A a \in 1..Len(r) : r[a] = all[a]
    BY <1>2, <1>3, <2>1, <2>2
  <2>4. \A b \in 1..Len(t) : b + 1 \in 1..Len(q) /\ Len(g) + (b + 1) = Len(r) + b
    BY <1>1, <2>1
  <2>5. \A b \in 1..Len(t) : t[b] = all[Len(r) + b]
    BY <1>1, <1>2, <2>4
  <2>6. Len(r) + Len(t) = m
    <3>1. \A a, b \in Nat : (a + 1) + (b - 1) = a + b
      OBVIOUS
    <3>2. Len(g) \in Nat /\ Len(q) \in Nat /\ Len(g) + Len(q) = m
      BY <1>1, <1>2
    <3>3. Len(r) = Len(g) + 1 /\ Len(t) = Len(q) - 1
      BY <1>1, <2>1
    <3> QED BY <3>1, <3>2, <3>3
  <2> QED BY <2>3, <2>5, <2>6 DEF Exactly
<1>5. ASSUME x = "exit"
      PROVE  UntilExit(all, g)
  <2>1. Len(all) \in Nat
    OBVIOUS
  <2>2. Len(g) + 1 \in 1..Len(all) /\ Len(g) = (Len(g) + 1) - 1
    BY <1>1, <1>2, <2>1
  <2> QED BY <1>2, <1>3, <1>5, <2>2 DEF UntilExit
<1> QED BY <1>4, <1>5 DEF t, x

-----------------------------------------------------------------------------
LEMMA OfUdp ==
  ASSUME IInv, proto \in Udp, UNCHANGED env, TypeOK', UdpInv'
  PROVE  IInv'
  BY Kinds DEF IInv, env, Env, StreamInv, UdsInv

LEMMA AllTypes ==
  ASSUME Env
  PROVE  /\ All \in Seq(Block) /\ Len(All) = Len(file) + 1 /\ All[Len(file) + 1] = "exit"
         /\ \A k \in 1..Len(file) : All[k] = file[k]
  BY AppendProperties DEF Env, All, Block

(* A file that begins with the start of exit has nothing else.             *)
LEMMA StartOnly ==
  ASSUME Env, All[1] = "start"
  PROVE  file = <<"start">>
<1>1. file \in Seq(Block) /\ Len(file) \in Nat /\ Len(All) = Len(file) + 1
      /\ All[Len(file) + 1] = "exit" /\ \A k \in 1..Len(file) : All[k] = file[k]
  BY AllTypes DEF Env
<1>2. Len(file) # 0
  BY <1>1
<1>3. 1 \in 1..Len(file) /\ file[1] = "start"
  BY <1>1, <1>2
<1>4. Len(file) = 1
  BY <1>3 DEF Env
<1> QED BY <1>1, <1>3, <1>4

(* Over UDP exit is met by a clean buffer only where it was sent.          *)
LEMMA UdpRecv ==
  ASSUME IInv, proto \in Udp, NEW clean \in {TRUE, cleared}, clean = TRUE \/ proto = "ipv4_udp",
         RecvDatagram(clean)
  PROVE  IInv'
<1> USE DEF IInv, env
<1>1. /\ UNCHANGED <<env, cli, words, fifo, next>> /\ srv = "serve" /\ net # <<>>
      /\ net' = Tail(net) /\ cleared' = TRUE
      /\ \/ /\ srv' = "done" /\ got' = got
            /\ Head(net) = "exit" \/ (Head(net) = "start" /\ ~clean)
         \/ /\ srv' = "serve" /\ got' = Append(got, Head(net))
            /\ Head(net) = "exit" => ~clean
  <2>1. proto # "uds_dgram"
    BY Kinds
  <2> QED BY <2>1 DEF RecvDatagram, MayEnd, MayGoOn, IsExit, Srv
<1>2. /\ net \in Seq(Block \cup {Fin}) /\ got \in Seq(Block) /\ next \in Nat /\ next \in 0..Len(file)
      /\ Tail(net) \in Seq(Block \cup {Fin}) /\ Len(file) \in Nat
  BY <1>1, Types
<1>3. /\ Picked(All, got, net, Sent) /\ Sent \in Nat /\ Sent <= Len(All)
      /\ All \in Seq(Block) /\ Len(All) = Len(file) + 1
  BY <1>2, AllTypes DEF UdpInv, Sent
<1>4. Head(net) \in Block
  <2>1. PICK h \in [1..Len(net) -> 1..Sent] : \A b \in 1..Len(net) : net[b] = All[h[b]]
    BY <1>3 DEF Picked
  <2>2. 1 \in 1..Len(net) /\ Head(net) = net[1]
    BY <1>1, <1>2, NotEmpty
  <2>3. h[1] \in 1..Sent
    BY <2>1, <2>2
  <2>4. h[1] \in 1..Len(All)
    BY <1>2, <1>3, <2>3
  <2>5. Head(net) = All[h[1]]
    BY <2>1, <2>2
  <2> QED BY <1>3, <2>4, <2>5
<1>5. Append(got, Head(net)) \in Seq(Block) /\ Len(got) \in Nat
      /\ Len(Append(got, Head(net))) = Len(got) + 1
      /\ Append(got, Head(net))[Len(got) + 1] = Head(net)
      /\ \A k \in 1..Len(got) : Append(got, Head(net))[k] = got[k]
  BY <1>2, <1>4, AppendProperties
<1>6. TypeOK'
  BY <1>1, <1>2, <1>5 DEF TypeOK
<1>7. Sent' = Sent /\ All' = All
  BY <1>1 DEF Sent, All
<1>8. Picked(All, got, net, Sent)'
  <2>1. Picked(All, Append(got, Head(net)), Tail(net), Sent) /\ Picked(All, got, Tail(net), Sent)
    BY <1>1, <1>2, <1>3, <1>4, PickedRecv
  <2> QED BY <1>1, <1>7, <2>1
<1>9. \A k \in 2..Len(got') : got'[k] # "exit"
  <2>1. \A k \in 2..Len(got) : got[k] # "exit"
    BY DEF UdpInv
  <2>2. CASE got' = got
    BY <2>1, <2>2
  <2>3. CASE got' = Append(got, Head(net)) /\ (Head(net) = "exit" => ~clean)
    <3>1. Len(got) > 0 => Head(net) # "exit"
      <4>1. Len(got) > 0 => cleared = TRUE
        BY <1>2, NotEmpty DEF UdpInv, TypeOK
      <4>2. Len(got) > 0 => clean = TRUE
        BY <4>1, Zenon
      <4> QED BY <2>3, <4>2, Zenon
    <3>2. \A k \in 2..(Len(got) + 1) : (k = Len(got) + 1 /\ Len(got) > 0) \/ k \in 2..Len(got)
      <4>1. \A n \in Nat : \A k \in 2..(n + 1) : (k = n + 1 /\ n > 0) \/ k \in 2..n
        OBVIOUS
      <4> QED BY <1>5, <4>1
    <3>3. \A k \in 2..Len(got) : k \in 1..Len(got)
      BY <1>5
    <3> QED BY <1>5, <2>1, <2>3, <3>1, <3>2, <3>3
  <2> QED BY <1>1, <2>2, <2>3
<1>10. timely /\ ~faulty /\ srv' = "serve" => Exactly(All, got, net, Sent)'
  BY <1>1, <1>2, <1>3, <1>4, <1>7, ExactlyRecv DEF UdpInv
<1>11. ASSUME timely, ~faulty, srv' = "done"
       PROVE  UntilExit(All, got)' \/ (proto = "ipv4_udp" /\ file = <<"start">> /\ got' = <<>>)
  <2>1. Exactly(All, got, net, Sent)
    BY <1>1, <1>11 DEF UdpInv
  <2>2. CASE Head(net) = "exit"
    <3>1. UntilExit(All, got)
      BY <1>1, <1>2, <1>3, <2>1, <2>2, ExactlyRecv
    <3> QED BY <1>1, <1>7, <1>11, <3>1 DEF UntilExit
  <2>3. CASE Head(net) = "start" /\ ~clean
    <3>1. cleared # TRUE /\ proto = "ipv4_udp"
      <4>1. clean # TRUE
        BY <2>3, Zenon
      <4>2. clean = cleared
        BY <4>1, Zenon
      <4> QED BY <4>1, <4>2
    <3>2. got = <<>>
      BY <1>2, <3>1 DEF UdpInv, TypeOK
    <3>3. Len(got) = 0 /\ 1 \in 1..Len(net) /\ Head(net) = net[1]
      BY <1>1, <1>2, <3>2, NotEmpty
    <3>4. All[1] = "start"
      BY <2>1, <2>3, <3>3 DEF Exactly
    <3>5. file = <<"start">>
      BY <3>4, StartOnly
    <3> QED BY <1>1, <1>11, <3>1, <3>2, <3>5
  <2> QED BY <1>1, <1>11, <2>2, <2>3
<1>12. Ready' /\ cleared'
  BY <1>1 DEF Ready
<1> HIDE DEF IInv
<1>13. UdpInv'
  BY <1>1, <1>8, <1>9, <1>10, <1>11, <1>12 DEF UdpInv
<1> QED BY <1>1, <1>6, <1>13, OfUdp

LEMMA UdpSend ==
  ASSUME IInv, proto \in Udp, SendUdp
  PROVE  IInv'
<1> USE DEF IInv, env
<1>1. /\ UNCHANGED <<env, srv, words, fifo, cleared, got>> /\ cli = "send"
      /\ \/ next = Len(file) /\ cli' = "done" /\ next' = next /\ Datagram("exit")
         \/ next # Len(file) /\ cli' = "send" /\ next' = next + 1 /\ Datagram(file[next + 1])
  BY DEF SendUdp, Cli
<1>2. /\ net \in Seq(Block \cup {Fin}) /\ got \in Seq(Block) /\ next \in Nat /\ next \in 0..Len(file)
      /\ Len(file) \in Nat
  BY Types
<1>3. next # Len(file) => next + 1 \in 1..Len(file)
  BY <1>2
<1>4. Sent = next /\ Sent' = next + 1 /\ All' = All
  BY <1>1 DEF Sent, All
<1>5. /\ All[next + 1] \in Block
      /\ (srv = "serve" /\ net' = Append(net, All[next + 1])) \/ ((srv # "serve" \/ faulty) /\ net' = net)
  BY <1>1, <1>3, AllTypes, Types DEF Datagram, Block
<1>6. TypeOK'
  <2>1. net' \in Seq(Block \cup {Fin})
    BY SMTT(20), <1>2, <1>5, AppendProperties
  <2>2. next' \in 0..Len(file) /\ cli' \in {"send", "done"}
    BY <1>1, <1>2, <1>3
  <2> QED BY <1>1, <2>1, <2>2 DEF TypeOK
<1>7. Picked(All, got, net, next)
  BY <1>4 DEF UdpInv
<1>8. Picked(All, got, net, Sent)'
  <2>1. Picked(All, got, Append(net, All[next + 1]), next + 1) /\ Picked(All, got, net, next + 1)
    BY <1>2, <1>5, <1>7, PickedSend
  <2> QED BY <1>1, <1>4, <1>5, <2>1
<1>9. ASSUME timely, ~faulty, srv = "serve"
      PROVE  Exactly(All, got, net, Sent)'
  <2>1. Exactly(All, got, net, next)
    BY <1>4, <1>9 DEF UdpInv
  <2>2. Exactly(All, got, Append(net, All[next + 1]), next + 1)
    BY <1>2, <1>5, <2>1, ExactlySend
  <2> QED BY <1>1, <1>4, <1>5, <1>9, <2>2
<1>10. timely /\ ~faulty /\ srv' = "done" =>
         UntilExit(All, got)' \/ (proto = "ipv4_udp" /\ file = <<"start">> /\ got' = <<>>)
  BY <1>1, <1>4 DEF UdpInv, UntilExit
<1>11. /\ got' # <<>> => cleared'
       /\ \A k \in 2..Len(got') : got'[k] # "exit"
       /\ timely => Ready' /\ Ready
       /\ ~Ready' => net' = <<>> /\ got' = <<>>
  BY <1>1, <1>5 DEF UdpInv, Ready
<1> HIDE DEF IInv
<1>12. UdpInv'
  BY <1>1, <1>8, <1>9, <1>10, <1>11 DEF UdpInv
<1> QED BY <1>1, <1>6, <1>12, OfUdp

-----------------------------------------------------------------------------
LEMMA OfUds ==
  ASSUME IInv, proto = "uds_dgram", UNCHANGED env, TypeOK', UdsInv'
  PROVE  IInv'
  BY Kinds DEF IInv, env, Env, StreamInv, UdpInv

LEMMA UdsSend ==
  ASSUME IInv, proto = "uds_dgram", SendUdsDgram
  PROVE  IInv'
<1> USE DEF IInv, env
<1>1. /\ UNCHANGED <<env, srv, words, fifo, cleared, got>> /\ cli = "send"
      /\ \/ cli' = "done" /\ net' = net /\ next' = next
         \/ cli' = "failed" /\ net' = net /\ next' = next
         \/ file # <<>> /\ srv = "serve" /\ cli' = "done" /\ net' = Append(net, file[1]) /\ next' = 1
  BY DEF SendUdsDgram, Cli
<1>2. net = <<>> /\ got = <<>>
  BY <1>1 DEF UdsInv
<1>3. file # <<>> => file[1] \in Block /\ 1 \in 0..Len(file)
  <2>1. file \in Seq(Block) /\ (file # <<>> => 1 \in 1..Len(file))
    BY NotEmpty, Types
  <2> QED BY <2>1, Types
<1>4. Append(<<>>, file[1]) = <<file[1]>>
  OBVIOUS
<1>5. TypeOK'
  <2>1. file # <<>> => Append(net, file[1]) \in Seq(Block \cup {Fin})
    BY <1>3, Types, AppendProperties
  <2> QED BY <1>1, <1>3, <2>1 DEF TypeOK
<1>6. UdsInv'
  BY <1>1, <1>2, <1>4 DEF UdsInv
<1> QED BY <1>1, <1>5, <1>6, OfUds

LEMMA UdsRecv ==
  ASSUME IInv, proto = "uds_dgram", RecvDatagram(cleared)
  PROVE  IInv'
<1> USE DEF IInv, env
<1>1. /\ UNCHANGED <<env, cli, words, fifo, next>> /\ srv = "serve" /\ net # <<>>
      /\ net' = Tail(net) /\ cleared' = TRUE
      /\ \/ /\ srv' = "done" /\ got' = got
            /\ (Head(net) = "exit" /\ Len(file) = 1) \/ Head(net) = "start"
         \/ srv' = "serve" /\ got' = Append(got, Head(net))
  BY DEF RecvDatagram, MayEnd, MayGoOn, IsExit, Srv
<1>2. net = <<file[1]>> /\ got = <<>> /\ file # <<>> /\ cli = "done"
  BY <1>1 DEF UdsInv
<1>3. Head(net) = file[1] /\ Tail(net) = <<>> /\ Append(got, file[1]) = <<file[1]>>
  BY <1>2
<1>4. file[1] \in Block /\ file \in Seq(Block)
  <2>1. file \in Seq(Block) /\ 1 \in 1..Len(file)
    BY <1>2, NotEmpty, Types
  <2> QED BY <2>1
<1>5. TypeOK'
  <2>1. got' \in Seq(Block) /\ net' \in Seq(Block \cup {Fin})
    <3>1. <<file[1]>> \in Seq(Block) /\ <<>> \in Seq(Block)
      BY <1>4
    <3>2. <<>> \in Seq(Block \cup {Fin})
      BY EmptySeq
    <3> QED BY <1>1, <1>2, <1>3, <3>1, <3>2
  <2> QED BY <1>1, <2>1 DEF TypeOK
<1>6. /\ file[1] = "exit" /\ Len(file) = 1 => file = <<"exit">>
      /\ file[1] = "start" => file = <<"start">>
  <2>1. file[1] = "start" => Len(file) = 1
    <3>1. 1 \in 1..Len(file)
      BY <1>2, <1>4, NotEmpty, Types
    <3> QED BY <3>1 DEF Env
  <2> QED BY <1>4, <2>1
<1>7. UdsInv'
  BY <1>1, <1>2, <1>3, <1>6 DEF UdsInv
<1> QED BY <1>1, <1>5, <1>7, OfUds

-----------------------------------------------------------------------------
LEMMA NextIInv == IInv /\ [Next]_vars => IInv'
<1> SUFFICES ASSUME IInv, [Next]_vars
             PROVE  IInv'
  OBVIOUS
<1>1. CASE UNCHANGED vars
  <2> USE <1>1 DEF vars, env
  <2>1. Env' /\ TypeOK'
    BY DEF IInv, Env, TypeOK
  <2>2. Quiet
    BY DEF Quiet, Ready, IInv, TypeOK
  <2> QED BY <2>1, <2>2, QuietStep
<1>2. CASE \/ SrvListen \/ SrvAccept \/ SrvWord \/ SrvSetup \/ s_mmap \/ KillServer
           \/ CliConnect \/ CliWord \/ CliPause \/ OpenFile \/ c_mmap
           \/ KillClient /\ ~(proto \in Streams /\ cli = "send")
  BY <1>2, QuietServer, QuietClient, QuietStep DEF IInv
<1>3. CASE proto \in Streams
             /\ (SrvRecv \/ SrvRecvFails \/ CliOpen \/ CliSend \/ (KillClient /\ cli = "send"))
  BY <1>3, StreamRecv, StreamRecvFails, StreamOpen, StreamSend
<1>4. CASE /\ proto \in Udp
           /\ SendUdp \/ RecvDatagram(TRUE) \/ (proto = "ipv4_udp" /\ RecvDatagram(cleared))
  <2>1. CASE SendUdp
    BY <1>4, <2>1, UdpSend
  <2>2. CASE RecvDatagram(TRUE)
    BY <1>4, <2>2, UdpRecv
  <2>3. CASE proto = "ipv4_udp" /\ RecvDatagram(cleared)
    <3>1. cleared \in {TRUE, cleared}
      OBVIOUS
    <3> QED BY <1>4, <2>3, <3>1, UdpRecv
  <2> QED BY <1>4, <2>1, <2>2, <2>3
<1>5. CASE proto = "uds_dgram" /\ (SendUdsDgram \/ RecvDatagram(cleared))
  BY <1>5, UdsSend, UdsRecv
<1>6. /\ \A p : ServeStream(p) => proto = p /\ (SrvSetup \/ SrvRecv \/ SrvRecvFails)
      /\ \A p : SendStream(p) => proto = p /\ (CliOpen \/ CliSend)
  BY DEF ServeStream, SendStream
<1>7. Server => SrvListen \/ SrvAccept \/ SrvWord \/ SrvSetup \/ s_mmap
                  \/ (proto \in Streams /\ (SrvRecv \/ SrvRecvFails))
                  \/ (proto \in Udp /\ (RecvDatagram(TRUE) \/ (proto = "ipv4_udp" /\ RecvDatagram(cleared))))
                  \/ (proto = "uds_dgram" /\ RecvDatagram(cleared))
  BY <1>6 DEF Server, s_ipv4_tcp, s_ipv6_tcp, s_uds_stream, s_pipe, s_ipv4_udp, s_ipv6_udp, s_uds_dgram,
              Streams, Udp
<1>8. Client => CliConnect \/ CliWord \/ CliPause \/ OpenFile \/ c_mmap
                  \/ (proto \in Streams /\ (CliOpen \/ CliSend))
                  \/ (proto \in Udp /\ SendUdp)
                  \/ (proto = "uds_dgram" /\ SendUdsDgram)
  BY <1>6 DEF Client, c_ipv4_tcp, c_ipv6_tcp, c_uds_stream, c_pipe, c_ipv4_udp, c_ipv6_udp, c_uds_dgram,
              Streams, Udp
<1> QED BY <1>1, <1>2, <1>3, <1>4, <1>5, <1>7, <1>8 DEF Next

-----------------------------------------------------------------------------
LEMMA Invariance == Spec => []IInv
  BY InitIInv, NextIInv, PTL DEF Spec

(* Every variable stays in its type.                                       *)
THEOREM TypeCorrect == Spec => []TypeOK
  BY Invariance, PTL DEF IInv

(* A stream that the server reports is all that the client has sent, and   *)
(* the whole file, unless the client was killed or could not open it or a  *)
(* failing read was taken for its end, however late or early either side   *)
(* comes (server.c:680).                                                   *)
THEOREM StreamsWhole == Spec => []StreamWhole
<1>1. IInv => StreamWhole
  <2> SUFFICES ASSUME IInv, proto \in Streams
               PROVE  StreamWhole
    BY DEF StreamWhole
  <2> USE DEF IInv
  <2>1. /\ file \in Seq(Block) /\ Len(file) \in Nat /\ next \in 0..Len(file) /\ next \in Nat
        /\ net \in Seq(Block \cup {Fin}) /\ got \in Seq(Block) /\ Len(got) \in Nat /\ Len(net) \in Nat
    BY Types
  <2>2. Len(got) + Data(net) = next /\ \A k \in 1..Len(got) : got[k] = file[k]
    BY DEF StreamInv, Flow
  <2>3. Data(net) \in Nat
    BY <2>1, NotEmpty DEF Data, Ended
  <2>4. Len(got) <= next
    BY <2>1, <2>2, <2>3
  <2>5. ASSUME srv = "done", ~(faulty /\ Lenient)
        PROVE  got = SubSeq(file, 1, next) /\ Over
    <3>1. Data(net) = 0 /\ Over
      BY <2>5 DEF StreamInv, Data, Ended
    <3>2. Len(got) = next
      BY <2>1, <2>2, <3>1
    <3>3. \A k \in 1..next : file[k] \in Block
      BY <2>1
    <3>4. 1 \in Int /\ next \in Int
      BY <2>1
    <3>5. /\ SubSeq(file, 1, next) \in Seq(Block) /\ Len(SubSeq(file, 1, next)) = next
          /\ \A k \in 1..next : SubSeq(file, 1, next)[k] = file[k]
      BY <2>1, <3>3, <3>4, SubSeqProperties
    <3> QED BY <2>1, <2>2, <3>1, <3>2, <3>5, SeqEqual
  <2> QED BY <2>2, <2>4, <2>5 DEF StreamWhole, Over
<1> QED BY <1>1, Invariance, PTL

(* Over UDP the server has blocks of the file in their order, none behind  *)
(* exit, and exactly those before it if nothing is lost, the pauses        *)
(* suffice and the first is not misread (server.c:235-246); over the Unix  *)
(* socket one datagram (client.c:254-265).                                 *)
THEOREM DatagramsOrdered == Spec => []DatagramsInOrder
<1>1. ASSUME IInv, proto \in Udp
      PROVE  /\ \E f \in [1..Len(got) -> 1..Len(All)] :
                  /\ \A a, b \in 1..Len(got) : a < b => f[a] < f[b]
                  /\ \A a \in 1..Len(got) : got[a] = All[f[a]]
             /\ srv = "done" /\ timely /\ ~faulty =>
                  \/ \E k \in 1..Len(All) : All[k] = "exit" /\ got = SubSeq(All, 1, k - 1)
                  \/ proto = "ipv4_udp" /\ file = <<"start">> /\ got = <<>>
  <2> USE <1>1 DEF IInv
  <2>1. /\ Len(file) \in Nat /\ next \in 0..Len(file) /\ got \in Seq(Block)
        /\ All \in Seq(Block) /\ Len(All) = Len(file) + 1
    BY Types, AllTypes
  <2>2. 1..Sent \subseteq 1..Len(All)
    BY <2>1 DEF Sent
  <2>3. PICK f \in [1..Len(got) -> 1..Sent] :
          /\ \A a, b \in 1..Len(got) : a < b => f[a] < f[b]
          /\ \A a \in 1..Len(got) : got[a] = All[f[a]]
    BY DEF UdpInv, Picked
  <2>4. f \in [1..Len(got) -> 1..Len(All)]
    BY <2>2
  <2>5. ASSUME srv = "done", timely, ~faulty,
               ~(proto = "ipv4_udp" /\ file = <<"start">> /\ got = <<>>)
        PROVE  \E k \in 1..Len(All) : All[k] = "exit" /\ got = SubSeq(All, 1, k - 1)
    <3>1. PICK k \in 1..Len(All) :
            All[k] = "exit" /\ Len(got) = k - 1 /\ \A a \in 1..Len(got) : got[a] = All[a]
      BY <2>5 DEF UdpInv, UntilExit
    <3>2. 1 \in Int /\ k - 1 \in Int /\ \A a \in 1..(k - 1) : a \in 1..Len(All)
      BY <2>1
    <3>3. \A a \in 1..(k - 1) : All[a] \in Block
      BY <2>1, <3>2
    <3>4. /\ SubSeq(All, 1, k - 1) \in Seq(Block) /\ Len(SubSeq(All, 1, k - 1)) = k - 1
          /\ \A a \in 1..(k - 1) : SubSeq(All, 1, k - 1)[a] = All[a]
      BY <3>2, <3>3, SubSeqProperties
    <3> QED BY <2>1, <3>1, <3>4, SeqEqual
  <2> QED BY <2>3, <2>4, <2>5
<1>2. IInv => DatagramsInOrder
  BY <1>1 DEF DatagramsInOrder, IInv, UdpInv, UdsInv, All
<1> QED BY <1>2, Invariance, PTL
=============================================================================

----------------------------- MODULE ChatProofs -----------------------------
(***************************************************************************)
(* Proofs about Chat, for any number of lines: whatever order the four     *)
(* processes end in, no line is lost and none is sent to a closed socket.  *)
(***************************************************************************)
EXTENDS Chat, SequenceTheorems, TLAPS

(* How the two processes of a host and the directions depend on each other:*)
(* a direction ends after its parent, a child after the direction that it  *)
(* reads.                                                                  *)
Roles ==
  \A h \in Host :
    /\ child[h] = "none" <=> parent[h] \in {"start", "listening", "refused"}
    /\ shut[h] => parent[h] = "ended"
    /\ child[h] = "ended" => shut[Other(h)]

IInv == TypeOK /\ Roles /\ LinesInOrder /\ EndNeedsEof

-----------------------------------------------------------------------------
LEMMA TwoHosts == \A h \in Host : Other(h) \in Host /\ Other(h) # h /\ Other(Other(h)) = h
  BY ChatAssumption DEF Host, Other

(* One more line, or the end, goes behind what is on the way.              *)
LEMMA LineSent ==
  ASSUME NEW got \in Seq(Nat), NEW way \in Seq(Nat), NEW n \in Nat, Complete(got, way, FALSE, n)
  PROVE  /\ Complete(got, Append(way, n + 1), FALSE, n + 1)
         /\ Complete(got, Append(way, Fin), TRUE, n)
  BY DEF Complete, Fin

(* Some lines are shown.                                                   *)
LEMMA LinesShown ==
  ASSUME NEW got \in Seq(Nat), NEW way \in Seq(Nat), NEW over \in BOOLEAN, NEW n \in Nat,
         Complete(got, way, over, n),
         NEW m \in 1..Len(way), \A k \in 1..m : way[k] # Fin
  PROVE  Complete(got \o SubSeq(way, 1, m), SubSeq(way, m + 1, Len(way)), over, n)
<1> DEFINE new == SubSeq(way, 1, m)
           rest == SubSeq(way, m + 1, Len(way))
           lines == IF over THEN Len(way) - 1 ELSE Len(way)
           left == IF over THEN Len(rest) - 1 ELSE Len(rest)
<1>1. /\ new \in Seq(Nat) /\ Len(new) = m /\ \A k \in 1..m : new[k] = way[k]
      /\ rest \in Seq(Nat) /\ Len(rest) = Len(way) - m
      /\ \A k \in 1..(Len(way) - m) : rest[k] = way[m + k]
  BY SubSeqProperties
<1>2. /\ Len(got) + lines = n /\ \A k \in 1..Len(got) : got[k] = k
      /\ \A k \in 1..lines : way[k] = Len(got) + k
      /\ over => lines >= 0 /\ way[lines + 1] = Fin
  BY DEF Complete
<1>3. m <= lines /\ lines \in Nat /\ m \in Nat /\ Len(got) \in Nat
      /\ (over => lines = Len(way) - 1) /\ (~over => lines = Len(way))
  <2>1. lines \in Int /\ Len(way) - 1 <= lines /\ lines <= Len(way)
    OBVIOUS
  <2>2. over => m <= Len(way) - 1
    BY <1>2
  <2> QED BY <2>1, <2>2
<1>4. left = lines - m
  BY <1>1
<1> HIDE DEF new, rest, lines, left
<1>5. /\ Len(got \o new) = Len(got) + m
      /\ \A k \in 1..Len(got) : (got \o new)[k] = got[k]
      /\ \A k \in 1..m : (got \o new)[Len(got) + k] = new[k]
  <2>1. new \in Seq(Nat) /\ Len(new) = m
    BY <1>1
  <2>2. /\ Len(got \o new) = Len(got) + Len(new)
        /\ \A k \in 1..(Len(got) + Len(new)) :
             (got \o new)[k] = IF k <= Len(got) THEN got[k] ELSE new[k - Len(got)]
    BY <2>1, ConcatProperties
  <2> QED BY <1>3, <2>1, <2>2
<1>6. ASSUME NEW k \in 1..Len(got \o new)
      PROVE  (got \o new)[k] = k
  <2>1. CASE k <= Len(got)
    BY SMTT(20), <1>2, <1>3, <1>5, <2>1
  <2>2. CASE Len(got) < k
    <3>1. k - Len(got) \in 1..m /\ Len(got) + (k - Len(got)) = k
      BY <1>3, <1>5, <2>2
    <3>2. k - Len(got) \in 1..lines
      BY <1>3, <3>1
    <3>3. (got \o new)[k] = way[k - Len(got)]
      BY <1>1, <1>5, <3>1
    <3> QED BY <1>2, <3>1, <3>2, <3>3
  <2> QED BY <1>3, <1>5, <2>1, <2>2
<1>7. ASSUME NEW k \in 1..left
      PROVE  rest[k] = Len(got \o new) + k
  <2>1. k \in 1..(Len(way) - m) /\ m + k \in 1..lines /\ k \in Nat
    BY <1>3, <1>4
  <2> QED BY SMTT(20), <1>1, <1>2, <1>3, <1>5, <2>1
<1>8. over => left >= 0 /\ rest[left + 1] = Fin
  <2> SUFFICES ASSUME over
               PROVE  left >= 0 /\ rest[left + 1] = Fin
    OBVIOUS
  <2>1. left >= 0 /\ left + 1 \in 1..(Len(way) - m) /\ m + (left + 1) = lines + 1
    BY <1>3, <1>4
  <2> QED BY <1>1, <1>2, <2>1
<1>9. Len(got \o new) + left = n
  <2>1. \A a, b, c \in Nat : (a + c) + (b - c) = a + b
    OBVIOUS
  <2>2. (Len(got) + m) + (lines - m) = Len(got) + lines
    BY <1>3, <2>1
  <2> QED BY <1>2, <1>4, <1>5, <2>2
<1> QED BY <1>6, <1>7, <1>8, <1>9 DEF new, rest, left, Complete

LEMMA InitIInv == Init => IInv
<1> SUFFICES ASSUME Init
             PROVE  IInv
  OBVIOUS
<1> USE ChatAssumption, TwoHosts DEF Init
<1>1. TypeOK
  BY DEF TypeOK
<1>2. Roles /\ EndNeedsEof
  BY DEF Roles, EndNeedsEof
<1>3. LinesInOrder
  BY DEF LinesInOrder, Complete
<1> QED BY <1>1, <1>2, <1>3 DEF IInv

-----------------------------------------------------------------------------
LEMMA Numbers ==
  ASSUME TypeOK, NEW h \in Host
  PROVE  /\ shown[h] \in Seq(Nat) /\ wire[h] \in Seq(Nat) /\ sent[h] \in Nat
         /\ ~shut[h] => shut[h] = FALSE
<1>1. shown[h] \in Seq(1..MaxLines) /\ wire[h] \in Seq(0..MaxLines) /\ sent[h] \in 0..MaxLines
  BY DEF TypeOK
<1>2. 1..MaxLines \subseteq Nat /\ 0..MaxLines \subseteq Nat
  BY ChatAssumption
<1> QED BY <1>1, <1>2, SeqMonotonic DEF TypeOK

LEMMA SetupStep ==
  ASSUME IInv, Setup
  PROVE  IInv'
<1> USE ChatAssumption DEF IInv
<1>1. \A h \in Host : UNCHANGED <<sent, wire, shut, shown, eof>>
  BY DEF Setup, Listen, Connect, Accept
<1>2. TypeOK'
  BY DEF Setup, Listen, Connect, Accept, TypeOK
<1>3. Roles'
  BY DEF Setup, Listen, Connect, Accept, TypeOK, Roles, Host, Other
<1>4. \A h \in Host : child'[h] = "ended" <=> child[h] = "ended"
  BY DEF Setup, Listen, Connect, Accept, TypeOK, Roles, Host
<1>5. LinesInOrder' /\ EndNeedsEof'
  BY <1>1, <1>4, TwoHosts DEF LinesInOrder, EndNeedsEof, Setup, Listen, Connect, Accept
<1> QED BY <1>2, <1>3, <1>5

(* A host that has not ended its direction says nothing of the end; one    *)
(* that has ended it has nothing else on the way behind it.                *)
LEMMA SendStep ==
  ASSUME IInv, NEW h \in Host, Send(h)
  PROVE  IInv'
<1> USE ChatAssumption DEF IInv, Send
<1>1. ~shut[h] /\ Other(h) \in Host /\ Other(Other(h)) = h
  BY TwoHosts DEF Roles, TypeOK
<1>2. sent[h] + 1 \in 0..MaxLines /\ Append(wire[h], sent[h] + 1) \in Seq(0..MaxLines)
  BY DEF TypeOK
<1>3. TypeOK'
  BY <1>2 DEF TypeOK
<1>4. Roles' /\ EndNeedsEof'
  BY DEF Roles, EndNeedsEof
<1>5. LinesInOrder'
  <2> SUFFICES ASSUME NEW g \in Host
               PROVE  /\ Complete(shown[Other(g)], wire'[g], shut[g], sent'[g])
                      /\ child[Other(g)] = "ended" => Len(shown[Other(g)]) = sent'[g]
    BY DEF LinesInOrder
  <2>1. CASE g # h
    BY <2>1 DEF TypeOK, LinesInOrder
  <2>2. CASE g = h
    <3>1. wire'[h] = Append(wire[h], sent[h] + 1) /\ sent'[h] = sent[h] + 1
      BY DEF TypeOK
    <3>2. /\ shown[Other(h)] \in Seq(Nat) /\ wire[h] \in Seq(Nat) /\ sent[h] \in Nat
          /\ Complete(shown[Other(h)], wire[h], FALSE, sent[h]) /\ shut[h] = FALSE
      BY <1>1, Numbers DEF LinesInOrder
    <3>3. Complete(shown[Other(h)], wire'[h], FALSE, sent'[h])
      BY <3>1, <3>2, LineSent
    <3>4. child[Other(h)] # "ended"
      BY <1>1 DEF Roles
    <3> QED BY <1>1, <2>2, <3>2, <3>3, <3>4
  <2> QED BY <2>1, <2>2
<1> QED BY <1>3, <1>4, <1>5

(* A direction that is ended, or left open, as a process ends: the line    *)
(* that both its ends are judged by stays complete.                        *)
LEMMA EndDirectionOrder ==
  ASSUME TypeOK, NEW h \in Host, EndDirection(h), UNCHANGED <<sent, shown>>,
         \A g \in Host : Complete(shown[Other(g)], wire[g], shut[g], sent[g])
  PROVE  /\ \A g \in Host : Complete(shown[Other(g)], wire'[g], shut'[g], sent[g])
         /\ wire' \in [Host -> Seq(0..MaxLines)] /\ shut' \in [Host -> BOOLEAN]
         /\ shut'[h] /\ \A g \in Host : g # h => shut'[g] = shut[g]
<1> USE ChatAssumption DEF EndDirection
<1>1. shut' \in [Host -> BOOLEAN] /\ shut'[h] /\ \A g \in Host : g # h => shut'[g] = shut[g]
  BY DEF TypeOK
<1>2. CASE shut[h]
  BY <1>1, <1>2 DEF TypeOK
<1>3. CASE ~shut[h]
  <2>1. wire' = [wire EXCEPT ![h] = Append(wire[h], Fin)] /\ Append(wire[h], Fin) \in Seq(0..MaxLines)
    BY <1>3 DEF TypeOK, Fin
  <2>2. wire' \in [Host -> Seq(0..MaxLines)]
    BY <2>1 DEF TypeOK
  <2>3. wire'[h] = Append(wire[h], Fin) /\ \A g \in Host : g # h => wire'[g] = wire[g]
    BY <2>1 DEF TypeOK
  <2>4. /\ shown[Other(h)] \in Seq(Nat) /\ wire[h] \in Seq(Nat) /\ sent[h] \in Nat
        /\ Complete(shown[Other(h)], wire[h], FALSE, sent[h])
    BY <1>3, Numbers, TwoHosts
  <2>5. Complete(shown[Other(h)], wire'[h], TRUE, sent[h])
    BY <2>3, <2>4, LineSent
  <2>6. shut'[h] = TRUE
    BY <1>1
  <2> QED BY <1>1, <2>2, <2>3, <2>5, <2>6
<1> QED BY <1>2, <1>3

(* A parent ends: its direction ends with it, or the child keeps it open.  *)
LEMMA ParentEnds ==
  ASSUME IInv, NEW h \in Host, Exit(h) \/ Eof(h)
  PROVE  IInv'
<1> USE ChatAssumption, TwoHosts DEF IInv
<1>1. /\ parent[h] = "chat" /\ parent' = [parent EXCEPT ![h] = "ended"] /\ UNCHANGED <<child, sent, shown>>
      /\ eof' = eof \/ (eof' # {} /\ eof' \subseteq Host)
      /\ \/ EndDirection(h) /\ (eof' # {} \/ child[h] = "ended")
         \/ UNCHANGED <<wire, shut>>
  BY DEF Exit, Eof, TypeOK
<1>2. /\ \A g \in Host : Complete(shown[Other(g)], wire'[g], shut'[g], sent[g])
      /\ wire' \in [Host -> Seq(0..MaxLines)] /\ shut' \in [Host -> BOOLEAN]
      /\ \A g \in Host : shut'[g] => shut[g] \/ (g = h /\ (eof' # {} \/ child[h] = "ended"))
      /\ \A g \in Host : shut[g] => shut'[g]
  <2>1. CASE UNCHANGED <<wire, shut>>
    BY <2>1 DEF TypeOK, LinesInOrder
  <2>2. CASE EndDirection(h) /\ (eof' # {} \/ child[h] = "ended")
    BY <1>1, <2>2, EndDirectionOrder DEF LinesInOrder
  <2> QED BY <1>1, <2>1, <2>2
<1>3. TypeOK'
  BY <1>1, <1>2 DEF TypeOK
<1>4. Roles'
  BY SMTT(20), <1>1, <1>2 DEF TypeOK, Roles
<1>5. LinesInOrder'
  BY <1>1, <1>2 DEF LinesInOrder
<1>6. EndNeedsEof'
  BY <1>1, <1>2 DEF EndNeedsEof
<1> QED BY <1>3, <1>4, <1>5, <1>6

LEMMA ShowStep ==
  ASSUME IInv, NEW h \in Host, Show(h)
  PROVE  IInv'
<1> USE ChatAssumption, TwoHosts DEF IInv
<1> DEFINE w == wire[Other(h)]
<1>1. PICK n \in 1..Len(w) :
        /\ \A k \in 1..n : w[k] # Fin
        /\ shown' = [shown EXCEPT ![h] = @ \o SubSeq(w, 1, n)]
        /\ wire' = [wire EXCEPT ![Other(h)] = SubSeq(w, n + 1, Len(w))]
  BY DEF Show
<1>2. child[h] = "recv" /\ UNCHANGED <<parent, child, sent, shut, eof>>
  BY DEF Show
<1>3. /\ shown[h] \in Seq(1..MaxLines) /\ w \in Seq(0..MaxLines) /\ Len(w) \in Nat
      /\ shown[h] \in Seq(Nat) /\ w \in Seq(Nat) /\ sent[Other(h)] \in Nat /\ shut[Other(h)] \in BOOLEAN
  BY Numbers DEF TypeOK
<1>4. SubSeq(w, 1, n) \in Seq(1..MaxLines) /\ SubSeq(w, n + 1, Len(w)) \in Seq(0..MaxLines)
  <2>1. \A k \in 1..n : w[k] \in 1..MaxLines
    <3> TAKE k \in 1..n
    <3>1. w[k] \in 0..MaxLines /\ w[k] # 0
      BY SMTT(20), <1>1, <1>3 DEF Fin
    <3> QED BY <3>1
  <2>2. \A k \in (n + 1)..Len(w) : w[k] \in 0..MaxLines
    BY SMTT(20), <1>3
  <2>3. 1 \in Int /\ n \in Int /\ n + 1 \in Int /\ Len(w) \in Int
    BY <1>3
  <2> HIDE DEF w
  <2>4. SubSeq(w, 1, n) \in Seq(1..MaxLines)
    BY <2>1, <2>3, SubSeqProperties
  <2>5. SubSeq(w, n + 1, Len(w)) \in Seq(0..MaxLines)
    BY <2>2, <2>3, SubSeqProperties
  <2> QED BY <2>4, <2>5
<1>5. /\ shown'[h] = shown[h] \o SubSeq(w, 1, n) /\ \A g \in Host : g # h => shown'[g] = shown[g]
      /\ wire'[Other(h)] = SubSeq(w, n + 1, Len(w)) /\ \A g \in Host : g # Other(h) => wire'[g] = wire[g]
  BY <1>1 DEF TypeOK
<1>6. TypeOK'
  <2>1. shown[h] \o SubSeq(w, 1, n) \in Seq(1..MaxLines)
    BY <1>3, <1>4
  <2>2. shown' \in [Host -> Seq(1..MaxLines)]
    BY <1>1, <2>1 DEF TypeOK
  <2>3. wire' \in [Host -> Seq(0..MaxLines)]
    BY <1>1, <1>4 DEF TypeOK
  <2> QED BY <1>2, <2>2, <2>3 DEF TypeOK
<1>7. Roles' /\ EndNeedsEof'
  BY <1>2 DEF Roles, EndNeedsEof
<1>8. LinesInOrder'
  <2> SUFFICES ASSUME NEW g \in Host
               PROVE  /\ Complete(shown'[Other(g)], wire'[g], shut[g], sent[g])
                      /\ child[Other(g)] = "ended" => Len(shown'[Other(g)]) = sent[g]
    BY <1>2 DEF LinesInOrder
  <2>1. CASE g # Other(h)
    BY <1>5, <2>1 DEF LinesInOrder
  <2>2. CASE g = Other(h)
    <3>1. Complete(shown[h], w, shut[Other(h)], sent[Other(h)])
      BY DEF LinesInOrder
    <3>2. Complete(shown'[h], wire'[Other(h)], shut[Other(h)], sent[Other(h)])
      <4>1. /\ shown[h] \in Seq(Nat) /\ w \in Seq(Nat) /\ shut[Other(h)] \in BOOLEAN
            /\ sent[Other(h)] \in Nat /\ n \in 1..Len(w) /\ \A k \in 1..n : w[k] # Fin
        BY <1>1, <1>3
      <4> HIDE DEF w
      <4>2. Complete(shown[h] \o SubSeq(w, 1, n), SubSeq(w, n + 1, Len(w)), shut[Other(h)], sent[Other(h)])
        BY <3>1, <4>1, LinesShown
      <4> QED BY <1>5, <4>2
    <3> QED BY <1>2, <2>2, <3>2
  <2> QED BY <2>1, <2>2
<1> QED BY <1>6, <1>7, <1>8

(* A child ends only at the end of the direction, when all is shown.       *)
LEMMA HangUpStep ==
  ASSUME IInv, NEW h \in Host, HangUp(h)
  PROVE  IInv'
<1> USE ChatAssumption, TwoHosts DEF IInv
<1> DEFINE o == Other(h)
<1>1. /\ child[h] = "recv" /\ wire[o] # <<>> /\ wire[o][1] = Fin
      /\ child' = [child EXCEPT ![h] = "ended"] /\ UNCHANGED <<parent, sent, shown, eof>>
      /\ \/ EndDirection(h) /\ parent[h] = "ended"
         \/ UNCHANGED <<wire, shut>>
  BY DEF HangUp
<1>2. shut[o] /\ Len(shown[h]) = sent[o]
  <2>1. /\ Complete(shown[h], wire[o], shut[o], sent[o]) /\ shown[h] \in Seq(Nat) /\ wire[o] \in Seq(Nat)
        /\ sent[o] \in Nat
    BY Numbers DEF LinesInOrder
  <2> DEFINE lines == IF shut[o] THEN Len(wire[o]) - 1 ELSE Len(wire[o])
  <2>2. /\ Len(shown[h]) + lines = sent[o] /\ \A k \in 1..lines : wire[o][k] = Len(shown[h]) + k
    BY <2>1 DEF Complete
  <2>3. ~(1 <= lines)
    BY <1>1, <2>1, <2>2 DEF Fin
  <2>4. Len(wire[o]) \in Nat \ {0}
    BY <1>1, <2>1
  <2>5. shut[o]
    BY <2>2, <2>3, <2>4
  <2>6. lines = Len(wire[o]) - 1
    BY <2>5
  <2> HIDE DEF lines
  <2>7. lines = 0
    <3>1. \A l \in Nat \ {0} : ~(1 <= l - 1) => l - 1 = 0
      OBVIOUS
    <3> QED BY <2>3, <2>4, <2>6, <3>1
  <2>8. Len(shown[h]) + 0 = Len(shown[h])
    <3>1. Len(shown[h]) \in Nat
      BY <2>1
    <3> QED BY <3>1
  <2> QED BY <2>2, <2>5, <2>7, <2>8
<1>3. /\ \A g \in Host : Complete(shown[Other(g)], wire'[g], shut'[g], sent[g])
      /\ wire' \in [Host -> Seq(0..MaxLines)] /\ shut' \in [Host -> BOOLEAN]
      /\ \A g \in Host : shut'[g] => shut[g] \/ (g = h /\ parent[h] = "ended")
      /\ \A g \in Host : shut[g] => shut'[g]
  <2>1. CASE UNCHANGED <<wire, shut>>
    BY <2>1 DEF TypeOK, LinesInOrder
  <2>2. CASE EndDirection(h) /\ parent[h] = "ended"
    BY <1>1, <2>2, EndDirectionOrder DEF LinesInOrder
  <2> QED BY <1>1, <2>1, <2>2
<1>4. TypeOK'
  BY <1>1, <1>3 DEF TypeOK
<1>5. Roles'
  BY SMTT(20), <1>1, <1>2, <1>3 DEF TypeOK, Roles
<1>6. LinesInOrder'
  BY <1>1, <1>2, <1>3 DEF LinesInOrder, TypeOK
<1>7. EndNeedsEof'
  BY <1>1, <1>2 DEF EndNeedsEof
<1> QED BY <1>4, <1>5, <1>6, <1>7

LEMMA NextIInv == IInv /\ [Next]_vars => IInv'
<1> SUFFICES ASSUME IInv, [Next]_vars
             PROVE  IInv'
  OBVIOUS
<1>1. CASE UNCHANGED vars
  BY <1>1 DEF vars, IInv, TypeOK, Roles, LinesInOrder, EndNeedsEof
<1>2. CASE Next
  BY <1>2, SetupStep, SendStep, ParentEnds, ShowStep, HangUpStep DEF Next, User, Child
<1> QED BY <1>1, <1>2

-----------------------------------------------------------------------------
LEMMA Invariance == Spec => []IInv
  BY InitIInv, NextIInv, PTL DEF Spec

(* Every variable stays in its type.                                       *)
THEOREM TypeCorrect == Spec => []TypeOK
  BY Invariance, PTL DEF IInv

(* Whatever order the four processes end in, every line typed is shown or  *)
(* on its way, in order, and a child ends only when all is shown           *)
(* (stnc.c:17-27, 92).                                                     *)
THEOREM NoLineLost == Spec => []LinesInOrder
  BY Invariance, PTL DEF IInv

(* The children and the directions end only after an end of input: two     *)
(* users who type exit leave both children behind (stnc.c:70, 89).         *)
THEOREM ExitEndsNothing == Spec => []EndNeedsEof
  BY Invariance, PTL DEF IInv

(* No line is sent to a closed socket (stnc.c:92).                         *)
THEOREM NobodySendsToClosed == Spec => []NoSendToClosed
<1>1. IInv => NoSendToClosed
  BY TwoHosts DEF IInv, TypeOK, Roles, NoSendToClosed, Closed
<1> QED BY <1>1, Invariance, PTL
=============================================================================

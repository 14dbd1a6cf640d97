----------------------------- MODULE JobsProofs -----------------------------
(***************************************************************************)
(* Proofs about Jobs, for any number of processors: with the mutex the     *)
(* jobs are paired and numbered, without it increments may be lost but     *)
(* none is made up.                                                        *)
(***************************************************************************)
EXTENDS Jobs, FiniteSetTheorems, SequenceTheorems, TLAPS

Started == {t \in Thread : pc[t] \in {"finish", "unlock", "done"}}
Finished == {t \in Thread : pc[t] \in {"unlock", "done"}}

(* Where main is, and what that says of the threads.                       *)
Main ==
  /\ prog = "mutex" => n = 2
  /\ \A t \in Thread : t \in created <=> pc[t] # "none"
  /\ mainPc = "create" => \A t \in created : t < k
  /\ mainPc = "join" => k \in Tid /\ (k = 1 /\ 0 \in created => pc[0] = "done")
  /\ mainPc = "returned" => n > 1 /\ \A t \in Tid \cap created : pc[t] = "done"

(* What a thread has printed.                                              *)
Printed(log, t, at) ==
  /\ at \in {"finish", "unlock", "done"} =>
       \E a \in 1..Len(log) : log[a][1] = "started" /\ log[a][2] = t
  /\ at \in {"unlock", "done"} =>
       \E a, b \in 1..Len(log) :
         a < b /\ log[a][1] = "started" /\ log[b][1] = "finished" /\ log[a][2] = t /\ log[b][2] = t

(* With two threads the counter never exceeds the increments begun, nor    *)
(* does what a thread has read of it.                                      *)
Counts ==
  n <= 2 =>
    /\ counter <= Cardinality(Counted)
    /\ \A t \in Thread : pc[t] = "store" => reg[t] <= Cardinality(Counted)
    /\ Counted # {} => counter > 0

(* With the mutex, two lines are out for each job that is over, and one    *)
(* more for the job that is under way.                                     *)
Lines ==
  prog = "mutex" =>
    /\ Len(out) = Cardinality(Started) + Cardinality(Finished)
    /\ \A t \in Thread : pc[t] = "finish" => Len(out) > 0 /\ out[Len(out)][2] = t

Inductive ==
  TypeOK /\ Main /\ (\A t \in Thread : Printed(out, t, pc[t])) /\ Counts /\ JobsPaired /\ Lines

-----------------------------------------------------------------------------
LEMMA Numbering ==
  \A d, m \in Nat :
    /\ m = d + d + 1 => m % 2 = 1 /\ (m + 1) \div 2 = d + 1
    /\ m = d + d + 2 => m % 2 = 0 /\ (m + 1) \div 2 = d + 1 /\ (m - 1 + 1) \div 2 = d + 1
  OBVIOUS

LEMMA Finite ==
  ASSUME n \in Nat, NEW S, S \subseteq Thread
  PROVE  IsFiniteSet(S) /\ Cardinality(S) \in Nat
<1>1. IsFiniteSet(0..(n - 1))
  BY FS_Interval
<1>2. IsFiniteSet(S)
  BY <1>1, FS_Subset DEF Thread
<1> QED BY <1>2, FS_CardinalityType

LEMMA OneMore ==
  ASSUME n \in Nat, NEW S, S \subseteq Thread, NEW t, t \notin S
  PROVE  Cardinality(S \cup {t}) = Cardinality(S) + 1
  BY Finite, FS_AddElement

(* A line more leaves what is printed.                                     *)
LEMMA PrintedStays ==
  ASSUME NEW S, NEW log \in Seq(S), NEW e \in S, NEW t, NEW at, Printed(log, t, at)
  PROVE  Printed(Append(log, e), t, at)
<1>1. /\ Len(Append(log, e)) = Len(log) + 1 /\ Len(log) \in Nat
      /\ \A a \in 1..Len(log) : Append(log, e)[a] = log[a]
  BY AppendProperties
<1>2. \A a \in 1..Len(log) : a \in 1..Len(Append(log, e))
  BY <1>1
<1> HIDE DEF Printed
<1>3. ASSUME at \in {"finish", "unlock", "done"}
      PROVE  \E a \in 1..Len(Append(log, e)) : Append(log, e)[a][1] = "started" /\ Append(log, e)[a][2] = t
  BY <1>1, <1>2, <1>3, Zenon DEF Printed
<1>4. ASSUME at \in {"unlock", "done"}
      PROVE  \E a, b \in 1..Len(Append(log, e)) :
               /\ a < b
               /\ Append(log, e)[a][1] = "started" /\ Append(log, e)[b][1] = "finished"
               /\ Append(log, e)[a][2] = t /\ Append(log, e)[b][2] = t
  <2>1. PICK a, b \in 1..Len(log) :
           a < b /\ log[a][1] = "started" /\ log[b][1] = "finished" /\ log[a][2] = t /\ log[b][2] = t
    BY <1>4 DEF Printed
  <2> QED BY <1>1, <1>2, <2>1, Zenon
<1> QED BY <1>3, <1>4 DEF Printed

LEMMA InitInductive == Init => Inductive
<1> SUFFICES ASSUME Init
             PROVE  Inductive
  OBVIOUS
<1> USE JobsAssumption DEF Init
<1>1. TypeOK
  BY DEF TypeOK, Thread
<1>2. Main
  BY DEF Main
<1>3. \A t \in Thread : Printed(out, t, pc[t])
  BY DEF Printed
<1>4. Counted = {} /\ Started = {} /\ Finished = {}
  BY DEF Counted, Started, Finished
<1>5. Counts /\ Lines
  BY <1>4, FS_EmptySet DEF Counts, Lines
<1>6. JobsPaired
  BY <1>4, FS_EmptySet DEF JobsPaired, Inside, Thread
<1> QED BY <1>1, <1>2, <1>3, <1>5, <1>6 DEF Inductive

-----------------------------------------------------------------------------
(* Main: no thread moves but one that begins, and the counter is only      *)
(* overwritten when there are more than two threads.                       *)
LEMMA MainStep ==
  ASSUME Inductive, Running, Create \/ EndCreate \/ Join
  PROVE  Inductive'
<1> USE JobsAssumption DEF Inductive
<1>1. UNCHANGED <<prog, n, reg, lock, out>> /\ Thread' = Thread
  BY DEF Create, EndCreate, Join, Thread
<1>2. \/ UNCHANGED <<pc, counter, created>>
      \/ /\ mainPc = "create" /\ k \in Thread /\ k < n /\ created' = created \cup {k}
         /\ pc[k] = "none" /\ pc' = [pc EXCEPT ![k] = IF prog = "mutex" THEN "lock" ELSE "load"]
         /\ counter' \in Nat /\ (n <= 2 => counter' = counter)
  <2>1. CASE EndCreate \/ Join
    BY <2>1 DEF EndCreate, Join
  <2>2. CASE Create
    <3>1. mainPc = "create" /\ k < n /\ k \in Nat /\ n \in Nat /\ counter \in Nat
      BY <2>2 DEF Create, TypeOK
    <3>2. k \in Thread /\ (n <= 2 => k \in Tid)
      BY <3>1 DEF Thread, Tid
    <3>3. pc[k] = "none"
      <4>1. ~(k < k)
        BY <3>1
      <4> QED BY <3>1, <3>2, <4>1 DEF Main
    <3> QED BY <2>2, <3>1, <3>2, <3>3 DEF Create
  <2> QED BY <2>1, <2>2
<1>3. TypeOK'
  <2>1. prog' \in {"mutex", "problem"} /\ n' \in Nat \ {0} /\ lock' \in 0..n' /\ counter' \in Nat
        /\ reg' \in [Thread' -> Nat] /\ out' \in Seq({"started", "finished"} \X Thread' \X Nat)
    BY <1>1, <1>2 DEF TypeOK
  <2>2. mainPc' \in {"create", "join", "returned", "crashed"} /\ k' \in 0..n'
    BY <1>1 DEF TypeOK, Create, EndCreate, Join
  <2>3. /\ created' \subseteq Thread'
        /\ pc' \in [Thread' -> {"none", "lock", "load", "store", "start", "finish", "unlock", "done"}]
    BY <1>1, <1>2 DEF TypeOK
  <2> QED BY <2>1, <2>2, <2>3 DEF TypeOK
<1>4. \A t \in Thread : t # k => pc'[t] = pc[t]
  BY <1>2 DEF TypeOK
<1>5. \A t \in Thread : pc'[t] # pc[t] => pc[t] = "none" /\ pc'[t] \in {"lock", "load"} /\ (prog = "mutex" => pc'[t] = "lock")
  BY <1>2 DEF TypeOK
<1>6. Main'
  <2>1. \A t \in Thread : t \in created' <=> pc'[t] # "none"
    BY <1>2 DEF TypeOK, Main
  <2>2. mainPc' = "create" => \A t \in created' : t < k'
    <3>1. CASE Create
      <4>1. \A t \in created : t < k /\ t \in Nat
        BY <3>1 DEF Create, Main, TypeOK, Thread
      <4>2. k' = k + 1 /\ k \in Nat /\ created' \subseteq created \cup {k}
        BY <3>1 DEF Create, TypeOK
      <4> QED BY <4>1, <4>2
    <3>2. CASE EndCreate \/ Join
      BY <3>2 DEF EndCreate, Join
    <3> QED BY <3>1, <3>2
  <2>3. mainPc' = "join" => k' \in Tid /\ (k' = 1 /\ 0 \in created' => pc'[0] = "done")
    BY DEF Create, EndCreate, Join, TypeOK, Main, Thread, Tid
  <2>4. mainPc' = "returned" => n' > 1 /\ \A t \in Tid \cap created' : pc'[t] = "done"
    BY DEF Create, EndCreate, Join, TypeOK, Main, Thread, Tid
  <2> QED BY <1>1, <2>1, <2>2, <2>3, <2>4 DEF Main
<1>7. \A t \in Thread : Printed(out, t, pc'[t])
  BY <1>5 DEF Printed
<1>8. Counted' = Counted /\ Started' = Started /\ Finished' = Finished
  BY <1>1, <1>5 DEF Counted, Started, Finished
<1>9. prog = "mutex" => n <= 2
  BY DEF Main
<1>10. n <= 2 => counter' = counter
  BY <1>2
<1>11. Counts'
  BY <1>1, <1>5, <1>8, <1>10 DEF Counts
<1>12. JobsPaired'
  BY <1>1, <1>5, <1>8, <1>9, <1>10 DEF JobsPaired, Inside
<1>13. Lines'
  BY <1>1, <1>5, <1>8 DEF Lines
<1> QED BY <1>1, <1>3, <1>6, <1>7, <1>11, <1>12, <1>13

(* What every step of a thread leaves alone.                               *)
Frame(t) ==
  /\ UNCHANGED <<prog, n, mainPc, k, created>>
  /\ pc[t] # "none" /\ pc[t] # "done"
  /\ pc' \in [Thread -> {"none", "lock", "load", "store", "start", "finish", "unlock", "done"}]
  /\ pc'[t] # "none"
  /\ \A u \in Thread : u # t => pc'[u] = pc[u]

LEMMA ThreadFrame ==
  ASSUME Inductive, Running, NEW t \in Thread, doSomeThing(t)
  PROVE  Frame(t)
  BY DEF Inductive, TypeOK, doSomeThing, Lock, Load, Store, Start, Finish, Unlock, Prints, Frame

LEMMA ThreadMain ==
  ASSUME Inductive, Running, NEW t \in Thread, Frame(t)
  PROVE  Main' /\ Thread' = Thread
<1>1. \A u \in Thread : pc'[u] = "none" <=> pc[u] = "none"
  BY DEF Frame
<1>2. \A u \in Thread : pc[u] = "done" => pc'[u] = "done"
  BY DEF Frame
<1>3. \A u \in created : u \in Thread
  BY DEF Inductive, TypeOK
<1>4. Thread' = Thread
  BY DEF Frame, Thread
<1>5. mainPc # "returned"
  BY DEF Running
<1> QED BY <1>1, <1>2, <1>3, <1>4, <1>5 DEF Frame, Inductive, Main, Tid

(* Only one thread is inside, and the others keep out while it is.         *)
LEMMA OnlyOne ==
  ASSUME JobsPaired, prog = "mutex", NEW t \in Thread, Inside(t)
  PROVE  lock = t /\ \A u \in Thread : u # t => ~Inside(u)
  BY DEF JobsPaired

(* The steps that print nothing and count nothing.                         *)
LEMMA QuietStep ==
  ASSUME Inductive, Running, NEW t \in Thread, Lock(t) \/ Load(t) \/ Unlock(t)
  PROVE  Inductive'
<1> USE DEF Inductive
<1>1. Frame(t) /\ Main' /\ Thread' = Thread
  BY ThreadFrame, ThreadMain DEF doSomeThing
<1>2. UNCHANGED <<counter, out>>
  BY DEF Lock, Load, Unlock
<1>3. TypeOK'
  <2>1. reg' \in [Thread -> Nat] /\ counter' \in Nat
    BY DEF TypeOK, Lock, Load, Unlock
  <2>2. lock' \in 0..n
    BY SMTT(20) DEF TypeOK, Lock, Load, Unlock, Thread
  <2> QED BY <1>1, <1>2, <2>1, <2>2 DEF TypeOK, Frame
<1>4. \/ pc[t] = "lock" /\ pc'[t] = "load" /\ lock = n /\ lock' = t
      \/ pc[t] = "load" /\ pc'[t] = "store" /\ lock' = lock
      \/ pc[t] = "unlock" /\ pc'[t] = "done" /\ lock' = n
  BY DEF TypeOK, Lock, Load, Unlock
<1>5. \A u \in Thread :
        /\ pc'[u] \in {"start", "finish", "unlock", "done"} <=> pc[u] \in {"start", "finish", "unlock", "done"}
        /\ pc'[u] \in {"finish", "unlock", "done"} <=> pc[u] \in {"finish", "unlock", "done"}
        /\ pc'[u] \in {"unlock", "done"} <=> pc[u] \in {"unlock", "done"}
  BY <1>1, <1>4 DEF Frame
<1>6. Counted' = Counted /\ Started' = Started /\ Finished' = Finished
  BY <1>1, <1>5 DEF Counted, Started, Finished
<1>7. \A u \in Thread : Printed(out, u, pc'[u])
  BY <1>5 DEF Printed
<1>8. /\ \A u \in Thread : u # t => reg'[u] = reg[u]
      /\ pc'[t] = "store" => reg'[t] = counter
  BY DEF TypeOK, Lock, Load, Unlock
<1>9. Cardinality(Counted) \in Nat
  BY Finite DEF TypeOK, Counted
<1>10. Counts'
  BY <1>1, <1>2, <1>6, <1>8, <1>9 DEF Counts, Frame, TypeOK
<1>11. JobsPaired'
  <2> SUFFICES ASSUME prog = "mutex"
               PROVE  /\ \A u \in Thread : Inside(u)' <=> lock' = u
                      /\ \A u \in Thread : pc'[u] = "store" => reg'[u] = counter
    BY <1>1, <1>2, <1>6 DEF JobsPaired, Frame
  <2>1. ~(n \in Thread)
    BY DEF Thread, TypeOK
  <2>2. \A u \in Thread : Inside(u)' <=> lock' = u
    <3>1. \A u \in Thread : Inside(u) <=> lock = u
      BY DEF JobsPaired
    <3>2. \A u \in Thread : u # t => (Inside(u)' <=> Inside(u))
      BY <1>1 DEF Frame, Inside
    <3>3. Inside(t)' <=> lock' = t
      BY <1>4, <2>1, <3>1 DEF Inside
    <3>4. \A u \in Thread : u # t => (Inside(u) <=> lock' = u)
      BY <1>4, <2>1, <3>1 DEF Inside
    <3> QED BY <3>2, <3>3, <3>4
  <2>3. \A u \in Thread : pc'[u] = "store" => reg'[u] = counter
    BY <1>1, <1>8 DEF JobsPaired, Frame
  <2> QED BY <2>2, <2>3
<1>12. Lines'
  <2>1. \A u \in Thread : pc'[u] = "finish" => pc[u] = "finish"
    BY <1>1 DEF Frame, Lock, Load, Unlock, TypeOK
  <2> QED BY <1>1, <1>2, <1>6, <2>1 DEF Lines, Frame
<1> QED BY <1>1, <1>2, <1>3, <1>7, <1>10, <1>11, <1>12

(* An increment ends: one more thread is counted, and the counter is one   *)
(* more than what the thread had read.                                     *)
LEMMA StoreStep ==
  ASSUME Inductive, Running, NEW t \in Thread, Store(t)
  PROVE  Inductive'
<1> USE DEF Inductive
<1>1. Frame(t) /\ Main' /\ Thread' = Thread
  BY ThreadFrame, ThreadMain DEF doSomeThing
<1>2. /\ pc[t] = "store" /\ pc'[t] = "start" /\ counter' = reg[t] + 1 /\ UNCHANGED <<lock, out>>
      /\ reg' = [reg EXCEPT ![t] = 0] /\ reg[t] \in Nat /\ counter' \in Nat
  BY DEF Store, TypeOK
<1>3. TypeOK'
  BY <1>1, <1>2 DEF TypeOK, Frame
<1>4. Counted' = Counted \cup {t} /\ Started' = Started /\ Finished' = Finished /\ t \notin Counted
  BY <1>1, <1>2 DEF Frame, Counted, Started, Finished
<1>5. Cardinality(Counted') = Cardinality(Counted) + 1 /\ Cardinality(Counted) \in Nat
  BY <1>4, Finite, OneMore DEF TypeOK, Counted
<1>6. \A u \in Thread : Printed(out, u, pc'[u])
  BY <1>1, <1>2 DEF Frame, Printed
<1>7. Counts'
  <2> SUFFICES ASSUME n <= 2
               PROVE  /\ counter' <= Cardinality(Counted) + 1 /\ counter' > 0
                      /\ \A u \in Thread : pc'[u] = "store" => reg'[u] <= Cardinality(Counted) + 1
    BY <1>1, <1>5 DEF Counts, Frame
  <2>1. reg[t] <= Cardinality(Counted)
    BY <1>2 DEF Counts
  <2>2. ASSUME NEW u \in Thread, pc'[u] = "store"
        PROVE  reg'[u] <= Cardinality(Counted) + 1
    <3>1. u # t /\ pc[u] = "store" /\ reg'[u] = reg[u] /\ reg[u] \in Nat
      BY <1>1, <1>2, <2>2 DEF Frame, TypeOK
    <3>2. reg[u] <= Cardinality(Counted)
      BY <3>1 DEF Counts
    <3> QED BY <1>5, <3>1, <3>2
  <2> QED BY <1>2, <1>5, <2>1, <2>2
<1>8. JobsPaired'
  <2> SUFFICES ASSUME prog = "mutex"
               PROVE  /\ \A u \in Thread : Inside(u)' <=> lock = u
                      /\ counter' = Cardinality(Counted')
                      /\ \A u \in Thread : pc'[u] = "store" => reg'[u] = counter'
    BY <1>1, <1>2 DEF JobsPaired, Frame
  <2>1. Inside(t) /\ \A u \in Thread : u # t => ~Inside(u)
    BY <1>2, OnlyOne DEF Inside
  <2>2. counter' = Cardinality(Counted')
    BY <1>2, <1>5 DEF JobsPaired
  <2> QED BY <1>1, <1>2, <2>1, <2>2 DEF Frame, JobsPaired, Inside
<1>9. Lines'
  BY <1>1, <1>2, <1>4 DEF Lines, Frame
<1> QED BY <1>1, <1>2, <1>3, <1>6, <1>7, <1>8, <1>9

(* What the lines printed say of the jobs, one line at a time.             *)
Paired(log) ==
  \A m \in 1..Len(log) :
    /\ log[m][1] = IF m % 2 = 1 THEN "started" ELSE "finished"
    /\ log[m][3] = (m + 1) \div 2
    /\ m % 2 = 0 => log[m][2] = log[m - 1][2]

LEMMA PairedGrows ==
  ASSUME NEW S, NEW log \in Seq(S), NEW e \in S, Paired(log), NEW m, m = Len(log) + 1,
         e[1] = IF m % 2 = 1 THEN "started" ELSE "finished",
         e[3] = (m + 1) \div 2,
         m % 2 = 0 => m > 1 /\ e[2] = log[m - 1][2]
  PROVE  Paired(Append(log, e))
<1> DEFINE new == Append(log, e)
<1>1. /\ Len(new) = m /\ Len(log) \in Nat /\ new[m] = e
      /\ \A a \in 1..Len(log) : new[a] = log[a]
  BY AppendProperties
<1> HIDE DEF new
<1> SUFFICES ASSUME NEW j \in 1..Len(new)
             PROVE  /\ new[j][1] = IF j % 2 = 1 THEN "started" ELSE "finished"
                    /\ new[j][3] = (j + 1) \div 2
                    /\ j % 2 = 0 => new[j][2] = new[j - 1][2]
  BY DEF Paired, new
<1>2. CASE j = m
  <2>1. j % 2 = 0 => j - 1 \in 1..Len(log)
    BY <1>1, <1>2
  <2> QED BY <1>1, <1>2, <2>1
<1>3. CASE j # m
  <2>1. j \in 1..Len(log) /\ (j % 2 = 0 => j - 1 \in 1..Len(log))
    BY <1>1, <1>3
  <2> QED BY <1>1, <2>1 DEF Paired
<1> QED BY <1>2, <1>3

(* A line printed by the thread that is inside: of the jobs before it two  *)
(* lines each are out.                                                     *)
LEMMA PrintStep ==
  ASSUME Inductive, Running, NEW t \in Thread, Start(t) \/ Finish(t)
  PROVE  Inductive'
<1> USE DEF Inductive
<1> DEFINE Line == {"started", "finished"} \X Thread \X Nat
           e == <<IF pc[t] = "start" THEN "started" ELSE "finished", t, counter>>
<1>1. Frame(t) /\ Main' /\ Thread' = Thread
  BY ThreadFrame, ThreadMain DEF doSomeThing
<1>2. /\ UNCHANGED <<counter, reg, lock>> /\ out' = Append(out, e)
      /\ \/ pc[t] = "start" /\ pc'[t] = "finish"
         \/ pc[t] = "finish" /\ pc'[t] = (IF prog = "mutex" THEN "unlock" ELSE "done")
  BY DEF Start, Finish, Prints, TypeOK
<1>3. e \in Line /\ out \in Seq(Line) /\ counter \in Nat
  BY DEF TypeOK
<1>4. /\ e[2] = t /\ e[3] = counter
      /\ pc[t] = "start" => e[1] = "started"
      /\ pc[t] = "finish" => e[1] = "finished"
  BY <1>2
<1> HIDE DEF e, Line
<1>5. /\ Len(out') = Len(out) + 1 /\ Len(out) \in Nat /\ out'[Len(out) + 1] = e
      /\ \A a \in 1..Len(out) : out'[a] = out[a]
  BY <1>2, <1>3, AppendProperties
<1>6. TypeOK'
  <2>1. out' \in Seq(Line)
    BY <1>2, <1>3
  <2> QED BY <1>1, <1>2, <2>1 DEF TypeOK, Frame, Line
<1>7. \A u \in Thread : Printed(out', u, pc'[u])
  <2> SUFFICES ASSUME NEW u \in Thread
               PROVE  Printed(out', u, pc'[u])
    OBVIOUS
  <2>1. Printed(out', u, pc[u])
    BY <1>2, <1>3, PrintedStays
  <2>2. CASE u # t
    BY <1>1, <2>1, <2>2 DEF Frame
  <2>3. CASE u = t /\ pc[t] = "start"
    <3>1. Len(out) + 1 \in 1..Len(out') /\ out'[Len(out) + 1][1] = "started" /\ out'[Len(out) + 1][2] = t
      BY <1>4, <1>5, <2>3
    <3>2. pc'[t] = "finish"
      BY <1>2, <2>3
    <3> QED BY <2>3, <3>1, <3>2 DEF Printed
  <2>4. CASE u = t /\ pc[t] = "finish"
    <3>1. PICK a \in 1..Len(out) : out[a][1] = "started" /\ out[a][2] = t
      BY <2>4 DEF Printed
    <3>2. /\ a \in 1..Len(out') /\ Len(out) + 1 \in 1..Len(out') /\ a < Len(out) + 1
          /\ out'[a][1] = "started" /\ out'[a][2] = t
      BY <1>5, <3>1
    <3>3. out'[Len(out) + 1][1] = "finished" /\ out'[Len(out) + 1][2] = t
      BY <1>4, <1>5, <2>4
    <3>4. /\ \E b \in 1..Len(out') : out'[b][1] = "started" /\ out'[b][2] = t
          /\ \E b, c \in 1..Len(out') :
               b < c /\ out'[b][1] = "started" /\ out'[c][1] = "finished" /\ out'[b][2] = t /\ out'[c][2] = t
      BY <3>2, <3>3, Zenon
    <3> QED BY <2>4, <3>4 DEF Printed
  <2> QED BY <1>2, <2>2, <2>3, <2>4
<1>8. /\ Counted' = Counted
      /\ pc[t] = "start" => Started' = Started \cup {t} /\ t \notin Started /\ Finished' = Finished
      /\ pc[t] = "finish" => Started' = Started /\ Finished' = Finished \cup {t} /\ t \notin Finished
  BY <1>1, <1>2 DEF Frame, Counted, Started, Finished
<1>9. /\ Started \subseteq Thread /\ Finished \subseteq Thread /\ Counted \subseteq Thread
      /\ Cardinality(Started) \in Nat /\ Cardinality(Finished) \in Nat /\ n \in Nat
  BY Finite DEF Started, Finished, Counted, TypeOK
<1>10. Counts'
  <2>1. \A u \in Thread : pc'[u] = "store" => pc[u] = "store"
    BY <1>1, <1>2 DEF Frame
  <2> QED BY <1>1, <1>2, <1>8, <2>1 DEF Counts, Frame
<1>11. ASSUME prog = "mutex"
       PROVE  /\ pc[t] = "start" => /\ Len(out) = Cardinality(Finished) + Cardinality(Finished)
                                    /\ counter = Cardinality(Finished) + 1
              /\ pc[t] = "finish" => /\ Len(out) = Cardinality(Finished) + Cardinality(Finished) + 1
                                     /\ counter = Cardinality(Finished) + 1
                                     /\ Len(out) > 0 /\ out[Len(out)][2] = t
  <2>1. Inside(t) /\ \A u \in Thread : u # t => ~Inside(u)
    BY <1>2, <1>11, OnlyOne DEF Inside
  <2>2. counter = Cardinality(Counted) /\ Len(out) = Cardinality(Started) + Cardinality(Finished)
    BY <1>11 DEF JobsPaired, Lines
  <2>3. CASE pc[t] = "start"
    <3>1. Started = Finished /\ Counted = Finished \cup {t} /\ t \notin Finished
      BY <2>1, <2>3 DEF Inside, Started, Finished, Counted
    <3> QED BY <1>9, <2>2, <2>3, <3>1, OneMore
  <2>4. CASE pc[t] = "finish"
    <3>1. Started = Finished \cup {t} /\ Counted = Finished \cup {t} /\ t \notin Finished
      BY <2>1, <2>4 DEF Inside, Started, Finished, Counted
    <3>2. Cardinality(Started) = Cardinality(Finished) + 1 /\ Cardinality(Counted) = Cardinality(Finished) + 1
      BY <1>9, <3>1, OneMore
    <3>3. Len(out) > 0 /\ out[Len(out)][2] = t
      BY <1>11, <2>4 DEF Lines
    <3> QED BY <1>9, <2>2, <2>4, <3>2, <3>3
  <2> QED BY <2>3, <2>4
<1>12. JobsPaired'
  <2> SUFFICES ASSUME prog = "mutex"
               PROVE  /\ \A u \in Thread : Inside(u)' <=> lock = u
                      /\ counter = Cardinality(Counted)
                      /\ \A u \in Thread : pc'[u] = "store" => reg[u] = counter
                      /\ Paired(out')
    BY <1>1, <1>2, <1>8 DEF JobsPaired, Frame, Paired
  <2>1. \A u \in Thread : Inside(u)' <=> Inside(u)
    BY <1>1, <1>2 DEF Frame, Inside
  <2>2. \A u \in Thread : pc'[u] = "store" => pc[u] = "store"
    BY <1>1, <1>2 DEF Frame
  <2>3. Paired(out)
    BY DEF JobsPaired, Paired
  <2>4. Paired(out')
    <3> DEFINE m == Len(out) + 1
               d == Cardinality(Finished)
    <3>1. m \in Nat /\ d \in Nat
      BY <1>5, <1>9
    <3>2. CASE pc[t] = "start"
      <4>1. m = d + d + 1 /\ e[3] = d + 1 /\ e[1] = "started"
        BY <1>4, <1>11, <3>2
      <4> HIDE DEF m, d
      <4>2. m % 2 = 1 /\ (m + 1) \div 2 = d + 1
        BY <3>1, <4>1, Numbering
      <4>3. /\ e[1] = IF m % 2 = 1 THEN "started" ELSE "finished"
            /\ e[3] = (m + 1) \div 2 /\ m % 2 # 0
        BY <4>1, <4>2
      <4>4. m = Len(out) + 1
        BY DEF m
      <4> QED BY <1>2, <1>3, <2>3, <4>3, <4>4, PairedGrows
    <3>3. CASE pc[t] = "finish"
      <4>1. m = d + d + 2 /\ e[3] = d + 1 /\ e[1] = "finished" /\ m > 1
        BY <1>4, <1>5, <1>9, <1>11, <3>3
      <4>2. e[2] = out[Len(out)][2] /\ m - 1 = Len(out)
        BY <1>4, <1>5, <1>11, <3>3
      <4> HIDE DEF m, d
      <4>3. m % 2 = 0 /\ (m + 1) \div 2 = d + 1
        BY <3>1, <4>1, Numbering
      <4> QED BY <1>2, <1>3, <2>3, <4>1, <4>2, <4>3, PairedGrows DEF m
    <3> QED BY <1>2, <3>2, <3>3
  <2> QED BY <2>1, <2>2, <2>4 DEF JobsPaired
<1>13. Lines'
  <2> SUFFICES ASSUME prog = "mutex"
               PROVE  /\ Len(out') = Cardinality(Started') + Cardinality(Finished')
                      /\ \A u \in Thread : pc'[u] = "finish" => Len(out') > 0 /\ out'[Len(out')][2] = u
    BY <1>1 DEF Lines, Frame
  <2>1. Len(out') = Cardinality(Started') + Cardinality(Finished')
    <3>1. Len(out) = Cardinality(Started) + Cardinality(Finished)
      BY DEF Lines
    <3>2. CASE pc[t] = "start"
      BY <1>5, <1>8, <1>9, <3>1, <3>2, OneMore
    <3>3. CASE pc[t] = "finish"
      BY <1>5, <1>8, <1>9, <3>1, <3>3, OneMore
    <3> QED BY <1>2, <3>2, <3>3
  <2>2. ASSUME NEW u \in Thread, pc'[u] = "finish"
        PROVE  Len(out') > 0 /\ out'[Len(out')][2] = u
    <3>1. ~Inside(u) \/ u = t
      BY <1>2, OnlyOne DEF Inside
    <3>2. u = t
      BY <1>1, <2>2, <3>1 DEF Inside, Frame
    <3> QED BY <1>4, <1>5, <3>2
  <2> QED BY <2>1, <2>2
<1> QED BY <1>1, <1>6, <1>7, <1>10, <1>12, <1>13

LEMMA NextInductive == Inductive /\ [Next]_vars => Inductive'
<1> SUFFICES ASSUME Inductive, [Next]_vars
             PROVE  Inductive'
  OBVIOUS
<1>1. CASE UNCHANGED vars
  BY <1>1 DEF vars, Inductive, TypeOK, Main, Counts, JobsPaired, Lines, Inside, Counted, Started, Finished,
                 Thread
<1>2. CASE Running /\ (Create \/ EndCreate \/ Join)
  BY <1>2, MainStep
<1>3. CASE Running /\ \E t \in Thread : doSomeThing(t)
  BY <1>3, QuietStep, StoreStep, PrintStep DEF doSomeThing
<1> QED BY <1>1, <1>2, <1>3 DEF Next

-----------------------------------------------------------------------------
LEMMA Invariance == Spec => []Inductive
  BY InitInductive, NextInductive, PTL DEF Spec

(* The counter never exceeds the threads created, and those that main      *)
(* joins have printed both their lines when it returns.                    *)
LEMMA OutcomeFollows == Inductive => Outcome
<1> SUFFICES ASSUME Inductive
             PROVE  Outcome
  OBVIOUS
<1> USE DEF Inductive
<1>1. Counted \subseteq created /\ created \subseteq Thread /\ n \in Nat
  BY DEF Counted, TypeOK, Main
<1>2. /\ Cardinality(Counted) <= Cardinality(created) /\ Cardinality(Counted) \in Nat
      /\ Cardinality(created) \in Nat /\ counter \in Nat
  BY <1>1, Finite, FS_Subset DEF TypeOK
<1>3. n <= 2 => counter <= Cardinality(created)
  BY <1>2 DEF Counts
<1>4. ASSUME mainPc = "returned"
      PROVE  \A t \in Tid \cap created : \E a, b \in 1..Len(out) :
               a < b /\ out[a][1] = "started" /\ out[b][1] = "finished" /\ out[a][2] = t /\ out[b][2] = t
  BY <1>1, <1>4 DEF Main, Printed
<1>5. ASSUME mainPc = "returned", n = 2, created # {}
      PROVE  counter > 0
  <2>1. PICK t \in created : TRUE
    BY <1>5
  <2>2. t \in Thread /\ t \in Tid
    BY <1>1, <1>5 DEF Thread, Tid
  <2>3. t \in Counted
    BY <1>5, <2>2 DEF Main, Counted
  <2> QED BY <1>5, <2>3 DEF Counts
<1> QED BY <1>3, <1>4, <1>5 DEF Outcome, Main

(* Every variable stays in its type.                                       *)
THEOREM TypeCorrect == Spec => []TypeOK
  BY Invariance, PTL DEF Inductive

(* With the mutex no increment is lost and the jobs are printed one after  *)
(* the other, numbered (mutex.c:13-23); without it numbers may repeat, but *)
(* with two threads none is made up, and a main that returns has seen the  *)
(* first two threads finish (problem.c:13, 31).                            *)
THEOREM JobsCorrect == Spec => []IInv
<1>1. Inductive => IInv
  BY OutcomeFollows DEF Inductive, IInv
<1> QED BY <1>1, Invariance, PTL
=============================================================================

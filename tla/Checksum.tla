------------------------------ MODULE Checksum ------------------------------
(***************************************************************************)
(* task3: the two functions that sum up a buffer, calculate_checksum of    *)
(* prartb_2.c and compute_checksum of server.c, on bytes of W values (256  *)
(* in the code).  Both are meant to give the checksum of RFC 1071: the     *)
(* complement of the ones' complement sum of the words.  The first adds in *)
(* an int, which its callers' 100 MB overflow, the second in a long.       *)
(***************************************************************************)
EXTENDS Integers

CONSTANTS W,       \* how many values a byte has
          MaxLen   \* bound: bytes of a buffer

ASSUME ChecksumAssumption == W \in Nat /\ W >= 2 /\ MaxLen \in Nat

R == W * W  \* one more than the largest word; an int holds two words
Byte == 0..(W - 1)

VARIABLES
  fn,      \* "calculate" or "compute"
  shift,   \* the instruction for >> of an int: "arithmetic" or "logical"
  left,    \* the bytes not yet added (nleft, length)
  sum,
  pc,      \* "add", "fold", "again" or "done"
  answer,
  total,   \* history: the sum of all words added
  ones     \* history: their ones' complement sum, carries added at once

vars == <<fn, shift, left, sum, pc, answer, total, ones>>

(* What an int of two words keeps of a sum.  Overflow of an int is         *)
(* undefined; compilers wrap, and may shift as if the sum were positive.   *)
Half == (R * R) \div 2
Wrap(s) == ((s + Half) % (R * R)) - Half

OnesAdd(a, w) == IF a + w >= R THEN a + w - R + 1 ELSE a + w

Init ==
  /\ fn \in {"calculate", "compute"}
  /\ shift \in {"arithmetic", "logical"} /\ (fn = "compute" => shift = "logical")
  /\ left \in 0..MaxLen
  /\ sum = 0 /\ pc = "add" /\ answer = 0 /\ total = 0 /\ ones = 0

Add(w) ==
  /\ sum' = IF fn = "calculate" THEN Wrap(sum + w) ELSE sum + w
  /\ total' = total + w /\ ones' = OnesAdd(ones, w)

AddWord ==
  /\ pc = "add" /\ left > 1
  /\ \E w \in 0..(R - 1) : Add(w)
  /\ left' = left - 2
  /\ UNCHANGED <<fn, shift, pc, answer>>

(* Mutant: the last byte becomes the other half of its word. *)
AddOddHigh ==
  /\ pc = "add" /\ left = 1
  /\ \E b \in Byte :
       /\ sum' = IF fn = "calculate" THEN Wrap(sum + b * W) ELSE sum + b * W
       /\ total' = total + b /\ ones' = OnesAdd(ones, b)
  /\ left' = 0
  /\ UNCHANGED <<fn, shift, pc, answer>>

(* The last byte of an odd buffer is the first one of its word, the low    *)
(* half on the machines this runs on, with a zero behind it.               *)
AddOdd ==
  /\ pc = "add" /\ left = 1
  /\ \E b \in Byte : Add(b)
  /\ left' = 0
  /\ UNCHANGED <<fn, shift, pc, answer>>

High(s) == (IF shift = "logical" THEN s % (R * R) ELSE s) \div R

EndAdd ==
  /\ pc = "add" /\ left = 0
  /\ pc' = "fold"
  /\ UNCHANGED <<fn, shift, left, sum, answer, total, ones>>

(* calculate: the high half is added to the low one, then the carry. *)
Fold ==
  /\ pc = "fold" /\ fn = "calculate"
  /\ sum' = High(sum) + (sum % R)
  /\ pc' = "again"
  /\ UNCHANGED <<fn, shift, left, answer, total, ones>>

(* Mutant: the carry of the first addition is forgotten. *)
FoldOnlyOnce ==
  /\ pc = "again"
  /\ answer' = (R - 1 - sum) % R
  /\ pc' = "done"
  /\ UNCHANGED <<fn, shift, left, sum, total, ones>>

FoldAgain ==
  /\ pc = "again"
  /\ sum' = sum + High(sum) /\ answer' = (R - 1 - sum') % R
  /\ pc' = "done"
  /\ UNCHANGED <<fn, shift, left, total, ones>>

(* compute: folds until nothing is left in the high half. *)
FoldAll ==
  /\ pc = "fold" /\ fn = "compute"
  /\ IF sum >= R
     THEN sum' = (sum % R) + (sum \div R) /\ UNCHANGED <<pc, answer>>
     ELSE answer' = R - 1 - sum /\ pc' = "done" /\ UNCHANGED sum
  /\ UNCHANGED <<fn, shift, left, total, ones>>

calculate_checksum == fn = "calculate" /\ (AddWord \/ AddOdd \/ EndAdd \/ Fold \/ FoldAgain)
compute_checksum == fn = "compute" /\ (AddWord \/ AddOdd \/ EndAdd \/ FoldAll)

Next == calculate_checksum \/ compute_checksum

Spec == Init /\ [][Next]_vars

-----------------------------------------------------------------------------
TypeOK ==
  /\ fn \in {"calculate", "compute"} /\ shift \in {"arithmetic", "logical"}
  /\ left \in 0..MaxLen /\ total \in Nat
  /\ ones \in 0..(R - 1) /\ answer \in 0..(R - 1)
  /\ pc \in {"add", "fold", "again", "done"}

Congruent(a, b) == (a - b) % (R - 1) = 0

(* What calculate_checksum loses when the sum overflows: so many times the *)
(* square of R, each of which should have added one to the result.         *)
Taken == IF shift = "logical" THEN Wrap(total) % (R * R) ELSE Wrap(total)
Lost == IF fn = "compute" THEN 0 ELSE (total - Taken) \div (R * R)

(* While a function runs its sum is that of the words so far, up to what   *)
(* the int cannot hold, and each fold keeps it modulo R - 1.  The ones'    *)
(* complement sum is zero for nothing but zeros.                           *)
IInv ==
  /\ TypeOK
  /\ Congruent(ones, total) /\ (ones = 0 <=> total = 0)
  /\ pc = "add" \/ (pc = "fold" /\ fn = "calculate") =>
       sum = IF fn = "calculate" THEN Wrap(total) ELSE total
  /\ pc = "fold" /\ fn = "compute" =>
       sum \in Nat /\ Congruent(sum, total) /\ (sum = 0 <=> total = 0)
  /\ pc = "again" => Congruent(sum, total - Lost) /\ sum \in -R..(2 * R - 2)

(* compute_checksum gives the checksum of RFC 1071 for every buffer.       *)
(* calculate_checksum does so as long as the int does not overflow         *)
(* (prartb_2.c:33, 44-46: two folds are enough); from then on its result   *)
(* is behind by one for each overflow, and right only by accident.         *)
Rfc1071 ==
  pc = "done" =>
    /\ Lost = 0 => answer = R - 1 - ones
    /\ Congruent(R - 1 - answer, ones - Lost)
=============================================================================

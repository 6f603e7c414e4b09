------------------------------ MODULE SequenceLemmas ------------------------------
(***************************************************************************)
(* What removing an element does to a sequence, for the proofs about the   *)
(* outbound rows (MailProofs, StationProofs) and the inbox                 *)
(* (OperatorProofs), and the greatest of a set of numbers (MailProofs,     *)
(* ReassemblyProofs).                                                      *)
(***************************************************************************)
EXTENDS Integers, Sequences, SequencesExt, SequenceTheorems,
        WellFoundedInduction, TLAPS

(* A bounded set of numbers has a greatest.                                *)
LEMMA GreatestExists ==
    ASSUME NEW T, T # {}, NEW n \in Nat, \A x \in T : x \in Nat /\ x <= n
    PROVE  \E x \in T : \A y \in T : y <= x
<1> DEFINE R == OpToRel(<, Nat)
           D == {n - x : x \in T}
<1>1. \A x, y \in Nat : x < y => <<x, y>> \in R
  BY DEF OpToRel
<1>2. D \subseteq Nat /\ D # {}
  OBVIOUS
<1> HIDE DEF R
<1>3. PICK d \in D : \A e \in D : ~(<<e, d>> \in R)
  <2>1. IsWellFoundedOn(R, Nat)
    BY NatLessThanWellFounded DEF R
  <2> HIDE DEF D
  <2> QED BY <1>2, <2>1, WFMin
<1>4. PICK x \in T : d = n - x
  OBVIOUS
<1>5. ASSUME NEW y \in T PROVE y <= x
  <2>1. ~(n - y < d)
    BY <1>1, <1>2, <1>3
  <2> QED BY <1>4, <2>1
<1> QED BY <1>5

(* Removing an element of a sequence over a set leaves a sequence over it. *)
LEMMA RemoveAtKeepsSeq ==
    ASSUME NEW S, NEW q \in Seq(S), NEW j \in 1..Len(q)
    PROVE  RemoveAt(q, j) \in Seq(S) /\ Len(RemoveAt(q, j)) = Len(q) - 1
<1>1. \A i \in 1..Len(q) : q[i] \in S
  BY ElementOfSeq
<1> DEFINE before == SubSeq(q, 1, j - 1)
           after == SubSeq(q, j + 1, Len(q))
<1>2. Len(q) \in Nat
  BY LenProperties
<1>3. before \in Seq(S) /\ Len(before) = j - 1
  BY <1>1, <1>2, SubSeqProperties
<1>4. after \in Seq(S) /\ Len(after) = Len(q) - j
  BY <1>1, <1>2, SubSeqProperties
<1> HIDE DEF before, after
<1>5. before \o after \in Seq(S) /\ Len(before \o after) = Len(before) + Len(after)
  BY <1>3, <1>4, ConcatProperties
<1>6. RemoveAt(q, j) = before \o after
  BY DEF RemoveAt, before, after
<1> QED BY <1>2, <1>3, <1>4, <1>5, <1>6

(* The elements after the removed one move up by one place.                *)
LEMMA RemoveAtIs ==
    ASSUME NEW S, NEW q \in Seq(S), NEW j \in 1..Len(q)
    PROVE  \A i \in 1..(Len(q) - 1) :
              RemoveAt(q, j)[i] = IF i < j THEN q[i] ELSE q[i + 1]
<1>1. \A i \in 1..Len(q) : q[i] \in S
  BY ElementOfSeq
<1> DEFINE before == SubSeq(q, 1, j - 1)
           after == SubSeq(q, j + 1, Len(q))
<1>2. Len(q) \in Nat
  BY LenProperties
<1>3. /\ before \in Seq(S) /\ Len(before) = j - 1
      /\ \A i \in 1..(j - 1) : before[i] = q[i]
  BY <1>1, <1>2, SubSeqProperties
<1>4. /\ after \in Seq(S) /\ Len(after) = Len(q) - j
      /\ \A i \in 1..(Len(q) - j) : after[i] = q[j + i]
  BY <1>1, <1>2, SubSeqProperties
<1> HIDE DEF before, after
<1>5. \A i \in 1..(Len(before) + Len(after)) :
         (before \o after)[i] = IF i <= Len(before) THEN before[i]
                                                    ELSE after[i - Len(before)]
  BY <1>3, <1>4, ConcatProperties
<1>6. RemoveAt(q, j) = before \o after
  BY DEF RemoveAt, before, after
<1>7. ASSUME NEW i \in 1..(Len(q) - 1)
      PROVE  (before \o after)[i] = IF i < j THEN q[i] ELSE q[i + 1]
  <2>1. CASE i < j
    BY <1>2, <1>3, <1>4, <1>5, <2>1
  <2>2. CASE ~(i < j)
    <3>1. i - (j - 1) \in 1..(Len(q) - j) /\ j + (i - (j - 1)) = i + 1
      BY <1>2, <2>2
    <3>2. after[i - (j - 1)] = q[j + (i - (j - 1))]
      BY <1>4, <3>1
    <3>3. (before \o after)[i] = after[i - (j - 1)]
      BY <1>2, <1>3, <1>4, <1>5, <2>2
    <3> QED BY <2>2, <3>1, <3>2, <3>3
  <2> QED BY <2>1, <2>2
<1> QED BY <1>6, <1>7
===============================================================================

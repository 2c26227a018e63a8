----------------------------- MODULE QueueLemmas ------------------------------
(***************************************************************************)
(* Lemmas about queues by the positions of what is in them, and an         *)
(* induction along a queue.                                                *)
(***************************************************************************)
EXTENDS Integers, Sequences, TLAPS, WellFoundedInduction

-----------------------------------------------------------------------------
(* Taking the head, losing the end, and appending.                         *)

LEMMA TailAt ==
    ASSUME NEW S, NEW q \in Seq(S), q # <<>>
    PROVE  /\ Tail(q) \in Seq(S)
           /\ Len(Tail(q)) = Len(q) - 1
           /\ Len(q) \in Nat \ {0}
           /\ Head(q) = q[1]
           /\ \A i \in 1 .. Len(Tail(q)) : Tail(q)[i] = q[i + 1] /\ i + 1 \in 1 .. Len(q) /\ i + 1 # 1
           /\ 1 \in 1 .. Len(q)
OBVIOUS

LEMMA FrontAt ==
    ASSUME NEW S, NEW q \in Seq(S), NEW n \in 0 .. Len(q)
    PROVE  /\ SubSeq(q, 1, n) \in Seq(S)
           /\ Len(SubSeq(q, 1, n)) = n
           /\ n \in Nat
           /\ \A i \in 1 .. n : SubSeq(q, 1, n)[i] = q[i] /\ i \in 1 .. Len(q)
OBVIOUS

LEMMA JoinAt ==
    ASSUME NEW S, NEW q \in Seq(S), NEW ms \in Seq(S)
    PROVE  /\ q \o ms \in Seq(S)
           /\ Len(q \o ms) = Len(q) + Len(ms)
           /\ \A i \in 1 .. Len(q) : (q \o ms)[i] = q[i] /\ i \in 1 .. Len(q \o ms)
           /\ \A i \in 1 .. Len(q \o ms) :
                  i \in 1 .. Len(q) \/ (i - Len(q) \in 1 .. Len(ms) /\ (q \o ms)[i] = ms[i - Len(q)])
           /\ \A k \in 1 .. Len(ms) : (q \o ms)[Len(q) + k] = ms[k]
OBVIOUS

-----------------------------------------------------------------------------
(* Induction up to a bound, over a set in the place of a predicate.        *)

LEMMA Least ==
    ASSUME NEW S \in SUBSET Nat, S # {}
    PROVE  \E m \in S : \A k \in S : m <= k
<1> DEFINE R == OpToRel(<, Nat)
<1>1. IsWellFoundedOn(R, Nat)
  BY NatLessThanWellFounded
<1>2. \A x, y \in Nat : x < y => <<x, y>> \in R
  BY DEF OpToRel
<1> HIDE DEF R
<1>3. PICK m \in S : \A k \in S : <<k, m>> \notin R
  BY <1>1, WFMin
<1>4. ASSUME NEW k \in S PROVE m <= k
  <2>1. k \in Nat /\ m \in Nat
    OBVIOUS
  <2>2. ~(k < m)
    BY <1>2, <1>3, <2>1
  <2> QED
    BY <2>1, <2>2
<1> QED
  BY <1>4

LEMMA UpTo ==
    ASSUME NEW n \in Nat, NEW S \in SUBSET (0 .. n), 0 \in S,
           \A i \in 1 .. n : i - 1 \in S => i \in S
    PROVE  S = 0 .. n
<1> DEFINE T == (0 .. n) \ S
<1>1. CASE T = {}
  BY <1>1
<1>2. ASSUME NEW m \in T, \A k \in T : m <= k PROVE FALSE
  <2>1. m \in 1 .. n /\ m - 1 \in 0 .. n /\ ~(m <= m - 1)
    OBVIOUS
  <2> QED
    BY <1>2, <2>1
<1>3. T \in SUBSET Nat
  OBVIOUS
<1> HIDE DEF T
<1>4. T = {}
  BY <1>2, <1>3, Least
<1> QED
  BY <1>1, <1>4

=============================================================================

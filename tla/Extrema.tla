------------------------------- MODULE Extrema -------------------------------
(* A set of naturals has a least element, and a set of records with bounded *)
(* sequence numbers one with the largest number.                            *)
EXTENDS Naturals, WellFoundedInduction, TLAPS

LEMMA LessIsWellFounded ==
  IsWellFoundedOn({p \in Nat \X Nat : p[1] < p[2]}, Nat)
  BY NatLessThanWellFounded DEF OpToRel

(* Every non-empty set of naturals has a minimum.                          *)
LEMMA HasMin ==
  ASSUME NEW T \in SUBSET Nat, T # {}
  PROVE  \E x \in T : \A y \in T : x <= y
<1> DEFINE R == {p \in Nat \X Nat : p[1] < p[2]}
<1>1. IsWellFoundedOn(R, Nat)  BY LessIsWellFounded
<1> HIDE DEF R
<1>2. PICK x \in T : \A y \in T : ~(<<y, x>> \in R)  BY <1>1, WFMin
<1>3. ASSUME NEW y \in T PROVE x <= y
  <2>1. x \in Nat /\ y \in Nat  OBVIOUS
  <2>2. ~(<<y, x>> \in {p \in Nat \X Nat : p[1] < p[2]})  BY <1>2 DEF R
  <2>3. ~(y < x)  BY <2>1, <2>2
  <2> QED  BY <2>1, <2>3
<1> QED  BY <1>3

(* A non-empty set of records whose seq fields are bounded has a record    *)
(* with the largest one, however large the set.                            *)
LEMMA HasMaxSeq ==
  ASSUME NEW S, NEW b \in Nat, \A r \in S : r.seq \in 0..b, S # {}
  PROVE  \E r \in S : \A q \in S : q.seq <= r.seq
<1> DEFINE T == {b - r.seq : r \in S}
<1>1. T \in SUBSET Nat /\ T # {}  OBVIOUS
<1>2. \A q \in S : b - q.seq \in T  OBVIOUS
<1>3. \A x \in T : \E r \in S : x = b - r.seq  OBVIOUS
<1> HIDE DEF T
<1>4. PICK x \in T : \A y \in T : x <= y  BY <1>1, HasMin
<1>5. PICK r \in S : x = b - r.seq  BY <1>3
<1>6. \A q \in S : q.seq <= r.seq  BY <1>2, <1>4, <1>5
<1> QED  BY <1>6

=============================================================================

--------------------------- MODULE HighestProofs ---------------------------
(***************************************************************************)
(* Facts about the highest member of a bounded set of naturals, for every  *)
(* bound: what the proofs about lists and about the scheduler rest on.     *)
(***************************************************************************)
EXTENDS Highest, WellFoundedInduction, TLAPS

\* A non-empty set of naturals has a least element.
LEMMA LeastExists ==
  ASSUME NEW S \in SUBSET Nat, S # {}
  PROVE  \E x \in S : \A y \in S : x =< y
<1> DEFINE R == OpToRel(<, Nat)
<1>1. R = {ss \in Nat \X Nat : ss[1] < ss[2]}
  BY DEF OpToRel
<1>2. PICK x \in S : \A y \in S : <<y, x>> \notin R
  <2> HIDE DEF R
  <2> QED  BY NatLessThanWellFounded, WFMin DEF R
<1> HIDE DEF R
<1>3. ASSUME NEW y \in S PROVE x =< y
  <2>1. <<y, x>> \notin {ss \in Nat \X Nat : ss[1] < ss[2]}
    BY <1>1, <1>2
  <2>2. ~ (y < x)
    BY <2>1
  <2> QED  BY <2>2
<1> QED  BY <1>3

\* Max returns the greatest element of a non-empty bounded set of naturals.
LEMMA MaxIsGreatest ==
  ASSUME NEW b \in Nat, NEW S \in SUBSET (0..b), S # {}
  PROVE  Max(S) \in S /\ \A y \in S : Max(S) >= y
<1> DEFINE T == {b - s : s \in S}
<1>1. T \in SUBSET Nat /\ T # {}
  <2>1. \A s \in S : b - s \in Nat
    OBVIOUS
  <2>2. PICK s \in S : TRUE
    OBVIOUS
  <2>3. b - s \in T
    OBVIOUS
  <2> QED  BY <2>1, <2>3
<1>2. PICK t \in T : \A u \in T : t =< u
  BY <1>1, LeastExists
<1>3. PICK s \in S : t = b - s
  OBVIOUS
<1>4. \A y \in S : s >= y
  <2> TAKE y \in S
  <2>1. b - y \in T
    OBVIOUS
  <2>2. t =< b - y
    BY <1>2, <2>1
  <2> QED  BY <1>3, <2>2
<1> QED  BY <1>4 DEF Max

\* The only greatest element is Max.
LEMMA GreatestIsMax ==
  ASSUME NEW b \in Nat, NEW S \in SUBSET (0..b), NEW m \in S,
         \A y \in S : m >= y
  PROVE  m = Max(S)
<1>1. PICK g \in S : g = Max(S) /\ \A y \in S : g >= y
  BY MaxIsGreatest
<1>2. m \in Int /\ g \in Int
  OBVIOUS
<1>3. m >= g /\ g >= m
  BY <1>1
<1> QED  BY <1>1, <1>2, <1>3

\* The highest member of a set is the one no member exceeds.
LEMMA HighestIsMember ==
  ASSUME NEW b \in Nat, NEW S \in SUBSET (0..b)
  PROVE  /\ Highest(S) \in 0..b
         /\ S # {} => Highest(S) \in S
         /\ \A y \in S : Highest(S) >= y
<1>1. CASE S = {}
  BY <1>1 DEF Highest
<1>2. CASE S # {}
  <2>1. Max(S) \in S /\ \A y \in S : Max(S) >= y
    BY <1>2, MaxIsGreatest
  <2>2. Highest(S) = Max(S)
    BY <1>2 DEF Highest
  <2> QED  BY <2>1, <2>2
<1> QED  BY <1>1, <1>2
=============================================================================

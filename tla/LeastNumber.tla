---------------------------- MODULE LeastNumber ----------------------------
(***************************************************************************)
(* The arguments by least counterexample that the other proofs make where  *)
(* one would write an induction.                                           *)
(***************************************************************************)
EXTENDS Naturals, WellFoundedInduction, TLAPS

\* A set of numbers that has an element has a least one: how a proof finds the
\* first stream that ends late (PostBodyStreamProofs) or the item of a rank
\* (PagedFetchProofs).
LEMMA LeastNatural ==
  ASSUME NEW T \in SUBSET Nat, T # {}
  PROVE  \E m \in T : \A k \in T : m <= k
<1>1. \E m \in T : \A k \in T : ~(<<k, m>> \in OpToRel(<, Nat))
  BY NatLessThanWellFounded, WFMin, Zenon
<1>2. \A k, m \in Nat : k < m => <<k, m>> \in OpToRel(<, Nat)
  <2>1. SUFFICES ASSUME NEW k \in Nat, NEW m \in Nat, k < m
                 PROVE  <<k, m>> \in {ss \in Nat \X Nat : ss[1] < ss[2]}
    BY DEF OpToRel
  <2>2. QED
    BY <2>1
<1>3. PICK m \in T : \A k \in T : ~(<<k, m>> \in OpToRel(<, Nat))
  BY <1>1
<1>4. \A k \in T : ~(k < m)
  BY <1>2, <1>3, Zenon
<1>5. QED
  BY <1>4

\* A bounded set of numbers that has an element has a greatest one.
LEMMA GreatestNatural ==
  ASSUME NEW n \in Nat, NEW T \in SUBSET (0..n), T # {}
  PROVE  \E m \in T : \A k \in T : k <= m
<1> DEFINE gaps == {k \in Nat : k <= n /\ n - k \in T}
<1>1. \A k \in T : n - k \in gaps
  OBVIOUS
<1>2. gaps \in SUBSET Nat /\ gaps # {}
  BY <1>1
<1>3. PICK m \in gaps : \A k \in gaps : m <= k
  <2> HIDE DEF gaps
  <2>1. QED
    BY <1>2, LeastNatural
<1>4. n - m \in T /\ m \in Nat
  OBVIOUS
<1>5. ASSUME NEW k \in T PROVE k <= n - m
  <2>1. m <= n - k
    BY <1>1, <1>3
  <2>2. QED
    BY <1>4, <2>1
<1>6. QED
  BY <1>4, <1>5
=============================================================================

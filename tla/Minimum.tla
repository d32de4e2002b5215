------------------------------ MODULE Minimum -------------------------------
(* The least number of a set, without the induction theorems that take an  *)
(* operator as a parameter.                                                *)
EXTENDS Integers, WellFoundedInduction, TLAPS

LessThan == OpToRel(<, Nat)

\* Every set of natural numbers that is not empty has a least member.
LEMMA NatMin ==
    ASSUME NEW T \in SUBSET Nat, T # {}
    PROVE  \E m \in T : \A n \in T : m <= n
  <1>1. IsWellFoundedOn(LessThan, Nat)
    BY NatLessThanWellFounded DEF LessThan
  <1>2. \A x, y \in Nat : <<y, x>> \in LessThan <=> y < x
    BY DEF OpToRel, LessThan
  <1>3. PICK x \in T : \A y \in T : ~(<<y, x>> \in LessThan)
    BY <1>1, WFMin
  <1>4. \A y \in T : x <= y
    <2> TAKE y \in T
    <2>1. x \in Nat /\ y \in Nat OBVIOUS
    <2>2. ~(y < x) BY <1>2, <1>3, <2>1, Zenon
    <2> QED BY <2>1, <2>2
  <1> QED BY <1>4
=============================================================================

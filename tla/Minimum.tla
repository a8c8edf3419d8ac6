------------------------------- MODULE Minimum -------------------------------
(***************************************************************************)
(* Every set of naturals that is not empty has a least element, which is   *)
(* what Min answers.  The code asks for it where the kernel hands out the  *)
(* lowest free descriptor and where the loop takes the next event.         *)
(***************************************************************************)
EXTENDS Integers, FiniteSetsExt, WellFoundedInduction, TLAPS

LessThan == {p \in Nat \X Nat : p[1] < p[2]}

LEMMA MinIsLeast ==
  ASSUME NEW S \in SUBSET Nat, S # {}
  PROVE  Min(S) \in S /\ \A y \in S : Min(S) <= y
<1>1. IsWellFoundedOn(LessThan, Nat)
  BY NatLessThanWellFounded DEF OpToRel, LessThan
<1>2. PICK x \in S : \A y \in S : <<y, x>> \notin LessThan
  BY <1>1, WFMin
<1>3. \A y \in S : x <= y
  <2> SUFFICES ASSUME NEW y \in S PROVE x <= y
    OBVIOUS
  <2>1. x \in Nat /\ y \in Nat
    OBVIOUS
  <2>2. ~ (<<y, x>> \in Nat \X Nat /\ y < x)
    BY <1>2 DEF LessThan
  <2> QED BY <2>1, <2>2
<1> QED BY <1>3 DEF Min
=============================================================================

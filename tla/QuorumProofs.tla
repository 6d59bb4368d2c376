---------------------------- MODULE QuorumProofs ----------------------------
(***************************************************************************)
(* The thresholds of pkg/types/quorum.go, proved for every validator set   *)
(* and every count a caller may pass.  The inductive invariant says that   *)
(* whatever the constructor lets through satisfies mustBeValid; the two    *)
(* quorum theorems are then counting arguments over n = 3f+1.              *)
(***************************************************************************)
EXTENDS QuorumParams, FiniteSetTheorems, TLAPS

IInv == /\ TypeOK
        /\ Accepted => mustBeValid(params)
        /\ AccessorsFailClosed

(* quorum.go:57-64: what the constructor derives for an accepted count is a  *)
(* record of integers that mustBeValid lets through.                         *)
LEMMA DerivedIsValid ==
    ASSUME NEW n \in Int, ~OutOfRange(n), ~NotThreeFPlusOne(n)
    PROVE  /\ Derive(n) \in QuorumParameters
           /\ mustBeValid(Derive(n))
BY DEF OutOfRange, NotThreeFPlusOne, Derive, QuorumParameters, mustBeValid,
       MinValidatorCount, MaxValidatorCount

(* quorum.go:100-109: the thresholds of a valid value, as equations over f.  *)
LEMMA ValidArithmetic ==
    ASSUME NEW p \in QuorumParameters, mustBeValid(p)
    PROVE  /\ p.maxByzantine \in Nat /\ p.maxByzantine >= 1
           /\ p.validatorCount = 3 * p.maxByzantine + 1
           /\ p.quorum = 2 * p.maxByzantine + 1
           /\ p.recoveryThreshold = p.maxByzantine + 1
           /\ MinimumQuorumIntersection(p) = p.maxByzantine + 1
           /\ p = Derive(p.validatorCount)
           /\ ~OutOfRange(p.validatorCount)
           /\ p # ZeroParameters
<1>1. /\ p.maxByzantine \in Nat /\ p.maxByzantine >= 1
      /\ p.validatorCount = 3 * p.maxByzantine + 1
  BY DEF QuorumParameters, mustBeValid, MinValidatorCount
<1>2. /\ p.quorum = 2 * p.maxByzantine + 1
      /\ p.recoveryThreshold = p.maxByzantine + 1
  BY DEF mustBeValid
<1>3. MinimumQuorumIntersection(p) = p.maxByzantine + 1
  BY <1>1, <1>2 DEF MinimumQuorumIntersection
<1>4. p = Derive(p.validatorCount)
  BY DEF QuorumParameters, mustBeValid, Derive
<1>5. ~OutOfRange(p.validatorCount)
  BY DEF QuorumParameters, mustBeValid, OutOfRange, MinValidatorCount,
         MaxValidatorCount
<1>6. p # ZeroParameters
  BY DEF mustBeValid, ZeroParameters, MinValidatorCount
<1> QED
  BY <1>1, <1>2, <1>3, <1>4, <1>5, <1>6

(* The state invariant behind every theorem of this module.                  *)
LEMMA Inductive == Spec => []IInv
<1>1. Init => IInv
  BY DEF Init, IInv, TypeOK, Accepted, AccessorsFailClosed, ZeroParameters,
         QuorumParameters, Panic
<1>2. IInv /\ [Next]_vars => IInv'
  <2> SUFFICES ASSUME IInv, [Next]_vars PROVE IInv'
    OBVIOUS
  <2>1. ASSUME NEW n \in Counts, NewQuorumParameters(n) PROVE IInv'
    <3>1. n \in Int
      BY CountsAssumption
    <3>2. CASE OutOfRange(n) \/ NotThreeFPlusOne(n)
      <4>1. /\ params' = ZeroParameters /\ out' = out
            /\ err' \in {ErrValidatorCountOutOfRange, ErrValidatorCountNotThreeFPlusOne}
        BY <2>1, <3>2 DEF NewQuorumParameters
      <4> QED
        BY <4>1 DEF IInv, TypeOK, Accepted, AccessorsFailClosed, ZeroParameters,
                    QuorumParameters
    <3>3. CASE ~OutOfRange(n) /\ ~NotThreeFPlusOne(n)
      <4>1. params' = Derive(n) /\ err' = "nil" /\ out' = out
        BY <2>1, <3>3 DEF NewQuorumParameters
      <4>2. params' \in QuorumParameters /\ mustBeValid(params')
        BY <3>1, <3>3, <4>1, DerivedIsValid
      <4> QED
        BY <4>1, <4>2 DEF IInv, TypeOK, Accepted, AccessorsFailClosed
    <3> QED
      BY <3>2, <3>3
  <2>2. ASSUME NEW a \in Accessors, Access(a) PROVE IInv'
    <3>1. CASE mustBeValid(params)
      <4>1. out' = [panic |-> FALSE, value |-> Read(a, params)]
        BY <2>2, <3>1 DEF Access
      <4>2. params \in QuorumParameters
        BY DEF IInv, TypeOK
      <4>3. Read(a, params) \in Int /\ Read(a, params) > 0
        BY <3>1, <4>2, ValidArithmetic DEF Read, Accessors, QuorumParameters
      <4>4. params' = params /\ err' = err
        BY <2>2 DEF Access
      <4>5. out' \in [panic: BOOLEAN, value: Int] /\ AccessorsFailClosed'
        BY <4>1, <4>3 DEF AccessorsFailClosed
      <4> QED
        BY <4>4, <4>5 DEF IInv, TypeOK, Accepted
    <3>2. CASE ~mustBeValid(params)
      <4>1. out' = Panic
        BY <2>2, <3>2 DEF Access
      <4> QED
        BY <2>2, <4>1 DEF IInv, TypeOK, Accepted, AccessorsFailClosed, Access, Panic
    <3> QED
      BY <3>1, <3>2
  <2>3. CASE UNCHANGED vars
    BY <2>3 DEF vars, IInv, TypeOK, Accepted, AccessorsFailClosed
  <2> QED
    BY <2>1, <2>2, <2>3 DEF Next
<1> QED
  BY <1>1, <1>2, PTL DEF Spec

(* The fields of quorum.go:31-36 keep their types.                           *)
THEOREM TypeCorrect == Spec => []TypeOK
<1>1. IInv => TypeOK
  BY DEF IInv
<1> QED
  BY <1>1, Inductive, PTL

(* quorum.go:27-30: no sequence of calls makes an accessor hand out zero.    *)
THEOREM FailClosed == Spec => []AccessorsFailClosed
<1>1. IInv => AccessorsFailClosed
  BY DEF IInv
<1> QED
  BY <1>1, Inductive, PTL

(* quorum.go:100-109: mustBeValid holds of exactly the constructed values.   *)
THEOREM ValidMeansConstructed == Spec => []OnlyConstructedValuesAreValid
<1>1. IInv => OnlyConstructedValuesAreValid
  <2> SUFFICES ASSUME IInv PROVE OnlyConstructedValuesAreValid
    OBVIOUS
  <2>1. params \in QuorumParameters /\ (Accepted => mustBeValid(params))
    BY DEF IInv, TypeOK
  <2>2. mustBeValid(params) => /\ params = Derive(params.validatorCount)
                               /\ ~OutOfRange(params.validatorCount)
                               /\ params.validatorCount = 3 * params.maxByzantine + 1
                               /\ params # ZeroParameters
    BY <2>1, ValidArithmetic
  <2> QED
    BY <2>1, <2>2 DEF OnlyConstructedValuesAreValid, Accepted
<1> QED
  BY <1>1, Inductive, PTL

(* quorum.go:93-98: two quorums of one validator set share at least          *)
(* MinimumQuorumIntersection = k members, one more than can be faulty,       *)
(* whatever the set.                                                         *)
THEOREM QuorumIntersection == Spec => []QuorumsIntersect
<1>1. IInv => QuorumsIntersect
  <2> SUFFICES ASSUME IInv, Accepted,
                      NEW V \in SUBSET Validators,
                      Cardinality(V) = params.validatorCount,
                      NEW A \in SUBSET V, NEW B \in SUBSET V,
                      Cardinality(A) >= params.quorum,
                      Cardinality(B) >= params.quorum
               PROVE  /\ Cardinality(A \cap B) >= MinimumQuorumIntersection(params)
                      /\ Cardinality(A \cap B) >= params.recoveryThreshold
                      /\ Cardinality(A \cap B) > params.maxByzantine
    BY DEF QuorumsIntersect
  <2>1. params \in QuorumParameters /\ mustBeValid(params)
    BY DEF IInv, TypeOK
  <2>2. IsFiniteSet(V) /\ IsFiniteSet(A) /\ IsFiniteSet(B)
    BY ValidatorsAssumption, FS_Subset
  <2>3. IsFiniteSet(A \cup B) /\ IsFiniteSet(A \cap B) /\ A \cup B \in SUBSET V
    BY <2>2, FS_Union, FS_Intersection
  <2>4. Cardinality(A \cup B) = Cardinality(A) + Cardinality(B) - Cardinality(A \cap B)
    BY <2>2, FS_Union
  <2>5. Cardinality(A \cup B) <= Cardinality(V)
    BY <2>2, <2>3, FS_Subset
  <2>6. /\ Cardinality(A) \in Nat /\ Cardinality(B) \in Nat
        /\ Cardinality(A \cap B) \in Nat /\ Cardinality(A \cup B) \in Nat
    BY <2>2, <2>3, FS_CardinalityType
  <2>7. /\ params.maxByzantine \in Nat
        /\ params.validatorCount = 3 * params.maxByzantine + 1
        /\ params.quorum = 2 * params.maxByzantine + 1
        /\ params.recoveryThreshold = params.maxByzantine + 1
        /\ MinimumQuorumIntersection(params) = params.maxByzantine + 1
    BY <2>1, ValidArithmetic
  <2> QED
    BY <2>4, <2>5, <2>6, <2>7
<1> QED
  BY <1>1, Inductive, PTL

(* quorum.go:79-91: the honest members form a quorum without the faulty ones, *)
(* and k honest members are in every quorum, whatever the set.               *)
THEOREM HonestQuorum == Spec => []HonestMembersSuffice
<1>1. IInv => HonestMembersSuffice
  <2> SUFFICES ASSUME IInv, Accepted,
                      NEW V \in SUBSET Validators,
                      Cardinality(V) = params.validatorCount,
                      NEW F \in SUBSET V,
                      Cardinality(F) <= params.maxByzantine
               PROVE  /\ Cardinality(V \ F) >= params.quorum
                      /\ \A A \in SUBSET V :
                            Cardinality(A) >= params.quorum =>
                                Cardinality(A \ F) >= params.recoveryThreshold
    BY DEF HonestMembersSuffice
  <2>1. /\ params.maxByzantine \in Nat
        /\ params.validatorCount = 3 * params.maxByzantine + 1
        /\ params.quorum = 2 * params.maxByzantine + 1
        /\ params.recoveryThreshold = params.maxByzantine + 1
    <3>1. params \in QuorumParameters /\ mustBeValid(params)
      BY DEF IInv, TypeOK
    <3> QED
      BY <3>1, ValidArithmetic
  <2>2. IsFiniteSet(V) /\ IsFiniteSet(F)
    BY ValidatorsAssumption, FS_Subset
  <2>3. ASSUME NEW A \in SUBSET V
        PROVE  /\ Cardinality(A) \in Nat /\ Cardinality(A \ F) \in Nat
               /\ Cardinality(A \ F) >= Cardinality(A) - params.maxByzantine
    <3>1. IsFiniteSet(A)
      BY <2>2, FS_Subset
    <3>2. IsFiniteSet(A \ F) /\ Cardinality(A \ F) = Cardinality(A) - Cardinality(A \cap F)
      BY <3>1, FS_Difference
    <3>3. IsFiniteSet(A \cap F) /\ Cardinality(A \cap F) <= Cardinality(F)
      BY <2>2, FS_Intersection
    <3>4. /\ Cardinality(A) \in Nat /\ Cardinality(A \ F) \in Nat
          /\ Cardinality(A \cap F) \in Nat /\ Cardinality(F) \in Nat
      BY <2>2, <3>1, <3>2, <3>3, FS_CardinalityType
    <3> QED
      BY <2>1, <3>2, <3>3, <3>4
  <2>4. Cardinality(V \ F) >= params.quorum
    <3>1. V \in SUBSET V
      OBVIOUS
    <3>2. /\ Cardinality(V) \in Nat /\ Cardinality(V \ F) \in Nat
          /\ Cardinality(V \ F) >= Cardinality(V) - params.maxByzantine
      BY <2>3, <3>1
    <3> QED
      BY <2>1, <3>2
  <2>5. ASSUME NEW A \in SUBSET V, Cardinality(A) >= params.quorum
        PROVE  Cardinality(A \ F) >= params.recoveryThreshold
    <3>1. /\ Cardinality(A) \in Nat /\ Cardinality(A \ F) \in Nat
          /\ Cardinality(A \ F) >= Cardinality(A) - params.maxByzantine
      BY <2>3
    <3> QED
      BY <2>1, <2>5, <3>1
  <2> QED
    BY <2>4, <2>5
<1> QED
  BY <1>1, Inductive, PTL
=============================================================================

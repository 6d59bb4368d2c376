---------------------------- MODULE QuorumParams ----------------------------
(***************************************************************************)
(* pkg/types/quorum.go: the validated n/f/q/k tuple of a FinalWeave v1     *)
(* validator set.                                                          *)
(*                                                                         *)
(* The state is one QuorumParameters value held by a caller, which starts  *)
(* as the Go zero value, is replaced by whatever NewQuorumParameters       *)
(* returns, and is read through the five accessors.                        *)
(***************************************************************************)
EXTENDS Integers, FiniteSets

CONSTANTS
    Counts,      \* the validator counts a caller may pass
    Validators   \* the identities that validator sets are drawn from

ASSUME CountsAssumption == Counts \subseteq Int
ASSUME ValidatorsAssumption == IsFiniteSet(Validators)

VARIABLES
    params,   \* the caller's QuorumParameters
    err,      \* the error of the last NewQuorumParameters call
    out       \* the outcome of the last accessor call

vars == <<params, err, out>>

MinValidatorCount == 4
MaxValidatorCount == 253

ErrValidatorCountOutOfRange == "out of range"
ErrValidatorCountNotThreeFPlusOne == "not 3f+1"

QuorumParameters ==
    [validatorCount: Int, maxByzantine: Int, quorum: Int, recoveryThreshold: Int]

ZeroParameters ==
    [validatorCount |-> 0, maxByzantine |-> 0, quorum |-> 0, recoveryThreshold |-> 0]

-----------------------------------------------------------------------------
(* The constructor. *)

OutOfRange(n) == n < MinValidatorCount \/ n > MaxValidatorCount

NotThreeFPlusOne(n) == (n - 1) % 3 # 0

(* Faulty variants, against which the properties are tested: a quorum of a  *)
(* bare majority, a fault bound rounded up.                                 *)
DeriveMajority(n) ==
    LET f == (n - 1) \div 3
    IN  [validatorCount |-> n, maxByzantine |-> f,
         quorum |-> n \div 2, recoveryThreshold |-> f + 1]

DeriveRoundedUp(n) ==
    LET f == (n + 2) \div 3
    IN  [validatorCount |-> n, maxByzantine |-> f,
         quorum |-> 2 * f + 1, recoveryThreshold |-> f + 1]

Derive(n) ==
    LET f == (n - 1) \div 3
    IN  [validatorCount |-> n, maxByzantine |-> f,
         quorum |-> 2 * f + 1, recoveryThreshold |-> f + 1]

NewQuorumParameters(n) ==
    /\ \/ /\ OutOfRange(n)
          /\ params' = ZeroParameters
          /\ err' = ErrValidatorCountOutOfRange
       \/ /\ ~OutOfRange(n) /\ NotThreeFPlusOne(n)
          /\ params' = ZeroParameters
          /\ err' = ErrValidatorCountNotThreeFPlusOne
       \/ /\ ~OutOfRange(n) /\ ~NotThreeFPlusOne(n)
          /\ params' = Derive(n)
          /\ err' = "nil"
    /\ UNCHANGED out

-----------------------------------------------------------------------------
(* The accessors: a threshold, or a panic on a value that is not valid. *)

mustBeValidNoMinimum(p) ==   \* a faulty variant: relations without the bounds
    /\ p.quorum <= 2 * p.maxByzantine + 1
    /\ p.recoveryThreshold <= p.maxByzantine + 1

mustBeValid(p) ==
    /\ p.validatorCount >= MinValidatorCount
    /\ p.validatorCount <= MaxValidatorCount
    /\ (p.validatorCount - 1) % 3 = 0
    /\ p.maxByzantine = (p.validatorCount - 1) \div 3
    /\ p.quorum = 2 * p.maxByzantine + 1
    /\ p.recoveryThreshold = p.maxByzantine + 1

MinimumQuorumIntersection(p) == 2 * p.quorum - p.validatorCount

Accessors == {"ValidatorCount", "MaxByzantine", "Quorum", "RecoveryThreshold",
              "MinimumQuorumIntersection"}

Read(a, p) ==
    CASE a = "ValidatorCount"            -> p.validatorCount
      [] a = "MaxByzantine"              -> p.maxByzantine
      [] a = "Quorum"                    -> p.quorum
      [] a = "RecoveryThreshold"         -> p.recoveryThreshold
      [] a = "MinimumQuorumIntersection" -> MinimumQuorumIntersection(p)

Panic == [panic |-> TRUE, value |-> 0]

Access(a) ==
    /\ out' = IF mustBeValid(params)
              THEN [panic |-> FALSE, value |-> Read(a, params)]
              ELSE Panic
    /\ UNCHANGED <<params, err>>

-----------------------------------------------------------------------------

Init == /\ params = ZeroParameters
        /\ err = "nil"
        /\ out = Panic

Next == \/ \E n \in Counts : NewQuorumParameters(n)
        \/ \E a \in Accessors : Access(a)

Spec == Init /\ [][Next]_vars

-----------------------------------------------------------------------------
(* Properties. *)

Accepted == params # ZeroParameters   \* the last constructor call succeeded

(* quorum.go:31-36: the fields stay integers, the error is one of the two    *)
(* sentinels, and an accessor outcome is a panic or an integer.              *)
TypeOK ==
    /\ params \in QuorumParameters
    /\ err \in {"nil", ErrValidatorCountOutOfRange, ErrValidatorCountNotThreeFPlusOne}
    /\ out \in [panic: BOOLEAN, value: Int]

(* quorum.go:27-30, "Every accessor panics on an invalid value instead of     *)
(* returning fail-open thresholds": a value that passes mustBeValid is        *)
(* exactly one the constructor derives for its own validator count, and the   *)
(* zero value is never one.                                                   *)
OnlyConstructedValuesAreValid ==
    /\ mustBeValid(params) <=> params # ZeroParameters
    /\ mustBeValid(params) =>
          /\ params = Derive(params.validatorCount)
          /\ ~OutOfRange(params.validatorCount)
          /\ params.validatorCount = 3 * params.maxByzantine + 1

(* quorum.go:28-30: whatever sequence of constructor calls came before, no     *)
(* accessor ever hands out a threshold of zero, which every set would meet.   *)
AccessorsFailClosed == ~out.panic => out.value > 0

(* quorum.go:93-94: in every validator set of the accepted size, any two sets *)
(* of q members share at least MinimumQuorumIntersection members, which is    *)
(* the recovery threshold k, so they share a member outside any f faulty      *)
(* ones.                                                                      *)
QuorumsIntersect ==
    Accepted =>
        \A V \in SUBSET Validators :
            Cardinality(V) = params.validatorCount =>
                \A A, B \in SUBSET V :
                    /\ Cardinality(A) >= params.quorum
                    /\ Cardinality(B) >= params.quorum
                    => /\ Cardinality(A \cap B) >= MinimumQuorumIntersection(params)
                       /\ Cardinality(A \cap B) >= params.recoveryThreshold
                       /\ Cardinality(A \cap B) > params.maxByzantine

(* quorum.go:79-91: with at most f members faulty, the others can form a      *)
(* quorum on their own, and every quorum holds at least k members that are    *)
(* not faulty: enough to reconstruct a batch from their fragments alone.      *)
HonestMembersSuffice ==
    Accepted =>
        \A V \in SUBSET Validators :
            Cardinality(V) = params.validatorCount =>
                \A F \in SUBSET V :
                    Cardinality(F) <= params.maxByzantine =>
                        /\ Cardinality(V \ F) >= params.quorum
                        /\ \A A \in SUBSET V :
                              Cardinality(A) >= params.quorum =>
                                  Cardinality(A \ F) >= params.recoveryThreshold
=============================================================================

-------------------------- MODULE GrpcRequestProofs -------------------------
(***************************************************************************)
(* The gRPC interceptors, proved for any number of requests, any metadata  *)
(* and any word size.  Every step is, for the health service, a step of    *)
(* HealthBridge, so what is proved of the bridge holds around requests.    *)
(*                                                                         *)
(* metadataSize is a loop.  Its recursion equation, and what it computes,  *)
(* are proved by induction over a set of numbers (Induction).              *)
(***************************************************************************)
EXTENDS GrpcRequest, HealthBridgeProofs, WellFoundedInduction

-----------------------------------------------------------------------------
(* The metadata budget. *)

(* A set that holds 0 and with each number the next holds every number. *)
LEMMA Induction ==
    ASSUME NEW S, 0 \in S, \A n \in Nat : n \in S => n + 1 \in S
    PROVE  Nat \subseteq S
<1> DEFINE T == Nat \ S
<1> SUFFICES ASSUME T # {} PROVE FALSE
    OBVIOUS
<1> DEFINE smaller == OpToRel(<, Nat)
<1>1. \A x, y \in Nat : y < x => <<y, x>> \in smaller
    BY Zenon DEF OpToRel
<1>2. IsWellFoundedOn(smaller, Nat)
    BY NatLessThanWellFounded, Zenon
<1> HIDE DEF smaller
<1>3. PICK x \in T : \A y \in T : ~(<<y, x>> \in smaller)
    BY <1>2, WFMin
<1>4. x - 1 \in Nat /\ x - 1 \notin S /\ x - 1 < x
    OBVIOUS
<1> QED
    BY <1>1, <1>3, <1>4

LEMMA WordFacts ==
    /\ WordSize \in Nat /\ WordSize > 32 /\ 0 \in Word /\ 32 \in Word
    /\ MetadataLimit \in Nat /\ MetadataLimit < WordSize - 1
<1>1. WordSize \in Nat /\ 32 \in Word /\ MetadataLimit \in 0..(WordSize - 2)
    BY RequestAssumption
<1> QED
    BY <1>1 DEF Word

(* interceptors.go:228-234: the sum if the word holds it, or the last word.  *)
LEMMA SaturatingSum ==
    ASSUME NEW left \in Word, NEW right \in Word
    PROVE  saturatingAdd(left, right) =
               IF left + right < WordSize THEN left + right ELSE WordSize - 1
BY WordFacts DEF saturatingAdd, Word

LEMMA FieldSum ==
    ASSUME NEW field \in Field
    PROVE  /\ fieldSize(field) \in Word
           /\ \/ fieldSize(field) = field.key + field.value + 32
              \/ /\ fieldSize(field) = WordSize - 1
                 /\ field.key + field.value + 32 >= WordSize
<1>1. field.key \in Word /\ field.value \in Word /\ 32 \in Word /\ WordSize \in Nat
    BY WordFacts DEF Field
<1> DEFINE both == saturatingAdd(field.key, field.value)
<1>2. both = IF field.key + field.value < WordSize THEN field.key + field.value ELSE WordSize - 1
    BY <1>1, SaturatingSum
<1>3. both \in Word
    BY <1>1, <1>2 DEF Word
<1>4. fieldSize(field) = saturatingAdd(both, 32)
    BY DEF fieldSize
<1> HIDE DEF both
<1>5. fieldSize(field) = IF both + 32 < WordSize THEN both + 32 ELSE WordSize - 1
    BY <1>1, <1>3, <1>4, SaturatingSum
<1> QED
    BY <1>1, <1>2, <1>3, <1>5 DEF Word

(* One turn of the loop: sizes that are exact or saturated stay so. *)
LEMMA ExactOrSaturated ==
    ASSUME NEW size \in Word, NEW sum \in Nat, NEW field \in Word, NEW k \in Nat, NEW next,
           size = sum \/ (size = WordSize - 1 /\ sum >= WordSize - 1),
           field = k \/ (field = WordSize - 1 /\ k >= WordSize),
           next = IF size + field < WordSize THEN size + field ELSE WordSize - 1
    PROVE  /\ next \in Word /\ sum + k \in Nat
           /\ next = sum + k \/ (next = WordSize - 1 /\ sum + k >= WordSize - 1)
BY WordFacts DEF Word

(* The loop of metadataSize is the function its definition describes. *)
LEMMA SizeEquation ==
    ASSUME NEW m, Len(m) \in Nat
    PROVE  \E size :
               /\ size = [i \in 0..Len(m) |->
                             IF i = 0 THEN 0 ELSE saturatingAdd(size[i - 1], fieldSize(m[i]))]
               /\ metadataSize(m) = size[Len(m)]
<1> DEFINE Loop(n, f) ==
               f = [i \in 0..n |->
                       IF i = 0 THEN 0 ELSE saturatingAdd(f[i - 1], fieldSize(m[i]))]
           S == {n \in Nat : \E f : Loop(n, f)}
<1>1. 0 \in S
    <2>1. Loop(0, [i \in 0..0 |-> 0])
        OBVIOUS
    <2> QED
        BY <2>1
<1>2. ASSUME NEW n \in Nat, n \in S PROVE n + 1 \in S
    <2>1. PICK f : Loop(n, f)
        BY <1>2
    <2> DEFINE g == [i \in 0..(n + 1) |->
                        IF i \in 0..n THEN f[i] ELSE saturatingAdd(f[n], fieldSize(m[n + 1]))]
    <2>2. \A i \in 0..n : f[i] = IF i = 0 THEN 0 ELSE saturatingAdd(f[i - 1], fieldSize(m[i]))
        BY <2>1
    <2>3. ASSUME NEW i \in 0..(n + 1)
          PROVE  g[i] = IF i = 0 THEN 0 ELSE saturatingAdd(g[i - 1], fieldSize(m[i]))
        <3>1. CASE i \in 0..n
            BY <2>2, <3>1
        <3>2. CASE i = n + 1
            BY <3>2
        <3> QED
            BY <3>1, <3>2
    <2> HIDE DEF g
    <2>4. Loop(n + 1, g)
        BY <2>3 DEF g
    <2> QED
        BY <2>4
<1> HIDE DEF S
<1>3. Nat \subseteq S
    BY <1>1, <1>2, Induction
<1>4. \E f : Loop(Len(m), f)
    BY <1>3 DEF S
<1> DEFINE size == CHOOSE f : Loop(Len(m), f)
<1>5. Loop(Len(m), size)
    BY <1>4
<1>6. metadataSize(m) = size[Len(m)]
    BY DEF metadataSize
<1> QED
    BY <1>5, <1>6

LEMMA SumEquation ==
    ASSUME NEW m, Len(m) \in Nat
    PROVE  \E sum :
               /\ sum = [i \in 0..Len(m) |->
                            IF i = 0 THEN 0 ELSE sum[i - 1] + m[i].key + m[i].value + 32]
               /\ SumOfFields(m) = sum[Len(m)]
<1> DEFINE Loop(n, f) ==
               f = [i \in 0..n |-> IF i = 0 THEN 0 ELSE f[i - 1] + m[i].key + m[i].value + 32]
           S == {n \in Nat : \E f : Loop(n, f)}
<1>1. 0 \in S
    <2>1. Loop(0, [i \in 0..0 |-> 0])
        OBVIOUS
    <2> QED
        BY <2>1
<1>2. ASSUME NEW n \in Nat, n \in S PROVE n + 1 \in S
    <2>1. PICK f : Loop(n, f)
        BY <1>2
    <2> DEFINE g == [i \in 0..(n + 1) |->
                        IF i \in 0..n THEN f[i] ELSE f[n] + m[n + 1].key + m[n + 1].value + 32]
    <2>2. \A i \in 0..n : f[i] = IF i = 0 THEN 0 ELSE f[i - 1] + m[i].key + m[i].value + 32
        BY <2>1
    <2>3. ASSUME NEW i \in 0..(n + 1)
          PROVE  g[i] = IF i = 0 THEN 0 ELSE g[i - 1] + m[i].key + m[i].value + 32
        <3>1. CASE i \in 0..n
            BY <2>2, <3>1
        <3>2. CASE i = n + 1
            BY <3>2
        <3> QED
            BY <3>1, <3>2
    <2> HIDE DEF g
    <2>4. Loop(n + 1, g)
        BY <2>3 DEF g
    <2> QED
        BY <2>4
<1> HIDE DEF S
<1>3. Nat \subseteq S
    BY <1>1, <1>2, Induction
<1>4. \E f : Loop(Len(m), f)
    BY <1>3 DEF S
<1> DEFINE sum == CHOOSE f : Loop(Len(m), f)
<1>5. Loop(Len(m), sum)
    BY <1>4
<1>6. SumOfFields(m) = sum[Len(m)]
    BY DEF SumOfFields
<1> QED
    BY <1>5, <1>6

(* interceptors.go:209-234: whatever the metadata, the size is a word, and   *)
(* it is the sum of the fields counted without any word size, or both are    *)
(* beyond every limit: a sum that wraps is never taken for a small one.      *)
THEOREM SizeIsExactOrSaturated ==
    ASSUME NEW m \in Seq(Field)
    PROVE  /\ metadataSize(m) \in Word
           /\ SumOfFields(m) \in Nat
           /\ \/ metadataSize(m) = SumOfFields(m)
              \/ metadataSize(m) = WordSize - 1 /\ SumOfFields(m) >= WordSize - 1
<1>1. Len(m) \in Nat /\ \A i \in 1..Len(m) : m[i] \in Field
    OBVIOUS
<1>2. PICK size :
          /\ size = [i \in 0..Len(m) |->
                        IF i = 0 THEN 0 ELSE saturatingAdd(size[i - 1], fieldSize(m[i]))]
          /\ metadataSize(m) = size[Len(m)]
    BY <1>1, SizeEquation
<1>3. PICK sum :
          /\ sum = [i \in 0..Len(m) |->
                       IF i = 0 THEN 0 ELSE sum[i - 1] + m[i].key + m[i].value + 32]
          /\ SumOfFields(m) = sum[Len(m)]
    BY <1>1, SumEquation
<1> DEFINE Agree(i) == /\ size[i] \in Word /\ sum[i] \in Nat
                       /\ size[i] = sum[i] \/ (size[i] = WordSize - 1 /\ sum[i] >= WordSize - 1)
           S == {n \in Nat : n \in 0..Len(m) => Agree(n)}
<1>4. 0 \in S
    <2>1. size[0] = 0 /\ sum[0] = 0
        BY <1>1, <1>2, <1>3
    <2> QED
        BY <2>1, WordFacts
<1>5. ASSUME NEW n \in Nat, n \in S PROVE n + 1 \in S
    <2> SUFFICES ASSUME n + 1 \in 0..Len(m) PROVE Agree(n + 1)
        OBVIOUS
    <2>0. n \in 0..Len(m) /\ n + 1 \in 1..Len(m) /\ n + 1 # 0 /\ (n + 1) - 1 = n
        BY <1>1
    <2> DEFINE f == m[n + 1]
    <2>1. Agree(n) /\ f \in Field
        BY <1>1, <1>5, <2>0
    <2>2. size[n + 1] = saturatingAdd(size[n], fieldSize(f))
        BY <1>2, <2>0
    <2>3. sum[n + 1] = sum[n] + f.key + f.value + 32
        BY <1>3, <2>0
    <2> HIDE DEF f
    <2>4. f.key \in Nat /\ f.value \in Nat
        BY <2>1 DEF Field, Word
    <2>5. PICK k \in Nat : k = f.key + f.value + 32
        BY <2>4
    <2>6. sum[n + 1] = sum[n] + k
        BY <2>1, <2>3, <2>4, <2>5
    <2>7. /\ fieldSize(f) \in Word
          /\ fieldSize(f) = k \/ (fieldSize(f) = WordSize - 1 /\ k >= WordSize)
        BY <2>1, <2>5, FieldSum
    <2>8. size[n + 1] = IF size[n] + fieldSize(f) < WordSize THEN size[n] + fieldSize(f)
                        ELSE WordSize - 1
        BY <2>1, <2>2, <2>7, SaturatingSum
    <2> QED
        <3>1. PICK a, b, c, t : a = size[n] /\ b = fieldSize(f) /\ c = size[n + 1] /\ t = sum[n]
            OBVIOUS
        <3>2. /\ a \in Word /\ t \in Nat /\ (a = t \/ (a = WordSize - 1 /\ t >= WordSize - 1))
              /\ b \in Word /\ (b = k \/ (b = WordSize - 1 /\ k >= WordSize))
            BY <2>1, <2>7, <3>1
        <3>3. c = IF a + b < WordSize THEN a + b ELSE WordSize - 1
            BY <2>8, <3>1
        <3>4. /\ c \in Word /\ t + k \in Nat
              /\ c = t + k \/ (c = WordSize - 1 /\ t + k >= WordSize - 1)
            BY <3>2, <3>3, ExactOrSaturated
        <3> QED
            BY <2>6, <3>1, <3>4
<1> HIDE DEF S
<1>6. Nat \subseteq S
    BY <1>4, <1>5, Induction
<1>7. Agree(Len(m))
    BY <1>1, <1>6 DEF S
<1> QED
    BY <1>2, <1>3, <1>7

(* What the limit decides on is what the fields amount to. *)
LEMMA WithinBudget ==
    ASSUME NEW m \in Seq(Field), metadataSize(m) <= MetadataLimit
    PROVE  SumOfFields(m) <= MetadataLimit
BY WordFacts, SizeIsExactOrSaturated DEF Word

-----------------------------------------------------------------------------
(* Types, and which requests refresh the health service. *)

Errs       == Codes \cup ContextErrors
EndReasons == {"Canceled", "DeadlineExceeded"}
Ids        == {"unset", "client"} \cup Nat

CallTypeOK ==
    /\ root \in BOOLEAN
    /\ watchRoot \subseteq Requests /\ firing \subseteq Requests
    /\ rpc \in [Requests -> RequestPCs]
    /\ context \in [Requests -> {"live"} \cup EndReasons]
    /\ fields \in [Requests -> Seq(Field)]
    /\ id \in [Requests -> Ids] /\ requestIDs \in Nat
    /\ err \in [Requests -> Errs]
    /\ records = [r \in Requests |-> records[r]]
    /\ answer \in [Requests -> {"none"} \cup Codes]
    /\ late \subseteq Requests /\ handled \subseteq Requests
    /\ panicked \subseteq Requests /\ overran \subseteq Requests

RefreshInv == \A r \in Requests : rpc[r] \in {"refresh", "publish"} => r \in HealthRequests

(* A context ends once, and stays ended. *)
LEMMA ContextEnds ==
    ASSUME CallTypeOK, NEW r \in Requests, NEW reason \in EndReasons, EndContext(r, reason)
    PROVE  /\ context' \in [Requests -> {"live"} \cup EndReasons]
           /\ Ended(r)' /\ (Ended(r) => context'[r] = context[r])
           /\ \A q \in Requests : q # r => context'[q] = context[q]
<1>1. context \in [Requests -> {"live"} \cup EndReasons] /\ reason # "live"
    BY DEF CallTypeOK, EndReasons
<1> QED
    BY <1>1 DEF EndContext, Ended

LEMMA KnownReasons == "Canceled" \in EndReasons /\ "DeadlineExceeded" \in EndReasons
BY DEF EndReasons

LEMMA Identifiers ==
    ASSUME CallTypeOK, NEW r \in Requests, requestIDFromMetadata(r)
    PROVE  /\ id' \in [Requests -> Ids] /\ requestIDs' \in Nat
           /\ \A q \in Requests : q # r => id'[q] = id[q]
<1>1. CASE r \in Identified
    BY <1>1 DEF requestIDFromMetadata, acceptedRequestID, CallTypeOK, Ids
<1>2. CASE r \notin Identified
    <2>1. requestIDs + 1 \in Ids /\ requestIDs + 1 \in Nat
        BY DEF CallTypeOK, Ids
    <2> QED
        BY <1>2, <2>1 DEF requestIDFromMetadata, acceptedRequestID, CallTypeOK
<1> QED
    BY <1>1, <1>2

(* What grpc-go answers, and that it answers OK only where err is nil. *)
LEMMA Answered ==
    ASSUME CallTypeOK, NEW r \in Requests, GrpcAnswers(r)
    PROVE  \E c \in Codes : answer' = [answer EXCEPT ![r] = c] /\ (c = "OK" => err[r] = "OK")
<1>1. CASE answer' = [answer EXCEPT ![r] = FromError(err[r])]
    <2>1. err[r] \in Errs
        BY DEF CallTypeOK
    <2>2. FromError(err[r]) \in Codes /\ (FromError(err[r]) = "OK" => err[r] = "OK")
        BY <2>1 DEF FromError, Errs, Codes, ContextErrors
    <2> QED
        BY <1>1, <2>2
<1>2. CASE \E c \in {"ResourceExhausted", "Internal"} : answer' = [answer EXCEPT ![r] = c]
    BY <1>2 DEF Codes
<1> QED
    BY <1>1, <1>2 DEF GrpcAnswers

LEMMA CallTypeStep == CallTypeOK /\ [RequestNext]_allVars => CallTypeOK'
<1> SUFFICES ASSUME CallTypeOK, [RequestNext]_allVars PROVE CallTypeOK'
    OBVIOUS
<1> USE DEF rootVars, callVars, outVars, historyVars
<1>1. CASE UNCHANGED requestVars
    BY <1>1 DEF requestVars, CallTypeOK
<1>2. CASE CancelRoot
    BY <1>2 DEF CancelRoot, CallTypeOK
<1>3. ASSUME NEW r \in Requests, Arrive(r) PROVE CallTypeOK'
    <2>1. id' \in [Requests -> Ids] /\ requestIDs' \in Nat
        BY <1>3, Identifiers DEF Arrive
    <2>2. rpc' \in [Requests -> RequestPCs]
        BY <1>3 DEF Arrive, CallTypeOK, RequestPCs
    <2>3. watchRoot' \subseteq Requests /\ firing' \subseteq Requests /\ late' \subseteq Requests
        BY <1>3 DEF Arrive, CallTypeOK
    <2> QED
        BY <1>3, <2>1, <2>2, <2>3 DEF Arrive, CallTypeOK
<1>4. ASSUME NEW r \in Requests, CheckRoot(r) PROVE CallTypeOK'
    <2>1. context' \in [Requests -> {"live"} \cup EndReasons]
        BY <1>4, KnownReasons, ContextEnds DEF CheckRoot, CallTypeOK
    <2>2. rpc' \in [Requests -> RequestPCs]
        BY <1>4 DEF CheckRoot, CallTypeOK, RequestPCs
    <2> QED
        BY <1>4, <2>1, <2>2 DEF CheckRoot, CallTypeOK
<1>5. ASSUME NEW r \in Requests, SetHeader(r) PROVE CallTypeOK'
    <2>1. fields' \in [Requests -> Seq(Field)]
        BY <1>5, RequestAssumption DEF SetHeader, CallTypeOK
    <2>2. rpc' \in [Requests -> RequestPCs]
        BY <1>5 DEF SetHeader, Reject, CallTypeOK, RequestPCs
    <2>3. err' \in [Requests -> Errs]
        BY <1>5 DEF SetHeader, Reject, CallTypeOK, Errs, Codes
    <2> QED
        BY <1>5, <2>1, <2>2, <2>3 DEF SetHeader, CallTypeOK
<1>6. ASSUME NEW r \in Requests, InterceptorLoad(r) \/ InterceptorPublish(r) PROVE CallTypeOK'
    BY <1>6 DEF InterceptorLoad, InterceptorPublish, CallTypeOK, RequestPCs
<1>7. ASSUME NEW r \in Requests, CheckContext(r) PROVE CallTypeOK'
    <2>1. err' \in [Requests -> Errs]
        BY <1>7 DEF CheckContext, Reject, Ended, CallTypeOK, Errs, Codes, EndReasons
    <2>2. rpc' \in [Requests -> RequestPCs] /\ handled' \subseteq Requests
        BY <1>7 DEF CheckContext, Reject, CallTypeOK, RequestPCs
    <2> QED
        BY <1>7, <2>1, <2>2 DEF CheckContext, CallTypeOK
<1>8. ASSUME NEW r \in Requests, HandlerReturns(r) PROVE CallTypeOK'
    <2>1. err' \in [Requests -> Errs]
        BY <1>8 DEF HandlerReturns, CallTypeOK, Errs, Codes, ContextErrors
    <2>2. rpc' \in [Requests -> RequestPCs] /\ overran' \subseteq Requests
        BY <1>8 DEF HandlerReturns, CallTypeOK, RequestPCs
    <2> QED
        BY <1>8, <2>1, <2>2 DEF HandlerReturns, CallTypeOK
<1>9. ASSUME NEW r \in Requests, HandlerPanics(r) PROVE CallTypeOK'
    BY <1>9 DEF HandlerPanics, CallTypeOK, RequestPCs
<1>10. ASSUME NEW r \in Requests, Recheck(r) PROVE CallTypeOK'
    <2>1. err' \in [Requests -> Errs]
        BY <1>10 DEF Recheck, Ended, CallTypeOK, Errs, Codes, EndReasons
    <2> QED
        BY <1>10, <2>1 DEF Recheck, CallTypeOK, RequestPCs
<1>11. ASSUME NEW r \in Requests, Deferred(r) PROVE CallTypeOK'
    <2>1. err' \in [Requests -> Errs]
        BY <1>11 DEF Deferred, CallTypeOK, Errs, Codes
    <2>2. records' = [q \in Requests |-> records'[q]]
        BY <1>11 DEF Deferred, CallTypeOK
    <2>3. rpc' \in [Requests -> RequestPCs]
        BY <1>11 DEF Deferred, CallTypeOK, RequestPCs
    <2> QED
        BY <1>11, <2>1, <2>2, <2>3 DEF Deferred, CallTypeOK
<1>12. ASSUME NEW r \in Requests, Cleanup(r) PROVE CallTypeOK'
    <2>1. context' \in [Requests -> {"live"} \cup EndReasons]
        BY <1>12, KnownReasons, ContextEnds DEF Cleanup
    <2> QED
        BY <1>12, <2>1 DEF Cleanup, CallTypeOK, RequestPCs
<1>13. ASSUME NEW r \in Requests, AfterFuncRuns(r) \/ TimeoutExpires(r) \/ ClientLeaves(r)
       PROVE  CallTypeOK'
    <2>1. PICK reason \in EndReasons : EndContext(r, reason)
        BY <1>13, KnownReasons DEF AfterFuncRuns, TimeoutExpires, ClientLeaves
    <2>2. context' \in [Requests -> {"live"} \cup EndReasons]
        BY <2>1, ContextEnds
    <2> QED
        BY <1>13, <2>2 DEF AfterFuncRuns, TimeoutExpires, ClientLeaves, CallTypeOK
<1>14. ASSUME NEW r \in Requests, GrpcAnswers(r) PROVE CallTypeOK'
    <2>1. PICK c \in Codes : answer' = [answer EXCEPT ![r] = c]
        BY <1>14, Answered
    <2>2. answer' \in [Requests -> {"none"} \cup Codes]
        BY <2>1 DEF CallTypeOK
    <2> QED
        BY <1>14, <2>2 DEF GrpcAnswers, CallTypeOK
<1> QED
    BY <1>1, <1>2, <1>3, <1>4, <1>5, <1>6, <1>7, <1>8, <1>9, <1>10, <1>11, <1>12, <1>13, <1>14
    DEF RequestNext, BridgeMoves, Interceptor, HandlerEnds, allVars

LEMMA RefreshStep == CallTypeOK /\ RefreshInv /\ [RequestNext]_allVars => RefreshInv'
<1> SUFFICES ASSUME CallTypeOK, RefreshInv, [RequestNext]_allVars PROVE RefreshInv'
    OBVIOUS
<1>1. CASE rpc' = rpc
    BY <1>1 DEF RefreshInv
<1>2. ASSUME NEW r \in Requests, NEW l, rpc' = [rpc EXCEPT ![r] = l],
             l \in {"refresh", "publish"} => r \in HealthRequests
      PROVE  RefreshInv'
    BY <1>2 DEF RefreshInv, CallTypeOK
<1>3. ASSUME NEW r \in Requests, SetHeader(r) PROVE RefreshInv'
    BY <1>2, <1>3 DEF SetHeader, Reject
<1>4. ASSUME NEW r \in Requests, InterceptorLoad(r) PROVE RefreshInv'
    <2>1. r \in HealthRequests
        BY <1>4 DEF InterceptorLoad, RefreshInv
    <2> QED
        BY <1>2, <1>4, <2>1 DEF InterceptorLoad
<1>5. ASSUME NEW r \in Requests, Arrive(r) \/ CheckRoot(r) \/ InterceptorPublish(r) PROVE RefreshInv'
    BY <1>2, <1>5 DEF Arrive, CheckRoot, InterceptorPublish
<1>6. ASSUME NEW r \in Requests, CheckContext(r) \/ HandlerEnds(r) PROVE RefreshInv'
    <2>1. \E l \in {"deferred", "handler", "recheck"} : rpc' = [rpc EXCEPT ![r] = l]
        BY <1>6 DEF CheckContext, Reject, HandlerEnds, HandlerReturns, HandlerPanics
    <2> QED
        BY <1>2, <2>1
<1>7. ASSUME NEW r \in Requests, Recheck(r) \/ Deferred(r) \/ Cleanup(r) PROVE RefreshInv'
    BY <1>2, <1>7 DEF Recheck, Deferred, Cleanup
<1>8. ASSUME NEW r \in Requests, AfterFuncRuns(r) \/ TimeoutExpires(r) \/ ClientLeaves(r)
      PROVE  RefreshInv'
    BY <1>1, <1>8 DEF AfterFuncRuns, TimeoutExpires, ClientLeaves
<1>9. CASE CancelRoot \/ UNCHANGED requestVars
    BY <1>1, <1>9 DEF CancelRoot, requestVars
<1>10. ASSUME NEW r \in Requests, GrpcAnswers(r) PROVE RefreshInv'
    BY <1>1, <1>10 DEF GrpcAnswers
<1> QED
    BY <1>3, <1>4, <1>5, <1>6, <1>7, <1>8, <1>9, <1>10
    DEF RequestNext, BridgeMoves, Interceptor, allVars

LEMMA CallInit == RequestInit => CallTypeOK /\ RefreshInv
<1> SUFFICES ASSUME RequestInit PROVE CallTypeOK /\ RefreshInv
    OBVIOUS
<1>1. fields \in [Requests -> Seq(Field)]
    BY DEF RequestInit
<1>2. id \in [Requests -> Ids] /\ requestIDs \in Nat
    BY DEF RequestInit, Ids
<1>3. err \in [Requests -> Errs] /\ rpc \in [Requests -> RequestPCs]
    BY DEF RequestInit, Errs, Codes, RequestPCs
<1>4. CallTypeOK
    BY <1>1, <1>2, <1>3 DEF RequestInit, CallTypeOK
<1>5. RefreshInv
    BY DEF RequestInit, RefreshInv
<1> QED
    BY <1>4, <1>5

LEMMA CallTypeCorrect == RequestSpec => [](CallTypeOK /\ RefreshInv)
BY CallInit, CallTypeStep, RefreshStep, PTL DEF RequestSpec

(* interceptors.go:80-82 and 128-130: what interceptors, requests and the    *)
(* owner do around the health service is a behaviour of HealthBridge, so its *)
(* theorems hold for it.                                                     *)
THEOREM InterceptorsUseBridge == RequestSpec => HealthSpec
<1>1. ASSUME RefreshInv, [RequestNext]_allVars PROVE [HealthNext]_healthVars
    <2>1. HealthRequests \subseteq Callers
        BY RequestAssumption
    <2>2. CASE UNCHANGED healthVars
        BY <2>2
    <2>3. CASE BridgeMoves
        BY <2>3 DEF BridgeMoves, HealthNext, HealthStep
    <2>4. ASSUME NEW r \in Requests, InterceptorLoad(r) PROVE HealthNext
        <3>1. r \in Callers /\ RefreshLoad(r)
            BY <1>1, <2>1, <2>4 DEF InterceptorLoad, RefreshInv
        <3> QED
            BY <3>1 DEF HealthNext, HealthStep, Refresh
    <2>5. ASSUME NEW r \in Requests, InterceptorPublish(r) PROVE HealthNext
        <3>1. r \in Callers /\ RefreshPublish(r)
            BY <1>1, <2>1, <2>5 DEF InterceptorPublish, RefreshInv
        <3> QED
            BY <3>1 DEF HealthNext, HealthStep, Refresh
    <2>6. ASSUME NEW r \in Requests,
                 Arrive(r) \/ CheckRoot(r) \/ SetHeader(r) \/ CheckContext(r)
          PROVE  UNCHANGED healthVars
        BY <2>6 DEF Arrive, CheckRoot, SetHeader, CheckContext
    <2>7. ASSUME NEW r \in Requests, HandlerEnds(r) \/ Recheck(r) \/ Deferred(r) \/ Cleanup(r)
          PROVE  UNCHANGED healthVars
        BY <2>7 DEF HandlerEnds, HandlerReturns, HandlerPanics, Recheck, Deferred, Cleanup
    <2>8. ASSUME NEW r \in Requests, AfterFuncRuns(r) \/ TimeoutExpires(r) \/ ClientLeaves(r)
          PROVE  UNCHANGED healthVars
        BY <2>8 DEF AfterFuncRuns, TimeoutExpires, ClientLeaves
    <2>11. ASSUME NEW r \in Requests, GrpcAnswers(r) PROVE UNCHANGED healthVars
        BY <2>11 DEF GrpcAnswers
    <2>9. CASE CancelRoot
        BY <2>9 DEF CancelRoot
    <2>10. CASE UNCHANGED allVars
        BY <2>2, <2>10 DEF allVars
    <2> QED
        BY <1>1, <2>3, <2>4, <2>5, <2>6, <2>7, <2>8, <2>9, <2>10, <2>11 DEF RequestNext, Interceptor
<1>2. RequestInit => HealthInit
    BY DEF RequestInit
<1> QED
    BY <1>1, <1>2, CallTypeCorrect, PTL DEF RequestSpec, HealthSpec

(* interceptors.go:36-43 and 45-69: whatever the requests carry and their    *)
(* handlers do, the state of the interceptors keeps its types.               *)
THEOREM RequestTypeCorrect == RequestSpec => []RequestTypeOK
<1>1. CallTypeOK /\ HealthTypeOK => RequestTypeOK
    <2> SUFFICES ASSUME CallTypeOK, HealthTypeOK PROVE RequestTypeOK
        OBVIOUS
    <2>2. {"live"} \cup EndReasons = {"live", "Canceled", "DeadlineExceeded"}
        BY DEF EndReasons
    <2>3. late \cup handled \cup panicked \cup overran \subseteq Requests
        BY DEF CallTypeOK
    <2> QED
        BY <2>2, <2>3 DEF CallTypeOK, RequestTypeOK, Errs
<1> QED
    BY <1>1, CallTypeCorrect, InterceptorsUseBridge, HealthTypeCorrect, PTL

-----------------------------------------------------------------------------
(* What is true of a request at each point of its way. *)

AfterHandler == {"recheck", "deferred", "cleanup", "done"}
Leaving      == {"deferred", "cleanup", "done"}

Trail(r) == (IF r \in panicked THEN <<logPanic(r)>> ELSE <<>>) \o <<logCompletion(r, err[r])>>

(* A request that came too late has its context ended by root.Err itself. *)
RootInv(r) ==
    r \in late => /\ root /\ r \notin handled
                  /\ rpc[r] \notin {"idle", "root check"} => Ended(r)

PlaceInv(r) ==
    /\ r \in handled  => rpc[r] \in {"handler"} \cup AfterHandler
    /\ r \in panicked => rpc[r] \in Leaving
    /\ r \in overran  => rpc[r] \in AfterHandler

(* Between the budget and the handler the fields are within the limit. *)
BudgetInv(r) ==
    r \in handled \/ rpc[r] \in {"refresh", "publish", "context check"} =>
        SumOfFields(fields[r]) <= MetadataLimit

(* The deferred function writes the records, all of them, once. *)
RecordInv(r) ==
    IF rpc[r] \in {"cleanup", "done"}
    THEN records[r] = Trail(r) /\ (r \in panicked => err[r] = "Internal")
    ELSE records[r] = <<>>

OverrunInv(r) ==
    r \in overran \cap Unaries => Ended(r) /\ (rpc[r] \in Leaving => err[r] # "OK")

(* Success comes from a handler, and what is answered from err. *)
ResultInv(r) ==
    /\ rpc[r] \in {"handler", "recheck"} => r \in handled
    /\ rpc[r] \in Leaving /\ err[r] = "OK" => r \in handled
    /\ answer[r] # "none" => rpc[r] = "done"
    /\ answer[r] = "OK" => err[r] = "OK"

LeakInv(r) == rpc[r] = "done" => Ended(r) /\ r \notin watchRoot

CallInv(r) ==
    /\ RootInv(r) /\ PlaceInv(r) /\ BudgetInv(r)
    /\ RecordInv(r) /\ OverrunInv(r) /\ ResultInv(r) /\ LeakInv(r)

(* A step that does not touch request q. *)
Same(q) ==
    /\ rpc'[q] = rpc[q] /\ context'[q] = context[q] /\ fields'[q] = fields[q]
    /\ id'[q] = id[q] /\ err'[q] = err[q] /\ records'[q] = records[q]
    /\ answer'[q] = answer[q]
    /\ q \in late' <=> q \in late
    /\ q \in handled' <=> q \in handled
    /\ q \in panicked' <=> q \in panicked
    /\ q \in overran' <=> q \in overran
    /\ q \in watchRoot' => q \in watchRoot
    /\ root => root'

LEMMA SameKeeps ==
    ASSUME NEW q, CallInv(q), Same(q)
    PROVE  CallInv(q)'
<1>1. RootInv(q)'
    BY DEF CallInv, RootInv, Same, Ended
<1>2. PlaceInv(q)'
    BY DEF CallInv, PlaceInv, Same
<1>3. BudgetInv(q)'
    BY DEF CallInv, BudgetInv, Same
<1>4. RecordInv(q)'
    <2>1. Trail(q)' = Trail(q)
        BY DEF Same, Trail, logPanic, logCompletion
    <2> QED
        BY <2>1 DEF CallInv, RecordInv, Same
<1>5. OverrunInv(q)'
    BY DEF CallInv, OverrunInv, Same, Ended
<1>6. LeakInv(q)'
    BY DEF CallInv, LeakInv, Same, Ended
<1>7. ResultInv(q)'
    BY DEF CallInv, ResultInv, Same
<1> QED
    BY <1>1, <1>2, <1>3, <1>4, <1>5, <1>6, <1>7 DEF CallInv

(* A step of one request does not touch another. *)
LEMMA OthersSame ==
    ASSUME CallTypeOK, NEW r \in Requests, NEW q \in Requests, q # r,
           \/ Arrive(r) \/ Interceptor(r) \/ HandlerEnds(r) \/ GrpcAnswers(r)
           \/ AfterFuncRuns(r) \/ TimeoutExpires(r) \/ ClientLeaves(r)
    PROVE  Same(q)
<1> USE DEF rootVars, callVars, outVars, historyVars
<1>1. CASE Arrive(r)
    <2>1. id'[q] = id[q]
        BY <1>1, Identifiers DEF Arrive
    <2> QED
        BY <1>1, <2>1 DEF Arrive, Same, CallTypeOK
<1>2. CASE CheckRoot(r)
    <2>1. context'[q] = context[q]
        BY <1>2, KnownReasons, ContextEnds DEF CheckRoot
    <2> QED
        BY <1>2, <2>1 DEF CheckRoot, Same, CallTypeOK
<1>3. CASE SetHeader(r)
    <2>1. rpc'[q] = rpc[q] /\ err'[q] = err[q] /\ fields'[q] = fields[q]
        BY <1>3 DEF SetHeader, Reject, CallTypeOK
    <2> QED
        BY <1>3, <2>1 DEF SetHeader, Same
<1>4. CASE InterceptorLoad(r) \/ InterceptorPublish(r)
    BY <1>4 DEF InterceptorLoad, InterceptorPublish, Same, CallTypeOK
<1>5. CASE CheckContext(r)
    <2>1. rpc'[q] = rpc[q] /\ err'[q] = err[q] /\ (q \in handled' <=> q \in handled)
        BY <1>5 DEF CheckContext, Reject, CallTypeOK
    <2> QED
        BY <1>5, <2>1 DEF CheckContext, Same
<1>6. CASE HandlerReturns(r)
    <2>1. rpc'[q] = rpc[q] /\ err'[q] = err[q] /\ (q \in overran' <=> q \in overran)
        BY <1>6 DEF HandlerReturns, CallTypeOK
    <2> QED
        BY <1>6, <2>1 DEF HandlerReturns, Same
<1>7. CASE HandlerPanics(r)
    BY <1>7 DEF HandlerPanics, Same, CallTypeOK
<1>8. CASE Recheck(r)
    BY <1>8 DEF Recheck, Same, CallTypeOK
<1>9. CASE Deferred(r)
    <2>1. rpc'[q] = rpc[q] /\ err'[q] = err[q]
        BY <1>9 DEF Deferred, CallTypeOK
    <2>2. records'[q] = records[q]
        BY <1>9 DEF Deferred, CallTypeOK
    <2> QED
        BY <1>9, <2>1, <2>2 DEF Deferred, Same
<1>10. CASE Cleanup(r)
    <2>1. context'[q] = context[q]
        BY <1>10, KnownReasons, ContextEnds DEF Cleanup
    <2> QED
        BY <1>10, <2>1 DEF Cleanup, Same, CallTypeOK
<1>11. CASE AfterFuncRuns(r) \/ TimeoutExpires(r) \/ ClientLeaves(r)
    <2>1. PICK reason \in EndReasons : EndContext(r, reason)
        BY <1>11, KnownReasons DEF AfterFuncRuns, TimeoutExpires, ClientLeaves
    <2>2. context'[q] = context[q]
        BY <2>1, ContextEnds
    <2> QED
        BY <1>11, <2>2 DEF AfterFuncRuns, TimeoutExpires, ClientLeaves, Same
<1>12. CASE GrpcAnswers(r)
    <2>1. answer'[q] = answer[q]
        BY <1>12 DEF GrpcAnswers, CallTypeOK
    <2> QED
        BY <1>12, <2>1 DEF GrpcAnswers, Same
<1> QED
    BY <1>1, <1>2, <1>3, <1>4, <1>5, <1>6, <1>7, <1>8, <1>9, <1>10, <1>11, <1>12
    DEF Interceptor, HandlerEnds

(* What a step leaves alone at request r, apart from rpc, context and code. *)
Keeps(r) ==
    /\ fields'[r] = fields[r] /\ id'[r] = id[r] /\ records'[r] = records[r]
    /\ answer'[r] = answer[r]
    /\ r \in late' <=> r \in late
    /\ r \in watchRoot' => r \in watchRoot
    /\ root => root'

KeepsHistory(r) ==
    /\ r \in handled' <=> r \in handled
    /\ r \in panicked' <=> r \in panicked
    /\ r \in overran' <=> r \in overran

LEMMA ArriveKeeps ==
    ASSUME CallTypeOK, NEW r \in Requests, CallInv(r), Arrive(r)
    PROVE  CallInv(r)'
<1> USE DEF rootVars, callVars, outVars, historyVars
<1>1. /\ rpc[r] = "idle" /\ rpc'[r] = "root check"
      /\ context'[r] = context[r] /\ err'[r] = err[r]
      /\ fields'[r] = fields[r] /\ records'[r] = records[r] /\ answer'[r] = answer[r]
      /\ r \in late' => r \in late \/ root
      /\ root' = root
    BY DEF Arrive, CallTypeOK
<1>2. KeepsHistory(r)
    BY DEF Arrive, KeepsHistory
<1>3. RootInv(r)'
    BY <1>1, <1>2 DEF CallInv, PlaceInv, RootInv, AfterHandler, Leaving, KeepsHistory, Ended
<1>4. PlaceInv(r)'
    BY <1>1, <1>2 DEF CallInv, PlaceInv, AfterHandler, Leaving, KeepsHistory
<1>5. BudgetInv(r)'
    BY <1>1, <1>2 DEF CallInv, PlaceInv, BudgetInv, AfterHandler, Leaving, KeepsHistory
<1>6. RecordInv(r)'
    BY <1>1, <1>2 DEF CallInv, PlaceInv, RecordInv, AfterHandler, Leaving, KeepsHistory
<1>7. OverrunInv(r)'
    BY <1>1, <1>2 DEF CallInv, PlaceInv, OverrunInv, AfterHandler, Leaving, KeepsHistory, Ended
<1>8. LeakInv(r)'
    BY <1>1, <1>2 DEF CallInv, PlaceInv, LeakInv, AfterHandler, Leaving, KeepsHistory, Ended
<1>9. ResultInv(r)'
    BY <1>1, <1>2 DEF CallInv, ResultInv, Leaving, Keeps, KeepsHistory
<1> QED
    BY <1>3, <1>4, <1>5, <1>6, <1>7, <1>8, <1>9 DEF CallInv

LEMMA CheckRootKeeps ==
    ASSUME CallTypeOK, NEW r \in Requests, CallInv(r), CheckRoot(r)
    PROVE  CallInv(r)'
<1> USE DEF rootVars, callVars, outVars, historyVars
<1>1. /\ rpc[r] = "root check" /\ rpc'[r] = "header" /\ err'[r] = err[r]
      /\ root => Ended(r)'
    BY KnownReasons, ContextEnds DEF CheckRoot, CallTypeOK
<1>2. Keeps(r) /\ KeepsHistory(r)
    BY DEF CheckRoot, Keeps, KeepsHistory
<1>3. RootInv(r)'
    BY <1>1, <1>2
    DEF CallInv, PlaceInv, RootInv, AfterHandler, Leaving, Keeps, KeepsHistory, Ended
<1>4. PlaceInv(r)'
    BY <1>1, <1>2 DEF CallInv, PlaceInv, AfterHandler, Leaving, Keeps, KeepsHistory
<1>5. BudgetInv(r)'
    BY <1>1, <1>2 DEF CallInv, PlaceInv, BudgetInv, AfterHandler, Leaving, Keeps, KeepsHistory
<1>6. RecordInv(r)'
    BY <1>1, <1>2 DEF CallInv, PlaceInv, RecordInv, AfterHandler, Leaving, Keeps, KeepsHistory
<1>7. OverrunInv(r)'
    BY <1>1, <1>2
    DEF CallInv, PlaceInv, OverrunInv, AfterHandler, Leaving, Keeps, KeepsHistory, Ended
<1>8. LeakInv(r)'
    BY <1>1, <1>2
    DEF CallInv, PlaceInv, LeakInv, AfterHandler, Leaving, Keeps, KeepsHistory, Ended
<1>9. ResultInv(r)'
    BY <1>1, <1>2 DEF CallInv, ResultInv, Leaving, Keeps, KeepsHistory
<1> QED
    BY <1>3, <1>4, <1>5, <1>6, <1>7, <1>8, <1>9 DEF CallInv

LEMMA RefreshKeeps ==
    ASSUME CallTypeOK, NEW r \in Requests, CallInv(r), InterceptorLoad(r) \/ InterceptorPublish(r)
    PROVE  CallInv(r)'
<1> USE DEF rootVars, callVars, outVars, historyVars
<1>1. /\ rpc[r] \in {"refresh", "publish"} /\ rpc'[r] \in {"publish", "context check"}
      /\ context'[r] = context[r] /\ err'[r] = err[r]
    <2>1. CASE InterceptorLoad(r)
        BY <2>1 DEF InterceptorLoad, CallTypeOK
    <2>2. CASE InterceptorPublish(r)
        BY <2>2 DEF InterceptorPublish, CallTypeOK
    <2> QED
        BY <2>1, <2>2
<1>2. Keeps(r) /\ KeepsHistory(r)
    <2>1. CASE InterceptorLoad(r)
        BY <2>1 DEF InterceptorLoad, Keeps, KeepsHistory
    <2>2. CASE InterceptorPublish(r)
        BY <2>2 DEF InterceptorPublish, Keeps, KeepsHistory
    <2> QED
        BY <2>1, <2>2
<1>3. RootInv(r)'
    BY <1>1, <1>2
    DEF CallInv, PlaceInv, RootInv, AfterHandler, Leaving, Keeps, KeepsHistory, Ended
<1>4. PlaceInv(r)'
    BY <1>1, <1>2 DEF CallInv, PlaceInv, AfterHandler, Leaving, Keeps, KeepsHistory
<1>5. BudgetInv(r)'
    BY <1>1, <1>2 DEF CallInv, PlaceInv, BudgetInv, AfterHandler, Leaving, Keeps, KeepsHistory
<1>6. RecordInv(r)'
    BY <1>1, <1>2 DEF CallInv, PlaceInv, RecordInv, AfterHandler, Leaving, Keeps, KeepsHistory
<1>7. OverrunInv(r)'
    BY <1>1, <1>2
    DEF CallInv, PlaceInv, OverrunInv, AfterHandler, Leaving, Keeps, KeepsHistory, Ended
<1>8. LeakInv(r)'
    BY <1>1, <1>2
    DEF CallInv, PlaceInv, LeakInv, AfterHandler, Leaving, Keeps, KeepsHistory, Ended
<1>9. ResultInv(r)'
    BY <1>1, <1>2 DEF CallInv, ResultInv, Leaving, Keeps, KeepsHistory
<1> QED
    BY <1>3, <1>4, <1>5, <1>6, <1>7, <1>8, <1>9 DEF CallInv

LEMMA CheckContextKeeps ==
    ASSUME CallTypeOK, NEW r \in Requests, CallInv(r), CheckContext(r)
    PROVE  CallInv(r)'
<1> USE DEF rootVars, callVars, outVars, historyVars
<1>1. /\ rpc[r] = "context check" /\ rpc'[r] \in {"deferred", "handler"}
      /\ context'[r] = context[r]
      /\ r \in handled' => r \in handled \/ (~Ended(r) /\ rpc'[r] = "handler")
      /\ rpc'[r] = "handler" => r \in handled'
      /\ rpc'[r] = "deferred" => err'[r] # "OK"
      /\ r \in panicked' <=> r \in panicked
      /\ r \in overran' <=> r \in overran
    BY DEF CheckContext, Reject, CallTypeOK, Ended, EndReasons
<1>2. Keeps(r)
    BY DEF CheckContext, Keeps
<1>3. RootInv(r)'
    BY <1>1, <1>2 DEF CallInv, PlaceInv, RootInv, AfterHandler, Leaving, Keeps, Ended
<1>4. PlaceInv(r)'
    BY <1>1, <1>2 DEF CallInv, PlaceInv, AfterHandler, Leaving, Keeps
<1>5. BudgetInv(r)'
    BY <1>1, <1>2 DEF CallInv, PlaceInv, BudgetInv, AfterHandler, Leaving, Keeps
<1>6. RecordInv(r)'
    BY <1>1, <1>2 DEF CallInv, PlaceInv, RecordInv, AfterHandler, Leaving, Keeps
<1>7. OverrunInv(r)'
    BY <1>1, <1>2 DEF CallInv, PlaceInv, OverrunInv, AfterHandler, Leaving, Keeps, Ended
<1>8. LeakInv(r)'
    BY <1>1, <1>2 DEF CallInv, PlaceInv, LeakInv, AfterHandler, Leaving, Keeps, Ended
<1>9. ResultInv(r)'
    BY <1>1, <1>2 DEF CallInv, ResultInv, Leaving, Keeps, KeepsHistory
<1> QED
    BY <1>3, <1>4, <1>5, <1>6, <1>7, <1>8, <1>9 DEF CallInv

LEMMA HandlerReturnsKeeps ==
    ASSUME CallTypeOK, NEW r \in Requests, CallInv(r), HandlerReturns(r)
    PROVE  CallInv(r)'
<1> USE DEF rootVars, callVars, outVars, historyVars
<1>1. /\ rpc[r] = "handler"
      /\ context'[r] = context[r]
      /\ r \in handled' <=> r \in handled
      /\ r \in panicked' <=> r \in panicked
      /\ r \in overran' => r \in overran \/ Ended(r)
      /\ \/ rpc'[r] = "recheck"
         \/ rpc'[r] = "deferred" /\ (r \in Unaries => err'[r] # "OK")
    BY DEF HandlerReturns, CallTypeOK
<1>2. Keeps(r)
    BY DEF HandlerReturns, Keeps
<1>3. RootInv(r)'
    BY <1>1, <1>2 DEF CallInv, PlaceInv, RootInv, AfterHandler, Leaving, Keeps, Ended
<1>4. PlaceInv(r)'
    BY <1>1, <1>2 DEF CallInv, PlaceInv, AfterHandler, Leaving, Keeps
<1>5. BudgetInv(r)'
    BY <1>1, <1>2 DEF CallInv, PlaceInv, BudgetInv, AfterHandler, Leaving, Keeps
<1>6. RecordInv(r)'
    BY <1>1, <1>2 DEF CallInv, PlaceInv, RecordInv, AfterHandler, Leaving, Keeps
<1>7. OverrunInv(r)'
    BY <1>1, <1>2 DEF CallInv, PlaceInv, OverrunInv, AfterHandler, Leaving, Keeps, Ended
<1>8. LeakInv(r)'
    BY <1>1, <1>2 DEF CallInv, PlaceInv, LeakInv, AfterHandler, Leaving, Keeps, Ended
<1>9. ResultInv(r)'
    BY <1>1, <1>2 DEF CallInv, ResultInv, Leaving, Keeps, KeepsHistory
<1> QED
    BY <1>3, <1>4, <1>5, <1>6, <1>7, <1>8, <1>9 DEF CallInv

LEMMA HandlerPanicsKeeps ==
    ASSUME CallTypeOK, NEW r \in Requests, CallInv(r), HandlerPanics(r)
    PROVE  CallInv(r)'
<1> USE DEF rootVars, callVars, outVars, historyVars
<1>1. /\ rpc[r] = "handler" /\ rpc'[r] = "deferred"
      /\ context'[r] = context[r] /\ err'[r] = err[r]
      /\ r \in handled' <=> r \in handled
      /\ r \in overran' <=> r \in overran
    BY DEF HandlerPanics, CallTypeOK
<1>2. Keeps(r)
    BY DEF HandlerPanics, Keeps
<1>3. RootInv(r)'
    BY <1>1, <1>2 DEF CallInv, PlaceInv, RootInv, AfterHandler, Leaving, Keeps, Ended
<1>4. PlaceInv(r)'
    BY <1>1, <1>2 DEF CallInv, PlaceInv, AfterHandler, Leaving, Keeps
<1>5. BudgetInv(r)'
    BY <1>1, <1>2 DEF CallInv, PlaceInv, BudgetInv, AfterHandler, Leaving, Keeps
<1>6. RecordInv(r)'
    BY <1>1, <1>2 DEF CallInv, PlaceInv, RecordInv, AfterHandler, Leaving, Keeps
<1>7. OverrunInv(r)'
    BY <1>1, <1>2 DEF CallInv, PlaceInv, OverrunInv, AfterHandler, Leaving, Keeps, Ended
<1>8. LeakInv(r)'
    BY <1>1, <1>2 DEF CallInv, PlaceInv, LeakInv, AfterHandler, Leaving, Keeps, Ended
<1>9. ResultInv(r)'
    BY <1>1, <1>2 DEF CallInv, ResultInv, Leaving, Keeps, KeepsHistory
<1> QED
    BY <1>3, <1>4, <1>5, <1>6, <1>7, <1>8, <1>9 DEF CallInv

LEMMA RecheckKeeps ==
    ASSUME CallTypeOK, NEW r \in Requests, CallInv(r), Recheck(r)
    PROVE  CallInv(r)'
<1> USE DEF rootVars, callVars, outVars, historyVars
<1>1. /\ rpc[r] = "recheck" /\ rpc'[r] = "deferred"
      /\ context'[r] = context[r]
      /\ Ended(r) => err'[r] # "OK"
    BY DEF Recheck, Ended, EndReasons, CallTypeOK
<1>2. Keeps(r) /\ KeepsHistory(r)
    BY DEF Recheck, Keeps, KeepsHistory
<1>3. RootInv(r)'
    BY <1>1, <1>2
    DEF CallInv, PlaceInv, RootInv, AfterHandler, Leaving, Keeps, KeepsHistory, Ended
<1>4. PlaceInv(r)'
    BY <1>1, <1>2 DEF CallInv, PlaceInv, AfterHandler, Leaving, Keeps, KeepsHistory
<1>5. BudgetInv(r)'
    BY <1>1, <1>2 DEF CallInv, PlaceInv, BudgetInv, AfterHandler, Leaving, Keeps, KeepsHistory
<1>6. RecordInv(r)'
    BY <1>1, <1>2 DEF CallInv, PlaceInv, RecordInv, AfterHandler, Leaving, Keeps, KeepsHistory
<1>7. OverrunInv(r)'
    BY <1>1, <1>2
    DEF CallInv, PlaceInv, OverrunInv, AfterHandler, Leaving, Keeps, KeepsHistory, Ended
<1>8. LeakInv(r)'
    BY <1>1, <1>2
    DEF CallInv, PlaceInv, LeakInv, AfterHandler, Leaving, Keeps, KeepsHistory, Ended
<1>9. ResultInv(r)'
    BY <1>1, <1>2 DEF CallInv, ResultInv, Leaving, Keeps, KeepsHistory
<1> QED
    BY <1>3, <1>4, <1>5, <1>6, <1>7, <1>8, <1>9 DEF CallInv

LEMMA CleanupKeeps ==
    ASSUME CallTypeOK, NEW r \in Requests, CallInv(r), Cleanup(r)
    PROVE  CallInv(r)'
<1> USE DEF rootVars, callVars, outVars, historyVars
<1>1. /\ rpc[r] = "cleanup" /\ rpc'[r] = "done" /\ err'[r] = err[r]
      /\ Ended(r)' /\ r \notin watchRoot'
    BY KnownReasons, ContextEnds DEF Cleanup, CallTypeOK
<1>2. Keeps(r) /\ KeepsHistory(r)
    BY DEF Cleanup, Keeps, KeepsHistory
<1>3. RootInv(r)'
    BY <1>1, <1>2
    DEF CallInv, PlaceInv, RootInv, AfterHandler, Leaving, Keeps, KeepsHistory, Ended
<1>4. PlaceInv(r)'
    BY <1>1, <1>2 DEF CallInv, PlaceInv, AfterHandler, Leaving, Keeps, KeepsHistory
<1>5. BudgetInv(r)'
    BY <1>1, <1>2 DEF CallInv, PlaceInv, BudgetInv, AfterHandler, Leaving, Keeps, KeepsHistory
<1>6. RecordInv(r)'
    <2>1. Trail(r)' = Trail(r)
        BY <1>1, <1>2 DEF Keeps, KeepsHistory, Trail, logPanic, logCompletion
    <2> QED
        BY <1>1, <1>2, <2>1 DEF CallInv, RecordInv, Keeps, KeepsHistory
<1>7. OverrunInv(r)'
    BY <1>1, <1>2
    DEF CallInv, PlaceInv, OverrunInv, AfterHandler, Leaving, Keeps, KeepsHistory, Ended
<1>8. LeakInv(r)'
    BY <1>1, <1>2
    DEF CallInv, PlaceInv, LeakInv, AfterHandler, Leaving, Keeps, KeepsHistory, Ended
<1>9. ResultInv(r)'
    BY <1>1, <1>2 DEF CallInv, ResultInv, Leaving, Keeps, KeepsHistory
<1> QED
    BY <1>3, <1>4, <1>5, <1>6, <1>7, <1>8, <1>9 DEF CallInv

LEMMA EndingKeeps ==
    ASSUME CallTypeOK, NEW r \in Requests, CallInv(r), 
           AfterFuncRuns(r) \/ TimeoutExpires(r) \/ ClientLeaves(r)
    PROVE  CallInv(r)'
<1> USE DEF rootVars, callVars, outVars, historyVars
<1>1. rpc'[r] = rpc[r] /\ err'[r] = err[r] /\ Ended(r)'
    <2>1. PICK reason \in EndReasons : EndContext(r, reason)
        BY KnownReasons DEF AfterFuncRuns, TimeoutExpires, ClientLeaves
    <2> QED
        BY <2>1, ContextEnds DEF AfterFuncRuns, TimeoutExpires, ClientLeaves
<1>2. Keeps(r) /\ KeepsHistory(r)
    BY DEF AfterFuncRuns, TimeoutExpires, ClientLeaves, Keeps, KeepsHistory
<1>3. RootInv(r)'
    BY <1>1, <1>2
    DEF CallInv, PlaceInv, RootInv, AfterHandler, Leaving, Keeps, KeepsHistory, Ended
<1>4. PlaceInv(r)'
    BY <1>1, <1>2 DEF CallInv, PlaceInv, AfterHandler, Leaving, Keeps, KeepsHistory
<1>5. BudgetInv(r)'
    BY <1>1, <1>2 DEF CallInv, PlaceInv, BudgetInv, AfterHandler, Leaving, Keeps, KeepsHistory
<1>6. RecordInv(r)'
    <2>1. Trail(r)' = Trail(r)
        BY <1>1, <1>2 DEF Keeps, KeepsHistory, Trail, logPanic, logCompletion
    <2> QED
        BY <1>1, <1>2, <2>1 DEF CallInv, RecordInv, Keeps, KeepsHistory
<1>7. OverrunInv(r)'
    BY <1>1, <1>2
    DEF CallInv, PlaceInv, OverrunInv, AfterHandler, Leaving, Keeps, KeepsHistory, Ended
<1>8. LeakInv(r)'
    BY <1>1, <1>2
    DEF CallInv, PlaceInv, LeakInv, AfterHandler, Leaving, Keeps, KeepsHistory, Ended
<1>9. ResultInv(r)'
    BY <1>1, <1>2 DEF CallInv, ResultInv, Leaving, Keeps, KeepsHistory
<1> QED
    BY <1>3, <1>4, <1>5, <1>6, <1>7, <1>8, <1>9 DEF CallInv

LEMMA SetHeaderKeeps ==
    ASSUME CallTypeOK, NEW r \in Requests, CallInv(r), SetHeader(r)
    PROVE  CallInv(r)'
<1> USE DEF rootVars, callVars, outVars, historyVars
<1>1. /\ rpc[r] = "header" /\ rpc'[r] \in {"deferred", "refresh", "context check"}
      /\ context'[r] = context[r] /\ records'[r] = records[r] /\ answer'[r] = answer[r]
      /\ r \in late' <=> r \in late
      /\ root => root'
      /\ rpc'[r] = "deferred" => err'[r] # "OK"
    <2>1. rpc[r] = "header"
        BY DEF SetHeader
    <2>2. rpc'[r] \in {"deferred", "refresh", "context check"}
        BY DEF SetHeader, Reject, CallTypeOK
    <2>3. rpc'[r] = "deferred" => err'[r] # "OK"
        BY DEF SetHeader, Reject, CallTypeOK
    <2> QED
        BY <2>1, <2>2, <2>3 DEF SetHeader
<1>2. KeepsHistory(r) /\ r \notin handled /\ r \notin panicked /\ r \notin overran
    <2>1. KeepsHistory(r)
        BY DEF SetHeader, KeepsHistory
    <2> QED
        BY <1>1, <2>1 DEF CallInv, PlaceInv, AfterHandler, Leaving
<1>3. rpc'[r] # "deferred" => SumOfFields(fields'[r]) <= MetadataLimit
    <2> SUFFICES ASSUME rpc'[r] # "deferred" PROVE SumOfFields(fields'[r]) <= MetadataLimit
        OBVIOUS
    <2>1. ~Reject(r, "Internal") /\ ~Reject(r, "ResourceExhausted")
        BY DEF Reject, CallTypeOK
    <2>2. PICK m \in Metadata : /\ fields' = [fields EXCEPT ![r] = m]
                                /\ metadataSize(m) <= MetadataLimit
        BY <2>1 DEF SetHeader
    <2>3. fields'[r] = m /\ m \in Seq(Field)
        BY <2>2, RequestAssumption DEF CallTypeOK
    <2> QED
        BY <2>2, <2>3, WithinBudget
<1>4. RootInv(r)'
    BY <1>1, <1>2 DEF CallInv, RootInv, KeepsHistory, Ended
<1>5. PlaceInv(r)'
    BY <1>1, <1>2 DEF PlaceInv, KeepsHistory
<1>6. BudgetInv(r)'
    BY <1>1, <1>2, <1>3 DEF BudgetInv, KeepsHistory
<1>7. RecordInv(r)'
    BY <1>1 DEF CallInv, RecordInv
<1>8. OverrunInv(r)'
    BY <1>2 DEF OverrunInv, KeepsHistory
<1>9. LeakInv(r)'
    BY <1>1 DEF LeakInv
<1>10. ResultInv(r)'
    BY <1>1, <1>2 DEF CallInv, ResultInv, Leaving, KeepsHistory
<1> QED
    BY <1>4, <1>5, <1>6, <1>7, <1>8, <1>9, <1>10 DEF CallInv

LEMMA DeferredKeeps ==
    ASSUME CallTypeOK, NEW r \in Requests, CallInv(r), Deferred(r)
    PROVE  CallInv(r)'
<1> USE DEF rootVars, callVars, outVars, historyVars
<1>1. /\ rpc[r] = "deferred" /\ rpc'[r] = "cleanup"
      /\ context'[r] = context[r] /\ fields'[r] = fields[r]
      /\ r \in late' <=> r \in late
      /\ root => root'
    BY DEF Deferred, CallTypeOK
<1>2. KeepsHistory(r)
    BY DEF Deferred, KeepsHistory
<1>3. err'[r] = IF r \in panicked THEN "Internal" ELSE err[r]
    BY DEF Deferred, CallTypeOK
<1>4. RootInv(r)'
    BY <1>1, <1>2 DEF CallInv, RootInv, KeepsHistory, Ended
<1>5. PlaceInv(r)'
    BY <1>1, <1>2 DEF CallInv, PlaceInv, AfterHandler, Leaving, KeepsHistory
<1>6. BudgetInv(r)'
    BY <1>1, <1>2 DEF CallInv, BudgetInv, KeepsHistory
<1>7. RecordInv(r)'
    <2> DEFINE panics == IF r \in panicked THEN <<logPanic(r)>> ELSE <<>>
    <2>1. panics \in Seq({logPanic(r)})
        <3>1. <<>> \in Seq({logPanic(r)}) /\ <<logPanic(r)>> \in Seq({logPanic(r)})
            OBVIOUS
        <3> QED
            BY <3>1, Zenon
    <2>2. records[r] = <<>>
        BY <1>1 DEF CallInv, RecordInv
    <2>3. records'[r] = records[r] \o panics \o <<logCompletion(r, err'[r])>>
        BY DEF Deferred, CallTypeOK
    <2>4. <<>> \o panics = panics
        BY <2>1
    <2>5. Trail(r)' = panics \o <<logCompletion(r, err'[r])>>
        BY <1>2 DEF Deferred, Trail, logPanic, logCompletion, KeepsHistory
    <2> HIDE DEF panics
    <2>6. records'[r] = Trail(r)'
        BY <2>2, <2>3, <2>4, <2>5
    <2> QED
        BY <1>1, <1>2, <1>3, <2>6 DEF RecordInv, KeepsHistory
<1>8. OverrunInv(r)'
    BY <1>1, <1>2, <1>3 DEF CallInv, OverrunInv, Leaving, KeepsHistory, Ended
<1>9. LeakInv(r)'
    BY <1>1 DEF LeakInv
<1>10. ResultInv(r)'
    <2>1. answer'[r] = answer[r]
        BY DEF Deferred
    <2> QED
        BY <1>1, <1>2, <1>3, <2>1 DEF CallInv, ResultInv, Leaving, KeepsHistory
<1> QED
    BY <1>4, <1>5, <1>6, <1>7, <1>8, <1>9, <1>10 DEF CallInv

LEMMA GrpcAnswersKeeps ==
    ASSUME CallTypeOK, NEW r \in Requests, CallInv(r), GrpcAnswers(r)
    PROVE  CallInv(r)'
<1> USE DEF rootVars, callVars, historyVars
<1>1. /\ rpc[r] = "done"
      /\ rpc' = rpc /\ context' = context /\ fields' = fields /\ id' = id /\ err' = err
      /\ records' = records /\ late' = late /\ root' = root /\ watchRoot' = watchRoot
      /\ handled' = handled /\ panicked' = panicked /\ overran' = overran
    BY DEF GrpcAnswers
<1>2. RootInv(r)'
    BY <1>1 DEF CallInv, RootInv, Ended
<1>3. PlaceInv(r)'
    BY <1>1 DEF CallInv, PlaceInv
<1>4. BudgetInv(r)'
    BY <1>1 DEF CallInv, BudgetInv
<1>5. RecordInv(r)'
    <2>1. Trail(r)' = Trail(r)
        BY <1>1 DEF Trail, logPanic, logCompletion
    <2> QED
        BY <1>1, <2>1 DEF CallInv, RecordInv
<1>6. OverrunInv(r)'
    BY <1>1 DEF CallInv, OverrunInv, Ended
<1>7. LeakInv(r)'
    BY <1>1 DEF CallInv, LeakInv, Ended
<1>8. ResultInv(r)'
    <2>1. answer'[r] = "OK" => err[r] = "OK"
        BY Answered DEF CallTypeOK
    <2> QED
        BY <1>1, <2>1 DEF CallInv, ResultInv
<1> QED
    BY <1>2, <1>3, <1>4, <1>5, <1>6, <1>7, <1>8 DEF CallInv

LEMMA CallStep ==
    CallTypeOK /\ (\A r \in Requests : CallInv(r)) /\ [RequestNext]_allVars =>
        (\A r \in Requests : CallInv(r))'
<1> SUFFICES ASSUME CallTypeOK, \A r \in Requests : CallInv(r), [RequestNext]_allVars,
                    NEW q \in Requests
             PROVE  CallInv(q)'
    OBVIOUS
<1>1. CASE UNCHANGED requestVars
    <2>1. Same(q)
        BY <1>1 DEF requestVars, Same
    <2> QED
        BY <2>1, SameKeeps
<1>2. CASE CancelRoot
    <2>1. Same(q)
        BY <1>2 DEF CancelRoot, callVars, outVars, historyVars, Same
    <2> QED
        BY <2>1, SameKeeps
<1>3. ASSUME NEW r \in Requests,
             \/ Arrive(r) \/ Interceptor(r) \/ HandlerEnds(r) \/ GrpcAnswers(r)
             \/ AfterFuncRuns(r) \/ TimeoutExpires(r) \/ ClientLeaves(r)
      PROVE  CallInv(q)'
    <2>1. CASE q # r
        BY <1>3, <2>1, OthersSame, SameKeeps
    <2>2. CASE q = r
        BY <1>3, <2>2, ArriveKeeps, CheckRootKeeps, SetHeaderKeeps, RefreshKeeps,
           CheckContextKeeps, HandlerReturnsKeeps, HandlerPanicsKeeps, RecheckKeeps,
           DeferredKeeps, CleanupKeeps, GrpcAnswersKeeps, EndingKeeps
        DEF Interceptor, HandlerEnds
    <2> QED
        BY <2>1, <2>2
<1> QED
    BY <1>1, <1>2, <1>3 DEF RequestNext, BridgeMoves, allVars

LEMMA CallInvInit == RequestInit => \A r \in Requests : CallInv(r)
<1> SUFFICES ASSUME RequestInit, NEW r \in Requests PROVE CallInv(r)
    OBVIOUS
<1>1. /\ rpc[r] = "idle" /\ records[r] = <<>> /\ answer[r] = "none"
      /\ r \notin late /\ r \notin handled /\ r \notin panicked /\ r \notin overran
    BY DEF RequestInit
<1> QED
    BY <1>1
    DEF CallInv, RootInv, PlaceInv, BudgetInv, RecordInv, OverrunInv, ResultInv, Leaving, LeakInv

LEMMA CallInductive == RequestSpec => [](CallTypeOK /\ \A r \in Requests : CallInv(r))
BY CallTypeCorrect, CallInvInit, CallStep, PTL DEF RequestSpec

-----------------------------------------------------------------------------
(* Theorems. *)

(* interceptors.go:176-179: a request that arrives after the root context    *)
(* was cancelled never reaches its handler, however late the AfterFunc       *)
(* goroutine runs.                                                           *)
THEOREM DeadRootStopsHandlers == RequestSpec => []DeadRootStopsRequests
<1>1. CallTypeOK /\ (\A r \in Requests : CallInv(r)) => DeadRootStopsRequests
    BY DEF CallTypeOK, CallInv, RootInv, DeadRootStopsRequests
<1> QED
    BY <1>1, CallInductive, PTL

(* interceptors.go:77-79, 125-127 and 209-234: for any metadata and any word *)
(* size, no request beyond the limit is handled or refreshes the health      *)
(* service.                                                                  *)
THEOREM BudgetHolds == RequestSpec => []OverBudgetNeverHandled
<1>1. (\A r \in Requests : CallInv(r)) => OverBudgetNeverHandled
    BY DEF CallInv, BudgetInv, OverBudgetNeverHandled
<1> QED
    BY <1>1, CallInductive, PTL

(* interceptors.go:62-69 and 113-119: whatever the way out, a finished       *)
(* request has one completion record, with the status code of the error the  *)
(* interceptor returns, after the record of its panic, if it had one.        *)
THEOREM OneCompletion == RequestSpec => []OneCompletionPerRequest
<1>1. (\A r \in Requests : CallInv(r)) => OneCompletionPerRequest
    BY DEF CallInv, RecordInv, Trail, OneCompletionPerRequest
<1> QED
    BY <1>1, CallInductive, PTL

(* interceptors.go:87-92: a unary handler that outlived its context never    *)
(* yields a success.                                                         *)
THEOREM LateSuccessRejected == RequestSpec => []NoLateSuccess
<1>1. CallTypeOK /\ (\A r \in Requests : CallInv(r)) => NoLateSuccess
    BY DEF CallTypeOK, CallInv, OverrunInv, Leaving, NoLateSuccess
<1> QED
    BY <1>1, CallInductive, PTL

(* interceptors.go:60-95 and 111-134: a client is told OK only of a request  *)
(* whose handler ran, within the budget and on a live root, did not panic    *)
(* and, if unary, was in time; and its completion record says OK.            *)
THEOREM OnlyEarnedSuccess == RequestSpec => []SuccessIsEarned
<1>1. CallTypeOK /\ (\A r \in Requests : CallInv(r)) => SuccessIsEarned
    <2> SUFFICES ASSUME \A q \in Requests : CallInv(q), NEW r \in Requests, answer[r] = "OK"
                 PROVE  /\ r \in handled \ (panicked \cup late)
                        /\ r \in Unaries => r \notin overran
                        /\ SumOfFields(fields[r]) <= MetadataLimit
                        /\ records[r] = <<logCompletion(r, "OK")>>
        BY Zenon DEF SuccessIsEarned
    <2>1. rpc[r] = "done" /\ err[r] = "OK" /\ r \in handled
        BY DEF CallInv, ResultInv, Leaving
    <2>2. r \notin panicked /\ records[r] = Trail(r)
        BY <2>1 DEF CallInv, RecordInv
    <2>3. r \notin late
        BY <2>1 DEF CallInv, RootInv
    <2>4. r \in Unaries => r \notin overran
        BY <2>1 DEF CallInv, OverrunInv, Leaving
    <2>5. SumOfFields(fields[r]) <= MetadataLimit
        BY <2>1 DEF CallInv, BudgetInv
    <2>6. Trail(r) = <<logCompletion(r, "OK")>>
        <3> DEFINE entry == logCompletion(r, "OK")
        <3>1. Trail(r) = <<>> \o <<entry>>
            BY <2>1, <2>2 DEF Trail
        <3> HIDE DEF entry
        <3>2. <<>> \o <<entry>> = <<entry>>
            OBVIOUS
        <3> QED
            BY <3>1, <3>2 DEF entry
    <2> QED
        BY <2>1, <2>2, <2>3, <2>4, <2>5, <2>6
<1> QED
    BY <1>1, CallInductive, PTL

(* interceptors.go:182-194: a finished request leaves no live context and no *)
(* callback registered with the root.                                        *)
THEOREM FinishedLeavesNothing == RequestSpec => []NothingLeaks
<1>1. (\A r \in Requests : CallInv(r)) => NothingLeaks
    BY DEF CallInv, LeakInv, NothingLeaks
<1> QED
    BY <1>1, CallInductive, PTL
=============================================================================

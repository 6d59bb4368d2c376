---------------------------- MODULE LoggingProofs ---------------------------
(* The numbering of log lines, for any number of goroutines.                *)
EXTENDS Logging, FiniteSetTheorems, TLAPS

LineType == [by : Goroutines, number : Nat, record : Records]

LEMMA AppendFacts ==
    ASSUME NEW T, NEW s \in Seq(T), NEW x \in T
    PROVE  /\ Append(s, x) \in Seq(T)
           /\ Len(s) \in Nat
           /\ Len(Append(s, x)) = Len(s) + 1
           /\ DOMAIN s = 1..Len(s)
           /\ DOMAIN Append(s, x) = 1..(Len(s) + 1)
           /\ \A i \in 1..Len(s) : Append(s, x)[i] = s[i]
           /\ Append(s, x)[Len(s) + 1] = x
OBVIOUS

(* The writer is called with a whole line. *)
LEMMA LineTyped ==
    ASSUME LogTypeOK, NEW g \in Goroutines, number[g] # 0
    PROVE  Line(g) \in LineType
BY DEF LogTypeOK, Line, LineType

(* A logger either constructor returns is at one of the five levels. *)
LEMMA LogTypeInit == LogInit => LogTypeOK
<1> SUFFICES ASSUME LogInit PROVE LogTypeOK
    OBVIOUS
<1>1. PICK logger \in Loggers : logger.err = "none" /\ threshold = logger.level
    BY DEF LogInit
<1>2. threshold \in {zerologLevels[level] : level \in Levels}
    <2>1. CASE logger = NopLogger
        BY <1>1, <2>1 DEF NopLogger, zerologLevels, Levels
    <2>2. CASE \E c \in LogConfigs : logger = NewLogger(c)
        <3>1. PICK c \in LogConfigs : logger = NewLogger(c)
            BY <2>2
        <3>2. c.level \in Levels /\ logger = [err |-> "none", level |-> zerologLevels[c.level]]
            BY <1>1, <3>1 DEF NewLogger
        <3> QED
            BY <1>1, <3>2
    <2> QED
        BY <2>1, <2>2 DEF Loggers
<1> QED
    BY <1>2 DEF LogInit, LogTypeOK

LEMMA LogTypeStep == LogTypeOK /\ [LogNext]_logVars => LogTypeOK'
<1> SUFFICES ASSUME LogTypeOK, [LogNext]_logVars PROVE LogTypeOK'
    OBVIOUS
<1>1. ASSUME NEW g \in Goroutines, NEW level \in Methods, NEW record \in Records,
             Begin(g, level, record)
      PROVE  LogTypeOK'
    BY <1>1, RecordsAssumption DEF Begin, LogTypeOK
<1>2. ASSUME NEW g \in Goroutines, Run(g)
      PROVE  LogTypeOK'
    BY <1>2 DEF Run, LogTypeOK
<1>3. ASSUME NEW g \in Goroutines, Write(g)
      PROVE  LogTypeOK'
    <2>1. Line(g) \in LineType /\ lines \in Seq(LineType)
        BY <1>3, LineTyped DEF Write, LogTypeOK, LineType
    <2>2. Append(lines, Line(g)) \in Seq(LineType)
        BY <2>1, AppendFacts
    <2>3. lines' \in Seq(LineType)
        BY <1>3, <2>1, <2>2 DEF Write
    <2> QED
        BY <1>3, <2>3 DEF Write, LogTypeOK, LineType
<1>4. CASE UNCHANGED logVars
    BY <1>4 DEF logVars, LogTypeOK
<1> QED
    BY <1>1, <1>2, <1>3, <1>4 DEF LogNext

(* logging.go:77-109 and 194-202: every logger the constructors return, and  *)
(* every event built with it, keeps its type.                                *)
THEOREM LogTypeCorrect == LogSpec => []LogTypeOK
BY LogTypeInit, LogTypeStep, PTL DEF LogSpec

-----------------------------------------------------------------------------
(* What the two steps of Msg do to the numbers. *)

LEMMA RunEffect ==
    ASSUME LogTypeOK, NEW g \in Goroutines, Run(g)
    PROVE  /\ g \notin InFlight
           /\ InFlight' = InFlight \cup {g}
           /\ number'[g] = sequence + 1
           /\ \A h \in Goroutines \ {g} : number'[h] = number[h]
           /\ Finished' = Finished
BY DEF LogTypeOK, Run, InFlight, Finished

LEMMA WriteEffect ==
    ASSUME LogTypeOK, NEW g \in Goroutines, Write(g)
    PROVE  /\ g \in InFlight
           /\ InFlight' = InFlight \ {g}
           /\ \A h \in Goroutines \ {g} : number'[h] = number[h]
           /\ Finished' = Finished \cup {number[g]}
<1>1. /\ g \in InFlight
      /\ InFlight' = InFlight \ {g}
      /\ \A h \in Goroutines \ {g} : number'[h] = number[h]
    BY DEF LogTypeOK, Write, InFlight
<1>2. CASE lines' = Append(lines, Line(g)) /\ lost' = lost
    <2>1. lines \in Seq(LineType) /\ Line(g) \in LineType
        BY LineTyped DEF LogTypeOK, LineType, Write
    <2>2. /\ Len(lines) \in Nat
          /\ DOMAIN lines = 1..Len(lines) /\ DOMAIN lines' = 1..(Len(lines) + 1)
          /\ \A i \in 1..Len(lines) : lines'[i] = lines[i]
          /\ lines'[Len(lines) + 1] = Line(g)
        BY <1>2, <2>1, AppendFacts
    <2>3. lines'[Len(lines) + 1].number = number[g]
        BY <2>2 DEF Line
    <2>4. {lines'[i].number : i \in DOMAIN lines'}
              = {lines[i].number : i \in DOMAIN lines} \cup {number[g]}
        <3>1. 1..(Len(lines) + 1) = 1..Len(lines) \cup {Len(lines) + 1}
            BY <2>2
        <3> QED
            BY <2>2, <2>3, <3>1
    <2> QED
        BY <1>1, <1>2, <2>4 DEF Finished
<1>3. CASE lost' = lost \cup {number[g]} /\ lines' = lines
    BY <1>1, <1>3 DEF Finished
<1> QED
    BY <1>2, <1>3 DEF Write

-----------------------------------------------------------------------------
(* Accounting.  That no number is held twice is what makes the counts work.  *)

Distinct ==
    \A g \in InFlight : number[g] \notin Finished /\ \A h \in InFlight : number[h] = number[g] => h = g

AccountInv == LogTypeOK /\ IsFiniteSet(lost) /\ Distinct /\ NumbersAccounted

LEMMA InFlightFinite == IsFiniteSet(InFlight) /\ Cardinality(InFlight) \in Nat
BY GoroutinesAssumption, FS_Subset, FS_CardinalityType DEF InFlight

LEMMA AccountHolds == LogSpec => []AccountInv
<1>1. LogInit /\ LogTypeOK => AccountInv
    <2> SUFFICES ASSUME LogInit, LogTypeOK PROVE AccountInv
        OBVIOUS
    <2>1. InFlight = {} /\ Finished = {} /\ lost = {} /\ Len(lines) = 0 /\ sequence = 0
        BY DEF LogInit, InFlight, Finished
    <2>2. 1..0 = {}
        OBVIOUS
    <2> QED
        BY <2>1, <2>2, FS_EmptySet DEF AccountInv, Distinct, NumbersAccounted
<1>2. AccountInv /\ LogTypeOK' /\ [LogNext]_logVars => AccountInv'
    <2> SUFFICES ASSUME AccountInv, LogTypeOK', [LogNext]_logVars PROVE AccountInv'
        OBVIOUS
    <2> USE DEF AccountInv
    <2>1. ASSUME NEW g \in Goroutines, NEW level \in Methods, NEW record \in Records,
                 Begin(g, level, record)
          PROVE  AccountInv'
        BY <2>1 DEF Begin, Distinct, NumbersAccounted, InFlight, Finished
    <2>2. ASSUME NEW g \in Goroutines, Run(g)
          PROVE  AccountInv'
        <3>1. /\ g \notin InFlight
              /\ InFlight' = InFlight \cup {g}
              /\ number'[g] = sequence + 1
              /\ \A h \in Goroutines \ {g} : number'[h] = number[h]
              /\ Finished' = Finished
            BY <2>2, RunEffect
        <3>2. sequence \in Nat /\ sequence' = sequence + 1 /\ lost' = lost /\ lines' = lines
            BY <2>2 DEF Run, LogTypeOK
        <3>3. Finished \cup {number[h] : h \in InFlight} = 1..sequence
            BY DEF NumbersAccounted
        <3>4. InFlight \subseteq Goroutines
            BY DEF InFlight
        <3>5. Distinct'
            BY <3>1, <3>2, <3>3, <3>4 DEF Distinct
        <3>6. (Finished \cup {number[h] : h \in InFlight})' = 1..sequence'
            <4>1. {number'[h] : h \in InFlight'} = {number[h] : h \in InFlight} \cup {sequence + 1}
                BY <3>1, <3>4
            <4>2. 1..(sequence + 1) = 1..sequence \cup {sequence + 1}
                BY <3>2
            <4> QED
                BY <3>1, <3>2, <3>3, <4>1, <4>2
        <3>7. Cardinality(InFlight') = Cardinality(InFlight) + 1
            BY <3>1, InFlightFinite, FS_AddElement
        <3>8. Len(lines) \in Nat /\ Cardinality(lost) \in Nat
            BY FS_CardinalityType DEF LogTypeOK
        <3>9. (Len(lines) + Cardinality(lost) + Cardinality(InFlight))' = sequence'
            BY <3>2, <3>7, <3>8, InFlightFinite DEF NumbersAccounted
        <3> QED
            BY <3>2, <3>5, <3>6, <3>9 DEF NumbersAccounted
    <2>3. ASSUME NEW g \in Goroutines, Write(g)
          PROVE  AccountInv'
        <3>1. /\ g \in InFlight
              /\ InFlight' = InFlight \ {g}
              /\ \A h \in Goroutines \ {g} : number'[h] = number[h]
              /\ Finished' = Finished \cup {number[g]}
            BY <2>3, WriteEffect
        <3>2. sequence \in Nat /\ sequence' = sequence
            BY <2>3 DEF Write, LogTypeOK
        <3>3. InFlight \subseteq Goroutines
            BY DEF InFlight
        <3>4. Distinct'
            BY <3>1, <3>3 DEF Distinct
        <3>5. (Finished \cup {number[h] : h \in InFlight})' = 1..sequence'
            <4>1. {number'[h] : h \in InFlight'} = {number[h] : h \in InFlight \ {g}}
                BY <3>1, <3>3
            <4>2. {number[h] : h \in InFlight} = {number[h] : h \in InFlight \ {g}} \cup {number[g]}
                BY <3>1
            <4> QED
                BY <3>1, <3>2, <4>1, <4>2 DEF NumbersAccounted
        <3>6. Cardinality(InFlight') = Cardinality(InFlight) - 1
            BY <3>1, InFlightFinite, FS_RemoveElement
        <3>7. /\ IsFiniteSet(lost') /\ Len(lines') \in Nat /\ Cardinality(lost') \in Nat
              /\ Len(lines') + Cardinality(lost') = Len(lines) + Cardinality(lost) + 1
            <4>1. Len(lines) \in Nat /\ Cardinality(lost) \in Nat
                BY FS_CardinalityType DEF LogTypeOK
            <4>2. CASE lines' = Append(lines, Line(g)) /\ lost' = lost
                <5>1. Line(g) \in LineType /\ lines \in Seq(LineType)
                    BY <2>3, LineTyped DEF Write, LogTypeOK, LineType
                <5>2. Len(lines') = Len(lines) + 1
                    BY <4>2, <5>1, AppendFacts
                <5> QED
                    BY <4>1, <4>2, <5>2
            <4>3. CASE lost' = lost \cup {number[g]} /\ lines' = lines
                <5>1. number[g] \notin lost
                    BY <3>1 DEF Distinct, Finished
                <5>2. IsFiniteSet(lost') /\ Cardinality(lost') = Cardinality(lost) + 1
                    BY <4>3, <5>1, FS_AddElement
                <5> QED
                    BY <4>1, <4>3, <5>2
            <4> QED
                BY <2>3, <4>2, <4>3 DEF Write
        <3>8. (Len(lines) + Cardinality(lost) + Cardinality(InFlight))' = sequence'
            <4>1. Len(lines) \in Nat /\ Cardinality(lost) \in Nat
                BY FS_CardinalityType DEF LogTypeOK
            <4>2. Len(lines) + Cardinality(lost) + Cardinality(InFlight) = sequence
                BY DEF NumbersAccounted
            <4> QED
                BY <3>2, <3>6, <3>7, <4>1, <4>2, InFlightFinite
        <3> QED
            BY <3>4, <3>5, <3>7, <3>8 DEF NumbersAccounted
    <2>4. CASE UNCHANGED logVars
        BY <2>4 DEF logVars, LogTypeOK, Distinct, NumbersAccounted, InFlight, Finished
    <2> QED
        BY <2>1, <2>2, <2>3, <2>4 DEF LogNext
<1> QED
    BY <1>1, <1>2, LogTypeCorrect, PTL DEF LogSpec

(* logging.go:69-72 and 201: every number the shared sequence gave out is on  *)
(* exactly one line, with exactly one goroutine, or was lost by the writer,   *)
(* and filtered events use none up.                                           *)
THEOREM EveryNumberAccounted == LogSpec => []NumbersAccounted
<1>1. AccountInv => NumbersAccounted
    BY DEF AccountInv
<1> QED
    BY <1>1, AccountHolds, PTL

-----------------------------------------------------------------------------
(* The window.  Whatever may still overtake a line is with a goroutine other *)
(* than the one that wrote it.                                               *)

Behind(i)    == {j \in DOMAIN lines : j > i /\ lines[j].number < lines[i].number}
Overdue(i)   == {g \in InFlight : number[g] < lines[i].number}
WindowInv    ==
    \A i \in DOMAIN lines : Cardinality(Behind(i)) + Cardinality(Overdue(i)) < Cardinality(Goroutines)

LEMMA OverdueFinite ==
    ASSUME NEW i
    PROVE  IsFiniteSet(Overdue(i)) /\ Cardinality(Overdue(i)) \in Nat
BY InFlightFinite, FS_Subset, FS_CardinalityType DEF Overdue

LEMMA BehindFinite ==
    ASSUME LogTypeOK, NEW i
    PROVE  IsFiniteSet(Behind(i)) /\ Cardinality(Behind(i)) \in Nat
<1>1. DOMAIN lines = 1..Len(lines) /\ Len(lines) \in Nat
    BY DEF LogTypeOK
<1>2. IsFiniteSet(DOMAIN lines)
    BY <1>1, FS_Interval
<1> QED
    BY <1>2, FS_Subset, FS_CardinalityType DEF Behind

LEMMA WindowHolds == LogSpec => []WindowInv
<1>1. LogInit => WindowInv
    BY DEF LogInit, WindowInv
<1>2. AccountInv /\ AccountInv' /\ WindowInv /\ [LogNext]_logVars => WindowInv'
    <2> SUFFICES ASSUME AccountInv, AccountInv', WindowInv, [LogNext]_logVars PROVE WindowInv'
        OBVIOUS
    <2>0. LogTypeOK /\ LogTypeOK'
        BY DEF AccountInv
    <2>1. ASSUME NEW g \in Goroutines, NEW level \in Methods, NEW record \in Records,
                 Begin(g, level, record)
          PROVE  WindowInv'
        BY <2>1 DEF Begin, WindowInv, Behind, Overdue, InFlight
    <2>2. ASSUME NEW g \in Goroutines, Run(g)
          PROVE  WindowInv'
        <3> SUFFICES ASSUME NEW i \in DOMAIN lines
                     PROVE  Cardinality(Behind(i)') + Cardinality(Overdue(i)')
                                < Cardinality(Goroutines)
            BY <2>2 DEF Run, WindowInv
        <3>1. /\ InFlight' = InFlight \cup {g} /\ number'[g] = sequence + 1
              /\ \A h \in Goroutines \ {g} : number'[h] = number[h]
              /\ g \notin InFlight /\ InFlight \subseteq Goroutines
            BY <2>0, <2>2, RunEffect DEF InFlight
        <3>2. lines[i].number \in 1..sequence /\ sequence \in Nat
            BY <2>0 DEF AccountInv, NumbersAccounted, Finished, LogTypeOK
        <3>3. Behind(i)' = Behind(i) /\ lines' = lines
            BY <2>2 DEF Run, Behind
        <3>4. Overdue(i)' = Overdue(i)
            BY <3>1, <3>2, <3>3 DEF Overdue
        <3> QED
            BY <3>3, <3>4 DEF WindowInv
    <2>3. ASSUME NEW g \in Goroutines, Write(g)
          PROVE  WindowInv'
        <3>1. /\ g \in InFlight
              /\ InFlight' = InFlight \ {g}
              /\ \A h \in Goroutines \ {g} : number'[h] = number[h]
              /\ InFlight \subseteq Goroutines
            BY <2>0, <2>3, WriteEffect DEF InFlight
        <3>2. CASE lost' = lost \cup {number[g]} /\ lines' = lines
            <4> SUFFICES ASSUME NEW i \in DOMAIN lines
                         PROVE  Cardinality(Behind(i)') + Cardinality(Overdue(i)')
                                    < Cardinality(Goroutines)
                BY <3>2 DEF WindowInv
            <4>1. Behind(i)' = Behind(i)
                BY <3>2 DEF Behind
            <4>2. Overdue(i)' = Overdue(i) \ {g}
                BY <3>1, <3>2 DEF Overdue
            <4>3. Overdue(i)' \in SUBSET Overdue(i)
                BY <4>2
            <4>4. Cardinality(Overdue(i)') <= Cardinality(Overdue(i)) /\ Cardinality(Overdue(i)') \in Nat
                BY <4>3, OverdueFinite, FS_Subset, FS_CardinalityType
            <4>5. Cardinality(Goroutines) \in Nat
                BY GoroutinesAssumption, FS_CardinalityType
            <4> QED
                BY <2>0, <4>1, <4>4, <4>5, OverdueFinite, BehindFinite DEF WindowInv
        <3>3. CASE lines' = Append(lines, Line(g)) /\ lost' = lost
            <4>0. PICK last \in Nat : last = Len(lines) + 1
                BY <2>0 DEF LogTypeOK
            <4>1. Line(g) \in LineType /\ lines \in Seq(LineType)
                BY <2>0, <2>3, LineTyped DEF Write, LogTypeOK, LineType
            <4>2. /\ Len(lines) \in Nat
                  /\ DOMAIN lines = 1..Len(lines) /\ DOMAIN lines' = 1..last
                  /\ \A i \in 1..Len(lines) : lines'[i] = lines[i]
                  /\ lines'[last] = Line(g)
                BY <3>3, <4>0, <4>1, AppendFacts
            <4>3. DOMAIN lines' = DOMAIN lines \cup {last} /\ last \notin DOMAIN lines
                BY <4>0, <4>2
            <4>4. lines'[last].number = number[g] /\ number[g] \in Nat
                BY <2>0, <4>2 DEF Line, LogTypeOK
            <4>5. Cardinality(Goroutines) \in Nat
                BY GoroutinesAssumption, FS_CardinalityType
            <4>6. ASSUME NEW i \in DOMAIN lines
                  PROVE  Cardinality(Behind(i)') + Cardinality(Overdue(i)')
                             < Cardinality(Goroutines)
                <5>1. lines'[i] = lines[i] /\ lines[i].number \in Nat /\ i < last /\ last \notin DOMAIN lines
                    <6>1. lines[i] \in LineType
                        BY <4>1
                    <6> QED
                        BY <4>0, <4>2, <6>1 DEF LineType
                <5>2. Overdue(i)' = Overdue(i) \ {g}
                    BY <3>1, <5>1 DEF Overdue
                <5>3. \A j \in DOMAIN lines : lines'[j] = lines[j]
                    BY <4>2
                <5>4. CASE number[g] < lines[i].number
                    <6>1. Behind(i)' = Behind(i) \cup {last} /\ last \notin Behind(i)
                        BY <4>3, <4>4, <5>1, <5>4, <5>3 DEF Behind
                    <6>2. g \in Overdue(i)
                        BY <3>1, <5>4 DEF Overdue
                    <6>3. Cardinality(Behind(i)') = Cardinality(Behind(i)) + 1
                        BY <2>0, <6>1, BehindFinite, FS_AddElement
                    <6>4. Cardinality(Overdue(i)') = Cardinality(Overdue(i)) - 1
                        BY <5>2, <6>2, OverdueFinite, FS_RemoveElement
                    <6> QED
                        BY <2>0, <4>5, <6>3, <6>4, OverdueFinite, BehindFinite DEF WindowInv
                <5>5. CASE ~(number[g] < lines[i].number)
                    <6>1. Behind(i)' = Behind(i)
                        BY <4>3, <4>4, <5>1, <5>5, <5>3 DEF Behind
                    <6>2. Overdue(i)' = Overdue(i)
                        BY <5>2, <5>5 DEF Overdue
                    <6> QED
                        BY <6>1, <6>2 DEF WindowInv
                <5> QED
                    BY <5>4, <5>5
            <4>7. Cardinality(Behind(last)') + Cardinality(Overdue(last)') < Cardinality(Goroutines)
                <5>1. Behind(last)' = {}
                    BY <4>2 DEF Behind
                <5>2. Overdue(last)' \subseteq Goroutines \ {g}
                    BY <3>1 DEF Overdue
                <5>3. /\ IsFiniteSet(Goroutines \ {g})
                      /\ Cardinality(Goroutines \ {g}) = Cardinality(Goroutines) - 1
                    BY GoroutinesAssumption, FS_RemoveElement
                <5>4. /\ Cardinality(Overdue(last)') <= Cardinality(Goroutines) - 1
                      /\ Cardinality(Overdue(last)') \in Nat
                    BY <5>2, <5>3, FS_Subset, FS_CardinalityType
                <5> QED
                    BY <4>5, <5>1, <5>4, FS_EmptySet
            <4> QED
                BY <4>6, <4>7, <4>3 DEF WindowInv
        <3> QED
            BY <2>3, <3>2, <3>3 DEF Write
    <2>4. CASE UNCHANGED logVars
        BY <2>4 DEF logVars, WindowInv, Behind, Overdue, InFlight
    <2> QED
        BY <2>1, <2>2, <2>3, <2>4 DEF LogNext
<1> QED
    BY <1>1, <1>2, AccountHolds, PTL DEF LogSpec

(* logging.go:164 and 201: with n goroutines a line is overtaken by fewer     *)
(* than n lines that have a lower number.                                     *)
THEOREM BoundedReordering == LogSpec => []ReorderWindow
<1>1. AccountInv /\ WindowInv => ReorderWindow
    <2> SUFFICES ASSUME AccountInv, WindowInv, NEW i \in DOMAIN lines
                 PROVE  Cardinality(Behind(i)) < Cardinality(Goroutines)
        BY DEF ReorderWindow, Behind
    <2>1. Cardinality(Goroutines) \in Nat
        BY GoroutinesAssumption, FS_CardinalityType
    <2> QED
        BY <2>1, OverdueFinite, BehindFinite DEF AccountInv, WindowInv
<1> QED
    BY <1>1, AccountHolds, WindowHolds, PTL
=============================================================================

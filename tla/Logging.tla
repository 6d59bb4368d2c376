------------------------------ MODULE Logging -------------------------------
(***************************************************************************)
(* pkg/observability/logging.go: one Logger, with the component loggers    *)
(* derived from it, used by any number of goroutines.                      *)
(*                                                                         *)
(* An event is three steps of its goroutine: a level method starts it, or  *)
(* filters it out; Msg runs the hook, which draws the next number of the   *)
(* shared sequence; the synchronized writer writes the line.               *)
(***************************************************************************)
EXTENDS Naturals, FiniteSets, Sequences

CONSTANTS
    Goroutines,   \* the goroutines that log
    LogConfigs,   \* the configurations the composition root may try
    Records,      \* what they log: an event name and its fields
    NoEvent       \* none of them

ASSUME GoroutinesAssumption == IsFiniteSet(Goroutines)
ASSUME RecordsAssumption == NoEvent \notin Records

VARIABLES
    threshold,  \* the zerolog level of the logger
    sequence,   \* metadataHook.sequence
    event,      \* per goroutine: the record being built, or NoEvent
    number,     \* per goroutine: the number drawn for it, or 0
    lines,      \* the lines written, in order
    lost        \* the numbers of the lines the writer failed to write

logVars == <<threshold, sequence, event, number, lines, lost>>

-----------------------------------------------------------------------------
(* Construction. *)

zerologLevels == [debug |-> 0, info |-> 1, warn |-> 2, error |-> 3, disabled |-> 7]

Levels  == DOMAIN zerologLevels
Methods == Levels \ {"disabled"}      \* Debug, Info, Warn and Error
Formats == {"json", "console"}

(* The first check that fails decides. *)
NewLogger(config) ==
    IF config.writer = "nil" THEN [err |-> "ErrNilLogWriter"]
    ELSE IF config.level \notin Levels THEN [err |-> "ErrInvalidLogLevel"]
    ELSE IF config.format \notin Formats THEN [err |-> "ErrInvalidLogFormat"]
    ELSE [err |-> "none", level |-> zerologLevels[config.level]]

NopLogger == [err |-> "none", level |-> zerologLevels["disabled"]]

Loggers == {NewLogger(config) : config \in LogConfigs} \cup {NopLogger}

LogInit ==
    /\ \E logger \in Loggers : logger.err = "none" /\ threshold = logger.level
    /\ sequence = 0
    /\ event = [g \in Goroutines |-> NoEvent]
    /\ number = [g \in Goroutines |-> 0]
    /\ lines = <<>>
    /\ lost = {}

-----------------------------------------------------------------------------
(* Logging. *)

Enabled(level) == zerologLevels[level] >= threshold

BeginDraws(g, level, record) ==   \* a faulty variant: filtered events use numbers up
    /\ event[g] = NoEvent
    /\ IF Enabled(level)
       THEN event' = [event EXCEPT ![g] = record] /\ UNCHANGED sequence
       ELSE sequence' = sequence + 1 /\ UNCHANGED event
    /\ UNCHANGED <<threshold, number, lines, lost>>

(* Debug, Info, Warn or Error: an event of zerolog, or nil, on which every   *)
(* later call does nothing.                                                  *)
Begin(g, level, record) ==
    /\ event[g] = NoEvent
    /\ event' = IF Enabled(level) THEN [event EXCEPT ![g] = record] ELSE event
    /\ UNCHANGED <<threshold, sequence, number, lines, lost>>

(* metadataHook.Run, called by Msg. *)
Run(g) ==
    /\ event[g] # NoEvent
    /\ number[g] = 0
    /\ sequence' = sequence + 1
    /\ number' = [number EXCEPT ![g] = sequence']
    /\ UNCHANGED <<threshold, event, lines, lost>>

Line(g) == [by |-> g, number |-> number[g], record |-> event[g]]

WriteNewestFirst(g) ==   \* a faulty variant: a buffer that is flushed from its end
    /\ number[g] # 0
    /\ lines' = <<Line(g)>> \o lines
    /\ event' = [event EXCEPT ![g] = NoEvent]
    /\ number' = [number EXCEPT ![g] = 0]
    /\ UNCHANGED <<threshold, sequence, lost>>

(* The synchronized writer: one Write per event, whose error is dropped.     *)
Write(g) ==
    /\ number[g] # 0
    /\ \/ lines' = Append(lines, Line(g)) /\ UNCHANGED lost
       \/ lost' = lost \cup {number[g]} /\ UNCHANGED lines
    /\ event' = [event EXCEPT ![g] = NoEvent]
    /\ number' = [number EXCEPT ![g] = 0]
    /\ UNCHANGED <<threshold, sequence>>

LogNext ==
    \E g \in Goroutines :
        \/ \E level \in Methods, record \in Records : Begin(g, level, record)
        \/ Run(g) \/ Write(g)

LogSpec == LogInit /\ [][LogNext]_logVars

-----------------------------------------------------------------------------
(* Properties. *)

(* logging.go:194-202: the logger and the events in progress keep their      *)
(* types; only an event that was started has a number.                       *)
LogTypeOK ==
    /\ threshold \in {zerologLevels[level] : level \in Levels}
    /\ sequence \in Nat
    /\ event \in [Goroutines -> Records \cup {NoEvent}]
    /\ number \in [Goroutines -> Nat]
    /\ lines \in Seq([by : Goroutines, number : Nat, record : Records])
    /\ lost \subseteq Nat
    /\ \A g \in Goroutines : event[g] = NoEvent => number[g] = 0

Finished == {lines[i].number : i \in DOMAIN lines} \cup lost
InFlight == {g \in Goroutines : number[g] # 0}

(* logging.go:69-72 and 201, "Derived component loggers share one            *)
(* process-local monotonic sequence": each number drawn is on one line, or   *)
(* with one goroutine, or was lost by the writer; a gap in the output is     *)
(* never the trace of an event that was filtered out.                        *)
NumbersAccounted ==
    /\ Finished \cup {number[g] : g \in InFlight} = 1..sequence
    /\ Len(lines) + Cardinality(lost) + Cardinality(InFlight) = sequence

(* logging.go:164 and 201: the number is drawn before the writer's lock, so   *)
(* lines may be out of order, but a line overtakes fewer lines than there are *)
(* goroutines: a reader can restore the order within that window.             *)
ReorderWindow ==
    \A i \in DOMAIN lines :
        Cardinality({j \in DOMAIN lines : j > i /\ lines[j].number < lines[i].number})
            < Cardinality(Goroutines)
=============================================================================

------------------------------- MODULE Config -------------------------------
(***************************************************************************)
(* The configurations of the two adapters and what New makes of them:      *)
(* pkg/api/httpserver/server.go, pkg/api/grpcserver/config.go and          *)
(* server.go.  The limits are checked with divisions of unsigned words, in *)
(* an order that has to exclude a divisor of zero first.                   *)
(*                                                                         *)
(* Durations are counted in nanoseconds; how many make a second, and how   *)
(* many values a uint64 has, are parameters.                               *)
(***************************************************************************)
EXTENDS Integers

CONSTANTS
    HttpConfigs, GrpcConfigs,  \* the configurations a caller tries
    Second,                    \* time.Second
    WordSize                   \* the number of values of a uint64

KiB == 1024
MiB == 1024 * KiB

HttpTimeouts == {"ReadTimeout", "WriteTimeout", "IdleTimeout", "RequestTimeout"}
GrpcSizes    == {"MaxReceiveMessageBytes", "MaxSendMessageBytes"}
GrpcWords    == {"MaxHeaderListBytes", "MaxConcurrentStreams"}    \* uint32

Minute == 60 * Second
Hour   == 60 * Minute

maxReadBuffer              == 64 * KiB
maxConnections             == 64 * KiB
maxAggregateReadBufferSize == 64 * MiB
maxTimeout                 == 10 * Minute

maxMessageBytes              == 16 * MiB
minApplicationMetadataBytes  == KiB
maxHeaderListBytes           == 64 * KiB
maxPerConnectionReceiveBytes == 64 * MiB
maxPerConnectionSendBytes    == 64 * MiB
maxPerConnectionHeaderBytes  == 16 * MiB
maxConcurrentStreams         == maxPerConnectionHeaderBytes \div maxHeaderListBytes

(* The durations of the gRPC configuration with their minimum and maximum. *)
durations ==
    [UnaryRequestTimeout   |-> <<1, 10 * Minute>>,
     MaxConnectionIdle     |-> <<1, Hour>>,
     MaxConnectionAge      |-> <<1, 24 * Hour>>,
     MaxConnectionAgeGrace |-> <<1, 10 * Minute>>,
     KeepaliveTime         |-> <<Second, Hour>>,
     KeepaliveTimeout      |-> <<1, Minute>>,
     MinClientPingInterval |-> <<10 * Second, Hour>>]

HttpDefaultConfig ==
    [ReadBufferBytes |-> 16 * KiB, MaxConnections |-> 1024, ReadTimeout |-> 10 * Second,
     WriteTimeout |-> 10 * Second, IdleTimeout |-> 2 * Minute, RequestTimeout |-> 10 * Second]

GrpcDefaultConfig ==
    [MaxReceiveMessageBytes |-> 64 * KiB, MaxSendMessageBytes |-> 64 * KiB,
     MaxHeaderListBytes |-> 16 * KiB, MaxConcurrentStreams |-> 128,
     UnaryRequestTimeout |-> 10 * Second, MaxConnectionIdle |-> 2 * Minute,
     MaxConnectionAge |-> 30 * Minute, MaxConnectionAgeGrace |-> 30 * Second,
     KeepaliveTime |-> 2 * Minute, KeepaliveTimeout |-> 10 * Second,
     MinClientPingInterval |-> 30 * Second]

ASSUME UnitsAssumption == Second \in Nat \ {0} /\ WordSize \in Nat /\ WordSize > 64 * MiB

ASSUME HttpConfigsAssumption ==
    \A c \in HttpConfigs : /\ DOMAIN c = DOMAIN HttpDefaultConfig
                           /\ \A field \in DOMAIN c : c[field] \in Int

ASSUME GrpcConfigsAssumption ==
    \A c \in GrpcConfigs : /\ DOMAIN c = DOMAIN GrpcDefaultConfig
                           /\ \A field \in DOMAIN c : c[field] \in Int
                           /\ \A field \in GrpcWords : c[field] \in Nat

VARIABLES
    config,    \* the configuration of the last call of a New
    missing,   \* which of its other arguments were nil
    result     \* its error, Nil, or Panic

configVars == <<config, missing, result>>

Nil              == "nil"
Panic            == "integer divide by zero"
ErrInvalidConfig == "ErrInvalidConfig"

-----------------------------------------------------------------------------
(* The checks. *)

uint64(x) == x % WordSize

(* Whether validate gets past a division, and what it says behind it. *)
Divided(divisor, holds) ==
    IF divisor = 0 THEN Panic ELSE IF holds THEN Nil ELSE ErrInvalidConfig

HttpRanges(c) ==
    /\ c.ReadBufferBytes > 0 /\ c.ReadBufferBytes <= maxReadBuffer
    /\ c.MaxConnections > 0 /\ c.MaxConnections <= maxConnections

HttpAggregate(c) ==
    uint64(c.MaxConnections) <= maxAggregateReadBufferSize \div uint64(c.ReadBufferBytes)

HttpDurations(c) == \A t \in HttpTimeouts : c[t] > 0 /\ c[t] <= maxTimeout

HttpValidateUnordered(c) ==   \* a faulty variant: the division before the ranges
    Divided(uint64(c.ReadBufferBytes), HttpAggregate(c) /\ HttpRanges(c) /\ HttpDurations(c))

(* Config.validate of the HTTP adapter. *)
HttpValidate(c) ==
    IF ~HttpRanges(c) THEN ErrInvalidConfig
    ELSE Divided(uint64(c.ReadBufferBytes), HttpAggregate(c) /\ HttpDurations(c))

GrpcRanges(c) ==
    /\ \A size \in GrpcSizes : c[size] > 0 /\ c[size] <= maxMessageBytes
    /\ c.MaxHeaderListBytes >= minApplicationMetadataBytes
    /\ c.MaxHeaderListBytes <= maxHeaderListBytes
    /\ c.MaxConcurrentStreams # 0 /\ c.MaxConcurrentStreams <= maxConcurrentStreams

GrpcAggregate(c) ==
    LET streams == uint64(c.MaxConcurrentStreams)
    IN  /\ uint64(c.MaxReceiveMessageBytes) <= maxPerConnectionReceiveBytes \div streams
        /\ uint64(c.MaxSendMessageBytes) <= maxPerConnectionSendBytes \div streams
        /\ uint64(c.MaxHeaderListBytes) <= maxPerConnectionHeaderBytes \div streams

GrpcDurations(c) ==
    /\ \A d \in DOMAIN durations : c[d] >= durations[d][1] /\ c[d] <= durations[d][2]
    /\ c.MaxConnectionAgeGrace <= c.MaxConnectionAge
    /\ c.KeepaliveTimeout < c.KeepaliveTime

(* Config.validate of the gRPC adapter. *)
GrpcValidate(c) ==
    IF ~GrpcRanges(c) THEN ErrInvalidConfig
    ELSE Divided(uint64(c.MaxConcurrentStreams), GrpcAggregate(c) /\ GrpcDurations(c))

-----------------------------------------------------------------------------
(* Construction. *)

Arguments == {"root", "readiness", "logger"}

(* The arguments are checked in this order, and the configuration last. *)
Checked(nils, verdict) ==
    IF "root" \in nils THEN "ErrNilRootContext"
    ELSE IF "readiness" \in nils THEN "ErrNilReadinessTracker"
    ELSE IF "logger" \in nils THEN "ErrNilLogger"
    ELSE verdict

New(c, nils, verdict) ==
    /\ config' = c
    /\ missing' = nils
    /\ result' = Checked(nils, verdict)

HttpNew == \E c \in HttpConfigs, nils \in SUBSET Arguments : New(c, nils, HttpValidate(c))

GrpcNew == \E c \in GrpcConfigs, nils \in SUBSET Arguments : New(c, nils, GrpcValidate(c))

(* A faulty variant: no receive option, and so the default of grpc-go. *)
GrpcOptionsIncomplete(c) ==
    [MaxRecvMsgSize |-> 4 * MiB, MaxSendMsgSize |-> c.MaxSendMessageBytes,
     MaxHeaderListSize |-> maxHeaderListBytes, MaxConcurrentStreams |-> c.MaxConcurrentStreams,
     metadataLimit |-> uint64(c.MaxHeaderListBytes)]

(* What grpc.NewServer and the interceptors are given.  The header ceiling   *)
(* of the transport is fixed; the configured one is the interceptors'.       *)
GrpcOptions(c) ==
    [MaxRecvMsgSize |-> c.MaxReceiveMessageBytes, MaxSendMsgSize |-> c.MaxSendMessageBytes,
     MaxHeaderListSize |-> maxHeaderListBytes, MaxConcurrentStreams |-> c.MaxConcurrentStreams,
     metadataLimit |-> uint64(c.MaxHeaderListBytes)]

(* The HTTP adapter has been made with its defaults. *)
ConfigInit ==
    /\ config = HttpDefaultConfig
    /\ missing = {}
    /\ result = HttpValidate(config)

ConfigNext == HttpNew \/ GrpcNew

ConfigSpec == ConfigInit /\ [][ConfigNext]_configVars

-----------------------------------------------------------------------------
(* Properties. *)

ForHttp == DOMAIN config = DOMAIN HttpDefaultConfig

(* What the two validate methods promise, with products of integers.         *)
HttpAcceptable(c) ==
    /\ c.ReadBufferBytes \in 1..maxReadBuffer
    /\ c.MaxConnections \in 1..maxConnections
    /\ c.ReadBufferBytes * c.MaxConnections <= 64 * MiB
    /\ \A t \in HttpTimeouts : c[t] \in 1..maxTimeout

GrpcAcceptable(c) ==
    /\ \A size \in GrpcSizes : c[size] \in 1..maxMessageBytes
    /\ c.MaxHeaderListBytes \in minApplicationMetadataBytes..maxHeaderListBytes
    /\ c.MaxConcurrentStreams \in 1..maxConcurrentStreams
    /\ \A size \in GrpcSizes : c[size] * c.MaxConcurrentStreams <= 64 * MiB
    /\ \A d \in DOMAIN durations : c[d] \in durations[d][1]..durations[d][2]
    /\ c.MaxConnectionAgeGrace <= c.MaxConnectionAge
    /\ c.KeepaliveTimeout < c.KeepaliveTime

(* httpserver/server.go:298-340 and grpcserver/config.go:68-187: New accepts a *)
(* configuration exactly when its fields, and the products of message or       *)
(* buffer sizes with streams or connections, are within their limits, and      *)
(* otherwise returns an error: no word wraps and nothing divides by zero.  The *)
(* product of header bytes and streams needs no condition of its own: the      *)
(* check at config.go:115-121 follows from the ranges.                         *)
NewAcceptsExactly ==
    /\ result # Panic
    /\ result = Nil <=> /\ missing = {}
                       /\ IF ForHttp THEN HttpAcceptable(config) ELSE GrpcAcceptable(config)

(* grpcserver/server.go:98-103, "MaxConcurrentStreams caps this transport     *)
(* ceiling to 16 MiB per HTTP/2 connection even when the application budget   *)
(* is smaller": a server that was made keeps the three budgets with what it   *)
(* was really given, and its metadata budget is reached before the ceiling.   *)
GrpcConnectionBounded ==
    result = Nil /\ ~ForHttp =>
        LET options == GrpcOptions(config)
            streams == options.MaxConcurrentStreams
        IN  /\ options.MaxRecvMsgSize * streams <= 64 * MiB
            /\ options.MaxSendMsgSize * streams <= 64 * MiB
            /\ options.MaxHeaderListSize * streams <= 16 * MiB
            /\ options.metadataLimit <= options.MaxHeaderListSize
=============================================================================

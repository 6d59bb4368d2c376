---------------------------- MODULE ConfigProofs ----------------------------
(* What New accepts, for every configuration and every size of a word.      *)
EXTENDS Config, TLAPS

(* A limit on a product, checked by a division as validate does. *)
LEMMA LimitByDivision ==
    ASSUME NEW limit \in Nat, NEW a \in Nat, NEW b \in Nat \ {0}
    PROVE  a <= limit \div b <=> a * b <= limit
<1> DEFINE q == limit \div b
           r == limit % b
<1>1. q \in Nat /\ r \in Nat /\ r < b /\ limit = b * q + r
    OBVIOUS
<1> HIDE DEF q, r
<1>2. CASE a <= q
    <2>1. PICK d \in Nat : q = a + d
        BY <1>1, <1>2
    <2>2. b * q = a * b + b * d /\ b * d \in Nat /\ a * b \in Nat
        BY <2>1
    <2> QED
        BY <1>1, <1>2, <2>2 DEF q
<1>3. CASE a > q
    <2>1. PICK d \in Nat : a = q + 1 + d
        BY <1>1, <1>3
    <2>2. a * b = b * q + b + b * d /\ b * d \in Nat /\ b * q \in Nat
        BY <2>1, <1>1
    <2>3. a * b > limit
        BY <1>1, <2>2
    <2>4. a * b \in Int
        BY <1>1
    <2> QED
        BY <1>1, <1>3, <2>3, <2>4 DEF q
<1> QED
    BY <1>1, <1>2, <1>3

LEMMA SmallRemainder ==
    ASSUME NEW w \in Nat, NEW x \in Nat, x < w
    PROVE  x % w = x
<1> DEFINE q == x \div w
           r == x % w
<1>1. q \in Nat /\ r \in Nat /\ r < w /\ x = w * q + r
    OBVIOUS
<1> HIDE DEF q, r
<1>2. q = 0
    <2> SUFFICES ASSUME q # 0 PROVE FALSE
        OBVIOUS
    <2>1. PICK d \in Nat : q = d + 1
        BY <1>1
    <2>2. w * q = w + w * d /\ w * d \in Nat
        BY <2>1
    <2> QED
        BY <1>1, <2>2
<1>3. r = x
    BY <1>1, <1>2
<1> QED
    BY <1>3 DEF r

(* uint64 changes no value that passed the range checks. *)
LEMMA WordFits ==
    ASSUME NEW x \in Nat, x <= 64 * MiB
    PROVE  uint64(x) = x
<1>1. WordSize \in Nat /\ x \in Nat /\ x < WordSize
    BY UnitsAssumption DEF MiB, KiB
<1> QED
    BY <1>1, SmallRemainder DEF uint64

-----------------------------------------------------------------------------
(* The two validate methods. *)

HttpTyped(c) ==
    c.ReadBufferBytes \in Int /\ c.MaxConnections \in Int /\ \A t \in HttpTimeouts : c[t] \in Int

LEMMA HttpValidateExact ==
    ASSUME NEW c, HttpTyped(c)
    PROVE  HttpValidate(c) # Panic /\ (HttpValidate(c) = Nil <=> HttpAcceptable(c))
<1>1. CASE ~HttpRanges(c)
    <2>1. HttpValidate(c) = ErrInvalidConfig
        BY <1>1 DEF HttpValidate
    <2>2. ~HttpAcceptable(c)
        BY <1>1 DEF HttpRanges, HttpAcceptable, HttpTyped
    <2> QED
        BY <2>1, <2>2 DEF ErrInvalidConfig, Nil, Panic
<1>2. CASE HttpRanges(c)
    <2> DEFINE size == c.ReadBufferBytes
               connections == c.MaxConnections
    <2>1. /\ size \in Nat \ {0} /\ connections \in Nat \ {0}
          /\ size <= 64 * MiB /\ connections <= 64 * MiB
        BY <1>2 DEF HttpRanges, HttpTyped, maxReadBuffer, maxConnections, MiB, KiB
    <2>2. uint64(size) = size /\ uint64(connections) = connections
        BY <2>1, WordFits
    <2>3. maxAggregateReadBufferSize \in Nat
        BY DEF maxAggregateReadBufferSize, MiB, KiB
    <2>4. HttpAggregate(c) <=> connections * size <= maxAggregateReadBufferSize
        BY <2>1, <2>2, <2>3, LimitByDivision DEF HttpAggregate
    <2>5. connections * size = size * connections
        BY <2>1
    <2>6. HttpAggregate(c) <=> c.ReadBufferBytes * c.MaxConnections <= 64 * MiB
        BY <2>4, <2>5 DEF maxAggregateReadBufferSize
    <2>7. HttpDurations(c) <=> \A t \in HttpTimeouts : c[t] \in 1..maxTimeout
        BY UnitsAssumption DEF HttpDurations, HttpTyped, maxTimeout, Minute
    <2>8. HttpAcceptable(c) <=> HttpAggregate(c) /\ HttpDurations(c)
        BY <1>2, <2>1, <2>6, <2>7 DEF HttpAcceptable, HttpRanges
    <2> QED
        BY <1>2, <2>1, <2>2, <2>8 DEF HttpValidate, Divided, ErrInvalidConfig, Nil, Panic
<1> QED
    BY <1>1, <1>2

GrpcTyped(c) ==
    /\ \A size \in GrpcSizes : c[size] \in Int
    /\ \A word \in GrpcWords : c[word] \in Nat
    /\ \A d \in DOMAIN durations : c[d] \in Int

(* Streams within their range fit the header budget at the fixed ceiling. *)
LEMMA StreamsFitHeaders ==
    ASSUME NEW streams \in Nat, streams <= maxConcurrentStreams
    PROVE  maxHeaderListBytes * streams <= 16 * MiB
<1>1. maxPerConnectionHeaderBytes \in Nat /\ maxHeaderListBytes \in Nat \ {0}
    BY DEF maxPerConnectionHeaderBytes, maxHeaderListBytes, MiB, KiB
<1>2. streams * maxHeaderListBytes <= maxPerConnectionHeaderBytes
    BY <1>1, LimitByDivision DEF maxConcurrentStreams
<1>3. streams * maxHeaderListBytes = maxHeaderListBytes * streams
    BY <1>1
<1> QED
    BY <1>2, <1>3 DEF maxPerConnectionHeaderBytes

LEMMA SmallerProduct ==
    ASSUME NEW a \in Nat, NEW b \in Nat, NEW n \in Nat, a <= b
    PROVE  a * n <= b * n
<1>1. PICK d \in Nat : b = a + d
    OBVIOUS
<1>2. b * n = a * n + d * n /\ d * n \in Nat /\ a * n \in Nat
    BY <1>1
<1> QED
    BY <1>2

LEMMA GrpcValidateExact ==
    ASSUME NEW c, GrpcTyped(c)
    PROVE  GrpcValidate(c) # Panic /\ (GrpcValidate(c) = Nil <=> GrpcAcceptable(c))
<1> DEFINE streams == c.MaxConcurrentStreams
           header == c.MaxHeaderListBytes
           receive == c.MaxReceiveMessageBytes
           send == c.MaxSendMessageBytes
<1>1. streams \in Nat /\ header \in Nat /\ receive \in Int /\ send \in Int
    BY DEF GrpcTyped, GrpcSizes, GrpcWords
<1>2. CASE ~GrpcRanges(c)
    <2>1. GrpcValidate(c) = ErrInvalidConfig
        BY <1>2 DEF GrpcValidate
    <2>2. maxConcurrentStreams \in Int /\ maxMessageBytes \in Int
        BY DEF maxConcurrentStreams, maxPerConnectionHeaderBytes, maxHeaderListBytes,
               maxMessageBytes, MiB, KiB
    <2>3. ~GrpcAcceptable(c)
        BY <1>1, <1>2, <2>2 DEF GrpcRanges, GrpcAcceptable, GrpcTyped
    <2> QED
        BY <2>1, <2>3 DEF ErrInvalidConfig, Nil, Panic
<1>3. CASE GrpcRanges(c)
    <2>1. /\ receive \in Nat \ {0} /\ send \in Nat \ {0} /\ streams \in Nat \ {0}
          /\ receive <= 64 * MiB /\ send <= 64 * MiB
        BY <1>1, <1>3 DEF GrpcRanges, GrpcSizes, maxMessageBytes, MiB, KiB
    <2>2. header <= maxHeaderListBytes /\ header <= 64 * MiB
        BY <1>1, <1>3 DEF GrpcRanges, maxHeaderListBytes, MiB, KiB
    <2>3. streams <= maxConcurrentStreams /\ streams <= 64 * MiB
        BY <1>1, <1>3 DEF GrpcRanges, maxConcurrentStreams, maxPerConnectionHeaderBytes,
                          maxHeaderListBytes, MiB, KiB
    <2>4. /\ uint64(streams) = streams /\ uint64(header) = header
          /\ uint64(receive) = receive /\ uint64(send) = send
        BY <1>1, <2>1, <2>2, <2>3, WordFits
    <2>5. /\ maxPerConnectionReceiveBytes \in Nat /\ maxPerConnectionSendBytes \in Nat
          /\ maxPerConnectionHeaderBytes \in Nat /\ maxHeaderListBytes \in Nat
        BY DEF maxPerConnectionReceiveBytes, maxPerConnectionSendBytes,
               maxPerConnectionHeaderBytes, maxHeaderListBytes, MiB, KiB
    <2>6. receive <= maxPerConnectionReceiveBytes \div streams <=> receive * streams <= 64 * MiB
        BY <2>1, <2>5, LimitByDivision DEF maxPerConnectionReceiveBytes
    <2>7. send <= maxPerConnectionSendBytes \div streams <=> send * streams <= 64 * MiB
        BY <2>1, <2>5, LimitByDivision DEF maxPerConnectionSendBytes
    <2>8. header <= maxPerConnectionHeaderBytes \div streams
        <3>1. header * streams <= maxHeaderListBytes * streams
            BY <1>1, <2>2, <2>5, SmallerProduct
        <3>2. maxHeaderListBytes * streams <= maxPerConnectionHeaderBytes
            BY <1>1, <2>3, StreamsFitHeaders DEF maxPerConnectionHeaderBytes
        <3>3. header * streams \in Int /\ maxHeaderListBytes * streams \in Int
            BY <1>1, <2>5
        <3>4. header * streams <= maxPerConnectionHeaderBytes
            BY <2>5, <3>1, <3>2, <3>3
        <3> QED
            BY <1>1, <2>1, <2>5, <3>4, LimitByDivision
    <2>9. GrpcAggregate(c) <=> \A size \in GrpcSizes : c[size] * streams <= 64 * MiB
        BY <2>4, <2>6, <2>7, <2>8 DEF GrpcAggregate, GrpcSizes
    <2>10. /\ \A size \in GrpcSizes : c[size] \in 1..maxMessageBytes
           /\ header \in minApplicationMetadataBytes..maxHeaderListBytes
           /\ streams \in 1..maxConcurrentStreams
        <3>1. /\ maxMessageBytes \in Int /\ minApplicationMetadataBytes \in Int
              /\ maxHeaderListBytes \in Int /\ maxConcurrentStreams \in Int
            BY DEF maxMessageBytes, minApplicationMetadataBytes, maxHeaderListBytes,
                   maxConcurrentStreams, maxPerConnectionHeaderBytes, MiB, KiB
        <3> QED
            BY <1>1, <1>3, <3>1 DEF GrpcRanges, GrpcTyped
    <2>11. ASSUME NEW d \in DOMAIN durations
           PROVE  c[d] \in durations[d][1]..durations[d][2]
                      <=> c[d] >= durations[d][1] /\ c[d] <= durations[d][2]
        <3>1. durations[d][1] \in Int /\ durations[d][2] \in Int
            BY UnitsAssumption DEF durations, Minute, Hour
        <3> QED
            BY <3>1 DEF GrpcTyped
    <2>12. GrpcAcceptable(c) <=> GrpcAggregate(c) /\ GrpcDurations(c)
        BY <2>9, <2>10, <2>11 DEF GrpcAcceptable, GrpcDurations
    <2> QED
        BY <1>3, <2>1, <2>4, <2>12 DEF GrpcValidate, Divided, ErrInvalidConfig, Nil, Panic
<1> QED
    BY <1>2, <1>3

-----------------------------------------------------------------------------
(* The specification. *)

LEMMA HttpConfigsTyped ==
    ASSUME NEW c \in HttpConfigs \cup {HttpDefaultConfig}
    PROVE  HttpTyped(c) /\ DOMAIN c = DOMAIN HttpDefaultConfig
<1>1. /\ {"ReadBufferBytes", "MaxConnections"} \subseteq DOMAIN HttpDefaultConfig
      /\ HttpTimeouts \subseteq DOMAIN HttpDefaultConfig
    BY DEF HttpDefaultConfig, HttpTimeouts
<1>2. \A field \in DOMAIN HttpDefaultConfig : HttpDefaultConfig[field] \in Int
    BY UnitsAssumption DEF HttpDefaultConfig, Minute, KiB
<1>3. DOMAIN c = DOMAIN HttpDefaultConfig /\ \A field \in DOMAIN c : c[field] \in Int
    BY <1>2, HttpConfigsAssumption
<1> QED
    BY <1>1, <1>3 DEF HttpTyped

LEMMA GrpcConfigsTyped ==
    ASSUME NEW c \in GrpcConfigs
    PROVE  GrpcTyped(c) /\ DOMAIN c # DOMAIN HttpDefaultConfig
<1>1. /\ GrpcSizes \subseteq DOMAIN GrpcDefaultConfig
      /\ DOMAIN durations \subseteq DOMAIN GrpcDefaultConfig
    BY DEF GrpcDefaultConfig, GrpcSizes, durations
<1>2. /\ "KeepaliveTime" \in DOMAIN GrpcDefaultConfig
      /\ "KeepaliveTime" \notin DOMAIN HttpDefaultConfig
    BY DEF GrpcDefaultConfig, HttpDefaultConfig
<1> QED
    BY <1>1, <1>2, GrpcConfigsAssumption DEF GrpcTyped

(* The last call, and what it returned. *)
HttpCalled ==
    /\ config \in HttpConfigs \cup {HttpDefaultConfig}
    /\ result = Checked(missing, HttpValidate(config))
GrpcCalled == config \in GrpcConfigs /\ result = Checked(missing, GrpcValidate(config))

ConfigInv == missing \subseteq Arguments /\ (HttpCalled \/ GrpcCalled)

LEMMA CheckedExact ==
    ASSUME NEW nils \in SUBSET Arguments, NEW verdict
    PROVE  /\ Checked(nils, verdict) = Panic => verdict = Panic
           /\ Checked(nils, verdict) = Nil <=> nils = {} /\ verdict = Nil
BY DEF Checked, Arguments, Nil, Panic

LEMMA ConfigInvHolds == ConfigSpec => []ConfigInv
<1>1. ConfigInit => ConfigInv
    BY DEF ConfigInit, ConfigInv, HttpCalled, Checked
<1>2. ConfigInv /\ [ConfigNext]_configVars => ConfigInv'
    <2> SUFFICES ASSUME ConfigInv, [ConfigNext]_configVars PROVE ConfigInv'
        OBVIOUS
    <2>1. CASE HttpNew
        BY <2>1 DEF HttpNew, New, ConfigInv, HttpCalled
    <2>2. CASE GrpcNew
        BY <2>2 DEF GrpcNew, New, ConfigInv, GrpcCalled
    <2>3. CASE UNCHANGED configVars
        BY <2>3 DEF configVars, ConfigInv, HttpCalled, GrpcCalled
    <2> QED
        BY <2>1, <2>2, <2>3 DEF ConfigNext
<1> QED
    BY <1>1, <1>2, PTL DEF ConfigSpec

(* httpserver/server.go:298-340 and grpcserver/config.go:68-187: New accepts  *)
(* exactly the configurations whose fields and products are within their      *)
(* limits and never divides by zero, whatever integers it is given.           *)
THEOREM NewIsExact == ConfigSpec => []NewAcceptsExactly
<1>1. ConfigInv => NewAcceptsExactly
    <2> SUFFICES ASSUME ConfigInv PROVE NewAcceptsExactly
        OBVIOUS
    <2>1. CASE HttpCalled
        <3>1. HttpTyped(config) /\ ForHttp
            BY <2>1, HttpConfigsTyped DEF HttpCalled, ForHttp
        <3>2. HttpValidate(config) # Panic /\ (HttpValidate(config) = Nil <=> HttpAcceptable(config))
            BY <3>1, HttpValidateExact
        <3> QED
            BY <2>1, <3>1, <3>2, CheckedExact DEF ConfigInv, HttpCalled, NewAcceptsExactly
    <2>2. CASE GrpcCalled
        <3>1. GrpcTyped(config) /\ ~ForHttp
            BY <2>2, GrpcConfigsTyped DEF GrpcCalled, ForHttp
        <3>2. GrpcValidate(config) # Panic /\ (GrpcValidate(config) = Nil <=> GrpcAcceptable(config))
            BY <3>1, GrpcValidateExact
        <3> QED
            BY <2>2, <3>1, <3>2, CheckedExact DEF ConfigInv, GrpcCalled, NewAcceptsExactly
    <2> QED
        BY <2>1, <2>2 DEF ConfigInv
<1> QED
    BY <1>1, ConfigInvHolds, PTL

(* grpcserver/server.go:98-103: a gRPC server that New makes holds at most    *)
(* 64 MiB of messages each way and 16 MiB of headers per connection.          *)
THEOREM ConnectionIsBounded == ConfigSpec => []GrpcConnectionBounded
<1>1. ConfigInv /\ NewAcceptsExactly => GrpcConnectionBounded
    <2> SUFFICES ASSUME ConfigInv, NewAcceptsExactly, result = Nil, ~ForHttp
                 PROVE  GrpcConnectionBounded
        BY DEF GrpcConnectionBounded
    <2>1. GrpcAcceptable(config)
        BY DEF NewAcceptsExactly
    <2>2. config \in GrpcConfigs
        BY HttpConfigsTyped DEF ConfigInv, HttpCalled, GrpcCalled, ForHttp
    <2>3. config.MaxHeaderListBytes \in Nat /\ config.MaxConcurrentStreams \in Nat
        BY <2>2, GrpcConfigsTyped DEF GrpcTyped, GrpcWords
    <2>4. maxConcurrentStreams \in Int /\ maxHeaderListBytes \in Int /\ maxHeaderListBytes <= 64 * MiB
        BY DEF maxConcurrentStreams, maxPerConnectionHeaderBytes, maxHeaderListBytes, MiB, KiB
    <2>5. /\ config.MaxConcurrentStreams <= maxConcurrentStreams
          /\ config.MaxHeaderListBytes <= maxHeaderListBytes
        BY <2>1, <2>3, <2>4 DEF GrpcAcceptable, minApplicationMetadataBytes, KiB
    <2>6. config.MaxHeaderListBytes <= 64 * MiB
        BY <2>3, <2>4, <2>5 DEF MiB, KiB
    <2>7. uint64(config.MaxHeaderListBytes) = config.MaxHeaderListBytes
        BY <2>3, <2>6, WordFits
    <2>8. maxHeaderListBytes * config.MaxConcurrentStreams <= 16 * MiB
        BY <2>3, <2>5, StreamsFitHeaders
    <2> QED
        BY <2>1, <2>5, <2>7, <2>8 DEF GrpcConnectionBounded, GrpcOptions, GrpcAcceptable, GrpcSizes
<1> QED
    BY <1>1, ConfigInvHolds, NewIsExact, PTL
=============================================================================

------------------------------ MODULE MCConfig ------------------------------
(* The default configurations with one or two fields moved to and over each  *)
(* of their limits.  TLC has 32-bit integers, so products above them are     *)
(* left out, and a second has ten ticks.                                     *)
EXTENDS Config

Fits(a, b) == a <= 0 \/ b <= 2147483647 \div a

MCHttpConfigs ==
    {[HttpDefaultConfig EXCEPT !.ReadBufferBytes = p[1], !.MaxConnections = p[2]] :
        p \in {q \in {-1, 0, 1, 1024, 1025, 16384, 65536, 65537}
                     \X {-1, 0, 1, 1024, 1025, 4096, 4097, 65536, 65537} : Fits(q[1], q[2])}}
    \cup {[HttpDefaultConfig EXCEPT ![t] = v] :
              t \in HttpTimeouts, v \in {-1, 0, 1, maxTimeout, maxTimeout + 1}}

MCSizes == {-1, 0, 1, 65536, 262144, 262145, 16 * MiB, 16 * MiB + 1}

MCGrpcConfigs ==
    {[GrpcDefaultConfig EXCEPT !.MaxReceiveMessageBytes = p[1], !.MaxSendMessageBytes = p[2],
                               !.MaxConcurrentStreams = p[3]] :
        p \in {q \in MCSizes \X MCSizes \X {0, 1, 4, 5, 256, 257, 1024} :
                   Fits(q[1], q[3]) /\ Fits(q[2], q[3])}}
    \cup {[GrpcDefaultConfig EXCEPT !.MaxHeaderListBytes = p[1], !.MaxConcurrentStreams = p[2]] :
              p \in {0, 1023, 1024, 65536, 65537} \X {1, 256, 257}}
    \cup {[GrpcDefaultConfig EXCEPT ![d] = v] : d \in DOMAIN durations,
              v \in {-1, 0, 1, Second - 1, 10 * Second, Minute, Minute + 1,
                     10 * Minute, 10 * Minute + 1, Hour, Hour + 1, 24 * Hour, 24 * Hour + 1}}
    \cup {[GrpcDefaultConfig EXCEPT !.KeepaliveTime = v, !.KeepaliveTimeout = w] :
              v, w \in {Second, Minute}}
    \cup {[GrpcDefaultConfig EXCEPT !.MaxConnectionAge = v, !.MaxConnectionAgeGrace = w] :
              v, w \in {1, 2}}
=============================================================================

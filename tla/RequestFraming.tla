--------------------------- MODULE RequestFraming ---------------------------
(***************************************************************************)
(* What a request is, stated on the bytes alone, and what RequestParser     *)
(* must make of any stream.                                                 *)
(***************************************************************************)
EXTENDS RequestParser, FiniteSets

Crlf(s, i) == i < Len(s) /\ s[i] = "cr" /\ s[i + 1] = "lf"

From(s, i) == SubSeq(s, i, Len(s))

AtMostOne(fields, S) == Cardinality({i \in DOMAIN fields : fields[i] \in S}) <= 1

(* The head of a request that is served: one host, at most one length or    *)
(* coding, and nothing that the server refuses.                             *)
ProperHead(fields) ==
  /\ Range(fields) \subseteq Fields \ {"lengthBig", "gzip", "expectOther"}
  /\ "host" \in Range(fields) /\ AtMostOne(fields, {"host"})
  /\ AtMostOne(fields, DOMAIN Lengths \cup {"chunked"})
  /\ AtMostOne(fields, {"expect"}) /\ AtMostOne(fields, {"trailer"})
  /\ "trailer" \in Range(fields) => "chunked" \in Range(fields)

AreTrailers(t) ==
  /\ Len(t) % 3 = 2 /\ Len(t) <= kMaxTrailerBytes
  /\ Crlf(t, Len(t) - 1)
  /\ \A i \in 0 .. Len(t) \div 3 - 1 : t[3 * i + 1] = "checksum" /\ Crlf(t, 3 * i + 2)

(* The size that a chunk line states.                                       *)
IsChunkLine(line, size) ==
  \E k \in 1 .. Len(line) :
    /\ \A i \in 1 .. k : line[i] \in DOMAIN Digits
    /\ \A i \in k + 1 .. Len(line) : line[i] = "extension"
    /\ size = FoldLeft(LAMBDA v, d : 16 * v + Digits[d], 0, SubSeq(line, 1, k))
    /\ size < Uint64Range

(* The bodies of which r is the chunked form: none or one.                  *)
RECURSIVE ChunkBodies(_)
ChunkBodies(r) ==
  UNION {
    IF n = 0
    THEN IF AreTrailers(From(r, l + 3)) THEN {<< >>} ELSE {}
    ELSE IF Crlf(r, l + 3 + n)
         THEN {SubSeq(r, l + 3, l + 2 + n) \o b : b \in ChunkBodies(From(r, l + 5 + n))} ELSE {} :
    <<l, n>> \in {x \in (1 .. kMaxChunkLineBytes - 2) \X (0 .. kMaxBodyBytes) :
                    Crlf(r, x[1] + 1) /\ IsChunkLine(SubSeq(r, 1, x[1]), x[2])}}

(* The bodies of which s is exactly one request: none or one.               *)
Bodies(s) ==
  UNION {
    LET fields == [i \in 1 .. n |-> s[3 * i + 1]]
        rest   == From(s, 3 * n + 6)
    IN  IF ~ProperHead(fields) THEN {}
        ELSE IF "chunked" \in Range(fields)
             THEN {b \in ChunkBodies(rest) : /\ Len(b) <= kMaxBodyBytes
                                             /\ Len(rest) - Len(b) <= kMaxChunkMetadataBytes}
        ELSE {b \in {rest} : Len(rest) =
                IF \E f \in Range(fields) : f \in DOMAIN Lengths
                THEN Lengths[CHOOSE f \in Range(fields) : f \in DOMAIN Lengths] ELSE 0} :
    n \in {k \in 0 .. (kMaxHeaderBytes - 5) \div 3 :
             /\ Len(s) >= 3 * k + 5 /\ s[1] = "get"
             /\ \A i \in 0 .. k : Crlf(s, 3 * i + 2)
             /\ Crlf(s, 3 * k + 4)}}

-----------------------------------------------------------------------------
(* What must hold.                                                          *)

(* However the stream is cut into calls, and whatever requests came before  *)
(* on the connection, the parser completes exactly when the bytes it has    *)
(* accepted are one whole request, with that request's body, and it never   *)
(* takes a byte of the next one.                                            *)
FramesOneMessage ==
  (IF parser.state = "Complete" THEN {parser.body} ELSE {}) = Bodies(seen)

(* A client that expects 100-continue is offered it once, before a byte of  *)
(* its body is accepted; nobody else is offered it at all.                  *)
ContinueOnce ==
  IF Len(seen) > parser.headerBytes
  THEN continues = IF parser.expectContinue THEN 1 ELSE 0
  ELSE continues > 0 => continues = 1 /\ parser.expectContinue /\ parser.state \in {"Body", "ChunkSize"}
=============================================================================

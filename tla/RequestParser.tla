---------------------------- MODULE RequestParser ----------------------------
(***************************************************************************)
(* hp::http::RequestParser: the incremental parser that cuts one request    *)
(* out of a byte stream arriving in pieces of any size.                     *)
(*                                                                          *)
(* A byte is a symbol.  CR, LF and NUL are what they are; of the bytes of a *)
(* line only its meaning matters, so one symbol stands for a whole request  *)
(* line, field, chunk extension or hexadecimal digit, and a line made of    *)
(* any other symbols is malformed.  A call of feedRequestBytes is a loop:   *)
(* FeedBegins, FeedByte and FeedData in any number, FeedReturns; where one  *)
(* call ends and the next begins is left to the network.                    *)
(***************************************************************************)
EXTENDS Integers, Sequences, SequencesExt

CONSTANTS
  kMaxHeaderBytes, kMaxRequestLineBytes, kMaxBodyBytes,
  kMaxChunkLineBytes, kMaxChunkMetadataBytes, kMaxTrailerBytes,
  Uint64Range,  \* number of values of uint64_t
  MaxLine       \* bound of the model: longest line the client sends but for junk

ASSUME ParserAssumption ==
  /\ kMaxRequestLineBytes \in Nat \ {0} /\ kMaxHeaderBytes \in Nat
  /\ kMaxRequestLineBytes < kMaxHeaderBytes
  /\ kMaxBodyBytes \in Nat /\ kMaxBodyBytes < Uint64Range /\ Uint64Range \in Nat
  /\ kMaxChunkLineBytes \in Nat /\ kMaxChunkMetadataBytes \in Nat /\ kMaxTrailerBytes \in Nat
  /\ MaxLine \in Nat

VARIABLES
  parser,     \* the RequestParser object
  calling,    \* feedRequestBytes is running
  seen,       \* every byte accepted since the last reset
  continues   \* calls since then that returned kHeadersComplete

vars == <<parser, calling, seen, continues>>

(* Content-Length fields by their value; the last one is over the limit.    *)
Lengths == [length0 |-> 0, length1 |-> 1, length2 |-> kMaxBodyBytes, lengthBig |-> kMaxBodyBytes + 1]
Digits  == [d0 |-> 0, d1 |-> 1, d2 |-> 2]
Fields  == {"host", "chunked", "gzip", "expect", "expectOther", "trailer", "checksum"}
             \cup DOMAIN Lengths
Data    == {"x", "cr"}

Metadata == {"ChunkSize", "ChunkDataCrlf", "Trailers"}
Terminal == {"Complete", "Error"}

Fresh ==
  [state |-> "RequestLine", status |-> "NeedMore", pendingCr |-> FALSE, line |-> << >>,
   lineStart |-> 0, headerBytes |-> 0, hostSeen |-> FALSE, contentLengthSeen |-> FALSE,
   contentLength |-> 0, transferEncodingSeen |-> FALSE, unsupportedCoding |-> FALSE,
   expectSeen |-> FALSE, expectContinue |-> FALSE, trailerDeclarationSeen |-> FALSE,
   chunkRemaining |-> 0, metadataBytes |-> 0, trailerBytes |-> 0, chunkLineBytes |-> 0,
   dataCrlfBytes |-> 0, body |-> << >>]

Init == parser = Fresh /\ calling = FALSE /\ seen = << >> /\ continues = 0

-----------------------------------------------------------------------------
(* Lines.                                                                   *)

Fail(p) == [p EXCEPT !.state = "Error"]

finishRequest(p) == [p EXCEPT !.state = "Complete", !.status = "Complete"]

validateRequestLine(p) == p.line = <<"get">>

(* A repeated or contradictory field fails, an unknown one is ignored.      *)
HeaderField(p, f) ==
  CASE f = "host" -> IF p.hostSeen THEN Fail(p) ELSE [p EXCEPT !.hostSeen = TRUE]
    [] f \in DOMAIN Lengths ->
         IF p.contentLengthSeen \/ p.transferEncodingSeen THEN Fail(p)
         ELSE [p EXCEPT !.contentLengthSeen = TRUE, !.contentLength = Lengths[f]]
    [] f \in {"chunked", "gzip"} ->
         IF p.contentLengthSeen \/ p.transferEncodingSeen THEN Fail(p)
         ELSE [p EXCEPT !.transferEncodingSeen = TRUE, !.unsupportedCoding = f = "gzip"]
    [] f \in {"expect", "expectOther"} ->
         IF p.expectSeen THEN Fail(p)
         ELSE [p EXCEPT !.expectSeen = TRUE, !.expectContinue = f = "expect"]
    [] f = "trailer" ->
         IF p.trailerDeclarationSeen THEN Fail(p) ELSE [p EXCEPT !.trailerDeclarationSeen = TRUE]
    [] OTHER -> p

TrailerField(p, f) == IF f = "checksum" THEN p ELSE Fail(p)

validateHeader(p) ==
  IF Len(p.line) # 1 \/ p.line[1] \notin Fields THEN Fail(p)
  ELSE IF p.state = "Trailers" THEN TrailerField(p, p.line[1])
  ELSE HeaderField(p, p.line[1])

Refused(p) ==
  CASE p.contentLength > kMaxBodyBytes -> "PayloadTooLarge"
    [] p.unsupportedCoding             -> "NotImplemented"
    [] p.expectSeen /\ ~p.expectContinue -> "ExpectationFailed"
    [] OTHER                           -> "NeedMore"

(* Framing fields that do not go together.                                  *)
TrailerUnchecked(p) == ~p.hostSeen \/ (p.transferEncodingSeen /\ p.contentLengthSeen)
Contradictory(p) ==
  \/ ~p.hostSeen
  \/ p.transferEncodingSeen /\ p.contentLengthSeen
  \/ p.trailerDeclarationSeen /\ ~p.transferEncodingSeen

finishHeaders(p) ==
  LET next == IF p.transferEncodingSeen THEN [p EXCEPT !.state = "ChunkSize"]
              ELSE IF p.contentLength # 0 THEN [p EXCEPT !.state = "Body"]
              ELSE finishRequest(p)
  IN  IF Contradictory(p) THEN Fail(p)
      ELSE IF Refused(p) # "NeedMore" THEN [Fail(p) EXCEPT !.status = Refused(p)]
      ELSE IF p.expectContinue /\ next.state # "Complete"
           THEN [next EXCEPT !.status = "HeadersComplete"] ELSE next

finishLine(p) ==
  IF p.state = "RequestLine"
  THEN IF validateRequestLine(p)
       THEN [p EXCEPT !.state = "Headers", !.lineStart = Len(p.line), !.line = << >>] ELSE Fail(p)
  ELSE [(IF p.line = << >> THEN finishHeaders(p) ELSE validateHeader(p)) EXCEPT !.line = << >>]

-----------------------------------------------------------------------------
(* Chunks.                                                                  *)

(* The value of the leading digits, -1 when it does not fit uint64_t.       *)
HexStep(size, d) ==
  IF size = -1 \/ size > (Uint64Range - 1 - d) \div 16 THEN -1 ELSE size * 16 + d

HexValue(digits) == FoldLeft(LAMBDA size, s : HexStep(size, Digits[s]), 0, digits)

LeadingDigits(line) ==
  LET n == CHOOSE k \in 0 .. Len(line) :
             /\ \A i \in 1 .. k : line[i] \in DOMAIN Digits
             /\ k < Len(line) => line[k + 1] \notin DOMAIN Digits
  IN  SubSeq(line, 1, n)

validateChunkExtensions(rest) == \A i \in 1 .. Len(rest) : rest[i] = "extension"

validateChunkSize(p) ==
  LET digits == LeadingDigits(p.line)
      size   == HexValue(digits)
  IN  IF size = -1 \/ digits = << >>
           \/ ~validateChunkExtensions(SubSeq(p.line, Len(digits) + 1, Len(p.line)))
      THEN Fail(p)
      ELSE IF size > kMaxBodyBytes - Len(p.body)
           THEN [Fail(p) EXCEPT !.status = "PayloadTooLarge"]
      ELSE [p EXCEPT !.chunkRemaining = size, !.state = IF size = 0 THEN "Trailers" ELSE "ChunkData"]

(* The CRLF that closes a chunk's data.                                     *)
DataCrlf(p, c) ==
  IF c # (IF p.dataCrlfBytes = 0 THEN "cr" ELSE "lf") THEN Fail(p)
  ELSE IF p.dataCrlfBytes = 0 THEN [p EXCEPT !.dataCrlfBytes = 1]
  ELSE [p EXCEPT !.dataCrlfBytes = 0, !.chunkLineBytes = 0, !.state = "ChunkSize"]

(* The end of a line among chunks.                                          *)
MetadataLine(p) ==
  [(IF p.state = "ChunkSize" THEN [validateChunkSize(p) EXCEPT !.chunkLineBytes = 0]
    ELSE IF p.line = << >> THEN finishRequest(p) ELSE validateHeader(p)) EXCEPT !.line = << >>]

MetadataCounted(p) ==
  [p EXCEPT !.metadataBytes = @ + 1,
            !.trailerBytes = IF p.state = "Trailers" THEN @ + 1 ELSE @,
            !.chunkLineBytes = IF p.state = "ChunkSize" THEN @ + 1 ELSE @]

feedChunkMetadata(p, c) ==
  LET q == MetadataCounted(p) IN
  IF q.metadataBytes > kMaxChunkMetadataBytes \/ q.trailerBytes > kMaxTrailerBytes
       \/ q.chunkLineBytes > kMaxChunkLineBytes THEN Fail(q)
  ELSE IF q.state = "ChunkDataCrlf" THEN DataCrlf(q, c)
  ELSE IF q.pendingCr
       THEN IF c = "lf" THEN MetadataLine([q EXCEPT !.pendingCr = FALSE])
            ELSE Fail([q EXCEPT !.pendingCr = FALSE])
  ELSE IF c = "cr" THEN [q EXCEPT !.pendingCr = TRUE]
  ELSE IF c \in {"lf", "nul"} \/ q.lineStart + Len(q.line) = kMaxHeaderBytes THEN Fail(q)
  ELSE [q EXCEPT !.line = Append(@, c)]

-----------------------------------------------------------------------------
(* feedRequestBytes.                                                        *)

(* The head may not fill the storage.                                       *)
NoHeaderLimit(p) == FALSE
HeaderTooLong(p) == p.headerBytes = kMaxHeaderBytes /\ p.state \in {"RequestLine", "Headers"}

(* One byte of the request line or of a header line.                        *)
feedHeaderByte(p, c) ==
  LET q == [p EXCEPT !.headerBytes = @ + 1]
      r == IF q.pendingCr
           THEN IF c = "lf" THEN finishLine([q EXCEPT !.pendingCr = FALSE])
                ELSE Fail([q EXCEPT !.pendingCr = FALSE])
           ELSE IF c = "cr" THEN [q EXCEPT !.pendingCr = TRUE]
           ELSE IF c \in {"lf", "nul"} THEN Fail(q)
           ELSE IF q.state = "RequestLine" /\ Len(q.line) = kMaxRequestLineBytes THEN Fail(q)
           ELSE [q EXCEPT !.line = Append(@, c)]
  IN  IF HeaderTooLong(r) THEN Fail(r) ELSE r

Classified(p) ==
  IF p.state = "Error" /\ p.status \in {"NeedMore", "HeadersComplete"}
  THEN [p EXCEPT !.status = "BadRequest"] ELSE p

(* What is still missing of the body, or of the chunk.                      *)
Missing(p) == IF p.state = "Body" THEN p.contentLength - Len(p.body) ELSE p.chunkRemaining

(* A piece of the body is taken as a whole, up to its end.                  *)
Taken(p, available) == IF available < Missing(p) THEN available ELSE Missing(p)

appendBody(p, bytes) ==
  LET q == [p EXCEPT !.body = @ \o bytes] IN
  IF Len(q.body) = q.contentLength THEN finishRequest(q) ELSE q

appendChunk(p, bytes) ==
  LET left == p.chunkRemaining - Len(bytes) IN
  [p EXCEPT !.body = @ \o bytes, !.chunkRemaining = left,
            !.state = IF left = 0 THEN "ChunkDataCrlf" ELSE @]

(* The status with which a call begins.                                     *)
StatusKept(status) == status
StatusResumed(status) == IF status = "HeadersComplete" THEN "NeedMore" ELSE status

FeedBegins ==
  /\ ~calling /\ parser.state \notin Terminal
  /\ calling' = TRUE
  /\ parser' = [parser EXCEPT !.status = StatusResumed(@)]
  /\ UNCHANGED <<seen, continues>>

(* The loop goes on until the bytes, or the request, or its headers end.    *)
Reading == calling /\ parser.state \notin Terminal /\ parser.status # "HeadersComplete"

FeedByte(c) ==
  /\ Reading /\ parser.state \in {"RequestLine", "Headers"} \cup Metadata
  /\ parser' = Classified(IF parser.state \in Metadata THEN feedChunkMetadata(parser, c)
                                                       ELSE feedHeaderByte(parser, c))
  /\ seen' = Append(seen, c)
  /\ UNCHANGED <<calling, continues>>

FeedData(bytes) ==
  /\ Reading /\ parser.state \in {"Body", "ChunkData"}
  /\ LET taken == SubSeq(bytes, 1, Taken(parser, Len(bytes)))
     IN  /\ parser' = IF parser.state = "Body" THEN appendBody(parser, taken)
                                               ELSE appendChunk(parser, taken)
         /\ seen' = seen \o taken
  /\ UNCHANGED <<calling, continues>>

FeedReturns ==
  /\ calling
  /\ calling' = FALSE
  /\ continues' = IF parser.status = "HeadersComplete" THEN continues + 1 ELSE continues
  /\ UNCHANGED <<parser, seen>>

(* The session keeps the parser for the next request; after an error the    *)
(* connection closes.                                                       *)
resetRequestParser ==
  /\ ~calling /\ parser.state = "Complete"
  /\ parser' = Fresh
  /\ seen' = << >> /\ continues' = 0
  /\ UNCHANGED calling

Closed == ~calling /\ parser.state = "Error" /\ UNCHANGED vars

(* What the client may send next.                                           *)
Bytes ==
  CASE parser.state = "RequestLine" -> {"get", "cr", "lf", "nul"}
    [] parser.state = "Headers"     -> {"junk", "cr", "lf"} \cup IF parser.line = << >> THEN Fields ELSE {}
    [] parser.state = "ChunkSize"   -> DOMAIN Digits \cup {"extension", "junk", "cr", "lf"}
    [] parser.state = "Trailers"    -> {"checksum", "host", "cr", "lf", "nul"}
    [] OTHER                        -> {"x", "cr", "lf"}

Pieces == UNION {[1 .. n -> Data] : n \in 1 .. kMaxBodyBytes + 1}

Next ==
  \/ FeedBegins \/ FeedReturns
  \/ \E c \in Bytes : (Len(parser.line) < MaxLine \/ c \in {"junk", "cr", "lf", "nul"}) /\ FeedByte(c)
  \/ \E bytes \in Pieces : FeedData(bytes)
  \/ resetRequestParser
  \/ Closed

Spec == Init /\ [][Next]_vars

-----------------------------------------------------------------------------
(* What must hold.                                                          *)

States == {"RequestLine", "Headers", "Body", "ChunkData"} \cup Metadata \cup Terminal
Statuses == {"NeedMore", "Complete", "BadRequest", "PayloadTooLarge", "HeadersComplete",
             "ExpectationFailed", "NotImplemented"}
Symbols == Fields \cup Data \cup DOMAIN Digits \cup {"get", "cr", "lf", "nul", "junk", "extension"}

TypeOK ==
  /\ DOMAIN parser = DOMAIN Fresh
  /\ parser.state \in States /\ parser.status \in Statuses
  /\ parser.line \in Seq(Symbols) /\ parser.body \in Seq(Data)
  /\ \A f \in {"pendingCr", "hostSeen", "contentLengthSeen", "transferEncodingSeen",
              "unsupportedCoding", "expectSeen", "expectContinue", "trailerDeclarationSeen"} :
       parser[f] \in BOOLEAN
  /\ \A f \in {"lineStart", "headerBytes", "contentLength", "chunkRemaining", "metadataBytes",
              "trailerBytes", "chunkLineBytes", "dataCrlfBytes"} : parser[f] \in Nat
  /\ calling \in BOOLEAN /\ seen \in Seq(Symbols) /\ continues \in Nat

(* No byte is written outside storage_, although the branch for headers     *)
(* tests a count and not the index it writes to; the body never outgrows    *)
(* kMaxBodyBytes, whatever mixture of chunks announces it, so the unsigned  *)
(* difference in validateChunkSize cannot wrap.                             *)
WithinLimits ==
  /\ TypeOK
  /\ parser.lineStart + Len(parser.line) <= kMaxHeaderBytes
  /\ parser.state \in {"RequestLine", "Headers"} => parser.lineStart + Len(parser.line) < kMaxHeaderBytes
  /\ Len(parser.body) + parser.chunkRemaining <= kMaxBodyBytes
  /\ parser.state = "Body" => Len(parser.body) < parser.contentLength
=============================================================================

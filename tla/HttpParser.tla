------------------------------ MODULE HttpParser ------------------------------
(***************************************************************************)
(* What a connection does with the bytes of its requests: readFd into       *)
(* inBuffer, parse_http over it, the answer, and the close that follows      *)
(* unless the request asked to keep the connection (Connection::handleRead,  *)
(* httpServer::handleRead and the parser).                                  *)
(*                                                                         *)
(* The text of a line is one unit, named for what the parser sees in it;    *)
(* CR, LF and the units of a body are units of their own, so that a read    *)
(* can end anywhere it matters.  One read and its handler are one step: it  *)
(* all happens in the loop's thread.                                        *)
(***************************************************************************)
EXTENDS ConnectionOutput

CONSTANTS Streams,  \* what a client may send, unit by unit
          OffEnd,   \* codes a caller may see when parse_http ends with no return
          Refusals  \* the responses that refuse a request

\* A request line with GET and a known version / with anything else; Connection
\* headers; Content-Length: 2 and 7; Content-Length with no space; any other
\* header; a unit of a body.
Texts == {"GET", "POST", "KEEP", "CLOSE", "LEN2", "LEN7", "LENBAD", "OTHER", "b"}
Units == Texts \cup {"cr", "lf", "nul"}
Codes == {"NO_REQUEST", "GET_REQUEST", "BAD_REQUEST"}

ASSUME ParserConstants ==
    /\ Streams \subseteq Seq(Units)
    /\ OffEnd \subseteq Codes /\ OffEnd # {}
    /\ Refusals \subseteq Responses

VARIABLES
    stream,    \* what the client has yet to say
    inBuffer,  \* the Buffer of the connection
    answers,   \* code and keep_alive of every answer, in order
    open,      \* the connection has not been closed by the handler
    ideal,     \* what inBuffer should hold: its contents, had it infinite room
    tight,     \* the capacity has always been the size
    oneByOne,  \* every read so far has brought one whole simple request,
    asked,     \* and these are the requests
    refused    \* a header has been refused, with keep_alive set

vars == <<stream, inBuffer, answers, open, ideal, tight, oneByOne, asked, refused, out>>

------------------------------------------------------------------------------
(* The parser                                                              *)

Drop(s, n) == SubSeq(s, n + 1, Len(s))
Blank(s) == Len(s) >= 2 /\ s[1] = "cr" /\ s[2] = "lf"

\* How many bytes of ' ' there are in a unit.
Spaces(u) ==
    IF u \in {"GET", "POST"} THEN 2 ELSE IF u \in {"KEEP", "CLOSE", "LEN2", "LEN7", "OTHER"} THEN 1 ELSE 0

\* spilt and the tests of parse_requestline: three parts, GET somewhere in the
\* first, whatever else is stuck to it.
GoodRequestLine(line) ==
    \E i \in DOMAIN line :
        /\ line[i] = "GET"
        /\ \A j \in DOMAIN line \ {i} : Spaces(line[j]) = 0
        /\ \A j \in 1 .. i - 1 : line[j] # "nul"

Result(code, keep, rest) == [code |-> code, keep |-> keep, left |-> rest]

\* parse_content: every round takes the length of the line found last off the
\* length of the body, until what is there suffices.  That line is the blank
\* one, two bytes, which is still in front and counts as part of the body.
ParseContent(s, contentLength) ==
    LET rounds == Min({r \in 0 .. contentLength : Len(s) >= contentLength - 2 * r})
    IN  Drop(s, contentLength - 2 * rounds)

\* The loop of parse_http in CHECK_STATE_HEADER goes no further than this.
Stops(t) == FindCrlf(t) = 0 \/ Blank(t) \/ t[1] = "LENBAD"
HeadersEnd(s) == Min({p \in Starts(s) : Stops(Drop(s, p))})

\* Where the header lines with one of `texts` start, of those before the end.
HeaderLines(s, texts) ==
    LET end == HeadersEnd(s)
    IN  {q \in Starts(s) : q < end /\ s[q + 1] \in texts}

\* parse_header on these lines: `keep_alive`, and `contentLength`, which is what
\* the last line with one says.
KeepAlive(s) == HeaderLines(s, {"KEEP"}) # {}
ContentLength(s) ==
    LET lines == HeaderLines(s, {"LEN2", "LEN7"})
    IN  IF lines = {} THEN 0 ELSE IF s[Max(lines) + 1] = "LEN2" THEN 2 ELSE 7

\* Mutant: parse_header drops the line before it is refused.
ParseHeadersDropsLine(s) ==
    LET t == Drop(s, HeadersEnd(s))
        index == FindCrlf(t)
    IN  IF index = 0 THEN Result("none", KeepAlive(s), t)
        ELSE IF Blank(t) THEN Result("GET_REQUEST", KeepAlive(s), ParseContent(t, ContentLength(s)))
        ELSE Result("BAD_REQUEST", KeepAlive(s), Drop(t, index))

\* parse_http behind the request line, and parse_header on the line it ends
\* with: a blank one stays in the buffer, a refused one loses its end.
ParseHeaders(s) ==
    LET t == Drop(s, HeadersEnd(s))
        index == FindCrlf(t)
    IN  IF index = 0 THEN Result("none", KeepAlive(s), t)
        ELSE IF Blank(t) THEN Result("GET_REQUEST", KeepAlive(s), ParseContent(t, ContentLength(s)))
        ELSE Result("BAD_REQUEST", KeepAlive(s), [t EXCEPT ![index] = "nul"])

\* Behind the blank lines, which parse_requestline drops one by one.
SkipBlank(s) == Drop(s, 2 * Min({k \in 0 .. Len(s) : ~Blank(Drop(s, 2 * k))}))

\* parse_http on a line that is not blank.
ParseRequest(s) ==
    LET index == FindCrlf(s)
    IN  IF index = 0 THEN Result("none", FALSE, s)
        ELSE IF ~GoodRequestLine(SubSeq(s, 1, index)) THEN Result("BAD_REQUEST", FALSE, s)
        ELSE ParseHeaders(Drop(s, index))

\* Mutant: the blank line of the request before is not skipped.
ParseHttpNoSkip(s) == ParseRequest(s)

\* parse_http, which always begins in CHECK_STATE_REQUESTLINE.
ParseHttp(s) == ParseRequest(SkipBlank(s))

\* What parse_http leaves in the buffer.
Consume(b, left) ==
    LET used == ReadableBytes(b) - Len(left)
        c == IF used = 0 THEN b ELSE Retrive(b, used)
    IN  [c EXCEPT !.mem = Put(c.mem, c.read, left)]

------------------------------------------------------------------------------
(* The client                                                              *)

\* A request line, headers that are not about a body, a blank line.
Simple(req) ==
    LET n == Len(req)
        headers == {"KEEP", "CLOSE", "OTHER"}
    IN  /\ n >= 5
        /\ req[1] \in {"GET", "POST"} /\ req[2] = "cr" /\ req[3] = "lf"
        /\ req[n - 2] = "lf" /\ req[n - 1] = "cr" /\ req[n] = "lf"
        /\ \A i \in 4 .. n - 2 :
             \/ req[i] \in headers /\ req[i - 1] = "lf"
             \/ req[i] = "cr" /\ req[i - 1] \in headers
             \/ req[i] = "lf" /\ req[i - 1] = "cr"

Init ==
    /\ stream \in Streams
    /\ inBuffer = NewBuffer
    /\ answers = <<>>
    /\ open = TRUE
    /\ ideal = <<>>
    /\ tight = TRUE
    /\ oneByOne = TRUE
    /\ asked = <<>>
    /\ refused = FALSE
    /\ OutputInit

------------------------------------------------------------------------------
(* Connection::handleRead                                                  *)

\* Memory that is not the vector's has been written, or readIndex has passed
\* writeIndex, and findcrlf leaves the memory.
Runaway(b) == b.mem = Broken \/ b.read > b.write

\* What `code` may be answered with.  (What get_file refuses is answered like a
\* file, by one send() and the close: it is one of the Responses that remain.)
ResponsesTo(code) == IF code = "GET_REQUEST" THEN Responses \ Refusals ELSE Refusals

\* handleEvent after a read callback that has closed the connection: the write
\* callback still runs, if its event was reported too.
BeforeDestroyed(o) == IF out.writing THEN Written(o) ELSE {o}

\* The answer to `result`, if there is one, and the close after it, which takes
\* outBuffer along.
Answer(result, code) ==
    IF code = "NO_REQUEST"
       THEN UNCHANGED <<answers, open, out>>
       ELSE /\ answers' = Append(answers, [code |-> code, keep |-> result.keep])
            /\ open' = result.keep
            /\ \E data \in ResponsesTo(code) : \E sent \in Sent(out, data) :
                    out' \in IF result.keep THEN {sent} ELSE BeforeDestroyed(sent)

\* A read that ends in a runaway; nothing is known of the process after it.
ReadWild(data) ==
    LET filled == ReadFd(inBuffer, data) IN
    /\ Runaway(filled)
    /\ inBuffer' = filled
    /\ UNCHANGED <<answers, open, ideal, refused, out>>

\* A read and its handler: `data` arrives, parse_http looks once.
ReadAndHandle(data) ==
    LET filled == ReadFd(inBuffer, data)
        result == ParseHttp(Readable(filled))
    IN
    /\ ~Runaway(filled)
    /\ inBuffer' = Consume(filled, result.left)
    /\ ideal' = ParseHttp(ideal \o data).left
    /\ refused' = (refused \/ (result.code = "BAD_REQUEST" /\ result.keep))
    /\ IF result.code = "none" THEN \E code \in OffEnd : Answer(result, code)
                               ELSE Answer(result, result.code)

\* n units arrive at once.
HandleRead(n) ==
    LET data == SubSeq(stream, 1, n) IN
    /\ open /\ ~Runaway(inBuffer)
    /\ stream' = Drop(stream, n)
    /\ ReadWild(data) \/ ReadAndHandle(data)
    /\ tight' = (tight /\ IsTight(inBuffer'))
    /\ oneByOne' = (oneByOne /\ Simple(data))
    /\ asked' = IF oneByOne' THEN Append(asked, data) ELSE <<>>

\* Connection::handleWrite, of a connection that is not closed.
WriteMore ==
    /\ open /\ ~Runaway(inBuffer)
    /\ HandleWrite
    /\ UNCHANGED <<stream, inBuffer, answers, open, ideal, tight, oneByOne, asked, refused>>

Next ==
    \/ \E n \in 1 .. Len(stream) : HandleRead(n)
    \/ WriteMore

Spec == Init /\ [][Next]_vars

------------------------------------------------------------------------------
(* Properties                                                              *)

\* Nothing has been written beyond the memory, and the indexes are in it and in
\* their order.
Inside(b) == ~Runaway(b) /\ b.size <= Capacity(b) /\ b.write <= Capacity(b)

\* The memory of the vectors is respected, with slack and without, but for one
\* case: a read that finds readIndex beyond size() and more than there is room
\* for.  readFd then sets writeIndex to size(), below readIndex
\* (Buffer.cpp:89-92), and either it stays there, where findcrlf leaves the
\* memory, or makeSpace takes a distance below zero (53-56), and append writes
\* in front of the vector.  outBuffer, which readFd never fills, is not exposed.
InputWithin == IF Runaway(inBuffer) THEN inBuffer.read > inBuffer.size ELSE Inside(inBuffer)
WithinCapacity == InputWithin /\ Inside(out.buffer)

\* The buffer is a FIFO of bytes, and its indexes are in the order that Buffer.h
\* draws, as long as the vector has never had more capacity than size
\* (Buffer.cpp:33-97).
FifoWhileTight == tight => InOrder(inBuffer) /\ Readable(inBuffer) = ideal

\* Once a header has been refused after keep_alive was set, the connection is
\* left open, but nothing is served on it any more (httpServer.cpp:125-139): the
\* refused line stays in front, so that there is at most one more answer, a 400
\* with which it is closed, whatever the client asks for next; as long as the
\* buffer keeps what it is given.
RefusedForGood ==
    [][refused /\ tight' =>
          \/ UNCHANGED answers
          \/ /\ answers' = Append(answers, [code |-> "BAD_REQUEST", keep |-> FALSE])
             /\ ~open']_vars

\* What a request gets if one looks at it as a whole.
Reference(req) ==
    LET lines == {req[i] : i \in DOMAIN req}
    IN  [code |-> IF req[1] = "GET" THEN "GET_REQUEST" ELSE "BAD_REQUEST",
         keep |-> req[1] = "GET" /\ "KEEP" \in lines]

\* Every request fits into a new buffer that holds a blank line already.
Short == \A i \in DOMAIN asked : Len(asked[i]) <= InitSize - 2

\* Requests that arrive one at a time get the answer a look at the whole
\* request yields, and all that they leave for those after them is the blank
\* line of the last one (httpServer.cpp:71-157, 173-231), as long as the buffer
\* keeps what it is given; which it always does if they are short.
AnsweredAsWhole ==
    oneByOne /\ (tight \/ Short) =>
        /\ answers = [i \in DOMAIN asked |-> Reference(asked[i])]
        /\ open <=> \A i \in DOMAIN asked : Reference(asked[i]).keep
        /\ open => ideal \in {<<>>, <<"cr", "lf">>}
==============================================================================

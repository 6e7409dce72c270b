--------------------------- MODULE ConnectionOutput ---------------------------
(***************************************************************************)
(* The output side of a Connection: sendinLoop, which writes what it can     *)
(* and keeps the rest in outBuffer, and handleWrite, which goes on with it   *)
(* when poll() reports the socket writable.  `out` is a record:              *)
(*   buffer    outBuffer                                                     *)
(*   writing   channel->isWriting()                                          *)
(*   received  what write() has taken, in order: what the client receives    *)
(*   owed      the responses given to send(), those aside whose first        *)
(*             write() failed                                                *)
(*   tight     outBuffer's capacity has always been its size                 *)
(***************************************************************************)
EXTENDS Buffer

CONSTANTS Responses,  \* the responses that can be given to send()
          Cuts        \* how much of them a write() may take; all is possible too

ASSUME OutputConstants ==
    /\ Cuts \subseteq Nat \ {0}
    /\ \A data \in Responses : data # <<>>

VARIABLE out

NewOutput == [buffer |-> NewBuffer, writing |-> FALSE, received |-> <<>>, owed |-> <<>>, tight |-> TRUE]

Unsent(o) == Readable(o.buffer)
IsTight(b) == b.size = Capacity(b)

\* What write() may take of len bytes, if it does not fail.
Taken(len) == (Cuts \cap 1 .. len) \cup ({len} \ {0})

\* Mutant: waiting output is overtaken.
DirectAlways(o) == TRUE

\* sendinLoop may write at once: nothing is under way.
Direct(o) == ~o.writing /\ ReadableBytes(o.buffer) = 0

\* sendinLoop once write() has taken n units of data; the rest waits.
Passed(o, data, n) ==
    LET rest == SubSeq(data, n + 1, Len(data))
        b == IF rest = <<>> THEN o.buffer ELSE AppendTo(o.buffer, rest)
    IN  [buffer |-> b, writing |-> o.writing \/ rest # <<>>,
         received |-> o.received \o SubSeq(data, 1, n), owed |-> o.owed \o data,
         tight |-> o.tight /\ IsTight(b)]

\* Mutant: the -1 is compared as the signed number it is: append(data - 1, len + 1).
FailedSigned(o, data) == Passed([o EXCEPT !.buffer = AppendTo(o.buffer, <<Zero>>)], data, 0)

\* sendinLoop when write() fails: -1 as size_t is not less than len, so that
\* nothing of the response is kept.
Failed(o, data) == o

\* sendinLoop: what may come of it.
Sent(o, data) ==
    IF Direct(o) THEN {Failed(o, data)} \cup {Passed(o, data, n) : n \in Taken(Len(data))}
                 ELSE {Passed(o, data, 0)}

\* handleWrite when write() takes n units.
Drained(o, n) ==
    LET b == Retrive(o.buffer, n)
    IN  [buffer |-> b, writing |-> ReadableBytes(b) # 0,
         received |-> o.received \o SubSeq(Unsent(o), 1, n), owed |-> o.owed, tight |-> o.tight]

\* handleWrite: what may come of it.  A write() that fails changes nothing.
Written(o) ==
    {o} \cup {Drained(o, n) : n \in IF o.writing THEN Taken(ReadableBytes(o.buffer)) ELSE {}}

OutputInit == out = NewOutput

Send == \E data \in Responses : out' \in Sent(out, data)
HandleWrite == out' \in Written(out)

OutputSpec == OutputInit /\ [][Send \/ HandleWrite]_out

------------------------------------------------------------------------------
(* Properties                                                              *)

\* What the client has received and what waits for it is, byte for byte and in
\* the order of the calls of send(), every response but those whose first
\* write() failed, which are missing as a whole (Connection.cpp:71-131); as
\* long as outBuffer keeps what it is given.
ResponsesInOrder == out.tight => out.received \o Unsent(out) = out.owed
==============================================================================

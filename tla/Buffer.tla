-------------------------------- MODULE Buffer --------------------------------
(***************************************************************************)
(* net/Buffer as operators.  A buffer is a record: `mem` is what the        *)
(* vector has allocated (its length is capacity()), `size` is size(), and   *)
(* [read, write) are the readable units, counted from 0 as in the code.     *)
(* A vector keeps the elements below size() when it grows, and no others:   *)
(* that is why size and capacity are told apart.  The indexes are unsigned: *)
(* what the code does once one is to fall below 0, or a copy is to leave the *)
(* memory, is undefined, and the buffer is Broken.                           *)
(***************************************************************************)
EXTENDS Naturals, Sequences, FiniteSetsExt

CONSTANT InitSize  \* _initSize (1024)

ASSUME BufferConstants == InitSize \in Nat \ {0}

\* What a vector's new elements hold.
Zero == "nul"

NewBuffer == [mem |-> [i \in 1 .. InitSize |-> Zero], size |-> InitSize, read |-> 0, write |-> 0]

\* The memory of a buffer of which nothing can be said.
Broken == <<>>

\* (Past the end of the memory a read would find anything.)
Readable(b) ==
    [i \in 1 .. b.write - b.read |-> IF b.read + i \in DOMAIN b.mem THEN b.mem[b.read + i] ELSE Zero]
ReadableBytes(b) == b.write - b.read
Capacity(b) == Len(b.mem)
WriteableBytes(b) == Capacity(b) - b.write

\* `data` behind the first `at` units: std::copy, which does not look where
\* the memory ends.
Put(mem, at, data) ==
    IF at + Len(data) > Len(mem) THEN Broken
    ELSE [i \in DOMAIN mem |-> IF i > at /\ i <= at + Len(data) THEN data[i - at] ELSE mem[i]]

\* vector::resize(n) beyond the capacity: twice the size, or n if that is more.
Resize(b, n) ==
    [b EXCEPT !.size = n,
              !.mem = [i \in 1 .. (IF n > 2 * b.size THEN n ELSE 2 * b.size) |->
                          IF i <= b.size THEN b.mem[i] ELSE Zero]]

\* Mutant: the indexes are not moved along with the units.
MakeSpaceIndexesKept(b, len) ==
    IF b.read + WriteableBytes(b) < len
       THEN Resize(b, b.write + len)
       ELSE IF b.read > b.write THEN [b EXCEPT !.mem = Broken]
       ELSE [b EXCEPT !.mem = Put(b.mem, 0, Readable(b)), !.write = ReadableBytes(b)]

\* With its ends swapped, std::copy runs out of the memory, and readable wraps:
\* append then writes in front of the vector.
MakeSpace(b, len) ==
    IF b.read + WriteableBytes(b) < len
       THEN Resize(b, b.write + len)
       ELSE IF b.read > b.write THEN [b EXCEPT !.mem = Broken]
       ELSE [b EXCEPT !.mem = Put(b.mem, 0, Readable(b)), !.read = 0, !.write = ReadableBytes(b)]

EnsureWriteableBytes(b, len) == IF len > WriteableBytes(b) THEN MakeSpace(b, len) ELSE b

\* Mutant: room is not made first.
AppendBlindly(b, data) ==
    [b EXCEPT !.mem = Put(b.mem, b.write, data), !.write = @ + Len(data)]

AppendTo(b, data) ==
    LET e == EnsureWriteableBytes(b, Len(data))
    IN  [e EXCEPT !.mem = Put(e.mem, e.write, data), !.write = @ + Len(data)]

Retrive(b, len) ==
    IF len < ReadableBytes(b) THEN [b EXCEPT !.read = @ + len]
                              ELSE [b EXCEPT !.read = 0, !.write = 0]

\* readFd, when `data` is what readv() returns: what the vector has no room
\* for arrives in extraBuf and is appended, behind size(), which is not where
\* the rest of `data` ends if the vector has more room than that.
ReadFd(b, data) ==
    LET room == WriteableBytes(b)
        part == Put(b.mem, b.write, SubSeq(data, 1, room))
    IN  IF Len(data) <= room
           THEN [b EXCEPT !.mem = Put(@, b.write, data), !.write = @ + Len(data)]
           ELSE AppendTo([b EXCEPT !.mem = part, !.write = b.size],
                         SubSeq(data, room + 1, Len(data)))

\* Buffer.h:5-10, without which a growing vector loses what it holds.
InOrder(b) == b.read <= b.write /\ b.write <= b.size

\* Where a line ends, and where the next one starts: behind a CR LF.
Ends(s) == {i \in 2 .. Len(s) : s[i - 1] = "cr" /\ s[i] = "lf"}
Starts(s) == {0} \cup Ends(s)

\* findcrlf: the length of the first line with its end, 0 if there is none.
FindCrlf(s) == IF Ends(s) = {} THEN 0 ELSE Min(Ends(s))
==============================================================================

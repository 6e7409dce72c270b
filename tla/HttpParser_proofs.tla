--------------------------- MODULE HttpParser_proofs ---------------------------
(***************************************************************************)
(* What a connection does with its bytes, for all data, in three parts.      *)
(* The buffer: append is a queue as long as the indexes are in the order      *)
(* that Buffer.h draws; readFd needs more: no capacity beyond the size, but   *)
(* stays inside the memory unless readIndex is beyond the size.  The output: *)
(* a connection's responses leave in order, for every set of responses, of    *)
(* any length, and every way write() cuts them up or fails.  The input: what  *)
(* parse_http leaves and answers, for every stream and every way it is cut   *)
(* into reads.                                                             *)
(***************************************************************************)
EXTENDS HttpParser, SequenceTheorems, WellFoundedInduction, TLAPS

Buffers(Data) == [mem : Seq(Data), size : Nat, read : Nat, write : Nat]

\* What a vector guarantees.
Allocated(b) == b.size <= Capacity(b)

\* Sequences with the same elements are equal.
LEMMA SameElements ==
    ASSUME NEW Data, NEW s \in Seq(Data), NEW t \in Seq(Data), Len(s) = Len(t),
           \A i \in 1 .. Len(s) : s[i] = t[i]
    PROVE  s = t
<1>1. s = [i \in 1 .. Len(s) |-> s[i]]
  OBVIOUS
<1>2. t = [i \in 1 .. Len(t) |-> t[i]]
  OBVIOUS
<1> QED
  BY <1>1, <1>2

\* What is put into memory can be read there, the rest is as before.
LEMMA PutIntoMemory ==
    ASSUME NEW Data, NEW mem \in Seq(Data), NEW at \in Nat, NEW data \in Seq(Data),
           at + Len(data) <= Len(mem)
    PROVE  /\ Put(mem, at, data) \in Seq(Data)
           /\ Len(Put(mem, at, data)) = Len(mem)
           /\ \A i \in 1 .. Len(mem) :
                Put(mem, at, data)[i] = IF i > at /\ i <= at + Len(data) THEN data[i - at] ELSE mem[i]
<1>1. DOMAIN mem = 1 .. Len(mem) /\ Len(mem) \in Nat /\ Len(data) \in Nat
  OBVIOUS
<1>2. \A i \in 1 .. Len(mem) : i > at /\ i <= at + Len(data) => data[i - at] \in Data
  OBVIOUS
<1>3. Put(mem, at, data) \in [1 .. Len(mem) -> Data]
  BY <1>1, <1>2 DEF Put
<1> QED
  BY <1>1, <1>3 DEF Put

\* The same of a buffer's memory.
LEMMA PutIntoBuffer ==
    ASSUME NEW Data, NEW b \in Buffers(Data), NEW at \in Nat, NEW data \in Seq(Data),
           at + Len(data) <= Len(b.mem)
    PROVE  Put(b.mem, at, data) \in Seq(Data) /\ Len(Put(b.mem, at, data)) = Len(b.mem)
<1> DEFINE mem == b.mem
<1>1. mem \in Seq(Data) /\ at + Len(data) <= Len(mem)
  BY DEF Buffers
<1> HIDE DEF mem
<1>2. Put(mem, at, data) \in Seq(Data) /\ Len(Put(mem, at, data)) = Len(mem)
  BY <1>1, PutIntoMemory
<1> QED
  BY <1>2 DEF mem

\* A buffer with other contents, up to another index.
LEMMA WithMemory ==
    ASSUME NEW Data, NEW b \in Buffers(Data), NEW mem, NEW write
    PROVE  [b EXCEPT !.mem = mem, !.write = write]
             = [mem |-> mem, size |-> b.size, read |-> b.read, write |-> write]
<1>1. ASSUME NEW c, c = [b EXCEPT !.mem = mem, !.write = write]
      PROVE  c = [mem |-> mem, size |-> b.size, read |-> b.read, write |-> write]
  BY <1>1 DEF Buffers
<1> QED
  BY <1>1, Zenon

\* The readable bytes of a buffer that stays inside its memory.
LEMMA ReadableInMemory ==
    ASSUME NEW Data, NEW b \in Buffers(Data), b.read <= b.write, b.write <= Capacity(b)
    PROVE  /\ Readable(b) \in Seq(Data)
           /\ Len(Readable(b)) = b.write - b.read
           /\ \A i \in 1 .. b.write - b.read : Readable(b)[i] = b.mem[b.read + i]
<1>1. /\ b.read \in Nat /\ b.write \in Nat /\ b.write - b.read \in Nat
      /\ \A i \in 1 .. b.write - b.read : b.read + i \in 1 .. Len(b.mem)
      /\ b.mem \in Seq(Data)
  BY DEF Buffers, Capacity
<1>2. Readable(b) = [i \in 1 .. b.write - b.read |-> b.mem[b.read + i]]
  BY <1>1 DEF Readable
<1>3. Readable(b) \in [1 .. b.write - b.read -> Data]
  BY <1>1, <1>2
<1> QED
  BY <1>1, <1>2, <1>3

\* The readable bytes of a buffer whose indexes are in order.
LEMMA ReadableBytesOf ==
    ASSUME NEW Data, NEW b \in Buffers(Data), InOrder(b), Allocated(b)
    PROVE  /\ Readable(b) \in Seq(Data)
           /\ Len(Readable(b)) = b.write - b.read
           /\ \A i \in 1 .. b.write - b.read : Readable(b)[i] = b.mem[b.read + i]
<1>1. b.read <= b.write /\ b.write <= Capacity(b)
  BY DEF Buffers, InOrder, Allocated, Capacity
<1> QED
  BY <1>1, ReadableInMemory

\* makeSpace makes the room it is asked for and loses nothing.
THEOREM MakeSpaceKeeps ==
    ASSUME NEW Data, Zero \in Data, NEW b \in Buffers(Data), InOrder(b), Allocated(b),
           NEW len \in Nat, len > WriteableBytes(b)
    PROVE  LET e == MakeSpace(b, len) IN
           /\ e \in Buffers(Data) /\ Allocated(e) /\ e.read <= e.write
           /\ e.write <= e.size
           /\ e.write + len <= Capacity(e)
           /\ Readable(e) = Readable(b)
<1> DEFINE e == MakeSpace(b, len)
<1>0. /\ b.read \in Nat /\ b.write \in Nat /\ b.size \in Nat /\ b.mem \in Seq(Data)
      /\ Len(b.mem) \in Nat
      /\ b.read <= b.write /\ b.write <= b.size /\ b.size <= Len(b.mem)
  BY DEF Buffers, InOrder, Allocated, Capacity
<1>1. CASE b.read + WriteableBytes(b) < len
  <2> DEFINE n == b.write + len
             c == IF n > 2 * b.size THEN n ELSE 2 * b.size
             mem == [i \in 1 .. c |-> IF i <= b.size THEN b.mem[i] ELSE Zero]
  <2>1. e = [mem |-> mem, size |-> n, read |-> b.read, write |-> b.write]
    BY <1>1, <1>0 DEF MakeSpace, Resize, Buffers
  <2>2. n \in Nat /\ c \in Nat /\ n <= c /\ b.write <= n
    BY <1>0
  <2>3. mem \in Seq(Data) /\ Len(mem) = c
    <3>1. \A i \in 1 .. c : i <= b.size => b.mem[i] \in Data
      BY <1>0, <2>2
    <3>2. mem \in [1 .. c -> Data]
      BY <3>1
    <3> QED
      BY <3>2, <2>2
  <2> HIDE DEF n, c
  <2>4. e \in Buffers(Data) /\ Allocated(e) /\ InOrder(e)
    BY <2>1, <2>2, <2>3, <1>0 DEF Buffers, Allocated, InOrder, Capacity
  <2>5. Readable(e) = Readable(b)
    <3>0. /\ b.read \in Nat /\ b.write \in Nat /\ b.size \in Nat /\ Len(b.mem) \in Nat /\ c \in Nat
          /\ b.write <= c /\ b.write <= b.size /\ b.size <= Len(b.mem)
      BY <1>0, <2>2
    <3>1. \A i \in 1 .. b.write - b.read :
            b.read + i \in 1 .. c /\ b.read + i \in 1 .. Len(b.mem) /\ b.read + i <= b.size
      <4> SUFFICES ASSUME NEW i \in 1 .. b.write - b.read
                   PROVE  b.read + i \in 1 .. c /\ b.read + i \in 1 .. Len(b.mem) /\ b.read + i <= b.size
        OBVIOUS
      <4>1. i \in Int /\ i >= 1 /\ b.read + i <= b.write
        BY <3>0
      <4> HIDE DEF c
      <4> QED
        BY <3>0, <4>1
    <3>2. e.write = b.write /\ e.read = b.read /\ e.mem = mem /\ DOMAIN mem = 1 .. c
      BY <2>1
    <3>3. DOMAIN b.mem = 1 .. Len(b.mem)
      BY <1>0
    <3> QED
      BY <3>1, <3>2, <3>3 DEF Readable
  <2>6. e.write + len <= Capacity(e)
    BY <2>1, <2>2, <2>3, <1>0 DEF Capacity, n
  <2> QED
    BY <2>4, <2>5, <2>6 DEF InOrder
<1>2. CASE ~(b.read + WriteableBytes(b) < len)
  <2> DEFINE r == Readable(b)
             mem == Put(b.mem, 0, r)
  <2>0. ~(b.read > b.write)
    BY <1>0
  <2>1. e = [mem |-> mem, size |-> b.size, read |-> 0, write |-> b.write - b.read]
    <3>1. b = [mem |-> b.mem, size |-> b.size, read |-> b.read, write |-> b.write]
      BY DEF Buffers
    <3>2. e = [b EXCEPT !.mem = mem, !.read = 0, !.write = b.write - b.read]
      BY <1>2, <2>0 DEF MakeSpace, ReadableBytes
    <3> HIDE DEF mem, e
    <3> QED
      BY <3>1, <3>2
  <2>2. r \in Seq(Data) /\ Len(r) = b.write - b.read /\ 0 + Len(r) <= Len(b.mem)
    BY <1>0, ReadableBytesOf
  <2>3. /\ mem \in Seq(Data) /\ Len(mem) = Len(b.mem)
        /\ \A i \in 1 .. Len(mem) : i <= Len(r) => mem[i] = r[i]
    BY <2>2, <1>0, PutIntoMemory
  <2> HIDE DEF r, mem
  <2>4. e \in Buffers(Data) /\ Allocated(e) /\ InOrder(e)
    BY <2>1, <2>2, <2>3, <1>0 DEF Buffers, Allocated, InOrder, Capacity
  <2>5. /\ Len(Readable(e)) = Len(r) /\ Readable(e) \in Seq(Data)
        /\ \A i \in 1 .. Len(r) : Readable(e)[i] = mem[i]
    BY <2>1, <2>2, <2>4, ReadableBytesOf
  <2>6. Readable(e) = r
    <3>1. Len(r) <= Len(mem) /\ Len(r) \in Nat
      BY <2>2, <2>3, <1>0
    <3>2. \A i \in 1 .. Len(r) : i \in 1 .. Len(mem) /\ i <= Len(r)
      BY <3>1, <1>0, <2>3
    <3>3. \A i \in 1 .. Len(r) : Readable(e)[i] = r[i]
      BY <2>3, <2>5, <3>2
    <3> QED
      BY <2>2, <2>5, <3>3, SameElements
  <2>7. e.write + len <= Capacity(e)
    BY <1>2, <2>1, <2>3, <1>0 DEF Capacity, WriteableBytes
  <2> QED
    BY <2>4, <2>6, <2>7 DEF InOrder, r
<1> QED
  BY <1>1, <1>2

\* append: the buffer is a queue, if its indexes are in order.
THEOREM AppendIsFifo ==
    ASSUME NEW Data, Zero \in Data, NEW b \in Buffers(Data), InOrder(b), Allocated(b),
           NEW data \in Seq(Data)
    PROVE  /\ AppendTo(b, data) \in Buffers(Data) /\ Allocated(AppendTo(b, data))
           /\ AppendTo(b, data).read <= AppendTo(b, data).write
           /\ AppendTo(b, data).write <= Capacity(AppendTo(b, data))
           /\ Readable(AppendTo(b, data)) = Readable(b) \o data
<1> DEFINE e == EnsureWriteableBytes(b, Len(data))
           a == AppendTo(b, data)
<1>0. /\ b.read \in Nat /\ b.write \in Nat /\ b.size \in Nat /\ b.mem \in Seq(Data)
      /\ Len(b.mem) \in Nat /\ Len(data) \in Nat
      /\ b.read <= b.write /\ b.write <= b.size /\ b.size <= Len(b.mem)
  BY DEF Buffers, InOrder, Allocated, Capacity
<1>1. /\ e \in Buffers(Data) /\ Allocated(e) /\ InOrder(e)
      /\ e.write + Len(data) <= Capacity(e)
      /\ Readable(e) = Readable(b)
  <2>1. CASE Len(data) > WriteableBytes(b)
    BY <2>1, <1>0, MakeSpaceKeeps DEF EnsureWriteableBytes, InOrder
  <2>2. CASE ~(Len(data) > WriteableBytes(b))
    BY <2>2, <1>0 DEF EnsureWriteableBytes, WriteableBytes, Capacity
  <2> QED
    BY <2>1, <2>2
<1> DEFINE mem == Put(e.mem, e.write, data)
<1> HIDE DEF e
<1>2. a = [mem |-> mem, size |-> e.size, read |-> e.read, write |-> e.write + Len(data)]
  <2>1. a = [e EXCEPT !.mem = mem, !.write = @ + Len(data)]
    BY DEF AppendTo, e
  <2> HIDE DEF a, mem
  <2> QED
    BY <2>1, <1>1 DEF Buffers
<1> HIDE DEF a
<1>3. /\ e.read \in Nat /\ e.write \in Nat /\ e.size \in Nat /\ e.mem \in Seq(Data)
      /\ Len(e.mem) \in Nat /\ e.read <= e.write /\ e.write + Len(data) <= Len(e.mem)
      /\ e.size <= Len(e.mem)
  BY <1>1 DEF Buffers, InOrder, Allocated, Capacity
<1>4. /\ mem \in Seq(Data) /\ Len(mem) = Len(e.mem)
      /\ \A i \in 1 .. Len(mem) :
            mem[i] = IF i > e.write /\ i <= e.write + Len(data) THEN data[i - e.write] ELSE e.mem[i]
  BY <1>3, PutIntoMemory
<1> HIDE DEF mem
<1>5. a \in Buffers(Data) /\ Allocated(a) /\ a.read <= a.write /\ a.write <= Capacity(a)
  <2>1. a.mem = mem /\ a.size = e.size /\ a.read = e.read /\ a.write = e.write + Len(data)
    BY <1>2
  <2>2. a.write \in Nat /\ a.read <= a.write /\ a.write <= Len(a.mem) /\ a.size <= Len(a.mem)
    BY <1>0, <1>3, <1>4, <2>1
  <2>3. a \in Buffers(Data)
    BY <1>2, <1>3, <1>4, <2>1, <2>2 DEF Buffers
  <2> QED
    BY <2>2, <2>3 DEF Allocated, Capacity
<1> DEFINE n == e.write - e.read
<1>6. Readable(a) = [i \in 1 .. n + Len(data) |-> mem[e.read + i]]
  <2>1. a.write - a.read = n + Len(data) /\ a.read = e.read /\ a.mem = mem
    BY <1>0, <1>2, <1>3
  <2>2. \A i \in 1 .. n + Len(data) : e.read + i \in DOMAIN mem
    BY <1>0, <1>3, <1>4
  <2> QED
    BY <2>1, <2>2 DEF Readable
<1>7. /\ Readable(e) \in Seq(Data) /\ Len(Readable(e)) = n
      /\ \A i \in 1 .. n : Readable(e)[i] = e.mem[e.read + i]
  BY <1>1, ReadableBytesOf
<1>8. \A i \in 1 .. n + Len(data) :
        mem[e.read + i] = IF i <= n THEN Readable(e)[i] ELSE data[i - n]
  <2> SUFFICES ASSUME NEW i \in 1 .. n + Len(data)
               PROVE  mem[e.read + i] = IF i <= n THEN Readable(e)[i] ELSE data[i - n]
    OBVIOUS
  <2>0. /\ e.read \in Nat /\ e.write \in Nat /\ Len(data) \in Nat /\ Len(mem) \in Nat
        /\ e.read <= e.write /\ e.write + Len(data) <= Len(mem)
    <3>1. Len(mem) = Len(e.mem)
      BY <1>4
    <3> QED
      BY <1>0, <1>3, <3>1
  <2>1. e.read + i \in 1 .. Len(mem) /\ n \in Nat
    BY <2>0
  <2>2. CASE i <= n
    <3>1. ~(e.read + i > e.write) /\ i \in 1 .. n
      BY <2>2, <1>3
    <3>2. mem[e.read + i] = e.mem[e.read + i]
      <4>1. \A j \in 1 .. Len(mem) : ~(j > e.write) => mem[j] = e.mem[j]
        BY <1>4
      <4> QED
        BY <4>1, <3>1, <2>1
    <3>3. Readable(e)[i] = e.mem[e.read + i]
      BY <3>1, <1>7
    <3> QED
      BY <2>2, <3>2, <3>3
  <2>3. CASE ~(i <= n)
    <3>1. e.read + i > e.write /\ e.read + i <= e.write + Len(data) /\ (e.read + i) - e.write = i - n
      BY <2>3, <1>0, <1>3
    <3>2. mem[e.read + i] = data[(e.read + i) - e.write]
      <4>1. \A j \in 1 .. Len(mem) :
                j > e.write /\ j <= e.write + Len(data) => mem[j] = data[j - e.write]
        BY <1>4
      <4> QED
        BY <4>1, <3>1, <2>1
    <3> QED
      BY <2>3, <3>1, <3>2
  <2> QED
    BY <2>2, <2>3
<1>9. Readable(a) = Readable(e) \o data
  <2> DEFINE r == Readable(e)
             s == [i \in 1 .. n + Len(data) |-> mem[e.read + i]]
  <2>1. r \in Seq(Data) /\ Len(r) = n /\ n \in Nat
    BY <1>3, <1>7
  <2>2. /\ r \o data \in Seq(Data) /\ Len(r \o data) = n + Len(data)
        /\ \A i \in 1 .. n + Len(data) :
              (r \o data)[i] = IF i <= n THEN r[i] ELSE data[i - n]
    <3> HIDE DEF r
    <3> QED
      BY <2>1, <1>0, ConcatProperties
  <2>3. s \in Seq(Data) /\ Len(s) = n + Len(data)
    <3>1. Len(mem) = Len(e.mem) /\ mem \in Seq(Data)
      BY <1>4
    <3>2. \A i \in 1 .. n + Len(data) : e.read + i \in 1 .. Len(mem)
      <4>1. /\ e.read \in Nat /\ n \in Nat /\ Len(data) \in Nat /\ Len(mem) \in Nat
            /\ e.read + n + Len(data) <= Len(mem)
        BY <1>0, <1>3, <3>1
      <4> HIDE DEF n
      <4> QED
        BY <4>1
    <3>3. s \in [1 .. n + Len(data) -> Data]
      BY <3>1, <3>2
    <3>4. n + Len(data) \in Nat
      BY <2>1, <1>0
    <3> HIDE DEF s, n
    <3> QED
      BY <3>3, <3>4
  <2>4. \A i \in 1 .. n + Len(data) : s[i] = (r \o data)[i]
    BY <2>2, <1>8
  <2> HIDE DEF r, s, n
  <2>5. s = r \o data
    BY <2>2, <2>3, <2>4, SameElements
  <2> QED
    BY <2>5, <1>6 DEF r, s
<1> QED
  BY <1>1, <1>5, <1>9 DEF a

\* retrive: the first bytes go, all of them if there are not more.
THEOREM RetriveDrops ==
    ASSUME NEW Data, NEW b \in Buffers(Data), InOrder(b), Allocated(b), NEW len \in Nat
    PROVE  /\ Retrive(b, len) \in Buffers(Data) /\ Allocated(Retrive(b, len))
           /\ InOrder(Retrive(b, len))
           /\ Readable(Retrive(b, len)) = SubSeq(Readable(b), len + 1, Len(Readable(b)))
<1>0. /\ b.read \in Nat /\ b.write \in Nat /\ b.size \in Nat /\ b.mem \in Seq(Data)
      /\ Len(b.mem) \in Nat
      /\ b.read <= b.write /\ b.write <= b.size /\ b.size <= Len(b.mem)
  BY DEF Buffers, InOrder, Allocated, Capacity
<1> DEFINE e == Retrive(b, len)
           r == Readable(b)
<1>1. /\ r \in Seq(Data) /\ Len(r) = b.write - b.read
      /\ \A i \in 1 .. b.write - b.read : r[i] = b.mem[b.read + i]
  BY ReadableBytesOf
<1>2. CASE len < ReadableBytes(b)
  <2>1. e = [mem |-> b.mem, size |-> b.size, read |-> b.read + len, write |-> b.write]
    BY <1>2 DEF Retrive, Buffers
  <2>2. e \in Buffers(Data) /\ Allocated(e) /\ InOrder(e)
    BY <1>0, <1>2, <2>1 DEF Buffers, Allocated, InOrder, Capacity, ReadableBytes
  <2> HIDE DEF e, r
  <2>3. /\ Readable(e) \in Seq(Data) /\ Len(Readable(e)) = Len(r) - len
        /\ \A i \in 1 .. Len(r) - len : Readable(e)[i] = b.mem[b.read + len + i]
    <3>1. e.write - e.read = Len(r) - len /\ e.read = b.read + len /\ e.mem = b.mem
      BY <2>1, <1>0, <1>1
    <3> QED
      BY <3>1, <2>2, ReadableBytesOf
  <2>4. \A i \in 1 .. Len(r) - len : len + i \in 1 .. Len(r) /\ b.read + (len + i) = b.read + len + i
    BY <1>0, <1>1
  <2>5. \A i \in 1 .. Len(r) - len : Readable(e)[i] = r[len + i]
    BY <2>3, <2>4, <1>1
  <2>6. /\ SubSeq(r, len + 1, Len(r)) \in Seq(Data)
        /\ Len(SubSeq(r, len + 1, Len(r))) = Len(r) - len
        /\ \A i \in 1 .. Len(r) - len : SubSeq(r, len + 1, Len(r))[i] = r[len + i]
    BY <1>0, <1>1, <1>2 DEF ReadableBytes
  <2>7. Readable(e) = SubSeq(r, len + 1, Len(r))
    BY <2>3, <2>5, <2>6, SameElements
  <2> QED
    BY <2>2, <2>7 DEF e, r
<1>3. CASE ~(len < ReadableBytes(b))
  <2>1. e = [mem |-> b.mem, size |-> b.size, read |-> 0, write |-> 0]
    BY <1>3 DEF Retrive, Buffers
  <2>2. e \in Buffers(Data) /\ Allocated(e) /\ InOrder(e)
    BY <1>0, <2>1 DEF Buffers, Allocated, InOrder, Capacity
  <2>3. Readable(e) = <<>>
    <3>1. Readable(e) \in Seq(Data) /\ Len(Readable(e)) = 0
      BY <2>1, <2>2, ReadableBytesOf
    <3> QED
      BY <3>1
  <2>4. SubSeq(r, len + 1, Len(r)) = <<>>
    BY <1>0, <1>1, <1>3 DEF ReadableBytes
  <2> QED
    BY <2>2, <2>3, <2>4
<1> QED
  BY <1>2, <1>3

------------------------------------------------------------------------------
(* The output of a connection                                              *)

\* What a record of output satisfies as long as it is tight.
InOrderOver(Data, o) ==
    /\ o.tight \in BOOLEAN
    /\ o.tight => /\ o.buffer \in Buffers(Data) /\ IsTight(o.buffer) /\ InOrder(o.buffer)
                  /\ o.received \in Seq(Data) /\ o.owed \in Seq(Data)
                  /\ o.received \o Unsent(o) = o.owed

\* A sequence cut in two is what its parts make up.
LEMMA CutInTwo ==
    ASSUME NEW Data, NEW s \in Seq(Data), NEW n \in 0 .. Len(s)
    PROVE  /\ SubSeq(s, 1, n) \in Seq(Data) /\ SubSeq(s, n + 1, Len(s)) \in Seq(Data)
           /\ SubSeq(s, 1, n) \o SubSeq(s, n + 1, Len(s)) = s
<1>1. 1 \in 1 .. Len(s) + 1 /\ n \in 1 - 1 .. Len(s) /\ Len(s) \in n .. Len(s)
  OBVIOUS
<1>2. SubSeq(s, 1, n) \o SubSeq(s, n + 1, Len(s)) = SubSeq(s, 1, Len(s))
  BY <1>1, ConcatAdjacentSubSeq, Zenon
<1>3. SubSeq(s, 1, n) \in Seq(Data) /\ SubSeq(s, n + 1, Len(s)) \in Seq(Data)
  OBVIOUS
<1> QED
  BY <1>2, <1>3, SubSeqFull

\* And how long the parts are.
LEMMA CutLengths ==
    ASSUME NEW Data, NEW s \in Seq(Data), NEW n \in 0 .. Len(s)
    PROVE  Len(SubSeq(s, 1, n)) = n /\ Len(SubSeq(s, n + 1, Len(s))) = Len(s) - n
  OBVIOUS

\* Concatenation under a name, which the provers leave as it is.
Cat(s, t) == s \o t

\* What lies behind can be joined to what is in front in any order.
LEMMA CatAssociative ==
    ASSUME NEW Data, NEW r \in Seq(Data), NEW s \in Seq(Data), NEW t \in Seq(Data)
    PROVE  Cat(Cat(r, s), t) = Cat(r, Cat(s, t))
  BY ConcatAssociative DEF Cat

\* The empty sequence adds nothing.
LEMMA CatEmpty ==
    ASSUME NEW Data, NEW r \in Seq(Data)
    PROVE  Cat(r, <<>>) = r /\ Cat(<<>>, r) = r
  BY ConcatEmptySeq DEF Cat

\* A response passed on, s of it at once and t to wait: nothing may be written
\* at once while u waits.
LEMMA WaitsBehind ==
    ASSUME NEW Data, NEW r \in Seq(Data), NEW u \in Seq(Data), NEW s \in Seq(Data),
           NEW t \in Seq(Data), s = <<>> \/ u = <<>>
    PROVE  Cat(Cat(r, s), Cat(u, t)) = Cat(Cat(r, u), Cat(s, t))
<1>1. CASE s = <<>>
  BY <1>1, CatEmpty, CatAssociative
<1>2. CASE u = <<>>
  BY <1>2, CatEmpty, CatAssociative
<1> QED
  BY <1>1, <1>2

\* append to outBuffer, if that is still tight after it.
LEMMA AppendTight ==
    ASSUME NEW Data, Zero \in Data, NEW b \in Buffers(Data), IsTight(b), InOrder(b),
           NEW data \in Seq(Data), IsTight(AppendTo(b, data))
    PROVE  /\ AppendTo(b, data) \in Buffers(Data) /\ InOrder(AppendTo(b, data))
           /\ Readable(AppendTo(b, data)) = Readable(b) \o data
<1> DEFINE a == AppendTo(b, data)
<1>1. b.size \in Nat /\ Allocated(b)
  BY DEF Buffers, IsTight, Allocated
<1>2. /\ a \in Buffers(Data) /\ a.write <= Capacity(a) /\ a.read <= a.write
      /\ Readable(a) = Readable(b) \o data
  BY <1>1, AppendIsFifo
<1>3. a.write <= a.size
  BY <1>2 DEF IsTight
<1> QED
  BY <1>2, <1>3 DEF InOrder

\* sendinLoop when write() takes n units: none but when nothing is under way.
LEMMA PassedInOrder ==
    ASSUME NEW Data, Zero \in Data, NEW o, InOrderOver(Data, o), NEW data \in Seq(Data),
           NEW n \in 0 .. Len(data), n = 0 \/ Direct(o)
    PROVE  InOrderOver(Data, Passed(o, data, n))
<1> DEFINE sent == SubSeq(data, 1, n)
           rest == SubSeq(data, n + 1, Len(data))
           b == IF rest = <<>> THEN o.buffer ELSE AppendTo(o.buffer, rest)
           p == Passed(o, data, n)
<1>1. /\ p.buffer = b /\ p.received = o.received \o sent /\ p.owed = o.owed \o data
      /\ p.tight = (o.tight /\ IsTight(b))
  BY DEF Passed
<1>2. sent \in Seq(Data) /\ rest \in Seq(Data) /\ sent \o rest = data
  BY CutInTwo
<1>3. p.tight \in BOOLEAN
  BY <1>1
<1>4. ASSUME p.tight
      PROVE  /\ p.buffer \in Buffers(Data) /\ IsTight(p.buffer) /\ InOrder(p.buffer)
             /\ p.received \in Seq(Data) /\ p.owed \in Seq(Data)
             /\ p.received \o Unsent(p) = p.owed
  <2>1. /\ o.buffer \in Buffers(Data) /\ IsTight(o.buffer) /\ InOrder(o.buffer)
        /\ o.received \in Seq(Data) /\ o.owed \in Seq(Data)
        /\ o.received \o Unsent(o) = o.owed
    BY <1>1, <1>4 DEF InOrderOver
  <2>2. IsTight(b)
    BY <1>1, <1>4
  <2>3. Unsent(o) \in Seq(Data) /\ (Direct(o) => Unsent(o) = <<>>)
    <3>1. Allocated(o.buffer)
      BY <2>1 DEF Buffers, IsTight, Allocated
    <3>2. /\ Readable(o.buffer) \in Seq(Data)
          /\ Len(Readable(o.buffer)) = o.buffer.write - o.buffer.read
      BY <2>1, <3>1, ReadableBytesOf
    <3>3. Direct(o) => Len(Readable(o.buffer)) = 0
      BY <3>2 DEF Direct, ReadableBytes
    <3> QED
      BY <3>2, <3>3, EmptySeq DEF Unsent
  <2>4. b \in Buffers(Data) /\ InOrder(b) /\ Readable(b) = Unsent(o) \o rest
    <3>1. CASE rest = <<>>
      <4>1. b = o.buffer /\ Unsent(o) \o rest = Unsent(o)
        BY <3>1, <2>3, ConcatEmptySeq
      <4> QED
        BY <4>1, <2>1 DEF Unsent
    <3>2. CASE rest # <<>>
      <4>1. b = AppendTo(o.buffer, rest)
        BY <3>2
      <4> QED
        BY <4>1, <2>1, <2>2, <1>2, AppendTight DEF Unsent
    <3> QED
      BY <3>1, <3>2
  <2> HIDE DEF p, b, rest
  <2>5. (o.received \o sent) \o (Unsent(o) \o rest) = o.owed \o data
    <3>1. sent = <<>> \/ Unsent(o) = <<>>
      BY <2>3
    <3> HIDE DEF sent
    <3> DEFINE r == o.received
               u == Unsent(o)
    <3>2. /\ r \in Seq(Data) /\ u \in Seq(Data) /\ sent \in Seq(Data) /\ rest \in Seq(Data)
          /\ sent = <<>> \/ u = <<>>
      BY <1>2, <2>1, <2>3, <3>1
    <3> HIDE DEF r, u
    <3>3. Cat(Cat(r, sent), Cat(u, rest)) = Cat(Cat(r, u), Cat(sent, rest))
      BY <3>2, WaitsBehind
    <3> QED
      BY <3>3, <2>1, <1>2 DEF r, u, Cat
  <2>6. p.received \in Seq(Data) /\ p.owed \in Seq(Data)
    <3> HIDE DEF sent
    <3> QED
      BY <1>1, <1>2, <2>1, ConcatProperties
  <2> QED
    BY <1>1, <2>2, <2>4, <2>5, <2>6 DEF Unsent
<1> QED
  BY <1>3, <1>4 DEF InOrderOver

\* sendinLoop, whatever write() does.
LEMMA SentInOrder ==
    ASSUME NEW Data, Zero \in Data, NEW o, InOrderOver(Data, o), NEW data \in Seq(Data),
           NEW p \in Sent(o, data)
    PROVE  InOrderOver(Data, p)
<1>1. CASE Direct(o)
  <2>1. Taken(Len(data)) \subseteq 0 .. Len(data)
    BY DEF Taken
  <2>2. p = o \/ \E n \in 0 .. Len(data) : p = Passed(o, data, n)
    BY <1>1, <2>1 DEF Sent, Failed
  <2> QED
    BY <1>1, <2>2, PassedInOrder
<1>2. CASE ~Direct(o)
  <2>1. p = Passed(o, data, 0) /\ 0 \in 0 .. Len(data)
    BY <1>2 DEF Sent
  <2> QED
    BY <2>1, PassedInOrder
<1> QED
  BY <1>1, <1>2

\* handleWrite, whatever write() does.
LEMMA WrittenInOrder ==
    ASSUME NEW Data, Zero \in Data, NEW o, InOrderOver(Data, o), NEW p \in Written(o)
    PROVE  InOrderOver(Data, p)
<1>1. CASE p = o
  BY <1>1
<1>2. CASE p # o
  <2>1. PICK n \in Taken(ReadableBytes(o.buffer)) : p = Drained(o, n)
    BY <1>2 DEF Written
  <2> DEFINE b == Retrive(o.buffer, n)
             u == Unsent(o)
  <2>2. /\ p.buffer = b /\ p.received = o.received \o SubSeq(u, 1, n)
        /\ p.owed = o.owed /\ p.tight = o.tight
    BY <2>1 DEF Drained
  <2>3. ASSUME o.tight
        PROVE  /\ b \in Buffers(Data) /\ IsTight(b) /\ InOrder(b)
               /\ p.received \in Seq(Data) /\ p.owed \in Seq(Data)
               /\ p.received \o Readable(b) = p.owed
    <3>1. /\ o.buffer \in Buffers(Data) /\ IsTight(o.buffer) /\ InOrder(o.buffer)
          /\ o.received \in Seq(Data) /\ o.owed \in Seq(Data) /\ o.received \o u = o.owed
      BY <2>3 DEF InOrderOver
    <3>2. Allocated(o.buffer)
      BY <3>1 DEF Buffers, IsTight, Allocated
    <3>3. u \in Seq(Data) /\ Len(u) = ReadableBytes(o.buffer)
      BY <3>1, <3>2, ReadableBytesOf DEF Unsent, ReadableBytes
    <3>4. n \in 0 .. Len(u) /\ n \in Nat
      BY <3>3, <2>1 DEF Taken
    <3>5. /\ b \in Buffers(Data) /\ InOrder(b)
          /\ Readable(b) = SubSeq(u, n + 1, Len(u))
      BY <3>1, <3>2, <3>4, RetriveDrops DEF Unsent
    <3>6. IsTight(b)
      BY <3>1 DEF Retrive, IsTight, Capacity, Buffers
    <3>7. /\ SubSeq(u, 1, n) \in Seq(Data) /\ SubSeq(u, n + 1, Len(u)) \in Seq(Data)
          /\ SubSeq(u, 1, n) \o SubSeq(u, n + 1, Len(u)) = u
      BY <3>3, <3>4, CutInTwo
    <3> DEFINE v == SubSeq(u, 1, n)
               w == SubSeq(u, n + 1, Len(u))
    <3> HIDE DEF u, b, v, w
    <3>8. (o.received \o v) \o w = o.owed
      <4>1. v \in Seq(Data) /\ w \in Seq(Data) /\ v \o w = u
        BY <3>7 DEF v, w
      <4>2. (o.received \o v) \o w = o.received \o (v \o w)
        <5> DEFINE r == o.received
        <5>1. r \in Seq(Data) /\ v \in Seq(Data) /\ w \in Seq(Data)
          BY <3>1, <4>1
        <5> HIDE DEF r
        <5>2. Cat(Cat(r, v), w) = Cat(r, Cat(v, w))
          BY <5>1, CatAssociative
        <5> QED
          BY <5>2 DEF r, Cat
      <4> QED
        BY <4>1, <4>2, <3>1
    <3>9. p.received = o.received \o v /\ Readable(b) = w /\ v \in Seq(Data)
      BY <2>2, <3>5, <3>7 DEF v, w
    <3> QED
      BY <3>1, <3>5, <3>6, <3>8, <3>9, <2>2, ConcatProperties
  <2> QED
    BY <2>2, <2>3 DEF InOrderOver, Unsent
<1> QED
  BY <1>1, <1>2

\* An empty buffer.
LEMMA EmptyBuffer ==
    ASSUME NEW Data, Zero \in Data
    PROVE  /\ NewBuffer \in Buffers(Data) /\ IsTight(NewBuffer) /\ InOrder(NewBuffer)
           /\ Readable(NewBuffer) = <<>> /\ Inside(NewBuffer)
<1> DEFINE mem == [i \in 1 .. InitSize |-> Zero]
<1>1. mem \in Seq(Data) /\ Len(mem) = InitSize /\ InitSize \in Nat /\ InitSize > 0
  BY BufferConstants
<1>2. mem # <<>>
  BY <1>1
<1> HIDE DEF mem
<1>3. NewBuffer = [mem |-> mem, size |-> InitSize, read |-> 0, write |-> 0]
  BY DEF NewBuffer, mem
<1> QED
  BY <1>1, <1>2, <1>3 DEF Buffers, IsTight, InOrder, Capacity, Readable, Inside, Runaway, Broken

\* An empty outBuffer.
LEMMA NewOutputInOrder ==
    ASSUME NEW Data, Zero \in Data
    PROVE  InOrderOver(Data, NewOutput)
<1>1. /\ NewBuffer \in Buffers(Data) /\ IsTight(NewBuffer) /\ InOrder(NewBuffer)
      /\ Readable(NewBuffer) = <<>>
  BY EmptyBuffer
<1>2. <<>> \in Seq(Data) /\ <<>> \o <<>> = <<>>
  OBVIOUS
<1> QED
  BY <1>1, <1>2 DEF NewOutput, InOrderOver, Unsent

\* However long the responses are and however write() cuts them up, a client
\* receives them in the order of the calls of send(), without gaps inside one
\* and missing as a whole those whose first write() failed, as long as outBuffer
\* keeps what it is given (Connection.cpp:71-131).
THEOREM OutputInOrder ==
    ASSUME NEW CONSTANT Data, Zero \in Data, Responses \subseteq Seq(Data)
    PROVE  OutputSpec => []ResponsesInOrder
<1> DEFINE Inv == InOrderOver(Data, out)
<1>1. OutputInit => Inv
  BY NewOutputInOrder DEF OutputInit
<1>2. Inv /\ [Send \/ HandleWrite]_out => Inv'
  <2> SUFFICES ASSUME Inv, [Send \/ HandleWrite]_out
               PROVE  Inv'
    OBVIOUS
  <2>1. CASE Send
    BY <2>1, SentInOrder DEF Send
  <2>2. CASE HandleWrite
    BY <2>2, WrittenInOrder DEF HandleWrite
  <2>3. CASE UNCHANGED out
    BY <2>3
  <2> QED
    BY <2>1, <2>2, <2>3
<1>3. Inv => ResponsesInOrder
  BY DEF InOrderOver, ResponsesInOrder
<1> QED
  BY <1>1, <1>2, <1>3, PTL DEF OutputSpec
------------------------------------------------------------------------------
(* The buffer of a connection's input                                      *)

\* append: room enough is made, but where writeIndex was below readIndex.
LEMMA AppendInside ==
    ASSUME NEW Data, Zero \in Data, NEW b \in Buffers(Data), b.mem # Broken,
           b.size <= Capacity(b), b.write <= Capacity(b), NEW data \in Seq(Data)
    PROVE  LET c == AppendTo(b, data) IN
           /\ c \in Buffers(Data)
           /\ Runaway(c) => b.write < b.read /\ c.size = b.size /\ c.read = b.read
           /\ ~Runaway(c) => Inside(c)
<1> DEFINE len == Len(data)
           e == EnsureWriteableBytes(b, len)
           c == AppendTo(b, data)
<1>0. /\ b.read \in Nat /\ b.write \in Nat /\ b.size \in Nat /\ b.mem \in Seq(Data)
      /\ Len(b.mem) \in Nat /\ Len(b.mem) > 0 /\ len \in Nat
      /\ b.size <= Len(b.mem) /\ b.write <= Len(b.mem)
      /\ WriteableBytes(b) = Len(b.mem) - b.write
      /\ b = [mem |-> b.mem, size |-> b.size, read |-> b.read, write |-> b.write]
  BY EmptySeq DEF Buffers, Capacity, WriteableBytes, Broken
<1>1. c = [e EXCEPT !.mem = Put(e.mem, e.write, data), !.write = @ + len]
  BY DEF AppendTo
<1>2. ASSUME NEW mem \in Seq(Data), NEW size \in Nat, NEW read \in Nat, NEW write \in Nat,
             e = [mem |-> mem, size |-> size, read |-> read, write |-> write],
             write + len <= Len(mem), size <= Len(mem), Len(mem) > 0
      PROVE  /\ c \in Buffers(Data) /\ c.size = size /\ c.read = read /\ c.write = write + len
             /\ ~Runaway(c) <=> read <= write + len
             /\ ~Runaway(c) => Inside(c)
  <2> DEFINE put == Put(mem, write, data)
  <2>1. put \in Seq(Data) /\ Len(put) = Len(mem)
    BY <1>2, PutIntoMemory
  <2>2. put # Broken
    BY <1>2, <2>1 DEF Broken
  <2> HIDE DEF put, e, len
  <2>3. c = [mem |-> put, size |-> size, read |-> read, write |-> write + len]
    BY <1>1, <1>2 DEF put
  <2>4. len \in Nat
    BY <1>0
  <2> HIDE DEF c
  <2>5. c \in Buffers(Data)
    BY <2>1, <2>3, <2>4 DEF Buffers
  <2>6. ~Runaway(c) <=> read <= write + len
    BY <2>2, <2>3, <2>4 DEF Runaway
  <2>7. ~Runaway(c) => Inside(c)
    BY <1>2, <2>1, <2>3 DEF Inside, Capacity
  <2> QED
    BY <2>3, <2>5, <2>6, <2>7
<1>3. CASE ~(len > WriteableBytes(b))
  <2>1. e = [mem |-> b.mem, size |-> b.size, read |-> b.read, write |-> b.write]
    BY <1>0, <1>3 DEF EnsureWriteableBytes
  <2>2. b.write + len <= Len(b.mem)
    BY <1>0, <1>3
  <2> HIDE DEF e, c
  <2>3. /\ c \in Buffers(Data) /\ c.size = b.size /\ c.read = b.read
        /\ ~Runaway(c) <=> b.read <= b.write + len
        /\ ~Runaway(c) => Inside(c)
    BY <1>0, <1>2, <2>1, <2>2
  <2> QED
    BY <1>0, <2>3 DEF c
<1>4. CASE len > WriteableBytes(b) /\ b.read + WriteableBytes(b) < len
  <2> DEFINE n == b.write + len
             k == IF n > 2 * b.size THEN n ELSE 2 * b.size
             mem == [i \in 1 .. k |-> IF i <= b.size THEN b.mem[i] ELSE Zero]
  <2>1. e = [mem |-> mem, size |-> n, read |-> b.read, write |-> b.write]
    BY <1>4, <1>0 DEF EnsureWriteableBytes, MakeSpace, Resize
  <2>2. n \in Nat /\ k \in Nat /\ n <= k /\ k > 0 /\ b.read <= n
    BY <1>0, <1>4
  <2>3. mem \in Seq(Data) /\ Len(mem) = k
    <3>1. \A i \in 1 .. k : i <= b.size => b.mem[i] \in Data
      BY <1>0, <2>2
    <3>2. mem \in [1 .. k -> Data]
      BY <3>1
    <3> HIDE DEF mem, k
    <3> QED
      BY <3>2, <2>2
  <2>4. n = b.write + len
    OBVIOUS
  <2> HIDE DEF n, k, mem, e, c, len
  <2>5. c \in Buffers(Data) /\ ~Runaway(c) /\ Inside(c)
    <3>1. b.write + len <= Len(mem) /\ n <= Len(mem) /\ Len(mem) > 0
      BY <2>2, <2>3, <2>4
    <3>2. c \in Buffers(Data) /\ (~Runaway(c) <=> b.read <= b.write + len) /\ (~Runaway(c) => Inside(c))
      BY <1>0, <1>2, <2>1, <2>2, <2>3, <3>1
    <3> QED
      BY <2>2, <2>4, <3>2
  <2> QED
    BY <2>5 DEF c
<1>5. CASE len > WriteableBytes(b) /\ ~(b.read + WriteableBytes(b) < len) /\ b.read > b.write
  <2>1. e = [mem |-> Broken, size |-> b.size, read |-> b.read, write |-> b.write]
    BY <1>5, <1>0 DEF EnsureWriteableBytes, MakeSpace
  <2>2. Put(Broken, b.write, data) = Broken
    <3>1. Len(Broken) = 0 /\ b.write + len > 0
      BY <1>0, <1>5 DEF Broken
    <3> QED
      BY <3>1 DEF Put
  <2> HIDE DEF e
  <2>3. c = [mem |-> Broken, size |-> b.size, read |-> b.read, write |-> b.write + len]
    BY <1>1, <2>1, <2>2
  <2>4. Broken \in Seq(Data)
    BY DEF Broken
  <2> HIDE DEF c
  <2>5. c \in Buffers(Data) /\ Runaway(c)
    BY <1>0, <2>3, <2>4 DEF Buffers, Runaway
  <2> QED
    BY <1>0, <1>5, <2>3, <2>5 DEF c
<1>6. CASE len > WriteableBytes(b) /\ ~(b.read + WriteableBytes(b) < len) /\ ~(b.read > b.write)
  <2> DEFINE mem == Put(b.mem, 0, Readable(b))
  <2>1. e = [mem |-> mem, size |-> b.size, read |-> 0, write |-> b.write - b.read]
    BY <1>6, <1>0 DEF EnsureWriteableBytes, MakeSpace, ReadableBytes
  <2>2. /\ Readable(b) \in Seq(Data) /\ Len(Readable(b)) = b.write - b.read
    <3>1. b.read <= b.write /\ b.write <= Capacity(b)
      BY <1>0, <1>6
    <3> QED
      BY <3>1, ReadableInMemory
  <2>3. mem \in Seq(Data) /\ Len(mem) = Len(b.mem)
    <3>1. 0 + Len(Readable(b)) <= Len(b.mem) /\ 0 \in Nat
      BY <1>0, <1>6, <2>2
    <3> QED
      BY <2>2, <3>1, PutIntoBuffer
  <2>4. b.write - b.read \in Nat /\ b.write - b.read + len <= Len(mem)
    BY <1>0, <1>6, <2>3
  <2> HIDE DEF mem, e, c, len
  <2>5. /\ c \in Buffers(Data) /\ (~Runaway(c) <=> 0 <= b.write - b.read + len)
        /\ ~Runaway(c) => Inside(c)
    BY <1>0, <1>2, <2>1, <2>3, <2>4
  <2> QED
    BY <1>0, <2>4, <2>5 DEF c
<1> QED
  BY <1>3, <1>4, <1>5, <1>6

\* readFd stays inside the memory and leaves the indexes in order, with slack or
\* without, unless it finds readIndex beyond size() and more than there is room
\* for.
THEOREM ReadFdInside ==
    ASSUME NEW Data, Zero \in Data, NEW b \in Buffers(Data), Inside(b), NEW data \in Seq(Data)
    PROVE  LET c == ReadFd(b, data) IN
           /\ c \in Buffers(Data)
           /\ Runaway(c) => /\ b.size < b.read /\ WriteableBytes(b) < Len(data)
                            /\ c.size = b.size /\ c.read = b.read
           /\ ~Runaway(c) => Inside(c)
<1> DEFINE room == WriteableBytes(b)
           c == ReadFd(b, data)
<1>0. /\ b.read \in Nat /\ b.size \in Nat /\ b.write \in Nat /\ b.mem \in Seq(Data)
      /\ Len(b.mem) \in Nat /\ Len(b.mem) > 0 /\ Len(data) \in Nat
      /\ b.size <= Len(b.mem) /\ b.write <= Len(b.mem) /\ b.read <= b.write
      /\ room = Len(b.mem) - b.write /\ room \in Nat
      /\ b = [mem |-> b.mem, size |-> b.size, read |-> b.read, write |-> b.write]
  BY EmptySeq DEF Buffers, Inside, Capacity, WriteableBytes, Runaway, Broken
<1>2. CASE Len(data) <= room
  <2> DEFINE put == Put(b.mem, b.write, data)
  <2>1. put \in Seq(Data) /\ Len(put) = Len(b.mem)
    BY <1>0, <1>2, PutIntoMemory
  <2>2. c = [mem |-> put, size |-> b.size, read |-> b.read, write |-> b.write + Len(data)]
    BY <1>0, <1>2 DEF ReadFd
  <2> HIDE DEF c, put
  <2>3. c \in Buffers(Data)
    BY <1>0, <2>1, <2>2 DEF Buffers
  <2>4. ~Runaway(c) /\ Inside(c)
    BY <1>0, <1>2, <2>1, <2>2 DEF Runaway, Inside, Capacity, Broken
  <2> QED
    BY <2>3, <2>4 DEF c
<1>3. CASE ~(Len(data) <= room)
  <2> DEFINE part == Put(b.mem, b.write, SubSeq(data, 1, room))
             full == [mem |-> part, size |-> b.size, read |-> b.read, write |-> b.size]
             rest == SubSeq(data, room + 1, Len(data))
  <2>1. c = AppendTo(full, rest)
    <3>1. [b EXCEPT !.mem = part, !.write = b.size] = full
      BY WithMemory
    <3> QED
      BY <1>3, <3>1 DEF ReadFd
  <2>2. /\ SubSeq(data, 1, room) \in Seq(Data) /\ Len(SubSeq(data, 1, room)) = room
        /\ rest \in Seq(Data)
    <3>1. room \in 0 .. Len(data)
      BY <1>0, <1>3
    <3> HIDE DEF room
    <3> QED
      BY <3>1, CutInTwo, CutLengths
  <2>3. part \in Seq(Data) /\ Len(part) = Len(b.mem)
    <3> DEFINE d == SubSeq(data, 1, room)
    <3>0. d \in Seq(Data) /\ Len(d) = room
      BY <2>2
    <3> HIDE DEF d
    <3>1. b.write \in Nat /\ b.write + Len(d) <= Len(b.mem)
      BY <1>0, <3>0
    <3>2. Put(b.mem, b.write, d) \in Seq(Data) /\ Len(Put(b.mem, b.write, d)) = Len(b.mem)
      BY <3>0, <3>1, PutIntoBuffer
    <3> QED
      BY <3>2 DEF d
  <2>4. full \in Buffers(Data) /\ full.mem # Broken
    BY <1>0, <2>3 DEF Buffers, Broken
  <2>5. full.size <= Capacity(full) /\ full.write <= Capacity(full)
    BY <1>0, <2>3 DEF Capacity
  <2>6. full.write = b.size /\ full.size = b.size /\ full.read = b.read
    OBVIOUS
  <2> HIDE DEF full, rest, c
  <2>7. /\ c \in Buffers(Data)
        /\ Runaway(c) => full.write < full.read /\ c.size = full.size /\ c.read = full.read
        /\ ~Runaway(c) => Inside(c)
    BY <2>1, <2>2, <2>4, <2>5, AppendInside
  <2> QED
    BY <1>0, <1>3, <2>6, <2>7 DEF c
<1> QED
  BY <1>2, <1>3

\* readFd: the buffer is a queue, if the vector has no capacity but its size.
THEOREM ReadFdIsFifo ==
    ASSUME NEW Data, Zero \in Data, NEW b \in Buffers(Data), InOrder(b), IsTight(b),
           NEW data \in Seq(Data)
    PROVE  /\ ReadFd(b, data) \in Buffers(Data) /\ Allocated(ReadFd(b, data))
           /\ ReadFd(b, data).read <= ReadFd(b, data).write
           /\ ReadFd(b, data).write <= Capacity(ReadFd(b, data))
           /\ Readable(ReadFd(b, data)) = Readable(b) \o data
<1> DEFINE room == WriteableBytes(b)
<1>0. /\ b.read \in Nat /\ b.write \in Nat /\ b.size \in Nat /\ b.mem \in Seq(Data)
      /\ Len(b.mem) \in Nat /\ Len(data) \in Nat
      /\ b.read <= b.write /\ b.write <= b.size /\ b.size = Len(b.mem)
      /\ room = Len(b.mem) - b.write /\ room \in Nat
  BY DEF Buffers, InOrder, IsTight, Capacity, WriteableBytes
<1>1. Allocated(b)
  BY <1>0 DEF Allocated, Capacity
<1>2. CASE Len(data) <= room
  <2>1. ~(Len(data) > room)
    BY <1>0, <1>2
  <2>2. EnsureWriteableBytes(b, Len(data)) = b
    BY <2>1 DEF EnsureWriteableBytes
  <2>3. AppendTo(b, data) = [b EXCEPT !.mem = Put(b.mem, b.write, data), !.write = @ + Len(data)]
    BY <2>2 DEF AppendTo
  <2>4. ReadFd(b, data) = AppendTo(b, data)
    BY <1>2, <2>3 DEF ReadFd, Buffers
  <2> QED
    BY <1>1, <2>4, AppendIsFifo
<1>3. CASE ~(Len(data) <= room)
  <2> DEFINE part == SubSeq(data, 1, room)
             rest == SubSeq(data, room + 1, Len(data))
             full == [mem |-> Put(b.mem, b.write, part), size |-> b.size, read |-> b.read,
                      write |-> b.size]
  <2>1. /\ room \in 0 .. Len(data) /\ Len(part) = room
        /\ part \in Seq(Data) /\ rest \in Seq(Data) /\ part \o rest = data
    <3>1. room \in 0 .. Len(data)
      BY <1>0, <1>3
    <3>2. Len(part) = room
      BY <1>0, <3>1
    <3> QED
      BY <3>1, <3>2, CutInTwo
  <2>2. b = [mem |-> b.mem, size |-> b.size, read |-> b.read, write |-> b.write]
    BY DEF Buffers
  <2>3. ReadFd(b, data) = AppendTo(full, rest)
    <3>1. [b EXCEPT !.mem = Put(b.mem, b.write, part), !.write = b.size] = full
      BY WithMemory
    <3> QED
      BY <3>1, <1>3 DEF ReadFd
  <2>4. AppendTo(b, part) = full
    <3>1. EnsureWriteableBytes(b, Len(part)) = b
      BY <2>1, <1>0 DEF EnsureWriteableBytes
    <3>2. AppendTo(b, part) = [b EXCEPT !.mem = Put(b.mem, b.write, part), !.write = @ + Len(part)]
      BY <3>1 DEF AppendTo
    <3>4. b.write + Len(part) = b.size
      BY <1>0, <2>1
    <3> HIDE DEF part
    <3> QED
      BY <2>2, <3>2, <3>4
  <2>5. /\ full \in Buffers(Data) /\ Allocated(full) /\ InOrder(full)
        /\ Readable(full) = Readable(b) \o part
    <3>1. /\ AppendTo(b, part) \in Buffers(Data) /\ Allocated(AppendTo(b, part))
          /\ AppendTo(b, part).read <= AppendTo(b, part).write
          /\ Readable(AppendTo(b, part)) = Readable(b) \o part
      BY <1>1, <2>1, AppendIsFifo
    <3>2. full.write = full.size /\ full.size \in Nat
      BY <1>0
    <3> HIDE DEF full, part
    <3> QED
      BY <2>4, <3>1, <3>2 DEF InOrder
  <2> DEFINE r == Readable(b)
  <2>6. r \in Seq(Data)
    BY <1>1, ReadableBytesOf
  <2> HIDE DEF full, part, rest
  <2>7. /\ AppendTo(full, rest) \in Buffers(Data) /\ Allocated(AppendTo(full, rest))
        /\ AppendTo(full, rest).read <= AppendTo(full, rest).write
        /\ AppendTo(full, rest).write <= Capacity(AppendTo(full, rest))
        /\ Readable(AppendTo(full, rest)) = Readable(full) \o rest
    BY <2>1, <2>5, AppendIsFifo
  <2>8. Readable(full) \o rest = Readable(b) \o data
    <3> HIDE DEF r
    <3>1. Cat(Cat(r, part), rest) = Cat(r, Cat(part, rest))
      BY <2>1, <2>6, CatAssociative
    <3> QED
      BY <3>1, <2>1, <2>5 DEF Cat, r
  <2> QED
    BY <2>3, <2>7, <2>8
<1> QED
  BY <1>2, <1>3

\* append: a vector with room enough is neither grown nor shrunk.
LEMMA AppendKeepsSize ==
    ASSUME NEW Data, NEW b \in Buffers(Data), b.read <= b.write, b.write <= Capacity(b),
           NEW data \in Seq(Data), Len(data) <= b.read + WriteableBytes(b)
    PROVE  /\ AppendTo(b, data).size = b.size
           /\ Capacity(AppendTo(b, data)) = Capacity(b)
<1> DEFINE len == Len(data)
           e == EnsureWriteableBytes(b, len)
<1>0. /\ b.read \in Nat /\ b.write \in Nat /\ b.mem \in Seq(Data) /\ Len(b.mem) \in Nat
      /\ len \in Nat /\ b.read <= b.write /\ b.write <= Len(b.mem)
      /\ WriteableBytes(b) = Len(b.mem) - b.write
  BY DEF Buffers, WriteableBytes, Capacity
<1>1. PICK mem \in Seq(Data), r \in Nat, w \in Nat :
        /\ Len(mem) = Len(b.mem) /\ w + len <= Len(mem)
        /\ e = [mem |-> mem, size |-> b.size, read |-> r, write |-> w]
  <2>1. CASE ~(len > WriteableBytes(b))
    <3>1. e = [mem |-> b.mem, size |-> b.size, read |-> b.read, write |-> b.write]
      BY <2>1 DEF EnsureWriteableBytes, Buffers
    <3>2. b.write + len <= Len(b.mem)
      BY <1>0, <2>1
    <3> HIDE DEF e, len
    <3> QED
      BY <1>0, <3>1, <3>2
  <2>2. CASE len > WriteableBytes(b)
    <3> DEFINE m == Put(b.mem, 0, Readable(b))
    <3>1. ~(b.read + WriteableBytes(b) < len) /\ ~(b.read > b.write)
      BY <1>0
    <3>2. e = [mem |-> m, size |-> b.size, read |-> 0, write |-> b.write - b.read]
      BY <2>2, <3>1 DEF EnsureWriteableBytes, MakeSpace, Buffers, ReadableBytes
    <3>3. Readable(b) \in Seq(Data) /\ Len(Readable(b)) = b.write - b.read
      BY ReadableInMemory
    <3>4. m \in Seq(Data) /\ Len(m) = Len(b.mem)
      BY <1>0, <3>3, PutIntoMemory
    <3>5. b.write - b.read \in Nat /\ b.write - b.read + len <= Len(b.mem)
      BY <1>0
    <3> HIDE DEF m, e, len
    <3> QED
      BY <3>2, <3>4, <3>5
  <2> QED
    BY <2>1, <2>2
<1>2. AppendTo(b, data) = [e EXCEPT !.mem = Put(e.mem, e.write, data), !.write = @ + len]
  BY DEF AppendTo
<1> HIDE DEF e
<1>3. /\ AppendTo(b, data).size = b.size
      /\ AppendTo(b, data).mem = Put(mem, w, data)
  BY <1>1, <1>2
<1>4. Len(Put(mem, w, data)) = Len(mem)
  BY <1>1, PutIntoMemory
<1> QED
  BY <1>1, <1>3, <1>4 DEF Capacity

\* readFd: what is short goes into the vector as it is, behind two units at most.
LEMMA ShortReadFits ==
    ASSUME NEW Data, NEW b \in Buffers(Data), InOrder(b), IsTight(b),
           NEW data \in Seq(Data), b.write - b.read <= 2, Len(data) <= b.size - 2
    PROVE  ReadFd(b, data).size = b.size /\ IsTight(ReadFd(b, data))
<1> DEFINE room == WriteableBytes(b)
<1>0. /\ b.read \in Nat /\ b.write \in Nat /\ b.size \in Nat /\ b.mem \in Seq(Data)
      /\ Len(b.mem) \in Nat /\ Len(data) \in Nat
      /\ b.read <= b.write /\ b.write <= b.size /\ b.size = Len(b.mem)
      /\ room = Len(b.mem) - b.write /\ room \in Nat
      /\ b = [mem |-> b.mem, size |-> b.size, read |-> b.read, write |-> b.write]
  BY DEF Buffers, InOrder, IsTight, Capacity, WriteableBytes
<1>4. CASE Len(data) <= room
  <2> DEFINE put == Put(b.mem, b.write, data)
  <2>1. Len(put) = Len(b.mem)
    BY <1>0, <1>4, PutIntoMemory
  <2>2. ReadFd(b, data) = [mem |-> put, size |-> b.size, read |-> b.read,
                           write |-> b.write + Len(data)]
    BY <1>0, <1>4 DEF ReadFd
  <2> HIDE DEF put
  <2> QED
    BY <1>0, <2>1, <2>2 DEF IsTight, Capacity
<1>5. CASE ~(Len(data) <= room)
  <2> DEFINE part == Put(b.mem, b.write, SubSeq(data, 1, room))
             full == [mem |-> part, size |-> b.size, read |-> b.read, write |-> b.size]
             rest == SubSeq(data, room + 1, Len(data))
  <2>1. ReadFd(b, data) = AppendTo(full, rest)
    <3>1. [b EXCEPT !.mem = part, !.write = b.size] = full
      BY WithMemory
    <3> QED
      BY <1>5, <3>1 DEF ReadFd
  <2>2. /\ SubSeq(data, 1, room) \in Seq(Data) /\ Len(SubSeq(data, 1, room)) = room
        /\ rest \in Seq(Data) /\ Len(rest) = Len(data) - room
    <3>1. room \in 0 .. Len(data)
      BY <1>0, <1>5
    <3> HIDE DEF room
    <3> QED
      BY <3>1, CutInTwo, CutLengths
  <2>3. part \in Seq(Data) /\ Len(part) = Len(b.mem)
    <3> DEFINE d == SubSeq(data, 1, room)
    <3>0. d \in Seq(Data) /\ Len(d) = room
      BY <2>2
    <3> HIDE DEF d
    <3>1. b.write \in Nat /\ b.write + Len(d) <= Len(b.mem)
      BY <1>0, <3>0
    <3>2. Put(b.mem, b.write, d) \in Seq(Data) /\ Len(Put(b.mem, b.write, d)) = Len(b.mem)
      BY <3>0, <3>1, PutIntoBuffer
    <3> QED
      BY <3>2 DEF d
  <2> HIDE DEF part, rest
  <2>4. full \in Buffers(Data) /\ full.read <= full.write /\ full.write <= Capacity(full)
    BY <1>0, <2>3 DEF Buffers, Capacity
  <2>5. Len(rest) <= full.read + WriteableBytes(full)
    <3>1. WriteableBytes(full) = 0 /\ full.read = b.read
      BY <1>0, <2>3 DEF WriteableBytes, Capacity
    <3>2. Len(data) - room <= b.read
      BY <1>0
    <3> QED
      BY <1>0, <2>2, <3>1, <3>2
  <2>6. full.size = b.size /\ Capacity(full) = Capacity(b)
    BY <2>3 DEF Capacity
  <2> HIDE DEF full
  <2>7. /\ AppendTo(full, rest).size = full.size
        /\ Capacity(AppendTo(full, rest)) = Capacity(full)
    BY <2>2, <2>4, <2>5, AppendKeepsSize
  <2> QED
    BY <1>0, <2>1, <2>6, <2>7 DEF IsTight, Capacity
<1> QED
  BY <1>4, <1>5

\* Where the indexes are once parse_http has left `left`, and what is there.
LEMMA ConsumeShape ==
    ASSUME NEW Data, NEW b \in Buffers(Data), b.read <= b.write,
           NEW left \in Seq(Data), Len(left) <= b.write - b.read
    PROVE  \E r \in Nat : /\ r + Len(left) <= b.write
                          /\ Consume(b, left) = [mem |-> Put(b.mem, r, left), size |-> b.size,
                                                 read |-> r, write |-> r + Len(left)]
<1> DEFINE used == b.write - b.read - Len(left)
           c == IF used = 0 THEN b ELSE Retrive(b, used)
<1>0. /\ b.read \in Nat /\ b.write \in Nat /\ b.read <= b.write /\ Len(left) \in Nat
      /\ used \in Nat
  BY DEF Buffers
<1>1. b = [mem |-> b.mem, size |-> b.size, read |-> b.read, write |-> b.write]
  BY DEF Buffers
<1>2. Consume(b, left) = [c EXCEPT !.mem = Put(c.mem, c.read, left)]
  BY DEF Consume, ReadableBytes
<1>3. CASE used = 0
  <2>1. c = b /\ b.write = b.read + Len(left) /\ b.read + Len(left) <= b.write
    BY <1>0, <1>3
  <2>2. Consume(b, left) = [mem |-> Put(b.mem, b.read, left), size |-> b.size,
                            read |-> b.read, write |-> b.read + Len(left)]
    BY <1>1, <1>2, <2>1
  <2> QED
    BY <1>0, <2>1, <2>2, Zenon
<1>4. CASE used # 0 /\ used < ReadableBytes(b)
  <2>1. c = [mem |-> b.mem, size |-> b.size, read |-> b.read + used, write |-> b.write]
    BY <1>1, <1>4 DEF Retrive
  <2>2. /\ b.read + used \in Nat /\ b.write = b.read + used + Len(left)
        /\ b.read + used + Len(left) <= b.write
    BY <1>0
  <2> HIDE DEF c, used
  <2>3. Consume(b, left) = [mem |-> Put(b.mem, b.read + used, left), size |-> b.size,
                            read |-> b.read + used, write |-> b.read + used + Len(left)]
    BY <1>2, <2>1, <2>2
  <2> QED
    BY <2>2, <2>3, Zenon
<1>5. CASE used # 0 /\ ~(used < ReadableBytes(b))
  <2>1. Len(left) = 0
    BY <1>0, <1>5 DEF ReadableBytes
  <2>2. c = [mem |-> b.mem, size |-> b.size, read |-> 0, write |-> 0]
    BY <1>1, <1>5 DEF Retrive
  <2> HIDE DEF c, used
  <2>3. Consume(b, left) = [mem |-> Put(b.mem, 0, left), size |-> b.size,
                            read |-> 0, write |-> 0 + Len(left)]
    BY <1>2, <2>1, <2>2
  <2> QED
    BY <1>0, <2>1, <2>3
<1> QED
  BY <1>3, <1>4, <1>5

\* parse_http stays inside the memory.
LEMMA ConsumeInside ==
    ASSUME NEW Data, NEW b \in Buffers(Data), Inside(b),
           NEW left \in Seq(Data), Len(left) <= b.write - b.read
    PROVE  /\ Consume(b, left) \in Buffers(Data) /\ Inside(Consume(b, left))
           /\ IsTight(Consume(b, left)) <=> IsTight(b)
           /\ Consume(b, left).size = b.size
<1> DEFINE c == Consume(b, left)
<1>0. /\ b.read \in Nat /\ b.size \in Nat /\ b.write \in Nat /\ b.mem \in Seq(Data)
      /\ Len(left) \in Nat /\ Len(b.mem) \in Nat /\ Len(b.mem) > 0
      /\ b.read <= b.write /\ b.size <= Len(b.mem) /\ b.write <= Len(b.mem)
  BY EmptySeq DEF Buffers, Inside, Runaway, Capacity, Broken
<1>1. PICK r \in Nat : /\ r + Len(left) <= b.write
                       /\ c = [mem |-> Put(b.mem, r, left), size |-> b.size,
                               read |-> r, write |-> r + Len(left)]
  BY <1>0, ConsumeShape
<1> DEFINE put == Put(b.mem, r, left)
<1>2. put \in Seq(Data) /\ Len(put) = Len(b.mem)
  <2>1. r + Len(left) <= Len(b.mem)
    BY <1>0, <1>1
  <2> QED
    BY <2>1, PutIntoBuffer
<1> HIDE DEF c, put
<1>3. c = [mem |-> put, size |-> b.size, read |-> r, write |-> r + Len(left)]
  BY <1>1 DEF put
<1>4. c \in Buffers(Data)
  BY <1>0, <1>2, <1>3 DEF Buffers
<1>5. Inside(c)
  BY <1>0, <1>1, <1>2, <1>3 DEF Inside, Runaway, Capacity, Broken
<1>6. IsTight(c) <=> IsTight(b)
  BY <1>2, <1>3 DEF IsTight, Capacity
<1> QED
  BY <1>3, <1>4, <1>5, <1>6 DEF c

\* What parse_http leaves is what is readable afterwards.
LEMMA ConsumeLeaves ==
    ASSUME NEW Data, NEW b \in Buffers(Data), InOrder(b), Allocated(b),
           NEW left \in Seq(Data), Len(left) <= b.write - b.read
    PROVE  /\ Consume(b, left) \in Buffers(Data) /\ InOrder(Consume(b, left))
           /\ Readable(Consume(b, left)) = left
<1> DEFINE c == Consume(b, left)
<1>0. /\ b.read \in Nat /\ b.write \in Nat /\ b.size \in Nat /\ b.mem \in Seq(Data)
      /\ Len(b.mem) \in Nat /\ Len(left) \in Nat
      /\ b.read <= b.write /\ b.write <= b.size /\ b.size <= Len(b.mem)
  BY DEF Buffers, InOrder, Allocated, Capacity
<1>2. PICK r \in Nat : /\ r + Len(left) <= b.write
                       /\ c = [mem |-> Put(b.mem, r, left), size |-> b.size,
                               read |-> r, write |-> r + Len(left)]
  BY <1>0, ConsumeShape
<1> DEFINE mem == Put(b.mem, r, left)
<1>3. /\ mem \in Seq(Data) /\ Len(mem) = Len(b.mem)
      /\ \A i \in 1 .. Len(b.mem) :
            mem[i] = IF i > r /\ i <= r + Len(left) THEN left[i - r] ELSE b.mem[i]
  <2> DEFINE old == b.mem
  <2>1. old \in Seq(Data) /\ r + Len(left) <= Len(old)
    BY <1>0, <1>2
  <2> HIDE DEF old
  <2>2. /\ Put(old, r, left) \in Seq(Data) /\ Len(Put(old, r, left)) = Len(old)
        /\ \A i \in 1 .. Len(old) :
             Put(old, r, left)[i] = IF i > r /\ i <= r + Len(left) THEN left[i - r] ELSE old[i]
    BY <2>1, PutIntoMemory
  <2> QED
    BY <2>2 DEF old
<1>4. c.mem = mem /\ c.size = b.size /\ c.read = r /\ c.write = r + Len(left)
  BY <1>2
<1>5. c \in Buffers(Data)
  BY <1>0, <1>2, <1>3 DEF Buffers
<1> HIDE DEF c, mem
<1>6. InOrder(c) /\ Allocated(c)
  BY <1>0, <1>2, <1>3, <1>4 DEF InOrder, Allocated, Capacity
<1>7. /\ Readable(c) \in Seq(Data) /\ Len(Readable(c)) = Len(left)
      /\ \A i \in 1 .. Len(left) : Readable(c)[i] = mem[r + i]
  <2>1. c.write - c.read = Len(left)
    BY <1>0, <1>4
  <2> QED
    BY <1>4, <1>5, <1>6, <2>1, ReadableBytesOf
<1>8. \A i \in 1 .. Len(left) : mem[r + i] = left[i]
  <2> SUFFICES ASSUME NEW i \in 1 .. Len(left) PROVE mem[r + i] = left[i]
    OBVIOUS
  <2>1. r + i \in 1 .. Len(b.mem) /\ r + i > r /\ r + i <= r + Len(left) /\ (r + i) - r = i
    BY <1>0, <1>2
  <2> QED
    BY <1>3, <2>1
<1>9. Readable(c) = left
  BY <1>7, <1>8, SameElements
<1> QED
  BY <1>5, <1>6, <1>9 DEF c
------------------------------------------------------------------------------
(* The parser                                                              *)

\* A set of natural numbers that is not empty has a least element.
LEMMA LeastOf ==
    ASSUME NEW S \in SUBSET Nat, S # {}
    PROVE  Min(S) \in S /\ \A x \in S : Min(S) <= x
<1>1. PICK x \in S : \A y \in S : ~(<<y, x>> \in OpToRel(<, Nat))
  BY NatLessThanWellFounded, WFMin
<1>2. \A y \in S : x <= y
  <2> SUFFICES ASSUME NEW y \in S PROVE x <= y
    OBVIOUS
  <2>1. ~(y < x)
    BY <1>1 DEF OpToRel
  <2> QED
    BY <2>1
<1> QED
  BY <1>2 DEF Min

\* The least element is the one that is at most every other.
LEMMA LeastIs ==
    ASSUME NEW S \in SUBSET Nat, NEW x \in S, \A y \in S : x <= y
    PROVE  Min(S) = x
<1>1. Min(S) \in S /\ \A y \in S : Min(S) <= y
  BY DEF Min
<1>2. Min(S) <= x /\ x <= Min(S)
  BY <1>1
<1>3. Min(S) \in Nat /\ x \in Nat
  BY <1>1
<1> QED
  BY <1>2, <1>3

\* What is left when the first n units are dropped.
LEMMA DropIs ==
    ASSUME NEW Data, NEW s \in Seq(Data), NEW n \in Nat
    PROVE  /\ Drop(s, n) \in Seq(Data)
           /\ Len(Drop(s, n)) = IF n <= Len(s) THEN Len(s) - n ELSE 0
           /\ \A i \in 1 .. Len(s) - n : Drop(s, n)[i] = s[n + i]
<1>1. CASE n <= Len(s)
  <2>1. n + 1 \in 1 .. Len(s) + 1 /\ Len(s) \in n .. Len(s)
    BY <1>1
  <2> QED
    BY <1>1, <2>1 DEF Drop
<1>2. CASE ~(n <= Len(s))
  <2>1. Drop(s, n) = <<>>
    BY <1>2 DEF Drop
  <2> QED
    BY <1>2, <2>1
<1> QED
  BY <1>1, <1>2

\* Where lines end and start.
LEMMA LineEnds ==
    ASSUME NEW Data, NEW s \in Seq(Data)
    PROVE  /\ Ends(s) \in SUBSET Nat /\ Starts(s) \in SUBSET Nat
           /\ FindCrlf(s) \in 0 .. Len(s)
           /\ FindCrlf(s) # 0 <=> Ends(s) # {}
           /\ FindCrlf(s) # 0 => FindCrlf(s) \in Ends(s) /\ \A i \in Ends(s) : FindCrlf(s) <= i
<1>1. Ends(s) \in SUBSET Nat /\ Starts(s) \in SUBSET Nat /\ \A i \in Ends(s) : i \in 2 .. Len(s)
  BY DEF Ends, Starts
<1>2. CASE Ends(s) = {}
  <2>1. FindCrlf(s) = 0
    BY <1>2 DEF FindCrlf
  <2> QED
    BY <1>1, <1>2, <2>1
<1>3. CASE Ends(s) # {}
  <2>1. FindCrlf(s) \in Ends(s) /\ \A i \in Ends(s) : FindCrlf(s) <= i
    BY <1>1, <1>3, LeastOf DEF FindCrlf
  <2>2. FindCrlf(s) \in 2 .. Len(s)
    BY <1>1, <2>1
  <2>3. FindCrlf(s) \in 0 .. Len(s) /\ FindCrlf(s) # 0
    BY <2>2
  <2> QED
    BY <1>1, <1>3, <2>1, <2>3
<1> QED
  BY <1>2, <1>3

\* What parse_http may leave of s.
LeftOf(s) == {t \in Seq(Units) : Len(t) <= Len(s)}

\* Dropping leaves no more than there was.
LEMMA DropLeaves ==
    ASSUME NEW s \in Seq(Units), NEW n \in Nat
    PROVE  Drop(s, n) \in LeftOf(s)
<1> DEFINE t == Drop(s, n)
<1>1. t \in Seq(Units) /\ Len(t) = IF n <= Len(s) THEN Len(s) - n ELSE 0
  BY DropIs
<1> HIDE DEF t
<1>2. Len(t) <= Len(s)
  BY <1>1
<1> QED
  BY <1>1, <1>2 DEF LeftOf, t

\* What is left of what is left.
LEMMA LeftOfLeft ==
    ASSUME NEW s \in Seq(Units), NEW t \in LeftOf(s), NEW u \in LeftOf(t)
    PROVE  u \in LeftOf(s)
<1>1. t \in Seq(Units) /\ u \in Seq(Units) /\ Len(u) <= Len(t) /\ Len(t) <= Len(s)
  BY DEF LeftOf
<1>2. Len(u) \in Nat /\ Len(t) \in Nat /\ Len(s) \in Nat
  BY <1>1
<1> QED
  BY <1>1, <1>2 DEF LeftOf

\* A body is cut off what is there.
LEMMA ContentLeaves ==
    ASSUME NEW s \in Seq(Units), NEW n \in {0, 2, 7}, Len(s) >= 2
    PROVE  ParseContent(s, n) \in LeftOf(s)
<1> DEFINE R == {r \in 0 .. n : Len(s) >= n - 2 * r}
           rounds == Min(R)
<1>1. R \in SUBSET Nat /\ Len(s) \in Nat
  OBVIOUS
<1>2. R # {}
  <2>1. n \in R
    BY <1>1
  <2> QED
    BY <2>1
<1>3. rounds \in R /\ \A r \in R : rounds <= r
  BY <1>1, <1>2, LeastOf
<1>4. n = 0 => 0 \in R
  BY <1>1
<1>5. n = 2 => 0 \in R
  BY <1>1
<1>6. n = 7 => 3 \in R
  BY <1>1
<1> HIDE DEF rounds
<1>7. n - 2 * rounds \in Nat
  <2>1. rounds \in Nat
    BY <1>1, <1>3
  <2>2. /\ n = 0 => rounds <= 0
        /\ n = 2 => rounds <= 0
        /\ n = 7 => rounds <= 3
    BY <1>3, <1>4, <1>5, <1>6
  <2> QED
    BY <2>1, <2>2
<1>8. ParseContent(s, n) = Drop(s, n - 2 * rounds)
  BY DEF ParseContent, rounds
<1> QED
  BY <1>7, <1>8, DropLeaves

\* The blank line by itself.
LEMMA BlankLine ==
    /\ <<"cr", "lf">> \in Seq(Units)
    /\ Blank(<<"cr", "lf">>)
    /\ FindCrlf(<<"cr", "lf">>) = 2
    /\ ParseContent(<<"cr", "lf">>, 0) = <<"cr", "lf">>
<1> DEFINE t == <<"cr", "lf">>
<1>1. t \in Seq(Units) /\ Blank(t) /\ Len(t) = 2 /\ t[1] = "cr" /\ t[2] = "lf"
  BY DEF Blank, Units
<1> HIDE DEF t
<1>2. FindCrlf(t) = 2
  <2>1. 2 \in Ends(t)
    BY <1>1 DEF Ends
  <2>2. FindCrlf(t) \in Ends(t)
    BY <1>1, <2>1, LineEnds
  <2> QED
    BY <1>1, <2>2 DEF Ends
<1>3. ParseContent(t, 0) = t
  <2> DEFINE R == {r \in 0 .. 0 : Len(t) >= 0 - 2 * r}
  <2>1. R = {0}
    BY <1>1
  <2>2. Min(R) = 0
    <3>1. R \in SUBSET Nat /\ 0 \in R /\ \A r \in R : 0 <= r
      BY <2>1
    <3> HIDE DEF R
    <3> QED
      BY <3>1, LeastIs
  <2>3. ParseContent(t, 0) = Drop(t, 0)
    <3>1. ParseContent(t, 0) = Drop(t, 0 - 2 * Min(R))
      BY DEF ParseContent
    <3> QED
      BY <2>2, <3>1
  <2> QED
    BY <1>1, <2>3 DEF Drop
<1> QED
  BY <1>1, <1>2, <1>3 DEF t

\* Two units, and what comes behind them.
LEMMA TwoInFront ==
    ASSUME NEW Data, NEW two \in Seq(Data), Len(two) = 2, NEW req \in Seq(Data)
    PROVE  /\ two \o req \in Seq(Data) /\ Len(two \o req) = Len(req) + 2
           /\ (two \o req)[1] = two[1] /\ (two \o req)[2] = two[2]
           /\ Drop(two \o req, 2) = req
<1> DEFINE s == two \o req
           n == Len(req)
<1>0. n \in Nat
  OBVIOUS
<1>1. /\ s \in Seq(Data) /\ Len(s) = n + 2
      /\ \A i \in 1 .. n + 2 : s[i] = IF i <= 2 THEN two[i] ELSE req[i - 2]
  <2> DEFINE k == Len(two)
  <2>1. /\ s \in Seq(Data) /\ Len(s) = k + n
        /\ \A i \in 1 .. k + n : s[i] = IF i <= k THEN two[i] ELSE req[i - k]
    BY ConcatProperties
  <2>2. k = 2 /\ k + n = n + 2
    BY <1>0
  <2> HIDE DEF s, n, k
  <2> QED
    BY <2>1, <2>2
<1> DEFINE t == Drop(s, 2)
<1> HIDE DEF s, n
<1>2. s[1] = two[1] /\ s[2] = two[2]
  BY <1>0, <1>1
<1>3. /\ t \in Seq(Data) /\ Len(t) = IF 2 <= Len(s) THEN Len(s) - 2 ELSE 0
      /\ \A i \in 1 .. Len(s) - 2 : t[i] = s[2 + i]
  BY <1>1, 2 \in Nat, DropIs
<1> HIDE DEF t
<1>4. Len(t) = n /\ Len(s) - 2 = n
  BY <1>0, <1>1, <1>3
<1>5. \A i \in 1 .. n : 2 + i \in 1 .. n + 2 /\ ~(2 + i <= 2) /\ (2 + i) - 2 = i
  BY <1>0
<1>6. \A i \in 1 .. n : t[i] = req[i]
  BY <1>1, <1>3, <1>4, <1>5
<1>7. t = req
  BY <1>3, <1>4, <1>6, SameElements DEF n
<1> QED
  BY <1>1, <1>2, <1>7 DEF s, t, n

\* The blank line counts as part of the body (httpServer.cpp:159-171): once a
\* body of any length has arrived as a whole, its last two units are what
\* parse_content leaves, in front of the next request.
THEOREM BodyIsCutShort ==
    ASSUME NEW body \in Seq(Units), Len(body) >= 2
    PROVE  ParseContent(<<"cr", "lf">> \o body, Len(body))
             = SubSeq(body, Len(body) - 1, Len(body))
<1> DEFINE n == Len(body)
           s == <<"cr", "lf">> \o body
           R == {r \in 0 .. n : Len(s) >= n - 2 * r}
           left == Drop(s, n)
           end == SubSeq(body, n - 1, n)
<1>1. n \in Nat /\ n >= 2
  OBVIOUS
<1>2. /\ s \in Seq(Units) /\ Len(s) = n + 2 /\ Drop(s, 2) = body
  BY BlankLine, TwoInFront
<1>3. \A i \in 1 .. n : s[2 + i] = body[i]
  <2>1. \A i \in 1 .. Len(s) - 2 : Drop(s, 2)[i] = s[2 + i]
    BY <1>2, 2 \in Nat, DropIs
  <2>2. Len(s) - 2 = n
    BY <1>1, <1>2
  <2> HIDE DEF s, n
  <2> QED
    BY <1>2, <2>1, <2>2
<1> HIDE DEF s
<1>4. ParseContent(s, n) = left
  <2>1. 0 \in R /\ R \in SUBSET Nat /\ \A r \in R : 0 <= r
    BY <1>1, <1>2
  <2> HIDE DEF R
  <2>2. Min(R) = 0
    BY <2>1, LeastIs
  <2>3. ParseContent(s, n) = Drop(s, n - 2 * Min(R))
    BY DEF ParseContent, R
  <2>4. n - 2 * 0 = n
    BY <1>1
  <2> QED
    BY <2>2, <2>3, <2>4
<1> HIDE DEF n
<1>5. left \in Seq(Units) /\ Len(left) = 2 /\ left[1] = s[n + 1] /\ left[2] = s[n + 2]
  <2>1. /\ left \in Seq(Units)
        /\ Len(left) = IF n <= Len(s) THEN Len(s) - n ELSE 0
        /\ \A i \in 1 .. Len(s) - n : left[i] = s[n + i]
    BY <1>1, <1>2, DropIs
  <2>2. n <= Len(s) /\ Len(s) - n = 2
    BY <1>1, <1>2
  <2> HIDE DEF left
  <2> QED
    BY <2>1, <2>2
<1>6. end \in Seq(Units) /\ Len(end) = 2 /\ end[1] = body[n - 1] /\ end[2] = body[n]
  BY <1>1 DEF n
<1>7. s[n + 1] = body[n - 1] /\ s[n + 2] = body[n]
  <2>1. n - 1 \in 1 .. n /\ n \in 1 .. n /\ 2 + (n - 1) = n + 1 /\ 2 + n = n + 2
    BY <1>1
  <2> QED
    BY <1>3, <2>1
<1> HIDE DEF left, end
<1>8. left = end
  BY <1>5, <1>6, <1>7
<1> QED
  BY <1>4, <1>8 DEF s, n, left, end

\* The loop over the headers ends at the start of a line.
LEMMA HeadersEndIs ==
    ASSUME NEW s \in Seq(Units)
    PROVE  /\ HeadersEnd(s) \in Starts(s) /\ HeadersEnd(s) \in Nat
           /\ Stops(Drop(s, HeadersEnd(s)))
<1> DEFINE P == {p \in Starts(s) : Stops(Drop(s, p))}
<1>0. Starts(s) \in SUBSET Nat /\ \A i \in Ends(s) : i \in 2 .. Len(s)
  BY LineEnds DEF Ends
<1>1. P # {}
  <2>1. CASE Ends(s) = {}
    <3>1. Drop(s, 0) = s
      BY DEF Drop
    <3>2. FindCrlf(Drop(s, 0)) = 0
      BY <2>1, <3>1, LineEnds
    <3>3. 0 \in P
      BY <3>2 DEF Stops, Starts
    <3> QED
      BY <3>3
  <2>2. CASE Ends(s) # {}
    <3>1. PICK p \in Ends(s) : \A i \in Ends(s) : i <= p
      <4> DEFINE D == {Len(s) - i : i \in Ends(s)}
      <4>1. D \in SUBSET Nat /\ D # {}
        BY <1>0, <2>2
      <4>2. PICK i \in Ends(s) : Min(D) = Len(s) - i
        BY <4>1, LeastOf
      <4>3. \A j \in Ends(s) : Len(s) - i <= Len(s) - j
        <5>1. \A x \in D : Min(D) <= x
          BY <4>1, LeastOf
        <5> QED
          BY <4>2, <5>1
      <4>4. \A j \in Ends(s) : j <= i
        BY <1>0, <4>3
      <4> QED
        BY <4>4
    <3> DEFINE t == Drop(s, p)
    <3>2. p \in Nat /\ p <= Len(s) /\ p >= 2
      BY <1>0
    <3>3. /\ t \in Seq(Units) /\ Len(t) = Len(s) - p
          /\ \A i \in 1 .. Len(s) - p : t[i] = s[p + i]
      BY <3>2, DropIs
    <3> HIDE DEF t
    <3>4. Ends(t) = {}
      <4> SUFFICES ASSUME NEW i \in Ends(t) PROVE FALSE
        OBVIOUS
      <4>1. i \in 2 .. Len(t) /\ t[i - 1] = "cr" /\ t[i] = "lf"
        BY DEF Ends
      <4>2. i - 1 \in 1 .. Len(s) - p /\ i \in 1 .. Len(s) - p /\ p + (i - 1) = (p + i) - 1
        BY <4>1, <3>2, <3>3
      <4>3. s[(p + i) - 1] = "cr" /\ s[p + i] = "lf"
        BY <4>1, <4>2, <3>3
      <4>4. p + i \in 2 .. Len(s)
        BY <4>2, <3>2
      <4>5. p + i \in Ends(s)
        BY <4>3, <4>4 DEF Ends
      <4>6. p + i > p
        BY <4>2, <3>2
      <4> QED
        BY <4>4, <4>5, <4>6, <3>1, <3>2
    <3>5. FindCrlf(t) = 0
      BY <3>3, <3>4, LineEnds
    <3>6. p \in P
      BY <3>5 DEF Stops, Starts, t
    <3> QED
      BY <3>6
  <2> QED
    BY <2>1, <2>2
<1>2. HeadersEnd(s) \in P
  BY <1>0, <1>1, LeastOf DEF HeadersEnd
<1> QED
  BY <1>0, <1>2

\* The length of a body is one of those a header can give.
LEMMA ContentLengthIs ==
    ASSUME NEW s
    PROVE  ContentLength(s) \in {0, 2, 7}
  BY DEF ContentLength

\* Whatever follows the request line, parse_http leaves no more than there was.
LEMMA HeadersLeave ==
    ASSUME NEW s \in Seq(Units)
    PROVE  ParseHeaders(s).left \in LeftOf(s)
<1> DEFINE t == Drop(s, HeadersEnd(s))
           index == FindCrlf(t)
<1>1. t \in LeftOf(s) /\ t \in Seq(Units)
  BY HeadersEndIs, DropLeaves DEF LeftOf
<1> HIDE DEF t
<1>2. CASE index = 0
  BY <1>1, <1>2 DEF ParseHeaders, Result, t
<1>3. CASE index # 0 /\ Blank(t)
  <2>1. ParseHeaders(s).left = ParseContent(t, ContentLength(s))
    BY <1>3 DEF ParseHeaders, Result, t
  <2>2. ParseContent(t, ContentLength(s)) \in LeftOf(t)
    BY <1>1, <1>3, ContentLengthIs, ContentLeaves DEF Blank
  <2> QED
    BY <1>1, <2>1, <2>2, LeftOfLeft
<1>4. CASE index # 0 /\ ~Blank(t)
  <2>1. ParseHeaders(s).left = [t EXCEPT ![index] = "nul"]
    BY <1>4 DEF ParseHeaders, Result, t
  <2>2. "nul" \in Units
    BY DEF Units
  <2>3. [t EXCEPT ![index] = "nul"] \in Seq(Units) /\ Len([t EXCEPT ![index] = "nul"]) = Len(t)
    <3>1. t \in [1 .. Len(t) -> Units] /\ Len(t) \in Nat
      BY <1>1
    <3> DEFINE u == [t EXCEPT ![index] = "nul"]
    <3>2. u \in [1 .. Len(t) -> Units]
      BY <2>2, <3>1
    <3> HIDE DEF u
    <3>3. u \in Seq(Units) /\ Len(u) = Len(t)
      BY <3>1, <3>2
    <3> QED
      BY <3>3 DEF u
  <2> QED
    BY <1>1, <2>1, <2>3 DEF LeftOf
<1> QED
  BY <1>2, <1>3, <1>4

\* Whatever is in the buffer, parse_http leaves no more than there was.
LEMMA ParseLeaves ==
    ASSUME NEW s \in Seq(Units)
    PROVE  ParseHttp(s).left \in LeftOf(s)
<1> DEFINE K == {k \in 0 .. Len(s) : ~Blank(Drop(s, 2 * k))}
           t == SkipBlank(s)
           index == FindCrlf(t)
<1>1. K \in SUBSET Nat /\ K # {}
  <2>1. 2 * Len(s) \in Nat /\ 2 * Len(s) >= Len(s) /\ Len(s) \in Nat
    OBVIOUS
  <2>2. Len(Drop(s, 2 * Len(s))) = 0
    BY <2>1, DropIs
  <2>3. ~Blank(Drop(s, 2 * Len(s)))
    BY <2>2 DEF Blank
  <2>4. Len(s) \in K
    BY <2>1, <2>3
  <2> QED
    BY <2>4
<1>2. t \in LeftOf(s)
  <2>1. PICK k \in Nat : k = Min(K)
    BY <1>1, LeastOf
  <2>2. 2 * k \in Nat
    OBVIOUS
  <2>3. t = Drop(s, 2 * k)
    BY <2>1 DEF SkipBlank
  <2> HIDE DEF t
  <2> QED
    BY <2>2, <2>3, DropLeaves
<1>3. t \in Seq(Units) /\ index \in Nat
  <2>1. t \in Seq(Units)
    BY <1>2 DEF LeftOf
  <2> HIDE DEF t
  <2> QED
    BY <2>1, LineEnds
<1> HIDE DEF t
<1>4. ParseRequest(t).left \in LeftOf(t)
  <2>1. CASE index = 0 \/ ~GoodRequestLine(SubSeq(t, 1, index))
    BY <1>3, <2>1 DEF ParseRequest, Result, LeftOf
  <2>2. CASE ~(index = 0 \/ ~GoodRequestLine(SubSeq(t, 1, index)))
    <3>1. ParseRequest(t) = ParseHeaders(Drop(t, index))
      BY <2>2 DEF ParseRequest
    <3>2. Drop(t, index) \in LeftOf(t) /\ Drop(t, index) \in Seq(Units)
      BY <1>3, DropLeaves DEF LeftOf
    <3> QED
      BY <1>3, <3>1, <3>2, HeadersLeave, LeftOfLeft
  <2> QED
    BY <2>1, <2>2
<1> QED
  BY <1>2, <1>3, <1>4, LeftOfLeft DEF ParseHttp, t
------------------------------------------------------------------------------
(* Simple requests                                                         *)

HeaderTexts == {"KEEP", "CLOSE", "OTHER"}

\* What comes where in a simple request: behind a line end the text of a
\* header, before the blank line; behind a text, CR and LF.
LEMMA SimpleShape ==
    ASSUME NEW req \in Seq(Units), Simple(req)
    PROVE  /\ Len(req) \in Nat /\ Len(req) >= 5
           /\ req[1] \in {"GET", "POST"} /\ req[2] = "cr" /\ req[3] = "lf"
           /\ req[Len(req) - 2] = "lf" /\ req[Len(req) - 1] = "cr" /\ req[Len(req)] = "lf"
           /\ \A i \in 4 .. Len(req) - 2 : req[i] \in HeaderTexts \cup {"cr", "lf"}
           /\ \A i \in 3 .. Len(req) - 3 : req[i] = "lf" =>
                /\ req[i + 1] \in HeaderTexts /\ req[i + 2] = "cr" /\ req[i + 3] = "lf"
           /\ \A i \in 4 .. Len(req) - 2 : req[i] \in HeaderTexts => req[i - 1] = "lf"
           /\ \A i \in 4 .. Len(req) - 2 : req[i] = "lf" => req[i - 1] = "cr"
<1> DEFINE n == Len(req)
<1>1. /\ n \in Nat /\ n >= 5
      /\ req[1] \in {"GET", "POST"} /\ req[2] = "cr" /\ req[3] = "lf"
      /\ req[n - 2] = "lf" /\ req[n - 1] = "cr" /\ req[n] = "lf"
  BY DEF Simple
<1>2. \A i \in 4 .. n - 2 :
        \/ req[i] \in HeaderTexts /\ req[i - 1] = "lf"
        \/ req[i] = "cr" /\ req[i - 1] \in HeaderTexts
        \/ req[i] = "lf" /\ req[i - 1] = "cr"
  BY DEF Simple, HeaderTexts
<1>3. "cr" \notin HeaderTexts /\ "lf" \notin HeaderTexts
  BY DEF HeaderTexts
<1> HIDE DEF n
<1>4. ASSUME NEW i \in 3 .. n - 3, req[i] = "lf"
      PROVE  req[i + 1] \in HeaderTexts /\ req[i + 2] = "cr" /\ req[i + 3] = "lf"
  <2>1. /\ i \in Int /\ i + 1 \in 4 .. n - 2
        /\ (i + 1) - 1 = i /\ (i + 2) - 1 = i + 1 /\ (i + 3) - 1 = i + 2
    BY <1>1, <1>4
  <2>2. req[i + 1] \in HeaderTexts
    BY <1>2, <1>3, <1>4, <2>1
  <2>3. i + 1 # n - 2
    BY <1>1, <1>3, <2>2
  <2>4. i + 2 \in 4 .. n - 2
    BY <1>1, <1>4, <2>1, <2>3
  <2>5. req[i + 2] = "cr"
    BY <1>2, <1>3, <2>1, <2>2, <2>4
  <2>6. i + 2 # n - 2
    BY <1>1, <2>5
  <2>7. i + 3 \in 4 .. n - 2
    BY <1>1, <2>4, <2>6
  <2>8. req[i + 3] = "lf"
    BY <1>2, <1>3, <2>1, <2>5, <2>7
  <2> QED
    BY <2>2, <2>5, <2>8
<1>5. \A i \in 4 .. n - 2 : req[i] \in HeaderTexts \cup {"cr", "lf"}
  BY <1>2
<1>6. \A i \in 4 .. n - 2 : req[i] \in HeaderTexts => req[i - 1] = "lf"
  BY <1>2, <1>3
<1>7. \A i \in 4 .. n - 2 : req[i] = "lf" => req[i - 1] = "cr"
  BY <1>2, <1>3
<1> QED
  BY <1>1, <1>4, <1>5, <1>6, <1>7 DEF n

\* Where the headers start, behind the request line.
LEMMA HeadersOf ==
    ASSUME NEW req \in Seq(Units), Simple(req)
    PROVE  LET h == Drop(req, 3)
               m == Len(req) - 3
           IN  /\ h \in Seq(Units) /\ Len(h) = m /\ m \in Nat /\ m >= 2
               /\ \A i \in 1 .. m : h[i] = req[i + 3]
<1>1. Len(req) \in Nat /\ Len(req) >= 5 /\ 3 \in Nat
  BY SimpleShape
<1> DEFINE h == Drop(req, 3)
<1>2. /\ h \in Seq(Units)
      /\ Len(h) = IF 3 <= Len(req) THEN Len(req) - 3 ELSE 0
      /\ \A i \in 1 .. Len(req) - 3 : h[i] = req[3 + i]
  BY <1>1, DropIs
<1> HIDE DEF h
<1>3. Len(h) = Len(req) - 3
  BY <1>1, <1>2
<1>4. \A i \in 1 .. Len(req) - 3 : 3 + i = i + 3
  BY <1>1
<1>5. Len(req) - 3 \in Nat /\ Len(req) - 3 >= 2
  BY <1>1
<1>6. \A i \in 1 .. Len(req) - 3 : h[i] = req[i + 3]
  BY <1>2, <1>4
<1> QED
  BY <1>2, <1>3, <1>5, <1>6 DEF h

\* The blank line of a simple request is where parse_http stops.
LEMMA SimpleStops ==
    ASSUME NEW req \in Seq(Units), Simple(req)
    PROVE  /\ HeadersEnd(Drop(req, 3)) = Len(req) - 5
           /\ Drop(Drop(req, 3), Len(req) - 5) = <<"cr", "lf">>
<1> DEFINE h == Drop(req, 3)
           m == Len(req) - 3
           n == Len(req)
<1>1. /\ h \in Seq(Units) /\ Len(h) = m /\ m \in Nat /\ m >= 2 /\ n \in Nat /\ n = m + 3
      /\ \A i \in 1 .. m : h[i] = req[i + 3]
  BY HeadersOf
<1>2. /\ req[3] = "lf" /\ req[n - 2] = "lf" /\ req[n - 1] = "cr" /\ req[n] = "lf"
      /\ \A i \in 3 .. n - 3 : req[i] = "lf" =>
            /\ req[i + 1] \in HeaderTexts /\ req[i + 2] = "cr" /\ req[i + 3] = "lf"
      /\ \A i \in 4 .. n - 2 : req[i] = "lf" => req[i - 1] = "cr"
  BY SimpleShape
<1> HIDE DEF h, m, n
<1>3. PICK q \in Nat : q = m - 2
  <2>1. m - 2 \in Nat
    BY <1>1
  <2> QED
    BY <2>1
<1>4. q \in Starts(h)
  <2>1. CASE q = 0
    BY <2>1 DEF Starts
  <2>2. CASE q # 0
    <3>1. q + 3 \in 4 .. n - 2 /\ q \in 1 .. m /\ q + 3 = n - 2
      BY <1>1, <1>3, <2>2
    <3>2. h[q] = "lf" /\ req[(q + 3) - 1] = "cr"
      BY <1>1, <1>2, <3>1
    <3>3. q # 1
      <4>1. (1 + 3) - 1 = 3
        OBVIOUS
      <4> QED
        BY <3>2, <4>1, <1>2
    <3>4. q - 1 \in 1 .. m /\ (q - 1) + 3 = (q + 3) - 1 /\ q \in 2 .. m
      BY <3>1, <3>3, <1>1
    <3>5. h[q - 1] = "cr"
      BY <1>1, <3>2, <3>4
    <3> QED
      BY <1>1, <3>2, <3>4, <3>5 DEF Starts, Ends
  <2> QED
    BY <2>1, <2>2
<1>5. Drop(h, q) = <<"cr", "lf">>
  <2> DEFINE t == Drop(h, q)
  <2>1. q <= Len(h) /\ Len(h) - q = 2
    BY <1>1, <1>3
  <2>2. /\ t \in Seq(Units)
        /\ Len(t) = IF q <= Len(h) THEN Len(h) - q ELSE 0
        /\ \A i \in 1 .. Len(h) - q : t[i] = h[q + i]
    BY <1>1, DropIs
  <2> HIDE DEF t
  <2>3. Len(t) = 2 /\ t[1] = h[q + 1] /\ t[2] = h[q + 2]
    BY <2>1, <2>2
  <2>4. q + 1 \in 1 .. m /\ q + 2 \in 1 .. m /\ (q + 1) + 3 = n - 1 /\ (q + 2) + 3 = n
    BY <1>1, <1>3
  <2>5. t[1] = "cr" /\ t[2] = "lf"
    BY <1>1, <1>2, <2>3, <2>4
  <2>6. t = <<"cr", "lf">>
    BY <2>2, <2>3, <2>5
  <2> QED
    BY <2>6 DEF t
<1>6. Stops(Drop(h, q))
  BY <1>5 DEF Stops, Blank
<1>7. ASSUME NEW p \in Starts(h), p < q
      PROVE  ~Stops(Drop(h, p))
  <2> DEFINE t == Drop(h, p)
  <2>1. p \in Nat /\ p + 3 \in 3 .. n - 3 /\ req[p + 3] = "lf"
    <3>1. CASE p = 0
      BY <1>1, <1>2, <1>3, <1>7, <3>1
    <3>2. CASE p # 0
      <4>1. p \in 2 .. m /\ h[p] = "lf"
        BY <1>1, <3>2 DEF Starts, Ends
      <4>2. p \in 1 .. m /\ p \in Nat /\ p + 3 \in 3 .. n - 3
        BY <1>1, <1>3, <1>7, <4>1
      <4> QED
        BY <1>1, <4>1, <4>2
    <3> QED
      BY <3>1, <3>2
  <2>2. /\ req[(p + 3) + 1] \in HeaderTexts /\ req[(p + 3) + 2] = "cr" /\ req[(p + 3) + 3] = "lf"
    BY <1>2, <2>1
  <2>3. /\ p + 1 \in 1 .. m /\ p + 2 \in 1 .. m /\ p + 3 \in 1 .. m /\ Len(h) - p \in Nat
        /\ (p + 3) + 1 = (p + 1) + 3 /\ (p + 3) + 2 = (p + 2) + 3 /\ (p + 3) + 3 = (p + 3) + 3
        /\ 1 \in 1 .. Len(h) - p /\ 2 \in 1 .. Len(h) - p /\ 3 \in 1 .. Len(h) - p
        /\ p <= Len(h) /\ Len(h) - p >= 3
    BY <1>1, <1>3, <1>7, <2>1
  <2>4. h[p + 1] \in HeaderTexts /\ h[p + 2] = "cr" /\ h[p + 3] = "lf"
    BY <1>1, <2>2, <2>3
  <2>5. /\ t \in Seq(Units)
        /\ Len(t) = IF p <= Len(h) THEN Len(h) - p ELSE 0
        /\ \A i \in 1 .. Len(h) - p : t[i] = h[p + i]
    BY <1>1, <2>1, DropIs
  <2> HIDE DEF t
  <2>6. Len(t) >= 3 /\ Len(t) \in Nat /\ t[1] \in HeaderTexts /\ t[2] = "cr" /\ t[3] = "lf"
    BY <2>3, <2>4, <2>5
  <2>7. 3 \in Ends(t)
    <3>1. 3 \in 2 .. Len(t) /\ 3 - 1 = 2
      BY <2>6
    <3> QED
      BY <2>6, <3>1 DEF Ends
  <2>8. FindCrlf(t) # 0
    BY <2>5, <2>7, LineEnds
  <2>9. ~Blank(t) /\ t[1] # "LENBAD"
    BY <2>6 DEF Blank, HeaderTexts
  <2> QED
    BY <2>8, <2>9 DEF Stops, t
<1>8. HeadersEnd(h) = q
  <2> DEFINE P == {p \in Starts(h) : Stops(Drop(h, p))}
  <2>1. P \in SUBSET Nat /\ q \in P
    BY <1>1, <1>4, <1>6, LineEnds
  <2>2. \A p \in P : q <= p
    BY <1>7, <2>1
  <2>3. Min(P) = q
    BY <2>1, <2>2, LeastIs
  <2> QED
    BY <2>3 DEF HeadersEnd
<1>9. q = Len(req) - 5
  BY <1>1, <1>3 DEF n
<1> QED
  BY <1>5, <1>8, <1>9 DEF h
\* A simple request has no body, and asks to keep the connection if it says so.
LEMMA SimpleHeaders ==
    ASSUME NEW req \in Seq(Units), Simple(req)
    PROVE  /\ ContentLength(Drop(req, 3)) = 0
           /\ KeepAlive(Drop(req, 3)) <=> "KEEP" \in {req[i] : i \in DOMAIN req}
<1> DEFINE h == Drop(req, 3)
           m == Len(req) - 3
           n == Len(req)
           q == Len(req) - 5
<1>1. /\ h \in Seq(Units) /\ Len(h) = m /\ m \in Nat /\ m >= 2 /\ n \in Nat /\ n = m + 3
      /\ q \in Nat /\ q = m - 2
      /\ \A i \in 1 .. m : h[i] = req[i + 3]
  <2>1. /\ h \in Seq(Units) /\ Len(h) = m /\ m \in Nat /\ m >= 2
        /\ \A i \in 1 .. m : h[i] = req[i + 3]
    BY HeadersOf
  <2>2. n \in Nat
    OBVIOUS
  <2> HIDE DEF h
  <2>3. n = m + 3 /\ q = m - 2 /\ q \in Nat
    BY <2>1, <2>2
  <2> QED
    BY <2>1, <2>2, <2>3
<1>2. /\ req[1] \in {"GET", "POST"} /\ req[2] = "cr" /\ req[3] = "lf"
      /\ req[n - 2] = "lf" /\ req[n - 1] = "cr" /\ req[n] = "lf"
      /\ \A i \in 4 .. n - 2 : req[i] \in HeaderTexts \cup {"cr", "lf"}
      /\ \A i \in 4 .. n - 2 : req[i] \in HeaderTexts => req[i - 1] = "lf"
      /\ \A i \in 4 .. n - 2 : req[i] = "lf" => req[i - 1] = "cr"
  BY SimpleShape
<1>3. HeadersEnd(h) = q
  BY SimpleStops
<1>4. DOMAIN req = 1 .. n
  OBVIOUS
<1> HIDE DEF h, m, n, q
<1>5. \A p \in Starts(h) : p < q => p \in Nat /\ p + 1 \in 1 .. m /\ (p + 1) + 3 \in 4 .. n - 2
  <2>1. Starts(h) \in SUBSET Nat
    BY <1>1, LineEnds
  <2> QED
    BY <1>1, <2>1
<1>6. ContentLength(h) = 0
  <2>1. \A p \in Starts(h) : p < q => h[p + 1] \notin {"LEN2", "LEN7"}
    <3>1. \A i \in 4 .. n - 2 : req[i] \notin {"LEN2", "LEN7"}
      BY <1>2 DEF HeaderTexts
    <3> QED
      BY <1>1, <1>5, <3>1
  <2>2. HeaderLines(h, {"LEN2", "LEN7"}) = {}
    BY <1>3, <2>1 DEF HeaderLines
  <2> QED
    BY <2>2 DEF ContentLength
<1>7. ASSUME KeepAlive(h)
      PROVE  \E i \in 1 .. n : req[i] = "KEEP"
  <2>1. PICK p \in Starts(h) : p < q /\ h[p + 1] = "KEEP"
    BY <1>3, <1>7 DEF KeepAlive, HeaderLines
  <2>2. req[(p + 1) + 3] = "KEEP" /\ (p + 1) + 3 \in 1 .. n
    BY <1>1, <1>5, <2>1
  <2> QED
    BY <2>2
<1>8. ASSUME NEW i \in 1 .. n, req[i] = "KEEP"
      PROVE  KeepAlive(h)
  <2>1. i # 1 /\ i # 2 /\ i # 3 /\ i # n - 2 /\ i # n - 1 /\ i # n
    BY <1>2, <1>8
  <2>2. i \in 4 .. n - 3 /\ i \in 4 .. n - 2
    BY <1>1, <2>1
  <2>3. req[i - 1] = "lf"
    BY <1>2, <1>8, <2>2 DEF HeaderTexts
  <2>4. PICK p \in Nat : p = i - 4
    <3>1. i - 4 \in Nat
      BY <2>2, <1>1
    <3> QED
      BY <3>1
  <2>5. p < q /\ p + 1 \in 1 .. m /\ (p + 1) + 3 = i /\ p + 3 = i - 1
    BY <1>1, <2>2, <2>4
  <2>6. p \in Starts(h)
    <3>1. CASE p = 0
      BY <3>1 DEF Starts
    <3>2. CASE p # 0
      <4>1. i - 1 \in 4 .. n - 2 /\ p \in 1 .. m /\ (i - 1) - 1 = i - 2
        BY <1>1, <2>2, <2>4, <3>2
      <4>2. req[i - 2] = "cr" /\ h[p] = "lf"
        BY <1>1, <1>2, <2>3, <2>5, <4>1
      <4>3. i - 2 # 3
        BY <1>2, <4>2
      <4>4. p - 1 \in 1 .. m /\ (p - 1) + 3 = i - 2 /\ p \in 2 .. m
        BY <1>1, <2>2, <2>4, <4>1, <4>3
      <4>5. h[p - 1] = "cr"
        BY <1>1, <4>2, <4>4
      <4> QED
        BY <1>1, <4>2, <4>4, <4>5 DEF Starts, Ends
    <3> QED
      BY <3>1, <3>2
  <2>7. h[p + 1] = "KEEP"
    BY <1>1, <1>8, <2>5
  <2> QED
    BY <1>3, <2>5, <2>6, <2>7 DEF KeepAlive, HeaderLines
<1>9. KeepAlive(h) <=> "KEEP" \in {req[i] : i \in DOMAIN req}
  BY <1>4, <1>7, <1>8
<1> QED
  BY <1>6, <1>9 DEF h

\* The answer of parse_http to one simple request, and what it leaves.
LEMMA SimpleParsed ==
    ASSUME NEW req \in Seq(Units), Simple(req)
    PROVE  /\ ParseRequest(req).code = Reference(req).code
           /\ ParseRequest(req).keep = Reference(req).keep
           /\ Reference(req).keep => ParseRequest(req).left = <<"cr", "lf">>
<1> DEFINE line == SubSeq(req, 1, 3)
           h == Drop(req, 3)
<1>1. /\ Len(req) \in Nat /\ Len(req) >= 5
      /\ req[1] \in {"GET", "POST"} /\ req[2] = "cr" /\ req[3] = "lf"
  BY SimpleShape
<1>2. FindCrlf(req) = 3
  <2>1. 3 \in Ends(req)
    <3>1. 3 \in 2 .. Len(req) /\ 3 - 1 = 2
      BY <1>1
    <3> QED
      BY <1>1, <3>1 DEF Ends
  <2>2. FindCrlf(req) \in Ends(req) /\ FindCrlf(req) <= 3
    BY <2>1, LineEnds
  <2>3. 2 \notin Ends(req)
    <3>1. 2 - 1 = 1
      OBVIOUS
    <3> QED
      BY <1>1, <3>1 DEF Ends
  <2>4. Ends(req) \subseteq 2 .. Len(req)
    BY DEF Ends
  <2> QED
    BY <1>1, <2>2, <2>3, <2>4
<1>3. DOMAIN line = {1, 2, 3} /\ line[1] = req[1] /\ line[2] = "cr" /\ line[3] = "lf"
  <2>1. Len(line) = 3 /\ line \in Seq(Units)
    BY <1>1
  <2>2. \A i \in 1 .. 3 : line[i] = req[i]
    BY <1>1
  <2>3. DOMAIN line = 1 .. 3
    BY <2>1
  <2> HIDE DEF line
  <2> QED
    BY <1>1, <2>2, <2>3
<1>4. GoodRequestLine(line) <=> req[1] = "GET"
  <2> HIDE DEF line
  <2>2. Spaces("cr") = 0 /\ Spaces("lf") = 0
    BY DEF Spaces
  <2>3. ASSUME req[1] = "GET"
        PROVE  GoodRequestLine(line)
    <3>1. \A j \in DOMAIN line \ {1} : Spaces(line[j]) = 0
      BY <1>3, <2>2
    <3>2. \A j \in 1 .. 1 - 1 : line[j] # "nul"
      OBVIOUS
    <3>3. 1 \in DOMAIN line /\ line[1] = "GET"
      BY <1>3, <2>3
    <3> QED
      BY <3>1, <3>2, <3>3 DEF GoodRequestLine
  <2>4. ASSUME GoodRequestLine(line)
        PROVE  req[1] = "GET"
    BY <1>3, <2>4 DEF GoodRequestLine
  <2> QED
    BY <2>3, <2>4
<1> HIDE DEF line
<1>5. CASE req[1] = "GET"
  <2>1. ParseRequest(req) = ParseHeaders(h)
    BY <1>2, <1>4, <1>5 DEF ParseRequest, line
  <2>2. Drop(h, HeadersEnd(h)) = <<"cr", "lf">>
    BY SimpleStops
  <2> HIDE DEF h
  <2>3. ParseHeaders(h) = Result("GET_REQUEST", KeepAlive(h), ParseContent(<<"cr", "lf">>, ContentLength(h)))
    BY <2>2, BlankLine DEF ParseHeaders
  <2>4. ContentLength(h) = 0 /\ (KeepAlive(h) <=> "KEEP" \in {req[i] : i \in DOMAIN req})
    BY SimpleHeaders DEF h
  <2>5. ParseHeaders(h) = Result("GET_REQUEST", KeepAlive(h), <<"cr", "lf">>)
    BY <2>3, <2>4, BlankLine
  <2>6. KeepAlive(h) = Reference(req).keep
    BY <1>5, <2>4 DEF Reference, KeepAlive
  <2>7. Reference(req).code = "GET_REQUEST"
    BY <1>5 DEF Reference
  <2> QED
    BY <2>1, <2>5, <2>6, <2>7 DEF Result
<1>6. CASE req[1] # "GET"
  <2>1. ~GoodRequestLine(SubSeq(req, 1, 3))
    BY <1>4, <1>6 DEF line
  <2>2. ParseRequest(req).code = "BAD_REQUEST" /\ ~ParseRequest(req).keep
    BY <1>2, <2>1 DEF ParseRequest, Result
  <2>3. Reference(req).code = "BAD_REQUEST" /\ ~Reference(req).keep
    BY <1>6 DEF Reference
  <2>4. ParseRequest(req).keep = FALSE /\ Reference(req).keep = FALSE
    <3>1. ParseRequest(req).keep = FALSE
      BY <1>2, <2>1 DEF ParseRequest, Result
    <3>2. Reference(req).keep = FALSE
      BY <1>6, Zenon DEF Reference
    <3> QED
      BY <3>1, <3>2
  <2> QED
    BY <2>2, <2>3, <2>4
<1> QED
  BY <1>5, <1>6

\* The blank line of the request before has no influence.
LEMMA SimpleAnswered ==
    ASSUME NEW req \in Seq(Units), Simple(req), NEW before \in {<<>>, <<"cr", "lf">>}
    PROVE  LET result == ParseHttp(before \o req)
           IN  /\ result.code = Reference(req).code /\ result.keep = Reference(req).keep
               /\ Reference(req).keep => result.left = <<"cr", "lf">>
<1> DEFINE s == before \o req
           K == {k \in 0 .. Len(s) : ~Blank(Drop(s, 2 * k))}
<1>1. Len(req) \in Nat /\ Len(req) >= 5 /\ req[1] \in {"GET", "POST"}
  BY SimpleShape
<1>2. ~Blank(req)
  BY <1>1 DEF Blank
<1>3. SkipBlank(s) = req
  <2>1. CASE before = <<>>
    <3>1. s = req
      BY <2>1, ConcatEmptySeq
    <3>2. Drop(s, 0) = req /\ 2 * 0 = 0
      BY <3>1 DEF Drop
    <3>3. 0 \in K /\ K \in SUBSET Nat /\ \A k \in K : 0 <= k
      BY <1>1, <1>2, <3>1, <3>2
    <3> HIDE DEF s, K
    <3>4. Min(K) = 0
      BY <3>3, LeastIs
    <3>5. SkipBlank(s) = Drop(s, 2 * Min(K))
      BY DEF SkipBlank, K
    <3> QED
      BY <3>2, <3>4, <3>5
  <2>2. CASE before = <<"cr", "lf">>
    <3>1. before \in Seq(Units) /\ Len(before) = 2 /\ before[1] = "cr" /\ before[2] = "lf"
      BY <2>2, BlankLine
    <3>2. /\ s \in Seq(Units) /\ Len(s) = Len(req) + 2
          /\ s[1] = "cr" /\ s[2] = "lf" /\ Drop(s, 2) = req
      BY <3>1, TwoInFront
    <3> HIDE DEF s
    <3>3. Drop(s, 0) = s
      BY <3>2 DEF Drop
    <3>4. Drop(s, 2) = req
      BY <3>2
    <3>5. Blank(s)
      BY <1>1, <3>2 DEF Blank
    <3>6. 1 \in K /\ K \in SUBSET Nat /\ 0 \notin K
      <4>1. 2 * 1 = 2 /\ 2 * 0 = 0 /\ 1 \in 0 .. Len(s)
        BY <1>1, <3>2
      <4> QED
        BY <1>2, <3>3, <3>4, <3>5, <4>1
    <3>7. \A k \in K : 1 <= k
      BY <3>6
    <3> HIDE DEF K
    <3>8. Min(K) = 1
      BY <3>6, <3>7, LeastIs
    <3>9. SkipBlank(s) = Drop(s, 2 * Min(K))
      BY DEF SkipBlank, K
    <3>10. 2 * 1 = 2
      OBVIOUS
    <3> QED
      BY <3>4, <3>8, <3>9, <3>10
  <2> QED
    BY <2>1, <2>2
<1>4. ParseHttp(s) = ParseRequest(req)
  BY <1>3 DEF ParseHttp
<1> HIDE DEF s
<1> QED
  BY <1>4, SimpleParsed DEF s
------------------------------------------------------------------------------
(* The input of a connection                                               *)

InputTypes ==
    /\ stream \in Seq(Units) /\ ideal \in Seq(Units) /\ asked \in Seq(Seq(Units))
    /\ tight \in BOOLEAN /\ oneByOne \in BOOLEAN
    /\ inBuffer \in Buffers(Units)
    /\ tight => IsTight(inBuffer)

\* A buffer of short requests is not grown.
NotGrown == oneByOne /\ Short => tight /\ inBuffer.size = InitSize

InputInv == InputTypes /\ InputWithin /\ FifoWhileTight /\ NotGrown /\ AnsweredAsWhole

\* A new connection.
LEMMA InitInput == Init => InputInv
<1> SUFFICES ASSUME Init PROVE InputInv
  OBVIOUS
<1>1. /\ NewBuffer \in Buffers(Units) /\ IsTight(NewBuffer) /\ InOrder(NewBuffer)
      /\ Readable(NewBuffer) = <<>> /\ Inside(NewBuffer)
  <2>1. Zero \in Units
    BY DEF Zero, Units
  <2> QED
    BY <2>1, EmptyBuffer
<1>3. InputTypes
  BY <1>1, ParserConstants DEF Init, InputTypes
<1>4. InputWithin /\ FifoWhileTight /\ NotGrown
  BY <1>1 DEF Init, Inside, InputWithin, FifoWhileTight, NotGrown, NewBuffer
<1>5. AnsweredAsWhole
  <2>1. DOMAIN asked = {} /\ answers = <<>> /\ open /\ ideal = <<>>
    BY DEF Init
  <2>2. [i \in DOMAIN asked |-> Reference(asked[i])] = <<>>
    BY <2>1
  <2> QED
    BY <2>1, <2>2 DEF AnsweredAsWhole
<1> QED
  BY <1>3, <1>4, <1>5 DEF InputInv

\* readFd in the loop of a connection: the memory is respected unless readIndex
\* is beyond the size, and as long as the vector is tight nothing gets lost.
LEMMA Filled ==
    ASSUME InputInv, ~Runaway(inBuffer), NEW data \in Seq(Units)
    PROVE  LET filled == ReadFd(inBuffer, data)
           IN  /\ filled \in Buffers(Units)
               /\ Runaway(filled) => filled.read > filled.size
               /\ ~Runaway(filled) => Inside(filled)
               /\ tight => /\ Allocated(filled) /\ ~Runaway(filled)
                           /\ IsTight(filled) => InOrder(filled)
                           /\ Readable(filled) = ideal \o data
<1> DEFINE filled == ReadFd(inBuffer, data)
<1>1. Zero \in Units
  BY DEF Zero, Units
<1>2. inBuffer \in Buffers(Units) /\ Inside(inBuffer)
  BY DEF InputInv, InputTypes, InputWithin
<1>3. /\ filled \in Buffers(Units)
      /\ Runaway(filled) => /\ inBuffer.size < inBuffer.read
                            /\ filled.size = inBuffer.size /\ filled.read = inBuffer.read
      /\ ~Runaway(filled) => Inside(filled)
  BY <1>1, <1>2, ReadFdInside
<1>5. Runaway(filled) => filled.read > filled.size
  <2> HIDE DEF filled
  <2> QED
    BY <1>2, <1>3 DEF Buffers
<1>4. ASSUME tight
      PROVE  /\ Allocated(filled) /\ ~Runaway(filled)
             /\ IsTight(filled) => InOrder(filled)
             /\ Readable(filled) = ideal \o data
  <2>1. /\ inBuffer \in Buffers(Units) /\ IsTight(inBuffer) /\ InOrder(inBuffer)
        /\ Readable(inBuffer) = ideal
    BY <1>4 DEF InputInv, InputTypes, FifoWhileTight
  <2>2. /\ filled \in Buffers(Units) /\ Allocated(filled)
        /\ filled.read <= filled.write /\ filled.write <= Capacity(filled)
        /\ Readable(filled) = ideal \o data
    BY <1>1, <2>1, ReadFdIsFifo
  <2> HIDE DEF filled
  <2>3. ~Runaway(filled)
    BY <1>2, <1>3, <2>1 DEF InOrder, Buffers
  <2>4. IsTight(filled) => InOrder(filled)
    BY <2>2 DEF IsTight, InOrder
  <2> QED
    BY <2>2, <2>3, <2>4
<1> QED
  BY <1>3, <1>4, <1>5

\* What parse_http leaves is read off a buffer that stays inside its memory.
LEMMA Parsed ==
    ASSUME NEW b \in Buffers(Units), Inside(b)
    PROVE  /\ Readable(b) \in Seq(Units)
           /\ ParseHttp(Readable(b)).left \in Seq(Units)
           /\ Len(ParseHttp(Readable(b)).left) <= b.write - b.read
<1>1. b.read <= b.write /\ b.write <= Capacity(b)
  BY DEF Buffers, Inside, Runaway
<1>2. Readable(b) \in Seq(Units) /\ Len(Readable(b)) = b.write - b.read
  BY <1>1, ReadableInMemory
<1>5. ParseHttp(Readable(b)).left \in LeftOf(Readable(b))
  BY <1>2, ParseLeaves
<1> QED
  BY <1>2, <1>5 DEF LeftOf

\* The answer to one more request.
LEMMA OneMoreAnswer ==
    ASSUME NEW reqs \in Seq(Seq(Units)), NEW req \in Seq(Units)
    PROVE  LET answer(s) == [i \in DOMAIN s |-> Reference(s[i])]
               more == Append(reqs, req)
           IN  /\ Append(answer(reqs), Reference(req)) = answer(more)
               /\ (\A i \in DOMAIN more : Reference(more[i]).keep)
                    <=> (\A i \in DOMAIN reqs : Reference(reqs[i]).keep) /\ Reference(req).keep
<1> DEFINE n == Len(reqs)
           more == Append(reqs, req)
           R == {Reference(r) : r \in Seq(Units)}
           a == [i \in DOMAIN reqs |-> Reference(reqs[i])]
           b == [i \in DOMAIN more |-> Reference(more[i])]
<1>1. n \in Nat /\ DOMAIN reqs = 1 .. n /\ \A i \in 1 .. n : reqs[i] \in Seq(Units)
  OBVIOUS
<1>2. /\ DOMAIN more = 1 .. n + 1
      /\ \A i \in 1 .. n : more[i] = reqs[i]
      /\ more[n + 1] = req
  OBVIOUS
<1>3. \A i \in 1 .. n + 1 : i \in 1 .. n \/ i = n + 1
  BY <1>1
<1>4. n + 1 \in 1 .. n + 1 /\ \A i \in 1 .. n : i \in 1 .. n + 1
  BY <1>1
<1> HIDE DEF n, more
<1>5. a \in Seq(R) /\ Len(a) = n
  <2>1. a \in [1 .. n -> R]
    BY <1>1
  <2> HIDE DEF a, R
  <2> QED
    BY <1>1, <2>1
<1>6. b \in Seq(R) /\ Len(b) = n + 1
  <2>1. \A i \in 1 .. n + 1 : Reference(more[i]) \in R
    BY <1>1, <1>2, <1>3
  <2>2. b \in [1 .. n + 1 -> R] /\ n + 1 \in Nat
    BY <1>1, <1>2, <2>1
  <2> HIDE DEF b, R
  <2> QED
    BY <2>2
<1>7. Reference(req) \in R
  OBVIOUS
<1> DEFINE c == Append(a, Reference(req))
<1>8. /\ c \in Seq(R) /\ Len(c) = n + 1
      /\ \A i \in 1 .. n : c[i] = a[i]
      /\ c[n + 1] = Reference(req)
  <2> HIDE DEF a, R
  <2> QED
    BY <1>5, <1>7
<1>9. \A i \in 1 .. n + 1 : c[i] = b[i]
  <2>1. \A i \in 1 .. n : a[i] = Reference(reqs[i])
    BY <1>1
  <2>2. \A i \in 1 .. n + 1 : b[i] = Reference(more[i])
    BY <1>2
  <2> HIDE DEF a, b, c
  <2> QED
    BY <1>2, <1>3, <1>4, <1>8, <2>1, <2>2
<1>10. c = b
  <2> HIDE DEF b, c, R
  <2> QED
    BY <1>6, <1>8, <1>9, SameElements
<1>11. (\A i \in DOMAIN more : Reference(more[i]).keep)
        <=> (\A i \in DOMAIN reqs : Reference(reqs[i]).keep) /\ Reference(req).keep
  BY <1>1, <1>2, <1>3, <1>4
<1> QED
  BY <1>10, <1>11 DEF more
\* What a read that is handled does to the buffer.
LEMMA HandledBuffer ==
    ASSUME InputInv, ~Runaway(inBuffer), NEW data \in Seq(Units), ReadAndHandle(data),
           tight' = (tight /\ IsTight(inBuffer'))
    PROVE  /\ ideal' \in Seq(Units) /\ inBuffer' \in Buffers(Units) /\ Inside(inBuffer')
           /\ tight' => /\ IsTight(inBuffer') /\ InOrder(inBuffer')
                        /\ Readable(inBuffer') = ideal'
                        /\ Readable(ReadFd(inBuffer, data)) = ideal \o data
<1> DEFINE filled == ReadFd(inBuffer, data)
           left == ParseHttp(Readable(filled)).left
<1>1. /\ filled \in Buffers(Units) /\ (~Runaway(filled) => Inside(filled))
      /\ tight => /\ Allocated(filled)
                  /\ IsTight(filled) => InOrder(filled)
                  /\ Readable(filled) = ideal \o data
  BY Filled
<1>2. ~Runaway(filled) /\ inBuffer' = Consume(filled, left)
      /\ ideal' = ParseHttp(ideal \o data).left
  BY DEF ReadAndHandle
<1> HIDE DEF filled
<1>3. left \in Seq(Units) /\ Len(left) <= filled.write - filled.read
  BY <1>1, <1>2, Parsed
<1> HIDE DEF left
<1>4. /\ inBuffer' \in Buffers(Units) /\ Inside(inBuffer')
      /\ IsTight(inBuffer') <=> IsTight(filled)
  BY <1>1, <1>2, <1>3, ConsumeInside
<1>5. ideal' \in Seq(Units)
  <2>1. ideal \o data \in Seq(Units)
    <3>1. ideal \in Seq(Units)
      BY DEF InputInv, InputTypes
    <3> QED
      BY <3>1, ConcatProperties
  <2>2. ParseHttp(ideal \o data).left \in LeftOf(ideal \o data)
    BY <2>1, ParseLeaves
  <2> QED
    BY <1>2, <2>2 DEF LeftOf
<1>6. ASSUME tight'
      PROVE  /\ IsTight(inBuffer') /\ InOrder(inBuffer')
             /\ Readable(inBuffer') = ideal'
             /\ Readable(filled) = ideal \o data
  <2>1. tight /\ IsTight(inBuffer') /\ IsTight(filled)
    BY <1>4, <1>6
  <2>2. /\ filled \in Buffers(Units) /\ Allocated(filled) /\ InOrder(filled)
        /\ Readable(filled) = ideal \o data
    BY <1>1, <2>1
  <2>3. /\ inBuffer' \in Buffers(Units) /\ InOrder(inBuffer') /\ Readable(inBuffer') = left
    BY <1>2, <1>3, <2>2, ConsumeLeaves
  <2>4. left = ideal'
    BY <1>2, <2>2 DEF left
  <2> QED
    BY <2>1, <2>2, <2>3, <2>4
<1> QED
  BY <1>4, <1>5, <1>6 DEF filled

\* What a read that runs away does: it cannot happen while the vector is tight.
LEMMA WildBuffer ==
    ASSUME InputInv, ~Runaway(inBuffer), NEW data \in Seq(Units), ReadWild(data)
    PROVE  /\ ~tight /\ ideal' = ideal
           /\ inBuffer' \in Buffers(Units) /\ InputWithin'
<1>1. /\ Runaway(ReadFd(inBuffer, data)) /\ inBuffer' = ReadFd(inBuffer, data) /\ ideal' = ideal
  BY DEF ReadWild
<1> DEFINE filled == ReadFd(inBuffer, data)
<1>2. /\ filled \in Buffers(Units) /\ (Runaway(filled) => filled.read > filled.size)
      /\ tight => ~Runaway(filled)
  BY Filled
<1> HIDE DEF filled
<1>3. Runaway(filled) /\ inBuffer' = filled
  BY <1>1 DEF filled
<1> QED
  BY <1>1, <1>2, <1>3 DEF InputWithin

\* What a read of one simple request is answered with, after nothing else.
LEMMA SimpleHandled ==
    ASSUME InputInv, open, oneByOne, tight, NEW data \in Seq(Units), Simple(data),
           ReadAndHandle(data), Readable(ReadFd(inBuffer, data)) = ideal \o data
    PROVE  /\ answers' = Append(answers, Reference(data))
           /\ open' = Reference(data).keep
           /\ open' => ideal' = <<"cr", "lf">>
<1> DEFINE result == ParseHttp(ideal \o data)
<1>1. ideal \in {<<>>, <<"cr", "lf">>}
  BY DEF InputInv, AnsweredAsWhole
<1>2. /\ result.code = Reference(data).code /\ result.keep = Reference(data).keep
      /\ Reference(data).keep => result.left = <<"cr", "lf">>
  BY <1>1, SimpleAnswered
<1>3. /\ Reference(data).code \in {"GET_REQUEST", "BAD_REQUEST"}
      /\ Reference(data) = [code |-> Reference(data).code, keep |-> Reference(data).keep]
  BY DEF Reference
<1>4. /\ ideal' = result.left
      /\ IF result.code = "none" THEN \E code \in OffEnd : Answer(result, code)
                                 ELSE Answer(result, result.code)
  BY DEF ReadAndHandle
<1> HIDE DEF result
<1>5. Answer(result, result.code) /\ result.code # "NO_REQUEST"
  BY <1>2, <1>3, <1>4
<1>6. /\ answers' = Append(answers, [code |-> result.code, keep |-> result.keep])
      /\ open' = result.keep
  BY <1>5 DEF Answer
<1> QED
  BY <1>2, <1>3, <1>4, <1>6

\* A short request leaves the buffer as large as it was.
LEMMA ShortHandled ==
    ASSUME InputInv, open, ~Runaway(inBuffer), oneByOne, Short, NEW data \in Seq(Units),
           Len(data) <= InitSize - 2, ReadAndHandle(data)
    PROVE  IsTight(inBuffer') /\ inBuffer'.size = InitSize
<1> DEFINE filled == ReadFd(inBuffer, data)
           left == ParseHttp(Readable(filled)).left
<1>0. Zero \in Units
  BY DEF Zero, Units
<1>1. /\ tight /\ inBuffer.size = InitSize
      /\ inBuffer \in Buffers(Units) /\ IsTight(inBuffer) /\ InOrder(inBuffer)
      /\ Readable(inBuffer) = ideal /\ ideal \in {<<>>, <<"cr", "lf">>}
  BY DEF InputInv, InputTypes, NotGrown, FifoWhileTight, AnsweredAsWhole
<1>2. inBuffer.write - inBuffer.read <= 2
  <2>1. Allocated(inBuffer)
    BY <1>1 DEF IsTight, Allocated, Buffers
  <2>2. Len(ideal) = inBuffer.write - inBuffer.read
    BY <1>1, <2>1, ReadableBytesOf
  <2>3. Len(<<>>) = 0 /\ Len(<<"cr", "lf">>) = 2
    OBVIOUS
  <2>4. Len(ideal) = 0 \/ Len(ideal) = 2
    BY <1>1, <2>3
  <2> QED
    BY <2>2, <2>4
<1>3. filled.size = InitSize /\ IsTight(filled)
  BY <1>0, <1>1, <1>2, ShortReadFits
<1>5. ~Runaway(filled) /\ inBuffer' = Consume(filled, left)
  BY DEF ReadAndHandle
<1>4. filled \in Buffers(Units) /\ Inside(filled)
  BY <1>5, Filled
<1> HIDE DEF filled
<1>6. left \in Seq(Units) /\ Len(left) <= filled.write - filled.read
  BY <1>4, <1>5, Parsed
<1> QED
  BY <1>3, <1>4, <1>5, <1>6, ConsumeInside

\* One read and its handler.
LEMMA ReadKeepsInput ==
    ASSUME InputInv, NEW n \in 1 .. Len(stream), HandleRead(n)
    PROVE  InputInv'
<1> DEFINE data == SubSeq(stream, 1, n)
<1>1. /\ stream \in Seq(Units) /\ asked \in Seq(Seq(Units))
      /\ tight \in BOOLEAN /\ oneByOne \in BOOLEAN
  BY DEF InputInv, InputTypes
<1>2. data \in Seq(Units) /\ Drop(stream, n) \in Seq(Units)
  <2>1. n \in 0 .. Len(stream)
    BY <1>1
  <2>2. data \in Seq(Units) /\ SubSeq(stream, n + 1, Len(stream)) \in Seq(Units)
    BY <1>1, <2>1, CutInTwo
  <2> QED
    BY <2>2 DEF Drop
<1>3. /\ open /\ ~Runaway(inBuffer)
      /\ stream' = Drop(stream, n)
      /\ ReadWild(data) \/ ReadAndHandle(data)
      /\ tight' = (tight /\ IsTight(inBuffer'))
      /\ oneByOne' = (oneByOne /\ Simple(data))
      /\ asked' = IF oneByOne' THEN Append(asked, data) ELSE <<>>
  BY DEF HandleRead
<1> HIDE DEF data
<1>4. asked' \in Seq(Seq(Units))
  BY <1>1, <1>2, <1>3
<1>5. stream' \in Seq(Units) /\ tight' \in BOOLEAN /\ oneByOne' \in BOOLEAN
  BY <1>1, <1>2, <1>3
<1>6. ASSUME oneByOne', Short'
      PROVE  oneByOne /\ Short /\ Len(data) <= InitSize - 2
  <2>1. oneByOne /\ asked' = Append(asked, data)
    BY <1>3, <1>6
  <2>2. /\ \A i \in DOMAIN asked : i \in DOMAIN asked' /\ asked'[i] = asked[i]
        /\ Len(asked) + 1 \in DOMAIN asked' /\ asked'[Len(asked) + 1] = data
    BY <1>1, <1>2, <2>1
  <2> QED
    BY <1>6, <2>1, <2>2 DEF Short
<1>7. CASE ReadWild(data)
  <2>1. /\ ~tight /\ ideal' = ideal
        /\ inBuffer' \in Buffers(Units) /\ InputWithin'
    BY <1>2, <1>3, <1>7, WildBuffer
  <2>2. ~tight'
    BY <1>3, <2>1
  <2>3. InputTypes'
    BY <1>4, <1>5, <2>1, <2>2 DEF InputInv, InputTypes
  <2>5. ~(oneByOne' /\ Short')
    BY <1>6, <2>1 DEF InputInv, NotGrown
  <2> QED
    BY <2>1, <2>2, <2>3, <2>5 DEF InputInv, FifoWhileTight, NotGrown, AnsweredAsWhole
<1>8. CASE ReadAndHandle(data)
  <2>1. /\ ideal' \in Seq(Units) /\ inBuffer' \in Buffers(Units) /\ Inside(inBuffer')
        /\ tight' => /\ IsTight(inBuffer') /\ InOrder(inBuffer')
                     /\ Readable(inBuffer') = ideal'
                     /\ Readable(ReadFd(inBuffer, data)) = ideal \o data
    BY <1>2, <1>3, <1>8, HandledBuffer
  <2>2. InputTypes'
    BY <1>4, <1>5, <2>1 DEF InputTypes
  <2>3. InputWithin' /\ FifoWhileTight'
    BY <2>1 DEF Inside, InputWithin, FifoWhileTight
  <2>4. NotGrown'
    <3> SUFFICES ASSUME oneByOne', Short'
                 PROVE  tight' /\ inBuffer'.size = InitSize
      BY DEF NotGrown
    <3>1. oneByOne /\ Short /\ Len(data) <= InitSize - 2
      BY <1>6
    <3>2. tight
      BY <3>1 DEF InputInv, NotGrown
    <3>3. IsTight(inBuffer') /\ inBuffer'.size = InitSize
      BY <1>2, <1>3, <1>8, <3>1, ShortHandled
    <3> QED
      BY <1>3, <3>2, <3>3
  <2>5. ASSUME oneByOne', tight'
        PROVE  /\ answers' = [i \in DOMAIN asked' |-> Reference(asked'[i])]
               /\ open' <=> \A i \in DOMAIN asked' : Reference(asked'[i]).keep
               /\ open' => ideal' \in {<<>>, <<"cr", "lf">>}
    <3>1. oneByOne /\ tight /\ Simple(data) /\ asked' = Append(asked, data)
      BY <1>3, <2>5
    <3>2. /\ answers' = Append(answers, Reference(data))
          /\ open' = Reference(data).keep
          /\ open' => ideal' = <<"cr", "lf">>
      BY <1>2, <1>3, <1>8, <2>1, <2>5, <3>1, SimpleHandled
    <3>3. /\ answers = [i \in DOMAIN asked |-> Reference(asked[i])]
          /\ \A i \in DOMAIN asked : Reference(asked[i]).keep
      BY <1>3, <3>1 DEF InputInv, AnsweredAsWhole
    <3> DEFINE more == Append(asked, data)
    <3>4. /\ Append([i \in DOMAIN asked |-> Reference(asked[i])], Reference(data))
               = [i \in DOMAIN more |-> Reference(more[i])]
          /\ (\A i \in DOMAIN more : Reference(more[i]).keep)
               <=> (\A i \in DOMAIN asked : Reference(asked[i]).keep) /\ Reference(data).keep
      BY <1>1, <1>2, OneMoreAnswer
    <3> HIDE DEF more
    <3>5. asked' = more
      BY <3>1 DEF more
    <3>6. answers' = [i \in DOMAIN asked' |-> Reference(asked'[i])]
      BY <3>2, <3>3, <3>4, <3>5
    <3>7. open' <=> \A i \in DOMAIN asked' : Reference(asked'[i]).keep
      BY <3>2, <3>3, <3>4, <3>5
    <3> QED
      BY <3>2, <3>6, <3>7
  <2>6. AnsweredAsWhole'
    BY <2>5, <2>4 DEF AnsweredAsWhole, NotGrown
  <2> QED
    BY <2>2, <2>3, <2>6, <2>4 DEF InputInv
<1> QED
  BY <1>3, <1>7, <1>8

\* The inductive invariant of a connection's input: the types, and the properties
\* below with InputWithin, the half of WithinCapacity about inBuffer.  That the answers are right rests on the FIFO, and that on the
\* indexes being in order, which only a vector without slack guarantees.
THEOREM InputInvariant == Spec => []InputInv
<1>1. InputInv /\ [Next]_vars => InputInv'
  <2> SUFFICES ASSUME InputInv, [Next]_vars
               PROVE  InputInv'
    OBVIOUS
  <2>1. CASE \E n \in 1 .. Len(stream) : HandleRead(n)
    BY <2>1, ReadKeepsInput
  <2>2. CASE UNCHANGED <<stream, inBuffer, answers, open, ideal, tight, oneByOne, asked>>
    BY <2>2 DEF InputInv, InputTypes, InputWithin, FifoWhileTight, NotGrown, Short, AnsweredAsWhole
  <2>3. CASE WriteMore
    BY <2>2, <2>3 DEF WriteMore
  <2>4. CASE UNCHANGED vars
    BY <2>2, <2>4 DEF vars
  <2> QED
    BY <2>1, <2>3, <2>4 DEF Next
<1> QED
  BY <1>1, InitInput, PTL DEF Spec

\* As long as the vector has had no capacity but its size, inBuffer holds what
\* an infinite buffer would (Buffer.cpp:33-97).
THEOREM InputIsFifo == Spec => []FifoWhileTight
<1>1. InputInv => FifoWhileTight
  BY DEF InputInv
<1> QED
  BY <1>1, InputInvariant, PTL

\* As long as requests are simple, come one per read, and are two bytes shorter
\* than a new buffer at least, the vector never grows (Buffer.cpp:40-58, 71-95):
\* it is never without room for such a request behind the blank line of the last.
THEOREM ShortNeedNoGrowth == Spec => []NotGrown
<1>1. InputInv => NotGrown
  BY DEF InputInv
<1> QED
  BY <1>1, InputInvariant, PTL

\* Simple requests in any number, each in a read of its own, are answered as a
\* look at each of them tells, and leave a blank line at most
\* (httpServer.cpp:71-157, 173-231): short ones always, others as long as the
\* vector has no slack.
THEOREM EachAnsweredAsWhole == Spec => []AnsweredAsWhole
<1>1. InputInv => AnsweredAsWhole
  BY DEF InputInv
<1> QED
  BY <1>1, InputInvariant, PTL

\* What the parser answers, and closes, leaves the output in order.
LEMMA AnswerInOrder ==
    ASSUME NEW CONSTANT Data, Zero \in Data, Responses \subseteq Seq(Data),
           InOrderOver(Data, out), NEW result, NEW code, Answer(result, code)
    PROVE  InOrderOver(Data, out')
<1>1. CASE code = "NO_REQUEST"
  BY <1>1 DEF Answer
<1>2. CASE code # "NO_REQUEST"
  <2>1. PICK data \in ResponsesTo(code) : \E sent \in Sent(out, data) :
                out' \in IF result.keep THEN {sent} ELSE BeforeDestroyed(sent)
    BY <1>2 DEF Answer
  <2>2. PICK sent \in Sent(out, data) :
                out' \in IF result.keep THEN {sent} ELSE BeforeDestroyed(sent)
    BY <2>1
  <2>3. data \in Seq(Data)
    BY ParserConstants DEF ResponsesTo
  <2>4. InOrderOver(Data, sent)
    BY <2>3, SentInOrder
  <2>5. out' = sent \/ out' \in Written(sent)
    BY <2>2 DEF BeforeDestroyed
  <2> QED
    BY <2>4, <2>5, WrittenInOrder
<1> QED
  BY <1>1, <1>2

\* The responses to a stream leave in order, up to the write callback that still
\* runs after the close (Connection.cpp:71-131, Channel.cpp:49-78).
THEOREM AnswersInOrder ==
    ASSUME NEW CONSTANT Data, Zero \in Data, Responses \subseteq Seq(Data)
    PROVE  Spec => []ResponsesInOrder
<1> DEFINE Inv == InOrderOver(Data, out)
<1>1. Init => Inv
  BY NewOutputInOrder DEF Init, OutputInit
<1>2. Inv /\ [Next]_vars => Inv'
  <2> SUFFICES ASSUME Inv, [Next]_vars
               PROVE  Inv'
    OBVIOUS
  <2>1. CASE UNCHANGED out
    BY <2>1
  <2>2. ASSUME NEW n \in 1 .. Len(stream), HandleRead(n)
        PROVE  Inv'
    <3> DEFINE data == SubSeq(stream, 1, n)
    <3>1. CASE ReadWild(data)
      BY <2>1, <3>1 DEF ReadWild
    <3>2. CASE ReadAndHandle(data)
      <4>1. PICK code : Answer(ParseHttp(Readable(ReadFd(inBuffer, data))), code)
        BY <3>2 DEF ReadAndHandle
      <4> QED
        BY <4>1, AnswerInOrder
    <3> QED
      BY <2>2, <3>1, <3>2 DEF HandleRead
  <2>3. CASE WriteMore
    BY <2>3, WrittenInOrder DEF WriteMore, HandleWrite
  <2> QED
    BY <2>1, <2>2, <2>3 DEF Next, vars
<1>3. Inv => ResponsesInOrder
  BY DEF InOrderOver, ResponsesInOrder
<1> QED
  BY <1>1, <1>2, <1>3, PTL DEF Spec

\* outBuffer stays inside its memory when append and retrive are all that is
\* done to it.
LEMMA PassedInside ==
    ASSUME NEW Data, Zero \in Data, NEW o, o.buffer \in Buffers(Data), Inside(o.buffer),
           NEW data \in Seq(Data), NEW n \in 0 .. Len(data)
    PROVE  Passed(o, data, n).buffer \in Buffers(Data) /\ Inside(Passed(o, data, n).buffer)
<1> DEFINE b == o.buffer
           rest == SubSeq(data, n + 1, Len(data))
           c == AppendTo(b, rest)
<1>1. Passed(o, data, n).buffer = IF rest = <<>> THEN b ELSE c
  BY DEF Passed
<1>2. rest \in Seq(Data)
  BY CutInTwo
<1>3. /\ b \in Buffers(Data) /\ b.mem # Broken /\ ~(b.write < b.read)
      /\ b.size <= Capacity(b) /\ b.write <= Capacity(b)
  BY DEF Inside, Runaway, Buffers
<1> HIDE DEF b, rest
<1>4. /\ c \in Buffers(Data)
      /\ Runaway(c) => b.write < b.read
      /\ ~Runaway(c) => Inside(c)
  BY <1>2, <1>3, AppendInside
<1> QED
  BY <1>1, <1>3, <1>4 DEF b

\* sendinLoop, whatever write() does, stays inside the memory.
LEMMA SentInside ==
    ASSUME NEW Data, Zero \in Data, NEW o, o.buffer \in Buffers(Data), Inside(o.buffer),
           NEW data \in Seq(Data), NEW p \in Sent(o, data)
    PROVE  p.buffer \in Buffers(Data) /\ Inside(p.buffer)
<1>1. Taken(Len(data)) \subseteq 0 .. Len(data) /\ 0 \in 0 .. Len(data)
  BY DEF Taken
<1>2. p = o \/ \E n \in 0 .. Len(data) : p = Passed(o, data, n)
  BY <1>1 DEF Sent, Failed
<1> QED
  BY <1>2, PassedInside

\* handleWrite, whatever write() does, stays inside the memory.
LEMMA WrittenInside ==
    ASSUME NEW Data, NEW o, o.buffer \in Buffers(Data), Inside(o.buffer), NEW p \in Written(o)
    PROVE  p.buffer \in Buffers(Data) /\ Inside(p.buffer)
<1>1. CASE p = o
  BY <1>1
<1>2. CASE p # o
  <2> DEFINE b == o.buffer
  <2>1. PICK n \in Taken(ReadableBytes(b)) : p = Drained(o, n)
    BY <1>2 DEF Written
  <2>2. p.buffer = Retrive(b, n)
    BY <2>1 DEF Drained
  <2>3. /\ b.read \in Nat /\ b.write \in Nat /\ b.size \in Nat /\ b.mem \in Seq(Data)
        /\ b.mem # Broken /\ b.read <= b.write /\ b.size <= Len(b.mem) /\ b.write <= Len(b.mem)
        /\ Len(b.mem) \in Nat
        /\ b = [mem |-> b.mem, size |-> b.size, read |-> b.read, write |-> b.write]
    BY DEF Inside, Runaway, Buffers, Capacity
  <2>4. n \in Nat
    BY <2>1, <2>3 DEF Taken, ReadableBytes
  <2> HIDE DEF b
  <2>5. CASE n < ReadableBytes(b)
    <3>1. p.buffer = [mem |-> b.mem, size |-> b.size, read |-> b.read + n, write |-> b.write]
      BY <2>2, <2>3, <2>5 DEF Retrive
    <3>2. b.read + n \in Nat /\ b.read + n <= b.write
      BY <2>3, <2>4, <2>5 DEF ReadableBytes
    <3> QED
      BY <2>3, <3>1, <3>2 DEF Buffers, Inside, Runaway, Capacity
  <2>6. CASE ~(n < ReadableBytes(b))
    <3>1. p.buffer = [mem |-> b.mem, size |-> b.size, read |-> 0, write |-> 0]
      BY <2>2, <2>3, <2>6 DEF Retrive
    <3> QED
      BY <2>3, <3>1 DEF Buffers, Inside, Runaway, Capacity
  <2> QED
    BY <2>5, <2>6
<1> QED
  BY <1>1, <1>2

\* What the parser answers stays inside the memory of outBuffer.
LEMMA AnswerInside ==
    ASSUME NEW CONSTANT Data, Zero \in Data, Responses \subseteq Seq(Data),
           out.buffer \in Buffers(Data), Inside(out.buffer),
           NEW result, NEW code, Answer(result, code)
    PROVE  out'.buffer \in Buffers(Data) /\ Inside(out'.buffer)
<1>1. CASE code = "NO_REQUEST"
  BY <1>1 DEF Answer
<1>2. CASE code # "NO_REQUEST"
  <2>1. PICK data \in ResponsesTo(code) : \E sent \in Sent(out, data) :
                out' \in IF result.keep THEN {sent} ELSE BeforeDestroyed(sent)
    BY <1>2 DEF Answer
  <2>2. PICK sent \in Sent(out, data) :
                out' \in IF result.keep THEN {sent} ELSE BeforeDestroyed(sent)
    BY <2>1
  <2>3. data \in Seq(Data)
    BY ParserConstants DEF ResponsesTo
  <2>4. sent.buffer \in Buffers(Data) /\ Inside(sent.buffer)
    BY <2>3, SentInside
  <2>5. out' = sent \/ out' \in Written(sent)
    BY <2>2 DEF BeforeDestroyed
  <2> QED
    BY <2>4, <2>5, WrittenInside
<1> QED
  BY <1>1, <1>2

\* For any streams, cuts, responses and writes: the memory of both vectors of a
\* connection is respected, but for a read that overflows inBuffer while its
\* readIndex is beyond size() (Buffer.cpp:33-97).
THEOREM MemoryRespected ==
    ASSUME NEW CONSTANT Data, Zero \in Data, Responses \subseteq Seq(Data)
    PROVE  Spec => []WithinCapacity
<1> DEFINE Inv == out.buffer \in Buffers(Data) /\ Inside(out.buffer)
<1>1. Init => Inv
  BY EmptyBuffer DEF Init, OutputInit, NewOutput
<1>2. Inv /\ [Next]_vars => Inv'
  <2> SUFFICES ASSUME Inv, [Next]_vars
               PROVE  Inv'
    OBVIOUS
  <2>1. CASE UNCHANGED out
    BY <2>1
  <2>2. ASSUME NEW n \in 1 .. Len(stream), HandleRead(n)
        PROVE  Inv'
    <3> DEFINE data == SubSeq(stream, 1, n)
    <3>1. CASE ReadWild(data)
      BY <2>1, <3>1 DEF ReadWild
    <3>2. CASE ReadAndHandle(data)
      <4>1. PICK code : Answer(ParseHttp(Readable(ReadFd(inBuffer, data))), code)
        BY <3>2 DEF ReadAndHandle
      <4> QED
        BY <4>1, AnswerInside
    <3> QED
      BY <2>2, <3>1, <3>2 DEF HandleRead
  <2>3. CASE WriteMore
    BY <2>3, WrittenInside DEF WriteMore, HandleWrite
  <2> QED
    BY <2>1, <2>2, <2>3 DEF Next, vars
<1>3. InputInv /\ Inv => WithinCapacity
  BY DEF InputInv, WithinCapacity
<1> QED
  BY <1>1, <1>2, <1>3, InputInvariant, PTL DEF Spec
==============================================================================

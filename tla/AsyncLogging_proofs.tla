-------------------------- MODULE AsyncLogging_proofs --------------------------
(***************************************************************************)
(* TLAPS proofs about AsyncLogging, for any set of buffers, buffer size,   *)
(* backlog limit (of at least two) and number of lines: types, the         *)
(* inductive invariant of the recycling, back() on a non-empty vector, one  *)
(* owner for every buffer, and every line once and in order.               *)
(***************************************************************************)
EXTENDS AsyncLogging, SequenceTheorems, TLAPS

USE DEF Pointer, members, locals, fileVars

LEMMA FreshIsNew == Unused # {} => Fresh \in Unused
BY DEF Fresh

LEMMA TwoAreTwo ==
    ASSUME NEW S, \E b1, b2 \in S : b1 # b2
    PROVE  TwoOf(S)[1] \in S /\ TwoOf(S)[2] \in S /\ TwoOf(S)[1] # TwoOf(S)[2]
<1>1. \E p \in S \X S : p[1] # p[2]
  <2>1. PICK b1 \in S, b2 \in S : b1 # b2
    OBVIOUS
  <2>2. <<b1, b2>> \in S \X S /\ <<b1, b2>>[1] # <<b1, b2>>[2]
    BY <2>1
  <2>3. QED
    BY <2>2
<1>2. TwoOf(S) \in S \X S /\ TwoOf(S)[1] # TwoOf(S)[2]
  BY <1>1 DEF TwoOf
<1>3. QED
  BY <1>2

\* A prefix of a sequence of buffers is one (erase, resize).
LEMMA PrefixIsSeq ==
    ASSUME NEW bs \in Seq(BufferIds), NEW n \in 0 .. Len(bs)
    PROVE  SubSeq(bs, 1, n) \in Seq(BufferIds) /\ Len(SubSeq(bs, 1, n)) = n
<1>1. \A i \in 1 .. n : bs[i] \in BufferIds
  BY ElementOfSeq
<1>2. QED
  BY <1>1, SubSeqProperties

\* The pile-up rule keeps at least two buffers of two or more
\* (AsyncLogging.cpp:91-97).
LEMMA KeptProperties ==
    ASSUME NEW bs \in Seq(BufferIds)
    PROVE  /\ Kept(bs) \in Seq(BufferIds)
           /\ Len(bs) >= 1 => Len(Kept(bs)) >= 1
           /\ Len(bs) >= 2 => Len(Kept(bs)) >= 2
           /\ Len(Kept(bs)) <= Len(bs)
<1>1. CASE Len(bs) > MaxBacklog
  <2>1. 2 \in 0 .. Len(bs)
    BY <1>1, LoggingConstants, LenProperties
  <2>2. Kept(bs) = SubSeq(bs, 1, 2)
    BY <1>1 DEF Kept
  <2>3. QED
    BY <2>1, <2>2, PrefixIsSeq
<1>2. CASE ~(Len(bs) > MaxBacklog)
  BY <1>2, LenProperties DEF Kept
<1>3. QED
  BY <1>1, <1>2

\* What it keeps is a prefix.
LEMMA KeptIsPrefix ==
    ASSUME NEW bs \in Seq(BufferIds)
    PROVE  DOMAIN Kept(bs) \subseteq DOMAIN bs /\ \A i \in DOMAIN Kept(bs) : Kept(bs)[i] = bs[i]
<1>1. Len(bs) \in Nat /\ DOMAIN bs = 1 .. Len(bs)
  BY LenProperties
<1>2. CASE Len(bs) > MaxBacklog
  <2>1. Len(bs) > 2 /\ \A i \in 1 .. 2 : bs[i] \in BufferIds
    BY <1>1, <1>2, LoggingConstants
  <2>2. /\ SubSeq(bs, 1, 2) \in Seq(BufferIds) /\ Len(SubSeq(bs, 1, 2)) = 2
        /\ \A i \in 1 .. 2 : SubSeq(bs, 1, 2)[i] = bs[i]
    BY <1>1, <2>1, SubSeqProperties
  <2>3. Kept(bs) = SubSeq(bs, 1, 2) /\ DOMAIN SubSeq(bs, 1, 2) = 1 .. 2
    BY <1>2, <2>2, LenProperties DEF Kept
  <2>4. QED
    BY <1>1, <2>1, <2>2, <2>3
<1>3. CASE ~(Len(bs) > MaxBacklog)
  BY <1>3 DEF Kept
<1>4. QED
  BY <1>2, <1>3

\* The lines found in some buffers are lines.
LEMMA LinesInAreLines ==
    ASSUME NEW bs \in Seq(BufferIds), content \in [BufferIds -> Seq(Lines)]
    PROVE  LinesIn(bs) \in SUBSET Lines
<1>1. ASSUME NEW i \in DOMAIN bs PROVE Range(content[bs[i]]) \subseteq Lines
  <2>1. content[bs[i]] \in Seq(Lines)
    BY <1>1
  <2>2. \A j \in DOMAIN content[bs[i]] : content[bs[i]][j] \in Lines
    BY <2>1
  <2>3. QED
    BY <2>2 DEF Range
<1>2. QED
  BY <1>1 DEF LinesIn

\* A flush counts lines.
LEMMA FlushedIsNat ==
    ASSUME file \in Seq(Lines), flushed \in Nat, Flush \/ UNCHANGED flushed
    PROVE  flushed' \in Nat
BY LenProperties DEF Flush

\* What an append to the file leaves has the right types, however many of the
\* lines fwrite() takes.
LEMMA AppendedTypes ==
    ASSUME TypeOK, NEW lines \in Seq(Lines), NEW n \in 0 .. Len(lines),
           n < Len(lines) => failures < MaxFailures, FileAppend(lines, n)
    PROVE  /\ file' \in Seq(Lines) /\ dropped' \in SUBSET Lines
           /\ count' \in Nat /\ flushed' \in Nat /\ failures' \in 0 .. MaxFailures
<1>1. Len(lines) \in Nat /\ n \in Nat /\ \A i \in 1 .. Len(lines) : lines[i] \in Lines
  BY LenProperties, ElementOfSeq
<1>2. SubSeq(lines, 1, n) \in Seq(Lines) /\ SubSeq(lines, n + 1, Len(lines)) \in Seq(Lines)
  <2>1. /\ \A i \in 1 .. n : lines[i] \in Lines
        /\ \A i \in n + 1 .. Len(lines) : lines[i] \in Lines
    BY <1>1
  <2>2. QED
    BY <1>1, <2>1, SubSeqProperties
<1>3. file' \in Seq(Lines) /\ Len(file') \in Nat
  BY <1>2, ConcatProperties, LenProperties DEF FileAppend, TypeOK
<1>4. dropped' \in SUBSET Lines
  <2>1. Range(SubSeq(lines, n + 1, Len(lines))) \in SUBSET Lines
    BY <1>2 DEF Range
  <2>2. QED
    BY <2>1 DEF FileAppend, TypeOK
<1>5. count' \in Nat /\ flushed' \in Nat /\ failures' \in 0 .. MaxFailures
  BY <1>1, <1>3, LoggingConstants DEF FileAppend, TypeOK
<1>6. QED
  BY <1>3, <1>4, <1>5

\* The first two parts of IInv, inductive by themselves.
Recycling == TypeOK /\ SparesInv

\* The two spare buffers are always back in place when an
\* iteration ends, because a missing reserve means two buffers to recycle.
LEMMA SparesAreKept == Spec => []Recycling
<1>1. Init => Recycling
  <2> SUFFICES ASSUME Init PROVE Recycling
    OBVIOUS
  <2>1. TwoOf(BufferIds)[1] \in BufferIds /\ TwoOf(BufferIds)[2] \in BufferIds
    BY TwoAreTwo, LoggingConstants
  <2>2. 0 \in 0 .. MaxLines
    BY LoggingConstants
  <2>3. TypeOK
    <3>1. currBuffer \in Pointer /\ nextBuffer \in Pointer
      BY <2>1 DEF Init
    <3>2. content \in [BufferIds -> Seq(Lines)]
      BY EmptySeq DEF Init
    <3>3. accepted \in 0 .. MaxLines
      BY <2>2 DEF Init
    <3> HIDE DEF Pointer
    <3>4. NoBuffer \in Pointer
      BY DEF Pointer
    <3>5. buffers \in Seq(BufferIds) /\ buffersTowrite \in Seq(BufferIds) /\ file \in Seq(Lines)
      BY EmptySeq DEF Init
    <3>6. /\ pc \in Stages
          /\ owner \in {"new", "starting", "running", "stopping", "joined"}
          /\ running \in BOOLEAN /\ latch \in {0, 1}
          /\ newBuffer1 \in Pointer /\ newBuffer2 \in Pointer
          /\ written \in Nat
          /\ dropped \in SUBSET Lines /\ owed \in SUBSET Lines
      BY <3>4 DEF Init, Stages
    <3>7. count \in Nat /\ flushed \in Nat /\ failures \in 0 .. MaxFailures
      BY LoggingConstants DEF Init
    <3>8. QED
      BY <3>1, <3>2, <3>3, <3>5, <3>6, <3>7 DEF TypeOK
  <2>4. SparesInv
    BY <2>1, LoggingConstants DEF Init, SparesInv
  <2>5. QED
    BY <2>3, <2>4 DEF Recycling
<1>2. Recycling /\ [Next]_vars => Recycling'
  <2> SUFFICES ASSUME TypeOK, SparesInv, [Next]_vars PROVE TypeOK' /\ SparesInv'
    BY DEF Recycling
  <2>1. CASE Start
    <3>1. TypeOK'
      BY <2>1 DEF Start, TypeOK, Stages
    <3>2. SparesInv'
      BY <2>1 DEF Start, SparesInv
    <3>3. QED
      BY <3>1, <3>2
  <2>2. CASE StartReturns
    <3>1. TypeOK'
      BY <2>2 DEF StartReturns, TypeOK, Stages
    <3>2. SparesInv'
      BY <2>2 DEF StartReturns, SparesInv
    <3>3. QED
      BY <3>1, <3>2
  <2>3. CASE AppendLine
    <3>1. accepted + 1 \in Lines /\ accepted' \in 0 .. MaxLines /\ accepted' = accepted + 1
      BY <2>3, LoggingConstants DEF AppendLine, TypeOK, Lines
    <3>2. UNCHANGED <<pc, owner, running, latch, newBuffer1, newBuffer2, buffersTowrite,
                      written, fileVars, dropped, owed>>
      BY <2>3 DEF AppendLine
    <3>3. pc \notin {"write", "recycle"} /\ owner # "new"
      BY <2>3 DEF AppendLine, MutexFree
    <3>4. currBuffer \in BufferIds
      BY DEF TypeOK, SparesInv
    <3>5. CASE Fits(currBuffer)
      <4>1. content' \in [BufferIds -> Seq(Lines)]
        <5>1. content' = [content EXCEPT ![currBuffer] = Append(@, accepted + 1)]
          BY <2>3, <3>5 DEF AppendLine
        <5>2. content[currBuffer] \in Seq(Lines)
          BY <3>4 DEF TypeOK
        <5>3. Append(content[currBuffer], accepted + 1) \in Seq(Lines)
          BY <3>1, <5>2, AppendProperties
        <5>4. QED
          BY <3>4, <5>1, <5>3 DEF TypeOK
      <4>2. UNCHANGED <<currBuffer, nextBuffer, buffers>>
        BY <2>3, <3>5 DEF AppendLine
      <4>3. TypeOK'
        BY <3>1, <3>2, <4>1, <4>2 DEF TypeOK
      <4>4. SparesInv'
        BY <3>2, <4>2 DEF SparesInv
      <4>5. QED
        BY <4>3, <4>4
    <3>6. CASE ~Fits(currBuffer)
      <4>1. currBuffer' \in BufferIds
        BY <2>3, <3>6, FreshIsNew DEF AppendLine, Unused, TypeOK
      <4>2. buffers' \in Seq(BufferIds) /\ buffers' # <<>>
        <5>1. buffers' = Append(buffers, currBuffer)
          BY <2>3, <3>6 DEF AppendLine
        <5>2. buffers \in Seq(BufferIds)
          BY DEF TypeOK
        <5>3. QED
          BY <3>4, <5>1, <5>2, AppendProperties
      <4>3. nextBuffer' = NoBuffer
        BY <2>3, <3>6 DEF AppendLine
      <4>4. content' \in [BufferIds -> Seq(Lines)]
        <5>1. content' = [content EXCEPT ![currBuffer'] =
                IF nextBuffer # NoBuffer THEN Append(@, accepted + 1) ELSE <<accepted + 1>>]
          BY <2>3, <3>6 DEF AppendLine
        <5>2. content[currBuffer'] \in Seq(Lines)
          BY <4>1 DEF TypeOK
        <5>3. Append(content[currBuffer'], accepted + 1) \in Seq(Lines) /\ <<accepted + 1>> \in Seq(Lines)
          BY <3>1, <5>2, AppendProperties
        <5>4. QED
          BY <4>1, <5>1, <5>3 DEF TypeOK
      <4>5. TypeOK'
        BY <3>1, <3>2, <4>1, <4>2, <4>3, <4>4 DEF TypeOK
      <4>6. SparesInv'
        BY <3>2, <3>3, <4>1, <4>2, LoggingConstants DEF SparesInv
      <4>7. QED
        BY <4>5, <4>6
    <3>7. QED
      BY <3>5, <3>6
  <2>4. CASE Stop
    <3>1. 1 .. accepted \in SUBSET Lines
      BY LoggingConstants DEF TypeOK, Lines
    <3>2. TypeOK'
      BY <2>4, <3>1 DEF Stop, TypeOK, Stages
    <3>3. SparesInv'
      BY <2>4 DEF Stop, SparesInv
    <3>4. QED
      BY <3>2, <3>3
  <2>5. CASE Join
    <3>1. TypeOK'
      BY <2>5 DEF Join, TypeOK, Stages
    <3>2. SparesInv'
      BY <2>5 DEF Join, SparesInv
    <3>3. QED
      BY <3>1, <3>2
  <2>6. CASE Entry
    <3>1. TwoOf(Unused)[1] \in BufferIds /\ TwoOf(Unused)[2] \in BufferIds
      BY <2>6, TwoAreTwo DEF Entry, Unused
    <3>2. TypeOK'
      BY <2>6, <3>1 DEF Entry, TypeOK, Stages
    <3>3. SparesInv'
      BY <2>6, <3>1, LoggingConstants DEF Entry, SparesInv
    <3>4. QED
      BY <3>2, <3>3
  <2>7. CASE Check
    <3>1. TypeOK'
      <4>1. flushed' \in Nat
        BY <2>7, FlushedIsNat DEF Check, TypeOK
      <4>2. QED
        BY <2>7, <4>1 DEF Check, TypeOK, Stages
    <3>2. SparesInv'
      BY <2>7 DEF Check, SparesInv
    <3>3. QED
      BY <3>1, <3>2
  <2>8. CASE Lock
    <3>1. TypeOK'
      BY <2>8 DEF Lock, TypeOK, Stages
    <3>2. SparesInv'
      BY <2>8 DEF Lock, SparesInv
    <3>3. QED
      BY <3>1, <3>2
  <2>9. CASE Wake
    <3>1. TypeOK'
      BY <2>9 DEF Wake, TypeOK, Stages
    <3>2. SparesInv'
      BY <2>9 DEF Wake, SparesInv
    <3>3. QED
      BY <3>1, <3>2
  <2>10. CASE Swap
    <3> DEFINE all == Append(buffers, currBuffer)
               erased == SubSeq(all, Len(Kept(all)) + 1, Len(all))
    <3>1. /\ all \in Seq(BufferIds)
          /\ Len(all) = Len(buffers) + 1
          /\ Len(buffers) \in Nat
          /\ buffers # <<>> => Len(buffers) >= 1
      BY AppendProperties, EmptySeq, LenProperties DEF TypeOK, SparesInv
    <3>2. /\ Kept(all) \in Seq(BufferIds)
          /\ Len(Kept(all)) \in 1 .. Len(all)
          /\ buffers # <<>> => Len(Kept(all)) >= 2
      <4> HIDE DEF all
      <4>1. QED
        BY <3>1, KeptProperties, LenProperties
    <3>3. LinesIn(erased) \in SUBSET Lines
      <4>1. \A i \in Len(Kept(all)) + 1 .. Len(all) : all[i] \in BufferIds
        <5> HIDE DEF all
        <5>1. QED
          BY <3>1, <3>2, ElementOfSeq
      <4>2. erased \in Seq(BufferIds)
        <5> HIDE DEF all
        <5>1. Len(Kept(all)) + 1 \in Int /\ Len(all) \in Int
          BY <3>1, <3>2
        <5>2. QED
          BY <4>1, <5>1, SubSeqProperties DEF erased
      <4>3. QED
        BY <4>2, LinesInAreLines DEF TypeOK
    <3>4. /\ pc = "swap" /\ pc' = "write"
          /\ currBuffer' = newBuffer1 /\ newBuffer1' = NoBuffer
          /\ buffersTowrite' = Kept(all) /\ buffers' = buffersTowrite
          /\ dropped' = dropped \cup LinesIn(erased)
          /\ UNCHANGED <<owner, running, latch, content, written, fileVars, accepted, owed>>
      BY <2>10 DEF Swap
    <3>5. /\ nextBuffer = NoBuffer => nextBuffer' = newBuffer2 /\ newBuffer2' = NoBuffer
          /\ nextBuffer # NoBuffer => UNCHANGED <<nextBuffer, newBuffer2>>
      BY <2>10 DEF Swap
    <3> HIDE DEF all, erased
    <3>6. TypeOK'
      BY <3>2, <3>3, <3>4, <3>5 DEF TypeOK, Stages
    <3>7. SparesInv'
      <4>1. Kept(all) # <<>>
        BY <3>2, EmptySeq
      <4>2. QED
        BY <3>2, <3>4, <3>5, <4>1 DEF SparesInv
    <3>8. QED
      BY <3>6, <3>7
  <2>11. CASE WriteBuffer
    <3> DEFINE lines == content[buffersTowrite[written + 1]]
    <3>1. /\ UNCHANGED <<pc, owner, running, latch, content, members, locals, accepted, owed>>
          /\ written < Len(buffersTowrite) /\ written' = written + 1 /\ written \in Nat
      BY <2>11 DEF WriteBuffer, TypeOK
    <3>2. PICK n \in 0 .. Len(lines) :
                (n < Len(lines) => failures < MaxFailures) /\ FileAppend(lines, n)
      BY <2>11 DEF WriteBuffer
    <3>3. lines \in Seq(Lines)
      <4>1. buffersTowrite[written + 1] \in BufferIds
        BY <3>1, ElementOfSeq, LenProperties DEF TypeOK
      <4>2. QED
        BY <4>1 DEF TypeOK
    <3> HIDE DEF lines
    <3>4. /\ file' \in Seq(Lines) /\ dropped' \in SUBSET Lines
          /\ count' \in Nat /\ flushed' \in Nat /\ failures' \in 0 .. MaxFailures
      BY <3>2, <3>3, AppendedTypes
    <3>5. TypeOK'
      BY <3>1, <3>4 DEF TypeOK
    <3>6. SparesInv'
      BY <3>1 DEF SparesInv
    <3>7. QED
      BY <3>5, <3>6
  <2>15. CASE WriteDone
    <3>1. TypeOK'
      BY <2>15 DEF WriteDone, TypeOK, Stages
    <3>2. SparesInv'
      BY <2>15 DEF WriteDone, SparesInv
    <3>3. QED
      BY <3>1, <3>2
  <2>12. CASE Recycle
    <3> DEFINE two == IF Len(buffersTowrite) > 2 THEN SubSeq(buffersTowrite, 1, 2)
                      ELSE buffersTowrite
    <3>1. /\ two \in Seq(BufferIds)
          /\ Len(two) \in Nat
          /\ Len(two) >= 1
          /\ newBuffer2 = NoBuffer => Len(two) >= 2
      <4>1. /\ Len(buffersTowrite) \in Nat
            /\ Len(buffersTowrite) >= 1
            /\ newBuffer2 = NoBuffer => Len(buffersTowrite) >= 2
        BY <2>12, EmptySeq, LenProperties DEF Recycle, TypeOK, SparesInv
      <4>2. CASE Len(buffersTowrite) > 2
        <5>1. SubSeq(buffersTowrite, 1, 2) \in Seq(BufferIds) /\ Len(SubSeq(buffersTowrite, 1, 2)) = 2
          BY <4>1, <4>2, PrefixIsSeq DEF TypeOK
        <5>2. QED
          BY <4>2, <5>1
      <4>3. CASE ~(Len(buffersTowrite) > 2)
        BY <4>1, <4>3 DEF TypeOK
      <4>4. QED
        BY <4>2, <4>3
    <3>2. /\ pc = "recycle" /\ pc' = "check"
          /\ newBuffer1' = Back(two, 0)
          /\ newBuffer2' = IF newBuffer2 = NoBuffer THEN Back(two, 1) ELSE newBuffer2
          /\ content' = Emptied({newBuffer1', newBuffer2'})
          /\ buffersTowrite' = <<>>
          /\ UNCHANGED <<owner, running, latch, members, written, file, count, failures, accepted,
                         dropped, owed>>
          /\ flushed' \in Nat
      BY <2>12, FlushedIsNat DEF Recycle, TypeOK
    <3> HIDE DEF two
    <3>3. Back(two, 0) \in BufferIds
      BY <3>1, ElementOfSeq DEF Back
    <3>4. newBuffer2 = NoBuffer => Back(two, 1) \in BufferIds
      BY <3>1, ElementOfSeq DEF Back
    <3>5. newBuffer1' \in BufferIds /\ newBuffer2' \in BufferIds
      BY <3>2, <3>3, <3>4 DEF TypeOK
    <3>6. content' \in [BufferIds -> Seq(Lines)]
      BY <3>2, EmptySeq DEF Emptied, TypeOK
    <3>7. TypeOK'
      <4>1. /\ pc' \in Stages /\ buffersTowrite' \in Seq(BufferIds)
            /\ UNCHANGED <<owner, running, latch, members, written, file, count, failures, accepted,
                           dropped, owed>>
            /\ flushed' \in Nat
        BY <3>2 DEF Stages
      <4>2. QED
        BY <3>5, <3>6, <4>1, EmptySeq DEF TypeOK
    <3>8. SparesInv'
      BY <3>2, <3>5, LoggingConstants DEF SparesInv
    <3>9. QED
      BY <3>7, <3>8
  <2>13. CASE UNCHANGED vars
    BY <2>13 DEF vars, TypeOK, SparesInv
  <2>14. QED
    BY <2>1, <2>2, <2>3, <2>4, <2>5, <2>6, <2>7, <2>8, <2>9, <2>10, <2>11,
       <2>12, <2>13, <2>15 DEF Next, BackEnd
<1>3. QED
  BY <1>1, <1>2, PTL DEF Spec

\* back() (AsyncLogging.cpp:108, 114) is never called on an empty vector.
THEOREM BackOnNonEmpty == Spec => []RecycleHasBuffers
<1>1. Recycling => RecycleHasBuffers
  <2>1. buffersTowrite \in Seq(BufferIds) /\ buffersTowrite # <<>> => Len(buffersTowrite) >= 1
    BY EmptySeq, LenProperties
  <2>2. QED
    BY <2>1 DEF Recycling, TypeOK, SparesInv, RecycleHasBuffers
<1>2. QED
  BY <1>1, SparesAreKept, PTL

------------------------------------------------------------------------------
(* One owner per buffer                                                     *)

\* OneOwner, pointer by pointer.
Apart ==
    /\ currBuffer # nextBuffer /\ currBuffer # newBuffer1 /\ currBuffer # newBuffer2
    /\ nextBuffer \notin {newBuffer1, newBuffer2} \/ nextBuffer = NoBuffer
    /\ newBuffer1 # newBuffer2 \/ newBuffer1 = NoBuffer
    /\ \A i \in DOMAIN buffers :
            buffers[i] \notin {currBuffer, nextBuffer, newBuffer1, newBuffer2}
    /\ \A i \in DOMAIN buffersTowrite :
            buffersTowrite[i] \notin {currBuffer, nextBuffer, newBuffer1, newBuffer2}
    /\ \A i \in DOMAIN buffers : \A j \in DOMAIN buffersTowrite : buffers[i] # buffersTowrite[j]
    /\ \A i, j \in DOMAIN buffers : buffers[i] = buffers[j] => i = j
    /\ \A i, j \in DOMAIN buffersTowrite : buffersTowrite[i] = buffersTowrite[j] => i = j

LEMMA ApartIsOneOwner == Recycling /\ Apart => OneOwner
<1> SUFFICES ASSUME Recycling, Apart
             PROVE  OneOwner
  OBVIOUS
<1>1. DOMAIN Pointers = 1 .. 4 /\ Range(Pointers) = {currBuffer, nextBuffer, newBuffer1, newBuffer2}
  BY DEF Pointers, Range
<1>2. ASSUME NEW i \in DOMAIN Pointers, NEW j \in DOMAIN Pointers, i # j
      PROVE  Pointers[i] # Pointers[j] \/ Pointers[i] = NoBuffer
  <2>1. i \in {1, 2, 3, 4} /\ j \in {1, 2, 3, 4}
    BY <1>1, <1>2
  <2>2. /\ Pointers[1] = currBuffer /\ Pointers[2] = nextBuffer
        /\ Pointers[3] = newBuffer1 /\ Pointers[4] = newBuffer2
    BY DEF Pointers
  <2>3. QED
    BY <1>2, <2>1, <2>2 DEF Apart
<1>3. Range(buffers) = {buffers[i] : i \in DOMAIN buffers}
      /\ Range(buffersTowrite) = {buffersTowrite[i] : i \in DOMAIN buffersTowrite}
  BY DEF Range
<1>4. QED
  BY <1>1, <1>2, <1>3 DEF Apart, OneOwner, IsInjective

\* A buffer that new has just made is nobody's.
LEMMA UnusedIsApart ==
    ASSUME NEW b \in Unused
    PROVE  /\ b \notin {currBuffer, nextBuffer, newBuffer1, newBuffer2}
           /\ \A i \in DOMAIN buffers : buffers[i] # b
           /\ \A i \in DOMAIN buffersTowrite : buffersTowrite[i] # b
<1>1. /\ Pointers[1] = currBuffer /\ Pointers[2] = nextBuffer
      /\ Pointers[3] = newBuffer1 /\ Pointers[4] = newBuffer2
      /\ 1 \in DOMAIN Pointers /\ 2 \in DOMAIN Pointers
      /\ 3 \in DOMAIN Pointers /\ 4 \in DOMAIN Pointers
  BY DEF Pointers
<1>2. QED
  BY <1>1 DEF Unused, Range

\* No step hands a buffer to a second owner.
LEMMA ApartIsKept ==
    ASSUME Recycling, Recycling', Apart, [Next]_vars
    PROVE  Apart'
<1> USE DEF Recycling
<1>1. CASE AppendLine
  <2>1. UNCHANGED <<newBuffer1, newBuffer2, buffersTowrite>>
    BY <1>1 DEF AppendLine
  <2>2. CASE UNCHANGED members
    BY <2>1, <2>2 DEF Apart
  <2>3. CASE /\ buffers' = Append(buffers, currBuffer) /\ nextBuffer' = NoBuffer
             /\ nextBuffer # NoBuffer => currBuffer' = nextBuffer
             /\ nextBuffer = NoBuffer => currBuffer' \in Unused
    <3>1. /\ buffers \in Seq(BufferIds) /\ buffersTowrite \in Seq(BufferIds)
          /\ currBuffer \in BufferIds /\ currBuffer' \in BufferIds
      BY DEF TypeOK, SparesInv
    <3>2. /\ DOMAIN buffers = 1 .. Len(buffers) /\ Len(buffers) \in Nat
          /\ DOMAIN buffers' = 1 .. Len(buffers) + 1
          /\ \A i \in 1 .. Len(buffers) : buffers'[i] = buffers[i]
          /\ buffers'[Len(buffers) + 1] = currBuffer
      BY <2>3, <3>1, AppendProperties, LenProperties
    <3>3. \A i \in DOMAIN buffers' : \/ i \in DOMAIN buffers /\ buffers'[i] = buffers[i]
                                     \/ i = Len(buffers) + 1 /\ buffers'[i] = currBuffer
      BY <3>2
    <3>4. /\ currBuffer' # currBuffer /\ currBuffer' \notin {newBuffer1, newBuffer2, NoBuffer}
          /\ \A i \in DOMAIN buffers : buffers[i] # currBuffer'
          /\ \A i \in DOMAIN buffersTowrite : buffersTowrite[i] # currBuffer'
      <4>1. CASE nextBuffer # NoBuffer
        BY <2>3, <3>1, <4>1, LoggingConstants DEF Apart
      <4>2. CASE nextBuffer = NoBuffer
        BY <2>3, <3>1, <4>2, UnusedIsApart, LoggingConstants
      <4>3. QED
        BY <4>1, <4>2
    <3>5. \A b \in BufferIds : b # NoBuffer
      BY LoggingConstants
    <3>6. \A i \in DOMAIN buffersTowrite : buffersTowrite[i] \in BufferIds
      BY <3>1
    <3>7. \A i \in DOMAIN buffers : buffers[i] \in BufferIds /\ buffers[i] # currBuffer
      BY <3>1 DEF Apart
    <3>8. \A i \in DOMAIN buffers' : buffers'[i] \in BufferIds
      BY <3>1, <3>3, <3>7
    <3>9. \A i \in DOMAIN buffers' :
            buffers'[i] \notin {currBuffer', nextBuffer', newBuffer1', newBuffer2'}
      BY <2>1, <2>3, <3>3, <3>4, <3>5, <3>8 DEF Apart
    <3>10. \A i \in DOMAIN buffersTowrite' :
            buffersTowrite'[i] \notin {currBuffer', nextBuffer', newBuffer1', newBuffer2'}
      BY <2>1, <2>3, <3>4, <3>5, <3>6 DEF Apart
    <3>11. \A i \in DOMAIN buffers' : \A j \in DOMAIN buffersTowrite' :
                buffers'[i] # buffersTowrite'[j]
      BY <2>1, <3>3 DEF Apart
    <3>12. \A i, j \in DOMAIN buffers' : buffers'[i] = buffers'[j] => i = j
      BY <3>3, <3>7 DEF Apart
    <3>13. \A i, j \in DOMAIN buffersTowrite' : buffersTowrite'[i] = buffersTowrite'[j] => i = j
      BY <2>1 DEF Apart
    <3>14. QED
      BY <2>1, <2>3, <3>4, <3>5, <3>9, <3>10, <3>11, <3>12, <3>13 DEF Apart
  <2>4. QED
    BY <1>1, <2>2, <2>3, FreshIsNew DEF AppendLine
<1>2. CASE Entry
  <2>1. /\ newBuffer1' \in Unused /\ newBuffer2' \in Unused /\ newBuffer1' # newBuffer2'
        /\ UNCHANGED <<members, buffersTowrite>>
    BY <1>2, TwoAreTwo DEF Entry
  <2>2. QED
    BY <2>1, UnusedIsApart DEF Apart
<1>3. CASE Swap
  <2> DEFINE all == Append(buffers, currBuffer)
  <2>1. /\ currBuffer' = newBuffer1 /\ newBuffer1' = NoBuffer
        /\ buffersTowrite' = Kept(all) /\ buffers' = <<>>
        /\ nextBuffer = NoBuffer => nextBuffer' = newBuffer2 /\ newBuffer2' = NoBuffer
        /\ nextBuffer # NoBuffer => UNCHANGED <<nextBuffer, newBuffer2>>
        /\ newBuffer1 \in BufferIds /\ newBuffer2 \in BufferIds /\ currBuffer \in BufferIds
        /\ buffers \in Seq(BufferIds)
    BY <1>3 DEF Swap, TypeOK, SparesInv
  <2>2. /\ all \in Seq(BufferIds) /\ Len(all) = Len(buffers) + 1 /\ Len(buffers) \in Nat
        /\ \A i \in 1 .. Len(buffers) : all[i] = buffers[i]
        /\ all[Len(buffers) + 1] = currBuffer
    BY <2>1, AppendProperties, LenProperties
  <2>3. DOMAIN buffers = 1 .. Len(buffers) /\ DOMAIN all = 1 .. Len(buffers) + 1
    BY <2>1, <2>2, LenProperties
  <2> HIDE DEF all
  <2>4. \A i \in DOMAIN all : \/ i \in DOMAIN buffers /\ all[i] = buffers[i]
                              \/ i = Len(buffers) + 1 /\ all[i] = currBuffer
    BY <2>2, <2>3
  <2>5. /\ \A i \in DOMAIN all :
              all[i] \notin {nextBuffer, newBuffer1, newBuffer2} /\ all[i] \in BufferIds
        /\ \A i, j \in DOMAIN all : all[i] = all[j] => i = j
    <3>1. Len(buffers) + 1 \notin DOMAIN buffers
      BY <2>2, <2>3
    <3>2. \A i \in DOMAIN buffers : buffers[i] # currBuffer /\ buffers[i] \in BufferIds
      BY <2>1 DEF Apart
    <3>3. QED
      BY <2>1, <2>4, <3>1, <3>2 DEF Apart
  <2>6. DOMAIN Kept(all) \subseteq DOMAIN all /\ \A i \in DOMAIN Kept(all) : Kept(all)[i] = all[i]
    BY <2>2, KeptIsPrefix
  <2>7. \A b \in BufferIds : b # NoBuffer
    BY LoggingConstants
  <2>8. nextBuffer' \in {nextBuffer, newBuffer2} /\ newBuffer2' \in {newBuffer2, NoBuffer}
        /\ (nextBuffer' # newBuffer2' \/ nextBuffer' = NoBuffer)
        /\ newBuffer1 # nextBuffer' /\ newBuffer1 # newBuffer2'
    BY <2>1, <2>7 DEF Apart
  <2>9. DOMAIN buffers' = {}
    BY <2>1
  <2>10. \A i \in DOMAIN buffersTowrite' :
            buffersTowrite'[i] \notin {currBuffer', nextBuffer', newBuffer1', newBuffer2'}
    BY <2>1, <2>5, <2>6, <2>7, <2>8
  <2>11. \A i, j \in DOMAIN buffersTowrite' : buffersTowrite'[i] = buffersTowrite'[j] => i = j
    BY <2>1, <2>5, <2>6
  <2>12. QED
    BY <2>1, <2>7, <2>8, <2>9, <2>10, <2>11 DEF Apart
<1>4. CASE Recycle
  <2> DEFINE two == IF Len(buffersTowrite) > 2 THEN SubSeq(buffersTowrite, 1, 2)
                    ELSE buffersTowrite
  <2>1. /\ newBuffer1' = Back(two, 0)
        /\ newBuffer2' = IF newBuffer2 = NoBuffer THEN Back(two, 1) ELSE newBuffer2
        /\ buffersTowrite' = <<>> /\ buffers = <<>>
        /\ UNCHANGED members
    BY <1>4 DEF Recycle, SparesInv
  <2>2. /\ buffersTowrite \in Seq(BufferIds) /\ Len(buffersTowrite) \in Nat
        /\ DOMAIN buffersTowrite = 1 .. Len(buffersTowrite)
        /\ Len(buffersTowrite) >= 1
        /\ newBuffer2 = NoBuffer => Len(buffersTowrite) >= 2
    BY <1>4, EmptySeq, LenProperties DEF Recycle, TypeOK, SparesInv
  <2>3. /\ Back(two, 0) = buffersTowrite[Len(two)] /\ Len(two) \in 1 .. Len(buffersTowrite)
        /\ newBuffer2 = NoBuffer =>
              Back(two, 1) = buffersTowrite[Len(two) - 1] /\ Len(two) - 1 \in 1 .. Len(buffersTowrite)
    <3>1. CASE Len(buffersTowrite) > 2
      <4>1. Len(two) = 2 /\ two[2] = buffersTowrite[2] /\ two[1] = buffersTowrite[1]
        <5>1. \A i \in 1 .. 2 : buffersTowrite[i] \in BufferIds
          BY <2>2, <3>1
        <5>2. QED
          BY <2>2, <3>1, <5>1, SubSeqProperties
      <4>2. QED
        BY <2>2, <3>1, <4>1 DEF Back
    <3>2. CASE ~(Len(buffersTowrite) > 2)
      BY <2>2, <3>2 DEF Back
    <3>3. QED
      BY <3>1, <3>2
  <2> HIDE DEF two
  <2>4. DOMAIN buffers' = {} /\ DOMAIN buffersTowrite' = {}
    BY <2>1
  <2>5. /\ newBuffer1' \notin {currBuffer, nextBuffer, newBuffer2}
        /\ newBuffer2 = NoBuffer => newBuffer2' \notin {currBuffer, nextBuffer} /\ newBuffer2' # newBuffer1'
    <3>1. Len(two) \in DOMAIN buffersTowrite
      BY <2>2, <2>3
    <3>2. newBuffer2 = NoBuffer => Len(two) - 1 \in DOMAIN buffersTowrite /\ Len(two) - 1 # Len(two)
      BY <2>2, <2>3
    <3>3. QED
      BY <2>1, <2>3, <3>1, <3>2 DEF Apart
  <2>6. QED
    BY <2>1, <2>4, <2>5 DEF Apart
<1>5. CASE \/ Start \/ StartReturns \/ Stop \/ Join \/ Check \/ Lock \/ Wake
           \/ WriteBuffer \/ WriteDone \/ UNCHANGED vars
  <2>1. UNCHANGED <<members, locals>>
    BY <1>5 DEF Start, StartReturns, Stop, Join, Check, Lock, Wake, WriteBuffer, WriteDone, vars
  <2>2. QED
    BY <2>1 DEF Apart
<1>6. QED
  BY <1>1, <1>2, <1>3, <1>4, <1>5 DEF Next, BackEnd

LEMMA ApartAlways == Spec => []Apart
<1>1. Init => Apart
  <2> SUFFICES ASSUME Init
               PROVE  Apart
    OBVIOUS
  <2>1. /\ currBuffer \in BufferIds /\ nextBuffer \in BufferIds /\ currBuffer # nextBuffer
        /\ newBuffer1 = NoBuffer /\ newBuffer2 = NoBuffer
        /\ DOMAIN buffers = {} /\ DOMAIN buffersTowrite = {}
    BY TwoAreTwo, LoggingConstants DEF Init
  <2>2. QED
    BY <2>1, LoggingConstants DEF Apart
<1>2. Recycling /\ Recycling' /\ Apart /\ [Next]_vars => Apart'
  BY ApartIsKept
<1>3. QED
  BY <1>1, <1>2, SparesAreKept, PTL DEF Spec

\* No buffer is filled or reset by one thread while another still has lines to
\* write from it (AsyncLogging.cpp:28-44, 77-118).
THEOREM BuffersHaveOneOwner == Spec => []OneOwner
BY SparesAreKept, ApartAlways, ApartIsOneOwner, PTL

------------------------------------------------------------------------------
(* Spare buffers are empty                                                  *)

\* No step gives the front ends, or keeps for them, a buffer with lines in it.
LEMMA EmptyIsKept ==
    ASSUME Recycling, Recycling', Apart, Apart', SparesEmpty, [Next]_vars
    PROVE  SparesEmpty'
<1> USE DEF Recycling
<1>1. CASE AppendLine
  <2>1. /\ owner \in {"running", "stopping"}
        /\ UNCHANGED <<pc, owner, latch, newBuffer1, newBuffer2, buffersTowrite, written>>
        /\ nextBuffer' \in {nextBuffer, NoBuffer}
    BY <1>1 DEF AppendLine
  <2>2. \A b \in BufferIds : b # currBuffer' => content'[b] = content[b]
    <3>1. content \in [BufferIds -> Seq(Lines)]
      BY DEF TypeOK
    <3>2. CASE Fits(currBuffer)
      BY <1>1, <3>1, <3>2 DEF AppendLine
    <3>3. CASE ~Fits(currBuffer)
      <4>1. content' = [content EXCEPT ![currBuffer'] =
                IF nextBuffer # NoBuffer THEN Append(@, accepted + 1) ELSE <<accepted + 1>>]
        BY <1>1, <3>3 DEF AppendLine
      <4>2. QED
        BY <3>1, <4>1
    <3>4. QED
      BY <3>2, <3>3
  <2>3. \A b \in {nextBuffer, newBuffer1, newBuffer2}' :
            b # NoBuffer => b \in {nextBuffer, newBuffer1, newBuffer2} /\ b \in BufferIds /\ b # currBuffer'
    BY <2>1 DEF Apart, TypeOK
  <2>4. \A b \in {nextBuffer, newBuffer1, newBuffer2}' : b # NoBuffer => content'[b] = <<>>
    BY <2>2, <2>3 DEF SparesEmpty
  <2>5. latch # 1
    BY <2>1 DEF SparesEmpty
  <2>6. QED
    BY <2>1, <2>4, <2>5 DEF SparesEmpty
<1>2. CASE Entry
  <2>1. /\ pc = "entry" /\ pc' = "check" /\ latch' = 0
        /\ newBuffer1' \in BufferIds /\ newBuffer2' \in BufferIds
        /\ UNCHANGED <<content, nextBuffer, buffersTowrite, written>>
    BY <1>2, TwoAreTwo DEF Entry, Unused
  <2>2. \A b \in BufferIds : content[b] = <<>>
    BY <2>1 DEF SparesEmpty
  <2>3. written = 0 /\ (nextBuffer # NoBuffer => nextBuffer \in BufferIds)
    BY <2>1 DEF SparesEmpty, TypeOK
  <2>4. QED
    BY <2>1, <2>2, <2>3 DEF SparesEmpty
<1>3. CASE Swap
  <2>1. /\ pc = "swap" /\ pc' = "write" /\ newBuffer1' = NoBuffer
        /\ UNCHANGED <<latch, owner, content, written>>
        /\ nextBuffer' \in {nextBuffer, newBuffer2}
        /\ newBuffer2' \in {newBuffer2, NoBuffer}
    BY <1>3 DEF Swap
  <2>2. written' = 0 /\ Len(buffersTowrite') \in Nat
    BY <2>1, LenProperties DEF SparesEmpty, TypeOK
  <2>3. latch # 1
    BY <2>1 DEF SparesEmpty
  <2>4. QED
    BY <2>1, <2>2, <2>3 DEF SparesEmpty
<1>4. CASE WriteBuffer
  <2>1. /\ pc = "write" /\ written < Len(buffersTowrite) /\ written' = written + 1
        /\ UNCHANGED <<pc, owner, latch, content, members, locals>>
    BY <1>4 DEF WriteBuffer
  <2>2. written \in Nat /\ Len(buffersTowrite) \in Nat
    BY LenProperties DEF TypeOK
  <2>3. written' <= Len(buffersTowrite')
    BY <2>1, <2>2
  <2>4. QED
    BY <2>1, <2>3 DEF SparesEmpty
<1>5. CASE Recycle
  <2>1. /\ pc = "recycle" /\ pc' = "check" /\ buffersTowrite' = <<>>
        /\ content' = Emptied({newBuffer1', newBuffer2'})
        /\ UNCHANGED <<latch, owner, members, written>>
    BY <1>5 DEF Recycle
  <2>2. \A b \in BufferIds :
            content[b] = <<>> \/ b \in {newBuffer1', newBuffer2'} => content'[b] = <<>>
    BY <2>1 DEF Emptied
  <2>3. \A b \in {nextBuffer, newBuffer1, newBuffer2}' : b # NoBuffer => content'[b] = <<>>
    BY <2>1, <2>2 DEF TypeOK, SparesEmpty
  <2>4. written' = 0 /\ Len(buffersTowrite') = 0 /\ latch # 1
    BY <2>1 DEF SparesEmpty
  <2>5. QED
    BY <2>1, <2>3, <2>4 DEF SparesEmpty
<1>6. CASE Start \/ StartReturns \/ Stop \/ Join \/ Check \/ Lock \/ Wake
  BY <1>6 DEF Start, StartReturns, Stop, Join, Check, Lock, Wake, SparesEmpty, SparesInv
<1>7. CASE WriteDone
  <2>1. pc = "write" /\ latch # 1 /\ Len(buffersTowrite) \in Nat
    BY <1>7, LenProperties DEF WriteDone, SparesEmpty, TypeOK
  <2>2. QED
    BY <1>7, <2>1 DEF WriteDone, SparesEmpty
<1>8. CASE UNCHANGED vars
  BY <1>8 DEF vars, SparesEmpty
<1>9. QED
  BY <1>1, <1>2, <1>3, <1>4, <1>5, <1>6, <1>7, <1>8 DEF Next, BackEnd

\* IInv holds: the two spare buffers are there and every spare one is empty.
THEOREM InductiveInvariant == Spec => []IInv
<1>1. Init => SparesEmpty
  <2> SUFFICES ASSUME Init
               PROVE  SparesEmpty
    OBVIOUS
  <2>1. \A b \in BufferIds : content[b] = <<>>
    BY DEF Init
  <2>2. nextBuffer \in BufferIds
    BY TwoAreTwo, LoggingConstants DEF Init
  <2>3. QED
    BY <2>1, <2>2 DEF Init, SparesEmpty
<1>2. Recycling /\ Recycling' /\ Apart /\ Apart' /\ SparesEmpty /\ [Next]_vars => SparesEmpty'
  BY EmptyIsKept
<1>3. Recycling /\ SparesEmpty => IInv
  BY DEF Recycling, IInv
<1>4. QED
  BY <1>1, <1>2, <1>3, SparesAreKept, ApartAlways, PTL DEF Spec

------------------------------------------------------------------------------
(* Every line, in order                                                     *)

LEMMA LinesAreNat == Lines \subseteq Nat
BY LoggingConstants DEF Lines

LEMMA RangeIsNat == ASSUME NEW s \in Seq(Lines) PROVE Range(s) \subseteq Nat
<1>1. \A i \in DOMAIN s : s[i] \in Lines
  BY ElementOfSeq, LenProperties
<1>2. QED
  BY <1>1, LinesAreNat DEF Range

\* One more line, greater than those before it.
LEMMA OneMoreLine ==
    ASSUME NEW s \in Seq(Lines), NEW a \in Lines, InOrder(s), \A x \in Range(s) : x < a
    PROVE  InOrder(Append(s, a)) /\ Range(Append(s, a)) = Range(s) \cup {a}
<1> DEFINE t == Append(s, a)
<1>1. /\ Len(s) \in Nat /\ DOMAIN s = 1 .. Len(s) /\ DOMAIN t = 1 .. Len(s) + 1
      /\ \A i \in 1 .. Len(s) : t[i] = s[i]
      /\ t[Len(s) + 1] = a
  BY AppendProperties, LenProperties
<1> HIDE DEF t
<1>2. InOrder(t)
  <2> SUFFICES ASSUME NEW i \in DOMAIN t, NEW j \in DOMAIN t, i < j
               PROVE  t[i] < t[j]
    BY DEF InOrder
  <2>1. i \in DOMAIN s /\ t[i] = s[i] /\ s[i] \in Range(s)
    BY <1>1 DEF Range
  <2>2. CASE j = Len(s) + 1
    BY <1>1, <2>1, <2>2
  <2>3. CASE j # Len(s) + 1
    <3>1. j \in DOMAIN s /\ t[j] = s[j]
      BY <1>1, <2>3
    <3>2. QED
      BY <2>1, <3>1 DEF InOrder
  <2>4. QED
    BY <2>2, <2>3
<1>3. Range(t) = Range(s) \cup {a}
  <2>1. \A i \in DOMAIN t : t[i] \in Range(s) \cup {a}
    BY <1>1 DEF Range
  <2>2. \A i \in DOMAIN s : i \in DOMAIN t /\ t[i] = s[i]
    BY <1>1
  <2>3. Len(s) + 1 \in DOMAIN t
    BY <1>1
  <2>4. QED
    BY <1>1, <2>1, <2>2, <2>3 DEF Range
<1>4. QED
  BY <1>2, <1>3 DEF t

\* A sequence in order is cut in two disjoint parts, one before the other.
LEMMA CutLines ==
    ASSUME NEW t \in Seq(Lines), NEW n \in 0 .. Len(t), InOrder(t)
    PROVE  /\ SubSeq(t, 1, n) \in Seq(Lines) /\ InOrder(SubSeq(t, 1, n))
           /\ Range(SubSeq(t, 1, n)) = {t[i] : i \in 1 .. n}
           /\ Range(SubSeq(t, n + 1, Len(t))) = {t[i] : i \in n + 1 .. Len(t)}
           /\ Range(t) = Range(SubSeq(t, 1, n)) \cup Range(SubSeq(t, n + 1, Len(t)))
           /\ Before(Range(SubSeq(t, 1, n)), Range(SubSeq(t, n + 1, Len(t))))
<1> DEFINE u == SubSeq(t, 1, n)
           v == SubSeq(t, n + 1, Len(t))
<1>1. Len(t) \in Nat /\ DOMAIN t = 1 .. Len(t) /\ n \in Nat /\ \A i \in 1 .. Len(t) : t[i] \in Lines
  BY LenProperties, ElementOfSeq
<1>2. /\ u \in Seq(Lines) /\ Len(u) = n /\ DOMAIN u = 1 .. n
      /\ \A i \in 1 .. n : u[i] = t[i]
  <2>1. \A i \in 1 .. n : t[i] \in Lines
    BY <1>1
  <2>2. QED
    BY <1>1, <2>1, SubSeqProperties, LenProperties
<1>3. /\ DOMAIN v = 1 .. Len(t) - n
      /\ \A i \in 1 .. Len(t) - n : v[i] = t[n + i]
  <2>1. \A i \in n + 1 .. Len(t) : t[i] \in Lines
    BY <1>1
  <2>2. PICK m \in Nat : m = n + 1
    BY <1>1
  <2>3. \A i \in m .. Len(t) : t[i] \in Lines
    BY <2>1, <2>2
  <2>4. /\ SubSeq(t, m, Len(t)) \in Seq(Lines)
        /\ Len(SubSeq(t, m, Len(t))) = IF m <= Len(t) THEN Len(t) - m + 1 ELSE 0
        /\ \A i \in 1 .. Len(t) - m + 1 : SubSeq(t, m, Len(t))[i] = t[m + i - 1]
    BY <1>1, <2>2, <2>3, SubSeqProperties
  <2>5. Len(t) - m + 1 = Len(t) - n /\ (IF m <= Len(t) THEN Len(t) - m + 1 ELSE 0) = Len(t) - n
    <3>1. PICK l \in Nat : l = Len(t)
      BY <1>1
    <3>2. n \in Nat /\ n <= l /\ m = n + 1
      BY <1>1, <2>2, <3>1
    <3>3. l - m + 1 = l - n /\ (IF m <= l THEN l - m + 1 ELSE 0) = l - n
      BY <3>2
    <3>4. QED
      BY <3>1, <3>3
  <2>6. \A i \in 1 .. Len(t) - n : m + i - 1 = n + i
    BY <1>1, <2>2
  <2>7. v = SubSeq(t, m, Len(t))
    BY <2>2
  <2> HIDE DEF v
  <2>8. v \in Seq(Lines) /\ Len(v) = Len(t) - n
    BY <2>4, <2>5, <2>7
  <2>9. \A i \in 1 .. Len(t) - n : v[i] = t[n + i]
    BY <2>4, <2>5, <2>6, <2>7
  <2>10. QED
    BY <2>8, <2>9, LenProperties
<1> HIDE DEF u, v
<1>4. InOrder(u)
  BY <1>1, <1>2 DEF InOrder
<1>5. Range(u) = {t[i] : i \in 1 .. n}
  BY <1>2 DEF Range
<1>6. Range(v) = {t[i] : i \in n + 1 .. Len(t)}
  <2>1. \A i \in DOMAIN v : n + i \in n + 1 .. Len(t) /\ v[i] = t[n + i]
    BY <1>1, <1>3
  <2>2. \A i \in n + 1 .. Len(t) : i - n \in DOMAIN v /\ v[i - n] = t[i]
    <3> SUFFICES ASSUME NEW i \in n + 1 .. Len(t)
                 PROVE  i - n \in DOMAIN v /\ v[i - n] = t[i]
      OBVIOUS
    <3>1. i - n \in 1 .. Len(t) - n /\ n + (i - n) = i
      BY <1>1
    <3>2. QED
      BY <1>3, <3>1
  <2>3. QED
    BY <2>1, <2>2 DEF Range
<1>7. Range(t) = Range(u) \cup Range(v)
  <2>1. Range(t) = {t[i] : i \in 1 .. Len(t)}
    BY <1>1 DEF Range
  <2>2. 1 .. Len(t) = (1 .. n) \cup (n + 1 .. Len(t))
    BY <1>1
  <2>3. QED
    BY <1>5, <1>6, <2>1, <2>2
<1>8. Before(Range(u), Range(v))
  <2>1. \A i \in 1 .. n : \A j \in n + 1 .. Len(t) : i \in DOMAIN t /\ j \in DOMAIN t /\ i < j
    BY <1>1
  <2>2. QED
    BY <1>5, <1>6, <2>1 DEF InOrder, Before
<1>9. QED
  BY <1>2, <1>4, <1>5, <1>6, <1>7, <1>8 DEF u, v

\* Two sequences in order, one before the other, make one in order.
LEMMA JoinLines ==
    ASSUME NEW s \in Seq(Lines), NEW t \in Seq(Lines), InOrder(s), InOrder(t),
           Before(Range(s), Range(t))
    PROVE  InOrder(s \o t) /\ Range(s \o t) = Range(s) \cup Range(t)
<1> DEFINE u == s \o t
<1>1. /\ Len(s) \in Nat /\ DOMAIN s = 1 .. Len(s)
      /\ Len(t) \in Nat /\ DOMAIN t = 1 .. Len(t)
      /\ DOMAIN u = 1 .. Len(s) + Len(t)
      /\ \A i \in 1 .. Len(s) + Len(t) : u[i] = IF i <= Len(s) THEN s[i] ELSE t[i - Len(s)]
  BY ConcatProperties, LenProperties
<1> HIDE DEF u
<1>2. \A i \in DOMAIN s : i \in DOMAIN u /\ u[i] = s[i]
  BY <1>1
<1>3. \A i \in DOMAIN t : Len(s) + i \in DOMAIN u /\ u[Len(s) + i] = t[i]
  <2> SUFFICES ASSUME NEW i \in DOMAIN t
               PROVE  Len(s) + i \in DOMAIN u /\ u[Len(s) + i] = t[i]
    OBVIOUS
  <2>1. Len(s) + i \in 1 .. Len(s) + Len(t) /\ ~(Len(s) + i <= Len(s)) /\ Len(s) + i - Len(s) = i
    BY <1>1
  <2>2. QED
    BY <1>1, <2>1
<1>4. \A i \in DOMAIN u : \/ i \in DOMAIN s /\ u[i] = s[i]
                          \/ i - Len(s) \in DOMAIN t /\ u[i] = t[i - Len(s)] /\ i > Len(s)
  BY <1>1
<1>5. Range(u) = Range(s) \cup Range(t)
  BY <1>2, <1>3, <1>4 DEF Range
<1>6. InOrder(u)
  <2> SUFFICES ASSUME NEW i \in DOMAIN u, NEW j \in DOMAIN u, i < j
               PROVE  u[i] < u[j]
    BY DEF InOrder
  <2>1. CASE i \in DOMAIN s /\ j \in DOMAIN s
    BY <1>2, <2>1 DEF InOrder
  <2>2. CASE i \in DOMAIN s /\ j \notin DOMAIN s
    <3>1. u[i] \in Range(s) /\ u[j] \in Range(t)
      BY <1>2, <1>4, <2>2 DEF Range
    <3>2. QED
      BY <3>1 DEF Before
  <2>3. CASE i \notin DOMAIN s
    <3>1. j \notin DOMAIN s
      BY <1>1, <2>3
    <3>2. i - Len(s) < j - Len(s)
      BY <1>1
    <3>3. QED
      BY <1>4, <2>3, <3>1, <3>2 DEF InOrder
  <2>4. QED
    BY <2>1, <2>2, <2>3
<1>7. QED
  BY <1>5, <1>6 DEF u

\* Places 0 to k of P, with a line added to the last one.
Grows(P, Q, k, a) ==
    DOMAIN Q = 0 .. k /\ (\A i \in 0 .. k : i # k => Q[i] = P[i]) /\ Q[k] = Append(P[k], a)

\* The same, with a line in a new place behind them.
Extends(P, Q, k, a) ==
    DOMAIN Q = 0 .. k + 1 /\ (\A i \in 0 .. k : Q[i] = P[i]) /\ Q[k + 1] = <<a>>

\* The places up to m, and an empty one.
Shrinks(P, Q, m) ==
    DOMAIN Q = 0 .. m + 1 /\ (\A i \in 0 .. m : Q[i] = P[i]) /\ Q[m + 1] = <<>>

\* The first n lines of place 1 go to place 0, its others away.
Shifts(P, Q, k, n) ==
    /\ DOMAIN Q = 0 .. k - 1 /\ Q[0] = P[0] \o SubSeq(P[1], 1, n)
    /\ \A i \in 1 .. k - 1 : Q[i] = P[i + 1]

\* A line added to the last place.
LEMMA LastPlaceGrows ==
    ASSUME NEW k \in Nat, NEW P \in [0 .. k -> Seq(Lines)], NEW Q, NEW a \in Lines,
           Ordered(P), \A x \in AllLines(P) : x < a, Grows(P, Q, k, a)
    PROVE  Ordered(Q) /\ AllLines(Q) = AllLines(P) \cup {a}
<1> USE DEF Grows
<1>1. k \in 0 .. k /\ P[k] \in Seq(Lines) /\ InOrder(P[k]) /\ \A x \in Range(P[k]) : x < a
  <2>1. k \in 0 .. k
    OBVIOUS
  <2>2. QED
    BY <2>1 DEF Ordered, AllLines
<1>2. InOrder(Q[k]) /\ Range(Q[k]) = Range(P[k]) \cup {a}
  BY <1>1, OneMoreLine
<1>3. \A i \in 0 .. k : InOrder(Q[i])
  BY <1>2 DEF Ordered
<1>4. ASSUME NEW i \in 0 .. k, NEW j \in 0 .. k, i < j
      PROVE  Before(Range(Q[i]), Range(Q[j]))
  <2>1. i # k /\ Q[i] = P[i] /\ Before(Range(P[i]), Range(P[j]))
    BY <1>4 DEF Ordered
  <2>2. CASE j = k
    <3>1. \A x \in Range(P[i]) : x < a
      BY DEF AllLines
    <3>2. QED
      BY <1>2, <2>1, <2>2, <3>1 DEF Before
  <2>3. CASE j # k
    BY <2>1, <2>3
  <2>4. QED
    BY <2>2, <2>3
<1>5. AllLines(Q) = AllLines(P) \cup {a}
  BY <1>1, <1>2 DEF AllLines
<1>6. QED
  BY <1>3, <1>4, <1>5 DEF Ordered

\* A line in a new place behind the others.
LEMMA NewPlace ==
    ASSUME NEW k \in Nat, NEW P \in [0 .. k -> Seq(Lines)], NEW Q, NEW a \in Lines,
           Ordered(P), \A x \in AllLines(P) : x < a, Extends(P, Q, k, a)
    PROVE  Ordered(Q) /\ AllLines(Q) = AllLines(P) \cup {a}
<1> USE DEF Extends
<1>1. \A i \in 0 .. k + 1 : i \in 0 .. k \/ i = k + 1
  OBVIOUS
<1>2. \A i \in 0 .. k : i \in 0 .. k + 1
  OBVIOUS
<1>3. InOrder(<<a>>) /\ Range(<<a>>) = {a}
  <2>1. DOMAIN <<a>> = {1} /\ <<a>>[1] = a
    OBVIOUS
  <2>2. QED
    BY <2>1 DEF InOrder, Range
<1>4. \A i \in 0 .. k + 1 : InOrder(Q[i])
  BY <1>1, <1>3 DEF Ordered
<1>5. ASSUME NEW i \in 0 .. k + 1, NEW j \in 0 .. k + 1, i < j
      PROVE  Before(Range(Q[i]), Range(Q[j]))
  <2>1. i \in 0 .. k /\ Q[i] = P[i]
    BY <1>5
  <2>2. CASE j = k + 1
    BY <1>3, <2>1, <2>2 DEF Before, AllLines
  <2>3. CASE j # k + 1
    <3>1. j \in 0 .. k /\ Q[j] = P[j]
      BY <1>1, <2>3
    <3>2. QED
      BY <1>5, <2>1, <3>1 DEF Ordered
  <2>4. QED
    BY <2>2, <2>3
<1>6. AllLines(Q) = AllLines(P) \cup {a}
  <2>1. \A i \in 0 .. k + 1 : Range(Q[i]) \subseteq AllLines(P) \cup {a}
    BY <1>1, <1>3 DEF AllLines
  <2>2. AllLines(P) \subseteq AllLines(Q)
    BY <1>2 DEF AllLines
  <2>3. k + 1 \in 0 .. k + 1 /\ a \in Range(Q[k + 1])
    BY <1>3
  <2>4. QED
    BY <2>1, <2>2, <2>3 DEF AllLines
<1>7. QED
  BY <1>4, <1>5, <1>6 DEF Ordered

\* Places from some on are erased, an empty one takes their place: just their
\* lines are gone.
LEMMA LastPlacesGo ==
    ASSUME NEW k \in Nat, NEW m \in 0 .. k, NEW P \in [0 .. k -> Seq(Lines)], NEW Q,
           Ordered(P), Shrinks(P, Q, m)
    PROVE  /\ Ordered(Q)
           /\ AllLines(Q) = AllLines(P) \ UNION {Range(P[i]) : i \in m + 1 .. k}
           /\ UNION {Range(P[i]) : i \in m + 1 .. k} \subseteq AllLines(P)
<1> USE DEF Shrinks
<1>1. \A i \in 0 .. m + 1 : i \in 0 .. m \/ i = m + 1
  OBVIOUS
<1>2. \A i \in 0 .. m : i \in 0 .. k /\ i \in 0 .. m + 1 /\ \A j \in m + 1 .. k : i < j /\ j \in 0 .. k
  OBVIOUS
<1>3. InOrder(<<>>) /\ Range(<<>>) = {}
  BY DEF InOrder, Range
<1>4. \A i \in 0 .. m + 1 : InOrder(Q[i])
  BY <1>1, <1>2, <1>3 DEF Ordered
<1>5. ASSUME NEW i \in 0 .. m + 1, NEW j \in 0 .. m + 1, i < j
      PROVE  Before(Range(Q[i]), Range(Q[j]))
  <2>1. CASE j = m + 1
    BY <1>3, <2>1 DEF Before
  <2>2. CASE j # m + 1
    <3>1. i \in 0 .. m /\ j \in 0 .. m
      BY <1>5, <2>2
    <3>2. QED
      BY <1>2, <1>5, <3>1 DEF Ordered
  <2>3. QED
    BY <2>1, <2>2
<1>6. AllLines(Q) = UNION {Range(P[i]) : i \in 0 .. m}
  <2>1. \A i \in 0 .. m : i \in 0 .. m + 1
    OBVIOUS
  <2>2. QED
    BY <1>1, <1>3, <2>1 DEF AllLines
<1>7. 0 .. k = (0 .. m) \cup (m + 1 .. k)
  OBVIOUS
<1>8. AllLines(P) = AllLines(Q) \cup UNION {Range(P[i]) : i \in m + 1 .. k}
  BY <1>6, <1>7 DEF AllLines
<1>9. ASSUME NEW i \in 0 .. m, NEW j \in m + 1 .. k
      PROVE  Range(P[i]) \cap Range(P[j]) = {}
  <2>1. Before(Range(P[i]), Range(P[j]))
    BY <1>2 DEF Ordered
  <2>2. Range(P[i]) \subseteq Nat
    <3>1. P[i] \in Seq(Lines)
      BY <1>2
    <3>2. QED
      BY <3>1, RangeIsNat
  <2>3. \A x \in Nat : ~(x < x)
    OBVIOUS
  <2>4. QED
    BY <2>1, <2>2, <2>3 DEF Before
<1>10. Ordered(Q)
  BY <1>4, <1>5 DEF Ordered
<1>11. AllLines(Q) \cap UNION {Range(P[i]) : i \in m + 1 .. k} = {}
  <2> SUFFICES ASSUME NEW x \in AllLines(Q), NEW j \in m + 1 .. k, x \in Range(P[j])
               PROVE  FALSE
    OBVIOUS
  <2>1. PICK i \in 0 .. m : x \in Range(P[i])
    BY <1>6
  <2>2. QED
    BY <1>9, <2>1
<1>12. QED
  BY <1>8, <1>10, <1>11

\* The first place takes the first n lines of the second one, which is gone
\* with the others.
LEMMA FirstPlaceTakes ==
    ASSUME NEW k \in Nat, k >= 1, NEW P \in [0 .. k -> Seq(Lines)], NEW Q,
           NEW n \in 0 .. Len(P[1]), Ordered(P), Shifts(P, Q, k, n)
    PROVE  /\ Ordered(Q)
           /\ AllLines(Q) = AllLines(P) \ Range(SubSeq(P[1], n + 1, Len(P[1])))
           /\ Range(SubSeq(P[1], n + 1, Len(P[1]))) \subseteq AllLines(P)
<1> USE DEF Shifts
<1> DEFINE taken == SubSeq(P[1], 1, n)
           lost == SubSeq(P[1], n + 1, Len(P[1]))
<1>1. /\ 0 \in 0 .. k /\ 1 \in 0 .. k /\ 0 < 1
      /\ \A i \in 1 .. k - 1 : i + 1 \in 0 .. k /\ 0 < i + 1 /\ 1 < i + 1
      /\ \A i \in 0 .. k - 1 : i = 0 \/ i \in 1 .. k - 1
      /\ \A i \in 0 .. k : i \in {0, 1} \/ (i - 1 \in 1 .. k - 1 /\ i = (i - 1) + 1)
      /\ \A i \in 1 .. k - 1 : i \in 0 .. k - 1
      /\ 0 \in 0 .. k - 1
  OBVIOUS
<1>2. P[0] \in Seq(Lines) /\ P[1] \in Seq(Lines) /\ InOrder(P[0]) /\ InOrder(P[1])
      /\ Before(Range(P[0]), Range(P[1]))
  BY <1>1 DEF Ordered
<1>3. /\ taken \in Seq(Lines) /\ InOrder(taken)
      /\ Range(P[1]) = Range(taken) \cup Range(lost)
      /\ Before(Range(taken), Range(lost))
  BY <1>2, CutLines
<1>4. Before(Range(P[0]), Range(taken)) /\ Before(Range(P[0]), Range(lost))
  BY <1>2, <1>3 DEF Before
<1> HIDE DEF taken, lost
<1>5. InOrder(Q[0]) /\ Range(Q[0]) = Range(P[0]) \cup Range(taken)
  BY <1>2, <1>3, <1>4, JoinLines DEF taken
<1>6. \A i \in 0 .. k - 1 : InOrder(Q[i])
  BY <1>1, <1>5 DEF Ordered
<1>7. ASSUME NEW i \in 0 .. k - 1, NEW j \in 0 .. k - 1, i < j
      PROVE  Before(Range(Q[i]), Range(Q[j]))
  <2>1. j \in 1 .. k - 1 /\ Q[j] = P[j + 1]
    BY <1>7
  <2>2. CASE i = 0
    <3>1. Before(Range(P[0]), Range(P[j + 1])) /\ Before(Range(P[1]), Range(P[j + 1]))
      BY <1>1, <2>1 DEF Ordered
    <3>2. QED
      BY <1>3, <1>5, <2>1, <2>2, <3>1 DEF Before
  <2>3. CASE i # 0
    <3>1. i \in 1 .. k - 1 /\ i + 1 < j + 1
      BY <1>1, <1>7, <2>3
    <3>2. QED
      BY <1>1, <2>1, <3>1 DEF Ordered
  <2>4. QED
    BY <2>2, <2>3
<1>8. AllLines(P) = AllLines(Q) \cup Range(lost)
  <2>1. \A i \in 0 .. k : Range(P[i]) \subseteq AllLines(Q) \cup Range(lost)
    <3> SUFFICES ASSUME NEW i \in 0 .. k
                 PROVE  Range(P[i]) \subseteq AllLines(Q) \cup Range(lost)
      OBVIOUS
    <3>1. CASE i \in {0, 1}
      BY <1>1, <1>3, <1>5, <3>1 DEF AllLines
    <3>2. CASE i \notin {0, 1}
      <4>1. i - 1 \in 1 .. k - 1 /\ Q[i - 1] = P[(i - 1) + 1] /\ P[(i - 1) + 1] = P[i]
        BY <1>1, <3>2
      <4>2. QED
        BY <1>1, <4>1 DEF AllLines
    <3>3. QED
      BY <3>1, <3>2
  <2>2. \A i \in 0 .. k - 1 : Range(Q[i]) \subseteq AllLines(P)
    <3> SUFFICES ASSUME NEW i \in 0 .. k - 1
                 PROVE  Range(Q[i]) \subseteq AllLines(P)
      OBVIOUS
    <3>1. CASE i = 0
      BY <1>1, <1>3, <1>5, <3>1 DEF AllLines
    <3>2. CASE i # 0
      BY <1>1, <3>2 DEF AllLines
    <3>3. QED
      BY <3>1, <3>2
  <2>3. Range(lost) \subseteq AllLines(P)
    BY <1>1, <1>3 DEF AllLines
  <2>4. QED
    BY <2>1, <2>2, <2>3 DEF AllLines
<1>9. \A i \in 0 .. k - 1 : Range(Q[i]) \cap Range(lost) = {}
  <2>1. Range(lost) \subseteq Nat
    BY <1>2, <1>3, RangeIsNat
  <2>2. \A x, y \in Nat : x < y => ~(y < x) /\ x # y
    OBVIOUS
  <2> SUFFICES ASSUME NEW i \in 0 .. k - 1
               PROVE  Range(Q[i]) \cap Range(lost) = {}
    OBVIOUS
  <2>3. CASE i = 0
    BY <1>3, <1>4, <1>5, <2>1, <2>2, <2>3 DEF Before
  <2>4. CASE i # 0
    <3>1. Before(Range(P[1]), Range(Q[i]))
      BY <1>1, <2>4 DEF Ordered
    <3>2. QED
      BY <1>3, <2>1, <2>2, <3>1 DEF Before
  <2>5. QED
    BY <2>3, <2>4
<1>10. Ordered(Q)
  BY <1>6, <1>7 DEF Ordered
<1>11. AllLines(Q) \cap Range(lost) = {}
  BY <1>9 DEF AllLines
<1>12. QED
  BY <1>8, <1>10, <1>11 DEF lost

\* Which buffers hold lines, stage by stage.
Shape ==
    /\ Len(Held) \in Nat
    /\ Places \in [0 .. Len(Held) -> Seq(Lines)]
    /\ Places[0] = file
    /\ \A i \in 1 .. Len(Held) : Held[i] \in BufferIds /\ Places[i] = content[Held[i]]
    /\ pc \notin {"write", "recycle"} => Held = Append(buffers, currBuffer)
    /\ pc = "write" =>
        /\ Len(Held) = Len(buffersTowrite) - written + 1
        /\ \A i \in 1 .. Len(buffersTowrite) - written : Held[i] = buffersTowrite[written + i]
        /\ Held[Len(buffersTowrite) - written + 1] = currBuffer
    /\ pc = "recycle" => Held = <<currBuffer>>

LEMMA PlacesHaveShape == Recycling /\ SparesEmpty => Shape
<1> SUFFICES ASSUME Recycling, SparesEmpty
             PROVE  Shape
  OBVIOUS
<1> DEFINE full == Append(buffers, currBuffer)
<1>1. /\ buffers \in Seq(BufferIds) /\ buffersTowrite \in Seq(BufferIds) /\ currBuffer \in BufferIds
      /\ Len(buffersTowrite) \in Nat /\ written \in Nat /\ written <= Len(buffersTowrite)
      /\ file \in Seq(Lines) /\ content \in [BufferIds -> Seq(Lines)]
  BY LenProperties DEF Recycling, TypeOK, SparesInv, SparesEmpty
<1>2. full \in Seq(BufferIds)
  BY <1>1, AppendProperties
<1>3. /\ Unwritten \in Seq(BufferIds) /\ Len(Unwritten) = Len(buffersTowrite) - written
      /\ \A i \in 1 .. Len(buffersTowrite) - written : Unwritten[i] = buffersTowrite[written + i]
  <2>1. PICK l \in Nat, m \in Nat : l = Len(buffersTowrite) /\ m = written + 1 /\ m <= l + 1
    BY <1>1
  <2>2. \A i \in m .. l : buffersTowrite[i] \in BufferIds
    BY <1>1, <2>1, ElementOfSeq
  <2>3. /\ SubSeq(buffersTowrite, m, l) \in Seq(BufferIds)
        /\ Len(SubSeq(buffersTowrite, m, l)) = IF m <= l THEN l - m + 1 ELSE 0
        /\ \A i \in 1 .. l - m + 1 :
                SubSeq(buffersTowrite, m, l)[i] = buffersTowrite[m + i - 1]
    BY <2>1, <2>2, SubSeqProperties
  <2>4. (IF m <= l THEN l - m + 1 ELSE 0) = l - m + 1 /\ l - m + 1 = l - written
    BY <1>1, <2>1
  <2>5. \A i \in 1 .. l - written : m + i - 1 = written + i
    BY <1>1, <2>1
  <2>6. Unwritten = SubSeq(buffersTowrite, m, l)
    BY <2>1 DEF Unwritten
  <2>7. QED
    BY <2>1, <2>3, <2>4, <2>5, <2>6
<1>4. pc \notin {"write", "recycle"} => Held = full
  <2> SUFFICES ASSUME pc \notin {"write", "recycle"}
               PROVE  Held = full
    OBVIOUS
  <2>1. buffersTowrite = <<>> /\ written = 0
    BY DEF Recycling, SparesInv, SparesEmpty
  <2>2. Unwritten = <<>>
    BY <1>3, <2>1, EmptySeq
  <2>3. <<>> \o full = full
    BY <1>2, ConcatEmptySeq
  <2>4. QED
    BY <2>2, <2>3 DEF Held
<1>5. pc \in {"write", "recycle"} => full = <<currBuffer>>
  <2>1. pc \in {"write", "recycle"} => buffers = <<>>
    BY DEF Recycling, SparesInv
  <2>2. Append(<<>>, currBuffer) = <<currBuffer>>
    OBVIOUS
  <2>3. QED
    BY <2>1, <2>2
<1>6. pc = "recycle" => Held = <<currBuffer>>
  <2>1. <<>> \o <<currBuffer>> = <<currBuffer>>
    OBVIOUS
  <2>2. QED
    BY <1>5, <2>1 DEF Held
<1>7. pc = "write" =>
            /\ Len(Held) = Len(buffersTowrite) - written + 1
            /\ \A i \in 1 .. Len(buffersTowrite) - written : Held[i] = buffersTowrite[written + i]
            /\ Held[Len(buffersTowrite) - written + 1] = currBuffer
  <2> SUFFICES ASSUME pc = "write"
               PROVE  /\ Len(Held) = Len(buffersTowrite) - written + 1
                      /\ \A i \in 1 .. Len(buffersTowrite) - written :
                                Held[i] = buffersTowrite[written + i]
                      /\ Held[Len(buffersTowrite) - written + 1] = currBuffer
    OBVIOUS
  <2>1. Held = Unwritten \o <<currBuffer>>
    BY <1>5 DEF Held
  <2>2. Held = Append(Unwritten, currBuffer)
    BY <1>1, <1>3, <2>1, AppendIsConcat
  <2>3. QED
    BY <1>1, <1>3, <2>2, AppendProperties
<1>8. Held \in Seq(BufferIds)
  <2>1. <<currBuffer>> \in Seq(BufferIds)
    BY <1>1
  <2>2. Unwritten \o <<currBuffer>> \in Seq(BufferIds)
    BY <1>3, <2>1, ConcatProperties
  <2>3. QED
    BY <1>2, <1>4, <1>5, <1>6, <2>1, <2>2 DEF Held
<1>9. Len(Held) \in Nat /\ \A i \in 1 .. Len(Held) : Held[i] \in BufferIds
  BY <1>8, LenProperties, ElementOfSeq
<1>10. /\ Places \in [0 .. Len(Held) -> Seq(Lines)]
       /\ Places[0] = file
       /\ \A i \in 1 .. Len(Held) : Places[i] = content[Held[i]]
  <2>1. \A i \in 0 .. Len(Held) : (IF i = 0 THEN file ELSE content[Held[i]]) \in Seq(Lines)
    BY <1>1, <1>9
  <2>2. 0 \in 0 .. Len(Held) /\ \A i \in 1 .. Len(Held) : i \in 0 .. Len(Held) /\ i # 0
    BY <1>9
  <2>3. QED
    BY <2>1, <2>2 DEF Places
<1>11. QED
  BY <1>4, <1>6, <1>7, <1>9, <1>10 DEF Shape

\* append() puts the next line behind all the others.
LEMMA AppendKeepsOrder ==
    ASSUME Recycling, SparesEmpty, Apart, Apart', Recycling', Shape, Shape', EveryLineInOrder,
           AppendLine
    PROVE  EveryLineInOrder'
<1>1. PICK a \in Lines : a = accepted + 1
  BY LoggingConstants DEF AppendLine, Recycling, TypeOK, Lines
<1>2. /\ pc \notin {"write", "recycle"} /\ pc' = pc
      /\ accepted' = a /\ accepted \in Nat /\ dropped' = dropped
      /\ file' = file
  BY <1>1 DEF AppendLine, MutexFree, Recycling, TypeOK
<1>0. PICK k \in Nat : k = Len(Held)
  BY DEF Shape
<1>3. PICK H, H2, P, Q : H = Held /\ H2 = Held' /\ P = Places /\ Q = Places'
  BY DEF Shape
<1>4. /\ H = Append(buffers, currBuffer) /\ k = Len(H)
      /\ P \in [0 .. k -> Seq(Lines)] /\ P[0] = file
      /\ \A i \in 1 .. k : H[i] \in BufferIds /\ P[i] = content[H[i]]
  BY <1>0, <1>2, <1>3 DEF Shape
<1>5. /\ H2 = Append(buffers', currBuffer')
      /\ DOMAIN Q = 0 .. Len(H2) /\ Q[0] = file
      /\ \A i \in 1 .. Len(H2) : Q[i] = content'[H2[i]]
  BY <1>2, <1>3 DEF Shape
<1>6. /\ buffers \in Seq(BufferIds) /\ currBuffer \in BufferIds /\ currBuffer' \in BufferIds
      /\ content \in [BufferIds -> Seq(Lines)]
  BY DEF Recycling, TypeOK, SparesInv
<1>7. /\ k = Len(buffers) + 1 /\ Len(buffers) \in Nat /\ H \in Seq(BufferIds)
      /\ \A i \in 1 .. Len(buffers) : H[i] = buffers[i]
      /\ H[k] = currBuffer
  BY <1>4, <1>6, AppendProperties, LenProperties
<1>8. Ordered(P) /\ AllLines(P) = (1 .. accepted) \ dropped /\ dropped \subseteq 1 .. accepted
  BY <1>3 DEF EveryLineInOrder
<1>9. \A x \in AllLines(P) : x < a
  BY <1>1, <1>2, <1>8
<1>10. Ordered(Q) /\ AllLines(Q) = AllLines(P) \cup {a}
  <2>1. CASE Fits(currBuffer)
    <3>1. H2 = H /\ content' = [content EXCEPT ![currBuffer] = Append(@, a)]
      BY <1>1, <1>4, <1>5, <2>1 DEF AppendLine
    <3>2. \A i \in 1 .. Len(buffers) : H[i] # currBuffer /\ H[i] \in BufferIds
      <4>1. \A i \in 1 .. Len(buffers) : i \in DOMAIN buffers /\ buffers[i] # currBuffer
        BY <1>6, LenProperties DEF Apart
      <4>2. QED
        BY <1>6, <1>7, <4>1
    <3>3. \A i \in 1 .. Len(buffers) : content'[H[i]] = content[H[i]]
      BY <1>6, <3>1, <3>2
    <3>4. \A i \in 0 .. k : i = 0 \/ i = k \/ (i \in 1 .. Len(buffers) /\ i \in 1 .. k)
      BY <1>7
    <3>5. \A i \in 0 .. k : i # k => Q[i] = P[i]
      BY <1>4, <1>5, <3>1, <3>3, <3>4
    <3>6. k \in 1 .. k
      BY <1>7
    <3>7. Q[k] = Append(P[k], a)
      <4>1. P[k] = content[currBuffer] /\ Q[k] = content'[currBuffer]
        BY <1>4, <1>5, <1>7, <3>1, <3>6
      <4>2. QED
        BY <1>6, <3>1, <4>1
    <3>8. DOMAIN Q = 0 .. k
      BY <1>4, <1>5, <3>1
    <3>9. Grows(P, Q, k, a)
      BY <3>5, <3>7, <3>8 DEF Grows
    <3>10. P \in [0 .. k -> Seq(Lines)]
      BY <1>4
    <3>11. QED
      BY <1>8, <1>9, <3>9, <3>10, LastPlaceGrows
  <2>2. CASE ~Fits(currBuffer)
    <3>1. /\ buffers' = H
          /\ nextBuffer # NoBuffer => currBuffer' = nextBuffer
          /\ content' = [content EXCEPT ![currBuffer'] =
                IF nextBuffer # NoBuffer THEN Append(@, a) ELSE <<a>>]
      BY <1>1, <1>4, <2>2 DEF AppendLine
    <3>2. /\ Len(H2) = k + 1 /\ H2[k + 1] = currBuffer'
          /\ \A i \in 1 .. k : H2[i] = H[i]
      BY <1>4, <1>5, <1>6, <1>7, <3>1, AppendProperties
    <3>3. \A i \in 1 .. k : H[i] # currBuffer'
      <4>1. DOMAIN H = 1 .. k
        BY <1>4, <1>7, LenProperties
      <4>2. QED
        BY <3>1, <4>1 DEF Apart
    <3>4. content'[currBuffer'] = <<a>>
      <4>1. CASE nextBuffer # NoBuffer
        <5>1. content[currBuffer'] = <<>>
          BY <3>1, <4>1 DEF SparesEmpty
        <5>2. Append(<<>>, a) = <<a>>
          OBVIOUS
        <5>3. QED
          BY <1>6, <3>1, <4>1, <5>1, <5>2
      <4>2. CASE nextBuffer = NoBuffer
        BY <1>6, <3>1, <4>2
      <4>3. QED
        BY <4>1, <4>2
    <3>5. \A i \in 1 .. k : content'[H[i]] = content[H[i]]
      BY <1>4, <1>6, <3>1, <3>3
    <3>6. \A i \in 0 .. k : i = 0 \/ (i \in 1 .. k /\ i \in 1 .. k + 1)
      OBVIOUS
    <3>7. \A i \in 0 .. k : Q[i] = P[i]
      BY <1>4, <1>5, <3>2, <3>5, <3>6
    <3>8. k + 1 \in 1 .. k + 1
      OBVIOUS
    <3>9. Q[k + 1] = <<a>>
      BY <1>5, <3>2, <3>4, <3>8
    <3>10. DOMAIN Q = 0 .. k + 1
      BY <1>5, <3>2
    <3>11. Extends(P, Q, k, a)
      BY <3>7, <3>9, <3>10 DEF Extends
    <3>12. P \in [0 .. k -> Seq(Lines)]
      BY <1>4
    <3>13. QED
      BY <1>8, <1>9, <3>11, <3>12, NewPlace
  <2>3. QED
    BY <2>1, <2>2
<1>11. (1 .. accepted) \cup {a} = 1 .. a /\ a \notin 1 .. accepted /\ 1 .. accepted \subseteq 1 .. a
  BY <1>1, <1>2
<1>12. AllLines(Q) = (1 .. accepted') \ dropped' /\ dropped' \subseteq 1 .. accepted'
  BY <1>2, <1>8, <1>10, <1>11
<1>13. QED
  BY <1>3, <1>10, <1>12 DEF EveryLineInOrder

\* The swap leaves the order alone and the pile-up rule erases whole buffers
\* at its end.
LEMMA SwapKeepsOrder ==
    ASSUME Recycling, SparesEmpty, Apart, Recycling', SparesEmpty', Shape, Shape',
           EveryLineInOrder, Swap
    PROVE  EveryLineInOrder'
<1>1. /\ pc = "swap" /\ pc' = "write" /\ currBuffer' = newBuffer1
      /\ buffersTowrite' = Kept(Append(buffers, currBuffer))
      /\ UNCHANGED <<content, written, file, accepted>>
      /\ written = 0 /\ written' = 0
      /\ newBuffer1 # NoBuffer
  BY DEF Swap, SparesEmpty, Recycling, SparesInv
<1>0. PICK k \in Nat : k = Len(Held)
  BY DEF Shape
<1>2. PICK H, H2, P, Q : H = Held /\ H2 = Held' /\ P = Places /\ Q = Places'
  BY DEF Shape
<1>3. /\ H = Append(buffers, currBuffer) /\ k = Len(H)
      /\ P \in [0 .. k -> Seq(Lines)] /\ P[0] = file
      /\ \A i \in 1 .. k : P[i] = content[H[i]]
  BY <1>0, <1>1, <1>2 DEF Shape
<1>4. /\ H \in Seq(BufferIds) /\ Len(H) \in Nat /\ DOMAIN H = 1 .. k
      /\ content[newBuffer1] = <<>>
  <2>1. buffers \in Seq(BufferIds) /\ currBuffer \in BufferIds
    BY DEF Recycling, TypeOK, SparesInv
  <2>2. content[newBuffer1] = <<>>
    BY <1>1 DEF SparesEmpty
  <2>3. H \in Seq(BufferIds)
    BY <1>3, <2>1, AppendProperties
  <2>4. QED
    BY <1>3, <2>2, <2>3, LenProperties
<1>5. PICK m \in Nat : m = Len(Kept(H))
  BY <1>4, KeptProperties, LenProperties
<1>6. /\ m \in 0 .. k /\ DOMAIN Kept(H) = 1 .. m
      /\ \A i \in 1 .. m : Kept(H)[i] = H[i]
  <2>1. Kept(H) \in Seq(BufferIds) /\ m <= k
    BY <1>3, <1>4, <1>5, KeptProperties
  <2>2. DOMAIN Kept(H) = 1 .. m
    BY <1>5, <2>1, LenProperties
  <2>3. \A i \in DOMAIN Kept(H) : Kept(H)[i] = H[i]
    BY <1>4, KeptIsPrefix
  <2>4. QED
    BY <1>2, <2>1, <2>2, <2>3
<1>7. buffersTowrite' = Kept(H)
  BY <1>1, <1>3
<1>8. Len(buffersTowrite') - written' = m
  BY <1>1, <1>5, <1>7
<1>9. /\ Len(H2) = m + 1
      /\ \A i \in 1 .. m : H2[i] = H[i]
      /\ H2[m + 1] = newBuffer1
      /\ DOMAIN Q = 0 .. m + 1 /\ Q[0] = file
      /\ \A i \in 1 .. m + 1 : Q[i] = content[H2[i]]
  <2>1. /\ Len(H2) = Len(buffersTowrite') - written' + 1
        /\ \A i \in 1 .. Len(buffersTowrite') - written' : H2[i] = buffersTowrite'[written' + i]
        /\ H2[Len(buffersTowrite') - written' + 1] = currBuffer'
        /\ DOMAIN Q = 0 .. Len(H2) /\ Q[0] = file'
        /\ \A i \in 1 .. Len(H2) : Q[i] = content'[H2[i]]
    BY <1>1, <1>2 DEF Shape
  <2>2. \A i \in 1 .. m : written' + i = i
    BY <1>1
  <2>3. \A i \in 1 .. m : H2[i] = buffersTowrite'[i]
    BY <1>8, <2>1, <2>2
  <2>4. \A i \in 1 .. m : H2[i] = H[i]
    BY <1>6, <1>7, <2>3
  <2>5. QED
    BY <1>1, <1>8, <2>1, <2>4
<1>10. \A i \in 0 .. m : Q[i] = P[i]
  <2>1. \A i \in 0 .. m : i = 0 \/ (i \in 1 .. m /\ i \in 1 .. m + 1 /\ i \in 1 .. k)
    BY <1>6
  <2>2. QED
    BY <1>3, <1>9, <2>1
<1>11. Q[m + 1] = <<>>
  <2>1. m + 1 \in 1 .. m + 1
    OBVIOUS
  <2>2. QED
    BY <1>4, <1>9, <2>1
<1>12. Ordered(P) /\ AllLines(P) = (1 .. accepted) \ dropped /\ dropped \subseteq 1 .. accepted
  BY <1>2 DEF EveryLineInOrder
<1>13. /\ Ordered(Q)
       /\ AllLines(Q) = AllLines(P) \ UNION {Range(P[i]) : i \in m + 1 .. k}
       /\ UNION {Range(P[i]) : i \in m + 1 .. k} \subseteq AllLines(P)
  <2>1. Shrinks(P, Q, m)
    BY <1>9, <1>10, <1>11 DEF Shrinks
  <2>2. P \in [0 .. k -> Seq(Lines)] /\ m \in 0 .. k /\ Ordered(P)
    BY <1>3, <1>6, <1>12
  <2>3. QED
    BY <2>1, <2>2, LastPlacesGo
<1>14. dropped' = dropped \cup UNION {Range(P[i]) : i \in m + 1 .. k}
  <2>1. dropped' = dropped \cup LinesIn(SubSeq(H, m + 1, k))
    BY <1>3, <1>5 DEF Swap
  <2>2. \A i \in m + 1 .. k : i \in 1 .. k /\ H[i] \in BufferIds
    <3>1. \A i \in m + 1 .. k : i \in 1 .. k
      OBVIOUS
    <3>2. QED
      BY <1>3, <1>4, <3>1, ElementOfSeq
  <2>3. PICK l \in Nat : l = m + 1
    OBVIOUS
  <2>4. /\ SubSeq(H, l, k) \in Seq(BufferIds)
        /\ Len(SubSeq(H, l, k)) = IF l <= k THEN k - l + 1 ELSE 0
        /\ \A i \in 1 .. k - l + 1 : SubSeq(H, l, k)[i] = H[l + i - 1]
    BY <2>2, <2>3, SubSeqProperties
  <2>5. PICK E : E = SubSeq(H, l, k)
    OBVIOUS
  <2>6. /\ DOMAIN E = 1 .. k - m
        /\ \A i \in 1 .. k - m : E[i] = H[m + i]
    <3>1. (IF l <= k THEN k - l + 1 ELSE 0) = k - m /\ k - l + 1 = k - m
      BY <1>6, <2>3
    <3>2. \A i \in 1 .. k - m : l + i - 1 = m + i
      BY <2>3
    <3>3. QED
      BY <2>4, <2>5, <3>1, <3>2, LenProperties
  <2>7. LinesIn(E) = UNION {Range(P[i]) : i \in m + 1 .. k}
    <3>1. \A i \in DOMAIN E : m + i \in m + 1 .. k /\ E[i] = H[m + i]
      BY <1>6, <2>6
    <3>2. \A i \in m + 1 .. k : i - m \in 1 .. k - m /\ m + (i - m) = i
      BY <1>6
    <3>3. \A i \in m + 1 .. k : i - m \in DOMAIN E /\ E[i - m] = H[i]
      BY <2>6, <3>2
    <3>4. \A i \in m + 1 .. k : P[i] = content[H[i]]
      BY <1>3, <2>2
    <3>5. \A i \in DOMAIN E : Range(content[E[i]]) \subseteq UNION {Range(P[j]) : j \in m + 1 .. k}
      BY <3>1, <3>4
    <3>6. \A i \in m + 1 .. k : Range(P[i]) \subseteq LinesIn(E)
      BY <3>3, <3>4 DEF LinesIn
    <3>7. QED
      BY <3>5, <3>6 DEF LinesIn
  <2>8. QED
    BY <2>1, <2>3, <2>5, <2>7
<1>15. AllLines(Q) = (1 .. accepted') \ dropped' /\ dropped' \subseteq 1 .. accepted'
  BY <1>1, <1>12, <1>13, <1>14
<1>16. QED
  BY <1>2, <1>13, <1>15 DEF EveryLineInOrder

\* The next buffer goes to the end of the file, or its first lines do and the
\* others are dropped.
LEMMA WriteKeepsOrder ==
    ASSUME Recycling, SparesEmpty, Recycling', SparesEmpty', Shape, Shape', EveryLineInOrder,
           WriteBuffer
    PROVE  EveryLineInOrder'
<1>1. /\ pc = "write" /\ pc' = "write" /\ written < Len(buffersTowrite) /\ written' = written + 1
      /\ written \in Nat /\ Len(buffersTowrite) \in Nat
      /\ UNCHANGED <<content, members, locals, accepted>>
  BY LenProperties DEF WriteBuffer, Recycling, TypeOK
<1>2. PICK k \in Nat : k = Len(Held)
  BY DEF Shape
<1>3. PICK H, H2, P, Q : H = Held /\ H2 = Held' /\ P = Places /\ Q = Places'
  OBVIOUS
<1>4. PICK l \in Nat : l = Len(buffersTowrite) - written
  BY <1>1
<1>5. /\ k = l + 1 /\ l >= 1
      /\ \A i \in 1 .. l : H[i] = buffersTowrite[written + i]
      /\ H[k] = currBuffer
      /\ P \in [0 .. k -> Seq(Lines)] /\ P[0] = file
      /\ \A i \in 1 .. k : P[i] = content[H[i]]
  <2>1. /\ k = Len(buffersTowrite) - written + 1
        /\ \A i \in 1 .. Len(buffersTowrite) - written : H[i] = buffersTowrite[written + i]
        /\ H[Len(buffersTowrite) - written + 1] = currBuffer
        /\ P \in [0 .. k -> Seq(Lines)] /\ P[0] = file
        /\ \A i \in 1 .. k : P[i] = content[H[i]]
    BY <1>1, <1>2, <1>3 DEF Shape
  <2>2. l >= 1
    BY <1>1, <1>4
  <2>3. QED
    BY <1>4, <2>1, <2>2
<1>6. Len(buffersTowrite') - written' = l - 1 /\ Len(buffersTowrite') - written' + 1 = l
  BY <1>1, <1>4
<1>7. /\ Len(H2) = l
      /\ \A i \in 1 .. l - 1 : H2[i] = buffersTowrite[(written + 1) + i]
      /\ H2[l] = currBuffer
      /\ DOMAIN Q = 0 .. l /\ Q[0] = file'
      /\ \A i \in 1 .. l : Q[i] = content[H2[i]]
  <2>1. /\ Len(H2) = Len(buffersTowrite') - written' + 1
        /\ \A i \in 1 .. Len(buffersTowrite') - written' : H2[i] = buffersTowrite'[written' + i]
        /\ H2[Len(buffersTowrite') - written' + 1] = currBuffer'
        /\ DOMAIN Q = 0 .. Len(H2) /\ Q[0] = file'
        /\ \A i \in 1 .. Len(H2) : Q[i] = content'[H2[i]]
    BY <1>1, <1>3 DEF Shape
  <2>2. \A i \in 1 .. l - 1 : H2[i] = buffersTowrite'[written' + i]
    BY <1>6, <2>1
  <2>3. QED
    BY <1>1, <1>6, <2>1, <2>2
<1>8. \A i \in 1 .. k - 1 : H2[i] = H[i + 1]
  <2> SUFFICES ASSUME NEW i \in 1 .. k - 1
               PROVE  H2[i] = H[i + 1]
    OBVIOUS
  <2>1. CASE i = l
    BY <1>5, <1>7, <2>1
  <2>2. CASE i # l
    <3>1. PICK j \in 1 .. l : j = i + 1
      BY <1>5, <2>2
    <3>2. i \in 1 .. l - 1 /\ (written + 1) + i = written + j
      BY <1>1, <1>5, <2>2, <3>1
    <3>3. H[j] = buffersTowrite[written + j]
      BY <1>5
    <3>4. H2[i] = buffersTowrite[(written + 1) + i]
      BY <1>7, <3>2
    <3>5. QED
      BY <3>1, <3>2, <3>3, <3>4
  <2>3. QED
    BY <2>1, <2>2
<1>9. \A i \in 1 .. k - 1 : Q[i] = P[i + 1]
  <2> SUFFICES ASSUME NEW i \in 1 .. k - 1
               PROVE  Q[i] = P[i + 1]
    OBVIOUS
  <2>1. PICK j \in 1 .. k : j = i + 1
    OBVIOUS
  <2>2. i \in 1 .. l
    BY <1>5
  <2>3. Q[i] = content[H2[i]] /\ P[j] = content[H[j]]
    BY <1>5, <1>7, <2>2
  <2>4. QED
    BY <1>8, <2>1, <2>3
<1>10. P[1] = content[buffersTowrite[written + 1]] /\ P[1] \in Seq(Lines)
  <2>1. 1 \in 1 .. l /\ 1 \in 1 .. k /\ 1 \in 0 .. k
    BY <1>5
  <2>2. QED
    BY <1>5, <2>1
<1>11. PICK n \in 0 .. Len(P[1]) : FileAppend(P[1], n)
  BY <1>10 DEF WriteBuffer
<1>12. /\ Q[0] = P[0] \o SubSeq(P[1], 1, n)
       /\ dropped' = dropped \cup Range(SubSeq(P[1], n + 1, Len(P[1])))
  BY <1>5, <1>7, <1>11 DEF FileAppend
<1>13. Shifts(P, Q, k, n)
  <2>1. DOMAIN Q = 0 .. k - 1
    BY <1>5, <1>7
  <2>2. QED
    BY <1>9, <1>12, <2>1 DEF Shifts
<1>14. Ordered(P) /\ AllLines(P) = (1 .. accepted) \ dropped /\ dropped \subseteq 1 .. accepted
  BY <1>3 DEF EveryLineInOrder
<1>15. /\ Ordered(Q)
       /\ AllLines(Q) = AllLines(P) \ Range(SubSeq(P[1], n + 1, Len(P[1])))
       /\ Range(SubSeq(P[1], n + 1, Len(P[1]))) \subseteq AllLines(P)
  <2>1. k >= 1 /\ P \in [0 .. k -> Seq(Lines)] /\ Ordered(P)
    BY <1>5, <1>14
  <2>2. QED
    BY <1>13, <2>1, FirstPlaceTakes
<1>16. AllLines(Q) = (1 .. accepted') \ dropped' /\ dropped' \subseteq 1 .. accepted'
  BY <1>1, <1>12, <1>14, <1>15
<1>17. QED
  BY <1>3, <1>15, <1>16 DEF EveryLineInOrder

\* The other steps move no line.
LEMMA OthersKeepOrder ==
    ASSUME Recycling, SparesEmpty, Apart, Recycling', SparesEmpty', Apart', Shape, Shape',
           EveryLineInOrder,
           \/ Start \/ StartReturns \/ Stop \/ Join \/ Entry \/ Check \/ Lock \/ Wake
           \/ WriteDone \/ Recycle \/ UNCHANGED vars
    PROVE  EveryLineInOrder'
<1>1. UNCHANGED <<currBuffer, buffers, file, accepted, dropped>>
  BY DEF Start, StartReturns, Stop, Join, Entry, Check, Lock, Wake, WriteDone, Recycle, vars
<1>2. CASE Recycle
  <2>1. pc = "recycle" /\ pc' = "check" /\ content' = Emptied({newBuffer1', newBuffer2'})
    BY <1>2 DEF Recycle
  <2>2. currBuffer \in BufferIds /\ currBuffer \notin {newBuffer1', newBuffer2'} /\ buffers = <<>>
    BY <1>1, <2>1 DEF Apart, Recycling, SparesInv, TypeOK
  <2>3. content'[currBuffer] = content[currBuffer]
    BY <2>1, <2>2 DEF Emptied
  <2>4. Held = <<currBuffer>> /\ Held' = <<currBuffer>>
    <3>1. Held = <<currBuffer>>
      BY <2>1 DEF Shape
    <3>2. Held' = Append(buffers', currBuffer')
      BY <2>1 DEF Shape
    <3>3. Append(<<>>, currBuffer) = <<currBuffer>>
      OBVIOUS
    <3>4. QED
      BY <1>1, <2>2, <3>1, <3>2, <3>3
  <2>5. Len(<<currBuffer>>) = 1 /\ <<currBuffer>>[1] = currBuffer
    OBVIOUS
  <2>6. /\ DOMAIN Places = 0 .. 1 /\ DOMAIN Places' = 0 .. 1
        /\ Places[0] = file /\ Places'[0] = file'
        /\ Places[1] = content[currBuffer] /\ Places'[1] = content'[currBuffer]
    <3>1. 1 \in 1 .. 1
      OBVIOUS
    <3>2. QED
      BY <2>4, <2>5, <3>1 DEF Shape
  <2>7. \A i \in 0 .. 1 : i = 0 \/ i = 1
    OBVIOUS
  <2>8. Places' = Places
    <3>1. Places = [i \in 0 .. 1 |-> Places[i]] /\ Places' = [i \in 0 .. 1 |-> Places'[i]]
      BY <2>6 DEF Shape
    <3>2. \A i \in 0 .. 1 : Places'[i] = Places[i]
      BY <1>1, <2>3, <2>6, <2>7
    <3>3. QED
      BY <3>1, <3>2
  <2>9. QED
    BY <1>1, <2>8 DEF EveryLineInOrder
<1>3. CASE WriteDone
  <2>1. /\ pc = "write" /\ pc' = "recycle" /\ written >= Len(buffersTowrite)
        /\ UNCHANGED <<content, currBuffer, file>>
    BY <1>3 DEF WriteDone
  <2>2. written = Len(buffersTowrite)
    BY <2>1, LenProperties DEF SparesEmpty, Recycling, TypeOK
  <2>3. Unwritten = <<>>
    <3>1. Len(buffersTowrite) \in Int /\ Len(buffersTowrite) + 1 \in Int
          /\ Len(buffersTowrite) < Len(buffersTowrite) + 1
      BY LenProperties DEF Recycling, TypeOK
    <3>2. QED
      BY <2>2, <3>1, SubSeqEmpty DEF Unwritten
  <2>4. buffers = <<>>
    BY <2>1 DEF Recycling, SparesInv
  <2>5. Held' = Held
    <3>1. Held = <<>> \o Append(<<>>, currBuffer)
      BY <2>1, <2>3, <2>4 DEF Held
    <3>2. Held' = <<>> \o Append(<<>>, currBuffer)
      BY <1>1, <2>1, <2>4 DEF Held
    <3>3. QED
      BY <3>1, <3>2
  <2>6. Places' = Places
    BY <1>1, <2>1, <2>5 DEF Places
  <2>7. QED
    BY <1>1, <2>6 DEF EveryLineInOrder
<1>4. CASE \/ Start \/ StartReturns \/ Stop \/ Join \/ Entry \/ Check \/ Lock \/ Wake
           \/ UNCHANGED vars
  <2>1. UNCHANGED content
    BY <1>4 DEF Start, StartReturns, Stop, Join, Entry, Check, Lock, Wake, vars
  <2>2. CASE pc = "write" \/ pc = "recycle"
    <3>1. UNCHANGED <<pc, written, buffersTowrite>>
      BY <1>4, <2>2 DEF Start, StartReturns, Stop, Join, Entry, Check, Lock, Wake, vars,
                        Recycling, SparesInv
    <3>2. Held' = Held
      BY <1>1, <3>1 DEF Held, Unwritten
    <3>3. Places' = Places
      BY <1>1, <2>1, <3>2 DEF Places
    <3>4. QED
      BY <1>1, <3>3 DEF EveryLineInOrder
  <2>3. CASE pc \notin {"write", "recycle"}
    <3>1. pc' \notin {"write", "recycle"}
      BY <1>4, <2>3 DEF Start, StartReturns, Stop, Join, Entry, Check, Lock, Wake, vars
    <3>2. Held' = Held
      BY <1>1, <2>3, <3>1 DEF Shape
    <3>3. Places' = Places
      BY <1>1, <2>1, <3>2 DEF Places
    <3>4. QED
      BY <1>1, <3>3 DEF EveryLineInOrder
  <2>4. QED
    BY <2>2, <2>3
<1>5. QED
  BY <1>2, <1>3, <1>4

\* Whatever the back end and the front ends do to the buffers, every accepted
\* line that was not erased by the pile-up rule or given up by a failed write is
\* in the file or still held, once and in order (AsyncLogging.cpp:28-44, 70-120).
THEOREM LinesStayInOrder == Spec => []EveryLineInOrder
<1>1. Init /\ Shape => EveryLineInOrder
  <2> SUFFICES ASSUME Init, Shape
               PROVE  EveryLineInOrder
    OBVIOUS
  <2>1. file = <<>> /\ accepted = 0 /\ dropped = {} /\ \A b \in BufferIds : content[b] = <<>>
    BY DEF Init
  <2>2. \A i \in DOMAIN Places : Places[i] = <<>>
    <3>1. DOMAIN Places = 0 .. Len(Held) /\ \A i \in 0 .. Len(Held) : i = 0 \/ i \in 1 .. Len(Held)
      BY DEF Shape
    <3>2. QED
      BY <2>1, <3>1 DEF Shape
  <2>3. InOrder(<<>>) /\ Range(<<>>) = {}
    BY DEF InOrder, Range
  <2>4. Ordered(Places)
    BY <2>2, <2>3 DEF Ordered, Before
  <2>5. AllLines(Places) = {}
    BY <2>2, <2>3 DEF AllLines
  <2>6. (1 .. accepted) \ dropped = {} /\ dropped \subseteq 1 .. accepted
    BY <2>1
  <2>7. QED
    BY <2>4, <2>5, <2>6 DEF EveryLineInOrder
<1>2. Recycling /\ SparesEmpty => Shape
  BY PlacesHaveShape
<1>3. /\ Recycling /\ SparesEmpty /\ Apart /\ Shape
      /\ Recycling' /\ SparesEmpty' /\ Apart' /\ Shape'
      /\ EveryLineInOrder /\ [Next]_vars
      => EveryLineInOrder'
  BY AppendKeepsOrder, SwapKeepsOrder, WriteKeepsOrder, OthersKeepOrder DEF Next, BackEnd
<1>4. IInv => Recycling /\ SparesEmpty
  BY DEF IInv, Recycling
<1>5. QED
  BY <1>1, <1>2, <1>3, <1>4, InductiveInvariant, ApartAlways, PTL DEF Spec
==============================================================================

--------------------------- MODULE PipelineProofs ---------------------------
(***************************************************************************)
(* Proofs about the first two stages of a pipeline, the packet source and  *)
(* the service filter behind it.                                           *)
(*                                                                         *)
(* FileSource, for every size of packets, reads and inputs: the buffer is  *)
(* sound, and the packets delivered are those PacketStream takes from the  *)
(* input.                                                                  *)
(*                                                                         *)
(* ServiceFilter, for any set of PIDs, any PMTs and CATs, and any order of *)
(* the tables: the filter keeps its promises.                              *)
(***************************************************************************)
EXTENDS FileSource, ServiceFilter, TLAPS

\* The offset of the first byte that has not been delivered or dropped.
Unread == offset - (end - pos)

\* What GetNextPacket and Resync ask FillBuffer for, and where it leaves the
\* positions before each read.
Asking ==
    /\ pc \in {"next", "read"} => asked = PktSize
    /\ pc \in {"resync", "readMore"} => asked = MaxResyncBytes
    /\ pc \in {"read", "readMore"} => pos = 0 /\ end < asked

\* The unread bytes have been read, and begin after the last packet.
Progress ==
    /\ pos <= end
    /\ pc # "end" => Unread = IF packet = << >> THEN 0 ELSE packet[1] + PktSize
    /\ ended <=> pc = "end"
    /\ eof => pc = "end"

\* While it resynchronizes, a whole packet is there that has no sync byte.
Lost ==
    pc \in {"resync", "readMore"} => end - pos >= PktSize /\ ~ IsSync(pos)

\* The inductive invariant.
IInv ==
    /\ input \in Seq(BOOLEAN)
    /\ SourceTypeOK /\ Asking /\ Progress /\ Lost /\ Window /\ PacketIntact

-----------------------------------------------------------------------------

LEMMA Sizes ==
    /\ PktSize \in Nat /\ PktSize > 0 /\ ReadChunkSize \in Nat /\ ReadChunkSize > 0
    /\ MaxFile \in Nat
    /\ MaxDropBytes \in Nat /\ MaxDropBytes = 2 * PktSize
    /\ MaxResyncBytes \in Nat /\ MaxResyncBytes = 5 * PktSize
    /\ BufferSize \in Nat /\ BufferSize = ReadChunkSize + MaxResyncBytes
BY SourceAssumption DEF MaxDropBytes, MaxResyncBytes, BufferSize

LEMMA InputIsSequence ==
    ASSUME SourceInit PROVE input \in Seq(BOOLEAN)
<1>1. PICK n \in 0..MaxFile : input \in [1..n -> BOOLEAN]
  BY DEF SourceInit
<1>2. n \in Nat
  BY Sizes
<1> QED BY <1>1, <1>2

LEMMA Initially == SourceInit => IInv
<1> SUFFICES ASSUME SourceInit PROVE IInv
  OBVIOUS
<1>1. input \in Seq(BOOLEAN) /\ FileSize \in Nat
  BY InputIsSequence DEF FileSize
<1>2. SourceTypeOK
  <2>1. buf \in [0..(BufferSize - 1) -> Garbage..(FileSize - 1)]
    BY <1>1, Sizes DEF SourceInit, Garbage
  <2>2. packet \in Seq(Garbage..(FileSize - 1))
    BY DEF SourceInit
  <2>3. offset \in 0..FileSize /\ pos \in 0..BufferSize /\ end \in 0..BufferSize
    BY <1>1, Sizes DEF SourceInit
  <2>4. eof \in BOOLEAN /\ ended \in BOOLEAN /\ asked \in {PktSize, MaxResyncBytes}
        /\ pc \in {"next", "resync", "read", "readMore", "end"}
    BY Zenon DEF SourceInit
  <2> QED BY <2>1, <2>2, <2>3, <2>4 DEF SourceTypeOK
<1>3. Asking /\ Progress /\ Lost /\ Window /\ PacketIntact
  BY Sizes DEF SourceInit, Asking, Progress, Lost, Window, PacketIntact, Unread
<1> QED BY <1>1, <1>2, <1>3 DEF IInv

-----------------------------------------------------------------------------
(* The numbers of the invariant. *)

LEMMA Numbers ==
    ASSUME IInv
    PROVE  /\ FileSize \in Nat /\ offset \in Nat /\ offset <= FileSize
           /\ pos \in Nat /\ end \in Nat /\ pos <= end /\ end <= BufferSize
           /\ Unread \in Int
           /\ pc # "end" => Unread >= 0
<1>1. FileSize \in Nat /\ input \in Seq(BOOLEAN)
  BY DEF IInv, FileSize
<1>2. /\ offset \in Nat /\ offset <= FileSize
      /\ pos \in Nat /\ end \in Nat /\ pos <= end /\ end <= BufferSize /\ Unread \in Int
  <2>1. offset \in 0..FileSize /\ pos \in 0..BufferSize /\ end \in 0..BufferSize
    BY DEF IInv, SourceTypeOK
  <2>2. pos <= end
    BY DEF IInv, Progress
  <2> QED BY <1>1, <2>1, <2>2, Sizes DEF Unread
<1>3. ASSUME packet # << >> PROVE packet[1] \in Nat
  <2>1. packet[1] # Garbage
    BY <1>3, Zenon DEF IInv, PacketIntact
  <2>2. packet \in Seq(Garbage..(FileSize - 1))
    BY DEF IInv, SourceTypeOK
  <2> QED BY <1>1, <1>3, <2>1, <2>2 DEF Garbage
<1>4. pc # "end" => Unread >= 0
  BY <1>3, Sizes DEF IInv, Progress
<1> QED BY <1>1, <1>2, <1>4

\* An unread byte of the buffer is the byte of the input it should be.
LEMMA UnreadByte ==
    ASSUME IInv, pc # "end", NEW i \in pos..(end - 1)
    PROVE  /\ i \in 0..(BufferSize - 1)
           /\ buf[i] = Unread + (i - pos)
           /\ buf[i] \in 0..(FileSize - 1) /\ buf[i] # Garbage
<1>1. buf[i] = offset - end + i
  BY DEF IInv, Window
<1>2. i \in Nat /\ i <= BufferSize - 1 /\ offset - end + i = Unread + (i - pos)
  BY Numbers, Sizes DEF Unread
<1>3. Unread + (i - pos) >= 0 /\ offset - end + i <= FileSize - 1
  BY Numbers
<1> QED BY <1>1, <1>2, <1>3, Numbers, Sizes DEF Garbage

-----------------------------------------------------------------------------
(* The steps preserve the invariant. *)

LEMMA FillBufferStep ==
    ASSUME IInv, FillBuffer PROVE IInv'
<1>1. /\ end - pos < asked
      /\ buf' = Moved /\ pos' = 0 /\ end' = end - pos
      /\ input' = input /\ offset' = offset /\ asked' = asked /\ packet' = packet
  BY DEF FillBuffer
<1>0. /\ pc \in {"next", "resync"}
      /\ pc = "next" => pc' = "read"
      /\ pc = "resync" => pc' = "readMore"
      /\ pc' \in {"read", "readMore"} /\ pc # "end"
      /\ eof' = eof /\ ended' = ended
  BY DEF FillBuffer
<1>2. FileSize' = FileSize /\ Unread' = Unread
  BY <1>1, Numbers DEF FileSize, Unread
<1>3. \A i \in 0..(end' - 1) : buf'[i] = buf[pos + i] /\ pos + i \in pos..(end - 1)
  BY <1>1, Numbers, Sizes DEF Moved
<1>4. buf' \in [0..(BufferSize - 1) -> Garbage..(FileSize' - 1)]
  <2>1. ASSUME NEW i \in 0..(BufferSize - 1)
        PROVE  (IF i < end - pos THEN buf[pos + i] ELSE Garbage) \in Garbage..(FileSize - 1)
    <3>1. CASE i < end - pos
      <4>1. pos + i \in pos..(end - 1)
        BY <3>1, Numbers, Sizes
      <4>2. pc # "end"
        BY <1>0
      <4>3. buf[pos + i] \in 0..(FileSize - 1)
        BY <4>1, <4>2, UnreadByte
      <4> QED BY <3>1, <4>3, Numbers DEF Garbage
    <3>2. CASE ~(i < end - pos)
      BY <3>2, Numbers DEF Garbage
    <3> QED BY <3>1, <3>2
  <2> QED BY <1>1, <1>2, <2>1 DEF Moved
<1>5. SourceTypeOK'
  <2>1. pos' \in 0..BufferSize /\ end' \in 0..BufferSize
    BY <1>1, Numbers, Sizes
  <2>2. pc' \in {"next", "resync", "read", "readMore", "end"}
    BY <1>0
  <2>3. /\ offset' \in 0..FileSize' /\ asked' \in {PktSize, MaxResyncBytes}
        /\ packet' \in Seq(Garbage..(FileSize' - 1))
    BY <1>1, <1>2 DEF IInv, SourceTypeOK
  <2>4. eof' \in BOOLEAN /\ ended' \in BOOLEAN
    BY <1>0, Zenon DEF IInv, SourceTypeOK
  <2> QED BY <1>4, <2>1, <2>2, <2>3, <2>4 DEF SourceTypeOK
<1>6. Asking'
  BY <1>0, <1>1, Numbers DEF IInv, Asking
<1>7. Progress'
  <2>1. pos' <= end'
    BY <1>1, Numbers
  <2>2. Unread' = IF packet' = << >> THEN 0 ELSE packet'[1] + PktSize
    BY <1>0, <1>1, <1>2 DEF IInv, Progress
  <2>3. (ended' <=> pc' = "end") /\ (eof' => pc' = "end")
    BY <1>0, Zenon DEF IInv, Progress
  <2> QED BY <2>1, <2>2, <2>3 DEF Progress
<1>8. Window'
  <2> SUFFICES ASSUME NEW i \in 0..(end' - 1) PROVE buf'[i] = offset' - end' + i
    BY <1>0, <1>1 DEF Window
  <2>1. buf'[i] = offset - end + (pos + i)
    BY <1>0, <1>1, <1>3 DEF IInv, Window
  <2> QED BY <2>1, <1>1, Numbers
<1>9. Lost'
  <2> SUFFICES ASSUME pc = "resync" PROVE end' - pos' >= PktSize /\ ~ IsSync(pos)'
    BY <1>0, <1>1 DEF Lost
  <2>1. end - pos >= PktSize /\ ~ IsSync(pos)
    BY DEF IInv, Lost
  <2>2. end' - pos' >= PktSize /\ 0 \in 0..(end' - 1) /\ pos + 0 = pos
    BY <1>1, <2>1, Numbers, Sizes
  <2>3. buf'[pos'] = buf[pos]
    BY <1>1, <1>3, <2>2
  <2> QED BY <1>1, <2>1, <2>2, <2>3, Zenon DEF IsSync
<1>10. PacketIntact' /\ input' \in Seq(BOOLEAN)
  BY <1>1, Zenon DEF IInv, PacketIntact
<1> QED BY <1>5, <1>6, <1>7, <1>8, <1>9, <1>10 DEF IInv

LEMMA ReadStep ==
    ASSUME IInv, Read PROVE IInv'
<1>1. PICK n \in Readable :
         /\ buf' = [i \in 0..(BufferSize - 1) |->
                      IF i \in end..(end + n - 1) THEN offset + i - end ELSE buf[i]]
         /\ offset' = offset + n /\ end' = end + n
         /\ pc' = IF end + n < asked THEN pc
                  ELSE IF pc = "read" THEN "next" ELSE "resync"
  BY DEF Read
<1>2. /\ input' = input /\ pos' = pos /\ asked' = asked /\ packet' = packet
  BY DEF Read
<1>3. /\ pc \in {"read", "readMore"} /\ pc # "end"
      /\ eof' = eof /\ ended' = ended
  BY DEF Read
<1>4. /\ pc' \in {"read", "readMore"} => pc' = pc /\ end + n < asked
      /\ pc = "read" => pc' \in {"read", "next"}
      /\ pc = "readMore" => pc' \in {"readMore", "resync"}
  BY <1>1, <1>3
<1>5. n \in Nat /\ n > 0 /\ n <= ReadChunkSize /\ offset + n <= FileSize
  BY Sizes DEF Readable
<1>6. pos = 0 /\ end < asked /\ end < MaxResyncBytes
  <2>1. pos = 0 /\ end < asked /\ asked \in {PktSize, MaxResyncBytes}
    BY <1>3 DEF IInv, Asking
  <2> QED BY <2>1, Sizes, Numbers
<1>7. buf \in [0..(BufferSize - 1) -> Garbage..(FileSize - 1)]
  BY DEF IInv, SourceTypeOK
<1>8. FileSize' = FileSize /\ Unread' = Unread
  BY <1>1, <1>2, <1>5, Numbers DEF FileSize, Unread
<1>9. /\ offset' = offset + n /\ end' = end + n
      /\ \A i \in end..(end + n - 1) : buf'[i] = offset + i - end
      /\ \A i \in 0..(end - 1) : buf'[i] = buf[i]
  <2>1. /\ offset' = offset + n /\ end' = end + n
        /\ buf' = [i \in 0..(BufferSize - 1) |->
                      IF i \in end..(end + n - 1) THEN offset + i - end ELSE buf[i]]
    BY <1>1
  <2>2. /\ end..(end + n - 1) \subseteq 0..(BufferSize - 1)
        /\ 0..(end - 1) \subseteq 0..(BufferSize - 1)
        /\ \A i \in 0..(end - 1) : i \notin end..(end + n - 1)
    BY <1>5, <1>6, Numbers, Sizes
  <2> QED BY <2>1, <2>2
<1>10. buf' \in [0..(BufferSize - 1) -> Garbage..(FileSize' - 1)]
  <2>1. ASSUME NEW i \in 0..(BufferSize - 1)
        PROVE  (IF i \in end..(end + n - 1) THEN offset + i - end ELSE buf[i])
                 \in Garbage..(FileSize - 1)
    <3>1. CASE i \in end..(end + n - 1)
      <4>1. offset + i - end \in Garbage..(FileSize - 1)
        BY <3>1, <1>5, Numbers DEF Garbage
      <4> QED BY <3>1, <4>1
    <3>2. CASE i \notin end..(end + n - 1)
      BY <3>2, <1>7
    <3> QED BY <3>1, <3>2
  <2> QED BY <1>1, <1>8, <2>1
<1>11. SourceTypeOK'
  <2>1. pos' \in 0..BufferSize /\ end' \in 0..BufferSize /\ offset' \in 0..FileSize'
    BY <1>9, <1>2, <1>5, <1>6, <1>8, Numbers, Sizes
  <2>2. pc' \in {"next", "resync", "read", "readMore", "end"}
    BY <1>3, <1>4
  <2>3. /\ asked' \in {PktSize, MaxResyncBytes}
        /\ packet' \in Seq(Garbage..(FileSize' - 1))
    BY <1>2, <1>8 DEF IInv, SourceTypeOK
  <2>4. eof' \in BOOLEAN /\ ended' \in BOOLEAN
    BY <1>3, Zenon DEF IInv, SourceTypeOK
  <2> QED BY <1>10, <2>1, <2>2, <2>3, <2>4 DEF SourceTypeOK
<1>12. Asking'
  BY <1>2, <1>3, <1>4, <1>6, <1>9 DEF IInv, Asking
<1>13. Progress'
  <2>1. pos' <= end'
    BY <1>9, <1>2, <1>5, Numbers
  <2>2. Unread' = IF packet' = << >> THEN 0 ELSE packet'[1] + PktSize
    BY <1>2, <1>3, <1>8 DEF IInv, Progress
  <2>3. pc' # "end"
    BY <1>3, <1>4
  <2>4. (ended' <=> pc' = "end") /\ (eof' => pc' = "end")
    BY <1>3, <2>3, Zenon DEF IInv, Progress
  <2> QED BY <2>1, <2>2, <2>4 DEF Progress
<1>14. Window'
  <2> SUFFICES ASSUME NEW i \in pos'..(end' - 1) PROVE buf'[i] = offset' - end' + i
    BY DEF Window
  <2>1. CASE i \in end..(end + n - 1)
    BY <2>1, <1>9, <1>5, Numbers
  <2>2. CASE i \in 0..(end - 1)
    <3>1. buf'[i] = buf[i] /\ i \in pos..(end - 1)
      BY <2>2, <1>6, <1>9
    <3>2. buf[i] = offset - end + i
      BY <3>1, <1>3 DEF IInv, Window
    <3> QED BY <3>1, <3>2, <2>2, <1>9, <1>5, Numbers
  <2> QED BY <2>1, <2>2, <1>2, <1>5, <1>6, <1>9, Numbers
<1>15. Lost'
  <2> SUFFICES ASSUME pc = "readMore"
               PROVE  end' - pos' >= PktSize /\ ~ IsSync(pos)'
    BY <1>3, <1>4 DEF Lost
  <2>1. end - pos >= PktSize /\ ~ IsSync(pos)
    BY DEF IInv, Lost
  <2>2. end' - pos' >= PktSize /\ pos \in 0..(end - 1)
    <3>1. end' = end + n /\ pos' = pos /\ end - pos >= PktSize
      BY <1>9, <1>2, <2>1
    <3>2. end \in Nat /\ pos \in Nat /\ PktSize \in Nat /\ PktSize > 0 /\ n \in Nat
      BY <1>5, Numbers, Sizes
    <3> QED BY <3>1, <3>2
  <2>3. buf'[pos'] = buf[pos]
    BY <1>9, <1>2, <2>2
  <2> QED BY <1>2, <2>1, <2>2, <2>3, Zenon DEF IsSync
<1>16. PacketIntact' /\ input' \in Seq(BOOLEAN)
  BY <1>2, Zenon DEF IInv, PacketIntact
<1> QED BY <1>11, <1>12, <1>13, <1>14, <1>15, <1>16 DEF IInv

\* GetNextPacket returns false.
LEMMA EndStep ==
    ASSUME IInv, ended' = TRUE, pc' = "end", UNCHANGED <<input, offset, buf, end, packet>>,
           pos' \in 0..end, eof' \in BOOLEAN, asked' = asked
    PROVE  IInv'
<1>1. FileSize' = FileSize
  BY DEF FileSize
<1>2. SourceTypeOK'
  <2>1. pos' \in 0..BufferSize
    BY Numbers, Sizes
  <2>2. eof' \in BOOLEAN /\ ended' \in BOOLEAN
    BY Zenon
  <2>3. /\ offset' \in 0..FileSize' /\ end' \in 0..BufferSize
        /\ asked' \in {PktSize, MaxResyncBytes}
        /\ buf' \in [0..(BufferSize - 1) -> Garbage..(FileSize' - 1)]
        /\ packet' \in Seq(Garbage..(FileSize' - 1))
    BY <1>1 DEF IInv, SourceTypeOK
  <2> QED BY <2>1, <2>2, <2>3 DEF SourceTypeOK
<1>3. Progress'
  <2>1. pos' <= end'
    BY Numbers
  <2> QED BY <2>1 DEF Progress
<1>4. Asking' /\ Window' /\ Lost'
  BY DEF Asking, Window, Lost
<1>5. PacketIntact' /\ input' \in Seq(BOOLEAN)
  BY Zenon DEF IInv, PacketIntact
<1> QED BY <1>2, <1>3, <1>4, <1>5 DEF IInv

LEMMA LoseSyncStep ==
    ASSUME IInv, LoseSync PROVE IInv'
<1>1. /\ pc = "next" /\ pc' = "resync" /\ asked' = MaxResyncBytes
      /\ end - pos >= PktSize
      /\ input' = input /\ offset' = offset /\ buf' = buf /\ pos' = pos /\ end' = end
      /\ packet' = packet
  BY DEF LoseSync
<1>2. eof' = eof /\ ended' = ended /\ ~ IsSync(pos)
  BY DEF LoseSync
<1>3. FileSize' = FileSize /\ Unread' = Unread
  BY <1>1 DEF FileSize, Unread
<1>4. SourceTypeOK'
  <2>1. eof' \in BOOLEAN /\ ended' \in BOOLEAN
    BY <1>2, Zenon DEF IInv, SourceTypeOK
  <2>2. /\ offset' \in 0..FileSize' /\ end' \in 0..BufferSize /\ pos' \in 0..BufferSize
        /\ buf' \in [0..(BufferSize - 1) -> Garbage..(FileSize' - 1)]
        /\ packet' \in Seq(Garbage..(FileSize' - 1))
    BY <1>1, <1>3 DEF IInv, SourceTypeOK
  <2> QED BY <1>1, <2>1, <2>2 DEF SourceTypeOK
<1>5. Asking'
  BY <1>1 DEF Asking
<1>6. Progress'
  <2>1. pos' <= end' /\ Unread' = IF packet' = << >> THEN 0 ELSE packet'[1] + PktSize
    BY <1>1, <1>3, Numbers DEF IInv, Progress
  <2>2. (ended' <=> pc' = "end") /\ (eof' => pc' = "end")
    BY <1>1, <1>2, Zenon DEF IInv, Progress
  <2> QED BY <2>1, <2>2 DEF Progress
<1>7. Window'
  BY <1>1 DEF IInv, Window
<1>8. Lost'
  BY <1>1, <1>2, Zenon DEF Lost, IsSync
<1>9. PacketIntact' /\ input' \in Seq(BOOLEAN)
  BY <1>1, Zenon DEF IInv, PacketIntact
<1> QED BY <1>4, <1>5, <1>6, <1>7, <1>8, <1>9 DEF IInv

\* GetNextPacket returns true: a packet at position p of the buffer.
LEMMA DeliverStep ==
    ASSUME IInv, pc # "end", NEW p \in pos..(end - 1), p + PktSize <= end, IsSync(p), Deliver(p)
    PROVE  /\ IInv'
           /\ packet' # << >> /\ packet'[1] = Unread + (p - pos)
<1>1. /\ packet' = [i \in 1..PktSize |-> buf[p + i - 1]]
      /\ pos' = p + PktSize /\ asked' = PktSize
      /\ input' = input /\ offset' = offset /\ buf' = buf /\ end' = end
  BY DEF Deliver
<1>2. /\ ended' \in BOOLEAN /\ eof' = eof
      /\ ended' => pc' = "end"
      /\ ~ ended' => pc' = "next"
  BY DEF Deliver
<1>3. p \in Nat /\ PktSize \in Nat /\ PktSize > 0 /\ Unread \in Int /\ pos \in Nat
  BY Numbers, Sizes
<1>4. \A i \in 1..PktSize : /\ p + i - 1 \in pos..(end - 1)
                            /\ packet'[i] = buf[p + i - 1]
  BY <1>1, <1>3, Numbers
<1>5. ASSUME NEW i \in 1..PktSize
      PROVE  packet'[i] = Unread + (p + i - 1 - pos) /\ packet'[i] \in 0..(FileSize - 1)
  <2> DEFINE j == p + i - 1
  <2>1. j \in pos..(end - 1) /\ packet'[i] = buf[j]
    BY <1>4
  <2> HIDE DEF j
  <2>2. buf[j] = Unread + (j - pos) /\ buf[j] \in 0..(FileSize - 1)
    BY <2>1, UnreadByte
  <2>3. j - pos = p + i - 1 - pos
    BY <1>3 DEF j
  <2> QED BY <2>1, <2>2, <2>3
<1>6. packet' \in Seq(Garbage..(FileSize - 1)) /\ Len(packet') = PktSize
  <2>1. \A i \in 1..PktSize : buf[p + i - 1] \in Garbage..(FileSize - 1)
    BY <1>4, <1>5, Numbers DEF Garbage
  <2> QED BY <1>1, <1>3, <2>1
<1>7. packet' # << >> /\ 1 \in 1..PktSize
  BY <1>3, <1>6
<1>8. packet'[1] = Unread + (p - pos) /\ packet'[1] = buf[p] /\ packet'[1] # Garbage
  <2>1. packet'[1] = Unread + (p + 1 - 1 - pos) /\ packet'[1] = buf[p + 1 - 1]
        /\ packet'[1] \in 0..(FileSize - 1)
    BY <1>4, <1>5, <1>7
  <2>2. p + 1 - 1 = p
    BY <1>3
  <2>3. packet'[1] # Garbage
    BY <2>1, Numbers DEF Garbage
  <2>4. Unread + (p + 1 - 1 - pos) = Unread + (p - pos)
    BY <1>3
  <2> QED BY <2>1, <2>2, <2>3, <2>4
<1>9. FileSize' = FileSize
  BY <1>1 DEF FileSize
<1>10. SourceTypeOK'
  <2>1. pos' \in 0..BufferSize
    BY <1>1, <1>3, Numbers, Sizes
  <2>2. pc' \in {"next", "resync", "read", "readMore", "end"} /\ ended' \in BOOLEAN
    BY <1>2
  <2>3. eof' \in BOOLEAN
    BY <1>2, Zenon DEF IInv, SourceTypeOK
  <2>4. /\ offset' \in 0..FileSize' /\ end' \in 0..BufferSize
        /\ asked' \in {PktSize, MaxResyncBytes}
        /\ buf' \in [0..(BufferSize - 1) -> Garbage..(FileSize' - 1)]
        /\ packet' \in Seq(Garbage..(FileSize' - 1))
    BY <1>1, <1>6, <1>9 DEF IInv, SourceTypeOK
  <2> QED BY <2>1, <2>2, <2>3, <2>4 DEF SourceTypeOK
<1>11. pc' \in {"next", "end"}
  BY <1>2
<1>12. Asking' /\ Lost'
  BY <1>1, <1>11 DEF Asking, Lost
<1>13. Progress'
  <2>1. pos' <= end'
    BY <1>1
  <2>2. Unread' = packet'[1] + PktSize
    <3>1. offset - (end - (p + PktSize)) = Unread + (p - pos) + PktSize
      BY <1>3, Numbers DEF Unread
    <3>2. Unread' = offset - (end - (p + PktSize))
      BY <1>1 DEF Unread
    <3> QED BY <3>1, <3>2, <1>8
  <2>3. ended' <=> pc' = "end"
    BY <1>2
  <2>4. ~ eof'
    BY <1>2, Zenon DEF IInv, Progress
  <2> QED BY <1>7, <2>1, <2>2, <2>3, <2>4 DEF Progress
<1>14. Window'
  <2>1. ASSUME NEW i \in pos'..(end' - 1) PROVE buf'[i] = offset' - end' + i
    <3>1. i \in pos..(end - 1)
      BY <1>1, <1>3, Numbers
    <3> QED BY <3>1, <1>1 DEF IInv, Window
  <2> QED BY <2>1 DEF Window
<1>15. PacketIntact'
  <2>1. input'[packet'[1] + 1]
    BY <1>1, <1>8, Zenon DEF IsSync
  <2>2. ASSUME NEW i \in 1..PktSize PROVE packet'[i] = packet'[1] + i - 1
    BY <1>3, <1>5, <1>8
  <2> QED BY <1>8, <2>1, <2>2, Zenon DEF PacketIntact
<1>16. input' \in Seq(BOOLEAN)
  BY <1>1 DEF IInv
<1> QED BY <1>7, <1>8, <1>10, <1>12, <1>13, <1>14, <1>15, <1>16 DEF IInv

LEMMA ResyncPlace ==
    ASSUME IInv, pc = "resync", end - pos >= asked, NEW p \in pos..(pos + MaxDropBytes - 1)
    PROVE  \A k \in 0..3 : p + k * PktSize \in pos..(end - 1) /\ p + PktSize <= end
<1>1. asked = MaxResyncBytes
  BY DEF IInv, Asking
<1>2. /\ pos \in Nat /\ end \in Nat /\ PktSize \in Nat /\ PktSize > 0
      /\ MaxDropBytes = 2 * PktSize /\ end - pos >= 5 * PktSize
  BY <1>1, Numbers, Sizes
<1>3. p \in Nat /\ p >= pos /\ p + 3 * PktSize < end
  BY <1>2
<1> QED BY <1>2, <1>3

\* A step of GetNextPacket that delivers a packet, as both of its cases are.
Delivers(p) ==
    /\ pc # "end" /\ p \in pos..(end - 1) /\ p + PktSize <= end /\ IsSync(p) /\ Deliver(p)

LEMMA GetNextPacketDelivers ==
    ASSUME IInv, GetNextPacket PROVE Delivers(pos)
<1>1. pos \in pos..(end - 1) /\ pos + PktSize <= end
  <2>1. end - pos >= PktSize
    BY DEF GetNextPacket
  <2> QED BY <2>1, Numbers, Sizes
<1> QED BY <1>1 DEF GetNextPacket, Delivers

LEMMA ResyncDelivers ==
    ASSUME IInv, Resync
    PROVE  \E p \in ResyncAt : (\A q \in ResyncAt : p <= q) /\ Delivers(p)
<1>1. pc = "resync" /\ end - pos >= asked
  BY DEF Resync
<1>2. PICK p \in ResyncAt : (\A q \in ResyncAt : p <= q) /\ Deliver(p)
  BY DEF Resync
<1>3. p \in pos..(pos + MaxDropBytes - 1) /\ (\A k \in 0..3 : IsSync(p + k * PktSize))
  BY DEF ResyncAt, ValidateResync
<1>4. p + 0 * PktSize = p /\ 0 \in 0..3
  BY <1>3, Numbers, Sizes
<1>5. IsSync(p)
  <2>1. IsSync(p + 0 * PktSize)
    BY <1>3, <1>4
  <2> QED BY <2>1, <1>4, Zenon
<1>6. p \in pos..(end - 1) /\ p + PktSize <= end
  BY <1>1, <1>3, <1>4, ResyncPlace
<1> QED BY <1>1, <1>2, <1>5, <1>6 DEF Delivers

LEMMA Preserved == IInv /\ [SourceNext]_sourceVars => IInv'
<1> SUFFICES ASSUME IInv, [SourceNext]_sourceVars PROVE IInv'
  OBVIOUS
<1>1. CASE FillBuffer
  BY <1>1, FillBufferStep
<1>2. CASE Read
  BY <1>2, ReadStep
<1>3. CASE ReadEof
  <2>1. pos \in 0..end
    BY Numbers
  <2> QED BY <1>3, <2>1, EndStep DEF ReadEof
<1>4. CASE GetNextPacket
  BY <1>4, GetNextPacketDelivers, DeliverStep DEF Delivers
<1>5. CASE LoseSync
  BY <1>5, LoseSyncStep
<1>6. CASE Resync
  BY <1>6, ResyncDelivers, DeliverStep DEF Delivers
<1>7. CASE ResyncFailed
  <2>1. pos' \in 0..end
    <3>1. pc = "resync" /\ end - pos >= asked /\ pos' = pos + MaxDropBytes
      BY <1>7 DEF ResyncFailed
    <3>2. end - pos >= MaxResyncBytes
      BY <3>1 DEF IInv, Asking
    <3> QED BY <3>1, <3>2, Numbers, Sizes
  <2>2. eof' \in BOOLEAN
    BY <1>7, Zenon DEF IInv, SourceTypeOK, ResyncFailed
  <2> QED BY <1>7, <2>1, <2>2, EndStep DEF ResyncFailed
<1>8. CASE UNCHANGED sourceVars
  BY <1>8, Zenon DEF sourceVars, IInv, SourceTypeOK, Asking, Progress, Lost, Window,
                    PacketIntact, Unread, FileSize, IsSync
<1> QED BY <1>1, <1>2, <1>3, <1>4, <1>5, <1>6, <1>7, <1>8 DEF SourceNext

LEMMA Invariant == SourceSpec => []IInv
BY Initially, Preserved, PTL DEF SourceSpec

\* The buffer works for every size of packets and reads: there is room for each
\* read, as FillBuffer asserts, the unread part of the buffer is the part of the
\* input before the offset, and packets are whole.
THEOREM BufferAlwaysSound == SourceSpec => []BufferSound
<1>1. IInv => BufferSound
  <2> SUFFICES ASSUME IInv PROVE BufferSound
    OBVIOUS
  <2>1. pc \in {"read", "readMore"} => BufferSize - end >= ReadChunkSize
    <3>1. ASSUME pc \in {"read", "readMore"} PROVE end < MaxResyncBytes
      <4>1. end < asked /\ asked \in {PktSize, MaxResyncBytes}
        BY <3>1 DEF IInv, Asking
      <4> QED BY <4>1, Numbers, Sizes
    <3> QED BY <3>1, Numbers, Sizes
  <2>2. pos <= end /\ (eof => pc = "end")
    BY DEF IInv, Progress
  <2>3. RoomToRead
    BY <2>1, <2>2, Zenon DEF RoomToRead
  <2> QED BY <2>3, Zenon DEF IInv, BufferSound
<1> QED BY <1>1, Invariant, PTL

-----------------------------------------------------------------------------
(* The packets are those of PacketStream. *)

\* What at and sent of PacketStream are mapped to.
At == IF pc = "end" /\ packet # << >> THEN packet[1] + PktSize
      ELSE IF pc = "end" THEN 0 ELSE offset - (end - pos)
Sent == IF packet = << >> THEN -1 ELSE packet[1]

LEMMA AtAfterPacket ==
    ASSUME IInv
    PROVE  /\ At = IF packet = << >> THEN 0 ELSE packet[1] + PktSize
           /\ pc # "end" => At = Unread
BY DEF IInv, Progress, At, Unread

LEMMA AtAfterPacketNext ==
    ASSUME IInv' PROVE At' = IF packet' = << >> THEN 0 ELSE packet'[1] + PktSize
BY DEF IInv, Progress, At, Unread

\* A byte is a sync byte in the buffer if it is one in the input.
LEMMA SameSync ==
    ASSUME IInv, pc # "end", NEW i \in pos..(end - 1)
    PROVE  IsSync(i) <=> Stream!IsSync(Unread + (i - pos))
<1>1. buf[i] = Unread + (i - pos) /\ buf[i] # Garbage
  BY UnreadByte
<1> QED BY <1>1, Zenon DEF IsSync, Stream!IsSync

LEMMA StreamSizes ==
    /\ Stream!MaxDropBytes = MaxDropBytes
    /\ Stream!MaxResyncBytes = MaxResyncBytes
    /\ Stream!Size = FileSize
BY DEF Stream!MaxDropBytes, Stream!MaxResyncBytes, Stream!Size, MaxDropBytes, MaxResyncBytes,
       FileSize

\* A packet that begins with a sync byte is the next one.
LEMMA NextInSync ==
    ASSUME IInv, pc # "end", end - pos >= PktSize, IsSync(pos)
    PROVE  Unread \in Stream!NextPacket(Unread)
<1>1. pos \in pos..(end - 1) /\ Unread + (pos - pos) = Unread /\ Unread + PktSize <= FileSize
  BY Numbers, Sizes DEF Unread
<1>2. Stream!IsSync(Unread)
  <2>1. Stream!IsSync(Unread + (pos - pos))
    BY <1>1, SameSync
  <2> QED BY <2>1, <1>1, Zenon
<1>3. ~(Unread + PktSize > Stream!Size)
  BY <1>1, StreamSizes, Numbers, Sizes
<1> QED BY <1>2, <1>3, Zenon DEF Stream!NextPacket

\* Without a sync byte the next packet is where Resync looks for it.
LEMMA NextLost ==
    ASSUME IInv, pc \in {"resync", "readMore"}
    PROVE  Stream!NextPacket(Unread) =
               {q \in Stream!Resyncs(Unread) : \A r \in Stream!Resyncs(Unread) : q <= r}
<1>1. end - pos >= PktSize /\ ~ IsSync(pos) /\ pc # "end"
  BY DEF IInv, Lost
<1>2. pos \in pos..(end - 1) /\ Unread + (pos - pos) = Unread /\ Unread + PktSize <= FileSize
  BY <1>1, Numbers, Sizes DEF Unread
<1>3. ~ Stream!IsSync(Unread)
  <2>1. ~ Stream!IsSync(Unread + (pos - pos))
    BY <1>1, <1>2, SameSync
  <2> QED BY <2>1, <1>2, Zenon
<1>4. ~(Unread + PktSize > Stream!Size)
  BY <1>2, StreamSizes, Numbers, Sizes
<1> QED BY <1>3, <1>4, Zenon DEF Stream!NextPacket

\* The loop of Resync stops where PacketStream does.
LEMMA SameResyncs ==
    ASSUME IInv, pc = "resync", end - pos >= asked
    PROVE  /\ \A p \in ResyncAt : Unread + (p - pos) \in Stream!Resyncs(Unread)
           /\ \A q \in Stream!Resyncs(Unread) : pos + (q - Unread) \in ResyncAt
<1>1. /\ pos \in Nat /\ end \in Nat /\ Unread \in Int /\ MaxDropBytes \in Nat /\ PktSize \in Nat
      /\ MaxResyncBytes \in Nat
  BY Numbers, Sizes
<1>2. Unread + MaxResyncBytes <= Stream!Size
  <2>1. end - pos >= MaxResyncBytes
    BY DEF IInv, Asking
  <2> QED BY <2>1, StreamSizes, Numbers, Sizes DEF Unread
<1>3. Stream!Resyncs(Unread) = {q \in Unread..(Unread + MaxDropBytes - 1) : Stream!InSync(q)}
  BY <1>2, StreamSizes DEF Stream!Resyncs
<1>4. ASSUME NEW p \in pos..(pos + MaxDropBytes - 1), NEW q \in Int, q = Unread + (p - pos)
      PROVE  ValidateResync(p) <=> Stream!InSync(q)
  <2>1. ASSUME NEW k \in 0..3
        PROVE  IsSync(p + k * PktSize) <=> Stream!IsSync(q + k * PktSize)
    <3> DEFINE i == p + k * PktSize
    <3>1. i \in pos..(end - 1)
      BY ResyncPlace
    <3>2. Unread + (i - pos) = q + k * PktSize
      <4>1. k * PktSize \in Int /\ p \in Int
        BY <1>1
      <4> QED BY <4>1, <1>1, <1>4
    <3> HIDE DEF i
    <3>3. IsSync(i) <=> Stream!IsSync(Unread + (i - pos))
      BY <3>1, SameSync
    <3> QED BY <3>2, <3>3, Zenon DEF i
  <2> QED BY <2>1, Zenon DEF ValidateResync, Stream!InSync
<1>5. ASSUME NEW p \in ResyncAt PROVE Unread + (p - pos) \in Stream!Resyncs(Unread)
  <2>1. p \in pos..(pos + MaxDropBytes - 1) /\ ValidateResync(p)
    BY DEF ResyncAt
  <2>2. Unread + (p - pos) \in Unread..(Unread + MaxDropBytes - 1)
    BY <2>1, <1>1
  <2>3. Stream!InSync(Unread + (p - pos))
    BY <2>1, <2>2, <1>4
  <2> QED BY <1>3, <2>2, <2>3
<1>6. ASSUME NEW q \in Stream!Resyncs(Unread) PROVE pos + (q - Unread) \in ResyncAt
  <2>1. q \in Unread..(Unread + MaxDropBytes - 1) /\ Stream!InSync(q)
    BY <1>3
  <2> DEFINE p == pos + (q - Unread)
  <2>2. p \in pos..(pos + MaxDropBytes - 1) /\ q \in Int /\ q = Unread + (p - pos)
    BY <2>1, <1>1
  <2> HIDE DEF p
  <2>3. ValidateResync(p)
    BY <2>1, <2>2, <1>4
  <2>4. p \in ResyncAt
    BY <2>2, <2>3 DEF ResyncAt
  <2> QED BY <2>4 DEF p
<1> QED BY <1>5, <1>6

LEMMA DeliversPacket ==
    ASSUME IInv, IInv', NEW p, Delivers(p), Unread + (p - pos) \in Stream!NextPacket(Unread)
    PROVE  Stream!Packet
<1>1. packet' # << >> /\ packet'[1] = Unread + (p - pos)
  BY DeliverStep DEF Delivers
<1>2. At = Unread /\ Sent' = packet'[1] /\ At' = packet'[1] + PktSize
  BY <1>1, AtAfterPacket, AtAfterPacketNext DEF Delivers, Sent
<1>3. ~ ended /\ ended' \in BOOLEAN /\ input' = input
  BY Zenon DEF IInv, Progress, Delivers, Deliver
<1>4. \E q \in Stream!NextPacket(At) : Sent' = q /\ At' = q + PktSize
  BY <1>1, <1>2
<1> QED BY <1>3, <1>4, Zenon DEF Stream!Packet, At, Sent

LEMMA EndStops ==
    ASSUME IInv, IInv', pc # "end", ended' = TRUE, input' = input, packet' = packet,
           Stream!NextPacket(Unread) = {}
    PROVE  Stream!Stop
<1>1. At = Unread /\ At' = At /\ Sent' = Sent
  BY AtAfterPacket, AtAfterPacketNext DEF Sent
<1>2. ~ ended
  BY Zenon DEF IInv, Progress
<1>3. Stream!NextPacket(At) = {}
  BY <1>1, Zenon
<1> QED BY <1>1, <1>2, <1>3, Zenon DEF Stream!Stop, At, Sent

LEMMA Stutters ==
    ASSUME IInv, IInv', ended' = ended, input' = input, packet' = packet
    PROVE  UNCHANGED Stream!svars
<1>1. At' = At /\ Sent' = Sent
  BY AtAfterPacket, AtAfterPacketNext DEF Sent
<1> QED BY <1>1, Zenon DEF Stream!svars, At, Sent

LEMMA StepSimulation ==
    ASSUME IInv, IInv', [SourceNext]_sourceVars PROVE [Stream!Next]_(Stream!svars)
<1>1. CASE FillBuffer
  BY <1>1, Stutters DEF FillBuffer
<1>2. CASE Read
  BY <1>2, Stutters DEF Read
<1>3. CASE ReadEof
  <2>1. pc # "end" /\ ended' = TRUE /\ input' = input /\ packet' = packet
    BY <1>3 DEF ReadEof
  <2>2. pc \in {"read", "readMore"} /\ offset = FileSize
    BY <1>3 DEF ReadEof
  <2>3. pos = 0 /\ end < asked
    BY <2>2 DEF IInv, Asking
  <2>4. Stream!NextPacket(Unread) = {}
    <3>1. CASE pc = "read"
      <4>1. asked = PktSize
        BY <3>1 DEF IInv, Asking
      <4>2. Unread + PktSize > Stream!Size
        BY <2>2, <2>3, <4>1, StreamSizes, Numbers, Sizes DEF Unread
      <4> QED BY <4>2, Zenon DEF Stream!NextPacket
    <3>2. CASE pc = "readMore"
      <4>1. asked = MaxResyncBytes
        BY <3>2 DEF IInv, Asking
      <4>2. ~(Unread + Stream!MaxResyncBytes <= Stream!Size)
        BY <2>2, <2>3, <4>1, StreamSizes, Numbers, Sizes DEF Unread
      <4>3. Stream!Resyncs(Unread) = {}
        BY <4>2, Zenon DEF Stream!Resyncs
      <4> QED BY <3>2, <4>3, NextLost
    <3> QED BY <2>2, <3>1, <3>2
  <2> QED BY <2>1, <2>4, EndStops DEF Stream!Next
<1>4. CASE GetNextPacket
  <2>1. Delivers(pos)
    BY <1>4, GetNextPacketDelivers
  <2>2. Unread + (pos - pos) = Unread
    BY Numbers
  <2>3. Unread \in Stream!NextPacket(Unread)
    BY <1>4, NextInSync DEF GetNextPacket
  <2>4. Stream!Packet
    BY <2>1, <2>2, <2>3, DeliversPacket
  <2> QED BY <2>4 DEF Stream!Next
<1>5. CASE LoseSync
  BY <1>5, Stutters DEF LoseSync
<1>6. CASE Resync
  <2>1. PICK p \in ResyncAt : (\A q \in ResyncAt : p <= q) /\ Delivers(p)
    BY <1>6, ResyncDelivers
  <2>2. pc = "resync" /\ end - pos >= asked
    BY <1>6 DEF Resync
  <2>3. p \in Nat /\ pos \in Nat /\ Unread \in Int /\ MaxDropBytes \in Nat
    BY Numbers, Sizes DEF ResyncAt
  <2>4. ASSUME NEW r \in Stream!Resyncs(Unread) PROVE Unread + (p - pos) <= r
    <3>1. r \in Int
      BY StreamSizes, <2>3 DEF Stream!Resyncs
    <3>2. p <= pos + (r - Unread)
      BY <2>1, <2>2, SameResyncs
    <3> QED BY <2>3, <3>1, <3>2
  <2>5. Unread + (p - pos) \in Stream!Resyncs(Unread)
    BY <2>2, SameResyncs
  <2>6. Unread + (p - pos) \in Stream!NextPacket(Unread)
    BY <2>2, <2>4, <2>5, NextLost
  <2>7. Stream!Packet
    BY <2>1, <2>6, DeliversPacket
  <2> QED BY <2>7 DEF Stream!Next
<1>7. CASE ResyncFailed
  <2>1. pc = "resync" /\ end - pos >= asked /\ ResyncAt = {}
    BY <1>7 DEF ResyncFailed
  <2>2. pc # "end" /\ ended' = TRUE /\ input' = input /\ packet' = packet
    BY <1>7 DEF ResyncFailed
  <2>3. Stream!Resyncs(Unread) = {}
    BY <2>1, SameResyncs
  <2>4. Stream!NextPacket(Unread) = {}
    BY <2>1, <2>3, NextLost
  <2> QED BY <2>2, <2>4, EndStops DEF Stream!Next
<1>8. CASE UNCHANGED sourceVars
  BY <1>8, Stutters DEF sourceVars
<1> QED BY <1>1, <1>2, <1>3, <1>4, <1>5, <1>6, <1>7, <1>8 DEF SourceNext

\* However read(2) cuts the input into pieces, FileSource delivers the packets
\* that the bytes of the input determine, resynchronizes where they do, and
\* ends where they end (GetNextPacket, Resync).
THEOREM RefinesPacketStream == SourceSpec => ImplementsPacketStream
<1>1. SourceInit => Stream!Init
  <2> SUFFICES ASSUME SourceInit PROVE Stream!Init
    OBVIOUS
  <2>1. At = 0 /\ Sent = -1
    BY DEF SourceInit, At, Sent
  <2>2. /\ input \in UNION {[1..n -> BOOLEAN] : n \in 0..MaxFile}
        /\ ended = FALSE
    BY Zenon DEF SourceInit
  <2> QED BY <2>1, <2>2, Zenon DEF Stream!Init, At, Sent
<1>2. IInv /\ IInv' /\ [SourceNext]_sourceVars => [Stream!Next]_(Stream!svars)
  BY StepSimulation
<1> QED BY <1>1, <1>2, Invariant, PTL DEF SourceSpec, Stream!Spec, ImplementsPacketStream

-----------------------------------------------------------------------------
(* The service filter.  Its proofs share no state with those above. *)

\* The two states of the PSI/SI side: no PAT accepted yet, or one whose PMT
\* PID is safe, is in the filter and is in the PAT that is sent on.
Followed ==
    \/ /\ pmt_pid = NullPid
       /\ psi_filter = {}
       /\ pat_packetizer = None
       /\ announced = None
    \/ /\ pmt_pid \in Pids
       /\ IsSafeDynamicPid(pmt_pid)
       /\ psi_filter = PsiFilterPids \cup {pmt_pid}
       /\ pat_packetizer = [s \in {Sid} |-> pmt_pid]
       /\ announced \in {None, pmt_pid}

\* The other two filters are exactly the safe PIDs of the last PMT and CAT.
Exact ==
    /\ content_filter = {pid \in named.pmt : IsSafeDynamicPid(pid)}
    /\ emm_filter = {pid \in named.cat : IsSafeDynamicPid(pid)}

\* The inductive invariant.  That a filter that is done has ended is needed
\* for announced: a PAT that moves the PMT is always handed on.
FilterInv ==
    /\ TypeOK
    /\ TablesFollowed
    /\ SinksSafe
    /\ Followed
    /\ Exact
    /\ run = "up" => ~ done

LEMMA FilterInitial == Init => FilterInv
  <1> SUFFICES ASSUME Init PROVE FilterInv
    OBVIOUS
  <1>1. TypeOK
    BY FilterAssumption DEF Init, TypeOK
  <1>2. TablesFollowed /\ SinksSafe /\ Followed /\ Exact
    BY FilterAssumption DEF Init, TablesFollowed, SinksSafe, Followed, Exact
  <1>3. run = "up" => ~ done
    BY DEF Init
  <1> QED
    BY <1>1, <1>2, <1>3 DEF FilterInv

LEMMA PatTypes ==
    ASSUME NEW p \in Packets, p.table # None, p.table.tid = "PAT"
    PROVE  /\ p.pid \in Pids
           /\ p.table.pmts \in Pats
           /\ Sid \in DOMAIN p.table.pmts => p.table.pmts[Sid] \in Pids
  <1>1. p.pid \in Pids /\ p.table \in Tables
    BY DEF Packets
  <1>2. p.table.pmts \in Pats
    BY <1>1 DEF Tables
  <1>3. PICK S \in SUBSET Sids : p.table.pmts \in [S -> Pids]
    BY <1>2 DEF Pats
  <1> QED
    BY <1>1, <1>2, <1>3

LEMMA OnePat == \A pid \in Pids : [s \in {Sid} |-> pid] \in Pats
  <1> SUFFICES ASSUME NEW pid \in Pids PROVE [s \in {Sid} |-> pid] \in Pats
    OBVIOUS
  <1>1. {Sid} \in SUBSET Sids
    BY FilterAssumption
  <1>2. [s \in {Sid} |-> pid] \in [{Sid} -> Pids]
    OBVIOUS
  <1> QED
    BY <1>1, <1>2 DEF Pats

\* The state of the tables, without what was sent.
Tabled ==
    /\ demuxed \subseteq Pids
    /\ psi_filter \subseteq Pids
    /\ content_filter \subseteq Pids
    /\ emm_filter \subseteq Pids
    /\ pmt_pid \in Pids
    /\ pat_packetizer \in Pats \cup {None}
    /\ done \in BOOLEAN
    /\ error \in BOOLEAN
    /\ named \in [pmt : SUBSET Pids, cat : SUBSET Pids]
    /\ TablesFollowed
    /\ Exact

\* A table moves the PMT only with a PAT packet that will be handed on.
Moves(p) ==
    /\ p.pid = PatPid
    /\ pmt_pid' \in Pids
    /\ IsSafeDynamicPid(pmt_pid')
    /\ psi_filter' = PsiFilterPids \cup {pmt_pid'}
    /\ pat_packetizer' = [s \in {Sid} |-> pmt_pid']
    /\ done' = done

Stays == pmt_pid' = pmt_pid /\ psi_filter' = psi_filter /\ pat_packetizer' = pat_packetizer

LEMMA PatStep ==
    ASSUME FilterInv, NEW p \in Packets, p.table # None, HandlePat(p)
    PROVE  Tabled' /\ (Moves(p) \/ Stays)
  <1> DEFINE pid == p.table.pmts[Sid]
             accepted == /\ p.pid = PatPid
                         /\ ~ p.table.ts_id_0
                         /\ Sid \in DOMAIN p.table.pmts
                         /\ IsSafeDynamicPid(p.table.pmts[Sid])
  <1>1. p.table.tid = "PAT"
    BY DEF HandlePat
  <1>2. Sid \in DOMAIN p.table.pmts => pid \in Pids
    BY <1>1, PatTypes
  <1>3. content_filter' = content_filter /\ emm_filter' = emm_filter /\ named' = named
    BY DEF HandlePat
  <1>4. Exact' /\ named' \in [pmt : SUBSET Pids, cat : SUBSET Pids]
           /\ content_filter' \subseteq Pids /\ emm_filter' \subseteq Pids
    BY <1>3 DEF FilterInv, TypeOK, Exact, IsSafeDynamicPid
  <1>5. ASSUME accepted PROVE Tabled' /\ Moves(p)
    <2>1. /\ pmt_pid' = pid
          /\ demuxed' = (IF pmt_pid # NullPid THEN demuxed \ {pmt_pid} ELSE demuxed)
                           \cup {pid}
          /\ pat_packetizer' = [s \in {Sid} |-> p.table.pmts[s]]
          /\ psi_filter' = PsiFilterPids \cup {pid}
          /\ done' = done
          /\ error' = error
      BY <1>5 DEF HandlePat, FollowPmt, ModifiedPat, PsiFilter
    <2>2. pid \in Pids /\ pid # NullPid /\ pid \notin PsiFilterPids
      BY <1>2, <1>5 DEF IsSafeDynamicPid
    <2>3. pat_packetizer' = [s \in {Sid} |-> pid]
      BY <2>1
    <2>4. pat_packetizer' \in Pats
      BY <2>2, <2>3, OnePat
    <2>5. Moves(p)
      BY <1>5, <2>1, <2>2, <2>3 DEF Moves, IsSafeDynamicPid
    <2>6. pmt_pid = NullPid \/ pmt_pid \notin PsiFilterPids
      BY DEF FilterInv, Followed, IsSafeDynamicPid
    <2>7. TablesFollowed'
      BY <2>1, <2>2, <2>6, FilterAssumption DEF FilterInv, TablesFollowed
    <2>8. demuxed' \subseteq Pids /\ psi_filter' \subseteq Pids
      BY <2>1, <2>2, FilterAssumption DEF FilterInv, TypeOK
    <2>9. done' \in BOOLEAN /\ error' \in BOOLEAN
      BY <2>1 DEF FilterInv, TypeOK
    <2> QED
      BY <1>4, <2>1, <2>2, <2>4, <2>5, <2>7, <2>8, <2>9 DEF Tabled
  <1>6. ASSUME ~ accepted PROVE Tabled' /\ Stays
    <2>1. /\ UNCHANGED <<pmt_pid, demuxed, pat_packetizer, psi_filter>>
          /\ \E v \in BOOLEAN : done' = (done \/ v) /\ error' = (error \/ v)
      BY <1>6, Zenon DEF HandlePat
    <2>2. done' \in BOOLEAN /\ error' \in BOOLEAN
      BY <2>1 DEF FilterInv, TypeOK
    <2>3. TablesFollowed'
      BY <2>1 DEF FilterInv, TablesFollowed
    <2> QED
      BY <1>4, <2>1, <2>2, <2>3 DEF Tabled, Stays, FilterInv, TypeOK
  <1> QED
    BY <1>5, <1>6

LEMMA CatStep ==
    ASSUME FilterInv, NEW p \in Packets, p.table # None, HandleCat(p)
    PROVE  Tabled' /\ Stays
  <1>1. p.table.pids \subseteq Pids
    <2>1. p.table \in Tables /\ p.table.tid = "CAT"
      BY DEF Packets, HandleCat
    <2>2. p.table.pids \in CatPids
      BY <2>1 DEF Tables
    <2> QED
      BY <2>2, FilterAssumption
  <1>2. /\ emm_filter' = {pid \in p.table.pids : IsSafeDynamicPid(pid)}
        /\ named' = [named EXCEPT !.cat = p.table.pids]
        /\ UNCHANGED <<demuxed, psi_filter, content_filter, pmt_pid, pat_packetizer,
                       done, error>>
    BY DEF HandleCat
  <1>3. named'.cat = p.table.pids /\ named'.pmt = named.pmt
           /\ named' \in [pmt : SUBSET Pids, cat : SUBSET Pids]
    BY <1>1, <1>2 DEF FilterInv, TypeOK
  <1>4. Exact' /\ TablesFollowed'
    BY <1>2, <1>3 DEF FilterInv, Exact, TablesFollowed, IsSafeDynamicPid
  <1> QED
    BY <1>1, <1>2, <1>3, <1>4 DEF Tabled, Stays, FilterInv, TypeOK

LEMMA PmtStep ==
    ASSUME FilterInv, NEW p \in Packets, p.table # None, HandlePmt(p)
    PROVE  Tabled' /\ Stays
  <1>1. p.table.pids \subseteq Pids
    <2>1. p.table \in Tables /\ p.table.tid = "PMT"
      BY DEF Packets, HandlePmt
    <2>2. p.table.pids \in PmtPids
      BY <2>1 DEF Tables
    <2> QED
      BY <2>2, FilterAssumption
  <1>2. UNCHANGED <<demuxed, psi_filter, emm_filter, pmt_pid, pat_packetizer, done, error>>
    BY DEF HandlePmt
  <1>3. Exact' /\ named' \in [pmt : SUBSET Pids, cat : SUBSET Pids]
           /\ content_filter' \subseteq Pids
    <2>1. CASE p.table.sid = Sid
      <3>1. content_filter' = {pid \in p.table.pids : IsSafeDynamicPid(pid)}
               /\ named' = [named EXCEPT !.pmt = p.table.pids]
        BY <2>1 DEF HandlePmt, ContentFilter
      <3>2. named'.pmt = p.table.pids /\ named'.cat = named.cat
               /\ named' \in [pmt : SUBSET Pids, cat : SUBSET Pids]
        BY <1>1, <3>1 DEF FilterInv, TypeOK
      <3> QED
        BY <1>1, <1>2, <3>1, <3>2 DEF FilterInv, Exact, IsSafeDynamicPid
    <2>2. CASE p.table.sid # Sid
      BY <1>2, <2>2 DEF HandlePmt, FilterInv, TypeOK, Exact, IsSafeDynamicPid
    <2> QED
      BY <2>1, <2>2
  <1>4. TablesFollowed'
    BY <1>2 DEF FilterInv, TablesFollowed
  <1> QED
    BY <1>2, <1>3, <1>4 DEF Tabled, Stays, FilterInv, TypeOK

LEMMA SameTables ==
    ASSUME FilterInv, UNCHANGED <<demuxed, filters, pmt_pid, pat_packetizer, error, named>>,
           done' \in BOOLEAN
    PROVE  Tabled' /\ Stays
  <1>1. /\ UNCHANGED <<demuxed, psi_filter, content_filter, emm_filter>>
        /\ UNCHANGED <<pmt_pid, pat_packetizer, error, named>>
    BY DEF filters
  <1>2. Exact' /\ TablesFollowed'
    BY <1>1 DEF FilterInv, Exact, TablesFollowed, IsSafeDynamicPid
  <1> QED
    BY <1>1, <1>2 DEF Tabled, Stays, FilterInv, TypeOK

LEMMA DemuxStep ==
    ASSUME FilterInv, NEW p \in Packets, Demux(p)
    PROVE  Tabled' /\ (Moves(p) \/ Stays)
  <1>1. CASE p.pid \in demuxed /\ p.table # None
    <2>1. CASE HandlePat(p)
      BY <1>1, <2>1, PatStep
    <2>2. CASE HandleCat(p)
      BY <1>1, <2>2, CatStep
    <2>3. CASE HandlePmt(p)
      BY <1>1, <2>3, PmtStep
    <2>4. CASE HandleTot(p)
      <3>1. done' \in BOOLEAN
        BY <2>4, Zenon DEF HandleTot
      <3> QED
        BY <2>4, <3>1, SameTables DEF HandleTot
    <2> QED
      BY <1>1, <2>1, <2>2, <2>3, <2>4 DEF Demux
  <1>2. CASE ~ (p.pid \in demuxed /\ p.table # None)
    <2>1. /\ UNCHANGED <<demuxed, filters, pmt_pid, pat_packetizer, error, named>>
          /\ done' = done
      BY <1>2 DEF Demux
    <2>2. done' \in BOOLEAN
      BY <2>1 DEF FilterInv, TypeOK
    <2> QED
      BY <2>1, <2>2, SameTables
  <1> QED
    BY <1>1, <1>2

LEMMA FilterPacketStep ==
    ASSUME FilterInv, HandlePacket
    PROVE  FilterInv'
  <1>1. PICK p \in Packets :
           /\ Demux(p)
           /\ IF done' \/ CheckFilterForDrop(p.pid, psi_filter', content_filter', emm_filter')
              THEN sent' = None /\ UNCHANGED announced
              ELSE Forward(p.pid)
    BY DEF HandlePacket
  <1>2. run = "up" /\ run' = IF done' THEN "ended" ELSE "up"
    BY DEF HandlePacket
  <1>3. Tabled' /\ (Moves(p) \/ Stays)
    BY <1>1, DemuxStep
  <1>4. ~ done /\ p.pid \in Pids
    BY <1>2 DEF FilterInv, Packets
  <1>5. content_filter' \cup emm_filter' \subseteq Pids \ (PsiFilterPids \cup {NullPid})
    BY <1>3 DEF Tabled, Exact, IsSafeDynamicPid
  <1>6. (\/ /\ pmt_pid = NullPid
            /\ psi_filter = {}
            /\ pat_packetizer = None
         \/ /\ pmt_pid \in Pids
            /\ IsSafeDynamicPid(pmt_pid)
            /\ psi_filter = PsiFilterPids \cup {pmt_pid}
            /\ pat_packetizer = [s \in {Sid} |-> pmt_pid])'
    <2>1. CASE Moves(p)
      BY <2>1 DEF Moves, IsSafeDynamicPid
    <2>2. CASE Stays
      BY <2>2 DEF Stays, FilterInv, Followed, IsSafeDynamicPid
    <2> QED
      BY <1>3, <2>1, <2>2
  <1>7. CASE done' \/ CheckFilterForDrop(p.pid, psi_filter', content_filter', emm_filter')
    <2>1. sent' = None /\ announced' = announced
      BY <1>1, <1>7
    <2>2. Stays
      <3>1. ~ Moves(p)
        <4> SUFFICES ASSUME Moves(p) PROVE FALSE
          OBVIOUS
        <4>1. ~ done' /\ p.pid \in psi_filter'
          BY <1>4, FilterAssumption DEF Moves
        <4> QED
          BY <1>7, <4>1 DEF CheckFilterForDrop
      <3> QED
        BY <1>3, <3>1
    <2>3. Followed'
      BY <2>1, <2>2 DEF Stays, FilterInv, Followed, IsSafeDynamicPid
    <2>4. SinksSafe'
      BY <2>1 DEF SinksSafe
    <2>5. TypeOK'
      BY <1>2, <1>3, <2>1 DEF Tabled, FilterInv, TypeOK
    <2> QED
      BY <1>2, <1>3, <2>3, <2>4, <2>5 DEF FilterInv, Tabled
  <1>8. CASE ~ (done' \/ CheckFilterForDrop(p.pid, psi_filter', content_filter', emm_filter'))
    <2>1. /\ sent' = [pid |-> p.pid, pmts |-> IF p.pid = PatPid THEN pat_packetizer' ELSE None]
          /\ announced' = IF p.pid = PatPid /\ pat_packetizer' # None
                          THEN pat_packetizer'[Sid] ELSE announced
      BY <1>1, <1>8 DEF Forward
    <2>2. p.pid \in psi_filter' \cup content_filter' \cup emm_filter'
      BY <1>8 DEF CheckFilterForDrop
    <2>3. p.pid \in PsiFilterPids => p.pid \in psi_filter'
      BY <1>5, <2>2
    <2>4. p.pid # NullPid
      BY <1>5, <1>6, <2>2, FilterAssumption DEF IsSafeDynamicPid
    <2>5. p.pid = PatPid => /\ pat_packetizer' = [s \in {Sid} |-> pmt_pid']
                           /\ IsSafeDynamicPid(pmt_pid')
                           /\ pmt_pid' \in Pids
                           /\ psi_filter' = PsiFilterPids \cup {pmt_pid'}
      BY <1>6, <2>3, FilterAssumption DEF IsSafeDynamicPid
    <2>6. p.pid = PatPid => pat_packetizer' # None /\ announced' = pmt_pid'
      <3> SUFFICES ASSUME p.pid = PatPid
                   PROVE  pat_packetizer' # None /\ announced' = pmt_pid'
        OBVIOUS
      <3>1. pat_packetizer' # None
        <4>1. pat_packetizer' \in Pats
          BY <2>5, OnePat
        <4> QED
          BY <4>1, FilterAssumption
      <3> QED
        BY <2>1, <2>5, <3>1
    <2>7. p.pid # PatPid => announced' = announced /\ Stays
      BY <1>3, <2>1 DEF Moves
    <2>8. Followed'
      <3>1. CASE p.pid = PatPid
        BY <2>5, <2>6, <3>1 DEF Followed, IsSafeDynamicPid
      <3>2. CASE p.pid # PatPid
        BY <2>7, <3>2 DEF Stays, FilterInv, Followed, IsSafeDynamicPid
      <3> QED
        BY <3>1, <3>2
    <2>9. SinksSafe'
      <3>1. sent'.pid # NullPid
        BY <2>1, <2>4
      <3>2. ASSUME sent'.pid = PatPid
            PROVE  /\ sent'.pmts # None
                   /\ DOMAIN sent'.pmts = {Sid}
                   /\ sent'.pmts[Sid] \notin PsiFilterPids \cup {NullPid}
        <4>1. p.pid = PatPid /\ sent'.pmts = pat_packetizer'
          BY <2>1, <3>2
        <4> QED
          BY <2>5, <2>6, <4>1 DEF IsSafeDynamicPid
      <3> QED
        BY <3>1, <3>2 DEF SinksSafe
    <2>10. TypeOK'
      <3>1. sent' \in [pid : Pids, pmts : Pats \cup {None}]
        BY <1>3, <1>4, <2>1 DEF Tabled
      <3>2. announced' \in Pids \cup {None}
        BY <1>3, <2>6, <2>7 DEF Tabled, FilterInv, TypeOK
      <3> QED
        BY <1>2, <1>3, <3>1, <3>2 DEF Tabled, TypeOK
    <2> QED
      BY <1>2, <1>3, <2>8, <2>9, <2>10 DEF FilterInv, Tabled
  <1> QED
    BY <1>7, <1>8

LEMMA FilterEndStep ==
    ASSUME FilterInv, End
    PROVE  FilterInv'
  <1>1. /\ run' = "ended"
        /\ sent' = None
        /\ UNCHANGED <<demuxed, psi_filter, content_filter, emm_filter>>
        /\ UNCHANGED <<pmt_pid, pat_packetizer, done, error, announced, named>>
    BY DEF End, filters
  <1>2. TypeOK'
    BY <1>1 DEF FilterInv, TypeOK
  <1>3. TablesFollowed' /\ SinksSafe' /\ Followed' /\ Exact'
    BY <1>1 DEF FilterInv, TablesFollowed, SinksSafe, Followed, Exact, IsSafeDynamicPid
  <1> QED
    BY <1>1, <1>2, <1>3 DEF FilterInv

LEMMA FilterStutterStep ==
    ASSUME FilterInv, UNCHANGED vars
    PROVE  FilterInv'
  <1>1. /\ UNCHANGED <<run, demuxed, psi_filter, content_filter, emm_filter, sent>>
        /\ UNCHANGED <<pmt_pid, pat_packetizer, done, error, announced, named>>
    BY DEF vars, filters
  <1>2. TypeOK'
    BY <1>1 DEF FilterInv, TypeOK
  <1>3. TablesFollowed' /\ SinksSafe' /\ Followed' /\ Exact'
    BY <1>1 DEF FilterInv, TablesFollowed, SinksSafe, Followed, Exact, IsSafeDynamicPid
  <1> QED
    BY <1>1, <1>2, <1>3 DEF FilterInv

\* The inductive invariant holds in every reachable state.
THEOREM FilterInvariance == Spec => []FilterInv
  <1>1. FilterInv /\ [Next]_vars => FilterInv'
    BY FilterPacketStep, FilterEndStep, FilterStutterStep DEF Next
  <1> QED
    BY <1>1, FilterInitial, PTL DEF Spec

-----------------------------------------------------------------------------

\* The filter's state keeps its types (HandlePacket and every table handler).
THEOREM FilterTypes == Spec => []TypeOK
  BY FilterInvariance, PTL DEF FilterInv

\* demux_ always looks at the PAT, the CAT, the TOT with a time limit and the
\* current PMT: what IsSafeDynamicPid is there for.
THEOREM TablesAlwaysFollowed == Spec => []TablesFollowed
  BY FilterInvariance, PTL DEF FilterInv

\* The assertions of the sinks behind the filter about PATs and null packets
\* (HandlePat of ProgramFilter and ServiceRecorder) never fail.
THEOREM SinksAlwaysSafe == Spec => []SinksSafe
  BY FilterInvariance, PTL DEF FilterInv

\* The PMT PID that the sinks were last told in a PAT is the one the filter
\* follows and passes.
THEOREM SamePmtAlways == Spec => []SamePmtFollowed
  <1>1. FilterInv => SamePmtFollowed
    BY FilterAssumption
       DEF FilterInv, Followed, TablesFollowed, SamePmtFollowed, IsSafeDynamicPid, TypeOK
  <1> QED
    BY <1>1, FilterInvariance, PTL

\* Only what belongs to the service passes (CheckFilterForDrop).
THEOREM OnlyTheService == Spec => []ServiceOnly
  <1>1. FilterInv => ServiceOnly
    BY DEF FilterInv, Followed, Exact, ServiceOnly
  <1> QED
    BY <1>1, FilterInvariance, PTL

\* All that belongs to the service passes (CheckFilterForDrop).
THEOREM AllOfTheService == Spec => []ServiceComplete
  <1>1. FilterInv => ServiceComplete
    BY DEF FilterInv, Exact, ServiceComplete, IsSafeDynamicPid
  <1> QED
    BY <1>1, FilterInvariance, PTL

\* The filter follows its tables, and the same PMT as the sinks behind it.
THEOREM PmtAlwaysFollowed == Spec => []PmtFollowed
  BY TablesAlwaysFollowed, SamePmtAlways, PTL DEF PmtFollowed

\* Exactly the service passes.
THEOREM ServiceAlwaysPassed == Spec => []ServicePassed
  BY OnlyTheService, AllOfTheService, PTL DEF ServicePassed

=============================================================================

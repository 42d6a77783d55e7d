--------------------------- MODULE CSocket_proofs ---------------------------
(***************************************************************************)
(* The receiving end of csocket never loses its place in the stream, for   *)
(* every set of messages, chunk size, descriptor and number of bytes; from *)
(* that it implements a channel of whole messages.                         *)
(*                                                                         *)
(* The inductive invariant ties three things together: where the frames    *)
(* lie in the stream (Layout), where in it the receiver is (InSync), and   *)
(* that recv is only called once nothing received is left to handle        *)
(* (RecvWhenExhausted).                                                    *)
(***************************************************************************)
EXTENDS CSocket, SequenceTheorems, TLAPS

\* The numeric assumptions, which most steps need.
LEMMA Numbers ==
  /\ MaxLength \in Nat /\ DescLen \in Nat /\ DescLen > 0
  /\ MaxRecv \in Nat /\ MaxSends \in Nat /\ MaxOutOfMemory \in Nat /\ MaxConnections \in Nat
  /\ MaxConnections > 0
BY SocketAssumption

USE Numbers

-----------------------------------------------------------------------------
(* Sequences of bytes. *)

\* A stretch of a sequence, as the receiver cuts it out.
LEMMA Stretch ==
  ASSUME NEW S, NEW s \in Seq(S), NEW m \in Nat, NEW n \in Nat, m <= n, n <= Len(s)
  PROVE  /\ SubSeq(s, m + 1, n) \in Seq(S)
         /\ Len(SubSeq(s, m + 1, n)) = n - m
         /\ \A k \in 1 .. n - m : SubSeq(s, m + 1, n)[k] = s[m + k]
<1>1. \A i \in m + 1 .. n : s[i] \in S
  BY ElementOfSeq
<1>2. /\ SubSeq(s, m + 1, n) \in Seq(S)
      /\ Len(SubSeq(s, m + 1, n)) = IF m + 1 <= n THEN n - (m + 1) + 1 ELSE 0
      /\ \A i \in 1 .. n - (m + 1) + 1 : SubSeq(s, m + 1, n)[i] = s[m + 1 + i - 1]
  BY <1>1, SubSeqProperties
<1>3. QED
  BY <1>2

\* The rest of a sequence without its first n elements (Rest).
LEMMA RestOf ==
  ASSUME NEW S, NEW s \in Seq(S), NEW n \in 0 .. Len(s)
  PROVE  /\ Rest(s, n) \in Seq(S)
         /\ Len(Rest(s, n)) = Len(s) - n
         /\ \A k \in 1 .. Len(s) - n : Rest(s, n)[k] = s[n + k]
BY Stretch, LenProperties DEF Rest

\* Two sequences written one after the other.
LEMMA Joined ==
  ASSUME NEW S, NEW s \in Seq(S), NEW r \in Seq(S)
  PROVE  /\ s \o r \in Seq(S)
         /\ Len(s \o r) = Len(s) + Len(r)
         /\ \A k \in 1 .. Len(s) : (s \o r)[k] = s[k]
         /\ \A k \in 1 .. Len(r) : (s \o r)[Len(s) + k] = r[k]
<1>1. s \o r \in Seq(S) /\ Len(s \o r) = Len(s) + Len(r)
  BY ConcatProperties
<1>2. \A k \in 1 .. Len(s) : (s \o r)[k] = s[k]
  OBVIOUS
<1>3. \A k \in 1 .. Len(r) : (s \o r)[Len(s) + k] = r[k]
  OBVIOUS
<1>4. QED
  BY <1>1, <1>2, <1>3

\* A frame is its descriptor followed by the message.
LEMMA FrameOf ==
  ASSUME NEW m \in Messages
  PROVE  /\ m \in Seq(Byte) /\ Len(m) \in 1 .. MaxLength
         /\ Frame(m) \in Seq(Byte) /\ Len(Frame(m)) = DescLen + Len(m)
         /\ \A k \in 1 .. DescLen : Frame(m)[k] = Desc[Len(m)][k]
         /\ \A k \in 1 .. Len(m) : Frame(m)[DescLen + k] = m[k]
<1> DEFINE d == Desc[Len(m)]
<1>1. m \in Seq(Byte) /\ Len(m) \in 1 .. MaxLength
  BY SocketAssumption
<1>2. d \in [1 .. DescLen -> Byte]
  BY <1>1, SocketAssumption
<1>3. d \in Seq(Byte)
  BY <1>2, SeqDef
<1>4. Len(d) = DescLen
  BY <1>2, <1>3, LenProperties
<1> HIDE DEF d
<1>5. /\ d \o m \in Seq(Byte)
      /\ Len(d \o m) = Len(d) + Len(m)
      /\ \A k \in 1 .. Len(d) : (d \o m)[k] = d[k]
      /\ \A k \in 1 .. Len(m) : (d \o m)[Len(d) + k] = m[k]
  BY <1>1, <1>3, Joined
<1>6. Frame(m) = d \o m
  BY DEF Frame, d
<1>7. QED
  BY <1>1, <1>4, <1>5, <1>6 DEF d

-----------------------------------------------------------------------------
(* The inductive invariant. *)

\* The stream is the frames of the messages, one after the other; only the last can be
\* cut short, and nothing is written after that.
Layout ==
  /\ Len(ends) = Len(sent)
  /\ \A i \in 1 .. Len(sent) : /\ ends[i] = FrameEnd(i - 1) + DescLen + Len(sent[i])
                               /\ FrameEnd(i - 1) <= Len(stream)
  /\ \A i \in 1 .. Len(sent) : \A k \in 1 .. DescLen + Len(sent[i]) :
       FrameEnd(i - 1) + k <= Len(stream) =>
         stream[FrameEnd(i - 1) + k] = Frame(sent[i])[k]
  /\ IF cut THEN fin /\ sent # <<>> /\ Len(stream) < FrameEnd(Len(sent))
            ELSE Len(stream) = FrameEnd(Len(sent))

\* recv is called when nothing received is left to handle, unless memory was short.
RecvWhenExhausted ==
  /\ pc = "recv" /\ nomem = 0 => Exhausted
  /\ eof => fin /\ pc = "left"
  /\ EndAfterAllMessages

Inv == TypeOK /\ Layout /\ InSync /\ OnlySentMessages /\ RecvWhenExhausted

\* Frames end at natural numbers.
LEMMA FrameEndNat ==
  ASSUME TypeOK, Layout, NEW i \in 0 .. Len(sent)
  PROVE  FrameEnd(i) \in Nat
<1>1. CASE i = 0
  BY <1>1 DEF FrameEnd
<1>2. CASE i # 0
  <2>1. i \in 1 .. Len(ends)
    BY <1>2, LenProperties DEF Layout, TypeOK
  <2>2. ends[i] \in Nat
    BY <2>1, ElementOfSeq DEF TypeOK
  <2>3. QED
    BY <1>2, <2>2 DEF FrameEnd
<1>3. QED
  BY <1>1, <1>2

\* The message under way: the one after those delivered.
LEMMA Underway ==
  ASSUME Inv, Len(delivered) < Len(sent)
  PROVE  /\ Len(delivered) + 1 \in 1 .. Len(sent)
         /\ sent[Len(delivered) + 1] \in Messages
         /\ FrameEnd(Len(delivered)) \in Nat
         /\ FrameEnd(Len(delivered) + 1) =
              FrameEnd(Len(delivered)) + DescLen + Len(sent[Len(delivered) + 1])
         /\ \A k \in 1 .. DescLen + Len(sent[Len(delivered) + 1]) :
              FrameEnd(Len(delivered)) + k <= Len(stream) =>
                stream[FrameEnd(Len(delivered)) + k] = Frame(sent[Len(delivered) + 1])[k]
<1> DEFINE n == Len(delivered) + 1
<1>1. Len(delivered) \in Nat /\ Len(sent) \in Nat
  BY LenProperties DEF Inv, TypeOK
<1>2. n \in 1 .. Len(sent) /\ n - 1 = Len(delivered)
  BY <1>1
<1>3. sent[n] \in Messages
  BY <1>2, ElementOfSeq DEF Inv, TypeOK
<1>4. FrameEnd(n - 1) \in Nat
  BY <1>1, <1>2, FrameEndNat DEF Inv
<1>5. ends[n] = FrameEnd(n - 1) + DescLen + Len(sent[n])
  BY <1>2 DEF Inv, Layout
<1>6. FrameEnd(n) = ends[n]
  BY <1>2 DEF FrameEnd
<1>7. \A k \in 1 .. DescLen + Len(sent[n]) :
        FrameEnd(n - 1) + k <= Len(stream) => stream[FrameEnd(n - 1) + k] = Frame(sent[n])[k]
  BY <1>2 DEF Inv, Layout
<1>8. QED
  BY <1>2, <1>3, <1>4, <1>5, <1>6, <1>7

\* A descriptor in the IN-STREAM is that of the message under way.
LEMMA DescriptorRead ==
  ASSUME Inv, recv_end = 0, Len(recv_data) >= DescLen
  PROVE  /\ Len(delivered) < Len(sent)
         /\ ChunkLen = Len(sent[Len(delivered) + 1])
<1> DEFINE n == Len(delivered) + 1
<1>1. /\ Len(recv_data) \in Nat /\ Len(delivered) \in Nat /\ Len(sent) \in Nat
      /\ Len(stream) \in Nat /\ got \in Nat /\ got <= Len(stream)
  BY LenProperties DEF Inv, TypeOK
<1>2. Parsed = FrameEnd(Len(delivered)) /\ Len(recv_data) <= got /\ Len(delivered) <= Len(sent)
  BY DEF Inv, InSync, OnlySentMessages
<1>3. FrameEnd(Len(delivered)) + DescLen <= Len(stream)
  BY <1>1, <1>2 DEF Parsed
<1>4. FrameEnd(Len(sent)) >= Len(stream)
  <2>1. FrameEnd(Len(sent)) \in Nat
    BY <1>1, FrameEndNat DEF Inv
  <2>2. QED
    BY <1>1, <2>1 DEF Inv, Layout
<1>5. Len(delivered) < Len(sent)
  <2>1. FrameEnd(Len(delivered)) \in Nat
    BY <1>1, <1>2, FrameEndNat DEF Inv
  <2>2. Len(delivered) # Len(sent)
    BY <1>1, <1>3, <1>4, <2>1
  <2>3. QED
    BY <1>1, <1>2, <2>2
<1>6. /\ sent[n] \in Messages
      /\ \A k \in 1 .. DescLen + Len(sent[n]) :
           FrameEnd(n - 1) + k <= Len(stream) => stream[FrameEnd(n - 1) + k] = Frame(sent[n])[k]
  BY <1>1, <1>5, Underway
<1>7. /\ Len(sent[n]) \in 1 .. MaxLength
      /\ \A k \in 1 .. DescLen : Frame(sent[n])[k] = Desc[Len(sent[n])][k]
  BY <1>6, FrameOf
<1>8. \A k \in 1 .. DescLen : recv_data[k] = Desc[Len(sent[n])][k]
  <2> TAKE k \in 1 .. DescLen
  <2>1. FrameEnd(n - 1) \in Nat /\ n - 1 = Len(delivered)
    BY <1>1, <1>2, FrameEndNat DEF Inv
  <2>2. recv_data[k] = stream[FrameEnd(n - 1) + k]
    BY <1>1, <1>2, <2>1 DEF Inv, InSync
  <2>3. k \in 1 .. DescLen + Len(sent[n]) /\ FrameEnd(n - 1) + k <= Len(stream)
    BY <1>1, <1>3, <1>7, <2>1
  <2>4. QED
    BY <1>6, <1>7, <2>2, <2>3
<1>9. SubSeq(recv_data, 1, DescLen) = Desc[Len(sent[n])]
  <2> DEFINE d == SubSeq(recv_data, 0 + 1, DescLen)
             e == Desc[Len(sent[n])]
  <2>1. d \in Seq(Byte) /\ Len(d) = DescLen /\ \A k \in 1 .. DescLen : d[k] = recv_data[k]
    BY <1>1, Stretch DEF Inv, TypeOK
  <2>2. e \in [1 .. DescLen -> Byte]
    BY <1>7, SocketAssumption
  <2>3. e \in Seq(Byte) /\ Len(e) = DescLen
    <3>1. e \in Seq(Byte)
      BY <2>2, SeqDef
    <3>2. QED
      BY <2>2, <3>1, LenProperties
  <2>4. \A k \in 1 .. DescLen : d[k] = e[k]
    BY <1>8, <2>1
  <2>5. d = e
    BY <2>1, <2>3, <2>4, SeqEqual
  <2>6. QED
    BY <2>5
<1>10. \A m \in 0 .. MaxLength : Desc[m] = SubSeq(recv_data, 1, DescLen) <=> m = Len(sent[n])
  <2> TAKE m \in 0 .. MaxLength
  <2>1. Len(sent[n]) \in 0 .. MaxLength
    BY <1>7
  <2>2. Desc[m] = Desc[Len(sent[n])] <=> m = Len(sent[n])
    BY <2>1, SocketAssumption
  <2>3. QED
    BY <1>9, <2>2
<1>11. ChunkLen = Len(sent[n])
  <2>1. Len(sent[n]) \in 0 .. MaxLength
    BY <1>7
  <2>2. \E m \in 0 .. MaxLength : Desc[m] = SubSeq(recv_data, 1, DescLen)
    BY <1>10, <2>1
  <2>3. ChunkLen \in 0 .. MaxLength /\ Desc[ChunkLen] = SubSeq(recv_data, 1, DescLen)
    BY <2>2, Zenon DEF ChunkLen
  <2>4. QED
    BY <1>10, <2>3
<1>12. QED
  BY <1>5, <1>11

-----------------------------------------------------------------------------
(* Every step preserves the invariant. *)

\* Steps that write nothing and change neither the socket's state nor the messages
\* leave the layout of the stream alone.
LEMMA LayoutStays ==
  ASSUME Layout, UNCHANGED sender, stream' = stream, fin => fin'
  PROVE  Layout'
BY DEF Layout, FrameEnd, sender

\* Reading a descriptor begins the next message.
LEMMA ReadDescriptorKeeps ==
  ASSUME Inv, ReadDescriptor
  PROVE  Inv'
<1> USE DEF network, sender, receiver
<1>1. /\ Len(delivered) < Len(sent)
      /\ ChunkLen = Len(sent[Len(delivered) + 1])
  BY DescriptorRead DEF ReadDescriptor
<1>2. sent[Len(delivered) + 1] \in Messages
  BY <1>1, Underway
<1>3. Len(sent[Len(delivered) + 1]) \in 1 .. MaxLength
  BY <1>2, FrameOf
<1>4. /\ Len(recv_data) \in Nat /\ DescLen \in 0 .. Len(recv_data)
      /\ FrameEnd(Len(delivered)) \in Nat /\ got \in Nat
  BY <1>1, Underway, LenProperties DEF Inv, TypeOK, ReadDescriptor
<1>5. /\ recv_data' \in Seq(Byte)
      /\ Len(recv_data') = Len(recv_data) - DescLen
      /\ \A k \in 1 .. Len(recv_data) - DescLen : recv_data'[k] = recv_data[DescLen + k]
  <2>1. recv_data \in Seq(Byte)
    BY DEF Inv, TypeOK
  <2>2. /\ Rest(recv_data, DescLen) \in Seq(Byte)
        /\ Len(Rest(recv_data, DescLen)) = Len(recv_data) - DescLen
        /\ \A k \in 1 .. Len(recv_data) - DescLen :
             Rest(recv_data, DescLen)[k] = recv_data[DescLen + k]
    BY <1>4, <2>1, RestOf
  <2>3. QED
    BY <2>2 DEF ReadDescriptor
<1>6. TypeOK'
  BY <1>1, <1>3, <1>5 DEF Inv, TypeOK, ReadDescriptor
<1>7. Layout'
  BY LayoutStays DEF Inv, ReadDescriptor
<1>8. InSync'
  <2>1. Parsed = FrameEnd(Len(delivered)) /\ Parsed' = Parsed + DescLen
    BY <1>4, <1>5 DEF Inv, InSync, Parsed, ReadDescriptor
  <2>2. FrameEnd(Len(delivered))' = FrameEnd(Len(delivered))
    BY DEF FrameEnd, ReadDescriptor
  <2>3. Len(recv_data') <= got'
    BY <1>4, <1>5 DEF Inv, InSync, ReadDescriptor
  <2>4. \A k \in 1 .. Len(recv_data') : recv_data'[k] = stream'[Parsed' + k]
    <3> TAKE k \in 1 .. Len(recv_data')
    <3>1. k \in 1 .. Len(recv_data) - DescLen /\ DescLen + k \in 1 .. Len(recv_data)
      BY <1>4, <1>5
    <3>2. recv_data'[k] = stream[Parsed + (DescLen + k)]
      BY <1>5, <3>1 DEF Inv, InSync
    <3>3. Parsed + (DescLen + k) = Parsed' + k
      BY <1>4, <2>1, <3>1
    <3>4. QED
      BY <3>2, <3>3 DEF ReadDescriptor
  <2>5. /\ recv_end' = Len(sent[Len(delivered) + 1]) /\ recv_end' # 0
        /\ recv_cache' = <<>> /\ sent' = sent /\ delivered' = delivered
    BY <1>1, <1>3 DEF ReadDescriptor
  <2>6. Parsed' = FrameEnd(Len(delivered))' + DescLen + Len(recv_cache')
    BY <1>4, <2>1, <2>2, <2>5
  <2>7. QED
    BY <1>1, <1>3, <2>3, <2>4, <2>5, <2>6 DEF InSync
<1>9. OnlySentMessages' /\ RecvWhenExhausted'
  BY DEF Inv, OnlySentMessages, RecvWhenExhausted, EndAfterAllMessages, ReadDescriptor, InHandler
<1>10. QED
  BY <1>6, <1>7, <1>8, <1>9 DEF Inv

\* Bytes that belong to the message under way are appended to recv_cache.
LEMMA CopyKeeps ==
  ASSUME Inv, recv_end # 0, InHandler,
         NEW c \in 0 .. Len(recv_data), c <= BytesNeeded,
         recv_cache' = recv_cache \o SubSeq(recv_data, 0 + 1, c),
         recv_data' = Rest(recv_data, c),
         UNCHANGED <<network, sender, recv_end, mysocket, pc, eof, delivered, nomem, connections>>
  PROVE  Inv'
<1> USE DEF network, sender
<1> DEFINE n == Len(delivered) + 1
<1>1. Len(delivered) < Len(sent) /\ recv_end = Len(sent[n])
  BY DEF Inv, InSync
<1>2. /\ sent[n] \in Messages
      /\ FrameEnd(Len(delivered)) \in Nat
      /\ \A k \in 1 .. DescLen + Len(sent[n]) :
           FrameEnd(Len(delivered)) + k <= Len(stream) =>
             stream[FrameEnd(Len(delivered)) + k] = Frame(sent[n])[k]
  BY <1>1, Underway
<1>3. /\ Len(sent[n]) \in 1 .. MaxLength
      /\ \A k \in 1 .. Len(sent[n]) : Frame(sent[n])[DescLen + k] = sent[n][k]
  BY <1>2, FrameOf
<1>4. /\ Len(recv_data) \in Nat /\ Len(recv_cache) \in Nat /\ got \in Nat
      /\ Len(stream) \in Nat /\ got <= Len(stream) /\ Len(recv_data) <= got
      /\ recv_cache \in Seq(Byte) /\ recv_data \in Seq(Byte)
  BY LenProperties DEF Inv, TypeOK, InSync
<1>5. Len(recv_cache) + c <= recv_end
  BY <1>1, <1>3, <1>4 DEF BytesNeeded
<1>6. Parsed = FrameEnd(Len(delivered)) + DescLen + Len(recv_cache)
  BY DEF Inv, InSync
<1> DEFINE d == SubSeq(recv_data, 0 + 1, c)
<1>7. d \in Seq(Byte) /\ Len(d) = c /\ \A k \in 1 .. c : d[k] = recv_data[k]
  BY <1>4, Stretch
<1> HIDE DEF d
<1>8. /\ recv_cache' \in Seq(Byte)
      /\ Len(recv_cache') = Len(recv_cache) + c
      /\ \A k \in 1 .. Len(recv_cache) : recv_cache'[k] = recv_cache[k]
      /\ \A k \in 1 .. c : recv_cache'[Len(recv_cache) + k] = recv_data[k]
  <2>1. recv_cache' = recv_cache \o d
    BY DEF d
  <2>2. /\ recv_cache \o d \in Seq(Byte)
        /\ Len(recv_cache \o d) = Len(recv_cache) + Len(d)
        /\ \A k \in 1 .. Len(recv_cache) : (recv_cache \o d)[k] = recv_cache[k]
        /\ \A k \in 1 .. Len(d) : (recv_cache \o d)[Len(recv_cache) + k] = d[k]
    <3>1. recv_cache \in Seq(Byte) /\ d \in Seq(Byte)
      BY <1>4, <1>7
    <3>2. QED
      BY <3>1, Joined
  <2>3. QED
    BY <1>7, <2>1, <2>2
<1>9. /\ recv_data' \in Seq(Byte)
      /\ Len(recv_data') = Len(recv_data) - c
      /\ \A k \in 1 .. Len(recv_data) - c : recv_data'[k] = recv_data[c + k]
  <2>1. /\ Rest(recv_data, c) \in Seq(Byte)
        /\ Len(Rest(recv_data, c)) = Len(recv_data) - c
        /\ \A k \in 1 .. Len(recv_data) - c : Rest(recv_data, c)[k] = recv_data[c + k]
    BY <1>4, RestOf
  <2>2. QED
    BY <2>1
<1>10. TypeOK'
  BY <1>8, <1>9 DEF Inv, TypeOK
<1>11. Layout'
  BY LayoutStays DEF Inv
<1>12. \A k \in 1 .. Len(recv_data) : recv_data[k] = stream[Parsed + k]
  BY DEF Inv, InSync
<1>13. \A k \in 1 .. c : recv_data[k] = sent[n][Len(recv_cache) + k]
  <2> TAKE k \in 1 .. c
  <2> DEFINE j == DescLen + (Len(recv_cache) + k)
  <2>0. k \in Nat /\ k >= 1 /\ k <= c /\ c <= Len(recv_data) /\ c \in Nat
    BY <1>4
  <2>1. Len(recv_cache) + k \in 1 .. Len(sent[n]) /\ k \in 1 .. Len(recv_data)
    <3>1. Len(recv_cache) + k <= recv_end
      BY <1>4, <1>5, <2>0 DEF Inv, TypeOK
    <3>2. Len(recv_cache) + k \in Nat /\ Len(recv_cache) + k >= 1
      BY <1>4, <2>0
    <3>3. Len(recv_cache) + k \in 1 .. Len(sent[n])
      BY <1>1, <1>3, <3>1, <3>2
    <3>4. k \in 1 .. Len(recv_data)
      BY <1>4, <2>0
    <3>5. QED
      BY <3>3, <3>4
  <2>2. Parsed + k = FrameEnd(Len(delivered)) + j
    BY <1>2, <1>4, <1>6
  <2>3. Parsed + k <= Len(stream)
    BY <1>4, <2>1 DEF Parsed
  <2>4. j \in 1 .. DescLen + Len(sent[n])
    BY <1>3, <1>4, <2>1
  <2>5. stream[Parsed + k] = Frame(sent[n])[j]
    BY <1>2, <2>2, <2>3, <2>4
  <2>6. QED
    BY <1>3, <1>12, <2>1, <2>5
<1>14. \A k \in 1 .. Len(recv_cache') : recv_cache'[k] = sent[n][k]
  <2> TAKE k \in 1 .. Len(recv_cache')
  <2>1. CASE k <= Len(recv_cache)
    BY <1>4, <1>8, <2>1 DEF Inv, InSync
  <2>2. CASE k > Len(recv_cache)
    <3>1. k - Len(recv_cache) \in 1 .. c /\ k = Len(recv_cache) + (k - Len(recv_cache))
      BY <1>4, <1>8, <2>2
    <3>2. QED
      BY <1>8, <1>13, <3>1
  <2>3. QED
    BY <1>4, <1>8, <2>1, <2>2
<1>15. \A k \in 1 .. Len(recv_data') : recv_data'[k] = stream[Parsed + c + k]
  <2> TAKE k \in 1 .. Len(recv_data')
  <2>1. c + k \in 1 .. Len(recv_data) /\ k \in 1 .. Len(recv_data) - c
    BY <1>4, <1>9
  <2>2. recv_data'[k] = stream[Parsed + (c + k)]
    BY <1>9, <1>12, <2>1
  <2>3. Parsed + (c + k) = Parsed + c + k
    BY <1>2, <1>4, <1>6, <2>1
  <2>4. QED
    BY <2>2, <2>3
<1>16. InSync'
  <2>1. Parsed' = Parsed + c
    BY <1>4, <1>9 DEF Parsed
  <2>2. FrameEnd(Len(delivered))' = FrameEnd(Len(delivered))
    BY DEF FrameEnd
  <2>3. Parsed' = FrameEnd(Len(delivered))' + DescLen + Len(recv_cache')
    BY <1>2, <1>4, <1>6, <1>8, <2>1, <2>2
  <2>4. Len(recv_data') <= got' /\ Len(recv_cache') <= recv_end'
    BY <1>4, <1>5, <1>8, <1>9
  <2>5. QED
    BY <1>1, <1>14, <1>15, <2>1, <2>3, <2>4 DEF InSync
<1>17. OnlySentMessages' /\ RecvWhenExhausted'
  BY DEF Inv, OnlySentMessages, RecvWhenExhausted, EndAfterAllMessages, InHandler
<1>18. QED
  BY <1>10, <1>11, <1>16, <1>17 DEF Inv

\* CopyAll takes no byte of the message after.
LEMMA CopyAllKeeps ==
  ASSUME Inv, CopyAll PROVE Inv'
<1>1. recv_data \in Seq(Byte) /\ Len(recv_data) \in Nat
  BY LenProperties DEF Inv, TypeOK
<1>2. SubSeq(recv_data, 0 + 1, Len(recv_data)) = recv_data
  BY <1>1, SubSeqFull
<1>3. Rest(recv_data, Len(recv_data)) = <<>>
  BY <1>1, SubSeqEmpty DEF Rest
<1>4. Len(recv_data) <= BytesNeeded
  BY DEF CopyAll, BytesNeeded, Inv, TypeOK
<1>5. QED
  BY <1>1, <1>2, <1>3, <1>4, CopyKeeps DEF CopyAll

\* CopyNeeded takes what the message needs.
LEMMA CopyNeededKeeps ==
  ASSUME Inv, CopyNeeded PROVE Inv'
<1>1. Len(recv_data) \in Nat /\ Len(recv_cache) \in Nat /\ Len(recv_cache) <= recv_end
  BY LenProperties DEF Inv, TypeOK, InSync, CopyNeeded
<1>2. BytesNeeded \in 0 .. Len(recv_data)
  BY <1>1 DEF CopyNeeded, BytesNeeded, Inv, TypeOK
<1>3. QED
  BY <1>2, CopyKeeps DEF CopyNeeded

\* A complete recv_cache is the message under way.
LEMMA ChunkIsMessage ==
  ASSUME Inv, recv_end # 0, BytesNeeded = 0
  PROVE  /\ Len(delivered) < Len(sent)
         /\ recv_cache = sent[Len(delivered) + 1]
<1>1. /\ Len(delivered) < Len(sent) /\ recv_end = Len(sent[Len(delivered) + 1])
      /\ \A k \in 1 .. Len(recv_cache) : recv_cache[k] = sent[Len(delivered) + 1][k]
  BY DEF Inv, InSync
<1>2. sent[Len(delivered) + 1] \in Messages
  BY <1>1, Underway
<1>3. sent[Len(delivered) + 1] \in Seq(Byte)
  BY <1>2, FrameOf
<1>4. recv_cache \in Seq(Byte) /\ Len(recv_cache) \in Nat /\ recv_end \in Nat
  BY LenProperties DEF Inv, TypeOK
<1>5. Len(recv_cache) = Len(sent[Len(delivered) + 1])
  BY <1>1, <1>4 DEF BytesNeeded
<1>6. QED
  BY <1>1, <1>3, <1>4, <1>5, SeqEqual

\* The message returned is the next one sent.
LEMMA ReturnChunkKeeps ==
  ASSUME Inv, ReturnChunk PROVE Inv'
<1> USE DEF network, sender
<1> DEFINE n == Len(delivered) + 1
<1>1. Len(delivered) < Len(sent) /\ recv_cache = sent[n]
  BY ChunkIsMessage DEF ReturnChunk
<1>2. /\ n \in 1 .. Len(sent) /\ sent[n] \in Messages /\ FrameEnd(Len(delivered)) \in Nat
      /\ FrameEnd(n) = FrameEnd(Len(delivered)) + DescLen + Len(sent[n])
  BY <1>1, Underway
<1>3. delivered \in Seq(Messages) /\ Len(delivered) \in Nat
  BY LenProperties DEF Inv, TypeOK
<1>4. /\ delivered' \in Seq(Messages)
      /\ Len(delivered') = n
      /\ delivered'[n] = sent[n]
      /\ \A i \in 1 .. Len(delivered) : delivered'[i] = delivered[i]
  BY <1>1, <1>2, <1>3, AppendProperties DEF ReturnChunk
<1>5. TypeOK'
  BY <1>4 DEF Inv, TypeOK, ReturnChunk
<1>6. Layout'
  BY LayoutStays DEF Inv, ReturnChunk
<1>7. InSync'
  <2>1. Parsed' = Parsed /\ Parsed = FrameEnd(Len(delivered)) + DescLen + Len(recv_cache)
    BY DEF Inv, InSync, Parsed, ReturnChunk
  <2>2. Parsed = FrameEnd(n)
    BY <1>1, <1>2, <2>1
  <2>3. FrameEnd(Len(delivered))' = FrameEnd(n)
    BY <1>4 DEF FrameEnd, ReturnChunk
  <2>4. recv_end' = 0 /\ recv_cache' = <<>> /\ Parsed' = FrameEnd(Len(delivered))'
    BY <2>1, <2>2, <2>3 DEF ReturnChunk
  <2>5. /\ Len(recv_data') <= got'
        /\ \A k \in 1 .. Len(recv_data') : recv_data'[k] = stream'[Parsed' + k]
    BY <2>1 DEF Inv, InSync, ReturnChunk
  <2>6. QED
    BY <2>4, <2>5 DEF InSync
<1>8. OnlySentMessages'
  <2>1. Len(delivered') <= Len(sent')
    BY <1>2, <1>4 DEF ReturnChunk
  <2>2. \A i \in 1 .. Len(delivered') : delivered'[i] = sent'[i]
    BY <1>3, <1>4 DEF Inv, OnlySentMessages, ReturnChunk
  <2>3. QED
    BY <2>1, <2>2 DEF OnlySentMessages
<1>9. RecvWhenExhausted'
  BY DEF Inv, RecvWhenExhausted, EndAfterAllMessages, ReturnChunk, InHandler
<1>10. QED
  BY <1>5, <1>6, <1>7, <1>8, <1>9 DEF Inv

\* recv appends the next bytes of the stream to the IN-STREAM.
LEMMA RecvKeeps ==
  ASSUME Inv, NEW c \in 1 .. MaxRecv, Recv(c) PROVE Inv'
<1> USE DEF sender
<1>1. /\ recv_data \in Seq(Byte) /\ stream \in Seq(Byte)
      /\ Len(recv_data) \in Nat /\ got \in Nat /\ Len(stream) \in Nat
      /\ got + c <= Len(stream) /\ c \in Nat /\ Len(recv_data) <= got
  BY LenProperties DEF Inv, TypeOK, InSync, Recv
<1> DEFINE d == SubSeq(stream, got + 1, got + c)
<1>2. d \in Seq(Byte) /\ Len(d) = c /\ \A k \in 1 .. c : d[k] = stream[got + k]
  <2>1. /\ SubSeq(stream, got + 1, got + c) \in Seq(Byte)
        /\ Len(SubSeq(stream, got + 1, got + c)) = (got + c) - got
        /\ \A k \in 1 .. (got + c) - got : SubSeq(stream, got + 1, got + c)[k] = stream[got + k]
    BY <1>1, Stretch
  <2>2. (got + c) - got = c
    BY <1>1
  <2>3. QED
    BY <2>1, <2>2
<1> HIDE DEF d
<1>3. /\ recv_data' \in Seq(Byte)
      /\ Len(recv_data') = Len(recv_data) + c
      /\ \A k \in 1 .. Len(recv_data) : recv_data'[k] = recv_data[k]
      /\ \A k \in 1 .. c : recv_data'[Len(recv_data) + k] = stream[got + k]
  <2>1. recv_data' = recv_data \o d
    BY DEF Recv, d
  <2>2. /\ recv_data \o d \in Seq(Byte)
        /\ Len(recv_data \o d) = Len(recv_data) + Len(d)
        /\ \A k \in 1 .. Len(recv_data) : (recv_data \o d)[k] = recv_data[k]
        /\ \A k \in 1 .. Len(d) : (recv_data \o d)[Len(recv_data) + k] = d[k]
    <3>1. recv_data \in Seq(Byte) /\ d \in Seq(Byte)
      BY <1>1, <1>2
    <3>2. QED
      BY <3>1, Joined
  <2>3. QED
    BY <1>2, <2>1, <2>2
<1>4. TypeOK'
  <2>1. got' \in 0 .. Len(stream')
    BY <1>1 DEF Recv
  <2>2. QED
    BY <1>3, <2>1 DEF Inv, TypeOK, Recv
<1>5. Layout'
  BY LayoutStays DEF Inv, Recv
<1>6. InSync'
  <2>1. Parsed' = Parsed
    BY <1>1, <1>3 DEF Parsed, Recv
  <2>2. Len(recv_data') <= got'
    BY <1>1, <1>3 DEF Recv
  <2>3. \A k \in 1 .. Len(recv_data') : recv_data'[k] = stream[Parsed + k]
    <3> TAKE k \in 1 .. Len(recv_data')
    <3>1. CASE k <= Len(recv_data)
      BY <1>1, <1>3, <3>1 DEF Inv, InSync
    <3>2. CASE k > Len(recv_data)
      <4>1. k - Len(recv_data) \in 1 .. c /\ k = Len(recv_data) + (k - Len(recv_data))
        BY <1>1, <1>3, <3>2
      <4>2. recv_data'[k] = stream[got + (k - Len(recv_data))]
        BY <1>3, <4>1
      <4>3. got + (k - Len(recv_data)) = Parsed + k
        BY <1>1, <4>1 DEF Parsed
      <4>4. QED
        BY <4>2, <4>3
    <3>3. QED
      BY <1>1, <1>3, <3>1, <3>2
  <2>4. FrameEnd(Len(delivered))' = FrameEnd(Len(delivered))
    BY DEF FrameEnd, Recv
  <2>5. QED
    BY <2>1, <2>2, <2>3, <2>4 DEF Inv, InSync, Recv
<1>7. OnlySentMessages' /\ RecvWhenExhausted'
  BY DEF Inv, OnlySentMessages, RecvWhenExhausted, EndAfterAllMessages, Recv
<1>8. QED
  BY <1>4, <1>5, <1>6, <1>7 DEF Inv

\* Another message is written, or as much of it as goes out before the end.
LEMMA WriteKeeps ==
  ASSUME Inv, ~fin, NEW m \in Messages, NEW c \in 0 .. DescLen + Len(m),
         sent' = Append(sent, m),
         stream' = stream \o SubSeq(Frame(m), 0 + 1, c),
         ends' = Append(ends, Len(stream) + DescLen + Len(m)),
         cut' \in BOOLEAN, fin' \in BOOLEAN,
         \/ c = DescLen + Len(m) /\ ~cut'
         \/ c < DescLen + Len(m) /\ cut' /\ fin',
         UNCHANGED <<got, broken, receiver, mysocket, pc, eof, delivered, nomem, connections>>
  PROVE  Inv'
<1> USE DEF receiver
<1>1. Len(m) \in 1 .. MaxLength /\ Frame(m) \in Seq(Byte) /\ Len(Frame(m)) = DescLen + Len(m)
  BY FrameOf
<1>2. /\ sent \in Seq(Messages) /\ stream \in Seq(Byte) /\ ends \in Seq(Nat)
      /\ Len(sent) \in Nat /\ Len(stream) \in Nat /\ Len(ends) = Len(sent)
      /\ Len(delivered) \in Nat /\ Len(delivered) <= Len(sent) /\ got \in Nat /\ got <= Len(stream)
      /\ Len(recv_data) \in Nat /\ Len(recv_data) <= got
  BY LenProperties DEF Inv, TypeOK, Layout, OnlySentMessages, InSync
<1>3. ~cut /\ Len(stream) = FrameEnd(Len(sent)) /\ ~eof
  BY DEF Inv, Layout, RecvWhenExhausted
<1> DEFINE d == SubSeq(Frame(m), 0 + 1, c)
<1>4. d \in Seq(Byte) /\ Len(d) = c /\ \A k \in 1 .. c : d[k] = Frame(m)[k]
  BY <1>1, Stretch
<1> HIDE DEF d
<1>5. /\ stream' \in Seq(Byte)
      /\ Len(stream') = Len(stream) + c
      /\ \A k \in 1 .. Len(stream) : stream'[k] = stream[k]
      /\ \A k \in 1 .. c : stream'[Len(stream) + k] = Frame(m)[k]
  <2>1. stream' = stream \o d
    BY DEF d
  <2>2. /\ stream \o d \in Seq(Byte)
        /\ Len(stream \o d) = Len(stream) + Len(d)
        /\ \A k \in 1 .. Len(stream) : (stream \o d)[k] = stream[k]
        /\ \A k \in 1 .. Len(d) : (stream \o d)[Len(stream) + k] = d[k]
    <3>1. stream \in Seq(Byte) /\ d \in Seq(Byte)
      BY <1>2, <1>4
    <3>2. QED
      BY <3>1, Joined
  <2>3. QED
    BY <1>4, <2>1, <2>2
<1>6. /\ sent' \in Seq(Messages) /\ Len(sent') = Len(sent) + 1
      /\ sent'[Len(sent) + 1] = m /\ \A i \in 1 .. Len(sent) : sent'[i] = sent[i]
  BY <1>2, AppendProperties
<1>7. /\ ends' \in Seq(Nat) /\ Len(ends') = Len(sent) + 1
      /\ ends'[Len(sent) + 1] = Len(stream) + DescLen + Len(m)
      /\ \A i \in 1 .. Len(sent) : ends'[i] = ends[i]
  <2>1. Len(stream) + DescLen + Len(m) \in Nat
    BY <1>1, <1>2
  <2>2. QED
    BY <1>2, <2>1, AppendProperties
<1>8. \A i \in 0 .. Len(sent) : FrameEnd(i)' = FrameEnd(i)
  BY <1>2, <1>7 DEF FrameEnd
<1>9. Len(sent) \in Nat /\ Len(sent') = Len(sent) + 1 /\ Len(m) \in Nat
  BY <1>1, <1>2, <1>6
<1>10. TypeOK'
  <2>1. got' \in 0 .. Len(stream')
    BY <1>2, <1>5
  <2>2. QED
    BY <1>5, <1>6, <1>7, <2>1 DEF Inv, TypeOK
<1>11. Layout'
  <2>1. \A i \in 1 .. Len(sent') : /\ ends'[i] = FrameEnd(i - 1)' + DescLen + Len(sent'[i])
                                   /\ FrameEnd(i - 1)' <= Len(stream')
    <3> TAKE i \in 1 .. Len(sent')
    <3>1. CASE i = Len(sent) + 1
      <4>1. i - 1 = Len(sent) /\ FrameEnd(i - 1)' = FrameEnd(Len(sent))
        BY <1>2, <1>8, <3>1
      <4>2. ends'[i] = Len(stream) + DescLen + Len(m) /\ sent'[i] = m
        BY <1>6, <1>7, <3>1
      <4>3. Len(stream) <= Len(stream')
        BY <1>2, <1>5
      <4>4. QED
        BY <1>3, <4>1, <4>2, <4>3
    <3>2. CASE i \in 1 .. Len(sent)
      <4>1. FrameEnd(i - 1)' = FrameEnd(i - 1)
        BY <1>2, <1>8, <3>2
      <4>2. ends[i] = FrameEnd(i - 1) + DescLen + Len(sent[i]) /\ FrameEnd(i - 1) <= Len(stream)
        BY <3>2 DEF Inv, Layout
      <4>3. i - 1 \in 0 .. Len(sent)
        BY <1>9, <3>2
      <4>4. FrameEnd(i - 1) \in Nat
        BY <4>3, FrameEndNat DEF Inv
      <4>5. FrameEnd(i - 1) <= Len(stream')
        BY <1>2, <1>5, <4>2, <4>4
      <4>6. ends'[i] = ends[i] /\ sent'[i] = sent[i]
        BY <1>6, <1>7, <3>2
      <4>7. QED
        BY <4>1, <4>2, <4>5, <4>6
    <3>3. i = Len(sent) + 1 \/ i \in 1 .. Len(sent)
      BY <1>9
    <3>4. QED
      BY <3>1, <3>2, <3>3
  <2>2. ASSUME NEW i \in 1 .. Len(sent'), NEW k \in 1 .. DescLen + Len(sent'[i]),
               FrameEnd(i - 1)' + k <= Len(stream')
        PROVE  stream'[FrameEnd(i - 1)' + k] = Frame(sent'[i])[k]
    <3>1. CASE i = Len(sent) + 1
      <4>1. i - 1 = Len(sent) /\ FrameEnd(i - 1)' = Len(stream) /\ sent'[i] = m
        BY <1>2, <1>3, <1>6, <1>8, <3>1
      <4>2. k \in 1 .. c
        BY <1>2, <1>5, <2>2, <4>1
      <4>3. QED
        BY <1>5, <4>1, <4>2
    <3>2. CASE i \in 1 .. Len(sent)
      <4>0. i - 1 \in 0 .. Len(sent)
        BY <1>9, <3>2
      <4>1. FrameEnd(i - 1)' = FrameEnd(i - 1) /\ sent'[i] = sent[i] /\ FrameEnd(i - 1) \in Nat
        BY <1>6, <1>8, <3>2, <4>0, FrameEndNat DEF Inv
      <4>2. FrameEnd(i - 1) + k <= Len(stream)
        <5>1. FrameEnd(i) = FrameEnd(i - 1) + DescLen + Len(sent[i])
          BY <3>2, <1>2 DEF Inv, Layout, FrameEnd
        <5>2. FrameEnd(i) <= Len(stream)
          <6>1. CASE i = Len(sent)
            BY <1>2, <1>3, <6>1
          <6>2. CASE i < Len(sent)
            <7>1. i + 1 \in 1 .. Len(sent) /\ (i + 1) - 1 = i
              BY <1>2, <3>2, <6>2
            <7>2. QED
              BY <7>1 DEF Inv, Layout
          <6>3. QED
            BY <1>2, <3>2, <6>1, <6>2
        <5>3. sent[i] \in Messages
          BY <1>2, <3>2, ElementOfSeq
        <5>4. Len(sent[i]) \in Nat
          BY <5>3, FrameOf
        <5>5. k \in Nat /\ k <= DescLen + Len(sent[i])
          BY <2>2, <4>1, <5>4
        <5>6. DescLen + Len(sent[i]) \in Nat
          BY <5>4
        <5> DEFINE f == FrameEnd(i - 1)
                   l == DescLen + Len(sent[i])
        <5>7. f \in Nat /\ l \in Nat /\ k \in Nat /\ Len(stream) \in Nat /\ k <= l
          BY <1>2, <4>1, <5>5, <5>6
        <5>8. f + l <= Len(stream)
          BY <4>1, <5>1, <5>2, <5>4
        <5> HIDE DEF f, l
        <5>9. f + k <= Len(stream)
          BY <5>7, <5>8
        <5>10. QED
          BY <5>9 DEF f
      <4>3. k \in 1 .. DescLen + Len(sent[i])
        BY <2>2, <4>1
      <4>4. stream[FrameEnd(i - 1) + k] = Frame(sent[i])[k]
        BY <3>2, <4>2, <4>3 DEF Inv, Layout
      <4>5. FrameEnd(i - 1) + k \in 1 .. Len(stream)
        <5>1. k \in Nat /\ k >= 1
          OBVIOUS
        <5>2. Len(stream) \in Nat /\ FrameEnd(i - 1) \in Nat
          BY <1>2, <4>1
        <5>3. QED
          BY <4>2, <5>1, <5>2
      <4>6. QED
        BY <1>5, <4>1, <4>4, <4>5
    <3>3. i = Len(sent) + 1 \/ i \in 1 .. Len(sent)
      BY <1>9
    <3>4. QED
      BY <3>1, <3>2, <3>3
  <2>4. Len(ends') = Len(sent') /\ sent' # <<>>
    BY <1>2, <1>6, <1>7
  <2>5. IF cut' THEN fin' /\ sent' # <<>> /\ Len(stream') < ends'[Len(sent) + 1]
                ELSE Len(stream') = ends'[Len(sent) + 1]
    <3>1. CASE c = DescLen + Len(m) /\ ~cut'
      <4>1. Len(stream') = ends'[Len(sent) + 1]
        BY <1>2, <1>5, <1>7, <1>9, <3>1
      <4>2. QED
        BY <3>1, <4>1
    <3>2. CASE c < DescLen + Len(m) /\ cut' /\ fin'
      <4>1. Len(stream') < ends'[Len(sent) + 1]
        BY <1>2, <1>5, <1>7, <1>9, <3>2
      <4>2. QED
        BY <2>4, <3>2, <4>1
    <3>3. QED
      BY <3>1, <3>2
  <2>6. FrameEnd(Len(sent))' = ends'[Len(sent) + 1]
    BY <1>2, <1>6 DEF FrameEnd
  <2>7. QED
    BY <2>1, <2>2, <2>4, <2>5, <2>6 DEF Layout
<1>12. InSync'
  <2>1. Parsed' = Parsed /\ Parsed + Len(recv_data) = got /\ Parsed \in Nat
    BY <1>2 DEF Parsed
  <2>2. FrameEnd(Len(delivered))' = FrameEnd(Len(delivered))
    BY <1>2, <1>8
  <2>3. \A k \in 1 .. Len(recv_data) : recv_data[k] = stream'[Parsed + k]
    <3> TAKE k \in 1 .. Len(recv_data)
    <3>1. Parsed + k \in 1 .. Len(stream)
      BY <1>2, <2>1
    <3>2. QED
      BY <1>5, <3>1 DEF Inv, InSync
  <2>4. Len(delivered) < Len(sent) => sent'[Len(delivered) + 1] = sent[Len(delivered) + 1]
    <3>1. Len(delivered) < Len(sent) => Len(delivered) + 1 \in 1 .. Len(sent)
      BY <1>2
    <3>2. QED
      BY <1>6, <3>1
  <2>5. Len(delivered) < Len(sent) => Len(delivered) < Len(sent')
    BY <1>2, <1>6
  <2>6. QED
    BY <2>1, <2>2, <2>3, <2>4, <2>5 DEF Inv, InSync
<1>13. OnlySentMessages'
  BY <1>2, <1>6 DEF Inv, OnlySentMessages
<1>14. RecvWhenExhausted'
  BY <1>3 DEF Inv, RecvWhenExhausted, EndAfterAllMessages, Exhausted, BytesNeeded
<1>15. QED
  BY <1>10, <1>11, <1>12, <1>13, <1>14 DEF Inv

\* mod_send writes a whole frame.
LEMMA ModSendKeeps ==
  ASSUME Inv, NEW m \in Messages, mod_send(m) PROVE Inv'
<1>1. Frame(m) \in Seq(Byte) /\ Len(Frame(m)) = DescLen + Len(m) /\ Len(m) \in Nat
  BY FrameOf
<1>2. SubSeq(Frame(m), 0 + 1, DescLen + Len(m)) = Frame(m)
  BY <1>1, SubSeqFull
<1>3. DescLen + Len(m) \in 0 .. DescLen + Len(m)
  BY <1>1
<1>4. cut' = cut /\ fin' = fin /\ ~cut /\ cut \in BOOLEAN /\ fin \in BOOLEAN
  BY DEF mod_send, Inv, Layout, TypeOK
<1>5. /\ ~fin /\ sent' = Append(sent, m)
      /\ stream' = stream \o SubSeq(Frame(m), 0 + 1, DescLen + Len(m))
      /\ ends' = Append(ends, Len(stream) + DescLen + Len(m))
      /\ UNCHANGED <<got, broken, receiver, mysocket, pc, eof, delivered, nomem, connections>>
  BY <1>2 DEF mod_send
<1>6. QED
  BY <1>3, <1>4, <1>5, WriteKeeps

\* A send cut short writes a proper part of a frame.
LEMMA SendCutShortKeeps ==
  ASSUME Inv, NEW m \in Messages, NEW k \in 0 .. DescLen + Len(m) - 1, SendCutShort(m, k)
  PROVE  Inv'
<1>1. Len(m) \in Nat
  BY FrameOf
<1>2. k \in 0 .. DescLen + Len(m) /\ k < DescLen + Len(m)
  BY <1>1
<1>3. /\ ~fin /\ sent' = Append(sent, m)
      /\ stream' = stream \o SubSeq(Frame(m), 0 + 1, k)
      /\ ends' = Append(ends, Len(stream) + DescLen + Len(m))
      /\ UNCHANGED <<got, broken, receiver, mysocket, pc, eof, delivered, nomem, connections>>
      /\ cut' = TRUE /\ fin' = TRUE
  BY DEF SendCutShort
<1>4. QED
  BY <1>2, <1>3, WriteKeeps

\* When recv returns 0 with nothing left to handle, every whole message was returned.
LEMMA AllDelivered ==
  ASSUME Inv, Exhausted, got = Len(stream)
  PROVE  Len(delivered) = Len(sent) - (IF cut THEN 1 ELSE 0)
<1>1. /\ Len(sent) \in Nat /\ Len(stream) \in Nat /\ Len(delivered) \in Nat
      /\ Len(recv_data) \in Nat /\ Len(recv_cache) \in Nat
      /\ Len(delivered) <= Len(sent) /\ recv_end \in Nat
  BY LenProperties DEF Inv, TypeOK, OnlySentMessages
<1>2. CASE Len(delivered) = Len(sent)
  <2>1. recv_end = 0 /\ Parsed = FrameEnd(Len(sent)) /\ FrameEnd(Len(sent)) \in Nat
    BY <1>1, <1>2, FrameEndNat DEF Inv, InSync
  <2>2. ~(Len(stream) < FrameEnd(Len(sent)))
    BY <1>1, <2>1 DEF Parsed
  <2>3. ~cut
    BY <2>2 DEF Inv, Layout
  <2>4. QED
    BY <1>1, <1>2, <2>3
<1>3. CASE Len(delivered) < Len(sent)
  <2> DEFINE n == Len(delivered) + 1
  <2>1. /\ n \in 1 .. Len(sent) /\ sent[n] \in Messages /\ FrameEnd(n - 1) \in Nat
        /\ FrameEnd(n) = FrameEnd(n - 1) + DescLen + Len(sent[n])
    BY <1>1, <1>3, Underway
  <2>2. Len(sent[n]) \in 1 .. MaxLength
    BY <2>1, FrameOf
  <2>3. Len(stream) < FrameEnd(n)
    <3>1. CASE recv_end = 0
      <4>1. Parsed = FrameEnd(n - 1) /\ Len(recv_data) < DescLen
        BY <1>1, <3>1 DEF Inv, InSync, Exhausted
      <4>2. Len(stream) = FrameEnd(n - 1) + Len(recv_data)
        BY <1>1, <2>1, <4>1 DEF Parsed
      <4>3. Len(recv_data) < DescLen + Len(sent[n])
        BY <1>1, <2>2, <4>1
      <4>4. QED
        BY <1>1, <2>1, <2>2, <4>2, <4>3
    <3>2. CASE recv_end # 0
      <4>1. /\ Parsed = FrameEnd(n - 1) + DescLen + Len(recv_cache)
            /\ Len(recv_cache) <= recv_end /\ recv_end = Len(sent[n])
            /\ BytesNeeded # 0 /\ Len(recv_data) = 0
        BY <1>1, <3>2 DEF Inv, InSync, Exhausted
      <4>2. Len(recv_cache) < Len(sent[n])
        BY <1>1, <4>1 DEF BytesNeeded
      <4>3. Parsed = Len(stream)
        BY <1>1, <4>1 DEF Parsed
      <4>4. QED
        BY <1>1, <2>1, <2>2, <4>1, <4>2, <4>3
    <3>3. QED
      BY <3>1, <3>2
  <2>4. n = Len(sent)
    <3>1. CASE n < Len(sent)
      <4>1. n + 1 \in 1 .. Len(sent) /\ (n + 1) - 1 = n
        BY <1>1, <3>1
      <4>2. FrameEnd(n) <= Len(stream)
        BY <4>1 DEF Inv, Layout
      <4>3. FrameEnd(n) \in Nat
        BY <2>1, <2>2
      <4>4. QED
        BY <1>1, <2>3, <4>2, <4>3
    <3>2. QED
      BY <1>1, <2>1, <3>1
  <2>5. cut
    BY <1>1, <2>1, <2>2, <2>3, <2>4 DEF Inv, Layout
  <2>6. QED
    BY <1>1, <2>4, <2>5
<1>4. QED
  BY <1>1, <1>2, <1>3

\* Steps that touch no byte and no message.
LEMMA QuietKeeps ==
  ASSUME Inv, TypeOK', fin => fin', RecvWhenExhausted',
         UNCHANGED <<stream, got, sender, receiver, delivered>>
  PROVE  Inv'
<1> USE DEF sender, receiver
<1>1. Layout'
  BY LayoutStays DEF Inv
<1>2. InSync'
  BY DEF Inv, InSync, Parsed, FrameEnd
<1>3. OnlySentMessages'
  BY DEF Inv, OnlySentMessages
<1>4. QED
  BY <1>1, <1>2, <1>3 DEF Inv

\* The inductive invariant holds: every step of the sender, the receiver and the failures
\* of the network and of WS2_TestMemory preserves it.
THEOREM InvHolds == Spec => []Inv
<1>1. Init => Inv
  <2> SUFFICES ASSUME Init PROVE Inv
    OBVIOUS
  <2>1. TypeOK
    <3>1. <<>> \in Seq(Messages) /\ <<>> \in Seq(Nat) /\ <<>> \in Seq(Byte)
      BY EmptySeq
    <3>2. got \in 0 .. Len(stream) /\ recv_end \in 0 .. MaxLength
      BY DEF Init
    <3>3. nomem \in 0 .. MaxOutOfMemory /\ connections \in 1 .. MaxConnections
      BY DEF Init
    <3>4. QED
      BY <3>1, <3>2, <3>3 DEF Init, TypeOK
  <2>2. Layout
    BY DEF Init, Layout, FrameEnd
  <2>3. InSync
    <3>1. Len(<<>>) = 0 /\ Len(recv_data) = 0 /\ Len(delivered) = 0 /\ got = 0
      BY DEF Init
    <3>2. Parsed = 0 /\ FrameEnd(Len(delivered)) = 0
      BY <3>1 DEF Parsed, FrameEnd
    <3>3. QED
      BY <3>1, <3>2 DEF Init, InSync
  <2>4. OnlySentMessages /\ RecvWhenExhausted
    BY DEF Init, OnlySentMessages, RecvWhenExhausted, EndAfterAllMessages
  <2>5. QED
    BY <2>1, <2>2, <2>3, <2>4 DEF Inv
<1>2. Inv /\ [Next]_vars => Inv'
  <2> SUFFICES ASSUME Inv, [Next]_vars PROVE Inv'
    OBVIOUS
  <2> USE DEF network, sender, receiver
  <2> DEFINE Quiet == UNCHANGED <<stream, got, sender, receiver, delivered>>
  <2>1. ASSUME EnterReceiveLoop PROVE Inv'
    <3>1. TypeOK' /\ Quiet /\ fin' = fin
      BY <2>1 DEF Inv, TypeOK, EnterReceiveLoop
    <3>2. RecvWhenExhausted'
      BY <2>1 DEF Inv, RecvWhenExhausted, EndAfterAllMessages, EnterReceiveLoop
    <3>3. QED
      BY <3>1, <3>2, QuietKeeps
  <2>2. ASSUME NoChunk PROVE Inv'
    <3>1. TypeOK' /\ Quiet /\ fin' = fin
      BY <2>2 DEF Inv, TypeOK, NoChunk, AfterFailure
    <3>2. RecvWhenExhausted'
      BY <2>2 DEF Inv, RecvWhenExhausted, EndAfterAllMessages, NoChunk, InHandler, Exhausted, BytesNeeded
    <3>3. QED
      BY <3>1, <3>2, QuietKeeps
  <2>3. ASSUME OutOfMemory PROVE Inv'
    <3>1. TypeOK' /\ Quiet /\ fin' = fin
      BY <2>3 DEF Inv, TypeOK, OutOfMemory, AfterFailure
    <3>2. RecvWhenExhausted'
      BY <2>3 DEF Inv, TypeOK, RecvWhenExhausted, EndAfterAllMessages, OutOfMemory, InHandler
    <3>3. QED
      BY <3>1, <3>2, QuietKeeps
  <2>4. ASSUME RecvEnd PROVE Inv'
    <3>1. TypeOK' /\ Quiet /\ fin' = fin
      BY <2>4 DEF Inv, TypeOK, RecvEnd
    <3>2. nomem = 0 => Len(delivered) = Len(sent) - (IF cut THEN 1 ELSE 0)
      BY <2>4, AllDelivered DEF Inv, RecvWhenExhausted, RecvEnd
    <3>3. RecvWhenExhausted'
      BY <2>4, <3>2 DEF RecvWhenExhausted, EndAfterAllMessages, RecvEnd
    <3>4. QED
      BY <3>1, <3>3, QuietKeeps
  <2>5. ASSUME RecvFails PROVE Inv'
    <3>1. TypeOK' /\ Quiet /\ fin' = fin
      BY <2>5 DEF Inv, TypeOK, RecvFails
    <3>2. RecvWhenExhausted'
      BY <2>5 DEF Inv, RecvWhenExhausted, EndAfterAllMessages, RecvFails
    <3>3. QED
      BY <3>1, <3>2, QuietKeeps
  <2>6. ASSUME PeerClose PROVE Inv'
    <3>1. TypeOK' /\ Quiet /\ fin'
      BY <2>6 DEF Inv, TypeOK, PeerClose
    <3>2. RecvWhenExhausted'
      BY <2>6 DEF Inv, RecvWhenExhausted, EndAfterAllMessages, PeerClose, Exhausted, BytesNeeded
    <3>3. QED
      BY <3>1, <3>2, QuietKeeps
  <2>7. ASSUME NEW how \in {"reset", "aborted"}, Break(how) PROVE Inv'
    <3>1. TypeOK' /\ Quiet /\ fin' = fin
      BY <2>7 DEF Inv, TypeOK, Break
    <3>2. RecvWhenExhausted'
      BY <2>7 DEF Inv, RecvWhenExhausted, EndAfterAllMessages, Break, Exhausted, BytesNeeded
    <3>3. QED
      BY <3>1, <3>2, QuietKeeps
  <2>8. ASSUME Close PROVE Inv'
    <3>1. TypeOK' /\ Quiet /\ fin' = fin
      BY <2>8 DEF Inv, TypeOK, Close
    <3>2. RecvWhenExhausted'
      BY <2>8 DEF Inv, RecvWhenExhausted, EndAfterAllMessages, Close, Exhausted, BytesNeeded
    <3>3. QED
      BY <3>1, <3>2, QuietKeeps
  <2>9. ASSUME Take PROVE Inv'
    <3>1. TypeOK'
      <4>1. <<>> \in Seq(Messages) /\ <<>> \in Seq(Nat) /\ <<>> \in Seq(Byte)
        BY EmptySeq
      <4>2. connections' \in 1 .. MaxConnections /\ nomem' \in 0 .. MaxOutOfMemory
        BY <2>9 DEF Inv, TypeOK, Take, NextConnection
      <4>3. got' \in 0 .. Len(stream') /\ recv_end' \in 0 .. MaxLength
        BY <2>9 DEF Take, NextConnection
      <4>4. QED
        BY <2>9, <4>1, <4>2, <4>3 DEF TypeOK, Take, NextConnection
    <3>2. Layout' /\ InSync'
      <4>1. Len(recv_data') = 0 /\ Len(delivered') = 0 /\ Len(sent') = 0 /\ Len(stream') = 0 /\ got' = 0
        BY <2>9 DEF Take, NextConnection
      <4>2. Parsed' = 0 /\ FrameEnd(Len(delivered))' = 0 /\ FrameEnd(Len(sent))' = 0
        BY <4>1 DEF Parsed, FrameEnd
      <4>3. InSync'
        BY <2>9, <4>1, <4>2 DEF InSync, Take, NextConnection
      <4>4. Layout'
        BY <2>9, <4>1, <4>2 DEF Layout, Take, NextConnection
      <4>5. QED
        BY <4>3, <4>4
    <3>3. OnlySentMessages' /\ RecvWhenExhausted'
      BY <2>9 DEF OnlySentMessages, RecvWhenExhausted, EndAfterAllMessages, Take, NextConnection
    <3>4. QED
      BY <3>1, <3>2, <3>3 DEF Inv
  <2>10. CASE UNCHANGED vars
    BY <2>10 DEF vars, Inv, TypeOK, Layout, InSync, Parsed, FrameEnd, OnlySentMessages,
                 RecvWhenExhausted, EndAfterAllMessages, Exhausted, BytesNeeded
  <2>11. CASE Receive
    BY <2>1, <2>2, <2>4, <2>5, <2>11, ReadDescriptorKeeps, CopyAllKeeps, CopyNeededKeeps,
       ReturnChunkKeeps, RecvKeeps DEF Receive, Handler
  <2>12. CASE Sender
    BY <2>6, <2>12, ModSendKeeps, SendCutShortKeeps DEF Sender
  <2>13. CASE Failure
    BY <2>3, <2>7, <2>8, <2>13 DEF Failure
  <2>14. QED
    BY <2>9, <2>10, <2>11, <2>12, <2>13 DEF Next
<1>3. QED
  BY <1>1, <1>2, PTL DEF Spec

-----------------------------------------------------------------------------
(* What the invariant gives. *)

\* The state of both ends is well typed: whatever the messages and the chunks are, the
\* length read from a descriptor is that of a message and the messages returned are messages.
THEOREM TypeCorrect == Spec => []TypeOK
BY InvHolds, PTL DEF Inv

\* HandleReceivedFragment never loses its place in the stream.
THEOREM ReceiverInSync == Spec => []InSync
BY InvHolds, PTL DEF Inv

\* EnterReceiveLoop returns what mod_send was given, in that order.
THEOREM NothingForeign == Spec => []OnlySentMessages
BY InvHolds, PTL DEF Inv

\* A message cut short is never returned.
THEOREM NoHalfMessage == Spec => []CutNeverDelivered
<1>1. Inv => CutNeverDelivered
  <2> SUFFICES ASSUME Inv, cut PROVE Len(delivered) < Len(sent)
    BY DEF CutNeverDelivered
  <2>1. /\ Len(sent) \in Nat /\ Len(stream) \in Nat /\ Len(delivered) \in Nat
        /\ Len(recv_data) \in Nat /\ got \in Nat /\ got <= Len(stream)
    BY LenProperties DEF Inv, TypeOK
  <2>2. Len(delivered) <= Len(sent) /\ Len(recv_data) <= got
    BY DEF Inv, OnlySentMessages, InSync
  <2>3. CASE recv_end # 0
    BY <2>3 DEF Inv, InSync
  <2>4. CASE recv_end = 0
    <3>1. Parsed = FrameEnd(Len(delivered)) /\ Len(stream) < FrameEnd(Len(sent))
      BY <2>4 DEF Inv, InSync, Layout
    <3>2. FrameEnd(Len(sent)) \in Nat
      BY <2>1, FrameEndNat DEF Inv
    <3>3. Parsed <= Len(stream)
      BY <2>1, <2>2 DEF Parsed
    <3>4. Len(delivered) # Len(sent)
      BY <2>1, <3>1, <3>2, <3>3
    <3>5. QED
      BY <2>1, <2>2, <3>4
  <2>5. QED
    BY <2>3, <2>4
<1>2. QED
  BY <1>1, InvHolds, PTL

\* When EnterReceiveLoop reports an orderly end and memory was never short, it has
\* returned every whole message before.
THEOREM EndComesLast == Spec => []EndAfterAllMessages
BY InvHolds, PTL DEF Inv, RecvWhenExhausted

\* However a connection ends, what was sent whole is returned and nothing else.
THEOREM CleanEnds == Spec => []EndsAreClean
BY NoHalfMessage, EndComesLast, PTL DEF EndsAreClean

\* The framing implements the channel of whole messages.
THEOREM ImplementsChannel == Spec => DeliversMessages
<1>1. Init => Channel!Init
  BY DEF Init, Channel!Init
<1>2. Inv /\ [Next]_vars => [Channel!Next]_<<sent, delivered>>
  <2> SUFFICES ASSUME Inv, [Next]_vars PROVE [Channel!Next]_<<sent, delivered>>
    OBVIOUS
  <2> USE DEF network, sender, receiver
  <2>1. ASSUME NEW m \in Messages, mod_send(m) PROVE Channel!Next
    BY <2>1 DEF mod_send, Channel!Next, Channel!Send
  <2>2. ASSUME NEW m \in Messages, NEW k \in 0 .. DescLen + Len(m) - 1, SendCutShort(m, k)
        PROVE  Channel!Next
    BY <2>2 DEF SendCutShort, Channel!Next, Channel!Send
  <2>3. ASSUME ReturnChunk PROVE Channel!Next
    <3>1. Len(delivered) < Len(sent) /\ recv_cache = sent[Len(delivered) + 1]
      BY <2>3, ChunkIsMessage DEF ReturnChunk
    <3>2. QED
      BY <2>3, <3>1 DEF ReturnChunk, Channel!Next, Channel!Deliver
  <2>4. CASE Take
    BY <2>4 DEF Take, NextConnection, Channel!Next, Channel!Connect
  <2>5. CASE UNCHANGED vars
    BY <2>5 DEF vars
  <2>6. CASE Receive
    BY <2>3, <2>6 DEF Receive, Handler, EnterReceiveLoop, ReadDescriptor, CopyAll, CopyNeeded,
                      NoChunk, Recv, RecvEnd, RecvFails
  <2>7. CASE Sender
    BY <2>1, <2>2, <2>7 DEF Sender, PeerClose
  <2>8. CASE Failure
    BY <2>8 DEF Failure, Break, OutOfMemory, Close
  <2>9. QED
    BY <2>4, <2>5, <2>6, <2>7, <2>8 DEF Next
<1>3. QED
  BY <1>1, <1>2, InvHolds, PTL DEF Spec, DeliversMessages, Channel!Spec
=============================================================================

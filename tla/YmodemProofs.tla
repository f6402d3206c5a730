---------------------------- MODULE YmodemProofs ----------------------------
(***************************************************************************)
(* Proofs about Ymodem, for every set of files, packet size, number of     *)
(* retries, handshake length and supply of descriptors.                    *)
(***************************************************************************)
EXTENDS Ymodem, SequenceTheorems, FiniteSetTheorems, TLAPS

USE NamesAssumption, PacketAssumption, QueueAssumption, RetriesAssumption,
    DeviceAssumption

Datum == (Names \cup {"pad"}) \X Int

-----------------------------------------------------------------------------
(***************************************************************************)
(* Sequences.                                                              *)
(***************************************************************************)

\* What is left of a sequence whose first k elements are dropped.
LEMMA DropProperties ==
    ASSUME NEW T, NEW s \in Seq(T), NEW k \in 0..Len(s)
    PROVE  /\ SubSeq(s, k + 1, Len(s)) \in Seq(T)
           /\ Len(SubSeq(s, k + 1, Len(s))) = Len(s) - k
           /\ \A i \in 1..(Len(s) - k) :
                 SubSeq(s, k + 1, Len(s))[i] = s[i + k]
<1>1. Len(s) \in Nat /\ \A i \in 1..Len(s) : s[i] \in T
  BY LenProperties, ElementOfSeq
<1>2. \A i \in (k + 1)..Len(s) : s[i] \in T
  BY <1>1
<1> DEFINE t == SubSeq(s, k + 1, Len(s))
<1>3. /\ t \in Seq(T)
      /\ Len(t) = IF k + 1 <= Len(s) THEN Len(s) - (k + 1) + 1 ELSE 0
      /\ \A i \in 1..(Len(s) - (k + 1) + 1) : t[i] = s[(k + 1) + i - 1]
  <2>1. k + 1 \in Int /\ Len(s) \in Int
    BY <1>1
  <2> QED BY <1>2, <2>1, SubSeqProperties
<1> QED
  BY <1>1, <1>3

\* A queue after a character, or a character and its companion, was put.
LEMMA PutType ==
    ASSUME NEW T, NEW s \in Seq(T), NEW t \in Seq(T), NEW m \in Nat
    PROVE  (IF Len(s) < m THEN s \o t ELSE s) \in Seq(T)
BY ConcatProperties

\* The payload written by on_data is a sequence of data.
LEMMA ChunkType ==
    ASSUME NEW n \in Names, NEW b \in Nat, NEW len \in Nat
    PROVE  Chunk(n, b, len) \in Seq(Datum)
<1>1. Offset(b) \in Int
  BY DEF Offset
<1>2. \A j \in 1..len : Byte(n, Offset(b) + j) \in Datum
  <2> TAKE j \in 1..len
  <2>1. Offset(b) + j \in Int
    BY <1>1
  <2> HIDE DEF Datum
  <2>2. \A i \in Int : Byte(n, i) \in Datum
    BY DEF Byte, Pad, Datum
  <2> QED BY <2>1, <2>2
<1>3. Chunk(n, b, len) \in [1..len -> Datum]
  BY <1>2 DEF Chunk
<1> QED
  BY <1>3, SeqDef
-----------------------------------------------------------------------------
(***************************************************************************)
(* Type correctness.                                                       *)
(***************************************************************************)

\* A frame ymodem_send writes for its file is a frame of the line.
LEMMA PacketType ==
    ASSUME TypeOK, NEW kind \in {"header", "data", "eot", "fin"}, NEW b \in Nat
    PROVE  /\ Packet(kind, b) \in Frame
           /\ Append(toDev, Packet(kind, b)) \in Seq(Frame)
<1>1. Packet(kind, b) \in Frame
  BY DEF TypeOK, HostTypeOK, Packet, Frame
<1> QED
  BY <1>1, AppendProperties DEF TypeOK, LineTypeOK

\* The tool writes frames and reads characters.
LEMMA HostType ==
    ASSUME TypeOK, HostStep \/ HostTimeout \/ HostInterrupt
    PROVE  LineTypeOK' /\ HostTypeOK'
<1> USE DEF TypeOK, LineTypeOK, HostTypeOK, Waits, Ended
<1>1. toHost # <<>> => Tail(toHost) \in Seq(Char)
  BY HeadTailProperties
<1>2. \A k \in 0..Len(toHost) : SubSeq(toHost, k + 1, Len(toHost)) \in Seq(Char)
  BY DropProperties
<1>3. ConsumeAndClear => toHost' \in Seq(Char)
  BY <1>2, LenProperties DEF ConsumeAndClear
<1>4. ASSUME NEW kind \in {"header", "data", "eot", "fin"}, NEW b \in Nat,
             Send(Packet(kind, b))
      PROVE  toDev' \in Seq(Frame)
  BY <1>4, PacketType DEF Send
<1>5. ASSUME NEW b \in Nat, SendNext(b)
      PROVE  toDev' \in Seq(Frame) /\ pc' \in Waits
  BY <1>5, <1>4 DEF SendNext
<1>6. CASE HostSendHeader
  BY <1>6, <1>1, <1>4 DEF HostSendHeader, Received, Consume
<1>7. CASE HostHeaderAcked
  BY <1>7, <1>1 DEF HostHeaderAcked, Received, Consume
<1>8. CASE HostFirstPacket
  BY <1>8, <1>1, <1>5 DEF HostFirstPacket, Received, Consume
<1>9. CASE HostPacketAcked
  BY <1>9, <1>3, <1>5 DEF HostPacketAcked
<1>10. CASE HostPacketRefused
  BY <1>10, <1>3, <1>4 DEF HostPacketRefused, End
<1>11. CASE HostCancelled
  BY <1>11, <1>3 DEF HostCancelled, End
<1>12. CASE HostSecondEot
  BY <1>12, <1>2, <1>4 DEF HostSecondEot
<1>13. CASE HostEotAcked
  BY <1>13, <1>1 DEF HostEotAcked, Received, Consume
<1>14. CASE HostSendFinal
  BY <1>14, <1>3, <1>4 DEF HostSendFinal
<1>15. CASE HostComplete
  BY <1>15, <1>1 DEF HostComplete, Received, Consume, End
<1>16. CASE HostSkip
  BY <1>16, <1>1 DEF HostSkip, Consume, hostVars
<1>17. CASE HostTimeout
  BY <1>17 DEF HostTimeout, End, lineVars
<1>18. CASE HostInterrupt
  BY <1>18 DEF HostInterrupt, End, lineVars
<1> QED
  BY <1>6, <1>7, <1>8, <1>9, <1>10, <1>11, <1>12, <1>13, <1>14, <1>15, <1>16,
     <1>17, <1>18 DEF HostStep

\* A new invocation of the tool starts with an empty line and its own file.
LEMMA StartType ==
    ASSUME TypeOK, NEW n \in Names, NEW pre_cmd \in BOOLEAN,
           HostStart(n, pre_cmd)
    PROVE  LineTypeOK' /\ HostTypeOK'
<1>1. <<[kind |-> "cmd", name |-> n, blk |-> 0]>> \in Seq(Frame)
  BY DEF Frame
<1> QED
  BY <1>1 DEF HostStart, TypeOK, LineTypeOK, HostTypeOK, Waits, Ended

\* What the watch answers is made of protocol characters.
LEMMA PutChars ==
    ASSUME TypeOK, NEW cs \in Seq(Char), Put(cs)
    PROVE  toHost' \in Seq(Char)
BY PutType DEF Put, TypeOK, LineTypeOK

\* A queue that is not empty begins with a frame.
LEMMA HeadFrame ==
    ASSUME TypeOK, toDev # <<>>
    PROVE  /\ Head(toDev) \in Frame
           /\ Head(toDev) = toDev[1]
           /\ Tail(toDev) \in Seq(Frame)
BY HeadTailProperties DEF TypeOK, LineTypeOK

\* What on_data writes.
LEMMA WriteType ==
    ASSUME TypeOK, NEW f \in Frame, NEW len \in Nat, WriteChunk(f, len)
    PROVE  /\ files' \in [Paths -> Seq(Datum)]
           /\ dirty' \subseteq Paths
<1> USE DEF TypeOK, DeviceTypeOK
<1>1. Chunk(f.name, f.blk, len) \in Seq(Datum)
  BY ChunkType DEF Frame
<1>2. files \in [Paths -> Seq(Datum)] /\ file_path \in Paths
  BY DEF Datum
<1>3. files[file_path] \o Chunk(f.name, f.blk, len) \in Seq(Datum)
  <2> HIDE DEF Datum
  <2> QED BY <1>1, <1>2, ConcatProperties
<1> HIDE DEF Datum
<1> QED
  BY <1>2, <1>3 DEF WriteChunk

\* on_data writes at least one byte of a packet it does not refuse.
LEMMA DataLenType ==
    ASSUME TypeOK, ~DataRefused
    PROVE  DataLen \in Nat /\ DataLen > 0
BY DEF DataRefused, DataLen, TypeOK, DeviceTypeOK

\* on_data, whatever it answers, keeps sizes, contents and descriptors in
\* their types.
LEMMA OnDataType ==
    ASSUME TypeOK, NEW f \in Frame, on_data_ack(f) \/ on_data_can(f)
    PROVE  /\ file_fd' = file_fd /\ file_size' = file_size
           /\ file_path' = file_path /\ opened' = opened
           /\ received_size' \in Nat
           /\ files' \in [Paths -> Seq(Datum)]
           /\ dirty' \subseteq Paths
<1>1. CASE on_data_ack(f)
  <2>1. DataLen \in Nat
    BY <1>1, DataLenType DEF on_data_ack
  <2> QED BY <1>1, <2>1, WriteType DEF on_data_ack, TypeOK, DeviceTypeOK
<1>2. CASE on_data_write_fails(f)
  <2>1. PICK len \in 0..(DataLen - 1) : WriteChunk(f, len)
    BY <1>2 DEF on_data_write_fails
  <2>2. len \in Nat
    BY <1>2, <2>1, DataLenType DEF on_data_write_fails
  <2> QED BY <1>2, <2>1, <2>2, WriteType
          DEF on_data_write_fails, ctxVars, TypeOK, DeviceTypeOK
<1>3. CASE DataRefused /\ UNCHANGED <<ctxVars, fsVars>>
  BY <1>3 DEF ctxVars, fsVars, TypeOK, DeviceTypeOK, Datum
<1> QED
  BY <1>1, <1>2, <1>3 DEF on_data_can

\* What a restart leaves of a file that was being written is a content.
LEMMA RestartFiles ==
    ASSUME TypeOK, DeviceRestart
    PROVE  /\ files' \in [Paths -> Seq(Datum)]
           /\ \A p \in Paths \ dirty : files'[p] = files[p]
<1>1. files \in [Paths -> Seq(Datum)]
  BY DEF TypeOK, DeviceTypeOK, Datum
<1> HIDE DEF Datum
<1>2. PICK kept \in [Paths -> 0..MaxFileSize] :
          /\ \A p \in Paths : kept[p] <= Len(files[p])
          /\ files' = [p \in Paths |-> IF p \in dirty
                                       THEN SubSeq(files[p], 1, kept[p])
                                       ELSE files[p]]
  BY DEF DeviceRestart
<1>3. ASSUME NEW p \in Paths PROVE SubSeq(files[p], 1, kept[p]) \in Seq(Datum)
  <2>1. files[p] \in Seq(Datum) /\ kept[p] \in Int /\ kept[p] <= Len(files[p])
    BY <1>1, <1>2
  <2>2. \A i \in 1..kept[p] : files[p][i] \in Datum
    BY <2>1, ElementOfSeq, LenProperties
  <2>3. 1 \in Int
    OBVIOUS
  <2> QED BY <2>1, <2>2, <2>3, SubSeqProperties
<1> QED
  BY <1>1, <1>2, <1>3

\* The steps of yrcv, of rym and of the three callbacks, and a restart, keep
\* the statics of reg_commands.c and the file system in their types.
LEMMA DeviceType ==
    ASSUME TypeOK,
           DeviceStep \/ OperatorTypesYrcv \/ ReceiveDamaged
             \/ SessionTimeout \/ DeviceRestart
    PROVE  LineTypeOK' /\ DeviceTypeOK'
<1> USE DEF LineTypeOK, DeviceTypeOK, Sessions
<1>a. /\ toDev \in Seq(Frame) /\ toHost \in Seq(Char) /\ DeviceTypeOK
      /\ files \in [Paths -> Seq(Datum)]
  BY DEF TypeOK, Datum
<1>b. toDev # <<>> => Tail(toDev) \in Seq(Frame) /\ Head(toDev) \in Frame
  BY HeadFrame
<1>c. /\ <<"C">> \in Seq(Char) /\ <<"ACK">> \in Seq(Char)
      /\ <<"NAK">> \in Seq(Char) /\ <<"CA">> \in Seq(Char)
      /\ <<"ACK", "C">> \in Seq(Char) /\ <<>> \in Seq(Frame)
  BY EmptySeq DEF Char
<1>1. CASE ShellReads
  BY <1>1, <1>a, <1>b DEF ShellReads, ReadFrame, ctxVars, fsVars
<1>2. CASE OperatorTypesYrcv
  BY <1>2, <1>a DEF OperatorTypesYrcv, lineVars, ctxVars, fsVars
<1>3. CASE YrcvDrain
  <2>1. toDev' \in Seq(Frame) /\ toHost' \in Seq(Char)
    BY <1>3, <1>a, <1>c DEF YrcvDrain
  <2>2. stage' \in Sessions \cup {"shell"} /\ tries' \in 0..Handshakes
    BY <1>3, <1>a DEF YrcvDrain
  <2> QED BY <1>3, <2>1, <2>2, <1>a DEF YrcvDrain, ctxVars, fsVars
<1>4. CASE HandshakeSendC
  <2>1. toHost' \in Seq(Char)
    BY <1>4, <1>c, PutChars DEF HandshakeSendC
  <2> QED BY <1>4, <2>1, <1>a DEF HandshakeSendC, ctxVars, fsVars
<1>5. CASE HandshakeIgnores
  BY <1>5, <1>a, <1>b DEF HandshakeIgnores, ReadFrame, ctxVars, fsVars
<1>6. CASE ReceiveHeader
  <2> DEFINE n == Head(toDev).name
  <2>1. n \in Names /\ Tail(toDev) \in Seq(Frame)
    BY <1>6, <1>b DEF ReceiveHeader, Incoming, Frame
  <2>2. Size[n] \in Nat /\ DevPath[n] \in Paths
    BY <2>1 DEF Paths
  <2>3. ASSUME NEW fd \in Fd, on_begin_ack(n, fd), Put(<<"ACK", "C">>)
        PROVE  LineTypeOK' /\ DeviceTypeOK'
    <3>1. toHost' \in Seq(Char)
      BY <2>3, <1>c, PutChars
    <3>2. <<>> \in Seq(Datum)
      BY EmptySeq
    <3>3. files' \in [Paths -> Seq(Datum)]
      <4> HIDE DEF Datum
      <4> QED BY <2>3, <3>2, <1>a, <2>2 DEF on_begin_ack
    <3>4. /\ file_fd' \in Fd \cup {-1} /\ file_size' \in Nat
          /\ received_size' \in Nat /\ file_path' \in Paths
          /\ opened' \subseteq Fd /\ dirty' \subseteq Paths
      BY <2>3, <1>a, <2>2 DEF on_begin_ack
    <3>5. toDev' \in Seq(Frame) /\ tries' = 0
      BY <1>6, <2>1 DEF ReceiveHeader, ReadFrame
    <3>6. stage' \in Sessions \cup {"shell"}
      BY <1>6 DEF ReceiveHeader
    <3> QED BY <3>1, <3>3, <3>4, <3>5, <3>6 DEF Datum
  <2>4. ASSUME on_begin_can(n), UNCHANGED toHost, stage' = "shell"
        PROVE  LineTypeOK' /\ DeviceTypeOK'
    BY <2>4, <1>6, <2>1, <2>2, <1>a
       DEF on_begin_can, ReceiveHeader, ReadFrame, fsVars
  <2> QED BY <1>6, <2>3, <2>4 DEF ReceiveHeader
<1>7. CASE ReceiveData
  <2> DEFINE f == Head(toDev)
  <2>1. f \in Frame /\ Tail(toDev) \in Seq(Frame)
    BY <1>7, <1>b DEF ReceiveData, Incoming
  <2>2. on_data_ack(f) \/ on_data_can(f)
    BY <1>7 DEF ReceiveData
  <2>3. toHost' \in Seq(Char)
    BY <1>7, <1>c, PutChars DEF ReceiveData
  <2>4. /\ file_fd' = file_fd /\ file_size' = file_size
        /\ file_path' = file_path /\ opened' = opened
        /\ received_size' \in Nat
        /\ files' \in [Paths -> Seq(Datum)]
        /\ dirty' \subseteq Paths
    BY <2>1, <2>2, OnDataType
  <2>5. stage' \in Sessions \cup {"shell"} /\ tries' = tries
    BY <1>7, <1>a DEF ReceiveData
  <2>6. toDev' \in Seq(Frame)
    BY <1>7, <2>1 DEF ReceiveData, ReadFrame
  <2> QED BY <2>3, <2>4, <2>5, <2>6, <1>a DEF Datum
<1>8. CASE ReceiveEot
  <2>1. toHost' \in Seq(Char)
    BY <1>8, <1>c, PutChars DEF ReceiveEot
  <2> QED BY <1>8, <2>1, <1>a, <1>b DEF ReceiveEot, Incoming, ReadFrame, on_end
<1>9. CASE ReceiveSecondEot
  <2>1. toHost' \in Seq(Char)
    BY <1>9, <1>c, PutChars DEF ReceiveSecondEot
  <2> QED BY <1>9, <2>1, <1>a, <1>b
          DEF ReceiveSecondEot, Incoming, ReadFrame, ctxVars, fsVars
<1>10. CASE ReceiveFinal
  <2>1. toHost' \in Seq(Char)
    BY <1>10, <1>c, PutChars DEF ReceiveFinal
  <2> QED BY <1>10, <2>1, <1>a, <1>b
          DEF ReceiveFinal, Incoming, ReadFrame, ctxVars, fsVars
<1>11. CASE ReceiveDamaged
  <2>1. toHost' \in Seq(Char)
    BY <1>11, <1>a, <1>c, PutChars DEF ReceiveDamaged
  <2> QED BY <1>11, <2>1, <1>a, <1>b
          DEF ReceiveDamaged, ReadFrame, ctxVars, fsVars
<1>12. CASE SessionTimeout
  BY <1>12, <1>a DEF SessionTimeout, lineVars, ctxVars, fsVars
<1>13. CASE DeviceRestart
  <2>1. files' \in [Paths -> Seq(Datum)]
    BY <1>13, RestartFiles
  <2> QED BY <1>13, <2>1, <1>a, <1>c DEF DeviceRestart, Datum
<1> QED
  BY <1>1, <1>2, <1>3, <1>4, <1>5, <1>6, <1>7, <1>8, <1>9, <1>10, <1>11,
     <1>12, <1>13 DEF DeviceStep

\* Before the first transfer every variable is in its type.
LEMMA TypeInit == Init => TypeOK
<1> SUFFICES ASSUME Init PROVE TypeOK
  OBVIOUS
<1>1. <<>> \in Seq(Frame) /\ <<>> \in Seq(Char) /\ <<>> \in Seq(Datum)
  BY EmptySeq
<1> QED
  BY <1>1 DEF Init, HostInit, DeviceInit, TypeOK, LineTypeOK, HostTypeOK,
              DeviceTypeOK, Ended, Datum

\* No step of the tool, the watch or the line takes a variable out of its type.
LEMMA TypeNext == TypeOK /\ [Next]_vars => TypeOK'
<1> SUFFICES ASSUME TypeOK, [Next]_vars PROVE TypeOK'
  OBVIOUS
<1>1. ASSUME NEW n \in Names, NEW pre_cmd \in BOOLEAN, StartTransfer(n, pre_cmd)
      PROVE  TypeOK'
  <2>1. LineTypeOK' /\ HostTypeOK'
    BY <1>1, StartType DEF StartTransfer
  <2> QED BY <1>1, <2>1
          DEF StartTransfer, TypeOK, DeviceTypeOK, deviceVars, ctxVars, fsVars
<1>2. CASE HostAlone
  <2>1. LineTypeOK' /\ HostTypeOK'
    BY <1>2, HostType DEF HostAlone
  <2> QED BY <1>2, <2>1
          DEF HostAlone, TypeOK, DeviceTypeOK, deviceVars, ctxVars, fsVars
<1>3. CASE DeviceAlone
  <2>1. LineTypeOK' /\ DeviceTypeOK'
    BY <1>3, DeviceType DEF DeviceAlone
  <2> QED BY <1>3, <2>1 DEF DeviceAlone, TypeOK, HostTypeOK, hostVars
<1>4. CASE LoseFrame
  <2>1. Tail(toDev) \in Seq(Frame)
    BY <1>4, HeadFrame DEF LoseFrame
  <2> QED BY <1>4, <2>1 DEF LoseFrame, ReadFrame, TypeOK, LineTypeOK, HostTypeOK,
             DeviceTypeOK, hostVars, deviceVars, ctxVars, fsVars
<1>5. CASE LoseChar
  <2>1. Tail(toHost) \in Seq(Char)
    BY <1>5, HeadTailProperties DEF LoseChar, TypeOK, LineTypeOK
  <2> QED BY <1>5, <2>1 DEF LoseChar, Consume, TypeOK, LineTypeOK, HostTypeOK,
             DeviceTypeOK, hostVars, deviceVars, ctxVars, fsVars
<1>6. CASE LineNoise
  <2>1. toHost' \in Seq(Char)
    <3>1. <<"C">> \in Seq(Char)
      BY DEF Char
    <3> QED BY <1>6, <3>1, PutChars DEF LineNoise
  <2> QED BY <1>6, <2>1 DEF LineNoise, TypeOK, LineTypeOK, HostTypeOK,
             DeviceTypeOK, hostVars, deviceVars, ctxVars, fsVars
<1>7. CASE UNCHANGED vars
  BY <1>7 DEF vars, lineVars, hostVars, deviceVars, ctxVars, fsVars, TypeOK,
              LineTypeOK, HostTypeOK, DeviceTypeOK
<1> QED
  BY <1>1, <1>2, <1>3, <1>4, <1>5, <1>6, <1>7 DEF Next

\* The variables of the tool, the watch and the line keep their types, whatever
\* the files and the bounds; in particular retries never falls below zero.
THEOREM TypeCorrect == Spec => []TypeOK
BY TypeInit, TypeNext, PTL DEF Spec

-----------------------------------------------------------------------------
(***************************************************************************)
(* The queues.  A step that only reads frames leaves a suffix of toDev; one*)
(* that reads characters or adds noise leaves toHost with no more replies. *)
(***************************************************************************)
SuffixOf(s, t) ==
    /\ Len(t) <= Len(s)
    /\ \A i \in 1..Len(t) : t[i] = s[i + (Len(s) - Len(t))]

Quieter(s, t) ==
    /\ NoReply(s)  => NoReply(t)
    /\ OneReply(s) => OneReply(t)
    /\ \A c \in Reply : Holds(t, c) => Holds(s, c)

\* Dropping a prefix never adds a reply, and dropping the only one leaves none.
LEMMA DropQuieter ==
    ASSUME NEW s \in Seq(Char), NEW k \in 0..Len(s)
    PROVE  /\ Quieter(s, SubSeq(s, k + 1, Len(s)))
           /\ k >= 1 /\ OneReply(s) /\ s[1] \in Reply
                 => NoReply(SubSeq(s, k + 1, Len(s)))
<1> DEFINE t == SubSeq(s, k + 1, Len(s))
<1>1. Len(s) \in Nat /\ Len(t) = Len(s) - k
  BY DropProperties, LenProperties
<1>2. \A i \in 1..Len(t) : t[i] = s[i + k] /\ i + k \in 1..Len(s)
  BY <1>1, DropProperties
<1> HIDE DEF t
<1>3. Quieter(s, t)
  <2>1. NoReply(s) => NoReply(t)
    BY <1>1, <1>2 DEF NoReply
  <2>2. ASSUME OneReply(s), NEW i \in 1..Len(t), NEW j \in 1..Len(t),
               t[i] \in Reply, t[j] \in Reply
        PROVE  i = j
    <3>1. i + k = j + k
      BY <2>2, <1>2 DEF OneReply
    <3> QED BY <1>1, <3>1
  <2>3. OneReply(s) => OneReply(t)
    BY <2>2 DEF OneReply
  <2>4. \A c \in Reply : Holds(t, c) => Holds(s, c)
    BY <1>2 DEF Holds
  <2> QED BY <2>1, <2>3, <2>4 DEF Quieter
<1>4. k >= 1 /\ OneReply(s) /\ s[1] \in Reply => NoReply(t)
  BY <1>1, <1>2 DEF NoReply, OneReply
<1> QED
  BY <1>3, <1>4 DEF t

\* wait_char consumes one character: no reply appears by that.
LEMMA TailQuieter ==
    ASSUME NEW s \in Seq(Char), s # <<>>
    PROVE  /\ Head(s) = s[1]
           /\ Quieter(s, Tail(s))
           /\ OneReply(s) /\ s[1] \in Reply => NoReply(Tail(s))
<1>1. Len(s) \in Nat /\ 1 \in 0..Len(s)
  BY EmptySeq, LenProperties
<1>2. Tail(s) = SubSeq(s, 1 + 1, Len(s))
  <2>1. Tail(s) = SubSeq(s, 2, Len(s)) /\ 1 + 1 = 2
    BY TailIsSubSeq
  <2> QED BY <2>1
<1>3. Head(s) = s[1]
  OBVIOUS
<1>4. /\ Quieter(s, SubSeq(s, 1 + 1, Len(s)))
      /\ OneReply(s) /\ s[1] \in Reply => NoReply(SubSeq(s, 1 + 1, Len(s)))
  <2>1. 1 >= 1
    OBVIOUS
  <2> QED BY <1>1, <2>1, DropQuieter
<1>5. /\ Quieter(s, Tail(s))
      /\ OneReply(s) /\ s[1] \in Reply => NoReply(Tail(s))
  BY <1>2, <1>4, Zenon
<1> QED
  BY <1>3, <1>5

\* On a line without a reply there is none to be mistaken.
LEMMA Silence ==
    ASSUME NEW s \in Seq(Char)
    PROVE  /\ NoReply(s) => OneReply(s)
           /\ NoReply(s) => \A c \in Reply : ~Holds(s, c)
           /\ NoReply(<<>>)
<1>1. Len(<<>>) = 0
  BY EmptySeq
<1> QED
  BY <1>1 DEF NoReply, OneReply, Holds

\* The 'C' of a handshake or of console text is no reply.
LEMMA PutNoise ==
    ASSUME TypeOK, Put(<<"C">>)
    PROVE  Quieter(toHost, toHost')
<1>1. toHost \in Seq(Char) /\ <<"C">> \in Seq(Char) /\ Len(<<"C">>) = 1
  BY DEF TypeOK, LineTypeOK, Char
<1>2. Len(toHost) \in Nat
  BY <1>1, LenProperties
<1>3. CASE toHost' = toHost
  BY <1>3 DEF Quieter
<1>4. CASE toHost' = toHost \o <<"C">>
  <2>1. /\ Len(toHost') = Len(toHost) + 1
        /\ \A i \in 1..(Len(toHost) + 1) :
              toHost'[i] = IF i <= Len(toHost) THEN toHost[i] ELSE "C"
    BY <1>1, <1>4, ConcatProperties
  <2> QED BY <1>2, <2>1 DEF Quieter, NoReply, OneReply, Holds, Reply
<1> QED
  BY <1>3, <1>4 DEF Put

\* One reply put on a line without one.
LEMMA PutReply ==
    ASSUME TypeOK, NEW c \in Reply, Put(<<c>>) \/ Put(<<c, "C">>)
    PROVE  /\ NoReply(toHost) => OneReply(toHost')
           /\ \A d \in Reply : Holds(toHost', d) => d = c \/ Holds(toHost, d)
<1>1. /\ toHost \in Seq(Char) /\ Len(toHost) \in Nat
      /\ <<c>> \in Seq(Char) /\ <<c, "C">> \in Seq(Char)
  BY LenProperties DEF TypeOK, LineTypeOK, Char, Reply
<1>2. CASE toHost' = toHost
  BY <1>2, <1>1, Silence
<1>3. CASE toHost' = toHost \o <<c>>
  <2>1. /\ Len(toHost') = Len(toHost) + 1
        /\ \A i \in 1..(Len(toHost) + 1) :
              toHost'[i] = IF i <= Len(toHost) THEN toHost[i] ELSE c
    BY <1>1, <1>3, ConcatProperties
  <2> QED BY <1>1, <2>1 DEF NoReply, OneReply, Holds
<1>4. CASE toHost' = toHost \o <<c, "C">>
  <2>1. /\ Len(toHost') = Len(toHost) + 2
        /\ \A i \in 1..(Len(toHost) + 2) :
              toHost'[i] = IF i <= Len(toHost) THEN toHost[i]
                           ELSE IF i = Len(toHost) + 1 THEN c ELSE "C"
    BY <1>1, <1>4, ConcatProperties
  <2>2. ASSUME NoReply(toHost), NEW i \in 1..Len(toHost'), toHost'[i] \in Reply
        PROVE  i = Len(toHost) + 1
    BY <2>2, <2>1, <1>1 DEF NoReply, Reply
  <2>3. NoReply(toHost) => OneReply(toHost')
    BY <2>2 DEF OneReply
  <2>4. \A d \in Reply : Holds(toHost', d) => d = c \/ Holds(toHost, d)
    BY <1>1, <2>1 DEF Holds, Reply
  <2> QED BY <2>3, <2>4
<1> QED
  BY <1>2, <1>3, <1>4 DEF Put

\* A queue of length zero is the empty queue: no frame is on that line.
LEMMA NothingLeft ==
    ASSUME NEW T, NEW s \in Seq(T), Len(s) = 0
    PROVE  s = <<>>
<1>1. s # <<>> => Len(s) \in Nat \ {0}
  BY EmptySeq
<1> QED
  BY <1>1

\* What is left when a frame has been read was behind it.
LEMMA TailSuffix ==
    ASSUME NEW s \in Seq(Frame), s # <<>>
    PROVE  /\ SuffixOf(s, Tail(s))
           /\ Len(s) \in Nat /\ Len(s) >= 1
           /\ Head(s) = s[1]
           /\ Len(Tail(s)) = Len(s) - 1
           /\ Len(s) = 1 => Tail(s) = <<>>
<1>1. Len(s) \in Nat \ {0}
  BY EmptySeq
<1>2. /\ Tail(s) \in Seq(Frame) /\ Len(Tail(s)) = Len(s) - 1
      /\ \A i \in 1..Len(Tail(s)) : Tail(s)[i] = s[i + 1]
  BY HeadTailProperties
<1>3. ASSUME Len(s) = 1 PROVE Tail(s) = <<>>
  <2> DEFINE t == Tail(s)
  <2>1. t \in Seq(Frame) /\ Len(t) = 0
    BY <1>2, <1>3
  <2> HIDE DEF t
  <2>2. t = <<>>
    BY <2>1, NothingLeft
  <2> QED BY <2>2 DEF t
<1> QED
  BY <1>1, <1>2, <1>3 DEF SuffixOf

-----------------------------------------------------------------------------
(***************************************************************************)
(* Contents.                                                               *)
(***************************************************************************)

\* The beginning of a file is a content of its length.
LEMMA PrefixType ==
    ASSUME NEW n \in Names, NEW k \in Nat
    PROVE  /\ Prefix(n, k) \in Seq(Datum)
           /\ Len(Prefix(n, k)) = k
           /\ \A j \in 1..k : Prefix(n, k)[j] = <<n, j>>
<1>1. \A j \in 1..k : <<n, j>> \in Datum
  BY DEF Datum
<1>2. Prefix(n, k) \in [1..k -> Datum]
  BY <1>1 DEF Prefix
<1>3. \A j \in 1..k : Prefix(n, k)[j] = <<n, j>>
  BY DEF Prefix
<1> HIDE DEF Datum
<1>4. Prefix(n, k) \in Seq(Datum)
  BY <1>2, SeqDef
<1>5. DOMAIN Prefix(n, k) = 1..k /\ DOMAIN Prefix(n, k) = 1..Len(Prefix(n, k))
  BY <1>2, <1>4, LenProperties
<1>6. Len(Prefix(n, k)) \in Nat
  BY <1>4, LenProperties
<1>7. Len(Prefix(n, k)) = k
  BY <1>5, <1>6
<1> QED
  BY <1>3, <1>4, <1>7

\* A content and the chunk appended to it by on_data make the content that
\* agrees with both, place by place.
LEMMA Concatenation ==
    ASSUME NEW T, NEW s \in Seq(T), NEW c \in Seq(T), NEW t \in Seq(T),
           Len(t) = Len(s) + Len(c),
           \A i \in 1..Len(s) : t[i] = s[i],
           \A i \in 1..Len(c) : t[Len(s) + i] = c[i]
    PROVE  s \o c = t
<1>1. Len(s) \in Nat /\ Len(c) \in Nat
  BY LenProperties
<1>2. /\ s \o c \in Seq(T)
      /\ Len(s \o c) = Len(s) + Len(c)
      /\ \A i \in 1..(Len(s) + Len(c)) :
            (s \o c)[i] = IF i <= Len(s) THEN s[i] ELSE c[i - Len(s)]
  BY ConcatProperties
<1>3. ASSUME NEW i \in 1..(Len(s) + Len(c)) PROVE (s \o c)[i] = t[i]
  <2>1. CASE i <= Len(s)
    <3>1. i \in 1..Len(s)
      BY <1>1, <2>1
    <3> QED BY <1>2, <2>1, <3>1
  <2>2. CASE i > Len(s)
    <3>1. i - Len(s) \in 1..Len(c) /\ Len(s) + (i - Len(s)) = i /\ ~(i <= Len(s))
      BY <1>1, <2>2
    <3>2. t[Len(s) + (i - Len(s))] = c[i - Len(s)]
      BY <3>1
    <3> QED BY <1>2, <3>1, <3>2
  <2> QED BY <1>1, <2>1, <2>2
<1> QED
  BY <1>2, <1>3, SeqEqual

\* Packet b continues a file of which b - 1 packets have been received.
LEMMA PrefixGrows ==
    ASSUME NEW n \in Names, NEW b \in Nat, NEW len \in Nat,
           Offset(b) \in Nat, Offset(b) + len <= Size[n]
    PROVE  Prefix(n, Offset(b)) \o Chunk(n, b, len) = Prefix(n, Offset(b) + len)
<1> DEFINE r == Offset(b)
<1> HIDE DEF r
<1>0. r \in Nat /\ r + len <= Size[n] /\ r = Offset(b)
  BY DEF r
<1>1. /\ Chunk(n, b, len) \in Seq(Datum)
      /\ \A j \in 1..len : Chunk(n, b, len)[j] = <<n, r + j>>
  <2>1. \A j \in 1..len : Byte(n, r + j) = <<n, r + j>>
    BY <1>0 DEF Byte
  <2>2. \A j \in 1..len : Chunk(n, b, len)[j] = Byte(n, r + j)
    BY <1>0 DEF Chunk
  <2> QED BY <2>1, <2>2, ChunkType
<1>2. Len(Chunk(n, b, len)) = len
  <2>1. DOMAIN Chunk(n, b, len) = 1..len
    BY DEF Chunk
  <2>2. DOMAIN Chunk(n, b, len) = 1..Len(Chunk(n, b, len))
        /\ Len(Chunk(n, b, len)) \in Nat
    BY <1>1, LenProperties
  <2> QED BY <2>1, <2>2
<1>3. /\ Prefix(n, r) \in Seq(Datum) /\ Len(Prefix(n, r)) = r
      /\ \A j \in 1..r : Prefix(n, r)[j] = <<n, j>>
  BY <1>0, PrefixType
<1>4. /\ Prefix(n, r + len) \in Seq(Datum) /\ Len(Prefix(n, r + len)) = r + len
      /\ \A j \in 1..(r + len) : Prefix(n, r + len)[j] = <<n, j>>
  <2>1. r + len \in Nat
    BY <1>0
  <2> QED BY <2>1, PrefixType
<1>5. \A j \in 1..len : r + j \in 1..(r + len)
  BY <1>0
<1>6. \A j \in 1..r : j \in 1..(r + len)
  BY <1>0
<1> DEFINE s == Prefix(n, r)
           c == Chunk(n, b, len)
           t == Prefix(n, r + len)
<1>7. /\ s \in Seq(Datum) /\ c \in Seq(Datum) /\ t \in Seq(Datum)
      /\ Len(s) = r /\ Len(c) = len /\ Len(t) = Len(s) + Len(c)
  BY <1>1, <1>2, <1>3, <1>4
<1>8. /\ \A i \in 1..Len(s) : t[i] = s[i]
      /\ \A i \in 1..Len(c) : t[Len(s) + i] = c[i]
  <2>1. \A i \in 1..r : t[i] = s[i]
    BY <1>3, <1>4, <1>6
  <2>2. \A i \in 1..len : t[r + i] = c[i]
    BY <1>1, <1>4, <1>5
  <2> HIDE DEF s, c, t
  <2> QED BY <2>1, <2>2, <1>7
<1> HIDE DEF s, c, t, Datum
<1>9. s \o c = t
  BY <1>7, <1>8, Concatenation
<1> QED
  BY <1>9 DEF s, c, t, r

\* Packets cover a file without gaps: packet b + 1 starts where packet b ends.
LEMMA BlockStep ==
    ASSUME NEW b \in Nat
    PROVE  /\ Offset(b) \in Int
           /\ Offset(b + 1) = Offset(b) + PacketSize
           /\ Offset(1) = 0
<1>1. (b + 1) - 1 = b /\ 1 - 1 = 0
  OBVIOUS
<1>2. b * PacketSize = (b - 1) * PacketSize + PacketSize
  OBVIOUS
<1>3. 0 * PacketSize = 0
  OBVIOUS
<1> QED
  BY <1>1, <1>2, <1>3 DEF Offset

-----------------------------------------------------------------------------
(***************************************************************************)
(* The steps.  Most of them only take something off the line, or stop the  *)
(* watch from receiving: one lemma serves them all.                        *)
(***************************************************************************)

\* A step that only takes something off the line, or stops the watch from
\* receiving, cannot break the lockstep.
LEMMA Calm ==
    ASSUME TypeOK, TypeOK', TransferInv, UNCHANGED hostVars,
           SuffixOf(toDev, toDev'), Quieter(toHost, toHost'),
           Fresh' \/ (stage' = stage /\ UNCHANGED <<ctxVars, files>>),
           Fresh => Fresh',
           Stored => Stored'
    PROVE  TransferInv'
<1> USE DEF hostVars, ctxVars
<1>1. /\ Len(toDev) \in Nat /\ Len(toDev') \in Nat
      /\ Len(toDev') <= Len(toDev)
      /\ toDev = <<>> => toDev' = <<>>
  <2>1. Len(toDev) \in Nat /\ Len(toDev') \in Nat /\ Len(toDev') <= Len(toDev)
    BY LenProperties DEF TypeOK, LineTypeOK, SuffixOf
  <2>2. toDev = <<>> => Len(toDev') = 0
    BY <2>1, EmptySeq
  <2> QED BY <2>1, <2>2, NothingLeft DEF TypeOK, LineTypeOK
<1>2. \A i \in 1..Len(toDev') :
         \E j \in 1..Len(toDev) : /\ toDev'[i] = toDev[j]
                                  /\ j = i + (Len(toDev) - Len(toDev'))
  BY <1>1 DEF SuffixOf
<1>3. \A K : OnlyKinds(toDev, K) => OnlyKinds(toDev', K)
  BY <1>2 DEF OnlyKinds
<1>4. Receiving' => Receiving /\ stage' = stage /\ UNCHANGED <<ctxVars, files>>
  BY DEF Receiving, Fresh
<1>5. LineInv'
  <2>1. \A i \in 1..Len(toDev') : toDev'[i].name = job'
    BY <1>2 DEF TransferInv, LineInv
  <2>2. ASSUME NEW i \in 1..Len(toDev'), toDev'[i].kind = "data"
        PROVE  /\ Len(toDev') = 1
               /\ toDev'[i].blk >= 1
               /\ HasBlock(job', toDev'[i].blk)
               /\ Receiving' => received_size' = Offset(toDev'[i].blk)
    <3>1. PICK j \in 1..Len(toDev) : toDev'[i] = toDev[j]
      BY <1>2
    <3>2. Len(toDev) = 1 /\ Len(toDev') = 1
      BY <1>1, <2>2, <3>1 DEF TransferInv, LineInv
    <3> QED BY <2>2, <3>1, <3>2, <1>4 DEF TransferInv, LineInv, HasBlock
  <2> QED BY <2>1, <2>2 DEF LineInv, HasBlock, Receiving
<1>6. ReceivingInv'
  BY <1>4 DEF TransferInv, ReceivingInv, Prefix, Receiving
<1>7. HeaderInv'
  <2>1. ASSUME pc = "waitHdrAck", NEW i \in 1..Len(toDev'),
               toDev'[i].kind = "header"
        PROVE  i = Len(toDev')
    BY <2>1, <1>1, <1>2 DEF TransferInv, HeaderInv
  <2>2. Quieter(toHost, toHost')
    OBVIOUS
  <2>3. pc' = "idle" => Fresh' /\ toDev' = <<>>
    BY <1>1 DEF TransferInv, HeaderInv
  <2>4. pc' = "waitC" => /\ Fresh' /\ NoReply(toHost')
                         /\ Len(toDev') <= 1 /\ OnlyKinds(toDev', {"cmd"})
    BY <1>1, <1>3, <2>2 DEF TransferInv, HeaderInv, Quieter
  <2>5. pc' = "waitHdrAck" =>
          /\ Fresh' \/ (Receiving' /\ received_size' = 0 /\ toDev' = <<>>)
          /\ OneReply(toHost')
          /\ toDev' # <<>> => NoReply(toHost')
          /\ OnlyKinds(toDev', {"cmd", "header"})
    BY <1>1, <1>3, <2>2 DEF TransferInv, HeaderInv, Quieter, Receiving
  <2>6. pc' = "waitHdrC" =>
          /\ Fresh' \/ (Receiving' /\ received_size' = 0)
          /\ toDev' = <<>> /\ NoReply(toHost')
    BY <1>1, <2>2 DEF TransferInv, HeaderInv, Quieter, Receiving
  <2> QED BY <2>1, <2>3, <2>4, <2>5, <2>6 DEF HeaderInv
<1>8. DataInv'
  <2> SUFFICES ASSUME pc' = "waitData" PROVE DataInv'
    BY DEF DataInv
  <2>1. DataInv /\ pc = "waitData" /\ Quieter(toHost, toHost')
    BY DEF TransferInv
  <2>2. Fresh' \/ Receiving'
    BY <2>1 DEF DataInv, Receiving
  <2>3. \A i \in 1..Len(toDev') : toDev'[i].blk = blk'
    BY <2>1, <1>2 DEF DataInv
  <2>4. OneReply(toHost') /\ (toDev' # <<>> => NoReply(toHost'))
    BY <2>1, <1>1 DEF DataInv, Quieter
  <2>5. /\ Holds(toHost', "NAK") => Holds(toHost, "NAK")
        /\ Holds(toHost', "ACK") => Holds(toHost, "ACK")
    BY <2>1 DEF Quieter, Reply
  <2> QED BY <2>1, <2>2, <2>3, <2>4, <2>5, <1>3, <1>4 DEF DataInv, HasBlock
<1>9. EndInv'
  <2>1. Holds(toHost', "ACK") => Holds(toHost, "ACK")
    BY DEF Quieter, Reply
  <2>2. stage' \in {"finishing", "closing"} => stage' = stage
    BY DEF Fresh
  <2> QED BY <2>1, <2>2, <1>3, <1>4 DEF TransferInv, EndInv
<1> QED
  BY <1>5, <1>6, <1>7, <1>8, <1>9 DEF TransferInv

\* What ymodem_send writes comes behind what the line already carries.
LEMMA SendLine ==
    ASSUME TypeOK, NEW kind \in {"header", "data", "eot", "fin"}, NEW b \in Nat,
           Send(Packet(kind, b))
    PROVE  /\ Len(toDev) \in Nat
           /\ Len(toDev') = Len(toDev) + 1
           /\ \A i \in 1..Len(toDev) : toDev'[i] = toDev[i]
           /\ toDev'[Len(toDev) + 1] = [kind |-> kind, name |-> job, blk |-> b]
           /\ toDev = <<>> => Len(toDev) = 0
<1>1. toDev \in Seq(Frame) /\ Packet(kind, b) \in Frame
  BY PacketType DEF TypeOK, LineTypeOK
<1>2. Len(toDev) \in Nat /\ (toDev = <<>> => Len(toDev) = 0)
  BY <1>1, LenProperties, EmptySeq
<1> QED
  BY <1>1, <1>2, AppendProperties DEF Send, Packet

\* The parts of the invariant that do not mention pc survive any step of the
\* tool that sends no data packet.
LEMMA HostKeeps ==
    ASSUME TypeOK, TransferInv, UNCHANGED <<job, deviceVars>>,
           \/ toDev' = toDev
           \/ \E kind \in {"header", "eot", "fin"}, b \in Nat :
                 /\ Send(Packet(kind, b))
                 /\ OnlyKinds(toDev, {"cmd", "header", "eot", "fin"})
    PROVE  LineInv' /\ ReceivingInv'
<1> USE DEF deviceVars, ctxVars, fsVars
<1>1. ReceivingInv'
  BY DEF TransferInv, ReceivingInv, Receiving, Prefix
<1>2. CASE toDev' = toDev
  BY <1>1, <1>2 DEF TransferInv, LineInv, Receiving, HasBlock
<1>3. ASSUME NEW kind \in {"header", "eot", "fin"}, NEW b \in Nat,
             Send(Packet(kind, b)),
             OnlyKinds(toDev, {"cmd", "header", "eot", "fin"})
      PROVE  LineInv'
  <2>1. /\ Len(toDev) \in Nat
        /\ Len(toDev') = Len(toDev) + 1
        /\ \A i \in 1..Len(toDev) : toDev'[i] = toDev[i]
        /\ toDev'[Len(toDev) + 1] = [kind |-> kind, name |-> job, blk |-> b]
    BY <1>3, SendLine
  <2>2. ASSUME NEW i \in 1..Len(toDev')
        PROVE  toDev'[i].name = job /\ toDev'[i].kind # "data"
    <3>1. CASE i = Len(toDev) + 1
      BY <2>1, <3>1
    <3>2. CASE i # Len(toDev) + 1
      <4>1. i \in 1..Len(toDev)
        BY <2>1, <3>2
      <4> QED BY <1>3, <2>1, <4>1 DEF TransferInv, LineInv, OnlyKinds
    <3> QED BY <3>1, <3>2
  <2> QED BY <2>2 DEF LineInv
<1> QED
  BY <1>1, <1>2, <1>3

\* The tool gives up: nothing it was waiting for matters any more.
LEMMA GivingUp ==
    ASSUME TypeOK, TransferInv, End("failed"), UNCHANGED <<toDev, deviceVars>>
    PROVE  TransferInv'
<1>1. LineInv' /\ ReceivingInv'
  BY HostKeeps DEF End
<1> QED
  BY <1>1 DEF TransferInv, HeaderInv, DataInv, EndInv, End

\* The next packet, or the end of the file, goes out on a silent empty line.
LEMMA NextPacket ==
    ASSUME TypeOK, TypeOK', TransferInv, NEW b \in Nat, b >= 1,
           SendNext(b), blk' = b, UNCHANGED <<job, deviceVars>>,
           toDev = <<>>, NoReply(toHost'), Fresh \/ Receiving,
           Receiving => received_size = IF HasBlock(job, b)
                                        THEN Offset(b) ELSE Size[job]
    PROVE  TransferInv'
<1> USE DEF deviceVars, ctxVars, fsVars
<1>1. ReceivingInv'
  BY DEF TransferInv, ReceivingInv, Receiving, Prefix
<1>2. toHost' \in Seq(Char)
  BY DEF TypeOK, LineTypeOK
<1>3. OneReply(toHost') /\ ~Holds(toHost', "ACK") /\ ~Holds(toHost', "NAK")
  BY <1>2, Silence DEF Reply
<1>4. CASE HasBlock(job, b)
  <2>1. Send(Packet("data", b)) /\ pc' = "waitData"
    BY <1>4 DEF SendNext
  <2>2. /\ Len(toDev') = 1
        /\ toDev'[1] = [kind |-> "data", name |-> job, blk |-> b]
    BY <2>1, SendLine
  <2>3. \A i \in 1..Len(toDev') :
            i = 1 /\ toDev'[i] = [kind |-> "data", name |-> job, blk |-> b]
    BY <2>2
  <2>4. LineInv'
    BY <1>4, <2>2, <2>3 DEF LineInv, Receiving, HasBlock
  <2>5. DataInv'
    BY <1>3, <1>4, <2>3 DEF DataInv, OnlyKinds, Fresh, Receiving, HasBlock
  <2> QED BY <1>1, <2>1, <2>4, <2>5 DEF TransferInv, HeaderInv, EndInv
<1>5. CASE ~HasBlock(job, b)
  <2>1. Send(Packet("eot", 0)) /\ pc' = "waitEot1"
    BY <1>5 DEF SendNext
  <2>2. /\ Len(toDev') = 1
        /\ toDev'[1] = [kind |-> "eot", name |-> job, blk |-> 0]
    BY <2>1, SendLine
  <2>3. \A i \in 1..Len(toDev') :
            i = 1 /\ toDev'[i] = [kind |-> "eot", name |-> job, blk |-> 0]
    BY <2>2
  <2>4. LineInv'
    BY <2>3 DEF LineInv
  <2>5. EndInv'
    BY <1>3, <1>5, <2>1, <2>3 DEF EndInv, OnlyKinds, Fresh, Receiving
  <2> QED BY <1>1, <2>1, <2>4, <2>5 DEF TransferInv, HeaderInv, DataInv
<1> QED
  BY <1>4, <1>5

\* A reply at the head of the line is on the line.
LEMMA ReceivedReply ==
    ASSUME TypeOK, NEW c \in Char, Received(c)
    PROVE  /\ toHost \in Seq(Char) /\ toHost # <<>> /\ toHost[1] = c
           /\ Holds(toHost, c)
           /\ c \in Reply => ~NoReply(toHost)
<1>1. toHost \in Seq(Char) /\ toHost # <<>> /\ toHost[1] = c
  BY DEF TypeOK, LineTypeOK, Received
<1>2. Len(toHost) \in Nat \ {0}
  BY <1>1, EmptySeq
<1> QED
  BY <1>1, <1>2 DEF Holds, NoReply

\* Consuming the awaited reply leaves a silent line.
LEMMA ConsumeReply ==
    ASSUME TypeOK, NEW c \in Char, Received(c), Consume \/ ConsumeAndClear
    PROVE  /\ Quieter(toHost, toHost')
           /\ c \in Reply /\ OneReply(toHost) => NoReply(toHost')
<1>1. toHost \in Seq(Char) /\ toHost # <<>> /\ toHost[1] = c
  BY ReceivedReply
<1>2. CASE Consume
  BY <1>1, <1>2, TailQuieter DEF Consume
<1>3. CASE ConsumeAndClear
  <2>1. PICK k \in 1..Len(toHost) : toHost' = SubSeq(toHost, k + 1, Len(toHost))
    BY <1>3 DEF ConsumeAndClear
  <2>2. k \in 0..Len(toHost) /\ k >= 1
    BY <1>1, LenProperties
  <2>3. /\ Quieter(toHost, SubSeq(toHost, k + 1, Len(toHost)))
        /\ OneReply(toHost) /\ toHost[1] \in Reply
              => NoReply(SubSeq(toHost, k + 1, Len(toHost)))
    BY <1>1, <2>2, DropQuieter
  <2> QED BY <1>1, <2>1, <2>3, Zenon
<1> QED
  BY <1>2, <1>3

\* One step of the tool.
LEMMA HostInv ==
    ASSUME TypeOK, TypeOK', TransferInv, UNCHANGED deviceVars,
           HostStep \/ HostTimeout \/ HostInterrupt
    PROVE  TransferInv'
<1> USE DEF deviceVars, ctxVars, fsVars
<1>t. /\ "C" \in Char /\ "ACK" \in Char /\ "NAK" \in Char /\ "CA" \in Char
      /\ "ACK" \in Reply /\ "NAK" \in Reply
  BY DEF Char, Reply
<1>s. UNCHANGED stage => (Fresh' <=> Fresh) /\ (Receiving' <=> Receiving)
  BY DEF Fresh, Receiving
<1>1. CASE HostSendHeader
  <2>1. /\ pc = "waitC" /\ pc' = "waitHdrAck" /\ job' = job
        /\ Send(Packet("header", 0)) /\ Received("C") /\ Consume
    BY <1>1 DEF HostSendHeader
  <2>2. Quieter(toHost, toHost')
    BY <2>1, <1>t, ConsumeReply
  <2>3. /\ Fresh /\ NoReply(toHost) /\ Len(toDev) <= 1
        /\ OnlyKinds(toDev, {"cmd"})
    BY <2>1 DEF TransferInv, HeaderInv
  <2>4. OnlyKinds(toDev, {"cmd", "header", "eot", "fin"})
    BY <2>3 DEF OnlyKinds
  <2>5. LineInv' /\ ReceivingInv'
    BY <2>1, <2>4, HostKeeps
  <2>6. NoReply(toHost') /\ OneReply(toHost')
    BY <2>2, <2>3, Silence DEF Quieter, TypeOK, LineTypeOK
  <2>7. /\ Len(toDev) \in Nat
        /\ Len(toDev') = Len(toDev) + 1
        /\ \A i \in 1..Len(toDev) : toDev'[i] = toDev[i]
        /\ toDev'[Len(toDev) + 1] = [kind |-> "header", name |-> job, blk |-> 0]
    BY <2>1, SendLine
  <2>8. ASSUME NEW i \in 1..Len(toDev')
        PROVE  /\ toDev'[i].kind \in {"cmd", "header"}
               /\ toDev'[i].kind = "header" => i = Len(toDev')
    <3>1. CASE i = Len(toDev) + 1
      BY <3>1, <2>7
    <3>2. CASE i # Len(toDev) + 1
      <4>1. i \in 1..Len(toDev)
        BY <2>7, <3>2
      <4> QED BY <4>1, <2>3, <2>7 DEF OnlyKinds
    <3> QED BY <3>1, <3>2
  <2> QED BY <2>1, <2>3, <2>5, <2>6, <2>8, <1>s
          DEF TransferInv, HeaderInv, DataInv, EndInv, OnlyKinds
<1>2. CASE HostHeaderAcked
  <2>1. /\ pc = "waitHdrAck" /\ pc' = "waitHdrC" /\ job' = job
        /\ Received("ACK") /\ Consume /\ toDev' = toDev
    BY <1>2 DEF HostHeaderAcked
  <2>2. NoReply(toHost')
    BY <2>1, <1>t, ConsumeReply DEF TransferInv, HeaderInv
  <2>3. toDev = <<>>
    BY <2>1, <1>t, ReceivedReply DEF TransferInv, HeaderInv
  <2>4. LineInv' /\ ReceivingInv'
    BY <2>1, HostKeeps
  <2>5. Fresh \/ (Receiving /\ received_size = 0)
    BY <2>1 DEF TransferInv, HeaderInv
  <2> QED BY <2>1, <2>2, <2>3, <2>4, <2>5, <1>s
          DEF TransferInv, HeaderInv, DataInv, EndInv
<1>3. CASE HostFirstPacket
  <2>1. /\ pc = "waitHdrC" /\ Received("C") /\ Consume
        /\ SendNext(1) /\ blk' = 1 /\ job' = job
    BY <1>3 DEF HostFirstPacket
  <2>2. /\ Fresh \/ (Receiving /\ received_size = 0)
        /\ toDev = <<>> /\ NoReply(toHost)
    BY <2>1 DEF TransferInv, HeaderInv
  <2>3. NoReply(toHost')
    BY <2>1, <2>2, <1>t, ConsumeReply DEF Quieter
  <2>4. received_size = 0 => received_size = IF HasBlock(job, 1)
                                THEN Offset(1) ELSE Size[job]
    <3>1. 1 \in Nat /\ job \in Names
      BY DEF TypeOK, HostTypeOK
    <3>2. Offset(1) = 0 /\ (HasBlock(job, 1) <=> 0 < Size[job])
      BY <3>1, BlockStep DEF HasBlock
    <3>3. Size[job] \in Nat
      BY <3>1
    <3> QED BY <3>2, <3>3
  <2>5. 1 \in Nat /\ 1 >= 1
    OBVIOUS
  <2>6. Receiving => received_size = IF HasBlock(job, 1)
                                     THEN Offset(1) ELSE Size[job]
    BY <2>2, <2>4 DEF Fresh, Receiving
  <2> QED BY <2>1, <2>2, <2>3, <2>5, <2>6, NextPacket
<1>4. CASE HostPacketAcked
  <2>1. /\ pc = "waitData" /\ Received("ACK") /\ ConsumeAndClear
        /\ SendNext(blk + 1) /\ blk' = blk + 1 /\ job' = job
    BY <1>4 DEF HostPacketAcked
  <2>2. Holds(toHost, "ACK") /\ ~NoReply(toHost)
    BY <2>1, <1>t, ReceivedReply
  <2>3. /\ Fresh \/ Receiving
        /\ blk >= 1 /\ toDev = <<>> /\ OneReply(toHost)
        /\ Receiving => received_size = IF HasBlock(job, blk + 1)
                                         THEN Offset(blk + 1) ELSE Size[job]
    BY <2>1, <2>2 DEF TransferInv, DataInv
  <2>4. NoReply(toHost')
    BY <2>1, <2>3, <1>t, ConsumeReply
  <2>5. blk + 1 \in Nat /\ blk + 1 >= 1
    BY DEF TypeOK, HostTypeOK
  <2> QED BY <2>1, <2>3, <2>4, <2>5, NextPacket
<1>5. CASE HostPacketRefused
  <2>1. /\ pc = "waitData" /\ Received("NAK") /\ ConsumeAndClear
    BY <1>5 DEF HostPacketRefused
  <2>2. Holds(toHost, "NAK") /\ ~NoReply(toHost)
    BY <2>1, <1>t, ReceivedReply
  <2>3. /\ Fresh \/ Receiving
        /\ blk >= 1 /\ HasBlock(job, blk) /\ toDev = <<>> /\ OneReply(toHost)
        /\ Receiving => received_size = Offset(blk)
    BY <2>1, <2>2 DEF TransferInv, DataInv
  <2>4. NoReply(toHost')
    BY <2>1, <2>3, <1>t, ConsumeReply
  <2>5. CASE Send(Packet("data", blk)) /\ UNCHANGED <<pc, job, blk>>
    <3>1. SendNext(blk) /\ blk' = blk
      BY <2>1, <2>3, <2>5 DEF SendNext
    <3>2. blk \in Nat
      BY DEF TypeOK, HostTypeOK
    <3> QED BY <2>3, <2>4, <2>5, <3>1, <3>2, NextPacket
  <2>6. CASE End("failed") /\ UNCHANGED toDev
    BY <2>6, GivingUp
  <2> QED BY <1>5, <2>5, <2>6 DEF HostPacketRefused
<1>6. CASE HostCancelled
  BY <1>6, GivingUp DEF HostCancelled
<1>7. CASE HostSecondEot
  <2>1. /\ pc = "waitEot1" /\ pc' = "waitEot2" /\ job' = job
        /\ Send(Packet("eot", 0))
    BY <1>7 DEF HostSecondEot
  <2>2. PICK k \in 0..Len(toHost) : toHost' = SubSeq(toHost, k + 1, Len(toHost))
    BY <1>7 DEF HostSecondEot
  <2>3. Quieter(toHost, toHost')
    <3>1. Quieter(toHost, SubSeq(toHost, k + 1, Len(toHost)))
      BY DropQuieter DEF TypeOK, LineTypeOK
    <3> QED BY <2>2, <3>1, Zenon
  <2>4. OnlyKinds(toDev, {"eot"})
    BY <2>1 DEF TransferInv, EndInv
  <2>5. OnlyKinds(toDev, {"cmd", "header", "eot", "fin"})
    BY <2>4 DEF OnlyKinds
  <2>6. LineInv' /\ ReceivingInv'
    BY <2>1, <2>5, HostKeeps
  <2>7. OnlyKinds(toDev', {"eot"})
    <3>1. /\ Len(toDev) \in Nat
          /\ Len(toDev') = Len(toDev) + 1
          /\ \A i \in 1..Len(toDev) : toDev'[i] = toDev[i]
          /\ toDev'[Len(toDev) + 1] = [kind |-> "eot", name |-> job, blk |-> 0]
      BY <2>1, SendLine
    <3> QED BY <2>4, <3>1 DEF OnlyKinds
  <2>8. Holds(toHost', "ACK") => Holds(toHost, "ACK")
    BY <2>3, <1>t DEF Quieter
  <2>9. Stored' <=> Stored
    BY <2>1 DEF Stored, Source, Prefix
  <2> QED BY <2>1, <2>6, <2>7, <2>8, <2>9, <1>s
          DEF TransferInv, HeaderInv, DataInv, EndInv
<1>8. CASE HostEotAcked
  <2>1. /\ pc = "waitEot2" /\ pc' = "waitFinC" /\ job' = job
        /\ Received("ACK") /\ toDev' = toDev
    BY <1>8 DEF HostEotAcked
  <2>2. Stored /\ ~Receiving /\ OnlyKinds(toDev, {"eot"})
    BY <2>1, <1>t, ReceivedReply DEF TransferInv, EndInv
  <2>3. Stored' /\ OnlyKinds(toDev', {"eot", "fin"})
    BY <2>1, <2>2 DEF Stored, Source, Prefix, OnlyKinds
  <2>4. LineInv' /\ ReceivingInv'
    BY <2>1, HostKeeps
  <2> QED BY <2>1, <2>2, <2>3, <2>4, <1>s
          DEF TransferInv, HeaderInv, DataInv, EndInv
<1>9. CASE HostSendFinal
  <2>1. /\ pc = "waitFinC" /\ pc' = "waitFinAck" /\ job' = job
        /\ Send(Packet("fin", 0))
    BY <1>9 DEF HostSendFinal
  <2>2. Stored /\ ~Receiving /\ OnlyKinds(toDev, {"eot", "fin"})
    BY <2>1 DEF TransferInv, EndInv
  <2>3. OnlyKinds(toDev, {"cmd", "header", "eot", "fin"})
    BY <2>2 DEF OnlyKinds
  <2>4. LineInv' /\ ReceivingInv'
    BY <2>1, <2>3, HostKeeps
  <2>5. OnlyKinds(toDev', {"eot", "fin"})
    <3>1. /\ Len(toDev) \in Nat
          /\ Len(toDev') = Len(toDev) + 1
          /\ \A i \in 1..Len(toDev) : toDev'[i] = toDev[i]
          /\ toDev'[Len(toDev) + 1] = [kind |-> "fin", name |-> job, blk |-> 0]
      BY <2>1, SendLine
    <3> QED BY <2>2, <3>1 DEF OnlyKinds
  <2>6. Stored'
    BY <2>1, <2>2 DEF Stored, Source, Prefix
  <2> QED BY <2>1, <2>2, <2>4, <2>5, <2>6, <1>s
          DEF TransferInv, HeaderInv, DataInv, EndInv
<1>10. CASE HostComplete
  <2>1. /\ pc = "waitFinAck" /\ pc' = "complete" /\ job' = job /\ toDev' = toDev
    BY <1>10 DEF HostComplete, End
  <2>2. Stored' /\ ~Receiving /\ OnlyKinds(toDev', {"eot", "fin"})
    BY <2>1 DEF TransferInv, EndInv, Stored, Source, Prefix, OnlyKinds
  <2>3. LineInv' /\ ReceivingInv'
    BY <2>1, HostKeeps
  <2> QED BY <2>1, <2>2, <2>3, <1>s DEF TransferInv, HeaderInv, DataInv, EndInv
<1>11. CASE HostSkip
  <2>1. UNCHANGED <<toDev, hostVars>> /\ toHost # <<>> /\ toHost' = Tail(toHost)
    BY <1>11 DEF HostSkip, Consume
  <2>2. Quieter(toHost, toHost')
    BY <2>1, TailQuieter DEF TypeOK, LineTypeOK
  <2>3. SuffixOf(toDev, toDev')
    BY <2>1, LenProperties DEF SuffixOf, TypeOK, LineTypeOK
  <2>4. Stored => Stored'
    BY <2>1 DEF Stored, Source, Prefix, hostVars
  <2> QED BY <2>1, <2>2, <2>3, <2>4, <1>s, Calm
<1>12. CASE HostTimeout \/ HostInterrupt
  BY <1>12, GivingUp DEF HostTimeout, HostInterrupt, lineVars
<1> QED
  BY <1>1, <1>2, <1>3, <1>4, <1>5, <1>6, <1>7, <1>8, <1>9, <1>10, <1>11,
     <1>12 DEF HostStep

\* The watch reads a frame: no data packet is left behind it.
LEMMA ReadLine ==
    ASSUME TypeOK, TransferInv, toDev # <<>>, ReadFrame, job' = job
    PROVE  /\ LineInv'
           /\ SuffixOf(toDev, toDev')
           /\ Head(toDev) = toDev[1] /\ 1 \in 1..Len(toDev)
           /\ Len(toDev) = 1 => toDev' = <<>>
           /\ \A K : OnlyKinds(toDev, K) => /\ Head(toDev).kind \in K
                                          /\ OnlyKinds(toDev', K)
<1>1. toDev \in Seq(Frame) /\ toDev' = Tail(toDev)
  BY DEF TypeOK, LineTypeOK, ReadFrame
<1>2. /\ SuffixOf(toDev, Tail(toDev))
      /\ Len(toDev) \in Nat /\ Len(toDev) >= 1
      /\ Head(toDev) = toDev[1]
      /\ Len(Tail(toDev)) = Len(toDev) - 1
      /\ Len(toDev) = 1 => Tail(toDev) = <<>>
  BY <1>1, TailSuffix
<1>3. SuffixOf(toDev, toDev') /\ Len(toDev') = Len(toDev) - 1
  BY <1>1, <1>2, Zenon
<1>4. \A i \in 1..Len(toDev') : toDev'[i] = toDev[i + 1] /\ i + 1 \in 1..Len(toDev)
  BY <1>2, <1>3 DEF SuffixOf
<1>5. LineInv'
  <2>1. \A i \in 1..Len(toDev') : toDev'[i].name = job'
    BY <1>4 DEF TransferInv, LineInv
  <2>2. \A i \in 1..Len(toDev') : toDev'[i].kind # "data"
    <3> SUFFICES ASSUME NEW i \in 1..Len(toDev'), toDev'[i].kind = "data"
                 PROVE  FALSE
      OBVIOUS
    <3>1. Len(toDev) = 1
      BY <1>4 DEF TransferInv, LineInv
    <3> QED BY <3>1, <1>3
  <2> QED BY <2>1, <2>2 DEF LineInv
<1>6. \A K : OnlyKinds(toDev, K) => /\ toDev[1].kind \in K
                                   /\ OnlyKinds(toDev', K)
  BY <1>2, <1>4 DEF OnlyKinds
<1> QED
  BY <1>1, <1>2, <1>3, <1>5, <1>6

\* Which waits the kind of the frame at hand rules out.
LEMMA WhoSent ==
    ASSUME TypeOK, TransferInv, toDev # <<>>, ReadFrame, job' = job
    PROVE  /\ Head(toDev).kind = "header" => pc \in {"waitHdrAck", "failed"}
           /\ Head(toDev).kind = "data"   => pc \in {"waitData", "failed"}
           /\ Head(toDev).kind = "eot"    =>
                 pc \in {"waitEot1", "waitEot2", "waitFinC", "waitFinAck",
                        "complete", "failed"}
           /\ Head(toDev).kind = "fin"    =>
                 pc \in {"waitFinC", "waitFinAck", "complete", "failed"}
<1>1. pc \in Waits \cup Ended
  BY DEF TypeOK, HostTypeOK
<1>2. \A K : OnlyKinds(toDev, K) => Head(toDev).kind \in K
  BY ReadLine
<1>3. pc \notin {"idle", "waitHdrC"}
  BY DEF TransferInv, HeaderInv
<1>4. pc = "waitC" => Head(toDev).kind \in {"cmd"}
  BY <1>2 DEF TransferInv, HeaderInv
<1>5. pc = "waitHdrAck" => Head(toDev).kind \in {"cmd", "header"}
  BY <1>2 DEF TransferInv, HeaderInv
<1>6. pc = "waitData" => Head(toDev).kind \in {"data"}
  BY <1>2 DEF TransferInv, DataInv
<1>7. pc \in {"waitEot1", "waitEot2"} => Head(toDev).kind \in {"eot"}
  BY <1>2 DEF TransferInv, EndInv
<1>8. pc \in {"waitFinC", "waitFinAck", "complete"}
        => Head(toDev).kind \in {"eot", "fin"}
  BY <1>2 DEF TransferInv, EndInv
<1> QED
  BY <1>1, <1>3, <1>4, <1>5, <1>6, <1>7, <1>8 DEF Waits, Ended

\* The steps that end a session, or never began one.
LEMMA QuietDevice ==
    ASSUME TypeOK, TypeOK', TransferInv, UNCHANGED hostVars,
           \/ ShellReads \/ OperatorTypesYrcv \/ YrcvDrain \/ HandshakeSendC
           \/ HandshakeIgnores \/ SessionTimeout \/ DeviceRestart
           \/ toDev # <<>> /\ ReadFrame /\ stage' = "shell"
                /\ UNCHANGED <<toHost, files, dirty>>
    PROVE  TransferInv'
<1>1. /\ toDev \in Seq(Frame) /\ Len(toDev) \in Nat
      /\ toHost \in Seq(Char) /\ job' = job
  BY LenProperties DEF TypeOK, LineTypeOK, hostVars
<1>2. SuffixOf(toDev, <<>>) /\ SuffixOf(toDev, toDev)
  <2>1. Len(<<>>) = 0
    BY EmptySeq
  <2> QED BY <1>1, <2>1 DEF SuffixOf
<1>3. SuffixOf(toDev, toDev')
  <2>1. CASE toDev # <<>> /\ ReadFrame
    BY <2>1, <1>1, ReadLine
  <2>2. CASE toDev' = <<>> \/ toDev' = toDev
    BY <2>2, <1>2
  <2> QED BY <2>1, <2>2 DEF ShellReads, OperatorTypesYrcv, YrcvDrain,
          HandshakeSendC, HandshakeIgnores, SessionTimeout, DeviceRestart, lineVars
<1>4. Quieter(toHost, toHost')
  <2>1. CASE toHost' = toHost
    BY <2>1 DEF Quieter
  <2>2. CASE HandshakeSendC
    BY <2>2, PutNoise DEF HandshakeSendC
  <2> QED BY <2>1, <2>2 DEF ShellReads, OperatorTypesYrcv, YrcvDrain,
          HandshakeIgnores, SessionTimeout, DeviceRestart, lineVars
<1>5. Fresh'
  BY DEF ShellReads, OperatorTypesYrcv, YrcvDrain, HandshakeSendC,
         HandshakeIgnores, SessionTimeout, DeviceRestart, Fresh
<1>6. Stored => Stored'
  <2>1. CASE UNCHANGED <<files, dirty>>
    BY <2>1, <1>1 DEF Stored, Source, Prefix
  <2>2. CASE DeviceRestart
    <3>1. \A p \in Paths \ dirty : files'[p] = files[p]
      BY <2>2, RestartFiles
    <3>2. DevPath[job] \in Paths /\ dirty' = {}
      BY <2>2 DEF DeviceRestart, Paths, TypeOK, HostTypeOK
    <3> QED BY <3>1, <3>2, <1>1 DEF Stored, Source, Prefix
  <2> QED BY <2>1, <2>2 DEF ShellReads, OperatorTypesYrcv, YrcvDrain,
          HandshakeSendC, HandshakeIgnores, SessionTimeout, fsVars
<1> QED
  BY <1>3, <1>4, <1>5, <1>6, Calm

\* The header opens a new, empty file under the name of the job, or ends yrcv.
LEMMA HeaderStep ==
    ASSUME TypeOK, TypeOK', TransferInv, UNCHANGED hostVars, ReceiveHeader
    PROVE  TransferInv'
<1> DEFINE n == Head(toDev).name
<1>1. /\ Fresh /\ toDev # <<>> /\ ReadFrame /\ Head(toDev).kind = "header"
      /\ UNCHANGED <<pc, job, blk>>
  BY DEF ReceiveHeader, Incoming, Fresh, hostVars
<1>2. /\ LineInv' /\ SuffixOf(toDev, toDev') /\ Head(toDev) = toDev[1]
      /\ 1 \in 1..Len(toDev) /\ (Len(toDev) = 1 => toDev' = <<>>)
  BY <1>1, ReadLine
<1>3. n = job
  BY <1>2 DEF TransferInv, LineInv
<1>4. pc \in {"waitHdrAck", "failed"}
  BY <1>1, WhoSent
<1>5. /\ job \in Names /\ DevPath[job] \in Paths /\ Size[job] \in Nat
  BY DEF TypeOK, HostTypeOK, Paths
<1>6. ASSUME NEW fd \in Fd, on_begin_ack(n, fd), Put(<<"ACK", "C">>),
             stage' = "transmitting"
      PROVE  TransferInv'
  <2>1. ReceivingInv'
    <3>1. Prefix(job, 0) = <<>>
      <4>1. Prefix(job, 0) \in Seq(Datum) /\ Len(Prefix(job, 0)) = 0
        BY <1>5, PrefixType
      <4> QED BY <4>1, NothingLeft
    <3>2. files'[DevPath[job]] = <<>>
      BY <1>3, <1>5, <1>6 DEF on_begin_ack, TypeOK, DeviceTypeOK
    <3>3. file_fd' >= 0
      BY <1>6 DEF on_begin_ack, Fd
    <3> QED BY <1>1, <1>3, <1>5, <1>6, <3>1, <3>2, <3>3
            DEF on_begin_ack, ReceivingInv, Prefix
  <2>2. CASE pc = "failed"
    BY <2>1, <2>2, <1>1, <1>2 DEF TransferInv, HeaderInv, DataInv, EndInv
  <2>3. CASE pc = "waitHdrAck"
    <3>1. NoReply(toHost) /\ toDev' = <<>>
      BY <2>3, <1>1, <1>2 DEF TransferInv, HeaderInv
    <3>2. OneReply(toHost')
      BY <1>6, <3>1, PutReply DEF Reply
    <3>3. received_size' = 0 /\ Receiving' /\ Len(toDev') = 0
      BY <1>6, <3>1, EmptySeq DEF on_begin_ack, Receiving
    <3>4. HeaderInv'
      BY <2>3, <1>1, <3>1, <3>2, <3>3 DEF HeaderInv, OnlyKinds
    <3> QED BY <2>1, <2>3, <1>1, <1>2, <3>4
            DEF TransferInv, DataInv, EndInv
  <2> QED BY <1>4, <2>2, <2>3
<1>7. ASSUME on_begin_can(n), stage' = "shell", UNCHANGED toHost
      PROVE  TransferInv'
  BY <1>1, <1>7, QuietDevice DEF on_begin_can, fsVars
<1> QED
  BY <1>6, <1>7 DEF ReceiveHeader

\* on_data: the packet at hand continues the file, and is cut at its end.
LEMMA DataStep ==
    ASSUME TypeOK, TypeOK', TransferInv, UNCHANGED hostVars, ReceiveData
    PROVE  TransferInv'
<1> DEFINE f == Head(toDev)
<1>1. /\ Receiving /\ toDev # <<>> /\ ReadFrame /\ f.kind = "data"
      /\ UNCHANGED <<pc, job, blk>>
  BY DEF ReceiveData, Incoming, Receiving, hostVars
<1>2. /\ LineInv' /\ f = toDev[1]
      /\ 1 \in 1..Len(toDev) /\ (Len(toDev) = 1 => toDev' = <<>>)
  BY <1>1, ReadLine
<1>3. /\ f.name = job /\ f.blk >= 1 /\ HasBlock(job, f.blk) /\ toDev' = <<>>
      /\ received_size = Offset(f.blk)
  BY <1>1, <1>2 DEF TransferInv, LineInv
<1>4. f \in Frame /\ f.blk \in Nat /\ job \in Names /\ Size[job] \in Nat
      /\ received_size \in Nat /\ DevPath[job] \in Paths
  BY <1>1, HeadFrame DEF Frame, TypeOK, HostTypeOK, DeviceTypeOK, Paths
<1>5. /\ file_size = Size[job] /\ file_path = DevPath[job]
      /\ files[file_path] = Prefix(job, received_size) /\ file_fd >= 0
  BY <1>1 DEF TransferInv, ReceivingInv
<1>6. pc \in {"waitData", "failed"}
  BY <1>1, WhoSent
<1>7. pc = "waitData" => NoReply(toHost) /\ f.blk = blk
  BY <1>1, <1>2 DEF TransferInv, DataInv
<1>8. toHost \in Seq(Char) /\ Len(toDev') = 0
  BY <1>3, EmptySeq DEF TypeOK, LineTypeOK
<1>9. ASSUME on_data_ack(f), Put(<<"ACK">>), stage' = stage
      PROVE  TransferInv'
  <2>1. DataLen \in Nat /\ DataLen > 0
    BY <1>9, DataLenType DEF on_data_ack
  <2>2. received_size' = received_size + DataLen
    BY <1>9 DEF on_data_ack
  <2>3. /\ received_size + DataLen <= Size[job]
        /\ received_size + DataLen = IF HasBlock(job, f.blk + 1)
                          THEN Offset(f.blk + 1) ELSE Size[job]
    <3> HIDE DEF f
    <3>1. Offset(f.blk + 1) = received_size + PacketSize
      BY <1>3, <1>4, BlockStep
    <3>2. received_size < Size[job]
      BY <1>3 DEF HasBlock
    <3> QED BY <3>1, <3>2, <1>4, <1>5 DEF DataLen, HasBlock
  <2>4. files'[DevPath[job]] = Prefix(job, received_size + DataLen)
    <3>1. files'[file_path] = files[file_path] \o Chunk(job, f.blk, DataLen)
      BY <1>9, <1>3, <1>4, <1>5 DEF on_data_ack, WriteChunk, TypeOK, DeviceTypeOK
    <3>2. Prefix(job, received_size) \o Chunk(job, f.blk, DataLen)
            = Prefix(job, received_size + DataLen)
      <4> HIDE DEF f
      <4>1. /\ job \in Names /\ f.blk \in Nat /\ DataLen \in Nat
            /\ received_size \in Nat /\ received_size = Offset(f.blk)
            /\ received_size + DataLen <= Size[job]
        BY <1>3, <1>4, <2>1, <2>3
      <4>2. Prefix(job, Offset(f.blk)) \o Chunk(job, f.blk, DataLen)
              = Prefix(job, Offset(f.blk) + DataLen)
        BY <4>1, PrefixGrows
      <4> QED BY <4>1, <4>2, Zenon
    <3> QED BY <3>1, <3>2, <1>5
  <2>5. /\ UNCHANGED <<file_fd, file_size, file_path>>
        /\ Receiving'
    BY <1>1, <1>9, <2>2 DEF on_data_ack, Receiving
  <2>6. ReceivingInv'
    BY <1>1, <1>5, <2>2, <2>3, <2>4, <2>5 DEF ReceivingInv, Prefix
  <2>7. DataInv'
    <3> SUFFICES ASSUME pc = "waitData" PROVE DataInv'
      BY <1>1 DEF DataInv
    <3>1. OneReply(toHost') /\ (Holds(toHost', "NAK") => Holds(toHost, "NAK"))
      BY <1>7, <1>9, PutReply DEF Reply
    <3>2. ~Holds(toHost', "NAK")
      BY <1>7, <1>8, <3>1, Silence DEF Reply
    <3>3. received_size' = IF HasBlock(job, blk + 1)
                           THEN Offset(blk + 1) ELSE Size[job]
      BY <1>7, <2>2, <2>3
    <3>4. blk >= 1 /\ HasBlock(job, blk)
      BY DEF TransferInv, DataInv
    <3> QED BY <1>1, <1>3, <1>8, <2>5, <3>1, <3>2, <3>3, <3>4
            DEF DataInv, OnlyKinds, HasBlock
  <2> QED BY <1>1, <1>2, <1>6, <2>6, <2>7 DEF TransferInv, HeaderInv, EndInv
<1>10. ASSUME Put(<<"CA">>), stage' = "shell"
       PROVE  TransferInv'
  <2>1. ~Receiving' /\ Fresh'
    BY <1>10 DEF Receiving, Fresh
  <2>2. ReceivingInv'
    BY <2>1 DEF ReceivingInv
  <2>3. DataInv'
    <3> SUFFICES ASSUME pc = "waitData" PROVE DataInv'
      BY <1>1 DEF DataInv
    <3>1. OneReply(toHost')
      BY <1>7, <1>10, PutReply DEF Reply
    <3>2. blk >= 1 /\ HasBlock(job, blk)
      BY DEF TransferInv, DataInv
    <3> QED BY <1>1, <1>3, <1>8, <2>1, <3>1, <3>2 DEF DataInv, OnlyKinds, HasBlock
  <2> QED BY <1>1, <1>2, <1>6, <2>2, <2>3 DEF TransferInv, HeaderInv, EndInv
<1> QED
  BY <1>9, <1>10 DEF ReceiveData

\* The first EOT finds the whole file received; on_end closes it.
LEMMA EotStep ==
    ASSUME TypeOK, TypeOK', TransferInv, UNCHANGED hostVars, ReceiveEot
    PROVE  TransferInv'
<1>1. /\ Receiving /\ toDev # <<>> /\ ReadFrame /\ Head(toDev).kind = "eot"
      /\ UNCHANGED <<pc, job, blk>> /\ on_end /\ Put(<<"NAK">>)
      /\ stage' = "finishing"
  BY DEF ReceiveEot, Incoming, Receiving, hostVars
<1>2. LineInv' /\ \A K : OnlyKinds(toDev, K) => OnlyKinds(toDev', K)
  BY <1>1, ReadLine
<1>3. pc \in {"waitEot1", "waitEot2", "failed"}
  <2>1. pc \notin {"waitFinC", "waitFinAck", "complete"}
    BY <1>1 DEF TransferInv, EndInv
  <2> QED BY <1>1, <2>1, WhoSent
<1>4. ReceivingInv' /\ ~Receiving'
  BY <1>1 DEF ReceivingInv, Receiving
<1>5. CASE pc = "failed"
  BY <1>1, <1>2, <1>4, <1>5 DEF TransferInv, HeaderInv, DataInv, EndInv
<1>6. CASE pc \in {"waitEot1", "waitEot2"}
  <2>1. /\ file_fd >= 0 /\ file_path = DevPath[job]
        /\ files[file_path] = Prefix(job, received_size)
        /\ received_size = Size[job]
        /\ OnlyKinds(toDev, {"eot"}) /\ ~Holds(toHost, "ACK")
    BY <1>1, <1>6 DEF TransferInv, ReceivingInv, EndInv
  <2>2. Stored'
    BY <1>1, <2>1 DEF on_end, Stored, Source, Prefix
  <2>3. ~Holds(toHost', "ACK")
    <3>1. Put(<<"NAK">>) \/ Put(<<"NAK", "C">>)
      BY <1>1
    <3> QED BY <2>1, <3>1, PutReply DEF Reply
  <2> QED BY <1>1, <1>2, <1>4, <1>6, <2>1, <2>2, <2>3
          DEF TransferInv, HeaderInv, DataInv, EndInv
<1> QED
  BY <1>3, <1>5, <1>6

\* The second EOT and the final packet are answered for a file that is stored.
LEMMA FinishSteps ==
    ASSUME TypeOK, TypeOK', TransferInv, UNCHANGED hostVars,
           ReceiveSecondEot \/ ReceiveFinal
    PROVE  TransferInv'
<1>1. /\ stage \in {"finishing", "closing"} /\ toDev # <<>> /\ ReadFrame
      /\ Head(toDev).kind \in {"eot", "fin"}
      /\ UNCHANGED <<pc, job, blk, files, dirty>>
      /\ stage' \in {"closing", "shell"}
      /\ Put(<<"ACK">>) \/ Put(<<"ACK", "C">>)
  BY DEF ReceiveSecondEot, ReceiveFinal, Incoming, hostVars, fsVars
<1>2. LineInv' /\ \A K : OnlyKinds(toDev, K) => OnlyKinds(toDev', K)
  BY <1>1, ReadLine
<1>3. pc \in {"waitEot1", "waitEot2", "waitFinC", "waitFinAck", "complete",
             "failed"}
  BY <1>1, WhoSent
<1>4. ReceivingInv' /\ ~Receiving'
  BY <1>1 DEF ReceivingInv, Receiving
<1>5. pc # "failed" => Stored
  BY <1>1, <1>3 DEF TransferInv, EndInv
<1>6. pc # "failed" => Stored'
  BY <1>1, <1>5 DEF Stored, Source, Prefix
<1> QED
  BY <1>1, <1>2, <1>3, <1>4, <1>6 DEF TransferInv, HeaderInv, DataInv, EndInv

\* A damaged packet is asked for again: nothing of it has been written.
LEMMA DamagedStep ==
    ASSUME TypeOK, TypeOK', TransferInv, UNCHANGED hostVars, ReceiveDamaged
    PROVE  TransferInv'
<1>1. /\ toDev # <<>> /\ ReadFrame /\ UNCHANGED <<ctxVars, fsVars>>
      /\ UNCHANGED <<pc, job, blk>>
  BY DEF ReceiveDamaged, hostVars
<1>2. CASE stage' = "shell" /\ UNCHANGED toHost
  BY <1>1, <1>2, QuietDevice DEF fsVars
<1>3. CASE Receiving /\ Put(<<"NAK">>) /\ stage' = stage
  <2>1. /\ LineInv' /\ \A K : OnlyKinds(toDev, K) => OnlyKinds(toDev', K)
        /\ Head(toDev) = toDev[1] /\ 1 \in 1..Len(toDev)
        /\ Len(toDev) = 1 => toDev' = <<>>
    BY <1>1, ReadLine
  <2>2. ReceivingInv' /\ Receiving' /\ received_size' = received_size
    BY <1>1, <1>3 DEF TransferInv, ReceivingInv, Receiving, ctxVars, fsVars, Prefix
  <2>3. pc \notin {"idle", "waitC", "waitHdrAck", "waitHdrC", "waitFinC",
                  "waitFinAck", "complete"}
    BY <1>1, <1>3 DEF TransferInv, HeaderInv, EndInv, Fresh, Receiving
  <2>4. toHost \in Seq(Char) /\ "NAK" \in Reply /\ "ACK" \in Reply
    BY DEF TypeOK, LineTypeOK, Reply
  <2>5. /\ NoReply(toHost) => OneReply(toHost')
        /\ Holds(toHost', "ACK") => Holds(toHost, "ACK")
    BY <1>3, <2>4, PutReply
  <2>6. DataInv'
    <3> SUFFICES ASSUME pc = "waitData" PROVE DataInv'
      BY <1>1 DEF DataInv
    <3>1. /\ NoReply(toHost) /\ OnlyKinds(toDev, {"data"})
          /\ toDev[1].blk = blk /\ blk >= 1 /\ HasBlock(job, blk)
      BY <1>1, <2>1 DEF TransferInv, DataInv
    <3>2. toDev[1].kind = "data"
      BY <2>1, <3>1 DEF OnlyKinds
    <3>3. Len(toDev) = 1 /\ received_size = Offset(blk)
      BY <1>3, <2>1, <3>1, <3>2 DEF TransferInv, LineInv
    <3>4. toDev' = <<>> /\ Len(toDev') = 0
      BY <2>1, <3>3, EmptySeq
    <3>5. OneReply(toHost') /\ ~Holds(toHost', "ACK")
      BY <2>4, <2>5, <3>1, Silence
    <3> QED BY <1>1, <2>2, <3>1, <3>3, <3>4, <3>5
            DEF DataInv, OnlyKinds, HasBlock
  <2>7. EndInv'
    <3> SUFFICES ASSUME pc \in {"waitEot1", "waitEot2"} PROVE EndInv'
      BY <1>1, <2>3 DEF EndInv
    <3>1. /\ OnlyKinds(toDev, {"eot"}) /\ received_size = Size[job]
          /\ ~Holds(toHost, "ACK")
      BY <1>3 DEF TransferInv, EndInv
    <3> QED BY <1>1, <1>3, <2>1, <2>2, <2>5, <3>1 DEF EndInv, Receiving
  <2> QED BY <1>1, <2>1, <2>2, <2>3, <2>6, <2>7 DEF TransferInv, HeaderInv
<1> QED
  BY <1>2, <1>3 DEF ReceiveDamaged, Receiving

-----------------------------------------------------------------------------
(***************************************************************************)
(* The theorems.                                                           *)
(***************************************************************************)

\* Before the first transfer the line is empty and yrcv does not run.
LEMMA TransferInit == Init => TransferInv
<1> SUFFICES ASSUME Init PROVE TransferInv
  OBVIOUS
<1>1. Len(toDev) = 0 /\ Len(toHost) = 0
  BY EmptySeq DEF Init
<1> QED
  BY <1>1 DEF Init, HostInit, DeviceInit, TransferInv, LineInv, ReceivingInv,
              HeaderInv, DataInv, EndInv, Receiving, Fresh

\* Every step of the tool, the watch and the line keeps TransferInv.
LEMMA TransferNext == TypeOK /\ TypeOK' /\ TransferInv /\ [Next]_vars => TransferInv'
<1> SUFFICES ASSUME TypeOK, TypeOK', TransferInv, [Next]_vars PROVE TransferInv'
  OBVIOUS
<1>t. /\ toDev \in Seq(Frame) /\ Len(toDev) \in Nat
      /\ toHost \in Seq(Char)
  BY LenProperties DEF TypeOK, LineTypeOK
<1>s. SuffixOf(toDev, toDev)
  BY <1>t DEF SuffixOf
<1>1. ASSUME NEW n \in Names, NEW pre_cmd \in BOOLEAN, StartTransfer(n, pre_cmd)
      PROVE  TransferInv'
  <2>1. /\ Fresh' /\ ~Receiving' /\ pc' = "waitC" /\ job' = n /\ toHost' = <<>>
        /\ \/ toDev' = <<>>
           \/ toDev' = <<[kind |-> "cmd", name |-> n, blk |-> 0]>>
    BY <1>1 DEF StartTransfer, HostStart, Fresh, Receiving, deviceVars
  <2>2. Len(toDev') <= 1 /\ Len(toDev') \in Nat /\ NoReply(toHost')
    <3>1. Len(toHost') = 0
      BY <2>1, EmptySeq
    <3>2. Len(toDev') = 0 \/ Len(toDev') = 1
      BY <2>1, EmptySeq
    <3>3. NoReply(toHost')
      BY <3>1 DEF NoReply
    <3>4. Len(toDev') \in Nat
      BY LenProperties DEF TypeOK, LineTypeOK
    <3>5. Len(toDev') <= 1
      <4>1. CASE Len(toDev') = 0
        BY <4>1
      <4>2. CASE Len(toDev') = 1
        BY <4>2
      <4> QED BY <3>2, <4>1, <4>2
    <3> QED BY <3>3, <3>4, <3>5
  <2>3. \A i \in 1..Len(toDev') : toDev'[i].kind = "cmd" /\ toDev'[i].name = n
    BY <2>1, EmptySeq
  <2> QED BY <2>1, <2>2, <2>3 DEF TransferInv, LineInv, ReceivingInv, HeaderInv,
             DataInv, EndInv, OnlyKinds
<1>2. CASE HostAlone
  BY <1>2, HostInv DEF HostAlone
<1>3. CASE DeviceAlone
  BY <1>3, QuietDevice, HeaderStep, DataStep, EotStep, FinishSteps, DamagedStep
     DEF DeviceAlone, DeviceStep
<1>4. CASE LoseFrame
  <2>1. SuffixOf(toDev, toDev') /\ Quieter(toHost, toHost')
    BY <1>4, ReadLine DEF LoseFrame, hostVars, Quieter
  <2>2. /\ UNCHANGED <<hostVars, ctxVars, files, stage>>
        /\ (Fresh => Fresh') /\ (Stored => Stored')
    BY <1>4 DEF LoseFrame, hostVars, deviceVars, ctxVars, fsVars, Fresh, Stored,
                Source, Prefix
  <2> QED BY <2>1, <2>2, Calm
<1>5. CASE LoseChar
  <2>1. SuffixOf(toDev, toDev') /\ Quieter(toHost, toHost')
    BY <1>5, <1>t, <1>s, TailQuieter DEF LoseChar, Consume
  <2>2. /\ UNCHANGED <<hostVars, ctxVars, files, stage>>
        /\ (Fresh => Fresh') /\ (Stored => Stored')
    BY <1>5 DEF LoseChar, hostVars, deviceVars, ctxVars, fsVars, Fresh, Stored,
                Source, Prefix
  <2> QED BY <2>1, <2>2, Calm
<1>6. CASE LineNoise
  <2>1. SuffixOf(toDev, toDev') /\ Quieter(toHost, toHost')
    BY <1>6, <1>s, PutNoise DEF LineNoise
  <2>2. /\ UNCHANGED <<hostVars, ctxVars, files, stage>>
        /\ (Fresh => Fresh') /\ (Stored => Stored')
    BY <1>6 DEF LineNoise, hostVars, deviceVars, ctxVars, fsVars, Fresh, Stored,
                Source, Prefix
  <2> QED BY <2>1, <2>2, Calm
<1>7. CASE UNCHANGED vars
  <2>1. SuffixOf(toDev, toDev') /\ Quieter(toHost, toHost')
    BY <1>7, <1>s DEF vars, lineVars, Quieter
  <2>2. /\ UNCHANGED <<hostVars, ctxVars, files, stage>>
        /\ (Fresh => Fresh') /\ (Stored => Stored')
    BY <1>7 DEF vars, hostVars, deviceVars, ctxVars, fsVars, Fresh, Stored,
                Source, Prefix
  <2> QED BY <2>1, <2>2, Calm
<1> QED
  BY <1>1, <1>2, <1>3, <1>4, <1>5, <1>6, <1>7 DEF Next

\* The tool and the watch stay in lockstep under loss, damage, noise, time-outs
\* and restarts.
THEOREM Lockstep == Spec => []TransferInv
BY TypeInit, TypeNext, TransferInit, TransferNext, PTL DEF Spec

\* ymodem_send prints "Transfer complete!" only when the watch holds exactly the
\* bytes of the file under its name, whatever was lost: see DeliveredOnSuccess.
THEOREM SuccessIsDelivery == Spec => []DeliveredOnSuccess
<1>1. TransferInv => DeliveredOnSuccess
  BY DEF TransferInv, EndInv, DeliveredOnSuccess, Stored
<1> QED
  BY <1>1, Lockstep, PTL

\* What on_data has written of a file being received is always the first
\* received_size bytes of the file sent: see PrefixWhileReceiving.
THEOREM ReceivedIsPrefix == Spec => []PrefixWhileReceiving
<1>1. TransferInv => PrefixWhileReceiving
  BY DEF TransferInv, ReceivingInv, PrefixWhileReceiving, Receiving
<1> QED
  BY <1>1, Lockstep, PTL

\* The static file_fd never names a descriptor the file system has taken back,
\* across refused headers, broken sessions and restarts: see DescriptorIsOpen.
THEOREM DescriptorsMatch == Spec => []DescriptorIsOpen
<1>1. Init => DescriptorIsOpen
  BY DEF Init, DeviceInit, DescriptorIsOpen
<1>2. TypeOK /\ DescriptorIsOpen /\ [Next]_vars => DescriptorIsOpen'
  <2> SUFFICES ASSUME TypeOK, DescriptorIsOpen, [Next]_vars PROVE DescriptorIsOpen'
    OBVIOUS
  <2>1. CASE UNCHANGED <<file_fd, opened>>
    BY <2>1 DEF DescriptorIsOpen
  <2>2. CASE ReceiveHeader
    <3> DEFINE n == Head(toDev).name
    <3>1. ASSUME NEW fd \in Fd, on_begin_ack(n, fd) PROVE DescriptorIsOpen'
      BY <3>1 DEF on_begin_ack, DescriptorIsOpen
    <3>2. ASSUME on_begin_can(n) PROVE DescriptorIsOpen'
      BY <3>2 DEF on_begin_can, fsVars, DescriptorIsOpen
    <3> QED BY <2>2, <3>1, <3>2 DEF ReceiveHeader
  <2>3. CASE ReceiveData
    <3>1. Head(toDev) \in Frame
      BY <2>3, HeadFrame DEF ReceiveData, Incoming
    <3>2. UNCHANGED <<file_fd, opened>>
      BY <2>3, <3>1, OnDataType DEF ReceiveData
    <3> QED BY <3>2 DEF DescriptorIsOpen
  <2>4. CASE ReceiveEot
    BY <2>4 DEF ReceiveEot, on_end, DescriptorIsOpen
  <2>5. CASE DeviceRestart
    BY <2>5 DEF DeviceRestart, DescriptorIsOpen
  <2>6. CASE DeviceAlone
    BY <2>1, <2>2, <2>3, <2>4, <2>5, <2>6
       DEF DeviceAlone, DeviceStep, ShellReads, OperatorTypesYrcv, YrcvDrain,
           HandshakeSendC, HandshakeIgnores, ReceiveSecondEot, ReceiveFinal,
           ReceiveDamaged, SessionTimeout, ctxVars, fsVars
  <2>7. CASE \/ \E n \in Names, pre_cmd \in BOOLEAN : StartTransfer(n, pre_cmd)
             \/ HostAlone \/ LoseFrame \/ LoseChar \/ LineNoise
             \/ UNCHANGED vars
    BY <2>1, <2>7 DEF StartTransfer, HostAlone, LoseFrame, LoseChar, LineNoise,
                      vars, deviceVars, ctxVars, fsVars
  <2> QED BY <2>6, <2>7 DEF Next
<1> QED
  BY <1>1, <1>2, TypeInit, TypeNext, PTL DEF Spec

-----------------------------------------------------------------------------
(***************************************************************************)
(* The refinement: what the two programs do step by step, seen through the *)
(* mapping of Abs, is what FileTransfer allows.                            *)
(***************************************************************************)

\* The beginning of a file, cut from the whole of it.
LEMMA PrefixCut ==
    ASSUME NEW n \in Names, NEW k \in 0..Size[n]
    PROVE  SubSeq(Source(n), 1, k) = Prefix(n, k)
<1>1. Size[n] \in Nat /\ k \in Nat /\ k <= Size[n]
  OBVIOUS
<1>2. /\ Source(n) \in Seq(Datum) /\ Len(Source(n)) = Size[n]
      /\ \A j \in 1..Size[n] : Source(n)[j] = <<n, j>>
  BY <1>1, PrefixType DEF Source
<1>3. /\ Prefix(n, k) \in Seq(Datum) /\ Len(Prefix(n, k)) = k
      /\ \A j \in 1..k : Prefix(n, k)[j] = <<n, j>>
  BY <1>1, PrefixType
<1>0. \A j \in 1..k : j \in 1..Size[n] /\ Source(n)[j] = Prefix(n, k)[j]
  <2> TAKE j \in 1..k
  <2>1. j \in 1..Size[n]
    BY <1>1
  <2>2. Source(n)[j] = <<n, j>>
    BY <1>2, <2>1
  <2>3. Prefix(n, k)[j] = <<n, j>>
    BY <1>3
  <2> QED BY <2>1, <2>2, <2>3, Zenon
<1> DEFINE s == Source(n)
           p == Prefix(n, k)
           c == SubSeq(s, 1, k)
<1> HIDE DEF Datum, s, p
<1>4. /\ s \in Seq(Datum) /\ p \in Seq(Datum) /\ Len(p) = k
      /\ \A j \in 1..k : s[j] \in Datum /\ s[j] = p[j]
  <2>1. \A j \in 1..k : s[j] = p[j]
    BY <1>0 DEF s, p
  <2>2. s \in Seq(Datum) /\ Len(s) = Size[n]
    BY <1>2 DEF s
  <2>3. \A j \in 1..k : s[j] \in Datum
    BY <1>1, <2>2, ElementOfSeq
  <2> QED BY <1>3, <2>1, <2>2, <2>3 DEF p
<1>5. /\ c \in Seq(Datum) /\ Len(c) = k
      /\ \A j \in 1..k : c[j] = s[j]
  <2>1. 1 \in Int /\ k \in Int
    BY <1>1
  <2>2. /\ c \in Seq(Datum)
        /\ Len(c) = IF 1 <= k THEN k - 1 + 1 ELSE 0
        /\ \A j \in 1..(k - 1 + 1) : c[j] = s[1 + j - 1]
    BY <1>4, <2>1, SubSeqProperties
  <2> QED BY <1>1, <2>2
<1>6. c = p
  <2> HIDE DEF c
  <2> QED BY <1>4, <1>5, SeqEqual
<1> QED
  BY <1>6 DEF s, p

\* A file that is being received has been written since it was last closed.
OpenIsDirty == Receiving => file_path \in dirty

\* Only on_end and a restart settle a file, and both end the reception.
LEMMA OpenIsDirtyNext ==
    OpenIsDirty /\ [Next]_vars => OpenIsDirty'
<1> SUFFICES ASSUME OpenIsDirty, [Next]_vars PROVE OpenIsDirty'
  OBVIOUS
<1> USE DEF OpenIsDirty, Receiving
<1>1. CASE ReceiveHeader
  BY <1>1 DEF ReceiveHeader, on_begin_ack
<1>2. CASE ReceiveData
  BY <1>2 DEF ReceiveData, on_data_ack, WriteChunk
<1>3. CASE UNCHANGED <<dirty, file_path>> /\ stage' \in {stage, "shell", "drain",
                                      "establishing", "finishing", "closing"}
  BY <1>3
<1>4. CASE stage' \in {"finishing", "shell"}
  BY <1>4
<1>5. CASE DeviceAlone
  BY <1>1, <1>2, <1>3, <1>4, <1>5
     DEF DeviceAlone, DeviceStep, ShellReads, OperatorTypesYrcv, YrcvDrain,
         HandshakeSendC, HandshakeIgnores, ReceiveEot, ReceiveSecondEot,
         ReceiveFinal, ReceiveDamaged, SessionTimeout, DeviceRestart, ctxVars,
         fsVars
<1>6. CASE \/ \E n \in Names, pre_cmd \in BOOLEAN : StartTransfer(n, pre_cmd)
           \/ HostAlone \/ LoseFrame \/ LoseChar \/ LineNoise
           \/ UNCHANGED vars
  BY <1>3, <1>6 DEF StartTransfer, HostAlone, LoseFrame, LoseChar, LineNoise,
                    vars, deviceVars, ctxVars, fsVars
<1> QED
  BY <1>5, <1>6 DEF Next

\* The tool: until it ends it is sending; it completes only what is stored.
LEMMA HostImplements ==
    ASSUME TypeOK, TransferInv, UNCHANGED deviceVars,
           HostStep \/ HostTimeout \/ HostInterrupt
    PROVE  Abs!Next \/ UNCHANGED Abs!vars
<1> USE DEF deviceVars, fsVars
<1>1. UNCHANGED <<job, files, dirty>> /\ pc \in Waits
  BY DEF HostStep, HostSendHeader, HostHeaderAcked, HostFirstPacket,
         HostPacketAcked, HostPacketRefused, HostCancelled, HostSecondEot,
         HostEotAcked, HostSendFinal, HostComplete, HostSkip, HostTimeout,
         HostInterrupt, End, hostVars, Waits
<1>2. pc' \in Waits \cup {"failed"} \/ HostComplete
  BY <1>1 DEF HostStep, HostSendHeader, HostHeaderAcked, HostFirstPacket,
         HostPacketAcked, HostPacketRefused, HostCancelled, HostSecondEot,
         HostEotAcked, HostSendFinal, HostSkip, HostTimeout, HostInterrupt,
         SendNext, End, hostVars, Waits
<1>3. CASE pc' \in Waits
  BY <1>1, <1>3 DEF Abs!vars
<1>4. CASE pc' = "failed"
  <2>1. Abs!GiveUp
    BY <1>1, <1>4 DEF Abs!GiveUp, Waits
  <2> QED BY <2>1 DEF Abs!Next
<1>5. CASE HostComplete
  <2>1. pc = "waitFinAck" /\ pc' = "complete"
    BY <1>5 DEF HostComplete, End
  <2>2. files[DevPath[job]] = Source(job) /\ DevPath[job] \notin dirty
    BY <2>1 DEF TransferInv, EndInv, Stored
  <2>3. job \in Names
    BY DEF TypeOK, HostTypeOK
  <2>4. Abs!Finish
    BY <1>1, <2>1, <2>2, <2>3 DEF Abs!Finish, Abs!Here, Waits
  <2> QED BY <2>4 DEF Abs!Next
<1> QED
  BY <1>2, <1>3, <1>4, <1>5

\* on_begin, with the size accepted, creates the file under the job's path.
LEMMA HeaderImplements ==
    ASSUME TypeOK, TransferInv, UNCHANGED hostVars, ReceiveHeader
    PROVE  Abs!Next \/ UNCHANGED Abs!vars
<1> DEFINE n == Head(toDev).name
<1>1. /\ toDev # <<>> /\ ReadFrame /\ Head(toDev).kind = "header"
      /\ UNCHANGED <<pc, job>>
  BY DEF ReceiveHeader, Incoming, hostVars
<1>2. n = job
  BY <1>1, ReadLine DEF TransferInv, LineInv
<1>3. pc \in {"waitHdrAck", "failed"}
  BY <1>1, WhoSent
<1>4. ASSUME NEW fd \in Fd, on_begin_ack(n, fd) PROVE Abs!Next
  <2>1. /\ files' = [files EXCEPT ![DevPath[job]] = <<>>]
        /\ dirty' = dirty \cup {DevPath[job]}
    BY <1>2, <1>4 DEF on_begin_ack
  <2>2. Abs!Create
    BY <1>1, <1>3, <2>1 DEF Abs!Create, Abs!Here, Waits
  <2> QED BY <2>2 DEF Abs!Next
<1>5. ASSUME on_begin_can(n) PROVE UNCHANGED Abs!vars
  BY <1>1, <1>5 DEF on_begin_can, fsVars, Abs!vars
<1> QED
  BY <1>4, <1>5 DEF ReceiveHeader

\* on_data, in whole or in part, makes the prefix longer, or writes nothing.
LEMMA DataImplements ==
    ASSUME TypeOK, TransferInv, OpenIsDirty, UNCHANGED hostVars, ReceiveData
    PROVE  Abs!Next \/ UNCHANGED Abs!vars
<1> DEFINE f == Head(toDev)
<1>1. /\ Receiving /\ toDev # <<>> /\ ReadFrame /\ f.kind = "data"
      /\ UNCHANGED <<pc, job>>
  BY DEF ReceiveData, Incoming, Receiving, hostVars
<1>2. f = toDev[1] /\ 1 \in 1..Len(toDev)
  BY <1>1, ReadLine
<1>3. f.name = job /\ HasBlock(job, f.blk) /\ received_size = Offset(f.blk)
  BY <1>1, <1>2 DEF TransferInv, LineInv
<1>4. /\ f \in Frame /\ f.blk \in Nat /\ job \in Names /\ Size[job] \in Nat
      /\ received_size \in Nat /\ DevPath[job] \in Paths
  BY <1>1, HeadFrame DEF Frame, TypeOK, HostTypeOK, DeviceTypeOK, Paths
<1>5. /\ file_size = Size[job] /\ file_path = DevPath[job]
      /\ files[file_path] = Prefix(job, received_size)
      /\ received_size <= Size[job] /\ file_path \in dirty
  BY <1>1 DEF TransferInv, ReceivingInv, OpenIsDirty
<1>6. pc \in {"waitData", "failed"}
  BY <1>1, WhoSent
<1>7. ASSUME NEW len \in Nat, ~DataRefused, len <= DataLen, WriteChunk(f, len)
      PROVE  Abs!Next
  <2> HIDE DEF f
  <2>1. DataLen \in Nat /\ received_size + DataLen <= Size[job]
    BY <1>4, <1>5, <1>7, DataLenType DEF DataLen
  <2>2. received_size + len \in received_size..Size[job]
    BY <1>4, <1>7, <2>1
  <2>3. /\ files' = [files EXCEPT ![DevPath[job]] = @ \o Chunk(job, f.blk, len)]
        /\ dirty' = dirty
    BY <1>3, <1>5, <1>7 DEF WriteChunk
  <2>4. files[DevPath[job]] \o Chunk(job, f.blk, len)
          = Prefix(job, received_size + len)
    <3>1. Prefix(job, Offset(f.blk)) \o Chunk(job, f.blk, len)
            = Prefix(job, Offset(f.blk) + len)
      <4>1. Offset(f.blk) \in Nat /\ Offset(f.blk) + len <= Size[job]
        BY <1>3, <1>4, <2>2
      <4> QED BY <1>4, <4>1, PrefixGrows
    <3> QED BY <1>3, <1>5, <3>1, Zenon
  <2>5. /\ Len(files[DevPath[job]]) = received_size
        /\ Len(Source(job)) = Size[job]
    BY <1>4, <1>5, PrefixType DEF Source
  <2>6. /\ files[DevPath[job]] = SubSeq(Source(job), 1, received_size)
        /\ Prefix(job, received_size + len)
             = SubSeq(Source(job), 1, received_size + len)
    BY <1>4, <1>5, <2>2, PrefixCut
  <2>7. files' = [files EXCEPT ![DevPath[job]]
                    = SubSeq(Source(job), 1, received_size + len)]
    BY <2>3, <2>4, <2>6
  <2>8. Abs!Extend
    BY <1>1, <1>4, <1>5, <1>6, <2>2, <2>3, <2>5, <2>6, <2>7
       DEF Abs!Extend, Abs!Here, Waits
  <2> QED BY <2>8 DEF Abs!Next
<1>8. CASE on_data_ack(f)
  BY <1>7, <1>8, DataLenType DEF on_data_ack
<1>9. CASE on_data_write_fails(f)
  <2>1. PICK len \in 0..(DataLen - 1) : WriteChunk(f, len)
    BY <1>9 DEF on_data_write_fails
  <2>2. ~DataRefused /\ DataLen \in Nat
    BY <1>9, DataLenType DEF on_data_write_fails
  <2> QED BY <1>7, <2>1, <2>2
<1>10. CASE UNCHANGED fsVars
  BY <1>1, <1>10 DEF fsVars, Abs!vars
<1> QED
  BY <1>8, <1>9, <1>10 DEF ReceiveData, on_data_can

\* on_end settles the file of the job, and no other.
LEMMA EotImplements ==
    ASSUME TypeOK, TransferInv, UNCHANGED hostVars, ReceiveEot
    PROVE  Abs!Next
<1>1. /\ Receiving /\ toDev # <<>> /\ ReadFrame /\ Head(toDev).kind = "eot"
      /\ UNCHANGED <<pc, job>> /\ on_end
  BY DEF ReceiveEot, Incoming, Receiving, hostVars
<1>2. pc \in {"waitEot1", "waitEot2", "failed"}
  <2>1. pc \notin {"waitFinC", "waitFinAck", "complete"}
    BY <1>1 DEF TransferInv, EndInv
  <2> QED BY <1>1, <2>1, WhoSent
<1>3. files' = files /\ dirty' = dirty \ {DevPath[job]}
  BY <1>1 DEF on_end, TransferInv, ReceivingInv
<1>4. Abs!Settle
  BY <1>1, <1>2, <1>3 DEF Abs!Settle, Abs!Here, Waits
<1> QED
  BY <1>4 DEF Abs!Next

\* A restart cuts only what was not settled.
LEMMA RestartImplements ==
    ASSUME TypeOK, UNCHANGED hostVars, DeviceRestart
    PROVE  Abs!Next
<1>1. dirty' = {} /\ UNCHANGED <<pc, job>>
  BY DEF DeviceRestart, hostVars
<1>2. PICK kept \in [Paths -> 0..MaxFileSize] :
          /\ \A p \in Paths : kept[p] <= Len(files[p])
          /\ files' = [p \in Paths |-> IF p \in dirty
                                       THEN SubSeq(files[p], 1, kept[p])
                                       ELSE files[p]]
  BY DEF DeviceRestart
<1>3. Abs!Paths = Paths
  BY DEF Abs!Paths, Paths
<1>4. \A p \in Paths : kept[p] \in 0..Len(files[p])
  <2> TAKE p \in Paths
  <2>1. files[p] \in Seq((Names \cup {"pad"}) \X Int)
    BY DEF TypeOK, DeviceTypeOK
  <2>2. Len(files[p]) \in Nat
    BY <2>1, LenProperties
  <2> QED BY <1>2, <2>2
<1>5. /\ DOMAIN files' = Paths
      /\ \A p \in Paths \ dirty : files'[p] = files[p]
      /\ \A p \in dirty : \E k \in 0..Len(files[p]) :
            files'[p] = SubSeq(files[p], 1, k)
  BY <1>2, <1>4 DEF TypeOK, DeviceTypeOK
<1>6. Abs!Crash
  BY <1>1, <1>3, <1>5 DEF Abs!Crash
<1> QED
  BY <1>6 DEF Abs!Next

\* The first state is one of FileTransfer's.
LEMMA InitImplements == Init => Abs!Init
BY DEF Init, HostInit, DeviceInit, Abs!Init, Abs!Paths, Paths, Waits

\* Every step is a step of FileTransfer or changes nothing it can see.
LEMMA NextImplements ==
    TypeOK /\ TransferInv /\ OpenIsDirty /\ [Next]_vars => [Abs!Next]_(Abs!vars)
<1> SUFFICES ASSUME TypeOK, TransferInv, OpenIsDirty, [Next]_vars
             PROVE  Abs!Next \/ UNCHANGED Abs!vars
  OBVIOUS
<1>1. ASSUME NEW n \in Names, NEW pre_cmd \in BOOLEAN, StartTransfer(n, pre_cmd)
      PROVE  Abs!Next
  <2>1. Abs!Begin(n)
    BY <1>1 DEF StartTransfer, HostStart, deviceVars, fsVars, Abs!Begin, Waits,
                Ended
  <2> QED BY <2>1 DEF Abs!Next
<1>2. CASE HostAlone
  BY <1>2, HostImplements DEF HostAlone
<1>3. CASE UNCHANGED <<pc, job, files, dirty>>
  BY <1>3 DEF Abs!vars
<1>4. CASE DeviceAlone
  BY <1>3, <1>4, HeaderImplements, DataImplements, EotImplements,
     RestartImplements
     DEF DeviceAlone, DeviceStep, ShellReads, OperatorTypesYrcv, YrcvDrain,
         HandshakeSendC, HandshakeIgnores, ReceiveSecondEot, ReceiveFinal,
         ReceiveDamaged, SessionTimeout, fsVars, hostVars
<1>5. CASE LoseFrame \/ LoseChar \/ LineNoise \/ UNCHANGED vars
  BY <1>3, <1>5 DEF LoseFrame, LoseChar, LineNoise, vars, deviceVars, fsVars,
                    hostVars
<1> QED
  BY <1>1, <1>2, <1>4, <1>5 DEF Next

\* The tool and the watch together do what FileTransfer promises, for every
\* file, line and failure of the model: see ImplementsFileTransfer.
THEOREM Implementation == Spec => ImplementsFileTransfer
<1>1. Init => OpenIsDirty
  BY DEF Init, DeviceInit, OpenIsDirty, Receiving
<1>2. Spec => []OpenIsDirty
  BY <1>1, OpenIsDirtyNext, PTL DEF Spec
<1> QED
  BY <1>2, TypeCorrect, Lockstep, InitImplements, NextImplements, PTL
     DEF Spec, ImplementsFileTransfer, Abs!Spec

-----------------------------------------------------------------------------
(***************************************************************************)
(* The late receiver.  Packets may arrive twice, and rym compares no block *)
(* numbers: what keeps a doubled packet from being reported as success is  *)
(* that every packet written takes its share of file_size, so that a later *)
(* one is refused as an overflow.                                          *)
(***************************************************************************)

\* Where a sequence of characters acknowledges, and how often it does.
AckAt(s) == {i \in 1..Len(s) : s[i] = "ACK"}
Acks(s)  == Cardinality(AckAt(s))

Delivered == files[DevPath[job]] = Source(job)

\* A packet sent twice is still on the line: on_data will refuse it.
Overtaken == toDev # <<>> /\ toDev[1].kind = "data"

LateLineInv == \A i \in 1..Len(toDev) : toDev[i].name = job

LateReceivingInv ==
    Receiving => /\ file_fd >= 0
                 /\ file_size = Size[job]
                 /\ file_path = DevPath[job]

LateHeaderInv ==
    /\ pc = "idle" => Fresh /\ toDev = <<>>
    /\ pc = "waitC" =>
          /\ Fresh /\ Acks(toHost) = 0
          /\ Len(toDev) <= 1 /\ OnlyKinds(toDev, {"cmd"})
    /\ pc = "waitHdrAck" =>
          /\ Fresh \/ (Receiving /\ toDev = <<>>)
          /\ Acks(toHost) <= 1
          /\ toDev # <<>> => Acks(toHost) = 0
          /\ OnlyKinds(toDev, {"cmd", "header"})
          /\ \A i \in 1..Len(toDev) : toDev[i].kind = "header" => i = Len(toDev)
    /\ pc = "waitHdrC" =>
          /\ Fresh \/ Receiving
          /\ toDev = <<>> /\ Acks(toHost) = 0
    /\ pc \in {"waitHdrAck", "waitHdrC"} /\ Receiving =>
          received_size = 0 /\ files[file_path] = <<>>

\* If no packet was sent twice, those on the line continue what was written.
InOrder(a) ==
    /\ \A i \in 1..Len(toDev) : toDev[i].blk = a + i
    /\ files[file_path] = Prefix(job, received_size)

\* The watch has acknowledged a packets: the tool has read blk - 1 of these
\* acknowledgements at least, the others are on the line or lost.
Accounted(a) ==
    /\ a >= 1 => HasBlock(job, a)
    /\ Acks(toHost) + blk <= a + 1
    /\ Receiving =>
          /\ received_size = IF HasBlock(job, a + 1) THEN Offset(a + 1)
                                                     ELSE Size[job]
          /\ a + Len(toDev) >= blk
          /\ a + Len(toDev) = blk => InOrder(a)

LateDataInv ==
    pc = "waitData" =>
        /\ Fresh \/ Receiving
        /\ blk >= 1 /\ HasBlock(job, blk)
        /\ OnlyKinds(toDev, {"data"})
        /\ \E a \in Nat : Accounted(a)

LateEndInv ==
    /\ pc \in {"waitEot1", "waitEot2"} =>
          /\ OnlyKinds(toDev, {"data", "eot"})
          /\ stage \in {"finishing", "closing"} => Stored
          /\ Acks(toHost) > 0 => Stored /\ ~Receiving
          /\ Receiving => received_size = Size[job] /\ (Delivered \/ Overtaken)
    /\ pc \in {"waitFinC", "waitFinAck", "complete"} =>
          /\ Stored /\ ~Receiving
          /\ OnlyKinds(toDev, {"data", "eot", "fin"})

\* The inductive invariant of LateSpec.
LateInv == /\ LateLineInv /\ LateReceivingInv /\ LateHeaderInv /\ LateDataInv
           /\ LateEndInv

-----------------------------------------------------------------------------
(***************************************************************************)
(* Counting acknowledgements.                                              *)
(***************************************************************************)

\* A sequence of characters holds finitely many of them.
LEMMA AcksType ==
    ASSUME NEW s \in Seq(Char)
    PROVE  /\ IsFiniteSet(AckAt(s))
           /\ Acks(s) \in Nat
           /\ Acks(s) = 0 <=> \A i \in 1..Len(s) : s[i] # "ACK"
<1>1. Len(s) \in Int /\ 1 \in Int
  BY LenProperties
<1>2. IsFiniteSet(1..Len(s)) /\ AckAt(s) \in SUBSET (1..Len(s))
  BY <1>1, FS_Interval DEF AckAt
<1>3. IsFiniteSet(AckAt(s))
  BY <1>2, FS_Subset
<1>4. Acks(s) \in Nat
  BY <1>3, FS_CardinalityType DEF Acks
<1>5. Acks(s) = 0 <=> AckAt(s) = {}
  BY <1>3, FS_EmptySet DEF Acks
<1>6. AckAt(s) = {} <=> \A i \in 1..Len(s) : s[i] # "ACK"
  BY DEF AckAt
<1> QED
  BY <1>3, <1>4, <1>5, <1>6

\* The empty line carries none; a line whose first character is one, some.
LEMMA FewAcks ==
    /\ Acks(<<>>) = 0
    /\ \A s \in Seq(Char) : s # <<>> /\ s[1] = "ACK" => Acks(s) > 0
<1>1. <<>> \in Seq(Char) /\ Len(<<>>) = 0
  BY EmptySeq
<1>2. Acks(<<>>) = 0
  <2>1. \A i \in 1..Len(<<>>) : <<>>[i] # "ACK"
    BY <1>1
  <2> QED BY <1>1, <2>1, AcksType
<1>3. ASSUME NEW s \in Seq(Char), s # <<>>, s[1] = "ACK" PROVE Acks(s) > 0
  <2>1. 1 \in 1..Len(s)
    <3>1. Len(s) \in Nat /\ Len(s) # 0
      BY <1>3, LenProperties, NothingLeft
    <3> QED BY <3>1
  <2>2. Acks(s) \in Nat /\ Acks(s) # 0
    BY <1>3, <2>1, AcksType
  <2> QED BY <2>2
<1> QED
  BY <1>2, <1>3

\* Reading characters reads the acknowledgements among them.
LEMMA DropAcks ==
    ASSUME NEW s \in Seq(Char), NEW k \in 0..Len(s)
    PROVE  /\ Acks(SubSeq(s, k + 1, Len(s))) <= Acks(s)
           /\ k >= 1 /\ s[1] = "ACK"
                 => Acks(SubSeq(s, k + 1, Len(s))) + 1 <= Acks(s)
<1> DEFINE t == SubSeq(s, k + 1, Len(s))
<1>1. Len(s) \in Nat /\ k \in Nat /\ k <= Len(s)
  BY LenProperties
<1>2. /\ t \in Seq(Char) /\ Len(t) = Len(s) - k
      /\ \A i \in 1..(Len(s) - k) : t[i] = s[i + k]
  BY DropProperties
<1> HIDE DEF t
<1>3. \A i \in AckAt(t) : i + k \in AckAt(s) /\ i \in Nat /\ i >= 1
  BY <1>1, <1>2 DEF AckAt
<1>4. ASSUME NEW T, IsFiniteSet(T), \A i \in AckAt(t) : i + k \in T
      PROVE  Acks(t) <= Cardinality(T)
  <2> DEFINE shift == [i \in AckAt(t) |-> i + k]
  <2>1. shift \in [AckAt(t) -> T]
    BY <1>4
  <2>2. \A i, j \in AckAt(t) : i + k = j + k => i = j
    BY <1>1, <1>3
  <2>3. shift \in Injection(AckAt(t), T)
    BY <2>1, <2>2 DEF Injection, IsInjective
  <2> HIDE DEF shift
  <2> QED BY <1>4, <2>3, FS_Injection DEF Acks
<1>5. IsFiniteSet(AckAt(s)) /\ Acks(s) \in Nat /\ Acks(t) \in Nat
  BY <1>2, AcksType
<1>6. Acks(t) <= Acks(s)
  BY <1>3, <1>4, <1>5 DEF Acks
<1>7. ASSUME k >= 1, s[1] = "ACK" PROVE Acks(t) + 1 <= Acks(s)
  <2>1. 1 \in AckAt(s)
    BY <1>1, <1>7 DEF AckAt
  <2>2. /\ IsFiniteSet(AckAt(s) \ {1})
        /\ Cardinality(AckAt(s) \ {1}) = Acks(s) - 1
    BY <1>5, <2>1, FS_RemoveElement DEF Acks
  <2>3. \A i \in AckAt(t) : i + k \in AckAt(s) \ {1}
    BY <1>1, <1>3, <1>7
  <2>4. Acks(t) <= Cardinality(AckAt(s) \ {1})
    BY <1>4, <2>2, <2>3
  <2> QED BY <1>5, <2>2, <2>4
<1> QED
  BY <1>6, <1>7 DEF t

\* wait_char reads a character, and may clear what came behind it.
LEMMA ReadAcks ==
    ASSUME TypeOK, toHost # <<>>, Consume \/ ConsumeAndClear
    PROVE  /\ Acks(toHost) \in Nat /\ Acks(toHost') \in Nat
           /\ Acks(toHost') <= Acks(toHost)
           /\ Received("ACK") => Acks(toHost') + 1 <= Acks(toHost)
<1>1. toHost \in Seq(Char) /\ Len(toHost) \in Nat /\ 1 \in 1..Len(toHost)
  BY EmptySeq, LenProperties DEF TypeOK, LineTypeOK
<1>2. PICK k \in 1..Len(toHost) : toHost' = SubSeq(toHost, k + 1, Len(toHost))
  <2>1. CASE Consume
    <3>1. Tail(toHost) = SubSeq(toHost, 2, Len(toHost)) /\ 1 + 1 = 2
      BY <1>1, TailIsSubSeq
    <3> QED BY <1>1, <2>1, <3>1 DEF Consume
  <2>2. CASE ConsumeAndClear
    BY <2>2 DEF ConsumeAndClear
  <2> QED BY <2>1, <2>2
<1>3. k \in 0..Len(toHost) /\ k >= 1
  BY <1>1
<1>4. /\ Acks(SubSeq(toHost, k + 1, Len(toHost))) <= Acks(toHost)
      /\ toHost[1] = "ACK" =>
            Acks(SubSeq(toHost, k + 1, Len(toHost))) + 1 <= Acks(toHost)
  BY <1>1, <1>3, DropAcks
<1>5. Acks(toHost') = Acks(SubSeq(toHost, k + 1, Len(toHost)))
  BY <1>2
<1>6. Received("ACK") => toHost[1] = "ACK"
  BY DEF Received
<1>7. Acks(toHost) \in Nat
  BY <1>1, AcksType
<1>8. Acks(toHost') \in Nat
  <2>1. SubSeq(toHost, k + 1, Len(toHost)) \in Seq(Char)
    BY <1>1, <1>3, DropProperties
  <2>2. Acks(SubSeq(toHost, k + 1, Len(toHost))) \in Nat
    BY <2>1, AcksType
  <2> QED BY <1>5, <2>2
<1> QED
  BY <1>4, <1>5, <1>6, <1>7, <1>8

\* The watch puts at most one acknowledgement at a time, and none with a
\* refusal or the 'C' of a handshake.
LEMMA PutAcks ==
    ASSUME TypeOK, NEW c \in Char, Put(<<c>>) \/ Put(<<c, "C">>)
    PROVE  /\ Acks(toHost) \in Nat /\ Acks(toHost') \in Nat
           /\ Acks(toHost') <= Acks(toHost) + 1
           /\ c # "ACK" => Acks(toHost') <= Acks(toHost)
<1>1. /\ toHost \in Seq(Char) /\ Len(toHost) \in Nat
      /\ <<c>> \in Seq(Char) /\ <<c, "C">> \in Seq(Char)
  BY LenProperties DEF TypeOK, LineTypeOK, Char
<1>2. IsFiniteSet(AckAt(toHost)) /\ Acks(toHost) \in Nat
  BY <1>1, AcksType
<1>3. CASE toHost' = toHost
  BY <1>2, <1>3
<1>4. CASE toHost' = toHost \o <<c>> \/ toHost' = toHost \o <<c, "C">>
  <2>1. PICK cs \in {<<c>>, <<c, "C">>} : toHost' = toHost \o cs
    BY <1>4
  <2>2. /\ cs \in Seq(Char) /\ Len(cs) \in {1, 2} /\ cs[1] = c
        /\ Len(cs) = 2 => cs[2] = "C"
    <3>1. CASE cs = <<c>>
      <4>1. cs \in Seq(Char) /\ Len(cs) = 1 /\ cs[1] = c
        BY <1>1, <3>1
      <4> QED BY <4>1
    <3>2. CASE cs = <<c, "C">>
      <4>1. cs \in Seq(Char) /\ Len(cs) = 2 /\ cs[1] = c /\ cs[2] = "C"
        BY <1>1, <3>2
      <4> QED BY <4>1
    <3> QED BY <2>1, <3>1, <3>2
  <2>3. /\ toHost' \in Seq(Char)
        /\ Len(toHost') = Len(toHost) + Len(cs)
        /\ \A i \in 1..(Len(toHost) + Len(cs)) :
              toHost'[i] = IF i <= Len(toHost) THEN toHost[i]
                                               ELSE cs[i - Len(toHost)]
    BY <1>1, <2>1, <2>2, ConcatProperties
  <2>4. IsFiniteSet(AckAt(toHost')) /\ Acks(toHost') \in Nat
    BY <2>3, AcksType
  <2>5. \A i \in AckAt(toHost') : /\ i \in AckAt(toHost) \cup {Len(toHost) + 1}
                                  /\ c # "ACK" => i \in AckAt(toHost)
    <3> SUFFICES ASSUME NEW i \in 1..Len(toHost'), toHost'[i] = "ACK"
                 PROVE  \/ i \in AckAt(toHost)
                        \/ i = Len(toHost) + 1 /\ c = "ACK"
      BY DEF AckAt
    <3>1. CASE i <= Len(toHost)
      BY <1>1, <2>3, <3>1 DEF AckAt
    <3>2. CASE ~(i <= Len(toHost))
      <4>1. i - Len(toHost) \in 1..Len(cs) /\ cs[i - Len(toHost)] = "ACK"
        BY <1>1, <2>2, <2>3, <3>2
      <4>2. i - Len(toHost) = 1
        BY <2>2, <4>1
      <4> QED BY <1>1, <2>2, <4>1, <4>2
    <3> QED BY <3>1, <3>2
  <2>6. Acks(toHost') <= Acks(toHost) + 1
    <3> DEFINE T == AckAt(toHost) \cup {Len(toHost) + 1}
    <3>0. IsFiniteSet(T) /\ Cardinality(T) \in {Acks(toHost), Acks(toHost) + 1}
      BY <1>2, FS_AddElement, Zenon DEF Acks
    <3>1. Cardinality(T) <= Acks(toHost) + 1
      BY <1>2, <3>0
    <3>2. AckAt(toHost') \in SUBSET T
      BY <2>5
    <3> HIDE DEF T
    <3>3. Cardinality(AckAt(toHost')) <= Cardinality(T)
      BY <3>0, <3>2, FS_Subset
    <3> QED BY <1>2, <2>4, <3>0, <3>1, <3>3 DEF Acks
  <2>7. ASSUME c # "ACK" PROVE Acks(toHost') <= Acks(toHost)
    <3>1. AckAt(toHost') \in SUBSET AckAt(toHost)
      BY <2>5, <2>7
    <3> QED BY <1>2, <3>1, FS_Subset DEF Acks
  <2> QED BY <1>2, <2>4, <2>6, <2>7
<1> QED
  BY <1>3, <1>4 DEF Put

-----------------------------------------------------------------------------
(***************************************************************************)
(* The steps of the late receiver and of the tool that faces it.           *)
(***************************************************************************)

\* All steps but the second request of a late receiver are steps of Next.
LEMMA LateTypeNext == TypeOK /\ [LateNext]_vars => TypeOK'
<1> SUFFICES ASSUME TypeOK, [LateNext]_vars PROVE TypeOK'
  OBVIOUS
<1>1. CASE LateNak
  <2>1. <<"NAK">> \in Seq(Char)
    BY DEF Char
  <2>2. toHost' \in Seq(Char)
    BY <1>1, <2>1, PutChars DEF LateNak
  <2> QED BY <1>1, <2>2 DEF LateNak, TypeOK, LineTypeOK, HostTypeOK,
             DeviceTypeOK, hostVars, deviceVars, ctxVars, fsVars
<1>2. CASE [Next]_vars
  BY <1>2, TypeNext
<1> QED
  BY <1>1, <1>2 DEF LateNext, LateDevice, Next, DeviceAlone

\* A frame written comes behind the others and belongs to the job.
LEMMA LateSend ==
    ASSUME TypeOK, LateLineInv, NEW kind \in {"header", "data", "eot", "fin"},
           NEW b \in Nat, Send(Packet(kind, b)), job' = job
    PROVE  /\ LateLineInv'
           /\ Len(toDev) \in Nat /\ Len(toDev') = Len(toDev) + 1
           /\ \A i \in 1..Len(toDev) : toDev'[i] = toDev[i]
           /\ toDev'[Len(toDev) + 1] = [kind |-> kind, name |-> job, blk |-> b]
           /\ toDev = <<>> <=> Len(toDev) = 0
           /\ toDev' # <<>>
           /\ \A K : OnlyKinds(toDev, K) /\ kind \in K => OnlyKinds(toDev', K)
<1>1. /\ Len(toDev) \in Nat /\ Len(toDev') = Len(toDev) + 1
      /\ \A i \in 1..Len(toDev) : toDev'[i] = toDev[i]
      /\ toDev'[Len(toDev) + 1] = [kind |-> kind, name |-> job, blk |-> b]
      /\ toDev = <<>> => Len(toDev) = 0
  BY SendLine
<1>2. Len(toDev) = 0 => toDev = <<>>
  BY NothingLeft DEF TypeOK, LineTypeOK
<1>3. \A i \in 1..Len(toDev') : i \in 1..Len(toDev) \/ i = Len(toDev) + 1
  BY <1>1
<1>4. LateLineInv'
  BY <1>1, <1>3 DEF LateLineInv
<1>5. \A K : OnlyKinds(toDev, K) /\ kind \in K => OnlyKinds(toDev', K)
  BY <1>1, <1>3 DEF OnlyKinds
<1>6. toDev' # <<>>
  BY <1>1, EmptySeq
<1> QED
  BY <1>1, <1>2, <1>4, <1>5, <1>6

\* A frame read was the first; the others move up.
LEMMA LateRead ==
    ASSUME TypeOK, LateLineInv, toDev # <<>>, ReadFrame, job' = job
    PROVE  /\ LateLineInv'
           /\ SuffixOf(toDev, toDev')
           /\ Head(toDev) = toDev[1] /\ 1 \in 1..Len(toDev)
           /\ Len(toDev) \in Nat /\ Len(toDev') = Len(toDev) - 1
           /\ \A i \in 1..Len(toDev') : /\ i + 1 \in 1..Len(toDev)
                                        /\ toDev'[i] = toDev[i + 1]
           /\ Len(toDev) = 1 => toDev' = <<>>
           /\ \A K : OnlyKinds(toDev, K) => /\ Head(toDev).kind \in K
                                          /\ OnlyKinds(toDev', K)
<1>1. toDev \in Seq(Frame) /\ toDev' = Tail(toDev)
  BY DEF TypeOK, LineTypeOK, ReadFrame
<1>2. /\ SuffixOf(toDev, Tail(toDev))
      /\ Len(toDev) \in Nat /\ Len(toDev) >= 1
      /\ Head(toDev) = toDev[1]
      /\ Len(Tail(toDev)) = Len(toDev) - 1
      /\ Len(toDev) = 1 => Tail(toDev) = <<>>
  BY <1>1, TailSuffix
<1>3. SuffixOf(toDev, toDev') /\ Len(toDev') = Len(toDev) - 1
  BY <1>1, <1>2, Zenon
<1>4. \A i \in 1..Len(toDev') : /\ i + 1 \in 1..Len(toDev)
                                /\ toDev'[i] = toDev[i + 1]
  BY <1>2, <1>3 DEF SuffixOf
<1>5. LateLineInv'
  BY <1>4 DEF LateLineInv
<1>6. \A K : OnlyKinds(toDev, K) => /\ toDev[1].kind \in K
                                   /\ OnlyKinds(toDev', K)
  BY <1>2, <1>4 DEF OnlyKinds
<1> QED
  BY <1>1, <1>2, <1>3, <1>4, <1>5, <1>6

\* A step that adds no acknowledgement and leaves a reception alone, or ends it.
LEMMA LateCalm ==
    ASSUME TypeOK, TypeOK', LateInv, UNCHANGED hostVars,
           SuffixOf(toDev, toDev'), Acks(toHost') <= Acks(toHost),
           \/ Fresh'
           \/ /\ UNCHANGED <<stage, ctxVars, files>>
              /\ Receiving => toDev' = toDev,
           Fresh => Fresh',
           Stored => Stored'
    PROVE  LateInv'
<1> USE DEF hostVars, ctxVars
<1>1. /\ Len(toDev) \in Nat /\ Len(toDev') \in Nat
      /\ Len(toDev') <= Len(toDev)
      /\ toDev = <<>> => toDev' = <<>>
  <2>1. Len(toDev) \in Nat /\ Len(toDev') \in Nat /\ Len(toDev') <= Len(toDev)
    BY LenProperties DEF TypeOK, LineTypeOK, SuffixOf
  <2>2. toDev = <<>> => Len(toDev') = 0
    BY <2>1, EmptySeq
  <2> QED BY <2>1, <2>2, NothingLeft DEF TypeOK, LineTypeOK
<1>2. \A i \in 1..Len(toDev') :
         \E j \in 1..Len(toDev) : /\ toDev'[i] = toDev[j]
                                  /\ j = i + (Len(toDev) - Len(toDev'))
  BY <1>1 DEF SuffixOf
<1>3. \A K : OnlyKinds(toDev, K) => OnlyKinds(toDev', K)
  BY <1>2 DEF OnlyKinds
<1>4. /\ Receiving' => /\ Receiving /\ toDev' = toDev
                       /\ UNCHANGED <<stage, file_fd, file_size, file_path,
                                      received_size, files>>
      /\ Fresh \/ Receiving => Fresh' \/ Receiving'
      /\ Fresh' \/ stage' = stage
  BY DEF Receiving, Fresh
<1>5. Acks(toHost) \in Nat /\ Acks(toHost') \in Nat
  <2>1. toHost \in Seq(Char) /\ toHost' \in Seq(Char)
    BY DEF TypeOK, LineTypeOK
  <2>2. Acks(toHost) \in Nat
    BY <2>1, AcksType
  <2>3. \A s \in Seq(Char) : Acks(s) \in Nat
    BY AcksType
  <2> QED BY <2>1, <2>2, <2>3
<1>6. Receiving' => (Delivered' <=> Delivered)
  BY <1>4 DEF Delivered, Source, Prefix
<1>7. LateLineInv'
  BY <1>2 DEF LateInv, LateLineInv
<1>8. LateReceivingInv'
  BY <1>4 DEF LateInv, LateReceivingInv
<1>9. LateHeaderInv'
  <2>1. pc = "idle" => Fresh' /\ toDev' = <<>>
    BY <1>1 DEF LateInv, LateHeaderInv
  <2>2. pc = "waitC" => /\ Fresh' /\ Acks(toHost') = 0
                        /\ Len(toDev') <= 1 /\ OnlyKinds(toDev', {"cmd"})
    BY <1>1, <1>3, <1>5 DEF LateInv, LateHeaderInv
  <2>3. ASSUME pc = "waitHdrAck"
        PROVE  /\ Fresh' \/ (Receiving' /\ toDev' = <<>>)
               /\ Acks(toHost') <= 1
               /\ toDev' # <<>> => Acks(toHost') = 0
               /\ OnlyKinds(toDev', {"cmd", "header"})
               /\ \A i \in 1..Len(toDev') :
                     toDev'[i].kind = "header" => i = Len(toDev')
    <3>1. /\ Fresh \/ (Receiving /\ toDev = <<>>)
          /\ Acks(toHost) <= 1
          /\ toDev # <<>> => Acks(toHost) = 0
          /\ OnlyKinds(toDev, {"cmd", "header"})
          /\ \A i \in 1..Len(toDev) : toDev[i].kind = "header" => i = Len(toDev)
      BY <2>3 DEF LateInv, LateHeaderInv
    <3>2. \A i \in 1..Len(toDev') :
             toDev'[i].kind = "header" => i = Len(toDev')
      BY <1>1, <1>2, <3>1
    <3> QED BY <1>1, <1>3, <1>4, <1>5, <3>1, <3>2
  <2>4. pc = "waitHdrC" => /\ Fresh' \/ Receiving'
                           /\ toDev' = <<>> /\ Acks(toHost') = 0
    BY <1>1, <1>4, <1>5 DEF LateInv, LateHeaderInv
  <2>5. pc \in {"waitHdrAck", "waitHdrC"} /\ Receiving' =>
           received_size' = 0 /\ files'[file_path'] = <<>>
    BY <1>4 DEF LateInv, LateHeaderInv
  <2> QED BY <2>1, <2>2, <2>3, <2>4, <2>5 DEF LateHeaderInv
<1>10. LateDataInv'
  <2> SUFFICES ASSUME pc = "waitData" PROVE LateDataInv'
    BY DEF LateDataInv
  <2>1. /\ Fresh \/ Receiving
        /\ blk >= 1 /\ HasBlock(job, blk)
        /\ OnlyKinds(toDev, {"data"})
    BY DEF LateInv, LateDataInv
  <2>2. PICK a \in Nat : Accounted(a)
    BY DEF LateInv, LateDataInv
  <2>3. Accounted(a)'
    <3>1. blk \in Nat /\ blk' = blk /\ job' = job
      BY DEF TypeOK, HostTypeOK
    <3>2. (a >= 1 => HasBlock(job, a)) /\ Acks(toHost') + blk <= a + 1
      BY <1>5, <2>2, <3>1 DEF Accounted
    <3>3. Receiving' => InOrder(a)' = InOrder(a)
      BY <1>4, <3>1 DEF InOrder, Prefix
    <3> QED BY <1>4, <2>2, <3>1, <3>2, <3>3 DEF Accounted, HasBlock
  <2> QED BY <1>3, <1>4, <2>1, <2>3 DEF LateDataInv, HasBlock
<1>11. LateEndInv'
  <2>1. ASSUME pc \in {"waitEot1", "waitEot2"}
        PROVE  /\ OnlyKinds(toDev', {"data", "eot"})
               /\ stage' \in {"finishing", "closing"} => Stored'
               /\ Acks(toHost') > 0 => Stored' /\ ~Receiving'
               /\ Receiving' => /\ received_size' = Size[job]
                                /\ Delivered' \/ Overtaken'
    <3>1. /\ OnlyKinds(toDev, {"data", "eot"})
          /\ stage \in {"finishing", "closing"} => Stored
          /\ Acks(toHost) > 0 => Stored /\ ~Receiving
          /\ Receiving => received_size = Size[job] /\ (Delivered \/ Overtaken)
      BY <2>1 DEF LateInv, LateEndInv
    <3>2. stage' \in {"finishing", "closing"} => stage' = stage
      BY DEF Fresh
    <3>3. Acks(toHost') > 0 => Acks(toHost) > 0
      BY <1>5
    <3>4. Receiving' => (Overtaken' <=> Overtaken)
      BY <1>4 DEF Overtaken
    <3> QED BY <1>3, <1>4, <1>6, <3>1, <3>2, <3>3, <3>4
  <2>2. pc \in {"waitFinC", "waitFinAck", "complete"} =>
           /\ Stored' /\ ~Receiving'
           /\ OnlyKinds(toDev', {"data", "eot", "fin"})
    BY <1>3, <1>4, <1>6 DEF LateInv, LateEndInv
  <2> QED BY <2>1, <2>2 DEF LateEndInv
<1> QED
  BY <1>7, <1>8, <1>9, <1>10, <1>11 DEF LateInv

\* The tool gives up: nothing it was waiting for matters any more.
LEMMA LateGivingUp ==
    ASSUME TypeOK, LateInv, End("failed"), UNCHANGED <<toDev, deviceVars>>
    PROVE  LateInv'
<1> USE DEF deviceVars, ctxVars, fsVars, End
<1>1. LateLineInv'
  BY DEF LateInv, LateLineInv
<1>2. LateReceivingInv'
  BY DEF LateInv, LateReceivingInv, Receiving
<1> QED
  BY <1>1, <1>2 DEF LateInv, LateHeaderInv, LateDataInv, LateEndInv

\* Packets have no gaps between them: a file that has packet a has those before.
LEMMA BlocksBefore ==
    ASSUME NEW n \in Names, NEW a \in Nat, NEW b \in Nat, b <= a, HasBlock(n, a)
    PROVE  HasBlock(n, b)
<1>1. Size[n] \in Nat /\ PacketSize \in Nat
  OBVIOUS
<1>2. (a - b) \in Nat /\ (a - b) * PacketSize >= 0
  BY <1>1
<1>3. (a - 1) * PacketSize = (b - 1) * PacketSize + (a - b) * PacketSize
  BY <1>1
<1>4. (b - 1) * PacketSize \in Int /\ (a - b) * PacketSize \in Int
  BY <1>1
<1> QED
  BY <1>1, <1>2, <1>3, <1>4 DEF HasBlock, Offset

\* A data packet goes out, the acknowledgements being accounted for.
LEMMA LateDataSent ==
    ASSUME TypeOK, TypeOK', LateInv, NEW b \in Nat, b >= 1,
           Send(Packet("data", b)), HasBlock(job, b), pc' = "waitData",
           blk' = b, UNCHANGED <<job, deviceVars>>, Fresh \/ Receiving,
           OnlyKinds(toDev, {"data"}), NEW a \in Nat, Accounted(a)'
    PROVE  LateInv'
<1> USE DEF deviceVars, ctxVars, fsVars
<1>1. LateLineInv' /\ OnlyKinds(toDev', {"data"})
  BY LateSend DEF LateInv
<1>2. LateReceivingInv'
  BY DEF LateInv, LateReceivingInv, Receiving
<1>3. LateDataInv'
  BY <1>1 DEF LateDataInv, Fresh, Receiving, HasBlock
<1> QED
  BY <1>1, <1>2, <1>3 DEF LateInv, LateHeaderInv, LateEndInv

\* The first EOT goes out once every packet has been acknowledged.
LEMMA LateEotSent ==
    ASSUME TypeOK, TypeOK', LateInv, Send(Packet("eot", 0)),
           pc' \in {"waitEot1", "waitEot2"}, UNCHANGED <<job, deviceVars>>,
           OnlyKinds(toDev, {"data", "eot"}),
           stage \in {"finishing", "closing"} => Stored,
           Acks(toHost') > 0 => Stored /\ ~Receiving,
           Receiving => received_size = Size[job] /\ (Delivered \/ Overtaken)
    PROVE  LateInv'
<1> USE DEF deviceVars, ctxVars, fsVars
<1>1. /\ LateLineInv' /\ OnlyKinds(toDev', {"data", "eot"})
      /\ toDev' # <<>> /\ Len(toDev) \in Nat
      /\ toDev = <<>> <=> Len(toDev) = 0
      /\ \A i \in 1..Len(toDev) : toDev'[i] = toDev[i]
  BY LateSend DEF LateInv
<1>2. LateReceivingInv'
  BY DEF LateInv, LateReceivingInv, Receiving
<1>3. /\ Delivered' <=> Delivered
      /\ Stored' <=> Stored
      /\ Receiving' <=> Receiving
  BY DEF Delivered, Stored, Receiving, Source, Prefix
<1>4. Overtaken => Overtaken'
  <2>1. Overtaken => 1 \in 1..Len(toDev)
    BY <1>1 DEF Overtaken
  <2> QED BY <1>1, <2>1 DEF Overtaken
<1>5. LateEndInv'
  BY <1>1, <1>3, <1>4 DEF LateEndInv
<1> QED
  BY <1>1, <1>2, <1>5 DEF LateInv, LateHeaderInv, LateDataInv

\* The tool's answer to the header's acknowledgement: the first packet, or, of
\* an empty file, the end.
LEMMA LateFirstPacket ==
    ASSUME TypeOK, TypeOK', LateInv, UNCHANGED deviceVars, HostFirstPacket
    PROVE  LateInv'
<1> USE DEF deviceVars, ctxVars, fsVars
<1>1. /\ pc = "waitHdrC" /\ toHost # <<>> /\ Consume
      /\ SendNext(1) /\ blk' = 1 /\ job' = job
  BY DEF HostFirstPacket, Received
<1>2. /\ Fresh \/ Receiving
      /\ toDev = <<>> /\ Acks(toHost) = 0
      /\ Receiving => received_size = 0 /\ files[file_path] = <<>>
  BY <1>1 DEF LateInv, LateHeaderInv
<1>3. Acks(toHost') = 0
  <2>1. Acks(toHost') \in Nat /\ Acks(toHost') <= Acks(toHost)
    BY <1>1, ReadAcks
  <2> QED BY <1>2, <2>1
<1>4. /\ job \in Names /\ Size[job] \in Nat
      /\ Offset(1) = 0 /\ (HasBlock(job, 1) <=> 0 < Size[job])
  <2>1. job \in Names /\ 1 \in Nat
    BY DEF TypeOK, HostTypeOK
  <2> QED BY <2>1, BlockStep DEF HasBlock
<1>5. Prefix(job, 0) = <<>>
  <2>1. Prefix(job, 0) \in Seq(Datum) /\ Len(Prefix(job, 0)) = 0
    BY <1>4, PrefixType
  <2> QED BY <2>1, NothingLeft
<1>6. Len(toDev) = 0 /\ \A K : OnlyKinds(toDev, K)
  <2>1. Len(toDev) = 0
    BY <1>2, EmptySeq
  <2> QED BY <2>1 DEF OnlyKinds
<1>7. CASE HasBlock(job, 1)
  <2>1. Send(Packet("data", 1)) /\ pc' = "waitData"
    BY <1>1, <1>7 DEF SendNext
  <2>2. /\ Len(toDev') = 1
        /\ toDev'[1] = [kind |-> "data", name |-> job, blk |-> 1]
    BY <1>6, <2>1, SendLine
  <2>3. Receiving' => InOrder(0)'
    <3>1. \A i \in 1..Len(toDev') : toDev'[i].blk = 0 + i
      BY <2>2
    <3>2. Receiving' => files'[file_path'] = Prefix(job, 0) /\ received_size' = 0
      BY <1>2, <1>5 DEF Receiving
    <3> QED BY <1>1, <3>1, <3>2 DEF InOrder, Prefix
  <2>4. Accounted(0)'
    <3>1. Receiving' => received_size' = 0
      BY <1>2 DEF Receiving
    <3>2. 0 + 1 = 1
      OBVIOUS
    <3> QED BY <1>1, <1>3, <1>4, <1>7, <2>2, <2>3, <3>1, <3>2
            DEF Accounted, HasBlock
  <2>5. 0 \in Nat /\ 1 \in Nat /\ 1 >= 1
    OBVIOUS
  <2> QED BY <1>1, <1>2, <1>6, <1>7, <2>1, <2>4, <2>5, LateDataSent
<1>8. CASE ~HasBlock(job, 1)
  <2>1. Send(Packet("eot", 0)) /\ pc' = "waitEot1"
    BY <1>1, <1>8 DEF SendNext
  <2>2. Size[job] = 0
    BY <1>4, <1>8
  <2>3. Receiving => received_size = Size[job] /\ Delivered
    BY <1>2, <1>5, <2>2 DEF Delivered, Source, LateInv, LateReceivingInv
  <2>4. stage \notin {"finishing", "closing"}
    BY <1>2 DEF Fresh, Receiving
  <2> QED BY <1>1, <1>3, <1>6, <2>1, <2>3, <2>4, LateEotSent
<1> QED
  BY <1>7, <1>8

\* A packet is acknowledged, perhaps not the one sent last: the next one, or
\* the end when as many acknowledgements have been read as there are packets.
LEMMA LatePacketAcked ==
    ASSUME TypeOK, TypeOK', LateInv, UNCHANGED deviceVars, HostPacketAcked
    PROVE  LateInv'
<1> USE DEF deviceVars, ctxVars, fsVars
<1>1. /\ pc = "waitData" /\ toHost # <<>> /\ Received("ACK") /\ ConsumeAndClear
      /\ SendNext(blk + 1) /\ blk' = blk + 1 /\ job' = job
  BY DEF HostPacketAcked, Received
<1>2. /\ Fresh \/ Receiving
      /\ blk >= 1 /\ HasBlock(job, blk)
      /\ OnlyKinds(toDev, {"data"})
  BY <1>1 DEF LateInv, LateDataInv
<1>3. PICK a \in Nat : Accounted(a)
  BY <1>1 DEF LateInv, LateDataInv
<1>4. /\ Acks(toHost) \in Nat /\ Acks(toHost') \in Nat
      /\ Acks(toHost') + 1 <= Acks(toHost)
  BY <1>1, ReadAcks
<1>5. blk \in Nat /\ blk + 1 \in Nat /\ blk + 1 >= 1 /\ job \in Names
  BY DEF TypeOK, HostTypeOK
<1>6. /\ Acks(toHost') + (blk + 1) <= a + 1
      /\ a >= blk
      /\ a >= 1 /\ HasBlock(job, a)
  BY <1>2, <1>3, <1>4, <1>5 DEF Accounted
<1>7. CASE HasBlock(job, blk + 1)
  <2>1. Send(Packet("data", blk + 1)) /\ pc' = "waitData"
    BY <1>1, <1>7 DEF SendNext
  <2>2. /\ Len(toDev) \in Nat /\ Len(toDev') = Len(toDev) + 1
        /\ \A i \in 1..Len(toDev) : toDev'[i] = toDev[i]
        /\ toDev'[Len(toDev) + 1]
             = [kind |-> "data", name |-> job, blk |-> blk + 1]
    BY <1>5, <2>1, SendLine
  <2>3. /\ Receiving' <=> Receiving
        /\ UNCHANGED <<received_size, file_path, files>>
    BY DEF Receiving
  <2>4. ASSUME Receiving, a + Len(toDev') = blk + 1 PROVE InOrder(a)'
    <3>1. a + Len(toDev) = blk
      BY <1>5, <2>2, <2>4
    <3>2. /\ \A i \in 1..Len(toDev) : toDev[i].blk = a + i
          /\ files[file_path] = Prefix(job, received_size)
      BY <1>3, <2>4, <3>1 DEF Accounted, InOrder
    <3>3. ASSUME NEW i \in 1..Len(toDev') PROVE toDev'[i].blk = a + i
      <4>1. CASE i = Len(toDev) + 1
        <5>1. toDev'[i].blk = blk + 1
          BY <2>2, <4>1
        <5>2. a + i = blk + 1
          BY <1>5, <2>2, <3>1, <4>1
        <5> QED BY <5>1, <5>2
      <4>2. CASE i # Len(toDev) + 1
        <5>1. i \in 1..Len(toDev)
          BY <2>2, <4>2
        <5> QED BY <2>2, <3>2, <5>1
      <4> QED BY <4>1, <4>2
    <3> QED BY <1>1, <2>3, <3>2, <3>3 DEF InOrder, Prefix
  <2>5. Accounted(a)'
    <3>1. Receiving => /\ received_size = IF HasBlock(job, a + 1)
                                          THEN Offset(a + 1) ELSE Size[job]
                       /\ a + Len(toDev) >= blk
      BY <1>3 DEF Accounted
    <3>2. Receiving => a + Len(toDev') >= blk + 1
      BY <1>5, <2>2, <3>1
    <3> QED BY <1>1, <1>6, <2>3, <2>4, <3>1, <3>2 DEF Accounted, HasBlock
  <2> QED BY <1>1, <1>2, <1>5, <1>7, <2>1, <2>5, LateDataSent
<1>8. CASE ~HasBlock(job, blk + 1)
  <2>1. Send(Packet("eot", 0)) /\ pc' = "waitEot1"
    BY <1>1, <1>8 DEF SendNext
  <2>2. a = blk
    <3>1. blk + 1 <= a => HasBlock(job, blk + 1)
      BY <1>5, <1>6, BlocksBefore
    <3> QED BY <1>5, <1>6, <1>8, <3>1
  <2>3. Acks(toHost') = 0
    BY <1>4, <1>5, <1>6, <2>2
  <2>4. Receiving => received_size = Size[job]
    BY <1>3, <1>8, <2>2 DEF Accounted
  <2>5. Receiving => Delivered \/ Overtaken
    <3>1. toDev \in Seq(Frame) /\ Len(toDev) \in Nat
      BY LenProperties DEF TypeOK, LineTypeOK
    <3>2. CASE toDev = <<>>
      <4>1. a + Len(toDev) = blk
        BY <1>5, <2>2, <3>2, EmptySeq
      <4>2. Receiving => files[file_path] = Prefix(job, received_size)
        BY <1>3, <4>1 DEF Accounted, InOrder
      <4> QED BY <2>4, <4>2
              DEF Delivered, Source, LateInv, LateReceivingInv
    <3>3. CASE toDev # <<>>
      <4>1. 1 \in 1..Len(toDev)
        BY <3>1, <3>3, NothingLeft
      <4> QED BY <1>2, <3>3, <4>1 DEF Overtaken, OnlyKinds
    <3> QED BY <3>2, <3>3
  <2>6. stage \notin {"finishing", "closing"}
    BY <1>2 DEF Fresh, Receiving
  <2>7. OnlyKinds(toDev, {"data", "eot"})
    BY <1>2 DEF OnlyKinds
  <2> QED BY <1>1, <2>1, <2>3, <2>4, <2>5, <2>6, <2>7, LateEotSent
<1> QED
  BY <1>7, <1>8

\* A packet is asked for again: from then on more packets are on the line than
\* acknowledgements are missing.
LEMMA LatePacketRefused ==
    ASSUME TypeOK, TypeOK', LateInv, UNCHANGED deviceVars, HostPacketRefused
    PROVE  LateInv'
<1> USE DEF deviceVars, ctxVars, fsVars
<1>1. CASE Send(Packet("data", blk)) /\ UNCHANGED <<pc, job, blk>>
  <2>1. pc = "waitData" /\ toHost # <<>> /\ ConsumeAndClear
    BY DEF HostPacketRefused, Received
  <2>2. /\ Fresh \/ Receiving
        /\ blk >= 1 /\ HasBlock(job, blk)
        /\ OnlyKinds(toDev, {"data"})
    BY <2>1 DEF LateInv, LateDataInv
  <2>3. PICK a \in Nat : Accounted(a)
    BY <2>1 DEF LateInv, LateDataInv
  <2>4. /\ Acks(toHost) \in Nat /\ Acks(toHost') \in Nat
        /\ Acks(toHost') <= Acks(toHost)
    BY <2>1, ReadAcks
  <2>5. blk \in Nat
    BY DEF TypeOK, HostTypeOK
  <2>6. Len(toDev) \in Nat /\ Len(toDev') = Len(toDev) + 1
    BY <1>1, <2>5, SendLine
  <2>7. Accounted(a)'
    <3>1. /\ a >= 1 => HasBlock(job, a)
          /\ Acks(toHost) + blk <= a + 1
          /\ Receiving => /\ received_size = IF HasBlock(job, a + 1)
                                             THEN Offset(a + 1) ELSE Size[job]
                          /\ a + Len(toDev) >= blk
      BY <2>3 DEF Accounted
    <3>2. Acks(toHost') + blk <= a + 1
      BY <2>4, <2>5, <3>1
    <3>3. Receiving => a + Len(toDev') > blk
      BY <2>5, <2>6, <3>1
    <3>4. Receiving => a + Len(toDev') >= blk /\ a + Len(toDev') # blk
      BY <2>5, <2>6, <3>3
    <3> QED BY <1>1, <3>1, <3>2, <3>4 DEF Accounted, HasBlock, Receiving
  <2> QED BY <1>1, <2>1, <2>2, <2>5, <2>7, LateDataSent
<1>2. CASE End("failed") /\ UNCHANGED toDev
  BY <1>2, LateGivingUp
<1> QED
  BY <1>1, <1>2 DEF HostPacketRefused

\* One step of the tool.
LEMMA LateHost ==
    ASSUME TypeOK, TypeOK', LateInv, UNCHANGED deviceVars,
           HostStep \/ HostTimeout \/ HostInterrupt
    PROVE  LateInv'
<1> USE DEF deviceVars, ctxVars, fsVars
<1>s. UNCHANGED stage => (Fresh' <=> Fresh) /\ (Receiving' <=> Receiving)
  BY DEF Fresh, Receiving
<1>d. UNCHANGED job => (Stored' <=> Stored)
  BY DEF Stored, Source, Prefix
<1>r. UNCHANGED job => LateReceivingInv'
  BY DEF LateInv, LateReceivingInv, Receiving
<1>1. CASE HostSendHeader
  <2>1. /\ pc = "waitC" /\ pc' = "waitHdrAck" /\ job' = job
        /\ Send(Packet("header", 0)) /\ toHost # <<>> /\ Consume
    BY <1>1 DEF HostSendHeader, Received
  <2>2. /\ Fresh /\ Acks(toHost) = 0 /\ OnlyKinds(toDev, {"cmd"})
    BY <2>1 DEF LateInv, LateHeaderInv
  <2>3. Acks(toHost') = 0
    <3>1. Acks(toHost') \in Nat /\ Acks(toHost') <= Acks(toHost)
      BY <2>1, ReadAcks
    <3> QED BY <2>2, <3>1
  <2>4. /\ LateLineInv'
        /\ Len(toDev) \in Nat /\ Len(toDev') = Len(toDev) + 1
        /\ \A i \in 1..Len(toDev) : toDev'[i] = toDev[i]
        /\ toDev'[Len(toDev) + 1] = [kind |-> "header", name |-> job, blk |-> 0]
    BY <2>1, LateSend DEF LateInv
  <2>5. ASSUME NEW i \in 1..Len(toDev')
        PROVE  /\ toDev'[i].kind \in {"cmd", "header"}
               /\ toDev'[i].kind = "header" => i = Len(toDev')
    <3>1. CASE i = Len(toDev) + 1
      BY <3>1, <2>4
    <3>2. CASE i # Len(toDev) + 1
      <4>1. i \in 1..Len(toDev)
        BY <2>4, <3>2
      <4> QED BY <4>1, <2>2, <2>4 DEF OnlyKinds
    <3> QED BY <3>1, <3>2
  <2>6. Fresh' /\ ~Receiving'
    BY <2>2, <1>s DEF Fresh, Receiving
  <2> QED BY <2>1, <2>3, <2>4, <2>5, <2>6, <1>r
          DEF LateInv, LateHeaderInv, LateDataInv, LateEndInv, OnlyKinds
<1>2. CASE HostHeaderAcked
  <2>1. /\ pc = "waitHdrAck" /\ pc' = "waitHdrC" /\ job' = job /\ toHost # <<>>
        /\ Received("ACK") /\ Consume /\ toDev' = toDev
    BY <1>2 DEF HostHeaderAcked, Received
  <2>2. /\ Acks(toHost) \in Nat /\ Acks(toHost') \in Nat
        /\ Acks(toHost') + 1 <= Acks(toHost)
    BY <2>1, ReadAcks
  <2>3. /\ Fresh \/ Receiving
        /\ Acks(toHost) <= 1
        /\ toDev # <<>> => Acks(toHost) = 0
        /\ Receiving => received_size = 0 /\ files[file_path] = <<>>
    BY <2>1 DEF LateInv, LateHeaderInv
  <2>4. Acks(toHost') = 0 /\ toDev = <<>>
    BY <2>2, <2>3
  <2>5. LateLineInv'
    BY <2>1 DEF LateInv, LateLineInv
  <2> QED BY <2>1, <2>3, <2>4, <2>5, <1>s, <1>r
          DEF LateInv, LateHeaderInv, LateDataInv, LateEndInv
<1>3. CASE HostFirstPacket
  BY <1>3, LateFirstPacket
<1>4. CASE HostPacketAcked
  BY <1>4, LatePacketAcked
<1>5. CASE HostPacketRefused
  BY <1>5, LatePacketRefused
<1>6. CASE HostCancelled
  BY <1>6, LateGivingUp DEF HostCancelled
<1>7. CASE HostSecondEot
  <2>1. /\ pc = "waitEot1" /\ pc' = "waitEot2" /\ job' = job
        /\ Send(Packet("eot", 0))
    BY <1>7 DEF HostSecondEot
  <2>2. PICK k \in 0..Len(toHost) : toHost' = SubSeq(toHost, k + 1, Len(toHost))
    BY <1>7 DEF HostSecondEot
  <2>3. Acks(toHost') > 0 => Acks(toHost) > 0
    <3>1. toHost \in Seq(Char) /\ toHost' \in Seq(Char)
      BY DEF TypeOK, LineTypeOK
    <3>2. Acks(SubSeq(toHost, k + 1, Len(toHost))) <= Acks(toHost)
      BY <3>1, DropAcks
    <3>3. Acks(toHost') <= Acks(toHost)
      BY <2>2, <3>2
    <3>4. \A s \in Seq(Char) : Acks(s) \in Nat
      BY AcksType
    <3> QED BY <3>1, <3>3, <3>4
  <2>4. /\ OnlyKinds(toDev, {"data", "eot"})
        /\ stage \in {"finishing", "closing"} => Stored
        /\ Acks(toHost) > 0 => Stored /\ ~Receiving
        /\ Receiving => received_size = Size[job] /\ (Delivered \/ Overtaken)
    BY <2>1 DEF LateInv, LateEndInv
  <2> QED BY <2>1, <2>3, <2>4, LateEotSent
<1>8. CASE HostEotAcked
  <2>1. /\ pc = "waitEot2" /\ pc' = "waitFinC" /\ job' = job /\ toHost # <<>>
        /\ Received("ACK") /\ Consume /\ toDev' = toDev
    BY <1>8 DEF HostEotAcked, Received
  <2>2. /\ Acks(toHost) \in Nat /\ Acks(toHost') \in Nat
        /\ Acks(toHost') + 1 <= Acks(toHost)
    BY <2>1, ReadAcks
  <2>3. Acks(toHost) > 0
    BY <2>2
  <2>4. Stored /\ ~Receiving /\ OnlyKinds(toDev, {"data", "eot"})
    BY <2>1, <2>3 DEF LateInv, LateEndInv
  <2>5. OnlyKinds(toDev', {"data", "eot", "fin"}) /\ LateLineInv'
    BY <2>1, <2>4 DEF OnlyKinds, LateInv, LateLineInv
  <2> QED BY <2>1, <2>4, <2>5, <1>s, <1>d, <1>r
          DEF LateInv, LateHeaderInv, LateDataInv, LateEndInv
<1>9. CASE HostSendFinal
  <2>1. /\ pc = "waitFinC" /\ pc' = "waitFinAck" /\ job' = job
        /\ Send(Packet("fin", 0))
    BY <1>9 DEF HostSendFinal
  <2>2. Stored /\ ~Receiving /\ OnlyKinds(toDev, {"data", "eot", "fin"})
    BY <2>1 DEF LateInv, LateEndInv
  <2>3. OnlyKinds(toDev', {"data", "eot", "fin"}) /\ LateLineInv'
    BY <2>1, <2>2, LateSend DEF LateInv
  <2> QED BY <2>1, <2>2, <2>3, <1>s, <1>d, <1>r
          DEF LateInv, LateHeaderInv, LateDataInv, LateEndInv
<1>10. CASE HostComplete
  <2>1. /\ pc = "waitFinAck" /\ pc' = "complete" /\ job' = job /\ toDev' = toDev
    BY <1>10 DEF HostComplete, End
  <2>2. Stored /\ ~Receiving /\ OnlyKinds(toDev, {"data", "eot", "fin"})
    BY <2>1 DEF LateInv, LateEndInv
  <2>3. OnlyKinds(toDev', {"data", "eot", "fin"}) /\ LateLineInv'
    BY <2>1, <2>2 DEF OnlyKinds, LateInv, LateLineInv
  <2> QED BY <2>1, <2>2, <2>3, <1>s, <1>d, <1>r
          DEF LateInv, LateHeaderInv, LateDataInv, LateEndInv
<1>11. CASE HostSkip
  <2>1. UNCHANGED <<toDev, hostVars, files, stage>> /\ toHost # <<>> /\ Consume
    BY <1>11 DEF HostSkip
  <2>2. Acks(toHost') <= Acks(toHost)
    BY <2>1, ReadAcks
  <2>3. SuffixOf(toDev, toDev')
    BY <2>1, LenProperties DEF SuffixOf, TypeOK, LineTypeOK
  <2>4. Stored => Stored'
    BY <2>1, <1>d DEF hostVars
  <2> QED BY <2>1, <2>2, <2>3, <2>4, <1>s, LateCalm
<1>12. CASE HostTimeout \/ HostInterrupt
  BY <1>12, LateGivingUp DEF HostTimeout, HostInterrupt, lineVars
<1> QED
  BY <1>1, <1>2, <1>3, <1>4, <1>5, <1>6, <1>7, <1>8, <1>9, <1>10, <1>11,
     <1>12 DEF HostStep

\* Which waits the kind of the frame at hand rules out.
LEMMA LateWhoSent ==
    ASSUME TypeOK, LateInv, toDev # <<>>, ReadFrame, job' = job
    PROVE  /\ Head(toDev).kind = "header" => pc \in {"waitHdrAck", "failed"}
           /\ Head(toDev).kind = "data"   =>
                 pc \in {"waitData", "waitEot1", "waitEot2", "waitFinC",
                         "waitFinAck", "complete", "failed"}
           /\ Head(toDev).kind = "eot"    =>
                 pc \in {"waitEot1", "waitEot2", "waitFinC", "waitFinAck",
                        "complete", "failed"}
           /\ Head(toDev).kind = "fin"    =>
                 pc \in {"waitFinC", "waitFinAck", "complete", "failed"}
<1>1. pc \in Waits \cup Ended
  BY DEF TypeOK, HostTypeOK
<1>2. \A K : OnlyKinds(toDev, K) => Head(toDev).kind \in K
  BY LateRead DEF LateInv
<1>3. pc \notin {"idle", "waitHdrC"}
  BY DEF LateInv, LateHeaderInv
<1>4. pc = "waitC" => Head(toDev).kind \in {"cmd"}
  BY <1>2 DEF LateInv, LateHeaderInv
<1>5. pc = "waitHdrAck" => Head(toDev).kind \in {"cmd", "header"}
  BY <1>2 DEF LateInv, LateHeaderInv
<1>6. pc = "waitData" => Head(toDev).kind \in {"data"}
  BY <1>2 DEF LateInv, LateDataInv
<1>7. pc \in {"waitEot1", "waitEot2"} => Head(toDev).kind \in {"data", "eot"}
  BY <1>2 DEF LateInv, LateEndInv
<1>8. pc \in {"waitFinC", "waitFinAck", "complete"}
        => Head(toDev).kind \in {"data", "eot", "fin"}
  BY <1>2 DEF LateInv, LateEndInv
<1> QED
  BY <1>1, <1>3, <1>4, <1>5, <1>6, <1>7, <1>8 DEF Waits, Ended

\* The steps that receive nothing, a restart, and the second request itself.
LEMMA LateQuiet ==
    ASSUME TypeOK, TypeOK', LateInv, UNCHANGED hostVars,
           \/ ShellReads \/ OperatorTypesYrcv \/ YrcvDrain \/ HandshakeSendC
           \/ HandshakeIgnores \/ SessionTimeout \/ DeviceRestart
           \/ toDev # <<>> /\ ReadFrame /\ stage' = "shell"
                /\ UNCHANGED <<toHost, files, dirty>>
    PROVE  LateInv'
<1>1. /\ toDev \in Seq(Frame) /\ Len(toDev) \in Nat
      /\ toHost \in Seq(Char) /\ Acks(toHost) \in Nat /\ job' = job
  BY LenProperties, AcksType DEF TypeOK, LineTypeOK, hostVars
<1>2. SuffixOf(toDev, <<>>) /\ SuffixOf(toDev, toDev)
  <2>1. Len(<<>>) = 0
    BY EmptySeq
  <2> QED BY <1>1, <2>1 DEF SuffixOf
<1>3. SuffixOf(toDev, toDev')
  <2>1. CASE toDev # <<>> /\ ReadFrame
    BY <2>1, <1>1, LateRead DEF LateInv
  <2>2. CASE toDev' = <<>> \/ toDev' = toDev
    BY <2>2, <1>2
  <2> QED BY <2>1, <2>2 DEF ShellReads, OperatorTypesYrcv, YrcvDrain,
          HandshakeSendC, HandshakeIgnores, SessionTimeout, DeviceRestart, lineVars
<1>4. Acks(toHost') <= Acks(toHost)
  <2>1. CASE toHost' = toHost
    BY <2>1, <1>1
  <2>2. CASE HandshakeSendC
    <3>1. "C" \in Char /\ "C" # "ACK" /\ Put(<<"C">>)
      BY <2>2 DEF Char, HandshakeSendC
    <3> QED BY <3>1, PutAcks
  <2> QED BY <2>1, <2>2 DEF ShellReads, OperatorTypesYrcv, YrcvDrain,
          HandshakeIgnores, SessionTimeout, DeviceRestart, lineVars
<1>5. Fresh'
  BY DEF ShellReads, OperatorTypesYrcv, YrcvDrain, HandshakeSendC,
         HandshakeIgnores, SessionTimeout, DeviceRestart, Fresh
<1>6. Stored => Stored'
  <2>1. CASE UNCHANGED <<files, dirty>>
    BY <2>1, <1>1 DEF Stored, Source, Prefix
  <2>2. CASE DeviceRestart
    <3>1. \A p \in Paths \ dirty : files'[p] = files[p]
      BY <2>2, RestartFiles
    <3>2. DevPath[job] \in Paths /\ dirty' = {}
      BY <2>2 DEF DeviceRestart, Paths, TypeOK, HostTypeOK
    <3> QED BY <3>1, <3>2, <1>1 DEF Stored, Source, Prefix
  <2> QED BY <2>1, <2>2 DEF ShellReads, OperatorTypesYrcv, YrcvDrain,
          HandshakeSendC, HandshakeIgnores, SessionTimeout, fsVars
<1> QED
  BY <1>3, <1>4, <1>5, <1>6, LateCalm

\* A character put or lost, a frame lost outside a file, or nothing at all.
LEMMA LateLine ==
    ASSUME TypeOK, TypeOK', LateInv,
           \/ LateNak \/ LoseChar \/ LineNoise \/ UNCHANGED vars
           \/ stage # "transmitting" /\ LoseFrame
    PROVE  LateInv'
<1>1. /\ UNCHANGED <<hostVars, deviceVars>>
      /\ toDev' = toDev \/ (~Receiving /\ toDev # <<>> /\ ReadFrame)
  BY DEF LateNak, LoseChar, LineNoise, LoseFrame, vars, lineVars, Receiving
<1>2. UNCHANGED <<stage, ctxVars, files, dirty, job>>
  BY <1>1 DEF deviceVars, fsVars, hostVars
<1>3. SuffixOf(toDev, toDev')
  <2>1. CASE toDev' = toDev
    BY <2>1, LenProperties DEF SuffixOf, TypeOK, LineTypeOK
  <2>2. CASE toDev # <<>> /\ ReadFrame
    BY <1>2, <2>2, LateRead DEF LateInv
  <2> QED BY <1>1, <2>1, <2>2
<1>4. Acks(toHost') <= Acks(toHost)
  <2>1. CASE toHost' = toHost
    BY <2>1, AcksType DEF TypeOK, LineTypeOK
  <2>2. CASE Put(<<"C">>)
    <3>1. "C" \in Char /\ "C" # "ACK"
      BY DEF Char
    <3> QED BY <2>2, <3>1, PutAcks
  <2>3. CASE Put(<<"NAK">>)
    <3>1. "NAK" \in Char /\ "NAK" # "ACK"
      BY DEF Char
    <3> QED BY <2>3, <3>1, PutAcks
  <2>4. CASE toHost # <<>> /\ Consume
    BY <2>4, ReadAcks
  <2> QED BY <2>1, <2>2, <2>3, <2>4
          DEF LateNak, LoseChar, LineNoise, LoseFrame, vars, lineVars
<1>5. (Fresh => Fresh') /\ (Stored => Stored')
  BY <1>2 DEF Fresh, Stored, Source, Prefix
<1> QED
  BY <1>1, <1>2, <1>3, <1>4, <1>5, LateCalm

\* The header opens a new, empty file under the name of the job, or ends yrcv.
LEMMA LateHeaderStep ==
    ASSUME TypeOK, TypeOK', LateInv, UNCHANGED hostVars, ReceiveHeader
    PROVE  LateInv'
<1> DEFINE n == Head(toDev).name
<1>1. /\ Fresh /\ toDev # <<>> /\ ReadFrame /\ Head(toDev).kind = "header"
      /\ UNCHANGED <<pc, job, blk>>
  BY DEF ReceiveHeader, Incoming, Fresh, hostVars
<1>2. /\ LateLineInv' /\ Head(toDev) = toDev[1] /\ 1 \in 1..Len(toDev)
      /\ Len(toDev) = 1 => toDev' = <<>>
  BY <1>1, LateRead DEF LateInv
<1>3. n = job
  BY <1>2 DEF LateInv, LateLineInv
<1>4. pc \in {"waitHdrAck", "failed"}
  BY <1>1, LateWhoSent
<1>5. job \in Names /\ DevPath[job] \in Paths
  BY DEF TypeOK, HostTypeOK, Paths
<1>6. ASSUME NEW fd \in Fd, on_begin_ack(n, fd), Put(<<"ACK", "C">>),
             stage' = "transmitting"
      PROVE  LateInv'
  <2>1. LateReceivingInv' /\ received_size' = 0 /\ Receiving'
    BY <1>1, <1>3, <1>6 DEF on_begin_ack, LateReceivingInv, Receiving, Fd
  <2>2. files'[file_path'] = <<>>
    BY <1>3, <1>5, <1>6 DEF on_begin_ack, TypeOK, DeviceTypeOK
  <2>3. CASE pc = "failed"
    BY <1>1, <1>2, <2>1, <2>3
       DEF LateInv, LateHeaderInv, LateDataInv, LateEndInv
  <2>4. CASE pc = "waitHdrAck"
    <3>1. toDev' = <<>> /\ Acks(toHost) = 0
      BY <1>1, <1>2, <2>4 DEF LateInv, LateHeaderInv
    <3>2. Acks(toHost') <= 1
      <4>1. "ACK" \in Char
        BY DEF Char
      <4>2. Acks(toHost') \in Nat /\ Acks(toHost') <= Acks(toHost) + 1
        BY <1>6, <4>1, PutAcks
      <4> QED BY <3>1, <4>2
    <3>3. Len(toDev') = 0
      BY <3>1, EmptySeq
    <3>4. LateHeaderInv'
      BY <1>1, <2>1, <2>2, <2>4, <3>1, <3>2, <3>3 DEF LateHeaderInv, OnlyKinds
    <3> QED BY <1>1, <1>2, <2>1, <2>4, <3>4 DEF LateInv, LateDataInv, LateEndInv
  <2> QED BY <1>4, <2>3, <2>4
<1>7. ASSUME on_begin_can(n), stage' = "shell", UNCHANGED toHost
      PROVE  LateInv'
  BY <1>1, <1>7, LateQuiet DEF on_begin_can, fsVars
<1> QED
  BY <1>6, <1>7 DEF ReceiveHeader

\* on_data takes the packet for the next one: it is, if none was sent twice;
\* and in any case it takes its share of file_size.
LEMMA LateDataAcked ==
    ASSUME TypeOK, TypeOK', LateInv, UNCHANGED hostVars, stage = "transmitting",
           Incoming("data"), ReadFrame, on_data_ack(Head(toDev)),
           Put(<<"ACK">>), stage' = stage
    PROVE  LateInv'
<1> DEFINE f == Head(toDev)
<1>1. /\ Receiving /\ Receiving' /\ toDev # <<>> /\ f.kind = "data"
      /\ UNCHANGED <<pc, job, blk>>
  BY DEF Incoming, Receiving, hostVars
<1>2. /\ LateLineInv' /\ f = toDev[1] /\ 1 \in 1..Len(toDev)
      /\ Len(toDev) \in Nat /\ Len(toDev') = Len(toDev) - 1
      /\ \A i \in 1..Len(toDev') : /\ i + 1 \in 1..Len(toDev)
                                   /\ toDev'[i] = toDev[i + 1]
      /\ \A K : OnlyKinds(toDev, K) => OnlyKinds(toDev', K)
  BY <1>1, LateRead DEF LateInv
<1>3. f.name = job
  BY <1>2 DEF LateInv, LateLineInv
<1>4. /\ f \in Frame /\ f.blk \in Nat /\ job \in Names /\ Size[job] \in Nat
      /\ received_size \in Nat /\ DevPath[job] \in Paths /\ blk \in Nat
  BY <1>1, HeadFrame DEF Frame, TypeOK, HostTypeOK, DeviceTypeOK, Paths
<1>5. file_fd >= 0 /\ file_size = Size[job] /\ file_path = DevPath[job]
  BY <1>1 DEF LateInv, LateReceivingInv
<1> HIDE DEF f
<1>6. DataLen \in Nat /\ DataLen > 0 /\ ~DataRefused
  BY DataLenType DEF on_data_ack
<1>7. /\ received_size < Size[job]
      /\ received_size + DataLen <= Size[job]
      /\ received_size + DataLen = IF received_size + PacketSize < Size[job]
                                   THEN received_size + PacketSize ELSE Size[job]
  BY <1>4, <1>5, <1>6 DEF DataLen
<1>8. /\ received_size' = received_size + DataLen
      /\ UNCHANGED <<file_fd, file_size, file_path>>
      /\ files'[file_path] = files[file_path] \o Chunk(job, f.blk, DataLen)
  BY <1>3, <1>4, <1>5 DEF on_data_ack, WriteChunk, TypeOK, DeviceTypeOK, f
<1>9. LateReceivingInv'
  BY <1>1, <1>5, <1>8 DEF LateReceivingInv
<1>10. pc \in {"waitData", "failed"}
  <2>1. pc \in {"waitEot1", "waitEot2"} => received_size = Size[job]
    BY <1>1 DEF LateInv, LateEndInv
  <2>2. pc \notin {"waitFinC", "waitFinAck", "complete"}
    BY <1>1 DEF LateInv, LateEndInv
  <2>3. pc \in {"waitData", "waitEot1", "waitEot2", "waitFinC", "waitFinAck",
               "complete", "failed"}
    BY <1>1, LateWhoSent DEF f
  <2> QED BY <1>4, <1>7, <2>1, <2>2, <2>3
<1>11. CASE pc = "failed"
  BY <1>1, <1>2, <1>9, <1>11 DEF LateInv, LateHeaderInv, LateDataInv, LateEndInv
<1>12. CASE pc = "waitData"
  <2>1. /\ blk >= 1 /\ HasBlock(job, blk)
        /\ OnlyKinds(toDev, {"data"})
    BY <1>12 DEF LateInv, LateDataInv
  <2>2. PICK a \in Nat : Accounted(a)
    BY <1>12 DEF LateInv, LateDataInv
  <2>3. /\ HasBlock(job, a + 1) /\ received_size = Offset(a + 1)
        /\ a + Len(toDev) >= blk
    BY <1>1, <1>4, <1>7, <2>2 DEF Accounted
  <2>4. /\ a + 1 \in Nat /\ (a + 1) + 1 \in Nat /\ a + 1 >= 1
        /\ Offset((a + 1) + 1) = received_size + PacketSize
    BY <2>2, <2>3, BlockStep
  <2>5. received_size' = IF HasBlock(job, (a + 1) + 1)
                         THEN Offset((a + 1) + 1) ELSE Size[job]
    BY <1>7, <1>8, <2>4 DEF HasBlock
  <2>6. Acks(toHost') + blk <= (a + 1) + 1
    <3>1. "ACK" \in Char
      BY DEF Char
    <3>2. /\ Acks(toHost) \in Nat /\ Acks(toHost') \in Nat
          /\ Acks(toHost') <= Acks(toHost) + 1
      BY <3>1, PutAcks
    <3>3. Acks(toHost) + blk <= a + 1
      BY <2>2 DEF Accounted
    <3> QED BY <1>4, <3>2, <3>3
  <2>7. (a + 1) + Len(toDev') = a + Len(toDev)
    BY <1>2
  <2>8. ASSUME (a + 1) + Len(toDev') = blk PROVE InOrder(a + 1)'
    <3>1. /\ \A i \in 1..Len(toDev) : toDev[i].blk = a + i
          /\ files[file_path] = Prefix(job, received_size)
      BY <1>1, <2>2, <2>7, <2>8 DEF Accounted, InOrder
    <3>2. \A i \in 1..Len(toDev') : toDev'[i].blk = (a + 1) + i
      <4> TAKE i \in 1..Len(toDev')
      <4>1. i + 1 \in 1..Len(toDev) /\ toDev'[i] = toDev[i + 1]
        BY <1>2
      <4>2. toDev[i + 1].blk = a + (i + 1)
        BY <3>1, <4>1
      <4>3. a + (i + 1) = (a + 1) + i
        BY <1>2
      <4> QED BY <4>1, <4>2, <4>3
    <3>3. f.blk = a + 1
      BY <1>2, <3>1
    <3>4. files'[file_path] = Prefix(job, received_size + DataLen)
      <4>1. /\ job \in Names /\ a + 1 \in Nat /\ DataLen \in Nat
            /\ Offset(a + 1) \in Nat /\ Offset(a + 1) + DataLen <= Size[job]
        BY <1>4, <1>6, <1>7, <2>3, <2>4
      <4>2. Prefix(job, Offset(a + 1)) \o Chunk(job, a + 1, DataLen)
              = Prefix(job, Offset(a + 1) + DataLen)
        BY <4>1, PrefixGrows
      <4> QED BY <1>8, <2>3, <3>1, <3>3, <4>2
    <3> QED BY <1>1, <1>8, <3>2, <3>4 DEF InOrder, Prefix
  <2>9. Accounted(a + 1)'
    BY <1>1, <2>3, <2>4, <2>5, <2>6, <2>7, <2>8 DEF Accounted, HasBlock
  <2>10. LateDataInv'
    <3>1. \E b \in Nat : Accounted(b)'
      BY <2>4, <2>9
    <3> QED BY <1>1, <1>2, <2>1, <3>1 DEF LateDataInv, HasBlock
  <2> QED BY <1>1, <1>2, <1>9, <1>12, <2>10
          DEF LateInv, LateHeaderInv, LateEndInv
<1> QED
  BY <1>10, <1>11, <1>12

\* on_data refuses the packet, or writes a part of it: the session is over.
LEMMA LateDataRefused ==
    ASSUME TypeOK, TypeOK', LateInv, UNCHANGED hostVars, stage = "transmitting",
           Incoming("data"), ReadFrame, Put(<<"CA">>), stage' = "shell"
    PROVE  LateInv'
<1>1. /\ Receiving /\ toDev # <<>> /\ Head(toDev).kind = "data"
      /\ UNCHANGED <<pc, job, blk>> /\ Fresh' /\ ~Receiving'
  BY DEF Incoming, Receiving, Fresh, hostVars
<1>2. LateLineInv' /\ \A K : OnlyKinds(toDev, K) => OnlyKinds(toDev', K)
  BY <1>1, LateRead DEF LateInv
<1>3. pc \in {"waitData", "waitEot1", "waitEot2", "failed"}
  <2>1. pc \notin {"waitFinC", "waitFinAck", "complete"}
    BY <1>1 DEF LateInv, LateEndInv
  <2> QED BY <1>1, <2>1, LateWhoSent
<1>4. /\ Acks(toHost) \in Nat /\ Acks(toHost') \in Nat
      /\ Acks(toHost') <= Acks(toHost)
  <2>1. "CA" \in Char /\ "CA" # "ACK"
    BY DEF Char
  <2> QED BY <2>1, PutAcks
<1>5. LateReceivingInv'
  BY <1>1 DEF LateReceivingInv
<1>6. ASSUME pc = "waitData" PROVE LateDataInv'
  <2>1. /\ blk >= 1 /\ HasBlock(job, blk)
        /\ OnlyKinds(toDev, {"data"})
    BY <1>6 DEF LateInv, LateDataInv
  <2>2. PICK a \in Nat : Accounted(a)
    BY <1>6 DEF LateInv, LateDataInv
  <2>3. Accounted(a)'
    <3>1. Acks(toHost') + blk <= a + 1
      BY <1>4, <2>2 DEF Accounted, TypeOK, HostTypeOK
    <3> QED BY <1>1, <2>2, <3>1 DEF Accounted, HasBlock
  <2> QED BY <1>1, <1>2, <2>1, <2>3 DEF LateDataInv, HasBlock
<1>7. ASSUME pc \in {"waitEot1", "waitEot2"} PROVE LateEndInv'
  <2>1. OnlyKinds(toDev, {"data", "eot"}) /\ ~(Acks(toHost) > 0)
    BY <1>1, <1>7 DEF LateInv, LateEndInv
  <2>2. ~(Acks(toHost') > 0)
    BY <1>4, <2>1
  <2>3. stage' \notin {"finishing", "closing"}
    OBVIOUS
  <2> QED BY <1>1, <1>2, <1>7, <2>1, <2>2, <2>3 DEF LateEndInv
<1>8. pc = "failed" \/ pc = "waitData" => LateEndInv'
  BY <1>1 DEF LateEndInv
<1>9. pc # "waitData" => LateDataInv'
  BY <1>1 DEF LateDataInv
<1> QED
  BY <1>1, <1>2, <1>3, <1>5, <1>6, <1>7, <1>8, <1>9 DEF LateInv, LateHeaderInv

\* An EOT ends the reception: nothing was overtaken, so the file is whole.
LEMMA LateEotStep ==
    ASSUME TypeOK, TypeOK', LateInv, UNCHANGED hostVars, ReceiveEot
    PROVE  LateInv'
<1>1. /\ Receiving /\ toDev # <<>> /\ ReadFrame /\ Head(toDev).kind = "eot"
      /\ UNCHANGED <<pc, job, blk>> /\ on_end /\ Put(<<"NAK">>)
      /\ stage' = "finishing"
  BY DEF ReceiveEot, Incoming, Receiving, hostVars
<1>2. /\ LateLineInv' /\ Head(toDev) = toDev[1]
      /\ \A K : OnlyKinds(toDev, K) => OnlyKinds(toDev', K)
  BY <1>1, LateRead DEF LateInv
<1>3. pc \in {"waitEot1", "waitEot2", "failed"}
  <2>1. pc \notin {"waitFinC", "waitFinAck", "complete"}
    BY <1>1 DEF LateInv, LateEndInv
  <2> QED BY <1>1, <2>1, LateWhoSent
<1>4. LateReceivingInv' /\ ~Receiving'
  BY <1>1 DEF LateReceivingInv, Receiving
<1>5. CASE pc = "failed"
  BY <1>1, <1>2, <1>4, <1>5 DEF LateInv, LateHeaderInv, LateDataInv, LateEndInv
<1>6. CASE pc \in {"waitEot1", "waitEot2"}
  <2>1. /\ OnlyKinds(toDev, {"data", "eot"})
        /\ Delivered \/ Overtaken
    BY <1>1, <1>6 DEF LateInv, LateEndInv
  <2>2. ~Overtaken
    BY <1>1, <1>2 DEF Overtaken
  <2>3. Stored'
    BY <1>1, <2>1, <2>2 DEF on_end, LateInv, LateReceivingInv, Delivered, Stored,
                            Source, Prefix
  <2>4. LateEndInv'
    BY <1>1, <1>2, <1>4, <1>6, <2>1, <2>3 DEF LateEndInv
  <2> QED BY <1>1, <1>2, <1>4, <1>6, <2>4 DEF LateInv, LateHeaderInv, LateDataInv
<1> QED
  BY <1>3, <1>5, <1>6

\* The second EOT and the final packet are answered for a file that is whole.
LEMMA LateFinishSteps ==
    ASSUME TypeOK, TypeOK', LateInv, UNCHANGED hostVars,
           ReceiveSecondEot \/ ReceiveFinal
    PROVE  LateInv'
<1>1. /\ stage \in {"finishing", "closing"} /\ toDev # <<>> /\ ReadFrame
      /\ Head(toDev).kind \in {"eot", "fin"}
      /\ UNCHANGED <<pc, job, blk, files, dirty>>
      /\ stage' \in {"closing", "shell"}
  BY DEF ReceiveSecondEot, ReceiveFinal, Incoming, hostVars, fsVars
<1>2. LateLineInv' /\ \A K : OnlyKinds(toDev, K) => OnlyKinds(toDev', K)
  BY <1>1, LateRead DEF LateInv
<1>3. pc \in {"waitEot1", "waitEot2", "waitFinC", "waitFinAck", "complete",
             "failed"}
  BY <1>1, LateWhoSent
<1>4. LateReceivingInv' /\ ~Receiving'
  BY <1>1 DEF LateReceivingInv, Receiving
<1>5. pc # "failed" => Stored'
  <2>1. pc # "failed" => Stored
    BY <1>1, <1>3 DEF LateInv, LateEndInv
  <2> QED BY <1>1, <2>1 DEF Stored, Source, Prefix
<1>6. LateEndInv'
  BY <1>1, <1>2, <1>3, <1>4, <1>5 DEF LateInv, LateEndInv
<1> QED
  BY <1>1, <1>2, <1>3, <1>4, <1>6 DEF LateInv, LateHeaderInv, LateDataInv

\* Before the first transfer the line is empty and yrcv does not run.
LEMMA LateInit == Init => LateInv
<1> SUFFICES ASSUME Init PROVE LateInv
  OBVIOUS
<1>1. Len(toDev) = 0
  BY EmptySeq DEF Init
<1> QED
  BY <1>1 DEF Init, HostInit, DeviceInit, LateInv, LateLineInv, LateReceivingInv,
              LateHeaderInv, LateDataInv, LateEndInv, Receiving, Fresh

\* Every step of the tool and of a late receiver keeps the accounts.
LEMMA LateStep == TypeOK /\ TypeOK' /\ LateInv /\ [LateNext]_vars => LateInv'
<1> SUFFICES ASSUME TypeOK, TypeOK', LateInv, [LateNext]_vars PROVE LateInv'
  OBVIOUS
<1>1. ASSUME NEW n \in Names, NEW pre_cmd \in BOOLEAN, StartTransfer(n, pre_cmd)
      PROVE  LateInv'
  <2>1. /\ Fresh' /\ ~Receiving' /\ pc' = "waitC" /\ job' = n /\ toHost' = <<>>
        /\ \/ toDev' = <<>>
           \/ toDev' = <<[kind |-> "cmd", name |-> n, blk |-> 0]>>
    BY <1>1 DEF StartTransfer, HostStart, Fresh, Receiving, deviceVars
  <2>2. Acks(toHost') = 0
    BY <2>1, FewAcks
  <2>3. Len(toDev') <= 1
    <3>1. CASE toDev' = <<>>
      BY <3>1, EmptySeq
    <3>2. CASE toDev' = <<[kind |-> "cmd", name |-> n, blk |-> 0]>>
      <4>1. Len(toDev') = 1
        BY <3>2
      <4> QED BY <4>1
    <3> QED BY <2>1, <3>1, <3>2
  <2>4. \A i \in 1..Len(toDev') : toDev'[i].kind = "cmd" /\ toDev'[i].name = n
    BY <2>1, EmptySeq
  <2> QED BY <2>1, <2>2, <2>3, <2>4 DEF LateInv, LateLineInv, LateReceivingInv,
             LateHeaderInv, LateDataInv, LateEndInv, OnlyKinds
<1>2. CASE HostAlone
  BY <1>2, LateHost DEF HostAlone
<1>3. CASE ReceiveData /\ UNCHANGED hostVars
  BY <1>3, LateDataAcked, LateDataRefused DEF ReceiveData
<1>4. CASE LateDevice
  <2>1. CASE ReceiveDamaged /\ stage' = "shell"
    BY <1>4, <2>1, LateQuiet DEF ReceiveDamaged, LateDevice, fsVars
  <2> QED BY <1>3, <1>4, <2>1, LateQuiet, LateHeaderStep, LateEotStep,
             LateFinishSteps DEF LateDevice, DeviceStep
<1>5. CASE \/ LateNak \/ LoseChar \/ LineNoise \/ UNCHANGED vars
           \/ stage # "transmitting" /\ LoseFrame
  BY <1>5, LateLine
<1> QED
  BY <1>1, <1>2, <1>4, <1>5 DEF LateNext

\* ymodem_send reports no success that is none to a watch that asks again for
\* packets it has, either: see DeliveredOnSuccess.
THEOREM LateSuccessIsDelivery == LateSpec => []DeliveredOnSuccess
<1>1. LateSpec => []TypeOK
  BY TypeInit, LateTypeNext, PTL DEF LateSpec
<1>2. LateSpec => []LateInv
  BY <1>1, LateInit, LateStep, PTL DEF LateSpec
<1>3. LateInv => DeliveredOnSuccess
  BY DEF LateInv, LateEndInv, Stored, DeliveredOnSuccess
<1> QED
  BY <1>2, <1>3, PTL
=============================================================================

----------------------------- MODULE SerialLine -----------------------------
(***************************************************************************)
(* The console UART between the upload tool (tools/ymodem_send.py) and the *)
(* watch (src/reg_commands.c, command yrcv): two byte streams, abstracted  *)
(* to a queue of frames towards the watch and a queue of control           *)
(* characters towards the tool.                                            *)
(*                                                                         *)
(* A file is abstracted to its size: byte j of file n is the pair <<n, j>>,*)
(* so that a content on the watch tells which file, and which place of it, *)
(* every byte came from.                                                   *)
(***************************************************************************)
EXTENDS Integers, Sequences

CONSTANTS
    Names,        \* the files the operator may send, one per invocation
    Size,         \* Size[n]: the length of file n, in bytes
    PacketSize,   \* PACKET_128 of the tool: payload bytes of a data packet
    MaxQueue      \* bound: characters that find so many unread ones are lost

ASSUME NamesAssumption == Size \in [Names -> Nat]
ASSUME PacketAssumption == PacketSize \in Nat \ {0}
ASSUME QueueAssumption == MaxQueue \in Nat \ {0}

VARIABLES
    toDev,        \* frames written by the tool, not yet read by the watch
    toHost        \* characters written by the watch, not yet read by the tool

lineVars == <<toDev, toHost>>

Frame == [kind : {"cmd", "header", "data", "eot", "fin"},
          name : Names, blk : Nat]

\* The characters of the protocol; console text is noise of which only the
\* letter 'C' can be mistaken for one of them.
Char == {"C", "ACK", "NAK", "CA"}

LineTypeOK == /\ toDev \in Seq(Frame)
              /\ toHost \in Seq(Char)

-----------------------------------------------------------------------------
Pad == <<"pad", 0>>            \* the 0x1A filler of a short last packet

Byte(n, j) == IF j <= Size[n] THEN <<n, j>> ELSE Pad

\* The first k bytes of file n, and the whole of it.
Prefix(n, k) == [j \in 1..k |-> <<n, j>>]
Source(n)    == Prefix(n, Size[n])

\* Where packet b starts in its file.
Offset(b) == (b - 1) * PacketSize

\* The first len bytes of the payload of packet b of file n.
Chunk(n, b, len) == [j \in 1..len |-> Byte(n, Offset(b) + j)]

\* split_file_to_packets pads the last chunk: packet b is the last one when
\* it reaches the end of the buffer.
HasBlock(n, b) == Offset(b) < Size[n]
-----------------------------------------------------------------------------
\* The watch reads a frame, the tool a character; either one writes.
ReadFrame == toDev' = Tail(toDev)
Consume   == toHost' = Tail(toHost)
Send(f)   == toDev' = Append(toDev, f)
Put(cs)   == toHost' = IF Len(toHost) < MaxQueue THEN toHost \o cs ELSE toHost
=============================================================================

----------------------------- MODULE YmodemHost -----------------------------
(***************************************************************************)
(* The sender: ymodem_send of tools/ymodem_send.py.  pc names the wait_char*)
(* call the script is blocked in; what it writes before blocking again is  *)
(* part of the action that consumes the awaited character.                 *)
(***************************************************************************)
EXTENDS SerialLine

CONSTANT Retries      \* transmissions of one packet before giving up (3)
ASSUME RetriesAssumption == Retries \in Nat \ {0}

VARIABLES
    pc,               \* the wait_char call the script is in, or how it ended
    job,              \* the file this invocation sends
    blk,              \* number of the packet being sent
    retries           \* transmissions left for it

hostVars == <<pc, job, blk, retries>>

Waits == {"waitC", "waitHdrAck", "waitHdrC", "waitData", "waitEot1",
          "waitEot2", "waitFinC", "waitFinAck"}
Ended == {"idle", "complete", "failed"}

HostTypeOK == /\ pc \in Waits \cup Ended
              /\ job \in Names
              /\ blk \in Nat
              /\ retries \in 0..Retries

\* The characters the wait_char call at each pc accepts.
Valid == [w \in Waits |->
            CASE w \in {"waitC", "waitHdrC", "waitFinC"}        -> {"C"}
              [] w \in {"waitHdrAck", "waitEot2", "waitFinAck"} -> {"ACK"}
              [] w = "waitData" -> {"ACK", "NAK", "CA"}
              [] w = "waitEot1" -> {"NAK", "ACK"}]

HostInit == /\ pc = "idle"
            /\ job \in Names
            /\ blk = 0
            /\ retries = 0

-----------------------------------------------------------------------------
Packet(kind, b) == [kind |-> kind, name |-> job, blk |-> b]

Received(c) == toHost # <<>> /\ Head(toHost) = c

\* _receive_buf.clear() drops, with the consumed character, whatever the
\* read that brought it had brought behind it.
ConsumeAndClear == \E k \in 1..Len(toHost) :
                      toHost' = SubSeq(toHost, k + 1, Len(toHost))

\* ymodem_send returns or raises: its locals are gone.
End(outcome) == pc' = outcome /\ blk' = 0 /\ retries' = 0 /\ UNCHANGED job

\* What follows the acknowledgement of packet b - 1: packet b if the file has
\* one, the end of transmission otherwise.
SendNext(b) == IF HasBlock(job, b)
               THEN /\ Send(Packet("data", b))
                    /\ pc' = "waitData"
               ELSE /\ Send(Packet("eot", 0))
                    /\ pc' = "waitEot1"

\* A new invocation.  main() first probes the shell with "sysinfo" and reads
\* for three seconds: by then what an earlier invocation left on the line is
\* gone, and a receiver that was inside a transfer has timed out.  With
\* --no-cmd there is neither a probe nor a command: the operator has typed
\* yrcv at the prompt himself, or is about to.
HostStart(n, pre_cmd) ==
    /\ pc \in Ended
    /\ toDev = <<>>
    /\ pc' = "waitC"
    /\ job' = n
    /\ blk' = 0
    /\ retries' = 0
    /\ toHost' = <<>>
    /\ toDev' = IF pre_cmd
                THEN <<[kind |-> "cmd", name |-> n, blk |-> 0]>>
                ELSE <<>>

HostSendHeader ==
    /\ pc = "waitC" /\ Received("C") /\ Consume
    /\ Send(Packet("header", 0))
    /\ pc' = "waitHdrAck"
    /\ UNCHANGED <<job, blk, retries>>

HostHeaderAcked ==
    /\ pc = "waitHdrAck" /\ Received("ACK") /\ Consume
    /\ pc' = "waitHdrC"
    /\ UNCHANGED <<toDev, job, blk, retries>>

HostFirstPacket ==
    /\ pc = "waitHdrC" /\ Received("C") /\ Consume
    /\ SendNext(1)
    /\ blk' = 1
    /\ retries' = Retries
    /\ UNCHANGED job

HostPacketAcked ==
    /\ pc = "waitData" /\ Received("ACK") /\ ConsumeAndClear
    /\ SendNext(blk + 1)
    /\ blk' = blk + 1
    /\ retries' = Retries
    /\ UNCHANGED job

\* Slips of the action below, for the sensitivity runs: the countdown has no
\* end; it is forgotten; a refused packet is taken for an accepted one.
RefusedUnbounded ==
    /\ pc = "waitData" /\ Received("NAK") /\ ConsumeAndClear
    /\ Send(Packet("data", blk))
    /\ retries' = retries - 1
    /\ UNCHANGED <<pc, job, blk>>

RefusedUncounted ==
    /\ pc = "waitData" /\ Received("NAK") /\ ConsumeAndClear
    /\ Send(Packet("data", blk))
    /\ UNCHANGED hostVars

RefusedSkipped ==
    /\ pc = "waitData" /\ Received("NAK") /\ ConsumeAndClear
    /\ SendNext(blk + 1)
    /\ blk' = blk + 1
    /\ UNCHANGED <<job, retries>>

\* retries counts down on every NAK; the packet is sent again while it is
\* positive.
HostPacketRefused ==
    /\ pc = "waitData" /\ Received("NAK") /\ ConsumeAndClear
    /\ \/ /\ retries > 1
          /\ Send(Packet("data", blk))
          /\ retries' = retries - 1
          /\ UNCHANGED <<pc, job, blk>>
       \/ /\ retries <= 1
          /\ End("failed")
          /\ UNCHANGED toDev

HostCancelled ==
    /\ pc = "waitData" /\ Received("CA") /\ ConsumeAndClear
    /\ End("failed")
    /\ UNCHANGED toDev

\* The first EOT is answered by NAK, by ACK, or not within ten seconds: in
\* every case the buffer is cleared and a second EOT follows.
HostSecondEot ==
    /\ pc = "waitEot1"
    /\ \E k \in 0..Len(toHost) : toHost' = SubSeq(toHost, k + 1, Len(toHost))
    /\ Send(Packet("eot", 0))
    /\ pc' = "waitEot2"
    /\ UNCHANGED <<job, blk, retries>>

\* Slip: the buffer is cleared here too, with the 'C' behind the ACK.
EotAckedCleared ==
    /\ pc = "waitEot2" /\ Received("ACK") /\ ConsumeAndClear
    /\ pc' = "waitFinC"
    /\ UNCHANGED <<toDev, job, blk, retries>>

HostEotAcked ==
    /\ pc = "waitEot2" /\ Received("ACK") /\ Consume
    /\ pc' = "waitFinC"
    /\ UNCHANGED <<toDev, job, blk, retries>>

HostSendFinal ==
    /\ pc = "waitFinC" /\ Received("C") /\ ConsumeAndClear
    /\ Send(Packet("fin", 0))
    /\ pc' = "waitFinAck"
    /\ UNCHANGED <<job, blk, retries>>

\* "Transfer complete!"
HostComplete ==
    /\ pc = "waitFinAck" /\ Received("ACK") /\ Consume
    /\ End("complete")
    /\ UNCHANGED toDev

\* _extract_from_buffer deletes what precedes the first accepted character.
HostSkip ==
    /\ pc \in Waits /\ toHost # <<>>
    /\ Head(toHost) \notin Valid[pc]
    /\ Consume
    /\ UNCHANGED <<toDev, hostVars>>

\* wait_char raises TimeoutError at its deadline, whatever has arrived since
\* it last looked; only the wait after the first EOT catches it.
HostTimeout ==
    /\ pc \in Waits \ {"waitEot1"}
    /\ End("failed")
    /\ UNCHANGED lineVars

\* The operator interrupts the tool (KeyboardInterrupt), or the port is lost.
HostInterrupt ==
    /\ pc \in Waits
    /\ End("failed")
    /\ UNCHANGED lineVars

HostStep == \/ HostSendHeader \/ HostHeaderAcked \/ HostFirstPacket
            \/ HostPacketAcked \/ HostPacketRefused \/ HostCancelled
            \/ HostSecondEot \/ HostEotAcked \/ HostSendFinal \/ HostComplete
            \/ HostSkip
=============================================================================

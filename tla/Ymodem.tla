------------------------------- MODULE Ymodem -------------------------------
(***************************************************************************)
(* A file transfer end to end: the upload tool and the watch, composed     *)
(* over a serial line that loses and damages what it carries, and that the *)
(* console shares for its text.                                            *)
(***************************************************************************)
EXTENDS YmodemHost, YmodemDevice

vars == <<lineVars, hostVars, deviceVars>>

Init == /\ toDev = <<>> /\ toHost = <<>>
        /\ HostInit
        /\ DeviceInit

-----------------------------------------------------------------------------
\* An invocation of the tool finds the watch at the shell or in a handshake:
\* three seconds of probing outlast the waits of a transfer (HostStart).
StartTransfer(n, pre_cmd) ==
    /\ stage \in {"shell", "establishing"}
    /\ HostStart(n, pre_cmd)
    /\ UNCHANGED deviceVars

LoseFrame == /\ toDev # <<>> /\ ReadFrame
             /\ UNCHANGED <<toHost, hostVars, deviceVars>>

LoseChar == /\ toHost # <<>> /\ Consume
            /\ UNCHANGED <<toDev, hostVars, deviceVars>>

\* Console text that contains a 'C' reaches the tool between two characters
\* of the protocol ("Cant find device: ...", a file name, a log line).
LineNoise == /\ pc \in Waits
             /\ Put(<<"C">>)
             /\ UNCHANGED <<toDev, hostVars, deviceVars>>

HostAlone == /\ HostStep \/ HostTimeout \/ HostInterrupt
             /\ UNCHANGED deviceVars

DeviceAlone == /\ \/ DeviceStep \/ OperatorTypesYrcv
                  \/ ReceiveDamaged \/ SessionTimeout \/ DeviceRestart
               /\ UNCHANGED hostVars

Next == \/ \E n \in Names, pre_cmd \in BOOLEAN : StartTransfer(n, pre_cmd)
        \/ HostAlone
        \/ DeviceAlone
        \/ LoseFrame \/ LoseChar \/ LineNoise

Spec == Init /\ [][Next]_vars

\* Both programs keep running.  The tool gives a wait up when nothing is left
\* to read, never merely because time passes; the watch sends a 'C' every
\* second of the handshake and gives a silent session up.
Fairness ==
    /\ WF_vars(HostStep /\ UNCHANGED deviceVars)
    /\ WF_vars(toHost = <<>> /\ HostTimeout /\ UNCHANGED deviceVars)
    /\ WF_vars(HandshakeSendC /\ UNCHANGED hostVars)
    /\ WF_vars((DeviceStep \/ ReceiveDamaged \/ SessionTimeout)
               /\ UNCHANGED hostVars)

FairSpec == Spec /\ Fairness

TypeOK == LineTypeOK /\ HostTypeOK /\ DeviceTypeOK

-----------------------------------------------------------------------------
(***************************************************************************)
(* Safety.                                                                 *)
(***************************************************************************)

\* When the tool prints "Transfer complete!", the watch holds exactly the
\* bytes of the file under its name, whatever the line lost or damaged, even
\* after a restart of the watch: the acknowledgements of ymodem_send and the
\* write of on_data cannot come apart.
DeliveredOnSuccess ==
    pc = "complete" => files[DevPath[job]] = Source(job)

\* A file that is being received is at every moment the first received_size
\* bytes of the file sent: on_data skips, repeats or pads nothing.
PrefixWhileReceiving ==
    stage = "transmitting" =>
        /\ file_size = Size[job]
        /\ file_path = DevPath[job]
        /\ received_size <= file_size
        /\ files[file_path] = Prefix(job, received_size)

\* The static file_fd, which outlives broken sessions and refused headers,
\* never names a descriptor the file system has taken back (and could have
\* given to somebody else): what on_data writes and on_end closes is theirs.
DescriptorIsOpen == file_fd >= 0 => file_fd \in opened

\* The two programs together do what FileTransfer promises: only the file
\* being sent is written, as a growing prefix, and it is whole and safe from
\* a restart before the tool reports success.
Abs == INSTANCE FileTransfer WITH
          Path      <- DevPath,
          Whole     <- [n \in Names |-> Source(n)],
          file      <- job,
          outcome   <- IF pc \in Waits THEN "sending" ELSE pc,
          store     <- files,
          unsettled <- dirty

ImplementsFileTransfer == Abs!Spec

(***************************************************************************)
(* Liveness.                                                               *)
(***************************************************************************)

\* On a console that does not print for ever, nor starts yrcv again and
\* again, the tool comes to an end: no wait of ymodem_send lasts for ever and
\* no packet is sent again without limit, however often it is asked for.
HostEnds == <>[][~(LineNoise \/ HandshakeSendC)]_vars
                => (pc \in Waits ~> pc \in Ended)

\* yrcv always gives the console back to the shell, whatever a tool that was
\* interrupted, or never started, leaves it waiting for.
ShellReturns == stage # "shell" ~> stage = "shell"

-----------------------------------------------------------------------------
(***************************************************************************)
(* The inductive invariant behind the safety properties: what the line may *)
(* carry at each wait of the tool, and what that says of the watch.        *)
(***************************************************************************)
Reply == {"ACK", "NAK", "CA"}

NoReply(s)  == \A i \in 1..Len(s) : s[i] \notin Reply
OneReply(s) == \A i, j \in 1..Len(s) :
                  s[i] \in Reply /\ s[j] \in Reply => i = j
Holds(s, c) == \E i \in 1..Len(s) : s[i] = c
OnlyKinds(s, K) == \A i \in 1..Len(s) : s[i].kind \in K

Fresh     == stage \in {"shell", "drain", "establishing"}
Receiving == stage = "transmitting"

\* The file is whole and closed.
Stored == /\ files[DevPath[job]] = Source(job)
          /\ DevPath[job] \notin dirty

\* Everything on the line belongs to the job; a data packet travels alone and
\* is the one that continues what has been received.
LineInv ==
    /\ \A i \in 1..Len(toDev) : toDev[i].name = job
    /\ \A i \in 1..Len(toDev) : toDev[i].kind = "data" =>
          /\ Len(toDev) = 1
          /\ toDev[i].blk >= 1
          /\ HasBlock(job, toDev[i].blk)
          /\ Receiving => received_size = Offset(toDev[i].blk)

ReceivingInv ==
    Receiving => /\ file_fd >= 0
                 /\ file_size = Size[job]
                 /\ file_path = DevPath[job]
                 /\ received_size <= file_size
                 /\ files[file_path] = Prefix(job, received_size)

HeaderInv ==
    /\ pc = "idle" => Fresh /\ toDev = <<>>
    /\ pc = "waitC" =>
          /\ Fresh /\ NoReply(toHost)
          /\ Len(toDev) <= 1 /\ OnlyKinds(toDev, {"cmd"})
    /\ pc = "waitHdrAck" =>
          /\ Fresh \/ (Receiving /\ received_size = 0 /\ toDev = <<>>)
          /\ OneReply(toHost)
          /\ toDev # <<>> => NoReply(toHost)
          /\ OnlyKinds(toDev, {"cmd", "header"})
          /\ \A i \in 1..Len(toDev) : toDev[i].kind = "header" => i = Len(toDev)
    /\ pc = "waitHdrC" =>
          /\ Fresh \/ (Receiving /\ received_size = 0)
          /\ toDev = <<>> /\ NoReply(toHost)

DataInv ==
    pc = "waitData" =>
        /\ Fresh \/ Receiving
        /\ blk >= 1 /\ HasBlock(job, blk)
        /\ OnlyKinds(toDev, {"data"})
        /\ \A i \in 1..Len(toDev) : toDev[i].blk = blk
        /\ OneReply(toHost)
        /\ toDev # <<>> => NoReply(toHost)
        /\ Receiving /\ Holds(toHost, "NAK") =>
              received_size = Offset(blk)
        /\ Receiving /\ Holds(toHost, "ACK") =>
              received_size = IF HasBlock(job, blk + 1) THEN Offset(blk + 1)
                                                        ELSE Size[job]

EndInv ==
    /\ pc \in {"waitEot1", "waitEot2"} =>
          /\ OnlyKinds(toDev, {"eot"})
          /\ Receiving => received_size = Size[job]
          /\ stage \in {"finishing", "closing"} => Stored
          /\ Holds(toHost, "ACK") => Stored /\ ~Receiving
    /\ pc \in {"waitFinC", "waitFinAck", "complete"} =>
          /\ Stored /\ ~Receiving
          /\ OnlyKinds(toDev, {"eot", "fin"})

\* No step of the two programs, of the line or of a restart leaves it: the
\* tool and the watch are in lockstep although neither knows the other's state.
TransferInv == LineInv /\ ReceivingInv /\ HeaderInv /\ DataInv /\ EndInv

-----------------------------------------------------------------------------
(***************************************************************************)
(* The good case: nothing is lost and nobody gives up.                     *)
(***************************************************************************)
Acceptable(n) == 0 < Size[n] /\ Size[n] <= MaxFileSize

\* yrcv ends after a transfer, or to refuse a file it cannot accept; the tool
\* then waits in vain.
TimelyDevice ==
    /\ DeviceStep
    /\ stage' = "shell" => stage \in {"shell", "closing"} \/ ~Acceptable(job)
    /\ UNCHANGED hostVars

TimelyHost ==
    /\ \/ HostStep
       \/ ~Acceptable(job) /\ stage = "shell" /\ toDev = <<>> /\ HostTimeout
    /\ UNCHANGED deviceVars

TimelyNext == \/ \E n \in Names : StartTransfer(n, TRUE)
              \/ TimelyHost
              \/ TimelyDevice

TimelySpec == /\ Init /\ [][TimelyNext]_vars
              /\ WF_vars(TimelyHost) /\ WF_vars(TimelyDevice)

\* Every transfer of a file on_begin accepts then succeeds, one after the
\* other and after refused ones, even when the tool does not wait for the
\* answer to its first EOT: no character that ends one wait (the 'C' behind
\* an ACK, the answer to the other EOT) is cleared before the wait it is for.
Delivery == (pc = "waitC" /\ Acceptable(job)) ~> pc = "complete"

-----------------------------------------------------------------------------
(***************************************************************************)
(* A late receiver: it asks again for a packet that is only slow, so that  *)
(* packets arrive twice.  None gets lost in the middle of a file; whatever *)
(* else goes wrong in Spec may still go wrong.                             *)
(***************************************************************************)
LateNak == /\ stage = "transmitting"
           /\ Put(<<"NAK">>)
           /\ UNCHANGED <<toDev, hostVars, deviceVars>>

LateDevice == /\ \/ DeviceStep \/ OperatorTypesYrcv
                 \/ SessionTimeout \/ DeviceRestart
                 \/ ReceiveDamaged /\ stage' = "shell"
              /\ UNCHANGED hostVars

LateNext == \/ \E n \in Names, pre_cmd \in BOOLEAN : StartTransfer(n, pre_cmd)
            \/ HostAlone
            \/ LateDevice
            \/ stage # "transmitting" /\ LoseFrame
            \/ LateNak \/ LoseChar \/ LineNoise

LateSpec == Init /\ [][LateNext]_vars
=============================================================================

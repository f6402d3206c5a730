---------------------------- MODULE YmodemDevice ----------------------------
(***************************************************************************)
(* The receiver: the shell command yrcv of src/reg_commands.c with its     *)
(* callbacks on_begin, on_data and on_end, driven by RT-Thread's           *)
(* rym_recv_on_device.  The latter is not in the repository: the actions   *)
(* that are rym's own follow what yrcv and the sender expect of it.  A     *)
(* packet that fails its checks may be answered by NAK or may abort the    *)
(* session, and block numbers are not compared: releases differ, and the   *)
(* properties must not depend on it.                                       *)
(***************************************************************************)
EXTENDS SerialLine

CONSTANTS
    DevPath,          \* DevPath[n]: on_begin's filename for the sent name n
    MaxFileSize,      \* 16 MiB in on_begin
    FdMax,            \* descriptors the file system layer can hand out
    Handshakes        \* seconds, hence 'C's, of the handshake (20 in yrcv)

ASSUME DeviceAssumption == /\ MaxFileSize \in Nat
                           /\ FdMax \in Nat \ {0}
                           /\ Handshakes \in Nat \ {0}
                           /\ DOMAIN DevPath = Names

Paths == {DevPath[n] : n \in Names}
Fd    == 0..(FdMax - 1)

VARIABLES
    stage,            \* "shell": no yrcv running; else where yrcv and rym are
    tries,            \* 'C's sent in the current handshake
    file_fd, file_size, received_size,    \* the statics of reg_commands.c
    file_path,        \* the path file_fd was opened on
    opened,           \* descriptors the file system considers open
    files,            \* content of every path, <<>> when absent
    dirty             \* paths written since they were last closed

ctxVars == <<file_fd, file_size, received_size, file_path>>
fsVars  == <<opened, files, dirty>>
deviceVars == <<stage, tries, ctxVars, fsVars>>

Sessions == {"drain", "establishing", "transmitting", "finishing", "closing"}

DeviceTypeOK ==
    /\ stage \in Sessions \cup {"shell"}
    /\ tries \in 0..Handshakes
    /\ file_fd \in Fd \cup {-1}
    /\ file_size \in Nat
    /\ received_size \in Nat
    /\ file_path \in Paths
    /\ opened \subseteq Fd
    /\ files \in [Paths -> Seq((Names \cup {"pad"}) \X Int)]
    /\ dirty \subseteq Paths

DeviceInit ==
    /\ stage = "shell"
    /\ tries = 0
    /\ file_fd = -1
    /\ file_size = 0
    /\ received_size = 0
    /\ file_path \in Paths
    /\ opened = {}
    /\ files = [p \in Paths |-> <<>>]
    /\ dirty = {}

-----------------------------------------------------------------------------
Incoming(kind) == toDev # <<>> /\ Head(toDev).kind = kind

\* The shell reads a line: yrcv starts, anything else is no command.
ShellReads ==
    /\ stage = "shell" /\ toDev # <<>>
    /\ ReadFrame
    /\ stage' = IF Head(toDev).kind = "cmd" THEN "drain" ELSE "shell"
    /\ UNCHANGED <<toHost, tries, ctxVars, fsVars>>

\* The operator of a --no-cmd run types yrcv on the console.
OperatorTypesYrcv ==
    /\ stage = "shell" /\ toDev = <<>>
    /\ stage' = "drain"
    /\ UNCHANGED <<lineVars, tries, ctxVars, fsVars>>

\* yrcv discards what the UART has buffered before it hands the line to rym,
\* or gives up because the device cannot be found or opened.
YrcvDrain ==
    /\ stage = "drain"
    /\ \/ toDev' = <<>> /\ tries' = 0 /\ stage' = "establishing"
       \/ stage' = "shell" /\ UNCHANGED <<toDev, tries>>
    /\ UNCHANGED <<toHost, ctxVars, fsVars>>

HandshakeSendC ==
    /\ stage = "establishing" /\ tries < Handshakes
    /\ Put(<<"C">>)
    /\ tries' = tries + 1
    /\ UNCHANGED <<toDev, stage, ctxVars, fsVars>>

\* A frame that is no header is not what the handshake waits for: it costs a
\* try, and the last one ends the handshake.
HandshakeIgnores ==
    /\ stage = "establishing" /\ tries > 0
    /\ toDev # <<>> /\ Head(toDev).kind # "header"
    /\ ReadFrame
    /\ \/ tries < Handshakes /\ UNCHANGED <<stage, tries>>
       \/ tries = Handshakes /\ stage' = "shell" /\ tries' = 0
    /\ UNCHANGED <<toHost, ctxVars, fsVars>>

-----------------------------------------------------------------------------
\* Slip: the file is opened without O_TRUNC.
BeginKeepsContent(n, fd) ==
    /\ 0 < Size[n] /\ Size[n] <= MaxFileSize
    /\ fd \in Fd \ opened
    /\ file_fd' = fd
    /\ file_path' = DevPath[n]
    /\ file_size' = Size[n]
    /\ received_size' = 0
    /\ opened' = opened \cup {fd}
    /\ dirty' = dirty \cup {DevPath[n]}
    /\ UNCHANGED files

\* on_begin, the size of the header accepted and the file opened.
on_begin_ack(n, fd) ==
    /\ 0 < Size[n] /\ Size[n] <= MaxFileSize
    /\ fd \in Fd \ opened
    /\ file_fd' = fd
    /\ file_path' = DevPath[n]
    /\ file_size' = Size[n]
    /\ received_size' = 0
    /\ opened' = opened \cup {fd}
    /\ files' = [files EXCEPT ![DevPath[n]] = <<>>]
    /\ dirty' = dirty \cup {DevPath[n]}

\* on_begin refuses a bad size before it opens anything: file_fd keeps its
\* value.  A failed open leaves -1 in it, whatever it held before.
on_begin_can(n) ==
    /\ file_size' = Size[n]
    /\ received_size' = 0
    /\ file_fd' = IF 0 < Size[n] /\ Size[n] <= MaxFileSize THEN -1 ELSE file_fd
    /\ UNCHANGED <<file_path, fsVars>>

ReceiveHeader ==
    /\ stage = "establishing" /\ tries > 0 /\ Incoming("header")
    /\ ReadFrame
    /\ LET n == Head(toDev).name
       IN \/ /\ \E fd \in Fd : on_begin_ack(n, fd)
             /\ Put(<<"ACK", "C">>)
             /\ stage' = "transmitting"
          \/ /\ on_begin_can(n)
             /\ stage' = "shell"
             /\ UNCHANGED toHost
    /\ tries' = 0

\* Slip: the padding of the last packet is written too.
DataLenUncut == PacketSize

\* The bytes of a packet that belong to the file: the packet that reaches
\* file_size is cut there.
DataLen == IF received_size + PacketSize > file_size
           THEN file_size - received_size
           ELSE PacketSize

\* Slip: on_data without its "Data overflow" check.
DataRefusedUnchecked == file_fd < 0 \/ file_size = 0

\* on_data returns CAN without writing.
DataRefused == file_fd < 0 \/ file_size = 0 \/ DataLen <= 0

WriteChunk(f, len) ==
    /\ files' = [files EXCEPT ![file_path] = @ \o Chunk(f.name, f.blk, len)]
    /\ dirty' = dirty \cup {file_path}

on_data_ack(f) ==
    /\ ~DataRefused
    /\ WriteChunk(f, DataLen)
    /\ received_size' = received_size + DataLen
    /\ UNCHANGED <<opened, file_fd, file_size, file_path>>

\* The file system runs out of space: write stores a part of the packet.
on_data_write_fails(f) ==
    /\ ~DataRefused
    /\ \E len \in 0..(DataLen - 1) : WriteChunk(f, len)
    /\ UNCHANGED <<opened, ctxVars>>

on_data_can(f) == \/ DataRefused /\ UNCHANGED <<ctxVars, fsVars>>
                  \/ on_data_write_fails(f)

ReceiveData ==
    /\ stage = "transmitting" /\ Incoming("data")
    /\ ReadFrame
    /\ LET f == Head(toDev)
       IN \/ on_data_ack(f) /\ Put(<<"ACK">>) /\ stage' = stage
          \/ on_data_can(f) /\ Put(<<"CA">>)  /\ stage' = "shell"
    /\ UNCHANGED tries

-----------------------------------------------------------------------------
\* Slip: on_end closes the file and forgets to clear file_fd.
EndKeepsFd ==
    /\ opened' = opened \ {file_fd}
    /\ dirty' = dirty \ {file_path}
    /\ UNCHANGED <<files, ctxVars>>

\* on_end closes the file.  What it returns on a size mismatch is taken to be
\* ignored by rym, the worse of the two cases for the sender.
on_end ==
    /\ IF file_fd >= 0
       THEN /\ opened' = opened \ {file_fd}
            /\ dirty' = dirty \ {file_path}
            /\ file_fd' = -1
       ELSE UNCHANGED <<opened, dirty, file_fd>>
    /\ UNCHANGED <<files, file_size, received_size, file_path>>

ReceiveEot ==
    /\ stage = "transmitting" /\ Incoming("eot")
    /\ ReadFrame
    /\ on_end
    /\ Put(<<"NAK">>)
    /\ stage' = "finishing"
    /\ UNCHANGED tries

ReceiveSecondEot ==
    /\ stage = "finishing" /\ Incoming("eot")
    /\ ReadFrame
    /\ Put(<<"ACK", "C">>)
    /\ stage' = "closing"
    /\ UNCHANGED <<tries, ctxVars, fsVars>>

ReceiveFinal ==
    /\ stage = "closing" /\ Incoming("fin")
    /\ ReadFrame
    /\ Put(<<"ACK">>)
    /\ stage' = "shell"
    /\ UNCHANGED <<tries, ctxVars, fsVars>>

\* A frame arrives damaged, or is not the one rym waits for: it asks for it
\* again, or gives the session up.  Giving up calls no callback.
ReceiveDamaged ==
    /\ stage \in Sessions \ {"drain"} /\ toDev # <<>>
    /\ ReadFrame
    /\ \/ /\ stage = "transmitting"
          /\ Put(<<"NAK">>)
          /\ UNCHANGED <<stage, tries>>
       \/ /\ stage' = "shell" /\ tries' = 0
          /\ UNCHANGED toHost
    /\ UNCHANGED <<ctxVars, fsVars>>

\* Slip: a handshake without a limit of its own.
TimeoutAfterHandshake ==
    /\ toDev = <<>>
    /\ stage \in {"transmitting", "finishing", "closing"}
    /\ stage' = "shell" /\ tries' = 0
    /\ UNCHANGED <<lineVars, ctxVars, fsVars>>

\* Nothing arrives in time: the handshake after its last 'C', a later wait
\* after a few seconds.
SessionTimeout ==
    /\ toDev = <<>>
    /\ \/ stage = "establishing" /\ tries = Handshakes
       \/ stage \in {"transmitting", "finishing", "closing"}
    /\ stage' = "shell" /\ tries' = 0
    /\ UNCHANGED <<lineVars, ctxVars, fsVars>>

\* A restart of the watch: statics and descriptors are gone, and of a file
\* that was not closed only a part may have reached the medium.
DeviceRestart ==
    /\ stage' = "shell"
    /\ tries' = 0
    /\ file_fd' = -1 /\ file_size' = 0 /\ received_size' = 0
    /\ opened' = {} /\ dirty' = {}
    /\ \E kept \in {k \in [Paths -> 0..MaxFileSize] :
                      \A p \in Paths : k[p] <= Len(files[p])} :
          files' = [p \in Paths |-> IF p \in dirty
                                    THEN SubSeq(files[p], 1, kept[p])
                                    ELSE files[p]]
    /\ toDev' = <<>>
    /\ UNCHANGED <<toHost, file_path>>

DeviceStep == \/ ShellReads \/ YrcvDrain \/ HandshakeSendC \/ HandshakeIgnores
              \/ ReceiveHeader \/ ReceiveData \/ ReceiveEot
              \/ ReceiveSecondEot \/ ReceiveFinal
=============================================================================

# A TLA+ model of ElenixOS-SiFli

ElenixOS-SiFli is the board support package of a smartwatch: a `main()` that
brings up the clock, the buttons, the device manager and ElenixOS; a driver
layer; a set of shell commands on the console UART (`src/reg_commands.c`); and
a Python tool on the desk (`tools/ymodem_send.py`) that uploads files through
the same UART. ElenixOS itself, RT-Thread, LVGL, the file system (DFS with the
FAT driver "elm") and the button library are submodules or part of the SDK and
not in the repository; they are modelled only as far as the code here relies on
them, and marked external in `PROJECT.json`.

## Inventory

| component | state | operations | what is hard | modules |
|---|---|---|---|---|
| YMODEM sender, `ymodem_send.py` 54-229, 455-504 | the `wait_char` it is in, block number, retries, `_receive_buf` | start, header, packets, EOTs, final packet, time-outs | loss, damage, NAKs, console text taken for protocol, time-outs racing late answers | `YmodemHost` |
| YMODEM receiver, `reg_commands.c` 33-35, 80-180 | `file_fd`, `file_size`, `received_size`, the file, open descriptors | `yrcv`, `on_begin`, `on_data`, `on_end` | statics that outlive a session, full file system, restart in the middle | `YmodemDevice` |
| shell jobs, `reg_commands.c` 182-269, 353-502 | the copied argument, the threads, the script engine | `eapki`, `ewpki`, `eapku`, `ewpku`, `js` (with `--atp`), `js --stop` | ownership handed from the shell to a thread, every step may fail, a script above the shell | `ShellJobs` |
| device manager, `sifli_device.c`, `sifli_ble.c` | message queue, `ble_state` | `sifli_device_send`, the manager's thread | several posters, a queue at its limit, posts while it acts | `DeviceManager` |
| storage, `sifli_storage.c`, `reg_commands.c` 589-638 | mounts, flash blocks | `sifli_storage_init`, `nand_erase_fs`, `nand_erase_data` | power failure in every step, blocks that refuse, an unmount that fails, a translation layer between volumes and blocks | `Storage` |
| crown and buttons, `main.c` 25-137 | `encoder_diff` | set-up, `button_event_handler`, `encoder_read` | two threads on an unguarded counter | `CrownInput` |
| send history, `ymodem_send.py` 37-38, 233-255 | the JSON file | `load_history`, `add_to_history`, `save_history` | two invocations, one killed while it writes | `SendHistory` |
| PSRAM heap and file buffers, `sifli_psram.c`, `sifli_port.c` 19-27, `reg_commands.c` 37-77, 182-327 | heap blocks, open descriptors | `mem_mgr_alloc`/`free`/`realloc`/`calloc`, `eos_cache_buf_*`, `read_file_to_buffer`, `hex`, the script thread of `js`, `pma` | an address that is not the one allocated, four ways to fail, other users of the heap, files that change | `Files`, `FileBuffers`, `FileCommands` |
| flash diagnostics, `diag` 647-703, 971-1023; `eos_nand_speed_test.c` | the file found, open descriptors | search of a test file, measurements | a volume that changes between two calls, descriptors that run out | `Diag`, `FileCommands` |
| real-time clock, `sifli_rtc.c` | clock registers | `sifli_rtc_init`, `sifli_rtc_get`, `sifli_rtc_set` | midnight between two reads or two writes, a write that fails | `Rtc` |
| the rest: device stubs, port layer, JerryScript port, other commands, demo, build | none worth a state | | | not modelled |

How they interact. The tool and `yrcv` talk over the UART, which is also the
shell's console: the tool starts `yrcv` by typing a command. The shell thread
runs a command to its end before it reads the next line, so `yrcv` blocks it,
while the package commands and `js` hand their work to threads. `main()` starts
the device manager, whose thread is the only one to change `ble_state`.
Storage is mounted by the initialisation (`INIT_ENV_EXPORT`) before `main()`
and wiped by shell commands while the watch runs. Button handlers share
`encoder_diff` with LVGL, which runs in the main thread. `hex`, `diag` and the
threads of `js` read files of a volume that installs, uninstalls and scripts
write meanwhile, into a heap that ElenixOS uses for its caches.

What makes each correct, in a sentence: a reported upload is a delivered one and
a broken one ends; a job acts on what was typed and gives its memory back; the
last accepted Bluetooth switch wins; a boot comes up on whatever flash it finds
and costs no files it need not; a turn of the crown is counted once; the
history is the list of what was sent; a file lies in the buffer it was read into,
and neither buffer nor descriptor is lost on a way the code does not mean; the
clock is read and set as one moment.

## The modules

### Upload: `SerialLine`, `YmodemHost`, `YmodemDevice`, `Ymodem`

`SerialLine` is the wire: a queue of frames towards the watch, a queue of
control characters towards the tool. A file is its size; byte *j* of file *n*
is the pair `<<n, j>>`, so a content shows where each of its bytes came from.

`YmodemHost` is the script. `pc` names the `wait_char` call it is blocked in.
An action consumes the character awaited and does everything up to the next
wait: `HostPacketAcked` is the passage from line 182 through the loop head to
the next `ser.write`. `_receive_buf.clear()` drops what the last read happened
to bring along, hence any number of characters (`ConsumeAndClear`); where the
code does not clear (line 214 and its comment), neither does the model.
`HostTimeout` may happen at any moment of a wait, since `wait_char` looks at
its deadline before it looks at the buffer again.

`YmodemDevice` is the command with its callbacks, which keep their names:
`on_begin_ack`/`on_begin_can`, `on_data_ack`/`on_data_can`, `on_end`. The
driver of the callbacks, RT-Thread's `rym_recv_on_device`, is external: its
actions (handshake of 20 `C`s, NAK or abort on a damaged packet, time-outs) are
what `yrcv` and the sender rely on. Where releases may differ the model leaves
the choice open: a damaged packet may be answered or end the session, the
result of `on_end` is ignored, and block numbers are not compared, so that no
property depends on the receiver noticing a repeated packet.

`Ymodem` composes them and adds the line's failures (`LoseFrame`, `LoseChar`,
`ReceiveDamaged`), console text that contains a `C` (`LineNoise`), a restart of
the watch in any state (files that were not closed keep a prefix), and an
operator who interrupts the tool, starts it with or without a pre-command, or
types `yrcv` himself. Three specifications share the actions: `Spec`, and
`FairSpec` with its fairness; `TimelySpec`, where nothing is lost and nobody
gives up; and `LateSpec`, where the receiver asks again for packets that are
merely slow, so that they arrive twice. No packet is lost in the middle of a file
there, and a damaged one ends the session; everything else that may go wrong in
`Spec` may go wrong in `LateSpec` too.

An assumption: an invocation finds the watch at the shell or in a handshake
(`StartTransfer`). Without `--no-cmd` the tool probes the shell for three
seconds first (`main` 457-470), which outlasts the packet time-outs of a
session left behind; with it the operator has to have `yrcv` running, as the
option's help says.

`FileTransfer` is the abstract promise: one file at a time, only its path is
written, as a growing prefix; what is not settled may be cut by a restart;
success only for a file that is whole and settled. `Ymodem` implements it under
the mapping `Abs` (the dirty paths are the unsettled ones, the waits are
"sending").

### Jobs: `ShellJobs`

`argv` points into the shell's line buffer, which is one address of `mem`; the
heap's blocks are the others. A command is four points (`called`, `copied`,
`created`, `prompt`), a thread is `created`, `ready`, `working`, and between any
two points anything else may run, as threads may block inside the calls they
make, so every interleaving the scheduler could produce is covered. Priorities
decide who may be kept from running: shell and installs have 20, and `js --atp`
gives a script any other (`Priorities` has one on each side). `Preempted` says
that a thread of a higher priority may have the processor, and fairness holds
only while none does. `thread[t].param` is the pointer
handed to `rt_thread_create`. The five commands differ in their entry functions
only and share the actions; `js` also passes through the script engine, which
runs one script at a time. `typed[t]` records what the operator gave for the
thread. What the thread does with the script's buffer is in `FileBuffers`; the
value of `--stack` is handed on and left out.

### Device manager: `DeviceManager`

`Capacity` is what `rt_mq_init` makes of a pool of `PoolBytes`. `Send` is
`sifli_device_send`, whose refusal nobody sees; a post before `rt_mq_init`, or
after it has failed, finds an object that is all zero (`PostNowhere`), and is
refused or stops the watch at an assertion. `Take` and `Act` are the two
halves of the thread's loop, with other threads in between. `wanted` and
`refusedAt` are history variables. Nothing in the repository posts yet
(`eos_bluetooth_enable` in `sifli_port.c` calls `sifli_ble_send`, which only
logs), so posts come from any thread at any time.

### Storage: `Storage`

Volumes lie on Dhara, a translation layer (`proj.conf` line 10) that keeps any
page of a volume in any erase block of its region, while the erase commands work
on the blocks beneath it. So the model does not say where a file system keeps
what: `used` are the blocks that are not blank, `whole` the volumes that hold
a file system just as it was written, `files` those with files of the user.
Erasing a block may or may not spoil the volume it belongs to, what is left may
or may not mount (`MountOk`), and only a region that is blank throughout mounts
for certain not.

`FindDevice`, `Mount`, `Format`, `Remount`, `Proceed` are `_mount_fs` and
`sifli_storage_init` with every failure; `Unmount` .. `EraseFormat` are
`_nand_erase_and_format` with its four arguments, which the two commands supply
(`nand_erase_fs`, `nand_erase_data`). The name "filesyst" is that of a registered
device only where the kernel cuts names to eight characters, so its format may
fail for that alone. `Restart` is a power failure anywhere; a format under way
leaves anything. Writing a file is one step: what a power failure does in the
middle of it is the matter of FAT and Dhara. Two history variables qualify the
properties: `faults`, the volumes for which a call has failed since power-up
without need, and `remains`, the volumes that an erase or a format has left half
done or that could not be unmounted (the code does not look at the result).
Remains may mount and be broken; nothing better can be said of this code.

### Crown: `CrownInput`

`encoder_diff += 1` and `data->enc_diff = encoder_diff; encoder_diff = 0` are a
load and a store each, and neither side takes a lock. `preempts` is fixed at the
start: with `FALSE` the two may interleave in any way; with `TRUE` the handler is
not interrupted by the main thread, whose priority is 21 (`proj.conf`), as it
would be in a timer thread or an interrupt of the button library. The set-up
does not look at the result of `button_enable`, so each button may be
registered and stay dead, the upward one without the downward one too.

### History: `SendHistory`

Any number of invocations load the list, compute the new one, truncate the file
and write it; each may be killed in between. A truncated file (`Torn`) loads as
empty, and so does one that holds a part of a text or, after two writers, the
end of a longer text behind a shorter one (`Garbled`).
`WithLatest` is the list of lines 250-254: remove the file, insert it in front,
cut. `uses`, a history variable, has every file ever chosen, latest first, and
`LatestOf` compares a list with it.

### File commands: `Files`, `FileBuffers`, `Diag`, `FileCommands`

`Files` is the volume as these commands find it: an entry is a file of some
size, a directory, or nothing, and another thread may change it between any two
calls (`Change`). `touched` says that it did since the command was typed; the
properties that cannot hold then are conditional on it. `fds` counts
descriptors of files and directories, up to `FdMax`.

`FileBuffers` is the heap and those who read whole files into it. The heap is a
set of blocks; `rt_memheap` is external and may place a block wherever there is
room (`Places`), so every alignment an address can have is met. `at[r]` is where
reader `r` - the shell in `hex`, or a thread of `js` - is in
`read_file_to_buffer`: `OpenRead`, `ReadSize`, `AllocBuffer`, `ReadContent`, one
step per call that another thread could notice. `Data(r)` is the address the
function returns, the first multiple of `Alignment` in the block, which is also
what `hex` frees (line 325). When no block begins there, RT-Thread either stops
at its assertion (`halted`) or returns; the model takes both. Then, and after
every script, the block stays allocated with nobody knowing its address: `lost`.
`hex` then opens the file once more, reads its size and closes it (lines 312-315:
`HexOpenAgain`, `HexSizeAgain`, `HexCloseAgain`) without looking at a result; when
the open has failed, the size stays 0 and the close is refused. It prints that
many bytes. ElenixOS allocates, resizes and frees through the same heap
(`sys`), among others with `mem_mgr_calloc`, whose product wraps around at
`Word`: its caller then writes beyond the block, after which the watch may stop
(`halted`); damage done to other blocks is not followed.

`Diag` is `_find_test_file` and the measurements of section 4, where the file
is opened again by its name. Names that begin with a dot are not in `ImgDir` and
`SysDir`. The raw flash measurements before it are left out.

`FileCommands` composes them: the shell runs `hex` or `diag`, scripts and
ElenixOS go on meanwhile, the volume changes, the watch restarts.

### Real-time clock: `Rtc`

Time and date are two registers of a clock that ticks between any two calls.
`HAL_RTC_GetDate` is external; that it reports an error when the date has moved
on since the time was read is what the loop of `sifli_rtc_get` is written for
(`moved`). A date is the number of its day and its day of the week, which
`sifli_rtc_set` translates (`WeekDay`). Either write may fail. `shown` and `due`
are history variables: what the clock has shown since the read began, and what
it has to show after a set. Nothing in the repository calls `sifli_rtc_set` or
keeps two threads from it, so it may run while a read does; the properties
leave such a read out (`mixed`).

## The runs

| run | module / cfg | bounds | shows |
|---|---|---|---|
| `transfer` | `MCYmodem` / `MCYmodem.cfg` | 3 files of 4, 3 and 3 bytes, two of them with the same path; 2-byte packets; 2 transmissions; 2 descriptors; 1 `C` per handshake; queue 2 | type, `DeliveredOnSuccess`, `PrefixWhileReceiving`, `DescriptorIsOpen`, the inductive invariant, `ImplementsFileTransfer` (502,152 states) |
| `transfer_live` | `MCYmodemLive.cfg` | one file of two packets, queue 1 | `HostEnds`, `ShellReturns` |
| `transfer_timely` | `MCYmodemTimely.cfg` | four files, one empty, one too large | `Delivery` |
| `transfer_late` | `MCYmodemLate.cfg` | two files, queue 3 | `DeliveredOnSuccess` with packets that arrive twice, besides lost answers, noise, time-outs and restarts (1,080,292 states) |
| `jobs` | `ShellJobs` | 2 blocks, 2 threads, 2 arguments, priorities 19 to 21 | `OneOwner`, `ActsOnTyped`, `PromptReturns`, `JobsEnd` (84,444 states) |
| `devmgr`, `devmgr_refused` | `DeviceManager` | the sizes of the code: 32, 4, 4 bytes | `LastSwitchWins`, `Settles`; the finding below |
| `storage` | `MCStorage` | regions of 3 and of 2 blocks | `MountedIsCoherent`, `BootMounts`, `FilesSurvive` (212,670 states) |
| `crown` | `CrownInput` | 4 clicks | `EachClickOnce`; `NothingInvented`, `RestIsHandedOver` |
| `history` | `SendHistory` | 3 files, 2 invocations, limit 2, 4 uses | no duplicates, the limit, `ListsLatest` (150,465 states) |
| `files` | `MCFileCommands` | 2 paths, files of 1 and 5 bytes, heap of 12 bytes, alignment 4, grain 2, 2 descriptors, 1 script thread, 1 block of others (`MaxOthers`) of 4 bytes or of 4 x 4 modulo 16, one round of measurements | `BufferInside`, `HeapAccounted`, `FdsBalanced`, `SearchIsComplete` (1,267,570 states) |
| `rtc` | `Rtc` / `MCRtc.cfg` | days of 2 seconds, 2 days, weeks of 3 days, 2 moments during one read | `ReadIsAMoment`, `SetTakes` |

Why the bounds are enough. A file has a first, a full last and a short last
packet at two packets; a third would repeat the second's transitions. Two
transmissions distinguish "again" from "give up". Two descriptors let one leak
and the next transfer succeed or fail; two files with one path let one overwrite
the other. The queue bound lets characters pile up and be lost when it is full. Two
threads and blocks let one job run while the other starts, and leave nothing for
a third command; the limits of RT-Thread's heap are those bounds. Of priorities,
only the order matters, and shell and installs have the same. Three erase blocks
give a first, a middle and a last one, and two regions side by side show what is
done to the wrong one. Three files with a limit of two make the list overflow.
The heap holds the larger file in an aligned block or in one that is not, beside
one other block or not at all; a grain of half the alignment gives both kinds of
address, and 4 x 4 wraps around to 0. With two paths each of the places `diag`
looks at can be a file, a directory or missing, and two descriptors let a
directory, a measurement and a script compete for them. Two seconds and two days
put midnight before, in and after a read, and any number of them in a set; a
longer read is the theorem's. With a week of three days, which is not a multiple
of the two, day and weekday run apart.
The theorems below remove these bounds for the safety properties.

Deadlock is not checked in the `DeviceManager` runs: when the queue or the
thread cannot be created, `sifli_device_init` returns and the manager really
stops.

Each property of a passing run has a mutant in `PROJECT.json`: a variant of one
action, defined beside it and marked "Slip", under which the run must fail.

### Fairness

`FairSpec` of `Ymodem`: the tool and the watch are running programs, so their
steps are weakly fair; the tool gives a wait up only when nothing is left to
read (weaker than its deadlines), and the watch sends its `C`s and gives a
silent session up, as the timeout of `rym_recv_on_device` does. Nothing is
assumed of the line, of restarts or of the operator. `HostEnds` is conditional
on the console not producing `C`s for ever, each of which `_extract_from_buffer`
has to skip. `ShellJobs`: RT-Thread schedules by strict priority, so a thread
is fair only while no thread above it may be running; the calls into ElenixOS
return, and a script ends only if it has been asked to. `PromptReturns` and
`JobsEnd` name what a script above the shell, or above a job, may prevent.
`DeviceManager`: the manager's thread is scheduled; its priority 25 is below that of
the main thread (21), the shell and the scripts (20), and that these leave it time is
an assumption, not something the code ensures. `CrownInput`: the main loop and a called handler
go on. Storage has no liveness: what it promises of a boot is the state it ends
in. Nor have the file commands and the clock: whether `sifli_rtc_get` leaves its
loop is up to the HAL, and the commands have no loop that waits for anybody.

### Finding

`devmgr_refused`: `DEVICE_MGR_MSG_MQ_MAX_MSG` is 32 (`sifli_device.c` line 10)
but is the size of the pool in bytes (line 13); with a four byte message and
the kernel's header the queue holds 4 messages. The fifth post is refused
without anybody noticing.

Things the runs show that are no violations, worth knowing:

* The comment of line 684 of `reg_commands.c` announces a recursive search of
  `/.sys/**`; the loop looks at the entries of `/.sys` itself only, and that is
  what `SearchIsComplete` says is complete.
* A session that `rym` gives up calls no `on_end`: its descriptor stays open
  until the next restart, and after `FdMax` of them every header is refused.
* A line that loses packets in the middle of a file *and* a receiver that
  repeats late NAKs is more than the sender can stand: a doubled packet and a
  lost one cancel out in the count of bytes (packets 1, 1, 3), for the modelled
  receiver compares no block numbers. `Spec` and `LateSpec` each have one of the
  two; `SuccessIsDelivery` and `LateSuccessIsDelivery` prove each harmless alone.
* A mount that fails once on a healthy volume formats it (`sifli_storage.c` 37).
* An erase that is cut short, or of which a block refused, may leave a volume that
  mounts at the next boot and is broken; so does an erase of a volume that was in
  use. After an erase that ran to its end `MountedIsCoherent` excludes it.
* A script started with an `--atp` below 20 that does not block takes the console
  with it, and with the console the `js --stop` that would end it.
* `js --stop` between the start of the thread and that of the engine is lost.
* Every script takes its buffer from the heap for good (`app_run_thread_entry`
  frees `filepath` only), and so does a `hex` whose block did not begin at a
  multiple of 64; the latter may also stop the watch at an assertion of
  `rt_memheap_free`. `HeapAccounted` says that these and `pma` are the only ways.
* A file that grows between the two sizes of `hex` is printed beyond its block;
  `SearchIsComplete` holds only for a volume at rest.

## The proofs

Every theorem is checked by TLAPS for all values of the constants, under the
named assumptions of the modules (sizes are natural numbers, packets are not
empty, there is at least one descriptor, block and so on).

`YmodemProofs`. `TypeCorrect` first: contents, queues and counters stay in their
types. Then `Lockstep`, the inductive invariant `TransferInv`. None of the
safety properties is inductive: that the file is whole at "complete" depends on
what the line could carry at every wait before. `TransferInv` therefore says,
for each wait of the tool, which frames and replies may be on the line, and what
a reply in flight says of the watch: a data packet travels alone, at most one
reply is under way, a NAK on the line means nothing of the packet was written,
an ACK that all of it was, and from the end of transmission on the file is
`Stored` unless the session is gone. One lemma per action shows that it is kept;
steps that only take things off the line, or stop the watch from receiving,
share the lemma `Calm`. `PrefixGrows` is the arithmetic of packets: what `on_data`
appends continues the prefix and is cut at its end. `SuccessIsDelivery`,
`ReceivedIsPrefix` and `DescriptorsMatch` follow.

`Implementation` is the refinement, step by step: `NextImplements` gives each
action of `Ymodem` its action of `FileTransfer`, or a stutter. The wait to which
an action leads says which (`HostImplements` and its siblings); success is
settled because `TransferInv` has the file `Stored` by then. A restart cuts
only what the abstract file transfer regards as unsettled, which takes one more
invariant, `OpenIsDirty`: a file that is being received is dirty. `PrefixCut`
says that a cut prefix is a prefix.

`LateSuccessIsDelivery` has an invariant of its own, `LateInv`, since more than
one packet and more than one reply may be under way. It counts: at the wait for
an answer to packet `blk` the watch has acknowledged some number *a* of packets,
the tool has read at least `blk` - 1 of these acknowledgements and the others
are on the line or lost (`Accounted`), and `received_size` is what *a* packets
make, whichever they were. When no packet was sent twice, those on the line
continue the file (`InOrder`). If one was, then at the end of the file the
watch either has what was sent or still has a packet before it that `on_data`
refuses because `file_size` is used up (`Overtaken`), and the transfer fails.
Number and order of the acknowledgements come from four lemmas on sequences
(`AcksType`, `DropAcks`, `ReadAcks`, `PutAcks`). Once a packet may be lost in
the middle of a file the invariant is not kept, as the packets 1, 1, 3 show.

`ShellJobsProofs`. The type invariant and `JobsInv` are inductive together: that
the copy is a live block where it is used needs `OneOwner`, and that needs the
types. `Ownership` and `ArgumentIsTyped` are its parts.

`DeviceManagerProofs`. `LastSwitchWins` is inductive with the type invariant; the
proof is about the last switch of a queue that grows at one end and shrinks at the
other.

`StorageProofs`. The inductive invariant is `StorageInv`: away from `remains` a
volume is blank, whole or being erased; what is mounted is one of these that is
whole; the loop has left blank what it has passed; a boot that formats a volume
without a fault had none that was whole. No assumption says which block a mount
depends on. `MountedCoherent` is part of it; `BootReaches` and `FilesAreKept` are
properties of steps, proved from it action by action.

`CrownInputProofs`. `HeldInv` says what a thread has loaded and not yet stored;
`Counted` and `NoPhantomTurn` are consequences.

`FileCommandsProofs`. The invariant has four parts that need each other: types,
`BuffersInv`, `FdsBalanced` and `SearchInv`. That a reader's text lies in its
block is arithmetic of the alignment (`RoundUpBounds`, `DataInside`) once the
block is its own (`Owned`); that it stays its own needs that the blocks do not
overlap (`Apart`), for then an address within a block that is freed in vain, as
by `hex`, cannot be another block's (`FreesOwn`). Three lemmas say what it means
for the heap that nobody, or one reader, takes or returns a block (`Keeping`,
`Releasing`, `Acquiring`), and every action is one of them. `FdsStep` counts
the readers that have a file open, besides the second descriptor of `hex`. `SearchStep` says what the search knows of the
volume at each of its points. All of it holds for any alignment, grain, heap,
number of threads, directories and candidates.

`RtcProofs`. `RtcInv` adds what is known in the middle of a read: while the HAL has
seen no midnight, the time read and today's date were shown together.

`SendHistoryProofs`. What `remove` does to a list without duplicates is
`RemoveFirstProperties`; from it, that `WithLatest` lists each file once
(`TypeCorrect`) and that it turns the latest of `uses` into the latest of
`<<f>> \o uses`. `ListsLatest` is not inductive: the lists of invocations about
to write must be right too, and that needs that only one is at it. `Alone` says
both as long as `upset` does not hold, and that an invocation about to write
finds the file as it has truncated it. The assumptions are that MAX_HISTORY is
positive and that "torn" and "garbled" are nobody's paths.

`StorageProofs` covers both builds, with and without `/data`; the run has both
regions.

Only model-checked: the liveness properties `HostEnds`, `ShellReturns`,
`Delivery`, `PromptReturns`, `JobsEnd`, `Settles` and `RestIsHandedOver`, since
the prover has neither fairness nor ENABLED. Every invariant and every action
property of the passing runs is a theorem.

## What is not modelled, and why

Console wording, logging and the CRC (a frame arrives intact, damaged or not at
all). RT-Thread, DFS, FAT, LVGL and ElenixOS beyond what the code expects.

The device stubs, the port layer but for the heap's functions, and the demo hold
no state and make one call each. `img`, `upk`, `rm_r`, `ttf`, `font_reload`,
`app_move` and `nand_scan` are single calls into ElenixOS, LVGL or the flash
driver. `eos_nand_speed_test` and the raw measurements of `diag` time calls and
print; their only conditions are about a missing device.

The option loop of `js` (217-242) beyond the name, `--stop` and `--atp`: it picks
them out of `argv` and hands them on; the stack size is RT-Thread's affair. The dialogs of the
upload tool choose a port and a file, and keep nothing but the history.

The start of `main()`: the order of its calls matters only to ElenixOS, which a
button may reach before `eos_init`.

## Plan

Done: the upload, jobs, device manager, storage, crown, history; then the file
commands on a shared heap and volume, and the clock; then the refinement of the
upload, the late receiver and the history as theorems. Left:

1. Composition of uploads and package jobs with an erase command that wipes the
   volume under them. Each part is checked against a file system that may fail
   in any call, which covers what an erase does to it; the product of the state
   spaces is what stands in the way.
2. Proofs: the safety half of `Delivery` (under `TimelySpec` no wait is ever
   left without the character it is for).

----------------------------- MODULE FileBuffers -----------------------------
(***************************************************************************)
(* The PSRAM heap (src/sifli_psram.c) and the commands of                  *)
(* src/reg_commands.c that read whole files into it: hex, which prints     *)
(* one, js, whose thread hands one to the script engine, and pma.          *)
(* read_file_to_buffer allocates 64 bytes more than the file has and       *)
(* returns the first multiple of 64 in the block, which is not the         *)
(* address that was allocated unless that is a multiple of 64 itself.      *)
(*                                                                         *)
(* The heap is a set of blocks.  rt_memheap is external: it places a block *)
(* anywhere where there is room.  One step makes at most one call that     *)
(* another thread can notice.                                              *)
(***************************************************************************)
EXTENDS Files

CONSTANTS
    Threads,      \* bound: threads of js
    Hex,          \* the reader that is not one of them: the shell, in hex
    Nobody,
    Alignment,    \* 64 in the code
    Grain,        \* RT_ALIGN_SIZE
    HeapStart, HeapEnd,   \* psram_cache
    Word,         \* SIZE_MAX + 1
    Args,         \* the names hex and js are given
    Requests,     \* bound: sizes asked for by pma and by ElenixOS
    MaxOthers     \* bound: blocks these two have at a time

ASSUME ReaderAssumption ==
    /\ IsFiniteSet(Threads)
    /\ Hex \notin Threads /\ {Nobody, "eos"} \cap Threads = {}
ASSUME AlignAssumption  == Alignment \in Nat \ {0} /\ Grain \in Nat \ {0}
ASSUME HeapAssumption   == HeapStart \in Nat /\ HeapEnd \in Nat
ASSUME ArgsAssumption  == Args \subseteq Paths
ASSUME RequestAssumption == Requests \subseteq Nat /\ MaxOthers \in Nat
ASSUME WordAssumption   == Word \in Nat \ {0}
\* No volume is so large that the size of a file comes near SIZE_MAX.
ASSUME VolumeAssumption == \A n \in Sizes : n + Alignment < Word

Readers == Threads \cup {Hex}

VARIABLES
    heap,         \* the blocks in use
    sys,          \* those that ElenixOS holds (image cache and others)
    lost,         \* history: those no program has the address of any more
    at,           \* at[r]: where reader r is in read_file_to_buffer
    path,         \* path[r]: its argument
    fsize,        \* fsize[r]: the size it has read
    block,        \* block[r]: the block it has allocated
    engine,       \* whose script runs: a thread's, ElenixOS's ("eos"), Nobody's
    reopened,     \* hex has its file open for the second time
    printed       \* the size it reads then, the end of its loop

hexVars    == <<reopened, printed>>
readerVars == <<at, path, fsize, block>>
heapVars   == <<heap, sys, lost>>
bufferVars == <<heapVars, readerVars, engine, hexVars>>

-----------------------------------------------------------------------------
(***************************************************************************)
(* The heap.                                                               *)
(***************************************************************************)
RoundUp(n, g) == ((n + g - 1) \div g) * g

\* The smallest block is one grain.
BlockSize(n) == IF n = 0 THEN Grain ELSE RoundUp(n, Grain)

Disjoint(b, c) == \/ b.base + b.size <= c.base
                  \/ c.base + c.size <= b.base

Blocks == [base : {a \in HeapStart..HeapEnd : a % Grain = 0},
           size : 1..(HeapEnd - HeapStart)]

Places(n, used) ==
    {b \in Blocks : /\ b.size = BlockSize(n)
                    /\ b.base + b.size <= HeapEnd
                    /\ \A c \in used : Disjoint(b, c)}

mem_mgr_alloc(n, b) == b \in Places(n, heap) /\ heap' = heap \cup {b}

\* rt_memheap_free finds the header of the block in front of the address.
\* When there is none the build decides: the assertion stops the watch, or
\* the call does nothing.
mem_mgr_free(a) ==
    \/ /\ \E b \in heap : b.base = a /\ heap' = heap \ {b}
       /\ UNCHANGED halted
    \/ /\ \A b \in heap : b.base # a
       /\ halted' \in BOOLEAN
       /\ UNCHANGED heap

MayAllocate == Cardinality(sys \cup lost) < MaxOthers

\* ElenixOS allocates (eos_cache_buf_alloc, mem_mgr_alloc, mem_mgr_calloc,
\* whose product wraps around), resizes and frees what it has allocated.
SysAllocates(n) ==
    /\ MayAllocate
    /\ \E b \in Places(n, heap) : /\ mem_mgr_alloc(n, b)
                                  /\ sys' = sys \cup {b}
    /\ UNCHANGED <<lost, readerVars, engine, hexVars,
                   shell, files, touched, fds>>

eos_cache_buf_alloc(n) == SysAllocates(n) /\ UNCHANGED halted

\* A product that wraps around gives the caller, and what it writes, less
\* room than it asked for; nothing is said of the watch any more then.
mem_mgr_calloc(num, size) ==
    /\ SysAllocates((num * size) % Word)
    /\ num * size < Word => UNCHANGED halted
    /\ halted' \in BOOLEAN

\* Slip: the old address is returned, wherever the block is now.
ReallocReturnsOld(b, n) ==
    /\ b \in sys
    /\ \E c \in Places(n, heap \ {b}) : heap' = (heap \ {b}) \cup {c}
    /\ UNCHANGED <<sys, lost, readerVars, engine, hexVars, filesVars>>

mem_mgr_realloc(b, n) ==
    /\ b \in sys
    /\ \E c \in Places(n, heap \ {b}) :
          /\ heap' = (heap \ {b}) \cup {c}
          /\ sys' = (sys \ {b}) \cup {c}
    /\ UNCHANGED <<lost, readerVars, engine, hexVars, filesVars>>

eos_cache_buf_free(b) ==
    /\ b \in sys
    /\ mem_mgr_free(b.base)
    /\ sys' = sys \ {b}
    /\ UNCHANGED <<lost, readerVars, engine, hexVars,
                   shell, files, touched, fds>>

\* pma: the address is dropped.
pma(n) ==
    /\ shell = "prompt" /\ MayAllocate
    /\ \E b \in Places(n, heap) : /\ mem_mgr_alloc(n, b)
                                  /\ lost' = lost \cup {b}
    /\ UNCHANGED <<sys, readerVars, engine, hexVars, filesVars>>

-----------------------------------------------------------------------------
(***************************************************************************)
(* read_file_to_buffer, called by reader r.                                *)
(***************************************************************************)
NoBlock == [base |-> 0, size |-> 0]

\* What is returned: the block's first address that is aligned.
Data(r) == RoundUp(block[r].base, Alignment)

Goes(r, from, to) == at[r] = from /\ at' = [at EXCEPT ![r] = to]

\* The caller is through with it, and its locals are gone.
Returns(r, from) ==
    /\ Goes(r, from, "idle")
    /\ path'  = [path  EXCEPT ![r] = Nobody]
    /\ fsize' = [fsize EXCEPT ![r] = 0]
    /\ block' = [block EXCEPT ![r] = NoBlock]

OpenRead(r) ==
    /\ \/ Goes(r, "called", "opened") /\ CanOpen(path[r]) /\ fds' = fds + 1
       \/ Goes(r, "called", "failed") /\ ~CanOpen(path[r]) /\ UNCHANGED fds
    /\ UNCHANGED <<heapVars, path, fsize, block, engine, hexVars,
                   shell, files, touched, halted>>

\* eos_fs_size leaves 0 when it fails; an empty file is refused.
ReadSize(r) ==
    /\ at[r] = "opened"
    /\ \E n \in {0} \cup (IF IsFile(path[r]) THEN {files[path[r]]} ELSE {}) :
          /\ fsize' = [fsize EXCEPT ![r] = n]
          /\ \/ n > 0 /\ Goes(r, "opened", "sized") /\ UNCHANGED fds
             \/ n = 0 /\ Goes(r, "opened", "failed") /\ fds' = fds - 1
    /\ UNCHANGED <<heapVars, path, block, engine, hexVars,
                   shell, files, touched, halted>>

\* Slips: the block is as large as the file; the file is not closed when
\* there is no memory.
AllocTight(r) ==
    /\ at[r] = "sized"
    /\ \/ \E b \in Places(fsize[r], heap) :
             /\ mem_mgr_alloc(fsize[r], b)
             /\ block' = [block EXCEPT ![r] = b]
             /\ Goes(r, "sized", "allocated")
             /\ UNCHANGED fds
       \/ /\ Places(fsize[r], heap) = {}
          /\ Goes(r, "sized", "failed")
          /\ fds' = fds - 1
          /\ UNCHANGED <<heap, block>>
    /\ UNCHANGED <<sys, lost, path, fsize, engine, hexVars,
                   shell, files, touched, halted>>

AllocKeepsFile(r) ==
    /\ at[r] = "sized"
    /\ Places(fsize[r] + Alignment, heap) = {}
    /\ Goes(r, "sized", "failed")
    /\ UNCHANGED <<heapVars, path, fsize, block, engine, hexVars, filesVars>>

AllocBuffer(r) ==
    /\ at[r] = "sized"
    /\ \/ \E b \in Places(fsize[r] + Alignment, heap) :
             /\ mem_mgr_alloc(fsize[r] + Alignment, b)
             /\ block' = [block EXCEPT ![r] = b]
             /\ Goes(r, "sized", "allocated")
             /\ UNCHANGED fds
       \/ /\ Places(fsize[r] + Alignment, heap) = {}
          /\ Goes(r, "sized", "failed")
          /\ fds' = fds - 1
          /\ UNCHANGED <<heap, block>>
    /\ UNCHANGED <<sys, lost, path, fsize, engine, hexVars,
                   shell, files, touched, halted>>

\* Slip: an incomplete file returns without freeing the block.
ReadKeepsBlock(r) ==
    /\ fds' = fds - 1
    /\ Goes(r, "allocated", "ready") \/ Goes(r, "allocated", "failed")
    /\ UNCHANGED <<heapVars, path, fsize, block, engine, hexVars,
                   shell, files, touched, halted>>

\* The content is read and the file closed; when less has been read than
\* the size said, the block is freed.
ReadContent(r) ==
    /\ fds' = fds - 1
    /\ \/ /\ Goes(r, "allocated", "ready")
          /\ UNCHANGED <<heap, halted>>
       \/ /\ Goes(r, "allocated", "failed")
          /\ mem_mgr_free(block[r].base)
    /\ UNCHANGED <<sys, lost, path, fsize, block, engine, hexVars,
                   shell, files, touched>>

read_file_to_buffer(r) ==
    OpenRead(r) \/ ReadSize(r) \/ AllocBuffer(r) \/ ReadContent(r)

-----------------------------------------------------------------------------
(***************************************************************************)
(* hex, in the shell thread.                                               *)
(***************************************************************************)
Call(r, p) == /\ Goes(r, "idle", "called")
              /\ path' = [path EXCEPT ![r] = p]

hex(p) ==
    /\ shell = "prompt" /\ Call(Hex, p)
    /\ shell' = "hex"
    /\ touched' = FALSE
    /\ UNCHANGED <<heapVars, fsize, block, engine, hexVars,
                   files, fds, halted>>

HexFails ==
    /\ shell = "hex" /\ Returns(Hex, "failed")
    /\ shell' = "prompt"
    /\ UNCHANGED <<heapVars, engine, hexVars, files, touched, fds, halted>>

\* The file is opened once more, unless it is gone or there is no descriptor
\* left: nothing looks at that.
HexOpenAgain ==
    /\ shell = "hex" /\ at[Hex] = "ready"
    /\ shell' = "sizing"
    /\ reopened' = CanOpen(path[Hex])
    /\ fds' = IF reopened' THEN fds + 1 ELSE fds
    /\ UNCHANGED <<heapVars, readerVars, engine, printed,
                   files, touched, halted>>

\* Its size, whatever it is by now; 0 when the call fails, as it does for a
\* file that is not open.
HexSizeAgain ==
    /\ shell = "sizing"
    /\ shell' = "closing"
    /\ printed' \in {0} \cup (IF reopened /\ IsFile(path[Hex])
                                THEN {files[path[Hex]]} ELSE {})
    /\ UNCHANGED <<heapVars, readerVars, engine, reopened,
                   files, touched, fds, halted>>

\* The call is made in any case; DFS refuses what is no descriptor.
HexCloseAgain ==
    /\ shell = "closing"
    /\ shell' = "printing"
    /\ reopened' = FALSE
    /\ fds' = IF reopened THEN fds - 1 ELSE fds
    /\ UNCHANGED <<heapVars, readerVars, engine, printed,
                   files, touched, halted>>

HexAgain == HexOpenAgain \/ HexSizeAgain \/ HexCloseAgain

\* Slip: the block is not freed at all.
HexKeeps ==
    /\ shell = "printing"
    /\ Returns(Hex, "ready")
    /\ shell' = "prompt" /\ printed' = 0
    /\ UNCHANGED <<heapVars, engine, reopened, files, touched, fds, halted>>

\* The bytes are printed; what is freed is the address that was returned.
HexDone ==
    /\ shell = "printing"
    /\ Returns(Hex, "ready")
    /\ mem_mgr_free(Data(Hex))
    /\ lost' = IF Data(Hex) = block[Hex].base THEN lost
                                              ELSE lost \cup {block[Hex]}
    /\ shell' = "prompt" /\ printed' = 0
    /\ UNCHANGED <<sys, engine, reopened, files, touched, fds>>

-----------------------------------------------------------------------------
(***************************************************************************)
(* js: app_run_thread_entry.  How the thread comes to its argument is the  *)
(* matter of ShellJobs.  No path frees the script's block.                 *)
(***************************************************************************)
js(t, p) ==
    /\ shell = "prompt" /\ Call(t, p)
    /\ UNCHANGED <<heapVars, fsize, block, engine, hexVars, filesVars>>

AppFails(t) ==
    /\ Returns(t, "failed")
    /\ UNCHANGED <<heapVars, engine, hexVars, filesVars>>

RunScript(t) ==
    /\ Goes(t, "ready", "running")
    /\ engine = Nobody /\ engine' = t
    /\ UNCHANGED <<heapVars, path, fsize, block, hexVars, filesVars>>

\* SE_ERR_ALREADY_RUNNING.
AlreadyRunning(t) ==
    /\ Returns(t, "ready")
    /\ engine # Nobody
    /\ lost' = lost \cup {block[t]}
    /\ UNCHANGED <<heap, sys, engine, hexVars, filesVars>>

ScriptEnds(t) ==
    /\ Returns(t, "running")
    /\ engine' = Nobody
    /\ lost' = lost \cup {block[t]}
    /\ UNCHANGED <<heap, sys, hexVars, filesVars>>

\* ElenixOS starts an application, which ends some time.
EosScript ==
    /\ \/ engine = Nobody /\ engine' = "eos"
       \/ engine = "eos"  /\ engine' = Nobody
    /\ UNCHANGED <<heapVars, readerVars, hexVars, filesVars>>

app_run_thread_entry(t) ==
    \/ read_file_to_buffer(t)
    \/ AppFails(t) \/ RunScript(t) \/ AlreadyRunning(t) \/ ScriptEnds(t)
=============================================================================

---------------------------- MODULE FileCommands ----------------------------
(***************************************************************************)
(* The commands that read files, at work on one volume and one heap: hex   *)
(* and diag in the shell thread, the threads of js, and everything else    *)
(* that uses the heap or changes the volume meanwhile.                     *)
(***************************************************************************)
EXTENDS FileBuffers, Diag

vars == <<filesVars, bufferVars, diagVars>>

TypeOK ==
    /\ FilesTypeOK /\ DiagTypeOK
    /\ shell \in {"prompt", "hex", "sizing", "closing", "printing", "diag"}
    /\ heap \subseteq Blocks /\ sys \subseteq heap /\ lost \subseteq heap
    /\ at \in [Readers -> {"idle", "called", "opened", "sized", "allocated",
                           "ready", "failed", "running"}]
    /\ path \in [Readers -> Paths \cup {Nobody}]
    /\ fsize \in [Readers -> Sizes \cup {0}]
    /\ block \in [Readers -> Blocks \cup {NoBlock}]
    /\ engine \in Threads \cup {Nobody, "eos"}
    /\ reopened \in BOOLEAN
    /\ printed \in Sizes \cup {0}

BufferInit ==
    /\ heap = {} /\ sys = {} /\ lost = {}
    /\ at = [r \in Readers |-> "idle"]
    /\ path = [r \in Readers |-> Nobody]
    /\ fsize = [r \in Readers |-> 0]
    /\ block = [r \in Readers |-> NoBlock]
    /\ engine = Nobody /\ reopened = FALSE /\ printed = 0

Init == FilesInit /\ BufferInit /\ DiagInit

\* The watch is restarted: the volume stays, everything else begins anew.
Restart ==
    /\ shell' = "prompt" /\ touched' = FALSE /\ fds' = 0 /\ halted' = FALSE
    /\ UNCHANGED files
    /\ heap' = {} /\ sys' = {} /\ lost' = {}
    /\ at' = [r \in Readers |-> "idle"]
    /\ path' = [r \in Readers |-> Nobody]
    /\ fsize' = [r \in Readers |-> 0]
    /\ block' = [r \in Readers |-> NoBlock]
    /\ engine' = Nobody /\ reopened' = FALSE /\ printed' = 0
    /\ step' = "off" /\ Reset

ShellStep ==
    /\ \/ read_file_to_buffer(Hex) /\ UNCHANGED diagVars
       \/ (HexFails \/ HexAgain \/ HexDone) /\ UNCHANGED diagVars
       \/ _find_test_file /\ UNCHANGED bufferVars
       \/ (Measure \/ MeasureDone \/ DiagDone) /\ UNCHANGED bufferVars
    /\ ~halted

Typed ==
    /\ \/ diag /\ UNCHANGED bufferVars
       \/ \E p \in Args : hex(p) /\ UNCHANGED diagVars
       \/ \E t \in Threads, p \in Args : js(t, p) /\ UNCHANGED diagVars
       \/ \E n \in Requests : pma(n) /\ UNCHANGED diagVars
    /\ ~halted

Others ==
    /\ \/ \E t \in Threads : app_run_thread_entry(t)
       \/ EosScript
       \/ \E n \in Requests : eos_cache_buf_alloc(n)
       \/ \E n, m \in Requests : mem_mgr_calloc(n, m)
       \/ \E b \in sys : eos_cache_buf_free(b)
       \/ \E b \in sys, n \in Requests : mem_mgr_realloc(b, n)
       \/ /\ \E p \in Paths, new \in Sizes \cup {NoFile} : Change(p, new)
          /\ UNCHANGED bufferVars
    /\ ~halted
    /\ UNCHANGED diagVars

Next == ShellStep \/ Typed \/ Others \/ Restart

Spec == Init /\ [][Next]_vars

-----------------------------------------------------------------------------
(***************************************************************************)
(* Properties.                                                             *)
(***************************************************************************)
Holds(r)     == at[r] \in {"allocated", "ready", "running"}
HasBuffer(r) == at[r] \in {"ready", "running"}
HasOpen(r)   == at[r] \in {"opened", "sized", "allocated"}

Held        == {block[r] : r \in {q \in Readers : Holds(q)}}
OpenReaders == {r \in Readers : HasOpen(r)}
DirOpen     == IF step \in {"readdir", "statentry", "close"} THEN 1 ELSE 0
HexOpen     == IF reopened THEN 1 ELSE 0

\* The text that a command or the script engine works on lies, to its last
\* byte, in a block that is allocated and that nobody else can free, although
\* neither hex nor js knows the block's address any more.
BufferInside ==
    \A r \in Readers :
        HasBuffer(r) =>
            /\ block[r] \in heap \ (sys \cup lost)
            /\ \A q \in Readers : Holds(q) /\ q # r => block[q] # block[r]
            /\ block[r].base <= Data(r)
            /\ Data(r) + fsize[r] <= block[r].base + block[r].size

\* Every block has somebody who will free it, but for those that pma, a
\* script, or a hex whose block was not aligned, leaves behind.  No failure
\* in read_file_to_buffer loses one, and no address that hex frees in vain
\* costs somebody else's.
HeapAccounted ==
    /\ heap = sys \cup lost \cup Held
    /\ \A r \in Readers : Holds(r) => block[r] \notin sys \cup lost
    /\ sys \cap lost = {}

\* Descriptors are open exactly while a reader is between its open and its
\* close, hex has its file open for the second time, or diag has a directory
\* or its test file open: none of the early returns leaves one behind.
FdsBalanced == fds = Cardinality(OpenReaders) + DirOpen + HexOpen

\* The search of diag finds a regular file when one of the names it tries, or
\* a visible entry of the two directories, is one: unless the volume changes
\* or a directory cannot be opened.  What it has found is a regular file.
SearchIsComplete ==
    step = "searched" /\ ~touched =>
        IF test_img = NoPath
        THEN refused \/ \A p \in {Candidates[i] : i \in 1..Len(Candidates)}
                                 \cup ImgDir \cup SysDir :
                            ~IsFile(p)
        ELSE IsFile(test_img)

-----------------------------------------------------------------------------
(***************************************************************************)
(* The inductive invariant.                                                *)
(***************************************************************************)

\* Blocks do not overlap: the only block that begins at an address within a
\* block is that block.
Apart == \A b, c \in heap : b # c => Disjoint(b, c)

\* A reader's block is its own, and has room for the file and the alignment.
Owned ==
    \A r \in Readers : Holds(r) =>
        /\ block[r] \in heap
        /\ fsize[r] + Alignment <= block[r].size
        /\ \A q \in Readers : Holds(q) /\ q # r => block[q] # block[r]

\* What the shell does: it is in read_file_to_buffer only on behalf of hex,
\* and its second descriptor is open only between the two calls.
ShellInv ==
    /\ at[Hex] # "running"
    /\ at[Hex] # "idle" <=> shell \in {"hex", "sizing", "closing", "printing"}
    /\ shell \in {"sizing", "closing", "printing"} => at[Hex] = "ready"
    /\ reopened => shell \in {"sizing", "closing"}
    /\ step # "off" <=> shell = "diag"

BuffersInv == Apart /\ Owned /\ HeapAccounted /\ ShellInv
=============================================================================

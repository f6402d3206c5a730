------------------------- MODULE FileCommandsProofs -------------------------
(***************************************************************************)
(* For any heap, alignment, files and number of script threads: what the   *)
(* commands work on lies within their own blocks, no block and no          *)
(* descriptor gets lost on a way the properties do not name.               *)
(***************************************************************************)
EXTENDS FileCommands, FiniteSetTheorems, TLAPS

-----------------------------------------------------------------------------
(***************************************************************************)
(* Arithmetic and blocks.                                                  *)
(***************************************************************************)

\* Rounding up to a multiple of g adds less than g.
LEMMA RoundUpBounds ==
    ASSUME NEW n \in Nat, NEW g \in Nat \ {0}
    PROVE  /\ RoundUp(n, g) \in Nat
           /\ n <= RoundUp(n, g)
           /\ RoundUp(n, g) < n + g
<1> DEFINE a == n + g - 1
           q == a \div g
<1>1. a \in Nat /\ q \in Nat
  BY SMT
<1>2. q * g <= a /\ a < q * g + g
  BY <1>1, SMT
<1>3. q * g \in Nat
  BY <1>1, SMT
<1> QED
  BY <1>1, <1>2, <1>3, SMT DEF RoundUp

\* What rt_memheap hands out is new, has room for what was asked for, and
\* lies apart from everything else.
LEMMA PlaceIsNew ==
    ASSUME NEW n \in Nat, NEW used \in SUBSET Blocks, NEW b \in Places(n, used)
    PROVE  /\ b \in Blocks
           /\ n <= b.size
           /\ b \notin used
           /\ \A c \in used : Disjoint(b, c) /\ Disjoint(c, b)
<1>1. b \in Blocks /\ b.size = BlockSize(n) /\ \A c \in used : Disjoint(b, c)
  BY DEF Places
<1>2. n <= BlockSize(n)
  BY RoundUpBounds, AlignAssumption DEF BlockSize
<1>3. \A c \in Blocks : c.base \in Nat /\ c.size \in Nat \ {0}
  BY HeapAssumption DEF Blocks
<1>4. ~Disjoint(b, b)
  BY <1>1, <1>3 DEF Disjoint
<1> QED
  BY <1>1, <1>2, <1>4 DEF Disjoint

\* A new block leaves the heap in order.
LEMMA ApartWith ==
    ASSUME NEW n \in Nat, NEW used \in SUBSET Blocks, NEW b \in Places(n, used),
           \A c, d \in used : c # d => Disjoint(c, d), heap' = used \cup {b}
    PROVE  Apart'
BY PlaceIsNew DEF Apart

\* A block that begins within another is that one.
LEMMA OneBlock ==
    ASSUME heap \subseteq Blocks, Apart, NEW b \in heap, NEW c \in heap,
           b.base <= c.base, c.base < b.base + b.size
    PROVE  b = c
<1>1. \A d \in Blocks : d.base \in Nat /\ d.size \in Nat \ {0}
  BY HeapAssumption DEF Blocks
<1> QED
  BY <1>1 DEF Apart, Disjoint

\* What a reader takes for the size of its file.
LEMMA SizeIsNat ==
    ASSUME TypeOK, NEW r \in Readers PROVE fsize[r] \in Nat
<1>1. fsize[r] \in Sizes \cup {0}
  BY DEF TypeOK
<1>2. \A n \in Sizes : n \in Nat
  BY SizesAssumption
<1> QED
  BY <1>1, <1>2

\* The aligned address lies in the block, with the whole file behind it.
LEMMA DataInside ==
    ASSUME TypeOK, Owned, NEW r \in Readers, Holds(r)
    PROVE  /\ Data(r) \in Nat /\ fsize[r] \in Nat
           /\ block[r].base \in Nat /\ block[r].size \in Nat
           /\ block[r].base <= Data(r)
           /\ Data(r) + fsize[r] < block[r].base + block[r].size
<1>1. block[r] \in Blocks /\ fsize[r] \in Nat
  BY SizeIsNat DEF TypeOK, Owned
<1>2. block[r].base \in Nat /\ block[r].size \in Nat
  BY <1>1, HeapAssumption DEF Blocks
<1>3. fsize[r] + Alignment <= block[r].size
  BY DEF Owned
<1>4. /\ Data(r) \in Nat /\ block[r].base <= Data(r)
      /\ Data(r) < block[r].base + Alignment
  BY <1>2, RoundUpBounds, AlignAssumption DEF Data
<1> QED
  BY <1>1, <1>2, <1>3, <1>4, AlignAssumption

\* Whichever address of its block a reader frees, nobody else's block goes.
LEMMA FreesOwn ==
    ASSUME TypeOK, Owned, Apart, NEW r \in Readers, Holds(r), NEW a,
           a = block[r].base \/ a = Data(r), mem_mgr_free(a)
    PROVE  \/ a = block[r].base /\ heap' = heap \ {block[r]}
           \/ a # block[r].base /\ heap' = heap
<1>1. /\ block[r].base <= a /\ a < block[r].base + block[r].size
      /\ block[r] \in heap /\ heap \subseteq Blocks
  BY DataInside, AlignAssumption DEF Owned, TypeOK
<1>2. \A b \in heap : b.base = a => b = block[r]
  BY <1>1, OneBlock
<1> QED
  BY <1>1, <1>2 DEF mem_mgr_free

-----------------------------------------------------------------------------
(***************************************************************************)
(* Who holds what: nobody takes or returns a block, one reader returns     *)
(* its, one takes a new one.                                               *)
(***************************************************************************)
Unmoved(q) == /\ Holds(q)' <=> Holds(q)
              /\ Holds(q) => block'[q] = block[q] /\ fsize'[q] = fsize[q]

\* Nobody takes or returns a block.
LEMMA Keeping ==
    ASSUME Owned, \A q \in Readers : Unmoved(q), Held \subseteq heap'
    PROVE  Owned' /\ Held' = Held
<1>1. Held' = Held
  BY DEF Held, Unmoved
<1> QED
  BY <1>1 DEF Owned, Held, Unmoved

\* Reader r returns its block, or leaves it behind.
LEMMA Releasing ==
    ASSUME Owned, NEW r \in Readers, Holds(r), ~Holds(r)',
           \A q \in Readers \ {r} : Unmoved(q), Held \ {block[r]} \subseteq heap'
    PROVE  Owned' /\ Held' = Held \ {block[r]}
<1>1. \A q \in Readers \ {r} : Holds(q) => block[q] # block[r]
  BY DEF Owned
<1>2. Held' = Held \ {block[r]}
  BY <1>1 DEF Held, Unmoved
<1> QED
  BY <1>1, <1>2 DEF Owned, Held, Unmoved

\* Reader r takes a block that nobody has.
LEMMA Acquiring ==
    ASSUME Owned, NEW r \in Readers, ~Holds(r), Holds(r)', NEW b,
           block'[r] = b, b \notin heap, heap' = heap \cup {b},
           fsize'[r] + Alignment <= b.size,
           \A q \in Readers \ {r} : Unmoved(q)
    PROVE  Owned' /\ Held' = Held \cup {b}
<1>1. Held' = Held \cup {b}
  BY DEF Held, Unmoved
<1>2. \A q \in Readers : Holds(q)' => block'[q] \in heap'
  BY DEF Owned, Unmoved
<1>3. \A q \in Readers \ {r} : Holds(q)' => block'[q] # b
  BY DEF Owned, Unmoved
<1> QED
  BY <1>1, <1>2, <1>3 DEF Owned, Unmoved

-----------------------------------------------------------------------------
(***************************************************************************)
(* The steps of a reader.                                                  *)
(***************************************************************************)

\* A step from one place to another, by r alone.
LEMMA GoesAlone ==
    ASSUME TypeOK, NEW r \in Readers, NEW from, NEW to, Goes(r, from, to)
    PROVE  /\ at[r] = from /\ at'[r] = to
           /\ \A q \in Readers \ {r} : at'[q] = at[q]
BY DEF Goes, TypeOK

\* A return changes nothing of the other readers.
LEMMA ReturnsAlone ==
    ASSUME TypeOK, NEW r \in Readers, NEW from, Returns(r, from)
    PROVE  /\ at[r] = from /\ at'[r] = "idle"
           /\ \A q \in Readers \ {r} : /\ at'[q] = at[q]
                                       /\ fsize'[q] = fsize[q]
                                       /\ block'[q] = block[q]
                                       /\ path'[q] = path[q]
<1>1. Goes(r, from, "idle")
  BY DEF Returns
<1> QED
  BY <1>1, GoesAlone DEF Returns, TypeOK

\* What read_file_to_buffer does for any reader leaves the heap in order.
LEMMA ReadKeepsHeap ==
    ASSUME TypeOK, BuffersInv, NEW r \in Readers, read_file_to_buffer(r)
    PROVE  Apart' /\ Owned' /\ HeapAccounted'
<1>0. Apart /\ Owned /\ HeapAccounted /\ Held \subseteq heap
  BY DEF BuffersInv, HeapAccounted
<1>1. CASE OpenRead(r)
  <2>1. \E to \in {"opened", "failed"} : Goes(r, "called", to)
    BY <1>1 DEF OpenRead
  <2>2. UNCHANGED <<heap, sys, lost, fsize, block>>
    BY <1>1 DEF OpenRead, heapVars
  <2>3. \A q \in Readers : Unmoved(q)
    BY <2>1, <2>2, GoesAlone DEF Unmoved, Holds
  <2> QED
    BY <1>0, <2>2, <2>3, Keeping DEF Apart, HeapAccounted, Unmoved
<1>2. CASE ReadSize(r)
  <2>1. \E to \in {"sized", "failed"} : Goes(r, "opened", to)
    BY <1>2 DEF ReadSize
  <2>2. UNCHANGED <<heap, sys, lost, block>>
    BY <1>2 DEF ReadSize, heapVars
  <2>3. \A q \in Readers \ {r} : fsize'[q] = fsize[q]
    BY <1>2 DEF ReadSize, TypeOK
  <2>4. \A q \in Readers : Unmoved(q)
    BY <2>1, <2>2, <2>3, GoesAlone DEF Unmoved, Holds
  <2> QED
    BY <1>0, <2>2, <2>4, Keeping DEF Apart, HeapAccounted, Unmoved
<1>3. CASE AllocBuffer(r)
  <2>1. CASE \E b \in Places(fsize[r] + Alignment, heap) :
                /\ mem_mgr_alloc(fsize[r] + Alignment, b)
                /\ block' = [block EXCEPT ![r] = b]
                /\ Goes(r, "sized", "allocated")
    <3>1. PICK b \in Places(fsize[r] + Alignment, heap) :
                /\ mem_mgr_alloc(fsize[r] + Alignment, b)
                /\ block' = [block EXCEPT ![r] = b]
                /\ Goes(r, "sized", "allocated")
      BY <2>1
    <3>2. heap \subseteq Blocks /\ fsize[r] + Alignment \in Nat
      BY SizeIsNat, AlignAssumption DEF TypeOK
    <3>3. b \notin heap /\ fsize[r] + Alignment <= b.size
      BY <3>1, <3>2, PlaceIsNew
    <3>4. heap' = heap \cup {b} /\ UNCHANGED <<sys, lost, fsize>>
      BY <1>3, <3>1 DEF mem_mgr_alloc, AllocBuffer
    <3>5. block'[r] = b /\ \A q \in Readers \ {r} : block'[q] = block[q]
      BY <3>1 DEF TypeOK
    <3>6. /\ ~Holds(r) /\ Holds(r)' /\ \A q \in Readers \ {r} : Unmoved(q)
      BY <3>1, <3>4, <3>5, GoesAlone DEF Unmoved, Holds
    <3>7. Owned' /\ Held' = Held \cup {b}
      BY <1>0, <3>3, <3>4, <3>5, <3>6, Acquiring
    <3>8. Apart'
      BY <1>0, <3>2, <3>4, ApartWith DEF Apart
    <3>9. \A q \in Readers : Holds(q)' => block'[q] \notin sys \cup lost
      BY <1>0, <3>3, <3>5, <3>6 DEF HeapAccounted, Unmoved
    <3> QED
      BY <1>0, <3>4, <3>7, <3>8, <3>9 DEF HeapAccounted
  <2>2. CASE Goes(r, "sized", "failed") /\ UNCHANGED <<heap, block>>
    <3>1. UNCHANGED <<heap, sys, lost, fsize, block>>
      BY <1>3, <2>2 DEF AllocBuffer
    <3>2. \A q \in Readers : Unmoved(q)
      BY <2>2, <3>1, GoesAlone DEF Unmoved, Holds
    <3> QED
      BY <1>0, <3>1, <3>2, Keeping DEF Apart, HeapAccounted, Unmoved
  <2> QED
    BY <1>3, <2>1, <2>2 DEF AllocBuffer
<1>4. CASE ReadContent(r)
  <2>1. UNCHANGED <<sys, lost, fsize, block>>
    BY <1>4 DEF ReadContent
  <2>2. CASE Goes(r, "allocated", "ready") /\ UNCHANGED heap
    <3>1. \A q \in Readers : Unmoved(q)
      BY <2>1, <2>2, GoesAlone DEF Unmoved, Holds
    <3> QED
      BY <1>0, <2>1, <2>2, <3>1, Keeping DEF Apart, HeapAccounted, Unmoved
  <2>3. CASE Goes(r, "allocated", "failed") /\ mem_mgr_free(block[r].base)
    <3>1. Holds(r) /\ ~Holds(r)' /\ \A q \in Readers \ {r} : Unmoved(q)
      BY <2>1, <2>3, GoesAlone DEF Unmoved, Holds
    <3>2. heap' = heap \ {block[r]}
      BY <1>0, <2>3, <3>1, FreesOwn
    <3>3. Owned' /\ Held' = Held \ {block[r]}
      BY <1>0, <3>1, <3>2, Releasing
    <3>4. block[r] \notin sys \cup lost
      BY <1>0, <3>1 DEF HeapAccounted
    <3> QED
      BY <1>0, <2>1, <3>1, <3>2, <3>3, <3>4
         DEF Apart, HeapAccounted, Unmoved
  <2> QED
    BY <1>4, <2>2, <2>3 DEF ReadContent
<1> QED
  BY <1>1, <1>2, <1>3, <1>4 DEF read_file_to_buffer

LeavesBehind(r) == heap' = heap /\ lost' = lost \cup {block[r]}
FreesBlock(r)   == heap' = heap \ {block[r]} /\ lost' = lost

\* A reader that is through with a buffer leaves the heap in order, whether
\* its block is freed, left behind, or was never there.
LEMMA ReturnKeepsHeap ==
    ASSUME TypeOK, BuffersInv, NEW r \in Readers, NEW from, Returns(r, from),
           sys' = sys,
           \/ ~Holds(r) /\ heap' = heap /\ lost' = lost
           \/ Holds(r) /\ (LeavesBehind(r) \/ FreesBlock(r))
    PROVE  Apart' /\ Owned' /\ HeapAccounted'
<1>0. Apart /\ Owned /\ HeapAccounted /\ Held \subseteq heap
  BY DEF BuffersInv, HeapAccounted
<1>1. ~Holds(r)' /\ \A q \in Readers \ {r} : Unmoved(q)
  BY ReturnsAlone DEF Unmoved, Holds
<1>2. CASE ~Holds(r) /\ heap' = heap /\ lost' = lost
  <2>1. \A q \in Readers : Unmoved(q)
    BY <1>1, <1>2 DEF Unmoved
  <2> QED
    BY <1>0, <1>2, <2>1, Keeping DEF Apart, HeapAccounted, Unmoved
<1>3. CASE Holds(r) /\ (LeavesBehind(r) \/ FreesBlock(r))
  <2> USE DEF LeavesBehind, FreesBlock
  <2>1. Owned' /\ Held' = Held \ {block[r]}
    BY <1>0, <1>1, <1>3, Releasing
  <2>2. block[r] \in Held /\ block[r] \notin sys \cup lost
    BY <1>0, <1>3 DEF HeapAccounted, Held
  <2>3. \A q \in Readers \ {r} : Holds(q) => block[q] # block[r]
    BY <1>0, <1>3 DEF Owned
  <2>4. Apart'
    BY <1>0, <1>3 DEF Apart
  <2>5. heap' = sys' \cup lost' \cup Held' /\ sys' \cap lost' = {}
    BY <1>0, <1>3, <2>1, <2>2 DEF HeapAccounted
  <2>6. \A q \in Readers : Holds(q)' => block'[q] \notin sys' \cup lost'
    BY <1>0, <1>1, <1>3, <2>3 DEF HeapAccounted, Unmoved
  <2> QED
    BY <2>1, <2>4, <2>5, <2>6 DEF HeapAccounted
<1> QED
  BY <1>2, <1>3

\* Steps that leave readers and heap alone leave the heap in order.
LEMMA RestKeepsHeap ==
    ASSUME BuffersInv, UNCHANGED <<heap, sys, lost, fsize, block>>,
           \A q \in Readers : Holds(q)' <=> Holds(q)
    PROVE  Apart' /\ Owned' /\ HeapAccounted'
<1>1. Apart /\ Owned /\ HeapAccounted /\ Held \subseteq heap
  BY DEF BuffersInv, HeapAccounted
<1>2. \A q \in Readers : Unmoved(q)
  BY DEF Unmoved
<1> QED
  BY <1>1, <1>2, Keeping DEF Apart, HeapAccounted, Unmoved

\* What ElenixOS and pma allocate, resize and free leaves the heap in order.
LEMMA OthersKeepHeap ==
    ASSUME TypeOK, BuffersInv,
           \/ \E n \in Requests : eos_cache_buf_alloc(n)
           \/ \E n, m \in Requests : mem_mgr_calloc(n, m)
           \/ \E b \in sys : eos_cache_buf_free(b)
           \/ \E b \in sys, n \in Requests : mem_mgr_realloc(b, n)
           \/ \E n \in Requests : pma(n)
    PROVE  Apart' /\ Owned' /\ HeapAccounted'
<1>0. /\ Apart /\ Owned /\ HeapAccounted
      /\ Held \subseteq heap /\ heap \subseteq Blocks
  BY DEF BuffersInv, HeapAccounted, TypeOK
<1>1. ASSUME UNCHANGED readerVars PROVE \A q \in Readers : Unmoved(q)
  BY <1>1 DEF Unmoved, Holds, readerVars
<1>2. ASSUME NEW n \in Nat, NEW b \in Places(n, heap), mem_mgr_alloc(n, b),
             UNCHANGED readerVars,
             \/ sys' = sys \cup {b} /\ lost' = lost
             \/ sys' = sys /\ lost' = lost \cup {b}
      PROVE  Apart' /\ Owned' /\ HeapAccounted'
  <2>1. heap' = heap \cup {b} /\ b \notin heap
    BY <1>0, <1>2, PlaceIsNew DEF mem_mgr_alloc
  <2>2. Apart'
    BY <1>0, <1>2, <2>1, ApartWith DEF Apart
  <2>3. Owned' /\ Held' = Held
    BY <1>0, <1>1, <1>2, <2>1, Keeping
  <2>4. heap' = sys' \cup lost' \cup Held'
    BY <1>0, <1>2, <2>1, <2>3 DEF HeapAccounted
  <2>5. sys' \cap lost' = {}
    BY <1>0, <1>2, <2>1 DEF HeapAccounted
  <2>6. \A q \in Readers : Holds(q)' => block'[q] \notin sys' \cup lost'
    BY <1>0, <1>1, <1>2, <2>1 DEF HeapAccounted, Unmoved, Owned
  <2> QED
    BY <2>2, <2>3, <2>4, <2>5, <2>6 DEF HeapAccounted
<1>3. ASSUME NEW n \in Nat, SysAllocates(n)
      PROVE  Apart' /\ Owned' /\ HeapAccounted'
  BY <1>2, <1>3 DEF SysAllocates
<1>4. ASSUME NEW b \in sys, eos_cache_buf_free(b)
      PROVE  Apart' /\ Owned' /\ HeapAccounted'
  <2>1. b \in heap
    BY <1>0 DEF HeapAccounted
  <2>2. b.base \in Nat /\ b.size \in Nat \ {0}
    BY <1>0, <2>1, HeapAssumption DEF Blocks
  <2>3. \A c \in heap : c.base = b.base => c = b
    BY <1>0, <2>1, <2>2, OneBlock
  <2>4. heap' = heap \ {b}
    BY <1>4, <2>1, <2>3 DEF eos_cache_buf_free, mem_mgr_free
  <2>5. UNCHANGED readerVars /\ sys' = sys \ {b} /\ lost' = lost
    BY <1>4 DEF eos_cache_buf_free
  <2>6. b \notin Held /\ b \notin lost
    BY <1>0 DEF HeapAccounted, Held
  <2>7. Owned' /\ Held' = Held
    BY <1>0, <1>1, <2>4, <2>5, <2>6, Keeping
  <2>8. Apart'
    BY <1>0, <2>4 DEF Apart
  <2>9. heap' = sys' \cup lost' \cup Held' /\ sys' \cap lost' = {}
    BY <1>0, <2>4, <2>5, <2>6, <2>7 DEF HeapAccounted
  <2>10. \A q \in Readers : Holds(q)' => block'[q] \notin sys' \cup lost'
    BY <1>0, <1>1, <2>5 DEF HeapAccounted, Unmoved
  <2> QED
    BY <2>7, <2>8, <2>9, <2>10 DEF HeapAccounted
<1>5. ASSUME NEW b \in sys, NEW n \in Nat, mem_mgr_realloc(b, n)
      PROVE  Apart' /\ Owned' /\ HeapAccounted'
  <2>1. PICK c \in Places(n, heap \ {b}) :
           /\ heap' = (heap \ {b}) \cup {c}
           /\ sys' = (sys \ {b}) \cup {c}
    BY <1>5 DEF mem_mgr_realloc
  <2>2. UNCHANGED readerVars /\ lost' = lost
    BY <1>5 DEF mem_mgr_realloc
  <2>3. c \notin heap \ {b}
    BY <1>0, <2>1, PlaceIsNew
  <2>4. b \notin Held /\ b \notin lost
    BY <1>0 DEF HeapAccounted, Held
  <2>5. Owned' /\ Held' = Held
    BY <1>0, <1>1, <2>1, <2>2, <2>4, Keeping
  <2>6. Apart'
    <3>1. \A d, e \in heap \ {b} : d # e => Disjoint(d, e)
      BY <1>0 DEF Apart
    <3> QED
      BY <1>0, <2>1, <3>1, ApartWith
  <2>7. heap' = sys' \cup lost' \cup Held' /\ sys' \cap lost' = {}
    BY <1>0, <2>1, <2>2, <2>3, <2>4, <2>5 DEF HeapAccounted
  <2>8. \A q \in Readers : Holds(q)' => block'[q] \notin sys' \cup lost'
    BY <1>0, <1>1, <2>1, <2>2, <2>3, <2>4
       DEF HeapAccounted, Unmoved, Owned, Held
  <2> QED
    BY <2>5, <2>6, <2>7, <2>8 DEF HeapAccounted
<1>6. ASSUME NEW n \in Nat, pma(n)
      PROVE  Apart' /\ Owned' /\ HeapAccounted'
  BY <1>2, <1>6 DEF pma
<1>7. \A n \in Requests : n \in Nat
  BY RequestAssumption
<1>8. \A n, m \in Requests : (n * m) % Word \in Nat
  BY <1>7, WordAssumption
<1> QED
  BY <1>3, <1>4, <1>5, <1>6, <1>7, <1>8
     DEF eos_cache_buf_alloc, mem_mgr_calloc

\* What hex and the threads of js do after read_file_to_buffer leaves the
\* heap in order, though hex may free an address that is no block's.
LEMMA CommandsKeepHeap ==
    ASSUME TypeOK, BuffersInv,
           \/ \E p \in Args : hex(p)
           \/ HexFails \/ HexAgain \/ HexDone
           \/ \E t \in Threads, p \in Args : js(t, p)
           \/ \E t \in Threads : \/ AppFails(t) \/ RunScript(t)
                                 \/ AlreadyRunning(t) \/ ScriptEnds(t)
    PROVE  Apart' /\ Owned' /\ HeapAccounted'
<1>0. Hex \in Readers /\ Threads \subseteq Readers
  BY DEF Readers
<1>1. ASSUME NEW r \in Readers, NEW p, Call(r, p),
             UNCHANGED <<heap, sys, lost, fsize, block>>
      PROVE  Apart' /\ Owned' /\ HeapAccounted'
  <2>1. Goes(r, "idle", "called")
    BY <1>1 DEF Call
  <2>2. \A q \in Readers : Holds(q)' <=> Holds(q)
    BY <2>1, GoesAlone DEF Holds
  <2> QED
    BY <1>1, <2>2, RestKeepsHeap
<1>2. ASSUME NEW r \in Readers, Returns(r, "failed"),
             UNCHANGED <<heap, sys, lost>>
      PROVE  Apart' /\ Owned' /\ HeapAccounted'
  <2>1. ~Holds(r)
    BY <1>2, ReturnsAlone DEF Holds
  <2> QED
    BY <1>2, <2>1, ReturnKeepsHeap
<1>3. CASE HexAgain
  BY <1>3, RestKeepsHeap
     DEF HexAgain, HexOpenAgain, HexSizeAgain, HexCloseAgain,
         heapVars, readerVars, Holds
<1>4. CASE HexDone
  <2>1. Returns(Hex, "ready") /\ mem_mgr_free(Data(Hex)) /\ sys' = sys
    BY <1>4 DEF HexDone
  <2>2. Holds(Hex)
    BY <1>0, <2>1, ReturnsAlone DEF Holds
  <2>3. \/ Data(Hex) = block[Hex].base /\ heap' = heap \ {block[Hex]}
        \/ Data(Hex) # block[Hex].base /\ heap' = heap
    BY <1>0, <2>1, <2>2, FreesOwn DEF BuffersInv
  <2>4. LeavesBehind(Hex) \/ FreesBlock(Hex)
    BY <1>4, <2>3 DEF HexDone, LeavesBehind, FreesBlock
  <2> QED
    BY <1>0, <2>1, <2>2, <2>4, ReturnKeepsHeap
<1>5. ASSUME NEW t \in Threads, RunScript(t)
      PROVE  Apart' /\ Owned' /\ HeapAccounted'
  <2>1. Goes(t, "ready", "running")
    BY <1>5 DEF RunScript
  <2>2. \A q \in Readers : Holds(q)' <=> Holds(q)
    BY <1>0, <2>1, GoesAlone DEF Holds
  <2> QED
    BY <1>5, <2>2, RestKeepsHeap DEF RunScript, heapVars
<1>6. ASSUME NEW t \in Threads, AlreadyRunning(t) \/ ScriptEnds(t)
      PROVE  Apart' /\ Owned' /\ HeapAccounted'
  <2>1. PICK from \in {"ready", "running"} : Returns(t, from)
    BY <1>6 DEF AlreadyRunning, ScriptEnds
  <2>2. LeavesBehind(t) /\ sys' = sys
    BY <1>6 DEF AlreadyRunning, ScriptEnds, LeavesBehind
  <2>3. Holds(t)
    BY <1>0, <2>1, ReturnsAlone DEF Holds
  <2>4. t \in Readers
    BY <1>0
  <2> QED
    BY <2>1, <2>2, <2>3, <2>4, ReturnKeepsHeap
<1>7. CASE \E p \in Args : hex(p)
  BY <1>0, <1>1, <1>7 DEF hex, heapVars
<1>8. CASE \E t \in Threads, p \in Args : js(t, p)
  BY <1>0, <1>1, <1>8 DEF js, heapVars
<1>9. CASE HexFails \/ \E t \in Threads : AppFails(t)
  BY <1>0, <1>2, <1>9 DEF HexFails, AppFails, heapVars
<1> QED
  BY <1>3, <1>4, <1>5, <1>6, <1>7, <1>8, <1>9

-----------------------------------------------------------------------------
(***************************************************************************)
(* What the shell does.                                                    *)
(***************************************************************************)

\* Steps of others, that change no file, are no matter of the shell.
LEMMA ShellKept ==
    ASSUME ShellInv, UNCHANGED <<shell, step, reopened>>,
           at'[Hex] = at[Hex]
    PROVE  ShellInv'
BY DEF ShellInv

\* A step of a thread of js is none of hex.
LEMMA ThreadIsNotHex ==
    ASSUME TypeOK, ShellInv, NEW t \in Threads, UNCHANGED step,
           \/ app_run_thread_entry(t)
           \/ \E p \in Args : js(t, p)
    PROVE  ShellInv'
<1>0. t \in Readers /\ Hex \in Readers \ {t} /\ t # Hex
  BY ReaderAssumption DEF Readers
<1>1. \E from, to : Goes(t, from, to)
  BY DEF app_run_thread_entry, read_file_to_buffer, OpenRead, ReadSize,
         AllocBuffer, ReadContent, AppFails, RunScript, AlreadyRunning,
         ScriptEnds, Returns, js, Call
<1>2. at'[Hex] = at[Hex]
  BY <1>0, <1>1, GoesAlone
<1>3. UNCHANGED <<shell, reopened>>
  BY DEF app_run_thread_entry, read_file_to_buffer, OpenRead, ReadSize,
         AllocBuffer, ReadContent, AppFails, RunScript, AlreadyRunning,
         ScriptEnds, js, filesVars, hexVars
<1> QED
  BY <1>2, <1>3, ShellKept

\* The shell is in read_file_to_buffer on behalf of hex only.
LEMMA HexKeepsShell ==
    ASSUME TypeOK, ShellInv, UNCHANGED step,
           \/ read_file_to_buffer(Hex)
           \/ HexFails \/ HexAgain \/ HexDone
           \/ \E p \in Args : hex(p)
    PROVE  ShellInv'
<1>0. Hex \in Readers /\ fsize \in [Readers -> Sizes \cup {0}]
  BY DEF Readers, TypeOK
<1>1. CASE OpenRead(Hex)
  <2>1. at[Hex] = "called" /\ at'[Hex] \in {"opened", "failed"}
    BY <1>0, <1>1, GoesAlone DEF OpenRead
  <2> QED
    BY <1>1, <2>1 DEF OpenRead, ShellInv, hexVars
<1>2. CASE ReadSize(Hex)
  <2>1. at[Hex] = "opened" /\ at'[Hex] \in {"sized", "failed"}
    BY <1>0, <1>2, GoesAlone DEF ReadSize
  <2> QED
    BY <1>2, <2>1 DEF ReadSize, ShellInv, hexVars
<1>3. CASE AllocBuffer(Hex)
  <2>1. at[Hex] = "sized" /\ at'[Hex] \in {"allocated", "failed"}
    BY <1>0, <1>3, GoesAlone DEF AllocBuffer
  <2> QED
    BY <1>3, <2>1 DEF AllocBuffer, ShellInv, hexVars
<1>4. CASE ReadContent(Hex)
  <2>1. at[Hex] = "allocated" /\ at'[Hex] \in {"ready", "failed"}
    BY <1>0, <1>4, GoesAlone DEF ReadContent
  <2> QED
    BY <1>4, <2>1 DEF ReadContent, ShellInv, hexVars
<1>5. CASE HexFails
  BY <1>0, <1>5, ReturnsAlone DEF HexFails, ShellInv, hexVars
<1>6. CASE HexAgain
  BY <1>6 DEF HexAgain, HexOpenAgain, HexSizeAgain, HexCloseAgain,
              readerVars, ShellInv
<1>7. CASE HexDone
  BY <1>0, <1>7, ReturnsAlone DEF HexDone, ShellInv
<1>8. ASSUME NEW p \in Args, hex(p) PROVE ShellInv'
  <2>1. at'[Hex] = "called"
    BY <1>0, <1>8, GoesAlone DEF hex, Call
  <2> QED
    BY <1>8, <2>1 DEF hex, ShellInv, hexVars
<1> QED
  BY <1>1, <1>2, <1>3, <1>4, <1>5, <1>6, <1>7, <1>8 DEF read_file_to_buffer

\* diag and hex exclude each other.
LEMMA DiagKeepsShell ==
    ASSUME ShellInv, UNCHANGED bufferVars,
           \/ diag \/ _find_test_file \/ Measure \/ MeasureDone \/ DiagDone
           \/ /\ UNCHANGED diagVars
              /\ \E p \in Paths, new \in Sizes \cup {NoFile} : Change(p, new)
    PROVE  ShellInv'
<1>0. UNCHANGED <<at, reopened>>
  BY DEF bufferVars, readerVars, hexVars
<1>1. CASE diag
  BY <1>0, <1>1 DEF diag, ShellInv
<1>2. CASE _find_test_file \/ Measure \/ MeasureDone
  <2>1. step # "off" /\ step' # "off" /\ UNCHANGED shell
    BY <1>2 DEF _find_test_file, StatCandidate, CandidatesDone, OpenDir,
                ReadDir, ReadDirEnds, StatEntry, Found, NextDir, Measure,
                MeasureDone, filesVars
  <2> QED
    BY <1>0, <2>1 DEF ShellInv
<1>3. CASE DiagDone
  BY <1>0, <1>3 DEF DiagDone, ShellInv
<1>4. CASE /\ UNCHANGED diagVars
           /\ \E p \in Paths, new \in Sizes \cup {NoFile} : Change(p, new)
  <2>1. UNCHANGED <<step, shell>>
    BY <1>4 DEF Change, diagVars
  <2> QED
    BY <1>0, <2>1 DEF ShellInv
<1> QED
  BY <1>1, <1>2, <1>3, <1>4

-----------------------------------------------------------------------------
(***************************************************************************)
(* Descriptors.                                                            *)
(***************************************************************************)
OpenPlaces == {"opened", "sized", "allocated"}

\* The readers between their open and their close are finitely many.
LEMMA OpenFinite == /\ IsFiniteSet(OpenReaders)
                    /\ Cardinality(OpenReaders) \in Nat
<1>1. IsFiniteSet(Readers)
  BY ReaderAssumption, FS_AddElement DEF Readers
<1> QED
  BY <1>1, FS_Subset, FS_CardinalityType DEF OpenReaders

\* A reader that opens or closes its file counts for one.
LEMMA OpenCount ==
    ASSUME TypeOK, NEW r \in Readers, NEW from, NEW to, Goes(r, from, to)
    PROVE  /\ from \in OpenPlaces <=> to \in OpenPlaces =>
                Cardinality(OpenReaders') = Cardinality(OpenReaders)
           /\ from \notin OpenPlaces /\ to \in OpenPlaces =>
                Cardinality(OpenReaders') = Cardinality(OpenReaders) + 1
           /\ from \in OpenPlaces /\ to \notin OpenPlaces =>
                /\ Cardinality(OpenReaders') = Cardinality(OpenReaders) - 1
                /\ Cardinality(OpenReaders) > 0
<1>0. /\ at[r] = from /\ at'[r] = to
      /\ \A q \in Readers \ {r} : at'[q] = at[q]
  BY GoesAlone
<1>1. \A q \in Readers \ {r} : q \in OpenReaders' <=> q \in OpenReaders
  BY <1>0 DEF OpenReaders, HasOpen
<1>2. /\ r \in OpenReaders <=> from \in OpenPlaces
      /\ r \in OpenReaders' <=> to \in OpenPlaces
  BY <1>0 DEF OpenReaders, HasOpen, OpenPlaces
<1>3. OpenReaders \subseteq Readers /\ OpenReaders' \subseteq Readers
  BY DEF OpenReaders
<1>4. CASE from \in OpenPlaces <=> to \in OpenPlaces
  <2>1. OpenReaders' = OpenReaders
    BY <1>1, <1>2, <1>3, <1>4
  <2> QED
    BY <1>4, <2>1
<1>5. CASE from \notin OpenPlaces /\ to \in OpenPlaces
  <2>1. OpenReaders' = OpenReaders \cup {r} /\ r \notin OpenReaders
    BY <1>1, <1>2, <1>3, <1>5
  <2> QED
    BY <1>5, <2>1, OpenFinite, FS_AddElement
<1>6. CASE from \in OpenPlaces /\ to \notin OpenPlaces
  <2>1. OpenReaders' = OpenReaders \ {r} /\ r \in OpenReaders
    BY <1>1, <1>2, <1>3, <1>6
  <2>2. Cardinality(OpenReaders \ {r}) = Cardinality(OpenReaders) - 1
    BY <2>1, OpenFinite, FS_RemoveElement
  <2>3. Cardinality(OpenReaders) # 0
    BY <2>1, OpenFinite, FS_EmptySet
  <2> QED
    BY <1>6, <2>1, <2>2, <2>3, OpenFinite
<1> QED
  BY <1>4, <1>5, <1>6

\* Every step leaves as many descriptors open as there are readers and
\* directories that are not done with theirs.
LEMMA FdsStep == TypeOK /\ ShellInv /\ FdsBalanced /\ Next =>
                    FdsBalanced' /\ fds' \in 0..FdMax
<1> SUFFICES ASSUME TypeOK, ShellInv, FdsBalanced, Next
             PROVE  FdsBalanced' /\ fds' \in 0..FdMax
  OBVIOUS
<1>0. /\ Hex \in Readers /\ Threads \subseteq Readers
      /\ fds \in 0..FdMax /\ FdMax \in Nat
      /\ Cardinality(OpenReaders) \in Nat
      /\ DirOpen \in {0, 1} /\ HexOpen \in {0, 1}
      /\ fds = Cardinality(OpenReaders) + DirOpen + HexOpen
  BY OpenFinite, FdAssumption DEF Readers, TypeOK, FilesTypeOK, FdsBalanced,
                                  DirOpen, HexOpen
<1>1. ASSUME NEW r \in Readers, read_file_to_buffer(r), UNCHANGED step
      PROVE  FdsBalanced' /\ fds' \in 0..FdMax
  <2>0. DirOpen' = DirOpen /\ HexOpen' = HexOpen
    BY <1>1 DEF DirOpen, HexOpen, read_file_to_buffer, OpenRead, ReadSize,
                AllocBuffer, ReadContent, hexVars
  <2> USE DEF OpenPlaces
  <2>1. CASE OpenRead(r)
    <3>1. CASE Goes(r, "called", "opened") /\ fds < FdMax /\ fds' = fds + 1
      BY <1>0, <2>0, <3>1, OpenCount DEF FdsBalanced
    <3>2. CASE Goes(r, "called", "failed") /\ fds' = fds
      BY <1>0, <2>0, <3>2, OpenCount DEF FdsBalanced
    <3> QED
      BY <2>1, <3>1, <3>2 DEF OpenRead, CanOpen
  <2>2. CASE ReadSize(r)
    <3>1. CASE Goes(r, "opened", "sized") /\ fds' = fds
      BY <1>0, <2>0, <3>1, OpenCount DEF FdsBalanced
    <3>2. CASE Goes(r, "opened", "failed") /\ fds' = fds - 1
      BY <1>0, <2>0, <3>2, OpenCount DEF FdsBalanced
    <3> QED
      BY <2>2, <3>1, <3>2 DEF ReadSize
  <2>3. CASE AllocBuffer(r)
    <3>1. CASE Goes(r, "sized", "allocated") /\ fds' = fds
      BY <1>0, <2>0, <3>1, OpenCount DEF FdsBalanced
    <3>2. CASE Goes(r, "sized", "failed") /\ fds' = fds - 1
      BY <1>0, <2>0, <3>2, OpenCount DEF FdsBalanced
    <3> QED
      BY <2>3, <3>1, <3>2 DEF AllocBuffer
  <2>4. CASE ReadContent(r)
    <3>1. \E to \in {"ready", "failed"} :
             Goes(r, "allocated", to) /\ fds' = fds - 1
      BY <2>4 DEF ReadContent
    <3> QED
      BY <1>0, <2>0, <3>1, OpenCount DEF FdsBalanced
  <2> QED
    BY <1>1, <2>1, <2>2, <2>3, <2>4 DEF read_file_to_buffer
<1>2. ASSUME NEW r \in Readers, NEW from, NEW to, Goes(r, from, to),
             from \notin OpenPlaces, to \notin OpenPlaces,
             UNCHANGED <<fds, step, reopened>>
      PROVE  FdsBalanced' /\ fds' \in 0..FdMax
  BY <1>0, <1>2, OpenCount DEF FdsBalanced, DirOpen, HexOpen
<1>3. ASSUME UNCHANGED <<fds, step, at, reopened>>
      PROVE  FdsBalanced' /\ fds' \in 0..FdMax
  BY <1>0, <1>3 DEF FdsBalanced, DirOpen, HexOpen, OpenReaders, HasOpen
<1>4. ASSUME UNCHANGED <<at, reopened>>, fds' = fds + (DirOpen' - DirOpen), fds' <= FdMax
      PROVE  FdsBalanced' /\ fds' \in 0..FdMax
  <2>1. /\ OpenReaders' = OpenReaders /\ HexOpen' = HexOpen
        /\ DirOpen' \in {0, 1}
    BY <1>4 DEF OpenReaders, HasOpen, DirOpen, HexOpen
  <2> QED
    BY <1>0, <1>4, <2>1 DEF FdsBalanced
<1>5. CASE ShellStep
  <2>1. CASE read_file_to_buffer(Hex) /\ UNCHANGED diagVars
    BY <1>0, <1>1, <2>1 DEF diagVars
  <2>2. CASE (HexFails \/ HexAgain \/ HexDone) /\ UNCHANGED diagVars
    <3>1. CASE HexFails \/ HexDone
      <4>1. \E from \in {"failed", "ready"} : Goes(Hex, from, "idle")
        BY <3>1 DEF HexFails, HexDone, Returns
      <4> QED
        BY <1>0, <1>2, <2>2, <3>1, <4>1
           DEF OpenPlaces, HexFails, HexDone, diagVars, hexVars
    <3>2. CASE HexAgain
      <4>1. OpenReaders' = OpenReaders /\ DirOpen' = DirOpen
        BY <2>2, <3>2 DEF HexAgain, HexOpenAgain, HexSizeAgain, HexCloseAgain,
             diagVars, readerVars, OpenReaders, HasOpen, DirOpen
      <4>2. fds' = fds + (HexOpen' - HexOpen) /\ fds' <= FdMax
        <5>1. CASE HexOpenAgain
          <6>1. ~reopened /\ (reopened' <=> CanOpen(path[Hex]))
            BY <5>1 DEF HexOpenAgain, ShellInv
          <6>2. CASE CanOpen(path[Hex])
            BY <1>0, <5>1, <6>1, <6>2 DEF HexOpenAgain, CanOpen, HexOpen
          <6>3. CASE ~CanOpen(path[Hex])
            BY <1>0, <5>1, <6>1, <6>3 DEF HexOpenAgain, HexOpen
          <6> QED
            BY <6>2, <6>3
        <5>2. CASE HexSizeAgain \/ HexCloseAgain
          BY <1>0, <5>2 DEF HexSizeAgain, HexCloseAgain, HexOpen
        <5> QED
          BY <3>2, <5>1, <5>2 DEF HexAgain
      <4>3. HexOpen' \in {0, 1}
        BY DEF HexOpen
      <4> QED
        BY <1>0, <4>1, <4>2, <4>3 DEF FdsBalanced
    <3> QED
      BY <2>2, <3>1, <3>2
  <2>3. CASE /\ _find_test_file \/ Measure \/ MeasureDone \/ DiagDone
             /\ UNCHANGED bufferVars
    <3>1. UNCHANGED <<at, reopened>>
      BY <2>3 DEF bufferVars, readerVars, hexVars
    <3>2. fds' = fds + (DirOpen' - DirOpen) /\ fds' <= FdMax
      <4>1. CASE StatCandidate
        BY <1>0, <4>1 DEF StatCandidate, Found, DirOpen, filesVars
      <4>2. CASE CandidatesDone
        BY <1>0, <4>2 DEF CandidatesDone, DirOpen, filesVars
      <4>3. CASE OpenDir
        BY <1>0, <4>3 DEF OpenDir, NextDir, DirOpen
      <4>4. CASE ReadDir
        BY <1>0, <4>4 DEF ReadDir, DirOpen, filesVars
      <4>5. CASE ReadDirEnds
        BY <1>0, <4>5 DEF ReadDirEnds, NextDir, DirOpen
      <4>6. CASE StatEntry
        BY <1>0, <4>6 DEF StatEntry, Found, DirOpen
      <4>7. CASE Measure
        BY <1>0, <4>7 DEF Measure, CanOpen, DirOpen
      <4>8. CASE MeasureDone
        BY <1>0, <4>8 DEF MeasureDone, DirOpen
      <4>9. CASE DiagDone
        BY <1>0, <4>9 DEF DiagDone, DirOpen
      <4> QED
        BY <2>3, <4>1, <4>2, <4>3, <4>4, <4>5, <4>6, <4>7, <4>8, <4>9
           DEF _find_test_file
    <3> QED
      BY <1>4, <3>1, <3>2
  <2> QED
    BY <1>5, <2>1, <2>2, <2>3 DEF ShellStep
<1>6. CASE Typed
  <2>1. ASSUME NEW r \in Readers, NEW p, Call(r, p),
               UNCHANGED <<fds, step, reopened>>
        PROVE  FdsBalanced' /\ fds' \in 0..FdMax
    BY <1>2, <2>1 DEF Call, OpenPlaces
  <2>2. CASE diag /\ UNCHANGED bufferVars
    <3>1. step = "off" /\ step' = "stat" /\ fds' = fds
          /\ UNCHANGED <<at, reopened>>
      BY <2>2 DEF diag, ShellInv, bufferVars, readerVars, hexVars
    <3> QED
      BY <1>0, <1>4, <3>1 DEF DirOpen
  <2>3. CASE (\E p \in Args : hex(p)) /\ UNCHANGED diagVars
    BY <1>0, <2>1, <2>3 DEF hex, diagVars, hexVars
  <2>4. CASE (\E t \in Threads, p \in Args : js(t, p)) /\ UNCHANGED diagVars
    BY <1>0, <2>1, <2>4 DEF js, diagVars, filesVars, hexVars
  <2>5. CASE (\E n \in Requests : pma(n)) /\ UNCHANGED diagVars
    BY <1>3, <2>5 DEF pma, diagVars, filesVars, readerVars, hexVars
  <2> QED
    BY <1>6, <2>2, <2>3, <2>4, <2>5 DEF Typed
<1>7. CASE Others
  <2>0. UNCHANGED step
    BY <1>7 DEF Others, diagVars
  <2>1. ASSUME NEW t \in Threads, app_run_thread_entry(t)
        PROVE  FdsBalanced' /\ fds' \in 0..FdMax
    <3>1. CASE read_file_to_buffer(t)
      BY <1>0, <1>1, <2>0, <3>1
    <3>2. CASE AppFails(t) \/ RunScript(t) \/ AlreadyRunning(t) \/ ScriptEnds(t)
      <4>1. \E from \in {"failed", "ready", "running"},
               to \in {"idle", "running"} : Goes(t, from, to)
        BY <3>2 DEF AppFails, RunScript, AlreadyRunning, ScriptEnds, Returns
      <4>2. UNCHANGED <<fds, reopened>>
        BY <3>2 DEF AppFails, RunScript, AlreadyRunning, ScriptEnds, filesVars,
                    hexVars
      <4> QED
        BY <1>0, <1>2, <2>0, <4>1, <4>2 DEF OpenPlaces
    <3> QED
      BY <2>1, <3>1, <3>2 DEF app_run_thread_entry
  <2>2. CASE \/ EosScript
             \/ \E n \in Requests : eos_cache_buf_alloc(n)
             \/ \E n, m \in Requests : mem_mgr_calloc(n, m)
             \/ \E b \in sys : eos_cache_buf_free(b)
             \/ \E b \in sys, n \in Requests : mem_mgr_realloc(b, n)
    BY <1>3, <2>0, <2>2 DEF EosScript, eos_cache_buf_alloc, mem_mgr_calloc,
       SysAllocates, eos_cache_buf_free, mem_mgr_realloc, readerVars, filesVars,
       hexVars
  <2>3. CASE /\ \E p \in Paths, new \in Sizes \cup {NoFile} : Change(p, new)
             /\ UNCHANGED bufferVars
    BY <1>3, <2>0, <2>3 DEF Change, bufferVars, readerVars, hexVars
  <2> QED
    BY <1>7, <2>1, <2>2, <2>3 DEF Others
<1>8. CASE Restart
  <2>1. OpenReaders' = {} /\ DirOpen' = 0 /\ HexOpen' = 0 /\ fds' = 0
    BY <1>8 DEF Restart, OpenReaders, HasOpen, DirOpen, HexOpen
  <2> QED
    BY <1>0, <2>1, FS_EmptySet DEF FdsBalanced
<1> QED
  BY <1>5, <1>6, <1>7, <1>8 DEF Next

-----------------------------------------------------------------------------
(***************************************************************************)
(* The invariant of all steps.                                             *)
(***************************************************************************)

\* Whatever the commands and the others do, the heap stays in order.
LEMMA BuffersStep == TypeOK /\ BuffersInv /\ Next => BuffersInv'
<1> SUFFICES ASSUME TypeOK, BuffersInv, Next PROVE BuffersInv'
  OBVIOUS
<1>0. ShellInv
  BY DEF BuffersInv
<1>1. ASSUME NEW r \in Readers, read_file_to_buffer(r)
      PROVE  Apart' /\ Owned' /\ HeapAccounted'
  BY <1>1, ReadKeepsHeap
<1>2. ASSUME UNCHANGED bufferVars
      PROVE  Apart' /\ Owned' /\ HeapAccounted'
  <2>1. \A q \in Readers : Holds(q)' <=> Holds(q)
    BY <1>2 DEF bufferVars, readerVars, Holds
  <2> QED
    BY <1>2, <2>1, RestKeepsHeap DEF bufferVars, heapVars, readerVars
<1>3. CASE ShellStep
  <2>1. CASE /\ read_file_to_buffer(Hex) \/ HexFails \/ HexAgain \/ HexDone
             /\ UNCHANGED diagVars
    <3>1. ShellInv'
      BY <1>0, <2>1, HexKeepsShell DEF diagVars
    <3>2. Apart' /\ Owned' /\ HeapAccounted'
      BY <1>1, <2>1, CommandsKeepHeap DEF Readers
    <3> QED
      BY <3>1, <3>2 DEF BuffersInv
  <2>2. CASE /\ _find_test_file \/ Measure \/ MeasureDone \/ DiagDone
             /\ UNCHANGED bufferVars
    BY <1>0, <1>2, <2>2, DiagKeepsShell DEF BuffersInv
  <2> QED
    BY <1>3, <2>1, <2>2 DEF ShellStep
<1>4. CASE Typed
  <2>1. CASE diag /\ UNCHANGED bufferVars
    BY <1>0, <1>2, <2>1, DiagKeepsShell DEF BuffersInv
  <2>2. CASE (\E p \in Args : hex(p)) /\ UNCHANGED diagVars
    <3>1. ShellInv'
      BY <1>0, <2>2, HexKeepsShell DEF diagVars
    <3> QED
      BY <2>2, <3>1, CommandsKeepHeap DEF BuffersInv
  <2>3. CASE (\E t \in Threads, p \in Args : js(t, p)) /\ UNCHANGED diagVars
    <3>1. ShellInv'
      BY <1>0, <2>3, ThreadIsNotHex DEF diagVars
    <3> QED
      BY <2>3, <3>1, CommandsKeepHeap DEF BuffersInv
  <2>4. CASE (\E n \in Requests : pma(n)) /\ UNCHANGED diagVars
    <3>1. ShellInv'
      BY <1>0, <2>4, ShellKept DEF pma, readerVars, filesVars, diagVars,
                                    hexVars
    <3> QED
      BY <2>4, <3>1, OthersKeepHeap DEF BuffersInv
  <2> QED
    BY <1>4, <2>1, <2>2, <2>3, <2>4 DEF Typed
<1>5. CASE Others
  <2>0. UNCHANGED diagVars /\ UNCHANGED step
    BY <1>5 DEF Others, diagVars
  <2>1. ASSUME NEW t \in Threads, app_run_thread_entry(t) PROVE BuffersInv'
    <3>1. ShellInv'
      BY <1>0, <2>0, <2>1, ThreadIsNotHex
    <3>2. Apart' /\ Owned' /\ HeapAccounted'
      BY <1>1, <2>1, CommandsKeepHeap DEF app_run_thread_entry, Readers
    <3> QED
      BY <3>1, <3>2 DEF BuffersInv
  <2>2. CASE EosScript
    <3>1. ShellInv'
      BY <1>0, <2>0, <2>2, ShellKept DEF EosScript, readerVars, filesVars,
                                         hexVars
    <3>2. Apart' /\ Owned' /\ HeapAccounted'
      BY <2>2, RestKeepsHeap DEF EosScript, heapVars, readerVars, Holds
    <3> QED
      BY <3>1, <3>2 DEF BuffersInv
  <2>3. CASE \/ \E n \in Requests : eos_cache_buf_alloc(n)
             \/ \E n, m \in Requests : mem_mgr_calloc(n, m)
             \/ \E b \in sys : eos_cache_buf_free(b)
             \/ \E b \in sys, n \in Requests : mem_mgr_realloc(b, n)
    <3>1. UNCHANGED <<shell, reopened, at>>
      BY <2>3 DEF eos_cache_buf_alloc, mem_mgr_calloc, SysAllocates,
                  eos_cache_buf_free, mem_mgr_realloc, readerVars, filesVars,
                  hexVars
    <3>2. ShellInv'
      BY <1>0, <2>0, <3>1, ShellKept
    <3> QED
      BY <2>3, <3>2, OthersKeepHeap DEF BuffersInv
  <2>4. CASE /\ \E p \in Paths, new \in Sizes \cup {NoFile} : Change(p, new)
             /\ UNCHANGED bufferVars
    BY <1>0, <1>2, <2>0, <2>4, DiagKeepsShell DEF BuffersInv
  <2> QED
    BY <1>5, <2>1, <2>2, <2>3, <2>4 DEF Others
<1>6. CASE Restart
  <2>1. \A q \in Readers : ~Holds(q)'
    BY <1>6 DEF Restart, Holds
  <2>2. Held' = {}
    BY <2>1 DEF Held
  <2>3. Apart' /\ Owned' /\ HeapAccounted'
    BY <1>6, <2>1, <2>2 DEF Restart, Apart, Owned, HeapAccounted
  <2>4. /\ at'[Hex] = "idle" /\ shell' = "prompt" /\ step' = "off"
        /\ reopened' = FALSE
    BY <1>6 DEF Restart, Readers
  <2>5. ShellInv'
    BY <2>4 DEF ShellInv
  <2> QED
    BY <2>3, <2>5 DEF BuffersInv
<1> QED
  BY <1>3, <1>4, <1>5, <1>6 DEF Next

ShellPlaces == {"prompt", "hex", "sizing", "closing", "printing", "diag"}

\* The steps of diag keep its own variables in their types.
LEMMA DiagTypeStep ==
    ASSUME TypeOK, Next PROVE DiagTypeOK' /\ touched' \in BOOLEAN
                              /\ shell' \in ShellPlaces
<1>0. /\ DiagTypeOK /\ touched \in BOOLEAN
      /\ shell \in ShellPlaces
      /\ 0 \in 0..Len(Candidates) /\ 0 \in 0..Rounds
      /\ Len(Candidates) \in Nat
      /\ \A i \in 1..Len(Candidates) : Candidates[i] \in Paths
  BY CandidatesAssumption, RoundsAssumption DEF TypeOK, FilesTypeOK, ShellPlaces
<1> USE DEF ShellPlaces
<1>1. ASSUME UNCHANGED diagVars PROVE DiagTypeOK'
  BY <1>0, <1>1 DEF DiagTypeOK, diagVars
<1>2. ASSUME Reset, step' \in {"off", "stat"} PROVE DiagTypeOK'
  <2>1. refused' \in BOOLEAN
    BY <1>2 DEF Reset
  <2> QED
    BY <1>0, <1>2, <2>1 DEF DiagTypeOK, Reset
<1>3. ASSUME NEW p \in Paths, Found(p) PROVE DiagTypeOK'
  BY <1>0, <1>3 DEF DiagTypeOK, Found
<1>4. ASSUME NextDir, refused' \in BOOLEAN PROVE DiagTypeOK'
  BY <1>0, <1>4 DEF DiagTypeOK, NextDir
<1>5. CASE ShellStep
  <2>1. CASE \/ read_file_to_buffer(Hex) /\ UNCHANGED diagVars
             \/ (HexFails \/ HexAgain \/ HexDone) /\ UNCHANGED diagVars
    BY <1>0, <1>1, <2>1 DEF read_file_to_buffer, OpenRead, ReadSize,
       AllocBuffer, ReadContent, HexFails, HexDone, HexAgain, HexOpenAgain,
       HexSizeAgain, HexCloseAgain
  <2>2. CASE StatCandidate
    <3>1. tried < Len(Candidates) /\ tried + 1 \in 1..Len(Candidates)
      BY <1>0, <2>2 DEF StatCandidate, DiagTypeOK
    <3>2. CASE Found(Candidates[tried + 1])
      BY <1>0, <1>3, <2>2, <3>1, <3>2 DEF StatCandidate, filesVars
    <3>3. CASE /\ tried' = tried + 1
               /\ UNCHANGED <<step, dir, listed, entry, test_img, rounds,
                              refused>>
      BY <1>0, <2>2, <3>1, <3>3 DEF StatCandidate, filesVars, DiagTypeOK
    <3> QED
      BY <2>2, <3>2, <3>3 DEF StatCandidate
  <2>3. CASE CandidatesDone
    BY <1>0, <2>3 DEF CandidatesDone, filesVars, DiagTypeOK
  <2>4. CASE OpenDir
    <3>1. CASE NextDir /\ refused' = TRUE
      <4>1. refused' \in BOOLEAN
        BY <3>1
      <4> QED
        BY <1>0, <1>4, <2>4, <3>1, <4>1 DEF OpenDir
    <3>2. CASE step' = "readdir" /\ UNCHANGED <<tried, dir, listed, entry,
                                                test_img, rounds, refused>>
      BY <1>0, <2>4, <3>2 DEF OpenDir, DiagTypeOK
    <3> QED
      BY <2>4, <3>1, <3>2 DEF OpenDir
  <2>5. CASE ReadDir
    <3>1. Present(Entries) \subseteq Paths
      BY DirsAssumption DEF Present, Entries
    <3> QED
      BY <1>0, <2>5, <3>1 DEF ReadDir, filesVars, DiagTypeOK
  <2>6. CASE ReadDirEnds
    BY <1>0, <1>4, <2>6 DEF ReadDirEnds, DiagTypeOK
  <2>7. CASE StatEntry
    <3>1. CASE Found(entry)
      <4>1. test_img' \in Paths \cup {NoPath}
        BY <1>0, <3>1 DEF Found, DiagTypeOK
      <4> QED
        BY <1>0, <2>7, <3>1, <4>1 DEF StatEntry, Found, DiagTypeOK
    <3>2. CASE step' = "readdir" /\ UNCHANGED <<tried, dir, listed, entry,
                                                test_img, rounds, refused>>
      BY <1>0, <2>7, <3>2 DEF StatEntry, DiagTypeOK
    <3> QED
      BY <2>7, <3>1, <3>2 DEF StatEntry
  <2>8. CASE Measure
    BY <1>0, <2>8, RoundsAssumption DEF Measure, DiagTypeOK
  <2>9. CASE MeasureDone
    BY <1>0, <2>9 DEF MeasureDone, DiagTypeOK
  <2>10. CASE DiagDone
    BY <1>0, <1>2, <2>10 DEF DiagDone
  <2> QED
    BY <1>5, <2>1, <2>2, <2>3, <2>4, <2>5, <2>6, <2>7, <2>8, <2>9, <2>10
       DEF ShellStep, _find_test_file
<1>6. CASE Typed
  <2>1. CASE diag
    <3>1. touched' \in BOOLEAN
      BY <2>1 DEF diag
    <3> QED
      BY <1>2, <2>1, <3>1 DEF diag
  <2>2. CASE (\E p \in Args : hex(p)) /\ UNCHANGED diagVars
    <3>1. touched' \in BOOLEAN
      BY <2>2 DEF hex
    <3> QED
      BY <1>1, <2>2, <3>1 DEF hex
  <2>3. CASE /\ \/ \E t \in Threads, p \in Args : js(t, p)
                \/ \E n \in Requests : pma(n)
             /\ UNCHANGED diagVars
    BY <1>0, <1>1, <2>3 DEF js, pma, filesVars
  <2> QED
    BY <1>6, <2>1, <2>2, <2>3 DEF Typed
<1>7. CASE Others
  <2>1. DiagTypeOK'
    BY <1>1, <1>7 DEF Others
  <2>2. CASE \E p \in Paths, new \in Sizes \cup {NoFile} : Change(p, new)
    <3>1. shell' = shell /\ touched' \in BOOLEAN
      BY <2>2 DEF Change
    <3> QED
      BY <1>0, <2>1, <3>1
  <2>3. CASE ~\E p \in Paths, new \in Sizes \cup {NoFile} : Change(p, new)
    <3>1. UNCHANGED <<shell, touched>>
      BY <1>7, <2>3 DEF Others, app_run_thread_entry, read_file_to_buffer,
         OpenRead, ReadSize, AllocBuffer, ReadContent, AppFails, RunScript,
         AlreadyRunning, ScriptEnds, EosScript, eos_cache_buf_alloc,
         mem_mgr_calloc, SysAllocates, eos_cache_buf_free, mem_mgr_realloc,
         filesVars
    <3> QED
      BY <1>0, <2>1, <3>1
  <2> QED
    BY <2>2, <2>3
<1>8. CASE Restart
  <2>1. touched' \in BOOLEAN
    BY <1>8 DEF Restart
  <2> QED
    BY <1>2, <1>8, <2>1 DEF Restart
<1> QED
  BY <1>5, <1>6, <1>7, <1>8 DEF Next

\* Where a reader can be.
ReaderPlaces == {"idle", "called", "opened", "sized", "allocated",
            "ready", "failed", "running"}

ReaderTypeOK ==
    /\ at \in [Readers -> ReaderPlaces]
    /\ path \in [Readers -> Paths \cup {Nobody}]
    /\ fsize \in [Readers -> Sizes \cup {0}]
    /\ block \in [Readers -> Blocks \cup {NoBlock}]
    /\ engine \in Threads \cup {Nobody, "eos"}
    /\ reopened \in BOOLEAN
    /\ printed \in Sizes \cup {0}
    /\ heap \subseteq Blocks

\* The steps of hex, js and of those who allocate keep theirs.
LEMMA ReaderTypeStep == ASSUME TypeOK, Next PROVE ReaderTypeOK'
<1>0. ReaderTypeOK
  BY DEF TypeOK, ReaderTypeOK, ReaderPlaces
<1>00. Hex \in Readers /\ Threads \subseteq Readers
  BY DEF Readers
<1> USE DEF hexVars
<1>1. ASSUME UNCHANGED bufferVars PROVE ReaderTypeOK'
  BY <1>0, <1>1 DEF ReaderTypeOK, bufferVars, readerVars, heapVars
<1>2. ASSUME NEW a, mem_mgr_free(a) PROVE heap' \subseteq Blocks
  BY <1>0, <1>2 DEF mem_mgr_free, ReaderTypeOK
<1>3. ASSUME NEW n, NEW used, NEW b \in Places(n, used) PROVE b \in Blocks
  BY <1>3 DEF Places
<1>4. ASSUME NEW r \in Readers, NEW from, NEW to \in ReaderPlaces, Goes(r, from, to)
      PROVE  at' \in [Readers -> ReaderPlaces]
  BY <1>0, <1>4 DEF Goes, ReaderTypeOK
<1>5. ASSUME NEW r \in Readers, NEW from, Returns(r, from)
      PROVE  /\ at' \in [Readers -> ReaderPlaces]
             /\ path' \in [Readers -> Paths \cup {Nobody}]
             /\ fsize' \in [Readers -> Sizes \cup {0}]
             /\ block' \in [Readers -> Blocks \cup {NoBlock}]
  BY <1>0, <1>4, <1>5 DEF Returns, ReaderTypeOK, ReaderPlaces
<1>6. ASSUME NEW r \in Readers, NEW p \in Args, Call(r, p)
      PROVE  /\ at' \in [Readers -> ReaderPlaces]
             /\ path' \in [Readers -> Paths \cup {Nobody}]
  BY <1>0, <1>4, <1>6, ArgsAssumption DEF Call, ReaderTypeOK, ReaderPlaces
<1>7. ASSUME NEW r \in Readers, read_file_to_buffer(r) PROVE ReaderTypeOK'
  <2>1. CASE OpenRead(r)
    BY <1>0, <1>4, <2>1 DEF OpenRead, heapVars, ReaderTypeOK, ReaderPlaces
  <2>2. CASE ReadSize(r)
    <3>1. fsize' \in [Readers -> Sizes \cup {0}]
      BY <1>0, <2>2 DEF ReadSize, IsFile, ReaderTypeOK
    <3>2. at' \in [Readers -> ReaderPlaces]
      BY <1>4, <2>2 DEF ReadSize, ReaderPlaces
    <3> QED
      BY <1>0, <2>2, <3>1, <3>2 DEF ReadSize, heapVars, ReaderTypeOK
  <2>3. CASE AllocBuffer(r)
    <3>1. at' \in [Readers -> ReaderPlaces]
      BY <1>4, <2>3 DEF AllocBuffer, ReaderPlaces
    <3>2. heap' \subseteq Blocks /\ block' \in [Readers -> Blocks \cup {NoBlock}]
      BY <1>0, <1>3, <2>3 DEF AllocBuffer, mem_mgr_alloc, ReaderTypeOK
    <3> QED
      BY <1>0, <2>3, <3>1, <3>2 DEF AllocBuffer, ReaderTypeOK
  <2>4. CASE ReadContent(r)
    <3>1. at' \in [Readers -> ReaderPlaces]
      BY <1>4, <2>4 DEF ReadContent, ReaderPlaces
    <3>2. heap' \subseteq Blocks
      BY <1>0, <1>2, <2>4 DEF ReadContent, ReaderTypeOK
    <3> QED
      BY <1>0, <2>4, <3>1, <3>2 DEF ReadContent, ReaderTypeOK
  <2> QED
    BY <1>7, <2>1, <2>2, <2>3, <2>4 DEF read_file_to_buffer
<1>8. CASE ShellStep
  <2>1. CASE HexFails
    BY <1>0, <1>00, <1>5, <2>1 DEF HexFails, heapVars, ReaderTypeOK
  <2>2. CASE HexAgain
    BY <1>0, <2>2 DEF HexAgain, HexOpenAgain, HexSizeAgain, HexCloseAgain,
         CanOpen, IsFile, heapVars, readerVars, ReaderTypeOK
  <2>3. CASE HexDone
    <3>1. heap' \subseteq Blocks
      BY <1>2, <2>3 DEF HexDone
    <3> QED
      BY <1>0, <1>00, <1>5, <2>3, <3>1 DEF HexDone, ReaderTypeOK
  <2> QED
    BY <1>00, <1>1, <1>7, <1>8, <2>1, <2>2, <2>3 DEF ShellStep
<1>9. CASE Typed
  <2>1. ASSUME NEW p \in Args, hex(p) PROVE ReaderTypeOK'
    BY <1>0, <1>00, <1>6, <2>1 DEF hex, heapVars, ReaderTypeOK
  <2>2. ASSUME NEW t \in Threads, NEW p \in Args, js(t, p) PROVE ReaderTypeOK'
    BY <1>0, <1>00, <1>6, <2>2 DEF js, heapVars, ReaderTypeOK
  <2>3. ASSUME NEW n \in Requests, pma(n) PROVE ReaderTypeOK'
    <3>1. heap' \subseteq Blocks
      BY <1>0, <1>3, <2>3 DEF pma, mem_mgr_alloc, ReaderTypeOK
    <3> QED
      BY <1>0, <2>3, <3>1 DEF pma, readerVars, ReaderTypeOK
  <2> QED
    BY <1>1, <1>9, <2>1, <2>2, <2>3 DEF Typed
<1>10. CASE Others
  <2>1. ASSUME NEW t \in Threads, app_run_thread_entry(t) PROVE ReaderTypeOK'
    <3>1. CASE read_file_to_buffer(t)
      BY <1>00, <1>7, <3>1
    <3>2. CASE AppFails(t)
      BY <1>0, <1>00, <1>5, <3>2 DEF AppFails, heapVars, ReaderTypeOK
    <3>3. CASE RunScript(t)
      <4>1. at' \in [Readers -> ReaderPlaces]
        BY <1>00, <1>4, <3>3 DEF RunScript, ReaderPlaces
      <4> QED
        BY <1>0, <3>3, <4>1 DEF RunScript, heapVars, ReaderTypeOK
    <3>4. CASE AlreadyRunning(t)
      BY <1>0, <1>00, <1>5, <3>4 DEF AlreadyRunning, ReaderTypeOK
    <3>5. CASE ScriptEnds(t)
      BY <1>0, <1>00, <1>5, <3>5 DEF ScriptEnds, ReaderTypeOK
    <3> QED
      BY <2>1, <3>1, <3>2, <3>3, <3>4, <3>5 DEF app_run_thread_entry
  <2>2. CASE EosScript
    BY <1>0, <2>2 DEF EosScript, heapVars, readerVars, ReaderTypeOK
  <2>3. ASSUME NEW n, SysAllocates(n) PROVE ReaderTypeOK'
    <3>1. heap' \subseteq Blocks
      BY <1>0, <1>3, <2>3 DEF SysAllocates, mem_mgr_alloc, ReaderTypeOK
    <3> QED
      BY <1>0, <2>3, <3>1 DEF SysAllocates, readerVars, ReaderTypeOK
  <2>4. ASSUME NEW b \in sys, eos_cache_buf_free(b) PROVE ReaderTypeOK'
    <3>1. heap' \subseteq Blocks
      BY <1>2, <2>4 DEF eos_cache_buf_free
    <3> QED
      BY <1>0, <2>4, <3>1 DEF eos_cache_buf_free, readerVars, ReaderTypeOK
  <2>5. ASSUME NEW b \in sys, NEW n \in Requests, mem_mgr_realloc(b, n)
        PROVE  ReaderTypeOK'
    <3>1. heap' \subseteq Blocks
      BY <1>0, <1>3, <2>5 DEF mem_mgr_realloc, ReaderTypeOK
    <3> QED
      BY <1>0, <2>5, <3>1 DEF mem_mgr_realloc, readerVars, ReaderTypeOK
  <2> QED
    BY <1>1, <1>10, <2>1, <2>2, <2>3, <2>4, <2>5
       DEF Others, eos_cache_buf_alloc, mem_mgr_calloc
<1>11. CASE Restart
  BY <1>11 DEF Restart, ReaderTypeOK, ReaderPlaces
<1> QED
  BY <1>8, <1>9, <1>10, <1>11 DEF Next

\* The volume and the halt.
LEMMA FilesTypeStep ==
    ASSUME TypeOK, Next
    PROVE  /\ files' \in [Paths -> Sizes \cup {NoFile, IsDir}]
           /\ halted' \in BOOLEAN
<1>0. files \in [Paths -> Sizes \cup {NoFile, IsDir}] /\ halted \in BOOLEAN
  BY DEF TypeOK, FilesTypeOK
<1>1. ASSUME NEW a, mem_mgr_free(a) PROVE halted' \in BOOLEAN
  BY <1>0, <1>1 DEF mem_mgr_free
<1>2. ASSUME UNCHANGED <<files, halted>>
      PROVE  /\ files' \in [Paths -> Sizes \cup {NoFile, IsDir}]
             /\ halted' \in BOOLEAN
  BY <1>0, <1>2
<1>3. ASSUME NEW r, read_file_to_buffer(r)
      PROVE  files' = files /\ halted' \in BOOLEAN
  BY <1>0, <1>1, <1>3 DEF read_file_to_buffer, OpenRead, ReadSize,
                          AllocBuffer, ReadContent
<1>4. CASE ShellStep
  <2>1. CASE HexDone
    BY <1>0, <1>1, <2>1 DEF HexDone
  <2>2. CASE \/ HexFails \/ HexAgain \/ _find_test_file
             \/ Measure \/ MeasureDone \/ DiagDone
    BY <1>2, <2>2 DEF HexFails, HexAgain, HexOpenAgain, HexSizeAgain,
       HexCloseAgain, _find_test_file, StatCandidate,
       CandidatesDone, OpenDir, ReadDir, ReadDirEnds, StatEntry, Measure,
       MeasureDone, DiagDone, filesVars
  <2> QED
    BY <1>0, <1>3, <1>4, <2>1, <2>2 DEF ShellStep
<1>5. CASE Typed
  BY <1>2, <1>5 DEF Typed, diag, hex, js, pma, filesVars
<1>6. CASE Others
  <2>1. ASSUME NEW t, app_run_thread_entry(t)
        PROVE  files' = files /\ halted' \in BOOLEAN
    BY <1>0, <1>3, <2>1 DEF app_run_thread_entry, AppFails, RunScript,
                            AlreadyRunning, ScriptEnds, filesVars
  <2>2. ASSUME NEW b \in sys, eos_cache_buf_free(b)
        PROVE  files' = files /\ halted' \in BOOLEAN
    BY <1>1, <2>2 DEF eos_cache_buf_free
  <2>3. CASE \/ EosScript
             \/ \E n \in Requests : eos_cache_buf_alloc(n)
             \/ \E b \in sys, n \in Requests : mem_mgr_realloc(b, n)
    BY <1>2, <2>3 DEF EosScript, eos_cache_buf_alloc, SysAllocates,
       mem_mgr_realloc, filesVars
  <2>5. ASSUME NEW n, NEW m, mem_mgr_calloc(n, m)
        PROVE  files' = files /\ halted' \in BOOLEAN
    BY <2>5 DEF mem_mgr_calloc, SysAllocates
  <2>4. ASSUME NEW p \in Paths, NEW new \in Sizes \cup {NoFile}, Change(p, new)
        PROVE  /\ files' \in [Paths -> Sizes \cup {NoFile, IsDir}]
               /\ halted' = halted
    BY <1>0, <2>4 DEF Change
  <2> QED
    BY <1>0, <1>6, <2>1, <2>2, <2>3, <2>4, <2>5 DEF Others
<1>7. CASE Restart
  <2>1. halted' \in BOOLEAN
    BY <1>7 DEF Restart
  <2> QED
    BY <1>0, <1>7, <2>1 DEF Restart
<1> QED
  BY <1>4, <1>5, <1>6, <1>7 DEF Next
-----------------------------------------------------------------------------
(***************************************************************************)
(* The search of diag.                                                     *)
(***************************************************************************)
NoneIn(set) == \A p \in set : ~IsFile(p)

TriedNames == {Candidates[i] : i \in 1..tried}
Names      == {Candidates[i] : i \in 1..Len(Candidates)}

\* What diag has looked at so far is no file, as long as none has changed.
Searched ==
    /\ step = "stat" => NoneIn(TriedNames)
    /\ step \in {"opendir", "readdir", "statentry"} =>
          /\ NoneIn(Names)
          /\ dir = "sys" => refused \/ NoneIn(ImgDir)
    /\ step = "readdir" => NoneIn(listed)
    /\ step = "statentry" => NoneIn(listed \ {entry})

SearchInv ==
    /\ step \in {"stat", "opendir", "readdir", "statentry"} =>
          test_img = NoPath
    /\ step = "stat" => dir = "img"
    /\ step \in {"stat", "opendir"} => listed = {}
    /\ step = "statentry" => entry \in Paths
    /\ ~touched => Searched
    /\ SearchIsComplete

\* The steps of the search itself.
LEMMA SearchStep ==
    ASSUME TypeOK, SearchInv, _find_test_file PROVE SearchInv'
<1>0. /\ DiagTypeOK /\ UNCHANGED <<files, touched>>
      /\ dir \in {"img", "sys"} /\ NoPath \notin Paths
      /\ ImgDir \subseteq Paths /\ SysDir \subseteq Paths
      /\ \A p \in Paths : files[p] = NoFile => ~IsFile(p)
  <2>1. UNCHANGED <<files, touched>>
    BY DEF _find_test_file, StatCandidate, CandidatesDone, OpenDir, ReadDir,
           ReadDirEnds, StatEntry, filesVars
  <2>2. DiagTypeOK /\ dir \in {"img", "sys"}
    BY DEF TypeOK, DiagTypeOK
  <2>3. \A p \in Paths : files[p] = NoFile => ~IsFile(p)
    BY KindAssumption, SizesAssumption DEF IsFile
  <2> QED
    BY <2>1, <2>2, <2>3, NoPathAssumption, DirsAssumption
<1>1. \A set : NoneIn(set)' <=> NoneIn(set)
  BY <1>0 DEF NoneIn, IsFile
<1>2. ASSUME NEW p \in Paths, IsFile(p), Found(p) PROVE SearchInv'
  <2>1. step' = "searched" /\ test_img' = p /\ IsFile(p)'
    BY <1>0, <1>2 DEF Found, IsFile
  <2> QED
    BY <1>0, <1>2, <2>1 DEF SearchInv, Searched, SearchIsComplete
\* One of the two directories holds no file, or could not be opened.
<1>3. ASSUME NextDir, step \in {"opendir", "readdir"},
             ~touched => /\ NoneIn(Names) /\ (refused => refused')
                         /\ refused' \/ NoneIn(Entries)
      PROVE  SearchInv'
  <2>0. test_img = NoPath /\ test_img' = NoPath
    BY <1>3 DEF SearchInv, NextDir
  <2>1. CASE dir = "img"
    <3>1. /\ step' = "opendir" /\ dir' = "sys" /\ listed' = {}
          /\ Entries = ImgDir
      BY <1>3, <2>1 DEF NextDir, Entries
    <3>2. ~touched => NoneIn(Names)' /\ (refused' \/ NoneIn(ImgDir)')
      BY <1>1, <1>3, <3>1
    <3> QED
      BY <1>0, <2>0, <3>1, <3>2
         DEF SearchInv, Searched, SearchIsComplete, Names
  <2>2. CASE dir = "sys"
    <3>1. step' = "searched" /\ Entries = SysDir
      BY <1>3, <2>2 DEF NextDir, Entries
    <3>2. ~touched => refused \/ NoneIn(ImgDir)
      BY <1>3, <2>2 DEF SearchInv, Searched
    <3>3. ~touched => \/ refused'
                      \/ NoneIn(Names)' /\ NoneIn(ImgDir)' /\ NoneIn(SysDir)'
      BY <1>1, <1>3, <3>1, <3>2
    <3>4. SearchIsComplete'
      BY <1>0, <2>0, <3>3 DEF SearchIsComplete, Names, NoneIn
    <3> QED
      BY <3>1, <3>4 DEF SearchInv, Searched
  <2> QED
    BY <1>0, <2>1, <2>2
<1>4. CASE StatCandidate
  <2>1. /\ step = "stat" /\ tried \in Nat /\ tried < Len(Candidates)
        /\ Candidates[tried + 1] \in Paths
    BY <1>0, <1>4, CandidatesAssumption DEF StatCandidate, DiagTypeOK
  <2>2. CASE Found(Candidates[tried + 1]) /\ IsFile(Candidates[tried + 1])
    BY <1>2, <2>1, <2>2
  <2>3. CASE /\ ~IsFile(Candidates[tried + 1]) /\ tried' = tried + 1
             /\ UNCHANGED <<step, dir, listed, entry, test_img, rounds,
                            refused>>
    <3>1. TriedNames' = TriedNames \cup {Candidates[tried + 1]}
      BY <2>1, <2>3 DEF TriedNames
    <3>2. ~touched => NoneIn(TriedNames)'
      BY <1>0, <2>1, <2>3, <3>1 DEF SearchInv, Searched, NoneIn, IsFile
    <3> QED
      BY <1>0, <2>1, <2>3, <3>2 DEF SearchInv, Searched, SearchIsComplete
  <2> QED
    BY <1>4, <2>2, <2>3 DEF StatCandidate
<1>5. CASE CandidatesDone
  <2>1. TriedNames = Names /\ step = "stat" /\ step' = "opendir"
    BY <1>5 DEF CandidatesDone, TriedNames, Names
  <2>2. ~touched => NoneIn(Names)'
    BY <1>1, <2>1 DEF SearchInv, Searched
  <2>3. test_img' = NoPath
    BY <1>5 DEF CandidatesDone, SearchInv
  <2>4. dir' = "img" /\ listed' = {}
    BY <1>5 DEF CandidatesDone, SearchInv
  <2> QED
    BY <1>0, <2>1, <2>2, <2>3, <2>4
       DEF SearchInv, Searched, SearchIsComplete, Names
<1>6. CASE OpenDir
  <2>0. step = "opendir" /\ (~touched => NoneIn(Names))
    BY <1>6 DEF OpenDir, SearchInv, Searched
  <2>1. CASE NextDir /\ refused' = TRUE
    <3>1. refused'
      BY <2>1
    <3> QED
      BY <1>3, <2>0, <2>1, <3>1
  <2>2. CASE step' = "readdir" /\ UNCHANGED <<tried, dir, listed, entry,
                                              test_img, rounds, refused>>
    <3>1. listed = {} /\ test_img = NoPath
      BY <2>0 DEF SearchInv
    <3>2. ~touched' => Searched'
      BY <1>0, <1>1, <2>0, <2>2, <3>1 DEF SearchInv, Searched, NoneIn, Names
    <3> QED
      BY <1>0, <2>2, <3>1, <3>2 DEF SearchInv, SearchIsComplete
  <2> QED
    BY <1>6, <2>1, <2>2 DEF OpenDir
<1>7. CASE ReadDir
  <2>1. PICK p \in Present(Entries) \ listed :
               /\ listed' = listed \cup {p}
               /\ entry' = p /\ step' = "statentry"
    BY <1>7 DEF ReadDir
  <2>2. /\ p \in Paths /\ step = "readdir" /\ p \notin listed
        /\ UNCHANGED <<tried, dir, test_img, rounds, refused>>
    BY <1>0, <1>7 DEF ReadDir, Present, Entries
  <2>3. listed' \ {entry'} = listed
    BY <2>1, <2>2
  <2>4. ~touched => /\ \A q \in listed' \ {entry'} : ~IsFile(q)'
                    /\ NoneIn(Names)
                    /\ dir = "sys" => refused \/ NoneIn(ImgDir)
    BY <1>0, <2>2, <2>3 DEF SearchInv, Searched, NoneIn, IsFile
  <2>5. ~touched' => Searched'
    BY <1>0, <1>1, <2>1, <2>2, <2>4 DEF Searched, NoneIn, Names
  <2> QED
    BY <1>0, <2>1, <2>2, <2>5 DEF SearchInv, SearchIsComplete
<1>8. CASE ReadDirEnds
  <2>1. step = "readdir" /\ UNCHANGED refused /\ NextDir
    BY <1>8 DEF ReadDirEnds
  <2>2. Entries \subseteq Paths /\ Present(Entries) \subseteq listed
    BY <1>0, <1>8 DEF ReadDirEnds, Entries
  <2>3. ~touched => NoneIn(Names) /\ NoneIn(Entries)
    BY <1>0, <2>1, <2>2 DEF SearchInv, Searched, Present, NoneIn
  <2> QED
    BY <1>3, <2>1, <2>3
<1>9. CASE StatEntry
  <2>1. step = "statentry" /\ entry \in Paths
    BY <1>9 DEF StatEntry, SearchInv
  <2>2. CASE IsFile(entry) /\ Found(entry)
    BY <1>2, <2>1, <2>2
  <2>3. CASE /\ ~IsFile(entry) /\ step' = "readdir"
             /\ UNCHANGED <<tried, dir, listed, entry, test_img, rounds,
                            refused>>
    <3>1. ~touched => NoneIn(listed)
      BY <2>1, <2>3 DEF SearchInv, Searched, NoneIn
    <3>2. ~touched => NoneIn(listed)' /\ NoneIn(Names)' /\
                      (dir = "sys" => refused \/ NoneIn(ImgDir)')
      BY <1>1, <2>1, <2>3, <3>1 DEF SearchInv, Searched, Names
    <3> QED
      BY <1>0, <2>1, <2>3, <3>2 DEF SearchInv, Searched, SearchIsComplete
  <2> QED
    BY <1>9, <2>2, <2>3 DEF StatEntry
<1> QED
  BY <1>4, <1>5, <1>6, <1>7, <1>8, <1>9 DEF _find_test_file

\* Every other step: the search is over, has not begun, or is not affected.
LEMMA SearchKept ==
    ASSUME TypeOK, ShellInv, SearchInv, Next PROVE SearchInv'
<1> DEFINE Searching == {"stat", "opendir", "readdir", "statentry", "searched"}
<1>1. ASSUME step' \notin Searching PROVE SearchInv'
  BY <1>1 DEF SearchInv, Searched, SearchIsComplete
<1>2. ASSUME UNCHANGED diagVars, step = "off" PROVE SearchInv'
  BY <1>1, <1>2 DEF diagVars
<1>3. step # "off" => shell = "diag" /\ at[Hex] = "idle"
  BY DEF ShellInv
<1>4. CASE ShellStep
  <2>1. CASE read_file_to_buffer(Hex) /\ UNCHANGED diagVars
    BY <1>2, <1>3, <2>1 DEF read_file_to_buffer, OpenRead, ReadSize,
                            AllocBuffer, ReadContent, Goes
  <2>2. CASE (HexFails \/ HexAgain \/ HexDone) /\ UNCHANGED diagVars
    BY <1>2, <1>3, <2>2 DEF HexFails, HexDone, ShellInv,
         HexAgain, HexOpenAgain, HexSizeAgain, HexCloseAgain
  <2>3. CASE _find_test_file
    BY <2>3, SearchStep
  <2>4. CASE Measure \/ MeasureDone \/ DiagDone
    BY <1>1, <2>4 DEF Measure, MeasureDone, DiagDone
  <2> QED
    BY <1>4, <2>1, <2>2, <2>3, <2>4 DEF ShellStep
<1>5. CASE Typed
  <2>1. step = "off"
    BY <1>3, <1>5 DEF Typed, diag, hex, js, pma
  <2>2. CASE diag
    <3>1. /\ step' = "stat" /\ test_img' = NoPath /\ dir' = "img"
          /\ listed' = {} /\ tried' = 0
      BY <2>2 DEF diag, Reset
    <3>2. TriedNames' = {}
      BY <3>1 DEF TriedNames
    <3> QED
      BY <3>1, <3>2 DEF SearchInv, Searched, SearchIsComplete, NoneIn
  <2>3. CASE UNCHANGED diagVars
    BY <1>2, <2>1, <2>3
  <2> QED
    BY <1>5, <2>2, <2>3 DEF Typed
<1>6. CASE Others
  <2>0. UNCHANGED diagVars
    BY <1>6 DEF Others
  <2>1. ASSUME NEW p \in Paths, NEW new \in Sizes \cup {NoFile}, Change(p, new)
        PROVE  SearchInv'
    <3>1. CASE step = "off"
      BY <1>2, <2>0, <3>1
    <3>2. CASE step # "off"
      <4>1. touched'
        BY <1>3, <2>1, <3>2 DEF Change
      <4> QED
        BY <2>0, <4>1 DEF SearchInv, SearchIsComplete, diagVars
    <3> QED
      BY <3>1, <3>2
  <2>2. CASE UNCHANGED <<files, touched>>
    <3>1. \A set : NoneIn(set)' <=> NoneIn(set)
      BY <2>2 DEF NoneIn, IsFile
    <3>2. Searched' <=> Searched
      BY <2>0, <3>1 DEF Searched, diagVars, TriedNames, Names
    <3>3. SearchIsComplete' <=> SearchIsComplete
      BY <2>0, <2>2 DEF SearchIsComplete, diagVars, IsFile
    <3> QED
      BY <2>0, <2>2, <3>2, <3>3 DEF SearchInv, diagVars
  <2>3. CASE ~\E p \in Paths, new \in Sizes \cup {NoFile} : Change(p, new)
    <3>1. UNCHANGED <<files, touched>>
      BY <1>6, <2>3 DEF Others, app_run_thread_entry, read_file_to_buffer,
         OpenRead, ReadSize, AllocBuffer, ReadContent, AppFails, RunScript,
         AlreadyRunning, ScriptEnds, EosScript, eos_cache_buf_alloc,
         mem_mgr_calloc, SysAllocates, eos_cache_buf_free, mem_mgr_realloc,
         filesVars
    <3> QED
      BY <2>2, <3>1
  <2> QED
    BY <2>1, <2>3
<1>7. CASE Restart
  BY <1>1, <1>7 DEF Restart
<1> QED
  BY <1>4, <1>5, <1>6, <1>7 DEF Next

-----------------------------------------------------------------------------
(***************************************************************************)
(* The inductive invariant, and what it implies.                           *)
(***************************************************************************)
Inv == TypeOK /\ BuffersInv /\ FdsBalanced /\ SearchInv

LEMMA InitHolds == Init => Inv
<1> SUFFICES ASSUME Init PROVE Inv
  OBVIOUS
<1>0. /\ shell = "prompt" /\ touched = FALSE /\ fds = 0 /\ halted = FALSE
      /\ at = [r \in Readers |-> "idle"] /\ heap = {} /\ sys = {} /\ lost = {}
      /\ step = "off" /\ Hex \in Readers /\ reopened = FALSE
  BY DEF Init, FilesInit, BufferInit, DiagInit, Readers
<1>1. \A r \in Readers : ~Holds(r) /\ ~HasOpen(r)
  BY <1>0 DEF Holds, HasOpen
<1>2. TypeOK
  <2>1. FilesTypeOK
    <3>1. touched \in BOOLEAN
      BY <1>0
    <3>2. halted \in BOOLEAN
      BY <1>0
    <3>3. fds \in 0..FdMax
      BY <1>0, FdAssumption
    <3> QED
      BY <3>1, <3>2, <3>3 DEF Init, FilesInit, FilesTypeOK
  <2>2. 0 \in 0..Len(Candidates) /\ 0 \in 0..Rounds
    BY CandidatesAssumption, RoundsAssumption
  <2>3. DiagTypeOK
    <3>1. refused \in BOOLEAN
      BY DEF Init, DiagInit
    <3> QED
      BY <2>2, <3>1 DEF Init, DiagInit, DiagTypeOK
  <2>4. /\ path \in [Readers -> Paths \cup {Nobody}]
        /\ fsize \in [Readers -> Sizes \cup {0}]
        /\ block \in [Readers -> Blocks \cup {NoBlock}]
        /\ engine \in Threads \cup {Nobody, "eos"}
        /\ reopened \in BOOLEAN /\ printed \in Sizes \cup {0}
    BY DEF Init, BufferInit
  <2> QED
    BY <1>0, <2>1, <2>3, <2>4 DEF TypeOK
<1>3. Held = {} /\ OpenReaders = {}
  BY <1>1 DEF Held, OpenReaders
<1>4. FdsBalanced
  BY <1>0, <1>3, FS_EmptySet DEF FdsBalanced, DirOpen, HexOpen
<1>5. BuffersInv
  <2>1. Apart /\ Owned /\ HeapAccounted
    BY <1>0, <1>1, <1>3 DEF Apart, Owned, HeapAccounted
  <2>2. ShellInv
    BY <1>0 DEF ShellInv
  <2> QED
    BY <2>1, <2>2 DEF BuffersInv
<1>6. SearchInv
  BY <1>0 DEF SearchInv, Searched, SearchIsComplete
<1> QED
  BY <1>2, <1>4, <1>5, <1>6 DEF Inv

LEMMA NextKeepsInv == Inv /\ Next => Inv'
<1> SUFFICES ASSUME Inv, Next PROVE Inv'
  OBVIOUS
<1>0. TypeOK /\ BuffersInv /\ FdsBalanced /\ ShellInv /\ SearchInv
  BY DEF Inv, BuffersInv
<1>1. BuffersInv'
  BY <1>0, BuffersStep
<1>2. FdsBalanced' /\ fds' \in 0..FdMax
  BY <1>0, FdsStep
<1>3. ReaderTypeOK'
  BY <1>0, ReaderTypeStep
<1>4. sys' \subseteq heap' /\ lost' \subseteq heap'
  BY <1>1 DEF BuffersInv, HeapAccounted
<1>5. FilesTypeOK'
  <2>1. touched' \in BOOLEAN
    BY <1>0, DiagTypeStep
  <2>2. halted' \in BOOLEAN
    BY <1>0, FilesTypeStep
  <2>3. files' \in [Paths -> Sizes \cup {NoFile, IsDir}]
    BY <1>0, FilesTypeStep
  <2> QED
    BY <1>2, <2>1, <2>2, <2>3 DEF FilesTypeOK
<1>6. DiagTypeOK' /\ shell' \in ShellPlaces
  BY <1>0, DiagTypeStep
<1>7. TypeOK'
  BY <1>3, <1>4, <1>5, <1>6 DEF TypeOK, ReaderTypeOK, ReaderPlaces, ShellPlaces
<1>8. SearchInv'
  BY <1>0, SearchKept
<1> QED
  BY <1>1, <1>2, <1>7, <1>8 DEF Inv

LEMMA InvHolds == Spec => []Inv
<1>1. Inv /\ UNCHANGED vars => Inv'
  <2> SUFFICES ASSUME Inv, UNCHANGED vars PROVE Inv'
    OBVIOUS
  <2>1. TypeOK'
    BY DEF Inv, TypeOK, FilesTypeOK, DiagTypeOK, vars, filesVars, bufferVars,
           heapVars, readerVars, hexVars, diagVars
  <2>2. BuffersInv'
    BY DEF Inv, BuffersInv, Apart, Owned, HeapAccounted, ShellInv, Held, Holds,
           vars, filesVars, bufferVars, heapVars, readerVars, hexVars,
           diagVars
  <2>3. FdsBalanced'
    BY DEF Inv, FdsBalanced, OpenReaders, HasOpen, DirOpen, HexOpen,
           vars, filesVars, bufferVars, heapVars, readerVars, hexVars,
           diagVars
  <2>4. SearchInv'
    BY DEF Inv, SearchInv, Searched, SearchIsComplete, NoneIn, TriedNames,
           Names, IsFile, vars, filesVars, diagVars
  <2> QED
    BY <2>1, <2>2, <2>3, <2>4 DEF Inv
<1> QED
  BY <1>1, InitHolds, NextKeepsInv, PTL DEF Spec

LEMMA InvGivesInside == Inv => BufferInside
<1> SUFFICES ASSUME Inv, NEW r \in Readers, HasBuffer(r)
             PROVE  /\ block[r] \in heap \ (sys \cup lost)
                    /\ \A q \in Readers :
                          Holds(q) /\ q # r => block[q] # block[r]
                    /\ block[r].base <= Data(r)
                    /\ Data(r) + fsize[r] <= block[r].base + block[r].size
  BY DEF BufferInside
<1>0. TypeOK /\ Owned /\ HeapAccounted
  BY DEF Inv, BuffersInv
<1>1. Holds(r)
  BY DEF Holds, HasBuffer
<1>2. /\ block[r].base <= Data(r)
      /\ Data(r) + fsize[r] <= block[r].base + block[r].size
  BY <1>0, <1>1, DataInside
<1> QED
  BY <1>0, <1>1, <1>2 DEF Owned, HeapAccounted

\* Every variable keeps its type: never more than FdMax descriptors are open
\* nor fewer than none, what ElenixOS frees or resizes is a block of the heap,
\* and no thread is anywhere but in its program.
THEOREM TypeCorrect == Spec => []TypeOK
BY InvHolds, PTL DEF Inv

\* The text a command works on lies within its own block, whatever the file,
\* the alignment and the state of the heap.
THEOREM BufferCorrect == Spec => []BufferInside
BY InvHolds, InvGivesInside, PTL

\* Every block in use is held by somebody, or is one of those that pma, a
\* script or an unaligned hex leaves behind.
THEOREM HeapCorrect == Spec => []HeapAccounted
BY InvHolds, PTL DEF Inv, BuffersInv

\* No descriptor is left open, the second one of hex included: see
\* FdsBalanced.
THEOREM FdsCorrect == Spec => []FdsBalanced
BY InvHolds, PTL DEF Inv

\* diag finds a file where there is one, unless the volume changes meanwhile
\* or a directory cannot be opened.
THEOREM SearchCorrect == Spec => []SearchIsComplete
BY InvHolds, PTL DEF Inv, SearchInv
=============================================================================

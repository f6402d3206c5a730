---------------------------- MODULE StorageProofs ----------------------------
(***************************************************************************)
(* For regions of any place and size, with or without a data region, and   *)
(* power failures at any point: only what an erase or a format has left    *)
(* half done can be mounted without being as it was written, and files are *)
(* lost only where the operator, a failing call or such remains took them. *)
(***************************************************************************)
EXTENDS Storage, TLAPS

USE VolumeAssumption, RegionAssumption

\* The four arguments of a command speak of one volume.
LEMMA ArgsFor ==
    ASSUME cmd \in Commands
    PROVE  /\ VolumeOf(cmd) \in Volumes
           /\ Args.fs_start = Start[VolumeOf(cmd)]
           /\ Args.num_blks = NumBlocks[VolumeOf(cmd)]
           /\ Target = VolumeOf(cmd)
BY DEF Commands, Volumes, VolumeOf, Args, Target, Device, nand_erase_fs,
       nand_erase_data

LEMMA ArgsForNext ==
    ASSUME cmd' \in Commands
    PROVE  /\ VolumeOf(cmd') \in Volumes
           /\ Args'.num_blks = NumBlocks[VolumeOf(cmd')]
           /\ \A v \in Volumes :
                 MountPoint(v) = Args'.mount_point <=> v = VolumeOf(cmd')
BY DEF Commands, Volumes, VolumeOf, Args, MountPoint, nand_erase_fs,
       nand_erase_data

\* The blocks of the loop are those of the region.
LEMMA RegionOf ==
    ASSUME NEW v \in Volumes
    PROVE  /\ NumBlocks[v] \in Nat \ {0}
           /\ \A i \in 0..(NumBlocks[v] - 1) : Start[v] + i \in Region(v)
           /\ \A a \in Region(v) : \E i \in 0..(NumBlocks[v] - 1) :
                 a = Start[v] + i
           /\ Region(v) \subseteq Flash
<1>1. Start[v] \in Nat /\ NumBlocks[v] \in Nat \ {0}
  OBVIOUS
<1>2. ASSUME NEW a \in Region(v)
      PROVE  \E i \in 0..(NumBlocks[v] - 1) : a = Start[v] + i
  <2>1. a - Start[v] \in 0..(NumBlocks[v] - 1) /\ a = Start[v] + (a - Start[v])
    BY <1>1, <1>2 DEF Region
  <2> QED
    BY <2>1
<1> QED
  BY <1>1, <1>2 DEF Region, Flash

\* A change of the blocks of one region is none to the other.
LEMMA OthersAsBefore ==
    ASSUME NEW v \in Volumes, used \subseteq Flash,
           used' \ Region(v) = used \ Region(v)
    PROVE  /\ used' \subseteq Flash
           /\ \A u \in Volumes \ {v} : /\ Blank(u)' <=> Blank(u)
                                       /\ \A a \in Region(u) :
                                             a \in used' <=> a \in used
<1>1. \A u \in Volumes \ {v} : \A a \in Region(u) : a \in used' <=> a \in used
  OBVIOUS
<1>2. \A u \in Volumes \ {v} : Blank(u)' <=> Blank(u)
  BY <1>1 DEF Blank
<1>3. used' \subseteq Flash
  BY RegionOf
<1> QED
  BY <1>1, <1>2, <1>3

LEMMA RewrittenOnly ==
    ASSUME NEW v \in Volumes, Rewritten(v)
    PROVE  used' \ Region(v) = used \ Region(v)
BY DEF Rewritten

LEMMA EraseOnly ==
    ASSUME NEW v \in Volumes, NEW a \in Region(v), Erase(a)
    PROVE  /\ used' \ Region(v) = used \ Region(v)
           /\ a \notin used' /\ used' \subseteq used
           /\ \E lost \in SUBSET {v} :
                 whole' = whole \ lost /\ files' = files \ lost
<1>1. \A u \in Volumes : a \in Region(u) => u = v
  OBVIOUS
<1> QED
  BY <1>1 DEF Erase

\* sifli_storage_init goes on to a volume that exists, or ends.
LEMMA ProceedType ==
    ASSUME TypeOK, NEW ok \in BOOLEAN, Proceed(ok)
    PROVE  stage' \in {"find", "up", "stuck"} /\ vol' \in Volumes
BY DEF TypeOK, Proceed, Volumes

\* What dfs_mkfs does to a volume, whether it ends or not, is in range.
LEMMA MkfsType ==
    ASSUME TypeOK, NEW v \in Volumes, MkfsOk(v) \/ MkfsFails(v)
    PROVE  used' \subseteq Flash /\ whole' \subseteq Volumes
           /\ files' \subseteq Volumes /\ remains' \subseteq Volumes
<1>1. CASE Rewritten(v)
  BY <1>1, RewrittenOnly, OthersAsBefore DEF TypeOK, MkfsOk, MkfsFails, diskVars
<1>2. CASE ~Rewritten(v)
  BY <1>2 DEF TypeOK, MkfsOk, MkfsFails, diskVars
<1> QED
  BY <1>1, <1>2

\* No step of the initialisation, of the erase command or of a restart takes
\* a variable out of its type: the erase loop stays inside its region.
LEMMA TypeStep == TypeOK /\ [Next]_vars => TypeOK'
<1> SUFFICES ASSUME TypeOK, [Next]_vars PROVE TypeOK'
  OBVIOUS
<1> USE DEF initVars, eraseVars, diskVars
<1>0. "filesystem" \in Volumes /\ "nand_erase_fs" \in Commands
  BY DEF Volumes, Commands
<1>c. cmd \in Commands /\ Args.num_blks \in Nat
  BY ArgsFor, RegionOf DEF TypeOK
<1>a. UNCHANGED cmd => Args' = Args
  BY DEF Args
<1>1. CASE FindDevice
  BY <1>1, <1>a, ProceedType DEF FindDevice, Fault, TypeOK, InitStages
<1>2. CASE Mount
  BY <1>2, <1>a, ProceedType DEF Mount, MountOk, TypeOK, InitStages
<1>3. CASE Format
  <2>1. vol \in Volumes /\ (MkfsOk(vol) \/ MkfsFails(vol))
    BY <1>3 DEF Format, TypeOK
  <2>2. stage' \in InitStages \cup {"up", "stuck"} /\ vol' \in Volumes
        /\ faults' \subseteq Volumes
    BY <1>3, ProceedType DEF Format, Fault, TypeOK, InitStages
  <2> QED
    BY <1>3, <1>a, <2>1, <2>2, MkfsType DEF Format, TypeOK
<1>4. CASE Remount
  BY <1>4, <1>a, ProceedType DEF Remount, MountOk, Fault, TypeOK, InitStages
<1>5. ASSUME NEW c \in Commands, Unmount(c) PROVE TypeOK'
  <2>1. cmd' \in Commands
    BY <1>5 DEF Unmount
  <2>2. MountedAt(Args'.mount_point) \subseteq Volumes
    BY DEF MountedAt, TypeOK
  <2>3. mounted' \subseteq Volumes /\ remains' \subseteq Volumes
    BY <1>5, <2>2 DEF Unmount, TypeOK
  <2>4. blk' \in 0..Args'.num_blks /\ fail' \in 0..blk'
    <3>1. blk = 0 /\ fail = 0
      BY <1>5 DEF Unmount, TypeOK
    <3> QED
      BY <1>5, <2>1, <3>1, ArgsForNext, RegionOf DEF Unmount
  <2> QED
    BY <1>5, <2>1, <2>3, <2>4 DEF Unmount, TypeOK
<1>6. ASSUME NEW v \in Volumes, WriteFile(v) PROVE TypeOK'
  <2>1. used' \subseteq Flash
    BY <1>6, RegionOf DEF WriteFile, TypeOK
  <2> QED
    BY <1>6, <1>a, <2>1 DEF WriteFile, TypeOK
<1>7. CASE GetHandle
  BY <1>7, <1>a, <1>c DEF GetHandle, EraseEnd, TypeOK
<1>8. CASE EraseBlock
  <2>1. Args.fs_start + blk \in Region(VolumeOf(cmd))
    BY <1>8, <1>c, ArgsFor, RegionOf DEF EraseBlock, TypeOK
  <2>2. used' \subseteq Flash /\ whole' \subseteq Volumes
        /\ files' \subseteq Volumes
    BY <1>8, <1>c, <2>1, ArgsFor, EraseOnly DEF EraseBlock, TypeOK
  <2>3. blk' \in 0..Args.num_blks /\ fail' \in 0..blk'
    BY <1>8, <1>c DEF EraseBlock, TypeOK
  <2> QED
    BY <1>8, <1>a, <2>2, <2>3 DEF EraseBlock, TypeOK
<1>9. CASE EraseLoopEnds
  BY <1>9, <1>a, <1>c, ArgsFor DEF EraseLoopEnds, EraseEnd, TypeOK
<1>10. CASE EraseFormat
  <2>1. used' \subseteq Flash /\ whole' \subseteq Volumes
        /\ files' \subseteq Volumes /\ remains' \subseteq Volumes
    BY <1>10, <1>c, ArgsFor, MkfsType DEF EraseFormat
  <2> QED
    BY <1>10, <1>a, <1>c, <2>1 DEF EraseFormat, EraseEnd, TypeOK
<1>11. CASE Restart
  <2>1. used' \subseteq Flash /\ whole' \subseteq Volumes
        /\ files' \subseteq Volumes /\ remains' \subseteq Volumes
    <3>1. vol \in Volumes /\ Target \in Volumes
      BY <1>c, ArgsFor DEF TypeOK
    <3>2. CASE MkfsFails(vol)
      BY <3>1, <3>2, MkfsType
    <3>3. CASE MkfsFails(Target)
      BY <3>1, <3>3, MkfsType
    <3>4. CASE UNCHANGED diskVars
               /\ (remains' = remains \cup {Target} \/ UNCHANGED remains)
      BY <3>1, <3>4 DEF TypeOK
    <3> QED
      BY <1>11, <3>2, <3>3, <3>4 DEF Restart
  <2>2. cmd' \in Commands /\ blk' \in 0..Args'.num_blks /\ fail' \in 0..blk'
    BY <1>11, <1>0, ArgsForNext, RegionOf DEF Restart
  <2> QED
    BY <1>11, <1>0, <2>1, <2>2 DEF Restart, TypeOK, InitStages
<1>12. CASE UNCHANGED vars
  BY <1>12, <1>a DEF vars, TypeOK
<1> QED
  BY <1>1, <1>2, <1>3, <1>4, <1>5, <1>6, <1>7, <1>8, <1>9, <1>10, <1>11, <1>12
     DEF Next

\* The variables stay in their types: no block outside the region is ever
\* erased, no volume that does not exist is mounted.
THEOREM TypeCorrect == Spec => []TypeOK
<1>1. Init => TypeOK
  <2> SUFFICES ASSUME Init PROVE TypeOK
    OBVIOUS
  <2>1. cmd \in Commands /\ "filesystem" \in Volumes
    BY DEF Init, Commands, Volumes
  <2>2. blk \in 0..Args.num_blks /\ fail \in 0..blk
    BY <2>1, ArgsFor, RegionOf DEF Init
  <2> QED
    BY <2>1, <2>2 DEF Init, TypeOK, InitStages
<1> QED
  BY <1>1, TypeStep, PTL DEF Spec

-----------------------------------------------------------------------------
\* The initialisation goes through the volumes in order and ends only after
\* the last, or after a failure on /.
LEMMA ProceedMounts ==
    ASSUME TypeOK, NEW ok \in BOOLEAN, Proceed(ok),
           mounted = IF vol = "filesystem" THEN {} ELSE {"filesystem"},
           mounted' = IF ok THEN mounted \cup {vol} ELSE mounted
    PROVE  /\ stage' \in InitStages =>
                 mounted' = IF vol' = "filesystem" THEN {} ELSE {"filesystem"}
           /\ stage' \notin {"format", "remount"}
           /\ stage' = "stuck" => ~ok /\ vol = "filesystem"
           /\ ok /\ stage' \in {"up", "stuck"} =>
                 stage' = "up" /\ mounted' = Volumes
BY DEF TypeOK, Proceed, Volumes, InitStages

\* A format that fails leaves all as it is, or remains.
LEMMA MkfsFailsReads ==
    ASSUME TypeOK, FlashInv, NEW v \in Volumes, step # "erasing", MkfsFails(v),
           mounted' \subseteq mounted, step' # "erasing"
    PROVE  FlashInv'
<1>1. CASE UNCHANGED <<diskVars, remains>>
  BY <1>1 DEF diskVars, FlashInv, Blank
<1>2. CASE ~UNCHANGED <<diskVars, remains>>
  <2>1. /\ Rewritten(v)
        /\ whole' = whole \ {v} /\ files' = files \ {v}
        /\ remains' = remains \cup {v}
    BY <1>2 DEF MkfsFails
  <2>2. \A u \in Volumes \ {v} : Blank(u)' <=> Blank(u)
    BY <2>1, RewrittenOnly, OthersAsBefore DEF TypeOK
  <2> QED
    BY <2>1, <2>2 DEF FlashInv, TypeOK
<1> QED
  BY <1>1, <1>2

\* A format that ends leaves a file system just as it was written, one that
\* fails leaves all as it is or remains; the other volume is as it was.
LEMMA MkfsReads ==
    ASSUME TypeOK, FlashInv, NEW v \in Volumes, step # "erasing",
           MkfsOk(v) \/ MkfsFails(v), mounted' = mounted,
           MkfsOk(v) => v \notin mounted,
           step' # "erasing"
    PROVE  FlashInv'
<1>1. CASE MkfsOk(v)
  <2>1. /\ ~Blank(v)'
        /\ \A u \in Volumes \ {v} : Blank(u)' <=> Blank(u)
    BY <1>1, RewrittenOnly, OthersAsBefore DEF MkfsOk, Blank, TypeOK
  <2> QED
    BY <1>1, <2>1 DEF MkfsOk, FlashInv, TypeOK
<1>2. CASE MkfsFails(v)
  BY <1>2, MkfsFailsReads
<1> QED
  BY <1>1, <1>2

\* Every step keeps StorageInv: a volume is spoilt only by the command that is
\* for it, which has unmounted it, and an erase or a format that is not seen
\* to its end leaves remains.
LEMMA StorageStep == TypeOK /\ StorageInv /\ [Next]_vars => StorageInv'
<1> SUFFICES ASSUME TypeOK, StorageInv, [Next]_vars PROVE StorageInv'
  OBVIOUS
<1> DEFINE V == VolumeOf(cmd)
<1>0. FlashInv /\ BootInv /\ EraseInv
  BY DEF StorageInv
<1>c. /\ cmd \in Commands /\ V \in Volumes /\ Target = V
      /\ Args.fs_start = Start[V] /\ Args.num_blks = NumBlocks[V]
  BY ArgsFor DEF TypeOK
<1>n. NumBlocks[V] \in Nat \ {0} /\ Start[V] \in Nat
  BY <1>c
<1>a. UNCHANGED cmd => V' = V /\ Args' = Args
  BY DEF Args, VolumeOf
<1>i. stage \in InitStages =>
         /\ step = "none"
         /\ mounted = IF vol = "filesystem" THEN {} ELSE {"filesystem"}
  BY <1>0 DEF BootInv
<1> USE DEF initVars, eraseVars, diskVars
<1>1. CASE FindDevice
  <2>1. FlashInv' /\ EraseInv' /\ UNCHANGED <<mounted, step>>
    BY <1>1, <1>0, <1>a DEF FindDevice, FlashInv, EraseInv, Blank
  <2>2. step = "none"
        /\ mounted = IF vol = "filesystem" THEN {} ELSE {"filesystem"}
    BY <1>1, <1>i DEF FindDevice, InitStages
  <2>3. CASE Fault /\ Proceed(FALSE)
    BY <2>1, <2>2, <2>3, ProceedMounts DEF BootInv, StorageInv, Fault
  <2>4. CASE stage' = "mount" /\ UNCHANGED <<vol, faults>>
    BY <2>1, <2>2, <2>4 DEF BootInv, StorageInv, InitStages
  <2> QED
    BY <1>1, <2>3, <2>4 DEF FindDevice
<1>2. CASE Mount \/ Remount
  <2>1. /\ UNCHANGED <<eraseVars, diskVars, remains>>
        /\ step = "none"
        /\ mounted = IF vol = "filesystem" THEN {} ELSE {"filesystem"}
    BY <1>2, <1>i DEF Mount, Remount, InitStages
  <2>2. mounted' = mounted \/ (~Blank(vol) /\ mounted' = mounted \cup {vol})
    BY <1>2 DEF Mount, Remount, MountOk
  <2>3. vol \in Volumes
    BY DEF TypeOK
  <2>4. FlashInv' /\ EraseInv'
    BY <1>0, <1>a, <2>1, <2>2, <2>3 DEF FlashInv, EraseInv, Blank
  <2>5. CASE MountOk
    BY <2>1, <2>4, <2>5, ProceedMounts DEF MountOk, BootInv, StorageInv
  <2>6. CASE Fault /\ Proceed(FALSE) /\ UNCHANGED mounted
    BY <2>1, <2>4, <2>6, ProceedMounts DEF Fault, BootInv, StorageInv
  <2>7. CASE /\ stage' = "format" /\ UNCHANGED <<vol, mounted>>
             /\ faults' = IF vol \in whole THEN faults \cup {vol} ELSE faults
    BY <2>1, <2>4, <2>7 DEF BootInv, StorageInv, InitStages
  <2> QED
    BY <1>2, <2>5, <2>6, <2>7 DEF Mount, Remount
<1>3. CASE Format
  <2>1. /\ vol \in Volumes /\ (MkfsOk(vol) \/ MkfsFails(vol))
        /\ UNCHANGED <<mounted, eraseVars>> /\ step = "none"
        /\ mounted = IF vol = "filesystem" THEN {} ELSE {"filesystem"}
        /\ vol \notin mounted
    BY <1>3, <1>i DEF Format, TypeOK, InitStages
  <2>2. FlashInv'
    BY <1>0, <2>1, MkfsReads
  <2>3. EraseInv'
    BY <2>1 DEF EraseInv
  <2>4. CASE stage' = "remount" /\ UNCHANGED <<vol, faults>>
    BY <2>1, <2>2, <2>3, <2>4 DEF BootInv, StorageInv, InitStages
  <2>5. CASE Fault /\ Proceed(FALSE)
    BY <2>1, <2>2, <2>3, <2>5, ProceedMounts DEF Fault, BootInv, StorageInv
  <2> QED
    BY <1>3, <2>4, <2>5 DEF Format
<1>4. ASSUME NEW c \in Commands, Unmount(c) PROVE StorageInv'
  <2>1. /\ UNCHANGED <<initVars, diskVars, faults>> /\ cmd' = c
        /\ step = "none" /\ step' = "unmounted" /\ stage \notin InitStages
    BY <1>4 DEF Unmount, Running, InitStages
  <2>2. VolumeOf(c) \in Volumes
        /\ MountedAt(Args'.mount_point) = mounted \cap {VolumeOf(c)}
    BY <2>1, ArgsForNext DEF MountedAt, TypeOK
  <2>3. /\ mounted' \subseteq mounted /\ remains \subseteq remains'
        /\ VolumeOf(c) \in mounted' => VolumeOf(c) \in remains'
    BY <1>4, <2>2 DEF Unmount
  <2>4. FlashInv'
    BY <1>0, <2>1, <2>3 DEF FlashInv, Blank
  <2>5. BootInv'
    BY <1>0, <2>1 DEF BootInv, InitStages
  <2>6. EraseInv'
    BY <2>1, <2>3 DEF EraseInv
  <2> QED
    BY <2>4, <2>5, <2>6 DEF StorageInv
<1>5. ASSUME NEW v \in Volumes, WriteFile(v) PROVE StorageInv'
  <2>1. /\ UNCHANGED <<eraseVars, mounted, whole, stage, vol, faults, remains>>
        /\ v \in mounted /\ files' = files \cup {v}
        /\ stage \notin InitStages
    BY <1>5 DEF WriteFile, Running, InitStages
  <2>2. PICK a \in Region(v) : used' = used \cup {a}
    BY <1>5 DEF WriteFile
  <2>3. ~Blank(v)' /\ (\A u \in Volumes \ {v} :
                          /\ Blank(u)' <=> Blank(u)
                          /\ \A b \in Region(u) : b \in used' <=> b \in used)
    BY <2>2, OthersAsBefore DEF Blank, TypeOK
  <2>4. FlashInv'
    BY <1>0, <1>a, <2>1, <2>3 DEF FlashInv, TypeOK
  <2>5. BootInv'
    BY <1>0, <2>1 DEF BootInv
  <2>6. EraseInv'
    <3>1. V \notin mounted => V # v
      BY <2>1
    <3>2. \A j \in 0..(blk - 1) : Args.fs_start + j \in Region(V)
      BY <1>c, <1>n, RegionOf DEF TypeOK
    <3> QED
      BY <1>0, <1>a, <1>c, <2>1, <2>3, <3>1, <3>2 DEF EraseInv
  <2> QED
    BY <2>4, <2>5, <2>6 DEF StorageInv
<1>6. CASE GetHandle
  <2>1. /\ UNCHANGED <<initVars, mounted, diskVars, faults, remains, cmd>>
        /\ step = "unmounted" /\ stage \notin InitStages /\ blk' = 0
        /\ step' \in {"none", "erasing"}
    BY <1>6, <1>0 DEF GetHandle, EraseEnd, BootInv, TypeOK
  <2>2. FlashInv' /\ BootInv'
    BY <1>0, <2>1 DEF FlashInv, BootInv, Blank
  <2>3. EraseInv'
    BY <1>0, <1>a, <2>1 DEF EraseInv
  <2> QED
    BY <2>2, <2>3 DEF StorageInv
<1>7. CASE EraseBlock
  <2>1. /\ UNCHANGED <<initVars, step, cmd, mounted, faults, remains>>
        /\ step = "erasing" /\ blk \in 0..(NumBlocks[V] - 1) /\ blk' = blk + 1
        /\ V' = V /\ Args' = Args
    BY <1>7, <1>a, <1>c DEF EraseBlock, TypeOK
  <2>2. BootInv'
    BY <1>0, <2>1 DEF BootInv, InitStages
  <2>3. CASE Erase(Args.fs_start + blk) /\ UNCHANGED fail
    <3>1. Args.fs_start + blk \in Region(V)
      BY <1>c, <2>1, RegionOf
    <3>2. /\ used' \ Region(V) = used \ Region(V)
          /\ Args.fs_start + blk \notin used' /\ used' \subseteq used
      BY <1>c, <2>3, <3>1, EraseOnly
    <3>3. PICK lost \in SUBSET {V} :
             whole' = whole \ lost /\ files' = files \ lost
      BY <1>c, <2>3, <3>1, EraseOnly
    <3>4. \A u \in Volumes \ {V} : Blank(u)' <=> Blank(u)
      BY <1>c, <3>2, OthersAsBefore DEF TypeOK
    <3>5. \A v \in whole' \cup files' : ~Blank(v)'
      BY <2>3 DEF Erase
    <3>6. V \in mounted => V \in remains
      BY <1>0, <2>1 DEF EraseInv
    <3>7. FlashInv'
      BY <1>0, <2>1, <3>3, <3>4, <3>5, <3>6 DEF FlashInv, TypeOK
    <3>8. EraseInv'
      <4>1. ASSUME NEW j \in 0..(blk' - 1), fail' = 0, V \notin mounted
            PROVE  Args.fs_start + j \notin used'
        <5>1. j = blk \/ j \in 0..(blk - 1)
          BY <2>1
        <5> QED
          BY <1>0, <2>1, <2>3, <3>2, <4>1, <5>1 DEF EraseInv
      <4> QED
        BY <1>0, <2>1, <3>6, <4>1 DEF EraseInv
    <3> QED
      BY <2>2, <3>7, <3>8 DEF StorageInv
  <2>4. CASE fail' = fail + 1 /\ UNCHANGED diskVars
    <3>1. fail' # 0
      BY <2>4 DEF TypeOK
    <3>2. FlashInv' /\ EraseInv'
      BY <1>0, <2>1, <2>4, <3>1 DEF FlashInv, EraseInv, Blank
    <3> QED
      BY <2>2, <3>2 DEF StorageInv
  <2> QED
    BY <1>7, <2>3, <2>4 DEF EraseBlock
<1>8. CASE EraseLoopEnds
  <2>1. /\ UNCHANGED <<initVars, mounted, diskVars, faults, cmd>>
        /\ step = "erasing" /\ blk = NumBlocks[V] /\ V' = V /\ Args' = Args
        /\ stage \notin InitStages
        /\ V \in mounted => V \in remains
    BY <1>8, <1>0, <1>a, <1>c
       DEF EraseLoopEnds, EraseEnd, EraseInv, BootInv
  <2>2. BootInv'
    BY <1>0, <2>1 DEF BootInv
  <2>3. CASE /\ fail = 0 /\ step' = "mkfs"
             /\ remains' = remains \ ({Target} \ mounted)
    <3>1. V \notin mounted => Blank(V)
      <4>1. ASSUME V \notin mounted, NEW a \in Region(V) PROVE a \notin used
        <5>1. PICK j \in 0..(blk - 1) : a = Start[V] + j
          BY <1>c, <2>1, <4>1, RegionOf
        <5> QED
          BY <1>0, <1>c, <2>1, <2>3, <4>1, <5>1 DEF EraseInv
      <4> QED
        BY <4>1 DEF Blank
    <3>2. FlashInv'
      BY <1>0, <1>c, <2>1, <2>3, <3>1 DEF FlashInv, Blank
    <3>3. EraseInv'
      BY <1>c, <2>1, <2>3, <3>1 DEF EraseInv, Blank
    <3> QED
      BY <2>2, <3>2, <3>3 DEF StorageInv
  <2>4. CASE EraseEnd /\ remains' = remains \cup {Target}
    <3>1. FlashInv' /\ EraseInv'
      BY <1>0, <1>c, <2>1, <2>4 DEF EraseEnd, FlashInv, EraseInv, Blank
    <3> QED
      BY <2>2, <3>1 DEF StorageInv
  <2> QED
    BY <1>8, <2>3, <2>4 DEF EraseLoopEnds
<1>9. CASE EraseFormat
  <2>1. /\ UNCHANGED <<initVars, mounted, faults, cmd>>
        /\ step = "mkfs" /\ step' = "none" /\ stage \notin InitStages
        /\ \/ MkfsOk(V) /\ V \notin mounted
           \/ MkfsFails(V)
    BY <1>9, <1>0, <1>c DEF EraseFormat, EraseEnd, BootInv
  <2>2. BootInv' /\ EraseInv'
    BY <1>0, <2>1 DEF BootInv, EraseInv, InitStages
  <2>3. FlashInv'
    <3>1. CASE MkfsOk(V) /\ V \notin mounted
      BY <1>0, <1>c, <2>1, <3>1, MkfsReads
    <3>2. CASE MkfsFails(V)
      BY <1>0, <1>c, <2>1, <3>2, MkfsFailsReads
    <3> QED
      BY <2>1, <3>1, <3>2
  <2> QED
    BY <2>2, <2>3 DEF StorageInv
<1>10. CASE Restart
  <2>1. /\ stage' = "find" /\ vol' = "filesystem" /\ mounted' = {}
        /\ step' = "none"
    BY <1>10 DEF Restart
  <2>2. BootInv' /\ EraseInv'
    BY <2>1 DEF BootInv, EraseInv
  <2>3. FlashInv'
    <3>1. CASE UNCHANGED diskVars /\ remains \subseteq remains'
               /\ (step = "erasing" => V \in remains')
      BY <1>0, <2>1, <3>1 DEF FlashInv, Blank
    <3>2. ASSUME NEW v \in Volumes, MkfsFails(v), step # "erasing"
          PROVE  FlashInv'
      BY <1>0, <2>1, <3>2, MkfsFailsReads
    <3>3. CASE step = "erasing"
      BY <1>10, <1>c, <1>i, <3>1, <3>3 DEF Restart, InitStages
    <3>4. CASE step # "erasing"
      BY <1>10, <1>c, <3>1, <3>2, <3>4 DEF Restart, TypeOK
    <3> QED
      BY <3>3, <3>4
  <2> QED
    BY <2>2, <2>3 DEF StorageInv
<1>11. CASE UNCHANGED vars
  BY <1>0, <1>a, <1>11
     DEF vars, StorageInv, FlashInv, BootInv, EraseInv, Blank
<1> QED
  BY <1>1, <1>2, <1>3, <1>4, <1>5, <1>6, <1>7, <1>8, <1>9, <1>10, <1>11
     DEF Next

-----------------------------------------------------------------------------
\* Blank flash, with nothing mounted, satisfies it.
LEMMA StorageInit == Init => StorageInv
BY DEF Init, StorageInv, FlashInv, BootInv, EraseInv, Blank, InitStages

\* What boots, erases, formats and power failures maintain together.
LEMMA Invariance == Spec => [](TypeOK /\ StorageInv)
<1>1. TypeOK /\ StorageInv /\ [Next]_vars => StorageInv'
  BY StorageStep
<1> QED
  BY StorageInit, <1>1, TypeCorrect, PTL DEF Spec

\* What is mounted is as it was written, unless it is what an erase or a
\* format left half done: see MountedIsCoherent.
THEOREM MountedCoherent == Spec => []MountedIsCoherent
<1>1. StorageInv => MountedIsCoherent
  BY DEF StorageInv, FlashInv, MountedIsCoherent
<1> QED
  BY Invariance, <1>1, PTL

\* With a flash and a DFS that work, sifli_storage_init ends with every volume
\* mounted: see BootMounts.
THEOREM BootReaches == Spec => BootMounts
<1> DEFINE A == stage # "up" /\ stage' \in {"up", "stuck"} /\ faults' = {} =>
                   stage' = "up" /\ mounted' = Volumes
<1>1. TypeOK /\ StorageInv /\ [Next]_vars => [A]_vars
  <2> SUFFICES ASSUME TypeOK, StorageInv, Next, stage # "up",
                      stage' \in {"up", "stuck"}, faults' = {}
               PROVE  stage' = "up" /\ mounted' = Volumes
    OBVIOUS
  <2> USE DEF initVars, eraseVars
  <2>1. /\ stage \in InitStages =>
              mounted = IF vol = "filesystem" THEN {} ELSE {"filesystem"}
        /\ stage = "stuck" => "filesystem" \in faults
    BY DEF StorageInv, BootInv
  <2>2. CASE stage \in InitStages
    <3>1. Proceed(TRUE) /\ mounted' = mounted \cup {vol}
      BY <2>2
         DEF Next, FindDevice, Mount, Format, Remount, MountOk, Fault, Unmount,
             WriteFile, GetHandle, EraseBlock, EraseLoopEnds, EraseFormat,
             Restart, Running, InitStages
    <3> QED
      BY <2>1, <2>2, <3>1, ProceedMounts
  <2>3. CASE stage \notin InitStages
    <3>1. "filesystem" \in faults
      BY <2>1, <2>3 DEF TypeOK
    <3>2. UNCHANGED faults
      BY <2>3
         DEF Next, FindDevice, Mount, Format, Remount, Unmount, WriteFile,
             GetHandle, EraseBlock, EraseLoopEnds, EraseFormat, Restart,
             InitStages
    <3> QED
      BY <3>1, <3>2
  <2> QED
    BY <2>2, <2>3
<1> QED
  BY Invariance, <1>1, PTL DEF Spec, BootMounts

\* Files are lost only to the erase command for their volume, to a call that
\* failed for it at this boot, or with remains: see FilesSurvive.
THEOREM FilesAreKept == Spec => FilesSurvive
<1> DEFINE A == \A v \in files \ files' :
                   \/ step \in {"erasing", "mkfs"} /\ v = VolumeOf(cmd)
                   \/ v \in faults \cup remains
<1>1. TypeOK /\ StorageInv /\ [Next]_vars => [A]_vars
  <2> SUFFICES ASSUME TypeOK, StorageInv, Next, NEW v \in files \ files'
               PROVE  \/ step \in {"erasing", "mkfs"} /\ v = VolumeOf(cmd)
                      \/ v \in faults \cup remains
    OBVIOUS
  <2> USE DEF initVars, eraseVars, diskVars
  <2>1. stage = "format" /\ v = vol => v \in faults \cup remains
    BY DEF StorageInv, FlashInv, BootInv
  <2>2. cmd \in Commands /\ Target = VolumeOf(cmd)
        /\ VolumeOf(cmd) \in Volumes
    BY ArgsFor DEF TypeOK
  <2>3. \A u : MkfsOk(u) \/ MkfsFails(u) => files' = files \/ files' = files \ {u}
    BY DEF MkfsOk, MkfsFails
  <2>4. CASE Format
    BY <2>1, <2>3, <2>4 DEF Format
  <2>5. CASE Restart
    BY <2>1, <2>2, <2>3, <2>5 DEF Restart
  <2>6. CASE EraseFormat
    BY <2>2, <2>3, <2>6 DEF EraseFormat
  <2>7. CASE EraseBlock
    <3>1. Args.fs_start + blk \in Region(VolumeOf(cmd))
      BY <2>2, <2>7, ArgsFor, RegionOf DEF EraseBlock, TypeOK
    <3> QED
      BY <2>2, <2>7, <3>1, EraseOnly DEF EraseBlock
  <2> QED
    BY <2>4, <2>5, <2>6, <2>7
       DEF Next, FindDevice, Mount, Remount, Unmount, WriteFile, GetHandle,
           EraseLoopEnds
<1> QED
  BY Invariance, <1>1, PTL DEF Spec, FilesSurvive
=============================================================================

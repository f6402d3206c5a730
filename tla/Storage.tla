------------------------------- MODULE Storage -------------------------------
(***************************************************************************)
(* The two file systems on the NAND flash: how sifli_storage_init          *)
(* (src/sifli_storage.c) brings them up, formatting what it cannot mount,  *)
(* and how the shell commands nand_erase_fs and nand_erase_data            *)
(* (src/reg_commands.c) wipe them while the watch runs.  Power may fail    *)
(* between any two steps, and during a format.                             *)
(*                                                                         *)
(* The file systems lie on Dhara, a translation layer that keeps any page  *)
(* of a volume in any erase block of its region; the commands erase the    *)
(* blocks themselves, beneath it.  So nothing is known of a volume of      *)
(* which some blocks have been erased: it may be as it was, it may mount   *)
(* and be broken, or not mount.  Only a region that is blank throughout    *)
(* mounts for certain not.  Dhara, the FAT driver and DFS are not in the   *)
(* repository, and every one of their calls may fail.                      *)
(***************************************************************************)
EXTENDS Integers

CONSTANTS
    HasData,      \* FS_DATA_REGION_START_ADDR is defined
    Start,        \* Start[v], NumBlocks[v]: the region of v, in erase blocks
    NumBlocks

Volumes == IF HasData THEN {"filesystem", "fsdata"} ELSE {"filesystem"}

Region(v) == Start[v] .. (Start[v] + NumBlocks[v] - 1)
Flash     == UNION {Region(v) : v \in Volumes}

ASSUME VolumeAssumption == HasData \in BOOLEAN
ASSUME RegionAssumption ==
    /\ Start \in [Volumes -> Nat]
    /\ NumBlocks \in [Volumes -> Nat \ {0}]
    /\ \A u, v \in Volumes : u # v => Region(u) \cap Region(v) = {}

VARIABLES
    stage, vol,   \* where sifli_storage_init is, and in which volume
    mounted,      \* volumes DFS has mounted
    used,         \* erase blocks that are not blank
    whole,        \* volumes that hold a file system just as it was written
    files,        \* volumes that hold files of the user
    step, cmd,    \* where the erase command is, and which one it is
    blk, fail,    \* its loop: the next block, the blocks that refused
    faults,       \* history: volumes a call failed for without need, since
                  \* power-up
    remains       \* history: volumes an erase or a format has left half done

initVars  == <<stage, vol>>
eraseVars == <<step, cmd, blk, fail>>
diskVars  == <<used, whole, files>>
vars == <<initVars, eraseVars, mounted, diskVars, faults, remains>>

InitStages == {"find", "mount", "format", "remount"}
Commands   == IF HasData THEN {"nand_erase_fs", "nand_erase_data"}
                         ELSE {"nand_erase_fs"}

-----------------------------------------------------------------------------
(***************************************************************************)
(* What the two commands hand to _nand_erase_and_format.                   *)
(***************************************************************************)
nand_erase_fs == [fs_start |-> Start["filesystem"],
                  num_blks |-> NumBlocks["filesystem"],
                  dev_name |-> "filesyst", mount_point |-> "/"]

\* Slips: two ways to copy the other command and to forget an argument.
EraseDataAtRoot == [fs_start |-> Start["filesystem"],
                    num_blks |-> NumBlocks["filesystem"],
                    dev_name |-> "fsdata", mount_point |-> "/data"]

EraseDataUnmountsRoot == [fs_start |-> Start["fsdata"],
                          num_blks |-> NumBlocks["fsdata"],
                          dev_name |-> "fsdata", mount_point |-> "/"]

nand_erase_data == [fs_start |-> Start["fsdata"],
                    num_blks |-> NumBlocks["fsdata"],
                    dev_name |-> "fsdata", mount_point |-> "/data"]

Args == IF cmd = "nand_erase_fs" THEN nand_erase_fs ELSE nand_erase_data

\* Where sifli_storage_init mounts a volume; the device a name stands for
\* ("filesyst" is as much of "filesystem" as the kernel may keep).
MountPoint(v)  == IF v = "filesystem" THEN "/" ELSE "/data"
Device(name)   == IF name = "filesyst" THEN "filesystem" ELSE name
MountedAt(mp)  == {v \in mounted : MountPoint(v) = mp}

TypeOK ==
    /\ stage \in InitStages \cup {"up", "stuck"}
    /\ vol \in Volumes
    /\ mounted \subseteq Volumes
    /\ used \subseteq Flash
    /\ whole \subseteq Volumes /\ files \subseteq Volumes
    /\ step \in {"none", "unmounted", "erasing", "mkfs"}
    /\ cmd \in Commands
    /\ blk \in 0..Args.num_blks
    /\ fail \in 0..blk
    /\ step \in {"none", "unmounted"} => blk = 0
    /\ faults \subseteq Volumes /\ remains \subseteq Volumes

Blank(v) == Region(v) \cap used = {}

\* A watch as it leaves the factory: the flash is blank.
Init ==
    /\ stage = "find" /\ vol = "filesystem"
    /\ mounted = {}
    /\ used = {} /\ whole = {} /\ files = {}
    /\ step = "none" /\ cmd = "nand_erase_fs" /\ blk = 0 /\ fail = 0
    /\ faults = {} /\ remains = {}

-----------------------------------------------------------------------------
(***************************************************************************)
(* sifli_storage_init and _mount_fs.                                       *)
(***************************************************************************)

\* _mount_fs has returned for vol: a failure on / ends the initialisation, a
\* failure on /data is ignored.
Proceed(ok) ==
    \/ /\ vol = "filesystem" /\ ok /\ HasData
       /\ vol' = "fsdata" /\ stage' = "find"
    \/ /\ vol = "fsdata" \/ (ok /\ ~HasData)
       /\ stage' = "up" /\ UNCHANGED vol
    \/ /\ vol = "filesystem" /\ ~ok
       /\ stage' = "stuck" /\ UNCHANGED vol

Fault == faults' = faults \cup {vol}

FindDevice ==
    /\ stage = "find"
    /\ \/ stage' = "mount" /\ UNCHANGED <<vol, faults>>
       \/ Fault /\ Proceed(FALSE)
    /\ UNCHANGED <<eraseVars, mounted, diskVars, remains>>

MountOk == /\ ~Blank(vol)
           /\ mounted' = mounted \cup {vol}
           /\ Proceed(TRUE)
           /\ UNCHANGED faults

Mount ==
    /\ stage = "mount"
    /\ \/ MountOk
       \/ /\ stage' = "format"
          /\ faults' = IF vol \in whole THEN faults \cup {vol} ELSE faults
          /\ UNCHANGED <<vol, mounted>>
    /\ UNCHANGED <<eraseVars, diskVars, remains>>

\* dfs_mkfs of volume v: it comes out empty; or nothing is done at all; or
\* it stops half way, and the region holds anything.
Rewritten(v) ==
    \E w \in SUBSET Region(v) : used' = (used \ Region(v)) \cup w

MkfsOk(v) == /\ Rewritten(v)
             /\ Region(v) \cap used' # {}
             /\ whole' = whole \cup {v}
             /\ files' = files \ {v}
             /\ remains' = remains \ {v}

MkfsFails(v) == \/ UNCHANGED <<diskVars, remains>>
                \/ /\ Rewritten(v)
                   /\ whole' = whole \ {v}
                   /\ files' = files \ {v}
                   /\ remains' = remains \cup {v}

Format ==
    /\ stage = "format"
    /\ \/ /\ MkfsOk(vol)
          /\ stage' = "remount"
          /\ UNCHANGED <<vol, faults>>
       \/ MkfsFails(vol) /\ Fault /\ Proceed(FALSE)
    /\ UNCHANGED <<eraseVars, mounted>>

\* Slip: the second mount is forgotten.
RemountForgotten ==
    /\ stage = "remount"
    /\ Proceed(TRUE)
    /\ UNCHANGED <<eraseVars, mounted, diskVars, faults, remains>>

Remount ==
    /\ stage = "remount"
    /\ \/ MountOk
       \/ Fault /\ Proceed(FALSE) /\ UNCHANGED mounted
    /\ UNCHANGED <<eraseVars, diskVars, remains>>

-----------------------------------------------------------------------------
(***************************************************************************)
(* _nand_erase_and_format, in the shell thread.                            *)
(***************************************************************************)
Running == stage \in {"up", "stuck"}

\* The result of dfs_unmount is not looked at: a volume that is in use stays
\* mounted over the flash that is then erased.
Unmount(c) ==
    /\ Running /\ step = "none"
    /\ cmd' = c
    /\ step' = "unmounted"
    /\ LET at == MountedAt(Args'.mount_point) IN
          \/ mounted' = mounted \ at /\ UNCHANGED remains
          \/ at # {} /\ remains' = remains \cup at /\ UNCHANGED mounted
    /\ UNCHANGED <<initVars, blk, fail, diskVars, faults>>

EraseEnd == step' = "none" /\ blk' = 0 /\ fail' = 0 /\ UNCHANGED cmd

\* After 200 ms: the handle of the region, or "Not a NAND address".
GetHandle ==
    /\ step = "unmounted"
    /\ \/ step' = "erasing" /\ UNCHANGED <<cmd, blk, fail>>
       \/ EraseEnd
    /\ UNCHANGED <<initVars, mounted, diskVars, faults, remains>>

\* Block a is blank.  What the volume had there may have been stale.
Erase(a) ==
    /\ used' = used \ {a}
    /\ \E lost \in SUBSET {v \in Volumes : a \in Region(v) \cap used} :
          whole' = whole \ lost /\ files' = files \ lost
    /\ \A v \in whole' \cup files' : ~Blank(v)'

\* A block that refuses to be erased is counted and the loop goes on.
EraseBlock ==
    /\ step = "erasing" /\ blk < Args.num_blks
    /\ blk' = blk + 1
    /\ \/ Erase(Args.fs_start + blk) /\ UNCHANGED fail
       \/ fail' = fail + 1 /\ UNCHANGED diskVars
    /\ UNCHANGED <<initVars, step, cmd, mounted, faults, remains>>

Target == Device(Args.dev_name)

\* Slips: the loop's end is missed by one, and by one the other way.
EraseLoopLong ==
    /\ step = "erasing" /\ blk >= Args.num_blks
    /\ blk' = blk + 1
    /\ step' = "mkfs"
    /\ UNCHANGED <<initVars, cmd, fail, mounted, diskVars, faults, remains>>

EraseLoopShort ==
    /\ step = "erasing" /\ blk = Args.num_blks - 1
    /\ \/ /\ fail = 0 /\ step' = "mkfs"
          /\ remains' = remains \ ({Target} \ mounted)
          /\ UNCHANGED <<cmd, blk, fail>>
       \/ fail > 0 /\ EraseEnd /\ remains' = remains \cup {Target}
    /\ UNCHANGED <<initVars, mounted, diskVars, faults>>

\* Only when no block has refused is the volume formatted; otherwise it is
\* left as it is.
EraseLoopEnds ==
    /\ step = "erasing" /\ blk = Args.num_blks
    /\ \/ /\ fail = 0 /\ step' = "mkfs"
          /\ remains' = remains \ ({Target} \ mounted)
          /\ UNCHANGED <<cmd, blk, fail>>
       \/ fail > 0 /\ EraseEnd /\ remains' = remains \cup {Target}
    /\ UNCHANGED <<initVars, mounted, diskVars, faults>>

\* "Format OK" or "Format FAILED"; the volume is not mounted again.  The
\* format fails for a device that sifli_storage_init has not registered, and
\* for "filesyst" if the kernel keeps longer names.  On a volume that could
\* not be unmounted DFS goes on as if nothing had happened.
EraseFormat ==
    /\ step = "mkfs"
    /\ \/ /\ Target = "filesystem" \/ stage = "up"
          /\ Target \notin mounted
          /\ MkfsOk(Target)
       \/ MkfsFails(Target)
    /\ EraseEnd
    /\ UNCHANGED <<initVars, mounted, faults>>

-----------------------------------------------------------------------------
(***************************************************************************)
(* The rest of the watch.                                                  *)
(***************************************************************************)

\* Files are written to a mounted volume, in whatever blocks Dhara takes.
WriteFile(v) ==
    /\ Running /\ v \in mounted
    /\ \E a \in Region(v) : used' = used \cup {a}
    /\ files' = files \cup {v}
    /\ UNCHANGED <<initVars, eraseVars, mounted, whole, faults, remains>>

\* Power fails, or the watch is restarted, and sifli_storage_init runs again.
\* An erase or a format that was under way is left where it was.
Restart ==
    /\ stage' = "find" /\ vol' = "filesystem"
    /\ mounted' = {}
    /\ step' = "none" /\ cmd' = "nand_erase_fs" /\ blk' = 0 /\ fail' = 0
    /\ faults' = {}
    /\ \/ stage = "format" /\ MkfsFails(vol)
       \/ step = "mkfs" /\ MkfsFails(Target)
       \/ /\ step = "erasing" /\ remains' = remains \cup {Target}
          /\ UNCHANGED diskVars
       \/ /\ stage # "format" /\ step \notin {"mkfs", "erasing"}
          /\ UNCHANGED <<diskVars, remains>>

Next == \/ FindDevice \/ Mount \/ Format \/ Remount
        \/ \E c \in Commands : Unmount(c)
        \/ GetHandle \/ EraseBlock \/ EraseLoopEnds \/ EraseFormat
        \/ \E v \in Volumes : WriteFile(v)
        \/ Restart

Spec == Init /\ [][Next]_vars

-----------------------------------------------------------------------------
(***************************************************************************)
(* Properties.                                                             *)
(***************************************************************************)

\* What is mounted is a file system just as it was written.  Remains can be
\* mounted only of a volume whose erase was cut short by a power failure, or
\* had blocks that refused, whose format was cut short or failed, or that
\* could not be unmounted; an erase that came to its end without a refusal,
\* a format that succeeded and the formats of a boot leave none, and nothing
\* that is done to one volume spoils the other.
MountedIsCoherent == mounted \subseteq whole \cup remains

\* Unless a call fails on flash that is in order, the initialisation ends
\* with every volume mounted, in whatever state erases, formats and power
\* failures left the flash.
BootMounts ==
    [][stage # "up" /\ stage' \in {"up", "stuck"} /\ faults' = {} =>
          stage' = "up" /\ mounted' = Volumes]_vars

\* The volume each command is for.
VolumeOf(c) == IF c = "nand_erase_fs" THEN "filesystem" ELSE "fsdata"

\* Files of the user disappear only by an erase command for their volume, by
\* a boot at which a call failed for that very volume, or with a volume that
\* an erase or a format had left half done: restarts, faults of the other
\* volume and whatever is done to it do not cost any.
FilesSurvive ==
    [][\A v \in files \ files' :
          \/ step \in {"erasing", "mkfs"} /\ v = VolumeOf(cmd)
          \/ v \in faults \cup remains]_vars

-----------------------------------------------------------------------------
\* The inductive invariant behind them: away from remains a volume is blank,
\* whole or being erased, and one that is being erased is not mounted.
FlashInv ==
    /\ \A v \in whole \cup files : ~Blank(v)
    /\ \A v \in Volumes \ remains :
          Blank(v) \/ v \in whole \/ (step = "erasing" /\ v = VolumeOf(cmd))
    /\ mounted \subseteq whole \cup remains
    /\ files \subseteq whole \cup remains

BootInv ==
    /\ stage \in InitStages =>
          /\ step = "none"
          /\ mounted = IF vol = "filesystem" THEN {} ELSE {"filesystem"}
    /\ stage = "format" /\ vol \notin faults => vol \notin whole
    /\ stage = "stuck" => "filesystem" \in faults

EraseInv ==
    /\ step # "none" /\ VolumeOf(cmd) \in mounted => VolumeOf(cmd) \in remains
    /\ step = "erasing" /\ fail = 0 /\ VolumeOf(cmd) \notin mounted =>
          \A i \in 0..(blk - 1) : Args.fs_start + i \notin used
    /\ step = "mkfs" /\ VolumeOf(cmd) \notin mounted => Blank(VolumeOf(cmd))

StorageInv == FlashInv /\ BootInv /\ EraseInv
=============================================================================

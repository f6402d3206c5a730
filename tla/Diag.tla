-------------------------------- MODULE Diag --------------------------------
(***************************************************************************)
(* The part of diag (src/reg_commands.c) that depends on what is on the    *)
(* volume: _find_test_file, and the measurements on the file it has found. *)
(* The search tries some names, then the first regular file of             *)
(* /.sys/res/img, then that of /.sys itself; names with a dot are skipped. *)
(* Other threads change the volume between any two calls.                  *)
(***************************************************************************)
EXTENDS Files, Sequences

CONSTANTS
    Candidates,   \* the names that are tried, in their order
    ImgDir,       \* names in /.sys/res/img that do not begin with a dot
    SysDir,       \* those in /.sys
    NoPath,
    Rounds        \* bound: rounds of a measurement

ASSUME CandidatesAssumption == Candidates \in Seq(Paths)
ASSUME DirsAssumption   == ImgDir \cup SysDir \subseteq Paths
ASSUME NoPathAssumption == NoPath \notin Paths
ASSUME RoundsAssumption == Rounds \in Nat

VARIABLES
    step,         \* where diag is
    tried,        \* candidates that have been tried
    dir,          \* the directory that is being searched
    listed,       \* what readdir has returned of it
    entry,        \* the last entry it has returned
    test_img,     \* the file that was found, or NoPath
    rounds,       \* rounds of measurements that have begun
    refused       \* history: a directory could not be opened

diagVars == <<step, tried, dir, listed, entry, test_img, rounds, refused>>

DiagTypeOK ==
    /\ step \in {"off", "stat", "opendir", "readdir", "statentry",
                 "searched", "measure", "close"}
    /\ tried \in 0..Len(Candidates)
    /\ dir \in {"img", "sys"}
    /\ listed \subseteq Paths
    /\ {entry, test_img} \subseteq Paths \cup {NoPath}
    /\ rounds \in 0..Rounds
    /\ refused \in BOOLEAN

Entries == IF dir = "img" THEN ImgDir ELSE SysDir

Present(set) == {p \in set : files[p] # NoFile}

Reset ==
    /\ tried' = 0 /\ dir' = "img" /\ listed' = {} /\ entry' = NoPath
    /\ test_img' = NoPath /\ rounds' = 0 /\ refused' = FALSE

DiagInit ==
    /\ step = "off" /\ tried = 0 /\ dir = "img" /\ listed = {}
    /\ entry = NoPath /\ test_img = NoPath /\ rounds = 0 /\ refused = FALSE

diag ==
    /\ shell = "prompt"
    /\ shell' = "diag" /\ step' = "stat"
    /\ touched' = FALSE
    /\ Reset
    /\ UNCHANGED <<files, fds, halted>>

-----------------------------------------------------------------------------
(***************************************************************************)
(* _find_test_file.                                                        *)
(***************************************************************************)
Found(p) == /\ test_img' = p /\ step' = "searched"
            /\ UNCHANGED <<tried, dir, listed, entry, rounds, refused>>

StatCandidate ==
    /\ step = "stat" /\ tried < Len(Candidates)
    /\ LET p == Candidates[tried + 1] IN
          \/ IsFile(p) /\ Found(p)
          \/ /\ ~IsFile(p)
             /\ tried' = tried + 1
             /\ UNCHANGED <<step, dir, listed, entry, test_img, rounds,
                            refused>>
    /\ UNCHANGED filesVars

CandidatesDone ==
    /\ step = "stat" /\ tried = Len(Candidates)
    /\ step' = "opendir"
    /\ UNCHANGED <<filesVars, tried, dir, listed, entry, test_img, rounds,
                   refused>>

\* The directory has been searched in vain: the next one, or -1.
NextDir ==
    /\ \/ dir = "img" /\ dir' = "sys" /\ step' = "opendir"
       \/ dir = "sys" /\ step' = "searched" /\ UNCHANGED dir
    /\ listed' = {} /\ entry' = NoPath
    /\ UNCHANGED <<tried, test_img, rounds>>

\* A directory that cannot be opened, because there is none or no descriptor
\* is left, counts as searched.
OpenDir ==
    /\ step = "opendir"
    /\ \/ /\ fds < FdMax
          /\ fds' = fds + 1 /\ step' = "readdir"
          /\ UNCHANGED <<tried, dir, listed, entry, test_img, rounds,
                         refused>>
       \/ NextDir /\ refused' = TRUE /\ UNCHANGED fds
    /\ UNCHANGED <<shell, files, touched, halted>>

\* The next entry, in whatever order; those with a dot are passed over.
ReadDir ==
    /\ step = "readdir"
    /\ \E p \in Present(Entries) \ listed :
          /\ listed' = listed \cup {p}
          /\ entry' = p /\ step' = "statentry"
    /\ UNCHANGED <<filesVars, tried, dir, test_img, rounds, refused>>

\* Slip: the directory is left open when there is nothing more in it.
ReadDirKeeps ==
    /\ step = "readdir" /\ Present(Entries) \ listed = {}
    /\ NextDir
    /\ UNCHANGED <<refused, filesVars>>

ReadDirEnds ==
    /\ step = "readdir" /\ Present(Entries) \ listed = {}
    /\ NextDir
    /\ fds' = fds - 1
    /\ UNCHANGED <<refused, shell, files, touched, halted>>

\* Slip: S_ISREG is not asked.
StatEntryAny ==
    /\ step = "statentry"
    /\ \/ /\ files[entry] # NoFile /\ Found(entry)
          /\ fds' = fds - 1
       \/ /\ files[entry] = NoFile
          /\ step' = "readdir"
          /\ UNCHANGED <<fds, tried, dir, listed, entry, test_img, rounds,
                         refused>>
    /\ UNCHANGED <<shell, files, touched, halted>>

StatEntry ==
    /\ step = "statentry"
    /\ \/ /\ IsFile(entry) /\ Found(entry)
          /\ fds' = fds - 1
       \/ /\ ~IsFile(entry)
          /\ step' = "readdir"
          /\ UNCHANGED <<fds, tried, dir, listed, entry, test_img, rounds,
                         refused>>
    /\ UNCHANGED <<shell, files, touched, halted>>

-----------------------------------------------------------------------------
(***************************************************************************)
(* The measurements 4a, 4b and 4c: the file is opened by its name, once    *)
(* per round; when that fails the round is skipped.                        *)
(***************************************************************************)
Measure ==
    /\ step \in {"searched", "measure"}
    /\ test_img # NoPath /\ rounds < Rounds
    /\ rounds' = rounds + 1
    /\ \/ CanOpen(test_img) /\ step' = "close" /\ fds' = fds + 1
       \/ ~CanOpen(test_img) /\ step' = "measure" /\ UNCHANGED fds
    /\ UNCHANGED <<tried, dir, listed, entry, test_img, refused,
                   shell, files, touched, halted>>

MeasureDone ==
    /\ step = "close"
    /\ step' = "measure" /\ fds' = fds - 1
    /\ UNCHANGED <<tried, dir, listed, entry, test_img, rounds, refused,
                   shell, files, touched, halted>>

DiagDone ==
    /\ step \in {"searched", "measure"}
    /\ test_img = NoPath \/ rounds = Rounds
    /\ step' = "off" /\ shell' = "prompt"
    /\ Reset
    /\ UNCHANGED <<files, touched, fds, halted>>

_find_test_file == \/ StatCandidate \/ CandidatesDone \/ OpenDir
                   \/ ReadDir \/ ReadDirEnds \/ StatEntry
=============================================================================

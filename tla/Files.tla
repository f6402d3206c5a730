-------------------------------- MODULE Files --------------------------------
(***************************************************************************)
(* The volume as the file commands of src/reg_commands.c find it: regular  *)
(* files of some size, directories, a limited number of descriptors.       *)
(* Installs, uninstalls and scripts run in threads of their own, so any    *)
(* entry may be replaced, removed or created between two calls of a        *)
(* command.  DFS and eos_fs are not in the repository.                     *)
(***************************************************************************)
EXTENDS Integers, FiniteSets

CONSTANTS
    Paths,        \* entries the commands can come across
    Sizes,        \* bound: sizes of a file
    NoFile, IsDir,   \* what else can be found under a path
    FdMax         \* bound: descriptors

ASSUME SizesAssumption == Sizes \subseteq Nat
ASSUME KindAssumption  == NoFile \notin Nat /\ IsDir \notin Nat
ASSUME FdAssumption    == FdMax \in Nat

VARIABLES
    shell,        \* the command the shell thread executes, or "prompt"
    files,        \* files[p]: the size of p, NoFile or IsDir
    touched,      \* history: a file has changed since the command was typed
    fds,          \* open descriptors
    halted        \* an assertion has stopped the watch, or its memory is
                  \* overwritten and nothing is said of it until it restarts

filesVars == <<shell, files, touched, fds, halted>>

IsFile(p)  == files[p] \in Sizes
CanOpen(p) == IsFile(p) /\ fds < FdMax

FilesTypeOK ==
    /\ files \in [Paths -> Sizes \cup {NoFile, IsDir}]
    /\ touched \in BOOLEAN
    /\ fds \in 0..FdMax
    /\ halted \in BOOLEAN

\* The volume holds anything when the watch comes up.
FilesInit ==
    /\ shell = "prompt"
    /\ files \in [Paths -> Sizes \cup {NoFile, IsDir}]
    /\ touched = FALSE
    /\ fds = 0
    /\ halted = FALSE

\* Another thread writes, creates or removes p; directories stay.
Change(p, new) ==
    /\ files[p] # IsDir /\ new # IsDir /\ new # files[p]
    /\ files' = [files EXCEPT ![p] = new]
    /\ touched' = (shell # "prompt")
    /\ UNCHANGED <<shell, fds, halted>>
=============================================================================

----------------------------- MODULE SendHistory -----------------------------
(***************************************************************************)
(* The list of recently sent files of tools/ymodem_send.py: a JSON file in *)
(* the home directory that every invocation of the tool reads, changes and *)
(* writes back whole.  Nothing locks it, and it is written in place: an    *)
(* invocation may read it between the truncation and the write of another, *)
(* or be killed there.                                                     *)
(***************************************************************************)
EXTENDS SequencesExt

CONSTANTS
    Files,        \* absolute paths of files
    Tools,        \* invocations of the tool that may run at the same time
    MaxHistory,   \* MAX_HISTORY (50)
    MaxUses       \* bound: files chosen altogether

ASSUME HistoryAssumption == MaxHistory \in Nat \ {0} /\ MaxUses \in Nat
ASSUME TornAssumption    == "torn" \notin Files /\ "garbled" \notin Files

Torn    == <<"torn">>      \* what a truncated file holds: nothing, and no JSON
Garbled == <<"garbled">>   \* no JSON either: a part of a text, or two mixed

VARIABLES
    disk,         \* content of HISTORY_FILE, <<>> also when it is absent
    step,         \* step[t]: where invocation t is in add_to_history
    filepath,     \* the file it is going to send
    history,      \* its local list
    uses,         \* history: the files chosen, latest first
    upset         \* history: two invocations met, or one was killed

vars == <<disk, step, filepath, history, uses, upset>>

Steps == {"choose", "load", "save", "write", "done"}

Lists == {s \in BoundedSeq(Files, MaxHistory) : IsInjective(s)}

\* What the file and every list an invocation is about to save must be: a
\* path is listed once, and no more than MAX_HISTORY are.
TypeOK ==
    /\ disk \in Lists \cup {Torn, Garbled}
    /\ step \in [Tools -> Steps]
    /\ filepath \in [Tools -> Files]
    /\ history \in [Tools -> Lists]
    /\ uses \in BoundedSeq(Files, MaxUses)
    /\ upset \in BOOLEAN

Init ==
    /\ disk = <<>>
    /\ step = [t \in Tools |-> "choose"]
    /\ filepath \in [Tools -> Files]
    /\ history = [t \in Tools |-> <<>>]
    /\ uses = <<>>
    /\ upset = FALSE

-----------------------------------------------------------------------------
\* load_history: a file that does not parse counts as empty.
load_history == IF disk \in {Torn, Garbled} THEN <<>> ELSE disk

\* pick_from_history lets the operator take any listed file; --file and the
\* file dialog any file at all.  The list that was shown is not used again.
Choose(t, f) ==
    /\ step[t] = "choose"
    /\ step' = [step EXCEPT ![t] = "load"]
    /\ filepath' = [filepath EXCEPT ![t] = f]
    /\ UNCHANGED <<disk, history, uses, upset>>

\* Slips: the file's old place is kept; the new file is put behind the others.
KeepsOldPlace(h, f) == SubSeq(<<f>> \o h, 1, Min({MaxHistory, Len(h) + 1}))
PutLast(h, f)       == LET l == Append(RemoveFirst(h, f), f)
                       IN SubSeq(l, 1, Min({MaxHistory, Len(l)}))

\* The list with f moved, or put, in front, and cut.
WithLatest(h, f) == LET l == <<f>> \o RemoveFirst(h, f)
                    IN SubSeq(l, 1, Min({MaxHistory, Len(l)}))

Busy(t) == step[t] \in {"save", "write"}

\* add_to_history up to the call of save_history.
Load(t) ==
    /\ step[t] = "load"
    /\ Len(uses) < MaxUses
    /\ history' = [history EXCEPT ![t] = WithLatest(load_history, filepath[t])]
    /\ step' = [step EXCEPT ![t] = "save"]
    /\ uses' = <<filepath[t]>> \o uses
    /\ upset' = (upset \/ \E u \in Tools : Busy(u))
    /\ UNCHANGED <<disk, filepath>>

\* write_text opens the file, which truncates it ...
Truncate(t) ==
    /\ step[t] = "save"
    /\ disk' = Torn
    /\ step' = [step EXCEPT ![t] = "write"]
    /\ UNCHANGED <<filepath, history, uses, upset>>

\* ... and writes the text.  When another invocation has written since, the
\* end of a longer text remains behind this one.
Write(t) ==
    /\ step[t] = "write"
    /\ \/ disk' = history[t]
       \/ disk # Torn /\ disk' = Garbled
    /\ step' = [step EXCEPT ![t] = "done"]
    /\ history' = [history EXCEPT ![t] = <<>>]
    /\ UNCHANGED <<filepath, uses, upset>>

\* The transfer is over, with whatever result; the tool may be called again.
Again(t) ==
    /\ step[t] = "done"
    /\ step' = [step EXCEPT ![t] = "choose"]
    /\ UNCHANGED <<disk, filepath, history, uses, upset>>

\* The operator interrupts it, or the disk is full: what is not written is
\* lost, and only a part of the text may have been.
Killed(t) ==
    /\ step[t] \in {"load", "save", "write"}
    /\ step' = [step EXCEPT ![t] = "choose"]
    /\ history' = [history EXCEPT ![t] = <<>>]
    /\ upset' = (upset \/ Busy(t))
    /\ \/ UNCHANGED disk
       \/ step[t] = "write" /\ disk' = Garbled
    /\ UNCHANGED <<filepath, uses>>

Next == \E t \in Tools : \/ \E f \in Files : Choose(t, f)
                         \/ Load(t) \/ Truncate(t) \/ Write(t)
                         \/ Again(t) \/ Killed(t)

Spec == Init /\ [][Next]_vars

-----------------------------------------------------------------------------
(***************************************************************************)
(* Properties.                                                             *)
(***************************************************************************)

\* In u, a list of files chosen, f comes before every place of g.
MoreRecent(u, f, g) == \E i \in 1..Len(u) :
                          u[i] = f /\ \A j \in 1..i : u[j] # g

\* l lists files of u, latest first, and leaves out only what MAX_HISTORY
\* others have been chosen after.
LatestOf(l, u) ==
    /\ \A i \in 1..Len(l) : l[i] \in Range(u)
    /\ \A i, j \in 1..Len(l) : i < j => MoreRecent(u, l[i], l[j])
    /\ \A f \in Range(u) \ Range(l) :
          /\ Len(l) = MaxHistory
          /\ \A i \in 1..Len(l) : MoreRecent(u, l[i], f)

\* As long as invocations do not meet and none is killed while it saves, the
\* file lists the files last sent, latest first.
ListsLatest ==
    (~upset /\ \A t \in Tools : ~Busy(t)) => LatestOf(disk, uses)
=============================================================================

---------------------------- MODULE FileTransfer ----------------------------
(***************************************************************************)
(* What an upload promises, with no word of packets, characters or         *)
(* descriptors: one file at a time is sent; only its path is written; what *)
(* is written grows as a prefix of the file; what has not been settled on  *)
(* the medium may be cut by a restart; and the tool reports success only   *)
(* for a file that is whole and settled.                                   *)
(***************************************************************************)
EXTENDS Integers, Sequences

CONSTANTS Names,      \* the files that can be sent
          Path,       \* Path[n]: where file n is stored
          Whole       \* Whole[n]: its content

VARIABLES file,       \* the file being sent, or sent last
          outcome,    \* "idle", "sending", "complete", "failed"
          store,      \* what every path holds
          unsettled   \* the paths whose content may still be lost

vars == <<file, outcome, store, unsettled>>

Paths == {Path[n] : n \in Names}
Here  == Path[file]

Init == /\ file \in Names
        /\ outcome = "idle"
        /\ store = [p \in Paths |-> <<>>]
        /\ unsettled = {}

Begin(n) == /\ outcome # "sending"
            /\ outcome' = "sending"
            /\ file' = n
            /\ UNCHANGED <<store, unsettled>>

\* What an attempt does to the file, until it is reported complete.
Create == /\ outcome \in {"sending", "failed"}
          /\ store' = [store EXCEPT ![Here] = <<>>]
          /\ unsettled' = unsettled \cup {Here}
          /\ UNCHANGED <<file, outcome>>

Extend == /\ outcome \in {"sending", "failed"}
          /\ Here \in unsettled
          /\ \E k \in Len(store[Here])..Len(Whole[file]) :
                /\ store[Here] = SubSeq(Whole[file], 1, Len(store[Here]))
                /\ store' = [store EXCEPT ![Here] = SubSeq(Whole[file], 1, k)]
          /\ UNCHANGED <<file, outcome, unsettled>>

Settle == /\ outcome \in {"sending", "failed"}
          /\ unsettled' = unsettled \ {Here}
          /\ UNCHANGED <<file, outcome, store>>

Finish == /\ outcome = "sending"
          /\ store[Here] = Whole[file]
          /\ Here \notin unsettled
          /\ outcome' = "complete"
          /\ UNCHANGED <<file, store, unsettled>>

GiveUp == /\ outcome = "sending"
          /\ outcome' = "failed"
          /\ UNCHANGED <<file, store, unsettled>>

\* A restart of the watch, at any time.
Crash == /\ unsettled' = {}
         /\ DOMAIN store' = Paths
         /\ \A p \in Paths \ unsettled : store'[p] = store[p]
         /\ \A p \in unsettled :
               \E k \in 0..Len(store[p]) : store'[p] = SubSeq(store[p], 1, k)
         /\ UNCHANGED <<file, outcome>>

Next == \/ \E n \in Names : Begin(n)
        \/ Create \/ Extend \/ Settle \/ Finish \/ GiveUp \/ Crash

Spec == Init /\ [][Next]_vars
=============================================================================

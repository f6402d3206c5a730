------------------------------ MODULE MCYmodem ------------------------------
(***************************************************************************)
(* Small instances of Ymodem.  Packets carry two bytes.  The files: one    *)
(* that fills its last packet, one that does not, one whose long name      *)
(* on_begin's 64 byte buffer cuts to the path of the first, an empty one,  *)
(* and one beyond the size limit.                                          *)
(***************************************************************************)
EXTENDS Ymodem

CONSTANTS even, odd, twin, empty, huge

MCSize == [n \in Names |->
              CASE n = even  -> 4
                [] n = odd   -> 3
                [] n = twin  -> 3
                [] n = empty -> 0
                [] n = huge  -> 5]

MCDevPath == [n \in Names |-> IF n = twin THEN even ELSE n]
=============================================================================

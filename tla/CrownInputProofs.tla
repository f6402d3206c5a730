-------------------------- MODULE CrownInputProofs --------------------------
(***************************************************************************)
(* For any number of clicks: the counts of the crown add up.               *)
(***************************************************************************)
EXTENDS CrownInput, TLAPS

USE DEF CrownPins, Pins, Tried, handlerVars, readerVars

\* Every state the handlers, the reads and the set-up of main.c lead to is
\* well typed.
THEOREM TypeCorrect == Spec => []TypeOK
<1>1. Init => TypeOK
  <2> SUFFICES ASSUME Init PROVE TypeOK
    OBVIOUS
  <2>1. reading \in BOOLEAN /\ raced \in BOOLEAN
    BY Zenon DEF Init
  <2> QED
    BY <2>1 DEF Init, TypeOK
<1>2. TypeOK /\ [Next]_vars => TypeOK'
  <2> SUFFICES ASSUME TypeOK, [Next]_vars PROVE TypeOK'
    OBVIOUS
  <2>1. CASE Setup
    BY <2>1 DEF Setup, Enable, crown_encoder_init, UpInit, DownInit,
                crown_button_init, side_button_init, IndevCreate, TypeOK
  <2>2. ASSUME NEW pin \in CrownPins, ClickLoad(pin) PROVE TypeOK'
    BY <2>2 DEF ClickLoad, TypeOK
  <2>3. CASE ClickStore
    BY <2>3 DEF ClickStore, TypeOK
  <2>4. CASE ReadLoad
    BY <2>4 DEF ReadLoad, MainRuns, TypeOK
  <2>5. CASE ReadClear
    <3>1. reading' \in BOOLEAN
      BY <2>5, Zenon DEF ReadClear
    <3> QED
      BY <2>5, <3>1 DEF ReadClear, TypeOK
  <2>6. CASE UNCHANGED vars
    BY <2>6 DEF vars, TypeOK
  <2> QED
    BY <2>1, <2>2, <2>3, <2>4, <2>5, <2>6 DEF Next
<1> QED
  BY <1>1, <1>2, PTL DEF Spec

\* What a thread has loaded of encoder_diff and not yet stored back stays in
\* step with what has been clicked and handed over.
LEMMA HeldStep == TypeOK /\ HeldInv /\ [Next]_vars => HeldInv'
<1> SUFFICES ASSUME TypeOK, HeldInv, [Next]_vars PROVE HeldInv'
  OBVIOUS
<1>1. CASE Setup
  BY <1>1 DEF Setup, Enable, crown_encoder_init, UpInit, DownInit,
              crown_button_init, side_button_init, IndevCreate, HeldInv
<1>2. ASSUME NEW pin \in CrownPins, ClickLoad(pin) PROVE HeldInv'
  BY <1>2 DEF ClickLoad, HeldInv, TypeOK
<1>3. CASE ClickStore
  <2>1. (turn = 1 \/ turn = -1) /\ encoder_diff' = held + turn
    BY <1>3 DEF ClickStore, TypeOK
  <2>2. ups' - downs' = (ups - downs) + turn /\ ups <= ups' /\ downs <= downs'
    BY <1>3, <2>1 DEF ClickStore, TypeOK
  <2>3. preempts => reported' + encoder_diff' <= ups'
                    /\ -downs' <= reported' + encoder_diff'
    BY <1>3, <2>1 DEF ClickStore, HeldInv, TypeOK
  <2>4. preempts /\ reading => reported' + enc_diff' <= ups'
                               /\ -downs' <= reported' + enc_diff'
    BY <1>3, <2>2 DEF ClickStore, HeldInv, TypeOK
  <2>5. ~raced => reported' + encoder_diff' = ups' - downs' /\ ~reading
    BY <1>3, <2>1, <2>2 DEF ClickStore, HeldInv, TypeOK
  <2> QED
    BY <1>3, <2>3, <2>4, <2>5 DEF ClickStore, HeldInv, TypeOK
<1>4. CASE ReadLoad
  BY <1>4 DEF ReadLoad, MainRuns, HeldInv, TypeOK
<1>5. CASE ReadClear
  BY <1>5 DEF ReadClear, MainRuns, HeldInv, TypeOK
<1>6. CASE UNCHANGED vars
  BY <1>6 DEF vars, HeldInv
<1> QED
  BY <1>1, <1>2, <1>3, <1>4, <1>5, <1>6 DEF Next

\* What the handler and encoder_read have loaded and not yet stored accounts
\* for every difference between clicks and reports: see HeldInv.
LEMMA HeldCorrect == Spec => []HeldInv
<1>1. Init => HeldInv
  BY DEF Init, HeldInv
<1> QED
  BY <1>1, HeldStep, TypeCorrect, PTL DEF Spec

\* Without an overlap of button_event_handler and encoder_read each click of
\* the crown is handed to LVGL exactly once.
THEOREM Counted == Spec => []EachClickOnce
<1>1. HeldInv => EachClickOnce
  BY DEF HeldInv, EachClickOnce
<1> QED
  BY <1>1, HeldCorrect, PTL

\* With a handler that the main thread cannot interrupt, encoder_read never
\* reports a step that was not clicked.
THEOREM NoPhantomTurn == Spec => []NothingInvented
<1>1. HeldInv => NothingInvented
  BY DEF HeldInv, NothingInvented
<1> QED
  BY <1>1, HeldCorrect, PTL
=============================================================================

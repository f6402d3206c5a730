----------------------------- MODULE CrownInput -----------------------------
(***************************************************************************)
(* The buttons of src/main.c.  Two of them turn the crown: the button      *)
(* library calls button_event_handler in a thread (or interrupt) of its    *)
(* own, which adds to encoder_diff; LVGL calls encoder_read in the main    *)
(* thread, which hands encoder_diff over and clears it.  Nothing guards    *)
(* encoder_diff, so a load and the store that follows are separate steps.  *)
(***************************************************************************)
EXTENDS Integers

CONSTANT MaxClicks    \* bound: clicks of the crown
ASSUME ClicksAssumption == MaxClicks \in Nat

VARIABLES
    preempts,     \* never changes: nothing of the main thread runs while a
                  \* handler does
    boot,         \* where lv_port_indev_init is
    enabled,      \* pins whose button is enabled
    encoder_diff, \* the static of main.c
    turn, held,   \* the handler: what it adds (0: none runs), what it loaded
    reading, enc_diff,  \* encoder_read: running, and data->enc_diff
    ups, downs,   \* history: finished clicks of either direction
    reported,     \* history: the sum of what LVGL has been handed
    raced         \* history: a handler and a read have overlapped

handlerVars == <<turn, held>>
readerVars  == <<reading, enc_diff>>
vars == <<preempts, boot, enabled, encoder_diff, handlerVars, readerVars,
          ups, downs, reported, raced>>

CrownPins == {"CROWN_UP_PIN", "CROWN_DOWN_PIN"}
Pins      == CrownPins \cup {"CROWN_BTN_PIN", "SIDE_BTN_PIN"}

\* The pins whose button the set-up has come to at stage b.
Tried(b) == CASE b = "encoder" -> {}
              [] b = "down"    -> {"CROWN_UP_PIN"}
              [] b = "crown"   -> CrownPins
              [] b = "side"    -> CrownPins \cup {"CROWN_BTN_PIN"}
              [] OTHER         -> Pins

\* A button works only when the set-up has come to it, and the handler runs
\* only for one that works.
TypeOK ==
    /\ preempts \in BOOLEAN
    /\ boot \in {"encoder", "down", "crown", "side", "indev", "running"}
    /\ enabled \subseteq Tried(boot)
    /\ encoder_diff \in Int
    /\ turn \in {-1, 0, 1}
    /\ turn = 1 => "CROWN_UP_PIN" \in enabled
    /\ turn = -1 => "CROWN_DOWN_PIN" \in enabled
    /\ held \in Int
    /\ reading \in BOOLEAN
    /\ enc_diff \in Int
    /\ ups \in Nat /\ downs \in Nat
    /\ reported \in Int
    /\ raced \in BOOLEAN

Init ==
    /\ preempts \in BOOLEAN
    /\ boot = "encoder"
    /\ enabled = {}
    /\ encoder_diff = 0
    /\ turn = 0 /\ held = 0
    /\ reading = FALSE /\ enc_diff = 0
    /\ ups = 0 /\ downs = 0
    /\ reported = 0
    /\ raced = FALSE

-----------------------------------------------------------------------------
(***************************************************************************)
(* lv_port_indev_init, in the main thread.  A button works from the moment *)
(* it is enabled.  One that cannot be registered is left out, and then the *)
(* downward button is not tried after the upward one; but the result of    *)
(* button_enable is not looked at, so each may also stay dead by itself.   *)
(***************************************************************************)
MainRuns == ~preempts \/ turn = 0

Enable(from, to, sets) ==
    /\ boot = from /\ MainRuns
    /\ boot' = to
    /\ \E new \in sets : enabled' = enabled \cup new
    /\ UNCHANGED <<preempts, encoder_diff, handlerVars, readerVars,
                   ups, downs, reported, raced>>

\* Slip: the pin is set for the downward button before the upward one is
\* registered.
UpInitAsDown == \/ Enable("encoder", "crown", {{}})
                \/ Enable("encoder", "down", {{}, {"CROWN_DOWN_PIN"}})

UpInit   == \/ Enable("encoder", "crown", {{}})
            \/ Enable("encoder", "down", {{}, {"CROWN_UP_PIN"}})
DownInit == Enable("down", "crown", {{}, {"CROWN_DOWN_PIN"}})

crown_encoder_init == UpInit \/ DownInit
crown_button_init  == Enable("crown", "side", {{}, {"CROWN_BTN_PIN"}})
side_button_init   == Enable("side", "indev", {{}, {"SIDE_BTN_PIN"}})

\* From now on LVGL reads the encoder.
IndevCreate == Enable("indev", "running", {{}})

-----------------------------------------------------------------------------
(***************************************************************************)
(* button_event_handler on BUTTON_CLICKED.  Other actions, and the buttons *)
(* that only report to the system, leave encoder_diff alone.               *)
(***************************************************************************)
ClickLoad(pin) ==
    /\ turn = 0
    /\ pin \in enabled \cap CrownPins
    /\ ups + downs < MaxClicks
    /\ turn' = IF pin = "CROWN_UP_PIN" THEN 1 ELSE -1
    /\ held' = encoder_diff
    /\ raced' = (raced \/ reading)
    /\ UNCHANGED <<preempts, boot, enabled, encoder_diff, readerVars,
                   ups, downs, reported>>

\* Slip: what was turned since the last read is replaced, not added to.
ClickReplaces ==
    /\ turn # 0
    /\ encoder_diff' = turn
    /\ turn' = 0 /\ held' = 0
    /\ ups' = IF turn = 1 THEN ups + 1 ELSE ups
    /\ downs' = IF turn = -1 THEN downs + 1 ELSE downs
    /\ UNCHANGED <<preempts, boot, enabled, readerVars, reported, raced>>

ClickStore ==
    /\ turn # 0
    /\ encoder_diff' = held + turn
    /\ turn' = 0 /\ held' = 0
    /\ ups' = IF turn = 1 THEN ups + 1 ELSE ups
    /\ downs' = IF turn = -1 THEN downs + 1 ELSE downs
    /\ UNCHANGED <<preempts, boot, enabled, readerVars, reported, raced>>

-----------------------------------------------------------------------------
(***************************************************************************)
(* encoder_read.                                                           *)
(***************************************************************************)
ReadLoad ==
    /\ boot = "running" /\ MainRuns
    /\ ~reading
    /\ reading' = TRUE
    /\ enc_diff' = encoder_diff
    /\ raced' = (raced \/ turn # 0)
    /\ UNCHANGED <<preempts, boot, enabled, encoder_diff, handlerVars,
                   ups, downs, reported>>

\* Slips: encoder_diff is not cleared; a single step is kept back.
ReadDeadZone ==
    /\ reading /\ MainRuns
    /\ encoder_diff' = IF enc_diff \in -1..1 THEN encoder_diff ELSE 0
    /\ reported' = IF enc_diff \in -1..1 THEN reported ELSE reported + enc_diff
    /\ reading' = FALSE /\ enc_diff' = 0
    /\ UNCHANGED <<preempts, boot, enabled, handlerVars, ups, downs, raced>>

ReadKeeps ==
    /\ reading /\ MainRuns
    /\ reading' = FALSE /\ enc_diff' = 0
    /\ reported' = reported + enc_diff
    /\ UNCHANGED <<preempts, boot, enabled, encoder_diff, handlerVars,
                   ups, downs, raced>>

ReadClear ==
    /\ reading /\ MainRuns
    /\ encoder_diff' = 0
    /\ reading' = FALSE /\ enc_diff' = 0
    /\ reported' = reported + enc_diff
    /\ UNCHANGED <<preempts, boot, enabled, handlerVars, ups, downs, raced>>

-----------------------------------------------------------------------------
Setup == \/ crown_encoder_init \/ crown_button_init
         \/ side_button_init \/ IndevCreate

Next == \/ Setup
        \/ \E pin \in CrownPins : ClickLoad(pin)
        \/ ClickStore
        \/ ReadLoad \/ ReadClear

Spec == Init /\ [][Next]_vars

\* The main loop goes on, and so does a handler that has been called.
FairSpec == /\ Spec
            /\ WF_vars(Setup)
            /\ WF_vars(ClickStore)
            /\ WF_vars(ReadLoad \/ ReadClear)

-----------------------------------------------------------------------------
(***************************************************************************)
(* Properties.                                                             *)
(***************************************************************************)

\* As long as no click has fallen into a read, every step of the crown is
\* handed to LVGL once, with its direction, those before the first read
\* included: the sum handed over and the sum still held are all clicks.
EachClickOnce ==
    ~raced => reported + encoder_diff = ups - downs

\* When the handler cannot be interrupted by the main thread, a click that
\* falls between the load and the clearing of encoder_read can be lost, but
\* none is ever counted twice or in the wrong direction.
NothingInvented ==
    preempts => /\ reported + encoder_diff <= ups
                /\ -downs <= reported + encoder_diff

\* The inductive invariant behind both, for the proofs: what either thread
\* holds of encoder_diff between its load and its store.
HeldInv ==
    /\ turn = 0 => held = 0
    /\ ~raced => ~(reading /\ turn # 0)
    /\ ~raced => /\ reported + encoder_diff = ups - downs
                 /\ turn # 0 => held = encoder_diff
                 /\ reading => enc_diff = encoder_diff
    /\ preempts =>
          /\ turn # 0 => held = encoder_diff
          /\ \A e \in {encoder_diff} \cup (IF reading THEN {enc_diff} ELSE {}) :
                reported + e <= ups /\ -downs <= reported + e

\* When the crown rests, LVGL soon holds everything: no turn stays in
\* encoder_diff, so the first step of the next turn is not a jump.
RestIsHandedOver ==
    <>[][\A pin \in CrownPins : ~ClickLoad(pin)]_vars =>
        <>[](encoder_diff = 0 /\ turn = 0)
=============================================================================

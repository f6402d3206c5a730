------------------------- MODULE DeviceManagerProofs -------------------------
(***************************************************************************)
(* Whatever the size of the message pool and however many threads post:    *)
(* the device manager brings Bluetooth to the state of the last accepted   *)
(* switch.                                                                 *)
(***************************************************************************)
EXTENDS DeviceManager, TLAPS

\* The pool of sifli_device.c holds some number of messages, perhaps none.
LEMMA CapacityIsNat == Capacity \in Nat
BY PoolAssumption DEF Capacity

\* No step puts more messages into the queue than its pool holds.
LEMMA TypeStep == TypeOK /\ [Next]_vars => TypeOK'
<1> SUFFICES ASSUME TypeOK, [Next]_vars PROVE TypeOK'
  OBVIOUS
<1> USE CapacityIsNat DEF TypeOK
<1>1. CASE InitQueue \/ InitThread
  BY <1>1 DEF InitQueue, InitThread
<1>2. ASSUME NEW m \in Messages, Post(m) PROVE TypeOK'
  <2>1. Len(mq) \in Nat
    OBVIOUS
  <2>2. wanted' \in BleStates
    <3>1. m \in Switches => BtOf[m] \in BleStates
      BY DEF BtOf, BleStates
    <3> QED
      BY <1>2, <3>1 DEF Post
  <2>3. mq' \in Seq(Messages) /\ Len(mq') <= Capacity
    BY <1>2, <2>1 DEF Post
  <2>4. refusedAt' \subseteq 0..Capacity
    <3>1. Len(mq) >= Capacity => Len(mq) \in 0..Capacity
      BY <2>1
    <3> QED
      BY <1>2, <3>1 DEF Post
  <2> QED
    BY <1>2, <2>2, <2>3, <2>4 DEF Post
<1>3. CASE Take
  <2>1. Head(mq) \in Messages /\ Tail(mq) \in Seq(Messages)
        /\ Len(Tail(mq)) <= Capacity
    BY <1>3 DEF Take
  <2> QED
    BY <1>3, <2>1 DEF Take
<1>4. CASE Act
  BY <1>4 DEF Act, Idle, BtOf, BleStates, Messages, Switches
<1>5. CASE PostNowhere
  BY <1>5 DEF PostNowhere
<1>6. CASE UNCHANGED vars
  BY <1>6 DEF vars
<1> QED
  BY <1>1, <1>2, <1>3, <1>4, <1>5, <1>6 DEF Next, Send

\* The variables stay in their types: device_ctrl_mq never holds more than
\* its pool, the Bluetooth state is always one a switch asks for.
THEOREM TypeCorrect == Spec => []TypeOK
<1>1. Init => TypeOK
  BY CapacityIsNat DEF Init, TypeOK, BleStates, Messages
<1> QED
  BY <1>1, TypeStep, PTL DEF Spec

-----------------------------------------------------------------------------
\* Posting appends: the last switch changes only if the message is one.
LEMMA PostKeeps ==
    ASSUME TypeOK, LastSwitchWins, NEW m \in Messages, Post(m)
    PROVE  LastSwitchWins'
<1> USE DEF TypeOK
<1>1. CASE UNCHANGED <<mq, wanted>>
  BY <1>1 DEF Post, LastSwitchWins, IsLastQueued, NoneQueued, Idle
<1>2. CASE /\ mq' = Append(mq, m)
           /\ wanted' = IF m \in Switches THEN BtOf[m] ELSE wanted
  <2>0. PICK n \in Nat : n = Len(mq)
    OBVIOUS
  <2>1. /\ Len(mq') = n + 1 /\ mq'[n + 1] = m
        /\ \A i \in 1..n : mq'[i] = mq[i]
    BY <1>2, <2>0
  <2>2. UNCHANGED <<msg, ble_state>>
    BY DEF Post
  <2>3. CASE m \in Switches
    <3>1. wanted' = BtOf[m]
      BY <1>2, <2>3
    <3>2. \A i \in 1..n : ~IsLastQueued(i)'
      BY <2>1, <2>3 DEF IsLastQueued
    <3>3. ~NoneQueued'
      BY <2>1, <2>3 DEF NoneQueued
    <3> QED
      BY <2>1, <3>1, <3>2, <3>3 DEF LastSwitchWins
  <2>4. CASE m \notin Switches
    <3>1. \A i \in 1..n : IsLastQueued(i)' => IsLastQueued(i)
      BY <2>1, <2>4, <2>0 DEF IsLastQueued
    <3>2. ~IsLastQueued(n + 1)'
      BY <2>1, <2>4 DEF IsLastQueued
    <3>3. NoneQueued' => NoneQueued
      <4>1. \A i \in 1..n : i \in 1..Len(mq')
        BY <2>1
      <4> QED
        BY <2>1, <4>1, <2>0 DEF NoneQueued
    <3>4. wanted' = wanted /\ Idle' = Idle
      BY <1>2, <2>2, <2>4 DEF Idle
    <3>5. \A i \in 1..Len(mq') : IsLastQueued(i)' => wanted' = BtOf[mq'[i]]
      BY <2>1, <3>1, <3>2, <3>4, <2>0 DEF LastSwitchWins
    <3> QED
      BY <2>2, <3>3, <3>4, <3>5 DEF LastSwitchWins
  <2> QED
    BY <2>3, <2>4
<1> QED
  BY <1>1, <1>2 DEF Post

\* Taking the oldest message moves it from the queue to msg.
LEMMA TakeKeeps ==
    ASSUME TypeOK, LastSwitchWins, Take
    PROVE  LastSwitchWins'
<1> USE DEF TypeOK
<1>0. PICK n \in Nat : n = Len(mq)
  OBVIOUS
<1>1. /\ n >= 1 /\ Len(mq') = n - 1
      /\ \A i \in 1..n-1 : mq'[i] = mq[i + 1]
      /\ msg' = mq[1]
  BY <1>0 DEF Take
<1>2. UNCHANGED <<ble_state, wanted>> /\ Idle
  BY DEF Take
<1>3. \A i \in 1..n-1 : IsLastQueued(i)' => IsLastQueued(i + 1)
  <2> SUFFICES ASSUME NEW i \in 1..n-1, IsLastQueued(i)',
                      NEW j \in i+2..n
               PROVE  mq[i + 1] \in Switches /\ mq[j] \notin Switches
    BY <1>1, <1>0 DEF IsLastQueued
  <2>1. mq'[i] \in Switches /\ mq'[j - 1] \notin Switches
    BY <1>1 DEF IsLastQueued
  <2> QED
    BY <1>1, <2>1
<1>4. ASSUME NoneQueued' PROVE wanted' = IF Idle' THEN ble_state' ELSE BtOf[msg']
  <2>1. \A j \in 2..n : mq[j] \notin Switches
    <3> SUFFICES ASSUME NEW j \in 2..n PROVE mq[j] \notin Switches
      OBVIOUS
    <3>1. mq'[j - 1] = mq[j] /\ j - 1 \in 1..Len(mq')
      BY <1>1
    <3> QED
      BY <1>4, <3>1 DEF NoneQueued
  <2>2. CASE mq[1] \in Switches
    <3>1. IsLastQueued(1)
      BY <1>1, <2>1, <2>2, <1>0 DEF IsLastQueued
    <3>2. wanted = BtOf[mq[1]]
      BY <1>1, <3>1, <1>0 DEF LastSwitchWins
    <3>3. ~Idle'
      BY <1>1, <2>2 DEF Idle, Switches
    <3> QED
      BY <1>1, <1>2, <3>2, <3>3
  <2>3. CASE mq[1] \notin Switches
    <3>1. NoneQueued
      BY <1>1, <2>1, <2>3, <1>0 DEF NoneQueued
    <3>2. mq[1] \in Messages
      BY <1>1, <1>0
    <3>3. Idle'
      BY <1>1, <2>3, <3>2 DEF Idle, Messages
    <3> QED
      BY <1>2, <3>1, <3>3 DEF LastSwitchWins
  <2> QED
    BY <2>2, <2>3
<1>5. ASSUME NEW i \in 1..Len(mq'), IsLastQueued(i)'
      PROVE  wanted' = BtOf[mq'[i]]
  BY <1>1, <1>2, <1>3, <1>5, <1>0 DEF LastSwitchWins
<1> QED
  BY <1>4, <1>5 DEF LastSwitchWins

\* At every moment the messages accepted and not yet acted upon lead to the
\* state the last of them asks for: on and off are handled in the order of
\* acceptance, each once.
THEOREM LastSwitch == Spec => []LastSwitchWins
<1>1. Init => LastSwitchWins
  BY DEF Init, LastSwitchWins, NoneQueued, Idle
<1>2. TypeOK /\ LastSwitchWins /\ [Next]_vars => LastSwitchWins'
  <2> SUFFICES ASSUME TypeOK, LastSwitchWins, [Next]_vars
               PROVE  LastSwitchWins'
    OBVIOUS
  <2>1. CASE InitQueue \/ InitThread \/ PostNowhere \/ UNCHANGED vars
    BY <2>1 DEF InitQueue, InitThread, PostNowhere, vars, LastSwitchWins,
                IsLastQueued, NoneQueued, Idle
  <2>2. CASE Act
    <3>1. UNCHANGED <<mq, wanted>> /\ ~Idle /\ Idle' /\ ble_state' = BtOf[msg]
      BY <2>2 DEF Act, Idle
    <3> QED
      BY <3>1 DEF LastSwitchWins, IsLastQueued, NoneQueued
  <2>3. CASE Take
    BY <2>3, TakeKeeps
  <2>4. ASSUME NEW m \in Messages, Post(m) PROVE LastSwitchWins'
    BY <2>4, PostKeeps
  <2> QED
    BY <2>1, <2>2, <2>3, <2>4 DEF Next, Send
<1> QED
  BY <1>1, <1>2, TypeCorrect, PTL DEF Spec
=============================================================================

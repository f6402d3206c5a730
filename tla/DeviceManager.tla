---------------------------- MODULE DeviceManager ----------------------------
(***************************************************************************)
(* The device manager, src/sifli_device.c, and the Bluetooth state it      *)
(* switches, src/sifli_ble.c: any thread posts a message with              *)
(* sifli_device_send, one thread takes them from the queue and acts.  The  *)
(* queue is RT-Thread's: a post to a full queue is refused, and            *)
(* sifli_device_send does not look at the result.                          *)
(***************************************************************************)
EXTENDS Integers, Sequences

CONSTANTS
    PoolBytes,    \* sizeof(msg_pool)
    MsgBytes,     \* sizeof(sifli_device_msg_t)
    HeaderBytes   \* what the kernel adds to every message of a pool

ASSUME PoolAssumption == /\ PoolBytes \in Nat
                         /\ MsgBytes \in Nat \ {0}
                         /\ HeaderBytes \in Nat

\* DEVICE_MGR_MSG_MQ_MAX_MSG, and what rt_mq_init makes of the pool.
MaxMsg   == 32
Capacity == PoolBytes \div (MsgBytes + HeaderBytes)

\* sifli_device_msg_t; BtOf[m] is the state message m asks for.
Switches == {"BT_ON", "BT_OFF"}
Messages == Switches \cup {"NULL"}
BtOf == [m \in Switches |-> IF m = "BT_ON" THEN "ADVERTISING" ELSE "OFF"]
BleStates == {"OFF", "ADVERTISING"}

VARIABLES
    phase,        \* "boot", then what sifli_device_init has come to; "halted"
                  \* after a post to a queue that is not there
    mq,           \* the messages in device_ctrl_mq
    msg,          \* what the manager's thread has taken and not yet done
    ble_state,    \* of sifli_ble.c
    wanted,       \* history: what the last accepted switch asks for
    refusedAt     \* history: how many messages were queued at each refusal

vars == <<phase, mq, msg, ble_state, wanted, refusedAt>>

TypeOK ==
    /\ phase \in {"boot", "noqueue", "queue", "nothread", "serving", "halted"}
    /\ mq \in Seq(Messages)
    /\ Len(mq) <= Capacity
    /\ msg \in Messages
    /\ ble_state \in BleStates
    /\ wanted \in BleStates
    /\ refusedAt \subseteq 0..Capacity

Init ==
    /\ phase = "boot"
    /\ mq = <<>>
    /\ msg = "NULL"
    /\ ble_state = "OFF"
    /\ wanted = "OFF"
    /\ refusedAt = {}

-----------------------------------------------------------------------------
(***************************************************************************)
(* sifli_device_init: the queue, then the thread; either may fail, and the *)
(* watch goes on without.  Threads that are already running may post       *)
(* before, meanwhile and afterwards.                                       *)
(***************************************************************************)
InitQueue ==
    /\ phase = "boot"
    /\ phase' \in {"queue", "noqueue"}
    /\ UNCHANGED <<mq, msg, ble_state, wanted, refusedAt>>

InitThread ==
    /\ phase = "queue"
    /\ phase' \in {"serving", "nothread"}
    /\ UNCHANGED <<mq, msg, ble_state, wanted, refusedAt>>

HasQueue == phase \in {"queue", "nothread", "serving"}

\* Slip: room for one message more than the pool has.
PostUnbounded(m) ==
    /\ HasQueue
    /\ Len(mq) <= Capacity
    /\ mq' = Append(mq, m)
    /\ wanted' = IF m \in Switches THEN BtOf[m] ELSE wanted
    /\ UNCHANGED <<phase, msg, ble_state, refusedAt>>

\* rt_mq_send behind sifli_device_send.
Post(m) ==
    /\ HasQueue
    /\ \/ /\ Len(mq) < Capacity
          /\ mq' = Append(mq, m)
          /\ wanted' = IF m \in Switches THEN BtOf[m] ELSE wanted
          /\ UNCHANGED refusedAt
       \/ /\ Len(mq) >= Capacity
          /\ refusedAt' = refusedAt \cup {Len(mq)}
          /\ UNCHANGED <<mq, wanted>>
    /\ UNCHANGED <<phase, msg, ble_state>>

\* Nobody asks whether there is a queue.  The kernel finds an object that is
\* all zero: it refuses the message, or an assertion of its stops the watch.
PostNowhere ==
    /\ phase \in {"boot", "noqueue"}
    /\ phase' \in {phase, "halted"}
    /\ UNCHANGED <<mq, msg, ble_state, wanted, refusedAt>>

Send(m) == Post(m) \/ PostNowhere

-----------------------------------------------------------------------------
(***************************************************************************)
(* device_mgr_thread.  Between taking a message and acting on it other     *)
(* threads run; "NULL" in msg also stands for nothing taken.               *)
(***************************************************************************)
Idle == msg = "NULL"

\* Slip: taken from the wrong end.
TakeLast ==
    /\ phase = "serving" /\ Idle /\ mq # <<>>
    /\ msg' = mq[Len(mq)]
    /\ mq' = SubSeq(mq, 1, Len(mq) - 1)
    /\ UNCHANGED <<phase, ble_state, wanted, refusedAt>>

Take ==
    /\ phase = "serving" /\ Idle /\ mq # <<>>
    /\ msg' = Head(mq)
    /\ mq' = Tail(mq)
    /\ UNCHANGED <<phase, ble_state, wanted, refusedAt>>

\* Slip: the case without its break.
ActFallsThrough ==
    /\ ~Idle
    /\ ble_state' = "OFF"
    /\ msg' = "NULL"
    /\ UNCHANGED <<phase, mq, wanted, refusedAt>>

\* sifli_ble_start or sifli_ble_stop.
Act ==
    /\ ~Idle
    /\ ble_state' = BtOf[msg]
    /\ msg' = "NULL"
    /\ UNCHANGED <<phase, mq, wanted, refusedAt>>

Next == \/ InitQueue \/ InitThread
        \/ \E m \in Messages : Send(m)
        \/ Take \/ Act

Spec == Init /\ [][Next]_vars

\* The manager's thread is scheduled.  Its priority, 25, is below that of the
\* main thread, the shell and the scripts, which are assumed to leave it time.
FairSpec == Spec /\ WF_vars(Take \/ Act)

-----------------------------------------------------------------------------
(***************************************************************************)
(* Properties.                                                             *)
(***************************************************************************)

\* The switch queued last, if any is queued.
IsLastQueued(i) == /\ mq[i] \in Switches
                   /\ \A j \in i+1..Len(mq) : mq[j] \notin Switches
NoneQueued      == \A i \in 1..Len(mq) : mq[i] \notin Switches

\* What is queued and under way always leads to what the last accepted switch
\* asked for, and once the manager has nothing left to do Bluetooth is in
\* that state: on and off posted by several threads in a hurry are neither
\* swapped nor merged nor lost after they have been accepted.
LastSwitchWins ==
    /\ \A i \in 1..Len(mq) : IsLastQueued(i) => wanted = BtOf[mq[i]]
    /\ NoneQueued => wanted = IF Idle THEN ble_state ELSE BtOf[msg]

\* When the threads stop posting, the Bluetooth state settles on the one last
\* asked for, if the manager's thread could be created at all and those above
\* it leave it time.
Settles == <>[][\A m \in Messages : ~Send(m)]_vars =>
              (phase = "serving" ~> (ble_state = wanted /\ mq = <<>> /\ Idle))

\* The queue is declared for 32 messages (DEVICE_MGR_MSG_MQ_MAX_MSG): a post
\* is refused only when as many are waiting.
RefusedOnlyAtMaxMsg == \A n \in refusedAt : n >= MaxMsg
=============================================================================

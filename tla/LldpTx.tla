------------------------------- MODULE LldpTx -------------------------------
(***************************************************************************)
(* The transmit half of the daemon: the 802.1AB transmit state machine of  *)
(* tx_sm.c, run by thread_tx_sm of main.c once on every port of its list   *)
(* and then put to sleep for a second.  thread_rx_sm takes part when it    *)
(* starts: it enables the ports while the tx thread may already run.       *)
(*                                                                         *)
(* A pass of the thread is the unit of time.  For every port the module    *)
(* also follows one listener that hears the port's information frames over *)
(* a link that may lose some, and counts down the time to live they carry. *)
(***************************************************************************)
EXTENDS Integers

CONSTANTS
  Ports,          \* the interfaces on the list lldp_ports
  MsgTxInterval,  \* tx.timers.msgTxInterval
  MsgTxHold,      \* tx.timers.msgTxHold
  TxDelay,        \* tx.timers.txDelay
  ReinitDelay,    \* tx.timers.reinitDelay
  MaxLost         \* bound: frames a listener may miss in a row

\* An unsigned 16 bit counter.
Word == 0 .. 65535

\* min(65535, msgTxInterval * msgTxHold): the arguments of min are 16 bits wide.
TxTTL == (MsgTxInterval * MsgTxHold) % 65536

ASSUME TimerAssumption ==
  /\ MsgTxInterval \in Nat \ {0} /\ MsgTxHold \in Nat /\ ReinitDelay \in Nat
  /\ TxDelay \in 0 .. MsgTxInterval
  /\ MaxLost \in Nat

\* The time to live outlasts the frames the listener may miss: 3 times 6 passes
\* against 20 with the values of txInitializeLLDP.
ASSUME HoldAssumption == (MaxLost + 1) * (MsgTxInterval + 1) < TxTTL

VARIABLES
  txState,          \* tx.state
  portEnabled,      \* portEnabled, which both threads write
  txTTL,            \* tx.txTTL, the time to live the next frame carries
  txTTR,            \* tx.timers.txTTR: passes until the next frame is due
  txDelayWhile,     \* tx.timers.txDelayWhile: passes until one may be sent
  txShutdownWhile,  \* tx.timers.txShutdownWhile
  todo,             \* the ports this pass of the tx thread has still to run
  silence,          \* history: passes since the last information frame
  illegal,          \* history: changes txChangeToState calls illegal
  heldBy,           \* the time to live the listener has left for this port
  lost              \* information frames in a row the listener has missed

vars == <<txState, portEnabled, txTTL, txTTR, txDelayWhile, txShutdownWhile,
          todo, silence, illegal, heldBy, lost>>

TxStates == {"TX_LLDP_INITIALIZE", "TX_IDLE", "TX_SHUTDOWN_FRAME", "TX_INFO_FRAME"}

TypeOK ==
  /\ txState \in [Ports -> TxStates]
  /\ portEnabled \in [Ports -> BOOLEAN]
  /\ txTTL \in [Ports -> Word]
  /\ txTTR \in [Ports -> 0 .. MsgTxInterval]
  /\ txDelayWhile \in [Ports -> 0 .. TxDelay]
  /\ txShutdownWhile \in [Ports -> 0 .. ReinitDelay]
  /\ todo \in SUBSET Ports
  /\ silence \in [Ports -> 0 .. MsgTxInterval + 2]
  /\ illegal \in SUBSET (TxStates \X TxStates)
  /\ heldBy \in [Ports -> Word]
  /\ lost \in [Ports -> 0 .. MaxLost]

\* initialize_lldp has entered TX_IDLE on every port and sent its first frame.
Init ==
  /\ txState = [p \in Ports |-> "TX_IDLE"]
  /\ portEnabled = [p \in Ports |-> FALSE]
  /\ txTTL = [p \in Ports |-> TxTTL]
  /\ txTTR = [p \in Ports |-> MsgTxInterval]
  /\ txDelayWhile = [p \in Ports |-> TxDelay]
  /\ txShutdownWhile = [p \in Ports |-> 0]
  /\ todo = Ports
  /\ silence = [p \in Ports |-> 0]
  /\ illegal = {}
  /\ heldBy = [p \in Ports |-> TxTTL]
  /\ lost = [p \in Ports |-> 0]

-----------------------------------------------------------------------------
\* initialize_lldp is the only writer of adminStatus, and nothing ever sets
\* somethingChangedLocal.
adminStatus == "enabledRxTx"
somethingChangedLocal == FALSE

\* txChangeToState comments these changes with "Error, Illegal transition".
Illegal(from, to) ==
  CASE to = "TX_LLDP_INITIALIZE" -> from # "TX_SHUTDOWN_FRAME"
    [] to = "TX_IDLE"            -> from \notin {"TX_LLDP_INITIALIZE", "TX_INFO_FRAME"}
    [] to = "TX_SHUTDOWN_FRAME"  -> from # "TX_IDLE"
    [] to = "TX_INFO_FRAME"      -> TRUE

\* Mutant of StateBefore: the port is never marked as enabled.
StateBeforeDisabled(p) == "TX_LLDP_INITIALIZE"

\* A port that is not enabled starts anew.
StateBefore(p) == IF portEnabled[p] THEN txState[p] ELSE "TX_LLDP_INITIALIZE"

Elapsed(p) == txTTR[p] = 0 \/ somethingChangedLocal

\* Mutants of Due: either timer will do, and only a change is sent.
DueAfterDelay(p) == txDelayWhile[p] = 0 \/ Elapsed(p)
DueOnChange(p)   == txDelayWhile[p] = 0 /\ somethingChangedLocal

Due(p) == txDelayWhile[p] = 0 /\ Elapsed(p)

\* txGlobalStatemachineRun.
NextState(p) ==
  LET s == StateBefore(p)
  IN  CASE s = "TX_LLDP_INITIALIZE" ->
             IF adminStatus \in {"enabledRxTx", "enabledTxOnly"} THEN "TX_IDLE" ELSE s
        [] s = "TX_IDLE" ->
             IF adminStatus \in {"disabled", "enabledRxOnly"} THEN "TX_SHUTDOWN_FRAME"
             ELSE IF Due(p) THEN "TX_INFO_FRAME" ELSE s
        [] s = "TX_SHUTDOWN_FRAME" ->
             IF txShutdownWhile[p] = 0 THEN "TX_LLDP_INITIALIZE" ELSE s
        [] s = "TX_INFO_FRAME" -> "TX_IDLE"

\* Mutants of Decremented: without its guard, and with a guard off by one.
DecrementedBelow(n) == n - 1
DecrementedToOne(n) == IF n > 1 THEN n - 1 ELSE n

Decremented(n) == IF n > 0 THEN n - 1 ELSE n

\* txStatemachineRun(p): change to state s, keep a note of illegal changes, and
\* update the timers.  Changing to TX_IDLE restarts two of them, the work in
\* TX_LLDP_INITIALIZE and in TX_SHUTDOWN_FRAME sets the third.
Enter(p, s) ==
  LET idle == s = "TX_IDLE" /\ StateBefore(p) # s
      shutdown == CASE s = "TX_LLDP_INITIALIZE" -> 0
                    [] s = "TX_SHUTDOWN_FRAME"  -> ReinitDelay
                    [] OTHER                    -> txShutdownWhile[p]
      restart == IF portEnabled[p] THEN {} ELSE {<<txState[p], StateBefore(p)>>}
      change  == IF StateBefore(p) = s THEN {} ELSE {<<StateBefore(p), s>>}
  IN  /\ p \in todo
      /\ NextState(p) = s
      /\ todo' = todo \ {p}
      /\ portEnabled' = [portEnabled EXCEPT ![p] = TRUE]
      /\ txState' = [txState EXCEPT ![p] = s]
      /\ txTTL' = [txTTL EXCEPT ![p] = IF idle THEN TxTTL ELSE @]
      /\ txTTR' = [txTTR EXCEPT ![p] = Decremented(IF idle THEN MsgTxInterval ELSE @)]
      /\ txDelayWhile' = [txDelayWhile EXCEPT ![p] = Decremented(IF idle THEN TxDelay ELSE @)]
      /\ txShutdownWhile' = [txShutdownWhile EXCEPT ![p] = Decremented(shutdown)]
      /\ illegal' = illegal \cup {c \in restart \cup change : Illegal(c[1], c[2])}

\* Nothing a listener counts as an information frame is sent.
Quiet(p) ==
  /\ \E s \in TxStates \ {"TX_INFO_FRAME"} : Enter(p, s)
  /\ UNCHANGED <<silence, heldBy, lost>>

\* tx_do_tx_info_frame: the listener is told txTTL again, or misses it.
SendInfoFrame(p) ==
  /\ Enter(p, "TX_INFO_FRAME")
  /\ silence' = [silence EXCEPT ![p] = 0]
  /\ \/ /\ heldBy' = [heldBy EXCEPT ![p] = txTTL[p]]
        /\ lost' = [lost EXCEPT ![p] = 0]
     \/ /\ lost[p] < MaxLost
        /\ lost' = [lost EXCEPT ![p] = @ + 1]
        /\ UNCHANGED heldBy

\* Passes are counted as far as the properties tell them apart.
Longer(n) == IF n <= MsgTxInterval + 1 THEN n + 1 ELSE n

\* sleep(1) at the end of a pass.
Sleep ==
  /\ todo = {}
  /\ todo' = Ports
  /\ silence' = [p \in Ports |-> Longer(silence[p])]
  /\ heldBy' = [p \in Ports |-> Decremented(heldBy[p])]
  /\ UNCHANGED <<txState, portEnabled, txTTL, txTTR, txDelayWhile, txShutdownWhile,
                 illegal, lost>>

\* thread_rx_sm, before it enters its loop.
EnablePort(p) ==
  /\ ~portEnabled[p]
  /\ portEnabled' = [portEnabled EXCEPT ![p] = TRUE]
  /\ UNCHANGED <<txState, txTTL, txTTR, txDelayWhile, txShutdownWhile, todo,
                 silence, illegal, heldBy, lost>>

Next ==
  \/ \E p \in Ports : Quiet(p) \/ SendInfoFrame(p) \/ EnablePort(p)
  \/ Sleep

\* The tx thread waits for nothing but its sleep.
Fairness == WF_vars(Sleep) /\ \A p \in Ports : WF_vars(Quiet(p) \/ SendInfoFrame(p))

Spec     == Init /\ [][Next]_vars
FairSpec == Spec /\ Fairness

-----------------------------------------------------------------------------
(* Safety.                                                                 *)

\* Information frames of a port are at most one interval and one pass apart:
\* leaving TX_INFO_FRAME takes a pass of its own, and neither the delay timer
\* nor the race for portEnabled at the start adds to that.
FramesRegular == \A p \in Ports : silence[p] <= MsgTxInterval + 1

\* A listener that ages its entry once a pass never drops the port, as long as
\* it misses no more than MaxLost frames in a row.
NeverDropped == \A p \in Ports : heldBy[p] > 0

\* The inductive invariant behind the two: what the timers say of the silence.
\* The state machine rests in two states only; in TX_IDLE the delay is over when
\* the interval is, and the passes since the last frame and those to the next
\* one add up to an interval, or to one less when the port came to TX_IDLE
\* without a pass in TX_INFO_FRAME; a pass that is not over counts for one more.
Running(p) == IF p \in todo THEN 1 ELSE 0

PortInv(p) ==
  /\ txTTL[p] = TxTTL
  /\ txState[p] \in {"TX_IDLE", "TX_INFO_FRAME"}
  /\ ~portEnabled[p] => txState[p] = "TX_IDLE" /\ silence[p] = 0 /\ p \in todo
  /\ txState[p] = "TX_IDLE" => /\ txDelayWhile[p] <= txTTR[p]
                              /\ silence[p] + txTTR[p] <= MsgTxInterval + Running(p)
                              /\ silence[p] + txTTR[p] + 1 >= MsgTxInterval + Running(p)
  /\ txState[p] = "TX_INFO_FRAME" => silence[p] = Running(p)
  /\ heldBy[p] + silence[p] + lost[p] * (MsgTxInterval + 1) >= TxTTL

\* Of the changes that txChangeToState comments as illegal, two only are ever
\* made, from TX_IDLE: to TX_INFO_FRAME, which has no case of its own, and to
\* TX_LLDP_INITIALIZE, when the tx thread runs a port before the rx thread has
\* enabled it.  The one that is logged, with arguments missing, never is.
OnlyIdleIllegal ==
  illegal \subseteq {"TX_IDLE"} \X {"TX_LLDP_INITIALIZE", "TX_INFO_FRAME"}

Inv == TypeOK /\ OnlyIdleIllegal /\ \A p \in Ports : PortInv(p)

-----------------------------------------------------------------------------
(* What a step may never do.                                               *)

\* Information frames of a port are never closer than an interval, although
\* the machine may be initialized anew right after the first of them.
FramesSpaced ==
  [][\A p \in Ports : txState'[p] = "TX_INFO_FRAME" /\ txState[p] # "TX_INFO_FRAME"
                        => silence[p] >= MsgTxInterval]_vars

-----------------------------------------------------------------------------
(* Liveness, when the tx thread keeps running.                             *)

\* Every port sends information frames for ever.
FramesForever ==
  \A p \in Ports : []<><<silence'[p] = 0 /\ txState'[p] = "TX_INFO_FRAME">>_vars

=============================================================================

---------------------------- MODULE LldpTxProofs ----------------------------
(***************************************************************************)
(* Proofs about LldpTx for every number of ports and all timer values that *)
(* satisfy the assumptions of that module.                                 *)
(***************************************************************************)
EXTENDS LldpTx, TLAPS

\* A remainder is a natural number smaller than the modulus.
LEMMA ModuloFact ==
  ASSUME NEW n \in Nat, NEW m \in Nat, m > 0
  PROVE  n % m \in Nat /\ n % m < m
OBVIOUS

\* The time to live is a 16 bit number.
LEMMA TxTTLType == TxTTL \in Word /\ TxTTL \in Nat
<1>1. MsgTxInterval * MsgTxHold \in Nat
  BY TimerAssumption
<1> DEFINE m == 65536
<1>2. m \in Nat /\ m > 0 /\ Word = 0 .. (m - 1)
  BY DEF Word
<1>3. TxTTL = (MsgTxInterval * MsgTxHold) % m
  BY DEF TxTTL
<1> HIDE DEF m
<1>4. TxTTL \in Nat /\ TxTTL < m
  BY <1>1, <1>2, <1>3, ModuloFact
<1> QED BY <1>2, <1>4

\* Time passes for a listener by one at most.
LEMMA DecrementedFact ==
  ASSUME NEW n \in Nat
  PROVE  /\ Decremented(n) \in Nat
         /\ Decremented(n) <= n /\ n <= Decremented(n) + 1
         /\ n > 0 => Decremented(n) = n - 1
         /\ n = 0 => Decremented(n) = 0
BY DEF Decremented

-----------------------------------------------------------------------------
(* One run of a port.                                                      *)

\* The state machine rests in TX_IDLE and TX_INFO_FRAME only, and sends when
\* both timers have run out.
LEMMA NextStateFact ==
  ASSUME NEW p \in Ports, PortInv(p), txDelayWhile[p] \in Nat, txTTR[p] \in Nat
  PROVE  /\ NextState(p) \in {"TX_IDLE", "TX_INFO_FRAME"}
         /\ NextState(p) = "TX_INFO_FRAME" =>
              portEnabled[p] /\ txState[p] = "TX_IDLE" /\ txTTR[p] = 0
         /\ NextState(p) = "TX_IDLE" =>
              \/ StateBefore(p) # "TX_IDLE"
              \/ txState[p] = "TX_IDLE" /\ portEnabled[p] /\ txTTR[p] > 0
         /\ StateBefore(p) # "TX_IDLE" =>
              \/ ~portEnabled[p]
              \/ txState[p] = "TX_INFO_FRAME"
BY DEF NextState, Due, Elapsed, StateBefore, PortInv, adminStatus, somethingChangedLocal

\* What entering a state does to the timers of the port.
LEMMA EnterFact ==
  ASSUME TypeOK, NEW p \in Ports, NEW s \in {"TX_IDLE", "TX_INFO_FRAME"},
         PortInv(p), Enter(p, s)
  PROVE  /\ p \in todo /\ NextState(p) = s
         /\ todo' = todo \ {p}
         /\ portEnabled'[p] = TRUE /\ txState'[p] = s
         /\ txTTL'[p] = TxTTL
         /\ \A q \in Ports \ {p} :
              /\ portEnabled'[q] = portEnabled[q] /\ txState'[q] = txState[q]
              /\ txTTL'[q] = txTTL[q] /\ txTTR'[q] = txTTR[q]
              /\ txDelayWhile'[q] = txDelayWhile[q]
         /\ IF s = "TX_IDLE" /\ StateBefore(p) # s
              THEN /\ txTTR'[p] = Decremented(MsgTxInterval)
                   /\ txDelayWhile'[p] = Decremented(TxDelay)
              ELSE /\ txTTR'[p] = Decremented(txTTR[p])
                   /\ txDelayWhile'[p] = Decremented(txDelayWhile[p])
BY DEF Enter, TypeOK, PortInv

\* The type of everything a run of a port writes.
LEMMA EnterType ==
  ASSUME TypeOK, NEW p \in Ports, NEW s \in TxStates, Enter(p, s)
  PROVE  /\ txState' \in [Ports -> TxStates]
         /\ portEnabled' \in [Ports -> BOOLEAN]
         /\ txTTL' \in [Ports -> Word]
         /\ txTTR' \in [Ports -> 0 .. MsgTxInterval]
         /\ txDelayWhile' \in [Ports -> 0 .. TxDelay]
         /\ txShutdownWhile' \in [Ports -> 0 .. ReinitDelay]
         /\ todo' \in SUBSET Ports
         /\ illegal' \in SUBSET (TxStates \X TxStates)
<1>1. ASSUME NEW n \in Nat, NEW m \in 0 .. n
      PROVE  Decremented(m) \in 0 .. n
  BY DEF Decremented
<1>2. StateBefore(p) \in TxStates /\ txState[p] \in TxStates
  BY DEF StateBefore, TypeOK, TxStates
<1>3. illegal' \in SUBSET (TxStates \X TxStates)
  BY <1>2 DEF Enter, TypeOK
<1>4. txTTR' \in [Ports -> 0 .. MsgTxInterval]
  BY <1>1, TimerAssumption DEF Enter, TypeOK
<1>5. txDelayWhile' \in [Ports -> 0 .. TxDelay]
  BY <1>1, TimerAssumption DEF Enter, TypeOK
<1>6. txShutdownWhile' \in [Ports -> 0 .. ReinitDelay]
  BY <1>1, TimerAssumption DEF Enter, TypeOK
<1>7. txTTL' \in [Ports -> Word]
  BY TxTTLType DEF Enter, TypeOK
<1> QED BY <1>3, <1>4, <1>5, <1>6, <1>7 DEF Enter, TypeOK

\* No change that is commented as illegal is new, but for two from TX_IDLE.
LEMMA EnterIllegal ==
  ASSUME TypeOK, OnlyIdleIllegal, NEW p \in Ports, PortInv(p),
         NEW s \in {"TX_IDLE", "TX_INFO_FRAME"}, Enter(p, s)
  PROVE  OnlyIdleIllegal'
<1> DEFINE restart == IF portEnabled[p] THEN {} ELSE {<<txState[p], StateBefore(p)>>}
           change  == IF StateBefore(p) = s THEN {} ELSE {<<StateBefore(p), s>>}
           few     == {"TX_IDLE"} \X {"TX_LLDP_INITIALIZE", "TX_INFO_FRAME"}
<1>1. illegal' = illegal \cup {c \in restart \cup change : Illegal(c[1], c[2])}
  BY DEF Enter
<1>2. restart \subseteq few
  BY DEF PortInv, StateBefore
<1>3. ASSUME StateBefore(p) # s, <<StateBefore(p), s>> \notin few
      PROVE  ~Illegal(StateBefore(p), s)
  <2>1. NextState(p) = s /\ StateBefore(p) # "TX_SHUTDOWN_FRAME"
    BY DEF Enter, StateBefore, PortInv
  <2>2. StateBefore(p) \in {"TX_LLDP_INITIALIZE", "TX_IDLE", "TX_INFO_FRAME"}
    BY DEF StateBefore, PortInv
  <2>3. StateBefore(p) \in {"TX_LLDP_INITIALIZE", "TX_INFO_FRAME"} => s = "TX_IDLE"
    BY <2>1 DEF NextState, adminStatus
  <2>4. StateBefore(p) = "TX_IDLE" => s = "TX_INFO_FRAME"
    BY <1>3
  <2>5. s = "TX_IDLE" /\ StateBefore(p) \in {"TX_LLDP_INITIALIZE", "TX_INFO_FRAME"}
    BY <1>3, <2>2, <2>3, <2>4
  <2> QED BY <2>5 DEF Illegal
<1>4. {c \in change : Illegal(c[1], c[2])} \subseteq few
  BY <1>3
<1> HIDE DEF few, restart, change
<1>5. illegal' \subseteq illegal \cup few
  BY <1>1, <1>2, <1>4
<1> QED BY <1>5 DEF OnlyIdleIllegal, few

-----------------------------------------------------------------------------
(* The steps.                                                              *)

\* A 16 bit number is a natural number.
LEMMA WordNat ==
  ASSUME NEW w \in Word
  PROVE  w \in Nat
<1> DEFINE m == 65535
<1>1. Word = 0 .. m /\ m \in Nat
  BY DEF Word
<1> HIDE DEF m
<1> QED BY <1>1

\* The numbers of a port are natural numbers.
LEMMA Numbers ==
  ASSUME TypeOK, NEW p \in Ports
  PROVE  /\ txTTR[p] \in Nat /\ txDelayWhile[p] \in Nat /\ silence[p] \in Nat
         /\ heldBy[p] \in Nat /\ lost[p] \in Nat
         /\ MsgTxInterval \in Nat /\ MsgTxInterval > 0
         /\ TxDelay \in Nat /\ TxDelay <= MsgTxInterval
<1>1. heldBy[p] \in Nat
  BY WordNat DEF TypeOK
<1> QED BY <1>1, TimerAssumption DEF TypeOK

\* A run of another port leaves PortInv alone.
LEMMA OtherPort ==
  ASSUME NEW p \in Ports, NEW q \in Ports \ {p}, PortInv(q), todo' = todo \ {p},
         portEnabled'[q] = portEnabled[q], txState'[q] = txState[q],
         txTTL'[q] = txTTL[q], txTTR'[q] = txTTR[q],
         txDelayWhile'[q] = txDelayWhile[q], silence'[q] = silence[q],
         heldBy'[q] = heldBy[q], lost'[q] = lost[q]
  PROVE  PortInv(q)'
BY DEF PortInv, Running

\* A run that sends no information frame.
LEMMA QuietStep ==
  ASSUME Inv, NEW p \in Ports, Quiet(p)
  PROVE  Inv'
<1>1. TypeOK /\ OnlyIdleIllegal /\ \A q \in Ports : PortInv(q)
  BY DEF Inv
<1>2. PICK s \in TxStates \ {"TX_INFO_FRAME"} : Enter(p, s)
  BY DEF Quiet
<1>3. s = "TX_IDLE"
  <2>1. NextState(p) = s
    BY <1>2 DEF Enter
  <2>2. NextState(p) \in {"TX_IDLE", "TX_INFO_FRAME"}
    BY <1>1, Numbers, NextStateFact
  <2> QED BY <1>2, <2>1, <2>2
<1>4. UNCHANGED <<silence, heldBy, lost>>
  BY DEF Quiet
<1>5. TypeOK'
  BY <1>1, <1>2, <1>4, EnterType DEF TypeOK
<1>6. /\ p \in todo /\ NextState(p) = "TX_IDLE"
      /\ todo' = todo \ {p}
      /\ portEnabled'[p] = TRUE /\ txState'[p] = "TX_IDLE"
      /\ txTTL'[p] = TxTTL
      /\ \A q \in Ports \ {p} :
           /\ portEnabled'[q] = portEnabled[q] /\ txState'[q] = txState[q]
           /\ txTTL'[q] = txTTL[q] /\ txTTR'[q] = txTTR[q]
           /\ txDelayWhile'[q] = txDelayWhile[q]
      /\ IF StateBefore(p) # "TX_IDLE"
           THEN /\ txTTR'[p] = Decremented(MsgTxInterval)
                /\ txDelayWhile'[p] = Decremented(TxDelay)
           ELSE /\ txTTR'[p] = Decremented(txTTR[p])
                /\ txDelayWhile'[p] = Decremented(txDelayWhile[p])
  BY <1>1, <1>2, <1>3, EnterFact
<1>7. PortInv(p)'
  <2>1. silence[p] <= 1 \/ StateBefore(p) = "TX_IDLE"
    BY <1>1, <1>6, Numbers, NextStateFact DEF PortInv, Running
  <2>2. heldBy'[p] + silence'[p] + lost'[p] * (MsgTxInterval + 1) >= TxTTL
    BY <1>1, <1>4 DEF PortInv
  <2>3. Running(p) = 1 /\ Running(p)' = 0
    BY <1>6 DEF Running
  <2>4. CASE StateBefore(p) # "TX_IDLE"
    <3>1. txTTR'[p] = MsgTxInterval - 1 /\ txDelayWhile'[p] <= txTTR'[p]
      BY <1>1, <1>6, <2>4, Numbers DEF Decremented
    <3>2. /\ silence'[p] + txTTR'[p] <= MsgTxInterval + Running(p)'
          /\ silence'[p] + txTTR'[p] + 1 >= MsgTxInterval + Running(p)'
      BY <1>1, <1>4, <2>1, <2>3, <2>4, <3>1, Numbers
    <3> QED BY <1>6, <2>2, <3>1, <3>2 DEF PortInv
  <2>5. CASE StateBefore(p) = "TX_IDLE"
    <3>1. txState[p] = "TX_IDLE" /\ txTTR[p] > 0
      BY <1>1, <1>6, <2>5, Numbers, NextStateFact
    <3>2. txTTR'[p] = txTTR[p] - 1 /\ txDelayWhile'[p] <= txTTR'[p]
      BY <1>1, <1>6, <2>5, <3>1, Numbers DEF Decremented, PortInv
    <3>3. /\ silence[p] + txTTR[p] <= MsgTxInterval + Running(p)
          /\ silence[p] + txTTR[p] + 1 >= MsgTxInterval + Running(p)
      BY <1>1, <3>1 DEF PortInv
    <3>4. /\ silence'[p] + txTTR'[p] <= MsgTxInterval + Running(p)'
          /\ silence'[p] + txTTR'[p] + 1 >= MsgTxInterval + Running(p)'
      BY <1>1, <1>4, <2>3, <3>2, <3>3, Numbers
    <3> QED BY <1>6, <2>2, <3>2, <3>4 DEF PortInv
  <2> QED BY <2>4, <2>5
<1>8. ASSUME NEW q \in Ports \ {p} PROVE PortInv(q)'
  BY <1>1, <1>4, <1>6, OtherPort
<1>9. OnlyIdleIllegal'
  BY <1>1, <1>2, <1>3, EnterIllegal
<1> QED BY <1>5, <1>7, <1>8, <1>9 DEF Inv

\* A run that sends an information frame.
LEMMA SendStep ==
  ASSUME Inv, NEW p \in Ports, SendInfoFrame(p)
  PROVE  Inv'
<1>1. TypeOK /\ OnlyIdleIllegal /\ \A q \in Ports : PortInv(q)
  BY DEF Inv
<1>2. Enter(p, "TX_INFO_FRAME") /\ "TX_INFO_FRAME" \in TxStates
  BY DEF SendInfoFrame, TxStates
<1>3. /\ p \in todo /\ NextState(p) = "TX_INFO_FRAME"
      /\ todo' = todo \ {p}
      /\ portEnabled'[p] = TRUE /\ txState'[p] = "TX_INFO_FRAME"
      /\ txTTL'[p] = TxTTL
      /\ \A q \in Ports \ {p} :
           /\ portEnabled'[q] = portEnabled[q] /\ txState'[q] = txState[q]
           /\ txTTL'[q] = txTTL[q] /\ txTTR'[q] = txTTR[q]
           /\ txDelayWhile'[q] = txDelayWhile[q]
  BY <1>1, <1>2, EnterFact
<1>4. txState[p] = "TX_IDLE" /\ silence[p] <= MsgTxInterval + 1
  BY <1>1, <1>3, Numbers, NextStateFact DEF PortInv, Running
<1>5. silence' = [silence EXCEPT ![p] = 0]
  BY DEF SendInfoFrame
<1>8. OnlyIdleIllegal'
  BY <1>1, <1>2, EnterIllegal
<1>6. CASE heldBy' = [heldBy EXCEPT ![p] = txTTL[p]] /\ lost' = [lost EXCEPT ![p] = 0]
  <2>1. TypeOK'
    BY <1>1, <1>2, <1>5, <1>6, EnterType, TimerAssumption DEF TypeOK
  <2>2. heldBy'[p] = TxTTL /\ lost'[p] = 0 /\ silence'[p] = 0
    BY <1>1, <1>5, <1>6 DEF TypeOK, PortInv
  <2>3. 0 * (MsgTxInterval + 1) = 0
    BY TimerAssumption
  <2>4. heldBy'[p] + silence'[p] + lost'[p] * (MsgTxInterval + 1) >= TxTTL
    BY <2>2, <2>3, TxTTLType
  <2>5. PortInv(p)'
    BY <1>1, <1>3, <2>2, <2>4 DEF PortInv, Running
  <2>6. ASSUME NEW q \in Ports \ {p} PROVE PortInv(q)'
    BY <1>1, <1>3, <1>5, <1>6, OtherPort DEF TypeOK
  <2> QED BY <1>8, <2>1, <2>5, <2>6 DEF Inv
<1>7. CASE lost[p] < MaxLost /\ lost' = [lost EXCEPT ![p] = @ + 1] /\ UNCHANGED heldBy
  <2>1. lost[p] + 1 \in 0 .. MaxLost
    BY <1>1, <1>7, TimerAssumption DEF TypeOK
  <2>2. TypeOK'
    <3>1. silence' \in [Ports -> 0 .. MsgTxInterval + 2]
      BY <1>1, <1>5, TimerAssumption DEF TypeOK
    <3>2. lost' \in [Ports -> 0 .. MaxLost] /\ heldBy' \in [Ports -> Word]
      BY <1>1, <1>7, <2>1 DEF TypeOK
    <3> QED BY <1>1, <1>2, <3>1, <3>2, EnterType DEF TypeOK
  <2>3. heldBy'[p] = heldBy[p] /\ lost'[p] = lost[p] + 1 /\ silence'[p] = 0
    BY <1>1, <1>5, <1>7 DEF TypeOK
  <2>4. heldBy'[p] + silence'[p] + lost'[p] * (MsgTxInterval + 1) >= TxTTL
    <3> DEFINE k == lost[p] * (MsgTxInterval + 1)
    <3>1. (lost[p] + 1) * (MsgTxInterval + 1) = k + (MsgTxInterval + 1) /\ k \in Nat
      BY <1>1, Numbers
    <3>2. heldBy[p] + silence[p] + k >= TxTTL
      BY <1>1 DEF PortInv
    <3> HIDE DEF k
    <3> QED BY <1>1, <1>4, <2>3, <3>1, <3>2, Numbers, TxTTLType
  <2>5. PortInv(p)'
    BY <1>1, <1>3, <2>3, <2>4 DEF PortInv, Running
  <2>6. ASSUME NEW q \in Ports \ {p} PROVE PortInv(q)'
    BY <1>1, <1>3, <1>5, <1>7, OtherPort DEF TypeOK
  <2> QED BY <1>8, <2>2, <2>5, <2>6 DEF Inv
<1> QED BY <1>6, <1>7 DEF SendInfoFrame

\* The end of a pass: every port has run, so every port is enabled.
LEMMA SleepStep ==
  ASSUME Inv, Sleep
  PROVE  Inv'
<1>1. TypeOK /\ \A p \in Ports : PortInv(p)
  BY DEF Inv
<1>2. /\ todo = {} /\ todo' = Ports
      /\ silence' = [p \in Ports |-> Longer(silence[p])]
      /\ heldBy' = [p \in Ports |-> Decremented(heldBy[p])]
      /\ UNCHANGED <<txState, portEnabled, txTTL, txTTR, txDelayWhile,
                     txShutdownWhile, illegal, lost>>
  BY DEF Sleep
<1>3. TypeOK'
  <2>1. ASSUME NEW w \in Word PROVE Decremented(w) \in Word
    <3> DEFINE m == 65535
    <3>1. Word = 0 .. m /\ m \in Nat
      BY DEF Word
    <3> HIDE DEF m
    <3> QED BY <3>1 DEF Decremented
  <2>2. heldBy' \in [Ports -> Word] /\ silence' \in [Ports -> 0 .. MsgTxInterval + 2]
    <3>1. ASSUME NEW n \in 0 .. MsgTxInterval + 2
          PROVE  Longer(n) \in 0 .. MsgTxInterval + 2
      BY TimerAssumption DEF Longer
    <3> QED BY <1>1, <1>2, <2>1, <3>1 DEF TypeOK
  <2> QED BY <1>1, <1>2, <2>2 DEF TypeOK
<1>4. ASSUME NEW p \in Ports PROVE PortInv(p)'
  <2>1. Running(p) = 0 /\ Running(p)' = 1
    BY <1>2 DEF Running
  <2>2. silence'[p] = silence[p] + 1 /\ heldBy'[p] = Decremented(heldBy[p])
    <3>1. silence[p] <= MsgTxInterval + 1
      BY <1>1, <2>1, Numbers DEF PortInv
    <3> QED BY <1>2, <3>1 DEF Longer
  <2>3. portEnabled[p]
    BY <1>1, <1>2 DEF PortInv, TypeOK
  <2>4. heldBy'[p] + silence'[p] + lost'[p] * (MsgTxInterval + 1) >= TxTTL
    <3> DEFINE k == lost[p] * (MsgTxInterval + 1)
    <3>1. k \in Nat /\ heldBy[p] + silence[p] + k >= TxTTL
      BY <1>1, Numbers DEF PortInv
    <3>2. lost'[p] * (MsgTxInterval + 1) = k
      BY <1>2
    <3> HIDE DEF k
    <3>3. heldBy'[p] \in Nat /\ heldBy[p] <= heldBy'[p] + 1
      BY <1>1, <2>2, Numbers, DecrementedFact
    <3> QED BY <1>1, <2>2, <3>1, <3>2, <3>3, Numbers, TxTTLType
  <2>5. CASE txState[p] = "TX_IDLE"
    <3>1. /\ silence[p] + txTTR[p] <= MsgTxInterval + Running(p)
          /\ silence[p] + txTTR[p] + 1 >= MsgTxInterval + Running(p)
      BY <1>1, <2>5 DEF PortInv
    <3>2. /\ silence'[p] + txTTR'[p] <= MsgTxInterval + Running(p)'
          /\ silence'[p] + txTTR'[p] + 1 >= MsgTxInterval + Running(p)'
      BY <1>1, <1>2, <2>1, <2>2, <3>1, Numbers
    <3> QED BY <1>1, <1>2, <2>3, <2>4, <2>5, <3>2 DEF PortInv
  <2>6. CASE txState[p] = "TX_INFO_FRAME"
    <3>1. silence'[p] = Running(p)'
      BY <1>1, <2>1, <2>2, <2>6, Numbers DEF PortInv
    <3> QED BY <1>1, <1>2, <2>3, <2>4, <2>6, <3>1 DEF PortInv
  <2> QED BY <1>1, <2>5, <2>6 DEF PortInv
<1>5. OnlyIdleIllegal'
  BY <1>2 DEF Inv, OnlyIdleIllegal
<1> QED BY <1>3, <1>4, <1>5 DEF Inv

\* The rx thread enables a port, before or after its first run.
LEMMA EnableStep ==
  ASSUME Inv, NEW p \in Ports, EnablePort(p)
  PROVE  Inv'
<1>1. TypeOK'
  BY DEF Inv, TypeOK, EnablePort
<1>2. ASSUME NEW q \in Ports PROVE PortInv(q)'
  <2>1. PortInv(q) /\ (portEnabled[q] => portEnabled'[q])
    BY DEF Inv, TypeOK, EnablePort
  <2>2. UNCHANGED <<txState, txTTL, txTTR, txDelayWhile, todo, silence, heldBy, lost>>
    BY DEF EnablePort
  <2> QED BY <2>1, <2>2 DEF PortInv, Running
<1>3. OnlyIdleIllegal'
  BY DEF Inv, OnlyIdleIllegal, EnablePort
<1> QED BY <1>1, <1>2, <1>3 DEF Inv

-----------------------------------------------------------------------------
(* The theorems.                                                           *)

\* The state initialize_lldp leaves satisfies the invariant.
LEMMA InvInit == Init => Inv
<1> SUFFICES ASSUME Init PROVE Inv
  OBVIOUS
<1>1. TypeOK
  BY TxTTLType, TimerAssumption DEF Init, TypeOK, TxStates
<1>2. ASSUME NEW p \in Ports PROVE PortInv(p)
  <2>1. /\ txState[p] = "TX_IDLE" /\ txTTL[p] = TxTTL /\ silence[p] = 0 /\ p \in todo
        /\ txTTR[p] = MsgTxInterval /\ txDelayWhile[p] = TxDelay
        /\ heldBy[p] = TxTTL /\ lost[p] = 0
    BY <1>2 DEF Init
  <2>2. 0 * (MsgTxInterval + 1) = 0
    BY TimerAssumption
  <2>3. heldBy[p] + silence[p] + lost[p] * (MsgTxInterval + 1) >= TxTTL
    BY <2>1, <2>2, TxTTLType
  <2>4. /\ txDelayWhile[p] <= txTTR[p]
        /\ silence[p] + txTTR[p] <= MsgTxInterval + Running(p)
        /\ silence[p] + txTTR[p] + 1 >= MsgTxInterval + Running(p)
    BY <2>1, TimerAssumption DEF Running
  <2> QED BY <2>1, <2>3, <2>4 DEF PortInv
<1>3. OnlyIdleIllegal
  BY DEF Init, OnlyIdleIllegal
<1> QED BY <1>1, <1>2, <1>3 DEF Inv

\* Every step of the two threads keeps the invariant.
LEMMA InvStep == Inv /\ [Next]_vars => Inv'
<1> SUFFICES ASSUME Inv, [Next]_vars PROVE Inv'
  OBVIOUS
<1>1. CASE UNCHANGED vars
  BY <1>1 DEF Inv, TypeOK, OnlyIdleIllegal, PortInv, Running, vars
<1>2. ASSUME NEW p \in Ports, Quiet(p) PROVE Inv'
  BY <1>2, QuietStep
<1>3. ASSUME NEW p \in Ports, SendInfoFrame(p) PROVE Inv'
  BY <1>3, SendStep
<1>4. ASSUME NEW p \in Ports, EnablePort(p) PROVE Inv'
  BY <1>4, EnableStep
<1>5. CASE Sleep
  BY <1>5, SleepStep
<1> QED BY <1>1, <1>2, <1>3, <1>4, <1>5 DEF Next

\* The inductive invariant of the transmit half.
THEOREM Invariance == Spec => []Inv
BY InvInit, InvStep, PTL DEF Spec

\* Timers, states and the listener's counters keep their types and widths.
THEOREM TypeCorrect == Spec => []TypeOK
<1>1. Inv => TypeOK
  BY DEF Inv
<1> QED BY <1>1, Invariance, PTL

\* What the invariant says of the silence in the two states.
LEMMA SilenceFact ==
  ASSUME Inv, NEW p \in Ports
  PROVE  silence[p] \in Nat /\ silence[p] <= MsgTxInterval + 1
<1>1. TypeOK /\ PortInv(p)
  BY DEF Inv
<1> QED BY <1>1, Numbers DEF PortInv, Running

\* Information frames of a port are never more than an interval and a pass apart.
THEOREM InfoFramesRegular == Spec => []FramesRegular
<1>1. Inv => FramesRegular
  BY SilenceFact DEF FramesRegular
<1> QED BY <1>1, Invariance, PTL

\* A neighbour that misses at most MaxLost frames in a row keeps the port listed:
\* the hold time covers them and the pass that leaving TX_INFO_FRAME takes.
THEOREM ListenerKeepsPort == Spec => []NeverDropped
<1>1. ASSUME Inv, NEW p \in Ports PROVE heldBy[p] > 0
  <2>1. TypeOK /\ PortInv(p)
    BY <1>1 DEF Inv
  <2> DEFINE i == MsgTxInterval + 1
             k == lost[p] * i
             m == MaxLost * i
  <2>2. k \in Nat /\ m \in Nat /\ i \in Nat
    BY <2>1, Numbers, TimerAssumption
  <2>3. k <= m
    BY <2>1, Numbers, TimerAssumption DEF TypeOK
  <2>4. (MaxLost + 1) * i = m + i
    BY TimerAssumption
  <2>5. heldBy[p] + silence[p] + k >= TxTTL
    BY <2>1 DEF PortInv
  <2>6. m + i < TxTTL
    BY <2>4, HoldAssumption
  <2>7. silence[p] <= i /\ silence[p] \in Nat
    BY <1>1, SilenceFact
  <2> HIDE DEF i, k, m
  <2> QED BY <2>1, <2>2, <2>3, <2>5, <2>6, <2>7, Numbers, TxTTLType
<1>2. Inv => NeverDropped
  BY <1>1 DEF NeverDropped
<1> QED BY <1>2, Invariance, PTL

\* A step into TX_INFO_FRAME is a run that sends a frame, a full interval after
\* the last one.
LEMMA SpacedStep ==
  ASSUME Inv, [Next]_vars, NEW p \in Ports,
         txState'[p] = "TX_INFO_FRAME", txState[p] # "TX_INFO_FRAME"
  PROVE  silence[p] >= MsgTxInterval
<1>1. TypeOK /\ \A q \in Ports : PortInv(q)
  BY DEF Inv
<1>2. PICK q \in Ports : \E s \in TxStates : Enter(q, s)
  BY DEF Next, vars, Sleep, EnablePort, Quiet, SendInfoFrame, TxStates
<1>3. PICK s \in TxStates : Enter(q, s)
  BY <1>2
<1>4. q = p /\ s = "TX_INFO_FRAME"
  BY <1>1, <1>3 DEF Enter, TypeOK
<1>5. p \in todo /\ NextState(p) = "TX_INFO_FRAME"
  BY <1>3, <1>4 DEF Enter
<1>6. txState[p] = "TX_IDLE" /\ txTTR[p] = 0 /\ Running(p) = 1
  BY <1>1, <1>5, Numbers, NextStateFact DEF Running
<1> QED BY <1>1, <1>6, Numbers DEF PortInv

\* Information frames of a port are never closer than an interval.
THEOREM InfoFramesSpaced == Spec => FramesSpaced
<1>1. Inv /\ [Next]_vars =>
        [\A p \in Ports : txState'[p] = "TX_INFO_FRAME" /\ txState[p] # "TX_INFO_FRAME"
                             => silence[p] >= MsgTxInterval]_vars
  BY SpacedStep
<1> QED BY <1>1, Invariance, PTL DEF Spec, FramesSpaced

=============================================================================

-------------------------------- MODULE Lan --------------------------------
(***************************************************************************)
(* A master and its slaves on one link.  The master is the receive half of *)
(* LldpRx with one port; a slave is what the link sees of it: the periodic *)
(* frame of its transmit half, and the address it puts on br0:1.           *)
(*                                                                         *)
(* The module relates what LldpRx and LldpTx leave apart: the master's     *)
(* timers count runs, the slaves send by the second, the frame that gives  *)
(* an address is sent once, and either side may restart.                   *)
(***************************************************************************)
EXTENDS LldpRx, SequencesExt

CONSTANTS
  Master,         \* the master's port
  MsgTxInterval,  \* passes between two frames of a slave
  MaxFaults       \* lost frames, slaves that stop and restarts of the master

VARIABLES
  up,        \* the slaves that are running
  since,     \* seconds since a slave's last frame
  addr,      \* the address on br0:1 of a slave
  inFlight,  \* the addresses on their way to a slave
  missed,    \* history: slaves that lost the address last given to them
  heard,     \* history: slaves listed since they came up
  ran,       \* the master's port was run in this second
  ticked,    \* ... by the timeout of select
  rebooted,  \* history: the master has restarted
  faults

slaveVars == <<up, since>>
linkVars  == <<addr, inFlight, missed, heard>>
secVars   == <<ran, ticked>>
lanVars   == <<vars, slaveVars, linkVars, secVars, rebooted, faults>>

LanTypeOK ==
  /\ up \subseteq Ids /\ missed \subseteq Ids /\ heard \subseteq Ids
  /\ since \in [Ids -> 0 .. MsgTxInterval + 1]
  /\ addr \in [Ids -> Addrs]
  /\ inFlight \in [Ids -> Seq(Octets)]
  /\ ran \in BOOLEAN /\ ticked \in BOOLEAN
  /\ rebooted \in BOOLEAN /\ faults \in 0 .. MaxFaults

LanInit ==
  /\ Init
  /\ up = {}
  /\ since = [s \in Ids |-> 0]
  /\ addr = [s \in Ids |-> OwnAddr]
  /\ inFlight = [s \in Ids |-> <<>>]
  /\ missed = {} /\ heard = {}
  /\ ran = FALSE /\ ticked = FALSE
  /\ rebooted = FALSE /\ faults = 0

-----------------------------------------------------------------------------
\* Something goes wrong, as often as the instance allows.
Fault == faults < MaxFaults /\ faults' = faults + 1

(* The master.                                                             *)

\* Mutant of InfoFrame: the hold multiplier is left out.
InfoFrameNoHold(s) == [kind |-> "slave", id |-> s, ttl |-> MsgTxInterval,
                       ip |-> OwnAddr, wifi |-> TRUE]

\* The frame a slave sends: its role, and the hold time its timers make.
InfoFrame(s) == [kind |-> "slave", id |-> s, ttl |-> MaxTTL,
                 ip |-> OwnAddr, wifi |-> TRUE]

\* What the slaves may send.
InfoFrames == {InfoFrame(s) : s \in Ids}

\* The device on the link is a master, and its slaves' frames are proper ones.
ASSUME LanAssumption ==
  /\ Master \in Ports /\ DevRole = "MASTER"
  /\ InfoFrames \subseteq Frames
  /\ MsgTxInterval \in Nat /\ MaxFaults \in Nat

\* Mutant of GiveAddress: the frame goes to every slave.
GiveAddressToAll(id, octet) ==
  /\ inFlight' = [s \in Ids |-> Append(inFlight[s], octet)]
  /\ missed' = missed \ {id}

\* tx_do_tx_setip_frame: one frame, to the neighbour the address is for.
GiveAddress(id, octet) ==
  /\ inFlight' = [inFlight EXCEPT ![id] = Append(@, octet)]
  /\ missed' = missed \ {id}

\* The slave whose frame is waiting when f is read into the same buffer.
ReadOver(f) ==
  IF rcvFrame[Master] /\ rxFrame[Master] # f THEN {rxFrame[Master].id} ELSE {}

\* What a run with the frame f in the buffer sends out and takes in.
AfterRun(f) ==
  /\ IF ips' # ips THEN GiveAddress(f.id, ips) ELSE UNCHANGED <<inFlight, missed>>
  /\ heard' = IF rxState'[Master] = "RX_FRAME" THEN (heard \ ReadOver(f)) \cup ({f.id} \cap up)
              ELSE heard \ ReadOver(f)
  /\ ran' = TRUE
  /\ UNCHANGED <<addr, rebooted>>

\* select times out after a second without a frame: at most once a second.
MasterTick ==
  /\ ~ticked /\ ticked' = TRUE
  /\ Tick(Master)
  /\ AfterRun(rxFrame[Master])
  /\ UNCHANGED <<slaveVars, faults>>

\* The master restarts: the cache and the counter of addresses are gone.
MasterReboot ==
  /\ Fault /\ rebooted' = TRUE
  /\ rxState' = [p \in Ports |-> "LLDP_WAIT_PORT_OPERATIONAL"]
  /\ rcvFrame' = [p \in Ports |-> FALSE] /\ rxInfoAge' = [p \in Ports |-> FALSE]
  /\ rxChanges' = [p \in Ports |-> FALSE] /\ remoteChange' = [p \in Ports |-> FALSE]
  /\ rxTTL' = [p \in Ports |-> 0] /\ rxFrame' = [p \in Ports |-> NoFrame]
  /\ cache' = [p \in Ports |-> {}] /\ slave' = [p \in Ports |-> {}]
  /\ ips' = FirstOctet /\ wrapped' = FALSE
  /\ heard' = {}
  /\ UNCHANGED <<alias, file, stuck, slaveVars, addr, inFlight, missed, secVars>>

-----------------------------------------------------------------------------
(* The slaves.                                                             *)

\* A slave comes up; initialize_lldp sends a first frame at once.
Start(s) ==
  /\ s \notin up
  /\ up' = up \cup {s}
  /\ since' = [since EXCEPT ![s] = MsgTxInterval + 1]
  /\ UNCHANGED <<vars, linkVars, secVars, rebooted, faults>>

\* A slave goes down, and its address with it.
Stop(s) ==
  /\ s \in up /\ Fault
  /\ up' = up \ {s}
  /\ since' = [since EXCEPT ![s] = 0]
  /\ addr' = [addr EXCEPT ![s] = OwnAddr]
  /\ missed' = missed \cup {s}
  /\ heard' = heard \ {s}
  /\ UNCHANGED <<vars, inFlight, secVars, rebooted>>

\* LldpTx: frames are at least an interval and at most one pass more apart.
Sends(s) ==
  /\ s \in up /\ since[s] >= MsgTxInterval
  /\ since' = [since EXCEPT ![s] = 0]
  /\ UNCHANGED up

SendHeard(s) ==
  /\ Sends(s)
  /\ Receive(Master, InfoFrame(s))
  /\ AfterRun(InfoFrame(s))
  /\ UNCHANGED <<ticked, faults>>

SendLost(s) ==
  /\ Sends(s) /\ Fault
  /\ UNCHANGED <<vars, linkVars, secVars, rebooted>>

\* Mutant of Taken: the address on the bridge is left as it is.
TakenOnce(s, octet) == IF addr[s] = OwnAddr THEN octet ELSE addr[s]

\* A slave takes whatever address it is sent.
Taken(s, octet) == octet

TakeAddress(s) ==
  /\ inFlight[s] # <<>> /\ s \in up
  /\ inFlight' = [inFlight EXCEPT ![s] = Tail(@)]
  /\ addr' = [addr EXCEPT ![s] = Taken(s, Head(inFlight[s]))]
  /\ UNCHANGED <<vars, slaveVars, missed, heard, secVars, rebooted, faults>>

\* The frame is lost on the way, in the slave's only buffer, or with the slave.
LoseAddress(s) ==
  /\ inFlight[s] # <<>> /\ (s \in up => Fault) /\ (s \notin up => UNCHANGED faults)
  /\ inFlight' = [inFlight EXCEPT ![s] = Tail(@)]
  /\ missed' = IF Len(inFlight[s]) = 1 THEN missed \cup {s} ELSE missed
  /\ UNCHANGED <<vars, slaveVars, addr, heard, secVars, rebooted>>

\* Mutant of AllSent: the interval is one second longer.
AllSentLate == \A s \in up : since[s] <= MsgTxInterval + 1

\* No slave lets more than a pass of its timers go by after its interval.
AllSent == \A s \in up : since[s] <= MsgTxInterval

\* A second passes: every slave due has sent, the master was run by a frame or
\* by the timeout, and no address stays on the way for longer.
Second ==
  /\ ran
  /\ AllSent
  /\ \A s \in Ids : inFlight[s] = <<>>
  /\ since' = [s \in Ids |-> IF s \in up THEN since[s] + 1 ELSE 0]
  /\ ran' = FALSE /\ ticked' = FALSE
  /\ UNCHANGED <<vars, up, linkVars, rebooted, faults>>

SlaveNext(s) ==
  Start(s) \/ Stop(s) \/ SendHeard(s) \/ SendLost(s) \/ TakeAddress(s) \/ LoseAddress(s)

LanNext == MasterTick \/ MasterReboot \/ Second \/ \E s \in Ids : SlaveNext(s)

LanFairness ==
  /\ WF_lanVars(MasterTick) /\ WF_lanVars(Second)
  /\ \A s \in Ids :
       /\ WF_lanVars(SendHeard(s) \/ SendLost(s))
       /\ WF_lanVars(TakeAddress(s) \/ LoseAddress(s))

LanSpec == LanInit /\ [][LanNext]_lanVars /\ LanFairness

-----------------------------------------------------------------------------
\* A slave that runs is never struck off the master's list, although every
\* frame of the others ages it too (rx_sm.c rxStatemachineRun), when no more
\* than one frame is lost or one neighbour restarts, and none of the slave's
\* own frames was read over in the master's buffer (heard).
LiveSlavesKept == faults <= 1 => \A s \in heard : Known(cache[Master], s)

\* A slave and the master agree on the slave's address, through losses,
\* restarts of either and addresses given twice, as long as the frame that gave
\* the last one was not lost and the slave has not restarted since
\* (rx_sm.c rxProcessFrame: allocated is set before the frame is sent).
AddressAgreed ==
  \A e \in cache[Master] :
    e.allocated /\ e.id \notin missed =>
      e.ip = IF inFlight[e.id] = <<>> THEN addr[e.id] ELSE Last(inFlight[e.id])

\* Two slaves never use the same address, whatever was lost and whoever has
\* been away, until the master restarts or its octet wraps.
AddressesUnique ==
  ~rebooted /\ ~wrapped =>
    \A s, t \in Ids : addr[s] = addr[t] /\ addr[s] # OwnAddr => s = t

\* A slave that stays up is listed for good.
SlaveListed == \A s \in Ids : <>[](s \in up) => <>[]Known(cache[Master], s)

=============================================================================

------------------------------- MODULE LldpRx -------------------------------
(***************************************************************************)
(* The receive half of the daemon: the 802.1AB receive state machine of    *)
(* rx_sm.c together with the MSAP neighbour cache of msap.c and the master *)
(* role's address allocation, for every port of one process.               *)
(*                                                                         *)
(* Only the rx thread touches this state, so one call of rxStatemachineRun *)
(* is one step: it chooses the next state, performs that state's work and  *)
(* then ages the cache.  A run is started either by a frame that was just  *)
(* read from the port's socket or by the passing of a second.              *)
(***************************************************************************)
EXTENDS LldpFrames, FiniteSets

CONSTANTS
  Ports,        \* the interfaces on the list lldp_ports
  DevRole,      \* the role of this device, option -r
  FirstOctet,   \* host octet of the first address a master hands out
  NoFrame,      \* a receive buffer that has been cleared
  Frames        \* the frames the network may deliver

ASSUME MaxTTLAssumption == MaxTTL \in Nat
ASSUME RoleAssumption   == DevRole \in {"MASTER", "SLAVE"}
ASSUME OctetAssumption  == /\ FirstOctet \in Nat /\ OctetMax \in Nat
                           /\ 0 < FirstOctet /\ FirstOctet < OctetMax
ASSUME FrameAssumption  == /\ Frames \subseteq Frame
                           /\ NoFrame \notin Frame
                           /\ OwnAddr \notin Octets
                           /\ BadTTL \notin TTLs

\* The neighbour file is put together in 1024 octets that nothing guards, a line
\* of at most 39 octets for each of a neighbour's two wireless modules: the
\* neighbours a process lists are taken to be no more than fit.
ASSUME FileAssumption   == /\ IsFiniteSet(Ports) /\ IsFiniteSet(Ids)
                           /\ Cardinality(Ports) * Cardinality(Ids) * 2 * 39 < 1024

VARIABLES
  rxState,      \* rx.state
  rcvFrame,     \* rx.rcvFrame: a frame waits in the buffer
  rxInfoAge,    \* rx.rxInfoAge: some neighbour's information has aged out
  rxChanges,    \* rxChanges: the last processed frame is to be stored
  remoteChange, \* rx.somethingChangedRemote
  rxTTL,        \* rx.timers.rxTTL: the last time to live read on the port
  rxFrame,      \* rx.frame, the port's only receive buffer
  cache,        \* msap_cache, the port's list of neighbours
  ips,          \* the static host octet the next slave will get
  slave,        \* slavemac and slaveip: the neighbour last given an address
  alias,        \* address a slave has put on br0:1
  file,         \* the neighbours with a line in LLDP_NEIGHBOR_INFO_FILE_PATH
  stuck,        \* the rx thread no longer leaves rxProcessFrame
  wrapped       \* history: ips has passed its largest value

portVars == <<rxState, rcvFrame, rxInfoAge, rxChanges, remoteChange, rxTTL,
              rxFrame, cache>>
vars == <<portVars, ips, slave, alias, file, stuck, wrapped>>

RxStates == {"LLDP_WAIT_PORT_OPERATIONAL", "DELETE_AGED_INFO",
             "RX_LLDP_INITIALIZE", "RX_WAIT_FOR_FRAME", "RX_FRAME",
             "DELETE_INFO", "UPDATE_INFO"}

Entry == [id : Ids, ttl : TTLs, allocated : BOOLEAN, ip : Addrs, wifi : BOOLEAN]

TypeOK ==
  /\ rxState \in [Ports -> RxStates]
  /\ rcvFrame \in [Ports -> BOOLEAN]
  /\ rxInfoAge \in [Ports -> BOOLEAN]
  /\ rxChanges \in [Ports -> BOOLEAN]
  /\ remoteChange \in [Ports -> BOOLEAN]
  /\ rxTTL \in [Ports -> TTLs]
  /\ rxFrame \in [Ports -> Frame \cup {NoFrame}]
  /\ cache \in [Ports -> SUBSET Entry]
  /\ ips \in Octets
  /\ slave \in [Ports -> SUBSET (Ids \X Octets)]
  /\ alias \in Addrs
  /\ file \in SUBSET Ids
  /\ stuck \in BOOLEAN
  /\ wrapped \in BOOLEAN

Init ==
  /\ rxState = [p \in Ports |-> "LLDP_WAIT_PORT_OPERATIONAL"]
  /\ rcvFrame = [p \in Ports |-> FALSE]
  /\ rxInfoAge = [p \in Ports |-> FALSE]
  /\ rxChanges = [p \in Ports |-> FALSE]
  /\ remoteChange = [p \in Ports |-> FALSE]
  /\ rxTTL = [p \in Ports |-> 0]
  /\ rxFrame = [p \in Ports |-> NoFrame]
  /\ cache = [p \in Ports |-> {}]
  /\ ips = FirstOctet
  /\ slave = [p \in Ports |-> {}]
  /\ alias = OwnAddr
  /\ file = {}
  /\ stuck = FALSE
  /\ wrapped = FALSE

-----------------------------------------------------------------------------
(* The neighbour cache.                                                    *)

Expired(c) == \E e \in c : e.ttl = 0

\* Mutants of Live: a comparison that is off by one, either way.
LiveTooFew(c)  == {e \in c : e.ttl > 1}
LiveTooMany(c) == {e \in c : e.ttl >= 0}

\* mibDeleteObjects unlinks exactly the entries whose time is over.
Live(c) == {e \in c : e.ttl > 0}

\* Mutant of Aged: timers stop at one.
AgedToOne(c) == {[e EXCEPT !.ttl = IF @ > 1 THEN @ - 1 ELSE @] : e \in c}

\* rx_do_update_timers takes one from every timer that has not run out.
Aged(c) == {[e EXCEPT !.ttl = IF @ > 0 THEN @ - 1 ELSE @] : e \in c}

Known(c, id) == \E e \in c : e.id = id

\* The neighbours in c that get a line: a module whose mode is 0 gets none.
Lines(c) == {e.id : e \in {d \in c : d.wifi}}

\* Mutant of Listed: only the port at hand is written.
ListedHere(p, c) == Lines(c)

\* lldp_neighbors_info writes the neighbours of all ports, those of p being c.
\* A line is a module's address, its mode and the neighbour's address: it names
\* neither the port nor the MSAP identifier, and stands here for its neighbour.
Listed(p, c) == UNION {Lines(IF q = p THEN c ELSE cache[q]) : q \in Ports}

Unique(c) == \A a, b \in c : a.id = b.id => a = b

\* Mutant of Refreshed: a hit stores the advertised address as well.
RefreshedAll(c, id, ttl) ==
  {IF e.id = id THEN [e EXCEPT !.ttl = ttl, !.ip = OwnAddr] ELSE e : e \in c}

\* A hit in update_msap_cache stores the new time to live and nothing else.
Refreshed(c, id, ttl) ==
  {IF e.id = id THEN [e EXCEPT !.ttl = ttl] ELSE e : e \in c}

\* Mutant of Updated: every frame prepends an entry.
Prepended(c, f, ttl) == c \cup {NewEntry(f, ttl)}

\* Mutant of Updated: a miss adds nothing.
HitOnly(c, f, ttl) == Refreshed(c, f.id, ttl)

Updated(c, f, ttl) ==
  IF Known(c, f.id) THEN Refreshed(c, f.id, ttl)
                    ELSE c \cup {NewEntry(f, ttl)}

\* Mutant of Unallocated: the flag is not looked at.
ListedAtAll(c, id) == Known(c, id)

Unallocated(c, id) == \E e \in c : e.id = id /\ ~e.allocated

Granted(c, id, octet) ==
  {IF e.id = id THEN [e EXCEPT !.allocated = TRUE, !.ip = octet] ELSE e : e \in c}

\* Mutant of Succ: the octet is wider than it is.
SuccWide(o) == o + 1

\* The octet is unsigned and wraps around past its largest value.
Succ(o) == IF o = OctetMax THEN 0 ELSE o + 1

\* Mutant of NextOctet: the octet is not counted up.
NextOctetKept(o) == o

\* Mutant of NextOctet: no octet is skipped.
NextOctetPlain(o) == Succ(o)

\* ips[3] += 1, and once more when the octet is the largest or zero.
NextOctet(o) == IF Succ(o) \in {0, OctetMax} THEN Succ(Succ(o)) ELSE Succ(o)

-----------------------------------------------------------------------------
(* The state machine.                                                      *)

\* thread_rx_sm enables every port before its first run and nothing
\* disables one; initialize_lldp is the only writer of adminStatus.
portEnabled == TRUE
adminStatus == "enabledRxTx"

\* Mutant of FromWaiting: a frame that waits goes first.
FromWaitingFrameFirst(p, rcv) ==
  IF rcv THEN "RX_FRAME"
  ELSE IF rxInfoAge[p] THEN "DELETE_INFO" ELSE "RX_WAIT_FOR_FRAME"

FromWaiting(p, rcv) ==
  IF rxInfoAge[p] THEN "DELETE_INFO"
  ELSE IF rcv THEN "RX_FRAME" ELSE "RX_WAIT_FOR_FRAME"

\* Mutant of FromFrame: the two states that delete are mixed up.
FromFrameAged(p) ==
  IF rxTTL[p] = 0 THEN "DELETE_AGED_INFO"
  ELSE IF rxChanges[p] THEN "UPDATE_INFO" ELSE "RX_WAIT_FOR_FRAME"

FromFrame(p) ==
  IF rxTTL[p] = 0 THEN "DELETE_INFO"
  ELSE IF rxChanges[p] THEN "UPDATE_INFO" ELSE "RX_WAIT_FOR_FRAME"

\* rxGlobalStatemachineRun, when the flag rcvFrame is rcv.
NextState(p, rcv) ==
  LET s == IF ~rxInfoAge[p] /\ ~portEnabled THEN "LLDP_WAIT_PORT_OPERATIONAL"
                                            ELSE rxState[p]
  IN  CASE s = "LLDP_WAIT_PORT_OPERATIONAL" ->
             IF rxInfoAge[p] THEN "DELETE_AGED_INFO"
             ELSE IF portEnabled THEN "RX_LLDP_INITIALIZE" ELSE s
        [] s = "DELETE_AGED_INFO" -> "LLDP_WAIT_PORT_OPERATIONAL"
        [] s = "RX_LLDP_INITIALIZE" ->
             IF adminStatus \in {"enabledRxTx", "enabledRxOnly"}
               THEN "RX_WAIT_FOR_FRAME" ELSE s
        [] s = "RX_WAIT_FOR_FRAME" -> FromWaiting(p, rcv)
        [] s = "RX_FRAME" -> FromFrame(p)
        [] s \in {"DELETE_INFO", "UPDATE_INFO"} -> "RX_WAIT_FOR_FRAME"

\* Mutant of UpdateTimers: the timers are looked at before they are counted down.
UpdateTimersLate(p, c, age) ==
  /\ cache' = [cache EXCEPT ![p] = Aged(c)]
  /\ rxInfoAge' = [rxInfoAge EXCEPT ![p] = age \/ Expired(c)]

\* rx_do_update_timers, on the cache c and the flag age the run has left.
UpdateTimers(p, c, age) ==
  /\ cache' = [cache EXCEPT ![p] = Aged(c)]
  /\ rxInfoAge' = [rxInfoAge EXCEPT ![p] = age \/ Expired(Aged(c))]

\* Enter state s with the frame f in the buffer, rcv telling whether it waits.
\* A frame is wiped when it has been processed, if that ever ends.
Enter(p, s, rcv, f) ==
  /\ ~stuck
  /\ NextState(p, rcv) = s
  /\ rxState' = [rxState EXCEPT ![p] = s]
  /\ rxFrame' = [rxFrame EXCEPT ![p] =
                   IF s = "RX_FRAME" /\ f.kind # "othervendor" THEN NoFrame ELSE f]
  /\ rcvFrame' = [rcvFrame EXCEPT ![p] =
                    IF s \in {"RX_LLDP_INITIALIZE", "RX_FRAME"} THEN FALSE ELSE rcv]

\* The runs that do not process a frame leave all of this alone.
NoFrameProcessed ==
  UNCHANGED <<rxChanges, rxTTL, ips, slave, alias, file, stuck, wrapped>>

\* rx_do_lldp_initialize forgets a frame that has just arrived.
Initialize(p, rcv, f) ==
  /\ Enter(p, "RX_LLDP_INITIALIZE", rcv, f)
  /\ UpdateTimers(p, Live(cache[p]), FALSE)
  /\ NoFrameProcessed
  /\ UNCHANGED remoteChange

WaitForFrame(p, rcv, f) ==
  /\ Enter(p, "RX_WAIT_FOR_FRAME", rcv, f)
  /\ remoteChange' = [remoteChange EXCEPT ![p] = FALSE]
  /\ UpdateTimers(p, cache[p], FALSE)
  /\ NoFrameProcessed

\* rx_do_delete_info, and rx_do_delete_aged_info, which also clears the flag.
DeleteInfo(p, rcv, f) ==
  /\ \E s \in {"DELETE_INFO", "DELETE_AGED_INFO"} :
       /\ Enter(p, s, rcv, f)
       /\ UpdateTimers(p, Live(cache[p]), rxInfoAge[p] /\ s = "DELETE_INFO")
  /\ remoteChange' = [remoteChange EXCEPT ![p] = TRUE]
  /\ NoFrameProcessed

UpdateInfo(p, rcv, f) ==
  /\ Enter(p, "UPDATE_INFO", rcv, f)
  /\ remoteChange' = [remoteChange EXCEPT ![p] = TRUE]
  /\ UpdateTimers(p, cache[p], rxInfoAge[p])
  /\ NoFrameProcessed

-----------------------------------------------------------------------------
(* rx_do_rx_frame: rxProcessFrame on the frame in the buffer.              *)

\* A time-to-live TLV of the wrong length leaves the port's last value.
TTLOf(p, f) == IF f.ttl = BadTTL THEN rxTTL[p] ELSE f.ttl

\* What every frame does, whatever its TLVs are.
Process(p, f) ==
  /\ rxTTL' = [rxTTL EXCEPT ![p] = TTLOf(p, f)]
  /\ alias' = IF DevRole = "SLAVE" /\ f.kind = "setip" THEN f.ip ELSE alias
  /\ UNCHANGED remoteChange

\* No vendor TLV of a peer: nothing is stored.
ProcessOther(p, rcv, f) ==
  /\ Enter(p, "RX_FRAME", rcv, f)
  /\ f.kind # "othervendor" /\ ~HaveDcMsap(DevRole, f)
  /\ Process(p, f)
  /\ rxChanges' = [rxChanges EXCEPT ![p] = FALSE]
  /\ UpdateTimers(p, cache[p], rxInfoAge[p])
  /\ UNCHANGED <<ips, slave, file, stuck, wrapped>>

\* A peer's frame: update_msap_cache, which rewrites the neighbour file when
\* the peer is new, and on a master the grant of an address if it has none.
ProcessPeer(p, rcv, f) ==
  LET c1     == Updated(cache[p], f, TTLOf(p, f))
      grants == DevRole = "MASTER" /\ Unallocated(c1, f.id)
      c2     == IF grants THEN Granted(c1, f.id, ips) ELSE c1
  IN  /\ Enter(p, "RX_FRAME", rcv, f)
      /\ HaveDcMsap(DevRole, f)
      /\ Process(p, f)
      /\ rxChanges' = [rxChanges EXCEPT ![p] = TRUE]
      /\ UpdateTimers(p, c2, rxInfoAge[p])
      /\ file' = IF Known(cache[p], f.id) THEN file
                 ELSE Listed(p, c1)
      /\ slave' = IF grants THEN [slave EXCEPT ![p] = {<<f.id, ips>>}] ELSE slave
      /\ ips' = IF grants THEN NextOctet(ips) ELSE ips
      /\ wrapped' = (wrapped \/ (grants /\ NextOctet(ips) < ips))
      /\ UNCHANGED stuck

\* The TLV of another vendor is skipped with continue, before the offset is
\* advanced: the loop meets the same TLV again and never ends.
ScanForever(p, rcv, f) ==
  /\ Enter(p, "RX_FRAME", rcv, f)
  /\ f.kind = "othervendor"
  /\ Process(p, f)
  /\ rxChanges' = [rxChanges EXCEPT ![p] = FALSE]
  /\ stuck' = TRUE
  /\ UNCHANGED <<cache, rxInfoAge, ips, slave, file, wrapped>>

-----------------------------------------------------------------------------
\* rxStatemachineRun(p), with or without a frame waiting in the buffer.
Run(p, rcv, f) ==
  \/ Initialize(p, rcv, f)
  \/ WaitForFrame(p, rcv, f)
  \/ DeleteInfo(p, rcv, f)
  \/ UpdateInfo(p, rcv, f)
  \/ ProcessOther(p, rcv, f)
  \/ ProcessPeer(p, rcv, f)
  \/ ScanForever(p, rcv, f)

\* select timed out, or the wall clock moved on.
Tick(p) == Run(p, rcvFrame[p], rxFrame[p])

\* A frame was read into the port's buffer, over whatever was there.
Receive(p, f) == Run(p, TRUE, f)

Next == \E p \in Ports : Tick(p) \/ \E f \in Frames : Receive(p, f)

\* A run of a port that a quiet second would change, by whatever starts it.
Serve(p) ==
  /\ ENABLED <<Tick(p)>>_vars
  /\ Tick(p) \/ \E f \in Frames : Receive(p, f)

\* No port is left alone for ever (RxThread), and no frame need ever come.
Fairness == \A p \in Ports : WF_vars(Serve(p))

Spec     == Init /\ [][Next]_vars
FairSpec == Spec /\ Fairness

-----------------------------------------------------------------------------
(* Safety.                                                                 *)

\* A port lists a neighbour once, although a frame that misses the cache is
\* prepended to the list without another look at it (msap.c update_msap_cache).
UniqueMsap == \A p \in Ports : Unique(cache[p])

\* rxInfoAge is up whenever some information has aged out, and up for nothing
\* only in DELETE_INFO, whose handler does not lower it: RX_WAIT_FOR_FRAME
\* lowers the flag before the timers are looked at again, and a purge that is
\* due must survive that (rx_sm.c rx_do_wait_for_frame, rx_do_update_timers).
AgeFlagExact ==
  \A p \in Ports :
    /\ Expired(cache[p]) => rxInfoAge[p]
    /\ rxInfoAge[p] /\ rxState[p] # "DELETE_INFO" => Expired(cache[p])

\* The address a master has last sent out on a port, slavemac and slaveip, is
\* the one its cache records for that neighbour as long as it is listed
\* (rxProcessFrame writes the two in one branch, mibDeleteObjects and
\* update_msap_cache only the cache).
GrantRecorded ==
  \A p \in Ports : \A g \in slave[p] : \A e \in cache[p] :
    e.id = g[1] => e.allocated /\ e.ip = g[2]

\* Until the octet wraps around, two listed neighbours never hold the same
\* address, whatever ports they are on and however often they came and went.
DistinctAddresses ==
  ~wrapped =>
    \A p, q \in Ports : \A a \in cache[p], b \in cache[q] :
      a.allocated /\ b.allocated /\ a.ip = b.ip => p = q /\ a.id = b.id

\* The broadcast octet is never handed out, not even after the octet wraps.
NeverBroadcast ==
  \A p \in Ports : \A e \in cache[p] : e.allocated => e.ip # OctetMax

\* Every listed neighbour with a wireless module in operation has a line in the
\* neighbour file: the file is written anew by a miss on any port and must then
\* hold the neighbours of all of them (lldp_neighbor.c lldp_neighbors_info, which
\* leaves out the neighbours whose modules all have mode 0).
FileCoversCache ==
  \A p \in Ports : \A e \in cache[p] : e.wifi => e.id \in file

\* What relates the flags, the buffer and the counter of addresses: a frame that
\* is said to wait is in the buffer (the flag is raised in main.c and lowered in
\* two handlers), only a master gives out addresses, the next one is a proper
\* host address, and until the octet wraps the ones given out are behind it.
Connected ==
  /\ \A p \in Ports : rcvFrame[p] => rxFrame[p] \in Frames
  /\ \A p \in Ports : DevRole = "SLAVE" => slave[p] = {}
  /\ ips # OctetMax
  /\ ~wrapped => \A p \in Ports : \A e \in cache[p] :
                 e.allocated => e.ip \in 0 .. (ips - 1)

\* The inductive invariant behind the safety properties.
Inv ==
  /\ TypeOK /\ Connected
  /\ UniqueMsap /\ AgeFlagExact /\ GrantRecorded
  /\ DistinctAddresses /\ NeverBroadcast /\ FileCoversCache

-----------------------------------------------------------------------------
(* What a step may never do.                                               *)

\* The table of rxChangeToState, which logs any other change and makes it.
LegalFrom(s) ==
  CASE s = "LLDP_WAIT_PORT_OPERATIONAL" -> RxStates
    [] s \in {"RX_LLDP_INITIALIZE", "DELETE_AGED_INFO"} -> {"LLDP_WAIT_PORT_OPERATIONAL"}
    [] s = "RX_WAIT_FOR_FRAME" ->
         {"RX_LLDP_INITIALIZE", "DELETE_INFO", "UPDATE_INFO", "RX_FRAME"}
    [] s = "RX_FRAME"    -> {"RX_WAIT_FOR_FRAME"}
    [] s = "DELETE_INFO" -> {"RX_WAIT_FOR_FRAME", "RX_FRAME"}
    [] s = "UPDATE_INFO" -> {"RX_FRAME"}

\* rxGlobalStatemachineRun never makes a change that rxChangeToState reports
\* as an illegal transition.
NoIllegalTransition ==
  [][\A p \in Ports : rxState'[p] # rxState[p] =>
                         rxState[p] \in LegalFrom(rxState'[p])]_vars

\* Information that has aged out is never brought back to life: a frame that
\* hits the entry is looked at only after mibDeleteObjects has removed it.
ExpiredNeverRevived ==
  [][\A p \in Ports : \A e \in cache[p], d \in cache'[p] :
       e.ttl = 0 /\ d.id = e.id => d.ttl = 0]_vars

\* mibDeleteObjects takes a neighbour off the list only when its time is over,
\* and it takes all of these at once.
OnlyExpiredDeleted ==
  [][\A p \in Ports : \A e \in cache[p] :
       /\ e.ttl > 0 => Known(cache'[p], e.id)
       /\ rxState'[p] = "DELETE_INFO" /\ rxState[p] # "DELETE_INFO" /\ e.ttl = 0
            => ~Known(cache'[p], e.id)]_vars

\* An address once given stays with the neighbour as long as it is listed: the
\* addresses the neighbour advertises meanwhile do not replace it.
AddressStable ==
  [][\A p \in Ports : \A e \in cache[p], d \in cache'[p] :
       e.allocated /\ d.id = e.id => d.allocated /\ d.ip = e.ip]_vars

-----------------------------------------------------------------------------
(* Liveness, when the rx thread keeps running every port.                  *)

\* A frame that waits while the port purges its cache is taken after all: the
\* purges that may come before it are as many as there are neighbours.
PendingFrameTaken == \A p \in Ports : rcvFrame[p] ~> ~rcvFrame[p]

\* A frame has renewed the time to live of a neighbour.
Heard(p, id) ==
  /\ rxState'[p] = "RX_FRAME" /\ rxState[p] # "RX_FRAME"
  /\ \E e \in cache[p], d \in cache'[p] :
       e.id = id /\ d.id = id /\ d.ttl >= e.ttl

\* A neighbour that has fallen silent is forgotten: one that stays listed for
\* ever is heard again and again.
SilentForgotten ==
  \A p \in Ports, id \in Ids :
    []<>(~Known(cache[p], id)) \/ []<><<Heard(p, id)>>_vars

-----------------------------------------------------------------------------
(* The neighbour tables this state machine implements.                     *)

Timers(c) == {[id |-> e.id, ttl |-> e.ttl] : e \in c}

neighborTable == [p \in Ports |-> Timers(cache[p])]

Table == INSTANCE NeighborTable WITH table <- neighborTable

\* Every run of a port is a round of NeighborTable: the intermediate states, the
\* flags and the buffer never show through, and an aged neighbour is struck in
\* the end.
ImplementsTable == Table!Spec

-----------------------------------------------------------------------------
(* What the comments say and the code does not do.                         *)

\* main.c:230, "Mark that we received a frame so the rx state machine can
\* process it": a frame that waits is processed before another is read over it.
ReceivedFrameProcessed ==
  [][\A p \in Ports : rcvFrame[p] /\ rxFrame'[p] # rxFrame[p] =>
                         rxState'[p] = "RX_FRAME" /\ rxFrame'[p] = NoFrame]_vars

\* rx_sm.c:163, "We should actually discard this frame": a neighbour all of
\* whose frames have a malformed time to live is never listed.
BadTTLDiscarded ==
  \A p \in Ports : \A e \in cache[p] :
    \E f \in Frames : f.id = e.id /\ f.ttl # BadTTL

=============================================================================

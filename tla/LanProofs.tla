------------------------------ MODULE LanProofs ------------------------------
(***************************************************************************)
(* Proofs about Lan for every number of slaves, every interval and time to *)
(* live, every width of the address octet and any number of faults.        *)
(***************************************************************************)
EXTENDS Lan, LldpRxProofs, SequenceTheorems

\* The addresses a slave has put on br0:1 or is being sent.
Holds(s, o) == addr[s] = o \/ \E i \in 1 .. Len(inFlight[s]) : inFlight[s][i] = o

\* What makes the next address a new one: until the master restarts or the octet
\* wraps, everything a slave has or is being sent lies behind the counter, and
\* no two slaves share any of it.
HeldApart ==
  ~rebooted /\ ~wrapped =>
    \A s \in Ids, o \in Octets : Holds(s, o) =>
      /\ o < ips
      /\ \A t \in Ids : Holds(t, o) => s = t

\* The inductive invariant: that of the master, and what it has to do with the
\* slaves.
LanInv == LanTypeOK /\ Inv /\ HeldApart /\ AddressAgreed

-----------------------------------------------------------------------------
(* Addresses on their way.                                                 *)

\* An address that is sent goes to the end of the queue.
LEMMA SentFact ==
  ASSUME LanTypeOK, NEW id \in Ids, NEW octet \in Octets,
         inFlight' = [inFlight EXCEPT ![id] = Append(@, octet)], UNCHANGED addr
  PROVE  /\ inFlight' \in [Ids -> Seq(Octets)]
         /\ inFlight'[id] # <<>> /\ Last(inFlight'[id]) = octet
         /\ \A s \in Ids \ {id} : inFlight'[s] = inFlight[s]
         /\ \A s \in Ids, o \in Octets :
              Holds(s, o)' => Holds(s, o) \/ (s = id /\ o = octet)
<1>1. inFlight[id] \in Seq(Octets) /\ inFlight'[id] = Append(inFlight[id], octet)
  BY DEF LanTypeOK
<1>2. /\ inFlight'[id] \in Seq(Octets) /\ inFlight'[id] # <<>>
      /\ Len(inFlight'[id]) = Len(inFlight[id]) + 1
      /\ \A i \in 1 .. Len(inFlight[id]) : inFlight'[id][i] = inFlight[id][i]
      /\ inFlight'[id][Len(inFlight[id]) + 1] = octet
  BY <1>1, AppendProperties
<1>3. \A s \in Ids \ {id} : inFlight'[s] = inFlight[s]
  BY DEF LanTypeOK
<1>4. Len(inFlight[id]) \in Nat
  BY <1>1, LenProperties
<1>5. ASSUME NEW s \in Ids, NEW o \in Octets, Holds(s, o)'
      PROVE  Holds(s, o) \/ (s = id /\ o = octet)
  <2>1. CASE s # id
    BY <1>3, <1>5, <2>1 DEF Holds
  <2>2. CASE s = id
    <3>1. \A i \in 1 .. Len(inFlight[id]) + 1 :
             i \in 1 .. Len(inFlight[id]) \/ i = Len(inFlight[id]) + 1
      BY <1>4
    <3> QED BY <1>2, <1>5, <2>2, <3>1 DEF Holds
  <2> QED BY <2>1, <2>2
<1>6. inFlight' \in [Ids -> Seq(Octets)]
  BY <1>2 DEF LanTypeOK
<1> QED BY <1>2, <1>3, <1>5, <1>6 DEF Last

\* The oldest address leaves the queue, whether it is taken or lost.
LEMMA GoneFact ==
  ASSUME LanTypeOK, NEW id \in Ids, inFlight[id] # <<>>,
         inFlight' = [inFlight EXCEPT ![id] = Tail(@)],
         addr' \in {addr, [addr EXCEPT ![id] = Head(inFlight[id])]}
  PROVE  /\ inFlight' \in [Ids -> Seq(Octets)] /\ addr' \in [Ids -> Addrs]
         /\ IF Len(inFlight[id]) = 1
              THEN inFlight'[id] = <<>> /\ Head(inFlight[id]) = Last(inFlight[id])
              ELSE inFlight'[id] # <<>> /\ Last(inFlight'[id]) = Last(inFlight[id])
         /\ \A s \in Ids \ {id} : inFlight'[s] = inFlight[s] /\ addr'[s] = addr[s]
         /\ \A s \in Ids, o \in Octets : Holds(s, o)' => Holds(s, o)
<1> DEFINE q == inFlight[id]
<1>1. q \in Seq(Octets) /\ inFlight'[id] = Tail(q)
  BY DEF LanTypeOK
<1>2. /\ Tail(q) \in Seq(Octets) /\ Len(Tail(q)) = Len(q) - 1
      /\ \A i \in 1 .. Len(Tail(q)) : Tail(q)[i] = q[i + 1]
      /\ Head(q) \in Octets /\ Len(q) \in Nat \ {0}
  BY <1>1, HeadTailProperties, EmptySeq
<1>3. Head(q) = q[1]
  BY <1>1
<1>4. \A s \in Ids \ {id} : inFlight'[s] = inFlight[s] /\ addr'[s] = addr[s]
  BY DEF LanTypeOK
<1>5. inFlight' \in [Ids -> Seq(Octets)] /\ addr' \in [Ids -> Addrs]
  BY <1>2 DEF LanTypeOK, Addrs
<1> HIDE DEF q
<1>a. Tail(q) = <<>> <=> Len(q) = 1
  <2>1. \A t \in Seq(Octets) : t = <<>> <=> Len(t) = 0
    BY EmptySeq
  <2>2. Len(Tail(q)) = 0 <=> Len(q) = 1
    BY <1>2
  <2> QED BY <1>2, <2>1, <2>2
<1>6. IF Len(q) = 1
        THEN inFlight'[id] = <<>> /\ Head(q) = Last(q)
        ELSE inFlight'[id] # <<>> /\ Last(inFlight'[id]) = Last(q)
  <2>1. CASE Len(q) = 1
    BY <1>1, <1>3, <1>a, <2>1 DEF Last
  <2>2. CASE Len(q) # 1
    <3>1. Len(Tail(q)) \in 1 .. Len(Tail(q))
      BY <1>2, <2>2
    <3>2. Tail(q)[Len(Tail(q))] = q[Len(q)]
      BY <1>2, <3>1
    <3> QED BY <1>1, <1>a, <2>2, <3>2 DEF Last
  <2> QED BY <2>1, <2>2
<1>7. ASSUME NEW s \in Ids, NEW o \in Octets, Holds(s, o)'
      PROVE  Holds(s, o)
  <2>1. CASE s # id
    BY <1>4, <1>7, <2>1 DEF Holds
  <2>2. CASE s = id
    <3>1. \A i \in 1 .. Len(Tail(q)) : i + 1 \in 1 .. Len(q)
      BY <1>2
    <3>2. 1 \in 1 .. Len(q)
      BY <1>2
    <3>3. addr'[id] \in {addr[id], Head(q)}
      BY DEF LanTypeOK, q
    <3> QED BY <1>1, <1>2, <1>3, <1>7, <2>2, <3>1, <3>2, <3>3 DEF Holds, q
  <2> QED BY <2>1, <2>2
<1> QED BY <1>4, <1>5, <1>6, <1>7 DEF q

-----------------------------------------------------------------------------
(* The master's run.                                                       *)

\* The port is run with what waits in its buffer, or with a frame just read.
MasterRun(f) ==
  \/ Tick(Master) /\ f = rxFrame[Master]
  \/ Receive(Master, f) /\ f \in InfoFrames

\* e was on the master's list with the same address.
WasListed(e) == \E d \in cache[Master] : d.id = e.id /\ d.allocated /\ d.ip = e.ip

\* A run gives the next address to the sender of its frame and counts up, or
\* gives none; the others that have an address had it before.
LEMMA RunFact ==
  ASSUME Inv, NEW f, MasterRun(f)
  PROVE  /\ Next
         /\ IF ips' = ips
              THEN /\ wrapped' = wrapped
                   /\ \A e \in cache'[Master] : e.allocated => WasListed(e)
              ELSE /\ f.id \in Ids
                   /\ ips < ips' \/ wrapped'
                   /\ wrapped => wrapped'
                   /\ \A e \in cache'[Master] : e.allocated =>
                        IF e.id = f.id THEN e.ip = ips ELSE WasListed(e)
<1>1. TypeOK /\ Waiting /\ CacheInv /\ AgeFlagExact
  BY InvParts
<1>2. Next /\ \E rcv \in BOOLEAN : /\ f \in Frame \cup {NoFrame} /\ (rcv => f \in Frames)
                                   /\ Run(Master, rcv, f)
  BY <1>1, LanAssumption, FrameAssumption
     DEF MasterRun, Tick, Receive, Next, TypeOK, Waiting
<1>3. PICK rcv \in BOOLEAN : /\ f \in Frame \cup {NoFrame} /\ (rcv => f \in Frames)
                             /\ Run(Master, rcv, f)
  BY <1>2
<1>4. Master \in Ports /\ cache[Master] \in SUBSET Entry
  BY <1>1, LanAssumption DEF TypeOK
<1>5. ASSUME NEW c \in SUBSET Entry, NEW age, UpdateTimers(Master, c, age)
      PROVE  \A e \in cache'[Master] : \E d \in c :
               d.id = e.id /\ d.allocated = e.allocated /\ d.ip = e.ip
  <2>1. cache'[Master] = Aged(c)
    BY <1>1, <1>4, <1>5 DEF UpdateTimers, TypeOK
  <2> QED BY <2>1, AgedFact
<1>6. CASE \/ Initialize(Master, rcv, f) \/ WaitForFrame(Master, rcv, f)
           \/ DeleteInfo(Master, rcv, f) \/ UpdateInfo(Master, rcv, f)
           \/ ProcessOther(Master, rcv, f)
  <2>1. UNCHANGED <<ips, wrapped>>
    BY <1>6 DEF Initialize, WaitForFrame, DeleteInfo, UpdateInfo, ProcessOther,
                NoFrameProcessed
  <2>2. \E c \in {cache[Master], Live(cache[Master])} : \E age : UpdateTimers(Master, c, age)
    BY <1>6 DEF Initialize, WaitForFrame, DeleteInfo, UpdateInfo, ProcessOther
  <2>3. \A c \in {cache[Master], Live(cache[Master])} :
           c \in SUBSET Entry /\ c \subseteq cache[Master]
    BY <1>4, LiveFact
  <2> QED BY <1>2, <1>5, <2>1, <2>2, <2>3 DEF WasListed
<1>7. CASE ScanForever(Master, rcv, f)
  BY <1>2, <1>7 DEF ScanForever, WasListed
<1>8. CASE ProcessPeer(Master, rcv, f)
  <2>1. Enter(Master, "RX_FRAME", rcv, f) /\ Process(Master, f) /\ "RX_FRAME" \in RxStates
    BY <1>8 DEF ProcessPeer, RxStates
  <2>2. f \in Frame
    <3>1. NextState(Master, rcv) = "RX_FRAME"
      BY <2>1 DEF Enter
    <3> QED BY <1>1, <1>3, <1>4, <3>1, FrameTaken, FrameAssumption
  <2>3. TTLOf(Master, f) \in TTLs
    BY <1>1, <1>4, <2>1, <2>2, ProcessFact
  <2>4. /\ UpdateTimers(Master, Served(Master, f), rxInfoAge[Master])
        /\ ips' = IF Grants(Master, f) THEN NextOctet(ips) ELSE ips
        /\ wrapped' = (wrapped \/ (Grants(Master, f) /\ NextOctet(ips) < ips))
    BY <1>8 DEF ProcessPeer, Served, Grants, Stored
  <2>5. /\ Served(Master, f) \in SUBSET Entry
        /\ \A e \in Served(Master, f) : e.allocated =>
             \/ (Grants(Master, f) => e.id # f.id) /\ WasListed(e)
             \/ Grants(Master, f) /\ e.id = f.id /\ e.ip = ips
    BY <1>1, <1>4, <2>2, <2>3, ServedFact, LanAssumption DEF WasListed
  <2>6. \A e \in cache'[Master] : e.allocated =>
             \/ (Grants(Master, f) => e.id # f.id) /\ WasListed(e)
             \/ Grants(Master, f) /\ e.id = f.id /\ e.ip = ips
    BY <1>5, <2>4, <2>5 DEF WasListed
  <2>7. /\ ips \in Octets /\ ips # OctetMax
        /\ NextOctet(ips) \in Octets /\ NextOctet(ips) # ips
    BY <1>1, NextOctetFact DEF TypeOK, CacheInv
  <2>8. Grants(Master, f) <=> ips' # ips
    BY <2>4, <2>7
  <2>a. /\ wrapped => wrapped'
        /\ ~Grants(Master, f) => wrapped' = wrapped
        /\ Grants(Master, f) /\ NextOctet(ips) < ips => wrapped'
    BY <1>1, <2>4 DEF TypeOK
  <2>9. f.id \in Ids
    BY <2>2 DEF Frame
  <2>10. Grants(Master, f) => ips < ips' \/ wrapped'
    <3>1. ips \in Int /\ NextOctet(ips) \in Int
      BY <2>7, OctetAssumption DEF Octets
    <3>2. NextOctet(ips) < ips \/ ips < NextOctet(ips)
      BY <2>7, <3>1
    <3> QED BY <2>4, <2>a, <3>2
  <2> QED BY <1>2, <2>a, <2>6, <2>8, <2>9, <2>10
<1> QED BY <1>3, <1>6, <1>7, <1>8 DEF Run

\* What a run sends keeps the addresses apart and both sides in agreement.
LEMMA RunStep ==
  ASSUME LanInv, NEW f, MasterRun(f), AfterRun(f)
  PROVE  /\ Inv' /\ HeldApart' /\ AddressAgreed'
         /\ missed' \subseteq Ids /\ heard' \subseteq heard \cup up
         /\ addr' \in [Ids -> Addrs] /\ inFlight' \in [Ids -> Seq(Octets)]
         /\ ran' \in BOOLEAN /\ rebooted' = rebooted
<1>1. LanTypeOK /\ Inv /\ HeldApart /\ AddressAgreed
  BY DEF LanInv
<1>2. Next /\ Inv'
  BY <1>1, RunFact, InvStep
<1>3. cache[Master] \in SUBSET Entry /\ ips \in Octets /\ ips' \in Octets
  BY <1>1, <1>2, LanAssumption DEF Inv, Connected, TypeOK
<1>4. /\ addr' = addr /\ rebooted' = rebooted /\ ran' = TRUE
      /\ heard' \subseteq heard \cup up
  BY DEF AfterRun
<1>5. CASE ips' = ips
  <2>1. /\ UNCHANGED <<inFlight, missed>> /\ wrapped' = wrapped
        /\ \A e \in cache'[Master] : e.allocated => WasListed(e)
    BY <1>1, <1>5, RunFact DEF AfterRun
  <2>2. HeldApart'
    <3>1. \A s, o : Holds(s, o)' <=> Holds(s, o)
      BY <1>4, <2>1 DEF Holds
    <3> QED BY <1>1, <1>4, <1>5, <2>1, <3>1 DEF HeldApart
  <2>3. AddressAgreed'
    BY <1>1, <1>4, <2>1 DEF AddressAgreed, WasListed
  <2> QED BY <1>1, <1>2, <1>4, <2>1, <2>2, <2>3 DEF LanTypeOK
<1>6. CASE ips' # ips
  <2>1. /\ f.id \in Ids /\ (ips < ips' \/ wrapped') /\ (wrapped => wrapped')
        /\ \A e \in cache'[Master] : e.allocated =>
             IF e.id = f.id THEN e.ip = ips ELSE WasListed(e)
    BY <1>1, <1>6, RunFact
  <2>2. /\ inFlight' = [inFlight EXCEPT ![f.id] = Append(@, ips)]
        /\ missed' = missed \ {f.id}
    BY <1>6 DEF AfterRun, GiveAddress
  <2>3. /\ inFlight' \in [Ids -> Seq(Octets)]
        /\ inFlight'[f.id] # <<>> /\ Last(inFlight'[f.id]) = ips
        /\ \A s \in Ids \ {f.id} : inFlight'[s] = inFlight[s]
        /\ \A s \in Ids, o \in Octets :
             Holds(s, o)' => Holds(s, o) \/ (s = f.id /\ o = ips)
    BY <1>1, <1>3, <1>4, <2>1, <2>2, SentFact
  <2>4. HeldApart'
    <3> SUFFICES ASSUME ~rebooted', ~wrapped', NEW s \in Ids, NEW o \in Octets, Holds(s, o)'
                 PROVE  o < ips' /\ \A t \in Ids : Holds(t, o)' => s = t
      BY DEF HeldApart
    <3>1. /\ ~rebooted /\ ~wrapped /\ ips < ips'
          /\ Holds(s, o) \/ (s = f.id /\ o = ips)
      BY <1>4, <2>1, <2>3
    <3>2. \A t \in Ids : Holds(t, o) => o < ips /\ \A u \in Ids : Holds(u, o) => t = u
      BY <1>1, <3>1 DEF HeldApart
    <3>3. \A t \in Ids : ~Holds(t, ips)
      BY <1>1, <1>3, <3>1, OctetAssumption DEF HeldApart, Octets
    <3>4. o \in Int /\ ips \in Int /\ ips' \in Int
      BY <1>3, OctetAssumption DEF Octets
    <3>5. o < ips'
      BY <3>1, <3>2, <3>4
    <3>6. ASSUME NEW t \in Ids, Holds(t, o)' PROVE s = t
      BY <2>3, <3>1, <3>2, <3>3, <3>6
    <3> QED BY <3>5, <3>6
  <2>5. AddressAgreed'
    <3> SUFFICES ASSUME NEW e \in cache'[Master], e.allocated, e.id \notin missed'
                 PROVE  e.ip = IF inFlight'[e.id] = <<>> THEN addr'[e.id]
                               ELSE Last(inFlight'[e.id])
      BY DEF AddressAgreed
    <3>1. CASE e.id = f.id
      BY <2>1, <2>3, <3>1
    <3>2. CASE e.id # f.id
      <4>1. PICK d \in cache[Master] : d.id = e.id /\ d.allocated /\ d.ip = e.ip
        BY <2>1, <3>2 DEF WasListed
      <4>2. e.id \in Ids \ {f.id} /\ e.id \notin missed
        BY <1>3, <2>2, <3>2, <4>1 DEF Entry
      <4> QED BY <1>1, <1>4, <2>3, <4>1, <4>2 DEF AddressAgreed
    <3> QED BY <3>1, <3>2
  <2> QED BY <1>1, <1>2, <1>4, <2>2, <2>3, <2>4, <2>5 DEF LanTypeOK
<1> QED BY <1>5, <1>6

-----------------------------------------------------------------------------
(* The invariant.                                                          *)

\* A network that has just been switched on satisfies the invariant.
LEMMA LanInvInit ==
  ASSUME LanInit
  PROVE  LanInv
<1>1. Inv
  BY InvInit DEF LanInit
<1>2. LanTypeOK
  <2>1. <<>> \in Seq(Octets) /\ OwnAddr \in Addrs /\ 0 \in 0 .. MsgTxInterval + 1
        /\ 0 \in 0 .. MaxFaults
    BY LanAssumption, EmptySeq DEF Addrs
  <2> QED BY <2>1 DEF LanInit, LanTypeOK
<1>3. HeldApart
  BY FrameAssumption DEF LanInit, HeldApart, Holds
<1>4. AddressAgreed
  BY LanAssumption DEF LanInit, Init, AddressAgreed
<1> QED BY <1>1, <1>2, <1>3, <1>4 DEF LanInv

\* A restart of the master leaves it in a state that a run may start from.
LEMMA RebootStep ==
  ASSUME LanInv, MasterReboot
  PROVE  LanInv'
<1>1. LanTypeOK /\ Inv /\ TypeOK
  BY DEF LanInv, Inv
<1>2. TypeOK'
  <2>1. 0 \in TTLs /\ FirstOctet \in Octets /\ "LLDP_WAIT_PORT_OPERATIONAL" \in RxStates
    BY OctetAssumption, MaxTTLAssumption DEF TTLs, Octets, RxStates
  <2> QED BY <1>1, <2>1 DEF MasterReboot, TypeOK
<1>3. Inv'
  BY <1>2, OctetAssumption
     DEF MasterReboot, Inv, Connected, UniqueMsap, Unique, AgeFlagExact, Expired, GrantRecorded,
         DistinctAddresses, NeverBroadcast, FileCoversCache
<1>4. LanTypeOK'
  BY <1>1, LanAssumption DEF MasterReboot, Fault, LanTypeOK, slaveVars, secVars
<1>5. HeldApart'
  BY DEF MasterReboot, HeldApart
<1>6. AddressAgreed'
  BY LanAssumption DEF MasterReboot, AddressAgreed
<1> QED BY <1>3, <1>4, <1>5, <1>6 DEF LanInv

\* What does not touch the master keeps its invariant.
LEMMA MasterUntouched ==
  ASSUME Inv, UNCHANGED vars
  PROVE  Inv' /\ UNCHANGED <<ips, wrapped, cache>>
BY InvStep DEF vars, portVars

\* The addresses stay apart when a step only takes some away.
LEMMA FewerHeld ==
  ASSUME HeldApart, UNCHANGED <<ips, wrapped, rebooted>>,
         \A s \in Ids, o \in Octets : Holds(s, o)' => Holds(s, o)
  PROVE  HeldApart'
BY DEF HeldApart

\* The steps of a slave alone, the losses among them, keep the invariant.
LEMMA SlaveStep ==
  ASSUME LanInv, NEW s \in Ids,
         Start(s) \/ Stop(s) \/ SendLost(s) \/ TakeAddress(s) \/ LoseAddress(s)
  PROVE  LanInv'
<1>1. LanTypeOK /\ Inv /\ HeldApart /\ AddressAgreed
  BY DEF LanInv
<1>2. Inv' /\ UNCHANGED <<ips, wrapped, cache, rebooted>>
  BY <1>1, MasterUntouched DEF Start, Stop, SendLost, TakeAddress, LoseAddress
<1>3. cache[Master] \in SUBSET Entry
  BY <1>1, LanAssumption DEF Inv, Connected, TypeOK
<1>4. /\ MsgTxInterval + 1 \in 0 .. MsgTxInterval + 1 /\ 0 \in 0 .. MsgTxInterval + 1
      /\ (Fault => faults' \in 0 .. MaxFaults)
  BY <1>1, LanAssumption DEF Fault, LanTypeOK
<1>5. CASE Start(s) \/ SendLost(s)
  <2>1. UNCHANGED <<addr, inFlight, missed, heard, ran, ticked>>
    BY <1>5 DEF Start, SendLost, linkVars, secVars
  <2>2. LanTypeOK'
    BY <1>1, <1>2, <1>4, <1>5, <2>1 DEF Start, SendLost, Sends, Fault, LanTypeOK
  <2>3. HeldApart'
    BY <1>1, <1>2, <2>1, FewerHeld DEF Holds
  <2>4. AddressAgreed'
    BY <1>1, <1>2, <2>1 DEF AddressAgreed
  <2> QED BY <1>2, <2>2, <2>3, <2>4 DEF LanInv
<1>6. CASE Stop(s)
  <2>1. /\ addr' = [addr EXCEPT ![s] = OwnAddr] /\ inFlight' = inFlight
        /\ missed' = missed \cup {s} /\ heard' = heard \ {s}
    BY <1>6 DEF Stop
  <2>2. LanTypeOK'
    BY <1>1, <1>2, <1>4, <1>6, <2>1 DEF Stop, Fault, LanTypeOK, Addrs, secVars
  <2>3. HeldApart'
    <3>1. \A t \in Ids, o \in Octets : Holds(t, o)' => Holds(t, o)
      BY <1>1, <2>1, FrameAssumption DEF Holds, LanTypeOK
    <3> QED BY <1>1, <1>2, <3>1, FewerHeld
  <2>4. AddressAgreed'
    BY <1>1, <1>2, <1>3, <2>1 DEF AddressAgreed, LanTypeOK, Entry
  <2> QED BY <1>2, <2>2, <2>3, <2>4 DEF LanInv
<1>7. CASE TakeAddress(s) \/ LoseAddress(s)
  <2>1. /\ inFlight[s] # <<>> /\ inFlight' = [inFlight EXCEPT ![s] = Tail(@)]
        /\ addr' \in {addr, [addr EXCEPT ![s] = Head(inFlight[s])]}
        /\ missed' \in {missed, missed \cup {s}}
        /\ Len(inFlight[s]) = 1 =>
             addr' = [addr EXCEPT ![s] = Head(inFlight[s])] \/ s \in missed'
    BY <1>7 DEF TakeAddress, LoseAddress, Taken
  <2>2. /\ inFlight' \in [Ids -> Seq(Octets)] /\ addr' \in [Ids -> Addrs]
        /\ IF Len(inFlight[s]) = 1
             THEN inFlight'[s] = <<>> /\ Head(inFlight[s]) = Last(inFlight[s])
             ELSE inFlight'[s] # <<>> /\ Last(inFlight'[s]) = Last(inFlight[s])
        /\ \A t \in Ids \ {s} : inFlight'[t] = inFlight[t] /\ addr'[t] = addr[t]
        /\ \A t \in Ids, o \in Octets : Holds(t, o)' => Holds(t, o)
    BY <1>1, <2>1, GoneFact
  <2>3. LanTypeOK'
    BY <1>1, <1>2, <1>4, <1>7, <2>1, <2>2
       DEF TakeAddress, LoseAddress, Fault, LanTypeOK, slaveVars, secVars
  <2>4. HeldApart'
    BY <1>1, <1>2, <2>2, FewerHeld
  <2>5. AddressAgreed'
    <3> SUFFICES ASSUME NEW e \in cache[Master], e.allocated, e.id \notin missed'
                 PROVE  e.ip = IF inFlight'[e.id] = <<>> THEN addr'[e.id]
                               ELSE Last(inFlight'[e.id])
      BY <1>2 DEF AddressAgreed
    <3>1. /\ e.id \in Ids /\ e.id \notin missed
          /\ e.ip = IF inFlight[e.id] = <<>> THEN addr[e.id] ELSE Last(inFlight[e.id])
      BY <1>1, <1>3, <2>1 DEF Entry, AddressAgreed
    <3>2. CASE e.id # s
      BY <2>2, <3>1, <3>2
    <3>3. CASE e.id = s
      <4>1. Len(inFlight[s]) = 1 => addr'[s] = Head(inFlight[s])
        BY <1>1, <2>1, <3>3 DEF LanTypeOK
      <4> QED BY <2>1, <2>2, <3>1, <3>3, <4>1
    <3> QED BY <3>2, <3>3
  <2> QED BY <1>2, <2>3, <2>4, <2>5 DEF LanInv
<1> QED BY <1>5, <1>6, <1>7

\* The passing of a second changes the slaves' timers and no more.
LEMMA SecondStep ==
  ASSUME LanInv, Second
  PROVE  LanInv'
<1>1. LanTypeOK /\ Inv /\ HeldApart /\ AddressAgreed
  BY DEF LanInv
<1>2. Inv' /\ UNCHANGED <<ips, wrapped, cache, rebooted>>
  BY <1>1, MasterUntouched DEF Second
<1>3. UNCHANGED <<up, addr, inFlight, missed, heard, faults>>
  BY DEF Second, linkVars
<1>4. LanTypeOK'
  <2>1. since' \in [Ids -> 0 .. MsgTxInterval + 1]
    BY <1>1, LanAssumption DEF Second, AllSent, LanTypeOK
  <2> QED BY <1>1, <1>2, <1>3, <2>1 DEF Second, LanTypeOK
<1>5. HeldApart'
  BY <1>1, <1>2, <1>3, FewerHeld DEF Holds
<1>6. AddressAgreed'
  BY <1>1, <1>2, <1>3 DEF AddressAgreed
<1> QED BY <1>2, <1>4, <1>5, <1>6 DEF LanInv

\* Every step of the network keeps the invariant.
LEMMA LanInvStep ==
  ASSUME LanInv, [LanNext]_lanVars
  PROVE  LanInv'
<1>1. LanTypeOK /\ Inv /\ HeldApart /\ AddressAgreed
  BY DEF LanInv
<1>2. ASSUME NEW f, MasterRun(f), AfterRun(f), up' = up, ticked' \in BOOLEAN,
             since' \in [Ids -> 0 .. MsgTxInterval + 1], faults' = faults
      PROVE  LanInv'
  <2>1. /\ Inv' /\ HeldApart' /\ AddressAgreed'
        /\ missed' \subseteq Ids /\ heard' \subseteq heard \cup up
        /\ addr' \in [Ids -> Addrs] /\ inFlight' \in [Ids -> Seq(Octets)]
        /\ ran' \in BOOLEAN /\ rebooted' = rebooted
    BY <1>2, RunStep
  <2>2. LanTypeOK'
    BY <1>1, <1>2, <2>1 DEF LanTypeOK
  <2> QED BY <2>1, <2>2 DEF LanInv
<1>3. CASE MasterTick
  <2>1. /\ MasterRun(rxFrame[Master]) /\ AfterRun(rxFrame[Master])
        /\ up' = up /\ since' = since /\ faults' = faults /\ ticked' \in BOOLEAN
    BY <1>3 DEF MasterTick, MasterRun, slaveVars
  <2> QED BY <1>1, <1>2, <2>1 DEF LanTypeOK
<1>4. CASE MasterReboot
  BY <1>4, RebootStep
<1>5. CASE Second
  BY <1>5, SecondStep
<1>6. ASSUME NEW s \in Ids, SendHeard(s)
      PROVE  LanInv'
  <2>1. /\ MasterRun(InfoFrame(s)) /\ AfterRun(InfoFrame(s))
        /\ up' = up /\ since' = [since EXCEPT ![s] = 0] /\ UNCHANGED <<ticked, faults>>
    BY <1>6 DEF SendHeard, Sends, MasterRun, InfoFrames
  <2>2. since' \in [Ids -> 0 .. MsgTxInterval + 1] /\ ticked' \in BOOLEAN
    BY <1>1, <2>1, LanAssumption DEF LanTypeOK
  <2> QED BY <1>2, <2>1, <2>2
<1>7. CASE UNCHANGED lanVars
  <2>1. /\ UNCHANGED vars
        /\ UNCHANGED <<up, since, addr, inFlight, missed, heard, ran, ticked, rebooted, faults>>
    BY <1>7 DEF lanVars, slaveVars, linkVars, secVars
  <2>2. Inv' /\ UNCHANGED <<ips, wrapped, cache>>
    BY <1>1, <2>1, MasterUntouched
  <2>3. LanTypeOK' /\ AddressAgreed'
    BY <1>1, <2>1, <2>2 DEF LanTypeOK, AddressAgreed
  <2>4. HeldApart'
    BY <1>1, <2>1, <2>2, FewerHeld DEF Holds
  <2> QED BY <2>2, <2>3, <2>4 DEF LanInv
<1> QED BY <1>3, <1>4, <1>5, <1>6, <1>7, SlaveStep DEF LanNext, SlaveNext

\* The invariant holds of a master and any number of slaves, whatever is lost
\* and whoever restarts.
THEOREM LanInvariance == LanSpec => []LanInv
<1>1. LanInit => LanInv
  BY LanInvInit
<1>2. LanInv /\ [LanNext]_lanVars => LanInv'
  BY LanInvStep
<1> QED BY <1>1, <1>2, PTL DEF LanSpec

\* Every variable of the network keeps its type.
THEOREM LanTypeCorrect == LanSpec => []LanTypeOK
<1>1. LanInv => LanTypeOK
  BY DEF LanInv
<1> QED BY <1>1, LanInvariance, PTL

\* A slave and the master agree on the slave's address unless the frame that
\* gave it was lost or the slave has restarted since.
THEOREM AddressIsAgreed == LanSpec => []AddressAgreed
<1>1. LanInv => AddressAgreed
  BY DEF LanInv
<1> QED BY <1>1, LanInvariance, PTL

\* No two slaves ever use the same address before the master restarts or the
\* octet wraps.
THEOREM AddressesAreUnique == LanSpec => []AddressesUnique
<1>1. LanInv => AddressesUnique
  BY DEF LanInv, LanTypeOK, HeldApart, Holds, AddressesUnique, Addrs
<1> QED BY <1>1, LanInvariance, PTL

\* What LldpRx promises survives the restarts of the master, which LldpRx itself
\* knows nothing of: above all that no neighbour is listed twice and that the
\* broadcast octet is never handed out.
THEOREM MasterStaysSound == LanSpec => [](UniqueMsap /\ AgeFlagExact /\ NeverBroadcast)
<1>1. LanInv => UniqueMsap /\ AgeFlagExact /\ NeverBroadcast
  BY DEF LanInv, Inv
<1> QED BY <1>1, LanInvariance, PTL

=============================================================================

---------------------------- MODULE LanKeptProofs ----------------------------
(***************************************************************************)
(* Proof that a slave which keeps sending stays on the master's list.  A   *)
(* neighbour's timer counts runs of the master's port, so the frames of    *)
(* the other slave shorten it too; how much of the hold time is left after *)
(* a given number of seconds is a matter of how often the two may send.    *)
(***************************************************************************)
EXTENDS LanProofs

\* Two slaves, whose hold time outlasts two intervals by ten runs.  The
\* defaults of the code, intervals of 5 and four of them to hold, just do.
TwoSlaves ==
  /\ \E a, b : a # b /\ Ids = {a, b}
  /\ MsgTxInterval >= 3
  /\ MaxTTL >= MsgTxInterval + MsgTxInterval + 10

\* The longest time between two frames of a slave.
Period == MsgTxInterval + 1

\* The neighbour is listed, and for n more runs at least.
AtLeast(c, id, n) == Known(c, id) /\ \A e \in c : e.id = id => e.ttl >= n

Working == {"RX_WAIT_FOR_FRAME", "RX_FRAME", "UPDATE_INFO", "DELETE_INFO"}

\* What the master's state says of its list and of its buffer.
MasterInv ==
  /\ rcvFrame[Master] => rxFrame[Master] \in InfoFrames
  /\ heard \subseteq up
  /\ heard # {} => rxState[Master] \in Working
  /\ rxState[Master] = "RX_FRAME" =>
       /\ rxTTL[Master] = MaxTTL /\ rxChanges[Master]
       /\ \E u \in Ids : AtLeast(cache[Master], u, MaxTTL - 1)
  /\ rxState[Master] = "UPDATE_INFO" =>
       \E u \in Ids : AtLeast(cache[Master], u, MaxTTL - 2)
  /\ rxState[Master] = "DELETE_INFO" =>
       \A d, e \in cache[Master] : d.id = e.id

\* The runs the master needs before it looks at a frame that waits.
RunsAhead ==
  CASE rxState[Master] = "RX_FRAME" -> 3
    [] rxState[Master] = "RX_WAIT_FOR_FRAME" -> IF rxInfoAge[Master] THEN 3 ELSE 1
    [] OTHER -> 2

\* The next frame of s is in the buffer, and the master gets to it in time.
Waits(s) ==
  /\ rcvFrame[Master] /\ rxFrame[Master] = InfoFrame(s)
  /\ AtLeast(cache[Master], s, RunsAhead)

\* How many frames a slave may have sent in n seconds when the last one was sent
\* gap seconds ago: they are an interval apart.
Sent(gap, n) == {d \in 0 .. 3 : d = 0 \/ (d - 1) * MsgTxInterval + gap <= n}

Ticks == IF ticked THEN 1 ELSE 0

\* What is left of the hold time after one run each second by the timeout and d
\* by frames of the other slave.  A fault lengthens the time by the period of a
\* frame that was lost, or adds what the other had sent before it restarted.
Left(s, lost, restart, d) == MaxTTL - 1 - (since[s] + lost) - Ticks - d - restart

LeftAfter(s, t, lost, restart) ==
  \E d \in Sent(since[t], since[s] + lost) :
    /\ d # 0 => t \in up
    /\ AtLeast(cache[Master], s, Left(s, lost, restart, d))

InTime(s, t) ==
  \/ LeftAfter(s, t, 0, 0)
  \/ faults = 1 /\ (LeftAfter(s, t, Period, 0) \/ LeftAfter(s, t, 0, 2))

Kept(s, t) == faults <= 1 /\ s \in heard => InTime(s, t) \/ Waits(s)

KeptInv ==
  /\ LanInv /\ MasterInv
  /\ \A s, t \in Ids : s # t => Kept(s, t)

-----------------------------------------------------------------------------
(* The timers of the list.                                                 *)

LEMMA AtLeastFact ==
  ASSUME NEW c \in SUBSET Entry, NEW id \in Ids
  PROVE  /\ \A n, m \in Int : m <= n /\ AtLeast(c, id, n) => AtLeast(c, id, m)
         /\ \A n \in Int : AtLeast(c, id, n) => AtLeast(Aged(c), id, n - 1)
         /\ \A n \in Int : n >= 1 /\ AtLeast(c, id, n) => AtLeast(Live(c), id, n)
<1>1. \A e \in c : e.ttl \in Nat
  BY MaxTTLAssumption DEF Entry, TTLs
<1>2. ASSUME NEW n \in Int, NEW m \in Int, m <= n, AtLeast(c, id, n)
      PROVE  AtLeast(c, id, m)
  BY <1>1, <1>2 DEF AtLeast
<1>3. ASSUME NEW n \in Int, AtLeast(c, id, n)
      PROVE  AtLeast(Aged(c), id, n - 1)
  <2>1. Known(Aged(c), id)
    BY <1>3, AgedFact DEF AtLeast, Known
  <2>2. ASSUME NEW e \in Aged(c), e.id = id
        PROVE  e.ttl >= n - 1
    <3>1. PICK d \in c : e.id = d.id /\ e.ttl = IF d.ttl > 0 THEN d.ttl - 1 ELSE d.ttl
      BY AgedFact
    <3>2. d.ttl >= n
      BY <1>3, <2>2, <3>1 DEF AtLeast
    <3> QED BY <1>1, <3>1, <3>2
  <2> QED BY <2>1, <2>2 DEF AtLeast
<1>4. ASSUME NEW n \in Int, n >= 1, AtLeast(c, id, n)
      PROVE  AtLeast(Live(c), id, n)
  <2>1. PICK d \in c : d.id = id /\ d.ttl >= n
    BY <1>4 DEF AtLeast, Known
  <2>2. d \in Live(c)
    BY <1>1, <1>4, <2>1, LiveFact
  <2> QED BY <1>4, <2>1, <2>2, LiveFact DEF AtLeast, Known
<1> QED BY <1>2, <1>3, <1>4

\* A frame stores its time to live for its sender and leaves the others alone.
LEMMA StoredTimers ==
  ASSUME TypeOK, NEW f \in InfoFrames
  PROVE  /\ Served(Master, f) \in SUBSET Entry
         /\ AtLeast(Served(Master, f), f.id, MaxTTL)
         /\ \A id \in Ids \ {f.id} : \A n \in Int :
              AtLeast(cache[Master], id, n) => AtLeast(Served(Master, f), id, n)
<1> DEFINE c  == cache[Master]
           c1 == Stored(Master, f)
<1>1. c \in SUBSET Entry /\ ips \in Octets
  BY LanAssumption DEF TypeOK
<1>2. f \in Frame /\ f.id \in Ids /\ f.ttl = MaxTTL
  BY LanAssumption, FrameAssumption DEF InfoFrames, InfoFrame
<1>3. TTLOf(Master, f) = MaxTTL /\ MaxTTL \in TTLs
  BY <1>2, FrameAssumption, MaxTTLAssumption DEF TTLOf, TTLs
<1>4. /\ c1 \in SUBSET Entry /\ Known(c1, f.id)
      /\ \A e \in c1 : IF e.id = f.id THEN e.ttl = MaxTTL ELSE e \in c
      /\ \A e \in c : e.id # f.id => e \in c1
  <2>1. c1 = Updated(c, f, MaxTTL)
    BY <1>3 DEF Stored
  <2>2. NewEntry(f, MaxTTL).ttl = MaxTTL /\ NewEntry(f, MaxTTL).id = f.id
    BY DEF NewEntry
  <2> HIDE DEF c, c1
  <2> QED BY <1>1, <1>2, <1>3, <2>1, <2>2, UpdatedFact
<1>5. /\ AtLeast(c1, f.id, MaxTTL)
      /\ \A id \in Ids \ {f.id} : \A n \in Int : AtLeast(c, id, n) => AtLeast(c1, id, n)
  <2> HIDE DEF c, c1
  <2>1. \A e \in c1 : e.id = f.id => e.ttl >= MaxTTL
    BY <1>4, MaxTTLAssumption
  <2> QED BY <1>4, <2>1 DEF AtLeast, Known
<1>6. CASE Grants(Master, f)
  <2>1. Served(Master, f) = Granted(c1, f.id, ips)
    BY <1>6 DEF Served
  <2> HIDE DEF c, c1
  <2>2. /\ Granted(c1, f.id, ips) \in SUBSET Entry
        /\ \A id : \A n \in Int :
             AtLeast(c1, id, n) => AtLeast(Granted(c1, f.id, ips), id, n)
    BY <1>1, <1>2, <1>4, GrantedFact DEF AtLeast
  <2>3. MaxTTL \in Int
    BY MaxTTLAssumption
  <2> QED BY <1>5, <2>1, <2>2, <2>3 DEF c
<1>7. CASE ~Grants(Master, f)
  BY <1>4, <1>5, <1>7 DEF Served
<1> QED BY <1>6, <1>7

-----------------------------------------------------------------------------
(* A run of the master's port.                                             *)

\* What waits in the buffer in a run started by the clock or by a frame.
Started(rcv, f) == rcv \in BOOLEAN /\ (rcv => f \in InfoFrames) /\ Run(Master, rcv, f)

LEMMA StartedFact ==
  ASSUME Inv, MasterInv, NEW f, MasterRun(f)
  PROVE  \E rcv \in BOOLEAN : /\ Started(rcv, f)
                              /\ rcvFrame[Master] => rcv
                              /\ rcv => rcvFrame[Master] \/ f \in InfoFrames
<1>1. rcvFrame[Master] \in BOOLEAN
  BY LanAssumption DEF Inv, Connected, TypeOK
<1>2. CASE Tick(Master) /\ f = rxFrame[Master]
  BY <1>1, <1>2 DEF MasterInv, Started, Tick
<1>3. CASE Receive(Master, f) /\ f \in InfoFrames
  BY <1>3 DEF Started, Receive
<1> QED BY <1>2, <1>3 DEF MasterRun

\* What a run does to the list, told by the state it enters.
LEMMA RunEffect ==
  ASSUME Inv, NEW rcv, NEW f, Started(rcv, f)
  PROVE  LET c == cache[Master]  c2 == cache'[Master]
             s == rxState[Master]  s2 == rxState'[Master]
         IN  /\ s2 = "RX_FRAME" =>
                  /\ s = "RX_WAIT_FOR_FRAME" /\ rcv /\ f \in InfoFrames
                  /\ c2 = Aged(Served(Master, f))
                  /\ rxTTL'[Master] = MaxTTL /\ rxChanges'[Master]
                  /\ ~rcvFrame'[Master]
             /\ s2 # "RX_FRAME" =>
                  /\ rxFrame'[Master] = f
                  /\ rcvFrame'[Master] => rcv
                  /\ s \in Working => rcvFrame'[Master] = rcv
             /\ s2 = "UPDATE_INFO" => s = "RX_FRAME" /\ c2 = Aged(c)
             /\ s2 = "RX_WAIT_FOR_FRAME" =>
                  /\ c2 = Aged(c) /\ (rxInfoAge'[Master] <=> Expired(c2))
                  /\ ~(s = "RX_WAIT_FOR_FRAME" /\ rcv)
             /\ s2 = "DELETE_INFO" =>
                  /\ c2 = Aged(Live(c))
                  /\ \/ s = "RX_WAIT_FOR_FRAME" /\ rxInfoAge[Master]
                     \/ s = "RX_FRAME" /\ rxTTL[Master] = 0
             /\ s \in Working => s2 \in Working
             /\ s = "RX_FRAME" /\ rxTTL[Master] # 0 /\ rxChanges[Master] => s2 = "UPDATE_INFO"
             /\ s \in {"UPDATE_INFO", "DELETE_INFO"} => s2 = "RX_WAIT_FOR_FRAME"
             /\ s = "RX_WAIT_FOR_FRAME" /\ rxInfoAge[Master] => s2 = "DELETE_INFO"
             /\ s = "RX_WAIT_FOR_FRAME" /\ ~rxInfoAge[Master] /\ rcv => s2 = "RX_FRAME"
<1> DEFINE s  == rxState[Master]
           s2 == rxState'[Master]
           c  == cache[Master]
<1>1. TypeOK /\ Master \in Ports /\ rcv \in BOOLEAN /\ Run(Master, rcv, f)
  BY LanAssumption DEF Inv, Connected, Started
<1>2. /\ rxState \in [Ports -> RxStates] /\ rxFrame \in [Ports -> Frame \cup {NoFrame}]
      /\ rcvFrame \in [Ports -> BOOLEAN] /\ rxInfoAge \in [Ports -> BOOLEAN]
      /\ rxTTL \in [Ports -> TTLs] /\ rxChanges \in [Ports -> BOOLEAN]
      /\ cache \in [Ports -> SUBSET Entry] /\ s \in RxStates
  BY <1>1 DEF TypeOK
<1>3. /\ NextState(Master, rcv) = "RX_FRAME" =>
           s = "RX_WAIT_FOR_FRAME" /\ rcv /\ ~rxInfoAge[Master]
      /\ NextState(Master, rcv) = "UPDATE_INFO" => s = "RX_FRAME"
      /\ NextState(Master, rcv) = "RX_WAIT_FOR_FRAME" => ~(s = "RX_WAIT_FOR_FRAME" /\ rcv)
      /\ NextState(Master, rcv) = "DELETE_INFO" =>
           \/ s = "RX_WAIT_FOR_FRAME" /\ rxInfoAge[Master]
           \/ s = "RX_FRAME" /\ rxTTL[Master] = 0
      /\ s \in Working => NextState(Master, rcv) \in Working
      /\ s = "RX_FRAME" /\ rxTTL[Master] # 0 /\ rxChanges[Master] =>
           NextState(Master, rcv) = "UPDATE_INFO"
      /\ s \in {"UPDATE_INFO", "DELETE_INFO"} => NextState(Master, rcv) = "RX_WAIT_FOR_FRAME"
      /\ s = "RX_WAIT_FOR_FRAME" /\ rxInfoAge[Master] => NextState(Master, rcv) = "DELETE_INFO"
      /\ s = "RX_WAIT_FOR_FRAME" /\ ~rxInfoAge[Master] /\ rcv =>
           NextState(Master, rcv) = "RX_FRAME"
  BY <1>1, <1>2 DEF NextState, FromWaiting, FromFrame, RxStates, portEnabled,
                      adminStatus, Working
<1>4. ASSUME NEW state \in RxStates, Enter(Master, state, rcv, f)
      PROVE  /\ s2 = state /\ NextState(Master, rcv) = state
             /\ state = "RX_FRAME" => ~rcvFrame'[Master]
             /\ state # "RX_FRAME" =>
                  /\ rxFrame'[Master] = f /\ (rcvFrame'[Master] => rcv)
                  /\ state # "RX_LLDP_INITIALIZE" => rcvFrame'[Master] = rcv
  BY <1>1, <1>2, <1>4 DEF Enter
<1>5. ASSUME NEW d, NEW age, UpdateTimers(Master, d, age)
      PROVE  cache'[Master] = Aged(d)
             /\ (rxInfoAge'[Master] <=> age \/ Expired(Aged(d)))
  BY <1>1, <1>2, <1>5 DEF UpdateTimers
<1>6. "RX_LLDP_INITIALIZE" \notin Working /\ Working \subseteq RxStates
      /\ "RX_LLDP_INITIALIZE" \in RxStates /\ "DELETE_AGED_INFO" \in RxStates
  BY DEF Working, RxStates
<1>7. CASE Initialize(Master, rcv, f)
  <2>1. Enter(Master, "RX_LLDP_INITIALIZE", rcv, f)
    BY <1>7 DEF Initialize
  <2> QED BY <1>3, <1>4, <1>6, <2>1
<1>8. CASE WaitForFrame(Master, rcv, f)
  <2>1. Enter(Master, "RX_WAIT_FOR_FRAME", rcv, f) /\ UpdateTimers(Master, c, FALSE)
    BY <1>8 DEF WaitForFrame
  <2> QED BY <1>3, <1>4, <1>5, <2>1 DEF Working, RxStates
<1>9. CASE DeleteInfo(Master, rcv, f)
  <2>1. PICK state \in {"DELETE_INFO", "DELETE_AGED_INFO"} :
          /\ Enter(Master, state, rcv, f)
          /\ UpdateTimers(Master, Live(c), rxInfoAge[Master] /\ state = "DELETE_INFO")
    BY <1>9 DEF DeleteInfo
  <2> QED BY <1>3, <1>4, <1>5, <2>1 DEF Working, RxStates
<1>10. CASE UpdateInfo(Master, rcv, f)
  <2>1. Enter(Master, "UPDATE_INFO", rcv, f) /\ UpdateTimers(Master, c, rxInfoAge[Master])
    BY <1>10 DEF UpdateInfo
  <2> QED BY <1>3, <1>4, <1>5, <2>1 DEF Working, RxStates
<1>11. CASE \/ ProcessOther(Master, rcv, f) \/ ProcessPeer(Master, rcv, f)
            \/ ScanForever(Master, rcv, f)
  <2>1. Enter(Master, "RX_FRAME", rcv, f) /\ Process(Master, f)
    BY <1>11 DEF ProcessOther, ProcessPeer, ScanForever
  <2>2. /\ s2 = "RX_FRAME" /\ s = "RX_WAIT_FOR_FRAME" /\ rcv /\ ~rxInfoAge[Master]
        /\ NextState(Master, rcv) = "RX_FRAME" /\ ~rcvFrame'[Master]
    BY <1>3, <1>4, <2>1 DEF Working, RxStates
  <2>3. f \in InfoFrames /\ f.kind = "slave" /\ f.ttl = MaxTTL
    BY <2>2 DEF Started, InfoFrames, InfoFrame
  <2>4. ProcessPeer(Master, rcv, f)
    BY <1>11, <2>3, LanAssumption DEF ProcessOther, ScanForever, HaveDcMsap
  <2>5. UpdateTimers(Master, Served(Master, f), rxInfoAge[Master])
    BY <2>4 DEF ProcessPeer, Served, Grants, Stored
  <2>6. rxTTL'[Master] = MaxTTL
    BY <1>1, <1>2, <2>1, <2>3, FrameAssumption, MaxTTLAssumption
       DEF Process, TTLOf, TTLs
  <2>7. rxChanges'[Master]
    BY <1>1, <1>2, <2>4 DEF ProcessPeer
  <2> QED BY <1>3, <1>5, <2>2, <2>3, <2>5, <2>6, <2>7 DEF Working
<1> QED BY <1>1, <1>7, <1>8, <1>9, <1>10, <1>11 DEF Run

\* When all of a list is one slave's, or the other's entry has just been renewed,
\* nothing on it runs out before a slave that has two runs left.
LEMMA NothingExpires ==
  ASSUME TwoSlaves, NEW c \in SUBSET Entry, NEW s \in Ids, AtLeast(c, s, 2),
         \/ \A d, e \in c : d.id = e.id
         \/ \E u \in Ids : AtLeast(c, u, MaxTTL - 2)
  PROVE  ~Expired(Aged(c)) \/ AtLeast(c, s, MaxTTL - 2)
<1>1. \A e \in c : e.ttl \in Nat /\ e.id \in Ids
  BY MaxTTLAssumption DEF Entry, TTLs
<1>2. MaxTTL \in Nat /\ MaxTTL - 2 \in Nat /\ MaxTTL - 2 >= 2
  BY MaxTTLAssumption, LanAssumption DEF TwoSlaves
<1>3. ASSUME \A e \in c : e.ttl >= 2
      PROVE  ~Expired(Aged(c))
  BY <1>1, <1>3, AgedFact DEF Expired
<1>4. CASE \A d, e \in c : d.id = e.id
  <2>1. \A e \in c : e.id = s /\ e.ttl >= 2
    BY <1>4 DEF AtLeast, Known
  <2> QED BY <1>3, <2>1
<1>5. CASE \E u \in Ids \ {s} : AtLeast(c, u, MaxTTL - 2)
  <2>1. PICK u \in Ids \ {s} : AtLeast(c, u, MaxTTL - 2)
    BY <1>5
  <2>2. \A e \in c : e.id = s \/ e.id = u
    BY <1>1, <2>1 DEF TwoSlaves
  <2>3. AtLeast(c, u, 2)
    BY <1>2, <2>1, AtLeastFact
  <2>4. \A e \in c : e.ttl >= 2
    BY <2>2, <2>3 DEF AtLeast
  <2> QED BY <1>3, <2>4
<1> QED BY <1>4, <1>5

\* A purge leaves the entries of one of two slaves.
LEMMA PurgedToOne ==
  ASSUME TwoSlaves, NEW c \in SUBSET Entry, Unique(c), Expired(c)
  PROVE  \A d, e \in Aged(Live(c)) : d.id = e.id
<1>1. PICK x \in c : x.ttl = 0
  BY DEF Expired
<1>2. \A e \in c : e.ttl \in Nat /\ e.id \in Ids
  BY MaxTTLAssumption DEF Entry, TTLs
<1>3. \A e \in Live(c) : e \in c /\ e.id # x.id
  BY <1>1, <1>2 DEF Live, Unique
<1>4. \A e \in Aged(Live(c)) : e.id \in Ids /\ e.id # x.id
  BY <1>2, <1>3, LiveFact, AgedFact
<1> QED BY <1>1, <1>2, <1>4 DEF TwoSlaves

\* A run keeps what the master's state says.
LEMMA MasterStep ==
  ASSUME TwoSlaves, LanInv, MasterInv, NEW f, MasterRun(f), AfterRun(f), up' = up
  PROVE  MasterInv'
<1>1. Inv /\ LanTypeOK /\ TypeOK /\ AgeFlagExact /\ UniqueMsap /\ Master \in Ports
  BY LanAssumption DEF LanInv, Inv, Connected
<1>2. PICK rcv \in BOOLEAN : /\ Started(rcv, f)
                             /\ rcv => rcvFrame[Master] \/ f \in InfoFrames
  BY <1>1, StartedFact
<1>3. cache[Master] \in SUBSET Entry /\ Unique(cache[Master])
  BY <1>1 DEF TypeOK, UniqueMsap
<1>4. MaxTTL \in Nat /\ MaxTTL # 0
  BY MaxTTLAssumption, LanAssumption DEF TwoSlaves
<1>5. rcvFrame'[Master] => rxFrame'[Master] \in InfoFrames
  BY <1>1, <1>2, RunEffect DEF Started
<1>6. heard' \subseteq up'
  BY DEF AfterRun, MasterInv
<1>7. heard' # {} => rxState'[Master] \in Working
  <2>1. heard # {} \/ rxState'[Master] = "RX_FRAME" \/ heard' = {}
    BY DEF AfterRun
  <2>2. rxState[Master] \in Working => rxState'[Master] \in Working
    BY <1>1, <1>2, RunEffect
  <2> QED BY <2>1, <2>2 DEF MasterInv, Working
<1>8. ASSUME rxState'[Master] = "RX_FRAME"
      PROVE  /\ rxTTL'[Master] = MaxTTL /\ rxChanges'[Master]
             /\ \E u \in Ids : AtLeast(cache'[Master], u, MaxTTL - 1)
  <2>1. /\ rxTTL'[Master] = MaxTTL /\ rxChanges'[Master] /\ f \in InfoFrames
        /\ cache'[Master] = Aged(Served(Master, f))
    BY <1>1, <1>2, <1>8, RunEffect
  <2>2. f.id \in Ids
    BY <2>1 DEF InfoFrames, InfoFrame
  <2> QED BY <1>1, <1>4, <2>1, <2>2, StoredTimers, AtLeastFact
<1>9. ASSUME rxState'[Master] = "UPDATE_INFO"
      PROVE  \E u \in Ids : AtLeast(cache'[Master], u, MaxTTL - 2)
  <2>1. rxState[Master] = "RX_FRAME" /\ cache'[Master] = Aged(cache[Master])
    BY <1>1, <1>2, <1>9, RunEffect
  <2>2. PICK u \in Ids : AtLeast(cache[Master], u, MaxTTL - 1)
    BY <2>1 DEF MasterInv
  <2>3. MaxTTL - 1 \in Int /\ (MaxTTL - 1) - 1 = MaxTTL - 2
    BY <1>4
  <2>4. AtLeast(Aged(cache[Master]), u, (MaxTTL - 1) - 1)
    BY <1>3, <2>2, <2>3, AtLeastFact
  <2> QED BY <2>1, <2>3, <2>4
<1>10. ASSUME rxState'[Master] = "DELETE_INFO"
       PROVE  \A d, e \in cache'[Master] : d.id = e.id
  <2>1. /\ cache'[Master] = Aged(Live(cache[Master]))
        /\ \/ rxState[Master] = "RX_WAIT_FOR_FRAME" /\ rxInfoAge[Master]
           \/ rxState[Master] = "RX_FRAME" /\ rxTTL[Master] = 0
    BY <1>1, <1>2, <1>10, RunEffect
  <2>2. Expired(cache[Master])
    BY <1>1, <1>4, <2>1 DEF MasterInv, AgeFlagExact
  <2> QED BY <1>3, <2>1, <2>2, PurgedToOne
<1> QED BY <1>5, <1>6, <1>7, <1>8, <1>9, <1>10 DEF MasterInv

\* A run that does not renew a slave takes one from what it has left.
LEMMA Fades ==
  ASSUME Inv, rxState[Master] \in Working, NEW rcv, NEW f, Started(rcv, f),
         NEW s \in Ids, NEW n \in Int, n >= 1, AtLeast(cache[Master], s, n),
         ~(rxState'[Master] = "RX_FRAME" /\ f.id = s)
  PROVE  AtLeast(cache'[Master], s, n - 1)
<1>1. TypeOK /\ cache[Master] \in SUBSET Entry
  BY LanAssumption DEF Inv, Connected, TypeOK
<1>2. rxState'[Master] \in Working
  BY RunEffect
<1>3. CASE rxState'[Master] \in {"UPDATE_INFO", "RX_WAIT_FOR_FRAME"}
  <2>1. cache'[Master] = Aged(cache[Master])
    BY <1>3, RunEffect
  <2> QED BY <1>1, <2>1, AtLeastFact
<1>4. CASE rxState'[Master] = "DELETE_INFO"
  <2>1. cache'[Master] = Aged(Live(cache[Master]))
    BY <1>4, RunEffect
  <2>2. Live(cache[Master]) \in SUBSET Entry /\ AtLeast(Live(cache[Master]), s, n)
    BY <1>1, LiveFact, AtLeastFact
  <2> QED BY <2>1, <2>2, AtLeastFact
<1>5. CASE rxState'[Master] = "RX_FRAME"
  <2>1. cache'[Master] = Aged(Served(Master, f)) /\ f \in InfoFrames
    BY <1>5, RunEffect
  <2>2. Served(Master, f) \in SUBSET Entry /\ AtLeast(Served(Master, f), s, n)
    BY <1>1, <1>5, <2>1, StoredTimers
  <2> QED BY <2>1, <2>2, AtLeastFact
<1> QED BY <1>2, <1>3, <1>4, <1>5 DEF Working

\* A frame that has to wait in a run is one run nearer to being looked at.
LEMMA WaitsOn ==
  ASSUME TwoSlaves, Inv, MasterInv, rxState[Master] \in Working,
         NEW s \in Ids, NEW f, Started(TRUE, f), f = InfoFrame(s),
         AtLeast(cache[Master], s, RunsAhead), rxState'[Master] # "RX_FRAME"
  PROVE  Waits(s)'
<1> DEFINE c == cache[Master]
<1>1. TypeOK /\ c \in SUBSET Entry
  BY LanAssumption DEF Inv, Connected, TypeOK
<1>2. rcvFrame'[Master] /\ rxFrame'[Master] = InfoFrame(s)
  BY RunEffect
<1>3. MaxTTL \in Nat /\ MaxTTL # 0 /\ MaxTTL - 2 \in Int /\ MaxTTL - 2 >= 4
  BY MaxTTLAssumption, LanAssumption DEF TwoSlaves
<1>a. \A n \in Int : n >= 1 /\ AtLeast(c, s, n) => AtLeast(cache'[Master], s, n - 1)
  BY Fades
<1>4. CASE rxState[Master] = "RX_FRAME"
  <2>1. rxState'[Master] = "UPDATE_INFO"
    BY <1>3, <1>4, RunEffect DEF MasterInv
  <2>2. AtLeast(c, s, 3)
    BY <1>4 DEF RunsAhead
  <2>3. AtLeast(cache'[Master], s, 3 - 1)
    BY <1>a, <2>2
  <2> QED BY <1>2, <2>1, <2>3 DEF Waits, RunsAhead
<1>5. CASE rxState[Master] \in {"UPDATE_INFO", "DELETE_INFO"}
  <2>1. /\ rxState'[Master] = "RX_WAIT_FOR_FRAME" /\ cache'[Master] = Aged(c)
        /\ rxInfoAge'[Master] <=> Expired(Aged(c))
    BY <1>5, RunEffect
  <2>2. AtLeast(c, s, 2)
    BY <1>5 DEF RunsAhead
  <2>3. ~Expired(Aged(c)) \/ AtLeast(c, s, MaxTTL - 2)
    BY <1>1, <1>5, <2>2, NothingExpires DEF MasterInv
  <2>4. AtLeast(cache'[Master], s, 2 - 1)
    BY <1>1, <2>1, <2>2, AtLeastFact
  <2>5. AtLeast(c, s, MaxTTL - 2) => AtLeast(cache'[Master], s, 4 - 1)
    BY <1>1, <1>3, <2>1, AtLeastFact
  <2> QED BY <1>2, <2>1, <2>3, <2>4, <2>5 DEF Waits, RunsAhead
<1>6. CASE rxState[Master] = "RX_WAIT_FOR_FRAME"
  <2>1. rxInfoAge[Master] /\ rxState'[Master] = "DELETE_INFO"
    BY <1>6, RunEffect
  <2>2. AtLeast(c, s, 3)
    BY <1>6, <2>1 DEF RunsAhead
  <2>3. AtLeast(cache'[Master], s, 3 - 1)
    BY <1>a, <2>2
  <2> QED BY <1>2, <2>1, <2>3 DEF Waits, RunsAhead
<1> QED BY <1>4, <1>5, <1>6 DEF Working

-----------------------------------------------------------------------------
(* Seconds and frames.                                                     *)

LEMMA SentCount ==
  ASSUME NEW gap \in Int, NEW n \in Int
  PROVE  \A d : d \in Sent(gap, n) <=>
           \/ d = 0
           \/ d = 1 /\ gap <= n
           \/ d = 2 /\ MsgTxInterval + gap <= n
           \/ d = 3 /\ MsgTxInterval + MsgTxInterval + gap <= n
<1>1. MsgTxInterval \in Nat
  BY LanAssumption
<1>2. /\ (1 - 1) * MsgTxInterval = 0 /\ (2 - 1) * MsgTxInterval = MsgTxInterval
      /\ (3 - 1) * MsgTxInterval = MsgTxInterval + MsgTxInterval
  BY <1>1
<1>3. \A d : d \in 0 .. 3 <=> d \in {0, 1, 2, 3}
  OBVIOUS
<1> QED BY <1>1, <1>2, <1>3 DEF Sent

\* The types of what the time left is made of.
LEMMA TimeTypes ==
  ASSUME TwoSlaves, LanTypeOK
  PROVE  /\ MsgTxInterval \in Nat /\ MsgTxInterval >= 3 /\ Period = MsgTxInterval + 1
         /\ MaxTTL \in Nat /\ MaxTTL >= MsgTxInterval + MsgTxInterval + 10
         /\ \A s \in Ids : since[s] \in Nat /\ since[s] <= Period
         /\ Ticks \in {0, 1}
BY LanAssumption, MaxTTLAssumption DEF TwoSlaves, LanTypeOK, Period, Ticks

\* The count stays right while both clocks go on, or the last frame is newer.
LEMMA SentLater ==
  ASSUME NEW gap \in Int, NEW n \in Int, NEW d \in Sent(gap, n),
         NEW gap2 \in Int, NEW n2 \in Int, gap2 + n <= gap + n2
  PROVE  d \in Sent(gap2, n2)
<1>1. MsgTxInterval \in Nat
  BY LanAssumption
<1>2. \/ d = 0
      \/ d = 1 /\ gap <= n
      \/ d = 2 /\ MsgTxInterval + gap <= n
      \/ d = 3 /\ MsgTxInterval + MsgTxInterval + gap <= n
  BY <1>1, SentCount
<1>3. \/ d = 0
      \/ d = 1 /\ gap2 <= n2
      \/ d = 2 /\ MsgTxInterval + gap2 <= n2
      \/ d = 3 /\ MsgTxInterval + MsgTxInterval + gap2 <= n2
  BY <1>1, <1>2
<1> QED BY <1>1, <1>3, SentCount

\* The next frame comes an interval after the last one.
LEMMA SentOneMore ==
  ASSUME TwoSlaves, NEW gap \in Nat, NEW n \in Nat,
         NEW d \in Sent(gap, n), gap >= MsgTxInterval, n <= Period + Period
  PROVE  d + 1 \in Sent(0, n)
<1>1. MsgTxInterval \in Nat /\ MsgTxInterval >= 3 /\ Period = MsgTxInterval + 1
  BY LanAssumption DEF TwoSlaves, Period
<1>2. \/ d = 0
      \/ d = 1 /\ gap <= n
      \/ d = 2 /\ MsgTxInterval + gap <= n
      \/ d = 3 /\ MsgTxInterval + MsgTxInterval + gap <= n
  <2>1. gap \in Int /\ n \in Int
    OBVIOUS
  <2> QED BY <1>1, <2>1, SentCount
<1>3. \/ d + 1 = 1
      \/ d + 1 = 2 /\ MsgTxInterval <= n
      \/ d + 1 = 3 /\ MsgTxInterval + MsgTxInterval <= n
  BY <1>1, <1>2
<1>4. 0 \in Int /\ n \in Int /\ 0 <= n
  OBVIOUS
<1>5. \A e : e \in Sent(0, n) <=>
         \/ e = 0
         \/ e = 1 /\ 0 <= n
         \/ e = 2 /\ MsgTxInterval + 0 <= n
         \/ e = 3 /\ MsgTxInterval + MsgTxInterval + 0 <= n
  BY <1>1, <1>4, SentCount
<1> QED BY <1>1, <1>3, <1>4, <1>5

\* Whatever goes wrong once, three runs are left before the next frame.
LEMMA ThreeLeft ==
  ASSUME TwoSlaves, LanTypeOK, NEW s \in Ids, NEW t \in Ids,
         NEW lost \in {0, Period}, NEW restart \in {0, 2}, lost = 0 \/ restart = 0,
         NEW d \in Sent(since[t], since[s] + lost)
  PROVE  /\ Left(s, lost, restart, d) \in Int /\ Left(s, lost, restart, d) >= 3
         /\ lost = 0 => d <= 2
<1> DEFINE gap == since[t]
           n == since[s] + lost
<1>1. /\ MsgTxInterval \in Nat /\ MsgTxInterval >= 3 /\ Period = MsgTxInterval + 1
      /\ MaxTTL \in Nat /\ MaxTTL >= MsgTxInterval + MsgTxInterval + 10
      /\ since[s] \in Nat /\ since[s] <= Period /\ gap \in Nat
      /\ Ticks \in {0, 1}
  BY TimeTypes
<1>2. n \in Nat /\ n <= since[s] + Period /\ (lost = 0 => n <= Period)
  BY <1>1
<1>3. \/ d = 0 \/ d = 1 \/ (d = 2 /\ MsgTxInterval <= n)
      \/ (d = 3 /\ MsgTxInterval + MsgTxInterval <= n)
  <2>1. d \in Sent(gap, n) /\ gap \in Int /\ n \in Int
    BY <1>1, <1>2
  <2> HIDE DEF gap, n
  <2> QED BY <1>1, <1>2, <2>1, SentCount
<1>4. Left(s, lost, restart, d) = MaxTTL - 1 - n - Ticks - d - restart
  BY DEF Left
<1> HIDE DEF gap, n
<1> QED BY <1>1, <1>2, <1>3, <1>4

\* Time passes no faster than the runs are counted.
LEMMA Carried ==
  ASSUME TwoSlaves, LanInv, LanInv', NEW s \in Ids, NEW t \in Ids,
         NEW lost \in {0, Period}, NEW restart \in {0, 2}, lost = 0 \/ restart = 0,
         NEW d \in Sent(since[t], since[s] + lost),
         AtLeast(cache[Master], s, Left(s, lost, restart, d)),
         NEW k \in {0, 1},
         \A n \in Int : n >= 1 /\ AtLeast(cache[Master], s, n) =>
                        AtLeast(cache'[Master], s, n - k),
         NEW lost2 \in {0, Period}, NEW restart2 \in {0, 2}, lost2 = 0 \/ restart2 = 0,
         NEW d2 \in Sent(since'[t], since'[s] + lost2), d2 # 0 => t \in up',
         (since[s] + lost) + Ticks + d + restart + k
           <= (since'[s] + lost2) + Ticks' + d2 + restart2
  PROVE  LeftAfter(s, t, lost2, restart2)'
<1> DEFINE m  == Left(s, lost, restart, d)
           m2 == MaxTTL - 1 - (since'[s] + lost2) - Ticks' - d2 - restart2
<1>1. cache'[Master] \in SUBSET Entry
  BY LanAssumption DEF LanInv, Inv, Connected, TypeOK
<1>2. m \in Int /\ m >= 3
  BY ThreeLeft DEF LanInv
<1>3. AtLeast(cache'[Master], s, m - k)
  BY <1>2
<1>4. m2 \in Int /\ m - k \in Int /\ m2 <= m - k
  <2>1. /\ since[s] \in Nat /\ Ticks \in {0, 1} /\ MaxTTL \in Nat /\ Period \in Nat
    BY TimeTypes DEF LanInv
  <2>2. since'[s] \in Nat /\ Ticks' \in {0, 1}
    BY LanAssumption DEF LanInv, LanTypeOK, Ticks
  <2>3. d \in 0 .. 3 /\ d2 \in 0 .. 3
    BY DEF Sent
  <2> QED BY <2>1, <2>2, <2>3 DEF Left
<1>5. AtLeast(cache'[Master], s, m2)
  <2> HIDE DEF m, m2
  <2> QED BY <1>1, <1>3, <1>4, AtLeastFact
<1> QED BY <1>5 DEF LeftAfter, Left

\* What a slave in time has left, and what the master needs to get to its frame.
LEMMA InTimeLeft ==
  ASSUME TwoSlaves, LanInv, NEW s \in Ids, NEW t \in Ids, InTime(s, t)
  PROVE  /\ AtLeast(cache[Master], s, 3) /\ AtLeast(cache[Master], s, RunsAhead)
         /\ \E lost \in {0, Period}, restart \in {0, 2} :
              /\ lost = 0 \/ restart = 0
              /\ lost # 0 \/ restart # 0 => faults = 1
              /\ LeftAfter(s, t, lost, restart)
<1>1. cache[Master] \in SUBSET Entry
  BY LanAssumption DEF LanInv, Inv, Connected, TypeOK
<1>2. \E lost \in {0, Period}, restart \in {0, 2} :
        /\ lost = 0 \/ restart = 0
        /\ lost # 0 \/ restart # 0 => faults = 1
        /\ LeftAfter(s, t, lost, restart)
  BY DEF InTime
<1>3. PICK lost \in {0, Period}, restart \in {0, 2} :
        /\ lost = 0 \/ restart = 0
        /\ LeftAfter(s, t, lost, restart)
  BY <1>2
<1>4. PICK d \in Sent(since[t], since[s] + lost) :
        AtLeast(cache[Master], s, Left(s, lost, restart, d))
  BY <1>3 DEF LeftAfter
<1>5. Left(s, lost, restart, d) \in Int /\ Left(s, lost, restart, d) >= 3
  BY <1>3, ThreeLeft DEF LanInv
<1>6. AtLeast(cache[Master], s, 3)
  BY <1>1, <1>4, <1>5, AtLeastFact
<1>7. RunsAhead \in Int /\ RunsAhead <= 3
  BY DEF RunsAhead
<1>8. AtLeast(cache[Master], s, RunsAhead)
  BY <1>1, <1>6, <1>7, AtLeastFact
<1> QED BY <1>2, <1>6, <1>8

-----------------------------------------------------------------------------
(* The steps.                                                              *)

\* A frame of the slave that the master gets to renews its hold time.
LEMMA Renewed ==
  ASSUME TwoSlaves, LanInv, LanInv', NEW s \in Ids, NEW t \in Ids,
         NEW rcv, NEW f, Started(rcv, f), rxState'[Master] = "RX_FRAME", f.id = s
  PROVE  InTime(s, t)'
<1>1. Inv /\ TypeOK /\ cache'[Master] \in SUBSET Entry
  BY LanAssumption DEF LanInv, Inv, Connected, TypeOK
<1>2. f \in InfoFrames /\ cache'[Master] = Aged(Served(Master, f))
  BY <1>1, RunEffect
<1>3. /\ MaxTTL \in Nat /\ since'[s] \in Nat /\ Ticks' \in {0, 1}
  BY LanAssumption, MaxTTLAssumption DEF LanInv, LanTypeOK, Ticks
<1>4. AtLeast(cache'[Master], s, MaxTTL - 1)
  BY <1>1, <1>2, <1>3, StoredTimers, AtLeastFact
<1>5. /\ MaxTTL - 1 - (since'[s] + 0) - Ticks' - 0 - 0 \in Int
      /\ MaxTTL - 1 - (since'[s] + 0) - Ticks' - 0 - 0 <= MaxTTL - 1
      /\ MaxTTL - 1 \in Int
  BY <1>3
<1>6. AtLeast(cache'[Master], s, MaxTTL - 1 - (since'[s] + 0) - Ticks' - 0 - 0)
  BY <1>1, <1>4, <1>5, AtLeastFact
<1>7. 0 \in Sent(since'[t], since'[s] + 0)
  BY DEF Sent
<1> QED BY <1>6, <1>7 DEF InTime, LeftAfter, Left

\* What a run of the master may do to the time of a slave: it is started by the
\* timeout, by a frame of the slave, or by one of the other slave.
RunTime(s, t, f) ==
  /\ up' = up /\ faults' = faults
  /\ \/ ~ticked /\ ticked' /\ since' = since /\ f = rxFrame[Master]
     \/ f = InfoFrame(s) /\ Started(TRUE, f)
     \/ /\ f = InfoFrame(t) /\ t \in up /\ since[t] >= MsgTxInterval
        /\ since'[s] = since[s] /\ since'[t] = 0 /\ ticked' = ticked

LEMMA RunKept ==
  ASSUME TwoSlaves, LanInv, LanInv', MasterInv,
         NEW s \in Ids, NEW t \in Ids, s # t, Kept(s, t),
         NEW f, MasterRun(f), AfterRun(f), RunTime(s, t, f),
         faults' <= 1, s \in heard'
  PROVE  InTime(s, t)' \/ Waits(s)'
<1>1. Inv /\ LanTypeOK /\ TypeOK
  BY DEF LanInv, Inv
<1>2. PICK rcv \in BOOLEAN : /\ Started(rcv, f)
                             /\ rcvFrame[Master] => rcv
                             /\ rcv => rcvFrame[Master] \/ f \in InfoFrames
  BY <1>1, StartedFact
<1>3. CASE rxState'[Master] = "RX_FRAME" /\ f.id = s
  BY <1>2, <1>3, Renewed
<1>4. CASE ~(rxState'[Master] = "RX_FRAME" /\ f.id = s)
  <2>1. s \in heard /\ s \notin ReadOver(f)
    BY <1>4 DEF AfterRun
  <2>2. rxState[Master] \in Working /\ (InTime(s, t) \/ Waits(s))
    BY <2>1 DEF MasterInv, Kept, RunTime
  <2>3. ASSUME f = InfoFrame(s), Started(TRUE, f), AtLeast(cache[Master], s, RunsAhead)
        PROVE  Waits(s)'
    <3>1. rxState'[Master] # "RX_FRAME"
      BY <1>4, <2>3 DEF InfoFrame
    <3> QED BY <1>1, <2>2, <2>3, <3>1, WaitsOn
  <2>4. CASE Waits(s)
    <3>1. /\ Started(TRUE, f) /\ rxFrame[Master] = InfoFrame(s)
          /\ AtLeast(cache[Master], s, RunsAhead)
      BY <1>2, <2>4 DEF Waits
    <3>2. f = InfoFrame(s)
      BY <2>1, <2>4, <3>1 DEF ReadOver, Waits, InfoFrame
    <3> QED BY <2>3, <3>1, <3>2
  <2>5. CASE InTime(s, t)
    <3>1. AtLeast(cache[Master], s, RunsAhead)
      BY <2>5, InTimeLeft
    <3>2. PICK lost \in {0, Period}, restart \in {0, 2} :
            /\ lost = 0 \/ restart = 0
            /\ lost # 0 \/ restart # 0 => faults = 1
            /\ LeftAfter(s, t, lost, restart)
      BY <2>5, InTimeLeft
    <3>3. PICK d \in Sent(since[t], since[s] + lost) :
            (d # 0 => t \in up) /\ AtLeast(cache[Master], s, Left(s, lost, restart, d))
      BY <3>2 DEF LeftAfter
    <3>4. \A n \in Int : n >= 1 /\ AtLeast(cache[Master], s, n) =>
                         AtLeast(cache'[Master], s, n - 1)
      BY <1>1, <1>2, <1>4, <2>2, Fades
    <3>5. /\ since[s] \in Nat /\ since[t] \in Nat /\ Period \in Nat /\ since[s] <= Period
          /\ MsgTxInterval \in Nat /\ MsgTxInterval >= 3 /\ Period = MsgTxInterval + 1
          /\ d \in Int /\ lost \in Nat /\ restart \in Nat
      BY <1>1, TimeTypes DEF Sent
    <3>6. ASSUME LeftAfter(s, t, lost, restart)'
          PROVE  InTime(s, t)'
      BY <3>2, <3>6 DEF InTime, RunTime
    <3>7. CASE f = InfoFrame(s) /\ Started(TRUE, f)
      BY <2>3, <3>1, <3>7
    <3>8. CASE ~ticked /\ ticked' /\ since' = since
      <4>1. Ticks = 0 /\ Ticks' = 1
        BY <3>8 DEF Ticks
      <4>2. d \in Sent(since'[t], since'[s] + lost) /\ (d # 0 => t \in up')
        BY <3>3, <3>8 DEF RunTime
      <4>3. (since[s] + lost) + Ticks + d + restart + 1
              <= (since'[s] + lost) + Ticks' + d + restart
        BY <3>5, <3>8, <4>1
      <4>4. LeftAfter(s, t, lost, restart)'
        BY <3>2, <3>3, <3>4, <4>2, <4>3, Carried
      <4> QED BY <3>6, <4>4
    <3>9. CASE /\ t \in up /\ since[t] >= MsgTxInterval
               /\ since'[s] = since[s] /\ since'[t] = 0 /\ ticked' = ticked
      <4>1. Ticks' = Ticks /\ Ticks \in {0, 1} /\ t \in up'
        BY <3>9 DEF Ticks, RunTime
      <4>2. d + 1 \in Sent(since'[t], since'[s] + lost)
        <5>1. since[s] + lost \in Nat /\ since[s] + lost <= Period + Period
          BY <3>2, <3>5
        <5>2. d \in Sent(since[t], since[s] + lost)
          BY <3>9
        <5>3. d + 1 \in Sent(0, since[s] + lost)
          BY <3>5, <3>9, <5>1, <5>2, SentOneMore
        <5> QED BY <3>9, <5>3
      <4>3. (since[s] + lost) + Ticks + d + restart + 1
              <= (since'[s] + lost) + Ticks' + (d + 1) + restart
        BY <3>5, <3>9, <4>1
      <4>4. LeftAfter(s, t, lost, restart)'
        BY <3>2, <3>3, <3>4, <4>1, <4>2, <4>3, Carried
      <4> QED BY <3>6, <4>4
    <3> QED BY <3>7, <3>8, <3>9 DEF RunTime
  <2> QED BY <2>2, <2>4, <2>5
<1> QED BY <1>3, <1>4


\* The steps that do not run the master: a second passes, a slave comes up or goes
\* down, a frame is lost, an address is taken or lost.
LEMMA RestKept ==
  ASSUME TwoSlaves, LanInv, LanInv', MasterInv,
         NEW s \in Ids, NEW t \in Ids, s # t, Kept(s, t), faults' <= 1, s \in heard',
         \/ Second \/ UNCHANGED lanVars
         \/ \E x \in Ids : \/ Start(x) \/ Stop(x) \/ SendLost(x)
                           \/ TakeAddress(x) \/ LoseAddress(x)
  PROVE  InTime(s, t)' \/ Waits(s)'
<1>1. UNCHANGED vars /\ LanTypeOK /\ LanTypeOK'
  BY DEF LanInv, Second, lanVars, Start, Stop, SendLost, TakeAddress, LoseAddress
<1>2. UNCHANGED <<rxState, rcvFrame, rxInfoAge, rxFrame, cache>>
  BY <1>1 DEF vars, portVars
<1>3. s \in heard /\ s \in up /\ faults \in Nat /\ faults' \in Nat /\ faults <= faults'
  <2>1. heard' \subseteq heard
    BY DEF Second, lanVars, Start, Stop, SendLost, TakeAddress, LoseAddress, linkVars
  <2>2. faults' = faults \/ faults' = faults + 1
    BY DEF Second, lanVars, Start, Stop, SendLost, TakeAddress, LoseAddress, Fault
  <2>3. faults \in Nat
    BY <1>1, LanAssumption DEF LanTypeOK
  <2> QED BY <2>1, <2>2, <2>3 DEF MasterInv
<1>4. CASE Waits(s)
  BY <1>2, <1>4 DEF Waits, RunsAhead
<1>5. CASE InTime(s, t)
  <2>1. PICK lost \in {0, Period}, restart \in {0, 2} :
          /\ lost = 0 \/ restart = 0
          /\ lost # 0 \/ restart # 0 => faults = 1
          /\ LeftAfter(s, t, lost, restart)
    BY <1>5, InTimeLeft
  <2>2. PICK d \in Sent(since[t], since[s] + lost) :
          (d # 0 => t \in up) /\ AtLeast(cache[Master], s, Left(s, lost, restart, d))
    BY <2>1 DEF LeftAfter
  <2>3. \A n \in Int : AtLeast(cache[Master], s, n) => AtLeast(cache'[Master], s, n - 0)
    BY <1>2
  <2>4. /\ since[s] \in Nat /\ since[t] \in Nat /\ Period \in Nat /\ since[s] <= Period
        /\ MsgTxInterval \in Nat /\ d \in Nat /\ lost \in Nat /\ restart \in Nat
        /\ Ticks \in {0, 1} /\ since'[s] \in Nat /\ since'[t] \in Nat
    <3>1. since'[s] \in Nat /\ since'[t] \in Nat
      BY <1>1, LanAssumption DEF LanTypeOK
    <3>2. d \in Nat
      BY DEF Sent
    <3> QED BY <1>1, <2>1, <3>1, <3>2, TimeTypes
  <2>5. ASSUME NEW lost2 \in {0, Period}, NEW restart2 \in {0, 2}, lost2 = 0 \/ restart2 = 0,
               lost2 # 0 \/ restart2 # 0 => faults' = 1,
               NEW d2 \in Sent(since'[t], since'[s] + lost2), d2 # 0 => t \in up',
               (since[s] + lost) + Ticks + d + restart + 0
                 <= (since'[s] + lost2) + Ticks' + d2 + restart2
        PROVE  InTime(s, t)'
    <3>1. LeftAfter(s, t, lost2, restart2)'
      BY <2>1, <2>2, <2>3, <2>5, Carried
    <3> QED BY <2>5, <3>1 DEF InTime
  <2>6. ASSUME faults' # faults
        PROVE  lost = 0 /\ restart = 0 /\ faults' = 1
    BY <1>3, <2>1, <2>6
  <2>a. lost # 0 \/ restart # 0 => faults' = 1
    BY <1>3, <2>1
  <2>7. CASE Second
    <3>1. /\ since'[s] = since[s] + 1 /\ (t \in up => since'[t] = since[t] + 1)
          /\ up' = up /\ Ticks' = 0
      BY <1>3, <2>7 DEF Second, Ticks
    <3>2. d \in Sent(since'[t], since'[s] + lost)
      <4>1. CASE d = 0
        BY <4>1 DEF Sent
      <4>2. CASE d # 0
        <5>1. since'[t] + (since[s] + lost) <= since[t] + (since'[s] + lost)
          BY <2>2, <2>4, <3>1, <4>2
        <5> QED BY <2>2, <2>4, <5>1, SentLater
      <4> QED BY <4>1, <4>2
    <3>3. (since[s] + lost) + Ticks + d + restart + 0
            <= (since'[s] + lost) + Ticks' + d + restart
      BY <2>4, <3>1
    <3> QED BY <2>1, <2>2, <2>5, <2>a, <3>1, <3>2, <3>3
  <2>8. CASE UNCHANGED <<up, since, ticked>>
    <3>1. (since[s] + lost) + Ticks + d + restart + 0
            <= (since'[s] + lost) + Ticks' + d + restart
      BY <2>4, <2>8 DEF Ticks
    <3> QED BY <2>1, <2>2, <2>5, <2>8, <2>a, <3>1
  <2>9. CASE Start(t)
    <3>1. /\ since'[s] = since[s] /\ d = 0 /\ Ticks' = Ticks
      BY <1>1, <2>2, <2>9 DEF Start, LanTypeOK, secVars, Ticks
    <3>2. 0 \in Sent(since'[t], since'[s] + lost)
      BY DEF Sent
    <3>3. (since[s] + lost) + Ticks + d + restart + 0
            <= (since'[s] + lost) + Ticks' + 0 + restart
      BY <2>4, <3>1
    <3> QED BY <2>1, <2>5, <2>a, <3>2, <3>3
  <2>10. CASE Stop(t)
    <3>1. /\ since'[s] = since[s] /\ Ticks' = Ticks /\ faults' = faults + 1
      BY <1>1, <2>10 DEF Stop, Fault, LanTypeOK, secVars, Ticks
    <3>2. lost = 0 /\ restart = 0 /\ faults' = 1
      BY <1>3, <2>6, <3>1
    <3>3. d <= 2
      BY <1>1, <2>1, <2>2, <3>2, ThreeLeft
    <3>4. 0 \in Sent(since'[t], since'[s] + 0)
      BY DEF Sent
    <3>5. (since[s] + lost) + Ticks + d + restart + 0
            <= (since'[s] + 0) + Ticks' + 0 + 2
      BY <2>4, <3>1, <3>2, <3>3
    <3> QED BY <2>5, <3>2, <3>4, <3>5
  <2>11. CASE SendLost(s)
    <3>1. /\ since'[s] = 0 /\ since'[t] = since[t] /\ up' = up /\ Ticks' = Ticks
          /\ faults' = faults + 1
      BY <1>1, <2>11 DEF SendLost, Sends, Fault, LanTypeOK, secVars, Ticks
    <3>2. lost = 0 /\ restart = 0 /\ faults' = 1
      BY <1>3, <2>6, <3>1
    <3>3. d \in Sent(since'[t], since'[s] + Period)
      <4>1. since'[t] + (since[s] + lost) <= since[t] + (since'[s] + Period)
        BY <2>4, <3>1, <3>2
      <4> QED BY <2>2, <2>4, <4>1, SentLater
    <3>4. (since[s] + lost) + Ticks + d + restart + 0
            <= (since'[s] + Period) + Ticks' + d + 0
      BY <2>4, <3>1, <3>2
    <3> QED BY <2>2, <2>5, <3>1, <3>2, <3>3, <3>4
  <2>12. CASE SendLost(t)
    <3>1. /\ since'[s] = since[s] /\ since'[t] = 0 /\ up' = up /\ Ticks' = Ticks
      BY <1>1, <2>12 DEF SendLost, Sends, LanTypeOK, secVars, Ticks
    <3>2. d \in Sent(since'[t], since'[s] + lost)
      <4>1. since'[t] + (since[s] + lost) <= since[t] + (since'[s] + lost)
        BY <2>4, <3>1
      <4> QED BY <2>2, <2>4, <4>1, SentLater
    <3>3. (since[s] + lost) + Ticks + d + restart + 0
            <= (since'[s] + lost) + Ticks' + d + restart
      BY <2>4, <3>1
    <3> QED BY <2>1, <2>2, <2>5, <2>a, <3>1, <3>2, <3>3
  <2>13. \A x \in Ids : x = s \/ x = t
    BY DEF TwoSlaves
  <2>14. ~Start(s) /\ ~Stop(s)
    BY <1>1, <1>3 DEF Start, Stop
  <2>15. CASE \E x \in Ids : TakeAddress(x) \/ LoseAddress(x)
    BY <2>8, <2>15 DEF TakeAddress, LoseAddress, slaveVars, secVars
  <2>16. CASE UNCHANGED lanVars
    BY <2>8, <2>16 DEF lanVars, slaveVars, secVars
  <2> QED BY <2>7, <2>9, <2>10, <2>11, <2>12, <2>13, <2>14, <2>15, <2>16
<1> QED BY <1>3, <1>4, <1>5 DEF Kept

\* The rest leave the master as it is.
LEMMA MasterRest ==
  ASSUME MasterInv, LanTypeOK,
         \/ Second \/ UNCHANGED lanVars \/ MasterReboot
         \/ \E x \in Ids : \/ Start(x) \/ Stop(x) \/ SendLost(x)
                           \/ TakeAddress(x) \/ LoseAddress(x)
  PROVE  MasterInv'
<1>1. CASE MasterReboot
  BY <1>1, LanAssumption DEF MasterReboot, MasterInv
<1>2. CASE ~MasterReboot
  <2>1. UNCHANGED vars
    BY <1>2 DEF Second, lanVars, Start, Stop, SendLost, TakeAddress, LoseAddress
  <2>2. UNCHANGED <<rxState, rcvFrame, rxTTL, rxChanges, rxFrame, cache>>
    BY <2>1 DEF vars, portVars
  <2>3. heard' \subseteq heard /\ heard' \subseteq up'
    BY <1>2 DEF Second, lanVars, slaveVars, linkVars, Start, Stop, SendLost, Sends,
                TakeAddress, LoseAddress, MasterInv
  <2> QED BY <2>2, <2>3 DEF MasterInv
<1> QED BY <1>1, <1>2

\* Every step keeps every slave that is heard on the list.
LEMMA KeptStep ==
  ASSUME TwoSlaves, KeptInv, [LanNext]_lanVars
  PROVE  KeptInv'
<1>1. LanInv /\ MasterInv /\ LanInv' /\ LanTypeOK
  BY LanInvStep DEF KeptInv, LanInv
<1>2. ASSUME NEW f, MasterRun(f), AfterRun(f), up' = up,
             \A s, t \in Ids : s # t /\ faults' <= 1 /\ s \in heard' => RunTime(s, t, f)
      PROVE  KeptInv'
  <2>1. MasterInv'
    BY <1>1, <1>2, MasterStep
  <2>2. ASSUME NEW s \in Ids, NEW t \in Ids, s # t, faults' <= 1, s \in heard'
        PROVE  InTime(s, t)' \/ Waits(s)'
    BY <1>1, <1>2, <2>2, RunKept DEF KeptInv
  <2> QED BY <1>1, <2>1, <2>2 DEF KeptInv, Kept
<1>3. CASE MasterTick
  <2>1. /\ MasterRun(rxFrame[Master]) /\ AfterRun(rxFrame[Master])
        /\ ~ticked /\ ticked' /\ UNCHANGED <<up, since, faults>>
    BY <1>3 DEF MasterTick, MasterRun, slaveVars
  <2> QED BY <1>2, <2>1 DEF RunTime
<1>4. ASSUME NEW x \in Ids, SendHeard(x)
      PROVE  KeptInv'
  <2>1. /\ MasterRun(InfoFrame(x)) /\ AfterRun(InfoFrame(x)) /\ InfoFrame(x) \in InfoFrames
        /\ x \in up /\ since[x] >= MsgTxInterval /\ since' = [since EXCEPT ![x] = 0]
        /\ UNCHANGED <<up, ticked, faults>> /\ Receive(Master, InfoFrame(x))
    BY <1>4 DEF SendHeard, Sends, MasterRun, InfoFrames
  <2>2. Started(TRUE, InfoFrame(x))
    BY <2>1 DEF Started, Receive
  <2>3. ASSUME NEW s \in Ids, NEW t \in Ids, s # t
        PROVE  RunTime(s, t, InfoFrame(x))
    <3>1. x = s \/ x = t
      BY <2>3 DEF TwoSlaves
    <3>2. CASE x = s
      BY <2>1, <2>2, <3>2 DEF RunTime
    <3>3. CASE x = t
      BY <1>1, <2>1, <2>3, <3>3 DEF RunTime, LanTypeOK
    <3> QED BY <3>1, <3>2, <3>3
  <2> QED BY <1>2, <2>1, <2>3
<1>5. CASE MasterReboot
  BY <1>1, <1>5, MasterRest DEF KeptInv, Kept, MasterReboot
<1>6. CASE \/ Second \/ UNCHANGED lanVars
           \/ \E x \in Ids : \/ Start(x) \/ Stop(x) \/ SendLost(x)
                             \/ TakeAddress(x) \/ LoseAddress(x)
  <2>1. MasterInv'
    BY <1>1, <1>6, MasterRest
  <2>2. ASSUME NEW s \in Ids, NEW t \in Ids, s # t, faults' <= 1, s \in heard'
        PROVE  InTime(s, t)' \/ Waits(s)'
    BY <1>1, <1>6, <2>2, RestKept DEF KeptInv
  <2> QED BY <1>1, <2>1, <2>2 DEF KeptInv, Kept
<1> QED BY <1>3, <1>4, <1>5, <1>6 DEF LanNext, SlaveNext

\* Of two slaves, each stays on the master's list while it runs and its frames are
\* not read over, when at most one thing goes wrong.
THEOREM SlavesAreKept ==
  ASSUME TwoSlaves
  PROVE  LanSpec => []LiveSlavesKept
<1>1. LanInit => KeptInv
  <2>1. LanInit => MasterInv
    BY LanAssumption DEF LanInit, Init, MasterInv
  <2>2. LanInit => \A s, t \in Ids : Kept(s, t)
    BY DEF LanInit, Kept
  <2> QED BY <2>1, <2>2, LanInvInit DEF KeptInv
<1>2. KeptInv /\ [LanNext]_lanVars => KeptInv'
  BY KeptStep
<1>3. KeptInv => LiveSlavesKept
  <2> SUFFICES ASSUME KeptInv, faults <= 1, NEW s \in heard
               PROVE  Known(cache[Master], s)
    BY DEF LiveSlavesKept
  <2>1. s \in Ids
    BY DEF KeptInv, LanInv, LanTypeOK
  <2>2. PICK t \in Ids : s # t
    BY <2>1 DEF TwoSlaves
  <2>3. InTime(s, t) \/ Waits(s)
    BY <2>1, <2>2 DEF KeptInv, Kept
  <2>4. Waits(s) => Known(cache[Master], s)
    BY DEF Waits, AtLeast
  <2>5. InTime(s, t) => Known(cache[Master], s)
    BY <2>1, InTimeLeft DEF KeptInv, AtLeast
  <2> QED BY <2>3, <2>4, <2>5
<1> QED BY <1>1, <1>2, <1>3, PTL DEF LanSpec

=============================================================================

---------------------------- MODULE LldpRxProofs ----------------------------
(***************************************************************************)
(* Proofs about LldpRx for every number of ports, neighbours and frames,   *)
(* every time to live and every width of the address octet.                *)
(***************************************************************************)
EXTENDS LldpRx, TLAPS

-----------------------------------------------------------------------------
(* The operations on a port's cache.                                       *)

\* An octet that is not the largest has a successor of that kind, and the
\* successor is behind it only when the octet has wrapped around.
LEMMA NextOctetFact ==
  ASSUME NEW o \in Octets, o # OctetMax
  PROVE  /\ NextOctet(o) \in Octets
         /\ NextOctet(o) # OctetMax
         /\ NextOctet(o) # o
BY OctetAssumption DEF NextOctet, Succ, Octets

\* Ageing changes nothing but the timers, which go down by one to zero.
LEMMA AgedFact ==
  ASSUME NEW c \in SUBSET Entry
  PROVE  /\ Aged(c) \in SUBSET Entry
         /\ Unique(c) => Unique(Aged(c))
         /\ \A e \in Aged(c) : \E d \in c :
              /\ e.id = d.id /\ e.allocated = d.allocated /\ e.ip = d.ip
              /\ e.ttl = IF d.ttl > 0 THEN d.ttl - 1 ELSE d.ttl
         /\ \A d \in c : \E e \in Aged(c) :
              /\ e.id = d.id /\ e.allocated = d.allocated /\ e.ip = d.ip
              /\ e.ttl = IF d.ttl > 0 THEN d.ttl - 1 ELSE d.ttl
<1> DEFINE older(d) == [d EXCEPT !.ttl = IF @ > 0 THEN @ - 1 ELSE @]
<1>1. \A d \in c : d.ttl \in TTLs
  BY DEF Entry
<1>2. ASSUME NEW d \in c
      PROVE  /\ older(d) \in Entry
             /\ older(d).id = d.id
             /\ older(d).allocated = d.allocated /\ older(d).ip = d.ip
             /\ older(d).ttl = IF d.ttl > 0 THEN d.ttl - 1 ELSE d.ttl
  <2>1. (IF d.ttl > 0 THEN d.ttl - 1 ELSE d.ttl) \in TTLs
    BY <1>1, MaxTTLAssumption DEF TTLs
  <2>2. d \in Entry
    OBVIOUS
  <2> QED BY <2>1, <2>2 DEF Entry
<1>3. Aged(c) = {older(d) : d \in c}
  BY DEF Aged
<1> HIDE DEF older
<1> QED BY <1>2, <1>3 DEF Unique

\* Purging keeps exactly the entries whose time is not over.
LEMMA LiveFact ==
  ASSUME NEW c \in SUBSET Entry
  PROVE  /\ Live(c) \in SUBSET Entry
         /\ Live(c) \subseteq c
         /\ \A e \in c : e.ttl > 0 => e \in Live(c)
         /\ ~Expired(Live(c))
         /\ Unique(c) => Unique(Live(c))
BY MaxTTLAssumption DEF Live, Expired, Entry, TTLs, Unique

\* Storing a frame leaves an entry of its sender with the frame's time to live.
LEMMA UpdatedFact ==
  ASSUME NEW c \in SUBSET Entry, NEW f \in Frame, NEW ttl \in TTLs
  PROVE  /\ Updated(c, f, ttl) \in SUBSET Entry
         /\ Unique(c) => Unique(Updated(c, f, ttl))
         /\ \A e \in Updated(c, f, ttl) :
              \/ e \in c /\ e.id # f.id
              \/ e.id = f.id /\ e.ttl = ttl
                   /\ \E d \in c : d.id = f.id /\ e.allocated = d.allocated /\ e.ip = d.ip
              \/ e = NewEntry(f, ttl) /\ ~Known(c, f.id)
         /\ \A e \in c : e.id # f.id => e \in Updated(c, f, ttl)
         /\ Known(Updated(c, f, ttl), f.id)
<1>1. NewEntry(f, ttl) \in Entry /\ NewEntry(f, ttl).id = f.id
  BY DEF NewEntry, Entry, Frame
<1>2. CASE Known(c, f.id)
  <2> DEFINE timed(d) == IF d.id = f.id THEN [d EXCEPT !.ttl = ttl] ELSE d
  <2>1. ASSUME NEW d \in c
        PROVE  /\ timed(d) \in Entry
               /\ timed(d).id = d.id
               /\ timed(d).allocated = d.allocated /\ timed(d).ip = d.ip
               /\ IF d.id = f.id THEN timed(d).ttl = ttl ELSE timed(d) = d
    <3>1. d \in Entry
      OBVIOUS
    <3> QED BY <3>1 DEF Entry
  <2>2. Updated(c, f, ttl) = {timed(d) : d \in c}
    BY <1>2 DEF Updated, Refreshed
  <2> HIDE DEF timed
  <2> QED BY <1>2, <2>1, <2>2 DEF Unique, Known
<1>3. CASE ~Known(c, f.id)
  <2>1. Updated(c, f, ttl) = c \cup {NewEntry(f, ttl)}
    BY <1>3 DEF Updated
  <2>2. \A e \in c : e.id # f.id
    BY <1>3 DEF Known
  <2> QED BY <1>1, <1>3, <2>1, <2>2 DEF Known, Unique
<1> QED BY <1>2, <1>3

\* Granting an address changes the entries of that neighbour and no other.
LEMMA GrantedFact ==
  ASSUME NEW c \in SUBSET Entry, NEW id \in Ids, NEW octet \in Octets
  PROVE  /\ Granted(c, id, octet) \in SUBSET Entry
         /\ Unique(c) => Unique(Granted(c, id, octet))
         /\ \A e \in Granted(c, id, octet) : \E d \in c :
              /\ e.id = d.id /\ e.ttl = d.ttl
              /\ e.id = id => e.allocated /\ e.ip = octet
              /\ e.id # id => e.allocated = d.allocated /\ e.ip = d.ip
         /\ \A k : Known(c, k) => Known(Granted(c, id, octet), k)
<1> DEFINE given(d) ==
             IF d.id = id THEN [d EXCEPT !.allocated = TRUE, !.ip = octet] ELSE d
<1>1. ASSUME NEW d \in c
      PROVE  /\ given(d) \in Entry
             /\ given(d).id = d.id /\ given(d).ttl = d.ttl
             /\ IF d.id = id THEN given(d).allocated /\ given(d).ip = octet
                             ELSE /\ given(d).allocated = d.allocated
                                  /\ given(d).ip = d.ip
  <2>1. d \in Entry
    OBVIOUS
  <2> QED BY <2>1 DEF Entry, Addrs
<1>2. Granted(c, id, octet) = {given(d) : d \in c}
  BY DEF Granted
<1> HIDE DEF given
<1>3. \A k : Known(c, k) => Known(Granted(c, id, octet), k)
  BY <1>1, <1>2 DEF Known
<1> QED BY <1>1, <1>2, <1>3 DEF Unique

\* Only a neighbour that is new may need another line in the file.
LEMMA AgedLines ==
  ASSUME NEW c \in SUBSET Entry
  PROVE  Lines(Aged(c)) = Lines(c)
<1> DEFINE older(d) == [d EXCEPT !.ttl = IF @ > 0 THEN @ - 1 ELSE @]
<1>1. ASSUME NEW d \in c
      PROVE  older(d).id = d.id /\ older(d).wifi = d.wifi
  <2>1. d \in Entry
    OBVIOUS
  <2> QED BY <2>1 DEF Entry
<1>2. Aged(c) = {older(d) : d \in c}
  BY DEF Aged
<1> HIDE DEF older
<1> QED BY <1>1, <1>2 DEF Lines

LEMMA RefreshedLines ==
  ASSUME NEW c \in SUBSET Entry, NEW id, NEW ttl
  PROVE  Lines(Refreshed(c, id, ttl)) = Lines(c)
<1> DEFINE timed(d) == IF d.id = id THEN [d EXCEPT !.ttl = ttl] ELSE d
<1>1. ASSUME NEW d \in c
      PROVE  timed(d).id = d.id /\ timed(d).wifi = d.wifi
  <2>1. d \in Entry
    OBVIOUS
  <2> QED BY <2>1 DEF Entry
<1>2. Refreshed(c, id, ttl) = {timed(d) : d \in c}
  BY DEF Refreshed
<1> HIDE DEF timed
<1> QED BY <1>1, <1>2 DEF Lines

LEMMA GrantedLines ==
  ASSUME NEW c \in SUBSET Entry, NEW id, NEW octet
  PROVE  Lines(Granted(c, id, octet)) = Lines(c)
<1> DEFINE given(d) ==
             IF d.id = id THEN [d EXCEPT !.allocated = TRUE, !.ip = octet] ELSE d
<1>1. ASSUME NEW d \in c
      PROVE  given(d).id = d.id /\ given(d).wifi = d.wifi
  <2>1. d \in Entry
    OBVIOUS
  <2> QED BY <2>1 DEF Entry
<1>2. Granted(c, id, octet) = {given(d) : d \in c}
  BY DEF Granted
<1> HIDE DEF given
<1> QED BY <1>1, <1>2 DEF Lines

\* The file covers the caches when it holds the lines of every port.
LEMMA CoversLines ==
  FileCoversCache <=> \A p \in Ports : Lines(cache[p]) \subseteq file
BY DEF FileCoversCache, Lines

\* Granting an address touches no timer.
LEMMA GrantedTimers ==
  ASSUME NEW c \in SUBSET Entry, NEW id \in Ids, NEW octet \in Octets
  PROVE  Timers(Granted(c, id, octet)) = Timers(c)
<1> DEFINE given(d) ==
             IF d.id = id THEN [d EXCEPT !.allocated = TRUE, !.ip = octet] ELSE d
<1>1. ASSUME NEW d \in c
      PROVE  given(d).id = d.id /\ given(d).ttl = d.ttl
  <2>1. d \in Entry
    OBVIOUS
  <2> QED BY <2>1 DEF Entry
<1>2. Granted(c, id, octet) = {given(d) : d \in c}
  BY DEF Granted
<1> HIDE DEF given
<1> QED BY <1>1, <1>2 DEF Timers

-----------------------------------------------------------------------------
(* What the runs have in common.                                           *)

\* The part of Inv that speaks of addresses and of the neighbour file.
CacheInv ==
  /\ \A p \in Ports : DevRole = "SLAVE" => slave[p] = {}
  /\ ips # OctetMax
  /\ ~wrapped => \A p \in Ports : \A e \in cache[p] :
                 e.allocated => e.ip \in 0 .. (ips - 1)
  /\ UniqueMsap /\ GrantRecorded
  /\ DistinctAddresses /\ NeverBroadcast /\ FileCoversCache

\* A frame that is said to wait is in the buffer.
Waiting == \A p \in Ports : rcvFrame[p] => rxFrame[p] \in Frames

\* The invariant, taken apart along what the steps of a run disturb.
LEMMA InvParts == Inv <=> TypeOK /\ Waiting /\ CacheInv /\ AgeFlagExact
BY DEF Inv, Connected, CacheInv, Waiting

\* Every step but a stutter is a run of one port, by the clock or by a frame.
LEMMA StepIsRun ==
  ASSUME TypeOK, Waiting, Next
  PROVE  \E p \in Ports, rcv \in BOOLEAN, f \in Frame \cup {NoFrame} :
           (rcv => f \in Frames) /\ Run(p, rcv, f)
<1>1. PICK p \in Ports : Tick(p) \/ \E f \in Frames : Receive(p, f)
  BY DEF Next
<1>2. CASE Tick(p)
  BY <1>2 DEF Tick, TypeOK, Waiting
<1>3. CASE \E f \in Frames : Receive(p, f)
  BY <1>3, FrameAssumption DEF Receive
<1> QED BY <1>1, <1>2, <1>3

\* Whatever state it enters, a run keeps the buffer and its flag in step.
LEMMA EnterFact ==
  ASSUME TypeOK, Waiting,
         NEW p \in Ports, NEW rcv \in BOOLEAN, NEW f \in Frame \cup {NoFrame},
         NEW s \in RxStates, rcv => f \in Frames, Enter(p, s, rcv, f)
  PROVE  /\ rxState' \in [Ports -> RxStates]
         /\ rcvFrame' \in [Ports -> BOOLEAN]
         /\ rxFrame' \in [Ports -> Frame \cup {NoFrame}]
         /\ Waiting'
         /\ stuck = FALSE
         /\ NextState(p, rcv) = s
BY DEF Enter, TypeOK, Waiting

\* A frame is taken only when one waits and nothing has aged out.
LEMMA FrameTaken ==
  ASSUME TypeOK, NEW p \in Ports, NEW rcv \in BOOLEAN,
         NextState(p, rcv) = "RX_FRAME"
  PROVE  rcv /\ ~rxInfoAge[p] /\ rxState[p] = "RX_WAIT_FOR_FRAME"
BY DEF NextState, FromWaiting, FromFrame, TypeOK, RxStates, portEnabled

\* Only a processed frame leads to UPDATE_INFO.
LEMMA UpdateAfterFrame ==
  ASSUME TypeOK, NEW p \in Ports, NEW rcv \in BOOLEAN,
         NextState(p, rcv) = "UPDATE_INFO"
  PROVE  rxState[p] = "RX_FRAME"
BY DEF NextState, FromWaiting, FromFrame, TypeOK, RxStates, portEnabled

\* The timers are updated in every run; the flag stays exact when it was up
\* before only for what is still there or in a purge.
LEMMA TimersFact ==
  ASSUME TypeOK, AgeFlagExact, NEW p \in Ports, NEW s \in RxStates,
         NEW c \in SUBSET Entry, NEW age \in BOOLEAN,
         UpdateTimers(p, c, age),
         rxState' = [rxState EXCEPT ![p] = s],
         age => s = "DELETE_INFO" \/ Expired(c)
  PROVE  /\ cache' \in [Ports -> SUBSET Entry]
         /\ rxInfoAge' \in [Ports -> BOOLEAN]
         /\ AgeFlagExact'
<1>1. Expired(c) => Expired(Aged(c))
  BY AgedFact DEF Expired
<1>2. Expired(Aged(c)) \in BOOLEAN
  BY DEF Expired
<1>3. Aged(c) \in SUBSET Entry
  BY AgedFact
<1>4. cache' = [cache EXCEPT ![p] = Aged(c)]
      /\ rxInfoAge' = [rxInfoAge EXCEPT ![p] = age \/ Expired(Aged(c))]
  BY DEF UpdateTimers
<1>5. AgeFlagExact'
  <2> SUFFICES ASSUME NEW q \in Ports
               PROVE  /\ Expired(cache'[q]) => rxInfoAge'[q]
                      /\ rxInfoAge'[q] /\ rxState'[q] # "DELETE_INFO" => Expired(cache'[q])
    BY DEF AgeFlagExact, Expired
  <2>1. CASE q = p
    BY <1>1, <1>4, <2>1 DEF TypeOK
  <2>2. CASE q # p
    BY <1>4, <2>2 DEF TypeOK, AgeFlagExact
  <2> QED BY <2>1, <2>2
<1> QED BY <1>2, <1>3, <1>4, <1>5 DEF TypeOK

\* Ageing and purging a cache disturbs no address and needs no new file.
LEMMA ShrinkFact ==
  ASSUME TypeOK, CacheInv, NEW p \in Ports, NEW c \in SUBSET cache[p],
         Unique(c), cache' = [cache EXCEPT ![p] = Aged(c)],
         UNCHANGED <<ips, slave, file, wrapped>>
  PROVE  CacheInv'
<1>1. c \in SUBSET Entry /\ cache'[p] = Aged(c)
  BY DEF TypeOK
<1>2. \A q \in Ports : \A e \in cache'[q] : \E d \in cache[q] :
         d.id = e.id /\ d.allocated = e.allocated /\ d.ip = e.ip
  BY <1>1, AgedFact DEF TypeOK
<1>3. UniqueMsap'
  BY <1>1, AgedFact DEF UniqueMsap, CacheInv, TypeOK, Unique
<1>4. GrantRecorded'
  BY <1>2 DEF GrantRecorded, CacheInv
<1>5. DistinctAddresses'
  BY <1>2, <1>3 DEF DistinctAddresses, CacheInv, UniqueMsap, Unique
<1>6. NeverBroadcast'
  BY <1>2 DEF NeverBroadcast, CacheInv
<1>7. FileCoversCache'
  <2>1. Lines(Aged(c)) \subseteq Lines(cache[p])
    BY <1>1, AgedLines DEF Lines
  <2>2. \A q \in Ports : Lines(cache'[q]) \subseteq Lines(cache[q])
    BY <1>1, <2>1 DEF TypeOK
  <2>3. \A q \in Ports : Lines(cache'[q]) \subseteq file'
    BY <2>2, CoversLines DEF CacheInv
  <2> QED BY <2>3 DEF FileCoversCache, Lines
<1>8. ~wrapped' => \A q \in Ports : \A e \in cache'[q] : e.allocated => e.ip \in 0 .. (ips' - 1)
  BY <1>2 DEF CacheInv
<1> QED BY <1>3, <1>4, <1>5, <1>6, <1>7, <1>8 DEF CacheInv

-----------------------------------------------------------------------------
(* The runs that process no frame.                                         *)

\* A run that purges or only ages the cache c of its port keeps the invariant.
LEMMA QuietRun ==
  ASSUME Inv, NEW p \in Ports, NEW rcv \in BOOLEAN, NEW f \in Frame \cup {NoFrame},
         rcv => f \in Frames, NEW s \in RxStates, Enter(p, s, rcv, f),
         NEW c \in SUBSET cache[p], Unique(c), NEW age \in BOOLEAN,
         UpdateTimers(p, c, age), age => s = "DELETE_INFO" \/ Expired(c),
         NoFrameProcessed, remoteChange' \in [Ports -> BOOLEAN]
  PROVE  Inv'
<1>1. TypeOK /\ Waiting /\ CacheInv /\ AgeFlagExact
  BY InvParts
<1>2. c \in SUBSET Entry
  BY <1>1 DEF TypeOK
<1>3. /\ rxState' \in [Ports -> RxStates] /\ rcvFrame' \in [Ports -> BOOLEAN]
      /\ rxFrame' \in [Ports -> Frame \cup {NoFrame}] /\ Waiting'
  BY <1>1, EnterFact
<1>a. rxState' = [rxState EXCEPT ![p] = s]
  BY DEF Enter
<1>b. cache' = [cache EXCEPT ![p] = Aged(c)]
  BY DEF UpdateTimers
<1>4. /\ cache' \in [Ports -> SUBSET Entry] /\ rxInfoAge' \in [Ports -> BOOLEAN]
      /\ AgeFlagExact'
  BY <1>1, <1>2, <1>a, TimersFact
<1>5. CacheInv'
  BY <1>1, <1>b, ShrinkFact DEF NoFrameProcessed
<1>6. TypeOK'
  BY <1>1, <1>3, <1>4 DEF TypeOK, NoFrameProcessed
<1> QED BY <1>3, <1>4, <1>5, <1>6 DEF Inv, Connected, CacheInv, Waiting

\* The four ways a run may change the cache of its port without a frame.
LEMMA QuietStep ==
  ASSUME Inv, NEW p \in Ports, NEW rcv \in BOOLEAN, NEW f \in Frame \cup {NoFrame},
         rcv => f \in Frames,
         \/ Initialize(p, rcv, f)
         \/ WaitForFrame(p, rcv, f)
         \/ DeleteInfo(p, rcv, f)
         \/ UpdateInfo(p, rcv, f)
  PROVE  Inv'
<1>1. TypeOK /\ AgeFlagExact /\ UniqueMsap
  BY DEF Inv
<1>2. /\ cache[p] \in SUBSET Entry /\ Unique(cache[p])
      /\ Live(cache[p]) \in SUBSET cache[p] /\ Unique(Live(cache[p]))
      /\ rxInfoAge[p] \in BOOLEAN
  BY <1>1, LiveFact DEF TypeOK, UniqueMsap
<1>3. CASE Initialize(p, rcv, f)
  <2>1. "RX_LLDP_INITIALIZE" \in RxStates
    BY DEF RxStates
  <2>2. remoteChange' \in [Ports -> BOOLEAN]
    BY <1>1, <1>3 DEF TypeOK, Initialize
  <2> QED BY <1>2, <1>3, <2>1, <2>2, QuietRun DEF Initialize
<1>4. CASE WaitForFrame(p, rcv, f)
  <2>1. "RX_WAIT_FOR_FRAME" \in RxStates
    BY DEF RxStates
  <2>2. remoteChange' \in [Ports -> BOOLEAN]
    BY <1>1, <1>4 DEF TypeOK, WaitForFrame
  <2> QED BY <1>2, <1>4, <2>1, <2>2, QuietRun DEF WaitForFrame
<1>5. CASE DeleteInfo(p, rcv, f)
  <2>1. PICK s \in {"DELETE_INFO", "DELETE_AGED_INFO"} :
          /\ Enter(p, s, rcv, f)
          /\ UpdateTimers(p, Live(cache[p]), rxInfoAge[p] /\ s = "DELETE_INFO")
    BY <1>5 DEF DeleteInfo
  <2>2. s \in RxStates
    BY DEF RxStates
  <2>3. remoteChange' \in [Ports -> BOOLEAN] /\ NoFrameProcessed
    BY <1>1, <1>5 DEF TypeOK, DeleteInfo
  <2>4. (rxInfoAge[p] /\ s = "DELETE_INFO") \in BOOLEAN
    BY <1>2
  <2> QED BY <1>2, <2>1, <2>2, <2>3, <2>4, QuietRun
<1>6. CASE UpdateInfo(p, rcv, f)
  <2>1. "UPDATE_INFO" \in RxStates
    BY DEF RxStates
  <2>2. rxState[p] = "RX_FRAME"
    BY <1>1, <1>6, UpdateAfterFrame DEF UpdateInfo, Enter
  <2>3. rxInfoAge[p] => Expired(cache[p])
    BY <1>1, <2>2 DEF AgeFlagExact
  <2>4. remoteChange' \in [Ports -> BOOLEAN]
    BY <1>1, <1>6 DEF TypeOK, UpdateInfo
  <2> QED BY <1>2, <1>6, <2>1, <2>3, <2>4, QuietRun DEF UpdateInfo
<1> QED BY <1>3, <1>4, <1>5, <1>6

-----------------------------------------------------------------------------
(* The runs that process a frame.                                          *)

\* The type of what every frame changes.
LEMMA ProcessFact ==
  ASSUME TypeOK, NEW p \in Ports, NEW f \in Frame, Process(p, f)
  PROVE  /\ rxTTL' \in [Ports -> TTLs]
         /\ alias' \in Addrs
         /\ TTLOf(p, f) \in TTLs
         /\ UNCHANGED remoteChange
BY DEF Process, TypeOK, TTLOf, Frame

\* A frame that stores nothing.
LEMMA OtherStep ==
  ASSUME Inv, NEW p \in Ports, NEW rcv \in BOOLEAN, NEW f \in Frame \cup {NoFrame},
         rcv => f \in Frames,
         ProcessOther(p, rcv, f) \/ ScanForever(p, rcv, f)
  PROVE  Inv'
<1>1. TypeOK /\ Waiting /\ CacheInv /\ AgeFlagExact
  BY InvParts
<1>2. Enter(p, "RX_FRAME", rcv, f) /\ "RX_FRAME" \in RxStates
  BY DEF ProcessOther, ScanForever, RxStates
<1>3. /\ rxState' \in [Ports -> RxStates] /\ rcvFrame' \in [Ports -> BOOLEAN]
      /\ rxFrame' \in [Ports -> Frame \cup {NoFrame}] /\ Waiting'
      /\ NextState(p, rcv) = "RX_FRAME"
  BY <1>1, <1>2, EnterFact
<1>a. rxState' = [rxState EXCEPT ![p] = "RX_FRAME"]
  BY <1>2 DEF Enter
<1>4. rcv /\ ~rxInfoAge[p] /\ f \in Frame
  BY <1>1, <1>3, FrameTaken, FrameAssumption
<1>5. rxTTL' \in [Ports -> TTLs] /\ alias' \in Addrs /\ UNCHANGED remoteChange
  BY <1>1, <1>4, ProcessFact DEF ProcessOther, ScanForever
<1>6. CASE ProcessOther(p, rcv, f)
  <2>1. cache[p] \in SUBSET Entry /\ rxInfoAge[p] \in BOOLEAN /\ Unique(cache[p])
    BY <1>1 DEF TypeOK, CacheInv, UniqueMsap
  <2>2. UpdateTimers(p, cache[p], rxInfoAge[p])
    BY <1>6 DEF ProcessOther
  <2>a. cache' = [cache EXCEPT ![p] = Aged(cache[p])]
    BY <2>2 DEF UpdateTimers
  <2>b. /\ cache' \in [Ports -> SUBSET Entry] /\ rxInfoAge' \in [Ports -> BOOLEAN]
        /\ AgeFlagExact'
    BY <1>1, <1>2, <1>4, <1>a, <2>1, <2>2, TimersFact
  <2>3. CacheInv'
    BY <1>1, <1>6, <2>1, <2>a, ShrinkFact DEF ProcessOther
  <2>4. TypeOK'
    BY <1>1, <1>3, <1>5, <1>6, <2>b DEF TypeOK, ProcessOther
  <2> QED BY <1>3, <2>b, <2>3, <2>4 DEF Inv, Connected, CacheInv, Waiting
<1>7. CASE ScanForever(p, rcv, f)
  <2>1. AgeFlagExact'
    BY <1>1, <1>a, <1>4, <1>7 DEF ScanForever, AgeFlagExact, TypeOK
  <2>2. CacheInv'
    BY <1>1, <1>7 DEF ScanForever, CacheInv, UniqueMsap, GrantRecorded,
                      DistinctAddresses, NeverBroadcast, FileCoversCache
  <2>3. TypeOK'
    BY <1>1, <1>3, <1>5, <1>7 DEF TypeOK, ScanForever
  <2> QED BY <1>3, <2>1, <2>2, <2>3 DEF Inv, Connected, CacheInv, Waiting
<1> QED BY <1>6, <1>7

\* What the cache of the port holds when a peer's frame has been stored.
Stored(p, f) == Updated(cache[p], f, TTLOf(p, f))
Grants(p, f) == DevRole = "MASTER" /\ Unallocated(Stored(p, f), f.id)
Served(p, f) == IF Grants(p, f) THEN Granted(Stored(p, f), f.id, ips) ELSE Stored(p, f)

\* Every entry is as it was but for its timer, or has just been given the next
\* address, or is new and has none because the device is a slave.
LEMMA ServedFact ==
  ASSUME TypeOK, NEW p \in Ports, NEW f \in Frame, TTLOf(p, f) \in TTLs
  PROVE  /\ Served(p, f) \in SUBSET Entry
         /\ Unique(cache[p]) => Unique(Served(p, f))
         /\ \A e \in Served(p, f) :
              \/ /\ Grants(p, f) => e.id # f.id
                 /\ \E d \in cache[p] :
                      d.id = e.id /\ d.allocated = e.allocated /\ d.ip = e.ip
              \/ Grants(p, f) /\ e.id = f.id /\ e.allocated /\ e.ip = ips
              \/ DevRole = "SLAVE" /\ e.id = f.id /\ ~e.allocated
                   /\ ~Known(cache[p], f.id)
<1> DEFINE c == cache[p]
           c1 == Stored(p, f)
<1>1. c \in SUBSET Entry /\ ips \in Octets
  BY DEF TypeOK
<1>2. f.id \in Ids
  BY DEF Frame
<1>3. /\ c1 \in SUBSET Entry
      /\ Unique(c) => Unique(c1)
      /\ \A e \in c1 :
           \/ \E d \in c : d.id = e.id /\ d.allocated = e.allocated /\ d.ip = e.ip
           \/ e = NewEntry(f, TTLOf(p, f)) /\ ~Known(c, f.id)
  BY <1>1, UpdatedFact DEF Stored
<1>4. NewEntry(f, TTLOf(p, f)).id = f.id /\ ~NewEntry(f, TTLOf(p, f)).allocated
  BY DEF NewEntry
<1>5. CASE Grants(p, f)
  <2>1. Served(p, f) = Granted(c1, f.id, ips)
    BY <1>5 DEF Served
  <2>2. /\ Granted(c1, f.id, ips) \in SUBSET Entry
        /\ Unique(c1) => Unique(Granted(c1, f.id, ips))
        /\ \A e \in Granted(c1, f.id, ips) : \E d \in c1 :
              /\ e.id = d.id /\ e.ttl = d.ttl
              /\ e.id = f.id => e.allocated /\ e.ip = ips
              /\ e.id # f.id => e.allocated = d.allocated /\ e.ip = d.ip
    <3> HIDE DEF c1
    <3> QED BY <1>1, <1>2, <1>3, GrantedFact
  <2> HIDE DEF c1
  <2>3. ASSUME NEW e \in Granted(c1, f.id, ips), e.id # f.id
        PROVE  \E d \in c : d.id = e.id /\ d.allocated = e.allocated /\ d.ip = e.ip
    BY <1>3, <1>4, <2>2, <2>3
  <2> QED BY <1>3, <1>5, <2>1, <2>2, <2>3
<1>6. CASE ~Grants(p, f)
  <2>1. Served(p, f) = c1
    BY <1>6 DEF Served
  <2>2. ASSUME NEW e \in c1, e = NewEntry(f, TTLOf(p, f))
        PROVE  DevRole = "SLAVE"
    <3>1. Unallocated(c1, f.id)
      BY <1>4, <2>2 DEF Unallocated
    <3> QED BY <1>6, <3>1, RoleAssumption DEF Grants
  <2> HIDE DEF c1
  <2> QED BY <1>3, <1>4, <1>6, <2>1, <2>2
<1> QED BY <1>5, <1>6

\* A peer's frame keeps addresses apart, recorded and in the file.
LEMMA PeerCacheInv ==
  ASSUME TypeOK, CacheInv, NEW p \in Ports, NEW f \in Frame, TTLOf(p, f) \in TTLs,
         cache' = [cache EXCEPT ![p] = Aged(Served(p, f))],
         file' = IF Known(cache[p], f.id) THEN file
                 ELSE Listed(p, Stored(p, f)),
         slave' = IF Grants(p, f) THEN [slave EXCEPT ![p] = {<<f.id, ips>>}] ELSE slave,
         ips' = IF Grants(p, f) THEN NextOctet(ips) ELSE ips,
         wrapped' = (wrapped \/ (Grants(p, f) /\ NextOctet(ips) < ips))
  PROVE  CacheInv'
<1> DEFINE g == Grants(p, f)
<1>1. Unique(cache[p])
  BY DEF CacheInv, UniqueMsap
<1>2. Served(p, f) \in SUBSET Entry /\ Unique(Served(p, f))
  BY <1>1, ServedFact
<1>3. cache'[p] = Aged(Served(p, f)) /\ \A q \in Ports \ {p} : cache'[q] = cache[q]
  BY DEF TypeOK
<1>4. \A e \in cache'[p] : \E d \in Served(p, f) :
         d.id = e.id /\ d.allocated = e.allocated /\ d.ip = e.ip
  BY <1>2, <1>3, AgedFact
<1>5. \A e \in cache'[p] :
         \/ /\ g => e.id # f.id
            /\ \E d \in cache[p] :
                 d.id = e.id /\ d.allocated = e.allocated /\ d.ip = e.ip
         \/ g /\ e.id = f.id /\ e.allocated /\ e.ip = ips
         \/ DevRole = "SLAVE" /\ e.id = f.id /\ ~e.allocated /\ ~Known(cache[p], f.id)
  BY <1>4, ServedFact
<1>6. /\ ips \in Octets /\ ips # OctetMax
      /\ NextOctet(ips) \in Octets /\ NextOctet(ips) # OctetMax /\ NextOctet(ips) # ips
  BY NextOctetFact DEF TypeOK, CacheInv
<1>7. UniqueMsap'
  BY <1>2, <1>3, AgedFact DEF UniqueMsap, CacheInv, Unique
<1>8. \A q \in Ports : DevRole = "SLAVE" => slave'[q] = {}
  BY DEF CacheInv, Grants, TypeOK
<1>9. ips' # OctetMax
  BY <1>6
<1> HIDE DEF g
<1>10. ASSUME ~wrapped', NEW q \in Ports, NEW e \in cache'[q], e.allocated
       PROVE  e.ip \in 0 .. (ips' - 1)
  <2>1. ~wrapped /\ ~(Grants(p, f) /\ NextOctet(ips) < ips)
    BY <1>10
  <2>2. ips \in Int /\ NextOctet(ips) \in Int
    BY <1>6, OctetAssumption DEF Octets
  <2>3. \A r \in Ports : \A d \in cache[r] : d.allocated => d.ip \in 0 .. (ips - 1)
    BY <2>1 DEF CacheInv
  <2>4. CASE g
    <3>1. ips < NextOctet(ips) /\ ips' = NextOctet(ips)
      BY <1>6, <2>1, <2>2, <2>4 DEF g
    <3>2. e.ip = ips \/ e.ip \in 0 .. (ips - 1)
      BY <1>3, <1>5, <1>10, <2>3
    <3> QED BY <1>6, <2>2, <3>1, <3>2, OctetAssumption DEF Octets
  <2>5. CASE ~g
    <3>1. \E d \in cache[q] : d.allocated /\ d.ip = e.ip
      BY <1>3, <1>5, <1>10, <2>5
    <3>2. ips' = ips
      BY <2>5 DEF g
    <3> QED BY <2>3, <3>1, <3>2
  <2> QED BY <2>4, <2>5
<1>11. GrantRecorded'
  <2> SUFFICES ASSUME NEW q \in Ports, NEW h \in slave'[q], NEW e \in cache'[q], e.id = h[1]
               PROVE  e.allocated /\ e.ip = h[2]
    BY DEF GrantRecorded
  <2>1. slave \in [Ports -> SUBSET (Ids \X Octets)]
    BY DEF TypeOK
  <2>2. CASE q # p
    BY <1>3, <2>1, <2>2 DEF CacheInv, GrantRecorded
  <2>3. CASE q = p /\ g
    <3>1. h = <<f.id, ips>>
      BY <2>1, <2>3 DEF g
    <3> QED BY <1>5, <2>3, <3>1 DEF CacheInv, g, Grants
  <2>4. CASE q = p /\ ~g
    <3>1. h \in slave[p] /\ DevRole # "SLAVE"
      BY <2>4 DEF g, CacheInv
    <3> QED BY <1>5, <2>4, <3>1 DEF CacheInv, GrantRecorded
  <2> QED BY <2>2, <2>3, <2>4
<1>12. DistinctAddresses'
  <2> SUFFICES ASSUME ~wrapped', NEW q \in Ports, NEW r \in Ports,
                      NEW a \in cache'[q], NEW b \in cache'[r],
                      a.allocated, b.allocated, a.ip = b.ip
               PROVE  q = r /\ a.id = b.id
    BY DEF DistinctAddresses
  <2>0. ~wrapped
    OBVIOUS
  <2>1. \A t \in Ports : \A d \in cache[t] : d.allocated => d.ip # ips
    BY <1>6, <2>0, OctetAssumption DEF CacheInv, Octets
  <2>2. \A t \in Ports : \A e \in cache'[t] : e.allocated =>
           \/ \E d \in cache[t] : d.id = e.id /\ d.allocated /\ d.ip = e.ip
           \/ g /\ t = p /\ e.id = f.id /\ e.ip = ips
    BY <1>3, <1>5
  <2> QED BY <2>0, <2>1, <2>2 DEF CacheInv, DistinctAddresses
<1>13. NeverBroadcast'
  BY <1>3, <1>5, <1>6 DEF CacheInv, NeverBroadcast
<1>14. FileCoversCache'
  <2>1. cache[p] \in SUBSET Entry /\ Stored(p, f) \in SUBSET Entry
    BY UpdatedFact DEF TypeOK, Stored
  <2>2. Lines(cache'[p]) = Lines(Stored(p, f))
    BY <1>2, <1>3, <1>6, <2>1, AgedLines, GrantedLines DEF Served, Frame
  <2>3. \A q \in Ports : Lines(cache[q]) \subseteq file
    BY CoversLines DEF CacheInv
  <2>4. \A q \in Ports : Lines(cache'[q]) \subseteq file'
    <3>1. CASE Known(cache[p], f.id)
      <4>1. Lines(Stored(p, f)) = Lines(cache[p])
        BY <2>1, <3>1, RefreshedLines DEF Stored, Updated
      <4> QED BY <1>3, <2>2, <2>3, <3>1, <4>1
    <3>2. CASE ~Known(cache[p], f.id)
      <4>1. file' = Listed(p, Stored(p, f))
        BY <3>2
      <4> QED BY <1>3, <2>2, <4>1 DEF Listed
    <3> QED BY <3>1, <3>2
  <2> QED BY <2>4 DEF FileCoversCache, Lines
<1> QED BY <1>7, <1>8, <1>9, <1>10, <1>11, <1>12, <1>13, <1>14 DEF CacheInv

\* A peer's frame keeps the invariant.
LEMMA PeerStep ==
  ASSUME Inv, NEW p \in Ports, NEW rcv \in BOOLEAN, NEW f \in Frame \cup {NoFrame},
         rcv => f \in Frames, ProcessPeer(p, rcv, f)
  PROVE  Inv'
<1>1. TypeOK /\ Waiting /\ CacheInv /\ AgeFlagExact
  BY InvParts
<1>2. Enter(p, "RX_FRAME", rcv, f) /\ "RX_FRAME" \in RxStates
  BY DEF ProcessPeer, RxStates
<1>3. /\ rxState' \in [Ports -> RxStates] /\ rcvFrame' \in [Ports -> BOOLEAN]
      /\ rxFrame' \in [Ports -> Frame \cup {NoFrame}] /\ Waiting'
      /\ NextState(p, rcv) = "RX_FRAME"
  BY <1>1, <1>2, EnterFact
<1>4. rxState' = [rxState EXCEPT ![p] = "RX_FRAME"]
  BY <1>2 DEF Enter
<1>5. rcv /\ ~rxInfoAge[p] /\ f \in Frame
  BY <1>1, <1>3, FrameTaken, FrameAssumption
<1>6. /\ rxTTL' \in [Ports -> TTLs] /\ alias' \in Addrs /\ UNCHANGED remoteChange
      /\ TTLOf(p, f) \in TTLs
  BY <1>1, <1>5, ProcessFact DEF ProcessPeer
<1>7. Served(p, f) \in SUBSET Entry /\ rxInfoAge[p] \in BOOLEAN
  BY <1>1, <1>5, <1>6, ServedFact DEF TypeOK
<1>8. /\ UpdateTimers(p, Served(p, f), rxInfoAge[p])
      /\ rxChanges' = [rxChanges EXCEPT ![p] = TRUE]
      /\ UNCHANGED stuck
  BY DEF ProcessPeer, Served, Grants, Stored
<1>9. /\ file' = IF Known(cache[p], f.id) THEN file
                 ELSE Listed(p, Stored(p, f))
      /\ slave' = IF Grants(p, f) THEN [slave EXCEPT ![p] = {<<f.id, ips>>}] ELSE slave
      /\ ips' = IF Grants(p, f) THEN NextOctet(ips) ELSE ips
      /\ wrapped' = (wrapped \/ (Grants(p, f) /\ NextOctet(ips) < ips))
  BY DEF ProcessPeer, Grants, Stored
<1>10. cache' = [cache EXCEPT ![p] = Aged(Served(p, f))]
  BY <1>8 DEF UpdateTimers
<1>11. /\ cache' \in [Ports -> SUBSET Entry] /\ rxInfoAge' \in [Ports -> BOOLEAN]
       /\ AgeFlagExact'
  BY <1>1, <1>2, <1>4, <1>5, <1>7, <1>8, TimersFact
<1>12. CacheInv'
  BY <1>1, <1>5, <1>6, <1>9, <1>10, PeerCacheInv
<1>13. f.id \in Ids /\ ips \in Octets /\ NextOctet(ips) \in Octets
  BY <1>1, <1>5, NextOctetFact DEF Frame, TypeOK, CacheInv
<1>14. slave' \in [Ports -> SUBSET (Ids \X Octets)] /\ ips' \in Octets
  BY <1>1, <1>9, <1>13 DEF TypeOK
<1>15. file' \in SUBSET Ids
  <2>1. \A q \in Ports : \A e \in (IF q = p THEN Stored(p, f) ELSE cache[q]) : e.id \in Ids
    <3>1. \A q \in Ports : cache[q] \in SUBSET Entry
      BY <1>1 DEF TypeOK
    <3>2. Stored(p, f) \in SUBSET Entry
      BY <1>5, <1>6, <3>1, UpdatedFact DEF Stored
    <3>3. \A e \in Entry : e.id \in Ids
      BY DEF Entry
    <3> QED BY <3>1, <3>2, <3>3
  <2>2. file \in SUBSET Ids
    BY <1>1 DEF TypeOK
  <2> QED BY <1>9, <2>1, <2>2 DEF Listed, Lines
<1>16. wrapped' \in BOOLEAN
  BY <1>1, <1>9 DEF TypeOK
<1>17. TypeOK'
  BY <1>1, <1>3, <1>6, <1>8, <1>11, <1>14, <1>15, <1>16 DEF TypeOK
<1> QED BY <1>3, <1>11, <1>12, <1>17 DEF Inv, Connected, CacheInv, Waiting

-----------------------------------------------------------------------------
(* The invariant.                                                          *)

\* A daemon that has just started satisfies the invariant.
LEMMA InvInit ==
  ASSUME Init
  PROVE  Inv
<1>1. TypeOK
  <2>1. 0 \in TTLs /\ FirstOctet \in Octets /\ OwnAddr \in Addrs
    BY OctetAssumption, MaxTTLAssumption DEF TTLs, Octets, Addrs
  <2>2. /\ rxState \in [Ports -> RxStates] /\ rxTTL \in [Ports -> TTLs]
        /\ rxFrame \in [Ports -> Frame \cup {NoFrame}]
        /\ ips \in Octets /\ alias \in Addrs
    BY <2>1 DEF Init, RxStates
  <2>3. /\ cache \in [Ports -> SUBSET Entry]
        /\ slave \in [Ports -> SUBSET (Ids \X Octets)]
        /\ file \in SUBSET Ids
    BY DEF Init
  <2> QED BY <2>2, <2>3 DEF Init, TypeOK
<1> QED BY <1>1, OctetAssumption
        DEF Init, Inv, Connected, UniqueMsap, Unique, AgeFlagExact, Expired, GrantRecorded,
            DistinctAddresses, NeverBroadcast, FileCoversCache

\* Every run of every port keeps the invariant.
LEMMA InvStep ==
  ASSUME Inv, [Next]_vars
  PROVE  Inv'
<1>1. CASE Next
  <2>1. TypeOK /\ Waiting
    BY InvParts
  <2>2. PICK p \in Ports, rcv \in BOOLEAN, f \in Frame \cup {NoFrame} :
          (rcv => f \in Frames) /\ Run(p, rcv, f)
    BY <1>1, <2>1, StepIsRun
  <2> QED BY <2>2, QuietStep, OtherStep, PeerStep DEF Run
<1>2. CASE UNCHANGED vars
  BY <1>2 DEF vars, portVars, Inv, Connected, TypeOK, UniqueMsap, AgeFlagExact, GrantRecorded,
              DistinctAddresses, NeverBroadcast, FileCoversCache
<1> QED BY <1>1, <1>2

\* The invariant, whose parts TLC checks on the instances, holds of every one: of
\* any ports, roles, times to live and frames, other daemons' and strangers'.
THEOREM Invariance == Spec => []Inv
<1>1. Init => Inv
  BY InvInit
<1>2. Inv /\ [Next]_vars => Inv'
  BY InvStep
<1> QED BY <1>1, <1>2, PTL DEF Spec

\* Every variable keeps its type.
THEOREM TypeCorrect == Spec => []TypeOK
<1>1. Inv => TypeOK
  BY DEF Inv
<1> QED BY <1>1, Invariance, PTL

\* A frame said to wait is in the buffer, and the addresses given out are behind
\* the next one until the octet wraps.
THEOREM FlagsAndCounterConnected == Spec => []Connected
<1>1. Inv => Connected
  BY DEF Inv
<1> QED BY <1>1, Invariance, PTL

\* No neighbour is listed twice on a port.
THEOREM NoDuplicates == Spec => []UniqueMsap
<1>1. Inv => UniqueMsap
  BY DEF Inv
<1> QED BY <1>1, Invariance, PTL

\* No two listed neighbours hold the same address before the octet wraps.
THEOREM AddressesDistinct == Spec => []DistinctAddresses
<1>1. Inv => DistinctAddresses
  BY DEF Inv
<1> QED BY <1>1, Invariance, PTL

\* The flag that calls for a purge is up when, and only when, one is due.
THEOREM AgeFlagIsExact == Spec => []AgeFlagExact
<1>1. Inv => AgeFlagExact
  BY DEF Inv
<1> QED BY <1>1, Invariance, PTL

\* The cache agrees with the address a port has last sent out.
THEOREM GrantIsRecorded == Spec => []GrantRecorded
<1>1. Inv => GrantRecorded
  BY DEF Inv
<1> QED BY <1>1, Invariance, PTL

\* No neighbour is ever given the broadcast octet.
THEOREM BroadcastNeverGiven == Spec => []NeverBroadcast
<1>1. Inv => NeverBroadcast
  BY DEF Inv
<1> QED BY <1>1, Invariance, PTL

\* Every listed neighbour with a wireless module in operation is in the file.
THEOREM FileCoversNeighbors == Spec => []FileCoversCache
<1>1. Inv => FileCoversCache
  BY DEF Inv
<1> QED BY <1>1, Invariance, PTL

-----------------------------------------------------------------------------
(* What a step may never do.                                               *)

\* What a run of port p, on frame f if it takes one, does to the caches.
CacheStep(p, f) ==
  /\ \A q \in Ports \ {p} : cache'[q] = cache[q] /\ rxState'[q] = rxState[q]
  /\ \/ cache'[p] \in {cache[p], Aged(cache[p])} /\ rxState'[p] # "DELETE_INFO"
     \/ cache'[p] = Aged(Live(cache[p]))
     \/ /\ f \in Frame /\ TTLOf(p, f) \in TTLs /\ ~Expired(cache[p])
        /\ cache'[p] = Aged(Served(p, f)) /\ rxState'[p] # "DELETE_INFO"

\* A run changes the cache of its own port only, in one of these ways.
LEMMA RunCacheStep ==
  ASSUME Inv, NEW p \in Ports, NEW rcv \in BOOLEAN, NEW f \in Frame \cup {NoFrame},
         rcv => f \in Frames, Run(p, rcv, f)
  PROVE  CacheStep(p, f)
<1>1. TypeOK /\ AgeFlagExact
  BY DEF Inv
<1>2. ASSUME NEW s \in RxStates, Enter(p, s, rcv, f)
      PROVE  /\ rxState'[p] = s /\ \A q \in Ports \ {p} : rxState'[q] = rxState[q]
             /\ NextState(p, rcv) = s
  BY <1>1, <1>2 DEF Enter, TypeOK
<1>3. ASSUME NEW c, NEW age, UpdateTimers(p, c, age)
      PROVE  cache'[p] = Aged(c) /\ \A q \in Ports \ {p} : cache'[q] = cache[q]
  BY <1>1, <1>3 DEF UpdateTimers, TypeOK
<1>4. CASE Initialize(p, rcv, f)
  BY <1>2, <1>3, <1>4 DEF Initialize, CacheStep, RxStates
<1>5. CASE WaitForFrame(p, rcv, f)
  BY <1>2, <1>3, <1>5 DEF WaitForFrame, CacheStep, RxStates
<1>6. CASE DeleteInfo(p, rcv, f)
  BY <1>2, <1>3, <1>6 DEF DeleteInfo, CacheStep, RxStates
<1>7. CASE UpdateInfo(p, rcv, f)
  BY <1>2, <1>3, <1>7 DEF UpdateInfo, CacheStep, RxStates
<1>8. ASSUME Enter(p, "RX_FRAME", rcv, f)
      PROVE  /\ rxState'[p] # "DELETE_INFO"
             /\ \A q \in Ports \ {p} : rxState'[q] = rxState[q]
             /\ ~Expired(cache[p]) /\ f \in Frame
  <2>1. "RX_FRAME" \in RxStates
    BY DEF RxStates
  <2>2. rcv /\ ~rxInfoAge[p]
    BY <1>1, <1>2, <1>8, <2>1, FrameTaken
  <2> QED BY <1>1, <1>2, <1>8, <2>1, <2>2, FrameAssumption DEF AgeFlagExact
<1>9. CASE ProcessOther(p, rcv, f)
  BY <1>3, <1>8, <1>9 DEF ProcessOther, CacheStep
<1>10. CASE ScanForever(p, rcv, f)
  BY <1>8, <1>10 DEF ScanForever, CacheStep
<1>11. CASE ProcessPeer(p, rcv, f)
  <2>1. /\ Enter(p, "RX_FRAME", rcv, f) /\ Process(p, f)
        /\ UpdateTimers(p, Served(p, f), rxInfoAge[p])
    BY <1>11 DEF ProcessPeer, Served, Grants, Stored
  <2>2. f \in Frame /\ TTLOf(p, f) \in TTLs
    BY <1>1, <1>8, <2>1, ProcessFact
  <2> QED BY <1>3, <1>8, <2>1, <2>2 DEF CacheStep
<1> QED BY <1>4, <1>5, <1>6, <1>7, <1>9, <1>10, <1>11 DEF Run

\* So does every step of the specification.
LEMMA StepCacheStep ==
  ASSUME Inv, Next
  PROVE  \E p \in Ports, f \in Frame \cup {NoFrame} : CacheStep(p, f)
<1>1. TypeOK /\ Waiting
  BY InvParts
<1>2. PICK p \in Ports, rcv \in BOOLEAN, f \in Frame \cup {NoFrame} :
        (rcv => f \in Frames) /\ Run(p, rcv, f)
  BY <1>1, StepIsRun
<1> QED BY <1>2, RunCacheStep

\* An entry of the served cache that was listed before kept its address if it
\* had one, and every listed neighbour is still there.
LEMMA ServedKeeps ==
  ASSUME TypeOK, NEW p \in Ports, NEW f \in Frame, TTLOf(p, f) \in TTLs,
         Unique(cache[p])
  PROVE  /\ \A e \in cache[p] : Known(Served(p, f), e.id)
         /\ \A e \in cache[p], d \in Served(p, f) :
              e.allocated /\ d.id = e.id => d.allocated /\ d.ip = e.ip
<1>1. cache[p] \in SUBSET Entry /\ ips \in Octets /\ f.id \in Ids
  BY DEF TypeOK, Frame
<1>2. /\ Stored(p, f) \in SUBSET Entry
      /\ \A e \in Stored(p, f) : e.id = f.id =>
           \/ \E d \in cache[p] : d.id = f.id /\ e.allocated = d.allocated
           \/ ~Known(cache[p], f.id)
      /\ \A e \in cache[p] : e.id # f.id => e \in Stored(p, f)
      /\ Known(Stored(p, f), f.id)
  BY <1>1, UpdatedFact DEF Stored
<1>3. ASSUME NEW e \in cache[p]
      PROVE  Known(Served(p, f), e.id)
  <2>1. Known(Stored(p, f), e.id)
    BY <1>2 DEF Known
  <2>2. CASE Grants(p, f)
    <3>1. Served(p, f) = Granted(Stored(p, f), f.id, ips)
      BY <2>2 DEF Served
    <3>2. Known(Granted(Stored(p, f), f.id, ips), e.id)
      BY <1>1, <1>2, <2>1, GrantedFact
    <3> QED BY <3>1, <3>2
  <2>3. CASE ~Grants(p, f)
    BY <2>1, <2>3 DEF Served
  <2> QED BY <2>2, <2>3
<1>4. ASSUME NEW e \in cache[p], NEW d \in Served(p, f), e.allocated, d.id = e.id
      PROVE  d.allocated /\ d.ip = e.ip
  <2>1. ~(Grants(p, f) /\ e.id = f.id)
    BY <1>2, <1>4 DEF Grants, Unallocated, Unique, Known
  <2> QED BY <1>4, <2>1, ServedFact DEF Unique, Known
<1> QED BY <1>3, <1>4

\* Information that has aged out is never brought back to life.
THEOREM ExpiredStaysExpired == Spec => ExpiredNeverRevived
<1> DEFINE Stays == \A p \in Ports : \A e \in cache[p], d \in cache'[p] :
                      e.ttl = 0 /\ d.id = e.id => d.ttl = 0
<1>1. Inv /\ [Next]_vars => [Stays]_vars
  <2> SUFFICES ASSUME Inv, Next PROVE Stays
    OBVIOUS
  <2>1. TypeOK /\ UniqueMsap
    BY DEF Inv
  <2>2. PICK q \in Ports, f \in Frame \cup {NoFrame} : CacheStep(q, f)
    BY StepCacheStep
  <2> SUFFICES ASSUME NEW p \in Ports, NEW e \in cache[p], NEW d \in cache'[p],
                      e.ttl = 0, d.id = e.id
               PROVE  d.ttl = 0
    OBVIOUS
  <2>3. cache[p] \in SUBSET Entry /\ Unique(cache[p])
    BY <2>1 DEF TypeOK, UniqueMsap
  <2>4. Expired(cache[p])
    BY DEF Expired
  <2>5. CASE cache'[p] = cache[p]
    BY <2>3, <2>5 DEF Unique
  <2>6. CASE cache'[p] = Aged(cache[p])
    <3>1. PICK g \in cache[p] : d.id = g.id /\ d.ttl = IF g.ttl > 0 THEN g.ttl - 1 ELSE g.ttl
      BY <2>3, <2>6, AgedFact
    <3>2. g = e
      BY <2>3, <3>1 DEF Unique
    <3> QED BY <3>1, <3>2
  <2>7. CASE cache'[p] = Aged(Live(cache[p]))
    <3>1. PICK g \in Live(cache[p]) : d.id = g.id
      BY <2>3, <2>7, LiveFact, AgedFact
    <3>2. g \in cache[p] /\ g.ttl > 0
      BY DEF Live
    <3>3. g = e
      BY <2>3, <3>1, <3>2 DEF Unique
    <3> QED BY <3>2, <3>3
  <2> QED BY <2>2, <2>4, <2>5, <2>6, <2>7 DEF CacheStep
<1> QED BY <1>1, Invariance, PTL DEF Spec, ExpiredNeverRevived

\* A neighbour leaves the list only when its time is over, and then at once.
THEOREM DeletedIsExpired == Spec => OnlyExpiredDeleted
<1> DEFINE Strikes ==
             \A p \in Ports : \A e \in cache[p] :
               /\ e.ttl > 0 => Known(cache'[p], e.id)
               /\ rxState'[p] = "DELETE_INFO" /\ rxState[p] # "DELETE_INFO" /\ e.ttl = 0
                    => ~Known(cache'[p], e.id)
<1>1. Inv /\ [Next]_vars => [Strikes]_vars
  <2> SUFFICES ASSUME Inv, Next PROVE Strikes
    OBVIOUS
  <2>1. TypeOK /\ UniqueMsap
    BY DEF Inv
  <2>2. PICK q \in Ports, f \in Frame \cup {NoFrame} : CacheStep(q, f)
    BY StepCacheStep
  <2> SUFFICES ASSUME NEW p \in Ports, NEW e \in cache[p]
               PROVE  /\ e.ttl > 0 => Known(cache'[p], e.id)
                      /\ rxState'[p] = "DELETE_INFO" /\ rxState[p] # "DELETE_INFO"
                           /\ e.ttl = 0 => ~Known(cache'[p], e.id)
    OBVIOUS
  <2>3. cache[p] \in SUBSET Entry /\ Unique(cache[p])
    BY <2>1 DEF TypeOK, UniqueMsap
  <2>4. ASSUME NEW c \in SUBSET Entry, NEW k
        PROVE  Known(c, k) <=> Known(Aged(c), k)
    BY <2>4, AgedFact DEF Known
  <2>5. CASE /\ cache'[p] \in {cache[p], Aged(cache[p])}
             /\ rxState'[p] # "DELETE_INFO" \/ rxState'[p] = rxState[p]
    BY <2>3, <2>4, <2>5 DEF Known
  <2>6. CASE cache'[p] = Aged(Live(cache[p]))
    <3>1. Live(cache[p]) \in SUBSET Entry
      BY <2>3, LiveFact
    <3>2. e.ttl > 0 => Known(Live(cache[p]), e.id)
      BY <2>3, LiveFact DEF Known
    <3>3. e.ttl = 0 => ~Known(Live(cache[p]), e.id)
      BY <2>3 DEF Known, Live, Unique
    <3> QED BY <2>4, <2>6, <3>1, <3>2, <3>3
  <2>7. CASE /\ q = p /\ f \in Frame /\ TTLOf(p, f) \in TTLs
             /\ cache'[p] = Aged(Served(p, f)) /\ rxState'[p] # "DELETE_INFO"
    <3>1. Known(Served(p, f), e.id) /\ Served(p, f) \in SUBSET Entry
      BY <2>1, <2>3, <2>7, ServedKeeps, ServedFact
    <3> QED BY <2>4, <2>7, <3>1
  <2> QED BY <2>2, <2>5, <2>6, <2>7 DEF CacheStep
<1> QED BY <1>1, Invariance, PTL DEF Spec, OnlyExpiredDeleted

\* A listed neighbour keeps the address it was given.
THEOREM AddressKept == Spec => AddressStable
<1> DEFINE Keeps ==
             \A p \in Ports : \A e \in cache[p], d \in cache'[p] :
               e.allocated /\ d.id = e.id => d.allocated /\ d.ip = e.ip
<1>1. Inv /\ [Next]_vars => [Keeps]_vars
  <2> SUFFICES ASSUME Inv, Next PROVE Keeps
    OBVIOUS
  <2>1. TypeOK /\ UniqueMsap
    BY DEF Inv
  <2>2. PICK q \in Ports, f \in Frame \cup {NoFrame} : CacheStep(q, f)
    BY StepCacheStep
  <2> SUFFICES ASSUME NEW p \in Ports, NEW e \in cache[p], NEW d \in cache'[p],
                      e.allocated, d.id = e.id
               PROVE  d.allocated /\ d.ip = e.ip
    OBVIOUS
  <2>3. cache[p] \in SUBSET Entry /\ Unique(cache[p])
    BY <2>1 DEF TypeOK, UniqueMsap
  <2>4. ASSUME NEW c \in SUBSET Entry, d \in Aged(c)
        PROVE  \E g \in c : d.id = g.id /\ d.allocated = g.allocated /\ d.ip = g.ip
    BY <2>4, AgedFact
  <2>5. CASE cache'[p] \in {cache[p], Aged(cache[p]), Aged(Live(cache[p]))}
    <3>1. PICK g \in cache[p] : d.id = g.id /\ d.allocated = g.allocated /\ d.ip = g.ip
      BY <2>3, <2>4, <2>5, LiveFact
    <3>2. g = e
      BY <2>3, <3>1 DEF Unique
    <3> QED BY <3>1, <3>2
  <2>6. CASE /\ f \in Frame /\ TTLOf(p, f) \in TTLs
             /\ cache'[p] = Aged(Served(p, f))
    <3>1. PICK g \in Served(p, f) :
            d.id = g.id /\ d.allocated = g.allocated /\ d.ip = g.ip
      BY <2>1, <2>4, <2>6, ServedFact
    <3>2. g.allocated /\ g.ip = e.ip
      BY <2>1, <2>3, <2>6, <3>1, ServedKeeps
    <3> QED BY <3>1, <3>2
  <2> QED BY <2>2, <2>5, <2>6 DEF CacheStep
<1> QED BY <1>1, Invariance, PTL DEF Spec, AddressStable

\* rxChangeToState never reports a transition.
THEOREM TransitionsLegal == Spec => NoIllegalTransition
<1> DEFINE Legal == \A p \in Ports : rxState'[p] # rxState[p] =>
                                        rxState[p] \in LegalFrom(rxState'[p])
<1>1. Inv /\ [Next]_vars => [Legal]_vars
  <2> SUFFICES ASSUME Inv, Next PROVE Legal
    OBVIOUS
  <2>1. TypeOK /\ Waiting
    BY InvParts
  <2>2. PICK p \in Ports, rcv \in BOOLEAN, f \in Frame \cup {NoFrame} :
          (rcv => f \in Frames) /\ Run(p, rcv, f)
    BY <2>1, StepIsRun
  <2>3. PICK s \in RxStates : Enter(p, s, rcv, f)
    BY <2>2 DEF Run, Initialize, WaitForFrame, DeleteInfo, UpdateInfo,
                ProcessOther, ProcessPeer, ScanForever, RxStates
  <2>4. /\ rxState'[p] = s /\ \A q \in Ports \ {p} : rxState'[q] = rxState[q]
        /\ NextState(p, rcv) = s
    BY <2>1, <2>3 DEF Enter, TypeOK
  <2>5. rxState[p] \in RxStates
    BY <2>1 DEF TypeOK
  <2>6. NextState(p, rcv) # rxState[p] => rxState[p] \in LegalFrom(NextState(p, rcv))
    BY <2>5 DEF NextState, FromWaiting, FromFrame, LegalFrom, RxStates, portEnabled, adminStatus
  <2> QED BY <2>4, <2>6
<1> QED BY <1>1, Invariance, PTL DEF Spec, NoIllegalTransition

-----------------------------------------------------------------------------
(* The neighbour tables.                                                   *)

\* The timers of an aged cache are the timers of the cache, a round later.
LEMMA TimersAged ==
  ASSUME NEW c \in SUBSET Entry
  PROVE  Timers(Aged(c)) = Table!Later(Timers(c))
<1>1. \A d \in c : d.ttl \in Nat
  BY MaxTTLAssumption DEF Entry, TTLs
<1>2. ASSUME NEW n \in Timers(Aged(c))
      PROVE  n \in Table!Later(Timers(c))
  <2>1. PICK e \in Aged(c) : n = [id |-> e.id, ttl |-> e.ttl]
    BY DEF Timers
  <2>2. PICK d \in c : e.id = d.id /\ e.ttl = IF d.ttl > 0 THEN d.ttl - 1 ELSE d.ttl
    BY AgedFact
  <2>3. n = [id |-> d.id, ttl |-> IF d.ttl > 0 THEN d.ttl - 1 ELSE 0]
    BY <1>1, <2>1, <2>2
  <2>4. [id |-> d.id, ttl |-> d.ttl] \in Timers(c)
    BY DEF Timers
  <2> QED BY <2>3, <2>4 DEF Table!Later
<1>3. ASSUME NEW n \in Table!Later(Timers(c))
      PROVE  n \in Timers(Aged(c))
  <2>1. PICK m \in Timers(c) : n = [m EXCEPT !.ttl = IF @ > 0 THEN @ - 1 ELSE 0]
    BY DEF Table!Later
  <2>2. PICK d \in c : m = [id |-> d.id, ttl |-> d.ttl]
    BY DEF Timers
  <2>3. n = [id |-> d.id, ttl |-> IF d.ttl > 0 THEN d.ttl - 1 ELSE d.ttl]
    BY <1>1, <2>1, <2>2
  <2>4. PICK e \in Aged(c) :
          e.id = d.id /\ e.ttl = IF d.ttl > 0 THEN d.ttl - 1 ELSE d.ttl
    BY AgedFact
  <2> QED BY <2>3, <2>4 DEF Timers
<1> QED BY <1>2, <1>3

\* The timers left by a purge are those that have not run out.
LEMMA TimersLive ==
  ASSUME NEW c \in SUBSET Entry
  PROVE  Timers(Live(c)) = Timers(c) \ Table!Dead(Timers(c))
<1>1. \A d \in c : d.ttl \in Nat
  BY MaxTTLAssumption DEF Entry, TTLs
<1> QED BY <1>1 DEF Timers, Live, Table!Dead

\* A frame of a peer writes its sender's timer and no other.
LEMMA TimersServed ==
  ASSUME TypeOK, NEW p \in Ports, NEW f \in Frame, TTLOf(p, f) \in TTLs
  PROVE  Timers(Served(p, f)) =
           {n \in Timers(cache[p]) : n.id # f.id}
             \cup {[id |-> f.id, ttl |-> TTLOf(p, f)]}
<1> DEFINE t == TTLOf(p, f)
           heard == {n \in Timers(cache[p]) : n.id # f.id} \cup {[id |-> f.id, ttl |-> t]}
<1>1. cache[p] \in SUBSET Entry /\ ips \in Octets /\ f.id \in Ids
  BY DEF TypeOK, Frame
<1>2. Stored(p, f) \in SUBSET Entry
  BY <1>1, UpdatedFact DEF Stored
<1>3. Timers(Stored(p, f)) = heard
  <2>1. \A e \in Stored(p, f) : e.id # f.id => e \in cache[p]
    <3>1. NewEntry(f, TTLOf(p, f)).id = f.id
      BY DEF NewEntry
    <3>2. \A e \in Stored(p, f) :
             \/ e \in cache[p] /\ e.id # f.id
             \/ e.id = f.id
             \/ e = NewEntry(f, TTLOf(p, f))
      BY <1>1, UpdatedFact DEF Stored
    <3> QED BY <3>1, <3>2
  <2>2. \A e \in Stored(p, f) : e.id = f.id => e.ttl = t
    <3>1. NewEntry(f, TTLOf(p, f)).ttl = t
      BY DEF NewEntry
    <3> QED BY <1>1, <3>1, UpdatedFact DEF Stored
  <2>3. \A e \in cache[p] : e.id # f.id => e \in Stored(p, f)
    BY <1>1, UpdatedFact DEF Stored
  <2>4. \E e \in Stored(p, f) : e.id = f.id
    BY <1>1, UpdatedFact DEF Stored, Known
  <2> HIDE DEF t
  <2>5. Timers(Stored(p, f)) \subseteq heard
    BY <2>1, <2>2 DEF Timers
  <2>6. heard \subseteq Timers(Stored(p, f))
    BY <2>2, <2>3, <2>4 DEF Timers
  <2> QED BY <2>5, <2>6
<1>4. Timers(Served(p, f)) = Timers(Stored(p, f))
  <2>1. Timers(Granted(Stored(p, f), f.id, ips)) = Timers(Stored(p, f))
    BY <1>1, <1>2, GrantedTimers
  <2> QED BY <2>1 DEF Served
<1> QED BY <1>3, <1>4

\* The safety part of ImplementsTable: every run of a port is a round of the
\* abstract tables, or leaves them alone.
THEOREM ImplementsTableSafely ==
  Spec => Table!Init /\ [][Table!Next]_neighborTable
<1>1. Init => Table!Init
  BY DEF Init, Table!Init, neighborTable, Timers
<1>2. Inv /\ [Next]_vars => [Table!Next]_neighborTable
  <2>1. CASE UNCHANGED vars
    BY <2>1 DEF vars, portVars, neighborTable
  <2>2. ASSUME Inv, Next PROVE [Table!Next]_neighborTable
    <3>1. TypeOK
      BY <2>2 DEF Inv
    <3>2. PICK p \in Ports, f \in Frame \cup {NoFrame} : CacheStep(p, f)
      BY <2>2, StepCacheStep
    <3>3. cache[p] \in SUBSET Entry
      BY <3>1 DEF TypeOK
    <3>4. ASSUME NEW t, Timers(cache'[p]) = t
          PROVE  neighborTable' = [neighborTable EXCEPT ![p] = t]
      BY <3>2, <3>4 DEF CacheStep, neighborTable
    <3>5. neighborTable[p] = Timers(cache[p])
      BY DEF neighborTable
    <3>6. CASE cache'[p] = cache[p]
      BY <3>2, <3>6 DEF CacheStep, neighborTable
    <3>7. CASE cache'[p] = Aged(cache[p])
      BY <3>3, <3>4, <3>5, <3>7, TimersAged DEF Table!Next, Table!Age
    <3>8. CASE cache'[p] = Aged(Live(cache[p]))
      <4>1. Live(cache[p]) \in SUBSET Entry
        BY <3>3, LiveFact
      <4>2. Timers(cache'[p]) =
              Table!Later(Timers(cache[p]) \ Table!Dead(Timers(cache[p])))
        BY <3>3, <3>8, <4>1, TimersAged, TimersLive
      <4>3. CASE Table!Dead(Timers(cache[p])) = {}
        <5>1. Timers(cache'[p]) = Table!Later(Timers(cache[p]))
          BY <4>2, <4>3
        <5> QED BY <3>4, <3>5, <5>1 DEF Table!Next, Table!Age
      <4>4. CASE Table!Dead(Timers(cache[p])) # {}
        BY <3>4, <3>5, <4>2, <4>4 DEF Table!Next, Table!Purge
      <4> QED BY <4>3, <4>4
    <3>9. CASE /\ f \in Frame /\ TTLOf(p, f) \in TTLs /\ ~Expired(cache[p])
               /\ cache'[p] = Aged(Served(p, f))
      <4> DEFINE heard == {n \in Timers(cache[p]) : n.id # f.id}
                            \cup {[id |-> f.id, ttl |-> TTLOf(p, f)]}
      <4>1. Served(p, f) \in SUBSET Entry /\ Timers(Served(p, f)) = heard
        BY <3>1, <3>9, ServedFact, TimersServed
      <4>2. Timers(cache'[p]) = Table!Later(heard)
        BY <3>9, <4>1, TimersAged
      <4>3. Table!Dead(neighborTable[p]) = {}
        BY <3>5, <3>9 DEF Table!Dead, Timers, Expired
      <4>4. f.id \in Ids /\ TTLOf(p, f) \in 0 .. MaxTTL
        BY <3>9 DEF Frame, TTLs
      <4>5. neighborTable' = [neighborTable EXCEPT ![p] = Table!Later(heard)]
        BY <3>4, <4>2
      <4> QED BY <3>5, <4>3, <4>4, <4>5 DEF Table!Next, Table!Hear
    <3> QED BY <3>2, <3>6, <3>7, <3>8, <3>9 DEF CacheStep
  <2> QED BY <2>1, <2>2
<1> QED BY <1>1, <1>2, Invariance, PTL DEF Spec

=============================================================================

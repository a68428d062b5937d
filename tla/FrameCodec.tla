------------------------------ MODULE FrameCodec ------------------------------
(***************************************************************************)
(* A frame from the sender's TLVs to what the receiver makes of it: the    *)
(* TLVs mibConstrInfoLLDPDU and config_ip_for_slave put in a row, the loop  *)
(* that flattens them into the frame, and the loop of rxProcessFrame that  *)
(* takes them apart, one turn a step.  LldpRx knows a frame by its kind    *)
(* and processes it in one step; ParseMatches says that the bytes on the   *)
(* wire mean the same.  rxProcessFrame trusts no sender, so some frames    *)
(* here are odd: identifiers missing, doubled or out of order, no end, a   *)
(* last TLV that is longer than the frame.                                 *)
(***************************************************************************)
EXTENDS LldpFrames, Sequences, FiniteSets

CONSTANTS
  TextLengths,      \* lengths of a system name and description
  MaxModules,       \* wifi modules a device has at most
  ModulesKept,      \* DEVICE_WIFI_MODULES_NUM
  OddTypes,         \* types of the TLVs in an odd frame
  MaxOdd,           \* TLVs in an odd frame at most
  None              \* a NULL pointer, or an address nothing was written to

\* A length fits in nine bits (lldp_systemname and lldp_systemdesc are arrays of
\* 512), and a frame in an Ethernet frame of 1500 octets: a module takes 13.
\* tlv_offset has 16 bits, which 127 TLVs of any length cannot exceed.
ASSUME CodecAssumption ==
  /\ TextLengths \subseteq {n \in Nat : n <= 511}
  /\ MaxModules \in Nat /\ MaxModules <= 115
  /\ ModulesKept \in Nat \ {0} /\ MaxTTL \in Nat
  /\ OddTypes \subseteq {n \in Nat : n <= 127}
  /\ MaxOdd \in Nat /\ MaxOdd <= 127

\* The special values are no others.
ASSUME ValueAssumption ==
  /\ BadTTL \notin TTLs /\ OwnAddr \notin Octets
  /\ None \notin Ids \cup (Ids \X Ids)
  /\ None \notin [id : Ids \X Ids, ttl : TTLs, allocated : BOOLEAN, ip : Addrs \cup {None},
                  wifi : BOOLEAN]

VARIABLES
  sent,      \* what the sender knows: the frame, text length, wifi modules
  devRole,   \* the role of the receiver
  known,     \* the receiver already lists the sender
  frame,     \* tx.frame and rx.frame: the flat TLVs
  frame_offset, \* where the sender writes the next one
  recvsize,  \* tx.sendsize and rx.recvsize
  turn,      \* "build", "loop", "parsed" when the loop is left, "done", "crashed"
  offset,    \* tlv_offset
  chassis,   \* msap_tlv1
  msapId,    \* msap_id
  role,      \* role, the sender's as far as it is known
  ip,        \* ipaddr
  wifimods,  \* wifimods
  haveDc,    \* have_dc_msap
  rxTTL,     \* rx.timers.rxTTL
  alias,     \* address put on br0:1
  held,      \* blocks allocated and not freed
  entry      \* the entry handed to update_msap_cache

locals == <<chassis, msapId, role, ip, wifimods, haveDc, rxTTL, alias>>
given  == <<sent, frame, frame_offset, recvsize, devRole, known>>
vars   == <<given, turn, offset, locals, held, entry>>

-----------------------------------------------------------------------------
(* The sender.                                                             *)

END_OF_LLDPDU_TLV       == 0
CHASSIS_ID_TLV          == 1
PORT_ID_TLV             == 2
TIME_TO_LIVE_TLV        == 3
PORT_DESCRIPTION_TLV    == 4
SYSTEM_NAME_TLV         == 5
SYSTEM_DESCRIPTION_TLV  == 6
SYSTEM_CAPABILITIES_TLV == 7
MANAGEMENT_ADDRESS_TLV  == 8
ORG_SPECIFIC_TLV        == 127

EthHeader == 14
IfName    == 4      \* strlen of an interface name, "eth0"

Tlv(type, length, value) == [type |-> type, length |-> length, value |-> value]

\* An organizationally specific TLV: the OUI, a subtype and size octets.
Vendor(oui, subtype, size, data) ==
  Tlv(ORG_SPECIFIC_TLV, 3 + 1 + size, [oui |-> oui, subtype |-> subtype, data |-> data])

Own(subtype, size, data) == Vendor("dunchong", subtype, size, data)

\* The three TLVs every frame starts with.  Another agent's time to live may
\* have the wrong length.
Mandatory(f) ==
  << Tlv(CHASSIS_ID_TLV, 1 + 6, f.id),
     Tlv(PORT_ID_TLV, 1 + IfName, f.id),
     Tlv(TIME_TO_LIVE_TLV, IF f.ttl = BadTTL THEN 1 ELSE 2, f.ttl) >>

Optional(text) ==
  << Tlv(PORT_DESCRIPTION_TLV, IfName, "port"),
     Tlv(SYSTEM_NAME_TLV, text, "name"),
     Tlv(SYSTEM_DESCRIPTION_TLV, text, "description"),
     Tlv(SYSTEM_CAPABILITIES_TLV, 4, "capabilities"),
     Tlv(MANAGEMENT_ADDRESS_TLV, 12, "address") >>

Identity(f) ==
  << Own("VENDOR", 8, "dunchong"), Own("IPADDR", 4, f.ip),
     Own("ROLE", 1, IF f.kind = "slave" THEN "SLAVE" ELSE "MASTER") >>

\* A module's mode, 0 when it is not in operation; its address is left out.
Mode(f, i) == IF f.wifi THEN i ELSE 0

Modules(f, n) == [i \in 1 .. n |-> Own("WIFI", 7, Mode(f, i))]

End == << Tlv(END_OF_LLDPDU_TLV, 0, None) >>

\* A TLV of an odd frame: one the parser reads, or of any other type.
OddTlv(s, type) ==
  CASE type = END_OF_LLDPDU_TLV -> End[1]
    [] type \in {CHASSIS_ID_TLV, PORT_ID_TLV, TIME_TO_LIVE_TLV} -> Mandatory(s.frame)[type]
    [] type = ORG_SPECIFIC_TLV -> Identity(s.frame)[3]
    [] OTHER -> Tlv(type, s.text, "any")

\* mibConstrInfoLLDPDU, config_ip_for_slave, the agents of other vendors, and
\* an odd frame, which no daemon and no such agent sends.
Tlvs(s) ==
  LET f == s.frame IN
  IF s.odd # <<>> THEN [i \in DOMAIN s.odd |-> OddTlv(s, s.odd[i])] ELSE
  CASE f.kind \in {"master", "slave"} ->
         Mandatory(f) \o Optional(s.text) \o Identity(f) \o Modules(f, s.wifi) \o End
    [] f.kind = "setip" ->
         Mandatory(f) \o Modules(f, s.wifi) \o << Own("SET_IP", 4, f.ip) >> \o End
    [] f.kind = "plain" -> Mandatory(f) \o Optional(s.text) \o End
    [] f.kind = "othervendor" ->
         Mandatory(f) \o << Vendor("other", "any", 5, "any") >> \o End

\* Mutant of TypeAndLength: the length is kept in an octet.
TypeAndLengthOctet(t) == (t.type * 512 + (t.length % 256)) % 65536

\* flatten_tlv: seven bits of type, or'ed with nine of length; texts are shorter.
TypeAndLength(t) == (t.type * 512 + t.length) % 65536

\* A TLV in the frame: where it starts, its header and its value.
Flattened(t, start) == [at |-> start, header |-> TypeAndLength(t), value |-> t.value]

SendSize(n) == IF n < 64 THEN 64 ELSE n

\* The types nobody reads.
UnreadTypes == PORT_DESCRIPTION_TLV .. ORG_SPECIFIC_TLV - 1

OddLists == UNION {[1 .. n -> OddTypes] : n \in 1 .. MaxOdd}

\* What a sender may have to say.  Only the frame that sets an address has
\* another address than the sender's own, and only a daemon names modules.
ProperSenders ==
  {s \in [frame : Frame, text : TextLengths, wifi : 0 .. MaxModules,
           odd : {<<>>}, cut : {FALSE}] :
     /\ s.frame.kind = "setip" <=> s.frame.ip # OwnAddr
     /\ s.frame.wifi => s.wifi > 0 /\ s.frame.kind \notin {"plain", "othervendor"}}

\* Any TLVs in any order, the last of them cut off behind its header if nobody
\* reads its value.
OddSenders ==
  {s \in [frame : Frame, text : TextLengths, wifi : {0}, odd : OddLists, cut : BOOLEAN] :
     /\ s.frame.kind \in {"master", "slave"} /\ s.frame.ip = OwnAddr /\ ~s.frame.wifi
     /\ s.cut => s.odd[Len(s.odd)] \in UnreadTypes}

Senders == ProperSenders \cup OddSenders

-----------------------------------------------------------------------------
(* The receiver.                                                           *)

MaxOffset == 65535   \* tlv_offset is an uint16_t

\* The wifi modules an entry has room for.
WifiModules == UNION {[1 .. n -> 0 .. MaxModules] : n \in 0 .. ModulesKept}

TypeOK ==
  /\ sent \in Senders /\ known \in BOOLEAN
  /\ devRole \in {"MASTER", "SLAVE"} /\ role \in {"MASTER", "SLAVE"}
  /\ turn \in {"build", "loop", "parsed", "done", "crashed"}
  /\ offset \in 0 .. MaxOffset
  /\ chassis \in Ids \cup {None} /\ msapId \in (Ids \X Ids) \cup {None}
  /\ ip \in Addrs \cup {None} /\ alias \in Addrs
  /\ wifimods \in WifiModules
  /\ haveDc \in BOOLEAN
  /\ rxTTL \in TTLs /\ held \in Nat

Init ==
  /\ sent \in Senders
  /\ frame = <<>> /\ frame_offset = EthHeader /\ recvsize = 0
  /\ devRole \in {"MASTER", "SLAVE"}
  /\ known \in BOOLEAN
  /\ turn = "build" /\ offset = 0
  /\ chassis = None /\ msapId = None
  /\ role = "MASTER" /\ ip = None
  /\ wifimods = <<>> /\ haveDc = FALSE
  /\ rxTTL = 0 /\ alias = OwnAddr
  /\ held = 0 /\ entry = None

\* The next TLV of the sender's list is flattened and copied into its frame.
AddTlv ==
  /\ turn = "build" /\ Len(frame) < Len(Tlvs(sent))
  /\ LET next == Tlvs(sent)[Len(frame) + 1] IN
       /\ frame' = Append(frame, Flattened(next, frame_offset))
       /\ frame_offset' = frame_offset + 2 + next.length
  /\ UNCHANGED <<sent, devRole, known, recvsize, turn, offset, locals, held, entry>>

\* How much of the frame is not there.
Missing == IF sent.cut THEN Tlvs(sent)[Len(frame)].length ELSE 0

\* The list is done: the frame is sent, padded, and received.
SendFrame ==
  /\ turn = "build" /\ Len(frame) = Len(Tlvs(sent))
  /\ recvsize' = SendSize(frame_offset - Missing)
  /\ turn' = "loop"
  /\ UNCHANGED <<sent, devRole, known, frame, frame_offset, offset, locals, held, entry>>

\* The TLV whose header the parser finds at its offset, and how it reads it.
Here   == {i \in DOMAIN frame : frame[i].at = EthHeader + offset}
tlv    == frame[CHOOSE i \in Here : TRUE]
Type   == tlv.header \div 512
Length == tlv.header % 512

Turn(type) == turn = "loop" /\ offset <= recvsize /\ Here # {} /\ Type = type

\* The TLV of this turn is destroyed, and the parser goes on behind it.
Advance == offset' = offset + 2 + Length /\ UNCHANGED <<given, turn, entry>>

\* initialize_tlv and tlvcpy make two blocks of a TLV, destroy_tlv frees them.
Copy == 2

ChassisId ==
  /\ Turn(CHASSIS_ID_TLV)
  /\ chassis' = tlv.value
  /\ held' = held + Copy
  /\ Advance
  /\ UNCHANGED <<msapId, role, ip, wifimods, haveDc, rxTTL, alias>>

\* The identifiers are put together, and their copies are destroyed.
PortId ==
  /\ Turn(PORT_ID_TLV) /\ chassis # None
  /\ msapId' = <<chassis, tlv.value>>
  /\ chassis' = None
  /\ held' = held + Copy + 1 - Copy - Copy
  /\ Advance
  /\ UNCHANGED <<role, ip, wifimods, haveDc, rxTTL, alias>>

\* A port id no chassis id precedes: msap_tlv1 is NULL and is dereferenced.
Crash ==
  /\ Turn(PORT_ID_TLV) /\ chassis = None
  /\ turn' = "crashed"
  /\ UNCHANGED <<given, offset, locals, held, entry>>

TimeToLive ==
  /\ Turn(TIME_TO_LIVE_TLV)
  /\ rxTTL' = IF Length = 2 THEN tlv.value ELSE rxTTL
  /\ Advance
  /\ UNCHANGED <<chassis, msapId, role, ip, wifimods, haveDc, alias, held>>

\* Port description to management address, and the reserved types: copied and
\* destroyed unread.
Unread ==
  /\ \E type \in UnreadTypes : Turn(type)
  /\ Advance
  /\ UNCHANGED <<locals, held>>

\* Mutant of WithModule: there is always room for another one.
WithModuleAlways(mods, m) == Append(mods, m)

WithModule(mods, m) == IF Len(mods) < ModulesKept THEN Append(mods, m) ELSE mods

\* Mutant of Peer: whatever its role, a daemon is a peer.
PeerAny(mine, its) == TRUE

Peer(mine, its) == mine # its

\* Mutant of IsDcOui: the TLV that names the vendor is taken for another's.
IsDcOuiNamed(v) == v.oui = "dunchong" /\ v.subtype # "VENDOR"

IsDcOui(v) == v.oui = "dunchong"

OwnVendor ==
  /\ Turn(ORG_SPECIFIC_TLV) /\ IsDcOui(tlv.value)
  /\ LET v == tlv.value IN
       /\ ip' = IF v.subtype \in {"IPADDR", "SET_IP"} THEN v.data ELSE ip
       /\ alias' = IF v.subtype = "SET_IP" /\ devRole = "SLAVE" THEN v.data ELSE alias
       /\ role' = IF v.subtype = "ROLE" THEN v.data ELSE role
       /\ wifimods' = IF v.subtype = "WIFI" THEN WithModule(wifimods, v.data) ELSE wifimods
  /\ haveDc' = Peer(devRole, role')
  /\ Advance
  /\ UNCHANGED <<chassis, msapId, rxTTL, held>>

\* continue: the TLV is destroyed, the offset stays.
OtherVendor ==
  /\ Turn(ORG_SPECIFIC_TLV) /\ ~IsDcOui(tlv.value)
  /\ UNCHANGED vars

\* The break behind the frame, and the one at its end; behind the last TLV the
\* buffer is clear and reads as an end.
LeaveLoop ==
  /\ turn = "loop"
  /\ offset <= recvsize /\ Here # {} => Type = END_OF_LLDPDU_TLV
  /\ turn' = "parsed"
  /\ UNCHANGED <<given, offset, locals, held, entry>>

\* Mutant of Kept: a hit does not free the entry it brought.
KeptHit == 2

\* update_msap_cache: a miss keeps the entry and its identifier, a hit frees both.
Kept == IF known THEN 0 ELSE 2

\* A pointer that is still set is freed, but not the value it points to.
StillAllocated == IF chassis # None THEN 1 ELSE 0

Store ==
  /\ turn = "parsed" /\ msapId # None /\ haveDc
  /\ entry' = [id |-> msapId, ttl |-> rxTTL, allocated |-> FALSE, ip |-> ip,
               wifi |-> \E i \in DOMAIN wifimods : wifimods[i] # 0]
  /\ held' = held + 1 - 2 + Kept - StillAllocated
  /\ turn' = "done"
  /\ UNCHANGED <<given, offset, locals>>

\* Nothing is stored; the identifier is freed if there is one.
Forget ==
  /\ turn = "parsed" /\ (msapId = None \/ ~haveDc)
  /\ held' = IF msapId # None THEN held - 1 ELSE held
  /\ turn' = "done"
  /\ UNCHANGED <<given, offset, locals, entry>>

Next == \/ AddTlv \/ SendFrame
        \/ ChassisId \/ PortId \/ Crash \/ TimeToLive \/ Unread \/ OwnVendor \/ OtherVendor
        \/ LeaveLoop \/ Store \/ Forget

Spec == Init /\ [][Next]_vars /\ WF_vars(Next)

-----------------------------------------------------------------------------
\* Every turn of the loop starts at a header the sender wrote, or right behind
\* the last TLV of a frame that has no end, and inside the frame unless a TLV is
\* cut: the lengths survive their nine bits (tlv_common.c flatten_tlv,
\* rx_sm.c:132).  A frame of a daemon or a sound agent is left at its end TLV.
OnHeader ==
  turn = "loop" =>
    /\ Here # {} \/ EthHeader + offset = frame_offset
    /\ ~sent.cut => EthHeader + offset <= recvsize
    /\ sent.odd = <<>> => Here # {} /\ EthHeader + offset < recvsize

\* What the loop makes of the TLVs is what LldpRx says of the frame of a daemon
\* or a sound agent: who is stored, with which time to live, address and modules,
\* which modules are kept, and which address a slave takes, although a role may be
\* unknown until late and is never told by a frame that sets an address.
ParseMatches ==
  turn = "done" /\ sent.odd = <<>> =>
    LET f   == sent.frame
        ttl == IF f.ttl = BadTTL THEN 0 ELSE f.ttl
        n   == IF sent.wifi < ModulesKept THEN sent.wifi ELSE ModulesKept
    IN  /\ rxTTL = ttl
        /\ alias = IF devRole = "SLAVE" /\ f.kind = "setip" THEN f.ip ELSE OwnAddr
        /\ entry = IF HaveDcMsap(devRole, f)
                     THEN [NewEntry(f, ttl) EXCEPT !.id = <<f.id, f.id>>] ELSE None
        /\ entry # None => wifimods = [i \in 1 .. n |-> Mode(f, i)]

\* The TLVs of a type the parser has got past.
Read(type) ==
  Cardinality({i \in DOMAIN frame : /\ frame[i].at < EthHeader + offset
                                    /\ frame[i].header \div 512 = type})

\* The blocks nobody points to any more.  A second chassis id overwrites the copy
\* of the first, one behind the last port id is never destroyed or only in part,
\* and a second port id overwrites the identifier of the first.
Leaked ==
  LET chassisIds == Read(CHASSIS_ID_TLV)
      portIds    == Read(PORT_ID_TLV)
  IN  Copy * (chassisIds - portIds)
        + (IF portIds > 0 THEN portIds - 1 ELSE 0)
        - (IF entry # None THEN StillAllocated ELSE 0)

\* Every block is accounted for, however the loop is left: a frame that is stored
\* leaves the entry a miss adds, and a frame with one chassis id and one port id
\* behind it nothing else.  Only doubled or missing identifiers leak, and exactly
\* as much as Leaked says (rx_sm.c:180-207 and 357-374; msap.c:312 warns of leaks).
Balanced ==
  /\ turn \in {"build", "loop", "parsed"} =>
       held = Copy * (Read(CHASSIS_ID_TLV) - Read(PORT_ID_TLV)) + Read(PORT_ID_TLV)
  /\ turn = "done" =>
       /\ held = (IF entry # None /\ ~known THEN 2 ELSE 0) + Leaked
       /\ sent.odd = <<>> => Leaked = 0

\* A port id that no chassis id has come before since the last one.
Unnamed(s) ==
  \E j \in DOMAIN s.odd :
    /\ s.odd[j] = PORT_ID_TLV
    /\ \A i \in 1 .. j - 1 :
         /\ s.odd[i] # END_OF_LLDPDU_TLV
         /\ s.odd[i] = CHASSIS_ID_TLV => \E m \in i + 1 .. j - 1 : s.odd[m] = PORT_ID_TLV

\* Every frame is parsed to its end, but for one with a TLV of another vendor, at
\* which the loop stays, and one whose port id comes before its chassis id, which
\* takes the process down (rx_sm.c:192).
ParseEnds ==
  <>(\/ turn = (IF Unnamed(sent) THEN "crashed" ELSE "done")
     \/ sent.frame.kind = "othervendor")

=============================================================================

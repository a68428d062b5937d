--------------------------- MODULE FrameWireProofs ---------------------------
(***************************************************************************)
(* Proofs about FrameCodec that hold of every sender, the odd ones too:    *)
(* the parser is always in front of a TLV or behind the last one, and the  *)
(* blocks it has allocated are those the identifiers it got past account   *)
(* for.                                                                    *)
(***************************************************************************)
EXTENDS FrameCodec, SequenceTheorems, FiniteSetTheorems, TLAPS

-----------------------------------------------------------------------------
(* The TLVs of a frame.                                                    *)

LEMMA SenderFact ==
  ASSUME NEW s \in Senders
  PROVE  /\ s.frame.kind \in Kinds /\ s.frame.id \in Ids
         /\ s.frame.ttl \in TTLs \cup {BadTTL} /\ s.frame.ip \in Addrs
         /\ s.frame.kind # "setip" => s.frame.ip = OwnAddr
         /\ s.frame.kind = "setip" => s.frame.ip \in Octets
         /\ s.text \in Nat /\ s.text <= 511
         /\ s.wifi \in Nat /\ s.wifi <= MaxModules
         /\ s.odd # <<>> => s.odd \in OddLists
         /\ s.odd = <<>> => s \in ProperSenders /\ ~s.cut
<1>0. MaxModules \in Nat
  BY CodecAssumption
<1>1. /\ s.frame \in Frame /\ s.text \in TextLengths
      /\ s.wifi \in Nat /\ s.wifi <= MaxModules
      /\ s.frame.ip # OwnAddr <=> s.frame.kind = "setip"
      /\ s.odd # <<>> => s.odd \in OddLists
      /\ s.odd = <<>> => s \in ProperSenders /\ ~s.cut
  <2>1. CASE s \in ProperSenders
    <3>1. /\ s \in [frame : Frame, text : TextLengths, wifi : 0 .. MaxModules,
                     odd : {<<>>}, cut : {FALSE}]
          /\ s.frame.kind = "setip" <=> s.frame.ip # OwnAddr
      BY <2>1 DEF ProperSenders
    <3>2. /\ s.frame \in Frame /\ s.text \in TextLengths /\ s.wifi \in 0 .. MaxModules
          /\ s.odd = <<>> /\ s.cut = FALSE
      BY <3>1
    <3>3. s.wifi \in Nat /\ s.wifi <= MaxModules
      BY <1>0, <3>2
    <3> QED BY <2>1, <3>1, <3>2, <3>3
  <2>2. CASE s \in OddSenders
    <3>1. /\ s \in [frame : Frame, text : TextLengths, wifi : {0}, odd : OddLists, cut : BOOLEAN]
          /\ s.frame.kind \in {"master", "slave"} /\ s.frame.ip = OwnAddr
      BY <2>2 DEF OddSenders
    <3>2. /\ s.frame \in Frame /\ s.text \in TextLengths /\ s.wifi = 0 /\ s.odd \in OddLists
      BY <3>1
    <3>3. s.odd # <<>>
      <4>1. PICK n \in 1 .. MaxOdd : s.odd \in [1 .. n -> OddTypes]
        BY <3>2 DEF OddLists
      <4>2. 1 \in DOMAIN s.odd
        BY <4>1, CodecAssumption
      <4>3. DOMAIN <<>> = {}
        OBVIOUS
      <4> QED BY <4>2, <4>3
    <3> QED BY <1>0, <3>1, <3>2, <3>3
  <2> QED BY <2>1, <2>2 DEF Senders
<1>2. s.text \in Nat /\ s.text <= 511
  <2>1. s.text \in TextLengths
    BY <1>1
  <2>2. \A n \in TextLengths : n \in Nat /\ n <= 511
    BY CodecAssumption
  <2> QED BY <2>1, <2>2, Zenon
<1>3. /\ s.frame.kind \in Kinds /\ s.frame.id \in Ids
      /\ s.frame.ttl \in TTLs \cup {BadTTL} /\ s.frame.ip \in Addrs
  BY <1>1 DEF Frame
<1>4. s.frame.ip = OwnAddr \/ s.frame.ip \in Octets
  BY <1>3 DEF Addrs
<1> QED BY <1>1, <1>2, <1>3, <1>4

\* A list followed by another, whatever they hold.
Joined(c, a, b) ==
  /\ Len(c) = Len(a) + Len(b)
  /\ \A i \in 1 .. Len(a) : c[i] = a[i]
  /\ \A i \in 1 .. Len(b) : c[Len(a) + i] = b[i]

LEMMA JoinFact ==
  ASSUME NEW S, NEW a \in Seq(S), NEW b \in Seq(S)
  PROVE  a \o b \in Seq(S) /\ Joined(a \o b, a, b)
<1> DEFINE m == Len(a)
           n == Len(b)
<1>0. m \in Nat /\ n \in Nat
  BY LenProperties
<1>1. /\ a \o b \in Seq(S) /\ Len(a \o b) = Len(a) + Len(b)
      /\ \A i \in 1 .. Len(a) + Len(b) :
            (a \o b)[i] = IF i <= Len(a) THEN a[i] ELSE b[i - Len(a)]
  BY ConcatProperties
<1> HIDE DEF m, n
<1>2. \A i \in 1 .. n : m + i \in 1 .. m + n /\ ~(m + i <= m) /\ (m + i) - m = i
  BY <1>0
<1>3. \A i \in 1 .. m : i \in 1 .. m + n /\ i <= m
  BY <1>0
<1> USE DEF m, n
<1> QED BY <1>1, <1>2, <1>3 DEF Joined

\* The parts the lists of TLVs are put together of.
PartsOf(s) ==
  LET f == s.frame IN
    {Mandatory(f)[i] : i \in 1 .. 3} \cup {Optional(s.text)[i] : i \in 1 .. 5}
      \cup {Identity(f)[i] : i \in 1 .. 3} \cup {Modules(f, s.wifi)[i] : i \in 1 .. s.wifi}
      \cup {End[1], Own("SET_IP", 4, f.ip), Vendor("other", "any", 5, "any")}

LEMMA PartsFact ==
  ASSUME NEW s \in Senders
  PROVE  LET f == s.frame  S == PartsOf(s) IN
         /\ Mandatory(f) \in Seq(S) /\ Len(Mandatory(f)) = 3
         /\ Optional(s.text) \in Seq(S) /\ Len(Optional(s.text)) = 5
         /\ Identity(f) \in Seq(S) /\ Len(Identity(f)) = 3
         /\ Modules(f, s.wifi) \in Seq(S) /\ Len(Modules(f, s.wifi)) = s.wifi
         /\ End \in Seq(S) /\ Len(End) = 1
         /\ << Own("SET_IP", 4, f.ip) >> \in Seq(S)
         /\ << Vendor("other", "any", 5, "any") >> \in Seq(S)
<1> DEFINE f == s.frame
           S == PartsOf(s)
<1>1. \A i \in 1 .. 3 : Mandatory(f)[i] \in S
  BY DEF PartsOf
<1>2. \A i \in 1 .. 5 : Optional(s.text)[i] \in S
  BY DEF PartsOf
<1>3. \A i \in 1 .. 3 : Identity(f)[i] \in S
  BY DEF PartsOf
<1>4. \A i \in 1 .. s.wifi : Modules(f, s.wifi)[i] \in S
  BY DEF PartsOf
<1>5. End[1] \in S /\ Own("SET_IP", 4, f.ip) \in S /\ Vendor("other", "any", 5, "any") \in S
  BY DEF PartsOf
<1> HIDE DEF S
<1>6. Mandatory(f) \in Seq(S) /\ Len(Mandatory(f)) = 3
  BY <1>1 DEF Mandatory
<1>7. Optional(s.text) \in Seq(S) /\ Len(Optional(s.text)) = 5
  BY <1>2 DEF Optional
<1>8. Identity(f) \in Seq(S) /\ Len(Identity(f)) = 3
  BY <1>3 DEF Identity
<1>9. Modules(f, s.wifi) \in Seq(S) /\ Len(Modules(f, s.wifi)) = s.wifi
  <2> DEFINE n == s.wifi
             mod == Modules(f, n)
  <2>1. n \in Nat
    BY SenderFact
  <2>2. mod \in [1 .. n -> S]
    <3>1. DOMAIN mod = 1 .. n /\ mod = [i \in 1 .. n |-> mod[i]]
      BY DEF Modules
    <3>2. \A i \in 1 .. n : mod[i] \in S
      BY <1>4
    <3> HIDE DEF mod, n
    <3> QED BY <3>1, <3>2
  <2> HIDE DEF mod, n
  <2>3. mod \in Seq(S) /\ Len(mod) = n
    BY <2>1, <2>2
  <2> QED BY <2>3 DEF mod, n
<1>10. End \in Seq(S) /\ Len(End) = 1
  BY <1>5 DEF End
<1>11. << Own("SET_IP", 4, f.ip) >> \in Seq(S) /\ << Vendor("other", "any", 5, "any") >> \in Seq(S)
  BY <1>5
<1> QED BY <1>6, <1>7, <1>8, <1>9, <1>10, <1>11 DEF S

\* A TLV whose type and length fit in the bits they have, and whose value is
\* what a parser takes it for.
Sound(t) ==
  /\ t.type \in Nat /\ t.type <= 127 /\ t.length \in Nat /\ t.length <= 511
  /\ t.type \in {CHASSIS_ID_TLV, PORT_ID_TLV} => t.value \in Ids
  /\ t.type = TIME_TO_LIVE_TLV /\ t.length = 2 => t.value \in TTLs
  /\ t.type = ORG_SPECIFIC_TLV =>
       /\ t.value.subtype \in {"IPADDR", "SET_IP"} => t.value.data \in Addrs
       /\ t.value.subtype = "ROLE" => t.value.data \in {"MASTER", "SLAVE"}
       /\ t.value.subtype = "WIFI" => t.value.data \in 0 .. MaxModules

LEMMA VendorSound ==
  ASSUME NEW oui, NEW subtype, NEW size \in Nat, size <= 8, NEW data,
         subtype \in {"IPADDR", "SET_IP"} => data \in Addrs,
         subtype = "ROLE" => data \in {"MASTER", "SLAVE"},
         subtype = "WIFI" => data \in 0 .. MaxModules
  PROVE  Sound(Vendor(oui, subtype, size, data))
BY DEF Sound, Vendor, Tlv, ORG_SPECIFIC_TLV, CHASSIS_ID_TLV, PORT_ID_TLV, TIME_TO_LIVE_TLV

LEMMA MandatorySound ==
  ASSUME NEW s \in Senders
  PROVE  \A i \in 1 .. 3 : Sound(Mandatory(s.frame)[i]) /\ Mandatory(s.frame)[i].type = i
<1>1. s.frame.id \in Ids /\ s.frame.ttl \in TTLs \cup {BadTTL}
  BY SenderFact
<1>2. ASSUME NEW i \in 1 .. 3 PROVE Sound(Mandatory(s.frame)[i]) /\ Mandatory(s.frame)[i].type = i
  <2>1. i = 1 \/ i = 2 \/ i = 3
    OBVIOUS
  <2> QED BY <1>1, <2>1 DEF Mandatory, Sound, Tlv, IfName, CHASSIS_ID_TLV, PORT_ID_TLV,
                            TIME_TO_LIVE_TLV, ORG_SPECIFIC_TLV
<1> QED BY <1>2

LEMMA IdentitySound ==
  ASSUME NEW s \in Senders
  PROVE  \A i \in 1 .. 3 : Sound(Identity(s.frame)[i])
<1> DEFINE f == s.frame
           its == IF f.kind = "slave" THEN "SLAVE" ELSE "MASTER"
<1>1. f.ip \in Addrs
  BY SenderFact
<1>2. Sound(Vendor("dunchong", "VENDOR", 8, "dunchong"))
  BY VendorSound
<1>3. Sound(Vendor("dunchong", "IPADDR", 4, f.ip))
  BY <1>1, VendorSound
<1>4. Sound(Vendor("dunchong", "ROLE", 1, its))
  <2>1. its \in {"MASTER", "SLAVE"}
    OBVIOUS
  <2> HIDE DEF its
  <2> QED BY <2>1, VendorSound
<1>5. /\ Identity(f)[1] = Vendor("dunchong", "VENDOR", 8, "dunchong")
      /\ Identity(f)[2] = Vendor("dunchong", "IPADDR", 4, f.ip)
      /\ Identity(f)[3] = Vendor("dunchong", "ROLE", 1, its)
  BY DEF Identity, Own
<1>6. \A i \in 1 .. 3 : i = 1 \/ i = 2 \/ i = 3
  OBVIOUS
<1> QED BY <1>2, <1>3, <1>4, <1>5, <1>6

LEMMA EndSound == Sound(End[1]) /\ End[1].type = END_OF_LLDPDU_TLV
BY DEF Sound, End, Tlv, END_OF_LLDPDU_TLV, CHASSIS_ID_TLV, PORT_ID_TLV, TIME_TO_LIVE_TLV,
       ORG_SPECIFIC_TLV

LEMMA PartsSound ==
  ASSUME NEW s \in Senders, NEW t \in PartsOf(s)
  PROVE  Sound(t)
<1> DEFINE f == s.frame
<1>1. f.ip \in Addrs /\ s.text \in Nat /\ s.text <= 511 /\ s.wifi \in Nat /\ s.wifi <= MaxModules
  BY SenderFact
<1>2. \A i \in 1 .. 5 : Sound(Optional(s.text)[i])
  <2>1. ASSUME NEW i \in 1 .. 5 PROVE Sound(Optional(s.text)[i])
    <3>1. i = 1 \/ i = 2 \/ i = 3 \/ i = 4 \/ i = 5
      OBVIOUS
    <3> QED BY <1>1, <3>1 DEF Optional, Sound, Tlv, IfName, CHASSIS_ID_TLV, PORT_ID_TLV,
              TIME_TO_LIVE_TLV, ORG_SPECIFIC_TLV, PORT_DESCRIPTION_TLV, SYSTEM_NAME_TLV,
              SYSTEM_DESCRIPTION_TLV, SYSTEM_CAPABILITIES_TLV, MANAGEMENT_ADDRESS_TLV
  <2> QED BY <2>1
<1>3. \A i \in 1 .. s.wifi : Sound(Modules(f, s.wifi)[i])
  <2>1. ASSUME NEW i \in 1 .. s.wifi PROVE Sound(Modules(f, s.wifi)[i])
    <3>1. Mode(f, i) \in 0 .. MaxModules
      BY <1>1, CodecAssumption DEF Mode
    <3>2. Modules(f, s.wifi)[i] = Vendor("dunchong", "WIFI", 7, Mode(f, i))
      BY DEF Modules, Own
    <3> QED BY <3>1, <3>2, VendorSound
  <2> QED BY <2>1
<1>4. Sound(Own("SET_IP", 4, f.ip))
  BY <1>1, VendorSound DEF Own
<1>5. Sound(Vendor("other", "any", 5, "any"))
  BY VendorSound
<1> QED BY <1>2, <1>3, <1>4, <1>5, MandatorySound, IdentitySound, EndSound DEF PartsOf

\* The list of a daemon or a sound agent is made of such parts and ends.
LEMMA ProperTlvs ==
  ASSUME NEW s \in Senders, s.odd = <<>>
  PROVE  LET tlvs == Tlvs(s) IN
         /\ tlvs \in Seq(PartsOf(s)) /\ Len(tlvs) \in Nat
         /\ 1 <= Len(tlvs) /\ Len(tlvs) <= 127
         /\ tlvs[Len(tlvs)] = End[1]
<1> DEFINE f == s.frame
           S == PartsOf(s)
           man == Mandatory(f)
           opt == Optional(s.text)
           idy == Identity(f)
           mod == Modules(f, s.wifi)
           set == << Own("SET_IP", 4, f.ip) >>
           any == << Vendor("other", "any", 5, "any") >>
<1>1. f.kind \in Kinds /\ s.wifi \in Nat /\ s.wifi <= 115
  BY SenderFact, CodecAssumption
<1>2. /\ man \in Seq(S) /\ Len(man) = 3 /\ opt \in Seq(S) /\ Len(opt) = 5
      /\ idy \in Seq(S) /\ Len(idy) = 3 /\ mod \in Seq(S) /\ Len(mod) = s.wifi
      /\ End \in Seq(S) /\ Len(End) = 1
      /\ set \in Seq(S) /\ any \in Seq(S)
  BY PartsFact
<1>3. Len(set) = 1 /\ Len(any) = 1
  OBVIOUS
<1>4. \/ Tlvs(s) = man \o opt \o idy \o mod \o End
      \/ Tlvs(s) = man \o mod \o set \o End
      \/ Tlvs(s) = man \o opt \o End
      \/ Tlvs(s) = man \o any \o End
  BY <1>1 DEF Tlvs, Kinds
<1> DEFINE Is(c, n) == c \in Seq(S) /\ Len(c) = n /\ n \in Nat
<1>i. Is(man, 3) /\ Is(opt, 5) /\ Is(idy, 3) /\ Is(mod, s.wifi) /\ Is(set, 1) /\ Is(any, 1)
  BY <1>1, <1>2, <1>3
<1> HIDE DEF S, man, opt, idy, mod, set, any
<1>5. ASSUME NEW a, NEW n, Is(a, n), n <= 126
      PROVE  /\ a \o End \in Seq(S) /\ Len(a \o End) \in Nat
             /\ 1 <= Len(a \o End) /\ Len(a \o End) <= 127
             /\ (a \o End)[Len(a \o End)] = End[1]
  <2>1. a \o End \in Seq(S) /\ Joined(a \o End, a, End)
    BY <1>2, <1>5, JoinFact
  <2>2. Len(a \o End) = n + 1 /\ n \in Nat
    BY <1>2, <1>5, <2>1 DEF Joined
  <2>3. (a \o End)[n + 1] = End[1]
    BY <1>2, <1>5, <2>1 DEF Joined
  <2> QED BY <1>5, <2>1, <2>2, <2>3
<1>6. ASSUME NEW a, NEW b, NEW m, NEW n, Is(a, m), Is(b, n)
      PROVE  Is(a \o b, m + n)
  <2>1. a \o b \in Seq(S) /\ Joined(a \o b, a, b)
    BY <1>6, JoinFact
  <2>2. Len(a) = m /\ Len(b) = n /\ m \in Nat /\ n \in Nat
    BY <1>6
  <2> QED BY <2>1, <2>2 DEF Joined
<1> HIDE DEF Is
<1>7. Is(man \o opt, 3 + 5)
  BY <1>6, <1>i, Zenon
<1>8. Is(man \o opt \o idy, 3 + 5 + 3)
  BY <1>6, <1>i, <1>7, Zenon
<1>9. Is(man \o opt \o idy \o mod, 3 + 5 + 3 + s.wifi)
  BY <1>6, <1>i, <1>8, Zenon
<1>10. Is(man \o mod, 3 + s.wifi)
  BY <1>6, <1>i, Zenon
<1>11. Is(man \o mod \o set, 3 + s.wifi + 1)
  BY <1>6, <1>i, <1>10, Zenon
<1>12. Is(man \o any, 3 + 1)
  BY <1>6, <1>i, Zenon
<1>l. 3 + 5 + 3 + s.wifi <= 126 /\ 3 + s.wifi + 1 <= 126 /\ 3 + 5 <= 126 /\ 3 + 1 <= 126
  BY <1>1
<1>13. CASE Tlvs(s) = man \o opt \o idy \o mod \o End
  BY <1>5, <1>9, <1>13, <1>l, Zenon DEF S
<1>14. CASE Tlvs(s) = man \o mod \o set \o End
  BY <1>5, <1>11, <1>14, <1>l, Zenon DEF S
<1>15. CASE Tlvs(s) = man \o opt \o End
  BY <1>5, <1>7, <1>15, <1>l, Zenon DEF S
<1>16. CASE Tlvs(s) = man \o any \o End
  BY <1>5, <1>12, <1>16, <1>l, Zenon DEF S
<1> QED BY <1>4, <1>13, <1>14, <1>15, <1>16

\* An odd frame may have any TLVs, but they are sound too.
LEMMA OddTlvs ==
  ASSUME NEW s \in Senders, s.odd # <<>>
  PROVE  LET tlvs == Tlvs(s) IN
         /\ Len(tlvs) \in Nat /\ 1 <= Len(tlvs) /\ Len(tlvs) <= 127
         /\ \A i \in 1 .. Len(tlvs) : Sound(tlvs[i])
<1>1. PICK n \in 1 .. MaxOdd : s.odd \in [1 .. n -> OddTypes]
  BY SenderFact DEF OddLists
<1>2. n \in Nat /\ 1 <= n /\ n <= 127
  BY CodecAssumption
<1>3. Tlvs(s) = [i \in 1 .. n |-> OddTlv(s, s.odd[i])]
  BY <1>1 DEF Tlvs
<1>4. Len(Tlvs(s)) = n
  BY <1>2, <1>3
<1>5. ASSUME NEW type \in OddTypes PROVE Sound(OddTlv(s, type))
  <2>1. type \in Nat /\ type <= 127 /\ s.text \in Nat /\ s.text <= 511
    BY SenderFact, CodecAssumption
  <2>2. CASE type = END_OF_LLDPDU_TLV
    <3>1. /\ type \notin {CHASSIS_ID_TLV, PORT_ID_TLV, TIME_TO_LIVE_TLV}
          /\ type # ORG_SPECIFIC_TLV
      BY <2>2 DEF END_OF_LLDPDU_TLV, CHASSIS_ID_TLV, PORT_ID_TLV, TIME_TO_LIVE_TLV,
                  ORG_SPECIFIC_TLV
    <3>2. OddTlv(s, type) = End[1]
      BY <2>2, <3>1, Zenon DEF OddTlv
    <3> QED BY <3>2, EndSound
  <2>3. CASE type \in {CHASSIS_ID_TLV, PORT_ID_TLV, TIME_TO_LIVE_TLV}
    <3>1. type # END_OF_LLDPDU_TLV /\ type \in 1 .. 3
      BY <2>3 DEF END_OF_LLDPDU_TLV, CHASSIS_ID_TLV, PORT_ID_TLV, TIME_TO_LIVE_TLV
    <3>2. type # ORG_SPECIFIC_TLV
      BY <3>1 DEF ORG_SPECIFIC_TLV
    <3>3. OddTlv(s, type) = Mandatory(s.frame)[type]
      BY <2>3, <3>1, <3>2, Zenon DEF OddTlv
    <3> QED BY <3>1, <3>3, MandatorySound
  <2>4. CASE type = ORG_SPECIFIC_TLV
    <3>1. OddTlv(s, type) = Identity(s.frame)[3]
      BY <2>4 DEF OddTlv, END_OF_LLDPDU_TLV, CHASSIS_ID_TLV, PORT_ID_TLV, TIME_TO_LIVE_TLV,
                  ORG_SPECIFIC_TLV
    <3>2. 3 \in 1 .. 3
      OBVIOUS
    <3> QED BY <3>1, <3>2, IdentitySound
  <2>5. CASE type \notin {END_OF_LLDPDU_TLV, CHASSIS_ID_TLV, PORT_ID_TLV, TIME_TO_LIVE_TLV,
                          ORG_SPECIFIC_TLV}
    <3>1. OddTlv(s, type) = Tlv(type, s.text, "any")
      BY <2>5 DEF OddTlv
    <3> QED BY <2>1, <2>5, <3>1 DEF Sound, Tlv
  <2> QED BY <2>2, <2>3, <2>4, <2>5
<1>6. \A i \in 1 .. n : Sound(Tlvs(s)[i])
  BY <1>1, <1>3, <1>5
<1> QED BY <1>2, <1>4, <1>6

LEMMA TlvsFact ==
  ASSUME NEW s \in Senders
  PROVE  /\ Len(Tlvs(s)) \in Nat /\ 1 <= Len(Tlvs(s)) /\ Len(Tlvs(s)) <= 127
         /\ \A i \in 1 .. Len(Tlvs(s)) : Sound(Tlvs(s)[i])
<1>1. CASE s.odd = <<>>
  <2>1. /\ Tlvs(s) \in Seq(PartsOf(s)) /\ Len(Tlvs(s)) \in Nat
        /\ 1 <= Len(Tlvs(s)) /\ Len(Tlvs(s)) <= 127
    BY <1>1, ProperTlvs
  <2>2. \A i \in 1 .. Len(Tlvs(s)) : Tlvs(s)[i] \in PartsOf(s)
    BY <2>1, ElementOfSeq
  <2> QED BY <2>1, <2>2, PartsSound
<1> QED BY <1>1, OddTlvs

\* The header tells the type and the length.
LEMMA HeaderFact ==
  ASSUME NEW s \in Senders, NEW k \in 1 .. Len(Tlvs(s))
  PROVE  LET t == Tlvs(s)[k] IN
         /\ TypeAndLength(t) \div 512 = t.type
         /\ TypeAndLength(t) % 512 = t.length
<1> DEFINE t == Tlvs(s)[k]
<1>2. t.type \in Nat /\ t.type <= 127 /\ t.length \in Nat /\ t.length <= 511
  BY TlvsFact DEF Sound
<1> HIDE DEF t
<1> DEFINE a == t.type
           b == t.length
<1>3. a \in Nat /\ b \in Nat /\ a <= 127 /\ b <= 511
  BY <1>2
<1>4. TypeAndLength(t) = (a * 512 + b) % 65536
  BY DEF TypeAndLength
<1> HIDE DEF a, b
<1>5. (a * 512 + b) % 65536 = a * 512 + b
  BY <1>3
<1>6. (a * 512 + b) \div 512 = a /\ (a * 512 + b) % 512 = b
  BY <1>3
<1>7. TypeAndLength(t) \div 512 = a /\ TypeAndLength(t) % 512 = b
  BY <1>4, <1>5, <1>6
<1> QED BY <1>7 DEF a, b, t

-----------------------------------------------------------------------------
(* The inductive invariant.                                                *)

\* The TLVs of the frame that is sent, flattened at any place.
FlatTlvs == {Flattened(Tlvs(sent)[i], start) : i \in 1 .. Len(Tlvs(sent)), start \in Nat}

\* Where the TLVs are, and where the next one is to be written.
places == [i \in 1 .. Len(frame) + 1 |->
             IF i <= Len(frame) THEN frame[i].at ELSE frame_offset]

\* The frame holds the first TLVs of the list, one behind the other.
Written ==
  /\ frame \in Seq(FlatTlvs) /\ Len(frame) <= Len(Tlvs(sent)) /\ frame_offset \in Nat
  /\ \A i \in 1 .. Len(frame) :
       /\ frame[i].at \in Nat /\ frame[i] = Flattened(Tlvs(sent)[i], frame[i].at)
       /\ places[i + 1] = frame[i].at + 2 + Tlvs(sent)[i].length
       /\ frame[i].at < frame_offset
       /\ \A j \in 1 .. Len(frame) : i < j => frame[i].at < frame[j].at
  /\ places[1] = EthHeader
  /\ \A i \in 1 .. Len(frame) + 1 : places[i] <= EthHeader + 513 * (i - 1)

\* It is whole when it is received, unless the last TLV is cut.
Arrived ==
  turn # "build" =>
    /\ Len(frame) = Len(Tlvs(sent)) /\ recvsize \in Nat
    /\ ~sent.cut => frame_offset <= recvsize


\* The TLVs of a type in front of the k-th.
Front(k, type) == Cardinality({i \in 1 .. k - 1 : Tlvs(sent)[i].type = type})

\* What is allocated when the parser is in front of the k-th TLV, or behind the
\* last: what the identifiers in front of it left.
Allocated(k) ==
  LET chassisIds == Front(k, CHASSIS_ID_TLV)
      portIds    == Front(k, PORT_ID_TLV)
  IN  /\ portIds > 0 <=> msapId # None
      /\ portIds + StillAllocated <= chassisIds
      /\ turn # "done" => entry = None /\ held = Copy * (chassisIds - portIds) + portIds
      /\ turn = "done" =>
           /\ entry # None => portIds > 0
           /\ held = (IF entry # None /\ ~known THEN 2 ELSE 0)
                       + Copy * (chassisIds - portIds)
                       + (IF portIds > 0 THEN portIds - 1 ELSE 0)
                       - (IF entry # None THEN StillAllocated ELSE 0)

\* Where the parser is; in a frame with an end it does not get behind that.
WireAt(k) ==
  /\ EthHeader + offset = places[k]
  /\ turn = "build" => k = 1
  /\ sent.odd = <<>> => k <= Len(Tlvs(sent))
  /\ Allocated(k)

WireInv ==
  TypeOK /\ Written /\ Arrived /\ \E k \in 1 .. Len(Tlvs(sent)) + 1 : WireAt(k)

LEMMA FrontFact ==
  ASSUME NEW k \in Nat, 1 <= k, NEW type
  PROVE  /\ Front(k, type) \in Nat /\ Front(1, type) = 0
         /\ Front(k + 1, type)
              = IF Tlvs(sent)[k].type = type THEN Front(k, type) + 1 ELSE Front(k, type)
<1> DEFINE F(n) == {i \in 1 .. n - 1 : Tlvs(sent)[i].type = type}
<1>1. IsFiniteSet(F(k)) /\ Cardinality(F(k)) \in Nat
  <2>1. IsFiniteSet(1 .. k - 1)
    BY FS_Interval
  <2>2. F(k) \subseteq 1 .. k - 1
    OBVIOUS
  <2> QED BY <2>1, <2>2, FS_Subset, FS_CardinalityType
<1>2. F(1) = {}
  OBVIOUS
<1>3. k \notin F(k)
  OBVIOUS
<1>4. 1 .. (k + 1) - 1 = (1 .. k - 1) \cup {k}
  OBVIOUS
<1>5. F(k + 1) = IF Tlvs(sent)[k].type = type THEN F(k) \cup {k} ELSE F(k)
  BY <1>4
<1>6. Cardinality(F(k) \cup {k}) = Cardinality(F(k)) + 1
  <2> HIDE DEF F
  <2> QED BY <1>1, <1>3, FS_AddElement
<1>7. Cardinality({}) = 0
  BY FS_EmptySet
<1> QED BY <1>1, <1>2, <1>5, <1>6, <1>7 DEF Front

LEMMA SpecialFact ==
  /\ BadTTL \notin TTLs /\ OwnAddr \notin Octets /\ 0 \in TTLs
  /\ \A x \in Ids : x # None
  /\ \A x, y \in Ids : <<x, y>> # None
<1>1. \A x, y \in Ids : <<x, y>> \in Ids \X Ids
  OBVIOUS
<1> QED BY <1>1, ValueAssumption, CodecAssumption DEF TTLs

\* There are no fewer blocks than are freed.
LEMMA HeldFact ==
  ASSUME NEW k \in Nat, 1 <= k, Allocated(k)
  PROVE  held \in Nat
<1> DEFINE chassisIds == Front(k, CHASSIS_ID_TLV)
           portIds    == Front(k, PORT_ID_TLV)
           still      == StillAllocated
<1>1. chassisIds \in Nat /\ portIds \in Nat /\ still \in {0, 1}
  BY FrontFact DEF StillAllocated
<1>2. /\ portIds + still <= chassisIds
      /\ turn # "done" => held = 2 * (chassisIds - portIds) + portIds
      /\ turn = "done" =>
           held = (IF entry # None /\ ~known THEN 2 ELSE 0) + 2 * (chassisIds - portIds)
                   + (IF portIds > 0 THEN portIds - 1 ELSE 0)
                   - (IF entry # None THEN still ELSE 0)
  BY DEF Allocated, Copy
<1> HIDE DEF chassisIds, portIds, still
<1> QED BY <1>1, <1>2

LEMMA WireInit == Init => WireInv
<1> SUFFICES ASSUME Init PROVE WireInv
  OBVIOUS
<1> USE DEF Init
<1>1. /\ sent \in Senders /\ 1 \in 1 .. Len(Tlvs(sent)) + 1
      /\ Len(Tlvs(sent)) \in Nat /\ 1 <= Len(Tlvs(sent))
  BY TlvsFact
<1>2. frame = <<>> /\ Len(frame) = 0 /\ frame \in Seq(FlatTlvs)
  BY EmptySeq
<1>3. TypeOK
  <2>1. <<>> \in [1 .. 0 -> 0 .. MaxModules] /\ 0 \in 0 .. ModulesKept
    BY CodecAssumption
  <2>2. wifimods \in WifiModules
    BY <2>1 DEF WifiModules
  <2>3. alias \in Addrs /\ rxTTL \in TTLs /\ offset \in 0 .. MaxOffset
    BY SpecialFact DEF Addrs, MaxOffset
  <2>4. /\ sent \in Senders /\ known \in BOOLEAN /\ haveDc \in BOOLEAN
        /\ devRole \in {"MASTER", "SLAVE"} /\ role \in {"MASTER", "SLAVE"}
        /\ turn \in {"build", "loop", "parsed", "done", "crashed"}
    OBVIOUS
  <2>5. /\ chassis \in Ids \cup {None} /\ msapId \in (Ids \X Ids) \cup {None}
        /\ ip \in Addrs \cup {None} /\ held \in Nat
    OBVIOUS
  <2> QED BY <2>2, <2>3, <2>4, <2>5 DEF TypeOK
<1>4. Written
  BY <1>1, <1>2 DEF Written, places, EthHeader
<1>5. WireAt(1)
  <2>1. EthHeader + offset = places[1]
    BY <1>2 DEF places, EthHeader
  <2>2. \A type : Front(1, type) = 0
    BY FrontFact
  <2>3. Allocated(1)
    BY <2>2 DEF Allocated, StillAllocated, Copy
  <2> QED BY <1>1, <2>1, <2>3 DEF WireAt
<1> QED BY <1>1, <1>3, <1>4, <1>5 DEF WireInv, Arrived

\* What is copied comes right behind what was.
LEMMA WrittenFact ==
  ASSUME Written, AddTlv, sent \in Senders
  PROVE  Written'
<1> DEFINE tlvs == Tlvs(sent)
           n == Len(frame)
           next == tlvs[n + 1]
           new == Flattened(next, frame_offset)
<1>1. /\ n < Len(tlvs) /\ frame' = Append(frame, new) /\ Written
      /\ frame_offset' = frame_offset + 2 + next.length /\ sent' = sent
  BY DEF AddTlv
<1>2. sent \in Senders /\ Len(tlvs) \in Nat
  BY TlvsFact
<1>3. n \in Nat /\ n + 1 \in 1 .. Len(tlvs) /\ frame_offset \in Nat /\ frame \in Seq(FlatTlvs)
  BY <1>1, <1>2, LenProperties DEF Written
<1>4. next.length \in Nat /\ next.length <= 511
  <2>1. \A k \in 1 .. Len(tlvs) : tlvs[k].length \in Nat /\ tlvs[k].length <= 511
    BY <1>2, TlvsFact DEF Sound
  <2> QED BY <1>3, <2>1
<1>b. frame_offset' = frame_offset + 2 + next.length
  BY <1>1
<1>5. new \in FlatTlvs
  BY <1>3 DEF FlatTlvs
<1>6. /\ frame' \in Seq(FlatTlvs) /\ Len(frame') = n + 1
      /\ \A i \in 1 .. n : frame'[i] = frame[i]
      /\ frame'[n + 1] = new
  BY <1>1, <1>3, <1>5, AppendProperties
<1>7. new.at = frame_offset
  BY DEF Flattened
<1>8. FlatTlvs' = FlatTlvs /\ Tlvs(sent)' = tlvs
  BY <1>1 DEF FlatTlvs
<1>9. /\ \A i \in 1 .. n : frame[i].at \in Nat /\ frame[i] = Flattened(tlvs[i], frame[i].at)
      /\ \A i \in 1 .. n : places[i + 1] = frame[i].at + 2 + tlvs[i].length
      /\ \A i \in 1 .. n : frame[i].at < frame_offset
      /\ \A i, j \in 1 .. n : i < j => frame[i].at < frame[j].at
      /\ places[1] = EthHeader
      /\ \A i \in 1 .. n + 1 : places[i] <= EthHeader + 513 * (i - 1)
  BY <1>1 DEF Written
<1> HIDE DEF n, tlvs, next, new
<1>10. /\ \A i \in 1 .. n : places'[i] = places[i]
       /\ places'[n + 1] = frame_offset /\ places[n + 1] = frame_offset
       /\ places'[n + 2] = frame_offset'
  <2>1. places[n + 1] = frame_offset
    BY <1>3 DEF places, n
  <2>2. \A i \in 1 .. n : places[i] = frame[i].at /\ places'[i] = frame'[i].at
    BY <1>3, <1>6 DEF places, n
  <2>3. places'[n + 1] = frame'[n + 1].at /\ places'[n + 2] = frame_offset'
    <3>1. n + 1 <= n + 1 /\ ~(n + 2 <= n + 1) /\ n' = n + 1
      BY <1>3, <1>6 DEF n
    <3>2. Len(frame') = n + 1
      BY <1>6
    <3>3. places' = [i \in 1 .. (n + 1) + 1 |->
                       IF i <= n + 1 THEN frame'[i].at ELSE frame_offset']
      BY <3>2 DEF places
    <3>4. n + 1 \in 1 .. (n + 1) + 1 /\ n + 2 \in 1 .. (n + 1) + 1
      BY <1>3
    <3> QED BY <3>1, <3>3, <3>4
  <2> QED BY <1>6, <1>7, <2>1, <2>2, <2>3
<1>11. \A i \in 1 .. n + 1 : places'[i] = places[i]
  <2>1. \A i \in 1 .. n + 1 : i \in 1 .. n \/ i = n + 1
    BY <1>3
  <2> QED BY <1>10, <2>1
<1>12. /\ frame_offset' \in Nat /\ frame_offset < frame_offset'
       /\ frame_offset' <= frame_offset + 513
  BY <1>b, <1>3, <1>4
<1>13. ASSUME NEW i \in 1 .. n + 1
       PROVE  /\ frame'[i].at \in Nat /\ frame'[i] = Flattened(tlvs[i], frame'[i].at)
              /\ places'[i + 1] = frame'[i].at + 2 + tlvs[i].length
              /\ frame'[i].at < frame_offset'
              /\ \A j \in 1 .. n + 1 : i < j => frame'[i].at < frame'[j].at
  <2>1. CASE i = n + 1
    <3>1. frame'[i].at = frame_offset /\ frame'[i] = Flattened(tlvs[i], frame'[i].at)
      BY <1>6, <1>7, <2>1 DEF new, next
    <3>2. places'[i + 1] = frame_offset + 2 + tlvs[i].length
      <4>1. i + 1 = n + 2
        BY <1>3, <2>1
      <4> QED BY <1>b, <1>10, <2>1, <4>1 DEF next
    <3>3. \A j \in 1 .. n + 1 : ~(i < j)
      BY <1>3, <2>1
    <3> QED BY <1>3, <1>12, <3>1, <3>2, <3>3
  <2>2. CASE i \in 1 .. n
    <3>1. frame'[i] = frame[i] /\ i + 1 \in 1 .. n + 1
      BY <1>3, <1>6, <2>2
    <3>2. places'[i + 1] = places[i + 1]
      BY <1>11, <3>1
    <3>3. /\ frame[i].at \in Nat /\ frame[i] = Flattened(tlvs[i], frame[i].at)
          /\ places[i + 1] = frame[i].at + 2 + tlvs[i].length
          /\ frame[i].at < frame_offset
      BY <1>9, <2>2
    <3>4. frame[i].at < frame_offset'
      BY <1>3, <1>12, <3>3
    <3>5. ASSUME NEW j \in 1 .. n + 1, i < j PROVE frame[i].at < frame'[j].at
      <4>1. CASE j = n + 1
        BY <1>6, <1>7, <3>3, <4>1
      <4>2. CASE j \in 1 .. n
        BY <1>6, <1>9, <2>2, <3>5, <4>2
      <4> QED BY <1>3, <4>1, <4>2
    <3> QED BY <3>1, <3>2, <3>3, <3>4, <3>5
  <2> QED BY <1>3, <2>1, <2>2
<1>14. ASSUME NEW i \in 1 .. n + 2
       PROVE  places'[i] <= EthHeader + 513 * (i - 1)
  <2>1. CASE i \in 1 .. n + 1
    BY <1>9, <1>11, <2>1
  <2>2. CASE i = n + 2
    <3>1. frame_offset <= EthHeader + 513 * n
      <4>1. n + 1 \in 1 .. n + 1 /\ (n + 1) - 1 = n
        BY <1>3
      <4>2. places[n + 1] <= EthHeader + 513 * ((n + 1) - 1)
        BY <1>9, <4>1
      <4> QED BY <1>10, <4>1, <4>2
    <3>2. frame_offset' <= frame_offset + 513
      BY <1>12
    <3>3. places'[i] = frame_offset'
      BY <1>10, <2>2
    <3> QED BY <1>3, <1>12, <2>2, <3>1, <3>2, <3>3 DEF EthHeader
  <2> QED BY <1>3, <2>1, <2>2
<1>15. places'[1] = EthHeader
  <2>1. 1 \in 1 .. n + 1
    BY <1>3
  <2> QED BY <1>9, <1>11, <2>1
<1>16. Len(frame') <= Len(tlvs) /\ n + 1 + 1 = n + 2
  BY <1>2, <1>3, <1>6
<1> QED BY <1>6, <1>8, <1>12, <1>13, <1>14, <1>15, <1>16 DEF Written

LEMMA SameType ==
  ASSUME TypeOK, turn' \in {"build", "loop", "parsed", "done", "crashed"}, held' \in Nat,
         UNCHANGED <<sent, devRole, known, offset, locals>>
  PROVE  TypeOK'
<1>1. /\ sent' = sent /\ devRole' = devRole /\ known' = known /\ offset' = offset
      /\ chassis' = chassis /\ msapId' = msapId /\ role' = role /\ ip' = ip
      /\ wifimods' = wifimods /\ haveDc' = haveDc /\ rxTTL' = rxTTL /\ alias' = alias
  BY DEF locals
<1> QED BY <1>1 DEF TypeOK

\* What is allocated is told by these variables and the parser's place.
LEMMA SameAllocated ==
  ASSUME NEW k, Allocated(k), turn # "done", turn' # "done",
         UNCHANGED <<sent, chassis, msapId, held, entry>>
  PROVE  Allocated(k)'
BY DEF Allocated, Front, StillAllocated

LEMMA AddTlvWire == WireInv /\ AddTlv => WireInv'
<1> SUFFICES ASSUME WireInv, AddTlv PROVE WireInv'
  OBVIOUS
<1>1. /\ turn = "build" /\ turn' = "build"
      /\ UNCHANGED <<sent, devRole, known, offset, locals, held, entry>>
      /\ UNCHANGED <<chassis, msapId>>
      /\ Written /\ TypeOK /\ sent \in Senders /\ WireAt(1)
  BY DEF AddTlv, WireInv, WireAt, TypeOK, locals
<1>2. Written' /\ Arrived'
  BY <1>1, WrittenFact DEF Arrived
<1>3. TypeOK'
  BY <1>1, SameType DEF TypeOK
<1>4. Allocated(1)'
  BY <1>1, SameAllocated DEF WireAt
<1>5. WireAt(1)'
  <2>1. places'[1] = places[1]
    BY <1>1, <1>2 DEF Written
  <2> QED BY <1>1, <1>4, <2>1 DEF WireAt
<1>6. 1 \in (1 .. Len(Tlvs(sent)) + 1)'
  BY <1>1, TlvsFact
<1> QED BY <1>2, <1>3, <1>5, <1>6 DEF WireInv

LEMMA SendFrameWire == WireInv /\ SendFrame => WireInv'
<1> SUFFICES ASSUME WireInv, SendFrame PROVE WireInv'
  OBVIOUS
<1>1. /\ turn = "build" /\ Len(frame) = Len(Tlvs(sent)) /\ turn' = "loop"
      /\ recvsize' = SendSize(frame_offset - Missing)
      /\ UNCHANGED <<sent, devRole, known, frame, frame_offset, offset, locals, held, entry>>
      /\ UNCHANGED <<chassis, msapId>>
      /\ Written /\ TypeOK /\ sent \in Senders /\ WireAt(1) /\ frame_offset \in Nat
  BY DEF SendFrame, WireInv, WireAt, TypeOK, Written, locals
<1>2. places' = places /\ FlatTlvs' = FlatTlvs
  BY <1>1 DEF places, FlatTlvs
<1>3. Written'
  BY <1>1, <1>2 DEF Written
<1>4. Arrived'
  <2>1. Missing \in Nat /\ (~sent.cut => Missing = 0)
    BY <1>1, TlvsFact DEF Missing, Sound
  <2>2. recvsize' \in Nat /\ (~sent.cut => frame_offset <= recvsize')
    BY <1>1, <2>1 DEF SendSize
  <2> QED BY <1>1, <2>2 DEF Arrived
<1>5. TypeOK'
  BY <1>1, SameType DEF TypeOK
<1>6. Allocated(1)'
  BY <1>1, SameAllocated DEF WireAt
<1>7. WireAt(1)'
  BY <1>1, <1>2, <1>6 DEF WireAt
<1>8. 1 \in (1 .. Len(Tlvs(sent)) + 1)'
  BY <1>1, TlvsFact
<1> QED BY <1>3, <1>4, <1>5, <1>7, <1>8 DEF WireInv

-----------------------------------------------------------------------------
(* The parser.                                                             *)

\* Which TLVs are in front of the parser.
LEMMA FrontOf ==
  ASSUME WireInv, NEW k \in 1 .. Len(Tlvs(sent)) + 1, EthHeader + offset = places[k],
         turn = "build" => k = 1
  PROVE  /\ Len(frame) \in Nat /\ DOMAIN frame = 1 .. Len(frame) /\ k <= Len(frame) + 1
         /\ \A i \in 1 .. Len(frame) :
              /\ frame[i].at \in Nat /\ i \in 1 .. Len(Tlvs(sent))
              /\ frame[i].at < EthHeader + offset <=> i < k
              /\ frame[i].at = EthHeader + offset <=> i = k
              /\ frame[i] = Flattened(Tlvs(sent)[i], frame[i].at)
<1>1. /\ sent \in Senders /\ Written /\ Arrived
  BY DEF WireInv, TypeOK
<1>2. /\ Len(frame) \in Nat /\ DOMAIN frame = 1 .. Len(frame) /\ Len(frame) <= Len(Tlvs(sent))
      /\ frame_offset \in Nat /\ Len(Tlvs(sent)) \in Nat
  BY <1>1, LenProperties, TlvsFact DEF Written
<1>3. k <= Len(frame) + 1
  BY <1>1, <1>2 DEF Arrived
<1>4. /\ \A i \in 1 .. Len(frame) : frame[i].at \in Nat /\ frame[i].at < frame_offset
      /\ \A i, j \in 1 .. Len(frame) : i < j => frame[i].at < frame[j].at
      /\ \A i \in 1 .. Len(frame) : frame[i] = Flattened(Tlvs(sent)[i], frame[i].at)
  BY <1>1 DEF Written
<1> DEFINE here == EthHeader + offset
<1>5. here = IF k <= Len(frame) THEN frame[k].at ELSE frame_offset
  BY <1>2, <1>3 DEF places
<1> HIDE DEF here
<1>6. ASSUME NEW i \in 1 .. Len(frame)
      PROVE  /\ frame[i].at < here <=> i < k
             /\ frame[i].at = here <=> i = k
  <2>1. CASE k <= Len(frame)
    <3>1. k \in 1 .. Len(frame) /\ here = frame[k].at
      BY <1>2, <1>5, <2>1
    <3>2. CASE i < k
      <4>1. frame[i].at < frame[k].at /\ frame[i].at \in Nat /\ frame[k].at \in Nat
        BY <1>4, <3>1, <3>2
      <4> QED BY <3>1, <3>2, <4>1
    <3>3. CASE k < i
      <4>1. frame[k].at < frame[i].at /\ frame[i].at \in Nat /\ frame[k].at \in Nat
        BY <1>4, <3>1, <3>3
      <4> QED BY <3>1, <3>3, <4>1
    <3>4. CASE i = k
      <4>1. frame[i].at \in Nat
        BY <1>4
      <4> QED BY <3>1, <3>4, <4>1
    <3> QED BY <1>2, <3>2, <3>3, <3>4
  <2>2. CASE ~(k <= Len(frame))
    <3>1. i < k /\ i # k
      BY <1>2, <2>2
    <3>2. frame[i].at < here /\ frame[i].at \in Nat /\ here \in Nat
      BY <1>2, <1>4, <1>5, <2>2
    <3> QED BY <3>1, <3>2
  <2> QED BY <2>1, <2>2
<1>7. \A i \in 1 .. Len(frame) : i \in 1 .. Len(Tlvs(sent))
  BY <1>2
<1> QED BY <1>2, <1>3, <1>4, <1>6, <1>7 DEF here

\* The parser reads the TLV the sender put where it looks, ...
LEMMA HereFact ==
  ASSUME WireInv, turn # "build", NEW k \in 1 .. Len(Tlvs(sent)), EthHeader + offset = places[k]
  PROVE  /\ Here # {} /\ Type = Tlvs(sent)[k].type /\ Length = Tlvs(sent)[k].length
         /\ tlv.value = Tlvs(sent)[k].value
         /\ EthHeader + offset < frame_offset
<1> DEFINE t == Tlvs(sent)[k]
<1>1. sent \in Senders /\ Len(Tlvs(sent)) \in Nat /\ Len(frame) = Len(Tlvs(sent))
  BY TlvsFact DEF WireInv, TypeOK, Arrived
<1>2. k \in 1 .. Len(Tlvs(sent)) + 1 /\ k \in 1 .. Len(frame)
  BY <1>1
<1>3. /\ DOMAIN frame = 1 .. Len(frame)
      /\ \A i \in 1 .. Len(frame) : frame[i].at = EthHeader + offset <=> i = k
      /\ frame[k] = Flattened(t, frame[k].at)
  BY <1>2, FrontOf
<1>4. Here = {k}
  BY <1>2, <1>3 DEF Here
<1>5. tlv = frame[k]
  BY <1>4 DEF tlv
<1>6. tlv.header = TypeAndLength(t) /\ tlv.value = t.value
  BY <1>3, <1>5 DEF Flattened
<1>7. Type = t.type /\ Length = t.length
  BY <1>1, <1>6, HeaderFact DEF Type, Length
<1>8. EthHeader + offset < frame_offset
  BY <1>2, <1>3 DEF WireInv, Written
<1> QED BY <1>4, <1>6, <1>7, <1>8

\* ... and none behind the last.
LEMMA BehindFact ==
  ASSUME WireInv, turn # "build", EthHeader + offset = places[Len(Tlvs(sent)) + 1]
  PROVE  Here = {} /\ EthHeader + offset = frame_offset
<1> DEFINE k == Len(Tlvs(sent)) + 1
<1>1. sent \in Senders /\ Len(Tlvs(sent)) \in Nat /\ Len(frame) = Len(Tlvs(sent))
  BY TlvsFact DEF WireInv, TypeOK, Arrived
<1>2. k \in 1 .. Len(Tlvs(sent)) + 1 /\ k \notin 1 .. Len(frame)
  BY <1>1
<1>3. /\ DOMAIN frame = 1 .. Len(frame)
      /\ \A i \in 1 .. Len(frame) : frame[i].at = EthHeader + offset <=> i = k
  BY <1>2, FrontOf
<1>4. Here = {}
  BY <1>2, <1>3 DEF Here
<1>5. EthHeader + offset = frame_offset
  BY <1>1 DEF places
<1> QED BY <1>4, <1>5

\* What the parser has read of a type is what is in front of it.
LEMMA ReadFact ==
  ASSUME WireInv, NEW k \in 1 .. Len(Tlvs(sent)) + 1, EthHeader + offset = places[k],
         turn = "build" => k = 1, NEW type
  PROVE  Read(type) = Front(k, type)
<1>1. /\ Len(frame) \in Nat /\ DOMAIN frame = 1 .. Len(frame) /\ k <= Len(frame) + 1
      /\ \A i \in 1 .. Len(frame) :
           /\ i \in 1 .. Len(Tlvs(sent))
           /\ frame[i].at < EthHeader + offset <=> i < k
           /\ frame[i] = Flattened(Tlvs(sent)[i], frame[i].at)
  BY FrontOf
<1>2. sent \in Senders /\ Len(Tlvs(sent)) \in Nat
  BY TlvsFact DEF WireInv, TypeOK
<1>3. ASSUME NEW i \in 1 .. Len(frame)
      PROVE  frame[i].header \div 512 = Tlvs(sent)[i].type
  <2>1. frame[i].header = TypeAndLength(Tlvs(sent)[i])
    BY <1>1 DEF Flattened
  <2> QED BY <1>1, <1>2, <2>1, HeaderFact
<1>4. \A i : i \in 1 .. k - 1 <=> i \in 1 .. Len(frame) /\ i < k
  BY <1>1, <1>2
<1>5. {i \in DOMAIN frame : /\ frame[i].at < EthHeader + offset
                            /\ frame[i].header \div 512 = type}
        = {i \in 1 .. k - 1 : Tlvs(sent)[i].type = type}
  BY <1>1, <1>3, <1>4, Zenon
<1> QED BY <1>5 DEF Read, Front

\* The next TLV starts where this one ends.
LEMMA AdvanceFact ==
  ASSUME WireInv, turn = "loop", NEW k \in 1 .. Len(Tlvs(sent)), EthHeader + offset = places[k],
         Advance
  PROVE  /\ Written' /\ Arrived' /\ k + 1 \in 1 .. Len(Tlvs(sent)) + 1
         /\ EthHeader + offset' = places'[k + 1] /\ offset' \in 0 .. MaxOffset
<1>1. /\ sent \in Senders /\ Written /\ Len(frame) = Len(Tlvs(sent)) /\ Arrived
  BY DEF WireInv, TypeOK, Arrived
<1>2. /\ offset' = offset + 2 + Length
      /\ UNCHANGED <<sent, frame, frame_offset, recvsize, turn>>
  BY DEF Advance, given
<1>3. Length = Tlvs(sent)[k].length /\ Length \in Nat
  BY <1>1, HereFact, TlvsFact DEF Sound
<1>4. Len(Tlvs(sent)) \in Nat /\ Len(Tlvs(sent)) <= 127
  BY <1>1, TlvsFact
<1>5. k + 1 \in 1 .. Len(Tlvs(sent)) + 1 /\ (k + 1) - 1 = k
  BY <1>4
<1>6. /\ places[k] = frame[k].at /\ frame[k].at \in Nat
      /\ places[k + 1] = frame[k].at + 2 + Tlvs(sent)[k].length
      /\ places[k + 1] <= EthHeader + 513 * ((k + 1) - 1)
  <2>1. places[k] = frame[k].at
    BY <1>1, <1>4 DEF places
  <2>2. k \in 1 .. Len(frame) /\ k + 1 \in 1 .. Len(frame) + 1
    BY <1>1, <1>4
  <2> QED BY <1>1, <2>1, <2>2 DEF Written
<1>7. offset \in Nat
  BY DEF WireInv, TypeOK
<1>8. EthHeader + offset' = places[k + 1]
  <2> DEFINE len == Tlvs(sent)[k].length
             at == frame[k].at
             new == places[k + 1]
  <2>1. len \in Nat /\ offset' = offset + 2 + len
    BY <1>2, <1>3
  <2>2. EthHeader + offset = at /\ new = at + 2 + len
    BY <1>6
  <2> HIDE DEF len, at, new
  <2>3. EthHeader + offset' = new
    BY <1>7, <2>1, <2>2 DEF EthHeader
  <2> QED BY <2>3 DEF new
<1>9. places' = places /\ FlatTlvs' = FlatTlvs
  BY <1>2 DEF places, FlatTlvs
<1>10. offset' \in 0 .. MaxOffset
  <2> DEFINE len == Tlvs(sent)[k].length
             next == places[k + 1]
  <2>a. len \in Nat /\ offset' = offset + 2 + len
    BY <1>2, <1>3
  <2>b. EthHeader + offset' = next /\ next <= EthHeader + 513 * k
    BY <1>5, <1>6, <1>8
  <2> HIDE DEF len, next
  <2>c. offset' \in Nat
    BY <1>7, <2>a
  <2>1. offset' \in Nat /\ offset' <= 513 * k
    BY <2>b, <2>c DEF EthHeader
  <2>2. offset' <= 65151
    BY <1>4, <2>1
  <2>3. MaxOffset \in Nat /\ 65151 <= MaxOffset
    BY DEF MaxOffset
  <2> QED BY <2>1, <2>2, <2>3
<1>11. Written'
  BY <1>1, <1>2, <1>9 DEF Written
<1>12. Arrived'
  BY <1>1, <1>2 DEF Arrived
<1> QED BY <1>5, <1>8, <1>9, <1>10, <1>11, <1>12

\* The TLV of a turn.
LEMMA TurnFact ==
  ASSUME WireInv, turn = "loop", Here # {}
  PROVE  \E k \in 1 .. Len(Tlvs(sent)) :
           /\ WireAt(k) /\ k \in Nat /\ 1 <= k /\ Sound(Tlvs(sent)[k])
           /\ Type = Tlvs(sent)[k].type /\ Length = Tlvs(sent)[k].length
           /\ tlv.value = Tlvs(sent)[k].value
<1>1. PICK k \in 1 .. Len(Tlvs(sent)) + 1 : WireAt(k)
  BY DEF WireInv
<1>2. sent \in Senders /\ Len(Tlvs(sent)) \in Nat
  BY TlvsFact DEF WireInv, TypeOK
<1>3. k # Len(Tlvs(sent)) + 1
  BY <1>1, BehindFact DEF WireAt
<1>4. k \in 1 .. Len(Tlvs(sent)) /\ k \in Nat /\ 1 <= k
  BY <1>2, <1>3
<1>5. EthHeader + offset = places[k]
  BY <1>1 DEF WireAt
<1> QED BY <1>1, <1>2, <1>4, <1>5, HereFact, TlvsFact

\* A turn of the loop that accounts for what it allocates.
LEMMA WireTurn ==
  ASSUME WireInv, turn = "loop", NEW k \in 1 .. Len(Tlvs(sent)), WireAt(k), Advance,
         Tlvs(sent)[k].type # END_OF_LLDPDU_TLV, Allocated(k + 1)',
         chassis' \in Ids \cup {None}, msapId' \in (Ids \X Ids) \cup {None},
         role' \in {"MASTER", "SLAVE"}, ip' \in Addrs \cup {None}, wifimods' \in WifiModules,
         haveDc' \in BOOLEAN, rxTTL' \in TTLs, alias' \in Addrs
  PROVE  WireInv'
<1>1. EthHeader + offset = places[k]
  BY DEF WireAt
<1>2. /\ Written' /\ Arrived' /\ k + 1 \in 1 .. Len(Tlvs(sent)) + 1
      /\ EthHeader + offset' = places'[k + 1] /\ offset' \in 0 .. MaxOffset
  BY <1>1, AdvanceFact
<1>3. /\ sent' = sent /\ devRole' = devRole /\ known' = known /\ turn' = "loop"
  BY DEF Advance, given
<1>4. sent \in Senders /\ Len(Tlvs(sent)) \in Nat /\ k \in Nat /\ 1 <= k
  BY TlvsFact DEF WireInv, TypeOK
<1>5. held' \in Nat
  <2> DEFINE chassisIds == Front(k + 1, CHASSIS_ID_TLV)'
             portIds    == Front(k + 1, PORT_ID_TLV)'
  <2>1. chassisIds \in Nat /\ portIds \in Nat
    <3>1. /\ Front(k + 1, CHASSIS_ID_TLV) \in Nat /\ Front(k + 1, PORT_ID_TLV) \in Nat
      BY <1>4, FrontFact
    <3>2. \A type : Front(k + 1, type)' = Front(k + 1, type)
      BY <1>3 DEF Front
    <3> QED BY <3>1, <3>2 DEF CHASSIS_ID_TLV, PORT_ID_TLV
  <2>2. /\ portIds + (IF chassis' # None THEN 1 ELSE 0) <= chassisIds
        /\ held' = 2 * (chassisIds - portIds) + portIds
    BY <1>3 DEF Allocated, StillAllocated, Copy
  <2> HIDE DEF chassisIds, portIds
  <2> QED BY <2>1, <2>2
<1>6. TypeOK'
  BY <1>2, <1>3, <1>5 DEF WireInv, TypeOK
<1>7. sent.odd = <<>> => k + 1 <= Len(Tlvs(sent))
  <2> HAVE sent.odd = <<>>
  <2>1. Tlvs(sent)[Len(Tlvs(sent))].type = END_OF_LLDPDU_TLV
    BY <1>4, ProperTlvs, EndSound
  <2>2. k # Len(Tlvs(sent))
    BY <2>1
  <2> QED BY <1>4, <2>2
<1>8. WireAt(k + 1)'
  BY <1>2, <1>3, <1>7 DEF WireAt
<1>9. k + 1 \in (1 .. Len(Tlvs(sent)) + 1)'
  BY <1>2, <1>3
<1> QED BY <1>2, <1>6, <1>8, <1>9 DEF WireInv

\* What is in front of the parser after a turn.
LEMMA FrontNext ==
  ASSUME NEW k \in Nat, 1 <= k, sent' = sent, NEW type
  PROVE  /\ Front(k, type) \in Nat
         /\ Front(k + 1, type)'
              = IF Tlvs(sent)[k].type = type THEN Front(k, type) + 1 ELSE Front(k, type)
<1>1. Front(k + 1, type)' = Front(k + 1, type)
  BY DEF Front
<1> QED BY <1>1, FrontFact

\* A turn that neither reads an identifier nor allocates.
LEMMA OtherTurn ==
  ASSUME NEW k \in Nat, 1 <= k, Allocated(k), turn = "loop", turn' = "loop",
         Tlvs(sent)[k].type \notin {CHASSIS_ID_TLV, PORT_ID_TLV},
         UNCHANGED <<sent, chassis, msapId, held, entry>>
  PROVE  Allocated(k + 1)'
<1>1. /\ Front(k + 1, CHASSIS_ID_TLV)' = Front(k, CHASSIS_ID_TLV)
      /\ Front(k + 1, PORT_ID_TLV)' = Front(k, PORT_ID_TLV)
  BY FrontNext
<1> DEFINE chassisIds == Front(k, CHASSIS_ID_TLV)
           portIds    == Front(k, PORT_ID_TLV)
<1>2. /\ portIds > 0 <=> msapId # None
      /\ portIds + StillAllocated <= chassisIds
      /\ entry = None /\ held = Copy * (chassisIds - portIds) + portIds
  BY DEF Allocated
<1>3. StillAllocated' = StillAllocated
  BY DEF StillAllocated
<1> HIDE DEF chassisIds, portIds
<1> QED BY <1>1, <1>2, <1>3 DEF Allocated, chassisIds, portIds

LEMMA ChassisIdWire == WireInv /\ ChassisId => WireInv'
<1> SUFFICES ASSUME WireInv, ChassisId PROVE WireInv'
  OBVIOUS
<1>1. /\ turn = "loop" /\ Here # {} /\ Type = CHASSIS_ID_TLV /\ Advance
      /\ chassis' = tlv.value /\ held' = held + Copy
      /\ UNCHANGED <<msapId, role, ip, wifimods, haveDc, rxTTL, alias>>
  BY DEF ChassisId, Turn
<1>2. PICK k \in 1 .. Len(Tlvs(sent)) :
        /\ WireAt(k) /\ k \in Nat /\ 1 <= k /\ Sound(Tlvs(sent)[k])
        /\ Type = Tlvs(sent)[k].type /\ Length = Tlvs(sent)[k].length
        /\ tlv.value = Tlvs(sent)[k].value
  BY <1>1, TurnFact
<1>3. /\ sent' = sent /\ turn' = "loop" /\ entry' = entry
  BY <1>1 DEF Advance, given
<1>4. chassis' \in Ids /\ chassis' # None
  BY <1>1, <1>2, SpecialFact DEF Sound
<1> DEFINE chassisIds == Front(k, CHASSIS_ID_TLV)
           portIds    == Front(k, PORT_ID_TLV)
<1>5. /\ chassisIds \in Nat /\ portIds \in Nat
      /\ Front(k + 1, CHASSIS_ID_TLV)' = chassisIds + 1
      /\ Front(k + 1, PORT_ID_TLV)' = portIds
  BY <1>1, <1>2, <1>3, FrontNext DEF CHASSIS_ID_TLV, PORT_ID_TLV
<1>6. /\ portIds > 0 <=> msapId # None
      /\ portIds + StillAllocated <= chassisIds /\ StillAllocated \in {0, 1}
      /\ entry = None /\ held = Copy * (chassisIds - portIds) + portIds
  BY <1>1, <1>2 DEF WireAt, Allocated, StillAllocated
<1>7. StillAllocated' = 1
  BY <1>4 DEF StillAllocated
<1> HIDE DEF chassisIds, portIds
<1>8. portIds + 1 <= chassisIds + 1 /\ held' = Copy * ((chassisIds + 1) - portIds) + portIds
  BY <1>1, <1>5, <1>6 DEF Copy
<1>9. Allocated(k + 1)'
  BY <1>1, <1>3, <1>5, <1>6, <1>7, <1>8 DEF Allocated
<1>10. Tlvs(sent)[k].type # END_OF_LLDPDU_TLV
  BY <1>1, <1>2 DEF CHASSIS_ID_TLV, END_OF_LLDPDU_TLV
<1> QED BY <1>1, <1>2, <1>4, <1>9, <1>10, WireTurn DEF WireInv, TypeOK

LEMMA PortIdWire == WireInv /\ PortId => WireInv'
<1> SUFFICES ASSUME WireInv, PortId PROVE WireInv'
  OBVIOUS
<1>1. /\ turn = "loop" /\ Here # {} /\ Type = PORT_ID_TLV /\ Advance /\ chassis # None
      /\ msapId' = <<chassis, tlv.value>> /\ chassis' = None
      /\ held' = held + Copy + 1 - Copy - Copy
      /\ UNCHANGED <<role, ip, wifimods, haveDc, rxTTL, alias>>
  BY DEF PortId, Turn
<1>2. PICK k \in 1 .. Len(Tlvs(sent)) :
        /\ WireAt(k) /\ k \in Nat /\ 1 <= k /\ Sound(Tlvs(sent)[k])
        /\ Type = Tlvs(sent)[k].type /\ Length = Tlvs(sent)[k].length
        /\ tlv.value = Tlvs(sent)[k].value
  BY <1>1, TurnFact
<1>3. /\ sent' = sent /\ turn' = "loop" /\ entry' = entry
  BY <1>1 DEF Advance, given
<1>4. chassis \in Ids /\ tlv.value \in Ids
  BY <1>1, <1>2 DEF Sound, WireInv, TypeOK
<1>a. msapId' \in Ids \X Ids /\ msapId' # None
  BY <1>1, <1>4, SpecialFact
<1> DEFINE chassisIds == Front(k, CHASSIS_ID_TLV)
           portIds    == Front(k, PORT_ID_TLV)
<1>5. /\ chassisIds \in Nat /\ portIds \in Nat
      /\ Front(k + 1, CHASSIS_ID_TLV)' = chassisIds
      /\ Front(k + 1, PORT_ID_TLV)' = portIds + 1
  BY <1>1, <1>2, <1>3, FrontNext DEF CHASSIS_ID_TLV, PORT_ID_TLV
<1>6. /\ portIds + 1 <= chassisIds
      /\ entry = None /\ held = Copy * (chassisIds - portIds) + portIds
  BY <1>1, <1>2 DEF WireAt, Allocated, StillAllocated
<1>7. StillAllocated' = 0
  BY <1>1 DEF StillAllocated
<1> HIDE DEF chassisIds, portIds
<1>8. /\ (portIds + 1) + 0 <= chassisIds /\ portIds + 1 > 0
      /\ held' = Copy * (chassisIds - (portIds + 1)) + (portIds + 1)
  BY <1>1, <1>5, <1>6 DEF Copy
<1>9. Allocated(k + 1)'
  BY <1>a, <1>3, <1>5, <1>6, <1>7, <1>8 DEF Allocated
<1>10. Tlvs(sent)[k].type # END_OF_LLDPDU_TLV
  BY <1>1, <1>2 DEF PORT_ID_TLV, END_OF_LLDPDU_TLV
<1> QED BY <1>a, <1>1, <1>2, <1>9, <1>10, WireTurn DEF WireInv, TypeOK

LEMMA TimeToLiveWire == WireInv /\ TimeToLive => WireInv'
<1> SUFFICES ASSUME WireInv, TimeToLive PROVE WireInv'
  OBVIOUS
<1>1. /\ turn = "loop" /\ Here # {} /\ Type = TIME_TO_LIVE_TLV /\ Advance
      /\ rxTTL' = IF Length = 2 THEN tlv.value ELSE rxTTL
      /\ UNCHANGED <<chassis, msapId, role, ip, wifimods, haveDc, alias, held>>
  BY DEF TimeToLive, Turn
<1>2. PICK k \in 1 .. Len(Tlvs(sent)) :
        /\ WireAt(k) /\ k \in Nat /\ 1 <= k /\ Sound(Tlvs(sent)[k])
        /\ Type = Tlvs(sent)[k].type /\ Length = Tlvs(sent)[k].length
        /\ tlv.value = Tlvs(sent)[k].value
  BY <1>1, TurnFact
<1>3. /\ sent' = sent /\ turn' = "loop" /\ entry' = entry
  BY <1>1 DEF Advance, given
<1>4. rxTTL' \in TTLs
  BY <1>1, <1>2 DEF Sound, WireInv, TypeOK
<1>5. /\ Tlvs(sent)[k].type # END_OF_LLDPDU_TLV
      /\ Tlvs(sent)[k].type \notin {CHASSIS_ID_TLV, PORT_ID_TLV}
  BY <1>1, <1>2 DEF TIME_TO_LIVE_TLV, CHASSIS_ID_TLV, PORT_ID_TLV, END_OF_LLDPDU_TLV
<1>6. Allocated(k + 1)'
  BY <1>1, <1>2, <1>3, <1>5, OtherTurn DEF WireAt
<1> QED BY <1>1, <1>2, <1>4, <1>5, <1>6, WireTurn DEF WireInv, TypeOK

LEMMA UnreadWire == WireInv /\ Unread => WireInv'
<1> SUFFICES ASSUME WireInv, Unread PROVE WireInv'
  OBVIOUS
<1>1. /\ turn = "loop" /\ Here # {} /\ Type \in UnreadTypes /\ Advance
      /\ UNCHANGED <<chassis, msapId, role, ip, wifimods, haveDc, rxTTL, alias, held>>
  BY DEF Unread, Turn, locals
<1>2. PICK k \in 1 .. Len(Tlvs(sent)) :
        /\ WireAt(k) /\ k \in Nat /\ 1 <= k /\ Sound(Tlvs(sent)[k])
        /\ Type = Tlvs(sent)[k].type /\ Length = Tlvs(sent)[k].length
        /\ tlv.value = Tlvs(sent)[k].value
  BY <1>1, TurnFact
<1>3. /\ sent' = sent /\ turn' = "loop" /\ entry' = entry
  BY <1>1 DEF Advance, given
<1>4. /\ Tlvs(sent)[k].type # END_OF_LLDPDU_TLV
      /\ Tlvs(sent)[k].type \notin {CHASSIS_ID_TLV, PORT_ID_TLV}
  <2>1. \A t \in UnreadTypes : t \notin {END_OF_LLDPDU_TLV, CHASSIS_ID_TLV, PORT_ID_TLV}
    BY DEF UnreadTypes, PORT_DESCRIPTION_TLV, ORG_SPECIFIC_TLV, CHASSIS_ID_TLV,
           PORT_ID_TLV, END_OF_LLDPDU_TLV
  <2> QED BY <1>1, <1>2, <2>1
<1>5. Allocated(k + 1)'
  BY <1>1, <1>2, <1>3, <1>4, OtherTurn DEF WireAt
<1> QED BY <1>1, <1>2, <1>4, <1>5, WireTurn DEF WireInv, TypeOK

LEMMA WithModuleType ==
  ASSUME NEW mods \in WifiModules, NEW m \in 0 .. MaxModules
  PROVE  WithModule(mods, m) \in WifiModules
<1>1. PICK n \in 0 .. ModulesKept : mods \in [1 .. n -> 0 .. MaxModules]
  BY DEF WifiModules
<1>2. n \in Nat /\ ModulesKept \in Nat
  BY CodecAssumption
<1>3. mods \in Seq(0 .. MaxModules) /\ Len(mods) = n
  <2> DEFINE S == 0 .. MaxModules
  <2> HIDE DEF S
  <2>1. \A f : f \in [1 .. n -> S] => f \in Seq(S) /\ Len(f) = n
    BY <1>2
  <2> QED BY <1>1, <2>1 DEF S
<1>4. CASE Len(mods) < ModulesKept
  <2>1. n + 1 \in 0 .. ModulesKept
    BY <1>2, <1>3, <1>4
  <2>2. Append(mods, m) \in [1 .. n + 1 -> 0 .. MaxModules]
    <3>1. Append(mods, m) \in Seq(0 .. MaxModules) /\ Len(Append(mods, m)) = n + 1
      BY <1>3, AppendProperties
    <3> QED BY <3>1, LenProperties
  <2> QED BY <1>4, <2>1, <2>2 DEF WithModule, WifiModules
<1> QED BY <1>4 DEF WithModule

LEMMA OwnVendorWire == WireInv /\ OwnVendor => WireInv'
<1> SUFFICES ASSUME WireInv, OwnVendor PROVE WireInv'
  OBVIOUS
<1> DEFINE v == tlv.value
<1>1. /\ turn = "loop" /\ Here # {} /\ Type = ORG_SPECIFIC_TLV /\ Advance
      /\ ip' = IF v.subtype \in {"IPADDR", "SET_IP"} THEN v.data ELSE ip
      /\ alias' = IF v.subtype = "SET_IP" /\ devRole = "SLAVE" THEN v.data ELSE alias
      /\ role' = IF v.subtype = "ROLE" THEN v.data ELSE role
      /\ wifimods' = IF v.subtype = "WIFI" THEN WithModule(wifimods, v.data) ELSE wifimods
      /\ haveDc' = Peer(devRole, role')
      /\ UNCHANGED <<chassis, msapId, rxTTL, held>>
  BY DEF OwnVendor, Turn
<1>2. PICK k \in 1 .. Len(Tlvs(sent)) :
        /\ WireAt(k) /\ k \in Nat /\ 1 <= k /\ Sound(Tlvs(sent)[k])
        /\ Type = Tlvs(sent)[k].type /\ Length = Tlvs(sent)[k].length
        /\ tlv.value = Tlvs(sent)[k].value
  BY <1>1, TurnFact
<1>3. /\ sent' = sent /\ turn' = "loop" /\ entry' = entry
  BY <1>1 DEF Advance, given
<1>4. /\ v.subtype \in {"IPADDR", "SET_IP"} => v.data \in Addrs
      /\ v.subtype = "ROLE" => v.data \in {"MASTER", "SLAVE"}
      /\ v.subtype = "WIFI" => v.data \in 0 .. MaxModules
  BY <1>1, <1>2 DEF Sound
<1>5. /\ chassis \in Ids \cup {None} /\ msapId \in (Ids \X Ids) \cup {None}
      /\ role \in {"MASTER", "SLAVE"} /\ ip \in Addrs \cup {None} /\ wifimods \in WifiModules
      /\ rxTTL \in TTLs /\ alias \in Addrs
  BY DEF WireInv, TypeOK
<1> HIDE DEF v
<1>6. /\ role' \in {"MASTER", "SLAVE"} /\ ip' \in Addrs \cup {None} /\ alias' \in Addrs
      /\ haveDc' \in BOOLEAN
  BY <1>1, <1>4, <1>5 DEF Peer
<1>7. wifimods' \in WifiModules
  BY <1>1, <1>4, <1>5, WithModuleType
<1>8. /\ Tlvs(sent)[k].type # END_OF_LLDPDU_TLV
      /\ Tlvs(sent)[k].type \notin {CHASSIS_ID_TLV, PORT_ID_TLV}
  BY <1>1, <1>2 DEF ORG_SPECIFIC_TLV, CHASSIS_ID_TLV, PORT_ID_TLV, END_OF_LLDPDU_TLV
<1>9. Allocated(k + 1)'
  BY <1>1, <1>2, <1>3, <1>8, OtherTurn DEF WireAt
<1>10. chassis' \in Ids \cup {None} /\ msapId' \in (Ids \X Ids) \cup {None} /\ rxTTL' \in TTLs
  BY <1>1, <1>5
<1> QED BY <1>1, <1>2, <1>6, <1>7, <1>8, <1>9, <1>10, WireTurn

\* The parser stays where it is, and the frame too.
LEMMA SamePlace ==
  ASSUME WireInv, turn # "build", turn' # "build", turn' \in {"loop", "parsed", "done", "crashed"},
         NEW k \in 1 .. Len(Tlvs(sent)) + 1, WireAt(k), Allocated(k)', held' \in Nat,
         UNCHANGED <<given, offset, locals>>
  PROVE  WireInv'
<1>1. UNCHANGED <<sent, frame, frame_offset, recvsize, devRole, known, offset>>
  BY DEF given
<1>2. TypeOK'
  BY <1>1, SameType DEF WireInv
<1>3. places' = places /\ FlatTlvs' = FlatTlvs
  BY <1>1 DEF places, FlatTlvs
<1>4. Written' /\ Arrived'
  BY <1>1, <1>3 DEF WireInv, Written, Arrived
<1>5. WireAt(k)'
  BY <1>1, <1>3 DEF WireAt
<1>6. k \in (1 .. Len(Tlvs(sent)) + 1)'
  BY <1>1
<1> QED BY <1>2, <1>4, <1>5, <1>6 DEF WireInv

LEMMA LeaveOrCrashWire ==
  WireInv /\ turn = "loop" /\ turn' \in {"parsed", "crashed"}
    /\ UNCHANGED <<given, offset, locals, held, entry>> => WireInv'
<1> SUFFICES ASSUME WireInv, turn = "loop", turn' \in {"parsed", "crashed"},
                    UNCHANGED <<given, offset, locals, held, entry>>
             PROVE  WireInv'
  OBVIOUS
<1>1. PICK k \in 1 .. Len(Tlvs(sent)) + 1 : WireAt(k)
  BY DEF WireInv
<1>2. /\ sent' = sent /\ UNCHANGED <<chassis, msapId, held, entry>>
      /\ held' \in Nat /\ turn # "done" /\ turn' # "done"
  BY DEF WireInv, TypeOK, given, locals
<1>3. Allocated(k)'
  BY <1>1, <1>2, SameAllocated DEF WireAt
<1> QED BY <1>1, <1>2, <1>3, SamePlace

LEMMA StoreWire == WireInv /\ Store => WireInv'
<1> SUFFICES ASSUME WireInv, Store PROVE WireInv'
  OBVIOUS
<1>1. /\ turn = "parsed" /\ msapId # None /\ turn' = "done"
      /\ entry' = [id |-> msapId, ttl |-> rxTTL, allocated |-> FALSE, ip |-> ip,
                   wifi |-> \E i \in DOMAIN wifimods : wifimods[i] # 0]
      /\ held' = held + 1 - 2 + Kept - StillAllocated
      /\ UNCHANGED <<given, offset, locals>>
  BY DEF Store
<1>2. PICK k \in 1 .. Len(Tlvs(sent)) + 1 : WireAt(k)
  BY DEF WireInv
<1>3. sent \in Senders /\ Len(Tlvs(sent)) \in Nat /\ k \in Nat /\ 1 <= k
  BY TlvsFact DEF WireInv, TypeOK
<1>4. /\ sent' = sent /\ known' = known /\ chassis' = chassis /\ msapId' = msapId
      /\ StillAllocated' = StillAllocated /\ StillAllocated \in {0, 1} /\ known \in BOOLEAN
  BY <1>1 DEF given, locals, StillAllocated, WireInv, TypeOK
<1>5. entry' # None
  <2> DEFINE wifi == \E i \in DOMAIN wifimods : wifimods[i] # 0
  <2>1. /\ msapId \in Ids \X Ids /\ rxTTL \in TTLs /\ ip \in Addrs \cup {None}
        /\ FALSE \in BOOLEAN /\ wifi \in BOOLEAN
    BY <1>1 DEF WireInv, TypeOK
  <2> HIDE DEF wifi
  <2>2. [id |-> msapId, ttl |-> rxTTL, allocated |-> FALSE, ip |-> ip, wifi |-> wifi]
          \in [id : Ids \X Ids, ttl : TTLs, allocated : BOOLEAN, ip : Addrs \cup {None},
               wifi : BOOLEAN]
    BY <2>1
  <2>3. entry' = [id |-> msapId, ttl |-> rxTTL, allocated |-> FALSE, ip |-> ip, wifi |-> wifi]
    BY <1>1 DEF wifi
  <2> QED BY <2>2, <2>3, ValueAssumption
<1> DEFINE chassisIds == Front(k, CHASSIS_ID_TLV)
           portIds    == Front(k, PORT_ID_TLV)
           still      == StillAllocated
<1>6. /\ chassisIds \in Nat /\ portIds \in Nat
      /\ Front(k, CHASSIS_ID_TLV)' = chassisIds /\ Front(k, PORT_ID_TLV)' = portIds
  <2>1. \A type : Front(k, type)' = Front(k, type)
    BY <1>4 DEF Front
  <2> QED BY <1>3, <2>1, FrontFact DEF CHASSIS_ID_TLV, PORT_ID_TLV
<1>7. /\ portIds > 0 /\ portIds + still <= chassisIds
      /\ held = 2 * (chassisIds - portIds) + portIds
  BY <1>1, <1>2 DEF WireAt, Allocated, Copy
<1>8. held' = held - 1 + (IF known THEN 0 ELSE 2) - still
  <2>1. held \in Nat
    BY DEF WireInv, TypeOK
  <2> QED BY <1>1, <1>4, <2>1 DEF Kept
<1>9. StillAllocated' = still /\ still \in {0, 1}
  BY <1>4
<1> HIDE DEF chassisIds, portIds, still
<1>10. /\ held' = (IF ~known THEN 2 ELSE 0) + 2 * (chassisIds - portIds) + (portIds - 1) - still
       /\ held' \in Nat
  BY <1>4, <1>6, <1>7, <1>8, <1>9
<1>11. Allocated(k)'
  BY <1>1, <1>4, <1>5, <1>6, <1>7, <1>9, <1>10 DEF Allocated, Copy
<1>12. turn # "build" /\ turn' # "build" /\ turn' \in {"loop", "parsed", "done", "crashed"}
  BY <1>1
<1> QED BY <1>1, <1>2, <1>10, <1>11, <1>12, SamePlace

LEMMA ForgetWire == WireInv /\ Forget => WireInv'
<1> SUFFICES ASSUME WireInv, Forget PROVE WireInv'
  OBVIOUS
<1>1. /\ turn = "parsed" /\ turn' = "done" /\ entry' = entry
      /\ held' = IF msapId # None THEN held - 1 ELSE held
      /\ UNCHANGED <<given, offset, locals>>
  BY DEF Forget
<1>2. PICK k \in 1 .. Len(Tlvs(sent)) + 1 : WireAt(k)
  BY DEF WireInv
<1>3. sent \in Senders /\ Len(Tlvs(sent)) \in Nat /\ k \in Nat /\ 1 <= k
  BY TlvsFact DEF WireInv, TypeOK
<1>4. /\ sent' = sent /\ msapId' = msapId
      /\ StillAllocated' = StillAllocated /\ StillAllocated \in {0, 1}
  BY <1>1 DEF given, locals, StillAllocated
<1> DEFINE chassisIds == Front(k, CHASSIS_ID_TLV)
           portIds    == Front(k, PORT_ID_TLV)
           still      == StillAllocated
<1>6. /\ chassisIds \in Nat /\ portIds \in Nat
      /\ Front(k, CHASSIS_ID_TLV)' = chassisIds /\ Front(k, PORT_ID_TLV)' = portIds
  <2>1. \A type : Front(k, type)' = Front(k, type)
    BY <1>4 DEF Front
  <2> QED BY <1>3, <2>1, FrontFact DEF CHASSIS_ID_TLV, PORT_ID_TLV
<1>7. /\ portIds > 0 <=> msapId # None
      /\ portIds + still <= chassisIds /\ entry = None
      /\ held = 2 * (chassisIds - portIds) + portIds
  BY <1>1, <1>2 DEF WireAt, Allocated, Copy
<1>9. StillAllocated' = still /\ still \in {0, 1}
  BY <1>4
<1>8. held \in Nat
  BY DEF WireInv, TypeOK
<1> HIDE DEF chassisIds, portIds, still
<1>10. /\ held' = 2 * (chassisIds - portIds) + (IF portIds > 0 THEN portIds - 1 ELSE 0)
       /\ held' \in Nat
  BY <1>1, <1>6, <1>7, <1>8, <1>9
<1>11. Allocated(k)'
  BY <1>1, <1>4, <1>6, <1>7, <1>9, <1>10 DEF Allocated, Copy
<1>12. turn # "build" /\ turn' # "build" /\ turn' \in {"loop", "parsed", "done", "crashed"}
  BY <1>1
<1> QED BY <1>1, <1>2, <1>10, <1>11, <1>12, SamePlace

LEMMA UnchangedWire == WireInv /\ UNCHANGED vars => WireInv'
<1> SUFFICES ASSUME WireInv, UNCHANGED vars PROVE WireInv'
  OBVIOUS
<1>1. /\ UNCHANGED <<sent, frame, frame_offset, recvsize, devRole, known, turn, offset, held, entry>>
      /\ UNCHANGED <<chassis, msapId, role, ip, wifimods, haveDc, rxTTL, alias>>
  BY DEF vars, given, locals
<1>2. TypeOK'
  BY <1>1 DEF WireInv, TypeOK
<1>3. places' = places /\ FlatTlvs' = FlatTlvs
  BY <1>1 DEF places, FlatTlvs
<1>4. Written' /\ Arrived'
  BY <1>1, <1>3 DEF WireInv, Written, Arrived
<1>5. PICK k \in 1 .. Len(Tlvs(sent)) + 1 : WireAt(k)
  BY DEF WireInv
<1>6. Allocated(k)'
  BY <1>1, <1>5 DEF WireAt, Allocated, Front, StillAllocated
<1>7. WireAt(k)'
  BY <1>1, <1>3, <1>5, <1>6 DEF WireAt
<1>8. k \in (1 .. Len(Tlvs(sent)) + 1)'
  BY <1>1
<1> QED BY <1>2, <1>4, <1>7, <1>8 DEF WireInv

LEMMA WireInvStep == WireInv /\ [Next]_vars => WireInv'
<1>1. WireInv /\ Crash => WireInv'
  BY LeaveOrCrashWire DEF Crash, Turn
<1>2. WireInv /\ LeaveLoop => WireInv'
  BY LeaveOrCrashWire DEF LeaveLoop
<1>3. WireInv /\ OtherVendor => WireInv'
  BY UnchangedWire DEF OtherVendor
<1> QED BY <1>1, <1>2, <1>3, AddTlvWire, SendFrameWire, ChassisIdWire, PortIdWire,
           TimeToLiveWire, UnreadWire, OwnVendorWire, StoreWire, ForgetWire, UnchangedWire DEF Next

-----------------------------------------------------------------------------
(* Theorems.                                                               *)

\* At every turn of the sender's loop the frame holds the first TLVs of its list
\* one behind the other.  At every turn of the receiver's loop the parser is at a
\* TLV or behind the last, and has allocated what the identifiers in front of it
\* account for: of frames of daemons and sound agents, and of frames whose
\* identifiers or end are doubled, missing or out of order.
THEOREM WireInvariance == Spec => []WireInv
<1>1. Init => WireInv
  BY WireInit
<1>2. WireInv /\ [Next]_vars => WireInv'
  BY WireInvStep
<1> QED BY <1>1, <1>2, PTL DEF Spec

\* The locals of rxProcessFrame hold values they can hold: tlv_offset fits in its
\* 16 bits, and an entry has no more wifi modules than there is room for.
THEOREM CodecTypeCorrect == Spec => []TypeOK
<1>1. WireInv => TypeOK
  BY DEF WireInv
<1> QED BY <1>1, WireInvariance, PTL

\* The parser never takes for a header what the sender did not write as one
\* (rx_sm.c:132), however long the texts and however many the modules: in a frame
\* of a daemon or a sound agent it stays in front of the end, and in an odd frame
\* it gets behind the last TLV at most, and behind the frame only if that is cut.
THEOREM HeadersFound == Spec => []OnHeader
<1>1. WireInv => OnHeader
  <2> SUFFICES ASSUME WireInv, turn = "loop"
               PROVE  /\ Here # {} \/ EthHeader + offset = frame_offset
                      /\ ~sent.cut => EthHeader + offset <= recvsize
                      /\ sent.odd = <<>> => Here # {} /\ EthHeader + offset < recvsize
    BY DEF OnHeader
  <2>1. PICK k \in 1 .. Len(Tlvs(sent)) + 1 : WireAt(k)
    BY DEF WireInv
  <2>2. /\ sent \in Senders /\ Len(Tlvs(sent)) \in Nat /\ offset \in Nat
        /\ frame_offset \in Nat /\ recvsize \in Nat /\ (~sent.cut => frame_offset <= recvsize)
    BY TlvsFact DEF WireInv, TypeOK, Written, Arrived
  <2>3. EthHeader + offset = places[k] /\ (sent.odd = <<>> => k <= Len(Tlvs(sent)))
    BY <2>1 DEF WireAt
  <2>4. sent.odd = <<>> => ~sent.cut
    BY <2>2, SenderFact
  <2>5. CASE k \in 1 .. Len(Tlvs(sent))
    <3>1. Here # {} /\ EthHeader + offset < frame_offset
      BY <2>3, <2>5, HereFact
    <3> QED BY <2>2, <2>4, <3>1 DEF EthHeader
  <2>6. CASE k = Len(Tlvs(sent)) + 1
    <3>1. EthHeader + offset = frame_offset /\ sent.odd # <<>>
      BY <2>2, <2>3, <2>6, BehindFact
    <3> QED BY <2>2, <3>1
  <2> QED BY <2>2, <2>5, <2>6
<1> QED BY <1>1, WireInvariance, PTL

===============================================================================

--------------------------- MODULE FrameCodecProofs ---------------------------
(***************************************************************************)
(* Proofs about FrameCodec for every text a name or description may have,  *)
(* every number of wifi modules that fits in a frame and every number that *)
(* is kept: what is found in the frames of daemons and sound agents, and   *)
(* what is leaked of theirs and of odd ones.                               *)
(***************************************************************************)
EXTENDS FrameWireProofs

-----------------------------------------------------------------------------
(* The TLVs of a daemon's or a sound agent's frame, by their places.       *)

\* Every frame starts with the three mandatory TLVs.
MandatoryFirst(tlvs, f) ==
  /\ tlvs[1] = Tlv(CHASSIS_ID_TLV, 1 + 6, f.id)
  /\ tlvs[2] = Tlv(PORT_ID_TLV, 1 + IfName, f.id)
  /\ tlvs[3] = Tlv(TIME_TO_LIVE_TLV, IF f.ttl = BadTTL THEN 1 ELSE 2, f.ttl)

\* The optional ones are none the parser reads.
OptionalAt(t) == t.type \in PORT_DESCRIPTION_TLV .. MANAGEMENT_ADDRESS_TLV /\ t.length \in Nat /\ t.length <= 511

EndsAt(tlvs, n) == Len(tlvs) = n /\ tlvs[n] = Tlv(END_OF_LLDPDU_TLV, 0, None)

\* The lists of the four kinds of senders.
LEMMA DaemonTlvs ==
  ASSUME NEW s \in Senders, s.odd = <<>>, s.frame.kind \in {"master", "slave"}
  PROVE  LET f == s.frame  n == s.wifi  tlvs == Tlvs(s) IN
         /\ MandatoryFirst(tlvs, f) /\ EndsAt(tlvs, 12 + n)
         /\ \A i \in 4 .. 8 : OptionalAt(tlvs[i])
         /\ tlvs[9] = Own("VENDOR", 8, "dunchong")
         /\ tlvs[10] = Own("IPADDR", 4, f.ip)
         /\ tlvs[11] = Own("ROLE", 1, IF f.kind = "slave" THEN "SLAVE" ELSE "MASTER")
         /\ \A i \in 1 .. n : tlvs[11 + i] = Own("WIFI", 7, Mode(f, i))
<1> DEFINE f == s.frame
           n == s.wifi
           S == PartsOf(s)
           man == Mandatory(f)
           opt == Optional(s.text)
           idy == Identity(f)
           mod == Modules(f, n)
<1>1. n \in Nat /\ s.text \in Nat /\ s.text <= 511
  BY SenderFact
<1>2. Tlvs(s) = man \o opt \o idy \o mod \o End
  BY DEF Tlvs
<1>3. /\ man \in Seq(S) /\ Len(man) = 3 /\ opt \in Seq(S) /\ Len(opt) = 5
      /\ idy \in Seq(S) /\ Len(idy) = 3 /\ mod \in Seq(S) /\ Len(mod) = n
      /\ End \in Seq(S) /\ Len(End) = 1
  BY PartsFact
<1>4. /\ MandatoryFirst(man, f)
      /\ \A i \in 1 .. 5 : OptionalAt(opt[i])
      /\ idy[1] = Own("VENDOR", 8, "dunchong") /\ idy[2] = Own("IPADDR", 4, f.ip)
      /\ idy[3] = Own("ROLE", 1, IF f.kind = "slave" THEN "SLAVE" ELSE "MASTER")
      /\ \A i \in 1 .. n : mod[i] = Own("WIFI", 7, Mode(f, i))
      /\ End[1] = Tlv(END_OF_LLDPDU_TLV, 0, None)
  <2>1. MandatoryFirst(man, f)
    BY DEF MandatoryFirst, Mandatory
  <2>2. \A i \in 1 .. 5 : OptionalAt(opt[i])
    BY <1>1 DEF OptionalAt, Optional, Tlv, IfName, PORT_DESCRIPTION_TLV, SYSTEM_NAME_TLV,
                SYSTEM_DESCRIPTION_TLV, SYSTEM_CAPABILITIES_TLV, MANAGEMENT_ADDRESS_TLV
  <2>3. \A i \in 1 .. n : mod[i] = Own("WIFI", 7, Mode(f, i))
    BY DEF Modules
  <2> QED BY <2>1, <2>2, <2>3 DEF Identity, End
<1> HIDE DEF f, n, S, man, opt, idy, mod
<1>l. Len(man) = 3 /\ Len(opt) = 5 /\ Len(idy) = 3
  BY <1>3
<1>5. /\ man \o opt \in Seq(S) /\ Len(man \o opt) = 8
      /\ \A i \in 1 .. 3 : (man \o opt)[i] = man[i]
      /\ \A i \in 1 .. 5 : (man \o opt)[3 + i] = opt[i]
  <2>1. man \o opt \in Seq(S) /\ Joined(man \o opt, man, opt)
    BY <1>3, JoinFact
  <2> QED BY <1>l, <2>1 DEF Joined
<1> DEFINE head == man \o opt
<1>6. head \in Seq(S) /\ Len(head) = 8
  BY <1>5
<1>7. /\ \A i \in 1 .. 3 : head[i] = man[i]
      /\ \A i \in 4 .. 8 : OptionalAt(head[i])
  <2>1. ASSUME NEW i \in 4 .. 8 PROVE OptionalAt(head[i])
    <3>1. i - 3 \in 1 .. 5 /\ 3 + (i - 3) = i
      OBVIOUS
    <3>2. head[3 + (i - 3)] = opt[i - 3]
      BY <1>5, <3>1
    <3> QED BY <1>4, <3>1, <3>2
  <2> QED BY <1>5, <2>1
<1> HIDE DEF head
<1> DEFINE named == head \o idy
<1>8. /\ named \in Seq(S) /\ Len(named) = 11
      /\ \A i \in 1 .. 8 : named[i] = head[i]
      /\ \A i \in 1 .. 3 : named[8 + i] = idy[i]
  <2>1. head \o idy \in Seq(S) /\ Joined(head \o idy, head, idy)
    BY <1>3, <1>6, JoinFact
  <2>2. Len(head) = 8
    BY <1>6
  <2>3. named \in Seq(S) /\ Joined(named, head, idy)
    BY <2>1
  <2> HIDE DEF named
  <2> QED BY <1>l, <2>2, <2>3 DEF Joined
<1> HIDE DEF named
<1> DEFINE all == named \o mod
<1>9. /\ all \in Seq(S) /\ Len(all) = 11 + n
      /\ \A i \in 1 .. 11 : all[i] = named[i]
      /\ \A i \in 1 .. n : all[11 + i] = mod[i]
  <2>1. named \o mod \in Seq(S) /\ Joined(named \o mod, named, mod)
    BY <1>3, <1>8, JoinFact
  <2> QED BY <1>3, <1>8, <2>1 DEF Joined
<1> HIDE DEF all
<1>10. /\ all \o End \in Seq(S) /\ Len(all \o End) = 11 + n + 1
       /\ \A i \in 1 .. 11 + n : (all \o End)[i] = all[i]
       /\ \A i \in 1 .. 1 : (all \o End)[11 + n + i] = End[i]
  <2>1. all \o End \in Seq(S) /\ Joined(all \o End, all, End)
    BY <1>3, <1>9, JoinFact
  <2> QED BY <1>3, <1>9, <2>1 DEF Joined
<1>11. Tlvs(s) = all \o End
  BY <1>2 DEF all, named, head
<1> DEFINE tlvs == all \o End
<1>12. /\ Len(tlvs) = 12 + n /\ tlvs[12 + n] = End[1]
       /\ \A i \in 1 .. 11 : tlvs[i] = named[i]
       /\ \A i \in 1 .. n : tlvs[11 + i] = mod[i]
  <2>1. \A i \in 1 .. 11 : i \in 1 .. 11 + n
    BY <1>1 DEF n
  <2>2. \A i \in 1 .. n : 11 + i \in 1 .. 11 + n
    BY <1>1 DEF n
  <2>3. 11 + n + 1 = 12 + n /\ 1 \in 1 .. 1
    BY <1>1 DEF n
  <2> QED BY <1>9, <1>10, <2>1, <2>2, <2>3
<1> HIDE DEF tlvs
<1>13. \A i \in 1 .. 8 : tlvs[i] = head[i]
  BY <1>8, <1>12
<1>14. tlvs[9] = idy[1] /\ tlvs[10] = idy[2] /\ tlvs[11] = idy[3]
  <2>1. named[8 + 1] = idy[1] /\ named[8 + 2] = idy[2] /\ named[8 + 3] = idy[3]
    BY <1>8
  <2> QED BY <1>12, <2>1
<1>15. MandatoryFirst(tlvs, f)
  <2>1. tlvs[1] = man[1] /\ tlvs[2] = man[2] /\ tlvs[3] = man[3]
    BY <1>7, <1>13
  <2> QED BY <1>4, <2>1 DEF MandatoryFirst
<1>16. EndsAt(tlvs, 12 + n)
  BY <1>4, <1>12 DEF EndsAt
<1>17. \A i \in 4 .. 8 : OptionalAt(tlvs[i])
  BY <1>7, <1>13
<1> QED BY <1>4, <1>11, <1>12, <1>14, <1>15, <1>16, <1>17 DEF f, n, tlvs

LEMMA SetIpTlvs ==
  ASSUME NEW s \in Senders, s.odd = <<>>, s.frame.kind = "setip"
  PROVE  LET f == s.frame  n == s.wifi  tlvs == Tlvs(s) IN
         /\ MandatoryFirst(tlvs, f) /\ EndsAt(tlvs, 5 + n)
         /\ \A i \in 1 .. n : tlvs[3 + i] = Own("WIFI", 7, Mode(f, i))
         /\ tlvs[4 + n] = Own("SET_IP", 4, f.ip)
<1> DEFINE f == s.frame
           n == s.wifi
           S == PartsOf(s)
           man == Mandatory(f)
           mod == Modules(f, n)
           set == << Own("SET_IP", 4, f.ip) >>
<1>1. n \in Nat
  BY SenderFact, CodecAssumption
<1>2. Tlvs(s) = man \o mod \o set \o End
  BY DEF Tlvs
<1>3. /\ man \in Seq(S) /\ Len(man) = 3 /\ mod \in Seq(S) /\ Len(mod) = n
      /\ set \in Seq(S) /\ Len(set) = 1 /\ End \in Seq(S) /\ Len(End) = 1
  BY PartsFact
<1>4. /\ MandatoryFirst(man, f)
      /\ \A i \in 1 .. n : mod[i] = Own("WIFI", 7, Mode(f, i))
      /\ set[1] = Own("SET_IP", 4, f.ip)
      /\ End[1] = Tlv(END_OF_LLDPDU_TLV, 0, None)
  BY DEF MandatoryFirst, Mandatory, Modules, End
<1> HIDE DEF f, n, S, man, mod, set
<1> DEFINE head == man \o mod
<1>5. /\ head \in Seq(S) /\ Len(head) = 3 + n
      /\ \A i \in 1 .. 3 : head[i] = man[i]
      /\ \A i \in 1 .. n : head[3 + i] = mod[i]
  <2>1. man \o mod \in Seq(S) /\ Joined(man \o mod, man, mod)
    BY <1>3, JoinFact
  <2> QED BY <1>3, <2>1 DEF Joined
<1> HIDE DEF head
<1> DEFINE all == head \o set
<1>6. /\ all \in Seq(S) /\ Len(all) = 3 + n + 1
      /\ \A i \in 1 .. 3 + n : all[i] = head[i]
      /\ \A i \in 1 .. 1 : all[3 + n + i] = set[i]
  <2>1. head \o set \in Seq(S) /\ Joined(head \o set, head, set)
    BY <1>3, <1>5, JoinFact
  <2> QED BY <1>3, <1>5, <2>1 DEF Joined
<1>7. 3 + n + 1 = 4 + n /\ 4 + n + 1 = 5 + n /\ 1 \in 1 .. 1 /\ 4 + n \in Nat
  BY <1>1 DEF n
<1> HIDE DEF all
<1> DEFINE tlvs == all \o End
<1>8. /\ Len(tlvs) = 4 + n + 1
      /\ \A i \in 1 .. 4 + n : tlvs[i] = all[i]
      /\ \A i \in 1 .. 1 : tlvs[4 + n + i] = End[i]
  <2>1. all \o End \in Seq(S) /\ Joined(all \o End, all, End)
    BY <1>3, <1>6, JoinFact
  <2>2. Len(all) = 4 + n /\ Len(End) = 1
    BY <1>3, <1>6, <1>7
  <2> QED BY <2>1, <2>2 DEF Joined
<1>9. Tlvs(s) = tlvs
  BY <1>2 DEF all, head
<1> HIDE DEF tlvs
<1>10. \A i \in 1 .. 3 + n : i \in 1 .. 4 + n
  BY <1>1 DEF n
<1>11. \A i \in 1 .. 3 + n : tlvs[i] = head[i]
  BY <1>6, <1>8, <1>10
<1>12. MandatoryFirst(tlvs, f)
  <2>1. \A i \in 1 .. 3 : i \in 1 .. 3 + n
    BY <1>1 DEF n
  <2>2. tlvs[1] = man[1] /\ tlvs[2] = man[2] /\ tlvs[3] = man[3]
    BY <1>5, <1>11, <2>1
  <2> QED BY <1>4, <2>2 DEF MandatoryFirst
<1>13. EndsAt(tlvs, 5 + n)
  BY <1>4, <1>7, <1>8 DEF EndsAt
<1>14. \A i \in 1 .. n : tlvs[3 + i] = Own("WIFI", 7, Mode(f, i))
  <2>1. \A i \in 1 .. n : 3 + i \in 1 .. 3 + n
    BY <1>1 DEF n
  <2> QED BY <1>4, <1>5, <1>11, <2>1
<1>15. tlvs[4 + n] = Own("SET_IP", 4, f.ip)
  <2>1. 4 + n \in 1 .. 4 + n
    BY <1>1 DEF n
  <2> QED BY <1>4, <1>6, <1>7, <1>8, <2>1
<1> QED BY <1>9, <1>12, <1>13, <1>14, <1>15 DEF f, n

LEMMA PlainTlvs ==
  ASSUME NEW s \in Senders, s.odd = <<>>, s.frame.kind = "plain"
  PROVE  LET tlvs == Tlvs(s) IN
         /\ MandatoryFirst(tlvs, s.frame) /\ EndsAt(tlvs, 9)
         /\ \A i \in 4 .. 8 : OptionalAt(tlvs[i])
<1> DEFINE f == s.frame
<1>1. s.text \in Nat /\ s.text <= 511
  BY SenderFact, CodecAssumption
<1>2. Tlvs(s) = Mandatory(f) \o Optional(s.text) \o End
  BY DEF Tlvs
<1>3. /\ Mandatory(f) = << Mandatory(f)[1], Mandatory(f)[2], Mandatory(f)[3] >>
      /\ MandatoryFirst(Mandatory(f), f)
  BY DEF Mandatory, MandatoryFirst
<1>4. MandatoryFirst(Tlvs(s), f) /\ EndsAt(Tlvs(s), 9)
  BY <1>2 DEF Mandatory, Optional, End, MandatoryFirst, EndsAt
<1>5. \A i \in 4 .. 8 : Tlvs(s)[i] = Optional(s.text)[i - 3]
  BY <1>2 DEF Mandatory, Optional, End
<1>6. \A i \in 1 .. 5 : OptionalAt(Optional(s.text)[i])
  BY <1>1 DEF OptionalAt, Optional, Tlv, IfName, PORT_DESCRIPTION_TLV, SYSTEM_NAME_TLV,
              SYSTEM_DESCRIPTION_TLV, SYSTEM_CAPABILITIES_TLV, MANAGEMENT_ADDRESS_TLV
<1>7. \A i \in 4 .. 8 : i - 3 \in 1 .. 5
  OBVIOUS
<1> QED BY <1>4, <1>5, <1>6, <1>7

LEMMA OtherVendorTlvs ==
  ASSUME NEW s \in Senders, s.odd = <<>>, s.frame.kind = "othervendor"
  PROVE  LET tlvs == Tlvs(s) IN
         /\ MandatoryFirst(tlvs, s.frame) /\ EndsAt(tlvs, 5)
         /\ tlvs[4] = Vendor("other", "any", 5, "any")
BY DEF Tlvs, Mandatory, End, MandatoryFirst, EndsAt

LEMMA MandatoryFact ==
  ASSUME NEW s \in Senders, s.odd = <<>>
  PROVE  MandatoryFirst(Tlvs(s), s.frame)
BY SenderFact, DaemonTlvs, SetIpTlvs, PlainTlvs, OtherVendorTlvs DEF Kinds

\* What the k-th TLV of a frame may be.
TlvAt(s, k) ==
  LET f == s.frame  n == s.wifi  t == Tlvs(s)[k] IN
  \/ k = 1 /\ t = Tlv(CHASSIS_ID_TLV, 7, f.id)
  \/ k = 2 /\ t = Tlv(PORT_ID_TLV, 5, f.id)
  \/ k = 3 /\ t = Tlv(TIME_TO_LIVE_TLV, IF f.ttl = BadTTL THEN 1 ELSE 2, f.ttl)
  \/ k \in 4 .. 8 /\ f.kind \in {"master", "slave", "plain"} /\ OptionalAt(t)
  \/ f.kind \in {"master", "slave"} /\
       \/ k = 9 /\ t = Own("VENDOR", 8, "dunchong")
       \/ k = 10 /\ t = Own("IPADDR", 4, f.ip)
       \/ k = 11 /\ t = Own("ROLE", 1, IF f.kind = "slave" THEN "SLAVE" ELSE "MASTER")
       \/ k \in 12 .. 11 + n /\ t = Own("WIFI", 7, Mode(f, k - 11))
  \/ f.kind = "setip" /\
       \/ k \in 4 .. 3 + n /\ t = Own("WIFI", 7, Mode(f, k - 3))
       \/ k = 4 + n /\ t = Own("SET_IP", 4, f.ip)
  \/ f.kind = "othervendor" /\ k = 4 /\ t = Vendor("other", "any", 5, "any")
  \/ k = Len(Tlvs(s)) /\ t = Tlv(END_OF_LLDPDU_TLV, 0, None)

\* How long a list of TLVs is.
LengthOf(s) ==
  CASE s.frame.kind \in {"master", "slave"} -> 12 + s.wifi
    [] s.frame.kind = "setip" -> 5 + s.wifi
    [] s.frame.kind = "plain" -> 9
    [] s.frame.kind = "othervendor" -> 5

LEMMA LengthFact ==
  ASSUME NEW s \in Senders, s.odd = <<>>
  PROVE  /\ Len(Tlvs(s)) = LengthOf(s)
         /\ LengthOf(s) \in Nat /\ 5 <= LengthOf(s) /\ LengthOf(s) <= 12 + MaxModules
<1>1. s.wifi \in Nat /\ s.wifi <= MaxModules /\ s.frame.kind \in Kinds /\ MaxModules \in Nat
  BY SenderFact, CodecAssumption
<1>2. CASE s.frame.kind \in {"master", "slave"}
  <2>1. Len(Tlvs(s)) = 12 + s.wifi
    BY <1>2, DaemonTlvs DEF EndsAt
  <2>2. LengthOf(s) = 12 + s.wifi
    BY <1>2 DEF LengthOf
  <2> QED BY <1>1, <2>1, <2>2
<1>3. CASE s.frame.kind = "setip"
  BY <1>1, <1>3, SetIpTlvs DEF EndsAt, LengthOf
<1>4. CASE s.frame.kind = "plain"
  BY <1>1, <1>4, PlainTlvs DEF EndsAt, LengthOf
<1>5. CASE s.frame.kind = "othervendor"
  BY <1>1, <1>5, OtherVendorTlvs DEF EndsAt, LengthOf
<1> QED BY <1>1, <1>2, <1>3, <1>4, <1>5 DEF Kinds

LEMMA PlaceFact ==
  ASSUME NEW s \in Senders, s.odd = <<>>, NEW k \in 1 .. Len(Tlvs(s))
  PROVE  TlvAt(s, k)
<1> DEFINE f == s.frame
           n == s.wifi
           tlvs == Tlvs(s)
<1>1. n \in Nat /\ f.kind \in Kinds
  BY SenderFact
<1>2. k \in 1 .. LengthOf(s)
  BY LengthFact
<1>3. MandatoryFirst(tlvs, f)
  BY <1>1, DaemonTlvs, SetIpTlvs, PlainTlvs, OtherVendorTlvs DEF Kinds
<1>4. CASE k \in 1 .. 3
  BY <1>3, <1>4 DEF MandatoryFirst, TlvAt, IfName
<1>5. CASE k \notin 1 .. 3 /\ f.kind \in {"master", "slave"}
  <2> DEFINE t == tlvs[k]
  <2>1. /\ \A i \in 4 .. 8 : OptionalAt(tlvs[i])
        /\ tlvs[9] = Own("VENDOR", 8, "dunchong")
        /\ tlvs[10] = Own("IPADDR", 4, f.ip)
        /\ tlvs[11] = Own("ROLE", 1, IF f.kind = "slave" THEN "SLAVE" ELSE "MASTER")
        /\ \A i \in 1 .. n : tlvs[11 + i] = Own("WIFI", 7, Mode(f, i))
        /\ Len(tlvs) = 12 + n /\ tlvs[12 + n] = Tlv(END_OF_LLDPDU_TLV, 0, None)
    BY <1>5, DaemonTlvs DEF EndsAt
  <2>2. k \in 4 .. 12 + n
    BY <1>1, <1>5, <2>1
  <2>3. \/ k \in 4 .. 8 \/ k = 9 \/ k = 10 \/ k = 11
        \/ (k \in 12 .. 11 + n /\ k - 11 \in 1 .. n /\ 11 + (k - 11) = k) \/ k = 12 + n
    BY <1>1, <2>2
  <2> HIDE DEF f, n, tlvs
  <2>4. \/ k \in 4 .. 8 /\ OptionalAt(t)
        \/ k = 9 /\ t = Own("VENDOR", 8, "dunchong")
        \/ k = 10 /\ t = Own("IPADDR", 4, f.ip)
        \/ k = 11 /\ t = Own("ROLE", 1, IF f.kind = "slave" THEN "SLAVE" ELSE "MASTER")
        \/ k \in 12 .. 11 + n /\ t = Own("WIFI", 7, Mode(f, k - 11))
        \/ k = Len(tlvs) /\ t = Tlv(END_OF_LLDPDU_TLV, 0, None)
    BY <2>1, <2>3
  <2> QED BY <1>5, <2>4 DEF TlvAt, f, n, tlvs
<1>6. CASE k \notin 1 .. 3 /\ f.kind = "setip"
  <2> DEFINE t == tlvs[k]
  <2>1. /\ \A i \in 1 .. n : tlvs[3 + i] = Own("WIFI", 7, Mode(f, i))
        /\ tlvs[4 + n] = Own("SET_IP", 4, f.ip)
        /\ Len(tlvs) = 5 + n /\ tlvs[5 + n] = Tlv(END_OF_LLDPDU_TLV, 0, None)
    BY <1>6, SetIpTlvs DEF EndsAt
  <2>2. \/ (k \in 4 .. 3 + n /\ k - 3 \in 1 .. n /\ 3 + (k - 3) = k)
        \/ k = 4 + n \/ k = 5 + n
    BY <1>1, <1>6, <2>1
  <2> HIDE DEF f, n, tlvs
  <2>3. \/ k \in 4 .. 3 + n /\ t = Own("WIFI", 7, Mode(f, k - 3))
        \/ k = 4 + n /\ t = Own("SET_IP", 4, f.ip)
        \/ k = Len(tlvs) /\ t = Tlv(END_OF_LLDPDU_TLV, 0, None)
    BY <2>1, <2>2
  <2> QED BY <1>6, <2>3 DEF TlvAt, f, n, tlvs
<1>7. CASE k \notin 1 .. 3 /\ f.kind = "plain"
  <2>1. /\ \A i \in 4 .. 8 : OptionalAt(tlvs[i])
        /\ Len(tlvs) = 9 /\ tlvs[9] = Tlv(END_OF_LLDPDU_TLV, 0, None)
    BY <1>7, PlainTlvs DEF EndsAt
  <2>2. k \in 4 .. 8 \/ k = 9
    BY <1>7, <2>1
  <2> QED BY <1>7, <2>1, <2>2 DEF TlvAt
<1>8. CASE k \notin 1 .. 3 /\ f.kind = "othervendor"
  <2>1. /\ tlvs[4] = Vendor("other", "any", 5, "any")
        /\ Len(tlvs) = 5 /\ tlvs[5] = Tlv(END_OF_LLDPDU_TLV, 0, None)
    BY <1>8, OtherVendorTlvs DEF EndsAt
  <2>2. k = 4 \/ k = 5
    BY <1>8, <2>1
  <2> QED BY <1>8, <2>1, <2>2 DEF TlvAt
<1> QED BY <1>1, <1>4, <1>5, <1>6, <1>7, <1>8 DEF Kinds

-----------------------------------------------------------------------------
(* The inductive invariant.                                                *)

FirstModules(f, n) == [i \in 1 .. n |-> Mode(f, i)]
Least(m, n)        == IF m < n THEN m ELSE n

\* The modules the parser has kept when m were in front of it.
KeptOf(f, m) == FirstModules(f, Least(m, ModulesKept))

\* What the parser has found in front of the k-th TLV: who sent the frame, ...
FoundIds(k) ==
  LET f == sent.frame IN
  /\ chassis = IF k = 2 THEN f.id ELSE None
  /\ msapId = IF k > 2 THEN <<f.id, f.id>> ELSE None
  /\ rxTTL = IF k > 3 /\ f.ttl # BadTTL THEN f.ttl ELSE 0

\* ... and what the vendor TLVs say of the sender, by the kind of the frame.
FoundDaemon(k) ==
  LET f == sent.frame IN
  /\ role = IF k > 11 /\ f.kind = "slave" THEN "SLAVE" ELSE "MASTER"
  /\ ip = IF k > 10 THEN f.ip ELSE None
  /\ haveDc <=> k > 9 /\ Peer(devRole, role)
  /\ wifimods = IF k > 12 THEN KeptOf(f, k - 12) ELSE KeptOf(f, 0)
  /\ alias = OwnAddr

FoundSetIp(k) ==
  LET f == sent.frame  last == k > 4 + sent.wifi IN
  /\ role = "MASTER"
  /\ ip = IF last THEN f.ip ELSE None
  /\ haveDc <=> k > 4 /\ Peer(devRole, "MASTER")
  /\ wifimods = CASE last -> KeptOf(f, sent.wifi)
                  [] k > 4 /\ ~last -> KeptOf(f, k - 4)
                  [] OTHER -> KeptOf(f, 0)
  /\ alias = IF last /\ devRole = "SLAVE" THEN f.ip ELSE OwnAddr

FoundNothing ==
  role = "MASTER" /\ ip = None /\ ~haveDc /\ wifimods = <<>> /\ alias = OwnAddr

FoundVendor(k) ==
  /\ sent.frame.kind \in {"master", "slave"} => FoundDaemon(k)
  /\ sent.frame.kind = "setip" => FoundSetIp(k)
  /\ sent.frame.kind \in {"plain", "othervendor"} => FoundNothing
  /\ sent.frame.kind = "othervendor" => k <= 4

\* What is handed to the cache.
Outcome ==
  /\ turn # "done" \/ ~haveDc => entry = None
  /\ turn = "done" /\ haveDc =>
       entry = [id |-> msapId, ttl |-> rxTTL, allocated |-> FALSE, ip |-> ip,
                wifi |-> \E i \in DOMAIN wifimods : wifimods[i] # 0]

\* The parser is at the k-th TLV of the frame of a daemon or a sound agent.
At(k) ==
  /\ EthHeader + offset = places[k]
  /\ turn = "build" => k = 1
  /\ turn \in {"parsed", "done"} => k = Len(Tlvs(sent))
  /\ turn # "crashed"
  /\ FoundIds(k) /\ FoundVendor(k) /\ Outcome

Parsed == \E k \in 1 .. Len(Tlvs(sent)) : At(k)

CodecInv == WireInv /\ (sent.odd = <<>> => Parsed)

\* What the steps of such a frame start from.
Proper == WireInv /\ sent.odd = <<>> /\ Parsed

LEMMA ProperFact ==
  ASSUME Proper
  PROVE  /\ sent \in Senders /\ sent.odd = <<>>
         /\ Len(Tlvs(sent)) \in Nat /\ Len(Tlvs(sent)) = LengthOf(sent) /\ 5 <= Len(Tlvs(sent))
         /\ haveDc \in BOOLEAN /\ devRole \in {"MASTER", "SLAVE"}
         /\ Written /\ Arrived
BY LengthFact DEF Proper, WireInv, TypeOK

LEMMA ParsedInit == Init => (sent.odd = <<>> => Parsed)
<1> SUFFICES ASSUME Init, sent.odd = <<>> PROVE Parsed
  OBVIOUS
<1> USE DEF Init
<1>1. sent \in Senders /\ 1 \in 1 .. Len(Tlvs(sent))
  BY LengthFact
<1>2. Len(frame) = 0
  OBVIOUS
<1>3. KeptOf(sent.frame, 0) = <<>>
  <2>1. Least(0, ModulesKept) = 0
    BY CodecAssumption DEF Least
  <2> QED BY <2>1 DEF KeptOf, FirstModules
<1>4. FoundIds(1)
  BY DEF FoundIds
<1>5. FoundVendor(1)
  BY <1>1, <1>3, SenderFact DEF FoundVendor, FoundDaemon, FoundSetIp, FoundNothing
<1>6. EthHeader + offset = places[1]
  BY <1>2 DEF places, EthHeader
<1>7. At(1)
  BY <1>4, <1>5, <1>6 DEF At, Outcome
<1> QED BY <1>1, <1>7 DEF Parsed

\* What the sender does leaves the parser at the first TLV.
LEMMA SenderStep ==
  ASSUME Proper, turn = "build", turn' \in {"build", "loop"}, WireInv', places'[1] = places[1],
         UNCHANGED <<sent, devRole, known, offset, locals, held, entry>>
  PROVE  Parsed'
<1>1. At(1)
  BY DEF Proper, Parsed, At
<1>2. UNCHANGED <<chassis, msapId, role, ip, wifimods, haveDc, rxTTL, alias>>
  BY DEF locals
<1>3. FoundIds(1)' /\ FoundVendor(1)' /\ Outcome'
  BY <1>1, <1>2 DEF At, FoundIds, FoundVendor, FoundDaemon, FoundSetIp, FoundNothing, Outcome
<1>4. At(1)'
  BY <1>1, <1>3 DEF At
<1>5. 1 \in (1 .. Len(Tlvs(sent)))'
  BY ProperFact
<1> QED BY <1>4, <1>5 DEF Parsed

LEMMA AddTlvStep == Proper /\ AddTlv => Parsed'
<1> SUFFICES ASSUME Proper, AddTlv PROVE Parsed'
  OBVIOUS
<1>1. WireInv'
  BY AddTlvWire DEF Proper
<1>2. places'[1] = places[1]
  BY <1>1 DEF Proper, WireInv, Written
<1> QED BY <1>1, <1>2, SenderStep DEF AddTlv

LEMMA SendFrameStep == Proper /\ SendFrame => Parsed'
<1> SUFFICES ASSUME Proper, SendFrame PROVE Parsed'
  OBVIOUS
<1>1. WireInv'
  BY SendFrameWire DEF Proper
<1>2. places'[1] = places[1]
  BY <1>1 DEF Proper, WireInv, Written
<1> QED BY <1>1, <1>2, SenderStep DEF SendFrame

-----------------------------------------------------------------------------
(* The parser.                                                             *)

LEMMA EndFact ==
  ASSUME NEW s \in Senders, s.odd = <<>>
  PROVE  Tlvs(s)[Len(Tlvs(s))] = Tlv(END_OF_LLDPDU_TLV, 0, None)
<1>1. s.frame.kind \in Kinds
  BY SenderFact
<1>2. \E n : EndsAt(Tlvs(s), n)
  BY <1>1, DaemonTlvs, SetIpTlvs, PlainTlvs, OtherVendorTlvs DEF Kinds
<1> QED BY <1>2 DEF EndsAt

\* The type of a TLV tells its place.
VendorAt(s, k) ==
  LET f == s.frame  n == s.wifi  t == Tlvs(s)[k] IN
  \/ f.kind \in {"master", "slave"} /\
       \/ k = 9 /\ t = Own("VENDOR", 8, "dunchong")
       \/ k = 10 /\ t = Own("IPADDR", 4, f.ip)
       \/ k = 11 /\ t = Own("ROLE", 1, IF f.kind = "slave" THEN "SLAVE" ELSE "MASTER")
       \/ k \in 12 .. 11 + n /\ t = Own("WIFI", 7, Mode(f, k - 11))
  \/ f.kind = "setip" /\
       \/ k \in 4 .. 3 + n /\ t = Own("WIFI", 7, Mode(f, k - 3))
       \/ k = 4 + n /\ t = Own("SET_IP", 4, f.ip)
  \/ f.kind = "othervendor" /\ k = 4 /\ t = Vendor("other", "any", 5, "any")

LEMMA TypeTells ==
  ASSUME NEW s \in Senders, s.odd = <<>>, NEW k \in 1 .. Len(Tlvs(s))
  PROVE  LET t == Tlvs(s)[k]  f == s.frame IN
         /\ t.type = CHASSIS_ID_TLV => k = 1 /\ t.value = f.id
         /\ t.type = PORT_ID_TLV => k = 2 /\ t.value = f.id
         /\ t.type = TIME_TO_LIVE_TLV => k = 3 /\ t.value = f.ttl /\ (t.length = 2 <=> f.ttl # BadTTL)
         /\ t.type \in UnreadTypes =>
              k \in 4 .. 8 /\ f.kind \in {"master", "slave", "plain"}
         /\ t.type = ORG_SPECIFIC_TLV => VendorAt(s, k)
         /\ t.type = END_OF_LLDPDU_TLV <=> k = Len(Tlvs(s))
<1> DEFINE t == Tlvs(s)[k]
           f == s.frame
<1> USE DEF END_OF_LLDPDU_TLV, CHASSIS_ID_TLV, PORT_ID_TLV, TIME_TO_LIVE_TLV,
            PORT_DESCRIPTION_TLV, MANAGEMENT_ADDRESS_TLV, ORG_SPECIFIC_TLV
<1>1. TlvAt(s, k)
  BY PlaceFact
<1>2. \/ k = 1 /\ t.type = 1 /\ t.value = f.id
      \/ k = 2 /\ t.type = 2 /\ t.value = f.id
      \/ k = 3 /\ t.type = 3 /\ t.value = f.ttl /\ (t.length = 2 <=> f.ttl # BadTTL)
      \/ k \in 4 .. 8 /\ t.type \in 4 .. 8 /\ f.kind \in {"master", "slave", "plain"}
      \/ t.type = 127 /\ VendorAt(s, k)
      \/ t.type = 0 /\ k = Len(Tlvs(s))
  <2>1. ASSUME VendorAt(s, k) PROVE t.type = 127
    <3>1. \E oui, subtype, size, data : t = Vendor(oui, subtype, size, data)
      BY <2>1 DEF VendorAt, Own
    <3> QED BY <3>1 DEF Vendor, Tlv
  <2>2. CASE VendorAt(s, k)
    BY <2>1, <2>2
  <2>3. CASE ~VendorAt(s, k)
    BY <1>1, <2>3 DEF TlvAt, VendorAt, OptionalAt, Tlv
  <2> QED BY <2>2, <2>3
<1>3. k = Len(Tlvs(s)) => t.type = 0
  BY EndFact DEF Tlv
<1> HIDE DEF t, f
<1>4. /\ \A type \in UnreadTypes : type # 127 /\ type \notin 0 .. 3
      /\ \A type \in 4 .. 8 : type # 127 /\ type \notin 0 .. 3
  BY DEF UnreadTypes
<1> QED BY <1>2, <1>3, <1>4 DEF t, f

\* A turn of the loop that is done right.
LEMMA TurnStep ==
  ASSUME Proper, turn = "loop", NEW k \in 1 .. Len(Tlvs(sent)), At(k),
         k # Len(Tlvs(sent)), Advance, FoundIds(k + 1)', FoundVendor(k + 1)'
  PROVE  Parsed'
<1>1. EthHeader + offset' = places'[k + 1]
  BY AdvanceFact DEF Proper, At
<1>2. /\ sent' = sent /\ turn' = "loop" /\ entry' = entry /\ entry = None
  BY DEF Advance, given, At, Outcome
<1>3. At(k + 1)'
  BY <1>1, <1>2 DEF At, Outcome
<1>4. k + 1 \in (1 .. Len(Tlvs(sent)))'
  BY <1>2, ProperFact
<1> QED BY <1>3, <1>4 DEF Parsed

\* The TLV of a turn.
LEMMA TurnAt ==
  ASSUME Proper, turn = "loop"
  PROVE  \E k \in 1 .. Len(Tlvs(sent)) :
           /\ At(k) /\ k \in Nat /\ sent \in Senders /\ sent.odd = <<>>
           /\ Type = Tlvs(sent)[k].type /\ Length = Tlvs(sent)[k].length
           /\ tlv.value = Tlvs(sent)[k].value
<1>1. PICK k \in 1 .. Len(Tlvs(sent)) : At(k)
  BY DEF Proper, Parsed
<1>2. /\ Type = Tlvs(sent)[k].type /\ Length = Tlvs(sent)[k].length
      /\ tlv.value = Tlvs(sent)[k].value
  BY <1>1, HereFact DEF Proper, At
<1>3. sent \in Senders /\ sent.odd = <<>> /\ k \in Nat
  BY ProperFact
<1> QED BY <1>1, <1>2, <1>3

\* A turn that has nothing to do with the vendor's TLVs.
LEMMA NotVendor ==
  ASSUME NEW k \in Nat, FoundVendor(k), k <= 8,
         k \in 1 .. 3 \/ sent.frame.kind \in {"master", "slave", "plain"},
         sent.wifi \in Nat,
         UNCHANGED <<sent, devRole, role, ip, wifimods, haveDc, alias>>
  PROVE  FoundVendor(k + 1)'
<1>1. sent.frame.kind \in {"master", "slave"} => FoundDaemon(k + 1)'
  BY DEF FoundVendor, FoundDaemon
<1>2. sent.frame.kind = "setip" => FoundSetIp(k + 1)'
  <2> HAVE sent.frame.kind = "setip"
  <2>1. k \in 1 .. 3 /\ FoundSetIp(k)
    BY DEF FoundVendor
  <2>2. ~(k > 4 + sent.wifi) /\ ~(k > 4) /\ ~(k + 1 > 4 + sent.wifi) /\ ~(k + 1 > 4)
    BY <2>1
  <2>3. wifimods = KeptOf(sent.frame, 0)
    BY <2>1, <2>2 DEF FoundSetIp
  <2> QED BY <2>1, <2>2, <2>3 DEF FoundSetIp
<1> QED BY <1>1, <1>2 DEF FoundVendor, FoundNothing

LEMMA ChassisIdStep == Proper /\ ChassisId => Parsed'
<1> SUFFICES ASSUME Proper, ChassisId PROVE Parsed'
  OBVIOUS
<1>1. /\ turn = "loop" /\ Type = CHASSIS_ID_TLV /\ Advance
      /\ chassis' = tlv.value /\ held' = held + Copy
      /\ UNCHANGED <<msapId, role, ip, wifimods, haveDc, rxTTL, alias>>
  BY DEF ChassisId, Turn
<1>2. PICK k \in 1 .. Len(Tlvs(sent)) :
        /\ At(k) /\ k \in Nat /\ sent \in Senders /\ sent.odd = <<>>
        /\ Type = Tlvs(sent)[k].type /\ Length = Tlvs(sent)[k].length
        /\ tlv.value = Tlvs(sent)[k].value
  BY <1>1, TurnAt
<1>3. k = 1 /\ chassis' = sent.frame.id
  BY <1>1, <1>2, TypeTells
<1>4. k # Len(Tlvs(sent))
  BY <1>1, <1>2, TypeTells DEF CHASSIS_ID_TLV, END_OF_LLDPDU_TLV
<1>5. sent' = sent /\ devRole' = devRole
  BY <1>1 DEF Advance, given
<1>6. FoundIds(k + 1)'
  BY <1>1, <1>2, <1>3, <1>5 DEF At, FoundIds
<1>7. FoundVendor(k + 1)'
  <2>1. FoundVendor(k) /\ sent.wifi \in Nat
    BY <1>2, SenderFact DEF At
  <2> QED BY <1>1, <1>3, <1>5, <2>1, NotVendor
<1> QED BY <1>1, <1>2, <1>4, <1>6, <1>7, TurnStep

LEMMA PortIdStep == Proper /\ PortId => Parsed'
<1> SUFFICES ASSUME Proper, PortId PROVE Parsed'
  OBVIOUS
<1>1. /\ turn = "loop" /\ Type = PORT_ID_TLV /\ Advance
      /\ msapId' = <<chassis, tlv.value>> /\ chassis' = None
      /\ held' = held + Copy + 1 - Copy - Copy
      /\ UNCHANGED <<role, ip, wifimods, haveDc, rxTTL, alias>>
  BY DEF PortId, Turn
<1>2. PICK k \in 1 .. Len(Tlvs(sent)) :
        /\ At(k) /\ k \in Nat /\ sent \in Senders /\ sent.odd = <<>>
        /\ Type = Tlvs(sent)[k].type /\ Length = Tlvs(sent)[k].length
        /\ tlv.value = Tlvs(sent)[k].value
  BY <1>1, TurnAt
<1>3. k = 2 /\ tlv.value = sent.frame.id
  BY <1>1, <1>2, TypeTells
<1>4. k # Len(Tlvs(sent))
  BY <1>1, <1>2, TypeTells DEF PORT_ID_TLV, END_OF_LLDPDU_TLV
<1>5. sent' = sent /\ devRole' = devRole
  BY <1>1 DEF Advance, given
<1>6. FoundIds(k + 1)'
  BY <1>1, <1>2, <1>3, <1>5 DEF At, FoundIds
<1>7. FoundVendor(k + 1)'
  <2>1. FoundVendor(k) /\ sent.wifi \in Nat
    BY <1>2, SenderFact DEF At
  <2> QED BY <1>1, <1>3, <1>5, <2>1, NotVendor
<1> QED BY <1>1, <1>2, <1>4, <1>6, <1>7, TurnStep

LEMMA TimeToLiveStep == Proper /\ TimeToLive => Parsed'
<1> SUFFICES ASSUME Proper, TimeToLive PROVE Parsed'
  OBVIOUS
<1>1. /\ turn = "loop" /\ Type = TIME_TO_LIVE_TLV /\ Advance
      /\ rxTTL' = IF Length = 2 THEN tlv.value ELSE rxTTL
      /\ UNCHANGED <<chassis, msapId, role, ip, wifimods, haveDc, alias, held>>
  BY DEF TimeToLive, Turn
<1>2. PICK k \in 1 .. Len(Tlvs(sent)) :
        /\ At(k) /\ k \in Nat /\ sent \in Senders /\ sent.odd = <<>>
        /\ Type = Tlvs(sent)[k].type /\ Length = Tlvs(sent)[k].length
        /\ tlv.value = Tlvs(sent)[k].value
  BY <1>1, TurnAt
<1>3. k = 3 /\ tlv.value = sent.frame.ttl /\ (Length = 2 <=> sent.frame.ttl # BadTTL)
  BY <1>1, <1>2, TypeTells
<1>4. k # Len(Tlvs(sent))
  BY <1>1, <1>2, TypeTells DEF TIME_TO_LIVE_TLV, END_OF_LLDPDU_TLV
<1>5. sent' = sent /\ devRole' = devRole
  BY <1>1 DEF Advance, given
<1>6. FoundIds(k + 1)'
  BY <1>1, <1>2, <1>3, <1>5 DEF At, FoundIds
<1>7. FoundVendor(k + 1)'
  <2>1. FoundVendor(k) /\ sent.wifi \in Nat
    BY <1>2, SenderFact DEF At
  <2> QED BY <1>1, <1>3, <1>5, <2>1, NotVendor
<1> QED BY <1>1, <1>2, <1>4, <1>6, <1>7, TurnStep

LEMMA UnreadStep == Proper /\ Unread => Parsed'
<1> SUFFICES ASSUME Proper, Unread PROVE Parsed'
  OBVIOUS
<1>1. /\ turn = "loop" /\ Type \in UnreadTypes /\ Advance
      /\ UNCHANGED <<locals, held>>
  BY DEF Unread, Turn
<1>2. PICK k \in 1 .. Len(Tlvs(sent)) :
        /\ At(k) /\ k \in Nat /\ sent \in Senders /\ sent.odd = <<>>
        /\ Type = Tlvs(sent)[k].type /\ Length = Tlvs(sent)[k].length
        /\ tlv.value = Tlvs(sent)[k].value
  BY <1>1, TurnAt
<1>3. k \in 4 .. 8 /\ sent.frame.kind \in {"master", "slave", "plain"}
  BY <1>1, <1>2, TypeTells
<1>4. k # Len(Tlvs(sent))
  <2>1. END_OF_LLDPDU_TLV \notin UnreadTypes
    BY DEF UnreadTypes, PORT_DESCRIPTION_TLV, END_OF_LLDPDU_TLV
  <2> QED BY <1>1, <1>2, <2>1, TypeTells
<1>5. /\ sent' = sent /\ devRole' = devRole
      /\ UNCHANGED <<chassis, msapId, role, ip, wifimods, haveDc, rxTTL, alias>>
  BY <1>1 DEF Advance, given, locals
<1>6. FoundIds(k + 1)'
  BY <1>2, <1>3, <1>5 DEF At, FoundIds
<1>7. FoundVendor(k + 1)'
  <2>1. FoundVendor(k) /\ sent.wifi \in Nat
    BY <1>2, SenderFact DEF At
  <2> QED BY <1>2, <1>3, <1>5, <2>1, NotVendor
<1> QED BY <1>1, <1>2, <1>4, <1>6, <1>7, TurnStep

LEMMA CrashStep == Proper /\ Crash => Parsed'
<1> SUFFICES ASSUME Proper, Crash PROVE FALSE
  OBVIOUS
<1>1. turn = "loop" /\ Type = PORT_ID_TLV /\ chassis = None
  BY DEF Crash, Turn
<1>2. PICK k \in 1 .. Len(Tlvs(sent)) :
        /\ At(k) /\ k \in Nat /\ sent \in Senders /\ sent.odd = <<>>
        /\ Type = Tlvs(sent)[k].type /\ Length = Tlvs(sent)[k].length
        /\ tlv.value = Tlvs(sent)[k].value
  BY <1>1, TurnAt
<1>3. k = 2
  BY <1>1, <1>2, TypeTells
<1>4. chassis = sent.frame.id /\ sent.frame.id # None
  BY <1>2, <1>3, SenderFact, SpecialFact DEF At, FoundIds
<1> QED BY <1>1, <1>4

\* One more module in front of the parser.
LEMMA WithModuleFact ==
  ASSUME NEW f, NEW m \in Nat
  PROVE  WithModule(KeptOf(f, m), Mode(f, m + 1)) = KeptOf(f, m + 1)
<1> DEFINE First(l) == FirstModules(f, l)
<1>1. ModulesKept \in Nat
  BY CodecAssumption
<1>2. \A l \in Nat : /\ First(l) \in Seq({Mode(f, i) : i \in Nat}) /\ Len(First(l)) = l
                    /\ \A i \in 1 .. l : First(l)[i] = Mode(f, i)
  BY DEF FirstModules
<1>3. CASE m < ModulesKept
  <2>1. Least(m, ModulesKept) = m /\ Least(m + 1, ModulesKept) = m + 1
    BY <1>1, <1>3 DEF Least
  <2>2. Append(First(m), Mode(f, m + 1)) = First(m + 1)
    BY <1>2 DEF FirstModules
  <2>3. KeptOf(f, m) = First(m) /\ KeptOf(f, m + 1) = First(m + 1)
    BY <2>1 DEF KeptOf
  <2>4. Len(KeptOf(f, m)) = m
    BY <1>2, <2>3
  <2> QED BY <1>3, <2>2, <2>3, <2>4 DEF WithModule
<1>4. CASE ~(m < ModulesKept)
  <2>1. Least(m, ModulesKept) = ModulesKept /\ Least(m + 1, ModulesKept) = ModulesKept
    BY <1>1, <1>4 DEF Least
  <2>2. KeptOf(f, m) = First(ModulesKept) /\ KeptOf(f, m + 1) = First(ModulesKept)
    BY <2>1 DEF KeptOf
  <2>3. Len(KeptOf(f, m)) = ModulesKept
    BY <1>1, <1>2, <2>2
  <2> QED BY <1>1, <2>2, <2>3 DEF WithModule
<1> QED BY <1>3, <1>4

\* What a TLV of the daemon's vendor says.
LEMMA OwnFact ==
  ASSUME NEW subtype, NEW size, NEW data
  PROVE  LET v == Own(subtype, size, data).value IN
         v.oui = "dunchong" /\ v.subtype = subtype /\ v.data = data
BY DEF Own, Vendor, Tlv

\* What a turn makes of a vendor TLV of this subtype.
Told(v) ==
  /\ ip' = IF v.subtype \in {"IPADDR", "SET_IP"} THEN v.data ELSE ip
  /\ alias' = IF v.subtype = "SET_IP" /\ devRole = "SLAVE" THEN v.data ELSE alias
  /\ role' = IF v.subtype = "ROLE" THEN v.data ELSE role
  /\ wifimods' = IF v.subtype = "WIFI" THEN WithModule(wifimods, v.data) ELSE wifimods
  /\ haveDc' = Peer(devRole, role')

LEMMA ToldDaemon ==
  ASSUME NEW k \in Nat, sent \in Senders, VendorAt(sent, k), FoundVendor(k),
         sent.frame.kind \in {"master", "slave"}, Told(Tlvs(sent)[k].value),
         UNCHANGED <<sent, devRole>>
  PROVE  FoundVendor(k + 1)'
<1> DEFINE f == sent.frame
           n == sent.wifi
           v == Tlvs(sent)[k].value
<1>0. n \in Nat
  BY SenderFact
<1>1. FoundDaemon(k) /\ k > 8
  BY <1>0 DEF FoundVendor, VendorAt
<1>2. \/ k = 9 /\ v.subtype = "VENDOR"
      \/ k = 10 /\ v.subtype = "IPADDR" /\ v.data = f.ip
      \/ k = 11 /\ v.subtype = "ROLE" /\ v.data = IF f.kind = "slave" THEN "SLAVE" ELSE "MASTER"
      \/ k \in 12 .. 11 + n /\ v.subtype = "WIFI" /\ v.data = Mode(f, k - 11)
  <2>1. \/ k = 9 /\ Tlvs(sent)[k] = Own("VENDOR", 8, "dunchong")
        \/ k = 10 /\ Tlvs(sent)[k] = Own("IPADDR", 4, f.ip)
        \/ k = 11 /\ Tlvs(sent)[k] = Own("ROLE", 1, IF f.kind = "slave" THEN "SLAVE" ELSE "MASTER")
        \/ k \in 12 .. 11 + n /\ Tlvs(sent)[k] = Own("WIFI", 7, Mode(f, k - 11))
    BY DEF VendorAt
  <2> QED BY <2>1, OwnFact
<1>3. FoundDaemon(k + 1)'
  <2>1. CASE k = 9
    BY <1>1, <1>2, <2>1 DEF Told, FoundDaemon
  <2>2. CASE k = 10
    BY <1>1, <1>2, <2>2 DEF Told, FoundDaemon
  <2>3. CASE k = 11
    BY <1>1, <1>2, <2>3 DEF Told, FoundDaemon
  <2>4. CASE k \in 12 .. 11 + n
    <3> DEFINE m == k - 12
    <3>1. m \in Nat /\ k - 11 = m + 1 /\ (k + 1) - 12 = m + 1 /\ k > 11 /\ k + 1 > 12
      BY <1>0, <2>4
    <3>2. wifimods = KeptOf(f, m)
      <4>1. CASE k = 12
        BY <1>1, <4>1 DEF FoundDaemon
      <4>2. CASE k > 12
        BY <1>1, <4>2 DEF FoundDaemon
      <4> QED BY <1>0, <2>4, <4>1, <4>2
    <3>3. v.subtype = "WIFI" /\ v.data = Mode(f, m + 1)
      BY <1>2, <2>4, <3>1
    <3>4. wifimods' = KeptOf(f, (k + 1) - 12)
      <4>1. wifimods' = WithModule(KeptOf(f, m), Mode(f, m + 1))
        BY <3>2, <3>3 DEF Told
      <4> QED BY <3>1, <4>1, WithModuleFact
    <3>5. role' = role /\ ip' = ip /\ alias' = alias /\ haveDc' = Peer(devRole, role')
      BY <3>3 DEF Told
    <3>6. k + 1 > 11 /\ k + 1 > 10 /\ k + 1 > 9 /\ k > 10 /\ k > 9
      BY <3>1
    <3> HIDE DEF m
    <3> QED BY <1>1, <3>1, <3>4, <3>5, <3>6 DEF FoundDaemon
  <2> QED BY <1>2, <2>1, <2>2, <2>3, <2>4
<1> QED BY <1>3 DEF FoundVendor

LEMMA ToldSetIp ==
  ASSUME NEW k \in Nat, sent \in Senders, VendorAt(sent, k), FoundVendor(k),
         sent.frame.kind = "setip", Told(Tlvs(sent)[k].value),
         devRole \in {"MASTER", "SLAVE"}, UNCHANGED <<sent, devRole>>
  PROVE  FoundVendor(k + 1)'
<1> DEFINE f == sent.frame
           n == sent.wifi
           v == Tlvs(sent)[k].value
<1>0. n \in Nat
  BY SenderFact
<1>1. FoundSetIp(k)
  BY DEF FoundVendor
<1>2. \/ k \in 4 .. 3 + n /\ v.subtype = "WIFI" /\ v.data = Mode(f, k - 3)
      \/ k = 4 + n /\ v.subtype = "SET_IP" /\ v.data = f.ip
  <2>1. \/ k \in 4 .. 3 + n /\ Tlvs(sent)[k] = Own("WIFI", 7, Mode(f, k - 3))
        \/ k = 4 + n /\ Tlvs(sent)[k] = Own("SET_IP", 4, f.ip)
    BY DEF VendorAt
  <2> QED BY <2>1, OwnFact
<1> DEFINE m == k - 4
<1>3. m \in Nat /\ k - 3 = m + 1 /\ (k + 1) - 4 = m + 1 /\ k + 1 > 4 /\ ~(k > 4 + n)
  BY <1>0, <1>2
<1>4. role = "MASTER" /\ ip = None /\ wifimods = KeptOf(f, m) /\ alias = OwnAddr
  <2>1. wifimods = KeptOf(f, m)
    <3>1. CASE k = 4
      BY <1>1, <1>3, <3>1 DEF FoundSetIp
    <3>2. CASE k > 4
      BY <1>1, <1>3, <3>2 DEF FoundSetIp
    <3> QED BY <1>0, <1>2, <3>1, <3>2
  <2> QED BY <1>1, <1>3, <2>1 DEF FoundSetIp
<1> HIDE DEF m
<1>5. CASE k \in 4 .. 3 + n
  <2>1. v.subtype = "WIFI" /\ v.data = Mode(f, m + 1)
    BY <1>0, <1>2, <1>3, <1>5
  <2>2. wifimods' = KeptOf(f, (k + 1) - 4)
    <3>1. wifimods' = WithModule(KeptOf(f, m), Mode(f, m + 1))
      BY <1>4, <2>1 DEF Told
    <3> QED BY <1>3, <3>1, WithModuleFact
  <2>3. ~(k + 1 > 4 + n)
    BY <1>0, <1>5
  <2>4. role' = "MASTER" /\ ip' = None /\ alias' = OwnAddr /\ haveDc' = Peer(devRole, "MASTER")
    BY <1>4, <2>1 DEF Told
  <2>5. FoundSetIp(k + 1)'
    BY <1>3, <2>2, <2>3, <2>4 DEF FoundSetIp
  <2> QED BY <2>5 DEF FoundVendor
<1>6. CASE k = 4 + n
  <2>1. v.subtype = "SET_IP" /\ v.data = f.ip
    BY <1>0, <1>2, <1>6
  <2>2. k + 1 > 4 + n /\ m = n
    BY <1>0, <1>6 DEF m
  <2>3. /\ role' = "MASTER" /\ ip' = f.ip /\ wifimods' = KeptOf(f, n)
        /\ alias' = IF devRole = "SLAVE" THEN f.ip ELSE OwnAddr
        /\ haveDc' = Peer(devRole, "MASTER")
    BY <1>4, <2>1, <2>2 DEF Told
  <2>4. FoundSetIp(k + 1)'
    BY <1>3, <2>2, <2>3 DEF FoundSetIp
  <2> QED BY <2>4 DEF FoundVendor
<1> QED BY <1>2, <1>5, <1>6

LEMMA OwnVendorStep == Proper /\ OwnVendor => Parsed'
<1> SUFFICES ASSUME Proper, OwnVendor PROVE Parsed'
  OBVIOUS
<1>1. /\ turn = "loop" /\ Type = ORG_SPECIFIC_TLV /\ IsDcOui(tlv.value) /\ Advance
      /\ Told(tlv.value)
      /\ UNCHANGED <<chassis, msapId, rxTTL, held>>
  BY DEF OwnVendor, Turn, Told
<1>2. PICK k \in 1 .. Len(Tlvs(sent)) :
        /\ At(k) /\ k \in Nat /\ sent \in Senders /\ sent.odd = <<>>
        /\ Type = Tlvs(sent)[k].type /\ Length = Tlvs(sent)[k].length
        /\ tlv.value = Tlvs(sent)[k].value
  BY <1>1, TurnAt
<1>3. VendorAt(sent, k) /\ k # Len(Tlvs(sent))
  BY <1>1, <1>2, TypeTells DEF ORG_SPECIFIC_TLV, END_OF_LLDPDU_TLV
<1>4. k > 3 /\ sent.wifi \in Nat
  BY <1>2, <1>3, SenderFact DEF VendorAt
<1>5. sent' = sent /\ devRole' = devRole
  BY <1>1 DEF Advance, given
<1>6. FoundIds(k + 1)'
  BY <1>1, <1>2, <1>4, <1>5 DEF At, FoundIds
<1>7. sent.frame.kind # "othervendor"
  <2>1. ASSUME Tlvs(sent)[k] = Vendor("other", "any", 5, "any") PROVE FALSE
    <3>1. tlv.value.oui = "other"
      BY <1>2, <2>1 DEF Vendor, Tlv
    <3> QED BY <1>1, <3>1 DEF IsDcOui
  <2> QED BY <1>3, <2>1 DEF VendorAt
<1>8. FoundVendor(k + 1)'
  <2>1. FoundVendor(k) /\ Told(Tlvs(sent)[k].value) /\ devRole \in {"MASTER", "SLAVE"}
    BY <1>1, <1>2, ProperFact DEF At
  <2>2. sent.frame.kind \in {"master", "slave"} \/ sent.frame.kind = "setip"
    BY <1>3, <1>7 DEF VendorAt
  <2> QED BY <1>2, <1>3, <1>5, <2>1, <2>2, ToldDaemon, ToldSetIp
<1> QED BY <1>1, <1>2, <1>3, <1>6, <1>8, TurnStep

\* The loop is left, and what it found is stored or forgotten.
LEMMA EndStep ==
  ASSUME Proper, NEW k \in 1 .. Len(Tlvs(sent)), At(k), Outcome',
         turn' = "loop" => turn = "loop", turn' \in {"loop", "parsed", "done"},
         turn' \in {"parsed", "done"} => k = Len(Tlvs(sent)),
         UNCHANGED <<given, offset, locals>>
  PROVE  Parsed'
<1>1. /\ UNCHANGED <<sent, frame, frame_offset, recvsize, devRole, known, offset>>
      /\ UNCHANGED <<chassis, msapId, role, ip, wifimods, haveDc, rxTTL, alias>>
  BY DEF given, locals
<1>2. places' = places
  BY <1>1 DEF places
<1>3. FoundIds(k)' /\ FoundVendor(k)'
  BY <1>1 DEF At, FoundIds, FoundVendor, FoundDaemon, FoundSetIp, FoundNothing
<1>4. At(k)'
  BY <1>1, <1>2, <1>3 DEF At
<1>5. k \in (1 .. Len(Tlvs(sent)))'
  BY <1>1
<1> QED BY <1>4, <1>5 DEF Parsed

LEMMA LeaveLoopStep == Proper /\ LeaveLoop => Parsed'
<1> SUFFICES ASSUME Proper, LeaveLoop PROVE Parsed'
  OBVIOUS
<1>1. /\ turn = "loop" /\ turn' = "parsed"
      /\ offset <= recvsize /\ Here # {} => Type = END_OF_LLDPDU_TLV
      /\ UNCHANGED <<given, offset, locals, held, entry>>
  BY DEF LeaveLoop
<1>2. PICK k \in 1 .. Len(Tlvs(sent)) : At(k)
  BY DEF Proper, Parsed
<1>3. /\ sent \in Senders /\ sent.odd = <<>> /\ ~sent.cut /\ offset \in Nat
      /\ recvsize \in Nat /\ frame_offset \in Nat /\ frame_offset <= recvsize
  BY <1>1, SenderFact DEF Proper, WireInv, TypeOK, Arrived, Written
<1>4. Here # {} /\ Type = Tlvs(sent)[k].type /\ EthHeader + offset < frame_offset
  BY <1>1, <1>2, HereFact DEF Proper, At
<1>5. Type = END_OF_LLDPDU_TLV
  BY <1>1, <1>3, <1>4 DEF EthHeader
<1>6. k = Len(Tlvs(sent))
  BY <1>3, <1>4, <1>5, TypeTells
<1>7. Outcome'
  BY <1>1, <1>2 DEF At, Outcome
<1> QED BY <1>1, <1>2, <1>6, <1>7, EndStep

LEMMA StoreStep == Proper /\ Store => Parsed'
<1> SUFFICES ASSUME Proper, Store PROVE Parsed'
  OBVIOUS
<1>1. /\ turn = "parsed" /\ haveDc /\ turn' = "done"
      /\ entry' = [id |-> msapId, ttl |-> rxTTL, allocated |-> FALSE, ip |-> ip,
                   wifi |-> \E i \in DOMAIN wifimods : wifimods[i] # 0]
      /\ UNCHANGED <<given, offset, locals>>
  BY DEF Store
<1>2. PICK k \in 1 .. Len(Tlvs(sent)) : At(k)
  BY DEF Proper, Parsed
<1>3. k = Len(Tlvs(sent))
  BY <1>1, <1>2 DEF At
<1>4. Outcome'
  BY <1>1 DEF Outcome, locals
<1> QED BY <1>1, <1>2, <1>3, <1>4, EndStep

\* Behind the end of such a frame there is an identifier.
LEMMA ForgetStep == Proper /\ Forget => Parsed'
<1> SUFFICES ASSUME Proper, Forget PROVE Parsed'
  OBVIOUS
<1>1. /\ turn = "parsed" /\ (msapId = None \/ ~haveDc) /\ turn' = "done"
      /\ UNCHANGED <<given, offset, locals, entry>>
  BY DEF Forget
<1>2. PICK k \in 1 .. Len(Tlvs(sent)) : At(k)
  BY DEF Proper, Parsed
<1>3. k = Len(Tlvs(sent)) /\ k > 2 /\ sent.frame.id \in Ids
  BY <1>1, <1>2, ProperFact, SenderFact DEF At
<1>4. msapId # None
  BY <1>2, <1>3, SpecialFact DEF At, FoundIds
<1>5. Outcome'
  BY <1>1, <1>2, <1>4 DEF At, Outcome, locals
<1> QED BY <1>1, <1>2, <1>3, <1>5, EndStep

LEMMA StayStep == Proper /\ UNCHANGED vars => Parsed'
<1> SUFFICES ASSUME Proper, UNCHANGED vars PROVE Parsed'
  OBVIOUS
<1>1. PICK k \in 1 .. Len(Tlvs(sent)) : At(k)
  BY DEF Proper, Parsed
<1>2. /\ UNCHANGED <<sent, frame, frame_offset, recvsize, devRole, known, turn, offset, entry>>
      /\ UNCHANGED <<chassis, msapId, role, ip, wifimods, haveDc, rxTTL, alias>>
  BY DEF vars, given, locals
<1>3. places' = places
  BY <1>2 DEF places
<1>4. FoundIds(k)' /\ FoundVendor(k)' /\ Outcome'
  BY <1>1, <1>2 DEF At, FoundIds, FoundVendor, FoundDaemon, FoundSetIp, FoundNothing, Outcome
<1>5. At(k)'
  BY <1>1, <1>2, <1>3, <1>4 DEF At
<1>6. k \in (1 .. Len(Tlvs(sent)))'
  BY <1>2
<1> QED BY <1>5, <1>6 DEF Parsed

LEMMA CodecInvStep == CodecInv /\ [Next]_vars => CodecInv'
<1> SUFFICES ASSUME CodecInv, [Next]_vars PROVE CodecInv'
  OBVIOUS
<1>1. WireInv'
  BY WireInvStep DEF CodecInv
<1>2. ASSUME Proper PROVE Parsed'
  <2>1. OtherVendor => Parsed'
    BY <1>2, StayStep DEF OtherVendor
  <2> QED BY <1>2, <2>1, AddTlvStep, SendFrameStep, ChassisIdStep, PortIdStep, CrashStep,
             TimeToLiveStep, UnreadStep, OwnVendorStep, LeaveLoopStep, StoreStep, ForgetStep,
             StayStep DEF Next
<1>3. sent' = sent
  BY DEF Next, AddTlv, SendFrame, ChassisId, PortId, Crash, TimeToLive, Unread, OwnVendor,
         OtherVendor, LeaveLoop, Store, Forget, Advance, given, vars
<1> QED BY <1>1, <1>2, <1>3 DEF CodecInv, Proper

-----------------------------------------------------------------------------
(* Theorems.                                                               *)

\* Besides what WireInv says, at every turn of the receiver's loop over the frame
\* of a daemon or a sound agent there is a TLV in it such that the parser is at
\* that TLV and knows what the ones before said.
THEOREM CodecInvariance == Spec => []CodecInv
<1>1. Init => CodecInv
  BY WireInit, ParsedInit DEF CodecInv
<1>2. CodecInv /\ [Next]_vars => CodecInv'
  BY CodecInvStep
<1> QED BY <1>1, <1>2, PTL DEF Spec

\* An entry that is known by both identifiers.
LEMMA EntryFact ==
  ASSUME NEW f, NEW ttl, NEW new
  PROVE  [NewEntry(f, ttl) EXCEPT !.id = new]
           = [id |-> new, ttl |-> ttl, allocated |-> FALSE, ip |-> f.ip, wifi |-> f.wifi]
<1> DEFINE id   == f.id
           ip1  == f.ip
           wifi == f.wifi
           free == FALSE
<1>1. NewEntry(f, ttl)
        = [id |-> id, ttl |-> ttl, allocated |-> free, ip |-> ip1, wifi |-> wifi]
  BY DEF NewEntry
<1>2. [id |-> new, ttl |-> ttl, allocated |-> FALSE, ip |-> f.ip, wifi |-> f.wifi]
        = [id |-> new, ttl |-> ttl, allocated |-> free, ip |-> ip1, wifi |-> wifi]
  OBVIOUS
<1> HIDE DEF id, ip1, wifi, free
<1>3. [[id |-> id, ttl |-> ttl, allocated |-> free, ip |-> ip1, wifi |-> wifi]
         EXCEPT !.id = new]
        = [id |-> new, ttl |-> ttl, allocated |-> free, ip |-> ip1, wifi |-> wifi]
  OBVIOUS
<1> QED BY <1>1, <1>2, <1>3, Zenon

\* One of the modules that are kept is in operation if one is that was sent.
LEMMA WifiFact ==
  ASSUME NEW s \in Senders, s.odd = <<>>
  PROVE  LET mods == KeptOf(s.frame, s.wifi)
         IN  s.frame.wifi = \E i \in DOMAIN mods : mods[i] # 0
<1> DEFINE f == s.frame
           n == s.wifi
           l == Least(n, ModulesKept)
           mods == KeptOf(f, n)
<1>1. n \in Nat /\ ModulesKept \in Nat /\ ModulesKept # 0 /\ f.wifi \in BOOLEAN
      /\ (f.wifi => n > 0)
  <2>1. s \in ProperSenders
    BY SenderFact
  <2>2. f.wifi => n > 0
    BY <2>1 DEF ProperSenders
  <2>3. f \in Frame
    BY <2>1 DEF ProperSenders
  <2>4. f.wifi \in BOOLEAN
    BY <2>3 DEF Frame
  <2> QED BY <2>2, <2>4, SenderFact, CodecAssumption
<1>2. DOMAIN mods = 1 .. l /\ \A i \in 1 .. l : mods[i] = Mode(f, i)
  BY DEF KeptOf, FirstModules
<1>3. l \in Nat /\ (f.wifi => l > 0)
  BY <1>1 DEF Least
<1> HIDE DEF l, mods
<1>4. CASE f.wifi
  <2>1. 1 \in 1 .. l /\ mods[1] = 1
    BY <1>2, <1>3, <1>4 DEF Mode
  <2> QED BY <1>2, <1>4, <2>1 DEF mods
<1>5. CASE ~f.wifi
  <2>1. \A i \in 1 .. l : mods[i] = 0
    BY <1>2, <1>5 DEF Mode
  <2> QED BY <1>1, <1>2, <1>5, <2>1 DEF mods
<1> QED BY <1>4, <1>5

LEMMA ParseFact ==
  ASSUME Proper, turn = "done"
  PROVE  LET f   == sent.frame
             ttl == IF f.ttl = BadTTL THEN 0 ELSE f.ttl
             n   == IF sent.wifi < ModulesKept THEN sent.wifi ELSE ModulesKept
         IN  /\ rxTTL = ttl
             /\ alias = IF devRole = "SLAVE" /\ f.kind = "setip" THEN f.ip ELSE OwnAddr
             /\ entry = IF HaveDcMsap(devRole, f)
                          THEN [NewEntry(f, ttl) EXCEPT !.id = <<f.id, f.id>>] ELSE None
             /\ entry # None => wifimods = [i \in 1 .. n |-> Mode(f, i)]
<1> DEFINE k == Len(Tlvs(sent))
           f == sent.frame
           n == sent.wifi
           ttl == IF f.ttl = BadTTL THEN 0 ELSE f.ttl
           mods == KeptOf(f, n)
<1>1. At(k) /\ sent \in Senders /\ sent.odd = <<>> /\ devRole \in {"MASTER", "SLAVE"}
  BY ProperFact DEF Proper, Parsed, At
<1>2. n \in Nat /\ f.kind \in Kinds /\ f.ttl \in TTLs \cup {BadTTL}
  BY <1>1, SenderFact
<1>3. k = LengthOf(sent) /\ k > 3 /\ k \in Nat
  BY <1>1, LengthFact
<1>4. /\ rxTTL = ttl /\ msapId = <<f.id, f.id>>
      /\ FoundVendor(k) /\ Outcome
  <2>1. FoundIds(k) /\ FoundVendor(k) /\ Outcome
    BY <1>1 DEF At
  <2> QED BY <1>3, <2>1 DEF FoundIds
<1>5. mods = [i \in 1 .. IF n < ModulesKept THEN n ELSE ModulesKept |-> Mode(f, i)]
  BY DEF KeptOf, FirstModules, Least
<1>6. /\ haveDc <=> HaveDcMsap(devRole, f)
      /\ haveDc => ip = f.ip /\ wifimods = mods
      /\ alias = IF devRole = "SLAVE" /\ f.kind = "setip" THEN f.ip ELSE OwnAddr
  <2>1. CASE f.kind \in {"master", "slave"}
    <3>1. FoundDaemon(k) /\ k = 12 + n
      BY <1>3, <1>4, <2>1 DEF FoundVendor, LengthOf
    <3>2. k > 11 /\ k > 10 /\ k > 9 /\ (k > 12 => k - 12 = n) /\ (~(k > 12) => n = 0)
      BY <1>2, <3>1
    <3>3. wifimods = mods
      BY <3>1, <3>2 DEF FoundDaemon
    <3>4. haveDc <=> HaveDcMsap(devRole, f)
      BY <1>1, <2>1, <3>1, <3>2 DEF FoundDaemon, Peer, HaveDcMsap
    <3> QED BY <2>1, <3>1, <3>2, <3>3, <3>4 DEF FoundDaemon
  <2>2. CASE f.kind = "setip"
    <3>1. FoundSetIp(k) /\ k = 5 + n
      BY <1>3, <1>4, <2>2 DEF FoundVendor, LengthOf
    <3>2. k > 4 + n /\ k > 4
      BY <1>2, <3>1
    <3>3. wifimods = mods
      BY <3>1, <3>2 DEF FoundSetIp
    <3>4. haveDc <=> HaveDcMsap(devRole, f)
      BY <1>1, <2>2, <3>1, <3>2 DEF FoundSetIp, Peer, HaveDcMsap
    <3> QED BY <2>2, <3>1, <3>2, <3>3, <3>4 DEF FoundSetIp
  <2>3. CASE f.kind \in {"plain", "othervendor"}
    BY <1>4, <2>3 DEF FoundVendor, FoundNothing, HaveDcMsap
  <2> QED BY <1>2, <2>1, <2>2, <2>3 DEF Kinds
<1>7. entry = IF HaveDcMsap(devRole, f)
                THEN [NewEntry(f, ttl) EXCEPT !.id = <<f.id, f.id>>] ELSE None
  <2>1. CASE haveDc
    <3> DEFINE wifi == \E i \in DOMAIN wifimods : wifimods[i] # 0
    <3>1. wifi = f.wifi
      BY <1>1, <1>6, <2>1, WifiFact
    <3>2. entry = [id |-> <<f.id, f.id>>, ttl |-> ttl, allocated |-> FALSE, ip |-> f.ip,
                   wifi |-> wifi]
      BY <1>4, <1>6, <2>1 DEF Outcome
    <3> HIDE DEF f, ttl, wifi
    <3>3. [NewEntry(f, ttl) EXCEPT !.id = <<f.id, f.id>>]
            = [id |-> <<f.id, f.id>>, ttl |-> ttl, allocated |-> FALSE, ip |-> f.ip,
               wifi |-> f.wifi]
      BY EntryFact, Zenon
    <3> QED BY <1>6, <2>1, <3>1, <3>2, <3>3
  <2>2. CASE ~haveDc
    BY <1>4, <1>6, <2>2 DEF Outcome
  <2> QED BY <2>1, <2>2
<1>8. entry # None => wifimods = mods
  BY <1>6, <1>7
<1> QED BY <1>4, <1>5, <1>6, <1>7, <1>8

\* What rxProcessFrame makes of the octets mibConstrInfoLLDPDU and
\* config_ip_for_slave write, or a sound agent, is what the frame was meant to say:
\* LldpRx may take such a frame for its kind, identifier, time to live, address and
\* whether it names a module in operation.
THEOREM ParseIsRight == Spec => []ParseMatches
<1>1. CodecInv => ParseMatches
  <2>1. ASSUME CodecInv, turn = "done", sent.odd = <<>> PROVE Proper
    BY <2>1 DEF CodecInv, Proper
  <2> QED BY <2>1, ParseFact DEF ParseMatches
<1> QED BY <1>1, CodecInvariance, PTL

\* One chassis id and one port id, and nothing is still allocated.
LEMMA NoneLeaked ==
  ASSUME Proper, turn = "done"
  PROVE  Leaked = 0
<1> DEFINE k == Len(Tlvs(sent))
           tlvs == Tlvs(sent)
<1>1. /\ At(k) /\ sent \in Senders /\ sent.odd = <<>> /\ k \in Nat /\ 5 <= k
      /\ WireInv
  BY ProperFact DEF Proper, Parsed, At
<1>2. k \in 1 .. Len(Tlvs(sent)) + 1 /\ EthHeader + offset = places[k]
  BY <1>1 DEF At
<1>3. Read(CHASSIS_ID_TLV) = Front(k, CHASSIS_ID_TLV) /\ Read(PORT_ID_TLV) = Front(k, PORT_ID_TLV)
  <2>1. \A type : Read(type) = Front(k, type)
    BY <1>1, <1>2, ReadFact
  <2> QED BY <2>1
<1>4. tlvs[1].type = CHASSIS_ID_TLV /\ tlvs[2].type = PORT_ID_TLV
  <2>1. MandatoryFirst(tlvs, sent.frame)
    BY <1>1, MandatoryFact
  <2> QED BY <2>1 DEF MandatoryFirst, Tlv
<1>5. \A i \in 1 .. k - 1 : /\ tlvs[i].type = CHASSIS_ID_TLV <=> i = 1
                            /\ tlvs[i].type = PORT_ID_TLV <=> i = 2
  <2>1. \A i \in 1 .. k - 1 : i \in 1 .. Len(Tlvs(sent))
    BY <1>1
  <2> QED BY <1>1, <1>4, <2>1, TypeTells
<1>6. 1 \in 1 .. k - 1 /\ 2 \in 1 .. k - 1
  BY <1>1
<1>7. /\ {i \in 1 .. k - 1 : tlvs[i].type = CHASSIS_ID_TLV} = {1}
      /\ {i \in 1 .. k - 1 : tlvs[i].type = PORT_ID_TLV} = {2}
  BY <1>5, <1>6, Zenon
<1>8. Front(k, CHASSIS_ID_TLV) = 1 /\ Front(k, PORT_ID_TLV) = 1
  <2>1. \A x : Cardinality({x}) = 1
    BY FS_Singleton
  <2> QED BY <1>7, <2>1 DEF Front
<1>9. StillAllocated = 0
  <2>1. FoundIds(k)
    BY <1>1 DEF At
  <2>2. chassis = IF k = 2 THEN sent.frame.id ELSE None
    BY <2>1 DEF FoundIds
  <2>3. k # 2
    <3> HIDE DEF k
    <3> QED BY <1>1
  <2>4. chassis = None
    BY <2>2, <2>3
  <2> QED BY <2>4 DEF StillAllocated
<1> QED
  <2>1. /\ Read(CHASSIS_ID_TLV) = 1 /\ Read(PORT_ID_TLV) = 1 /\ Copy \in Nat
        /\ (IF entry # None THEN StillAllocated ELSE 0) = 0
    BY <1>3, <1>8, <1>9 DEF Copy
  <2>2. Copy * (1 - 1) + (IF 1 > 0 THEN 1 - 1 ELSE 0) - 0 = 0
    BY DEF Copy
  <2> QED BY <2>1, <2>2, Zenon DEF Leaked

\* Every block is accounted for: as long as the loop runs the blocks are those of
\* the identifiers it got past, and at the end those the cache keeps, the entry
\* and its identifier behind a miss, and those that leak, of doubled or missing
\* identifiers.  The frames of daemons and sound agents leak none.
THEOREM AllIsFreed == Spec => []Balanced
<1>1. CodecInv => Balanced
  <2> SUFFICES ASSUME CodecInv PROVE Balanced
    OBVIOUS
  <2>1. WireInv
    BY DEF CodecInv
  <2>2. PICK k \in 1 .. Len(Tlvs(sent)) + 1 : WireAt(k)
    BY <2>1 DEF WireInv
  <2>3. \A type : Read(type) = Front(k, type)
    BY <2>1, <2>2, ReadFact DEF WireAt
  <2>4. sent \in Senders /\ k \in Nat /\ 1 <= k
    BY <2>1, TlvsFact DEF WireInv, TypeOK
  <2>5. Allocated(k)
    BY <2>2 DEF WireAt
  <2>6. turn \in {"build", "loop", "parsed"} =>
          held = Copy * (Read(CHASSIS_ID_TLV) - Read(PORT_ID_TLV)) + Read(PORT_ID_TLV)
    BY <2>3, <2>5 DEF Allocated
  <2>7. turn = "done" => held = (IF entry # None /\ ~known THEN 2 ELSE 0) + Leaked
    <3> DEFINE chassisIds == Front(k, CHASSIS_ID_TLV)
               portIds    == Front(k, PORT_ID_TLV)
    <3>1. chassisIds \in Nat /\ portIds \in Nat /\ StillAllocated \in {0, 1}
      BY <2>4, FrontFact DEF StillAllocated
    <3>2. turn = "done" =>
            held = (IF entry # None /\ ~known THEN 2 ELSE 0) + Copy * (chassisIds - portIds)
                    + (IF portIds > 0 THEN portIds - 1 ELSE 0)
                    - (IF entry # None THEN StillAllocated ELSE 0)
      BY <2>5 DEF Allocated
    <3>3. Leaked = Copy * (chassisIds - portIds) + (IF portIds > 0 THEN portIds - 1 ELSE 0)
                     - (IF entry # None THEN StillAllocated ELSE 0)
      BY <2>3 DEF Leaked
    <3> HIDE DEF chassisIds, portIds
    <3> QED BY <3>1, <3>2, <3>3 DEF Copy
  <2>8. turn = "done" /\ sent.odd = <<>> => Leaked = 0
    BY NoneLeaked DEF CodecInv, Proper
  <2> QED BY <2>6, <2>7, <2>8 DEF Balanced
<1> QED BY <1>1, CodecInvariance, PTL

===============================================================================

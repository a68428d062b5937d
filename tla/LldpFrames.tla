------------------------------ MODULE LldpFrames ------------------------------
(***************************************************************************)
(* What the modules say of a frame: who sent it, the time to live, the     *)
(* address and the wireless modules it carries, and what kind of agent     *)
(* builds such a frame.                                                    *)
(* FrameCodec builds and parses the TLVs that stand behind this.           *)
(***************************************************************************)
EXTENDS Integers

CONSTANTS
  Ids,          \* MSAP identifiers (chassis id + port id) of the neighbours
  MaxTTL,       \* the largest time to live a frame carries
  BadTTL,       \* a time-to-live TLV whose length is not 2
  OctetMax,     \* largest value of an address's host octet (an uint8_t)
  OwnAddr       \* an address the neighbour itself advertises

TTLs   == 0 .. MaxTTL
Octets == 0 .. OctetMax
Addrs  == Octets \cup {OwnAddr}

(***************************************************************************)
(* A frame as rxProcessFrame sees it.  The kinds "master" and "slave" are  *)
(* the periodic frames of another daemon of that role, "setip" the frame a *)
(* master sends to give an address, "plain" a frame of another LLDP agent  *)
(* without vendor TLVs, and "othervendor" one that carries an              *)
(* organizationally specific TLV of another vendor.  wifi tells whether    *)
(* some wireless module the frame names is in operation (mode # 0).        *)
(***************************************************************************)
Kinds == {"master", "slave", "setip", "plain", "othervendor"}
Frame == [kind : Kinds, id : Ids, ttl : TTLs \cup {BadTTL}, ip : Addrs,
          wifi : BOOLEAN]

\* The role TLV of the sender differs from the role of this device; a frame
\* without one, such as the frame that sets an address, counts as a master's.
HaveDcMsap(role, f) ==
  f.kind \in IF role = "MASTER" THEN {"slave"} ELSE {"master", "setip"}

NewEntry(f, ttl) ==
  [id |-> f.id, ttl |-> ttl, allocated |-> FALSE, ip |-> f.ip, wifi |-> f.wifi]

=============================================================================

------------------------------ MODULE MCLldpRx ------------------------------
(* Small instances of LldpRx for TLC: the frames the network may deliver.   *)
EXTENDS LldpRx, TLC

CONSTANTS
  TTLsSent,   \* the times to live the frames carry (BadTTL may be among them)
  SetIps,     \* the addresses another master gives out
  Strangers,  \* the identifiers that belong to no daemon
  Wireless    \* the daemons that have a wireless module in operation

Daemons == Ids \ Strangers

\* The frames of a daemon say whether it has a module in operation.
Truthful(frames) == {f \in frames : f.wifi <=> f.id \in Wireless}

Periodic(kinds) ==
  Truthful([kind : kinds, id : Daemons, ttl : TTLsSent, ip : {OwnAddr}, wifi : BOOLEAN])

\* Frames of slaves alone.
PeerFrames == Periodic({"slave"})

\* Frames a master hears: slaves, an agent without vendor TLVs that leaves, and
\* one that adds a TLV of its own vendor.
MasterFrames ==
  Periodic({"slave"})
    \cup [kind : {"plain", "othervendor"}, id : Strangers, ttl : {0}, ip : {OwnAddr},
          wifi : {FALSE}]

\* Frames a slave hears, the frame that sets an address among them.
SlaveFrames ==
  Periodic({"master", "slave"})
    \cup Truthful([kind : {"setip"}, id : Daemons, ttl : TTLsSent, ip : SetIps,
                   wifi : BOOLEAN])

\* A peer and an agent that adds a TLV of its own vendor.
OtherVendorFrames == Periodic({"slave", "othervendor"})

\* One neighbour's frames all carry a malformed time to live.
HalfBadFrames ==
  {f \in Truthful([kind : {"slave"}, id : Daemons, ttl : TTLsSent \cup {BadTTL},
                   ip : {OwnAddr}, wifi : BOOLEAN]) :
     f.ttl = BadTTL <=> f.id = CHOOSE id \in Daemons : TRUE}

\* The code tells neither the ports nor the identifiers apart, the instance only who
\* has a module in operation.
Symmetry == Permutations(Ports) \cup Permutations(Wireless) \cup Permutations(Daemons \ Wireless)

=============================================================================

------------------------------ MODULE TxBuffer ------------------------------
(***************************************************************************)
(* The transmit buffer of a port of a master.  Two threads build frames in *)
(* tx.frame and send them with tx.sendsize, and no lock guards either: the *)
(* tx thread builds information frames (mibConstrInfoLLDPDU), and the rx   *)
(* thread, in the middle of rxProcessFrame, the frame that gives a slave   *)
(* its address (config_ip_for_slave).                                      *)
(*                                                                         *)
(* A frame is the Ethernet header followed by its TLVs, one slot of the    *)
(* buffer each; every memcpy of one of them is a step, so are the          *)
(* assignment of the size, the send and the memset of txFrame.             *)
(***************************************************************************)
EXTENDS Integers, Sequences

CONSTANTS
  Ports,        \* the interfaces on the list lldp_ports
  InfoOptions,  \* TLVs of an information frame between the time to live and the end
  WifiOptions,  \* wifi TLVs in the frame that gives an address
  MinSize,      \* slots of the shortest frame sent, 64 bytes in the code
  BufferSlots   \* slots of tx.frame, of which initialize_lldp allocates mtu - 2 octets

\* Nothing in the code compares a frame with the length of the buffer: that the
\* longest one fits is taken for granted here as it is there.
ASSUME OptionAssumption ==
  /\ WifiOptions \in Nat /\ InfoOptions \in Nat /\ BufferSlots \in Nat
  /\ WifiOptions < InfoOptions
  /\ InfoOptions + 5 <= BufferSlots
  /\ MinSize \in 1 .. BufferSlots

Threads == {"tx", "rx"}

Mandatory == <<"chassis", "portid", "ttl">>

\* What mibConstrInfoLLDPDU puts together, and config_ip_for_slave.
Info  == <<"toAll">> \o Mandatory \o [i \in 1 .. InfoOptions |-> "option"] \o <<"end">>
SetIp == <<"toSlave">> \o Mandatory \o [i \in 1 .. WifiOptions |-> "wifi"]
           \o <<"slaveip", "end">>

Message(t) == IF t = "tx" THEN Info ELSE SetIp

Slots == 1 .. BufferSlots
Parts == {"toAll", "toSlave", "chassis", "portid", "ttl", "option", "wifi",
          "slaveip", "end", "zero"}

\* A short frame is sent with the minimum size.
SizeOf(t) == IF Len(Message(t)) < MinSize THEN MinSize ELSE Len(Message(t))

VARIABLES
  frame,      \* tx.frame of every port
  sendsize,   \* tx.sendsize
  at,         \* where a thread is in building and sending a frame
  port,       \* the port a thread builds its frame for
  copied,     \* how many parts of its frame a thread has copied
  sent,       \* history: what a thread has just handed to the socket
  overlapped  \* history: the other thread has been at work on the same buffer

vars == <<frame, sendsize, at, port, copied, sent, overlapped>>

Places == {"elsewhere", "copying", "sending", "clearing"}

TypeOK ==
  /\ frame \in [Ports -> [Slots -> Parts]]
  /\ sendsize \in [Ports -> Slots]
  /\ at \in [Threads -> Places]
  /\ port \in [Threads -> Ports]
  /\ copied \in [Threads -> Slots]
  /\ sent \in [Threads -> Seq(Parts)]
  /\ overlapped \in [Threads -> BOOLEAN]

\* initialize_lldp has sent the first information frame of every port.
Init ==
  /\ frame = [p \in Ports |-> [i \in Slots |-> "zero"]]
  /\ sendsize = [p \in Ports |-> SizeOf("tx")]
  /\ at = [t \in Threads |-> "elsewhere"]
  /\ port \in [Threads -> Ports]
  /\ copied = [t \in Threads |-> 1]
  /\ sent = [t \in Threads |-> <<>>]
  /\ overlapped = [t \in Threads |-> FALSE]

Busy(t, p) == at[t] # "elsewhere" /\ port[t] = p

\* The header is copied: the tx thread is due to inform the port, or the rx
\* thread has just given an address to a slave of it.
CopyHeader(t, p) ==
  /\ at[t] = "elsewhere"
  /\ at' = [at EXCEPT ![t] = "copying"]
  /\ port' = [port EXCEPT ![t] = p]
  /\ frame' = [frame EXCEPT ![p][1] = Message(t)[1]]
  /\ copied' = [copied EXCEPT ![t] = 1]
  /\ overlapped' = [u \in Threads |->
       IF u = t THEN \E v \in Threads : Busy(v, p)
                ELSE overlapped[u] \/ Busy(u, p)]
  /\ UNCHANGED <<sendsize, sent>>

\* The next TLV is copied.
CopyTLV(t) ==
  /\ at[t] = "copying" /\ copied[t] < Len(Message(t))
  /\ copied' = [copied EXCEPT ![t] = @ + 1]
  /\ frame' = [frame EXCEPT ![port[t]][copied[t] + 1] = Message(t)[copied[t] + 1]]
  /\ UNCHANGED <<sendsize, at, port, sent, overlapped>>

\* Mutant of SetSize: the size is off by one.
SetSizePlus(t) ==
  /\ at[t] = "copying" /\ copied[t] = Len(Message(t))
  /\ sendsize' = [sendsize EXCEPT ![port[t]] = SizeOf(t) + 1]
  /\ at' = [at EXCEPT ![t] = "sending"]
  /\ UNCHANGED <<frame, port, copied, sent, overlapped>>

SetSize(t) ==
  /\ at[t] = "copying" /\ copied[t] = Len(Message(t))
  /\ sendsize' = [sendsize EXCEPT ![port[t]] = SizeOf(t)]
  /\ at' = [at EXCEPT ![t] = "sending"]
  /\ UNCHANGED <<frame, port, copied, sent, overlapped>>

\* lldp_write.
Send(t) ==
  /\ at[t] = "sending"
  /\ sent' = [sent EXCEPT ![t] = [i \in 1 .. sendsize[port[t]] |-> frame[port[t]][i]]]
  /\ at' = [at EXCEPT ![t] = "clearing"]
  /\ UNCHANGED <<frame, sendsize, port, copied, overlapped>>

\* Mutants of Cleared: no memset, and one that is off by one.
NotCleared(p)     == frame[p]
ClearedShort(p)   == [i \in Slots |-> IF i < sendsize[p] THEN "zero" ELSE frame[p][i]]

Cleared(p) == [i \in Slots |-> IF i <= sendsize[p] THEN "zero" ELSE frame[p][i]]

\* The memset at the end of txFrame.
Clear(t) ==
  /\ at[t] = "clearing"
  /\ frame' = [frame EXCEPT ![port[t]] = Cleared(port[t])]
  /\ at' = [at EXCEPT ![t] = "elsewhere"]
  /\ sent' = [sent EXCEPT ![t] = <<>>]
  /\ overlapped' = [overlapped EXCEPT ![t] = FALSE]
  /\ copied' = [copied EXCEPT ![t] = 1]
  /\ UNCHANGED <<sendsize, port>>

Next == \E t \in Threads :
          \/ \E p \in Ports : CopyHeader(t, p)
          \/ CopyTLV(t) \/ SetSize(t) \/ Send(t) \/ Clear(t)

Spec == Init /\ [][Next]_vars

-----------------------------------------------------------------------------
(* Safety.                                                                 *)

\* A frame that one thread builds and sends while the other leaves the buffer
\* alone is whole: its own parts and a padding of zeros.  That is so even after
\* the two have been at each other's frames, although a frame shorter than the
\* one before is padded with what is left in the buffer (tx_sm.c txFrame).
WholeWhenAlone ==
  \A t \in Threads :
    at[t] = "clearing" /\ ~overlapped[t] =>
      sent[t] = [i \in 1 .. SizeOf(t) |->
                   IF i <= Len(Message(t)) THEN Message(t)[i] ELSE "zero"]

\* What makes that so: a buffer nobody works on is clear as far as the shortest
\* frame reaches, whichever of the two threads was the last to clear it and
\* whichever of the two sizes it went by.  What the longer frame leaves behind that
\* may stay.
IdleBufferClear ==
  \A p \in Ports :
    (\A t \in Threads : ~Busy(t, p)) =>
      \A i \in 1 .. SizeOf("rx") : frame[p][i] = "zero"

-----------------------------------------------------------------------------
(* What the comments say and the code does not do.                         *)

\* tx_sm.c:120, "This TLV "MUST" be last": every frame that is sent has an end,
\* and nothing but padding behind it.
EndIsLast ==
  \A t \in Threads :
    at[t] = "clearing" =>
      \E i \in 1 .. Len(sent[t]) :
        /\ sent[t][i] = "end"
        /\ \A j \in i + 1 .. Len(sent[t]) : sent[t][j] = "zero"

=============================================================================

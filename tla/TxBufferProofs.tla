---------------------------- MODULE TxBufferProofs ----------------------------
(***************************************************************************)
(* Proofs about TxBuffer for every number of ports, of TLVs in either      *)
(* frame, every minimum size and every buffer the longest frame fits in.   *)
(***************************************************************************)
EXTENDS TxBuffer, SequenceTheorems, TLAPS

\* What t has sent, or is to send, when nobody interferes: its own parts and a
\* padding of zeros.
Padded(t) == [i \in 1 .. SizeOf(t) |->
                IF i <= Len(Message(t)) THEN Message(t)[i] ELSE "zero"]

\* A thread is said to be alone only if no other is at work on its port.
AloneExact ==
  \A t, u \in Threads :
    Busy(t, port[t]) /\ ~overlapped[t] /\ Busy(u, port[t]) => t = u

\* The size goes back and forth between those of the two frames, so that every
\* memset clears at least what the shorter one takes.
SizeKnown == \A p \in Ports : \E t \in Threads : sendsize[p] = SizeOf(t)

\* A thread that is alone finds in the buffer what it has copied so far, and
\* behind it the zeros its frame may have to be padded with.
SoFar(t) ==
  ~overlapped[t] =>
    /\ at[t] \in {"copying", "sending"} =>
         /\ copied[t] <= Len(Message(t))
         /\ \A i \in 1 .. SizeOf(t) : i <= copied[t] => frame[port[t]][i] = Message(t)[i]
         /\ \A i \in 1 .. SizeOf("rx") : i > copied[t] => frame[port[t]][i] = "zero"
    /\ at[t] = "sending" =>
         copied[t] = Len(Message(t)) /\ sendsize[port[t]] = SizeOf(t)

FrameSoFar == \A t \in Threads : SoFar(t)

\* The inductive invariant.
BufferInv ==
  TypeOK /\ AloneExact /\ SizeKnown /\ FrameSoFar /\ WholeWhenAlone /\ IdleBufferClear

-----------------------------------------------------------------------------
(* The two frames.                                                         *)

\* Putting two lists of parts in a row.
LEMMA JoinFact ==
  ASSUME NEW a \in Seq(Parts), NEW b \in Seq(Parts)
  PROVE  a \o b \in Seq(Parts) /\ Len(a \o b) = Len(a) + Len(b)
BY ConcatProperties

\* The lengths of the two frames.
LEMMA MessageFact ==
  /\ Len(Message("tx")) = InfoOptions + 5
  /\ Len(Message("rx")) = WifiOptions + 6
  /\ \A t \in Threads : Message(t) \in Seq(Parts)
<1> DEFINE head(h) == <<h>> \o Mandatory
           opts == [i \in 1 .. InfoOptions |-> "option"]
           wifi == [i \in 1 .. WifiOptions |-> "wifi"]
           end  == <<"end">>
           last == <<"slaveip", "end">>
<1>1. /\ opts \in Seq(Parts) /\ Len(opts) = InfoOptions
      /\ wifi \in Seq(Parts) /\ Len(wifi) = WifiOptions
  BY OptionAssumption DEF Parts
<1>2. \A h \in {"toAll", "toSlave"} : head(h) \in Seq(Parts) /\ Len(head(h)) = 4
  BY DEF Mandatory, Parts
<1>3. /\ end \in Seq(Parts) /\ Len(end) = 1
      /\ last \in Seq(Parts) /\ Len(last) = 2
  BY DEF Parts
<1>4. Info = head("toAll") \o opts \o end
  BY DEF Info
<1>5. SetIp = head("toSlave") \o wifi \o last
  BY DEF SetIp
<1> HIDE DEF head, opts, wifi, end, last
<1>6. ASSUME NEW h \in Seq(Parts), NEW o \in Seq(Parts), NEW e \in Seq(Parts)
      PROVE  h \o o \o e \in Seq(Parts) /\ Len(h \o o \o e) = Len(h) + Len(o) + Len(e)
  <2>1. h \o o \in Seq(Parts) /\ Len(h \o o) = Len(h) + Len(o)
    BY JoinFact
  <2>2. h \o o \o e \in Seq(Parts) /\ Len(h \o o \o e) = Len(h \o o) + Len(e)
    BY <2>1, JoinFact
  <2> QED BY <2>1, <2>2
<1>7. Info \in Seq(Parts) /\ Len(Info) = InfoOptions + 5
  <2>a. head("toAll") \in Seq(Parts) /\ opts \in Seq(Parts) /\ end \in Seq(Parts)
    BY <1>1, <1>2, <1>3
  <2>1. Info \in Seq(Parts) /\ Len(Info) = Len(head("toAll")) + Len(opts) + Len(end)
    BY <1>4, <1>6, <2>a
  <2>2. Len(head("toAll")) = 4
    BY <1>2
  <2>3. InfoOptions \in Nat
    BY OptionAssumption
  <2>4. Len(opts) = InfoOptions /\ Len(end) = 1
    BY <1>1, <1>3
  <2>5. Len(Info) = 4 + InfoOptions + 1
    BY <2>1, <2>2, <2>4
  <2> QED BY <2>1, <2>3, <2>5
<1>8. SetIp \in Seq(Parts) /\ Len(SetIp) = WifiOptions + 6
  <2>a. head("toSlave") \in Seq(Parts) /\ wifi \in Seq(Parts) /\ last \in Seq(Parts)
    BY <1>1, <1>2, <1>3
  <2>1. /\ SetIp \in Seq(Parts)
        /\ Len(SetIp) = Len(head("toSlave")) + Len(wifi) + Len(last)
    BY <1>5, <1>6, <2>a
  <2>2. Len(head("toSlave")) = 4
    BY <1>2
  <2>3. WifiOptions \in Nat
    BY OptionAssumption
  <2>4. Len(wifi) = WifiOptions /\ Len(last) = 2
    BY <1>1, <1>3
  <2>5. Len(SetIp) = 4 + WifiOptions + 2
    BY <2>1, <2>2, <2>4
  <2> QED BY <2>1, <2>3, <2>5
<1> QED BY <1>7, <1>8 DEF Message, Threads

\* Neither frame is longer than the buffer, as is assumed, and the one that gives an address is
\* never sent with the larger size.
LEMMA SizeFact ==
  ASSUME NEW t \in Threads
  PROVE  /\ Len(Message(t)) \in Slots /\ SizeOf(t) \in Slots
         /\ Len(Message(t)) <= SizeOf(t) /\ SizeOf("rx") <= SizeOf(t)
         /\ \A i \in 1 .. SizeOf(t) : i \in Slots
         /\ \A i \in 1 .. Len(Message(t)) : Message(t)[i] \in Parts
<1>1. Len(Message(t)) \in Slots /\ SizeOf(t) \in Slots
  BY MessageFact, OptionAssumption DEF SizeOf, Slots, Threads
<1>2. Len(Message(t)) <= SizeOf(t) /\ SizeOf("rx") <= SizeOf(t)
  BY MessageFact, OptionAssumption DEF SizeOf, Threads
<1>3. \A i \in 1 .. Len(Message(t)) : Message(t)[i] \in Parts
  BY MessageFact, ElementOfSeq
<1>4. \A i \in 1 .. SizeOf(t) : i \in Slots
  BY <1>1, OptionAssumption DEF Slots
<1> QED BY <1>1, <1>2, <1>3, <1>4

-----------------------------------------------------------------------------
(* The steps of a thread.                                                  *)

\* The buffers and sizes after initialize_lldp.
LEMMA BufferInit ==
  ASSUME Init
  PROVE  BufferInv
<1>1. SizeOf("tx") \in Slots /\ SizeOf("rx") \in Slots /\ 1 \in Slots
  BY SizeFact, OptionAssumption DEF Slots, Threads
<1>2. TypeOK
  <2>1. <<>> \in Seq(Parts)
    BY EmptySeq
  <2> QED BY <1>1, <2>1 DEF Init, TypeOK, Places, Parts
<1>3. IdleBufferClear
  <2>1. \A i \in 1 .. SizeOf("rx") : i \in Slots
    BY SizeFact DEF Threads
  <2> QED BY <2>1 DEF Init, IdleBufferClear
<1>4. SizeKnown
  BY <1>1 DEF Init, SizeKnown, Threads
<1>5. AloneExact /\ FrameSoFar /\ WholeWhenAlone
  BY DEF Init, AloneExact, Busy, FrameSoFar, SoFar, WholeWhenAlone
<1> QED BY <1>2, <1>3, <1>4, <1>5 DEF BufferInv

\* A thread that starts on a buffer finds it clear or another thread in it.
LEMMA CopyHeaderStep ==
  ASSUME BufferInv, NEW t \in Threads, NEW p \in Ports, CopyHeader(t, p)
  PROVE  BufferInv'
<1>1. /\ TypeOK /\ AloneExact /\ SizeKnown /\ FrameSoFar /\ WholeWhenAlone
      /\ IdleBufferClear
  BY DEF BufferInv
<1>2. 1 \in Slots /\ Message(t)[1] \in Parts /\ 1 <= Len(Message(t))
  BY SizeFact, OptionAssumption DEF Slots
<1>3. /\ at[t] = "elsewhere" /\ at'[t] = "copying" /\ port'[t] = p /\ copied'[t] = 1
      /\ overlapped'[t] = \E v \in Threads : Busy(v, p)
      /\ \A u \in Threads \ {t} :
           /\ at'[u] = at[u] /\ port'[u] = port[u] /\ copied'[u] = copied[u]
           /\ overlapped'[u] = (overlapped[u] \/ Busy(u, p))
      /\ UNCHANGED <<sendsize, sent>>
  BY <1>1 DEF CopyHeader, TypeOK
<1>4. /\ \A q \in Ports \ {p} : frame'[q] = frame[q]
      /\ \A i \in Slots : frame'[p][i] = IF i = 1 THEN Message(t)[1] ELSE frame[p][i]
  BY <1>1 DEF CopyHeader, TypeOK
<1>5. TypeOK'
  BY <1>1, <1>2 DEF CopyHeader, TypeOK, Places
<1>6. AloneExact'
  <2> SUFFICES ASSUME NEW u \in Threads, NEW v \in Threads,
                      Busy(u, port[u])', ~overlapped'[u], Busy(v, port[u])'
               PROVE  u = v
    BY DEF AloneExact, Busy
  <2>1. CASE u = t /\ v # t
    <3>1. Busy(v, p)
      BY <1>3, <2>1 DEF Busy
    <3> QED BY <1>3, <2>1, <3>1
  <2>2. CASE u # t /\ v = t
    <3>1. port[u] = p /\ Busy(u, p)
      BY <1>3, <2>2 DEF Busy
    <3> QED BY <1>3, <2>2, <3>1
  <2>3. CASE u # t /\ v # t
    <3>1. Busy(u, port[u]) /\ Busy(v, port[u]) /\ ~overlapped[u]
      BY <1>3, <2>3 DEF Busy
    <3> QED BY <1>1, <3>1 DEF AloneExact
  <2> QED BY <2>1, <2>2, <2>3
<1>7. FrameSoFar'
  <2> SUFFICES ASSUME NEW u \in Threads, ~overlapped'[u] PROVE SoFar(u)'
    BY DEF FrameSoFar, SoFar
  <2>1. CASE u = t
    <3>1. \A v \in Threads : ~Busy(v, p)
      BY <1>3, <2>1
    <3>2. \A i \in 1 .. SizeOf("rx") : frame[p][i] = "zero"
      BY <1>1, <3>1 DEF IdleBufferClear
    <3>3. (\A i \in 1 .. SizeOf("rx") : i \in Slots) /\ (\A i \in 1 .. SizeOf(t) : i \in Slots)
      BY SizeFact DEF Threads
    <3> QED BY <1>2, <1>3, <1>4, <2>1, <3>2, <3>3 DEF SoFar
  <2>2. CASE u # t
    <3>1. at[u] # "elsewhere" => port[u] # p /\ ~overlapped[u]
      BY <1>1, <1>3, <2>2 DEF Busy, TypeOK
    <3>2. at'[u] # "elsewhere" => frame'[port'[u]] = frame[port[u]]
      BY <1>1, <1>3, <1>4, <2>2, <3>1 DEF TypeOK
    <3> QED BY <1>1, <1>3, <2>2, <3>1, <3>2 DEF FrameSoFar, SoFar
  <2> QED BY <2>1, <2>2
<1>8. WholeWhenAlone'
  <2> SUFFICES ASSUME NEW u \in Threads, at'[u] = "clearing", ~overlapped'[u]
               PROVE  sent'[u] = Padded(u)
    BY DEF WholeWhenAlone, Padded
  <2> QED BY <1>1, <1>3 DEF WholeWhenAlone, Padded, TypeOK
<1>9. IdleBufferClear'
  <2> SUFFICES ASSUME NEW q \in Ports, \A u \in Threads : ~Busy(u, q)'
               PROVE  \A i \in 1 .. SizeOf("rx") : frame'[q][i] = "zero"
    BY DEF IdleBufferClear, Busy
  <2>1. q # p
    BY <1>3 DEF Busy
  <2>2. \A u \in Threads : ~Busy(u, q)
    BY <1>3 DEF Busy
  <2> QED BY <1>1, <1>4, <2>1, <2>2 DEF IdleBufferClear
<1>10. SizeKnown'
  BY <1>1, <1>3 DEF SizeKnown
<1> QED BY <1>5, <1>6, <1>7, <1>8, <1>9, <1>10 DEF BufferInv

\* A thread at work keeps away from the buffer of one that is alone.
LEMMA KeepsAway ==
  ASSUME AloneExact, NEW t \in Threads, NEW u \in Threads, u # t,
         at[t] # "elsewhere", at[u] # "elsewhere", ~overlapped[u]
  PROVE  port[u] # port[t]
BY DEF AloneExact, Busy

\* Nothing a thread does between its start and its end changes who is busy.
LEMMA SameBusy ==
  ASSUME AloneExact, UNCHANGED <<port, overlapped>>,
         \A u \in Threads : at[u] = "elsewhere" <=> at'[u] = "elsewhere"
  PROVE  AloneExact' /\ \A u \in Threads : \A q : Busy(u, q)' <=> Busy(u, q)
BY DEF AloneExact, Busy

\* The next part goes where the thread's frame has its next part.
LEMMA CopyTLVStep ==
  ASSUME BufferInv, NEW t \in Threads, CopyTLV(t)
  PROVE  BufferInv'
<1>1. /\ TypeOK /\ AloneExact /\ SizeKnown /\ FrameSoFar /\ WholeWhenAlone
      /\ IdleBufferClear
  BY DEF BufferInv
<1> DEFINE p == port[t]
           n == copied[t] + 1
<1>2. /\ n \in Slots /\ n \in 1 .. Len(Message(t)) /\ n <= Len(Message(t))
      /\ Message(t)[n] \in Parts /\ p \in Ports
  <2>1. copied[t] \in Slots /\ copied[t] < Len(Message(t)) /\ p \in Ports
    BY <1>1 DEF TypeOK, CopyTLV
  <2>2. n \in 1 .. Len(Message(t)) /\ n \in Slots
    BY <2>1, SizeFact, OptionAssumption DEF Slots
  <2> QED BY <2>1, <2>2, SizeFact
<1>3. /\ at[t] = "copying" /\ copied'[t] = n
      /\ \A u \in Threads \ {t} : copied'[u] = copied[u]
      /\ UNCHANGED <<sendsize, at, port, sent, overlapped>>
  BY <1>1 DEF CopyTLV, TypeOK
<1>4. /\ \A q \in Ports \ {p} : frame'[q] = frame[q]
      /\ \A i \in Slots : frame'[p][i] = IF i = n THEN Message(t)[n] ELSE frame[p][i]
  BY <1>1, <1>2 DEF CopyTLV, TypeOK
<1>5. TypeOK'
  BY <1>1, <1>2 DEF CopyTLV, TypeOK
<1> HIDE DEF n, p
<1>6. AloneExact' /\ \A u \in Threads : \A q : Busy(u, q)' <=> Busy(u, q)
  BY <1>1, <1>3, SameBusy
<1>7. FrameSoFar'
  <2> SUFFICES ASSUME NEW u \in Threads, ~overlapped'[u] PROVE SoFar(u)'
    BY DEF FrameSoFar, SoFar
  <2>1. CASE u = t
    <3>1. (\A i \in 1 .. SizeOf("rx") : i \in Slots) /\ (\A i \in 1 .. SizeOf(t) : i \in Slots)
      BY SizeFact DEF Threads
    <3>2. copied[t] \in Int /\ n = copied[t] + 1
      BY <1>1, OptionAssumption DEF TypeOK, Slots, n
    <3>3. SoFar(t) /\ ~overlapped[t]
      BY <1>1, <1>3, <2>1 DEF FrameSoFar
    <3>4. ASSUME NEW i \in 1 .. SizeOf(t), i <= n
          PROVE  frame'[p][i] = Message(t)[i]
      <4>1. i = n \/ i <= copied[t]
        BY <3>2, <3>4
      <4> QED BY <1>3, <1>4, <3>1, <3>3, <4>1 DEF SoFar, p
    <3>5. ASSUME NEW i \in 1 .. SizeOf("rx"), i > n
          PROVE  frame'[p][i] = "zero"
      <4>1. i # n /\ i > copied[t]
        BY <3>2, <3>5
      <4> QED BY <1>3, <1>4, <3>1, <3>3, <4>1 DEF SoFar, p
    <3> QED BY <1>2, <1>3, <2>1, <3>4, <3>5 DEF SoFar, p
  <2>2. CASE u # t
    <3>1. at[u] # "elsewhere" => port[u] # p
      BY <1>1, <1>3, <2>2, KeepsAway DEF p
    <3>2. at[u] # "elsewhere" => frame'[port'[u]] = frame[port[u]]
      BY <1>1, <1>3, <1>4, <3>1 DEF TypeOK
    <3> QED BY <1>1, <1>3, <2>2, <3>2 DEF FrameSoFar, SoFar
  <2> QED BY <2>1, <2>2
<1>8. IdleBufferClear'
  <2>1. Busy(t, p)
    BY <1>3 DEF Busy, p
  <2> QED BY <1>1, <1>4, <1>6, <2>1 DEF IdleBufferClear
<1>9. WholeWhenAlone' /\ SizeKnown'
  BY <1>1, <1>3 DEF WholeWhenAlone, SizeKnown
<1> QED BY <1>5, <1>6, <1>7, <1>8, <1>9 DEF BufferInv

\* The size is written when all parts are there.
LEMMA SetSizeStep ==
  ASSUME BufferInv, NEW t \in Threads, SetSize(t)
  PROVE  BufferInv'
<1>1. /\ TypeOK /\ AloneExact /\ SizeKnown /\ FrameSoFar /\ WholeWhenAlone
      /\ IdleBufferClear
  BY DEF BufferInv
<1>2. /\ at[t] = "copying" /\ at'[t] = "sending" /\ copied[t] = Len(Message(t))
      /\ \A u \in Threads \ {t} : at'[u] = at[u]
      /\ sendsize' = [sendsize EXCEPT ![port[t]] = SizeOf(t)]
      /\ UNCHANGED <<frame, port, copied, sent, overlapped>>
  BY <1>1 DEF SetSize, TypeOK
<1>3. port[t] \in Ports /\ sendsize'[port[t]] = SizeOf(t)
      /\ \A q \in Ports \ {port[t]} : sendsize'[q] = sendsize[q]
  BY <1>1, <1>2 DEF TypeOK
<1>4. TypeOK'
  BY <1>1, SizeFact DEF SetSize, TypeOK, Places
<1>5. AloneExact' /\ \A u \in Threads : \A q : Busy(u, q)' <=> Busy(u, q)
  BY <1>1, <1>2, SameBusy
<1>6. FrameSoFar'
  <2> SUFFICES ASSUME NEW u \in Threads, ~overlapped'[u] PROVE SoFar(u)'
    BY DEF FrameSoFar, SoFar
  <2>1. CASE u = t
    BY <1>1, <1>2, <1>3, <2>1 DEF FrameSoFar, SoFar
  <2>2. CASE u # t
    <3>1. at[u] # "elsewhere" => port[u] # port[t]
      BY <1>1, <1>2, <2>2, KeepsAway
    <3>2. port[u] \in Ports
      BY <1>1 DEF TypeOK
    <3> QED BY <1>1, <1>2, <1>3, <2>2, <3>1, <3>2 DEF FrameSoFar, SoFar
  <2> QED BY <2>1, <2>2
<1>7. IdleBufferClear'
  BY <1>1, <1>2, <1>5 DEF IdleBufferClear
<1>8. SizeKnown'
  BY <1>1, <1>3 DEF SizeKnown
<1>9. WholeWhenAlone'
  BY <1>1, <1>2 DEF WholeWhenAlone, TypeOK
<1> QED BY <1>4, <1>5, <1>6, <1>7, <1>8, <1>9 DEF BufferInv

\* What is sent by a thread that is alone is its frame and the padding.
LEMMA SendStep ==
  ASSUME BufferInv, NEW t \in Threads, Send(t)
  PROVE  BufferInv'
<1>1. /\ TypeOK /\ AloneExact /\ SizeKnown /\ FrameSoFar /\ WholeWhenAlone
      /\ IdleBufferClear
  BY DEF BufferInv
<1> DEFINE out == [i \in 1 .. sendsize[port[t]] |-> frame[port[t]][i]]
<1>2. /\ at[t] = "sending" /\ at'[t] = "clearing" /\ sent'[t] = out
      /\ \A u \in Threads \ {t} : at'[u] = at[u] /\ sent'[u] = sent[u]
      /\ UNCHANGED <<frame, sendsize, port, copied, overlapped>>
  BY <1>1 DEF Send, TypeOK
<1>3. out \in Seq(Parts)
  <2>1. port[t] \in Ports /\ sendsize[port[t]] \in Slots
    BY <1>1 DEF TypeOK
  <2>2. \A i \in 1 .. sendsize[port[t]] : i \in Slots
    BY <2>1, OptionAssumption DEF Slots
  <2>3. \A i \in 1 .. sendsize[port[t]] : frame[port[t]][i] \in Parts
    BY <1>1, <2>1, <2>2 DEF TypeOK
  <2>4. sendsize[port[t]] \in Nat
    BY <2>1, OptionAssumption DEF Slots
  <2> QED BY <2>3, <2>4
<1> HIDE DEF out
<1>4. TypeOK'
  BY <1>1, <1>3 DEF Send, TypeOK, Places, out
<1>5. AloneExact' /\ \A u \in Threads : \A q : Busy(u, q)' <=> Busy(u, q)
  BY <1>1, <1>2, SameBusy
<1>6. FrameSoFar'
  BY <1>1, <1>2 DEF FrameSoFar, SoFar
<1>7. WholeWhenAlone'
  <2> SUFFICES ASSUME NEW u \in Threads, at'[u] = "clearing", ~overlapped'[u]
               PROVE  sent'[u] = Padded(u)
    BY DEF WholeWhenAlone, Padded
  <2>1. CASE u # t
    BY <1>1, <1>2, <2>1 DEF WholeWhenAlone, Padded
  <2>2. CASE u = t
    <3>1. /\ sendsize[port[t]] = SizeOf(t) /\ copied[t] = Len(Message(t))
          /\ \A i \in 1 .. SizeOf(t) : i <= copied[t] => frame[port[t]][i] = Message(t)[i]
          /\ \A i \in 1 .. SizeOf("rx") : i > copied[t] => frame[port[t]][i] = "zero"
      BY <1>1, <1>2, <2>2 DEF FrameSoFar, SoFar
    <3>2. ASSUME NEW i \in 1 .. SizeOf(t)
          PROVE  frame[port[t]][i] =
                   IF i <= Len(Message(t)) THEN Message(t)[i] ELSE "zero"
      <4>1. CASE i <= Len(Message(t))
        BY <3>1, <4>1
      <4>2. CASE ~(i <= Len(Message(t)))
        <5>1. SizeOf(t) = SizeOf("rx") \/ Len(Message(t)) = SizeOf(t)
          BY MessageFact, OptionAssumption DEF SizeOf, Threads
        <5>2. Len(Message(t)) \in Int /\ SizeOf(t) \in Int
          BY SizeFact, OptionAssumption DEF Slots
        <5>3. SizeOf(t) = SizeOf("rx") /\ i > Len(Message(t))
          BY <4>2, <5>1, <5>2
        <5> QED BY <3>1, <4>2, <5>3
      <4> QED BY <4>1, <4>2
    <3> QED BY <1>2, <2>2, <3>1, <3>2 DEF Padded, out
  <2> QED BY <2>1, <2>2
<1>8. IdleBufferClear' /\ SizeKnown'
  BY <1>1, <1>2, <1>5 DEF IdleBufferClear, SizeKnown
<1> QED BY <1>4, <1>5, <1>6, <1>7, <1>8 DEF BufferInv

\* The memset clears what the shorter frame takes, whichever size it goes by.
LEMMA ClearStep ==
  ASSUME BufferInv, NEW t \in Threads, Clear(t)
  PROVE  BufferInv'
<1>1. /\ TypeOK /\ AloneExact /\ SizeKnown /\ FrameSoFar /\ WholeWhenAlone
      /\ IdleBufferClear
  BY DEF BufferInv
<1> DEFINE p == port[t]
<1>2. /\ at[t] = "clearing" /\ at'[t] = "elsewhere" /\ p \in Ports
      /\ \A u \in Threads \ {t} :
           /\ at'[u] = at[u] /\ sent'[u] = sent[u] /\ copied'[u] = copied[u]
           /\ overlapped'[u] = overlapped[u]
      /\ frame' = [frame EXCEPT ![p] = Cleared(p)]
      /\ UNCHANGED <<sendsize, port>>
  BY <1>1 DEF Clear, TypeOK
<1>3. TypeOK'
  <2>1. Cleared(p) \in [Slots -> Parts] /\ 1 \in Slots /\ <<>> \in Seq(Parts)
    BY <1>1, <1>2, OptionAssumption, EmptySeq DEF Cleared, TypeOK, Parts, Slots
  <2> QED BY <1>1, <2>1 DEF Clear, TypeOK, Places
<1> HIDE DEF p
<1>4. \A u \in Threads : \A q : Busy(u, q)' <=> u # t /\ Busy(u, q)
  BY <1>2 DEF Busy
<1>5. AloneExact'
  BY <1>1, <1>2, <1>4 DEF AloneExact, Busy
<1>6. FrameSoFar'
  <2> SUFFICES ASSUME NEW u \in Threads, ~overlapped'[u] PROVE SoFar(u)'
    BY DEF FrameSoFar, SoFar
  <2>1. CASE u = t
    BY <1>2, <2>1 DEF SoFar
  <2>2. CASE u # t
    <3>1. at[u] # "elsewhere" => port[u] # p
      BY <1>1, <1>2, <2>2, KeepsAway DEF p
    <3>2. at[u] # "elsewhere" => frame'[port'[u]] = frame[port[u]]
      BY <1>1, <1>2, <3>1 DEF TypeOK
    <3> QED BY <1>1, <1>2, <2>2, <3>2 DEF FrameSoFar, SoFar
  <2> QED BY <2>1, <2>2
<1>7. WholeWhenAlone'
  BY <1>1, <1>2 DEF WholeWhenAlone
<1>8. IdleBufferClear'
  <2> SUFFICES ASSUME NEW q \in Ports, \A u \in Threads : ~Busy(u, q)',
                      NEW i \in 1 .. SizeOf("rx")
               PROVE  frame'[q][i] = "zero"
    BY DEF IdleBufferClear, Busy
  <2>1. CASE q = p
    <3>1. PICK u \in Threads : sendsize[p] = SizeOf(u)
      BY <1>1, <1>2 DEF SizeKnown
    <3>2. i \in Slots /\ SizeOf("rx") <= SizeOf(u) /\ SizeOf("rx") \in Int /\ SizeOf(u) \in Int
      BY SizeFact, OptionAssumption DEF Threads, Slots
    <3>3. i <= sendsize[p]
      BY <3>1, <3>2
    <3> QED BY <1>1, <1>2, <2>1, <3>2, <3>3 DEF Cleared, TypeOK
  <2>2. CASE q # p
    <3>1. \A u \in Threads : ~Busy(u, q)
      BY <1>4, <2>2 DEF Busy, p
    <3> QED BY <1>1, <1>2, <2>2, <3>1 DEF IdleBufferClear, TypeOK
  <2> QED BY <2>1, <2>2
<1>9. SizeKnown'
  BY <1>1, <1>2 DEF SizeKnown
<1> QED BY <1>3, <1>5, <1>6, <1>7, <1>8, <1>9 DEF BufferInv

-----------------------------------------------------------------------------
(* The results.                                                            *)

\* However the two threads interleave, the invariant of the buffers holds.
THEOREM BufferInvariance == Spec => []BufferInv
<1>1. Init => BufferInv
  BY BufferInit
<1>2. BufferInv /\ [Next]_vars => BufferInv'
  <2> SUFFICES ASSUME BufferInv, [Next]_vars PROVE BufferInv'
    OBVIOUS
  <2>1. CASE Next
    BY <2>1, CopyHeaderStep, CopyTLVStep, SetSizeStep, SendStep, ClearStep DEF Next
  <2>2. CASE UNCHANGED vars
    BY <2>2 DEF vars, BufferInv, TypeOK, AloneExact, SizeKnown, FrameSoFar, SoFar,
                WholeWhenAlone, IdleBufferClear, Busy, Cleared
  <2> QED BY <2>1, <2>2
<1> QED BY <1>1, <1>2, PTL DEF Spec

\* Every variable keeps its type.  Of the buffer it says that no interleaving of
\* the two threads copies or clears more of it than the longest frame or the
\* minimum size takes, for which it is assumed to be long enough.
THEOREM BufferTypeCorrect == Spec => []TypeOK
<1>1. BufferInv => TypeOK
  BY DEF BufferInv
<1> QED BY <1>1, BufferInvariance, PTL

\* A frame built while the other thread stays away goes out whole.
THEOREM FrameWholeWhenAlone == Spec => []WholeWhenAlone
<1>1. BufferInv => WholeWhenAlone
  BY DEF BufferInv
<1> QED BY <1>1, BufferInvariance, PTL

\* A buffer nobody works on holds zeros as far as the shorter frame reaches; of
\* what a longer frame leaves behind that nothing is said.
THEOREM IdleBufferIsClear == Spec => []IdleBufferClear
<1>1. BufferInv => IdleBufferClear
  BY DEF BufferInv
<1> QED BY <1>1, BufferInvariance, PTL

=============================================================================

---------------------------- MODULE RxThreadProofs ----------------------------
(***************************************************************************)
(* Proofs about RxThread for every number of interfaces, every set of ways *)
(* in which their sockets fail and every length of the receive queues.     *)
(***************************************************************************)
EXTENDS RxThread, SequenceTheorems, FiniteSetTheorems, TLAPS

-----------------------------------------------------------------------------
(* Lists of ports.                                                         *)

\* No element of the sequence s comes twice.
Once(s) == \A i, j \in 1 .. Len(s) : s[i] = s[j] => i = j

\* ToSet in terms of the length.
LEMMA ToSetFact ==
  ASSUME NEW S, NEW s \in Seq(S)
  PROVE  /\ ToSet(s) = {s[i] : i \in 1 .. Len(s)}
         /\ ToSet(s) \subseteq S
         /\ Len(s) \in Nat
BY LenProperties, ElementOfSeq DEF ToSet

\* A port put in front joins the list, once if it was not on it.
LEMMA FrontFact ==
  ASSUME NEW S, NEW s \in Seq(S), NEW x \in S
  PROVE  /\ <<x>> \o s \in Seq(S)
         /\ Len(<<x>> \o s) = Len(s) + 1
         /\ ToSet(<<x>> \o s) = ToSet(s) \cup {x}
         /\ x \notin ToSet(s) /\ Once(s) => Once(<<x>> \o s)
<1> DEFINE t == <<x>> \o s
<1>1. <<x>> \in Seq(S) /\ Len(<<x>>) = 1 /\ <<x>>[1] = x
  OBVIOUS
<1>2. /\ t \in Seq(S) /\ Len(t) = Len(s) + 1
      /\ \A i \in 1 .. Len(s) + 1 : t[i] = IF i <= 1 THEN x ELSE s[i - 1]
  BY <1>1, ConcatProperties
<1>3. Len(s) \in Nat /\ Len(t) \in Nat
  BY <1>2, LenProperties
<1> HIDE DEF t
<1>4. t[1] = x /\ \A i \in 1 .. Len(s) : t[i + 1] = s[i]
  BY <1>2, <1>3
<1>5. ToSet(t) = {t[i] : i \in 1 .. Len(t)} /\ ToSet(s) = {s[i] : i \in 1 .. Len(s)}
  BY <1>2, ToSetFact
<1>6. ToSet(t) \subseteq ToSet(s) \cup {x}
  <2>1. ASSUME NEW i \in 1 .. Len(t) PROVE t[i] \in ToSet(s) \cup {x}
    <3>1. CASE i = 1
      BY <3>1, <1>4
    <3>2. CASE i # 1
      <4>1. i - 1 \in 1 .. Len(s) /\ t[i] = s[i - 1]
        BY <3>2, <1>2, <1>3
      <4> QED BY <4>1, <1>5
    <3> QED BY <3>1, <3>2
  <2> QED BY <2>1, <1>5
<1>7. ToSet(s) \cup {x} \subseteq ToSet(t)
  <2>1. x \in ToSet(t)
    BY <1>2, <1>3, <1>4, <1>5
  <2>2. ASSUME NEW i \in 1 .. Len(s) PROVE s[i] \in ToSet(t)
    <3>1. i + 1 \in 1 .. Len(t) /\ t[i + 1] = s[i]
      BY <1>2, <1>3, <1>4
    <3> QED BY <3>1, <1>5
  <2> QED BY <2>1, <2>2, <1>5
<1>8. ASSUME x \notin ToSet(s), Once(s) PROVE Once(t)
  <2> SUFFICES ASSUME NEW i \in 1 .. Len(t), NEW j \in 1 .. Len(t), t[i] = t[j]
               PROVE  i = j
    BY DEF Once
  <2>1. ASSUME NEW k \in 1 .. Len(t), k # 1
        PROVE  k - 1 \in 1 .. Len(s) /\ t[k] = s[k - 1] /\ t[k] # x
    <3>1. k - 1 \in 1 .. Len(s) /\ t[k] = s[k - 1]
      BY <2>1, <1>2, <1>3
    <3> QED BY <3>1, <1>5, <1>8
  <2>2. CASE i = 1 \/ j = 1
    BY <2>1, <2>2, <1>4
  <2>3. CASE i # 1 /\ j # 1
    <3>1. i - 1 = j - 1
      BY <2>1, <2>3, <1>8 DEF Once
    <3> QED BY <3>1
  <2> QED BY <2>2, <2>3
<1> QED BY <1>2, <1>6, <1>7, <1>8 DEF t

\* What is left of a list when its first port has been visited.
LEMMA TailFact ==
  ASSUME NEW S, NEW s \in Seq(S), s # <<>>
  PROVE  /\ Head(s) \in S /\ Head(s) \in ToSet(s)
         /\ Tail(s) \in Seq(S)
         /\ ToSet(Tail(s)) \subseteq ToSet(s)
         /\ Once(s) => Once(Tail(s)) /\ Head(s) \notin ToSet(Tail(s))
<1> DEFINE t == Tail(s)
<1>1. /\ Head(s) \in S /\ t \in Seq(S) /\ Len(t) = Len(s) - 1
      /\ \A i \in 1 .. Len(t) : t[i] = s[i + 1]
  BY HeadTailProperties
<1>2. Len(s) \in Nat \ {0} /\ Len(t) \in Nat
  BY <1>1, EmptySeq, LenProperties
<1>3. Head(s) = s[1]
  OBVIOUS
<1> HIDE DEF t
<1>4. ToSet(t) = {t[i] : i \in 1 .. Len(t)} /\ ToSet(s) = {s[i] : i \in 1 .. Len(s)}
  BY <1>1, ToSetFact
<1>5. \A i \in 1 .. Len(t) : i + 1 \in 1 .. Len(s) /\ i + 1 # 1 /\ t[i] = s[i + 1]
  BY <1>1, <1>2
<1>6. Head(s) \in ToSet(s)
  BY <1>2, <1>3, <1>4
<1>7. ToSet(t) \subseteq ToSet(s)
  BY <1>4, <1>5
<1>8. ASSUME Once(s) PROVE Once(t) /\ Head(s) \notin ToSet(t)
  <2>1. ASSUME NEW i \in 1 .. Len(t), NEW j \in 1 .. Len(t), t[i] = t[j] PROVE i = j
    <3>1. i + 1 = j + 1
      BY <2>1, <1>5, <1>8 DEF Once
    <3> QED BY <3>1
  <2>2. ASSUME NEW i \in 1 .. Len(t) PROVE t[i] # s[1]
    <3>1. 1 \in 1 .. Len(s)
      BY <1>2
    <3> QED BY <3>1, <1>5, <1>8 DEF Once
  <2> QED BY <2>1, <2>2, <1>3, <1>4 DEF Once
<1> QED BY <1>1, <1>6, <1>7, <1>8 DEF t

-----------------------------------------------------------------------------
(* The inductive invariant.                                                *)

\* The list holds the interfaces that were kept, none of them twice, and those
\* still to come are not touched.
ListInv ==
  /\ ListExact
  /\ Once(ports)
  /\ \A p \in Interfaces : p >= nextIf => opened[p] = "not yet"

\* What select promised holds of every port still to visit, but for the one
\* whose visit has started over.
PromiseInv ==
  pc = "visit" =>
    /\ Once(todo)
    /\ result = "ready" /\ todo # <<>> =>
         \A p \in ToSet(todo) \cap ready :
           queue[p] # <<>> \/ (p = Head(todo) /\ again)

\* Nothing is in a buffer before the thread starts, and nothing ever in that of
\* a socket which is not bound.
BufferInv ==
  /\ ForeignNeverLeft
  /\ pc = "init" => \A p \in Interfaces : buffer[p] = "wiped"
  /\ \A p \in Interfaces : opened[p] = "noBind" => buffer[p] = "wiped"

Inv == TypeOK /\ ListInv /\ PromiseInv /\ BufferInv

\* Before the first interface is tried all lists are empty.
LEMMA InitInv == Init => Inv
<1> SUFFICES ASSUME Init PROVE Inv
  OBVIOUS
<1>1. Interfaces \subseteq Int /\ N + 1 \in Nat /\ 1 \in 1 .. N + 1
  BY SizeAssumption DEF Interfaces
<1>2. Len(<<>>) = 0 /\ <<>> \in Seq(Interfaces) /\ <<>> \in Seq(Items)
  OBVIOUS
<1>3. ToSet(<<>>) = {} /\ Cardinality({}) = 0
  <2>1. ToSet(<<>>) = {<<>>[i] : i \in 1 .. Len(<<>>)}
    BY <1>2, ToSetFact
  <2> QED BY <2>1, <1>2, FS_EmptySet
<1>4. TypeOK
  <2>1. /\ queue \in [Interfaces -> Seq(Items)]
        /\ \A p \in Interfaces : Len(queue[p]) <= MaxQueue
    <3>1. queue = [p \in Interfaces |-> <<>>]
      BY DEF Init
    <3> QED BY <3>1, <1>2, SizeAssumption
  <2>2. /\ opened \in [Interfaces -> Outcomes \cup {"not yet"}]
        /\ buffer \in [Interfaces -> {"wiped", "lldp", "other", "sizeless"}]
    BY DEF Init
  <2>3. nextIf \in 1 .. N + 1 /\ ports \in Seq(Interfaces) /\ todo \in Seq(Interfaces)
    BY <1>1, <1>2 DEF Init
  <2>4. /\ pc = "init" /\ clock \in BOOLEAN /\ tickDue \in BOOLEAN /\ again \in BOOLEAN
        /\ result = "timeout" /\ ready = {}
    BY DEF Init
  <2>5. pc \in {"init", "loop", "select", "visit", "exited"} /\ ready \subseteq Interfaces
    BY <2>4
  <2>6. result \in {"ready", "timeout", "interrupted"}
    BY <2>4
  <2> QED BY <2>1, <2>2, <2>3, <2>4, <2>5, <2>6, Zenon DEF TypeOK
<1>5. ListInv
  <2>1. ports = <<>> /\ \A p \in Interfaces : opened[p] = "not yet"
    BY DEF Init
  <2>2. ListExact
    BY <2>1, <1>2, <1>3 DEF ListExact
  <2>3. Once(ports)
    <3>1. Len(ports) = 0
      BY <2>1, <1>2
    <3>2. 1 .. Len(ports) = {}
      BY <3>1
    <3> QED BY <3>2, Zenon DEF Once
  <2> QED BY <2>1, <2>2, <2>3 DEF ListInv
<1>6. PromiseInv /\ BufferInv
  BY DEF Init, PromiseInv, BufferInv, ForeignNeverLeft
<1> QED BY <1>4, <1>5, <1>6 DEF Inv

-----------------------------------------------------------------------------
(* One step at a time.                                                     *)

\* A step that opens no interface and puts no port on the list keeps ListInv.
LEMMA ListKept ==
  ASSUME ListInv, UNCHANGED <<ports, opened, nextIf>>
  PROVE  ListInv'
BY DEF ListInv, ListExact, Once

\* An interface is tried.
LEMMA InitInterfaceStep ==
  ASSUME Inv, InitInterface
  PROVE  Inv'
<1> USE DEF Inv
<1>1. /\ nextIf \in Interfaces /\ nextIf + 1 \in 1 .. N + 1 /\ Interfaces \subseteq Int
      /\ nextIf \in Int /\ nextIf' = nextIf + 1
  <2>1. nextIf <= N /\ nextIf' = nextIf + 1 /\ nextIf \in 1 .. N + 1
    BY DEF InitInterface, TypeOK
  <2> QED BY <2>1, SizeAssumption DEF Interfaces
<1>2. PICK o \in Outcomes : /\ opened' = [opened EXCEPT ![nextIf] = o]
                            /\ ports' = ListAfter(nextIf, o)
  BY DEF InitInterface
<1>3. o # "not yet"
  BY OutcomeAssumption DEF AllOutcomes
<1>4. opened[nextIf] = "not yet" /\ opened \in [Interfaces -> Outcomes \cup {"not yet"}]
  <2>1. nextIf >= nextIf
    BY <1>1
  <2> QED BY <2>1, <1>1 DEF ListInv, TypeOK
<1>5. /\ opened' \in [Interfaces -> Outcomes \cup {"not yet"}]
      /\ opened'[nextIf] = o /\ \A p \in Interfaces \ {nextIf} : opened'[p] = opened[p]
  BY <1>1, <1>2, <1>4
<1>6. ports \in Seq(Interfaces) /\ nextIf \notin ToSet(ports)
  BY <1>4 DEF ListInv, ListExact, TypeOK
<1>7. /\ ports' \in Seq(Interfaces) /\ Once(ports')
      /\ IF o \in {"skipped", "noMtu"} THEN ports' = ports
         ELSE /\ ToSet(ports') = ToSet(ports) \cup {nextIf}
              /\ Len(ports') = Len(ports) + 1
  <2>1. Once(ports)
    BY DEF ListInv
  <2>2. CASE o \in {"skipped", "noMtu"}
    BY <2>1, <2>2, <1>2, <1>6, Zenon DEF ListAfter
  <2>3. CASE o \notin {"skipped", "noMtu"}
    <3>1. ports' = <<nextIf>> \o ports
      BY <2>3, <1>2, Zenon DEF ListAfter
    <3>2. /\ <<nextIf>> \o ports \in Seq(Interfaces)
          /\ Len(<<nextIf>> \o ports) = Len(ports) + 1
          /\ ToSet(<<nextIf>> \o ports) = ToSet(ports) \cup {nextIf}
          /\ Once(<<nextIf>> \o ports)
      BY <2>1, <1>1, <1>6, FrontFact
    <3> QED BY <3>1, <3>2, <2>3, Zenon
  <2> QED BY <2>2, <2>3
<1>8. TypeOK'
  <2>1. UNCHANGED <<pc, queue, buffer, clock, tickDue, result, ready, todo, again>>
    BY DEF InitInterface, threadVars
  <2>2. nextIf' \in 1 .. N + 1 /\ ports' \in Seq(Interfaces)
    BY <1>1, <1>7
  <2>3. /\ pc' \in {"init", "loop", "select", "visit", "exited"}
        /\ queue' \in [Interfaces -> Seq(Items)]
        /\ \A p \in Interfaces : Len(queue'[p]) <= MaxQueue
    BY <2>1 DEF TypeOK
  <2>4. /\ buffer' \in [Interfaces -> {"wiped", "lldp", "other", "sizeless"}]
        /\ clock' \in BOOLEAN /\ tickDue' \in BOOLEAN /\ again' \in BOOLEAN
        /\ result' \in {"ready", "timeout", "interrupted"}
        /\ ready' \subseteq Interfaces /\ todo' \in Seq(Interfaces)
    BY <2>1 DEF TypeOK
  <2> QED BY <2>2, <2>3, <2>4, <1>5, Zenon DEF TypeOK
<1>9. ListExact'
  <2>1. ToSet(ports') = {p \in Interfaces : opened'[p] \notin {"not yet", "skipped", "noMtu"}}
    BY <1>1, <1>3, <1>4, <1>5, <1>7 DEF ListInv, ListExact
  <2>2. IsFiniteSet(ToSet(ports))
    <3>1. IsFiniteSet(Interfaces)
      BY FS_Interval, SizeAssumption DEF Interfaces
    <3> QED BY <3>1, <1>6, ToSetFact, FS_Subset
  <2>3. Len(ports') = Cardinality(ToSet(ports'))
    <3>1. Cardinality(ToSet(ports) \cup {nextIf}) = Cardinality(ToSet(ports)) + 1
      BY <2>2, <1>6, FS_AddElement
    <3>2. Len(ports) = Cardinality(ToSet(ports))
      BY DEF ListInv, ListExact
    <3> QED BY <3>1, <3>2, <1>7
  <2> QED BY <2>1, <2>3 DEF ListExact
<1>10. ListInv'
  <2>1. ASSUME NEW p \in Interfaces, p >= nextIf + 1 PROVE opened'[p] = "not yet"
    <3>1. p >= nextIf /\ p # nextIf
      BY <1>1, <2>1
    <3> QED BY <3>1, <1>5 DEF ListInv
  <2> QED BY <2>1, <1>1, <1>7, <1>9 DEF ListInv, Once
<1>11. PromiseInv' /\ BufferInv'
  BY DEF InitInterface, threadVars, PromiseInv, BufferInv, ForeignNeverLeft
<1> QED BY <1>8, <1>10, <1>11

\* The steps between two visits: the thread starts, calls select, ends a pass.
LEMMA BetweenStep ==
  ASSUME Inv, EnterLoop \/ CallSelect \/ EndPass
  PROVE  Inv'
<1> USE DEF Inv
<1>1. TypeOK'
  BY DEF EnterLoop, CallSelect, EndPass, TypeOK, threadVars
<1>2. ListInv'
  BY ListKept DEF EnterLoop, CallSelect, EndPass, threadVars
<1>3. PromiseInv'
  BY DEF EnterLoop, CallSelect, EndPass, PromiseInv
<1>4. BufferInv'
  BY DEF EnterLoop, CallSelect, EndPass, threadVars, BufferInv, ForeignNeverLeft
<1> QED BY <1>1, <1>2, <1>3, <1>4

\* select returns: whatever it promises is true at that moment.
LEMMA SelectStep ==
  ASSUME Inv, SelectReturns
  PROVE  Inv'
<1> USE DEF Inv
<1>1. ToSet(ports) \subseteq Interfaces
  BY ToSetFact DEF TypeOK
<1>2. TypeOK'
  BY <1>1 DEF SelectReturns, TypeOK, Readable
<1>3. ListInv'
  BY ListKept DEF SelectReturns
<1>4. PromiseInv'
  BY DEF SelectReturns, PromiseInv, ListInv, Once, Readable
<1>5. BufferInv'
  BY DEF SelectReturns, BufferInv, ForeignNeverLeft
<1> QED BY <1>2, <1>3, <1>4, <1>5

\* The end of a visit leaves a buffer as it was, wiped, or the program stopped.
LEMMA FinishFact ==
  ASSUME TypeOK, NEW p \in Interfaces, NEW b \in {"wiped", "lldp", "other", "sizeless"},
         NEW read \in BOOLEAN, FinishVisit(p, b, read)
  PROVE  \/ /\ pc' = pc /\ todo' = Tail(todo) /\ again' = FALSE
            /\ buffer' \in [Interfaces -> {"wiped", "lldp", "other", "sizeless"}]
            /\ buffer'[p] \in {b, "wiped"}
            /\ \A q \in Interfaces \ {p} : buffer'[q] = buffer[q]
         \/ pc' = "exited" /\ b = "sizeless" /\ UNCHANGED <<buffer, todo, again>>
BY DEF FinishVisit, AfterRun, Crashes, Rest, TypeOK

\* The visits left after one is over keep what select promised them.
LEMMA NextPromise ==
  ASSUME TypeOK, PromiseInv, pc = "visit", todo # <<>>, todo' = Tail(todo),
         UNCHANGED <<result, ready>>,
         \A q \in Interfaces \ {Head(todo)} : queue'[q] = queue[q]
  PROVE  PromiseInv'
<1>1. /\ Once(Tail(todo)) /\ Head(todo) \notin ToSet(Tail(todo))
      /\ ToSet(Tail(todo)) \subseteq ToSet(todo)
      /\ ToSet(todo) \subseteq Interfaces
  BY TailFact, ToSetFact DEF TypeOK, PromiseInv
<1> QED BY <1>1 DEF PromiseInv

\* A port that is not read.
LEMMA VisitStep ==
  ASSUME Inv, Visit
  PROVE  Inv'
<1> USE DEF Inv
<1> DEFINE p == Head(todo)
<1>1. /\ pc = "visit" /\ todo # <<>> /\ ~Reads(p) /\ FinishVisit(p, buffer[p], FALSE)
      /\ UNCHANGED <<nextIf, opened, ports, queue, clock, tickDue, result, ready>>
  BY DEF Visit
<1>2. p \in Interfaces /\ Tail(todo) \in Seq(Interfaces)
  BY <1>1, TailFact DEF TypeOK
<1>3. buffer[p] \in {"wiped", "lldp", "other", "sizeless"} /\ buffer[p] # "other"
  BY <1>1, <1>2 DEF TypeOK, BufferInv, ForeignNeverLeft
<1> HIDE DEF p
<1>4. \/ /\ pc' = pc /\ todo' = Tail(todo) /\ again' = FALSE
         /\ buffer' \in [Interfaces -> {"wiped", "lldp", "other", "sizeless"}]
         /\ buffer'[p] \in {buffer[p], "wiped"}
         /\ \A q \in Interfaces \ {p} : buffer'[q] = buffer[q]
      \/ pc' = "exited" /\ buffer[p] = "sizeless" /\ UNCHANGED <<buffer, todo, again>>
  BY <1>1, <1>2, <1>3, FinishFact
<1>5. TypeOK'
  BY <1>1, <1>2, <1>4 DEF TypeOK
<1>6. ListInv'
  BY <1>1, ListKept
<1>7. PromiseInv'
  BY <1>1, <1>4, NextPromise DEF PromiseInv
<1>8. \A q \in Interfaces : buffer[q] # "other"
  BY <1>1, <1>3 DEF BufferInv, ForeignNeverLeft, p
<1>9. BufferInv'
  BY <1>1, <1>2, <1>3, <1>4, <1>8 DEF BufferInv, ForeignNeverLeft
<1> QED BY <1>5, <1>6, <1>7, <1>9

\* What a read leaves in the buffer of a port before any run, and what follows.
LEMMA ReadFact ==
  ASSUME Inv, ReadPort
  PROVE  LET p == Head(todo) IN
         /\ pc = "visit" /\ todo # <<>> /\ Reads(p) /\ p \in Interfaces
         /\ queue' = [queue EXCEPT ![p] = Tail(@)] /\ queue[p] # <<>>
         /\ UNCHANGED <<nextIf, opened, ports, clock, tickDue, result, ready>>
         /\ \/ /\ opened[p] = "noBind" /\ pc' = "exited"
               /\ UNCHANGED <<buffer, todo, again>>
            \/ /\ opened[p] # "noBind" /\ pc' = pc
               /\ \E b \in {"wiped", "other"} : buffer' = [buffer EXCEPT ![p] = b]
               /\ todo' = todo /\ again' = TRUE
            \/ /\ opened[p] # "noBind" /\ pc' = pc
               /\ todo' = Tail(todo) /\ again' = FALSE
               /\ buffer' \in [Interfaces -> {"wiped", "lldp", "other", "sizeless"}]
               /\ buffer'[p] # "other"
               /\ \A q \in Interfaces \ {p} : buffer'[q] = buffer[q]
            \/ /\ opened[p] # "noBind" /\ pc' = "exited"
               /\ buffer[p] # "other"
               /\ UNCHANGED <<buffer, todo, again>>
<1> USE DEF Inv
<1> DEFINE p    == Head(todo)
           item == Head(queue[p])
           b    == IF item # "error" THEN item
                   ELSE IF buffer[p] = "lldp" THEN "sizeless" ELSE buffer[p]
<1>1. /\ pc = "visit" /\ todo # <<>> /\ Reads(p) /\ queue[p] # <<>>
      /\ queue' = [queue EXCEPT ![p] = Tail(@)]
      /\ UNCHANGED <<nextIf, opened, ports, clock, tickDue, result, ready>>
  BY DEF ReadPort
<1>2. p \in Interfaces
  BY <1>1, TailFact DEF TypeOK
<1>3. item \in Items /\ buffer[p] \in {"wiped", "lldp", "other", "sizeless"}
  BY <1>1, <1>2, TailFact DEF TypeOK
<1>4. \/ opened[p] = "noBind" /\ pc' = "exited" /\ UNCHANGED <<buffer, todo, again>>
      \/ /\ opened[p] # "noBind" /\ b \in {"wiped", "other"}
         /\ buffer' = [buffer EXCEPT ![p] = b]
         /\ todo' = AfterOther(todo) /\ again' = TRUE /\ UNCHANGED pc
      \/ opened[p] # "noBind" /\ b = "sizeless" /\ FinishVisit(p, b, TRUE)
      \/ /\ opened[p] # "noBind" /\ b = "lldp"
         /\ \E b1 \in AfterRun(b) : FinishVisit(p, b1, TRUE)
  BY DEF ReadPort
<1>5. b = "sizeless" => buffer[p] # "other"
  BY <1>3 DEF Items
<1> HIDE DEF p, item, b
<1>6. CASE opened[p] # "noBind" /\ b = "sizeless" /\ FinishVisit(p, b, TRUE)
  <2>1. \/ /\ pc' = pc /\ todo' = Tail(todo) /\ again' = FALSE
           /\ buffer' \in [Interfaces -> {"wiped", "lldp", "other", "sizeless"}]
           /\ buffer'[p] \in {b, "wiped"}
           /\ \A q \in Interfaces \ {p} : buffer'[q] = buffer[q]
        \/ pc' = "exited" /\ b = "sizeless" /\ UNCHANGED <<buffer, todo, again>>
    BY <1>2, <1>6, FinishFact
  <2> QED BY <2>1, <1>1, <1>2, <1>5, <1>6 DEF p
<1>7. CASE /\ opened[p] # "noBind" /\ b = "lldp"
           /\ \E b1 \in AfterRun(b) : FinishVisit(p, b1, TRUE)
  <2>1. PICK b1 \in {"lldp", "wiped"} : FinishVisit(p, b1, TRUE)
    BY <1>7 DEF AfterRun
  <2>2. \/ /\ pc' = pc /\ todo' = Tail(todo) /\ again' = FALSE
           /\ buffer' \in [Interfaces -> {"wiped", "lldp", "other", "sizeless"}]
           /\ buffer'[p] \in {b1, "wiped"}
           /\ \A q \in Interfaces \ {p} : buffer'[q] = buffer[q]
        \/ pc' = "exited" /\ b1 = "sizeless" /\ UNCHANGED <<buffer, todo, again>>
    BY <1>2, <2>1, FinishFact
  <2> QED BY <2>2, <1>1, <1>2, <1>7 DEF p
<1> QED BY <1>1, <1>2, <1>4, <1>6, <1>7 DEF AfterOther, p

\* A port that is read.
LEMMA ReadStep ==
  ASSUME Inv, ReadPort
  PROVE  Inv'
<1> USE DEF Inv
<1> DEFINE p == Head(todo)
<1>1. /\ pc = "visit" /\ todo # <<>> /\ Reads(p) /\ p \in Interfaces
      /\ queue' = [queue EXCEPT ![p] = Tail(@)] /\ queue[p] # <<>>
      /\ UNCHANGED <<nextIf, opened, ports, clock, tickDue, result, ready>>
  BY ReadFact
<1>2. \/ opened[p] = "noBind" /\ pc' = "exited" /\ UNCHANGED <<buffer, todo, again>>
      \/ /\ opened[p] # "noBind" /\ pc' = pc
         /\ \E b \in {"wiped", "other"} : buffer' = [buffer EXCEPT ![p] = b]
         /\ todo' = todo /\ again' = TRUE
      \/ /\ opened[p] # "noBind" /\ pc' = pc
         /\ todo' = Tail(todo) /\ again' = FALSE
         /\ buffer' \in [Interfaces -> {"wiped", "lldp", "other", "sizeless"}]
         /\ buffer'[p] # "other"
         /\ \A q \in Interfaces \ {p} : buffer'[q] = buffer[q]
      \/ /\ opened[p] # "noBind" /\ pc' = "exited" /\ buffer[p] # "other"
         /\ UNCHANGED <<buffer, todo, again>>
  BY ReadFact
<1>3. Tail(todo) \in Seq(Interfaces)
  BY <1>1, TailFact DEF TypeOK
<1>4. /\ queue \in [Interfaces -> Seq(Items)] /\ queue' \in [Interfaces -> Seq(Items)]
      /\ \A q \in Interfaces : Len(queue'[q]) <= MaxQueue
      /\ \A q \in Interfaces \ {p} : queue'[q] = queue[q]
  <2>1. queue \in [Interfaces -> Seq(Items)] /\ Len(queue[p]) <= MaxQueue
    BY <1>1 DEF TypeOK
  <2>2. /\ Tail(queue[p]) \in Seq(Items) /\ Len(Tail(queue[p])) = Len(queue[p]) - 1
        /\ Len(queue[p]) \in Nat
    BY <1>1, <2>1, HeadTailProperties, LenProperties
  <2>3. Len(Tail(queue[p])) <= MaxQueue
    BY <2>1, <2>2, SizeAssumption
  <2> HIDE DEF p
  <2> QED BY <1>1, <2>1, <2>2, <2>3 DEF TypeOK
<1> HIDE DEF p
<1>5. TypeOK'
  BY <1>1, <1>2, <1>3, <1>4 DEF TypeOK
<1>6. ListInv'
  BY <1>1, ListKept
<1>7. PromiseInv'
  <2>1. CASE todo' = Tail(todo) /\ pc' = pc
    BY <2>1, <1>1, <1>4, NextPromise DEF p
  <2>2. CASE todo' = todo /\ again' = TRUE /\ pc' = pc
    <3>1. ToSet(todo) \subseteq Interfaces
      BY ToSetFact DEF TypeOK
    <3> QED BY <2>2, <3>1, <1>1, <1>4 DEF PromiseInv, p
  <2>3. CASE pc' = "exited"
    BY <2>3 DEF PromiseInv
  <2> QED BY <2>1, <2>2, <2>3, <1>2
<1>8. \A q \in Interfaces \ {p} : buffer[q] # "other"
  BY <1>1 DEF BufferInv, ForeignNeverLeft, p
<1>9. BufferInv'
  <2>2. buffer \in [Interfaces -> {"wiped", "lldp", "other", "sizeless"}]
    BY DEF TypeOK
  <2>3. CASE pc' = "exited" /\ UNCHANGED <<buffer, todo, again>>
    BY <2>3, <1>1, <1>2, <1>8 DEF BufferInv, ForeignNeverLeft
  <2>4. CASE /\ opened[p] # "noBind" /\ pc' = pc
             /\ \E b \in {"wiped", "other"} : buffer' = [buffer EXCEPT ![p] = b]
             /\ todo' = todo /\ again' = TRUE
    <3>1. \A q \in Interfaces \ {p} : buffer'[q] = buffer[q]
      BY <2>2, <2>4
    <3> QED BY <2>4, <3>1, <1>1, <1>8 DEF BufferInv, ForeignNeverLeft, Reads, p
  <2>5. CASE /\ opened[p] # "noBind" /\ pc' = pc
             /\ buffer'[p] # "other"
             /\ \A q \in Interfaces \ {p} : buffer'[q] = buffer[q]
    BY <2>5, <1>1, <1>8 DEF BufferInv, ForeignNeverLeft
  <2> QED BY <2>3, <2>4, <2>5, <1>2
<1> QED BY <1>5, <1>6, <1>7, <1>9

\* What the world adds to a queue never empties it nor exceeds its limit.
LEMMA WorldStep ==
  ASSUME Inv, NEW p \in Interfaces, Arrive(p) \/ GoDown(p)
  PROVE  Inv'
<1> USE DEF Inv
<1>1. /\ queue \in [Interfaces -> Seq(Items)] /\ queue[p] \in Seq(Items)
      /\ Len(queue[p]) <= MaxQueue /\ Len(queue[p]) \in Nat
      /\ MaxQueue \in Nat
  BY LenProperties, SizeAssumption DEF TypeOK
<1>2. PICK q \in Seq(Items) : /\ queue' = [queue EXCEPT ![p] = q]
                              /\ Len(q) <= MaxQueue
                              /\ queue[p] # <<>> => q # <<>>
  <2>1. CASE Arrive(p)
    <3>1. PICK f \in {"lldp", "other"} : queue' = [queue EXCEPT ![p] = Queued(queue[p], f)]
      BY <2>1 DEF Arrive
    <3>2. f \in Items
      BY DEF Items
    <3>3. /\ Append(queue[p], f) \in Seq(Items) /\ Append(queue[p], f) # <<>>
          /\ Len(Append(queue[p], f)) = Len(queue[p]) + 1
      BY <3>2, <1>1, AppendProperties
    <3>4. /\ Queued(queue[p], f) \in Seq(Items) /\ Len(Queued(queue[p], f)) <= MaxQueue
          /\ queue[p] # <<>> => Queued(queue[p], f) # <<>>
      BY <3>3, <1>1 DEF Queued
    <3> QED BY <3>1, <3>4
  <2>2. CASE GoDown(p)
    <3>1. queue' = [queue EXCEPT ![p] = <<"error">> \o queue[p]] /\ Len(queue[p]) < MaxQueue
      BY <2>2 DEF GoDown
    <3>2. "error" \in Items
      BY DEF Items
    <3>3. /\ <<"error">> \o queue[p] \in Seq(Items)
          /\ Len(<<"error">> \o queue[p]) = Len(queue[p]) + 1
      BY <3>2, <1>1, FrontFact
    <3>4. <<"error">> \o queue[p] # <<>>
      BY <3>3, <1>1, EmptySeq
    <3>5. Len(<<"error">> \o queue[p]) <= MaxQueue
      BY <3>1, <3>3, <1>1
    <3> QED BY <3>1, <3>3, <3>4, <3>5
  <2> QED BY <2>1, <2>2
<1>3. UNCHANGED <<pc, nextIf, opened, ports, buffer, clock, threadVars>>
  BY DEF Arrive, GoDown
<1>4. TypeOK'
  BY <1>1, <1>2, <1>3 DEF TypeOK, threadVars
<1>5. ListInv'
  BY <1>3, ListKept
<1>6. PromiseInv'
  <2>1. ToSet(todo) \subseteq Interfaces
    BY ToSetFact DEF TypeOK
  <2>2. \A r \in Interfaces : queue[r] # <<>> => queue'[r] # <<>>
    BY <1>1, <1>2
  <2> QED BY <2>1, <2>2, <1>3 DEF PromiseInv, threadVars
<1>7. BufferInv'
  BY <1>3 DEF BufferInv, ForeignNeverLeft, Reads, threadVars
<1> QED BY <1>4, <1>5, <1>6, <1>7

\* A second passes.
LEMMA SecondStep ==
  ASSUME Inv, Second \/ UNCHANGED vars
  PROVE  Inv'
<1> USE DEF Inv
<1>1. /\ UNCHANGED <<pc, nextIf, opened, ports, queue, buffer, threadVars>>
      /\ clock' \in BOOLEAN
  BY DEF Second, vars, TypeOK
<1>2. TypeOK'
  BY <1>1 DEF TypeOK, threadVars
<1>3. ListInv'
  BY <1>1, ListKept
<1>4. PromiseInv' /\ BufferInv'
  BY <1>1 DEF PromiseInv, BufferInv, ForeignNeverLeft, Reads, threadVars
<1> QED BY <1>2, <1>3, <1>4

-----------------------------------------------------------------------------
\* The inductive invariant holds for any interfaces, whatever becomes of their
\* sockets, and for any traffic.
THEOREM Invariance == Spec => []Inv
<1>1. ASSUME Inv, [Next]_vars PROVE Inv'
  <2>1. CASE InitInterface
    BY <1>1, <2>1, InitInterfaceStep
  <2>2. CASE EnterLoop \/ CallSelect \/ EndPass
    BY <1>1, <2>2, BetweenStep
  <2>3. CASE SelectReturns
    BY <1>1, <2>3, SelectStep
  <2>4. CASE Visit
    BY <1>1, <2>4, VisitStep
  <2>5. CASE ReadPort
    BY <1>1, <2>5, ReadStep
  <2>6. ASSUME NEW p \in Interfaces, Arrive(p) \/ GoDown(p) PROVE Inv'
    BY <1>1, <2>6, WorldStep
  <2>7. CASE Second \/ UNCHANGED vars
    BY <1>1, <2>7, SecondStep
  <2> QED BY <1>1, <2>1, <2>2, <2>3, <2>4, <2>5, <2>6, <2>7 DEF Next, Thread
<1> QED BY <1>1, InitInv, PTL DEF Spec

\* Every variable keeps its type; no queue exceeds its limit.
THEOREM TypeCorrect == Spec => []TypeOK
<1>1. Inv => TypeOK
  BY DEF Inv
<1> QED BY <1>1, Invariance, PTL

\* The list of ports holds the interfaces that were kept, each once, whichever
\* of them fail (initialize_lldp).
THEOREM ListIsExact == Spec => []ListExact
<1>1. Inv => ListExact
  BY DEF Inv, ListInv
<1> QED BY <1>1, Invariance, PTL

\* A read of the thread blocks only when the frame select announced has already
\* been taken and was none of LLDP (thread_rx_sm).
THEOREM BlocksOnlyAgain == Spec => []HeldOnlyAgain
<1>1. ASSUME Inv, Held PROVE again
  <2>1. pc = "visit" /\ todo # <<>> /\ Reads(Head(todo)) /\ queue[Head(todo)] = <<>>
    BY <1>1 DEF Held
  <2>2. Head(todo) \in ToSet(todo)
    BY <1>1, <2>1, TailFact DEF Inv, TypeOK
  <2> QED BY <1>1, <2>1, <2>2 DEF Inv, PromiseInv, Reads
<1>2. Inv => HeldOnlyAgain
  BY <1>1 DEF HeldOnlyAgain
<1> QED BY <1>2, Invariance, PTL

\* No frame of another protocol is in a buffer when a state machine runs on it
\* (thread_rx_sm, the continue that rx_do_rx_frame depends on).
THEOREM ForeignKeptOut == Spec => []ForeignNeverLeft
<1>1. Inv => ForeignNeverLeft
  BY DEF Inv, BufferInv
<1> QED BY <1>1, Invariance, PTL

=============================================================================

------------------------------ MODULE RxThread ------------------------------
(***************************************************************************)
(* How the list of ports comes about (initialize_lldp, lldp_init_socket)   *)
(* and the loop that serves it (thread_rx_sm): select with its timeout,    *)
(* the read of every port that is ready, the wall clock.                   *)
(*                                                                         *)
(* What a run of the receive state machine does is left to LldpRx; here it *)
(* matters that a port is run, when, and what it leaves in the buffer.     *)
(***************************************************************************)
EXTENDS Naturals, SequencesExt

CONSTANTS
  N,         \* number of network interfaces
  Outcomes,  \* what lldp_init_socket may make of an interface
  MaxQueue   \* frames a socket holds for its reader

\* "skipped": filtered out by name; "noMtu": the only failure that is reported;
\* "noSocket" and "noBind": failures returned as XENOSOCK, which is 0.
AllOutcomes == {"ok", "skipped", "noMtu", "noSocket", "noBind"}

ASSUME SizeAssumption    == N \in Nat /\ MaxQueue \in Nat \ {0}
ASSUME OutcomeAssumption == Outcomes \subseteq AllOutcomes

Interfaces == 1 .. N

\* What recvfrom gives: an LLDP frame, a frame of another protocol (the socket
\* takes all of them), or an error (the interface went down).
Items == {"lldp", "other", "error"}

VARIABLES
  pc,       \* where the thread is
  nextIf,   \* if_index of initialize_lldp's loop
  opened,   \* what has become of the interfaces before nextIf
  ports,    \* lldp_ports
  queue,    \* the sockets' receive queues
  buffer,   \* rx.frame: wiped, an LLDP frame, or one whose recvsize is gone
  clock,    \* a second has passed since last_check was read
  tickDue,  \* current_time > last_check
  result,   \* what select returned
  ready,    \* readfds
  todo,     \* the ports of this pass still to visit, the current one first
  again     \* history: the visit to the current port has started over

threadVars == <<tickDue, result, ready, todo, again>>
vars == <<pc, nextIf, opened, ports, queue, buffer, clock, threadVars>>

TypeOK ==
  /\ pc \in {"init", "loop", "select", "visit", "exited"}
  /\ nextIf \in 1 .. N + 1
  /\ opened \in [Interfaces -> Outcomes \cup {"not yet"}]
  /\ ports \in Seq(Interfaces)
  /\ queue \in [Interfaces -> Seq(Items)]
  /\ \A p \in Interfaces : Len(queue[p]) <= MaxQueue
  /\ buffer \in [Interfaces -> {"wiped", "lldp", "other", "sizeless"}]
  /\ clock \in BOOLEAN /\ tickDue \in BOOLEAN /\ again \in BOOLEAN
  /\ result \in {"ready", "timeout", "interrupted"}
  /\ ready \subseteq Interfaces
  /\ todo \in Seq(Interfaces)

Init ==
  /\ pc = "init" /\ nextIf = 1
  /\ opened = [p \in Interfaces |-> "not yet"]
  /\ ports = <<>> /\ todo = <<>>
  /\ queue = [p \in Interfaces |-> <<>>]
  /\ buffer = [p \in Interfaces |-> "wiped"]
  /\ clock = TRUE /\ tickDue = FALSE /\ again = FALSE
  /\ result = "timeout" /\ ready = {}

-----------------------------------------------------------------------------
(* Start: one port per interface.                                          *)

\* Mutant of ListAfter: a port is put on the list before its socket is tried.
ListAfterEarly(p, outcome) == IF outcome = "skipped" THEN ports ELSE <<p>> \o ports

\* The port is put in front when all of its initialization is done, unless
\* lldp_init_socket returned something other than 0.
ListAfter(p, outcome) ==
  IF outcome \in {"skipped", "noMtu"} THEN ports ELSE <<p>> \o ports

InitInterface ==
  /\ pc = "init" /\ nextIf <= N
  /\ \E o \in Outcomes : /\ opened' = [opened EXCEPT ![nextIf] = o]
                         /\ ports' = ListAfter(nextIf, o)
  /\ nextIf' = nextIf + 1
  /\ UNCHANGED <<pc, queue, buffer, clock, threadVars>>

HasSocket(p) == opened[p] \in {"ok", "noBind"}

\* The thread starts. FD_SET of the socket -1 has no defined effect: it hits a
\* bit nobody looks at, or the library stops the program.
EnterLoop ==
  /\ pc = "init" /\ nextIf > N
  /\ \/ pc' = "loop"
     \/ pc' = "exited" /\ \E p \in ToSet(ports) : opened[p] = "noSocket"
  /\ UNCHANGED <<nextIf, opened, ports, queue, buffer, clock, threadVars>>

-----------------------------------------------------------------------------
(* The loop.                                                               *)

\* current_time is read before select is called, last_check after the pass.
CallSelect ==
  /\ pc = "loop"
  /\ pc' = "select"
  /\ tickDue' = clock
  /\ UNCHANGED <<nextIf, opened, ports, queue, buffer, clock, result, ready, todo, again>>

Readable == {p \in ToSet(ports) : HasSocket(p) /\ queue[p] # <<>>}

\* Mutant of Reads: result is not looked at.
ReadsAny(p) == p \in ready

\* The port is read: select succeeded and its socket is in the set.
Reads(p) == result = "ready" /\ p \in ready

\* A signal interrupts select only while nothing is ready; the set is then left
\* as it was, with every socket in it.
SelectReturns ==
  /\ pc = "select"
  /\ pc' = "visit"
  /\ \/ Readable # {} /\ result' = "ready" /\ ready' = Readable
     \/ Readable = {} /\ result' = "timeout" /\ ready' = {}
     \/ Readable = {} /\ result' = "interrupted" /\ ready' = {p \in ToSet(ports) : HasSocket(p)}
  /\ todo' = ports
  /\ again' = FALSE
  /\ UNCHANGED <<nextIf, opened, ports, queue, buffer, clock, tickDue>>

\* Mutant of TickNow: the timeout of select is not looked at.
TickNowClock == tickDue

\* Every port is run when select timed out or the second has changed.
TickNow == result = "timeout" \/ tickDue

\* What a run may leave in the buffer b: it is wiped if the frame was processed.
AfterRun(b) == {b, "wiped"}

\* A run that processes a frame whose size is gone wipes SIZE_MAX bytes.
Crashes(b) == b = "sizeless"

\* Mutant of Rest: the pass is over once a frame has been processed.
RestNone(s, read) == IF read THEN <<>> ELSE Tail(s)

\* The next port; read tells whether the current one was read.
Rest(s, read) == Tail(s)

\* Mutant of AfterOther: a frame that is not LLDP ends the visit.
AfterOtherNext(s) == Tail(s)

\* A frame that is not LLDP: continue, with the same port.
AfterOther(s) == s

\* The last part of a visit: the run by the clock, and on to the next port.
FinishVisit(p, b, read) ==
  \/ /\ \E b1 \in IF TickNow THEN AfterRun(b) ELSE {b} : buffer' = [buffer EXCEPT ![p] = b1]
     /\ todo' = Rest(todo, read) /\ again' = FALSE /\ pc' = pc
  \/ /\ TickNow /\ Crashes(b)
     /\ pc' = "exited"
     /\ UNCHANGED <<buffer, todo, again>>

\* A port that is not read is at most run by the clock.
Visit ==
  /\ pc = "visit" /\ todo # <<>>
  /\ LET p == Head(todo) IN ~Reads(p) /\ FinishVisit(p, buffer[p], FALSE)
  /\ UNCHANGED <<nextIf, opened, ports, queue, clock, tickDue, result, ready>>

\* lldp_read blocks while the queue is empty.
ReadPort ==
  LET p == Head(todo)
      item == Head(queue[p])
      b == IF item # "error" THEN item
           ELSE IF buffer[p] = "lldp" THEN "sizeless" ELSE buffer[p]
  IN
  /\ pc = "visit" /\ todo # <<>>
  /\ Reads(p) /\ queue[p] # <<>>
  /\ queue' = [queue EXCEPT ![p] = Tail(@)]
  /\ \/ \* an unbound socket has no buffer
        /\ opened[p] = "noBind"
        /\ pc' = "exited"
        /\ UNCHANGED <<buffer, todo, again>>
     \/ \* no LLDP frame in the buffer
        /\ opened[p] # "noBind" /\ b \in {"wiped", "other"}
        /\ buffer' = [buffer EXCEPT ![p] = b]
        /\ todo' = AfterOther(todo)
        /\ again' = TRUE
        /\ UNCHANGED pc
     \/ \* an error leaves the frame that waits, and no run follows
        /\ opened[p] # "noBind" /\ b = "sizeless"
        /\ FinishVisit(p, b, TRUE)
     \/ \* an LLDP frame: a run, then perhaps another by the clock
        /\ opened[p] # "noBind" /\ b = "lldp"
        /\ \E b1 \in AfterRun(b) : FinishVisit(p, b1, TRUE)
  /\ UNCHANGED <<nextIf, opened, ports, clock, tickDue, result, ready>>

\* last_check is read again: a second that passed before it goes unnoticed.
EndPass ==
  /\ pc = "visit" /\ todo = <<>>
  /\ pc' = "loop"
  /\ clock' = FALSE
  /\ UNCHANGED <<nextIf, opened, ports, queue, buffer, threadVars>>

Thread ==
  InitInterface \/ EnterLoop \/ CallSelect \/ SelectReturns \/ Visit \/ ReadPort \/ EndPass

-----------------------------------------------------------------------------
(* The world.                                                              *)

Second ==
  /\ ~clock /\ pc # "exited"
  /\ clock' = TRUE
  /\ UNCHANGED <<pc, nextIf, opened, ports, queue, buffer, threadVars>>

\* Mutant of Queued: the queue has no limit.
QueuedAll(q, f) == Append(q, f)

\* A full socket drops what comes.
Queued(q, f) == IF Len(q) < MaxQueue THEN Append(q, f) ELSE q

\* A frame of any protocol reaches the socket of p.
Arrive(p) ==
  /\ pc \notin {"init", "exited"} /\ HasSocket(p)
  /\ \E f \in {"lldp", "other"} : queue' = [queue EXCEPT ![p] = Queued(@, f)]
  /\ UNCHANGED <<pc, nextIf, opened, ports, buffer, clock, threadVars>>

\* The interface goes down: the next read reports it, before any frame.
GoDown(p) ==
  /\ pc \notin {"init", "exited"} /\ opened[p] = "ok"
  /\ "error" \notin ToSet(queue[p]) /\ Len(queue[p]) < MaxQueue
  /\ queue' = [queue EXCEPT ![p] = <<"error">> \o @]
  /\ UNCHANGED <<pc, nextIf, opened, ports, buffer, clock, threadVars>>

Next == Thread \/ Second \/ \E p \in Interfaces : Arrive(p) \/ GoDown(p)

Spec == Init /\ [][Next]_vars /\ WF_vars(Thread)

-----------------------------------------------------------------------------
\* lldp_ports holds every port that was kept, once, and none that was freed:
\* a failure of one interface neither cuts the list nor stays on it.
ListExact ==
  /\ ToSet(ports) = {p \in Interfaces : opened[p] \notin {"not yet", "skipped", "noMtu"}}
  /\ Len(ports) = Cardinality(ToSet(ports))

\* The thread waits in lldp_read for a frame of one port.
Held == pc = "visit" /\ todo # <<>> /\ Reads(Head(todo)) /\ queue[Head(todo)] = <<>>

\* A read blocks only when the frame select promised is already taken and was
\* none of LLDP: select's answer is never used for a read it does not cover,
\* not even when select was interrupted or a frame arrived late.
HeldOnlyAgain == Held => again

\* A frame of another protocol is never in the buffer when the port is run or
\* left: rx_do_rx_frame, which only counts a wrong ethertype, would take its
\* bytes for TLVs if an LLDP frame before it had left rcvFrame set. The continue
\* that holds the thread at the port is what keeps it out.
ForeignNeverLeft ==
  \A p \in Interfaces : buffer[p] = "other" =>
    pc = "visit" /\ todo # <<>> /\ Head(todo) = p /\ Reads(p)

Ended == pc = "exited"

\* A step runs the state machine of port p.
Runs(p) ==
  /\ pc = "visit" /\ todo # <<>> /\ Head(todo) = p /\ todo' # todo
  /\ TickNow \/ (Reads(p) /\ Head(queue[p]) = "lldp")

RunForEver(p) == []<><<Runs(p)>>_vars

\* When LLDP frames keep coming to all sockets and the interfaces stop going
\* down, every port that has a socket is run again and again, whatever else
\* arrives (thread_rx_sm, the inner loop with its continue).
HeardPortsRun ==
  \/ <>Ended
  \/ \E p \in Interfaces : []<>("error" \in ToSet(queue[p]))
  \/ \E p \in Interfaces : <>[](HasSocket(p) /\ "lldp" \notin ToSet(queue[p]))
  \/ \A p \in Interfaces : <>[](p \notin ToSet(ports) \/ ~HasSocket(p)) \/ RunForEver(p)

AllQuiet == \A p \in Interfaces : queue[p] = <<>>

\* When nothing arrives any more and the thread is not waiting in a read, every
\* port of the list is run for ever, those without a socket too.
QuietPortsRun ==
  \/ <>Ended
  \/ []<>(~AllQuiet \/ Held \/ result = "interrupted")
  \/ \A p \in Interfaces : <>[](p \notin ToSet(ports)) \/ RunForEver(p)

\* main.c:188, "Timeout after 1 second if nothing is ready": when nothing is
\* ready any more, the ports are run by the timeout.
TimeoutIfNothingReady ==
  \/ <>Ended
  \/ []<>(~AllQuiet \/ result = "interrupted")
  \/ \A p \in Interfaces : <>[](p \notin ToSet(ports)) \/ RunForEver(p)

=============================================================================

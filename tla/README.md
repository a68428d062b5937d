# A verification project for lldpd

The program in `src/` is a small 802.1AB (LLDP) agent for access points. It
differs from a plain agent in three ways: its frames carry a vendor TLV with the
*role* of the sender (`MASTER` or `SLAVE`), an agent only remembers neighbours of
the other role, and a master gives every new slave an IPv4 address out of one
range, in a frame of its own. This directory holds TLA+ modules that model the
program, TLC configurations that check them on small instances, and proofs,
checked by TLAPS, of the properties that matter most for every instance.

Source lines are quoted as `file:line`; `PROJECT.json` maps every definition that
models code to the lines it stands for.

## 1. The system

Two threads share a NULL-terminated list of ports (`lldp_ports`, one `struct
lldp_port` per interface). There is no lock anywhere in the program.

```
             sockets                                    sockets
                |                                          ^
   select/read  v                                          | lldp_write
  +---------------------------+   config_ip_for_slave +----+--------------------+
  | thread_rx_sm              |---------------------->| tx.frame, tx.sendsize   |
  |  rxStatemachineRun(port)  |                       +----+--------------------+
  |    msap_cache, rx timers  |      portEnabled           ^ tx_do_tx_info_frame
  |    ips, slavemac, slaveip |<---------------------+     |
  |    neighbour file         |                      +-----+-------------------+
  +---------------------------+                      | thread_tx_sm             |
                                                     |  txStatemachineRun(port) |
                                                     |  tx timers; sleep(1)     |
                                                     +--------------------------+
```

| Component (source) | State | Operations | Interacts with | What is hard | What makes it correct |
|---|---|---|---|---|---|
| receive state machine (`rx_sm.c`) | `rx.state`, `rcvFrame`, `rxInfoAge`, `rxChanges`, `rxTTL`, the receive buffer | one run: global transition, the state's handler, `rx_do_update_timers` | called by the rx thread, drives the cache | one transition per run; frames, purges and seconds in any order; one buffer | no aged neighbour revived, no live one deleted, no purge forgotten, a frame taken in the end |
| neighbour cache (`msap.c`) | `msap_cache`, a linked list with timers | `update_msap_cache`, `mibDeleteObjects` | rx state machine, neighbour file | list surgery; entries come, go and return | one entry per MSAP, purge exact |
| address allocation (`rx_sm.c`) | `ips`, `allocated`, `slaveip`, `slavemac`; on a slave br0:1 | grant on the first frame of a slave; alias on a set-ip frame | cache, tx buffer | octet wraps; the frame is sent once | addresses distinct and stable, never the broadcast octet |
| neighbour file (`lldp_neighbor.c`) | a file, a role | rewritten at every cache miss; role set at start | cache of *all* ports | one port triggers, all are written | every neighbour with a wifi module in operation is in it |
| transmit state machine (`tx_sm.c`) | `tx.state`, five timers, `portEnabled` | one run: transition, handler, timers | tx thread; the listeners' timers | timer restart order; start race | frames neither too rare nor too dense, for ever |
| frame building (`tx_sm.c`, `lldp_linux_framer.c`) | `tx.frame`, `tx.sendsize` | build, send, clear | both threads | unsynchronised sharing | a frame is whole, its last TLV last |
| threads (`main.c`) | `readfds`, the wall clock, `todo` of a pass, the sockets' queues | select, read, run; pass, sleep | everything | a blocking read, select's three outcomes, frames of other protocols | no read blocks without cause, no foreign frame is run, no port starved |
| start, shutdown (`main.c`, `lldp_linux_framer.c`) | the port list, sockets | `initialize_lldp`, signal handlers, `cleanupLLDP` | both threads | error returns that read as success | the list is exact: every port kept, once, none that was freed |
| TLV codec (`tlv.c`, `tlv_common.c`, `rxProcessFrame`) | a frame; the parser's offset and findings | create, flatten, parse | rx, tx | lengths, offsets, a role that comes late | the parse of a frame means what its sender put in; it ends; no block is lost but for identifiers that are doubled or missing |
| master and slaves on a link | what is listed, given and in use | send, lose, take, restart | all of the above | timers that count runs, a frame that is sent once | live slaves kept; one address per slave, both sides agree on it |
| discovery, logging, ARP, build files | none the daemon depends on | - | - | - | - |

The hazards this code is exposed to are listed, each at its line and with the
properties that watch it, in `PROJECT.json`. The ones that shaped the models are:
the order of purge and frame, the flag `rxInfoAge` that is lowered by a handler
and raised again by the timers of the same run, the address octet at its limit,
the port's `rxTTL` that outlives the frame it came from, the two writers of
`portEnabled`, the transmit buffer both threads build in, the blocking read at the
end of a `continue`, the address that is sent once, and timers that count runs
instead of seconds.

## 2. Modules

`LldpFrames` holds what the others say of a frame: its kind, sender, time to live,
address and whether a wifi module it names is in operation (`wifi`), and what the
receiver makes of a kind (`HaveDcMsap`, `NewEntry`).

### LldpRx - the receive half (`rx_sm.c`, `msap.c`, `lldp_neighbor.c`, `thread_rx_sm`)

Only the rx thread touches this state, so a call of `rxStatemachineRun` is one
step. `Enter` is what every run does first: `rxGlobalStatemachineRun`'s choice of
the next state (`NextState`) and its effect on the buffer and `rcvFrame`. Then
there is one action per handler:

| Code | TLA+ |
|---|---|
| `rx_do_lldp_initialize` | `Initialize` |
| `rx_do_wait_for_frame` | `WaitForFrame` |
| `rx_do_delete_info`, `rx_do_delete_aged_info` | `DeleteInfo` |
| `rx_do_update_info` | `UpdateInfo` |
| `rx_do_rx_frame` / `rxProcessFrame`: no peer's TLV | `ProcessOther` |
| ... a peer: `update_msap_cache`, the grant, the file | `ProcessPeer` |
| ... another vendor's TLV: the loop that never ends | `ScanForever` |
| `rx_do_update_timers` | `UpdateTimers`, part of every action that returns |

The rx thread starts a run in two ways, and these are the two disjuncts of
`Next`: a frame was just read into the port's buffer (`Receive`; `rcvFrame` is
set, whatever was in the buffer is gone), or a second passed (`Tick`).

`cache[p]` is the list `msap_cache` as a set: nothing in the code depends on the
order of the list. That the list is free of duplicates is a property
(`UniqueMsap`), not a consequence of the representation: entries that differ in
any field can be in the set together. A frame is its kind, sender, time to live,
advertised address and `wifi`; `BadTTL` is a time-to-live TLV of the wrong length.
`file` is the set of neighbours with a line in the neighbour file. As in the code, a
line is written for a wifi module whose mode is not 0 (lldp_neighbor.c:132), so a
neighbour that named none when it was added has no line (`Lines`).
`ips` is the octet the next slave is given; it wraps at `OctetMax`, 255 in the
code. `wrapped` is a history variable: the octet has wrapped once.

`portEnabled` and `adminStatus` are constants of the model: `thread_rx_sm` sets
the first before its loop and nothing clears it, `initialize_lldp` is the only
writer of the second. The guards that read them are kept.

### NeighborTable - what the receive half promises

An abstract table of (neighbour, timer) pairs per port. In a round of a port the
timers age; before that the round may have heard one neighbour - only if nobody
dead is on the table - or struck all dead neighbours at once. Dead neighbours are
struck some time. `LldpRx!neighborTable` is the refinement mapping: the cache
without the flags, the addresses and the machine's state.

### LldpTx - the transmit half (`tx_sm.c`, `thread_tx_sm`)

A step is a call of `txStatemachineRun` on one port (`Quiet` or
`SendInfoFrame`, split by whether the run ends in `TX_INFO_FRAME`), the `sleep(1)`
at the end of a pass (`Sleep`), or the rx thread setting `portEnabled`
(`EnablePort`), which may come before or after the first passes. A pass is the
unit of time: all timers of the code count passes. `heldBy` and `lost` are a
listener at the other end of the link, which counts down the time to live it was
told and may miss up to `MaxLost` frames in a row. `Init` is the state
`initialize_lldp` leaves: every port has sent a first frame, without loss.

### TxBuffer - the transmit buffer

`tx.frame` and `tx.sendsize` of every port of a master, and the two threads that
build frames in them. Every `memcpy` of a header or TLV is a step, so are
the assignment of the size, `lldp_write`, and the `memset` at the end of `txFrame`.
A slot of the buffer stands for one TLV: TLVs torn in the middle are not
told apart, which is enough to say when the last TLV is lost. `BufferSlots` stands for
the `mtu - 2` octets of `tx.frame`. Nothing in the code compares a frame with
them; that the longest frame fits is an assumption here too.

### RxThread - the read loop and the port list

`initialize_lldp` tries one interface a step (`InitInterface`); `Outcomes` are the
ways `lldp_init_socket` ends, most of whose errors read as success. Then
`thread_rx_sm`: the clock is read and `select` called (`CallSelect`,
`SelectReturns`: ready, timed out or interrupted), every port is visited (`Visit`,
`ReadPort`), the pass ends and the clock is read again (`EndPass`). A visit leaves
in one of the ways the code has: `continue` with the same port after a frame that
is not LLDP (`AfterOther`), no run after an error, a run after an LLDP frame, and
another by the clock (`TickNow`). What a run does is left to `LldpRx`; here it may
wipe the buffer or not. Undefined behaviour is a choice: `FD_SET` of the socket -1
does nothing or stops the program, and so does a frame whose size is -1. The world
puts frames of any protocol into the sockets' queues and takes interfaces down.

### Lan - a master and its slaves

`Lan` EXTENDS `LldpRx`: the master is that module with one port, and every step of
the composition that runs it is a step of `LldpRx`. A slave is what the link sees
of `LldpTx` and of the set-ip branch of `rxProcessFrame`: it sends a frame one
interval, at most one pass more, after the last (`Sends`, bounded by what `LldpTx`
proves of its timers), and takes the address it is sent. A frame of a slave is
received at once or lost; the frame that gives an address is `inFlight` until it
is taken or lost. Faults - a lost frame, a slave that goes down, a master that
restarts - are counted by `faults`. `Second` is a second of everybody's clock:
it waits for the slaves that are due, for the master's run and for the addresses
on the way. `missed` and `heard` are history: whose last address was lost, and
who has been listed since it came up, without one of its frames read over in the
master's one buffer.

### FrameCodec - from TLVs to an entry and back

The TLVs of every kind of frame with their lengths are data (`Tlvs`). The sender's
side is the loop of `mibConstrInfoLLDPDU` and `config_ip_for_slave` over that list:
`AddTlv` flattens a TLV (`Flattened`, with its 16-bit header), copies it to
`frame_offset` and moves that on; `SendFrame` pads and sends. The receiver's side is
the loop of `rxProcessFrame`, a turn a step, one action per branch, ending in an
entry (`Store`) or in nothing (`Forget`), or in the NULL pointer that a port id
without a chassis id dereferences (`Crash`, rx_sm.c:192). `held` counts the blocks
that are allocated.

`rxProcessFrame` takes any octets, so the senders are of two sorts. Proper ones send
what daemons and sound agents of other vendors do: chassis id, port id and
time to live first, an end TLV last. Odd ones send any sequence of TLVs of the types
`OddTypes`: identifiers missing, doubled or out of order, no end (the parser then
reads the zeros behind the last TLV, an end), and a last TLV that is cut off behind its
header, which takes the offset past `recvsize` and the loop to its break at
rx_sm.c:127. `OnHeader`, `Balanced` and `ParseEnds` are stated for both sorts and say
where they differ. `ParseMatches` is about proper frames and ties the module to the others: what the loop makes of
the TLVs is what `LldpFrames` says of the frame, on which `LldpRx` and `Lan` rest.

### MCLldpRx

The sets of frames for TLC and the symmetry of ports and identifiers.
The other modules are instantiated by their configurations directly.

### LldpRxProofs, LldpTxProofs, RxThreadProofs, LanProofs, LanKeptProofs, TxBufferProofs, FrameWireProofs, FrameCodecProofs

Theorems and proofs; see section 5.

Operators commented as *mutants* stand next to the operator they change the way a
plausible bug would. They are used by no specification; replacing an operator by
its mutant makes the property that is listed with it in `PROJECT.json` fail.

## 3. Runs

All runs use `tlc -config X.cfg M` and finish in seconds to three minutes.

| Run | Instance | Question | Result |
|---|---|---|---|
| `rx_master` | 2 ports, 2 slaves, one with and one without a module in operation, TTL 4, octets 1..4, an agent that leaves and one of another vendor; symmetry | do the cache, the grants, the addresses and the file agree when neighbours come, go, move and return, and may a step revive, delete, re-address or jump illegally? | they agree, and no step does; what connects them in the proofs (`Connected`) holds too; 443 610 states |
| `rx_slave` | 1 port, slave role, TTL 0, 4 and malformed, set-ip frames; fair runs | does the machine implement `NeighborTable`? are silent neighbours forgotten and held-up frames taken? | yes; 4 983 states |
| `tx_timers` | 2 ports, the code's timer values 5, 4, 2, 2, 2 frames lost in a row; fair tx thread | are frames regular, spaced, for ever, enough for the listener, and the only illegal changes the two of the start? | yes; 868 states |
| `tx_buffer` | 2 ports, frames of 9 parts and of 7 padded to 8, a buffer of 9 | is a frame whole when the threads do not meet, whatever happened before? | yes; 61 716 states |
| `rx_thread` | 2 interfaces, every outcome of `lldp_init_socket`, queues of 2, frames of any protocol, errors; fair thread | is the list exact, does a read block without cause, does a foreign frame reach a state machine, which ports are run for ever? | exact; no; no; every one as long as LLDP frames keep coming to all, and on a quiet link; 119 174 states |
| `lan` | 1 master, 2 slaves, interval 5, time to live 20, 2 faults | are live slaves kept, do both sides agree on addresses, are these unique, is a slave that stays up listed for good? | yes, as stated; 595 151 states |
| `frame_codec` | all kinds of frames, texts of 0 and 511, up to 3 wifi modules, both roles; odd frames of up to 4 TLVs of types 0, 1, 2, 6 and 127 | does the parser stay on the headers, find what was sent, end, and what does it leak? | it does; it ends unless it crashes or hangs where stated; it leaks for doubled and missing identifiers only; 417 072 states |
| `rx_hang` | 2 ports, a frame with another vendor's TLV | is a received frame processed? | **no**, the rx thread hangs |
| `rx_overwrite` | 1 port, 2 neighbours | is a received frame processed before the next is read over it? | **no** |
| `rx_bad_ttl` | 1 port, one neighbour with malformed TTLs only | is such a frame discarded, as the comment says it should be? | **no** |
| `rx_starved` | 2 interfaces, fair thread | are the ports run by the timeout when nothing is ready? | **no**, not when a frame that is not LLDP has come |
| `tx_buffer_end` | 1 port | is the end TLV last in every frame? | **no**, not when the threads meet |

### Bounds, and why they are enough

- *Two ports, two neighbours.* The ports interact through `ips` and the file
  only, and every property relates at most two entries; two of each give moves between
  ports, address collisions and a file written by the other port.
- *Times to live of 4.* A visit to a state takes one run, and a neighbour ages
  by one in every run. The longest chain of states between two frames
  (`RX_FRAME`, `UPDATE_INFO`, `RX_WAIT_FOR_FRAME`, `DELETE_INFO`) takes four, so an
  entry may age out in and after each of them, two neighbours together or
  apart, and may still be renewed; with 3 no renewal ever comes in time. Times of
  zero and malformed ones come in `rx_slave`, a time of zero from a stranger, whose
  identifier the code never looks at, in `rx_master`.
- *`OctetMax` 4* in `rx_master`: addresses 1 and 2 are given before the octet wraps with
  the third grant, so two neighbours, on one port or on two, hold addresses while
  `DistinctAddresses` is still to hold; and the slaves that leave and return go on past
  the wrap, where `NeverBroadcast` and the rest hold. After it the code does hand out
  addresses that are in use. `Lan` has 5, three addresses before the wrap; the runs
  about a slave and about one frame need fewer.
- *`N` 2, `MaxQueue` 2.* One port can hold the thread while the other waits; a queue
  of two holds a frame of another protocol before or behind an LLDP frame, and overflows.
- *`MaxFaults` 2* in `Lan`: a lost frame followed by a restart, or two restarts;
  `LiveSlavesKept` is stated for one. Interval 5 and time to live 20 are the code's,
  and just enough: with a time to live of 19 TLC finds a slave struck off.
- *`Frames` is `InfoFrames`* in `Lan`: what the slaves of the link send, and no other.
- *Text lengths 0 and 511* put the sum of the lengths below and above an octet
  and a text at both ends of its nine bits; 3 modules are one more than are kept.
- *Odd frames of up to 4 TLVs* of the types end, chassis id, port id, an unread one
  and the role: two chassis ids and two port ids in any order, or a pair and one that
  is too many beside the role that makes the frame be stored, with an end anywhere,
  or nowhere.
- *`MaxLost` 2.* With the code's values, (2+1) * 6 passes are less than the time
  to live 20, (3+1) * 6 are not: two is what the code's timers tolerate.
- *`silence` is capped* at `MsgTxInterval + 2` by `Longer`, one past the value the
  properties tell apart.
- *`InfoOptions` 4, `WifiOptions` 1, `MinSize` 8, `BufferSlots` 9.* The information frame
  has 9 parts and is sent with 9, the set-ip frame has 7 and is padded to 8, as in the
  code: both sizes occur, and with them the padding and a part that is left behind it.

`CHECK_DEADLOCK FALSE` stands where the system stops: in `rx_master` and `rx_hang`,
where a foreign vendor's TLV stops the rx thread for good; in `rx_thread` and
`rx_starved`, where the program may have crashed; in `frame_codec`, where a
frame is parsed to its end or the parser crashes.

### Fairness, and why the code justifies it

- `LldpRx`: weak fairness of `Serve(p)`, a run of a port that a quiet second would
  change, started by a second or by a frame. `select` has a timeout of a
  second and the thread runs every port when the wall clock has moved on;
  whether the loop does come round is what `RxThread` is about, and
  `HeardPortsRun` and `QuietPortsRun` say when. No frame need ever come.
- `RxThread`: weak fairness of the thread as a whole, which is a loop without
  choices of its own. It is disabled while `lldp_read` blocks. Frames, seconds and
  interfaces that go down are not fair.
- `Lan`: weak fairness of the master's run, of the second, and of every slave's
  frame and address *being sent*, lost or not. That the master gets a quiet second
  is justified by the slaves' intervals of five.
- `FrameCodec`: both loops go on by themselves; weak fairness of `Next`.
- `LldpTx`: weak fairness of a run of every port still to do in the pass, and of
  the sleep. The tx thread waits for nothing but its sleep. `EnablePort` is not
  fair: the results hold however late the rx thread comes.
- `NeighborTable` asks for weak fairness of `Purge`, which follows from the ticks.

## 4. Where code and comments disagree

1. **A foreign vendor's TLV hangs the receive thread** (`rx_hang`, rx_sm.c:226). The
   TLV is skipped with `continue` before the offset is advanced at rx_sm.c:284.
2. **A received frame may be lost** (`rx_overwrite`, main.c:208). `rcvFrame` marks it "so
   the rx state machine can process it"; a port that purges does not, and the next
   read goes to the same buffer.
3. **A malformed time to live is not discarded** (`rx_bad_ttl`, rx_sm.c:161). The
   sender is stored with whatever value the port's `rxTTL` holds: the 0 it starts with, as
   in the run's trace, or the last well-formed one that came, whoever sent it.
4. **A foreign frame stops the timeouts** (`rx_starved`, main.c:213). The sockets take
   every protocol. After a frame that is not LLDP, `continue` reads the same port
   again without another `select`; the read blocks, and no other port is read or
   aged until that port hears a frame, although main.c:188 promises a timeout.
5. **The end TLV is not always last** (`tx_buffer_end`, rx_sm.c:336). The rx thread
   builds the set-ip frame in the buffer the tx thread uses.

Met on the way, without a run of their own: `msgTxInterval` is six passes of the tx
thread, not five seconds (leaving `TX_INFO_FRAME` takes a pass of its own;
`FramesSpaced` and `FramesRegular` have the bounds). If the tx thread runs a port
before the rx thread has enabled it, the machine goes from `TX_IDLE` to
`TX_LLDP_INITIALIZE`, which tx_sm.c:440 calls illegal; `OnlyIdleIllegal`, part of
`Inv`, says that this change and the one to `TX_INFO_FRAME` are the only such ones,
so the logging of an illegal `TX_IDLE`, whose format lacks its arguments, is never
reached. A read that fails leaves the waiting frame with a size of -1, and the
run that takes it wipes far more than the buffer (rx_sm.c:522); `RxThread` lets
the program end there. An address after the octet has wrapped, or after a restart of
the master, may be one that is in use.

## 5. Proofs

TLC checks small instances; the theorems hold for every instance that satisfies the
named assumptions of the modules:

- `LldpRx`: every set of ports, identifiers and frames, every time to live, octet
  width and role. `MaxTTLAssumption`, `RoleAssumption`, `OctetAssumption` (the first
  address is above 0 and below the largest octet), `FrameAssumption` (the special
  values are distinct), `FileAssumption`: the ports and identifiers are finite sets, and as
  many neighbours as they allow, with two modules of at most 39 octets each, fit in the
  1024 octets of `lldp_neighbors_info`, which the code does not check.
- `LldpTx`: every number of ports and all timer values. `TimerAssumption` (the delay
  is no longer than the interval; losses are bounded), `HoldAssumption`:
  `(MaxLost+1) * (MsgTxInterval+1) < TxTTL`.
- `RxThread`: every number of interfaces, set of socket failures and queue length.
  `SizeAssumption`, `OutcomeAssumption`.
- `Lan`: any slaves, interval and number of faults. `LanAssumption`: the device is a
  master with a port on the link, and the slaves' frames are among the frames of `LldpRx`.
  One theorem, `SlavesAreKept`, is about `TwoSlaves`: exactly two slaves, an interval of
  at least 3 and `MaxTTL >= 2 * MsgTxInterval + 10`, which 5 and 20 meet with equality.
- `TxBuffer`: every number of ports, optional TLVs and wifi modules.
  `OptionAssumption`: the set-ip frame has fewer TLVs than the information frame, and
  both the longest frame and the smallest size fit in the buffer of `BufferSlots`.
- `FrameCodec`: every set of text lengths, every number of wifi modules and every
  number of them that is kept. `CodecAssumption`: texts of at most 511 octets, because
  `lldp_systemname` and `lldp_systemdesc` are arrays of 512, and at most 115 modules,
  because a module takes 13 octets of a frame of 1500; odd frames of at most 127 TLVs
  of any set of types, so that 16 bits hold the offset. `ValueAssumption`: a NULL
  pointer is none of the values.

### LldpRx

`Invariance == Spec => []Inv`. The safety properties are not inductive alone;
`Inv` adds `Connected`, what connects them:

- a frame that is said to wait is one the network sent - without it a purge
  could be followed by the processing of an empty buffer;
- `ips` is never the broadcast octet - that is why the next grant is not;
- until the wrap, every address given out lies below `ips` - that is why the next
  one is new, on whatever port;
- a slave grants nothing.

`AgeFlagExact` is part of `Inv` too: the purge comes before the frame only because the
flag is up whenever an entry is at zero.

The argument goes by lemmas on the cache operators (`AgedFact`, `LiveFact`,
`UpdatedFact`, `GrantedFact`), which say what each does to identifiers, timers
and addresses; `AgedLines`, `RefreshedLines`, `GrantedLines` and `CoversLines`, which
of them have a line in the file; `QuietStep`, `OtherStep` and `PeerStep` then take the
actions one by one. From it follow `TypeCorrect`, `NoDuplicates`, `AddressesDistinct`,
`AgeFlagIsExact`, `GrantIsRecorded`, `BroadcastNeverGiven`,
`FileCoversNeighbors`, `FlagsAndCounterConnected`, and the action properties `ExpiredStaysExpired`,
`DeletedIsExpired`, `AddressKept` and `TransitionsLegal`.

`ImplementsTableSafely`: the initial state maps to the table's, and every step to
`Age`, `Hear`, `Purge` or a stutter. `Hear` needs the table to hold nobody
dead, which is `AgeFlagExact` once more.

### LldpTx

`Invariance == Spec => []Inv`. `PortInv` relates the timers to the silence: in
`TX_IDLE`, `silence + txTTR` is an interval, or one less when the port came there
by way of `TX_LLDP_INITIALIZE`, and a pass that is not over counts for one more;
`txDelayWhile <= txTTR`, so the delay never holds a frame back; and `heldBy +
silence + lost * (MsgTxInterval + 1) >= TxTTL` says what each missed frame costs.
From it: `TypeCorrect`, `InfoFramesRegular`, `InfoFramesSpaced`,
`ListenerKeepsPort`.

### RxThread

`Invariance == Spec => []Inv`, from `SizeAssumption` and `OutcomeAssumption`. Four
lemmas on sequences (`ToSetFact`, `FrontFact`, `TailFact`) say what putting a
port in front and moving to the next one do to a list without repetition. `Inv` adds to
the properties what makes them inductive: `ListInv`, that the list has no
repetition and interfaces still to come are untouched; `PromiseInv`, that all
ports *still to visit* for which `select` promised a frame have one, but for the
port whose visit has started over - a read takes a frame from the current port
only, and the next visit is to another port because the list has no repetition;
`BufferInv`, that an unbound socket's buffer stays empty, without which the crash
there could leave a foreign frame behind. From it: `TypeCorrect`, `ListIsExact`,
`BlocksOnlyAgain`, `ForeignKeptOut`.

### Lan

`LanInvariance == LanSpec => []LanInv`, where `LanInv` is `LanTypeOK`, the `Inv` of the
master, `AddressAgreed` and `HeldApart`. `AddressesUnique` is not inductive: it knows
nothing of the addresses on the way. `HeldApart` says it of every address a slave
uses *or may still take*, and adds that each lies below the master's `ips`; that
makes the next one the master gives (`RunStep`) new to the whole link, not only to
its cache - also when the slave it was given to is long off the list. A lost frame or a
restart only takes addresses away (`FewerHeld`). `AddressAgreed` is inductive by itself
because only the *last* address on the way counts: taking an earlier one changes
nothing, and the master sends another only to a slave it lists anew. The restart of
the master empties its cache and starts `ips` over, which `Inv` survives and
`HeldApart` does not; hence `rebooted`. From it: `LanTypeCorrect`, `AddressIsAgreed`,
`AddressesAreUnique` and `MasterStaysSound`, which says which of the promises of
`LldpRx` survive restarts that `LldpRx` knows nothing of.

`SlavesAreKept` (`LanKeptProofs`) states `LiveSlavesKept`. An entry ages in every run of the
port, and a run is started by the timeout, once a second, or by a frame of either
slave; `Left` is the hold time less the runs there can have been since the slave was last
heard: `since` seconds, one if the timeout of this second has come, and `d` frames
of the other slave. `Sent` bounds `d` by the seconds gone by, because frames are an
interval apart. The one fault allowed either adds a `Period`, when the slave's own frame was
lost, or the two frames the other slave may have sent before it restarted and
sent again at once. `ThreeLeft` is the arithmetic: in the worst case, a lost frame, `2 *
(MsgTxInterval + 1)` seconds, a timeout and three frames still leave three runs. Three are
needed because a frame that comes may have to wait for `UPDATE_INFO` or `DELETE_INFO`
and for the run after it (`RunsAhead`, `Waits`); that it need not wait longer is
`NothingExpires` and `PurgedToOne`: right after a purge or a renewal no second
purge is due. This is where two slaves matter; more of them make more runs and more purges.

### TxBuffer

`BufferInvariance == Spec => []BufferInv`. `WholeWhenAlone` looks at a frame when it is
sent; what makes it inductive is what is known before. `AloneExact`: a thread counts as
alone only if the other is not at work on its port - without it a second thread could
write behind the first one's back. `FrameSoFar`: a thread that is alone finds what it
has copied, and zeros behind it as far as a frame may have to be padded. The
zeros come from the `memset` of whoever sent before, possibly a frame that was
mixed; `SizeKnown`, that `sendsize` is always one of the two sizes, says that every
`memset` clears at least what the shorter frame needs. From it: `BufferTypeCorrect`,
`FrameWholeWhenAlone`, `IdleBufferIsClear`. `BufferTypeCorrect` says that no size and no
copy leaves a buffer that is as long as the longest frame, also when the threads
meet; it does not say that the `mtu - 2` octets of the code are that long.
`IdleBufferIsClear` is about the slots the shorter frame is sent with, and no more: a
mixed frame may leave parts behind them.

### FrameCodec

Two inductive invariants, one on top of the other. `WireInvariance == Spec => []WireInv`
(`FrameWireProofs`) is about every sender, the odd ones included. Offsets are sums over
a list of TLVs, which would need induction over data; because the sender adds a
TLV a step, the sum is built up by the specification itself and the induction is
that of the invariant. `Written`: the frame holds the first TLVs of the list, each at
the place where the one before it ends, in ascending places no further on than 513
octets per TLV - so that the parser's offset fits in 16 bits. `WireAt(k)`: the parser's
offset is the place of the k-th TLV, or the end of the frame, and `Allocated(k)` gives
the blocks that are held from the identifiers among the TLVs before it. `HeaderFact`
says that type and length are read back from the 16 bits, `HereFact`, `BehindFact` and
`AdvanceFact` that the parser is on a header, or behind the last one, and stays so.
From it: `CodecTypeCorrect` and `HeadersFound`.

`CodecInvariance == Spec => []CodecInv` (`FrameCodecProofs`) adds, for proper frames only,
`Parsed`: the parser's locals hold what the TLVs before its own say (`FoundIds`;
`FoundVendor`, by the kind of the frame; `Outcome`). The lemmas on the layout
(`DaemonTlvs`, `SetIpTlvs`, `PlainTlvs`, `OtherVendorTlvs`, put together in `PlaceFact`)
say which TLV stands where; `TypeTells`, that the type of a TLV tells its place,
which is what connects a branch of the parser with `k`. From it: `ParseIsRight`, which
justifies for the frames of daemons and sound agents the abstraction of `LldpRx`, and,
with `WireInv`, `AllIsFreed`: every block is accounted for in every frame, and a proper
one leaks none.

### Only model-checked

- The liveness properties (`PendingFrameTaken`, `SilentForgotten`, `FramesForever`,
  `HeardPortsRun`, `QuietPortsRun`, `SlaveListed`, `ParseEnds`) and the fairness part of
  `ImplementsTable`: liveness under fairness is out of the prover's reach.
- `LiveSlavesKept` of `Lan` for more than two slaves: each further one needs a longer hold
  time, and how much longer is a sum over the slaves.

## 6. Not modelled

- *Values of TLVs.* `FrameCodec` has their order, lengths and headers; a value is
  opaque. The validators, decoders and `explode_tlv` are not reached (validation is
  commented out, and the shutdown frame that calls one validator is never due).
- *What the parser reads where nothing was sent.* A last TLV that is cut is one whose
  value nobody looks at; what is read of a value behind the end of the buffer is left
  out, and so is what an earlier, longer frame may have left in `rx.frame` (the
  buffer behind a frame reads as zeros).
- *Odd frames elsewhere.* A port id without a chassis id crashes the process
  (rx_sm.c:192) in `FrameCodec`, not in `LldpRx`, `Lan` or `RxThread`, whose senders are
  daemons and sound agents. Odd frames carry no vendor TLV of the daemon but the role,
  none of another vendor, and no malformed time to live beside odd identifiers.
- *A mix of modules in and out of operation* in one frame: all of a sender's modules are
  one or the other, which is what decides whether it has a line in the file.
- *The 1024 octets* in which the neighbour file is put together: `FileAssumption`
  takes the neighbours to be no more than fit.
- *The links of the neighbour list.* The cache is a set; that `mibDeleteObjects`
  relinks the cells correctly is not shown. `destroy_list` and `cleanupMsap` have no caller.
- *Shutdown.* `cleanupLLDP` is a signal handler that frees the ports while both
  threads use them, just before `exit`. The source says nothing a model could hold it to.
- *File errors* in `lldp_neighbors_info`: an open or write that fails is only logged.
- *More than one port of a master in `Lan`*, and frames delayed by more than a second.
- Discovery by ioctl (its failures are outcomes in `RxThread`, its wifi modules a
  number in `FrameCodec`); logging; gratuitous ARP (reached from no thread that is
  created); statistics; the kernel patch.

## 7. Plan

Done: `LldpRx` with `NeighborTable`, `LldpTx`, `TxBuffer`, `RxThread`, `Lan`,
`FrameCodec`, and proofs about each of them.

Left: `MsapList`, `update_msap_cache` and `mibDeleteObjects` on a linked list, shown to
implement the set operators of `LldpRx`.

# A TLA+ model of the SystemC Modeling Library (SCML)

SCML is a C++ library on top of SystemC/TLM-2.0 for writing transaction level
models: clocks that can call back without producing edges, timers and payload
queues driven by clock ticks, memories with aliases, registers, bitfields and
callbacks, routers, sockets, adaptors and a handful of small modelling objects.
This directory holds TLA+ modules that model the parts whose behaviour depends
on the *order* of things, TLC configurations that check them on small
instances, and TLAPS proofs about the most important ones. `PROJECT.json`
lists every run, every mapping from a definition to the lines it models, the
hazards each property is aimed at, and the theorems.

Contents: [1 the system](#1-the-system) · [2 modules](#2-modules-and-how-they-correspond-to-the-code)
· [3 runs and bounds](#3-runs-what-they-show-and-their-bounds) · [4 fairness](#4-fairness)
· [5 proofs](#5-proofs) · [6 disagreements](#6-where-the-code-and-its-documentation-disagree)
· [7 not modelled](#7-what-is-not-modelled) · [8 plan](#8-plan)

## 1. The system

SystemC is a single-threaded, cooperative simulation kernel: a process runs
until it waits, so *data races do not exist*; what does exist is that the
processes runnable in one delta cycle run in any order, that a call into a
module calls back into user code which calls the module again, and that time
only advances when nothing is runnable. This is what "interleaving" means below.

| Component (sources under `src/src/`) | State | Operations | Interacts with | What makes it correct |
|---|---|---|---|---|
| **Tick callback engine** `scml_clock/tick_callback_engine`, `clocked_module` | sorted list of time nodes with the modules that wait, one armed event, a remembered (tick count, time) pair, parameters | request by ticks or by delay, cancel, queries of count and time, tick method, parameter update | the clock (parameters), SystemC events, clocked modules (callbacks, which request again) | every module is called in exactly the tick it asked for last; the tick count is that of a clock that really ticked |
| **Clock signal and dividers** `scml_clock/engine`, `*_configurator`, `gate` | signal value, active and next parameters, alignment of a divider with its master | edges, enable/disable, set period/offset/multiplier, update phase | master → dividers notifications, tick engine | edges of divided clocks lie on edges of the master, no half period is cut short, counts never jump |
| **Clocked timer** `scml2/clocked_timer` | state, period, remaining shots, lazily refreshed cache | start, stop, resume, counter, callback | one request at the tick engine | alarms at the promised ticks in whatever order callback and calls of an instant come |
| **Clocked PEQ** `scml2/clocked_peq*` | list of payloads sorted by arrival tick, unblock tick | notify, get next, remove, block, unblock, callback | one request at the tick engine | no payload sleeps without a pending callback |
| **Memory, aliases, DMI tables** `scml2/memory*`, `toplevel_memory_base`, `find_alias.h`, `burst_unroller` | tree of aliases, callbacks per object, table of ranges that may be accessed directly | transport, set/remove callback, enable/disable DMI, observers | invalidates the initiators upstream | a word is never accessed directly while somebody must see the access; a burst reaches every callback in it |
| **DMI handler, abstraction level switch, router** `scml2/dmi_handler`, `abstraction_level_switch`, `router_base`, `mapped_range.h` | remembered ranges, in-use flags, mapped ranges | access, (un)map, switch | initiator → router → memory, invalidation back | what is remembered is what would be answered now |
| **Content and callback observers** `scml2/memory_content_observers`, `callback_observers`, … | lists copied while they are notified | register, unregister, notify | memory, DMI | (un)registering inside a notification neither loses nor repeats a call |
| **Registers and bitfields** `scml2/reg*`, `bitfield*` | masks, callbacks per field | read, write through masks | memory callbacks | a field's write touches no other bit |
| **Callback adapters, word unrolling** | none | conversion between callback signatures | memory, bitfields | words are called once each, in order |
| **Port adaptors** `scml2/target_port_adaptor*`, `initiator_port_adaptor*`, `tlm2_gp_*_port_adaptor`, `port_adaptor_impl` | a state and pending states per transaction, two or three channels with queues, outstanding entries, a pool of payload_infos, deferred callbacks, worker threads | nb_transport_fw and _bw, b_transport, send_transaction, read, write, update_transaction, the state machine | the socket (nb_transport, return path), the model (callbacks that update or send transactions), blocking targets (b_transport from a worker thread) | the other end of the socket sees the four phases in order; no state, transaction, channel or entry is forgotten |
| **GP adapters, initiator socket** `scml2/tlm2_gp_target_adapter*`, `tlm2_gp_mm*`, `initiator_socket.h` | memory managers, extensions of a payload | conversion of transactions to accesses and back, claim and release | sockets, memories | no transaction is released twice or in use |
| **FT sockets** `scml2_tlm2/` | parent/child/peer handles, forward pointer; in `simple_target_socket` the conversion threads, their events, the pending transactions | bind, command forwarding, interception; nb_transport_fw ↔ b_transport | each other, the target's callbacks, SystemC | a command reaches the socket the TLM calls reach; an intercept stays in place; each transaction is served and answered once, one request and one response at a time |
| **Protocol engines** `scml2_protocol_engines/` | reset, pin, interrupt, FT ports | drive and sample | signals, sockets | edges and delays in order |
| **Modelling objects** `scml2_objects/` | fifo, timer, command, process, condition, … | behaviours with user callbacks in the middle | attributes | state re-checked after each callback |
| **Base, logging, registries, services** | attributes, rules, pools | – | everything | – |
| **SCML1** `ModelingObjects/`, `PV/` | the legacy generation | – | – | – |

Hard behaviours, in the order of the trouble they cause: (1) reconfiguration of
a clock between requests and calls; (2) re-entrance, user callbacks that call
the object that is calling them; (3) state remembered by one object about
another (DMI ranges and in-use flags, tick caches), with invalidation as the
only repair; (4) the order of processes in one instant; (5) arithmetic at
boundaries (first tick, last representable time, widths of aliases, ends of
ranges). There are no threads, no lost messages and no persistence, hence no
crash recovery. The full list with lines is `hazards` in `PROJECT.json`.

## 2. Modules and how they correspond to the code

Definitions have the names of the members and functions they model; history
variables, which exist for the properties only, are marked `history` (or "for
checking") at their declaration. Definitions named `X_Something` with the
comment `Mutant` are faulty variants of `X`, used to make sure that the
property beside them fails when the code is wrong in that way; nothing uses
them in the specifications.

### TickCallbackEngine (with TickService)
`mNodes` is a function from scheduled ticks to nodes; the linked list is sorted
by tick, so `Root` is its minimum and a node is found by its tick. One action
is one call into the engine (`RequestTrigger`, `RequestTriggerAfter`,
`CancelTrigger`, the queries, `UpdateParameters`, `CreateEngine`) or one step of
the kernel (`StartSimulation`, `AdvanceTime`). The tick method is split where user code runs:
`HandleTick1Trigger` up to the first callback, `CallNext` per callback (other
calls may come between, as they do from a callback), `FinishTick`. The order of
the callbacks of one tick is any order: the code's is LIFO, which nobody should rely on.
`sc_start_of_simulation_invoked` and `sc_is_running` are one flag. Excluded:
delay requests in the last representable period (where the code's own sum
overflows), destructors, pools.
*TickService* is what the engine promises: a module has at most one pending
tick, each call of it serves the request for the present tick and uses it up,
and no tick passes with a request for it pending. The calls are counted in its
state (`calls`), so that a call which nobody asked for cannot pass for a
cancellation. `ServiceSpec` of the engine instantiates it with the engine's
state and `called`, a history of the calls of the tick that is being processed.

### ClockEngine
The signal engines of a tree of clocks, with the two phases of a delta cycle
(evaluate: `HandleEdge`, parameter calls; update: `Update`). Which engine
updates first in a delta is any. The duty cycle is abstracted into two half
periods (a period is at least 2), multipliers are integers (the code allows a double, scaled
and truncated), no clock is derived from itself (an engine is constructed with its parent), the model starts after `start_of_simulation` and the signal engine
is on throughout (`turn_engine_on = true`). A gate is a divider by one.
`get_next_parameters` computes the parent periods that have passed in double and truncates
(`divider_configurator.cc:155`). `ConsumedMasterTicks` does the same on integers: a whole number of periods q out of
m comes out one too few if the pair is in the constant `RoundedDown`. Which pairs are is a fact about double (for divisions
that leave a remainder the error is far too small to matter): none for multipliers up to 21, 15 of 22 as
the first, 1 of 49.

### ClockedTimer (with TimerService)
Time is a sequence of instants that are ticks or lie between ticks. The members
of the class are the variables; members the constructor does not initialize
start with arbitrary values. `cacheIsNow` stands for `mCacheTimeStamp ==
sc_time_stamp()`. The tick engine's side is `TickService`'s: one request, called
in its tick. *TimerService* states the promise without caches or requests, and
`Promise` is the refinement: `left` is computed from the pending request or the
remaining ticks, `owed` from whether the alarm is due. The conversion of a
period in time to ticks is abstracted.

### ClockedPeq
The list of payloads with arrival ticks, the unblock tick, the one request and
the callback. Which visible payload `remove` takes is any. `notifyAt` of a past
tick is excluded (its documentation excludes it too), and so is `unblockAt` of a past
tick (`PastTicks`): the code aborts there, see section 6. `get_next` and `block` cancel the request. When it is the one of the
tick in progress the program may abort (`CancelAborts`), as the tick engine does from a callback of the tick or, since it
can no longer stop the tick method, before it; `aborted` tells this abort from that of a request for a past tick, and
both end the behaviour. If another module waits for the same tick and no callback has been made, the cancellation does no harm.

### MemoryDmi
`disable`, `clear` and `find` on the list of ranges, as the code's list surgery
does them, with the set of disabled words as history. It is checked as the table
of MemoryContentObservers, which does every sequence of these operations.

### ToplevelMemory (uses MemoryDmi)
A memory and its aliases as a tree with offsets, widths and sizes; which
callbacks are installed; which objects refuse direct access; the DMI tables;
and the words an initiator holds. `AnsweredBy` is the lookup of a burst and of
its parts, `HasRefinedBehavior` the decision to unroll. An access that begins before all aliases of an object is taken to touch
the first of them only (`AliasRange`); `Overlooked` are the others it reaches, of which `EveryCallbackRuns` says nothing.
Abstractions: debug callbacks and restrictions follow the same code pattern as
callbacks and are not separate kinds; observers are registered outside
notifications; the fast backdoor covers the whole memory; an initiator does
not ask again inside an invalidation; aliases start at a multiple of their
width; tables are emptied when they are invalidated (they are never read then).
What lies above an object is the least closed set of the parents (`Reached`), the region tables are folds over the
refusing objects. *MemoryIndices* has what the two models of a memory share, the kinds of access and the
indices.

### MemoryContentObservers (with ObserverList and MemoryDmi)
*ObserverList* is the list that all four kinds of observers use: registering and
unregistering work on a copy while a notification is going through the list,
which replaces it afterwards. *MemoryContentObservers* has the accesses of
a memory, the maps of watched pages that let an access pass without looking at the list, and the
direct access that must be refused for watched words. The loop of a notification is
split where an observer is called (`VisitObserver`, `CallReturns`); from there observers come and go and
accesses begin inside the one in progress, up to `MaxDepth`. The words that direct access was
granted for, and whose grant was not invalidated, are history (`held`).
`RequestsInside` admits initiators that ask for direct access from inside a
notification (section 6). An access is a range of words; its data is left out.

### RegisterBitfields
A register of `reg.h`, its (nested) bitfields, and the memory callbacks that the
register installs on itself for them. Setting and removing callbacks of the user, of bitfields
and post-write callbacks are actions (`SetCallback`, `SetFieldCallback`, `SetPostWriteCallback` and their opposites); an access is a sequence of steps, one per
callback of user code, which may change the configuration and put values while the access is
in progress. Values are abstracted to their origin, bit by bit: a bit is `old`, from the `access`, or
put by a `callback`. `Walk` is the order in which an access asks the bitfields (inner ones first); which
masks an access may enable and which bits callbacks may put are constants. Debug accesses
are the same code on flags of their own and are not a second copy in the model.

### DmiPath
DMI handlers of the initiators, the global abstraction level switch, one router
with separate read and write maps, and the memory behind it, seen as the set
of words it would grant now and the tables it answered from. A request travels downstream atomically (no target of the
repository invalidates from inside `get_direct_mem_ptr`). A range carries the
word its first address points to, so a wrong pointer is a wrong word. The memory's answer is stated by what the search in its
table returns (`LowEnd`, `HighEnd`: the largest range around a word on which the table says the same); that the table has
this shape is `TableIsExact`. The MRU order of
ranges is modelled. The router's callbacks and its transport are not.

### PortAdaptor, TargetPortAdaptor, InitiatorPortAdaptor, PortAdaptors
The two adaptors have one class in common, and so do the modules: *PortAdaptor* is
`port_adaptor_impl` with its channels, payload_infos and outstanding entries,
*TargetPortAdaptor* and *InitiatorPortAdaptor* are the derived classes, and *PortAdaptors* puts
either behind a socket (the setup says which) and states once what both promise. All that happens
to a transaction goes through `process_state_machine`, a loop over the channels that is never
nested: when a callback, the other end of the socket or the memory calls back into the adaptor
from inside the loop, the state is only queued. The module has the loop as steps (`StateForTarget`,
`StateFromTarget`, `EndAtTarget`; `RequestForTarget`, `DataForTarget`, `StateFromSocket`, `EndAtInitiator`
process one state, `LeavePayload` goes on to the next channel or ends it), and everything that can
enter the adaptor as an action that queues a state and, if `push_state` does so, starts the loop:
`BeginRequest`, `EndResponse` (nb_transport_fw) and `BTransport`, or `NbTransportBw`,
`SendTransaction` and `ReadOrWrite`; `TargetUpdates` and `InitiatorUpdates` (the model's
update_transaction); `PostponedCallback`, `BehaviorRuns`, `BTransportDone` and `MethodRuns`. `caller`
says who is inside; as SystemC does not preempt, other entries wait until it is left
(`NbTransportFwReturns` and `NbTransportBwReturns`, which have work to do after the loop, and
`PushGoesOn`: the initiator's `push_state` runs the loop for the skipped end of a request before it
queues the response). `push_state`, `advance_state` and the channels are operators from a record of
the tables to a new record, since the code calls them from many places. `peer` is what the other end
of the socket knows of each transaction: it keeps the base protocol itself, and becomes `confused` when
the adaptor does not. So does the model (`TargetEvents` and `InitiatorEvents` are the events that may follow,
asked for once it is its turn); a callback of an initiator may send the next transaction (`MaySend`).
Times are left out: where the code asks whether an annotated time is zero (a callback that is put off
to it) either answer is possible; the times of one transaction do not go back. `b_transport`, `read` and
`write` are the ones with timing callbacks always invoked; otherwise they only pass the call on.

### Fifo (with BoundedQueue)
`objects::fifo` calls user code in the middle of `push_impl` and `pop_impl`, at up to twenty
places, and the code called may push, pop, clear or reconfigure the same fifo. The calls in progress
are therefore a stack of frames, each with the place (`pc`) of the callback it is waiting for; there
is one action per call (`Push`, `Pop`, `Clear`, `SetSize`, `SetSizeStyle`, `SetOverflowStyle`) and
one per return from a callback (`OverflowReturns` and so on), which runs up to the next callback.
`Reenter` says what may be done to the fifo at which place: the run has all that the class
bears (`Contract` of FifoProofs), section 6 lists what it does not. *BoundedQueue* is what the contents may do, whatever
the callbacks do: who enters, who leaves, who gives way; `KeepsItsPromise` is the refinement.
Version 1 knows no styles and is mapped to a queue with a limit.

### FtSockets
Sockets of initiators and targets are bound to each other, to the sockets of their parent modules and to
interfaces, in any order of the binding calls; SystemC completes the ports
(`CompleteBinding`) and calls `end_of_elaboration` per socket. The handles (`parent`, `child`, `peer`), set by either side of a binding, are what
commands walk along; `ports` and `exports` are what the TLM calls follow. The forward pointer, the intercepts and the clock
period pushed from target to initiator are state. The many commands of the code differ in the value
they carry; the walk (`TowardsTarget`, `TowardsInitiator`, `FarEnd`) is modelled once.
Walks and bound ports are what is reached along pairs of a relation (`Reached`), the least set that no step leaves, so that the
proofs have an induction over walks.

### SimpleTargetSocket (with TransportService)
`simple_target_socket` where it converts calls: to a target that only has `nb_transport_fw`, `b_transport` hands the
transaction to one thread (`b2nb_thread`, its PEQ and `m_end_request`); for a target
that only has `b_transport`, `nb_transport_fw` wakes up or spawns a thread per transaction (`nb2b_thread`, `m_process_handle`).
SystemC is part of the model, because the code relies on it: who is running, who is runnable, the events
that fire in the next delta cycle and those that fire later; an earlier notification overrides a later one, and a
notification that nobody is waiting for is lost. Actions are the calls from the two sides
(`BTransport`, `BeginRequest`, `EndOfResponse`, `TargetEndsRequest`, `TargetResponds`, `TargetAcquires`, `TargetReleases`), the steps of the
threads between their waits and calls, and the kernel's `DeltaCycle` and `AdvanceTime`. A delay is
zero or not (`Times`). A transaction may be the caller's own payload (`Unmanaged`), which must not go back before the target has released it.
*TransportService* is what a caller may rely on: each transaction is called, served, answered and returned, once and
in that order, and all of that happens. `Eager` and `Nested` admit two behaviours of the sides that the code does not
survive (section 6).

## 3. Runs, what they show, and their bounds

Each run finishes within two minutes on two workers, most within half of one. A run checks its properties
exhaustively on the instance. For each property
`PROJECT.json` names a faulty variant of one definition under which that
property is violated in the same configuration. Type invariants (`TypeOK`), and
the well-formedness of data structures they stand for (`Sorted` of ClockedPeq,
`RangesAreDisjoint` of DmiPath), hold with the same configurations; they are not part of the runs and can
be added to any of them.

| Run (cfg) | Instance | Shows |
|---|---|---|
| `tick_engine` (TickCallbackEngine) | 3 modules, periods 2 and 3, time to 6, offsets to 3, skips and delays to 2, fairness | requests and nodes agree; the root is armed; events stand at tick times and nothing but the unrepresentable is ignored; counts and times equal those counted one by one; refinement of TickService with its calls; a due module is eventually called |
| `clock_engine` (ClockEngine) | a source and a divider, periods 2/3, multipliers 1/2, three parameter changes, time to 8 | every update has an edge to drive, the signal has the shape of its parameters and the count is that of its edges, the divider's edges are the source's, and new parameters always start in the future |
| `clocked_timer` | periods 0–3, no limit/1/2 shots, 7 ticks | assertions hold, the request matches the state, refinement of TimerService, the value predicted by `get_counter_value(delay)` comes true |
| `clocked_peq` | 4 payloads, delays 0–2, 5 ticks | no lost wake-up; no request for a past tick (cancelling the request of the tick in progress may abort and ends the behaviour) |
| `toplevel_memory` | memory of 4 words, an alias of words 1 and 2 holding a register at 2, a second register at 3; all callback combinations | no word is held that somebody must see; tables are current; each word of each burst reaches the innermost callback, unless it begins at word 0 and a callback is on the second register, which it overlooks |
| `content_observers` (MemoryContentObservers) | 6 words in pages of 2, 3 observers in three layouts, writes to words 2 and 3, two accesses inside each other, requests for word 3 | no observer that was there misses an access; none is called after it left; watched words are not held; the table of ranges is exact |
| `dmi_path` | an initiator that reads and one that writes, a router of 3 addresses with separate read and write maps, a memory of 2 words | no stale grant, no stale refusal, no direct access when switched off |
| `registers` (RegisterBitfields) | 4 bits, three bitfields, one of them inside another, 5 masks, 5 changes of callbacks | accesses reach the callbacks; each bit goes to one place; the result is put together from the right pieces; post-write callbacks follow |
| `port_adaptors` (PortAdaptors) | two transactions with nb_transport, one of a thread, one outstanding entry; five target models (none, a read or write callback, automatic behaviour with simulated beats) and four initiator models (none, responses, write data, two beats) | the other end sees the base protocol; nothing is forgotten: whenever the adaptor is at rest no state is left that only a new transaction would take up, and in the end all transactions, channels and entries are free |
| `fifo` | two values, sizes 1 and 2, all styles, both versions, calls three deep | refinement of BoundedQueue; `push` tells the truth; the flags can be relied on |
| `ft_sockets` | two initiators, one behind a socket of its parent and one that may stay unbound, a target behind a socket of its parent | commands end where the TLM calls end; forward pointers and intercepts survive elaboration; clocks agree |
| `simple_target_socket` | three transactions, one with the caller's payload, both kinds of target, fairness | the target has one request, the initiator one response at a time; refinement of TransportService with its liveness |

Why the bounds are enough to be of interest.
*Tick engine*: with periods 2 and 3 a change of period moves the phase of the
ticks; time to 6 leaves ticks before and after a change, offset 3
puts the first tick beyond a pending request; three modules give a node with
one, two and three requests while another node exists; MaxSimTime is 12, so that
requests of both kinds pass the last representable time before EndOfSim.
*Clock*: three changes are a change during a change plus one more, the longest
chain that keeps `mRemainingMasterPeriods` alive across updates. The multipliers 1 and 2 are exact in double; for the others
there is ClockEngineRounding.cfg, which is not one of the runs: a source of period 2 and a divider by 22, the smallest multiplier that is
not exact, with two changes in time 50, more than one of its periods and the parent period it may be late. `DividersAligned` holds there too
(1.7 million states, half a minute), and fails with `ConsumedMasterTicks_RoundedUp`; what it says then is that the divider is with its source and never early. The
theorem `DividersStayAligned` has it for every multiplier and every rounding.
*Timer*: period 1 makes every tick an alarm tick, 3 lets a stop fall strictly
inside a period, two shots distinguish the last from the one before.
*PEQ*: four payloads with three delays cover insertion in front, between and
behind, and two payloads of one tick.
*Observers*: the layouts have neighbours, overlaps, a range between two others, and an observer of another
kind of access in the page of the others; six words leave room for a range strictly between two
disabled ones; three observers are one that is called, one that leaves and one that comes. An access
inside an access is what the copy of the list is for; one inside that runs the same code on the same list.
*Router*: a mapping of the whole memory, of a part of it, and
one that reaches past its end.
*Port adaptors*: two transactions of one initiator and one of a thread, so that all
channels have queues and a third payload meets both; one outstanding entry makes
every second request find none. Liveness ("each transaction completes") is stated
as an invariant of the states in which nothing more will happen, which needs no
fairness.
*Registers*: an inner and an outer bitfield with a bit of its own each, one beside them and a bit that belongs to none;
five changes install, use and remove callbacks of two kinds, or of one kind twice.
*Fifo*: size 1 is full and empty at a time, size 2 neither; a third call inside a call meets a frame that
has itself been overtaken. *FT sockets*: one level of hierarchy on each side gives a chain of four
sockets, each of which can be bound from either end first; more levels repeat the middle. *Simple target socket*: three
transactions, since the second is served while the third is what a thread woken too early would
take.
State constraints are not used; the bounds sit in the guards of the actions that
count (`AdvanceTime`, `Tick`, `Push`, parameter changes). `CHECK_DEADLOCK FALSE`
appears where the bounded end of time is such a stop.

## 4. Fairness

`DueIsServed` of `tick_engine` (`FairSpec`) assumes weak fairness of the tick method's own
steps, of the start of simulation and of the advance of time. SystemC justifies
each: a runnable method process is run before time advances, the callbacks of a node
are made in one loop, `sc_start` follows elaboration, and time advances
whenever nothing is runnable. Calls by the user's modules and parameter
changes have no fairness, so the property does not rely on them; the instance
excludes nothing they may do in the meantime.

`ServesEachOnce` of `simple_target_socket` states its fairness (`Fairness`) as what happens again and
again, since what SystemC guarantees is about its phases and not about single processes: the evaluation phase ends and delta cycles
come to an end (no process goes on for ever in one instant), and a notified time is reached. Of
the two sides it assumes what the base protocol obliges them to: a target ends and answers the requests it was
given, returns from `b_transport` and releases what it acquired, and the initiator ends the responses. Nothing
is assumed about the socket's own threads beyond what SystemC does with all
processes, so that a thread that misses its event is a counterexample.

## 5. Proofs

| Module | Theorem | Statement |
|---|---|---|
| TickCallbackEngineProofs | `TypeCorrect`, `RequestsAlwaysAgree`, `RootAlwaysArmed` | `Spec => []TypeOK`, `[]RequestsAgree`, `[]RootArmed`, for any set of modules, periods and bounds satisfying `ConstantsAssumption` |
| TickCallbackEngineProofs | `TicksAlwaysExact`, `TriggersAlwaysOnTime` | `Spec => []TicksExact`, `[]TriggersOnTime`, when `~LateCancel`, `~LateCreation` and `StopsEarly` |
| TickCallbackEngineProofs | `EngineImplementsService` | `Spec => ServiceSpec` (the refinement of TickService: each call serves a request for its tick), under the same hypotheses |
| ClockProofs | `EdgesAreDriven`, `SignalIsRight`, `ParametersStartAhead` | `Spec => []UpdateHasAnEdge`, `[]SignalShape`, `NewParametersStartAhead` (Spec of ClockEngine), for any tree of clocks that are not inverted, any periods, multipliers and start times and any number of changes |
| ClockProofs | `DividersStayAligned`, `MirrorsStayInStep` | `Spec => []DividersAligned`, `[]MirrorsItsParent`, for any number of dividers of sources (`Flat`), not inverted, and any `RoundedDown` |
| ClockProofs | `TimerTypeCorrect`, `AssertionsHold`, `RequestsMatch` | `TimerSpec => []TimerTypeOK`, `[]AlarmAccountedFor`, `[]RequestMatchesState`, for timers first used after the start of simulation |
| ClockedPeqProofs | `WakeupNeverLost` | `Spec => []NoLostWakeup`, for any delays, also when past ticks are named |
| ClockedPeqProofs | `RequestsNeverNegative` | `Spec => []RequestsNeverAbort`, when `unblockAt` names no past tick (`PastTicks = {}`); cancelling may still abort |
| ClockedPeqProofs | `AlwaysSorted` | `Spec => []Sorted`: payloads are in the order of arrival, and of pushing within a tick |
| RegisterBitfieldsProofs | `CallbacksAlwaysReached`, `BitsGoToOnePlace`, `PostWritesAlwaysFollow` | `Spec => []CallbacksAreReached`, `[]EveryBitGoesToOnePlace`, `[]PostWritesFollow`, for any register, any nested bitfields and any number of changes; the first is about the callbacks for reads and writes, and says nothing of whether post-write callbacks are reached |
| RegisterBitfieldsProofs | `ResultAlwaysWhole` | `Spec => []TheResultIsWhole`, when callbacks put the bits of their own bitfield only (`~PutsElsewhere`) |
| MemoryProofs | `TableAlwaysExact` | `Spec => []TableIsExact` (Spec of MemoryContentObservers), for a memory of any size and any ranges |
| MemoryProofs | `NoAccessEverMissed`, `NeverCalledAfterUnregister` | `Spec => []NoAccessIsMissed`, `Spec => NoCallAfterUnregister`, for any observers, accesses and depth of nesting |
| FifoProofs | `FifoKeepsItsPromise`, `FifoPushTellsTheTruth`, `FifoFlagsCanBeReliedOn` | `Spec => KeepsItsPromise` (the refinement of BoundedQueue), `[]PushTellsTheTruth`, `[]FlagsCanBeReliedOn`, for any sizes and levels, calls inside each other without limit and any callbacks within `Contract` |
| MemoryProofs | `WatchedNeverHeld` | `Spec => []WatchedWordsAreNotHeld`, when nobody asks for direct access from inside a notification (`~RequestsInside`) |
| MemoryProofs | `CallbacksAlwaysRun` | `TreeSpec => []EveryCallbackRuns` (TreeSpec of ToplevelMemory), for any tree of aliases that count words of the memory (`WordSized`), wherever they lie; the property leaves out accesses for which a callback is on or inside an overlooked alias |
| MemoryProofs | `HeldWordsNeverNeedAnyone`, `TablesStayCurrent` | `TreeSpec => []HeldWordsNeedNoOne`, `[]TablesAreCurrent`, for any tree of aliases that count words of the memory (`WordSized`), and for aliases of any widths when callbacks are set for both kinds of access together (`BothKinds`) |
| DmiPathProofs | `GrantsAreNeverStale`, `RefusalsAreNeverStale`, `OffStaysOff` | `Spec => []NoStaleGrant`, `[]NoStaleRefusal`, `[]OffMeansNoDirectAccess`, for any sizes of router and memory, any mappings within them and any number of handlers (`PathAssumption`) |
| SocketProofs | `BindingInvariance` | `FtSpec => []BindingInv`: how handles, exports and ports are related, for any hierarchy of sockets and any order of bindings |
| SocketProofs | `CommandsArrive`, `ClocksStayAgreed` | `FtSpec => []CommandsFollowTheCalls`, `[]ClocksAgree`, for any hierarchy in which two sockets around one target's socket must both be bound (`NoIdleTwins`) |
| SocketProofs | `ForwardPointersStayRight` | `FtSpec => []ForwardPointersAreRight`, under the same hypothesis, when no intercept is asked for before the end of elaboration (`~EarlyIntercepts`) |
| SocketProofs | `OneAtATimeAlways`, `TypesAlwaysHold` | `Spec => []OneAtATime`, `[](TypeOK /\ Len(handles) <= 2)`, for any transactions, when `~Eager` and `~Nested` |
| SocketProofs | `SocketImplementsService` | `Spec => Service!Init /\ [][Service!Next]_(Service!vars)`, the safety part of the refinement of TransportService (`ServesEachOnce`), under the same hypotheses |
| DmiPathProofs | `RangesNeverMeet`, `TypeCorrect` | `Spec => []RangesAreDisjoint`, `[]TypeOK` |
| ClockProofs | `Implements` | `TimerSpec => Promise`: each step of the timer is a step of TimerService or leaves its state unchanged |

**Tick engine.** The inductive invariant is `IndInv == TypeOK /\ CacheInPast /\
Phases /\ ProcessedIsCounted /\ ProcessedIsGone /\ RequestsAgree /\ RootArmed`.
`RequestsAgree` alone is not inductive: a cancellation in the middle of a tick
changes one list while the node being processed has already left it, so the
invariant has to say that the processed tick is not in `mNodes` any more
(`ProcessedIsGone`) and that its modules are exactly those still to be called
(`ProcessedIsCounted`). A request inserts a node relative to the current count,
which is positive and never falls only because the remembered tick lies in the
past (`CacheInPast`). `Phases` separates elaboration, waiting and processing.
The arithmetic part is three lemmas: a nonempty set of naturals has a minimum,
it is unique, and whole periods in a span of time are bounded by the span.
`StepIndInv` has one step per action, each split by conjunct.

The properties about time need a second invariant, `GridInv`, proved relative to `IndInv`. The ticks of the present
parameters form a grid, `TimeOf(c) == mOffset + (c - Before - 1) * mPeriod`, where `Before` is the number of ticks that
were counted when these parameters came into force, and `TicksTo(x)` counts the times of the grid up to x.
`GridInv` says that the remembered tick lies on the grid with its count (`CacheOnGrid`), that each trigger is notified
for the time of its node's tick or, at the end of time, never (`TriggersOnGrid`), that pending requests are for ticks to come or
for the one whose method is to run (`RequestsAhead`), and that the method runs at the time of its tick (`TickInProgress`).
`TicksExact` and `TriggersOnTime` compare with a count of ticks one by one; the lemmas on whole periods turn the count
into a difference of `TicksTo`, and one lemma per operation shows what the grid does under it: a change of the parameters
begins a new grid and notifies the root again, everything else leaves `Before` as it is.
The three hypotheses are needed or idle: with a late cancellation the tick method finds no node, with a late
creation the counts differ (both in section 6), and `StopsEarly` (two periods of slack between `EndOfSim` and
`MaxSimTime`) says that the simulation is over before the largest representable time, next to which the engine gives up
notifying. The cfg satisfies all three. For the refinement, `RequestsAhead` is what shows that no tick
passes over a pending request.

**Clock signal.** In each period a clock goes through seven phases, one for each place its edges can be in: notified for a time
(`Low`, `Up`), waiting in the edge method (`RiseDue`, `FallDue`), waiting in the update (`Rising`, `Falling`), or put off
to the next delta cycle because a change of parameters came together with the start of a period (`Deferred`). `ClockInv` says
that each clock is in one of them, and ties the place to the time: with `Started` the number of periods since the last change,
`NextStart` is the time of the grid that the next one starts at. No property of the signal is inductive without that, since what
the signal should be is computed by division and what it is comes from edges that add half periods. `Requested` says that each
edge and each change has asked for an update, `KernelPhases` that the two phases of a delta cycle do not mix, and
`SourceRestarts` that a changed source restarts ahead. Periods, offsets, ancestors and next starts are recursive functions
on the tree of clocks; that such functions exist and have values of their type follows from the tree having no cycle
(`ClockAssumption`: the code builds a divider from an engine that exists), in the lemmas `Recursion` and
`TreeInduction`, by the least rank of a clock without. `Inverted = {}` is needed: the first two properties fail for an inverted clock (section 6).

The alignment of dividers has an invariant of its own, `AlignInv`, proved relative to `ClockInv`. `Linked` says that the next period of a divider
is the next of its parent and k whole periods further, and that k is what is left of the multiplier when the periods that
were counted are taken off (`Left`), or more where periods were lost in double, which can only happen if the multiplier is not `Exact`; `Remembered` says the same of
what `get_next_parameters` would compute from the time
passed (`WholePeriodsLeft`: the truncating division loses the part of a period and nothing more; `RoundedPeriodsLeft`: with `RoundedDown` it is
no less, and equal for an exact multiplier), or has kept
from before the parent was stopped. Hence the divider is never early, and exact for exact multipliers. Everything but `AdvanceTime` leaves the count alone, and a setter of the divider gives it up. With
a divider of a divider this is false (section 6), since `get_next_period_start_time` of a divider whose change is not taken over
yet answers from `mRemainingMasterPeriods` without looking whether it is known; hence the hypothesis `Flat`. TLC checked `AlignInv` on the
instances of MCClockEngine.

**Timer.** (In the same module, as the two belong to the clocks.) `TimerInv == TimerTypeOK /\ Untouched /\ PendingMeansAlarm /\ CallbackState /\
RequestBelongs /\ Counting /\ StoppedAtAlarm`. The key is `PendingMeansAlarm`:
`mCallbackPending` holds exactly while the alarm of the present instant has been
accounted for but not served, which ties the lazily updated members to the
pending request; `StoppedAtAlarm` is what makes `resume_stopped` (which does not
refresh the cache) right. The theorems assume `~ElaborationCalls`, because for
timers used earlier the statement is false (section 6). The
refinement proof has one lemma per operation.

**PEQ.** `IInv == PeqType /\ NoLostWakeup`: the property is inductive once it says of the request that it is for no
past tick. Each operation either asks again, and then `ScheduleAsks` says that the request is for the later of the first
arrival and the unblocking, or leaves a request that is early enough: `get_next` and `remove` take visible payloads only,
whose request is for this tick or the next at the latest, and `notifyAt` puts a payload behind the first one otherwise.
That the list is sorted is not needed: the argument looks at the first payload only. It is a theorem of its own,
with `OrderInv` as its invariant (in order, and numbered below the next payload): the place that `notifyAt` finds is a
count of payloads, and since the list is sorted those counted are its initial segment
(`InitialSegment`, by the least index outside), so that the new payload goes behind all that arrive no later and
before the others. `RequestsNeverNegative` is a step of its own beside `IInv`: `TicksToSkip` counts from the present tick
to one that is never earlier, as long as `unblockAt` names no past tick.

**Registers.** `IInv == ConfigInv /\ PostsInstalled /\ AccessInv(access, store)`. `CallbacksAreReached` is not
inductive by itself: the flags of the user, the bitfields and the post-write callbacks decide together what is
installed, so `ConfigInv` says what each of the flags means. The properties of accesses are
proved bit by bit: `AccessInv` says of one bit (`BitPending`, `BitDone`) which bitfields it was given to, given how far
the walk has come, and where its value is. The argument is that a bit that was taken is out of the mask of the
rest of the walk, and that a bitfield that is asked owns the bits it is given; nesting enters through
`WalkAssumption` (inner bitfields come before outer ones, neighbours do not overlap) only. `Undisturbed` restricts the
statements about who *answers* to accesses during which nobody changed callbacks. The induction over the
walk is the one over the steps of the access: the model asks one bitfield per step, so that no recursion is needed.

**DMI table.** `TableInv` says that the list is a table (`IsTable`), grants what was not denied (`Grants`), and is
the cleared table whenever it counts as cleared, which is why `clear` may leave it alone. That the ranges are in order and
that each index is in one of them would follow from their being adjacent, by an induction that is out of
reach; `IsTable` carries both along instead. `disable` is proved in three parts: `LeftPart` and
`RightPart` are summarised by what they leave of the table (`IsLeft`, `IsRight`: a prefix or suffix,
cut off inside a range that is allowed), each in the three ways the code can take, and `Joined` puts a disabled range between
any such two parts.

**Content observers.** `ListInv` says of every access in progress (`Follows`) that its loop goes through the list itself,
that those who are settled are in the list and registered, and what was told so far. What makes it inductive is
that the list does not change while a notification is in progress (`Changing`: only the copy does), so that a new registration adds to the copy what no loop in progress
visits, and that at the end of the outermost notification nobody is left to whom
the old list matters. The lemmas about `ObserverList` say this of each of its operations; there is one lemma
per action (`BeginKeeps` to `UnregisterAllKeeps`). `HeldInv` adds that while pointers are in use the words of everybody
registered are out of the table or on their way out of it: a registration ends the use of pointers, and a request outside of
notifications sees no copy. Inside of a notification it would, which is the counterexample in section 6; together with `TableInv`
the range an initiator is granted holds no such word.

**Memory and aliases.** (In the same module, as both memories use the lemmas about `MemoryDmi`.) Of a tree the proofs use that every set
of aliases has one whose parent is not in it (`TreeAssumption`: an alias is created in an object that is there
already), which takes the place of induction: an alias that lacked a property would have a topmost one that lacks it
(`Topmost`), or a lowest (`Lowest`). Ranges are nested along a way up (`Nested`) and the children of an object lie apart (`Siblings`), so that
of two objects with a common word one lies in the other (`Comparable`), and the innermost object that holds an access is above
exactly those that hold it (`InnermostHolds`). *Callbacks*: `GoesInto` says that `get_alias_range` misses no child
that the access touches and does not overlook, and `Refined` carries that down
the tree: a callback below the innermost object is seen by `HasRefinedBehavior`, the access is unrolled, and each of its words is
looked up by itself (`WordAnswered`). `EveryCallbackRuns` then holds of any callbacks whatever, and needs no invariant.
*Direct access*: the invariant is `TreeInv`. While pointers are in use the tables are those that would be computed from the
present callbacks, switches and observers, i.e. no operation changes one of these without invalidating; while they are not, nothing is
held; and what is held needs nobody. `ComputedIsExact` says that a computed table refuses exactly the words of refusing
objects. The fold that computes it has its recursion hidden in `FoldSet`, where TLAPS cannot unfold it: that a function with this recursion
exists, and only one, is proved over the finite subsets (`SolutionExists`, `SolutionsAgree`, by a smallest counterexample),
and `FoldIsExact` adds one object at a time with `DisableIsExact`, the lemma about `disable` from above. The sizes need care: the code takes the size
of an alias in its own words for one in words of the memory (section 6), except where both kinds of access are allowed above it.
Under `BothKinds` one kind is refused exactly where the other is (`Balanced`), so that the wrong sizes are never
used; under `WordSized` they are not wrong. One of the two is assumed, and the run's tree satisfies `WordSized`.
TLC checked `TreeInv` on the run's tree and, with `Together`, on the one with wide aliases.

**Fifo.** A step of a call is a chain of operators on one record (`Now`: contents, flags, frames, answer), so the
invariant `MInv` is stated of such a record and holds of those in the middle of a step too; `Done(m, r)` says that a
step leads from `m` to `r`, keeps `MInv` and changes the contents as BoundedQueue has it (`Moves`), and there
is one lemma per operator and, from these, one per action. A frame says by its place what it knows of its own
call (`ShapeAt`: how often its element was added, what it will answer) and what it relies on
(`FitsAt`: room that was made, elements that were found). What a frame relies on can only be disturbed by the calls inside
it, which is where `Contract` comes in, and nothing else of `Reenter` is used: the theorems say how much freedom callbacks
have. Flags are right except at places where elements were moved since (`Unsettled`), where the code
computes them again before it uses them. The least obvious clause is the one of `insufficient_elements`: while its callback
waits the fifo may be empty for a moment, when a push inside it pops to make room, but never when the callback returns.

**DMI path.** `AnswerFacts` says what an answer of the router is: a range that holds the address asked for, that would
be the answer for each other address it holds (`SameBlock` for the memory's part, `ClippedFacts` for a mapped range,
`GapFacts` between them), and that tells the truth about the address. The invariant `IInv` is then short: a handler that
may use direct accesses remembers only ranges that would be answered now, no two of which meet (`AllCurrent`), and
one that may not remembers the single refusal of everything. What makes it inductive are the flags: a
handler remembers something only while the router's flag is up, and something of a mapping that reaches into the memory only while
the memory's is (`IsCurrent`), so an invalidation that stops at a flag leaves nothing stale. A change of the memory that
no mapping passes on changes no answer either (`BeyondTheMemory`, `OtherWordsStayCurrent`); that the memory
answers from its table is as good as answering from what it grants while its flag is up (`TableIsCurrent`).

**FT sockets.** `Wiring` says of each socket what its handles mean, in whatever order the bindings came: an export comes from one
implementer and is handed up along `child` (`ExportsAt`); the port of a socket is bound to the ports of those whose `child` it is, and
`parent` is one of those (`ParentsAt`); peers are bound to each other's interfaces, and when a target's
peer handle was taken by a second initiator, that one brings another interface (`PeersAt`). `NoCycle` says that
every set of sockets has one whose handle leads out of it, which is all the proofs need to know of a hierarchy: it is inductive because a
socket that becomes somebody's parent was untouched, and a walk ends because of it. Everything about walks is proved with one lemma (`ReachedWithin`:
a walk stays in a set that no step leaves). `ExclusiveHasATarget` is the core: on a way that CHECK_MULTI_BINDING
clears, initiators hand up the initiator's export, targets have its interface, and each step has a step back
(`UpFromAChild` for the targets, where a second parent or a peer of its own would make an interface be reached
twice, which SystemC refuses, or not be sole). `SoleTarget` names the two ends; `ForwardAt` and `ClockInStep` are about them only, since nothing else that is set or asked for
comes to either (`ImplementersFirst`, `WalksAreBound`). The hypothesis `NoIdleTwins` excludes the counterexample of section 6.

**Simple target socket.** `OneAtATime` is about what the two sides see; whether it is kept depends on which events are
still notified and who waits for them. `IInv` treats the two ways the target can be called separately. *A target called
through nb_transport_fw* (`Blocking`): `b2nb_thread` is the only process that calls, and `RequestOut` says that the request the target has
not ended is the one the thread waits for, from the call until `m_end_request` is notified, and
that the event is notified once and for nobody else: that is what a third request sent early would contradict. `Queued` keeps
`m_peq` apart from what was sent, `CallerWaits` gives each thread in `b_transport` one notification of its own end. *A target called through
b_transport* (`Nonblocking`): at most one thread is on its way from the call to the initiator (`Busy`) and at most one is
with the initiator or waits for the end of its response (`ResponseOut`), hence two threads are enough for any number of transactions. A
suspended thread is told from a busy one by its place among the runnable processes, since `m_trans` is written before
it wakes up and `trans` after. The hypotheses `~Eager` and `~Nested` exclude the two counterexamples of section 6.
The refinement goes step by step: one lemma for the steps of each of the two ways, one for the threads, and the kernel's
steps change nothing the service sees. That each transaction is served *at last* is the part TLC checks.

*Only model-checked*: the port adaptors (`BaseProtocolKept` and `NothingIsForgotten` hold in the setups of the run and not in
the others of section 6, and relate nearly all of the adaptors' state); liveness (`DueIsServed`, the fairness part of
`ServesEachOnce`) and everything else temporal beyond invariants and step simulation. TLAPS here cannot do
liveness under fairness or ENABLED. The library's induction theorems cannot be used with the provers installed; where an argument
over a tree or a set needs induction, it is done by a smallest or topmost counterexample. The provers lose arithmetic in modules
with RECURSIVE operators; no module here has one.

## 6. Where the code and its documentation disagree

The models show the following with other constants or another property than the runs.
Each line says what to change in the configuration (INVARIANT, if nothing else is said) to see TLC's
counterexample. In the properties that hold, the constants exclude these situations, and the
comments at their declarations say so.

| Property, configuration, change | What happens |
|---|---|
| `MethodFindsANode`, TickCallbackEngine.cfg, `LateCancel = TRUE` | cancelling the only request of a tick in the instant of that tick, before the tick method has run, leaves the method without a node: the assertion at `tick_callback_engine.cc:347` fails (cancellation at `:549`) |
| `UpdateHasAnEdge`, ClockEngine.cfg, `OneClock`, `OneParent`, `NoStartMultiplier`, `Inverted = {source}` | an inverted clock that is reconfigured has no edge to drive at its first period: the assertion at `engine.cc:190` fails |
| `AlarmAccountedFor`, ClockedTimer.cfg, `ElaborationCalls = TRUE` | a timer started in elaboration whose alarm falls on time 0 does not count that alarm (`clocked_timer.cc:73`) |
| `NoCallbackIsOverlooked`, ToplevelMemory.cfg | a burst that begins before the first of several aliases misses the callback of the second (`find_alias.h:114`) |
| `DividersExactlyAligned`, ClockEngineRounding.cfg | with multiplier 22, or 49 and others, a whole number of parent periods that have passed is truncated to one less when the parent changes: the divider is one parent period late (`divider_configurator.cc:155`) |
| `EitherSideMayBind`, FtSockets.cfg | `target.bind(initiator)` leaves the initiator without a forward pointer, although "target_socket.bind(initiator_socket) will also land up here" (`ft_initiator_socket_impl.h:156`; the target's own function is `ft_target_socket_impl.h:159`) |
| `ForwardPointersAreRight`, FtSockets.cfg, `EarlyIntercepts = TRUE` | an intercept asked for before `end_of_elaboration` is replaced by the bound interface (`ft_target_socket_impl.h:117`) and refused when asked for again |
| `CommandsFollowTheCalls`, FtSockets.cfg, `TwinTargets`, `TwinOptional`, `TwinEncloses`, `TwinConstruction` | of two sockets bound to one target's socket, one of which stays unbound as its port policy allows, the one bound last is the parent handle: no command of the target reaches the initiator through it (`ft_target_socket_impl.h:548`) |
| `WatchedWordsAreNotHeld`, MemoryContentObservers.cfg, `RequestsInside = TRUE` | `disable_dmi` reads the list that a notification keeps unchanged: who asks for direct access before the notification ends is granted words that a new observer watches (`memory_content_observers.cc:238`) |
| `TheResultIsWhole`, RegisterBitfields.cfg, `PutsElsewhere = TRUE` | what a callback puts in bits that are not its bitfield's is overwritten with the register's value from before (`reg.h:834`) |
| `PostWritesAreReached`, RegisterBitfields.cfg | when the last write callback of a register's bitfields is removed, or the user's own one, the memory callback goes too, and the post-write callbacks that are still set are silent (`reg.cc:368`; `mHasBitfieldPostWriteBehavior` is not looked at) |
| `FlagsAsDeclared`, Fifo.cfg | `insufficient_elements` is not what its declaration says (`fifo.h:54`) and a fifo without limit can have the flag `full` ("can never be full", `fifo.h:205`) |
| `OneAtATime`, SimpleTargetSocket.cfg, `Eager = TRUE` | a target that responds in the delta cycle in which its END_REQ woke up the thread notifies `m_end_request` once more; the notification wakes up the thread while it waits for the end of the next request, and a third one is sent before (`simple_target_socket.h:131`) |
| `ServesEachOnce` (PROPERTY), SimpleTargetSocket.cfg, `Nested = TRUE` | a target that sends BEGIN_RESP from inside its `nb_transport_fw` and returns TLM_ACCEPTED is too early for `m_current_transaction`: the thread waits for an end of the request that was there already, for ever |
| `DueIsNeverCancelled`, ClockedPeq.cfg | `clocked_peq::get_next` and `block` cancel the request of the tick in progress (`clocked_peq.h:171`), which leads to the state of the first line or, from a callback of the tick, to the abort at `tick_callback_engine.cc:532` |
| `RequestsNeverAbort`, ClockedPeq.cfg, `PastTicks = {1}` | `unblockAt` of a past tick aborts when a payload is waiting (`clocked_peq.h:255` documents it as the next tick) |
| `TicksExact`, TickCallbackEngine.cfg, `LateCreation = TRUE` | the engine is created on first use and counts ticks since a parameter change, not since the start of simulation (`scml_clock_if.h:54`) |
| `DelayZeroIsNow`, TickCallbackEngine.cfg | during elaboration `get_tick_count()` is 0 and `get_tick_count(SC_ZERO_TIME)` may be 1 (`scml_clock_if.h:63`) |
| `IdleLevel`, ClockEngine.cfg, changed as for `UpdateHasAnEdge` | a disabled inverted clock idles at 0 (the manual says 1) |
| `DividersAligned`, ClockEngine.cfg, `ThreeClocks`, `ThreeParents`, and `MirrorsItsParent`, the same with `NoStartMultiplier` | a clock derived from a divider that updates before the divider computes a wrong first period |
| `StateOfTheBeginning`, ClockedTimer.cfg | `resume_stopped` shows in `get_state` within the instant (`clocked_timer.h:115`) |
| `HeldWordsNeedNoOne`, ToplevelMemory.cfg, `WideOffset`, `WideWidth`, `WideWords`, `Top = 8` | the size of a wide alias is not scaled when only one kind of access is allowed above it (`toplevel_memory_base.cc:396`) |
| `EveryCallbackRuns`, the same with `CallbackKinds <- Together` | a burst that touches only the second half of a wide alias misses its callback (`find_alias.h:134`) |
| `KickedWhenReady`, PortAdaptors.cfg, `Setups <- TargetSetups` | `push_state` runs the state machine only if the channel of the new state is free; the end of the request queued with it waits for the response of another transaction (`tlm2_gp_target_port_adaptor.cc:364`: "will be kicked if the event can be processed immediately"); the initiator's adaptor keeps it |
| `WithinCapacity`, PortAdaptors.cfg, `Setups <- TargetSetups` | a `b_transport` takes no outstanding entry and gives one back when it completes: afterwards two nb_transport transactions are in progress with a capacity of one (`tlm2_gp_target_port_adaptor.cc:220`: "to respect capacity"); the initiator's adaptor keeps it |
| `NoCallbackInApi` (PROPERTY), PortAdaptors.cfg, `Setups <- EndObserved` | `update_transaction` that completes a transaction invokes the AFTER_TRANS_END callback before it returns (`port_adaptor_impl.cc:774`: "must not invoke any callbacks on the user model until after we return") |
| `ThreadsReturn`, PortAdaptors.cfg | a thread in `b_transport`, `read` or `write` waits for ever when a new transaction claims its payload_info between the completion and the delta cycle in which the thread wakes up (`target_port_adaptor_impl.cc:163`, `initiator_port_adaptor_impl.cc:211`) |
| `NothingIsForgotten`, PortAdaptors.cfg, `Setups <- SendsAtTheEnd` | an initiator that sends the next transaction from the callback of the end takes the outstanding entry that was just given back (`initiator_port_adaptor_impl.cc:368`), while the transaction in front of the request channel waits for one: the new one queues up behind it, and neither is ever sent |
| `BaseProtocolKept`, PortAdaptors.cfg, `Setups <- TargetCompletes` | after a target has answered BEGIN_REQ with TLM_COMPLETED it is sent an END_RESP (`tlm2_gp_initiator_port_adaptor.cc:441`: "mark payload as complete so no further states are sent to target"; the statement that would do so is commented out) |
| `TheModelDecides`, PortAdaptors.cfg, `Setups <- EndAndResponse` | a callback of the end of a request that was put off answers TLM_UPDATED after the response has arrived: `in_cb_peq` advances the state of now, and the transaction ends before its response callback was invoked or before the model has updated it (`port_adaptor_impl.cc:451`); it holds in the setups of the run |

What the fifo's callbacks must not do (`Reenter` in MCFifo.tla; widening it at the place named gives TLC's
counterexample):

| Place and operation | What happens |
|---|---|
| `forced_pop`, `forced_item_popped`: push or resize | room was made and is taken by somebody else: more elements than the limit (`KeepsItsPromise`) |
| `new_item_overwrite`: push and pop | the element is added twice (`fifo.h:210`; `PushTellsTheTruth`) |
| `overflow`: change of the style to flex | treated as full although it has no limit (`KeepsItsPromise`) |
| `insufficient_elements`: pop or clear | the pop goes on with an empty deque (`FlagsCanBeReliedOn`) |
| version 1, `new_item_available`: anything but pop and clear; `almost_empty`, `almost_full`: anything | the item is announced before it is pushed, or the check is out of date (`KeepsItsPromise`) |

Seen while reading and not expressible in a model of this size: `forced_pop` passes a reference to an
element that is removed while it is in use; a fifo of size 0 with OVERWRITE pops an
empty deque; the tagged variant of `simple_target_socket` has a default constructor
(`simple_target_socket.h:592`) that leaves `m_current_transaction` uninitialised.

## 7. What is not modelled

Data (stored bytes, payload contents, logging text, names); debug transport; callback adapters (thousands of lines of overloads
that differ in a type); the GP target adapter and initiator socket; the protocol
engines; the modelling objects but the fifo; logging; the legacy `ModelingObjects` and `PV`
trees; build files. Each is a component in `PROJECT.json` with its reason or
with the part of the plan that will model it. Floating point in the dividers'
alignment is integer arithmetic with the periods it loses as a constant (`RoundedDown`); offsets and duty cycles in double, and
multipliers that are not integers, are left out. Memory management (pools, reference counts) is
left out everywhere, but for the pool of payload_infos and the payloads held by the target of a
simple target socket.
*Port adaptors*: times and the legacy capacity scheme, unique transaction ids, transactions with the
ignore command, attributes changed while transactions are in progress, direct and debug accesses, and
initiators that answer `nb_transport_bw` with TLM_COMPLETED before the response.
*Registers*: restrictions, the enumeration decoder, callbacks that sync, and accesses to the register from inside its
own callbacks. *Fifo*: `max_nr_elements`, `peek`, `front` and `back`. *Sockets*: the plain TLM sockets, forwarding of transactions,
calls that the simple target socket passes on without conversion, its debug and DMI calls, and its tagged
variant (the same code over again). *Observers*: the owner of mapped-range observers, ids of callback observers, the old values kept for
put callbacks.

The share of the repository's lines that the map names is small: most of the 700 files are vendored or legacy trees,
protocol attributes, and overloads of the same function for other types, of which the
model has the one behaviour they share.

## 8. Plan

Done: TickCallbackEngine + TickService + proofs, ClockEngine and ClockedTimer +
TimerService + proofs, ClockedPeq + proofs, MemoryDmi + proofs, ToplevelMemory + proofs, DmiPath + proofs,
PortAdaptor with TargetPortAdaptor and InitiatorPortAdaptor, ObserverList + MemoryContentObservers + proofs, RegisterBitfields + proofs, Fifo + BoundedQueue + proofs, FtSockets + proofs,
SimpleTargetSocket + TransportService + proofs.

Next, in this order:

1. **The two port adaptors facing each other** (abstract specification: TransportService).
2. **Modelling objects**: timer, command, process, which call back as the fifo does.
3. **Services**: callback observers with ids, thread pool, resource, status registry, logging registry.
4. **Signals**: reset, pin, clock protocol engines, quantum keeper.
5. **Legacy**: scml_post_port and the SCML1 memory operations.

Proofs to add: the parts of `BaseProtocolKept` of
PortAdaptors that hold whatever the setup.

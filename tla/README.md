# TLA+ models of the Matter stack

These modules describe the parts of the Matter (CHIP) stack on which everything else
rests: the counters that keep messages fresh, the table of secure sessions, the exchanges
that run over them, the credentials of a device's fabrics with the commissioning that
installs them, and the engine that reports data to its clients. TLC checks every module
on small instances; TLAPS proves the most important results about counters, sessions,
exchanges, fabrics, commissioning and reporting for every size. `PROJECT.json` lists
components, runs, mutants, the map from definitions to source lines, findings, hazards and
theorems.

How to read it: start with section 1 (what the system consists of), then section 3 (how
each module corresponds to the code). Sections 4 to 6 say what was checked and proved,
section 7 what was not. Paths below are relative to `src/src/`.

## 1. Inventory

All of the code below runs on one thread per node, the Matter event loop. A message, a
timer or a scheduled lambda starts a handler that runs to its end. So the unit of
interleaving is the handler, and what makes the code hard is not data races but
re-entrance (a handler calls a delegate that closes, sends, evicts), the order of
handlers of *two* nodes, lost and repeated messages, restarts, and full pools.

| Component | State | Operations | What is hard |
|---|---|---|---|
| `lib/support/PersistedCounter.h` | counter, end of epoch, one stored key | Init, Advance, AdvanceBy | a restart between two writes, a failing write, rollover |
| `transport/PeerMessageCounter.h`, `MessageCounter.h` | highest counter and a bit window; last used counter | verify, commit, advance | reordering, replays, jumps of about the window size, exhaustion |
| `transport/SessionManager` | the above per session, peer address | PrepareMessage, SendPreparedMessage, OnMessageReceived | the order of verification, commit and address update |
| `transport/SecureSessionTable`, `SecureSession`, `SessionHolder` | a pool of sessions with states and reference counts; holders | create, evict, activate, mark defunct / for eviction, expire, shift | eviction from inside a handler; the policy at its ties; ids reused |
| `protocols/secure_channel/CASEServer`, `PairingSession` | the session kept for the next handshake, a delegate | listen, Sigma1, finish, fail, restart | its session may be evicted under it; a failing handshake needs a session again |
| `messaging/ExchangeContext`, `ExchangeMgr` | a pool of contexts: flags, reference count, response timer, session | open, send, receive, close, abort, time out | which of three flags closes it; session released under it; unsolicited messages |
| `messaging/ReliableMessage{Context,Mgr}` (MRP) | pending ack per exchange, retransmission table | piggyback, standalone ack, retransmit, give up | duplicates, acks out of order, table full, no buffers |
| `transport/GroupPeerMessageCounter`, `UnauthenticatedSessionTable` | counters and sessions of group and unencrypted messages | as above | rollover, trust-first, entries reused |
| `protocols/secure_channel/{CASE,PASE}Session` | handshake state, background work | Sigma1-3, Pake1-3, resumption | work on another thread returns after the handshake was given up |
| `credentials/FabricTable`, `app/FailSafeContext`, `app/server/CommissioningWindowManager` | committed and pending fabrics, commit marker, fail-safe timer | AddNOC, UpdateNOC, commit, revert, delete | a crash between two writes; the timer against CommissioningComplete |
| Interaction Model (`app/ReadHandler`, `reporting/Engine`, `WriteHandler`, `CommandHandlerImpl`, `TimedHandler`, clients) | handlers, dirty paths, generations, intervals | read, subscribe, report, write, invoke | changes during a report, eviction of subscriptions, timers |
| `app/icd/server/ICDManager`, `protocols/bdx/BdxTransferSession`, `app/EventManagement` | mode and requests; transfer state; event buffers | mode changes; blocks; log, drop, copy | counted requests; block counters; buffers at their limit |

Interaction, bottom up: `SessionManager` looks a message's session up by its 16-bit id,
authenticates it, asks `PeerMessageCounter` whether it is new, and calls `ExchangeMgr`,
which finds or creates an `ExchangeContext`, which deals with acks and calls its delegate
(CASE, PASE, Interaction Model, BDX). Downwards an exchange sends through
`ExchangeMessageDispatch` (which takes the pending ack and enters the message in the
retransmission table) and `SessionManager::PrepareMessage`. Sideways,
`SecureSession::MarkForEviction` and `MarkAsDefunct` notify every holder of a session:
exchanges, pairing sessions and applications. Persistent storage is written by
`PersistedCounter`, the group counters and `FabricTable`.

What makes each correct, in one line each:

- *counters*: no value twice, no message handled twice, nothing new refused inside the window;
- *session table*: references neither dangle nor leak; an allocation always succeeds; an
  eviction costs what is least useful and no fabric its guaranteed sessions;
- *server*: it listens again after whatever happened to its session;
- *exchanges*: each message given to the application once, acks true and current, each
  context closed once, freed in the end, and never used without a session;
- *fabrics*: after any crash a fabric is there completely or not at all;
- *commissioning*: whatever is opened ends: the window, its handshakes, the PASE session,
  the fail-safe;
- *subscriptions*: no change is lost, a report is coherent within a cluster, and whoever
  has something to report is called again.

Hazards, each at its line and with the properties meant to catch it, are in
`PROJECT.json`; those of components not yet modelled carry a note.

## 2. Plan

Order of work. Blocks 1 to 4 are done.

1. **Core (done).** PersistedCounter; PeerMessageCounter and SecureUnicast (which
   extends it); Exchange over two nodes with MRP; SessionIds; SecureSessionTable with
   server, initiators and holders. Theorems on the counters.
2. **Fabrics and commissioning (done).** FailSafeContext, extended by FabricTable (the
   credentials, their storage, crashes between any two writes) and by Commissioning (the
   window, PASE and the fail-safe). FabricStore is the abstract specification that
   FabricTable implements.
3. **Reporting (done).** Read handlers, the dirty set, the engine's Run and the report
   scheduler.
4. **Proofs (done).** Counters, SessionIds, SecureSessionTable, Exchange, FabricTable with
   its refinement of FabricStore, Commissioning with FailSafeContext, Reporting (section 6).
   Every invariant and action property of a passing run that is a theorem is proved,
   except `KeptUnlessOneLingers` and `ReuseIsLate`.
5. **Rest of the message layer.** Group counters with stored epochs and the list of group
   senders; unauthenticated sessions with their counter check; the backoff of
   ReliableMessageProtocolConfig as a function compared with its formula.
6. **Handshakes.** CASE and PASE as two-party state machines with background work; an
   abstract specification of what SecureSessionTable assumes of a pairing session.
7. **Rest of the Interaction Model.** TimedHandler, WriteHandler, CommandHandler and its
   asynchronous handles; which subscription is evicted.
8. **Self-contained machines.** BdxTransferSession, ICDManager, EventManagement.

SecureUnicast serves as the abstract specification of a session's receiver that Exchange
uses: Exchange keeps the *set* of counters received, SecureUnicast proves that the window
decides as that set does.

Each module states a `TypeOK` or the sets its variables range over as documentation and
as the ground for proofs. The runs spend their properties elsewhere.

## 3. Modules and their code

### PersistedCounter
`lib/support/PersistedCounter.h`. State: the stored value, the two members, and history
(values shown, whether a write was lost, whether a sum has wrapped). `Boot` / `BootFails`
are `Init`; `Advance(ok)` and `AdvanceBy(n, ok)` carry the result of the write;
`Restart` may come between any two operations. Arithmetic is modulo `Mod`
(2^32 or 2^64). `PersistNextEpochStart` assigns the member before it writes, as the code
does. Owners use the value also when `Advance` reports an error, so the value is shown
either way.

### PeerMessageCounter and SecureUnicast
`PeerMessageCounter` holds the pure functions of `transport/PeerMessageCounter.h`:
classification, verification and commit for encrypted unicast messages; the window is the
set of bits that are set. Those for group and unencrypted messages, which classify with
rollover, are left to step 5 of the plan.
The module's assumptions keep the window smaller than half the counter range.
`SecureUnicast` puts the unicast operators between a sender
(`LocalSessionMessageCounter`, which stops at its maximum) and a network that may deliver
any message sent, any number of times, from any address. `SecureUnicastMessageDispatch`
is the receive path of `SessionManager` after authentication. A message that fails
authentication is dropped before it touches any state and is left out.

### Exchange
`messaging/`. Two nodes share one session; `Exchanges` is the set of exchanges that may
be opened on it. Per node and exchange, a context holds the flags of
`ReliableMessageContext::Flags`, the reference count, the response timer, the pending
ack counter and the retransmission entry. One action per entry point of the code:
`NewContext` (open and first send), `SendAnnounced`, `HolderRelease`
(`ExchangeHolder::Release`), `CloseAllContextsForDelegate`, `ResponseTimeout`,
`AckTimeout`, `Retransmit`, `GiveUp`, `Receive`, `MarkForEviction`. Inside a step,
methods are operators from a *frame* to a frame and are composed in the order the code
calls them; `Receive` includes the application's reaction in `OnMessageReceived`
(nothing, reply, reply and expect, announce a send, refuse, abort all other exchanges of
the fabric).

Abstractions, and why they are sound:
- The network is the set of all messages sent. A retransmission sends the same bytes, so
  it adds nothing to the set; its effect is the number of tries.
- Standalone acks carry no counter: they are never retransmitted, and a second copy finds
  nothing to clear.
- The receiver recognises duplicates by the set of counters received (SecureUnicast).
- All sends of one handler have the same outcome, except that each one that asks for an ack
  also fails if it finds the retransmission table full of other exchanges' entries.
  `"sent"` stands for errors that `MapSendError` treats as transient, too.
- Timers have no durations: a timer that is set may fire at any time. This includes
  every order the backoff can produce.
- A response timeout of zero (no timer) is left out; all callers in the stack set one.
- `CloseAllContextsForDelegate` is applied to exchanges without an announced send: a
  delegate that has announced one holds the exchange and releases it itself.
- No new session replaces an evicted one.
- Left out: group exchanges, TCP, the table of unsolicited handlers (every message finds
  a handler or is refused), Init and Shutdown.

### SessionIds
`SecureSessionTable::FindUnusedSessionId` and the part of `CreateNewSecureSession` that
concerns ids, with a small id space (`IdSpace` for 2^16, `Bucket` for 64). All
differences are taken modulo the id space, as the `uint16_t` casts do.

### SecureSessionTable
`transport/SecureSessionTable`, `SecureSession`, `SessionHolder`, with what `CASEServer`,
`PairingSession`, `CASESession::EstablishSession` and `PASESession::Pair` do to the table.
A slot holds a session record; `Referenced` is the reference count seen as a predicate:
the reference of `Activate`, holders, pairing sessions, the server's pinned handle and
handles on the stack. Answering an UpdateNOC or a RemoveFabric needs a session of the
fabric whose sessions have just expired: `AbortAllOtherCommunicationOnFabric` marks all of
them for eviction and takes the exchange's own back (`GrabExpiredSession`). Such a session
`Lingers` over any number of handlers, until the answer is acknowledged or given up
(`ReleaseHolder`); messages still pass on it. `Keepers` are the exchanges that may do so.
`Marked` is the walk of `EvictAndAllocate` down the list sorted by
`Keys` (Key1 to Key6 of `DefaultEvictionPolicy`): it marks candidates until one is really
freed. Handlers are again composed of operators on a record of the state.

Abstractions:
- Activity times are a strict order: `earlier[s]` holds the sessions less recently active
  than the one in `s`. Two sessions active in the same millisecond are
  ordered one way or the other by the model, by the sort in the code.
- Handles on the stack live for one step, as they do in the code.
- Of the ways an exchange may come to an end (module Exchange), only that it lets go of
  its session matters here, at any time.
- Sessions under establishment and PASE sessions before AddNOC are on fabric 0.
- The PASE responder allocates in the same way as the PASE initiator; that it notifies
  the commissioning window instead of its caller does not touch the table.
- The queue for lambdas has room (see Observations).
- Fabrics shared by several controllers in one process
  (`ForEachMatchingSessionOnLogicalFabric`) are left out.

### FailSafeContext
`app/FailSafeContext`. The part the next two modules share: armed, busy, the fabric it is
armed for, the NOC commands invoked under it, and the queue of events. An expiry posts
*two* entries, the event that makes the others clean up and the one that ends the busy
state; both are handed out later by the event loop, in order (`HandOut`, external).
Posting is assumed to succeed (the code only logs a failure).

### FabricTable and FabricStore
`credentials/FabricTable`, `PersistentStorageOpCertStore`,
`PersistentStorageOperationalKeystore` and the commands of the Operational Credentials and
General Commissioning clusters that drive them. `mem` holds the members of the three
objects, `stored`, `indexInfo` and `marker` the storage. In-memory effects of a command are
one step; its storage operations are queued in `todo` in the order the code makes them and
are steps of their own (`Write`, `WriteFails`), so that `Crash` and failures fall between
any two. Restart loads the table and cleans up after the marker, and can be interrupted
again. One action per command: `ArmFailSafe`, `ExpireFailSafe`, `CSRRequest`,
`AddTrustedRootCertificate`, `AddNOC`, `UpdateNOC`, `UpdateFabricLabel`, `RemoveFabric`,
`CommissioningComplete`; and per event: `FailSafeCleanup`, `FailSafeDisarmed`,
`MarkerCleared`.

A generation of credentials is a number that key, NOC and ICAC carry, so "the NOC belongs
to the key" is an equation. Left out: VID verification, last known good time, injected
keys, the delegates (ACL, groups), certificate validation. Deleting succeeds. A command that
is refused leaves behind what the code has set by then: the pending index
(`FabricTable.cpp:1617`, `:1647`) or certificates staged for an index that turns out not to
be the pending one (`:1834`), until the fail-safe expires or the fabric is deleted.
`MayAbandon` is FALSE in the passing run: it excludes the CommissioningComplete without a
NOC command that leaves staged data behind, which is the subject of `FabricTable_abandoned`.

`FabricStore` is the abstract specification: per index, nothing or a whole set of
credentials; a step installs a whole set, withdraws one or changes a label. The refinement
mapping `Durable` is what a device that restarts *now* would find: nothing for an index
under the marker or not loadable, else what is stored. `tainted` names the indices for
which the code gives up that promise (a marker write that failed, power lost in the
middle of deleting a fabric); they count as nothing until storage is empty again.

### Commissioning
`app/server/CommissioningWindowManager` with the PASE session and the fail-safe, driven by
`AdministratorCommissioningLogic` and `GeneralCommissioningCluster`. `win` holds the
manager's members; `handler` whether its platform event handler is registered, which
decides whether it hears of an event at all. Actions: opening by an administrator or by
the application, the window's timeout, handshakes that start, fail, time out, are evicted
or succeed, the release of the PASE session, arming, completing, revoking, AddNOC, and the
delivery of each event. A completion that is handed out after an administrator has armed
the fail-safe again expires that fail-safe, as the code does. `ok` is whether advertising starts. A handshake needs two round
trips; the events queued before it have been handed out by its end. CASE commands and
timers come between any two events.

### Reporting
`app/reporting/Engine`, `app/ReadHandler`, `app/reporting/ReportSchedulerImpl`. `changes`
is the history of dirty marks, so a value of an attribute is the generation of its last
change and what a client holds (`sent`) can be compared with it. A Run is `Run` (or the
forced one of `ScheduleUrgentEventDeliverySync`), then a `Skip`, `Report` or `ReportError`
per handler, then `EndRun`; no other action comes in between. The expand iterator walks
through the patterns of a request and, for each, through the data model: a place of that
walk (`PatternAt`, `AttrAt`) is a step if the pattern has the attribute, and `pos` is the
place the iterator stands at. A change in the cluster reported next sends it back to the
cluster it is in, once (`rewound`: the attribute id is then invalid, and making it so again
moves nothing). `Chunks` leaves open where the packet is full: before any attribute or
event that is due. The index of the next
handler, its decrement when the visited handler goes and its reset when another does are
those of the code, modulo a power of two that stands for 2^32. Time is the phase of each
subscription's interval (before the min interval, between, after the max) and what its
timer is armed for. A timer may fire before that moment: `ReportScheduler.h:86` names clock
adjustments as a reason, and neither `TimerFired` nor `IsReportableNow`, once the flag is
set, looks at the timestamps. `MinIntervalIsKept` therefore does not say that the min
interval always passes, but that nothing else than such a timer, set since the last report
(`fired`), shortens it.

Left out: data version filters, chunks within a list, events too big for a packet (the
code skips them), wrap of the generation, access checks, the choice of the subscription
to evict, resumption, SynchronizedReportScheduler, and ReadClient.

## 4. Runs

| Run | Instance | Shows |
|---|---|---|
| PersistedCounter | 16 values, epoch 2, jumps of 7 and 15, starts at 0, 7, 14 and 15, failing writes | no value shown twice before a rollover or a lost write; the stored start stays ahead, also across the rollover |
| SecureUnicast | 8 counter values, window of 2, two addresses | window exact, no replay, a replay never moves the peer address |
| Exchange | one exchange, 3 messages per node, 1 retransmission, failing sends, eviction | delivery at most once, nothing refused as a protocol violation, no entry without a session |
| Exchange_limits | an exchange with the same id in each direction, 2 messages per node, table of 1, pool of 1 at one node, eviction, every reaction | acks on their own exchange and current; no context used after it was freed, nor freed with a timer or an entry; a send that finds the table full, after it took the ack and armed its timer, does no lasting harm |
| Exchange_liveness | 1 message per node, every send outcome, refusing applications, eviction, silent peers | every context is freed in the end, once and with nothing left behind |
| SessionIds | 8 ids, buckets of 2, table of 3 | the bucket search finds the first free id; ids are reused as late as possible |
| SecureSessionTable | 4 entries, a peer with 2 sets of CATs, server, PASE initiator, a holder that shifts, an exchange that may keep its expired session | references, shifts, server restart, an eviction always finds room, what a handshake costs that fails or succeeds |
| FabricTable | 2 indices, 2 slots, 2 generations, 2 labels, 1 failing write, 2 crashes | storage implements FabricStore; no leftovers; memory agrees with storage; clean-up never names a committed fabric; a commit never meets an inconsistent table |
| FabricTable_abandoned | the same without faults, with an abandoned update | *violation*: a NOC is stored with a key it does not belong to |
| Commissioning | 3 fabrics, 3 attempts, up to 4 queued events | window, handshakes and PASE sessions end; whose fail-safe is armed |
| Reporting | 4 handlers, 1 report in flight, dirty set of 2, 6 units of input | nothing lost, clusters coherent, nobody forgotten, min interval cut short only by its own timer |
| Reporting_skipped | the same, 2 reports in flight, no failing sends | *violation*: a Run skips a handler that has a report to send |

Bounds. `Mod`, `IdSpace`, `WindowSize` and `Epoch` are chosen so that every wrap, shift,
reset and epoch end happens, several times and next to each other. `MaxMsgs` bounds the
messages of a node and is the only bound in a guard of Exchange: two are needed for a duplicate of
an old message to meet a newer pending ack and for a failed send after a success, three for
the message after that.
`MaxRetrans` of one gives both a retransmission and giving up. In Exchange_limits the table
of one entry is found full, also by replies that carry an ack, and nothing else makes a
send fail, so that a failed send is one that found no entry (or no session); the other
failures are in Exchange and Exchange_liveness. A table of three entries
holds the pinned session, the one on the stack of the handler, and one that can go; each
exchange that may keep an expired session takes one entry more (`RoomAssumption`), hence
four. The run keeps to one peer and leaves CASE initiators out, to be short; it also passed,
within six minutes each, with a CASE initiator besides (387,717 states), with two peers
(`TwoPeers`, 392,266 states), and with both and one set of CATs (460,424 states). Slots
are symmetric, and the symmetry is used, since that run has no liveness property.
Deadlock is not checked in the Exchange runs: when the messages are used up and all
contexts freed, nothing is left to do; nor in Reporting, where the inputs are used up.

FabricTable: two indices make the next index wrap, collide and run out; an update, an add
and a removal of another fabric can be under way together; the second crash interrupts
the recovery from the first. (The run also passed with three indices.) Commissioning:
with three attempts the limit is met in every mixture of failing, evicted, timed out and
abandoned handshakes; `MaxEvents` bounds how far the event loop falls behind. Reporting: a read or
a change costs one of six units, everything else two (`MaxInputs`), which is enough for
two subscriptions and two changes between chunks, or a subscription, a read, a change and
an error; the first cluster of the data model has one attribute and the second has two, so
that the iterator stops within a cluster and between two; a dirty set of two fills up and is merged by cluster, by endpoint and into one
wildcard, all of which happen.

`KeptUnlessOneLingers` needs more entries than fabrics plus one.

Fairness (Exchange_liveness). Timers that are due fire, since the event loop runs
them: weak fairness of the response timeout, the ack timeout, and retransmit-or-give-up.
An application that has announced a send either sends or lets go of the exchange: this is
the contract of `WillSendMessage` and what `ExchangeHolder` enforces on destruction.
Nothing is assumed of the network or of applications that merely wait.

Fairness (Commissioning). The event loop hands out what is queued, and the fail-safe's
timer fires: its cumulative limit is set by the first arming and not extended by later
ones. Nothing is assumed of commissioners and administrators, nor of the window's timer.

Mutants. Each property of a passing run has a mutated definition in the same module,
marked `Mutant:`, that breaks it under the run's own configuration.

## 5. Findings and observations

Findings with a run: `FabricTable_abandoned` and `Reporting_skipped`; `PROJECT.json` quotes
the lines they contradict.

Observations met while modelling, kept here without a run of their own. Those on counters,
sessions, exchanges and the window were reproduced with TLC at the time.
- `PersistedCounter.h:201`: `PersistNextEpochStart` assigns the member before it writes, so
  a failed write is not tried again before the next epoch ends, and a restart in that
  epoch repeats values (line 174: "Ensure that a new starting point is persisted.").
- `ReliableMessageContext.cpp:165`: when no buffer can be had for a standalone ack twice,
  the next reply carries the ack of an older message, which the peer drops as "a spec
  violation on the other side" (`ExchangeContext.cpp:587`). With "nobuf" among the
  outcomes and two messages TLC shows it in nine states: a duplicate leaves its ack
  pending, and the next new message, which must first push that ack out, is not noted.
  `NoUnackedDrop` therefore speaks of nodes with buffers; the proof shows that nothing
  else leads there.
- `ExchangeMgr.cpp:396`: a message that finds the context pool full is dropped after its
  counter was committed; its retransmission is then acknowledged as a duplicate.
- `SecureSessionTable.cpp:241`: sessions under establishment count as one fabric, and two
  handshakes started at once can evict the session the server waits with, which "should
  *never* get evicted" (`CASEServer.cpp:191`). The server recovers (`ServerWillRestart`).
- `PersistedCounter.h:178`: near the top of the range `mNextEpoch` wraps before the
  counter does. `Advance` then moves the epoch at every step and returns
  `CHIP_ERROR_INTERNAL` until the counter has wrapped as well. `StoredIsAhead` shows that
  restarts stay ahead meanwhile.
- `PersistedCounter.h:46` says counters start at a multiple of the epoch. After
  `AdvanceBy` they need not.
- `ReliableMessageContext.cpp:92`: an ack that arrives after retransmission has given up
  leaves `kFlagWaitingForResponseOrAck` set, so a response timeout marks the session
  defunct although the message was acknowledged. The next message reverts it.
- `ExchangeContext.cpp:248`: an exchange closed while it expects a response has no timer
  any more, so when retransmission gives up neither it nor the manager (which leaves this
  to the exchange, `ReliableMessageMgr.cpp:202`) marks the session defunct.
- `CHIPConfig.h:812` reserves one entry for PASE and one for the server. An outgoing CASE
  handshake has none; with one under way, starting PASE can evict one of three sessions
  of a fabric.
- `ExchangeContext.cpp:669`: nothing limits how many exchanges keep an expired session at a
  time. `CreateNewSecureSession` relies on "We shall ALWAYS be guaranteed to evict an
  existing session" (`SecureSessionTable.cpp:70`), which `RoomAssumption` makes precise:
  more than two entries besides those that linger. With the 17 entries of the default
  configuration that means up to 14 answers to UpdateNOC or RemoveFabric under way at once.
- `SecureSessionTable.cpp:291`: a session that an exchange took back still counts in
  `mNumMatchingOnPeer`. When the ack of a NOCResponse is lost and the administrator
  reconnects while the session it used lingers, in a table that is full, the new session is
  no longer "the only session to our peer", goes ahead in Key3 and Key4 and is marked for
  eviction, without an entry being freed by it, though "we don't want to pick that one for
  eviction, because we just established it" (line 278). `KeptUnlessOneLingers` shows that
  nothing else leads there.
- `ReadHandler.cpp:362`: an urgent event that comes between two chunks of a report sets a
  flag that the last chunk, which does not carry the event, clears; the event then waits for
  another change or for the max interval, though "Urgent event will be sent once reporting
  is not blocked by the min interval" (`Engine.cpp:1231`). `UrgentEventsAreDue` excepts such
  events and shows that the flag is lost in no other way.
- `PairingSession.cpp:340` ignores the result of `ScheduleLambda`. If the queue is full
  when the server's session is evicted, the server never listens again.
  `ServerWillRestart` is shown for a queue with room.
- `CommissioningWindowManager.cpp:664`: when the PASE session is released, the expiry of
  the fail-safe is queued and the handler that would hear of it is removed at once. The
  window stays open without listening until its timeout, though the comment above expects
  the clean-up to make it listen again. RemoveFabric of the fabric a PASE session has
  adopted leads there as well.
- `CommissioningWindowManager.cpp:659` claims that an armed fail-safe belongs to the PASE
  session released. Between CommissioningComplete and its event it can be another's
  (`FailSafeIsPases` states the exception). A window opened in that time is closed by the
  event.
- `FabricTable.h:519`: while an add or update is pending, a label change of *any* fabric is
  kept in memory only; that of another fabric is never stored.
- `RevertPendingOpCertsExceptRoot` drops the root, too, when an add is pending, since it
  deletes the fabric. A failed step after AddNOC's own makes the administrator send the
  root again.
- `FabricTable.cpp:1647` sets the pending index before `AddNewTrustedRootCertForFabric` can
  refuse. If an orphaned root is stored at that index and CommissioningComplete follows
  without a NOC command, the index stays pending with nothing else, and the next
  administrator's CSR for another index is refused until a fail-safe expires.
- A crash in the middle of RemoveFabric leaves orphans in storage; if the next fabric gets
  that index, it finds them. A marker write that fails, followed by a crash during the
  commit it should guard, leaves a mixture. `tainted` excludes these from the properties.
- `reporting/Engine.cpp:926`: the first handler whose report cannot be sent ends the Run;
  those after it wait for a Run scheduled for another reason (`NobodyIsForgotten` excludes
  them). If that handler was the first of the pool, the index is left at 2^32 - 1.
- `ReportSchedulerImpl.cpp:209`: computed after the max interval is over, the timeout wraps
  to weeks. Harmless, since the report that is due resets it. A deferral that arrives
  between two chunks can hold up the rest of a report.

## 6. Proofs

Each component's proofs are in a module of their own, which extends the component's
module. The theorems hold for every value of the constants that the named assumptions
allow; TLC evaluates the assumptions in the runs. Every invariant below was checked with
TLC on the run's instance before it was proved.

**`PersistedCounterProofs`**, from `CounterAssumption` (any width, any epoch between 1 and
the range, any increments) and, for the last theorem only, `EpochIsSmall` (the square of
the epoch is less than the range: 0x10000 of 64 bits for events, 100 of 32 bits for
Check-In messages):
- `CounterSafety`: types, and the epoch check fails only at a rollover or after a lost
  write;
- `CounterNoReuse`: no value is shown twice, over any number of restarts;
- `RestartLandsAhead`: until a write is lost, the next boot starts ahead of the current
  value, by at most the square of the epoch, also while the counter rolls over.

`NoReuse` alone is not inductive: nothing in it ties the stored value to the values shown.
The invariant adds `ShownIsPast`: until a wrap or a lost write, every value shown is below
the stored start of the next boot and at most the current value, and `mNextEpoch` mirrors
the storage. `StepInv` proves the case of a changed epoch once for `Advance` and
`AdvanceBy`. For `RestartLandsAhead` the distance is counted modulo the range; the square
comes from the steps between the wrap of `mNextEpoch` and that of the counter, at most an
epoch of them, each of which moves the stored value by an epoch.

**`SecureUnicastProofs`**, from the assumptions on the window and the session:
- `ReceiverIsExact`: the window holds exactly the counters received, and what is reported
  as a duplicate was handled or is older than the window;
- `UnicastNoReplay`: nothing is handled twice;
- `ReplayCannotRedirect`: only a message not handled before moves the peer address;
- `UnicastNoNonceReuse`: no counter is used twice, nor the one the peer starts from.

`VerdictMeaning` first turns the modular classification into plain arithmetic (no
subtraction of the unicast path wraps); the invariant then needs only the exactness of the
window and `SentIsPast` (counters on the network have been passed by the sender).
`NewMessageInv` is the heart: a commit shifts or resets the window and keeps it exact.

**`SessionIdsProofs`**, from `IdsAssumption` (any id space that is a multiple of the
bucket): `SearchIsAlwaysExact`. The search by buckets, with its mask of the ids seen and its
modular differences, gives the id a search one by one would. Every id is a distance from
the clue; the distances of one bucket are those of its mask, so the first free bit of the
first bucket with one is the smallest free distance.

**`SecureSessionTableProofs`**, from `TableAssumption` and `RoomAssumption` (more entries
than two and the exchanges that may keep an expired session: the pinned one, the one being
handled, and one to evict; the configured size is three per fabric and two). Any numbers of
peers, CATs, initiators, holders and keepers:
- `ReferencesSound`, `AllocationSucceeds`, `ServerRestartIsQueued`;
- `HoldersKeepTheirPeer` and `FailedHandshakesAreFree`, on single steps.

Handlers are compositions of operators on a record of the state, so the invariant is
stated of such a record (`Good`) and there is a lemma per operator. It needs more than the
properties: no two pairing sessions hold the same session, the pin is the session the
server waits with, or else what is left of it (pending, with the restart queued), what
is pending is on the stack, pinned or kept by one exchange alone, and nobody holds the
pinned one. `OneToEvict` counts that an entry is left besides these. `MarkedOK` shows that the walk of `EvictAndAllocate`
reaches an entry nobody holds: by `LexLargest` the keys of the candidates that can go have
a largest element in the lexicographic order of Key1 to Key6, and everything ahead of it
only adds to what is marked. `FailedHandshakesAreFree` follows since the pinned session
has no reference left once the server drops it.

**`ExchangeProofs`**, from `ExchangeAssumption` (two nodes; any exchanges, numbers of messages
and retransmissions, table and pool sizes, send outcomes and conduct of applications):
- `LifetimeHolds`: no context is used after it was freed, freed while open or armed, or
  released twice;
- `RetransmissionsHaveSession`, `AcksTellTheTruth`, `DeliveryIsOnce`.

`Life` ties the flags of a context to its reference count: it is open as long as its one
reference is there, unless it was closed under an announced send, in which case it has
lost its session. `AcksAreTrue` needs that a *pending* ack counter names a message heard
on that exchange, also after `HandleNeedsAckInner` has saved and restored it. One lemma
per method says what it does to a good frame, `FinishOK` carries the frame into the next
state, and each action is a chain of these. `MatchIsExact` uses that there are two nodes:
a context is found by exchange id and role only for the exchange the message is on.

Three more theorems are about the conversation of the two nodes. They assume
`AcksHaveBuffers` ("nobuf" is no outcome; section 5 says what happens otherwise). Sends may
fail, messages may be lost, repeated and reordered, and sessions evicted:
- `NothingIsUnacked`: no message is dropped for want of the ack its receiver waits for;
- `AcksAreLatest`: every message acknowledges the newest one its exchange has received;
- `OpenersAreDelivered`: an acknowledged opener was given to the application. This needs
  also `OpenersAreTaken` (no application refuses or forbids one) and, in every state,
  `PoolsHaveRoom`: in the other cases the code acknowledges what it has not delivered.

None of them is inductive, for each depends on what the *other* node may send. `TalkInv`
says that the nodes take turns: on an exchange a message is answered once at most
(`Single`), the answer of an answer comes later than the first (`Later`), and whoever has
gone on has had an answer and answered it (`Settled`). `TurnOK` ties a context to this: what
it would acknowledge is the newest it has heard, it announces a send or has an ack pending
only when it is its turn, and the message it keeps for retransmission is its last. So a
message new to a node answers its last one (`NewAnswersTip`), clears the retained entry
before the test at `ExchangeContext.cpp:585`, and finds no older ack pending
(`NewsFindsNonePending`), which is why the failure at `ReliableMessageContext.cpp:165` is
never met unless a buffer was missing before. For openers `Told` says that one received
but not delivered met an evicted session, and that nobody has acknowledged it or will.

**`FabricTableProofs`**, from `FabricTableAssumption` (any indices, at least as many as
slots; any generations and labels; any numbers of failures and restarts) and `~MayAbandon`,
as in the passing run; the run `FabricTable_abandoned` shows what goes wrong without it:
- `FabricTableRefinement`: FabricTable implements FabricStore, between any two writes, with
  failing writes and interrupted recoveries;
- `NothingIsLeftOver`, `MemoryIsDurable`: storage and memory agree between operations;
- `CleanupIsSafe`: what an expired fail-safe deletes was never committed;
- `TableStaysConsistent`: the count of fabrics and the next index;
- `CommitFindsWhatItNeeds`: the pre-flight checks of a commit never fail.

An operation changes memory in one step and storage in many, so the invariant has to
describe every suffix of its writes. It names the one index that is being worked on and
the phase: its label is being stored, it is being deleted, a commit is under way, or only
the marker of a stored commit is left. For each phase it says which writes can still be in
`todo`, in which order, and what is stored already; every other index is `Settled`, that
is memory and storage agree about it. Two orders matter: the marker is stored before
anything else of a commit and cleared last, and a deletion removes the metadata first. So
an index a commit or a deletion is at work on is one a restart would not load (`Marked`,
`Deleting`), and the refinement needs one case per phase. Around it, `CleanupInv` ties the
fail-safe's fabric and the queued clean-up to what is pending, since a clean-up deletes by
index and may come after the commit has begun; `ReadyInv` lists what an accepted NOC
command has left in memory and why neither RemoveFabric nor a label of another
administrator takes it away. `CyclicVisitsAll` shows that the search for the next index
reaches every index, so that it ends with none only when the table is full. The attempt
showed that reverting a pending add and deleting its fabric, as the clean-up does, leave no
storage operation for the second deletion, which the model had queued twice.

**`CommissioningProofs`**, from `CommissioningAssumption` (any fabrics, any limit, any length
of the queue): `CommissioningTypeOK`, `WindowAlwaysEnds`, `HandshakeLimit`,
`PaseIsCovered`, `FailSafeIsFree`, `FailSafeOwner`. None of these is inductive, since the
manager learns of most things by an event queued earlier. `QueueOK` says what the queue
can look like (an expiry is followed directly by its disarm, there is one such pair at
most), and `FailSafeInv`, `SessionInv`, `OwnerInv`, `WindowInv` and `AttemptsInv` say, for
each thing the manager does not know yet, which event in the queue will tell it, and that
its handler is registered until then. The attempt to prove it showed an action that the
model had wrongly disabled (a "complete" event handed out after an administrator had armed
the fail-safe again), since corrected.

**`ReportingProofs`**, from `ReportingAssumption` (finitely many handlers; any requests, data
model and limits): `InFlightCount`, `NobodyForgotten`, `UrgentEventsDue`, `NothingLost`, and
`MinIntervalKept` on single steps. The invariant has a part per handler (`HandlerOK`: its
timer is armed for the right moment unless it is due, and in the min interval it is due only
if that timer has fired) and a part about the engine
(`Attended`: whoever is due or priming is on somebody's list: a scheduled Run, the current
one, or the answer to a report when the limit is reached). `PoolInv` counts: the pool
holds each open handler once, and the current Run still visits those it must.

`NothingLost` says that no merging of the dirty set, at whatever size, no change between
chunks and no clearing of the set at the end of a Run makes a client miss a value. It needs
`LossInv` besides. `DirtySetOK` and the lemmas on `InsertPath` say that merging two paths,
those of a cluster, of an endpoint or all of them loses no path and makes none older.
`RecordOK`: what has changed since the generation the handler's last report began with is
on record, in the set and in the handler's own `mDirtyGeneration`. `SentOK`: what differs
from the client's copy has changed since then and, in a report under way, lies ahead of
the iterator or has changed since that report began; that is why the generation must be
taken at its first chunk. The proof attempt also showed that the model had moved the
iterator back a second time where the code does not; it has been corrected (`rewound`).

Only model-checked:
- liveness (contexts are freed, the window ends), which is out of the prover's reach, as
  are ENABLED, induction over data, and recursive operators (the modules use none);
- `ClustersAreCoherent` of Reporting, which is no theorem: it holds for requests in which no
  two patterns meet in a cluster, as in the instance, and the comment on #16699 in
  `ReadHandler::AttributePathIsDirty` says as much;
- `KeptUnlessOneLingers`, which holds only for tables with more entries than fabrics and
  thus counts sessions per fabric;
- `ReuseIsLate` of SessionIds, which counts the ids passed over.

## 7. What is not modelled

`PROJECT.json` gives every component with its status. Apart from steps 5 to 8 of the plan:
cryptography (taken to be ideal), byte encodings, the system layer and the transports (the
lossy network and the one-handler-at-a-time loop stand for them), service discovery, the
commissioner's sequence of stages, clusters and generated code, platforms, bindings,
examples.

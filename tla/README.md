# Verification of AutoLink

AutoLink connects two ESP32 boards over one UART. The boards find a common baud
rate by themselves (the *sweep*), then exchange messages reliably until a
watchdog, a BREAK or too many errors ends the *session* and the sweep starts
again. The code that matters is `src/src/al/link/`: one class `Link`, driven by
UART callbacks (`onRx`, `onBreak`), a one-shot timer (`onTimer`) and the user's
calls (`sendMsg`, `recvMsg`, `flushRx`, ...), all under one lock, `hw.lock()`.

This directory holds TLA+ models of that code, TLC configurations that check
them, and TLAPS proofs of what matters most. `PROJECT.json` maps every
definition to the lines it stands for and lists runs, mutants, hazards,
findings and theorems.

## Inventory

| Component | State | Operations | Interacts through | Hard because of | Correct when |
|---|---|---|---|---|---|
| Sequence arithmetic (`LinkArq.h`, `LinkDecision.h`) | none | `idxOf`, `budgetIdx`, `classifyGap`, re-ACK horizon | called by sender and receiver | numbers wrap at 254 in a `uint8_t` | it agrees with the order of the chunks |
| Retransmit cache (`ArqCache`) | slots, pool, counters, flags | `insert`, `freeBySeq`, `clearAll`, `setWindow`, `peekForRetx` | sender | overwrites, pool at its limit | counters match the slots; a resend sends the original |
| Go-back-N sender (`LinkApi`, `LinkRx::onAck/onNak`, `LinkArq`) | base, window, pending bits, budget | `sendMsg`, `onAck`, `onNak`, resend | ACK and NAK frames | the lock is released between chunks; ACKs are lost, late, of an earlier lap | nothing is released that was not delivered |
| In-order receiver (`LinkRx::onPayload`) | cursor, hold | accept, re-ACK, gap NAK, hold NAK | data frames, app buffer | app buffer full, NAK suppression | every chunk once, in order |
| Sessions (`LinkCore`, `LinkSweepGlue`) | state, epoch, baud | `reset_unlocked`, `lockOk_unlocked` | everything above | a reset may fall anywhere | a new session does not mix with the old |
| Retransmit ladder (`LinkTimersGbn`) | attempts, backoff, stuck clock, keeps | the OK tick | timer, clocks | NAK storms, noise, late timer | a stuck base is resolved |
| Health watchdogs (`LinkHealth.h`) | clocks, mismatch counter | the OK tick | clocks | several horizons race | dead peers are dropped, live ones kept |
| Baud sweep (`LinkSweep`, `LinkTimersSwp`) | phase, baud, counters, epoch | PING, PONG, LOCK, timers | control frames | both boards walk the bauds at once | the boards meet again |
| BREAK handling (`LinkTimerBreak`, `LinkBreak`, HAL) | suspicion, flags | `onBreak`, confirm, storm | timer, HAL events | glitches, flags that outlive a session | a glitch does not end a healthy session |
| SYNC mode (`LinkApi`, `LinkArq::waitForAck`) | the op in progress, pending bit, NAK wake-up, clear epoch | `sendMsg`, `waitForAck`, `syncRtoStep`, `drainTxRing` | semaphore, NAK wake-up | unlock while waiting: ACK, NAK, reset, new session come in | a confirmed message was received; every call returns |
| Messages (`LinkMsgCodec`, `recvMsg`) | partial message, its start | header, body, stale limit, resync scan, `err` | app buffer | messages abandoned half-way | whole messages, in order; the parser never wedges |
| Ping (`Ping.h`, `PingGap.h`) | pipeline, latched gap, retained draw, timers, fill mode | `loop`, `setFillMode`, `setPaused` | `sendMsg`, `isAcked`, `lastNakSeq`; web task | every call into the link locks for itself; numbers are reused | it stops only for real gaps, counts only ACKed messages, and always goes on |
| Rate limiter, statistics, HAL, Pong, log, web, OTA | | | | | see `PROJECT.json` |

## Modules

* `SeqSpace` is the arithmetic on sequence numbers as operators, with the
  relations between its sizes that the code's `static_assert`s state as
  assumptions. `SeqSpaceProofs` proves for every value of them that it agrees
  with the order of the chunks.
* `ArqCache` is the retransmit cache, one action per operation; `MCArqCache`
  names the symmetry; `ArqCacheProofs` has the proofs.
* `GbnLink` is one direction of an ASYNC link: sender, receiver, both lines.
  A handler is one action, because it runs under the lock; `sendMsg` is one
  action per chunk, because it does not. A line is a FIFO that may lose frames
  (the CRC turns corruption into loss) and may lack room. Chunks carry their
  position in the session in place of bytes. Either side may be reset at any
  moment; `NewSession` and `JoinSession` stand for the sweep. `rIsMaster` is the
  role of the receiver's board, because it decides how the receiver starts: the
  slave's `kickoff()` calls `resetSeq_unlocked` and expects number 0 in its first
  session, the master's does not and takes whatever arrives first, as every
  board does in later sessions.
* `ReliableStream` is what `GbnLink` promises; `ImplementsStream` is the
  refinement (accepted = sent, received = cursor, released = freed). Its start
  is `strict` (no chunk is skipped) in the first session of a slave's receiver.
* `GbnFlush` adds `flushRx()` in mid-session.
* `GbnLinkProofs` proves the inductive invariant and what follows from it.
* `OkTimer` is the OK tick of one board against a free peer: the watchdogs
  (`decideHealth` tries them in the code's order), then the retransmit
  ladder. Time is counted in retransmit timeouts; a time stamp is its age.
  `OkTimerProofs` has the proofs.
* `Sweep` is the baud sweep of both boards with an idle link on top: kickoff,
  the three phases, LOCK frames and fallbacks, epochs, the preferred-baud camp,
  the baud upgrade, BREAKs from the HAL's filter (guard and debounce) to
  suspicion and confirmation. A handler is a function from the board's record
  to the record and what it sends; `Receive` and `Timer` apply it. Time is in
  milliseconds, and the clock goes to the next timer once the lines are empty,
  because a control frame takes far less than the shortest timer. A frame is
  understood only at the baud it was sent at. `missed` is a ghost: the peer has
  left the session this board is still in. `Drop` stands for `dropLink` and
  frame errors (FALSE) and for a watchdog over traffic (TRUE).
  `SweepProofs` has the proofs, one lemma per handler.
* `SyncLink` is one direction of a SYNC link from `sendMsg` to `recvMsg`. The
  call in progress is a record (`SyncOp` and the place in the message); its
  actions are the stretches under the lock: `SendMsg`, then `FrameAcked`,
  `WaitNak`, `WaitTimeout` and `WaitReset` for the ways `waitForAck` ends, and
  `Drain` for the wait on the TX ring. The receiver has one action per class of
  frame, `recvMsg` one per outcome; `Err` is apart, since `recvMsg` unlocks
  before it. A header is `MSG_HDR` units and a body frame one; a unit knows its
  message, so a CRC matches exactly when the body is the one that was sent.
  `taint` is a ghost: which frames of the session were given up. A SYNC board
  starts with no receive cursor: the seed of `LinkCore.cpp:90-93` is for ASYNC.
  A call of `recvMsg` that reads a header goes on to the body. How old a partial
  message is is left open: `RecvStale` may come at any call, also while `sendMsg`
  is still at the message (`taint` notes it). `SyncLinkProofs` has the proofs.
* `PingApp` is Ping's `loop()` on an ASYNC link, one action per stretch between
  two calls into the link (`LoopTop`, `GapSample`, `GapDecide`, `GapLatch`,
  `SendGate`, the outcomes of `sendMsg`, `Retire`), and the web task's hooks.
  The link below is what the app sees of `GbnLink`: chunks in flight, the chunk
  the peer expects, `lastNakSeq_`. A message is its number of chunks, a timer is
  off, running or up. `sendMsg` is one step here; `GbnLink` takes it apart.
  `PingAppProofs` has the proofs.

## Runs

| Run | Question | Bounds |
|---|---|---|
| `arq_cache` | Do counters, flags and buffers agree after any operations? | 4 slots, 3 buffers, 2 bodies: pool and slots run out, slots are overwritten |
| `gbn_sessions` | Towards a slave: once, in order, released only when received, across resets; does the link implement the stream? | 5 numbers, window 2, 6 chunks (the space wraps), 1 loss, 2 sessions, rings and app buffer that fill |
| `gbn_liveness` | Towards a master: does the invariant hold, and is everything accepted finally released and read? | 3 chunks, 2 losses, hold-NAK reachable |
| `gbn_late_session` | Is a released chunk delivered in later sessions too? **Violated** | 2 chunks, 1 loss, 2 sessions |
| `gbn_flush` | Does the cursor only advance? **Violated** by `flushRx` | 2 chunks, 1 session |
| `ok_ladder` | Does a stuck base always end? | window 2, 2 retransmissions, watchdogs off, one late tick, one full ring |
| `ok_health` | Dead peers dropped, heard peers kept? | window 1, every verdict but pool exhaustion reachable |
| `ok_repair` | Does a base get a resend before the watchdog drops the link? **Violated** | the default proportions: timeout 1, floor 4, backoff cap 8, idle 20 |
| `sweep` | Do the boards always meet again and notice each other's restarts? | 3 bauds, the code's times, two start skews; 2 losses, or 1 drop or storm, or 1 restart |
| `sweep_camp` | Does a slave camping against a master in OK reach OK? **Violated** | the default configuration with its 6 bauds, 1 loss |
| `sync` | Does a SYNC `sendMsg` confirm only what was received, and return? Does the parser recover? | 2 messages (in one frame, or header and body), 2 sessions, 1 loss, rings of 2 frames, an app buffer of 4 units, one retransmission's budget, resets at any moment |
| `ping` | Does Ping stop only for reported chunks, count only ACKed messages, and always go on? | window 2 over 5 numbers, 3 messages of 1 or 2 chunks, 1 fault (reset, failed send or rejected read), 2 clicks |

Why the bounds suffice: in the link the interesting cases are a wrap inside a
window, a full window, one lost frame of each kind and a full buffer; each
happens with these values. The smallest sequence space that satisfies the
assumptions (2 x window + 1) makes aliasing as easy as it can be. In `OkTimer`
ages saturate one above the largest value they are compared with.
`PoolExhaust` cannot fire: the pool has twice as many buffers as the window.
`ChunkDrain` is 0 (a fast baud) in all runs, so the drain-time terms of the
thresholds are not exercised.

`sweep` has three bauds, the fewest that have a fastest, a slowest and one
between; phase 2 and 3 both have a next baud and a last one. Its
`syncAckTimeoutMs` is 750 instead of 500: with the default the keepalive falls
so that a camp fails for ever, which is what `sweep_camp` shows. Faults of
different kinds are kept apart (`Mixed`), because together they break
`RestartIsNoticed`; see below. With three losses TLC reports `BoardsMeet`
violated; that case is still to be analysed. Phase 1's jitter is left out, as in the host
build of the tests (`AUTOLINK_HOST_TEST`).

In `sync` a timeout is free to come before the ACK does, so ladders are exhausted
without losses; the header, the body and the merged frame can each be given up
and an abandoned message is followed by another. `recvMsg` may find any partial
message stale at any call; it abandons one whose body is complete as well,
because the code looks at the limit before it looks at the buffer. The run takes
about two minutes. A session may end inside a call, and the call may wake in the next one. With bodies of two frames
(`BodyLens = {1, 2}`, `ScanMax = 4`) one session is what fits the time; it passes too. In `ping` the window is
full with one long message or two short ones, numbers are used twice, and a
gap stop, a stall, a cooldown and a retained draw all happen.

Deadlock is not checked in the `gbn_*`, `sync` and `ping` runs, where the bounds
on chunks, messages, losses and sessions stop the system on purpose.

### Fairness

`gbn_liveness`: weak fairness of the frame handlers (the UART task runs), of the
retransmit tick (the timer is re-armed by every OK tick), of a `sendMsg` in
progress, and of a reading application. No fairness for losses or resets.
`ok_ladder` and `ok_health`: time passes and the timer task runs; nothing is
assumed of the peer, the line or the application.
`sweep`: timers fire, frames that are not lost arrive, time passes (weak
fairness of `System`); faults are never fair.
`sync`: the caller's task runs (its waits have deadlines), the UART task of each
board handles the frames that arrive, the app polls `recvMsg`; nothing is assumed
of losses, resets or the sweep.
`ping`: `loop()` is called again and again and time passes. `FlowContinues` has
the link's own progress (relock, delivery, ACKs) as its premise; `StopEnds`
needs none of it.

## What the violations show

* `gbn_late_session`: `resetSeq_unlocked` (`LinkCore.cpp:101`) lets the receiver
  of a later session start at whatever arrives first. When the first chunk is
  lost, the second is accepted and acknowledged cumulatively and the sender
  releases both. The comment there says the gap-recovery path covers this.
  A receiver on the master starts like this in its first session already:
  `kickoff()` goes through `reset_unlocked` (`LinkCore.cpp:281`), which calls
  `resetSeq_unlocked` only when a session in OK has ended (`LinkCore.cpp:533-543`).
  With `rIsMaster = TRUE` the same bounds violate `FirstSessionLossless` in one
  session, although the comment at `LinkCore.cpp:80-87` speaks of the
  "first-ever session" without a role.
* `gbn_flush`: `flushRx()` (`LinkApi.cpp:353`) forgets the cursor, so a
  duplicate on the line is delivered again.
* `ok_repair`: `onAck` clears the backoff and does not re-arm the timer
  (`LinkTimersOk.cpp:609`). After a long backoff the next base waits up to
  8 timeouts for its first tick, and that tick's peer-stalled check, whose
  threshold the cleared backoff no longer raises, drops the link before
  any resend. `docs/Protocol.md:197` says the first RTO is never delayed.

* `sweep_camp`: a lost PING in phase 2 makes the boards walk past each other;
  the master locks the slowest baud by its fallback and the slave, which missed
  the LOCK, camps there when a keepalive reaches it. The camp lasts 750 + 2 x 5000 ms;
  keepalives come every 5500 ms (the first 500 ms tick after more than 5 s), the
  first of them opens the camp and does not count, and the second that counts
  would come at 11 s. The camp ends 250 ms too early, every time, while the
  slave's PONGs keep the master's watchdogs quiet: an idle pair stays half open.
  `LinkTimersSwp.cpp:312-316` says that two keepalives are reachable.

Two more cases the model shows outside the bounds of the runs. With a lost
frame and a drop together (`Mixed = TRUE`) a board may lock slow and take a baud
upgrade: that reset is not counted (`LinkTimersOk.cpp:532`), so the epoch stays, and its
BREAK, sent at the faster baud, may be too short for the peer; when the upgrade
fails the board locks again while the peer never left the old session, which
`PeerResyncOnMissedBreakTest` says must not happen. And with an `idleTimeoutMs`
as short as 1 s, a slave's restart whose BREAK falls into the HAL's guard is
not noticed by a master in OK, because it compares epochs on PINGs only.

## What the SYNC and Ping models show beside the runs

The properties of `sync` that speak of contents hold for sessions in which no
frame was given up and `recvMsg` abandoned no message that was still being sent
or was complete (`taint` is empty). The code does not keep them otherwise, and
says so in part:

* `recvMsg` gives up a partial message by the time since its header
  (`LinkApi.cpp:1059-1077`), the ladder a frame by the time since that frame's
  first step (`LinkApi.cpp:241-247`). At the defaults the limit is 6.5 s and each
  frame may spend 2.5 s, so a header whose ACK is lost and two body frames
  (5 + 5 + 4 timeouts of 500 ms) are enough: the receiver drops the message in
  the middle of its repair, the rest of it is received, acknowledged and lost, and
  `sendMsg` returns true. A longer body (a default `maxMsg` has about 21 frames)
  needs fewer losses per frame. The comment at `LinkApi.cpp:1065-1069` says that a
  message still being repaired must not be abandoned, and that SYNC is bounded by
  the ladder's own budget. A complete message is lost in the same way when the app
  does not fetch it in time.
* When the ladder of a body frame is exhausted, the message is abandoned without
  a reset (`LinkApi.cpp:713-734`). The receiver stays in the partial message, and
  the next message, although confirmed, is read as the rest of it and lost.
  `Link.h:183-206` describes this; `docs/Protocol.md:221-223` says there is no
  message-assembly state to strand "beyond its own per-frame RTO". `BufferDrains` shows that it ends.
* After a given-up frame the receiver takes what follows as a gap and never moves
  its cursor (`LinkRx.cpp:401-455`), so a resend after a lost ACK is delivered
  again, and so it stays until the numbers come round or the link is reset.
* A caller that wakes after a reset and a relock resends its old number in the
  new session, because `syncAwaitAcked_unlocked` asks only for the state, and
  `drainTxRing_unlocked` returns true without asking when there is room.
* `findMsgHeaderResync_unlocked` puts the part it has scanned behind the bytes it
  has not, so with more than a message and two headers in the buffer the order
  changes (the buffer of the run is too small for that).

In `ping`, a reset inside `loop()` makes `isAcked` true for everything in flight,
and those messages are counted as echoes (`CountedWasAcked` is about the running
session). After `GAP_STOP_FORCE_RESUME_MS` one burst is sent, then the same NAK
stops the app again: `StopEnds` and `FlowContinues` hold, at that pace. With Ping
as the only sender the window refuses a draw only when the fill mode changes
between the gate and the draw.

`MismatchHasEvidence` is as strong as the code allows: a session is counted as
mute without asking whether anything crossed in it, so the counter may be one
ahead of the mute sessions.

## Proofs

* `SeqSpaceProofs`: `idxOf` is the place in the window, `classifyGap` is the
  order of chunks, duplicates are within the re-ACK horizon and the chunks of a
  window never share an array entry, for every space of at least two windows
  and one number.
* `ArqCacheProofs`: `CacheInv` (every used slot has a buffer of its own, and
  the counters are the cardinalities) is inductive; the counters never drift, a
  resend sends the original bytes, and `hasRoom()` guarantees storage.
* `GbnLinkProofs`: `IInv` is inductive. The properties alone are not: they need
  to know that the window is the run of chunks from the base to `txSeq`
  (`SenderInv`), that a data frame carries the number of its chunk and is at
  most a window behind (`DataInv`), and that no ACK or NAK on the line speaks for
  more than the receiver has moved past, nor is older than one window
  (`CtrlInv`). From it: in-order delivery, release only of what the receiver
  moved past, the intact window, gapless
  delivery in every session, and the refinement of `ReliableStream`. They hold
  for every window, space, buffer size and number of chunks, losses, sessions, and
  for both roles of the receiver. Losslessness of the first session
  (`FirstSessionLosesNothing`) has the slave's role as its hypothesis, and the
  stream is strict there only; for a master it is false (see `gbn_late_session` above).

* `PingAppProofs`: `IInv` is inductive, and with it type correctness,
  `GapWasReported`, `CountedWasAcked` and `RetainedIsAdmitted` hold for every
  window, sequence space, message size and number of sessions. A stop for a gap
  is decided in three steps (`GapSample`, `GapDecide`, `GapLatch`), each of which
  may be separated from the next by ACKs, sends and resets; the invariant says
  what the sampled number still stands for at each of them (`GapInv`), that a
  queue entry of the running session has the number of its chunk and lies below
  the next one (`QueueInv`), and that a retained draw still fits.
* `OkTimerProofs`: `IInv` is inductive: every age and counter under its cap,
  the backoff that of the attempts, attempts and stuck clock only with a base in
  flight, the mismatch counter at most one ahead of its evidence. `BackoffDoubles`
  shows that the closed form of `decideGbnBackoff` is the loop of the code.
  `HeardPeersAreKept` needs `Horizons`: the configured limits hold at least two
  retransmit timeouts. They do with the defaults at 9600 baud and above, where
  the timeout is at most 530 ms, `idleTimeoutMs` 10 s, the camp budget at least
  3 s and the floor of `healthPeerStalledMs` 2 s. With shorter limits
  the statement is false: a watchdog then fires before a second timeout.
* `SweepProofs`: a handler is a function on the board's record, so each has a
  lemma that it maps a good record to a good one, and `Receive`, `Timer`, `Drop`
  and the faults follow. Good means well-formed, in a phase only while sweeping
  (`Calm`), with a budget only while camping (`Camp`), and, where the waits are in
  proportion, with the next wake-up at most one short wait after the end of the
  budget (`InTime`). `CampEndsOnTime` alone says nothing until the budget is
  used up, so it is not inductive; `InTime` is what it becomes earlier.
  `Proportions` (the second wait of phase 3 is no longer than the first, and two of the
  first fit the budget) follows from the code's formulas: 2 x max(rt, 50) + 100,
  3 x max(rt, 50) + 100, and a budget of at least 3 s.
* `SyncLinkProofs`: `SyncTypes` needs nothing but the steps. The other three,
  `SyncDelivers`, `SyncInOrder` and `SyncParses`, follow from `SyncInv`, which is
  about a session in which `taint` is empty and whose receiver has not left.
  `ConfirmedIsReceived` alone is far from inductive: it says nothing of a frame
  that is still out. `CleanInv` says, of the call in progress, whether its frame
  is out (`Mode`), that every data frame on the line is that frame or a duplicate
  of the last one delivered (`DataInv`), that every ACK on the way back is for the
  frame before or, once it was delivered, for this one, and in that order
  (`AckInv`), that a cleared pending bit of the same epoch means delivered
  (`AckInv`, with `Neighbours`: two numbers in a row have slots of their own),
  how far the message has arrived (`ProgressInv`), and that what the app has not
  read is whole messages with rising numbers but for the end of the one being
  sent (`StreamInv`, `Parsed`). The lemmas `StreamAppend` (a frame comes in),
  `StreamDrop` (a message is returned), `StreamClose`, `StreamForget` and
  `StreamStart` (a call ends or starts) are about sequences alone. A call that
  waits for room while its board is reset sends its frame under a number of the
  new count; nothing follows it, and the invariant has a mode of its own for it
  (`stray`). A call left over from an earlier session can neither be acknowledged
  nor send without `taint` (`QuietInv`). That recvMsg abandons no message is part
  of `taint` being empty, and not assumed of the app or of the times. What is left to show
  is that a partial message whose `sendMsg` has ended is complete
  (`NeverOrphaned`), so that nothing but these two cases can go stale. They hold for all sizes of
  messages, rings and buffers, all ladders, and any number of losses and sessions;
  the window is at least two, as in the code (`PIPELINE_WINDOW`).

The invariants of these modules were checked by TLC on the runs' instances before
they were proved. Facts about a recursive function (`Doubled`) are proved from
its defining equation and, where all numbers are needed, through the least
number that would violate them.

Only model-checked:

* liveness under fairness (`CallReturns`, `BufferDrains`, `StopEnds`,
  `FlowContinues`, `BoardsMeet` and the others with a leads-to);
* `EpochResetIsJustified` of `Sweep`: whether a PING or PONG of an earlier epoch
  is still on the line when a reset is decided depends on how the times relate
  and on the number of faults, so it is not a fact for all constants;
* what SYNC keeps after a frame was given up: the code does not keep the contents
  then (see above), and what remains (`BufferDrains`) is liveness.

## Plan

1. `Sweep` (done for an idle link) justifies the `NewSession` of `GbnLink`;
   left: the jitter of phase 1, more than two losses, and faults mixed with the
   baud upgrade.
2. BREAKs out of noise, and the flags of `onBreak` and `onBreakStorm` that
   outlive a session, under traffic.
3. Byte accounting (`bytesForMessage`), rate limiter and post-lock quiet, two
   concurrent senders, raw `write()`.
4. Proofs: `EpochResetIsJustified`, with the proportions of the waits and a bound
   on the faults as hypotheses.

## Not modelled

The byte-level codec (COBS, CRC, control-frame scanner), the ESP-IDF driver
calls of the HAL, logging, blinking, the web server, OTA and the generated
dashboards, and Pong, which only reads. In `OkTimer`: the pause flag
(the baud-upgrade timer and the BREAK branch of the tick are in `Sweep`). In `Sweep`:
traffic, the jitter of phase 1, the REQ command (nothing sends it), noise BREAKs,
and the event task's bounded `tryLock`. In `GbnLink`: the
post-lock quiet gates, two concurrent callers of `sendMsg`, raw `write()`, and
a partial push into the app buffer (the code asks for the room under the same
lock). In `SyncLink`: two callers, the streak of rejects that feeds the watchdogs,
CRC collisions, a receive buffer that is too small. In `PingApp`: a
`setPaused(false)` that clears the pipeline in the middle of a running `loop()`
(no lock protects `count_`), the statistics line, and SYNC mode.

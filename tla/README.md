# isdn4linux: a TLA+ verification

This project models the passive-card half of isdn4linux, the HiSax driver (`drivers/isdn/hisax/`) -
the protocol machines of layers 1 to 3, the call control, the timers that drive them, and the shared
variables through which an interrupt handler, the bottom half and processes move frames - and what the
link level above it makes of calls and data: the network interfaces that dial, and multilink PPP. Beside
HiSax it models the other driver with a state machine in the kernel, the one for CAPI controllers (`avmb1/capidrv.c`).
Everything is translated from the C source. Paths below are relative to `src/`; `hisax/` stands for `drivers/isdn/hisax/`.

Contents: 1 the system, 2 what is hard about it, 3 the plan, 4 the modules and the code, 5 the runs,
6 fairness, 7 the proofs, 8 what the code does, 9 what is not modelled.

## 1. The system

```
  network interfaces, ttys, X.25        isdn_net.c isdn_ppp.c isdn_tty.c isdn_concap.c
                 |  isdn_writebuf_skb_stub, ISDN_CMD_*      ^ ISDN_STAT_*
  link level: channel table, dispatcher isdn_common.c
                 |  HiSax_command, HiSax_writebuf_skb       ^ statcallb, rcvcallb_skb
  HiSax call control (one FSM a channel) callc.c
        |  CC_*                         |  DL_*
  layer 3: EDSS1 call processes l3dss1.c, link control isdnl3.c
        |  DL_*                         |
  layer 2: LAPD                   layer 2: LAPB (X.75) or none       isdnl2.c
        |  MDL_* <-> TEI manager tei.c  |
        |  PH_*                         |  PH_*
  layer 1: S interface FSM        layer 1: B channel FSM             isdnl1.c
        |                               |
  ISAC (isac.c)                   HSCX (hscx.c, hscx_irq.c) and some forty other chips
```

A CAPI controller takes the place of everything below the link level: `capidrv.c` translates commands and callbacks
to messages (CONNECT_REQ, CONNECT_B3_IND, ...), which `kcapi.c` queues in both directions.

There is one processor. Three contexts run the code: the interrupt handler of the card, which runs to
completion; the bottom half and the kernel's timer queue, which an interrupt may suspend; and processes
that enter through `HiSax_command` and `HiSax_writebuf_skb`, which both of the others may suspend.
Within a context, layers call one another directly (`st->l2.l2l3`, `st->l3.l3l2`, ...): a call upwards is
answered by calls downwards before it returns.

| Component | State | Operations | Correct if |
|---|---|---|---|
| Layer 2 (`isdnl2.c`) | state 1 to 8, vs va vr, `windowar` and `sow`, `i_queue`, `ui_queue`, flags, T200, T203, rc | the rows of `L2FnList`: 11 kinds of frame, DL, MDL and PH primitives, two timers | the window is never overrun; each unacknowledged frame is kept where it will be looked for; a link that waits has a timer; data is delivered once and in order, or layer 3 is told |
| FSM helper (`fsm.c`) | a state and a timer each | `FsmEvent`, `FsmAddTimer`, `FsmRestartTimer`, `FsmDelTimer` | run to completion; a timer is started once |
| Link control (`isdnl3.c`) | state, `squeue`, `l3m_timer`, list of processes | the rows of `L3FnList`, `l3_msg`, `release_l3_process` | its belief in the link is layer 2's; a message goes out on the link it was meant for; an unused link is released, a used one is not |
| TEI manager (`tei.c`) | state, ri, T202, N202 | identity request, assign, check, verify, remove, denied | a terminal that wants a TEI gets one or learns that there is none |
| Call processes (`l3dss1.c`) | state, timer, channel, N303 | messages of Q.931, primitives of the call control, timers T302 to T319 | every state that waits has a timer; a process is freed once, and nobody uses it afterwards |
| S interface (`isdnl1.c`) | F3 to F8, five flags, one timer | indications of the chip, requests of layer 2, timer | layer 2 knows whether it is up; signalling is guarded by T3 |
| Transmitters (`isac.c`, `hscx.c`, `hscx_irq.c`) | `tx_skb`, `tx_cnt`, `sq`, FIFO, `FLG_L1_PULL_REQ`, events | PH_DATA, PH_PULL, XPR, XDU, bottom half | no frame is overwritten; no frame or pull waits for nothing |
| B channel accounting (`callc.c`, `hscx.c`, `isdnl2.c`) | `bcs->tx_cnt` | writing, queueing, sending, release | what is held is counted and bounded |
| Call control (`callc.c`) | a state for each channel, `proc`, `drel_timer`, `dial_timer`, flags | the rows of `fnlist`; DIAL, ACCEPTD, HANGUP | each call ends with one DHUP, after one BHUP if it had a B channel; the two stacks are set up and released in pairs |
| Link level (`isdn_common.c`) | usage, drvmap, statistics | allocation of channels, dispatch of status callbacks | a channel has one user |
| Network interfaces (`isdn_net.c`) | `dialstate` 0 to 12, timers, master and slaves | dial machine, incoming calls, auto-hangup | a dial ends in online or offline, retries are bounded |
| Synchronous PPP (`isdn_ppp.c`) | fragments by sequence number, minima | `isdn_ppp_mp_receive`, resets of compressors | reassembly is in order and drops only what is lost |
| CAPI driver (`avmb1/capidrv.c`) | a PLCI and an NCCI for each channel, flags `disconnecting` and `incoming` | the rows of `plcitable` and `nccitable`; `handle_plci`, `handle_ncci`; DIAL, ACCEPTD, HANGUP | a freed channel is clean; BHUP before DHUP; clearing that one side begins ends at the other |
| Modem emulation, X.25, the rest of CAPI, diversion, drivers of active cards | see PROJECT.json | | not modelled |

## 2. What is hard about it

* **Nested calls.** `setva` wakes the writer from inside its loop; a delivered frame makes layer 3 answer
  before N(R) is handled; several handlers tell layer 3 first and change state after that, so that the
  answer is handled in the old state and then undone.
* **Unsynchronised contexts.** `tx_skb`, `sq` and `FLG_L1_PULL_REQ` are shared by three contexts, with
  `cli()` in some places and not in others.
* **One flag beside one timer.** `FLG_T200_RUN` shadows T200; layer 1 uses one timer for three purposes
  with a flag each.
* **Coalesced events.** The bottom half sees the newest indication of the chip only.
* **Loss, delay and retries.** Frames are lost, timers expire while the answer is on its way.
* **Messages that cross.** What the CAPI driver asks for crosses what the controller indicates; what the link
  level asks for crosses the end of a call.
* **Counters maintained at a distance.** `tx_cnt` is added to by layer 2, subtracted from by the
  interrupt handler and tested by the call control.

`PROJECT.json` lists each of these hazards at its line, with the properties that would catch it.

## 3. The plan

The core came first: layer 2 is what all traffic runs through; then what uses it, then what it uses;
then the calls, from layer 3 up to the network interfaces, and the data above them.

| Step | Modules | Composition | Abstract specification | Theorems |
|---|---|---|---|---|
| 1 | Isdnl2, L2Peer | one entity in an arbitrary environment | | types, window, timers, stale data, the view of layer 3, acknowledgement, no silent loss |
| 2 | L2Link, DataLink | two Isdnl2 and a line | DataLink, implemented by L2Link | |
| 3 | DChan, L1S | DChan: Isdnl2, tei.c, isdnl3.c, l3dss1.c | | the four invariants of DChan, for any number of calls |
| 4 | TxPath, BChan | BChan: Isdnl2, hscx.c, callc.c | | no accident, no stall, no lost pull; Covered and Bounded of the channel's queues |
| 5 | Callc, Call | channels of callc.c and processes of l3dss1.c, over an arbitrary network | Call, implemented by Callc | Agreed, Linked, BChannel, Timed, and that Callc takes only steps of Call |
| 6 | NetDial | interfaces and channel table over Call | Call, assumed | Owned and Alive, over any driver that keeps the safety part of Call |
| 7 | Mppp, InOrder | the links of a bundle over lossy lines | InOrder, implemented by Mppp | |
| 8 | Capidrv | the CAPI driver, the link level's calls and a controller behind two queues | | Agreed, NcciOwned and BhupFirst |

What the plan would go on with: several terminals on one line (`tei.c`); ttys as users of channels beside
the interfaces (`isdn_tty.c`), with bundles of slaves; the reset of the compressors (`isdn_ppp.c`);
`skb_clone` failing in layer 2; and the proofs that section 7 lists as open.

## 4. The modules and the code

**Isdnl2** (`hisax/isdnl2.c`, with `fsm.c`). A handler runs to completion, so it is an operator from the
state of the entity to its next state, named as in the source: `l2_got_iframe`, `setva`,
`invoke_retransmission`, `l2_pull_iqueue`. The operators `Ev...`, `Dl...` and `Ph...` are columns of
`L2FnList` and the entries `isdnl2_l1l2` and `isdnl2_l3l2`: they select the handler by state, as
`FsmEvent` does. What a handler hands out is collected in fields of the state (`out` frames to layer 1,
`up` primitives to layer 3, `req` requests to the managers, `cnt` what it adds to `tx_cnt`, `warn` its
printk), which the modules that use it consume and clear with `Fresh`. A callback that matters for the
rest of the handler is a parameter: `reply` is what layer 3 writes from within DL_DATA | INDICATION, `ds`
what it writes when `setva` wakes it. A NULL `sk_buff` is `NoSkb`, and following one is the warning
"null skb".

**L2Peer**: one such entity against every sequence of frames, primitives, expiries and layer-1 events.
Whatever it satisfies holds behind any peer. Layer 3 also answers from within: it writes while frames are delivered or
acknowledged, and asks for the link again when it is told of a release. Where a handler tells of the release before
`FsmChangeState`, that request is handled in the old state and the new one set all the same: the `Hasty...` actions, one
for each such handler (`Overtake` is the answer). `overtaken` remembers that `FLG_T200_RUN` was left set by one. History variables say what layer 3 was told (`l3up`), whether
data was discarded silently (`lost`) and whether a delivery went unacknowledged (`unacked`).

**L2Link**: two entities, the wires between them, loss, early timers, hangup. **DataLink** is what they
promise: two lists of frames, each received in order and once, until a reset is reported.

**DChan**: one record `d` with the LAPD entity, the link control, the managers and as much of each call
process as `l3ml3p` and `dl_*` tell apart. `Deliver(S, s2, first)` is one handler of layer 2 with what it
calls upwards: `first` says that the handler calls before it changes its state, so that the answers are run
on the old state and the handler's change is put on top, as the code does. A point-to-point or
point-to-multipoint line is chosen in `Init`. `orphan` and `blind` mark two known ways for layer 2 and
layer 3 to part (section 8): the properties exempt exactly these, and everything else must hold.

**L1S**: the rows of `L1SFnList`, `isac_new_ph`, `isac_bh`, the one timer. Recursion between
`l1_activate_no`, `L1deactivated` and an active call is the absorbing state `endless`.

**TxPath**: `PH_DATA`, `PH_PULL`, FIFO, XPR, XDU and the bottom half, cut where an interrupt may come in
between; `pc[c]` is where context c stands. `Hscx` chooses between the two chips: `hscx_l2l1` works under
`cli()`, `ISAC_l1hw` does not. `Process` says whether a process makes calls of layer 2 as well.

**BChan**: an X.75 channel of `callc.c` over Isdnl2 and the HSCX, with `tx_cnt` counted in frames.

**Callc**: the channels of a card, `ch`, and the memory for call processes, `pr`, which point at each other.
`Ev...(s, c)` is a column of `fnlist`, `CC_...(s, p)` a row of `downstatelist`, `Receive` and `Expire` the
messages and timers of `datastatelist` and `manstatelist`; routines keep their names. A process that is
released stays readable with its old contents until the memory is taken again, as freed memory does, so that
a stale `chanp->proc` is a state the model can be in. What the link level answers to ICALL, the memory that a
new process gets and whether the B channel can be set up are in `s.env`. The network sends any message to any
live process at any time. `ForEach` is `l3ml3p`, which tells all processes of the data link; the assumption `Names` keeps
null pointers apart from channels and processes. `ll` is the link level's view. `Lose` marks the two places where code leaves a
channel and a process apart (section 8): what follows depends on what the memory becomes, and is not explored.

**Call** is what the drivers promise the link level: the order DCONN, BCONN, BHUP, DHUP, nothing but the end for
a call that is hung up, and that this end comes. It is the seam between two checks: Callc implements it, NetDial
assumes it, so that what holds of NetDial holds above HiSax.

**NetDial**: `lp` and `dev` are `isdn_net_local` and the channel table with the timer flags. `isdn_net_dial` is one
pass over all interfaces, with the number list, its retries and `dtimer`; `isdn_net_hangup` and the binding of
channels are as in the source; `Dconn`, `Bconn`, `Bhup` and `Dhup` are steps of the driver (conjoined with the
action of Call) with what `isdn_net_stat_callback` does. Since each interface that takes part has a channel of its
own, the pass treats them as independent; Owned is the invariant that says so. A DIAL on a channel that still has
a call is dropped, as `callc.c` drops it. `own` is a history variable: who made the call.

**Mppp**: `isdn_ppp_mp_receive`. The loop over the queue is the recursive operator `Traverse`, whose `Step` follows the
body; positions stand for the pointers `start` and `frag`. `net` is the peer, which numbers its fragments and
spreads them over the links, and the lines. **InOrder** is what comes out: whole frames, in order, once.

**Capidrv**: `pl` and `nc` are the PLCI and the NCCI that a channel's `plcip` and `nccip` point at. `plcitable` and
`nccitable` are the rows of the tables in the source whose events are raised; `plci_change_state` and
`ncci_change_state` take a row and run its action, `p0` and `n0`. A handler of `handle_plci` or `handle_ncci` runs to
completion (between `capidrv_signal` and `capidrv_command` the code has no lock; how the two could meet in the middle
is not modelled), so it is an operator from a state to the set of its outcomes, named by its message. `ctl`, `req` and
`ind` are the controller (external) and the two queues. An NCCI that hangs at its channel but is in the list of no
PLCI any more is not `listed`: `free_plci` frees the PLCI alone, and `nccip` and the NCCI itself stay. A request has its own message
number in the source; here its channel is that number. `ll` is the link level's view, with `deaf`
for a call whose HANGUP had no effect (section 8).

**Isdnl2_proof, L2Peer_proof, DChan_proof, BChan_proof, TxPath_proof, NetDial_proof, Capidrv_proof,
Callc_proof**: the proofs. **MCDChan** adds the symmetry of the calls.

Definitions ending in `_bug`, `_keep`, `_keepvs` or `_uncounted` are mutants: plausible mistakes that the
properties have been seen to catch. No specification uses them.

## 5. The runs

Every bound is a CONSTANT. The bounds are small because the interesting cases need few frames: two
frames outstanding tell order and retransmission from luck, a modulus one or two above the window makes the
numbers wrap at once.

| Run | Bounds | What it shows |
|---|---|---|
| `l2_peer` | modulus 3, window 2, N200 1, one frame and one UI frame waiting | TypeOK; WindowOK; SomeTimer: a link that waits for its peer has a timer, also where a release overtakes a request that layer 3 makes from within it, which is the only way for `FLG_T200_RUN` to be stale in ST_L2_7; NoStaleData: no frame of an old link remains; L3InSync: layer 3 was told of every way in and out; NoSilentLoss: discarded data is reported; DataAcked: each delivery is acknowledged within its step |
| `l2_link` | side 1 writes two frames and side 2 one, one frame lost, one early timer, two frames in flight before a side must wait, side 2 may hang up | LinkSpec: L2Link implements DataLink; Delivery; HangupEnds |
| `dchan` | two calls, window 1, one message in each queue, both kinds of line | NoStaleMsg; LinkTimers: a link that is to be released or whose loss is borne has its timer; WaitServed: a request for the link is being worked on; BeliefMatches |
| `l1_s` | none: the state space is finite | BeliefMatches between layers 1 and 2, SignalGuarded by T3, DownIsTold, RequestWaits |
| `tx` | queues of two, frames of one or two FIFO loads; a B channel with a process, a D channel without one | NoAccident, NoStall (B channel only: it does not hold of `isac.c`, section 8), NoLostPull, AlwaysPulling |
| `tx_isac_process` | the same, and a process that sends on the D channel | violated: PH_PULL \| INDICATION finds `tx_skb` set |
| `b_chan` | modulus 3, window 2, two frames of `tx_cnt`, the peer waits while one frame is in squeue | Covered: all that waits is counted; Bounded: the channel holds no more than the limit and a window |
| `b_chan_lack` | the same | violated: `tx_cnt` stays high over a channel that holds nothing |
| `callc` | one channel, two pieces of memory for processes | Agreed: a channel is free exactly when the link level has nothing on it; Linked: channel and process point at each other; BChannel: stack and data only where they belong; Timed: a process that waits for the network has its timer, in state 15 unless it was suspended while T309 ran; CallSpec: Callc implements Call, its liveness included |
| `net` | three interfaces (calls back and dials; dials and is called; is called only), two channels, two numbers, one round, a timeout of one pass | Owned: interfaces and channels agree; Alive: a connected interface has a live call that it made itself, and the timer that will end it; Ends: every dial ends |
| `mppp` | two links, five fragments, a queue of three, numbers modulo 16 beginning with 0 or 14 | Accounted: queue and its count; NotHeld: a complete frame that begins with `mp->seq` does not wait, any other at the head of the queue for one more fragment at the most once all links have passed it; OrderSpec: Mppp implements InOrder; GivenUp: only frames that lost a part are given up |
| `capi` | two channels, one PLCI in the controller | Agreed: a channel without a PLCI is clean; NcciOwned: data goes to the call of its channel; BhupFirst: BHUP before DHUP; ClearingEnds: clearing that one side begins ends at the other |

In DChan the network never says RNR: a busy peer makes no difference above layer 2, and L2Peer has it. In L2Peer
and BChan the environment is unrestricted, so the only bounds are on the queues; a queue of one frame reaches
every branch, since the handlers test for empty, for not empty, and for a free window. The code's own numbers
(modulus 128 and 8, window 1 and 7, N200 3 and 4) are covered by the proofs. LAPB was
explored with the same bounds. L2Link was also explored with one writer, two hanging up and two losses, with two
writers and two losses and no early timer, and without liveness with both writing two frames and both
hanging up (7.3 million states): the chosen run is the smallest one in which each mechanism happens
together with each other. In `callc` the second piece of memory is there for the call that comes
while the pointer to the old process is still around; channels meet only in the loss of the data link and in
the choice of a free channel, and the safety properties were also explored with a second channel for waiting calls
(1.2 million states). In `net` two channels are what three interfaces compete for. Five fragments are a frame of
three and one of two, or a gap with frames on both sides of it; a queue of three makes the overflow happen; 14
makes the numbers pass from the upper half, of which MP_LT's idea of order depends, through 0. In `capi` two
channels compete for one call, so that dials are refused, an incoming call meets a channel that is being dialed on, and a
message may be taken for the wrong channel; the safety properties were also explored with two PLCIs, where calls of
both directions meet and an incoming call finds no channel (17.2 million states).

CHECK_DEADLOCK is FALSE for L2Link, which stops when all is written and the link released, and for Mppp, which
stops when the peer has sent its five fragments.

## 6. Fairness

Four runs need it.

`l2_link`: the line (`Receive`, `TxDone`, `PullConfirm`, `L1Down`) is weakly fair: a frame
that is not lost arrives, the chip finishes, the bottom half runs, and layer 1 of a B channel goes down
10 ms after it is asked to. `Lose` has no fairness and is bounded by `MaxLoss`: a line that loses
everything keeps no promise. T200 of each side is strongly fair and T203 weakly: the kernel's timers
expire, but a side may restart T203 of the other again and again while that one's T200 is pending and the line
busy on and off. T200 is 1 s and T203 5 s on a B channel (10 s on a D channel), so T200 cannot be kept
from expiring by that. A timer expires when the line is calm, or early, `MaxEarly` times; on a B channel a
round trip takes some ten milliseconds. Writing, calling and hanging up are never fair.

`callc`: each timer of layer 3 and each `drel_timer` is weakly fair, since the kernel expires them, and so is the
confirmation of the release of a B channel, which the 10 ms timer of `isdnl1.c` (or layer 2's N200 retries before
it) brings about. The network is not fair at all: it may never answer. With that CallSpec shows that a call
that is hung up ends. Call states its liveness as `[]<>~hung`, and not as fairness, since an
implementation's steps do not correspond to steps of Call one by one.

`net`: the timer `ISDN_TIMER_NETDIAL` is weakly fair: `isdn_timer_funct` restarts itself while a flag is set. The driver
is not: Ends holds although it may never answer.

`capi`: both queues are worked off, which `kcapi.c` does from a bottom half, and the controller clears what it was told
to clear: this is what CAPI 2.0 says of DISCONNECT_REQ, and `capidrv.c` relies on it, having no timer of its own. That the
queues are worked off is written out instead of with WF, because both actions are enabled exactly while their queue is
not empty. Nothing else of the controller is fair: it need not connect a call, nor tell of its end.

## 7. The proofs

All are checked by TLAPS, for every value of the constants under the assumptions that the modules name.

**L2Peer_proof** (over Isdnl2_proof, for any modulus above the window, any window, N200, contents and queue
bounds, LAPD and LAPB):

* `TypeCorrect`: `Spec => []TypeOK`. `WindowSafe`: `Spec => []WindowOK`.
* The invariant is `IInv == TypeOK /\ Safe(l2) /\ "null skb" \notin log`. Neither property is inductive
  alone: a frame moves back from `windowar` to `i_queue`, so the type of the queue needs the ring. `Ring` says that no
  more than the window is outstanding and that the entries that stand for it, counted from `sow`, hold frames;
  `Safe` asks for it in ST_L2_7 and ST_L2_8 only, because handlers that end a link leave the ring in disorder
  on their way.
* The argument follows the code. `Same` relates the states around an operator that touches neither numbers nor ring,
  `Ok` those around one that keeps the ring if there was one: each helper has a lemma, each handler chains them.
  `DistInc`, `DistSplit` and `SlotBehind` are the arithmetic modulo the sequence numbers and the window;
  `PullGood`, `SetvaGood` and `InvokeGood` the three loops and moves that matter. Then
  each event of `L2FnList` has one lemma, and each action of L2Peer one step.
* In the middle part: `TimersRun` (SomeTimer), `NothingStale` (NoStaleData), `ViewsAgree` (L3InSync), `AckedAlways` (DataAcked).
* The invariant of the first three is `ReadyInv == Ready(l2, l3up)`: `Timers`, `Clean` and `Synced` with nothing left to
  tell. Each says more than the property it is for. `FLG_T200_RUN` agrees with T200 in ST_L2_5, 6 and 8, and is nowhere clear
  while T200 runs; where it is stale in ST_L2_1 to 4 or ST_L2_7, `overtaken` says so (a `Hasty` step leaves both set in ST_L2_1 or 4,
  and the timer then expires); in ST_L2_5 for layer 3 (`FLG_L3_INIT`) `i_queue` is empty, which `l2_st5_dm_release` relies on when it
  does not purge it; in ST_L2_5 on layer 2's own account layer 3 still believes in the link, which `l2_connected` relies
  on when it says nothing.
* Types are not needed: the fields are followed through the handlers, in `Is(t, ...)`, which lists their values
  after each call of a handler. While frames move only `Runs` matters (no timer is lost), or `Live`, where data may
  have been delivered. `ViewOne` says what one primitive does to the view; no handler tells more than one. Each
  handler, then each event of `L2FnList`, has a lemma: what begins Ready ends Done.
* For `AckedAlways` the invariant adds that nothing is waiting to be sent. Inside the handler of an I frame
  the acknowledgement is `Due` from the delivery on: `FLG_ACK_PEND` is set, or a frame with the
  current `vr` is out. The point is the callback: layer 3 may write before N(R) is handled, so `DuePull` shows that an I
  frame sent from there carries the new `vr`, which is why clearing the flag is right, and only there. Every other handler
  is `Mute`.
* `LossTold`: `Spec => []NoSilentLoss`, in the last part of the module.
* Its invariant is `LossInv`: `IInv`, the invariant of the part before it (`ReadyInv`), and three facts more. `Fate` says where data that was lost may
  leave the entity: in ST_L2_6; in ST_L2_5 if the link is set up for layer 3 or `vs # va`, which is what
  `l2_connected` looks at to report a reset; or anywhere if layer 3 asked for a release. A release that waits in
  `FLG_PEND_REL` was asked for, since `l2_connected` throws the queue away for it. And layer 1 is active wherever the
  link is wanted, or a request of layer 3 for a link could leave the entity as it is.
* What is owed is counted: `Count` is the frames in `i_queue` and in the window. A pull moves one from the queue to the window,
  `invoke_retransmission` moves them back (`RewoundGood`), `setva` takes as many as N(R) acknowledges (`FreedGood`) and may add what
  layer 3 writes when it is woken. `Owes` is the balance of a step in ST_L2_7 or ST_L2_8, `Waits` and
  `Opens` those of ST_L2_5. `Fares` puts them together: each handler keeps the balance, tells layer 3 (`Says`), or goes
  where layer 3 will be told; each event has a lemma that says so, and `StepFate` draws the conclusion.

**DChan_proof** (over DChan, for any finite number of calls, any bound of squeue, any modulus, window and number of
retries, on LAPD, which is what `DChanAssumption` says):

* `NothingStaleQueued` (NoStaleMsg), `LinkTimersAlways` (LinkTimers), `WaitServedAlways` (WaitServed), `BeliefAlways`
  (BeliefMatches).
* One invariant serves all: `Good(d)`, with the parts `CallsInv`, `LinkInv`, `TeiInv`, `Waits` and `Belief`. WaitServed
  needs most of the rest: that layer 2 is nowhere above ST_L2_4 without layer 1; that a remembered establishment
  means that layer 1 is down, so that its activation will run it; that a release waits in `FLG_PEND_REL` only
  while layer 3 waits for that release, or `l2_connected` would take the link down again under a new request; that on
  a point-to-multipoint line ST_L2_1 and ST_L2_3 have no TEI, and that the TEI manager checks one only where
  there is one. LinkTimers needs `Patient` and `Idle`, what the calls are while the link is
  waited for or given up.
* Of layer 2 only the fields `Known` matter, the state and the flags that tell how far the link is. `Same`, `Moves`, `Opens` and `Ends`
  say how a handler may change them and what it tells layer 3, and each handler that DChan can reach has a lemma
  (`Telling` to `MovesTimer`; `Effect...` for the primitives of the managers).
* Then the callbacks. `Checking` and `Assigning` are the answers of the TEI manager, `Losing`, `Connecting` and `Hearing` what
  link control and calls do when they hear of the link, with the requests that they make from within it.
  `Deliver` puts them together: `Delivering` where the answers see the new state; `DeliverFirst` where
  they see the old one and the handler's change is put on top, which is what can lose a request, and sets `orphan`.
* Each action of DChan is then one step (`Step...`), with `Speak` and `Proceeding` for a message of a call and `Freeing` for
  the end of a process, which may begin the release of the link.
* The n messages that `lc_connect` hands to layer 2 are a recursive function, and that each of them leaves the link
  alone is an induction on n. The library's induction over predicates cannot be used (it takes an operator), but
  the least-number principle can, which is about sets: `NatInd`, from `NatLessThanWellFounded` and `WFMin`.

**BChan_proof** (over Isdnl2_proof, for any window, modulus, limit `MAX_DATA_MEM` and length of squeue, on LAPB):

* `CoveredAlways`: `Spec => []Covered`. `BoundedAlways`: `Spec => []Bounded`.
* The invariant is `IInv`: layer 2 is `Safe`, has handed on all it sent and counted, and `Covered`; and `Held`, the frames in
  `i_queue` and the filled entries of `windowar`, is at most the limit and one window.
* Two numbers are followed through the handlers: `Held`, and `Surplus`, which is what the queues have grown by that `tx_cnt` does not
  count. A handler leaves them no larger (`Lighter`): `l2_pull_iqueue` takes from one queue for the other, `setva` and `freewin` give
  up, and `invoke_retransmission` puts back into `i_queue` what it takes out of the window. That it takes no entry twice
  needs the ring (`RewoundLighter`), and so the bound needs WindowOK of layer 2. Only `EvDlData` adds a frame
  (`WriteHeavier`), behind the test of `HiSax_writebuf_skb`; and there Covered is what makes the test say anything about `i_queue`.
* `tx_cnt` itself is not bounded by this, and may stay above what waits (section 8).

**TxPath_proof** (any queue bound; assuming `Alone == Hscx \/ ~Process`, a B channel, or a D channel used by
the bottom half alone):

* `FramesSafe` (NoAccident), `PullServed` (NoLostPull), `SenderServed` (AlwaysPulling and NoHang), and
  for the HSCX `QueueServed` (NoStall).
* `IInv == Types /\ Where /\ Transmitter /\ Requests`: where a context may be in a call, what this
  means for `tx_skb` and the FIFO (exactly one context is about to fill a FIFO that is not being sent), and
  who will answer a remembered pull. `Alone` is needed: `tx_isac_process` is its counterexample.

**NetDial_proof** (any number of interfaces, channels, numbers, rounds and passes, any roles; a driver that takes
the steps of Call, safety only):

* `OwnedAlways`: `Spec => []Owned`. `AliveAlways`: `Spec => []Alive`.
* The invariant is `IInv == Good(S)`, of the state as one record: the types, Owned and Alive for that record, and
  `CallOf`: a call that nobody hung up belongs to the interface that has its channel. Alive is not inductive without
  it: when a B channel comes up, nothing else says that it is the one of the interface that hears of it. `CallOf`
  is what the HANGUP before each unbinding buys, and the theorem fails if `isdn_net_hangup` omits it.
* The argument goes by operation, since several actions share them: `DialGood`, `UnbindGood`, `HangupGood`,
  `PassGood` (one pass of `isdn_net_dial` over all interfaces), `BindGood`, `AcceptGood`, `PhaseGood` each say that Good
  is kept, and each action chains two or three of them. `Listener` and `OneEach` carry the weight: whoever hears of a channel
  has it, and no two interfaces have the same one.

**Capidrv_proof** (any number of channels and of PLCIs, any order of messages and commands):

* `AgreedAlways`: `Spec => []Agreed`. `NcciOwnedAlways`: `Spec => []NcciOwned`. `BhupFirstAlways`: `Spec => BhupFirst`.
* For Agreed the invariant is `IInv == Good(Now)`, of the state as one record: its type and Agreed. Agreed alone is inductive, but not
  step by step: `handle_incoming_call` sets `incoming` before there is a PLCI, so a new PLCI starts from
  `AgreedBut`, Agreed except for its channel, and `p0Good` ends in Good from there. The lemmas follow the code: what a row of the tables does (`PlciRows`,
  `PlciNext`), what an event and an NCCI's end keep (`PlciGood`, `n0Good`), then one lemma for each message and command. `Keeps`
  adds that the PLCI is still there, which is what a handler needs that goes on with the channel after it.
* NcciOwned and BhupFirst depend on what is still under way in both queues. Their invariant is `TInv == IInv /\ Ties(Now)`, with
  three parts. `Line` is the protocol of one PLCI: what the controller says of it comes in an order, from the message that
  announces it to DISCONNECT_IND; an NCCI's end follows its beginning; and the driver's DISCONNECT_RESP is the last that
  the controller hears of it. `Tied` is one channel: its fields by themselves (`Cell`), the one answer to its
  CONNECT_REQ (`Asks`), and what its PLCI owes it (`Owner`): a PLCI that the controller has released has its DISCONNECT_IND
  still in the queue, and an NCCI that it has released its DISCONNECT_B3_IND. `Apart`: no two channels have one PLCI.
* `Silent` is the part that is easy to miss. The link level may refuse an incoming call and dial on the same channel while the driver
  still holds the PLCI (`Void`); that the old PLCI then brings no data connection to the new call is true only because
  the driver never accepted it, so that neither queue holds anything of a connection.
* The proof follows the code again: lemmas on queues (`Taken`, `Added`), the driver's operators on a channel in the form
  `Put(s, c, p, n, l, b, r)`, one lemma named `...Ties` for each message and each command, and for the controller `Goes`, a step
  of one PLCI with some of its requests taken, which leaves all other PLCIs alone (`Moves`).

**Callc_proof** (any number of channels and of call processes, under `Names`: a card has channels, and the null
pointers are neither a channel nor a process):

* `AgreedAlways`, `LinkedAlways`, `BChannelAlways`, `TimedAlways`: `Spec => []P` for the three invariants of the run and
  `Spec => Timed`, whose second part is about steps: how a process may come to be in state 15 without a timer.
  `CallOrder`: `Spec => Driver!Init /\ [][Driver!Next]_(Driver!vars)`, the safety part of CallSpec, step by step under the
  refinement mapping. What remains of CallSpec, that a call that was hung up ends, is liveness.
* The invariant is `IInv == Good(Now)`: types, `ChanGood` for each channel and `ProcGood` for each live process. `Fits` is the
  table behind it: which states of a channel go with which states of its process, which timer, which phase at the link
  level and which state of the B channel. None of the four properties is inductive alone: a handler of `callc.c` relies on
  what the handler of `l3dss1.c` that calls it has left, and the other way round. `Free1` is the same for a channel without a call,
  whose `proc` may still point at freed memory.
* An operation is a chain of assignments to one channel, its process and what the link level knows. `Put(s, c, p, x, y, z, l)`
  is the state `s` with new values for these; lemmas named `...Put` run each operator on that form, so that a step of the
  composed machines becomes a statement on a few fields (`Next1`), which `PairStep` carries over to all other channels.
  `Together` does the same for the data link, which every process hears of, and `StaleExpire` for the timer of a process
  that is freed but whose memory is still there: it changes that memory and
  reaches no channel, or leaves what is explored (`lost`).
* `Moved` is carried along: each of these steps is a step of Call for every channel.

Model-checked only:

* liveness, which is out of the prover's reach: `Ends` in CallSpec and of NetDial, Delivery and HangupEnds of L2Link,
  ClearingEnds of Capidrv;
* the refinements LinkSpec (L2Link implements DataLink) and OrderSpec (Mppp implements InOrder): they
  are about what two queues and a line hold together, which needs induction over sequences;
* Mppp, whose queue is walked by a RECURSIVE operator, which the prover does not take;
* the four invariants of L1S, which has no constants, so that TLC's exploration of it is complete.

## 8. What the code does

Two runs show disagreements with what the source says of itself (`findings` in PROJECT.json): the
D channel transmitter with a process, and `tx_cnt` after a restart. While
modelling, these came up as well; the models contain them, and the properties are stated around them.

* `l2_restart_multi`, run by a SABME in ST_L2_7, leaves the frames of `windowar` where they are, so that
  `l2_pull_iqueue` finds its slot in use and its message "try overwrite ack queue entry" (`isdnl2.c:1277`) is reached.
* After two early T200 expiries and a loss layer 2 may deliver a frame twice; with `MaxEarly` 1 it does not.
* A link control in ST_L3_LC_REL_WAIT asks for the link with DL_ESTABLISH | REQUEST in ST_L2_6, where layer 2
  drops it; TEI removal, DM and MDL_ERROR undo a request made from within their callback; `tei_id_req_tout`
  and `tei_id_ver_tout` ignore one. The waiting side is then served only by T303 or a new call (`orphan`).
* Such an undone request (`l3dss1_dl_reestablish` within DL_RELEASE | INDICATION of `l2_tei_remove`, `l2_persistant_da`) has
  started T200, which expires in ST_L2_1 or ST_L2_4 without a row, so that FLG_T200_RUN stays set. `l2_start_multi`
  (`isdnl2.c:701`) does not clear it: after a SABME of the peer `l2_pull_iqueue` (1309) sends without starting T200, and T203 alone notices
  a loss, until a handler clears the flag (`overtaken`, which SomeTimer exempts in ST_L2_7).
* In ST_L3_LC_REL_DELAY a request is answered with `lc_connected` whether the link is up or not (`blind`).
* `dl_reestablish` restarts T309 at every DL_RELEASE | INDICATION, so a link that comes and goes never
  lets it expire. `l3dss1_disconnect_req` adds its timer after `l3_msg`, whose nested calls may have freed
  the process.
* `l1_activate_no`, `L1deactivated` and `dl_reestablish` call each other without end if layer 1 is in F6 with T3
  expired and a call is active (`endless`). After `l1_reset` in F7 the flag ACTIVATED stays set (`lost`).
* `ISAC_l1hw` tests `tx_skb` before it queues: an XPR in between leaves the frame in `sq` with no frame before
  it, until the next one is sent. `hscx_l2l1` does the test under `cli()`.
* `isdnl1.c:889` assigns the bit number FLG_L1_UINT to the flag word.
* A SUSPEND in state 10 while T309 runs for a lost link does not stop it, so that `L3AddTimer` refuses T319 (`l3dss1.c:2544`); T309
  then expires in state 15, which has no row for it (2830 is for state 10), and the process waits without a timer, until the
  network answers or the link is lost again. Timed says that this is the only way.
* A HANGUP for a call that is being suspended or resumed is dropped by layer 3 (`downstatelist` has no row for states
  15 and 17); if the network then refuses, the call goes on although the channel is in ST_WAIT_DRELEASE (`Suspended`
  of Callc, which CallSpec exempts).
* A channel that the link level answered with 4 (ST_IN_PROCEED_SEND) is closed by EV_DISCONNECT_IND without a RELEASE, so
  that its process stays in state 12, and has no row for EV_RELEASE (`callc.c:826-830`, where the row of
  ST_IN_ALERT_SENT stands twice), so that it stays when the process is gone. `l3dss1_t318` closes the channel
  of a resume and keeps the process. Both leave a pointer to what is not there any more (`Lose`).
* A DIAL within 50 ms of a HANGUP waits in `dial_timer`, and nobody cancels it: hung up before it expires, it still
  dials, and the call belongs to nobody until the other side clears it.
* `isdn_net_unbind_channel` frees the channel while the driver still clears the call. The next user's DIAL is lost or
  late; the interface tries again after its timeout. The answer to the first DIAL may come after the second: the
  DCONN counts, the BCONN is dropped in dialstate 4, and a good call is given up when the retries are used up.
* `isdn_net_autohup` hangs up an interface that is idle while isdn is stopped twice; the second time
  `isdn_dc2minor(-1, -1)` is the index (`isdn_net.c:406`).
* While isdn is stopped, DHUP is ignored. Started again before the interface is hung up, it sends on a call that ended.
* `last_link_seqno` of a link that joins is 0 (`isdn_ppp.c:1388`). While sequence numbers are in the upper half, 0 is newer
  than all of them, so that the minimum ignores the new link, and an incomplete frame is thrown away
  while its missing part is on that link; the comment at 1486 takes this for impossible. GivenUp exempts links
  that have not brought anything yet.
* A fragment that is put at the head of the queue starts the loop only if its number is `mp->seq` (`isdn_ppp.c:1475`). So the first
  frame of a bundle, complete but with a number of the lower half while `mp->seq` is LONG_MAX, and a complete frame after a loss, wait
  for one more fragment, for ever if the peer sends none.
* `capidrv.c` does not carry out a HANGUP at three moments, and since `disconnecting` is set, or nobody repeats
  it, never will: before CONNECT_CONF (it returns an error); while a tty rings (ST_PLCI_INCOMING, where a comment says that only
  `isdn_status_callback` calls); and while the NCCI is not confirmed, since it then asks for the wrong one (`deaf`, which ClearingEnds exempts).
* When DISCONNECT_IND crosses CONNECT_B3_REQ, `free_plci` frees the PLCI but neither unlinks nor frees the NCCI: it is leaked, and `nccip` keeps pointing at it. A HANGUP of the next
  call on the channel is then sent for the old NCCI.
* A DIAL on a channel that still has a PLCI is dropped with 0, as in `callc.c`. A CONNECT_IND that finds no channel is not answered.
* The CAPI driver sends no STAT_DCONN for a call that it accepted, although `Documentation/isdn/INTERFACE:586` asks for it, and it may send
  STAT_BCONN after a HANGUP. So it does not implement Call, and what NetDial shows holds above HiSax only.
* FLG_OWN_BUSY is never set; `dl_reset` cannot be reached in practice.

## 9. What is not modelled

The components that PROJECT.json lists as such: chips other than ISAC and HSCX, whose drivers repeat the patterns
that TxPath models; NI-1 and 1TR6; ttys, fax and audio; X.25; the CAPI core, its devices and the drivers of AVM cards; diversion; configuration. They are a large part of
the repository's lines, and most of it is access to registers, codecs, parsing and text.

Within the modelled components: of the network interfaces slaves and bundling, exclusive channels, leased
lines, dialmode, dialstate 12 (CBOUT), charging, the path of packets, and the takeover of an interface that is dialing by
an incoming call (`Leaving`: `isdn_net_find_icall` then leaves the old channel with its call and its `st_netdev`); of
synchronous PPP short sequence numbers, sending and CCP; of the call control leased lines and charge information; of `capidrv.c` LISTEN, data and its acknowledgements, leased
lines, RESET_B3, a controller that refuses DISCONNECT_B3_REQ or goes away, and commands that run in the middle of a message; of
the TEI manager several terminals on one line. Besides: memory exhaustion other than in `isdn_ppp_mp_reassembly`; text and coding of information
elements, logs and procfs; register access and card detection; codecs and compressors; active cards, whose
firmware is not in the repository; changes of the PTP mode by ioctl at run time; and, in the modules that exist,
the D channel busy timer, HW_DEACTIVATE and reception in `isac.c`, the closing of a B channel under a running
interrupt, the U interface, NI-1 and 1TR6. Routines of layers 2 and 3 are atomic: only TxPath looks between
their steps, although `HiSax_command` would allow the bottom half to run in the middle of them.

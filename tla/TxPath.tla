--------------------------------- MODULE TxPath ---------------------------------
(***************************************************************************)
(* The way of a frame from layer 2 to the transmitter of the chip: tx_skb, *)
(* the queue behind it and FLG_L1_PULL_REQ, which the interrupt handler,   *)
(* the bottom half and a process share.  The D channel (isac.c) and a B    *)
(* channel (hscx.c, hscx_irq.c) do it almost alike; hscx_l2l1 tests and    *)
(* sets tx_skb with the interrupts off, ISAC_l1hw does not.                *)
(*                                                                         *)
(* There is one processor: the interrupt handler runs to completion, the   *)
(* bottom half may be interrupted by it, and the process by both.          *)
(***************************************************************************)
EXTENDS Naturals

CONSTANTS
    DProcess,   \* a process calls layer 2 of the D channel with the interrupts
                \* on (HiSax_command); one of a B channel always may
    MaxQ        \* bound: I frames in i_queue, frames in sq

ASSUME TxAssumption == DProcess \in BOOLEAN /\ MaxQ \in Nat

Contexts == {"bh", "process"}

VARIABLES
    hscx,       \* this is a B channel, else a D channel
    tx,         \* tx_skb: 0 for NULL, else the length of the frame in it
    rest,       \* what of it has still to be written to the FIFO
    sq,         \* frames in sq (squeue of a B channel)
    busy,       \* BC_FLG_BUSY of a B channel
    fifo,       \* the chip is sending what is in its FIFO
    pull,       \* FLG_L1_PULL_REQ
    event,      \* D_XMTBUFREADY (B_XMTBUFREADY), and the bottom half is marked
    iq,         \* I frames that layer 2 may send
    pc,         \* where each context is in a call of layer 1
    log         \* what has gone wrong

vars == <<hscx, tx, rest, sq, busy, fifo, pull, event, iq, pc, log>>

Lengths == 1 .. 2           \* in FIFO loads: a frame may take more than one
Steps == {"idle", "queue", "set", "fill", "pulled", "load", "again", "remember"}
Accidents == {"tx_skb overwritten", "FIFO overwritten", "this shouldn't happen"}

\* The bottom half runs before the process as soon as it is marked.
At(c, step) ==
    /\ c \in Contexts /\ pc[c] = step
    /\ c = "process" => (hscx \/ DProcess) /\ pc["bh"] = "idle" /\ ~event
Goto(c, step) == pc' = [pc EXCEPT ![c] = step]
Log(b, accident) == log' = IF b THEN log \cup {accident} ELSE log

\* isac_fill_fifo, hscx_fill_fifo, of a frame that has n loads left.
FillFifo(n) ==
    IF n > 0
    THEN rest' = n - 1 /\ fifo' = TRUE /\ Log(fifo, "FIFO overwritten")
    ELSE rest' = n /\ UNCHANGED <<fifo, log>>

-----------------------------------------------------------------------------
(* PH_DATA | REQUEST: supervisory and unnumbered frames *)

\* isac.c looks at tx_skb first, and acts on what it saw later.
DataTest(c) ==
    /\ ~hscx /\ At(c, "idle") /\ sq < MaxQ
    /\ Goto(c, IF tx # 0 THEN "queue" ELSE "set")
    /\ UNCHANGED <<tx, rest, sq, busy, fifo, pull, event, iq, log>>

DataQueue(c) ==
    /\ At(c, "queue") /\ Goto(c, "idle")
    /\ sq' = sq + 1
    /\ UNCHANGED <<tx, rest, busy, fifo, pull, event, iq, log>>

DataSet(c) ==
    /\ At(c, "set") /\ Goto(c, "fill")
    /\ \E n \in Lengths : tx' = n /\ rest' = n
    /\ Log(tx # 0, "tx_skb overwritten")
    /\ UNCHANGED <<sq, busy, fifo, pull, event, iq>>

\* hscx.c does the same in one go, under cli().
\* Mutant: every frame goes to the queue.
DataHscx_bug(c) ==
    /\ hscx /\ At(c, "idle") /\ sq < MaxQ
    /\ sq' = sq + 1
    /\ UNCHANGED <<tx, rest, busy, fifo, pull, event, iq, pc, log>>
DataHscx(c) ==
    /\ hscx /\ At(c, "idle") /\ sq < MaxQ
    /\ \/ tx # 0 /\ sq' = sq + 1 /\ UNCHANGED <<tx, rest, busy, pc>>
       \/ /\ tx = 0 /\ \E n \in Lengths : tx' = n /\ rest' = n
          /\ busy' = TRUE /\ Goto(c, "fill") /\ UNCHANGED sq
    /\ UNCHANGED <<fifo, pull, event, iq, log>>

Fill(c) ==
    /\ \E step \in {"fill", "load"} :
           At(c, step) /\ Goto(c, IF step = "fill" THEN "idle" ELSE "again")
    /\ FillFifo(rest)
    /\ UNCHANGED <<tx, sq, busy, pull, event, iq>>

-----------------------------------------------------------------------------
(* PH_PULL: I frames *)

\* PH_PULL | REQUEST for a frame that layer 3 wrote or that the window lets
\* through, and for the next one after a frame was pulled.  On a B channel a
\* process does this only in HiSax_writebuf_skb.
\* Mutant: the transmitter is taken to be idle.
PullRequest_bug(c) ==
    /\ \/ At(c, "idle") /\ (hscx => c = "bh") /\ iq < MaxQ /\ iq' = iq + 1
       \/ At(c, "again") /\ iq > 0 /\ UNCHANGED iq
    /\ pull' = FALSE /\ Goto(c, "pulled")
    /\ UNCHANGED <<tx, rest, sq, busy, fifo, event, log>>
PullRequest(c) ==
    /\ \/ At(c, "idle") /\ (hscx => c = "bh") /\ iq < MaxQ /\ iq' = iq + 1
       \/ At(c, "again") /\ iq > 0 /\ UNCHANGED iq
    /\ IF tx = 0 THEN pull' = FALSE /\ Goto(c, "pulled")
       ELSE Goto(c, "remember") /\ UNCHANGED pull
    /\ UNCHANGED <<tx, rest, sq, busy, fifo, event, log>>

Remember(c) ==
    /\ At(c, "remember") /\ Goto(c, "idle")
    /\ pull' = TRUE
    /\ UNCHANGED <<tx, rest, sq, busy, fifo, event, iq, log>>

\* PH_PULL | CONFIRM to layer 2, which answers with PH_PULL | INDICATION and
\* an I frame, if it has one.
NothingToPull(c) ==
    /\ iq = 0 /\ (At(c, "pulled") \/ At(c, "again")) /\ Goto(c, "idle")
    /\ UNCHANGED <<tx, rest, sq, busy, fifo, pull, event, iq, log>>

PullInd(c) ==
    /\ At(c, "pulled") /\ iq > 0
    /\ iq' = iq - 1
    /\ Log(tx # 0, "this shouldn't happen")
    /\ \/ /\ tx # 0 /\ Goto(c, "again")
          /\ sq' = IF hscx THEN sq ELSE sq + 1
          /\ UNCHANGED <<tx, rest, busy>>
       \/ /\ tx = 0 /\ Goto(c, "load")
          /\ \E n \in Lengths : tx' = n /\ rest' = n
          /\ busy' = hscx /\ UNCHANGED sq
    /\ UNCHANGED <<fifo, pull, event>>

\* HiSax_writebuf_skb: the same call of a process, with the interrupts off.
Writebuf ==
    /\ hscx /\ At("process", "idle") /\ iq < MaxQ
    /\ \/ tx # 0 /\ pull' = TRUE /\ iq' = iq + 1 /\ UNCHANGED <<tx, rest, busy, fifo, log>>
       \/ /\ tx = 0 /\ pull' = (iq > 0) /\ \E n \in Lengths : tx' = n /\ FillFifo(n)
          /\ busy' = TRUE /\ UNCHANGED iq
    /\ UNCHANGED <<sq, event, pc>>

\* DChannel_proc_xmt, BChannel_proc_xmt
\* Mutant: a request is forgotten while the transmitter is busy.
proc_xmt_bug ==
    /\ event /\ At("bh", "idle")
    /\ event' = FALSE /\ pull' = FALSE
    /\ IF pull /\ (IF hscx THEN ~busy ELSE tx = 0) THEN Goto("bh", "pulled")
       ELSE UNCHANGED pc
    /\ UNCHANGED <<tx, rest, sq, busy, fifo, iq, log>>
proc_xmt ==
    /\ event /\ At("bh", "idle")
    /\ event' = FALSE
    /\ IF pull /\ (IF hscx THEN ~busy ELSE tx = 0)
       THEN pull' = FALSE /\ Goto("bh", "pulled")
       ELSE UNCHANGED <<pull, pc>>
    /\ UNCHANGED <<tx, rest, sq, busy, fifo, iq, log>>

-----------------------------------------------------------------------------
(* The interrupt handler *)

\* XPR: the FIFO takes more.  The frame that is done may make the link level
\* write another one on a transparent B channel (l1writewakeup).
NextFrame(waiting) ==
    \/ /\ waiting > 0 /\ sq' = waiting - 1
       /\ \E n \in Lengths : tx' = n /\ rest' = n - 1
       /\ fifo' = TRUE /\ busy' = hscx /\ UNCHANGED event
    \/ /\ waiting = 0 /\ sq' = 0
       /\ tx' = 0 /\ rest' = 0
       /\ fifo' = FALSE /\ busy' = FALSE /\ event' = TRUE

\* Mutant: the bottom half is not marked when the queue is empty.
XPR_bug ==
    /\ fifo
    /\ \/ rest > 0 /\ rest' = rest - 1 /\ UNCHANGED <<tx, sq, busy, fifo, event>>
       \/ rest = 0 /\ sq > 0 /\ NextFrame(sq)
       \/ /\ rest = 0 /\ sq = 0 /\ tx' = 0 /\ fifo' = FALSE /\ busy' = FALSE
          /\ UNCHANGED <<rest, sq, event>>
    /\ UNCHANGED <<pull, iq, pc, log>>
XPR ==
    /\ fifo
    /\ \/ rest > 0 /\ rest' = rest - 1 /\ UNCHANGED <<tx, sq, busy, fifo, event>>
       \/ /\ rest = 0
          /\ \E written \in 0 .. 1 :
                 /\ written = 1 => hscx /\ tx # 0 /\ sq < MaxQ
                 /\ NextFrame(sq + written)
    /\ UNCHANGED <<pull, iq, pc, log>>

\* XDU: the FIFO ran empty within a frame, which is sent again.  hscx_int_main
\* resets the transmitter and leaves the rest to the XPR that follows.
XDU ==
    /\ fifo /\ rest > 0 /\ tx # 0
    /\ rest' = IF hscx THEN tx ELSE tx - 1
    /\ UNCHANGED <<tx, sq, busy, fifo, pull, event, iq, pc, log>>

Init ==
    /\ hscx \in BOOLEAN
    /\ tx = 0 /\ rest = 0 /\ sq = 0 /\ iq = 0
    /\ busy = FALSE /\ fifo = FALSE /\ pull = FALSE /\ event = FALSE
    /\ pc = [c \in Contexts |-> "idle"] /\ log = {}

Next ==
    /\ \/ \E c \in Contexts :
              \/ DataTest(c) \/ DataQueue(c) \/ DataSet(c) \/ DataHscx(c) \/ Fill(c)
              \/ PullRequest(c) \/ Remember(c) \/ NothingToPull(c) \/ PullInd(c)
       \/ Writebuf \/ proc_xmt \/ XPR \/ XDU
    /\ UNCHANGED hscx

Spec == Init /\ [][Next]_vars

-----------------------------------------------------------------------------
(* Correctness *)

Idle == \A c \in Contexts : pc[c] = "idle"

\* No frame is lost on the way: nobody writes over a tx_skb that is in use,
\* or into a FIFO that is being sent.
NoAccident == log = {}

\* A frame in the queue has one before it in the transmitter, whose end will
\* fetch it: nothing waits for a transmitter of a B channel that is idle.  On a
\* D channel DataQueue may act on a tx_skb that is done by then.
NoStall == hscx /\ sq > 0 => tx # 0

\* A pull that layer 1 remembers will be answered: by the end of the frame
\* in the transmitter, or by the bottom half that is marked.
NoLostPull == pull /\ Idle => tx # 0 \/ event

\* As long as layer 2 has something to send, it has a pull outstanding.
AlwaysPulling == iq > 0 /\ Idle => pull

\* The transmitter does not wait for a FIFO that nobody fills.
NoHang == tx # 0 /\ Idle => fifo

\* What ISAC_l1hw says of PH_PULL | INDICATION with a tx_skb.
PullFindsIdle == "this shouldn't happen" \notin log
=============================================================================

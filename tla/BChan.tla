--------------------------------- MODULE BChan ---------------------------------
(***************************************************************************)
(* An X.75 B channel of the HiSax driver: the link level writes frames     *)
(* with HiSax_writebuf_skb (callc.c), LAPB (Isdnl2) numbers and repeats    *)
(* them, and the HSCX (hscx.c, hscx_irq.c) sends them.                     *)
(*                                                                         *)
(* bcs->tx_cnt says how much is in the driver.  Layer 2 adds to it what it *)
(* queues, the interrupt handler subtracts what it writes to the chip, and *)
(* HiSax_writebuf_skb takes no more than MAX_DATA_MEM of it: none of them  *)
(* looks at the queues themselves.  It is counted in frames here.          *)
(***************************************************************************)
EXTENDS Isdnl2, FiniteSets

CONSTANTS
    MAX_DATA_MEM,   \* what tx_cnt may reach by writing
    MaxSq           \* bound: the peer waits while so many frames are in squeue

ASSUME BChanAssumption == ~LAPD /\ MAX_DATA_MEM \in Nat \ {0} /\ MaxSq \in Nat

VARIABLES
    l2,         \* the LAPB entity; l2.txBusy: tx_skb is set, its frame in the FIFO
    chan,       \* ST_WAIT_BCONN, ST_ACTIVE (data_open), ST_WAIT_BRELEASE, or no B stack
    txCnt,      \* bcs->tx_cnt
    sq,         \* frames in bcs->squeue
    deact       \* layer 1 has been asked to deactivate

vars == <<l2, chan, txCnt, sq, deact>>

Chans == {"closed", "wait", "active", "release"}
NoStack == InitL2(FALSE)

Told(s, prims) == \E i \in 1 .. Len(s.up) : s.up[i].p \in prims

\* release_b_st: BC_Close and releasestack_isdnl2.
release_b_st ==
    l2' = NoStack /\ chan' = "closed" /\ txCnt' = 0 /\ sq' = 0 /\ deact' = FALSE

(***************************************************************************)
(* A handler of layer 2 that leads to s.  The first frame that it sends    *)
(* goes to the FIFO if the transmitter is idle, the others to squeue.      *)
(* Whatever says that the link is gone makes the call control close the    *)
(* channel before the handler returns.                                     *)
(***************************************************************************)
Becomes(s) ==
    LET loaded == IF s.out # <<>> /\ ~l2.txBusy THEN 1 ELSE 0
        gone == Told(s, {"DL_RELEASE_IND", "DL_RELEASE_CNF"})
    IN  \/ gone /\ release_b_st
        \/ /\ ~gone
           /\ l2' = Fresh(s)
           /\ txCnt' = txCnt + s.cnt - loaded
           /\ sq' = sq + Len(s.out) - loaded
           /\ deact' = (deact \/ "PH_DEACTIVATE" \in s.req)
           /\ chan' = IF chan = "wait"
                         /\ Told(s, {"DL_ESTABLISH_IND", "DL_ESTABLISH_CNF"})
                      THEN "active" ELSE chan

-----------------------------------------------------------------------------
(* The call control and the link level *)

\* init_b_st and DL_ESTABLISH | REQUEST of lli_init_bchan_out and _in.
lli_init_bchan(out) ==
    /\ chan = "closed"
    /\ l2' = Fresh(DlEstablishReq(InitL2(out)))
    /\ chan' = "wait"
    /\ UNCHANGED <<txCnt, sq, deact>>

HiSax_writebuf_skb(d) ==
    /\ chan = "active" /\ txCnt + 1 <= MAX_DATA_MEM
    /\ Becomes(EvDlData(l2, d))

lli_disconn_bchan ==
    /\ chan = "active"
    /\ LET s == DlReleaseReq(l2)
       IN  IF Told(s, {"DL_RELEASE_CNF"}) THEN release_b_st
           ELSE /\ chan' = "release" /\ deact' = TRUE /\ l2' = Fresh(s)
                /\ LET loaded == IF s.out # <<>> /\ ~l2.txBusy THEN 1 ELSE 0
                   IN  /\ txCnt' = txCnt + s.cnt - loaded
                       /\ sq' = sq + Len(s.out) - loaded

\* DISCONNECT or RELEASE on the D channel.
lli_rel_b == chan \in {"wait", "release"} /\ release_b_st

-----------------------------------------------------------------------------
(* The peer, the timers, layer 1 *)

Hears == chan # "closed" /\ l2.l1Activ /\ sq < MaxSq

UFrame(t, rsp, pf) ==
    [t |-> t, rsp |-> rsp, pf |-> pf, ns |-> 0, nr |-> 0, d |-> NoSkb]

RcvU(t, pf) == Hears /\ Becomes(PhData(l2, UFrame(t, t \in {"UA", "DM"}, pf), <<>>, <<>>))

RcvSuper(t, rsp, pf, nr) ==
    /\ Hears /\ l2.st \in {7, 8}
    /\ Becomes(EvSuper(l2, [t |-> t, rsp |-> rsp, pf |-> pf, ns |-> 0, nr |-> nr,
                            d |-> NoSkb], <<>>))

RcvI(pf, ns, nr, d) ==
    /\ Hears /\ l2.st \in {7, 8}
    /\ Becomes(EvI(l2, [t |-> "I", rsp |-> FALSE, pf |-> pf, ns |-> ns, nr |-> nr,
                        d |-> d], <<>>, <<>>))

L1Up == chan = "wait" /\ ~l2.l1Activ /\ ~deact /\ Becomes(PhActivate(l2))
L1Down == deact /\ Becomes(PhDeactivate(l2))

T200 == l2.t200 /\ Becomes(EvT200(l2))
T203 == l2.t203 /\ Becomes(EvT203(l2))

\* hscx_interrupt, XPR at the end of a frame: the next one of squeue.
XPR ==
    /\ l2.txBusy
    /\ \/ sq > 0 /\ sq' = sq - 1 /\ txCnt' = txCnt - 1 /\ UNCHANGED l2
       \/ sq = 0 /\ l2' = PhTxDone(l2) /\ UNCHANGED <<txCnt, sq>>
    /\ UNCHANGED <<chan, deact>>

PullConfirm == ~l2.txBusy /\ l2.pullReq /\ Becomes(PhPullConfirm(l2))

Init == l2 = NoStack /\ chan = "closed" /\ txCnt = 0 /\ sq = 0 /\ deact = FALSE

Next ==
    \/ \E out \in BOOLEAN : lli_init_bchan(out)
    \/ lli_disconn_bchan \/ lli_rel_b
    \/ \E d \in Data : HiSax_writebuf_skb(d)
    \/ \E t \in {"SABME", "DISC", "UA", "DM", "FRMR"}, pf \in BOOLEAN : RcvU(t, pf)
    \/ \E t \in STypes, rsp, pf \in BOOLEAN, nr \in SeqNo : RcvSuper(t, rsp, pf, nr)
    \/ \E pf \in BOOLEAN, ns, nr \in SeqNo, d \in Data : RcvI(pf, ns, nr, d)
    \/ L1Up \/ L1Down \/ T200 \/ T203 \/ XPR \/ PullConfirm

Spec == Init /\ [][Next]_vars

-----------------------------------------------------------------------------
(* Correctness *)

Waiting == Len(l2.iq) + sq
Unacked == {i \in Slots : l2.win[i] # NoSkb}

\* Nothing waits in the driver that tx_cnt does not count, although frames
\* are counted when they are written and once more when they are repeated.
Covered == Waiting <= txCnt

\* What one channel can hold of the frames of the link level is bounded: the
\* limit of HiSax_writebuf_skb, and one window more.
Bounded == Len(l2.iq) + Cardinality(Unacked) <= MAX_DATA_MEM + Window

\* A write that finds no space is refused because something is on its way
\* out, or waits for an answer: not for ever.
TemporaryLack ==
    chan = "active" /\ txCnt >= MAX_DATA_MEM =>
        Waiting > 0 \/ l2.txBusy \/ l2.va # l2.vs \/ l2.st = 5
=============================================================================

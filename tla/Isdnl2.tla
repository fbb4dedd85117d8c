------------------------------- MODULE Isdnl2 -------------------------------
(***************************************************************************)
(* One layer-2 entity of the HiSax driver: LAPD on the D channel, LAPB     *)
(* (X.75) on a B channel.  drivers/isdn/hisax/isdnl2.c, with the timers of *)
(* fsm.c.                                                                  *)
(*                                                                         *)
(* A handler of the finite state machine runs to completion in the bottom  *)
(* half, and calls the layers below and above it as it goes.  It is        *)
(* therefore an operator from the state of the entity to its next state,   *)
(* named as in the source; the fields cnt, out, up, req and warn collect   *)
(* what the handler added to bcs->tx_cnt and passed to layer 1, to layer   *)
(* 3, to the management entities and to the kernel log.  The modules that  *)
(* use this one say who calls which handler when.                          *)
(*                                                                         *)
(* FLG_OWN_BUSY is left out: no code raises EV_L2_SET_OWN_BUSY.            *)
(***************************************************************************)
EXTENDS Integers, Sequences

CONSTANTS
    Mod,        \* sequence numbers are taken modulo 8, or 128 (FLG_MOD128)
    Window,     \* l2.window: 1 or 7
    N200,       \* retries
    LAPD,       \* FLG_LAPD, else FLG_LAPB
    Data,       \* the contents of the sk_buffs of I frames
    NoSkb       \* the NULL pointer

ASSUME L2Assumption ==
    /\ Window \in Nat \ {0}
    /\ Mod \in Nat /\ Window < Mod
    /\ N200 \in Nat \ {0}
    /\ LAPD \in BOOLEAN
    /\ NoSkb \notin Data

SeqNo == 0 .. Mod - 1
Slots == 0 .. Window - 1

UTypes == {"SABME", "DISC", "UA", "DM", "FRMR", "UI"}
STypes == {"RR", "RNR", "REJ"}

Frame == [t : UTypes \cup STypes \cup {"I"}, rsp : BOOLEAN, pf : BOOLEAN,
          ns : SeqNo, nr : SeqNo, d : Data \cup {NoSkb}]

Prims == {"DL_ESTABLISH_IND", "DL_ESTABLISH_CNF", "DL_RELEASE_IND",
          "DL_RELEASE_CNF", "DL_DATA_IND", "DL_UNIT_DATA_IND"}

\* MDL_ERROR indications by their letter, and requests to other layers.
Requests == {"A", "B", "C", "D", "E", "F", "G", "H", "I", "J", "K", "L",
             "MDL_ASSIGN", "PH_ACTIVATE", "PH_DEACTIVATE"}

\* What a kernel log would show: a NULL dereference, the printk of
\* l2_pull_iqueue, and the printk of FsmAddTimer.
Warnings == {"null skb", "overwrite ack queue", "timer already active"}

L2State ==
    [st : 1 .. 8, orig : BOOLEAN, tei : BOOLEAN,
     vs : SeqNo, va : SeqNo, vr : SeqNo, rc : 0 .. N200,
     sow : Slots, win : [Slots -> Data \cup {NoSkb}],
     iq : Seq(Data), ui : Nat,
     peerBusy : BOOLEAN, rejExc : BOOLEAN, ackPend : BOOLEAN,
     pendRel : BOOLEAN, l3Init : BOOLEAN, estabPend : BOOLEAN,
     l1Activ : BOOLEAN, dchanBusy : BOOLEAN, l2block : BOOLEAN,
     t200Run : BOOLEAN, t200 : BOOLEAN, t203 : BOOLEAN,
     txBusy : BOOLEAN, pullReq : BOOLEAN,
     cnt : Nat, out : Seq(Frame), up : Seq([p : Prims, d : Data \cup {NoSkb}]),
     req : SUBSET Requests, warn : SUBSET Warnings]

EmptyWin == [i \in Slots |-> NoSkb]

\* setstack_isdnl2; on a D channel no TEI is assigned yet.
InitL2(orig) ==
    [st |-> IF LAPD THEN 1 ELSE 4, orig |-> orig, tei |-> ~LAPD,
     vs |-> 0, va |-> 0, vr |-> 0, rc |-> 0,
     sow |-> 0, win |-> EmptyWin, iq |-> <<>>, ui |-> 0,
     peerBusy |-> FALSE, rejExc |-> FALSE, ackPend |-> FALSE,
     pendRel |-> FALSE, l3Init |-> FALSE, estabPend |-> FALSE,
     l1Activ |-> FALSE, dchanBusy |-> FALSE, l2block |-> FALSE,
     t200Run |-> FALSE, t200 |-> FALSE, t203 |-> FALSE,
     txBusy |-> FALSE, pullReq |-> FALSE,
     cnt |-> 0, out |-> <<>>, up |-> <<>>, req |-> {}, warn |-> {}]

\* A step begins with nothing passed on yet.
Fresh(s) == [s EXCEPT !.cnt = 0, !.out = <<>>, !.up = <<>>, !.req = {}, !.warn = {}]

-----------------------------------------------------------------------------
(* Arithmetic on sequence numbers and on the ring of unacknowledged frames *)

Dist(a, b) == IF b >= a THEN b - a ELSE b - a + Mod
Inc(n) == IF n = Mod - 1 THEN 0 ELSE n + 1
Outstanding(s) == Dist(s.va, s.vs)

\* The slot of windowar that is k behind sow, and how far behind a slot is.
Slot(s, k) == IF s.sow + k >= Window THEN s.sow + k - Window ELSE s.sow + k
Behind(s, i) == IF i >= s.sow THEN i - s.sow ELSE i - s.sow + Window

\* Mutant: one frame too many.
cansend_bug(s) == Outstanding(s) <= Window /\ ~s.peerBusy
cansend(s) == Outstanding(s) < Window /\ ~s.peerBusy
legalnr(s, nr) == Dist(s.va, nr) <= Outstanding(s)

-----------------------------------------------------------------------------
(* Timers and flags *)

Warn(s, b, w) == IF b THEN [s EXCEPT !.warn = @ \cup {w}] ELSE s
Ask(s, r) == [s EXCEPT !.req = @ \cup {r}]

\* FsmAddTimer leaves a pending timer alone and complains.
AddT200(s) == [Warn(s, s.t200, "timer already active") EXCEPT !.t200 = TRUE]
AddT203(s) == [Warn(s, s.t203, "timer already active") EXCEPT !.t203 = TRUE]
start_t200(s) == [AddT200(s) EXCEPT !.t200Run = TRUE]
restart_t200(s) == [s EXCEPT !.t200 = TRUE, !.t200Run = TRUE]
\* Mutant: the flag is left set.
stop_t200_bug(s) == IF s.t200Run THEN [s EXCEPT !.t200 = FALSE] ELSE s
stop_t200(s) == IF s.t200Run THEN [s EXCEPT !.t200Run = FALSE, !.t200 = FALSE] ELSE s
RestartT203(s) == [s EXCEPT !.t203 = TRUE]
DelT203(s) == [s EXCEPT !.t203 = FALSE]
FsmChangeState(s, st) == [s EXCEPT !.st = st]

set_peer_busy(s) ==
    [s EXCEPT !.peerBusy = TRUE, !.l2block = @ \/ s.iq # <<>> \/ s.ui > 0]
clear_peer_busy(s) ==
    [s EXCEPT !.peerBusy = FALSE, !.l2block = @ /\ ~s.peerBusy]
clear_exception(s) ==
    clear_peer_busy([s EXCEPT !.ackPend = FALSE, !.rejExc = FALSE])

freewin(s) == [s EXCEPT !.win = EmptyWin]
PurgeI(s) == [s EXCEPT !.iq = <<>>]
PurgeUI(s) == [s EXCEPT !.ui = 0]
ResetVars(s) == [s EXCEPT !.vs = 0, !.va = 0, !.vr = 0, !.sow = 0]

-----------------------------------------------------------------------------
(* Frames down, primitives up *)

Send(s, f) == [s EXCEPT !.out = Append(@, f), !.txBusy = TRUE]

\* On a B channel, frames on their way to the wire are counted in tx_cnt,
\* here in frames; an I frame is counted when layer 3 writes it.
AddTxCnt(s, n) == IF LAPD THEN s ELSE [s EXCEPT !.cnt = @ + n]
enqueue_super(s, f) == Send(AddTxCnt(s, 1), f)

send_uframe(s, t, rsp, pf) ==
    enqueue_super(s, [t |-> t, rsp |-> rsp, pf |-> pf, ns |-> 0, nr |-> 0, d |-> NoSkb])

l2_send_UA(s, pf) == send_uframe(s, "UA", TRUE, pf)
l2_send_DM(s, pf) == send_uframe(s, "DM", TRUE, pf)

enquiry_cr(s, t, rsp, pf) ==
    enqueue_super(s, [t |-> t, rsp |-> rsp, pf |-> pf, ns |-> 0, nr |-> s.vr, d |-> NoSkb])

enquiry_response(s) == [enquiry_cr(s, "RR", TRUE, TRUE) EXCEPT !.ackPend = FALSE]
transmit_enquiry(s) ==
    start_t200([enquiry_cr(s, "RR", FALSE, TRUE) EXCEPT !.ackPend = FALSE])

L2L3(s, p, d) == [s EXCEPT !.up = Append(@, [p |-> p, d |-> d])]
Tell(s, p) == L2L3(s, p, NoSkb)

lapb_dl_release_l2l3(s, p) ==
    Tell(IF LAPD THEN s ELSE Ask(s, "PH_DEACTIVATE"), p)

st5_dl_release_l2l3(s) ==
    Tell([s EXCEPT !.pendRel = FALSE],
         IF s.pendRel THEN "DL_RELEASE_CNF" ELSE "DL_RELEASE_IND")

tx_ui(s) ==
    IF s.ui = 0 THEN s
    ELSE [AddTxCnt(s, s.ui) EXCEPT !.ui = 0, !.txBusy = TRUE,
                   !.out = @ \o [i \in 1 .. s.ui |->
                       [t |-> "UI", rsp |-> FALSE, pf |-> FALSE,
                        ns |-> 0, nr |-> 0, d |-> NoSkb]]]

\* Mutant: FLG_ACK_PEND is cleared before the early returns.
l2_pull_iqueue_bug(s) ==
    IF ~cansend(s) \/ s.iq = <<>> THEN [s EXCEPT !.ackPend = FALSE]
    ELSE LET slot == Slot(s, Outstanding(s))
             s2 == Send([s EXCEPT !.iq = Tail(@), !.win[slot] = Head(s.iq),
                                  !.vs = Inc(@), !.ackPend = FALSE],
                        [t |-> "I", rsp |-> FALSE, pf |-> FALSE,
                         ns |-> s.vs, nr |-> s.vr, d |-> Head(s.iq)])
         IN  IF s.t200Run THEN s2 ELSE start_t200(DelT203(s2))

(***************************************************************************)
(* Layer 2 sends an I frame only when layer 1 pulls it.  Layer 1 answers   *)
(* PH_PULL|REQUEST at once when its transmitter is idle, and remembers     *)
(* FLG_L1_PULL_REQ otherwise; only ST_L2_7 has a routine for the answer.   *)
(***************************************************************************)
l2_pull_iqueue(s) ==
    IF ~cansend(s) \/ s.iq = <<>> THEN s
    ELSE LET slot == Slot(s, Outstanding(s))
             idle == ~s.t200Run
             s1 == Warn(s, s.win[slot] # NoSkb, "overwrite ack queue")
             s2 == Send([s1 EXCEPT !.iq = Tail(@), !.win[slot] = Head(s.iq),
                                   !.vs = Inc(@), !.ackPend = FALSE],
                        [t |-> "I", rsp |-> FALSE, pf |-> FALSE,
                         ns |-> s.vs, nr |-> s.vr, d |-> Head(s.iq)])
             s3 == IF idle THEN start_t200(DelT203(s2)) ELSE s2
         IN  [s3 EXCEPT !.pullReq = @ \/ (s3.iq # <<>> /\ cansend(s3))]

AckPull(s) == IF s.st = 7 THEN l2_pull_iqueue(s) ELSE s

PullRequest(s) ==
    IF s.txBusy THEN [s EXCEPT !.pullReq = TRUE]
    ELSE AckPull([s EXCEPT !.pullReq = FALSE])

PullIfWaiting(s) == IF s.iq # <<>> /\ cansend(s) THEN PullRequest(s) ELSE s

\* DL_DATA|REQUEST: a frame that no routine takes is freed.
\* Mutant: a frame that goes to the queue in ST_L2_8 is not counted.
EvDlData_bug(s, d) ==
    LET counted == AddTxCnt(s, 1)
    IN  CASE s.st = 5 -> IF s.l3Init THEN counted ELSE [counted EXCEPT !.iq = Append(@, d)]
          [] s.st = 7 -> PullRequest([counted EXCEPT !.iq = Append(@, d)])
          [] s.st = 8 -> [s EXCEPT !.iq = Append(@, d)]
          [] OTHER -> s
EvDlData(s, d) ==
    LET counted == AddTxCnt(s, 1)
        queued == [counted EXCEPT !.iq = Append(@, d)]
    IN  CASE s.st = 5 -> IF s.l3Init THEN counted ELSE queued
          [] s.st = 7 -> PullRequest(queued)
          [] s.st = 8 -> queued
          [] OTHER -> s

\* What a callback into the upper layer writes before it returns: nothing,
\* or one frame.
Refill(s, ds) == IF ds = <<>> THEN s ELSE EvDlData(s, Head(ds))

(***************************************************************************)
(* setva releases the frames from va up to nr, and wakes the writer after  *)
(* each: what it writes meanwhile goes behind the frames still to be       *)
(* released, so the writes are taken at the end.                           *)
(***************************************************************************)
setva(s, nr, ds) ==
    LET n == Dist(s.va, nr)
        acked == {i \in Slots : Behind(s, i) < n}
        s1 == Warn(s, \E i \in acked : s.win[i] = NoSkb, "null skb")
        s2 == [s1 EXCEPT !.va = nr, !.sow = Slot(s, n),
                         !.win = [i \in Slots |->
                             IF i \in acked THEN NoSkb ELSE s.win[i]]]
    IN  IF n = 0 THEN s ELSE Refill(s2, IF LAPD THEN <<>> ELSE ds)

\* Mutant: the frames come back in the wrong order.
invoke_retransmission_bug(s, nr) ==
    LET n == Dist(nr, s.vs)
        base == Dist(s.va, nr)
        s2 == [s EXCEPT !.vs = nr,
                        !.iq = [k \in 1 .. n |-> s.win[Slot(s, base + n - k)]] \o @,
                        !.win = EmptyWin]
    IN  IF n = 0 THEN s ELSE PullRequest(s2)

\* Mutant: vs is not set back.
invoke_retransmission_keepvs(s, nr) ==
    LET n == Dist(nr, s.vs)
        base == Dist(s.va, nr)
        s2 == [s EXCEPT !.iq = [k \in 1 .. n |-> s.win[Slot(s, base + k - 1)]] \o @,
                        !.win = EmptyWin]
    IN  IF n = 0 THEN s ELSE PullRequest(s2)

\* Mutant: what is sent again is not counted again.
invoke_retransmission_uncounted(s, nr) ==
    LET n == Dist(nr, s.vs)
        base == Dist(s.va, nr)
        again == {i \in Slots : Behind(s, i) >= base /\ Behind(s, i) < base + n}
        s2 == [s EXCEPT !.vs = nr,
                        !.iq = [k \in 1 .. n |-> s.win[Slot(s, base + k - 1)]] \o @,
                        !.win = [i \in Slots |->
                            IF i \in again THEN NoSkb ELSE s.win[i]]]
    IN  IF n = 0 THEN s ELSE PullRequest(s2)

\* The frames from nr up to vs go back to the head of the queue.
invoke_retransmission(s, nr) ==
    LET n == Dist(nr, s.vs)
        base == Dist(s.va, nr)
        again == {i \in Slots : Behind(s, i) >= base /\ Behind(s, i) < base + n}
        s1 == Warn(s, \E i \in again : s.win[i] = NoSkb, "null skb")
        s2 == [AddTxCnt(s1, n) EXCEPT !.vs = nr,
                         !.iq = [k \in 1 .. n |-> s.win[Slot(s, base + k - 1)]] \o @,
                         !.win = [i \in Slots |->
                             IF i \in again THEN NoSkb ELSE s.win[i]]]
    IN  IF n = 0 THEN s ELSE PullRequest(s2)
-----------------------------------------------------------------------------
(* Establishing and releasing the link *)

establishlink(s) ==
    LET s1 == send_uframe([clear_exception(s) EXCEPT !.rc = 0], "SABME", FALSE, TRUE)
        s2 == restart_t200(DelT203(s1))
    IN  FsmChangeState(freewin([s2 EXCEPT !.pendRel = FALSE]), 5)

\* Re-establishment on layer 2's own account, and for layer 3.
Reestablish(s) == [establishlink(s) EXCEPT !.l3Init = FALSE]
l2_establish(s) == [establishlink(s) EXCEPT !.l3Init = TRUE]
l2_l3_reestablish(s) == l2_establish(PurgeI(s))
nrerrorrecovery(s) == Reestablish(Ask(s, "J"))

l2_disconnect(s) ==
    LET s1 == [FsmChangeState(freewin(PurgeI(s)), 6) EXCEPT !.rc = 0]
    IN  restart_t200(DelT203(send_uframe(s1, "DISC", FALSE, TRUE)))

l2_start_multi(s, pf) ==
    LET s1 == ResetVars(clear_exception(send_uframe(s, "UA", TRUE, pf)))
    IN  Tell(AddT203(FsmChangeState(s1, 7)), "DL_ESTABLISH_IND")

\* Mutant: vs and va are compared after they were reset.
l2_restart_multi_bug(s, pf) ==
    LET s1 == Ask(send_uframe(s, "UA", TRUE, pf), "F")
    IN  PullIfWaiting(RestartT203(stop_t200(
            FsmChangeState(ResetVars(clear_exception(s1)), 7))))
l2_restart_multi(s, pf) ==
    LET s1 == Ask(send_uframe(s, "UA", TRUE, pf), "F")
        est == s.vs # s.va
        s2 == IF est THEN PurgeI(s1) ELSE s1
        s3 == RestartT203(stop_t200(
                  FsmChangeState(ResetVars(clear_exception(s2)), 7)))
    IN  PullIfWaiting(IF est THEN Tell(s3, "DL_ESTABLISH_IND") ELSE s3)

\* Mutant: the queue survives the link.
l2_stop_multi_bug(s, pf) ==
    LET s1 == stop_t200(DelT203(FsmChangeState(s, 4)))
    IN  lapb_dl_release_l2l3(
            freewin(send_uframe(s1, "UA", TRUE, pf)), "DL_RELEASE_IND")
l2_stop_multi(s, pf) ==
    LET s1 == stop_t200(DelT203(FsmChangeState(s, 4)))
    IN  lapb_dl_release_l2l3(
            freewin(PurgeI(send_uframe(s1, "UA", TRUE, pf))), "DL_RELEASE_IND")

l2_mdl_error_ua(s, pf) == Ask(s, IF pf THEN "C" ELSE "D")

\* A release that waits in FLG_PEND_REL sends DISC and enters ST_L2_6, and
\* the code goes on to ST_L2_7 all the same.
l2_connected(s, pf) ==
    LET s1 == IF s.pendRel THEN l2_disconnect([s EXCEPT !.pendRel = FALSE]) ELSE s
        reset == ~s.l3Init /\ s.vs # s.va
        s2 == IF reset THEN PurgeI(s1) ELSE [s1 EXCEPT !.l3Init = FALSE]
        s3 == AddT203(FsmChangeState(ResetVars(stop_t200(s2)), 7))
        s4 == CASE s.l3Init -> Tell(s3, "DL_ESTABLISH_CNF")
                [] reset -> Tell(s3, "DL_ESTABLISH_IND")
                [] OTHER -> s3
    IN  IF pf THEN PullIfWaiting(s4) ELSE l2_mdl_error_ua(s, pf)

l2_released(s, pf) ==
    IF pf THEN FsmChangeState(lapb_dl_release_l2l3(stop_t200(s), "DL_RELEASE_CNF"), 4)
    ELSE l2_mdl_error_ua(s, pf)

l2_reestablish(s, pf) == IF pf THEN s ELSE l2_establish(s)

l2_st5_dm_release(s, pf) ==
    LET s1 == stop_t200(s)
        s2 == IF s.l3Init THEN s1 ELSE PurgeI(s1)
        s3 == IF LAPD THEN s2 ELSE Ask(s2, "PH_DEACTIVATE")
    IN  IF pf THEN FsmChangeState(st5_dl_release_l2l3(s3), 4) ELSE s

l2_st6_dm_release(s, pf) ==
    IF pf THEN FsmChangeState(lapb_dl_release_l2l3(stop_t200(s), "DL_RELEASE_CNF"), 4)
    ELSE s

l2_mdl_error_dm(s, pf) == IF pf THEN Ask(s, "B") ELSE Reestablish(Ask(s, "E"))
l2_st8_mdl_error_dm(s, pf) == Reestablish(Ask(s, IF pf THEN "B" ELSE "E"))

\* FRMR of an I or S frame, or of a UA in ST_L2_7; others are ignored.
l2_got_FRMR(s, rejected) ==
    IF rejected \in {"I", "S"} \/ (rejected = "UA" /\ s.st = 7)
    THEN Reestablish(Ask(s, "K")) ELSE s

-----------------------------------------------------------------------------
(* Supervisory and information frames *)

GotNr(s, f) == IF f.t = "RNR" THEN set_peer_busy(s) ELSE clear_peer_busy(s)

l2_st7_got_super(s, f, ds) ==
    LET s1 == GotNr(s, f)
        s2 == IF ~f.pf THEN s1
              ELSE IF f.rsp THEN Ask(s1, "A") ELSE enquiry_response(s1)
        rr == f.t = "RR"
        s3 == IF f.t = "REJ"
              THEN RestartT203(stop_t200(    \* the caller sees FsmAddTimer fail
                       invoke_retransmission(setva(s2, f.nr, ds), f.nr)))
              ELSE IF rr /\ f.nr = s2.vs
              THEN RestartT203(stop_t200(setva(s2, f.nr, ds)))
              ELSE IF f.nr # s2.va \/ f.t = "RNR"
              THEN LET a == setva(s2, f.nr, ds)
                   IN  restart_t200(IF rr THEN a ELSE DelT203(a))
              ELSE s2
    IN  IF ~legalnr(s2, f.nr) THEN nrerrorrecovery(s2)
        ELSE IF rr /\ s3.iq # <<>> THEN PullRequest(s3) ELSE s3

l2_st8_got_super(s, f, ds) ==
    LET s1 == GotNr(s, f)
        rnr == f.t = "RNR"
        s2 == IF rnr THEN restart_t200(s1)
              ELSE setva(AddT203(stop_t200(s1)), f.nr, ds)
        s3 == FsmChangeState(invoke_retransmission(s2, f.nr), 7)
        s4 == IF f.pf /\ ~f.rsp THEN enquiry_response(s1) ELSE s1
    IN  IF ~legalnr(s1, f.nr) THEN nrerrorrecovery(s4)
        ELSE IF f.pf /\ f.rsp THEN PullIfWaiting(s3)
        ELSE setva(s4, f.nr, ds)

\* The information part: deliver in sequence, reject once out of sequence.
Accept(s, f, reply) ==
    LET a == [s EXCEPT !.vr = Inc(@), !.rejExc = FALSE]
        b == IF f.pf THEN enquiry_response(a) ELSE [a EXCEPT !.ackPend = TRUE]
    IN  Refill(L2L3(b, "DL_DATA_IND", f.d), reply)

Reject(s, f) ==
    IF ~s.rejExc
    THEN [enquiry_cr(s, "REJ", TRUE, f.pf) EXCEPT !.rejExc = TRUE, !.ackPend = FALSE]
    ELSE IF f.pf THEN enquiry_response(s) ELSE s

l2_got_iframe(s, f, reply, ds) ==
    LET s1 == IF s.vr = f.ns THEN Accept(s, f, reply) ELSE Reject(s, f)
        s2 == IF s1.peerBusy \/ s1.st # 7 THEN s1
              ELSE IF f.nr = s1.vs THEN RestartT203(stop_t200(s1))
              ELSE IF f.nr # s1.va THEN restart_t200(s1) ELSE s1
        s3 == setva(s2, f.nr, ds)
        s4 == IF s3.iq # <<>> /\ s3.st = 7 THEN PullRequest(s3) ELSE s3
    IN  IF ~legalnr(s1, f.nr) THEN nrerrorrecovery(s1)
        ELSE IF s4.ackPend
        THEN enquiry_cr([s4 EXCEPT !.ackPend = FALSE], "RR", TRUE, FALSE)
        ELSE s4

-----------------------------------------------------------------------------
(* Timers *)

DChanWait(s) == LAPD /\ s.dchanBusy

l2_st5_tout_200(s) ==
    IF DChanWait(s) THEN AddT200(s)
    ELSE IF s.rc = N200
    THEN LET s1 == Ask(PurgeI([FsmChangeState(s, 4) EXCEPT !.t200Run = FALSE]), "G")
         IN  st5_dl_release_l2l3(IF LAPD THEN s1 ELSE Ask(s1, "PH_DEACTIVATE"))
    ELSE send_uframe(AddT200([s EXCEPT !.rc = @ + 1]), "SABME", FALSE, TRUE)

l2_st6_tout_200(s) ==
    IF DChanWait(s) THEN AddT200(s)
    ELSE IF s.rc = N200
    THEN lapb_dl_release_l2l3(
             Ask([FsmChangeState(s, 4) EXCEPT !.t200Run = FALSE], "H"), "DL_RELEASE_CNF")
    ELSE send_uframe(AddT200([s EXCEPT !.rc = @ + 1]), "DISC", FALSE, TRUE)

l2_st7_tout_200(s) ==
    IF DChanWait(s) THEN AddT200(s)
    ELSE [transmit_enquiry(FsmChangeState([s EXCEPT !.t200Run = FALSE], 8))
              EXCEPT !.rc = 1]

\* Mutant: the enquiry is repeated without limit.
l2_st8_tout_200_bug(s) ==
    IF DChanWait(s) THEN AddT200(s)
    ELSE [transmit_enquiry([s EXCEPT !.t200Run = FALSE]) EXCEPT !.rc = @ + 1]
l2_st8_tout_200(s) ==
    IF DChanWait(s) THEN AddT200(s)
    ELSE LET s1 == [s EXCEPT !.t200Run = FALSE]
         IN  IF s.rc = N200 THEN Reestablish(Ask(s1, "I"))
             ELSE [transmit_enquiry(s1) EXCEPT !.rc = @ + 1]

\* Mutant: the enquiry is sent without starting T200.
l2_st7_tout_203_bug(s) ==
    IF DChanWait(s) THEN AddT203(s)
    ELSE [enquiry_cr(FsmChangeState(s, 8), "RR", FALSE, TRUE) EXCEPT !.rc = 0]
l2_st7_tout_203(s) ==
    IF DChanWait(s) THEN AddT203(s)
    ELSE [transmit_enquiry(FsmChangeState(s, 8)) EXCEPT !.rc = 0]

-----------------------------------------------------------------------------
(* TEI management and loss of layer 1 *)

l2_got_tei(s) ==
    LET s1 == [s EXCEPT !.tei = TRUE]
    IN  tx_ui(IF s.st = 3 THEN l2_establish(s1) ELSE FsmChangeState(s1, 4))

l2_st24_tei_remove(s) == FsmChangeState([PurgeUI(s) EXCEPT !.tei = FALSE], 1)
l2_st3_tei_remove(s) ==
    FsmChangeState(Tell([PurgeUI(s) EXCEPT !.tei = FALSE], "DL_RELEASE_IND"), 1)

l2_st5_tei_remove(s) ==
    LET s1 == stop_t200([freewin(PurgeUI(PurgeI(s))) EXCEPT !.tei = FALSE])
    IN  st5_dl_release_l2l3(FsmChangeState(s1, 1))

l2_st6_tei_remove(s) ==
    FsmChangeState(
        Tell(stop_t200([PurgeUI(s) EXCEPT !.tei = FALSE]), "DL_RELEASE_CNF"), 1)

l2_tei_remove(s) ==
    LET s1 == DelT203(stop_t200([freewin(PurgeUI(PurgeI(s))) EXCEPT !.tei = FALSE]))
    IN  FsmChangeState(Tell(s1, "DL_RELEASE_IND"), 1)

l2_st14_persistant_da(s) ==
    LET s1 == PurgeUI(PurgeI([s EXCEPT !.estabPend = FALSE]))
    IN  IF s.estabPend THEN Tell(s1, "DL_RELEASE_IND") ELSE s1

l2_st5_persistant_da(s) ==
    FsmChangeState(st5_dl_release_l2l3(stop_t200(freewin(PurgeUI(PurgeI(s))))), 4)

\* Mutant: layer 3 does not get its confirm.
l2_st6_persistant_da_bug(s) == FsmChangeState(stop_t200(PurgeUI(s)), 4)
l2_st6_persistant_da(s) ==
    FsmChangeState(Tell(stop_t200(PurgeUI(s)), "DL_RELEASE_CNF"), 4)

\* Mutant: layer 3 is not told.
l2_persistant_da_bug(s) ==
    FsmChangeState(DelT203(stop_t200(freewin(PurgeUI(PurgeI(s))))), 4)
l2_persistant_da(s) ==
    LET s1 == DelT203(stop_t200(freewin(PurgeUI(PurgeI(s)))))
    IN  FsmChangeState(Tell(s1, "DL_RELEASE_IND"), 4)

-----------------------------------------------------------------------------
(* The rows of L2FnList, by event; an event without a routine is dropped. *)

EvSABME(s, f) ==
    CASE s.st = 4 -> l2_start_multi(s, f.pf)
      [] s.st = 5 -> l2_send_UA(s, f.pf)
      [] s.st = 6 -> l2_send_DM(s, f.pf)
      [] s.st \in {7, 8} -> l2_restart_multi(s, f.pf)
      [] OTHER -> s

EvDISC(s, f) ==
    CASE s.st \in {4, 5} -> l2_send_DM(s, f.pf)
      [] s.st = 6 -> l2_send_UA(s, f.pf)
      [] s.st \in {7, 8} -> l2_stop_multi(s, f.pf)
      [] OTHER -> s

EvUA(s, f) ==
    CASE s.st \in {4, 7, 8} -> l2_mdl_error_ua(s, f.pf)
      [] s.st = 5 -> l2_connected(s, f.pf)
      [] s.st = 6 -> l2_released(s, f.pf)
      [] OTHER -> s

EvDM(s, f) ==
    CASE s.st = 4 -> l2_reestablish(s, f.pf)
      [] s.st = 5 -> l2_st5_dm_release(s, f.pf)
      [] s.st = 6 -> l2_st6_dm_release(s, f.pf)
      [] s.st = 7 -> l2_mdl_error_dm(s, f.pf)
      [] s.st = 8 -> l2_st8_mdl_error_dm(s, f.pf)
      [] OTHER -> s

EvFRMR(s, rejected) == IF s.st \in {7, 8} THEN l2_got_FRMR(s, rejected) ELSE s

EvSuper(s, f, ds) ==
    CASE s.st = 7 -> l2_st7_got_super(s, f, ds)
      [] s.st = 8 -> l2_st8_got_super(s, f, ds)
      [] OTHER -> s

EvI(s, f, reply, ds) ==
    IF s.st \in {7, 8} THEN l2_got_iframe(s, f, reply, ds) ELSE s

EvUI(s) == Tell(s, "DL_UNIT_DATA_IND")

\* A frame that the checks of isdnl2_l1l2 refuse.
EvFrameError(s) ==
    CASE s.st \in {4, 5, 6} -> Ask(s, "L")
      [] s.st \in {7, 8} -> Reestablish(Ask(s, "L"))
      [] OTHER -> s

EvDlEstablish(s) ==
    CASE s.st = 1 -> Ask(FsmChangeState(s, 3), "MDL_ASSIGN")
      [] s.st = 2 -> FsmChangeState(s, 3)
      [] s.st = 4 -> l2_establish(s)
      [] s.st = 5 -> [PurgeI(s) EXCEPT !.l3Init = TRUE, !.pendRel = FALSE]
      [] s.st \in {7, 8} -> l2_l3_reestablish(s)
      [] OTHER -> s

EvDlRelease(s) ==
    CASE s.st = 4 -> Tell(s, "DL_RELEASE_CNF")
      [] s.st = 5 -> [s EXCEPT !.pendRel = TRUE]
      [] s.st \in {7, 8} -> l2_disconnect(s)
      [] OTHER -> s

EvDlUnitData(s) ==
    LET s1 == [s EXCEPT !.ui = @ + 1]
    IN  CASE s.st = 1 -> Ask(FsmChangeState(s1, 2), "MDL_ASSIGN")
          [] s.st \in {2, 3} -> s1
          [] OTHER -> tx_ui(s1)

EvMdlAssign(s) == IF s.st \in {1, 2, 3} THEN l2_got_tei(s) ELSE s

EvMdlError(s) ==
    CASE s.st = 2 -> l2_st24_tei_remove(s)
      [] s.st = 3 -> l2_st3_tei_remove(s)
      [] OTHER -> s

EvMdlRemove(s) ==
    CASE s.st = 4 -> l2_st24_tei_remove(s)
      [] s.st = 5 -> l2_st5_tei_remove(s)
      [] s.st = 6 -> l2_st6_tei_remove(s)
      [] s.st \in {7, 8} -> l2_tei_remove(s)
      [] OTHER -> s

EvL1Deactivate(s) ==
    CASE s.st \in {1, 4} -> l2_st14_persistant_da(s)
      [] s.st = 2 -> l2_st24_tei_remove(s)
      [] s.st = 3 -> l2_st3_tei_remove(s)
      [] s.st = 5 -> l2_st5_persistant_da(s)
      [] s.st = 6 -> l2_st6_persistant_da(s)
      [] OTHER -> l2_persistant_da(s)

\* The timer is no longer pending when its event is raised.
EvT200(s0) ==
    LET s == [s0 EXCEPT !.t200 = FALSE]
    IN  CASE s.st = 5 -> l2_st5_tout_200(s)
          [] s.st = 6 -> l2_st6_tout_200(s)
          [] s.st = 7 -> l2_st7_tout_200(s)
          [] s.st = 8 -> l2_st8_tout_200(s)
          [] OTHER -> s

EvT203(s0) ==
    LET s == [s0 EXCEPT !.t203 = FALSE]
    IN  IF s.st = 7 THEN l2_st7_tout_203(s) ELSE s

-----------------------------------------------------------------------------
(* Primitives of layer 1 and layer 3 that do more than raise one event *)

PhActivate(s) ==
    LET s1 == [s EXCEPT !.l1Activ = TRUE, !.estabPend = FALSE]
    IN  IF s.estabPend THEN EvDlEstablish(s1) ELSE s1

PhDeactivate(s) == EvL1Deactivate([s EXCEPT !.l1Activ = FALSE])

DlEstablishReq(s) ==
    LET mayCall == LAPD \/ s.orig
    IN  IF s.l1Activ
        THEN IF mayCall THEN EvDlEstablish(s) ELSE s
        ELSE Ask([s EXCEPT !.estabPend = @ \/ mayCall], "PH_ACTIVATE")

DlReleaseReq(s) == EvDlRelease(IF LAPD THEN s ELSE Ask(s, "PH_DEACTIVATE"))

PhPause(s, busy) == [s EXCEPT !.dchanBusy = busy]

\* The transmitter runs empty in the interrupt; the bottom half then answers
\* a pull that layer 1 has remembered.
PhTxDone(s) == [s EXCEPT !.txBusy = FALSE]
PhPullConfirm(s) == AckPull([s EXCEPT !.pullReq = FALSE])

\* What isdnl2_l1l2 makes of a frame.  FRMR is taken to reject an I frame.
PhData(s, f, reply, ds) ==
    CASE f.t = "I" -> EvI(s, f, reply, ds)
      [] f.t \in STypes -> EvSuper(s, f, ds)
      [] f.t = "UI" -> EvUI(s)
      [] f.t = "SABME" -> EvSABME(s, f)
      [] f.t = "DISC" -> EvDISC(s, f)
      [] f.t = "UA" -> EvUA(s, f)
      [] f.t = "DM" -> EvDM(s, f)
      [] OTHER -> EvFRMR(s, "I")
=============================================================================

------------------------------- MODULE L2Peer -------------------------------
(***************************************************************************)
(* One layer-2 entity (Isdnl2) in an arbitrary environment.  The peer may  *)
(* send any well-formed frame, and garbage, at any time; layer 3 may call  *)
(* any primitive between two handlers; layer 1 comes up and goes down as   *)
(* it likes and timers expire late or early.                               *)
(*                                                                         *)
(* Every action is one call from the bottom half, the timer queue or the   *)
(* link level that runs a handler of isdnl2.c to completion.  From within  *)
(* a callback layer 3 makes two kinds of calls: it writes while frames are *)
(* delivered or acknowledged (Writes), and it asks for the link again when *)
(* it is told of a release (Hasty): l3dss1_dl_reestablish and lc_activate. *)
(***************************************************************************)
EXTENDS Isdnl2

CONSTANTS
    MaxQ,       \* bound: layer 3 writes while fewer frames wait in i_queue
    MaxUi       \* bound: the same for ui_queue

ASSUME BoundsAssumption == MaxQ \in Nat /\ MaxUi \in Nat

VARIABLES
    l2,         \* the entity, with the outputs of its last step taken away
    l3up,       \* what the primitives so far have told layer 3: link is up
    lost,       \* data of layer 3 was discarded and layer 3 not told since
    relReq,     \* layer 3 has asked for the release of a link, and not since for one
    unacked,    \* the last step delivered a frame and did not acknowledge it
    log,        \* what the last step printed
    overtaken   \* FLG_T200_RUN is set by a Hasty step, and not true again since

vars == <<l2, l3up, lost, relReq, unacked, log, overtaken>>

-----------------------------------------------------------------------------
(* What a step means for layer 3 *)

Filled(s) == {i \in Slots : s.win[i] # NoSkb}
Current(s) == {i \in Slots : Behind(s, i) < Outstanding(s)}

UpPrims == {"DL_ESTABLISH_IND", "DL_ESTABLISH_CNF"}
DownPrims == {"DL_RELEASE_IND", "DL_RELEASE_CNF"}
LinkPrims(s) == {i \in 1 .. Len(s.up) : s.up[i].p \in UpPrims \cup DownPrims}

\* The view of the link that the primitives of a step leave layer 3 with.
ViewAfter(s, view) ==
    IF LinkPrims(s) = {} THEN view
    ELSE \E i \in LinkPrims(s) :
             s.up[i].p \in UpPrims /\ \A j \in LinkPrims(s) : j <= i

\* What layer 2 owes layer 3: frames queued, and sent but unacknowledged.
Owed(s) == Len(s.iq) + (IF s.st \in {7, 8} THEN Outstanding(s) ELSE 0)

Delivered(s) == \E i \in 1 .. Len(s.up) : s.up[i].p = "DL_DATA_IND"
Acknowledges(s) ==
    \/ s.st = 5
    \/ \E i \in 1 .. Len(s.out) :
           s.out[i].t \in STypes \cup {"I"} /\ s.out[i].nr = s.vr

\* What the step that leads to s, in which layer 3 wrote fed frames, does.
Effect(s, fed) ==
    /\ l2' = Fresh(s)
    /\ l3up' = ViewAfter(s, l3up)
    /\ lost' = /\ lost \/ Owed(s) < Owed(l2) - Dist(l2.va, s.va) + fed
               /\ LinkPrims(s) = {}
    /\ unacked' = (Delivered(s) /\ ~Acknowledges(s))
    /\ log' = s.warn

\* The flag is true again when it is cleared, or T200 is started for a link.
Step(s, fed) ==
    /\ Effect(s, fed)
    /\ overtaken' = (overtaken /\ s.t200Run /\ (s.st \in 1 .. 4 \/ ~s.t200))

\* relReq after a step in which layer 3 made no request.
Released(s) == relReq' = (relReq /\ LinkPrims(s) = {})

Call(s) == Step(s, 0) /\ Released(s)

-----------------------------------------------------------------------------
(* Frames from the peer: layer 1 delivers them only while it is active *)

UFrame(t, rsp, pf) ==
    [t |-> t, rsp |-> rsp, pf |-> pf, ns |-> 0, nr |-> 0, d |-> NoSkb]

RcvSABME(pf) == l2.l1Activ /\ Call(EvSABME(l2, UFrame("SABME", FALSE, pf)))
RcvDISC(pf) == l2.l1Activ /\ Call(EvDISC(l2, UFrame("DISC", FALSE, pf)))
RcvUA(pf) == l2.l1Activ /\ Call(EvUA(l2, UFrame("UA", TRUE, pf)))
RcvDM(pf) == l2.l1Activ /\ Call(EvDM(l2, UFrame("DM", TRUE, pf)))
RcvFRMR(rejected) == l2.l1Activ /\ Call(EvFRMR(l2, rejected))
RcvUI == l2.l1Activ /\ Call(EvUI(l2))
RcvBad == l2.l1Activ /\ Call(EvFrameError(l2))

\* What layer 3 may write from within a callback.
Writes == {<<>>} \cup (IF Len(l2.iq) < MaxQ THEN {<<d>> : d \in Data} ELSE {})

\* What layer 3 did write: replies go with a delivery, wakeups of layer 3 on
\* a B channel with an acknowledgement.
Wrote(s, reply, ds) ==
    (IF s.vr # l2.vr THEN Len(reply) ELSE 0)
  + (IF s.va # l2.va /\ ~LAPD THEN Len(ds) ELSE 0)

RcvSuper(t, rsp, pf, nr, ds) ==
    LET f == [t |-> t, rsp |-> rsp, pf |-> pf, ns |-> 0, nr |-> nr, d |-> NoSkb]
        s == EvSuper(l2, f, ds)
    IN  /\ l2.l1Activ /\ l2.st \in {7, 8} /\ (LAPD => ds = <<>>)
        /\ Step(s, Wrote(s, <<>>, ds)) /\ Released(s)

RcvI(pf, ns, nr, d, reply, ds) ==
    LET f == [t |-> "I", rsp |-> FALSE, pf |-> pf, ns |-> ns, nr |-> nr, d |-> d]
        s == EvI(l2, f, reply, ds)
    IN  /\ l2.l1Activ /\ l2.st \in {7, 8} /\ (LAPD => ds = <<>>)
        /\ Step(s, Wrote(s, reply, ds)) /\ Released(s)

-----------------------------------------------------------------------------
(* Layer 3, TEI management *)

DlData(d) ==
    /\ Len(l2.iq) < MaxQ
    /\ Step(EvDlData(l2, d), IF l2.st \in {5, 7, 8} THEN 1 ELSE 0)
    /\ UNCHANGED relReq
DlUnitData == l2.ui < MaxUi /\ Call(EvDlUnitData(l2))
\* The called side of a B channel does not call: its request is ignored.
DlEstablish ==
    Step(DlEstablishReq(l2), 0) /\ relReq' = (relReq /\ ~LAPD /\ ~l2.orig)
\* Below ST_L2_4 there is no link whose release it could ask for.
DlRelease == LET s == DlReleaseReq(l2)
             IN  Step(s, 0) /\ relReq' = ((relReq \/ l2.st >= 5) /\ LinkPrims(s) = {})

MdlAssign == LAPD /\ Call(EvMdlAssign(l2))
MdlError == LAPD /\ Call(EvMdlError(l2))
MdlRemove == LAPD /\ Call(EvMdlRemove(l2))

-----------------------------------------------------------------------------
(***************************************************************************)
(* Some handlers tell layer 3 of a release before FsmChangeState.  When it *)
(* answers with DL_ESTABLISH|REQUEST from within, the request is handled   *)
(* in the old state, and the handler then sets the new one all the same:   *)
(* of the request remain SABME, its flags and T200.  Where a handler tells *)
(* layer 3 last, the request is DlEstablish.                               *)
(***************************************************************************)
Overtake(s) == [DlEstablishReq([s EXCEPT !.st = l2.st]) EXCEPT !.st = s.st]

HastyCall(s) ==
    /\ Effect(Overtake(s), 0) /\ Released(s)
    /\ overtaken' = Overtake(s).t200Run

\* l2_st5_dm_release, l2_st3_tei_remove, l2_tei_remove and the persistant_da's.
HastyDM == /\ l2.l1Activ /\ l2.st = 5 /\ ~l2.pendRel
           /\ HastyCall(EvDM(l2, UFrame("DM", TRUE, TRUE)))
HastyMdlError == LAPD /\ l2.st = 3 /\ HastyCall(EvMdlError(l2))
HastyMdlRemove == LAPD /\ l2.st \in {7, 8} /\ HastyCall(EvMdlRemove(l2))
HastyL1Deactivate ==
    /\ l2.st \in {3, 7, 8} \/ (l2.st = 5 /\ ~l2.pendRel)
    /\ HastyCall(PhDeactivate(l2))

-----------------------------------------------------------------------------
(* Layer 1 and the timer queue *)

L1Activate == Call(PhActivate(l2))
L1Deactivate == Call(PhDeactivate(l2))
DChanBusy(busy) == LAPD /\ l2.dchanBusy # busy /\ Call(PhPause(l2, busy))
TxDone == l2.txBusy /\ Call(PhTxDone(l2))
PullConfirm == ~l2.txBusy /\ l2.pullReq /\ Call(PhPullConfirm(l2))

T200 == l2.t200 /\ Call(EvT200(l2))
T203 == l2.t203 /\ Call(EvT203(l2))

Init == /\ \E orig \in BOOLEAN : l2 = InitL2(orig \/ LAPD)
        /\ l3up = FALSE /\ lost = FALSE /\ relReq = FALSE
        /\ unacked = FALSE /\ log = {} /\ overtaken = FALSE

RcvU == \/ \E pf \in BOOLEAN : RcvSABME(pf) \/ RcvDISC(pf) \/ RcvUA(pf) \/ RcvDM(pf)
        \/ \E rejected \in {"I", "S", "UA", "other"} : RcvFRMR(rejected)
        \/ RcvUI \/ RcvBad

\* The state is tested here too, to spare TLC the frames that have no row.
RcvS ==
    /\ l2.st \in {7, 8}
    /\ \E t \in STypes, rsp, pf \in BOOLEAN, nr \in SeqNo, ds \in Writes :
           RcvSuper(t, rsp, pf, nr, ds)

RcvInfo ==
    /\ l2.st \in {7, 8}
    /\ \E pf \in BOOLEAN, ns, nr \in SeqNo, d \in Data, reply, ds \in Writes :
           RcvI(pf, ns, nr, d, reply, ds)

Layer3 == (\E d \in Data : DlData(d)) \/ DlUnitData \/ DlEstablish \/ DlRelease
Mdl == MdlAssign \/ MdlError \/ MdlRemove
Layer1 == \/ L1Activate \/ L1Deactivate \/ TxDone \/ PullConfirm
          \/ \E busy \in BOOLEAN : DChanBusy(busy)

Hasty == HastyDM \/ HastyMdlError \/ HastyMdlRemove \/ HastyL1Deactivate

Next == \/ RcvU \/ RcvS \/ RcvInfo \/ Layer3 \/ Mdl \/ Hasty
        \/ Layer1 \/ T200 \/ T203

Spec == Init /\ [][Next]_vars

-----------------------------------------------------------------------------
(* Correctness *)

TypeOK == /\ l2 \in L2State
          /\ {l3up, lost, relReq, unacked, overtaken} \subseteq BOOLEAN
          /\ log \subseteq Warnings

\* In ST_L2_7 and 8 the window is never overrun and every frame that is sent
\* but not acknowledged has its copy in windowar at the place where setva
\* and invoke_retransmission look for it: neither follows a NULL pointer.
WindowOK ==
    /\ l2.st \in {7, 8} =>
           Outstanding(l2) <= Window /\ Current(l2) \subseteq Filled(l2)
    /\ "null skb" \notin log

\* A link that waits for its peer has a timer that wakes it: T200 while
\* SABME, DISC or an enquiry is unanswered, T200 or T203 otherwise.
\* FLG_T200_RUN is never clear while T200 is pending.  It is stale, set while
\* T200 is not pending, in no state that waits for an answer, and in ST_L2_7
\* only after a request of layer 3 was overtaken by a release: l2_pull_iqueue,
\* which starts T200 only when the flag is clear, then leaves the frames that
\* it sends to T203, which does run.
SomeTimer ==
    /\ l2.st \in {5, 6, 8} => l2.t200
    /\ l2.st = 7 => l2.t200 \/ l2.t203
    /\ l2.t200 => l2.t200Run
    /\ l2.st = 7 /\ l2.t200Run => l2.t200 \/ overtaken

\* Nothing of an old link is left to be sent on a new one.
NoStaleData ==
    /\ l2.st \notin {5, 7, 8} => l2.iq = <<>>
    /\ l2.st \notin {7, 8} => Filled(l2) = {}

\* Layer 3 and layer 2 agree whether there is a link: every way into and out
\* of multi-frame operation was announced by a primitive.
L3InSync ==
    /\ l2.st \in {7, 8} => l3up
    /\ l2.st \in 1 .. 4 => ~l3up

\* Data that layer 2 took and then discarded is never lost without layer 3
\* being told by the time the link is up, or down, again.
NoSilentLoss == lost => l2.st \in {5, 6} \/ relReq

\* Every frame that is delivered is acknowledged within the same step, by
\* whatever frame goes out last, unless the link is set up anew.
DataAcked == ~unacked
=============================================================================

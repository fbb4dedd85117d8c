---------------------------- MODULE L2Peer_proof ----------------------------
(***************************************************************************)
(* One entity of layer 2 behind any peer, for every modulus, window, retry *)
(* count and set of contents, on a D channel and on a B channel.           *)
(*                                                                         *)
(* First its types and its window.  Then its timers, stale data, the view  *)
(* of layer 3 and the acknowledgement of what it was given: that needs no  *)
(* types, it follows the fields in Shape and Is through every handler of   *)
(* isdnl2.c, and a handler that begins Ready ends Done.                    *)
(*                                                                         *)
(* And data is never lost silently: what layer 2 took from layer 3 is in   *)
(* i_queue, in the window, or acknowledged, as long as layer 3 hears of no *)
(* end of the link and asks for none.  The proof counts frames: Count is   *)
(* what is owed, and each handler keeps it, tells layer 3, or goes where   *)
(* layer 3 will be told.                                                   *)
(***************************************************************************)
EXTENDS L2Peer, Isdnl2_proof

(***************************************************************************)
(* The specification.  TypeOK and WindowOK are not inductive one by one:   *)
(* a frame goes back from windowar to i_queue, so the type of the queue    *)
(* needs the ring, and so do the messages of a step.                       *)
(***************************************************************************)

IInv == TypeOK /\ Safe(l2) /\ "null skb" \notin log

LEMMA WritesWritten == ASSUME NEW ds \in Writes PROVE Written(ds)
BY DEF Writes, Written

LEMMA ViewType ==
    ASSUME NEW s, NEW v \in BOOLEAN PROVE ViewAfter(s, v) \in BOOLEAN
BY DEF ViewAfter

\* A step whose handler ends in s keeps the invariant.
LEMMA EffectInv ==
    ASSUME IInv, NEW s, Safe(s), NEW fed, Effect(s, fed), relReq' \in BOOLEAN,
           overtaken' \in BOOLEAN
    PROVE  IInv'
<1>1. l2' = Fresh(s) /\ log' = s.warn
  BY DEF Effect
<1>2. Safe(l2') /\ l2' \in L2State
  BY <1>1, SafeFresh, SafeSt
<1>3. "null skb" \notin log' /\ log' \subseteq Warnings
  <2>1. s \in L2State /\ "null skb" \notin s.warn
    BY DEF Safe, Sane
  <2> QED BY <1>1, <2>1 DEF L2State
<1>4. l3up' \in BOOLEAN
  <2>1. l3up \in BOOLEAN
    BY DEF IInv, TypeOK
  <2> QED BY <2>1, ViewType DEF Effect
<1>5. unacked' \in BOOLEAN
  BY DEF Effect
<1>6. lost' \in BOOLEAN
  BY DEF Effect
<1>7. TypeOK'
  BY <1>2, <1>3, <1>4, <1>5, <1>6 DEF TypeOK
<1>8. Safe(l2)'
  BY <1>2 DEF Safe, Sane, Ring, Outstanding, Behind
<1> QED BY <1>3, <1>7, <1>8 DEF IInv

LEMMA StepInv ==
    ASSUME IInv, NEW s, Safe(s), NEW fed, Step(s, fed), relReq' \in BOOLEAN
    PROVE  IInv'
<1>1. s.t200Run \in BOOLEAN
  BY DEF Safe, Sane, L2State
<1> QED BY <1>1, EffectInv DEF Step

LEMMA CallInv == ASSUME IInv, NEW s, Safe(s), Call(s) PROVE IInv'
BY StepInv DEF Call, Released

\* A request from within a release leaves the entity well formed.
LEMMA SaneRequest == ASSUME NEW s, Sane(s) PROVE Sane(DlEstablishReq(s))
<1>1. CASE s.st \notin {7, 8}
  BY <1>1, SafeDlEstablishReq DEF Safe
<1>2. CASE s.st \in {7, 8}
  <2>1. CASE s.l1Activ
    <3>1. EvDlEstablish(s) = l2_l3_reestablish(s)
      BY <1>2 DEF EvDlEstablish
    <3> QED BY <2>1, <3>1, Safe_l2_l3_reestablish DEF DlEstablishReq
  <2>2. CASE ~s.l1Activ
    <3> DEFINE e == s.estabPend \/ (LAPD \/ s.orig)
               a == [s EXCEPT !.estabPend = e]
    <3>1. DlEstablishReq(s) = Ask(a, "PH_ACTIVATE")
      BY <2>2 DEF DlEstablishReq
    <3>2. e \in BOOLEAN
      OBVIOUS
    <3> HIDE DEF e, a
    <3>3. Sane(a)
      BY <3>2, OkEstabPend DEF Ok, a
    <3> QED BY <3>1, <3>3, OkAsk DEF Ok, Requests
  <2> QED BY <2>1, <2>2
<1> QED BY <1>1, <1>2

LEMMA SafeOvertake ==
    ASSUME Safe(l2), NEW s, Safe(s), s.st \in 1 .. 4
    PROVE  Safe(Overtake(s))
<1> DEFINE u == FsmChangeState(s, l2.st)
           w == DlEstablishReq(u)
<1>1. l2.st \in 1 .. 8
  BY DEF Safe, Sane, L2State
<1>2. Sane(u)
  BY <1>1, SafeSt, OkChangeState
<1>3. Sane(w)
  BY <1>2, SaneRequest
<1>4. Overtake(s) = FsmChangeState(w, s.st)
  BY DEF Overtake, FsmChangeState
<1> HIDE DEF w
<1>5. Sane(FsmChangeState(w, s.st)) /\ FsmChangeState(w, s.st).st = s.st
  BY <1>3, OkChangeState
<1> QED BY <1>4, <1>5 DEF Safe

LEMMA HastyInv ==
    ASSUME IInv, NEW s, Safe(s), s.st \in 1 .. 4, HastyCall(s) PROVE IInv'
<1>1. Safe(Overtake(s))
  BY SafeOvertake DEF IInv
<1>2. Overtake(s).t200Run \in BOOLEAN
  BY <1>1 DEF Safe, Sane, L2State
<1> QED BY <1>1, <1>2, EffectInv DEF HastyCall, Released

\* The handler of a Hasty step ends in s, without a link.
HastyEnd(s) ==
    /\ s.st \in {1, 4} /\ HastyCall(s)
    /\ \/ l2.l1Activ /\ l2.st = 5 /\ ~l2.pendRel /\ s = EvDM(l2, UFrame("DM", TRUE, TRUE))
       \/ l2.st = 3 /\ s = EvMdlError(l2)
       \/ l2.st \in {7, 8} /\ s = EvMdlRemove(l2)
       \/ /\ l2.st \in {3, 7, 8} \/ (l2.st = 5 /\ ~l2.pendRel)
          /\ s = PhDeactivate(l2)

LEMMA EndStates ==
    ASSUME NEW s, "st" \in DOMAIN s
    PROVE  /\ l2_st5_dm_release(s, TRUE).st = 4
           /\ l2_st3_tei_remove(s).st = 1 /\ l2_tei_remove(s).st = 1
           /\ l2_st5_persistant_da(s).st = 4 /\ l2_persistant_da(s).st = 4
<1> USE DEF FsmChangeState, Tell, L2L3, PurgeUI, PurgeI, freewin, stop_t200, DelT203,
            st5_dl_release_l2l3, Ask
<1>1. l2_st5_dm_release(s, TRUE).st = 4
  BY DEF l2_st5_dm_release
<1>2. l2_st3_tei_remove(s).st = 1
  BY DEF l2_st3_tei_remove
<1>3. l2_tei_remove(s).st = 1
  BY DEF l2_tei_remove
<1>4. l2_st5_persistant_da(s).st = 4
  BY DEF l2_st5_persistant_da
<1>5. l2_persistant_da(s).st = 4
  BY DEF l2_persistant_da
<1> QED BY <1>1, <1>2, <1>3, <1>4, <1>5

LEMMA HastyEnds == ASSUME "st" \in DOMAIN l2, Hasty PROVE \E s : HastyEnd(s)
<1>1. CASE HastyDM
  <2>1. EvDM(l2, UFrame("DM", TRUE, TRUE)) = l2_st5_dm_release(l2, TRUE)
    BY <1>1 DEF HastyDM, EvDM, UFrame
  <2> QED BY <1>1, <2>1, EndStates DEF HastyDM, HastyEnd
<1>2. CASE HastyMdlError
  <2>1. EvMdlError(l2) = l2_st3_tei_remove(l2)
    BY <1>2 DEF HastyMdlError, EvMdlError
  <2> QED BY <1>2, <2>1, EndStates DEF HastyMdlError, HastyEnd
<1>3. CASE HastyMdlRemove
  <2>1. EvMdlRemove(l2) = l2_tei_remove(l2)
    BY <1>3 DEF HastyMdlRemove, EvMdlRemove
  <2> QED BY <1>3, <2>1, EndStates DEF HastyMdlRemove, HastyEnd
<1>4. CASE HastyL1Deactivate
  <2> DEFINE u == [l2 EXCEPT !.l1Activ = FALSE]
  <2>1. "st" \in DOMAIN u /\ u.st = l2.st
    OBVIOUS
  <2>2. l2.st \in {3, 5, 7, 8} /\ PhDeactivate(l2) = EvL1Deactivate(u)
    BY <1>4 DEF HastyL1Deactivate, PhDeactivate
  <2> HIDE DEF u
  <2>3. EvL1Deactivate(u) \in
            {l2_st3_tei_remove(u), l2_st5_persistant_da(u), l2_persistant_da(u)}
    BY <2>1, <2>2 DEF EvL1Deactivate
  <2>4. PhDeactivate(l2).st \in {1, 4}
    BY <2>1, <2>2, <2>3, EndStates
  <2> QED BY <1>4, <2>4 DEF HastyL1Deactivate, HastyEnd
<1> QED BY <1>1, <1>2, <1>3, <1>4 DEF Hasty

LEMMA IInit == Init => IInv
<1> SUFFICES ASSUME Init PROVE IInv
  OBVIOUS
<1>1. PICK orig \in BOOLEAN : l2 = InitL2(orig \/ LAPD)
  BY DEF Init
<1>2. (orig \/ LAPD) \in BOOLEAN
  OBVIOUS
<1>3. Safe(l2) /\ l2 \in L2State
  BY <1>1, <1>2, SafeInitL2, SafeSt
<1>4. {l3up, lost, relReq, unacked, overtaken} \subseteq BOOLEAN /\ log = {}
  BY DEF Init
<1> QED BY <1>3, <1>4 DEF IInv, TypeOK

LEMMA INext == IInv /\ [Next]_vars => IInv'
<1> SUFFICES ASSUME IInv, [Next]_vars PROVE IInv'
  OBVIOUS
<1>1. Safe(l2)
  BY DEF IInv
<1>2. CASE RcvU
  <2>1. ASSUME NEW pf \in BOOLEAN, RcvSABME(pf) PROVE IInv'
    BY <1>1, <2>1, CallInv, SafeEvSABME DEF RcvSABME, UFrame
  <2>2. ASSUME NEW pf \in BOOLEAN, RcvDISC(pf) PROVE IInv'
    BY <1>1, <2>2, CallInv, SafeEvDISC DEF RcvDISC, UFrame
  <2>3. ASSUME NEW pf \in BOOLEAN, RcvUA(pf) PROVE IInv'
    BY <1>1, <2>3, CallInv, SafeEvUA DEF RcvUA, UFrame
  <2>4. ASSUME NEW pf \in BOOLEAN, RcvDM(pf) PROVE IInv'
    BY <1>1, <2>4, CallInv, SafeEvDM DEF RcvDM, UFrame
  <2>5. ASSUME NEW rejected, RcvFRMR(rejected) PROVE IInv'
    BY <1>1, <2>5, CallInv, SafeEvFRMR DEF RcvFRMR
  <2>6. ASSUME RcvUI PROVE IInv'
    BY <1>1, <2>6, CallInv, SafeEvUI DEF RcvUI
  <2>7. ASSUME RcvBad PROVE IInv'
    BY <1>1, <2>7, CallInv, SafeEvFrameError DEF RcvBad
  <2> QED BY <1>2, <2>1, <2>2, <2>3, <2>4, <2>5, <2>6, <2>7 DEF RcvU
<1>3. CASE RcvS
  <2>1. PICK t \in STypes, rsp \in BOOLEAN, pf \in BOOLEAN, nr \in SeqNo, ds \in Writes :
            RcvSuper(t, rsp, pf, nr, ds)
    BY <1>3 DEF RcvS
  <2> DEFINE f == [t |-> t, rsp |-> rsp, pf |-> pf, ns |-> 0, nr |-> nr, d |-> NoSkb]
             s == EvSuper(l2, f, ds)
  <2>2. Numbered(f) /\ Written(ds)
    BY WritesWritten DEF Numbered
  <2>3. Step(s, Wrote(s, <<>>, ds)) /\ Released(s)
    BY <2>1 DEF RcvSuper
  <2> HIDE DEF f
  <2>4. Safe(s)
    BY <1>1, <2>2, SafeEvSuper
  <2> HIDE DEF s
  <2> QED BY <2>3, <2>4, StepInv DEF Released
<1>4. CASE RcvInfo
  <2>1. PICK pf \in BOOLEAN, ns \in SeqNo, nr \in SeqNo, d \in Data,
             reply \in Writes, ds \in Writes : RcvI(pf, ns, nr, d, reply, ds)
    BY <1>4 DEF RcvInfo
  <2> DEFINE f == [t |-> "I", rsp |-> FALSE, pf |-> pf, ns |-> ns, nr |-> nr, d |-> d]
             s == EvI(l2, f, reply, ds)
  <2>2. Numbered(f) /\ f.d \in Data /\ Written(reply) /\ Written(ds)
    BY WritesWritten DEF Numbered
  <2>3. Step(s, Wrote(s, reply, ds)) /\ Released(s)
    BY <2>1 DEF RcvI
  <2> HIDE DEF f
  <2>4. Safe(s)
    BY <1>1, <2>2, SafeEvI
  <2> HIDE DEF s
  <2> QED BY <2>3, <2>4, StepInv DEF Released
<1>5. CASE Layer3
  <2>1. ASSUME NEW d \in Data, DlData(d) PROVE IInv'
    <3>1. Safe(EvDlData(l2, d))
      BY <1>1, SafeEvDlData
    <3>2. relReq' \in BOOLEAN
      BY <2>1 DEF DlData, IInv, TypeOK
    <3> QED BY <2>1, <3>1, <3>2, StepInv DEF DlData
  <2>2. ASSUME DlUnitData PROVE IInv'
    BY <1>1, <2>2, CallInv, SafeEvDlUnitData DEF DlUnitData
  <2>3. ASSUME DlEstablish PROVE IInv'
    BY <1>1, <2>3, StepInv, SafeDlEstablishReq DEF DlEstablish
  <2>4. ASSUME DlRelease PROVE IInv'
    <3>1. Safe(DlReleaseReq(l2))
      BY <1>1, SafeDlReleaseReq
    <3>2. Safe(EvDlRelease(l2))
      BY <1>1, SafeEvDlRelease
    <3> QED BY <2>4, <3>1, <3>2, StepInv DEF DlRelease
  <2> QED BY <1>5, <2>1, <2>2, <2>3, <2>4 DEF Layer3
<1>6. CASE Mdl
  BY <1>1, <1>6, CallInv, SafeEvMdlAssign, SafeEvMdlError, SafeEvMdlRemove
     DEF Mdl, MdlAssign, MdlError, MdlRemove
<1>7. CASE Layer1
  <2>1. ASSUME L1Activate \/ L1Deactivate PROVE IInv'
    BY <1>1, <2>1, CallInv, SafePhActivate, SafePhDeactivate DEF L1Activate, L1Deactivate
  <2>2. ASSUME TxDone \/ PullConfirm PROVE IInv'
    BY <1>1, <2>2, CallInv, SafePhTxDone, SafePhPullConfirm DEF TxDone, PullConfirm
  <2>3. ASSUME NEW busy \in BOOLEAN, DChanBusy(busy) PROVE IInv'
    BY <1>1, <2>3, CallInv, SafePhPause DEF DChanBusy
  <2> QED BY <1>7, <2>1, <2>2, <2>3 DEF Layer1
<1>8. CASE T200 \/ T203
  BY <1>1, <1>8, CallInv, SafeEvT200, SafeEvT203 DEF T200, T203
<1>9. CASE Hasty
  <2>1. PICK s : HastyEnd(s)
    <3>1. "st" \in DOMAIN l2
      BY <1>1 DEF Safe, Sane, L2State
    <3> QED BY <1>9, <3>1, HastyEnds
  <2>2. s.st \in 1 .. 4 /\ HastyCall(s)
    BY <2>1 DEF HastyEnd
  <2>3. ASSUME Safe(s) PROVE IInv'
    BY <2>2, <2>3, HastyInv
  <2>4. CASE s = EvDM(l2, UFrame("DM", TRUE, TRUE))
    <3> DEFINE f == UFrame("DM", TRUE, TRUE)
    <3>1. f.pf \in BOOLEAN
      BY DEF UFrame
    <3> HIDE DEF f
    <3>2. Safe(EvDM(l2, f))
      BY <1>1, <3>1, SafeEvDM
    <3> QED BY <2>3, <2>4, <3>2 DEF f
  <2>5. CASE s = EvMdlError(l2)
    BY <1>1, <2>3, <2>5, SafeEvMdlError
  <2>6. CASE s = EvMdlRemove(l2)
    BY <1>1, <2>3, <2>6, SafeEvMdlRemove
  <2>7. CASE s = PhDeactivate(l2)
    BY <1>1, <2>3, <2>7, SafePhDeactivate
  <2> QED BY <2>1, <2>4, <2>5, <2>6, <2>7 DEF HastyEnd
<1>10. CASE UNCHANGED vars
  BY <1>10 DEF vars, IInv, TypeOK, Safe, Sane, Ring, Outstanding, Behind
<1> QED BY <1>2, <1>3, <1>4, <1>5, <1>6, <1>7, <1>8, <1>9, <1>10 DEF Next

LEMMA IInvImplies == IInv => TypeOK /\ WindowOK
<1> SUFFICES ASSUME IInv PROVE WindowOK
  BY DEF IInv
<1>1. ASSUME l2.st \in {7, 8}
      PROVE  Outstanding(l2) <= Window /\ Current(l2) \subseteq Filled(l2)
  BY <1>1 DEF IInv, Safe, Ring, Current, Filled
<1> QED BY <1>1 DEF IInv, WindowOK

\* Every step leaves the entity, and what it told the other layers, well formed.
THEOREM TypeCorrect == Spec => []TypeOK
<1>1. IInv => TypeOK
  BY DEF IInv
<1> QED BY IInit, INext, <1>1, PTL DEF Spec

\* Whatever the peer, layer 3, layer 1 and the timers do, the window is never
\* overrun and every unacknowledged frame has its copy in the ring.
THEOREM WindowSafe == Spec => []WindowOK
<1>1. IInv => WindowOK
  BY IInvImplies
<1> QED BY IInit, INext, <1>1, PTL DEF Spec

-----------------------------------------------------------------------------
(* Timers, stale data and the view of layer 3: the invariant *)

Fields ==
    {"st", "t200", "t203", "t200Run", "iq", "win", "l3Init", "up", "out", "vr", "ackPend"}
Shape(s) ==
    /\ Fields \subseteq DOMAIN s
    /\ s.t200 \in BOOLEAN /\ s.t203 \in BOOLEAN /\ s.t200Run \in BOOLEAN /\ s.l3Init \in BOOLEAN

\* FLG_T200_RUN is set while T200 is pending, and otherwise only if a request
\* of layer 3 was overtaken.
Flag(s) == (s.t200 => s.t200Run) /\ (s.t200Run => s.t200 \/ overtaken)

Timers(s) ==
    /\ s.st \in 1 .. 8
    /\ Flag(s)
    /\ s.st \in {5, 6, 8} => s.t200
    /\ s.st = 7 => s.t200 \/ s.t203
    /\ s.st \in 1 .. 4 /\ s.t200 => overtaken

USE DEF Flag

Clean(s) ==
    /\ s.st \notin {5, 7, 8} => s.iq = <<>>
    /\ s.st = 5 /\ s.l3Init => s.iq = <<>>
    /\ s.st \notin {7, 8} => s.win = EmptyWin

Synced(s, view) ==
    /\ s.st \in {7, 8} => view
    /\ s.st = 5 /\ ~s.l3Init => view
    /\ s.st \in 1 .. 4 => ~view

-----------------------------------------------------------------------------
(* What concerns none of these fields *)

Quiet(s, t) ==
    /\ Fields \subseteq DOMAIN t
    /\ t.st = s.st /\ t.t200 = s.t200 /\ t.t203 = s.t203 /\ t.t200Run = s.t200Run
    /\ t.iq = s.iq /\ t.win = s.win /\ t.l3Init = s.l3Init /\ t.up = s.up

LEMMA QuietRefl == ASSUME NEW s, Shape(s) PROVE Quiet(s, s)
  BY DEF Quiet, Shape

LEMMA QuietTrans == ASSUME NEW s, NEW t, NEW u, Quiet(s, t), Quiet(t, u) PROVE Quiet(s, u)
  BY DEF Quiet

LEMMA QuietShape == ASSUME NEW s, NEW t, Shape(s), Quiet(s, t) PROVE Shape(t)
  BY DEF Quiet, Shape

LEMMA QuietAsk == ASSUME NEW s, Shape(s), NEW r PROVE Quiet(s, Ask(s, r))
  BY DEF Quiet, Shape, Fields, Ask
LEMMA QuietWarn == ASSUME NEW s, Shape(s), NEW b, NEW w PROVE Quiet(s, Warn(s, b, w))
  BY DEF Quiet, Shape, Fields, Warn
LEMMA QuietCnt == ASSUME NEW s, Shape(s), NEW n PROVE Quiet(s, AddTxCnt(s, n))
  BY DEF Quiet, Shape, Fields, AddTxCnt
LEMMA QuietSend == ASSUME NEW s, Shape(s), NEW f PROVE Quiet(s, Send(s, f))
  BY DEF Quiet, Shape, Fields, Send
LEMMA QuietSuper == ASSUME NEW s, Shape(s), NEW f PROVE Quiet(s, enqueue_super(s, f))
  BY QuietCnt, QuietSend, QuietTrans, QuietShape DEF enqueue_super
LEMMA QuietU ==
    ASSUME NEW s, Shape(s), NEW t, NEW rsp, NEW pf
    PROVE  /\ Quiet(s, send_uframe(s, t, rsp, pf)) /\ Quiet(s, enquiry_cr(s, t, rsp, pf))
           /\ Quiet(s, l2_send_UA(s, pf)) /\ Quiet(s, l2_send_DM(s, pf))
  BY QuietSuper DEF send_uframe, enquiry_cr, l2_send_UA, l2_send_DM
LEMMA QuietAck == ASSUME NEW s, Shape(s), NEW b PROVE Quiet(s, [s EXCEPT !.ackPend = b])
  BY DEF Quiet, Shape, Fields
LEMMA QuietResponse == ASSUME NEW s, Shape(s) PROVE Quiet(s, enquiry_response(s))
<1> DEFINE t == enquiry_cr(s, "RR", TRUE, TRUE)
<1>1. Quiet(s, t)  BY QuietU
<1> HIDE DEF t
<1>2. Quiet(t, [t EXCEPT !.ackPend = FALSE])  BY <1>1, QuietShape, QuietAck
<1>3. QED BY <1>1, <1>2, QuietTrans DEF enquiry_response, t
LEMMA QuietBusy ==
    ASSUME NEW s, Shape(s)
    PROVE  /\ Quiet(s, set_peer_busy(s)) /\ Quiet(s, clear_peer_busy(s))
           /\ Quiet(s, clear_exception(s)) /\ Quiet(s, PurgeUI(s)) /\ Quiet(s, ResetVars(s))
  BY DEF Quiet, Shape, Fields, set_peer_busy, clear_peer_busy, clear_exception, PurgeUI, ResetVars
LEMMA QuietUi == ASSUME NEW s, Shape(s) PROVE Quiet(s, tx_ui(s))
  BY DEF Quiet, Shape, Fields, tx_ui, AddTxCnt
LEMMA QuietFlags ==
    ASSUME NEW s, Shape(s), NEW x
    PROVE  /\ Quiet(s, [s EXCEPT !.rc = x]) /\ Quiet(s, [s EXCEPT !.pendRel = x])
           /\ Quiet(s, [s EXCEPT !.tei = x]) /\ Quiet(s, [s EXCEPT !.estabPend = x])
           /\ Quiet(s, [s EXCEPT !.l1Activ = x]) /\ Quiet(s, [s EXCEPT !.pullReq = x])
           /\ Quiet(s, [s EXCEPT !.txBusy = x]) /\ Quiet(s, [s EXCEPT !.dchanBusy = x])
           /\ Quiet(s, [s EXCEPT !.ui = x]) /\ Quiet(s, [s EXCEPT !.rejExc = x])
  BY DEF Quiet, Shape, Fields
LEMMA QuietGotNr == ASSUME NEW s, Shape(s), NEW f PROVE Quiet(s, GotNr(s, f))
  BY QuietBusy DEF GotNr

-----------------------------------------------------------------------------
(* The timers *)

LEMMA StopT200 ==
    ASSUME NEW s, Shape(s), Flag(s)
    PROVE  LET t == stop_t200(s)
           IN  /\ Shape(t) /\ ~t.t200 /\ ~t.t200Run /\ t.t203 = s.t203
               /\ t.st = s.st /\ t.iq = s.iq /\ t.win = s.win /\ t.l3Init = s.l3Init /\ t.up = s.up
  BY DEF Shape, Fields, stop_t200
LEMMA StartT200 ==
    ASSUME NEW s, Shape(s)
    PROVE  /\ \A t \in {start_t200(s), restart_t200(s)} :
               /\ Shape(t) /\ t.t200 /\ t.t200Run /\ t.t203 = s.t203
               /\ t.st = s.st /\ t.iq = s.iq /\ t.win = s.win /\ t.l3Init = s.l3Init /\ t.up = s.up
  BY DEF Shape, Fields, start_t200, restart_t200, AddT200, Warn
LEMMA AddTimer ==
    ASSUME NEW s, Shape(s)
    PROVE  /\ LET t == AddT200(s)
              IN  /\ Shape(t) /\ t.t200 /\ t.t200Run = s.t200Run /\ t.t203 = s.t203
                  /\ t.st = s.st /\ t.iq = s.iq /\ t.win = s.win /\ t.l3Init = s.l3Init /\ t.up = s.up
           /\ \A t \in {AddT203(s), RestartT203(s)} :
                  /\ Shape(t) /\ t.t203 /\ t.t200Run = s.t200Run /\ t.t200 = s.t200
                  /\ t.st = s.st /\ t.iq = s.iq /\ t.win = s.win /\ t.l3Init = s.l3Init /\ t.up = s.up
           /\ LET t == DelT203(s)
              IN  /\ Shape(t) /\ ~t.t203 /\ t.t200Run = s.t200Run /\ t.t200 = s.t200
                  /\ t.st = s.st /\ t.iq = s.iq /\ t.win = s.win /\ t.l3Init = s.l3Init /\ t.up = s.up
  BY DEF Shape, Fields, AddT200, AddT203, RestartT203, DelT203, Warn

-----------------------------------------------------------------------------
(* What moves frames while the link is up *)

\* T200 keeps its flag, and no timer is lost.
Runs(s, t) ==
    /\ Shape(t) /\ Flag(t)
    /\ t.st = s.st /\ t.l3Init = s.l3Init /\ t.up = s.up
    /\ s.t200 => t.t200
    /\ s.t200 \/ s.t203 => t.t200 \/ t.t203

LEMMA RunsQuiet ==
    ASSUME NEW s, Shape(s), Flag(s), NEW t, Quiet(s, t)
    PROVE  Runs(s, t)
  BY DEF Runs, Quiet, Shape

LEMMA RunsTrans == ASSUME NEW s, NEW t, NEW u, Runs(s, t), Runs(t, u) PROVE Runs(s, u)
  BY DEF Runs

LEMMA PullRuns ==
    ASSUME NEW s, Shape(s), Flag(s)
    PROVE  Runs(s, l2_pull_iqueue(s))
<1>1. CASE ~cansend(s) \/ s.iq = <<>>
  <2>1. l2_pull_iqueue(s) = s  BY <1>1 DEF l2_pull_iqueue
  <2>2. QED BY <2>1, RunsQuiet, QuietRefl
<1>2. CASE cansend(s) /\ s.iq # <<>>
  <2> DEFINE slot == Slot(s, Outstanding(s))
             s1 == Warn(s, s.win[slot] # NoSkb, "overwrite ack queue")
             a == [s1 EXCEPT !.iq = Tail(@), !.win[slot] = Head(s.iq),
                             !.vs = Inc(@), !.ackPend = FALSE]
             f == [t |-> "I", rsp |-> FALSE, pf |-> FALSE,
                   ns |-> s.vs, nr |-> s.vr, d |-> Head(s.iq)]
             s2 == Send(a, f)
             d == DelT203(s2)
             s3 == IF ~s.t200Run THEN start_t200(d) ELSE s2
             b == (s3.pullReq \/ (s3.iq # <<>> /\ cansend(s3)))
             s4 == [s3 EXCEPT !.pullReq = @ \/ (s3.iq # <<>> /\ cansend(s3))]
  <2>1. l2_pull_iqueue(s) = s4  BY <1>2 DEF l2_pull_iqueue
  <2>2. s4 = [s3 EXCEPT !.pullReq = b]  OBVIOUS
  <2> HIDE DEF b, slot
  <2>3. Quiet(s, s1)  BY QuietWarn
  <2> HIDE DEF s1
  <2>4. Shape(s1)  BY <2>3, QuietShape
  <2>5. /\ Shape(a) /\ a.st = s1.st /\ a.l3Init = s1.l3Init /\ a.up = s1.up
        /\ a.t200 = s1.t200 /\ a.t200Run = s1.t200Run /\ a.t203 = s1.t203
    BY <2>4 DEF Shape, Fields
  <2>6. Runs(s, a)  BY <2>3, <2>5 DEF Runs, Quiet, Shape
  <2>7. a.t200Run = s.t200Run  BY <2>3, <2>5 DEF Quiet
  <2> HIDE DEF a, f
  <2>8. Quiet(a, s2)  BY <2>6, QuietSend DEF Runs
  <2>9. Runs(s, s2) /\ Shape(s2) /\ s2.t200Run = s.t200Run
    BY <2>6, <2>7, <2>8, RunsQuiet, RunsTrans DEF Runs, Quiet
  <2> HIDE DEF s2
  <2>10. /\ Shape(d) /\ d.st = s2.st /\ d.l3Init = s2.l3Init /\ d.up = s2.up
    BY <2>9, AddTimer
  <2> HIDE DEF d
  <2>11. Runs(s, start_t200(d))
    <3>1. LET t == start_t200(d)
          IN  /\ Shape(t) /\ t.t200 /\ t.t200Run
              /\ t.st = d.st /\ t.l3Init = d.l3Init /\ t.up = d.up
      BY <2>10, StartT200
    <3>2. start_t200(d).t200 = start_t200(d).t200Run  BY <3>1 DEF Shape
    <3>3. QED BY <2>9, <2>10, <3>1, <3>2 DEF Runs
  <2>12. Runs(s, s3)  BY <2>9, <2>11
  <2> HIDE DEF s3
  <2>13. Quiet(s3, s4)  BY <2>2, <2>12, QuietFlags DEF Runs
  <2>14. QED BY <2>1, <2>12, <2>13, RunsQuiet, RunsTrans DEF Runs
<1>3. QED BY <1>1, <1>2

LEMMA PullRequestRuns ==
    ASSUME NEW s, Shape(s), Flag(s)
    PROVE  /\ Runs(s, AckPull(s)) /\ Runs(s, PullRequest(s)) /\ Runs(s, PullIfWaiting(s))
<1>1. ASSUME NEW u, Shape(u), Flag(u) PROVE Runs(u, AckPull(u))
  BY <1>1, PullRuns, RunsQuiet, QuietRefl DEF AckPull
<1>2. Runs(s, PullRequest(s))
  <2> DEFINE t == [s EXCEPT !.pullReq = TRUE]
             u == [s EXCEPT !.pullReq = FALSE]
  <2>1. Runs(s, t) /\ Runs(s, u)  BY QuietFlags, RunsQuiet
  <2>2. PullRequest(s) = IF s.txBusy THEN t ELSE AckPull(u)  BY DEF PullRequest
  <2> HIDE DEF t, u
  <2>3. Runs(u, AckPull(u))  BY <1>1, <2>1 DEF Runs
  <2>4. QED BY <2>1, <2>2, <2>3, RunsTrans
<1>3. Runs(s, PullIfWaiting(s))  BY <1>2, RunsQuiet, QuietRefl DEF PullIfWaiting
<1>4. QED BY <1>1, <1>2, <1>3

\* In multi-frame operation.
LEMMA DlDataRuns ==
    ASSUME NEW s, Shape(s), Flag(s), s.st \in {7, 8}, NEW d
    PROVE  Runs(s, EvDlData(s, d))
<1> DEFINE a == AddTxCnt(s, 1)
           q == [a EXCEPT !.iq = Append(@, d)]
<1>1. Quiet(s, a)  BY QuietCnt
<1>2. EvDlData(s, d) \in {PullRequest(q), q}  BY DEF EvDlData
<1> HIDE DEF a
<1>3. /\ Shape(q) /\ q.st = a.st /\ q.l3Init = a.l3Init /\ q.up = a.up
      /\ q.t200 = a.t200 /\ q.t200Run = a.t200Run /\ q.t203 = a.t203
  BY <1>1, QuietShape DEF Shape, Fields
<1>4. Runs(s, q)  BY <1>1, <1>3 DEF Quiet, Runs, Shape
<1> HIDE DEF q
<1>5. Runs(q, PullRequest(q))  BY <1>4, PullRequestRuns DEF Runs
<1>6. QED BY <1>2, <1>4, <1>5, RunsTrans

LEMMA RefillRuns ==
    ASSUME NEW s, Shape(s), Flag(s), s.st \in {7, 8}, NEW ds
    PROVE  Runs(s, Refill(s, ds))
  BY DlDataRuns, RunsQuiet, QuietRefl DEF Refill

LEMMA SetvaRuns ==
    ASSUME NEW s, Shape(s), Flag(s), s.st \in {7, 8}, NEW nr, NEW ds
    PROVE  Runs(s, setva(s, nr, ds))
<1> DEFINE n == Dist(s.va, nr)
           acked == {i \in Slots : Behind(s, i) < n}
           b == \E i \in acked : s.win[i] = NoSkb
           s1 == Warn(s, b, "null skb")
           slot == Slot(s, n)
           w == [i \in Slots |-> IF i \in acked THEN NoSkb ELSE s.win[i]]
           s2 == [s1 EXCEPT !.va = nr, !.sow = slot, !.win = w]
           wr == IF LAPD THEN <<>> ELSE ds
<1>1. setva(s, nr, ds) = IF n = 0 THEN s ELSE Refill(s2, wr)  BY DEF setva
<1> HIDE DEF n, b, slot, w, wr
<1>2. Quiet(s, s1)  BY QuietWarn
<1> HIDE DEF s1
<1>3. Shape(s1)  BY <1>2, QuietShape
<1>4. /\ Shape(s2) /\ s2.st = s1.st /\ s2.l3Init = s1.l3Init /\ s2.up = s1.up
      /\ s2.t200 = s1.t200 /\ s2.t200Run = s1.t200Run /\ s2.t203 = s1.t203
  BY <1>3 DEF Shape, Fields
<1>5. Runs(s, s2)  BY <1>2, <1>4 DEF Quiet, Runs, Shape
<1> HIDE DEF s2
<1>6. Runs(s2, Refill(s2, wr))  BY <1>5, RefillRuns DEF Runs
<1>7. QED BY <1>1, <1>5, <1>6, RunsTrans, RunsQuiet, QuietRefl

LEMMA InvokeRuns ==
    ASSUME NEW s, Shape(s), Flag(s), NEW nr
    PROVE  Runs(s, invoke_retransmission(s, nr))
<1> DEFINE n == Dist(nr, s.vs)
           base == Dist(s.va, nr)
           again == {i \in Slots : Behind(s, i) >= base /\ Behind(s, i) < base + n}
           b == \E i \in again : s.win[i] = NoSkb
           s1 == Warn(s, b, "null skb")
           a == AddTxCnt(s1, n)
           q == [k \in 1 .. n |-> s.win[Slot(s, base + k - 1)]]
           w == [i \in Slots |-> IF i \in again THEN NoSkb ELSE s.win[i]]
           s2 == [a EXCEPT !.vs = nr, !.iq = q \o @, !.win = w]
<1>1. invoke_retransmission(s, nr) = IF n = 0 THEN s ELSE PullRequest(s2)
  BY DEF invoke_retransmission
<1> HIDE DEF n, b, q, w
<1>2. Quiet(s, s1)  BY QuietWarn
<1> HIDE DEF s1
<1>3. Quiet(s1, a)  BY <1>2, QuietCnt, QuietShape
<1> HIDE DEF a
<1>4. Quiet(s, a) /\ Shape(a)  BY <1>2, <1>3, QuietTrans, QuietShape
<1>5. /\ Shape(s2) /\ s2.st = a.st /\ s2.l3Init = a.l3Init /\ s2.up = a.up
      /\ s2.t200 = a.t200 /\ s2.t200Run = a.t200Run /\ s2.t203 = a.t203
  BY <1>4 DEF Shape, Fields
<1>6. Runs(s, s2)  BY <1>4, <1>5 DEF Quiet, Runs, Shape
<1> HIDE DEF s2
<1>7. Runs(s2, PullRequest(s2))  BY <1>6, PullRequestRuns DEF Runs
<1>8. QED BY <1>1, <1>6, <1>7, RunsTrans, RunsQuiet, QuietRefl

-----------------------------------------------------------------------------
(* A handler tells layer 3 at most one thing *)

Fine(s, view) == Shape(s) /\ Timers(s) /\ Clean(s) /\ Synced(s, view)

\* Before a handler, and after it.
Ready(s, view) == Fine(s, view) /\ s.up = <<>> /\ view \in BOOLEAN
Sound(t, view) == Fine(t, ViewAfter(t, view))

\* What the handler has told so far.
Told(t, p) == \E d : t.up = Append(<<>>, [p |-> p, d |-> d])

\* It has delivered no data.
Mute(t) == t.up = <<>> \/ \E p : p # "DL_DATA_IND" /\ Told(t, p)
Done(t, view) == Sound(t, view) /\ Mute(t)

LEMMA ViewNone == ASSUME NEW t, t.up = <<>>, NEW view PROVE ViewAfter(t, view) = view
<1>1. LinkPrims(t) = {}  BY DEF LinkPrims
<1>2. QED BY <1>1 DEF ViewAfter

LEMMA ViewOne ==
    ASSUME NEW t, NEW p, Told(t, p), NEW view
    PROVE  /\ p \in UpPrims => ViewAfter(t, view)
           /\ p \in DownPrims => ~ViewAfter(t, view)
           /\ p \notin UpPrims \cup DownPrims => ViewAfter(t, view) = view
<1>1. PICK d : t.up = Append(<<>>, [p |-> p, d |-> d])  BY DEF Told
<1>2. Len(t.up) = 1 /\ t.up[1].p = p  BY <1>1
<1>3. LinkPrims(t) = {i \in {1} : p \in UpPrims \cup DownPrims}  BY <1>2 DEF LinkPrims
<1>4. CASE p \in UpPrims
  <2>1. LinkPrims(t) = {1} /\ p \notin DownPrims  BY <1>3, <1>4 DEF UpPrims, DownPrims
  <2>2. \E i \in LinkPrims(t) : t.up[i].p \in UpPrims /\ \A j \in LinkPrims(t) : j <= i
    BY <1>2, <1>4, <2>1
  <2>3. ViewAfter(t, view)  BY <2>1, <2>2 DEF ViewAfter
  <2>4. QED BY <1>4, <2>1, <2>3
<1>5. CASE p \in DownPrims
  <2>1. LinkPrims(t) = {1} /\ p \notin UpPrims  BY <1>3, <1>5 DEF UpPrims, DownPrims
  <2>2. QED BY <1>2, <1>5, <2>1 DEF ViewAfter
<1>6. CASE p \notin UpPrims \cup DownPrims
  <2>1. LinkPrims(t) = {}  BY <1>3, <1>6
  <2>2. QED BY <1>6, <2>1 DEF ViewAfter
<1>7. QED BY <1>4, <1>5, <1>6

LEMMA TellTold ==
    ASSUME NEW s, Shape(s), NEW p
    PROVE  LET t == Tell(s, p)
           IN  /\ Shape(t) /\ t.st = s.st /\ t.t200 = s.t200 /\ t.t203 = s.t203
               /\ t.t200Run = s.t200Run /\ t.iq = s.iq /\ t.win = s.win /\ t.l3Init = s.l3Init
               /\ s.up = <<>> => Told(t, p)
<1> DEFINE r == [p |-> p, d |-> NoSkb]
           t == [s EXCEPT !.up = Append(@, r)]
<1>1. Tell(s, p) = t  BY DEF Tell, L2L3
<1>2. t.up = Append(s.up, r)  BY DEF Shape, Fields
<1>3. s.up = <<>> => Told(t, p)  BY <1>2 DEF Told
<1> HIDE DEF r
<1>4. /\ Shape(t) /\ t.st = s.st /\ t.t200 = s.t200 /\ t.t203 = s.t203
      /\ t.t200Run = s.t200Run /\ t.iq = s.iq /\ t.win = s.win /\ t.l3Init = s.l3Init
  BY DEF Shape, Fields
<1>5. QED BY <1>1, <1>3, <1>4

-----------------------------------------------------------------------------
(* Ways to be done *)

LEMMA MuteNone == ASSUME NEW t, t.up = <<>> PROVE Mute(t)
  BY DEF Mute
LEMMA MuteTold ==
    ASSUME NEW t, NEW p \in UpPrims \cup DownPrims \cup {"DL_UNIT_DATA_IND"}, Told(t, p)
    PROVE  Mute(t)
<1>1. p # "DL_DATA_IND"  BY DEF UpPrims, DownPrims
<1>2. QED BY <1>1 DEF Mute

LEMMA QuietDone == ASSUME NEW s, NEW v, Ready(s, v), NEW t, Quiet(s, t) PROVE Done(t, v)
<1>1. ViewAfter(t, v) = v  BY ViewNone DEF Ready, Quiet
<1>2. Mute(t)  BY MuteNone DEF Ready, Quiet
<1>3. QED BY <1>1, <1>2, QuietShape DEF Ready, Done, Sound, Fine, Quiet, Timers, Clean, Synced

LEMMA RunsDone ==
    ASSUME NEW s, NEW v, Ready(s, v), s.st \in {7, 8}, NEW t, Runs(s, t)
    PROVE  Done(t, v)
<1>1. ViewAfter(t, v) = v  BY ViewNone DEF Ready, Runs
<1>2. Mute(t)  BY MuteNone DEF Ready, Runs
<1>3. QED BY <1>1, <1>2 DEF Ready, Done, Sound, Fine, Runs, Timers, Clean, Synced

\* Down: all is purged and stopped, and layer 3 is told, or knew.
LEMMA DownDone ==
    ASSUME NEW t, Shape(t), NEW v \in BOOLEAN, t.st \in 1 .. 4, Flag(t),
           t.t200 => overtaken,
           t.iq = <<>>, t.win = EmptyWin,
           (t.up = <<>> /\ ~v) \/ \E p \in DownPrims : Told(t, p)
    PROVE  Done(t, v)
<1>1. ~ViewAfter(t, v)  BY ViewNone, ViewOne
<1>2. Mute(t)  BY MuteNone, MuteTold
<1>3. QED BY <1>1, <1>2 DEF Done, Sound, Fine, Timers, Clean, Synced

\* Up, with a timer.
LEMMA UpDone ==
    ASSUME NEW t, Shape(t), NEW v \in BOOLEAN, t.st = 7, Flag(t), t.t200 \/ t.t203,
           (t.up = <<>> /\ v) \/ \E p \in UpPrims : Told(t, p)
    PROVE  Done(t, v)
<1>1. ViewAfter(t, v)  BY ViewNone, ViewOne
<1>2. Mute(t)  BY MuteNone, MuteTold
<1>3. QED BY <1>1, <1>2 DEF Done, Sound, Fine, Timers, Clean, Synced

LEMMA EstablishFields ==
    ASSUME NEW s, Shape(s)
    PROVE  LET t == establishlink(s)
           IN  /\ Shape(t) /\ t.st = 5 /\ t.t200 /\ Flag(t)
               /\ t.iq = s.iq /\ t.win = EmptyWin /\ t.l3Init = s.l3Init /\ t.up = s.up
<1> DEFINE a == clear_exception(s)
           b == [a EXCEPT !.rc = 0]
           c == send_uframe(b, "SABME", FALSE, TRUE)
           d == DelT203(c)
           e == restart_t200(d)
           f == [e EXCEPT !.pendRel = FALSE]
           g == freewin(f)
           h == FsmChangeState(g, 5)
<1>1. establishlink(s) = h  BY DEF establishlink
<1>2. Quiet(s, a)  BY QuietBusy
<1> HIDE DEF a
<1>3. Quiet(a, b)  BY <1>2, QuietShape, QuietFlags
<1> HIDE DEF b
<1>4. Quiet(b, c)  BY <1>2, <1>3, QuietShape, QuietU
<1> HIDE DEF c
<1>5. Quiet(s, c) /\ Shape(c)  BY <1>2, <1>3, <1>4, QuietTrans, QuietShape
<1>6. /\ Shape(d) /\ d.st = c.st /\ d.iq = c.iq /\ d.win = c.win /\ d.l3Init = c.l3Init
      /\ d.up = c.up
  BY <1>5, AddTimer
<1> HIDE DEF d
<1>7. /\ Shape(e) /\ e.t200 /\ e.t200Run /\ e.st = d.st /\ e.iq = d.iq /\ e.win = d.win
      /\ e.l3Init = d.l3Init /\ e.up = d.up
  BY <1>6, StartT200
<1> HIDE DEF e
<1>8. Quiet(e, f) /\ Shape(f)  BY <1>7, QuietShape, QuietFlags
<1> HIDE DEF f
<1>9. /\ Shape(h) /\ h.st = 5 /\ h.t200 = f.t200 /\ h.t200Run = f.t200Run
      /\ h.iq = f.iq /\ h.win = EmptyWin /\ h.l3Init = f.l3Init /\ h.up = f.up
  BY <1>8 DEF FsmChangeState, freewin, Shape, Fields
<1>10. h.t200 /\ Flag(h)  BY <1>7, <1>8, <1>9 DEF Quiet, Shape
<1>11. QED BY <1>1, <1>5, <1>6, <1>7, <1>8, <1>9, <1>10 DEF Quiet

\* Layer 2 sets the link up anew, which layer 3 believes in.
LEMMA ReestablishDone ==
    ASSUME NEW s, Shape(s), s.up = <<>> \/ Told(s, "DL_DATA_IND")
    PROVE  /\ Sound(Reestablish(s), TRUE) /\ Reestablish(s).st = 5
           /\ s.up = <<>> => Done(Reestablish(s), TRUE)
<1> DEFINE a == establishlink(s)
           t == [a EXCEPT !.l3Init = FALSE]
<1>1. /\ Shape(a) /\ a.st = 5 /\ a.t200 /\ Flag(a)
      /\ a.iq = s.iq /\ a.win = EmptyWin /\ a.up = s.up
  BY EstablishFields
<1> HIDE DEF a
<1>2. /\ Shape(t) /\ t.st = 5 /\ t.t200 /\ Flag(t)
      /\ t.win = EmptyWin /\ t.up = s.up /\ ~t.l3Init
  BY <1>1 DEF Shape, Fields
<1>3. Reestablish(s) = t  BY DEF Reestablish, a
<1> HIDE DEF t
<1>4. ViewAfter(t, TRUE)
  <2>1. CASE t.up = <<>>  BY <2>1, ViewNone
  <2>2. CASE t.up # <<>>
    <3>1. Told(t, "DL_DATA_IND")  BY <1>2, <2>2 DEF Told
    <3>2. "DL_DATA_IND" \notin UpPrims \cup DownPrims  BY DEF UpPrims, DownPrims
    <3>3. ViewAfter(t, TRUE) = TRUE  BY <3>1, <3>2, ViewOne
    <3>4. QED BY <3>3
  <2>3. QED BY <2>1, <2>2
<1>5. Timers(t)  BY <1>2 DEF Timers
<1>6. Clean(t)  BY <1>2 DEF Clean
<1>7. Synced(t, ViewAfter(t, TRUE))
  <2>1. t.st \notin 1 .. 4  BY <1>2
  <2>2. QED BY <1>4, <2>1, Zenon DEF Synced
<1>8. Sound(t, TRUE)  BY <1>2, <1>5, <1>6, <1>7 DEF Sound, Fine
<1>9. s.up = <<>> => Mute(t)  BY <1>2, MuteNone
<1>10. QED BY <1>2, <1>3, <1>8, <1>9 DEF Done

\* Layer 3 asks for a link: nothing that it wrote before may wait.
LEMMA EstablishDone ==
    ASSUME NEW s, Shape(s), s.up = <<>>, s.iq = <<>>, NEW v
    PROVE  Done(l2_establish(s), v)
<1> DEFINE a == establishlink(s)
           t == [a EXCEPT !.l3Init = TRUE]
<1>1. /\ Shape(a) /\ a.st = 5 /\ a.t200 /\ Flag(a)
      /\ a.iq = s.iq /\ a.win = EmptyWin /\ a.up = s.up
  BY EstablishFields
<1> HIDE DEF a
<1>2. /\ Shape(t) /\ t.st = 5 /\ t.t200 /\ Flag(t)
      /\ t.iq = <<>> /\ t.win = EmptyWin /\ t.up = <<>> /\ t.l3Init
  BY <1>1 DEF Shape, Fields
<1>3. l2_establish(s) = t  BY DEF l2_establish, a
<1> HIDE DEF t
<1>4. Timers(t)  BY <1>2 DEF Timers
<1>5. Clean(t)  BY <1>2 DEF Clean
<1>6. Synced(t, ViewAfter(t, v))  BY <1>2 DEF Synced
<1>7. Mute(t)  BY <1>2, MuteNone
<1>8. QED BY <1>2, <1>3, <1>4, <1>5, <1>6, <1>7 DEF Done, Sound, Fine

-----------------------------------------------------------------------------
(* The fields of an entity, one operation after another *)

\* T200 with its flag; what else there is.
Is(t, st, a, b, iq, win, li, up) ==
    /\ Shape(t) /\ t.st = st /\ t.t200 = a /\ Flag(t) /\ t.t203 = b
    /\ t.iq = iq /\ t.win = win /\ t.l3Init = li /\ t.up = up

\* One primitive.
One(p) == Append(<<>>, [p |-> p, d |-> NoSkb])

LEMMA IsReady ==
    ASSUME NEW s, NEW v, Ready(s, v)
    PROVE  Is(s, s.st, s.t200, s.t203, s.iq, s.win, s.l3Init, <<>>)
  BY DEF Is, Ready, Fine, Timers

LEMMA IsQuiet ==
    ASSUME NEW s, NEW st, NEW a, NEW b, NEW iq, NEW win, NEW li, NEW up,
           Is(s, st, a, b, iq, win, li, up), NEW t, Quiet(s, t)
    PROVE  Is(t, st, a, b, iq, win, li, up)
  BY QuietShape DEF Is, Quiet

\* What concerns none of the fields, of what a handler calls.
LEMMA IsCall ==
    ASSUME NEW s, NEW st, NEW a, NEW b, NEW iq, NEW win, NEW li, NEW up,
           Is(s, st, a, b, iq, win, li, up)
    PROVE  /\ \A x, y, z : Is(send_uframe(s, x, y, z), st, a, b, iq, win, li, up)
           /\ \A r : Is(Ask(s, r), st, a, b, iq, win, li, up)
           /\ Is(clear_exception(s), st, a, b, iq, win, li, up)
           /\ Is(PurgeUI(s), st, a, b, iq, win, li, up)
           /\ Is(ResetVars(s), st, a, b, iq, win, li, up)
           /\ \A x : /\ Is([s EXCEPT !.rc = x], st, a, b, iq, win, li, up)
                     /\ Is([s EXCEPT !.pendRel = x], st, a, b, iq, win, li, up)
                     /\ Is([s EXCEPT !.tei = x], st, a, b, iq, win, li, up)
<1>1. Shape(s)  BY DEF Is
<1>2. ASSUME NEW x, NEW y, NEW z
      PROVE  Is(send_uframe(s, x, y, z), st, a, b, iq, win, li, up)
  BY <1>1, QuietU, IsQuiet
<1>3. ASSUME NEW r PROVE Is(Ask(s, r), st, a, b, iq, win, li, up)
  BY <1>1, QuietAsk, IsQuiet
<1>4. /\ Is(clear_exception(s), st, a, b, iq, win, li, up)
      /\ Is(PurgeUI(s), st, a, b, iq, win, li, up)
      /\ Is(ResetVars(s), st, a, b, iq, win, li, up)
  BY <1>1, QuietBusy, IsQuiet
<1>5. ASSUME NEW x
      PROVE  /\ Is([s EXCEPT !.rc = x], st, a, b, iq, win, li, up)
             /\ Is([s EXCEPT !.pendRel = x], st, a, b, iq, win, li, up)
             /\ Is([s EXCEPT !.tei = x], st, a, b, iq, win, li, up)
  BY <1>1, QuietFlags, IsQuiet
<1>6. QED BY <1>2, <1>3, <1>4, <1>5

LEMMA IsSet ==
    ASSUME NEW s, NEW st, NEW a, NEW b, NEW iq, NEW win, NEW li, NEW up,
           Is(s, st, a, b, iq, win, li, up)
    PROVE  /\ \A x : Is(FsmChangeState(s, x), x, a, b, iq, win, li, up)
           /\ Is(freewin(s), st, a, b, iq, EmptyWin, li, up)
           /\ Is(PurgeI(s), st, a, b, <<>>, win, li, up)
           /\ Is([s EXCEPT !.l3Init = FALSE], st, a, b, iq, win, FALSE, up)
           /\ Is([s EXCEPT !.l3Init = TRUE], st, a, b, iq, win, TRUE, up)
<1>1. ASSUME NEW x PROVE Is(FsmChangeState(s, x), x, a, b, iq, win, li, up)
  BY DEF Is, Shape, Fields, FsmChangeState
<1>2. Is(freewin(s), st, a, b, iq, EmptyWin, li, up)
  BY DEF Is, Shape, Fields, freewin
<1>3. Is(PurgeI(s), st, a, b, <<>>, win, li, up)
  BY DEF Is, Shape, Fields, PurgeI
<1>4. Is([s EXCEPT !.l3Init = FALSE], st, a, b, iq, win, FALSE, up)
  BY DEF Is, Shape, Fields
<1>5. Is([s EXCEPT !.l3Init = TRUE], st, a, b, iq, win, TRUE, up)
  BY DEF Is, Shape, Fields
<1>6. QED BY <1>1, <1>2, <1>3, <1>4, <1>5

LEMMA IsTimer ==
    ASSUME NEW s, NEW st, NEW a, NEW b, NEW iq, NEW win, NEW li, NEW up,
           Is(s, st, a, b, iq, win, li, up)
    PROVE  /\ Is(stop_t200(s), st, FALSE, b, iq, win, li, up)
           /\ Is(restart_t200(s), st, TRUE, b, iq, win, li, up)
           /\ Is(start_t200(s), st, TRUE, b, iq, win, li, up)
           /\ Is(AddT203(s), st, a, TRUE, iq, win, li, up)
           /\ Is(RestartT203(s), st, a, TRUE, iq, win, li, up)
           /\ Is(DelT203(s), st, a, FALSE, iq, win, li, up)
<1>1. Shape(s) /\ Flag(s)  BY DEF Is
<1>2. Is(stop_t200(s), st, FALSE, b, iq, win, li, up)
  <2>1. LET t == stop_t200(s)
        IN  /\ Shape(t) /\ ~t.t200 /\ ~t.t200Run /\ t.t203 = s.t203
            /\ t.st = s.st /\ t.iq = s.iq /\ t.win = s.win /\ t.l3Init = s.l3Init /\ t.up = s.up
    BY <1>1, StopT200
  <2>2. QED BY <2>1 DEF Is, Shape
<1>3. ASSUME NEW t \in {start_t200(s), restart_t200(s)}
      PROVE  Is(t, st, TRUE, b, iq, win, li, up)
  <2>1. /\ Shape(t) /\ t.t200 /\ t.t200Run /\ t.t203 = s.t203
        /\ t.st = s.st /\ t.iq = s.iq /\ t.win = s.win /\ t.l3Init = s.l3Init /\ t.up = s.up
    BY <1>1, StartT200
  <2>2. QED BY <2>1 DEF Is, Shape
<1>4. ASSUME NEW t \in {AddT203(s), RestartT203(s)}
      PROVE  Is(t, st, a, TRUE, iq, win, li, up)
  <2>1. /\ Shape(t) /\ t.t203 /\ t.t200Run = s.t200Run /\ t.t200 = s.t200
        /\ t.st = s.st /\ t.iq = s.iq /\ t.win = s.win /\ t.l3Init = s.l3Init /\ t.up = s.up
    BY <1>1, AddTimer
  <2>2. QED BY <2>1 DEF Is, Shape
<1>5. Is(DelT203(s), st, a, FALSE, iq, win, li, up)
  <2>1. LET t == DelT203(s)
        IN  /\ Shape(t) /\ ~t.t203 /\ t.t200Run = s.t200Run /\ t.t200 = s.t200
            /\ t.st = s.st /\ t.iq = s.iq /\ t.win = s.win /\ t.l3Init = s.l3Init /\ t.up = s.up
    BY <1>1, AddTimer
  <2>2. QED BY <2>1 DEF Is, Shape
<1>6. QED BY <1>2, <1>3, <1>4, <1>5

LEMMA IsTell ==
    ASSUME NEW s, NEW st, NEW a, NEW b, NEW iq, NEW win, NEW li,
           Is(s, st, a, b, iq, win, li, <<>>), NEW p
    PROVE  /\ Is(Tell(s, p), st, a, b, iq, win, li, One(p))
           /\ Is(lapb_dl_release_l2l3(s, p), st, a, b, iq, win, li, One(p))
<1>1. ASSUME NEW u, Is(u, st, a, b, iq, win, li, <<>>)
      PROVE  Is(Tell(u, p), st, a, b, iq, win, li, One(p))
  <2> DEFINE r == [p |-> p, d |-> NoSkb]
             t == [u EXCEPT !.up = Append(@, r)]
  <2>1. Tell(u, p) = t /\ One(p) = Append(<<>>, r)  BY DEF Tell, L2L3, One
  <2> HIDE DEF r
  <2>2. Is(t, st, a, b, iq, win, li, Append(<<>>, r))  BY <1>1 DEF Is, Shape, Fields
  <2>3. QED BY <2>1, <2>2
<1>2. Is(Ask(s, "PH_DEACTIVATE"), st, a, b, iq, win, li, <<>>)  BY IsCall
<1>3. QED BY <1>1, <1>2 DEF lapb_dl_release_l2l3

LEMMA OneTold ==
    ASSUME NEW t, NEW p, t.up = One(p) PROVE Told(t, p)
  BY DEF Told, One

\* DL_RELEASE goes up, as an indication or as the confirm that is due.
LEMMA IsReleased ==
    ASSUME NEW s, NEW st, NEW a, NEW b, NEW iq, NEW win, NEW li,
           Is(s, st, a, b, iq, win, li, <<>>)
    PROVE  \E p \in DownPrims : Is(st5_dl_release_l2l3(s), st, a, b, iq, win, li, One(p))
<1> DEFINE t == [s EXCEPT !.pendRel = FALSE]
           p == IF s.pendRel THEN "DL_RELEASE_CNF" ELSE "DL_RELEASE_IND"
<1>1. Is(t, st, a, b, iq, win, li, <<>>)  BY IsCall
<1>2. st5_dl_release_l2l3(s) = Tell(t, p)  BY DEF st5_dl_release_l2l3
<1>3. p \in DownPrims  BY DEF DownPrims
<1> HIDE DEF t, p
<1>4. QED BY <1>1, <1>2, <1>3, IsTell

LEMMA IsDown ==
    ASSUME NEW t, NEW st \in 1 .. 4, NEW a, NEW b, NEW li, NEW up,
           Is(t, st, a, b, <<>>, EmptyWin, li, up), a = FALSE \/ overtaken,
           NEW v \in BOOLEAN,
           (up = <<>> /\ ~v) \/ \E p \in DownPrims : up = One(p)
    PROVE  Done(t, v)
<1>1. /\ Shape(t) /\ t.st \in 1 .. 4 /\ Flag(t) /\ (t.t200 => overtaken)
      /\ t.iq = <<>> /\ t.win = EmptyWin
  BY DEF Is
<1>2. (t.up = <<>> /\ ~v) \/ \E p \in DownPrims : Told(t, p)
  BY OneTold DEF Is
<1>3. QED BY <1>1, <1>2, DownDone

\* Up, and frames may go out.
LEMMA IsUp ==
    ASSUME NEW s, NEW a, NEW b, NEW iq, NEW win, NEW li, NEW up,
           Is(s, 7, a, b, iq, win, li, up), a = TRUE \/ b = TRUE, NEW v \in BOOLEAN,
           (up = <<>> /\ v) \/ \E p \in UpPrims : up = One(p),
           NEW t, Runs(s, t)
    PROVE  Done(t, v)
<1>1. Shape(t) /\ t.st = 7 /\ Flag(t) /\ t.up = up  BY DEF Runs, Is
<1>2. t.t200 \/ t.t203  BY DEF Runs, Is
<1>3. (t.up = <<>> /\ v) \/ \E p \in UpPrims : Told(t, p)
  BY <1>1, OneTold
<1>4. QED BY <1>1, <1>2, <1>3, UpDone

\* A release is under way: layer 3 is told when it is over.
LEMMA IsReleasing ==
    ASSUME NEW t, NEW b, NEW li, Is(t, 6, TRUE, b, <<>>, EmptyWin, li, <<>>), NEW v
    PROVE  Done(t, v)
<1>1. /\ Shape(t) /\ t.st = 6 /\ t.t200 /\ t.t200Run /\ t.iq = <<>> /\ t.win = EmptyWin
  BY DEF Is
<1>2. Flag(t)  BY <1>1 DEF Shape
<1>3. Timers(t)  BY <1>1, <1>2 DEF Timers
<1>4. Clean(t)  BY <1>1 DEF Clean
<1>5. Synced(t, ViewAfter(t, v))  BY <1>1 DEF Synced
<1>6. Mute(t)  BY MuteNone DEF Is
<1>7. QED BY <1>1, <1>3, <1>4, <1>5, <1>6 DEF Done, Sound, Fine

\* An enquiry is out.
LEMMA IsAsking ==
    ASSUME NEW t, NEW b, NEW iq, NEW win, NEW li,
           Is(t, 8, TRUE, b, iq, win, li, <<>>), NEW v \in BOOLEAN, v
    PROVE  Done(t, v)
<1>1. ViewAfter(t, v) = v  BY ViewNone DEF Is
<1>2. Timers(t) /\ Clean(t) /\ Shape(t)
  <2>1. Shape(t) /\ t.st = 8 /\ t.t200 /\ t.t200Run  BY DEF Is
  <2>2. Flag(t)  BY <2>1 DEF Shape
  <2>3. Timers(t)  BY <2>1, <2>2 DEF Timers
  <2>4. Clean(t)  BY <2>1 DEF Clean
  <2>5. QED BY <2>1, <2>3, <2>4
<1>3. Synced(t, v)  BY DEF Is, Synced
<1>4. Mute(t)  BY MuteNone DEF Is
<1>5. QED BY <1>1, <1>2, <1>3, <1>4 DEF Done, Sound, Fine

-----------------------------------------------------------------------------
(* What a handler may take for granted in its state *)

LEMMA ReadyDown ==
    ASSUME NEW s, NEW v, Ready(s, v), s.st \in 1 .. 4
    PROVE  /\ Is(s, s.st, s.t200, s.t203, <<>>, EmptyWin, s.l3Init, <<>>)
           /\ s.t200 = FALSE \/ overtaken
           /\ ~v /\ v \in BOOLEAN /\ Shape(s)
<1>1. /\ s.t200 = FALSE \/ overtaken
      /\ s.iq = <<>> /\ s.win = EmptyWin
  BY DEF Ready, Fine, Timers, Clean, Shape
<1>2. QED BY <1>1, IsReady DEF Ready, Fine, Synced

LEMMA ReadyFive ==
    ASSUME NEW s, NEW v, Ready(s, v), s.st = 5
    PROVE  /\ Is(s, 5, TRUE, s.t203, s.iq, EmptyWin, s.l3Init, <<>>)
           /\ s.l3Init \in BOOLEAN /\ v \in BOOLEAN /\ Shape(s)
           /\ s.l3Init => s.iq = <<>>
           /\ ~s.l3Init => v
<1>1. s.t200 = TRUE /\ s.win = EmptyWin
  BY DEF Ready, Fine, Timers, Clean, Shape
<1>2. QED BY <1>1, IsReady DEF Ready, Fine, Synced, Clean, Shape

LEMMA ReadySix ==
    ASSUME NEW s, NEW v, Ready(s, v), s.st = 6
    PROVE  /\ Is(s, 6, TRUE, s.t203, <<>>, EmptyWin, s.l3Init, <<>>)
           /\ v \in BOOLEAN /\ Shape(s)
<1>1. s.t200 = TRUE /\ s.win = EmptyWin /\ s.iq = <<>>
  BY DEF Ready, Fine, Timers, Clean, Shape
<1>2. QED BY <1>1, IsReady DEF Ready, Fine

LEMMA ReadyUp ==
    ASSUME NEW s, NEW v, Ready(s, v), s.st \in {7, 8}
    PROVE  /\ Is(s, s.st, s.t200, s.t203, s.iq, s.win, s.l3Init, <<>>)
           /\ v /\ v = TRUE /\ Shape(s) /\ Flag(s)
           /\ s.st = 8 => s.t200 = TRUE
           /\ s.t200 = TRUE \/ s.t203 = TRUE
<1>1. s.st = 8 => s.t200 = TRUE  BY DEF Ready, Fine, Timers, Shape
<1>2. s.t200 = TRUE \/ s.t203 = TRUE  BY DEF Ready, Fine, Timers, Shape
<1>3. v = TRUE  BY DEF Ready, Fine, Synced
<1>4. QED BY <1>1, <1>2, <1>3, IsReady DEF Ready, Fine, Timers

LEMMA RunsRefl ==
    ASSUME NEW s, NEW st, NEW a, NEW b, NEW iq, NEW win, NEW li, NEW up,
           Is(s, st, a, b, iq, win, li, up)
    PROVE  Runs(s, s) /\ Runs(s, PullIfWaiting(s))
  BY RunsQuiet, QuietRefl, PullRequestRuns DEF Is

-----------------------------------------------------------------------------
(* Handlers of U frames *)

LEMMA DoneStartMulti ==
    ASSUME NEW s, NEW v, Ready(s, v), s.st = 4, NEW pf
    PROVE  Done(l2_start_multi(s, pf), v)
<1> DEFINE a == send_uframe(s, "UA", TRUE, pf)
           b == clear_exception(a)
           c == ResetVars(b)
           d == FsmChangeState(c, 7)
           e == AddT203(d)
           t == Tell(e, "DL_ESTABLISH_IND")
           ta == s.t200
           tt == s.t203
           li == s.l3Init
<1>1. Is(s, 4, ta, tt, <<>>, EmptyWin, li, <<>>) /\ v \in BOOLEAN
  <2>1. s.st \in 1 .. 4  OBVIOUS
  <2>2. Is(s, s.st, ta, tt, <<>>, EmptyWin, li, <<>>) /\ v \in BOOLEAN
    BY <2>1, ReadyDown
  <2>3. QED BY <2>2
<1>2. l2_start_multi(s, pf) = t  BY DEF l2_start_multi
<1> HIDE DEF ta, tt, li
<1>3. Is(a, 4, ta, tt, <<>>, EmptyWin, li, <<>>)  BY <1>1, IsCall
<1> HIDE DEF a
<1>4. Is(b, 4, ta, tt, <<>>, EmptyWin, li, <<>>)  BY <1>3, IsCall
<1> HIDE DEF b
<1>5. Is(c, 4, ta, tt, <<>>, EmptyWin, li, <<>>)  BY <1>4, IsCall
<1> HIDE DEF c
<1>6. Is(d, 7, ta, tt, <<>>, EmptyWin, li, <<>>)  BY <1>5, IsSet
<1> HIDE DEF d
<1>7. Is(e, 7, ta, TRUE, <<>>, EmptyWin, li, <<>>)  BY <1>6, IsTimer
<1> HIDE DEF e
<1>8. Is(t, 7, ta, TRUE, <<>>, EmptyWin, li, One("DL_ESTABLISH_IND"))  BY <1>7, IsTell
<1> HIDE DEF t
<1>9. Runs(t, t)  BY <1>8, RunsRefl
<1>10. "DL_ESTABLISH_IND" \in UpPrims  BY DEF UpPrims
<1>11. QED BY <1>1, <1>2, <1>8, <1>9, <1>10, IsUp

LEMMA DoneRestartMulti ==
    ASSUME NEW s, NEW v, Ready(s, v), s.st \in {7, 8}, NEW pf
    PROVE  Done(l2_restart_multi(s, pf), v)
<1> DEFINE a == send_uframe(s, "UA", TRUE, pf)
           s1 == Ask(a, "F")
           est == s.vs # s.va
           s2 == IF est THEN PurgeI(s1) ELSE s1
           c == clear_exception(s2)
           d == ResetVars(c)
           e == FsmChangeState(d, 7)
           f == stop_t200(e)
           s3 == RestartT203(f)
           u == Tell(s3, "DL_ESTABLISH_IND")
           w == IF est THEN u ELSE s3
           st == s.st
           ta == s.t200
           tb == s.t203
           iq == s.iq
           win == s.win
           li == s.l3Init
           q == s2.iq
<1>1. Is(s, st, ta, tb, iq, win, li, <<>>) /\ v /\ v \in BOOLEAN  BY ReadyUp DEF Ready
<1>2. l2_restart_multi(s, pf) = PullIfWaiting(w)  BY DEF l2_restart_multi
<1> HIDE DEF st, ta, tb, iq, win, li, est
<1>3. Is(a, st, ta, tb, iq, win, li, <<>>)  BY <1>1, IsCall
<1> HIDE DEF a
<1>4. Is(s1, st, ta, tb, iq, win, li, <<>>)  BY <1>3, IsCall
<1> HIDE DEF s1
<1>5. Is(PurgeI(s1), st, ta, tb, <<>>, win, li, <<>>)  BY <1>4, IsSet
<1>6. Is(s2, st, ta, tb, q, win, li, <<>>)  BY <1>4, <1>5 DEF Is
<1> HIDE DEF s2, q
<1>7. Is(c, st, ta, tb, q, win, li, <<>>)  BY <1>6, IsCall
<1> HIDE DEF c
<1>8. Is(d, st, ta, tb, q, win, li, <<>>)  BY <1>7, IsCall
<1> HIDE DEF d
<1>9. Is(e, 7, ta, tb, q, win, li, <<>>)  BY <1>8, IsSet
<1> HIDE DEF e
<1>10. Is(f, 7, FALSE, tb, q, win, li, <<>>)  BY <1>9, IsTimer
<1> HIDE DEF f
<1>11. Is(s3, 7, FALSE, TRUE, q, win, li, <<>>)  BY <1>10, IsTimer
<1> HIDE DEF s3
<1>12. Is(u, 7, FALSE, TRUE, q, win, li, One("DL_ESTABLISH_IND"))  BY <1>11, IsTell
<1> HIDE DEF u
<1>13. "DL_ESTABLISH_IND" \in UpPrims  BY DEF UpPrims
<1>14. Runs(u, PullIfWaiting(u)) /\ Runs(s3, PullIfWaiting(s3))
  BY <1>11, <1>12, RunsRefl
<1>15. Done(PullIfWaiting(u), v)  BY <1>1, <1>12, <1>13, <1>14, IsUp
<1>16. Done(PullIfWaiting(s3), v)  BY <1>1, <1>11, <1>14, IsUp
<1>17. QED BY <1>2, <1>15, <1>16

LEMMA DoneStopMulti ==
    ASSUME NEW s, NEW v, Ready(s, v), s.st \in {7, 8}, NEW pf
    PROVE  Done(l2_stop_multi(s, pf), v)
<1> DEFINE a == FsmChangeState(s, 4)
           b == DelT203(a)
           s1 == stop_t200(b)
           c == send_uframe(s1, "UA", TRUE, pf)
           d == PurgeI(c)
           e == freewin(d)
           t == lapb_dl_release_l2l3(e, "DL_RELEASE_IND")
           ta == s.t200
           tb == s.t203
           iq == s.iq
           win == s.win
           li == s.l3Init
<1>1. Is(s, s.st, ta, tb, iq, win, li, <<>>) /\ v \in BOOLEAN  BY ReadyUp DEF Ready
<1>2. l2_stop_multi(s, pf) = t  BY DEF l2_stop_multi
<1> HIDE DEF ta, tb, iq, win, li
<1>3. Is(a, 4, ta, tb, iq, win, li, <<>>)  BY <1>1, IsSet
<1> HIDE DEF a
<1>4. Is(b, 4, ta, FALSE, iq, win, li, <<>>)  BY <1>3, IsTimer
<1> HIDE DEF b
<1>5. Is(s1, 4, FALSE, FALSE, iq, win, li, <<>>)  BY <1>4, IsTimer
<1> HIDE DEF s1
<1>6. Is(c, 4, FALSE, FALSE, iq, win, li, <<>>)  BY <1>5, IsCall
<1> HIDE DEF c
<1>7. Is(d, 4, FALSE, FALSE, <<>>, win, li, <<>>)  BY <1>6, IsSet
<1> HIDE DEF d
<1>8. Is(e, 4, FALSE, FALSE, <<>>, EmptyWin, li, <<>>)  BY <1>7, IsSet
<1> HIDE DEF e
<1>9. Is(t, 4, FALSE, FALSE, <<>>, EmptyWin, li, One("DL_RELEASE_IND"))  BY <1>8, IsTell
<1> HIDE DEF t
<1>10. "DL_RELEASE_IND" \in DownPrims /\ 4 \in 1 .. 4  BY DEF DownPrims
<1>11. QED BY <1>1, <1>2, <1>9, <1>10, IsDown

\* The link is given up: DISC is out, and T200 waits for the answer.
LEMMA IsDisconnect ==
    ASSUME NEW s, NEW st, NEW ta, NEW tb, NEW iq, NEW win, NEW li, NEW up,
           Is(s, st, ta, tb, iq, win, li, up)
    PROVE  Is(l2_disconnect(s), 6, TRUE, FALSE, <<>>, EmptyWin, li, up)
<1> DEFINE a == PurgeI(s)
           b == freewin(a)
           c == FsmChangeState(b, 6)
           d == [c EXCEPT !.rc = 0]
           e == send_uframe(d, "DISC", FALSE, TRUE)
           f == DelT203(e)
           t == restart_t200(f)
<1>1. l2_disconnect(s) = t  BY DEF l2_disconnect
<1>2. Is(a, st, ta, tb, <<>>, win, li, up)  BY IsSet
<1> HIDE DEF a
<1>3. Is(b, st, ta, tb, <<>>, EmptyWin, li, up)  BY <1>2, IsSet
<1> HIDE DEF b
<1>4. Is(c, 6, ta, tb, <<>>, EmptyWin, li, up)  BY <1>3, IsSet
<1> HIDE DEF c
<1>5. Is(d, 6, ta, tb, <<>>, EmptyWin, li, up)  BY <1>4, IsCall
<1> HIDE DEF d
<1>6. Is(e, 6, ta, tb, <<>>, EmptyWin, li, up)  BY <1>5, IsCall
<1> HIDE DEF e
<1>7. Is(f, 6, ta, FALSE, <<>>, EmptyWin, li, up)  BY <1>6, IsTimer
<1> HIDE DEF f
<1>8. QED BY <1>1, <1>7, IsTimer

LEMMA DoneDisconnect ==
    ASSUME NEW s, NEW v, Ready(s, v)
    PROVE  Done(l2_disconnect(s), v)
<1>1. Is(l2_disconnect(s), 6, TRUE, FALSE, <<>>, EmptyWin, s.l3Init, <<>>)
  BY IsReady, IsDisconnect
<1>2. QED BY <1>1, IsReleasing

LEMMA DoneConnected ==
    ASSUME NEW s, NEW v, Ready(s, v), s.st = 5, NEW pf
    PROVE  Done(l2_connected(s, pf), v)
<1> DEFINE p == [s EXCEPT !.pendRel = FALSE]
           dis == l2_disconnect(p)
           s1 == IF s.pendRel THEN dis ELSE s
           reset == ~s.l3Init /\ s.vs # s.va
           x == PurgeI(s1)
           y == [s1 EXCEPT !.l3Init = FALSE]
           s2 == IF reset THEN x ELSE y
           a == stop_t200(s2)
           b == ResetVars(a)
           c == FsmChangeState(b, 7)
           s3 == AddT203(c)
           cnf == Tell(s3, "DL_ESTABLISH_CNF")
           ind == Tell(s3, "DL_ESTABLISH_IND")
           s4 == CASE s.l3Init -> cnf
                   [] reset -> ind
                   [] OTHER -> s3
           tb == s.t203
           iq == s.iq
           li == s.l3Init
           tb1 == s1.t203
           q1 == s1.iq
           st1 == s1.st
           q2 == s2.iq
           li2 == s2.l3Init
           err == l2_mdl_error_ua(s, pf)
<1>1. Is(s, 5, TRUE, tb, iq, EmptyWin, li, <<>>) /\ v \in BOOLEAN /\ (~s.l3Init => v)
  <2>1. Is(s, 5, TRUE, tb, iq, EmptyWin, li, <<>>)  BY ReadyFive
  <2>2. v \in BOOLEAN  BY DEF Ready
  <2>3. ~s.l3Init => v  BY DEF Ready, Fine, Synced
  <2>4. QED BY <2>1, <2>2, <2>3
<1>2. l2_connected(s, pf) = IF pf THEN PullIfWaiting(s4) ELSE err  BY DEF l2_connected
<1>3. Done(err, v)
  <2>1. Quiet(s, err)  BY <1>1, QuietAsk DEF l2_mdl_error_ua, Is
  <2>2. QED BY <2>1, QuietDone
<1> HIDE DEF tb, iq, err
<1>4. Is(p, 5, TRUE, tb, iq, EmptyWin, li, <<>>)  BY <1>1, IsCall
<1> HIDE DEF p
<1>5. Is(dis, 6, TRUE, FALSE, <<>>, EmptyWin, li, <<>>)  BY <1>4, IsDisconnect
<1> HIDE DEF dis
<1>6. Is(s1, st1, TRUE, tb1, q1, EmptyWin, li, <<>>)  BY <1>1, <1>5 DEF Is
<1> HIDE DEF s1, st1, tb1, q1
<1>7. Is(x, st1, TRUE, tb1, <<>>, EmptyWin, li, <<>>)  BY <1>6, IsSet
<1>8. Is(y, st1, TRUE, tb1, q1, EmptyWin, FALSE, <<>>)  BY <1>6, IsSet
<1> HIDE DEF x, y
<1>9. Is(s2, st1, TRUE, tb1, q2, EmptyWin, li2, <<>>)  BY <1>7, <1>8 DEF Is
<1> HIDE DEF s2, q2, li2
<1>10. Is(a, st1, FALSE, tb1, q2, EmptyWin, li2, <<>>)  BY <1>9, IsTimer
<1> HIDE DEF a
<1>11. Is(b, st1, FALSE, tb1, q2, EmptyWin, li2, <<>>)  BY <1>10, IsCall
<1> HIDE DEF b
<1>12. Is(c, 7, FALSE, tb1, q2, EmptyWin, li2, <<>>)  BY <1>11, IsSet
<1> HIDE DEF c
<1>13. Is(s3, 7, FALSE, TRUE, q2, EmptyWin, li2, <<>>)  BY <1>12, IsTimer
<1> HIDE DEF s3
<1>14. /\ Is(cnf, 7, FALSE, TRUE, q2, EmptyWin, li2, One("DL_ESTABLISH_CNF"))
       /\ Is(ind, 7, FALSE, TRUE, q2, EmptyWin, li2, One("DL_ESTABLISH_IND"))
  BY <1>13, IsTell
<1> HIDE DEF cnf, ind
<1>15. "DL_ESTABLISH_IND" \in UpPrims /\ "DL_ESTABLISH_CNF" \in UpPrims  BY DEF UpPrims
<1>16. /\ Runs(cnf, PullIfWaiting(cnf)) /\ Runs(ind, PullIfWaiting(ind))
       /\ Runs(s3, PullIfWaiting(s3))
  BY <1>13, <1>14, RunsRefl
<1>17. Done(PullIfWaiting(cnf), v)  BY <1>1, <1>14, <1>15, <1>16, IsUp
<1>18. Done(PullIfWaiting(ind), v)  BY <1>1, <1>14, <1>15, <1>16, IsUp
<1>19. ASSUME ~s.l3Init PROVE Done(PullIfWaiting(s3), v)
  BY <1>1, <1>13, <1>16, <1>19, IsUp
<1>20. Done(PullIfWaiting(s4), v)
  <2>1. CASE s.l3Init
    <3>1. s4 = cnf  BY <2>1
    <3>2. QED BY <3>1, <1>17
  <2>2. CASE reset
    <3>1. s4 = ind  BY <2>2
    <3>2. QED BY <3>1, <1>18
  <2>3. CASE ~s.l3Init /\ ~reset
    <3>1. s4 = s3  BY <2>3
    <3>2. QED BY <2>3, <3>1, <1>19
  <2>4. QED BY <2>1, <2>2, <2>3
<1>21. QED BY <1>2, <1>3, <1>20

\* ST_L2_6 ends: T200 is stopped, layer 3 has its confirm.
LEMMA IsEnded ==
    ASSUME NEW s, NEW v, Ready(s, v), s.st = 6
    PROVE  Done(FsmChangeState(lapb_dl_release_l2l3(stop_t200(s), "DL_RELEASE_CNF"), 4), v)
<1> DEFINE a == stop_t200(s)
           b == lapb_dl_release_l2l3(a, "DL_RELEASE_CNF")
           t == FsmChangeState(b, 4)
           tb == s.t203
           li == s.l3Init
<1>1. Is(s, 6, TRUE, tb, <<>>, EmptyWin, li, <<>>) /\ v \in BOOLEAN  BY ReadySix
<1> HIDE DEF tb, li
<1>2. Is(a, 6, FALSE, tb, <<>>, EmptyWin, li, <<>>)  BY <1>1, IsTimer
<1> HIDE DEF a
<1>3. Is(b, 6, FALSE, tb, <<>>, EmptyWin, li, One("DL_RELEASE_CNF"))  BY <1>2, IsTell
<1> HIDE DEF b
<1>4. Is(t, 4, FALSE, tb, <<>>, EmptyWin, li, One("DL_RELEASE_CNF"))  BY <1>3, IsSet
<1>5. "DL_RELEASE_CNF" \in DownPrims /\ 4 \in 1 .. 4  BY DEF DownPrims
<1> HIDE DEF t
<1>6. Done(t, v)  BY <1>1, <1>4, <1>5, IsDown
<1>7. QED BY <1>6 DEF a, b, t

LEMMA DoneReleased ==
    ASSUME NEW s, NEW v, Ready(s, v), s.st = 6, NEW pf
    PROVE  Done(l2_released(s, pf), v) /\ Done(l2_st6_dm_release(s, pf), v)
<1>1. Shape(s)  BY ReadySix
<1>2. Done(s, v) /\ Done(l2_mdl_error_ua(s, pf), v)
  BY <1>1, QuietRefl, QuietAsk, QuietDone DEF l2_mdl_error_ua
<1>3. QED BY <1>2, IsEnded DEF l2_released, l2_st6_dm_release

LEMMA DoneDmRelease ==
    ASSUME NEW s, NEW v, Ready(s, v), s.st = 5, NEW pf
    PROVE  Done(l2_st5_dm_release(s, pf), v)
<1> DEFINE s1 == stop_t200(s)
           x == PurgeI(s1)
           s2 == IF s.l3Init THEN s1 ELSE x
           y == Ask(s2, "PH_DEACTIVATE")
           s3 == IF LAPD THEN s2 ELSE y
           u == st5_dl_release_l2l3(s3)
           t == FsmChangeState(u, 4)
           tb == s.t203
           iq == s.iq
           li == s.l3Init
<1>1. /\ Is(s, 5, TRUE, tb, iq, EmptyWin, li, <<>>) /\ v \in BOOLEAN /\ (s.l3Init => iq = <<>>)
      /\ Shape(s)
  BY ReadyFive
<1>2. l2_st5_dm_release(s, pf) = IF pf THEN t ELSE s  BY DEF l2_st5_dm_release
<1> HIDE DEF tb, iq, li
<1>3. Is(s1, 5, FALSE, tb, iq, EmptyWin, li, <<>>)  BY <1>1, IsTimer
<1> HIDE DEF s1
<1>4. Is(x, 5, FALSE, tb, <<>>, EmptyWin, li, <<>>)  BY <1>3, IsSet
<1> HIDE DEF x
<1>5. Is(s2, 5, FALSE, tb, <<>>, EmptyWin, li, <<>>)
  <2>1. CASE s.l3Init
    <3>1. iq = <<>> /\ s2 = s1  BY <1>1, <2>1
    <3>2. QED BY <1>3, <3>1
  <2>2. CASE ~s.l3Init
    <3>1. s2 = x  BY <2>2
    <3>2. QED BY <1>4, <3>1
  <2>3. QED BY <2>1, <2>2
<1> HIDE DEF s2
<1>6. Is(y, 5, FALSE, tb, <<>>, EmptyWin, li, <<>>)  BY <1>5, IsCall
<1> HIDE DEF y
<1>7. Is(s3, 5, FALSE, tb, <<>>, EmptyWin, li, <<>>)  BY <1>5, <1>6
<1> HIDE DEF s3
<1>8. PICK p \in DownPrims : Is(u, 5, FALSE, tb, <<>>, EmptyWin, li, One(p))
  BY <1>7, IsReleased
<1> HIDE DEF u
<1>9. Is(t, 4, FALSE, tb, <<>>, EmptyWin, li, One(p))  BY <1>8, IsSet
<1> HIDE DEF t
<1>10. 4 \in 1 .. 4  OBVIOUS
<1>11. Done(t, v)  BY <1>1, <1>8, <1>9, <1>10, IsDown
<1>12. Done(s, v)  BY <1>1, QuietRefl, QuietDone
<1>13. QED BY <1>2, <1>11, <1>12

\* The link fails in multi-frame operation and is set up anew.
LEMMA DoneReestablish ==
    ASSUME NEW s, NEW v, Ready(s, v), s.st \in {7, 8}, NEW t, Quiet(s, t)
    PROVE  Done(Reestablish(t), v)
<1>1. v /\ v \in BOOLEAN /\ Shape(s)  BY ReadyUp DEF Ready
<1>2. Shape(t) /\ t.up = <<>>  BY <1>1, QuietShape DEF Quiet, Ready
<1>3. Done(Reestablish(t), TRUE)  BY <1>2, ReestablishDone
<1>4. v = TRUE  BY <1>1
<1>5. QED BY <1>3, <1>4

LEMMA DoneMdlError ==
    ASSUME NEW s, NEW v, Ready(s, v), s.st \in {7, 8}, NEW pf, NEW rejected
    PROVE  /\ Done(l2_mdl_error_dm(s, pf), v) /\ Done(l2_st8_mdl_error_dm(s, pf), v)
           /\ Done(l2_got_FRMR(s, rejected), v) /\ Done(l2_mdl_error_ua(s, pf), v)
           /\ Done(Reestablish(Ask(s, "L")), v) /\ Done(nrerrorrecovery(s), v)
<1>1. Shape(s)  BY ReadyUp
<1>2. \A r : Quiet(s, Ask(s, r))  BY <1>1, QuietAsk
<1>3. \A r : Done(Ask(s, r), v) /\ Done(Reestablish(Ask(s, r)), v)
  BY <1>2, QuietDone, DoneReestablish
<1>4. Done(s, v)  BY <1>1, QuietRefl, QuietDone
<1>5. /\ Done(l2_mdl_error_dm(s, pf), v) /\ Done(l2_st8_mdl_error_dm(s, pf), v)
  BY <1>3 DEF l2_mdl_error_dm, l2_st8_mdl_error_dm
<1>6. Done(l2_got_FRMR(s, rejected), v) /\ Done(l2_mdl_error_ua(s, pf), v)
  BY <1>3, <1>4 DEF l2_got_FRMR, l2_mdl_error_ua
<1>7. QED BY <1>3, <1>5, <1>6 DEF nrerrorrecovery

-----------------------------------------------------------------------------
(* Handlers of I and S frames *)

\* What layer 3 is told with a frame.
DataInd(d) == Append(<<>>, [p |-> "DL_DATA_IND", d |-> d])
Nothing == <<>>

\* In multi-frame operation, with a timer, and layer 3 told as said.
Live(t, st, told) ==
    /\ Shape(t) /\ t.st = st /\ Flag(t)
    /\ t.t200 \/ t.t203
    /\ st = 8 => t.t200
    /\ t.up = told

LEMMA LiveReady ==
    ASSUME NEW s, NEW v, Ready(s, v), s.st \in {7, 8}
    PROVE  Live(s, s.st, Nothing) /\ v = TRUE
  BY DEF Ready, Fine, Timers, Synced, Live, Nothing

LEMMA LiveRuns ==
    ASSUME NEW s, NEW st, NEW told, Live(s, st, told), NEW t, Runs(s, t)
    PROVE  Live(t, st, told)
  BY DEF Live, Runs

LEMMA LiveQuiet ==
    ASSUME NEW s, NEW st, NEW told, Live(s, st, told), NEW t, Quiet(s, t)
    PROVE  Live(t, st, told)
  BY LiveRuns, RunsQuiet DEF Live

LEMMA LiveGood ==
    ASSUME NEW t, NEW st \in {7, 8}, NEW told, Live(t, st, told),
           told = Nothing \/ \E d : told = DataInd(d)
    PROVE  Sound(t, TRUE) /\ (told = Nothing => Mute(t))
<1>1. ViewAfter(t, TRUE)
  <2>1. CASE told = Nothing  BY <2>1, ViewNone DEF Live, Nothing
  <2>2. CASE told # Nothing
    <3>1. Told(t, "DL_DATA_IND")  BY <2>2 DEF Live, Told, DataInd
    <3>2. "DL_DATA_IND" \notin UpPrims \cup DownPrims  BY DEF UpPrims, DownPrims
    <3>3. ViewAfter(t, TRUE) = TRUE  BY <3>1, <3>2, ViewOne
    <3>4. QED BY <3>3
  <2>3. QED BY <2>1, <2>2
<1>2. Timers(t) /\ Clean(t) /\ Shape(t)  BY DEF Live, Timers, Clean
<1>3. Synced(t, ViewAfter(t, TRUE))
  <2>1. t.st \notin 1 .. 4  BY DEF Live
  <2>2. QED BY <1>1, <2>1, Zenon DEF Synced
<1>4. told = Nothing => Mute(t)  BY MuteNone DEF Live, Nothing
<1>5. QED BY <1>2, <1>3, <1>4 DEF Sound, Fine

LEMMA LiveDone ==
    ASSUME NEW t, NEW st \in {7, 8}, Live(t, st, Nothing)
    PROVE  Done(t, TRUE)
  BY LiveGood DEF Done

LEMMA LiveTimers ==
    ASSUME NEW s, NEW st, NEW told, Live(s, st, told)
    PROVE  /\ st = 7 => Live(RestartT203(stop_t200(s)), st, told)
           /\ Live(restart_t200(s), st, told) /\ Live(restart_t200(DelT203(s)), st, told)
<1> DEFINE a == stop_t200(s)
           b == RestartT203(a)
           d == DelT203(s)
<1>1. Shape(s) /\ Flag(s)  BY DEF Live
<1>2. /\ Shape(a) /\ ~a.t200 /\ ~a.t200Run /\ a.st = s.st /\ a.up = s.up
  BY <1>1, StopT200
<1> HIDE DEF a
<1>3. /\ Shape(b) /\ b.t203 /\ b.t200Run = a.t200Run /\ b.t200 = a.t200
      /\ b.st = a.st /\ b.up = a.up
  BY <1>2, AddTimer
<1> HIDE DEF b
<1>4. ASSUME st = 7 PROVE Live(b, st, told)
  <2>1. Flag(b)  BY <1>2, <1>3 DEF Shape
  <2>2. QED BY <1>2, <1>3, <1>4, <2>1 DEF Live
<1>5. ASSUME NEW u, Shape(u), u.st = s.st, u.up = s.up PROVE Live(restart_t200(u), st, told)
  <2> DEFINE t == restart_t200(u)
  <2>1. Shape(t) /\ t.t200 /\ t.t200Run /\ t.st = u.st /\ t.up = u.up
    BY <1>5, StartT200
  <2> HIDE DEF t
  <2>2. Flag(t)  BY <2>1 DEF Shape
  <2>3. Live(t, st, told)  BY <1>5, <2>1, <2>2 DEF Live
  <2>4. QED BY <2>3 DEF t
<1>6. Shape(d) /\ d.st = s.st /\ d.up = s.up  BY <1>1, AddTimer
<1> HIDE DEF d
<1>7. Live(restart_t200(s), st, told) /\ Live(restart_t200(d), st, told)  BY <1>1, <1>5, <1>6
<1>8. QED BY <1>4, <1>7 DEF a, b, d

LEMMA LiveMoves ==
    ASSUME NEW s, NEW st \in {7, 8}, NEW told, Live(s, st, told), NEW nr, NEW ds
    PROVE  /\ Live(setva(s, nr, ds), st, told) /\ Live(invoke_retransmission(s, nr), st, told)
           /\ Live(PullRequest(s), st, told) /\ Live(PullIfWaiting(s), st, told)
           /\ Live(Refill(s, ds), st, told)
<1>1. Shape(s) /\ Flag(s) /\ s.st \in {7, 8}  BY DEF Live
<1>2. QED BY <1>1, SetvaRuns, InvokeRuns, PullRequestRuns, RefillRuns, LiveRuns

LEMMA LiveRecovery ==
    ASSUME NEW s, NEW st, NEW told, Live(s, st, told)
    PROVE  /\ nrerrorrecovery(s).st = 5
           /\ told = Nothing => Done(nrerrorrecovery(s), TRUE)
           /\ (\E d : told = DataInd(d)) => Sound(nrerrorrecovery(s), TRUE)
<1> DEFINE a == Ask(s, "J")
<1>1. Quiet(s, a)  BY QuietAsk DEF Live
<1>2. Live(a, st, told)  BY <1>1, LiveQuiet
<1> HIDE DEF a
<1>3. told = Nothing => a.up = <<>>  BY <1>2 DEF Live, Nothing
<1>4. (\E d : told = DataInd(d)) => Told(a, "DL_DATA_IND")
  BY <1>2 DEF Live, Told, DataInd
<1>5. nrerrorrecovery(s) = Reestablish(a)  BY DEF nrerrorrecovery, a
<1>6. Shape(a)  BY <1>2 DEF Live
<1>7. Reestablish(a).st = 5  BY <1>6, EstablishFields DEF Reestablish, Shape, Fields
<1>8. QED BY <1>3, <1>4, <1>5, <1>6, <1>7, ReestablishDone

LEMMA LiveResponse ==
    ASSUME NEW s, NEW st, NEW told, Live(s, st, told)
    PROVE  /\ Live(enquiry_response(s), st, told)
           /\ \A r : Live(Ask(s, r), st, told)
           /\ \A x, y, z : Live(enquiry_cr(s, x, y, z), st, told)
           /\ \A b : Live([s EXCEPT !.ackPend = b], st, told)
           /\ \A f : Live(GotNr(s, f), st, told)
<1>1. Shape(s)  BY DEF Live
<1>2. /\ Quiet(s, enquiry_response(s))
      /\ \A r : Quiet(s, Ask(s, r))
      /\ \A x, y, z : Quiet(s, enquiry_cr(s, x, y, z))
      /\ \A b : Quiet(s, [s EXCEPT !.ackPend = b])
      /\ \A f : Quiet(s, GotNr(s, f))
  BY <1>1, QuietResponse, QuietAsk, QuietU, QuietAck, QuietGotNr
<1>3. QED BY <1>2, LiveQuiet

LEMMA DoneSuper7 ==
    ASSUME NEW s, NEW v, Ready(s, v), s.st = 7, NEW f, NEW ds
    PROVE  Done(l2_st7_got_super(s, f, ds), v)
<1> DEFINE s1 == GotNr(s, f)
           x == Ask(s1, "A")
           y == enquiry_response(s1)
           s2 == IF ~f.pf THEN s1 ELSE IF f.rsp THEN x ELSE y
           a == setva(s2, f.nr, ds)
           b == invoke_retransmission(a, f.nr)
           t1 == RestartT203(stop_t200(b))
           t2 == RestartT203(stop_t200(a))
           t3 == restart_t200(a)
           t4 == restart_t200(DelT203(a))
           rr == f.t = "RR"
           s3 == IF f.t = "REJ" THEN t1
                 ELSE IF rr /\ f.nr = s2.vs THEN t2
                 ELSE IF f.nr # s2.va \/ f.t = "RNR"
                 THEN restart_t200(IF rr THEN a ELSE DelT203(a))
                 ELSE s2
           r1 == nrerrorrecovery(s2)
           r2 == PullRequest(s3)
<1>1. Live(s, 7, Nothing) /\ v = TRUE
  <2>1. s.st \in {7, 8}  OBVIOUS
  <2>2. Live(s, s.st, Nothing) /\ v = TRUE  BY <2>1, LiveReady DEF Ready
  <2>3. QED BY <2>2
<1>2. l2_st7_got_super(s, f, ds) \in {r1, r2, s3}  BY DEF l2_st7_got_super
<1>3. s3 \in {t1, t2, t3, t4, s2}  OBVIOUS
<1>4. Live(s1, 7, Nothing)  BY <1>1, LiveResponse
<1> HIDE DEF s1
<1>5. Live(x, 7, Nothing) /\ Live(y, 7, Nothing)  BY <1>4, LiveResponse
<1> HIDE DEF x, y
<1>6. Live(s2, 7, Nothing)  BY <1>4, <1>5
<1> HIDE DEF s2
<1>7. Live(a, 7, Nothing)  BY <1>6, LiveMoves
<1> HIDE DEF a
<1>8. Live(b, 7, Nothing)  BY <1>7, LiveMoves
<1> HIDE DEF b
<1>9. Live(t1, 7, Nothing) /\ Live(t2, 7, Nothing) /\ Live(t3, 7, Nothing) /\ Live(t4, 7, Nothing)
  BY <1>7, <1>8, LiveTimers
<1> HIDE DEF t1, t2, t3, t4
<1>10. Live(s3, 7, Nothing)  BY <1>3, <1>6, <1>9
<1> HIDE DEF s3
<1>11. Live(r2, 7, Nothing)  BY <1>10, LiveMoves
<1>12. Done(s3, TRUE) /\ Done(r2, TRUE)  BY <1>10, <1>11, LiveDone
<1>13. Done(r1, TRUE)  BY <1>6, LiveRecovery
<1> HIDE DEF r1, r2
<1>14. QED BY <1>1, <1>2, <1>12, <1>13

LEMMA DoneSuper8 ==
    ASSUME NEW s, NEW v, Ready(s, v), s.st = 8, NEW f, NEW ds
    PROVE  Done(l2_st8_got_super(s, f, ds), v)
<1> DEFINE s1 == GotNr(s, f)
           p == restart_t200(s1)
           a == stop_t200(s1)
           b == AddT203(a)
           q == setva(b, f.nr, ds)
           s2 == IF f.t = "RNR" THEN p ELSE q
           c == invoke_retransmission(s2, f.nr)
           s3 == FsmChangeState(c, 7)
           y == enquiry_response(s1)
           s4 == IF f.pf /\ ~f.rsp THEN y ELSE s1
           r1 == nrerrorrecovery(s4)
           r2 == PullIfWaiting(s3)
           r3 == setva(s4, f.nr, ds)
<1>1. Live(s, 8, Nothing) /\ v = TRUE
  <2>1. s.st \in {7, 8}  OBVIOUS
  <2>2. Live(s, s.st, Nothing) /\ v = TRUE  BY <2>1, LiveReady DEF Ready
  <2>3. QED BY <2>2
<1>2. l2_st8_got_super(s, f, ds) \in {r1, r2, r3}  BY DEF l2_st8_got_super
<1>3. Live(s1, 8, Nothing)  BY <1>1, LiveResponse
<1> HIDE DEF s1
<1>4. Live(y, 8, Nothing)  BY <1>3, LiveResponse
<1> HIDE DEF y
<1>5. Live(s4, 8, Nothing)  BY <1>3, <1>4
<1> HIDE DEF s4
<1>6. Live(r3, 8, Nothing)  BY <1>5, LiveMoves
<1>7. Done(r3, TRUE)  BY <1>6, LiveDone
<1>8. Done(r1, TRUE)  BY <1>5, LiveRecovery
<1> HIDE DEF r1, r3
<1>9. Live(p, 8, Nothing)  BY <1>3, LiveTimers
<1> HIDE DEF p
<1>10. Shape(s1) /\ Flag(s1)  BY <1>3 DEF Live
<1>11. Shape(a) /\ ~a.t200 /\ ~a.t200Run /\ a.st = s1.st /\ a.up = s1.up
  BY <1>10, StopT200
<1> HIDE DEF a
<1>12. /\ Shape(b) /\ b.t203 /\ b.t200Run = a.t200Run /\ b.t200 = a.t200
       /\ b.st = a.st /\ b.up = a.up
  BY <1>11, AddTimer
<1> HIDE DEF b
<1>13. Flag(b) /\ b.st = 8  BY <1>3, <1>11, <1>12 DEF Shape, Live
<1>14. Runs(b, q)  BY <1>12, <1>13, SetvaRuns
<1> HIDE DEF q
<1>15. /\ Shape(s2) /\ s2.st = 8 /\ Flag(s2) /\ (s2.t200 \/ s2.t203)
       /\ s2.up = <<>>
  <2>1. CASE f.t = "RNR"
    <3>1. s2 = p  BY <2>1
    <3>2. QED BY <1>9, <3>1 DEF Live, Nothing
  <2>2. CASE f.t # "RNR"
    <3>1. s2 = q  BY <2>2
    <3>2. q.up = s1.up /\ q.st = 8  BY <1>11, <1>12, <1>13, <1>14 DEF Runs
    <3>3. Shape(q) /\ Flag(q) /\ (q.t200 \/ q.t203)  BY <1>12, <1>14 DEF Runs
    <3>4. q.up = <<>>  BY <1>3, <3>2 DEF Live, Nothing
    <3>5. QED BY <3>1, <3>2, <3>3, <3>4
  <2>3. QED BY <2>1, <2>2
<1> HIDE DEF s2
<1>16. Runs(s2, c)  BY <1>15, InvokeRuns
<1> HIDE DEF c
<1>17. /\ Shape(c) /\ Flag(c) /\ (c.t200 \/ c.t203)
       /\ c.up = <<>>
  BY <1>15, <1>16 DEF Runs
<1>18. /\ Shape(s3) /\ s3.st = 7 /\ s3.t200Run = c.t200Run /\ s3.t200 = c.t200
       /\ s3.t203 = c.t203 /\ s3.up = c.up
  BY <1>17 DEF FsmChangeState, Shape, Fields
<1> HIDE DEF s3
<1>19. Live(s3, 7, Nothing)
  <2>1. Flag(s3) /\ (s3.t200 \/ s3.t203)  BY <1>17, <1>18
  <2>2. QED BY <1>17, <1>18, <2>1 DEF Live, Nothing
<1>20. Live(r2, 7, Nothing)  BY <1>19, LiveMoves
<1>21. Done(r2, TRUE)  BY <1>20, LiveDone
<1> HIDE DEF r2
<1>22. QED BY <1>1, <1>2, <1>7, <1>8, <1>21

LEMMA LiveAccept ==
    ASSUME NEW s, NEW st \in {7, 8}, Live(s, st, Nothing), NEW f, NEW reply
    PROVE  Live(Accept(s, f, reply), st, DataInd(f.d))
<1> DEFINE a == [s EXCEPT !.vr = Inc(@), !.rejExc = FALSE]
           x == enquiry_response(a)
           y == [a EXCEPT !.ackPend = TRUE]
           b == IF f.pf THEN x ELSE y
           r == [p |-> "DL_DATA_IND", d |-> f.d]
           c == [b EXCEPT !.up = Append(@, r)]
<1>1. Accept(s, f, reply) = Refill(c, reply)  BY DEF Accept, L2L3
<1>2. Shape(s)  BY DEF Live
<1>3. Quiet(s, a)  BY <1>2 DEF Quiet, Shape, Fields
<1> HIDE DEF a
<1>4. Live(a, st, Nothing) /\ Shape(a)  BY <1>2, <1>3, LiveQuiet, QuietShape
<1>5. Quiet(a, x) /\ Quiet(a, y)  BY <1>4, QuietResponse, QuietAck
<1> HIDE DEF x, y
<1>6. Live(b, st, Nothing) /\ b.up = <<>>
  <2>1. Quiet(a, b)  BY <1>5
  <2>2. Live(b, st, Nothing)  BY <1>4, <2>1, LiveQuiet
  <2>3. QED BY <2>2 DEF Live, Nothing
<1> HIDE DEF b
<1>7. Shape(b)  BY <1>6 DEF Live
<1>8. /\ Shape(c) /\ c.st = b.st /\ c.t200 = b.t200 /\ c.t200Run = b.t200Run
      /\ c.t203 = b.t203 /\ c.up = Append(<<>>, r)
  BY <1>6, <1>7 DEF Shape, Fields
<1>9. c.up = DataInd(f.d)  BY <1>8 DEF DataInd
<1> HIDE DEF r
<1> HIDE DEF c
<1>10. Live(c, st, DataInd(f.d))  BY <1>6, <1>8, <1>9 DEF Live
<1>11. QED BY <1>1, <1>10, LiveMoves

LEMMA LiveReject ==
    ASSUME NEW s, NEW st, NEW told, Live(s, st, told), NEW f
    PROVE  Live(Reject(s, f), st, told)
<1> DEFINE a == enquiry_cr(s, "REJ", TRUE, f.pf)
           b == [a EXCEPT !.rejExc = TRUE, !.ackPend = FALSE]
           x == enquiry_response(s)
<1>1. Reject(s, f) \in {b, x, s}  BY DEF Reject
<1>2. Live(a, st, told) /\ Live(x, st, told)  BY LiveResponse
<1> HIDE DEF a, x
<1>3. Quiet(a, b)  BY <1>2 DEF Live, Quiet, Shape, Fields
<1>4. Live(b, st, told)  BY <1>2, <1>3, LiveQuiet
<1> HIDE DEF b
<1>5. QED BY <1>1, <1>2, <1>4

LEMMA GoodIframe ==
    ASSUME NEW s, NEW v, Ready(s, v), s.st \in {7, 8}, NEW f, NEW reply, NEW ds
    PROVE  /\ Sound(l2_got_iframe(s, f, reply, ds), v)
           /\ s.vr # f.ns => Mute(l2_got_iframe(s, f, reply, ds))
<1> DEFINE st == s.st
           x == Accept(s, f, reply)
           y == Reject(s, f)
           s1 == IF s.vr = f.ns THEN x ELSE y
           t1 == RestartT203(stop_t200(s1))
           t2 == restart_t200(s1)
           s2 == IF s1.peerBusy \/ s1.st # 7 THEN s1
                 ELSE IF f.nr = s1.vs THEN t1
                 ELSE IF f.nr # s1.va THEN t2 ELSE s1
           s3 == setva(s2, f.nr, ds)
           w == PullRequest(s3)
           s4 == IF s3.iq # <<>> /\ s3.st = 7 THEN w ELSE s3
           a == [s4 EXCEPT !.ackPend = FALSE]
           r1 == nrerrorrecovery(s1)
           r2 == enquiry_cr(a, "RR", TRUE, FALSE)
           told == s1.up
<1>1. Live(s, st, Nothing) /\ v = TRUE /\ st \in {7, 8}  BY LiveReady DEF Ready
<1>2. l2_got_iframe(s, f, reply, ds) \in {r1, r2, s4}  BY DEF l2_got_iframe
<1> HIDE DEF st
<1>3. Live(x, st, DataInd(f.d)) /\ Live(y, st, Nothing)  BY <1>1, LiveAccept, LiveReject
<1> HIDE DEF x, y
<1>4. /\ Live(s1, st, told) /\ (told = Nothing \/ \E z : told = DataInd(z))
      /\ s.vr # f.ns => told = Nothing
  BY <1>3 DEF Live
<1> HIDE DEF s1, told
<1>5. (st = 7 => Live(t1, st, told)) /\ Live(t2, st, told) /\ s1.st = st
  BY <1>4, LiveTimers DEF Live
<1> HIDE DEF t1, t2
<1>6. Live(s2, st, told)  BY <1>4, <1>5
<1> HIDE DEF s2
<1>7. Live(s3, st, told)  BY <1>1, <1>6, LiveMoves
<1> HIDE DEF s3
<1>8. Live(w, st, told)  BY <1>1, <1>7, LiveMoves
<1> HIDE DEF w
<1>9. Live(s4, st, told)  BY <1>7, <1>8
<1> HIDE DEF s4
<1>10. Live(a, st, told)  BY <1>9, LiveResponse
<1> HIDE DEF a
<1>11. Live(r2, st, told)  BY <1>10, LiveResponse
<1>12. /\ Sound(s4, TRUE) /\ Sound(r2, TRUE)
       /\ told = Nothing => Mute(s4) /\ Mute(r2)
  BY <1>1, <1>4, <1>9, <1>11, LiveGood
<1>13. Sound(r1, TRUE) /\ (told = Nothing => Mute(r1))  BY <1>4, LiveRecovery DEF Done
<1> HIDE DEF r1, r2
<1>14. QED BY <1>1, <1>2, <1>4, <1>12, <1>13

-----------------------------------------------------------------------------
(* The timers expire *)

\* T200 has expired: the flag still says that it runs.
Expired(s) == [s EXCEPT !.t200 = FALSE]

LEMMA ExpiredFields ==
    ASSUME NEW s, NEW v, Ready(s, v), s.t200
    PROVE  LET e == Expired(s)
           IN  /\ Shape(e) /\ e.st = s.st /\ e.t200 = FALSE /\ e.t200Run = TRUE
               /\ e.t203 = s.t203 /\ e.iq = s.iq /\ e.win = s.win /\ e.l3Init = s.l3Init
               /\ e.up = s.up
               /\ s.t200 = TRUE /\ s.t200Run = TRUE /\ Shape(s)
<1>1. Shape(s) /\ Flag(s)  BY DEF Ready, Fine, Timers
<1>2. s.t200 = TRUE /\ s.t200Run = TRUE  BY <1>1 DEF Shape
<1> DEFINE e == Expired(s)
<1>3. /\ Shape(e) /\ e.st = s.st /\ e.t200 = FALSE /\ e.t200Run = s.t200Run
      /\ e.t203 = s.t203 /\ e.iq = s.iq /\ e.win = s.win /\ e.l3Init = s.l3Init /\ e.up = s.up
  BY <1>1 DEF Expired, Shape, Fields
<1> HIDE DEF e
<1>4. e.t200Run = TRUE  BY <1>2, <1>3
<1>5. QED BY <1>1, <1>2, <1>3, <1>4 DEF e

\* Added again, it is as before; so does a repeated command leave it.
LEMMA ExpiredAgain ==
    ASSUME NEW s, NEW v, Ready(s, v), s.t200, NEW x, NEW t
    PROVE  /\ Quiet(s, AddT200(Expired(s)))
           /\ Quiet(s, send_uframe(AddT200([Expired(s) EXCEPT !.rc = x]), t, FALSE, TRUE))
<1> DEFINE e == Expired(s)
           r == [e EXCEPT !.rc = x]
<1>1. /\ Shape(e) /\ e.st = s.st /\ e.t200Run = TRUE
      /\ e.t203 = s.t203 /\ e.iq = s.iq /\ e.win = s.win /\ e.l3Init = s.l3Init /\ e.up = s.up
      /\ s.t200 = TRUE /\ s.t200Run = TRUE /\ Shape(s)
  BY ExpiredFields
<1> HIDE DEF e
<1>2. Quiet(e, r) /\ Shape(r)  BY <1>1, QuietFlags, QuietShape
<1> HIDE DEF r
<1>3. ASSUME NEW u, Shape(u), Quiet(e, u) PROVE Quiet(s, AddT200(u))
  <2> DEFINE w == AddT200(u)
  <2>1. /\ Shape(w) /\ w.t200 /\ w.t200Run = u.t200Run /\ w.t203 = u.t203
        /\ w.st = u.st /\ w.iq = u.iq /\ w.win = u.win /\ w.l3Init = u.l3Init /\ w.up = u.up
    BY <1>3, AddTimer
  <2> HIDE DEF w
  <2>2. w.t200 = TRUE  BY <2>1 DEF Shape
  <2>3. Quiet(s, w)  BY <1>1, <1>3, <2>1, <2>2 DEF Quiet, Shape
  <2>4. QED BY <2>3 DEF w
<1>4. Quiet(s, AddT200(e))  BY <1>1, <1>3, QuietRefl
<1>5. Quiet(s, AddT200(r))  BY <1>2, <1>3
<1>6. Shape(AddT200(r))  BY <1>1, <1>5, QuietShape
<1>7. Quiet(AddT200(r), send_uframe(AddT200(r), t, FALSE, TRUE))  BY <1>6, QuietU
<1>8. Quiet(s, send_uframe(AddT200(r), t, FALSE, TRUE))  BY <1>5, <1>7, QuietTrans
<1>9. QED BY <1>4, <1>8 DEF e, r

\* Given up, and the flag cleared.
LEMMA ExpiredStop ==
    ASSUME NEW s, NEW v, Ready(s, v), s.t200
    PROVE  \A st : /\ Is([FsmChangeState(Expired(s), st) EXCEPT !.t200Run = FALSE],
                         st, FALSE, s.t203, s.iq, s.win, s.l3Init, <<>>)
                   /\ Is(FsmChangeState([Expired(s) EXCEPT !.t200Run = FALSE], st),
                         st, FALSE, s.t203, s.iq, s.win, s.l3Init, <<>>)
                   /\ Is([Expired(s) EXCEPT !.t200Run = FALSE],
                         s.st, FALSE, s.t203, s.iq, s.win, s.l3Init, <<>>)
<1> DEFINE e == Expired(s)
<1>1. /\ Shape(e) /\ e.st = s.st /\ e.t200 = FALSE
      /\ e.t203 = s.t203 /\ e.iq = s.iq /\ e.win = s.win /\ e.l3Init = s.l3Init /\ e.up = <<>>
  BY ExpiredFields DEF Ready
<1> HIDE DEF e
<1>2. ASSUME NEW st
      PROVE  Is([FsmChangeState(e, st) EXCEPT !.t200Run = FALSE],
                st, FALSE, s.t203, s.iq, s.win, s.l3Init, <<>>)
  BY <1>1 DEF Is, Shape, Fields, FsmChangeState
<1>3. Is([e EXCEPT !.t200Run = FALSE],
         s.st, FALSE, s.t203, s.iq, s.win, s.l3Init, <<>>)
  BY <1>1 DEF Is, Shape, Fields
<1>4. ASSUME NEW st
      PROVE  Is(FsmChangeState([e EXCEPT !.t200Run = FALSE], st),
                st, FALSE, s.t203, s.iq, s.win, s.l3Init, <<>>)
  BY <1>3, IsSet
<1>5. QED BY <1>2, <1>3, <1>4 DEF e

LEMMA Done5Tout ==
    ASSUME NEW s, NEW v, Ready(s, v), s.st = 5, s.t200
    PROVE  Done(l2_st5_tout_200(Expired(s)), v)
<1> DEFINE e == Expired(s)
           w == AddT200(e)
           x == e.rc + 1
           again == send_uframe(AddT200([e EXCEPT !.rc = x]), "SABME", FALSE, TRUE)
           a == [FsmChangeState(e, 4) EXCEPT !.t200Run = FALSE]
           b == PurgeI(a)
           c == Ask(b, "G")
           d == Ask(c, "PH_DEACTIVATE")
           g == IF LAPD THEN c ELSE d
           t == st5_dl_release_l2l3(g)
           tb == s.t203
           iq == s.iq
           li == s.l3Init
<1>1. l2_st5_tout_200(e) \in {w, again, t}
  <2>1. [e EXCEPT !.rc = @ + 1] = [e EXCEPT !.rc = x]  OBVIOUS
  <2>2. QED BY <2>1 DEF l2_st5_tout_200
<1>2. s.win = EmptyWin /\ v \in BOOLEAN  BY DEF Ready, Fine, Clean
<1>3. Is(a, 4, FALSE, tb, iq, EmptyWin, li, <<>>)  BY <1>2, ExpiredStop
<1> HIDE DEF x
<1>4. Quiet(s, w) /\ Quiet(s, again)  BY ExpiredAgain
<1> HIDE DEF w, again, e, a, tb, iq, li
<1>5. Is(b, 4, FALSE, tb, <<>>, EmptyWin, li, <<>>)  BY <1>3, IsSet
<1> HIDE DEF b
<1>6. Is(c, 4, FALSE, tb, <<>>, EmptyWin, li, <<>>)  BY <1>5, IsCall
<1> HIDE DEF c
<1>7. Is(d, 4, FALSE, tb, <<>>, EmptyWin, li, <<>>)  BY <1>6, IsCall
<1> HIDE DEF d
<1>8. Is(g, 4, FALSE, tb, <<>>, EmptyWin, li, <<>>)  BY <1>6, <1>7
<1> HIDE DEF g
<1>9. PICK p \in DownPrims : Is(t, 4, FALSE, tb, <<>>, EmptyWin, li, One(p))
  BY <1>8, IsReleased
<1> HIDE DEF t
<1>10. 4 \in 1 .. 4  OBVIOUS
<1>11. Done(t, v)  BY <1>2, <1>9, <1>10, IsDown
<1>12. Done(w, v) /\ Done(again, v)  BY <1>4, QuietDone
<1>13. QED BY <1>1, <1>11, <1>12 DEF e

LEMMA Done6Tout ==
    ASSUME NEW s, NEW v, Ready(s, v), s.st = 6, s.t200
    PROVE  Done(l2_st6_tout_200(Expired(s)), v)
<1> DEFINE e == Expired(s)
           w == AddT200(e)
           x == e.rc + 1
           again == send_uframe(AddT200([e EXCEPT !.rc = x]), "DISC", FALSE, TRUE)
           a == [FsmChangeState(e, 4) EXCEPT !.t200Run = FALSE]
           b == Ask(a, "H")
           t == lapb_dl_release_l2l3(b, "DL_RELEASE_CNF")
           tb == s.t203
           li == s.l3Init
<1>1. l2_st6_tout_200(e) \in {w, again, t}
  <2>1. [e EXCEPT !.rc = @ + 1] = [e EXCEPT !.rc = x]  OBVIOUS
  <2>2. QED BY <2>1 DEF l2_st6_tout_200
<1>2. s.win = EmptyWin /\ s.iq = <<>> /\ v \in BOOLEAN  BY DEF Ready, Fine, Clean
<1>3. Is(a, 4, FALSE, tb, <<>>, EmptyWin, li, <<>>)  BY <1>2, ExpiredStop
<1> HIDE DEF x
<1>4. Quiet(s, w) /\ Quiet(s, again)  BY ExpiredAgain
<1> HIDE DEF w, again, e, a, tb, li
<1>5. Is(b, 4, FALSE, tb, <<>>, EmptyWin, li, <<>>)  BY <1>3, IsCall
<1> HIDE DEF b
<1>6. Is(t, 4, FALSE, tb, <<>>, EmptyWin, li, One("DL_RELEASE_CNF"))  BY <1>5, IsTell
<1> HIDE DEF t
<1>7. 4 \in 1 .. 4 /\ "DL_RELEASE_CNF" \in DownPrims  BY DEF DownPrims
<1>8. Done(t, v)  BY <1>2, <1>6, <1>7, IsDown
<1>9. Done(w, v) /\ Done(again, v)  BY <1>4, QuietDone
<1>10. QED BY <1>1, <1>8, <1>9 DEF e

\* An enquiry goes out, and T200 with it.
LEMMA IsEnquiry ==
    ASSUME NEW s, NEW a, NEW b, NEW iq, NEW win, NEW li,
           Is(s, 8, a, b, iq, win, li, <<>>), NEW x
    PROVE  Is([transmit_enquiry(s) EXCEPT !.rc = x], 8, TRUE, b, iq, win, li, <<>>)
<1> DEFINE c == enquiry_cr(s, "RR", FALSE, TRUE)
           d == [c EXCEPT !.ackPend = FALSE]
           e == start_t200(d)
<1>1. transmit_enquiry(s) = e  BY DEF transmit_enquiry
<1>2. Quiet(s, c) /\ Shape(s)  BY QuietU DEF Is
<1>3. Is(c, 8, a, b, iq, win, li, <<>>)  BY <1>2, IsQuiet
<1> HIDE DEF c
<1>4. Quiet(c, d)  BY <1>3, QuietAck DEF Is
<1>5. Is(d, 8, a, b, iq, win, li, <<>>)  BY <1>3, <1>4, IsQuiet
<1> HIDE DEF d
<1>6. Is(e, 8, TRUE, b, iq, win, li, <<>>)  BY <1>5, IsTimer
<1> HIDE DEF e
<1>7. QED BY <1>1, <1>6, IsCall

LEMMA Done7Tout ==
    ASSUME NEW s, NEW v, Ready(s, v), s.st = 7, s.t200
    PROVE  Done(l2_st7_tout_200(Expired(s)), v)
<1> DEFINE e == Expired(s)
           w == AddT200(e)
           a == FsmChangeState([e EXCEPT !.t200Run = FALSE], 8)
           t == [transmit_enquiry(a) EXCEPT !.rc = 1]
<1>1. l2_st7_tout_200(e) \in {w, t}  BY DEF l2_st7_tout_200
<1>2. v /\ v \in BOOLEAN  BY DEF Ready, Fine, Synced
<1>3. Is(a, 8, FALSE, s.t203, s.iq, s.win, s.l3Init, <<>>)  BY ExpiredStop
<1>4. Quiet(s, w)  BY ExpiredAgain
<1> HIDE DEF w, a, e
<1>5. Is(t, 8, TRUE, s.t203, s.iq, s.win, s.l3Init, <<>>)  BY <1>3, IsEnquiry
<1> HIDE DEF t
<1>6. Done(t, v)  BY <1>2, <1>5, IsAsking
<1>7. Done(w, v)  BY <1>4, QuietDone
<1>8. QED BY <1>1, <1>6, <1>7 DEF e

LEMMA Done8Tout ==
    ASSUME NEW s, NEW v, Ready(s, v), s.st = 8, s.t200
    PROVE  Done(l2_st8_tout_200(Expired(s)), v)
<1> DEFINE e == Expired(s)
           w == AddT200(e)
           a == [e EXCEPT !.t200Run = FALSE]
           b == Ask(a, "I")
           r == Reestablish(b)
           te == transmit_enquiry(a)
           x == te.rc + 1
           t == [te EXCEPT !.rc = x]
<1>1. l2_st8_tout_200(e) \in {w, r, t}
  <2>1. [te EXCEPT !.rc = @ + 1] = t  OBVIOUS
  <2>2. QED BY <2>1 DEF l2_st8_tout_200
<1>2. v /\ v \in BOOLEAN  BY DEF Ready, Fine, Synced
<1>3. Is(a, 8, FALSE, s.t203, s.iq, s.win, s.l3Init, <<>>)  BY ExpiredStop
<1>4. Quiet(s, w)  BY ExpiredAgain
<1> HIDE DEF w, a, e, x
<1>5. Is(t, 8, TRUE, s.t203, s.iq, s.win, s.l3Init, <<>>)  BY <1>3, IsEnquiry
<1>6. Is(b, 8, FALSE, s.t203, s.iq, s.win, s.l3Init, <<>>)  BY <1>3, IsCall
<1> HIDE DEF t, b
<1>7. Done(r, TRUE)  BY <1>6, ReestablishDone DEF Is
<1> HIDE DEF r
<1>8. v = TRUE  BY <1>2
<1>9. Done(t, v)  BY <1>2, <1>5, IsAsking
<1>10. Done(w, v)  BY <1>4, QuietDone
<1>11. QED BY <1>1, <1>7, <1>8, <1>9, <1>10 DEF e

LEMMA DoneT200 ==
    ASSUME NEW s, NEW v, Ready(s, v), s.t200
    PROVE  Done(EvT200(s), v)
<1> DEFINE e == Expired(s)
<1>1. e.st = s.st  BY ExpiredFields
<1>2. s.st \in 1 .. 8
  BY DEF Ready, Fine, Timers
<1>3. EvT200(s) = CASE e.st = 5 -> l2_st5_tout_200(e)
                    [] e.st = 6 -> l2_st6_tout_200(e)
                    [] e.st = 7 -> l2_st7_tout_200(e)
                    [] e.st = 8 -> l2_st8_tout_200(e)
                    [] OTHER -> e
  BY DEF EvT200, Expired
<1> HIDE DEF e
<1>4. CASE s.st = 5
  <2>1. EvT200(s) = l2_st5_tout_200(e)  BY <1>1, <1>3, <1>4
  <2>2. QED BY <1>4, <2>1, Done5Tout DEF e
<1>5. CASE s.st = 6
  <2>1. EvT200(s) = l2_st6_tout_200(e)  BY <1>1, <1>3, <1>5
  <2>2. QED BY <1>5, <2>1, Done6Tout DEF e
<1>6. CASE s.st = 7
  <2>1. EvT200(s) = l2_st7_tout_200(e)  BY <1>1, <1>3, <1>6
  <2>2. QED BY <1>6, <2>1, Done7Tout DEF e
<1>7. CASE s.st = 8
  <2>1. EvT200(s) = l2_st8_tout_200(e)  BY <1>1, <1>3, <1>7
  <2>2. QED BY <1>7, <2>1, Done8Tout DEF e
\* T200 was left pending, and expires for nothing.
<1>8. CASE s.st \in 1 .. 4
  <2>1. /\ Shape(e) /\ e.t200 = FALSE /\ s.t200 = TRUE /\ e.iq = s.iq /\ e.win = s.win
        /\ e.up = s.up
    BY ExpiredFields DEF e
  <2>2. s.t200 => overtaken  BY <1>8 DEF Ready, Fine, Timers
  <2>3. e.iq = <<>> /\ e.win = EmptyWin  BY <1>8, <2>1 DEF Ready, Fine, Clean
  <2>4. ~v /\ v \in BOOLEAN /\ e.up = <<>>  BY <1>8, <2>1 DEF Ready, Fine, Synced
  <2>5. Flag(e) /\ (e.t200 => overtaken)  BY <2>1, <2>2
  <2>6. Done(e, v)  BY <1>1, <1>8, <2>1, <2>3, <2>4, <2>5, DownDone
  <2>7. EvT200(s) = e  BY <1>1, <1>3, <1>8
  <2>8. QED BY <2>6, <2>7
<1>9. QED BY <1>2, <1>4, <1>5, <1>6, <1>7, <1>8

\* Outside ST_L2_7 nothing depends on T203.
LEMMA DoneT203 ==
    ASSUME NEW s, NEW v, Ready(s, v), s.t203
    PROVE  Done(EvT203(s), v)
<1> DEFINE e == [s EXCEPT !.t203 = FALSE]
           w == AddT203(e)
           a == FsmChangeState(e, 8)
           t == [transmit_enquiry(a) EXCEPT !.rc = 0]
           ta == s.t200
           iq == s.iq
           win == s.win
           li == s.l3Init
<1>1. EvT203(s) = IF e.st = 7 THEN l2_st7_tout_203(e) ELSE e  BY DEF EvT203
<1>2. l2_st7_tout_203(e) \in {w, t}  BY DEF l2_st7_tout_203
<1>3. /\ Shape(s) /\ s.up = <<>> /\ s.t203 = TRUE /\ Flag(s)
  BY DEF Ready, Fine, Shape, Timers
<1>4. Is(e, s.st, ta, FALSE, iq, win, li, <<>>)
  BY <1>3 DEF Is, Shape, Fields
<1>5. CASE s.st = 7
  <2>1. v /\ v \in BOOLEAN  BY <1>5 DEF Ready, Fine, Synced
  <2>2. EvT203(s) \in {w, t}  BY <1>1, <1>2, <1>4, <1>5 DEF Is
  <2> HIDE DEF e, ta, iq, win, li
  <2>3. Is(a, 8, ta, FALSE, iq, win, li, <<>>)  BY <1>4, IsSet
  <2> HIDE DEF a
  <2>4. Is(t, 8, TRUE, FALSE, iq, win, li, <<>>)  BY <2>3, IsEnquiry
  <2> HIDE DEF t
  <2>5. Done(t, v)  BY <2>1, <2>4, IsAsking
  <2>6. Is(w, s.st, ta, TRUE, iq, win, li, <<>>)  BY <1>4, IsTimer
  <2> HIDE DEF w
  <2>7. w.t200Run = s.t200Run
    <3>1. Shape(e) /\ e.t200Run = s.t200Run  BY <1>3 DEF e, Shape, Fields
    <3>2. QED BY <3>1, AddTimer DEF w
  <2>8. Quiet(s, w)  BY <1>3, <2>6, <2>7 DEF Quiet, Is, Shape, ta, iq, win, li
  <2>9. Done(w, v)  BY <2>8, QuietDone
  <2>10. QED BY <2>2, <2>5, <2>9
<1>6. CASE s.st # 7
  <2>1. EvT203(s) = e  BY <1>1, <1>4, <1>6 DEF Is
  <2>2. ViewAfter(e, v) = v  BY <1>4, ViewNone DEF Is
  <2> HIDE DEF e
  <2>3. Timers(e) /\ Clean(e) /\ Synced(e, v) /\ Shape(e)
    BY <1>4, <1>6 DEF Ready, Fine, Timers, Clean, Synced, Is, ta, iq, win, li
  <2>4. Mute(e)  BY <1>4, MuteNone DEF Is
  <2>5. QED BY <2>1, <2>2, <2>3, <2>4 DEF Done, Sound, Fine
<1>7. QED BY <1>5, <1>6

-----------------------------------------------------------------------------
(* TEI management and loss of layer 1 *)

\* While there is no link: the TEI goes, and layer 3 is told, or knew.
LEMMA DoneTeiRemove ==
    ASSUME NEW s, NEW v, Ready(s, v), s.st \in 1 .. 4
    PROVE  /\ Done(l2_st24_tei_remove(s), v) /\ Done(l2_st3_tei_remove(s), v)
<1> DEFINE a == PurgeUI(s)
           b == [a EXCEPT !.tei = FALSE]
           c == FsmChangeState(b, 1)
           t == Tell(b, "DL_RELEASE_IND")
           u == FsmChangeState(t, 1)
           st == s.st
           ta == s.t200
           tb == s.t203
           li == s.l3Init
<1>1. Is(s, st, ta, tb, <<>>, EmptyWin, li, <<>>) /\ (ta = FALSE \/ overtaken)
  BY ReadyDown
<1>2. ~v /\ v \in BOOLEAN  BY DEF Ready, Fine, Synced
<1>3. l2_st24_tei_remove(s) = c /\ l2_st3_tei_remove(s) = u
  BY DEF l2_st24_tei_remove, l2_st3_tei_remove
<1> HIDE DEF st, ta, tb, li
<1>4. Is(a, st, ta, tb, <<>>, EmptyWin, li, <<>>)  BY <1>1, IsCall
<1> HIDE DEF a
<1>5. Is(b, st, ta, tb, <<>>, EmptyWin, li, <<>>)  BY <1>4, IsCall
<1> HIDE DEF b
<1>6. Is(c, 1, ta, tb, <<>>, EmptyWin, li, <<>>)  BY <1>5, IsSet
<1> HIDE DEF c
<1>7. Is(t, st, ta, tb, <<>>, EmptyWin, li, One("DL_RELEASE_IND"))  BY <1>5, IsTell
<1> HIDE DEF t
<1>8. Is(u, 1, ta, tb, <<>>, EmptyWin, li, One("DL_RELEASE_IND"))  BY <1>7, IsSet
<1> HIDE DEF u
<1>9. 1 \in 1 .. 4 /\ "DL_RELEASE_IND" \in DownPrims  BY DEF DownPrims
<1>10. Done(c, v)  BY <1>1, <1>2, <1>6, <1>9, IsDown
<1>11. Done(u, v)  BY <1>1, <1>2, <1>8, <1>9, IsDown
<1>12. QED BY <1>3, <1>10, <1>11

LEMMA DoneFiveEnds ==
    ASSUME NEW s, NEW v, Ready(s, v), s.st = 5
    PROVE  Done(l2_st5_tei_remove(s), v) /\ Done(l2_st5_persistant_da(s), v)
<1> DEFINE a == PurgeI(s)
           b == PurgeUI(a)
           c == freewin(b)
           d == [c EXCEPT !.tei = FALSE]
           e == stop_t200(d)
           f == FsmChangeState(e, 1)
           t == st5_dl_release_l2l3(f)
           g == stop_t200(c)
           h == st5_dl_release_l2l3(g)
           u == FsmChangeState(h, 4)
           tb == s.t203
           li == s.l3Init
           iq == s.iq
<1>1. Is(s, 5, TRUE, tb, iq, EmptyWin, li, <<>>)  BY ReadyFive
<1>2. v \in BOOLEAN  BY DEF Ready
<1>3. l2_st5_tei_remove(s) = t /\ l2_st5_persistant_da(s) = u
  BY DEF l2_st5_tei_remove, l2_st5_persistant_da
<1> HIDE DEF tb, li, iq
<1>4. Is(a, 5, TRUE, tb, <<>>, EmptyWin, li, <<>>)  BY <1>1, IsSet
<1> HIDE DEF a
<1>5. Is(b, 5, TRUE, tb, <<>>, EmptyWin, li, <<>>)  BY <1>4, IsCall
<1> HIDE DEF b
<1>6. Is(c, 5, TRUE, tb, <<>>, EmptyWin, li, <<>>)  BY <1>5, IsSet
<1> HIDE DEF c
<1>7. Is(d, 5, TRUE, tb, <<>>, EmptyWin, li, <<>>)  BY <1>6, IsCall
<1> HIDE DEF d
<1>8. Is(e, 5, FALSE, tb, <<>>, EmptyWin, li, <<>>)  BY <1>7, IsTimer
<1> HIDE DEF e
<1>9. Is(f, 1, FALSE, tb, <<>>, EmptyWin, li, <<>>)  BY <1>8, IsSet
<1> HIDE DEF f
<1>10. PICK p \in DownPrims : Is(t, 1, FALSE, tb, <<>>, EmptyWin, li, One(p))
  BY <1>9, IsReleased
<1> HIDE DEF t
<1>11. Is(g, 5, FALSE, tb, <<>>, EmptyWin, li, <<>>)  BY <1>6, IsTimer
<1> HIDE DEF g
<1>12. PICK q \in DownPrims : Is(h, 5, FALSE, tb, <<>>, EmptyWin, li, One(q))
  BY <1>11, IsReleased
<1> HIDE DEF h
<1>13. Is(u, 4, FALSE, tb, <<>>, EmptyWin, li, One(q))  BY <1>12, IsSet
<1> HIDE DEF u
<1>14. 1 \in 1 .. 4 /\ 4 \in 1 .. 4  OBVIOUS
<1>15. Done(t, v)  BY <1>2, <1>10, <1>14, IsDown
<1>16. Done(u, v)  BY <1>2, <1>12, <1>13, <1>14, IsDown
<1>17. QED BY <1>3, <1>15, <1>16

LEMMA DoneSixEnds ==
    ASSUME NEW s, NEW v, Ready(s, v), s.st = 6
    PROVE  Done(l2_st6_tei_remove(s), v) /\ Done(l2_st6_persistant_da(s), v)
<1> DEFINE a == PurgeUI(s)
           b == [a EXCEPT !.tei = FALSE]
           c == stop_t200(b)
           d == Tell(c, "DL_RELEASE_CNF")
           t == FsmChangeState(d, 1)
           e == stop_t200(a)
           f == Tell(e, "DL_RELEASE_CNF")
           u == FsmChangeState(f, 4)
           tb == s.t203
           li == s.l3Init
<1>1. Is(s, 6, TRUE, tb, <<>>, EmptyWin, li, <<>>)  BY ReadySix
<1>2. v \in BOOLEAN  BY DEF Ready
<1>3. l2_st6_tei_remove(s) = t /\ l2_st6_persistant_da(s) = u
  BY DEF l2_st6_tei_remove, l2_st6_persistant_da
<1> HIDE DEF tb, li
<1>4. Is(a, 6, TRUE, tb, <<>>, EmptyWin, li, <<>>)  BY <1>1, IsCall
<1> HIDE DEF a
<1>5. Is(b, 6, TRUE, tb, <<>>, EmptyWin, li, <<>>)  BY <1>4, IsCall
<1> HIDE DEF b
<1>6. /\ Is(c, 6, FALSE, tb, <<>>, EmptyWin, li, <<>>)
      /\ Is(e, 6, FALSE, tb, <<>>, EmptyWin, li, <<>>)
  BY <1>4, <1>5, IsTimer
<1> HIDE DEF c, e
<1>7. /\ Is(d, 6, FALSE, tb, <<>>, EmptyWin, li, One("DL_RELEASE_CNF"))
      /\ Is(f, 6, FALSE, tb, <<>>, EmptyWin, li, One("DL_RELEASE_CNF"))
  BY <1>6, IsTell
<1> HIDE DEF d, f
<1>8. /\ Is(t, 1, FALSE, tb, <<>>, EmptyWin, li, One("DL_RELEASE_CNF"))
      /\ Is(u, 4, FALSE, tb, <<>>, EmptyWin, li, One("DL_RELEASE_CNF"))
  BY <1>7, IsSet
<1> HIDE DEF t, u
<1>9. 1 \in 1 .. 4 /\ 4 \in 1 .. 4 /\ "DL_RELEASE_CNF" \in DownPrims  BY DEF DownPrims
<1>10. Done(t, v)  BY <1>2, <1>8, <1>9, IsDown
<1>11. Done(u, v)  BY <1>2, <1>8, <1>9, IsDown
<1>12. QED BY <1>3, <1>10, <1>11

LEMMA DoneUpEnds ==
    ASSUME NEW s, NEW v, Ready(s, v), s.st \in {7, 8}
    PROVE  Done(l2_tei_remove(s), v) /\ Done(l2_persistant_da(s), v)
<1> DEFINE a == PurgeI(s)
           b == PurgeUI(a)
           c == freewin(b)
           d == [c EXCEPT !.tei = FALSE]
           e == stop_t200(d)
           f == DelT203(e)
           g == Tell(f, "DL_RELEASE_IND")
           t == FsmChangeState(g, 1)
           h == stop_t200(c)
           i == DelT203(h)
           j == Tell(i, "DL_RELEASE_IND")
           u == FsmChangeState(j, 4)
           st == s.st
           ta == s.t200
           tb == s.t203
           iq == s.iq
           win == s.win
           li == s.l3Init
<1>1. Is(s, st, ta, tb, iq, win, li, <<>>)  BY IsReady
<1>2. v \in BOOLEAN  BY DEF Ready
<1>3. l2_tei_remove(s) = t /\ l2_persistant_da(s) = u
  BY DEF l2_tei_remove, l2_persistant_da
<1> HIDE DEF st, ta, tb, iq, win, li
<1>4. Is(a, st, ta, tb, <<>>, win, li, <<>>)  BY <1>1, IsSet
<1> HIDE DEF a
<1>5. Is(b, st, ta, tb, <<>>, win, li, <<>>)  BY <1>4, IsCall
<1> HIDE DEF b
<1>6. Is(c, st, ta, tb, <<>>, EmptyWin, li, <<>>)  BY <1>5, IsSet
<1> HIDE DEF c
<1>7. Is(d, st, ta, tb, <<>>, EmptyWin, li, <<>>)  BY <1>6, IsCall
<1> HIDE DEF d
<1>8. /\ Is(e, st, FALSE, tb, <<>>, EmptyWin, li, <<>>)
      /\ Is(h, st, FALSE, tb, <<>>, EmptyWin, li, <<>>)
  BY <1>6, <1>7, IsTimer
<1> HIDE DEF e, h
<1>9. /\ Is(f, st, FALSE, FALSE, <<>>, EmptyWin, li, <<>>)
      /\ Is(i, st, FALSE, FALSE, <<>>, EmptyWin, li, <<>>)
  BY <1>8, IsTimer
<1> HIDE DEF f, i
<1>10. /\ Is(g, st, FALSE, FALSE, <<>>, EmptyWin, li, One("DL_RELEASE_IND"))
       /\ Is(j, st, FALSE, FALSE, <<>>, EmptyWin, li, One("DL_RELEASE_IND"))
  BY <1>9, IsTell
<1> HIDE DEF g, j
<1>11. /\ Is(t, 1, FALSE, FALSE, <<>>, EmptyWin, li, One("DL_RELEASE_IND"))
       /\ Is(u, 4, FALSE, FALSE, <<>>, EmptyWin, li, One("DL_RELEASE_IND"))
  BY <1>10, IsSet
<1> HIDE DEF t, u
<1>12. 1 \in 1 .. 4 /\ 4 \in 1 .. 4 /\ "DL_RELEASE_IND" \in DownPrims  BY DEF DownPrims
<1>13. Done(t, v)  BY <1>2, <1>11, <1>12, IsDown
<1>14. Done(u, v)  BY <1>2, <1>11, <1>12, IsDown
<1>15. QED BY <1>3, <1>13, <1>14

LEMMA DonePersistant ==
    ASSUME NEW s, NEW v, Ready(s, v), s.st \in 1 .. 4
    PROVE  Done(l2_st14_persistant_da(s), v)
<1> DEFINE a == [s EXCEPT !.estabPend = FALSE]
           b == PurgeI(a)
           c == PurgeUI(b)
           t == Tell(c, "DL_RELEASE_IND")
           st == s.st
           ta == s.t200
           tb == s.t203
           li == s.l3Init
<1>1. Is(s, st, ta, tb, <<>>, EmptyWin, li, <<>>) /\ (ta = FALSE \/ overtaken)
  BY ReadyDown
<1>2. ~v /\ v \in BOOLEAN /\ st \in 1 .. 4  BY DEF Ready, Fine, Synced
<1>3. l2_st14_persistant_da(s) \in {t, c}  BY DEF l2_st14_persistant_da
<1> HIDE DEF st, ta, tb, li
<1>4. Quiet(s, a)  BY <1>1, QuietFlags DEF Is
<1>5. Is(a, st, ta, tb, <<>>, EmptyWin, li, <<>>)  BY <1>1, <1>4, IsQuiet
<1> HIDE DEF a
<1>6. Is(b, st, ta, tb, <<>>, EmptyWin, li, <<>>)  BY <1>5, IsSet
<1> HIDE DEF b
<1>7. Is(c, st, ta, tb, <<>>, EmptyWin, li, <<>>)  BY <1>6, IsCall
<1> HIDE DEF c
<1>8. Is(t, st, ta, tb, <<>>, EmptyWin, li, One("DL_RELEASE_IND"))  BY <1>7, IsTell
<1> HIDE DEF t
<1>9. "DL_RELEASE_IND" \in DownPrims  BY DEF DownPrims
<1>10. Done(c, v)  BY <1>1, <1>2, <1>7, IsDown
<1>11. Done(t, v)  BY <1>1, <1>2, <1>8, <1>9, IsDown
<1>12. QED BY <1>3, <1>10, <1>11

LEMMA DoneGotTei ==
    ASSUME NEW s, NEW v, Ready(s, v), s.st \in 1 .. 3
    PROVE  Done(l2_got_tei(s), v)
<1> DEFINE a == [s EXCEPT !.tei = TRUE]
           b == l2_establish(a)
           c == FsmChangeState(a, 4)
           st == s.st
           ta == s.t200
           tb == s.t203
           li == s.l3Init
<1>1. /\ Is(s, st, ta, tb, <<>>, EmptyWin, li, <<>>) /\ st \in 1 .. 4
      /\ ta = FALSE \/ overtaken
  <2>1. s.st \in 1 .. 4  OBVIOUS
  <2>2. QED BY <2>1, ReadyDown
<1>2. ~v /\ v \in BOOLEAN  BY DEF Ready, Fine, Synced
<1>3. l2_got_tei(s) \in {tx_ui(b), tx_ui(c)}  BY DEF l2_got_tei
<1> HIDE DEF st, ta, tb, li
<1>4. Is(a, st, ta, tb, <<>>, EmptyWin, li, <<>>)  BY <1>1, IsCall
<1> HIDE DEF a
<1>5. Is(c, 4, ta, tb, <<>>, EmptyWin, li, <<>>)  BY <1>4, IsSet
<1> HIDE DEF c
<1>6. Quiet(c, tx_ui(c))  BY <1>5, QuietUi DEF Is
<1>7. Is(tx_ui(c), 4, ta, tb, <<>>, EmptyWin, li, <<>>)  BY <1>5, <1>6, IsQuiet
<1>8. 4 \in 1 .. 4  OBVIOUS
<1>9. Done(tx_ui(c), v)  BY <1>1, <1>2, <1>7, <1>8, IsDown
<1>10. Done(b, v) /\ Shape(b) /\ b.up = <<>>
  <2>1. Shape(a) /\ a.up = <<>> /\ a.iq = <<>>  BY <1>4 DEF Is
  <2>2. Done(b, v)  BY <2>1, EstablishDone
  <2>3. Shape(establishlink(a)) /\ establishlink(a).up = <<>>  BY <2>1, EstablishFields
  <2> HIDE DEF b
  <2>4. b = [establishlink(a) EXCEPT !.l3Init = TRUE]  BY DEF b, l2_establish
  <2>5. b.up = <<>>  BY <2>3, <2>4 DEF Shape, Fields
  <2>6. QED BY <2>2, <2>5 DEF Done, Sound, Fine
<1> HIDE DEF b
<1>11. Quiet(b, tx_ui(b))  BY <1>10, QuietUi
<1>12. ViewAfter(b, v) = v  BY <1>10, ViewNone
<1>13. Ready(b, v)  BY <1>2, <1>10, <1>12 DEF Ready, Done, Sound
<1>14. Done(tx_ui(b), v)  BY <1>11, <1>13, QuietDone
<1>15. QED BY <1>3, <1>9, <1>14

-----------------------------------------------------------------------------
(* The rows of L2FnList *)

LEMMA ReadyQuiet ==
    ASSUME NEW s, NEW v, Ready(s, v), NEW t, Quiet(s, t)
    PROVE  Ready(t, v)
<1>1. Shape(s)  BY DEF Ready, Fine
<1>2. Shape(t)  BY <1>1, QuietShape
<1>3. QED BY <1>2 DEF Ready, Fine, Quiet, Timers, Clean, Synced

LEMMA DoneSame == ASSUME NEW s, NEW v, Ready(s, v) PROVE Done(s, v) /\ Shape(s) /\ s.st \in 1 .. 8
  BY QuietRefl, QuietDone DEF Ready, Fine, Timers

LEMMA DoneAnswer ==
    ASSUME NEW s, NEW v, Ready(s, v), NEW pf
    PROVE  /\ Done(l2_send_UA(s, pf), v) /\ Done(l2_send_DM(s, pf), v)
           /\ \A r : Done(Ask(s, r), v)
  BY DoneSame, QuietU, QuietAsk, QuietDone

LEMMA DoneSABME ==
    ASSUME NEW s, NEW v, Ready(s, v), NEW f
    PROVE  Done(EvSABME(s, f), v)
  BY DoneSame, DoneAnswer, DoneStartMulti, DoneRestartMulti DEF EvSABME

LEMMA DoneDISC ==
    ASSUME NEW s, NEW v, Ready(s, v), NEW f
    PROVE  Done(EvDISC(s, f), v)
  BY DoneSame, DoneAnswer, DoneStopMulti DEF EvDISC

LEMMA DoneUA ==
    ASSUME NEW s, NEW v, Ready(s, v), NEW f
    PROVE  Done(EvUA(s, f), v)
<1>1. Done(l2_mdl_error_ua(s, f.pf), v)  BY DoneAnswer DEF l2_mdl_error_ua
<1>2. QED BY <1>1, DoneSame, DoneConnected, DoneReleased DEF EvUA

LEMMA DoneDM ==
    ASSUME NEW s, NEW v, Ready(s, v), NEW f
    PROVE  Done(EvDM(s, f), v)
<1>1. ASSUME s.st = 4 PROVE Done(l2_reestablish(s, f.pf), v)
  <2>1. s.iq = <<>> /\ s.up = <<>> /\ Shape(s)  BY <1>1 DEF Ready, Fine, Clean
  <2>2. Done(l2_establish(s), v)  BY <2>1, EstablishDone
  <2>3. QED BY <2>2, DoneSame DEF l2_reestablish
<1>2. QED BY <1>1, DoneSame, DoneDmRelease, DoneReleased, DoneMdlError DEF EvDM

LEMMA DoneFRMR ==
    ASSUME NEW s, NEW v, Ready(s, v), NEW rejected
    PROVE  Done(EvFRMR(s, rejected), v)
  BY DoneSame, DoneMdlError DEF EvFRMR

LEMMA DoneSuper ==
    ASSUME NEW s, NEW v, Ready(s, v), NEW f, NEW ds
    PROVE  Done(EvSuper(s, f, ds), v)
  BY DoneSame, DoneSuper7, DoneSuper8 DEF EvSuper

LEMMA GoodI ==
    ASSUME NEW s, NEW v, Ready(s, v), NEW f, NEW reply, NEW ds
    PROVE  Sound(EvI(s, f, reply, ds), v)
  BY DoneSame, GoodIframe DEF EvI, Done

LEMMA DoneUI ==
    ASSUME NEW s, NEW v, Ready(s, v)
    PROVE  Done(EvUI(s), v)
<1> DEFINE t == Tell(s, "DL_UNIT_DATA_IND")
<1>1. Is(t, s.st, s.t200, s.t203, s.iq, s.win, s.l3Init, One("DL_UNIT_DATA_IND"))
  BY IsReady, IsTell
<1>2. EvUI(s) = t  BY DEF EvUI
<1> HIDE DEF t
<1>3. Told(t, "DL_UNIT_DATA_IND")  BY <1>1, OneTold DEF Is
<1>4. "DL_UNIT_DATA_IND" \notin UpPrims \cup DownPrims  BY DEF UpPrims, DownPrims
<1>5. ViewAfter(t, v) = v  BY <1>3, <1>4, ViewOne
<1>6. Timers(t) /\ Clean(t) /\ Synced(t, v) /\ Shape(t)
  BY <1>1 DEF Is, Ready, Fine, Timers, Clean, Synced
<1>7. Mute(t)  BY <1>3, MuteTold
<1>8. QED BY <1>2, <1>5, <1>6, <1>7 DEF Done, Sound, Fine

LEMMA DoneFrameError ==
    ASSUME NEW s, NEW v, Ready(s, v)
    PROVE  Done(EvFrameError(s), v)
  BY DoneSame, DoneAnswer, DoneMdlError DEF EvFrameError

LEMMA DoneDlEstablish ==
    ASSUME NEW s, NEW v, Ready(s, v)
    PROVE  Done(EvDlEstablish(s), v)
<1>1. Shape(s) /\ s.up = <<>> /\ v \in BOOLEAN /\ s.st \in 1 .. 8
  BY DEF Ready, Fine, Timers
<1>2. CASE s.st \in {1, 2}
  <2> DEFINE c == FsmChangeState(s, 3)
             t == Ask(c, "MDL_ASSIGN")
  <2>1. s.st \in 1 .. 4  BY <1>2
  <2>2. /\ Is(s, s.st, s.t200, s.t203, <<>>, EmptyWin, s.l3Init, <<>>)
        /\ ~v
        /\ s.t200 = FALSE \/ overtaken
    BY <2>1, ReadyDown
  <2>3. Is(c, 3, s.t200, s.t203, <<>>, EmptyWin, s.l3Init, <<>>)  BY <2>2, IsSet
  <2>4. EvDlEstablish(s) \in {c, t}  BY <1>2 DEF EvDlEstablish
  <2> HIDE DEF c
  <2>5. Is(t, 3, s.t200, s.t203, <<>>, EmptyWin, s.l3Init, <<>>)  BY <2>3, IsCall
  <2> HIDE DEF t
  <2>6. 3 \in 1 .. 4  OBVIOUS
  <2>7. Done(c, v)  BY <1>1, <2>2, <2>3, <2>6, IsDown
  <2>8. Done(t, v)  BY <1>1, <2>2, <2>5, <2>6, IsDown
  <2>9. QED BY <2>4, <2>7, <2>8
<1>3. CASE s.st = 4
  <2>1. s.iq = <<>>  BY <1>3 DEF Ready, Fine, Clean
  <2>2. Done(l2_establish(s), v)  BY <1>1, <2>1, EstablishDone
  <2>3. QED BY <1>3, <2>2 DEF EvDlEstablish
<1>4. CASE s.st = 5
  <2> DEFINE a == PurgeI(s)
             b == [a EXCEPT !.l3Init = TRUE]
             t == [b EXCEPT !.pendRel = FALSE]
             u == [a EXCEPT !.l3Init = TRUE, !.pendRel = FALSE]
  <2>1. EvDlEstablish(s) = t
    <3>1. EvDlEstablish(s) = u  BY <1>4 DEF EvDlEstablish
    <3>2. u = t  OBVIOUS
    <3>3. QED BY <3>1, <3>2
  <2>2. /\ Is(s, 5, TRUE, s.t203, s.iq, EmptyWin, s.l3Init, <<>>)  BY <1>4, ReadyFive
  <2>3. Is(a, 5, TRUE, s.t203, <<>>, EmptyWin, s.l3Init, <<>>)  BY <2>2, IsSet
  <2> HIDE DEF a
  <2>4. Is(b, 5, TRUE, s.t203, <<>>, EmptyWin, TRUE, <<>>)  BY <2>3, IsSet
  <2> HIDE DEF b
  <2>5. Is(t, 5, TRUE, s.t203, <<>>, EmptyWin, TRUE, <<>>)  BY <2>4, IsCall
  <2> HIDE DEF t
  <2>6. /\ Shape(t) /\ t.st = 5 /\ t.t200 /\ t.t200Run /\ t.l3Init /\ t.iq = <<>>
        /\ t.win = EmptyWin
    BY <2>5 DEF Is
  <2>7. Flag(t)  BY <2>6 DEF Shape
  <2>8. Timers(t)  BY <2>6, <2>7 DEF Timers
  <2>9. Clean(t)  BY <2>6 DEF Clean
  <2>10. Synced(t, ViewAfter(t, v))  BY <2>6 DEF Synced
  <2>11. Mute(t)  BY <2>5, MuteNone DEF Is
  <2>12. QED BY <2>1, <2>6, <2>8, <2>9, <2>10, <2>11 DEF Done, Sound, Fine
<1>5. CASE s.st \in {7, 8}
  <2>1. Shape(PurgeI(s)) /\ PurgeI(s).up = <<>> /\ PurgeI(s).iq = <<>>
    BY <1>1 DEF PurgeI, Shape, Fields
  <2>2. Done(l2_l3_reestablish(s), v)  BY <2>1, EstablishDone DEF l2_l3_reestablish
  <2>3. EvDlEstablish(s) = l2_l3_reestablish(s)  BY <1>5 DEF EvDlEstablish
  <2>4. QED BY <2>2, <2>3
<1>6. CASE s.st \in {3, 6}
  <2>1. EvDlEstablish(s) = s  BY <1>6 DEF EvDlEstablish
  <2>2. QED BY <2>1, DoneSame
<1>7. QED BY <1>1, <1>2, <1>3, <1>4, <1>5, <1>6

LEMMA DoneDlRelease ==
    ASSUME NEW s, NEW v, Ready(s, v)
    PROVE  Done(EvDlRelease(s), v)
<1>1. CASE s.st = 4
  <2> DEFINE t == Tell(s, "DL_RELEASE_CNF")
  <2>1. s.st \in 1 .. 4 /\ v \in BOOLEAN  BY <1>1 DEF Ready
  <2>2. /\ Is(s, s.st, s.t200, s.t203, <<>>, EmptyWin, s.l3Init, <<>>)
        /\ s.t200 = FALSE \/ overtaken
    BY <2>1, ReadyDown
  <2>3. Is(t, s.st, s.t200, s.t203, <<>>, EmptyWin, s.l3Init, One("DL_RELEASE_CNF"))
    BY <2>2, IsTell
  <2>4. "DL_RELEASE_CNF" \in DownPrims  BY DEF DownPrims
  <2>5. EvDlRelease(s) = t  BY <1>1 DEF EvDlRelease
  <2> HIDE DEF t
  <2>6. Done(t, v)  BY <2>1, <2>2, <2>3, <2>4, IsDown
  <2>7. QED BY <2>5, <2>6
<1>2. CASE s.st = 5
  <2>1. Quiet(s, [s EXCEPT !.pendRel = TRUE])  BY DoneSame, QuietFlags
  <2>2. QED BY <1>2, <2>1, QuietDone DEF EvDlRelease
<1>3. CASE s.st \in {7, 8}
  <2>1. EvDlRelease(s) = l2_disconnect(s)  BY <1>3 DEF EvDlRelease
  <2>2. QED BY <2>1, DoneDisconnect
<1>4. CASE s.st \notin {4, 5, 7, 8}
  <2>1. EvDlRelease(s) = s  BY <1>4 DEF EvDlRelease
  <2>2. QED BY <2>1, DoneSame
<1>5. QED BY <1>1, <1>2, <1>3, <1>4

LEMMA DoneDlData ==
    ASSUME NEW s, NEW v, Ready(s, v), NEW d
    PROVE  Done(EvDlData(s, d), v)
<1>1. Shape(s) /\ Flag(s)  BY DEF Ready, Fine, Timers
<1>2. CASE s.st \in {7, 8}
  <2>1. Runs(s, EvDlData(s, d))  BY <1>1, <1>2, DlDataRuns
  <2>2. QED BY <1>2, <2>1, RunsDone
<1>3. CASE s.st = 5
  <2> DEFINE a == AddTxCnt(s, 1)
             q == [a EXCEPT !.iq = Append(@, d)]
  <2>1. EvDlData(s, d) = IF s.l3Init THEN a ELSE q  BY <1>3 DEF EvDlData
  <2>2. Quiet(s, a)  BY <1>1, QuietCnt
  <2> HIDE DEF a
  <2>3. Done(a, v)  BY <2>2, QuietDone
  <2>4. ASSUME ~s.l3Init PROVE Done(q, v)
    <3>1. Ready(a, v) /\ a.st = 5 /\ ~a.l3Init
      BY <1>3, <2>2, <2>4, ReadyQuiet DEF Quiet
    <3>2. /\ Shape(q) /\ q.st = a.st /\ q.l3Init = a.l3Init /\ q.up = a.up /\ q.win = a.win
          /\ q.t200 = a.t200 /\ q.t200Run = a.t200Run /\ q.t203 = a.t203
      BY <3>1 DEF Ready, Fine, Shape, Fields
    <3> HIDE DEF q
    <3>3. ViewAfter(q, v) = v  BY <3>1, <3>2, ViewNone DEF Ready
    <3>4. Timers(q) /\ Clean(q) /\ Synced(q, v)
      BY <3>1, <3>2 DEF Ready, Fine, Timers, Clean, Synced
    <3>5. Mute(q)  BY <3>1, <3>2, MuteNone DEF Ready
    <3>6. QED BY <3>2, <3>3, <3>4, <3>5 DEF Done, Sound, Fine
  <2>5. QED BY <2>1, <2>3, <2>4
<1>4. CASE s.st \notin {5, 7, 8}
  <2>1. EvDlData(s, d) = s  BY <1>4 DEF EvDlData
  <2>2. QED BY <2>1, DoneSame
<1>5. QED BY <1>2, <1>3, <1>4

LEMMA DoneDlUnitData ==
    ASSUME NEW s, NEW v, Ready(s, v)
    PROVE  Done(EvDlUnitData(s), v)
<1> DEFINE x == s.ui + 1
           a == [s EXCEPT !.ui = x]
           c == FsmChangeState(a, 2)
           t == Ask(c, "MDL_ASSIGN")
           u == tx_ui(a)
<1>1. EvDlUnitData(s) = CASE s.st = 1 -> t [] s.st \in {2, 3} -> a [] OTHER -> u
  <2>1. [s EXCEPT !.ui = @ + 1] = a  OBVIOUS
  <2>2. QED BY <2>1 DEF EvDlUnitData
<1> HIDE DEF x
<1>2. Quiet(s, a)  BY DoneSame, QuietFlags
<1> HIDE DEF a
<1>3. Ready(a, v)  BY <1>2, ReadyQuiet
<1>4. Quiet(a, u)  BY <1>3, DoneSame, QuietUi
<1> HIDE DEF u
<1>5. Done(a, v) /\ Done(u, v)  BY <1>3, <1>4, DoneSame, QuietDone
<1>6. ASSUME s.st = 1 PROVE Done(t, v)
  <2>1. a.st \in 1 .. 4  BY <1>2, <1>6 DEF Quiet
  <2>2. /\ Is(a, a.st, a.t200, a.t203, <<>>, EmptyWin, a.l3Init, <<>>)
        /\ ~v
        /\ a.t200 = FALSE \/ overtaken
    BY <1>3, <2>1, ReadyDown
  <2>3. Is(c, 2, a.t200, a.t203, <<>>, EmptyWin, a.l3Init, <<>>)  BY <2>2, IsSet
  <2> HIDE DEF c
  <2>4. Is(t, 2, a.t200, a.t203, <<>>, EmptyWin, a.l3Init, <<>>)  BY <2>3, IsCall
  <2> HIDE DEF t
  <2>5. 2 \in 1 .. 4 /\ v \in BOOLEAN  BY DEF Ready
  <2>6. QED BY <2>2, <2>4, <2>5, IsDown
<1> HIDE DEF t
<1>7. QED BY <1>1, <1>5, <1>6

LEMMA DoneMdl ==
    ASSUME NEW s, NEW v, Ready(s, v)
    PROVE  Done(EvMdlAssign(s), v) /\ Done(EvMdlError(s), v) /\ Done(EvMdlRemove(s), v)
<1>1. Done(EvMdlAssign(s), v)
  BY DoneSame, DoneGotTei DEF EvMdlAssign
<1>2. Done(EvMdlError(s), v)
  BY DoneSame, DoneTeiRemove DEF EvMdlError
<1>3. Done(EvMdlRemove(s), v)
  BY DoneSame, DoneTeiRemove, DoneFiveEnds, DoneSixEnds, DoneUpEnds DEF EvMdlRemove
<1>4. QED BY <1>1, <1>2, <1>3

LEMMA DoneL1Deactivate ==
    ASSUME NEW s, NEW v, Ready(s, v)
    PROVE  Done(EvL1Deactivate(s), v)
  BY DoneSame, DonePersistant, DoneTeiRemove, DoneFiveEnds, DoneSixEnds, DoneUpEnds
     DEF EvL1Deactivate

-----------------------------------------------------------------------------
(* Primitives of layer 1 and layer 3 *)

LEMMA DonePhActivate ==
    ASSUME NEW s, NEW v, Ready(s, v)
    PROVE  Done(PhActivate(s), v)
<1> DEFINE a == [s EXCEPT !.l1Activ = TRUE]
           b == [a EXCEPT !.estabPend = FALSE]
           c == [s EXCEPT !.l1Activ = TRUE, !.estabPend = FALSE]
<1>1. c = b  OBVIOUS
<1>2. PhActivate(s) \in {EvDlEstablish(b), b}  BY <1>1 DEF PhActivate
<1> HIDE DEF c
<1>3. Quiet(s, a)  BY DoneSame, QuietFlags
<1> HIDE DEF a
<1>4. Ready(a, v)  BY <1>3, ReadyQuiet
<1>5. Quiet(a, b)  BY <1>4, DoneSame, QuietFlags
<1> HIDE DEF b
<1>6. Ready(b, v)  BY <1>4, <1>5, ReadyQuiet
<1>7. QED BY <1>2, <1>6, DoneSame, DoneDlEstablish

LEMMA DonePhDeactivate ==
    ASSUME NEW s, NEW v, Ready(s, v)
    PROVE  Done(PhDeactivate(s), v)
<1>1. Quiet(s, [s EXCEPT !.l1Activ = FALSE])  BY DoneSame, QuietFlags
<1>2. Ready([s EXCEPT !.l1Activ = FALSE], v)  BY <1>1, ReadyQuiet
<1>3. QED BY <1>2, DoneL1Deactivate DEF PhDeactivate

LEMMA DoneDlEstablishReq ==
    ASSUME NEW s, NEW v, Ready(s, v)
    PROVE  Done(DlEstablishReq(s), v)
<1> DEFINE x == s.estabPend \/ (LAPD \/ s.orig)
           a == [s EXCEPT !.estabPend = x]
           b == Ask(a, "PH_ACTIVATE")
<1>1. DlEstablishReq(s) \in {EvDlEstablish(s), s, b}
  <2>1. [s EXCEPT !.estabPend = @ \/ (LAPD \/ s.orig)] = a  OBVIOUS
  <2>2. QED BY <2>1 DEF DlEstablishReq
<1> HIDE DEF x
<1>2. Quiet(s, a)  BY DoneSame, QuietFlags
<1> HIDE DEF a
<1>3. Ready(a, v)  BY <1>2, ReadyQuiet
<1>4. Quiet(a, b)  BY <1>3, DoneSame, QuietAsk
<1>5. Done(b, v)  BY <1>3, <1>4, QuietDone
<1> HIDE DEF b
<1>6. QED BY <1>1, <1>5, DoneSame, DoneDlEstablish

LEMMA DoneDlReleaseReq ==
    ASSUME NEW s, NEW v, Ready(s, v)
    PROVE  Done(DlReleaseReq(s), v)
<1>1. Quiet(s, Ask(s, "PH_DEACTIVATE"))  BY DoneSame, QuietAsk
<1>2. Ready(Ask(s, "PH_DEACTIVATE"), v)  BY <1>1, ReadyQuiet
<1>3. QED BY <1>2, DoneDlRelease DEF DlReleaseReq

LEMMA DonePhOther ==
    ASSUME NEW s, NEW v, Ready(s, v), NEW busy
    PROVE  Done(PhPause(s, busy), v) /\ Done(PhTxDone(s), v) /\ Done(PhPullConfirm(s), v)
<1> DEFINE a == [s EXCEPT !.pullReq = FALSE]
<1>1. Quiet(s, PhPause(s, busy)) /\ Quiet(s, PhTxDone(s)) /\ Quiet(s, a)
  BY DoneSame, QuietFlags DEF PhPause, PhTxDone
<1>2. PhPullConfirm(s) = AckPull(a)  BY DEF PhPullConfirm
<1> HIDE DEF a
<1>3. Ready(a, v)  BY <1>1, ReadyQuiet
<1>4. Done(AckPull(a), v)
  <2>1. CASE a.st = 7
    <3>1. Shape(a) /\ Flag(a)  BY <1>3 DEF Ready, Fine, Timers
    <3>2. Runs(a, AckPull(a))  BY <3>1, PullRequestRuns
    <3>3. a.st \in {7, 8}  BY <2>1
    <3>4. QED BY <1>3, <3>2, <3>3, RunsDone
  <2>2. CASE a.st # 7
    <3>1. AckPull(a) = a  BY <2>2 DEF AckPull
    <3>2. QED BY <1>3, <3>1, DoneSame
  <2>3. QED BY <2>1, <2>2
<1>5. QED BY <1>1, <1>2, <1>4, QuietDone

-----------------------------------------------------------------------------
(* The entity in its environment *)

\* The invariant: between two steps, the entity is ready for any handler.
ReadyInv == Ready(l2, l3up)

LEMMA FreshFields ==
    ASSUME NEW s, Shape(s)
    PROVE  LET t == Fresh(s)
           IN  /\ Shape(t) /\ t.st = s.st /\ t.t200 = s.t200 /\ t.t203 = s.t203
               /\ t.t200Run = s.t200Run /\ t.iq = s.iq /\ t.win = s.win /\ t.l3Init = s.l3Init
               /\ t.up = <<>>
  BY DEF Shape, Fields, Fresh

LEMMA ViewBoolean ==
    ASSUME NEW s, NEW view \in BOOLEAN PROVE ViewAfter(s, view) \in BOOLEAN
  BY DEF ViewAfter

\* A step that leaves the fields in order, by what overtaken then says.
LEMMA EffectReady ==
    ASSUME ReadyInv, NEW s, NEW fed, Effect(s, fed),
           Shape(s), Clean(s), Synced(s, ViewAfter(s, l3up)),
           s.st \in 1 .. 8,
           s.st \in {5, 6, 8} => s.t200,
           s.st = 7 => s.t200 \/ s.t203,
           s.t200 => s.t200Run,
           s.t200Run => s.t200 \/ overtaken',
           s.st \in 1 .. 4 /\ s.t200 => overtaken'
    PROVE  ReadyInv'
<1>1. l2' = Fresh(s) /\ l3up' = ViewAfter(s, l3up)  BY DEF Effect
<1>2. l3up' \in BOOLEAN  BY <1>1, ViewBoolean DEF ReadyInv, Ready
<1> DEFINE w == ViewAfter(s, l3up)
<1>3. /\ Shape(l2)' /\ l2'.st = s.st /\ l2'.t200 = s.t200 /\ l2'.t203 = s.t203
      /\ l2'.t200Run = s.t200Run /\ l2'.iq = s.iq /\ l2'.win = s.win
      /\ l2'.l3Init = s.l3Init /\ l2'.up = <<>>
  BY <1>1, FreshFields DEF Shape
<1>4. Clean(l2)'  BY <1>3 DEF Clean
<1>5. Synced(l2', w)  BY <1>3 DEF Synced
<1>6. Synced(l2, l3up)'  BY <1>1, <1>5 DEF Synced
<1>7. Timers(l2)'  BY <1>3 DEF Timers
<1>8. Fine(l2, l3up)'  BY <1>3, <1>4, <1>6, <1>7 DEF Fine
<1>9. QED BY <1>2, <1>3, <1>8 DEF ReadyInv, Ready

\* Whatever handler a step runs, the next one finds the entity ready.
LEMMA StepReady ==
    ASSUME ReadyInv, NEW s, Sound(s, l3up), NEW fed, Step(s, fed)
    PROVE  ReadyInv'
<1>1. /\ Effect(s, fed)
      /\ overtaken' = (overtaken /\ s.t200Run /\ (s.st \in 1 .. 4 \/ ~s.t200))
  BY DEF Step
<1>2. Shape(s) /\ Timers(s) /\ Clean(s) /\ Synced(s, ViewAfter(s, l3up))
  BY DEF Sound, Fine
<1>3. /\ s.t200 => s.t200Run
      /\ s.t200Run => s.t200 \/ overtaken
      /\ s.st \in 1 .. 4 /\ s.t200 => overtaken
  BY <1>2 DEF Timers
<1>4. /\ s.t200Run => s.t200 \/ overtaken'
      /\ s.st \in 1 .. 4 /\ s.t200 => overtaken'
  BY <1>1, <1>3
<1>5. /\ s.st \in 1 .. 8
      /\ s.st \in {5, 6, 8} => s.t200
      /\ s.st = 7 => s.t200 \/ s.t203
  BY <1>2 DEF Timers
<1>6. QED BY <1>1, <1>2, <1>3, <1>4, <1>5, EffectReady

\* Of a request without data to discard, in whatever state: T200 keeps its flag.
LEMMA RequestIs ==
    ASSUME NEW s, NEW st, NEW a, NEW b, NEW li, NEW up,
           Is(s, st, a, b, <<>>, EmptyWin, li, up)
    PROVE  LET t == DlEstablishReq(s)
           IN  Shape(t) /\ Flag(t) /\ t.iq = <<>> /\ t.win = EmptyWin /\ t.up = up
<1> DEFINE OK(t) == Shape(t) /\ Flag(t) /\ t.iq = <<>> /\ t.win = EmptyWin /\ t.up = up
<1>1. ASSUME NEW t, NEW x, NEW y, NEW z, NEW k, Is(t, x, y, z, <<>>, EmptyWin, k, up)
      PROVE  OK(t)
  BY <1>1 DEF Is
<1>2. ASSUME NEW u, NEW x, Is(u, x, a, b, <<>>, EmptyWin, li, up)
      PROVE  OK(l2_establish(u))
  <2> DEFINE e == establishlink(u)
             t == [e EXCEPT !.l3Init = TRUE]
  <2>1. /\ Shape(e) /\ e.t200 /\ Flag(e)
        /\ e.iq = <<>> /\ e.win = EmptyWin /\ e.up = up
    BY <1>2, EstablishFields DEF Is
  <2>2. l2_establish(u) = t  BY DEF l2_establish
  <2> HIDE DEF e
  <2>3. OK(t)  BY <2>1 DEF Shape, Fields
  <2>4. QED BY <2>2, <2>3
<1>3. OK(EvDlEstablish(s))
  <2>1. CASE s.st = 1
    <3> DEFINE c == FsmChangeState(s, 3)
    <3>1. Is(c, 3, a, b, <<>>, EmptyWin, li, up)  BY IsSet
    <3>2. EvDlEstablish(s) = Ask(c, "MDL_ASSIGN")  BY <2>1 DEF EvDlEstablish
    <3> HIDE DEF c
    <3>3. Is(Ask(c, "MDL_ASSIGN"), 3, a, b, <<>>, EmptyWin, li, up)  BY <3>1, IsCall
    <3> HIDE DEF OK
    <3>4. QED BY <1>1, <3>2, <3>3
  <2>2. CASE s.st = 2
    <3>1. Is(FsmChangeState(s, 3), 3, a, b, <<>>, EmptyWin, li, up)  BY IsSet
    <3>2. EvDlEstablish(s) = FsmChangeState(s, 3)  BY <2>2 DEF EvDlEstablish
    <3> HIDE DEF OK
    <3>3. QED BY <1>1, <3>1, <3>2
  <2>3. CASE s.st = 4
    <3> HIDE DEF OK
    <3>1. QED BY <1>2, <2>3 DEF EvDlEstablish
  <2>4. CASE s.st = 5
    <3> DEFINE c == PurgeI(s)
               d == [c EXCEPT !.l3Init = TRUE]
               e == [d EXCEPT !.pendRel = FALSE]
    <3>1. EvDlEstablish(s) = e  BY <2>4 DEF EvDlEstablish
    <3>2. Is(c, st, a, b, <<>>, EmptyWin, li, up)  BY IsSet
    <3> HIDE DEF c
    <3>3. Is(d, st, a, b, <<>>, EmptyWin, TRUE, up)  BY <3>2, IsSet
    <3> HIDE DEF d
    <3>4. Is(e, st, a, b, <<>>, EmptyWin, TRUE, up)  BY <3>3, IsCall
    <3> HIDE DEF e, OK
    <3>5. QED BY <1>1, <3>1, <3>4
  <2>5. CASE s.st \in {7, 8}
    <3>1. Is(PurgeI(s), st, a, b, <<>>, EmptyWin, li, up)  BY IsSet
    <3>2. EvDlEstablish(s) = l2_establish(PurgeI(s))
      BY <2>5 DEF EvDlEstablish, l2_l3_reestablish
    <3> HIDE DEF OK
    <3>3. QED BY <1>2, <3>1, <3>2
  <2>6. CASE s.st \notin {1, 2, 4, 5, 7, 8}
    <3>1. EvDlEstablish(s) = s  BY <2>6 DEF EvDlEstablish
    <3> HIDE DEF OK
    <3>2. QED BY <1>1, <3>1
  <2>7. QED BY <2>1, <2>2, <2>3, <2>4, <2>5, <2>6
<1>4. OK(s)  BY <1>1
<1>5. ASSUME NEW x PROVE OK(Ask([s EXCEPT !.estabPend = x], "PH_ACTIVATE"))
  <2> DEFINE c == [s EXCEPT !.estabPend = x]
  <2>1. Quiet(s, c)  BY QuietFlags DEF Is
  <2>2. Is(c, st, a, b, <<>>, EmptyWin, li, up)  BY <2>1, IsQuiet
  <2> HIDE DEF c
  <2>3. Is(Ask(c, "PH_ACTIVATE"), st, a, b, <<>>, EmptyWin, li, up)  BY <2>2, IsCall
  <2> HIDE DEF OK
  <2>4. QED BY <1>1, <2>3 DEF c
<1> HIDE DEF OK
<1>6. OK(DlEstablishReq(s))  BY <1>3, <1>4, <1>5 DEF DlEstablishReq
<1>7. QED BY <1>6 DEF OK

LEMMA OvertakeIs ==
    ASSUME NEW s, Shape(s), Flag(s), s.iq = <<>>, s.win = EmptyWin
    PROVE  LET t == Overtake(s)
           IN  /\ Shape(t) /\ Flag(t) /\ t.st = s.st
               /\ t.iq = <<>> /\ t.win = EmptyWin /\ t.up = s.up
<1> DEFINE u == FsmChangeState(s, l2.st)
           w == DlEstablishReq(u)
<1>1. Is(s, s.st, s.t200, s.t203, <<>>, EmptyWin, s.l3Init, s.up)  BY DEF Is
<1>2. Is(u, l2.st, s.t200, s.t203, <<>>, EmptyWin, s.l3Init, s.up)  BY <1>1, IsSet
<1>3. Overtake(s) = [w EXCEPT !.st = s.st]  BY DEF Overtake, FsmChangeState
<1> HIDE DEF u
<1>4. Shape(w) /\ Flag(w) /\ w.iq = <<>> /\ w.win = EmptyWin /\ w.up = s.up
  BY <1>2, RequestIs
<1> HIDE DEF w
<1>5. QED BY <1>3, <1>4 DEF Shape, Fields

LEMMA HastyReady ==
    ASSUME ReadyInv, NEW s, Done(s, l3up), s.st \in 1 .. 4, HastyCall(s)
    PROVE  ReadyInv'
<1> DEFINE t == Overtake(s)
<1>1. Effect(t, 0) /\ overtaken' = t.t200Run  BY DEF HastyCall
<1>2. Shape(s) /\ Timers(s) /\ Clean(s) /\ Synced(s, ViewAfter(s, l3up))
  BY DEF Done, Sound, Fine
<1>3. Flag(s) /\ s.iq = <<>> /\ s.win = EmptyWin  BY <1>2 DEF Timers, Clean
<1>4. /\ Shape(t) /\ Flag(t) /\ t.st = s.st
      /\ t.iq = <<>> /\ t.win = EmptyWin /\ t.up = s.up
  BY <1>2, <1>3, OvertakeIs
<1> HIDE DEF t
<1>5. ViewAfter(t, l3up) = ViewAfter(s, l3up)  BY <1>4 DEF ViewAfter, LinkPrims
<1>6. Synced(t, ViewAfter(t, l3up))  BY <1>2, <1>4, <1>5 DEF Synced
<1>7. Clean(t)  BY <1>4 DEF Clean
<1>8. /\ t.t200 => t.t200Run
      /\ t.t200Run => t.t200 \/ overtaken'
      /\ t.t200 => overtaken'
  BY <1>1, <1>4
<1>9. QED BY <1>1, <1>4, <1>6, <1>7, <1>8, EffectReady

\* Some handler ran; only that of I frames delivers data.
Handled ==
    \E s, fed : /\ Step(s, fed) /\ Sound(s, l3up)
                /\ Mute(s) \/ \E f, reply, ds : s = EvI(l2, f, reply, ds)

LEMMA DoneHandled ==
    ASSUME NEW s, Done(s, l3up), NEW fed, Step(s, fed)
    PROVE  Handled
  BY DEF Handled, Done

LEMMA CallHandled ==
    ASSUME NEW s, Done(s, l3up), Call(s)
    PROVE  Handled
  BY DoneHandled DEF Call

LEMMA InitReady == Init => ReadyInv
<1> SUFFICES ASSUME Init PROVE Ready(l2, l3up)
  BY DEF ReadyInv
<1>1. PICK orig : l2 = InitL2(orig)  BY DEF Init
<1>2. l3up = FALSE  BY DEF Init
<1>3. l2.st \in {1, 4}  BY <1>1 DEF InitL2
<1>4. /\ l2.t200 = FALSE /\ l2.t203 = FALSE /\ l2.t200Run = FALSE /\ l2.l3Init = FALSE
      /\ l2.iq = <<>> /\ l2.win = EmptyWin /\ l2.up = <<>>
  BY <1>1 DEF InitL2
<1>5. Fields \subseteq DOMAIN l2  BY <1>1 DEF Fields, InitL2
<1>6. Shape(l2)  BY <1>4, <1>5 DEF Shape
<1>7. Timers(l2) /\ Clean(l2) /\ Synced(l2, l3up)
  <2>1. l2.st \in 1 .. 8 /\ l2.st \notin {5, 6, 7, 8}  BY <1>3
  <2>2. Flag(l2) /\ ~l2.t200  BY <1>4
  <2>3. Timers(l2)  BY <2>1, <2>2 DEF Timers
  <2>4. Clean(l2)  BY <1>4, <2>1 DEF Clean
  <2>5. ~l3up  BY <1>2
  <2>6. Synced(l2, l3up)  BY <2>1, <2>5 DEF Synced
  <2>7. QED BY <2>3, <2>4, <2>6
<1>8. QED BY <1>2, <1>4, <1>6, <1>7 DEF Ready, Fine

LEMMA FramesHandled == ReadyInv /\ (RcvU \/ RcvS \/ RcvInfo) => Handled
<1> SUFFICES ASSUME ReadyInv, RcvU \/ RcvS \/ RcvInfo PROVE Handled
  OBVIOUS
<1>0. Ready(l2, l3up)  BY DEF ReadyInv
<1>1. ASSUME NEW pf, RcvSABME(pf) PROVE Handled
  BY <1>0, <1>1, DoneSABME, CallHandled DEF RcvSABME
<1>2. ASSUME NEW pf, RcvDISC(pf) PROVE Handled
  BY <1>0, <1>2, DoneDISC, CallHandled DEF RcvDISC
<1>3. ASSUME NEW pf, RcvUA(pf) PROVE Handled
  BY <1>0, <1>3, DoneUA, CallHandled DEF RcvUA
<1>4. ASSUME NEW pf, RcvDM(pf) PROVE Handled
  BY <1>0, <1>4, DoneDM, CallHandled DEF RcvDM
<1>5. ASSUME NEW rejected, RcvFRMR(rejected) PROVE Handled
  BY <1>0, <1>5, DoneFRMR, CallHandled DEF RcvFRMR
<1>6. CASE RcvUI  BY <1>0, <1>6, DoneUI, CallHandled DEF RcvUI
<1>7. CASE RcvBad  BY <1>0, <1>7, DoneFrameError, CallHandled DEF RcvBad
<1>8. ASSUME NEW t, NEW rsp, NEW pf, NEW nr, NEW ds, RcvSuper(t, rsp, pf, nr, ds)
      PROVE  Handled
  <2> DEFINE f == [t |-> t, rsp |-> rsp, pf |-> pf, ns |-> 0, nr |-> nr, d |-> NoSkb]
             s == EvSuper(l2, f, ds)
  <2>1. Done(s, l3up)  BY <1>0, DoneSuper
  <2>2. Step(s, Wrote(s, <<>>, ds))  BY <1>8 DEF RcvSuper
  <2> HIDE DEF s
  <2>3. QED BY <2>1, <2>2, DoneHandled
<1>9. ASSUME NEW pf, NEW ns, NEW nr, NEW d, NEW reply, NEW ds, RcvI(pf, ns, nr, d, reply, ds)
      PROVE  Handled
  <2> DEFINE f == [t |-> "I", rsp |-> FALSE, pf |-> pf, ns |-> ns, nr |-> nr, d |-> d]
             s == EvI(l2, f, reply, ds)
  <2>1. Sound(s, l3up)  BY <1>0, GoodI
  <2>2. Step(s, Wrote(s, reply, ds))  BY <1>9 DEF RcvI
  <2> HIDE DEF f
  <2>3. QED BY <2>1, <2>2 DEF Handled
<1>10. QED
  BY <1>1, <1>2, <1>3, <1>4, <1>5, <1>6, <1>7, <1>8, <1>9 DEF RcvU, RcvS, RcvInfo

LEMMA Layer3Handled == ReadyInv /\ Layer3 => Handled
<1> SUFFICES ASSUME ReadyInv, Layer3 PROVE Handled
  OBVIOUS
<1>0. Ready(l2, l3up)  BY DEF ReadyInv
<1>1. ASSUME NEW d, DlData(d) PROVE Handled
  <2>1. Done(EvDlData(l2, d), l3up)  BY <1>0, DoneDlData
  <2>2. PICK fed : Step(EvDlData(l2, d), fed)  BY <1>1 DEF DlData
  <2>3. QED BY <2>1, <2>2, DoneHandled
<1>2. CASE DlUnitData  BY <1>0, <1>2, DoneDlUnitData, CallHandled DEF DlUnitData
<1>3. CASE DlEstablish
  <2>1. Done(DlEstablishReq(l2), l3up)  BY <1>0, DoneDlEstablishReq
  <2>2. Step(DlEstablishReq(l2), 0)  BY <1>3 DEF DlEstablish
  <2>3. QED BY <2>1, <2>2, DoneHandled
<1>4. CASE DlRelease
  <2>1. Done(DlReleaseReq(l2), l3up)  BY <1>0, DoneDlReleaseReq
  <2>2. Step(DlReleaseReq(l2), 0)  BY <1>4 DEF DlRelease
  <2>3. QED BY <2>1, <2>2, DoneHandled
<1>5. QED BY <1>1, <1>2, <1>3, <1>4 DEF Layer3

LEMMA LowerHandled == ReadyInv /\ (Mdl \/ Layer1 \/ T200 \/ T203) => Handled
<1> SUFFICES ASSUME ReadyInv, Mdl \/ Layer1 \/ T200 \/ T203 PROVE Handled
  OBVIOUS
<1>0. Ready(l2, l3up)  BY DEF ReadyInv
<1>1. CASE Mdl
  BY <1>0, <1>1, DoneMdl, CallHandled DEF Mdl, MdlAssign, MdlError, MdlRemove
<1>2. CASE L1Activate  BY <1>0, <1>2, DonePhActivate, CallHandled DEF L1Activate
<1>3. CASE L1Deactivate  BY <1>0, <1>3, DonePhDeactivate, CallHandled DEF L1Deactivate
<1>4. CASE TxDone  BY <1>0, <1>4, DonePhOther, CallHandled DEF TxDone
<1>5. CASE PullConfirm  BY <1>0, <1>5, DonePhOther, CallHandled DEF PullConfirm
<1>6. ASSUME NEW busy, DChanBusy(busy) PROVE Handled
  BY <1>0, <1>6, DonePhOther, CallHandled DEF DChanBusy
<1>7. CASE T200  BY <1>0, <1>7, DoneT200, CallHandled DEF T200
<1>8. CASE T203  BY <1>0, <1>8, DoneT203, CallHandled DEF T203
<1>9. QED BY <1>1, <1>2, <1>3, <1>4, <1>5, <1>6, <1>7, <1>8 DEF Layer1

LEMMA NextHandled == ReadyInv /\ Next => Handled \/ Hasty
  BY FramesHandled, Layer3Handled, LowerHandled DEF Next

LEMMA HastyDone ==
    ASSUME ReadyInv, NEW s, HastyEnd(s)
    PROVE  Done(s, l3up)
<1>1. Ready(l2, l3up)  BY DEF ReadyInv
<1>2. CASE s = EvDM(l2, UFrame("DM", TRUE, TRUE))  BY <1>1, <1>2, DoneDM
<1>3. CASE s = EvMdlError(l2)  BY <1>1, <1>3, DoneMdl
<1>4. CASE s = EvMdlRemove(l2)  BY <1>1, <1>4, DoneMdl
<1>5. CASE s = PhDeactivate(l2)  BY <1>1, <1>5, DonePhDeactivate
<1>6. QED BY <1>2, <1>3, <1>4, <1>5 DEF HastyEnd

LEMMA NextReady == ReadyInv /\ [Next]_vars => ReadyInv'
<1>1. ASSUME ReadyInv, UNCHANGED vars PROVE ReadyInv'
  BY <1>1 DEF ReadyInv, Ready, Fine, Timers, Shape, Clean, Synced, vars
<1>2. ASSUME ReadyInv, Handled PROVE ReadyInv'
  BY <1>2, StepReady DEF Handled
<1>3. ASSUME ReadyInv, Hasty PROVE ReadyInv'
  <2>1. "st" \in DOMAIN l2  BY <1>3 DEF ReadyInv, Ready, Fine, Shape, Fields
  <2>2. PICK s : HastyEnd(s)  BY <1>3, <2>1, HastyEnds
  <2>3. s.st \in 1 .. 4 /\ HastyCall(s)  BY <2>2 DEF HastyEnd
  <2>4. QED BY <1>3, <2>2, <2>3, HastyDone, HastyReady
<1>4. QED BY <1>1, <1>2, <1>3, NextHandled

LEMMA AlwaysReady == Spec => []ReadyInv
<1>1. QED BY InitReady, NextReady, PTL DEF Spec

\* A link that waits for its peer is never left without a timer that wakes it,
\* and FLG_T200_RUN is set while T200 is pending: no order of frames, requests,
\* failures and expiries defeats start_t200, stop_t200 and the tests of the
\* flag in isdnl2.c, for any window, modulus and number of retries.  The flag is
\* stale in ST_L2_7 only after a request that layer 3 made from within a
\* DL_RELEASE|INDICATION was overtaken by the release; then T203 runs.
THEOREM TimersRun == Spec => []SomeTimer
<1>1. ReadyInv => SomeTimer
  BY DEF ReadyInv, Ready, Fine, Timers, SomeTimer
<1>2. QED BY <1>1, AlwaysReady, PTL

\* No frame of an old link waits in i_queue or windowar when a link is set up.
THEOREM NothingStale == Spec => []NoStaleData
<1>1. ReadyInv => NoStaleData
  BY DEF ReadyInv, Ready, Fine, Clean, NoStaleData, Filled, EmptyWin
<1>2. QED BY <1>1, AlwaysReady, PTL

\* Every way into and out of multi-frame operation tells layer 3, which
\* therefore agrees with layer 2 on whether there is a link.
THEOREM ViewsAgree == Spec => []L3InSync
<1>1. ReadyInv => L3InSync
  BY DEF ReadyInv, Ready, Fine, Synced, L3InSync
<1>2. QED BY <1>1, AlwaysReady, PTL

-----------------------------------------------------------------------------
(***************************************************************************)
(* Every frame that is delivered is acknowledged.  Between the delivery    *)
(* and the end of the handler the acknowledgement is Due: FLG_ACK_PEND is  *)
(* set, or a frame with the current vr is out.                             *)
(***************************************************************************)

IsSeq(q) == \E S : q \in Seq(S)

\* A frame that acknowledges everything before n was sent.
Sent(q, n) ==
    \E i \in 1 .. Len(q) : q[i].t \in STypes \cup {"I"} /\ q[i].nr = n

Due(t, n) ==
    /\ Fields \subseteq DOMAIN t /\ IsSeq(t.out) /\ t.vr = n
    /\ t.ackPend \/ Sent(t.out, n)

\* Nothing sent, nothing received.
Idle(s, t) ==
    /\ Fields \subseteq DOMAIN t
    /\ t.vr = s.vr /\ t.out = s.out /\ t.ackPend = s.ackPend

LEMMA SentAppend ==
    ASSUME NEW q, IsSeq(q), NEW f, NEW n
    PROVE  /\ IsSeq(Append(q, f))
           /\ f.t \in STypes \cup {"I"} /\ f.nr = n => Sent(Append(q, f), n)
           /\ Sent(q, n) => Sent(Append(q, f), n)
<1>1. PICK S : q \in Seq(S)  BY DEF IsSeq
<1> DEFINE U == S \cup {f}
           r == Append(q, f)
<1>2. q \in Seq(U) /\ f \in U
  <2>1. Len(q) \in Nat /\ q \in [1 .. Len(q) -> S]  BY <1>1
  <2>2. q \in [1 .. Len(q) -> U]  BY <2>1
  <2>3. QED BY <2>1, <2>2
<1> HIDE DEF U
<1>3. r \in Seq(U) /\ Len(r) = Len(q) + 1 /\ Len(q) \in Nat /\ r[Len(q) + 1] = f
  BY <1>2
<1>4. \A i \in 1 .. Len(q) : r[i] = q[i]  BY <1>2
<1> HIDE DEF r
<1>5. f.t \in STypes \cup {"I"} /\ f.nr = n => Sent(r, n)
  BY <1>3 DEF Sent
<1>6. Sent(q, n) => Sent(r, n)
  BY <1>3, <1>4 DEF Sent
<1>7. IsSeq(r)  BY <1>3 DEF IsSeq
<1>8. QED BY <1>5, <1>6, <1>7 DEF r

LEMMA DueSame ==
    ASSUME NEW s, NEW n, Due(s, n), NEW t, Idle(s, t)
    PROVE  Due(t, n)
  BY DEF Due, Idle

LEMMA SameTimers ==
    ASSUME NEW s, Fields \subseteq DOMAIN s
    PROVE  /\ Idle(s, s) /\ Idle(s, stop_t200(s)) /\ Idle(s, RestartT203(s))
           /\ Idle(s, restart_t200(s)) /\ Idle(s, start_t200(s)) /\ Idle(s, DelT203(s))
           /\ \A b, w : Idle(s, Warn(s, b, w))
           /\ \A k : Idle(s, AddTxCnt(s, k))
  BY DEF Idle, Fields, stop_t200, RestartT203, restart_t200, start_t200, AddT200, DelT203,
         Warn, AddTxCnt

\* A frame that carries the current vr takes the place of FLG_ACK_PEND.
LEMMA DueSend ==
    ASSUME NEW s, NEW n, Fields \subseteq DOMAIN s, IsSeq(s.out), s.vr = n,
           NEW f, f.t \in STypes \cup {"I"}, f.nr = n
    PROVE  LET t == Send(s, f)
           IN  Fields \subseteq DOMAIN t /\ IsSeq(t.out) /\ t.vr = n /\ Sent(t.out, n)
<1> DEFINE t == Send(s, f)
<1>1. Fields \subseteq DOMAIN t /\ t.vr = n /\ t.out = Append(s.out, f)
  BY DEF Send, Fields
<1> HIDE DEF t
<1>2. IsSeq(t.out) /\ Sent(t.out, n)  BY <1>1, SentAppend
<1>3. QED BY <1>1, <1>2 DEF t

LEMMA DueEnquiry ==
    ASSUME NEW s, NEW n, Fields \subseteq DOMAIN s, IsSeq(s.out), s.vr = n, NEW rsp, NEW pf
    PROVE  LET t == enquiry_cr(s, "RR", rsp, pf)
           IN  /\ Fields \subseteq DOMAIN t /\ IsSeq(t.out) /\ t.vr = n /\ Sent(t.out, n)
               /\ Due([t EXCEPT !.ackPend = FALSE], n)
<1> DEFINE f == [t |-> "RR", rsp |-> rsp, pf |-> pf, ns |-> 0, nr |-> s.vr, d |-> NoSkb]
           c == AddTxCnt(s, 1)
           t == Send(c, f)
           u == [t EXCEPT !.ackPend = FALSE]
<1>1. enquiry_cr(s, "RR", rsp, pf) = t  BY DEF enquiry_cr, enqueue_super
<1>2. f.t \in STypes \cup {"I"} /\ f.nr = n  BY DEF STypes
<1> HIDE DEF f
<1>3. Idle(s, c)  BY SameTimers
<1> HIDE DEF c
<1>4. Fields \subseteq DOMAIN c /\ IsSeq(c.out) /\ c.vr = n  BY <1>3 DEF Idle
<1>5. Fields \subseteq DOMAIN t /\ IsSeq(t.out) /\ t.vr = n /\ Sent(t.out, n)
  BY <1>2, <1>4, DueSend
<1> HIDE DEF t
<1>6. Fields \subseteq DOMAIN u /\ u.out = t.out /\ u.vr = t.vr  BY <1>5 DEF Fields
<1> HIDE DEF u
<1>7. Due(u, n)  BY <1>5, <1>6 DEF Due
<1>8. QED BY <1>1, <1>5, <1>7 DEF u

LEMMA SentEnquiry ==
    ASSUME NEW s, NEW n, Fields \subseteq DOMAIN s, IsSeq(s.out), s.vr = n
    PROVE  \A rsp, pf : /\ enquiry_cr(s, "RR", rsp, pf).vr = n
                        /\ Sent(enquiry_cr(s, "RR", rsp, pf).out, n)
  BY DueEnquiry

\* An I frame acknowledges as it goes.
LEMMA DuePull ==
    ASSUME NEW s, NEW n, Due(s, n)
    PROVE  Due(l2_pull_iqueue(s), n)
<1>1. CASE ~cansend(s) \/ s.iq = <<>>
  BY <1>1 DEF l2_pull_iqueue
<1>2. CASE cansend(s) /\ s.iq # <<>>
  <2> DEFINE slot == Slot(s, Outstanding(s))
             b == s.win[slot] # NoSkb
             s1 == Warn(s, b, "overwrite ack queue")
             a == [s1 EXCEPT !.iq = Tail(@), !.win[slot] = Head(s.iq),
                             !.vs = Inc(@), !.ackPend = FALSE]
             f == [t |-> "I", rsp |-> FALSE, pf |-> FALSE,
                   ns |-> s.vs, nr |-> s.vr, d |-> Head(s.iq)]
             s2 == Send(a, f)
             d == DelT203(s2)
             e == start_t200(d)
             s3 == IF ~s.t200Run THEN e ELSE s2
             p == s3.pullReq \/ (s3.iq # <<>> /\ cansend(s3))
             s4 == [s3 EXCEPT !.pullReq = p]
  <2>1. l2_pull_iqueue(s) = s4  BY <1>2 DEF l2_pull_iqueue
  <2> HIDE DEF b, slot, p
  <2>2. Idle(s, s1)  BY SameTimers DEF Due
  <2> HIDE DEF s1
  <2>3. Fields \subseteq DOMAIN a /\ a.out = s1.out /\ a.vr = s1.vr
    BY <2>2 DEF Idle, Fields
  <2> HIDE DEF a
  <2>4. f.t \in STypes \cup {"I"} /\ f.nr = n  BY DEF Due
  <2> HIDE DEF f
  <2>5. IsSeq(a.out) /\ a.vr = n  BY <2>2, <2>3 DEF Idle, Due
  <2>6. Fields \subseteq DOMAIN s2 /\ IsSeq(s2.out) /\ s2.vr = n /\ Sent(s2.out, n)
    BY <2>3, <2>4, <2>5, DueSend
  <2> HIDE DEF s2
  <2>7. Due(s2, n)  BY <2>6 DEF Due
  <2>8. Idle(s2, d)  BY <2>6, SameTimers
  <2> HIDE DEF d
  <2>9. Idle(d, e)  BY <2>8, SameTimers DEF Idle
  <2> HIDE DEF e
  <2>10. Due(s3, n)  BY <2>7, <2>8, <2>9, DueSame
  <2> HIDE DEF s3
  <2>11. Idle(s3, s4)  BY <2>10 DEF Due, Idle, Fields
  <2> HIDE DEF s4
  <2>12. QED BY <2>1, <2>10, <2>11, DueSame
<1>3. QED BY <1>1, <1>2

LEMMA DuePullRequest ==
    ASSUME NEW s, NEW n, Due(s, n)
    PROVE  Due(PullRequest(s), n)
<1> DEFINE t == [s EXCEPT !.pullReq = TRUE]
           u == [s EXCEPT !.pullReq = FALSE]
<1>1. PullRequest(s) \in {t, u, l2_pull_iqueue(u)}  BY DEF PullRequest, AckPull
<1>2. Idle(s, t) /\ Idle(s, u)  BY DEF Due, Idle, Fields
<1> HIDE DEF t, u
<1>3. Due(t, n) /\ Due(u, n)  BY <1>2, DueSame
<1>4. QED BY <1>1, <1>3, DuePull

\* Layer 3 writes from within the delivery, or when it is woken.
LEMMA DueRefill ==
    ASSUME NEW s, NEW n, Due(s, n), NEW ds
    PROVE  Due(Refill(s, ds), n)
<1> DEFINE a == AddTxCnt(s, 1)
           q == [a EXCEPT !.iq = Append(@, Head(ds))]
<1>1. Refill(s, ds) \in {s, a, q, PullRequest(q)}  BY DEF Refill, EvDlData
<1>2. Idle(s, a)  BY SameTimers DEF Due
<1> HIDE DEF a
<1>3. Idle(a, q)  BY <1>2 DEF Idle, Fields
<1> HIDE DEF q
<1>4. Due(a, n) /\ Due(q, n)  BY <1>2, <1>3, DueSame
<1>5. QED BY <1>1, <1>4, DuePullRequest

LEMMA DueSetva ==
    ASSUME NEW s, NEW n, Due(s, n), NEW nr, NEW ds
    PROVE  Due(setva(s, nr, ds), n)
<1> DEFINE k == Dist(s.va, nr)
           acked == {i \in Slots : Behind(s, i) < k}
           b == \E i \in acked : s.win[i] = NoSkb
           s1 == Warn(s, b, "null skb")
           slot == Slot(s, k)
           w == [i \in Slots |-> IF i \in acked THEN NoSkb ELSE s.win[i]]
           s2 == [s1 EXCEPT !.va = nr, !.sow = slot, !.win = w]
           wr == IF LAPD THEN <<>> ELSE ds
<1>1. setva(s, nr, ds) = IF k = 0 THEN s ELSE Refill(s2, wr)  BY DEF setva
<1> HIDE DEF k, b, slot, w, wr
<1>2. Idle(s, s1)  BY SameTimers DEF Due
<1> HIDE DEF s1
<1>3. Idle(s1, s2)  BY <1>2 DEF Idle, Fields
<1> HIDE DEF s2
<1>4. Due(s2, n)  BY <1>2, <1>3, DueSame
<1>5. QED BY <1>1, <1>4, DueRefill

LEMMA DueAccept ==
    ASSUME NEW s, Fields \subseteq DOMAIN s, IsSeq(s.out), NEW f, NEW reply
    PROVE  \E n : Due(Accept(s, f, reply), n)
<1> DEFINE n == Inc(s.vr)
           a == [s EXCEPT !.vr = n, !.rejExc = FALSE]
           x == enquiry_response(a)
           y == [a EXCEPT !.ackPend = TRUE]
           b == IF f.pf THEN x ELSE y
           r == [p |-> "DL_DATA_IND", d |-> f.d]
           c == [b EXCEPT !.up = Append(@, r)]
<1>1. Accept(s, f, reply) = Refill(c, reply)  BY DEF Accept, L2L3
<1> HIDE DEF n
<1>2. Fields \subseteq DOMAIN a /\ a.vr = n /\ IsSeq(a.out)  BY DEF Fields
<1> HIDE DEF a
<1>3. Due(x, n)  BY <1>2, DueEnquiry DEF enquiry_response
<1>4. Due(y, n)  BY <1>2 DEF Due, Fields
<1> HIDE DEF x, y
<1>5. Due(b, n)  BY <1>3, <1>4
<1> HIDE DEF b, r
<1>6. Idle(b, c)  BY <1>5 DEF Due, Idle, Fields
<1> HIDE DEF c
<1>7. Due(c, n)  BY <1>5, <1>6, DueSame
<1>8. QED BY <1>1, <1>7, DueRefill

\* What is due goes out before the handler of the I frame ends.
LEMMA IframeAcknowledges ==
    ASSUME NEW s, NEW v, Ready(s, v), s.st \in {7, 8}, s.out = <<>>,
           NEW f, s.vr = f.ns, NEW reply, NEW ds
    PROVE  Acknowledges(l2_got_iframe(s, f, reply, ds))
<1> DEFINE st == s.st
           s1 == Accept(s, f, reply)
           t0 == stop_t200(s1)
           t1 == RestartT203(t0)
           t2 == restart_t200(s1)
           s2 == IF s1.peerBusy \/ s1.st # 7 THEN s1
                 ELSE IF f.nr = s1.vs THEN t1
                 ELSE IF f.nr # s1.va THEN t2 ELSE s1
           s3 == setva(s2, f.nr, ds)
           w == PullRequest(s3)
           s4 == IF s3.iq # <<>> /\ s3.st = 7 THEN w ELSE s3
           a == [s4 EXCEPT !.ackPend = FALSE]
           r1 == nrerrorrecovery(s1)
           r2 == enquiry_cr(a, "RR", TRUE, FALSE)
<1>1. /\ l2_got_iframe(s, f, reply, ds) =
             IF ~legalnr(s1, f.nr) THEN r1 ELSE IF s4.ackPend THEN r2 ELSE s4
  BY DEF l2_got_iframe
<1>2. Fields \subseteq DOMAIN s  BY DEF Ready, Fine, Shape
<1>3. IsSeq(s.out)
  <2>1. <<>> \in Seq({})  OBVIOUS
  <2>2. QED BY <2>1 DEF IsSeq
<1>4. Live(s, st, Nothing) /\ st \in {7, 8}  BY LiveReady
<1> HIDE DEF st
<1>5. Live(s1, st, DataInd(f.d))  BY <1>4, LiveAccept
<1>6. PICK n : Due(s1, n)  BY <1>2, <1>3, DueAccept
<1> HIDE DEF s1
<1>7. r1.st = 5  BY <1>5, LiveRecovery
<1> HIDE DEF r1
<1>8. Idle(s1, t0) /\ Idle(s1, t2)  BY <1>6, SameTimers DEF Due
<1> HIDE DEF t0, t2
<1>9. Idle(t0, t1)  BY <1>8, SameTimers DEF Idle
<1> HIDE DEF t1
<1>10. Due(t1, n) /\ Due(t2, n)  BY <1>6, <1>8, <1>9, DueSame
<1>11. Due(s2, n)  BY <1>6, <1>10
<1> HIDE DEF s2
<1>12. Due(s3, n)  BY <1>11, DueSetva
<1> HIDE DEF s3
<1>13. Due(w, n)  BY <1>12, DuePullRequest
<1> HIDE DEF w
<1>14. Due(s4, n)  BY <1>12, <1>13
<1> HIDE DEF s4
<1>15. Fields \subseteq DOMAIN a /\ a.out = s4.out /\ a.vr = s4.vr
  BY <1>14 DEF Due, Fields
<1> HIDE DEF a
<1>16. r2.vr = n /\ Sent(r2.out, n)
  <2>1. IsSeq(s4.out) /\ s4.vr = n  BY <1>14, Zenon DEF Due
  <2>2. Fields \subseteq DOMAIN a /\ IsSeq(a.out) /\ a.vr = n  BY <1>15, <2>1
  <2>3. \A rsp, pf : /\ enquiry_cr(a, "RR", rsp, pf).vr = n
                     /\ Sent(enquiry_cr(a, "RR", rsp, pf).out, n)
    BY <2>2, SentEnquiry
  <2>4. QED BY <2>3
<1> HIDE DEF r2
<1>17. Acknowledges(r1) /\ Acknowledges(r2)
  BY <1>7, <1>16 DEF Acknowledges, Sent
<1>18. ~s4.ackPend => Acknowledges(s4)
  BY <1>14 DEF Acknowledges, Sent, Due
<1>19. QED BY <1>1, <1>17, <1>18

LEMMA MuteDelivers ==
    ASSUME NEW t, Mute(t)
    PROVE  ~Delivered(t)
<1>1. CASE t.up = <<>>  BY <1>1 DEF Delivered
<1>2. ASSUME NEW p, p # "DL_DATA_IND", Told(t, p) PROVE ~Delivered(t)
  <2>1. PICK d : t.up = Append(<<>>, [p |-> p, d |-> d])  BY <1>2 DEF Told
  <2>2. Len(t.up) = 1 /\ t.up[1].p = p  BY <2>1
  <2>3. QED BY <1>2, <2>2 DEF Delivered
<1>3. QED BY <1>1, <1>2 DEF Mute

LEMMA IAcknowledges ==
    ASSUME NEW s, NEW v, Ready(s, v), s.out = <<>>, NEW f, NEW reply, NEW ds
    PROVE  LET t == EvI(s, f, reply, ds) IN Delivered(t) => Acknowledges(t)
<1>1. CASE s.st \notin {7, 8}
  <2>1. EvI(s, f, reply, ds) = s  BY <1>1 DEF EvI
  <2>2. ~Delivered(s)  BY DEF Delivered, Ready
  <2>3. QED BY <2>1, <2>2
<1>2. CASE s.st \in {7, 8}
  <2>1. EvI(s, f, reply, ds) = l2_got_iframe(s, f, reply, ds)  BY <1>2 DEF EvI
  <2>2. CASE s.vr = f.ns  BY <1>2, <2>1, <2>2, IframeAcknowledges
  <2>3. CASE s.vr # f.ns  BY <1>2, <2>1, <2>3, GoodIframe, MuteDelivers
  <2>4. QED BY <2>2, <2>3
<1>3. QED BY <1>1, <1>2

-----------------------------------------------------------------------------
AckInv == ReadyInv /\ l2.out = <<>> /\ DataAcked

LEMMA InitAck == Init => AckInv
<1> SUFFICES ASSUME Init PROVE AckInv
  OBVIOUS
<1>1. PICK orig : l2 = InitL2(orig)  BY DEF Init
<1>2. l2.out = <<>>  BY <1>1 DEF InitL2
<1>3. DataAcked  BY DEF Init, DataAcked
<1>4. QED BY <1>2, <1>3, InitReady DEF AckInv

LEMMA HandledAck ==
    ASSUME AckInv, Handled
    PROVE  AckInv'
<1>1. PICK s, fed : /\ Step(s, fed) /\ Effect(s, fed) /\ Sound(s, l3up)
                    /\ Mute(s) \/ \E f, reply, ds : s = EvI(l2, f, reply, ds)
  BY DEF Handled, Step
<1>2. ReadyInv'  BY <1>1, StepReady DEF AckInv
<1>3. Delivered(s) => Acknowledges(s)
  <2>1. Ready(l2, l3up) /\ l2.out = <<>>  BY DEF AckInv, ReadyInv
  <2>2. CASE Mute(s)  BY <2>2, MuteDelivers
  <2>3. ASSUME NEW f, NEW reply, NEW ds, s = EvI(l2, f, reply, ds)
        PROVE  Delivered(s) => Acknowledges(s)
    BY <2>1, <2>3, IAcknowledges
  <2>4. QED BY <1>1, <2>2, <2>3
<1>4. DataAcked'
  <2>1. unacked' = (Delivered(s) /\ ~Acknowledges(s))  BY <1>1 DEF Effect
  <2>2. QED BY <1>3, <2>1 DEF DataAcked
<1>5. (l2.out = <<>>)'
  <2>1. l2' = Fresh(s) /\ Fields \subseteq DOMAIN s  BY <1>1 DEF Effect, Sound, Fine, Shape
  <2>2. QED BY <2>1 DEF Fresh, Fields
<1>6. QED BY <1>2, <1>4, <1>5 DEF AckInv

LEMMA HastyAck ==
    ASSUME AckInv, Hasty
    PROVE  AckInv'
<1>1. ReadyInv /\ ReadyInv'  BY NextReady DEF AckInv, Next
<1>2. "st" \in DOMAIN l2  BY <1>1 DEF ReadyInv, Ready, Fine, Shape, Fields
<1>3. PICK s : HastyEnd(s)  BY <1>2, HastyEnds
<1> DEFINE t == Overtake(s)
<1>4. Shape(s) /\ Timers(s) /\ Clean(s) /\ Mute(s) /\ s.st \in 1 .. 4
  <2>1. Done(s, l3up)  BY <1>1, <1>3, HastyDone
  <2>2. s.st \in 1 .. 4  BY <1>3 DEF HastyEnd
  <2>3. QED BY <2>1, <2>2 DEF Done, Sound, Fine
<1>5. Flag(s) /\ s.iq = <<>> /\ s.win = EmptyWin  BY <1>4 DEF Timers, Clean
<1>6. Shape(t) /\ t.up = s.up  BY <1>4, <1>5, OvertakeIs
<1>7. Effect(t, 0)  BY <1>3 DEF HastyEnd, HastyCall
<1> HIDE DEF t
<1>8. Mute(t)  BY <1>4, <1>6 DEF Mute, Told
<1>9. DataAcked'  BY <1>7, <1>8, MuteDelivers DEF Effect, DataAcked
<1>10. (l2.out = <<>>)'
  <2>1. l2' = Fresh(t) /\ Fields \subseteq DOMAIN t  BY <1>6, <1>7 DEF Effect, Shape
  <2>2. QED BY <2>1 DEF Fresh, Fields
<1>11. QED BY <1>1, <1>9, <1>10 DEF AckInv

LEMMA NextAck == AckInv /\ [Next]_vars => AckInv'
<1>1. ASSUME AckInv, UNCHANGED vars PROVE AckInv'
  BY <1>1, NextReady DEF AckInv, DataAcked, vars
<1>2. ASSUME AckInv, Next PROVE AckInv'
  <2>1. Handled \/ Hasty  BY <1>2, NextHandled DEF AckInv
  <2>2. QED BY <1>2, <2>1, HandledAck, HastyAck
<1>3. QED BY <1>1, <1>2

\* Every I frame that l2_got_iframe delivers to layer 3 is acknowledged before
\* the handler returns, by an RR or by whatever I frame layer 3's answer makes
\* it send, unless it sets the link up anew; whatever the peer sends, whatever
\* layer 3 writes meanwhile, for any window, modulus and number of retries.
THEOREM AckedAlways == Spec => []DataAcked
<1>1. AckInv => DataAcked  BY DEF AckInv
<1>2. QED BY <1>1, InitAck, NextAck, PTL DEF Spec

-----------------------------------------------------------------------------
(* What no frame changes: whether layer 1 is active *)

Known(s) ==
    {"st", "va", "vs", "vr", "iq", "up", "l3Init", "pendRel", "l1Activ"} \subseteq DOMAIN s

\* A handler was called in s and leaves t.
Link(s, t) == Known(t) /\ t.l1Activ = s.l1Activ

USE DEF Known, Link, Warn, Ask, AddT200, AddT203, start_t200, restart_t200, stop_t200,
        RestartT203, DelT203, FsmChangeState, set_peer_busy, clear_peer_busy, clear_exception,
        freewin, PurgeI, PurgeUI, ResetVars, Send, AddTxCnt, enqueue_super, send_uframe,
        l2_send_UA, l2_send_DM, enquiry_cr, enquiry_response, transmit_enquiry, L2L3, Tell,
        lapb_dl_release_l2l3, st5_dl_release_l2l3, tx_ui, GotNr

LEMMA PullLink ==
    ASSUME NEW s, Known(s)
    PROVE  LET t == l2_pull_iqueue(s)
           IN  /\ Link(s, t) /\ t.st = s.st /\ t.va = s.va /\ t.vr = s.vr
               /\ t.pendRel = s.pendRel /\ t.up = s.up
<1> DEFINE slot == Slot(s, Outstanding(s))
           f == [t |-> "I", rsp |-> FALSE, pf |-> FALSE,
                 ns |-> s.vs, nr |-> s.vr, d |-> Head(s.iq)]
           a == Warn(s, s.win[slot] # NoSkb, "overwrite ack queue")
           b == [a EXCEPT !.iq = Tail(@), !.win[slot] = Head(s.iq),
                          !.vs = Inc(@), !.ackPend = FALSE]
           c == Send(b, f)
           e == IF ~s.t200Run THEN start_t200(DelT203(c)) ELSE c
           g == [e EXCEPT !.pullReq = @ \/ (e.iq # <<>> /\ cansend(e))]
           Alike(x) == /\ Link(s, x) /\ x.st = s.st /\ x.va = s.va /\ x.vr = s.vr
                       /\ x.pendRel = s.pendRel /\ x.up = s.up
<1>1. l2_pull_iqueue(s) = IF ~cansend(s) \/ s.iq = <<>> THEN s ELSE g
  BY DEF l2_pull_iqueue
<1>2. Alike(s)
  OBVIOUS
<1>3. Alike(a)
  OBVIOUS
<1> HIDE DEF slot, f, a
<1>4. Alike(b)
  BY <1>3
<1> HIDE DEF b
<1>5. Alike(c)
  BY <1>4
<1> HIDE DEF c
<1>6. Alike(e)
  BY <1>5
<1> HIDE DEF e
<1>7. Alike(g)
  BY <1>6
<1> HIDE DEF g
<1> QED BY <1>1, <1>2, <1>7

LEMMA EstablishLink ==
    ASSUME NEW s, Known(s)
    PROVE  LET t == establishlink(s)
           IN  /\ Link(s, t) /\ t.st = 5 /\ ~t.pendRel /\ t.l3Init = s.l3Init
               /\ t.vs = s.vs /\ t.va = s.va /\ t.vr = s.vr /\ t.iq = s.iq
<1> DEFINE a == [clear_exception(s) EXCEPT !.rc = 0]
           b == send_uframe(a, "SABME", FALSE, TRUE)
           c == restart_t200(DelT203(b))
           d == [c EXCEPT !.pendRel = FALSE]
           t == FsmChangeState(freewin(d), 5)
<1>1. establishlink(s) = t
  BY DEF establishlink
<1>2. /\ Link(s, a) /\ a.l3Init = s.l3Init
      /\ a.vs = s.vs /\ a.va = s.va /\ a.vr = s.vr /\ a.iq = s.iq
  OBVIOUS
<1> HIDE DEF a
<1>3. /\ Link(s, c) /\ c.l3Init = s.l3Init
      /\ c.vs = s.vs /\ c.va = s.va /\ c.vr = s.vr /\ c.iq = s.iq
  BY <1>2
<1> HIDE DEF c
<1>4. /\ Link(s, t) /\ t.st = 5 /\ ~t.pendRel /\ t.l3Init = s.l3Init
      /\ t.vs = s.vs /\ t.va = s.va /\ t.vr = s.vr /\ t.iq = s.iq
  BY <1>3
<1> HIDE DEF t
<1> QED BY <1>1, <1>4

LEMMA ReestablishLink ==
    ASSUME NEW s, Known(s)
    PROVE  LET t == Reestablish(s)
           IN  /\ Link(s, t) /\ t.st = 5 /\ ~t.pendRel /\ ~t.l3Init
               /\ t.vs = s.vs /\ t.va = s.va /\ t.vr = s.vr /\ t.iq = s.iq
BY EstablishLink DEF Reestablish

LEMMA l2_establishLink ==
    ASSUME NEW s, Known(s)
    PROVE  LET t == l2_establish(s)
           IN  Link(s, t) /\ t.st = 5 /\ ~t.pendRel /\ t.l3Init
BY EstablishLink DEF l2_establish

LEMMA ReestablishAsk ==
    ASSUME NEW s, Known(s), NEW r
    PROVE  LET t == Reestablish(Ask(s, r))
           IN  /\ Link(s, t) /\ t.st = 5 /\ ~t.pendRel /\ ~t.l3Init
               /\ t.vs = s.vs /\ t.va = s.va /\ t.vr = s.vr /\ t.iq = s.iq
<1> DEFINE u == Ask(s, r)
<1>1. /\ Link(s, u) /\ u.vs = s.vs /\ u.va = s.va /\ u.vr = s.vr /\ u.iq = s.iq
  OBVIOUS
<1> HIDE DEF u
<1>2. LET t == Reestablish(u)
      IN  /\ Link(u, t) /\ t.st = 5 /\ ~t.pendRel /\ ~t.l3Init
          /\ t.vs = u.vs /\ t.va = u.va /\ t.vr = u.vr /\ t.iq = u.iq
  BY <1>1, ReestablishLink
<1> QED BY <1>1, <1>2 DEF u

LEMMA PurgeKnown == ASSUME NEW s, Known(s) PROVE Link(s, PurgeI(s))
OBVIOUS

LEMMA l2_l3_reestablishLink ==
    ASSUME NEW s, Known(s)
    PROVE  LET t == l2_l3_reestablish(s)
           IN  Link(s, t) /\ t.st = 5 /\ ~t.pendRel /\ t.l3Init
<1> DEFINE u == PurgeI(s)
<1>1. Link(s, u)
  BY PurgeKnown
<1> HIDE DEF u
<1>2. LET t == l2_establish(u)
      IN  Link(u, t) /\ t.st = 5 /\ ~t.pendRel /\ t.l3Init
  BY <1>1, l2_establishLink
<1> QED BY <1>1, <1>2 DEF l2_l3_reestablish, u

LEMMA l2_disconnectLink ==
    ASSUME NEW s, Known(s)
    PROVE  Link(s, l2_disconnect(s)) /\ l2_disconnect(s).st = 6
BY DEF l2_disconnect

\* The events of a U frame.
LEMMA l2_start_multiLink ==
    ASSUME NEW s, Known(s), NEW pf
    PROVE  LET t == l2_start_multi(s, pf)
           IN  Link(s, t) /\ t.st = 7
<1> DEFINE a == send_uframe(s, "UA", TRUE, pf)
           b == ResetVars(clear_exception(a))
           t == Tell(AddT203(FsmChangeState(b, 7)), "DL_ESTABLISH_IND")
<1>1. l2_start_multi(s, pf) = t
  BY DEF l2_start_multi
<1>2. Link(s, b)
  OBVIOUS
<1> HIDE DEF b
<1>3. Link(s, t) /\ t.st = 7
  BY <1>2
<1> HIDE DEF t
<1> QED BY <1>1, <1>3

LEMMA l2_stop_multiLink ==
    ASSUME NEW s, Known(s), NEW pf
    PROVE  LET t == l2_stop_multi(s, pf)
           IN  Link(s, t) /\ t.st = 4
BY DEF l2_stop_multi

\* The link goes down with TEI or layer 1.
LEMMA TeiRemoveLink ==
    ASSUME NEW s, Known(s)
    PROVE  /\ Link(s, l2_st24_tei_remove(s)) /\ l2_st24_tei_remove(s).st = 1
           /\ Link(s, l2_st3_tei_remove(s)) /\ l2_st3_tei_remove(s).st = 1
           /\ Link(s, l2_st5_tei_remove(s)) /\ l2_st5_tei_remove(s).st = 1
           /\ Link(s, l2_st6_tei_remove(s)) /\ l2_st6_tei_remove(s).st = 1
           /\ Link(s, l2_tei_remove(s)) /\ l2_tei_remove(s).st = 1
<1>1. Link(s, l2_st24_tei_remove(s)) /\ l2_st24_tei_remove(s).st = 1
  BY DEF l2_st24_tei_remove
<1>2. Link(s, l2_st3_tei_remove(s)) /\ l2_st3_tei_remove(s).st = 1
  BY DEF l2_st3_tei_remove
<1>3. Link(s, l2_st5_tei_remove(s)) /\ l2_st5_tei_remove(s).st = 1
  BY DEF l2_st5_tei_remove
<1>4. Link(s, l2_st6_tei_remove(s)) /\ l2_st6_tei_remove(s).st = 1
  BY DEF l2_st6_tei_remove
<1>5. Link(s, l2_tei_remove(s)) /\ l2_tei_remove(s).st = 1
  BY DEF l2_tei_remove
<1> HIDE DEF Link
<1> QED BY <1>1, <1>2, <1>3, <1>4, <1>5

LEMMA PersistantLink ==
    ASSUME NEW s, Known(s)
    PROVE  /\ Link(s, l2_st14_persistant_da(s)) /\ l2_st14_persistant_da(s).st = s.st
           /\ Link(s, l2_st5_persistant_da(s)) /\ l2_st5_persistant_da(s).st = 4
           /\ Link(s, l2_st6_persistant_da(s)) /\ l2_st6_persistant_da(s).st = 4
           /\ Link(s, l2_persistant_da(s)) /\ l2_persistant_da(s).st = 4
<1>1. Link(s, l2_st14_persistant_da(s)) /\ l2_st14_persistant_da(s).st = s.st
  BY DEF l2_st14_persistant_da
<1>2. Link(s, l2_st5_persistant_da(s)) /\ l2_st5_persistant_da(s).st = 4
  BY DEF l2_st5_persistant_da
<1>3. Link(s, l2_st6_persistant_da(s)) /\ l2_st6_persistant_da(s).st = 4
  BY DEF l2_st6_persistant_da
<1>4. Link(s, l2_persistant_da(s)) /\ l2_persistant_da(s).st = 4
  BY DEF l2_persistant_da
<1> HIDE DEF Link
<1> QED BY <1>1, <1>2, <1>3, <1>4

\* A TEI arrives.
LEMMA l2_got_teiLink ==
    ASSUME NEW s, Known(s)
    PROVE  LET t == l2_got_tei(s)
           IN  /\ Link(s, t) /\ t.st = IF s.st = 3 THEN 5 ELSE 4
               /\ s.st = 3 => ~t.pendRel
<1> DEFINE a == [s EXCEPT !.tei = TRUE]
           b == l2_establish(a)
           c == FsmChangeState(a, 4)
<1>1. Link(s, a) /\ a.st = s.st
  OBVIOUS
<1>2. Link(s, c) /\ c.st = 4
  OBVIOUS
<1>3. l2_got_tei(s) = tx_ui(IF s.st = 3 THEN b ELSE c)
  BY <1>1 DEF l2_got_tei
<1> HIDE DEF a
<1>4. Link(s, b) /\ b.st = 5 /\ ~b.pendRel
  BY <1>1, l2_establishLink
<1> HIDE DEF b, c
<1>5. ASSUME NEW u, Known(u)
      PROVE  Link(u, tx_ui(u)) /\ tx_ui(u).st = u.st /\ tx_ui(u).pendRel = u.pendRel
  BY <1>5
<1> QED BY <1>2, <1>3, <1>4, <1>5

-----------------------------------------------------------------------------
(* Counting what is owed *)

\* A call that moves no frame.
Still(s, t) ==
    /\ Link(s, t) /\ t.st = s.st /\ t.va = s.va /\ t.vs = s.vs /\ t.vr = s.vr
    /\ t.iq = s.iq /\ t.pendRel = s.pendRel /\ t.l3Init = s.l3Init /\ t.up = s.up

Count(s) == Len(s.iq) + Outstanding(s)

\* Multi-frame operation goes on.
Open(s, t) == s.st \in {7, 8} => t.st \in {7, 8}

\* A call in ST_L2_7 or 8 that ends with n more frames owed, none acknowledged.
Flow(s, t, n) ==
    /\ Good(t) /\ Link(s, t) /\ Open(s, t) /\ t.va = s.va /\ t.vr = s.vr
    /\ t.pendRel = s.pendRel /\ Count(t) = Count(s) + n

LEMMA GoodKnown ==
    ASSUME NEW s, Good(s)
    PROVE  /\ Known(s) /\ s \in L2State /\ s.va \in SeqNo /\ s.vs \in SeqNo /\ s.vr \in SeqNo
           /\ s.iq \in Seq(Data) /\ Len(s.iq) \in Nat /\ Outstanding(s) \in Nat
           /\ Count(s) \in Nat
<1>1. s \in L2State
  BY GoodType
<1>2. s.va \in SeqNo /\ s.vs \in SeqNo /\ s.vr \in SeqNo /\ s.iq \in Seq(Data)
  BY <1>1 DEF L2State
<1>3. Known(s)
  BY <1>1 DEF L2State
<1>4. Outstanding(s) \in Nat
  BY <1>2, DistType, L2Assumption DEF Outstanding
<1> QED BY <1>1, <1>2, <1>3, <1>4 DEF Count

LEMMA StillFlow ==
    ASSUME NEW s, Good(s), NEW t, Good(t), Still(s, t)
    PROVE  Flow(s, t, 0)
<1>1. Count(t) = Count(s) /\ Count(s) \in Nat
  BY GoodKnown DEF Count, Outstanding, Still
<1> QED BY <1>1 DEF Open, Flow, Still

LEMMA FlowTrans ==
    ASSUME NEW s, NEW t, NEW u, NEW m \in Nat, NEW n \in Nat, Count(s) \in Nat,
           Flow(s, t, m), Flow(t, u, n)
    PROVE  Flow(s, u, m + n)
BY DEF Open, Flow

LEMMA FlowTwice ==
    ASSUME NEW s, Good(s), NEW t, NEW u, Flow(s, t, 0), Flow(t, u, 0)
    PROVE  Flow(s, u, 0)
<1>1. Flow(s, u, 0 + 0)
  BY FlowTrans, GoodKnown
<1> QED BY <1>1

LEMMA FlowRefl == ASSUME NEW s, Good(s) PROVE Flow(s, s, 0)
BY GoodKnown DEF Open, Flow

LEMMA PullFlow ==
    ASSUME NEW s, Good(s)
    PROVE  Flow(s, l2_pull_iqueue(s), 0)
<1> DEFINE t == l2_pull_iqueue(s)
<1>1. Good(t)
  BY PullGood
<1>2. Known(s)
  BY GoodKnown
<1>3. /\ Link(s, t) /\ t.st = s.st /\ t.va = s.va /\ t.vr = s.vr
      /\ t.pendRel = s.pendRel
  BY <1>2, PullLink
<1>4. CASE ~cansend(s) \/ s.iq = <<>>
  <2>1. t = s
    BY <1>4, Zenon DEF l2_pull_iqueue
  <2> QED BY <2>1, FlowRefl
<1>5. CASE cansend(s) /\ s.iq # <<>>
  <2>1. t.iq = Tail(s.iq) /\ t.vs = Inc(s.vs)
    BY <1>2, <1>5 DEF l2_pull_iqueue
  <2> HIDE DEF t
  <2>2. Len(Tail(s.iq)) = Len(s.iq) - 1 /\ Len(s.iq) \in Nat
    BY <1>5, GoodKnown
  <2>3. Dist(s.va, Inc(s.vs)) = Dist(s.va, s.vs) + 1 /\ Dist(s.va, s.vs) \in Nat
    <3>1. s.va \in SeqNo /\ s.vs \in SeqNo /\ Dist(s.va, s.vs) < Window
      BY <1>5, GoodKnown DEF cansend, Outstanding
    <3> QED BY <3>1, DistInc, GoodKnown DEF Outstanding
  <2>4. Count(t) = Count(s) + 0
    BY <1>3, <2>1, <2>2, <2>3 DEF Count, Outstanding
  <2> QED BY <1>1, <1>3, <2>4 DEF Open, Flow, t
<1> QED BY <1>4, <1>5

LEMMA PullRequestFlow ==
    ASSUME NEW s, Good(s)
    PROVE  /\ Flow(s, AckPull(s), 0) /\ Flow(s, PullRequest(s), 0)
           /\ Flow(s, PullIfWaiting(s), 0)
<1>1. Flow(s, AckPull(s), 0)
  BY PullFlow, FlowRefl DEF AckPull
<1>2. Flow(s, PullRequest(s), 0)
  <2> DEFINE a == [s EXCEPT !.pullReq = TRUE]
             b == [s EXCEPT !.pullReq = FALSE]
  <2>1. Good(a) /\ Good(b)
    BY GoodType, GoodSame, SamePullReq
  <2>2. Still(s, a) /\ Still(s, b)
    BY GoodKnown DEF Still
  <2>3. PullRequest(s) = IF s.txBusy THEN a ELSE AckPull(b)
    BY DEF PullRequest
  <2> HIDE DEF a, b
  <2>4. Flow(s, a, 0) /\ Flow(s, b, 0)
    BY <2>1, <2>2, StillFlow
  <2>5. Flow(b, AckPull(b), 0)
    BY <2>1, PullFlow, FlowRefl DEF AckPull
  <2>6. Flow(s, AckPull(b), 0 + 0)
    BY <2>4, <2>5, FlowTrans, GoodKnown
  <2> QED BY <2>3, <2>4, <2>6
<1> QED BY <1>1, <1>2, FlowRefl DEF PullIfWaiting

LEMMA DlDataFlow ==
    ASSUME NEW s, Good(s), s.st \in {7, 8}, NEW d \in Data
    PROVE  Flow(s, EvDlData(s, d), 1)
<1> DEFINE a == AddTxCnt(s, 1)
           q == [a EXCEPT !.iq = Append(@, d)]
<1>1. Good(q)
  BY GoodType, GoodSame, DlDataSame
<1>2. /\ Link(s, q) /\ q.st = s.st /\ q.va = s.va /\ q.vs = s.vs /\ q.vr = s.vr
      /\ q.pendRel = s.pendRel /\ q.iq = Append(s.iq, d)
  BY GoodKnown
<1>3. EvDlData(s, d) = IF s.st = 7 THEN PullRequest(q) ELSE q
  BY DEF EvDlData
<1> HIDE DEF a, q
<1>4. Count(q) = Count(s) + 1
  <2>1. Len(q.iq) = Len(s.iq) + 1 /\ Len(s.iq) \in Nat
    BY <1>2, GoodKnown
  <2>2. Outstanding(q) = Outstanding(s) /\ Outstanding(s) \in Nat
    BY <1>2, GoodKnown DEF Outstanding
  <2> QED BY <2>1, <2>2 DEF Count
<1>5. Flow(s, q, 1)
  BY <1>1, <1>2, <1>4 DEF Open, Flow
<1>6. Flow(q, PullRequest(q), 0)
  BY <1>1, PullRequestFlow
<1>7. Flow(s, PullRequest(q), 1 + 0)
  BY <1>5, <1>6, FlowTrans, GoodKnown
<1> QED BY <1>3, <1>5, <1>7

LEMMA RefillFlow ==
    ASSUME NEW s, Good(s), s.st \in {7, 8}, NEW ds, Written(ds)
    PROVE  Flow(s, Refill(s, ds), Len(ds)) /\ Len(ds) \in {0, 1}
<1>1. CASE ds = <<>>
  BY <1>1, FlowRefl DEF Refill
<1>2. ASSUME NEW d \in Data, ds = <<d>> PROVE Flow(s, Refill(s, ds), 1) /\ Len(ds) = 1
  <2>1. Refill(s, ds) = EvDlData(s, d) /\ Len(ds) = 1
    <3>1. ds # <<>> /\ Head(ds) = d /\ Len(ds) = 1
      BY <1>2
    <3> QED BY <3>1 DEF Refill
  <2> QED BY <2>1, DlDataFlow
<1> QED BY <1>1, <1>2 DEF Written

\* What layer 3 writes while it is woken by an acknowledgement up to nr.
Woken(s, nr, ds) == IF nr # s.va /\ ~LAPD THEN Len(ds) ELSE 0

\* A call that ends with va acknowledged and n more frames owed.
Acked(s, t, va, n) ==
    /\ Good(t) /\ Link(s, t) /\ Open(s, t) /\ t.va = va /\ t.vr = s.vr
    /\ t.pendRel = s.pendRel /\ Count(t) + Dist(s.va, va) = Count(s) + n

LEMMA AckedFlow ==
    ASSUME NEW s, Good(s), NEW t, NEW m \in Nat, Flow(s, t, m)
    PROVE  Acked(s, t, s.va, m)
BY GoodKnown, DistType DEF Open, Flow, Acked

LEMMA FlowAcked ==
    ASSUME NEW s, Good(s), NEW t, NEW m \in Nat, Flow(s, t, m),
           NEW u, NEW va \in SeqNo, NEW n \in Nat, Acked(t, u, va, n)
    PROVE  Acked(s, u, va, m + n)
<1>1. t.va = s.va /\ Dist(s.va, va) \in Int
  BY GoodKnown, DistType, L2Assumption DEF Open, Flow
<1>2. Count(s) \in Nat /\ Count(t) \in Nat /\ Count(u) \in Nat
  BY GoodKnown DEF Open, Flow, Acked
<1>3. Count(u) + Dist(s.va, va) = Count(s) + (m + n)
  BY <1>1, <1>2 DEF Open, Flow, Acked
<1> QED BY <1>3 DEF Open, Flow, Acked

LEMMA AckedThen ==
    ASSUME NEW s, Good(s), NEW t, NEW va \in SeqNo, NEW m \in Nat, Acked(s, t, va, m),
           NEW u, NEW n \in Nat, Flow(t, u, n)
    PROVE  Acked(s, u, va, m + n)
<1>1. Dist(s.va, va) \in Int
  BY GoodKnown, DistType, L2Assumption
<1>2. Count(s) \in Nat /\ Count(t) \in Nat /\ Count(u) \in Nat
  BY GoodKnown DEF Open, Flow, Acked
<1>3. Count(u) + Dist(s.va, va) = Count(s) + (m + n)
  BY <1>1, <1>2 DEF Open, Flow, Acked
<1> QED BY <1>3 DEF Open, Flow, Acked

LEMMA SetvaFlow ==
    ASSUME NEW s, Good(s), s.st \in {7, 8}, NEW nr \in SeqNo, legalnr(s, nr),
           NEW ds, Written(ds)
    PROVE  Acked(s, setva(s, nr, ds), nr, Woken(s, nr, ds)) /\ Woken(s, nr, ds) \in {0, 1}
<1> DEFINE f == Freed(s, nr)
           r == IF LAPD THEN <<>> ELSE ds
<1>1. /\ Good(f) /\ f.st = s.st /\ f.va = nr /\ f.vs = s.vs
      /\ Outstanding(f) = Outstanding(s) - Dist(s.va, nr)
      /\ Dist(s.va, nr) = 0 => s.va = nr
  BY FreedGood
<1>2. f.iq = s.iq /\ f.vr = s.vr /\ Link(s, f) /\ f.pendRel = s.pendRel
  BY GoodKnown DEF Freed
<1>3. Written(r) /\ Len(ds) \in {0, 1} /\ Len(r) = IF LAPD THEN 0 ELSE Len(ds)
  BY L2Assumption DEF Written
<1> HIDE DEF f, r
<1>4. Count(s) \in Nat /\ Count(f) \in Nat /\ Dist(s.va, nr) \in Int
      /\ Count(f) + Dist(s.va, nr) = Count(s) + 0
  <2>1. Dist(s.va, nr) \in Int
    BY GoodKnown, DistType, L2Assumption
  <2>2. Len(s.iq) \in Nat /\ Outstanding(s) \in Nat /\ Count(s) \in Nat
    BY GoodKnown
  <2>3. Count(f) = Len(s.iq) + (Outstanding(s) - Dist(s.va, nr))
    BY <1>1, <1>2 DEF Count
  <2> QED BY <1>1, <2>1, <2>2, <2>3, GoodKnown DEF Count
<1>5. Acked(s, f, nr, 0)
  BY <1>1, <1>2, <1>4 DEF Open, Acked
<1>6. CASE Dist(s.va, nr) = 0
  <2>1. s.va = nr /\ setva(s, nr, ds) = s /\ Woken(s, nr, ds) = 0
    BY <1>1, <1>6, SetvaFreed DEF Woken
  <2> QED BY <2>1, FlowRefl, AckedFlow
<1>7. CASE Dist(s.va, nr) # 0
  <2>1. setva(s, nr, ds) = Refill(f, r)
    BY <1>7, SetvaFreed DEF f, r
  <2>2. nr # s.va
    BY <1>7, GoodKnown, DistType
  <2>3. Woken(s, nr, ds) = Len(r) /\ Len(r) \in {0, 1}
    BY <1>3, <2>2, L2Assumption DEF Woken
  <2>4. Flow(f, Refill(f, r), Len(r))
    BY <1>1, <1>3, RefillFlow
  <2>5. Acked(s, Refill(f, r), nr, 0 + Len(r))
    BY <1>5, <2>3, <2>4, AckedThen
  <2> QED BY <2>1, <2>3, <2>5
<1> QED BY <1>6, <1>7

LEMMA InvokeFlow ==
    ASSUME NEW s, Good(s), NEW nr \in SeqNo, legalnr(s, nr)
    PROVE  Flow(s, invoke_retransmission(s, nr), 0)
<1> DEFINE w == Rewound(s, nr)
<1>1. /\ Good(w) /\ w.st = s.st /\ w.va = s.va /\ w.vs = nr
      /\ Len(w.iq) + Outstanding(w) = Len(s.iq) + Outstanding(s)
  BY RewoundGood
<1>2. w.vr = s.vr /\ Link(s, w) /\ w.pendRel = s.pendRel
  BY GoodKnown DEF Rewound
<1> HIDE DEF w
<1>3. Flow(s, w, 0)
  <2>1. Count(w) = Count(s) /\ Count(s) \in Nat
    BY <1>1, GoodKnown DEF Count
  <2> QED BY <1>1, <1>2, <2>1 DEF Open, Flow
<1>4. Flow(w, PullRequest(w), 0)
  BY <1>1, PullRequestFlow
<1>5. Flow(s, PullRequest(w), 0 + 0)
  BY <1>3, <1>4, FlowTrans, GoodKnown
<1>6. invoke_retransmission(s, nr) \in {s, PullRequest(w)}
  BY InvokeRewound DEF w
<1> QED BY <1>5, <1>6, FlowRefl

-----------------------------------------------------------------------------
(* Frames of the peer in multi-frame operation *)

\* A call that ends with m frames more owed, and what layer 3 wrote when it was woken.
Counted(s, t, m, ds) == Acked(s, t, t.va, m + Woken(s, t.va, ds))

LEMMA WokenType ==
    ASSUME NEW s, NEW nr, NEW ds, Written(ds)
    PROVE  Woken(s, nr, ds) \in Nat /\ Len(ds) \in {0, 1}
BY DEF Woken, Written

LEMMA FlowCounted ==
    ASSUME NEW s, Good(s), NEW t, NEW m \in Nat, Flow(s, t, m), NEW ds
    PROVE  Counted(s, t, m, ds)
<1>1. t.va = s.va /\ Acked(s, t, s.va, m)
  BY AckedFlow DEF Flow
<1>2. Woken(s, t.va, ds) = 0
  BY <1>1 DEF Woken
<1> QED BY <1>1, <1>2 DEF Counted

LEMMA SetvaCounted ==
    ASSUME NEW s, Good(s), s.st \in {7, 8}, NEW nr \in SeqNo, legalnr(s, nr),
           NEW ds, Written(ds)
    PROVE  Counted(s, setva(s, nr, ds), 0, ds)
<1> DEFINE t == setva(s, nr, ds)
<1>1. Acked(s, t, nr, Woken(s, nr, ds)) /\ Woken(s, nr, ds) \in Nat
  BY SetvaFlow
<1> HIDE DEF t
<1>2. t.va = nr
  BY <1>1 DEF Acked
<1> QED BY <1>1, <1>2 DEF Counted, t

LEMMA CountedThen ==
    ASSUME NEW s, Good(s), NEW t, NEW m \in Nat, NEW ds, Written(ds), Counted(s, t, m, ds),
           NEW u, Flow(t, u, 0)
    PROVE  Counted(s, u, m, ds)
<1>1. t.va \in SeqNo /\ u.va = t.va
  BY GoodKnown DEF Flow, Counted, Acked
<1>2. m + Woken(s, t.va, ds) \in Nat
  BY WokenType
<1>3. Acked(s, u, t.va, (m + Woken(s, t.va, ds)) + 0)
  BY <1>1, <1>2, AckedThen DEF Counted
<1> QED BY <1>1, <1>2, <1>3 DEF Counted

LEMMA ThenCounted ==
    ASSUME NEW s, Good(s), NEW t, NEW m \in Nat, Flow(s, t, m),
           NEW u, NEW ds, Written(ds), Counted(t, u, 0, ds)
    PROVE  Counted(s, u, m, ds)
<1>1. u.va \in SeqNo /\ t.va = s.va
  BY GoodKnown DEF Flow, Counted, Acked
<1>2. Woken(t, u.va, ds) = Woken(s, u.va, ds) /\ Woken(s, u.va, ds) \in Nat
  BY <1>1, WokenType DEF Woken
<1>3. Acked(s, u, u.va, m + (0 + Woken(s, u.va, ds)))
  BY <1>1, <1>2, FlowAcked DEF Counted
<1> QED BY <1>2, <1>3 DEF Counted

\* The operators that only send, set a timer or a flag.
Calm(s, t) == Good(t) /\ Still(s, t)

LEMMA CalmOk == ASSUME NEW s, Good(s), NEW t, Ok(s, t), Still(s, t) PROVE Calm(s, t)
BY GoodOk DEF Calm

LEMMA CalmFlow ==
    ASSUME NEW s, Good(s), NEW t, Calm(s, t)
    PROVE  /\ Flow(s, t, 0) /\ Good(t) /\ t.st = s.st /\ t.va = s.va /\ t.vs = s.vs
           /\ \A nr : legalnr(t, nr) = legalnr(s, nr)
BY StillFlow DEF Calm, Still, legalnr, Outstanding

LEMMA CalmTrans == ASSUME NEW s, NEW t, NEW u, Calm(s, t), Calm(t, u) PROVE Calm(s, u)
BY DEF Calm, Still

LEMMA CalmRefl == ASSUME NEW s, Good(s) PROVE Calm(s, s)
BY GoodKnown DEF Calm, Still

LEMMA CalmCall ==
    ASSUME NEW s, Good(s)
    PROVE  /\ \A r \in Requests : Calm(s, Ask(s, r))
           /\ Calm(s, enquiry_response(s))
           /\ \A f : Calm(s, GotNr(s, f))
           /\ \A b \in BOOLEAN : Calm(s, [s EXCEPT !.ackPend = b])
           /\ \A pf \in BOOLEAN : Calm(s, enquiry_cr(s, "RR", TRUE, pf))
<1>1. Sane(s) /\ Known(s)
  BY GoodType, GoodKnown
<1>2. ASSUME NEW r \in Requests PROVE Calm(s, Ask(s, r))
  <2>1. Still(s, Ask(s, r))
    BY <1>1 DEF Still
  <2> QED BY <1>1, <2>1, OkAsk, CalmOk
<1>3. Calm(s, enquiry_response(s))
  <2>1. Still(s, enquiry_response(s))
    BY <1>1 DEF Still
  <2> QED BY <1>1, <2>1, Ok_enquiry_response, CalmOk, Zenon
<1>4. ASSUME NEW f PROVE Calm(s, GotNr(s, f))
  <2>1. Still(s, GotNr(s, f))
    BY <1>1 DEF Still
  <2>2. Good(GotNr(s, f))
    BY GotNrGood, Zenon
  <2> QED BY <2>1, <2>2 DEF Calm
<1>5. ASSUME NEW b \in BOOLEAN PROVE Calm(s, [s EXCEPT !.ackPend = b])
  <2>1. Still(s, [s EXCEPT !.ackPend = b])
    BY <1>1 DEF Still
  <2> QED BY <1>1, <2>1, OkAckPend, CalmOk
<1>6. ASSUME NEW pf \in BOOLEAN PROVE Calm(s, enquiry_cr(s, "RR", TRUE, pf))
  <2>1. Still(s, enquiry_cr(s, "RR", TRUE, pf))
    BY <1>1 DEF Still
  <2> QED BY <1>1, <2>1, Ok_enquiry_cr, CalmOk, Zenon DEF STypes
<1> QED BY <1>2, <1>3, <1>4, <1>5, <1>6, Zenon

LEMMA CalmTimer ==
    ASSUME NEW s, Good(s)
    PROVE  /\ Calm(s, RestartT203(stop_t200(s))) /\ Calm(s, AddT203(stop_t200(s)))
           /\ Calm(s, restart_t200(s)) /\ Calm(s, restart_t200(DelT203(s)))
<1>1. Sane(s) /\ Known(s)
  BY GoodType, GoodKnown
<1> DEFINE a == stop_t200(s)
           b == DelT203(s)
<1>2. Calm(s, a) /\ Calm(s, b)
  <2>1. Still(s, a) /\ Still(s, b)
    BY <1>1 DEF Still
  <2> QED BY <1>1, <2>1, CalmOk, Ok_stop_t200, OkDelT203, Zenon
<1>3. Good(a) /\ Good(b)
  BY <1>2 DEF Calm
<1> HIDE DEF a, b
<1>4. Calm(a, RestartT203(a))
  <2>1. Still(a, RestartT203(a))
    BY <1>3, GoodKnown DEF Still
  <2> QED BY <1>3, <2>1, GoodType, OkRestartT203, CalmOk
<1>5. Calm(a, AddT203(a))
  <2>1. Still(a, AddT203(a))
    BY <1>3, GoodKnown DEF Still
  <2> QED BY <1>3, <2>1, GoodType, OkAddT203, CalmOk
<1>6. Calm(b, restart_t200(b))
  <2>1. Still(b, restart_t200(b))
    BY <1>3, GoodKnown DEF Still
  <2> QED BY <1>3, <2>1, GoodType, Ok_restart_t200, CalmOk, Zenon
<1>7. Calm(s, restart_t200(s))
  <2>1. Still(s, restart_t200(s))
    BY <1>1 DEF Still
  <2> QED BY <1>1, <2>1, Ok_restart_t200, CalmOk
<1>8. /\ Calm(s, RestartT203(a)) /\ Calm(s, AddT203(a)) /\ Calm(s, restart_t200(b))
  BY <1>2, <1>4, <1>5, <1>6, CalmTrans
<1> QED BY <1>7, <1>8 DEF a, b

LEMMA FlowGood == ASSUME NEW s, NEW t, NEW n, Flow(s, t, n) PROVE Good(t) /\ Open(s, t)
BY DEF Flow
LEMMA CountedGood ==
    ASSUME NEW s, NEW t, NEW m, NEW ds, Counted(s, t, m, ds)
    PROVE  Good(t) /\ Open(s, t)
BY DEF Counted, Acked

\* A call in s that leaves at least what was owed, and n more, without what was
\* acknowledged: in the queue and the window, or ready for a new link.
Owes(s, t, n) ==
    /\ Link(s, t) /\ t.st \in {5, 7, 8} /\ (t.st = 5 => ~t.pendRel)
    /\ Count(t) + Dist(s.va, t.va) >= Count(s) + n

LEMMA CountedOwes ==
    ASSUME NEW s, Good(s), s.st \in {7, 8}, NEW t, NEW m \in Nat,
           NEW ds, Written(ds), Counted(s, t, m, ds)
    PROVE  Owes(s, t, m + Woken(s, t.va, ds)) /\ t.vr = s.vr
<1>1. /\ Count(s) \in Nat /\ Count(t) \in Nat /\ Woken(s, t.va, ds) \in Nat
      /\ Dist(s.va, t.va) \in Int
  BY GoodKnown, WokenType, DistType, L2Assumption DEF Counted, Acked
<1> QED BY <1>1 DEF Counted, Acked, Owes, Open

LEMMA RecoveryOwes ==
    ASSUME NEW s, Good(s), s.st \in {7, 8}, NEW t, NEW m \in Nat, Flow(s, t, m), NEW r
    PROVE  LET u == Reestablish(Ask(t, r))
           IN  Owes(s, u, m) /\ u.vr = s.vr /\ u.va = s.va
<1> DEFINE u == Reestablish(Ask(t, r))
<1>1. Good(t) /\ Known(t) /\ Link(s, t) /\ t.va = s.va /\ t.vr = s.vr
  BY GoodKnown DEF Flow
<1>2. /\ Link(t, u) /\ u.st = 5 /\ ~u.pendRel
      /\ u.vs = t.vs /\ u.va = t.va /\ u.vr = t.vr /\ u.iq = t.iq
  BY <1>1, ReestablishAsk
<1> HIDE DEF u
<1>3. Count(u) = Count(t) /\ Count(t) = Count(s) + m /\ Count(s) \in Nat
  BY <1>2, GoodKnown DEF Count, Outstanding, Flow
<1>4. Dist(s.va, u.va) = 0
  BY <1>1, <1>2, GoodKnown, DistType
<1>5. Owes(s, u, m)
  BY <1>1, <1>2, <1>3, <1>4 DEF Owes
<1> QED BY <1>1, <1>2, <1>5 DEF u

\* What a supervisory frame leaves.
\* The lemmas on these calls serve from here on.
HIDE DEF Warn, Ask, AddT200, AddT203, start_t200, restart_t200, stop_t200,
        RestartT203, DelT203, FsmChangeState, set_peer_busy, clear_peer_busy, clear_exception,
        freewin, PurgeI, PurgeUI, ResetVars, Send, AddTxCnt, enqueue_super, send_uframe,
        l2_send_UA, l2_send_DM, enquiry_cr, enquiry_response, transmit_enquiry, L2L3, Tell,
        lapb_dl_release_l2l3, st5_dl_release_l2l3, tx_ui, GotNr

SuperOwes(s, t, ds) == Owes(s, t, Woken(s, t.va, ds)) /\ t.vr = s.vr

LEMMA CountedSuper ==
    ASSUME NEW s, Good(s), s.st \in {7, 8}, NEW t, NEW ds, Written(ds), Counted(s, t, 0, ds)
    PROVE  SuperOwes(s, t, ds)
<1>1. Owes(s, t, 0 + Woken(s, t.va, ds)) /\ t.vr = s.vr /\ Woken(s, t.va, ds) \in Nat
  BY CountedOwes, WokenType
<1> QED BY <1>1 DEF SuperOwes

LEMMA RecoverySuper ==
    ASSUME NEW s, Good(s), s.st \in {7, 8}, NEW t, Flow(s, t, 0), NEW ds
    PROVE  SuperOwes(s, nrerrorrecovery(t), ds)
<1> DEFINE u == nrerrorrecovery(t)
<1>1. Owes(s, u, 0) /\ u.vr = s.vr /\ u.va = s.va
  BY RecoveryOwes DEF nrerrorrecovery
<1> HIDE DEF u
<1>2. Woken(s, u.va, ds) = 0
  BY <1>1 DEF Woken
<1> QED BY <1>1, <1>2 DEF SuperOwes, u

LEMMA Super7Owes ==
    ASSUME NEW s, Good(s), s.st = 7, NEW f, Numbered(f), NEW ds, Written(ds)
    PROVE  SuperOwes(s, l2_st7_got_super(s, f, ds), ds)
<1> DEFINE s1 == GotNr(s, f)
           s2 == IF ~f.pf THEN s1
                 ELSE IF f.rsp THEN Ask(s1, "A") ELSE enquiry_response(s1)
           v == setva(s2, f.nr, ds)
           i == invoke_retransmission(v, f.nr)
           s3 == IF f.t = "REJ" THEN RestartT203(stop_t200(i))
                 ELSE IF f.t = "RR" /\ f.nr = s2.vs THEN RestartT203(stop_t200(v))
                 ELSE IF f.nr # s2.va \/ f.t = "RNR"
                 THEN restart_t200(IF f.t = "RR" THEN v ELSE DelT203(v))
                 ELSE s2
<1>1. l2_st7_got_super(s, f, ds) =
          IF ~legalnr(s2, f.nr) THEN nrerrorrecovery(s2)
          ELSE IF f.t = "RR" /\ s3.iq # <<>> THEN PullRequest(s3) ELSE s3
  BY DEF l2_st7_got_super
<1>2. f.nr \in SeqNo
  BY DEF Numbered
<1>3. Calm(s, s1)
  BY CalmCall
<1>4. Good(s1)
  BY <1>3 DEF Calm
<1> HIDE DEF s1
<1>5. Calm(s1, s2)
  BY <1>4, CalmCall, CalmRefl DEF Requests
<1>6. Calm(s, s2)
  BY <1>3, <1>5, CalmTrans
<1> HIDE DEF s2
<1>7. Flow(s, s2, 0) /\ Good(s2) /\ s2.st = 7
  BY <1>6, CalmFlow
<1>8. ASSUME ~legalnr(s2, f.nr) PROVE SuperOwes(s, nrerrorrecovery(s2), ds)
  BY <1>7, RecoverySuper
<1>9. CASE legalnr(s2, f.nr)
  <2>1. Counted(s2, v, 0, ds) /\ Good(v) /\ v.va = f.nr
    BY <1>2, <1>7, <1>9, SetvaCounted, SetvaGood
  <2>2. legalnr(v, f.nr)
    BY <1>2, <2>1, LegalSelf
  <2> HIDE DEF v
  <2>3. Flow(v, i, 0) /\ Good(i)
    BY <1>2, <2>1, <2>2, InvokeFlow, FlowGood
  <2> HIDE DEF i
  <2>4. Counted(s2, i, 0, ds)
    BY <1>7, <2>1, <2>3, CountedThen
  <2>5. Flow(i, RestartT203(stop_t200(i)), 0)
    BY <2>3, CalmTimer, CalmFlow
  <2>6. /\ Flow(v, RestartT203(stop_t200(v)), 0) /\ Flow(v, restart_t200(v), 0)
        /\ Flow(v, restart_t200(DelT203(v)), 0)
    BY <2>1, CalmTimer, CalmFlow
  <2>7. Counted(s2, s2, 0, ds)
    BY <1>7, FlowRefl, FlowCounted
  <2>8. Counted(s2, RestartT203(stop_t200(i)), 0, ds)
    BY <1>7, <2>4, <2>5, CountedThen
  <2>9. /\ Counted(s2, RestartT203(stop_t200(v)), 0, ds) /\ Counted(s2, restart_t200(v), 0, ds)
        /\ Counted(s2, restart_t200(DelT203(v)), 0, ds)
    BY <1>7, <2>1, <2>6, CountedThen
  <2>10. Counted(s2, s3, 0, ds)
    BY <2>7, <2>8, <2>9
  <2> HIDE DEF s3
  <2>11. Good(s3)
    BY <2>10, CountedGood
  <2>12. Flow(s3, PullRequest(s3), 0)
    BY <2>11, PullRequestFlow
  <2>13. Counted(s2, PullRequest(s3), 0, ds)
    BY <1>7, <2>10, <2>12, CountedThen
  <2>14. Counted(s, s3, 0, ds) /\ Counted(s, PullRequest(s3), 0, ds)
    BY <1>7, <2>10, <2>13, ThenCounted
  <2>15. SuperOwes(s, s3, ds) /\ SuperOwes(s, PullRequest(s3), ds)
    BY <2>14, CountedSuper
  <2> QED BY <1>1, <1>9, <2>15
<1> QED BY <1>1, <1>8, <1>9

LEMMA ChangeFlow ==
    ASSUME NEW s, Good(s), NEW n \in {7, 8}
    PROVE  Flow(s, FsmChangeState(s, n), 0)
<1> DEFINE t == FsmChangeState(s, n)
<1>1. Good(t) /\ t.st = n
  <2>1. n \in 1 .. 8 /\ Sane(s)
    BY GoodType
  <2> HIDE DEF FsmChangeState
  <2> QED BY <2>1, OkChangeState
<1>2. /\ Link(s, t) /\ t.va = s.va /\ t.vs = s.vs /\ t.vr = s.vr /\ t.iq = s.iq
      /\ t.pendRel = s.pendRel
  BY GoodKnown DEF FsmChangeState
<1> HIDE DEF t
<1>3. Count(t) = Count(s) /\ Count(s) \in Nat
  BY <1>2, GoodKnown DEF Count, Outstanding
<1>4. Flow(s, t, 0)
  BY <1>1, <1>2, <1>3 DEF Flow, Open
<1> QED BY <1>4 DEF t

LEMMA Super8Owes ==
    ASSUME NEW s, Good(s), s.st = 8, NEW f, Numbered(f), NEW ds, Written(ds)
    PROVE  SuperOwes(s, l2_st8_got_super(s, f, ds), ds)
<1> DEFINE s1 == GotNr(s, f)
           a == restart_t200(s1)
           b == AddT203(stop_t200(s1))
           s2 == IF f.t = "RNR" THEN a ELSE setva(b, f.nr, ds)
           i == invoke_retransmission(s2, f.nr)
           s3 == FsmChangeState(i, 7)
           s4 == IF f.pf /\ ~f.rsp THEN enquiry_response(s1) ELSE s1
           v == setva(s4, f.nr, ds)
<1>1. l2_st8_got_super(s, f, ds) =
          IF ~legalnr(s1, f.nr) THEN nrerrorrecovery(s4)
          ELSE IF f.pf /\ f.rsp THEN PullIfWaiting(s3) ELSE v
  BY DEF l2_st8_got_super
<1>2. f.nr \in SeqNo
  BY DEF Numbered
<1>3. Calm(s, s1)
  BY CalmCall
<1>4. Good(s1)
  BY <1>3 DEF Calm
<1> HIDE DEF s1
<1>5. Calm(s1, s4) /\ Calm(s1, a) /\ Calm(s1, b)
  BY <1>4, CalmCall, CalmRefl, CalmTimer
<1>6. Calm(s, s4) /\ Calm(s, a) /\ Calm(s, b)
  BY <1>3, <1>5, CalmTrans
<1> HIDE DEF s4, a, b
<1>7. /\ Flow(s, s4, 0) /\ Good(s4) /\ s4.st = 8
      /\ Flow(s, a, 0) /\ Good(a) /\ a.st = 8
      /\ Flow(s, b, 0) /\ Good(b) /\ b.st = 8
  BY <1>6, CalmFlow
<1>8. SuperOwes(s, nrerrorrecovery(s4), ds)
  BY <1>7, RecoverySuper
<1>9. CASE legalnr(s1, f.nr)
  <2>1. legalnr(s4, f.nr) /\ legalnr(a, f.nr) /\ legalnr(b, f.nr)
    BY <1>4, <1>5, <1>9, CalmFlow
  <2>2. Counted(s4, v, 0, ds)
    BY <1>2, <1>7, <2>1, SetvaCounted
  <2> HIDE DEF v
  <2>3. Counted(s, v, 0, ds)
    BY <1>7, <2>2, ThenCounted
  <2>4. Counted(s, s2, 0, ds) /\ legalnr(s2, f.nr)
    <3>1. Counted(s, a, 0, ds)
      BY <1>7, FlowCounted
    <3>2. Counted(b, setva(b, f.nr, ds), 0, ds)
      BY <1>2, <1>7, <2>1, SetvaCounted
    <3>3. Good(setva(b, f.nr, ds)) /\ setva(b, f.nr, ds).va = f.nr
      BY <1>2, <1>7, <2>1, SetvaGood
    <3>4. Counted(s, setva(b, f.nr, ds), 0, ds)
      BY <1>7, <3>2, ThenCounted
    <3>5. legalnr(setva(b, f.nr, ds), f.nr)
      BY <1>2, <3>3, LegalSelf
    <3> QED BY <2>1, <3>1, <3>4, <3>5
  <2> HIDE DEF s2
  <2>5. Good(s2)
    BY <2>4, CountedGood
  <2>6. Flow(s2, i, 0) /\ Good(i)
    BY <1>2, <2>4, <2>5, InvokeFlow, FlowGood
  <2> HIDE DEF i
  <2>7. Flow(i, s3, 0) /\ Good(s3)
    BY <2>6, ChangeFlow, FlowGood
  <2> HIDE DEF s3
  <2>8. Flow(s3, PullIfWaiting(s3), 0)
    BY <2>7, PullRequestFlow
  <2>9. Counted(s, i, 0, ds)
    BY <2>4, <2>6, CountedThen
  <2>10. Counted(s, s3, 0, ds)
    BY <2>7, <2>9, CountedThen
  <2>11. Counted(s, PullIfWaiting(s3), 0, ds)
    BY <2>8, <2>10, CountedThen
  <2>12. SuperOwes(s, v, ds) /\ SuperOwes(s, PullIfWaiting(s3), ds)
    BY <2>3, <2>11, CountedSuper
  <2> QED BY <1>1, <1>9, <2>12
<1> QED BY <1>1, <1>8, <1>9

\* What l2_got_iframe does with N(R), after the information part.
Rest(s1, f, ds) ==
    LET s2 == IF s1.peerBusy \/ s1.st # 7 THEN s1
              ELSE IF f.nr = s1.vs THEN RestartT203(stop_t200(s1))
              ELSE IF f.nr # s1.va THEN restart_t200(s1) ELSE s1
        s3 == setva(s2, f.nr, ds)
        s4 == IF s3.iq # <<>> /\ s3.st = 7 THEN PullRequest(s3) ELSE s3
    IN  IF ~legalnr(s1, f.nr) THEN nrerrorrecovery(s1)
        ELSE IF s4.ackPend
        THEN enquiry_cr([s4 EXCEPT !.ackPend = FALSE], "RR", TRUE, FALSE)
        ELSE s4

\* What an I frame leaves, when m frames were written in the delivery.
InfoOwes(s, t, m, ds) == Owes(s, t, m + Woken(s, t.va, ds))

LEMMA RestOwes ==
    ASSUME NEW s, Good(s), s.st \in {7, 8}, NEW s1, NEW m \in Nat, Flow(s, s1, m),
           NEW f, Numbered(f), NEW ds, Written(ds)
    PROVE  LET t == Rest(s1, f, ds) IN InfoOwes(s, t, m, ds) /\ t.vr = s.vr
<1> DEFINE s2 == IF s1.peerBusy \/ s1.st # 7 THEN s1
                 ELSE IF f.nr = s1.vs THEN RestartT203(stop_t200(s1))
                 ELSE IF f.nr # s1.va THEN restart_t200(s1) ELSE s1
           s3 == setva(s2, f.nr, ds)
           s4 == IF s3.iq # <<>> /\ s3.st = 7 THEN PullRequest(s3) ELSE s3
           s5 == [s4 EXCEPT !.ackPend = FALSE]
           s6 == enquiry_cr(s5, "RR", TRUE, FALSE)
<1>1. Rest(s1, f, ds) = IF ~legalnr(s1, f.nr) THEN nrerrorrecovery(s1)
                        ELSE IF s4.ackPend THEN s6 ELSE s4
  BY DEF Rest
<1>2. f.nr \in SeqNo
  BY DEF Numbered
<1>3. Good(s1) /\ s1.st \in {7, 8}
  BY DEF Flow, Open
<1>4. LET t == nrerrorrecovery(s1) IN InfoOwes(s, t, m, ds) /\ t.vr = s.vr
  <2> DEFINE t == nrerrorrecovery(s1)
  <2>1. Owes(s, t, m) /\ t.vr = s.vr /\ t.va = s.va
    BY RecoveryOwes DEF nrerrorrecovery
  <2> HIDE DEF t
  <2>2. Woken(s, t.va, ds) = 0
    BY <2>1 DEF Woken
  <2>3. m + 0 = m
    OBVIOUS
  <2>4. InfoOwes(s, t, m, ds)
    BY <2>1, <2>2, <2>3 DEF InfoOwes
  <2> QED BY <2>1, <2>4 DEF t
<1>5. CASE legalnr(s1, f.nr)
  <2>1. Calm(s1, s2)
    BY <1>3, CalmTimer, CalmRefl
  <2> HIDE DEF s2
  <2>2. Flow(s1, s2, 0) /\ Good(s2) /\ s2.st \in {7, 8} /\ legalnr(s2, f.nr)
    BY <1>3, <1>5, <2>1, CalmFlow
  <2>3. Counted(s2, s3, 0, ds) /\ Good(s3)
    BY <1>2, <2>2, SetvaCounted, CountedGood
  <2> HIDE DEF s3
  <2>4. Flow(s3, s4, 0) /\ Good(s4)
    BY <2>3, PullRequestFlow, FlowRefl, FlowGood
  <2> HIDE DEF s4
  <2>5. Flow(s4, s5, 0) /\ Good(s5)
    BY <2>4, CalmCall, CalmFlow
  <2> HIDE DEF s5
  <2>6. Flow(s5, s6, 0)
    BY <2>5, CalmCall, CalmFlow
  <2> HIDE DEF s6
  <2>7. Counted(s2, s4, 0, ds)
    BY <2>2, <2>3, <2>4, CountedThen
  <2>8. Counted(s2, s5, 0, ds)
    BY <2>2, <2>5, <2>7, CountedThen
  <2>9. Counted(s2, s6, 0, ds)
    BY <2>2, <2>6, <2>8, CountedThen
  <2>10. Counted(s1, s4, 0, ds) /\ Counted(s1, s6, 0, ds)
    BY <1>3, <2>2, <2>7, <2>9, ThenCounted
  <2>11. Counted(s, s4, m, ds) /\ Counted(s, s6, m, ds)
    BY <2>10, ThenCounted
  <2>12. /\ InfoOwes(s, s4, m, ds) /\ s4.vr = s.vr
         /\ InfoOwes(s, s6, m, ds) /\ s6.vr = s.vr
    BY <2>11, CountedOwes DEF InfoOwes
  <2> QED BY <1>1, <1>5, <2>12
<1> QED BY <1>1, <1>4, <1>5

LEMMA IframeRest ==
    ASSUME NEW s, NEW f, NEW reply, NEW ds
    PROVE  l2_got_iframe(s, f, reply, ds) =
               Rest(IF s.vr = f.ns THEN Accept(s, f, reply) ELSE Reject(s, f), f, ds)
BY DEF l2_got_iframe, Rest

LEMMA RejectCalm ==
    ASSUME NEW s, Good(s), NEW f, f.pf \in BOOLEAN
    PROVE  Calm(s, Reject(s, f))
<1>1. Good(Reject(s, f))
  BY RejectGood
<1>2. Still(s, Reject(s, f))
  BY GoodKnown DEF Reject, Still, enquiry_cr, enquiry_response, enqueue_super, Send, AddTxCnt
<1> QED BY <1>1, <1>2 DEF Calm

\* V(R) after a frame in sequence.
Taken(s) == [s EXCEPT !.vr = Inc(@), !.rejExc = FALSE]

LEMMA AcceptFlow ==
    ASSUME NEW s, Good(s), s.st \in {7, 8}, NEW f, f.d \in Data, f.pf \in BOOLEAN,
           NEW reply, Written(reply)
    PROVE  LET a == Taken(s)
               t == Accept(s, f, reply)
           IN  /\ Good(a) /\ a.st = s.st /\ a.va = s.va /\ a.l1Activ = s.l1Activ
               /\ Count(a) = Count(s)
               /\ Flow(a, t, Len(reply)) /\ Len(reply) \in {0, 1}
<1> DEFINE a == Taken(s)
           b == IF f.pf THEN enquiry_response(a) ELSE [a EXCEPT !.ackPend = TRUE]
           c == L2L3(b, "DL_DATA_IND", f.d)
           t == Refill(c, reply)
<1>1. Accept(s, f, reply) = t
  BY DEF Accept, Taken
<1>2. Good(a)
  BY GoodType, GoodSame, SameIncVr DEF Taken
<1>3. a.st = s.st /\ a.va = s.va /\ a.l1Activ = s.l1Activ /\ a.vs = s.vs /\ a.iq = s.iq
  BY GoodKnown DEF Taken
<1> HIDE DEF a
<1>4. Calm(a, b)
  BY <1>2, CalmCall
<1>5. Good(b) /\ Flow(a, b, 0)
  BY <1>2, <1>4, CalmFlow
<1> HIDE DEF b
<1>6. /\ Good(c) /\ Link(b, c) /\ c.st = b.st /\ c.va = b.va /\ c.vs = b.vs /\ c.vr = b.vr
      /\ c.iq = b.iq /\ c.pendRel = b.pendRel
  <2>1. Good(c)
    BY <1>5, GoodType, GoodSame, SameDeliver
  <2>2. /\ Link(b, c) /\ c.st = b.st /\ c.va = b.va /\ c.vs = b.vs /\ c.vr = b.vr
        /\ c.iq = b.iq /\ c.pendRel = b.pendRel
    BY <1>5, GoodKnown DEF L2L3
  <2> QED BY <2>1, <2>2
<1> HIDE DEF c
<1>7. c.st \in {7, 8}
  BY <1>3, <1>5, <1>6 DEF Flow, Open
<1>8. Flow(c, t, Len(reply)) /\ Len(reply) \in {0, 1}
  BY <1>6, <1>7, RefillFlow
<1> HIDE DEF t
<1>9. Count(c) = Count(b) /\ Count(b) = Count(a) /\ Count(a) = Count(s) /\ Count(s) \in Nat
  BY <1>3, <1>5, <1>6, GoodKnown DEF Flow, Count, Outstanding
<1>10. Flow(a, t, Len(reply))
  BY <1>5, <1>6, <1>7, <1>8, <1>9 DEF Flow, Open
<1> QED BY <1>1, <1>2, <1>3, <1>8, <1>9, <1>10 DEF a

\* What layer 3 wrote in a step: a reply to a delivery, and when it was woken.
FedBy(s, t, reply, ds) ==
    (IF t.vr # s.vr THEN Len(reply) ELSE 0) + Woken(s, t.va, ds)

LEMMA IframeOwes ==
    ASSUME NEW s, Good(s), s.st \in {7, 8}, NEW f, Numbered(f), f.d \in Data,
           NEW reply, Written(reply), NEW ds, Written(ds)
    PROVE  LET t == l2_got_iframe(s, f, reply, ds)
           IN  Owes(s, t, FedBy(s, t, reply, ds))
<1> DEFINE a == Taken(s)
           u == Accept(s, f, reply)
           r == Reject(s, f)
<1>0. f.pf \in BOOLEAN
  BY DEF Numbered
<1>1. CASE s.vr = f.ns
  <2> DEFINE t == Rest(u, f, ds)
  <2>1. /\ Good(a) /\ a.st = s.st /\ a.va = s.va /\ a.l1Activ = s.l1Activ
        /\ Count(a) = Count(s)
        /\ Flow(a, u, Len(reply)) /\ Len(reply) \in {0, 1}
    BY <1>0, AcceptFlow
  <2>2. l2_got_iframe(s, f, reply, ds) = t
    BY <1>1, IframeRest
  <2> HIDE DEF a, u
  <2>3. InfoOwes(a, t, Len(reply), ds)
    BY <2>1, RestOwes
  <2> HIDE DEF t
  <2>4. Woken(a, t.va, ds) = Woken(s, t.va, ds) /\ Woken(s, t.va, ds) \in Nat
    BY <2>1, WokenType DEF Woken
  <2>5. Owes(s, t, Len(reply) + Woken(s, t.va, ds))
    BY <2>1, <2>3, <2>4 DEF InfoOwes, Owes
  <2>6. Owes(s, t, 0 + Woken(s, t.va, ds))
    <3>1. Count(s) \in Nat
      BY GoodKnown
    <3> DEFINE x == Count(t) + Dist(s.va, t.va)
               c == Count(s)
               w == Woken(s, t.va, ds)
    <3>2. x >= c + (Len(reply) + w)
      BY <2>5 DEF Owes
    <3>3. CASE Len(reply) = 0
      BY <2>5, <3>3
    <3>4. CASE Len(reply) = 1
      <4>1. Sane(t) /\ t.va \in SeqNo /\ t.vs \in SeqNo /\ Len(t.iq) \in Nat
        <5>1. Safe(t)
          BY <2>2, Safe_l2_got_iframe
        <5>2. t \in L2State
          BY <5>1, SafeSt
        <5>3. t.iq \in Seq(Data) /\ t.va \in SeqNo /\ t.vs \in SeqNo
          BY <5>2 DEF L2State
        <5> QED BY <5>1, <5>3, SafeSt
      <4>2. x \in Int
        <5>1. s.va \in SeqNo
          BY GoodKnown
        <5>2. Dist(s.va, t.va) \in 0 .. Mod - 1 /\ Dist(t.va, t.vs) \in 0 .. Mod - 1
          BY <4>1, <5>1, DistType
        <5> QED BY <4>1, <5>2, L2Assumption DEF Count, Outstanding
      <4> HIDE DEF x, c, w
      <4>3. c \in Nat /\ w \in Nat
        BY <2>4, <3>1 DEF c, w
      <4>4. x >= c + (0 + w)
        BY <3>2, <3>4, <4>2, <4>3
      <4> QED BY <2>5, <4>4 DEF x, c, w, Owes
    <3> QED BY <2>1, <3>3, <3>4
  <2> QED BY <2>2, <2>5, <2>6 DEF FedBy
<1>2. CASE s.vr # f.ns
  <2> DEFINE t == Rest(r, f, ds)
  <2>1. Flow(s, r, 0)
    BY <1>0, RejectCalm, CalmFlow
  <2>2. l2_got_iframe(s, f, reply, ds) = t
    BY <1>2, IframeRest
  <2> HIDE DEF r
  <2>3. InfoOwes(s, t, 0, ds) /\ t.vr = s.vr
    BY <2>1, RestOwes
  <2> HIDE DEF t
  <2> QED BY <2>2, <2>3 DEF FedBy, InfoOwes
<1> QED BY <1>1, <1>2

-----------------------------------------------------------------------------
(* Every other event *)

USE DEF Warn, Ask, AddT200, AddT203, start_t200, restart_t200, stop_t200,
        RestartT203, DelT203, FsmChangeState, set_peer_busy, clear_peer_busy, clear_exception,
        freewin, PurgeI, PurgeUI, ResetVars, Send, AddTxCnt, enqueue_super, send_uframe,
        l2_send_UA, l2_send_DM, enquiry_cr, enquiry_response, transmit_enquiry, L2L3, Tell,
        lapb_dl_release_l2l3, st5_dl_release_l2l3, tx_ui, GotNr

\* Layer 3 was told of the link, or not.
Says(t) == \E p \in UpPrims \cup DownPrims : t.up = One(p)
Mum(t) == t.up = <<>> \/ t.up = One("DL_UNIT_DATA_IND")

LEMMA SaysLink == ASSUME NEW t, Says(t) PROVE LinkPrims(t) # {}
<1>1. PICK p \in UpPrims \cup DownPrims : t.up = One(p)
  BY DEF Says
<1>2. Len(t.up) = 1 /\ t.up[1].p = p
  BY <1>1 DEF One
<1>3. 1 \in LinkPrims(t)
  BY <1>1, <1>2 DEF LinkPrims
<1> QED BY <1>3

LEMMA MumLink == ASSUME NEW t, Mum(t) PROVE LinkPrims(t) = {}
<1>1. CASE t.up = <<>>
  BY <1>1 DEF LinkPrims
<1>2. CASE t.up = One("DL_UNIT_DATA_IND")
  <2>1. Len(t.up) = 1 /\ t.up[1].p = "DL_UNIT_DATA_IND"
    BY <1>2 DEF One
  <2> QED BY <2>1 DEF LinkPrims, UpPrims, DownPrims
<1> QED BY <1>1, <1>2 DEF Mum

\* Between two steps.
At(s) == Safe(s) /\ s.up = <<>>

(***************************************************************************)
(* Where a step that starts in s may end, when layer 3 wrote n frames:     *)
(* from multi-frame operation, what is owed is kept unless layer 3 is told *)
(* or the link is on its way down, or set up anew for layer 3; while a     *)
(* link is set up the queue is kept too, and the variables that tell       *)
(* l2_connected whether frames were lost.                                  *)
(***************************************************************************)
FromUp(s, t, n) == Says(t) \/ t.st = 6 \/ (t.st = 5 /\ t.l3Init) \/ Owes(s, t, n)

Waits(s, t, n) ==
    /\ t.st = 5 /\ Mum(t)
    /\ \/ t.l3Init
       \/ ~s.l3Init /\ t.va = s.va /\ t.vs = s.vs /\ Len(t.iq) = Len(s.iq) + n
Opens(s, t, n) ==
    /\ t.st = 7 /\ n = 0 /\ s.vs = s.va /\ ~s.l3Init
    /\ s.pendRel \/ Count(t) + Dist(s.va, t.va) >= Len(s.iq)
FromFive(s, t, n) == (Says(t) /\ t.st # 5) \/ Waits(s, t, n) \/ Opens(s, t, n)

Bears(s, t, n) ==
    /\ s.st \in {7, 8} => FromUp(s, t, n)
    /\ s.st = 5 => FromFive(s, t, n)
    /\ s.st = 6 => Says(t) \/ t.st = 6
    /\ s.st \notin {5, 7, 8} => n = 0
Fares(s, t, n) ==
    /\ Link(s, t) /\ Bears(s, t, n)
    /\ t.st = 5 /\ t.pendRel => s.st = 5 /\ s.pendRel

\* A link that is down stays down.
Down(s, t) == s.st \in {1, 2, 4} => t.st \in {1, 2, 4}

\* A call that moves nothing.
Steady(s, t) ==
    /\ Link(s, t) /\ t.st = s.st /\ t.va = s.va /\ t.vs = s.vs /\ t.iq = s.iq
    /\ t.l3Init = s.l3Init /\ t.pendRel = s.pendRel /\ Mum(t)

LEMMA AtKnown ==
    ASSUME NEW s, At(s)
    PROVE  /\ Known(s) /\ s \in L2State /\ Sane(s) /\ s.st \in 1 .. 8
           /\ s.l3Init \in BOOLEAN /\ s.pendRel \in BOOLEAN /\ s.l1Activ \in BOOLEAN
           /\ s.va \in SeqNo /\ s.vs \in SeqNo /\ s.iq \in Seq(Data) /\ Len(s.iq) \in Nat
           /\ s.up = <<>> /\ (s.st \in {7, 8} => Good(s))
<1>1. s \in L2State /\ Sane(s) /\ (s.st \in {7, 8} => Good(s)) /\ s.up = <<>>
  BY SafeSt DEF At
<1>2. Known(s)
  BY <1>1 DEF L2State
<1>3. /\ s.st \in 1 .. 8 /\ s.l3Init \in BOOLEAN /\ s.pendRel \in BOOLEAN
      /\ s.l1Activ \in BOOLEAN /\ s.va \in SeqNo /\ s.vs \in SeqNo /\ s.iq \in Seq(Data)
  BY <1>1 DEF L2State
<1> QED BY <1>1, <1>2, <1>3

LEMMA KeepOwes ==
    ASSUME NEW s, Good(s), NEW t, Link(s, t), t.st \in {5, 7, 8}, t.st = 5 => ~t.pendRel,
           t.va = s.va, t.vs = s.vs, t.iq = s.iq
    PROVE  Owes(s, t, 0)
<1>1. Count(t) = Count(s) /\ Count(s) \in Nat /\ Dist(s.va, t.va) = 0
  BY GoodKnown, DistType DEF Count, Outstanding
<1> QED BY <1>1 DEF Owes

LEMMA SteadyFares ==
    ASSUME NEW s, At(s), NEW t, Steady(s, t)
    PROVE  Fares(s, t, 0) /\ Down(s, t)
<1>1. ASSUME s.st \in {7, 8} PROVE Owes(s, t, 0)
  <2>1. Good(s)
    BY <1>1, AtKnown
  <2> QED BY <1>1, <2>1, KeepOwes DEF Steady
<1>2. s.st = 5 => Waits(s, t, 0)
  BY AtKnown DEF Steady, Waits
<1> QED BY <1>1, <1>2 DEF Bears, Steady, Fares, FromUp, FromFive, Down

LEMMA EndFares ==
    ASSUME NEW s, NEW t, Link(s, t), Says(t), t.st # 5
    PROVE  Fares(s, t, 0)
BY DEF Bears, Fares, FromUp, FromFive

LEMMA AnewFares ==
    ASSUME NEW s, NEW t, Link(s, t), t.st = 5, t.l3Init, ~t.pendRel, s.st # 6,
           s.st = 5 => Mum(t)
    PROVE  Fares(s, t, 0)
BY DEF Bears, Fares, FromUp, FromFive, Waits

LEMMA AgainFares ==
    ASSUME NEW s, At(s), s.st \in {7, 8}, NEW r
    PROVE  Fares(s, Reestablish(Ask(s, r)), 0) /\ Down(s, Reestablish(Ask(s, r)))
<1> DEFINE t == Reestablish(Ask(s, r))
<1>1. /\ Link(s, t) /\ t.st = 5 /\ ~t.pendRel /\ t.vs = s.vs /\ t.va = s.va /\ t.iq = s.iq
  BY AtKnown, ReestablishAsk
<1> HIDE DEF t
<1>2. Owes(s, t, 0)
  BY <1>1, AtKnown, KeepOwes
<1>3. Fares(s, t, 0) /\ Down(s, t)
  BY <1>1, <1>2 DEF Bears, Fares, FromUp, Down
<1> QED BY <1>3 DEF t

LEMMA SteadyCalls ==
    ASSUME NEW s, At(s), NEW pf
    PROVE  /\ Steady(s, s) /\ \A r : Steady(s, Ask(s, r))
           /\ Steady(s, l2_send_UA(s, pf)) /\ Steady(s, l2_send_DM(s, pf))
           /\ Steady(s, l2_mdl_error_ua(s, pf))
<1>1. Steady(s, s)
  BY AtKnown DEF Steady, Mum
<1>2. ASSUME NEW r PROVE Steady(s, Ask(s, r))
  BY AtKnown DEF Steady, Mum
<1>3. Steady(s, l2_send_UA(s, pf))
  BY AtKnown DEF Steady, Mum
<1>4. Steady(s, l2_send_DM(s, pf))
  BY AtKnown DEF Steady, Mum
<1>5. Steady(s, l2_mdl_error_ua(s, pf))
  BY AtKnown DEF Steady, Mum, l2_mdl_error_ua
<1> HIDE DEF Ask, l2_send_UA, l2_send_DM
<1> QED BY <1>1, <1>2, <1>3, <1>4, <1>5

\* The pull keeps what was told.
LEMMA PullKeeps ==
    ASSUME NEW s, Known(s)
    PROVE  LET t == PullIfWaiting(s) IN Link(s, t) /\ t.st = s.st /\ t.up = s.up
<1>1. ASSUME NEW x, Known(x)
      PROVE  LET t == AckPull(x) IN Link(x, t) /\ t.st = x.st /\ t.up = x.up
  BY <1>1, PullLink DEF AckPull
<1>2. LET t == PullRequest(s) IN Link(s, t) /\ t.st = s.st /\ t.up = s.up
  <2> DEFINE a == [s EXCEPT !.pullReq = TRUE]
             b == [s EXCEPT !.pullReq = FALSE]
  <2>1. Link(s, a) /\ a.st = s.st /\ a.up = s.up
    OBVIOUS
  <2>2. Link(s, b) /\ b.st = s.st /\ b.up = s.up
    OBVIOUS
  <2>3. PullRequest(s) = IF s.txBusy THEN a ELSE AckPull(b)
    BY DEF PullRequest
  <2> HIDE DEF a, b
  <2>4. LET t == AckPull(b) IN Link(b, t) /\ t.st = b.st /\ t.up = b.up
    BY <1>1, <2>2
  <2> QED BY <2>1, <2>2, <2>3, <2>4
<1> QED BY <1>2 DEF PullIfWaiting

\* A link that opens with both counters at zero, before the pull.
LEMMA OpenedOwes ==
    ASSUME NEW s, s.va \in SeqNo, NEW h, Good(h), h.va = 0, h.vs = 0
    PROVE  LET t == PullIfWaiting(h)
           IN  /\ Link(h, t) /\ t.st = h.st
               /\ Count(t) + Dist(s.va, t.va) >= Len(h.iq)
<1> DEFINE t == PullIfWaiting(h)
<1>1. Flow(h, t, 0)
  BY PullRequestFlow
<1>2. Known(h)
  BY GoodKnown
<1>3. t.st = h.st
  BY <1>2, PullKeeps
<1> HIDE DEF t
<1>4. Count(h) = Len(h.iq) /\ Count(h) \in Nat
  <2>1. Outstanding(h) = 0
    BY Zero, DistType DEF Outstanding
  <2> QED BY <2>1, GoodKnown DEF Count
<1>5. Count(t) = Len(h.iq) /\ t.va = 0
  BY <1>1, <1>4 DEF Flow
<1>6. Dist(s.va, 0) \in Nat
  <2>1. Dist(s.va, 0) \in 0 .. Mod - 1
    BY Zero, DistType
  <2> QED BY <2>1, L2Assumption
<1> QED BY <1>1, <1>3, <1>4, <1>5, <1>6 DEF Flow, t

LEMMA RestartFares ==
    ASSUME NEW s, At(s), s.st \in {7, 8}, NEW pf \in BOOLEAN
    PROVE  Fares(s, l2_restart_multi(s, pf), 0)
<1> DEFINE a == Ask(send_uframe(s, "UA", TRUE, pf), "F")
           est == s.vs # s.va
           b == IF est THEN PurgeI(a) ELSE a
           c == clear_exception(b)
           d == ResetVars(c)
           e == FsmChangeState(d, 7)
           g == RestartT203(stop_t200(e))
           h == IF est THEN Tell(g, "DL_ESTABLISH_IND") ELSE g
           t == PullIfWaiting(h)
<1>1. l2_restart_multi(s, pf) = t
  BY DEF l2_restart_multi
<1>2. Known(s) /\ s.up = <<>> /\ Sane(s) /\ s.va \in SeqNo /\ Good(s)
  BY AtKnown
<1>3. /\ Link(s, a) /\ a.iq = s.iq /\ a.up = <<>>
  BY <1>2
<1>4. Sane(a)
  <2>1. Sane(send_uframe(s, "UA", TRUE, pf))
    BY <1>2, Ok_send_uframe, Zenon DEF Ok, UTypes
  <2> HIDE DEF send_uframe, Ask
  <2> QED BY <2>1, OkAsk DEF Ok, Requests
<1> HIDE DEF a
<1>5. /\ Link(s, c) /\ c.up = <<>> /\ (~est => c.iq = s.iq)
  BY <1>3
<1>6. Sane(c)
  <2>1. Sane(b)
    BY <1>4, OkPurgeI DEF Ok
  <2> HIDE DEF b, clear_exception
  <2> QED BY <2>1, Ok_clear_exception DEF Ok
<1> HIDE DEF c
<1>7. Link(s, e) /\ e.st = 7 /\ e.va = 0 /\ e.vs = 0 /\ e.up = <<>> /\ e.iq = c.iq
  BY <1>5
<1>8. Good(e)
  <2>1. Good(d)
    BY <1>6, GoodResetVars, Zenon
  <2> HIDE DEF d, FsmChangeState
  <2>2. Sane(d) /\ 7 \in 1 .. 8
    BY <2>1, GoodType
  <2> QED BY <2>1, <2>2, OkChangeState
<1> HIDE DEF e
<1>9. Link(s, g) /\ g.st = 7 /\ g.va = 0 /\ g.vs = 0 /\ g.up = <<>> /\ g.iq = e.iq /\ Good(g)
  <2> HIDE DEF RestartT203, stop_t200
  <2>1. Calm(e, g)
    BY <1>8, CalmTimer, Zenon
  <2> HIDE DEF g
  <2>2. Good(g)
    BY <2>1 DEF Calm
  <2>3. Link(e, g) /\ g.st = e.st /\ g.va = e.va /\ g.vs = e.vs /\ g.iq = e.iq /\ g.up = e.up
    BY <2>1 DEF Calm, Still
  <2> QED BY <1>7, <2>2, <2>3
<1> HIDE DEF g
<1>10. CASE est
  <2>1. Link(s, h) /\ h.st = 7 /\ h.up = One("DL_ESTABLISH_IND")
    BY <1>9, <1>10 DEF One
  <2> HIDE DEF h
  <2>2. Link(h, t) /\ t.st = h.st /\ t.up = h.up
    BY <2>1, PullKeeps
  <2> HIDE DEF t
  <2>3. Says(t)
    BY <2>1, <2>2 DEF Says, UpPrims
  <2> QED BY <1>1, <2>1, <2>2, <2>3, EndFares DEF t
<1>11. CASE ~est
  <2>1. h = g
    BY <1>11
  <2> HIDE DEF h
  <2>2. /\ Link(h, t) /\ t.st = h.st
        /\ Count(t) + Dist(s.va, t.va) >= Len(h.iq)
    BY <1>2, <1>9, <2>1, OpenedOwes
  <2>3. Count(s) = Len(s.iq) /\ Len(s.iq) \in Nat
    <3>1. Outstanding(s) = 0
      BY <1>2, <1>11, GoodKnown, DistType DEF Outstanding
    <3> QED BY <1>2, <3>1, GoodKnown DEF Count
  <2>4. Len(h.iq) = Count(s) + 0
    BY <1>5, <1>7, <1>9, <1>11, <2>1, <2>3
  <2> HIDE DEF t, est
  <2>5. Owes(s, t, 0) /\ Link(s, t) /\ t.st # 5
    BY <1>9, <2>1, <2>2, <2>4 DEF Owes
  <2>6. Fares(s, t, 0)
    BY <2>5 DEF Bears, Fares, FromUp
  <2> QED BY <1>1, <2>6 DEF t
<1> QED BY <1>10, <1>11

LEMMA ConnectedFares ==
    ASSUME NEW s, At(s), s.st = 5, NEW pf \in BOOLEAN
    PROVE  Fares(s, l2_connected(s, pf), 0)
<1>1. CASE ~pf
  <2>1. l2_connected(s, pf) = Ask(s, "D")
    BY <1>1 DEF l2_connected, l2_mdl_error_ua
  <2> QED BY <2>1, SteadyCalls, SteadyFares, Zenon
<1>2. CASE pf
  <2> DEFINE reset == ~s.l3Init /\ s.vs # s.va
             a == [s EXCEPT !.pendRel = FALSE]
             b == IF s.pendRel THEN l2_disconnect(a) ELSE s
             c == IF reset THEN PurgeI(b) ELSE [b EXCEPT !.l3Init = FALSE]
             d == stop_t200(c)
             e == ResetVars(d)
             f == FsmChangeState(e, 7)
             g == AddT203(f)
             h == CASE s.l3Init -> Tell(g, "DL_ESTABLISH_CNF")
                    [] reset -> Tell(g, "DL_ESTABLISH_IND")
                    [] OTHER -> g
             t == PullIfWaiting(h)
  <2>1. l2_connected(s, pf) = t
    BY <1>2 DEF l2_connected
  <2>2. /\ Known(s) /\ s.up = <<>> /\ Sane(s) /\ s.va \in SeqNo
        /\ s.l3Init \in BOOLEAN /\ s.pendRel \in BOOLEAN
    BY AtKnown
  <2>3. Link(s, b) /\ b.up = <<>> /\ (~s.pendRel => b.iq = s.iq)
    BY <2>2 DEF l2_disconnect
  <2>4. Sane(b)
    <3>1. Sane(a)
      BY <2>2, OkPendRel DEF Ok
    <3> HIDE DEF a
    <3> QED BY <2>2, <3>1, Safe_l2_disconnect
  <2> HIDE DEF a, b
  <2>5. Link(s, c) /\ c.up = <<>> /\ (~s.pendRel /\ ~reset => c.iq = s.iq)
    BY <2>3
  <2>6. Sane(c)
    <3> HIDE DEF PurgeI
    <3> QED BY <2>4, OkPurgeI, OkL3Init DEF Ok
  <2> HIDE DEF c
  <2>7. Link(s, f) /\ f.st = 7 /\ f.va = 0 /\ f.vs = 0 /\ f.up = <<>> /\ f.iq = c.iq
    BY <2>5
  <2>8. Good(f)
    <3>1. Sane(d)
      <4> HIDE DEF stop_t200
      <4> QED BY <2>6, Ok_stop_t200 DEF Ok
    <3> HIDE DEF d
    <3>2. Good(e)
      BY <3>1, GoodResetVars
    <3> HIDE DEF e, FsmChangeState
    <3>3. Sane(e) /\ 7 \in 1 .. 8
      BY <3>2, GoodType
    <3> QED BY <3>2, <3>3, OkChangeState
  <2> HIDE DEF f
  <2>9. Link(s, g) /\ g.st = 7 /\ g.va = 0 /\ g.vs = 0 /\ g.up = <<>> /\ g.iq = f.iq
    BY <2>7
  <2>10. Good(g)
    <3> HIDE DEF AddT203
    <3> QED BY <2>8, GoodType, OkAddT203, GoodOk
  <2> HIDE DEF g
  <2>11. CASE s.l3Init \/ reset
    <3>1. /\ Link(s, h) /\ h.st = 7
          /\ h.up = One("DL_ESTABLISH_CNF") \/ h.up = One("DL_ESTABLISH_IND")
      BY <2>9, <2>11 DEF One
    <3> HIDE DEF h
    <3>2. Link(h, t) /\ t.st = h.st /\ t.up = h.up
      BY <3>1, PullKeeps
    <3> HIDE DEF t
    <3>3. Says(t)
      BY <3>1, <3>2 DEF Says, UpPrims
    <3> QED BY <2>1, <3>1, <3>2, <3>3, EndFares DEF t
  <2>12. CASE ~s.l3Init /\ ~reset
    <3>1. h = g /\ s.vs = s.va
      BY <2>2, <2>12
    <3> HIDE DEF h
    <3>2. /\ Link(h, t) /\ t.st = h.st
          /\ Count(t) + Dist(s.va, t.va) >= Len(h.iq)
      BY <2>2, <2>9, <2>10, <3>1, OpenedOwes
    <3>3. t.st = 7
      BY <2>9, <3>1, <3>2
    <3> HIDE DEF t, reset
    <3>4. Opens(s, t, 0)
      BY <2>5, <2>7, <2>9, <2>12, <3>1, <3>2, <3>3 DEF Opens
    <3>5. Fares(s, t, 0)
      BY <2>9, <3>1, <3>2, <3>3, <3>4 DEF Bears, Fares, FromFive
    <3> QED BY <2>1, <3>5 DEF t
  <2> QED BY <2>11, <2>12
<1> QED BY <1>1, <1>2

\* The ends of a link, with the primitive that tells layer 3.
LEMMA EndsSay ==
    ASSUME NEW s, Known(s), s.up = <<>>, NEW pf
    PROVE  /\ Says(l2_start_multi(s, pf)) /\ Says(l2_stop_multi(s, pf))
           /\ Says(l2_st3_tei_remove(s))
           /\ Says(l2_st5_tei_remove(s)) /\ Says(l2_st6_tei_remove(s)) /\ Says(l2_tei_remove(s))
           /\ Says(l2_st5_persistant_da(s)) /\ Says(l2_st6_persistant_da(s))
           /\ Says(l2_persistant_da(s))
<1>1. Says(l2_start_multi(s, pf))
  BY DEF l2_start_multi, Says, UpPrims, One
<1>2. Says(l2_stop_multi(s, pf))
  BY DEF l2_stop_multi, Says, DownPrims, One
<1>3. Says(l2_st3_tei_remove(s))
  BY DEF l2_st3_tei_remove, Says, DownPrims, One
<1>4. Says(l2_st5_tei_remove(s))
  BY DEF l2_st5_tei_remove, Says, DownPrims, One
<1>5. Says(l2_st6_tei_remove(s))
  BY DEF l2_st6_tei_remove, Says, DownPrims, One
<1>6. Says(l2_tei_remove(s))
  BY DEF l2_tei_remove, Says, DownPrims, One
<1>7. Says(l2_st5_persistant_da(s))
  BY DEF l2_st5_persistant_da, Says, DownPrims, One
<1>8. Says(l2_st6_persistant_da(s))
  BY DEF l2_st6_persistant_da, Says, DownPrims, One
<1>9. Says(l2_persistant_da(s))
  BY DEF l2_persistant_da, Says, DownPrims, One
<1> QED BY <1>1, <1>2, <1>3, <1>4, <1>5, <1>6, <1>7, <1>8, <1>9

LEMMA ReleaseFares ==
    ASSUME NEW s, At(s), NEW pf \in BOOLEAN
    PROVE  /\ s.st = 5 => Fares(s, l2_st5_dm_release(s, pf), 0)
           /\ s.st = 6 => Fares(s, l2_released(s, pf), 0)
           /\ s.st = 6 => Fares(s, l2_st6_dm_release(s, pf), 0)
<1>1. Known(s) /\ s.up = <<>>
  BY AtKnown
<1>2. CASE ~pf
  <2>1. /\ l2_st5_dm_release(s, pf) = s /\ l2_st6_dm_release(s, pf) = s
        /\ l2_released(s, pf) = Ask(s, "D")
    BY <1>2 DEF l2_st5_dm_release, l2_st6_dm_release, l2_released, l2_mdl_error_ua
  <2> HIDE DEF Ask
  <2> QED BY <2>1, SteadyCalls, SteadyFares, Zenon
<1>3. CASE pf
  <2>1. LET t == l2_st5_dm_release(s, pf) IN Link(s, t) /\ t.st = 4 /\ Says(t)
    BY <1>1, <1>3 DEF l2_st5_dm_release, Says, DownPrims, One
  <2>2. LET t == l2_released(s, pf) IN Link(s, t) /\ t.st = 4 /\ Says(t)
    BY <1>1, <1>3 DEF l2_released, Says, DownPrims, One
  <2>3. LET t == l2_st6_dm_release(s, pf) IN Link(s, t) /\ t.st = 4 /\ Says(t)
    BY <1>1, <1>3 DEF l2_st6_dm_release, Says, DownPrims, One
  <2> QED BY <2>1, <2>2, <2>3, EndFares
<1> QED BY <1>2, <1>3

LEMMA FaresSABME ==
    ASSUME NEW s, At(s), NEW f, f.pf \in BOOLEAN
    PROVE  Fares(s, EvSABME(s, f), 0)
<1>1. Known(s) /\ s.up = <<>> /\ s.st \in 1 .. 8
  BY AtKnown
<1>2. Fares(s, s, 0) /\ Fares(s, l2_send_UA(s, f.pf), 0) /\ Fares(s, l2_send_DM(s, f.pf), 0)
  BY SteadyCalls, SteadyFares, Zenon
<1>3. Fares(s, l2_start_multi(s, f.pf), 0)
  BY <1>1, l2_start_multiLink, EndsSay, EndFares
<1>4. s.st \in {7, 8} => Fares(s, l2_restart_multi(s, f.pf), 0)
  BY RestartFares
<1> HIDE DEF l2_send_UA, l2_send_DM
<1> QED BY <1>1, <1>2, <1>3, <1>4 DEF EvSABME

LEMMA FaresDISC ==
    ASSUME NEW s, At(s), NEW f, f.pf \in BOOLEAN
    PROVE  Fares(s, EvDISC(s, f), 0)
<1>1. Known(s) /\ s.up = <<>> /\ s.st \in 1 .. 8
  BY AtKnown
<1>2. Fares(s, s, 0) /\ Fares(s, l2_send_UA(s, f.pf), 0) /\ Fares(s, l2_send_DM(s, f.pf), 0)
  BY SteadyCalls, SteadyFares
<1>3. Fares(s, l2_stop_multi(s, f.pf), 0)
  BY <1>1, l2_stop_multiLink, EndsSay, EndFares
<1> HIDE DEF l2_send_UA, l2_send_DM
<1> QED BY <1>1, <1>2, <1>3 DEF EvDISC

LEMMA FaresUA ==
    ASSUME NEW s, At(s), NEW f, f.pf \in BOOLEAN
    PROVE  Fares(s, EvUA(s, f), 0)
<1>1. s.st \in 1 .. 8
  BY AtKnown
<1>2. Fares(s, s, 0) /\ Fares(s, l2_mdl_error_ua(s, f.pf), 0)
  BY SteadyCalls, SteadyFares, Zenon
<1> QED BY <1>1, <1>2, ConnectedFares, ReleaseFares DEF EvUA

\* A new link from ST_L2_4.
LEMMA EstablishFares ==
    ASSUME NEW s, At(s), s.st \in {1, 2, 3, 4}
    PROVE  Fares(s, l2_establish(s), 0)
<1>1. LET t == l2_establish(s) IN Link(s, t) /\ t.st = 5 /\ ~t.pendRel
  BY AtKnown, l2_establishLink
<1> QED BY <1>1 DEF Bears, Fares

LEMMA FaresDM ==
    ASSUME NEW s, At(s), NEW f, f.pf \in BOOLEAN
    PROVE  Fares(s, EvDM(s, f), 0)
<1>1. s.st \in 1 .. 8
  BY AtKnown
<1>2. Fares(s, s, 0) /\ Fares(s, Ask(s, "B"), 0)
  BY SteadyCalls, SteadyFares, Zenon
<1>3. s.st = 4 => Fares(s, l2_reestablish(s, f.pf), 0)
  BY <1>2, EstablishFares DEF l2_reestablish
<1>4. s.st = 7 => Fares(s, l2_mdl_error_dm(s, f.pf), 0)
  <2> HIDE DEF Ask
  <2> QED BY <1>2, AgainFares DEF l2_mdl_error_dm
<1>5. s.st = 8 => Fares(s, l2_st8_mdl_error_dm(s, f.pf), 0)
  BY AgainFares DEF l2_st8_mdl_error_dm
<1> QED BY <1>1, <1>2, <1>3, <1>4, <1>5, ReleaseFares DEF EvDM

LEMMA FaresFRMR ==
    ASSUME NEW s, At(s), NEW rejected
    PROVE  Fares(s, EvFRMR(s, rejected), 0)
<1>1. Fares(s, s, 0)
  BY SteadyCalls, SteadyFares, Zenon
<1> HIDE DEF Ask
<1> QED BY <1>1, AgainFares DEF EvFRMR, l2_got_FRMR

LEMMA FaresUI ==
    ASSUME NEW s, At(s)
    PROVE  Fares(s, EvUI(s), 0)
<1>1. Steady(s, EvUI(s))
  BY AtKnown DEF EvUI, Steady, Mum, One
<1> QED BY <1>1, SteadyFares

LEMMA FaresFrameError ==
    ASSUME NEW s, At(s)
    PROVE  Fares(s, EvFrameError(s), 0)
<1>1. Fares(s, s, 0) /\ Fares(s, Ask(s, "L"), 0)
  BY SteadyCalls, SteadyFares, Zenon
<1> HIDE DEF Ask
<1> QED BY <1>1, AgainFares DEF EvFrameError

LEMMA FaresSuper ==
    ASSUME NEW s, At(s), s.st \in {7, 8}, NEW f, Numbered(f), NEW ds, Written(ds)
    PROVE  LET t == EvSuper(s, f, ds) IN Fares(s, t, FedBy(s, t, <<>>, ds))
<1> DEFINE t == EvSuper(s, f, ds)
<1>1. Good(s)
  BY AtKnown
<1>2. SuperOwes(s, t, ds)
  <2>1. CASE s.st = 7
    BY <1>1, <2>1, Super7Owes DEF EvSuper
  <2>2. CASE s.st = 8
    BY <1>1, <2>2, Super8Owes DEF EvSuper
  <2> QED BY <2>1, <2>2
<1> HIDE DEF t
<1>3. FedBy(s, t, <<>>, ds) = Woken(s, t.va, ds)
  BY <1>2, WokenType DEF SuperOwes, FedBy
<1>4. Fares(s, t, Woken(s, t.va, ds))
  BY <1>2 DEF Bears, SuperOwes, Fares, FromUp, Owes
<1> QED BY <1>3, <1>4 DEF t

LEMMA FaresI ==
    ASSUME NEW s, At(s), s.st \in {7, 8}, NEW f, Numbered(f), f.d \in Data,
           NEW reply, Written(reply), NEW ds, Written(ds)
    PROVE  LET t == EvI(s, f, reply, ds) IN Fares(s, t, FedBy(s, t, reply, ds))
<1> DEFINE t == EvI(s, f, reply, ds)
<1>1. Good(s)
  BY AtKnown
<1>2. Owes(s, t, FedBy(s, t, reply, ds))
  BY <1>1, IframeOwes DEF EvI
<1> HIDE DEF t
<1>3. Fares(s, t, FedBy(s, t, reply, ds))
  BY <1>2 DEF Bears, Fares, FromUp, Owes
<1> QED BY <1>3 DEF t

-----------------------------------------------------------------------------
(* Layer 3, TEI management, layer 1 and the timers *)

\* The same entity, but for fields that no frame depends on.
LEMMA SteadyFrom ==
    ASSUME NEW s, NEW u, Steady(s, u), NEW t, NEW n, Fares(u, t, n)
    PROVE  Fares(s, t, n) /\ (Down(u, t) => Down(s, t))
<1>1. Count(s) = Count(u)
  BY DEF Steady, Count, Outstanding
<1>2. Owes(u, t, n) => Owes(s, t, n)
  BY <1>1 DEF Steady, Owes
<1>3. FromUp(u, t, n) => FromUp(s, t, n)
  BY <1>2 DEF FromUp
<1>4. FromFive(u, t, n) => FromFive(s, t, n)
  BY DEF Steady, FromFive, Waits, Opens
<1> QED BY <1>3, <1>4 DEF Steady, Fares, Bears, Down

LEMMA AtSteady ==
    ASSUME NEW s, At(s), NEW t, Ok(s, t), t.up = s.up
    PROVE  At(t)
BY SafeOk DEF At

LEMMA FlowOwes ==
    ASSUME NEW s, Good(s), s.st \in {7, 8}, NEW t, NEW m \in Nat, Flow(s, t, m)
    PROVE  Owes(s, t, m)
<1>1. Count(t) = Count(s) + m /\ Count(s) \in Nat /\ Dist(s.va, t.va) = 0
  BY GoodKnown, DistType DEF Flow
<1> QED BY <1>1 DEF Flow, Open, Owes

LEMMA OwesFares ==
    ASSUME NEW s, s.st \in {7, 8}, NEW t, NEW n, Owes(s, t, n)
    PROVE  Fares(s, t, n) /\ Down(s, t)
BY DEF Fares, Bears, FromUp, Owes, Down

LEMMA FaresDlEstablish ==
    ASSUME NEW s, At(s)
    PROVE  LET t == EvDlEstablish(s)
           IN  /\ Fares(s, t, 0)
               /\ s.st \in {5, 7, 8} => t.st = 5 /\ t.l3Init /\ ~t.pendRel
<1> DEFINE t == EvDlEstablish(s)
<1>1. Known(s) /\ s.up = <<>> /\ s.st \in 1 .. 8
  BY AtKnown
<1>2. CASE s.st \in {1, 2}
  <2>1. Link(s, t) /\ t.st = 3
    BY <1>1, <1>2 DEF EvDlEstablish
  <2> HIDE DEF t
  <2>2. Fares(s, t, 0)
    BY <1>2, <2>1 DEF Bears, Fares
  <2> QED BY <1>2, <2>2 DEF t
<1>3. CASE s.st = 4
  <2>1. t = l2_establish(s)
    BY <1>3 DEF EvDlEstablish
  <2> QED BY <1>3, <2>1, EstablishFares
<1>4. CASE s.st = 5
  <2> DEFINE u == [PurgeI(s) EXCEPT !.l3Init = TRUE, !.pendRel = FALSE]
  <2>1. t = u
    BY <1>4 DEF EvDlEstablish
  <2>2. Link(s, u) /\ u.st = 5 /\ u.l3Init /\ ~u.pendRel /\ u.up = <<>>
    BY <1>1, <1>4
  <2> HIDE DEF t, u
  <2>3. Waits(s, u, 0)
    BY <2>2 DEF Waits, Mum
  <2>4. Fares(s, u, 0)
    BY <1>4, <2>2, <2>3 DEF Bears, Fares, FromFive
  <2> QED BY <2>1, <2>2, <2>4 DEF t
<1>5. CASE s.st \in {7, 8}
  <2>1. t = l2_l3_reestablish(s)
    BY <1>5 DEF EvDlEstablish
  <2>2. Link(s, t) /\ t.st = 5 /\ t.l3Init /\ ~t.pendRel
    BY <1>1, <2>1, l2_l3_reestablishLink
  <2> HIDE DEF t
  <2>3. Fares(s, t, 0)
    BY <1>5, <2>2, AnewFares
  <2> QED BY <2>2, <2>3 DEF t
<1>6. CASE s.st \in {3, 6}
  <2>1. t = s
    BY <1>6 DEF EvDlEstablish
  <2> HIDE DEF t
  <2>2. Fares(s, t, 0)
    BY <2>1, SteadyCalls, SteadyFares, Zenon
  <2> QED BY <1>6, <2>2 DEF t
<1> QED BY <1>1, <1>2, <1>3, <1>4, <1>5, <1>6

LEMMA FaresDlEstablishReq ==
    ASSUME NEW s, At(s)
    PROVE  LET t == DlEstablishReq(s)
           IN  /\ Fares(s, t, 0)
               /\ ~s.l1Activ => Down(s, t)
               /\ s.st \in {5, 7, 8} /\ s.l1Activ /\ (LAPD \/ s.orig) =>
                      t.st = 5 /\ t.l3Init /\ ~t.pendRel
<1> DEFINE m == LAPD \/ s.orig
           u == Ask([s EXCEPT !.estabPend = @ \/ m], "PH_ACTIVATE")
<1>1. DlEstablishReq(s) = IF s.l1Activ THEN IF m THEN EvDlEstablish(s) ELSE s ELSE u
  BY DEF DlEstablishReq
<1>2. Steady(s, u)
  BY AtKnown DEF Steady, Mum
<1> HIDE DEF u, m
<1>3. Fares(s, u, 0) /\ Down(s, u) /\ Fares(s, s, 0)
  BY <1>2, SteadyCalls, SteadyFares, Zenon
<1>4. CASE ~s.l1Activ
  BY <1>1, <1>3, <1>4
<1>5. CASE s.l1Activ /\ ~m
  BY <1>1, <1>3, <1>5 DEF m
<1>6. CASE s.l1Activ /\ m
  <2>1. DlEstablishReq(s) = EvDlEstablish(s)
    BY <1>1, <1>6
  <2> QED BY <1>6, <2>1, FaresDlEstablish
<1> QED BY <1>4, <1>5, <1>6

\* A release in ST_L2_5 is remembered in FLG_PEND_REL.
LEMMA BearsDlRelease ==
    ASSUME NEW s, At(s)
    PROVE  LET t == DlReleaseReq(s)
           IN  /\ Link(s, t) /\ Bears(s, t, 0) /\ Down(s, t)
               /\ t.st = 5 => s.st = 5 /\ Mum(t)
<1> DEFINE u == IF LAPD THEN s ELSE Ask(s, "PH_DEACTIVATE")
           t == EvDlRelease(u)
<1>1. DlReleaseReq(s) = t
  BY DEF DlReleaseReq
<1>2. /\ Link(s, u) /\ u.st = s.st /\ u.va = s.va /\ u.vs = s.vs /\ u.iq = s.iq
      /\ u.l3Init = s.l3Init /\ u.up = <<>>
  BY AtKnown
<1>3. s.st \in 1 .. 8
  BY AtKnown
<1> HIDE DEF u
<1>4. CASE s.st = 4
  <2>1. Link(u, t) /\ t.st = 4
    BY <1>2, <1>4 DEF EvDlRelease
  <2> HIDE DEF t
  <2> QED BY <1>1, <1>2, <1>4, <2>1 DEF Bears, Down
<1>5. CASE s.st = 5
  <2>1. /\ Link(u, t) /\ t.st = 5 /\ t.va = u.va /\ t.vs = u.vs /\ t.iq = u.iq
        /\ t.l3Init = u.l3Init /\ t.up = <<>>
    BY <1>2, <1>5 DEF EvDlRelease
  <2> HIDE DEF t
  <2>2. Len(t.iq) = Len(s.iq) + 0 /\ s.l3Init \in BOOLEAN
    BY <1>2, <2>1, AtKnown
  <2>3. Waits(s, t, 0)
    BY <1>2, <2>1, <2>2 DEF Waits, Mum
  <2> QED BY <1>1, <1>2, <1>5, <2>1, <2>3 DEF Bears, Down, FromFive, Waits
<1>6. CASE s.st \in {7, 8}
  <2>1. t = l2_disconnect(u)
    BY <1>2, <1>6 DEF EvDlRelease
  <2>2. Link(u, t) /\ t.st = 6
    BY <1>2, <2>1, l2_disconnectLink
  <2> HIDE DEF t
  <2> QED BY <1>1, <1>2, <1>6, <2>2 DEF Bears, Down, FromUp
<1>7. CASE s.st \in {1, 2, 3, 6}
  <2>1. t = u
    BY <1>2, <1>7 DEF EvDlRelease
  <2> HIDE DEF t
  <2> QED BY <1>1, <1>2, <1>7, <2>1 DEF Bears, Down
<1> QED BY <1>3, <1>4, <1>5, <1>6, <1>7

LEMMA FaresDlData ==
    ASSUME NEW s, At(s), NEW d \in Data
    PROVE  LET t == EvDlData(s, d)
           IN  Fares(s, t, IF s.st \in {5, 7, 8} THEN 1 ELSE 0) /\ Down(s, t)
<1> DEFINE t == EvDlData(s, d)
<1>1. Known(s) /\ s.up = <<>> /\ s.st \in 1 .. 8 /\ s.iq \in Seq(Data) /\ s.l3Init \in BOOLEAN
  BY AtKnown
<1>2. CASE s.st = 5
  <2>1. /\ Link(s, t) /\ t.st = 5 /\ t.va = s.va /\ t.vs = s.vs /\ t.up = <<>>
        /\ t.pendRel = s.pendRel /\ t.l3Init = s.l3Init
        /\ ~s.l3Init => t.iq = Append(s.iq, d)
    BY <1>1, <1>2 DEF EvDlData
  <2> HIDE DEF t
  <2>2. ~s.l3Init => Len(t.iq) = Len(s.iq) + 1
    BY <1>1, <2>1
  <2>3. Waits(s, t, 1)
    BY <1>1, <2>1, <2>2 DEF Waits, Mum
  <2>4. Fares(s, t, 1) /\ Down(s, t)
    BY <1>2, <2>1, <2>3 DEF Bears, Fares, FromFive, Down
  <2> QED BY <1>2, <2>4 DEF t
<1>3. CASE s.st \in {7, 8}
  <2>1. Good(s)
    BY <1>3, AtKnown
  <2>2. Owes(s, t, 1)
    BY <1>3, <2>1, DlDataFlow, FlowOwes
  <2> HIDE DEF t
  <2>3. Fares(s, t, 1) /\ Down(s, t)
    BY <1>3, <2>2, OwesFares
  <2> QED BY <1>3, <2>3 DEF t
<1>4. CASE s.st \notin {5, 7, 8}
  <2>1. t = s
    BY <1>4 DEF EvDlData
  <2> HIDE DEF t
  <2>2. Fares(s, t, 0) /\ Down(s, t)
    BY <2>1, SteadyCalls, SteadyFares, Zenon
  <2> QED BY <1>4, <2>2 DEF t
<1> QED BY <1>2, <1>3, <1>4

LEMMA FaresDlUnitData ==
    ASSUME NEW s, At(s)
    PROVE  LET t == EvDlUnitData(s) IN Fares(s, t, 0) /\ Down(s, t)
<1> DEFINE t == EvDlUnitData(s)
<1>1. Known(s) /\ s.up = <<>> /\ s.st \in 1 .. 8
  BY AtKnown
<1>2. CASE s.st \in {1, 2, 3}
  <2>1. Link(s, t) /\ (t.st = s.st \/ t.st = 2)
    BY <1>1, <1>2 DEF EvDlUnitData
  <2> HIDE DEF t
  <2>2. Fares(s, t, 0) /\ Down(s, t)
    BY <1>2, <2>1 DEF Bears, Fares, Down
  <2> QED BY <2>2 DEF t
<1>3. CASE s.st \notin {1, 2, 3}
  <2>1. Steady(s, t)
    BY <1>1, <1>3 DEF EvDlUnitData, Steady, Mum
  <2> HIDE DEF t
  <2>2. Fares(s, t, 0) /\ Down(s, t)
    BY <2>1, SteadyFares
  <2> QED BY <2>2 DEF t
<1> QED BY <1>2, <1>3

LEMMA FaresMdl ==
    ASSUME NEW s, At(s)
    PROVE  /\ Fares(s, EvMdlAssign(s), 0) /\ Down(s, EvMdlAssign(s))
           /\ Fares(s, EvMdlError(s), 0) /\ Down(s, EvMdlError(s))
           /\ Fares(s, EvMdlRemove(s), 0) /\ Down(s, EvMdlRemove(s))
<1>1. Known(s) /\ s.up = <<>> /\ s.st \in 1 .. 8
  BY AtKnown
<1>2. Fares(s, s, 0) /\ Down(s, s)
  BY SteadyCalls, SteadyFares, Zenon
<1>3. Fares(s, EvMdlAssign(s), 0) /\ Down(s, EvMdlAssign(s))
  <2> DEFINE t == l2_got_tei(s)
  <2>1. /\ Link(s, t) /\ t.st = IF s.st = 3 THEN 5 ELSE 4
        /\ s.st = 3 => ~t.pendRel
    BY <1>1, l2_got_teiLink
  <2> HIDE DEF t
  <2>2. s.st \in {1, 2, 3} => Fares(s, t, 0) /\ Down(s, t)
    BY <2>1 DEF Bears, Fares, Down
  <2> QED BY <1>2, <2>2 DEF EvMdlAssign, t
<1>4. /\ s.st \in {2, 4} => Fares(s, l2_st24_tei_remove(s), 0)
      /\ Down(s, l2_st24_tei_remove(s)) /\ Down(s, l2_st3_tei_remove(s))
      /\ Down(s, l2_st5_tei_remove(s)) /\ Down(s, l2_st6_tei_remove(s))
      /\ Down(s, l2_tei_remove(s))
  BY <1>1, TeiRemoveLink DEF Bears, Fares, Down
<1>5. /\ Fares(s, l2_st3_tei_remove(s), 0) /\ Fares(s, l2_st5_tei_remove(s), 0)
      /\ Fares(s, l2_st6_tei_remove(s), 0) /\ Fares(s, l2_tei_remove(s), 0)
  BY <1>1, TeiRemoveLink, EndsSay, EndFares
<1>6. Fares(s, EvMdlError(s), 0) /\ Down(s, EvMdlError(s))
  BY <1>2, <1>4, <1>5 DEF EvMdlError
<1>7. Fares(s, EvMdlRemove(s), 0) /\ Down(s, EvMdlRemove(s))
  BY <1>2, <1>4, <1>5 DEF EvMdlRemove
<1> QED BY <1>3, <1>6, <1>7

\* Layer 1 goes down: so does the link, and layer 3 hears of it.
LEMMA BearsPhDeactivate ==
    ASSUME NEW s, At(s)
    PROVE  LET t == PhDeactivate(s) IN Known(t) /\ t.st \in {1, 4} /\ Bears(s, t, 0)
<1> DEFINE u == [s EXCEPT !.l1Activ = FALSE]
           t == EvL1Deactivate(u)
<1>1. Known(u) /\ u.up = <<>> /\ u.st = s.st /\ s.st \in 1 .. 8
  BY AtKnown
<1>2. PhDeactivate(s) = t
  BY DEF PhDeactivate
<1> HIDE DEF u
<1>3. CASE s.st \in {1, 4}
  <2>1. t = l2_st14_persistant_da(u)
    BY <1>1, <1>3 DEF EvL1Deactivate
  <2> HIDE DEF t
  <2>2. Known(t) /\ t.st = s.st
    BY <1>1, <2>1, PersistantLink
  <2> QED BY <1>2, <1>3, <2>2 DEF Bears
<1>4. CASE s.st = 2
  <2>1. t = l2_st24_tei_remove(u)
    BY <1>1, <1>4 DEF EvL1Deactivate
  <2> HIDE DEF t
  <2>2. Known(t) /\ t.st = 1
    BY <1>1, <2>1, TeiRemoveLink
  <2> QED BY <1>2, <1>4, <2>2 DEF Bears
<1>5. CASE s.st = 3
  <2>1. t = l2_st3_tei_remove(u)
    BY <1>1, <1>5 DEF EvL1Deactivate
  <2> HIDE DEF t
  <2>2. Known(t) /\ t.st = 1
    BY <1>1, <2>1, TeiRemoveLink
  <2> QED BY <1>2, <1>5, <2>2 DEF Bears
<1>6. CASE s.st \in {5, 6, 7, 8}
  <2>1. t = CASE s.st = 5 -> l2_st5_persistant_da(u)
              [] s.st = 6 -> l2_st6_persistant_da(u)
              [] OTHER -> l2_persistant_da(u)
    BY <1>1, <1>6 DEF EvL1Deactivate
  <2> HIDE DEF t
  <2>2. Known(t) /\ t.st = 4 /\ Says(t)
    <3>1. /\ Known(l2_st5_persistant_da(u)) /\ l2_st5_persistant_da(u).st = 4
          /\ Known(l2_st6_persistant_da(u)) /\ l2_st6_persistant_da(u).st = 4
          /\ Known(l2_persistant_da(u)) /\ l2_persistant_da(u).st = 4
      BY <1>1, PersistantLink
    <3>2. /\ Says(l2_st5_persistant_da(u)) /\ Says(l2_st6_persistant_da(u))
          /\ Says(l2_persistant_da(u))
      BY <1>1, EndsSay
    <3> HIDE DEF Known
    <3> QED BY <1>6, <2>1, <3>1, <3>2
  <2> QED BY <1>2, <1>6, <2>2 DEF Bears, FromUp, FromFive
<1> QED BY <1>1, <1>3, <1>4, <1>5, <1>6

\* Layer 1 comes up: a link that waits for it is set up.
LEMMA BearsPhActivate ==
    ASSUME NEW s, At(s), s.st \in {7, 8} => s.l1Activ
    PROVE  LET t == PhActivate(s)
           IN  /\ Known(t) /\ t.l1Activ /\ Bears(s, t, 0)
               /\ t.st = 5 /\ t.pendRel => s.st = 5 /\ s.pendRel
<1> DEFINE a == [s EXCEPT !.l1Activ = TRUE]
           u == [a EXCEPT !.estabPend = FALSE]
           t == PhActivate(s)
<1>1. t = IF s.estabPend THEN EvDlEstablish(u) ELSE u
  BY DEF PhActivate
<1>2. /\ Known(u) /\ u.up = <<>> /\ u.st = s.st /\ u.l1Activ /\ u.va = s.va /\ u.vs = s.vs
      /\ u.iq = s.iq /\ u.l3Init = s.l3Init /\ u.pendRel = s.pendRel
  BY AtKnown
<1>3. At(u)
  <2>1. Safe(a)
    BY SafeSt, SafeOk, OkL1Activ DEF At
  <2> HIDE DEF a
  <2>2. Safe(u)
    BY <2>1, SafeSt, SafeOk, OkEstabPend
  <2> QED BY <1>2, <2>2 DEF At
<1> HIDE DEF a, u, t
<1>4. Fares(u, t, 0)
  <2>1. Fares(u, u, 0)
    BY <1>3, SteadyCalls, SteadyFares, Zenon
  <2>2. Fares(u, EvDlEstablish(u), 0)
    BY <1>3, FaresDlEstablish
  <2> QED BY <1>1, <2>1, <2>2
<1>5. Owes(u, t, 0) /\ s.st \in {7, 8} => Owes(s, t, 0)
  BY <1>2 DEF Owes, Count, Outstanding
<1>6. Bears(s, t, 0)
  BY <1>2, <1>4, <1>5 DEF Fares, Bears, FromUp, FromFive, Waits, Opens
<1> QED BY <1>2, <1>4, <1>6 DEF Fares, t

-----------------------------------------------------------------------------
(* The timers and the transmitter *)


\* SABME is repeated, or the link is given up and layer 3 told.
LEMMA Fares5Tout ==
    ASSUME NEW s, At(s), s.st = 5
    PROVE  Fares(s, l2_st5_tout_200(s), 0)
<1> DEFINE t == l2_st5_tout_200(s)
           a == FsmChangeState(s, 4)
           b == PurgeI([a EXCEPT !.t200Run = FALSE])
           c == Ask(b, "G")
           d == IF LAPD THEN c ELSE Ask(c, "PH_DEACTIVATE")
           e == st5_dl_release_l2l3(d)
           r == AddT200([s EXCEPT !.rc = @ + 1])
           f == send_uframe(r, "SABME", FALSE, TRUE)
<1>1. t = IF DChanWait(s) THEN AddT200(s) ELSE IF s.rc = N200 THEN e ELSE f
  BY DEF l2_st5_tout_200
<1>2. Steady(s, AddT200(s))
  BY AtKnown DEF Steady, Mum
<1>3. Fares(s, e, 0)
  <2>1. Link(s, d) /\ d.st = 4 /\ d.up = <<>>
    BY AtKnown
  <2> HIDE DEF d
  <2>2. Link(s, e) /\ e.st = 4 /\ Says(e)
    BY <2>1 DEF Says, One, DownPrims
  <2> HIDE DEF e
  <2> QED BY <2>2, EndFares
<1>4. Steady(s, f)
  <2>1. Steady(s, r)
    BY AtKnown DEF Steady, Mum
  <2> HIDE DEF r
  <2> QED BY <2>1, AtKnown DEF Steady, Mum
<1> HIDE DEF t, e, f, AddT200
<1>5. Fares(s, AddT200(s), 0) /\ Fares(s, f, 0)
  BY <1>2, <1>4, SteadyFares
<1> QED BY <1>1, <1>3, <1>5 DEF t

\* DISC is repeated, or the release confirmed without an answer.
LEMMA Fares6Tout ==
    ASSUME NEW s, At(s), s.st = 6
    PROVE  Fares(s, l2_st6_tout_200(s), 0)
<1> DEFINE t == l2_st6_tout_200(s)
           a == FsmChangeState(s, 4)
           c == Ask([a EXCEPT !.t200Run = FALSE], "H")
           e == lapb_dl_release_l2l3(c, "DL_RELEASE_CNF")
           r == AddT200([s EXCEPT !.rc = @ + 1])
           f == send_uframe(r, "DISC", FALSE, TRUE)
<1>1. t = IF DChanWait(s) THEN AddT200(s) ELSE IF s.rc = N200 THEN e ELSE f
  BY DEF l2_st6_tout_200
<1>2. Steady(s, AddT200(s))
  BY AtKnown DEF Steady, Mum
<1>3. Fares(s, e, 0)
  <2>1. Link(s, c) /\ c.st = 4 /\ c.up = <<>>
    BY AtKnown
  <2> HIDE DEF c
  <2>2. Link(s, e) /\ e.st = 4 /\ Says(e)
    BY <2>1 DEF Says, One, DownPrims
  <2> HIDE DEF e
  <2> QED BY <2>2, EndFares
<1>4. Steady(s, f)
  <2>1. Steady(s, r)
    BY AtKnown DEF Steady, Mum
  <2> HIDE DEF r
  <2> QED BY <2>1, AtKnown DEF Steady, Mum
<1> HIDE DEF t, e, f, AddT200
<1>5. Fares(s, AddT200(s), 0) /\ Fares(s, f, 0)
  BY <1>2, <1>4, SteadyFares
<1> QED BY <1>1, <1>3, <1>5 DEF t

\* An enquiry discards nothing.
LEMMA EnquiryFares ==
    ASSUME NEW s, At(s), s.st \in {7, 8}, NEW a, Link(s, a), a.st = 8,
           a.va = s.va, a.vs = s.vs, a.iq = s.iq, NEW rc
    PROVE  Fares(s, [transmit_enquiry(a) EXCEPT !.rc = rc], 0)
<1> DEFINE t == [transmit_enquiry(a) EXCEPT !.rc = rc]
<1>1. Link(s, t) /\ t.st = 8 /\ t.va = s.va /\ t.vs = s.vs /\ t.iq = s.iq
  OBVIOUS
<1> HIDE DEF t
<1>2. Fares(s, t, 0)
  BY <1>1, AtKnown, KeepOwes, OwesFares
<1> QED BY <1>2 DEF t

LEMMA Fares7Tout ==
    ASSUME NEW s, At(s), s.st = 7
    PROVE  Fares(s, l2_st7_tout_200(s), 0) /\ Fares(s, l2_st7_tout_203(s), 0)
<1> DEFINE a == FsmChangeState([s EXCEPT !.t200Run = FALSE], 8)
           b == FsmChangeState(s, 8)
           v == [transmit_enquiry(a) EXCEPT !.rc = 1]
           w == [transmit_enquiry(b) EXCEPT !.rc = 0]
<1>1. /\ l2_st7_tout_200(s) = IF DChanWait(s) THEN AddT200(s) ELSE v
      /\ l2_st7_tout_203(s) = IF DChanWait(s) THEN AddT203(s) ELSE w
  BY DEF l2_st7_tout_200, l2_st7_tout_203
<1>2. /\ Link(s, a) /\ a.st = 8 /\ a.va = s.va /\ a.vs = s.vs /\ a.iq = s.iq
      /\ Link(s, b) /\ b.st = 8 /\ b.va = s.va /\ b.vs = s.vs /\ b.iq = s.iq
  BY AtKnown
<1>3. Steady(s, AddT200(s)) /\ Steady(s, AddT203(s))
  BY AtKnown DEF Steady, Mum
<1> HIDE DEF a, b, AddT200, AddT203, transmit_enquiry
<1>4. Fares(s, v, 0) /\ Fares(s, w, 0)
  BY <1>2, EnquiryFares
<1> HIDE DEF v, w
<1>5. Fares(s, AddT200(s), 0) /\ Fares(s, AddT203(s), 0)
  BY <1>3, SteadyFares
<1> QED BY <1>1, <1>4, <1>5

LEMMA Fares8Tout ==
    ASSUME NEW s, At(s), s.st = 8
    PROVE  Fares(s, l2_st8_tout_200(s), 0)
<1> DEFINE a == [s EXCEPT !.t200Run = FALSE]
           v == [transmit_enquiry(a) EXCEPT !.rc = @ + 1]
           w == Reestablish(Ask(a, "I"))
<1>1. l2_st8_tout_200(s) =
          IF DChanWait(s) THEN AddT200(s) ELSE IF s.rc = N200 THEN w ELSE v
  BY DEF l2_st8_tout_200
<1>2. Link(s, a) /\ a.st = 8 /\ a.va = s.va /\ a.vs = s.vs /\ a.iq = s.iq
  BY AtKnown
<1>3. Steady(s, AddT200(s)) /\ Steady(s, a)
  BY AtKnown DEF Steady, Mum
<1>4. At(a)
  <2>1. Safe(a)
    BY SafeSt, SafeOk, OkT200Run DEF At
  <2> QED BY <2>1, AtKnown DEF At
<1> HIDE DEF a, AddT200, transmit_enquiry, Ask
<1>5. Fares(s, v, 0)
  BY <1>2, EnquiryFares
<1>6. Fares(s, w, 0)
  BY <1>2, <1>3, <1>4, AgainFares, SteadyFrom
<1> HIDE DEF v, w
<1>7. Fares(s, AddT200(s), 0)
  BY <1>3, SteadyFares
<1> QED BY <1>1, <1>5, <1>6, <1>7

LEMMA FaresT200 ==
    ASSUME NEW s, At(s)
    PROVE  Fares(s, EvT200(s), 0) /\ Down(s, EvT200(s))
<1> DEFINE u == [s EXCEPT !.t200 = FALSE]
           t == EvT200(s)
<1>1. Steady(s, u) /\ u.st = s.st
  BY AtKnown DEF Steady, Mum
<1>2. At(u)
  <2>1. Safe(u)
    BY SafeSt, SafeOk, OkT200 DEF At
  <2> QED BY <2>1, AtKnown DEF At
<1>3. t = CASE u.st = 5 -> l2_st5_tout_200(u)
            [] u.st = 6 -> l2_st6_tout_200(u)
            [] u.st = 7 -> l2_st7_tout_200(u)
            [] u.st = 8 -> l2_st8_tout_200(u)
            [] OTHER -> u
  BY DEF EvT200
<1> HIDE DEF u, t
<1>4. Fares(u, u, 0) /\ Down(u, u)
  BY <1>2, SteadyCalls, SteadyFares, Zenon
<1>5. CASE u.st \in {5, 6, 7, 8}
  <2>1. Fares(u, t, 0)
    BY <1>2, <1>3, <1>5, Fares5Tout, Fares6Tout, Fares7Tout, Fares8Tout
  <2> QED BY <1>1, <1>5, <2>1, SteadyFrom DEF Down, t
<1>6. CASE u.st \notin {5, 6, 7, 8}
  <2>1. t = u
    BY <1>3, <1>6
  <2> QED BY <1>1, <1>4, <2>1, SteadyFrom DEF t
<1> QED BY <1>5, <1>6

LEMMA FaresT203 ==
    ASSUME NEW s, At(s)
    PROVE  Fares(s, EvT203(s), 0) /\ Down(s, EvT203(s))
<1> DEFINE u == [s EXCEPT !.t203 = FALSE]
           t == EvT203(s)
<1>1. Steady(s, u) /\ u.st = s.st
  BY AtKnown DEF Steady, Mum
<1>2. At(u)
  <2>1. Safe(u)
    BY SafeSt, SafeOk, OkT203 DEF At
  <2> QED BY <2>1, AtKnown DEF At
<1>3. t = IF u.st = 7 THEN l2_st7_tout_203(u) ELSE u
  BY DEF EvT203
<1> HIDE DEF u, t
<1>4. Fares(u, u, 0) /\ Down(u, u)
  BY <1>2, SteadyCalls, SteadyFares
<1>5. CASE u.st = 7
  <2>1. Fares(u, t, 0)
    BY <1>2, <1>3, <1>5, Fares7Tout
  <2> QED BY <1>1, <1>5, <2>1, SteadyFrom DEF Down, t
<1>6. CASE u.st # 7
  <2>1. t = u
    BY <1>3, <1>6
  <2> QED BY <1>1, <1>4, <2>1, SteadyFrom DEF t
<1> QED BY <1>5, <1>6

LEMMA FaresPh ==
    ASSUME NEW s, At(s)
    PROVE  /\ \A busy : Fares(s, PhPause(s, busy), 0) /\ Down(s, PhPause(s, busy))
           /\ Fares(s, PhTxDone(s), 0) /\ Down(s, PhTxDone(s))
<1>1. ASSUME NEW busy PROVE Steady(s, PhPause(s, busy))
  BY AtKnown DEF Steady, Mum, PhPause
<1>2. Steady(s, PhTxDone(s))
  BY AtKnown DEF Steady, Mum, PhTxDone
<1> QED BY <1>1, <1>2, SteadyFares

LEMMA FaresPull ==
    ASSUME NEW s, At(s)
    PROVE  Fares(s, PhPullConfirm(s), 0) /\ Down(s, PhPullConfirm(s))
<1> DEFINE u == [s EXCEPT !.pullReq = FALSE]
           t == PhPullConfirm(s)
<1>1. Steady(s, u) /\ u.st = s.st
  BY AtKnown DEF Steady, Mum
<1>2. At(u)
  <2>1. Safe(u)
    BY SafeSt, SafeOk, OkPullReq DEF At
  <2> QED BY <2>1, AtKnown DEF At
<1>3. t = IF u.st = 7 THEN l2_pull_iqueue(u) ELSE u
  BY DEF PhPullConfirm, AckPull
<1> HIDE DEF u, t
<1>4. CASE u.st = 7
  <2>1. Good(u)
    BY <1>2, <1>4, AtKnown
  <2>2. Flow(u, t, 0)
    BY <1>3, <1>4, <2>1, PullFlow
  <2>3. Fares(u, t, 0) /\ Down(u, t)
    BY <1>4, <2>1, <2>2, FlowOwes, OwesFares
  <2> QED BY <1>1, <2>3, SteadyFrom DEF t
<1>5. CASE u.st # 7
  <2>1. t = u
    BY <1>3, <1>5
  <2>2. Fares(u, t, 0) /\ Down(u, t)
    BY <1>2, <2>1, SteadyCalls, SteadyFares, Zenon
  <2> QED BY <1>1, <2>2, SteadyFrom DEF t
<1> QED BY <1>4, <1>5

-----------------------------------------------------------------------------
(***************************************************************************)
(* The specification.  NoSilentLoss is not inductive: while the link is    *)
(* set up again, data that was lost must still show in the variables that  *)
(* l2_connected compares, and a release that waits in FLG_PEND_REL must    *)
(* have been asked for.  Layer 1 is active wherever the link is wanted, so *)
(* that a request for a link always starts one.                            *)
(***************************************************************************)

\* Where data that was lost may leave the entity.
Fate(s, released) ==
    \/ s.st = 6
    \/ s.st = 5 /\ (s.l3Init \/ s.vs # s.va)
    \/ s.st \in {5, 7, 8} /\ released

LossInv ==
    /\ IInv /\ ReadyInv
    /\ lost => Fate(l2, relReq)
    /\ l2.st = 5 /\ l2.pendRel => relReq
    /\ l2.st \in {3, 5, 6, 7, 8} => l2.l1Activ

\* A step that ends in t, in which layer 3 wrote n frames: a release that layer
\* 3 asked for is not forgotten while the link lasts, nor one invented.
Recalls(t) ==
    l2.st \in {5, 7, 8} /\ relReq /\ LinkPrims(t) = {} =>
        relReq' \/ (t.st = 5 /\ t.l3Init /\ ~t.pendRel)
Pends(t) == t.st = 5 /\ t.pendRel => relReq' \/ (l2.st = 5 /\ l2.pendRel)
Carried(t) == t.st \in {3, 5, 6, 7, 8} => t.l1Activ
Lawful(t, n) == Safe(t) /\ Bears(l2, t, n) /\ Recalls(t) /\ Pends(t) /\ Carried(t)

LEMMA LossAt == ASSUME LossInv PROVE At(l2)
BY DEF LossInv, IInv, ReadyInv, Ready, At

\* What was lost, in an earlier step or in this one, is on record.
LEMMA StepFate ==
    ASSUME LossInv, NEW t, NEW n \in Nat, Step(t, n), Lawful(t, n), lost'
    PROVE  Fate(t, relReq')
<1>1. At(l2)
  BY LossAt
<1>2. /\ l2.st \in 1 .. 8 /\ l2.va \in SeqNo /\ l2.vs \in SeqNo /\ Len(l2.iq) \in Nat
      /\ l2.l3Init \in BOOLEAN /\ l2.pendRel \in BOOLEAN
  BY <1>1, AtKnown
<1>3. /\ t.st \in 1 .. 8 /\ t.va \in SeqNo /\ t.vs \in SeqNo /\ Len(t.iq) \in Nat
      /\ t.l3Init \in BOOLEAN
  <2>1. t \in L2State
    BY SafeSt DEF Lawful
  <2>2. t.iq \in Seq(Data)
    BY <2>1 DEF L2State
  <2> QED BY <2>1, <2>2 DEF L2State
<1>4. Dist(l2.va, t.va) \in Nat /\ Outstanding(t) \in Nat /\ Outstanding(l2) \in Nat
  <2>1. \A a, b \in SeqNo : Dist(a, b) \in 0 .. Mod - 1
    BY DistType
  <2>2. \A a, b \in SeqNo : Dist(a, b) \in Nat
    BY <2>1, L2Assumption
  <2> QED BY <1>2, <1>3, <2>2 DEF Outstanding
<1>5. LinkPrims(t) = {} /\ (lost \/ Owed(t) < Owed(l2) - Dist(l2.va, t.va) + n)
  BY DEF Step, Effect
<1>6. ~Says(t)
  BY <1>5, SaysLink
<1>7. lost => Fate(l2, relReq)
  BY DEF LossInv
<1>8. Bears(l2, t, n)
  BY DEF Lawful
<1>9. l2.st \in {5, 7, 8} /\ relReq => relReq' \/ (t.st = 5 /\ t.l3Init)
  BY <1>5 DEF Lawful, Recalls
<1>10. CASE l2.st \in {7, 8}
  <2>1. t.st = 6 \/ (t.st = 5 /\ t.l3Init) \/ Owes(l2, t, n)
    BY <1>6, <1>8, <1>10 DEF Bears, FromUp
  <2>2. CASE Owes(l2, t, n)
    <3>1. t.st \in {5, 7, 8} /\ Count(t) + Dist(l2.va, t.va) >= Count(l2) + n
      BY <2>2 DEF Owes
    <3>2. Owed(l2) = Count(l2) /\ Count(l2) \in Nat /\ Count(t) \in Nat
      <4>1. Owed(l2) = Count(l2)
        BY <1>10 DEF Owed, Count
      <4>2. Count(l2) \in Nat
        BY <1>2, <1>4 DEF Count
      <4>3. Count(t) \in Nat
        BY <1>3, <1>4 DEF Count
      <4> QED BY <4>1, <4>2, <4>3
    <3>3. CASE lost
      BY <1>7, <1>9, <1>10, <3>1, <3>3 DEF Fate
    <3>4. CASE Owed(t) < Owed(l2) - Dist(l2.va, t.va) + n
      <4>1. Owed(t) \in Nat
        BY <1>3, <1>4 DEF Owed
      <4>2. Owed(t) < Count(t)
        BY <1>4, <3>1, <3>2, <3>4, <4>1
      <4>3. t.st = 5 /\ Outstanding(t) # 0
        BY <1>3, <1>4, <3>1, <4>2 DEF Owed, Count
      <4>4. t.vs # t.va
        BY <1>3, <4>3, DistType DEF Outstanding
      <4> QED BY <4>3, <4>4 DEF Fate
    <3> QED BY <1>5, <3>3, <3>4
  <2> QED BY <2>1, <2>2 DEF Fate
<1>11. CASE l2.st = 5
  <2>1. Owed(l2) = Len(l2.iq)
    BY <1>2, <1>11 DEF Owed
  <2>2. Waits(l2, t, n) \/ Opens(l2, t, n)
    BY <1>6, <1>8, <1>11 DEF Bears, FromFive
  <2>3. CASE Waits(l2, t, n)
    <3>1. t.st = 5
      BY <2>3 DEF Waits
    <3>2. CASE t.l3Init
      BY <3>1, <3>2 DEF Fate
    <3>3. CASE ~t.l3Init
      <4>1. ~l2.l3Init /\ t.va = l2.va /\ t.vs = l2.vs /\ Len(t.iq) = Len(l2.iq) + n
        BY <2>3, <3>3 DEF Waits
      <4>2. Owed(t) = Owed(l2) + n /\ Dist(l2.va, t.va) = 0
        BY <1>2, <1>3, <2>1, <3>1, <4>1, DistType DEF Owed
      <4>3. lost
        BY <1>2, <1>5, <2>1, <4>2
      <4> QED BY <1>7, <1>9, <1>11, <3>1, <3>3, <4>1, <4>3 DEF Fate
    <3> QED BY <3>2, <3>3
  <2>4. CASE Opens(l2, t, n)
    <3>1. t.st = 7 /\ n = 0 /\ l2.vs = l2.va /\ ~l2.l3Init
      BY <2>4 DEF Opens
    <3>2. relReq
      <4>1. CASE lost
        BY <1>7, <1>11, <3>1, <4>1 DEF Fate
      <4>2. CASE l2.pendRel
        BY <1>11, <4>2 DEF LossInv
      <4>3. CASE ~lost /\ ~l2.pendRel
        <5>1. Count(t) + Dist(l2.va, t.va) >= Len(l2.iq)
          BY <2>4, <4>3 DEF Opens
        <5>2. Owed(t) = Count(t) /\ Count(t) \in Nat
          BY <1>3, <1>4, <3>1 DEF Owed, Count
        <5> QED BY <1>2, <1>4, <1>5, <2>1, <3>1, <4>3, <5>1, <5>2
      <4> QED BY <4>1, <4>2, <4>3
    <3> QED BY <1>9, <1>11, <3>1, <3>2 DEF Fate
  <2> QED BY <2>2, <2>3, <2>4
<1>12. CASE l2.st \notin {5, 7, 8}
  <2>1. n = 0
    BY <1>8, <1>12 DEF Bears
  <2>2. Owed(l2) = 0
    <3>1. l2.iq = <<>>
      BY <1>12 DEF LossInv, ReadyInv, Ready, Fine, Clean
    <3> QED BY <1>12, <3>1 DEF Owed
  <2>3. Owed(t) \in Nat
    BY <1>3, <1>4 DEF Owed
  <2>4. lost
    BY <1>4, <1>5, <2>1, <2>2, <2>3
  <2>5. l2.st = 6
    BY <1>7, <1>12, <2>4 DEF Fate
  <2>6. t.st = 6
    BY <1>6, <1>8, <2>5 DEF Bears
  <2> QED BY <2>6 DEF Fate
<1> QED BY <1>10, <1>11, <1>12

LEMMA StepLoss ==
    ASSUME LossInv, NEW t, NEW n \in Nat, Step(t, n), Lawful(t, n), IInv', ReadyInv'
    PROVE  LossInv'
<1>1. l2' = Fresh(t)
  BY DEF Step, Effect
<1>2. t \in L2State
  BY SafeSt DEF Lawful
<1>3. /\ l2'.st = t.st /\ l2'.vs = t.vs /\ l2'.va = t.va /\ l2'.l3Init = t.l3Init
      /\ l2'.pendRel = t.pendRel /\ l2'.l1Activ = t.l1Activ
  BY <1>1, <1>2 DEF Fresh, L2State
<1>4. lost' => Fate(l2, relReq)'
  BY <1>3, StepFate DEF Fate
<1>5. l2'.st = 5 /\ l2'.pendRel => relReq'
  <2>1. SUFFICES ASSUME t.st = 5, t.pendRel, ~relReq' PROVE FALSE
    BY <1>3
  <2>2. l2.st = 5 /\ l2.pendRel /\ relReq
    BY <2>1 DEF Lawful, Pends, LossInv
  <2>3. LinkPrims(t) = {}
    <3>1. FromFive(l2, t, n)
      BY <2>2 DEF Lawful, Bears
    <3>2. Mum(t)
      BY <2>1, <3>1 DEF FromFive, Waits, Opens
    <3> QED BY <3>2, MumLink
  <2> QED BY <2>1, <2>2, <2>3 DEF Lawful, Recalls
<1>6. l2'.st \in {3, 5, 6, 7, 8} => l2'.l1Activ
  BY <1>3 DEF Lawful, Carried
<1> QED BY <1>4, <1>5, <1>6 DEF LossInv

\* Layer 1 is active where the link is wanted, unless it is itself the caller.
LEMMA ActiveKept ==
    ASSUME LossInv, NEW t, t.l1Activ = l2.l1Activ, l2.l1Activ \/ Down(l2, t)
    PROVE  Carried(t)
<1>1. l2.st \in 1 .. 8
  BY LossAt, AtKnown
<1>2. l2.st \in {3, 5, 6, 7, 8} => l2.l1Activ
  BY DEF LossInv
<1> QED BY <1>1, <1>2 DEF Down, Carried

LEMMA FaresLawful ==
    ASSUME LossInv, NEW t, Safe(t), NEW n, Fares(l2, t, n), l2.l1Activ \/ Down(l2, t),
           relReq /\ LinkPrims(t) = {} => relReq'
    PROVE  Lawful(t, n)
<1>1. Carried(t)
  <2>1. t.l1Activ = l2.l1Activ
    BY DEF Fares
  <2> QED BY <2>1, ActiveKept
<1>2. Recalls(t)
  BY DEF Recalls
<1>3. Bears(l2, t, n) /\ Pends(t)
  BY DEF Fares, Pends
<1> QED BY <1>1, <1>2, <1>3 DEF Lawful

\* A handler that ran, and the steps that are judged by it.
Lawfully == \E t : \E n \in Nat : Step(t, n) /\ Lawful(t, n)

LEMMA FaresCall ==
    ASSUME LossInv, NEW t, Safe(t), NEW n \in Nat, Fares(l2, t, n), l2.l1Activ \/ Down(l2, t),
           Step(t, n), Released(t)
    PROVE  Lawfully
<1>1. relReq /\ LinkPrims(t) = {} => relReq'
  BY DEF Released
<1> QED BY <1>1, FaresLawful DEF Lawfully

LEMMA ULawful == LossInv /\ RcvU => Lawfully
<1> SUFFICES ASSUME LossInv, RcvU PROVE Lawfully
  OBVIOUS
<1>1. At(l2) /\ Safe(l2)
  BY LossAt DEF At
<1>2. ASSUME NEW pf \in BOOLEAN, RcvSABME(pf) PROVE Lawfully
  BY <1>1, <1>2, FaresCall, SafeEvSABME, FaresSABME DEF RcvSABME, UFrame, Call
<1>3. ASSUME NEW pf \in BOOLEAN, RcvDISC(pf) PROVE Lawfully
  BY <1>1, <1>3, FaresCall, SafeEvDISC, FaresDISC DEF RcvDISC, UFrame, Call
<1>4. ASSUME NEW pf \in BOOLEAN, RcvUA(pf) PROVE Lawfully
  BY <1>1, <1>4, FaresCall, SafeEvUA, FaresUA DEF RcvUA, UFrame, Call
<1>5. ASSUME NEW pf \in BOOLEAN, RcvDM(pf) PROVE Lawfully
  BY <1>1, <1>5, FaresCall, SafeEvDM, FaresDM DEF RcvDM, UFrame, Call
<1>6. ASSUME NEW rejected, RcvFRMR(rejected) PROVE Lawfully
  BY <1>1, <1>6, FaresCall, SafeEvFRMR, FaresFRMR DEF RcvFRMR, Call
<1>7. CASE RcvUI
  BY <1>1, <1>7, FaresCall, SafeEvUI, FaresUI DEF RcvUI, Call
<1>8. CASE RcvBad
  BY <1>1, <1>8, FaresCall, SafeEvFrameError, FaresFrameError DEF RcvBad, Call
<1> QED BY <1>2, <1>3, <1>4, <1>5, <1>6, <1>7, <1>8 DEF RcvU

LEMMA FedByWrote ==
    ASSUME NEW t, NEW reply, Written(reply), NEW ds, Written(ds)
    PROVE  Wrote(t, reply, ds) = FedBy(l2, t, reply, ds) /\ Wrote(t, reply, ds) \in Nat
<1>1. Len(reply) \in Nat /\ Len(ds) \in Nat
  <2>1. Len(<<>>) \in Nat /\ \A d \in Data : Len(<<d>>) \in Nat
    OBVIOUS
  <2> QED BY <2>1 DEF Written
<1>2. Wrote(t, reply, ds) = FedBy(l2, t, reply, ds)
  BY DEF Wrote, FedBy, Woken
<1>3. Wrote(t, reply, ds) \in Nat
  <2> DEFINE a == IF t.vr # l2.vr THEN Len(reply) ELSE 0
             b == IF t.va # l2.va /\ ~LAPD THEN Len(ds) ELSE 0
  <2>1. a \in Nat /\ b \in Nat
    BY <1>1
  <2>2. Wrote(t, reply, ds) = a + b
    BY DEF Wrote
  <2> HIDE DEF a, b
  <2> QED BY <2>1, <2>2
<1> QED BY <1>2, <1>3

LEMMA NumberedLawful == LossInv /\ (RcvS \/ RcvInfo) => Lawfully
<1> SUFFICES ASSUME LossInv, RcvS \/ RcvInfo PROVE Lawfully
  OBVIOUS
<1>1. At(l2) /\ Safe(l2)
  BY LossAt DEF At
<1>2. ASSUME NEW t \in STypes, NEW rsp \in BOOLEAN, NEW pf \in BOOLEAN, NEW nr \in SeqNo,
             NEW ds \in Writes, RcvSuper(t, rsp, pf, nr, ds)
      PROVE  Lawfully
  <2> DEFINE f == [t |-> t, rsp |-> rsp, pf |-> pf, ns |-> 0, nr |-> nr, d |-> NoSkb]
             s == EvSuper(l2, f, ds)
  <2>1. Numbered(f) /\ Written(ds) /\ Written(<<>>)
    BY WritesWritten DEF Numbered, Written
  <2>2. Step(s, Wrote(s, <<>>, ds)) /\ Released(s) /\ l2.l1Activ /\ l2.st \in {7, 8}
    BY <1>2 DEF RcvSuper
  <2> HIDE DEF f
  <2>3. Safe(s) /\ Fares(l2, s, FedBy(l2, s, <<>>, ds))
    BY <1>1, <2>1, <2>2, SafeEvSuper, FaresSuper
  <2> HIDE DEF s
  <2> DEFINE n == Wrote(s, <<>>, ds)
  <2>4. n = FedBy(l2, s, <<>>, ds) /\ n \in Nat
    BY <2>1, FedByWrote
  <2> HIDE DEF n
  <2>5. Fares(l2, s, n) /\ Step(s, n)
    BY <2>2, <2>3, <2>4 DEF n
  <2> QED BY <2>2, <2>3, <2>4, <2>5, FaresCall
<1>3. ASSUME NEW pf \in BOOLEAN, NEW ns \in SeqNo, NEW nr \in SeqNo, NEW d \in Data,
             NEW reply \in Writes, NEW ds \in Writes, RcvI(pf, ns, nr, d, reply, ds)
      PROVE  Lawfully
  <2> DEFINE f == [t |-> "I", rsp |-> FALSE, pf |-> pf, ns |-> ns, nr |-> nr, d |-> d]
             s == EvI(l2, f, reply, ds)
  <2>1. Numbered(f) /\ f.d \in Data /\ Written(reply) /\ Written(ds)
    BY WritesWritten DEF Numbered
  <2>2. Step(s, Wrote(s, reply, ds)) /\ Released(s) /\ l2.l1Activ /\ l2.st \in {7, 8}
    BY <1>3 DEF RcvI
  <2> HIDE DEF f
  <2>3. Safe(s) /\ Fares(l2, s, FedBy(l2, s, reply, ds))
    BY <1>1, <2>1, <2>2, SafeEvI, FaresI
  <2> HIDE DEF s
  <2> DEFINE n == Wrote(s, reply, ds)
  <2>4. n = FedBy(l2, s, reply, ds) /\ n \in Nat
    BY <2>1, FedByWrote
  <2> HIDE DEF n
  <2>5. Fares(l2, s, n) /\ Step(s, n)
    BY <2>2, <2>3, <2>4 DEF n
  <2> QED BY <2>2, <2>3, <2>4, <2>5, FaresCall
<1> QED BY <1>2, <1>3 DEF RcvS, RcvInfo

LEMMA Layer3Lawful == LossInv /\ Layer3 => Lawfully
<1> SUFFICES ASSUME LossInv, Layer3 PROVE Lawfully
  OBVIOUS
<1>1. At(l2) /\ Safe(l2)
  BY LossAt DEF At
<1>2. ASSUME NEW d \in Data, DlData(d) PROVE Lawfully
  <2> DEFINE t == EvDlData(l2, d)
             n == IF l2.st \in {5, 7, 8} THEN 1 ELSE 0
  <2>1. Step(t, n) /\ relReq' = relReq /\ n \in Nat
    BY <1>2 DEF DlData
  <2>2. Safe(t) /\ Fares(l2, t, n) /\ Down(l2, t)
    BY <1>1, SafeEvDlData, FaresDlData
  <2> HIDE DEF t, n
  <2> QED BY <2>1, <2>2, FaresLawful DEF Lawfully
<1>3. CASE DlUnitData
  BY <1>1, <1>3, FaresCall, SafeEvDlUnitData, FaresDlUnitData DEF DlUnitData, Call
<1>4. CASE DlEstablish
  <2> DEFINE t == DlEstablishReq(l2)
             may == LAPD \/ l2.orig
  <2>1. Step(t, 0) /\ relReq' = (relReq /\ ~LAPD /\ ~l2.orig)
    BY <1>4 DEF DlEstablish
  <2>2. /\ Safe(t) /\ Fares(l2, t, 0) /\ (~l2.l1Activ => Down(l2, t))
        /\ l2.st \in {5, 7, 8} /\ l2.l1Activ /\ may => t.st = 5 /\ t.l3Init /\ ~t.pendRel
    BY <1>1, SafeDlEstablishReq, FaresDlEstablishReq
  <2> HIDE DEF t
  <2>3. Carried(t)
    <3>1. t.l1Activ = l2.l1Activ
      BY <2>2 DEF Fares
    <3> QED BY <2>2, <3>1, ActiveKept
  <2>4. Recalls(t)
    <3>1. l2.st \in {5, 7, 8} => l2.l1Activ
      BY DEF LossInv
    <3>2. relReq => relReq' \/ may
      BY <2>1
    <3> QED BY <2>2, <3>1, <3>2 DEF Recalls
  <2>5. Bears(l2, t, 0) /\ Pends(t)
    BY <2>2 DEF Fares, Pends
  <2> HIDE DEF may
  <2>6. Lawful(t, 0)
    BY <2>2, <2>3, <2>4, <2>5 DEF Lawful
  <2> QED BY <2>1, <2>6 DEF Lawfully
<1>5. CASE DlRelease
  <2> DEFINE t == DlReleaseReq(l2)
  <2>1. Step(t, 0) /\ relReq' = ((relReq \/ l2.st >= 5) /\ LinkPrims(t) = {})
    BY <1>5 DEF DlRelease
  <2>2. Safe(EvDlRelease(l2))
    BY <1>1, SafeEvDlRelease
  <2>3. /\ Safe(t) /\ Link(l2, t) /\ Bears(l2, t, 0) /\ Down(l2, t)
        /\ t.st = 5 => l2.st = 5 /\ Mum(t)
    BY <1>1, SafeDlReleaseReq, BearsDlRelease
  <2> HIDE DEF t
  <2>4. Pends(t)
    <3>1. t.st = 5 => l2.st >= 5
      BY <2>3
    <3>2. t.st = 5 => LinkPrims(t) = {}
      BY <2>3, MumLink
    <3>3. relReq' = ((relReq \/ l2.st >= 5) /\ LinkPrims(t) = {})
      BY <2>1
    <3> QED BY <3>1, <3>2, <3>3 DEF Pends
  <2>5. Recalls(t)
    BY <2>1 DEF Recalls
  <2>6. Carried(t)
    BY <2>3, ActiveKept
  <2>7. Lawful(t, 0)
    BY <2>3, <2>4, <2>5, <2>6 DEF Lawful
  <2> QED BY <2>1, <2>7 DEF Lawfully
<1> QED BY <1>2, <1>3, <1>4, <1>5 DEF Layer3

LEMMA MdlLawful == LossInv /\ Mdl => Lawfully
<1> SUFFICES ASSUME LossInv, Mdl PROVE Lawfully
  OBVIOUS
<1>1. At(l2) /\ Safe(l2)
  BY LossAt DEF At
<1>2. CASE MdlAssign
  BY <1>1, <1>2, FaresCall, SafeEvMdlAssign, FaresMdl DEF MdlAssign, Call
<1>3. CASE MdlError
  BY <1>1, <1>3, FaresCall, SafeEvMdlError, FaresMdl DEF MdlError, Call
<1>4. CASE MdlRemove
  BY <1>1, <1>4, FaresCall, SafeEvMdlRemove, FaresMdl DEF MdlRemove, Call
<1> QED BY <1>2, <1>3, <1>4 DEF Mdl

LEMMA LowerLawful == LossInv /\ (Layer1 \/ T200 \/ T203) => Lawfully
<1> SUFFICES ASSUME LossInv, Layer1 \/ T200 \/ T203 PROVE Lawfully
  OBVIOUS
<1>1. At(l2) /\ Safe(l2)
  BY LossAt DEF At
<1>2. CASE L1Activate
  <2> DEFINE t == PhActivate(l2)
  <2>1. Step(t, 0) /\ (relReq /\ LinkPrims(t) = {} => relReq')
    BY <1>2 DEF L1Activate, Call, Released
  <2>2. /\ Safe(t) /\ Bears(l2, t, 0) /\ t.l1Activ
        /\ t.st = 5 /\ t.pendRel => l2.st = 5 /\ l2.pendRel
    <3>1. l2.st \in {7, 8} => l2.l1Activ
      BY DEF LossInv
    <3> QED BY <1>1, <3>1, SafePhActivate, BearsPhActivate
  <2> HIDE DEF t
  <2>3. Recalls(t) /\ Pends(t) /\ Carried(t)
    BY <2>1, <2>2 DEF Recalls, Pends, Carried
  <2>4. Lawful(t, 0)
    BY <2>2, <2>3 DEF Lawful
  <2> QED BY <2>1, <2>4 DEF Lawfully
<1>3. CASE L1Deactivate
  <2> DEFINE t == PhDeactivate(l2)
  <2>1. Step(t, 0) /\ (relReq /\ LinkPrims(t) = {} => relReq')
    BY <1>3 DEF L1Deactivate, Call, Released
  <2>2. Safe(t) /\ Bears(l2, t, 0) /\ t.st \in {1, 4}
    BY <1>1, SafePhDeactivate, BearsPhDeactivate
  <2> HIDE DEF t
  <2>3. Recalls(t) /\ Pends(t) /\ Carried(t)
    BY <2>1, <2>2 DEF Recalls, Pends, Carried
  <2>4. Lawful(t, 0)
    BY <2>2, <2>3 DEF Lawful
  <2> QED BY <2>1, <2>4 DEF Lawfully
<1>4. ASSUME NEW busy \in BOOLEAN, DChanBusy(busy) PROVE Lawfully
  BY <1>1, <1>4, FaresCall, SafePhPause, FaresPh DEF DChanBusy, Call
<1>5. CASE TxDone
  BY <1>1, <1>5, FaresCall, SafePhTxDone, FaresPh DEF TxDone, Call
<1>6. CASE PullConfirm
  BY <1>1, <1>6, FaresCall, SafePhPullConfirm, FaresPull DEF PullConfirm, Call
<1>7. CASE T200
  BY <1>1, <1>7, FaresCall, SafeEvT200, FaresT200 DEF T200, Call
<1>8. CASE T203
  BY <1>1, <1>8, FaresCall, SafeEvT203, FaresT203 DEF T203, Call
<1> QED BY <1>2, <1>3, <1>4, <1>5, <1>6, <1>7, <1>8 DEF Layer1

LEMMA LossInit == Init => LossInv
<1> SUFFICES ASSUME Init PROVE LossInv
  OBVIOUS
<1>1. ~lost /\ l2.st \in {1, 4}
  BY DEF Init, InitL2
<1> QED BY <1>1, IInit, InitReady DEF LossInv

\* Of a release layer 3 is told, whatever it then asks.
LEMMA HastySays ==
    ASSUME At(l2), NEW s, HastyEnd(s)
    PROVE  Says(s)
<1>1. Known(l2) /\ l2.up = <<>>
  BY AtKnown
<1>2. CASE s = EvDM(l2, UFrame("DM", TRUE, TRUE)) /\ l2.st = 5
  <2>1. s = l2_st5_dm_release(l2, TRUE)
    BY <1>2 DEF EvDM, UFrame
  <2> QED BY <1>1, <2>1 DEF l2_st5_dm_release, Says, DownPrims, One
<1>3. CASE s = EvMdlError(l2) /\ l2.st = 3
  BY <1>1, <1>3, EndsSay DEF EvMdlError
<1>4. CASE s = EvMdlRemove(l2) /\ l2.st \in {7, 8}
  <2>1. s = l2_tei_remove(l2)
    BY <1>4 DEF EvMdlRemove
  <2> QED BY <1>1, <2>1, EndsSay
<1>5. CASE s = PhDeactivate(l2) /\ l2.st \in {3, 5, 7, 8}
  <2> DEFINE u == [l2 EXCEPT !.l1Activ = FALSE]
  <2>1. Known(u) /\ u.up = <<>> /\ u.st = l2.st
    BY <1>1
  <2>2. s = EvL1Deactivate(u)
    BY <1>5 DEF PhDeactivate
  <2> HIDE DEF u
  <2>3. s \in {l2_st3_tei_remove(u), l2_st5_persistant_da(u), l2_persistant_da(u)}
    BY <1>5, <2>1, <2>2 DEF EvL1Deactivate
  <2> QED BY <2>1, <2>3, EndsSay
<1> QED BY <1>2, <1>3, <1>4, <1>5 DEF HastyEnd

LEMMA HastyLoss ==
    ASSUME LossInv, Hasty, IInv', ReadyInv'
    PROVE  LossInv'
<1>1. At(l2)
  BY LossAt
<1>2. "st" \in DOMAIN l2
  BY <1>1, AtKnown
<1>3. PICK s : HastyEnd(s)
  BY <1>2, HastyEnds
<1> DEFINE t == Overtake(s)
<1>4. Says(s)
  BY <1>1, <1>3, HastySays
<1>5. Shape(s) /\ Timers(s) /\ Clean(s) /\ s.st \in {1, 4}
  BY <1>3, HastyDone DEF LossInv, Done, Sound, Fine, HastyEnd
<1>6. Flag(s) /\ s.iq = <<>> /\ s.win = EmptyWin
  BY <1>5 DEF Timers, Clean
<1>7. Shape(t) /\ t.st = s.st /\ t.up = s.up
  BY <1>5, <1>6, OvertakeIs
<1>8. Effect(t, 0)
  BY <1>3 DEF HastyEnd, HastyCall
<1> HIDE DEF t
<1>9. LinkPrims(t) # {}
  BY <1>4, <1>7, SaysLink DEF Says
<1>10. ~lost'
  BY <1>8, <1>9 DEF Effect
<1>11. l2'.st \in {1, 4}
  BY <1>5, <1>7, <1>8, FreshFields DEF Effect
<1> QED BY <1>10, <1>11 DEF LossInv

LEMMA LossNext == LossInv /\ [Next]_vars => LossInv'
<1> SUFFICES ASSUME LossInv, [Next]_vars PROVE LossInv'
  OBVIOUS
<1>1. IInv' /\ ReadyInv'
  BY INext, NextReady DEF LossInv
<1>2. CASE Next
  <2>1. Lawfully \/ Hasty
    BY <1>2, ULawful, NumberedLawful, Layer3Lawful, MdlLawful, LowerLawful DEF Next
  <2> QED BY <1>1, <2>1, StepLoss, HastyLoss DEF Lawfully
<1>3. CASE UNCHANGED vars
  BY <1>1, <1>3 DEF vars, LossInv, Fate
<1> QED BY <1>2, <1>3

\* Data that layer 2 took from layer 3 and then gave up is never lost in silence:
\* by the time the link is up or down again layer 3 was told of a new link or of
\* the end of the old one, or had itself asked for the end.  For any window,
\* modulus and number of retries, behind any peer.
THEOREM LossTold == Spec => []NoSilentLoss
<1>1. LossInv => NoSilentLoss
  BY DEF LossInv, Fate, NoSilentLoss
<1> QED BY LossInit, LossNext, <1>1, PTL DEF Spec
=============================================================================

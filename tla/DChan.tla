--------------------------------- MODULE DChan ---------------------------------
(***************************************************************************)
(* The D channel of a HiSax card: the link control of layer 3 (isdnl3.c)   *)
(* with its call processes, over one LAPD entity (Isdnl2) with its TEI     *)
(* manager (tei.c).  Layer 1 and the network do what they like.            *)
(*                                                                         *)
(* The layers call each other from inside their handlers.  A call upwards  *)
(* is answered by calls downwards before it returns, and some handlers of  *)
(* layer 2 make it before they change their own state: see Deliver.        *)
(***************************************************************************)
EXTENDS Isdnl2, FiniteSets

CONSTANTS
    Procs,      \* call references: one l3_process each
    MaxQ        \* bound: messages that wait in squeue and in i_queue

ASSUME DChanAssumption == LAPD /\ MaxQ \in Nat /\ IsFiniteSet(Procs)

VARIABLE d
vars == d

(***************************************************************************)
(* What manstatelist of l3dss1.c tells apart: overlap is state 2, active   *)
(* is state 10, setup and clearing are those before and after them.  A     *)
(* call is offered (state 6) until it has sent its first message.          *)
(***************************************************************************)
CallStates == {"none", "offered", "setup", "overlap", "active", "clearing"}
LcStates == {"REL", "ESTAB_WAIT", "REL_DELAY", "REL_WAIT", "ESTAB"}

DState ==
    [l2 : L2State,
     ptp : BOOLEAN,                 \* FLG_PTP, FLG_FIXED_TEI: one terminal only
     lc : LcStates,                 \* l3m.state
     drel : BOOLEAN,                \* l3m_timer is pending
     sq : Nat,                      \* messages in squeue
     proc : [Procs -> CallStates],
     t309 : SUBSET Procs,           \* processes whose timer is T309
     tei : {"NOP", "IDREQ", "IDVERIFY"},
     t202 : BOOLEAN, n202 : 0 .. 3,
     orphan : BOOLEAN,              \* a request for the link went astray
     blind : BOOLEAN]               \* ST_L3_LC_ESTAB was entered without a link

Msg == CHOOSE m \in Data : TRUE
Calls(S) == {p \in Procs : S.proc[p] # "none"}
Active(S) == {p \in Procs : S.proc[p] = "active"}
LinkUp(s) == s.st \in {5, 7, 8}

-----------------------------------------------------------------------------
(* The TEI manager *)

tei_id_request(S) ==
    IF S.tei # "NOP" \/ S.l2.tei THEN S
    ELSE [S EXCEPT !.tei = "IDREQ", !.t202 = TRUE, !.n202 = 3]

tei_id_verify(S) ==
    IF S.tei # "NOP" THEN S
    ELSE [S EXCEPT !.tei = "IDVERIFY", !.t202 = TRUE, !.n202 = 2]

\* What layer 2 asks of the managers: a TEI (a fixed one is assigned at
\* once), or, after the errors C, D, G and H, to check the one it has.
tei_l2tei(S) ==
    LET asks == "MDL_ASSIGN" \in S.l2.req
        error_handling_dchan == S.l2.req \cap {"C", "D", "G", "H"} # {}
        T == [S EXCEPT !.l2.req = {}]
        U == IF ~asks THEN T
             ELSE IF T.ptp THEN [T EXCEPT !.l2 = EvMdlAssign(@)]
             ELSE tei_id_request(T)
    IN  IF error_handling_dchan /\ ~U.ptp THEN tei_id_verify(U) ELSE U

-----------------------------------------------------------------------------
(* Layer 3: the link control *)

\* Mutant: a link that is being released is not asked for again.
lc_activate_bug(S) ==
    tei_l2tei([S EXCEPT !.lc = "ESTAB_WAIT", !.orphan = FALSE,
                        !.l2 = IF S.lc = "REL_WAIT" THEN @ ELSE DlEstablishReq(@)])
lc_activate(S) ==
    LET dropped == /\ S.l2.l1Activ
                   /\ S.l2.st = 6 \/ (S.l2.st = 3 /\ S.tei # "IDREQ")
    IN  tei_l2tei([S EXCEPT !.lc = "ESTAB_WAIT", !.orphan = dropped,
                            !.l2 = DlEstablishReq(@)])

lc_start_delay(S) == [S EXCEPT !.lc = "REL_DELAY", !.drel = TRUE, !.orphan = FALSE]

\* n messages go to layer 2, which drops what it cannot take.
Repeat(op(_), s, n) ==
    LET done[k \in 0 .. n] == IF k = 0 THEN s ELSE op(done[k - 1])
    IN  done[n]
SendMsg(s) == EvDlData(s, Msg)
Sent(s, n) == Repeat(SendMsg, s, n)
SendAll(S, n) == [S EXCEPT !.l2 = Sent(@, n)]

\* l3ml3p(DL_ESTABLISH | INDICATION): a call in overlap is cleared, with a
\* DISCONNECT.
Overlap(S) == {p \in Procs : S.proc[p] = "overlap"}
dl_reset(S) ==
    [S EXCEPT !.proc = [p \in Procs |-> IF p \in Overlap(S) THEN "clearing" ELSE @[p]]]

\* l3ml3p(DL_ESTABLISH | CONFIRM): an active call sends its status.
dl_reest_status(S) == [S EXCEPT !.t309 = @ \ Active(S)]

\* What is in squeue goes out, and then the messages of the processes.
lc_connect(S) ==
    LET T == SendAll(dl_reset([S EXCEPT !.lc = "ESTAB", !.orphan = FALSE, !.sq = 0]),
                     S.sq + Cardinality(Overlap(S)))
    IN  IF Calls(S) = {} /\ S.sq > 0 THEN lc_start_delay(T) ELSE T

lc_connected(S) ==
    LET T == SendAll(dl_reest_status([S EXCEPT !.lc = "ESTAB", !.drel = FALSE,
                                               !.orphan = FALSE, !.sq = 0,
                                               !.blind = ~LinkUp(S.l2)]),
                     S.sq + Cardinality(Active(S)))
    IN  IF Calls(S) = {} /\ S.sq > 0 THEN lc_start_delay(T) ELSE T

EvEstablishReq(S) ==
    CASE S.lc \in {"REL", "REL_WAIT"} -> lc_activate(S)
      [] S.lc = "REL_DELAY" -> lc_connected(S)
      [] OTHER -> S

EvReleaseReq(S) == IF S.lc \in {"ESTAB_WAIT", "ESTAB"} THEN lc_start_delay(S) ELSE S

\* l3dss1_dl_reestablish of the active calls, which ask for the link in
\* ST_L3_LC_REL; l3dss1_dl_release of the rest.
\* Mutant: T309 is not started.
dl_release_ind_bug(S) ==
    LET keep == Active(S)
        T == [S EXCEPT !.proc = [p \in Procs |-> IF p \in keep THEN @[p] ELSE "none"]]
    IN  IF keep = {} THEN T ELSE lc_activate(T)
dl_release_ind(S) ==
    LET keep == Active(S)
        T == [S EXCEPT !.proc = [p \in Procs |-> IF p \in keep THEN @[p] ELSE "none"],
                       !.t309 = keep]
    IN  IF keep = {} THEN T ELSE lc_activate(T)

\* Mutant: squeue is not purged.
lc_release_ind_bug(S) ==
    dl_release_ind([S EXCEPT !.lc = "REL", !.drel = FALSE,
                             !.orphan = FALSE, !.blind = FALSE])
lc_release_ind(S) ==
    dl_release_ind([S EXCEPT !.lc = "REL", !.drel = FALSE, !.sq = 0,
                             !.orphan = FALSE, !.blind = FALSE])

\* No process handles DL_RELEASE | CONFIRM.
lc_release_cnf(S) == [S EXCEPT !.lc = "REL", !.sq = 0, !.blind = FALSE]

\* The rows of L3FnList for the primitives of layer 2.
\* Mutant: no row for DL_RELEASE|IND in ST_L3_LC_ESTAB.
dss1up_bug(S, prim) ==
    CASE prim \in {"DL_ESTABLISH_IND", "DL_ESTABLISH_CNF"} /\ S.lc = "REL" -> lc_connect(S)
      [] prim = "DL_ESTABLISH_CNF" /\ S.lc = "ESTAB_WAIT" -> lc_connected(S)
      [] prim = "DL_RELEASE_IND" /\ S.lc \in {"ESTAB_WAIT", "REL_DELAY"} ->
             lc_release_ind(S)
      [] prim = "DL_RELEASE_CNF" /\ S.lc = "REL_WAIT" -> lc_release_cnf(S)
      [] OTHER -> S
dss1up(S, prim) ==
    CASE prim \in {"DL_ESTABLISH_IND", "DL_ESTABLISH_CNF"} /\ S.lc = "REL" -> lc_connect(S)
      [] prim = "DL_ESTABLISH_CNF" /\ S.lc = "ESTAB_WAIT" -> lc_connected(S)
      [] prim = "DL_RELEASE_IND" /\ S.lc \in {"ESTAB_WAIT", "REL_DELAY", "ESTAB"} ->
             lc_release_ind(S)
      [] prim = "DL_RELEASE_CNF" /\ S.lc = "REL_WAIT" -> lc_release_cnf(S)
      [] OTHER -> S

(***************************************************************************)
(* What follows from a handler of layer 2 that leads to s2.  If it tells   *)
(* layer 3 before it changes its state (first), then layer 3 still finds   *)
(* the old state, and what it asks for in it is undone by the change.  No  *)
(* handler says more than one thing about the link.                        *)
(***************************************************************************)
Deliver(S, s2, first) ==
    LET old == S.l2.st
        T == tei_l2tei([S EXCEPT !.l2 = [s2 EXCEPT !.up = <<>>,
                                                    !.st = IF first THEN old ELSE @]])
        told == {s2.up[i].p : i \in 1 .. Len(s2.up)} \ {"DL_DATA_IND"}
        U == IF told = {} THEN T ELSE dss1up(T, CHOOSE prim \in told : TRUE)
        undone == /\ first /\ "DL_RELEASE_IND" \in told
                  /\ U.lc = "ESTAB_WAIT" /\ U.l2.l1Activ
    IN  [U EXCEPT !.l2.st = IF first THEN s2.st ELSE @,
                  !.orphan = @ \/ undone]

\* The step of the D channel that ends in S.
Becomes(S) == d' = [S EXCEPT !.l2 = Fresh(@)]

-----------------------------------------------------------------------------
(* Frames from the network, to this TEI *)

\* The busy condition of the peer makes no difference to the layers above: L2Peer
\* has it.
Frames ==
    LET f(t, rsp, pf, nr) ==
            [t |-> t, rsp |-> rsp, pf |-> pf, ns |-> 0, nr |-> nr, d |-> NoSkb]
    IN  {f(t, FALSE, TRUE, 0) : t \in {"SABME", "DISC"}}
        \cup {f(t, TRUE, pf, 0) : t \in {"UA", "DM"}, pf \in BOOLEAN}
        \cup {f("RR", rsp, pf, nr) : rsp \in BOOLEAN, pf \in BOOLEAN, nr \in SeqNo}

Reached == d.l2.l1Activ /\ d.l2.tei

RcvFrame(f) ==
    Reached /\ Becomes(Deliver(d, PhData(d.l2, f, <<>>, <<>>),
                               d.l2.st = 5 /\ f.t = "DM"))

-----------------------------------------------------------------------------
(* Layer 3: messages of the call processes *)

Room == Len(d.l2.iq) + d.sq < MaxQ

\* l3_msg(DL_DATA | REQUEST)
l3_msg(S) ==
    IF S.lc = "ESTAB" THEN [S EXCEPT !.l2 = EvDlData(@, Msg)]
    ELSE EvEstablishReq([S EXCEPT !.sq = @ + 1])

\* release_l3_process: the last one starts the release of the link, but not
\* while messages wait for it.
release_l3_process(S, p) ==
    LET T == [S EXCEPT !.proc[p] = "none", !.t309 = @ \ {p}]
    IN  IF Calls(T) = {} /\ ~T.ptp /\ T.sq = 0 THEN EvReleaseReq(T) ELSE T

\* Process p goes to state new, and may send a message: it changes its state
\* before it sends, and is freed afterwards.
Proceed(S, p, new, sends) ==
    LET T == IF new = "none" THEN S
             ELSE [S EXCEPT !.proc[p] = new,
                            !.t309 = IF new = "active" THEN @ ELSE @ \ {p}]
        U == IF sends THEN l3_msg(T) ELSE T
    IN  IF new = "none" THEN release_l3_process(U, p) ELSE U

\* A process sends a message and changes its state: SETUP, DISCONNECT and
\* RELEASE of the user or a timer, and messages that leave the state alone.
Sends(p, new) ==
    /\ Room
    /\ <<d.proc[p], new>> \in
           {<<"none", "setup">>, <<"offered", "setup">>, <<"setup", "setup">>,
            <<"overlap", "overlap">>, <<"active", "active">>, <<"clearing", "clearing">>,
            <<"offered", "none">>, <<"setup", "none">>}
           \cup {<<s, "clearing">> : s \in {"offered", "setup", "overlap", "active"}}
    /\ Becomes(Proceed(d, p, new, TRUE))

\* T308 for the second time, or nobody wants the call: the process goes
\* without a message.
GivesUp(p) ==
    /\ d.proc[p] \in {"clearing", "offered"}
    /\ Becomes(release_l3_process(d, p))

\* A call that comes in by broadcast, before layer 3 answers it.
Incoming(p) ==
    /\ d.proc[p] = "none" /\ d.l2.l1Activ
    /\ Becomes([d EXCEPT !.proc[p] = "offered"])

\* A message of the network in an I frame, and the answer of the process:
\* SETUP_ACK, CALL_PROCEEDING, CONNECT, DISCONNECT, RELEASE, RELEASE_COMPLETE.
Answer(state, new, answers) ==
    \/ state # "none" /\ new = "none"
    \/ <<state, new, answers>> \in
           {<<"setup", "overlap", FALSE>>, <<"overlap", "setup", FALSE>>,
            <<"setup", "active", FALSE>>, <<"overlap", "active", FALSE>>,
            <<"setup", "clearing", TRUE>>, <<"overlap", "clearing", TRUE>>,
            <<"active", "clearing", TRUE>>}
NextI == [t |-> "I", rsp |-> FALSE, pf |-> FALSE,
          ns |-> d.l2.vr, nr |-> d.l2.vs, d |-> Msg]
Receives(p, new, answers) ==
    /\ Reached /\ d.l2.st \in {7, 8}
    /\ answers => Room
    /\ new = "active" => d.sq = 0       \* the network knows of the call
    /\ Answer(d.proc[p], new, answers)
    /\ Becomes(Proceed(Deliver(d, EvI(d.l2, NextI, <<>>, <<>>), FALSE), p, new, answers))

\* l3dss1_dl_release
T309(p) ==
    /\ p \in d.t309
    /\ Becomes(IF d.proc[p] = "active" THEN release_l3_process(d, p)
               ELSE [d EXCEPT !.t309 = @ \ {p}])

\* lc_release_req, of the timer of REL_DELAY.  FLG_L2BLOCK postpones it.
DelayEnds ==
    /\ d.drel
    /\ LET S == [d EXCEPT !.drel = FALSE]
       IN  Becomes(CASE S.lc # "REL_DELAY" -> S
                     [] S.l2.l2block -> d
                     [] OTHER -> Deliver([S EXCEPT !.lc = "REL_WAIT"],
                                         DlReleaseReq(S.l2), FALSE))

\* DL_ESTABLISH | REQUEST for a point-to-point line (CallcNewChan, and the
\* ISDN_CMD_IOCTL that sets this mode).
Watch == d.ptp /\ Becomes(EvEstablishReq(d))

-----------------------------------------------------------------------------
(* Messages of the network to the TEI manager, and T202 *)

\* ID_ASSIGNED for the reference number of the pending request.
tei_id_assign ==
    /\ d.tei = "IDREQ" /\ d.l2.l1Activ
    /\ Becomes(Deliver([d EXCEPT !.tei = "NOP", !.t202 = FALSE],
                       EvMdlAssign(d.l2), FALSE))

tei_id_chk_req ==
    /\ d.tei # "IDREQ" /\ d.l2.tei /\ d.l2.l1Activ /\ ~d.ptp
    /\ Becomes([d EXCEPT !.tei = "NOP", !.t202 = FALSE])

TellsFirst(s) == s.st \in {6, 7, 8}

tei_id_remove ==
    /\ d.tei # "IDREQ" /\ d.l2.tei /\ d.l2.l1Activ /\ ~d.ptp
    /\ Becomes(Deliver([d EXCEPT !.tei = "NOP", !.t202 = FALSE],
                       EvMdlRemove(d.l2), TellsFirst(d.l2)))

\* ID_ASSIGNED of the same TEI to another terminal (tei_id_test_dup).
tei_id_test_dup ==
    /\ d.tei = "NOP" /\ d.l2.tei /\ d.l2.l1Activ /\ ~d.ptp
    /\ Becomes(tei_id_verify(d))

\* The manager calls layer 2 before it goes to ST_TEI_NOP, so that a request
\* for a TEI that layer 2 makes meanwhile is lost.
GiveUpTei(S, s2, first) ==
    LET U == Deliver(S, s2, first)
    IN  [U EXCEPT !.tei = "NOP",
                  !.orphan = @ \/ (U.l2.st = 3 /\ U.lc = "ESTAB_WAIT")]

Again(S) == [S EXCEPT !.n202 = @ - 1, !.t202 = TRUE]

tei_id_req_tout(S) ==
    IF S.n202 > 1 THEN Again(S)
    ELSE GiveUpTei([S EXCEPT !.n202 = 0], EvMdlError(S.l2), S.l2.st = 3)

tei_id_ver_tout(S) ==
    IF S.n202 > 1 THEN Again(S)
    ELSE GiveUpTei([S EXCEPT !.n202 = 0], EvMdlRemove(S.l2), TellsFirst(S.l2))

T202 ==
    /\ d.t202
    /\ LET S == [d EXCEPT !.t202 = FALSE]
       IN  Becomes(IF d.tei = "IDREQ" THEN tei_id_req_tout(S) ELSE tei_id_ver_tout(S))

-----------------------------------------------------------------------------
(* Layer 1, the transmitter and the timers of layer 2 *)

L1Up == Becomes(Deliver(d, PhActivate(d.l2), FALSE))
L1Down == Becomes(Deliver(d, PhDeactivate(d.l2), d.l2.st \in {3, 5, 6, 7, 8}))
TxDone == d.l2.txBusy /\ Becomes([d EXCEPT !.l2 = PhTxDone(@)])
PullConfirm ==
    ~d.l2.txBusy /\ d.l2.pullReq /\ Becomes([d EXCEPT !.l2 = PhPullConfirm(@)])
T200 == d.l2.t200 /\ Becomes(Deliver(d, EvT200(d.l2), FALSE))
T203 == d.l2.t203 /\ Becomes(Deliver(d, EvT203(d.l2), FALSE))

Init ==
    \E ptp \in BOOLEAN : d =
        [l2 |-> [InitL2(FALSE) EXCEPT !.tei = ptp], ptp |-> ptp,
         lc |-> "REL", drel |-> FALSE, sq |-> 0,
         proc |-> [p \in Procs |-> "none"], t309 |-> {},
         tei |-> "NOP", t202 |-> FALSE, n202 |-> 0,
         orphan |-> FALSE, blind |-> FALSE]

Network ==
    \/ \E f \in Frames : RcvFrame(f)
    \/ tei_id_assign \/ tei_id_chk_req \/ tei_id_remove \/ tei_id_test_dup
    \/ \E p \in Procs : Incoming(p)
    \/ \E p \in Procs, new \in CallStates, a \in BOOLEAN : Receives(p, new, a)

Next ==
    \/ Network \/ Watch \/ DelayEnds \/ T202 \/ T200 \/ T203
    \/ L1Up \/ L1Down \/ TxDone \/ PullConfirm
    \/ \E p \in Procs : GivesUp(p) \/ T309(p)
    \/ \E p \in Procs, new \in CallStates : Sends(p, new)

Spec == Init /\ [][Next]_vars

-----------------------------------------------------------------------------
(* Correctness *)

\* Messages wait in squeue only for a link that has been asked for; what was
\* meant for one link is never sent on a later one.
NoStaleMsg == d.sq > 0 => d.lc = "ESTAB_WAIT"

\* The release of the link that no call needs is always under way, and never
\* of one that calls use again; and a call that is active without its link is
\* under T309.
LinkTimers ==
    /\ d.drel <=> d.lc = "REL_DELAY"
    /\ \A p \in Active(d) : d.lc \in {"REL", "ESTAB_WAIT"} => p \in d.t309

\* While layer 3 waits for the link, something below it is at work on it,
\* unless its request was among those that layer 2 loses.
WaitServed ==
    d.lc = "ESTAB_WAIT" /\ ~d.orphan =>
        \/ d.l2.estabPend
        \/ d.l2.st = 3 /\ d.tei = "IDREQ" /\ d.t202
        \/ d.l2.st = 5 /\ d.l2.l3Init

\* Layer 3 takes the link for established only when layer 2 has it, or is
\* setting it up again.
BeliefMatches == d.lc = "ESTAB" /\ ~d.blind => LinkUp(d.l2)
=============================================================================

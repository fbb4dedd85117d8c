--------------------------------- MODULE Callc ---------------------------------
(***************************************************************************)
(* Call control of the HiSax driver: the state machine that each channel   *)
(* has for its call (callc.c), over the EDSS1 call processes of layer 3    *)
(* (l3dss1.c), between the link level and the network.                     *)
(*                                                                         *)
(* A channel and its process point at each other, and each may let go of   *)
(* the other first.  A process is a piece of memory: a pointer to one that *)
(* was freed stays what it is, and the memory may become another process.  *)
(*                                                                         *)
(* An operation maps a state s to the state after it; s.env holds what the *)
(* callees outside this module answer during the operation.  The network   *)
(* sends any message at any time.  Leased lines are left out.              *)
(***************************************************************************)
EXTENDS FiniteSets, Naturals

CONSTANTS
    BChans, Waiting,    \* channels of a card: with a B channel, for waiting calls
    Procs,              \* memory for call processes
    NoProc, NoChan

Channels == BChans \cup Waiting

\* A card has channels, and a null pointer points to nothing.
ASSUME Names == NoProc \notin Procs /\ NoChan \notin Channels /\ Channels # {}

VARIABLES
    ch,         \* struct Channel
    pr,         \* struct l3_process
    ll          \* what each channel told the link level, and was told by it

vars == <<ch, pr, ll>>

InStates == {"WAIT_LL", "ALERT_SENT", "WAIT_CONN_ACK", "PROCEED_SEND"}
BStates == {"WAIT_BCONN", "ACTIVE", "WAIT_BRELEASE", "WAIT_BREL_DISC"}
States == InStates \cup BStates \cup
    {"NULL", "OUT_DIAL", "WAIT_DCOMMAND", "WAIT_DRELEASE", "WAIT_D_REL_CNF"}
L3States == {0, 1, 2, 3, 4, 6, 7, 8, 9, 10, 11, 12, 15, 17, 19, 25}
L3Timers == {"none", "T302", "T303", "T304", "T305", "T308_1", "T308_2", "T309",
             "T310", "T313", "T318", "T319"}

Channel ==
    [st : States, proc : Procs \cup {NoProc},
     start_b : BOOLEAN,                     \* FLG_START_B
     data_open : BOOLEAN,
     drel : BOOLEAN,                        \* drel_timer: EV_HANGUP
     dial : {"none", "DIAL", "RESUME"}]     \* dial_timer and its event

l3_process ==
    [live : BOOLEAN, st : L3States, chan : Channels \cup {NoChan},
     timer : L3Timers, n303 : 0 .. 1, bchannel : BOOLEAN]

LinkLevel ==
    [phase : {"null", "setup", "up", "data", "half"},   \* then DCONN, BCONN, BHUP
     hup : BOOLEAN]         \* HANGUP was issued for this call

\* What the link level answers to ISDN_STAT_ICALL: 0; 1 to ring; 1 after
\* ACCEPTD; 2 after HANGUP; 3; 4.
Answers == {"ignore", "ring", "accept", "reject", "more", "proceed"}

\* What happens to the callbacks.
Tell(s, c, phase) == [s EXCEPT !.ll[c].phase = phase]
ChangeState(s, c, st) == [s EXCEPT !.ch[c].st = st]
HungUp(s, c) == [s EXCEPT !.ll[c].hup = TRUE]
StopDrel(s, c) == [s EXCEPT !.ch[c].drel = FALSE]
NewCall(s, c) == [s EXCEPT !.ll[c] = [phase |-> "setup", hup |-> FALSE]]

-----------------------------------------------------------------------------
(* Layer 3: requests of a channel to its process (downstatelist) *)

L3(s, p, st, timer) == [s EXCEPT !.pr[p].st = st, !.pr[p].timer = timer]
L3AddTimer(s, p, t) == IF s.pr[p].timer = "none" THEN [s EXCEPT !.pr[p].timer = t] ELSE s
L3DelTimer(s, p) == [s EXCEPT !.pr[p].timer = "none"]
newl3state(s, p, st) == [s EXCEPT !.pr[p].st = st]
release_l3_process(s, p) ==
    [s EXCEPT !.pr[p] = [@ EXCEPT !.live = FALSE, !.timer = "none", !.chan = NoChan]]

\* A request without a process, or that its state does not handle, is dropped.
\* The state of a process that was freed is read all the same.
InState(s, p, S) == p # NoProc /\ s.pr[p].st \in S

\* Mutant: without L3DelTimer.
l3dss1_disconnect_req_bug(s, p) == newl3state(L3AddTimer(s, p, "T305"), p, 11)
l3dss1_disconnect_req(s, p) == L3(s, p, 11, "T305")
l3dss1_release_req(s, p) == L3(s, p, 19, "T308_1")

CC_DISCONNECT(s, p) ==
    IF InState(s, p, {1, 2, 3, 4, 6, 7, 8, 9, 10, 25})
    THEN l3dss1_disconnect_req(s, p) ELSE s
CC_RELEASE(s, p) == IF InState(s, p, {12}) THEN l3dss1_release_req(s, p) ELSE s
CC_ALERTING(s, p) ==
    IF InState(s, p, {6, 9, 25}) THEN newl3state(s, p, 7) ELSE s
CC_PROCEED_SEND(s, p) ==
    IF InState(s, p, {6, 25}) THEN newl3state(s, p, 9) ELSE s
CC_MORE_INFO(s, p) == IF InState(s, p, {6}) THEN L3(s, p, 25, "T302") ELSE s
CC_IGNORE(s, p) == IF InState(s, p, {6, 25}) THEN release_l3_process(s, p) ELSE s
CC_SETUP_RESPONSE(s, p) ==
    IF ~InState(s, p, {6, 7, 9, 25}) THEN s
    ELSE IF s.pr[p].bchannel THEN L3(s, p, 8, "T313")
    ELSE l3dss1_disconnect_req(s, p)
\* A deflection without a number clears the call.
CC_REDIR(s, p) ==
    IF InState(s, p, {6, 7, 9, 25}) THEN l3dss1_disconnect_req(s, p) ELSE s
CC_SUSPEND(s, p) ==
    IF InState(s, p, {10}) THEN newl3state(L3AddTimer(s, p, "T319"), p, 15) ELSE s

\* CC_SETUP | REQUEST and CC_RESUME | REQUEST create the process.
new_process(s, c, st, timer) ==
    [s EXCEPT !.ch[c].proc = s.env.new,
              !.pr[s.env.new] = [live |-> TRUE, st |-> st, chan |-> c, timer |-> timer,
                                 n303 |-> 1, bchannel |-> TRUE]]

-----------------------------------------------------------------------------
(* The routines of the channel *)

\* To a link level that was not told STAT_BHUP the call has not ended.
lli_close(s, c) ==
    [s EXCEPT !.ch[c].st = "NULL", !.ch[c].start_b = FALSE,
              !.ll[c] = IF @.phase = "data" THEN @ ELSE [phase |-> "null", hup |-> FALSE]]

\* The channel is closed and its process goes on, or the other way round: the
\* call of a channel that was answered with 4 ends in ST_IN_PROCEED_SEND, or
\* nobody answers a RESUME.  What comes then, of a pointer to memory that may
\* have become another process, is not explored.
Lose(s) == [s EXCEPT !.lost = TRUE]

\* Sends STAT_DHUP.
lli_dhup_close(s, c) == lli_close(s, c)

lli_disconnect_req(s, c) ==
    CC_DISCONNECT(ChangeState(s, c, "WAIT_DRELEASE"), s.ch[c].proc)
lli_release_req(s, c) ==
    CC_RELEASE(ChangeState(s, c, "WAIT_D_REL_CNF"), s.ch[c].proc)

lli_reject_req(s, c) ==
    CC_ALERTING([ChangeState(s, c, "ALERT_SENT") EXCEPT !.ch[c].drel = TRUE], s.ch[c].proc)

release_b_st(s, c) == [s EXCEPT !.ch[c].start_b = FALSE]

\* The B channel may fail to be set up (BC_SetStack).
lli_init_bchan(s, c) ==
    [Tell(ChangeState(s, c, "WAIT_BCONN"), c, "up") EXCEPT !.ch[c].start_b = s.env.bc]

lli_go_active(s, c) ==
    [Tell(ChangeState(s, c, "ACTIVE"), c, "data") EXCEPT !.ch[c].data_open = TRUE]

\* DL_RELEASE | REQUEST to the B channel, which will confirm.
\* Mutant: data goes on to the link level.
close_data_bug(s, c, st) == ChangeState(s, c, st)
close_data(s, c, st) == [ChangeState(s, c, st) EXCEPT !.ch[c].data_open = FALSE]
lli_disconn_bchan(s, c) == close_data(s, c, "WAIT_BRELEASE")
lli_release_bchan(s, c) == close_data(s, c, "WAIT_BREL_DISC")

lli_bhup_rel_b(s, c) == release_b_st(Tell(close_data(s, c, "WAIT_DCOMMAND"), c, "half"), c)
lli_rel_b_disc(s, c) == lli_disconnect_req(release_b_st(s, c), c)
lli_bhup_disc(s, c) == lli_rel_b_disc(Tell(s, c, "half"), c)
lli_rel_b_dhup(s, c) == lli_dhup_close(release_b_st(s, c), c)
\* Mutant: without STAT_BHUP.
lli_bhup_dhup_bug(s, c) == lli_rel_b_dhup(s, c)
lli_bhup_dhup(s, c) == lli_rel_b_dhup(Tell(s, c, "half"), c)
lli_abort(s, c) == lli_bhup_dhup([s EXCEPT !.ch[c].data_open = FALSE], c)
lli_rel_b_release_req(s, c) == lli_release_req(release_b_st(s, c), c)
lli_bhup_release_req(s, c) == lli_rel_b_release_req(Tell(s, c, "half"), c)

lli_setup_rsp(s, c) ==
    CC_SETUP_RESPONSE(ChangeState(s, c, "WAIT_CONN_ACK"), s.ch[c].proc)
lli_send_dconnect(s, c) == lli_setup_rsp(s, c)

lli_prep(s, c, st, timer) ==
    new_process(NewCall([s EXCEPT !.ch[c].st = "OUT_DIAL", !.ch[c].drel = FALSE,
                                  !.ch[c].dial = "none"], c), c, st, timer)
lli_prep_dialout(s, c) == lli_prep(s, c, 1, "T303")
lli_resume(s, c) == lli_prep(s, c, 17, "T318")

-----------------------------------------------------------------------------
(* The events of the channel (fnlist): an event that the state does not    *)
(* know is dropped                                                         *)

In(s, c, S) == s.ch[c].st \in S

EvDial(s, c) == IF In(s, c, {"NULL"}) THEN lli_prep_dialout(s, c) ELSE s
EvResume(s, c) == IF In(s, c, {"NULL"}) THEN lli_resume(s, c) ELSE s

EvSetupCnf(s, c) == IF In(s, c, {"OUT_DIAL"}) THEN lli_init_bchan(s, c) ELSE s

EvSetupCmplInd(s, c) ==
    IF In(s, c, {"ALERT_SENT", "WAIT_CONN_ACK"}) THEN lli_init_bchan(s, c) ELSE s

EvHangup(s, c) ==
    CASE In(s, c, {"WAIT_LL"}) -> lli_reject_req(s, c)
      [] In(s, c, {"OUT_DIAL", "ALERT_SENT", "PROCEED_SEND", "WAIT_CONN_ACK",
                   "WAIT_DCOMMAND"}) -> lli_disconnect_req(s, c)
      [] In(s, c, {"WAIT_BCONN"}) -> lli_rel_b_disc(s, c)
      [] In(s, c, {"ACTIVE"}) -> lli_disconn_bchan(s, c)
      [] OTHER -> s

EvDisconnectInd(s, c) ==
    CASE In(s, c, {"OUT_DIAL", "WAIT_LL", "ALERT_SENT", "WAIT_CONN_ACK",
                   "WAIT_DCOMMAND"}) -> lli_release_req(s, c)
      [] In(s, c, {"PROCEED_SEND"}) -> Lose(lli_dhup_close(s, c))
      [] In(s, c, {"WAIT_BCONN"}) -> lli_rel_b_release_req(s, c)
      [] In(s, c, {"ACTIVE"}) -> lli_release_bchan(s, c)
      [] In(s, c, {"WAIT_BRELEASE"}) -> lli_bhup_release_req(s, c)
      [] OTHER -> s

\* Mutant: the row of ST_WAIT_D_REL_CNF is missing.
EvRelease_bug(s, c) ==
    CASE In(s, c, {"OUT_DIAL", "WAIT_LL", "ALERT_SENT", "WAIT_CONN_ACK",
                   "WAIT_DCOMMAND", "WAIT_DRELEASE"}) -> lli_dhup_close(s, c)
      [] In(s, c, {"WAIT_BCONN"}) -> lli_rel_b_dhup(s, c)
      [] In(s, c, {"ACTIVE"}) -> lli_abort(s, c)
      [] In(s, c, {"WAIT_BRELEASE", "WAIT_BREL_DISC"}) -> lli_bhup_dhup(s, c)
      [] In(s, c, {"PROCEED_SEND"}) -> Lose(s)
      [] OTHER -> s
EvRelease(s, c) ==
    CASE In(s, c, {"OUT_DIAL", "WAIT_LL", "ALERT_SENT", "WAIT_CONN_ACK", "WAIT_DCOMMAND",
                   "WAIT_DRELEASE", "WAIT_D_REL_CNF"}) -> lli_dhup_close(s, c)
      [] In(s, c, {"WAIT_BCONN"}) -> lli_rel_b_dhup(s, c)
      [] In(s, c, {"ACTIVE"}) -> lli_abort(s, c)
      [] In(s, c, {"WAIT_BRELEASE", "WAIT_BREL_DISC"}) -> lli_bhup_dhup(s, c)
      [] In(s, c, {"PROCEED_SEND"}) -> Lose(s)
      [] OTHER -> s

EvAcceptd(s, c) ==
    CASE In(s, c, {"WAIT_LL"}) -> lli_setup_rsp(s, c)
      [] In(s, c, {"ALERT_SENT", "PROCEED_SEND"}) -> lli_send_dconnect(s, c)
      [] OTHER -> s

EvAlert(s, c) ==
    IF In(s, c, {"PROCEED_SEND"})
    THEN CC_ALERTING(ChangeState(s, c, "ALERT_SENT"), s.ch[c].proc) ELSE s
EvRedir(s, c) ==
    IF In(s, c, {"ALERT_SENT", "PROCEED_SEND"}) THEN CC_REDIR(s, s.ch[c].proc) ELSE s

EvBcEst(s, c) == IF In(s, c, {"WAIT_BCONN"}) THEN lli_go_active(s, c) ELSE s

\* Mutant: the row of ST_WAIT_BRELEASE is missing.
EvBcRel_bug(s, c) ==
    CASE In(s, c, {"WAIT_BCONN"}) -> lli_rel_b_disc(s, c)
      [] In(s, c, {"ACTIVE"}) -> lli_bhup_rel_b(s, c)
      [] In(s, c, {"WAIT_BREL_DISC"}) -> lli_bhup_release_req(s, c)
      [] OTHER -> s
EvBcRel(s, c) ==
    CASE In(s, c, {"WAIT_BCONN"}) -> lli_rel_b_disc(s, c)
      [] In(s, c, {"ACTIVE"}) -> lli_bhup_rel_b(s, c)
      [] In(s, c, {"WAIT_BRELEASE"}) -> lli_bhup_disc(s, c)
      [] In(s, c, {"WAIT_BREL_DISC"}) -> lli_bhup_release_req(s, c)
      [] OTHER -> s

EvSuspend(s, c) == IF In(s, c, {"ACTIVE"}) THEN CC_SUSPEND(s, s.ch[c].proc) ELSE s
EvNoSetupRsp(s, c) == IF In(s, c, {"OUT_DIAL"}) THEN lli_close(s, c) ELSE s
EvSetupErr(s, c) ==
    IF In(s, c, {"OUT_DIAL", "WAIT_LL"}) THEN ChangeState(s, c, "WAIT_DRELEASE") ELSE s
EvConnectErr(s, c) ==
    IF In(s, c, {"WAIT_CONN_ACK"}) THEN ChangeState(s, c, "WAIT_DRELEASE") ELSE s

\* lli_deliver_call.  The link level may issue ACCEPTD or HANGUP before its
\* callback returns.
lli_deliver_call(s, c) ==
    LET p == s.ch[c].proc
        t == ChangeState(NewCall(s, c), c, "WAIT_LL")
        quiet == StopDrel(t, c)
    IN  CASE s.env.ans = "ring" -> CC_ALERTING(ChangeState(quiet, c, "ALERT_SENT"), p)
          [] s.env.ans = "accept" ->
                 CC_ALERTING(ChangeState(EvAcceptd(quiet, c), c, "ALERT_SENT"), p)
          [] s.env.ans = "reject" -> EvHangup(HungUp(t, c), c)
          [] s.env.ans = "more" -> CC_MORE_INFO(quiet, p)
          [] s.env.ans = "proceed" ->
                 CC_PROCEED_SEND(ChangeState(quiet, c, "PROCEED_SEND"), p)
          [] OTHER -> Tell(ChangeState(CC_IGNORE(t, p), c, "NULL"), c, "null")

EvSetupInd(s, c) == IF In(s, c, {"NULL", "WAIT_LL"}) THEN lli_deliver_call(s, c) ELSE s

-----------------------------------------------------------------------------
(* Layer 3: messages and timers of a process (datastatelist, downstatelist, *)
(* manstatelist)                                                            *)

\* dchan_l3l4 for a process that has a channel.
l3l4(s, p, Ev(_, _)) == IF s.pr[p].chan = NoChan THEN s ELSE Ev(s, s.pr[p].chan)

\* The channel is told, and the process goes.
EndWith(s, p, Ev(_, _)) == release_l3_process(l3l4(s, p, Ev), p)

\* A DISCONNECT is sent, and the channel is told why.
GiveUp(s, p, Ev(_, _)) == l3l4(l3dss1_disconnect_req(s, p), p, Ev)

\* DISCONNECT; a faulty one is answered with RELEASE at once.
l3dss1_disconnect(s, p, faulty) ==
    LET t == L3(s, p, IF faulty THEN 19 ELSE 12, "none")
        u == IF s.pr[p].st # 11 THEN l3l4(t, p, EvDisconnectInd)
             ELSE IF faulty THEN t ELSE l3dss1_release_req(t, p)
    IN  IF faulty THEN L3AddTimer(u, p, "T308_1") ELSE u

l3dss1_connect(s, p) == l3l4(L3(s, p, 10, "none"), p, EvSetupCnf)

l3dss1_information(s, p) ==
    L3AddTimer(l3l4(L3DelTimer(s, p), p, EvSetupInd), p, "T302")

l3dss1_resume_ack(s, p) == newl3state(l3l4(L3DelTimer(s, p), p, EvSetupCnf), p, 10)

\* T303 sends the SETUP a second time.
SetupAgain(s, p) == [s EXCEPT !.pr[p].n303 = @ - 1, !.pr[p].timer = "T303"]
l3dss1_t303(s, p) ==
    IF s.pr[p].n303 > 0 THEN SetupAgain(s, p) ELSE EndWith(s, p, EvNoSetupRsp)

\* The process of a resume that nobody answered goes on without its channel.
l3dss1_t318(s, p) ==
    Lose(L3(l3l4(s, p, EvRelease), p, 19, "T308_1"))

Expire(s, p, t) ==
    LET u == L3DelTimer(s, p)
        st == s.pr[p].st
    IN  CASE t = "T302" /\ st = 25 -> GiveUp(u, p, EvSetupErr)
          [] t = "T303" /\ st = 1 -> l3dss1_t303(u, p)
          [] t = "T304" /\ st = 2 -> GiveUp(u, p, EvSetupErr)
          [] t = "T310" /\ st = 3 -> GiveUp(u, p, EvSetupErr)
          [] t = "T313" /\ st = 8 -> GiveUp(u, p, EvConnectErr)
          [] t = "T305" /\ st = 11 -> L3(u, p, 19, "T308_1")
          [] t = "T308_1" /\ st = 19 -> L3(u, p, 19, "T308_2")
          [] t = "T308_2" /\ st = 19 -> EndWith(u, p, EvRelease)
          [] t = "T309" /\ st = 10 -> EndWith(newl3state(u, p, 0), p, EvRelease)
          [] t = "T318" /\ st = 17 -> l3dss1_t318(u, p)
          [] t = "T319" /\ st = 15 -> newl3state(u, p, 10)
          [] OTHER -> u

\* What a message that the state handles does; msg is a member of Messages.
Handled(st, msg) ==
    st \in CASE msg = "CALL_PROCEEDING" -> {1, 2}
             [] msg = "SETUP_ACKNOWLEDGE" -> {1}
             [] msg = "ALERTING" -> {2, 3}
             [] msg = "CONNECT" -> {1, 2, 3, 4}
             [] msg = "CONNECT_ACKNOWLEDGE" -> {8}
             [] msg = "INFORMATION" -> {25}
             [] msg \in {"DISCONNECT", "DISCONNECT_faulty"} ->
                    {1, 2, 3, 4, 7, 8, 9, 10, 11, 15, 17, 25}
             [] msg = "RELEASE" -> {1, 2, 3, 4, 7, 8, 9, 10, 11, 12, 15, 17, 19, 25}
             [] msg = "RELEASE_COMPLETE" -> {1, 2, 3, 4, 7, 8, 10, 11, 12, 15, 17, 19, 25}
             [] msg = "STATUS_null" -> L3States
             [] msg \in {"SUSPEND_ACKNOWLEDGE", "SUSPEND_REJECT"} -> {15}
             [] msg \in {"RESUME_ACKNOWLEDGE", "RESUME_REJECT"} -> {17}
Messages == {"CALL_PROCEEDING", "SETUP_ACKNOWLEDGE", "ALERTING", "CONNECT",
             "CONNECT_ACKNOWLEDGE", "INFORMATION", "DISCONNECT", "DISCONNECT_faulty",
             "RELEASE", "RELEASE_COMPLETE", "STATUS_null", "SUSPEND_ACKNOWLEDGE",
             "SUSPEND_REJECT", "RESUME_ACKNOWLEDGE", "RESUME_REJECT"}

Receive(s, p, msg) ==
    CASE msg = "CALL_PROCEEDING" -> L3(s, p, 3, "T310")
      [] msg = "SETUP_ACKNOWLEDGE" -> L3(s, p, 2, "T304")
      [] msg = "ALERTING" -> L3(s, p, 4, "none")
      [] msg = "CONNECT" -> l3dss1_connect(s, p)
      [] msg = "CONNECT_ACKNOWLEDGE" -> l3l4(L3(s, p, 10, "none"), p, EvSetupCmplInd)
      [] msg = "INFORMATION" -> l3dss1_information(s, p)
      [] msg = "DISCONNECT" -> l3dss1_disconnect(s, p, FALSE)
      [] msg = "DISCONNECT_faulty" -> l3dss1_disconnect(s, p, TRUE)
      [] msg = "SUSPEND_REJECT" -> L3(s, p, 10, "none")
      [] msg = "RESUME_ACKNOWLEDGE" -> l3dss1_resume_ack(s, p)
      \* RELEASE, RELEASE_COMPLETE, STATUS_null, SUSPEND_ACKNOWLEDGE, RESUME_REJECT
      [] OTHER -> EndWith(s, p, EvRelease)

\* DL_RELEASE | INDICATION, of one process: an active call gets T309.
dl_release(s, p) ==
    IF s.pr[p].st = 10 THEN L3AddTimer(L3DelTimer(s, p), p, "T309")
    ELSE EndWith(newl3state(s, p, 0), p, EvRelease)

-----------------------------------------------------------------------------
(* The actions *)

S(env) == [ch |-> ch, pr |-> pr, ll |-> ll, lost |-> FALSE, env |-> env]
Now == S([ans |-> "ignore", bc |-> FALSE])
Do(t) == ~t.lost /\ ch' = t.ch /\ pr' = t.pr /\ ll' = t.ll
Free == {p \in Procs : ~pr[p].live}
Live == Procs \ Free

\* ISDN_CMD_DIAL, of a channel that is free; or of one that still has a call,
\* hung up or not (isdn_net_dial tries again): it will look again later.
DIAL(c) ==
    \/ /\ ll[c].phase = "null" /\ ch[c].st = "NULL"
       /\ \E p \in Free : Do(EvDial(S([new |-> p]), c))
    \/ /\ ch[c].st # "NULL"
       /\ Do([Now EXCEPT !.ch[c].dial = "DIAL"])

\* The CAPI facility to resume a call, the same way.
RESUME(c) ==
    \/ /\ ll[c].phase = "null" /\ ch[c].st = "NULL"
       /\ \E p \in Free : Do(EvResume(S([new |-> p]), c))
    \/ /\ ll[c].hup /\ ch[c].st # "NULL"
       /\ Do([Now EXCEPT !.ch[c].dial = "RESUME"])

\* dial_timer.  The DIAL of a channel that is still being cleared is answered
\* with STAT_DHUP if it is WAIT_DRELEASE or WAIT_D_REL_CNF, else it is lost.
DialTimer(c) ==
    /\ ch[c].dial # "none"
    /\ LET s(env) == [S(env) EXCEPT !.ch[c].dial = "none"]
       IN  IF ch[c].st # "NULL" THEN Do(s([ans |-> "ignore", bc |-> FALSE]))
           ELSE \E p \in Free :
                    IF ch[c].dial = "DIAL" THEN Do(EvDial(s([new |-> p]), c))
                    ELSE Do(EvResume(s([new |-> p]), c))

ACCEPTD(c) == ~ll[c].hup /\ ch[c].st \in InStates /\ Do(EvAcceptd(Now, c))

ALERT(c) == ~ll[c].hup /\ ch[c].st = "PROCEED_SEND" /\ Do(EvAlert(Now, c))

REDIR(c) ==
    ~ll[c].hup /\ ch[c].st \in {"ALERT_SENT", "PROCEED_SEND"} /\ Do(EvRedir(Now, c))

HANGUP(c) ==
    /\ ll[c].phase # "null"
    /\ Do(EvHangup(HungUp(Now, c), c))

DrelTimer(c) ==
    /\ ch[c].drel
    /\ Do(EvHangup(StopDrel(Now, c), c))

SUSPEND(c) == ch[c].st = "ACTIVE" /\ Do(EvSuspend(Now, c))

\* What layer 2 of the B channel has to say, as long as it is set up.
BcEst(c) == ch[c].start_b /\ ch[c].st = "WAIT_BCONN" /\ Do(EvBcEst(Now, c))
BcRel(c) == ch[c].start_b /\ Do(EvBcRel(Now, c))

\* A SETUP of the network: selectfreechannel.  A call without a channel is
\* rejected, which leaves nothing behind.
FreeOf(C) == {c \in C : ch[c].st = "NULL"}
SETUP(p) ==
    /\ p \in Free
    /\ \E bchannel \in BOOLEAN, ans \in Answers :
       \E c \in IF bchannel /\ FreeOf(BChans) # {} THEN FreeOf(BChans) ELSE FreeOf(Waiting) :
           Do(EvSetupInd(
               [S([ans |-> ans]) EXCEPT
                    !.ch[c].proc = p,
                    !.pr[p] = [live |-> TRUE, st |-> 6, chan |-> c, timer |-> "none",
                               n303 |-> 1, bchannel |-> bchannel]], c))

Message(p) ==
    /\ p \in Live
    /\ \E msg \in Messages, ans \in Answers, bc \in BOOLEAN :
           /\ Handled(pr[p].st, msg)
           /\ Do(Receive(S([ans |-> ans, bc |-> bc]), p, msg))

L3Timer(p) == pr[p].timer # "none" /\ Do(Expire(Now, p, pr[p].timer))

\* l3ml3p tells every process what happened to the data link: it is lost; it
\* was established by the network, or at the request of layer 3.
\* Each process reaches only itself and its channel, so the order is the same.
ForEach(P, F(_, _)) ==
    LET u(p) == F(Now, p)
    IN  [Now EXCEPT
            !.pr = [p \in Procs |-> IF p \in P THEN u(p).pr[p] ELSE @[p]],
            !.ch = [c \in Channels |-> IF @[c].proc \in P THEN u(@[c].proc).ch[c] ELSE @[c]],
            !.ll = [c \in Channels |-> IF ch[c].proc \in P THEN u(ch[c].proc).ll[c] ELSE @[c]],
            !.lost = \E p \in P : u(p).lost]
LinkLost == Live # {} /\ Do(ForEach(Live, dl_release))
LinkReset ==
    LET overlap == {p \in Live : pr[p].st = 2}
    IN  overlap # {} /\ Do(ForEach(overlap, LAMBDA s, p : GiveUp(s, p, EvSetupErr)))
LinkBack ==
    Do([Now EXCEPT !.pr = [p \in Procs |->
           IF p \in Live /\ @[p].st = 10 THEN [@[p] EXCEPT !.timer = "none"] ELSE @[p]]])

Init ==
    /\ ch = [c \in Channels |-> [st |-> "NULL", proc |-> NoProc, start_b |-> FALSE,
                                 data_open |-> FALSE, drel |-> FALSE, dial |-> "none"]]
    /\ pr = [p \in Procs |-> [live |-> FALSE, st |-> 0, chan |-> NoChan, timer |-> "none",
                              n303 |-> 1, bchannel |-> TRUE]]
    /\ ll = [c \in Channels |-> [phase |-> "null", hup |-> FALSE]]

Next ==
    \/ \E c \in Channels :
           \/ DIAL(c) \/ RESUME(c) \/ DialTimer(c) \/ ACCEPTD(c) \/ ALERT(c) \/ REDIR(c)
           \/ HANGUP(c) \/ DrelTimer(c) \/ SUSPEND(c) \/ BcEst(c) \/ BcRel(c)
    \/ \E p \in Procs : SETUP(p) \/ Message(p) \/ L3Timer(p)
    \/ LinkLost \/ LinkReset \/ LinkBack

Spec == Init /\ [][Next]_vars

\* A timer that runs will expire, and the B channel confirms its release.
Fairness ==
    /\ \A p \in Procs : WF_vars(L3Timer(p))
    /\ \A c \in Channels :
           /\ WF_vars(DrelTimer(c))
           /\ WF_vars(ch[c].st \in {"WAIT_BRELEASE", "WAIT_BREL_DISC"} /\ BcRel(c))

FairSpec == Spec /\ Fairness

-----------------------------------------------------------------------------
(* Correctness *)

\* A channel is ST_NULL, and so free for selectfreechannel, exactly when the
\* link level has nothing on it: it was told STAT_DHUP, or nothing of the call.
Agreed == \A c \in Channels : ll[c].phase = "null" <=> ch[c].st = "NULL"

\* A channel with a call and its process point at each other, and every live
\* process has a channel: neither of them uses memory that was freed, and no
\* process is left that nobody can clear.
Linked ==
    /\ \A c \in Channels : ch[c].st # "NULL" =>
           ch[c].proc # NoProc /\ pr[ch[c].proc].live /\ pr[ch[c].proc].chan = c
    /\ \A p \in Live : pr[p].chan # NoChan /\ ch[pr[p].chan].proc = p

\* The stack of the B channel is set up only in the states that use it, and
\* data reaches the link level only between STAT_BCONN and STAT_BHUP: whoever
\* clears the call, and at whichever point.
BChannel ==
    \A c \in Channels :
        /\ ch[c].start_b => ch[c].st \in BStates
        /\ ch[c].data_open => ll[c].phase = "data"

\* Where nothing but the network's answer would end the wait, a timer does: the
\* process has one in every such state but 15.  (By design it has none where it
\* waits for a user, in 4, 7, 9 and 10, nor in 12, where the B channel comes
\* first.)  SUSPEND finds T309 running if the link was lost in state 10, and
\* L3AddTimer then refuses T319; in 15 nothing handles T309 when it expires.  So
\* there a process has a timer unless it was T309 that it came with.
Timed ==
    /\ [](\A p \in Live :
            pr[p].st \in {1, 2, 3, 8, 11, 17, 19, 25} => pr[p].timer # "none")
    /\ [][\A p \in Procs :
             pr'[p].live /\ pr'[p].st = 15 /\ pr'[p].timer = "none" =>
                 pr[p].live /\ pr[p].st = 15 /\ pr[p].timer \in {"none", "T309"}]_vars

\* A call that is being suspended or resumed is not cleared by HANGUP, and when
\* the network refuses it goes on: CallSpec promises nothing of these.
Suspended(c) ==
    /\ ch[c].proc # NoProc
    /\ \/ pr[ch[c].proc].st \in {15, 17}
       \/ pr[ch[c].proc].st \in {10, 12} /\ ch[c].st = "WAIT_DRELEASE"

Driver == INSTANCE Call WITH
    phase <- [c \in Channels |-> ll[c].phase],
    hung <- [c \in Channels |-> ll[c].hup /\ ~Suspended(c)]

\* The channels keep the order of the callbacks, and a call that the link level
\* hangs up ends, whatever the network answers or fails to answer.
CallSpec == Driver!Spec
=============================================================================

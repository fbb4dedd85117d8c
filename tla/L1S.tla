---------------------------------- MODULE L1S ----------------------------------
(***************************************************************************)
(* Layer 1 of the D channel: the S interface state machine of isdnl1.c     *)
(* over the bottom half of the ISAC (isac.c).                              *)
(*                                                                         *)
(* The interrupt handler keeps only the newest indication of the chip and  *)
(* one event bit: a slow bottom half misses those in between.  The machine *)
(* has three kinds of timeout and one timer for all of them, with a flag   *)
(* for each that says what the timer is thought to be doing.               *)
(***************************************************************************)
EXTENDS Naturals

States == {"F3", "F4", "F5", "F6", "F7", "F8"}
Flags == {"ACTIVATING", "ACTIVATED", "DEACTTIMER", "ACTTIMER", "T3RUN"}
Timers == {"none", "T3", "ACT", "DEACT"}
\* RS stands for RS and EI, AI for AI8 and AI10.
Indications == {"RS", "DID", "DR", "PU", "RSY", "ARD", "AI"}
Commands == {"RS", "DUI", "TIM", "AR8"}

VARIABLE s
vars == s

S1State ==
    [st : States, timer : Timers, flags : SUBSET Flags,
     ph : Indications,              \* cs->dc.isac.ph_state
     event : SUBSET {"D_L1STATECHANGE", "D_RCVBUFREADY"},
     cmd : Commands,                \* what the chip was told last
     call : BOOLEAN,                \* a call is active, and will not let go
     up : BOOLEAN,                  \* FLG_L1_ACTIV of layer 2
     want : BOOLEAN,                \* FLG_ESTAB_PEND of layer 2
     lost : BOOLEAN,                \* the chip was reset while activated
     endless : BOOLEAN]             \* the calls never return

Has(S, f) == f \in S.flags
Set(S, f) == [S EXCEPT !.flags = @ \cup {f}]
Clear(S, f) == [S EXCEPT !.flags = @ \ {f}]
Ph(S, c) == [S EXCEPT !.cmd = c]
Restart(S, t) == [S EXCEPT !.timer = t]

-----------------------------------------------------------------------------
(* Between layer 1 and layer 2 *)

HwReset(S) == Ph(S, IF S.ph \in {"RS", "DR"} THEN "TIM" ELSE "RS")

\* dch_l2l1(PH_ACTIVATE | REQUEST).  l1_activate_no refuses with
\* L1deactivated, which makes an active call ask again, and so on.
Activate(S) ==
    LET A == [Set(S, "ACTIVATING") EXCEPT !.want = TRUE]
    IN  CASE Has(S, "ACTIVATED") -> [S EXCEPT !.up = TRUE, !.want = FALSE]
          [] ~Has(S, "ACTIVATED") /\ S.st = "F3" -> HwReset(A)
          [] /\ ~Has(S, "ACTIVATED") /\ S.st \in {"F6", "F8"}
             /\ ~Has(S, "DEACTTIMER") /\ ~Has(S, "T3RUN") ->
                IF S.call THEN [A EXCEPT !.endless = TRUE]
                ELSE [Clear(S, "ACTIVATING") EXCEPT !.up = FALSE, !.want = FALSE]
          [] OTHER -> A

L1activated(S) == [Clear(S, "ACTIVATING") EXCEPT !.up = TRUE, !.want = FALSE]

\* Layer 2 tells layer 3, and an active call asks for the link at once.
L1deactivated(S) ==
    LET D == [S EXCEPT !.up = FALSE, !.want = FALSE]
    IN  IF S.call THEN Activate(D) ELSE D

-----------------------------------------------------------------------------
(* The rows of L1SFnList *)

l1_reset(S) ==
    [S EXCEPT !.st = "F3", !.lost = @ \/ Has(S, "ACTIVATED")]

\* Mutant: an activation that waits is not taken up again.
l1_deact_cnf_bug(S) == [S EXCEPT !.st = "F3"]
l1_deact_cnf(S) ==
    LET T == [S EXCEPT !.st = "F3", !.lost = @ \/ (Has(S, "ACTIVATED") /\ S.timer # "DEACT")]
    IN  IF Has(S, "ACTIVATING") THEN Ph(T, "TIM") ELSE T

\* Mutant: the flag without the timer.
l1_deact_req_s_bug(S) ==
    IF S.st \in {"F6", "F7", "F8"}
    THEN Set([S EXCEPT !.st = "F3"], "DEACTTIMER") ELSE S
l1_deact_req_s(S) ==
    IF S.st \in {"F6", "F7", "F8"}
    THEN Set(Restart([S EXCEPT !.st = "F3"], "DEACT"), "DEACTTIMER") ELSE S

\* Mutant: T3 is not started.
l1_power_up_s_bug(S) ==
    IF S.st # "F3" \/ ~Has(S, "ACTIVATING") THEN S
    ELSE Set(Ph([S EXCEPT !.st = "F4"], "AR8"), "T3RUN")
l1_power_up_s(S) ==
    IF S.st # "F3" \/ ~Has(S, "ACTIVATING") THEN S
    ELSE Set(Restart(Ph([S EXCEPT !.st = "F4"], "AR8"), "T3"), "T3RUN")

l1_rsync(S) ==
    CASE S.st = "F4" -> [S EXCEPT !.st = "F5"]
      [] S.st \in {"F6", "F7"} -> [S EXCEPT !.st = "F8"]
      [] OTHER -> S

l1_info2_ind(S) == IF S.st = "F6" THEN S ELSE Ph([S EXCEPT !.st = "F6"], "AR8")

l1_info4_ind(S) ==
    LET A == Ph([S EXCEPT !.st = "F7"], "AR8")
        B == IF Has(A, "DEACTTIMER")
             THEN [Clear(A, "DEACTTIMER") EXCEPT !.timer = "none", !.lost = FALSE]
             ELSE [A EXCEPT !.lost = FALSE]
    IN  CASE S.st = "F7" -> S
          [] S.st # "F7" /\ Has(S, "ACTIVATED") -> B
          [] OTHER -> Set(Restart(Clear(B, "T3RUN"), "ACT"), "ACTTIMER")

l1_timer3(S) ==
    LET A == Clear(S, "T3RUN")
        B == IF Has(A, "ACTIVATING") THEN L1deactivated(Clear(A, "ACTIVATING")) ELSE A
    IN  CASE S.st = "F7" -> S
          [] S.st = "F6" -> B
          [] OTHER -> Ph([B EXCEPT !.st = "F3"], "TIM")

l1_timer_act(S) ==
    IF S.st # "F7" THEN S
    ELSE L1activated(Set(Clear(S, "ACTTIMER"), "ACTIVATED"))

\* Mutant: FLG_L1_ACTIVATED is kept.
l1_timer_deact_bug(S) ==
    L1deactivated([Clear(S, "DEACTTIMER") EXCEPT !.lost = FALSE])
l1_timer_deact(S) ==
    L1deactivated([Clear(Clear(S, "DEACTTIMER"), "ACTIVATED") EXCEPT !.lost = FALSE])

-----------------------------------------------------------------------------
(* Actions *)

\* isac_interrupt: the line changes, a frame comes.
Interrupt(i) == s' = [s EXCEPT !.ph = i, !.event = @ \cup {"D_L1STATECHANGE"}]
Frame == s' = [s EXCEPT !.event = @ \cup {"D_RCVBUFREADY"}]

isac_new_ph(S) ==
    CASE S.ph = "RS" -> l1_reset(Ph(S, "DUI"))
      [] S.ph = "DID" -> l1_deact_cnf(S)
      [] S.ph = "DR" -> l1_deact_req_s(S)
      [] S.ph = "PU" -> l1_power_up_s(S)
      [] S.ph = "RSY" -> l1_rsync(S)
      [] S.ph = "ARD" -> l1_info2_ind(S)
      [] S.ph = "AI" -> l1_info4_ind(S)

\* DChannel_proc_rcv: a frame proves that the line is up.
ProcRcv(S) == IF Has(S, "ACTTIMER") THEN l1_timer_act(S) ELSE S

isac_bh ==
    /\ s.event # {}
    /\ LET S == [s EXCEPT !.event = {}]
           T == IF "D_L1STATECHANGE" \in s.event THEN isac_new_ph(S) ELSE S
       IN  s' = IF "D_RCVBUFREADY" \in s.event THEN ProcRcv(T) ELSE T

TimerExpires ==
    LET S == [s EXCEPT !.timer = "none"]
    IN  \/ s.timer = "T3" /\ s' = l1_timer3(S)
        \/ s.timer = "ACT" /\ s' = l1_timer_act(S)
        \/ s.timer = "DEACT" /\ s' = l1_timer_deact(S)

\* Layer 2 asks only while it thinks that layer 1 is down.
PhActivateReq == ~s.up /\ s' = Activate(s)

\* A call becomes active over the link, or ends.
CallActive == s.up /\ ~s.call /\ s' = [s EXCEPT !.call = TRUE]
CallEnds == s.call /\ s' = [s EXCEPT !.call = FALSE]

Init ==
    s = [st |-> "F3", timer |-> "none", flags |-> {}, ph |-> "RS",
         event |-> {}, cmd |-> "RS", call |-> FALSE, up |-> FALSE, want |-> FALSE,
         lost |-> FALSE, endless |-> FALSE]

Next ==
    \/ ~s.endless /\ \/ \E i \in Indications : Interrupt(i)
                     \/ Frame \/ isac_bh \/ TimerExpires \/ PhActivateReq
                     \/ CallActive \/ CallEnds
    \/ s.endless /\ UNCHANGED s         \* the machine is dead

Spec == Init /\ [][Next]_vars

-----------------------------------------------------------------------------
(* Correctness *)

\* The two layers agree on whether layer 1 is active, and an activation that is
\* done is not awaited any more, whatever races there are between its timer, the
\* frames and the line.
BeliefMatches ==
    ~s.endless =>
        (s.up <=> Has(s, "ACTIVATED")) /\ ~({"ACTIVATING", "ACTIVATED"} \subseteq s.flags)

\* While the terminal signals (INFO 1), T3 runs, although the one timer is
\* also used for two other things.
SignalGuarded == s.st \in {"F4", "F5"} => s.timer = "T3"

\* Layer 2 is not left with a link that is down: unless the chip was reset
\* behind it, the deactivation is on its way.
DownIsTold ==
    Has(s, "ACTIVATED") /\ s.st = "F3" /\ ~s.lost => s.timer = "DEACT"

\* A request of layer 2 waits for the timer, for a command that the chip
\* works on, or for a line that the network holds (F6, F8); never for nothing.
RequestWaits ==
    s.want /\ ~s.endless =>
        s.timer # "none" \/ s.st \in {"F6", "F8"} \/ (s.st = "F3" /\ s.cmd # "AR8")
=============================================================================

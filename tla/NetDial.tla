-------------------------------- MODULE NetDial --------------------------------
(***************************************************************************)
(* Network interfaces of the link level (isdn_net.c): an interface dials   *)
(* when a packet is to be sent, accepts calls, or calls back; it holds a   *)
(* channel meanwhile and follows the callbacks of the driver with its      *)
(* dialstate, which one timer moves on for all interfaces.                 *)
(*                                                                         *)
(* The driver keeps its promise, module Call.  An operation maps a state s *)
(* to the state after it.  Slaves, exclusive channels, leased lines,       *)
(* dialmode and callback with ISDN_NET_CBOUT are left out, and so is an    *)
(* incoming call for an interface that is dialing and does not call back.  *)
(***************************************************************************)
EXTENDS Naturals, FiniteSetsExt

CONSTANTS
    Interfaces, Channels,   \* how many
    Outgoing,               \* interfaces that have numbers to dial: lp->phone[1]
    Called,                 \* those with the EAZ that is called
    Callback,               \* those with ISDN_NET_CALLBACK
    Numbers, dialmax,       \* length of lp->phone[1]; rounds
    Timeout                 \* passes of the timer: ISDN_TIMER_DTIMEOUT10, cbdelay

Ifs == 1 .. Interfaces
Chans == 1 .. Channels
None == 0           \* NULL, or channel -1

ASSUME RoleAssumption ==
    /\ Interfaces \in Nat /\ Channels \in Nat /\ Numbers \in Nat \ {0}
    /\ dialmax \in Nat /\ Timeout \in Nat
    /\ Outgoing \subseteq Ifs /\ Called \subseteq Ifs
    /\ Callback \subseteq Outgoing

VARIABLES
    lp,         \* struct isdn_net_local_s
    dev,        \* struct isdn_dev_s
    phase, hung,    \* the channels of the driver
    own         \* the interface that dialed or accepted the call of a channel

vars == <<lp, dev, phase, hung, own>>

Idle == [dialstate |-> 0, connected |-> FALSE, isdn_channel |-> None,
         dial |-> 1, dialretry |-> 0, dtimer |-> 0]

Driver == INSTANCE Call WITH Channels <- Chans

-----------------------------------------------------------------------------
(* Commands to the driver *)

ChannelsOf(s, I) == {s.lp[i].isdn_channel : i \in I}

\* ISDN_CMD_DIAL for the interfaces I.  A channel that has a call already, or
\* still clears one, does not dial.
DIAL(s, I) ==
    LET ready == {i \in I : s.phase[s.lp[i].isdn_channel] = "null"}
        maker(c) == CHOOSE i \in ready : s.lp[i].isdn_channel = c
    IN  [s EXCEPT
            !.phase = [c \in Chans |-> IF c \in ChannelsOf(s, ready) THEN "setup" ELSE @[c]],
            !.own = [c \in Chans |-> IF c \in ChannelsOf(s, ready) THEN maker(c) ELSE @[c]]]

HANGUP(s, C) ==
    [s EXCEPT !.hung = [c \in Chans |-> @[c] \/ (c \in C /\ s.phase[c] # "null")]]

-----------------------------------------------------------------------------
(* Channels *)

Free(s) == {c \in Chans : ~s.dev.usage[c]}
isdn_get_free_channel(s) == Min(Free(s))

isdn_net_bind_channel(s, i, c) ==
    [s EXCEPT !.lp[i].connected = TRUE, !.lp[i].isdn_channel = c,
              !.dev.usage[c] = TRUE, !.dev.rx_netdev[c] = i, !.dev.st_netdev[c] = i]

Cleared(netdev, C) == [c \in Chans |-> IF c \in C THEN None ELSE netdev[c]]

\* Of the interfaces I.  dtimer is set before it is used again.
\* Mutant: the callbacks of the channel still go to the interface.
isdn_net_unbind_channel_bug(s, I) ==
    LET C == ChannelsOf(s, I)
    IN  [s EXCEPT
            !.lp = [i \in Ifs |-> IF i \in I THEN Idle ELSE @[i]],
            !.dev.usage = [c \in Chans |-> @[c] /\ c \notin C],
            !.dev.rx_netdev = Cleared(@, C)]
isdn_net_unbind_channel(s, I) ==
    LET C == ChannelsOf(s, I)
    IN  [s EXCEPT
            !.lp = [i \in Ifs |-> IF i \in I THEN Idle ELSE @[i]],
            !.dev.usage = [c \in Chans |-> @[c] /\ c \notin C],
            !.dev.rx_netdev = Cleared(@, C), !.dev.st_netdev = Cleared(@, C)]

\* The channels are free at once, whatever the driver has still to clear.
\* Mutant: without ISDN_CMD_HANGUP.
isdn_net_hangup_bug(s, I) == isdn_net_unbind_channel(s, I)
isdn_net_hangup(s, I) == isdn_net_unbind_channel(HANGUP(s, ChannelsOf(s, I)), I)

-----------------------------------------------------------------------------
(* isdn_net_dial: one pass over all interfaces, each of which has a channel  *)
(* of its own.  p is an element of lp.                                       *)

Late(p) == p.dtimer > Timeout

\* Dialstates 1 to 3: the next number.  The list is tried dialmax times.
\* Mutant: for ever.
NextNumber_bug(p) ==
    [p EXCEPT !.dialstate = 4, !.dtimer = 0, !.dial = (@ % Numbers) + 1]
NextNumber(p) ==
    LET first == p.dialstate = 1
        dial == IF first THEN 1 ELSE p.dial
        dialretry == IF first THEN 0 ELSE p.dialretry
    IN  [p EXCEPT !.dialstate = 4, !.dtimer = 0, !.dial = (dial % Numbers) + 1,
                  !.dialretry = IF dial = Numbers THEN dialretry + 1 ELSE dialretry]

Dialing(p) == p.dialstate \in {1, 3}
GivesUp(s, p) ==
    \/ Dialing(p) /\ (s.dev.stopped \/ NextNumber(p).dialretry > dialmax)
    \/ p.dialstate \in {8, 10} /\ Late(p)

\* 5 and 9 send ISDN_CMD_ACCEPTB; 7 is a call that was accepted just now.
Moved(p) ==
    CASE Dialing(p) -> NextNumber(p)
      [] p.dialstate \in {5, 9} -> [p EXCEPT !.dialstate = @ + 1, !.dtimer = 0]
      [] p.dialstate = 7 -> [p EXCEPT !.dialstate = 8, !.dtimer = @ + 1]
      [] p.dialstate \in {4, 6} /\ Late(p) -> [p EXCEPT !.dialstate = 3]
      [] p.dialstate = 11 /\ Late(p) -> [p EXCEPT !.dialstate = 1]
      [] p.dialstate \in {4, 6, 8, 10, 11} /\ ~Late(p) -> [p EXCEPT !.dtimer = @ + 1]
      [] OTHER -> p

isdn_net_dial(s) ==
    LET ends == {i \in Ifs : GivesUp(s, s.lp[i])}
        t == isdn_net_hangup(DIAL(s, {i \in Ifs \ ends : Dialing(s.lp[i])}), ends)
    IN  [t EXCEPT
            !.lp = [i \in Ifs |-> IF i \in ends THEN @[i] ELSE Moved(@[i])],
            !.dev.netdial = \E i \in Ifs \ ends : s.lp[i].dialstate # 0]

-----------------------------------------------------------------------------
(* The actions *)

S == [lp |-> lp, dev |-> dev, phase |-> phase, hung |-> hung, own |-> own]
Do(t) ==
    \E s \in {t} :
        lp' = s.lp /\ dev' = s.dev /\ phase' = s.phase /\ hung' = s.hung /\ own' = s.own

\* isdn_net_start_xmit for an interface that is not connected, and
\* isdn_net_force_dial_lp.  Without a channel, or if PPP refuses, nothing is left.
Start(i) ==
    /\ i \in Outgoing /\ ~lp[i].connected /\ Free(S) # {}
    /\ LET c == isdn_get_free_channel(S)
       IN  Do(isdn_net_dial(isdn_net_bind_channel([S EXCEPT !.lp[i].dialstate = 1], i, c)))

\* ISDN_TIMER_NETDIAL.
TimerDial == dev.netdial /\ Do(isdn_net_dial(S))

\* ISDN_TIMER_NETHANGUP: isdn_net_autohup, for the interfaces that were idle
\* too long; when isdn is stopped, for one after the other.
Online == {i \in Ifs : lp[i].connected /\ lp[i].dialstate = 0}
isdn_net_autohup(idle) ==
    /\ dev.nethangup /\ idle \subseteq Online
    /\ LET ends == IF dev.stopped /\ Online # {} THEN {Min(Online)} ELSE idle
           s == [S EXCEPT !.dev.nethangup = Online # {}]
       IN  Do(isdn_net_hangup(s, ends))

\* By the user, or because the interface goes down.
isdn_net_force_hangup(i) == lp[i].isdn_channel # None /\ Do(isdn_net_hangup(S, {i}))

\* ISDN_STAT_ICALL and isdn_net_find_icall: the first interface that matches.
Matching(c) == {i \in Called : ~lp[i].connected /\ ~dev.usage[c]}

\* An interface that is dialing and does not call back would leave its channel
\* for that of the incoming call: not explored.
Leaving == {i \in Called \ Callback : lp[i].dialstate = 4}

\* Rejected, or not answered at all; then called back.
CallBack(c, i) ==
    \E cbhup \in BOOLEAN :
        LET s == IF cbhup THEN [S EXCEPT !.phase[c] = "setup", !.hung[c] = TRUE,
                                         !.own[c] = None] ELSE S
            t == [s EXCEPT !.lp[i].dialstate = 11]
        IN  Do(isdn_net_dial(isdn_net_bind_channel(t, i, isdn_get_free_channel(s))))

\* rx_netdev is not set before the B channel is up.
Accept(c, i) ==
    Do(isdn_net_dial(
        [S EXCEPT !.phase[c] = "setup", !.own[c] = i,
                  !.dev.usage[c] = TRUE, !.dev.st_netdev[c] = i,
                  !.lp[i] = [@ EXCEPT !.connected = TRUE, !.isdn_channel = c,
                                      !.dialstate = 7]]))

ICALL(c) ==
    /\ phase[c] = "null"
    /\ IF dev.stopped
       THEN Do([S EXCEPT !.phase[c] = "setup", !.hung[c] = TRUE, !.own[c] = None])
       ELSE /\ Matching(c) # {} /\ Leaving = {}
            /\ LET i == Min(Matching(c))
               IN  IF i \in Callback THEN CallBack(c, i) ELSE Accept(c, i)

\* The callbacks of the driver: isdn_status_callback ignores them when isdn is
\* stopped, else isdn_net_stat_callback gives them to the interface st_netdev.
Told(s, c, Ev(_, _)) ==
    IF dev.stopped \/ dev.st_netdev[c] = None THEN s ELSE Ev(s, dev.st_netdev[c])

StatDconn(s, i) ==
    IF s.lp[i].dialstate \in {4, 7, 8} THEN [s EXCEPT !.lp[i].dialstate = @ + 1] ELSE s

StatBconn(s, i) ==
    LET c == s.lp[i].isdn_channel
    IN  IF s.lp[i].dialstate \notin 5 .. 10 THEN s
        ELSE [s EXCEPT
                !.lp[i].dialstate = 0, !.dev.nethangup = TRUE,
                !.dev.rx_netdev[c] = IF s.lp[i].dialstate > 6 THEN i ELSE @]

StatDhup(s, i) ==
    IF s.lp[i].dialstate = 0 /\ s.lp[i].connected THEN isdn_net_unbind_channel(s, {i}) ELSE s

Dconn(c) == Do(Told([S EXCEPT !.phase[c] = "up"], c, StatDconn)) /\ Driver!Dconn(c)
Bconn(c) == Do(Told([S EXCEPT !.phase[c] = "data"], c, StatBconn)) /\ Driver!Bconn(c)
Bhup(c) == Do([S EXCEPT !.phase[c] = "half"]) /\ Driver!Bhup(c)
Dhup(c) ==
    /\ Do(Told([S EXCEPT !.phase[c] = "null", !.hung[c] = FALSE, !.own[c] = None],
               c, StatDhup))
    /\ Driver!Dhup(c)

\* IIOCSETGST.  It is not started again before all interfaces are idle.
SetStopped(on) ==
    /\ dev.stopped # on /\ (~on => \A i \in Ifs : ~lp[i].connected)
    /\ Do([S EXCEPT !.dev.stopped = on])

Init ==
    /\ lp = [i \in Ifs |-> Idle]
    /\ dev = [usage |-> [c \in Chans |-> FALSE], st_netdev |-> [c \in Chans |-> None],
              rx_netdev |-> [c \in Chans |-> None], netdial |-> FALSE,
              nethangup |-> FALSE, stopped |-> FALSE]
    /\ own = [c \in Chans |-> None]
    /\ Driver!Init

Next ==
    \/ TimerDial \/ \E idle \in SUBSET Ifs : isdn_net_autohup(idle)
    \/ \E i \in Ifs : Start(i) \/ isdn_net_force_hangup(i)
    \/ \E c \in Chans : ICALL(c) \/ Dconn(c) \/ Bconn(c) \/ Bhup(c) \/ Dhup(c)
    \/ \E on \in BOOLEAN : SetStopped(on)

Spec == Init /\ [][Next]_vars

\* The timer goes on while it is wanted.
Fairness == WF_vars(TimerDial)

FairSpec == Spec /\ Fairness

-----------------------------------------------------------------------------
(* Correctness *)

\* An interface is connected exactly to the channel that is in use for it and
\* whose callbacks and data it gets, also between an incoming call and its
\* B channel; no channel stays in use, or goes on reporting, for nobody.
Owned ==
    /\ \A i \in Ifs :
           LET p == lp[i]
           IN  /\ p.connected <=> p.isdn_channel # None
               /\ p.dialstate # 0 => p.connected
               /\ p.connected =>
                      /\ dev.usage[p.isdn_channel] /\ dev.st_netdev[p.isdn_channel] = i
                      /\ dev.rx_netdev[p.isdn_channel] = i \/ p.dialstate \in 7 .. 10
    /\ \A c \in Chans :
           dev.usage[c] \/ dev.st_netdev[c] # None \/ dev.rx_netdev[c] # None =>
               \E i \in Ifs : lp[i].isdn_channel = c

\* An interface that sends packets has a call of its own to send them over:
\* the driver has one that this interface dialed or accepted, and that nobody
\* hung up; and the timer runs that will end it.  When isdn is stopped the
\* driver may have ended it without being heard.
Alive ==
    \A i \in Online :
        LET c == lp[i].isdn_channel
        IN  /\ dev.nethangup
            /\ dev.stopped \/ (phase[c] \in {"data", "half"} /\ ~hung[c] /\ own[c] = i)

\* No interface dials for ever, or waits for ever for an answer: it is
\* connected or gives up, whatever the driver says or fails to say.
Ends == \A i \in Ifs : []<>(lp[i].dialstate = 0)
=============================================================================

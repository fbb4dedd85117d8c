-------------------------------- MODULE Capidrv --------------------------------
(***************************************************************************)
(* The driver that offers a CAPI 2.0 controller to the link level          *)
(* (capidrv.c).  A channel has a PLCI for its call, and this an NCCI for   *)
(* its B channel: two tables of states, whose events are the messages of   *)
(* the controller and the commands of the link level.  Both directions are *)
(* queues, so that what a handler sends crosses what is on its way to it.  *)
(*                                                                         *)
(* An operation maps a state s to the state after it.  A message that has  *)
(* no effect at its receiver (ALERT_REQ, CONNECT_ACTIVE_RESP) is left out, *)
(* and so are data, LISTEN, leased lines, memory exhaustion, a controller  *)
(* that goes down, and one that refuses to close a B channel.              *)
(***************************************************************************)
EXTENDS Naturals, Sequences

CONSTANTS
    nbchan,     \* channels of the card
    NPlci       \* calls that the controller can handle

ASSUME Sizes == nbchan \in Nat /\ NPlci \in Nat

Chans == 1 .. nbchan
Plcis == 1 .. NPlci

VARIABLES
    bchan,      \* struct capidrv_bchan
    pl, nc,     \* the capidrv_plci and the capidrv_ncci that a channel points at
    ctl,        \* the controller: its calls
    req, ind,   \* messages to the controller, and from it
    ll          \* what each channel told the link level, and was told by it

vars == <<bchan, pl, nc, ctl, req, ind, ll>>

\* No structure has the state NONE for long: it stands for a pointer that is 0.
NoPlci == [st |-> "NONE", plci |-> 0]
NoNcci == [st |-> "NONE", ncci |-> 0, listed |-> FALSE]
Clean == [disconnecting |-> FALSE, incoming |-> FALSE]
NoCall == [phase |-> "null", dialed |-> FALSE, hung |-> FALSE, deaf |-> FALSE]
IdleCtl == [st |-> "idle", b3 |-> "none", incoming |-> FALSE]

Now == [bchan |-> bchan, pl |-> pl, nc |-> nc, ctl |-> ctl, req |-> req, ind |-> ind, ll |-> ll]
Do(s) ==
    /\ bchan' = s.bchan /\ pl' = s.pl /\ nc' = s.nc /\ ctl' = s.ctl
    /\ req' = s.req /\ ind' = s.ind /\ ll' = s.ll

-----------------------------------------------------------------------------
(* Messages and callbacks *)

send_message(s, m) == [s EXCEPT !.req = Append(@, m)]
Message(type, k) == [type |-> type, plci |-> k, ok |-> TRUE, id |-> 0]

\* The message number stands for its channel, which has one request at a time.
CONNECT_REQ(c) == [Message("CONNECT_REQ", 0) EXCEPT !.id = c]
Refused == [Message("CONNECT_CONF", NPlci + 1) EXCEPT !.ok = FALSE]

BHUP(s, c) == [s EXCEPT !.ll[c].phase = IF @ = "data" THEN "half" ELSE @]
DCONN(s, c) == [s EXCEPT !.ll[c].phase = IF @ = "setup" THEN "up" ELSE @]
BCONN(s, c) == [s EXCEPT !.ll[c].phase = "data"]

-----------------------------------------------------------------------------
(* PLCI: the rows of plcitable whose events are raised *)

plcitable ==
    {<<"NONE", "CONNECT_REQ", "OUTGOING">>, <<"NONE", "CONNECT_IND", "INCOMING">>,
     <<"OUTGOING", "CONNECT_CONF_ERROR", "NONE">>,
     <<"OUTGOING", "CONNECT_CONF_OK", "ALLOCATED">>,
     <<"ALLOCATED", "CONNECT_ACTIVE_IND", "ACTIVE">>,
     <<"ACCEPTING", "CONNECT_ACTIVE_IND", "ACTIVE">>,
     <<"INCOMING", "CONNECT_REJECT", "DISCONNECTING">>,
     <<"INCOMING", "CONNECT_RESP", "ACCEPTING">>,
     <<"DISCONNECTED", "DISCONNECT_RESP", "NONE">>}
    \cup {<<st, "DISCONNECT_REQ", "DISCONNECTING">> :
              st \in {"ALLOCATED", "ACTIVE", "INCOMING", "ACCEPTING"}}
    \cup {<<st, "DISCONNECT_IND", "DISCONNECTED">> :
              st \in {"ALLOCATED", "ACTIVE", "INCOMING", "ACCEPTING", "DISCONNECTING"}}

\* Mutant: the channel stays one of an incoming call.
free_plci_bug(s, c) ==
    [s EXCEPT !.pl[c] = NoPlci, !.bchan[c].disconnecting = FALSE, !.nc[c].listed = FALSE]

\* The NCCI of a PLCI that is freed is in no list any more.
free_plci(s, c) ==
    [s EXCEPT !.pl[c] = NoPlci, !.bchan[c] = Clean, !.nc[c].listed = FALSE]

\* Sends STAT_DHUP.
p0(s, c) == free_plci([s EXCEPT !.ll[c] = NoCall], c)

plci_change_state(s, c, event) ==
    LET rows == {r \in plcitable : r[1] = s.pl[c].st /\ r[2] = event}
        next == CHOOSE st \in {r[3] : r \in rows} : TRUE
    IN  IF rows = {} THEN s
        ELSE IF next = "NONE" THEN p0(s, c)
        ELSE [s EXCEPT !.pl[c].st = next]

\* With the event that a new PLCI gets at once.
new_plci(s, c, k, event) ==
    plci_change_state([s EXCEPT !.pl[c] = [NoPlci EXCEPT !.plci = k]], c, event)

\* The channels whose PLCI it is: at most one, see NcciOwned.
find_plci_by_plci(s, k) == {c \in Chans : s.pl[c].st # "NONE" /\ s.pl[c].plci = k}

-----------------------------------------------------------------------------
(* NCCI: the rows of nccitable whose events are raised *)

nccitable ==
    {<<"NONE", "CONNECT_B3_REQ", "OUTGOING">>, <<"NONE", "CONNECT_B3_IND", "INCOMING">>,
     <<"OUTGOING", "CONNECT_B3_CONF_OK", "ALLOCATED">>,
     <<"OUTGOING", "CONNECT_B3_CONF_ERROR", "NONE">>,
     <<"INCOMING", "CONNECT_B3_RESP", "ALLOCATED">>,
     <<"ALLOCATED", "CONNECT_B3_ACTIVE_IND", "ACTIVE">>,
     <<"DISCONNECTED", "DISCONNECT_B3_RESP", "NONE">>}
    \cup {<<st, "DISCONNECT_B3_REQ", "DISCONNECTING">> :
              st \in {"INCOMING", "ALLOCATED", "ACTIVE"}}
    \cup {<<st, "DISCONNECT_B3_IND", "DISCONNECTED">> :
              st \in {"INCOMING", "ALLOCATED", "ACTIVE", "DISCONNECTING"}}

\* Mutant: the channel still points at it.
free_ncci_bug(s, c) == [s EXCEPT !.nc[c].listed = FALSE]
free_ncci(s, c) == [s EXCEPT !.nc[c] = NoNcci]

\* Mutants: STAT_BHUP is not sent; the call is not cleared.
n0_bug(s, c) ==
    free_ncci(plci_change_state(
        send_message(s, Message("DISCONNECT_REQ", s.pl[c].plci)), c, "DISCONNECT_REQ"), c)
n0_keep(s, c) == free_ncci(BHUP(s, c), c)

\* The B channel is gone: so shall be the call.
n0(s, c) ==
    LET t == send_message(s, Message("DISCONNECT_REQ", s.pl[c].plci))
    IN  free_ncci(BHUP(plci_change_state(t, c, "DISCONNECT_REQ"), c), c)

ncci_change_state(s, c, event) ==
    LET rows == {r \in nccitable : r[1] = s.nc[c].st /\ r[2] = event}
        next == CHOOSE st \in {r[3] : r \in rows} : TRUE
    IN  IF rows = {} THEN s
        ELSE IF next = "NONE" THEN n0(s, c)
        ELSE [s EXCEPT !.nc[c].st = next]

\* Of an NCCI that is not confirmed yet the number is 0: the code has that of
\* the PLCI, which is the number of no NCCI.
new_ncci(s, c, ncci, event) ==
    ncci_change_state([s EXCEPT !.nc[c] = [NoNcci EXCEPT !.ncci = ncci, !.listed = TRUE]],
                      c, event)

find_ncci(s, k) ==
    {c \in find_plci_by_plci(s, k) : s.nc[c].listed /\ s.nc[c].ncci = k}
find_ncci_by_msgid(s, k) ==
    {c \in find_plci_by_plci(s, k) : s.nc[c].listed /\ s.nc[c].st = "OUTGOING"}

-----------------------------------------------------------------------------
(* Commands of the link level *)

\* A DIAL on a channel in use is dropped: the end of the other call answers it.
DIAL(c) ==
    LET s == [Now EXCEPT !.ll[c].phase = "setup", !.ll[c].dialed = TRUE]
    IN  /\ ll[c].phase = "null"
        /\ Do(IF pl[c].st # "NONE" THEN s
              ELSE send_message(new_plci(s, c, 0, "CONNECT_REQ"), CONNECT_REQ(c)))

accept(s, c) ==
    send_message(plci_change_state([s EXCEPT !.ll[c].phase = "setup"], c, "CONNECT_RESP"),
                 Message("CONNECT_RESP", s.pl[c].plci))
ACCEPTD(c) == ll[c].phase = "ring" /\ ~ll[c].hung /\ Do(accept(Now, c))

\* A HANGUP has no effect, and a later one is ignored (deaf), while an NCCI is
\* not confirmed, a call is not accepted, or a PLCI has no number.
hangup(s, c) ==
    LET off == [s EXCEPT !.bchan[c].disconnecting = TRUE]
        deaf == [off EXCEPT !.ll[c].deaf = TRUE]
        b3 == IF s.nc[c].ncci = 0 THEN deaf ELSE off
    IN  IF s.bchan[c].disconnecting THEN s
        ELSE IF s.nc[c].st # "NONE"
        THEN send_message(ncci_change_state(b3, c, "DISCONNECT_B3_REQ"),
                          Message("DISCONNECT_B3_REQ", s.nc[c].ncci))
        ELSE IF s.pl[c].st = "INCOMING" THEN deaf
        ELSE IF s.pl[c].plci # 0
        THEN send_message(plci_change_state(off, c, "DISCONNECT_REQ"),
                          Message("DISCONNECT_REQ", s.pl[c].plci))
        ELSE [s EXCEPT !.ll[c].deaf = TRUE]

HANGUP(c) ==
    /\ ll[c].phase # "null" /\ ~ll[c].hung
    /\ Do([hangup(Now, c) EXCEPT !.ll[c].hung = TRUE])

-----------------------------------------------------------------------------
(* Messages of the controller *)

Answer(s, c) == send_message(s, Message("DISCONNECT_RESP", s.pl[c].plci))

DISCONNECT_IND(s, k) ==
    LET owner == find_plci_by_plci(s, k)
        off(c) == plci_change_state([s EXCEPT !.bchan[c].disconnecting = TRUE],
                                    c, "DISCONNECT_IND")
    IN  IF owner = {} THEN {send_message(s, Message("DISCONNECT_RESP", k))}
        ELSE {plci_change_state(Answer(off(c), c), c, "DISCONNECT_RESP") : c \in owner}

DISCONNECT_CONF(s, k) ==
    LET owner == find_plci_by_plci(s, k)
    IN  IF owner = {} THEN {s}
        ELSE {[s EXCEPT !.bchan[c].disconnecting = TRUE] : c \in owner}

CONNECT_CONF(s, m) ==
    LET t == [s EXCEPT !.pl[m.id].plci = m.plci]
    IN  {plci_change_state(t, m.id, IF m.ok THEN "CONNECT_CONF_OK" ELSE "CONNECT_CONF_ERROR")}

\* By a HANGUP from within STAT_ICALL, or by what STAT_ICALL returns.
reject(s, c, withHangup) ==
    LET t == IF withHangup THEN [hangup(s, c) EXCEPT !.ll[c] = NoCall] ELSE s
    IN  send_message(plci_change_state(t, c, "CONNECT_REJECT"),
                     Message("CONNECT_REJECT", s.pl[c].plci))

\* The first free channel, if there is one.
new_bchan(s) ==
    {c \in Chans : s.pl[c].st = "NONE" /\ \A d \in Chans : s.pl[d].st = "NONE" => c <= d}

\* The link level refuses the call, lets a tty ring, or accepts it at once.
icall(s, c, k) ==
    LET t == new_plci([s EXCEPT !.bchan[c] = [disconnecting |-> FALSE, incoming |-> TRUE]],
                      c, k, "CONNECT_IND")
    IN  {reject(t, c, b) : b \in BOOLEAN} \cup {[t EXCEPT !.ll[c].phase = "ring"], accept(t, c)}
handle_incoming_call(s, k) ==
    IF new_bchan(s) = {} THEN {s} ELSE UNION {icall(s, c, k) : c \in new_bchan(s)}

CONNECT_ACTIVE_IND(s, k) ==
    LET up(c) == plci_change_state(s, c, "CONNECT_ACTIVE_IND")
        b3(c) == new_ncci(DCONN(up(c), c), c, 0, "CONNECT_B3_REQ")
    IN  IF find_plci_by_plci(s, k) = {} THEN {s}
        ELSE {IF s.bchan[c].incoming THEN up(c)
              ELSE send_message(b3(c), Message("CONNECT_B3_REQ", k))
                  : c \in find_plci_by_plci(s, k)}

CONNECT_B3_IND(s, k) ==
    LET owner == find_plci_by_plci(s, k)
        b3(c) == send_message(new_ncci(s, c, k, "CONNECT_B3_IND"), Message("CONNECT_B3_RESP", k))
    IN  IF owner = {} THEN {send_message(s, Message("CONNECT_B3_REJECT", k))}
        ELSE {ncci_change_state(b3(c), c, "CONNECT_B3_RESP") : c \in owner}

CONNECT_B3_CONF(s, m) ==
    LET owner == find_ncci_by_msgid(s, m.plci)
        event == IF m.ok THEN "CONNECT_B3_CONF_OK" ELSE "CONNECT_B3_CONF_ERROR"
    IN  IF owner = {} THEN {s}
        ELSE {ncci_change_state([s EXCEPT !.nc[c].ncci = m.plci], c, event) : c \in owner}

\* STAT_BCONN in any state of the NCCI.
CONNECT_B3_ACTIVE_IND(s, k) ==
    LET owner == find_ncci(s, k)
    IN  IF owner = {} THEN {s}
        ELSE {BCONN(ncci_change_state(s, c, "CONNECT_B3_ACTIVE_IND"), c) : c \in owner}

\* An NCCI that is not known is not answered.
DISCONNECT_B3_IND(s, k) ==
    LET owner == find_ncci(s, k)
        off(c) == ncci_change_state([s EXCEPT !.bchan[c].disconnecting = TRUE],
                                    c, "DISCONNECT_B3_IND")
    IN  IF owner = {} THEN {s}
        ELSE {ncci_change_state(send_message(off(c), Message("DISCONNECT_B3_RESP", k)),
                                c, "DISCONNECT_B3_RESP") : c \in owner}

\* The outcomes of a message.
Handled(s, m) ==
    CASE m.type = "CONNECT_IND" -> handle_incoming_call(s, m.plci)
      [] m.type = "CONNECT_CONF" -> CONNECT_CONF(s, m)
      [] m.type = "CONNECT_ACTIVE_IND" -> CONNECT_ACTIVE_IND(s, m.plci)
      [] m.type = "DISCONNECT_IND" -> DISCONNECT_IND(s, m.plci)
      [] m.type = "DISCONNECT_CONF" -> DISCONNECT_CONF(s, m.plci)
      [] m.type = "CONNECT_B3_IND" -> CONNECT_B3_IND(s, m.plci)
      [] m.type = "CONNECT_B3_CONF" -> CONNECT_B3_CONF(s, m)
      [] m.type = "CONNECT_B3_ACTIVE_IND" -> CONNECT_B3_ACTIVE_IND(s, m.plci)
      [] m.type = "DISCONNECT_B3_IND" -> DISCONNECT_B3_IND(s, m.plci)

capidrv_signal ==
    /\ ind # <<>>
    /\ \E s \in Handled([Now EXCEPT !.ind = Tail(@)], Head(ind)) : Do(s)

-----------------------------------------------------------------------------
(* The controller (external): the network's side of each PLCI *)

tell(s, m) == [s EXCEPT !.ind = Append(@, m)]

\* What the controller does with a request; one that comes too late is refused
\* or ignored.
Served(s, m) ==
    LET k == m.plci
        When(cond, t) == {IF cond THEN t ELSE s}
    IN  CASE m.type = "CONNECT_REQ" ->
                 {tell(s, [Refused EXCEPT !.id = m.id])}
                 \cup {tell([s EXCEPT !.ctl[i] = [IdleCtl EXCEPT !.st = "alloc"]],
                            [Message("CONNECT_CONF", i) EXCEPT !.id = m.id]) :
                            i \in {i \in Plcis : s.ctl[i].st = "idle"}}
          [] m.type = "CONNECT_RESP" ->
                 When(s.ctl[k].st = "incoming", [s EXCEPT !.ctl[k].st = "accepted"])
          [] m.type = "CONNECT_REJECT" ->
                 When(s.ctl[k].st = "incoming", [s EXCEPT !.ctl[k].st = "clear"])
          [] m.type = "DISCONNECT_REQ" ->
                 {tell(t, Message("DISCONNECT_CONF", k)) :
                      t \in When(s.ctl[k].st \notin {"idle", "disc"},
                                 [s EXCEPT !.ctl[k].st = "clear"])}
          [] m.type = "DISCONNECT_RESP" -> {[s EXCEPT !.ctl[k] = IdleCtl]}
          [] m.type = "CONNECT_B3_REQ" ->
                 {tell(s, [Message("CONNECT_B3_CONF", k) EXCEPT !.ok = FALSE])}
                 \cup {tell([s EXCEPT !.ctl[i].b3 = "alloc"], Message("CONNECT_B3_CONF", i)) :
                            i \in {i \in {k} : s.ctl[i].st = "active"}}
          [] m.type = "CONNECT_B3_RESP" ->
                 When(s.ctl[k].b3 = "in", [s EXCEPT !.ctl[k].b3 = "alloc"])
          [] m.type = "DISCONNECT_B3_REQ" ->
                 IF k = 0 THEN {s}
                 ELSE When(s.ctl[k].b3 \in {"alloc", "active"}, [s EXCEPT !.ctl[k].b3 = "clear"])
          [] m.type = "DISCONNECT_B3_RESP" ->
                 When(s.ctl[k].b3 = "disc", [s EXCEPT !.ctl[k].b3 = "none"])
          [] OTHER -> {s}

Serve ==
    /\ req # <<>>
    /\ \E s \in Served([Now EXCEPT !.req = Tail(@)], Head(req)) : Do(s)

\* A step of PLCI k that the driver is told of.
Step(k, from, to, type) ==
    /\ ctl[k].st = from
    /\ Do(tell([Now EXCEPT !.ctl[k].st = to], Message(type, k)))
StepB3(k, from, to, type) ==
    /\ ctl[k].b3 \in from
    /\ Do(tell([Now EXCEPT !.ctl[k].b3 = to], Message(type, k)))

Called(k) ==
    /\ ctl[k].st = "idle"
    /\ Do(tell([Now EXCEPT !.ctl[k] = [IdleCtl EXCEPT !.st = "incoming", !.incoming = TRUE]],
               Message("CONNECT_IND", k)))
Answered(k) == \E st \in {"alloc", "accepted"} : Step(k, st, "active", "CONNECT_ACTIVE_IND")
OpenB3(k) ==
    ctl[k].st = "active" /\ ctl[k].incoming /\ StepB3(k, {"none"}, "in", "CONNECT_B3_IND")
B3Up(k) == ctl[k].st = "active" /\ StepB3(k, {"alloc"}, "active", "CONNECT_B3_ACTIVE_IND")
B3Down(k) == StepB3(k, {"in", "alloc", "active", "clear"}, "disc", "DISCONNECT_B3_IND")

\* The B channel goes first.
Cleared(k) ==
    /\ ctl[k].b3 \in {"none", "disc"}
    /\ \E st \in {"incoming", "alloc", "accepted", "active", "clear"} :
           Step(k, st, "disc", "DISCONNECT_IND")

-----------------------------------------------------------------------------
Init ==
    /\ bchan = [c \in Chans |-> Clean]
    /\ pl = [c \in Chans |-> NoPlci] /\ nc = [c \in Chans |-> NoNcci]
    /\ ctl = [k \in Plcis |-> IdleCtl]
    /\ req = <<>> /\ ind = <<>>
    /\ ll = [c \in Chans |-> NoCall]

Next ==
    \/ capidrv_signal \/ Serve
    \/ \E c \in Chans : DIAL(c) \/ ACCEPTD(c) \/ HANGUP(c)
    \/ \E k \in Plcis :
           Called(k) \/ Answered(k) \/ OpenB3(k) \/ B3Up(k) \/ B3Down(k) \/ Cleared(k)

\* Messages are handled, and the controller clears what it was told to clear.
\* The first two lines are WF_vars(capidrv_signal) /\ WF_vars(Serve): both are enabled
\* while there is a message.
Fairness ==
    /\ []<>(ind = <<>>) \/ []<><<capidrv_signal>>_vars
    /\ []<>(req = <<>>) \/ []<><<Serve>>_vars
    /\ \A k \in Plcis :
           /\ WF_vars((ctl[k].st = "clear" \/ ctl[k].b3 = "clear") /\ B3Down(k))
           /\ WF_vars(ctl[k].st = "clear" /\ Cleared(k))

Spec == Init /\ [][Next]_vars /\ Fairness

-----------------------------------------------------------------------------
(* Correctness *)

\* A channel without a PLCI is clean.  The link level has no call there: each of
\* its calls keeps a PLCI until STAT_DHUP, so that no dial or hangup waits for a
\* callback that nobody will send.  And no flag of the last call is left, which
\* would make the next HANGUP void or a dialed call an incoming one.
Agreed == \A c \in Chans : pl[c].st = "NONE" => ll[c] = NoCall /\ bchan[c] = Clean

\* Data goes to the call of its channel: an NCCI in a state that lets it through
\* belongs to the channel's PLCI, whose number no other channel has, and the
\* link level was told STAT_BCONN; and what the link level dialed is connected
\* only by a call that it dialed.  The pointer to an NCCI may dangle, when the
\* network clears the call while CONNECT_B3_REQ is on its way: but then the NCCI
\* was never confirmed.
NcciOwned ==
    \A c \in Chans :
        /\ nc[c].st = "ACTIVE" =>
               /\ nc[c].listed /\ ll[c].phase = "data"
               /\ find_plci_by_plci(Now, nc[c].ncci) = {c}
        /\ nc[c].st \notin {"NONE", "OUTGOING"} => nc[c].listed
        /\ ll[c].phase \in {"up", "data", "half"} => ll[c].dialed # bchan[c].incoming

\* A connection for data ends with STAT_BHUP before STAT_DHUP, whichever of
\* the two sides and of the two layers begins.
BhupFirst ==
    [][\A c \in Chans : ll[c].phase = "data" => ll'[c].phase \in {"data", "half"}]_vars

\* Clearing that one side begins ends at the other: a call that is hung up, if
\* the driver is not deaf to it; a dial that was dropped for a call that is
\* being cleared; a PLCI of the controller, also one that found no channel.
ClearingEnds ==
    /\ \A c \in Chans :
           (\/ ll[c].hung /\ ~ll[c].deaf
            \/ ll[c].dialed /\ bchan[c].incoming) ~> ll[c].phase = "null"
    /\ \A k \in Plcis : ctl[k].st = "disc" ~> ctl[k].st = "idle"
=============================================================================

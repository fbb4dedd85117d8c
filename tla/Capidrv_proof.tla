----------------------------- MODULE Capidrv_proof -----------------------------
(***************************************************************************)
(* The CAPI driver, for any number of channels and calls, and however the  *)
(* messages cross: a channel without a PLCI is clean, data goes to the     *)
(* call of its channel, and the link level hears the end of a B channel    *)
(* before it hears the end of its call.                                    *)
(***************************************************************************)
EXTENDS Capidrv, TLAPS

-----------------------------------------------------------------------------
(* The invariant, of the state as one record *)

PlciStates == {"NONE", "OUTGOING", "ALLOCATED", "ACTIVE", "INCOMING", "ACCEPTING",
               "DISCONNECTING", "DISCONNECTED"}
NcciStates == {"NONE", "OUTGOING", "ALLOCATED", "ACTIVE", "INCOMING",
               "DISCONNECTING", "DISCONNECTED"}
CtlStates == {"idle", "alloc", "incoming", "accepted", "active", "clear", "disc"}
B3States == {"none", "in", "alloc", "active", "clear", "disc"}
Phases == {"null", "setup", "ring", "up", "data", "half"}
ReqTypes ==
    {"CONNECT_REQ", "CONNECT_RESP", "CONNECT_REJECT", "DISCONNECT_REQ", "DISCONNECT_RESP",
     "CONNECT_B3_REQ", "CONNECT_B3_RESP", "CONNECT_B3_REJECT", "DISCONNECT_B3_REQ",
     "DISCONNECT_B3_RESP"}
IndTypes ==
    {"CONNECT_IND", "CONNECT_CONF", "CONNECT_ACTIVE_IND", "DISCONNECT_IND", "DISCONNECT_CONF",
     "CONNECT_B3_IND", "CONNECT_B3_CONF", "CONNECT_B3_ACTIVE_IND", "DISCONNECT_B3_IND"}

Bchan == [disconnecting : BOOLEAN, incoming : BOOLEAN]
Plci == [st : PlciStates, plci : Nat]
Ncci == [st : NcciStates, ncci : Nat, listed : BOOLEAN]
Ctl == [st : CtlStates, b3 : B3States, incoming : BOOLEAN]
Ll == [phase : Phases, dialed : BOOLEAN, hung : BOOLEAN, deaf : BOOLEAN]

\* CONNECT_REQ and its answer name a channel.
Req == {m \in [type : ReqTypes, plci : Nat, ok : BOOLEAN, id : Nat] :
            m.type = "CONNECT_REQ" => m.id \in Chans}
Ind == {m \in [type : IndTypes, plci : Nat, ok : BOOLEAN, id : Nat] :
            m.type = "CONNECT_CONF" => m.id \in Chans}

State ==
    [bchan : [Chans -> Bchan], pl : [Chans -> Plci], nc : [Chans -> Ncci],
     ctl : [Plcis -> Ctl], req : Seq(Req), ind : Seq(Ind), ll : [Chans -> Ll]]

Held(s, c) == s.pl[c].st # "NONE"
CleanAt(s, c) == s.ll[c] = NoCall /\ s.bchan[c] = Clean

\* Agreed, except perhaps for channel c.
AgreedBut(s, c) == s \in State /\ \A d \in Chans \ {c} : ~Held(s, d) => CleanAt(s, d)
Good(s) == s \in State /\ \A d \in Chans : ~Held(s, d) => CleanAt(s, d)

\* t is good, and the PLCI of c is still there if it was in s.
Keeps(s, t, c) == Good(t) /\ (Held(s, c) => Held(t, c))

IInv == Good(Now)

-----------------------------------------------------------------------------
(* The tables *)

\* A row leads to NONE by two events only.
LEMMA PlciRows ==
    ASSUME NEW r \in plcitable
    PROVE  /\ r[3] \in PlciStates
           /\ r[3] = "NONE" => r[2] \in {"CONNECT_CONF_ERROR", "DISCONNECT_RESP"}
  BY DEF plcitable, PlciStates

LEMMA NcciRows == ASSUME NEW r \in nccitable PROVE r[3] \in NcciStates
  BY DEF nccitable, NcciStates

LEMMA NewRows ==
    /\ <<"NONE", "CONNECT_REQ", "OUTGOING">> \in plcitable
    /\ <<"NONE", "CONNECT_IND", "INCOMING">> \in plcitable
  BY DEF plcitable

-----------------------------------------------------------------------------
(* Messages *)

LEMMA MessageReq ==
    ASSUME NEW type \in ReqTypes \ {"CONNECT_REQ"}, NEW k \in Nat
    PROVE  Message(type, k) \in Req
  BY DEF Message, Req

LEMMA SendType ==
    ASSUME NEW s \in State, NEW m \in Req
    PROVE  /\ send_message(s, m) \in State
           /\ send_message(s, m).pl = s.pl /\ send_message(s, m).bchan = s.bchan
           /\ send_message(s, m).ll = s.ll /\ send_message(s, m).nc = s.nc
<1>1. Append(s.req, m) \in Seq(Req)  BY DEF State
<1> QED BY <1>1 DEF State, send_message

\* What leaves the PLCIs, the flags and the calls alone keeps a state good.
LEMMA SameGood ==
    ASSUME NEW s, NEW t \in State, NEW c \in Chans,
           t.pl = s.pl, t.bchan = s.bchan, t.ll = s.ll
    PROVE  /\ Good(s) => Keeps(s, t, c)
           /\ Held(s, c) <=> Held(t, c)
  BY DEF Good, Keeps, Held, CleanAt

LEMMA SendGood ==
    ASSUME NEW s, Good(s), NEW m \in Req, NEW c \in Chans
    PROVE  Keeps(s, send_message(s, m), c)
  BY SendType, SameGood DEF Good

\* Also when the message is about no channel.
LEMMA SendAny ==
    ASSUME NEW s, Good(s), NEW m \in Req
    PROVE  Good(send_message(s, m))
<1>1. s \in State  BY DEF Good
<1>2. QED BY <1>1, SendType DEF Good, Held, CleanAt

-----------------------------------------------------------------------------
(* Steps of a PLCI *)

LEMMA PlciType ==
    ASSUME NEW s \in State, NEW c \in Chans, NEW st \in PlciStates, NEW t,
           t = [s EXCEPT !.pl[c].st = st]
    PROVE  /\ t \in State /\ t.pl[c].st = st
           /\ t.bchan = s.bchan /\ t.ll = s.ll /\ t.nc = s.nc
           /\ \A d \in Chans \ {c} : t.pl[d] = s.pl[d]
<1>1. [s.pl EXCEPT ![c].st = st] \in [Chans -> Plci]  BY DEF State, Plci
<1> QED BY <1>1 DEF State, Plci

\* A channel that is cleaned up completely.
LEMMA p0Good ==
    ASSUME NEW s, NEW c \in Chans, AgreedBut(s, c)
    PROVE  Good(p0(s, c))
<1> DEFINE t == p0(s, c)
<1>1. /\ NoCall \in Ll /\ NoPlci \in Plci /\ Clean \in Bchan
      /\ NoPlci.st = "NONE"
  BY DEF NoCall, NoPlci, Clean, Ll, Plci, Bchan, Phases, PlciStates
<1>2. /\ t.pl = [s.pl EXCEPT ![c] = NoPlci]
      /\ t.bchan = [s.bchan EXCEPT ![c] = Clean]
      /\ t.ll = [s.ll EXCEPT ![c] = NoCall]
      /\ t.nc = [s.nc EXCEPT ![c].listed = FALSE]
      /\ t = [s EXCEPT !.pl = t.pl, !.bchan = t.bchan, !.ll = t.ll, !.nc = t.nc]
  BY ZenonT(60) DEF p0, free_plci, AgreedBut, State
<1>3. t.nc \in [Chans -> Ncci]
  <2>1. s.nc \in [Chans -> Ncci]  BY DEF AgreedBut, State
  <2>2. [s.nc[c] EXCEPT !.listed = FALSE] \in Ncci  BY <2>1 DEF Ncci
  <2>3. t.nc = [s.nc EXCEPT ![c] = [s.nc[c] EXCEPT !.listed = FALSE]]  BY <1>2
  <2>4. QED BY <2>1, <2>2, <2>3
<1>4. /\ t.pl \in [Chans -> Plci] /\ t.bchan \in [Chans -> Bchan]
      /\ t.ll \in [Chans -> Ll]
  BY <1>1, <1>2 DEF AgreedBut, State
<1> HIDE DEF t
<1>5. t \in State  BY <1>2, <1>3, <1>4 DEF AgreedBut, State
<1>6. \A d \in Chans : ~Held(t, d) => CleanAt(t, d)
  BY <1>1, <1>2 DEF AgreedBut, State, Held, CleanAt
<1>7. QED BY <1>5, <1>6 DEF Good, t

\* Where the PLCI leads, if it leads anywhere.
LEMMA PlciNext ==
    ASSUME NEW s \in State, NEW c \in Chans, NEW event
    PROVE  \/ plci_change_state(s, c, event) = s
           \/ /\ plci_change_state(s, c, event) = p0(s, c)
              /\ event \in {"CONNECT_CONF_ERROR", "DISCONNECT_RESP"}
           \/ \E st \in PlciStates \ {"NONE"} :
                  plci_change_state(s, c, event) = [s EXCEPT !.pl[c].st = st]
<1> DEFINE rows == {r \in plcitable : r[1] = s.pl[c].st /\ r[2] = event}
           tos == {r[3] : r \in rows}
           next == CHOOSE st \in tos : TRUE
<1>1. plci_change_state(s, c, event) =
          IF rows = {} THEN s ELSE IF next = "NONE" THEN p0(s, c)
          ELSE [s EXCEPT !.pl[c].st = next]
  BY DEF plci_change_state
<1>2. CASE rows = {}
  BY <1>1, <1>2
<1>3. CASE rows # {}
  <2>1. next \in tos  BY <1>3
  <2>2. PICK r \in rows : next = r[3]  BY <2>1
  <2>3. next \in PlciStates /\ (next = "NONE" => event \in {"CONNECT_CONF_ERROR", "DISCONNECT_RESP"})
    BY <2>2, PlciRows
  <2> HIDE DEF next, rows
  <2>4. QED BY <1>1, <1>3, <2>3
<1>4. QED BY <1>2, <1>3

\* An event keeps a state good, and the PLCI unless it ends it.
LEMMA PlciGood ==
    ASSUME NEW s, NEW c \in Chans, Good(s), NEW event, NEW t,
           t = plci_change_state(s, c, event)
    PROVE  /\ Good(t)
           /\ event \notin {"CONNECT_CONF_ERROR", "DISCONNECT_RESP"} => Keeps(s, t, c)
<1>1. s \in State  BY DEF Good
<1>2. CASE t = s  BY <1>2 DEF Keeps
<1>3. CASE t = p0(s, c) /\ event \in {"CONNECT_CONF_ERROR", "DISCONNECT_RESP"}
  BY <1>3, p0Good DEF Good, AgreedBut
<1>4. ASSUME NEW st \in PlciStates \ {"NONE"}, t = [s EXCEPT !.pl[c].st = st]
      PROVE  Keeps(s, t, c)
  BY <1>1, <1>4, PlciType DEF Good, Keeps, Held, CleanAt
<1>5. QED BY <1>1, <1>2, <1>3, <1>4, PlciNext DEF Keeps

LEMMA PlciSet ==
    ASSUME NEW u \in State, NEW c \in Chans, NEW t,
           \E st \in PlciStates \ {"NONE"} : t = [u EXCEPT !.pl[c].st = st],
           \A d \in Chans \ {c} : u.pl[d].st # "NONE" \/ (u.ll[d] = NoCall /\ u.bchan[d] = Clean)
    PROVE  Good(t) /\ Held(t, c) /\ t.ll = u.ll /\ t.bchan = u.bchan
<1>1. PICK st \in PlciStates \ {"NONE"} : t = [u EXCEPT !.pl[c].st = st]  OBVIOUS
<1>2. /\ t \in State /\ t.pl[c].st = st /\ t.bchan = u.bchan /\ t.ll = u.ll
      /\ \A d \in Chans \ {c} : t.pl[d] = u.pl[d]
  <2>1. [u.pl EXCEPT ![c].st = st] \in [Chans -> Plci]  BY DEF State, Plci
  <2>2. QED BY <1>1, <2>1 DEF State, Plci
<1>3. QED BY <1>2 DEF Good, Held, CleanAt

\* A new PLCI makes good a state that is good everywhere else.
LEMMA NewPlci ==
    ASSUME NEW s, NEW c \in Chans, AgreedBut(s, c), NEW k \in Nat,
           NEW event \in {"CONNECT_REQ", "CONNECT_IND"}, NEW t,
           t = new_plci(s, c, k, event)
    PROVE  Good(t) /\ Held(t, c) /\ t.ll = s.ll /\ t.bchan = s.bchan
<1> DEFINE u == [s EXCEPT !.pl[c] = [NoPlci EXCEPT !.plci = k]]
           rows == {r \in plcitable : r[1] = u.pl[c].st /\ r[2] = event}
           tos == {r[3] : r \in rows}
           next == CHOOSE st \in tos : TRUE
<1>1. s \in State  BY DEF AgreedBut
<1>2. [NoPlci EXCEPT !.plci = k] \in Plci /\ [NoPlci EXCEPT !.plci = k].st = "NONE"
  BY DEF NoPlci, Plci, PlciStates
<1>3. /\ u \in State /\ u.pl[c].st = "NONE" /\ u.ll = s.ll /\ u.bchan = s.bchan
      /\ \A d \in Chans \ {c} : u.pl[d] = s.pl[d]
  BY <1>1, <1>2 DEF State
<1>4. t = IF rows = {} THEN u ELSE IF next = "NONE" THEN p0(u, c)
          ELSE [u EXCEPT !.pl[c].st = next]
  BY DEF plci_change_state, new_plci
<1>5. rows # {}
  <2>1. \E r \in plcitable : r[1] = "NONE" /\ r[2] = event  BY NewRows
  <2>2. QED BY <1>3, <2>1
<1>6. next \in tos  BY <1>5
<1>7. PICK r \in rows : next = r[3]  BY <1>6
<1>8. next \in PlciStates /\ next # "NONE"  BY <1>7, PlciRows
<1> HIDE DEF next, rows
<1>9. \E st \in PlciStates \ {"NONE"} : t = [u EXCEPT !.pl[c].st = st]  BY <1>4, <1>5, <1>8
<1>10. \A d \in Chans \ {c} : u.pl[d].st # "NONE" \/ (u.ll[d] = NoCall /\ u.bchan[d] = Clean)
  BY <1>3 DEF AgreedBut, Held, CleanAt
<1> HIDE DEF u
<1>11. QED BY <1>3, <1>9, <1>10, PlciSet

-----------------------------------------------------------------------------
(* Steps of an NCCI and of a call *)

\* What changes nothing but an NCCI.
LEMMA NcciType ==
    ASSUME NEW s, Good(s), NEW c \in Chans, NEW n \in Ncci, NEW t, t = [s EXCEPT !.nc[c] = n]
    PROVE  Keeps(s, t, c)
<1>1. t \in State /\ t.pl = s.pl /\ t.bchan = s.bchan /\ t.ll = s.ll  BY DEF Good, State
<1>2. QED BY <1>1, SameGood

\* What changes the link level's call on a channel that has a PLCI.
LEMMA CallGood ==
    ASSUME NEW s, Good(s), NEW c \in Chans, NEW l \in Ll, Held(s, c) \/ l = s.ll[c],
           NEW t, t = [s EXCEPT !.ll[c] = l]
    PROVE  Keeps(s, t, c)
<1>1. /\ t \in State /\ t.pl = s.pl /\ t.bchan = s.bchan
      /\ t.ll[c] = l /\ \A d \in Chans \ {c} : t.ll[d] = s.ll[d]
  BY DEF Good, State
<1>2. QED BY <1>1 DEF Good, Keeps, Held, CleanAt

\* What changes the flags of a channel that has a PLCI.
LEMMA FlagGood ==
    ASSUME NEW s, Good(s), NEW c \in Chans, NEW b \in Bchan, Held(s, c),
           NEW t, t = [s EXCEPT !.bchan[c] = b]
    PROVE  Keeps(s, t, c)
<1>1. /\ t \in State /\ t.pl = s.pl /\ t.ll = s.ll
      /\ t.bchan[c] = b /\ \A d \in Chans \ {c} : t.bchan[d] = s.bchan[d]
  BY DEF Good, State
<1>2. QED BY <1>1 DEF Good, Keeps, Held, CleanAt

\* A new phase of a call.
LEMMA PhaseGood ==
    ASSUME NEW s, Good(s), NEW c \in Chans, NEW phase \in Phases,
           Held(s, c) \/ phase = s.ll[c].phase, NEW t, t = [s EXCEPT !.ll[c].phase = phase]
    PROVE  Keeps(s, t, c)
<1> DEFINE l == [s.ll[c] EXCEPT !.phase = phase]
<1>1. s.ll[c] \in Ll  BY DEF Good, State
<1>2. l \in Ll /\ (phase = s.ll[c].phase => l = s.ll[c])  BY <1>1 DEF Ll
<1>3. t = [s EXCEPT !.ll[c] = l]  OBVIOUS
<1> HIDE DEF l
<1>4. QED BY <1>2, <1>3, CallGood

LEMMA BhupGood ==
    ASSUME NEW s, Good(s), NEW c \in Chans
    PROVE  Keeps(s, BHUP(s, c), c)
<1> DEFINE phase == IF s.ll[c].phase = "data" THEN "half" ELSE s.ll[c].phase
<1>1. s.ll[c] \in Ll  BY DEF Good, State
<1>2. phase \in Phases  BY <1>1 DEF Ll, Phases
<1>3. Held(s, c) \/ phase = s.ll[c].phase
  <2>1. NoCall.phase # "data"  BY DEF NoCall
  <2>2. QED BY <2>1 DEF Good, CleanAt
<1>4. BHUP(s, c) = [s EXCEPT !.ll[c].phase = phase]  BY DEF BHUP
<1> HIDE DEF phase
<1>5. QED BY <1>2, <1>3, <1>4, PhaseGood

\* Three good steps.
LEMMA Chain ==
    ASSUME NEW s, NEW t, NEW u, NEW c, Keeps(s, t, c), Keeps(t, u, c)
    PROVE  Keeps(s, u, c)
  BY DEF Keeps

LEMMA n0Good ==
    ASSUME NEW s, Good(s), NEW c \in Chans
    PROVE  Keeps(s, n0(s, c), c)
<1> DEFINE t == send_message(s, Message("DISCONNECT_REQ", s.pl[c].plci))
           u == plci_change_state(t, c, "DISCONNECT_REQ")
           v == BHUP(u, c)
           w == [v EXCEPT !.nc[c] = NoNcci]
<1>1. s.pl[c].plci \in Nat  BY DEF Good, State, Plci
<1>2. Message("DISCONNECT_REQ", s.pl[c].plci) \in Req  BY <1>1, MessageReq DEF ReqTypes
<1>3. Keeps(s, t, c)  BY <1>2, SendGood
<1> HIDE DEF t
<1>4. Keeps(t, u, c)  BY <1>3, PlciGood DEF Keeps
<1> HIDE DEF u
<1>5. Keeps(u, v, c)  BY <1>4, BhupGood DEF Keeps
<1> HIDE DEF v
<1>6. NoNcci \in Ncci  BY DEF NoNcci, Ncci, NcciStates
<1>7. Keeps(v, w, c)  BY <1>5, <1>6, NcciType DEF Keeps
<1>8. n0(s, c) = w  BY DEF n0, free_ncci, t, u, v
<1>9. QED BY <1>3, <1>4, <1>5, <1>7, <1>8, Chain

LEMMA NcciGood ==
    ASSUME NEW s, NEW c \in Chans, Good(s), NEW event, NEW t,
           t = ncci_change_state(s, c, event)
    PROVE  Keeps(s, t, c)
<1> DEFINE rows == {r \in nccitable : r[1] = s.nc[c].st /\ r[2] = event}
           tos == {r[3] : r \in rows}
           next == CHOOSE st \in tos : TRUE
<1>1. t = IF rows = {} THEN s ELSE IF next = "NONE" THEN n0(s, c)
          ELSE [s EXCEPT !.nc[c].st = next]
  BY DEF ncci_change_state
<1>2. CASE rows = {}
  BY <1>1, <1>2 DEF Keeps
<1>3. CASE rows # {}
  <2>1. next \in tos  BY <1>3
  <2>2. PICK r \in rows : next = r[3]  BY <2>1
  <2>3. next \in NcciStates  BY <2>2, NcciRows
  <2>4. s.nc[c] \in Ncci  BY DEF Good, State
  <2> DEFINE n == [s.nc[c] EXCEPT !.st = next]
  <2> HIDE DEF next, rows
  <2>5. n \in Ncci  BY <2>3, <2>4 DEF Ncci
  <2>6. t = n0(s, c) \/ t = [s EXCEPT !.nc[c] = n]  BY <1>1, <1>3
  <2> HIDE DEF n
  <2>7. QED BY <2>5, <2>6, n0Good, NcciType
<1>4. QED BY <1>2, <1>3

LEMMA NewNcciGood ==
    ASSUME NEW s, Good(s), NEW c \in Chans, NEW k \in Nat, NEW event
    PROVE  Keeps(s, new_ncci(s, c, k, event), c)
<1> DEFINE n == [NoNcci EXCEPT !.ncci = k, !.listed = TRUE]
           t == [s EXCEPT !.nc[c] = n]
<1>1. n \in Ncci
  <2>1. NoNcci \in Ncci  BY DEF NoNcci, Ncci, NcciStates
  <2>2. QED BY <2>1 DEF Ncci
<1> HIDE DEF n
<1>2. Keeps(s, t, c)  BY <1>1, NcciType
<1>3. new_ncci(s, c, k, event) = ncci_change_state(t, c, event)  BY DEF new_ncci, n
<1> HIDE DEF t
<1>4. QED BY <1>2, <1>3, NcciGood, Chain DEF Keeps

-----------------------------------------------------------------------------
(* Commands of the link level *)

LEMMA OffGood ==
    ASSUME NEW s, Good(s), NEW c \in Chans, Held(s, c),
           NEW t, t = [s EXCEPT !.bchan[c].disconnecting = TRUE]
    PROVE  Keeps(s, t, c)
<1> DEFINE b == [s.bchan[c] EXCEPT !.disconnecting = TRUE]
<1>1. s.bchan[c] \in Bchan  BY DEF Good, State
<1>2. b \in Bchan  BY <1>1 DEF Bchan
<1>3. t = [s EXCEPT !.bchan[c] = b]  OBVIOUS
<1> HIDE DEF b
<1>4. QED BY <1>2, <1>3, FlagGood

LEMMA DeafGood ==
    ASSUME NEW s, Good(s), NEW c \in Chans, Held(s, c)
    PROVE  /\ Keeps(s, [s EXCEPT !.ll[c].deaf = TRUE], c)
           /\ Keeps(s, [s EXCEPT !.ll[c].hung = TRUE], c)
<1> DEFINE l == [s.ll[c] EXCEPT !.deaf = TRUE]
           h == [s.ll[c] EXCEPT !.hung = TRUE]
           t == [s EXCEPT !.ll[c].deaf = TRUE]
           u == [s EXCEPT !.ll[c].hung = TRUE]
<1>1. s.ll[c] \in Ll  BY DEF Good, State
<1>2. l \in Ll /\ h \in Ll  BY <1>1 DEF Ll
<1>3. t = [s EXCEPT !.ll[c] = l] /\ u = [s EXCEPT !.ll[c] = h]  OBVIOUS
<1> HIDE DEF l, h, t, u
<1>4. Keeps(s, t, c) /\ Keeps(s, u, c)  BY <1>2, <1>3, CallGood
<1>5. QED BY <1>4 DEF t, u

\* An event of the PLCI, with the request that goes with it.
LEMMA RequestGood ==
    ASSUME NEW s, Good(s), NEW c \in Chans, NEW m \in Req,
           NEW event, event \notin {"CONNECT_CONF_ERROR", "DISCONNECT_RESP"}
    PROVE  Keeps(s, send_message(plci_change_state(s, c, event), m), c)
<1> DEFINE t == plci_change_state(s, c, event)
<1>1. Keeps(s, t, c)  BY PlciGood
<1> HIDE DEF t
<1>2. Keeps(t, send_message(t, m), c)  BY <1>1, SendGood DEF Keeps
<1>3. QED BY <1>1, <1>2, Chain DEF t

LEMMA RequestB3Good ==
    ASSUME NEW s, Good(s), NEW c \in Chans, NEW m \in Req, NEW event
    PROVE  Keeps(s, send_message(ncci_change_state(s, c, event), m), c)
<1> DEFINE t == ncci_change_state(s, c, event)
<1>1. Keeps(s, t, c)  BY NcciGood
<1> HIDE DEF t
<1>2. Keeps(t, send_message(t, m), c)  BY <1>1, SendGood DEF Keeps
<1>3. QED BY <1>1, <1>2, Chain DEF t

LEMMA hangupGood ==
    ASSUME NEW s, Good(s), NEW c \in Chans, Held(s, c)
    PROVE  Keeps(s, hangup(s, c), c)
<1> DEFINE off == [s EXCEPT !.bchan[c].disconnecting = TRUE]
           deaf == [off EXCEPT !.ll[c].deaf = TRUE]
           b3 == IF s.nc[c].ncci = 0 THEN deaf ELSE off
           byB3 == send_message(ncci_change_state(b3, c, "DISCONNECT_B3_REQ"),
                                Message("DISCONNECT_B3_REQ", s.nc[c].ncci))
           byCall == send_message(plci_change_state(off, c, "DISCONNECT_REQ"),
                                  Message("DISCONNECT_REQ", s.pl[c].plci))
           early == [s EXCEPT !.ll[c].deaf = TRUE]
<1>1. s.nc[c].ncci \in Nat /\ s.pl[c].plci \in Nat  BY DEF Good, State, Ncci, Plci
<1>2. /\ Message("DISCONNECT_B3_REQ", s.nc[c].ncci) \in Req
      /\ Message("DISCONNECT_REQ", s.pl[c].plci) \in Req
  BY <1>1, MessageReq DEF ReqTypes
<1>3. Keeps(s, off, c)  BY OffGood
<1>4. Keeps(s, early, c)  BY DeafGood
<1>5. hangup(s, c) \in {s, byB3, deaf, byCall, early}  BY DEF hangup
<1> HIDE DEF off, early
<1>6. Keeps(off, deaf, c)  BY <1>3, DeafGood DEF Keeps
<1> HIDE DEF deaf
<1>7. Keeps(s, deaf, c)  BY <1>3, <1>6, Chain
<1>8. Keeps(s, b3, c)  BY <1>3, <1>7
<1> HIDE DEF b3
<1>9. Keeps(b3, byB3, c)  BY <1>2, <1>8, RequestB3Good DEF Keeps
<1>10. Keeps(off, byCall, c)  BY <1>2, <1>3, RequestGood DEF Keeps
<1> HIDE DEF byB3, byCall
<1>11. Keeps(s, byB3, c) /\ Keeps(s, byCall, c)  BY <1>3, <1>8, <1>9, <1>10, Chain
<1>12. QED BY <1>4, <1>5, <1>7, <1>11 DEF Keeps

LEMMA acceptGood ==
    ASSUME NEW s, Good(s), NEW c \in Chans, Held(s, c)
    PROVE  Keeps(s, accept(s, c), c)
<1> DEFINE t == [s EXCEPT !.ll[c].phase = "setup"]
<1>1. "setup" \in Phases /\ s.pl[c].plci \in Nat  BY DEF Phases, Good, State, Plci
<1>2. Message("CONNECT_RESP", s.pl[c].plci) \in Req  BY <1>1, MessageReq DEF ReqTypes
<1>3. Keeps(s, t, c)  BY <1>1, PhaseGood
<1>4. accept(s, c) = send_message(plci_change_state(t, c, "CONNECT_RESP"),
                                  Message("CONNECT_RESP", s.pl[c].plci))
  BY DEF accept
<1> HIDE DEF t
<1>5. QED BY <1>2, <1>3, <1>4, RequestGood, Chain DEF Keeps

LEMMA rejectGood ==
    ASSUME NEW s, Good(s), NEW c \in Chans, Held(s, c), NEW withHangup
    PROVE  Good(reject(s, c, withHangup))
<1> DEFINE h == hangup(s, c)
           t == IF withHangup THEN [h EXCEPT !.ll[c] = NoCall] ELSE s
<1>1. s.pl[c].plci \in Nat /\ NoCall \in Ll
  BY DEF Good, State, Plci, NoCall, Ll, Phases
<1>2. Message("CONNECT_REJECT", s.pl[c].plci) \in Req  BY <1>1, MessageReq DEF ReqTypes
<1>3. Keeps(s, h, c)  BY hangupGood
<1>4. reject(s, c, withHangup) = send_message(plci_change_state(t, c, "CONNECT_REJECT"),
                                              Message("CONNECT_REJECT", s.pl[c].plci))
  BY DEF reject
<1> HIDE DEF h
<1>5. Keeps(h, [h EXCEPT !.ll[c] = NoCall], c)  BY <1>1, <1>3, CallGood DEF Keeps
<1>6. Good(t)  BY <1>5 DEF Keeps
<1> HIDE DEF t
<1>7. QED BY <1>2, <1>4, <1>6, RequestGood DEF Keeps

-----------------------------------------------------------------------------
(* Messages of the controller *)

\* A message is for a channel that has the PLCI.
LEMMA Owners ==
    ASSUME NEW s, NEW k, NEW c
    PROVE  /\ c \in find_plci_by_plci(s, k) => c \in Chans /\ Held(s, c)
           /\ c \in find_ncci(s, k) => c \in Chans /\ Held(s, c)
           /\ c \in find_ncci_by_msgid(s, k) => c \in Chans /\ Held(s, c)
  BY DEF find_plci_by_plci, find_ncci, find_ncci_by_msgid, Held

LEMMA DisconnectInd ==
    ASSUME NEW s, Good(s), NEW k \in Nat, NEW t \in DISCONNECT_IND(s, k)
    PROVE  Good(t)
<1> DEFINE owner == find_plci_by_plci(s, k)
           on(c) == [s EXCEPT !.bchan[c].disconnecting = TRUE]
           off(c) == plci_change_state(on(c), c, "DISCONNECT_IND")
<1>1. CASE t = send_message(s, Message("DISCONNECT_RESP", k))
  <2>1. Message("DISCONNECT_RESP", k) \in Req  BY MessageReq DEF ReqTypes
  <2>2. QED BY <1>1, <2>1, SendAny
<1>2. ASSUME NEW c \in owner,
             t = plci_change_state(Answer(off(c), c), c, "DISCONNECT_RESP")
      PROVE  Good(t)
  <2>1. c \in Chans /\ Held(s, c)  BY Owners
  <2>2. Keeps(s, on(c), c)  BY <2>1, OffGood
  <2> DEFINE u == on(c)
  <2>3. t = plci_change_state(Answer(plci_change_state(u, c, "DISCONNECT_IND"), c),
                              c, "DISCONNECT_RESP")
    BY <1>2
  <2> HIDE DEF u, on
  <2> DEFINE v == plci_change_state(u, c, "DISCONNECT_IND")
             w == Answer(v, c)
  <2>4. Good(v)  BY <2>1, <2>2, PlciGood DEF Keeps, u
  <2>5. t = plci_change_state(w, c, "DISCONNECT_RESP")  BY <2>3
  <2> HIDE DEF v
  <2>6. v.pl[c].plci \in Nat  BY <2>1, <2>4 DEF Good, State, Plci
  <2>7. Message("DISCONNECT_RESP", v.pl[c].plci) \in Req  BY <2>6, MessageReq DEF ReqTypes
  <2>8. Good(w)  BY <2>1, <2>4, <2>7, SendGood DEF Answer, Keeps
  <2> HIDE DEF w
  <2>9. QED BY <2>1, <2>5, <2>8, PlciGood
<1>3. QED BY <1>1, <1>2 DEF DISCONNECT_IND

LEMMA DisconnectConf ==
    ASSUME NEW s, Good(s), NEW k \in Nat, NEW t \in DISCONNECT_CONF(s, k)
    PROVE  Good(t)
<1>1. ASSUME NEW c \in find_plci_by_plci(s, k), t = [s EXCEPT !.bchan[c].disconnecting = TRUE]
      PROVE  Good(t)
  BY <1>1, Owners, OffGood DEF Keeps
<1>2. QED BY <1>1 DEF DISCONNECT_CONF

\* The number of the PLCI.
LEMMA ConnectConf ==
    ASSUME NEW s, Good(s), NEW m \in Ind, m.type = "CONNECT_CONF",
           NEW t \in CONNECT_CONF(s, m)
    PROVE  Good(t)
<1> DEFINE c == m.id
           p == [s.pl[c] EXCEPT !.plci = m.plci]
           u == [s EXCEPT !.pl[c] = p]
<1>1. c \in Chans /\ m.plci \in Nat  BY DEF Ind
<1>2. s \in State /\ s.pl[c] \in Plci  BY <1>1 DEF Good, State
<1>3. p \in Plci /\ p.st = s.pl[c].st  BY <1>1, <1>2 DEF Plci
<1>4. u = [s EXCEPT !.pl[m.id].plci = m.plci]  OBVIOUS
<1> HIDE DEF p
<1>5. /\ u \in State /\ u.bchan = s.bchan /\ u.ll = s.ll
      /\ \A d \in Chans : u.pl[d].st = s.pl[d].st
  BY <1>1, <1>2, <1>3 DEF State
<1>6. \E event : t = plci_change_state(u, c, event)
  BY <1>4 DEF CONNECT_CONF
<1> HIDE DEF u
<1>7. Good(u)  BY <1>5 DEF Good, Held, CleanAt
<1>8. QED BY <1>1, <1>6, <1>7, PlciGood

LEMMA IncomingCall ==
    ASSUME NEW s, Good(s), NEW k \in Nat, NEW t \in handle_incoming_call(s, k)
    PROVE  Good(t)
<1>1. CASE t = s  BY <1>1
<1>2. ASSUME NEW c \in new_bchan(s), t \in icall(s, c, k)
      PROVE  Good(t)
  <2> DEFINE b == [disconnecting |-> FALSE, incoming |-> TRUE]
             u == [s EXCEPT !.bchan[c] = b]
             v == new_plci(u, c, k, "CONNECT_IND")
  <2>1. c \in Chans  BY DEF new_bchan
  <2>2. b \in Bchan  BY DEF Bchan
  <2>3. t \in {reject(v, c, h) : h \in BOOLEAN} \cup {[v EXCEPT !.ll[c].phase = "ring"], accept(v, c)}
    BY <1>2 DEF icall
  <2> HIDE DEF b
  <2>4. /\ u \in State /\ u.pl = s.pl /\ u.ll = s.ll
        /\ \A d \in Chans \ {c} : u.bchan[d] = s.bchan[d]
    BY <2>1, <2>2 DEF Good, State
  <2> HIDE DEF u
  <2>5. AgreedBut(u, c)  BY <2>4 DEF AgreedBut, Good, Held, CleanAt
  <2>6. Good(v) /\ Held(v, c)  BY <2>1, <2>5, NewPlci
  <2> HIDE DEF v
  <2>7. "ring" \in Phases  BY DEF Phases
  <2>8. Good([v EXCEPT !.ll[c].phase = "ring"])  BY <2>1, <2>6, <2>7, PhaseGood DEF Keeps
  <2>9. Good(accept(v, c))  BY <2>1, <2>6, acceptGood DEF Keeps
  <2>10. QED BY <2>1, <2>3, <2>6, <2>8, <2>9, rejectGood
<1>3. QED BY <1>1, <1>2 DEF handle_incoming_call

LEMMA DconnGood ==
    ASSUME NEW s, Good(s), NEW c \in Chans
    PROVE  Keeps(s, DCONN(s, c), c)
<1> DEFINE phase == IF s.ll[c].phase = "setup" THEN "up" ELSE s.ll[c].phase
<1>1. s.ll[c] \in Ll  BY DEF Good, State
<1>2. phase \in Phases  BY <1>1 DEF Ll, Phases
<1>3. Held(s, c) \/ phase = s.ll[c].phase
  <2>1. NoCall.phase # "setup"  BY DEF NoCall
  <2>2. QED BY <2>1 DEF Good, CleanAt
<1>4. DCONN(s, c) = [s EXCEPT !.ll[c].phase = phase]  BY DEF DCONN
<1> HIDE DEF phase
<1>5. QED BY <1>2, <1>3, <1>4, PhaseGood

LEMMA ConnectActiveInd ==
    ASSUME NEW s, Good(s), NEW k \in Nat, NEW t \in CONNECT_ACTIVE_IND(s, k)
    PROVE  Good(t)
<1>1. CASE t = s  BY <1>1
<1>2. ASSUME NEW c \in find_plci_by_plci(s, k) PROVE
          LET u == plci_change_state(s, c, "CONNECT_ACTIVE_IND")
              v == new_ncci(DCONN(u, c), c, 0, "CONNECT_B3_REQ")
          IN  Good(u) /\ Good(send_message(v, Message("CONNECT_B3_REQ", k)))
  <2> DEFINE u == plci_change_state(s, c, "CONNECT_ACTIVE_IND")
             d == DCONN(u, c)
             v == new_ncci(d, c, 0, "CONNECT_B3_REQ")
  <2>1. c \in Chans  BY Owners
  <2>2. Message("CONNECT_B3_REQ", k) \in Req  BY MessageReq DEF ReqTypes
  <2>3. Good(u)  BY <2>1, PlciGood
  <2> HIDE DEF u
  <2>4. Good(d)  BY <2>1, <2>3, DconnGood DEF Keeps
  <2> HIDE DEF d
  <2>5. Good(v)  BY <2>1, <2>4, NewNcciGood DEF Keeps
  <2> HIDE DEF v
  <2>6. Good(send_message(v, Message("CONNECT_B3_REQ", k)))
    BY <2>1, <2>2, <2>5, SendGood DEF Keeps
  <2>7. QED BY <2>3, <2>6 DEF u, d, v
<1>3. QED BY <1>1, <1>2 DEF CONNECT_ACTIVE_IND

LEMMA ConnectB3Ind ==
    ASSUME NEW s, Good(s), NEW k \in Nat, NEW t \in CONNECT_B3_IND(s, k)
    PROVE  Good(t)
<1>1. ASSUME NEW c \in find_plci_by_plci(s, k),
             t = ncci_change_state(send_message(new_ncci(s, c, k, "CONNECT_B3_IND"),
                                                Message("CONNECT_B3_RESP", k)),
                                   c, "CONNECT_B3_RESP")
      PROVE  Good(t)
  <2> DEFINE u == new_ncci(s, c, k, "CONNECT_B3_IND")
             v == send_message(u, Message("CONNECT_B3_RESP", k))
  <2>1. c \in Chans  BY Owners
  <2>2. Message("CONNECT_B3_RESP", k) \in Req  BY MessageReq DEF ReqTypes
  <2>3. Good(u)  BY <2>1, NewNcciGood DEF Keeps
  <2>4. t = ncci_change_state(v, c, "CONNECT_B3_RESP")  BY <1>1
  <2> HIDE DEF u
  <2>5. Good(v)  BY <2>1, <2>2, <2>3, SendGood DEF Keeps
  <2> HIDE DEF v
  <2>6. QED BY <2>1, <2>4, <2>5, NcciGood DEF Keeps
<1>2. ASSUME find_plci_by_plci(s, k) = {}, t = send_message(s, Message("CONNECT_B3_REJECT", k))
      PROVE  Good(t)
  <2>1. Message("CONNECT_B3_REJECT", k) \in Req  BY MessageReq DEF ReqTypes
  <2>2. QED BY <1>2, <2>1, SendAny
<1>3. QED BY <1>1, <1>2 DEF CONNECT_B3_IND

LEMMA ConnectB3Conf ==
    ASSUME NEW s, Good(s), NEW m \in Ind, NEW t \in CONNECT_B3_CONF(s, m)
    PROVE  Good(t)
<1>1. CASE t = s  BY <1>1
<1>2. ASSUME NEW c \in find_ncci_by_msgid(s, m.plci), NEW event,
             t = ncci_change_state([s EXCEPT !.nc[c].ncci = m.plci], c, event)
      PROVE  Good(t)
  <2> DEFINE n == [s.nc[c] EXCEPT !.ncci = m.plci]
             u == [s EXCEPT !.nc[c] = n]
  <2>1. c \in Chans /\ m.plci \in Nat  BY Owners DEF Ind
  <2>2. s.nc[c] \in Ncci  BY <2>1 DEF Good, State
  <2>3. n \in Ncci  BY <2>1, <2>2 DEF Ncci
  <2>4. t = ncci_change_state(u, c, event)  BY <1>2
  <2> HIDE DEF n
  <2>5. Good(u)  BY <2>1, <2>3, NcciType DEF Keeps
  <2> HIDE DEF u
  <2>6. QED BY <2>1, <2>4, <2>5, NcciGood DEF Keeps
<1>3. QED BY <1>1, <1>2 DEF CONNECT_B3_CONF

LEMMA ConnectB3ActiveInd ==
    ASSUME NEW s, Good(s), NEW k \in Nat, NEW t \in CONNECT_B3_ACTIVE_IND(s, k)
    PROVE  Good(t)
<1>1. CASE t = s  BY <1>1
<1>2. ASSUME NEW c \in find_ncci(s, k),
             t = BCONN(ncci_change_state(s, c, "CONNECT_B3_ACTIVE_IND"), c)
      PROVE  Good(t)
  <2> DEFINE u == ncci_change_state(s, c, "CONNECT_B3_ACTIVE_IND")
  <2>1. c \in Chans /\ Held(s, c)  BY Owners
  <2>2. "data" \in Phases  BY DEF Phases
  <2>3. Keeps(s, u, c)  BY <2>1, NcciGood
  <2>4. t = [u EXCEPT !.ll[c].phase = "data"]  BY <1>2 DEF BCONN
  <2> HIDE DEF u
  <2>5. QED BY <2>1, <2>2, <2>3, <2>4, PhaseGood DEF Keeps
<1>3. QED BY <1>1, <1>2 DEF CONNECT_B3_ACTIVE_IND

LEMMA DisconnectB3Ind ==
    ASSUME NEW s, Good(s), NEW k \in Nat, NEW t \in DISCONNECT_B3_IND(s, k)
    PROVE  Good(t)
<1>1. CASE t = s  BY <1>1
<1>2. ASSUME NEW c \in find_ncci(s, k),
             t = ncci_change_state(
                     send_message(ncci_change_state([s EXCEPT !.bchan[c].disconnecting = TRUE],
                                                    c, "DISCONNECT_B3_IND"),
                                  Message("DISCONNECT_B3_RESP", k)), c, "DISCONNECT_B3_RESP")
      PROVE  Good(t)
  <2> DEFINE u == [s EXCEPT !.bchan[c].disconnecting = TRUE]
             v == send_message(ncci_change_state(u, c, "DISCONNECT_B3_IND"),
                               Message("DISCONNECT_B3_RESP", k))
  <2>1. c \in Chans /\ Held(s, c)  BY Owners
  <2>2. Message("DISCONNECT_B3_RESP", k) \in Req  BY MessageReq DEF ReqTypes
  <2>3. Good(u)  BY <2>1, OffGood DEF Keeps
  <2>4. t = ncci_change_state(v, c, "DISCONNECT_B3_RESP")  BY <1>2
  <2> HIDE DEF u
  <2>5. Good(v)  BY <2>1, <2>2, <2>3, RequestB3Good DEF Keeps
  <2> HIDE DEF v
  <2>6. QED BY <2>1, <2>4, <2>5, NcciGood DEF Keeps
<1>3. QED BY <1>1, <1>2 DEF DISCONNECT_B3_IND

LEMMA HandledGood ==
    ASSUME NEW s, Good(s), NEW m \in Ind, NEW t \in Handled(s, m)
    PROVE  Good(t)
<1>1. m.plci \in Nat /\ m.type \in IndTypes  BY DEF Ind
<1>2. /\ m.type = "CONNECT_IND" => t \in handle_incoming_call(s, m.plci)
      /\ m.type = "CONNECT_CONF" => t \in CONNECT_CONF(s, m)
      /\ m.type = "CONNECT_ACTIVE_IND" => t \in CONNECT_ACTIVE_IND(s, m.plci)
      /\ m.type = "DISCONNECT_IND" => t \in DISCONNECT_IND(s, m.plci)
      /\ m.type = "DISCONNECT_CONF" => t \in DISCONNECT_CONF(s, m.plci)
      /\ m.type = "CONNECT_B3_IND" => t \in CONNECT_B3_IND(s, m.plci)
      /\ m.type = "CONNECT_B3_CONF" => t \in CONNECT_B3_CONF(s, m)
      /\ m.type = "CONNECT_B3_ACTIVE_IND" => t \in CONNECT_B3_ACTIVE_IND(s, m.plci)
      /\ m.type = "DISCONNECT_B3_IND" => t \in DISCONNECT_B3_IND(s, m.plci)
  BY DEF Handled
<1>3. QED
  BY <1>1, <1>2, IncomingCall, ConnectConf, ConnectActiveInd, DisconnectInd, DisconnectConf,
     ConnectB3Ind, ConnectB3Conf, ConnectB3ActiveInd, DisconnectB3Ind DEF IndTypes

-----------------------------------------------------------------------------
(* The controller changes its own state and the queues only *)

Same(s, t) == t \in State /\ t.pl = s.pl /\ t.bchan = s.bchan /\ t.ll = s.ll

LEMMA SameKept == ASSUME NEW s, NEW t, Good(s), Same(s, t) PROVE Good(t)
  BY DEF Good, Same, Held, CleanAt

LEMMA TellSame ==
    ASSUME NEW s \in State, NEW m \in Ind
    PROVE  Same(s, tell(s, m))
<1>1. Append(s.ind, m) \in Seq(Ind)  BY DEF State
<1>2. QED BY <1>1 DEF State, Same, tell

LEMMA MessageInd ==
    ASSUME NEW type \in IndTypes \ {"CONNECT_CONF"}, NEW k \in Nat
    PROVE  /\ Message(type, k) \in Ind
           /\ [Message(type, k) EXCEPT !.ok = FALSE] \in Ind
  BY DEF Message, Ind

LEMMA MessageConf ==
    ASSUME NEW c \in Chans, NEW k \in Nat
    PROVE  /\ [Message("CONNECT_CONF", k) EXCEPT !.id = c] \in Ind
           /\ [Refused EXCEPT !.id = c] \in Ind
<1> DEFINE T == [type : IndTypes, plci : Nat, ok : BOOLEAN, id : Nat]
           m == Message("CONNECT_CONF", k)
           n == Message("CONNECT_CONF", NPlci + 1)
<1>1. c \in Nat /\ NPlci + 1 \in Nat  BY Sizes DEF Chans
<1>2. m \in T /\ m.type = "CONNECT_CONF"  BY DEF Message, IndTypes
<1>3. n \in T /\ n.type = "CONNECT_CONF"  BY <1>1 DEF Message, IndTypes
<1> HIDE DEF m, n
<1>4. Refused \in T /\ Refused.type = "CONNECT_CONF"  BY <1>3 DEF Refused, n
<1>5. [m EXCEPT !.id = c] \in Ind  BY <1>1, <1>2 DEF Ind
<1>6. [Refused EXCEPT !.id = c] \in Ind  BY <1>1, <1>4 DEF Ind
<1>7. QED BY <1>5, <1>6 DEF m

LEMMA CtlSame ==
    ASSUME NEW s \in State, NEW k, NEW x, k \in Plcis => x \in Ctl,
           NEW t, t = [s EXCEPT !.ctl[k] = x]
    PROVE  Same(s, t)
<1>1. [s.ctl EXCEPT ![k] = x] \in [Plcis -> Ctl]  BY DEF State
<1>2. QED BY <1>1 DEF State, Same

LEMMA CtlSt ==
    ASSUME NEW s \in State, NEW k, NEW st \in CtlStates
    PROVE  Same(s, [s EXCEPT !.ctl[k].st = st])
<1> DEFINE x == [s.ctl[k] EXCEPT !.st = st]
           t == [s EXCEPT !.ctl[k].st = st]
<1>1. k \in Plcis => s.ctl[k] \in Ctl  BY DEF State
<1>2. k \in Plcis => x \in Ctl  BY <1>1 DEF Ctl
<1>3. t = [s EXCEPT !.ctl[k] = x]  OBVIOUS
<1> HIDE DEF x, t
<1>4. Same(s, t)  BY <1>2, <1>3, CtlSame
<1>5. QED BY <1>4 DEF t

LEMMA CtlB3 ==
    ASSUME NEW s \in State, NEW k, NEW b3 \in B3States
    PROVE  Same(s, [s EXCEPT !.ctl[k].b3 = b3])
<1> DEFINE x == [s.ctl[k] EXCEPT !.b3 = b3]
           t == [s EXCEPT !.ctl[k].b3 = b3]
<1>1. k \in Plcis => s.ctl[k] \in Ctl  BY DEF State
<1>2. k \in Plcis => x \in Ctl  BY <1>1 DEF Ctl
<1>3. t = [s EXCEPT !.ctl[k] = x]  OBVIOUS
<1> HIDE DEF x, t
<1>4. Same(s, t)  BY <1>2, <1>3, CtlSame
<1>5. QED BY <1>4 DEF t

LEMMA IdleSame ==
    ASSUME NEW s \in State, NEW k
    PROVE  /\ Same(s, [s EXCEPT !.ctl[k] = IdleCtl])
           /\ Same(s, [s EXCEPT !.ctl[k] = [IdleCtl EXCEPT !.st = "alloc"]])
           /\ Same(s, [s EXCEPT !.ctl[k] = [IdleCtl EXCEPT !.st = "incoming", !.incoming = TRUE]])
<1>1. IdleCtl \in Ctl  BY DEF IdleCtl, Ctl, CtlStates, B3States
<1>2. "alloc" \in CtlStates /\ "incoming" \in CtlStates  BY DEF CtlStates
<1>3. [IdleCtl EXCEPT !.st = "alloc"] \in Ctl  BY <1>1, <1>2 DEF Ctl
<1>4. [IdleCtl EXCEPT !.st = "incoming", !.incoming = TRUE] \in Ctl  BY <1>1, <1>2 DEF Ctl
<1>5. QED BY <1>1, <1>3, <1>4, CtlSame

\* One step after another.
LEMMA SameChain == ASSUME NEW s, NEW t, NEW u, Same(s, t), Same(t, u) PROVE Same(s, u)
  BY DEF Same

LEMMA ServedSame ==
    ASSUME NEW s \in State, NEW m \in Req, NEW t \in Served(s, m)
    PROVE  Same(s, t)
<1> DEFINE k == m.plci
<1>0. /\ k \in Nat /\ m.type \in ReqTypes /\ Same(s, s)
      /\ m.type = "CONNECT_REQ" => m.id \in Chans
  BY DEF Req, Same
<1>1. CASE m.type = "CONNECT_REQ"
  <2>1. CASE t = tell(s, [Refused EXCEPT !.id = m.id])
    BY <1>0, <1>1, <2>1, MessageConf, TellSame
  <2>2. ASSUME NEW i \in Plcis,
               t = tell([s EXCEPT !.ctl[i] = [IdleCtl EXCEPT !.st = "alloc"]],
                        [Message("CONNECT_CONF", i) EXCEPT !.id = m.id])
        PROVE  Same(s, t)
    <3> DEFINE u == [s EXCEPT !.ctl[i] = [IdleCtl EXCEPT !.st = "alloc"]]
    <3>1. i \in Nat  BY DEF Plcis
    <3>2. [Message("CONNECT_CONF", i) EXCEPT !.id = m.id] \in Ind
      BY <1>0, <1>1, <3>1, MessageConf
    <3>3. Same(s, u)  BY IdleSame
    <3> HIDE DEF u
    <3>4. QED BY <2>2, <3>2, <3>3, TellSame, SameChain DEF u, Same
  <2>3. QED BY <1>1, <2>1, <2>2 DEF Served
<1>2. CASE m.type = "CONNECT_RESP"
  <2>1. t \in {s, [s EXCEPT !.ctl[k].st = "accepted"]}  BY <1>2 DEF Served
  <2>2. "accepted" \in CtlStates  BY DEF CtlStates
  <2>3. QED BY <1>0, <2>1, <2>2, CtlSt
<1>3. CASE m.type = "CONNECT_REJECT"
  <2>1. t \in {s, [s EXCEPT !.ctl[k].st = "clear"]}  BY <1>3 DEF Served
  <2>2. "clear" \in CtlStates  BY DEF CtlStates
  <2>3. QED BY <1>0, <2>1, <2>2, CtlSt, SMTT(60)
<1>4. CASE m.type = "DISCONNECT_REQ"
  <2> DEFINE u == [s EXCEPT !.ctl[k].st = "clear"]
  <2>1. t \in {tell(s, Message("DISCONNECT_CONF", k)), tell(u, Message("DISCONNECT_CONF", k))}
    BY <1>4 DEF Served
  <2>2. "clear" \in CtlStates  BY DEF CtlStates
  <2>3. Same(s, u)  BY <2>2, CtlSt
  <2>4. Message("DISCONNECT_CONF", k) \in Ind  BY <1>0, MessageInd DEF IndTypes
  <2> HIDE DEF u
  <2>5. QED BY <2>1, <2>3, <2>4, TellSame, SameChain DEF Same
<1>5. CASE m.type = "DISCONNECT_RESP"
  <2>1. t = [s EXCEPT !.ctl[k] = IdleCtl]  BY <1>5 DEF Served
  <2>2. QED BY <2>1, IdleSame
<1>6. CASE m.type = "CONNECT_B3_REQ"
  <2>1. CASE t = tell(s, [Message("CONNECT_B3_CONF", k) EXCEPT !.ok = FALSE])
    BY <1>0, <2>1, MessageInd, TellSame DEF IndTypes
  <2>2. ASSUME NEW i, i = k, t = tell([s EXCEPT !.ctl[i].b3 = "alloc"], Message("CONNECT_B3_CONF", i))
        PROVE  Same(s, t)
    <3> DEFINE u == [s EXCEPT !.ctl[i].b3 = "alloc"]
    <3>1. "alloc" \in B3States  BY DEF B3States
    <3>2. Same(s, u)  BY <3>1, CtlB3
    <3>3. Message("CONNECT_B3_CONF", i) \in Ind  BY <1>0, <2>2, MessageInd DEF IndTypes
    <3> HIDE DEF u
    <3>4. QED BY <2>2, <3>2, <3>3, TellSame, SameChain DEF u, Same
  <2>3. QED BY <1>6, <2>1, <2>2 DEF Served
<1>7. CASE m.type = "CONNECT_B3_RESP"
  <2>1. t \in {s, [s EXCEPT !.ctl[k].b3 = "alloc"]}  BY <1>7 DEF Served
  <2>2. "alloc" \in B3States  BY DEF B3States
  <2>3. QED BY <1>0, <2>1, <2>2, CtlB3, SMTT(60)
<1>8. CASE m.type = "DISCONNECT_B3_REQ"
  <2>1. t \in {s, [s EXCEPT !.ctl[k].b3 = "clear"]}  BY <1>8 DEF Served
  <2>2. "clear" \in B3States  BY DEF B3States
  <2>3. Same(s, [s EXCEPT !.ctl[k].b3 = "clear"])  BY <2>2, CtlB3
  <2>4. QED BY <1>0, <2>1, <2>3
<1>9. CASE m.type = "DISCONNECT_B3_RESP"
  <2>1. t \in {s, [s EXCEPT !.ctl[k].b3 = "none"]}  BY <1>9 DEF Served
  <2>2. "none" \in B3States  BY DEF B3States
  <2>3. Same(s, [s EXCEPT !.ctl[k].b3 = "none"])  BY <2>2, CtlB3
  <2>4. QED BY <1>0, <2>1, <2>3
<1>10. CASE m.type = "CONNECT_B3_REJECT"
  BY <1>0, <1>10 DEF Served
<1>11. QED
  BY <1>0, <1>1, <1>2, <1>3, <1>4, <1>5, <1>6, <1>7, <1>8, <1>9, <1>10 DEF ReqTypes

-----------------------------------------------------------------------------
(* The invariant is inductive *)

LEMMA NowFields ==
    /\ Now.bchan = bchan /\ Now.pl = pl /\ Now.nc = nc /\ Now.ctl = ctl
    /\ Now.req = req /\ Now.ind = ind /\ Now.ll = ll
  BY DEF Now

LEMMA DoGood ==
    ASSUME NEW s, Good(s), Do(s)
    PROVE  IInv'
<1>1. s = [bchan |-> s.bchan, pl |-> s.pl, nc |-> s.nc, ctl |-> s.ctl,
           req |-> s.req, ind |-> s.ind, ll |-> s.ll]
  BY DEF Good, State
<1>2. Now' = s  BY <1>1 DEF Now, Do
<1>3. QED BY <1>2 DEF IInv

LEMMA InitGood == Init => IInv
<1> SUFFICES ASSUME Init PROVE Good(Now)  BY DEF IInv
<1>1. /\ NoCall \in Ll /\ NoPlci \in Plci /\ NoNcci \in Ncci /\ Clean \in Bchan
      /\ IdleCtl \in Ctl
  BY DEF NoCall, NoPlci, NoNcci, Clean, IdleCtl, Ll, Plci, Ncci, Bchan, Ctl,
         Phases, PlciStates, NcciStates, CtlStates, B3States
<1>2. req \in Seq(Req) /\ ind \in Seq(Ind)  BY DEF Init
<1>3. Now \in State  BY <1>1, <1>2 DEF Init, Now, State
<1>4. \A c \in Chans : CleanAt(Now, c)  BY NowFields DEF Init, CleanAt
<1>5. QED BY <1>3, <1>4 DEF Good

LEMMA SignalGood == ASSUME IInv, capidrv_signal PROVE IInv'
<1> DEFINE s == [Now EXCEPT !.ind = Tail(@)]
           m == Head(ind)
<1>1. Now \in State /\ Good(Now)  BY DEF IInv, Good
<1>2. ind # <<>> /\ ind \in Seq(Ind)  BY <1>1, NowFields DEF capidrv_signal, State
<1>3. m \in Ind /\ Tail(ind) \in Seq(Ind)  BY <1>2
<1>4. s = [Now EXCEPT !.ind = Tail(ind)]  BY NowFields
<1>5. s \in State /\ s.pl = Now.pl /\ s.bchan = Now.bchan /\ s.ll = Now.ll
  BY <1>1, <1>3, <1>4 DEF State
<1>6. PICK t \in Handled(s, m) : Do(t)  BY DEF capidrv_signal
<1> HIDE DEF s, m
<1>7. Good(s)  BY <1>1, <1>5, SameKept DEF Same
<1>8. Good(t)  BY <1>3, <1>6, <1>7, HandledGood
<1>9. QED BY <1>6, <1>8, DoGood

LEMMA ServeGood == ASSUME IInv, Serve PROVE IInv'
<1> DEFINE s == [Now EXCEPT !.req = Tail(@)]
           m == Head(req)
<1>1. Now \in State /\ Good(Now)  BY DEF IInv, Good
<1>2. req # <<>> /\ req \in Seq(Req)  BY <1>1, NowFields DEF Serve, State
<1>3. m \in Req /\ Tail(req) \in Seq(Req)  BY <1>2
<1>4. s = [Now EXCEPT !.req = Tail(req)]  BY NowFields
<1>5. Same(Now, s)  BY <1>1, <1>3, <1>4 DEF State, Same
<1>6. PICK t \in Served(s, m) : Do(t)  BY DEF Serve
<1> HIDE DEF s, m
<1>7. Same(s, t)  BY <1>3, <1>5, <1>6, ServedSame DEF Same
<1>8. Good(t)  BY <1>1, <1>5, <1>7, SameChain, SameKept
<1>9. QED BY <1>6, <1>8, DoGood

\* A step of the controller that it tells of.
LEMMA ToldGood ==
    ASSUME IInv, NEW s, Same(Now, s), NEW m \in Ind, Do(tell(s, m))
    PROVE  IInv'
<1>1. Same(s, tell(s, m))  BY TellSame DEF Same
<1>2. Good(tell(s, m))  BY <1>1, SameChain, SameKept DEF IInv
<1>3. QED BY <1>2, DoGood

LEMMA StepGood ==
    ASSUME IInv, NEW k \in Plcis, NEW type \in IndTypes \ {"CONNECT_CONF"}
    PROVE  /\ \A from : \A to \in CtlStates : Step(k, from, to, type) => IInv'
           /\ \A from : \A to \in B3States : StepB3(k, from, to, type) => IInv'
<1>1. Now \in State /\ k \in Nat  BY DEF IInv, Good, Plcis
<1>2. Message(type, k) \in Ind  BY <1>1, MessageInd
<1>3. ASSUME NEW from, NEW to \in CtlStates, Step(k, from, to, type)
      PROVE  IInv'
  <2>1. Same(Now, [Now EXCEPT !.ctl[k].st = to])  BY <1>1, CtlSt
  <2>2. QED BY <1>2, <1>3, <2>1, ToldGood DEF Step
<1>4. ASSUME NEW from, NEW to \in B3States, StepB3(k, from, to, type)
      PROVE  IInv'
  <2>1. Same(Now, [Now EXCEPT !.ctl[k].b3 = to])  BY <1>1, CtlB3
  <2>2. QED BY <1>2, <1>4, <2>1, ToldGood DEF StepB3
<1>5. QED BY <1>3, <1>4

LEMMA ControllerGood ==
    ASSUME IInv, NEW k \in Plcis,
           Called(k) \/ Answered(k) \/ OpenB3(k) \/ B3Up(k) \/ B3Down(k) \/ Cleared(k)
    PROVE  IInv'
<1>1. CASE Called(k)
  <2> DEFINE s == [Now EXCEPT !.ctl[k] = [IdleCtl EXCEPT !.st = "incoming", !.incoming = TRUE]]
  <2>1. Now \in State /\ k \in Nat  BY DEF IInv, Good, Plcis
  <2>2. Message("CONNECT_IND", k) \in Ind  BY <2>1, MessageInd DEF IndTypes
  <2>3. Same(Now, s)  BY <2>1, IdleSame
  <2>4. Do(tell(s, Message("CONNECT_IND", k)))  BY <1>1 DEF Called
  <2> HIDE DEF s
  <2>5. QED BY <2>2, <2>3, <2>4, ToldGood
<1>2. CASE Answered(k)
  BY <1>2, StepGood DEF Answered, IndTypes, CtlStates
<1>3. CASE OpenB3(k)
  BY <1>3, StepGood DEF OpenB3, IndTypes, B3States
<1>4. CASE B3Up(k)
  BY <1>4, StepGood DEF B3Up, IndTypes, B3States
<1>5. CASE B3Down(k)
  BY <1>5, StepGood DEF B3Down, IndTypes, B3States
<1>6. CASE Cleared(k)
  BY <1>6, StepGood DEF Cleared, IndTypes, CtlStates
<1>7. QED BY <1>1, <1>2, <1>3, <1>4, <1>5, <1>6

LEMMA DialGood == ASSUME IInv, NEW c \in Chans, DIAL(c) PROVE IInv'
<1> DEFINE l == [Now.ll[c] EXCEPT !.phase = "setup", !.dialed = TRUE]
           s == [Now EXCEPT !.ll[c] = l]
           t == new_plci(s, c, 0, "CONNECT_REQ")
<1>1. Good(Now) /\ Now \in State /\ Now.ll[c] \in Ll  BY DEF IInv, Good, State
<1>2. l \in Ll
  <2>1. "setup" \in Phases  BY DEF Phases
  <2>2. QED BY <1>1, <2>1 DEF Ll
<1>3. s = [Now EXCEPT !.ll[c].phase = "setup", !.ll[c].dialed = TRUE]  BY <1>1 DEF State
<1>4. Do(IF pl[c].st # "NONE" THEN s ELSE send_message(t, CONNECT_REQ(c)))
  BY <1>3 DEF DIAL
<1> HIDE DEF l
<1>5. CASE pl[c].st # "NONE"
  <2>1. Held(Now, c)  BY <1>5, NowFields DEF Held
  <2>2. Good(s)  BY <1>1, <1>2, <2>1, CallGood DEF Keeps
  <2>3. QED BY <1>4, <1>5, <2>2, DoGood
<1>6. CASE pl[c].st = "NONE"
  <2>1. /\ s \in State /\ s.pl = Now.pl /\ s.bchan = Now.bchan
        /\ \A d \in Chans \ {c} : s.ll[d] = Now.ll[d]
    BY <1>1, <1>2 DEF State
  <2>2. AgreedBut(s, c)  BY <1>1, <2>1 DEF AgreedBut, Good, Held, CleanAt
  <2> HIDE DEF s
  <2>3. Good(t)  BY <2>2, NewPlci
  <2> HIDE DEF t
  <2>4. CONNECT_REQ(c) \in Req
    <3> DEFINE m == Message("CONNECT_REQ", 0)
    <3>1. /\ m \in [type : ReqTypes, plci : Nat, ok : BOOLEAN, id : Nat]
          /\ m.type = "CONNECT_REQ"
      BY DEF Message, ReqTypes
    <3>2. c \in Nat /\ CONNECT_REQ(c) = [m EXCEPT !.id = c]  BY Sizes DEF Chans, CONNECT_REQ
    <3> HIDE DEF m
    <3>3. QED BY <3>1, <3>2 DEF Req
  <2>5. Good(send_message(t, CONNECT_REQ(c)))  BY <2>3, <2>4, SendAny
  <2>6. QED BY <1>4, <1>6, <2>5, DoGood
<1>7. QED BY <1>5, <1>6

\* Where the link level has a call there is a PLCI.
LEMMA AcceptdGood == ASSUME IInv, NEW c \in Chans, ACCEPTD(c) PROVE IInv'
<1>1. NoCall.phase # "ring"  BY DEF NoCall
<1>2. Held(Now, c)  BY <1>1, NowFields DEF ACCEPTD, IInv, Good, CleanAt
<1>3. Good(accept(Now, c))  BY <1>2, acceptGood DEF IInv, Keeps
<1>4. QED BY <1>3, DoGood DEF ACCEPTD

LEMMA HangupGood == ASSUME IInv, NEW c \in Chans, HANGUP(c) PROVE IInv'
<1> DEFINE h == hangup(Now, c)
           t == [h EXCEPT !.ll[c].hung = TRUE]
<1>1. NoCall.phase = "null"  BY DEF NoCall
<1>2. Held(Now, c)  BY <1>1, NowFields DEF HANGUP, IInv, Good, CleanAt
<1>3. Keeps(Now, h, c)  BY <1>2, hangupGood DEF IInv
<1>4. Do(t)  BY DEF HANGUP
<1> HIDE DEF h
<1>5. Good(t)  BY <1>2, <1>3, DeafGood DEF Keeps
<1> HIDE DEF t
<1>6. QED BY <1>4, <1>5, DoGood

LEMMA NextGood == ASSUME IInv, [Next]_vars PROVE IInv'
<1>1. CASE Next
  BY <1>1, SignalGood, ServeGood, DialGood, AcceptdGood, HangupGood, ControllerGood DEF Next
<1>2. CASE UNCHANGED vars
  <2>1. Now' = Now  BY <1>2 DEF vars, Now
  <2>2. QED BY <2>1 DEF IInv
<1>3. QED BY <1>1, <1>2

LEMMA IInvAlways == Spec => []IInv
<1>1. QED BY InitGood, NextGood, PTL DEF Spec

\* A channel without a PLCI is clean: the link level has no call there that
\* would wait for ever, and no flag of the last call is left for the next one
\* (free_plci, p0, new_bchan; struct capidrv_bchan).
THEOREM AgreedAlways == Spec => []Agreed
<1>1. IInv => Agreed
  BY NowFields DEF IInv, Agreed, Good, Held, CleanAt
<1>2. QED BY <1>1, IInvAlways, PTL

-----------------------------------------------------------------------------
(***************************************************************************)
(* Data goes to the call of its channel.  This needs both queues: what the *)
(* controller says of a PLCI comes in an order, from the message that      *)
(* announces it to DISCONNECT_IND, and the driver's answer to that is the  *)
(* last that the controller hears of it.                                   *)
(***************************************************************************)

(* What a queue holds *)

Has(q, P) == \E i \in 1 .. Len(q) : q[i] \in P
NoneAfter(q, P, Q) ==
    \A i, j \in 1 .. Len(q) : i < j /\ q[i] \in P => q[j] \notin Q
Followed(q, P, Q) ==
    \A i \in 1 .. Len(q) : q[i] \in P => \E j \in 1 .. Len(q) : i < j /\ q[j] \in Q

LEMMA Wider ==
    ASSUME NEW q, NEW P, NEW Q, P \subseteq Q, Has(q, P)
    PROVE  Has(q, Q)
  BY DEF Has

\* The first message is taken.
LEMMA Taken ==
    ASSUME NEW S, NEW q \in Seq(S), q # <<>>, NEW P, NEW Q
    PROVE  /\ Head(q) \in P => Has(q, P)
           /\ Has(Tail(q), P) => Has(q, P)
           /\ Has(q, P) => Head(q) \in P \/ Has(Tail(q), P)
           /\ NoneAfter(q, P, Q) => NoneAfter(Tail(q), P, Q)
           /\ NoneAfter(q, P, Q) /\ Head(q) \in P => ~Has(Tail(q), Q)
           /\ Followed(q, P, Q) => Followed(Tail(q), P, Q)
           /\ Followed(q, P, Q) /\ Head(q) \in P => Has(Tail(q), Q)
<1> DEFINE t == Tail(q)
<1>1. /\ Len(q) \in Nat /\ Len(q) >= 1 /\ Len(t) = Len(q) - 1 /\ Head(q) = q[1]
      /\ \A i \in 1 .. Len(t) : t[i] = q[i + 1]
  OBVIOUS
<1> HIDE DEF t
<1>2. \A i \in 1 .. Len(q) : i = 1 \/ (i - 1 \in 1 .. Len(t) /\ q[i] = t[i - 1])
  BY <1>1
<1>3. 1 \in 1 .. Len(q) /\ \A i \in 1 .. Len(t) : i + 1 \in 1 .. Len(q) /\ 1 < i + 1
  BY <1>1
<1>4. /\ Head(q) \in P => Has(q, P)
      /\ Has(t, P) => Has(q, P)
      /\ Has(q, P) => Head(q) \in P \/ Has(t, P)
  BY <1>1, <1>2, <1>3 DEF Has
<1>5. ASSUME NoneAfter(q, P, Q)
      PROVE  NoneAfter(t, P, Q) /\ (Head(q) \in P => ~Has(t, Q))
  BY <1>1, <1>3, <1>5 DEF NoneAfter, Has
<1>6. ASSUME Followed(q, P, Q), NEW i \in 1 .. Len(q), q[i] \in P
      PROVE  \E j \in 1 .. Len(t) : i < j + 1 /\ t[j] \in Q
  <2>1. PICK j \in 1 .. Len(q) : i < j /\ q[j] \in Q  BY <1>6 DEF Followed
  <2>2. j - 1 \in 1 .. Len(t) /\ t[j - 1] = q[j]  BY <1>2, <2>1
  <2>3. QED BY <1>1, <2>1, <2>2
<1>7. ASSUME Followed(q, P, Q)
      PROVE  Followed(t, P, Q) /\ (Head(q) \in P => Has(t, Q))
  <2>1. ASSUME NEW i \in 1 .. Len(t), t[i] \in P
        PROVE  \E j \in 1 .. Len(t) : i < j /\ t[j] \in Q
    <3>1. i + 1 \in 1 .. Len(q) /\ q[i + 1] \in P  BY <1>1, <1>3, <2>1
    <3>2. PICK j \in 1 .. Len(t) : i + 1 < j + 1 /\ t[j] \in Q  BY <1>6, <1>7, <3>1
    <3>3. i < j  BY <1>1, <3>2
    <3>4. QED BY <3>2, <3>3
  <2>2. Head(q) \in P => Has(t, Q)  BY <1>1, <1>3, <1>6, <1>7 DEF Has
  <2>3. QED BY <2>1, <2>2 DEF Followed
<1>8. QED BY <1>4, <1>5, <1>7 DEF t

LEMMA NoneLeft ==
    ASSUME NEW S, NEW q \in Seq(S), q # <<>>, NEW P, NEW Q, NoneAfter(q, P, Q), Head(q) \in P
    PROVE  ~Has(Tail(q), Q)
BY Taken

LEMMA NotYet ==
    ASSUME NEW S, NEW q \in Seq(S), q # <<>>, NEW P, Head(q) \notin P, ~Has(Tail(q), P)
    PROVE  ~Has(q, P)
BY Taken

\* A message is added.
LEMMA Added ==
    ASSUME NEW S, NEW q \in Seq(S), NEW m, NEW P, NEW Q
    PROVE  /\ Has(Append(q, m), P) <=> Has(q, P) \/ m \in P
           /\ NoneAfter(q, P, Q) /\ (m \in Q => ~Has(q, P)) => NoneAfter(Append(q, m), P, Q)
           /\ Followed(q, P, Q) /\ m \notin P => Followed(Append(q, m), P, Q)
           /\ m \in Q /\ m \notin P => Followed(Append(q, m), P, Q)
<1> DEFINE t == Append(q, m)
           n == Len(q) + 1
<1>1. /\ Len(q) \in Nat /\ Len(t) = n /\ t[n] = m
      /\ \A i \in 1 .. Len(q) : t[i] = q[i]
  OBVIOUS
<1> HIDE DEF t
<1>2. /\ n \in 1 .. Len(t)
      /\ \A i \in 1 .. Len(t) : i = n \/ (i \in 1 .. Len(q) /\ i < n)
      /\ \A i \in 1 .. Len(q) : i \in 1 .. Len(t)
      /\ \A i \in 1 .. Len(t) : ~(n < i)
  BY <1>1
<1> HIDE DEF n
<1>3. Has(t, P) <=> Has(q, P) \/ m \in P
  BY <1>1, <1>2 DEF Has
<1>4. NoneAfter(q, P, Q) /\ (m \in Q => ~Has(q, P)) => NoneAfter(t, P, Q)
  BY <1>1, <1>2 DEF Has, NoneAfter
<1>5. Followed(q, P, Q) /\ m \notin P => Followed(t, P, Q)
  BY <1>1, <1>2 DEF Followed
<1>6. m \in Q /\ m \notin P => Followed(t, P, Q)
  BY <1>1, <1>2 DEF Followed
<1>7. QED BY <1>3, <1>4, <1>5, <1>6 DEF t

-----------------------------------------------------------------------------
(* Messages about a PLCI, in the order in which the controller sends them  *)

Of(types, k) == {m \in Ind : m.type \in types /\ m.plci = k /\ m.ok}
Rings(k) == Of({"CONNECT_IND"}, k)
Birth(k) == Of({"CONNECT_IND", "CONNECT_CONF"}, k)
Call(k) == Of({"CONNECT_ACTIVE_IND"}, k)
Raise(k) == Of({"CONNECT_B3_IND", "CONNECT_B3_CONF"}, k)
Down(k) == Of({"DISCONNECT_B3_IND"}, k)
B3(k) == Of({"CONNECT_B3_IND", "CONNECT_B3_CONF", "DISCONNECT_B3_IND"}, k)
Talk(k) ==
    Of({"CONNECT_ACTIVE_IND", "CONNECT_B3_IND", "CONNECT_B3_CONF", "CONNECT_B3_ACTIVE_IND",
        "DISCONNECT_B3_IND"}, k)
End(k) == Of({"DISCONNECT_IND"}, k)
Real(k) == Birth(k) \cup Talk(k) \cup End(k)

To(k) == {m \in Req : m.plci = k}
Accepts(k) == {m \in To(k) : m.type = "CONNECT_RESP"}
Resp(k) == {m \in To(k) : m.type = "DISCONNECT_RESP"}

\* The request for a call on channel c, and its answer.
Ask(c) == {m \in Req : m.type = "CONNECT_REQ" /\ m.id = c}
Ans(c) == {m \in Ind : m.type = "CONNECT_CONF" /\ m.id = c}

\* Only a refusal names no PLCI of the controller, and only these requests.
IndMsg ==
    {m \in Ind : /\ m.type # "CONNECT_CONF" \/ m.ok => m.plci \in Plcis
                 /\ ~m.ok => m.type \in {"CONNECT_CONF", "CONNECT_B3_CONF"}}
ReqMsg ==
    {m \in Req : /\ m.type = "CONNECT_REQ" => m.plci = 0
                 /\ m.type = "DISCONNECT_B3_REQ" => m.plci \in Plcis \cup {0}
                 /\ m.type \notin {"CONNECT_REQ", "DISCONNECT_B3_REQ"} => m.plci \in Plcis}

Open(x) == x.b3 \in {"in", "alloc", "active", "clear"}

\* A PLCI that the driver did not accept.
Silent(x, q, r, k) ==
    /\ x.st \in {"incoming", "clear", "disc"} /\ x.b3 = "none"
    /\ ~Has(q, Talk(k)) /\ ~Has(r, Accepts(k))

\* What the controller and the two queues say of PLCI k.
Line(x, q, r, k) ==
    /\ NoneAfter(q, Real(k), Birth(k))
    /\ NoneAfter(q, End(k), Real(k))
    /\ NoneAfter(q, B3(k), Call(k))
    /\ x.st = "idle" => ~Has(q, Real(k)) /\ ~Has(r, To(k))
    /\ Has(q, Birth(k)) => ~Has(r, To(k))
    /\ Has(q, End(k)) => x.st = "disc"
    /\ x.st = "disc" /\ ~Has(q, End(k)) => ~Has(q, Real(k))
    /\ x.st \in {"idle", "incoming", "alloc", "accepted"} => x.b3 = "none" /\ ~Has(q, B3(k))
    /\ Open(x) => x.st \in {"active", "clear"}
    /\ Open(x) \/ Followed(q, Raise(k), Down(k))
    /\ Has(q, Rings(k)) => Silent(x, q, r, k)
    /\ Has(r, Resp(k)) => x.st = "disc" /\ ~Has(q, End(k))
    /\ NoneAfter(r, Resp(k), To(k))

\* The driver may send to PLCI k.
May(x, q, r, k) == x.st # "idle" /\ ~Has(q, Birth(k)) /\ ~Has(r, Resp(k))

LEMMA Parts ==
    ASSUME NEW k
    PROVE  /\ Rings(k) \subseteq Birth(k) /\ Birth(k) \subseteq Real(k)
           /\ Talk(k) \subseteq Real(k) /\ End(k) \subseteq Real(k)
           /\ Call(k) \subseteq Talk(k) /\ B3(k) \subseteq Talk(k)
           /\ Raise(k) \subseteq B3(k) /\ Down(k) \subseteq B3(k)
           /\ B3(k) = Raise(k) \cup Down(k)
           /\ Resp(k) \subseteq To(k) /\ Accepts(k) \subseteq To(k)
  BY DEF Rings, Birth, Call, Raise, Down, B3, Talk, End, Real, Of, To, Resp, Accepts

LEMMA LineTaken ==
    ASSUME NEW x, NEW q \in Seq(IndMsg), q # <<>>, NEW r, NEW k, Line(x, q, r, k)
    PROVE  Line(x, Tail(q), r, k)
<1>1. \A P, Q :
          /\ Has(Tail(q), P) => Has(q, P)
          /\ Has(q, P) => Head(q) \in P \/ Has(Tail(q), P)
          /\ NoneAfter(q, P, Q) => NoneAfter(Tail(q), P, Q)
          /\ NoneAfter(q, P, Q) /\ Head(q) \in P => ~Has(Tail(q), Q)
          /\ Followed(q, P, Q) => Followed(Tail(q), P, Q)
  BY Taken
<1> DEFINE t == Tail(q)
<1> HIDE DEF t
<1>2. QED BY <1>1 DEF Line, Silent, t

LEMMA LineSent ==
    ASSUME NEW x, NEW q, NEW r \in Seq(ReqMsg), NEW k, Line(x, q, r, k),
           NEW m, m \in To(k) => May(x, q, r, k),
           m \in Resp(k) => x.st = "disc" /\ ~Has(q, End(k))
    PROVE  Line(x, q, Append(r, m), k)
<1>1. \A P, Q :
          /\ Has(Append(r, m), P) <=> Has(r, P) \/ m \in P
          /\ NoneAfter(r, P, Q) /\ (m \in Q => ~Has(r, P)) => NoneAfter(Append(r, m), P, Q)
  BY Added
<1> DEFINE t == Append(r, m)
<1>2. Has(q, Rings(k)) => Has(q, Birth(k))  BY Parts, Wider
<1>3. (m \in Resp(k) => m \in To(k)) /\ (m \in Accepts(k) => m \in To(k))  BY Parts
<1> HIDE DEF t
<1>4. QED BY <1>1, <1>2, <1>3 DEF Line, Silent, May, t

\* The head of the queue says that the PLCI is there.
LEMMA HeadMay ==
    ASSUME NEW x, NEW q \in Seq(IndMsg), q # <<>>, NEW r, NEW k, Line(x, q, r, k),
           Head(q) \in Real(k)
    PROVE  /\ May(x, Tail(q), r, k)
           /\ x.st = "disc" => Head(q) \in End(k) \/ Has(Tail(q), End(k))
           /\ Head(q) \in End(k) => x.st = "disc" /\ ~Has(Tail(q), End(k))
<1>1. \A P, Q :
          /\ Head(q) \in P => Has(q, P)
          /\ Has(q, P) => Head(q) \in P \/ Has(Tail(q), P)
          /\ Has(Tail(q), P) => Has(q, P)
          /\ NoneAfter(q, P, Q) /\ Head(q) \in P => ~Has(Tail(q), Q)
  BY Taken
<1>2. Has(Tail(q), End(k)) => Has(Tail(q), Real(k))  BY Parts, Wider
<1>3. QED BY <1>1, <1>2 DEF Line, May

-----------------------------------------------------------------------------
(* What a channel and its PLCI have to do with each other *)

Live(n) == n.st \in {"ALLOCATED", "ACTIVE", "DISCONNECTING"}

\* The link level has no call with this PLCI: it refused it.
Void(l, b) == l.phase = "null" \/ (l.dialed /\ b.incoming)

\* The channel that has PLCI k.
Owner(x, q, r, n, l, b, k) ==
    /\ x.st # "idle" /\ ~Has(q, Birth(k))
    /\ x.st = "disc" => Has(q, End(k))
    /\ Live(n) => ~Has(q, Call(k)) /\ (Open(x) \/ Has(q, Down(k)))
    /\ Void(l, b) => Silent(x, q, r, k)

\* A channel by itself.
Cell(p, n, l, b) ==
    /\ p.st # "DISCONNECTED"
    /\ p.plci \in Plcis \cup {0} /\ (p.plci = 0 <=> p.st \in {"NONE", "OUTGOING"})
    /\ p.st = "OUTGOING" => l.phase # "null" /\ ~b.incoming
    /\ Live(n) => p.plci # 0 /\ n.ncci = p.plci /\ n.listed
    /\ ~Live(n) => n.st \in {"NONE", "OUTGOING"} /\ n.ncci = 0
    /\ n.st = "ACTIVE" => l.phase = "data"
    /\ l.phase = "data" => Live(n)
    /\ l.phase \in {"up", "data", "half"} => l.dialed # b.incoming
    /\ l.phase # "null" => l.dialed \/ b.incoming
    /\ l.phase \in {"null", "ring"} => ~l.dialed

\* A request for a call is answered once.
Asks(p, q, r, c) ==
    /\ Has(r, Ask(c)) \/ Has(q, Ans(c)) => p.st = "OUTGOING"
    /\ ~(Has(r, Ask(c)) /\ Has(q, Ans(c)))
    /\ NoneAfter(r, Ask(c), Ask(c)) /\ NoneAfter(q, Ans(c), Ans(c))

Lines(s) ==
    /\ s.ind \in Seq(IndMsg) /\ s.req \in Seq(ReqMsg)
    /\ \A k \in Plcis : Line(s.ctl[k], s.ind, s.req, k)
Tied(s, c) ==
    /\ Cell(s.pl[c], s.nc[c], s.ll[c], s.bchan[c])
    /\ Asks(s.pl[c], s.ind, s.req, c)
    /\ \A k \in Plcis : s.pl[c].plci = k =>
           Owner(s.ctl[k], s.ind, s.req, s.nc[c], s.ll[c], s.bchan[c], k)
Apart(s, c, d) == s.pl[c].plci = s.pl[d].plci => c = d \/ s.pl[c].plci = 0

Ties(s) ==
    /\ Lines(s) /\ \A c \in Chans : Tied(s, c)
    /\ \A c, d \in Chans : Apart(s, c, d)
\* All but channel c.
TiesBut(s, c) ==
    /\ Lines(s) /\ \A d \in Chans \ {c} : Tied(s, d)
    /\ \A d, e \in Chans \ {c} : Apart(s, d, e)

\* What BhupFirst says of a step.
Kept(s, t) == \A c \in Chans : s.ll[c].phase = "data" => t.ll[c].phase \in {"data", "half"}

LEMMA OwnerTaken ==
    ASSUME NEW x, NEW q \in Seq(IndMsg), q # <<>>, NEW r, NEW n, NEW l, NEW b, NEW k,
           Owner(x, q, r, n, l, b, k),
           Head(q) \notin End(k), Live(n) => Head(q) \notin Down(k)
    PROVE  Owner(x, Tail(q), r, n, l, b, k)
<1>1. \A P :
          /\ Has(Tail(q), P) => Has(q, P)
          /\ Has(q, P) => Head(q) \in P \/ Has(Tail(q), P)
  BY Taken
<1> DEFINE t == Tail(q)
<1> HIDE DEF t
<1>2. QED BY <1>1 DEF Owner, Silent, t

LEMMA OwnerSent ==
    ASSUME NEW x, NEW q, NEW r \in Seq(ReqMsg), NEW n, NEW l, NEW b, NEW k,
           Owner(x, q, r, n, l, b, k), NEW m, m \in Accepts(k) => ~Void(l, b)
    PROVE  Owner(x, q, Append(r, m), n, l, b, k)
<1>1. Has(Append(r, m), Accepts(k)) => Has(r, Accepts(k)) \/ m \in Accepts(k)
  BY Added
<1> DEFINE t == Append(r, m)
<1> HIDE DEF t
<1>2. QED BY <1>1 DEF Owner, Silent, t

LEMMA OwnerMay ==
    ASSUME NEW x, NEW q, NEW r, NEW n, NEW l, NEW b, NEW k,
           Owner(x, q, r, n, l, b, k), Line(x, q, r, k)
    PROVE  May(x, q, r, k)
  BY DEF Owner, Line, May

LEMMA AsksTaken ==
    ASSUME NEW p, NEW q \in Seq(IndMsg), q # <<>>, NEW r, NEW c, Asks(p, q, r, c)
    PROVE  /\ Head(q) \notin Ans(c) => Asks(p, Tail(q), r, c)
           /\ Head(q) \in Ans(c) =>
                  p.st = "OUTGOING" /\ \A o : Asks(o, Tail(q), r, c)
<1>1. \A P :
          /\ Head(q) \in P => Has(q, P)
          /\ Has(Tail(q), P) => Has(q, P)
          /\ NoneAfter(q, P, P) => NoneAfter(Tail(q), P, P)
          /\ NoneAfter(q, P, P) /\ Head(q) \in P => ~Has(Tail(q), P)
  BY Taken
<1> DEFINE t == Tail(q)
<1> HIDE DEF t
<1>2. QED BY <1>1 DEF Asks, t

LEMMA AsksSent ==
    ASSUME NEW p, NEW q, NEW r \in Seq(ReqMsg), NEW c, Asks(p, q, r, c),
           NEW m, m \notin Ask(c)
    PROVE  Asks(p, q, Append(r, m), c)
<1>1. /\ Has(Append(r, m), Ask(c)) => Has(r, Ask(c))
      /\ NoneAfter(r, Ask(c), Ask(c)) => NoneAfter(Append(r, m), Ask(c), Ask(c))
  BY Added
<1> DEFINE t == Append(r, m)
<1> HIDE DEF t
<1>2. QED BY <1>1 DEF Asks, t

\* A message of the controller is taken.
LEMMA TakenLines ==
    ASSUME NEW s, Lines(s), s.ind # <<>>, NEW t, t.ind = Tail(s.ind),
           t.req = s.req, t.ctl = s.ctl
    PROVE  Lines(t)
<1>1. t.ind \in Seq(IndMsg)  BY DEF Lines
<1>2. QED BY <1>1, LineTaken DEF Lines

LEMMA TakenTied ==
    ASSUME NEW s, Lines(s), s.ind # <<>>, NEW t, t.ind = Tail(s.ind),
           t.req = s.req, t.ctl = s.ctl, t.pl = s.pl, t.nc = s.nc, t.ll = s.ll, t.bchan = s.bchan,
           NEW c, Tied(s, c), Head(s.ind) \notin Ans(c),
           Head(s.ind) \notin End(s.pl[c].plci),
           Live(s.nc[c]) => Head(s.ind) \notin Down(s.pl[c].plci)
    PROVE  Tied(t, c)
<1>1. s.ind \in Seq(IndMsg)  BY DEF Lines
<1>2. Asks(t.pl[c], t.ind, t.req, c)  BY <1>1, AsksTaken DEF Tied
<1>3. \A k \in Plcis : t.pl[c].plci = k =>
          Owner(t.ctl[k], t.ind, t.req, t.nc[c], t.ll[c], t.bchan[c], k)
  BY <1>1, OwnerTaken DEF Tied
<1>4. QED BY <1>2, <1>3 DEF Tied

\* A request is sent.
LEMMA SentTies ==
    ASSUME NEW s \in State, Ties(s), NEW m \in ReqMsg, m.type # "CONNECT_REQ",
           \A k \in Plcis : m \in To(k) => May(s.ctl[k], s.ind, s.req, k),
           \A k \in Plcis : m \in Resp(k) => s.ctl[k].st = "disc" /\ ~Has(s.ind, End(k)),
           \A c \in Chans : m \in Accepts(s.pl[c].plci) => ~Void(s.ll[c], s.bchan[c])
    PROVE  Ties(send_message(s, m))
<1> DEFINE t == send_message(s, m)
<1>1. /\ t.pl = s.pl /\ t.nc = s.nc /\ t.ll = s.ll /\ t.bchan = s.bchan /\ t.ctl = s.ctl
      /\ t.ind = s.ind /\ t.req = Append(s.req, m)
  BY DEF send_message, State
<1> HIDE DEF t
<1>2. s.req \in Seq(ReqMsg) /\ t.req \in Seq(ReqMsg)  BY <1>1 DEF Ties, Lines
<1>3. \A c : m \notin Ask(c)  BY DEF Ask
<1>4. Lines(t)  BY <1>1, <1>2, LineSent DEF Ties, Lines
<1>5. ASSUME NEW c \in Chans PROVE Tied(t, c)
  <2>1. Asks(t.pl[c], t.ind, t.req, c)  BY <1>1, <1>2, <1>3, AsksSent DEF Ties, Tied
  <2>2. \A k \in Plcis : t.pl[c].plci = k =>
            Owner(t.ctl[k], t.ind, t.req, t.nc[c], t.ll[c], t.bchan[c], k)
    BY <1>1, <1>2, OwnerSent DEF Ties, Tied
  <2>3. QED BY <1>1, <2>1, <2>2 DEF Ties, Tied
<1>6. \A c, d \in Chans : Apart(t, c, d)  BY <1>1 DEF Ties, Apart
<1>7. QED BY <1>4, <1>5, <1>6 DEF Ties, t

-----------------------------------------------------------------------------
(* What is done to one channel *)

Put(s, c, p, n, l, b, r) ==
    [bchan |-> [s.bchan EXCEPT ![c] = b], pl |-> [s.pl EXCEPT ![c] = p],
     nc |-> [s.nc EXCEPT ![c] = n], ctl |-> s.ctl, req |-> r, ind |-> s.ind,
     ll |-> [s.ll EXCEPT ![c] = l]]

LEMMA PutSelf ==
    ASSUME NEW s \in State, NEW c \in Chans
    PROVE  s = Put(s, c, s.pl[c], s.nc[c], s.ll[c], s.bchan[c], s.req)
<1>1. /\ [s.pl EXCEPT ![c] = s.pl[c]] = s.pl /\ [s.nc EXCEPT ![c] = s.nc[c]] = s.nc
      /\ [s.ll EXCEPT ![c] = s.ll[c]] = s.ll /\ [s.bchan EXCEPT ![c] = s.bchan[c]] = s.bchan
  BY DEF State
<1>2. s = [bchan |-> s.bchan, pl |-> s.pl, nc |-> s.nc, ctl |-> s.ctl,
           req |-> s.req, ind |-> s.ind, ll |-> s.ll]
  BY DEF State
<1>3. QED BY <1>1, <1>2 DEF Put

LEMMA PutFields ==
    ASSUME NEW s \in State, NEW c \in Chans, NEW p, NEW n, NEW l, NEW b, NEW r, NEW t,
           t = Put(s, c, p, n, l, b, r)
    PROVE  /\ t.pl[c] = p /\ t.nc[c] = n /\ t.ll[c] = l /\ t.bchan[c] = b
           /\ t.req = r /\ t.ind = s.ind /\ t.ctl = s.ctl
           /\ \A d \in Chans \ {c} : /\ t.pl[d] = s.pl[d] /\ t.nc[d] = s.nc[d]
                                     /\ t.ll[d] = s.ll[d] /\ t.bchan[d] = s.bchan[d]
  BY DEF Put, State

LEMMA Over ==
    ASSUME NEW f, NEW c \in DOMAIN f, NEW x, NEW y
    PROVE  [[f EXCEPT ![c] = x] EXCEPT ![c] = y] = [f EXCEPT ![c] = y]
OBVIOUS

\* A channel that is in order again.
LEMMA PutTies ==
    ASSUME NEW s \in State, NEW c \in Chans, TiesBut(s, c),
           NEW p, NEW n, NEW l, NEW b, Cell(p, n, l, b), Asks(p, s.ind, s.req, c),
           \A k \in Plcis : p.plci = k =>
               /\ Owner(s.ctl[k], s.ind, s.req, n, l, b, k)
               /\ \A d \in Chans \ {c} : s.pl[d].plci # k
    PROVE  Ties(Put(s, c, p, n, l, b, s.req))
<1> DEFINE t == Put(s, c, p, n, l, b, s.req)
<1>1. /\ t.pl[c] = p /\ t.nc[c] = n /\ t.ll[c] = l /\ t.bchan[c] = b
      /\ t.req = s.req /\ t.ind = s.ind /\ t.ctl = s.ctl
      /\ \A d \in Chans \ {c} : /\ t.pl[d] = s.pl[d] /\ t.nc[d] = s.nc[d]
                                /\ t.ll[d] = s.ll[d] /\ t.bchan[d] = s.bchan[d]
  BY PutFields
<1> HIDE DEF t
<1>2. Lines(t)  BY <1>1 DEF TiesBut, Lines
<1>3. ASSUME NEW d \in Chans PROVE Tied(t, d)
  <2>1. CASE d = c  BY <1>1, <2>1 DEF Tied
  <2>2. CASE d # c  BY <1>1, <2>2 DEF TiesBut, Tied
  <2>3. QED BY <2>1, <2>2
<1>4. p.plci \in Plcis \cup {0}  BY DEF Cell
<1>5. \A d, e \in Chans : Apart(t, d, e)
  BY <1>1, <1>4 DEF TiesBut, Apart
<1>6. QED BY <1>2, <1>3, <1>5 DEF Ties, t

\* An operation on a channel.
LEMMA PutOps ==
    ASSUME NEW s \in State, NEW c \in Chans, NEW p, NEW n, NEW l, NEW b, NEW r
    PROVE  /\ \A m : send_message(Put(s, c, p, n, l, b, r), m) = Put(s, c, p, n, l, b, Append(r, m))
           /\ \A o : [Put(s, c, p, n, l, b, r) EXCEPT !.pl[c] = o] = Put(s, c, o, n, l, b, r)
           /\ \A o : [Put(s, c, p, n, l, b, r) EXCEPT !.nc[c] = o] = Put(s, c, p, o, l, b, r)
           /\ \A o : [Put(s, c, p, n, l, b, r) EXCEPT !.ll[c] = o] = Put(s, c, p, n, o, b, r)
           /\ \A o : [Put(s, c, p, n, l, b, r) EXCEPT !.bchan[c] = o] = Put(s, c, p, n, l, o, r)
<1>1. /\ DOMAIN s.pl = Chans /\ DOMAIN s.nc = Chans /\ DOMAIN s.ll = Chans
      /\ DOMAIN s.bchan = Chans
  BY DEF State
<1>2. \A x, y : /\ [[s.pl EXCEPT ![c] = x] EXCEPT ![c] = y] = [s.pl EXCEPT ![c] = y]
                /\ [[s.nc EXCEPT ![c] = x] EXCEPT ![c] = y] = [s.nc EXCEPT ![c] = y]
                /\ [[s.ll EXCEPT ![c] = x] EXCEPT ![c] = y] = [s.ll EXCEPT ![c] = y]
                /\ [[s.bchan EXCEPT ![c] = x] EXCEPT ![c] = y] = [s.bchan EXCEPT ![c] = y]
  BY <1>1, Over
<1>3. \A m : send_message(Put(s, c, p, n, l, b, r), m) = Put(s, c, p, n, l, b, Append(r, m))
  <2>1. \A o : [Put(s, c, p, n, l, b, r) EXCEPT !.req = o] = Put(s, c, p, n, l, b, o)
    BY DEF Put
  <2>2. Put(s, c, p, n, l, b, r).req = r  BY DEF Put
  <2>3. QED BY <2>1, <2>2 DEF send_message
<1>4. \A o : [Put(s, c, p, n, l, b, r) EXCEPT !.pl[c] = o] = Put(s, c, o, n, l, b, r)
  BY <1>2 DEF Put
<1>5. \A o : [Put(s, c, p, n, l, b, r) EXCEPT !.nc[c] = o] = Put(s, c, p, o, l, b, r)
  BY <1>2 DEF Put
<1>6. \A o : [Put(s, c, p, n, l, b, r) EXCEPT !.ll[c] = o] = Put(s, c, p, n, o, b, r)
  BY <1>2 DEF Put
<1>7. \A o : [Put(s, c, p, n, l, b, r) EXCEPT !.bchan[c] = o] = Put(s, c, p, n, l, o, r)
  BY <1>2 DEF Put
<1>8. QED BY <1>3, <1>4, <1>5, <1>6, <1>7

-----------------------------------------------------------------------------
(* The tables, on one channel *)

LEMMA PlciOne ==
    ASSUME NEW o \in plcitable, NEW e \in plcitable, o[1] = e[1], o[2] = e[2]
    PROVE  o[3] = e[3]
  BY DEF plcitable

LEMMA NcciOne ==
    ASSUME NEW o \in nccitable, NEW e \in nccitable, o[1] = e[1], o[2] = e[2]
    PROVE  o[3] = e[3]
  BY DEF nccitable

LEMMA PlciStep ==
    ASSUME NEW t, NEW c, NEW event, NEW to, <<t.pl[c].st, event, to>> \in plcitable
    PROVE  plci_change_state(t, c, event) =
               IF to = "NONE" THEN p0(t, c) ELSE [t EXCEPT !.pl[c].st = to]
<1> DEFINE rows == {r \in plcitable : r[1] = t.pl[c].st /\ r[2] = event}
           tos == {r[3] : r \in rows}
           next == CHOOSE st \in tos : TRUE
           row == <<t.pl[c].st, event, to>>
<1>1. plci_change_state(t, c, event) =
          IF rows = {} THEN t ELSE IF next = "NONE" THEN p0(t, c)
          ELSE [t EXCEPT !.pl[c].st = next]
  BY DEF plci_change_state
<1>2. row \in rows /\ row[3] = to /\ row[1] = t.pl[c].st /\ row[2] = event  OBVIOUS
<1>3. next \in tos  BY <1>2
<1>4. PICK r \in rows : next = r[3]  BY <1>3
<1>5. next = to  BY <1>2, <1>4, PlciOne
<1> HIDE DEF next
<1>6. QED BY <1>1, <1>2, <1>5

LEMMA PlciStay ==
    ASSUME NEW t, NEW c, NEW event, \A to : <<t.pl[c].st, event, to>> \notin plcitable
    PROVE  plci_change_state(t, c, event) = t
<1>1. ASSUME NEW r \in plcitable PROVE r = <<r[1], r[2], r[3]>>
  BY DEF plcitable
<1>2. {r \in plcitable : r[1] = t.pl[c].st /\ r[2] = event} = {}
  BY <1>1
<1>3. QED BY <1>2 DEF plci_change_state

LEMMA NcciStep ==
    ASSUME NEW t, NEW c, NEW event, NEW to, <<t.nc[c].st, event, to>> \in nccitable
    PROVE  ncci_change_state(t, c, event) =
               IF to = "NONE" THEN n0(t, c) ELSE [t EXCEPT !.nc[c].st = to]
<1> DEFINE rows == {r \in nccitable : r[1] = t.nc[c].st /\ r[2] = event}
           tos == {r[3] : r \in rows}
           next == CHOOSE st \in tos : TRUE
           row == <<t.nc[c].st, event, to>>
<1>1. ncci_change_state(t, c, event) =
          IF rows = {} THEN t ELSE IF next = "NONE" THEN n0(t, c)
          ELSE [t EXCEPT !.nc[c].st = next]
  BY DEF ncci_change_state
<1>2. row \in rows /\ row[3] = to /\ row[1] = t.nc[c].st /\ row[2] = event  OBVIOUS
<1>3. next \in tos  BY <1>2
<1>4. PICK r \in rows : next = r[3]  BY <1>3
<1>5. next = to  BY <1>2, <1>4, NcciOne
<1> HIDE DEF next
<1>6. QED BY <1>1, <1>2, <1>5

LEMMA NcciStay ==
    ASSUME NEW t, NEW c, NEW event, \A to : <<t.nc[c].st, event, to>> \notin nccitable
    PROVE  ncci_change_state(t, c, event) = t
<1>1. ASSUME NEW r \in nccitable PROVE r = <<r[1], r[2], r[3]>>
  BY DEF nccitable
<1>2. {r \in nccitable : r[1] = t.nc[c].st /\ r[2] = event} = {}
  BY <1>1
<1>3. QED BY <1>2 DEF ncci_change_state

\* A PLCI of the controller, and what an event makes of it that does not end it.
Alive(p) == p \in Plci /\ p.st \in {"ALLOCATED", "ACTIVE", "INCOMING", "ACCEPTING", "DISCONNECTING"}
Soft(p, o) == Alive(o) /\ o.plci = p.plci

LEMMA PlciSoft ==
    ASSUME NEW s \in State, NEW c \in Chans, NEW p, Alive(p), NEW n, NEW l, NEW b, NEW r,
           NEW event \in {"CONNECT_ACTIVE_IND", "CONNECT_RESP", "CONNECT_REJECT", "DISCONNECT_REQ"}
    PROVE  \E o : Soft(p, o) /\ plci_change_state(Put(s, c, p, n, l, b, r), c, event) =
                                    Put(s, c, o, n, l, b, r)
<1> DEFINE t == Put(s, c, p, n, l, b, r)
<1>1. t.pl[c] = p  BY PutFields
<1>2. \A o : [t EXCEPT !.pl[c] = o] = Put(s, c, o, n, l, b, r)  BY PutOps
<1>3. ASSUME NEW to \in {"ACTIVE", "ACCEPTING", "DISCONNECTING"},
             <<p.st, event, to>> \in plcitable
      PROVE  \E o : Soft(p, o) /\ plci_change_state(t, c, event) = Put(s, c, o, n, l, b, r)
  <2> DEFINE o == [p EXCEPT !.st = to]
  <2>1. Soft(p, o)  BY DEF Alive, Soft, Plci, PlciStates
  <2>2. [t EXCEPT !.pl[c].st = to] = [t EXCEPT !.pl[c] = [t.pl[c] EXCEPT !.st = to]]
    OBVIOUS
  <2>3. plci_change_state(t, c, event) = [t EXCEPT !.pl[c].st = to]
    BY <1>1, <1>3, PlciStep
  <2> HIDE DEF t
  <2>4. plci_change_state(t, c, event) = Put(s, c, o, n, l, b, r)
    BY <1>1, <1>2, <2>2, <2>3
  <2>5. QED BY <2>1, <2>4
<1>4. CASE \A to \in {"ACTIVE", "ACCEPTING", "DISCONNECTING"} : <<p.st, event, to>> \notin plcitable
  <2>1. \A to : <<p.st, event, to>> \notin plcitable
    BY <1>4 DEF plcitable, Alive
  <2>2. plci_change_state(t, c, event) = t  BY <1>1, <2>1, PlciStay
  <2>3. Soft(p, p)  BY DEF Soft
  <2>4. QED BY <2>2, <2>3
<1> HIDE DEF t
<1>5. QED BY <1>3, <1>4 DEF t

-----------------------------------------------------------------------------
(* The ends of a PLCI and of an NCCI, and what the link level is told *)

LEMMA PutPaths ==
    ASSUME NEW s \in State, NEW c \in Chans, NEW p, NEW n, NEW l, NEW b, NEW r
    PROVE  /\ \A o : [Put(s, c, p, n, l, b, r) EXCEPT !.nc[c].st = o] =
                         Put(s, c, p, [n EXCEPT !.st = o], l, b, r)
           /\ \A o : [Put(s, c, p, n, l, b, r) EXCEPT !.pl[c].st = o] =
                         Put(s, c, [p EXCEPT !.st = o], n, l, b, r)
           /\ \A o : [Put(s, c, p, n, l, b, r) EXCEPT !.ll[c].phase = o] =
                         Put(s, c, p, n, [l EXCEPT !.phase = o], b, r)
<1> DEFINE t == Put(s, c, p, n, l, b, r)
<1>1. t.pl[c] = p /\ t.nc[c] = n /\ t.ll[c] = l  BY PutFields
<1>2. /\ \A o : [t EXCEPT !.pl[c] = o] = Put(s, c, o, n, l, b, r)
      /\ \A o : [t EXCEPT !.nc[c] = o] = Put(s, c, p, o, l, b, r)
      /\ \A o : [t EXCEPT !.ll[c] = o] = Put(s, c, p, n, o, b, r)
  BY PutOps
<1>3. /\ \A o : [t EXCEPT !.nc[c].st = o] = [t EXCEPT !.nc[c] = [t.nc[c] EXCEPT !.st = o]]
      /\ \A o : [t EXCEPT !.pl[c].st = o] = [t EXCEPT !.pl[c] = [t.pl[c] EXCEPT !.st = o]]
      /\ \A o : [t EXCEPT !.ll[c].phase = o] = [t EXCEPT !.ll[c] = [t.ll[c] EXCEPT !.phase = o]]
  OBVIOUS
<1> HIDE DEF t
<1>4. QED BY <1>1, <1>2, <1>3 DEF t

LEMMA Putp0 ==
    ASSUME NEW s \in State, NEW c \in Chans, NEW p, NEW n, NEW l, NEW b, NEW r
    PROVE  p0(Put(s, c, p, n, l, b, r), c) =
               Put(s, c, NoPlci, [n EXCEPT !.listed = FALSE], NoCall, Clean, r)
<1> DEFINE t == Put(s, c, p, n, NoCall, b, r)
           u == Put(s, c, NoPlci, n, NoCall, b, r)
           v == Put(s, c, NoPlci, n, NoCall, Clean, r)
<1>0. /\ \A o : [Put(s, c, p, n, l, b, r) EXCEPT !.ll[c] = o] = Put(s, c, p, n, o, b, r)
      /\ \A o : [t EXCEPT !.pl[c] = o] = Put(s, c, o, n, NoCall, b, r)
      /\ \A o : [u EXCEPT !.bchan[c] = o] = Put(s, c, NoPlci, n, NoCall, o, r)
      /\ \A o : [v EXCEPT !.nc[c] = o] = Put(s, c, NoPlci, o, NoCall, Clean, r)
  BY PutOps
<1>1. /\ [Put(s, c, p, n, l, b, r) EXCEPT !.ll[c] = NoCall] = t
      /\ [t EXCEPT !.pl[c] = NoPlci] = u /\ [u EXCEPT !.bchan[c] = Clean] = v
      /\ [v EXCEPT !.nc[c] = [n EXCEPT !.listed = FALSE]] =
             Put(s, c, NoPlci, [n EXCEPT !.listed = FALSE], NoCall, Clean, r)
  BY <1>0
<1>2. v.nc[c] = n  BY PutFields
<1>3. [t EXCEPT !.pl[c] = NoPlci, !.bchan[c] = Clean, !.nc[c].listed = FALSE] =
          [[[t EXCEPT !.pl[c] = NoPlci] EXCEPT !.bchan[c] = Clean] EXCEPT !.nc[c].listed = FALSE]
  OBVIOUS
<1>4. [v EXCEPT !.nc[c].listed = FALSE] = [v EXCEPT !.nc[c] = [v.nc[c] EXCEPT !.listed = FALSE]]
  OBVIOUS
<1>5. p0(Put(s, c, p, n, l, b, r), c) = free_plci(t, c)  BY <1>1 DEF p0
<1>6. free_plci(t, c) = [v EXCEPT !.nc[c].listed = FALSE]  BY <1>1, <1>3 DEF free_plci
<1>7. QED BY <1>1, <1>2, <1>4, <1>5, <1>6

Half(l) == [l EXCEPT !.phase = IF @ = "data" THEN "half" ELSE @]
Up(l) == [l EXCEPT !.phase = IF @ = "setup" THEN "up" ELSE @]
Data(l) == [l EXCEPT !.phase = "data"]

LEMMA PutTold ==
    ASSUME NEW s \in State, NEW c \in Chans, NEW p, NEW n, NEW l, NEW b, NEW r
    PROVE  /\ BHUP(Put(s, c, p, n, l, b, r), c) = Put(s, c, p, n, Half(l), b, r)
           /\ DCONN(Put(s, c, p, n, l, b, r), c) = Put(s, c, p, n, Up(l), b, r)
           /\ BCONN(Put(s, c, p, n, l, b, r), c) = Put(s, c, p, n, Data(l), b, r)
<1> DEFINE t == Put(s, c, p, n, l, b, r)
<1>1. \A o : [t EXCEPT !.ll[c] = o] = Put(s, c, p, n, o, b, r)  BY PutOps
<1>2. t.ll[c] = l  BY PutFields
<1>3. /\ BHUP(t, c) = [t EXCEPT !.ll[c] = Half(t.ll[c])]
      /\ DCONN(t, c) = [t EXCEPT !.ll[c] = Up(t.ll[c])]
      /\ BCONN(t, c) = [t EXCEPT !.ll[c] = Data(t.ll[c])]
  BY DEF BHUP, DCONN, BCONN, Half, Up, Data
<1> HIDE DEF t
<1>4. QED BY <1>1, <1>2, <1>3 DEF t

LEMMA Putn0 ==
    ASSUME NEW s \in State, NEW c \in Chans, NEW p, Alive(p), NEW n, NEW l, NEW b, NEW r
    PROVE  \E o : /\ Soft(p, o)
                  /\ n0(Put(s, c, p, n, l, b, r), c) =
                         Put(s, c, o, NoNcci, Half(l), b,
                             Append(r, Message("DISCONNECT_REQ", p.plci)))
<1> DEFINE t == Put(s, c, p, n, l, b, r)
           q == Append(r, Message("DISCONNECT_REQ", p.plci))
<1>1. t.pl[c].plci = p.plci  BY PutFields
<1>2. send_message(t, Message("DISCONNECT_REQ", p.plci)) = Put(s, c, p, n, l, b, q)
  BY PutOps
<1> HIDE DEF t, q
<1>3. PICK o : Soft(p, o) /\ plci_change_state(Put(s, c, p, n, l, b, q), c, "DISCONNECT_REQ") =
                                 Put(s, c, o, n, l, b, q)
  BY PlciSoft
<1>4. BHUP(Put(s, c, o, n, l, b, q), c) = Put(s, c, o, n, Half(l), b, q)  BY PutTold
<1>5. \A x : [Put(s, c, o, n, Half(l), b, q) EXCEPT !.nc[c] = x] =
                 Put(s, c, o, x, Half(l), b, q)
  BY PutOps
<1>6. n0(t, c) = Put(s, c, o, NoNcci, Half(l), b, q)
  BY <1>1, <1>2, <1>3, <1>4, <1>5 DEF n0, free_ncci
<1>7. QED BY <1>3, <1>6 DEF t, q

-----------------------------------------------------------------------------
(* Steps of the driver *)

Fine(s, t) == t \in State /\ Ties(t) /\ Kept(s, t)

LEMMA PutFine ==
    ASSUME NEW s \in State, NEW c \in Chans, TiesBut(s, c),
           NEW p \in Plci, NEW n \in Ncci, NEW l \in Ll, NEW b \in Bchan,
           Cell(p, n, l, b), Asks(p, s.ind, s.req, c),
           \A k \in Plcis : p.plci = k =>
               /\ Owner(s.ctl[k], s.ind, s.req, n, l, b, k)
               /\ \A d \in Chans \ {c} : s.pl[d].plci # k,
           s.ll[c].phase = "data" => l.phase \in {"data", "half"}
    PROVE  Fine(s, Put(s, c, p, n, l, b, s.req))
<1> DEFINE t == Put(s, c, p, n, l, b, s.req)
<1>1. Ties(t)  BY PutTies
<1>2. t \in State  BY DEF Put, State
<1>3. t.ll[c] = l /\ \A d \in Chans \ {c} : t.ll[d] = s.ll[d]  BY PutFields
<1> HIDE DEF t
<1>4. Kept(s, t)  BY <1>3 DEF Kept
<1>5. QED BY <1>1, <1>2, <1>4 DEF Fine, t

LEMMA SendFine ==
    ASSUME NEW s, NEW t, Fine(s, t), NEW m \in ReqMsg, m.type # "CONNECT_REQ",
           \A k \in Plcis : m \in To(k) => May(t.ctl[k], t.ind, t.req, k),
           \A k \in Plcis : m \in Resp(k) => t.ctl[k].st = "disc" /\ ~Has(t.ind, End(k)),
           \A c \in Chans : m \in Accepts(t.pl[c].plci) => ~Void(t.ll[c], t.bchan[c])
    PROVE  Fine(s, send_message(t, m))
<1>1. t \in State /\ Ties(t) /\ m \in Req  BY DEF Fine, ReqMsg
<1>2. Ties(send_message(t, m))  BY <1>1, SentTies
<1>3. send_message(t, m) \in State /\ send_message(t, m).ll = t.ll  BY <1>1, SendType
<1>4. QED BY <1>2, <1>3 DEF Fine, Kept

\* A channel sends about its own PLCI.
Own == {"CONNECT_RESP", "CONNECT_REJECT", "DISCONNECT_REQ", "CONNECT_B3_REQ",
        "CONNECT_B3_RESP", "DISCONNECT_B3_REQ", "DISCONNECT_B3_RESP"}

LEMMA OwnMsg ==
    ASSUME NEW k \in Plcis, NEW type \in ReqTypes \ {"CONNECT_REQ"}
    PROVE  /\ Message(type, k) \in ReqMsg
           /\ Message(type, k).type = type /\ Message(type, k).plci = k
<1>1. k \in Nat  BY DEF Plcis
<1>2. QED BY <1>1, MessageReq DEF ReqMsg, Message

LEMMA PutSend ==
    ASSUME NEW s \in State, NEW c \in Chans, NEW p, NEW n, NEW l, NEW b, NEW r,
           Fine(s, Put(s, c, p, n, l, b, r)), NEW k \in Plcis, p.plci = k,
           NEW type \in Own, type = "CONNECT_RESP" => ~Void(l, b)
    PROVE  Fine(s, Put(s, c, p, n, l, b, Append(r, Message(type, k))))
<1> DEFINE t == Put(s, c, p, n, l, b, r)
           m == Message(type, k)
<1>1. t.pl[c] = p /\ t.nc[c] = n /\ t.ll[c] = l /\ t.bchan[c] = b  BY PutFields
<1>2. send_message(t, m) = Put(s, c, p, n, l, b, Append(r, m))  BY PutOps
<1>3. /\ m \in ReqMsg /\ m.type = type /\ m.plci = k
      /\ type \notin {"CONNECT_REQ", "DISCONNECT_RESP"}
  BY OwnMsg DEF Own, ReqTypes
<1> HIDE DEF t, m
<1>4. Ties(t)  BY DEF Fine, t
<1>5. May(t.ctl[k], t.ind, t.req, k)
  BY <1>1, <1>4, OwnerMay DEF Ties, Tied, Lines
<1>6. ASSUME NEW d \in Chans, m \in Accepts(t.pl[d].plci)
      PROVE  ~Void(t.ll[d], t.bchan[d])
  <2>1. type = "CONNECT_RESP" /\ t.pl[d].plci = k  BY <1>3, <1>6 DEF Accepts, To
  <2>2. k # 0  BY DEF Plcis
  <2>3. d = c  BY <1>1, <1>4, <2>1, <2>2 DEF Ties, Apart
  <2>4. QED BY <1>1, <2>1, <2>3
<1>7. /\ \A i \in Plcis : m \in To(i) => i = k
      /\ \A i \in Plcis : m \notin Resp(i)
  BY <1>3 DEF To, Resp
<1>8. Fine(s, send_message(t, m))  BY <1>3, <1>5, <1>6, <1>7, SendFine DEF t
<1>9. QED BY <1>2, <1>8 DEF m

-----------------------------------------------------------------------------
(* A message of the controller is handled *)

Pops(s0, s, m) ==
    /\ s0 \in State /\ Good(s0) /\ Ties(s0) /\ s0.ind # <<>>
    /\ m = Head(s0.ind) /\ s = [s0 EXCEPT !.ind = Tail(@)]

LEMMA PopFields ==
    ASSUME NEW s0, NEW s, NEW m, Pops(s0, s, m)
    PROVE  /\ s \in State /\ Lines(s) /\ s.ind = Tail(s0.ind)
           /\ s.pl = s0.pl /\ s.nc = s0.nc /\ s.ll = s0.ll /\ s.bchan = s0.bchan
           /\ s.req = s0.req /\ s.ctl = s0.ctl
           /\ m \in IndMsg /\ s0.ind \in Seq(IndMsg) /\ s0.ind # <<>> /\ m = Head(s0.ind)
<1>1. s0 \in State /\ s0.ind \in Seq(Ind) /\ s0.ind # <<>>  BY DEF Pops, State
<1>2. Tail(s0.ind) \in Seq(Ind)  BY <1>1
<1>3. /\ s \in State /\ s.ind = Tail(s0.ind)
      /\ s.pl = s0.pl /\ s.nc = s0.nc /\ s.ll = s0.ll /\ s.bchan = s0.bchan
      /\ s.req = s0.req /\ s.ctl = s0.ctl
  BY <1>1, <1>2 DEF Pops, State
<1>4. Lines(s0) /\ s0.ind \in Seq(IndMsg)  BY DEF Pops, Ties, Lines
<1>5. Lines(s)  BY <1>1, <1>3, <1>4, TakenLines
<1>6. m \in IndMsg /\ m = Head(s0.ind)  BY <1>1, <1>4 DEF Pops
<1>7. QED BY <1>1, <1>3, <1>4, <1>5, <1>6

LEMMA PopTied ==
    ASSUME NEW s0, NEW s, NEW m, Pops(s0, s, m), NEW c \in Chans,
           m \notin Ans(c), m \notin End(s.pl[c].plci), Live(s.nc[c]) => m \notin Down(s.pl[c].plci)
    PROVE  Tied(s, c)
  BY PopFields, TakenTied DEF Pops, Ties

LEMMA PopBut ==
    ASSUME NEW s0, NEW s, NEW m, Pops(s0, s, m), NEW c,
           \A d \in Chans \ {c} : /\ m \notin Ans(d) /\ m \notin End(s.pl[d].plci)
                                  /\ Live(s.nc[d]) => m \notin Down(s.pl[d].plci)
    PROVE  TiesBut(s, c)
<1>1. \A d \in Chans \ {c} : Tied(s, d)  BY PopTied
<1>2. \A d, e \in Chans : Apart(s, d, e)  BY PopFields DEF Pops, Ties, Apart
<1>3. QED BY <1>1, <1>2, PopFields DEF TiesBut

LEMMA PopAll ==
    ASSUME NEW s0, NEW s, NEW m, Pops(s0, s, m),
           \A d \in Chans : /\ m \notin Ans(d) /\ m \notin End(s.pl[d].plci)
                            /\ Live(s.nc[d]) => m \notin Down(s.pl[d].plci)
    PROVE  Fine(s, s)
<1>1. \A d \in Chans : Tied(s, d)  BY PopTied
<1>2. \A d, e \in Chans : Apart(s, d, e)  BY PopFields DEF Pops, Ties, Apart
<1>3. QED BY <1>1, <1>2, PopFields DEF Ties, Fine, Kept

LEMMA AsksAny ==
    ASSUME NEW p, NEW q, NEW r, NEW c, Asks(p, q, r, c), p.st # "OUTGOING", NEW o
    PROVE  Asks(o, q, r, c)
  BY DEF Asks

LEMMA CellSoft ==
    ASSUME NEW p, NEW n, NEW l, NEW b, Cell(p, n, l, b), Alive(p), NEW o, Soft(p, o)
    PROVE  o \in Plci /\ Cell(o, n, l, b)
  BY DEF Cell, Alive, Soft

\* What holds of channel c and its PLCI when m, taken off the line of s0, is for it.
Belongs(s0, s, m, c) ==
    /\ m.plci \in Plcis /\ Alive(s.pl[c]) /\ s.nc[c] \in Ncci /\ s.ll[c] \in Ll
    /\ s.bchan[c] \in Bchan
    /\ TiesBut(s, c) /\ \A d \in Chans \ {c} : s.pl[d].plci # m.plci
    /\ Cell(s.pl[c], s.nc[c], s.ll[c], s.bchan[c])
    /\ \A o : Asks(o, s.ind, s.req, c)
    /\ Owner(s.ctl[m.plci], s0.ind, s.req, s.nc[c], s.ll[c], s.bchan[c], m.plci)
    /\ m \notin End(m.plci) /\ (Live(s.nc[c]) => m \notin Down(m.plci)) =>
           Owner(s.ctl[m.plci], s.ind, s.req, s.nc[c], s.ll[c], s.bchan[c], m.plci)
    /\ Line(s.ctl[m.plci], s0.ind, s.req, m.plci)
    /\ Line(s.ctl[m.plci], s.ind, s.req, m.plci)

\* The channel that a message is for.
LEMMA PopOwner ==
    ASSUME NEW s0, NEW s, NEW m, Pops(s0, s, m), m.type # "CONNECT_CONF",
           NEW c \in Chans, s.pl[c].st # "NONE", s.pl[c].plci = m.plci
    PROVE  Belongs(s0, s, m, c)
<1> DEFINE k == m.plci
<1>1. /\ s \in State /\ Lines(s) /\ s.ind = Tail(s0.ind)
      /\ s.pl = s0.pl /\ s.nc = s0.nc /\ s.ll = s0.ll /\ s.bchan = s0.bchan
      /\ s.req = s0.req /\ s.ctl = s0.ctl
      /\ m \in IndMsg /\ s0.ind \in Seq(IndMsg) /\ s0.ind # <<>> /\ m = Head(s0.ind)
  BY PopFields
<1>2. Ties(s0)  BY DEF Pops
<1>3. k \in Plcis /\ k # 0  BY <1>1 DEF IndMsg, Plcis
<1>4. /\ s.pl[c] \in Plci /\ s.nc[c] \in Ncci /\ s.ll[c] \in Ll /\ s.bchan[c] \in Bchan
  BY <1>1 DEF State
<1>5. Cell(s.pl[c], s.nc[c], s.ll[c], s.bchan[c])  BY <1>1, <1>2 DEF Ties, Tied
<1>6. Alive(s.pl[c]) /\ s.pl[c].st # "OUTGOING"
  BY <1>3, <1>4, <1>5 DEF Alive, Cell, Plci, PlciStates
<1>7. \A d \in Chans \ {c} : s.pl[d].plci # k
  BY <1>1, <1>2, <1>3 DEF Ties, Apart
<1>8. \A d \in Chans : m \notin Ans(d)  BY DEF Ans
<1>9. TiesBut(s, c)
  <2>1. \A i : m \in End(i) \/ m \in Down(i) => i = k  BY DEF End, Down, Of
  <2>2. QED BY <1>7, <1>8, <2>1, PopBut
<1>10. \A o : Asks(o, s.ind, s.req, c)
  BY <1>1, <1>2, <1>6, <1>8, AsksTaken, AsksAny DEF Ties, Tied
<1>11. Owner(s.ctl[k], s0.ind, s.req, s.nc[c], s.ll[c], s.bchan[c], k)
  BY <1>1, <1>2, <1>3 DEF Ties, Tied
<1>12. m \notin End(k) /\ (Live(s.nc[c]) => m \notin Down(k)) =>
           Owner(s.ctl[k], s.ind, s.req, s.nc[c], s.ll[c], s.bchan[c], k)
  BY <1>1, <1>11, OwnerTaken
<1>13. Line(s.ctl[k], s0.ind, s.req, k) /\ Line(s.ctl[k], s.ind, s.req, k)
  BY <1>1, <1>2, <1>3 DEF Ties, Lines
<1>14. QED
  BY <1>3, <1>4, <1>5, <1>6, <1>7, <1>9, <1>10, <1>11, <1>12, <1>13
     DEF Belongs

\* An NCCI in a list.
Listed(n, st, k) == n \in Ncci /\ n.st = st /\ n.ncci = k /\ n.listed

LEMMA ListedNew ==
    ASSUME NEW k \in Nat
    PROVE  Listed([NoNcci EXCEPT !.ncci = k, !.listed = TRUE], "NONE", k)
<1>1. NoNcci \in Ncci /\ NoNcci.st = "NONE"  BY DEF NoNcci, Ncci, NcciStates
<1>2. QED BY <1>1 DEF Listed, Ncci

LEMMA ListedStep ==
    ASSUME NEW n, NEW st, NEW k, Listed(n, st, k), NEW to \in NcciStates
    PROVE  Listed([n EXCEPT !.st = to], to, k)
  BY DEF Listed, Ncci

\* An event of the NCCI of a channel.
LEMMA PutNcci ==
    ASSUME NEW s \in State, NEW c \in Chans, NEW p, NEW n, NEW l, NEW b, NEW r,
           NEW event, NEW to, <<n.st, event, to>> \in nccitable
    PROVE  ncci_change_state(Put(s, c, p, n, l, b, r), c, event) =
               IF to = "NONE" THEN n0(Put(s, c, p, n, l, b, r), c)
               ELSE Put(s, c, p, [n EXCEPT !.st = to], l, b, r)
<1> DEFINE t == Put(s, c, p, n, l, b, r)
<1>1. t.nc[c] = n  BY PutFields
<1>2. \A o : [t EXCEPT !.nc[c].st = o] = Put(s, c, p, [n EXCEPT !.st = o], l, b, r)
  BY PutPaths
<1>3. ncci_change_state(t, c, event) = IF to = "NONE" THEN n0(t, c) ELSE [t EXCEPT !.nc[c].st = to]
  BY <1>1, NcciStep
<1> HIDE DEF t
<1>4. QED BY <1>2, <1>3 DEF t

LEMMA PutEnds ==
    ASSUME NEW s \in State, NEW c \in Chans, NEW p, NEW n, NEW l, NEW b, NEW r,
           NEW event, <<n.st, event, "NONE">> \in nccitable
    PROVE  ncci_change_state(Put(s, c, p, n, l, b, r), c, event) = n0(Put(s, c, p, n, l, b, r), c)
<1> DEFINE t == Put(s, c, p, n, l, b, r)
<1>1. t.nc[c] = n  BY PutFields
<1> HIDE DEF t
<1>2. ncci_change_state(t, c, event) = n0(t, c)  BY <1>1, NcciStep
<1>3. QED BY <1>2 DEF t

\* It gets its number, and the flag of a channel is set.
LEMMA PutFlags ==
    ASSUME NEW s \in State, NEW c \in Chans
    PROVE  /\ \A k : [s EXCEPT !.nc[c].ncci = k] =
                         Put(s, c, s.pl[c], [s.nc[c] EXCEPT !.ncci = k], s.ll[c], s.bchan[c], s.req)
           /\ \A k : [s EXCEPT !.pl[c].plci = k] =
                         Put(s, c, [s.pl[c] EXCEPT !.plci = k], s.nc[c], s.ll[c], s.bchan[c], s.req)
           /\ \A o : [s EXCEPT !.bchan[c].disconnecting = o] =
                         Put(s, c, s.pl[c], s.nc[c], s.ll[c],
                             [s.bchan[c] EXCEPT !.disconnecting = o], s.req)
           /\ \A o : [s EXCEPT !.bchan[c] = o] =
                         Put(s, c, s.pl[c], s.nc[c], s.ll[c], o, s.req)
<1> DEFINE t == Put(s, c, s.pl[c], s.nc[c], s.ll[c], s.bchan[c], s.req)
<1>1. s = t  BY PutSelf
<1>2. /\ \A o : [t EXCEPT !.nc[c] = o] = Put(s, c, s.pl[c], o, s.ll[c], s.bchan[c], s.req)
      /\ \A o : [t EXCEPT !.pl[c] = o] = Put(s, c, o, s.nc[c], s.ll[c], s.bchan[c], s.req)
      /\ \A o : [t EXCEPT !.bchan[c] = o] = Put(s, c, s.pl[c], s.nc[c], s.ll[c], o, s.req)
  BY PutOps
<1> HIDE DEF t
<1>3. \A o : [s EXCEPT !.nc[c] = o] = Put(s, c, s.pl[c], o, s.ll[c], s.bchan[c], s.req)
  <2>1. ASSUME NEW o
        PROVE  [s EXCEPT !.nc[c] = o] = Put(s, c, s.pl[c], o, s.ll[c], s.bchan[c], s.req)
    <3>1. [s EXCEPT !.nc[c] = o] = [t EXCEPT !.nc[c] = o]  BY <1>1
    <3>2. QED BY <1>2, <3>1
  <2>2. QED BY <2>1
<1>4. \A o : [s EXCEPT !.pl[c] = o] = Put(s, c, o, s.nc[c], s.ll[c], s.bchan[c], s.req)
  <2>1. ASSUME NEW o
        PROVE  [s EXCEPT !.pl[c] = o] = Put(s, c, o, s.nc[c], s.ll[c], s.bchan[c], s.req)
    <3>1. [s EXCEPT !.pl[c] = o] = [t EXCEPT !.pl[c] = o]  BY <1>1
    <3>2. QED BY <1>2, <3>1
  <2>2. QED BY <2>1
<1>5. \A o : [s EXCEPT !.bchan[c] = o] = Put(s, c, s.pl[c], s.nc[c], s.ll[c], o, s.req)
  <2>1. ASSUME NEW o
        PROVE  [s EXCEPT !.bchan[c] = o] = Put(s, c, s.pl[c], s.nc[c], s.ll[c], o, s.req)
    <3>1. [s EXCEPT !.bchan[c] = o] = [t EXCEPT !.bchan[c] = o]  BY <1>1
    <3>2. QED BY <1>2, <3>1
  <2>2. QED BY <2>1
<1>6. /\ \A k : [s EXCEPT !.nc[c].ncci = k] = [s EXCEPT !.nc[c] = [s.nc[c] EXCEPT !.ncci = k]]
      /\ \A k : [s EXCEPT !.pl[c].plci = k] = [s EXCEPT !.pl[c] = [s.pl[c] EXCEPT !.plci = k]]
      /\ \A o : [s EXCEPT !.bchan[c].disconnecting = o] =
                    [s EXCEPT !.bchan[c] = [s.bchan[c] EXCEPT !.disconnecting = o]]
  OBVIOUS
<1>7. QED BY <1>3, <1>4, <1>5, <1>6

\* A new one.
LEMMA PutNew ==
    ASSUME NEW s \in State, NEW c \in Chans, NEW p, NEW n, NEW l, NEW b, NEW r, NEW k \in Nat,
           NEW event, NEW to, to # "NONE", <<"NONE", event, to>> \in nccitable
    PROVE  \E x : /\ Listed(x, to, k)
                  /\ new_ncci(Put(s, c, p, n, l, b, r), c, k, event) = Put(s, c, p, x, l, b, r)
<1> DEFINE t == Put(s, c, p, n, l, b, r)
           o == [NoNcci EXCEPT !.ncci = k, !.listed = TRUE]
           x == [o EXCEPT !.st = to]
<1>1. Listed(o, "NONE", k)  BY ListedNew
<1>2. \A y : [t EXCEPT !.nc[c] = y] = Put(s, c, p, y, l, b, r)  BY PutOps
<1>3. new_ncci(t, c, k, event) = ncci_change_state([t EXCEPT !.nc[c] = o], c, event)
  BY DEF new_ncci
<1> HIDE DEF o
<1>4. new_ncci(t, c, k, event) = ncci_change_state(Put(s, c, p, o, l, b, r), c, event)
  BY <1>2, <1>3
<1>5. ncci_change_state(Put(s, c, p, o, l, b, r), c, event) = Put(s, c, p, x, l, b, r)
  BY <1>1, PutNcci DEF Listed
<1>6. to \in NcciStates
  <2>1. <<"NONE", event, to>>[3] = to  OBVIOUS
  <2>2. QED BY <2>1, NcciRows
<1>7. Listed(x, to, k)  BY <1>1, <1>6, ListedStep
<1>8. QED BY <1>4, <1>5, <1>7

\* What the message taken says of the requests that may be sent.
LEMMA PopMay ==
    ASSUME NEW s0, NEW s, NEW m, Pops(s0, s, m), m.plci \in Plcis, m \in Real(m.plci)
    PROVE  /\ May(s.ctl[m.plci], s.ind, s.req, m.plci)
           /\ m \in End(m.plci) => s.ctl[m.plci].st = "disc" /\ ~Has(s.ind, End(m.plci))
<1> DEFINE k == m.plci
<1>1. /\ s.ind = Tail(s0.ind) /\ s.req = s0.req /\ s.ctl = s0.ctl /\ s0.ind \in Seq(IndMsg)
      /\ s0.ind # <<>> /\ m = Head(s0.ind)
  BY PopFields
<1> DEFINE h == Head(s0.ind)
           x == s.ctl[k]
<1>2. Line(x, s0.ind, s.req, k)  BY <1>1 DEF Pops, Ties, Lines
<1>3. h \in Real(k) /\ h = m  BY <1>1
<1> HIDE DEF k, x
<1>4. /\ May(x, Tail(s0.ind), s.req, k)
      /\ h \in End(k) => x.st = "disc" /\ ~Has(Tail(s0.ind), End(k))
  BY <1>1, <1>2, <1>3, HeadMay
<1> HIDE DEF h
<1>5. QED BY <1>1, <1>3, <1>4 DEF k, x

\* What is sent about a PLCI that no channel has.
LEMMA PopSend ==
    ASSUME NEW s0, NEW s, NEW m, Pops(s0, s, m), m \in Real(m.plci), Fine(s, s),
           NEW type \in {"DISCONNECT_RESP", "CONNECT_B3_REJECT"},
           type = "DISCONNECT_RESP" => m \in End(m.plci)
    PROVE  Fine(s, send_message(s, Message(type, m.plci)))
<1> DEFINE k == m.plci
           r == Message(type, k)
<1>1. /\ s.ind = Tail(s0.ind) /\ s.req = s0.req /\ s.ctl = s0.ctl /\ s0.ind \in Seq(IndMsg)
      /\ s0.ind # <<>> /\ m = Head(s0.ind)
  BY PopFields
<1>2. k \in Plcis
  <2>1. m \in IndMsg /\ m.ok  BY PopFields DEF Real, Birth, Talk, End, Of
  <2>2. QED BY <2>1 DEF IndMsg
<1>4. /\ May(s.ctl[k], s.ind, s.req, k)
      /\ m \in End(k) => s.ctl[k].st = "disc" /\ ~Has(s.ind, End(k))
  BY <1>2, PopMay
<1>5. /\ r \in ReqMsg /\ r.type = type /\ r.plci = k
  BY <1>2, OwnMsg DEF ReqTypes
<1> HIDE DEF r
<1>6. /\ \A i \in Plcis : r \in To(i) => i = k
      /\ \A i \in Plcis : r \in Resp(i) => i = k /\ type = "DISCONNECT_RESP"
      /\ \A i : r \notin Accepts(i)
  BY <1>5 DEF To, Resp, Accepts
<1>7. QED BY <1>4, <1>5, <1>6, SendFine DEF r

LEMMA ActiveTies ==
    ASSUME NEW s0, NEW s, NEW m, Pops(s0, s, m), m.type = "CONNECT_ACTIVE_IND",
           NEW t \in CONNECT_ACTIVE_IND(s, m.plci)
    PROVE  Fine(s, t)
<1> DEFINE k == m.plci
<1>1. /\ s \in State /\ m \in IndMsg /\ s0.ind \in Seq(IndMsg) /\ s0.ind # <<>> /\ m = Head(s0.ind)
  BY PopFields
<1>2. m \in Call(k) /\ \A i : m \notin End(i) /\ m \notin Down(i) /\ m \notin Ans(i)
  BY <1>1 DEF Call, End, Down, Ans, Of, IndMsg
<1>3. CASE find_plci_by_plci(s, k) = {}
  BY <1>2, <1>3, PopAll DEF CONNECT_ACTIVE_IND
<1>4. ASSUME NEW c \in find_plci_by_plci(s, k),
             t = IF s.bchan[c].incoming THEN plci_change_state(s, c, "CONNECT_ACTIVE_IND")
                 ELSE send_message(new_ncci(DCONN(plci_change_state(s, c, "CONNECT_ACTIVE_IND"), c),
                                            c, 0, "CONNECT_B3_REQ"),
                                   Message("CONNECT_B3_REQ", k))
      PROVE  Fine(s, t)
  <2> DEFINE p == s.pl[c]
             n == s.nc[c]
             l == s.ll[c]
             b == s.bchan[c]
  <2>1. c \in Chans /\ s.pl[c].st # "NONE" /\ s.pl[c].plci = k  BY DEF find_plci_by_plci
  <2>2. /\ k \in Plcis /\ Alive(p) /\ n \in Ncci /\ l \in Ll /\ b \in Bchan
        /\ TiesBut(s, c) /\ \A d \in Chans \ {c} : s.pl[d].plci # k
        /\ Cell(p, n, l, b) /\ \A o : Asks(o, s.ind, s.req, c)
        /\ Owner(s.ctl[k], s0.ind, s.req, n, l, b, k)
        /\ Owner(s.ctl[k], s.ind, s.req, n, l, b, k)
    <3>1. Belongs(s0, s, m, c)  BY <1>2, <2>1, PopOwner
    <3>2. QED BY <1>2, <2>1, <3>1 DEF Belongs
  <2>3. s = Put(s, c, p, n, l, b, s.req)  BY <1>1, <2>1, PutSelf
  <2>4. PICK o : Soft(p, o) /\ plci_change_state(Put(s, c, p, n, l, b, s.req), c, "CONNECT_ACTIVE_IND")
                                   = Put(s, c, o, n, l, b, s.req)
    BY <1>1, <2>1, <2>2, PlciSoft
  <2>5. o \in Plci /\ Cell(o, n, l, b) /\ o.plci = k /\ Alive(o)
    BY <2>1, <2>2, <2>4, CellSoft DEF Soft
  <2>6. CASE b.incoming
    <3>1. t = Put(s, c, o, n, l, b, s.req)  BY <1>4, <2>3, <2>4, <2>6
    <3>2. QED BY <1>1, <2>1, <2>2, <2>5, <3>1, PutFine
  <2>7. CASE ~b.incoming
    <3> DEFINE u == Put(s, c, o, n, Up(l), b, s.req)
    <3>0. t = send_message(new_ncci(u, c, 0, "CONNECT_B3_REQ"), Message("CONNECT_B3_REQ", k))
      <4>1. DCONN(Put(s, c, o, n, l, b, s.req), c) = u  BY <1>1, <2>1, PutTold
      <4>2. QED BY <1>4, <2>3, <2>4, <2>7, <4>1
    <3>1. PICK w : Listed(w, "OUTGOING", 0) /\
                   new_ncci(u, c, 0, "CONNECT_B3_REQ") = Put(s, c, o, w, Up(l), b, s.req)
      <4>1. <<"NONE", "CONNECT_B3_REQ", "OUTGOING">> \in nccitable  BY DEF nccitable
      <4>2. QED BY <1>1, <2>1, <4>1, PutNew
    <3> HIDE DEF u
    <3>2. t = Put(s, c, o, w, Up(l), b, Append(s.req, Message("CONNECT_B3_REQ", k)))
      BY <1>1, <2>1, <3>0, <3>1, PutOps
    <3>3. w \in Ncci /\ w.st = "OUTGOING" /\ w.ncci = 0 /\ ~Live(w)
      BY <3>1 DEF Listed, Live
    <3>4. ~Live(n)
      <4>1. Has(s0.ind, Call(k))  BY <1>1, <1>2, Taken
      <4>2. QED BY <2>2, <4>1 DEF Owner
    <3>5. /\ Up(l) \in Ll /\ Up(l).dialed = l.dialed /\ Up(l).phase \in {l.phase, "up"}
          /\ Up(l).phase = "up" => l.phase \in {"up", "setup"}
          /\ l.phase \in Phases /\ l.phase # "data"
      BY <2>2, <3>4 DEF Up, Ll, Phases, Cell
    <3>6. Cell(o, w, Up(l), b)  BY <2>5, <2>7, <3>3, <3>4, <3>5 DEF Cell, Alive
    <3>7. Owner(s.ctl[k], s.ind, s.req, w, Up(l), b, k)
      BY <2>2, <3>3, <3>5 DEF Owner, Void
    <3>8. Fine(s, Put(s, c, o, w, Up(l), b, s.req))
      BY <1>1, <2>1, <2>2, <2>5, <3>3, <3>5, <3>6, <3>7, PutFine
    <3>9. QED BY <1>1, <2>1, <2>2, <2>5, <3>2, <3>8, PutSend DEF Own
  <2>8. QED BY <2>6, <2>7
<1>5. QED BY <1>3, <1>4 DEF CONNECT_ACTIVE_IND

\* What the raising of a B channel says of the PLCI.
LEMMA Raised ==
    ASSUME NEW s0, NEW s, NEW m, Pops(s0, s, m), NEW k \in Plcis, m \in Raise(k)
    PROVE  /\ ~Has(s.ind, Call(k))
           /\ Open(s.ctl[k]) \/ Has(s.ind, Down(k))
<1>1. /\ s.ind = Tail(s0.ind) /\ s.req = s0.req /\ s.ctl = s0.ctl /\ s0.ind \in Seq(IndMsg)
      /\ s0.ind # <<>> /\ m = Head(s0.ind)
  BY PopFields
<1>2. Line(s0.ctl[k], s0.ind, s0.req, k)  BY DEF Pops, Ties, Lines
<1>3. m \in B3(k)  BY Parts
<1>4. NoneAfter(s0.ind, B3(k), Call(k)) /\ (Open(s.ctl[k]) \/ Followed(s0.ind, Raise(k), Down(k)))
  BY <1>1, <1>2 DEF Line
<1>5. ~Has(Tail(s0.ind), Call(k))  BY <1>1, <1>3, <1>4, Taken
<1>6. Open(s.ctl[k]) \/ Has(Tail(s0.ind), Down(k))  BY <1>1, <1>4, Taken
<1>7. QED BY <1>1, <1>5, <1>6

LEMMA B3IndTies ==
    ASSUME NEW s0, NEW s, NEW m, Pops(s0, s, m), m.type = "CONNECT_B3_IND",
           NEW t \in CONNECT_B3_IND(s, m.plci)
    PROVE  Fine(s, t)
<1> DEFINE k == m.plci
           r == Message("CONNECT_B3_RESP", k)
<1>1. s \in State /\ m \in IndMsg  BY PopFields
<1>2. m \in Raise(k) /\ \A i : m \notin End(i) /\ m \notin Down(i) /\ m \notin Ans(i)
  BY <1>1 DEF Raise, End, Down, Ans, Of, IndMsg
<1>3. CASE find_plci_by_plci(s, k) = {}
  <2>1. t = send_message(s, Message("CONNECT_B3_REJECT", k))  BY <1>3 DEF CONNECT_B3_IND
  <2>2. Fine(s, s)  BY <1>2, PopAll
  <2>3. m \in Real(k)  BY <1>2, Parts
  <2>4. QED BY <2>1, <2>2, <2>3, PopSend
<1>4. ASSUME NEW c \in find_plci_by_plci(s, k),
             t = ncci_change_state(send_message(new_ncci(s, c, k, "CONNECT_B3_IND"), r),
                                   c, "CONNECT_B3_RESP")
      PROVE  Fine(s, t)
  <2> DEFINE p == s.pl[c]
             n == s.nc[c]
             l == s.ll[c]
             b == s.bchan[c]
             q == Append(s.req, r)
  <2>1. c \in Chans /\ s.pl[c].st # "NONE" /\ s.pl[c].plci = k  BY DEF find_plci_by_plci
  <2>2. /\ k \in Plcis /\ Alive(p) /\ n \in Ncci /\ l \in Ll /\ b \in Bchan
        /\ TiesBut(s, c) /\ \A d \in Chans \ {c} : s.pl[d].plci # k
        /\ Cell(p, n, l, b) /\ \A o : Asks(o, s.ind, s.req, c)
        /\ Owner(s.ctl[k], s.ind, s.req, n, l, b, k)
    <3>1. m \notin End(k) /\ m \notin Down(k) /\ m.type # "CONNECT_CONF"  BY <1>2
    <3>2. Belongs(s0, s, m, c)  BY <2>1, <3>1, PopOwner
    <3>3. QED BY <2>1, <3>1, <3>2 DEF Belongs
  <2>3. s = Put(s, c, p, n, l, b, s.req) /\ k \in Nat  BY <1>1, <2>1, <2>2, PutSelf DEF Plcis
  <2>4. PICK x : Listed(x, "INCOMING", k) /\
                 new_ncci(Put(s, c, p, n, l, b, s.req), c, k, "CONNECT_B3_IND") =
                     Put(s, c, p, x, l, b, s.req)
    <3>1. <<"NONE", "CONNECT_B3_IND", "INCOMING">> \in nccitable  BY DEF nccitable
    <3>2. QED BY <1>1, <2>1, <2>3, <3>1, PutNew
  <2>5. send_message(Put(s, c, p, x, l, b, s.req), r) = Put(s, c, p, x, l, b, q)
    BY <1>1, <2>1, PutOps
  <2> DEFINE y == [x EXCEPT !.st = "ALLOCATED"]
  <2>6. Listed(y, "ALLOCATED", k)  BY <2>4, ListedStep DEF NcciStates
  <2>7. ncci_change_state(Put(s, c, p, x, l, b, q), c, "CONNECT_B3_RESP") = Put(s, c, p, y, l, b, q)
    <3>1. <<x.st, "CONNECT_B3_RESP", "ALLOCATED">> \in nccitable  BY <2>4 DEF nccitable, Listed
    <3>2. QED BY <1>1, <2>1, <3>1, PutNcci
  <2>8. t = Put(s, c, p, y, l, b, q)  BY <1>4, <2>3, <2>4, <2>5, <2>7
  <2>9. y \in Ncci /\ y.st = "ALLOCATED" /\ y.ncci = k /\ y.listed /\ Live(y)
    BY <2>6 DEF Listed, Live
  <2> HIDE DEF y
  <2>10. k # 0 /\ Cell(p, y, l, b)  BY <2>1, <2>2, <2>9 DEF Cell, Plcis
  <2>11. Owner(s.ctl[k], s.ind, s.req, y, l, b, k)
    BY <1>2, <2>2, Raised DEF Owner
  <2>12. p \in Plci /\ p.plci = k /\ \A i \in Plcis : p.plci = i => i = k  BY <2>1, <2>2 DEF Alive
  <2>13. Fine(s, Put(s, c, p, y, l, b, s.req))
    BY <1>1, <2>1, <2>2, <2>9, <2>10, <2>11, <2>12, PutFine
  <2>14. QED BY <1>1, <2>1, <2>2, <2>8, <2>12, <2>13, PutSend DEF Own
<1>5. QED BY <1>3, <1>4 DEF CONNECT_B3_IND

LEMMA HalfType ==
    ASSUME NEW l \in Ll
    PROVE  /\ Half(l) \in Ll /\ Half(l).dialed = l.dialed
           /\ Half(l).phase = IF l.phase = "data" THEN "half" ELSE l.phase
  BY DEF Half, Ll, Phases

\* The B channel is gone, and the call shall go.
LEMMA GoneFine ==
    ASSUME NEW s \in State, NEW c \in Chans, TiesBut(s, c),
           NEW p, Alive(p), NEW n, NEW l \in Ll, NEW b \in Bchan, NEW a \in Bchan, NEW k \in Plcis,
           p.plci = k, Cell(p, n, l, b), a.incoming = b.incoming,
           \A o : Asks(o, s.ind, s.req, c), \A d \in Chans \ {c} : s.pl[d].plci # k,
           Owner(s.ctl[k], s.ind, s.req, NoNcci, l, b, k),
           s.ll[c].phase = "data" => l.phase = "data", NEW o, Soft(p, o)
    PROVE  Fine(s, Put(s, c, o, NoNcci, Half(l), a, s.req))
<1>1. NoNcci \in Ncci /\ ~Live(NoNcci) /\ NoNcci.st = "NONE" /\ NoNcci.ncci = 0
  BY DEF NoNcci, Ncci, NcciStates, Live
<1>2. /\ Half(l) \in Ll /\ Half(l).dialed = l.dialed
      /\ Half(l).phase = IF l.phase = "data" THEN "half" ELSE l.phase
  BY HalfType
<1>3. o \in Plci /\ o.plci = k /\ Cell(o, n, l, b) /\ Alive(o)  BY CellSoft DEF Soft, Alive
<1>4. Cell(o, NoNcci, Half(l), a)  BY <1>1, <1>2, <1>3 DEF Cell, Alive
<1>5. Void(Half(l), a) <=> Void(l, b)  BY <1>2 DEF Void
<1>6. Owner(s.ctl[k], s.ind, s.req, NoNcci, Half(l), a, k)  BY <1>5 DEF Owner
<1>7. QED BY <1>1, <1>2, <1>3, <1>4, <1>6, PutFine

LEMMA B3ConfTies ==
    ASSUME NEW s0, NEW s, NEW m, Pops(s0, s, m), m.type = "CONNECT_B3_CONF",
           NEW t \in CONNECT_B3_CONF(s, m)
    PROVE  Fine(s, t)
<1> DEFINE k == m.plci
           event == IF m.ok THEN "CONNECT_B3_CONF_OK" ELSE "CONNECT_B3_CONF_ERROR"
<1>1. s \in State /\ m \in IndMsg  BY PopFields
<1>2. /\ m.ok => m \in Raise(k)
      /\ \A i : m \notin End(i) /\ m \notin Down(i) /\ m \notin Ans(i)
  BY <1>1 DEF Raise, End, Down, Ans, Of, IndMsg
<1>3. CASE find_ncci_by_msgid(s, k) = {}
  BY <1>2, <1>3, PopAll DEF CONNECT_B3_CONF
<1>4. ASSUME NEW c \in find_ncci_by_msgid(s, k),
             t = ncci_change_state([s EXCEPT !.nc[c].ncci = k], c, event)
      PROVE  Fine(s, t)
  <2> DEFINE p == s.pl[c]
             n == s.nc[c]
             l == s.ll[c]
             b == s.bchan[c]
             x == [n EXCEPT !.ncci = k]
  <2>1. /\ c \in Chans /\ s.pl[c].st # "NONE" /\ s.pl[c].plci = k
        /\ n.listed /\ n.st = "OUTGOING"
    BY DEF find_plci_by_plci, find_ncci_by_msgid
  <2>2. /\ k \in Plcis /\ Alive(p) /\ n \in Ncci /\ l \in Ll /\ b \in Bchan
        /\ TiesBut(s, c) /\ \A d \in Chans \ {c} : s.pl[d].plci # k
        /\ Cell(p, n, l, b) /\ \A o : Asks(o, s.ind, s.req, c)
        /\ Owner(s.ctl[k], s.ind, s.req, n, l, b, k)
    <3>1. m \notin End(k) /\ m \notin Down(k) /\ m.type # "CONNECT_CONF"  BY <1>2
    <3>2. Belongs(s0, s, m, c)  BY <2>1, <3>1, PopOwner
    <3>3. QED BY <2>1, <3>1, <3>2 DEF Belongs
  <2>3. s = Put(s, c, p, n, l, b, s.req) /\ k \in Nat /\ k # 0
    BY <1>1, <2>1, <2>2, PutSelf DEF Plcis
  <2>4. x \in Ncci /\ x.st = "OUTGOING" /\ x.listed /\ x.ncci = k
    BY <2>1, <2>2, <2>3 DEF Ncci
  <2>6. [s EXCEPT !.nc[c].ncci = k] = Put(s, c, p, x, l, b, s.req)
    <3>1. \A i : [s EXCEPT !.nc[c].ncci = i] =
                     Put(s, c, s.pl[c], [s.nc[c] EXCEPT !.ncci = i], s.ll[c], s.bchan[c], s.req)
      BY <1>1, <2>1, PutFlags
    <3>2. QED BY <3>1
  <2>7. t = ncci_change_state(Put(s, c, p, x, l, b, s.req), c, event)  BY <1>4, <2>6
  <2> HIDE DEF x
  <2>8. CASE m.ok
    <3> DEFINE y == [x EXCEPT !.st = "ALLOCATED"]
    <3>1. Listed(y, "ALLOCATED", k)
      <4>1. Listed(x, "OUTGOING", k)  BY <2>4 DEF Listed
      <4>2. QED BY <4>1, ListedStep DEF NcciStates
    <3>2. t = Put(s, c, p, y, l, b, s.req)
      <4>1. <<x.st, event, "ALLOCATED">> \in nccitable  BY <2>4, <2>8 DEF nccitable
      <4> HIDE DEF event
      <4>2. QED BY <1>1, <2>1, <2>7, <4>1, PutNcci
    <3>3. y \in Ncci /\ y.st = "ALLOCATED" /\ y.ncci = k /\ y.listed /\ Live(y)
      BY <3>1 DEF Listed, Live
    <3> HIDE DEF y
    <3>4. Cell(p, y, l, b)  BY <2>1, <2>2, <2>3, <3>3 DEF Cell
    <3>5. Owner(s.ctl[k], s.ind, s.req, y, l, b, k)  BY <1>2, <2>2, <2>8, Raised DEF Owner
    <3>6. p \in Plci /\ \A i \in Plcis : p.plci = i => i = k  BY <2>1, <2>2 DEF Alive
    <3>7. QED BY <1>1, <2>1, <2>2, <3>2, <3>3, <3>4, <3>5, <3>6, PutFine
  <2>9. CASE ~m.ok
    <3>1. t = n0(Put(s, c, p, x, l, b, s.req), c)
      <4>1. <<x.st, event, "NONE">> \in nccitable  BY <2>4, <2>9 DEF nccitable
      <4> HIDE DEF event
      <4>2. QED BY <1>1, <2>1, <2>7, <4>1, PutEnds
    <3>2. PICK o : Soft(p, o) /\
                   t = Put(s, c, o, NoNcci, Half(l), b,
                           Append(s.req, Message("DISCONNECT_REQ", p.plci)))
      BY <1>1, <2>1, <2>2, <3>1, Putn0
    <3>3. ~Live(n) /\ ~Live(NoNcci)  BY <2>1 DEF Live, NoNcci
    <3>4. Owner(s.ctl[k], s.ind, s.req, NoNcci, l, b, k)  BY <2>2, <3>3 DEF Owner
    <3>5. Fine(s, Put(s, c, o, NoNcci, Half(l), b, s.req))
      BY <1>1, <2>1, <2>2, <3>2, <3>4, GoneFine
    <3>6. o.plci = k  BY <2>1, <3>2 DEF Soft
    <3>7. QED BY <1>1, <2>1, <2>2, <3>2, <3>5, <3>6, PutSend DEF Own
  <2>10. QED BY <2>8, <2>9
<1>5. QED BY <1>3, <1>4 DEF CONNECT_B3_CONF

\* The channel whose NCCI it is.
LEMMA NcciLive ==
    ASSUME NEW s, NEW k \in Plcis, NEW c \in find_ncci(s, k), Cell(s.pl[c], s.nc[c], s.ll[c], s.bchan[c])
    PROVE  Live(s.nc[c])
<1>1. k # 0  BY DEF Plcis
<1>2. QED BY <1>1 DEF find_ncci, Cell

LEMMA OneOf ==
    ASSUME NEW a \in BOOLEAN, NEW d \in BOOLEAN, a \/ d, ~(a /\ d)
    PROVE  a # d
OBVIOUS

LEMMA B3ActiveTies ==
    ASSUME NEW s0, NEW s, NEW m, Pops(s0, s, m), m.type = "CONNECT_B3_ACTIVE_IND",
           NEW t \in CONNECT_B3_ACTIVE_IND(s, m.plci)
    PROVE  Fine(s, t)
<1> DEFINE k == m.plci
           event == "CONNECT_B3_ACTIVE_IND"
<1>1. /\ s \in State /\ m \in IndMsg /\ s0.ind \in Seq(IndMsg) /\ s0.ind # <<>> /\ m = Head(s0.ind)
  BY PopFields
<1>2. m \in Talk(k) /\ \A i : m \notin End(i) /\ m \notin Down(i) /\ m \notin Ans(i)
  BY <1>1 DEF Talk, End, Down, Ans, Of, IndMsg
<1>3. CASE find_ncci(s, k) = {}
  <2>1. Fine(s, s)  BY <1>2, PopAll
  <2>2. QED BY <1>3, <2>1 DEF CONNECT_B3_ACTIVE_IND
<1>4. ASSUME NEW c \in find_ncci(s, k), t = BCONN(ncci_change_state(s, c, event), c)
      PROVE  Fine(s, t)
  <2> DEFINE p == s.pl[c]
             n == s.nc[c]
             l == s.ll[c]
             b == s.bchan[c]
  <2>1. c \in Chans /\ s.pl[c].st # "NONE" /\ s.pl[c].plci = k
    BY DEF find_plci_by_plci, find_ncci
  <2>2. /\ k \in Plcis /\ Alive(p) /\ n \in Ncci /\ l \in Ll /\ b \in Bchan
        /\ TiesBut(s, c) /\ \A d \in Chans \ {c} : s.pl[d].plci # k
        /\ Cell(p, n, l, b) /\ \A o : Asks(o, s.ind, s.req, c)
        /\ Owner(s.ctl[k], s0.ind, s.req, n, l, b, k)
        /\ Owner(s.ctl[k], s.ind, s.req, n, l, b, k)
    <3>1. m \notin End(k) /\ m \notin Down(k) /\ m.type # "CONNECT_CONF"  BY <1>2
    <3>2. Belongs(s0, s, m, c)  BY <2>1, <3>1, PopOwner
    <3>3. QED BY <2>1, <3>1, <3>2 DEF Belongs
  <2>3. s = Put(s, c, p, n, l, b, s.req)  BY <1>1, <2>1, PutSelf
  <2>4. Live(n)  BY <2>2, NcciLive
  <2>5. \E x \in Ncci : /\ x.ncci = n.ncci /\ x.listed = n.listed /\ Live(x)
                        /\ ncci_change_state(s, c, event) = Put(s, c, p, x, l, b, s.req)
    <3>1. CASE n.st = "ALLOCATED"
      <4> DEFINE x == [n EXCEPT !.st = "ACTIVE"]
      <4>1. x \in Ncci /\ x.ncci = n.ncci /\ x.listed = n.listed /\ Live(x)
        BY <2>2 DEF Ncci, NcciStates, Live
      <4>2. <<n.st, event, "ACTIVE">> \in nccitable  BY <3>1 DEF nccitable
      <4>3. ncci_change_state(Put(s, c, p, n, l, b, s.req), c, event) = Put(s, c, p, x, l, b, s.req)
        BY <1>1, <2>1, <4>2, PutNcci
      <4> HIDE DEF x
      <4>4. QED BY <2>3, <4>1, <4>3
    <3>2. CASE n.st # "ALLOCATED"
      <4>1. \A to : <<s.nc[c].st, event, to>> \notin nccitable  BY <3>2 DEF nccitable
      <4>2. ncci_change_state(s, c, event) = s  BY <4>1, NcciStay
      <4>3. QED BY <2>2, <2>3, <2>4, <4>2
    <3>3. QED BY <3>1, <3>2
  <2>6. PICK x \in Ncci : /\ x.ncci = n.ncci /\ x.listed = n.listed /\ Live(x)
                          /\ ncci_change_state(s, c, event) = Put(s, c, p, x, l, b, s.req)
    BY <2>5
  <2>7. t = Put(s, c, p, x, Data(l), b, s.req)  BY <1>1, <1>4, <2>1, <2>6, PutTold
  <2>8. Data(l) \in Ll /\ Data(l).phase = "data" /\ Data(l).dialed = l.dialed
    BY <2>2 DEF Data, Ll, Phases
  <2>9. l.dialed # b.incoming /\ l.phase # "null"
    <3>1. Has(s0.ind, Talk(k))  BY <1>1, <1>2, Taken
    <3>2. ~Void(l, b)  BY <2>2, <3>1 DEF Owner, Silent
    <3>3. l.dialed \in BOOLEAN /\ b.incoming \in BOOLEAN  BY <2>2 DEF Ll, Bchan
    <3>4. l.phase # "null" /\ ~(l.dialed /\ b.incoming)  BY <3>2 DEF Void
    <3>5. l.dialed \/ b.incoming  BY <2>2, <3>4 DEF Cell
    <3> HIDE DEF l, b
    <3>6. QED BY <3>3, <3>4, <3>5, OneOf, Zenon
  <2>10. Cell(p, x, Data(l), b)
    <3>1. Data(l).dialed # b.incoming  BY <2>8, <2>9
    <3>2. /\ p.st \notin {"DISCONNECTED", "OUTGOING"} /\ p.plci \in Plcis \cup {0}
          /\ p.plci = 0 <=> p.st \in {"NONE", "OUTGOING"}
          /\ p.plci # 0 /\ x.ncci = p.plci /\ x.listed
      BY <2>2, <2>4, <2>6 DEF Cell, Alive
    <3>3. Data(l).dialed \/ b.incoming  BY <2>2, <2>8, <2>9 DEF Cell
    <3>4. QED BY <2>6, <2>8, <3>1, <3>2, <3>3 DEF Cell
  <2>11. ~Void(Data(l), b)  BY <2>8, <2>9 DEF Void
  <2>12. Owner(s.ctl[k], s.ind, s.req, x, Data(l), b, k)  BY <2>2, <2>4, <2>11 DEF Owner
  <2>13. p \in Plci /\ \A i \in Plcis : p.plci = i => i = k  BY <2>1, <2>2 DEF Alive
  <2>14. QED BY <1>1, <2>1, <2>2, <2>6, <2>7, <2>8, <2>10, <2>12, <2>13, PutFine
<1>5. QED BY <1>3, <1>4 DEF CONNECT_B3_ACTIVE_IND

\* A channel that is being disconnected is still one of an incoming call, or not.
LEMMA OffFlag ==
    ASSUME NEW b \in Bchan
    PROVE  /\ [b EXCEPT !.disconnecting = TRUE] \in Bchan
           /\ [b EXCEPT !.disconnecting = TRUE].incoming = b.incoming
  BY DEF Bchan

LEMMA B3DownTies ==
    ASSUME NEW s0, NEW s, NEW m, Pops(s0, s, m), m.type = "DISCONNECT_B3_IND",
           NEW t \in DISCONNECT_B3_IND(s, m.plci)
    PROVE  Fine(s, t)
<1> DEFINE k == m.plci
           r == Message("DISCONNECT_B3_RESP", k)
<1>1. /\ s \in State /\ m \in IndMsg /\ s0.ind \in Seq(IndMsg) /\ s0.ind # <<>> /\ m = Head(s0.ind)
      /\ s.ind = Tail(s0.ind)
  BY PopFields
<1>2. /\ m \in Down(k) /\ \A i : m \notin End(i) /\ m \notin Ans(i)
      /\ \A i : m \in Down(i) => i = k
  BY <1>1 DEF End, Down, Ans, Of, IndMsg
<1>3. CASE find_ncci(s, k) = {}
  <2>1. ASSUME NEW d \in Chans, Live(s.nc[d]) PROVE m \notin Down(s.pl[d].plci)
    <3>1. SUFFICES ASSUME s.pl[d].plci = k PROVE FALSE  BY <1>2
    <3>2. Cell(s.pl[d], s.nc[d], s.ll[d], s.bchan[d])
      BY PopFields DEF Pops, Ties, Tied
    <3>3. d \in find_ncci(s, k)
      BY <2>1, <3>1, <3>2 DEF find_ncci, find_plci_by_plci, Cell
    <3>4. QED BY <1>3, <3>3
  <2>2. QED BY <1>2, <1>3, <2>1, PopAll DEF DISCONNECT_B3_IND
<1>4. ASSUME NEW c \in find_ncci(s, k),
             t = ncci_change_state(
                     send_message(ncci_change_state([s EXCEPT !.bchan[c].disconnecting = TRUE],
                                                    c, "DISCONNECT_B3_IND"), r),
                     c, "DISCONNECT_B3_RESP")
      PROVE  Fine(s, t)
  <2> DEFINE p == s.pl[c]
             n == s.nc[c]
             l == s.ll[c]
             b == s.bchan[c]
             a == [b EXCEPT !.disconnecting = TRUE]
             x == [n EXCEPT !.st = "DISCONNECTED"]
             q == Append(s.req, r)
  <2>1. c \in Chans /\ s.pl[c].st # "NONE" /\ s.pl[c].plci = k
    BY DEF find_plci_by_plci, find_ncci
  <2>2. /\ k \in Plcis /\ Alive(p) /\ n \in Ncci /\ l \in Ll /\ b \in Bchan
        /\ TiesBut(s, c) /\ \A d \in Chans \ {c} : s.pl[d].plci # k
        /\ Cell(p, n, l, b) /\ \A o : Asks(o, s.ind, s.req, c)
        /\ Owner(s.ctl[k], s0.ind, s.req, n, l, b, k)
    <3>1. m.type # "CONNECT_CONF"  OBVIOUS
    <3>2. Belongs(s0, s, m, c)  BY <2>1, <3>1, PopOwner
    <3>3. QED BY <2>1, <3>1, <3>2 DEF Belongs
  <2>3. Live(n)  BY <2>2, NcciLive
  <2>4. [s EXCEPT !.bchan[c].disconnecting = TRUE] = Put(s, c, p, n, l, a, s.req)
    <3>1. \A i : [s EXCEPT !.bchan[c].disconnecting = i] =
                     Put(s, c, s.pl[c], s.nc[c], s.ll[c],
                         [s.bchan[c] EXCEPT !.disconnecting = i], s.req)
      BY <1>1, <2>1, PutFlags
    <3>2. QED BY <3>1
  <2>5. a \in Bchan /\ a.incoming = b.incoming  BY <2>2, OffFlag
  <2> HIDE DEF a
  <2>6. ncci_change_state(Put(s, c, p, n, l, a, s.req), c, "DISCONNECT_B3_IND") =
            Put(s, c, p, x, l, a, s.req)
    <3>1. <<n.st, "DISCONNECT_B3_IND", "DISCONNECTED">> \in nccitable
      BY <2>3 DEF nccitable, Live
    <3>2. QED BY <1>1, <2>1, <3>1, PutNcci
  <2>7. send_message(Put(s, c, p, x, l, a, s.req), r) = Put(s, c, p, x, l, a, q)
    BY <1>1, <2>1, PutOps
  <2>8. x.st = "DISCONNECTED"  BY <2>2 DEF Ncci
  <2> HIDE DEF x
  <2>9. ncci_change_state(Put(s, c, p, x, l, a, q), c, "DISCONNECT_B3_RESP") =
            n0(Put(s, c, p, x, l, a, q), c)
    <3>1. <<x.st, "DISCONNECT_B3_RESP", "NONE">> \in nccitable  BY <2>8 DEF nccitable
    <3>2. QED BY <1>1, <2>1, <3>1, PutEnds
  <2>10. PICK o : Soft(p, o) /\
                  n0(Put(s, c, p, x, l, a, q), c) =
                      Put(s, c, o, NoNcci, Half(l), a, Append(q, Message("DISCONNECT_REQ", p.plci)))
    BY <1>1, <2>1, <2>2, Putn0
  <2>11. t = Put(s, c, o, NoNcci, Half(l), a, Append(q, Message("DISCONNECT_REQ", k)))
    BY <1>4, <2>1, <2>4, <2>6, <2>7, <2>9, <2>10
  <2>12. ~Live(NoNcci)  BY DEF NoNcci, Live
  <2>13. Owner(s.ctl[k], s0.ind, s.req, NoNcci, l, b, k)  BY <2>2, <2>12 DEF Owner
  <2>14. Owner(s.ctl[k], s.ind, s.req, NoNcci, l, b, k)
    BY <1>1, <1>2, <2>12, <2>13, OwnerTaken
  <2>15. Fine(s, Put(s, c, o, NoNcci, Half(l), a, s.req))
    BY <1>1, <2>1, <2>2, <2>5, <2>10, <2>14, GoneFine
  <2>16. o.plci = k  BY <2>1, <2>10 DEF Soft
  <2>17. Fine(s, Put(s, c, o, NoNcci, Half(l), a, q))
    BY <1>1, <2>1, <2>2, <2>15, <2>16, PutSend DEF Own
  <2>18. Fine(s, Put(s, c, o, NoNcci, Half(l), a, Append(q, Message("DISCONNECT_REQ", k))))
    <3> HIDE DEF q
    <3>1. QED BY <1>1, <2>1, <2>2, <2>16, <2>17, PutSend DEF Own
  <2>19. QED BY <2>11, <2>18
<1>5. QED BY <1>3, <1>4 DEF DISCONNECT_B3_IND

\* An event of the PLCI of a channel.
LEMMA PutPlci ==
    ASSUME NEW s \in State, NEW c \in Chans, NEW p, NEW n, NEW l, NEW b, NEW r,
           NEW event, NEW to, to # "NONE", <<p.st, event, to>> \in plcitable
    PROVE  plci_change_state(Put(s, c, p, n, l, b, r), c, event) =
               Put(s, c, [p EXCEPT !.st = to], n, l, b, r)
<1> DEFINE t == Put(s, c, p, n, l, b, r)
<1>1. t.pl[c] = p  BY PutFields
<1>2. \A o : [t EXCEPT !.pl[c].st = o] = Put(s, c, [p EXCEPT !.st = o], n, l, b, r)
  BY PutPaths
<1>3. plci_change_state(t, c, event) = [t EXCEPT !.pl[c].st = to]  BY <1>1, PlciStep
<1> HIDE DEF t
<1>4. QED BY <1>2, <1>3 DEF t

LEMMA PlciEnds ==
    ASSUME NEW s \in State, NEW c \in Chans, NEW p, NEW n, NEW l, NEW b, NEW r,
           NEW event, <<p.st, event, "NONE">> \in plcitable
    PROVE  plci_change_state(Put(s, c, p, n, l, b, r), c, event) =
               Put(s, c, NoPlci, [n EXCEPT !.listed = FALSE], NoCall, Clean, r)
<1> DEFINE t == Put(s, c, p, n, l, b, r)
<1>1. t.pl[c] = p  BY PutFields
<1>2. p0(t, c) = Put(s, c, NoPlci, [n EXCEPT !.listed = FALSE], NoCall, Clean, r)  BY Putp0
<1>3. plci_change_state(t, c, event) = p0(t, c)  BY <1>1, PlciStep
<1> HIDE DEF t
<1>4. QED BY <1>2, <1>3 DEF t

\* A channel without a PLCI.
LEMMA FreeFine ==
    ASSUME NEW s \in State, NEW c \in Chans, TiesBut(s, c), NEW n \in Ncci, ~Live(n),
           n.st \in {"NONE", "OUTGOING"}, n.ncci = 0, Asks(NoPlci, s.ind, s.req, c),
           s.ll[c].phase # "data"
    PROVE  Fine(s, Put(s, c, NoPlci, [n EXCEPT !.listed = FALSE], NoCall, Clean, s.req))
<1> DEFINE x == [n EXCEPT !.listed = FALSE]
<1>1. x \in Ncci /\ x.st = n.st /\ x.ncci = 0 /\ ~Live(x)  BY DEF Ncci, Live
<1> HIDE DEF x
<1>2. NoPlci \in Plci /\ NoPlci.st = "NONE" /\ NoPlci.plci = 0
  BY DEF NoPlci, Plci, PlciStates
<1>3. NoCall \in Ll /\ NoCall.phase = "null" /\ ~NoCall.dialed /\ Clean \in Bchan
  BY DEF NoCall, Ll, Phases, Clean, Bchan
<1>4. Cell(NoPlci, x, NoCall, Clean)  BY <1>1, <1>2, <1>3 DEF Cell
<1>5. \A k \in Plcis : NoPlci.plci # k  BY <1>2 DEF Plcis
<1>6. Fine(s, Put(s, c, NoPlci, x, NoCall, Clean, s.req))
  BY <1>1, <1>2, <1>3, <1>4, <1>5, PutFine
<1>7. QED BY <1>6 DEF x

LEMMA DownTies ==
    ASSUME NEW s0, NEW s, NEW m, Pops(s0, s, m), m.type = "DISCONNECT_IND",
           NEW t \in DISCONNECT_IND(s, m.plci)
    PROVE  Fine(s, t)
<1> DEFINE k == m.plci
           r == Message("DISCONNECT_RESP", k)
<1>1. /\ s \in State /\ m \in IndMsg /\ s0.ind \in Seq(IndMsg) /\ s0.ind # <<>> /\ m = Head(s0.ind)
      /\ s.ind = Tail(s0.ind) /\ s.ctl = s0.ctl /\ s.req = s0.req
  BY PopFields
<1>2. /\ m \in End(k) /\ \A i : m \notin Down(i) /\ m \notin Ans(i)
      /\ \A i : m \in End(i) => i = k
  BY <1>1 DEF End, Down, Ans, Of, IndMsg
<1>3. k \in Plcis /\ k # 0  BY <1>1 DEF IndMsg, Plcis
<1>4. CASE find_plci_by_plci(s, k) = {}
  <2>1. t = send_message(s, r)  BY <1>4 DEF DISCONNECT_IND
  <2>2. ASSUME NEW d \in Chans PROVE m \notin End(s.pl[d].plci)
    <3>1. SUFFICES ASSUME s.pl[d].plci = k PROVE FALSE  BY <1>2
    <3>2. Cell(s.pl[d], s.nc[d], s.ll[d], s.bchan[d])
      BY PopFields DEF Pops, Ties, Tied
    <3>3. d \in find_plci_by_plci(s, k)  BY <1>3, <3>1, <3>2 DEF find_plci_by_plci, Cell
    <3>4. QED BY <1>4, <3>3
  <2>3. Fine(s, s)  BY <1>2, <2>2, PopAll
  <2>4. m \in Real(k)  BY <1>2, Parts
  <2>5. QED BY <1>2, <2>1, <2>3, <2>4, PopSend
<1>5. ASSUME NEW c \in find_plci_by_plci(s, k),
             t = plci_change_state(
                     Answer(plci_change_state([s EXCEPT !.bchan[c].disconnecting = TRUE],
                                              c, "DISCONNECT_IND"), c),
                     c, "DISCONNECT_RESP")
      PROVE  Fine(s, t)
  <2> DEFINE p == s.pl[c]
             n == s.nc[c]
             l == s.ll[c]
             b == s.bchan[c]
             a == [b EXCEPT !.disconnecting = TRUE]
             o == [p EXCEPT !.st = "DISCONNECTED"]
             q == Append(s.req, r)
             e == [n EXCEPT !.listed = FALSE]
  <2>1. c \in Chans /\ s.pl[c].st # "NONE" /\ s.pl[c].plci = k  BY DEF find_plci_by_plci
  <2>2. /\ Alive(p) /\ n \in Ncci /\ l \in Ll /\ b \in Bchan
        /\ TiesBut(s, c) /\ \A d \in Chans \ {c} : s.pl[d].plci # k
        /\ Cell(p, n, l, b) /\ \A i : Asks(i, s.ind, s.req, c)
        /\ Owner(s.ctl[k], s0.ind, s.req, n, l, b, k)
        /\ Line(s.ctl[k], s0.ind, s.req, k)
    <3>1. m.type # "CONNECT_CONF"  OBVIOUS
    <3>2. Belongs(s0, s, m, c)  BY <2>1, <3>1, PopOwner
    <3>3. QED BY <2>1, <3>1, <3>2 DEF Belongs
  <2>3. [s EXCEPT !.bchan[c].disconnecting = TRUE] = Put(s, c, p, n, l, a, s.req)
    <3>1. \A i : [s EXCEPT !.bchan[c].disconnecting = i] =
                     Put(s, c, s.pl[c], s.nc[c], s.ll[c],
                         [s.bchan[c] EXCEPT !.disconnecting = i], s.req)
      BY <1>1, <2>1, PutFlags
    <3>2. QED BY <3>1
  <2> HIDE DEF a
  <2>4. plci_change_state(Put(s, c, p, n, l, a, s.req), c, "DISCONNECT_IND") =
            Put(s, c, o, n, l, a, s.req)
    <3>1. <<p.st, "DISCONNECT_IND", "DISCONNECTED">> \in plcitable
      BY <2>2 DEF plcitable, Alive
    <3>2. QED BY <1>1, <2>1, <3>1, PutPlci
  <2>5. o.st = "DISCONNECTED" /\ o.plci = k  BY <2>1, <2>2 DEF Alive, Plci
  <2> HIDE DEF o
  <2>6. Answer(Put(s, c, o, n, l, a, s.req), c) = Put(s, c, o, n, l, a, q)
    <3>1. Put(s, c, o, n, l, a, s.req).pl[c] = o  BY <1>1, <2>1, PutFields
    <3>2. send_message(Put(s, c, o, n, l, a, s.req), r) = Put(s, c, o, n, l, a, q)
      BY <1>1, <2>1, PutOps
    <3>3. QED BY <2>5, <3>1, <3>2 DEF Answer
  <2>7. plci_change_state(Put(s, c, o, n, l, a, q), c, "DISCONNECT_RESP") =
            Put(s, c, NoPlci, e, NoCall, Clean, q)
    <3>1. <<o.st, "DISCONNECT_RESP", "NONE">> \in plcitable  BY <2>5 DEF plcitable
    <3> HIDE DEF q
    <3>2. QED BY <1>1, <2>1, <3>1, PlciEnds
  <2>8. t = Put(s, c, NoPlci, e, NoCall, Clean, q)  BY <1>5, <2>3, <2>4, <2>6, <2>7
  <2>9. m \in Real(k)  BY <1>2, Parts
  <2>10. /\ May(s.ctl[k], s.ind, s.req, k) /\ s.ctl[k].st = "disc"
         /\ ~Has(s.ind, End(k))
    BY <1>2, <1>3, <2>9, PopMay
  <2>11. ~Live(n)
    <3>1. ~Open(s.ctl[k])  BY <2>2, <2>10 DEF Line
    <3>2. ~Has(s.ind, Real(k))
      <4>1. NoneAfter(s0.ind, End(k), Real(k)) /\ Head(s0.ind) \in End(k)
        BY <1>1, <1>2, <2>2 DEF Line
      <4>2. QED BY <1>1, <4>1, NoneLeft
    <3>3. ~Has(s.ind, Down(k))
      <4>1. Down(k) \subseteq Real(k)  BY Parts
      <4>2. QED BY <3>2, <4>1, Wider
    <3>4. ~Has(s0.ind, Down(k))  BY <1>1, <1>2, <3>3, NotYet
    <3>5. QED BY <2>2, <3>1, <3>4 DEF Owner
  <2>12. n.st \in {"NONE", "OUTGOING"} /\ n.ncci = 0 /\ l.phase # "data"
    BY <2>2, <2>11 DEF Cell
  <2> DEFINE u == Put(s, c, NoPlci, e, NoCall, Clean, s.req)
  <2>13. Fine(s, u)  BY <1>1, <2>1, <2>2, <2>11, <2>12, FreeFine
  <2>14. t = send_message(u, r)  BY <1>1, <2>1, <2>8, PutOps
  <2>15. u.ctl = s.ctl /\ u.ind = s.ind /\ u.req = s.req  BY <1>1, <2>1, PutFields
  <2>16. /\ r \in ReqMsg /\ r.type = "DISCONNECT_RESP" /\ r.plci = k
    BY <1>3, OwnMsg DEF ReqTypes
  <2> HIDE DEF u, r
  <2>17. /\ \A i \in Plcis : r \in To(i) => i = k
         /\ \A i \in Plcis : r \in Resp(i) => i = k
         /\ \A i : r \notin Accepts(i)
    BY <2>16 DEF To, Resp, Accepts
  <2>18. QED BY <2>10, <2>13, <2>14, <2>15, <2>16, <2>17, SendFine
<1>6. QED BY <1>4, <1>5 DEF DISCONNECT_IND

LEMMA DownConfTies ==
    ASSUME NEW s0, NEW s, NEW m, Pops(s0, s, m), m.type = "DISCONNECT_CONF",
           NEW t \in DISCONNECT_CONF(s, m.plci)
    PROVE  Fine(s, t)
<1> DEFINE k == m.plci
<1>1. s \in State /\ m \in IndMsg  BY PopFields
<1>2. \A i : m \notin End(i) /\ m \notin Down(i) /\ m \notin Ans(i)
  BY <1>1 DEF End, Down, Ans, Of, IndMsg
<1>3. CASE find_plci_by_plci(s, k) = {}
  BY <1>2, <1>3, PopAll DEF DISCONNECT_CONF
<1>4. ASSUME NEW c \in find_plci_by_plci(s, k), t = [s EXCEPT !.bchan[c].disconnecting = TRUE]
      PROVE  Fine(s, t)
  <2> DEFINE p == s.pl[c]
             n == s.nc[c]
             l == s.ll[c]
             b == s.bchan[c]
             a == [b EXCEPT !.disconnecting = TRUE]
  <2>1. c \in Chans /\ s.pl[c].st # "NONE" /\ s.pl[c].plci = k  BY DEF find_plci_by_plci
  <2>2. /\ k \in Plcis /\ Alive(p) /\ n \in Ncci /\ l \in Ll /\ b \in Bchan
        /\ TiesBut(s, c) /\ \A d \in Chans \ {c} : s.pl[d].plci # k
        /\ Cell(p, n, l, b) /\ \A i : Asks(i, s.ind, s.req, c)
        /\ Owner(s.ctl[k], s.ind, s.req, n, l, b, k)
    <3>1. m \notin End(k) /\ m \notin Down(k) /\ m.type # "CONNECT_CONF"  BY <1>2
    <3>2. Belongs(s0, s, m, c)  BY <2>1, <3>1, PopOwner
    <3>3. QED BY <2>1, <3>1, <3>2 DEF Belongs
  <2>3. t = Put(s, c, p, n, l, a, s.req)
    <3>1. \A i : [s EXCEPT !.bchan[c].disconnecting = i] =
                     Put(s, c, s.pl[c], s.nc[c], s.ll[c],
                         [s.bchan[c] EXCEPT !.disconnecting = i], s.req)
      BY <1>1, <2>1, PutFlags
    <3>2. QED BY <1>4, <3>1
  <2>4. a \in Bchan /\ a.incoming = b.incoming  BY <2>2, OffFlag
  <2> HIDE DEF a
  <2>5. Cell(p, n, l, a)  BY <2>2, <2>4 DEF Cell
  <2>6. Owner(s.ctl[k], s.ind, s.req, n, l, a, k)  BY <2>2, <2>4 DEF Owner, Void
  <2>7. p \in Plci /\ \A i \in Plcis : p.plci = i => i = k  BY <2>1, <2>2 DEF Alive
  <2>8. QED BY <1>1, <2>1, <2>2, <2>3, <2>4, <2>5, <2>6, <2>7, PutFine
<1>5. QED BY <1>3, <1>4 DEF DISCONNECT_CONF

\* A PLCI that is announced belongs to nobody yet.
LEMMA Born ==
    ASSUME NEW s0, NEW s, NEW m, Pops(s0, s, m), NEW k \in Plcis, m \in Birth(k)
    PROVE  /\ \A d \in Chans : s.pl[d].plci # k
           /\ s.ctl[k].st # "idle" /\ ~Has(s.ind, Birth(k))
           /\ s.ctl[k].st = "disc" => Has(s.ind, End(k))
           /\ m \in Rings(k) => Silent(s.ctl[k], s.ind, s.req, k)
<1>1. /\ s.ind = Tail(s0.ind) /\ s.req = s0.req /\ s.ctl = s0.ctl /\ s0.ind \in Seq(IndMsg)
      /\ s0.ind # <<>> /\ m = Head(s0.ind) /\ s.pl = s0.pl
  BY PopFields
<1>2. Line(s0.ctl[k], s0.ind, s0.req, k) /\ \A d \in Chans : Tied(s0, d)
  BY DEF Pops, Ties, Lines
<1>3. m \in Real(k)  BY Parts
<1>4. m \notin End(k)  BY DEF Birth, End, Of
<1>5. /\ May(s.ctl[k], s.ind, s.req, k)
      /\ s.ctl[k].st = "disc" => Has(s.ind, End(k))
  BY <1>1, <1>2, <1>3, <1>4, HeadMay
<1>6. Has(s0.ind, Birth(k))  BY <1>1, Taken
<1>7. \A d \in Chans : s.pl[d].plci # k  BY <1>1, <1>2, <1>6 DEF Tied, Owner
<1>8. ASSUME m \in Rings(k) PROVE Silent(s.ctl[k], s.ind, s.req, k)
  <2>1. Has(s0.ind, Rings(k))  BY <1>1, <1>8, Taken
  <2>2. Silent(s0.ctl[k], s0.ind, s0.req, k)  BY <1>2, <2>1 DEF Line
  <2>3. Has(s.ind, Talk(k)) => Has(s0.ind, Talk(k))  BY <1>1, Taken
  <2>4. QED BY <1>1, <2>2, <2>3 DEF Silent
<1>9. QED BY <1>5, <1>7, <1>8 DEF May

LEMMA ConfTies ==
    ASSUME NEW s0, NEW s, NEW m, Pops(s0, s, m), m.type = "CONNECT_CONF",
           NEW t \in CONNECT_CONF(s, m)
    PROVE  Fine(s, t)
<1> DEFINE k == m.plci
           c == m.id
           p == s.pl[c]
           n == s.nc[c]
           l == s.ll[c]
           b == s.bchan[c]
           o == [p EXCEPT !.plci = k]
           event == IF m.ok THEN "CONNECT_CONF_OK" ELSE "CONNECT_CONF_ERROR"
<1>1. /\ s \in State /\ m \in IndMsg /\ s0.ind \in Seq(IndMsg) /\ s0.ind # <<>> /\ m = Head(s0.ind)
      /\ s.ind = Tail(s0.ind) /\ s.req = s0.req
      /\ s.pl = s0.pl /\ s.nc = s0.nc /\ s.ll = s0.ll /\ s.bchan = s0.bchan
  BY PopFields
<1>2. /\ c \in Chans /\ m \in Ans(c) /\ \A d : m \in Ans(d) => d = c
      /\ \A i : m \notin End(i) /\ m \notin Down(i)
      /\ k \in Nat /\ (m.ok => k \in Plcis /\ m \in Birth(k))
  BY <1>1 DEF End, Down, Birth, Ans, Of, IndMsg, Ind
<1> HIDE DEF c
<1>3. TiesBut(s, c)  BY <1>2, PopBut
<1>4. p \in Plci /\ n \in Ncci /\ l \in Ll /\ b \in Bchan  BY <1>1, <1>2 DEF State
<1>5. Cell(p, n, l, b) /\ Asks(p, s0.ind, s0.req, c)
  BY <1>1, <1>2 DEF Pops, Ties, Tied
<1>6. p.st = "OUTGOING" /\ \A i : Asks(i, s.ind, s.req, c)
  BY <1>1, <1>2, <1>5, AsksTaken
<1>7. p.plci = 0 /\ ~Live(n) /\ n.st \in {"NONE", "OUTGOING"} /\ n.ncci = 0 /\ l.phase # "data"
      /\ l.phase # "null" /\ ~b.incoming
  BY <1>5, <1>6 DEF Cell
<1>8. [s EXCEPT !.pl[c].plci = k] = Put(s, c, o, n, l, b, s.req)
  <2>1. \A i : [s EXCEPT !.pl[c].plci = i] =
                   Put(s, c, [s.pl[c] EXCEPT !.plci = i], s.nc[c], s.ll[c], s.bchan[c], s.req)
    BY <1>1, <1>2, PutFlags
  <2>2. QED BY <2>1
<1>9. t = plci_change_state(Put(s, c, o, n, l, b, s.req), c, event)
  BY <1>8 DEF CONNECT_CONF, c
<1>10. o \in Plci /\ o.st = "OUTGOING" /\ o.plci = k  BY <1>2, <1>4, <1>6 DEF Plci
<1> HIDE DEF o
<1>11. CASE m.ok
  <2> DEFINE x == [o EXCEPT !.st = "ALLOCATED"]
  <2>1. <<o.st, event, "ALLOCATED">> \in plcitable  BY <1>10, <1>11 DEF plcitable
  <2> HIDE DEF event
  <2>2. t = Put(s, c, x, n, l, b, s.req)  BY <1>1, <1>2, <1>9, <2>1, PutPlci
  <2>3. x \in Plci /\ x.st = "ALLOCATED" /\ x.plci = k  BY <1>10 DEF Plci, PlciStates
  <2> HIDE DEF x
  <2>4. k \in Plcis /\ k # 0 /\ \A i \in Plcis : x.plci = i => i = k
    BY <1>2, <1>11, <2>3 DEF Plcis
  <2>5. Cell(x, n, l, b)  BY <1>5, <1>7, <2>3, <2>4 DEF Cell
  <2>6. /\ \A d \in Chans : s.pl[d].plci # k
        /\ s.ctl[k].st # "idle" /\ ~Has(s.ind, Birth(k))
        /\ s.ctl[k].st = "disc" => Has(s.ind, End(k))
    BY <1>2, <1>11, <2>4, Born
  <2>7. Owner(s.ctl[k], s.ind, s.req, n, l, b, k)  BY <1>7, <2>6 DEF Owner, Void
  <2>8. QED BY <1>1, <1>2, <1>3, <1>4, <1>6, <1>7, <2>2, <2>3, <2>4, <2>5, <2>6, <2>7, PutFine
<1>12. CASE ~m.ok
  <2> DEFINE e == [n EXCEPT !.listed = FALSE]
  <2>1. <<o.st, event, "NONE">> \in plcitable  BY <1>10, <1>12 DEF plcitable
  <2> HIDE DEF event
  <2>2. t = Put(s, c, NoPlci, e, NoCall, Clean, s.req)  BY <1>1, <1>2, <1>9, <2>1, PlciEnds
  <2>3. QED BY <1>1, <1>2, <1>3, <1>4, <1>6, <1>7, <2>2, FreeFine
<1>13. QED BY <1>11, <1>12

-----------------------------------------------------------------------------
(* A call is hung up *)

LEMMA PutDeaf ==
    ASSUME NEW s \in State, NEW c \in Chans, NEW p, NEW n, NEW l, NEW b, NEW r
    PROVE  /\ \A o : [Put(s, c, p, n, l, b, r) EXCEPT !.ll[c].deaf = o] =
                         Put(s, c, p, n, [l EXCEPT !.deaf = o], b, r)
           /\ \A o : [Put(s, c, p, n, l, b, r) EXCEPT !.ll[c].hung = o] =
                         Put(s, c, p, n, [l EXCEPT !.hung = o], b, r)
           /\ \A o : [Put(s, c, p, n, l, b, r) EXCEPT !.bchan[c].disconnecting = o] =
                         Put(s, c, p, n, l, [b EXCEPT !.disconnecting = o], r)
<1> DEFINE t == Put(s, c, p, n, l, b, r)
<1>1. t.ll[c] = l /\ t.bchan[c] = b  BY PutFields
<1>2. /\ \A o : [t EXCEPT !.ll[c] = o] = Put(s, c, p, n, o, b, r)
      /\ \A o : [t EXCEPT !.bchan[c] = o] = Put(s, c, p, n, l, o, r)
  BY PutOps
<1>3. /\ \A o : [t EXCEPT !.ll[c].deaf = o] = [t EXCEPT !.ll[c] = [t.ll[c] EXCEPT !.deaf = o]]
      /\ \A o : [t EXCEPT !.ll[c].hung = o] = [t EXCEPT !.ll[c] = [t.ll[c] EXCEPT !.hung = o]]
      /\ \A o : [t EXCEPT !.bchan[c].disconnecting = o] =
                    [t EXCEPT !.bchan[c] = [t.bchan[c] EXCEPT !.disconnecting = o]]
  OBVIOUS
<1> HIDE DEF t
<1>4. QED BY <1>1, <1>2, <1>3 DEF t

\* The same call for the link level, but for hung and deaf.
Like(f, l) == f \in Ll /\ f.phase = l.phase /\ f.dialed = l.dialed

LEMMA DeafLike ==
    ASSUME NEW l \in Ll
    PROVE  Like(l, l) /\ Like([l EXCEPT !.deaf = TRUE], l) /\ Like([l EXCEPT !.hung = TRUE], l)
  BY DEF Like, Ll

\* What is asked of the controller.
Hung(p, n, r, q) ==
    \/ q = r \/ q = Append(r, Message("DISCONNECT_B3_REQ", n.ncci))
    \/ p.plci # 0 /\ q = Append(r, Message("DISCONNECT_REQ", p.plci))

\* What becomes of the PLCI and of the NCCI.
Ending(p, n, o, x) ==
    /\ o = p \/ (Alive(p) /\ Soft(p, o))
    /\ x = n \/ (Live(n) /\ Listed(x, "DISCONNECTING", n.ncci))

LEMMA PutHangup ==
    ASSUME NEW s \in State, NEW c \in Chans, NEW p \in Plci, NEW n \in Ncci, NEW l \in Ll,
           NEW b \in Bchan, NEW r, Cell(p, n, l, b)
    PROVE  \E o, x, f, a, q :
               /\ hangup(Put(s, c, p, n, l, b, r), c) = Put(s, c, o, x, f, a, q)
               /\ Ending(p, n, o, x) /\ Hung(p, n, r, q)
               /\ Like(f, l) /\ a \in Bchan /\ a.incoming = b.incoming
<1> DEFINE t == Put(s, c, p, n, l, b, r)
           a == [b EXCEPT !.disconnecting = TRUE]
           f == [l EXCEPT !.deaf = TRUE]
           off == Put(s, c, p, n, l, a, r)
           deaf == Put(s, c, p, n, f, a, r)
           dumb == Put(s, c, p, n, f, b, r)
           b3 == IF n.ncci = 0 THEN deaf ELSE off
           event == "DISCONNECT_B3_REQ"
<1>1. t.pl[c] = p /\ t.nc[c] = n /\ t.bchan[c] = b  BY PutFields
<1>2. [t EXCEPT !.bchan[c].disconnecting = TRUE] = off
  <2>1. \A i : [t EXCEPT !.bchan[c].disconnecting = i] =
                   Put(s, c, p, n, l, [b EXCEPT !.disconnecting = i], r)
    BY PutDeaf
  <2>2. QED BY <2>1
<1>3. [off EXCEPT !.ll[c].deaf = TRUE] = deaf
  <2> HIDE DEF a
  <2>1. \A i : [off EXCEPT !.ll[c].deaf = i] = Put(s, c, p, n, [l EXCEPT !.deaf = i], a, r)
    BY PutDeaf
  <2>2. QED BY <2>1
<1>4. [t EXCEPT !.ll[c].deaf = TRUE] = dumb
  <2>1. \A i : [t EXCEPT !.ll[c].deaf = i] = Put(s, c, p, n, [l EXCEPT !.deaf = i], b, r)
    BY PutDeaf
  <2>2. QED BY <2>1
<1>5. /\ Like(l, l) /\ Like(f, l) /\ a \in Bchan /\ a.incoming = b.incoming
      /\ Ending(p, n, p, n) /\ Hung(p, n, r, r)
  BY DeafLike, OffFlag DEF Ending, Hung
<1> HIDE DEF a, f
<1>6. hangup(t, c) =
          IF b.disconnecting THEN t
          ELSE IF n.st # "NONE"
          THEN send_message(ncci_change_state(b3, c, event), Message(event, n.ncci))
          ELSE IF p.st = "INCOMING" THEN deaf
          ELSE IF p.plci # 0
          THEN send_message(plci_change_state(off, c, "DISCONNECT_REQ"),
                            Message("DISCONNECT_REQ", p.plci))
          ELSE dumb
  <2> DEFINE e0 == [t EXCEPT !.bchan[c].disconnecting = TRUE]
             e1 == [e0 EXCEPT !.ll[c].deaf = TRUE]
             e2 == [t EXCEPT !.ll[c].deaf = TRUE]
  <2> HIDE DEF t, off, deaf, dumb
  <2>1. hangup(t, c) =
            IF t.bchan[c].disconnecting THEN t
            ELSE IF t.nc[c].st # "NONE"
            THEN send_message(ncci_change_state(IF t.nc[c].ncci = 0 THEN e1 ELSE e0, c, event),
                              Message(event, t.nc[c].ncci))
            ELSE IF t.pl[c].st = "INCOMING" THEN e1
            ELSE IF t.pl[c].plci # 0
            THEN send_message(plci_change_state(e0, c, "DISCONNECT_REQ"),
                              Message("DISCONNECT_REQ", t.pl[c].plci))
            ELSE e2
    BY Zenon DEF hangup
  <2>2. e0 = off /\ e2 = dumb  BY <1>2, <1>4
  <2> HIDE DEF e0
  <2>3. e1 = deaf  BY <1>3, <2>2
  <2> HIDE DEF e1, e2
  <2>4. QED BY <1>1, <2>1, <2>2, <2>3
<1>7. CASE n.st # "NONE" /\ ~b.disconnecting
  <2>1. PICK g : Like(g, l) /\ b3 = Put(s, c, p, n, g, a, r)  BY <1>5
  <2>2. \E x : /\ x = n \/ (Live(n) /\ Listed(x, "DISCONNECTING", n.ncci))
               /\ ncci_change_state(b3, c, event) = Put(s, c, p, x, g, a, r)
    <3>1. CASE n.st \in {"ALLOCATED", "ACTIVE"}
      <4> DEFINE x == [n EXCEPT !.st = "DISCONNECTING"]
      <4>1. Live(n) /\ Listed(n, n.st, n.ncci)  BY <3>1 DEF Live, Cell, Listed
      <4>2. Listed(x, "DISCONNECTING", n.ncci)  BY <4>1, ListedStep DEF NcciStates
      <4>3. <<n.st, event, "DISCONNECTING">> \in nccitable  BY <3>1 DEF nccitable
      <4>4. ncci_change_state(Put(s, c, p, n, g, a, r), c, event) = Put(s, c, p, x, g, a, r)
        BY <4>3, PutNcci
      <4> HIDE DEF x, b3
      <4>5. QED BY <2>1, <4>1, <4>2, <4>4
    <3>2. CASE n.st \notin {"ALLOCATED", "ACTIVE"}
      <4>1. n.st \in {"OUTGOING", "DISCONNECTING"}  BY <1>7, <3>2 DEF Cell, Live
      <4>2. \A to : <<n.st, event, to>> \notin nccitable  BY <4>1 DEF nccitable
      <4> DEFINE u == Put(s, c, p, n, g, a, r)
      <4>3. u.nc[c] = n  BY PutFields
      <4> HIDE DEF u
      <4>4. ncci_change_state(u, c, event) = u  BY <4>2, <4>3, NcciStay
      <4> HIDE DEF b3
      <4>5. QED BY <2>1, <4>4 DEF u
    <3>3. QED BY <3>1, <3>2
  <2>3. PICK x : /\ x = n \/ (Live(n) /\ Listed(x, "DISCONNECTING", n.ncci))
                 /\ ncci_change_state(b3, c, event) = Put(s, c, p, x, g, a, r)
    BY <2>2
  <2> DEFINE q == Append(r, Message(event, n.ncci))
  <2>4. send_message(Put(s, c, p, x, g, a, r), Message(event, n.ncci)) = Put(s, c, p, x, g, a, q)
    BY PutOps
  <2>5. hangup(t, c) = Put(s, c, p, x, g, a, q)
    <3> HIDE DEF t, b3, deaf, off, dumb
    <3>1. QED BY <1>6, <1>7, <2>3, <2>4
  <2>6. Ending(p, n, p, x) /\ Hung(p, n, r, q)  BY <2>3 DEF Ending, Hung
  <2>7. QED BY <1>5, <2>1, <2>5, <2>6
<1>8. CASE n.st = "NONE" /\ ~b.disconnecting /\ p.st # "INCOMING" /\ p.plci # 0
  <2>1. Alive(p)  BY <1>8 DEF Cell, Alive, Plci, PlciStates
  <2>2. PICK o : Soft(p, o) /\ plci_change_state(off, c, "DISCONNECT_REQ") =
                                   Put(s, c, o, n, l, a, r)
    BY <2>1, PlciSoft
  <2> DEFINE q == Append(r, Message("DISCONNECT_REQ", p.plci))
  <2>3. send_message(Put(s, c, o, n, l, a, r), Message("DISCONNECT_REQ", p.plci)) =
            Put(s, c, o, n, l, a, q)
    BY PutOps
  <2>4. hangup(t, c) = Put(s, c, o, n, l, a, q)
    <3> HIDE DEF t, b3, deaf, off, dumb
    <3>1. QED BY <1>6, <1>8, <2>2, <2>3
  <2>5. Ending(p, n, o, n) /\ Hung(p, n, r, q)  BY <1>8, <2>1, <2>2 DEF Ending, Hung
  <2>6. QED BY <1>5, <2>4, <2>5
<1>9. CASE b.disconnecting
  <2>1. hangup(t, c) = t  BY <1>6, <1>9
  <2>2. QED BY <1>5, <2>1
<1>10. CASE n.st = "NONE" /\ ~b.disconnecting /\ p.st = "INCOMING"
  <2>1. hangup(t, c) = deaf  BY <1>6, <1>10
  <2>2. QED BY <1>5, <2>1
<1>11. CASE n.st = "NONE" /\ ~b.disconnecting /\ p.st # "INCOMING" /\ p.plci = 0
  <2>1. hangup(t, c) = dumb  BY <1>6, <1>11
  <2>2. QED BY <1>5, <2>1
<1>12. QED BY <1>7, <1>8, <1>9, <1>10, <1>11

\* What is sent about no PLCI.
LEMMA SendNone ==
    ASSUME NEW s, NEW t, Fine(s, t)
    PROVE  Fine(s, send_message(t, Message("DISCONNECT_B3_REQ", 0)))
<1> DEFINE m == Message("DISCONNECT_B3_REQ", 0)
<1>1. m \in Req /\ m.type = "DISCONNECT_B3_REQ" /\ m.plci = 0
  BY DEF Message, Req, ReqTypes
<1> HIDE DEF m
<1>2. m \in ReqMsg  BY <1>1 DEF ReqMsg
<1>3. \A k \in Plcis : m \notin To(k) /\ m \notin Resp(k)  BY <1>1 DEF To, Resp, Plcis
<1>4. \A k : m \notin Accepts(k)  BY <1>1 DEF Accepts
<1>5. QED BY <1>1, <1>2, <1>3, <1>4, SendFine DEF m

\* A channel in order, without what is sent.
InOrder(s, c, p, n, l, b) ==
    /\ TiesBut(s, c) /\ p \in Plci /\ n \in Ncci /\ l \in Ll /\ b \in Bchan
    /\ Cell(p, n, l, b) /\ Asks(p, s.ind, s.req, c)
    /\ \A k \in Plcis : p.plci = k =>
           /\ Owner(s.ctl[k], s.ind, s.req, n, l, b, k)
           /\ \A d \in Chans \ {c} : s.pl[d].plci # k
    /\ s.ll[c].phase = "data" => l.phase \in {"data", "half"}

LEMMA HangFine ==
    ASSUME NEW s \in State, NEW c \in Chans, NEW p, NEW n, NEW l, NEW b,
           InOrder(s, c, p, n, l, b),
           NEW o, NEW x, NEW a \in Bchan, NEW q, Ending(p, n, o, x), Hung(p, n, s.req, q),
           a.incoming = b.incoming, NEW g, Like(g, l),
           NEW e, e = o \/ (Alive(o) /\ Soft(o, e))
    PROVE  Fine(s, Put(s, c, e, x, g, a, q))
<1>1. /\ TiesBut(s, c) /\ p \in Plci /\ n \in Ncci /\ l \in Ll /\ b \in Bchan
      /\ Cell(p, n, l, b) /\ Asks(p, s.ind, s.req, c)
      /\ \A k \in Plcis : p.plci = k =>
             /\ Owner(s.ctl[k], s.ind, s.req, n, l, b, k)
             /\ \A d \in Chans \ {c} : s.pl[d].plci # k
      /\ s.ll[c].phase = "data" => l.phase \in {"data", "half"}
  BY DEF InOrder
<1>2. g \in Ll /\ g.phase = l.phase /\ g.dialed = l.dialed  BY DEF Like
<1>3. e = p \/ (Alive(p) /\ Soft(p, e))  BY DEF Ending, Soft
<1>4. e \in Plci /\ e.plci = p.plci /\ Cell(e, n, l, b)
  BY <1>1, <1>3, CellSoft DEF Soft
<1>5. Asks(e, s.ind, s.req, c)
  <2>1. Alive(p) => p.st # "OUTGOING"  BY DEF Alive
  <2>2. QED BY <1>1, <1>3, <2>1, AsksAny
<1>6. /\ x \in Ncci /\ (Live(x) <=> Live(n)) /\ x.ncci = n.ncci
      /\ Live(n) => x.listed
      /\ ~Live(n) => x.st = n.st /\ x.listed = n.listed
      /\ x.st = "ACTIVE" => n.st = "ACTIVE"
  <2>1. CASE x = n  BY <1>1, <2>1 DEF Cell
  <2>2. CASE Live(n) /\ Listed(x, "DISCONNECTING", n.ncci)  BY <2>2 DEF Listed, Live
  <2>3. QED BY <2>1, <2>2 DEF Ending
<1>7. Cell(e, x, g, a)  BY <1>2, <1>4, <1>6 DEF Cell
<1>8. \A k \in Plcis : e.plci = k =>
          /\ Owner(s.ctl[k], s.ind, s.req, x, g, a, k)
          /\ \A d \in Chans \ {c} : s.pl[d].plci # k
  BY <1>1, <1>2, <1>4, <1>6 DEF Owner, Void
<1>9. Fine(s, Put(s, c, e, x, g, a, s.req))
  BY <1>1, <1>2, <1>4, <1>5, <1>6, <1>7, <1>8, PutFine
<1>10. ASSUME NEW type \in {"DISCONNECT_B3_REQ", "DISCONNECT_REQ"}, e.plci # 0
       PROVE  Fine(s, Put(s, c, e, x, g, a, Append(s.req, Message(type, e.plci))))
  <2>1. e.plci \in Plcis  BY <1>7, <1>10 DEF Cell
  <2>2. QED BY <1>9, <2>1, PutSend DEF Own
<1>11. CASE q = s.req  BY <1>9, <1>11
<1>12. CASE q = Append(s.req, Message("DISCONNECT_B3_REQ", n.ncci))
  <2>1. CASE n.ncci = 0
    <3>1. Put(s, c, e, x, g, a, q) =
              send_message(Put(s, c, e, x, g, a, s.req), Message("DISCONNECT_B3_REQ", 0))
      BY <1>12, <2>1, PutOps
    <3>2. QED BY <1>9, <3>1, SendNone
  <2>2. CASE n.ncci # 0
    <3>1. Live(n) /\ n.ncci = e.plci /\ e.plci # 0  BY <1>4, <2>2 DEF Cell
    <3>2. QED BY <1>10, <1>12, <3>1
  <2>3. QED BY <2>1, <2>2
<1>13. CASE p.plci # 0 /\ q = Append(s.req, Message("DISCONNECT_REQ", p.plci))
  BY <1>4, <1>10, <1>13
<1>14. QED BY <1>11, <1>12, <1>13 DEF Hung

-----------------------------------------------------------------------------
(* A call comes in *)

\* The phase of a channel, as an operator.
Phase(t, c, phase) == [t EXCEPT !.ll[c].phase = phase]

LEMMA PutPhase ==
    ASSUME NEW s \in State, NEW c \in Chans, NEW p, NEW n, NEW l, NEW b, NEW r, NEW phase
    PROVE  Phase(Put(s, c, p, n, l, b, r), c, phase) =
               Put(s, c, p, n, [l EXCEPT !.phase = phase], b, r)
<1>1. \A o : [Put(s, c, p, n, l, b, r) EXCEPT !.ll[c].phase = o] =
                 Put(s, c, p, n, [l EXCEPT !.phase = o], b, r)
  BY PutPaths
<1>2. QED BY <1>1 DEF Phase

LEMMA acceptFine ==
    ASSUME NEW s \in State, NEW c \in Chans, NEW p, NEW n, NEW l, NEW b,
           InOrder(s, c, p, n, l, b), Alive(p), l.phase # "data", ~l.dialed, b.incoming,
           s.ll[c].phase # "data"
    PROVE  Fine(s, accept(Put(s, c, p, n, l, b, s.req), c))
<1> DEFINE t == Put(s, c, p, n, l, b, s.req)
           g == [l EXCEPT !.phase = "setup"]
           k == p.plci
           r == Message("CONNECT_RESP", k)
<1>1. /\ TiesBut(s, c) /\ p \in Plci /\ n \in Ncci /\ l \in Ll /\ b \in Bchan
      /\ Cell(p, n, l, b) /\ Asks(p, s.ind, s.req, c)
      /\ \A i \in Plcis : p.plci = i =>
             /\ Owner(s.ctl[i], s.ind, s.req, n, l, b, i)
             /\ \A d \in Chans \ {c} : s.pl[d].plci # i
  BY DEF InOrder
<1>2. t.pl[c] = p  BY PutFields
<1>3. [t EXCEPT !.ll[c].phase = "setup"] = Put(s, c, p, n, g, b, s.req)
  <2>1. Phase(t, c, "setup") = Put(s, c, p, n, g, b, s.req)  BY PutPhase
  <2>2. QED BY <2>1 DEF Phase
<1>4. g \in Ll /\ g.phase = "setup" /\ g.dialed = l.dialed  BY <1>1 DEF Ll, Phases
<1> HIDE DEF g
<1>5. PICK o : Soft(p, o) /\ plci_change_state(Put(s, c, p, n, g, b, s.req), c, "CONNECT_RESP") =
                                 Put(s, c, o, n, g, b, s.req)
  BY PlciSoft
<1>6. send_message(Put(s, c, o, n, g, b, s.req), r) = Put(s, c, o, n, g, b, Append(s.req, r))
  BY PutOps
<1>7. accept(t, c) = Put(s, c, o, n, g, b, Append(s.req, r))
  <2> HIDE DEF t
  <2>1. QED BY <1>2, <1>3, <1>5, <1>6 DEF accept
<1>8. o \in Plci /\ o.plci = k /\ Cell(o, n, l, b) /\ Alive(o)
  BY <1>1, <1>5, CellSoft DEF Soft
<1>9. ~Void(g, b)  BY <1>4 DEF Void
<1>10. Cell(o, n, g, b)  BY <1>4, <1>8 DEF Cell
<1>11. Asks(o, s.ind, s.req, c)
  <2>1. p.st # "OUTGOING"  BY DEF Alive
  <2>2. QED BY <1>1, <2>1, AsksAny
<1>12. \A i \in Plcis : o.plci = i =>
           /\ Owner(s.ctl[i], s.ind, s.req, n, g, b, i)
           /\ \A d \in Chans \ {c} : s.pl[d].plci # i
  BY <1>1, <1>8, <1>9 DEF Owner
<1>13. Fine(s, Put(s, c, o, n, g, b, s.req))
  BY <1>1, <1>4, <1>8, <1>10, <1>11, <1>12, PutFine
<1>14. k \in Plcis  BY <1>8 DEF Cell, Alive
<1>15. QED BY <1>7, <1>8, <1>9, <1>13, <1>14, PutSend DEF Own, t

\* A call that the link level does not take.
LEMMA rejectFine ==
    ASSUME NEW s \in State, NEW c \in Chans, NEW p, NEW n, NEW b,
           InOrder(s, c, p, n, NoCall, b), Alive(p), NEW h \in BOOLEAN
    PROVE  Fine(s, reject(Put(s, c, p, n, NoCall, b, s.req), c, h))
<1> DEFINE t == Put(s, c, p, n, NoCall, b, s.req)
           k == p.plci
           r == Message("CONNECT_REJECT", k)
           u == IF h THEN [hangup(t, c) EXCEPT !.ll[c] = NoCall] ELSE t
<1>1. /\ p \in Plci /\ n \in Ncci /\ NoCall \in Ll /\ b \in Bchan /\ Cell(p, n, NoCall, b)
  BY DEF InOrder
<1>2. t.pl[c] = p  BY PutFields
<1>3. reject(t, c, h) = send_message(plci_change_state(u, c, "CONNECT_REJECT"), r)
  <2> HIDE DEF t
  <2>1. QED BY <1>2 DEF reject
<1>4. \E o, x, a, q : /\ u = Put(s, c, o, x, NoCall, a, q) /\ Ending(p, n, o, x)
                      /\ Hung(p, n, s.req, q) /\ a \in Bchan /\ a.incoming = b.incoming
  <2>1. CASE ~h
    <3>1. Ending(p, n, p, n) /\ Hung(p, n, s.req, s.req)  BY DEF Ending, Hung
    <3>2. QED BY <1>1, <2>1, <3>1
  <2>2. CASE h
    <3>1. PICK o, x, f, a, q :
              /\ hangup(t, c) = Put(s, c, o, x, f, a, q)
              /\ Ending(p, n, o, x) /\ Hung(p, n, s.req, q)
              /\ Like(f, NoCall) /\ a \in Bchan /\ a.incoming = b.incoming
      BY <1>1, PutHangup
    <3>2. \A g : [Put(s, c, o, x, f, a, q) EXCEPT !.ll[c] = g] = Put(s, c, o, x, g, a, q)
      BY PutOps
    <3> HIDE DEF t
    <3>3. u = Put(s, c, o, x, NoCall, a, q)  BY <2>2, <3>1, <3>2
    <3>4. QED BY <3>1, <3>3
  <2>3. QED BY <2>1, <2>2
<1>5. PICK o, x, a, q : /\ u = Put(s, c, o, x, NoCall, a, q) /\ Ending(p, n, o, x)
                        /\ Hung(p, n, s.req, q) /\ a \in Bchan /\ a.incoming = b.incoming
  BY <1>4
<1> HIDE DEF u
<1>6. Alive(o) /\ o.plci = k  BY <1>5 DEF Ending, Soft
<1>7. PICK e : Soft(o, e) /\ plci_change_state(Put(s, c, o, x, NoCall, a, q), c, "CONNECT_REJECT") =
                                 Put(s, c, e, x, NoCall, a, q)
  BY <1>6, PlciSoft
<1>8. send_message(Put(s, c, e, x, NoCall, a, q), r) = Put(s, c, e, x, NoCall, a, Append(q, r))
  BY PutOps
<1>9. Like(NoCall, NoCall)  BY <1>1 DEF Like
<1>10. Fine(s, Put(s, c, e, x, NoCall, a, q))  BY <1>5, <1>6, <1>7, <1>9, HangFine
<1>11. k \in Plcis /\ e.plci = k  BY <1>1, <1>6, <1>7 DEF Cell, Alive, Soft
<1>12. Fine(s, Put(s, c, e, x, NoCall, a, Append(q, r)))  BY <1>10, <1>11, PutSend DEF Own
<1>13. QED BY <1>3, <1>5, <1>7, <1>8, <1>12 DEF t

LEMMA IncomingTies ==
    ASSUME NEW s0, NEW s, NEW m, Pops(s0, s, m), m.type = "CONNECT_IND",
           NEW t \in handle_incoming_call(s, m.plci)
    PROVE  Fine(s, t)
<1> DEFINE k == m.plci
<1>1. /\ s \in State /\ m \in IndMsg /\ s0.ind \in Seq(IndMsg) /\ s0.ind # <<>> /\ m = Head(s0.ind)
      /\ s.ind = Tail(s0.ind) /\ s.req = s0.req
      /\ s.pl = s0.pl /\ s.nc = s0.nc /\ s.ll = s0.ll /\ s.bchan = s0.bchan
  BY PopFields
<1>2. /\ m \in Rings(k) /\ m \in Birth(k) /\ k \in Plcis /\ k # 0 /\ k \in Nat
      /\ \A i : m \notin End(i) /\ m \notin Down(i) /\ m \notin Ans(i)
  BY <1>1 DEF Rings, Birth, End, Down, Ans, Of, IndMsg, Plcis
<1>3. CASE new_bchan(s) = {}
  BY <1>2, <1>3, PopAll DEF handle_incoming_call
<1>4. ASSUME NEW c \in new_bchan(s), t \in icall(s, c, k) PROVE Fine(s, t)
  <2> DEFINE n == s.nc[c]
             b == [disconnecting |-> FALSE, incoming |-> TRUE]
             z == [NoPlci EXCEPT !.plci = k]
             p == [z EXCEPT !.st = "INCOMING"]
             u == new_plci([s EXCEPT !.bchan[c] = b], c, k, "CONNECT_IND")
             v == Put(s, c, p, n, NoCall, b, s.req)
             g == [NoCall EXCEPT !.phase = "ring"]
  <2>1. c \in Chans /\ s.pl[c].st = "NONE"  BY DEF new_bchan
  <2>2. s.ll[c] = NoCall /\ s.pl[c] \in Plci /\ n \in Ncci
    <3>1. Good(s0)  BY DEF Pops
    <3>2. s.ll[c] = NoCall  BY <1>1, <2>1, <3>1 DEF Good, Held, CleanAt
    <3>3. QED BY <1>1, <2>1, <3>2 DEF State
  <2>3. /\ Cell(s.pl[c], n, NoCall, s.bchan[c]) /\ Asks(s.pl[c], s0.ind, s0.req, c)
    BY <1>1, <2>1, <2>2 DEF Pops, Ties, Tied
  <2>4. \A o : Asks(o, s.ind, s.req, c)
    <3>1. Asks(s.pl[c], s.ind, s.req, c)  BY <1>1, <1>2, <2>3, AsksTaken
    <3>2. QED BY <2>1, <3>1, AsksAny
  <2>5. TiesBut(s, c)  BY <1>2, PopBut
  <2>6. ~Live(n) /\ n.st \in {"NONE", "OUTGOING"} /\ n.ncci = 0
    BY <2>1, <2>3 DEF Cell
  <2>7. b \in Bchan /\ b.incoming /\ ~b.disconnecting  BY DEF Bchan
  <2>8. NoCall \in Ll /\ NoCall.phase = "null" /\ ~NoCall.dialed
    BY DEF NoCall, Ll, Phases
  <2>9. z \in Plci /\ z.st = "NONE" /\ z.plci = k
    <3>1. NoPlci \in Plci /\ NoPlci.st = "NONE"  BY DEF NoPlci, Plci, PlciStates
    <3>2. QED BY <1>2, <3>1 DEF Plci
  <2>10. u = v
    <3> HIDE DEF b
    <3>1. \A o : [s EXCEPT !.bchan[c] = o] = Put(s, c, s.pl[c], n, s.ll[c], o, s.req)
      BY <1>1, <2>1, PutFlags
    <3>2. [s EXCEPT !.bchan[c] = b] = Put(s, c, s.pl[c], n, NoCall, b, s.req)
      BY <2>2, <3>1
    <3> DEFINE w == Put(s, c, s.pl[c], n, NoCall, b, s.req)
    <3>3. \A o : [w EXCEPT !.pl[c] = o] = Put(s, c, o, n, NoCall, b, s.req)
      BY <1>1, <2>1, PutOps
    <3>4. <<z.st, "CONNECT_IND", "INCOMING">> \in plcitable  BY <2>9 DEF plcitable
    <3>5. plci_change_state(Put(s, c, z, n, NoCall, b, s.req), c, "CONNECT_IND") = v
      <4> HIDE DEF z
      <4>1. QED BY <1>1, <2>1, <3>4, PutPlci
    <3> HIDE DEF w
    <3>6. u = plci_change_state([w EXCEPT !.pl[c] = z], c, "CONNECT_IND")
      BY <3>2 DEF new_plci, w
    <3> HIDE DEF z
    <3>7. QED BY <3>3, <3>5, <3>6
  <2>11. p \in Plci /\ p.st = "INCOMING" /\ p.plci = k /\ Alive(p)
    <3> HIDE DEF z
    <3>1. QED BY <2>9 DEF Plci, PlciStates, Alive
  <2> HIDE DEF z, p, b, u
  <2>12. /\ \A d \in Chans : s.pl[d].plci # k
         /\ s.ctl[k].st # "idle" /\ ~Has(s.ind, Birth(k))
         /\ s.ctl[k].st = "disc" => Has(s.ind, End(k))
         /\ Silent(s.ctl[k], s.ind, s.req, k)
    BY <1>2, Born
  <2>13. \A l : Owner(s.ctl[k], s.ind, s.req, n, l, b, k)  BY <2>6, <2>12 DEF Owner
  <2>14. ASSUME NEW l \in Ll, ~l.dialed, l.phase \in {"null", "ring"}
         PROVE  InOrder(s, c, p, n, l, b)
    <3>1. Cell(p, n, l, b)  BY <1>2, <2>6, <2>7, <2>11, <2>14 DEF Cell
    <3>2. QED BY <2>2, <2>4, <2>5, <2>7, <2>8, <2>11, <2>12, <2>13, <2>14, <3>1 DEF InOrder
  <2>15. InOrder(s, c, p, n, NoCall, b)  BY <2>8, <2>14
  <2>16. \/ \E h \in BOOLEAN : t = reject(u, c, h)
         \/ t = [u EXCEPT !.ll[c].phase = "ring"] \/ t = accept(u, c)
    BY <1>4 DEF icall, u, b
  <2>17. ASSUME NEW h \in BOOLEAN, t = reject(u, c, h) PROVE Fine(s, t)
    BY <1>1, <2>1, <2>10, <2>11, <2>15, <2>17, rejectFine
  <2>18. CASE t = accept(u, c)
    BY <1>1, <2>1, <2>2, <2>7, <2>8, <2>10, <2>11, <2>15, <2>18, acceptFine
  <2>19. CASE t = [u EXCEPT !.ll[c].phase = "ring"]
    <3>1. t = Phase(v, c, "ring")  BY <2>10, <2>19 DEF Phase
    <3>2. t = Put(s, c, p, n, g, b, s.req)  BY <1>1, <2>1, <3>1, PutPhase
    <3>3. g \in Ll /\ g.phase = "ring" /\ ~g.dialed  BY DEF NoCall, Ll, Phases
    <3> HIDE DEF g
    <3>4. InOrder(s, c, p, n, g, b)  BY <2>14, <3>3
    <3>5. QED BY <1>1, <2>1, <3>2, <3>4, PutFine DEF InOrder
  <2>20. QED BY <2>16, <2>17, <2>18, <2>19
<1>5. QED BY <1>3, <1>4 DEF handle_incoming_call

\* Whatever the controller says.
LEMMA HandledTies ==
    ASSUME NEW s0, NEW s, NEW m, Pops(s0, s, m), NEW t \in Handled(s, m)
    PROVE  Fine(s, t)
<1>1. m \in IndMsg  BY PopFields
<1>2. m.type \in IndTypes  BY <1>1 DEF IndMsg, Ind
<1>3. /\ m.type = "CONNECT_IND" => t \in handle_incoming_call(s, m.plci)
      /\ m.type = "CONNECT_CONF" => t \in CONNECT_CONF(s, m)
      /\ m.type = "CONNECT_ACTIVE_IND" => t \in CONNECT_ACTIVE_IND(s, m.plci)
      /\ m.type = "DISCONNECT_IND" => t \in DISCONNECT_IND(s, m.plci)
      /\ m.type = "DISCONNECT_CONF" => t \in DISCONNECT_CONF(s, m.plci)
      /\ m.type = "CONNECT_B3_IND" => t \in CONNECT_B3_IND(s, m.plci)
      /\ m.type = "CONNECT_B3_CONF" => t \in CONNECT_B3_CONF(s, m)
      /\ m.type = "CONNECT_B3_ACTIVE_IND" => t \in CONNECT_B3_ACTIVE_IND(s, m.plci)
      /\ m.type = "DISCONNECT_B3_IND" => t \in DISCONNECT_B3_IND(s, m.plci)
  BY DEF Handled
<1>4. QED
  BY <1>2, <1>3, IncomingTies, ConfTies, ActiveTies, DownTies, DownConfTies, B3IndTies,
     B3ConfTies, B3ActiveTies, B3DownTies DEF IndTypes

-----------------------------------------------------------------------------
(* Commands of the link level *)

LEMMA SelfOrder ==
    ASSUME NEW s \in State, Ties(s), NEW c \in Chans
    PROVE  InOrder(s, c, s.pl[c], s.nc[c], s.ll[c], s.bchan[c])
<1>1. Tied(s, c) /\ TiesBut(s, c)  BY DEF Ties, TiesBut
<1>2. s.pl[c] \in Plci /\ s.nc[c] \in Ncci /\ s.ll[c] \in Ll /\ s.bchan[c] \in Bchan
  BY DEF State
<1>3. \A k \in Plcis : s.pl[c].plci = k => \A d \in Chans \ {c} : s.pl[d].plci # k
  BY DEF Ties, Apart, Plcis
<1>4. QED BY <1>1, <1>2, <1>3 DEF InOrder, Tied

LEMMA AcceptdTies ==
    ASSUME NEW s, Good(s), Ties(s), NEW c \in Chans, s.ll[c].phase = "ring"
    PROVE  Fine(s, accept(s, c))
<1> DEFINE p == s.pl[c]
           n == s.nc[c]
           l == s.ll[c]
           b == s.bchan[c]
<1>1. s \in State /\ p.st # "NONE"
  <2>1. NoCall.phase # "ring"  BY DEF NoCall
  <2>2. QED BY <2>1 DEF Good, Held, CleanAt
<1>2. InOrder(s, c, p, n, l, b)  BY <1>1, SelfOrder
<1>3. ~l.dialed /\ b.incoming /\ p.st # "OUTGOING" /\ p.plci # 0
  BY <1>1, <1>2 DEF InOrder, Cell
<1>4. Alive(p)
  <2>1. p \in Plci /\ p.st # "DISCONNECTED"  BY <1>2 DEF InOrder, Cell
  <2>2. QED BY <1>1, <1>3, <2>1 DEF Alive, Plci, PlciStates
<1>5. Fine(s, accept(Put(s, c, p, n, l, b, s.req), c))  BY <1>1, <1>2, <1>3, <1>4, acceptFine
<1>6. s = Put(s, c, p, n, l, b, s.req)  BY <1>1, PutSelf
<1>7. QED BY <1>5, <1>6

LEMMA HangupTies ==
    ASSUME NEW s \in State, Ties(s), NEW c \in Chans
    PROVE  Fine(s, [hangup(s, c) EXCEPT !.ll[c].hung = TRUE])
<1> DEFINE p == s.pl[c]
           n == s.nc[c]
           l == s.ll[c]
           b == s.bchan[c]
           t == [hangup(s, c) EXCEPT !.ll[c].hung = TRUE]
<1>1. InOrder(s, c, p, n, l, b)  BY SelfOrder
<1>2. s = Put(s, c, p, n, l, b, s.req)  BY PutSelf
<1>3. /\ p \in Plci /\ n \in Ncci /\ l \in Ll /\ b \in Bchan /\ Cell(p, n, l, b)
  BY <1>1 DEF InOrder
<1> HIDE DEF p, n, l, b
<1>4. \E o, x, f, a, q :
          /\ hangup(Put(s, c, p, n, l, b, s.req), c) = Put(s, c, o, x, f, a, q)
          /\ Ending(p, n, o, x) /\ Hung(p, n, s.req, q)
          /\ Like(f, l) /\ a \in Bchan /\ a.incoming = b.incoming
  BY <1>3, PutHangup
<1>5. PICK o, x, f, a, q :
          /\ hangup(s, c) = Put(s, c, o, x, f, a, q)
          /\ Ending(p, n, o, x) /\ Hung(p, n, s.req, q)
          /\ Like(f, l) /\ a \in Bchan /\ a.incoming = b.incoming
  BY <1>2, <1>4
<1> DEFINE g == [f EXCEPT !.hung = TRUE]
<1>6. t = Put(s, c, o, x, g, a, q)
  <2>1. \A i : [Put(s, c, o, x, f, a, q) EXCEPT !.ll[c].hung = i] =
                   Put(s, c, o, x, [f EXCEPT !.hung = i], a, q)
    BY PutDeaf
  <2>2. QED BY <1>5, <2>1
<1>7. Like(g, l)
  <2>1. Like(g, f)  BY <1>5, DeafLike DEF Like
  <2>2. QED BY <1>5, <2>1 DEF Like
<1> HIDE DEF g, t
<1>8. Fine(s, t)  BY <1>1, <1>5, <1>6, <1>7, HangFine
<1>9. QED BY <1>8 DEF t

LEMMA AskMsg ==
    ASSUME NEW c \in Chans
    PROVE  /\ CONNECT_REQ(c) \in Ask(c) /\ CONNECT_REQ(c) \in ReqMsg
           /\ \A d \in Chans \ {c} : CONNECT_REQ(c) \notin Ask(d)
           /\ \A k \in Plcis : CONNECT_REQ(c) \notin To(k)
<1> DEFINE m == Message("CONNECT_REQ", 0)
           r == [m EXCEPT !.id = c]
<1>1. /\ m \in [type : ReqTypes, plci : Nat, ok : BOOLEAN, id : Nat]
      /\ m.type = "CONNECT_REQ" /\ m.plci = 0
  BY DEF Message, ReqTypes
<1>2. c \in Nat  BY DEF Chans
<1> HIDE DEF m
<1>3. /\ r \in [type : ReqTypes, plci : Nat, ok : BOOLEAN, id : Nat]
      /\ r.type = "CONNECT_REQ" /\ r.plci = 0 /\ r.id = c
  BY <1>1, <1>2
<1>4. r = CONNECT_REQ(c)  BY DEF CONNECT_REQ, m
<1> HIDE DEF r
<1>5. r \in Req  BY <1>3 DEF Req
<1>6. r \in ReqMsg  BY <1>3, <1>5 DEF ReqMsg
<1>7. \A k \in Plcis : r \notin To(k)  BY <1>3 DEF To, Plcis
<1>8. QED BY <1>3, <1>4, <1>5, <1>6, <1>7 DEF Ask

LEMMA AskFine ==
    ASSUME NEW s, NEW t, Fine(s, t), NEW c \in Chans, t.pl[c].st = "OUTGOING",
           ~Has(t.req, Ask(c)), ~Has(t.ind, Ans(c))
    PROVE  Fine(s, send_message(t, CONNECT_REQ(c)))
<1> DEFINE r == CONNECT_REQ(c)
           u == send_message(t, r)
<1>1. t \in State /\ Ties(t) /\ Kept(s, t)  BY DEF Fine
<1>2. /\ r \in Ask(c) /\ r \in ReqMsg
      /\ \A d \in Chans \ {c} : r \notin Ask(d)
      /\ \A k \in Plcis : r \notin To(k)
  BY AskMsg
<1> HIDE DEF r
<1>3. /\ u.pl = t.pl /\ u.nc = t.nc /\ u.ll = t.ll /\ u.bchan = t.bchan /\ u.ctl = t.ctl
      /\ u.ind = t.ind /\ u.req = Append(t.req, r)
  BY <1>1 DEF send_message, State
<1>4. u \in State
  <2>1. r \in Req  BY <1>2 DEF ReqMsg
  <2>2. QED BY <1>1, <2>1, SendType
<1> HIDE DEF u
<1>5. t.req \in Seq(ReqMsg) /\ u.req \in Seq(ReqMsg)  BY <1>1, <1>2, <1>3 DEF Ties, Lines
<1>6. Lines(u)
  <2>1. ASSUME NEW k \in Plcis PROVE Line(u.ctl[k], u.ind, u.req, k)
    <3>1. r \notin To(k) /\ r \notin Resp(k)  BY <1>2, Parts
    <3>2. QED BY <1>1, <1>3, <1>5, <3>1, LineSent DEF Ties, Lines
  <2>2. QED BY <1>1, <1>3, <1>5, <2>1 DEF Ties, Lines
<1>7. ASSUME NEW d \in Chans PROVE Tied(u, d)
  <2>1. Tied(t, d)  BY <1>1 DEF Ties
  <2>2. \A k \in Plcis : u.pl[d].plci = k =>
            Owner(u.ctl[k], u.ind, u.req, u.nc[d], u.ll[d], u.bchan[d], k)
    <3>1. \A k \in Plcis : r \notin Accepts(k)  BY <1>2, Parts
    <3>2. QED BY <1>3, <1>5, <2>1, <3>1, OwnerSent DEF Tied
  <2>3. Asks(u.pl[d], u.ind, u.req, d)
    <3>1. CASE d # c  BY <1>2, <1>3, <1>5, <2>1, <3>1, AsksSent DEF Tied
    <3>2. CASE d = c
      <4>1. NoneAfter(t.req, Ask(c), Ask(c)) => NoneAfter(u.req, Ask(c), Ask(c))
        BY <1>3, <1>5, Added
      <4>2. QED BY <1>3, <2>1, <3>2, <4>1 DEF Tied, Asks
    <3>3. QED BY <3>1, <3>2
  <2>4. QED BY <1>3, <2>1, <2>2, <2>3 DEF Tied
<1>8. \A d, e \in Chans : Apart(u, d, e)  BY <1>1, <1>3 DEF Ties, Apart
<1>9. Kept(s, u)  BY <1>1, <1>3 DEF Kept
<1>10. Fine(s, u)  BY <1>4, <1>6, <1>7, <1>8, <1>9 DEF Fine, Ties
<1>11. QED BY <1>10 DEF u, r

Dialled(s, c, o, d) == [s EXCEPT !.ll[c].phase = o, !.ll[c].dialed = d]

LEMMA PutCall ==
    ASSUME NEW s \in State, NEW c \in Chans
    PROVE  \A o, d : Dialled(s, c, o, d) =
                         Put(s, c, s.pl[c], s.nc[c],
                             [s.ll[c] EXCEPT !.phase = o, !.dialed = d], s.bchan[c], s.req)
<1>1. ASSUME NEW o, NEW d
      PROVE  Dialled(s, c, o, d) =
                 Put(s, c, s.pl[c], s.nc[c],
                     [s.ll[c] EXCEPT !.phase = o, !.dialed = d], s.bchan[c], s.req)
  <2> DEFINE g == [s.ll[c] EXCEPT !.phase = o, !.dialed = d]
             t == Put(s, c, s.pl[c], s.nc[c], s.ll[c], s.bchan[c], s.req)
  <2>1. s = t  BY PutSelf
  <2>2. [s EXCEPT !.ll[c].phase = o, !.ll[c].dialed = d] = [s EXCEPT !.ll[c] = g]
    BY DEF State
  <2>3. \A i : [t EXCEPT !.ll[c] = i] = Put(s, c, s.pl[c], s.nc[c], i, s.bchan[c], s.req)
    BY PutOps
  <2> HIDE DEF t, g
  <2>4. [s EXCEPT !.ll[c] = g] = [t EXCEPT !.ll[c] = g]  BY <2>1
  <2>5. QED BY <2>2, <2>3, <2>4 DEF g, Dialled
<1>2. QED BY <1>1, Zenon

LEMMA DialTies ==
    ASSUME NEW s, Good(s), Ties(s), NEW c \in Chans, s.ll[c].phase = "null", NEW u,
           u = [s EXCEPT !.ll[c].phase = "setup", !.ll[c].dialed = TRUE]
    PROVE  /\ s.pl[c].st # "NONE" => Fine(s, u)
           /\ s.pl[c].st = "NONE" =>
                  Fine(s, send_message(new_plci(u, c, 0, "CONNECT_REQ"), CONNECT_REQ(c)))
<1> DEFINE p == s.pl[c]
           n == s.nc[c]
           l == s.ll[c]
           b == s.bchan[c]
           g == [l EXCEPT !.phase = "setup", !.dialed = TRUE]
<1>1. s \in State  BY DEF Good
<1>2. InOrder(s, c, p, n, l, b)  BY <1>1, SelfOrder
<1>3. /\ TiesBut(s, c) /\ p \in Plci /\ n \in Ncci /\ l \in Ll /\ b \in Bchan
      /\ Cell(p, n, l, b) /\ Asks(p, s.ind, s.req, c)
      /\ \A k \in Plcis : p.plci = k =>
             /\ Owner(s.ctl[k], s.ind, s.req, n, l, b, k)
             /\ \A d \in Chans \ {c} : s.pl[d].plci # k
  BY <1>2 DEF InOrder
<1>4. g \in Ll /\ g.phase = "setup" /\ g.dialed  BY <1>3 DEF Ll, Phases
<1>5. u = Put(s, c, p, n, g, b, s.req)
  <2>1. u = Dialled(s, c, "setup", TRUE)  BY DEF Dialled
  <2>2. Dialled(s, c, "setup", TRUE) = Put(s, c, p, n, g, b, s.req)  BY <1>1, PutCall, Zenon
  <2>3. QED BY <2>1, <2>2
<1> HIDE DEF g
<1>6. n.st # "ACTIVE" /\ p.st # "OUTGOING"  BY <1>3 DEF Cell
<1>7. CASE p.st # "NONE"
  <2>1. Cell(p, n, g, b)  BY <1>3, <1>4, <1>6 DEF Cell
  <2>2. \A k \in Plcis : p.plci = k => Owner(s.ctl[k], s.ind, s.req, n, g, b, k)
    BY <1>3 DEF Owner, Void
  <2>3. QED BY <1>1, <1>3, <1>4, <1>5, <1>7, <2>1, <2>2, PutFine
<1>8. CASE p.st = "NONE"
  <2> DEFINE z == [NoPlci EXCEPT !.plci = 0]
             o == [z EXCEPT !.st = "OUTGOING"]
             t == new_plci(u, c, 0, "CONNECT_REQ")
  <2>1. ~b.incoming  BY <1>8 DEF Good, Held, CleanAt, Clean
  <2>2. z \in Plci /\ z.st = "NONE" /\ z.plci = 0  BY DEF NoPlci, Plci, PlciStates
  <2>3. o \in Plci /\ o.st = "OUTGOING" /\ o.plci = 0
    <3> HIDE DEF z
    <3>1. QED BY <2>2 DEF Plci, PlciStates
  <2>4. t = Put(s, c, o, n, g, b, s.req)
    <3> DEFINE w == Put(s, c, p, n, g, b, s.req)
    <3>1. \A i : [w EXCEPT !.pl[c] = i] = Put(s, c, i, n, g, b, s.req)  BY <1>1, PutOps
    <3>2. <<z.st, "CONNECT_REQ", "OUTGOING">> \in plcitable  BY <2>2 DEF plcitable
    <3>3. plci_change_state(Put(s, c, z, n, g, b, s.req), c, "CONNECT_REQ") =
              Put(s, c, o, n, g, b, s.req)
      <4> HIDE DEF z
      <4>1. QED BY <1>1, <3>2, PutPlci
    <3> HIDE DEF w
    <3>4. t = plci_change_state([w EXCEPT !.pl[c] = z], c, "CONNECT_REQ")
      BY <1>5 DEF new_plci, w
    <3> HIDE DEF z, t
    <3>5. QED BY <3>1, <3>3, <3>4
  <2> HIDE DEF z, o, t
  <2>5. ~Live(n) /\ n.st \in {"NONE", "OUTGOING"} /\ n.ncci = 0  BY <1>3, <1>8 DEF Cell
  <2>6. Cell(o, n, g, b)  BY <1>4, <2>1, <2>3, <2>5 DEF Cell
  <2>7. Asks(o, s.ind, s.req, c)  BY <1>3, <1>6, AsksAny
  <2>8. \A k \in Plcis : o.plci # k  BY <2>3 DEF Plcis
  <2>9. Fine(s, t)  BY <1>1, <1>3, <1>4, <2>3, <2>4, <2>6, <2>7, <2>8, PutFine
  <2>10. t.pl[c] = o /\ t.req = s.req /\ t.ind = s.ind  BY <1>1, <2>4, PutFields
  <2>11. ~Has(s.req, Ask(c)) /\ ~Has(s.ind, Ans(c))  BY <1>3, <1>6 DEF Asks
  <2>12. Fine(s, send_message(t, CONNECT_REQ(c)))  BY <2>3, <2>9, <2>10, <2>11, AskFine
  <2>13. QED BY <1>8, <2>12 DEF t
<1>9. QED BY <1>7, <1>8

-----------------------------------------------------------------------------
(* The controller: a step of PLCI k, with some of the requests taken *)

Less(r, w, k) ==
    /\ \A P : Has(w, P) => Has(r, P)
    /\ NoneAfter(r, Resp(k), To(k)) => NoneAfter(w, Resp(k), To(k))

\* What the channel that has the PLCI may rely on stays true.
Goes(x, q, r, y, z, w, k) ==
    /\ Line(y, z, w, k)
    /\ \A n, l, b : Owner(x, q, r, n, l, b, k) => Owner(y, z, w, n, l, b, k)

LEMMA LessSelf == ASSUME NEW r, NEW k PROVE Less(r, r, k)
  BY DEF Less

LEMMA LessTail ==
    ASSUME NEW r \in Seq(ReqMsg), r # <<>>, NEW k
    PROVE  Less(r, Tail(r), k)
<1>1. \A P : Has(Tail(r), P) => Has(r, P)  BY Taken
<1>2. NoneAfter(r, Resp(k), To(k)) => NoneAfter(Tail(r), Resp(k), To(k))  BY Taken
<1>3. QED BY <1>1, <1>2 DEF Less

LEMMA GoesOn ==
    ASSUME NEW x, NEW q, NEW r, NEW y, NEW z, NEW w, NEW k, Goes(x, q, r, y, z, w, k),
           NEW v, NEW o, NEW u, Goes(y, z, w, v, o, u, k)
    PROVE  Goes(x, q, r, v, o, u, k)
  BY DEF Goes

\* A message that is about no PLCI, or about another one.
LEMMA GoesTold ==
    ASSUME NEW x, NEW q \in Seq(IndMsg), NEW r, NEW k, Line(x, q, r, k), NEW i, i \notin Real(k)
    PROVE  Goes(x, q, r, x, Append(q, i), r, k)
<1>1. \A P, Q :
          /\ Has(Append(q, i), P) <=> Has(q, P) \/ i \in P
          /\ NoneAfter(q, P, Q) /\ (i \in Q => ~Has(q, P)) => NoneAfter(Append(q, i), P, Q)
          /\ Followed(q, P, Q) /\ i \notin P => Followed(Append(q, i), P, Q)
  BY Added
<1>2. /\ i \notin Rings(k) /\ i \notin Birth(k) /\ i \notin Talk(k) /\ i \notin End(k)
      /\ i \notin Call(k) /\ i \notin B3(k) /\ i \notin Raise(k) /\ i \notin Down(k)
  BY Parts
<1> DEFINE z == Append(q, i)
<1> HIDE DEF z
<1>3. Line(x, z, r, k)  BY <1>1, <1>2 DEF Line, Silent, z
<1>4. ASSUME NEW n, NEW l, NEW b, Owner(x, q, r, n, l, b, k) PROVE Owner(x, z, r, n, l, b, k)
  BY <1>1, <1>2, <1>4 DEF Owner, Silent, z
<1>5. QED BY <1>3, <1>4 DEF Goes, z

\* A step of the PLCI that nobody is told of.
LEMMA GoesQuiet ==
    ASSUME NEW x, NEW q, NEW r, NEW w, NEW k, Line(x, q, r, k), Less(r, w, k), NEW y,
           \/ y.st = x.st /\ y.b3 = x.b3
           \/ x.st \notin {"idle", "disc"} /\ y.st = "clear" /\ y.b3 = x.b3
           \/ Open(x) /\ Open(y) /\ y.st = x.st
           \/ x.b3 = "disc" /\ y.b3 = "none" /\ y.st = x.st
    PROVE  Goes(x, q, r, y, q, w, k)
<1>1. Line(y, q, w, k)  BY DEF Line, Silent, Less, Open
<1>2. ASSUME NEW n, NEW l, NEW b, Owner(x, q, r, n, l, b, k) PROVE Owner(y, q, w, n, l, b, k)
  BY <1>2 DEF Owner, Silent, Less, Open
<1>3. QED BY <1>1, <1>2 DEF Goes

LEMMA GoesAccepted ==
    ASSUME NEW x, NEW q, NEW r, NEW w, NEW k, Line(x, q, r, k), Less(r, w, k),
           Has(r, Accepts(k)), x.st = "incoming", NEW y, y.st = "accepted", y.b3 = x.b3
    PROVE  Goes(x, q, r, y, q, w, k)
<1>1. Line(y, q, w, k)  BY DEF Line, Silent, Less, Open
<1>2. ASSUME NEW n, NEW l, NEW b, Owner(x, q, r, n, l, b, k) PROVE Owner(y, q, w, n, l, b, k)
  BY <1>2 DEF Owner, Silent, Less, Open
<1>3. QED BY <1>1, <1>2 DEF Goes

\* The PLCI is free again: no channel has it.
LEMMA GoesIdle ==
    ASSUME NEW x, NEW q, NEW r, NEW w, NEW k, Line(x, q, r, k), Less(r, w, k),
           Has(r, Resp(k)), ~Has(w, To(k)), NEW y, y.st = "idle", y.b3 = "none"
    PROVE  Goes(x, q, r, y, q, w, k)
<1>1. x.st = "disc" /\ ~Has(q, End(k)) /\ ~Has(q, Real(k))  BY DEF Line
<1>2. /\ ~Has(q, Birth(k)) /\ ~Has(q, Talk(k)) /\ ~Has(q, B3(k)) /\ ~Has(q, Raise(k))
      /\ ~Has(q, Rings(k)) /\ ~Has(w, Resp(k))
  BY <1>1, Parts, Wider
<1>3. Followed(q, Raise(k), Down(k))  BY <1>2 DEF Followed, Has
<1>4. Line(y, q, w, k)  BY <1>1, <1>2, <1>3 DEF Line, Less, Open
<1>5. \A n, l, b : ~Owner(x, q, r, n, l, b, k)  BY <1>1 DEF Owner
<1>6. QED BY <1>4, <1>5 DEF Goes

\* A PLCI is announced.
LEMMA GoesBorn ==
    ASSUME NEW x, NEW q \in Seq(IndMsg), NEW r, NEW w, NEW k, Line(x, q, r, k), Less(r, w, k),
           x.st = "idle", NEW i \in Birth(k), NEW y, y.b3 = "none",
           y.st = "incoming" \/ (y.st = "alloc" /\ i \notin Rings(k))
    PROVE  Goes(x, q, r, y, Append(q, i), w, k)
<1>1. \A P, Q :
          /\ Has(Append(q, i), P) <=> Has(q, P) \/ i \in P
          /\ NoneAfter(q, P, Q) /\ (i \in Q => ~Has(q, P)) => NoneAfter(Append(q, i), P, Q)
          /\ Followed(q, P, Q) /\ i \notin P => Followed(Append(q, i), P, Q)
  BY Added
<1>2. /\ i \notin Talk(k) /\ i \notin End(k) /\ i \notin Call(k) /\ i \notin B3(k)
      /\ i \notin Raise(k)
  BY DEF Birth, Talk, End, Call, B3, Raise, Of
<1>3. ~Has(q, Real(k)) /\ ~Has(r, To(k))  BY DEF Line
<1>4. /\ ~Has(q, Rings(k)) /\ ~Has(q, Talk(k)) /\ ~Has(q, End(k)) /\ ~Has(q, B3(k))
      /\ ~Has(q, Raise(k)) /\ ~Has(r, Resp(k)) /\ ~Has(r, Accepts(k))
  BY <1>3, Parts, Wider
<1>5. Followed(q, Raise(k), Down(k))  BY <1>4 DEF Followed, Has
<1> DEFINE z == Append(q, i)
<1> HIDE DEF z
<1>6. Line(y, z, w, k)  BY <1>1, <1>2, <1>3, <1>4, <1>5 DEF Line, Silent, Less, Open, z
<1>7. \A n, l, b : ~Owner(x, q, r, n, l, b, k)  BY DEF Owner
<1>8. QED BY <1>6, <1>7 DEF Goes, z

\* The call is connected.
LEMMA GoesActive ==
    ASSUME NEW x, NEW q \in Seq(IndMsg), NEW r, NEW w, NEW k, Line(x, q, r, k), Less(r, w, k),
           x.st \in {"alloc", "accepted"}, NEW i \in Call(k), NEW y, y.b3 = x.b3, y.st = "active"
    PROVE  Goes(x, q, r, y, Append(q, i), w, k)
<1>1. \A P, Q :
          /\ Has(Append(q, i), P) <=> Has(q, P) \/ i \in P
          /\ NoneAfter(q, P, Q) /\ (i \in Q => ~Has(q, P)) => NoneAfter(Append(q, i), P, Q)
          /\ Followed(q, P, Q) /\ i \notin P => Followed(Append(q, i), P, Q)
  BY Added
<1>2. /\ i \notin Rings(k) /\ i \notin Birth(k) /\ i \notin End(k) /\ i \notin B3(k)
      /\ i \notin Raise(k) /\ i \notin Down(k)
  BY DEF Rings, Birth, End, Call, B3, Raise, Down, Of
<1>3. ~Has(q, B3(k)) /\ x.b3 = "none" /\ ~Has(q, End(k)) /\ ~Has(q, Rings(k))
      /\ ~Has(r, Resp(k))
  BY DEF Line, Silent
<1>4. ~Has(q, Down(k))  BY <1>3, Parts, Wider
<1> DEFINE z == Append(q, i)
<1> HIDE DEF z
<1>5. Line(y, z, w, k)  BY <1>1, <1>2, <1>3 DEF Line, Silent, Less, Open, z
<1>6. ASSUME NEW n, NEW l, NEW b, Owner(x, q, r, n, l, b, k) PROVE Owner(y, z, w, n, l, b, k)
  <2>1. ~Live(n) /\ ~Void(l, b)  BY <1>3, <1>4, <1>6 DEF Owner, Silent, Open
  <2>2. QED BY <1>1, <1>2, <1>6, <2>1 DEF Owner, z
<1>7. QED BY <1>5, <1>6 DEF Goes, z

\* The B channel comes.
LEMMA GoesRaise ==
    ASSUME NEW x, NEW q \in Seq(IndMsg), NEW r, NEW w, NEW k, Line(x, q, r, k), Less(r, w, k),
           x.st = "active", NEW i \in Raise(k), NEW y, y.st = x.st, Open(y)
    PROVE  Goes(x, q, r, y, Append(q, i), w, k)
<1>1. \A P, Q :
          /\ Has(Append(q, i), P) <=> Has(q, P) \/ i \in P
          /\ NoneAfter(q, P, Q) /\ (i \in Q => ~Has(q, P)) => NoneAfter(Append(q, i), P, Q)
  BY Added
<1>2. /\ i \notin Rings(k) /\ i \notin Birth(k) /\ i \notin End(k) /\ i \notin Call(k)
  BY DEF Rings, Birth, End, Call, Raise, Of
<1>3. ~Has(q, End(k)) /\ ~Has(q, Rings(k)) /\ ~Has(r, Resp(k))
  BY DEF Line, Silent
<1> DEFINE z == Append(q, i)
<1> HIDE DEF z
<1>4. Line(y, z, w, k)  BY <1>1, <1>2, <1>3 DEF Line, Less, z
<1>5. ASSUME NEW n, NEW l, NEW b, Owner(x, q, r, n, l, b, k) PROVE Owner(y, z, w, n, l, b, k)
  BY <1>1, <1>2, <1>5 DEF Owner, Silent, z
<1>6. QED BY <1>4, <1>5 DEF Goes, z

\* It is there.
LEMMA GoesUp ==
    ASSUME NEW x, NEW q \in Seq(IndMsg), NEW r, NEW k, Line(x, q, r, k),
           x.st = "active", x.b3 = "alloc", NEW i \in Talk(k), i \notin Call(k), i \notin B3(k),
           NEW y, y.st = x.st, Open(y)
    PROVE  Goes(x, q, r, y, Append(q, i), r, k)
<1>1. \A P, Q :
          /\ Has(Append(q, i), P) <=> Has(q, P) \/ i \in P
          /\ NoneAfter(q, P, Q) /\ (i \in Q => ~Has(q, P)) => NoneAfter(Append(q, i), P, Q)
  BY Added
<1>2. /\ i \notin Rings(k) /\ i \notin Birth(k) /\ i \notin End(k)
  BY DEF Rings, Birth, End, Talk, Of
<1>3. ~Has(q, End(k)) /\ ~Has(q, Rings(k)) /\ ~Has(r, Resp(k))
  BY DEF Line, Silent
<1> DEFINE z == Append(q, i)
<1> HIDE DEF z
<1>4. Line(y, z, r, k)  BY <1>1, <1>2, <1>3 DEF Line, z
<1>5. ASSUME NEW n, NEW l, NEW b, Owner(x, q, r, n, l, b, k) PROVE Owner(y, z, r, n, l, b, k)
  BY <1>1, <1>2, <1>5 DEF Owner, Silent, z
<1>6. QED BY <1>4, <1>5 DEF Goes, z

\* It goes.
LEMMA GoesDown ==
    ASSUME NEW x, NEW q \in Seq(IndMsg), NEW r, NEW k, Line(x, q, r, k), Open(x),
           NEW i \in Down(k), NEW y, y.st = x.st, y.b3 = "disc"
    PROVE  Goes(x, q, r, y, Append(q, i), r, k)
<1>1. \A P, Q :
          /\ Has(Append(q, i), P) <=> Has(q, P) \/ i \in P
          /\ NoneAfter(q, P, Q) /\ (i \in Q => ~Has(q, P)) => NoneAfter(Append(q, i), P, Q)
          /\ i \in Q /\ i \notin P => Followed(Append(q, i), P, Q)
  BY Added
<1>2. /\ i \notin Rings(k) /\ i \notin Birth(k) /\ i \notin End(k) /\ i \notin Call(k)
      /\ i \notin Raise(k)
  BY DEF Rings, Birth, End, Call, Raise, Down, Of
<1>3. x.st \in {"active", "clear"} /\ x.b3 # "none"  BY DEF Line, Open
<1>4. ~Has(q, End(k)) /\ ~Has(q, Rings(k)) /\ ~Has(r, Resp(k))
  BY <1>3 DEF Line, Silent
<1> DEFINE z == Append(q, i)
<1> HIDE DEF z
<1>5. Line(y, z, r, k)  BY <1>1, <1>2, <1>3, <1>4 DEF Line, Open, z
<1>6. ASSUME NEW n, NEW l, NEW b, Owner(x, q, r, n, l, b, k) PROVE Owner(y, z, r, n, l, b, k)
  BY <1>1, <1>2, <1>3, <1>6 DEF Owner, Silent, z
<1>7. QED BY <1>5, <1>6 DEF Goes, z

\* The call is cleared.
LEMMA GoesEnd ==
    ASSUME NEW x, NEW q \in Seq(IndMsg), NEW r, NEW k, Line(x, q, r, k), ~Open(x),
           x.st \notin {"idle", "disc"}, NEW i \in End(k), NEW y, y.st = "disc", y.b3 = x.b3
    PROVE  Goes(x, q, r, y, Append(q, i), r, k)
<1>1. \A P, Q :
          /\ Has(Append(q, i), P) <=> Has(q, P) \/ i \in P
          /\ NoneAfter(q, P, Q) /\ (i \in Q => ~Has(q, P)) => NoneAfter(Append(q, i), P, Q)
          /\ Followed(q, P, Q) /\ i \notin P => Followed(Append(q, i), P, Q)
  BY Added
<1>2. /\ i \notin Rings(k) /\ i \notin Birth(k) /\ i \notin Talk(k) /\ i \notin Call(k)
      /\ i \notin Raise(k) /\ i \notin B3(k) /\ i \notin Down(k)
  BY DEF Rings, Birth, End, Talk, Call, Raise, B3, Down, Of
<1>3. ~Has(q, End(k)) /\ ~Has(r, Resp(k))  BY DEF Line
<1> DEFINE z == Append(q, i)
<1> HIDE DEF z
<1>4. Line(y, z, r, k)  BY <1>1, <1>2, <1>3 DEF Line, Silent, Open, z
<1>5. ASSUME NEW n, NEW l, NEW b, Owner(x, q, r, n, l, b, k) PROVE Owner(y, z, r, n, l, b, k)
  BY <1>1, <1>2, <1>3, <1>5 DEF Owner, Silent, Open, z
<1>6. QED BY <1>4, <1>5 DEF Goes, z

-----------------------------------------------------------------------------
(* The controller: what a step leaves alone *)

Alike(s, t) ==
    t \in State /\ t.pl = s.pl /\ t.nc = s.nc /\ t.ll = s.ll /\ t.bchan = s.bchan
Moves(s, t, k) ==
    /\ Alike(s, t) /\ t.ind = s.ind /\ t.req = s.req
    /\ \A j \in Plcis \ {k} : t.ctl[j] = s.ctl[j]

\* With a new record for PLCI k.
Set(s, k, y) == [s EXCEPT !.ctl[k] = y]

LEMMA MovesTo ==
    ASSUME NEW s \in State, NEW k \in Plcis, NEW y \in Ctl
    PROVE  Moves(s, Set(s, k, y), k) /\ Set(s, k, y).ctl[k] = y
<1>1. [s.ctl EXCEPT ![k] = y] \in [Plcis -> Ctl]  BY DEF State
<1>2. QED BY <1>1 DEF State, Moves, Alike, Set

SetSt(s, k, st) == [s EXCEPT !.ctl[k].st = st]

LEMMA MovesSt ==
    ASSUME NEW s \in State, NEW k \in Plcis, NEW st \in CtlStates, NEW t,
           t = SetSt(s, k, st)
    PROVE  Moves(s, t, k) /\ t.ctl[k].st = st /\ t.ctl[k].b3 = s.ctl[k].b3
<1> DEFINE y == [s.ctl[k] EXCEPT !.st = st]
<1>1. s.ctl[k] \in Ctl  BY DEF State
<1>2. y \in Ctl /\ y.st = st /\ y.b3 = s.ctl[k].b3  BY <1>1 DEF Ctl
<1>3. t = Set(s, k, y)  BY DEF Set, SetSt
<1> HIDE DEF y
<1>4. Moves(s, t, k) /\ t.ctl[k] = y  BY <1>2, <1>3, MovesTo
<1>5. QED BY <1>2, <1>4

SetB3(s, k, b3) == [s EXCEPT !.ctl[k].b3 = b3]

LEMMA MovesB3 ==
    ASSUME NEW s \in State, NEW k \in Plcis, NEW b3 \in B3States, NEW t,
           t = SetB3(s, k, b3)
    PROVE  Moves(s, t, k) /\ t.ctl[k].b3 = b3 /\ t.ctl[k].st = s.ctl[k].st
<1> DEFINE y == [s.ctl[k] EXCEPT !.b3 = b3]
<1>1. s.ctl[k] \in Ctl  BY DEF State
<1>2. y \in Ctl /\ y.b3 = b3 /\ y.st = s.ctl[k].st  BY <1>1 DEF Ctl
<1>3. t = Set(s, k, y)  BY DEF Set, SetB3
<1> HIDE DEF y
<1>4. Moves(s, t, k) /\ t.ctl[k] = y  BY <1>2, <1>3, MovesTo
<1>5. QED BY <1>2, <1>4

LEMMA MovesIdle ==
    ASSUME NEW s \in State, NEW k \in Plcis, NEW t
    PROVE  /\ t = [s EXCEPT !.ctl[k] = IdleCtl] =>
                  Moves(s, t, k) /\ t.ctl[k].st = "idle" /\ t.ctl[k].b3 = "none"
           /\ t = [s EXCEPT !.ctl[k] = [IdleCtl EXCEPT !.st = "alloc"]] =>
                  Moves(s, t, k) /\ t.ctl[k].st = "alloc" /\ t.ctl[k].b3 = "none"
           /\ t = [s EXCEPT !.ctl[k] = [IdleCtl EXCEPT !.st = "incoming", !.incoming = TRUE]] =>
                  Moves(s, t, k) /\ t.ctl[k].st = "incoming" /\ t.ctl[k].b3 = "none"
<1> DEFINE a == [IdleCtl EXCEPT !.st = "alloc"]
           i == [IdleCtl EXCEPT !.st = "incoming", !.incoming = TRUE]
<1>1. IdleCtl \in Ctl /\ IdleCtl.st = "idle" /\ IdleCtl.b3 = "none"
  BY DEF IdleCtl, Ctl, CtlStates, B3States
<1>2. "alloc" \in CtlStates /\ "incoming" \in CtlStates  BY DEF CtlStates
<1>3. a \in Ctl /\ a.st = "alloc" /\ a.b3 = "none"  BY <1>1, <1>2 DEF Ctl
<1>4. i \in Ctl /\ i.st = "incoming" /\ i.b3 = "none"  BY <1>1, <1>2 DEF Ctl
<1>5. ASSUME t = [s EXCEPT !.ctl[k] = IdleCtl]
      PROVE  Moves(s, t, k) /\ t.ctl[k].st = "idle" /\ t.ctl[k].b3 = "none"
  <2>1. t = Set(s, k, IdleCtl)  BY <1>5 DEF Set
  <2>2. QED BY <1>1, <2>1, MovesTo
<1>6. ASSUME t = [s EXCEPT !.ctl[k] = a]
      PROVE  Moves(s, t, k) /\ t.ctl[k].st = "alloc" /\ t.ctl[k].b3 = "none"
  <2>1. t = Set(s, k, a)  BY <1>6 DEF Set
  <2> HIDE DEF a
  <2>2. QED BY <1>3, <2>1, MovesTo
<1>7. ASSUME t = [s EXCEPT !.ctl[k] = i]
      PROVE  Moves(s, t, k) /\ t.ctl[k].st = "incoming" /\ t.ctl[k].b3 = "none"
  <2>1. t = Set(s, k, i)  BY <1>7 DEF Set
  <2> HIDE DEF i
  <2>2. QED BY <1>4, <2>1, MovesTo
<1>8. QED BY <1>5, <1>6, <1>7

LEMMA TellFields ==
    ASSUME NEW s \in State, NEW i \in Ind, NEW t, t = tell(s, i)
    PROVE  Alike(s, t) /\ t.ctl = s.ctl /\ t.req = s.req /\ t.ind = Append(s.ind, i)
<1>1. t \in State  BY TellSame DEF Same
<1>2. QED BY <1>1 DEF tell, State, Alike

\* The channels are as they were: it is the controller that moved.
LEMMA Controlled ==
    ASSUME NEW s, Ties(s), NEW t, Alike(s, t), t.ind \in Seq(IndMsg), t.req \in Seq(ReqMsg),
           \A k \in Plcis : Goes(s.ctl[k], s.ind, s.req, t.ctl[k], t.ind, t.req, k),
           \A c \in Chans : Asks(s.pl[c], t.ind, t.req, c)
    PROVE  Fine(s, t)
<1>1. Lines(t)  BY DEF Lines, Goes
<1>2. ASSUME NEW c \in Chans PROVE Tied(t, c)
  <2>1. Tied(s, c)  BY DEF Ties
  <2>2. QED BY <2>1 DEF Tied, Goes, Alike
<1>3. \A c, d \in Chans : Apart(t, c, d)  BY DEF Ties, Apart, Alike
<1>4. Kept(s, t)  BY DEF Kept, Alike
<1>5. QED BY <1>1, <1>2, <1>3, <1>4 DEF Fine, Ties, Alike

LEMMA AsksLess ==
    ASSUME NEW p, NEW q, NEW r \in Seq(ReqMsg), r # <<>>, NEW c, Asks(p, q, r, c)
    PROVE  Asks(p, q, Tail(r), c)
<1>1. Has(Tail(r), Ask(c)) => Has(r, Ask(c))  BY Taken
<1>2. NoneAfter(r, Ask(c), Ask(c)) => NoneAfter(Tail(r), Ask(c), Ask(c))  BY Taken
<1>3. QED BY <1>1, <1>2 DEF Asks

LEMMA AsksTold ==
    ASSUME NEW p, NEW q \in Seq(IndMsg), NEW r, NEW c, Asks(p, q, r, c), NEW i, i \notin Ans(c)
    PROVE  Asks(p, Append(q, i), r, c)
<1>1. Has(Append(q, i), Ans(c)) => Has(q, Ans(c))  BY Added
<1>2. NoneAfter(q, Ans(c), Ans(c)) => NoneAfter(Append(q, i), Ans(c), Ans(c))  BY Added
<1>3. QED BY <1>1, <1>2 DEF Asks

\* A message that is not about the others.
News(i, k) == i \in IndMsg /\ i.type # "CONNECT_CONF" /\ \A j \in Plcis \ {k} : i \notin Real(j)

LEMMA Moved ==
    ASSUME NEW s, Ties(s), NEW t, Alike(s, t), NEW k \in Plcis,
           t.req = s.req \/ (s.req # <<>> /\ t.req = Tail(s.req)),
           t.ind = s.ind \/ \E i : News(i, k) /\ t.ind = Append(s.ind, i),
           \A j \in Plcis \ {k} : t.ctl[j] = s.ctl[j],
           Goes(s.ctl[k], s.ind, s.req, t.ctl[k], t.ind, t.req, k)
    PROVE  Fine(s, t)
<1>1. /\ s.ind \in Seq(IndMsg) /\ s.req \in Seq(ReqMsg)
      /\ \A j \in Plcis : Line(s.ctl[j], s.ind, s.req, j)
      /\ \A c \in Chans : Asks(s.pl[c], s.ind, s.req, c)
  BY DEF Ties, Lines, Tied
<1>2. t.req \in Seq(ReqMsg)
  <2>1. s.req # <<>> => Tail(s.req) \in Seq(ReqMsg)  BY <1>1
  <2>2. QED BY <1>1, <2>1
<1>3. t.ind \in Seq(IndMsg)
  <2>1. ASSUME NEW i, News(i, k) PROVE Append(s.ind, i) \in Seq(IndMsg)
    BY <1>1, <2>1 DEF News
  <2>2. QED BY <1>1, <2>1
<1>4. \A j \in Plcis : Less(s.req, t.req, j)  BY <1>1, LessSelf, LessTail
<1>5. ASSUME NEW j \in Plcis \ {k}
      PROVE  Goes(s.ctl[j], s.ind, s.req, t.ctl[j], t.ind, t.req, j)
  <2>1. Goes(s.ctl[j], s.ind, s.req, s.ctl[j], s.ind, t.req, j)  BY <1>1, <1>4, GoesQuiet
  <2>2. CASE t.ind = s.ind  BY <2>1, <2>2
  <2>3. ASSUME NEW i, News(i, k), t.ind = Append(s.ind, i)
        PROVE  Goes(s.ctl[j], s.ind, s.req, t.ctl[j], t.ind, t.req, j)
    <3>1. Line(s.ctl[j], s.ind, t.req, j) /\ i \notin Real(j)  BY <2>1, <2>3 DEF Goes, News
    <3>2. Goes(s.ctl[j], s.ind, t.req, s.ctl[j], Append(s.ind, i), t.req, j)
      BY <1>1, <3>1, GoesTold
    <3>3. Goes(s.ctl[j], s.ind, s.req, s.ctl[j], Append(s.ind, i), t.req, j)
      BY <2>1, <3>2, GoesOn
    <3>4. QED BY <2>3, <3>3
  <2>4. QED BY <2>2, <2>3
<1>6. ASSUME NEW c \in Chans PROVE Asks(s.pl[c], t.ind, t.req, c)
  <2>1. Asks(s.pl[c], s.ind, t.req, c)  BY <1>1, AsksLess
  <2>2. ASSUME NEW i, News(i, k) PROVE Asks(s.pl[c], Append(s.ind, i), t.req, c)
    <3>1. i \notin Ans(c)  BY <2>2 DEF News, Ans
    <3>2. QED BY <1>1, <2>1, <3>1, AsksTold
  <2>3. QED BY <2>1, <2>2
<1>7. QED BY <1>2, <1>3, <1>5, <1>6, Controlled

-----------------------------------------------------------------------------
(* The controller takes a request *)

Takes(s0, s, m) ==
    /\ s0 \in State /\ Ties(s0) /\ s0.req # <<>>
    /\ m = Head(s0.req) /\ s = [s0 EXCEPT !.req = Tail(@)]

LEMMA TakeFields ==
    ASSUME NEW s0, NEW s, NEW m, Takes(s0, s, m)
    PROVE  /\ Alike(s0, s) /\ s.ctl = s0.ctl /\ s.ind = s0.ind /\ s.req = Tail(s0.req)
           /\ s0.req # <<>> /\ m = Head(s0.req) /\ m \in ReqMsg
           /\ s0.ind \in Seq(IndMsg) /\ s0.req \in Seq(ReqMsg)
           /\ \A k \in Plcis : Line(s0.ctl[k], s0.ind, s0.req, k) /\ Less(s0.req, s.req, k)
<1>1. s0 \in State /\ s0.req # <<>> /\ m = Head(s0.req) /\ s = [s0 EXCEPT !.req = Tail(@)]
  BY DEF Takes
<1>2. /\ s0.ind \in Seq(IndMsg) /\ s0.req \in Seq(ReqMsg)
      /\ \A k \in Plcis : Line(s0.ctl[k], s0.ind, s0.req, k)
  BY DEF Takes, Ties, Lines
<1>3. s0.req \in Seq(Req) /\ Tail(s0.req) \in Seq(Req)  BY <1>1 DEF State
<1>4. Alike(s0, s) /\ s.ctl = s0.ctl /\ s.ind = s0.ind /\ s.req = Tail(s0.req)
  BY <1>1, <1>3 DEF State, Alike
<1>5. m \in ReqMsg  BY <1>1, <1>2
<1>6. \A k \in Plcis : Less(s0.req, s.req, k)  BY <1>1, <1>2, <1>4, LessTail
<1>7. QED BY <1>1, <1>2, <1>4, <1>5, <1>6

LEMMA TakeNone ==
    ASSUME NEW s0, NEW s, NEW m, Takes(s0, s, m)
    PROVE  Fine(s0, s)
<1>1. /\ Alike(s0, s) /\ s.ctl = s0.ctl /\ s.ind = s0.ind /\ s.req = Tail(s0.req)
      /\ s0.req # <<>> /\ s0.ind \in Seq(IndMsg) /\ s0.req \in Seq(ReqMsg)
      /\ \A k \in Plcis : Line(s0.ctl[k], s0.ind, s0.req, k) /\ Less(s0.req, s.req, k)
  BY TakeFields
<1>2. Ties(s0)  BY DEF Takes
<1>3. s.req \in Seq(ReqMsg)  BY <1>1
<1>4. \A k \in Plcis : Goes(s0.ctl[k], s0.ind, s0.req, s0.ctl[k], s0.ind, s.req, k)
  BY <1>1, GoesQuiet
<1>5. \A c \in Chans : Asks(s0.pl[c], s0.ind, s.req, c)
  BY <1>1, <1>2, AsksLess DEF Ties, Tied
<1>6. QED BY <1>1, <1>2, <1>3, <1>4, <1>5, Controlled

LEMMA TakeQuiet ==
    ASSUME NEW s0, NEW s, NEW m, Takes(s0, s, m), NEW k \in Plcis, NEW t, Moves(s, t, k),
           Goes(s0.ctl[k], s0.ind, s0.req, t.ctl[k], s0.ind, s.req, k)
    PROVE  Fine(s0, t)
<1>1. /\ Alike(s0, s) /\ s.ctl = s0.ctl /\ s.ind = s0.ind /\ s.req = Tail(s0.req)
      /\ s0.req # <<>>
  BY TakeFields
<1>2. Ties(s0)  BY DEF Takes
<1>3. /\ Alike(s0, t) /\ t.ind = s0.ind /\ t.req = s.req
      /\ \A j \in Plcis \ {k} : t.ctl[j] = s0.ctl[j]
  BY <1>1 DEF Moves, Alike
<1>4. QED BY <1>1, <1>2, <1>3, Moved

LEMMA TakeTold ==
    ASSUME NEW s0, NEW s, NEW m, Takes(s0, s, m), NEW k \in Plcis, NEW u, Moves(s, u, k),
           NEW i, News(i, k),
           Goes(s0.ctl[k], s0.ind, s0.req, u.ctl[k], Append(s0.ind, i), s.req, k)
    PROVE  Fine(s0, tell(u, i))
<1> DEFINE t == tell(u, i)
<1>1. /\ Alike(s0, s) /\ s.ctl = s0.ctl /\ s.ind = s0.ind /\ s.req = Tail(s0.req)
      /\ s0.req # <<>>
  BY TakeFields
<1>2. Ties(s0)  BY DEF Takes
<1>3. i \in Ind /\ u \in State  BY DEF News, IndMsg, Moves, Alike
<1>4. Alike(u, t) /\ t.ctl = u.ctl /\ t.req = u.req /\ t.ind = Append(u.ind, i)
  BY <1>3, TellFields
<1> HIDE DEF t
<1>5. /\ Alike(s0, t) /\ t.ind = Append(s0.ind, i) /\ t.req = s.req /\ t.ctl[k] = u.ctl[k]
      /\ \A j \in Plcis \ {k} : t.ctl[j] = s0.ctl[j]
  BY <1>1, <1>4 DEF Moves, Alike
<1>6. Goes(s0.ctl[k], s0.ind, s0.req, t.ctl[k], t.ind, t.req, k)  BY <1>5
<1>7. t.ind = s0.ind \/ \E j : News(j, k) /\ t.ind = Append(s0.ind, j)  BY <1>5
<1>8. /\ Alike(s0, t) /\ \A j \in Plcis \ {k} : t.ctl[j] = s0.ctl[j]
      /\ t.req = s0.req \/ (s0.req # <<>> /\ t.req = Tail(s0.req))
  BY <1>1, <1>5
<1>9. Fine(s0, t)  BY <1>2, <1>6, <1>7, <1>8, Moved
<1>10. QED BY <1>9 DEF t

LEMMA IndNews ==
    ASSUME NEW k \in Plcis, NEW type \in IndTypes \ {"CONNECT_CONF"}
    PROVE  /\ News(Message(type, k), k) /\ Message(type, k) \in Of({type}, k)
           /\ Message(type, k).type = type
<1> DEFINE i == Message(type, k)
<1>1. k \in Nat  BY DEF Plcis
<1>2. i \in Ind  BY <1>1, MessageInd
<1>3. i.type = type /\ i.plci = k /\ i.ok = TRUE  BY DEF Message
<1> HIDE DEF i
<1>4. i \in IndMsg  BY <1>2, <1>3 DEF IndMsg
<1>5. \A j \in Plcis \ {k} : i \notin Real(j)
  BY <1>3 DEF Real, Birth, Talk, End, Of
<1>6. News(i, k) /\ i \in Of({type}, k)  BY <1>2, <1>3, <1>4, <1>5 DEF News, Of
<1>7. QED BY <1>3, <1>6 DEF i

\* The refusal of a B channel.
LEMMA NoNews ==
    ASSUME NEW k \in Plcis, NEW i, i = [Message("CONNECT_B3_CONF", k) EXCEPT !.ok = FALSE]
    PROVE  News(i, k) /\ i \notin Real(k)
<1>1. k \in Nat  BY DEF Plcis
<1>2. i \in Ind  BY <1>1, MessageInd DEF IndTypes
<1>3. i.type = "CONNECT_B3_CONF" /\ i.plci = k /\ i.ok = FALSE  BY DEF Message
<1>4. i \in IndMsg  BY <1>2, <1>3 DEF IndMsg
<1>5. \A j : i \notin Real(j)  BY <1>3 DEF Real, Birth, Talk, End, Of
<1>6. QED BY <1>3, <1>4, <1>5 DEF News

\* What the request says of its PLCI.
LEMMA TakeLine ==
    ASSUME NEW s0, NEW s, NEW m, Takes(s0, s, m), NEW k \in Plcis, m \in To(k)
    PROVE  /\ s0.ctl[k].st # "idle" /\ ~Has(s0.ind, Birth(k))
           /\ m \in Resp(k) => Has(s0.req, Resp(k)) /\ ~Has(s.req, To(k))
           /\ m \in Accepts(k) => Has(s0.req, Accepts(k))
<1>1. /\ s.req = Tail(s0.req) /\ s0.req # <<>> /\ m = Head(s0.req) /\ s0.req \in Seq(ReqMsg)
      /\ Line(s0.ctl[k], s0.ind, s0.req, k)
  BY TakeFields
<1>2. \A P, Q :
          /\ Head(s0.req) \in P => Has(s0.req, P)
          /\ NoneAfter(s0.req, P, Q) /\ Head(s0.req) \in P => ~Has(Tail(s0.req), Q)
  BY <1>1, Taken
<1>3. QED BY <1>1, <1>2 DEF Line

\* The controller refuses a call, or takes it.
LEMMA TakeCall ==
    ASSUME NEW s0, NEW s, NEW m, Takes(s0, s, m), m.type = "CONNECT_REQ",
           NEW t \in Served(s, m)
    PROVE  Fine(s0, t)
<1> DEFINE c == m.id
<1>1. /\ Alike(s0, s) /\ s.ctl = s0.ctl /\ s.ind = s0.ind /\ s.req = Tail(s0.req)
      /\ s0.req # <<>> /\ m = Head(s0.req) /\ m \in ReqMsg
      /\ s0.ind \in Seq(IndMsg) /\ s0.req \in Seq(ReqMsg)
      /\ \A k \in Plcis : Line(s0.ctl[k], s0.ind, s0.req, k) /\ Less(s0.req, s.req, k)
  BY TakeFields
<1>2. Ties(s0) /\ s \in State  BY <1>1 DEF Takes, Alike
<1>3. c \in Chans /\ m \in Ask(c) /\ s.req \in Seq(ReqMsg)
  <2>1. c \in Chans /\ m \in Ask(c)  BY <1>1 DEF ReqMsg, Req, Ask
  <2>2. QED BY <1>1, <2>1
<1> HIDE DEF c
\* The channel waits for this answer only.
<1>4. ASSUME NEW i \in Ans(c), \A d \in Chans \ {c} : i \notin Ans(d), NEW d \in Chans
      PROVE  Asks(s0.pl[d], Append(s0.ind, i), s.req, d)
  <2>1. Asks(s0.pl[d], s0.ind, s0.req, d)  BY <1>2 DEF Ties, Tied
  <2>2. Asks(s0.pl[d], s0.ind, s.req, d)  BY <1>1, <2>1, AsksLess
  <2>3. CASE d # c  BY <1>1, <1>4, <2>2, <2>3, AsksTold
  <2>4. CASE d = c
    <3>1. Has(s0.req, Ask(c)) /\ (NoneAfter(s0.req, Ask(c), Ask(c)) => ~Has(s.req, Ask(c)))
      <4>1. \A P :
                /\ Head(s0.req) \in P => Has(s0.req, P)
                /\ NoneAfter(s0.req, P, P) /\ Head(s0.req) \in P => ~Has(Tail(s0.req), P)
        BY <1>1, Taken
      <4>2. QED BY <1>1, <1>3, <4>1
    <3>2. s0.pl[c].st = "OUTGOING" /\ ~Has(s0.ind, Ans(c)) /\ ~Has(s.req, Ask(c))
      BY <2>1, <2>4, <3>1 DEF Asks
    <3>3. NoneAfter(s0.ind, Ans(c), Ans(c)) => NoneAfter(Append(s0.ind, i), Ans(c), Ans(c))
      BY <1>1, <3>2, Added
    <3>4. QED BY <2>2, <2>4, <3>2, <3>3 DEF Asks
  <2>5. QED BY <2>3, <2>4
<1>5. ASSUME NEW i \in Ind, i.type = "CONNECT_CONF", i.id = c
      PROVE  i \in Ans(c) /\ \A d \in Chans \ {c} : i \notin Ans(d)
  BY <1>5 DEF Ans
<1>6. CASE t = tell(s, [Refused EXCEPT !.id = m.id])
  <2> DEFINE i == [Refused EXCEPT !.id = c]
  <2>1. i \in Ind  BY <1>3, MessageConf
  <2>2. i.type = "CONNECT_CONF" /\ i.id = c /\ i.ok = FALSE  BY DEF Refused, Message
  <2>3. t = tell(s, i)  BY <1>6 DEF c
  <2> HIDE DEF i
  <2>4. Alike(s, t) /\ t.ctl = s.ctl /\ t.req = s.req /\ t.ind = Append(s.ind, i)
    BY <1>2, <2>1, <2>3, TellFields
  <2>5. i \in IndMsg  BY <2>1, <2>2 DEF IndMsg
  <2>6. t.ind \in Seq(IndMsg)  BY <1>1, <2>4, <2>5
  <2>7. \A d \in Chans : Asks(s0.pl[d], t.ind, t.req, d)
    BY <1>1, <1>4, <1>5, <2>1, <2>2, <2>4
  <2>8. ASSUME NEW k \in Plcis
        PROVE  Goes(s0.ctl[k], s0.ind, s0.req, t.ctl[k], t.ind, t.req, k)
    <3>1. Goes(s0.ctl[k], s0.ind, s0.req, s0.ctl[k], s0.ind, s.req, k)  BY <1>1, GoesQuiet
    <3>2. i \notin Real(k)  BY <2>2 DEF Real, Birth, Talk, End, Of
    <3>3. Goes(s0.ctl[k], s0.ind, s.req, s0.ctl[k], Append(s0.ind, i), s.req, k)
      BY <1>1, <3>1, <3>2, GoesTold DEF Goes
    <3>4. QED BY <1>1, <2>4, <3>1, <3>3, GoesOn
  <2>9. Alike(s0, t)  BY <1>1, <2>4 DEF Alike
  <2>10. t.req \in Seq(ReqMsg)  BY <1>3, <2>4
  <2>11. QED BY <1>2, <2>6, <2>7, <2>8, <2>9, <2>10, Controlled
<1>7. ASSUME NEW h \in Plcis, s.ctl[h].st = "idle",
             t = tell([s EXCEPT !.ctl[h] = [IdleCtl EXCEPT !.st = "alloc"]],
                      [Message("CONNECT_CONF", h) EXCEPT !.id = m.id])
      PROVE  Fine(s0, t)
  <2> DEFINE i == [Message("CONNECT_CONF", h) EXCEPT !.id = c]
             u == [s EXCEPT !.ctl[h] = [IdleCtl EXCEPT !.st = "alloc"]]
  <2>1. i \in Ind
    <3>1. h \in Nat  BY DEF Plcis
    <3>2. QED BY <1>3, <3>1, MessageConf
  <2>2. i.type = "CONNECT_CONF" /\ i.id = c /\ i.ok = TRUE /\ i.plci = h  BY DEF Message
  <2>3. t = tell(u, i)  BY <1>7 DEF c
  <2> HIDE DEF i
  <2>4. Moves(s, u, h) /\ u.ctl[h].st = "alloc" /\ u.ctl[h].b3 = "none"  BY <1>2, MovesIdle
  <2> HIDE DEF u
  <2>5. Alike(u, t) /\ t.ctl = u.ctl /\ t.req = u.req /\ t.ind = Append(u.ind, i)
    BY <2>1, <2>3, <2>4, TellFields DEF Moves, Alike
  <2>6. /\ Alike(s0, t) /\ t.req = s.req /\ t.ind = Append(s0.ind, i)
        /\ t.ctl[h].st = "alloc" /\ t.ctl[h].b3 = "none"
        /\ \A j \in Plcis \ {h} : t.ctl[j] = s0.ctl[j]
    BY <1>1, <2>4, <2>5 DEF Moves, Alike
  <2>7. i \in IndMsg  BY <2>1, <2>2 DEF IndMsg
  <2>8. t.ind \in Seq(IndMsg) /\ t.req \in Seq(ReqMsg)  BY <1>1, <1>3, <2>6, <2>7
  <2>9. \A d \in Chans : Asks(s0.pl[d], t.ind, t.req, d)
    BY <1>1, <1>4, <1>5, <2>1, <2>2, <2>6
  <2>10. ASSUME NEW k \in Plcis
         PROVE  Goes(s0.ctl[k], s0.ind, s0.req, t.ctl[k], t.ind, t.req, k)
    <3>1. CASE k = h
      <4>1. i \in Birth(h) /\ i \notin Rings(h)  BY <2>1, <2>2 DEF Birth, Rings, Of
      <4>2. Goes(s0.ctl[h], s0.ind, s0.req, t.ctl[h], Append(s0.ind, i), s.req, h)
        BY <1>1, <1>7, <2>6, <4>1, GoesBorn
      <4>3. QED BY <2>6, <3>1, <4>2
    <3>2. CASE k # h
      <4>1. Goes(s0.ctl[k], s0.ind, s0.req, s0.ctl[k], s0.ind, s.req, k)  BY <1>1, GoesQuiet
      <4>2. i \notin Real(k)  BY <2>2, <3>2 DEF Real, Birth, Talk, End, Of
      <4>3. Goes(s0.ctl[k], s0.ind, s.req, s0.ctl[k], Append(s0.ind, i), s.req, k)
        BY <1>1, <4>1, <4>2, GoesTold DEF Goes
      <4>4. Goes(s0.ctl[k], s0.ind, s0.req, s0.ctl[k], Append(s0.ind, i), s.req, k)
        BY <4>1, <4>3, GoesOn
      <4>5. QED BY <2>6, <3>2, <4>4
    <3>3. QED BY <3>1, <3>2
  <2>11. QED BY <1>2, <2>6, <2>8, <2>9, <2>10, Controlled
<1>8. QED BY <1>6, <1>7 DEF Served

\* A request about a PLCI.
LEMMA TakeSt ==
    ASSUME NEW s0, NEW s, NEW m, Takes(s0, s, m), NEW k \in Plcis, m \in To(k),
           NEW st \in {"accepted", "clear"},
           st = "accepted" => m \in Accepts(k) /\ s.ctl[k].st = "incoming",
           st = "clear" => s.ctl[k].st \notin {"idle", "disc"},
           NEW t, t = SetSt(s, k, st)
    PROVE  /\ Fine(s0, t) /\ Moves(s, t, k)
           /\ Goes(s0.ctl[k], s0.ind, s0.req, t.ctl[k], s0.ind, s.req, k)
<1>1. /\ Alike(s0, s) /\ s.ctl = s0.ctl /\ Line(s0.ctl[k], s0.ind, s0.req, k)
      /\ Less(s0.req, s.req, k)
  BY TakeFields
<1>2. m \in Accepts(k) => Has(s0.req, Accepts(k))  BY TakeLine
<1>3. s \in State /\ st \in CtlStates  BY <1>1 DEF Alike, CtlStates
<1>4. Moves(s, t, k) /\ t.ctl[k].st = st /\ t.ctl[k].b3 = s.ctl[k].b3  BY <1>3, MovesSt
<1>5. Goes(s0.ctl[k], s0.ind, s0.req, t.ctl[k], s0.ind, s.req, k)
  <2>1. CASE st = "accepted"  BY <1>1, <1>2, <1>4, <2>1, GoesAccepted
  <2>2. CASE st = "clear"  BY <1>1, <1>4, <2>2, GoesQuiet
  <2>3. QED BY <2>1, <2>2
<1>6. Fine(s0, t)  BY <1>4, <1>5, TakeQuiet
<1>7. QED BY <1>4, <1>5, <1>6

LEMMA TakeB3 ==
    ASSUME NEW s0, NEW s, NEW m, Takes(s0, s, m), NEW k \in Plcis,
           NEW b3 \in {"alloc", "clear", "none"},
           b3 # "none" => Open(s.ctl[k]), b3 = "none" => s.ctl[k].b3 = "disc",
           NEW t, t = SetB3(s, k, b3)
    PROVE  Fine(s0, t)
<1>1. /\ Alike(s0, s) /\ s.ctl = s0.ctl /\ Line(s0.ctl[k], s0.ind, s0.req, k)
      /\ Less(s0.req, s.req, k)
  BY TakeFields
<1>2. s \in State /\ b3 \in B3States  BY <1>1 DEF Alike, B3States
<1>3. Moves(s, t, k) /\ t.ctl[k].b3 = b3 /\ t.ctl[k].st = s.ctl[k].st  BY <1>2, MovesB3
<1>4. Goes(s0.ctl[k], s0.ind, s0.req, t.ctl[k], s0.ind, s.req, k)
  <2>1. CASE b3 = "none"  BY <1>1, <1>3, <2>1, GoesQuiet
  <2>2. CASE b3 # "none"
    <3>1. Open(t.ctl[k])  BY <1>3, <2>2 DEF Open
    <3>2. QED BY <1>1, <1>3, <2>2, <3>1, GoesQuiet
  <2>3. QED BY <2>1, <2>2
<1>5. QED BY <1>3, <1>4, TakeQuiet

LEMMA TakeClear ==
    ASSUME NEW s0, NEW s, NEW m, Takes(s0, s, m), m.type = "DISCONNECT_REQ",
           NEW t \in Served(s, m)
    PROVE  Fine(s0, t)
<1> DEFINE k == m.plci
           i == Message("DISCONNECT_CONF", k)
<1>1. /\ Alike(s0, s) /\ s.ctl = s0.ctl /\ s.ind = s0.ind /\ s0.ind \in Seq(IndMsg) /\ m \in ReqMsg
  BY TakeFields
<1>2. k \in Plcis /\ m \in To(k)  BY <1>1 DEF ReqMsg, To
<1>3. PICK u : /\ t = tell(u, i)
               /\ u = s \/ (u = SetSt(s, k, "clear") /\ s.ctl[k].st \notin {"idle", "disc"})
  BY DEF Served, SetSt
<1>4. /\ News(i, k) /\ i.type = "DISCONNECT_CONF"
  BY <1>2, IndNews DEF IndTypes
<1> HIDE DEF i, k
<1>5. i \notin Real(k)  BY <1>4 DEF Real, Birth, Talk, End, Of
<1>6. Moves(s, u, k) /\ Goes(s0.ctl[k], s0.ind, s0.req, u.ctl[k], s0.ind, s.req, k)
  <2>1. CASE u = s
    <3>1. Moves(s, u, k)  BY <1>1, <2>1 DEF Moves, Alike
    <3>2. Line(s0.ctl[k], s0.ind, s0.req, k) /\ Less(s0.req, s.req, k)  BY <1>2, TakeFields
    <3>3. QED BY <1>1, <2>1, <3>1, <3>2, GoesQuiet
  <2>2. CASE u = SetSt(s, k, "clear") /\ s.ctl[k].st \notin {"idle", "disc"}
    BY <1>2, <2>2, TakeSt
  <2>3. QED BY <1>3, <2>1, <2>2
<1>7. Goes(u.ctl[k], s0.ind, s.req, u.ctl[k], Append(s0.ind, i), s.req, k)
  BY <1>1, <1>5, <1>6, GoesTold DEF Goes
<1>8. Goes(s0.ctl[k], s0.ind, s0.req, u.ctl[k], Append(s0.ind, i), s.req, k)
  BY <1>6, <1>7, GoesOn
<1>9. QED BY <1>2, <1>3, <1>4, <1>6, <1>8, TakeTold

LEMMA TakeEnd ==
    ASSUME NEW s0, NEW s, NEW m, Takes(s0, s, m), m.type = "DISCONNECT_RESP",
           NEW t \in Served(s, m)
    PROVE  Fine(s0, t)
<1> DEFINE k == m.plci
<1>1. /\ Alike(s0, s) /\ s.ctl = s0.ctl /\ m \in ReqMsg
  BY TakeFields
<1>2. k \in Plcis /\ m \in To(k) /\ m \in Resp(k)  BY <1>1 DEF ReqMsg, To, Resp
<1>3. t = [s EXCEPT !.ctl[k] = IdleCtl]  BY DEF Served
<1> HIDE DEF k
<1>4. Moves(s, t, k) /\ t.ctl[k].st = "idle" /\ t.ctl[k].b3 = "none"
  BY <1>1, <1>2, <1>3, MovesIdle DEF Alike
<1>5. Has(s0.req, Resp(k)) /\ ~Has(s.req, To(k))  BY <1>2, TakeLine
<1>6. Line(s0.ctl[k], s0.ind, s0.req, k) /\ Less(s0.req, s.req, k)  BY <1>2, TakeFields
<1>7. Goes(s0.ctl[k], s0.ind, s0.req, t.ctl[k], s0.ind, s.req, k)  BY <1>4, <1>5, <1>6, GoesIdle
<1>8. QED BY <1>2, <1>4, <1>7, TakeQuiet

LEMMA TakeOpen ==
    ASSUME NEW s0, NEW s, NEW m, Takes(s0, s, m), m.type = "CONNECT_B3_REQ",
           NEW t \in Served(s, m)
    PROVE  Fine(s0, t)
<1> DEFINE k == m.plci
<1>1. /\ Alike(s0, s) /\ s.ctl = s0.ctl /\ s0.ind \in Seq(IndMsg) /\ m \in ReqMsg
  BY TakeFields
<1>2. k \in Plcis /\ s \in State  BY <1>1 DEF ReqMsg, Alike
<1>3. Line(s0.ctl[k], s0.ind, s0.req, k) /\ Less(s0.req, s.req, k)  BY <1>2, TakeFields
<1>4. CASE t = tell(s, [Message("CONNECT_B3_CONF", k) EXCEPT !.ok = FALSE])
  <2> DEFINE i == [Message("CONNECT_B3_CONF", k) EXCEPT !.ok = FALSE]
  <2>1. News(i, k) /\ i \notin Real(k)  BY <1>2, NoNews
  <2>2. t = tell(s, i)  BY <1>4
  <2> HIDE DEF i, k
  <2>3. Moves(s, s, k)  BY <1>1 DEF Moves, Alike
  <2>4. Goes(s0.ctl[k], s0.ind, s0.req, s0.ctl[k], s0.ind, s.req, k)  BY <1>3, GoesQuiet
  <2>5. Goes(s0.ctl[k], s0.ind, s.req, s0.ctl[k], Append(s0.ind, i), s.req, k)
    BY <1>1, <2>1, <2>4, GoesTold DEF Goes
  <2>6. Goes(s0.ctl[k], s0.ind, s0.req, s.ctl[k], Append(s0.ind, i), s.req, k)
    BY <1>1, <2>4, <2>5, GoesOn
  <2>7. QED BY <1>2, <2>1, <2>2, <2>3, <2>6, TakeTold
<1>5. CASE /\ s.ctl[k].st = "active"
           /\ t = tell([s EXCEPT !.ctl[k].b3 = "alloc"], Message("CONNECT_B3_CONF", k))
  <2> DEFINE i == Message("CONNECT_B3_CONF", k)
             u == SetB3(s, k, "alloc")
  <2>1. News(i, k) /\ i \in Of({"CONNECT_B3_CONF"}, k)  BY <1>2, IndNews DEF IndTypes
  <2>2. t = tell(u, i)  BY <1>5 DEF SetB3
  <2> HIDE DEF i, k, u
  <2>3. i \in Raise(k)  BY <2>1 DEF Raise, Of
  <2>4. Moves(s, u, k) /\ u.ctl[k].b3 = "alloc" /\ u.ctl[k].st = s.ctl[k].st
    BY <1>2, MovesB3 DEF B3States, u
  <2>5. Open(u.ctl[k])  BY <2>4 DEF Open
  <2>6. Goes(s0.ctl[k], s0.ind, s0.req, u.ctl[k], Append(s0.ind, i), s.req, k)
    BY <1>1, <1>3, <1>5, <2>3, <2>4, <2>5, GoesRaise
  <2>7. QED BY <1>2, <2>1, <2>2, <2>4, <2>6, TakeTold
<1>6. QED BY <1>4, <1>5 DEF Served

LEMMA ServedTies ==
    ASSUME NEW s0, NEW s, NEW m, Takes(s0, s, m), NEW t \in Served(s, m)
    PROVE  Fine(s0, t)
<1> DEFINE k == m.plci
<1>1. m \in ReqMsg /\ m.type \in ReqTypes
  <2>1. m \in ReqMsg  BY TakeFields
  <2>2. QED BY <2>1 DEF ReqMsg, Req
<1>2. m.type \notin {"CONNECT_REQ", "DISCONNECT_B3_REQ"} => k \in Plcis /\ m \in To(k)
  BY <1>1 DEF ReqMsg, To
<1>3. CASE t = s  BY <1>3, TakeNone
<1>4. CASE m.type = "CONNECT_RESP"
  <2>1. t = s \/ (s.ctl[k].st = "incoming" /\ t = SetSt(s, k, "accepted"))
    BY <1>4 DEF Served, SetSt
  <2>2. m \in Accepts(k)  BY <1>2, <1>4 DEF Accepts
  <2>3. QED BY <1>2, <1>3, <1>4, <2>1, <2>2, TakeSt
<1>5. CASE m.type = "CONNECT_REJECT"
  <2>1. t = s \/ (s.ctl[k].st = "incoming" /\ t = SetSt(s, k, "clear"))
    BY <1>5 DEF Served, SetSt
  <2>2. QED BY <1>2, <1>3, <1>5, <2>1, TakeSt
<1>6. CASE m.type = "CONNECT_B3_RESP"
  <2>1. t = s \/ (s.ctl[k].b3 = "in" /\ t = SetB3(s, k, "alloc"))
    BY <1>6 DEF Served, SetB3
  <2>2. s.ctl[k].b3 = "in" => Open(s.ctl[k])  BY DEF Open
  <2>3. QED BY <1>2, <1>3, <1>6, <2>1, <2>2, TakeB3
<1>7. CASE m.type = "DISCONNECT_B3_REQ"
  <2>1. t = s \/ (k # 0 /\ s.ctl[k].b3 \in {"alloc", "active"} /\ t = SetB3(s, k, "clear"))
    BY <1>7 DEF Served, SetB3
  <2>2. s.ctl[k].b3 \in {"alloc", "active"} => Open(s.ctl[k])  BY DEF Open
  <2>3. k \in Plcis \cup {0}  BY <1>1, <1>7 DEF ReqMsg
  <2>4. QED BY <1>3, <2>1, <2>2, <2>3, TakeB3
<1>8. CASE m.type = "DISCONNECT_B3_RESP"
  <2>1. t = s \/ (s.ctl[k].b3 = "disc" /\ t = SetB3(s, k, "none"))
    BY <1>8 DEF Served, SetB3
  <2>2. QED BY <1>2, <1>3, <1>8, <2>1, TakeB3
<1>9. CASE m.type = "CONNECT_B3_REJECT"
  BY <1>3, <1>9 DEF Served
<1>10. QED
  BY <1>1, <1>4, <1>5, <1>6, <1>7, <1>8, <1>9, TakeCall, TakeClear, TakeEnd, TakeOpen DEF ReqTypes

-----------------------------------------------------------------------------
(* The invariant is inductive *)

TInv == IInv /\ Ties(Now)

LEMMA FineDo ==
    ASSUME NEW t, Fine(Now, t), Do(t)
    PROVE  Ties(Now)' /\ \A c \in Chans : ll[c].phase = "data" => ll'[c].phase \in {"data", "half"}
<1>1. t \in State /\ Ties(t) /\ Kept(Now, t)  BY DEF Fine
<1>2. t = [bchan |-> t.bchan, pl |-> t.pl, nc |-> t.nc, ctl |-> t.ctl,
           req |-> t.req, ind |-> t.ind, ll |-> t.ll]
  BY <1>1 DEF State
<1>3. Now' = t  BY <1>2 DEF Now, Do
<1>4. Ties(Now)'  BY <1>1, <1>3
<1>5. ll' = t.ll  BY DEF Do
<1>6. QED BY <1>1, <1>4, <1>5, NowFields DEF Kept

LEMMA InitTies == Init => Ties(Now)
<1> SUFFICES ASSUME Init PROVE Ties(Now)  OBVIOUS
<1>1. /\ Now.ind = <<>> /\ Now.req = <<>>
      /\ \A k \in Plcis : Now.ctl[k] = IdleCtl
      /\ \A c \in Chans : /\ Now.pl[c] = NoPlci /\ Now.nc[c] = NoNcci
                          /\ Now.ll[c] = NoCall /\ Now.bchan[c] = Clean
  BY NowFields DEF Init
<1>2. /\ \A P : ~Has(<<>>, P)
      /\ \A P, Q : NoneAfter(<<>>, P, Q) /\ Followed(<<>>, P, Q)
  BY DEF Has, NoneAfter, Followed
<1>3. ASSUME NEW k PROVE Line(IdleCtl, <<>>, <<>>, k)
  <2>1. IdleCtl.st = "idle" /\ IdleCtl.b3 = "none"  BY DEF IdleCtl
  <2>2. QED BY <1>2, <2>1 DEF Line, Open
<1>4. Cell(NoPlci, NoNcci, NoCall, Clean)
  BY DEF Cell, NoPlci, NoNcci, NoCall, Clean, Live
<1>5. ASSUME NEW c PROVE Asks(NoPlci, <<>>, <<>>, c)  BY <1>2 DEF Asks
<1>6. NoPlci.plci = 0 /\ \A k \in Plcis : NoPlci.plci # k  BY DEF NoPlci, Plcis
<1>7. QED BY <1>1, <1>3, <1>4, <1>5, <1>6 DEF Ties, Lines, Tied, Apart

LEMMA SignalTies == ASSUME TInv, capidrv_signal PROVE \E t : Fine(Now, t) /\ Do(t)
<1> DEFINE s == [Now EXCEPT !.ind = Tail(@)]
           m == Head(ind)
<1>1. Now \in State /\ Good(Now) /\ Ties(Now)  BY DEF TInv, IInv, Good
<1>2. ind # <<>> /\ Now.ind = ind  BY NowFields DEF capidrv_signal
<1>3. PICK t \in Handled(s, m) : Do(t)  BY DEF capidrv_signal
<1>4. Pops(Now, s, m)  BY <1>1, <1>2 DEF Pops
<1> HIDE DEF s, m
<1>5. Fine(s, t)  BY <1>3, <1>4, HandledTies
<1>6. s.ll = Now.ll  BY <1>4, PopFields
<1>7. Fine(Now, t)  BY <1>5, <1>6 DEF Fine, Kept
<1>8. QED BY <1>3, <1>7

LEMMA ServeTies == ASSUME TInv, Serve PROVE \E t : Fine(Now, t) /\ Do(t)
<1> DEFINE s == [Now EXCEPT !.req = Tail(@)]
           m == Head(req)
<1>1. Now \in State /\ Ties(Now)  BY DEF TInv, IInv, Good
<1>2. req # <<>> /\ Now.req = req  BY NowFields DEF Serve
<1>3. PICK t \in Served(s, m) : Do(t)  BY DEF Serve
<1>4. Takes(Now, s, m)  BY <1>1, <1>2 DEF Takes
<1> HIDE DEF s, m
<1>5. QED BY <1>3, <1>4, ServedTies

LEMMA CommandTies ==
    ASSUME TInv, NEW c \in Chans, DIAL(c) \/ ACCEPTD(c) \/ HANGUP(c)
    PROVE  \E t : Fine(Now, t) /\ Do(t)
<1>1. Now \in State /\ Good(Now) /\ Ties(Now)  BY DEF TInv, IInv, Good
<1>2. Now.ll = ll /\ Now.pl = pl  BY NowFields
<1>3. CASE DIAL(c)
  <2> DEFINE u == [Now EXCEPT !.ll[c].phase = "setup", !.ll[c].dialed = TRUE]
  <2>1. /\ Now.ll[c].phase = "null"
        /\ Do(IF Now.pl[c].st # "NONE" THEN u
              ELSE send_message(new_plci(u, c, 0, "CONNECT_REQ"), CONNECT_REQ(c)))
    BY <1>2, <1>3 DEF DIAL
  <2>2. /\ Now.pl[c].st # "NONE" => Fine(Now, u)
        /\ Now.pl[c].st = "NONE" =>
               Fine(Now, send_message(new_plci(u, c, 0, "CONNECT_REQ"), CONNECT_REQ(c)))
    BY <1>1, <2>1, DialTies, Zenon
  <2> HIDE DEF u
  <2>3. QED BY <2>1, <2>2
<1>4. CASE ACCEPTD(c)
  BY <1>1, <1>2, <1>4, AcceptdTies DEF ACCEPTD
<1>5. CASE HANGUP(c)
  <2> DEFINE u == [hangup(Now, c) EXCEPT !.ll[c].hung = TRUE]
  <2>1. Do(u)  BY <1>5 DEF HANGUP
  <2>2. Fine(Now, u)  BY <1>1, HangupTies
  <2> HIDE DEF u
  <2>3. QED BY <2>1, <2>2
<1>6. QED BY <1>3, <1>4, <1>5

LEMMA TellTies ==
    ASSUME NEW s, Ties(s), NEW k \in Plcis, NEW u, Moves(s, u, k), NEW i, News(i, k),
           Goes(s.ctl[k], s.ind, s.req, u.ctl[k], Append(s.ind, i), s.req, k)
    PROVE  Fine(s, tell(u, i))
<1> DEFINE t == tell(u, i)
<1>1. i \in Ind /\ u \in State  BY DEF News, IndMsg, Moves, Alike
<1>2. Alike(u, t) /\ t.ctl = u.ctl /\ t.req = u.req /\ t.ind = Append(u.ind, i)
  BY <1>1, TellFields
<1> HIDE DEF t
<1>3. /\ Alike(s, t) /\ t.ind = Append(s.ind, i) /\ t.req = s.req /\ t.ctl[k] = u.ctl[k]
      /\ \A j \in Plcis \ {k} : t.ctl[j] = s.ctl[j]
  BY <1>2 DEF Moves, Alike
<1>4. Goes(s.ctl[k], s.ind, s.req, t.ctl[k], t.ind, t.req, k)  BY <1>3
<1>5. t.ind = s.ind \/ \E j : News(j, k) /\ t.ind = Append(s.ind, j)  BY <1>3
<1>6. /\ Alike(s, t) /\ \A j \in Plcis \ {k} : t.ctl[j] = s.ctl[j]
      /\ t.req = s.req \/ (s.req # <<>> /\ t.req = Tail(s.req))
  BY <1>3
<1>7. Fine(s, t)  BY <1>4, <1>5, <1>6, Moved
<1>8. QED BY <1>7 DEF t

LEMMA ControllerTies ==
    ASSUME TInv, NEW k \in Plcis,
           Called(k) \/ Answered(k) \/ OpenB3(k) \/ B3Up(k) \/ B3Down(k) \/ Cleared(k)
    PROVE  \E t : Fine(Now, t) /\ Do(t)
<1> DEFINE x == Now.ctl[k]
           q == Now.ind
           r == Now.req
<1>1. Now \in State /\ Ties(Now) /\ Now.ctl = ctl
  BY NowFields DEF TInv, IInv, Good
<1>2. q \in Seq(IndMsg) /\ Line(x, q, r, k) /\ Less(r, r, k)  BY <1>1, LessSelf DEF Ties, Lines
<1>3. ASSUME NEW u, Moves(Now, u, k), NEW type \in IndTypes \ {"CONNECT_CONF"},
             Do(tell(u, Message(type, k))),
             Goes(x, q, r, u.ctl[k], Append(q, Message(type, k)), r, k)
      PROVE  \E t : Fine(Now, t) /\ Do(t)
  <2> DEFINE i == Message(type, k)
  <2>1. News(i, k)  BY IndNews
  <2> HIDE DEF i
  <2>2. Fine(Now, tell(u, i))  BY <1>1, <1>3, <2>1, TellTies DEF i
  <2>3. QED BY <1>3, <2>2 DEF i
<1>4. \A type \in IndTypes \ {"CONNECT_CONF"} : Message(type, k) \in Of({type}, k)
  BY IndNews
<1>5. CASE Called(k)
  <2> DEFINE u == [Now EXCEPT !.ctl[k] = [IdleCtl EXCEPT !.st = "incoming", !.incoming = TRUE]]
             i == Message("CONNECT_IND", k)
  <2>1. x.st = "idle" /\ Do(tell(u, i))  BY <1>1, <1>5 DEF Called
  <2>2. Moves(Now, u, k) /\ u.ctl[k].st = "incoming" /\ u.ctl[k].b3 = "none"
    BY <1>1, MovesIdle
  <2>3. i \in Birth(k)  BY <1>4 DEF Birth, Of, IndTypes
  <2> HIDE DEF u, x, q, r
  <2>4. Goes(x, q, r, u.ctl[k], Append(q, i), r, k)  BY <1>2, <2>1, <2>2, <2>3, GoesBorn
  <2>5. QED BY <1>3, <2>1, <2>2, <2>4 DEF IndTypes
<1>6. ASSUME NEW st \in {"alloc", "accepted"}, Step(k, st, "active", "CONNECT_ACTIVE_IND")
      PROVE  \E t : Fine(Now, t) /\ Do(t)
  <2> DEFINE u == SetSt(Now, k, "active")
             i == Message("CONNECT_ACTIVE_IND", k)
  <2>1. x.st \in {"alloc", "accepted"} /\ Do(tell(u, i))  BY <1>1, <1>6 DEF Step, SetSt
  <2> HIDE DEF u
  <2>2. Moves(Now, u, k) /\ u.ctl[k].st = "active" /\ u.ctl[k].b3 = x.b3
    BY <1>1, MovesSt DEF CtlStates, u
  <2>3. i \in Call(k)  BY <1>4 DEF Call, IndTypes
  <2> HIDE DEF x, q, r
  <2>4. Goes(x, q, r, u.ctl[k], Append(q, i), r, k)  BY <1>2, <2>1, <2>2, <2>3, GoesActive
  <2>5. QED BY <1>3, <2>1, <2>2, <2>4 DEF IndTypes
<1>7. CASE OpenB3(k)
  <2> DEFINE u == SetB3(Now, k, "in")
             i == Message("CONNECT_B3_IND", k)
  <2>1. x.st = "active" /\ Do(tell(u, i))  BY <1>1, <1>7 DEF OpenB3, StepB3, SetB3
  <2> HIDE DEF u
  <2>2. Moves(Now, u, k) /\ u.ctl[k].b3 = "in" /\ u.ctl[k].st = x.st
    BY <1>1, MovesB3 DEF B3States, u
  <2>3. i \in Raise(k)  BY <1>4 DEF Raise, Of, IndTypes
  <2>4. Open(u.ctl[k])  BY <2>2 DEF Open
  <2> HIDE DEF x, q, r
  <2>5. Goes(x, q, r, u.ctl[k], Append(q, i), r, k)
    BY <1>2, <2>1, <2>2, <2>3, <2>4, GoesRaise
  <2>6. QED BY <1>3, <2>1, <2>2, <2>5 DEF IndTypes
<1>8. CASE B3Up(k)
  <2> DEFINE u == SetB3(Now, k, "active")
             i == Message("CONNECT_B3_ACTIVE_IND", k)
  <2>1. x.st = "active" /\ x.b3 = "alloc" /\ Do(tell(u, i))
    BY <1>1, <1>8 DEF B3Up, StepB3, SetB3
  <2> HIDE DEF u
  <2>2. Moves(Now, u, k) /\ u.ctl[k].b3 = "active" /\ u.ctl[k].st = x.st
    BY <1>1, MovesB3 DEF B3States, u
  <2>3. i \in Talk(k) /\ i \notin Call(k) /\ i \notin B3(k)
    BY <1>4 DEF Talk, Call, B3, Of, IndTypes
  <2>4. Open(u.ctl[k])  BY <2>2 DEF Open
  <2> HIDE DEF x, q, r
  <2>5. Goes(x, q, r, u.ctl[k], Append(q, i), r, k)
    BY <1>2, <2>1, <2>2, <2>3, <2>4, GoesUp
  <2>6. QED BY <1>3, <2>1, <2>2, <2>5 DEF IndTypes
<1>9. CASE B3Down(k)
  <2> DEFINE u == SetB3(Now, k, "disc")
             i == Message("DISCONNECT_B3_IND", k)
  <2>1. Open(x) /\ Do(tell(u, i))  BY <1>1, <1>9 DEF B3Down, StepB3, SetB3, Open
  <2> HIDE DEF u
  <2>2. Moves(Now, u, k) /\ u.ctl[k].b3 = "disc" /\ u.ctl[k].st = x.st
    BY <1>1, MovesB3 DEF B3States, u
  <2>3. i \in Down(k)  BY <1>4 DEF Down, IndTypes
  <2> HIDE DEF x, q, r
  <2>4. Goes(x, q, r, u.ctl[k], Append(q, i), r, k)  BY <1>2, <2>1, <2>2, <2>3, GoesDown
  <2>5. QED BY <1>3, <2>1, <2>2, <2>4 DEF IndTypes
<1>10. ASSUME x.b3 \in {"none", "disc"},
              NEW st \in {"incoming", "alloc", "accepted", "active", "clear"},
              Step(k, st, "disc", "DISCONNECT_IND")
       PROVE  \E t : Fine(Now, t) /\ Do(t)
  <2> DEFINE u == SetSt(Now, k, "disc")
             i == Message("DISCONNECT_IND", k)
  <2>1. x.st \notin {"idle", "disc"} /\ ~Open(x) /\ Do(tell(u, i))
    BY <1>1, <1>10 DEF Step, SetSt, Open
  <2> HIDE DEF u
  <2>2. Moves(Now, u, k) /\ u.ctl[k].st = "disc" /\ u.ctl[k].b3 = x.b3
    BY <1>1, MovesSt DEF CtlStates, u
  <2>3. i \in End(k)  BY <1>4 DEF End, IndTypes
  <2> HIDE DEF x, q, r
  <2>4. Goes(x, q, r, u.ctl[k], Append(q, i), r, k)  BY <1>2, <2>1, <2>2, <2>3, GoesEnd
  <2>5. QED BY <1>3, <2>1, <2>2, <2>4 DEF IndTypes
<1>11. CASE Answered(k)  BY <1>6, <1>11 DEF Answered
<1>12. CASE Cleared(k)  BY <1>1, <1>10, <1>12 DEF Cleared
<1>13. QED BY <1>5, <1>7, <1>8, <1>9, <1>11, <1>12

LEMMA NextTies ==
    TInv /\ [Next]_vars =>
        /\ TInv'
        /\ \A c \in Chans : ll[c].phase = "data" => ll'[c].phase \in {"data", "half"}
<1> SUFFICES ASSUME TInv, [Next]_vars
             PROVE  /\ TInv'
                    /\ \A c \in Chans : ll[c].phase = "data" => ll'[c].phase \in {"data", "half"}
  OBVIOUS
<1>1. IInv'  BY NextGood DEF TInv
<1>2. CASE Next
  <2>1. \E t : Fine(Now, t) /\ Do(t)
    BY <1>2, SignalTies, ServeTies, CommandTies, ControllerTies DEF Next
  <2>2. QED BY <1>1, <2>1, FineDo DEF TInv
<1>3. CASE UNCHANGED vars
  <2>1. Now' = Now /\ ll' = ll  BY <1>3 DEF vars, Now
  <2>2. QED BY <1>1, <2>1 DEF TInv
<1>4. QED BY <1>2, <1>3

LEMMA TInvAlways == Spec => []TInv
<1>1. Init => TInv  BY InitGood, InitTies DEF TInv
<1>2. TInv /\ [Next]_vars => TInv'  BY NextTies
<1>3. QED BY <1>1, <1>2, PTL DEF Spec

\* An NCCI that lets data through is one of the channel's own PLCI, which no
\* other channel has, and the link level knows of it; a call that is connected
\* is of the direction that the link level takes it for (find_plci_by_plci,
\* find_ncci, new_ncci, free_ncci).
THEOREM NcciOwnedAlways == Spec => []NcciOwned
<1>1. TInv => NcciOwned
  <2> SUFFICES ASSUME TInv, NEW c \in Chans
               PROVE  /\ nc[c].st = "ACTIVE" =>
                             /\ nc[c].listed /\ ll[c].phase = "data"
                             /\ find_plci_by_plci(Now, nc[c].ncci) = {c}
                      /\ nc[c].st \notin {"NONE", "OUTGOING"} => nc[c].listed
                      /\ ll[c].phase \in {"up", "data", "half"} => ll[c].dialed # bchan[c].incoming
    BY DEF NcciOwned
  <2>1. /\ \A d \in Chans : Cell(pl[d], nc[d], ll[d], bchan[d])
        /\ \A d, e \in Chans : pl[d].plci = pl[e].plci => d = e \/ pl[d].plci = 0
    BY NowFields DEF TInv, Ties, Tied, Apart
  <2>2. ASSUME Live(nc[c]) PROVE find_plci_by_plci(Now, nc[c].ncci) = {c}
    <3>1. nc[c].ncci = pl[c].plci /\ pl[c].plci # 0 /\ pl[c].st # "NONE"
      BY <2>1, <2>2 DEF Cell
    <3>2. \A d \in Chans : pl[d].plci = nc[c].ncci => d = c  BY <2>1, <3>1
    <3>3. QED BY <3>1, <3>2, NowFields DEF find_plci_by_plci
  <2>3. QED BY <2>1, <2>2 DEF Cell, Live
<1>2. QED BY <1>1, TInvAlways, PTL

\* The link level hears of the end of a B channel for data before it hears of
\* the end of its call (n0, p0, STAT_BHUP, STAT_DHUP).
THEOREM BhupFirstAlways == Spec => BhupFirst
<1>1. TInv /\ [Next]_vars =>
          [\A c \in Chans : ll[c].phase = "data" => ll'[c].phase \in {"data", "half"}]_vars
  BY NextTies
<1>2. QED BY <1>1, TInvAlways, PTL DEF Spec, BhupFirst
=============================================================================

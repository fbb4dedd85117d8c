----------------------------- MODULE DChan_proof -----------------------------
(***************************************************************************)
(* The link control of layer 3 and the TEI manager over layer 2, for any   *)
(* number of calls, any queue and every value of the constants.  The proof *)
(* follows the fields of layer 2 that say how far the link is (Known)      *)
(* through every handler, then the calls that layer 3 and the TEI manager  *)
(* make from inside them, and only then looks at the steps.                *)
(***************************************************************************)
EXTENDS DChan, FiniteSetTheorems, WellFoundedInduction, TLAPS

-----------------------------------------------------------------------------
(***************************************************************************)
(* Induction on the natural numbers, for a set: the n messages that        *)
(* SendAll hands to layer 2 are taken one after the other.                 *)
(***************************************************************************)

LEMMA Least ==
    ASSUME NEW S \in SUBSET Nat, S # {}
    PROVE  \E n \in S : \A m \in S : ~(m < n)
<1> DEFINE R == OpToRel(<, Nat)
<1>1. IsWellFoundedOn(R, Nat)
  BY NatLessThanWellFounded
<1>2. \A x, y : <<x, y>> \in R <=> x \in Nat /\ y \in Nat /\ x < y
  BY DEF OpToRel
<1> HIDE DEF R
<1>3. PICK n \in S : \A m \in S : ~(<<m, n>> \in R)
  BY <1>1, WFMin
<1>4. \A m \in S : ~(m < n)
  BY <1>2, <1>3
<1> QED BY <1>4

LEMMA NatInd ==
    ASSUME NEW T, 0 \in T, \A n \in Nat : n \in T => n + 1 \in T
    PROVE  Nat \subseteq T
<1> SUFFICES ASSUME ~(Nat \subseteq T) PROVE FALSE
  OBVIOUS
<1> DEFINE S == {n \in Nat : n \notin T}
<1>1. S \in SUBSET Nat /\ S # {}
  OBVIOUS
<1>2. PICK n \in S : \A m \in S : ~(m < n)
  BY <1>1, Least
<1>3. n \in Nat /\ n # 0 /\ n \notin T
  OBVIOUS
<1>4. n - 1 \in Nat /\ n - 1 < n /\ (n - 1) + 1 = n
  BY <1>3
<1>5. n - 1 \in S
  BY <1>3, <1>4
<1> QED BY <1>2, <1>4, <1>5

-----------------------------------------------------------------------------
(* The fields of layer 2 that say how far the link is *)

Known(s) ==
    {"st", "tei", "estabPend", "l3Init", "pendRel", "l1Activ", "up", "req"} \subseteq DOMAIN s

\* What a handler of the link itself leaves alone, and the rest.
Link(s, t) ==
    Known(t) /\ t.tei = s.tei /\ t.estabPend = s.estabPend /\ t.l1Activ = s.l1Activ
Same(s, t) == Link(s, t) /\ t.st = s.st /\ t.l3Init = s.l3Init /\ t.pendRel = s.pendRel
Calm(s, t) == Same(s, t) /\ t.up = s.up /\ t.req = s.req

USE DEF Known, Link, Same, Calm, Warn, Ask, AddT200, AddT203, start_t200, restart_t200,
        stop_t200, RestartT203, DelT203, FsmChangeState, set_peer_busy, clear_peer_busy,
        clear_exception, freewin, PurgeI, PurgeUI, ResetVars, Send, AddTxCnt, enqueue_super,
        send_uframe, l2_send_UA, l2_send_DM, enquiry_cr, enquiry_response, transmit_enquiry,
        L2L3, Tell, lapb_dl_release_l2l3, st5_dl_release_l2l3, GotNr

LEMMA CalmPull ==
    ASSUME NEW s, Known(s)
    PROVE  Calm(s, l2_pull_iqueue(s))
<1> DEFINE slot == Slot(s, Outstanding(s))
           f == [t |-> "I", rsp |-> FALSE, pf |-> FALSE,
                 ns |-> s.vs, nr |-> s.vr, d |-> Head(s.iq)]
           a == Warn(s, s.win[slot] # NoSkb, "overwrite ack queue")
           b == [a EXCEPT !.iq = Tail(@), !.win[slot] = Head(s.iq),
                          !.vs = Inc(@), !.ackPend = FALSE]
           c == Send(b, f)
           e == IF ~s.t200Run THEN start_t200(DelT203(c)) ELSE c
           g == [e EXCEPT !.pullReq = @ \/ (e.iq # <<>> /\ cansend(e))]
<1>1. l2_pull_iqueue(s) = IF ~cansend(s) \/ s.iq = <<>> THEN s ELSE g
  BY DEF l2_pull_iqueue
<1>2. Calm(s, c)
  <2>1. Calm(s, a)
    OBVIOUS
  <2> HIDE DEF a, slot
  <2> QED BY <2>1
<1> HIDE DEF c
<1>3. Calm(s, e)
  BY <1>2
<1> HIDE DEF e
<1>4. Calm(s, g)
  BY <1>3
<1> HIDE DEF g
<1> QED BY <1>1, <1>4

LEMMA CalmRequest ==
    ASSUME NEW s, Known(s)
    PROVE  /\ Calm(s, AckPull(s)) /\ Calm(s, PullRequest(s)) /\ Calm(s, PullIfWaiting(s))
           /\ Calm(s, PhPullConfirm(s))
<1>1. \A a : Known(a) => Calm(a, AckPull(a))
  <2> SUFFICES ASSUME NEW a, Known(a) PROVE Calm(a, AckPull(a))
    OBVIOUS
  <2>1. Calm(a, l2_pull_iqueue(a))
    BY CalmPull
  <2> QED BY <2>1 DEF AckPull
<1> DEFINE u == [s EXCEPT !.pullReq = FALSE]
<1>2. Calm(s, AckPull(u)) /\ Calm(s, AckPull(s))
  <2>1. Calm(s, u)
    OBVIOUS
  <2> HIDE DEF u
  <2> QED BY <1>1, <2>1
<1>3. Calm(s, PullRequest(s)) /\ Calm(s, PhPullConfirm(s))
  BY <1>2 DEF PullRequest, PhPullConfirm
<1> QED BY <1>2, <1>3 DEF PullIfWaiting

LEMMA CalmDlData ==
    ASSUME NEW s, Known(s), NEW m
    PROVE  Calm(s, EvDlData(s, m))
<1> DEFINE counted == AddTxCnt(s, 1)
           queued == [counted EXCEPT !.iq = Append(@, m)]
<1>1. Calm(s, counted) /\ Calm(s, queued)
  OBVIOUS
<1> HIDE DEF counted, queued
<1>2. Calm(s, PullRequest(queued))
  BY <1>1, CalmRequest
<1>3. EvDlData(s, m) = CASE s.st = 5 -> IF s.l3Init THEN counted ELSE queued
                         [] s.st = 7 -> PullRequest(queued)
                         [] s.st = 8 -> queued
                         [] OTHER -> s
  BY DEF EvDlData, counted, queued
<1>4. EvDlData(s, m) \in {s, counted, queued, PullRequest(queued)}
  BY <1>3
<1> HIDE DEF Calm
<1>5. Calm(s, s)
  BY DEF Calm
<1> QED BY <1>1, <1>2, <1>4, <1>5

-----------------------------------------------------------------------------
(* n messages in a row: Sent is what its recursion says, by induction. *)

Steps(f, s, n) ==
    f = [k \in 0 .. n |-> IF k = 0 THEN s ELSE EvDlData(f[k - 1], Msg)]

LEMMA SentIs ==
    ASSUME NEW s, NEW n
    PROVE  Sent(s, n) = (CHOOSE f : Steps(f, s, n))[n]
  BY DEF Sent, Repeat, SendMsg, Steps

LEMMA StepsExist ==
    ASSUME NEW s, NEW n \in Nat
    PROVE  \E f : Steps(f, s, n)
<1> DEFINE T == {k \in Nat : \E f : Steps(f, s, k)}
<1>1. 0 \in T
  <2> DEFINE g == [k \in 0 .. 0 |-> s]
  <2>1. Steps(g, s, 0)
    BY DEF Steps
  <2> QED BY <2>1
<1>2. \A k \in Nat : k \in T => k + 1 \in T
  <2> SUFFICES ASSUME NEW k \in Nat, k \in T PROVE k + 1 \in T
    OBVIOUS
  <2>1. PICK f : Steps(f, s, k)
    OBVIOUS
  <2>2. \A j \in 0 .. k : f[j] = IF j = 0 THEN s ELSE EvDlData(f[j - 1], Msg)
    BY <2>1 DEF Steps
  <2> DEFINE g == [j \in 0 .. k + 1 |-> IF j = k + 1 THEN EvDlData(f[k], Msg) ELSE f[j]]
             h == [j \in 0 .. k + 1 |-> IF j = 0 THEN s ELSE EvDlData(g[j - 1], Msg)]
  <2>3. \A j \in 0 .. k + 1 : g[j] = h[j]
    <3> SUFFICES ASSUME NEW j \in 0 .. k + 1 PROVE g[j] = h[j]
      OBVIOUS
    <3>1. CASE j = 0
      <4>1. j # k + 1 /\ j \in 0 .. k
        BY <3>1
      <4> QED BY <2>2, <3>1, <4>1
    <3>2. CASE j # 0 /\ j # k + 1
      <4>1. j \in 0 .. k /\ j - 1 \in 0 .. k + 1 /\ j - 1 # k + 1
        BY <3>2
      <4> QED BY <2>2, <3>2, <4>1
    <3>3. CASE j = k + 1
      <4>1. j # 0 /\ j - 1 = k /\ k \in 0 .. k + 1 /\ k # k + 1
        BY <3>3
      <4> QED BY <3>3, <4>1
    <3> QED BY <3>1, <3>2, <3>3
  <2>4. g = [j \in 0 .. k + 1 |-> g[j]] /\ h = [j \in 0 .. k + 1 |-> h[j]]
    OBVIOUS
  <2>5. g = h
    <3> HIDE DEF g, h
    <3> QED BY <2>3, <2>4
  <2>6. Steps(g, s, k + 1)
    <3> HIDE DEF g
    <3> QED BY <2>5 DEF Steps
  <2>7. k + 1 \in Nat
    OBVIOUS
  <2> QED BY <2>6, <2>7
<1>3. Nat \subseteq T
  <2> HIDE DEF T
  <2> QED BY <1>1, <1>2, NatInd
<1> QED BY <1>3

\* Messages change nothing but the queue and the transmitter.
LEMMA CalmSent ==
    ASSUME NEW s, Known(s), NEW n \in Nat
    PROVE  Calm(s, Sent(s, n))
<1> DEFINE f == CHOOSE g : Steps(g, s, n)
           T == {k \in Nat : k <= n => Calm(s, f[k])}
<1>1. Steps(f, s, n)
  BY StepsExist
<1> HIDE DEF f, Calm
<1>2. \A k \in 0 .. n : f[k] = IF k = 0 THEN s ELSE EvDlData(f[k - 1], Msg)
  BY <1>1 DEF Steps
<1>3. 0 \in T
  <2>1. f[0] = s
    BY <1>2
  <2>2. Calm(s, s)
    BY DEF Calm
  <2> QED BY <2>1, <2>2
<1>4. \A k \in Nat : k \in T => k + 1 \in T
  <2> SUFFICES ASSUME NEW k \in Nat, k \in T, k + 1 <= n PROVE Calm(s, f[k + 1])
    OBVIOUS
  <2>1. Calm(s, f[k])
    BY k <= n
  <2>2. f[k + 1] = EvDlData(f[k], Msg)
    <3>1. k + 1 \in 0 .. n /\ k + 1 # 0 /\ (k + 1) - 1 = k
      OBVIOUS
    <3> QED BY <1>2, <3>1
  <2>3. Calm(f[k], EvDlData(f[k], Msg))
    BY <2>1, CalmDlData DEF Calm
  <2> QED BY <2>1, <2>2, <2>3 DEF Calm
<1>5. Nat \subseteq T
  <2> HIDE DEF T
  <2> QED BY <1>3, <1>4, NatInd
<1>6. Calm(s, f[n])
  BY <1>5
<1> QED BY <1>6, SentIs DEF f

-----------------------------------------------------------------------------
(* What a frame or a timer does to the link *)

One(p) == <<[p |-> p, d |-> NoSkb]>>
UpPrims == {"DL_ESTABLISH_IND", "DL_ESTABLISH_CNF"}
DownPrims == {"DL_RELEASE_IND", "DL_RELEASE_CNF"}

\* Layer 3 hears at most of data.
Mute(t) == t.up = <<>> \/ \E m : t.up = <<[p |-> "DL_DATA_IND", d |-> m]>>

\* A handler begins with nothing told and nothing asked.
At(s) ==
    /\ Known(s) /\ s.st \in 1 .. 8 /\ s.up = <<>> /\ s.req = {}
    /\ s.pendRel => s.st = 5

\* The link stays what it is for layer 3, opens or ends.
Stays(s, t) ==
    /\ Mute(t)
    /\ t.pendRel => t.st = 5 /\ s.pendRel
    /\ \/ t.st = s.st /\ t.l3Init = s.l3Init
       \/ s.st \in {7, 8} /\ t.st \in {5, 7, 8}
       \/ s.st = 5 /\ ~s.l3Init /\ t.st = 7
       \/ s.st = 4 /\ t.st = 5
Opens(s, t) ==
    /\ s.st \in 4 .. 8 /\ t.st = 7 /\ ~t.pendRel
    /\ \E p \in UpPrims : t.up = One(p) /\ (s.st = 5 /\ s.l3Init => p = "DL_ESTABLISH_CNF")
Ends(s, t) ==
    /\ t.st \in {1, 4} /\ ~t.pendRel /\ s.st \in {3, 5, 6, 7, 8}
    /\ \E p \in DownPrims :
           t.up = One(p) /\ (p = "DL_RELEASE_CNF" => s.st = 6 \/ s.pendRel)

\* The managers may be told of errors, but not asked for a TEI.
Moves(s, t) ==
    /\ Link(s, t)
    /\ "MDL_ASSIGN" \notin t.req /\ (t.req = {} \/ t.st \in 4 .. 8)
    /\ Stays(s, t) \/ Opens(s, t) \/ (Ends(s, t) /\ t.st = 4)

\* A handler that leaves the link as it is, and asks for nothing but a check.
LEMMA SameMoves ==
    ASSUME NEW s, At(s), NEW t, Same(s, t), t.up = <<>>,
           "MDL_ASSIGN" \notin t.req, t.req = {} \/ s.st \in 4 .. 8
    PROVE  Moves(s, t)
  BY DEF At, Moves, Stays, Mute

LEMMA Telling ==
    ASSUME NEW s, Known(s), s.up = <<>>, NEW p
    PROVE  Same(s, Tell(s, p)) /\ Tell(s, p).up = One(p) /\ Tell(s, p).req = s.req
<1>1. Append(<<>>, [p |-> p, d |-> NoSkb]) = One(p)
  BY DEF One
<1> QED BY <1>1

LEMMA CalmAnswer ==
    ASSUME NEW s, Known(s), NEW pf
    PROVE  Calm(s, l2_send_UA(s, pf)) /\ Calm(s, l2_send_DM(s, pf))
  OBVIOUS

LEMMA Establishing ==
    ASSUME NEW s, Known(s)
    PROVE  LET t == establishlink(s)
           IN  /\ Link(s, t) /\ t.st = 5 /\ t.l3Init = s.l3Init /\ ~t.pendRel
               /\ t.up = s.up /\ t.req = s.req
<1> DEFINE a == [clear_exception(s) EXCEPT !.rc = 0]
           b == send_uframe(a, "SABME", FALSE, TRUE)
           c == restart_t200(DelT203(b))
           t == FsmChangeState(freewin([c EXCEPT !.pendRel = FALSE]), 5)
<1>1. establishlink(s) = t
  BY DEF establishlink
<1>2. Calm(s, a)
  OBVIOUS
<1> HIDE DEF a
<1>3. Calm(s, c)
  BY <1>2
<1> HIDE DEF c
<1>4. /\ Link(s, t) /\ t.st = 5 /\ t.l3Init = s.l3Init /\ ~t.pendRel
      /\ t.up = s.up /\ t.req = s.req
  BY <1>3
<1> QED BY <1>1, <1>4

\* The link is set up, for layer 3 (l3Init) or on layer 2's own account.
Begins(s, t) == Link(s, t) /\ t.st = 5 /\ ~t.pendRel /\ t.up = s.up /\ t.req = s.req

LEMMA Establish ==
    ASSUME NEW s, Known(s)
    PROVE  /\ Begins(s, Reestablish(s)) /\ ~Reestablish(s).l3Init
           /\ Begins(s, l2_establish(s)) /\ l2_establish(s).l3Init
           /\ Begins(s, l2_l3_reestablish(s)) /\ l2_l3_reestablish(s).l3Init
<1>1. \A u : Known(u) => Begins(u, Reestablish(u)) /\ ~Reestablish(u).l3Init
                         /\ Begins(u, l2_establish(u)) /\ l2_establish(u).l3Init
  <2> SUFFICES ASSUME NEW u, Known(u)
               PROVE  /\ Begins(u, Reestablish(u)) /\ ~Reestablish(u).l3Init
                      /\ Begins(u, l2_establish(u)) /\ l2_establish(u).l3Init
    OBVIOUS
  <2> DEFINE e == establishlink(u)
  <2>1. Begins(u, e) /\ Known(e)
    BY Establishing DEF Begins
  <2>2. Reestablish(u) = [e EXCEPT !.l3Init = FALSE] /\ l2_establish(u) = [e EXCEPT !.l3Init = TRUE]
    BY DEF Reestablish, l2_establish
  <2> HIDE DEF e
  <2> QED BY <2>1, <2>2 DEF Begins
<1>2. Known(PurgeI(s)) /\ Calm(s, PurgeI(s))
  OBVIOUS
<1>3. l2_l3_reestablish(s) = l2_establish(PurgeI(s))
  BY DEF l2_l3_reestablish
<1> QED BY <1>1, <1>2, <1>3 DEF Begins

\* From a link that is up, layer 2 sets it up again by itself.
LEMMA AgainMoves ==
    ASSUME NEW s, At(s), s.st \in {7, 8}, NEW a, Link(s, a), Mute(a), "MDL_ASSIGN" \notin a.req
    PROVE  /\ Moves(s, Reestablish(a))
           /\ \A r \in Requests \ {"MDL_ASSIGN"} : Moves(s, Reestablish(Ask(a, r)))
           /\ Moves(s, nrerrorrecovery(a))
<1>1. \A u : Link(s, u) /\ Mute(u) /\ "MDL_ASSIGN" \notin u.req => Moves(s, Reestablish(u))
  <2> SUFFICES ASSUME NEW u, Link(s, u), Mute(u), "MDL_ASSIGN" \notin u.req
               PROVE  Moves(s, Reestablish(u))
    OBVIOUS
  <2> DEFINE t == Reestablish(u)
  <2>1. Begins(u, t)
    BY Establish
  <2> HIDE DEF t
  <2>2. Moves(s, t)
    BY <2>1 DEF Begins, Moves, Stays, Mute
  <2> QED BY <2>2 DEF t
<1>2. \A r \in Requests \ {"MDL_ASSIGN"} :
          Link(s, Ask(a, r)) /\ Mute(Ask(a, r)) /\ "MDL_ASSIGN" \notin Ask(a, r).req
  BY DEF Mute
<1>3. "J" \in Requests \ {"MDL_ASSIGN"}
  BY DEF Requests
<1> QED BY <1>1, <1>2, <1>3 DEF nrerrorrecovery

LEMMA Disconnecting ==
    ASSUME NEW s, Known(s)
    PROVE  LET t == l2_disconnect(s)
           IN  /\ Link(s, t) /\ t.st = 6 /\ t.l3Init = s.l3Init /\ t.pendRel = s.pendRel
               /\ t.up = s.up /\ t.req = s.req
<1> DEFINE a == [FsmChangeState(freewin(PurgeI(s)), 6) EXCEPT !.rc = 0]
           t == restart_t200(DelT203(send_uframe(a, "DISC", FALSE, TRUE)))
<1>1. l2_disconnect(s) = t
  BY DEF l2_disconnect
<1>2. /\ Link(s, a) /\ a.st = 6 /\ a.l3Init = s.l3Init /\ a.pendRel = s.pendRel
      /\ a.up = s.up /\ a.req = s.req
  OBVIOUS
<1> HIDE DEF a
<1>3. Calm(a, t)
  BY <1>2
<1> QED BY <1>1, <1>2, <1>3

LEMMA MovesSABME ==
    ASSUME NEW s, At(s), NEW f
    PROVE  Moves(s, EvSABME(s, f))
<1>1. /\ Known(s) /\ s.up = <<>> /\ s.req = {} /\ s.st \in 1 .. 8
      /\ (s.pendRel => s.st = 5)
  BY DEF At
<1>2. ASSUME s.st = 4 PROVE Moves(s, l2_start_multi(s, f.pf))
  <2> DEFINE a == send_uframe(s, "UA", TRUE, f.pf)
             b == FsmChangeState(ResetVars(clear_exception(a)), 7)
             c == AddT203(b)
             t == Tell(c, "DL_ESTABLISH_IND")
  <2>1. l2_start_multi(s, f.pf) = t
    BY DEF l2_start_multi
  <2>2. Calm(s, a)
    BY <1>1
  <2> HIDE DEF a
  <2>3. Link(s, b) /\ b.st = 7 /\ b.pendRel = s.pendRel /\ b.up = <<>> /\ b.req = {}
    BY <1>1, <2>2
  <2> HIDE DEF b
  <2>6. Calm(b, c)
    BY <2>3
  <2> HIDE DEF c, Tell
  <2>7. Same(c, t) /\ t.up = One("DL_ESTABLISH_IND") /\ t.req = c.req
    BY <2>3, <2>6, Telling
  <2>4. Link(s, t) /\ t.st = 7 /\ ~t.pendRel /\ t.up = One("DL_ESTABLISH_IND") /\ t.req = {}
    BY <1>1, <1>2, <2>3, <2>6, <2>7
  <2> HIDE DEF t
  <2>5. Opens(s, t)
    BY <1>2, <2>4 DEF Opens, UpPrims
  <2> QED BY <2>1, <2>4, <2>5 DEF Moves
<1>3. ASSUME s.st \in {7, 8} PROVE Moves(s, l2_restart_multi(s, f.pf))
  <2> DEFINE a == Ask(send_uframe(s, "UA", TRUE, f.pf), "F")
             est == s.vs # s.va
             b == IF est THEN PurgeI(a) ELSE a
             c == FsmChangeState(ResetVars(clear_exception(b)), 7)
             e == RestartT203(stop_t200(c))
             g == IF est THEN Tell(e, "DL_ESTABLISH_IND") ELSE e
             t == PullIfWaiting(g)
  <2>1. l2_restart_multi(s, f.pf) = t
    BY DEF l2_restart_multi
  <2>2. Same(s, a) /\ a.up = <<>> /\ a.req = {"F"}
    BY <1>1
  <2> HIDE DEF a, est
  <2>3. Same(s, b) /\ b.up = <<>> /\ b.req = {"F"}
    BY <2>2
  <2> HIDE DEF b
  <2>4. Link(s, c) /\ c.st = 7 /\ c.pendRel = s.pendRel /\ c.up = <<>> /\ c.req = {"F"}
    BY <2>3
  <2> HIDE DEF c
  <2>5. Calm(c, e)
    BY <2>4
  <2> HIDE DEF e, Tell
  <2>9. Same(e, Tell(e, "DL_ESTABLISH_IND")) /\ Tell(e, "DL_ESTABLISH_IND").req = e.req
        /\ Tell(e, "DL_ESTABLISH_IND").up = One("DL_ESTABLISH_IND")
    BY <2>4, <2>5, Telling
  <2>6. /\ Link(s, g) /\ g.st = 7 /\ g.pendRel = s.pendRel /\ g.req = {"F"}
        /\ g.up = <<>> \/ g.up = One("DL_ESTABLISH_IND")
    BY <2>4, <2>5, <2>9
  <2> HIDE DEF g
  <2>7. Calm(g, t)
    BY <2>6, CalmRequest
  <2> HIDE DEF t
  <2>8. Stays(s, t) \/ Opens(s, t)
    BY <1>1, <1>3, <2>6, <2>7 DEF Stays, Opens, Mute, UpPrims
  <2> QED BY <2>1, <2>6, <2>7, <2>8 DEF Moves
<1>4. Moves(s, l2_send_UA(s, f.pf)) /\ Moves(s, l2_send_DM(s, f.pf))
  <2> DEFINE a == l2_send_UA(s, f.pf)
             b == l2_send_DM(s, f.pf)
  <2>1. Calm(s, a) /\ Calm(s, b)
    BY <1>1, CalmAnswer
  <2> HIDE DEF a, b
  <2>2. Moves(s, a) /\ Moves(s, b)
    BY <1>1, <2>1, SameMoves
  <2> QED BY <2>2 DEF a, b
<1>5. Moves(s, s)
  BY <1>1, SameMoves
<1> HIDE DEF l2_send_UA, l2_send_DM, Known
<1> QED BY <1>1, <1>2, <1>3, <1>4, <1>5 DEF EvSABME

LEMMA MovesDISC ==
    ASSUME NEW s, At(s), NEW f, LAPD
    PROVE  Moves(s, EvDISC(s, f))
<1>1. /\ Known(s) /\ s.up = <<>> /\ s.req = {} /\ s.st \in 1 .. 8
      /\ (s.pendRel => s.st = 5)
  BY DEF At
<1>2. ASSUME s.st \in {7, 8} PROVE Moves(s, l2_stop_multi(s, f.pf))
  <2> DEFINE a == stop_t200(DelT203(FsmChangeState(s, 4)))
             b == freewin(PurgeI(send_uframe(a, "UA", TRUE, f.pf)))
             t == Tell(b, "DL_RELEASE_IND")
  <2>1. l2_stop_multi(s, f.pf) = t
    BY LAPD DEF l2_stop_multi
  <2>2. Link(s, a) /\ a.st = 4 /\ a.pendRel = s.pendRel /\ a.up = <<>> /\ a.req = {}
    BY <1>1
  <2> HIDE DEF a
  <2>3. Calm(a, b)
    BY <2>2
  <2> HIDE DEF b, Tell
  <2>6. Same(b, t) /\ t.up = One("DL_RELEASE_IND") /\ t.req = b.req
    BY <2>2, <2>3, Telling
  <2>4. Link(s, t) /\ t.st = 4 /\ ~t.pendRel /\ t.up = One("DL_RELEASE_IND") /\ t.req = {}
    BY <1>1, <1>2, <2>2, <2>3, <2>6
  <2> HIDE DEF t
  <2>5. Ends(s, t)
    BY <1>2, <2>4 DEF Ends, DownPrims
  <2> QED BY <2>1, <2>4, <2>5 DEF Moves
<1>3. Moves(s, l2_send_UA(s, f.pf)) /\ Moves(s, l2_send_DM(s, f.pf))
  <2> DEFINE a == l2_send_UA(s, f.pf)
             b == l2_send_DM(s, f.pf)
  <2>1. Calm(s, a) /\ Calm(s, b)
    BY <1>1, CalmAnswer
  <2> HIDE DEF a, b
  <2>2. Moves(s, a) /\ Moves(s, b)
    BY <1>1, <2>1, SameMoves
  <2> QED BY <2>2 DEF a, b
<1>4. Moves(s, s)
  BY <1>1, SameMoves
<1> HIDE DEF l2_send_UA, l2_send_DM, Known
<1> QED BY <1>1, <1>2, <1>3, <1>4 DEF EvDISC

LEMMA Connected ==
    ASSUME NEW s, At(s), s.st = 5, NEW pf
    PROVE  Moves(s, l2_connected(s, pf))
<1>1. Known(s) /\ s.up = <<>> /\ s.req = {}
  BY DEF At
<1> DEFINE r == [s EXCEPT !.pendRel = FALSE]
           a == IF s.pendRel THEN l2_disconnect(r) ELSE s
           reset == ~s.l3Init /\ s.vs # s.va
           b == IF reset THEN PurgeI(a) ELSE [a EXCEPT !.l3Init = FALSE]
           c == AddT203(FsmChangeState(ResetVars(stop_t200(b)), 7))
           cnf == Tell(c, "DL_ESTABLISH_CNF")
           ind == Tell(c, "DL_ESTABLISH_IND")
           e == CASE s.l3Init -> cnf
                  [] reset -> ind
                  [] OTHER -> c
           t == PullIfWaiting(e)
           u == l2_mdl_error_ua(s, pf)
<1>2. l2_connected(s, pf) = IF pf THEN t ELSE u
  BY DEF l2_connected
<1>3. Moves(s, u)
  <2>1. Same(s, u) /\ u.up = <<>> /\ u.req \in {{"C"}, {"D"}}
    BY <1>1 DEF l2_mdl_error_ua
  <2> HIDE DEF u
  <2> QED BY <2>1, SameMoves
<1>4. Link(s, a) /\ ~a.pendRel /\ a.up = <<>> /\ a.req = {}
  <2>1. Link(s, r) /\ ~r.pendRel /\ r.up = <<>> /\ r.req = {}
    BY <1>1
  <2> HIDE DEF r
  <2> QED BY <1>1, <2>1, Disconnecting
<1> HIDE DEF a
<1>5. Link(s, b) /\ ~b.pendRel /\ b.up = <<>> /\ b.req = {}
  <2> HIDE DEF reset
  <2> QED BY <1>4
<1> HIDE DEF b
<1>6. Link(s, c) /\ c.st = 7 /\ ~c.pendRel /\ c.up = <<>> /\ c.req = {}
  BY <1>5
<1> HIDE DEF c, Tell
<1>7. /\ Same(c, cnf) /\ cnf.up = One("DL_ESTABLISH_CNF") /\ cnf.req = c.req
      /\ Same(c, ind) /\ ind.up = One("DL_ESTABLISH_IND") /\ ind.req = c.req
  BY <1>6, Telling
<1> HIDE DEF cnf, ind
<1>8. /\ Link(s, e) /\ e.st = 7 /\ ~e.pendRel /\ e.req = {}
      /\ s.l3Init => e.up = One("DL_ESTABLISH_CNF")
      /\ ~s.l3Init => e.up = <<>> \/ e.up = One("DL_ESTABLISH_IND")
  BY <1>6, <1>7
<1> HIDE DEF e
<1>9. Calm(e, t)
  BY <1>8, CalmRequest
<1> HIDE DEF t
<1>10. Stays(s, t) \/ Opens(s, t)
  BY <1>8, <1>9 DEF Stays, Opens, Mute, UpPrims
<1>11. Moves(s, t)
  BY <1>8, <1>9, <1>10 DEF Moves
<1> QED BY <1>2, <1>3, <1>11

\* T200 stops, the managers are told r, and layer 3 of the end of the link.
LEMMA EndMoves ==
    ASSUME NEW s, At(s), s.st \in {5, 6}, NEW a, Same(s, a), a.up = <<>>,
           "MDL_ASSIGN" \notin a.req
    PROVE  /\ s.st = 6 => Moves(s, FsmChangeState(Tell(a, "DL_RELEASE_CNF"), 4))
           /\ s.st = 5 => LET t == FsmChangeState(st5_dl_release_l2l3(a), 4)
                          IN  Moves(s, t) /\ Ends(s, t) /\ t.req = a.req
<1> DEFINE c == [a EXCEPT !.pendRel = FALSE]
           v == Tell(a, "DL_RELEASE_CNF")
           p == IF a.pendRel THEN "DL_RELEASE_CNF" ELSE "DL_RELEASE_IND"
           w == Tell(c, p)
           x == FsmChangeState(v, 4)
           y == FsmChangeState(w, 4)
<1>1. /\ Link(s, c) /\ ~c.pendRel /\ c.up = <<>> /\ c.req = a.req
      /\ st5_dl_release_l2l3(a) = w
  OBVIOUS
<1> HIDE DEF c, Tell
<1>2. /\ Same(a, v) /\ v.up = One("DL_RELEASE_CNF") /\ v.req = a.req
      /\ Same(c, w) /\ w.up = One(p) /\ w.req = a.req
  BY <1>1, Telling
<1> HIDE DEF v, w
<1>3. /\ Link(s, x) /\ x.st = 4 /\ x.pendRel = s.pendRel /\ x.up = v.up /\ x.req = a.req
      /\ Link(s, y) /\ y.st = 4 /\ ~y.pendRel /\ y.up = w.up /\ y.req = a.req
  BY <1>1, <1>2
<1> HIDE DEF x, y
<1>4. s.st = 6 => Ends(s, x)
  BY <1>2, <1>3 DEF Ends, DownPrims, At
<1>5. s.st = 5 => Ends(s, y)
  BY <1>2, <1>3 DEF Ends, DownPrims, At
<1>6. (s.st = 6 => Moves(s, x)) /\ (s.st = 5 => Moves(s, y) /\ Ends(s, y) /\ y.req = a.req)
  BY <1>3, <1>4, <1>5 DEF Moves
<1> QED BY <1>1, <1>6 DEF x, y, v

LEMMA MovesUA ==
    ASSUME NEW s, At(s), NEW f, LAPD
    PROVE  Moves(s, EvUA(s, f))
<1>1. /\ Known(s) /\ s.up = <<>> /\ s.req = {} /\ s.st \in 1 .. 8
      /\ (s.pendRel => s.st = 5)
  BY DEF At
<1>2. s.st \in 4 .. 8 => Moves(s, l2_mdl_error_ua(s, f.pf))
  <2> DEFINE u == l2_mdl_error_ua(s, f.pf)
  <2>1. Same(s, u) /\ u.up = <<>> /\ u.req \in {{"C"}, {"D"}}
    BY <1>1 DEF l2_mdl_error_ua
  <2> HIDE DEF u
  <2>2. s.st \in 4 .. 8 => Moves(s, u)
    BY <2>1, SameMoves
  <2> QED BY <2>2 DEF u
<1>3. s.st = 5 => Moves(s, l2_connected(s, f.pf))
  BY Connected
<1>4. s.st = 6 => Moves(s, l2_released(s, f.pf))
  <2> DEFINE a == stop_t200(s)
             t == FsmChangeState(Tell(a, "DL_RELEASE_CNF"), 4)
  <2>1. Calm(s, a)
    BY <1>1
  <2>2. l2_released(s, f.pf) = IF f.pf THEN t ELSE l2_mdl_error_ua(s, f.pf)
    BY LAPD DEF l2_released
  <2> HIDE DEF a, Tell
  <2>3. s.st = 6 => Moves(s, t)
    BY <1>1, <2>1, EndMoves
  <2> HIDE DEF t
  <2> QED BY <1>2, <2>2, <2>3
<1>5. Moves(s, s)
  BY <1>1, SameMoves
<1> HIDE DEF Known
<1> QED BY <1>1, <1>2, <1>3, <1>4, <1>5 DEF EvUA

LEMMA MovesDM ==
    ASSUME NEW s, At(s), NEW f, LAPD
    PROVE  /\ Moves(s, EvDM(s, f))
           /\ s.st = 5 => EvDM(s, f) = s \/ (EvDM(s, f).req = {} /\ Ends(s, EvDM(s, f)))
<1>1. /\ Known(s) /\ s.up = <<>> /\ s.req = {} /\ s.st \in 1 .. 8
      /\ (s.pendRel => s.st = 5)
  BY DEF At
<1>2. Moves(s, s)
  BY <1>1, SameMoves
<1>3. s.st = 4 => Moves(s, l2_reestablish(s, f.pf))
  <2> DEFINE t == l2_establish(s)
  <2>1. Begins(s, t)
    BY <1>1, Establish
  <2> HIDE DEF t
  <2>2. s.st = 4 => Moves(s, t)
    BY <1>1, <2>1 DEF Begins, Moves, Stays, Mute
  <2> QED BY <1>2, <2>2 DEF l2_reestablish, t
<1>4. s.st = 5 => /\ Moves(s, l2_st5_dm_release(s, f.pf))
                  /\ \/ l2_st5_dm_release(s, f.pf) = s
                     \/ /\ l2_st5_dm_release(s, f.pf).req = {}
                        /\ Ends(s, l2_st5_dm_release(s, f.pf))
  <2> SUFFICES ASSUME s.st = 5
               PROVE  /\ Moves(s, l2_st5_dm_release(s, f.pf))
                      /\ \/ l2_st5_dm_release(s, f.pf) = s
                         \/ /\ l2_st5_dm_release(s, f.pf).req = {}
                            /\ Ends(s, l2_st5_dm_release(s, f.pf))
    OBVIOUS
  <2> DEFINE a == stop_t200(s)
             b == IF s.l3Init THEN a ELSE PurgeI(a)
             e == st5_dl_release_l2l3(b)
             t == FsmChangeState(e, 4)
  <2>1. l2_st5_dm_release(s, f.pf) = IF f.pf THEN t ELSE s
    BY LAPD DEF l2_st5_dm_release
  <2>2. Calm(s, b)
    BY <1>1
  <2>4. Same(s, b) /\ b.up = <<>> /\ b.req = {}
    BY <1>1, <2>2
  <2> HIDE DEF b, Tell, st5_dl_release_l2l3, FsmChangeState
  <2>3. Moves(s, t) /\ Ends(s, t) /\ t.req = {}
    BY <2>4, EndMoves
  <2> HIDE DEF t
  <2> QED BY <1>2, <2>1, <2>3
<1>5. s.st = 6 => Moves(s, l2_st6_dm_release(s, f.pf))
  <2> DEFINE a == stop_t200(s)
             t == FsmChangeState(Tell(a, "DL_RELEASE_CNF"), 4)
  <2>1. Calm(s, a)
    BY <1>1
  <2>2. l2_st6_dm_release(s, f.pf) = IF f.pf THEN t ELSE s
    BY LAPD DEF l2_st6_dm_release
  <2> HIDE DEF a, Tell
  <2>3. s.st = 6 => Moves(s, t)
    BY <1>1, <2>1, EndMoves
  <2> HIDE DEF t
  <2> QED BY <1>2, <2>2, <2>3
<1>6. "B" \in Requests \ {"MDL_ASSIGN"} /\ "E" \in Requests \ {"MDL_ASSIGN"}
  BY DEF Requests
<1>7. s.st \in {7, 8} => \A r \in Requests \ {"MDL_ASSIGN"} : Moves(s, Reestablish(Ask(s, r)))
  BY <1>1, AgainMoves DEF Mute
<1>8. s.st = 7 => Moves(s, l2_mdl_error_dm(s, f.pf))
  <2> DEFINE a == Ask(s, "B")
  <2>1. Same(s, a) /\ a.up = <<>> /\ a.req = {"B"}
    BY <1>1
  <2> HIDE DEF a
  <2>2. s.st = 7 => Moves(s, a)
    BY <2>1, SameMoves
  <2> QED BY <1>6, <1>7, <2>2 DEF l2_mdl_error_dm, a
<1>9. s.st = 8 => Moves(s, l2_st8_mdl_error_dm(s, f.pf))
  BY <1>6, <1>7 DEF l2_st8_mdl_error_dm
<1> HIDE DEF Known
<1> QED BY <1>1, <1>2, <1>3, <1>4, <1>5, <1>8, <1>9 DEF EvDM

-----------------------------------------------------------------------------
(* Acknowledgements, data and timers *)

LEMMA CalmSetva ==
    ASSUME NEW s, Known(s), LAPD, NEW nr
    PROVE  Calm(s, setva(s, nr, <<>>))
<1> DEFINE n == Dist(s.va, nr)
           acked == {i \in Slots : Behind(s, i) < n}
           a == Warn(s, \E i \in acked : s.win[i] = NoSkb, "null skb")
           w == [i \in Slots |-> IF i \in acked THEN NoSkb ELSE s.win[i]]
           k == Slot(s, n)
           b == [a EXCEPT !.va = nr, !.sow = k, !.win = w]
<1>1. setva(s, nr, <<>>) = IF n = 0 THEN s ELSE b
  BY LAPD DEF setva, Refill
<1> HIDE DEF acked, w, k, n
<1>2. Calm(s, a)
  OBVIOUS
<1> HIDE DEF a
<1>3. Calm(s, b)
  BY <1>2
<1> HIDE DEF b
<1> QED BY <1>1, <1>3

LEMMA CalmRetransmit ==
    ASSUME NEW s, Known(s), NEW nr
    PROVE  Calm(s, invoke_retransmission(s, nr))
<1> DEFINE n == Dist(nr, s.vs)
           base == Dist(s.va, nr)
           again == {i \in Slots : Behind(s, i) >= base /\ Behind(s, i) < base + n}
           a == Warn(s, \E i \in again : s.win[i] = NoSkb, "null skb")
           q == [k \in 1 .. n |-> s.win[Slot(s, base + k - 1)]]
           w == [i \in Slots |-> IF i \in again THEN NoSkb ELSE s.win[i]]
           b == [AddTxCnt(a, n) EXCEPT !.vs = nr, !.iq = q \o @, !.win = w]
<1>1. invoke_retransmission(s, nr) = IF n = 0 THEN s ELSE PullRequest(b)
  BY DEF invoke_retransmission
<1> HIDE DEF again, q, w, n, base
<1>2. Calm(s, a)
  OBVIOUS
<1> HIDE DEF a
<1>3. Calm(s, b)
  BY <1>2
<1> HIDE DEF b
<1>4. Calm(s, PullRequest(b))
  BY <1>3, CalmRequest
<1> QED BY <1>1, <1>4

LEMMA MovesSuper ==
    ASSUME NEW s, At(s), NEW f, LAPD
    PROVE  Moves(s, EvSuper(s, f, <<>>))
<1>1. /\ Known(s) /\ s.up = <<>> /\ s.req = {} /\ s.st \in 1 .. 8
      /\ (s.pendRel => s.st = 5)
  BY DEF At
<1> DEFINE a == GotNr(s, f)
<1>2. Calm(s, a)
  BY <1>1
<1> HIDE DEF GotNr
<1>3. s.st = 7 => Moves(s, l2_st7_got_super(s, f, <<>>))
  <2> SUFFICES ASSUME s.st = 7 PROVE Moves(s, l2_st7_got_super(s, f, <<>>))
    OBVIOUS
  <2> DEFINE b == IF ~f.pf THEN a ELSE IF f.rsp THEN Ask(a, "A") ELSE enquiry_response(a)
             v == setva(b, f.nr, <<>>)
             e == IF f.t = "REJ" THEN RestartT203(stop_t200(invoke_retransmission(v, f.nr)))
                  ELSE IF f.t = "RR" /\ f.nr = b.vs THEN RestartT203(stop_t200(v))
                  ELSE IF f.nr # b.va \/ f.t = "RNR"
                  THEN restart_t200(IF f.t = "RR" THEN v ELSE DelT203(v))
                  ELSE b
             t == IF f.t = "RR" /\ e.iq # <<>> THEN PullRequest(e) ELSE e
  <2>1. l2_st7_got_super(s, f, <<>>) = IF ~legalnr(b, f.nr) THEN nrerrorrecovery(b) ELSE t
    BY DEF l2_st7_got_super
  <2>2. Same(s, b) /\ b.up = <<>> /\ b.req \in {{}, {"A"}}
    <3> HIDE DEF a
    <3>1. Calm(s, enquiry_response(a))
      BY <1>2
    <3>2. Same(s, Ask(a, "A")) /\ Ask(a, "A").up = <<>> /\ Ask(a, "A").req = {"A"}
      BY <1>1, <1>2
    <3> HIDE DEF enquiry_response, Ask
    <3> QED BY <1>1, <1>2, <3>1, <3>2
  <2> HIDE DEF b
  <2>3. Calm(b, e)
    <3> DEFINE w == invoke_retransmission(v, f.nr)
    <3>1. Calm(b, v)
      BY <2>2, LAPD, CalmSetva
    <3> HIDE DEF v
    <3>2. Calm(v, w)
      BY <2>2, <3>1, CalmRetransmit
    <3> HIDE DEF w
    <3>3. Calm(b, w)
      BY <3>1, <3>2
    <3>4. Calm(b, RestartT203(stop_t200(w))) /\ Calm(b, RestartT203(stop_t200(v)))
      BY <3>1, <3>3
    <3>5. Calm(b, restart_t200(v)) /\ Calm(b, restart_t200(DelT203(v)))
      BY <3>1
    <3>6. Calm(b, b)
      BY <2>2
    <3>7. e \in {RestartT203(stop_t200(w)), RestartT203(stop_t200(v)), restart_t200(v),
                 restart_t200(DelT203(v)), b}
      <4> HIDE DEF RestartT203, stop_t200, restart_t200, DelT203
      <4> QED BY DEF w, e
    <3> HIDE DEF Calm, RestartT203, stop_t200, restart_t200, DelT203, e
    <3> QED BY <3>4, <3>5, <3>6, <3>7
  <2> HIDE DEF e
  <2>4. Calm(b, t)
    BY <2>2, <2>3, CalmRequest
  <2> HIDE DEF t
  <2>5. Moves(s, t)
    <3>1. Same(s, t) /\ t.up = <<>> /\ t.req \in {{}, {"A"}}
      BY <2>2, <2>4
    <3> QED BY <1>1, <3>1, SameMoves
  <2>6. Moves(s, nrerrorrecovery(b))
    BY <2>2, AgainMoves DEF Mute
  <2> QED BY <2>1, <2>5, <2>6
<1>4. s.st = 8 => Moves(s, l2_st8_got_super(s, f, <<>>))
  <2> SUFFICES ASSUME s.st = 8 PROVE Moves(s, l2_st8_got_super(s, f, <<>>))
    OBVIOUS
  <2> DEFINE b == IF f.t = "RNR" THEN restart_t200(a)
                  ELSE setva(AddT203(stop_t200(a)), f.nr, <<>>)
             r == invoke_retransmission(b, f.nr)
             c == FsmChangeState(r, 7)
             e == IF f.pf /\ ~f.rsp THEN enquiry_response(a) ELSE a
             v == setva(e, f.nr, <<>>)
  <2>1. l2_st8_got_super(s, f, <<>>) =
            IF ~legalnr(a, f.nr) THEN nrerrorrecovery(e)
            ELSE IF f.pf /\ f.rsp THEN PullIfWaiting(c) ELSE v
    <3> HIDE DEF a, enquiry_response, AddT203, stop_t200, restart_t200
    <3> QED BY DEF l2_st8_got_super, a
  <2> HIDE DEF a
  <2>2. Calm(s, r) /\ Calm(s, e) /\ Calm(s, v)
    <3> DEFINE x == AddT203(stop_t200(a))
               y == setva(x, f.nr, <<>>)
    <3>1. Calm(s, restart_t200(a)) /\ Calm(s, x)
      BY <1>2
    <3>2. Calm(s, enquiry_response(a))
      BY <1>2
    <3>3. Calm(s, e)
      <4> HIDE DEF enquiry_response
      <4> QED BY <1>2, <3>2
    <3> HIDE DEF x, e, v
    <3>4. Calm(x, y) /\ Calm(e, setva(e, f.nr, <<>>))
      BY <3>1, <3>3, LAPD, CalmSetva
    <3> HIDE DEF y
    <3>5. Calm(s, b)
      <4>1. b = IF f.t = "RNR" THEN restart_t200(a) ELSE y
        BY DEF b, y, x
      <4> HIDE DEF b, restart_t200
      <4> QED BY <3>1, <3>4, <4>1
    <3> HIDE DEF b, r
    <3>6. Calm(b, invoke_retransmission(b, f.nr))
      BY <3>5, CalmRetransmit
    <3> QED BY <3>3, <3>4, <3>5, <3>6 DEF r, v
  <2>3. Moves(s, v)
    <3> HIDE DEF v
    <3> QED BY <1>1, <2>2, SameMoves
  <2>4. Moves(s, nrerrorrecovery(e))
    <3> HIDE DEF e
    <3> QED BY <1>1, <2>2, AgainMoves DEF Mute
  <2>5. Moves(s, PullIfWaiting(c))
    <3> DEFINE t == PullIfWaiting(c)
    <3> HIDE DEF b
    <3>1. Calm(s, r)
      BY <2>2
    <3> HIDE DEF r
    <3>2. Link(s, c) /\ c.st = 7 /\ c.pendRel = s.pendRel /\ c.up = <<>> /\ c.req = {}
      BY <1>1, <3>1
    <3> HIDE DEF c
    <3>3. Calm(c, t)
      BY <3>2, CalmRequest
    <3> HIDE DEF t
    <3>4. Stays(s, t)
      BY <1>1, <3>2, <3>3 DEF Stays, Mute
    <3>5. Moves(s, t)
      BY <1>1, <3>2, <3>3, <3>4 DEF Moves
    <3> QED BY <3>5 DEF t
  <2> QED BY <2>1, <2>3, <2>4, <2>5
<1>5. Moves(s, s)
  BY <1>1, SameMoves
<1> HIDE DEF Known
<1> QED BY <1>1, <1>3, <1>4, <1>5 DEF EvSuper

LEMMA MovesI ==
    ASSUME NEW s, At(s), NEW f, LAPD
    PROVE  LET t == EvI(s, f, <<>>, <<>>) IN Moves(s, t) /\ Mute(t)
<1> DEFINE t == EvI(s, f, <<>>, <<>>)
<1>1. /\ Known(s) /\ s.up = <<>> /\ s.req = {} /\ s.st \in 1 .. 8
      /\ (s.pendRel => s.st = 5)
  BY DEF At
<1>2. CASE s.st \in {7, 8}
  <2> DEFINE acc == Accept(s, f, <<>>)
             rej == Reject(s, f)
             a == IF s.vr = f.ns THEN acc ELSE rej
             b == IF a.peerBusy \/ a.st # 7 THEN a
                  ELSE IF f.nr = a.vs THEN RestartT203(stop_t200(a))
                  ELSE IF f.nr # a.va THEN restart_t200(a) ELSE a
             v == setva(b, f.nr, <<>>)
             e == IF v.iq # <<>> /\ v.st = 7 THEN PullRequest(v) ELSE v
             r == enquiry_cr([e EXCEPT !.ackPend = FALSE], "RR", TRUE, FALSE)
  <2>1. t = IF ~legalnr(a, f.nr) THEN nrerrorrecovery(a) ELSE IF e.ackPend THEN r ELSE e
    BY <1>2 DEF EvI, l2_got_iframe
  <2>2. Same(s, acc) /\ Mute(acc) /\ acc.req = {}
    <3> DEFINE x == [s EXCEPT !.vr = Inc(@), !.rejExc = FALSE]
               y == IF f.pf THEN enquiry_response(x) ELSE [x EXCEPT !.ackPend = TRUE]
               z == L2L3(y, "DL_DATA_IND", f.d)
    <3>1. acc = z
      BY DEF Accept, Refill
    <3>2. Calm(s, x)
      BY <1>1
    <3> HIDE DEF x
    <3>3. Calm(s, enquiry_response(x))
      BY <3>2
    <3>4. Calm(s, y)
      <4> HIDE DEF enquiry_response
      <4> QED BY <3>2, <3>3
    <3> HIDE DEF y
    <3>5. Same(s, z) /\ z.req = {} /\ z.up = Append(<<>>, [p |-> "DL_DATA_IND", d |-> f.d])
      BY <1>1, <3>4
    <3>6. Append(<<>>, [p |-> "DL_DATA_IND", d |-> f.d]) = <<[p |-> "DL_DATA_IND", d |-> f.d]>>
      OBVIOUS
    <3> HIDE DEF z, acc
    <3> QED BY <3>1, <3>5, <3>6 DEF Mute
  <2>3. Calm(s, rej)
    <3>1. Calm(s, enquiry_cr(s, "REJ", TRUE, f.pf))
      BY <1>1
    <3>2. Calm(s, enquiry_response(s))
      BY <1>1
    <3> HIDE DEF enquiry_cr, enquiry_response
    <3> QED BY <1>1, <3>1, <3>2 DEF Reject
  <2> HIDE DEF acc, rej
  <2>4. Same(s, a) /\ Mute(a) /\ a.req = {}
    <3>1. Same(s, rej) /\ Mute(rej) /\ rej.req = {}
      BY <1>1, <2>3 DEF Mute
    <3> HIDE DEF Same
    <3> QED BY <2>2, <3>1
  <2> HIDE DEF a
  <2>5. Calm(a, e)
    <3>1. Calm(a, RestartT203(stop_t200(a))) /\ Calm(a, restart_t200(a)) /\ Calm(a, a)
      BY <2>4
    <3>2. b \in {RestartT203(stop_t200(a)), restart_t200(a), a}
      <4> HIDE DEF RestartT203, stop_t200, restart_t200
      <4> QED OBVIOUS
    <3> HIDE DEF b
    <3>3. Calm(a, b)
      <4> HIDE DEF Calm, RestartT203, stop_t200, restart_t200
      <4> QED BY <3>1, <3>2
    <3>4. Calm(b, v)
      BY <3>3, LAPD, CalmSetva
    <3> HIDE DEF v
    <3>5. Calm(v, PullRequest(v))
      BY <3>3, <3>4, CalmRequest
    <3> QED BY <3>3, <3>4, <3>5
  <2> HIDE DEF e
  <2>6. Calm(a, r)
    BY <2>4, <2>5
  <2> HIDE DEF r
  <2>7. ASSUME NEW u, Calm(a, u) PROVE Moves(s, u) /\ Mute(u)
    BY <1>1, <1>2, <2>4, <2>7 DEF Moves, Stays, Mute
  <2>8. Moves(s, nrerrorrecovery(a)) /\ Mute(nrerrorrecovery(a))
    <3> DEFINE w == Ask(a, "J")
               u == Reestablish(w)
    <3>1. Moves(s, nrerrorrecovery(a))
      BY <1>2, <2>4, AgainMoves
    <3>2. Known(w) /\ w.up = a.up
      BY <2>4
    <3> HIDE DEF w
    <3>3. Begins(w, u)
      BY <3>2, Establish
    <3>4. u = nrerrorrecovery(a)
      BY DEF nrerrorrecovery, u, w
    <3> HIDE DEF u
    <3> QED BY <2>4, <3>1, <3>2, <3>3, <3>4 DEF Begins, Mute
  <2> HIDE DEF t
  <2>9. Moves(s, t) /\ Mute(t)
    BY <2>1, <2>5, <2>6, <2>7, <2>8
  <2> QED BY <2>9 DEF t
<1>3. CASE s.st \notin {7, 8}
  <2>1. t = s
    BY <1>3 DEF EvI
  <2> HIDE DEF t
  <2>2. Moves(s, t) /\ Mute(t)
    BY <1>1, <2>1, SameMoves DEF Mute
  <2> QED BY <2>2 DEF t
<1> QED BY <1>2, <1>3

LEMMA MovesTout56 ==
    ASSUME NEW s, At(s), LAPD
    PROVE  /\ s.st = 5 => Moves(s, l2_st5_tout_200(s))
           /\ s.st = 6 => Moves(s, l2_st6_tout_200(s))
<1>1. /\ Known(s) /\ s.up = <<>> /\ s.req = {} /\ s.st \in 1 .. 8
      /\ (s.pendRel => s.st = 5)
  BY DEF At
<1> DEFINE q == [s EXCEPT !.t200Run = FALSE]
           a == Ask(q, "H")
           v == PurgeI([FsmChangeState(s, 4) EXCEPT !.t200Run = FALSE])
           b == Ask(v, "G")
           r == AddT200([s EXCEPT !.rc = @ + 1])
           w == AddT200(s)
<1>2. Moves(s, w)
  <2>1. Calm(s, w)
    BY <1>1
  <2> HIDE DEF w
  <2> QED BY <1>1, <2>1, SameMoves
<1>3. ASSUME NEW t PROVE Moves(s, send_uframe(r, t, FALSE, TRUE))
  <2> DEFINE u == send_uframe(r, t, FALSE, TRUE)
  <2>1. Calm(s, r)
    BY <1>1
  <2> HIDE DEF r
  <2>2. Calm(s, u)
    BY <2>1
  <2> HIDE DEF u
  <2>3. Moves(s, u)
    BY <1>1, <2>2, SameMoves
  <2> QED BY <2>3 DEF u
<1>4. s.st = 5 => Moves(s, st5_dl_release_l2l3(b))
  <2> DEFINE p == IF b.pendRel THEN "DL_RELEASE_CNF" ELSE "DL_RELEASE_IND"
             c == [b EXCEPT !.pendRel = FALSE]
             t == Tell(c, p)
  <2>1. st5_dl_release_l2l3(b) = t
    OBVIOUS
  <2>2. Link(s, v) /\ v.st = 4 /\ v.pendRel = s.pendRel /\ v.up = <<>> /\ v.req = {}
    BY <1>1
  <2> HIDE DEF v
  <2>3. Link(s, b) /\ b.st = 4 /\ b.pendRel = s.pendRel /\ b.up = <<>> /\ b.req = {"G"}
    BY <2>2
  <2> HIDE DEF b
  <2>4. Link(s, c) /\ c.st = 4 /\ ~c.pendRel /\ c.up = <<>> /\ c.req = {"G"}
    BY <2>3
  <2> HIDE DEF c, Tell
  <2>5. Same(c, t) /\ t.up = One(p) /\ t.req = {"G"}
    BY <2>4, Telling
  <2> HIDE DEF t
  <2>6. s.st = 5 => Ends(s, t)
    BY <2>3, <2>4, <2>5 DEF Ends, DownPrims
  <2>7. s.st = 5 => Moves(s, t)
    BY <2>4, <2>5, <2>6 DEF Moves
  <2> QED BY <2>1, <2>7
<1>5. s.st = 6 => Moves(s, Tell(Ask([FsmChangeState(s, 4) EXCEPT !.t200Run = FALSE], "H"),
                                "DL_RELEASE_CNF"))
  <2> DEFINE e == [FsmChangeState(s, 4) EXCEPT !.t200Run = FALSE]
             c == Ask(e, "H")
             t == Tell(c, "DL_RELEASE_CNF")
  <2>1. Link(s, c) /\ c.st = 4 /\ c.pendRel = s.pendRel /\ c.up = <<>> /\ c.req = {"H"}
    BY <1>1
  <2> HIDE DEF c, Tell
  <2>2. Same(c, t) /\ t.up = One("DL_RELEASE_CNF") /\ t.req = {"H"}
    BY <2>1, Telling
  <2> HIDE DEF t
  <2>3. s.st = 6 => Ends(s, t)
    BY <1>1, <2>1, <2>2 DEF Ends, DownPrims
  <2>4. s.st = 6 => Moves(s, t)
    BY <2>1, <2>2, <2>3 DEF Moves
  <2> QED BY <2>4 DEF t, c
<1>6. l2_st5_tout_200(s) = IF DChanWait(s) THEN w
                           ELSE IF s.rc = N200 THEN st5_dl_release_l2l3(b)
                           ELSE send_uframe(r, "SABME", FALSE, TRUE)
  BY LAPD DEF l2_st5_tout_200
<1>7. l2_st6_tout_200(s) =
          IF DChanWait(s) THEN w
          ELSE IF s.rc = N200
          THEN Tell(Ask([FsmChangeState(s, 4) EXCEPT !.t200Run = FALSE], "H"), "DL_RELEASE_CNF")
          ELSE send_uframe(r, "DISC", FALSE, TRUE)
  BY LAPD DEF l2_st6_tout_200
<1> HIDE DEF w, r, b, send_uframe, st5_dl_release_l2l3, Tell, Ask, FsmChangeState, Known
<1> QED BY <1>2, <1>3, <1>4, <1>5, <1>6, <1>7

LEMMA MovesTout78 ==
    ASSUME NEW s, At(s), LAPD
    PROVE  /\ s.st = 7 => Moves(s, l2_st7_tout_200(s)) /\ Moves(s, l2_st7_tout_203(s))
           /\ s.st = 8 => Moves(s, l2_st8_tout_200(s))
<1>1. /\ Known(s) /\ s.up = <<>> /\ s.req = {} /\ s.st \in 1 .. 8
      /\ (s.pendRel => s.st = 5)
  BY DEF At
<1> DEFINE a == [s EXCEPT !.t200Run = FALSE]
           b == FsmChangeState(a, 8)
           c == FsmChangeState(s, 8)
<1>2. ASSUME NEW u, Calm(s, u) PROVE Moves(s, u)
  BY <1>1, <1>2, SameMoves
<1>3. ASSUME s.st \in {7, 8}, NEW u, NEW n,
             Link(s, u), u.st = 8, u.pendRel = s.pendRel, u.up = <<>>, u.req = {}
      PROVE  Moves(s, [transmit_enquiry(u) EXCEPT !.rc = n])
  <2> DEFINE e == [enquiry_cr(u, "RR", FALSE, TRUE) EXCEPT !.ackPend = FALSE]
             t == [transmit_enquiry(u) EXCEPT !.rc = n]
  <2>1. Calm(u, e)
    BY <1>3
  <2>2. t = [start_t200(e) EXCEPT !.rc = n]
    OBVIOUS
  <2> HIDE DEF e, transmit_enquiry
  <2>3. Calm(u, t)
    BY <2>1, <2>2
  <2> HIDE DEF t
  <2>4. Stays(s, t)
    BY <1>1, <1>3, <2>3 DEF Stays, Mute
  <2>5. Moves(s, t)
    BY <1>3, <2>3, <2>4 DEF Moves
  <2> QED BY <2>5 DEF t
<1>4. Calm(s, a)
  BY <1>1
<1>5. /\ Link(s, b) /\ b.st = 8 /\ b.pendRel = s.pendRel /\ b.up = <<>> /\ b.req = {}
      /\ Link(s, c) /\ c.st = 8 /\ c.pendRel = s.pendRel /\ c.up = <<>> /\ c.req = {}
  BY <1>1
<1>6. Calm(s, AddT200(s)) /\ Calm(s, AddT203(s))
  BY <1>1
<1>7. s.st = 8 => Moves(s, Reestablish(Ask(a, "I")))
  <2>1. "I" \in Requests \ {"MDL_ASSIGN"}
    BY DEF Requests
  <2> HIDE DEF a
  <2> QED BY <1>1, <1>4, <2>1, AgainMoves DEF Mute
<1> HIDE DEF b, c, AddT200, AddT203, transmit_enquiry, Ask
<1>8. s.st = 7 => /\ l2_st7_tout_200(s) = IF DChanWait(s) THEN AddT200(s)
                                          ELSE [transmit_enquiry(b) EXCEPT !.rc = 1]
                  /\ l2_st7_tout_203(s) = IF DChanWait(s) THEN AddT203(s)
                                          ELSE [transmit_enquiry(c) EXCEPT !.rc = 0]
  BY DEF l2_st7_tout_200, l2_st7_tout_203, a, b, c
<1>9. l2_st8_tout_200(s) = IF DChanWait(s) THEN AddT200(s)
                           ELSE IF s.rc = N200 THEN Reestablish(Ask(a, "I"))
                           ELSE [transmit_enquiry(a) EXCEPT !.rc = transmit_enquiry(a).rc + 1]
  BY DEF l2_st8_tout_200, a
<1> HIDE DEF a
<1>10. s.st = 7 => /\ Moves(s, [transmit_enquiry(b) EXCEPT !.rc = 1])
                   /\ Moves(s, [transmit_enquiry(c) EXCEPT !.rc = 0])
  BY <1>3, <1>5
<1>11. s.st = 8 => Moves(s, [transmit_enquiry(a) EXCEPT !.rc = transmit_enquiry(a).rc + 1])
  BY <1>1, <1>3, <1>4
<1>12. Moves(s, AddT200(s)) /\ Moves(s, AddT203(s))
  BY <1>2, <1>6
<1> QED BY <1>7, <1>8, <1>9, <1>10, <1>11, <1>12

LEMMA MovesTimer ==
    ASSUME NEW s, At(s), LAPD
    PROVE  /\ Moves(s, EvT200(s)) /\ (s.st \in 1 .. 4 => EvT200(s).st = s.st)
           /\ Moves(s, EvT203(s)) /\ (s.st \in 1 .. 4 => EvT203(s).st = s.st)
<1>1. /\ Known(s) /\ s.up = <<>> /\ s.req = {} /\ s.st \in 1 .. 8
      /\ (s.pendRel => s.st = 5)
  BY DEF At
<1>2. ASSUME NEW u, Calm(s, u), NEW t, Moves(u, t) PROVE Moves(s, t)
  BY <1>2 DEF Moves, Stays, Opens, Ends
<1> DEFINE u == [s EXCEPT !.t200 = FALSE]
           v == [s EXCEPT !.t203 = FALSE]
<1>3. Calm(s, u) /\ Calm(s, v)
  BY <1>1
<1>4. At(u) /\ At(v)
  BY <1>1, <1>3 DEF At
<1>5. EvT200(s) = CASE u.st = 5 -> l2_st5_tout_200(u)
                    [] u.st = 6 -> l2_st6_tout_200(u)
                    [] u.st = 7 -> l2_st7_tout_200(u)
                    [] u.st = 8 -> l2_st8_tout_200(u)
                    [] OTHER -> u
  BY DEF EvT200
<1>6. EvT203(s) = IF v.st = 7 THEN l2_st7_tout_203(v) ELSE v
  BY DEF EvT203
<1> HIDE DEF u, v
<1>7. Moves(u, u) /\ Moves(v, v)
  BY <1>4, SameMoves DEF At
<1>8. Moves(u, EvT200(s)) /\ (u.st \in 1 .. 4 => EvT200(s).st = u.st)
  <2> HIDE DEF Known
  <2>1. u.st \in 1 .. 8
    BY <1>4 DEF At
  <2>2. /\ u.st = 5 => Moves(u, l2_st5_tout_200(u))
        /\ u.st = 6 => Moves(u, l2_st6_tout_200(u))
        /\ u.st = 7 => Moves(u, l2_st7_tout_200(u))
        /\ u.st = 8 => Moves(u, l2_st8_tout_200(u))
    BY <1>4, LAPD, MovesTout56, MovesTout78
  <2> QED BY <1>5, <1>7, <2>1, <2>2
<1>9. Moves(v, EvT203(s)) /\ (v.st \in 1 .. 4 => EvT203(s).st = v.st)
  <2> HIDE DEF Known
  <2>1. v.st = 7 => Moves(v, l2_st7_tout_203(v))
    BY <1>4, LAPD, MovesTout78
  <2> QED BY <1>6, <1>7, <2>1
<1> QED BY <1>2, <1>3, <1>8, <1>9

-----------------------------------------------------------------------------
(* What the TEI manager, layer 1 and layer 3 do to the link *)

LEMMA EffectAssign ==
    ASSUME NEW s, At(s)
    PROVE  LET t == EvMdlAssign(s)
           IN  /\ s.st \in {1, 3} =>
                      /\ Known(t) /\ t.tei /\ t.up = <<>> /\ t.req = {}
                      /\ t.estabPend = s.estabPend /\ t.l1Activ = s.l1Activ /\ ~t.pendRel
                      /\ s.st = 1 => t.st = 4
                      /\ s.st = 3 => t.st = 5 /\ t.l3Init
               /\ s.st \notin {1, 2, 3} => t = s
<1>1. /\ Known(s) /\ s.up = <<>> /\ s.req = {} /\ s.st \in 1 .. 8
      /\ (s.pendRel => s.st = 5)
  BY DEF At
<1> DEFINE t == EvMdlAssign(s)
           a == [s EXCEPT !.tei = TRUE]
           b == IF s.st = 3 THEN l2_establish(a) ELSE FsmChangeState(a, 4)
           u == tx_ui(b)
<1>2. (s.st \in {1, 3} => t = u) /\ (s.st \notin {1, 2, 3} => t = s)
  BY DEF EvMdlAssign, l2_got_tei
<1>3. /\ Known(a) /\ a.tei /\ a.st = s.st /\ a.up = <<>> /\ a.req = {}
      /\ a.estabPend = s.estabPend /\ a.l1Activ = s.l1Activ /\ a.pendRel = s.pendRel
  BY <1>1
<1> HIDE DEF a
<1>4. Begins(a, l2_establish(a)) /\ l2_establish(a).l3Init
  BY <1>3, Establish
<1>5. s.st \in {1, 3} =>
          /\ Link(a, b) /\ b.up = <<>> /\ b.req = {} /\ ~b.pendRel
          /\ s.st = 1 => b.st = 4
          /\ s.st = 3 => b.st = 5 /\ b.l3Init
  <2> DEFINE g == l2_establish(a)
             h == FsmChangeState(a, 4)
  <2>1. b = IF s.st = 3 THEN g ELSE h
    OBVIOUS
  <2>2. /\ Link(a, g) /\ g.up = <<>> /\ g.req = {} /\ ~g.pendRel /\ g.st = 5 /\ g.l3Init
    BY <1>3, <1>4 DEF Begins
  <2>3. Link(a, h) /\ h.up = <<>> /\ h.req = {} /\ h.pendRel = s.pendRel /\ h.st = 4
    BY <1>3
  <2> HIDE DEF b, g, h
  <2>4. s.st = 1 => ~s.pendRel
    BY <1>1
  <2> QED BY <2>1, <2>2, <2>3, <2>4
<1> HIDE DEF b, t
<1>6. s.st \in {1, 3} => Calm(b, u)
  BY <1>5 DEF tx_ui
<1> HIDE DEF u
<1>7. /\ s.st \in {1, 3} =>
             /\ Known(t) /\ t.tei /\ t.up = <<>> /\ t.req = {}
             /\ t.estabPend = s.estabPend /\ t.l1Activ = s.l1Activ /\ ~t.pendRel
             /\ s.st = 1 => t.st = 4
             /\ s.st = 3 => t.st = 5 /\ t.l3Init
      /\ s.st \notin {1, 2, 3} => t = s
  BY <1>2, <1>3, <1>5, <1>6
<1> QED BY <1>7 DEF t

\* The TEI is gone, and with it a link.
Loses(s, t) ==
    /\ Known(t) /\ t.estabPend = s.estabPend /\ t.l1Activ = s.l1Activ
    /\ t.st = 1 /\ ~t.tei /\ ~t.pendRel /\ t.req = {}

LEMMA EffectError ==
    ASSUME NEW s, At(s), s.st # 2
    PROVE  LET t == EvMdlError(s)
           IN  IF s.st = 3 THEN Loses(s, t) /\ Ends(s, t) ELSE t = s
<1>1. /\ Known(s) /\ s.up = <<>> /\ s.req = {} /\ s.st \in 1 .. 8
      /\ (s.pendRel => s.st = 5)
  BY DEF At
<1> DEFINE a == FsmChangeState([PurgeUI(s) EXCEPT !.tei = FALSE], 1)
           t == Tell(a, "DL_RELEASE_IND")
<1>2. EvMdlError(s) = IF s.st = 3 THEN t ELSE s
  BY DEF EvMdlError, l2_st3_tei_remove
<1>3. /\ Known(a) /\ a.estabPend = s.estabPend /\ a.l1Activ = s.l1Activ /\ a.st = 1 /\ ~a.tei
      /\ a.pendRel = s.pendRel /\ a.up = <<>> /\ a.req = {}
  BY <1>1
<1> HIDE DEF a, Tell
<1>4. Same(a, t) /\ t.up = One("DL_RELEASE_IND") /\ t.req = {}
  BY <1>3, Telling
<1> HIDE DEF t
<1>5. s.st = 3 => Loses(s, t)
  BY <1>1, <1>3, <1>4 DEF Loses
<1>6. s.st = 3 => Ends(s, t)
  BY <1>1, <1>3, <1>4 DEF Ends, DownPrims
<1> QED BY <1>2, <1>5, <1>6

LEMMA EffectRemove ==
    ASSUME NEW s, At(s), s.st # 2
    PROVE  LET t == EvMdlRemove(s)
           IN  /\ s.st \in 5 .. 8 => Loses(s, t) /\ Ends(s, t)
               /\ s.st = 4 => Loses(s, t) /\ t.up = <<>>
               /\ s.st \in {1, 3} => t = s
<1>1. /\ Known(s) /\ s.up = <<>> /\ s.req = {} /\ s.st \in 1 .. 8
      /\ (s.pendRel => s.st = 5)
  BY DEF At
<1> DEFINE t == EvMdlRemove(s)
<1>2. CASE s.st \in {1, 3}
  BY <1>2 DEF EvMdlRemove
<1>3. CASE s.st = 4
  <2> DEFINE a == FsmChangeState([PurgeUI(s) EXCEPT !.tei = FALSE], 1)
  <2>1. t = a
    BY <1>3 DEF EvMdlRemove, l2_st24_tei_remove
  <2>2. Loses(s, a) /\ a.up = <<>>
    BY <1>1, <1>3 DEF Loses
  <2> QED BY <1>3, <2>1, <2>2
<1>4. CASE s.st = 5
  <2> DEFINE a == stop_t200([freewin(PurgeUI(PurgeI(s))) EXCEPT !.tei = FALSE])
             b == FsmChangeState(a, 1)
             c == [b EXCEPT !.pendRel = FALSE]
             p == IF b.pendRel THEN "DL_RELEASE_CNF" ELSE "DL_RELEASE_IND"
             u == Tell(c, p)
  <2>1. t = st5_dl_release_l2l3(b)
    BY <1>4 DEF EvMdlRemove, l2_st5_tei_remove
  <2>2. st5_dl_release_l2l3(b) = u
    <3> HIDE DEF b
    <3> QED OBVIOUS
  <2>3. /\ Known(a) /\ a.estabPend = s.estabPend /\ a.l1Activ = s.l1Activ /\ ~a.tei
        /\ a.pendRel = s.pendRel /\ a.up = <<>> /\ a.req = {}
    BY <1>1
  <2> HIDE DEF a, st5_dl_release_l2l3, Tell, t
  <2>4. /\ Known(c) /\ c.estabPend = s.estabPend /\ c.l1Activ = s.l1Activ /\ ~c.tei /\ c.st = 1
        /\ ~c.pendRel /\ c.up = <<>> /\ c.req = {} /\ b.pendRel = s.pendRel
    BY <2>3
  <2> HIDE DEF b, c
  <2>5. Same(c, u) /\ u.up = One(p) /\ u.req = {}
    BY <2>4, Telling
  <2> HIDE DEF u
  <2>6. Loses(s, u)
    BY <2>4, <2>5 DEF Loses
  <2>7. Ends(s, u)
    BY <1>4, <2>4, <2>5 DEF Ends, DownPrims
  <2> QED BY <1>4, <2>1, <2>2, <2>6, <2>7 DEF t
<1>5. CASE s.st = 6
  <2> DEFINE a == stop_t200([PurgeUI(s) EXCEPT !.tei = FALSE])
             b == Tell(a, "DL_RELEASE_CNF")
             u == FsmChangeState(b, 1)
  <2>1. t = u
    BY <1>5 DEF EvMdlRemove, l2_st6_tei_remove
  <2>2. /\ Known(a) /\ a.estabPend = s.estabPend /\ a.l1Activ = s.l1Activ /\ ~a.tei
        /\ ~a.pendRel /\ a.up = <<>> /\ a.req = {}
    BY <1>1, <1>5
  <2> HIDE DEF a, Tell, t
  <2>3. Same(a, b) /\ b.up = One("DL_RELEASE_CNF") /\ b.req = {}
    BY <2>2, Telling
  <2> HIDE DEF b
  <2>4. Loses(s, u) /\ u.up = One("DL_RELEASE_CNF")
    BY <2>2, <2>3 DEF Loses
  <2> HIDE DEF u
  <2>5. Ends(s, u)
    BY <1>5, <2>4 DEF Ends, DownPrims, Loses
  <2> QED BY <1>5, <2>1, <2>4, <2>5 DEF t
<1>6. CASE s.st \in {7, 8}
  <2> DEFINE a == DelT203(stop_t200([freewin(PurgeUI(PurgeI(s))) EXCEPT !.tei = FALSE]))
             b == Tell(a, "DL_RELEASE_IND")
             u == FsmChangeState(b, 1)
  <2>1. t = u
    BY <1>6 DEF EvMdlRemove, l2_tei_remove
  <2>2. /\ Known(a) /\ a.estabPend = s.estabPend /\ a.l1Activ = s.l1Activ /\ ~a.tei
        /\ ~a.pendRel /\ a.up = <<>> /\ a.req = {}
    BY <1>1, <1>6
  <2> HIDE DEF a, Tell, t
  <2>3. Same(a, b) /\ b.up = One("DL_RELEASE_IND") /\ b.req = {}
    BY <2>2, Telling
  <2> HIDE DEF b
  <2>4. Loses(s, u) /\ u.up = One("DL_RELEASE_IND")
    BY <2>2, <2>3 DEF Loses
  <2> HIDE DEF u
  <2>5. Ends(s, u)
    BY <1>6, <2>4 DEF Ends, DownPrims, Loses
  <2> QED BY <1>6, <2>1, <2>4, <2>5 DEF t
<1> QED BY <1>1, <1>2, <1>3, <1>4, <1>5, <1>6

\* Layer 1 goes down.
LEMMA EffectDown ==
    ASSUME NEW s, At(s), s.st # 2
    PROVE  LET t == PhDeactivate(s)
           IN  /\ Known(t) /\ ~t.l1Activ /\ ~t.pendRel /\ t.req = {}
               /\ s.st \in {1, 4} =>
                      /\ t.st = s.st /\ t.tei = s.tei /\ ~t.estabPend
                      /\ IF s.estabPend THEN t.up = One("DL_RELEASE_IND") ELSE t.up = <<>>
               /\ s.st = 3 => t.st = 1 /\ ~t.tei
               /\ s.st \in 5 .. 8 => t.st = 4 /\ t.tei = s.tei
               /\ s.st \notin {1, 4} => t.estabPend = s.estabPend /\ Ends(s, t)
<1>1. /\ Known(s) /\ s.up = <<>> /\ s.req = {} /\ s.st \in 1 .. 8
      /\ (s.pendRel => s.st = 5)
  BY DEF At
<1> DEFINE t == PhDeactivate(s)
           v == [s EXCEPT !.l1Activ = FALSE]
<1>2. t = EvL1Deactivate(v)
  BY DEF PhDeactivate
<1>3. /\ Known(v) /\ ~v.l1Activ /\ v.st = s.st /\ v.tei = s.tei /\ v.estabPend = s.estabPend
      /\ v.pendRel = s.pendRel /\ v.up = <<>> /\ v.req = {}
  BY <1>1
<1> HIDE DEF v, t
<1>4. CASE s.st \in {1, 4}
  <2> DEFINE a == PurgeUI(PurgeI([v EXCEPT !.estabPend = FALSE]))
             b == Tell(a, "DL_RELEASE_IND")
  <2>1. t = IF v.estabPend THEN b ELSE a
    BY <1>2, <1>3, <1>4 DEF EvL1Deactivate, l2_st14_persistant_da
  <2>2. /\ Known(a) /\ ~a.l1Activ /\ a.st = s.st /\ a.tei = s.tei /\ ~a.estabPend
        /\ ~a.pendRel /\ a.up = <<>> /\ a.req = {}
    BY <1>1, <1>3, <1>4
  <2> HIDE DEF a, Tell
  <2>3. Same(a, b) /\ b.up = One("DL_RELEASE_IND") /\ b.req = {}
    BY <2>2, Telling
  <2> HIDE DEF b
  <2>4. /\ Known(t) /\ ~t.l1Activ /\ ~t.pendRel /\ t.req = {}
        /\ t.st = s.st /\ t.tei = s.tei /\ ~t.estabPend
        /\ IF s.estabPend THEN t.up = One("DL_RELEASE_IND") ELSE t.up = <<>>
    BY <1>3, <2>1, <2>2, <2>3
  <2> QED BY <1>4, <2>4 DEF t
<1>5. CASE s.st = 3
  <2> DEFINE a == [PurgeUI(v) EXCEPT !.tei = FALSE]
             b == Tell(a, "DL_RELEASE_IND")
             u == FsmChangeState(b, 1)
  <2>1. t = u
    <3> HIDE DEF Tell, FsmChangeState, PurgeUI
    <3> QED BY <1>2, <1>3, <1>5 DEF EvL1Deactivate, l2_st3_tei_remove
  <2>2. /\ Known(a) /\ ~a.l1Activ /\ ~a.tei /\ a.estabPend = s.estabPend
        /\ ~a.pendRel /\ a.up = <<>> /\ a.req = {}
    BY <1>1, <1>3, <1>5
  <2> HIDE DEF a, Tell
  <2>3. Same(a, b) /\ b.up = One("DL_RELEASE_IND") /\ b.req = {}
    BY <2>2, Telling
  <2> HIDE DEF b
  <2>4. /\ Known(u) /\ ~u.l1Activ /\ u.st = 1 /\ ~u.tei /\ u.estabPend = s.estabPend
        /\ ~u.pendRel /\ u.req = {} /\ u.up = One("DL_RELEASE_IND")
    BY <2>2, <2>3
  <2> HIDE DEF u
  <2>5. Ends(s, u)
    BY <1>5, <2>4 DEF Ends, DownPrims
  <2> QED BY <1>5, <2>1, <2>4, <2>5 DEF t
<1>6. CASE s.st = 5
  <2> DEFINE a == stop_t200(freewin(PurgeUI(PurgeI(v))))
             c == [a EXCEPT !.pendRel = FALSE]
             p == IF a.pendRel THEN "DL_RELEASE_CNF" ELSE "DL_RELEASE_IND"
             b == Tell(c, p)
             u == FsmChangeState(b, 4)
  <2>1. t = FsmChangeState(st5_dl_release_l2l3(a), 4)
    BY <1>2, <1>3, <1>6 DEF EvL1Deactivate, l2_st5_persistant_da
  <2>2. Calm(v, a)
    BY <1>3
  <2> HIDE DEF a
  <2>3. st5_dl_release_l2l3(a) = b
    OBVIOUS
  <2>4. /\ Known(c) /\ ~c.l1Activ /\ c.tei = s.tei /\ c.estabPend = s.estabPend
        /\ ~c.pendRel /\ c.up = <<>> /\ c.req = {}
    BY <1>3, <2>2
  <2> HIDE DEF c, Tell, st5_dl_release_l2l3
  <2>5. Same(c, b) /\ b.up = One(p) /\ b.req = {}
    BY <2>4, Telling
  <2> HIDE DEF b
  <2>6. /\ Known(u) /\ ~u.l1Activ /\ u.st = 4 /\ u.tei = s.tei /\ u.estabPend = s.estabPend
        /\ ~u.pendRel /\ u.req = {} /\ u.up = One(p)
    BY <2>4, <2>5
  <2> HIDE DEF u
  <2>7. Ends(s, u)
    BY <1>3, <1>6, <2>2, <2>6 DEF Ends, DownPrims
  <2>8. t = u
    BY <2>1, <2>3 DEF u
  <2> QED BY <1>6, <2>6, <2>7, <2>8 DEF t
<1>7. CASE s.st \in {6, 7, 8}
  <2> DEFINE p == IF s.st = 6 THEN "DL_RELEASE_CNF" ELSE "DL_RELEASE_IND"
             a == IF s.st = 6 THEN stop_t200(PurgeUI(v))
                  ELSE DelT203(stop_t200(freewin(PurgeUI(PurgeI(v)))))
             b == Tell(a, p)
             u == FsmChangeState(b, 4)
  <2>1. t = u
    <3> HIDE DEF Tell, FsmChangeState, stop_t200, DelT203, freewin, PurgeI, PurgeUI
    <3>1. CASE s.st = 6
      BY <1>2, <1>3, <3>1 DEF EvL1Deactivate, l2_st6_persistant_da
    <3>2. CASE s.st # 6
      <4>1. t = l2_persistant_da(v)
        BY <1>2, <1>3, <1>7, <3>2 DEF EvL1Deactivate
      <4> QED BY <3>2, <4>1 DEF l2_persistant_da
    <3> QED BY <3>1, <3>2
  <2>2. Calm(v, a)
    BY <1>3
  <2> HIDE DEF a, Tell
  <2>3. Same(a, b) /\ b.up = One(p) /\ b.req = {}
    BY <1>3, <2>2, Telling
  <2> HIDE DEF b
  <2>4. /\ Known(u) /\ ~u.l1Activ /\ u.st = 4 /\ u.tei = s.tei /\ u.estabPend = s.estabPend
        /\ ~u.pendRel /\ u.req = {} /\ u.up = One(p)
    BY <1>1, <1>3, <1>7, <2>2, <2>3
  <2> HIDE DEF u
  <2>5. Ends(s, u)
    BY <1>7, <2>4 DEF Ends, DownPrims
  <2> QED BY <1>7, <2>1, <2>4, <2>5 DEF t
<1> QED BY <1>1, <1>4, <1>5, <1>6, <1>7

\* Layer 1 comes up: a request that waits for it is made.
Activated(s, t) ==
    /\ Known(t) /\ t.l1Activ /\ ~t.estabPend /\ t.tei = s.tei /\ t.up = <<>>
    /\ IF s.estabPend
       THEN /\ ~t.pendRel
            /\ s.st = 1 => t.st = 3 /\ t.req = {"MDL_ASSIGN"}
            /\ s.st = 4 => t.st = 5 /\ t.l3Init /\ t.req = {}
       ELSE /\ t.st = s.st /\ t.l3Init = s.l3Init /\ t.pendRel = s.pendRel
            /\ t.req = {}

LEMMA EffectUp ==
    ASSUME NEW s, At(s), s.estabPend => s.st \in {1, 4}
    PROVE  Activated(s, PhActivate(s))
<1>1. /\ Known(s) /\ s.up = <<>> /\ s.req = {} /\ s.st \in 1 .. 8
      /\ (s.pendRel => s.st = 5)
  BY DEF At
<1> DEFINE t == PhActivate(s)
           a == [s EXCEPT !.l1Activ = TRUE, !.estabPend = FALSE]
           g == l2_establish(a)
           b == FsmChangeState(a, 3)
           h == Ask(b, "MDL_ASSIGN")
<1>2. /\ ~s.estabPend => t = a
      /\ s.estabPend => t = EvDlEstablish(a)
  BY DEF PhActivate
<1>3. /\ Known(a) /\ a.l1Activ /\ ~a.estabPend /\ a.tei = s.tei /\ a.up = <<>> /\ a.req = {}
      /\ a.st = s.st /\ a.l3Init = s.l3Init /\ a.pendRel = s.pendRel
  BY <1>1
<1>4. /\ a.st = 1 => EvDlEstablish(a) = h
      /\ a.st = 4 => EvDlEstablish(a) = g
  <2> HIDE DEF a, Ask, FsmChangeState
  <2> QED BY DEF EvDlEstablish, b, h
<1> HIDE DEF a, t
<1>5. /\ Link(a, g) /\ g.up = <<>> /\ g.req = {} /\ ~g.pendRel /\ g.st = 5 /\ g.l3Init
  BY <1>3, Establish DEF Begins
<1>6. Link(a, b) /\ b.st = 3 /\ b.up = <<>> /\ b.req = {} /\ b.pendRel = s.pendRel
  BY <1>3
<1> HIDE DEF b, g
<1>7. Link(a, h) /\ h.st = 3 /\ h.up = <<>> /\ h.req = {"MDL_ASSIGN"} /\ h.pendRel = s.pendRel
  BY <1>6
<1> HIDE DEF h
<1>8. CASE ~s.estabPend
  <2>1. Activated(s, a)
    BY <1>3, <1>8 DEF Activated
  <2> QED BY <1>2, <1>8, <2>1 DEF t
<1>9. CASE s.estabPend /\ s.st = 1
  <2>1. t = h /\ ~s.pendRel
    BY <1>1, <1>2, <1>3, <1>4, <1>9
  <2>2. Activated(s, h)
    BY <1>3, <1>7, <1>9, <2>1 DEF Activated
  <2> QED BY <2>1, <2>2 DEF t
<1>10. CASE s.estabPend /\ s.st = 4
  <2>1. t = g
    BY <1>2, <1>3, <1>4, <1>10
  <2>2. Activated(s, g)
    BY <1>3, <1>5, <1>10 DEF Activated
  <2> QED BY <2>1, <2>2 DEF t
<1> QED BY <1>8, <1>9, <1>10

\* Layer 3 asks for the link.
Wanted(s, t) ==
    /\ Known(t) /\ t.tei = s.tei /\ t.l1Activ = s.l1Activ /\ t.up = <<>>
    /\ IF ~s.l1Activ
       THEN /\ t.estabPend /\ t.st = s.st /\ t.l3Init = s.l3Init /\ t.pendRel = s.pendRel
            /\ t.req = {"PH_ACTIVATE"}
       ELSE /\ t.estabPend = s.estabPend
            /\ s.st = 1 => t.st = 3 /\ ~t.pendRel /\ t.req = {"MDL_ASSIGN"}
            /\ s.st \in {3, 6} => t = s
            /\ s.st \in {4, 5, 7, 8} => t.st = 5 /\ t.l3Init /\ ~t.pendRel /\ t.req = {}

LEMMA EffectEstablishReq ==
    ASSUME NEW s, At(s), s.st # 2, LAPD
    PROVE  Wanted(s, DlEstablishReq(s))
<1>1. /\ Known(s) /\ s.up = <<>> /\ s.req = {} /\ s.st \in 1 .. 8
      /\ (s.pendRel => s.st = 5)
  BY DEF At
<1> DEFINE t == DlEstablishReq(s)
           a == [s EXCEPT !.estabPend = TRUE]
           c == Ask(a, "PH_ACTIVATE")
           b == FsmChangeState(s, 3)
           h == Ask(b, "MDL_ASSIGN")
           g == l2_establish(s)
           k == l2_l3_reestablish(s)
           w == [PurgeI(s) EXCEPT !.l3Init = TRUE, !.pendRel = FALSE]
<1>2. t = IF s.l1Activ THEN EvDlEstablish(s) ELSE c
  BY LAPD DEF DlEstablishReq
<1>3. /\ s.st = 1 => EvDlEstablish(s) = h
      /\ s.st = 4 => EvDlEstablish(s) = g
      /\ s.st = 5 => EvDlEstablish(s) = w
      /\ s.st \in {7, 8} => EvDlEstablish(s) = k
      /\ s.st \in {3, 6} => EvDlEstablish(s) = s
  <2> HIDE DEF Ask, FsmChangeState, PurgeI
  <2> QED BY DEF EvDlEstablish
<1>4. /\ Known(a) /\ a.tei = s.tei /\ a.l1Activ = s.l1Activ /\ a.st = s.st /\ a.up = <<>>
      /\ a.l3Init = s.l3Init /\ a.pendRel = s.pendRel /\ a.estabPend /\ a.req = {}
  BY <1>1
<1>5. Link(s, b) /\ b.st = 3 /\ b.up = <<>> /\ b.req = {} /\ b.pendRel = s.pendRel
  BY <1>1
<1>6. Link(s, w) /\ w.st = s.st /\ w.l3Init /\ ~w.pendRel /\ w.up = <<>> /\ w.req = {}
  BY <1>1
<1>7. /\ Link(s, g) /\ g.up = <<>> /\ g.req = {} /\ ~g.pendRel /\ g.st = 5 /\ g.l3Init
      /\ Link(s, k) /\ k.up = <<>> /\ k.req = {} /\ ~k.pendRel /\ k.st = 5 /\ k.l3Init
  BY <1>1, Establish DEF Begins
<1> HIDE DEF a, b, w, g, k
<1>8. /\ Known(c) /\ c.tei = s.tei /\ c.l1Activ = s.l1Activ /\ c.st = s.st /\ c.up = <<>>
      /\ c.l3Init = s.l3Init /\ c.pendRel = s.pendRel /\ c.estabPend
      /\ c.req = {"PH_ACTIVATE"}
  BY <1>4
<1>9. Link(s, h) /\ h.st = 3 /\ h.up = <<>> /\ h.req = {"MDL_ASSIGN"} /\ h.pendRel = s.pendRel
  BY <1>5
<1> HIDE DEF c, h, t
<1>10. CASE ~s.l1Activ
  <2>1. Wanted(s, c)
    BY <1>8, <1>10 DEF Wanted
  <2> QED BY <1>2, <1>10, <2>1 DEF t
<1>11. CASE s.l1Activ /\ s.st = 1
  <2>1. t = h /\ ~s.pendRel
    BY <1>1, <1>2, <1>3, <1>11
  <2>2. Wanted(s, h)
    BY <1>9, <1>11, <2>1 DEF Wanted
  <2> QED BY <2>1, <2>2 DEF t
<1>12. CASE s.l1Activ /\ s.st \in {3, 6}
  <2>1. t = s
    BY <1>2, <1>3, <1>12
  <2>2. Wanted(s, s)
    BY <1>1, <1>12 DEF Wanted
  <2> QED BY <2>1, <2>2 DEF t
<1>13. CASE s.l1Activ /\ s.st = 5
  <2>1. t = w
    BY <1>2, <1>3, <1>13
  <2>2. Wanted(s, w)
    BY <1>6, <1>13 DEF Wanted
  <2> QED BY <2>1, <2>2 DEF t
<1>14. CASE s.l1Activ /\ s.st \in {4, 7, 8}
  <2>1. t \in {g, k}
    BY <1>2, <1>3, <1>14
  <2>2. Wanted(s, g) /\ Wanted(s, k)
    BY <1>7, <1>14 DEF Wanted
  <2> QED BY <2>1, <2>2 DEF t
<1> QED BY <1>1, <1>10, <1>11, <1>12, <1>13, <1>14

\* Layer 3 asks for the release.
LEMMA EffectReleaseReq ==
    ASSUME NEW s, At(s), LAPD
    PROVE  LET t == DlReleaseReq(s)
           IN  /\ Link(s, t) /\ t.req = {}
               /\ s.st = 4 => t.st = 4 /\ ~t.pendRel /\ t.up = One("DL_RELEASE_CNF")
               /\ s.st # 4 => t.up = <<>>
               /\ s.st = 5 => t.st = 5
               /\ s.st \in {7, 8} => t.st = 6 /\ ~t.pendRel
               /\ s.st \in {1, 2, 3, 6} => t = s
<1>1. /\ Known(s) /\ s.up = <<>> /\ s.req = {} /\ s.st \in 1 .. 8
      /\ (s.pendRel => s.st = 5)
  BY DEF At
<1> DEFINE t == DlReleaseReq(s)
           a == Tell(s, "DL_RELEASE_CNF")
           b == [s EXCEPT !.pendRel = TRUE]
           c == l2_disconnect(s)
<1>2. /\ s.st = 4 => t = a
      /\ s.st = 5 => t = b
      /\ s.st \in {7, 8} => t = c
      /\ s.st \in {1, 2, 3, 6} => t = s
  <2> HIDE DEF Tell
  <2> QED BY LAPD DEF DlReleaseReq, EvDlRelease
<1> HIDE DEF Tell
<1>3. Same(s, a) /\ a.up = One("DL_RELEASE_CNF") /\ a.req = {}
  BY <1>1, Telling
<1>4. Link(s, b) /\ b.st = s.st /\ b.up = <<>> /\ b.req = {}
  BY <1>1
<1>5. Link(s, c) /\ c.st = 6 /\ c.pendRel = s.pendRel /\ c.up = <<>> /\ c.req = {}
  BY <1>1, Disconnecting
<1> HIDE DEF a, b, c, t
<1>6. CASE s.st = 4
  BY <1>1, <1>2, <1>3, <1>6 DEF t
<1>7. CASE s.st = 5
  BY <1>1, <1>2, <1>4, <1>7 DEF t
<1>8. CASE s.st \in {7, 8}
  BY <1>1, <1>2, <1>5, <1>8 DEF t
<1>9. CASE s.st \in {1, 2, 3, 6}
  BY <1>1, <1>2, <1>9 DEF t
<1> QED BY <1>1, <1>6, <1>7, <1>8, <1>9

-----------------------------------------------------------------------------
(***************************************************************************)
(* The invariant.  NoStaleMsg and LinkTimers need to know what the         *)
(* processes can be doing in each state of the link control; WaitServed    *)
(* and BeliefMatches what layer 2 and the TEI manager can be doing.        *)
(***************************************************************************)

Whole(S) ==
    {"l2", "ptp", "lc", "drel", "sq", "proc", "t309", "tei", "t202", "n202",
     "orphan", "blind"} \subseteq DOMAIN S

Typed(S) == Whole(S) /\ S.sq \in Nat /\ S.proc \in [Procs -> CallStates]

Idle(S) == \A p \in Procs : S.proc[p] \in {"none", "offered"}

\* The calls that may wait for the link, and those that T309 watches.
Patient(S) ==
    /\ \A p \in Procs : S.proc[p] = "active" => p \in S.t309
    /\ S.sq = 0 => \A p \in Procs : S.proc[p] \in {"none", "offered", "active"}

CallsInv(S) ==
    /\ Typed(S)
    /\ S.lc \in LcStates
    /\ S.sq > 0 => S.lc = "ESTAB_WAIT"
    /\ S.drel <=> S.lc = "REL_DELAY"
    /\ S.lc \in {"REL", "REL_DELAY", "REL_WAIT"} => Idle(S)
    /\ S.lc = "ESTAB_WAIT" => Patient(S)

LinkInv(S) ==
    /\ Known(S.l2) /\ S.l2.st \in {1, 3, 4, 5, 6, 7, 8}
    /\ S.l2.up = <<>> /\ S.l2.req = {}
    /\ ~S.l2.l1Activ => S.l2.st \in {1, 4}
    /\ S.l2.estabPend => ~S.l2.l1Activ
    /\ S.l2.pendRel => S.l2.st = 5 /\ S.lc = "REL_WAIT"
    /\ ~S.ptp /\ S.l2.st \in {1, 3} => ~S.l2.tei

TeiInv(S) ==
    /\ S.tei \in {"NOP", "IDREQ", "IDVERIFY"}
    /\ S.tei = "IDVERIFY" => S.l2.st \in 4 .. 8
    /\ S.tei # "NOP" => S.t202

\* Something is at work on the link that layer 3 waits for.
Served(S) ==
    \/ S.l2.estabPend
    \/ S.l2.st = 3 /\ S.tei = "IDREQ" /\ S.t202
    \/ S.l2.st = 5 /\ S.l2.l3Init
Waits(S) == S.lc = "ESTAB_WAIT" /\ ~S.orphan => Served(S)
Belief(S) == S.lc = "ESTAB" /\ ~S.blind => LinkUp(S.l2)

\* The same, while the TEI manager gives up its request.
AlmostServed(S) == S.l2.estabPend \/ S.l2.st = 3 \/ (S.l2.st = 5 /\ S.l2.l3Init)
AlmostWaits(S) == S.lc = "ESTAB_WAIT" /\ ~S.orphan => AlmostServed(S)

Base(S) == CallsInv(S) /\ LinkInv(S)
Good(S) == Base(S) /\ TeiInv(S) /\ Waits(S) /\ Belief(S)

USE DEF Whole
HIDE DEF Warn, Ask, AddT200, AddT203, start_t200, restart_t200, stop_t200, RestartT203,
         DelT203, FsmChangeState, set_peer_busy, clear_peer_busy, clear_exception, freewin,
         PurgeI, PurgeUI, ResetVars, Send, AddTxCnt, enqueue_super, send_uframe, l2_send_UA,
         l2_send_DM, enquiry_cr, enquiry_response, transmit_enquiry, L2L3, Tell,
         lapb_dl_release_l2l3, st5_dl_release_l2l3, GotNr

LEMMA LinkAt == ASSUME NEW S, LinkInv(S) PROVE At(S.l2) /\ S.l2.st # 2 /\ Known(S.l2)
  BY DEF LinkInv, At

-----------------------------------------------------------------------------
(* The TEI manager answers what layer 2 asks *)

\* Only the TEI manager and layer 2 change.
Rest(S, U) ==
    /\ Whole(U) /\ U.lc = S.lc /\ U.drel = S.drel /\ U.sq = S.sq /\ U.proc = S.proc
    /\ U.t309 = S.t309 /\ U.ptp = S.ptp /\ U.orphan = S.orphan /\ U.blind = S.blind

LEMMA Verifying ==
    ASSUME NEW S, Whole(S)
    PROVE  LET U == tei_id_verify(S)
           IN  /\ Rest(S, U) /\ U.l2 = S.l2
               /\ IF S.tei = "NOP" THEN U.tei = "IDVERIFY" /\ U.t202
                  ELSE U.tei = S.tei /\ U.t202 = S.t202
  BY DEF tei_id_verify, Rest

\* Layer 2 asks for a check of its TEI, or for nothing.
Checked(S, U) ==
    /\ Rest(S, U) /\ Same(S.l2, U.l2) /\ U.l2.up = S.l2.up /\ U.l2.req = {}
    /\ \/ U.tei = S.tei /\ U.t202 = S.t202
       \/ S.tei = "NOP" /\ U.tei = "IDVERIFY" /\ U.t202 /\ S.l2.req # {}

LEMMA Checking ==
    ASSUME NEW S, Whole(S), Known(S.l2), "MDL_ASSIGN" \notin S.l2.req
    PROVE  Checked(S, tei_l2tei(S))
<1> DEFINE T == [S EXCEPT !.l2.req = {}]
           V == tei_id_verify(T)
<1>1. \/ tei_l2tei(S) = T
      \/ tei_l2tei(S) = V /\ S.l2.req # {}
  BY DEF tei_l2tei
<1>2. /\ Rest(S, T) /\ Same(S.l2, T.l2) /\ T.l2.up = S.l2.up /\ T.l2.req = {}
      /\ T.tei = S.tei /\ T.t202 = S.t202
  BY DEF Rest
<1> HIDE DEF T
<1>3. /\ Rest(T, V) /\ V.l2 = T.l2
      /\ IF T.tei = "NOP" THEN V.tei = "IDVERIFY" /\ V.t202
         ELSE V.tei = T.tei /\ V.t202 = T.t202
  <2>1. Whole(T)
    BY <1>2 DEF Rest
  <2> QED BY <2>1, Verifying
<1> HIDE DEF V
<1>4. Checked(S, T)
  BY <1>2 DEF Checked
<1>5. S.l2.req # {} => Checked(S, V)
  BY <1>2, <1>3 DEF Checked, Rest
<1> QED BY <1>1, <1>4, <1>5

\* Layer 2 asks for a TEI in ST_L2_3.
Assigned(S, U) ==
    /\ Rest(S, U)
    /\ Known(U.l2) /\ U.l2.up = <<>> /\ U.l2.req = {} /\ ~U.l2.pendRel
    /\ U.l2.estabPend = S.l2.estabPend /\ U.l2.l1Activ = S.l2.l1Activ
    /\ IF S.ptp THEN U.l2.st = 5 /\ U.l2.l3Init /\ U.tei = S.tei /\ U.t202 = S.t202
       ELSE /\ U.l2.st = 3 /\ U.l2.tei = S.l2.tei
            /\ IF S.tei = "NOP" THEN U.tei = "IDREQ" /\ U.t202
               ELSE U.tei = S.tei /\ U.t202 = S.t202

LEMMA Assigning ==
    ASSUME NEW S, Whole(S), Known(S.l2), S.l2.up = <<>>, S.l2.req = {"MDL_ASSIGN"},
           S.l2.st = 3, ~S.l2.pendRel, ~S.ptp => ~S.l2.tei
    PROVE  Assigned(S, tei_l2tei(S))
<1> DEFINE T == [S EXCEPT !.l2.req = {}]
           A == [T EXCEPT !.l2 = EvMdlAssign(@)]
           R == tei_id_request(T)
<1>1. tei_l2tei(S) = IF T.ptp THEN A ELSE R
  BY DEF tei_l2tei
<1>2. /\ Rest(S, T) /\ Same(S.l2, T.l2) /\ T.l2.up = <<>> /\ T.l2.req = {}
      /\ T.tei = S.tei /\ T.t202 = S.t202
  BY DEF Rest
<1> HIDE DEF T
<1>3. CASE S.ptp
  <2>1. At(T.l2)
    BY <1>2 DEF At
  <2>2. Rest(S, A) /\ A.l2 = EvMdlAssign(T.l2) /\ A.tei = S.tei /\ A.t202 = S.t202
    BY <1>2 DEF Rest
  <2> HIDE DEF A
  <2>3. /\ Known(A.l2) /\ A.l2.up = <<>> /\ A.l2.req = {} /\ ~A.l2.pendRel
        /\ A.l2.estabPend = S.l2.estabPend /\ A.l2.l1Activ = S.l2.l1Activ
        /\ A.l2.st = 5 /\ A.l2.l3Init
    BY <1>2, <2>1, <2>2, EffectAssign
  <2>4. Assigned(S, A)
    BY <1>3, <2>2, <2>3 DEF Assigned
  <2> QED BY <1>1, <1>2, <1>3, <2>4 DEF Rest
<1>4. CASE ~S.ptp
  <2>1. /\ Rest(S, R) /\ R.l2 = T.l2
        /\ IF S.tei = "NOP" THEN R.tei = "IDREQ" /\ R.t202
           ELSE R.tei = S.tei /\ R.t202 = S.t202
    BY <1>2, <1>4 DEF Rest, tei_id_request
  <2> HIDE DEF R
  <2>2. Assigned(S, R)
    BY <1>2, <1>4, <2>1 DEF Assigned
  <2> QED BY <1>1, <1>2, <1>4, <2>2 DEF Rest
<1> QED BY <1>3, <1>4

-----------------------------------------------------------------------------
(* Layer 3 asks for the link, gets it and loses it *)

\* What the request leaves of the call processes.
Kept(S, U) ==
    /\ Whole(U) /\ U.lc = "ESTAB_WAIT" /\ U.drel = S.drel /\ U.sq = S.sq
    /\ U.proc = S.proc /\ U.t309 = S.t309 /\ U.ptp = S.ptp /\ U.blind = S.blind

\* What layer 2 looks like at the request, and after it.
Asking(S) ==
    /\ Known(S.l2) /\ S.l2.st \in {1, 3, 4, 5, 6, 7, 8} /\ S.l2.up = <<>> /\ S.l2.req = {}
    /\ S.l2.pendRel => S.l2.st = 5
    /\ S.l2.estabPend => ~S.l2.l1Activ
    /\ ~S.ptp /\ S.l2.st \in {1, 3} => ~S.l2.tei
Asked(S, U) ==
    /\ Known(U.l2) /\ U.l2.up = <<>> /\ U.l2.req = {} /\ U.l2.l1Activ = S.l2.l1Activ
    /\ U.l2.estabPend => ~U.l2.l1Activ

LEMMA Activating ==
    ASSUME NEW S, Whole(S), Asking(S)
    PROVE  LET U == lc_activate(S)
           IN  /\ Kept(S, U) /\ Asked(S, U)
               /\ IF ~S.l2.l1Activ
                  THEN /\ U.l2.estabPend /\ U.l2.st = S.l2.st /\ U.l2.tei = S.l2.tei
                       /\ U.l2.pendRel = S.l2.pendRel /\ U.tei = S.tei /\ U.t202 = S.t202
                  ELSE /\ ~U.l2.pendRel
                       /\ S.l2.st # 1 => /\ U.l2.tei = S.l2.tei /\ U.tei = S.tei
                                         /\ U.t202 = S.t202
                       /\ \/ U.l2.st = 5 /\ U.l2.l3Init /\ U.tei = S.tei /\ U.t202 = S.t202
                          \/ /\ U.l2.st = 3 /\ U.l2.tei = S.l2.tei /\ S.l2.st = 1 /\ ~S.ptp
                             /\ IF S.tei = "NOP" THEN U.tei = "IDREQ" /\ U.t202
                                ELSE U.tei = S.tei /\ U.t202 = S.t202
                          \/ /\ U.l2.st = S.l2.st /\ S.l2.st \in {3, 6}
                             /\ S.l2.st = 6 \/ S.tei # "IDREQ" => U.orphan
<1> DEFINE dropped == /\ S.l2.l1Activ
                      /\ S.l2.st = 6 \/ (S.l2.st = 3 /\ S.tei # "IDREQ")
           A == [S EXCEPT !.lc = "ESTAB_WAIT", !.orphan = dropped, !.l2 = DlEstablishReq(@)]
           U == tei_l2tei(A)
           t == DlEstablishReq(S.l2)
<1>1. lc_activate(S) = U
  BY DEF lc_activate
<1>2. At(S.l2) /\ S.l2.st # 2
  BY DEF Asking, At
<1>3. Wanted(S.l2, t)
  BY <1>2, EffectEstablishReq, DChanAssumption
<1>4. Kept(S, A) /\ A.l2 = t /\ A.tei = S.tei /\ A.t202 = S.t202 /\ (A.orphan <=> dropped)
  BY DEF Kept
<1> HIDE DEF A, t, dropped
<1>5. CASE ~S.l2.l1Activ
  <2>1. /\ Known(A.l2) /\ A.l2.up = <<>>
        /\ A.l2.estabPend /\ A.l2.st = S.l2.st /\ A.l2.pendRel = S.l2.pendRel
        /\ A.l2.tei = S.l2.tei /\ A.l2.l1Activ = S.l2.l1Activ /\ A.l2.req = {"PH_ACTIVATE"}
    BY <1>3, <1>4, <1>5 DEF Wanted
  <2>2. U = [A EXCEPT !.l2.req = {}]
    <3>1. "MDL_ASSIGN" \notin A.l2.req /\ A.l2.req \cap {"C", "D", "G", "H"} = {}
      BY <2>1
    <3> QED BY <3>1 DEF tei_l2tei
  <2> HIDE DEF U
  <2>3. /\ Rest(A, U) /\ Same(A.l2, U.l2) /\ U.l2.up = <<>> /\ U.l2.req = {}
        /\ U.tei = A.tei /\ U.t202 = A.t202
    BY <1>4, <2>1, <2>2 DEF Rest, Kept
  <2>4. Kept(S, U) /\ Asked(S, U)
    BY <1>4, <1>5, <2>1, <2>3 DEF Kept, Rest, Asked
  <2> QED BY <1>1, <1>4, <1>5, <2>1, <2>3, <2>4
<1>6. CASE S.l2.l1Activ /\ S.l2.st = 1
  <2>1. /\ Known(A.l2) /\ A.l2.req = {"MDL_ASSIGN"} /\ A.l2.up = <<>> /\ A.l2.st = 3
        /\ ~A.l2.pendRel /\ A.l2.tei = S.l2.tei /\ A.l2.l1Activ = S.l2.l1Activ
        /\ A.l2.estabPend = S.l2.estabPend
    BY <1>3, <1>4, <1>6 DEF Wanted
  <2>2. Whole(A) /\ A.ptp = S.ptp
    BY <1>4 DEF Kept
  <2>3. ~A.ptp => ~A.l2.tei
    BY <1>6, <2>1, <2>2 DEF Asking
  <2>4. Assigned(A, U)
    BY <2>1, <2>2, <2>3, Assigning
  <2> HIDE DEF U
  <2>5. Kept(S, U)
    BY <1>4, <2>4 DEF Kept, Assigned, Rest
  <2>6. Asked(S, U)
    BY <1>6, <2>1, <2>4 DEF Asking, Asked, Assigned
  <2>7. /\ ~U.l2.pendRel
        /\ \/ U.l2.st = 5 /\ U.l2.l3Init /\ U.tei = S.tei /\ U.t202 = S.t202
           \/ /\ U.l2.st = 3 /\ U.l2.tei = S.l2.tei /\ S.l2.st = 1 /\ ~S.ptp
              /\ IF S.tei = "NOP" THEN U.tei = "IDREQ" /\ U.t202
                 ELSE U.tei = S.tei /\ U.t202 = S.t202
    BY <1>4, <1>6, <2>1, <2>2, <2>4 DEF Assigned
  <2> QED BY <1>1, <1>6, <2>5, <2>6, <2>7
<1>7. CASE S.l2.l1Activ /\ S.l2.st \in {3, 4, 5, 6, 7, 8}
  <2>1. /\ Known(A.l2) /\ A.l2.req = {} /\ A.l2.up = <<>>
        /\ A.l2.tei = S.l2.tei /\ A.l2.l1Activ = S.l2.l1Activ
        /\ A.l2.estabPend = S.l2.estabPend /\ ~A.l2.pendRel
        /\ \/ A.l2.st = 5 /\ A.l2.l3Init
           \/ A.l2.st = S.l2.st /\ S.l2.st \in {3, 6}
    BY <1>3, <1>4, <1>7 DEF Wanted, Asking
  <2>2. Checked(A, U)
    <3>1. Whole(A) /\ "MDL_ASSIGN" \notin A.l2.req
      BY <1>4, <2>1 DEF Kept
    <3> QED BY <2>1, <3>1, Checking
  <2> HIDE DEF U
  <2>3. Kept(S, U) /\ U.orphan = A.orphan /\ U.tei = S.tei /\ U.t202 = S.t202
    BY <1>4, <2>1, <2>2 DEF Kept, Checked, Rest
  <2>4. Asked(S, U) /\ U.l2.tei = S.l2.tei /\ ~U.l2.pendRel
    BY <1>7, <2>1, <2>2 DEF Asking, Asked, Checked
  <2>5. \/ U.l2.st = 5 /\ U.l2.l3Init
        \/ /\ U.l2.st = S.l2.st /\ S.l2.st \in {3, 6}
           /\ S.l2.st = 6 \/ S.tei # "IDREQ" => U.orphan
    BY <1>4, <1>7, <2>1, <2>2, <2>3 DEF Checked, dropped
  <2> QED BY <1>1, <1>7, <2>3, <2>4, <2>5
<1> QED BY <1>5, <1>6, <1>7 DEF Asking

\* The request when layer 3 is told in time.
LEMMA ActivatingLink ==
    ASSUME NEW S, Typed(S), LinkInv(S), Patient(S), ~S.drel
    PROVE  LET U == lc_activate(S)
           IN  /\ Base(U) /\ Kept(S, U) /\ AlmostWaits(U)
               /\ TeiInv(S) => TeiInv(U) /\ Waits(U)
<1> DEFINE U == lc_activate(S)
<1>1. Whole(S) /\ Asking(S)
  BY DEF Typed, LinkInv, Asking
<1>2. /\ Kept(S, U) /\ Asked(S, U)
      /\ IF ~S.l2.l1Activ
         THEN /\ U.l2.estabPend /\ U.l2.st = S.l2.st /\ U.l2.tei = S.l2.tei
              /\ U.l2.pendRel = S.l2.pendRel /\ U.tei = S.tei /\ U.t202 = S.t202
         ELSE /\ ~U.l2.pendRel
              /\ \/ U.l2.st = 5 /\ U.l2.l3Init /\ U.tei = S.tei /\ U.t202 = S.t202
                 \/ /\ U.l2.st = 3 /\ U.l2.tei = S.l2.tei /\ S.l2.st = 1 /\ ~S.ptp
                    /\ IF S.tei = "NOP" THEN U.tei = "IDREQ" /\ U.t202
                       ELSE U.tei = S.tei /\ U.t202 = S.t202
                 \/ /\ U.l2.st = S.l2.st /\ S.l2.st \in {3, 6}
                    /\ S.l2.st = 6 \/ S.tei # "IDREQ" => U.orphan
      /\ S.l2.l1Activ /\ S.l2.st # 1 =>
             U.l2.tei = S.l2.tei /\ U.tei = S.tei /\ U.t202 = S.t202
  BY <1>1, Activating
<1> HIDE DEF U
<1>3. CallsInv(U)
  BY <1>2 DEF CallsInv, Typed, Kept, Patient, LcStates
<1>4. LinkInv(U)
  BY <1>2 DEF LinkInv, Kept, Asked
<1>5. AlmostWaits(U)
  BY <1>2 DEF AlmostWaits, AlmostServed, LinkInv
<1>6. TeiInv(S) => TeiInv(U)
  BY <1>2 DEF TeiInv, LinkInv
<1>7. TeiInv(S) => Waits(U)
  BY <1>2 DEF TeiInv, Waits, Served, LinkInv
<1> QED BY <1>2, <1>3, <1>4, <1>5, <1>6, <1>7 DEF Base, U

\* The link is lost: T309 watches the active calls, the others are gone.
Lost(S) ==
    LET keep == Active(S)
    IN  [S EXCEPT !.lc = "REL", !.drel = FALSE, !.sq = 0, !.orphan = FALSE, !.blind = FALSE,
                  !.proc = [p \in Procs |-> IF p \in keep THEN @[p] ELSE "none"],
                  !.t309 = keep]

LEMMA Losing ==
    ASSUME NEW S, Typed(S)
    PROVE  LET T == Lost(S)
           IN  /\ lc_release_ind(S) = IF Active(S) = {} THEN T ELSE lc_activate(T)
               /\ Whole(T) /\ T.l2 = S.l2 /\ T.ptp = S.ptp /\ T.tei = S.tei /\ T.t202 = S.t202
               /\ T.lc = "REL" /\ ~T.drel /\ T.sq = 0 /\ Typed(T) /\ Patient(T)
               /\ Active(S) = {} => CallsInv(T)
<1> DEFINE R == [S EXCEPT !.lc = "REL", !.drel = FALSE, !.sq = 0,
                          !.orphan = FALSE, !.blind = FALSE]
           keep == Active(S)
           q == [p \in Procs |-> IF p \in keep THEN S.proc[p] ELSE "none"]
           T == Lost(S)
           V == [R EXCEPT !.proc = q, !.t309 = keep]
<1>1. Whole(R) /\ R.proc = S.proc /\ Active(R) = keep
  BY DEF Typed, Active
<1>2. lc_release_ind(S) = dl_release_ind(R)
  BY DEF lc_release_ind
<1>3. /\ Whole(V) /\ V.l2 = S.l2 /\ V.ptp = S.ptp /\ V.tei = S.tei /\ V.t202 = S.t202
      /\ V.lc = "REL" /\ ~V.drel /\ V.sq = 0 /\ V.proc = q /\ V.t309 = keep
  BY DEF Typed
<1>4. T = V
  BY DEF Typed, Lost
<1> HIDE DEF T
<1>5. dl_release_ind(R) = IF keep = {} THEN V ELSE lc_activate(V)
  <2> HIDE DEF R, keep
  <2> QED BY <1>1 DEF dl_release_ind, q, V
<1> HIDE DEF V
<1>6. \A p \in Procs : /\ q[p] \in {"none", "active"} /\ (q[p] = "active" <=> p \in keep)
                       /\ q[p] \in CallStates
  BY DEF Active, CallStates
<1>7. q \in [Procs -> CallStates]
  BY <1>6
<1> HIDE DEF q
<1>8. Typed(V) /\ Patient(V)
  BY <1>3, <1>6, <1>7 DEF Typed, Patient
<1>9. keep = {} => CallsInv(V)
  <2> HIDE DEF keep
  <2> QED BY <1>3, <1>6, <1>8 DEF CallsInv, Idle, LcStates
<1> QED BY <1>2, <1>3, <1>4, <1>5, <1>8, <1>9 DEF T

LEMMA ReleaseInd ==
    ASSUME NEW S, Base(S), ~S.l2.pendRel
    PROVE  LET U == lc_release_ind(S)
           IN  /\ Base(U) /\ AlmostWaits(U) /\ Belief(U)
               /\ TeiInv(S) => TeiInv(U) /\ Waits(U)
<1> DEFINE T == Lost(S)
           A == lc_activate(T)
<1>1. /\ lc_release_ind(S) = IF Active(S) = {} THEN T ELSE A
      /\ Whole(T) /\ T.l2 = S.l2 /\ T.ptp = S.ptp /\ T.tei = S.tei /\ T.t202 = S.t202
      /\ T.lc = "REL" /\ ~T.drel /\ T.sq = 0 /\ Typed(T) /\ Patient(T)
      /\ Active(S) = {} => CallsInv(T)
  BY Losing DEF Base, CallsInv
<1> HIDE DEF T
<1>2. LinkInv(T) /\ (TeiInv(S) => TeiInv(T))
  BY <1>1 DEF Base, LinkInv, TeiInv
<1>3. /\ Base(A) /\ Kept(T, A) /\ AlmostWaits(A)
      /\ TeiInv(T) => TeiInv(A) /\ Waits(A)
  BY <1>1, <1>2, ActivatingLink
<1> HIDE DEF A
<1>4. Belief(A)
  BY <1>3 DEF Belief, Kept
<1>5. Active(S) = {} => Base(T) /\ AlmostWaits(T) /\ Waits(T) /\ Belief(T)
  BY <1>1, <1>2 DEF Base, AlmostWaits, Waits, Belief
<1> QED BY <1>1, <1>2, <1>3, <1>4, <1>5

LEMMA ReleaseCnf ==
    ASSUME NEW S, Base(S), S.lc = "REL_WAIT", S.l2.st # 5
    PROVE  LET U == lc_release_cnf(S)
           IN  /\ Base(U) /\ AlmostWaits(U) /\ Waits(U) /\ Belief(U)
               /\ U.l2 = S.l2 /\ U.tei = S.tei /\ U.t202 = S.t202 /\ U.ptp = S.ptp
               /\ U.lc = "REL"
<1> DEFINE U == lc_release_cnf(S)
<1>1. /\ Whole(U) /\ U.l2 = S.l2 /\ U.tei = S.tei /\ U.t202 = S.t202 /\ U.ptp = S.ptp
      /\ U.lc = "REL" /\ U.drel = S.drel /\ U.sq = 0 /\ U.proc = S.proc
  BY DEF lc_release_cnf, Base, CallsInv, Typed
<1> HIDE DEF U
<1>2. CallsInv(U)
  BY <1>1 DEF Base, CallsInv, Typed, Idle, LcStates
<1>3. LinkInv(U)
  BY <1>1 DEF Base, LinkInv
<1>4. AlmostWaits(U) /\ Waits(U) /\ Belief(U)
  BY <1>1 DEF AlmostWaits, Waits, Belief
<1> QED BY <1>1, <1>2, <1>3, <1>4 DEF Base, U

\* The messages of the processes go out, and nothing else changes.
LEMMA Sending ==
    ASSUME NEW S, Whole(S), Known(S.l2), NEW n \in Nat
    PROVE  LET U == SendAll(S, n)
           IN  Rest(S, U) /\ U.tei = S.tei /\ U.t202 = S.t202 /\ Calm(S.l2, U.l2)
<1> DEFINE U == SendAll(S, n)
<1>1. Rest(S, U) /\ U.tei = S.tei /\ U.t202 = S.t202 /\ U.l2 = Sent(S.l2, n)
  BY DEF SendAll, Rest
<1>2. Calm(S.l2, Sent(S.l2, n))
  BY CalmSent
<1> HIDE DEF U
<1> QED BY <1>1, <1>2 DEF U

LEMMA CountNat == ASSUME NEW S PROVE /\ Cardinality(Overlap(S)) \in Nat
                                     /\ Cardinality(Active(S)) \in Nat
<1>1. IsFiniteSet(Overlap(S)) /\ IsFiniteSet(Active(S))
  BY DChanAssumption, FS_Subset DEF Overlap, Active
<1> QED BY <1>1, FS_CardinalityType

\* A link for which nothing waits any more is kept for a while.
LEMMA Delaying ==
    ASSUME NEW S, Typed(S), LinkInv(S), S.lc \in {"ESTAB_WAIT", "ESTAB"}, S.sq = 0, Idle(S)
    PROVE  LET U == lc_start_delay(S)
           IN  /\ Base(U) /\ U.lc = "REL_DELAY" /\ U.l2 = S.l2 /\ U.tei = S.tei
               /\ U.t202 = S.t202 /\ U.ptp = S.ptp /\ U.proc = S.proc
<1> DEFINE U == lc_start_delay(S)
<1>1. /\ Whole(U) /\ U.lc = "REL_DELAY" /\ U.l2 = S.l2 /\ U.tei = S.tei
      /\ U.t202 = S.t202 /\ U.ptp = S.ptp /\ U.drel /\ U.sq = S.sq /\ U.proc = S.proc
  BY DEF lc_start_delay, Typed
<1> HIDE DEF U
<1>2. CallsInv(U)
  BY <1>1 DEF CallsInv, Typed, Idle, LcStates
<1>3. LinkInv(U)
  BY <1>1 DEF LinkInv
<1> QED BY <1>1, <1>2, <1>3 DEF Base, U

\* Layer 3 has the link: what waited goes out.
LEMMA Connecting ==
    ASSUME NEW S, Typed(S), LinkInv(S), S.lc # "REL_WAIT", NEW T, Whole(T),
           T.lc = "ESTAB", ~T.drel, T.sq = 0, T.proc \in [Procs -> CallStates],
           T.l2 = S.l2, T.ptp = S.ptp, T.tei = S.tei, T.t202 = S.t202,
           Calls(S) = {} => Idle(T),
           NEW n \in Nat
    PROVE  LET V == SendAll(T, n)
               U == IF Calls(S) = {} /\ S.sq > 0 THEN lc_start_delay(V) ELSE V
           IN  /\ Base(U) /\ U.lc \in {"ESTAB", "REL_DELAY"} /\ Calm(S.l2, U.l2)
               /\ U.tei = S.tei /\ U.t202 = S.t202 /\ U.ptp = S.ptp
               /\ U.lc = "ESTAB" => U.blind = T.blind
               /\ U.proc = T.proc
               /\ U.lc = "REL_DELAY" => Calls(S) = {} /\ S.sq > 0
<1> DEFINE V == SendAll(T, n)
<1>1. Rest(T, V) /\ V.tei = T.tei /\ V.t202 = T.t202 /\ Calm(T.l2, V.l2)
  BY Sending DEF LinkInv
<1> HIDE DEF V
<1>2. Typed(V) /\ V.lc = "ESTAB" /\ V.sq = 0 /\ ~V.drel /\ V.proc = T.proc
  BY <1>1 DEF Rest, Typed
<1>3. LinkInv(V)
  BY <1>1, <1>2 DEF LinkInv, Rest
<1>4. CallsInv(V)
  BY <1>2 DEF CallsInv, LcStates
<1>5. CASE Calls(S) = {} /\ S.sq > 0
  <2>1. Idle(V)
    BY <1>2, <1>5 DEF Idle
  <2> DEFINE U == lc_start_delay(V)
  <2>2. /\ Base(U) /\ U.lc = "REL_DELAY" /\ U.l2 = V.l2 /\ U.tei = V.tei
        /\ U.t202 = V.t202 /\ U.ptp = V.ptp /\ U.proc = V.proc
    BY <1>2, <1>3, <2>1, Delaying
  <2> HIDE DEF U
  <2> QED BY <1>1, <1>2, <1>5, <2>2 DEF U, V, Rest
<1>6. CASE ~(Calls(S) = {} /\ S.sq > 0)
  <2>1. Base(V)
    BY <1>3, <1>4 DEF Base
  <2> QED BY <1>1, <1>2, <1>6, <2>1 DEF V, Rest
<1> QED BY <1>5, <1>6

LEMMA ConnectInd ==
    ASSUME NEW S, Base(S), S.lc = "REL", LinkUp(S.l2)
    PROVE  LET U == lc_connect(S)
           IN  /\ Base(U) /\ U.lc \in {"ESTAB", "REL_DELAY"} /\ Calm(S.l2, U.l2)
               /\ U.tei = S.tei /\ U.t202 = S.t202 /\ U.ptp = S.ptp /\ Belief(U)
<1> DEFINE R == [S EXCEPT !.lc = "ESTAB", !.orphan = FALSE, !.sq = 0]
           q == [p \in Procs |-> IF p \in Overlap(R) THEN "clearing" ELSE R.proc[p]]
           T == [R EXCEPT !.proc = q]
           n == S.sq + Cardinality(Overlap(S))
           V == SendAll(T, n)
           U == IF Calls(S) = {} /\ S.sq > 0 THEN lc_start_delay(V) ELSE V
<1>1. /\ Typed(S) /\ LinkInv(S) /\ ~S.drel
  BY DEF Base, CallsInv
<1>2. /\ Whole(R) /\ R.lc = "ESTAB" /\ R.drel = S.drel /\ R.sq = 0 /\ R.proc = S.proc
      /\ R.l2 = S.l2 /\ R.ptp = S.ptp /\ R.tei = S.tei /\ R.t202 = S.t202
  BY <1>1 DEF Typed
<1>3. dl_reset(R) = T
  <2> HIDE DEF R
  <2> QED BY DEF dl_reset
<1>4. lc_connect(S) = U
  BY <1>3 DEF lc_connect
<1> HIDE DEF R, q
<1>5. /\ Whole(T) /\ T.lc = "ESTAB" /\ ~T.drel /\ T.sq = 0 /\ T.proc = q
      /\ T.l2 = S.l2 /\ T.ptp = S.ptp /\ T.tei = S.tei /\ T.t202 = S.t202
  BY <1>1, <1>2
<1>6. q \in [Procs -> CallStates] /\ \A p \in Procs : S.proc[p] = "none" => q[p] = "none"
  BY <1>1, <1>2 DEF q, Typed, CallStates, Overlap
<1>7. Calls(S) = {} => Idle(T)
  <2>1. Calls(S) = {} => \A p \in Procs : S.proc[p] = "none"
    BY DEF Calls
  <2> QED BY <1>5, <1>6, <2>1 DEF Idle
<1>8. n \in Nat
  BY <1>1, CountNat DEF Typed
<1> HIDE DEF T, n
<1>9. /\ Base(U) /\ U.lc \in {"ESTAB", "REL_DELAY"} /\ Calm(S.l2, U.l2)
      /\ U.tei = S.tei /\ U.t202 = S.t202 /\ U.ptp = S.ptp
  BY <1>1, <1>5, <1>6, <1>7, <1>8, Connecting
<1> HIDE DEF U
<1>10. Belief(U)
  BY <1>9 DEF Belief, LinkUp
<1> QED BY <1>4, <1>9, <1>10

LEMMA ConnectCnf ==
    ASSUME NEW S, Typed(S), LinkInv(S), S.lc # "REL_WAIT"
    PROVE  LET U == lc_connected(S)
           IN  /\ Base(U) /\ U.lc \in {"ESTAB", "REL_DELAY"} /\ Calm(S.l2, U.l2)
               /\ U.tei = S.tei /\ U.t202 = S.t202 /\ U.ptp = S.ptp /\ Belief(U)
               /\ U.proc = S.proc
               /\ U.lc = "REL_DELAY" => Calls(S) = {} /\ S.sq > 0
<1> DEFINE R == [S EXCEPT !.lc = "ESTAB", !.drel = FALSE, !.orphan = FALSE, !.sq = 0,
                          !.blind = ~LinkUp(S.l2)]
           w == R.t309 \ Active(R)
           T == [R EXCEPT !.t309 = w]
           n == S.sq + Cardinality(Active(S))
           V == SendAll(T, n)
           U == IF Calls(S) = {} /\ S.sq > 0 THEN lc_start_delay(V) ELSE V
<1>1. dl_reest_status(R) = T
  <2> HIDE DEF R
  <2> QED BY DEF dl_reest_status
<1>2. lc_connected(S) = U
  BY <1>1 DEF lc_connected
<1>3. /\ Whole(R) /\ R.lc = "ESTAB" /\ ~R.drel /\ R.sq = 0 /\ R.proc = S.proc
      /\ R.l2 = S.l2 /\ R.ptp = S.ptp /\ R.tei = S.tei /\ R.t202 = S.t202
      /\ (R.blind <=> ~LinkUp(S.l2))
  BY DEF Typed
<1> HIDE DEF R, w
<1>4. /\ Whole(T) /\ T.lc = "ESTAB" /\ ~T.drel /\ T.sq = 0 /\ T.proc = S.proc
      /\ T.l2 = S.l2 /\ T.ptp = S.ptp /\ T.tei = S.tei /\ T.t202 = S.t202
      /\ (T.blind <=> ~LinkUp(S.l2))
  BY <1>3
<1>5. T.proc \in [Procs -> CallStates] /\ (Calls(S) = {} => Idle(T))
  BY <1>4 DEF Typed, Calls, Idle
<1>6. n \in Nat
  BY CountNat DEF Typed
<1> HIDE DEF T, n
<1>7. /\ Base(U) /\ U.lc \in {"ESTAB", "REL_DELAY"} /\ Calm(S.l2, U.l2)
      /\ U.tei = S.tei /\ U.t202 = S.t202 /\ U.ptp = S.ptp
      /\ U.lc = "ESTAB" => U.blind = T.blind
      /\ U.proc = T.proc
      /\ U.lc = "REL_DELAY" => Calls(S) = {} /\ S.sq > 0
  BY <1>4, <1>5, <1>6, Connecting
<1> HIDE DEF U
<1>8. Belief(U)
  BY <1>4, <1>7 DEF Belief, LinkUp
<1> QED BY <1>2, <1>4, <1>7, <1>8

\* Layer 3 is told of the link.
Plausible(S, prim) ==
    /\ prim \in UpPrims => S.l2.st = 7
    /\ prim = "DL_ESTABLISH_IND" /\ S.lc = "ESTAB_WAIT" => S.orphan
    /\ prim \in DownPrims => S.l2.st \in {1, 4}
    /\ prim = "DL_RELEASE_CNF" =>
           (S.lc = "ESTAB_WAIT" => S.orphan) /\ (S.lc = "ESTAB" => S.blind)

LEMMA Hearing ==
    ASSUME NEW S, Base(S), NEW prim \in UpPrims \cup DownPrims, Plausible(S, prim)
    PROVE  LET U == dss1up(S, prim)
           IN  /\ Base(U) /\ AlmostWaits(U) /\ Belief(U)
               /\ TeiInv(S) => TeiInv(U) /\ Waits(U)
<1> DEFINE U == dss1up(S, prim)
           Fine(V) == /\ Base(V) /\ AlmostWaits(V) /\ Belief(V)
                      /\ TeiInv(S) => TeiInv(V) /\ Waits(V)
<1>1. CASE prim \in UpPrims /\ S.lc = "REL"
  <2> DEFINE V == lc_connect(S)
  <2>1. /\ Base(V) /\ V.lc \in {"ESTAB", "REL_DELAY"} /\ Calm(S.l2, V.l2)
        /\ V.tei = S.tei /\ V.t202 = S.t202 /\ Belief(V)
    BY <1>1, ConnectInd DEF Plausible, LinkUp
  <2>2. U = V
    BY <1>1 DEF dss1up, UpPrims
  <2> HIDE DEF V, U
  <2>3. Fine(V)
    BY <2>1 DEF AlmostWaits, Waits, TeiInv
  <2> QED BY <2>2, <2>3 DEF U
<1>2. CASE prim = "DL_ESTABLISH_CNF" /\ S.lc = "ESTAB_WAIT"
  <2> DEFINE V == lc_connected(S)
  <2>1. /\ Base(V) /\ V.lc \in {"ESTAB", "REL_DELAY"} /\ Calm(S.l2, V.l2)
        /\ V.tei = S.tei /\ V.t202 = S.t202 /\ Belief(V)
    BY <1>2, ConnectCnf DEF Base, CallsInv
  <2>2. U = V
    BY <1>2 DEF dss1up
  <2> HIDE DEF V, U
  <2>3. Fine(V)
    BY <2>1 DEF AlmostWaits, Waits, TeiInv
  <2> QED BY <2>2, <2>3 DEF U
<1>3. CASE prim = "DL_RELEASE_IND" /\ S.lc \in {"ESTAB_WAIT", "REL_DELAY", "ESTAB"}
  <2>1. Fine(lc_release_ind(S))
    BY <1>3, ReleaseInd DEF Base, LinkInv
  <2>2. U = lc_release_ind(S)
    BY <1>3 DEF dss1up
  <2> QED BY <2>1, <2>2
<1>4. CASE prim = "DL_RELEASE_CNF" /\ S.lc = "REL_WAIT"
  <2> DEFINE V == lc_release_cnf(S)
  <2>1. S.l2.st # 5
    BY <1>4 DEF Plausible, DownPrims
  <2>2. /\ Base(V) /\ AlmostWaits(V) /\ Waits(V) /\ Belief(V)
        /\ V.l2 = S.l2 /\ V.tei = S.tei /\ V.t202 = S.t202
    BY <1>4, <2>1, ReleaseCnf
  <2>3. U = V
    BY <1>4 DEF dss1up
  <2> HIDE DEF V, U
  <2>4. Fine(V)
    BY <2>2 DEF TeiInv
  <2> QED BY <2>3, <2>4 DEF U
<1>5. CASE /\ ~(prim \in UpPrims /\ S.lc = "REL")
           /\ ~(prim = "DL_ESTABLISH_CNF" /\ S.lc = "ESTAB_WAIT")
           /\ ~(prim = "DL_RELEASE_IND" /\ S.lc \in {"ESTAB_WAIT", "REL_DELAY", "ESTAB"})
           /\ ~(prim = "DL_RELEASE_CNF" /\ S.lc = "REL_WAIT")
  <2>1. U = S
    BY <1>5 DEF dss1up, UpPrims
  <2>2. S.lc = "ESTAB_WAIT" => S.orphan
    BY <1>5 DEF Plausible, UpPrims, DownPrims
  <2>3. S.lc = "ESTAB" => S.blind \/ S.l2.st = 7
    BY <1>5 DEF Plausible, UpPrims, DownPrims
  <2> HIDE DEF U
  <2>4. Fine(S)
    BY <2>2, <2>3 DEF AlmostWaits, Waits, Belief, LinkUp
  <2> QED BY <2>1, <2>4 DEF U
<1> QED BY <1>1, <1>2, <1>3, <1>4, <1>5

-----------------------------------------------------------------------------
(* A handler of layer 2 and what follows from it *)

Told(x) == {x.up[i].p : i \in 1 .. Len(x.up)} \ {"DL_DATA_IND"}

\* The TEI manager has answered, and layer 3 has not been told yet.
Early(S, x, first) ==
    tei_l2tei([S EXCEPT !.l2 = [x EXCEPT !.up = <<>>,
                                         !.st = IF first THEN S.l2.st ELSE @]])

LEMMA ToldOne ==
    ASSUME NEW x, NEW p, p # "DL_DATA_IND", x.up = One(p)
    PROVE  Told(x) = {p} /\ (CHOOSE prim \in Told(x) : TRUE) = p
<1>1. Len(x.up) = 1 /\ x.up[1].p = p
  BY DEF One
<1>2. Told(x) = {p}
  BY <1>1 DEF Told
<1> HIDE DEF Told
<1> QED BY <1>2

LEMMA ToldNone ==
    ASSUME NEW x, Mute(x)
    PROVE  Told(x) = {}
<1>1. CASE x.up = <<>>
  BY <1>1 DEF Told
<1>2. CASE \E m : x.up = <<[p |-> "DL_DATA_IND", d |-> m]>>
  <2>1. Len(x.up) = 1 /\ x.up[1].p = "DL_DATA_IND"
    BY <1>2
  <2> QED BY <2>1 DEF Told
<1> QED BY <1>1, <1>2 DEF Mute

\* The step ends as layer 3 left it, but for the state of layer 2.
After(U, D, st, undone) ==
    /\ Whole(D) /\ D.lc = U.lc /\ D.drel = U.drel /\ D.sq = U.sq /\ D.proc = U.proc
    /\ D.t309 = U.t309 /\ D.ptp = U.ptp /\ D.blind = U.blind
    /\ D.tei = U.tei /\ D.t202 = U.t202
    /\ D.orphan <=> U.orphan \/ undone
    /\ Link(U.l2, D.l2) /\ D.l2.st = st /\ D.l2.l3Init = U.l2.l3Init
    /\ D.l2.pendRel = U.l2.pendRel /\ D.l2.up = U.l2.up /\ D.l2.req = U.l2.req

Undone(U, first, told) ==
    first /\ "DL_RELEASE_IND" \in told /\ U.lc = "ESTAB_WAIT" /\ U.l2.l1Activ

LEMMA Delivering ==
    ASSUME NEW S, NEW x, NEW first \in BOOLEAN
    PROVE  LET E == Early(S, x, first)
               D == Deliver(S, x, first)
               st(U) == IF first THEN x.st ELSE U.l2.st
           IN  /\ Mute(x) /\ Whole(E) /\ Known(E.l2) => After(E, D, st(E), FALSE)
               /\ \A p : LET U == dss1up(E, p)
                         IN  /\ p # "DL_DATA_IND" /\ x.up = One(p)
                             /\ Whole(U) /\ Known(U.l2)
                             => After(U, D, st(U),
                                      /\ first /\ p = "DL_RELEASE_IND"
                                      /\ U.lc = "ESTAB_WAIT" /\ U.l2.l1Activ)
<1> DEFINE E == Early(S, x, first)
           told == Told(x)
           V == IF told = {} THEN E ELSE dss1up(E, CHOOSE prim \in told : TRUE)
           W(U) == [U EXCEPT !.l2.st = IF first THEN x.st ELSE @,
                             !.orphan = @ \/ Undone(U, first, told)]
           D == Deliver(S, x, first)
<1>1. D = W(V)
  BY DEF Deliver, Early, Told, Undone
<1> HIDE DEF D
<1>2. \A U : Whole(U) /\ Known(U.l2) =>
          After(U, W(U), IF first THEN x.st ELSE U.l2.st, Undone(U, first, told))
  BY DEF After
<1> HIDE DEF W
<1>3. ASSUME Mute(x), Whole(E), Known(E.l2)
      PROVE  After(E, D, IF first THEN x.st ELSE E.l2.st, FALSE)
  <2>1. told = {}
    BY <1>3, ToldNone
  <2> HIDE DEF E, told
  <2>2. D = W(E) /\ ~Undone(E, first, told)
    BY <1>1, <2>1 DEF Undone
  <2> QED BY <1>2, <1>3, <2>2 DEF After
<1>4. ASSUME NEW p, p # "DL_DATA_IND", x.up = One(p),
             Whole(dss1up(E, p)), Known(dss1up(E, p).l2)
      PROVE  LET U == dss1up(E, p)
             IN  After(U, D, IF first THEN x.st ELSE U.l2.st,
                       /\ first /\ p = "DL_RELEASE_IND"
                       /\ U.lc = "ESTAB_WAIT" /\ U.l2.l1Activ)
  <2> DEFINE U == dss1up(E, p)
  <2>1. told = {p} /\ (CHOOSE prim \in told : TRUE) = p
    BY <1>4, ToldOne
  <2>2. V = U
    BY <2>1
  <2>3. Whole(U) /\ Known(U.l2)
    BY <1>4
  <2> HIDE DEF U, V, told
  <2>4. After(U, W(U), IF first THEN x.st ELSE U.l2.st, Undone(U, first, told))
    BY <1>2, <2>3
  <2>5. D = W(U)
    BY <1>1, <2>2
  <2>6. After(U, D, IF first THEN x.st ELSE U.l2.st, Undone(U, first, told))
    BY <2>4, <2>5
  <2>7. Undone(U, first, told) <=>
            first /\ p = "DL_RELEASE_IND" /\ U.lc = "ESTAB_WAIT" /\ U.l2.l1Activ
    BY <2>1 DEF Undone
  <2>8. After(U, D, IF first THEN x.st ELSE U.l2.st,
              first /\ p = "DL_RELEASE_IND" /\ U.lc = "ESTAB_WAIT" /\ U.l2.l1Activ)
    BY <2>6, <2>7 DEF After
  <2> QED BY <2>8 DEF U
<1> QED BY <1>3, <1>4 DEF D

\* Nothing is different that the invariant sees.
LEMMA AfterFine ==
    ASSUME NEW U, NEW D, After(U, D, U.l2.st, FALSE)
    PROVE  /\ Base(U) => Base(D)
           /\ AlmostWaits(U) => AlmostWaits(D)
           /\ Belief(U) => Belief(D)
           /\ TeiInv(U) => TeiInv(D)
           /\ Waits(U) => Waits(D)
<1>1. Base(U) => Base(D)
  <2>1. CallsInv(U) => CallsInv(D)
    BY DEF After, CallsInv, Typed, Idle, Patient
  <2>2. LinkInv(U) => LinkInv(D)
    BY DEF After, LinkInv
  <2> QED BY <2>1, <2>2 DEF Base
<1>2. (AlmostWaits(U) => AlmostWaits(D)) /\ (Belief(U) => Belief(D))
  BY DEF After, AlmostWaits, AlmostServed, Belief, LinkUp
<1>3. (TeiInv(U) => TeiInv(D)) /\ (Waits(U) => Waits(D))
  BY DEF After, TeiInv, Waits, Served
<1> QED BY <1>1, <1>2, <1>3

\* Layer 3 hears of the link after layer 2 has changed, or hears nothing.
LEMMA DeliverMute ==
    ASSUME NEW S, NEW x, Mute(x), Base(Early(S, x, FALSE))
    PROVE  LET E == Early(S, x, FALSE)
           IN  After(E, Deliver(S, x, FALSE), E.l2.st, FALSE)
<1> DEFINE E == Early(S, x, FALSE)
<1>1. Whole(E) /\ Known(E.l2)
  BY DEF Base, CallsInv, Typed, LinkInv
<1> HIDE DEF E
<1> QED BY <1>1, Delivering DEF E

LEMMA DeliverTold ==
    ASSUME NEW S, NEW x, NEW p \in UpPrims \cup DownPrims, x.up = One(p),
           Base(Early(S, x, FALSE)), Plausible(Early(S, x, FALSE), p)
    PROVE  LET E == Early(S, x, FALSE)
               D == Deliver(S, x, FALSE)
           IN  /\ Base(D) /\ AlmostWaits(D) /\ Belief(D)
               /\ TeiInv(E) => TeiInv(D) /\ Waits(D)
<1> DEFINE E == Early(S, x, FALSE)
           D == Deliver(S, x, FALSE)
           U == dss1up(E, p)
<1>1. /\ Base(U) /\ AlmostWaits(U) /\ Belief(U)
      /\ TeiInv(E) => TeiInv(U) /\ Waits(U)
  BY Hearing
<1>2. Whole(U) /\ Known(U.l2) /\ p # "DL_DATA_IND"
  <2> HIDE DEF U
  <2> QED BY <1>1 DEF Base, CallsInv, Typed, LinkInv, UpPrims, DownPrims
<1>3. After(U, D, U.l2.st, FALSE)
  BY <1>2, Delivering
<1> HIDE DEF U, D, E
<1>4. /\ Base(D) /\ AlmostWaits(D) /\ Belief(D)
      /\ TeiInv(E) => TeiInv(D) /\ Waits(D)
  BY <1>1, <1>3, AfterFine
<1> QED BY <1>4 DEF D, E

-----------------------------------------------------------------------------
(* What a frame or a timer of layer 2 does to the whole *)

LEMMA GoodWhole == ASSUME NEW S, Good(S) PROVE Whole(S) /\ Known(S.l2) /\ At(S.l2) /\ S.l2.st # 2
  BY LinkAt DEF Good, Base, CallsInv, Typed

LEMMA MoveEarly ==
    ASSUME NEW S, Good(S), NEW t, Moves(S.l2, t), t.st = S.l2.st \/ S.l2.l1Activ
    PROVE  LET E == Early(S, t, FALSE)
           IN  /\ Base(E) /\ TeiInv(E) /\ E.l2.st = t.st
               /\ E.lc = S.lc /\ E.orphan = S.orphan /\ E.blind = S.blind
               /\ E.sq = S.sq /\ E.proc = S.proc
               /\ Stays(S.l2, t) => Waits(E) /\ Belief(E)
<1> DEFINE x == [t EXCEPT !.up = <<>>, !.st = IF FALSE THEN S.l2.st ELSE @]
           Q == [S EXCEPT !.l2 = x]
           E == tei_l2tei(Q)
<1>0. Early(S, t, FALSE) = E
  BY DEF Early
<1>1. /\ Known(t) /\ Same(t, x) /\ x.up = <<>> /\ x.req = t.req
  BY DEF Moves
<1>2. /\ Whole(Q) /\ Q.l2 = x /\ Q.ptp = S.ptp /\ Q.lc = S.lc /\ Q.drel = S.drel
      /\ Q.sq = S.sq /\ Q.proc = S.proc /\ Q.t309 = S.t309 /\ Q.tei = S.tei
      /\ Q.t202 = S.t202 /\ Q.orphan = S.orphan /\ Q.blind = S.blind
  BY GoodWhole
<1> HIDE DEF x, Q
<1>3. Checked(Q, E)
  BY <1>1, <1>2, Checking DEF Moves
<1> HIDE DEF E
<1>4. /\ Whole(E) /\ E.lc = S.lc /\ E.drel = S.drel /\ E.sq = S.sq /\ E.proc = S.proc
      /\ E.t309 = S.t309 /\ E.ptp = S.ptp /\ E.orphan = S.orphan /\ E.blind = S.blind
      /\ Same(t, E.l2) /\ E.l2.up = <<>> /\ E.l2.req = {}
      /\ \/ E.tei = S.tei /\ E.t202 = S.t202
         \/ S.tei = "NOP" /\ E.tei = "IDVERIFY" /\ E.t202 /\ t.req # {}
  BY <1>1, <1>2, <1>3 DEF Checked, Rest
<1>5. /\ LinkInv(S) /\ CallsInv(S) /\ TeiInv(S) /\ Waits(S) /\ Belief(S)
  BY DEF Good, Base
<1>6. CallsInv(E)
  BY <1>4, <1>5 DEF CallsInv, Typed, Idle, Patient
<1>7. /\ t.st \in {1, 3, 4, 5, 6, 7, 8}
      /\ t.pendRel => t.st = 5 /\ S.l2.pendRel
      /\ t.st \in {1, 3} => t.st = S.l2.st
      /\ S.l2.st \in 4 .. 8 => t.st \in 4 .. 8
      /\ t.tei = S.l2.tei /\ t.estabPend = S.l2.estabPend /\ t.l1Activ = S.l2.l1Activ
  BY <1>5 DEF Moves, Stays, Opens, Ends, LinkInv
<1>8. LinkInv(E)
  BY <1>4, <1>5, <1>7 DEF LinkInv
<1>9. TeiInv(E)
  BY <1>4, <1>5, <1>7 DEF TeiInv, Moves
<1>10. ASSUME Stays(S.l2, t) PROVE Waits(E) /\ Belief(E)
  <2>1. \/ t.st = S.l2.st /\ t.l3Init = S.l2.l3Init
        \/ S.l2.st \in {7, 8} /\ t.st \in {5, 7, 8}
        \/ S.l2.st = 5 /\ ~S.l2.l3Init /\ t.st = 7
        \/ S.l2.st = 4 /\ t.st = 5
    BY <1>10 DEF Stays
  <2>2. Belief(E)
    BY <1>4, <1>5, <2>1 DEF Belief, LinkUp
  <2>3. t.st = 3 => t.req = {}
    BY DEF Moves
  <2>4. Served(S) => Served(E)
    BY <1>4, <1>7, <2>1, <2>3 DEF Served
  <2> QED BY <1>4, <1>5, <2>2, <2>4 DEF Waits
<1> QED BY <1>0, <1>4, <1>6, <1>8, <1>9, <1>10 DEF Base

LEMMA MovePlausible ==
    ASSUME NEW S, Good(S), NEW t, Moves(S.l2, t), t.st = S.l2.st \/ S.l2.l1Activ,
           ~Stays(S.l2, t), NEW E, E.l2.st = t.st,
           E.lc = S.lc, E.orphan = S.orphan, E.blind = S.blind
    PROVE  \E p \in UpPrims \cup DownPrims : t.up = One(p) /\ Plausible(E, p)
<1> DEFINE s == S.l2
<1>1. /\ LinkInv(S) /\ Waits(S) /\ Belief(S)
  BY DEF Good, Base
<1>2. s.st \in 5 .. 8 => ~s.estabPend
  BY <1>1 DEF LinkInv
<1>3. ASSUME Opens(s, t) PROVE \E p \in UpPrims : t.up = One(p) /\ Plausible(E, p)
  <2>1. PICK p \in UpPrims :
            t.up = One(p) /\ (s.st = 5 /\ s.l3Init => p = "DL_ESTABLISH_CNF")
    BY <1>3 DEF Opens
  <2>2. t.st = 7 /\ s.st \in 4 .. 8
    BY <1>3 DEF Opens
  <2>3. ~s.estabPend
    <3>1. s.l1Activ
      BY <1>1, <2>2 DEF LinkInv
    <3> QED BY <1>1, <3>1 DEF LinkInv
  <2>4. p = "DL_ESTABLISH_IND" => ~Served(S)
    BY <2>1, <2>2, <2>3 DEF Served
  <2>5. Plausible(E, p)
    BY <1>1, <2>1, <2>2, <2>4 DEF Plausible, Waits, UpPrims, DownPrims
  <2> QED BY <2>1, <2>5
<1>4. ASSUME Ends(s, t), t.st = 4 PROVE \E p \in DownPrims : t.up = One(p) /\ Plausible(E, p)
  <2>1. PICK p \in DownPrims :
            t.up = One(p) /\ (p = "DL_RELEASE_CNF" => s.st = 6 \/ s.pendRel)
    BY <1>4 DEF Ends
  <2>2. s.st = 6 => ~Served(S) /\ ~LinkUp(s)
    BY <1>2 DEF Served, LinkUp
  <2>3. s.pendRel => S.lc = "REL_WAIT"
    BY <1>1 DEF LinkInv
  <2>4. Plausible(E, p)
    BY <1>1, <1>4, <2>1, <2>2, <2>3 DEF Plausible, Waits, Belief, UpPrims, DownPrims
  <2> QED BY <2>1, <2>4
<1> QED BY <1>3, <1>4 DEF Moves

LEMMA MoveInv ==
    ASSUME NEW S, Good(S), NEW t, Moves(S.l2, t), t.st = S.l2.st \/ S.l2.l1Activ
    PROVE  Good(Deliver(S, t, FALSE))
<1> DEFINE E == Early(S, t, FALSE)
           D == Deliver(S, t, FALSE)
<1>1. /\ Base(E) /\ TeiInv(E) /\ E.l2.st = t.st
      /\ E.lc = S.lc /\ E.orphan = S.orphan /\ E.blind = S.blind
      /\ E.sq = S.sq /\ E.proc = S.proc
      /\ Stays(S.l2, t) => Waits(E) /\ Belief(E)
  BY MoveEarly
<1>2. CASE Stays(S.l2, t)
  <2>1. Mute(t)
    BY <1>2 DEF Stays
  <2>2. After(E, D, E.l2.st, FALSE)
    BY <1>1, <2>1, DeliverMute
  <2> HIDE DEF E, D
  <2>3. Good(D)
    BY <1>1, <1>2, <2>2, AfterFine DEF Good
  <2> QED BY <2>3 DEF D
<1>3. CASE ~Stays(S.l2, t)
  <2>1. PICK p \in UpPrims \cup DownPrims : t.up = One(p) /\ Plausible(E, p)
    <3> HIDE DEF E
    <3> QED BY <1>1, <1>3, MovePlausible
  <2>2. /\ Base(D) /\ AlmostWaits(D) /\ Belief(D)
        /\ TeiInv(E) => TeiInv(D) /\ Waits(D)
    BY <1>1, <2>1, DeliverTold
  <2> HIDE DEF E, D
  <2>3. Good(D)
    BY <1>1, <2>2 DEF Good
  <2> QED BY <2>3 DEF D
<1> QED BY <1>2, <1>3

\* Layer 3 hears of the end of the link before layer 2 has changed: what it
\* asks for is undone, and marked as gone astray.
Ahead(S, x) == Early(S, x, TRUE)

LEMMA FirstEarly ==
    ASSUME NEW S, Base(S), NEW x, Known(x), Ends(S.l2, x), x.req = {},
           x.estabPend = S.l2.estabPend
    PROVE  LET E == Ahead(S, x)
           IN  /\ Rest(S, E) /\ E.tei = S.tei /\ E.t202 = S.t202
               /\ Known(E.l2) /\ E.l2.st = S.l2.st /\ E.l2.up = <<>> /\ E.l2.req = {}
               /\ ~E.l2.pendRel /\ ~E.l2.estabPend
               /\ E.l2.tei = x.tei /\ E.l2.l1Activ = x.l1Activ
<1> DEFINE y == [x EXCEPT !.up = <<>>, !.st = IF TRUE THEN S.l2.st ELSE @]
           Q == [S EXCEPT !.l2 = y]
           E == tei_l2tei(Q)
<1>1. Ahead(S, x) = E
  BY DEF Ahead, Early
<1>2. /\ Known(y) /\ y.st = S.l2.st /\ y.up = <<>> /\ y.req = {} /\ y.pendRel = x.pendRel
      /\ y.estabPend = x.estabPend /\ y.tei = x.tei /\ y.l1Activ = x.l1Activ
  OBVIOUS
<1> HIDE DEF y
<1>3. Rest(S, Q) /\ Q.l2 = y /\ Q.tei = S.tei /\ Q.t202 = S.t202
  BY DEF Rest, Base, CallsInv, Typed
<1> HIDE DEF Q
<1>4. Checked(Q, E)
  BY <1>2, <1>3, Checking DEF Rest
<1> HIDE DEF E
<1>5. ~x.pendRel /\ ~x.estabPend
  BY DEF Ends, Base, LinkInv
<1> QED BY <1>1, <1>2, <1>3, <1>4, <1>5 DEF Checked, Rest

\* What is left when layer 2 says it first: nothing that waits, but for a
\* request that is marked.
Ended(S, D) ==
    /\ Base(D) /\ Waits(D) /\ AlmostWaits(D) /\ Belief(D)
    /\ D.tei = S.tei /\ D.t202 = S.t202 /\ D.l2.st \in {1, 4}

Foretold(S, x) == Deliver(S, x, TRUE)

LEMMA DeliverFirst ==
    ASSUME NEW S, Base(S), AlmostWaits(S), Belief(S),
           NEW x, Known(x), Ends(S.l2, x), x.req = {}, x.estabPend = S.l2.estabPend,
           x.tei = S.l2.tei \/ ~x.tei, x.st = 1 => ~x.tei
    PROVE  LET D == Foretold(S, x)
           IN  Ended(S, D) /\ D.l2.st = x.st
<1> DEFINE E == Ahead(S, x)
           D == Foretold(S, x)
           Far(U, p) == After(U, D, x.st, /\ p = "DL_RELEASE_IND"
                                          /\ U.lc = "ESTAB_WAIT" /\ U.l2.l1Activ)
<1>1. PICK p \in DownPrims :
          x.up = One(p) /\ (p = "DL_RELEASE_CNF" => S.l2.st = 6 \/ S.l2.pendRel)
  BY DEF Ends
<1>2. x.st \in {1, 4} /\ S.l2.st \in {3, 5, 6, 7, 8}
  BY DEF Ends
<1>3. CallsInv(S) /\ LinkInv(S)
  BY DEF Base
<1>4. /\ Rest(S, E) /\ E.tei = S.tei /\ E.t202 = S.t202
      /\ Known(E.l2) /\ E.l2.st = S.l2.st /\ E.l2.up = <<>> /\ E.l2.req = {}
      /\ ~E.l2.pendRel /\ ~E.l2.estabPend
      /\ E.l2.tei = x.tei /\ E.l2.l1Activ = x.l1Activ
  BY FirstEarly
<1>5. LET U == dss1up(E, p) IN Whole(U) /\ Known(U.l2) => Far(U, p)
  BY <1>1, Delivering DEF DownPrims, Ahead, Foretold
<1> HIDE DEF E
<1>6. Typed(E) /\ CallsInv(E)
  BY <1>3, <1>4 DEF Rest, CallsInv, Typed, Idle, Patient
<1>7. CASE p = "DL_RELEASE_IND" /\ E.lc \in {"ESTAB_WAIT", "REL_DELAY", "ESTAB"}
  <2> DEFINE T == Lost(E)
             A == lc_activate(T)
  <2>1. dss1up(E, p) = lc_release_ind(E)
    BY <1>7 DEF dss1up
  <2>2. /\ lc_release_ind(E) = IF Active(E) = {} THEN T ELSE A
        /\ Whole(T) /\ T.l2 = E.l2 /\ T.ptp = E.ptp /\ T.tei = E.tei /\ T.t202 = E.t202
        /\ T.lc = "REL" /\ ~T.drel /\ T.sq = 0 /\ Typed(T) /\ Patient(T)
        /\ Active(E) = {} => CallsInv(T)
    BY <1>6, Losing
  <2> HIDE DEF T
  <2>3. CASE Active(E) = {}
    <3>1. dss1up(E, p) = T /\ Known(T.l2)
      BY <1>4, <2>1, <2>2, <2>3
    <3>2. Far(T, p)
      BY <1>5, <2>2, <3>1
    <3> HIDE DEF D
    <3>3. CallsInv(D)
      BY <2>2, <2>3, <3>2 DEF After, CallsInv, Typed, Idle
    <3>4. LinkInv(D)
      BY <1>2, <1>3, <1>4, <2>2, <3>2 DEF After, LinkInv
    <3>5. Waits(D) /\ AlmostWaits(D) /\ Belief(D)
      BY <2>2, <3>2 DEF After, Waits, AlmostWaits, Belief
    <3>6. D.tei = S.tei /\ D.t202 = S.t202 /\ D.l2.st = x.st
      BY <1>4, <2>2, <3>2 DEF After
    <3> QED BY <1>2, <3>3, <3>4, <3>5, <3>6 DEF Ended, Base, D
  <2>4. CASE Active(E) # {}
    <3>1. Asking(T)
      BY <1>2, <1>3, <1>4, <2>2 DEF Asking, LinkInv, Rest
    <3>2. /\ Kept(T, A) /\ Asked(T, A)
          /\ ~A.l2.pendRel /\ A.l2.tei = T.l2.tei /\ A.tei = T.tei /\ A.t202 = T.t202
          /\ ~T.l2.l1Activ => A.l2.estabPend
      <4>1. T.l2.st # 1 /\ ~T.l2.pendRel
        BY <1>2, <1>4, <2>2
      <4> QED BY <2>2, <3>1, <4>1, Activating
    <3>3. dss1up(E, p) = A
      BY <2>1, <2>2, <2>4
    <3> HIDE DEF A
    <3>4. Far(A, p)
      BY <1>5, <3>2, <3>3 DEF Kept, Asked
    <3>5. D.orphan \/ ~D.l2.l1Activ
      BY <1>7, <3>2, <3>4 DEF After, Kept
    <3> HIDE DEF D
    <3>6. CallsInv(D)
      BY <2>2, <3>2, <3>4 DEF After, CallsInv, Typed, Patient, Kept, LcStates
    <3>7. LinkInv(D)
      BY <1>2, <1>3, <1>4, <2>2, <3>2, <3>4 DEF After, LinkInv, Kept, Asked
    <3>8. Waits(D) /\ AlmostWaits(D) /\ Belief(D)
      <4>1. D.lc = "ESTAB_WAIT" /\ (~D.l2.l1Activ => D.l2.estabPend)
        BY <2>2, <3>2, <3>4 DEF After, Kept, Asked
      <4> QED BY <3>5, <4>1 DEF Waits, AlmostWaits, Belief, Served, AlmostServed
    <3>9. D.tei = S.tei /\ D.t202 = S.t202 /\ D.l2.st = x.st
      BY <1>4, <2>2, <3>2, <3>4 DEF After
    <3> QED BY <1>2, <3>6, <3>7, <3>8, <3>9 DEF Ended, Base, D
  <2> QED BY <2>3, <2>4
<1>8. CASE p = "DL_RELEASE_CNF" /\ E.lc = "REL_WAIT"
  <2> DEFINE V == lc_release_cnf(E)
  <2>1. dss1up(E, p) = V
    BY <1>8 DEF dss1up
  <2>2. /\ Whole(V) /\ V.l2 = E.l2 /\ V.tei = E.tei /\ V.t202 = E.t202 /\ V.ptp = E.ptp
        /\ V.lc = "REL" /\ V.drel = E.drel /\ V.sq = 0 /\ V.proc = E.proc
    BY <1>6 DEF lc_release_cnf, Typed
  <2> HIDE DEF V
  <2>3. Far(V, p)
    BY <1>4, <1>5, <2>1, <2>2
  <2> HIDE DEF D
  <2>4. CallsInv(D)
    BY <1>6, <1>8, <2>2, <2>3 DEF After, CallsInv, Typed, Idle, LcStates
  <2>5. LinkInv(D)
    BY <1>2, <1>3, <1>4, <2>2, <2>3 DEF After, LinkInv
  <2>6. Waits(D) /\ AlmostWaits(D) /\ Belief(D)
    BY <2>2, <2>3 DEF After, Waits, AlmostWaits, Belief
  <2>7. D.tei = S.tei /\ D.t202 = S.t202 /\ D.l2.st = x.st
    BY <1>4, <2>2, <2>3 DEF After
  <2> QED BY <1>2, <2>4, <2>5, <2>6, <2>7 DEF Ended, Base, D
<1>9. CASE /\ ~(p = "DL_RELEASE_IND" /\ E.lc \in {"ESTAB_WAIT", "REL_DELAY", "ESTAB"})
           /\ ~(p = "DL_RELEASE_CNF" /\ E.lc = "REL_WAIT")
  <2>1. dss1up(E, p) = E
    BY <1>1, <1>9 DEF dss1up, DownPrims
  <2>2. Far(E, p)
    BY <1>4, <1>5, <2>1 DEF Rest
  <2>3. S.lc = "ESTAB_WAIT" => S.orphan
    <3>1. S.lc = "ESTAB_WAIT" => p = "DL_RELEASE_CNF"
      BY <1>1, <1>4, <1>9 DEF Rest, DownPrims
    <3>2. S.lc = "ESTAB_WAIT" => S.l2.st = 6 /\ ~S.l2.estabPend
      BY <1>1, <1>3, <3>1 DEF LinkInv
    <3> QED BY <3>2 DEF AlmostWaits, AlmostServed
  <2>4. S.lc = "ESTAB" => S.blind
    <3>1. S.lc = "ESTAB" => p = "DL_RELEASE_CNF"
      BY <1>1, <1>4, <1>9 DEF Rest, DownPrims
    <3>2. S.lc = "ESTAB" => S.l2.st = 6
      BY <1>1, <1>3, <3>1 DEF LinkInv
    <3> QED BY <3>2 DEF Belief, LinkUp
  <2> HIDE DEF D
  <2>5. CallsInv(D)
    BY <1>6, <2>2 DEF After, CallsInv, Typed, Idle, Patient
  <2>6. LinkInv(D)
    BY <1>2, <1>3, <1>4, <2>2 DEF After, LinkInv, Rest
  <2>7. Waits(D) /\ AlmostWaits(D) /\ Belief(D)
    BY <1>4, <2>2, <2>3, <2>4 DEF After, Waits, AlmostWaits, Belief, Rest
  <2>8. D.tei = S.tei /\ D.t202 = S.t202 /\ D.l2.st = x.st
    BY <1>4, <2>2 DEF After
  <2> QED BY <1>2, <2>5, <2>6, <2>7, <2>8 DEF Ended, Base, D
<1> QED BY <1>7, <1>8, <1>9

-----------------------------------------------------------------------------
(* The call processes send, ask for the link and are freed *)

\* What layer 3 may be when a process asks for the link, and when it sends.
Below(S) ==
    /\ Typed(S) /\ LinkInv(S) /\ TeiInv(S) /\ Waits(S) /\ Belief(S)
    /\ S.lc \in LcStates /\ (S.drel <=> S.lc = "REL_DELAY")
Ready(S) ==
    /\ Below(S)
    /\ S.lc \in {"REL", "REL_WAIT", "ESTAB_WAIT"} => Patient(S)
    /\ S.lc = "ESTAB" => S.sq = 0
Speaking(S) ==
    /\ Below(S)
    /\ S.lc # "ESTAB_WAIT" => S.sq = 0
    /\ S.lc \in {"REL", "REL_WAIT", "ESTAB_WAIT"} =>
           \A p \in Procs : S.proc[p] = "active" => p \in S.t309

LEMMA EstablishReq ==
    ASSUME NEW S, Ready(S)
    PROVE  LET U == EvEstablishReq(S) IN Good(U) /\ U.proc = S.proc
<1> DEFINE U == EvEstablishReq(S)
<1>1. /\ Typed(S) /\ LinkInv(S) /\ TeiInv(S) /\ Waits(S) /\ Belief(S)
      /\ S.lc \in LcStates /\ (S.drel <=> S.lc = "REL_DELAY")
  BY DEF Ready, Below
<1>2. CASE S.lc \in {"REL", "REL_WAIT"}
  <2> DEFINE A == lc_activate(S)
  <2>1. U = A
    BY <1>2 DEF EvEstablishReq
  <2>2. Patient(S) /\ ~S.drel
    BY <1>1, <1>2 DEF Ready
  <2>3. Base(A) /\ Kept(S, A) /\ TeiInv(A) /\ Waits(A)
    BY <1>1, <2>2, ActivatingLink
  <2> HIDE DEF A, U
  <2>4. Good(A) /\ A.proc = S.proc
    BY <2>3 DEF Good, Kept, Belief
  <2> QED BY <2>1, <2>4 DEF U
<1>3. CASE S.lc = "REL_DELAY"
  <2> DEFINE A == lc_connected(S)
  <2>1. U = A
    BY <1>3 DEF EvEstablishReq
  <2>2. /\ Base(A) /\ A.lc \in {"ESTAB", "REL_DELAY"} /\ Calm(S.l2, A.l2)
        /\ A.tei = S.tei /\ A.t202 = S.t202 /\ Belief(A) /\ A.proc = S.proc
    BY <1>1, <1>3, ConnectCnf
  <2> HIDE DEF A, U
  <2>3. Good(A) /\ A.proc = S.proc
    BY <1>1, <2>2 DEF Good, TeiInv, Waits
  <2> QED BY <2>1, <2>3 DEF U
<1>4. CASE S.lc \in {"ESTAB_WAIT", "ESTAB"}
  <2>1. U = S
    BY <1>4 DEF EvEstablishReq
  <2>2. CallsInv(S)
    BY <1>1, <1>4 DEF Ready, CallsInv
  <2> HIDE DEF U
  <2> QED BY <1>1, <2>1, <2>2 DEF Good, Base, U
<1> QED BY <1>1, <1>2, <1>3, <1>4 DEF LcStates

LEMMA Speak ==
    ASSUME NEW S, Speaking(S)
    PROVE  LET U == l3_msg(S) IN Good(U) /\ U.proc = S.proc
<1> DEFINE U == l3_msg(S)
<1>1. /\ Typed(S) /\ LinkInv(S) /\ TeiInv(S) /\ Waits(S) /\ Belief(S)
      /\ S.lc \in LcStates /\ (S.drel <=> S.lc = "REL_DELAY")
  BY DEF Speaking, Below
<1>2. CASE S.lc = "ESTAB"
  <2> DEFINE t == EvDlData(S.l2, Msg)
             A == [S EXCEPT !.l2 = t]
  <2>1. U = A
    BY <1>2 DEF l3_msg
  <2>2. Calm(S.l2, t)
    BY <1>1, CalmDlData DEF LinkInv
  <2> HIDE DEF t
  <2>3. Rest(S, A) /\ A.l2 = t /\ A.tei = S.tei /\ A.t202 = S.t202
    BY <1>1 DEF Rest, Typed
  <2> HIDE DEF A, U
  <2>4. CallsInv(A)
    BY <1>1, <1>2, <2>3 DEF CallsInv, Typed, Rest, Speaking
  <2>5. LinkInv(A)
    BY <1>1, <2>2, <2>3 DEF LinkInv, Rest
  <2>6. TeiInv(A) /\ Waits(A) /\ Belief(A)
    BY <1>1, <1>2, <2>2, <2>3 DEF TeiInv, Waits, Belief, LinkUp, Rest
  <2>7. Good(A) /\ A.proc = S.proc
    BY <2>3, <2>4, <2>5, <2>6 DEF Good, Base, Rest
  <2> QED BY <2>1, <2>7 DEF U
<1>3. CASE S.lc # "ESTAB"
  <2> DEFINE A == [S EXCEPT !.sq = @ + 1]
  <2>1. U = EvEstablishReq(A)
    BY <1>3 DEF l3_msg
  <2>2. /\ Whole(A) /\ A.l2 = S.l2 /\ A.ptp = S.ptp /\ A.lc = S.lc /\ A.drel = S.drel
        /\ A.sq = S.sq + 1 /\ A.proc = S.proc /\ A.t309 = S.t309 /\ A.tei = S.tei
        /\ A.t202 = S.t202 /\ A.orphan = S.orphan /\ A.blind = S.blind
    BY <1>1 DEF Typed
  <2> HIDE DEF A
  <2>3. Typed(A) /\ A.sq > 0
    BY <1>1, <2>2 DEF Typed
  <2>4. LinkInv(A) /\ TeiInv(A)
    BY <1>1, <2>2 DEF LinkInv, TeiInv
  <2>5. Waits(A) /\ Belief(A)
    BY <1>1, <2>2 DEF Waits, Served, Belief
  <2>6. S.lc \in {"REL", "REL_WAIT", "ESTAB_WAIT"} => Patient(A)
    BY <2>2, <2>3 DEF Speaking, Patient
  <2>7. Ready(A)
    BY <1>1, <1>3, <2>2, <2>3, <2>4, <2>5, <2>6 DEF Ready, Below
  <2>8. Good(EvEstablishReq(A)) /\ EvEstablishReq(A).proc = A.proc
    BY <2>7, EstablishReq
  <2> QED BY <2>1, <2>2, <2>8
<1> QED BY <1>2, <1>3

\* The last process to go starts the release of the link.
LEMMA Freeing ==
    ASSUME NEW S, Good(S), NEW p \in Procs
    PROVE  Good(release_l3_process(S, p))
<1> DEFINE T == [S EXCEPT !.proc[p] = "none", !.t309 = @ \ {p}]
           R == lc_start_delay(T)
<1>1. /\ CallsInv(S) /\ LinkInv(S) /\ TeiInv(S) /\ Waits(S) /\ Belief(S) /\ Typed(S)
  BY DEF Good, Base, CallsInv
<1>2. /\ release_l3_process(S, p) = T
      \/ /\ release_l3_process(S, p) = R
         /\ Calls(T) = {} /\ T.sq = 0 /\ T.lc \in {"ESTAB_WAIT", "ESTAB"}
  BY DEF release_l3_process, EvReleaseReq
<1>3. /\ Whole(T) /\ T.l2 = S.l2 /\ T.ptp = S.ptp /\ T.lc = S.lc /\ T.drel = S.drel
      /\ T.sq = S.sq /\ T.proc = [S.proc EXCEPT ![p] = "none"] /\ T.t309 = S.t309 \ {p}
      /\ T.tei = S.tei /\ T.t202 = S.t202 /\ T.orphan = S.orphan /\ T.blind = S.blind
  BY <1>1 DEF Typed
<1> HIDE DEF T
<1>4. Typed(T) /\ \A q \in Procs : T.proc[q] = IF q = p THEN "none" ELSE S.proc[q]
  BY <1>1, <1>3 DEF Typed, CallStates
<1>5. (Idle(S) => Idle(T)) /\ (Patient(S) => Patient(T))
  BY <1>3, <1>4 DEF Idle, Patient
<1>6. CallsInv(T)
  BY <1>1, <1>3, <1>4, <1>5 DEF CallsInv
<1>7. LinkInv(T) /\ TeiInv(T)
  BY <1>1, <1>3 DEF LinkInv, TeiInv
<1>8. Waits(T) /\ Belief(T)
  BY <1>1, <1>3 DEF Waits, Served, Belief
<1>9. Good(T)
  BY <1>6, <1>7, <1>8 DEF Good, Base
<1>10. ASSUME Calls(T) = {}, T.sq = 0, T.lc \in {"ESTAB_WAIT", "ESTAB"} PROVE Good(R)
  <2>1. Idle(T)
    BY <1>10 DEF Idle, Calls
  <2>2. Base(R) /\ R.lc = "REL_DELAY" /\ R.l2 = T.l2 /\ R.tei = T.tei /\ R.t202 = T.t202
    BY <1>4, <1>7, <1>10, <2>1, Delaying
  <2> HIDE DEF R
  <2> QED BY <1>7, <2>2 DEF Good, TeiInv, Waits, Belief
<1> QED BY <1>2, <1>9, <1>10

\* A process goes to its next state; it becomes active only on a link that
\* has been there, and what it sends without a link waits for one.
LEMMA Proceeding ==
    ASSUME NEW S, Good(S), NEW p \in Procs, NEW new \in CallStates, NEW sends \in BOOLEAN,
           new = "active" => \/ S.proc[p] = "active"
                             \/ S.sq = 0 /\ ~sends,
           ~sends /\ new # "none" => S.proc[p] \in {"setup", "overlap"}
    PROVE  Good(Proceed(S, p, new, sends))
<1>1. /\ CallsInv(S) /\ LinkInv(S) /\ TeiInv(S) /\ Waits(S) /\ Belief(S) /\ Typed(S)
  BY DEF Good, Base, CallsInv
<1>2. CASE new = "none"
  <2> DEFINE U == IF sends THEN l3_msg(S) ELSE S
  <2>1. Proceed(S, p, new, sends) = release_l3_process(U, p)
    BY <1>2 DEF Proceed
  <2>2. Speaking(S)
    BY <1>1 DEF Speaking, Below, CallsInv, Idle, Patient, Typed
  <2>3. Good(U)
    BY <2>2, Speak
  <2> HIDE DEF U
  <2> QED BY <2>1, <2>3, Freeing
<1>3. CASE new # "none"
  <2> DEFINE w == IF new = "active" THEN S.t309 ELSE S.t309 \ {p}
             T == [S EXCEPT !.proc[p] = new, !.t309 = w]
  <2>1. Proceed(S, p, new, sends) = IF sends THEN l3_msg(T) ELSE T
    BY <1>3 DEF Proceed
  <2>2. /\ Whole(T) /\ T.l2 = S.l2 /\ T.ptp = S.ptp /\ T.lc = S.lc /\ T.drel = S.drel
        /\ T.sq = S.sq /\ T.proc = [S.proc EXCEPT ![p] = new] /\ T.t309 = w
        /\ T.tei = S.tei /\ T.t202 = S.t202 /\ T.orphan = S.orphan /\ T.blind = S.blind
    BY <1>1 DEF Typed
  <2> HIDE DEF T
  <2>3. /\ Typed(T) /\ \A q \in Procs : T.proc[q] = IF q = p THEN new ELSE S.proc[q]
    BY <1>1, <2>2 DEF Typed
  <2>4. LinkInv(T) /\ TeiInv(T)
    BY <1>1, <2>2 DEF LinkInv, TeiInv
  <2>5. Waits(T) /\ Belief(T)
    BY <1>1, <2>2 DEF Waits, Served, Belief
  <2>6. Below(T)
    BY <1>1, <2>2, <2>3, <2>4, <2>5 DEF Below, CallsInv
  <2>7. ASSUME sends PROVE Good(l3_msg(T))
    <3>1. S.lc \in {"REL", "REL_WAIT", "ESTAB_WAIT"} =>
              \A q \in Procs : S.proc[q] = "active" => q \in S.t309
      BY <1>1 DEF CallsInv, Idle, Patient
    <3>2. T.lc \in {"REL", "REL_WAIT", "ESTAB_WAIT"} =>
              \A q \in Procs : T.proc[q] = "active" => q \in T.t309
      BY <2>2, <2>3, <2>7, <3>1
    <3>3. T.lc # "ESTAB_WAIT" => T.sq = 0
      BY <1>1, <2>2 DEF CallsInv, Typed
    <3> QED BY <2>6, <3>2, <3>3, Speak DEF Speaking
  <2>8. ASSUME ~sends PROVE Good(T)
    <3>1. S.proc[p] \in {"setup", "overlap"}
      BY <1>3, <2>8
    <3>2. /\ S.lc \in {"ESTAB_WAIT", "ESTAB"}
          /\ S.lc = "ESTAB_WAIT" => S.sq > 0 /\ Patient(S)
      BY <1>1, <3>1 DEF CallsInv, Idle, Patient, Typed, LcStates
    <3>3. S.lc = "ESTAB_WAIT" => new # "active"
      BY <3>1, <3>2
    <3>4. S.lc = "ESTAB_WAIT" => Patient(T)
      BY <1>1, <2>2, <2>3, <3>2, <3>3 DEF Patient, Typed
    <3>5. CallsInv(T)
      BY <1>1, <2>2, <2>3, <3>2, <3>4 DEF CallsInv
    <3> QED BY <2>4, <2>5, <3>5 DEF Good, Base
  <2> QED BY <2>1, <2>7, <2>8
<1> QED BY <1>2, <1>3

-----------------------------------------------------------------------------
(* Handlers that ask the managers for nothing *)

LEMMA Known2 == ASSUME NEW S, Base(S) PROVE Whole(S) /\ Known(S.l2) /\ At(S.l2) /\ S.l2.st # 2
  BY LinkAt DEF Base, CallsInv, Typed

Placed(S, x, E) ==
    /\ Rest(S, E) /\ E.tei = S.tei /\ E.t202 = S.t202
    /\ Same(x, E.l2) /\ E.l2.up = <<>> /\ E.l2.req = {}

LEMMA EarlyPlaced ==
    ASSUME NEW S, Whole(S), NEW x, Known(x), x.req = {}
    PROVE  Placed(S, x, Early(S, x, FALSE))
<1> DEFINE y == [x EXCEPT !.up = <<>>, !.st = IF FALSE THEN S.l2.st ELSE @]
           Q == [S EXCEPT !.l2 = y]
           E == tei_l2tei(Q)
<1>1. Early(S, x, FALSE) = E
  BY DEF Early
<1>2. Same(x, y) /\ y.up = <<>> /\ y.req = {}
  OBVIOUS
<1> HIDE DEF y
<1>3. Rest(S, Q) /\ Q.l2 = y /\ Q.tei = S.tei /\ Q.t202 = S.t202
  BY DEF Rest
<1> HIDE DEF Q
<1>4. Checked(Q, E)
  BY <1>2, <1>3, Checking DEF Rest
<1> HIDE DEF E
<1> QED BY <1>1, <1>2, <1>3, <1>4 DEF Checked, Rest, Placed

\* Nobody is told anything: layer 2 is what the handler left.
LEMMA DeliverQuiet ==
    ASSUME NEW S, Whole(S), NEW x, Known(x), x.req = {}, x.up = <<>>
    PROVE  LET D == Deliver(S, x, FALSE)
           IN  /\ Whole(D) /\ D.lc = S.lc /\ D.drel = S.drel /\ D.sq = S.sq
               /\ D.proc = S.proc /\ D.t309 = S.t309 /\ D.ptp = S.ptp /\ D.blind = S.blind
               /\ D.tei = S.tei /\ D.t202 = S.t202 /\ (D.orphan <=> S.orphan)
               /\ Same(x, D.l2) /\ D.l2.up = <<>> /\ D.l2.req = {}
<1> DEFINE E == Early(S, x, FALSE)
           D == Deliver(S, x, FALSE)
<1>1. Placed(S, x, E)
  BY EarlyPlaced
<1>2. After(E, D, E.l2.st, FALSE)
  <2>1. Mute(x)
    BY DEF Mute
  <2>2. Whole(E) /\ Known(E.l2)
    BY <1>1 DEF Placed, Rest
  <2> HIDE DEF E
  <2> QED BY <2>1, <2>2, Delivering DEF E
<1> HIDE DEF E, D
<1>3. /\ Whole(D) /\ D.lc = S.lc /\ D.drel = S.drel /\ D.sq = S.sq
      /\ D.proc = S.proc /\ D.t309 = S.t309 /\ D.ptp = S.ptp /\ D.blind = S.blind
      /\ D.tei = S.tei /\ D.t202 = S.t202 /\ (D.orphan <=> S.orphan)
      /\ Same(x, D.l2) /\ D.l2.up = <<>> /\ D.l2.req = {}
  BY <1>1, <1>2 DEF Placed, Rest, After
<1> QED BY <1>3 DEF D

\* A request or a frame that does not touch the calls keeps what CallsInv says.
LEMMA SameCalls ==
    ASSUME NEW S, CallsInv(S), NEW D, Whole(D), D.lc = S.lc, D.drel = S.drel, D.sq = S.sq,
           D.proc = S.proc, D.t309 = S.t309
    PROVE  CallsInv(D)
  BY DEF CallsInv, Typed, Idle, Patient

\* Layer 2 changes nothing that layers 3 and the managers look at.
LEMMA CalmGood ==
    ASSUME NEW S, Good(S), NEW t, Calm(S.l2, t)
    PROVE  Good([S EXCEPT !.l2 = t])
<1> DEFINE D == [S EXCEPT !.l2 = t]
<1>1. /\ CallsInv(S) /\ LinkInv(S) /\ TeiInv(S) /\ Waits(S) /\ Belief(S) /\ Whole(S)
  BY GoodWhole DEF Good, Base
<1>2. Rest(S, D) /\ D.l2 = t /\ D.tei = S.tei /\ D.t202 = S.t202
  BY <1>1 DEF Rest
<1> HIDE DEF D
<1>3. CallsInv(D)
  BY <1>1, <1>2, SameCalls DEF Rest
<1>4. LinkInv(D) /\ TeiInv(D)
  BY <1>1, <1>2 DEF LinkInv, TeiInv, Rest
<1>5. Waits(D) /\ Belief(D)
  BY <1>1, <1>2 DEF Waits, Served, Belief, LinkUp, Rest
<1> QED BY <1>3, <1>4, <1>5 DEF Good, Base, D

\* Only the TEI manager changes.
LEMMA TeiGood ==
    ASSUME NEW S, Good(S), NEW D, Rest(S, D), D.l2 = S.l2, TeiInv(D),
           S.tei = "IDREQ" /\ S.t202 => D.tei = "IDREQ" /\ D.t202
    PROVE  Good(D)
<1>1. /\ CallsInv(S) /\ LinkInv(S) /\ Waits(S) /\ Belief(S)
  BY DEF Good, Base
<1>2. CallsInv(D)
  BY <1>1, SameCalls DEF Rest
<1>3. LinkInv(D)
  BY <1>1 DEF LinkInv, Rest
<1>4. Waits(D) /\ Belief(D)
  BY <1>1 DEF Waits, Served, Belief, Rest
<1> QED BY <1>2, <1>3, <1>4 DEF Good, Base

\* The next step begins with nothing told and nothing asked.
LEMMA Becoming ==
    ASSUME NEW S, Good(S), Becomes(S)
    PROVE  Good(d')
<1> DEFINE t == Fresh(S.l2)
<1>1. d' = [S EXCEPT !.l2 = t]
  BY DEF Becomes
<1>2. Known(S.l2) /\ S.l2.up = <<>> /\ S.l2.req = {}
  BY DEF Good, Base, LinkInv
<1>3. Calm(S.l2, t)
  BY <1>2 DEF Fresh
<1> HIDE DEF t
<1> QED BY <1>1, <1>3, CalmGood

\* Layer 2 has told it first: what is left of the invariant is that of the
\* TEI manager.
LEMMA EndedGood ==
    ASSUME NEW S, TeiInv(S), NEW D, Ended(S, D), S.tei = "IDVERIFY" => D.l2.st = 4
    PROVE  Good(D)
  BY DEF Good, Ended, TeiInv

-----------------------------------------------------------------------------
(* The steps: frames, timers and calls *)

LEMMA Upright == ASSUME Good(d), d.l2.l1Activ = FALSE PROVE d.l2.st \in {1, 4}
  BY DEF Good, Base, LinkInv

\* A DM that ends the set-up of the link is told first.
LEMMA RcvFrameDM ==
    ASSUME Good(d), d.l2.st = 5, d.l2.l1Activ, NEW f
    PROVE  Good(Deliver(d, EvDM(d.l2, f), TRUE))
<1> DEFINE x == EvDM(d.l2, f)
           D == Foretold(d, x)
<1>0. Deliver(d, x, TRUE) = D
  BY DEF Foretold
<1>1. /\ Base(d) /\ TeiInv(d) /\ Belief(d) /\ AlmostWaits(d)
      /\ Known(d.l2) /\ At(d.l2) /\ Whole(d) /\ d.l2.up = <<>> /\ d.l2.req = {}
  BY GoodWhole DEF Good, Waits, AlmostWaits, Served, AlmostServed, At
<1>2. Moves(d.l2, x) /\ (x = d.l2 \/ (x.req = {} /\ Ends(d.l2, x)))
  BY <1>1, MovesDM, DChanAssumption
<1> HIDE DEF x
<1>3. CASE x.req = {} /\ Ends(d.l2, x)
  <2>1. x.st = 4 /\ Link(d.l2, x)
    BY <1>2, <1>3 DEF Moves, Ends, Stays, Opens
  <2>2. Ended(d, D) /\ D.l2.st = x.st
    BY <1>1, <1>3, <2>1, DeliverFirst
  <2> HIDE DEF D
  <2>3. Good(D)
    BY <1>1, <2>1, <2>2, EndedGood
  <2> QED BY <1>0, <2>3 DEF D, x
<1>4. CASE x = d.l2
  <2> DEFINE y == [x EXCEPT !.up = <<>>, !.st = IF TRUE THEN d.l2.st ELSE @]
             Q == [d EXCEPT !.l2 = y]
             E == tei_l2tei(Q)
  <2>1. Early(d, x, TRUE) = E
    BY DEF Early
  <2>2. Calm(d.l2, y)
    BY <1>1, <1>4
  <2> HIDE DEF y
  <2>3. Rest(d, Q) /\ Q.l2 = y /\ Q.tei = d.tei /\ Q.t202 = d.t202
    BY <1>1 DEF Rest
  <2> HIDE DEF Q
  <2>4. Checked(Q, E)
    BY <1>1, <2>2, <2>3, Checking DEF Rest
  <2> HIDE DEF E
  <2>5. Mute(x) /\ Whole(E) /\ Known(E.l2)
    BY <1>1, <1>4, <2>4 DEF Mute, Checked, Rest
  <2>6. After(E, D, x.st, FALSE)
    <3> HIDE DEF D
    <3>1. \A first \in BOOLEAN : Early(d, x, first) = E =>
              After(E, Deliver(d, x, first), IF first THEN x.st ELSE E.l2.st, FALSE)
      BY <2>5, Delivering
    <3> QED BY <2>1, <3>1 DEF D, Foretold
  <2> HIDE DEF D
  <2>7. After(d, D, d.l2.st, FALSE)
    BY <1>1, <1>4, <2>2, <2>3, <2>4, <2>6 DEF After, Checked, Rest
  <2>8. Good(D)
    BY <2>7, AfterFine DEF Good
  <2> QED BY <1>0, <2>8 DEF D, x
<1> QED BY <1>2, <1>3, <1>4

LEMMA StepRcvFrame ==
    ASSUME Good(d), NEW f \in Frames, RcvFrame(f)
    PROVE  Good(d')
<1> DEFINE x == PhData(d.l2, f, <<>>, <<>>)
<1>1. d.l2.l1Activ /\ At(d.l2)
  BY GoodWhole DEF RcvFrame, Reached
<1>2. f.t \in {"SABME", "DISC", "UA", "DM", "RR"}
  BY DEF Frames
<1>3. CASE d.l2.st = 5 /\ f.t = "DM"
  <2>1. x = EvDM(d.l2, f)
    BY <1>3 DEF PhData, STypes
  <2>2. Becomes(Deliver(d, EvDM(d.l2, f), d.l2.st = 5 /\ f.t = "DM"))
    BY <2>1 DEF RcvFrame
  <2>3. Becomes(Deliver(d, EvDM(d.l2, f), TRUE))
    <3>1. (d.l2.st = 5 /\ f.t = "DM") = TRUE
      BY <1>3
    <3> QED BY <2>2, <3>1
  <2> QED BY <1>1, <1>3, <2>3, RcvFrameDM, Becoming
<1>4. CASE ~(d.l2.st = 5 /\ f.t = "DM")
  <2>1. Becomes(Deliver(d, x, FALSE))
    <3>1. (d.l2.st = 5 /\ f.t = "DM") = FALSE
      BY <1>4
    <3> QED BY <3>1 DEF RcvFrame
  <2>2. Moves(d.l2, x)
    <3>1. /\ f.t = "SABME" => x = EvSABME(d.l2, f)
          /\ f.t = "DISC" => x = EvDISC(d.l2, f)
          /\ f.t = "UA" => x = EvUA(d.l2, f)
          /\ f.t = "DM" => x = EvDM(d.l2, f)
          /\ f.t = "RR" => x = EvSuper(d.l2, f, <<>>)
      BY <1>2 DEF PhData, STypes
    <3> HIDE DEF x
    <3> QED BY <1>1, <1>2, <3>1, MovesSABME, MovesDISC, MovesUA, MovesDM, MovesSuper,
               DChanAssumption
  <2> HIDE DEF x
  <2> QED BY <1>1, <2>1, <2>2, MoveInv, Becoming
<1> QED BY <1>3, <1>4

LEMMA StepTimers ==
    ASSUME Good(d), T200 \/ T203
    PROVE  Good(d')
<1>1. At(d.l2) /\ (d.l2.l1Activ \/ d.l2.st \in 1 .. 4)
  <2>1. ~d.l2.l1Activ => d.l2.st \in {1, 4}
    BY DEF Good, Base, LinkInv
  <2> QED BY <2>1, GoodWhole
<1>2. /\ Moves(d.l2, EvT200(d.l2)) /\ (d.l2.st \in 1 .. 4 => EvT200(d.l2).st = d.l2.st)
      /\ Moves(d.l2, EvT203(d.l2)) /\ (d.l2.st \in 1 .. 4 => EvT203(d.l2).st = d.l2.st)
  BY <1>1, MovesTimer, DChanAssumption
<1>3. Good(Deliver(d, EvT200(d.l2), FALSE)) /\ Good(Deliver(d, EvT203(d.l2), FALSE))
  BY <1>1, <1>2, MoveInv
<1> QED BY <1>3, Becoming DEF T200, T203

LEMMA StepTransmitter ==
    ASSUME Good(d), TxDone \/ PullConfirm
    PROVE  Good(d')
<1>1. Known(d.l2)
  BY GoodWhole
<1>2. Calm(d.l2, PhTxDone(d.l2)) /\ Calm(d.l2, PhPullConfirm(d.l2))
  <2>1. Calm(d.l2, PhTxDone(d.l2))
    BY <1>1 DEF PhTxDone
  <2> QED BY <1>1, <2>1, CalmRequest
<1>3. Good([d EXCEPT !.l2 = PhTxDone(@)]) /\ Good([d EXCEPT !.l2 = PhPullConfirm(@)])
  <2>1. \A t : Calm(d.l2, t) => Good([d EXCEPT !.l2 = t])
    BY CalmGood
  <2> QED BY <1>2, <2>1
<1> QED BY <1>3, Becoming DEF TxDone, PullConfirm

\* What a mute frame leaves of the calls.
LEMMA MoveMute ==
    ASSUME NEW S, Good(S), NEW t, Moves(S.l2, t), Mute(t), t.st = S.l2.st \/ S.l2.l1Activ
    PROVE  Deliver(S, t, FALSE).sq = S.sq /\ Deliver(S, t, FALSE).proc = S.proc
<1> DEFINE E == Early(S, t, FALSE)
           D == Deliver(S, t, FALSE)
<1>1. /\ Base(E) /\ TeiInv(E) /\ E.l2.st = t.st
      /\ E.lc = S.lc /\ E.orphan = S.orphan /\ E.blind = S.blind
      /\ E.sq = S.sq /\ E.proc = S.proc
      /\ Stays(S.l2, t) => Waits(E) /\ Belief(E)
  BY MoveEarly
<1>2. After(E, D, E.l2.st, FALSE)
  BY <1>1, DeliverMute
<1> HIDE DEF E, D
<1> QED BY <1>1, <1>2 DEF After, D

LEMMA StepReceives ==
    ASSUME Good(d), NEW p \in Procs, NEW new \in CallStates, NEW a \in BOOLEAN,
           Receives(p, new, a)
    PROVE  Good(d')
<1> DEFINE x == EvI(d.l2, NextI, <<>>, <<>>)
           S == Deliver(d, x, FALSE)
<1>1. At(d.l2) /\ d.l2.l1Activ
  BY GoodWhole DEF Receives, Reached
<1>2. Moves(d.l2, x) /\ Mute(x)
  BY <1>1, MovesI, DChanAssumption
<1>3. Becomes(Proceed(S, p, new, a))
  BY DEF Receives
<1> HIDE DEF x
<1>4. Good(S) /\ S.sq = d.sq /\ S.proc = d.proc
  BY <1>1, <1>2, MoveInv, MoveMute
<1> HIDE DEF S
<1>5. /\ new = "active" => d.sq = 0 /\ ~a
      /\ ~a /\ new # "none" => d.proc[p] \in {"setup", "overlap"}
  <2>1. (new = "active" => d.sq = 0) /\ Answer(d.proc[p], new, a)
    BY DEF Receives
  <2> QED BY <2>1 DEF Answer
<1>6. Good(Proceed(S, p, new, a))
  BY <1>4, <1>5, Proceeding
<1> QED BY <1>3, <1>6, Becoming

LEMMA StepSends ==
    ASSUME Good(d), NEW p \in Procs, NEW new \in CallStates, Sends(p, new)
    PROVE  Good(d')
<1>1. new = "active" => d.proc[p] = "active"
  BY DEF Sends
<1>2. Good(Proceed(d, p, new, TRUE))
  BY <1>1, Proceeding
<1> QED BY <1>2, Becoming DEF Sends

\* Only one process changes, and not for the link.
LEMMA StepCalls ==
    ASSUME Good(d), NEW p \in Procs, GivesUp(p) \/ Incoming(p) \/ T309(p)
    PROVE  Good(d')
<1>1. /\ CallsInv(d) /\ LinkInv(d) /\ TeiInv(d) /\ Waits(d) /\ Belief(d)
      /\ Typed(d) /\ Whole(d)
  BY GoodWhole DEF Good, Base, CallsInv
<1>2. ASSUME d.proc[p] = "none" PROVE Good([d EXCEPT !.proc[p] = "offered"])
  <2> DEFINE T == [d EXCEPT !.proc[p] = "offered"]
  <2>1. /\ Whole(T) /\ T.l2 = d.l2 /\ T.ptp = d.ptp /\ T.lc = d.lc /\ T.drel = d.drel
        /\ T.sq = d.sq /\ T.proc = [d.proc EXCEPT ![p] = "offered"] /\ T.t309 = d.t309
        /\ T.tei = d.tei /\ T.t202 = d.t202 /\ T.orphan = d.orphan /\ T.blind = d.blind
    BY <1>1
  <2> HIDE DEF T
  <2>2. Typed(T) /\ \A q \in Procs : T.proc[q] = IF q = p THEN "offered" ELSE d.proc[q]
    BY <1>1, <2>1 DEF Typed, CallStates
  <2>3. CallsInv(T)
    BY <1>1, <2>1, <2>2 DEF CallsInv, Idle, Patient
  <2>4. LinkInv(T) /\ TeiInv(T)
    BY <1>1, <2>1 DEF LinkInv, TeiInv
  <2>5. Waits(T) /\ Belief(T)
    BY <1>1, <2>1 DEF Waits, Served, Belief
  <2> QED BY <2>3, <2>4, <2>5 DEF Good, Base, T
<1>3. ASSUME d.proc[p] # "active" PROVE Good([d EXCEPT !.t309 = @ \ {p}])
  <2> DEFINE T == [d EXCEPT !.t309 = @ \ {p}]
  <2>1. /\ Whole(T) /\ T.l2 = d.l2 /\ T.ptp = d.ptp /\ T.lc = d.lc /\ T.drel = d.drel
        /\ T.sq = d.sq /\ T.proc = d.proc /\ T.t309 = d.t309 \ {p}
        /\ T.tei = d.tei /\ T.t202 = d.t202 /\ T.orphan = d.orphan /\ T.blind = d.blind
    BY <1>1
  <2> HIDE DEF T
  <2>2. CallsInv(T)
    BY <1>1, <1>3, <2>1 DEF CallsInv, Typed, Idle, Patient
  <2>3. LinkInv(T) /\ TeiInv(T)
    BY <1>1, <2>1 DEF LinkInv, TeiInv
  <2>4. Waits(T) /\ Belief(T)
    BY <1>1, <2>1 DEF Waits, Served, Belief
  <2> QED BY <2>2, <2>3, <2>4 DEF Good, Base, T
<1>4. Good(release_l3_process(d, p))
  BY Freeing
<1> QED BY <1>2, <1>3, <1>4, Becoming DEF GivesUp, Incoming, T309

LEMMA StepWatch == ASSUME Good(d), Watch PROVE Good(d')
<1>1. Ready(d)
  BY DEF Good, Base, CallsInv, Ready, Below, Idle, Patient, Typed
<1>2. Good(EvEstablishReq(d))
  BY <1>1, EstablishReq
<1> QED BY <1>2, Becoming DEF Watch

-----------------------------------------------------------------------------
(* The steps: layer 1, the release of the link and the TEI manager *)

LEMMA StepL1Up == ASSUME Good(d), L1Up PROVE Good(d')
<1> DEFINE x == PhActivate(d.l2)
           D == Deliver(d, x, FALSE)
           E == Early(d, x, FALSE)
<1>1. /\ CallsInv(d) /\ LinkInv(d) /\ TeiInv(d) /\ Waits(d) /\ Belief(d)
      /\ At(d.l2) /\ Whole(d)
  BY GoodWhole DEF Good, Base
<1>2. d.l2.estabPend => d.l2.st \in {1, 4} /\ ~d.l2.pendRel
  BY <1>1 DEF LinkInv
<1>3. Activated(d.l2, x)
  BY <1>1, <1>2, EffectUp
<1> HIDE DEF x
<1>4. CASE x.req = {}
  <2>1. Known(x) /\ x.up = <<>>
    BY <1>3 DEF Activated
  <2>2. /\ Whole(D) /\ D.lc = d.lc /\ D.drel = d.drel /\ D.sq = d.sq
        /\ D.proc = d.proc /\ D.t309 = d.t309 /\ D.ptp = d.ptp /\ D.blind = d.blind
        /\ D.tei = d.tei /\ D.t202 = d.t202 /\ (D.orphan <=> d.orphan)
        /\ Same(x, D.l2) /\ D.l2.up = <<>> /\ D.l2.req = {}
    BY <1>1, <1>4, <2>1, DeliverQuiet
  <2> HIDE DEF D
  <2>3. CallsInv(D)
    BY <1>1, <2>2, SameCalls
  <2>4. d.l2.estabPend => d.l2.st = 4 /\ x.st = 5 /\ x.l3Init /\ ~x.pendRel
    BY <1>2, <1>3, <1>4 DEF Activated
  <2>5. ~d.l2.estabPend => /\ x.st = d.l2.st /\ x.l3Init = d.l2.l3Init
                           /\ x.pendRel = d.l2.pendRel
    BY <1>3 DEF Activated
  <2>6. LinkInv(D)
    BY <1>1, <1>3, <2>2, <2>4, <2>5 DEF LinkInv, Activated
  <2>7. TeiInv(D)
    BY <1>1, <2>2, <2>4, <2>5 DEF TeiInv
  <2>8. Waits(D) /\ Belief(D)
    BY <1>1, <2>2, <2>4, <2>5 DEF Waits, Served, Belief, LinkUp
  <2>9. Good(D)
    BY <2>3, <2>6, <2>7, <2>8 DEF Good, Base
  <2> QED BY <2>9, Becoming DEF L1Up, D, x
<1>5. CASE x.req # {}
  <2> DEFINE y == [x EXCEPT !.up = <<>>, !.st = IF FALSE THEN d.l2.st ELSE @]
             Q == [d EXCEPT !.l2 = y]
             A == tei_l2tei(Q)
  <2>1. /\ d.l2.estabPend /\ d.l2.st = 1 /\ x.st = 3 /\ x.req = {"MDL_ASSIGN"}
        /\ Known(x) /\ x.up = <<>> /\ ~x.pendRel /\ x.tei = d.l2.tei
        /\ x.l1Activ /\ ~x.estabPend
    BY <1>2, <1>3, <1>5 DEF Activated
  <2>2. E = A
    BY DEF Early
  <2>3. Same(x, y) /\ y.up = <<>> /\ y.req = x.req
    BY <2>1
  <2> HIDE DEF y, E
  <2>4. Rest(d, Q) /\ Q.l2 = y /\ Q.tei = d.tei /\ Q.t202 = d.t202
    BY <1>1 DEF Rest
  <2> HIDE DEF Q
  <2>5. ~Q.ptp => ~Q.l2.tei
    BY <1>1, <2>1, <2>3, <2>4 DEF LinkInv, Rest
  <2>6. Assigned(Q, A)
    BY <2>1, <2>3, <2>4, <2>5, Assigning DEF Rest
  <2> HIDE DEF A
  <2>7. Rest(d, A)
    BY <2>4, <2>6 DEF Assigned, Rest
  <2>8. CallsInv(A)
    BY <1>1, <2>7, SameCalls DEF Rest
  <2>9. LinkInv(A)
    BY <2>1, <2>3, <2>4, <2>5, <2>6, <2>7 DEF LinkInv, Assigned, Rest
  <2>10. TeiInv(A) /\ Waits(A) /\ Belief(A)
    <3>1. d.tei # "IDVERIFY" /\ ~LinkUp(d.l2)
      BY <1>1, <2>1 DEF TeiInv, LinkUp
    <3>2. TeiInv(A) /\ Waits(A)
      BY <1>1, <2>3, <2>4, <2>6, <3>1 DEF TeiInv, Waits, Served, Assigned
    <3>3. Belief(A)
      BY <1>1, <2>7, <3>1 DEF Belief, Rest
    <3> QED BY <3>2, <3>3
  <2>11. After(E, D, E.l2.st, FALSE)
    <3>1. Mute(x)
      BY <2>1 DEF Mute
    <3>2. Base(Early(d, x, FALSE))
      BY <2>2, <2>8, <2>9 DEF Base, E
    <3> QED BY <3>1, <3>2, DeliverMute DEF E
  <2> HIDE DEF D
  <2>12. Good(D)
    BY <2>2, <2>8, <2>9, <2>10, <2>11, AfterFine DEF Good, Base
  <2> QED BY <2>12, Becoming DEF L1Up, D, x
<1> QED BY <1>4, <1>5

LEMMA StepL1Down == ASSUME Good(d), L1Down PROVE Good(d')
<1> DEFINE x == PhDeactivate(d.l2)
           D == Deliver(d, x, FALSE)
           F == Foretold(d, x)
<1>1. /\ Base(d) /\ CallsInv(d) /\ LinkInv(d) /\ TeiInv(d) /\ Waits(d) /\ Belief(d)
      /\ AlmostWaits(d) /\ At(d.l2) /\ Whole(d) /\ d.l2.st # 2
  BY GoodWhole DEF Good, Base, Waits, AlmostWaits, Served, AlmostServed
<1>2. /\ Known(x) /\ ~x.l1Activ /\ ~x.pendRel /\ x.req = {}
      /\ d.l2.st \in {1, 4} =>
             /\ x.st = d.l2.st /\ x.tei = d.l2.tei /\ ~x.estabPend
             /\ IF d.l2.estabPend THEN x.up = One("DL_RELEASE_IND") ELSE x.up = <<>>
      /\ d.l2.st = 3 => x.st = 1 /\ ~x.tei
      /\ d.l2.st \in 5 .. 8 => x.st = 4 /\ x.tei = d.l2.tei
      /\ d.l2.st \notin {1, 4} => x.estabPend = d.l2.estabPend /\ Ends(d.l2, x)
  BY <1>1, EffectDown
<1> HIDE DEF x
<1>3. CASE d.l2.st \in {3, 5, 6, 7, 8}
  <2>1. Becomes(F)
    <3>1. (d.l2.st \in {3, 5, 6, 7, 8}) = TRUE
      BY <1>3
    <3> QED BY <3>1 DEF L1Down, x, Foretold
  <2>2. Ended(d, F) /\ F.l2.st = x.st
    BY <1>1, <1>2, <1>3, DeliverFirst
  <2> HIDE DEF F
  <2>3. Good(F)
    BY <1>1, <1>2, <1>3, <2>2, EndedGood DEF TeiInv
  <2> QED BY <2>1, <2>3, Becoming
<1>4. CASE d.l2.st \in {1, 4}
  <2>1. Becomes(D)
    <3>1. (d.l2.st \in {3, 5, 6, 7, 8}) = FALSE
      BY <1>4
    <3> QED BY <3>1 DEF L1Down, x
  <2>2. CASE ~d.l2.estabPend
    <3>1. /\ Whole(D) /\ D.lc = d.lc /\ D.drel = d.drel /\ D.sq = d.sq
          /\ D.proc = d.proc /\ D.t309 = d.t309 /\ D.ptp = d.ptp /\ D.blind = d.blind
          /\ D.tei = d.tei /\ D.t202 = d.t202 /\ (D.orphan <=> d.orphan)
          /\ Same(x, D.l2) /\ D.l2.up = <<>> /\ D.l2.req = {}
      BY <1>1, <1>2, <1>4, <2>2, DeliverQuiet
    <3> HIDE DEF D
    <3>2. CallsInv(D)
      BY <1>1, <3>1, SameCalls
    <3>3. LinkInv(D)
      BY <1>1, <1>2, <1>4, <3>1 DEF LinkInv
    <3>4. TeiInv(D) /\ Waits(D) /\ Belief(D)
      BY <1>1, <1>2, <1>4, <2>2, <3>1 DEF TeiInv, Waits, Served, Belief, LinkUp
    <3>5. Good(D)
      BY <3>2, <3>3, <3>4 DEF Good, Base
    <3> QED BY <2>1, <3>5, Becoming
  <2>3. CASE d.l2.estabPend
    <3> DEFINE E == Early(d, x, FALSE)
    <3>1. Placed(d, x, E)
      BY <1>1, <1>2, EarlyPlaced
    <3> HIDE DEF E
    <3>2. Base(E)
      <4>1. CallsInv(E)
        BY <1>1, <3>1, SameCalls DEF Placed, Rest
      <4>2. LinkInv(E)
        BY <1>1, <1>2, <1>4, <3>1 DEF LinkInv, Placed, Rest
      <4> QED BY <4>1, <4>2 DEF Base
    <3>3. TeiInv(E)
      BY <1>1, <1>2, <1>4, <3>1 DEF TeiInv, Placed
    <3>4. Plausible(E, "DL_RELEASE_IND")
      BY <1>2, <1>4, <3>1 DEF Plausible, UpPrims, Placed
    <3>5. /\ Base(D) /\ AlmostWaits(D) /\ Belief(D)
          /\ TeiInv(E) => TeiInv(D) /\ Waits(D)
      BY <1>2, <1>4, <2>3, <3>2, <3>4, DeliverTold DEF DownPrims, E
    <3> HIDE DEF D
    <3>6. Good(D)
      BY <3>3, <3>5 DEF Good
    <3> QED BY <2>1, <3>6, Becoming
  <2> QED BY <2>2, <2>3
<1> QED BY <1>1, <1>3, <1>4 DEF LinkInv

\* The link is released when nothing has used it for a while.
LEMMA StepDelayEnds == ASSUME Good(d), DelayEnds PROVE Good(d')
<1> DEFINE S == [d EXCEPT !.drel = FALSE]
           R == [S EXCEPT !.lc = "REL_WAIT"]
           x == DlReleaseReq(d.l2)
           D == Deliver(R, x, FALSE)
           E == Early(R, x, FALSE)
<1>1. /\ CallsInv(d) /\ LinkInv(d) /\ TeiInv(d) /\ At(d.l2) /\ Whole(d)
  BY GoodWhole DEF Good, Base
<1>2. d.drel /\ d.lc = "REL_DELAY"
  BY <1>1 DEF DelayEnds, CallsInv
<1>3. /\ Whole(R) /\ R.l2 = d.l2 /\ R.ptp = d.ptp /\ R.lc = "REL_WAIT" /\ ~R.drel
      /\ R.sq = d.sq /\ R.proc = d.proc /\ R.t309 = d.t309 /\ R.tei = d.tei
      /\ R.t202 = d.t202 /\ R.orphan = d.orphan /\ R.blind = d.blind
  BY <1>1
<1>4. Becomes(d) \/ Becomes(D)
  <2>1. S.lc = "REL_DELAY" /\ S.l2 = d.l2
    BY <1>1, <1>2
  <2>2. Becomes(IF S.l2.l2block THEN d ELSE Deliver(R, DlReleaseReq(S.l2), FALSE))
    <3>1. Becomes(CASE S.lc # "REL_DELAY" -> S
                    [] S.l2.l2block -> d
                    [] OTHER -> Deliver(R, DlReleaseReq(S.l2), FALSE))
      BY DEF DelayEnds
    <3> HIDE DEF S, R
    <3> QED BY <2>1, <3>1
  <2> HIDE DEF S, R
  <2> QED BY <2>1, <2>2
<1>5. /\ Link(d.l2, x) /\ x.req = {}
      /\ d.l2.st = 4 => x.st = 4 /\ ~x.pendRel /\ x.up = One("DL_RELEASE_CNF")
      /\ d.l2.st # 4 => x.up = <<>>
      /\ d.l2.st = 5 => x.st = 5
      /\ d.l2.st \in {7, 8} => x.st = 6 /\ ~x.pendRel
      /\ d.l2.st \in {1, 2, 3, 6} => x = d.l2
  BY <1>1, EffectReleaseReq, DChanAssumption
<1> HIDE DEF x, R
<1>6. CallsInv(R)
  BY <1>1, <1>2, <1>3 DEF CallsInv, Typed, Idle, LcStates
<1>7. \A U : /\ Whole(U) /\ U.lc = R.lc /\ U.drel = R.drel /\ U.sq = R.sq /\ U.proc = R.proc
             /\ U.t309 = R.t309 /\ U.ptp = R.ptp /\ U.tei = R.tei /\ U.t202 = R.t202
             /\ Same(x, U.l2) /\ U.l2.up = <<>> /\ U.l2.req = {}
             => Base(U) /\ TeiInv(U) /\ Waits(U) /\ Belief(U)
  <2> SUFFICES ASSUME NEW U, /\ Whole(U) /\ U.lc = R.lc /\ U.drel = R.drel /\ U.sq = R.sq
                             /\ U.proc = R.proc /\ U.t309 = R.t309 /\ U.ptp = R.ptp
                             /\ U.tei = R.tei /\ U.t202 = R.t202 /\ Same(x, U.l2)
                             /\ U.l2.up = <<>> /\ U.l2.req = {}
               PROVE  Base(U) /\ TeiInv(U) /\ Waits(U) /\ Belief(U)
    OBVIOUS
  <2>1. CallsInv(U)
    BY <1>6, SameCalls
  <2>2. /\ x.st \in {1, 3, 4, 5, 6} /\ (x.pendRel => x.st = 5)
        /\ x.st \in {1, 3} => d.l2.st = x.st
        /\ d.l2.st \in {1, 4} => x.st = d.l2.st
        /\ d.l2.st \in 4 .. 8 => x.st \in 4 .. 8
    BY <1>1, <1>5 DEF LinkInv
  <2>3. LinkInv(U)
    BY <1>1, <1>3, <1>5, <2>2 DEF LinkInv
  <2>4. TeiInv(U)
    BY <1>1, <1>3, <2>2 DEF TeiInv
  <2>5. Waits(U) /\ Belief(U)
    BY <1>3 DEF Waits, Belief
  <2> QED BY <2>1, <2>3, <2>4, <2>5 DEF Base
<1>8. CASE d.l2.st # 4
  <2>1. /\ Whole(D) /\ D.lc = R.lc /\ D.drel = R.drel /\ D.sq = R.sq
        /\ D.proc = R.proc /\ D.t309 = R.t309 /\ D.ptp = R.ptp /\ D.blind = R.blind
        /\ D.tei = R.tei /\ D.t202 = R.t202 /\ (D.orphan <=> R.orphan)
        /\ Same(x, D.l2) /\ D.l2.up = <<>> /\ D.l2.req = {}
    BY <1>3, <1>5, <1>8, DeliverQuiet
  <2> HIDE DEF D
  <2>2. Good(D)
    BY <1>7, <2>1 DEF Good
  <2> QED BY <1>4, <2>2, Becoming
<1>9. CASE d.l2.st = 4
  <2>1. Placed(R, x, E)
    BY <1>3, <1>5, EarlyPlaced
  <2> HIDE DEF E
  <2>2. Base(E) /\ TeiInv(E)
    BY <1>7, <2>1 DEF Placed, Rest
  <2>3. Plausible(E, "DL_RELEASE_CNF")
    BY <1>3, <1>5, <1>9, <2>1 DEF Plausible, UpPrims, Placed, Rest
  <2>4. /\ Base(D) /\ AlmostWaits(D) /\ Belief(D)
        /\ TeiInv(E) => TeiInv(D) /\ Waits(D)
    BY <1>5, <1>9, <2>2, <2>3, DeliverTold DEF DownPrims, E
  <2> HIDE DEF D
  <2>5. Good(D)
    BY <2>2, <2>4 DEF Good
  <2> QED BY <1>4, <2>5, Becoming
<1> QED BY <1>8, <1>9

\* The network gives a TEI: a request that waits for it goes on.
LEMMA StepAssign == ASSUME Good(d), tei_id_assign PROVE Good(d')
<1> DEFINE S == [d EXCEPT !.tei = "NOP", !.t202 = FALSE]
           x == EvMdlAssign(d.l2)
           D == Deliver(S, x, FALSE)
<1>1. /\ CallsInv(d) /\ LinkInv(d) /\ Waits(d) /\ Belief(d)
      /\ At(d.l2) /\ Whole(d) /\ d.l2.st # 2
  BY GoodWhole DEF Good, Base
<1>2. d.tei = "IDREQ" /\ d.l2.l1Activ /\ Becomes(D)
  BY DEF tei_id_assign
<1>3. /\ Rest(d, S) /\ S.tei = "NOP"
  BY <1>1 DEF Rest
<1>4. /\ Known(x) /\ x.up = <<>> /\ x.req = {}
      /\ x.estabPend = d.l2.estabPend /\ x.l1Activ = d.l2.l1Activ
      /\ x.pendRel => d.l2.pendRel /\ x.st = d.l2.st
      /\ d.l2.st = 1 => x.st = 4
      /\ d.l2.st = 3 => x.st = 5 /\ x.l3Init
      /\ d.l2.st \notin {1, 3} => /\ x.st = d.l2.st /\ x.l3Init = d.l2.l3Init
                                  /\ x.tei = d.l2.tei
  BY <1>1, EffectAssign DEF At
<1> HIDE DEF S, x
<1>5. /\ Whole(D) /\ D.lc = S.lc /\ D.drel = S.drel /\ D.sq = S.sq
      /\ D.proc = S.proc /\ D.t309 = S.t309 /\ D.ptp = S.ptp /\ D.blind = S.blind
      /\ D.tei = S.tei /\ D.t202 = S.t202 /\ (D.orphan <=> S.orphan)
      /\ Same(x, D.l2) /\ D.l2.up = <<>> /\ D.l2.req = {}
  BY <1>3, <1>4, DeliverQuiet DEF Rest
<1> HIDE DEF D
<1>6. CallsInv(D)
  BY <1>1, <1>3, <1>5, SameCalls DEF Rest
<1>7. LinkInv(D)
  BY <1>1, <1>2, <1>3, <1>4, <1>5 DEF LinkInv, Rest
<1>8. TeiInv(D)
  BY <1>3, <1>5 DEF TeiInv
<1>9. Waits(D) /\ Belief(D)
  BY <1>1, <1>3, <1>4, <1>5 DEF Waits, Served, Belief, LinkUp, Rest
<1>10. Good(D)
  BY <1>6, <1>7, <1>8, <1>9 DEF Good, Base
<1> QED BY <1>2, <1>10, Becoming

\* The TEI is gone.  Layer 2 tells it first in some states only.
Removed(S) == Deliver(S, EvMdlRemove(S.l2), TellsFirst(S.l2))

LEMMA Removing ==
    ASSUME NEW S, Base(S), AlmostWaits(S), Belief(S)
    PROVE  LET D == Removed(S)
           IN  /\ Base(D) /\ AlmostWaits(D) /\ Belief(D)
               /\ S.tei = "NOP" /\ Waits(S) => TeiInv(D) /\ Waits(D)
<1> DEFINE x == EvMdlRemove(S.l2)
           D == Deliver(S, x, FALSE)
           F == Foretold(S, x)
           R == Removed(S)
<1>1. /\ CallsInv(S) /\ LinkInv(S) /\ At(S.l2) /\ Whole(S) /\ S.l2.st # 2
  BY Known2 DEF Base
<1>2. /\ S.l2.st \in 5 .. 8 => Loses(S.l2, x) /\ Ends(S.l2, x)
      /\ S.l2.st = 4 => Loses(S.l2, x) /\ x.up = <<>>
      /\ S.l2.st \in {1, 3} => x = S.l2
  BY <1>1, EffectRemove
<1>3. R = IF S.l2.st \in {6, 7, 8} THEN F ELSE D
  <2>1. CASE S.l2.st \in {6, 7, 8}
    <3>1. TellsFirst(S.l2) = TRUE
      BY <2>1 DEF TellsFirst
    <3> QED BY <2>1, <3>1 DEF Removed, Foretold
  <2>2. CASE S.l2.st \notin {6, 7, 8}
    <3>1. TellsFirst(S.l2) = FALSE
      BY <2>2 DEF TellsFirst
    <3> QED BY <2>2, <3>1 DEF Removed
  <2> QED BY <2>1, <2>2
<1> HIDE DEF x, R
<1>4. CASE S.l2.st \in {6, 7, 8}
  <2>1. Ended(S, F)
    BY <1>2, <1>4, DeliverFirst DEF Loses
  <2> HIDE DEF F
  <2>2. S.tei = "NOP" => TeiInv(F)
    BY <2>1 DEF Ended, TeiInv
  <2> QED BY <1>3, <1>4, <2>1, <2>2 DEF Ended, R
<1>5. CASE S.l2.st = 5
  <2> DEFINE E == Early(S, x, FALSE)
  <2>1. Placed(S, x, E)
    <3>1. Known(x) /\ x.req = {}
      BY <1>2, <1>5 DEF Loses
    <3> HIDE DEF E
    <3> QED BY <1>1, <3>1, EarlyPlaced DEF E
  <2> HIDE DEF E
  <2>2. Base(E)
    <3>1. CallsInv(E)
      BY <1>1, <2>1, SameCalls DEF Placed, Rest
    <3>2. LinkInv(E)
      BY <1>1, <1>2, <1>5, <2>1 DEF LinkInv, Loses, Placed, Rest
    <3> QED BY <3>1, <3>2 DEF Base
  <2>3. S.tei = "NOP" => TeiInv(E)
    BY <2>1 DEF TeiInv, Placed
  <2>4. PICK p \in DownPrims : x.up = One(p) /\ (p = "DL_RELEASE_CNF" => S.l2.pendRel)
    BY <1>2, <1>5 DEF Ends
  <2>5. Plausible(E, p)
    BY <1>1, <1>2, <1>5, <2>1, <2>4
       DEF Plausible, UpPrims, DownPrims, LinkInv, Loses, Placed, Rest
  <2>6. /\ Base(D) /\ AlmostWaits(D) /\ Belief(D)
        /\ TeiInv(E) => TeiInv(D) /\ Waits(D)
    BY <2>2, <2>4, <2>5, DeliverTold DEF E
  <2> HIDE DEF D
  <2> QED BY <1>3, <1>5, <2>3, <2>6 DEF R
<1>6. CASE S.l2.st \in {1, 3, 4}
  <2>1. /\ Known(x) /\ x.up = <<>> /\ x.req = {} /\ ~x.pendRel
        /\ x.estabPend = S.l2.estabPend /\ x.l1Activ = S.l2.l1Activ
        /\ S.l2.st = 4 => x.st = 1 /\ ~x.tei
        /\ S.l2.st \in {1, 3} => x = S.l2
    BY <1>1, <1>2, <1>6 DEF Loses, LinkInv, At
  <2>2. /\ Whole(D) /\ D.lc = S.lc /\ D.drel = S.drel /\ D.sq = S.sq
        /\ D.proc = S.proc /\ D.t309 = S.t309 /\ D.ptp = S.ptp /\ D.blind = S.blind
        /\ D.tei = S.tei /\ D.t202 = S.t202 /\ (D.orphan <=> S.orphan)
        /\ Same(x, D.l2) /\ D.l2.up = <<>> /\ D.l2.req = {}
    BY <1>1, <2>1, DeliverQuiet
  <2> HIDE DEF D
  <2>3. CallsInv(D)
    BY <1>1, <2>2, SameCalls
  <2>4. LinkInv(D)
    BY <1>1, <1>6, <2>1, <2>2 DEF LinkInv
  <2>5. AlmostWaits(D) /\ Belief(D)
    BY <1>6, <2>1, <2>2 DEF AlmostWaits, AlmostServed, Belief, LinkUp
  <2>6. S.tei = "NOP" => TeiInv(D)
    BY <2>2 DEF TeiInv
  <2>7. Waits(S) => Waits(D)
    BY <1>6, <2>1, <2>2 DEF Waits, Served
  <2> QED BY <1>3, <1>6, <2>3, <2>4, <2>5, <2>6, <2>7 DEF Base, R
<1> QED BY <1>1, <1>4, <1>5, <1>6 DEF LinkInv

\* The manager forgets what it was at.
LEMMA StepTei ==
    ASSUME Good(d), tei_id_chk_req \/ tei_id_remove \/ tei_id_test_dup
    PROVE  Good(d')
<1> DEFINE S == [d EXCEPT !.tei = "NOP", !.t202 = FALSE]
           V == tei_id_verify(d)
<1>1. /\ LinkInv(d) /\ TeiInv(d) /\ Whole(d)
  BY GoodWhole DEF Good, Base
<1>2. Rest(d, S) /\ S.l2 = d.l2 /\ S.tei = "NOP" /\ ~S.t202
  BY <1>1 DEF Rest
<1>3. d.tei # "IDREQ" => Good(S)
  <2> HIDE DEF S
  <2>1. TeiInv(S)
    BY <1>2 DEF TeiInv
  <2> QED BY <1>2, <2>1, TeiGood
<1>4. ASSUME tei_id_remove PROVE Good(d')
  <2>1. Becomes(Removed(S)) /\ d.tei # "IDREQ"
    <3> HIDE DEF S
    <3> QED BY <1>2, <1>4 DEF tei_id_remove, Removed, S
  <2> HIDE DEF S
  <2>2. Base(S) /\ AlmostWaits(S) /\ Belief(S) /\ Waits(S) /\ S.tei = "NOP"
    BY <1>2, <1>3, <2>1 DEF Good, Waits, AlmostWaits, Served, AlmostServed
  <2>3. Good(Removed(S))
    <3> DEFINE D == Removed(S)
    <3>1. /\ Base(D) /\ AlmostWaits(D) /\ Belief(D)
          /\ S.tei = "NOP" /\ Waits(S) => TeiInv(D) /\ Waits(D)
      BY <2>2, Removing
    <3> HIDE DEF D
    <3> QED BY <2>2, <3>1 DEF Good, D
  <2> QED BY <2>1, <2>3, Becoming
<1>5. ASSUME tei_id_test_dup PROVE Good(d')
  <2>1. d.tei = "NOP" /\ d.l2.tei /\ ~d.ptp /\ Becomes(V)
    BY <1>5 DEF tei_id_test_dup
  <2>2. Rest(d, V) /\ V.l2 = d.l2 /\ V.tei = "IDVERIFY" /\ V.t202
    BY <1>1, <2>1, Verifying
  <2> HIDE DEF V
  <2>3. TeiInv(V)
    BY <1>1, <2>1, <2>2 DEF TeiInv, LinkInv
  <2>4. Good(V)
    BY <2>1, <2>2, <2>3, TeiGood
  <2> QED BY <2>1, <2>4, Becoming
<1> QED BY <1>3, <1>4, <1>5, Becoming DEF tei_id_chk_req

\* The manager gives up: a request that waited for it is marked.
Left(U) == [U EXCEPT !.tei = "NOP",
                     !.orphan = @ \/ (U.l2.st = 3 /\ U.lc = "ESTAB_WAIT")]

LEMMA Leaving ==
    ASSUME NEW U, Base(U), AlmostWaits(U), Belief(U)
    PROVE  Good(Left(U))
<1> DEFINE L == Left(U)
<1>1. CallsInv(U) /\ LinkInv(U) /\ Whole(U)
  BY Known2 DEF Base
<1>2. /\ Whole(L) /\ L.l2 = U.l2 /\ L.lc = U.lc /\ L.drel = U.drel /\ L.sq = U.sq
      /\ L.proc = U.proc /\ L.t309 = U.t309 /\ L.ptp = U.ptp /\ L.blind = U.blind
      /\ L.tei = "NOP"
      /\ L.orphan <=> U.orphan \/ (U.l2.st = 3 /\ U.lc = "ESTAB_WAIT")
  BY <1>1 DEF Left
<1> HIDE DEF L
<1>3. CallsInv(L)
  BY <1>1, <1>2, SameCalls
<1>4. LinkInv(L) /\ TeiInv(L)
  BY <1>1, <1>2 DEF LinkInv, TeiInv
<1>5. Waits(L) /\ Belief(L)
  BY <1>2 DEF Waits, Served, Belief, AlmostWaits, AlmostServed
<1> QED BY <1>3, <1>4, <1>5 DEF Good, Base, L

LEMMA StepT202 == ASSUME Good(d), T202 PROVE Good(d')
<1> DEFINE S == [d EXCEPT !.t202 = FALSE]
           N == [S EXCEPT !.n202 = 0]
           A == Again(S)
           x == EvMdlError(N.l2)
           D == Deliver(N, x, FALSE)
           F == Foretold(N, x)
<1>1. /\ Base(d) /\ CallsInv(d) /\ LinkInv(d) /\ TeiInv(d) /\ Waits(d) /\ Belief(d)
      /\ Whole(d) /\ AlmostWaits(d)
  BY GoodWhole DEF Good, Base, Waits, AlmostWaits, Served, AlmostServed
<1>2. Rest(d, N) /\ N.l2 = d.l2 /\ N.tei = d.tei
  BY <1>1 DEF Rest
<1>3. Rest(d, A) /\ A.l2 = d.l2 /\ A.tei = d.tei /\ A.t202
  BY <1>1 DEF Rest, Again
<1>4. \/ Becomes(A)
      \/ d.tei = "IDREQ" /\ Becomes(Left(Deliver(N, EvMdlError(S.l2), S.l2.st = 3)))
      \/ Becomes(Left(Removed(N)))
  <2>1. S.l2 = N.l2 /\ S.tei = d.tei
    BY <1>1
  <2>2. Removed(N) = Deliver(N, EvMdlRemove(S.l2), TellsFirst(S.l2))
    <3> HIDE DEF S, N
    <3> QED BY <2>1 DEF Removed
  <2>3. Becomes(IF d.tei = "IDREQ" THEN tei_id_req_tout(S) ELSE tei_id_ver_tout(S))
    BY DEF T202
  <2>4. /\ tei_id_req_tout(S) = IF S.n202 > 1 THEN A
                                ELSE Left(Deliver(N, EvMdlError(S.l2), S.l2.st = 3))
        /\ tei_id_ver_tout(S) = IF S.n202 > 1 THEN A ELSE Left(Removed(N))
    <3> HIDE DEF S
    <3> QED BY <2>2 DEF tei_id_req_tout, tei_id_ver_tout, GiveUpTei, Left
  <2> HIDE DEF S, N, A
  <2> QED BY <2>3, <2>4
<1>5. Good(A)
  <2> HIDE DEF A
  <2>1. TeiInv(A)
    BY <1>1, <1>3 DEF TeiInv
  <2> QED BY <1>3, <2>1, TeiGood
<1>6. S.l2 = N.l2
  BY <1>1
<1> HIDE DEF A, S, N
<1>7. Base(N) /\ AlmostWaits(N) /\ Belief(N)
  <2>1. CallsInv(N)
    BY <1>1, <1>2, SameCalls DEF Rest
  <2>2. LinkInv(N)
    BY <1>1, <1>2 DEF LinkInv, Rest
  <2>3. AlmostWaits(N) /\ Belief(N)
    BY <1>1, <1>2 DEF AlmostWaits, AlmostServed, Belief, Rest
  <2> QED BY <2>1, <2>2, <2>3 DEF Base
<1>8. Good(Left(Removed(N)))
  <2> DEFINE R == Removed(N)
  <2>1. Base(R) /\ AlmostWaits(R) /\ Belief(R)
    BY <1>7, Removing
  <2> HIDE DEF R
  <2>2. Good(Left(R))
    BY <2>1, Leaving
  <2> QED BY <2>2 DEF R
<1>9. Good(Left(Deliver(N, EvMdlError(S.l2), S.l2.st = 3)))
  <2>1. /\ IF N.l2.st = 3 THEN Loses(N.l2, x) /\ Ends(N.l2, x) ELSE x = N.l2
        /\ CallsInv(N) /\ LinkInv(N) /\ Whole(N) /\ Known(N.l2)
        /\ N.l2.up = <<>> /\ N.l2.req = {}
    <3>1. At(N.l2) /\ N.l2.st # 2
      BY <1>7, Known2
    <3> QED BY <1>7, <3>1, Known2, EffectError DEF Base, At
  <2>2. EvMdlError(S.l2) = x
    BY <1>6
  <2> HIDE DEF x
  <2>3. CASE N.l2.st = 3
    <3>1. Deliver(N, EvMdlError(S.l2), S.l2.st = 3) = F
      <4>1. (S.l2.st = 3) = TRUE
        BY <1>6, <2>3
      <4> QED BY <2>2, <4>1 DEF Foretold
    <3>2. Ended(N, F)
      BY <1>7, <2>1, <2>3, DeliverFirst DEF Loses
    <3> HIDE DEF F
    <3>3. Good(Left(F))
      BY <3>2, Leaving DEF Ended
    <3> QED BY <3>1, <3>3
  <2>4. CASE N.l2.st # 3
    <3>1. Deliver(N, EvMdlError(S.l2), S.l2.st = 3) = D
      <4>1. (S.l2.st = 3) = FALSE
        BY <1>6, <2>4
      <4> QED BY <2>2, <4>1
    <3>2. /\ Whole(D) /\ D.lc = N.lc /\ D.drel = N.drel /\ D.sq = N.sq
          /\ D.proc = N.proc /\ D.t309 = N.t309 /\ D.ptp = N.ptp /\ D.blind = N.blind
          /\ D.tei = N.tei /\ D.t202 = N.t202 /\ (D.orphan <=> N.orphan)
          /\ Same(x, D.l2) /\ D.l2.up = <<>> /\ D.l2.req = {}
      <4>1. Known(x) /\ x.req = {} /\ x.up = <<>>
        BY <2>1, <2>4
      <4> QED BY <2>1, <4>1, DeliverQuiet
    <3> HIDE DEF D
    <3>3. CallsInv(D)
      BY <2>1, <3>2, SameCalls
    <3>4. LinkInv(D)
      BY <2>1, <2>4, <3>2 DEF LinkInv
    <3>5. AlmostWaits(D) /\ Belief(D)
      BY <1>7, <2>1, <2>4, <3>2 DEF AlmostWaits, AlmostServed, Belief, LinkUp
    <3>6. Good(Left(D))
      BY <3>3, <3>4, <3>5, Leaving DEF Base
    <3> QED BY <3>1, <3>6
  <2> QED BY <2>3, <2>4
<1> QED BY <1>4, <1>5, <1>8, <1>9, Becoming

-----------------------------------------------------------------------------
(* The theorems *)

LEMMA GoodInit == Init => Good(d)
<1> SUFFICES ASSUME Init PROVE Good(d)
  OBVIOUS
<1>1. PICK ptp \in BOOLEAN : d =
          [l2 |-> [InitL2(FALSE) EXCEPT !.tei = ptp], ptp |-> ptp,
           lc |-> "REL", drel |-> FALSE, sq |-> 0,
           proc |-> [p \in Procs |-> "none"], t309 |-> {},
           tei |-> "NOP", t202 |-> FALSE, n202 |-> 0,
           orphan |-> FALSE, blind |-> FALSE]
  BY DEF Init
<1>2. /\ Whole(d) /\ d.l2 = [InitL2(FALSE) EXCEPT !.tei = ptp] /\ d.ptp = ptp
      /\ d.lc = "REL" /\ ~d.drel /\ d.sq = 0 /\ d.proc = [p \in Procs |-> "none"]
      /\ d.tei = "NOP"
  BY <1>1
<1>3. /\ Known(d.l2) /\ d.l2.st = 1 /\ d.l2.up = <<>> /\ d.l2.req = {} /\ ~d.l2.l1Activ
      /\ ~d.l2.estabPend /\ ~d.l2.pendRel /\ d.l2.tei = ptp
  BY <1>2, DChanAssumption DEF InitL2
<1>4. CallsInv(d)
  BY <1>2 DEF CallsInv, Typed, CallStates, LcStates, Idle
<1>5. LinkInv(d)
  BY <1>2, <1>3 DEF LinkInv
<1>6. TeiInv(d) /\ Waits(d) /\ Belief(d)
  BY <1>2 DEF TeiInv, Waits, Belief
<1> QED BY <1>4, <1>5, <1>6 DEF Good, Base

LEMMA GoodNext == ASSUME Good(d), [Next]_vars PROVE Good(d')
<1>1. ASSUME Network PROVE Good(d')
  <2>1. ASSUME \E f \in Frames : RcvFrame(f) PROVE Good(d')
    BY <2>1, StepRcvFrame
  <2>2. ASSUME \E p \in Procs : Incoming(p) PROVE Good(d')
    BY <2>2, StepCalls
  <2>3. ASSUME \E p \in Procs, new \in CallStates, a \in BOOLEAN : Receives(p, new, a)
        PROVE  Good(d')
    BY <2>3, StepReceives
  <2>4. ASSUME tei_id_assign \/ tei_id_chk_req \/ tei_id_remove \/ tei_id_test_dup
        PROVE  Good(d')
    BY <2>4, StepAssign, StepTei
  <2> QED BY <1>1, <2>1, <2>2, <2>3, <2>4 DEF Network
<1>2. ASSUME Watch \/ DelayEnds \/ T202 PROVE Good(d')
  BY <1>2, StepWatch, StepDelayEnds, StepT202
<1>3. ASSUME T200 \/ T203 \/ L1Up \/ L1Down \/ TxDone \/ PullConfirm PROVE Good(d')
  BY <1>3, StepTimers, StepL1Up, StepL1Down, StepTransmitter
<1>4. ASSUME \E p \in Procs : GivesUp(p) \/ T309(p) PROVE Good(d')
  BY <1>4, StepCalls
<1>5. ASSUME \E p \in Procs, new \in CallStates : Sends(p, new) PROVE Good(d')
  BY <1>5, StepSends
<1>6. ASSUME UNCHANGED vars PROVE Good(d')
  BY <1>6 DEF vars
<1> QED BY <1>1, <1>2, <1>3, <1>4, <1>5, <1>6 DEF Next

LEMMA GoodAlways == Spec => []Good(d)
<1>1. Good(d) /\ [Next]_vars => Good(d)'
  BY GoodNext
<1> QED BY GoodInit, <1>1, PTL DEF Spec

\* Messages wait in squeue of isdnl3.c only for a link that has been asked
\* for: what was meant for one link is never sent on a later one.
THEOREM NothingStaleQueued == Spec => []NoStaleMsg
<1>1. Good(d) => NoStaleMsg
  BY DEF Good, Base, CallsInv, NoStaleMsg
<1> QED BY GoodAlways, <1>1, PTL

\* l3m_timer runs exactly while the release of the link is put off, and an
\* active call that has lost its link is under T309.
THEOREM LinkTimersAlways == Spec => []LinkTimers
<1>1. Good(d) => LinkTimers
  BY DEF Good, Base, CallsInv, LinkTimers, Active, Idle, Patient
<1> QED BY GoodAlways, <1>1, PTL

\* While layer 3 waits for the link, layer 2 or the TEI manager is at work on
\* it, unless the request went astray in a call that crossed another.
THEOREM WaitServedAlways == Spec => []WaitServed
<1>1. Good(d) => WaitServed
  BY DEF Good, Waits, Served, WaitServed
<1> QED BY GoodAlways, <1>1, PTL

\* What layer 3 takes for established, layer 2 has or is setting up again.
THEOREM BeliefAlways == Spec => []BeliefMatches
<1>1. Good(d) => BeliefMatches
  BY DEF Good, Belief, BeliefMatches
<1> QED BY GoodAlways, <1>1, PTL
=============================================================================

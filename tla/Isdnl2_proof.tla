---------------------------- MODULE Isdnl2_proof ----------------------------
(***************************************************************************)
(* Lemmas about the handlers of Isdnl2: each one leaves the entity well    *)
(* formed and its ring of unacknowledged frames complete.  Most operators  *)
(* do not touch the ring (Same); setva, invoke_retransmission and          *)
(* l2_pull_iqueue move it (SetvaGood, InvokeGood, PullGood); a new link    *)
(* starts with an empty one.  Each handler is then a chain of them.        *)
(***************************************************************************)
EXTENDS Isdnl2, TLAPS

(* Operators that touch neither the state, nor the ring, nor the sequence  *)
(* numbers it depends on, and follow no NULL pointer.                      *)

Same(s, t) ==
    /\ t \in L2State
    /\ t.st = s.st /\ t.va = s.va /\ t.vs = s.vs /\ t.sow = s.sow /\ t.win = s.win
    /\ "null skb" \in t.warn => "null skb" \in s.warn

LEMMA Zero == 0 \in SeqNo /\ 0 \in Slots /\ 0 \in 0 .. N200 /\ 1 \in 0 .. N200
BY L2Assumption DEF SeqNo, Slots

LEMMA SameRefl == ASSUME NEW s \in L2State PROVE Same(s, s)
BY DEF Same

LEMMA SameTrans ==
    ASSUME NEW s, NEW t, NEW u, Same(s, t), Same(t, u) PROVE Same(s, u)
BY DEF Same

LEMMA SameAsk ==
    ASSUME NEW s \in L2State, NEW r \in Requests PROVE Same(s, Ask(s, r))
BY DEF L2State, Same, Ask

LEMMA SameWarn ==
    ASSUME NEW s \in L2State, NEW b \in BOOLEAN, NEW w \in Warnings, w # "null skb"
    PROVE  Same(s, Warn(s, b, w))
<1>1. CASE b
  BY <1>1, ZenonT(60) DEF L2State, Same, Warn
<1>2. CASE ~b
  BY <1>2 DEF Same, Warn
<1> QED BY <1>1, <1>2

LEMMA WarnFields ==
    ASSUME NEW s \in L2State, NEW b \in BOOLEAN, NEW w
    PROVE  LET t == Warn(s, b, w)
           IN  /\ t.iq = s.iq /\ t.win = s.win /\ t.vs = s.vs
               /\ t.st = s.st /\ t.va = s.va /\ t.sow = s.sow /\ t.rc = s.rc
<1>1. CASE b
  BY <1>1 DEF L2State, Warn
<1>2. CASE ~b
  BY <1>2 DEF Warn
<1> QED BY <1>1, <1>2

LEMMA SameAddT200 == ASSUME NEW s \in L2State PROVE Same(s, AddT200(s))
BY ZenonT(60) DEF L2State, Same, AddT200, Warn, Warnings
LEMMA SameAddT203 == ASSUME NEW s \in L2State PROVE Same(s, AddT203(s))
BY ZenonT(60) DEF L2State, Same, AddT203, Warn, Warnings
LEMMA Same_restart_t200 == ASSUME NEW s \in L2State PROVE Same(s, restart_t200(s))
BY DEF L2State, Same, restart_t200
LEMMA SameRestartT203 == ASSUME NEW s \in L2State PROVE Same(s, RestartT203(s))
BY DEF L2State, Same, RestartT203
LEMMA SameDelT203 == ASSUME NEW s \in L2State PROVE Same(s, DelT203(s))
BY ZenonT(60) DEF L2State, Same, DelT203
LEMMA Same_set_peer_busy == ASSUME NEW s \in L2State PROVE Same(s, set_peer_busy(s))
<1> DEFINE x == s.l2block \/ s.iq # <<>> \/ s.ui > 0
           a == [s EXCEPT !.peerBusy = TRUE]
           t == [a EXCEPT !.l2block = x]
<1>1. set_peer_busy(s) = t  BY DEF set_peer_busy
<1>2. x \in BOOLEAN  OBVIOUS
<1> HIDE DEF x
<1>3. Same(s, a)  BY ZenonT(60) DEF L2State, Same
<1> HIDE DEF a
<1>4. a \in L2State  BY <1>3 DEF Same
<1>5. Same(a, t)
  <2>1. t \in L2State  BY <1>2, <1>4 DEF L2State
  <2>2. /\ t.st = a.st /\ t.va = a.va /\ t.vs = a.vs /\ t.sow = a.sow /\ t.win = a.win
        /\ t.warn = a.warn
    BY <1>4 DEF L2State
  <2>3. QED BY <2>1, <2>2 DEF Same
<1>6. QED BY <1>1, <1>3, <1>5, SameTrans
LEMMA Same_clear_peer_busy == ASSUME NEW s \in L2State PROVE Same(s, clear_peer_busy(s))
<1> DEFINE x == s.l2block /\ ~s.peerBusy
           a == [s EXCEPT !.peerBusy = FALSE]
           t == [a EXCEPT !.l2block = x]
<1>1. clear_peer_busy(s) = t  BY DEF clear_peer_busy
<1>2. x \in BOOLEAN  OBVIOUS
<1> HIDE DEF x
<1>3. Same(s, a)  BY ZenonT(60) DEF L2State, Same
<1> HIDE DEF a
<1>4. a \in L2State  BY <1>3 DEF Same
<1>5. Same(a, t)
  <2>1. t \in L2State  BY <1>2, <1>4 DEF L2State
  <2>2. /\ t.st = a.st /\ t.va = a.va /\ t.vs = a.vs /\ t.sow = a.sow /\ t.win = a.win
        /\ t.warn = a.warn
    BY <1>4 DEF L2State
  <2>3. QED BY <2>1, <2>2 DEF Same
<1>6. QED BY <1>1, <1>3, <1>5, SameTrans
LEMMA SameAck == ASSUME NEW s \in L2State, NEW b \in BOOLEAN
                 PROVE Same(s, [s EXCEPT !.ackPend = b])
BY ZenonT(60) DEF L2State, Same
LEMMA SameRej == ASSUME NEW s \in L2State, NEW b \in BOOLEAN
                 PROVE Same(s, [s EXCEPT !.rejExc = b])
BY ZenonT(60) DEF L2State, Same
LEMMA SamePendRel == ASSUME NEW s \in L2State, NEW b \in BOOLEAN
                 PROVE Same(s, [s EXCEPT !.pendRel = b])
BY ZenonT(60) DEF L2State, Same
LEMMA SameL3Init == ASSUME NEW s \in L2State, NEW b \in BOOLEAN
                 PROVE Same(s, [s EXCEPT !.l3Init = b])
BY ZenonT(60) DEF L2State, Same
LEMMA SameT200Run == ASSUME NEW s \in L2State, NEW b \in BOOLEAN
                 PROVE Same(s, [s EXCEPT !.t200Run = b])
BY ZenonT(60) DEF L2State, Same
LEMMA Same_stop_t200 == ASSUME NEW s \in L2State PROVE Same(s, stop_t200(s))
<1>1. CASE s.t200Run
  <2> DEFINE a == [s EXCEPT !.t200Run = FALSE]
  <2>1. Same(s, a) /\ a \in L2State
    BY SameT200Run DEF Same
  <2> HIDE DEF a
  <2>2. Same(a, [a EXCEPT !.t200 = FALSE])
    BY <2>1, ZenonT(60) DEF L2State, Same
  <2>3. stop_t200(s) = [a EXCEPT !.t200 = FALSE]
    BY <1>1 DEF stop_t200, a
  <2> QED BY <2>1, <2>2, <2>3, SameTrans
<1>2. CASE ~s.t200Run
  <2>1. stop_t200(s) = s
    BY <1>2 DEF stop_t200
  <2> QED BY <2>1 DEF Same
<1> QED BY <1>1, <1>2
LEMMA Same_start_t200 == ASSUME NEW s \in L2State PROVE Same(s, start_t200(s))
<1>1. Same(s, AddT200(s)) /\ AddT200(s) \in L2State
  BY SameAddT200 DEF Same
<1>2. Same(AddT200(s), start_t200(s))
  BY <1>1, SameT200Run DEF start_t200
<1> QED BY <1>1, <1>2, SameTrans
LEMMA SameTei == ASSUME NEW s \in L2State, NEW b \in BOOLEAN
                 PROVE Same(s, [s EXCEPT !.tei = b])
BY ZenonT(60) DEF L2State, Same
LEMMA SamePullReq == ASSUME NEW s \in L2State, NEW b \in BOOLEAN
                 PROVE Same(s, [s EXCEPT !.pullReq = b])
BY ZenonT(60) DEF L2State, Same
LEMMA SameRc == ASSUME NEW s \in L2State, NEW b \in 0 .. N200
                 PROVE Same(s, [s EXCEPT !.rc = b])
BY ZenonT(60) DEF L2State, Same
LEMMA SameUI == ASSUME NEW s \in L2State
                 PROVE Same(s, [s EXCEPT !.ui = 0])
BY ZenonT(60) DEF L2State, Same
LEMMA SamePurgeI == ASSUME NEW s \in L2State PROVE Same(s, PurgeI(s))
<1>1. <<>> \in Seq(Data)
  OBVIOUS
<1> QED BY <1>1, ZenonT(60) DEF L2State, Same, PurgeI
LEMMA SameSend ==
    ASSUME NEW s \in L2State, NEW f \in Frame PROVE Same(s, Send(s, f))
<1>1. Append(s.out, f) \in Seq(Frame)
  BY DEF L2State
<1> QED BY <1>1, ZenonT(60) DEF L2State, Same, Send

-----------------------------------------------------------------------------
(* Arithmetic of sequence numbers and of the ring *)

LEMMA DistType ==
    ASSUME NEW a \in SeqNo, NEW b \in SeqNo
    PROVE  Dist(a, b) \in 0 .. Mod - 1 /\ Dist(a, a) = 0
BY L2Assumption DEF Dist, SeqNo

LEMMA DistInc ==
    ASSUME NEW a \in SeqNo, NEW b \in SeqNo, Dist(a, b) < Window
    PROVE  Inc(b) \in SeqNo /\ Dist(a, Inc(b)) = Dist(a, b) + 1
BY L2Assumption DEF Dist, Inc, SeqNo

LEMMA DistSplit ==
    ASSUME NEW a \in SeqNo, NEW b \in SeqNo, NEW c \in SeqNo, Dist(a, b) <= Dist(a, c)
    PROVE  Dist(b, c) = Dist(a, c) - Dist(a, b)
BY L2Assumption DEF Dist, SeqNo

LEMMA SlotBehind ==
    ASSUME NEW s \in L2State, NEW k \in 0 .. Window
    PROVE  /\ Slot(s, k) \in Slots
           /\ k < Window => Behind(s, Slot(s, k)) = k
<1>1. s.sow \in 0 .. Window - 1
  BY DEF L2State, Slots
<1> QED BY <1>1, L2Assumption DEF Slot, Behind, Slots

LEMMA BehindType ==
    ASSUME NEW s \in L2State, NEW i \in Slots
    PROVE  Behind(s, i) \in 0 .. Window - 1 /\ Slot(s, Behind(s, i)) = i
<1>1. s.sow \in 0 .. Window - 1
  BY DEF L2State, Slots
<1> QED BY <1>1, L2Assumption DEF Slot, Behind, Slots

LEMMA BehindShift ==
    ASSUME NEW s \in L2State, NEW t \in L2State, NEW n \in 0 .. Window,
           t.sow = Slot(s, n), NEW i \in Slots
    PROVE  Behind(t, i) = IF Behind(s, i) >= n THEN Behind(s, i) - n
                          ELSE Behind(s, i) - n + Window
<1>1. s.sow \in 0 .. Window - 1
  BY DEF L2State, Slots
<1> QED BY <1>1, L2Assumption DEF Slot, Behind, Slots

-----------------------------------------------------------------------------
(* The ring of unacknowledged frames *)

Ring(s) ==
    /\ Outstanding(s) <= Window
    /\ \A i \in Slots : Behind(s, i) < Outstanding(s) => s.win[i] # NoSkb

Sane(s) == s \in L2State /\ "null skb" \notin s.warn
Good(s) == Sane(s) /\ Ring(s)

\* t is in the state of s, and has acknowledged the same frames.
Keeps(s, t) == t.st = s.st /\ t.va = s.va

LEMMA GoodSame ==
    ASSUME NEW s, NEW t, Good(s), Same(s, t)
    PROVE  Good(t) /\ Keeps(s, t)
BY DEF Good, Sane, Ring, Same, Outstanding, Behind, Keeps
LEMMA SaneSame == ASSUME NEW s, NEW t, Sane(s), Same(s, t) PROVE Sane(t)
BY DEF Sane, Same
LEMMA GoodType == ASSUME NEW s, Good(s) PROVE s \in L2State /\ Sane(s)
BY DEF Good, Sane

LEMMA PullGood ==
    ASSUME NEW s, Good(s)
    PROVE  Good(l2_pull_iqueue(s)) /\ Keeps(s, l2_pull_iqueue(s))
<1>1. CASE ~cansend(s) \/ s.iq = <<>>
  <2>1. l2_pull_iqueue(s) = s
    BY <1>1 DEF l2_pull_iqueue
  <2> QED BY <2>1 DEF Keeps
<1>2. CASE cansend(s) /\ s.iq # <<>>
  <2> DEFINE slot == Slot(s, Outstanding(s))
             s1 == Warn(s, s.win[slot] # NoSkb, "overwrite ack queue")
             w == [s.win EXCEPT ![slot] = Head(s.iq)]
             a == [s1 EXCEPT !.iq = Tail(@), !.win[slot] = Head(s.iq),
                             !.vs = Inc(@), !.ackPend = FALSE]
             f == [t |-> "I", rsp |-> FALSE, pf |-> FALSE,
                   ns |-> s.vs, nr |-> s.vr, d |-> Head(s.iq)]
             s2 == Send(a, f)
             s3 == IF ~s.t200Run THEN start_t200(DelT203(s2)) ELSE s2
             s4 == [s3 EXCEPT !.pullReq = @ \/ (s3.iq # <<>> /\ cansend(s3))]
  <2>0. s \in L2State /\ "null skb" \notin s.warn /\ Ring(s)
    BY DEF Good, Sane
  <2>1. /\ s.va \in SeqNo /\ s.vs \in SeqNo /\ s.vr \in SeqNo
        /\ Outstanding(s) \in 0 .. Window - 1
    <3>1. s.va \in SeqNo /\ s.vs \in SeqNo /\ s.vr \in SeqNo
      BY <2>0 DEF L2State
    <3> QED BY <1>2, <3>1, DistType, L2Assumption DEF cansend, Outstanding
  <2>2. slot \in Slots /\ Behind(s, slot) = Outstanding(s)
    <3>1. Outstanding(s) \in 0 .. Window /\ Outstanding(s) < Window
      BY <2>1, L2Assumption
    <3> QED BY <2>0, <3>1, SlotBehind
  <2>3. Head(s.iq) \in Data /\ Tail(s.iq) \in Seq(Data)
    <3>1. s.iq \in Seq(Data) /\ s.iq # <<>>
      BY <2>0, <1>2 DEF L2State
    <3> QED BY <3>1
  <2>4. Same(s, s1)
    BY <2>0, SameWarn DEF Warnings
  <2>5. Inc(s.vs) \in SeqNo /\ Dist(s.va, Inc(s.vs)) = Outstanding(s) + 1
    BY <2>1, DistInc, L2Assumption DEF Outstanding
  <2>6. w \in [Slots -> Data \cup {NoSkb}]
    BY <2>0, <2>2, <2>3 DEF L2State
  <2>7. s1 \in L2State /\ "null skb" \notin s1.warn
    BY <2>0, <2>4 DEF Same
  <2>8. s1.iq = s.iq /\ s1.win = s.win /\ s1.vs = s.vs /\ s1.st = s.st
        /\ s1.va = s.va /\ s1.sow = s.sow
    BY <2>0, WarnFields, ZenonT(60)
  <2> HIDE DEF s1, slot
  <2>9. a = [s1 EXCEPT !.iq = Tail(s.iq), !.win = w, !.vs = Inc(s.vs), !.ackPend = FALSE]
    BY <2>7, <2>8 DEF L2State
  <2> HIDE DEF a, w
  <2>10. /\ a \in L2State /\ a.st = s.st /\ a.va = s.va /\ a.sow = s.sow
         /\ a.vs = Inc(s.vs) /\ a.win = w /\ a.warn = s1.warn
    BY <2>3, <2>5, <2>6, <2>7, <2>8, <2>9, ZenonT(60) DEF L2State
  <2>11. Ring(a)
    <3>1. Outstanding(a) = Outstanding(s) + 1
      BY <2>5, <2>10 DEF Outstanding
    <3>2. ASSUME NEW i \in Slots, Behind(a, i) < Outstanding(a) PROVE a.win[i] # NoSkb
      <4>1. Behind(a, i) = Behind(s, i) /\ Behind(s, i) \in 0 .. Window - 1
        BY <2>0, <2>10, BehindType DEF Behind
      <4>2. CASE i = slot
        BY <4>2, <2>0, <2>2, <2>3, <2>10, L2Assumption DEF w, L2State
      <4>3. CASE i # slot
        <5>1. Slot(s, Behind(s, i)) = i /\ Slot(s, Outstanding(s)) = slot
          BY <2>0, BehindType DEF slot
        <5>2. Behind(s, i) < Outstanding(s)
          BY <3>1, <3>2, <4>1, <4>3, <5>1, <2>1
        <5>3. s.win[i] # NoSkb
          BY <5>2, <2>0 DEF Ring
        <5> QED BY <5>3, <4>3, <2>0, <2>2, <2>10 DEF w, L2State
      <4> QED BY <4>2, <4>3
    <3> QED BY <2>1, <3>1, <3>2, L2Assumption DEF Ring
  <2>12. Good(a) /\ Keeps(s, a)
    BY <2>7, <2>10, <2>11 DEF Good, Sane, Keeps
  <2>13. f \in Frame
    BY <2>1, <2>3, Zero DEF Frame
  <2> HIDE DEF f
  <2>14. Same(a, s2)
    BY <2>10, <2>13, SameSend
  <2>15. Same(a, s3)
    <3>1. s2 \in L2State
      BY <2>14 DEF Same
    <3>2. CASE s.t200Run
      BY <2>14, <3>2
    <3>3. CASE ~s.t200Run
      <4>1. Same(s2, DelT203(s2)) /\ DelT203(s2) \in L2State
        BY <3>1, SameDelT203 DEF Same
      <4>2. Same(DelT203(s2), s3)
        BY <3>3, <4>1, Same_start_t200
      <4> QED BY <2>14, <4>1, <4>2, SameTrans
    <3> QED BY <3>2, <3>3
  <2>16. Same(s3, s4)
    <3>1. s3 \in L2State
      BY <2>15 DEF Same
    <3>2. s3.pullReq \in BOOLEAN
      BY <3>1 DEF L2State
    <3> HIDE DEF s3
    <3> DEFINE b == s3.pullReq \/ (s3.iq # <<>> /\ cansend(s3))
    <3>3. b \in BOOLEAN
      BY <3>2
    <3>4. s4 = [s3 EXCEPT !.pullReq = b]
      OBVIOUS
    <3> HIDE DEF b
    <3> QED BY <3>1, <3>3, <3>4, SamePullReq
  <2>17. l2_pull_iqueue(s) = s4
    BY <1>2 DEF l2_pull_iqueue, s1, slot, a, f
  <2> HIDE DEF s4
  <2>18. Same(a, s4)
    BY <2>15, <2>16, SameTrans
  <2> QED BY <2>12, <2>17, <2>18, GoodSame DEF Keeps
<1> QED BY <1>1, <1>2

LEMMA PullRequestGood ==
    ASSUME NEW s, Good(s)
    PROVE  Good(PullRequest(s)) /\ Keeps(s, PullRequest(s))
<1>1. s \in L2State
  BY GoodType
<1>2. CASE s.txBusy
  <2>1. Same(s, PullRequest(s))
    BY <1>1, <1>2, SamePullReq DEF PullRequest
  <2> QED BY <2>1, GoodSame
<1>3. CASE ~s.txBusy
  <2> DEFINE a == [s EXCEPT !.pullReq = FALSE]
  <2>1. Good(a) /\ Keeps(s, a)
    BY <1>1, SamePullReq, GoodSame
  <2> HIDE DEF a
  <2>2. Good(AckPull(a)) /\ Keeps(a, AckPull(a))
    <3>1. CASE a.st = 7
      BY <2>1, <3>1, PullGood DEF AckPull
    <3>2. CASE a.st # 7
      BY <2>1, <3>2 DEF AckPull, Keeps
    <3> QED BY <3>1, <3>2
  <2>3. PullRequest(s) = AckPull(a)
    BY <1>3 DEF PullRequest, a
  <2> QED BY <2>1, <2>2, <2>3 DEF Keeps
<1> QED BY <1>2, <1>3

LEMMA PullIfWaitingGood ==
    ASSUME NEW s, Good(s)
    PROVE  Good(PullIfWaiting(s)) /\ Keeps(s, PullIfWaiting(s))
BY PullRequestGood DEF PullIfWaiting, Keeps

LEMMA SameAddTxCnt ==
    ASSUME NEW s \in L2State, NEW n \in Nat PROVE Same(s, AddTxCnt(s, n))
<1>1. CASE LAPD
  BY <1>1 DEF AddTxCnt, Same
<1>2. CASE ~LAPD
  <2>1. s.cnt + n \in Nat
    BY DEF L2State
  <2>2. AddTxCnt(s, n) = [s EXCEPT !.cnt = s.cnt + n]
    BY <1>2 DEF AddTxCnt
  <2> DEFINE x == s.cnt + n
             t == [s EXCEPT !.cnt = x]
  <2> HIDE DEF x
  <2>3. x \in Nat  BY <2>1 DEF x
  <2>4. Same(s, t)  BY <2>3, ZenonT(60) DEF Same, L2State
  <2> QED BY <2>2, <2>4 DEF x
<1> QED BY <1>1, <1>2

LEMMA SameEnqueue ==
    ASSUME NEW s \in L2State, NEW d \in Data
    PROVE  Same(s, [s EXCEPT !.iq = Append(@, d)])
<1>1. Append(s.iq, d) \in Seq(Data)
  BY DEF L2State
<1> QED BY <1>1, ZenonT(60) DEF L2State, Same

LEMMA DlDataSame ==
    ASSUME NEW s \in L2State, NEW d \in Data
    PROVE  LET counted == AddTxCnt(s, 1)
               queued == [counted EXCEPT !.iq = Append(@, d)]
           IN  Same(s, counted) /\ Same(s, queued)
<1> DEFINE c == AddTxCnt(s, 1)
<1>1. Same(s, c) /\ c \in L2State
  BY SameAddTxCnt DEF Same
<1> HIDE DEF c
<1>2. Same(c, [c EXCEPT !.iq = Append(@, d)])
  BY <1>1, SameEnqueue
<1>3. Same(s, [c EXCEPT !.iq = Append(@, d)])
  BY <1>1, <1>2, SameTrans
<1> QED BY <1>1, <1>3 DEF c

LEMMA DlDataGood ==
    ASSUME NEW s, Good(s), NEW d \in Data
    PROVE  Good(EvDlData(s, d)) /\ Keeps(s, EvDlData(s, d))
<1> DEFINE c == AddTxCnt(s, 1)
           q == [c EXCEPT !.iq = Append(@, d)]
<1>0. s \in L2State
  BY GoodType
<1>1. Good(c) /\ Keeps(s, c) /\ Good(q) /\ Keeps(s, q)
  BY <1>0, DlDataSame, GoodSame
<1>2. Good(PullRequest(q)) /\ Keeps(s, PullRequest(q))
  BY <1>1, PullRequestGood DEF Keeps
<1>3. EvDlData(s, d) \in {s, c, q, PullRequest(q)}
  <2>1. CASE s.st = 5
    BY <2>1 DEF EvDlData
  <2>2. CASE s.st = 7
    BY <2>2 DEF EvDlData
  <2>3. CASE s.st = 8
    BY <2>3 DEF EvDlData
  <2>4. CASE s.st \notin {5, 7, 8}
    BY <2>4 DEF EvDlData
  <2> QED BY <2>1, <2>2, <2>3, <2>4
<1> HIDE DEF c, q
<1> QED BY <1>1, <1>2, <1>3 DEF Keeps

\* What a callback may write.
Written(ds) == ds = <<>> \/ \E d \in Data : ds = <<d>>

LEMMA RefillGood ==
    ASSUME NEW s, Good(s), NEW ds, Written(ds)
    PROVE  Good(Refill(s, ds)) /\ Keeps(s, Refill(s, ds))
<1>1. CASE ds = <<>>
  BY <1>1 DEF Refill, Keeps
<1>2. ASSUME NEW d \in Data, ds = <<d>>
      PROVE  Good(Refill(s, ds)) /\ Keeps(s, Refill(s, ds))
  <2>1. Refill(s, ds) = EvDlData(s, d)
    <3>1. ds # <<>> /\ Head(ds) = d
      BY <1>2
    <3> QED BY <3>1 DEF Refill
  <2> QED BY <2>1, DlDataGood
<1> QED BY <1>1, <1>2 DEF Written

\* What setva frees, before it wakes the writer.
Freed(s, nr) ==
    LET n == Dist(s.va, nr)
        acked == {i \in Slots : Behind(s, i) < n}
        s1 == Warn(s, \E i \in acked : s.win[i] = NoSkb, "null skb")
    IN  [s1 EXCEPT !.va = nr, !.sow = Slot(s, n),
                   !.win = [i \in Slots |-> IF i \in acked THEN NoSkb ELSE s.win[i]]]

LEMMA FreedGood ==
    ASSUME NEW s, Good(s), NEW nr \in SeqNo, legalnr(s, nr)
    PROVE  LET t == Freed(s, nr)
           IN  /\ Good(t) /\ t.st = s.st /\ t.va = nr /\ t.vs = s.vs
               /\ Outstanding(t) = Outstanding(s) - Dist(s.va, nr)
               /\ Dist(s.va, nr) = 0 => s.va = nr
<1> DEFINE n == Dist(s.va, nr)
           acked == {i \in Slots : Behind(s, i) < n}
           s1 == Warn(s, \E i \in acked : s.win[i] = NoSkb, "null skb")
           w == [i \in Slots |-> IF i \in acked THEN NoSkb ELSE s.win[i]]
           s2 == [s1 EXCEPT !.va = nr, !.sow = Slot(s, n), !.win = w]
<1>0. Freed(s, nr) = s2
  BY DEF Freed
<1>1. s \in L2State /\ "null skb" \notin s.warn /\ Ring(s)
  BY DEF Good, Sane
<1>2. s.va \in SeqNo /\ s.vs \in SeqNo /\ n \in 0 .. Mod - 1
  BY <1>1, DistType DEF L2State
<1>3. Outstanding(s) \in 0 .. Window /\ n <= Outstanding(s) /\ n \in 0 .. Window
  <2>1. Outstanding(s) \in 0 .. Mod - 1
    BY <1>2, DistType DEF Outstanding
  <2>2. Outstanding(s) <= Window
    BY <1>1 DEF Ring
  <2>3. n <= Outstanding(s)
    BY DEF legalnr
  <2> HIDE DEF n
  <2> QED BY <1>2, <2>1, <2>2, <2>3, L2Assumption
<1>4. s1 = s
  <2>1. ASSUME NEW i \in acked PROVE s.win[i] # NoSkb
    <3>1. i \in Slots /\ Behind(s, i) < n /\ Behind(s, i) \in 0 .. Window - 1
      BY <1>1, BehindType
    <3>2. Behind(s, i) < Outstanding(s)
      BY <1>2, <1>3, <3>1, L2Assumption
    <3> QED BY <1>1, <3>1, <3>2 DEF Ring
  <2> QED BY <2>1 DEF Warn
<1>5. w \in [Slots -> Data \cup {NoSkb}]
  BY <1>1 DEF L2State
<1>6. Slot(s, n) \in Slots
  BY <1>1, <1>3, SlotBehind
<1> HIDE DEF s1, w
<1>7. /\ s2 \in L2State /\ s2.st = s.st /\ s2.va = nr /\ s2.vs = s.vs
      /\ s2.sow = Slot(s, n) /\ s2.win = w /\ s2.warn = s.warn
  BY <1>1, <1>4, <1>5, <1>6, ZenonT(60) DEF L2State
<1> HIDE DEF s2
<1>8. Outstanding(s2) = Outstanding(s) - n
  BY <1>2, <1>3, <1>7, DistSplit DEF Outstanding
<1>9. Ring(s2)
  <2>1. ASSUME NEW i \in Slots, Behind(s2, i) < Outstanding(s2)
        PROVE  s2.win[i] # NoSkb
    <3>1. Behind(s, i) \in 0 .. Window - 1
      BY <1>1, BehindType
    <3>2. Behind(s2, i) = IF Behind(s, i) >= n THEN Behind(s, i) - n
                          ELSE Behind(s, i) - n + Window
      BY <1>1, <1>3, <1>7, BehindShift
    <3>3. Behind(s, i) >= n /\ Behind(s, i) < Outstanding(s)
      BY <1>3, <1>8, <2>1, <3>1, <3>2, L2Assumption
    <3>4. s.win[i] # NoSkb
      BY <1>1, <3>3 DEF Ring
    <3>5. i \notin acked
      BY <1>3, <3>1, <3>3, L2Assumption
    <3> HIDE DEF acked
    <3> QED BY <1>7, <3>4, <3>5 DEF w
  <2> QED BY <1>3, <1>8, <2>1, L2Assumption DEF Ring
<1>10. Good(s2)
  BY <1>1, <1>7, <1>9 DEF Good, Sane
<1>11. n = 0 => s.va = nr
  BY <1>2, L2Assumption DEF Dist, SeqNo
<1> QED BY <1>0, <1>7, <1>10, <1>8, <1>11

LEMMA SetvaFreed ==
    ASSUME NEW s, NEW nr, NEW ds
    PROVE  /\ Dist(s.va, nr) = 0 => setva(s, nr, ds) = s
           /\ Dist(s.va, nr) # 0 =>
                  setva(s, nr, ds) = Refill(Freed(s, nr), IF LAPD THEN <<>> ELSE ds)
BY DEF setva, Freed

LEMMA SetvaGood ==
    ASSUME NEW s, Good(s), NEW nr \in SeqNo, legalnr(s, nr), NEW ds, Written(ds)
    PROVE  LET t == setva(s, nr, ds)
           IN  Good(t) /\ t.st = s.st /\ t.va = nr
<1>1. /\ Good(Freed(s, nr)) /\ Freed(s, nr).st = s.st /\ Freed(s, nr).va = nr
      /\ Dist(s.va, nr) = 0 => s.va = nr
  BY FreedGood
<1> DEFINE r == IF LAPD THEN <<>> ELSE ds
<1>2. Written(r)
  BY L2Assumption DEF Written
<1> HIDE DEF r
<1>3. Good(Refill(Freed(s, nr), r)) /\ Keeps(Freed(s, nr), Refill(Freed(s, nr), r))
  BY <1>1, <1>2, RefillGood
<1>4. CASE Dist(s.va, nr) = 0
  BY <1>1, <1>4, SetvaFreed
<1>5. CASE Dist(s.va, nr) # 0
  BY <1>1, <1>3, <1>5, SetvaFreed DEF Keeps, r
<1> QED BY <1>4, <1>5

\* What invoke_retransmission puts back, before it asks layer 1 to pull.
Rewound(s, nr) ==
    LET n == Dist(nr, s.vs)
        base == Dist(s.va, nr)
        again == {i \in Slots : Behind(s, i) >= base /\ Behind(s, i) < base + n}
        s1 == Warn(s, \E i \in again : s.win[i] = NoSkb, "null skb")
    IN  [AddTxCnt(s1, n) EXCEPT !.vs = nr,
             !.iq = [k \in 1 .. n |-> s.win[Slot(s, base + k - 1)]] \o @,
             !.win = [i \in Slots |-> IF i \in again THEN NoSkb ELSE s.win[i]]]

LEMMA RewoundGood ==
    ASSUME NEW s, Good(s), NEW nr \in SeqNo, legalnr(s, nr)
    PROVE  LET t == Rewound(s, nr)
           IN  /\ Good(t) /\ t.st = s.st /\ t.va = s.va /\ t.vs = nr
               /\ Len(t.iq) + Outstanding(t) = Len(s.iq) + Outstanding(s)
<1> DEFINE n == Dist(nr, s.vs)
           base == Dist(s.va, nr)
           again == {i \in Slots : Behind(s, i) >= base /\ Behind(s, i) < base + n}
           s1 == Warn(s, \E i \in again : s.win[i] = NoSkb, "null skb")
           back == [k \in 1 .. n |-> s.win[Slot(s, base + k - 1)]]
           w == [i \in Slots |-> IF i \in again THEN NoSkb ELSE s.win[i]]
           c == AddTxCnt(s1, n)
           s2 == [c EXCEPT !.vs = nr, !.iq = back \o @, !.win = w]
<1>1. s \in L2State /\ "null skb" \notin s.warn /\ Ring(s)
  BY DEF Good, Sane
<1>2. /\ s.va \in SeqNo /\ s.vs \in SeqNo /\ n \in 0 .. Mod - 1
      /\ base \in 0 .. Mod - 1
  <2>1. s.va \in SeqNo /\ s.vs \in SeqNo
    BY <1>1 DEF L2State
  <2> QED BY <2>1, DistType
<1>3. Outstanding(s) = base + n /\ Outstanding(s) <= Window
  <2>1. n = Outstanding(s) - base
    BY <1>2, DistSplit DEF legalnr, Outstanding
  <2>2. Outstanding(s) \in Int
    BY <1>2, DistType DEF Outstanding
  <2>3. Outstanding(s) <= Window
    BY <1>1 DEF Ring
  <2> HIDE DEF n, base
  <2> QED BY <1>2, <2>1, <2>2, <2>3, L2Assumption
<1>4. base \in 0 .. Window /\ n \in 0 .. Window
  BY <1>2, <1>3, L2Assumption
<1>5. \A i \in Slots : Behind(s, i) < base + n => s.win[i] \in Data
  <2>1. \A i \in Slots : s.win[i] \in Data \cup {NoSkb}
    BY <1>1 DEF L2State
  <2> QED BY <1>1, <1>3, <2>1 DEF Ring
<1>6. Rewound(s, nr) = s2
  BY DEF Rewound
<1> HIDE DEF n, base
<1>7. s1 = s
  BY <1>5, L2Assumption DEF Warn
<1>8. back \in Seq(Data) /\ Len(back) = n
  <2>1. ASSUME NEW k \in 1 .. n PROVE s.win[Slot(s, base + k - 1)] \in Data
    <3> DEFINE j == base + k - 1
    <3>1. j \in 0 .. Window /\ j < Window /\ j < base + n
      BY <1>3, <1>4, L2Assumption
    <3> HIDE DEF j
    <3>2. Slot(s, j) \in Slots /\ Behind(s, Slot(s, j)) = j
      BY <1>1, <3>1, SlotBehind
    <3> QED BY <1>5, <3>1, <3>2 DEF j
  <2>2. back \in [1 .. n -> Data]
    BY <2>1
  <2>3. n \in Nat
    BY <1>4
  <2> QED BY <2>2, <2>3
<1>9. w \in [Slots -> Data \cup {NoSkb}]
  BY <1>1 DEF L2State
<1>10. /\ c \in L2State /\ c.iq = s.iq /\ c.st = s.st /\ c.va = s.va
      /\ c.sow = s.sow /\ c.warn = s.warn
  <2>1. n \in Nat
    BY <1>4
  <2>2. Same(s, c)
    BY <1>1, <1>7, <2>1, SameAddTxCnt
  <2>3. c.iq = s.iq /\ c.warn = s.warn
    <3>1. CASE LAPD
      BY <1>7, <3>1 DEF AddTxCnt
    <3>2. CASE ~LAPD
      <4>1. c = [s EXCEPT !.cnt = @ + n]
        BY <1>7, <3>2 DEF AddTxCnt
      <4> HIDE DEF c
      <4> QED BY <1>1, <4>1 DEF L2State
    <3> QED BY <3>1, <3>2
  <2> QED BY <2>2, <2>3 DEF Same
<1> HIDE DEF c, back, w
<1>11. back \o s.iq \in Seq(Data)
  <2>1. s.iq \in Seq(Data)
    BY <1>1 DEF L2State
  <2> QED BY <1>8, <2>1
<1>12. s2 = [c EXCEPT !.vs = nr, !.iq = back \o s.iq, !.win = w]
  BY <1>10
<1> HIDE DEF s2
<1>13. /\ s2 \in L2State /\ s2.st = s.st /\ s2.va = s.va /\ s2.vs = nr
       /\ s2.sow = s.sow /\ s2.win = w /\ s2.warn = s.warn /\ s2.iq = back \o s.iq
  BY <1>9, <1>10, <1>11, <1>12, ZenonT(60) DEF L2State
<1>14. Outstanding(s2) = base
  BY <1>13 DEF Outstanding, base
<1>15. Ring(s2)
  <2>1. ASSUME NEW i \in Slots, Behind(s2, i) < base PROVE s2.win[i] # NoSkb
    <3>1. Behind(s2, i) = Behind(s, i) /\ Behind(s, i) \in 0 .. Window - 1
      BY <1>1, <1>13, BehindType DEF Behind
    <3>2. i \notin again /\ s.win[i] \in Data
      BY <1>4, <1>5, <2>1, <3>1, L2Assumption
    <3> QED BY <1>13, <3>2, L2Assumption DEF w
  <2> QED BY <1>4, <1>14, <2>1, L2Assumption DEF Ring
<1>16. Len(s2.iq) + Outstanding(s2) = Len(s.iq) + Outstanding(s)
  <2>1. s.iq \in Seq(Data)
    BY <1>1 DEF L2State
  <2>2. Len(back \o s.iq) = n + Len(s.iq) /\ Len(s.iq) \in Nat
    BY <1>8, <2>1
  <2> DEFINE queued == Len(s.iq)
             left == Len(s2.iq)
             out == Outstanding(s)
             out2 == Outstanding(s2)
  <2>3. left = n + queued /\ queued \in Nat
    BY <1>13, <2>2
  <2>4. n \in Nat /\ base \in Nat /\ out = base + n /\ out2 = base
    BY <1>3, <1>4, <1>14
  <2> HIDE DEF queued, left, out, out2
  <2>5. left + out2 = queued + out
    BY <2>3, <2>4
  <2> QED BY <2>5 DEF queued, left, out, out2
<1> QED BY <1>1, <1>13, <1>15, <1>6, <1>16 DEF Good, Sane

LEMMA InvokeRewound ==
    ASSUME NEW s, NEW nr
    PROVE  invoke_retransmission(s, nr) \in {s, PullRequest(Rewound(s, nr))}
BY DEF invoke_retransmission, Rewound

LEMMA InvokeGood ==
    ASSUME NEW s, Good(s), NEW nr \in SeqNo, legalnr(s, nr)
    PROVE  Good(invoke_retransmission(s, nr)) /\ Keeps(s, invoke_retransmission(s, nr))
<1>1. Good(PullRequest(Rewound(s, nr))) /\ Keeps(s, PullRequest(Rewound(s, nr)))
  BY RewoundGood, PullRequestGood DEF Keeps
<1> QED BY <1>1, InvokeRewound DEF Keeps

-----------------------------------------------------------------------------
(* Operators that only send or report *)

LEMMA Same_send_uframe ==
    ASSUME NEW s \in L2State, NEW t \in UTypes, NEW rsp \in BOOLEAN, NEW pf \in BOOLEAN
    PROVE  Same(s, send_uframe(s, t, rsp, pf))
<1> DEFINE f == [t |-> t, rsp |-> rsp, pf |-> pf, ns |-> 0, nr |-> 0, d |-> NoSkb]
<1>1. f \in Frame
  BY Zero DEF Frame
<1> HIDE DEF f
<1>2. Same(s, AddTxCnt(s, 1)) /\ AddTxCnt(s, 1) \in L2State
  BY SameAddTxCnt DEF Same
<1>3. Same(AddTxCnt(s, 1), Send(AddTxCnt(s, 1), f))
  BY <1>1, <1>2, SameSend
<1>4. send_uframe(s, t, rsp, pf) = Send(AddTxCnt(s, 1), f)
  BY DEF send_uframe, enqueue_super, f
<1> QED BY <1>2, <1>3, <1>4, SameTrans

LEMMA Same_enquiry_cr ==
    ASSUME NEW s \in L2State, NEW t \in STypes, NEW rsp \in BOOLEAN, NEW pf \in BOOLEAN
    PROVE  Same(s, enquiry_cr(s, t, rsp, pf))
<1> DEFINE f == [t |-> t, rsp |-> rsp, pf |-> pf, ns |-> 0, nr |-> s.vr, d |-> NoSkb]
<1>1. f \in Frame
  <2>1. s.vr \in SeqNo
    BY DEF L2State
  <2> QED BY <2>1, Zero DEF Frame
<1> HIDE DEF f
<1>2. Same(s, AddTxCnt(s, 1)) /\ AddTxCnt(s, 1) \in L2State
  BY SameAddTxCnt DEF Same
<1>3. Same(AddTxCnt(s, 1), Send(AddTxCnt(s, 1), f))
  BY <1>1, <1>2, SameSend
<1>4. enquiry_cr(s, t, rsp, pf) = Send(AddTxCnt(s, 1), f)
  BY DEF enquiry_cr, enqueue_super, f
<1> QED BY <1>2, <1>3, <1>4, SameTrans

LEMMA Same_enquiry_response ==
    ASSUME NEW s \in L2State PROVE Same(s, enquiry_response(s))
<1>1. Same(s, enquiry_cr(s, "RR", TRUE, TRUE))
  BY Same_enquiry_cr DEF STypes
<1> QED BY <1>1, SameAck, SameTrans DEF enquiry_response, Same

LEMMA Same_transmit_enquiry ==
    ASSUME NEW s \in L2State PROVE Same(s, transmit_enquiry(s))
<1> DEFINE a == enquiry_cr(s, "RR", FALSE, TRUE)
           b == [a EXCEPT !.ackPend = FALSE]
<1>1. Same(s, a) /\ a \in L2State
  BY Same_enquiry_cr DEF STypes, Same
<1> HIDE DEF a
<1>2. Same(s, b) /\ b \in L2State
  BY <1>1, SameAck, SameTrans DEF Same
<1>3. transmit_enquiry(s) = start_t200(b)
  BY DEF transmit_enquiry, a
<1> HIDE DEF b
<1> QED BY <1>2, <1>3, Same_start_t200, SameTrans

LEMMA SameTell ==
    ASSUME NEW s \in L2State, NEW p \in Prims PROVE Same(s, Tell(s, p))
<1>1. Append(s.up, [p |-> p, d |-> NoSkb]) \in Seq([p : Prims, d : Data \cup {NoSkb}])
  BY DEF L2State
<1> QED BY <1>1, ZenonT(60) DEF L2State, Same, Tell, L2L3

LEMMA SameDeliver ==
    ASSUME NEW s \in L2State, NEW d \in Data PROVE Same(s, L2L3(s, "DL_DATA_IND", d))
<1>1. Append(s.up, [p |-> "DL_DATA_IND", d |-> d]) \in Seq([p : Prims, d : Data \cup {NoSkb}])
  BY DEF L2State, Prims
<1> QED BY <1>1, ZenonT(60) DEF L2State, Same, L2L3

LEMMA Same_lapb_dl_release_l2l3 ==
    ASSUME NEW s \in L2State, NEW p \in Prims PROVE Same(s, lapb_dl_release_l2l3(s, p))
<1>1. CASE LAPD
  BY <1>1, SameTell DEF lapb_dl_release_l2l3
<1>2. CASE ~LAPD
  <2> DEFINE a == Ask(s, "PH_DEACTIVATE")
  <2>1. Same(s, a) /\ a \in L2State
    BY SameAsk DEF Same, Requests
  <2>2. lapb_dl_release_l2l3(s, p) = Tell(a, p)
    BY <1>2 DEF lapb_dl_release_l2l3
  <2> HIDE DEF a
  <2> QED BY <2>1, <2>2, SameTell, SameTrans
<1> QED BY <1>1, <1>2

LEMMA Same_st5_dl_release_l2l3 ==
    ASSUME NEW s \in L2State PROVE Same(s, st5_dl_release_l2l3(s))
<1> DEFINE a == [s EXCEPT !.pendRel = FALSE]
           p == IF s.pendRel THEN "DL_RELEASE_CNF" ELSE "DL_RELEASE_IND"
<1>1. Same(s, a) /\ a \in L2State
  BY SamePendRel DEF Same
<1>2. p \in Prims
  BY DEF Prims
<1>3. st5_dl_release_l2l3(s) = Tell(a, p)
  BY DEF st5_dl_release_l2l3
<1> HIDE DEF a, p
<1> QED BY <1>1, <1>2, <1>3, SameTell, SameTrans

LEMMA Same_tx_ui == ASSUME NEW s \in L2State PROVE Same(s, tx_ui(s))
<1>1. CASE s.ui = 0
  BY <1>1, SameRefl DEF tx_ui
<1>2. CASE s.ui # 0
  <2> DEFINE c == AddTxCnt(s, s.ui)
             f == [t |-> "UI", rsp |-> FALSE, pf |-> FALSE, ns |-> 0, nr |-> 0, d |-> NoSkb]
             frames == [i \in 1 .. s.ui |-> f]
             o == c.out \o frames
  <2>1. s.ui \in Nat
    BY DEF L2State
  <2>2. Same(s, c) /\ c \in L2State
    BY <2>1, SameAddTxCnt DEF Same
  <2>4. tx_ui(s) = [c EXCEPT !.ui = 0, !.txBusy = TRUE, !.out = @ \o frames]
    BY <1>2 DEF tx_ui
  <2>3. f \in Frame
    BY Zero DEF Frame, UTypes
  <2> HIDE DEF c, f
  <2>5. frames \in Seq(Frame)
    BY <2>1, <2>3
  <2> HIDE DEF frames
  <2>6. o \in Seq(Frame)
    <3>1. c.out \in Seq(Frame)
      BY <2>2 DEF L2State
    <3> QED BY <3>1, <2>5
  <2> DEFINE e == [c EXCEPT !.ui = 0, !.txBusy = TRUE, !.out = o]
  <2>7. tx_ui(s) = e
    BY <2>2, <2>4 DEF L2State
  <2> HIDE DEF o
  <2>8. Same(c, e)
    BY <2>2, <2>6, ZenonT(60) DEF L2State, Same
  <2> HIDE DEF c, e
  <2> QED BY <2>2, <2>7, <2>8, SameTrans
<1> QED BY <1>1, <1>2

LEMMA Same_clear_exception ==
    ASSUME NEW s \in L2State PROVE Same(s, clear_exception(s))
<1> DEFINE a == [s EXCEPT !.ackPend = FALSE]
           b == [a EXCEPT !.rejExc = FALSE]
<1>1. Same(s, a) /\ a \in L2State
  BY SameAck DEF Same
<1> HIDE DEF a
<1>2. Same(s, b) /\ b \in L2State
  BY <1>1, SameRej, SameTrans DEF Same
<1>3. clear_exception(s) = clear_peer_busy(b)
  BY DEF clear_exception, a
<1> HIDE DEF b
<1> QED BY <1>2, <1>3, Same_clear_peer_busy, SameTrans

-----------------------------------------------------------------------------
(* Operators that change the state of the entity or its ring *)

LEMMA SaneChangeState ==
    ASSUME NEW s, Sane(s), NEW n \in 1 .. 8
    PROVE  LET t == FsmChangeState(s, n)
           IN  Sane(t) /\ t.st = n /\ (Ring(s) => Ring(t))
BY DEF Sane, FsmChangeState, L2State, Ring, Outstanding, Behind

LEMMA Sane_freewin ==
    ASSUME NEW s, Sane(s) PROVE Sane(freewin(s)) /\ freewin(s).st = s.st
<1>1. EmptyWin \in [Slots -> Data \cup {NoSkb}]
  BY DEF EmptyWin
<1> QED BY <1>1 DEF Sane, freewin, L2State

LEMMA GoodResetVars ==
    ASSUME NEW s, Sane(s) PROVE Good(ResetVars(s)) /\ ResetVars(s).st = s.st
<1> DEFINE t == ResetVars(s)
<1>1. Sane(t) /\ t.st = s.st /\ t.va = 0 /\ t.vs = 0 /\ t \in L2State
  BY Zero DEF Sane, ResetVars, L2State
<1> HIDE DEF t
<1>2. Outstanding(t) = 0
  BY <1>1 DEF Outstanding, Dist
<1>3. \A i \in Slots : Behind(t, i) >= 0
  BY <1>1, BehindType, L2Assumption
<1>4. \A i \in Slots : Behind(t, i) \in Int
  BY <1>1, BehindType, L2Assumption
<1>5. Ring(t)
  BY <1>2, <1>3, <1>4, L2Assumption DEF Ring
<1> QED BY <1>1, <1>5 DEF Good, t

LEMMA SameEstabPend == ASSUME NEW s \in L2State, NEW b \in BOOLEAN
                 PROVE Same(s, [s EXCEPT !.estabPend = b])
BY ZenonT(60) DEF L2State, Same
LEMMA SameL1Activ == ASSUME NEW s \in L2State, NEW b \in BOOLEAN
                 PROVE Same(s, [s EXCEPT !.l1Activ = b])
BY ZenonT(60) DEF L2State, Same
LEMMA SameDchanBusy == ASSUME NEW s \in L2State, NEW b \in BOOLEAN
                 PROVE Same(s, [s EXCEPT !.dchanBusy = b])
BY ZenonT(60) DEF L2State, Same
LEMMA SameT200 == ASSUME NEW s \in L2State, NEW b \in BOOLEAN
                 PROVE Same(s, [s EXCEPT !.t200 = b])
BY ZenonT(60) DEF L2State, Same
LEMMA SameT203 == ASSUME NEW s \in L2State, NEW b \in BOOLEAN
                 PROVE Same(s, [s EXCEPT !.t203 = b])
BY ZenonT(60) DEF L2State, Same
LEMMA SameTxBusy == ASSUME NEW s \in L2State, NEW b \in BOOLEAN
                 PROVE Same(s, [s EXCEPT !.txBusy = b])
BY ZenonT(60) DEF L2State, Same
-----------------------------------------------------------------------------
(* What the operators keep: Ok says that t is as sound as s *)

Ok(s, t) == Sane(t) /\ t.st = s.st /\ (Ring(s) => Ring(t))

LEMMA OkSame == ASSUME NEW s, NEW t, Sane(s), Same(s, t) PROVE Ok(s, t)
BY GoodSame DEF Ok, Sane, Good, Same
LEMMA SaneType == ASSUME NEW s, Sane(s) PROVE s \in L2State
BY DEF Sane
LEMMA OkChangeState ==
    ASSUME NEW s, Sane(s), NEW n \in 1 .. 8
    PROVE  LET t == FsmChangeState(s, n)
           IN  Sane(t) /\ t.st = n /\ (Good(s) => Good(t))
BY SaneChangeState DEF Good

LEMMA Ok_stop_t200 ==
    ASSUME NEW s, Sane(s) PROVE Ok(s, stop_t200(s))
BY SaneType, OkSame, Same_stop_t200
LEMMA Ok_start_t200 ==
    ASSUME NEW s, Sane(s) PROVE Ok(s, start_t200(s))
BY SaneType, OkSame, Same_start_t200
LEMMA Ok_restart_t200 ==
    ASSUME NEW s, Sane(s) PROVE Ok(s, restart_t200(s))
BY SaneType, OkSame, Same_restart_t200
LEMMA OkAddT200 ==
    ASSUME NEW s, Sane(s) PROVE Ok(s, AddT200(s))
BY SaneType, OkSame, SameAddT200
LEMMA OkAddT203 ==
    ASSUME NEW s, Sane(s) PROVE Ok(s, AddT203(s))
BY SaneType, OkSame, SameAddT203
LEMMA OkDelT203 ==
    ASSUME NEW s, Sane(s) PROVE Ok(s, DelT203(s))
BY SaneType, OkSame, SameDelT203
LEMMA OkRestartT203 ==
    ASSUME NEW s, Sane(s) PROVE Ok(s, RestartT203(s))
BY SaneType, OkSame, SameRestartT203
LEMMA OkPurgeI ==
    ASSUME NEW s, Sane(s) PROVE Ok(s, PurgeI(s))
BY SaneType, OkSame, SamePurgeI
LEMMA OkPurgeUI ==
    ASSUME NEW s, Sane(s) PROVE Ok(s, PurgeUI(s))
BY SaneType, OkSame, SameUI DEF PurgeUI
LEMMA OkAsk ==
    ASSUME NEW s, Sane(s), NEW r \in Requests PROVE Ok(s, Ask(s, r))
BY SaneType, OkSame, SameAsk
LEMMA OkTell ==
    ASSUME NEW s, Sane(s), NEW p \in Prims PROVE Ok(s, Tell(s, p))
BY SaneType, OkSame, SameTell
LEMMA Ok_set_peer_busy ==
    ASSUME NEW s, Sane(s) PROVE Ok(s, set_peer_busy(s))
BY SaneType, OkSame, Same_set_peer_busy
LEMMA Ok_clear_peer_busy ==
    ASSUME NEW s, Sane(s) PROVE Ok(s, clear_peer_busy(s))
BY SaneType, OkSame, Same_clear_peer_busy
LEMMA Ok_clear_exception ==
    ASSUME NEW s, Sane(s) PROVE Ok(s, clear_exception(s))
BY SaneType, OkSame, Same_clear_exception
LEMMA Ok_send_uframe ==
    ASSUME NEW s, Sane(s), NEW t \in UTypes,
           NEW rsp \in BOOLEAN, NEW pf \in BOOLEAN
    PROVE  Ok(s, send_uframe(s, t, rsp, pf))
BY SaneType, OkSame, Same_send_uframe
LEMMA Ok_enquiry_cr ==
    ASSUME NEW s, Sane(s), NEW t \in STypes,
           NEW rsp \in BOOLEAN, NEW pf \in BOOLEAN
    PROVE  Ok(s, enquiry_cr(s, t, rsp, pf))
BY SaneType, OkSame, Same_enquiry_cr
LEMMA Ok_enquiry_response ==
    ASSUME NEW s, Sane(s) PROVE Ok(s, enquiry_response(s))
BY SaneType, OkSame, Same_enquiry_response
LEMMA Ok_transmit_enquiry ==
    ASSUME NEW s, Sane(s) PROVE Ok(s, transmit_enquiry(s))
BY SaneType, OkSame, Same_transmit_enquiry
LEMMA OkDeliver ==
    ASSUME NEW s, Sane(s), NEW d \in Data PROVE Ok(s, L2L3(s, "DL_DATA_IND", d))
BY SaneType, OkSame, SameDeliver
LEMMA Ok_lapb_dl_release_l2l3 ==
    ASSUME NEW s, Sane(s), NEW p \in Prims PROVE Ok(s, lapb_dl_release_l2l3(s, p))
BY SaneType, OkSame, Same_lapb_dl_release_l2l3
LEMMA Ok_st5_dl_release_l2l3 ==
    ASSUME NEW s, Sane(s) PROVE Ok(s, st5_dl_release_l2l3(s))
BY SaneType, OkSame, Same_st5_dl_release_l2l3
LEMMA Ok_tx_ui ==
    ASSUME NEW s, Sane(s) PROVE Ok(s, tx_ui(s))
BY SaneType, OkSame, Same_tx_ui
LEMMA OkAckPend ==
    ASSUME NEW s, Sane(s), NEW b \in BOOLEAN PROVE Ok(s, [s EXCEPT !.ackPend = b])
BY SaneType, OkSame, SameAck
LEMMA OkRejExc ==
    ASSUME NEW s, Sane(s), NEW b \in BOOLEAN PROVE Ok(s, [s EXCEPT !.rejExc = b])
BY SaneType, OkSame, SameRej
LEMMA OkPendRel ==
    ASSUME NEW s, Sane(s), NEW b \in BOOLEAN PROVE Ok(s, [s EXCEPT !.pendRel = b])
BY SaneType, OkSame, SamePendRel
LEMMA OkL3Init ==
    ASSUME NEW s, Sane(s), NEW b \in BOOLEAN PROVE Ok(s, [s EXCEPT !.l3Init = b])
BY SaneType, OkSame, SameL3Init
LEMMA OkT200Run ==
    ASSUME NEW s, Sane(s), NEW b \in BOOLEAN PROVE Ok(s, [s EXCEPT !.t200Run = b])
BY SaneType, OkSame, SameT200Run
LEMMA OkTei ==
    ASSUME NEW s, Sane(s), NEW b \in BOOLEAN PROVE Ok(s, [s EXCEPT !.tei = b])
BY SaneType, OkSame, SameTei
LEMMA OkEstabPend ==
    ASSUME NEW s, Sane(s), NEW b \in BOOLEAN PROVE Ok(s, [s EXCEPT !.estabPend = b])
BY SaneType, OkSame, SameEstabPend
LEMMA OkL1Activ ==
    ASSUME NEW s, Sane(s), NEW b \in BOOLEAN PROVE Ok(s, [s EXCEPT !.l1Activ = b])
BY SaneType, OkSame, SameL1Activ
LEMMA OkDchanBusy ==
    ASSUME NEW s, Sane(s), NEW b \in BOOLEAN PROVE Ok(s, [s EXCEPT !.dchanBusy = b])
BY SaneType, OkSame, SameDchanBusy
LEMMA OkT200 ==
    ASSUME NEW s, Sane(s), NEW b \in BOOLEAN PROVE Ok(s, [s EXCEPT !.t200 = b])
BY SaneType, OkSame, SameT200
LEMMA OkT203 ==
    ASSUME NEW s, Sane(s), NEW b \in BOOLEAN PROVE Ok(s, [s EXCEPT !.t203 = b])
BY SaneType, OkSame, SameT203
LEMMA OkTxBusy ==
    ASSUME NEW s, Sane(s), NEW b \in BOOLEAN PROVE Ok(s, [s EXCEPT !.txBusy = b])
BY SaneType, OkSame, SameTxBusy
LEMMA OkPullReq ==
    ASSUME NEW s, Sane(s), NEW b \in BOOLEAN PROVE Ok(s, [s EXCEPT !.pullReq = b])
BY SaneType, OkSame, SamePullReq
LEMMA OkRc ==
    ASSUME NEW s, Sane(s), NEW n \in 0 .. N200 PROVE Ok(s, [s EXCEPT !.rc = n])
BY SaneType, OkSame, SameRc

-----------------------------------------------------------------------------
(* Establishing and releasing *)

LEMMA Safe_establishlink ==
    ASSUME NEW s, Sane(s)
    PROVE  Sane(establishlink(s)) /\ establishlink(s).st = 5
<1> DEFINE a == clear_exception(s)
           b == [a EXCEPT !.rc = 0]
           c == send_uframe(b, "SABME", FALSE, TRUE)
           d == DelT203(c)
           e == restart_t200(d)
           f == [e EXCEPT !.pendRel = FALSE]
           g == freewin(f)
           h == FsmChangeState(g, 5)
<1>1. establishlink(s) = h
  BY DEF establishlink
<1> HIDE DEF a, b, c, d, e, f, g, h
<1>2. Sane(a)
  BY Ok_clear_exception DEF Ok, a
<1>3. Sane(b)
  BY <1>2, OkRc, Zero DEF Ok, b
<1>4. Sane(c)
  BY <1>3, Ok_send_uframe DEF Ok, UTypes, c
<1>5. Sane(d)
  BY <1>4, OkDelT203 DEF Ok, d
<1>6. Sane(e)
  BY <1>5, Ok_restart_t200 DEF Ok, e
<1>7. Sane(f)
  BY <1>6, OkPendRel DEF Ok, f
<1>8. Sane(g)
  BY <1>7, Sane_freewin DEF g
<1>9. Sane(h) /\ h.st = 5
  BY <1>8, OkChangeState DEF Good, h
<1> QED BY <1>1, <1>9

LEMMA SafeReestablish ==
    ASSUME NEW s, Sane(s)
    PROVE  Sane(Reestablish(s)) /\ Reestablish(s).st = 5
<1> DEFINE a == establishlink(s)
           b == [a EXCEPT !.l3Init = FALSE]
<1>1. Reestablish(s) = b
  BY DEF Reestablish
<1> HIDE DEF a, b
<1>2. Sane(a) /\ a.st = 5
  BY Safe_establishlink DEF a
<1>3. Sane(b) /\ b.st = 5
  BY <1>2, OkL3Init DEF Ok, b
<1> QED BY <1>1, <1>3

LEMMA Safe_l2_establish ==
    ASSUME NEW s, Sane(s)
    PROVE  Sane(l2_establish(s)) /\ l2_establish(s).st = 5
<1> DEFINE a == establishlink(s)
           b == [a EXCEPT !.l3Init = TRUE]
<1>1. l2_establish(s) = b
  BY DEF l2_establish
<1> HIDE DEF a, b
<1>2. Sane(a) /\ a.st = 5
  BY Safe_establishlink DEF a
<1>3. Sane(b) /\ b.st = 5
  BY <1>2, OkL3Init DEF Ok, b
<1> QED BY <1>1, <1>3

LEMMA Safe_l2_l3_reestablish ==
    ASSUME NEW s, Sane(s)
    PROVE  Sane(l2_l3_reestablish(s)) /\ l2_l3_reestablish(s).st = 5
<1> DEFINE a == PurgeI(s)
           b == l2_establish(a)
<1>1. l2_l3_reestablish(s) = b
  BY DEF l2_l3_reestablish
<1> HIDE DEF a, b
<1>2. Sane(a)
  BY OkPurgeI DEF Ok, a
<1>3. Sane(b) /\ b.st = 5
  BY <1>2, Safe_l2_establish DEF b
<1> QED BY <1>1, <1>3

LEMMA Safe_nrerrorrecovery ==
    ASSUME NEW s, Sane(s)
    PROVE  Sane(nrerrorrecovery(s)) /\ nrerrorrecovery(s).st = 5
<1> DEFINE a == Ask(s, "J")
           b == Reestablish(a)
<1>1. nrerrorrecovery(s) = b
  BY DEF nrerrorrecovery
<1> HIDE DEF a, b
<1>2. Sane(a)
  BY OkAsk DEF Ok, Requests, a
<1>3. Sane(b) /\ b.st = 5
  BY <1>2, SafeReestablish DEF b
<1> QED BY <1>1, <1>3

LEMMA Safe_l2_disconnect ==
    ASSUME NEW s, Sane(s)
    PROVE  Sane(l2_disconnect(s)) /\ l2_disconnect(s).st = 6
<1> DEFINE a == PurgeI(s)
           b == freewin(a)
           c == FsmChangeState(b, 6)
           d == [c EXCEPT !.rc = 0]
           e == send_uframe(d, "DISC", FALSE, TRUE)
           f == DelT203(e)
           g == restart_t200(f)
<1>1. l2_disconnect(s) = g
  BY DEF l2_disconnect
<1> HIDE DEF a, b, c, d, e, f, g
<1>2. Sane(a)
  BY OkPurgeI DEF Ok, a
<1>3. Sane(b)
  BY <1>2, Sane_freewin DEF b
<1>4. Sane(c) /\ c.st = 6
  BY <1>3, OkChangeState DEF Good, c
<1>5. Sane(d) /\ d.st = 6
  BY <1>4, OkRc, Zero DEF Ok, d
<1>6. Sane(e) /\ e.st = 6
  BY <1>5, Ok_send_uframe DEF Ok, UTypes, e
<1>7. Sane(f) /\ f.st = 6
  BY <1>6, OkDelT203 DEF Ok, f
<1>8. Sane(g) /\ g.st = 6
  BY <1>7, Ok_restart_t200 DEF Ok, g
<1> QED BY <1>1, <1>8

LEMMA Safe_l2_start_multi ==
    ASSUME NEW s, Sane(s), NEW pf \in BOOLEAN
    PROVE  Good(l2_start_multi(s, pf)) /\ l2_start_multi(s, pf).st = 7
<1> DEFINE a == send_uframe(s, "UA", TRUE, pf)
           b == clear_exception(a)
           c == ResetVars(b)
           d == FsmChangeState(c, 7)
           e == AddT203(d)
           f == Tell(e, "DL_ESTABLISH_IND")
<1>1. l2_start_multi(s, pf) = f
  BY DEF l2_start_multi
<1> HIDE DEF a, b, c, d, e, f
<1>2. Sane(a)
  BY Ok_send_uframe DEF Ok, UTypes, a
<1>3. Sane(b)
  BY <1>2, Ok_clear_exception DEF Ok, b
<1>4. Good(c)
  BY <1>3, GoodResetVars DEF c
<1>5. Good(d) /\ d.st = 7
  BY <1>4, OkChangeState DEF Good, d
<1>6. Good(e) /\ e.st = 7
  BY <1>5, OkAddT203 DEF Ok, Good, e
<1>7. Good(f) /\ f.st = 7
  BY <1>6, OkTell DEF Ok, Good, Prims, f
<1> QED BY <1>1, <1>7

LEMMA Safe_l2_stop_multi ==
    ASSUME NEW s, Sane(s), NEW pf \in BOOLEAN
    PROVE  Sane(l2_stop_multi(s, pf)) /\ l2_stop_multi(s, pf).st = 4
<1> DEFINE a == FsmChangeState(s, 4)
           b == DelT203(a)
           c == stop_t200(b)
           d == send_uframe(c, "UA", TRUE, pf)
           e == PurgeI(d)
           f == freewin(e)
           g == lapb_dl_release_l2l3(f, "DL_RELEASE_IND")
<1>1. l2_stop_multi(s, pf) = g
  BY DEF l2_stop_multi
<1> HIDE DEF a, b, c, d, e, f, g
<1>2. Sane(a) /\ a.st = 4
  BY OkChangeState DEF Good, a
<1>3. Sane(b) /\ b.st = 4
  BY <1>2, OkDelT203 DEF Ok, b
<1>4. Sane(c) /\ c.st = 4
  BY <1>3, Ok_stop_t200 DEF Ok, c
<1>5. Sane(d) /\ d.st = 4
  BY <1>4, Ok_send_uframe DEF Ok, UTypes, d
<1>6. Sane(e) /\ e.st = 4
  BY <1>5, OkPurgeI DEF Ok, e
<1>7. Sane(f) /\ f.st = 4
  BY <1>6, Sane_freewin DEF f
<1>8. Sane(g) /\ g.st = 4
  BY <1>7, Ok_lapb_dl_release_l2l3 DEF Ok, Prims, g
<1> QED BY <1>1, <1>8

\* The step invariant of an entity.
Safe(s) == Sane(s) /\ (s.st \in {7, 8} => Ring(s))

LEMMA SafeOk == ASSUME NEW s, Safe(s), NEW t, Ok(s, t) PROVE Safe(t)
BY DEF Safe, Ok
LEMMA SafeSt ==
    ASSUME NEW s, Safe(s)
    PROVE  Sane(s) /\ s \in L2State /\ (s.st \in {7, 8} => Good(s))
BY DEF Safe, Good, Sane

\* A link that is set up again starts with an empty ring.

LEMMA Good_l2_restart_multi ==
    ASSUME NEW s, Sane(s), NEW pf \in BOOLEAN
    PROVE  Good(l2_restart_multi(s, pf)) /\ l2_restart_multi(s, pf).st = 7
<1> DEFINE a == send_uframe(s, "UA", TRUE, pf)
           b == Ask(a, "F")
           c == IF s.vs # s.va THEN PurgeI(b) ELSE b
           d == clear_exception(c)
           e == ResetVars(d)
           f == FsmChangeState(e, 7)
           g == stop_t200(f)
           h == RestartT203(g)
           i == IF s.vs # s.va THEN Tell(h, "DL_ESTABLISH_IND") ELSE h
           j == PullIfWaiting(i)
<1>1. l2_restart_multi(s, pf) = j
  BY DEF l2_restart_multi
<1> HIDE DEF a, b, c, d, e, f, g, h, i, j
<1>2. Sane(a)
  BY Ok_send_uframe DEF Ok, UTypes, a
<1>3. Sane(b)
  BY <1>2, OkAsk DEF Ok, Requests, b
<1>4. Sane(c)
  BY <1>3, OkPurgeI DEF Ok, c
<1>5. Sane(d)
  BY <1>4, Ok_clear_exception DEF Ok, d
<1>6. Good(e)
  BY <1>5, GoodResetVars DEF e
<1>7. Good(f) /\ f.st = 7
  BY <1>6, OkChangeState DEF Good, f
<1>8. Good(g) /\ g.st = 7
  BY <1>7, Ok_stop_t200 DEF Ok, Good, g
<1>9. Good(h) /\ h.st = 7
  BY <1>8, OkRestartT203 DEF Ok, Good, h
<1>10. Good(i) /\ i.st = 7
  BY <1>9, OkTell DEF Ok, Good, Prims, i
<1>11. Good(j) /\ j.st = 7
  BY <1>10, PullIfWaitingGood DEF Keeps, j
<1> QED BY <1>1, <1>11

LEMMA Safe_l2_connected ==
    ASSUME NEW s, Safe(s), s.st = 5, NEW pf \in BOOLEAN
    PROVE  Safe(l2_connected(s, pf))
<1>1. CASE ~pf
  <2>1. l2_connected(s, pf) = Ask(s, "D")
    BY <1>1 DEF l2_connected, l2_mdl_error_ua
  <2> QED BY <2>1, SafeSt, OkAsk, SafeOk DEF Requests
<1>2. CASE pf
  <2> DEFINE reset == ~s.l3Init /\ s.vs # s.va
             a == [s EXCEPT !.pendRel = FALSE]
             b == IF s.pendRel THEN l2_disconnect(a) ELSE s
             c == IF reset THEN PurgeI(b) ELSE [b EXCEPT !.l3Init = FALSE]
             d == stop_t200(c)
             e == ResetVars(d)
             f == FsmChangeState(e, 7)
             g == AddT203(f)
             h == CASE s.l3Init -> Tell(g, "DL_ESTABLISH_CNF")
                    [] reset -> Tell(g, "DL_ESTABLISH_IND")
                    [] OTHER -> g
  <2>1. l2_connected(s, pf) = PullIfWaiting(h)
    BY <1>2 DEF l2_connected
  <2>2. s.l3Init \in BOOLEAN /\ s.pendRel \in BOOLEAN /\ reset \in BOOLEAN
    BY SafeSt DEF L2State
  <2>3. reset => ~s.l3Init
    OBVIOUS
  <2> HIDE DEF reset, a, b, c, d, e, f, g, h
  <2>4. Sane(a)
    BY SafeSt, OkPendRel DEF Ok, a
  <2>5. Sane(b)
    BY <2>4, SafeSt, Safe_l2_disconnect DEF b
  <2>6. Sane(c)
    BY <2>5, OkPurgeI, OkL3Init DEF Ok, c
  <2>7. Sane(d)
    BY <2>6, Ok_stop_t200 DEF Ok, d
  <2>8. Good(e)
    BY <2>7, GoodResetVars DEF e
  <2>9. Good(f) /\ f.st = 7
    BY <2>8, OkChangeState DEF Good, f
  <2>10. Good(g) /\ g.st = 7
    BY <2>9, OkAddT203 DEF Ok, Good, g
  <2>11. Good(h)
    <3>1. Good(Tell(g, "DL_ESTABLISH_CNF")) /\ Good(Tell(g, "DL_ESTABLISH_IND"))
      BY <2>10, OkTell DEF Ok, Good, Prims
    <3>2. CASE s.l3Init
      BY <3>1, <3>2, <2>3 DEF h
    <3>3. CASE ~s.l3Init
      BY <3>1, <3>3, <2>2, <2>10 DEF h
    <3> QED BY <3>2, <3>3
  <2> QED BY <2>1, <2>11, PullIfWaitingGood DEF Safe, Good
<1> QED BY <1>1, <1>2

-----------------------------------------------------------------------------
(* Unnumbered frames, by handler *)

LEMMA Safe_l2_mdl_error_ua ==
    ASSUME NEW s, Safe(s), NEW pf \in BOOLEAN
    PROVE  Safe(l2_mdl_error_ua(s, pf))
<1> DEFINE a == Ask(s, IF pf THEN "C" ELSE "D")
<1>1. l2_mdl_error_ua(s, pf) = a
  BY DEF l2_mdl_error_ua
<1> HIDE DEF a
<1>2. Safe(a)
  BY OkAsk DEF Ok, Safe, Requests, a
<1> QED BY <1>1, <1>2

LEMMA Safe_l2_released ==
    ASSUME NEW s, Safe(s), NEW pf \in BOOLEAN
    PROVE  Safe(l2_released(s, pf))
<1>1. CASE pf
  <2> DEFINE a == stop_t200(s)
             b == lapb_dl_release_l2l3(a, "DL_RELEASE_CNF")
             c == FsmChangeState(b, 4)
  <2>1. l2_released(s, pf) = c
    BY <1>1 DEF l2_released
  <2> HIDE DEF a, b, c
  <2>2. Safe(a)
    BY Ok_stop_t200 DEF Ok, Safe, a
  <2>3. Safe(b)
    BY <2>2, Ok_lapb_dl_release_l2l3 DEF Ok, Safe, Prims, b
  <2>4. Sane(c) /\ c.st = 4
    BY <2>3, OkChangeState DEF Good, Safe, c
  <2> QED BY <2>1, <2>4 DEF Safe
<1>2. CASE ~pf
  <2> DEFINE a == l2_mdl_error_ua(s, pf)
  <2>1. l2_released(s, pf) = a
    BY <1>2 DEF l2_released
  <2> HIDE DEF a
  <2>2. Safe(a)
    BY Safe_l2_mdl_error_ua DEF Safe, a
  <2> QED BY <2>1, <2>2
<1> QED BY <1>1, <1>2

LEMMA Safe_l2_reestablish ==
    ASSUME NEW s, Safe(s), NEW pf \in BOOLEAN
    PROVE  Safe(l2_reestablish(s, pf))
<1>1. CASE pf
  BY <1>1 DEF l2_reestablish
<1>2. CASE ~pf
  <2> DEFINE a == l2_establish(s)
  <2>1. l2_reestablish(s, pf) = a
    BY <1>2 DEF l2_reestablish
  <2> HIDE DEF a
  <2>2. Sane(a) /\ a.st = 5
    BY SafeSt, Safe_l2_establish DEF Safe, a
  <2> QED BY <2>1, <2>2 DEF Safe
<1> QED BY <1>1, <1>2

LEMMA Safe_l2_st5_dm_release ==
    ASSUME NEW s, Safe(s), NEW pf \in BOOLEAN
    PROVE  Safe(l2_st5_dm_release(s, pf))
<1>1. CASE pf
  <2> DEFINE a == stop_t200(s)
             b == IF s.l3Init THEN a ELSE PurgeI(a)
             c == IF LAPD THEN b ELSE Ask(b, "PH_DEACTIVATE")
             d == st5_dl_release_l2l3(c)
             e == FsmChangeState(d, 4)
  <2>1. l2_st5_dm_release(s, pf) = e
    BY <1>1 DEF l2_st5_dm_release
  <2> HIDE DEF a, b, c, d, e
  <2>2. Safe(a)
    BY Ok_stop_t200 DEF Ok, Safe, a
  <2>3. Safe(b)
    BY <2>2, OkPurgeI DEF Ok, Safe, b
  <2>4. Safe(c)
    BY <2>3, OkAsk DEF Ok, Safe, Requests, c
  <2>5. Safe(d)
    BY <2>4, Ok_st5_dl_release_l2l3 DEF Ok, Safe, d
  <2>6. Sane(e) /\ e.st = 4
    BY <2>5, OkChangeState DEF Good, Safe, e
  <2> QED BY <2>1, <2>6 DEF Safe
<1>2. CASE ~pf
  BY <1>2 DEF l2_st5_dm_release
<1> QED BY <1>1, <1>2

LEMMA Safe_l2_st6_dm_release ==
    ASSUME NEW s, Safe(s), NEW pf \in BOOLEAN
    PROVE  Safe(l2_st6_dm_release(s, pf))
<1>1. CASE pf
  <2> DEFINE a == stop_t200(s)
             b == lapb_dl_release_l2l3(a, "DL_RELEASE_CNF")
             c == FsmChangeState(b, 4)
  <2>1. l2_st6_dm_release(s, pf) = c
    BY <1>1 DEF l2_st6_dm_release
  <2> HIDE DEF a, b, c
  <2>2. Safe(a)
    BY Ok_stop_t200 DEF Ok, Safe, a
  <2>3. Safe(b)
    BY <2>2, Ok_lapb_dl_release_l2l3 DEF Ok, Safe, Prims, b
  <2>4. Sane(c) /\ c.st = 4
    BY <2>3, OkChangeState DEF Good, Safe, c
  <2> QED BY <2>1, <2>4 DEF Safe
<1>2. CASE ~pf
  BY <1>2 DEF l2_st6_dm_release
<1> QED BY <1>1, <1>2

LEMMA Safe_l2_mdl_error_dm ==
    ASSUME NEW s, Safe(s), NEW pf \in BOOLEAN
    PROVE  Safe(l2_mdl_error_dm(s, pf))
<1>1. CASE pf
  <2> DEFINE a == Ask(s, "B")
  <2>1. l2_mdl_error_dm(s, pf) = a
    BY <1>1 DEF l2_mdl_error_dm
  <2> HIDE DEF a
  <2>2. Safe(a)
    BY OkAsk DEF Ok, Safe, Requests, a
  <2> QED BY <2>1, <2>2
<1>2. CASE ~pf
  <2> DEFINE a == Ask(s, "E")
             b == Reestablish(a)
  <2>1. l2_mdl_error_dm(s, pf) = b
    BY <1>2 DEF l2_mdl_error_dm
  <2> HIDE DEF a, b
  <2>2. Safe(a)
    BY OkAsk DEF Ok, Safe, Requests, a
  <2>3. Sane(b) /\ b.st = 5
    BY <2>2, SafeReestablish DEF Safe, b
  <2> QED BY <2>1, <2>3 DEF Safe
<1> QED BY <1>1, <1>2

LEMMA Safe_l2_st8_mdl_error_dm ==
    ASSUME NEW s, Safe(s), NEW pf \in BOOLEAN
    PROVE  Safe(l2_st8_mdl_error_dm(s, pf))
<1> DEFINE a == Ask(s, IF pf THEN "B" ELSE "E")
           b == Reestablish(a)
<1>1. l2_st8_mdl_error_dm(s, pf) = b
  BY DEF l2_st8_mdl_error_dm
<1> HIDE DEF a, b
<1>2. Safe(a)
  BY OkAsk DEF Ok, Safe, Requests, a
<1>3. Sane(b) /\ b.st = 5
  BY <1>2, SafeReestablish DEF Safe, b
<1> QED BY <1>1, <1>3 DEF Safe

LEMMA Safe_l2_got_FRMR ==
    ASSUME NEW s, Safe(s), NEW rejected
    PROVE  Safe(l2_got_FRMR(s, rejected))
<1>1. CASE rejected \in {"I", "S"} \/ (rejected = "UA" /\ s.st = 7)
  <2> DEFINE a == Ask(s, "K")
             b == Reestablish(a)
  <2>1. l2_got_FRMR(s, rejected) = b
    BY <1>1 DEF l2_got_FRMR
  <2> HIDE DEF a, b
  <2>2. Safe(a)
    BY OkAsk DEF Ok, Safe, Requests, a
  <2>3. Sane(b) /\ b.st = 5
    BY <2>2, SafeReestablish DEF Safe, b
  <2> QED BY <2>1, <2>3 DEF Safe
<1>2. CASE ~(rejected \in {"I", "S"} \/ (rejected = "UA" /\ s.st = 7))
  BY <1>2 DEF l2_got_FRMR
<1> QED BY <1>1, <1>2

-----------------------------------------------------------------------------
(* TEI management and loss of layer 1 *)

LEMMA Safe_l2_got_tei ==
    ASSUME NEW s, Safe(s)
    PROVE  Safe(l2_got_tei(s))
<1>1. CASE s.st = 3
  <2> DEFINE a == [s EXCEPT !.tei = TRUE]
             b == l2_establish(a)
             c == tx_ui(b)
  <2>1. l2_got_tei(s) = c
    BY <1>1 DEF l2_got_tei
  <2> HIDE DEF a, b, c
  <2>2. Safe(a)
    BY OkTei DEF Ok, Safe, a
  <2>3. Sane(b) /\ b.st = 5
    BY <2>2, SafeSt, Safe_l2_establish DEF Safe, b
  <2>4. Sane(c) /\ c.st = 5
    BY <2>3, Ok_tx_ui DEF Ok, c
  <2> QED BY <2>1, <2>4 DEF Safe
<1>2. CASE s.st # 3
  <2> DEFINE a == [s EXCEPT !.tei = TRUE]
             b == FsmChangeState(a, 4)
             c == tx_ui(b)
  <2>1. l2_got_tei(s) = c
    BY <1>2 DEF l2_got_tei
  <2> HIDE DEF a, b, c
  <2>2. Safe(a)
    BY OkTei DEF Ok, Safe, a
  <2>3. Sane(b) /\ b.st = 4
    BY <2>2, OkChangeState DEF Good, Safe, b
  <2>4. Sane(c) /\ c.st = 4
    BY <2>3, Ok_tx_ui DEF Ok, c
  <2> QED BY <2>1, <2>4 DEF Safe
<1> QED BY <1>1, <1>2

LEMMA Safe_l2_st24_tei_remove ==
    ASSUME NEW s, Safe(s)
    PROVE  Safe(l2_st24_tei_remove(s))
<1> DEFINE a == PurgeUI(s)
           b == [a EXCEPT !.tei = FALSE]
           c == FsmChangeState(b, 1)
<1>1. l2_st24_tei_remove(s) = c
  BY DEF l2_st24_tei_remove
<1> HIDE DEF a, b, c
<1>2. Safe(a)
  BY OkPurgeUI DEF Ok, Safe, a
<1>3. Safe(b)
  BY <1>2, OkTei DEF Ok, Safe, b
<1>4. Sane(c) /\ c.st = 1
  BY <1>3, OkChangeState DEF Good, Safe, c
<1> QED BY <1>1, <1>4 DEF Safe

LEMMA Safe_l2_st3_tei_remove ==
    ASSUME NEW s, Safe(s)
    PROVE  Safe(l2_st3_tei_remove(s))
<1> DEFINE a == PurgeUI(s)
           b == [a EXCEPT !.tei = FALSE]
           c == Tell(b, "DL_RELEASE_IND")
           d == FsmChangeState(c, 1)
<1>1. l2_st3_tei_remove(s) = d
  BY DEF l2_st3_tei_remove
<1> HIDE DEF a, b, c, d
<1>2. Safe(a)
  BY OkPurgeUI DEF Ok, Safe, a
<1>3. Safe(b)
  BY <1>2, OkTei DEF Ok, Safe, b
<1>4. Safe(c)
  BY <1>3, OkTell DEF Ok, Safe, Prims, c
<1>5. Sane(d) /\ d.st = 1
  BY <1>4, OkChangeState DEF Good, Safe, d
<1> QED BY <1>1, <1>5 DEF Safe

LEMMA Safe_l2_st5_tei_remove ==
    ASSUME NEW s, Safe(s)
    PROVE  Safe(l2_st5_tei_remove(s))
<1> DEFINE a == PurgeI(s)
           b == PurgeUI(a)
           c == freewin(b)
           d == [c EXCEPT !.tei = FALSE]
           e == stop_t200(d)
           f == FsmChangeState(e, 1)
           g == st5_dl_release_l2l3(f)
<1>1. l2_st5_tei_remove(s) = g
  BY DEF l2_st5_tei_remove
<1> HIDE DEF a, b, c, d, e, f, g
<1>2. Safe(a)
  BY OkPurgeI DEF Ok, Safe, a
<1>3. Safe(b)
  BY <1>2, OkPurgeUI DEF Ok, Safe, b
<1>4. Sane(c)
  BY <1>3, Sane_freewin DEF Safe, c
<1>5. Sane(d)
  BY <1>4, OkTei DEF Ok, d
<1>6. Sane(e)
  BY <1>5, Ok_stop_t200 DEF Ok, e
<1>7. Sane(f) /\ f.st = 1
  BY <1>6, OkChangeState DEF Good, f
<1>8. Sane(g) /\ g.st = 1
  BY <1>7, Ok_st5_dl_release_l2l3 DEF Ok, g
<1> QED BY <1>1, <1>8 DEF Safe

LEMMA Safe_l2_st6_tei_remove ==
    ASSUME NEW s, Safe(s)
    PROVE  Safe(l2_st6_tei_remove(s))
<1> DEFINE a == PurgeUI(s)
           b == [a EXCEPT !.tei = FALSE]
           c == stop_t200(b)
           d == Tell(c, "DL_RELEASE_CNF")
           e == FsmChangeState(d, 1)
<1>1. l2_st6_tei_remove(s) = e
  BY DEF l2_st6_tei_remove
<1> HIDE DEF a, b, c, d, e
<1>2. Safe(a)
  BY OkPurgeUI DEF Ok, Safe, a
<1>3. Safe(b)
  BY <1>2, OkTei DEF Ok, Safe, b
<1>4. Safe(c)
  BY <1>3, Ok_stop_t200 DEF Ok, Safe, c
<1>5. Safe(d)
  BY <1>4, OkTell DEF Ok, Safe, Prims, d
<1>6. Sane(e) /\ e.st = 1
  BY <1>5, OkChangeState DEF Good, Safe, e
<1> QED BY <1>1, <1>6 DEF Safe

LEMMA Safe_l2_tei_remove ==
    ASSUME NEW s, Safe(s)
    PROVE  Safe(l2_tei_remove(s))
<1> DEFINE a == PurgeI(s)
           b == PurgeUI(a)
           c == freewin(b)
           d == [c EXCEPT !.tei = FALSE]
           e == stop_t200(d)
           f == DelT203(e)
           g == Tell(f, "DL_RELEASE_IND")
           h == FsmChangeState(g, 1)
<1>1. l2_tei_remove(s) = h
  BY DEF l2_tei_remove
<1> HIDE DEF a, b, c, d, e, f, g, h
<1>2. Safe(a)
  BY OkPurgeI DEF Ok, Safe, a
<1>3. Safe(b)
  BY <1>2, OkPurgeUI DEF Ok, Safe, b
<1>4. Sane(c)
  BY <1>3, Sane_freewin DEF Safe, c
<1>5. Sane(d)
  BY <1>4, OkTei DEF Ok, d
<1>6. Sane(e)
  BY <1>5, Ok_stop_t200 DEF Ok, e
<1>7. Sane(f)
  BY <1>6, OkDelT203 DEF Ok, f
<1>8. Sane(g)
  BY <1>7, OkTell DEF Ok, Prims, g
<1>9. Sane(h) /\ h.st = 1
  BY <1>8, OkChangeState DEF Good, h
<1> QED BY <1>1, <1>9 DEF Safe

LEMMA Safe_l2_st14_persistant_da ==
    ASSUME NEW s, Safe(s)
    PROVE  Safe(l2_st14_persistant_da(s))
<1> DEFINE a == [s EXCEPT !.estabPend = FALSE]
           b == PurgeI(a)
           c == PurgeUI(b)
           d == IF s.estabPend THEN Tell(c, "DL_RELEASE_IND") ELSE c
<1>1. l2_st14_persistant_da(s) = d
  BY DEF l2_st14_persistant_da
<1> HIDE DEF a, b, c, d
<1>2. Safe(a)
  BY OkEstabPend DEF Ok, Safe, a
<1>3. Safe(b)
  BY <1>2, OkPurgeI DEF Ok, Safe, b
<1>4. Safe(c)
  BY <1>3, OkPurgeUI DEF Ok, Safe, c
<1>5. Safe(d)
  BY <1>4, OkTell DEF Ok, Safe, Prims, d
<1> QED BY <1>1, <1>5

LEMMA Safe_l2_st5_persistant_da ==
    ASSUME NEW s, Safe(s)
    PROVE  Safe(l2_st5_persistant_da(s))
<1> DEFINE a == PurgeI(s)
           b == PurgeUI(a)
           c == freewin(b)
           d == stop_t200(c)
           e == st5_dl_release_l2l3(d)
           f == FsmChangeState(e, 4)
<1>1. l2_st5_persistant_da(s) = f
  BY DEF l2_st5_persistant_da
<1> HIDE DEF a, b, c, d, e, f
<1>2. Safe(a)
  BY OkPurgeI DEF Ok, Safe, a
<1>3. Safe(b)
  BY <1>2, OkPurgeUI DEF Ok, Safe, b
<1>4. Sane(c)
  BY <1>3, Sane_freewin DEF Safe, c
<1>5. Sane(d)
  BY <1>4, Ok_stop_t200 DEF Ok, d
<1>6. Sane(e)
  BY <1>5, Ok_st5_dl_release_l2l3 DEF Ok, e
<1>7. Sane(f) /\ f.st = 4
  BY <1>6, OkChangeState DEF Good, f
<1> QED BY <1>1, <1>7 DEF Safe

LEMMA Safe_l2_st6_persistant_da ==
    ASSUME NEW s, Safe(s)
    PROVE  Safe(l2_st6_persistant_da(s))
<1> DEFINE a == PurgeUI(s)
           b == stop_t200(a)
           c == Tell(b, "DL_RELEASE_CNF")
           d == FsmChangeState(c, 4)
<1>1. l2_st6_persistant_da(s) = d
  BY DEF l2_st6_persistant_da
<1> HIDE DEF a, b, c, d
<1>2. Safe(a)
  BY OkPurgeUI DEF Ok, Safe, a
<1>3. Safe(b)
  BY <1>2, Ok_stop_t200 DEF Ok, Safe, b
<1>4. Safe(c)
  BY <1>3, OkTell DEF Ok, Safe, Prims, c
<1>5. Sane(d) /\ d.st = 4
  BY <1>4, OkChangeState DEF Good, Safe, d
<1> QED BY <1>1, <1>5 DEF Safe

LEMMA Safe_l2_persistant_da ==
    ASSUME NEW s, Safe(s)
    PROVE  Safe(l2_persistant_da(s))
<1> DEFINE a == PurgeI(s)
           b == PurgeUI(a)
           c == freewin(b)
           d == stop_t200(c)
           e == DelT203(d)
           f == Tell(e, "DL_RELEASE_IND")
           g == FsmChangeState(f, 4)
<1>1. l2_persistant_da(s) = g
  BY DEF l2_persistant_da
<1> HIDE DEF a, b, c, d, e, f, g
<1>2. Safe(a)
  BY OkPurgeI DEF Ok, Safe, a
<1>3. Safe(b)
  BY <1>2, OkPurgeUI DEF Ok, Safe, b
<1>4. Sane(c)
  BY <1>3, Sane_freewin DEF Safe, c
<1>5. Sane(d)
  BY <1>4, Ok_stop_t200 DEF Ok, d
<1>6. Sane(e)
  BY <1>5, OkDelT203 DEF Ok, e
<1>7. Sane(f)
  BY <1>6, OkTell DEF Ok, Prims, f
<1>8. Sane(g) /\ g.st = 4
  BY <1>7, OkChangeState DEF Good, g
<1> QED BY <1>1, <1>8 DEF Safe

-----------------------------------------------------------------------------
(* Supervisory and information frames *)

LEMMA LegalSelf ==
    ASSUME NEW s, Good(s), NEW nr \in SeqNo, s.va = nr PROVE legalnr(s, nr)
<1>1. s.va \in SeqNo /\ s.vs \in SeqNo
  BY DEF Good, Sane, L2State
<1> QED BY <1>1, DistType, L2Assumption DEF legalnr, Outstanding

LEMMA LegalSame ==
    ASSUME NEW s, NEW t, Same(s, t), NEW nr PROVE legalnr(t, nr) = legalnr(s, nr)
BY DEF Same, legalnr, Outstanding

LEMMA GoodOk == ASSUME NEW s, Good(s), NEW t, Ok(s, t) PROVE Good(t) /\ t.st = s.st
BY DEF Good, Ok

\* setva, then the retransmission of whatever is left.
LEMMA SetvaInvokeGood ==
    ASSUME NEW s, Good(s), NEW nr \in SeqNo, legalnr(s, nr), NEW ds, Written(ds)
    PROVE  LET t == invoke_retransmission(setva(s, nr, ds), nr)
           IN  Good(t) /\ t.st = s.st
<1> DEFINE a == setva(s, nr, ds)
<1>1. Good(a) /\ a.st = s.st /\ a.va = nr
  BY SetvaGood
<1> HIDE DEF a
<1>2. legalnr(a, nr)
  BY <1>1, LegalSelf
<1> QED BY <1>1, <1>2, InvokeGood DEF Keeps, a

\* A frame whose N(R) is a sequence number.
Numbered(f) == f.nr \in SeqNo /\ f.rsp \in BOOLEAN /\ f.pf \in BOOLEAN

LEMMA GotNrGood ==
    ASSUME NEW s, Good(s), NEW f
    PROVE  Good(GotNr(s, f)) /\ GotNr(s, f).st = s.st
BY GoodType, GoodOk, Ok_set_peer_busy, Ok_clear_peer_busy DEF GotNr

LEMMA Safe_l2_st7_got_super ==
    ASSUME NEW s, Good(s), s.st = 7, NEW f, Numbered(f), NEW ds, Written(ds)
    PROVE  Safe(l2_st7_got_super(s, f, ds))
<1> DEFINE s1 == GotNr(s, f)
           s2 == IF ~f.pf THEN s1
                 ELSE IF f.rsp THEN Ask(s1, "A") ELSE enquiry_response(s1)
           a == setva(s2, f.nr, ds)
           rej == RestartT203(stop_t200(invoke_retransmission(a, f.nr)))
           all == RestartT203(stop_t200(a))
           some == restart_t200(IF f.t = "RR" THEN a ELSE DelT203(a))
           s3 == IF f.t = "REJ" THEN rej
                 ELSE IF f.t = "RR" /\ f.nr = s2.vs THEN all
                 ELSE IF f.nr # s2.va \/ f.t = "RNR" THEN some ELSE s2
<1>1. l2_st7_got_super(s, f, ds) =
          IF ~legalnr(s2, f.nr) THEN nrerrorrecovery(s2)
          ELSE IF f.t = "RR" /\ s3.iq # <<>> THEN PullRequest(s3) ELSE s3
  BY DEF l2_st7_got_super
<1> HIDE DEF s1, s2, a, rej, all, some, s3
<1>2. Good(s1) /\ s1.st = 7
  BY GotNrGood DEF s1
<1>3. Good(s2) /\ s2.st = 7
  BY <1>2, GoodType, GoodOk, OkAsk, Ok_enquiry_response DEF Requests, s2
<1>4. CASE ~legalnr(s2, f.nr)
  <2>1. Sane(nrerrorrecovery(s2)) /\ nrerrorrecovery(s2).st = 5
    BY <1>3, GoodType, Safe_nrerrorrecovery
  <2> QED BY <1>1, <1>4, <2>1 DEF Safe
<1>5. CASE legalnr(s2, f.nr)
  <2>1. Good(a) /\ a.st = 7
    BY <1>3, <1>5, SetvaGood DEF Numbered, a
  <2>2. Good(rej)
    <3> DEFINE b == invoke_retransmission(a, f.nr)
               c == stop_t200(b)
    <3>1. rej = RestartT203(c)
      BY DEF rej
    <3>2. Good(b)
      BY <1>3, <1>5, SetvaInvokeGood DEF Numbered, a
    <3> HIDE DEF b
    <3>3. Good(c)
      BY <3>2, GoodType, GoodOk, Ok_stop_t200
    <3> HIDE DEF c
    <3> QED BY <3>1, <3>3, GoodType, GoodOk, OkRestartT203
  <2>3. Good(all)
    <3> DEFINE c == stop_t200(a)
    <3>1. all = RestartT203(c)
      BY DEF all
    <3>2. Good(c)
      BY <2>1, GoodType, GoodOk, Ok_stop_t200
    <3> HIDE DEF c
    <3> QED BY <3>1, <3>2, GoodType, GoodOk, OkRestartT203
  <2>4. Good(some)
    <3> DEFINE c == IF f.t = "RR" THEN a ELSE DelT203(a)
    <3>1. some = restart_t200(c)
      BY DEF some
    <3>2. Good(c)
      BY <2>1, GoodType, GoodOk, OkDelT203
    <3> HIDE DEF c
    <3> QED BY <3>1, <3>2, GoodType, GoodOk, Ok_restart_t200
  <2>5. Good(s3)
    BY <1>3, <2>2, <2>3, <2>4 DEF s3
  <2>6. Good(PullRequest(s3))
    BY <2>5, PullRequestGood
  <2> QED BY <1>1, <1>5, <2>5, <2>6 DEF Safe, Good
<1> QED BY <1>4, <1>5

LEMMA Safe_l2_st8_got_super ==
    ASSUME NEW s, Good(s), s.st = 8, NEW f, Numbered(f), NEW ds, Written(ds)
    PROVE  Safe(l2_st8_got_super(s, f, ds))
<1> DEFINE s1 == GotNr(s, f)
           b == AddT203(stop_t200(s1))
           s2 == IF f.t = "RNR" THEN restart_t200(s1) ELSE setva(b, f.nr, ds)
           c == invoke_retransmission(s2, f.nr)
           s3 == FsmChangeState(c, 7)
           s4 == IF f.pf /\ ~f.rsp THEN enquiry_response(s1) ELSE s1
<1>1. l2_st8_got_super(s, f, ds) =
          IF ~legalnr(s1, f.nr) THEN nrerrorrecovery(s4)
          ELSE IF f.pf /\ f.rsp THEN PullIfWaiting(s3) ELSE setva(s4, f.nr, ds)
  BY DEF l2_st8_got_super
<1> HIDE DEF s1, b, s2, c, s3, s4
<1>2. Good(s1) /\ s1.st = 8 /\ s1 \in L2State
  BY GotNrGood, GoodType DEF s1
<1>3. s4 \in L2State /\ Same(s1, s4) /\ Good(s4)
  <2>1. Same(s1, s4)
    BY <1>2, SameRefl, Same_enquiry_response DEF s4
  <2> QED BY <1>2, <2>1, GoodSame DEF Same
<1>4. CASE ~legalnr(s1, f.nr)
  <2>1. Sane(nrerrorrecovery(s4)) /\ nrerrorrecovery(s4).st = 5
    BY <1>3, GoodType, Safe_nrerrorrecovery
  <2> QED BY <1>1, <1>4, <2>1 DEF Safe
<1>5. CASE legalnr(s1, f.nr)
  <2>1. Same(s1, b) /\ Good(b)
    <3>1. Same(s1, stop_t200(s1)) /\ stop_t200(s1) \in L2State
      BY <1>2, Same_stop_t200 DEF Same
    <3>2. Same(stop_t200(s1), b)
      BY <3>1, SameAddT203 DEF b
    <3> QED BY <1>2, <3>1, <3>2, SameTrans, GoodSame
  <2>2. legalnr(b, f.nr) /\ legalnr(s4, f.nr)
    BY <1>3, <1>5, <2>1, LegalSame
  <2>3. Good(c)
    <3>1. CASE f.t = "RNR"
      <4>1. Same(s1, s2)
        BY <1>2, <3>1, Same_restart_t200 DEF s2
      <4>2. Good(s2) /\ legalnr(s2, f.nr)
        BY <1>2, <1>5, <4>1, GoodSame, LegalSame
      <4> QED BY <4>2, InvokeGood DEF Numbered, c
    <3>2. CASE f.t # "RNR"
      BY <2>1, <2>2, <3>2, SetvaInvokeGood DEF Numbered, c, s2
    <3> QED BY <3>1, <3>2
  <2>4. Good(s3)
    BY <2>3, GoodType, OkChangeState DEF s3
  <2>5. Good(PullIfWaiting(s3))
    BY <2>4, PullIfWaitingGood
  <2>6. Good(setva(s4, f.nr, ds))
    BY <1>3, <2>2, SetvaGood DEF Numbered
  <2> QED BY <1>1, <1>5, <2>5, <2>6 DEF Safe, Good
<1> QED BY <1>4, <1>5

LEMMA SameIncVr ==
    ASSUME NEW s \in L2State
    PROVE  Same(s, [s EXCEPT !.vr = Inc(@), !.rejExc = FALSE])
<1>1. Inc(s.vr) \in SeqNo
  <2>1. s.vr \in SeqNo
    BY DEF L2State
  <2> QED BY <2>1, L2Assumption DEF Inc, SeqNo
<1> QED BY <1>1, ZenonT(60) DEF L2State, Same

LEMMA AcceptGood ==
    ASSUME NEW s, Good(s), NEW f, f.d \in Data, NEW reply, Written(reply)
    PROVE  Good(Accept(s, f, reply)) /\ Accept(s, f, reply).st = s.st
<1> DEFINE a == [s EXCEPT !.vr = Inc(@), !.rejExc = FALSE]
           b == IF f.pf THEN enquiry_response(a) ELSE [a EXCEPT !.ackPend = TRUE]
           c == L2L3(b, "DL_DATA_IND", f.d)
<1>1. Accept(s, f, reply) = Refill(c, reply)
  BY DEF Accept
<1> HIDE DEF a, b, c
<1>2. Good(a) /\ a.st = s.st
  BY GoodType, SameIncVr, GoodSame, ZenonT(60) DEF Keeps, a
<1>3. Good(b) /\ b.st = s.st
  BY <1>2, GoodType, GoodOk, Ok_enquiry_response, OkAckPend DEF b
<1>4. Good(c) /\ c.st = s.st
  BY <1>3, GoodType, GoodOk, OkDeliver DEF c
<1> QED BY <1>1, <1>4, RefillGood DEF Keeps

LEMMA RejectGood ==
    ASSUME NEW s, Good(s), NEW f, f.pf \in BOOLEAN
    PROVE  Good(Reject(s, f)) /\ Reject(s, f).st = s.st
<1>1. CASE s.rejExc
  BY <1>1, GoodType, GoodOk, Ok_enquiry_response DEF Reject
<1>2. CASE ~s.rejExc
  <2> DEFINE a == enquiry_cr(s, "REJ", TRUE, f.pf)
             b == [a EXCEPT !.rejExc = TRUE]
             c == [b EXCEPT !.ackPend = FALSE]
  <2>1. Reject(s, f) = c
    BY <1>2 DEF Reject
  <2> HIDE DEF a, b, c
  <2>2. Good(a) /\ a.st = s.st
    <3>1. Ok(s, a)
      BY GoodType, Ok_enquiry_cr DEF STypes, a
    <3> QED BY <3>1, GoodOk
  <2>3. Good(b) /\ b.st = s.st
    BY <2>2, GoodType, GoodOk, OkRejExc DEF b
  <2>4. Good(c) /\ c.st = s.st
    BY <2>3, GoodType, GoodOk, OkAckPend DEF c
  <2> QED BY <2>1, <2>4
<1> QED BY <1>1, <1>2

LEMMA Safe_l2_got_iframe ==
    ASSUME NEW s, Good(s), s.st \in {7, 8}, NEW f, Numbered(f), f.d \in Data,
           NEW reply, Written(reply), NEW ds, Written(ds)
    PROVE  Safe(l2_got_iframe(s, f, reply, ds))
<1> DEFINE s1 == IF s.vr = f.ns THEN Accept(s, f, reply) ELSE Reject(s, f)
           s2 == IF s1.peerBusy \/ s1.st # 7 THEN s1
                 ELSE IF f.nr = s1.vs THEN RestartT203(stop_t200(s1))
                 ELSE IF f.nr # s1.va THEN restart_t200(s1) ELSE s1
           s3 == setva(s2, f.nr, ds)
           s4 == IF s3.iq # <<>> /\ s3.st = 7 THEN PullRequest(s3) ELSE s3
           s5 == [s4 EXCEPT !.ackPend = FALSE]
           s6 == enquiry_cr(s5, "RR", TRUE, FALSE)
<1>1. l2_got_iframe(s, f, reply, ds) =
          IF ~legalnr(s1, f.nr) THEN nrerrorrecovery(s1)
          ELSE IF s4.ackPend THEN s6 ELSE s4
  BY DEF l2_got_iframe
<1> HIDE DEF s1, s2, s3, s4, s5, s6
<1>2. Good(s1) /\ s1.st = s.st /\ s1 \in L2State
  BY AcceptGood, RejectGood, GoodType DEF Numbered, s1
<1>3. CASE ~legalnr(s1, f.nr)
  <2>1. Sane(nrerrorrecovery(s1)) /\ nrerrorrecovery(s1).st = 5
    BY <1>2, GoodType, Safe_nrerrorrecovery
  <2> QED BY <1>1, <1>3, <2>1 DEF Safe
<1>4. CASE legalnr(s1, f.nr)
  <2>1. Same(s1, s2)
    <3>1. Same(s1, stop_t200(s1)) /\ stop_t200(s1) \in L2State
      BY <1>2, Same_stop_t200 DEF Same
    <3>2. Same(s1, RestartT203(stop_t200(s1)))
      BY <3>1, SameRestartT203, SameTrans
    <3>3. Same(s1, s1) /\ Same(s1, restart_t200(s1))
      BY <1>2, SameRefl, Same_restart_t200
    <3> QED BY <3>2, <3>3 DEF s2
  <2>2. Good(s2) /\ legalnr(s2, f.nr)
    BY <1>2, <1>4, <2>1, GoodSame, LegalSame
  <2>3. Good(s3)
    BY <2>2, SetvaGood DEF Numbered, s3
  <2>4. Good(s4)
    BY <2>3, PullRequestGood DEF s4
  <2>5. Good(s5)
    BY <2>4, GoodType, GoodOk, OkAckPend DEF s5
  <2>6. Good(s6)
    BY <2>5, GoodType, GoodOk, Ok_enquiry_cr DEF STypes, s6
  <2> QED BY <1>1, <1>4, <2>4, <2>6 DEF Safe, Good
<1> QED BY <1>3, <1>4

-----------------------------------------------------------------------------
(* Timers *)

\* The enquiry leaves the retry count alone.
LEMMA EnquiryRc ==
    ASSUME NEW s \in L2State PROVE transmit_enquiry(s).rc = s.rc
<1> DEFINE a == AddTxCnt(s, 1)
           e == enquiry_cr(s, "RR", FALSE, TRUE)
           b == [e EXCEPT !.ackPend = FALSE]
           c == AddT200(b)
<1>1. a \in L2State /\ a.rc = s.rc
  <2>1. a \in L2State
    BY SameAddTxCnt DEF Same
  <2>2. CASE LAPD
    BY <2>2 DEF AddTxCnt
  <2>3. CASE ~LAPD
    <3>1. a = [s EXCEPT !.cnt = @ + 1]
      BY <2>3 DEF AddTxCnt
    <3> HIDE DEF a
    <3> QED BY <2>1, <3>1 DEF L2State
  <2> QED BY <2>1, <2>2, <2>3
<1> HIDE DEF a
<1>2. e \in L2State /\ e.rc = s.rc
  <2>1. e \in L2State
    BY Same_enquiry_cr DEF Same, STypes
  <2>2. e.rc = a.rc
    BY <1>1 DEF enquiry_cr, enqueue_super, Send, a, L2State
  <2> QED BY <1>1, <2>1, <2>2
<1>3. transmit_enquiry(s) = [c EXCEPT !.t200Run = TRUE]
  BY DEF transmit_enquiry, start_t200
<1> HIDE DEF e
<1>4. b \in L2State /\ b.rc = s.rc
  BY <1>2, ZenonT(60) DEF L2State
<1> HIDE DEF b
<1>5. c \in L2State /\ c.rc = s.rc
  <2>1. c \in L2State
    BY <1>4, SameAddT200 DEF Same
  <2> DEFINE w == Warn(b, b.t200, "timer already active")
  <2>2. w \in L2State /\ w.rc = b.rc
    <3>1. b.t200 \in BOOLEAN
      BY <1>4 DEF L2State
    <3>2. w.rc = b.rc
      BY <1>4, <3>1, WarnFields
    <3>3. Same(b, w)
      BY <1>4, <3>1, SameWarn DEF Warnings
    <3> QED BY <3>2, <3>3 DEF Same
  <2>3. c = [w EXCEPT !.t200 = TRUE]
    BY DEF AddT200
  <2> HIDE DEF w, c
  <2> QED BY <1>4, <2>1, <2>2, <2>3 DEF L2State
<1> HIDE DEF c
<1> QED BY <1>3, <1>5 DEF L2State

LEMMA OkRcInc ==
    ASSUME NEW s, Sane(s), s.rc # N200 PROVE Ok(s, [s EXCEPT !.rc = @ + 1])
<1>1. s.rc + 1 \in 0 .. N200
  BY SaneType, L2Assumption DEF L2State
<1> QED BY <1>1, SaneType, OkSame, SameRc

LEMMA Safe_l2_st5_tout_200 ==
    ASSUME NEW s, Safe(s)
    PROVE  Safe(l2_st5_tout_200(s))
<1>1. CASE DChanWait(s)
  <2> DEFINE a == AddT200(s)
  <2>1. l2_st5_tout_200(s) = a
    BY <1>1 DEF l2_st5_tout_200
  <2> HIDE DEF a
  <2>2. Safe(a)
    BY OkAddT200 DEF Ok, Safe, a
  <2> QED BY <2>1, <2>2
<1>2. CASE ~DChanWait(s) /\ s.rc = N200
  <2> DEFINE a == FsmChangeState(s, 4)
             b == [a EXCEPT !.t200Run = FALSE]
             c == PurgeI(b)
             d == Ask(c, "G")
             e == IF LAPD THEN d ELSE Ask(d, "PH_DEACTIVATE")
             f == st5_dl_release_l2l3(e)
  <2>1. l2_st5_tout_200(s) = f
    BY <1>2 DEF l2_st5_tout_200
  <2> HIDE DEF a, b, c, d, e, f
  <2>2. Sane(a) /\ a.st = 4
    BY OkChangeState DEF Good, Safe, a
  <2>3. Sane(b) /\ b.st = 4
    BY <2>2, OkT200Run DEF Ok, b
  <2>4. Sane(c) /\ c.st = 4
    BY <2>3, OkPurgeI DEF Ok, c
  <2>5. Sane(d) /\ d.st = 4
    BY <2>4, OkAsk DEF Ok, Requests, d
  <2>6. Sane(e) /\ e.st = 4
    BY <2>5, OkAsk DEF Ok, Requests, e
  <2>7. Sane(f) /\ f.st = 4
    BY <2>6, Ok_st5_dl_release_l2l3 DEF Ok, f
  <2> QED BY <2>1, <2>7 DEF Safe
<1>3. CASE ~DChanWait(s) /\ s.rc # N200
  <2> DEFINE a == [s EXCEPT !.rc = @ + 1]
             b == AddT200(a)
             c == send_uframe(b, "SABME", FALSE, TRUE)
  <2>1. l2_st5_tout_200(s) = c
    BY <1>3 DEF l2_st5_tout_200
  <2> HIDE DEF a, b, c
  <2>2. Safe(a)
    BY <1>3, OkRcInc DEF Ok, Safe, a
  <2>3. Safe(b)
    BY <2>2, OkAddT200 DEF Ok, Safe, b
  <2>4. Safe(c)
    BY <2>3, Ok_send_uframe DEF Ok, Safe, UTypes, c
  <2> QED BY <2>1, <2>4
<1> QED BY <1>1, <1>2, <1>3

LEMMA Safe_l2_st6_tout_200 ==
    ASSUME NEW s, Safe(s)
    PROVE  Safe(l2_st6_tout_200(s))
<1>1. CASE DChanWait(s)
  <2> DEFINE a == AddT200(s)
  <2>1. l2_st6_tout_200(s) = a
    BY <1>1 DEF l2_st6_tout_200
  <2> HIDE DEF a
  <2>2. Safe(a)
    BY OkAddT200 DEF Ok, Safe, a
  <2> QED BY <2>1, <2>2
<1>2. CASE ~DChanWait(s) /\ s.rc = N200
  <2> DEFINE a == FsmChangeState(s, 4)
             b == [a EXCEPT !.t200Run = FALSE]
             c == Ask(b, "H")
             d == lapb_dl_release_l2l3(c, "DL_RELEASE_CNF")
  <2>1. l2_st6_tout_200(s) = d
    BY <1>2 DEF l2_st6_tout_200
  <2> HIDE DEF a, b, c, d
  <2>2. Sane(a) /\ a.st = 4
    BY OkChangeState DEF Good, Safe, a
  <2>3. Sane(b) /\ b.st = 4
    BY <2>2, OkT200Run DEF Ok, b
  <2>4. Sane(c) /\ c.st = 4
    BY <2>3, OkAsk DEF Ok, Requests, c
  <2>5. Sane(d) /\ d.st = 4
    BY <2>4, Ok_lapb_dl_release_l2l3 DEF Ok, Prims, d
  <2> QED BY <2>1, <2>5 DEF Safe
<1>3. CASE ~DChanWait(s) /\ s.rc # N200
  <2> DEFINE a == [s EXCEPT !.rc = @ + 1]
             b == AddT200(a)
             c == send_uframe(b, "DISC", FALSE, TRUE)
  <2>1. l2_st6_tout_200(s) = c
    BY <1>3 DEF l2_st6_tout_200
  <2> HIDE DEF a, b, c
  <2>2. Safe(a)
    BY <1>3, OkRcInc DEF Ok, Safe, a
  <2>3. Safe(b)
    BY <2>2, OkAddT200 DEF Ok, Safe, b
  <2>4. Safe(c)
    BY <2>3, Ok_send_uframe DEF Ok, Safe, UTypes, c
  <2> QED BY <2>1, <2>4
<1> QED BY <1>1, <1>2, <1>3

LEMMA Safe_l2_st7_tout_200 ==
    ASSUME NEW s, Safe(s), s.st = 7 PROVE Safe(l2_st7_tout_200(s))
<1>1. CASE DChanWait(s)
  BY <1>1, SafeSt, OkAddT200, SafeOk DEF l2_st7_tout_200
<1>2. CASE ~DChanWait(s)
  <2> DEFINE a == [s EXCEPT !.t200Run = FALSE]
             b == FsmChangeState(a, 8)
             c == transmit_enquiry(b)
             d == [c EXCEPT !.rc = 1]
  <2>1. l2_st7_tout_200(s) = d
    BY <1>2 DEF l2_st7_tout_200
  <2> HIDE DEF a, b, c, d
  <2>2. Good(a)
    BY SafeSt, GoodOk, OkT200Run DEF a
  <2>3. Good(b)
    BY <2>2, GoodType, OkChangeState DEF b
  <2>4. Good(c)
    BY <2>3, GoodType, GoodOk, Ok_transmit_enquiry DEF c
  <2>5. Good(d)
    BY <2>4, GoodType, GoodOk, OkRc, Zero DEF d
  <2> QED BY <2>1, <2>5 DEF Safe, Good
<1> QED BY <1>1, <1>2

LEMMA Safe_l2_st8_tout_200 ==
    ASSUME NEW s, Safe(s), s.st = 8 PROVE Safe(l2_st8_tout_200(s))
<1> DEFINE a == [s EXCEPT !.t200Run = FALSE]
           b == Ask(a, "I")
           c == transmit_enquiry(a)
           d == [c EXCEPT !.rc = @ + 1]
<1>1. l2_st8_tout_200(s) = IF DChanWait(s) THEN AddT200(s)
                           ELSE IF s.rc = N200 THEN Reestablish(b) ELSE d
  BY DEF l2_st8_tout_200
<1>2. Good(a) /\ a.rc = s.rc /\ a \in L2State
  <2>1. Good(a)
    BY SafeSt, GoodOk, OkT200Run
  <2>2. a \in L2State /\ s \in L2State
    BY <2>1, SafeSt, GoodType
  <2>3. a.rc = s.rc
    BY <2>2 DEF L2State
  <2> QED BY <2>1, <2>2, <2>3
<1> HIDE DEF a, b, c, d
<1>3. Good(AddT200(s))
  BY SafeSt, GoodOk, OkAddT200
<1>4. Sane(Reestablish(b)) /\ Reestablish(b).st = 5
  <2>1. Sane(b)
    BY <1>2, GoodType, OkAsk DEF Ok, Requests, b
  <2> QED BY <2>1, SafeReestablish
<1>5. CASE s.rc # N200
  <2>1. Good(c) /\ c.rc = s.rc
    BY <1>2, GoodType, GoodOk, Ok_transmit_enquiry, EnquiryRc DEF c
  <2>2. Good(d)
    BY <1>5, <2>1, GoodType, GoodOk, OkRcInc DEF d
  <2> QED BY <1>1, <1>3, <1>5, <2>2 DEF Safe, Good
<1>6. CASE s.rc = N200
  BY <1>1, <1>3, <1>4, <1>6 DEF Safe, Good
<1> QED BY <1>5, <1>6

LEMMA Safe_l2_st7_tout_203 ==
    ASSUME NEW s, Safe(s), s.st = 7 PROVE Safe(l2_st7_tout_203(s))
<1>1. CASE DChanWait(s)
  BY <1>1, SafeSt, OkAddT203, SafeOk DEF l2_st7_tout_203
<1>2. CASE ~DChanWait(s)
  <2> DEFINE a == FsmChangeState(s, 8)
             b == transmit_enquiry(a)
             c == [b EXCEPT !.rc = 0]
  <2>1. l2_st7_tout_203(s) = c
    BY <1>2 DEF l2_st7_tout_203
  <2> HIDE DEF a, b, c
  <2>2. Good(a)
    BY SafeSt, OkChangeState DEF a
  <2>3. Good(b)
    BY <2>2, GoodType, GoodOk, Ok_transmit_enquiry DEF b
  <2>4. Good(c)
    BY <2>3, GoodType, GoodOk, OkRc, Zero DEF c
  <2> QED BY <2>1, <2>4 DEF Safe, Good
<1> QED BY <1>1, <1>2

-----------------------------------------------------------------------------
(* The rows of L2FnList *)

LEMMA Safe_l2_send_UA ==
    ASSUME NEW s, Safe(s), NEW pf \in BOOLEAN PROVE Safe(l2_send_UA(s, pf))
BY SafeSt, SafeOk, Ok_send_uframe DEF UTypes, l2_send_UA
LEMMA Safe_l2_send_DM ==
    ASSUME NEW s, Safe(s), NEW pf \in BOOLEAN PROVE Safe(l2_send_DM(s, pf))
BY SafeSt, SafeOk, Ok_send_uframe DEF UTypes, l2_send_DM
LEMMA SafeTell == ASSUME NEW s, Safe(s), NEW p \in Prims PROVE Safe(Tell(s, p))
BY SafeSt, SafeOk, OkTell
LEMMA SafeAsk == ASSUME NEW s, Safe(s), NEW r \in Requests PROVE Safe(Ask(s, r))
BY SafeSt, SafeOk, OkAsk

LEMMA SafeEvSABME ==
    ASSUME NEW s, Safe(s), NEW f, f.pf \in BOOLEAN
    PROVE  Safe(EvSABME(s, f))
<1>1. CASE s.st = 4
  <2>1. Safe(l2_start_multi(s, f.pf))
    BY <1>1, SafeSt, Safe_l2_start_multi DEF Safe, Good
  <2> QED BY <1>1, <2>1 DEF EvSABME
<1>2. CASE s.st = 5
  <2>1. Safe(l2_send_UA(s, f.pf))
    BY <1>2, Safe_l2_send_UA
  <2> QED BY <1>2, <2>1 DEF EvSABME
<1>3. CASE s.st = 6
  <2>1. Safe(l2_send_DM(s, f.pf))
    BY <1>3, Safe_l2_send_DM
  <2> QED BY <1>3, <2>1 DEF EvSABME
<1>4. CASE s.st \in {7, 8}
  <2>1. Safe(l2_restart_multi(s, f.pf))
    BY <1>4, SafeSt, Good_l2_restart_multi DEF Safe, Good
  <2> QED BY <1>4, <2>1 DEF EvSABME
<1>5. CASE s.st \notin 4 .. 8
  BY <1>5 DEF EvSABME
<1> QED BY <1>1, <1>2, <1>3, <1>4, <1>5

LEMMA SafeEvDISC ==
    ASSUME NEW s, Safe(s), NEW f, f.pf \in BOOLEAN
    PROVE  Safe(EvDISC(s, f))
<1>1. CASE s.st \in {4, 5}
  <2>1. Safe(l2_send_DM(s, f.pf))
    BY <1>1, Safe_l2_send_DM
  <2> QED BY <1>1, <2>1 DEF EvDISC
<1>2. CASE s.st = 6
  <2>1. Safe(l2_send_UA(s, f.pf))
    BY <1>2, Safe_l2_send_UA
  <2> QED BY <1>2, <2>1 DEF EvDISC
<1>3. CASE s.st \in {7, 8}
  <2>1. Safe(l2_stop_multi(s, f.pf))
    BY <1>3, SafeSt, Safe_l2_stop_multi DEF Safe
  <2> QED BY <1>3, <2>1 DEF EvDISC
<1>4. CASE s.st \notin 4 .. 8
  BY <1>4 DEF EvDISC
<1> QED BY <1>1, <1>2, <1>3, <1>4

LEMMA SafeEvUA ==
    ASSUME NEW s, Safe(s), NEW f, f.pf \in BOOLEAN
    PROVE  Safe(EvUA(s, f))
<1>1. CASE s.st \in {4, 7, 8}
  <2>1. Safe(l2_mdl_error_ua(s, f.pf))
    BY <1>1, Safe_l2_mdl_error_ua
  <2> QED BY <1>1, <2>1 DEF EvUA
<1>2. CASE s.st = 5
  <2>1. Safe(l2_connected(s, f.pf))
    BY <1>2, Safe_l2_connected
  <2> QED BY <1>2, <2>1 DEF EvUA
<1>3. CASE s.st = 6
  <2>1. Safe(l2_released(s, f.pf))
    BY <1>3, Safe_l2_released
  <2> QED BY <1>3, <2>1 DEF EvUA
<1>4. CASE s.st \notin 4 .. 8
  BY <1>4 DEF EvUA
<1> QED BY <1>1, <1>2, <1>3, <1>4

LEMMA SafeEvDM ==
    ASSUME NEW s, Safe(s), NEW f, f.pf \in BOOLEAN
    PROVE  Safe(EvDM(s, f))
<1>1. CASE s.st = 4
  <2>1. Safe(l2_reestablish(s, f.pf))
    BY <1>1, Safe_l2_reestablish
  <2> QED BY <1>1, <2>1 DEF EvDM
<1>2. CASE s.st = 5
  <2>1. Safe(l2_st5_dm_release(s, f.pf))
    BY <1>2, Safe_l2_st5_dm_release
  <2> QED BY <1>2, <2>1 DEF EvDM
<1>3. CASE s.st = 6
  <2>1. Safe(l2_st6_dm_release(s, f.pf))
    BY <1>3, Safe_l2_st6_dm_release
  <2> QED BY <1>3, <2>1 DEF EvDM
<1>4. CASE s.st = 7
  <2>1. Safe(l2_mdl_error_dm(s, f.pf))
    BY <1>4, Safe_l2_mdl_error_dm
  <2> QED BY <1>4, <2>1 DEF EvDM
<1>5. CASE s.st = 8
  <2>1. Safe(l2_st8_mdl_error_dm(s, f.pf))
    BY <1>5, Safe_l2_st8_mdl_error_dm
  <2> QED BY <1>5, <2>1 DEF EvDM
<1>6. CASE s.st \notin 4 .. 8
  BY <1>6 DEF EvDM
<1> QED BY <1>1, <1>2, <1>3, <1>4, <1>5, <1>6

LEMMA SafeEvFRMR ==
    ASSUME NEW s, Safe(s), NEW rejected
    PROVE  Safe(EvFRMR(s, rejected))
<1>1. CASE s.st \in {7, 8}
  <2>1. Safe(l2_got_FRMR(s, rejected))
    BY <1>1, Safe_l2_got_FRMR
  <2> QED BY <1>1, <2>1 DEF EvFRMR
<1>2. CASE s.st \notin {7, 8}
  BY <1>2 DEF EvFRMR
<1> QED BY <1>1, <1>2

LEMMA SafeEvSuper ==
    ASSUME NEW s, Safe(s), NEW f, Numbered(f), NEW ds, Written(ds)
    PROVE  Safe(EvSuper(s, f, ds))
<1>1. CASE s.st = 7
  <2>1. Safe(l2_st7_got_super(s, f, ds))
    BY <1>1, SafeSt, Safe_l2_st7_got_super
  <2> QED BY <1>1, <2>1 DEF EvSuper
<1>2. CASE s.st = 8
  <2>1. Safe(l2_st8_got_super(s, f, ds))
    BY <1>2, SafeSt, Safe_l2_st8_got_super
  <2> QED BY <1>2, <2>1 DEF EvSuper
<1>3. CASE s.st \notin {7, 8}
  BY <1>3 DEF EvSuper
<1> QED BY <1>1, <1>2, <1>3

LEMMA SafeEvI ==
    ASSUME NEW s, Safe(s), NEW f, Numbered(f), f.d \in Data,
           NEW reply, Written(reply), NEW ds, Written(ds)
    PROVE  Safe(EvI(s, f, reply, ds))
<1>1. CASE s.st \in {7, 8}
  <2>1. Safe(l2_got_iframe(s, f, reply, ds))
    BY <1>1, SafeSt, Safe_l2_got_iframe
  <2> QED BY <1>1, <2>1 DEF EvI
<1>2. CASE s.st \notin {7, 8}
  BY <1>2 DEF EvI
<1> QED BY <1>1, <1>2

LEMMA SafeEvUI == ASSUME NEW s, Safe(s) PROVE Safe(EvUI(s))
BY SafeSt, SafeOk, OkTell DEF EvUI, Prims

LEMMA SafeEvFrameError ==
    ASSUME NEW s, Safe(s)
    PROVE  Safe(EvFrameError(s))
<1>1. CASE s.st \in {4, 5, 6}
  <2>1. Safe(Ask(s, "L"))
    BY <1>1, SafeAsk DEF Requests
  <2> QED BY <1>1, <2>1 DEF EvFrameError
<1>2. CASE s.st \in {7, 8}
  <2>1. Safe(Reestablish(Ask(s, "L")))
    BY <1>2, SafeAsk, SafeSt, SafeReestablish DEF Safe, Requests
  <2> QED BY <1>2, <2>1 DEF EvFrameError
<1>3. CASE s.st \notin 4 .. 8
  BY <1>3 DEF EvFrameError
<1> QED BY <1>1, <1>2, <1>3

LEMMA SafeEvDlEstablish == ASSUME NEW s, Safe(s) PROVE Safe(EvDlEstablish(s))
<1>1. CASE s.st = 1
  <2>1. Sane(FsmChangeState(s, 3)) /\ FsmChangeState(s, 3).st = 3
    BY SafeSt, OkChangeState
  <2>2. Ok(FsmChangeState(s, 3), Ask(FsmChangeState(s, 3), "MDL_ASSIGN"))
    BY <2>1, OkAsk DEF Requests
  <2> QED BY <1>1, <2>1, <2>2 DEF EvDlEstablish, Ok, Safe
<1>2. CASE s.st = 2
  BY <1>2, SafeSt, OkChangeState DEF EvDlEstablish, Safe
<1>3. CASE s.st = 4
  BY <1>3, SafeSt, Safe_l2_establish DEF EvDlEstablish, Safe
<1>4. CASE s.st = 5
  <2> DEFINE a == PurgeI(s)
             b == [a EXCEPT !.l3Init = TRUE]
             c == [b EXCEPT !.pendRel = FALSE]
  <2>1. EvDlEstablish(s) = c
    BY <1>4 DEF EvDlEstablish
  <2> HIDE DEF a, b, c
  <2>2. Safe(a)
    BY SafeSt, SafeOk, OkPurgeI DEF a
  <2>3. Safe(b)
    BY <2>2, SafeSt, SafeOk, OkL3Init DEF b
  <2>4. Safe(c)
    BY <2>3, SafeSt, SafeOk, OkPendRel DEF c
  <2> QED BY <2>1, <2>4
<1>5. CASE s.st \in {7, 8}
  BY <1>5, SafeSt, Safe_l2_l3_reestablish DEF EvDlEstablish, Safe
<1>6. CASE s.st \notin {1, 2, 4, 5, 7, 8}
  BY <1>6 DEF EvDlEstablish
<1> QED BY <1>1, <1>2, <1>3, <1>4, <1>5, <1>6

LEMMA SafeEvDlRelease ==
    ASSUME NEW s, Safe(s)
    PROVE  Safe(EvDlRelease(s))
<1>1. CASE s.st = 4
  <2>1. Safe(Tell(s, "DL_RELEASE_CNF"))
    BY <1>1, SafeTell DEF Prims
  <2> QED BY <1>1, <2>1 DEF EvDlRelease
<1>2. CASE s.st = 5
  <2>1. Safe([s EXCEPT !.pendRel = TRUE])
    BY <1>2, SafeSt, SafeOk, OkPendRel
  <2> QED BY <1>2, <2>1 DEF EvDlRelease
<1>3. CASE s.st \in {7, 8}
  <2>1. Safe(l2_disconnect(s))
    BY <1>3, SafeSt, Safe_l2_disconnect DEF Safe
  <2> QED BY <1>3, <2>1 DEF EvDlRelease
<1>4. CASE s.st \notin {4, 5, 7, 8}
  BY <1>4 DEF EvDlRelease
<1> QED BY <1>1, <1>2, <1>3, <1>4

LEMMA SafeEvDlData ==
    ASSUME NEW s, Safe(s), NEW d \in Data
    PROVE  Safe(EvDlData(s, d))
<1>1. CASE s.st \in {7, 8}
  BY <1>1, SafeSt, DlDataGood DEF Safe, Good
<1>2. CASE s.st = 5
  <2> DEFINE c == AddTxCnt(s, 1)
             q == [c EXCEPT !.iq = Append(@, d)]
  <2>1. EvDlData(s, d) \in {c, q}
    BY <1>2 DEF EvDlData
  <2>2. Same(s, c) /\ Same(s, q)
    BY SafeSt, DlDataSame
  <2> HIDE DEF c, q
  <2> QED BY <2>1, <2>2, SafeSt, OkSame, SafeOk
<1>3. CASE s.st \notin {5, 7, 8}
  BY <1>3 DEF EvDlData
<1> QED BY <1>1, <1>2, <1>3

LEMMA SafeEvDlUnitData == ASSUME NEW s, Safe(s) PROVE Safe(EvDlUnitData(s))
<1> DEFINE a == [s EXCEPT !.ui = @ + 1]
<1>1. Safe(a) /\ a.st = s.st
  <2>1. s \in L2State /\ s.ui + 1 \in Nat
    <3>1. s.ui \in Nat
      BY SafeSt DEF L2State
    <3> QED BY <3>1, SafeSt
  <2>2. a = [s EXCEPT !.ui = s.ui + 1]
    OBVIOUS
  <2> HIDE DEF a
  <2>3. Same(s, a)
    BY <2>1, <2>2, ZenonT(60) DEF L2State, Same
  <2>4. Ok(s, a)
    BY <2>3, SafeSt, OkSame
  <2> QED BY <2>4, SafeOk DEF Ok
<1>2. CASE s.st = 1
  <2> DEFINE b == FsmChangeState(a, 2)
  <2>1. EvDlUnitData(s) = Ask(b, "MDL_ASSIGN")
    BY <1>2 DEF EvDlUnitData
  <2> HIDE DEF a, b
  <2>2. Sane(b) /\ b.st = 2
    BY <1>1, SafeSt, OkChangeState DEF b
  <2> QED BY <2>1, <2>2, OkAsk DEF Ok, Safe, Requests
<1>3. CASE s.st \in {2, 3}
  BY <1>1, <1>3 DEF EvDlUnitData
<1>4. CASE s.st \notin {1, 2, 3}
  <2>1. EvDlUnitData(s) = tx_ui(a)
    BY <1>4 DEF EvDlUnitData
  <2> HIDE DEF a
  <2> QED BY <1>1, <2>1, SafeSt, SafeOk, Ok_tx_ui
<1> QED BY <1>2, <1>3, <1>4

LEMMA SafeEvMdlAssign ==
    ASSUME NEW s, Safe(s)
    PROVE  Safe(EvMdlAssign(s))
<1>1. CASE s.st \in {1, 2, 3}
  <2>1. Safe(l2_got_tei(s))
    BY <1>1, Safe_l2_got_tei
  <2> QED BY <1>1, <2>1 DEF EvMdlAssign
<1>2. CASE s.st \notin {1, 2, 3}
  BY <1>2 DEF EvMdlAssign
<1> QED BY <1>1, <1>2

LEMMA SafeEvMdlError ==
    ASSUME NEW s, Safe(s)
    PROVE  Safe(EvMdlError(s))
<1>1. CASE s.st = 2
  <2>1. Safe(l2_st24_tei_remove(s))
    BY <1>1, Safe_l2_st24_tei_remove
  <2> QED BY <1>1, <2>1 DEF EvMdlError
<1>2. CASE s.st = 3
  <2>1. Safe(l2_st3_tei_remove(s))
    BY <1>2, Safe_l2_st3_tei_remove
  <2> QED BY <1>2, <2>1 DEF EvMdlError
<1>3. CASE s.st \notin {2, 3}
  BY <1>3 DEF EvMdlError
<1> QED BY <1>1, <1>2, <1>3

LEMMA SafeEvMdlRemove ==
    ASSUME NEW s, Safe(s)
    PROVE  Safe(EvMdlRemove(s))
<1>1. CASE s.st = 4
  <2>1. Safe(l2_st24_tei_remove(s))
    BY <1>1, Safe_l2_st24_tei_remove
  <2> QED BY <1>1, <2>1 DEF EvMdlRemove
<1>2. CASE s.st = 5
  <2>1. Safe(l2_st5_tei_remove(s))
    BY <1>2, Safe_l2_st5_tei_remove
  <2> QED BY <1>2, <2>1 DEF EvMdlRemove
<1>3. CASE s.st = 6
  <2>1. Safe(l2_st6_tei_remove(s))
    BY <1>3, Safe_l2_st6_tei_remove
  <2> QED BY <1>3, <2>1 DEF EvMdlRemove
<1>4. CASE s.st \in {7, 8}
  <2>1. Safe(l2_tei_remove(s))
    BY <1>4, Safe_l2_tei_remove
  <2> QED BY <1>4, <2>1 DEF EvMdlRemove
<1>5. CASE s.st \notin 4 .. 8
  BY <1>5 DEF EvMdlRemove
<1> QED BY <1>1, <1>2, <1>3, <1>4, <1>5

LEMMA SafeEvL1Deactivate ==
    ASSUME NEW s, Safe(s)
    PROVE  Safe(EvL1Deactivate(s))
<1>1. CASE s.st \in {1, 4}
  <2>1. Safe(l2_st14_persistant_da(s))
    BY <1>1, Safe_l2_st14_persistant_da
  <2> QED BY <1>1, <2>1 DEF EvL1Deactivate
<1>2. CASE s.st = 2
  <2>1. Safe(l2_st24_tei_remove(s))
    BY <1>2, Safe_l2_st24_tei_remove
  <2> QED BY <1>2, <2>1 DEF EvL1Deactivate
<1>3. CASE s.st = 3
  <2>1. Safe(l2_st3_tei_remove(s))
    BY <1>3, Safe_l2_st3_tei_remove
  <2> QED BY <1>3, <2>1 DEF EvL1Deactivate
<1>4. CASE s.st = 5
  <2>1. Safe(l2_st5_persistant_da(s))
    BY <1>4, Safe_l2_st5_persistant_da
  <2> QED BY <1>4, <2>1 DEF EvL1Deactivate
<1>5. CASE s.st = 6
  <2>1. Safe(l2_st6_persistant_da(s))
    BY <1>5, Safe_l2_st6_persistant_da
  <2> QED BY <1>5, <2>1 DEF EvL1Deactivate
<1>6. CASE s.st \notin 1 .. 6
  <2>1. Safe(l2_persistant_da(s))
    BY <1>6, Safe_l2_persistant_da
  <2> QED BY <1>6, <2>1 DEF EvL1Deactivate
<1> QED BY <1>1, <1>2, <1>3, <1>4, <1>5, <1>6

LEMMA SafeEvT200 == ASSUME NEW s, Safe(s) PROVE Safe(EvT200(s))
<1> DEFINE a == [s EXCEPT !.t200 = FALSE]
<1>1. Safe(a) /\ a.st = s.st
  BY SafeSt, SafeOk, OkT200 DEF Ok
<1>2. EvT200(s) = CASE a.st = 5 -> l2_st5_tout_200(a)
                    [] a.st = 6 -> l2_st6_tout_200(a)
                    [] a.st = 7 -> l2_st7_tout_200(a)
                    [] a.st = 8 -> l2_st8_tout_200(a)
                    [] OTHER -> a
  BY DEF EvT200
<1> HIDE DEF a
<1>3. CASE a.st = 5
  BY <1>1, <1>2, <1>3, Safe_l2_st5_tout_200
<1>4. CASE a.st = 6
  BY <1>1, <1>2, <1>4, Safe_l2_st6_tout_200
<1>5. CASE a.st = 7
  BY <1>1, <1>2, <1>5, Safe_l2_st7_tout_200
<1>6. CASE a.st = 8
  BY <1>1, <1>2, <1>6, Safe_l2_st8_tout_200
<1>7. CASE a.st \notin 5 .. 8
  BY <1>1, <1>2, <1>7
<1> QED BY <1>3, <1>4, <1>5, <1>6, <1>7

LEMMA SafeEvT203 == ASSUME NEW s, Safe(s) PROVE Safe(EvT203(s))
<1> DEFINE a == [s EXCEPT !.t203 = FALSE]
<1>1. Safe(a) /\ a.st = s.st
  BY SafeSt, SafeOk, OkT203 DEF Ok
<1>2. EvT203(s) = IF a.st = 7 THEN l2_st7_tout_203(a) ELSE a
  BY DEF EvT203
<1> HIDE DEF a
<1> QED BY <1>1, <1>2, Safe_l2_st7_tout_203

-----------------------------------------------------------------------------
(* Primitives *)

LEMMA SafePhActivate == ASSUME NEW s, Safe(s) PROVE Safe(PhActivate(s))
<1> DEFINE a == [s EXCEPT !.l1Activ = TRUE]
           b == [a EXCEPT !.estabPend = FALSE]
<1>1. PhActivate(s) = IF s.estabPend THEN EvDlEstablish(b) ELSE b
  BY DEF PhActivate
<1> HIDE DEF a, b
<1>2. Safe(a)
  BY SafeSt, SafeOk, OkL1Activ DEF a
<1>3. Safe(b)
  BY <1>2, SafeSt, SafeOk, OkEstabPend DEF b
<1> QED BY <1>1, <1>3, SafeEvDlEstablish

LEMMA SafePhDeactivate == ASSUME NEW s, Safe(s) PROVE Safe(PhDeactivate(s))
<1>1. Safe([s EXCEPT !.l1Activ = FALSE])
  BY SafeSt, SafeOk, OkL1Activ
<1> QED BY <1>1, SafeEvL1Deactivate DEF PhDeactivate

LEMMA SafeDlEstablishReq == ASSUME NEW s, Safe(s) PROVE Safe(DlEstablishReq(s))
<1>1. CASE s.l1Activ
  BY <1>1, SafeEvDlEstablish DEF DlEstablishReq
<1>2. CASE ~s.l1Activ
  <2> DEFINE e == s.estabPend \/ (LAPD \/ s.orig)
             a == [s EXCEPT !.estabPend = e]
  <2>1. DlEstablishReq(s) = Ask(a, "PH_ACTIVATE")
    BY <1>2 DEF DlEstablishReq
  <2>2. e \in BOOLEAN
    OBVIOUS
  <2> HIDE DEF e, a
  <2>3. Safe(a)
    BY <2>2, SafeSt, SafeOk, OkEstabPend DEF a
  <2> QED BY <2>1, <2>3, SafeSt, SafeOk, OkAsk DEF Requests
<1> QED BY <1>1, <1>2

LEMMA SafeDlReleaseReq == ASSUME NEW s, Safe(s) PROVE Safe(DlReleaseReq(s))
<1>1. Safe(Ask(s, "PH_DEACTIVATE"))
  BY SafeSt, SafeOk, OkAsk DEF Requests
<1> QED BY <1>1, SafeEvDlRelease DEF DlReleaseReq

LEMMA SafePhPause ==
    ASSUME NEW s, Safe(s), NEW b \in BOOLEAN PROVE Safe(PhPause(s, b))
BY SafeSt, SafeOk, OkDchanBusy DEF PhPause

LEMMA SafePhTxDone == ASSUME NEW s, Safe(s) PROVE Safe(PhTxDone(s))
BY SafeSt, SafeOk, OkTxBusy DEF PhTxDone

LEMMA SafePhPullConfirm == ASSUME NEW s, Safe(s) PROVE Safe(PhPullConfirm(s))
<1> DEFINE a == [s EXCEPT !.pullReq = FALSE]
<1>1. Safe(a)
  BY SafeSt, SafeOk, OkPullReq
<1>2. PhPullConfirm(s) = AckPull(a)
  BY DEF PhPullConfirm
<1> HIDE DEF a
<1>3. CASE a.st = 7
  BY <1>1, <1>2, <1>3, SafeSt, PullGood DEF AckPull, Safe, Good
<1>4. CASE a.st # 7
  BY <1>1, <1>2, <1>4 DEF AckPull
<1> QED BY <1>3, <1>4

LEMMA SafeInitL2 ==
    ASSUME NEW orig \in BOOLEAN
    PROVE  Safe(InitL2(orig)) /\ "null skb" \notin InitL2(orig).warn
<1>1. EmptyWin \in [Slots -> Data \cup {NoSkb}]
  BY DEF EmptyWin
<1>2. <<>> \in Seq(Data) /\ <<>> \in Seq(Frame)
      /\ <<>> \in Seq([p : Prims, d : Data \cup {NoSkb}])
  OBVIOUS
<1>3. InitL2(orig) \in L2State
  BY <1>1, <1>2, Zero, L2Assumption DEF InitL2, L2State
<1>4. InitL2(orig).st \in {1, 4} /\ InitL2(orig).warn = {}
  BY DEF InitL2
<1> QED BY <1>3, <1>4 DEF Safe, Sane

\* A step begins as sound as the last one ended.
LEMMA SafeFresh == ASSUME NEW s, Safe(s) PROVE Safe(Fresh(s))
<1>1. <<>> \in Seq(Frame) /\ <<>> \in Seq([p : Prims, d : Data \cup {NoSkb}])
  OBVIOUS
<1>2. Same(s, Fresh(s))
  <2>1. s \in L2State
    BY SafeSt
  <2>2. {} \in SUBSET Requests /\ {} \in SUBSET Warnings
    OBVIOUS
  <2> QED BY <1>1, <2>1, <2>2 DEF Fresh, L2State, Same
<1> QED BY <1>2, SafeSt, OkSame, SafeOk
=============================================================================

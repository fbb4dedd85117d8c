------------------------------ MODULE BChan_proof ------------------------------
(***************************************************************************)
(* What a B channel holds: tx_cnt counts every frame that waits, and the   *)
(* queue and the window of LAPB stay below the limit of                    *)
(* HiSax_writebuf_skb and one window.  Each handler of layer 2 is shown to *)
(* hold no more than before, and to count what it queues (Lighter); only a *)
(* write adds to it, and HiSax_writebuf_skb has looked at tx_cnt first.    *)
(***************************************************************************)
EXTENDS BChan, Isdnl2_proof, FiniteSetTheorems

-----------------------------------------------------------------------------
(* Sequences of whatever they hold *)

IsSeq(q) == \E S : q \in Seq(S)

LEMMA EmptySeq == IsSeq(<<>>) /\ Len(<<>>) = 0
<1>1. <<>> \in Seq({})
  OBVIOUS
<1> QED BY <1>1 DEF IsSeq

LEMMA LenSeq == ASSUME NEW q, IsSeq(q) PROVE Len(q) \in Nat /\ (q = <<>> <=> Len(q) = 0)
<1>1. PICK S : q \in Seq(S)
  BY DEF IsSeq
<1> QED BY <1>1

LEMMA AppendSeq ==
    ASSUME NEW q, IsSeq(q), NEW e
    PROVE  IsSeq(Append(q, e)) /\ Len(Append(q, e)) = Len(q) + 1
<1>1. PICK S : q \in Seq(S)
  BY DEF IsSeq
<1> DEFINE T == S \cup {e}
<1>2. q \in Seq(T)
  BY <1>1
<1>3. e \in T
  OBVIOUS
<1> HIDE DEF T
<1>4. Append(q, e) \in Seq(T) /\ Len(Append(q, e)) = Len(q) + 1
  BY <1>2, <1>3
<1> QED BY <1>4 DEF IsSeq

LEMMA TailSeq ==
    ASSUME NEW q, IsSeq(q), q # <<>>
    PROVE  IsSeq(Tail(q)) /\ Len(Tail(q)) = Len(q) - 1
<1>1. PICK S : q \in Seq(S)
  BY DEF IsSeq
<1>2. Tail(q) \in Seq(S) /\ Len(Tail(q)) = Len(q) - 1
  BY <1>1
<1> QED BY <1>2 DEF IsSeq

LEMMA ConcatSeq ==
    ASSUME NEW p, IsSeq(p), NEW q, IsSeq(q)
    PROVE  IsSeq(p \o q) /\ Len(p \o q) = Len(p) + Len(q)
<1>1. PICK S : p \in Seq(S)
  BY DEF IsSeq
<1>2. PICK T : q \in Seq(T)
  BY DEF IsSeq
<1> DEFINE U == S \cup T
<1>3. p \in Seq(U) /\ q \in Seq(U)
  BY <1>1, <1>2
<1> HIDE DEF U
<1>4. p \o q \in Seq(U) /\ Len(p \o q) = Len(p) + Len(q)
  BY <1>3
<1> QED BY <1>4 DEF IsSeq

LEMMA ListSeq ==
    ASSUME NEW n \in Nat, NEW f, f = [k \in 1 .. n |-> f[k]]
    PROVE  IsSeq(f) /\ Len(f) = n
<1> DEFINE S == {f[k] : k \in 1 .. n}
<1>1. \A k \in 1 .. n : f[k] \in S
  OBVIOUS
<1> HIDE DEF S
<1>2. f \in Seq(S) /\ Len(f) = n
  BY <1>1
<1> QED BY <1>2 DEF IsSeq

-----------------------------------------------------------------------------
(* What is held, and what is counted of it *)

Fields == {"st", "va", "vs", "iq", "out", "cnt", "win"}
Fits(s) ==
    /\ Fields \subseteq DOMAIN s
    /\ IsSeq(s.iq) /\ IsSeq(s.out) /\ s.cnt \in Nat
    /\ s.win = [i \in Slots |-> s.win[i]]

Filled(s) == {i \in Slots : s.win[i] # NoSkb}
Held(s) == Len(s.iq) + Cardinality(Filled(s))
Surplus(s) == Len(s.iq) + Len(s.out) - s.cnt

\* t holds no more than s, and has counted what it added to the queues.
Lighter(s, t) == Fits(t) /\ Held(t) <= Held(s) /\ Surplus(t) <= Surplus(s)

\* t differs from s in what does not count, or in what it gave up.
Drops(s, t) ==
    /\ Fits(t) /\ t.out = s.out /\ t.cnt = s.cnt
    /\ t.iq = s.iq \/ t.iq = <<>>
    /\ t.win = s.win \/ t.win = EmptyWin

LEMMA SlotsFinite == IsFiniteSet(Slots) /\ Cardinality(Slots) = Window
<1>1. 0 \in Int /\ Window - 1 \in Int /\ 0 <= Window - 1 + 1
  BY L2Assumption
<1> QED BY <1>1, FS_Interval, L2Assumption DEF Slots

LEMMA FilledFinite ==
    ASSUME NEW s
    PROVE  /\ IsFiniteSet(Filled(s)) /\ Cardinality(Filled(s)) \in Nat
           /\ Cardinality(Filled(s)) <= Window
<1>1. Filled(s) \subseteq Slots
  BY DEF Filled
<1> QED BY <1>1, SlotsFinite, FS_Subset, FS_CardinalityType

LEMMA FitsNumbers ==
    ASSUME NEW s, Fits(s)
    PROVE  /\ Len(s.iq) \in Nat /\ Len(s.out) \in Nat /\ s.cnt \in Nat
           /\ Cardinality(Filled(s)) \in Nat /\ Held(s) \in Nat /\ Surplus(s) \in Int
BY LenSeq, FilledFinite DEF Fits, Held, Surplus

LEMMA FilledLess ==
    ASSUME NEW s, NEW t, \A i \in Slots : s.win[i] = NoSkb => t.win[i] = NoSkb
    PROVE  Cardinality(Filled(t)) <= Cardinality(Filled(s))
<1>1. Filled(t) \subseteq Filled(s)
  BY DEF Filled
<1> QED BY <1>1, FilledFinite, FS_Subset

LEMMA LighterRefl == ASSUME NEW s, Fits(s) PROVE Lighter(s, s)
BY FitsNumbers DEF Lighter

LEMMA LighterTrans ==
    ASSUME NEW s, Fits(s), NEW t, NEW u, Lighter(s, t), Lighter(t, u)
    PROVE  Lighter(s, u)
<1>1. Fits(t) /\ Fits(u)
  BY DEF Lighter
<1> QED BY <1>1, FitsNumbers DEF Lighter

LEMMA DropsLighter == ASSUME NEW s, Fits(s), NEW t, Drops(s, t) PROVE Lighter(s, t)
<1>1. Cardinality(Filled(t)) <= Cardinality(Filled(s))
  BY FilledLess DEF Drops, EmptyWin
<1>2. Len(t.iq) <= Len(s.iq) /\ Len(t.iq) \in Nat
  BY FitsNumbers, EmptySeq DEF Drops
<1>3. Fits(t) /\ Len(t.out) = Len(s.out) /\ t.cnt = s.cnt
  BY DEF Drops
<1>4. /\ Len(s.iq) \in Nat /\ Len(s.out) \in Nat /\ s.cnt \in Nat
      /\ Cardinality(Filled(s)) \in Nat /\ Cardinality(Filled(t)) \in Nat
  BY <1>3, FitsNumbers
<1>5. Held(t) <= Held(s)
  BY <1>1, <1>2, <1>4 DEF Held
<1>6. Surplus(t) <= Surplus(s)
  BY <1>2, <1>3, <1>4 DEF Surplus
<1> QED BY <1>3, <1>5, <1>6 DEF Lighter

LEMMA SaneFits == ASSUME NEW s \in L2State PROVE Fits(s)
<1>1. s.iq \in Seq(Data) /\ s.out \in Seq(Frame) /\ s.cnt \in Nat
  BY DEF L2State
<1>2. s.win \in [Slots -> Data \cup {NoSkb}]
  BY DEF L2State
<1>3. Fields \subseteq DOMAIN s
  BY DEF L2State, Fields
<1> QED BY <1>1, <1>2, <1>3 DEF Fits, IsSeq

-----------------------------------------------------------------------------
(* The helpers of layer 2 *)

USE BChanAssumption DEF Warn, Ask, AddT200, AddT203, start_t200, restart_t200, stop_t200,
        RestartT203, DelT203, FsmChangeState, set_peer_busy, clear_peer_busy, clear_exception,
        freewin, PurgeI, PurgeUI, ResetVars, L2L3, Tell,
        lapb_dl_release_l2l3, st5_dl_release_l2l3, GotNr, EmptyWin

\* A frame that is sent was counted.
LEMMA EnqueueLighter ==
    ASSUME NEW s, Fits(s), NEW f
    PROVE  Lighter(s, enqueue_super(s, f))
<1> DEFINE t == enqueue_super(s, f)
<1>1. /\ Fields \subseteq DOMAIN t /\ t.iq = s.iq /\ t.out = Append(s.out, f)
      /\ t.cnt = s.cnt + 1 /\ t.win = s.win
  BY DEF Fits, Fields, enqueue_super, AddTxCnt, Send
<1> HIDE DEF t
<1>2. IsSeq(t.out) /\ Len(t.out) = Len(s.out) + 1
  BY <1>1, AppendSeq DEF Fits
<1>3. Fits(t)
  BY <1>1, <1>2 DEF Fits
<1>4. Filled(t) = Filled(s)
  BY <1>1 DEF Filled
<1>5. /\ Len(s.iq) \in Nat /\ Len(s.out) \in Nat /\ s.cnt \in Nat
      /\ Cardinality(Filled(s)) \in Nat
  BY FitsNumbers
<1>6. Held(t) <= Held(s)
  BY <1>1, <1>4, <1>5 DEF Held
<1>7. Surplus(t) <= Surplus(s)
  BY <1>1, <1>2, <1>5 DEF Surplus
<1>8. Lighter(s, t)
  BY <1>3, <1>6, <1>7 DEF Lighter
<1> QED BY <1>8 DEF t

LEMMA UFrameLighter ==
    ASSUME NEW s, Fits(s), NEW t, NEW rsp, NEW pf
    PROVE  Lighter(s, send_uframe(s, t, rsp, pf))
BY EnqueueLighter DEF send_uframe

LEMMA EnquiryLighter ==
    ASSUME NEW s, Fits(s), NEW t, NEW rsp, NEW pf
    PROVE  Lighter(s, enquiry_cr(s, t, rsp, pf))
BY EnqueueLighter DEF enquiry_cr

\* After a call that keeps Lighter, the rest only drops.
LEMMA ThenDrops ==
    ASSUME NEW s, Fits(s), NEW t, Lighter(s, t), NEW u, Drops(t, u)
    PROVE  Lighter(s, u) /\ Fits(u)
<1>1. Fits(t)
  BY DEF Lighter
<1> QED BY <1>1, DropsLighter, LighterTrans DEF Lighter

LEMMA DropsThen ==
    ASSUME NEW s, Fits(s), NEW t, Drops(s, t), NEW u, Lighter(t, u)
    PROVE  Lighter(s, u) /\ Fits(u)
BY DropsLighter, LighterTrans DEF Lighter

LEMMA AcksLighter ==
    ASSUME NEW s, Fits(s)
    PROVE  Lighter(s, enquiry_response(s)) /\ Lighter(s, transmit_enquiry(s))
<1> DEFINE a == enquiry_cr(s, "RR", TRUE, TRUE)
           b == enquiry_cr(s, "RR", FALSE, TRUE)
<1>1. /\ enquiry_response(s) = [a EXCEPT !.ackPend = FALSE]
      /\ transmit_enquiry(s) = start_t200([b EXCEPT !.ackPend = FALSE])
  BY DEF enquiry_response, transmit_enquiry
<1>2. Lighter(s, a) /\ Lighter(s, b)
  BY EnquiryLighter
<1> HIDE DEF a, b
<1>3. Fits(a) /\ Fits(b)
  BY <1>2 DEF Lighter
<1>4. Drops(a, enquiry_response(s)) /\ Drops(b, transmit_enquiry(s))
  BY <1>1, <1>3 DEF Drops, Fits, Fields
<1> QED BY <1>2, <1>4, ThenDrops

LEMMA PullLighter ==
    ASSUME NEW s, Fits(s)
    PROVE  Lighter(s, l2_pull_iqueue(s))
<1> DEFINE slot == Slot(s, Outstanding(s))
           f == [t |-> "I", rsp |-> FALSE, pf |-> FALSE,
                 ns |-> s.vs, nr |-> s.vr, d |-> Head(s.iq)]
           a == Warn(s, s.win[slot] # NoSkb, "overwrite ack queue")
           b == [a EXCEPT !.iq = Tail(@), !.win[slot] = Head(s.iq),
                          !.vs = Inc(@), !.ackPend = FALSE]
           c == Send(b, f)
           e == IF ~s.t200Run THEN start_t200(DelT203(c)) ELSE c
           g == [e EXCEPT !.pullReq = @ \/ (e.iq # <<>> /\ cansend(e))]
<1>1. l2_pull_iqueue(s) = IF ~cansend(s) \/ s.iq = <<>> THEN s ELSE g
  BY DEF l2_pull_iqueue
<1>2. CASE s.iq = <<>>
  BY <1>1, <1>2, LighterRefl
<1>3. CASE s.iq # <<>>
  <2>1. /\ Fields \subseteq DOMAIN a /\ a.iq = s.iq /\ a.out = s.out
        /\ a.cnt = s.cnt /\ a.win = s.win
    BY DEF Fits, Fields
  <2> HIDE DEF slot, a, f
  <2>2. /\ Fields \subseteq DOMAIN b /\ b.iq = Tail(s.iq) /\ b.out = s.out
        /\ b.cnt = s.cnt /\ b.win = [s.win EXCEPT ![slot] = Head(s.iq)]
    BY <2>1 DEF Fields
  <2> HIDE DEF b
  <2>3. /\ Fields \subseteq DOMAIN c /\ c.iq = Tail(s.iq) /\ c.out = Append(s.out, f)
        /\ c.cnt = s.cnt /\ c.win = [s.win EXCEPT ![slot] = Head(s.iq)]
    BY <2>2 DEF Fields, Send
  <2> HIDE DEF c
  <2>4. /\ IsSeq(c.iq) /\ Len(c.iq) = Len(s.iq) - 1
        /\ IsSeq(c.out) /\ Len(c.out) = Len(s.out) + 1
    BY <1>3, <2>3, TailSeq, AppendSeq DEF Fits
  <2>5. Fits(c)
    BY <2>3, <2>4 DEF Fits
  <2>6. Cardinality(Filled(c)) <= Cardinality(Filled(s)) + 1
    <3> DEFINE more == Filled(s) \cup {slot}
    <3>1. Filled(c) \subseteq more
      BY <2>3 DEF Filled, Fits
    <3>2. IsFiniteSet(more) /\ Cardinality(more) <= Cardinality(Filled(s)) + 1
      BY FilledFinite, FS_AddElement
    <3> HIDE DEF more
    <3>3. Cardinality(Filled(c)) <= Cardinality(more) /\ Cardinality(more) \in Nat
      BY <3>1, <3>2, FS_Subset, FS_CardinalityType
    <3> QED BY <3>2, <3>3, FilledFinite
  <2>7. Lighter(s, c)
    <3>1. /\ Len(s.iq) \in Nat /\ Len(s.out) \in Nat /\ s.cnt \in Nat
          /\ Cardinality(Filled(s)) \in Nat /\ Cardinality(Filled(c)) \in Nat
      BY <2>5, FitsNumbers
    <3>2. Held(c) <= Held(s)
      BY <2>3, <2>4, <2>5, <2>6, <3>1 DEF Held
    <3>3. Surplus(c) <= Surplus(s)
      BY <2>3, <2>4, <2>5, <2>6, <3>1 DEF Surplus
    <3> QED BY <2>5, <3>2, <3>3 DEF Lighter
  <2>8. Drops(c, e) /\ Fits(e)
    BY <2>5 DEF Drops, Fits, Fields
  <2> HIDE DEF e
  <2>9. Drops(c, g)
    BY <2>8 DEF Drops, Fits, Fields
  <2> HIDE DEF g
  <2> QED BY <1>1, <2>7, <2>9, ThenDrops, LighterRefl
<1> QED BY <1>2, <1>3

LEMMA PullRequestLighter ==
    ASSUME NEW s, Fits(s)
    PROVE  /\ Lighter(s, AckPull(s)) /\ Lighter(s, PullRequest(s))
           /\ Lighter(s, PullIfWaiting(s)) /\ Lighter(s, PhPullConfirm(s))
<1> DEFINE a == [s EXCEPT !.pullReq = TRUE]
           b == [s EXCEPT !.pullReq = FALSE]
<1>1. /\ PullRequest(s) = IF s.txBusy THEN a ELSE AckPull(b)
      /\ PhPullConfirm(s) = AckPull(b)
  BY DEF PullRequest, PhPullConfirm
<1>2. Drops(s, a) /\ Drops(s, b) /\ Fits(b)
  BY DEF Drops, Fits, Fields
<1> HIDE DEF a, b
<1>3. ASSUME NEW u, Fits(u) PROVE Lighter(u, AckPull(u))
  BY <1>3, PullLighter, LighterRefl DEF AckPull
<1>4. Lighter(s, a) /\ Lighter(s, AckPull(b))
  BY <1>2, <1>3, DropsLighter, LighterTrans
<1> QED BY <1>1, <1>3, <1>4, LighterRefl DEF PullIfWaiting

LEMMA SetvaLighter ==
    ASSUME NEW s, Fits(s), NEW nr
    PROVE  Lighter(s, setva(s, nr, <<>>))
<1> DEFINE t == Freed(s, nr)
<1>1. setva(s, nr, <<>>) \in {s, t}
  BY SetvaFreed DEF Refill
<1>2. /\ Fields \subseteq DOMAIN t /\ t.iq = s.iq /\ t.out = s.out /\ t.cnt = s.cnt
      /\ t.win = [i \in Slots |-> t.win[i]]
      /\ \A i \in Slots : s.win[i] = NoSkb => t.win[i] = NoSkb
  BY DEF Freed, Fits, Fields
<1> HIDE DEF t
<1>3. Fits(t)
  BY <1>2 DEF Fits
<1>4. Cardinality(Filled(t)) <= Cardinality(Filled(s))
  BY <1>2, FilledLess
<1>5. Lighter(s, t)
  <2>1. /\ Len(s.iq) \in Nat /\ Len(s.out) \in Nat /\ s.cnt \in Nat
        /\ Cardinality(Filled(s)) \in Nat /\ Cardinality(Filled(t)) \in Nat
    BY <1>3, FitsNumbers
  <2> QED BY <1>2, <1>3, <1>4, <2>1 DEF Lighter, Held, Surplus
<1> QED BY <1>1, <1>5, LighterRefl

LEMMA RangeCardinality ==
    ASSUME NEW s \in L2State, NEW base \in Nat, NEW n \in Nat, base + n <= Window
    PROVE  LET again == {i \in Slots : Behind(s, i) >= base /\ Behind(s, i) < base + n}
           IN  IsFiniteSet(again) /\ Cardinality(again) = n
<1> DEFINE again == {i \in Slots : Behind(s, i) >= base /\ Behind(s, i) < base + n}
           f == [k \in 1 .. n |-> Slot(s, base + k - 1)]
<1>1. ASSUME NEW k \in 1 .. n
      PROVE  /\ Slot(s, base + k - 1) \in Slots
             /\ Behind(s, Slot(s, base + k - 1)) = base + k - 1
  <2> DEFINE j == base + k - 1
  <2>1. j \in 0 .. Window /\ j < Window
    BY L2Assumption
  <2> HIDE DEF j
  <2>2. Slot(s, j) \in Slots /\ Behind(s, Slot(s, j)) = j
    BY <2>1, SlotBehind
  <2> QED BY <2>2 DEF j
<1>2. f \in [1 .. n -> again]
  <2>1. ASSUME NEW k \in 1 .. n PROVE Slot(s, base + k - 1) \in again
    BY <1>1
  <2> QED BY <2>1
<1>3. \A k, l \in 1 .. n : f[k] = f[l] => k = l
  <2>1. ASSUME NEW k \in 1 .. n, NEW l \in 1 .. n, f[k] = f[l] PROVE k = l
    <3>1. base + k - 1 = base + l - 1
      BY <1>1, <2>1
    <3> QED BY <3>1
  <2> QED BY <2>1
<1>4. \A i \in again : \E k \in 1 .. n : f[k] = i
  <2>1. ASSUME NEW i \in again PROVE \E k \in 1 .. n : f[k] = i
    <3> DEFINE j == Behind(s, i)
               k == j - base + 1
    <3>1. j \in 0 .. Window - 1 /\ Slot(s, j) = i
      BY BehindType
    <3>2. j >= base /\ j < base + n
      OBVIOUS
    <3> HIDE DEF j
    <3>3. k \in 1 .. n /\ base + k - 1 = j
      BY <3>1, <3>2, L2Assumption
    <3>4. f[k] = i
      BY <3>1, <3>3
    <3> QED BY <3>3, <3>4
  <2> QED BY <2>1
<1> HIDE DEF again, f
<1>5. f \in Bijection(1 .. n, again)
  BY <1>2, <1>3, <1>4 DEF Bijection, Injection, Surjection, IsInjective
<1>6. ExistsBijection(1 .. n, again)
  BY <1>5 DEF ExistsBijection
<1>7. IsFiniteSet(1 .. n) /\ Cardinality(1 .. n) = n
  BY FS_Interval
<1>8. IsFiniteSet(again) /\ Cardinality(again) = n
  BY <1>6, <1>7, FS_Bijection
<1> QED BY <1>8 DEF again

\* The frames that go back to the queue leave the window, and are counted again.
LEMMA RewoundLighter ==
    ASSUME NEW s, Good(s), NEW nr \in SeqNo, legalnr(s, nr)
    PROVE  Lighter(s, Rewound(s, nr))
<1> DEFINE n == Dist(nr, s.vs)
           base == Dist(s.va, nr)
           again == {i \in Slots : Behind(s, i) >= base /\ Behind(s, i) < base + n}
           back == [k \in 1 .. n |-> s.win[Slot(s, base + k - 1)]]
           t == Rewound(s, nr)
<1>1. s \in L2State /\ Ring(s) /\ Fits(s)
  BY SaneFits DEF Good, Sane
<1>2. /\ Fields \subseteq DOMAIN t /\ t.iq = back \o s.iq /\ t.out = s.out
      /\ t.cnt = s.cnt + n
      /\ t.win = [i \in Slots |-> IF i \in again THEN NoSkb ELSE s.win[i]]
  BY <1>1 DEF Rewound, AddTxCnt, Fits, Fields
<1> HIDE DEF t
<1>3. base \in Nat /\ n \in Nat /\ base + n = Outstanding(s) /\ base + n <= Window
  <2>1. s.va \in SeqNo /\ s.vs \in SeqNo
    BY <1>1 DEF L2State
  <2>2. base \in Nat /\ n \in Nat /\ Outstanding(s) \in Nat
    BY <2>1, DistType, L2Assumption DEF Outstanding
  <2>3. n = Outstanding(s) - base
    BY <2>1, DistSplit DEF legalnr, Outstanding
  <2> HIDE DEF n, base
  <2>4. Outstanding(s) <= Window
    BY <1>1 DEF Ring
  <2>5. base + n = Outstanding(s)
    BY <2>2, <2>3
  <2> QED BY <2>2, <2>4, <2>5
<1>4. IsFiniteSet(again) /\ Cardinality(again) = n
  BY <1>1, <1>3, RangeCardinality, ZenonT(60)
<1>5. again \subseteq Filled(s)
  BY <1>1, <1>3 DEF Ring, Filled
<1>6. Filled(t) = Filled(s) \ again
  BY <1>2 DEF Filled
<1> HIDE DEF n, base, again
<1>7. Cardinality(Filled(t)) + n = Cardinality(Filled(s))
  <2>1. Filled(t) \cup again = Filled(s) /\ Filled(t) \cap again = {}
    BY <1>5, <1>6
  <2>2. Cardinality(Filled(t) \cup again) =
            Cardinality(Filled(t)) + Cardinality(again) - Cardinality(Filled(t) \cap again)
    BY <1>4, FilledFinite, FS_Union
  <2>3. Cardinality(Filled(t) \cap again) = 0
    BY <2>1, FS_EmptySet
  <2>4. Cardinality(Filled(t)) \in Nat
    BY FilledFinite
  <2> QED BY <1>3, <1>4, <2>1, <2>2, <2>3, <2>4
<1>8. IsSeq(back) /\ Len(back) = n
  BY <1>3, ListSeq
<1> HIDE DEF back
<1>9. IsSeq(t.iq) /\ Len(t.iq) = n + Len(s.iq)
  <2>1. IsSeq(s.iq)
    BY <1>1 DEF Fits
  <2>2. IsSeq(back \o s.iq) /\ Len(back \o s.iq) = Len(back) + Len(s.iq)
    BY <1>8, <2>1, ConcatSeq
  <2> QED BY <1>2, <1>8, <2>2
<1>10. Fits(t)
  BY <1>1, <1>2, <1>3, <1>9 DEF Fits
<1>11. Lighter(s, t)
  <2>1. /\ Len(s.iq) \in Nat /\ Len(s.out) \in Nat /\ s.cnt \in Nat
        /\ Cardinality(Filled(s)) \in Nat /\ Cardinality(Filled(t)) \in Nat
    BY <1>1, <1>10, FitsNumbers
  <2>2. Held(t) <= Held(s)
    BY <1>3, <1>7, <1>9, <2>1 DEF Held
  <2>3. Surplus(t) <= Surplus(s)
    BY <1>2, <1>3, <1>9, <2>1, SMTT(60) DEF Surplus
  <2> QED BY <1>10, <2>2, <2>3 DEF Lighter
<1> QED BY <1>11 DEF t

LEMMA InvokeLighter ==
    ASSUME NEW s, Good(s), NEW nr \in SeqNo, legalnr(s, nr)
    PROVE  Lighter(s, invoke_retransmission(s, nr))
<1> DEFINE r == Rewound(s, nr)
<1>1. Lighter(s, r) /\ Fits(s)
  BY RewoundLighter, SaneFits DEF Good, Sane
<1>2. invoke_retransmission(s, nr) \in {s, PullRequest(r)}
  BY InvokeRewound
<1> HIDE DEF r
<1>3. Lighter(r, PullRequest(r))
  BY <1>1, PullRequestLighter DEF Lighter
<1> QED BY <1>1, <1>2, <1>3, LighterRefl, LighterTrans

LEMMA SetvaInvokeLighter ==
    ASSUME NEW s, Good(s), NEW nr \in SeqNo, legalnr(s, nr)
    PROVE  Lighter(s, invoke_retransmission(setva(s, nr, <<>>), nr))
<1> DEFINE a == setva(s, nr, <<>>)
<1>1. Written(<<>>)
  BY DEF Written
<1>2. Good(a) /\ a.va = nr
  BY <1>1, SetvaGood
<1>3. Lighter(s, a) /\ Fits(s)
  BY SetvaLighter, SaneFits DEF Good, Sane
<1> HIDE DEF a
<1>4. legalnr(a, nr)
  BY <1>2, LegalSelf
<1>5. Lighter(a, invoke_retransmission(a, nr))
  BY <1>2, <1>4, InvokeLighter
<1>6. Lighter(s, invoke_retransmission(a, nr))
  BY <1>3, <1>5, LighterTrans
<1> QED BY <1>6 DEF a

-----------------------------------------------------------------------------
(* Handlers that set up and release the link *)

LEMMA DropsEstablish ==
    ASSUME NEW s, Fits(s)
    PROVE  /\ Lighter(s, establishlink(s)) /\ Lighter(s, Reestablish(s))
           /\ Lighter(s, l2_establish(s)) /\ Lighter(s, l2_l3_reestablish(s))
           /\ Lighter(s, nrerrorrecovery(s))
<1>1. ASSUME NEW u, Fits(u)
      PROVE  Lighter(u, establishlink(u)) /\ Fits(establishlink(u))
  <2> DEFINE a == [clear_exception(u) EXCEPT !.rc = 0]
             b == send_uframe(a, "SABME", FALSE, TRUE)
             c == restart_t200(DelT203(b))
             e == establishlink(u)
  <2>1. e = FsmChangeState(freewin([c EXCEPT !.pendRel = FALSE]), 5)
    BY DEF establishlink
  <2>2. Drops(u, a) /\ Fits(a)
    BY <1>1 DEF Drops, Fits, Fields
  <2> HIDE DEF a, e
  <2>3. Lighter(a, b) /\ Fits(b)
    BY <2>2, UFrameLighter DEF Lighter
  <2>4. Lighter(u, b)
    BY <1>1, <2>2, <2>3, DropsLighter, LighterTrans
  <2> HIDE DEF b
  <2>5. Drops(b, e)
    BY <2>1, <2>3 DEF Drops, Fits, Fields
  <2>6. Lighter(u, e) /\ Fits(e)
    BY <1>1, <2>4, <2>5, ThenDrops
  <2> QED BY <2>6 DEF e
<1>2. ASSUME NEW u, Fits(u)
      PROVE  Lighter(u, Reestablish(u)) /\ Lighter(u, l2_establish(u))
  <2> DEFINE e == establishlink(u)
  <2>1. /\ Reestablish(u) = [e EXCEPT !.l3Init = FALSE]
        /\ l2_establish(u) = [e EXCEPT !.l3Init = TRUE]
    BY DEF Reestablish, l2_establish
  <2>2. Lighter(u, e) /\ Fits(e)
    BY <1>1, <1>2
  <2> HIDE DEF e
  <2>3. Drops(e, Reestablish(u)) /\ Drops(e, l2_establish(u))
    BY <2>1, <2>2 DEF Drops, Fits, Fields
  <2> QED BY <1>2, <2>2, <2>3, ThenDrops
<1>3. Lighter(s, nrerrorrecovery(s)) /\ Lighter(s, l2_l3_reestablish(s))
  <2> DEFINE a == Ask(s, "J")
             b == PurgeI(s)
  <2>1. nrerrorrecovery(s) = Reestablish(a) /\ l2_l3_reestablish(s) = l2_establish(b)
    BY DEF nrerrorrecovery, l2_l3_reestablish
  <2>2. Drops(s, a) /\ Drops(s, b) /\ Fits(a) /\ Fits(b)
    BY EmptySeq DEF Drops, Fits, Fields
  <2> HIDE DEF a, b
  <2> QED BY <1>2, <2>1, <2>2, DropsLighter, LighterTrans
<1> QED BY <1>1, <1>2, <1>3

LEMMA AskReestablish ==
    ASSUME NEW s, Fits(s), NEW r
    PROVE  Lighter(s, Reestablish(Ask(s, r)))
<1> DEFINE a == Ask(s, r)
<1>1. Drops(s, a) /\ Fits(a)
  BY DEF Drops, Fits, Fields
<1> HIDE DEF a
<1>2. Lighter(s, Reestablish(a))
  BY <1>1, DropsEstablish, DropsLighter, LighterTrans
<1> QED BY <1>2 DEF a

LEMMA DisconnectLighter == ASSUME NEW s, Fits(s) PROVE Lighter(s, l2_disconnect(s))
<1> DEFINE a == [FsmChangeState(freewin(PurgeI(s)), 6) EXCEPT !.rc = 0]
           b == send_uframe(a, "DISC", FALSE, TRUE)
           t == l2_disconnect(s)
<1>1. t = restart_t200(DelT203(b))
  BY DEF l2_disconnect
<1>2. Drops(s, a) /\ Fits(a)
  BY EmptySeq DEF Drops, Fits, Fields
<1> HIDE DEF a, t
<1>3. Lighter(s, b)
  <2>1. Lighter(a, b)
    BY <1>2, UFrameLighter
  <2> HIDE DEF b
  <2> QED BY <1>2, <2>1, DropsThen
<1> HIDE DEF b
<1>4. Drops(b, t)
  BY <1>1, <1>3 DEF Drops, Lighter, Fits, Fields
<1> QED BY <1>3, <1>4, ThenDrops DEF t

LEMMA StartMultiLighter ==
    ASSUME NEW s, Fits(s), NEW pf
    PROVE  Lighter(s, l2_start_multi(s, pf))
<1> DEFINE a == send_uframe(s, "UA", TRUE, pf)
           t == l2_start_multi(s, pf)
<1>1. t = Tell(AddT203(FsmChangeState(ResetVars(clear_exception(a)), 7)), "DL_ESTABLISH_IND")
  BY DEF l2_start_multi
<1>2. Lighter(s, a)
  BY UFrameLighter
<1> HIDE DEF a, t
<1>3. Drops(a, t)
  BY <1>1, <1>2, ZenonT(60) DEF Drops, Lighter, Fits, Fields
<1> QED BY <1>2, <1>3, ThenDrops DEF t

LEMMA StopMultiLighter ==
    ASSUME NEW s, Fits(s), NEW pf
    PROVE  Lighter(s, l2_stop_multi(s, pf))
<1> DEFINE a == stop_t200(DelT203(FsmChangeState(s, 4)))
           b == send_uframe(a, "UA", TRUE, pf)
           t == l2_stop_multi(s, pf)
<1>1. t = lapb_dl_release_l2l3(freewin(PurgeI(b)), "DL_RELEASE_IND")
  BY DEF l2_stop_multi
<1>2. Drops(s, a) /\ Fits(a)
  BY DEF Drops, Fits, Fields
<1> HIDE DEF a, t
<1>3. Lighter(s, b)
  <2>1. Lighter(a, b)
    BY <1>2, UFrameLighter
  <2> HIDE DEF b
  <2> QED BY <1>2, <2>1, DropsThen
<1> HIDE DEF b
<1>4. Drops(b, t)
  BY <1>1, <1>3, EmptySeq DEF Drops, Lighter, Fits, Fields
<1> QED BY <1>3, <1>4, ThenDrops DEF t

LEMMA RestartMultiLighter ==
    ASSUME NEW s, Fits(s), NEW pf
    PROVE  Lighter(s, l2_restart_multi(s, pf))
<1> DEFINE a == send_uframe(s, "UA", TRUE, pf)
           b == Ask(a, "F")
           est == s.vs # s.va
           c == IF est THEN PurgeI(b) ELSE b
           e == RestartT203(stop_t200(FsmChangeState(ResetVars(clear_exception(c)), 7)))
           g == IF est THEN Tell(e, "DL_ESTABLISH_IND") ELSE e
<1>1. l2_restart_multi(s, pf) = PullIfWaiting(g)
  BY DEF l2_restart_multi
<1>2. Lighter(s, a)
  BY UFrameLighter
<1> HIDE DEF a, est
<1>3. Drops(a, c) /\ Fits(c)
  BY <1>2, EmptySeq DEF Drops, Lighter, Fits, Fields
<1> HIDE DEF c
<1>4. Drops(c, g)
  BY <1>3, ZenonT(60) DEF Drops, Fits, Fields
<1> HIDE DEF g
<1>5. Lighter(s, g)
  BY <1>2, <1>3, <1>4, ThenDrops
<1> QED BY <1>1, <1>5, PullRequestLighter, LighterTrans DEF Lighter

LEMMA ConnectedLighter ==
    ASSUME NEW s, Fits(s), NEW pf
    PROVE  Lighter(s, l2_connected(s, pf))
<1> DEFINE z == [s EXCEPT !.pendRel = FALSE]
           a == IF s.pendRel THEN l2_disconnect(z) ELSE s
           reset == ~s.l3Init /\ s.vs # s.va
           b == IF reset THEN PurgeI(a) ELSE [a EXCEPT !.l3Init = FALSE]
           c == AddT203(FsmChangeState(ResetVars(stop_t200(b)), 7))
           e == CASE s.l3Init -> Tell(c, "DL_ESTABLISH_CNF")
                  [] reset -> Tell(c, "DL_ESTABLISH_IND")
                  [] OTHER -> c
           u == Ask(s, IF pf THEN "C" ELSE "D")
<1>1. l2_connected(s, pf) = IF pf THEN PullIfWaiting(e) ELSE u
  BY DEF l2_connected, l2_mdl_error_ua
<1>2. Drops(s, z) /\ Drops(s, u) /\ Fits(z)
  BY DEF Drops, Fits, Fields
<1> HIDE DEF z, u
<1>3. Lighter(s, a)
  BY <1>2, DisconnectLighter, DropsLighter, LighterRefl, LighterTrans
<1> HIDE DEF a
<1>4. Drops(a, b) /\ Fits(b)
  BY <1>3, EmptySeq DEF Drops, Lighter, Fits, Fields
<1> HIDE DEF b
<1>5. Drops(b, c) /\ Fits(c)
  BY <1>4 DEF Drops, Fits, Fields
<1> HIDE DEF c
<1>6. Drops(c, e)
  BY <1>5 DEF Drops, Fits, Fields
<1> HIDE DEF e
<1>7. Lighter(s, e)
  BY <1>3, <1>4, <1>5, <1>6, ThenDrops
<1> QED BY <1>1, <1>2, <1>7, PullRequestLighter, DropsLighter, LighterTrans DEF Lighter

\* Handlers that send nothing.
LEMMA QuietLighter ==
    ASSUME NEW s, Fits(s), NEW pf
    PROVE  /\ Lighter(s, l2_mdl_error_ua(s, pf)) /\ Lighter(s, l2_released(s, pf))
           /\ Lighter(s, l2_st5_dm_release(s, pf)) /\ Lighter(s, l2_st6_dm_release(s, pf))
           /\ Lighter(s, l2_st24_tei_remove(s)) /\ Lighter(s, l2_st3_tei_remove(s))
           /\ Lighter(s, l2_st14_persistant_da(s)) /\ Lighter(s, l2_st5_persistant_da(s))
           /\ Lighter(s, l2_st6_persistant_da(s)) /\ Lighter(s, l2_persistant_da(s))
<1>1. Drops(s, l2_mdl_error_ua(s, pf))
  BY DEF l2_mdl_error_ua, Drops, Fits, Fields
<1>2. Drops(s, l2_released(s, pf))
  BY DEF l2_released, l2_mdl_error_ua, Drops, Fits, Fields
<1>3. Drops(s, l2_st5_dm_release(s, pf))
  BY EmptySeq DEF l2_st5_dm_release, Drops, Fits, Fields
<1>4. Drops(s, l2_st6_dm_release(s, pf))
  BY DEF l2_st6_dm_release, Drops, Fits, Fields
<1>5. Drops(s, l2_st24_tei_remove(s)) /\ Drops(s, l2_st3_tei_remove(s))
  BY DEF l2_st24_tei_remove, l2_st3_tei_remove, Drops, Fits, Fields
<1>6. Drops(s, l2_st14_persistant_da(s))
  BY EmptySeq DEF l2_st14_persistant_da, Drops, Fits, Fields
<1>7. Drops(s, l2_st5_persistant_da(s))
  BY EmptySeq DEF l2_st5_persistant_da, Drops, Fits, Fields
<1>8. Drops(s, l2_st6_persistant_da(s))
  BY DEF l2_st6_persistant_da, Drops, Fits, Fields
<1>9. Drops(s, l2_persistant_da(s))
  BY EmptySeq DEF l2_persistant_da, Drops, Fits, Fields
<1> QED BY <1>1, <1>2, <1>3, <1>4, <1>5, <1>6, <1>7, <1>8, <1>9, DropsLighter

-----------------------------------------------------------------------------
(* Supervisory and information frames, timers *)

LEMMA St7SuperLighter ==
    ASSUME NEW s, Good(s), NEW f, Numbered(f)
    PROVE  Lighter(s, l2_st7_got_super(s, f, <<>>))
<1> DEFINE s1 == GotNr(s, f)
           s2 == IF ~f.pf THEN s1
                 ELSE IF f.rsp THEN Ask(s1, "A") ELSE enquiry_response(s1)
           a == setva(s2, f.nr, <<>>)
           i == invoke_retransmission(a, f.nr)
           rej == RestartT203(stop_t200(i))
           all == RestartT203(stop_t200(a))
           some == restart_t200(IF f.t = "RR" THEN a ELSE DelT203(a))
           s3 == IF f.t = "REJ" THEN rej
                 ELSE IF f.t = "RR" /\ f.nr = s2.vs THEN all
                 ELSE IF f.nr # s2.va \/ f.t = "RNR" THEN some ELSE s2
<1>1. l2_st7_got_super(s, f, <<>>) =
          IF ~legalnr(s2, f.nr) THEN nrerrorrecovery(s2)
          ELSE IF f.t = "RR" /\ s3.iq # <<>> THEN PullRequest(s3) ELSE s3
  BY DEF l2_st7_got_super
<1>2. Fits(s)
  BY SaneFits DEF Good, Sane
<1>3. Good(s1) /\ Drops(s, s1) /\ Fits(s1)
  BY <1>2, GotNrGood, Zenon DEF Drops, Fits, Fields
<1> HIDE DEF s1
<1>4. Good(s2) /\ Lighter(s1, s2)
  <2>1. Drops(s1, Ask(s1, "A"))
    BY <1>3 DEF Drops, Fits, Fields
  <2> HIDE DEF Ask
  <2>2. Good(s2)
    BY <1>3, GoodType, GoodOk, OkAsk, Ok_enquiry_response DEF Requests
  <2>3. Lighter(s1, s2)
    BY <1>3, <2>1, DropsLighter, AcksLighter, LighterRefl
  <2> QED BY <2>2, <2>3
<1>5. Lighter(s, s2) /\ Fits(s2)
  <2> HIDE DEF s2
  <2> QED BY <1>2, <1>3, <1>4, DropsThen
<1> HIDE DEF s2
<1>6. Lighter(s2, a)
  BY <1>5, SetvaLighter
<1>7. legalnr(s2, f.nr) => Lighter(s2, i)
  BY <1>4, SetvaInvokeLighter DEF Numbered
<1> HIDE DEF a, i
<1>8. Drops(a, all) /\ Drops(a, some)
  BY <1>6 DEF Drops, Lighter, Fits, Fields
<1>9. legalnr(s2, f.nr) => Drops(i, rej)
  BY <1>7 DEF Drops, Lighter, Fits, Fields
<1> HIDE DEF rej, all, some
<1>10. legalnr(s2, f.nr) => Lighter(s2, s3)
  BY <1>5, <1>6, <1>7, <1>8, <1>9, ThenDrops, LighterRefl
<1> HIDE DEF s3
<1>11. legalnr(s2, f.nr) => Lighter(s2, PullRequest(s3))
  BY <1>5, <1>10, PullRequestLighter, LighterTrans DEF Lighter
<1>12. Lighter(s2, nrerrorrecovery(s2))
  BY <1>5, DropsEstablish
<1>13. Lighter(s2, l2_st7_got_super(s, f, <<>>))
  BY <1>1, <1>10, <1>11, <1>12
<1> QED BY <1>2, <1>5, <1>13, LighterTrans

LEMMA St8SuperLighter ==
    ASSUME NEW s, Good(s), NEW f, Numbered(f)
    PROVE  Lighter(s, l2_st8_got_super(s, f, <<>>))
<1> DEFINE s1 == GotNr(s, f)
           b == AddT203(stop_t200(s1))
           r == restart_t200(s1)
           s2 == IF f.t = "RNR" THEN r ELSE setva(b, f.nr, <<>>)
           c == invoke_retransmission(s2, f.nr)
           s3 == FsmChangeState(c, 7)
           s4 == IF f.pf /\ ~f.rsp THEN enquiry_response(s1) ELSE s1
<1>1. l2_st8_got_super(s, f, <<>>) =
          IF ~legalnr(s1, f.nr) THEN nrerrorrecovery(s4)
          ELSE IF f.pf /\ f.rsp THEN PullIfWaiting(s3) ELSE setva(s4, f.nr, <<>>)
  BY DEF l2_st8_got_super
<1>2. Fits(s)
  BY SaneFits DEF Good, Sane
<1>3. Good(s1) /\ s1 \in L2State /\ Drops(s, s1) /\ Fits(s1)
  BY <1>2, GotNrGood, GoodType, Zenon DEF Drops, Fits, Fields
<1> HIDE DEF s1
<1>4. Drops(s1, b) /\ Drops(s1, r) /\ Fits(b) /\ Fits(r)
  BY <1>3 DEF Drops, Fits, Fields
<1>5. Same(s1, b) /\ Same(s1, r)
  <2> HIDE DEF AddT203, stop_t200, restart_t200
  <2>1. Same(s1, stop_t200(s1)) /\ Same(s1, r) /\ stop_t200(s1) \in L2State
    BY <1>3, Same_stop_t200, Same_restart_t200 DEF Same
  <2>2. Same(stop_t200(s1), b)
    BY <2>1, SameAddT203
  <2> QED BY <2>1, <2>2, SameTrans
<1> HIDE DEF b, r
<1>6. Good(b) /\ Good(r)
  BY <1>3, <1>5, GoodSame
<1>7. legalnr(s1, f.nr) => legalnr(b, f.nr) /\ legalnr(r, f.nr)
  BY <1>5, LegalSame
<1>8. legalnr(s1, f.nr) => Lighter(s1, c)
  <2>1. ASSUME legalnr(s1, f.nr), f.t = "RNR" PROVE Lighter(s1, c)
    <3>1. Lighter(r, c)
      BY <1>6, <1>7, <2>1, InvokeLighter DEF Numbered
    <3> HIDE DEF c
    <3> QED BY <1>3, <1>4, <3>1, DropsThen
  <2>2. ASSUME legalnr(s1, f.nr), f.t # "RNR" PROVE Lighter(s1, c)
    <3>1. Lighter(b, c)
      BY <1>6, <1>7, <2>2, SetvaInvokeLighter DEF Numbered
    <3> HIDE DEF c
    <3> QED BY <1>3, <1>4, <3>1, DropsThen
  <2> QED BY <2>1, <2>2
<1> HIDE DEF c
<1>9. legalnr(s1, f.nr) => Lighter(s1, PullIfWaiting(s3))
  <2>1. ASSUME legalnr(s1, f.nr) PROVE Lighter(s1, PullIfWaiting(s3))
    <3>1. Lighter(s1, c)
      BY <1>8, <2>1
    <3>2. Drops(c, s3)
      BY <3>1 DEF Drops, Lighter, Fits, Fields
    <3> HIDE DEF s3
    <3>3. Lighter(s1, s3) /\ Fits(s3)
      BY <1>3, <3>1, <3>2, ThenDrops
    <3> QED BY <1>3, <3>3, PullRequestLighter, LighterTrans
  <2> QED BY <2>1
<1>10. Lighter(s1, s4)
  BY <1>3, AcksLighter, LighterRefl
<1> HIDE DEF s3, s4
<1>11. Lighter(s4, nrerrorrecovery(s4)) /\ Lighter(s4, setva(s4, f.nr, <<>>))
  BY <1>10, DropsEstablish, SetvaLighter DEF Lighter
<1>12. Lighter(s1, nrerrorrecovery(s4)) /\ Lighter(s1, setva(s4, f.nr, <<>>))
  BY <1>3, <1>10, <1>11, LighterTrans
<1>13. Lighter(s1, l2_st8_got_super(s, f, <<>>))
  BY <1>1, <1>9, <1>12
<1> QED BY <1>2, <1>3, <1>13, DropsThen

LEMMA AcceptLighter ==
    ASSUME NEW s, Fits(s), NEW f
    PROVE  Lighter(s, Accept(s, f, <<>>)) /\ Lighter(s, Reject(s, f))
<1> DEFINE a == [s EXCEPT !.vr = Inc(@), !.rejExc = FALSE]
           b == IF f.pf THEN enquiry_response(a) ELSE [a EXCEPT !.ackPend = TRUE]
           e == enquiry_cr(s, "REJ", TRUE, f.pf)
           g == [e EXCEPT !.rejExc = TRUE, !.ackPend = FALSE]
           t == Accept(s, f, <<>>)
<1>1. t = L2L3(b, "DL_DATA_IND", f.d)
  BY DEF Accept, Refill
<1>2. Reject(s, f) =
          IF ~s.rejExc THEN g ELSE IF f.pf THEN enquiry_response(s) ELSE s
  BY DEF Reject
<1>3. Drops(s, a) /\ Fits(a) /\ Drops(a, [a EXCEPT !.ackPend = TRUE])
  BY DEF Drops, Fits, Fields
<1> HIDE DEF a
<1>4. Lighter(a, b)
  BY <1>3, AcksLighter, DropsLighter
<1> HIDE DEF b, t
<1>5. Drops(b, t)
  BY <1>1, <1>4 DEF Drops, Lighter, Fits, Fields
<1>6. Lighter(s, t)
  BY <1>3, <1>4, <1>5, DropsThen, ThenDrops
<1>7. Lighter(s, e)
  BY EnquiryLighter
<1> HIDE DEF e
<1>8. Drops(e, g)
  BY <1>7 DEF Drops, Lighter, Fits, Fields
<1> HIDE DEF g
<1>9. Lighter(s, Reject(s, f))
  BY <1>2, <1>7, <1>8, ThenDrops, AcksLighter, LighterRefl
<1> QED BY <1>6, <1>9 DEF t

LEMMA IframeLighter ==
    ASSUME NEW s, Fits(s), NEW f
    PROVE  Lighter(s, l2_got_iframe(s, f, <<>>, <<>>))
<1> DEFINE s1 == IF s.vr = f.ns THEN Accept(s, f, <<>>) ELSE Reject(s, f)
           s2 == IF s1.peerBusy \/ s1.st # 7 THEN s1
                 ELSE IF f.nr = s1.vs THEN RestartT203(stop_t200(s1))
                 ELSE IF f.nr # s1.va THEN restart_t200(s1) ELSE s1
           s3 == setva(s2, f.nr, <<>>)
           s4 == IF s3.iq # <<>> /\ s3.st = 7 THEN PullRequest(s3) ELSE s3
           s5 == [s4 EXCEPT !.ackPend = FALSE]
           s6 == enquiry_cr(s5, "RR", TRUE, FALSE)
<1>1. l2_got_iframe(s, f, <<>>, <<>>) =
          IF ~legalnr(s1, f.nr) THEN nrerrorrecovery(s1) ELSE IF s4.ackPend THEN s6 ELSE s4
  BY DEF l2_got_iframe
<1>2. Lighter(s, s1)
  BY AcceptLighter
<1> HIDE DEF s1
<1>3. Drops(s1, s2)
  BY <1>2 DEF Drops, Lighter, Fits, Fields
<1> HIDE DEF s2
<1>4. Lighter(s, s2) /\ Fits(s2)
  BY <1>2, <1>3, ThenDrops
<1>5. Lighter(s, s3) /\ Fits(s3)
  <2>1. Lighter(s2, s3)
    BY <1>4, SetvaLighter
  <2> HIDE DEF s3
  <2> QED BY <1>4, <2>1, LighterTrans DEF Lighter
<1> HIDE DEF s3
<1>6. Lighter(s3, s4)
  BY <1>5, PullRequestLighter, LighterRefl
<1> HIDE DEF s4
<1>7. Lighter(s, s4)
  BY <1>5, <1>6, LighterTrans
<1>8. Drops(s4, s5)
  BY <1>7 DEF Drops, Lighter, Fits, Fields
<1> HIDE DEF s5
<1>9. Lighter(s, s5) /\ Fits(s5)
  BY <1>7, <1>8, ThenDrops
<1>10. Lighter(s, s6)
  BY <1>9, EnquiryLighter, LighterTrans
<1> HIDE DEF s6
<1>11. Lighter(s, nrerrorrecovery(s1))
  BY <1>2, DropsEstablish, LighterTrans DEF Lighter
<1> QED BY <1>1, <1>7, <1>10, <1>11

LEMMA TimerLighter ==
    ASSUME NEW s, Fits(s)
    PROVE  Lighter(s, EvT200(s)) /\ Lighter(s, EvT203(s))
<1> DEFINE a == [s EXCEPT !.t200 = FALSE]
           b == [s EXCEPT !.t203 = FALSE]
<1>1. /\ EvT200(s) \in {a, l2_st5_tout_200(a), l2_st6_tout_200(a),
                        l2_st7_tout_200(a), l2_st8_tout_200(a)}
      /\ EvT203(s) \in {b, l2_st7_tout_203(b)}
  BY DEF EvT200, EvT203
<1>2. Drops(s, a) /\ Drops(s, b) /\ Fits(a) /\ Fits(b)
  BY DEF Drops, Fits, Fields
<1> HIDE DEF a, b
<1>3. ASSUME NEW u, Fits(u) PROVE Lighter(u, l2_st5_tout_200(u))
  <2> DEFINE x == Ask(PurgeI([FsmChangeState(u, 4) EXCEPT !.t200Run = FALSE]), "G")
             end == st5_dl_release_l2l3(Ask(x, "PH_DEACTIVATE"))
             y == AddT200([u EXCEPT !.rc = @ + 1])
  <2>1. l2_st5_tout_200(u) \in {end, send_uframe(y, "SABME", FALSE, TRUE)}
    BY DEF l2_st5_tout_200, DChanWait
  <2>2. Drops(u, end) /\ Drops(u, y) /\ Fits(y)
    BY <1>3, EmptySeq DEF Drops, Fits, Fields
  <2> HIDE DEF end, y
  <2>3. Lighter(y, send_uframe(y, "SABME", FALSE, TRUE))
    BY <2>2, UFrameLighter
  <2> QED BY <1>3, <2>1, <2>2, <2>3, DropsLighter, DropsThen
<1>4. ASSUME NEW u, Fits(u) PROVE Lighter(u, l2_st6_tout_200(u))
  <2> DEFINE x == Ask([FsmChangeState(u, 4) EXCEPT !.t200Run = FALSE], "H")
             end == lapb_dl_release_l2l3(x, "DL_RELEASE_CNF")
             y == AddT200([u EXCEPT !.rc = @ + 1])
  <2>1. l2_st6_tout_200(u) \in {end, send_uframe(y, "DISC", FALSE, TRUE)}
    BY DEF l2_st6_tout_200, DChanWait
  <2>2. Drops(u, end) /\ Drops(u, y) /\ Fits(y)
    BY <1>4 DEF Drops, Fits, Fields
  <2> HIDE DEF end, y
  <2>3. Lighter(y, send_uframe(y, "DISC", FALSE, TRUE))
    BY <2>2, UFrameLighter
  <2> QED BY <1>4, <2>1, <2>2, <2>3, DropsLighter, DropsThen
<1>5. ASSUME NEW u, Fits(u) PROVE Lighter(u, l2_st7_tout_200(u))
  <2> DEFINE x == FsmChangeState([u EXCEPT !.t200Run = FALSE], 8)
             y == transmit_enquiry(x)
             z == [y EXCEPT !.rc = 1]
  <2>1. l2_st7_tout_200(u) = z
    BY DEF l2_st7_tout_200, DChanWait
  <2>2. Drops(u, x) /\ Fits(x)
    BY <1>5 DEF Drops, Fits, Fields
  <2> HIDE DEF x
  <2>3. Lighter(x, y)
    BY <2>2, AcksLighter
  <2> HIDE DEF y
  <2>4. Drops(y, z)
    BY <2>3 DEF Drops, Lighter, Fits, Fields
  <2> HIDE DEF z
  <2> QED BY <1>5, <2>1, <2>2, <2>3, <2>4, DropsThen, ThenDrops
<1>6. ASSUME NEW u, Fits(u) PROVE Lighter(u, l2_st8_tout_200(u))
  <2> DEFINE x == [u EXCEPT !.t200Run = FALSE]
             y == transmit_enquiry(x)
             z == [y EXCEPT !.rc = @ + 1]
             r == Reestablish(Ask(x, "I"))
  <2>1. l2_st8_tout_200(u) \in {z, r}
    BY DEF l2_st8_tout_200, DChanWait
  <2>2. Drops(u, x) /\ Fits(x)
    BY <1>6 DEF Drops, Fits, Fields
  <2> HIDE DEF x
  <2>3. Lighter(x, y) /\ Lighter(x, r)
    BY <2>2, AcksLighter, AskReestablish
  <2> HIDE DEF y, r
  <2>4. Drops(y, z)
    BY <2>3 DEF Drops, Lighter, Fits, Fields
  <2> HIDE DEF z
  <2>5. Lighter(u, y) /\ Lighter(u, r)
    BY <1>6, <2>2, <2>3, DropsThen
  <2> QED BY <1>6, <2>1, <2>4, <2>5, ThenDrops
<1>7. ASSUME NEW u, Fits(u) PROVE Lighter(u, l2_st7_tout_203(u))
  <2> DEFINE x == FsmChangeState(u, 8)
             y == transmit_enquiry(x)
             z == [y EXCEPT !.rc = 0]
  <2>1. l2_st7_tout_203(u) = z
    BY DEF l2_st7_tout_203, DChanWait
  <2>2. Drops(u, x) /\ Fits(x)
    BY <1>7 DEF Drops, Fits, Fields
  <2> HIDE DEF x
  <2>3. Lighter(x, y)
    BY <2>2, AcksLighter
  <2> HIDE DEF y
  <2>4. Drops(y, z)
    BY <2>3 DEF Drops, Lighter, Fits, Fields
  <2> HIDE DEF z
  <2> QED BY <1>7, <2>1, <2>2, <2>3, <2>4, DropsThen, ThenDrops
<1>8. /\ Lighter(a, l2_st5_tout_200(a)) /\ Lighter(a, l2_st6_tout_200(a))
      /\ Lighter(a, l2_st7_tout_200(a)) /\ Lighter(a, l2_st8_tout_200(a))
      /\ Lighter(b, l2_st7_tout_203(b)) /\ Lighter(a, a) /\ Lighter(b, b)
  BY <1>2, <1>3, <1>4, <1>5, <1>6, <1>7, LighterRefl
<1>9. /\ Lighter(s, l2_st5_tout_200(a)) /\ Lighter(s, l2_st6_tout_200(a))
      /\ Lighter(s, l2_st7_tout_200(a)) /\ Lighter(s, l2_st8_tout_200(a))
      /\ Lighter(s, l2_st7_tout_203(b)) /\ Lighter(s, a) /\ Lighter(s, b)
  BY <1>2, <1>8, DropsThen
<1> QED BY <1>1, <1>9

-----------------------------------------------------------------------------
(* The events of the channel *)

LEMMA SABMELighter == ASSUME NEW s, Fits(s), NEW f PROVE Lighter(s, EvSABME(s, f))
BY StartMultiLighter, UFrameLighter, RestartMultiLighter, LighterRefl
   DEF EvSABME, l2_send_UA, l2_send_DM

LEMMA DISCLighter == ASSUME NEW s, Fits(s), NEW f PROVE Lighter(s, EvDISC(s, f))
BY StopMultiLighter, UFrameLighter, LighterRefl DEF EvDISC, l2_send_UA, l2_send_DM

LEMMA UALighter == ASSUME NEW s, Fits(s), NEW f PROVE Lighter(s, EvUA(s, f))
<1> HIDE DEF Ask
<1>1. /\ Lighter(s, l2_mdl_error_ua(s, f.pf)) /\ Lighter(s, l2_released(s, f.pf))
      /\ Lighter(s, l2_connected(s, f.pf)) /\ Lighter(s, s)
  BY QuietLighter, ConnectedLighter, LighterRefl
<1> QED BY <1>1 DEF EvUA

LEMMA DMLighter == ASSUME NEW s, Fits(s), NEW f PROVE Lighter(s, EvDM(s, f))
<1>1. Lighter(s, l2_reestablish(s, f.pf))
  BY DropsEstablish, LighterRefl DEF l2_reestablish
<1>2. Lighter(s, l2_st5_dm_release(s, f.pf)) /\ Lighter(s, l2_st6_dm_release(s, f.pf))
  BY QuietLighter
<1>3. Lighter(s, l2_mdl_error_dm(s, f.pf)) /\ Lighter(s, l2_st8_mdl_error_dm(s, f.pf))
  <2>1. Drops(s, Ask(s, "B"))
    BY DEF Drops, Fits, Fields
  <2> HIDE DEF Ask
  <2>2. Lighter(s, Ask(s, "B")) /\ \A r : Lighter(s, Reestablish(Ask(s, r)))
    BY <2>1, DropsLighter, AskReestablish
  <2> QED BY <2>2 DEF l2_mdl_error_dm, l2_st8_mdl_error_dm
<1> QED BY <1>1, <1>2, <1>3, LighterRefl DEF EvDM

LEMMA FRMRLighter == ASSUME NEW s, Fits(s), NEW rejected PROVE Lighter(s, EvFRMR(s, rejected))
<1> HIDE DEF Ask
<1> QED BY AskReestablish, LighterRefl DEF EvFRMR, l2_got_FRMR

LEMMA SuperLighter ==
    ASSUME NEW s, Good(s), NEW f, Numbered(f)
    PROVE  Lighter(s, EvSuper(s, f, <<>>))
<1>1. Fits(s)
  BY SaneFits DEF Good, Sane
<1> QED BY <1>1, St7SuperLighter, St8SuperLighter, LighterRefl DEF EvSuper

LEMMA EstablishReqLighter ==
    ASSUME NEW s, Fits(s)
    PROVE  Lighter(s, EvDlEstablish(s)) /\ Lighter(s, DlEstablishReq(s))
<1>1. Lighter(s, EvDlEstablish(s))
  <2> DEFINE a == Ask(FsmChangeState(s, 3), "MDL_ASSIGN")
             b == FsmChangeState(s, 3)
             c == [PurgeI(s) EXCEPT !.l3Init = TRUE, !.pendRel = FALSE]
  <2>1. EvDlEstablish(s) \in {s, a, b, c, l2_establish(s), l2_l3_reestablish(s)}
    BY DEF EvDlEstablish
  <2>2. Drops(s, a) /\ Drops(s, b) /\ Drops(s, c)
    BY EmptySeq DEF Drops, Fits, Fields
  <2> HIDE DEF a, b, c
  <2> QED BY <2>1, <2>2, DropsLighter, DropsEstablish, LighterRefl
<1>2. Lighter(s, DlEstablishReq(s))
  <2> DEFINE a == Ask([s EXCEPT !.estabPend = @ \/ s.orig], "PH_ACTIVATE")
             b == Ask([s EXCEPT !.estabPend = @ \/ LAPD \/ s.orig], "PH_ACTIVATE")
  <2>1. DlEstablishReq(s) \in {s, b, EvDlEstablish(s)}
    BY DEF DlEstablishReq
  <2>2. Drops(s, b)
    BY DEF Drops, Fits, Fields
  <2> HIDE DEF b
  <2> QED BY <1>1, <2>1, <2>2, DropsLighter, LighterRefl
<1> QED BY <1>1, <1>2

LEMMA ReleaseReqLighter == ASSUME NEW s, Fits(s) PROVE Lighter(s, DlReleaseReq(s))
<1> DEFINE a == Ask(s, "PH_DEACTIVATE")
           b == Tell(a, "DL_RELEASE_CNF")
           c == [a EXCEPT !.pendRel = TRUE]
<1>1. DlReleaseReq(s) \in {a, b, c, l2_disconnect(a)}
  BY DEF DlReleaseReq, EvDlRelease
<1>2. Drops(s, a) /\ Drops(s, b) /\ Drops(s, c) /\ Fits(a)
  BY DEF Drops, Fits, Fields
<1> HIDE DEF a, b, c
<1>3. Lighter(s, l2_disconnect(a))
  BY <1>2, DisconnectLighter, DropsThen
<1> QED BY <1>1, <1>2, <1>3, DropsLighter

LEMMA Layer1Lighter ==
    ASSUME NEW s, Fits(s)
    PROVE  Lighter(s, PhActivate(s)) /\ Lighter(s, PhDeactivate(s)) /\ Lighter(s, PhTxDone(s))
<1> DEFINE a == [s EXCEPT !.l1Activ = TRUE, !.estabPend = FALSE]
           b == [s EXCEPT !.l1Activ = FALSE]
<1>1. /\ PhActivate(s) \in {a, EvDlEstablish(a)} /\ PhDeactivate(s) = EvL1Deactivate(b)
  BY DEF PhActivate, PhDeactivate
<1>2. Drops(s, a) /\ Drops(s, b) /\ Drops(s, PhTxDone(s)) /\ Fits(a) /\ Fits(b)
  BY DEF PhTxDone, Drops, Fits, Fields
<1> HIDE DEF a, b
<1>3. Lighter(a, EvDlEstablish(a))
  BY <1>2, EstablishReqLighter
<1>4. Lighter(b, EvL1Deactivate(b))
  BY <1>2, QuietLighter DEF EvL1Deactivate
<1> QED BY <1>1, <1>2, <1>3, <1>4, DropsLighter, DropsThen

\* A write adds one frame, which it counts.
LEMMA WriteHeavier ==
    ASSUME NEW s, Fits(s), NEW d
    PROVE  LET t == EvDlData(s, d)
           IN  Fits(t) /\ Held(t) <= Held(s) + 1 /\ Surplus(t) <= Surplus(s)
<1> DEFINE a == AddTxCnt(s, 1)
           q == [a EXCEPT !.iq = Append(@, d)]
           t == EvDlData(s, d)
<1>1. t \in {s, a, q, PullRequest(q)}
  BY DEF EvDlData
<1>2. /\ Fields \subseteq DOMAIN a /\ a.iq = s.iq /\ a.out = s.out /\ a.cnt = s.cnt + 1
      /\ a.win = s.win
  BY DEF AddTxCnt, Fits, Fields
<1> HIDE DEF a, t
<1>3. /\ Fields \subseteq DOMAIN q /\ q.iq = Append(s.iq, d) /\ q.out = s.out
      /\ q.cnt = s.cnt + 1 /\ q.win = s.win
  BY <1>2 DEF Fields
<1> HIDE DEF q
<1>4. IsSeq(q.iq) /\ Len(q.iq) = Len(s.iq) + 1
  BY <1>3, AppendSeq DEF Fits
<1>5. Fits(a) /\ Fits(q)
  BY <1>2, <1>3, <1>4 DEF Fits
<1>6. Filled(a) = Filled(s) /\ Filled(q) = Filled(s)
  BY <1>2, <1>3 DEF Filled
<1>7. /\ Len(s.iq) \in Nat /\ Len(s.out) \in Nat /\ s.cnt \in Nat
      /\ Cardinality(Filled(s)) \in Nat
  BY FitsNumbers
<1>8. Held(a) <= Held(s) + 1 /\ Held(q) <= Held(s) + 1 /\ Held(s) <= Held(s) + 1
  BY <1>2, <1>4, <1>6, <1>7 DEF Held
<1>9. Surplus(a) <= Surplus(s) /\ Surplus(q) <= Surplus(s) /\ Surplus(s) <= Surplus(s)
  <2>1. Surplus(a) <= Surplus(s)
    BY <1>2, <1>7 DEF Surplus
  <2>2. Surplus(q) <= Surplus(s)
    BY <1>3, <1>4, <1>7 DEF Surplus
  <2>3. Surplus(s) <= Surplus(s)
    BY <1>7 DEF Surplus
  <2> QED BY <2>1, <2>2, <2>3
<1>10. /\ Fits(PullRequest(q)) /\ Held(PullRequest(q)) <= Held(s) + 1
       /\ Surplus(PullRequest(q)) <= Surplus(s)
  <2> DEFINE p == PullRequest(q)
  <2>1. Lighter(q, p)
    BY <1>5, PullRequestLighter
  <2> HIDE DEF p
  <2>2. Fits(p) /\ Held(p) <= Held(q) /\ Surplus(p) <= Surplus(q)
    BY <2>1 DEF Lighter
  <2>3. Held(p) \in Nat /\ Held(q) \in Nat /\ Held(s) \in Nat
        /\ Surplus(p) \in Int /\ Surplus(q) \in Int /\ Surplus(s) \in Int
    BY <1>5, <2>2, FitsNumbers
  <2>4. Held(p) <= Held(s) + 1 /\ Surplus(p) <= Surplus(s)
    BY <1>8, <1>9, <2>2, <2>3
  <2> QED BY <2>2, <2>4 DEF p
<1>11. Fits(t) /\ Held(t) <= Held(s) + 1 /\ Surplus(t) <= Surplus(s)
  BY <1>1, <1>5, <1>8, <1>9, <1>10
<1> QED BY <1>11 DEF t

-----------------------------------------------------------------------------
(* The specification *)

Limit == MAX_DATA_MEM + Window

\* Between two steps layer 2 has passed on whatever it sent and counted.
IInv ==
    /\ Safe(l2) /\ l2.out = <<>> /\ l2.cnt = 0
    /\ txCnt \in Nat /\ sq \in Nat /\ Covered
    /\ Held(l2) <= Limit

LEMMA SafeFits == ASSUME NEW s, Safe(s) PROVE Fits(s) /\ (s.st \in {7, 8} => Good(s))
BY SafeSt, SaneFits

LEMMA IInvNumbers ==
    ASSUME IInv
    PROVE  /\ Fits(l2) /\ Len(l2.iq) \in Nat /\ Held(l2) \in Nat /\ Surplus(l2) = Len(l2.iq)
           /\ Limit \in Nat /\ Len(l2.iq) + sq <= txCnt
<1>1. Fits(l2) /\ Len(l2.iq) \in Nat /\ Held(l2) \in Nat
  BY SafeFits, FitsNumbers DEF IInv
<1>2. Surplus(l2) = Len(l2.iq)
  BY <1>1, EmptySeq DEF IInv, Surplus
<1>3. Limit \in Nat
  BY L2Assumption DEF Limit
<1> QED BY <1>1, <1>2, <1>3 DEF IInv, Covered, Waiting

LEMMA FreshFields ==
    ASSUME NEW s, Safe(s)
    PROVE  LET t == Fresh(s)
           IN  /\ Safe(t) /\ t.out = <<>> /\ t.cnt = 0 /\ t.iq = s.iq /\ Held(t) = Held(s)
<1> DEFINE t == Fresh(s)
<1>1. Safe(t)
  BY SafeFresh
<1>2. t.out = <<>> /\ t.cnt = 0 /\ t.iq = s.iq /\ t.win = s.win
  BY SafeSt DEF Fresh, L2State
<1> HIDE DEF t
<1>3. Held(t) = Held(s)
  BY <1>2 DEF Held, Filled
<1> QED BY <1>1, <1>2, <1>3 DEF t

\* What one handler may do.
Allowed(s) ==
    Safe(s) /\ Fits(s) /\ Held(s) <= Limit /\ Surplus(s) <= Surplus(l2)

LEMMA LighterAllowed ==
    ASSUME IInv, NEW s, Safe(s), Lighter(l2, s) PROVE Allowed(s)
<1>1. Held(s) \in Nat /\ Held(s) <= Held(l2)
  BY FitsNumbers DEF Lighter
<1> QED BY <1>1, IInvNumbers DEF Allowed, Lighter, IInv

\* The account: frames that leave i_queue (i) and what is sent of them (o, c).
LEMMA Account ==
    ASSUME NEW i \in Nat, NEW o \in Nat, NEW c \in Nat, NEW q \in Nat, NEW k \in Nat,
           NEW u \in Nat, NEW n \in {0, 1}, n <= o, i + o - c <= u, u + q <= k
    PROVE  /\ q + o - n \in Nat /\ k + c - n \in Nat
           /\ i + (q + o - n) <= k + c - n
<1>1. n \in Nat
  OBVIOUS
<1> QED BY <1>1

LEMMA MoveInv ==
    ASSUME IInv, NEW s, Allowed(s), NEW n \in {0, 1}, n = 1 => s.out # <<>>,
           l2' = Fresh(s), txCnt' = txCnt + s.cnt - n, sq' = sq + Len(s.out) - n
    PROVE  IInv'
<1>1. /\ Safe(l2') /\ l2'.out = <<>> /\ l2'.cnt = 0 /\ l2'.iq = s.iq /\ Held(l2') = Held(s)
  BY FreshFields DEF Allowed
<1>2. /\ Len(s.iq) \in Nat /\ Len(s.out) \in Nat /\ s.cnt \in Nat
      /\ n <= Len(s.out) /\ txCnt \in Nat /\ sq \in Nat
  <2>1. IsSeq(s.out)
    BY DEF Allowed, Fits
  <2>2. s.out # <<>> => Len(s.out) # 0
    BY <2>1, LenSeq
  <2>3. Len(s.iq) \in Nat /\ Len(s.out) \in Nat /\ s.cnt \in Nat
    BY FitsNumbers DEF Allowed
  <2> QED BY <2>2, <2>3 DEF IInv
<1>3. Len(s.iq) + Len(s.out) - s.cnt <= Len(l2.iq) /\ Len(l2.iq) + sq <= txCnt
  BY IInvNumbers DEF Allowed, Surplus
<1>4. Len(l2.iq) \in Nat
  BY IInvNumbers
<1>5. sq' \in Nat /\ txCnt' \in Nat /\ Len(s.iq) + sq' <= txCnt'
  <2> DEFINE i == Len(s.iq)
             o == Len(s.out)
             c == s.cnt
             u == Len(l2.iq)
  <2>1. i \in Nat /\ o \in Nat /\ c \in Nat /\ u \in Nat /\ sq \in Nat /\ txCnt \in Nat
        /\ n <= o /\ i + o - c <= u /\ u + sq <= txCnt
    BY <1>2, <1>3, <1>4
  <2>2. sq' = sq + o - n /\ txCnt' = txCnt + c - n
    OBVIOUS
  <2> HIDE DEF i, o, c, u
  <2>3. sq' \in Nat /\ txCnt' \in Nat /\ i + sq' <= txCnt'
    BY <2>1, <2>2, Account
  <2> QED BY <2>3 DEF i
<1>6. Held(l2') <= Limit
  BY <1>1 DEF Allowed
<1>7. Held(l2)' = Held(l2')
  BY DEF Held, Filled
<1>8. Safe(l2)'
  BY <1>1 DEF Safe, Sane, Ring, Outstanding, Behind
<1> QED BY <1>1, <1>5, <1>6, <1>7, <1>8 DEF IInv, Covered, Waiting, Limit

LEMMA InitHeld ==
    ASSUME NEW orig \in BOOLEAN
    PROVE  LET s == InitL2(orig)
           IN  /\ Safe(s) /\ Fits(s) /\ Held(s) = 0 /\ s.out = <<>> /\ s.cnt = 0 /\ s.iq = <<>>
<1> DEFINE s == InitL2(orig)
<1>1. Safe(s)
  BY SafeInitL2
<1>2. s.out = <<>> /\ s.cnt = 0 /\ s.iq = <<>> /\ s.win = EmptyWin
  BY DEF InitL2
<1> HIDE DEF s
<1>3. Filled(s) = {}
  BY <1>2 DEF Filled
<1>4. Held(s) = 0
  BY <1>2, <1>3, EmptySeq, FS_EmptySet DEF Held
<1> QED BY <1>1, <1>2, <1>4, SafeFits DEF s

LEMMA ReleaseInv == ASSUME IInv, release_b_st PROVE IInv'
<1>1. l2' = InitL2(FALSE) /\ txCnt' = 0 /\ sq' = 0
  BY DEF release_b_st, NoStack
<1>2. /\ Safe(l2') /\ Held(l2') = 0 /\ l2'.out = <<>> /\ l2'.cnt = 0 /\ l2'.iq = <<>>
  BY <1>1, InitHeld
<1>3. Held(l2)' = Held(l2')
  BY DEF Held, Filled
<1>4. Safe(l2)'
  BY <1>2 DEF Safe, Sane, Ring, Outstanding, Behind
<1>5. 0 <= Limit
  BY L2Assumption DEF Limit
<1>6. Covered'
  <2>1. Len(l2'.iq) = 0
    BY <1>2, EmptySeq
  <2>2. 0 + 0 <= 0
    OBVIOUS
  <2> QED BY <1>1, <2>1, <2>2 DEF Covered, Waiting
<1> QED BY <1>1, <1>2, <1>3, <1>4, <1>5, <1>6 DEF IInv, Limit

LEMMA BecomesInv == ASSUME IInv, NEW s, Allowed(s), Becomes(s) PROVE IInv'
<1> DEFINE n == IF s.out # <<>> /\ ~l2.txBusy THEN 1 ELSE 0
<1>1. CASE release_b_st
  BY <1>1, ReleaseInv
<1>2. CASE l2' = Fresh(s) /\ txCnt' = txCnt + s.cnt - n /\ sq' = sq + Len(s.out) - n
  <2>1. n \in {0, 1} /\ (n = 1 => s.out # <<>>)
    OBVIOUS
  <2> HIDE DEF n
  <2> QED BY <1>2, <2>1, MoveInv
<1> QED BY <1>1, <1>2 DEF Becomes

LEMMA OpenInv == ASSUME IInv, NEW out \in BOOLEAN, lli_init_bchan(out) PROVE IInv'
<1> DEFINE z == InitL2(out)
           s == DlEstablishReq(z)
<1>1. Safe(z) /\ Fits(z) /\ Held(z) = 0
  BY InitHeld
<1>2. l2' = Fresh(s) /\ txCnt' = txCnt /\ sq' = sq
  BY DEF lli_init_bchan
<1> HIDE DEF z
<1>3. Safe(s) /\ Lighter(z, s)
  BY <1>1, SafeDlEstablishReq, EstablishReqLighter
<1> HIDE DEF s
<1>4. Held(s) <= 0 /\ Fits(s)
  BY <1>1, <1>3 DEF Lighter
<1>5. Len(s.iq) = 0 /\ Held(s) = 0
  BY <1>4, FitsNumbers DEF Held
<1>6. /\ Safe(l2') /\ l2'.out = <<>> /\ l2'.cnt = 0 /\ l2'.iq = s.iq /\ Held(l2') = Held(s)
  BY <1>2, <1>3, FreshFields
<1>7. Held(l2)' = Held(l2')
  BY DEF Held, Filled
<1>8. Safe(l2)'
  BY <1>6 DEF Safe, Sane, Ring, Outstanding, Behind
<1>9. 0 + sq <= txCnt /\ 0 <= Limit
  BY IInvNumbers DEF IInv
<1> QED BY <1>2, <1>5, <1>6, <1>7, <1>8, <1>9 DEF IInv, Covered, Waiting, Limit

LEMMA WriteInv == ASSUME IInv, NEW d \in Data, HiSax_writebuf_skb(d) PROVE IInv'
<1> DEFINE s == EvDlData(l2, d)
<1>1. txCnt + 1 <= MAX_DATA_MEM /\ Becomes(s)
  BY DEF HiSax_writebuf_skb
<1>2. Safe(s)
  BY SafeEvDlData DEF IInv
<1>3. Fits(s) /\ Held(s) <= Held(l2) + 1 /\ Surplus(s) <= Surplus(l2)
  BY WriteHeavier, IInvNumbers
<1> HIDE DEF s
<1>4. Held(l2) + 1 <= Limit
  <2>1. /\ Len(l2.iq) \in Nat /\ Cardinality(Filled(l2)) \in Nat
        /\ Cardinality(Filled(l2)) <= Window
    BY IInvNumbers, FilledFinite
  <2>2. Len(l2.iq) + 1 <= MAX_DATA_MEM
    BY <1>1, <2>1, IInvNumbers DEF IInv
  <2> QED BY <2>1, <2>2, L2Assumption DEF Held, Limit
<1>5. Held(s) <= Limit
  BY <1>3, <1>4, IInvNumbers, FitsNumbers
<1> QED BY <1>1, <1>2, <1>3, <1>5, BecomesInv DEF Allowed

LEMMA CloseInv == ASSUME IInv, lli_disconn_bchan PROVE IInv'
<1> DEFINE s == DlReleaseReq(l2)
           n == IF s.out # <<>> /\ ~l2.txBusy THEN 1 ELSE 0
<1>1. Safe(s) /\ Lighter(l2, s)
  BY SafeDlReleaseReq, ReleaseReqLighter, IInvNumbers DEF IInv
<1>2. \/ release_b_st
      \/ l2' = Fresh(s) /\ txCnt' = txCnt + s.cnt - n /\ sq' = sq + Len(s.out) - n
  BY DEF lli_disconn_bchan
<1>3. n \in {0, 1} /\ (n = 1 => s.out # <<>>)
  OBVIOUS
<1> HIDE DEF s, n
<1>4. Allowed(s)
  BY <1>1, LighterAllowed
<1> QED BY <1>2, <1>3, <1>4, ReleaseInv, MoveInv

LEMMA UInv ==
    ASSUME IInv, NEW t \in {"SABME", "DISC", "UA", "DM", "FRMR"}, NEW pf \in BOOLEAN, RcvU(t, pf)
    PROVE  IInv'
<1> DEFINE f == UFrame(t, t \in {"UA", "DM"}, pf)
           s == PhData(l2, f, <<>>, <<>>)
<1>1. Becomes(s)
  BY DEF RcvU
<1>2. f.t = t /\ f.pf \in BOOLEAN
  BY DEF UFrame
<1>3. Safe(l2) /\ Fits(l2)
  BY IInvNumbers DEF IInv
<1> HIDE DEF f
<1>4. s \in {EvSABME(l2, f), EvDISC(l2, f), EvUA(l2, f), EvDM(l2, f), EvFRMR(l2, "I")}
  BY <1>2 DEF PhData, STypes
<1> HIDE DEF s
<1>5. Safe(s)
  BY <1>2, <1>3, <1>4, SafeEvSABME, SafeEvDISC, SafeEvUA, SafeEvDM, SafeEvFRMR
<1>6. Lighter(l2, s)
  BY <1>3, <1>4, SABMELighter, DISCLighter, UALighter, DMLighter, FRMRLighter
<1> QED BY <1>1, <1>5, <1>6, LighterAllowed, BecomesInv

LEMMA SuperInv ==
    ASSUME IInv, NEW t \in STypes, NEW rsp \in BOOLEAN, NEW pf \in BOOLEAN, NEW nr \in SeqNo,
           RcvSuper(t, rsp, pf, nr)
    PROVE  IInv'
<1> DEFINE f == [t |-> t, rsp |-> rsp, pf |-> pf, ns |-> 0, nr |-> nr, d |-> NoSkb]
           s == EvSuper(l2, f, <<>>)
<1>1. Becomes(s) /\ l2.st \in {7, 8}
  BY DEF RcvSuper
<1>2. Numbered(f) /\ Written(<<>>)
  BY DEF Numbered, Written
<1> HIDE DEF f
<1>3. Safe(s)
  BY <1>2, SafeEvSuper DEF IInv
<1>4. Lighter(l2, s)
  BY <1>1, <1>2, SafeFits, SuperLighter DEF IInv
<1> HIDE DEF s
<1> QED BY <1>1, <1>3, <1>4, LighterAllowed, BecomesInv

LEMMA IframeInv ==
    ASSUME IInv, NEW pf \in BOOLEAN, NEW ns \in SeqNo, NEW nr \in SeqNo, NEW d \in Data,
           RcvI(pf, ns, nr, d)
    PROVE  IInv'
<1> DEFINE f == [t |-> "I", rsp |-> FALSE, pf |-> pf, ns |-> ns, nr |-> nr, d |-> d]
           s == EvI(l2, f, <<>>, <<>>)
<1>1. Becomes(s)
  BY DEF RcvI
<1>2. Numbered(f) /\ f.d \in Data /\ Written(<<>>)
  BY DEF Numbered, Written
<1> HIDE DEF f
<1>3. Safe(s)
  BY <1>2, SafeEvI DEF IInv
<1>4. Lighter(l2, s)
  BY IInvNumbers, IframeLighter, LighterRefl DEF EvI
<1> HIDE DEF s
<1> QED BY <1>1, <1>3, <1>4, LighterAllowed, BecomesInv

\* Layer 1, the timers, and a pull that layer 1 had remembered.
LEMMA LowerInv ==
    ASSUME IInv, L1Up \/ L1Down \/ T200 \/ T203 \/ PullConfirm
    PROVE  IInv'
<1>1. Safe(l2) /\ Fits(l2)
  BY IInvNumbers DEF IInv
<1>2. /\ Allowed(PhActivate(l2)) /\ Allowed(PhDeactivate(l2)) /\ Allowed(EvT200(l2))
      /\ Allowed(EvT203(l2)) /\ Allowed(PhPullConfirm(l2))
  <2>1. /\ Safe(PhActivate(l2)) /\ Safe(PhDeactivate(l2)) /\ Safe(EvT200(l2))
        /\ Safe(EvT203(l2)) /\ Safe(PhPullConfirm(l2))
    BY <1>1, SafePhActivate, SafePhDeactivate, SafeEvT200, SafeEvT203, SafePhPullConfirm
  <2>2. /\ Lighter(l2, PhActivate(l2)) /\ Lighter(l2, PhDeactivate(l2))
        /\ Lighter(l2, EvT200(l2)) /\ Lighter(l2, EvT203(l2)) /\ Lighter(l2, PhPullConfirm(l2))
    BY <1>1, Layer1Lighter, TimerLighter, PullRequestLighter
  <2> QED BY <2>1, <2>2, LighterAllowed
<1> QED BY <1>2, BecomesInv DEF L1Up, L1Down, T200, T203, PullConfirm

LEMMA XPRInv == ASSUME IInv, XPR PROVE IInv'
<1>1. CASE sq > 0 /\ sq' = sq - 1 /\ txCnt' = txCnt - 1 /\ l2' = l2
  <2>1. sq' \in Nat /\ txCnt' \in Nat /\ Len(l2.iq) + sq' <= txCnt'
    BY <1>1, IInvNumbers DEF IInv
  <2>2. Safe(l2)' /\ Held(l2)' = Held(l2)
    BY <1>1 DEF IInv, Safe, Sane, Ring, Outstanding, Behind, Held, Filled
  <2> QED BY <1>1, <2>1, <2>2 DEF IInv, Covered, Waiting, Limit
<1>2. CASE l2' = PhTxDone(l2) /\ txCnt' = txCnt /\ sq' = sq
  <2>1. Safe(l2') /\ Lighter(l2, l2')
    BY <1>2, SafePhTxDone, Layer1Lighter, IInvNumbers DEF IInv
  <2>2. l2'.out = l2.out /\ l2'.cnt = l2.cnt /\ l2'.iq = l2.iq
    BY <1>2, IInvNumbers DEF PhTxDone, Fits, Fields
  <2>3. Held(l2)' = Held(l2')
    BY DEF Held, Filled
  <2>4. Safe(l2)'
    BY <2>1 DEF Safe, Sane, Ring, Outstanding, Behind
  <2>5. Held(l2') <= Limit
    BY <2>1, LighterAllowed DEF Allowed
  <2> QED BY <1>2, <2>2, <2>3, <2>4, <2>5 DEF IInv, Covered, Waiting, Limit
<1> QED BY <1>1, <1>2 DEF XPR

LEMMA IInit == Init => IInv
<1> SUFFICES ASSUME Init PROVE IInv
  OBVIOUS
<1>1. l2 = InitL2(FALSE) /\ txCnt = 0 /\ sq = 0
  BY DEF Init, NoStack
<1>2. Safe(l2) /\ Held(l2) = 0 /\ l2.out = <<>> /\ l2.cnt = 0 /\ l2.iq = <<>>
  BY <1>1, InitHeld
<1>3. 0 <= Limit
  BY L2Assumption DEF Limit
<1>4. Covered
  <2>1. Len(l2.iq) = 0
    BY <1>2, EmptySeq
  <2>2. 0 + 0 <= 0
    OBVIOUS
  <2> QED BY <1>1, <2>1, <2>2 DEF Covered, Waiting
<1> QED BY <1>1, <1>2, <1>3, <1>4 DEF IInv

LEMMA INext == IInv /\ [Next]_vars => IInv'
<1> SUFFICES ASSUME IInv, [Next]_vars PROVE IInv'
  OBVIOUS
<1>1. CASE Next
  BY <1>1, OpenInv, CloseInv, ReleaseInv, WriteInv, UInv, SuperInv, IframeInv, LowerInv, XPRInv
     DEF Next, lli_rel_b
<1>2. CASE UNCHANGED vars
  BY <1>2 DEF vars, IInv, Safe, Sane, Ring, Outstanding, Behind, Held, Filled, Limit,
              Covered, Waiting
<1> QED BY <1>1, <1>2

\* No frame waits in i_queue or in squeue that tx_cnt does not count, whatever
\* the window, the modulus and the limit, behind any peer.
THEOREM CoveredAlways == Spec => []Covered
<1>1. IInv => Covered
  BY DEF IInv
<1> QED BY IInit, INext, <1>1, PTL DEF Spec

\* What one channel holds of the frames of the link level is bounded by the
\* limit of HiSax_writebuf_skb and one window.
THEOREM BoundedAlways == Spec => []Bounded
<1>1. IInv => Bounded
  BY DEF IInv, Bounded, Held, Filled, Unacked, Limit
<1> QED BY IInit, INext, <1>1, PTL DEF Spec
=============================================================================

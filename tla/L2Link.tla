------------------------------- MODULE L2Link -------------------------------
(***************************************************************************)
(* Two LAPB entities (Isdnl2) at the ends of a B channel.  Side 1 called.  *)
(* Frames arrive in order or are lost to a CRC error; each side may write  *)
(* data while its layer 3 believes that the link is up, and may hang up.   *)
(* A release takes layer 1 of that side down after a while (l1b_deactivate *)
(* and l1b_timer_deact of isdnl1.c).                                       *)
(***************************************************************************)
EXTENDS Isdnl2

CONSTANTS
    MaxReply,   \* bound: frames that side 2 writes
    Hangers,    \* the sides that may hang up
    MaxMsg,     \* bound: frames that side 1 writes
    MaxWire,    \* bound: layer 3 and timers wait while more frames are in flight
    MaxLoss,    \* bound: frames lost
    MaxEarly    \* bound: timers that expire while an answer is on its way

ASSUME LinkAssumption ==
    /\ MaxReply \in 0 .. MaxMsg /\ Hangers \subseteq {1, 2}
    /\ {MaxMsg, MaxWire, MaxLoss, MaxEarly} \subseteq Nat
    /\ ~LAPD /\ Data = 1 .. MaxMsg

VARIABLES
    l2,         \* l2[p]: the entity of side p
    wire,       \* wire[p]: frames from p that have not reached the other side
    up,         \* up[p]: the view that layer 3 of p has of the link
    wrote,      \* wrote[p]: the frames written by p so far
    got,        \* got[p]: what layer 3 of p received, in order
    reset,      \* reset[p]: layer 3 of p was told of a new link or of a release
    hung,       \* hung[p]: layer 3 of p has hung up
    closing,    \* closing[p]: layer 1 of p has been asked to deactivate
    loss, early \* how often a frame was lost, and a timer was early

vars == <<l2, wire, up, wrote, got, reset, hung, closing, loss, early>>

\* What the link promises: up, wrote, got and reset are those of DataLink.
INSTANCE DataLink

-----------------------------------------------------------------------------
Told(s) == \E i \in 1 .. Len(s.up) : s.up[i].p # "DL_DATA_IND"
IsUp(prim) == prim.p \in {"DL_ESTABLISH_IND", "DL_ESTABLISH_CNF"}
DataOf(s) ==
    LET ind == SelectSeq(s.up, LAMBDA x : x.p = "DL_DATA_IND")
    IN  [i \in 1 .. Len(ind) |-> ind[i].d]

\* Side p becomes s: its frames go on the wire, its primitives to layer 3.
\* The first time the link comes up is no reset.
Becomes(p, s, w) ==
    /\ l2' = [l2 EXCEPT ![p] = Fresh(s)]
    /\ wire' = [w EXCEPT ![p] = @ \o s.out]
    /\ got' = [got EXCEPT ![p] = @ \o DataOf(s)]
    /\ up' = IF Told(s) THEN [up EXCEPT ![p] = IsUp(s.up[Len(s.up)])] ELSE up
    /\ reset' = [reset EXCEPT ![p] =
                      @ \/ (Told(s) /\ (up[p] \/ \E q \in Sides : wrote[q] > 0))]
    /\ closing' = [closing EXCEPT ![p] =
                       (@ \/ "PH_DEACTIVATE" \in s.req) /\ s.l1Activ]

\* Nothing is on its way: frames take milliseconds, timers seconds.
Calm ==
    \A p \in Sides :
        wire[p] = <<>> /\ ~l2[p].txBusy /\ ~l2[p].pullReq /\ ~closing[p]

-----------------------------------------------------------------------------
\* A frame that finds layer 1 deactivated is gone.
Receive(p) ==
    LET w == [wire EXCEPT ![Peer(p)] = Tail(@)]
        f == Head(wire[Peer(p)])
    IN  /\ wire[Peer(p)] # <<>>
        /\ Becomes(p, IF l2[p].l1Activ THEN PhData(l2[p], f, <<>>, <<>>) ELSE l2[p], w)
        /\ UNCHANGED <<wrote, hung, loss, early>>

Lose(p) ==
    /\ wire[p] # <<>> /\ loss < MaxLoss
    /\ wire' = [wire EXCEPT ![p] = Tail(@)]
    /\ loss' = loss + 1
    /\ UNCHANGED <<l2, up, wrote, got, reset, hung, closing, early>>

Room(p) == Len(wire[p]) < MaxWire
Quota(p) == IF p = 1 THEN MaxMsg ELSE MaxReply

Write(p) ==
    /\ up[p] /\ ~hung[p] /\ wrote[p] < Quota(p) /\ Room(p)
    /\ wrote' = [wrote EXCEPT ![p] = @ + 1]
    /\ Becomes(p, EvDlData(l2[p], wrote[p] + 1), wire)
    /\ UNCHANGED <<hung, loss, early>>

\* The call: layer 3 of the calling side asks for the link, and does not
\* call again after the link is gone.
Establish ==
    /\ l2[1].st = 4 /\ l2[1].l1Activ /\ ~closing[1] /\ ~reset[1]
    /\ Becomes(1, DlEstablishReq(l2[1]), wire)
    /\ UNCHANGED <<wrote, hung, loss, early>>

Hangup(p) ==
    /\ p \in Hangers /\ up[p] /\ ~hung[p]
    /\ hung' = [hung EXCEPT ![p] = TRUE]
    /\ Becomes(p, DlReleaseReq(l2[p]), wire)
    /\ UNCHANGED <<wrote, loss, early>>

L1Down(p) ==
    /\ closing[p]
    /\ Becomes(p, PhDeactivate(l2[p]), wire)
    /\ UNCHANGED <<wrote, hung, loss, early>>

TxDone(p) ==
    /\ l2[p].txBusy
    /\ Becomes(p, PhTxDone(l2[p]), wire)
    /\ UNCHANGED <<wrote, hung, loss, early>>

PullConfirm(p) ==
    /\ ~l2[p].txBusy /\ l2[p].pullReq /\ Room(p)
    /\ Becomes(p, PhPullConfirm(l2[p]), wire)
    /\ UNCHANGED <<wrote, hung, loss, early>>

\* A timer is early if what it waits for may still be on its way.
Expire(p, s) ==
    /\ Calm \/ (early < MaxEarly /\ Room(p))
    /\ early' = IF Calm THEN early ELSE early + 1
    /\ Becomes(p, s, wire)
    /\ UNCHANGED <<wrote, hung, loss>>

T200(p) == l2[p].t200 /\ Expire(p, EvT200(l2[p]))
T203(p) == l2[p].t203 /\ Expire(p, EvT203(l2[p]))

Init ==
    /\ l2 = [p \in Sides |-> [InitL2(p = 1) EXCEPT !.l1Activ = TRUE]]
    /\ wire = [p \in Sides |-> <<>>]
    /\ up = [p \in Sides |-> FALSE]
    /\ wrote = [p \in Sides |-> 0]
    /\ got = [p \in Sides |-> <<>>]
    /\ reset = [p \in Sides |-> FALSE]
    /\ hung = [p \in Sides |-> FALSE]
    /\ closing = [p \in Sides |-> FALSE]
    /\ loss = 0 /\ early = 0

Next == \/ Establish
        \/ \E p \in Sides : \/ Receive(p) \/ Lose(p) \/ Write(p) \/ Hangup(p)
                            \/ L1Down(p) \/ TxDone(p) \/ PullConfirm(p)
                            \/ T200(p) \/ T203(p)

Spec == Init /\ [][Next]_vars

(***************************************************************************)
(* Frames that are not lost arrive, the transmitter drains, the bottom     *)
(* half runs, layer 1 goes down 10 ms after it is asked to, and timers     *)
(* expire.  Side 2 may ask for the line again and again with its T203      *)
(* while T200 of side 1 is pending; T200 is much the shorter of the two,   *)
(* so it expires all the same: strong fairness.                            *)
(***************************************************************************)
LineStep == \E p \in Sides : Receive(p) \/ TxDone(p) \/ PullConfirm(p) \/ L1Down(p)

LineReady ==
    \E p \in Sides :
        \/ wire[p] # <<>> \/ l2[p].txBusy \/ closing[p]
        \/ ~l2[p].txBusy /\ l2[p].pullReq /\ Room(p)
T200Ready(p) == Calm /\ l2[p].t200
T203Ready == Calm /\ \E p \in Sides : l2[p].t203

\* WF of the line, SF of T200 at each side and WF of T203, with the guards
\* written out.
Fairness ==
    /\ []<>(~LineReady) \/ []<><<LineStep>>_vars
    /\ \A p \in Sides : <>[](~T200Ready(p)) \/ []<><<T200(p)>>_vars
    /\ []<>(~T203Ready) \/ []<><<\E p \in Sides : T203(p)>>_vars

FairSpec == Spec /\ Fairness

-----------------------------------------------------------------------------
(* Correctness: besides LinkSpec and Delivery of DataLink *)

\* A side that hangs up is told that the link is gone, and the other side
\* finds out, by DISC or by its timers.
HangupEnds == (\E p \in Sides : hung[p]) ~> ~up[1] /\ ~up[2]
=============================================================================

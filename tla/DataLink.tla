------------------------------ MODULE DataLink ------------------------------
(***************************************************************************)
(* What multi-frame operation of layer 2 promises to the two layers 3 that *)
(* use it (the primitives of drivers/isdn/hisax/isdnl2.c): what one side   *)
(* writes the other receives, in order and once, for as long as neither is *)
(* told that the link was reset; after a reset frames may be missing, but  *)
(* none is ever repeated or out of order.                                  *)
(***************************************************************************)
EXTENDS Naturals, Sequences

CONSTANT MaxMsg     \* frames that each side writes at most, numbered from 1

Sides == {1, 2}
Peer(p) == 3 - p

VARIABLES
    up,         \* up[p]: layer 3 of p believes in the link
    wrote,      \* wrote[p]: how many frames p has written
    got,        \* got[p]: what p has received
    reset       \* reset[p]: p was told of a reset or a release

linkVars == <<up, wrote, got, reset>>

LastGot(p) == IF got[p] = <<>> THEN 0 ELSE got[p][Len(got[p])]

LinkInit ==
    /\ up = [p \in Sides |-> FALSE]
    /\ wrote = [p \in Sides |-> 0]
    /\ got = [p \in Sides |-> <<>>]
    /\ reset = [p \in Sides |-> FALSE]

LinkWrite(p) ==
    /\ up[p] /\ wrote[p] < MaxMsg
    /\ wrote' = [wrote EXCEPT ![p] = @ + 1]
    /\ UNCHANGED <<up, got, reset>>

LinkDeliver(p) ==
    /\ \E m \in LastGot(p) + 1 .. wrote[Peer(p)] :
           /\ m = LastGot(p) + 1 \/ \E q \in Sides : reset[q]
           /\ got' = [got EXCEPT ![p] = Append(@, m)]
    /\ UNCHANGED <<up, wrote, reset>>

\* The first establishment, before anything is written, is no reset.
LinkTell(p) ==
    /\ \E view \in BOOLEAN : up' = [up EXCEPT ![p] = view]
    /\ reset' = [reset EXCEPT ![p] = @ \/ up[p] \/ \E q \in Sides : wrote[q] > 0]
    /\ UNCHANGED <<wrote, got>>

LinkNext == \E p \in Sides : LinkWrite(p) \/ LinkDeliver(p) \/ LinkTell(p)

LinkSpec == LinkInit /\ [][LinkNext]_linkVars

-----------------------------------------------------------------------------
\* What is written is delivered, unless one of the sides is told of a reset.
Delivery ==
    []<>(\/ \A p \in Sides : Len(got[Peer(p)]) = wrote[p]
         \/ \E p \in Sides : reset[p])
=============================================================================

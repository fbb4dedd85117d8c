-------------------------------- MODULE InOrder --------------------------------
(***************************************************************************)
(* What a bundle of links promises to the network layer: of the frames     *)
(* that the peer sent some arrive, each of them whole and at most once, in *)
(* the order they were sent.                                               *)
(***************************************************************************)
EXTENDS Naturals, Sequences

LOCAL INSTANCE SequencesExt

VARIABLES
    sent,       \* frames that the peer has begun to send
    got         \* the frames that arrived, by their number

vars == <<sent, got>>

Init == sent = 0 /\ got = <<>>

Send == sent' = sent + 1 /\ UNCHANGED got

\* The arrival of a fragment may complete several frames.
Arrive ==
    /\ IsStrictPrefix(got, got')
    /\ \A i \in 1 .. Len(got') : got'[i] \in 1 .. sent
    /\ \A i, j \in 1 .. Len(got') : i < j => got'[i] < got'[j]
    /\ UNCHANGED sent

Next == Send \/ Arrive

Spec == Init /\ [][Next]_vars
=============================================================================

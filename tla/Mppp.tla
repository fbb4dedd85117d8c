---------------------------------- MODULE Mppp ----------------------------------
(***************************************************************************)
(* Reception of multilink PPP (isdn_ppp.c): fragments of frames arrive     *)
(* over several links of a bundle, each of which keeps their order and may *)
(* lose some; the queue mp->frags puts them together again.                *)
(*                                                                         *)
(* The peer is external: it numbers its fragments in the order it makes    *)
(* them and spreads them over the links.  What the code does with BEGIN    *)
(* and END flags that such a peer does not send is left out.               *)
(***************************************************************************)
EXTENDS Naturals, Sequences

LOCAL INSTANCE SequencesExt
LOCAL INSTANCE Functions

CONSTANTS
    Links,
    SeqSpace,             \* MP_LONGSEQ_MASK + 1
    MP_MAX_QUEUE_LEN,
    Starts,             \* numbers with which the peer may begin
    MaxSent,            \* bound: fragments of the peer
    None                \* the number before the first: LONG_MAX

ASSUME SpaceAssumption == SeqSpace % 4 = 0 /\ SeqSpace > 2 * MaxSent

VARIABLES
    net,        \* the peer and the lines; "got" are the frames that came out,
                \* "lost" those of which the line or the queue lost a part,
                \* "heard" the links with a last_link_seqno of their own
    mp,         \* struct ippp_bundle
    last        \* last_link_seqno of each link of net_dev->queue

vars == <<net, mp, last>>

Half == SeqSpace \div 2
Fragment ==     \* of frame number "frame"
    [seq : 0 .. SeqSpace - 1, begin : BOOLEAN, end : BOOLEAN, frame : 1 .. MaxSent]

\* LONG_MAX counts as the number before 0.
Num(a) == IF a = None THEN SeqSpace - 1 ELSE a
MP_LT(a, b) == (Num(a) + SeqSpace - Num(b)) % SeqSpace >= Half
MP_LE(a, b) == ~MP_LT(b, a)
Successor(n) == (n + 1) % SeqSpace

-----------------------------------------------------------------------------
(* isdn_ppp_mp_receive.  m holds mp and the local variables: "frag" and     *)
(* "start" are positions in m.frags, 0 stands for NULL, and "newfrag" is    *)
(* empty once the fragment is in the queue.                                 *)

Frag(m) == m.frags[m.frag]
HasNext(m) == m.frag < Len(m.frags)

\* isdn_ppp_mp_discard and isdn_ppp_mp_free_skb of the first n fragments.
Discard(m, n) ==
    [m EXCEPT !.frags = SubSeq(@, n + 1, Len(@)), !.frames = @ - n]

\* isdn_ppp_mp_reassembly of the fragments up to the current one; it may fail
\* for want of memory.
\* Mutant: a frame of one fragment stays counted.
Reassembly_bug(m) ==
    LET parts == SubSeq(m.frags, m.start, m.frag)
    IN  [Discard(m, m.frag) EXCEPT !.up = Append(@, parts),
                                   !.frames = IF Len(parts) = 1 THEN @ + 1 ELSE @]
Reassembly(m) ==
    LET parts == SubSeq(m.frags, m.start, m.frag)
    IN  [Discard(m, m.frag) EXCEPT
            !.up = IF m.nomem /\ Len(parts) > 1 THEN @ ELSE Append(@, parts)]

Insert(m) ==
    IF m.newfrag = <<>> THEN m
    ELSE IF m.newfrag[1].seq = Frag(m).seq
    THEN [m EXCEPT !.newfrag = <<>>, !.frames = @ - 1]
    ELSE IF HasNext(m) /\ ~MP_LT(m.newfrag[1].seq, m.frags[m.frag + 1].seq) THEN m
    ELSE [m EXCEPT !.frags = InsertAt(@, m.frag + 1, m.newfrag[1]), !.newfrag = <<>>]

\* The loop over the queue.
RECURSIVE Traverse(_)
\* Mutant: the walk ends with the first frame.
AfterFrame_bug(m, thisseq) == [m EXCEPT !.start = 0, !.frag = IF m.frags = <<>> THEN 0 ELSE 1]
\* A frame was put together: the next fragment may begin another.
AfterFrame(m, thisseq) ==
    LET first == IF m.frags = <<>> THEN 0 ELSE 1
    IN  [m EXCEPT !.frag = first,
                  !.start = IF first = 1 /\ m.frags[1].seq = Successor(thisseq)
                                /\ m.frags[1].begin THEN 1 ELSE 0]

\* No frame is complete with this fragment: before a gap, what cannot become
\* complete any more is thrown away.
Advance(m) ==
    LET thisseq == Frag(m).seq
    IN  IF ~HasNext(m) THEN [m EXCEPT !.start = 0, !.frag = 0]
        ELSE IF m.frags[m.frag + 1].seq = Successor(thisseq)
        THEN [m EXCEPT !.frag = @ + 1]
        ELSE IF MP_LT(thisseq, m.minseq)
        THEN [Discard(m, m.frag) EXCEPT !.start = 0, !.frag = 1]
        ELSE [m EXCEPT !.start = 0, !.frag = @ + 1]

\* Mutant: mp->seq stays.
Processed_bug(m, thisseq) == [m EXCEPT !.minseq = Successor(thisseq)]
Processed(m, thisseq) ==
    [m EXCEPT !.seq = Successor(thisseq), !.minseq = Successor(thisseq)]

Step(m) ==
    LET thisseq == Frag(m).seq
        s == [m EXCEPT !.start = IF @ = 0 /\ Frag(m).begin /\ MP_LE(thisseq, m.minseq)
                                 THEN m.frag ELSE @]
    IN  IF s.start = 0 /\ MP_LE(thisseq, m.minseq)
        THEN [Discard(s, s.frag) EXCEPT !.frag = IF HasNext(s) THEN 1 ELSE 0]
        ELSE IF s.start # 0 /\ Frag(s).end
        THEN AfterFrame(Reassembly(Processed(s, thisseq)), thisseq)
        ELSE Advance(s)

Traverse(m) ==
    IF m.start = 0 /\ m.newfrag = <<>> THEN m ELSE Traverse(Step(Insert(m)))

\* The queue holds at most MP_MAX_QUEUE_LEN fragments.
Overflow(m) ==
    IF m.frames > MP_MAX_QUEUE_LEN THEN Discard(m, m.frames - MP_MAX_QUEUE_LEN) ELSE m

\* The lowest number that a link has come to, but not below mp->seq.
\* Mutant: the highest.
MinSeq_bug(seq, numbers) ==
    LET highest == CHOOSE n \in numbers : \A k \in numbers : MP_LE(k, n)
    IN  IF MP_LT(highest, seq) THEN seq ELSE highest
MinSeq(seq, numbers) ==
    LET lowest == CHOOSE n \in numbers : \A k \in numbers : MP_LE(n, k)
    IN  IF MP_LT(lowest, seq) THEN seq ELSE lowest

Enqueue(seq, fragment, numbers, nomem) ==
    LET first == mp.frags = <<>> \/ MP_LT(fragment.seq, mp.frags[1].seq)
        m == [seq |-> seq, frames |-> mp.frames + 1, minseq |-> MinSeq(seq, numbers),
              frags |-> IF first THEN <<fragment>> \o mp.frags ELSE mp.frags,
              newfrag |-> IF first THEN <<>> ELSE <<fragment>>,
              frag |-> 1, start |-> 0, up |-> <<>>, nomem |-> nomem]
        head == m.frags[1]
    IN  Overflow(Traverse([m EXCEPT
            !.start = IF head.begin /\ head.seq = seq THEN 1 ELSE 0]))

\* The first fragment may have any number of the upper half.
FirstSeq(seq, n) == IF seq = None /\ n >= Half THEN n ELSE seq

\* The frames that parts make up: what is not one whole frame counts as 0.
Frame(parts) ==
    IF /\ parts[1].begin /\ Last(parts).end
       /\ \A i \in 1 .. Len(parts) :
              parts[i].frame = parts[1].frame
              /\ parts[i].seq = (parts[1].seq + i - 1) % SeqSpace
    THEN parts[1].frame ELSE 0

Frames(fragments) == {f.frame : f \in fragments}
OnLines(lines, wire) == UNION {Range(wire[k]) : k \in lines}
Before(fragments, seq) == {f \in fragments : MP_LT(f.seq, seq)}

Receive(l, nomem) ==
    /\ l \in DOMAIN last /\ net.wire[l] # <<>>
    /\ LET fragment == Head(net.wire[l])
           seq == FirstSeq(mp.seq, fragment.seq)
           now == [last EXCEPT ![l] = fragment.seq]
           taken == [net EXCEPT !.wire[l] = Tail(@)]
       IN  IF MP_LT(fragment.seq, seq)
           THEN net' = [taken EXCEPT !.lost = @ \cup {fragment.frame}] /\ UNCHANGED <<mp, last>>
           ELSE LET m == Enqueue(seq, fragment, Range(now), nomem)
                    up == [i \in 1 .. Len(m.up) |-> Frame(m.up[i])]
                    gone == (Range(mp.frags) \cup {fragment}) \ Range(m.frags)
                    late == Before(OnLines(Links, taken.wire), m.seq)
                IN  /\ last' = now
                    /\ mp' = [seq |-> m.seq, frags |-> m.frags, frames |-> m.frames]
                    /\ net' = [taken EXCEPT !.got = @ \o up, !.heard = @ \cup {l},
                                  !.lost = @ \cup Frames(late) \cup (Frames(gone) \ Range(up))]

-----------------------------------------------------------------------------
(* The links *)

\* isdn_ppp_mp_init: the first link of a bundle, or another one.
Join(l) ==
    /\ l \notin DOMAIN last
    /\ last' = [k \in DOMAIN last \cup {l} |-> IF k = l THEN 0 ELSE last[k]]
    /\ IF last = <<>>
       THEN /\ mp' = [seq |-> None, frags |-> <<>>, frames |-> 0]
            /\ \E n \in Starts : net' = [net EXCEPT !.next = n, !.open = FALSE]
       ELSE UNCHANGED <<mp, net>>

\* isdn_ppp_free, with isdn_ppp_mp_cleanup for the last one.
Leave(l) ==
    /\ l \in DOMAIN last
    /\ last' = [k \in DOMAIN last \ {l} |-> last[k]]
    /\ net' = [net EXCEPT !.wire[l] = <<>>, !.heard = @ \ {l},
                           !.lost = @ \cup Frames(Range(net.wire[l]))]
    /\ mp' = IF DOMAIN last = {l} THEN Discard(mp, Len(mp.frags)) ELSE mp

\* The peer sends a fragment, and the line may lose it.
Send(l, begin, end, lost) ==
    /\ l \in DOMAIN last /\ net.sent < MaxSent /\ begin = ~net.open
    /\ LET frame == IF begin THEN net.frames + 1 ELSE net.frames
           fragment == [seq |-> net.next, begin |-> begin, end |-> end, frame |-> frame]
       IN  net' = [net EXCEPT !.next = Successor(@), !.open = ~end, !.frames = frame,
                              !.sent = @ + 1, !.lost = IF lost THEN @ \cup {frame} ELSE @,
                              !.wire[l] = IF lost THEN @ ELSE Append(@, fragment)]
    /\ UNCHANGED <<mp, last>>

Init ==
    /\ net = [wire |-> [l \in Links |-> <<>>], next |-> 0, open |-> FALSE,
              frames |-> 0, sent |-> 0, got |-> <<>>, lost |-> {}, heard |-> {}]
    /\ mp = [seq |-> None, frags |-> <<>>, frames |-> 0]
    /\ last = <<>>

Next ==
    \E l \in Links :
        \/ Join(l) \/ Leave(l)
        \/ \E nomem \in BOOLEAN : Receive(l, nomem)
        \/ \E begin, end, lost \in BOOLEAN : Send(l, begin, end, lost)

Spec == Init /\ [][Next]_vars

-----------------------------------------------------------------------------
(* Correctness *)

\* mp->frames, which decides what is thrown away, is the length of the queue;
\* the queue is in order and within its limit, whatever is lost or refused.
Accounted ==
    /\ mp.frames = Len(mp.frags) /\ mp.frames <= MP_MAX_QUEUE_LEN
    /\ \A i \in 1 .. Len(mp.frags) - 1 : MP_LT(mp.frags[i].seq, mp.frags[i + 1].seq)

\* A complete frame that begins with mp->seq does not wait in the queue, neither
\* for another fragment nor for a link that is silent.  Any other complete frame
\* at the head of the queue waits, once every link has come to its number, for
\* one more fragment at the most, which is not dropped and does not set mp->seq:
\* the first of a bundle, since mp->seq is LONG_MAX until a frame was put together
\* or a number of the upper half received, and one that follows a loss.  A fragment put
\* at the head of the queue begins the loop only if its number is mp->seq.
Whole == \E n \in 1 .. Len(mp.frags) : Frame(SubSeq(mp.frags, 1, n)) # 0
Reached ==      \* the 0 of a link not heard yet is no number it has come to
    /\ mp.seq = None \/ net.heard = DOMAIN last
    /\ \A l \in DOMAIN last : MP_LE(mp.frags[1].seq, last[l])
KeptBy(l, nomem) ==
    /\ Receive(l, nomem) /\ mp' # mp
    /\ FirstSeq(mp.seq, Head(net.wire[l]).seq) = mp.seq
    /\ mp.frags[1] \in Range(mp'.frags)
NotHeld ==
    /\ [](Whole => mp.frags[1].seq # mp.seq)
    /\ [][\A l \in Links, nomem \in BOOLEAN :
              Whole /\ Reached => ~KeptBy(l, nomem)]_vars

\* Only a frame of which the line has lost a part is given up, as long as there
\* is memory and the queue is within its limit: while the missing part is still
\* to come over another link, or still to be sent, what is there is kept.  Two
\* exceptions: what was sent before the number that mp->seq begins with, and
\* what comes over a link that has not brought anything new yet, since the number 0
\* of such a link may count as newer than what it will bring.
GivenUp ==
    [][\A l \in Links : Receive(l, FALSE) /\ mp.frames < MP_MAX_QUEUE_LEN =>
           LET silent == DOMAIN last \ net.heard
               first == FirstSeq(mp.seq, Head(net.wire[l]).seq)
           IN  net'.lost \subseteq
                   net.lost
                   \cup (IF first = mp.seq THEN {} ELSE Frames(Before(OnLines(Links, net.wire), first)))
                   \cup Frames(OnLines(silent, net.wire))
                   \cup (IF silent # {} /\ net.open THEN {net.frames} ELSE {})]_vars

Order == INSTANCE InOrder WITH sent <- net.frames, got <- net.got

\* The frames that reach the network layer are whole, in order and not repeated.
OrderSpec == Order!Spec
=============================================================================

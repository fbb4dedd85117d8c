------------------------------ MODULE NetDial_proof ------------------------------
(***************************************************************************)
(* For every number of interfaces and channels, and of numbers to dial:    *)
(* interfaces and channels agree (Owned), and an interface that is         *)
(* connected has a call that it made itself (Alive).                       *)
(***************************************************************************)
EXTENDS NetDial, WellFoundedInduction, TLAPS

Local ==
    [dialstate : 0 .. 11, connected : BOOLEAN, isdn_channel : 0 .. Channels,
     dial : Nat, dialretry : Nat, dtimer : Nat]
Device ==
    [usage : [Chans -> BOOLEAN], st_netdev : [Chans -> 0 .. Interfaces],
     rx_netdev : [Chans -> 0 .. Interfaces], netdial : BOOLEAN,
     nethangup : BOOLEAN, stopped : BOOLEAN]
Phases == {"null", "setup", "up", "data", "half"}
State ==
    [lp : [Ifs -> Local], dev : Device, phase : [Chans -> Phases],
     hung : [Chans -> BOOLEAN], own : [Chans -> 0 .. Interfaces]]

\* Owned, of a state s.
HasChannel(s, i) ==
    LET p == s.lp[i]
    IN  /\ p.connected <=> p.isdn_channel # None
        /\ p.dialstate # 0 => p.connected
        /\ p.connected =>
               /\ s.dev.usage[p.isdn_channel] /\ s.dev.st_netdev[p.isdn_channel] = i
               /\ s.dev.rx_netdev[p.isdn_channel] = i \/ p.dialstate \in 7 .. 10
HasUser(s, c) ==
    s.dev.usage[c] \/ s.dev.st_netdev[c] # None \/ s.dev.rx_netdev[c] # None =>
        \E i \in Ifs : s.lp[i].isdn_channel = c
Bound(s) == (\A i \in Ifs : HasChannel(s, i)) /\ (\A c \in Chans : HasUser(s, c))

\* A call that nobody hung up belongs to the interface that has the channel.
CallOf(s, c) ==
    s.phase[c] # "null" /\ ~s.hung[c] =>
        s.own[c] \in Ifs /\ s.lp[s.own[c]].isdn_channel = c

\* Alive, of a state s.
Live(s, i) ==
    s.lp[i].connected /\ s.lp[i].dialstate = 0 =>
        LET c == s.lp[i].isdn_channel
        IN  /\ s.dev.nethangup
            /\ s.dev.stopped \/ (s.phase[c] \in {"data", "half"} /\ ~s.hung[c] /\ s.own[c] = i)

Consistent(s) == s \in State /\ Bound(s) /\ \A c \in Chans : CallOf(s, c)
Good(s) == Consistent(s) /\ \A i \in Ifs : Live(s, i)

IInv == Good(S)

LEMMA BoundSame ==
    ASSUME NEW s, NEW t, Bound(s), t.lp = s.lp, t.dev.usage = s.dev.usage,
           t.dev.st_netdev = s.dev.st_netdev, t.dev.rx_netdev = s.dev.rx_netdev
    PROVE  Bound(t)
<1>1. \A i \in Ifs : HasChannel(t, i)  BY DEF Bound, HasChannel
<1>2. \A c \in Chans : HasUser(t, c)  BY DEF Bound, HasUser
<1>3. QED BY <1>1, <1>2 DEF Bound

LEMMA LocalWith ==
    ASSUME NEW p \in Local, NEW c \in 0 .. Channels, NEW n \in 0 .. 11
    PROVE  /\ [p EXCEPT !.dialstate = n] \in Local
           /\ [p EXCEPT !.connected = TRUE, !.isdn_channel = c] \in Local
           /\ [p EXCEPT !.connected = TRUE, !.isdn_channel = c, !.dialstate = n] \in Local
BY DEF Local

LEMMA DialstateState ==
    ASSUME NEW s \in State, NEW i \in Ifs, NEW n \in 0 .. 11
    PROVE  [s EXCEPT !.lp[i].dialstate = n] \in State
<1> DEFINE p == [s.lp[i] EXCEPT !.dialstate = n]
           q == [s.lp EXCEPT ![i] = p]
           t == [s EXCEPT !.lp = q]
<1>1. s.lp[i] \in Local  BY DEF State
<1>2. p \in Local  BY <1>1 DEF Local
<1>3. [s EXCEPT !.lp[i].dialstate = n] = t  OBVIOUS
<1> HIDE DEF p
<1>4. q \in [Ifs -> Local]  BY <1>2 DEF State
<1> HIDE DEF q
<1>5. t \in State  BY <1>4 DEF State
<1>6. QED BY <1>3, <1>5

-----------------------------------------------------------------------------
(* The smallest element of a set of numbers *)

LEMMA MinIsIn == ASSUME NEW T \in SUBSET Nat, T # {} PROVE Min(T) \in T
<1> DEFINE R == {ss \in Nat \X Nat : ss[1] < ss[2]}
<1>1. IsWellFoundedOn(R, Nat)
  BY NatLessThanWellFounded, Zenon DEF OpToRel
<1>2. \A a, b \in Nat : a < b => <<a, b>> \in R
  OBVIOUS
<1>3. PICK x \in T : \A y \in T : ~(<<y, x>> \in R)
  <2> HIDE DEF R
  <2> QED BY <1>1, WFMin
<1>4. ASSUME NEW y \in T PROVE x =< y
  <2>1. x \in Nat /\ y \in Nat
    OBVIOUS
  <2>2. ~(y < x)
    <3> HIDE DEF R
    <3> QED BY <1>2, <1>3, <2>1
  <2> QED BY <2>1, <2>2
<1> QED BY <1>4 DEF Min

LEMMA FreeChannel ==
    ASSUME NEW s, s \in State, Free(s) # {}
    PROVE  /\ isdn_get_free_channel(s) \in Chans
           /\ ~s.dev.usage[isdn_get_free_channel(s)]
<1>1. Free(s) \in SUBSET Nat
  BY RoleAssumption DEF Free, Chans
<1>2. isdn_get_free_channel(s) \in Free(s)
  BY <1>1, MinIsIn DEF isdn_get_free_channel
<1> QED BY <1>2 DEF Free

\* What Bound means for a single interface and for two of them.
LEMMA Connected ==
    ASSUME NEW s, s \in State, Bound(s), NEW i \in Ifs, s.lp[i].connected
    PROVE  s.lp[i].isdn_channel \in Chans /\ s.dev.st_netdev[s.lp[i].isdn_channel] = i
<1>1. s.lp[i] \in Local
  BY DEF State
<1> QED BY <1>1, RoleAssumption DEF Bound, HasChannel, Local, Chans, None

LEMMA OneEach ==
    ASSUME NEW s, s \in State, Bound(s), NEW i \in Ifs, NEW j \in Ifs,
           s.lp[i].isdn_channel = s.lp[j].isdn_channel, s.lp[i].connected
    PROVE  i = j
<1>1. s.lp[j].connected
  BY DEF Bound, HasChannel
<1> QED BY <1>1, Connected

-----------------------------------------------------------------------------
(* Each operation keeps the invariant *)

LEMMA DialGood ==
    ASSUME NEW s, Good(s), NEW I \in SUBSET Ifs, \A i \in I : s.lp[i].connected
    PROVE  Good(DIAL(s, I)) /\ DIAL(s, I).lp = s.lp /\ DIAL(s, I).dev = s.dev
<1> DEFINE ready == {i \in I : s.phase[s.lp[i].isdn_channel] = "null"}
           C == ChannelsOf(s, ready)
           maker(c) == CHOOSE i \in ready : s.lp[i].isdn_channel = c
           d == DIAL(s, I)
<1>1. s \in State /\ Bound(s) /\ (\A c \in Chans : CallOf(s, c)) /\ \A i \in Ifs : Live(s, i)
  BY DEF Good, Consistent
<1>2. d = [s EXCEPT
              !.phase = [c \in Chans |-> IF c \in C THEN "setup" ELSE @[c]],
              !.own = [c \in Chans |-> IF c \in C THEN maker(c) ELSE @[c]]]
  BY DEF DIAL
<1>3. \A c \in C : maker(c) \in ready /\ s.lp[maker(c)].isdn_channel = c
  BY DEF ChannelsOf
<1>4. \A c \in C : maker(c) \in Ifs /\ s.phase[c] = "null"
  BY <1>3, Zenon
<1> HIDE DEF maker, d, C, ready
<1>5. /\ d.lp = s.lp /\ d.dev = s.dev /\ d.hung = s.hung
      /\ d.phase = [c \in Chans |-> IF c \in C THEN "setup" ELSE s.phase[c]]
      /\ d.own = [c \in Chans |-> IF c \in C THEN maker(c) ELSE s.own[c]]
  BY <1>1, <1>2 DEF State
<1>6. d \in State
  <2>1. [c \in Chans |-> IF c \in C THEN "setup" ELSE s.phase[c]] \in [Chans -> Phases]
    BY <1>1 DEF State, Phases
  <2>2. \A c \in C : maker(c) \in 0 .. Interfaces
    BY <1>4, RoleAssumption DEF Ifs
  <2>3. [c \in Chans |-> IF c \in C THEN maker(c) ELSE s.own[c]] \in [Chans -> 0 .. Interfaces]
    BY <1>1, <2>2 DEF State
  <2> QED BY <1>1, <1>2, <2>1, <2>3, Zenon DEF State
<1>7. Bound(d)
  BY <1>1, <1>5, BoundSame
<1>8. ASSUME NEW c \in Chans PROVE CallOf(d, c)
  BY <1>1, <1>3, <1>4, <1>5 DEF CallOf
<1>9. ASSUME NEW i \in Ifs PROVE Live(d, i)
  <2>1. s.lp[i].connected => s.lp[i].isdn_channel \in Chans
    BY <1>1, Connected
  <2>2. Live(s, i)
    BY <1>1
  <2>3. s.lp[i].isdn_channel \in C => s.phase[s.lp[i].isdn_channel] = "null"
    BY <1>4
  <2> QED BY <1>5, <2>1, <2>2, <2>3 DEF Live
<1> QED BY <1>5, <1>6, <1>7, <1>8, <1>9 DEF Good, Consistent, d

LEMMA IdleLocal == Idle \in Local
BY RoleAssumption DEF Idle, Local, None

LEMMA UnbindGood ==
    ASSUME NEW s, Consistent(s), NEW I \in SUBSET Ifs,
           \A c \in Chans : c \in ChannelsOf(s, I) => s.phase[c] = "null" \/ s.hung[c],
           \A i \in Ifs \ I : Live(s, i)
    PROVE  LET u == isdn_net_unbind_channel(s, I)
           IN  /\ Good(u)
               /\ u.lp = [i \in Ifs |-> IF i \in I THEN Idle ELSE s.lp[i]]
<1> DEFINE C == ChannelsOf(s, I)
           u == isdn_net_unbind_channel(s, I)
<1>1. s \in State /\ Bound(s) /\ \A c \in Chans : CallOf(s, c)
  BY DEF Consistent
<1>2. u = [s EXCEPT
              !.lp = [i \in Ifs |-> IF i \in I THEN Idle ELSE @[i]],
              !.dev.usage = [c \in Chans |-> @[c] /\ c \notin C],
              !.dev.rx_netdev = Cleared(@, C), !.dev.st_netdev = Cleared(@, C)]
  BY DEF isdn_net_unbind_channel
<1>3. \A i \in I : s.lp[i].isdn_channel \in C
  BY DEF ChannelsOf
<1>4. \A c \in C : \E i \in I : s.lp[i].isdn_channel = c
  BY DEF ChannelsOf
<1> HIDE DEF u, C
<1>5. /\ u.lp = [i \in Ifs |-> IF i \in I THEN Idle ELSE s.lp[i]]
      /\ u.dev.usage = [c \in Chans |-> s.dev.usage[c] /\ c \notin C]
      /\ u.dev.rx_netdev = [c \in Chans |-> IF c \in C THEN 0 ELSE s.dev.rx_netdev[c]]
      /\ u.dev.st_netdev = [c \in Chans |-> IF c \in C THEN 0 ELSE s.dev.st_netdev[c]]
      /\ u.dev.nethangup = s.dev.nethangup /\ u.dev.stopped = s.dev.stopped
      /\ u.phase = s.phase /\ u.hung = s.hung /\ u.own = s.own
  BY <1>1, <1>2 DEF State, Device, Cleared, None
<1>6. u \in State
  <2>1. [i \in Ifs |-> IF i \in I THEN Idle ELSE s.lp[i]] \in [Ifs -> Local]
    BY <1>1, IdleLocal DEF State
  <2>2. [c \in Chans |-> s.dev.usage[c] /\ c \notin C] \in [Chans -> BOOLEAN]
    OBVIOUS
  <2>3. 0 \in 0 .. Interfaces
    BY RoleAssumption
  <2>4. /\ Cleared(s.dev.rx_netdev, C) \in [Chans -> 0 .. Interfaces]
        /\ Cleared(s.dev.st_netdev, C) \in [Chans -> 0 .. Interfaces]
    BY <1>1, <2>3 DEF State, Device, Cleared, None
  <2> QED BY <1>1, <1>2, <2>1, <2>2, <2>4, Zenon DEF State, Device
<1>7. ASSUME NEW i \in Ifs, i \notin I, s.lp[i].connected
      PROVE  s.lp[i].isdn_channel \notin C
  BY <1>1, <1>4, <1>7, OneEach
<1>12. \A c \in Chans : u.dev.usage[c] <=> s.dev.usage[c] /\ c \notin C
  BY <1>5, Zenon
<1>8. ASSUME NEW i \in Ifs PROVE HasChannel(u, i)
  <2>1. CASE i \in I
    BY <1>5, <2>1 DEF HasChannel, Idle, None
  <2>2. CASE i \notin I
    <3>1. u.lp[i] = s.lp[i] /\ HasChannel(s, i)
      BY <1>1, <1>5, <2>2 DEF Bound
    <3>2. CASE s.lp[i].connected
      <4> DEFINE c == s.lp[i].isdn_channel
      <4>1. c \in Chans /\ c \notin C
        BY <1>1, <1>7, <2>2, <3>2, Connected
      <4>2. /\ u.dev.usage[c] <=> s.dev.usage[c]
            /\ u.dev.rx_netdev[c] = s.dev.rx_netdev[c]
            /\ u.dev.st_netdev[c] = s.dev.st_netdev[c]
        BY <1>5, <1>12, <4>1
      <4> QED BY <3>1, <3>2, <4>2 DEF HasChannel
    <3>3. CASE ~s.lp[i].connected
      BY <3>1, <3>3 DEF HasChannel
    <3> QED BY <3>2, <3>3
  <2> QED BY <2>1, <2>2
<1>9. ASSUME NEW c \in Chans PROVE HasUser(u, c)
  <2>1. HasUser(s, c)
    BY <1>1 DEF Bound
  <2>2. CASE c \in C
    BY <1>5, <1>12, <2>2 DEF HasUser, None
  <2>3. CASE c \notin C
    <3>1. /\ u.dev.usage[c] <=> s.dev.usage[c]
          /\ u.dev.rx_netdev[c] = s.dev.rx_netdev[c]
          /\ u.dev.st_netdev[c] = s.dev.st_netdev[c]
      BY <1>5, <1>12, <2>3
    <3>2. SUFFICES ASSUME \E i \in Ifs : s.lp[i].isdn_channel = c
                   PROVE  \E i \in Ifs : u.lp[i].isdn_channel = c
      BY <2>1, <3>1 DEF HasUser
    <3>3. PICK i \in Ifs : s.lp[i].isdn_channel = c
      BY <3>2
    <3>4. i \notin I
      BY <1>3, <2>3, <3>3
    <3> QED BY <1>5, <3>3, <3>4
  <2> QED BY <2>2, <2>3
<1>10. ASSUME NEW c \in Chans PROVE CallOf(u, c)
  <2>1. CallOf(s, c)
    BY <1>1
  <2>2. c \in C => s.phase[c] = "null" \/ s.hung[c]
    BY DEF C
  <2> QED BY <1>3, <1>5, <2>1, <2>2 DEF CallOf
<1>11. ASSUME NEW i \in Ifs PROVE Live(u, i)
  BY <1>5, <1>11 DEF Live, Idle
<1> QED BY <1>5, <1>6, <1>8, <1>9, <1>10, <1>11 DEF Good, Consistent, Bound, u

LEMMA HangupGood ==
    ASSUME NEW s, Good(s), NEW I \in SUBSET Ifs
    PROVE  LET u == isdn_net_hangup(s, I)
           IN  /\ Good(u)
               /\ u.lp = [i \in Ifs |-> IF i \in I THEN Idle ELSE s.lp[i]]
<1> DEFINE C == ChannelsOf(s, I)
           h == HANGUP(s, C)
<1>1. s \in State /\ Bound(s) /\ (\A c \in Chans : CallOf(s, c)) /\ \A i \in Ifs : Live(s, i)
  BY DEF Good, Consistent
<1>2. h = [s EXCEPT !.hung = [c \in Chans |-> @[c] \/ (c \in C /\ s.phase[c] # "null")]]
  BY DEF HANGUP
<1>4. \A c \in C : \E i \in I : s.lp[i].isdn_channel = c
  BY DEF ChannelsOf
<1> HIDE DEF h, C
<1>5. /\ h.lp = s.lp /\ h.dev = s.dev /\ h.phase = s.phase /\ h.own = s.own
      /\ h.hung = [c \in Chans |-> s.hung[c] \/ (c \in C /\ s.phase[c] # "null")]
  BY <1>1, <1>2 DEF State
<1>3. ChannelsOf(h, I) = C
  BY <1>5 DEF ChannelsOf, C
<1>11. \A c \in Chans : h.hung[c] <=> s.hung[c] \/ (c \in C /\ s.phase[c] # "null")
  BY <1>5, Zenon
<1>6. h \in State
  <2>1. [c \in Chans |-> s.hung[c] \/ (c \in C /\ s.phase[c] # "null")] \in [Chans -> BOOLEAN]
    OBVIOUS
  <2> QED BY <1>1, <1>2, <2>1 DEF State
<1>7. Consistent(h)
  <2>1. Bound(h)
    BY <1>1, <1>5, BoundSame
  <2>2. \A c \in Chans : CallOf(h, c)
    BY <1>1, <1>5, <1>11 DEF CallOf
  <2> QED BY <1>6, <2>1, <2>2 DEF Consistent
<1>8. ASSUME NEW i \in Ifs \ I PROVE Live(h, i)
  <2>1. s.lp[i].connected => s.lp[i].isdn_channel \in Chans /\ s.lp[i].isdn_channel \notin C
    BY <1>1, <1>4, <1>8, Connected, OneEach
  <2>2. s.lp[i].connected => (h.hung[s.lp[i].isdn_channel] <=> s.hung[s.lp[i].isdn_channel])
    BY <1>11, <2>1
  <2> QED BY <1>1, <1>5, <2>2 DEF Live
<1>9. \A c \in Chans : c \in ChannelsOf(h, I) => h.phase[c] = "null" \/ h.hung[c]
  BY <1>3, <1>5, <1>11
<1>10. isdn_net_hangup(s, I) = isdn_net_unbind_channel(h, I)
  BY DEF isdn_net_hangup, h, C
<1> QED BY <1>5, <1>7, <1>8, <1>9, <1>10, UnbindGood

\* A pass over the interfaces moves each on, but takes it nowhere else.
LEMMA MovedLocal ==
    ASSUME NEW p \in Local
    PROVE  /\ Moved(p) \in Local
           /\ Moved(p).connected = p.connected /\ Moved(p).isdn_channel = p.isdn_channel
           /\ Moved(p).dialstate = 0 <=> p.dialstate = 0
           /\ p.dialstate \in 7 .. 10 => Moved(p).dialstate \in 7 .. 10
<1>1. /\ p.dialstate \in 0 .. 11 /\ p.dial \in Nat /\ p.dialretry \in Nat /\ p.dtimer \in Nat
      /\ p.connected \in BOOLEAN /\ p.isdn_channel \in 0 .. Channels
  BY DEF Local
<1>2. 0 \in Nat
  OBVIOUS
<1>3. CASE Dialing(p)
  <2> DEFINE dial == IF p.dialstate = 1 THEN 1 ELSE p.dial
             retry == IF p.dialstate = 1 THEN 0 ELSE p.dialretry
             d == (dial % Numbers) + 1
             r == IF dial = Numbers THEN retry + 1 ELSE retry
  <2>1. dial \in Nat /\ retry \in Nat
    BY <1>1
  <2>2. d \in Nat /\ r \in Nat
    <3> HIDE DEF dial, retry
    <3> QED BY <2>1, RoleAssumption
  <2>3. Moved(p) = NextNumber(p)
    BY <1>3 DEF Moved, Dialing
  <2>4. NextNumber(p) = [p EXCEPT !.dialstate = 4, !.dtimer = 0, !.dial = d, !.dialretry = r]
    BY Zenon DEF NextNumber
  <2> DEFINE q == [p EXCEPT !.dialstate = 4, !.dtimer = 0]
  <2>5. q \in Local /\ q.dialstate = 4
        /\ q.connected = p.connected /\ q.isdn_channel = p.isdn_channel
    <3>1. q = [p EXCEPT !.dialstate = 4, !.dtimer = 0] /\ 4 \in 0 .. 11
      OBVIOUS
    <3> HIDE DEF q
    <3> QED BY <1>2, <3>1 DEF Local
  <2>6. Moved(p) = [q EXCEPT !.dial = d, !.dialretry = r]
    BY <2>3, <2>4
  <2> HIDE DEF d, r, dial, retry, q
  <2>7. Moved(p) \in Local
    BY <2>2, <2>5, <2>6 DEF Local
  <2>8. /\ Moved(p).dialstate = 4
        /\ Moved(p).connected = p.connected /\ Moved(p).isdn_channel = p.isdn_channel
    BY <2>5, <2>6 DEF Local
  <2> QED BY <1>3, <2>7, <2>8 DEF Dialing
<1>4. CASE p.dialstate \in {5, 9}
  <2>1. Moved(p) = [p EXCEPT !.dialstate = p.dialstate + 1, !.dtimer = 0]
    BY <1>4 DEF Moved, Dialing
  <2>2. p.dialstate + 1 \in 0 .. 11
    BY <1>4
  <2>3. Moved(p) \in Local /\ Moved(p).dialstate = p.dialstate + 1
        /\ Moved(p).connected = p.connected /\ Moved(p).isdn_channel = p.isdn_channel
    <3> DEFINE n == p.dialstate + 1
    <3> HIDE DEF n
    <3>1. n \in 0 .. 11 /\ Moved(p) = [p EXCEPT !.dialstate = n, !.dtimer = 0]
      BY <2>1, <2>2 DEF n
    <3>2. Moved(p) \in Local /\ Moved(p).dialstate = n
          /\ Moved(p).connected = p.connected /\ Moved(p).isdn_channel = p.isdn_channel
      BY <1>2, <3>1 DEF Local
    <3> QED BY <3>2 DEF n
  <2> QED BY <1>4, <2>3
<1>5. CASE p.dialstate = 7
  <2>1. Moved(p) = [p EXCEPT !.dialstate = 8, !.dtimer = p.dtimer + 1]
    BY <1>5 DEF Moved, Dialing
  <2>2. 8 \in 0 .. 11 /\ p.dtimer + 1 \in Nat
    BY <1>1
  <2>3. Moved(p) \in Local /\ Moved(p).dialstate = 8
        /\ Moved(p).connected = p.connected /\ Moved(p).isdn_channel = p.isdn_channel
    BY <2>1, <2>2 DEF Local
  <2> QED BY <1>5, <2>3
<1>6. CASE p.dialstate \in {4, 6} /\ Late(p)
  <2>1. Moved(p) = [p EXCEPT !.dialstate = 3]
    BY <1>6 DEF Moved, Dialing
  <2> QED BY <1>1, <1>6, <2>1 DEF Local
<1>7. CASE p.dialstate = 11 /\ Late(p)
  <2>1. Moved(p) = [p EXCEPT !.dialstate = 1]
    BY <1>7 DEF Moved, Dialing
  <2> QED BY <1>1, <1>7, <2>1 DEF Local
<1>8. CASE p.dialstate \in {4, 6, 8, 10, 11} /\ ~Late(p)
  <2>1. Moved(p) = [p EXCEPT !.dtimer = @ + 1]
    BY <1>8 DEF Moved, Dialing
  <2> QED BY <1>1, <1>8, <2>1 DEF Local
<1>9. CASE p.dialstate \in {0, 2} \/ (p.dialstate \in {8, 10} /\ Late(p))
  <2>1. Moved(p) = p
    BY <1>9 DEF Moved, Dialing
  <2> QED BY <2>1
<1> QED BY <1>1, <1>3, <1>4, <1>5, <1>6, <1>7, <1>8, <1>9 DEF Dialing

LEMMA PassGood == ASSUME NEW s, Good(s) PROVE Good(isdn_net_dial(s))
<1> DEFINE ends == {i \in Ifs : GivesUp(s, s.lp[i])}
           I == {i \in Ifs \ ends : Dialing(s.lp[i])}
           t == isdn_net_hangup(DIAL(s, I), ends)
           wanted == \E i \in Ifs \ ends : s.lp[i].dialstate # 0
           u == isdn_net_dial(s)
<1>1. Good(t)
  <2>1. \A i \in I : s.lp[i].connected
    BY DEF Good, Consistent, Bound, HasChannel, Dialing
  <2>2. I \in SUBSET Ifs /\ ends \in SUBSET Ifs
    OBVIOUS
  <2> HIDE DEF I, ends
  <2> QED BY <2>1, <2>2, DialGood, HangupGood
<1>2. u = [t EXCEPT
              !.lp = [i \in Ifs |-> IF i \in ends THEN @[i] ELSE Moved(@[i])],
              !.dev.netdial = wanted]
  BY DEF isdn_net_dial
<1> HIDE DEF ends, t, wanted, u
<1>3. t \in State /\ Bound(t) /\ (\A c \in Chans : CallOf(t, c)) /\ \A i \in Ifs : Live(t, i)
  BY <1>1 DEF Good, Consistent
<1>4. /\ u.lp = [i \in Ifs |-> IF i \in ends THEN t.lp[i] ELSE Moved(t.lp[i])]
      /\ u.dev.usage = t.dev.usage /\ u.dev.st_netdev = t.dev.st_netdev
      /\ u.dev.rx_netdev = t.dev.rx_netdev
      /\ u.dev.nethangup = t.dev.nethangup /\ u.dev.stopped = t.dev.stopped
      /\ u.phase = t.phase /\ u.hung = t.hung /\ u.own = t.own
  BY <1>2, <1>3 DEF State, Device
<1>5. \A i \in Ifs : t.lp[i] \in Local
  BY <1>3 DEF State
<1>6. \A i \in Ifs :
          /\ u.lp[i] \in Local
          /\ u.lp[i].connected = t.lp[i].connected
          /\ u.lp[i].isdn_channel = t.lp[i].isdn_channel
          /\ u.lp[i].dialstate = 0 <=> t.lp[i].dialstate = 0
          /\ t.lp[i].dialstate \in 7 .. 10 => u.lp[i].dialstate \in 7 .. 10
  BY <1>4, <1>5, MovedLocal
<1>7. u \in State
  <2>1. wanted \in BOOLEAN
    BY DEF wanted
  <2>2. [i \in Ifs |-> IF i \in ends THEN t.lp[i] ELSE Moved(t.lp[i])] \in [Ifs -> Local]
    BY <1>5, MovedLocal
  <2> QED BY <1>2, <1>3, <2>1, <2>2, Zenon DEF State, Device
<1>8. Bound(u)
  <2>1. ASSUME NEW i \in Ifs PROVE HasChannel(u, i)
    <3>1. HasChannel(t, i)
      BY <1>3 DEF Bound
    <3> QED BY <1>4, <1>6, <3>1 DEF HasChannel
  <2>2. ASSUME NEW c \in Chans PROVE HasUser(u, c)
    <3>1. HasUser(t, c)
      BY <1>3 DEF Bound
    <3> QED BY <1>4, <1>6, <3>1 DEF HasUser
  <2> QED BY <2>1, <2>2 DEF Bound
<1>9. ASSUME NEW c \in Chans PROVE CallOf(u, c)
  BY <1>3, <1>4, <1>6 DEF CallOf
<1>10. ASSUME NEW i \in Ifs PROVE Live(u, i)
  BY <1>3, <1>4, <1>6, ZenonT(60) DEF Live
<1> QED BY <1>7, <1>8, <1>9, <1>10 DEF Good, Consistent, u

LEMMA BindGood ==
    ASSUME NEW s, Good(s), NEW i \in Ifs, ~s.lp[i].connected, NEW n \in 1 .. 11,
           NEW c \in Chans, ~s.dev.usage[c]
    PROVE  Good(isdn_net_bind_channel([s EXCEPT !.lp[i].dialstate = n], i, c))
<1> DEFINE w == [s EXCEPT !.lp[i].dialstate = n]
           u == isdn_net_bind_channel(w, i, c)
           p == u.lp[i]
<1>1. s \in State /\ Bound(s) /\ (\A b \in Chans : CallOf(s, b)) /\ \A j \in Ifs : Live(s, j)
  BY DEF Good, Consistent
<1>5. c # None /\ i # None /\ i \in 0 .. Interfaces /\ c \in 0 .. Channels /\ n \in 0 .. 11
  BY RoleAssumption DEF Chans, Ifs, None
<1>2. /\ w \in State /\ w.lp[i].dialstate = n
      /\ \A j \in Ifs : j # i => w.lp[j] = s.lp[j]
      /\ w.dev = s.dev /\ w.phase = s.phase /\ w.hung = s.hung /\ w.own = s.own
  <2>1. w \in State
    BY <1>1, <1>5, DialstateState
  <2> QED BY <1>1, <2>1, ZenonT(60) DEF State, Local
<1>3. u = [w EXCEPT !.lp[i].connected = TRUE, !.lp[i].isdn_channel = c,
                    !.dev.usage[c] = TRUE, !.dev.rx_netdev[c] = i, !.dev.st_netdev[c] = i]
  BY DEF isdn_net_bind_channel
<1> HIDE DEF w, u
<1>4. p.connected /\ p.isdn_channel = c /\ p.dialstate = n
  BY <1>2, <1>3 DEF State, Local
<1>6. u \in State
  <2> DEFINE v == [w EXCEPT !.lp[i].connected = TRUE, !.lp[i].isdn_channel = c]
  <2>1. v \in State
    <3>0. w.lp[i] \in Local
      BY <1>2 DEF State
    <3>1. [w.lp[i] EXCEPT !.connected = TRUE, !.isdn_channel = c] \in Local
      BY <1>5, <3>0, LocalWith, Zenon
    <3> QED BY <1>2, <3>1 DEF State
  <2>2. u = [v EXCEPT !.dev.usage[c] = TRUE, !.dev.rx_netdev[c] = i, !.dev.st_netdev[c] = i]
    BY <1>3
  <2> HIDE DEF v
  <2> QED BY <1>5, <2>1, <2>2 DEF State, Device
<1>7. /\ u.dev.usage = [w.dev.usage EXCEPT ![c] = TRUE]
      /\ u.dev.rx_netdev = [w.dev.rx_netdev EXCEPT ![c] = i]
      /\ u.dev.st_netdev = [w.dev.st_netdev EXCEPT ![c] = i]
      /\ u.dev.nethangup = s.dev.nethangup /\ u.dev.stopped = s.dev.stopped
      /\ u.phase = s.phase /\ u.hung = s.hung /\ u.own = s.own
  BY <1>2, <1>3 DEF State, Device
<1>15. \A j \in Ifs : j # i => u.lp[j] = s.lp[j]
  BY <1>2, <1>3 DEF State
<1> HIDE DEF p
<1>8. /\ u.lp[i] = p /\ u.dev.usage[c] /\ u.dev.rx_netdev[c] = i /\ u.dev.st_netdev[c] = i
      /\ \A j \in Ifs : j # i => u.lp[j] = s.lp[j]
      /\ \A b \in Chans : b # c =>
             /\ u.dev.usage[b] = s.dev.usage[b]
             /\ u.dev.rx_netdev[b] = s.dev.rx_netdev[b]
             /\ u.dev.st_netdev[b] = s.dev.st_netdev[b]
  BY <1>1, <1>2, <1>7, <1>15 DEF State, Device, p
<1>9. s.lp[i].isdn_channel = None
  BY <1>1 DEF Bound, HasChannel
<1>10. \A j \in Ifs : s.lp[j].isdn_channel # c
  BY <1>1, <1>5 DEF Bound, HasChannel
<1>11. ASSUME NEW j \in Ifs PROVE HasChannel(u, j)
  <2>1. CASE j = i
    BY <1>4, <1>5, <1>8, <2>1 DEF HasChannel
  <2>2. CASE j # i /\ s.lp[j].connected
    <3>1. s.lp[j].isdn_channel \in Chans /\ s.lp[j].isdn_channel # c
      BY <1>1, <1>10, <2>2, Connected
    <3>2. HasChannel(s, j)
      BY <1>1 DEF Bound
    <3> DEFINE b == s.lp[j].isdn_channel
    <3>3. /\ u.lp[j] = s.lp[j] /\ u.dev.usage[b] = s.dev.usage[b]
          /\ u.dev.rx_netdev[b] = s.dev.rx_netdev[b]
          /\ u.dev.st_netdev[b] = s.dev.st_netdev[b]
      BY <1>8, <2>2, <3>1
    <3> QED BY <3>2, <3>3 DEF HasChannel
  <2>3. CASE j # i /\ ~s.lp[j].connected
    <3>1. HasChannel(s, j)
      BY <1>1 DEF Bound
    <3> QED BY <1>8, <2>3, <3>1 DEF HasChannel
  <2> QED BY <2>1, <2>2, <2>3
<1>12. ASSUME NEW b \in Chans PROVE HasUser(u, b)
  <2>1. CASE b = c
    BY <1>4, <1>8, <2>1 DEF HasUser
  <2>2. CASE b # c
    <3>1. HasUser(s, b)
      BY <1>1 DEF Bound
    <3>2. b # None
      BY DEF Chans, None
    <3> QED BY <1>8, <1>9, <2>2, <3>1, <3>2 DEF HasUser
  <2> QED BY <2>1, <2>2
<1>13. ASSUME NEW b \in Chans PROVE CallOf(u, b)
  <2>1. CallOf(s, b) /\ b # None
    BY <1>1 DEF Chans, None
  <2> QED BY <1>7, <1>8, <1>9, <2>1 DEF CallOf
<1>14. ASSUME NEW j \in Ifs PROVE Live(u, j)
  <2>1. n # 0
    OBVIOUS
  <2> QED BY <1>1, <1>4, <1>7, <1>8, <2>1 DEF Live
<1> QED BY <1>6, <1>11, <1>12, <1>13, <1>14 DEF Good, Consistent, Bound, u, w

-----------------------------------------------------------------------------
(* The calls of the driver *)

\* The interface that hears of a channel is the one that has it.
LEMMA Listener ==
    ASSUME NEW s, s \in State, Bound(s), NEW c \in Chans, s.dev.st_netdev[c] # None
    PROVE  /\ s.dev.st_netdev[c] \in Ifs
           /\ s.lp[s.dev.st_netdev[c]].isdn_channel = c
           /\ s.lp[s.dev.st_netdev[c]].connected
<1>1. PICK i \in Ifs : s.lp[i].isdn_channel = c
  BY DEF Bound, HasUser
<1>2. c # None
  BY DEF Chans, None
<1>3. s.lp[i].connected
  BY <1>1, <1>2 DEF Bound, HasChannel
<1> QED BY <1>1, <1>3, Connected

LEMMA PhaseGood ==
    ASSUME NEW s, Good(s), NEW c \in Chans, NEW ph \in {"up", "data", "half"},
           s.phase[c] # "null", s.phase[c] \in {"data", "half"} => ph \in {"data", "half"}
    PROVE  LET u == [s EXCEPT !.phase[c] = ph]
           IN  Good(u) /\ u.lp = s.lp /\ u.dev = s.dev /\ u.hung = s.hung /\ u.phase[c] = ph
<1> DEFINE u == [s EXCEPT !.phase[c] = ph]
<1>1. s \in State /\ Bound(s) /\ (\A b \in Chans : CallOf(s, b)) /\ \A i \in Ifs : Live(s, i)
  BY DEF Good, Consistent
<1>2. /\ u.lp = s.lp /\ u.dev = s.dev /\ u.hung = s.hung /\ u.own = s.own
      /\ u.phase[c] = ph /\ \A b \in Chans : b # c => u.phase[b] = s.phase[b]
  BY <1>1 DEF State
<1>3. u \in State
  BY <1>1 DEF State, Phases
<1> HIDE DEF u
<1>4. Bound(u)
  BY <1>1, <1>2, BoundSame
<1>5. ASSUME NEW b \in Chans PROVE CallOf(u, b)
  BY <1>1, <1>2 DEF CallOf
<1>6. ASSUME NEW i \in Ifs PROVE Live(u, i)
  <2>1. s.lp[i].connected => s.lp[i].isdn_channel \in Chans
    BY <1>1, Connected
  <2> QED BY <1>1, <1>2, <2>1 DEF Live
<1> QED BY <1>2, <1>3, <1>4, <1>5, <1>6 DEF Good, Consistent, u

\* A call that is refused at once.
LEMMA RefusedGood ==
    ASSUME NEW s, Good(s), NEW c \in Chans, s.phase[c] = "null"
    PROVE  LET u == [s EXCEPT !.phase[c] = "setup", !.hung[c] = TRUE, !.own[c] = None]
           IN  Good(u) /\ u.lp = s.lp /\ u.dev = s.dev
<1> DEFINE u == [s EXCEPT !.phase[c] = "setup", !.hung[c] = TRUE, !.own[c] = None]
<1>1. s \in State /\ Bound(s) /\ (\A b \in Chans : CallOf(s, b)) /\ \A i \in Ifs : Live(s, i)
  BY DEF Good, Consistent
<1>2. /\ u.lp = s.lp /\ u.dev = s.dev /\ u.hung[c]
      /\ \A b \in Chans : b # c =>
             u.phase[b] = s.phase[b] /\ u.hung[b] = s.hung[b] /\ u.own[b] = s.own[b]
  BY <1>1 DEF State
<1>3. u \in State
  <2>1. None \in 0 .. Interfaces
    BY RoleAssumption DEF None
  <2> QED BY <1>1, <2>1 DEF State, Phases
<1> HIDE DEF u
<1>4. Bound(u)
  BY <1>1, <1>2, BoundSame
<1>5. ASSUME NEW b \in Chans PROVE CallOf(u, b)
  BY <1>1, <1>2 DEF CallOf
<1>6. ASSUME NEW i \in Ifs PROVE Live(u, i)
  <2>1. s.lp[i].connected => s.lp[i].isdn_channel \in Chans
    BY <1>1, Connected
  <2> QED BY <1>1, <1>2, <2>1 DEF Live
<1> QED BY <1>2, <1>3, <1>4, <1>5, <1>6 DEF Good, Consistent, u

LEMMA AcceptGood ==
    ASSUME NEW s, Good(s), NEW c \in Chans, s.phase[c] = "null", ~s.dev.usage[c],
           NEW i \in Ifs, ~s.lp[i].connected
    PROVE  Good([s EXCEPT !.phase[c] = "setup", !.own[c] = i,
                          !.dev.usage[c] = TRUE, !.dev.st_netdev[c] = i,
                          !.lp[i] = [@ EXCEPT !.connected = TRUE, !.isdn_channel = c,
                                              !.dialstate = 7]])
<1> DEFINE p == [s.lp[i] EXCEPT !.connected = TRUE, !.isdn_channel = c, !.dialstate = 7]
           u == [s EXCEPT !.phase[c] = "setup", !.own[c] = i,
                          !.dev.usage[c] = TRUE, !.dev.st_netdev[c] = i, !.lp[i] = p]
<1>1. s \in State /\ Bound(s) /\ (\A b \in Chans : CallOf(s, b)) /\ \A j \in Ifs : Live(s, j)
  BY DEF Good, Consistent
<1>2. c # None /\ i # None /\ i \in 0 .. Interfaces /\ c \in 0 .. Channels /\ 7 \in 0 .. 11
  BY RoleAssumption DEF Chans, Ifs, None
<1>0. s.lp[i] \in Local
  BY <1>1 DEF State
<1>3. p \in Local
  BY <1>0, <1>2, LocalWith, Zenon
<1>4. p.connected /\ p.isdn_channel = c /\ p.dialstate = 7
  BY <1>1 DEF State, Local
<1> HIDE DEF p
<1>5. u \in State
  <2> DEFINE v == [s EXCEPT !.phase[c] = "setup", !.own[c] = i]
  <2>1. v \in State
    BY <1>1, <1>2 DEF State, Phases
  <2>2. u = [v EXCEPT !.dev.usage[c] = TRUE, !.dev.st_netdev[c] = i, !.lp[i] = p]
    OBVIOUS
  <2> HIDE DEF v, u
  <2> QED BY <1>2, <1>3, <2>1, <2>2 DEF State, Device
<1>6. /\ u.lp[i] = p /\ \A j \in Ifs : j # i => u.lp[j] = s.lp[j]
      /\ u.dev.nethangup = s.dev.nethangup /\ u.dev.stopped = s.dev.stopped
      /\ u.dev.rx_netdev = s.dev.rx_netdev /\ u.hung = s.hung
  BY <1>1 DEF State, Device
<1>7. u.dev.usage[c] /\ u.dev.st_netdev[c] = i /\ u.own[c] = i
  BY <1>1 DEF State, Device
<1>8. \A b \in Chans : b # c =>
          /\ u.dev.usage[b] = s.dev.usage[b] /\ u.dev.st_netdev[b] = s.dev.st_netdev[b]
          /\ u.phase[b] = s.phase[b] /\ u.own[b] = s.own[b]
  BY <1>1 DEF State, Device
<1> HIDE DEF u
<1>9. s.lp[i].isdn_channel = None
  BY <1>1 DEF Bound, HasChannel
<1>10. \A j \in Ifs : s.lp[j].isdn_channel # c
  BY <1>1, <1>2 DEF Bound, HasChannel
<1>11. ASSUME NEW j \in Ifs PROVE HasChannel(u, j)
  <2>1. CASE j = i
    BY <1>2, <1>4, <1>6, <1>7, <2>1 DEF HasChannel
  <2>2. CASE j # i
    <3>1. s.lp[j].connected => s.lp[j].isdn_channel \in Chans /\ s.lp[j].isdn_channel # c
      BY <1>1, <1>10, Connected
    <3>2. HasChannel(s, j)
      BY <1>1 DEF Bound
    <3>3. u.lp[j] = s.lp[j]
      BY <1>6, <2>2
    <3>4. CASE s.lp[j].connected
      <4> DEFINE b == s.lp[j].isdn_channel
      <4>1. b \in Chans /\ b # c
        BY <3>1, <3>4
      <4>2. /\ u.dev.usage[b] = s.dev.usage[b] /\ u.dev.st_netdev[b] = s.dev.st_netdev[b]
            /\ u.dev.rx_netdev[b] = s.dev.rx_netdev[b]
        BY <1>6, <1>8, <4>1
      <4> QED BY <3>2, <3>3, <4>2 DEF HasChannel
    <3>5. CASE ~s.lp[j].connected
      BY <1>8, <3>2, <3>3, <3>5 DEF HasChannel
    <3> QED BY <3>4, <3>5
  <2> QED BY <2>1, <2>2
<1>12. ASSUME NEW b \in Chans PROVE HasUser(u, b)
  <2>1. CASE b = c
    BY <1>4, <1>6, <2>1 DEF HasUser
  <2>2. CASE b # c
    <3>1. HasUser(s, b) /\ b # None
      BY <1>1 DEF Bound, Chans, None
    <3> QED BY <1>6, <1>8, <1>9, <2>2, <3>1 DEF HasUser
  <2> QED BY <2>1, <2>2
<1>13. ASSUME NEW b \in Chans PROVE CallOf(u, b)
  <2>1. CallOf(s, b) /\ b # None
    BY <1>1 DEF Chans, None
  <2> QED BY <1>4, <1>6, <1>7, <1>8, <1>9, <2>1 DEF CallOf
<1>14. ASSUME NEW j \in Ifs PROVE Live(u, j)
  <2>1. s.lp[j].connected => s.lp[j].isdn_channel \in Chans /\ s.lp[j].isdn_channel # c
    BY <1>1, <1>10, Connected
  <2> QED BY <1>1, <1>4, <1>6, <1>8, <2>1 DEF Live
<1>15. Good(u)
  BY <1>5, <1>11, <1>12, <1>13, <1>14 DEF Good, Consistent, Bound
<1> QED BY <1>15 DEF u, p

-----------------------------------------------------------------------------
(* Each action keeps the invariant *)

LEMMA DoGood == ASSUME NEW t, Good(t), Do(t) PROVE IInv'
<1>1. t \in State
  BY DEF Good, Consistent
<1>2. t = [lp |-> t.lp, dev |-> t.dev, phase |-> t.phase, hung |-> t.hung, own |-> t.own]
  BY <1>1 DEF State
<1>3. lp' = t.lp /\ dev' = t.dev /\ phase' = t.phase /\ hung' = t.hung /\ own' = t.own
  BY DEF Do
<1>4. S' = t
  BY <1>2, <1>3 DEF S
<1> QED BY <1>4 DEF IInv

LEMMA Fields == S.lp = lp /\ S.dev = dev /\ S.phase = phase /\ S.hung = hung /\ S.own = own
BY DEF S

LEMMA StartGood == ASSUME IInv, NEW i \in Ifs, Start(i) PROVE IInv'
<1> DEFINE c == isdn_get_free_channel(S)
           t == isdn_net_bind_channel([S EXCEPT !.lp[i].dialstate = 1], i, c)
<1>1. Good(S) /\ S \in State
  BY DEF IInv, Good, Consistent
<1>2. c \in Chans /\ ~S.dev.usage[c]
  BY <1>1, FreeChannel DEF Start
<1>3. ~S.lp[i].connected /\ 1 \in 1 .. 11
  BY Fields DEF Start
<1>4. Do(isdn_net_dial(t))
  BY DEF Start
<1> HIDE DEF c
<1>5. Good(t)
  BY <1>1, <1>2, <1>3, BindGood
<1> HIDE DEF t
<1> QED BY <1>4, <1>5, PassGood, DoGood

LEMMA TimerDialGood == ASSUME IInv, TimerDial PROVE IInv'
<1>1. Do(isdn_net_dial(S))
  BY DEF TimerDial
<1>2. Good(isdn_net_dial(S))
  BY PassGood DEF IInv
<1> QED BY <1>1, <1>2, DoGood

LEMMA AutohupGood ==
    ASSUME IInv, NEW idle \in SUBSET Ifs, isdn_net_autohup(idle) PROVE IInv'
<1> DEFINE ends == IF dev.stopped /\ Online # {} THEN {Min(Online)} ELSE idle
           s == [S EXCEPT !.dev.nethangup = Online # {}]
<1>1. /\ S \in State /\ Bound(S) /\ (\A c \in Chans : CallOf(S, c))
      /\ \A i \in Ifs : Live(S, i)
  BY DEF IInv, Good, Consistent
<1>2. s.lp = S.lp /\ s.phase = S.phase /\ s.hung = S.hung /\ s.own = S.own
  BY <1>1 DEF State
<1>3. /\ s.dev.usage = S.dev.usage /\ s.dev.st_netdev = S.dev.st_netdev
      /\ s.dev.rx_netdev = S.dev.rx_netdev /\ s.dev.stopped = S.dev.stopped
      /\ s.dev.nethangup <=> Online # {}
  BY <1>1 DEF State, Device
<1>4. s \in State
  <2>1. (Online # {}) \in BOOLEAN
    BY Zenon
  <2> HIDE DEF Online
  <2> QED BY <1>1, <2>1 DEF State, Device
<1>5. Do(isdn_net_hangup(s, ends))
  BY DEF isdn_net_autohup
<1>6. ends \in SUBSET Ifs
  <2>1. Online \in SUBSET Nat
    BY RoleAssumption DEF Online, Ifs
  <2>2. Online # {} => Min(Online) \in Online
    BY <2>1, MinIsIn
  <2>3. Online \subseteq Ifs
    BY DEF Online
  <2> QED BY <2>2, <2>3
<1> HIDE DEF s, ends
<1>7. Bound(s)
  BY <1>1, <1>2, <1>3, BoundSame
<1>8. ASSUME NEW c \in Chans PROVE CallOf(s, c)
  BY <1>1, <1>2 DEF CallOf
<1>9. ASSUME NEW i \in Ifs PROVE Live(s, i)
  <2>1. s.lp[i].connected /\ s.lp[i].dialstate = 0 => i \in Online
    BY <1>2, Fields DEF Online
  <2> QED BY <1>1, <1>2, <1>3, <2>1 DEF Live
<1>10. Good(s)
  BY <1>4, <1>7, <1>8, <1>9 DEF Good, Consistent
<1>11. Good(isdn_net_hangup(s, ends))
  BY <1>6, <1>10, HangupGood
<1> QED BY <1>5, <1>11, DoGood

LEMMA ForceHangupGood ==
    ASSUME IInv, NEW i \in Ifs, isdn_net_force_hangup(i) PROVE IInv'
<1>1. Do(isdn_net_hangup(S, {i}))
  BY DEF isdn_net_force_hangup
<1>2. Good(isdn_net_hangup(S, {i}))
  BY HangupGood DEF IInv
<1> QED BY <1>1, <1>2, DoGood

\* The call goes to an interface that has no channel; its channel is free.
LEMMA FirstMatches ==
    ASSUME NEW c \in Chans, Matching(c) # {}
    PROVE  /\ Min(Matching(c)) \in Called /\ Min(Matching(c)) \in Ifs
           /\ ~lp[Min(Matching(c))].connected /\ ~dev.usage[c]
<1>1. Matching(c) \in SUBSET Nat
  <2>1. Called \subseteq Ifs /\ Ifs \subseteq Nat
    BY RoleAssumption DEF Ifs
  <2> QED BY <2>1 DEF Matching
<1>2. Min(Matching(c)) \in Matching(c)
  BY <1>1, MinIsIn
<1> QED BY <1>2, RoleAssumption DEF Matching

LEMMA AcceptedGood ==
    ASSUME IInv, NEW c \in Chans, NEW i \in Ifs, phase[c] = "null",
           ~lp[i].connected, ~dev.usage[c], Accept(c, i)
    PROVE  IInv'
<1> DEFINE t == [S EXCEPT !.phase[c] = "setup", !.own[c] = i,
                          !.dev.usage[c] = TRUE, !.dev.st_netdev[c] = i,
                          !.lp[i] = [@ EXCEPT !.connected = TRUE, !.isdn_channel = c,
                                              !.dialstate = 7]]
<1>1. Good(S) /\ S.phase[c] = "null" /\ ~S.lp[i].connected /\ ~S.dev.usage[c]
  BY Fields DEF IInv
<1>2. Good(t)
  BY <1>1, AcceptGood, Zenon
<1>3. Do(isdn_net_dial(t))
  BY DEF Accept
<1> HIDE DEF t
<1> QED BY <1>2, <1>3, PassGood, DoGood

LEMMA CallBackGood ==
    ASSUME IInv, NEW c \in Chans, NEW i \in Ifs, phase[c] = "null",
           ~lp[i].connected, ~dev.usage[c], CallBack(c, i)
    PROVE  IInv'
<1> DEFINE s(cbhup) ==
               IF cbhup THEN [S EXCEPT !.phase[c] = "setup", !.hung[c] = TRUE,
                                       !.own[c] = None] ELSE S
           d(cbhup) == isdn_get_free_channel(s(cbhup))
           t(cbhup) == isdn_net_bind_channel([s(cbhup) EXCEPT !.lp[i].dialstate = 11],
                                             i, d(cbhup))
<1>1. Good(S) /\ S.phase[c] = "null" /\ ~S.lp[i].connected /\ ~S.dev.usage[c]
  BY Fields DEF IInv
<1>2. PICK cbhup \in BOOLEAN : Do(isdn_net_dial(t(cbhup)))
  BY DEF CallBack
<1>3. Good(s(cbhup)) /\ s(cbhup).lp = S.lp /\ s(cbhup).dev = S.dev
  BY <1>1, RefusedGood
<1> HIDE DEF s
<1>4. s(cbhup) \in State /\ Free(s(cbhup)) # {}
  BY <1>1, <1>3 DEF Good, Consistent, Free
<1>5. d(cbhup) \in Chans /\ ~s(cbhup).dev.usage[d(cbhup)]
  BY <1>4, FreeChannel
<1>6. ~s(cbhup).lp[i].connected /\ 11 \in 1 .. 11
  BY <1>1, <1>3
<1> HIDE DEF d
<1>7. Good(t(cbhup))
  BY <1>3, <1>5, <1>6, BindGood
<1> HIDE DEF t
<1>8. Good(isdn_net_dial(t(cbhup)))
  BY <1>7, PassGood
<1> QED BY <1>2, <1>8, DoGood

LEMMA ICALLGood == ASSUME IInv, NEW c \in Chans, ICALL(c) PROVE IInv'
<1>1. CASE dev.stopped
  <2> DEFINE t == [S EXCEPT !.phase[c] = "setup", !.hung[c] = TRUE, !.own[c] = None]
  <2>1. Do(t) /\ S.phase[c] = "null"
    BY <1>1, Fields DEF ICALL
  <2>2. Good(t)
    BY <2>1, RefusedGood DEF IInv
  <2> HIDE DEF t
  <2> QED BY <2>1, <2>2, DoGood
<1>2. CASE ~dev.stopped
  <2> DEFINE i == Min(Matching(c))
  <2>1. Matching(c) # {} /\ phase[c] = "null"
    BY <1>2 DEF ICALL
  <2>2. i \in Ifs /\ ~lp[i].connected /\ ~dev.usage[c]
    BY <2>1, FirstMatches
  <2>3. CallBack(c, i) \/ Accept(c, i)
    BY <1>2 DEF ICALL
  <2> HIDE DEF i
  <2> QED BY <2>1, <2>2, <2>3, CallBackGood, AcceptedGood
<1> QED BY <1>1, <1>2

LEMMA SetStoppedGood == ASSUME IInv, NEW on \in BOOLEAN, SetStopped(on) PROVE IInv'
<1> DEFINE s == [S EXCEPT !.dev.stopped = on]
<1>1. /\ S \in State /\ Bound(S) /\ (\A c \in Chans : CallOf(S, c))
      /\ \A i \in Ifs : Live(S, i)
  BY DEF IInv, Good, Consistent
<1>2. /\ s \in State /\ s.lp = S.lp /\ s.phase = S.phase /\ s.hung = S.hung /\ s.own = S.own
      /\ s.dev.usage = S.dev.usage /\ s.dev.st_netdev = S.dev.st_netdev
      /\ s.dev.rx_netdev = S.dev.rx_netdev /\ s.dev.nethangup = S.dev.nethangup
      /\ s.dev.stopped = on
  BY <1>1 DEF State, Device
<1>3. Do(s) /\ (~on => \A i \in Ifs : ~S.lp[i].connected)
  BY Fields DEF SetStopped
<1> HIDE DEF s
<1>4. Bound(s)
  BY <1>1, <1>2, BoundSame
<1>5. ASSUME NEW c \in Chans PROVE CallOf(s, c)
  BY <1>1, <1>2 DEF CallOf
<1>6. ASSUME NEW i \in Ifs PROVE Live(s, i)
  BY <1>1, <1>2, <1>3 DEF Live
<1>7. Good(s)
  BY <1>2, <1>4, <1>5, <1>6 DEF Good, Consistent
<1> QED BY <1>3, <1>7, DoGood

\* The interface that hears of the D channel still waits for its B channel.
LEMMA StatDconnGood ==
    ASSUME NEW s, Good(s), NEW i \in Ifs PROVE Good(StatDconn(s, i))
<1> DEFINE n == s.lp[i].dialstate + 1
           u == [s EXCEPT !.lp[i].dialstate = n]
<1>1. s \in State /\ Bound(s) /\ (\A c \in Chans : CallOf(s, c)) /\ \A j \in Ifs : Live(s, j)
  BY DEF Good, Consistent
<1>2. CASE s.lp[i].dialstate \in {4, 7, 8}
  <2>1. n \in 0 .. 11 /\ n # 0 /\ (s.lp[i].dialstate # 4 => n \in 7 .. 10)
    BY <1>2
  <2>2. StatDconn(s, i) = u
    BY <1>2 DEF StatDconn
  <2> HIDE DEF n
  <2>3. u \in State
    BY <1>1, <2>1, DialstateState
  <2>4. /\ u.dev = s.dev /\ u.phase = s.phase /\ u.hung = s.hung /\ u.own = s.own
        /\ \A j \in Ifs : j # i => u.lp[j] = s.lp[j]
        /\ u.lp[i].dialstate = n /\ u.lp[i].connected = s.lp[i].connected
        /\ u.lp[i].isdn_channel = s.lp[i].isdn_channel
    BY <1>1 DEF State, Local
  <2> HIDE DEF u
  <2>5. \A j \in Ifs : u.lp[j].isdn_channel = s.lp[j].isdn_channel
    BY <2>4
  <2>6. ASSUME NEW j \in Ifs PROVE HasChannel(u, j)
    <3>1. HasChannel(s, j)
      BY <1>1 DEF Bound
    <3>2. CASE j = i
      BY <1>2, <2>1, <2>4, <3>1, <3>2 DEF HasChannel
    <3>3. CASE j # i
      BY <2>4, <3>1, <3>3 DEF HasChannel
    <3> QED BY <3>2, <3>3
  <2>7. ASSUME NEW c \in Chans PROVE HasUser(u, c) /\ CallOf(u, c)
    BY <1>1, <2>4, <2>5 DEF Bound, HasUser, CallOf
  <2>8. ASSUME NEW j \in Ifs PROVE Live(u, j)
    BY <1>1, <2>1, <2>4 DEF Live
  <2> QED BY <2>2, <2>3, <2>6, <2>7, <2>8 DEF Good, Consistent, Bound
<1>3. CASE s.lp[i].dialstate \notin {4, 7, 8}
  BY <1>3 DEF StatDconn
<1> QED BY <1>2, <1>3

\* The B channel that came up is that of a call nobody hung up: of this interface.
LEMMA StatBconnGood ==
    ASSUME NEW s, Good(s), NEW i \in Ifs, NEW c \in Chans, s.lp[i].isdn_channel = c,
           s.lp[i].connected, s.phase[c] = "data", ~s.hung[c]
    PROVE  Good(StatBconn(s, i))
<1> DEFINE rx == IF s.lp[i].dialstate > 6 THEN i ELSE s.dev.rx_netdev[c]
           v == [s EXCEPT !.lp[i].dialstate = 0]
           u == [v EXCEPT !.dev.nethangup = TRUE, !.dev.rx_netdev[c] = rx]
<1>1. s \in State /\ Bound(s) /\ (\A b \in Chans : CallOf(s, b)) /\ \A j \in Ifs : Live(s, j)
  BY DEF Good, Consistent
<1>2. CASE s.lp[i].dialstate \in 5 .. 10
  <2>1. StatBconn(s, i) = u
    BY <1>1, <1>2 DEF StatBconn, State, Device
  <2>2. HasChannel(s, i) /\ i \in 0 .. Interfaces /\ i # None /\ c # None /\ 0 \in 0 .. 11
    BY <1>1, RoleAssumption DEF Bound, Ifs, Chans, None
  <2>3. rx = i
    BY <1>2, <2>2 DEF HasChannel
  <2> HIDE DEF rx
  <2>4. v \in State
    BY <1>1, <2>2, DialstateState
  <2>5. /\ v.dev = s.dev /\ v.phase = s.phase /\ v.hung = s.hung /\ v.own = s.own
        /\ \A j \in Ifs : j # i => v.lp[j] = s.lp[j]
        /\ v.lp[i].dialstate = 0 /\ v.lp[i].connected = s.lp[i].connected
        /\ v.lp[i].isdn_channel = s.lp[i].isdn_channel
    BY <1>1 DEF State, Local
  <2> HIDE DEF v
  <2>6. u \in State
    BY <2>2, <2>3, <2>4 DEF State, Device
  <2>7. /\ u.lp = v.lp /\ u.phase = s.phase /\ u.hung = s.hung /\ u.own = s.own
        /\ u.dev.usage = s.dev.usage /\ u.dev.st_netdev = s.dev.st_netdev
        /\ u.dev.stopped = s.dev.stopped /\ u.dev.nethangup
        /\ u.dev.rx_netdev[c] = i
        /\ \A b \in Chans : b # c => u.dev.rx_netdev[b] = s.dev.rx_netdev[b]
    BY <2>3, <2>4, <2>5 DEF State, Device
  <2> HIDE DEF u
  <2>8. \A j \in Ifs : u.lp[j].isdn_channel = s.lp[j].isdn_channel
    BY <2>5, <2>7
  <2>9. ASSUME NEW j \in Ifs PROVE HasChannel(u, j)
    <3>1. HasChannel(s, j)
      BY <1>1 DEF Bound
    <3>2. CASE j = i
      BY <2>2, <2>5, <2>7, <3>2, ZenonT(60) DEF HasChannel
    <3>3. CASE j # i
      <4>1. s.lp[j].connected => s.lp[j].isdn_channel \in Chans /\ s.lp[j].isdn_channel # c
        BY <1>1, <3>3, Connected, OneEach
      <4> QED BY <2>5, <2>7, <3>1, <3>3, <4>1 DEF HasChannel
    <3> QED BY <3>2, <3>3
  <2>10. ASSUME NEW b \in Chans PROVE HasUser(u, b) /\ CallOf(u, b)
    BY <1>1, <2>7, <2>8 DEF Bound, HasUser, CallOf
  <2>11. s.own[c] = i
    <3>1. s.own[c] \in Ifs /\ s.lp[s.own[c]].isdn_channel = c
      BY <1>1 DEF CallOf
    <3> QED BY <1>1, <3>1, OneEach
  <2>12. ASSUME NEW j \in Ifs PROVE Live(u, j)
    <3>1. CASE j = i
      BY <2>5, <2>7, <2>11, <3>1 DEF Live
    <3>2. CASE j # i
      BY <1>1, <2>5, <2>7, <3>2 DEF Live
    <3> QED BY <3>1, <3>2
  <2> QED BY <2>1, <2>6, <2>9, <2>10, <2>12 DEF Good, Consistent, Bound
<1>3. CASE s.lp[i].dialstate \notin 5 .. 10
  BY <1>3 DEF StatBconn
<1> QED BY <1>2, <1>3

LEMMA DconnGood == ASSUME IInv, NEW c \in Chans, Dconn(c) PROVE IInv'
<1> DEFINE u == [S EXCEPT !.phase[c] = "up"]
           i == dev.st_netdev[c]
           t == Told(u, c, StatDconn)
<1>1. Good(S) /\ S \in State /\ Bound(S)
  BY DEF IInv, Good, Consistent
<1>2. Do(t) /\ S.phase[c] = "setup"
  BY Fields DEF Dconn, Driver!Dconn, Driver!From
<1>3. Good(u)
  BY <1>1, <1>2, PhaseGood
<1> HIDE DEF u
<1>4. t = IF dev.stopped \/ i = None THEN u ELSE StatDconn(u, i)
  BY DEF Told
<1>5. i # None => i \in Ifs
  BY <1>1, Fields, Listener
<1> HIDE DEF i, t
<1>6. Good(t)
  BY <1>3, <1>4, <1>5, StatDconnGood
<1> QED BY <1>2, <1>6, DoGood

LEMMA BconnGood == ASSUME IInv, NEW c \in Chans, Bconn(c) PROVE IInv'
<1> DEFINE u == [S EXCEPT !.phase[c] = "data"]
           i == dev.st_netdev[c]
           t == Told(u, c, StatBconn)
<1>1. Good(S) /\ S \in State /\ Bound(S)
  BY DEF IInv, Good, Consistent
<1>2. Do(t) /\ S.phase[c] = "up" /\ ~S.hung[c]
  BY Fields DEF Bconn, Driver!Bconn, Driver!From
<1>3. Good(u) /\ u.lp = S.lp /\ u.hung = S.hung /\ u.phase[c] = "data"
  BY <1>1, <1>2, PhaseGood
<1> HIDE DEF u
<1>4. t = IF dev.stopped \/ i = None THEN u ELSE StatBconn(u, i)
  BY DEF Told
<1>5. i # None => i \in Ifs /\ S.lp[i].isdn_channel = c /\ S.lp[i].connected
  BY <1>1, Fields, Listener
<1> HIDE DEF i, t
<1>6. Good(t)
  BY <1>2, <1>3, <1>4, <1>5, StatBconnGood
<1> QED BY <1>2, <1>6, DoGood

LEMMA BhupGood == ASSUME IInv, NEW c \in Chans, Bhup(c) PROVE IInv'
<1> DEFINE u == [S EXCEPT !.phase[c] = "half"]
<1>1. Do(u) /\ S.phase[c] = "data"
  BY Fields DEF Bhup, Driver!Bhup, Driver!From
<1>2. Good(u)
  BY <1>1, PhaseGood DEF IInv
<1> HIDE DEF u
<1> QED BY <1>1, <1>2, DoGood

LEMMA DhupGood == ASSUME IInv, NEW c \in Chans, Dhup(c) PROVE IInv'
<1> DEFINE u == [S EXCEPT !.phase[c] = "null", !.hung[c] = FALSE, !.own[c] = None]
           i == dev.st_netdev[c]
           t == Told(u, c, StatDhup)
<1>1. /\ S \in State /\ Bound(S) /\ (\A b \in Chans : CallOf(S, b))
      /\ \A j \in Ifs : Live(S, j)
  BY DEF IInv, Good, Consistent
<1>2. Do(t)
  BY DEF Dhup
<1>3. t = IF dev.stopped \/ i = None THEN u ELSE StatDhup(u, i)
  BY DEF Told
<1>4. /\ u.lp = S.lp /\ u.dev = S.dev /\ u.phase[c] = "null"
      /\ \A b \in Chans : b # c =>
             u.phase[b] = S.phase[b] /\ u.hung[b] = S.hung[b] /\ u.own[b] = S.own[b]
  BY <1>1 DEF State
<1>5. u \in State
  <2>1. None \in 0 .. Interfaces
    BY RoleAssumption DEF None
  <2> QED BY <1>1, <2>1 DEF State, Phases
<1>6. i = S.dev.st_netdev[c] /\ (dev.stopped <=> S.dev.stopped)
  BY Fields
<1> HIDE DEF u, i, t
<1>7. Consistent(u)
  <2>1. Bound(u)
    BY <1>1, <1>4 DEF Bound, HasChannel, HasUser
  <2>2. ASSUME NEW b \in Chans PROVE CallOf(u, b)
    BY <1>1, <1>4 DEF CallOf
  <2> QED BY <1>5, <2>1, <2>2 DEF Consistent
\* Only the interface that hears of the channel is concerned.
<1>8. ASSUME NEW j \in Ifs, j # i \/ S.dev.stopped PROVE Live(u, j)
  <2>1. S.lp[j].connected => /\ S.lp[j].isdn_channel \in Chans
                             /\ S.dev.st_netdev[S.lp[j].isdn_channel] = j
    BY <1>1, Connected
  <2> QED BY <1>1, <1>4, <1>6, <1>8, <2>1 DEF Live
<1>9. CASE dev.stopped \/ i = None
  <2>1. \A j \in Ifs : j # None
    BY DEF Ifs, None
  <2>2. Good(u)
    BY <1>6, <1>7, <1>8, <1>9, <2>1 DEF Good
  <2> QED BY <1>2, <1>3, <1>9, <2>2, DoGood
<1>10. CASE ~(dev.stopped \/ i = None)
  <2>1. i \in Ifs /\ S.lp[i].isdn_channel = c /\ S.lp[i].connected
    BY <1>1, <1>6, <1>10, Listener
  <2>2. t = StatDhup(u, i)
    BY <1>3, <1>10
  <2>3. CASE u.lp[i].dialstate = 0
    <3>1. t = isdn_net_unbind_channel(u, {i})
      BY <1>4, <2>1, <2>2, <2>3 DEF StatDhup
    <3>2. \A b \in Chans : b \in ChannelsOf(u, {i}) => u.phase[b] = "null" \/ u.hung[b]
      BY <1>4, <2>1 DEF ChannelsOf
    <3>3. \A j \in Ifs \ {i} : Live(u, j)
      BY <1>8
    <3>4. {i} \in SUBSET Ifs
      BY <2>1
    <3>5. Good(t)
      BY <1>7, <3>1, <3>2, <3>3, <3>4, UnbindGood
    <3> QED BY <1>2, <3>5, DoGood
  <2>4. CASE u.lp[i].dialstate # 0
    <3>1. t = u
      BY <2>2, <2>4 DEF StatDhup
    <3>2. Live(u, i)
      BY <2>4 DEF Live
    <3>3. Good(u)
      BY <1>7, <1>8, <3>2 DEF Good
    <3> QED BY <1>2, <3>1, <3>3, DoGood
  <2> QED BY <2>3, <2>4
<1> QED BY <1>9, <1>10

-----------------------------------------------------------------------------
(* The invariant, and what follows from it *)

LEMMA InitGood == Init => IInv
<1> SUFFICES ASSUME Init PROVE IInv
  OBVIOUS
<1>1. /\ S.lp = [i \in Ifs |-> Idle]
      /\ S.dev = [usage |-> [c \in Chans |-> FALSE], st_netdev |-> [c \in Chans |-> None],
                  rx_netdev |-> [c \in Chans |-> None], netdial |-> FALSE,
                  nethangup |-> FALSE, stopped |-> FALSE]
      /\ S.phase = [c \in Chans |-> "null"] /\ S.hung = [c \in Chans |-> FALSE]
      /\ S.own = [c \in Chans |-> None]
  BY Fields DEF Init, Driver!Init
<1>2. S \in State
  <2>1. None \in 0 .. Interfaces
    BY RoleAssumption DEF None
  <2>2. S.lp \in [Ifs -> Local] /\ S.dev \in Device
    BY <1>1, <2>1, IdleLocal DEF Device
  <2>3. S.phase \in [Chans -> Phases] /\ S.hung \in [Chans -> BOOLEAN]
    BY <1>1 DEF Phases
  <2>4. S.own \in [Chans -> 0 .. Interfaces]
    BY <1>1, <2>1
  <2> QED BY <2>2, <2>3, <2>4 DEF S, State
<1>3. Bound(S)
  BY <1>1 DEF Bound, HasChannel, HasUser, Idle
<1>4. \A c \in Chans : CallOf(S, c)
  BY <1>1 DEF CallOf
<1>5. \A i \in Ifs : Live(S, i)
  BY <1>1 DEF Live, Idle
<1> QED BY <1>2, <1>3, <1>4, <1>5 DEF IInv, Good, Consistent

LEMMA NextGood == IInv /\ [Next]_vars => IInv'
<1> SUFFICES ASSUME IInv, [Next]_vars PROVE IInv'
  OBVIOUS
<1>1. CASE TimerDial
  BY <1>1, TimerDialGood
<1>2. CASE \E idle \in SUBSET Ifs : isdn_net_autohup(idle)
  BY <1>2, AutohupGood
<1>3. CASE \E i \in Ifs : Start(i) \/ isdn_net_force_hangup(i)
  BY <1>3, StartGood, ForceHangupGood
<1>4. CASE \E c \in Chans : ICALL(c) \/ Dconn(c) \/ Bconn(c) \/ Bhup(c) \/ Dhup(c)
  BY <1>4, ICALLGood, DconnGood, BconnGood, BhupGood, DhupGood
<1>5. CASE \E on \in BOOLEAN : SetStopped(on)
  BY <1>5, SetStoppedGood
<1>6. CASE UNCHANGED vars
  <2>1. S' = S
    BY <1>6 DEF vars, S
  <2> QED BY <2>1 DEF IInv
<1> QED BY <1>1, <1>2, <1>3, <1>4, <1>5, <1>6 DEF Next

LEMMA Invariant == Spec => []IInv
BY InitGood, NextGood, PTL DEF Spec

\* Whatever the driver does within its promise: no interface loses its channel
\* to another one, no callback goes to an interface that does not have the
\* channel, and no channel stays in use for nobody.
THEOREM OwnedAlways == Spec => []Owned
<1>1. IInv => Owned
  BY Fields DEF IInv, Good, Consistent, Bound, HasChannel, HasUser, Owned
<1> QED BY <1>1, Invariant, PTL

\* Whatever calls come in, and however late the driver clears the calls that
\* were hung up: an interface sends its packets over a call of its own, and the
\* timer that ends it when it is idle runs.
THEOREM AliveAlways == Spec => []Alive
<1>1. IInv => Alive
  BY Fields DEF IInv, Good, Live, Alive, Online
<1> QED BY <1>1, Invariant, PTL
=============================================================================

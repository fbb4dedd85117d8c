------------------------------ MODULE Callc_proof ------------------------------
(***************************************************************************)
(* What holds of call control for any number of channels and processes:    *)
(* a channel and its call process fit each other, whichever of them lets   *)
(* go first, and every channel follows the promise of Call.                *)
(*                                                                         *)
(* An operation of Callc maps a state to a state and is a chain of others, *)
(* up to eight of them.  The proof runs it: a state is written as          *)
(* Put(s, c, p, x, y, z, l), which is s with x for channel c, y for its    *)
(* process p, z for what the link level knows and l for lost, and a lemma  *)
(* for every operation says what it makes of x, y, z and l.  From that     *)
(* form the step of a pair is a matter of a few fields (Next1), and the    *)
(* steps of all channels follow from those of one (PairStep, Together).    *)
(***************************************************************************)
EXTENDS Callc, TLAPS

-----------------------------------------------------------------------------
(* States in one form *)

Typed(s) ==
    /\ s.ch \in [Channels -> Channel] /\ s.pr \in [Procs -> l3_process]
    /\ s.ll \in [Channels -> LinkLevel]
At(s, c, p) == Typed(s) /\ c \in Channels /\ p \in Procs

Put(s, c, p, x, y, z, l) ==
    [ch |-> [s.ch EXCEPT ![c] = x], pr |-> [s.pr EXCEPT ![p] = y],
     ll |-> [s.ll EXCEPT ![c] = z], lost |-> l, env |-> s.env]

\* The assignments to one field, of a channel, a process, the link level; and
\* in a state.
St(x, w) == [x EXCEPT !.st = w]
BOff(x) == [x EXCEPT !.start_b = FALSE]
BSet(x, w) == [x EXCEPT !.start_b = w]
Opened(x) == [x EXCEPT !.data_open = TRUE]
Shut(x) == [x EXCEPT !.data_open = FALSE]
DrelOn(x) == [x EXCEPT !.drel = TRUE]
DrelOff(x) == [x EXCEPT !.drel = FALSE]
Dial(x, w) == [x EXCEPT !.dial = w]
Proc(x, w) == [x EXCEPT !.proc = w]
L3St(y, w) == [y EXCEPT !.st = w]
Timer(y, w) == [y EXCEPT !.timer = w]
Dead(y) == [y EXCEPT !.live = FALSE]
Chan(y, w) == [y EXCEPT !.chan = w]
N303(y, w) == [y EXCEPT !.n303 = w]
Phase(z, w) == [z EXCEPT !.phase = w]
Hup(z) == [z EXCEPT !.hup = TRUE]
SetSt(s, c, w) == [s EXCEPT !.ch[c].st = w]
SetBOff(s, c) == [s EXCEPT !.ch[c].start_b = FALSE]
SetBSet(s, c, w) == [s EXCEPT !.ch[c].start_b = w]
SetOpened(s, c) == [s EXCEPT !.ch[c].data_open = TRUE]
SetShut(s, c) == [s EXCEPT !.ch[c].data_open = FALSE]
SetDrelOn(s, c) == [s EXCEPT !.ch[c].drel = TRUE]
SetDial(s, c, w) == [s EXCEPT !.ch[c].dial = w]
SetProc(s, c, w) == [s EXCEPT !.ch[c].proc = w]
SetTimer(s, p, w) == [s EXCEPT !.pr[p].timer = w]
SetDead(s, p) == [s EXCEPT !.pr[p].live = FALSE]
SetChan(s, p, w) == [s EXCEPT !.pr[p].chan = w]
SetN303(s, p, w) == [s EXCEPT !.pr[p].n303 = w]
SetPhase(s, c, w) == [s EXCEPT !.ll[c].phase = w]
SetLl(s, c, z) == [s EXCEPT !.ll[c] = z]
SetPr(s, p, y) == [s EXCEPT !.pr[p] = y]

\* What a state in this form has where.
LEMMA PutIs ==
    ASSUME NEW s, NEW c, NEW p, At(s, c, p), NEW x, NEW y, NEW z, NEW l
    PROVE  LET t == Put(s, c, p, x, y, z, l)
           IN  t.ch[c] = x /\ t.pr[p] = y /\ t.ll[c] = z /\ t.lost = l /\ t.env = s.env
BY DEF Put, At, Typed

\* The later assignment counts, so that a change of a state in this form is one.
LEMMA Twice ==
    ASSUME NEW D, NEW f, DOMAIN f = D, NEW d \in D, NEW x, NEW w, f = [e \in D |-> f[e]]
    PROVE  [[f EXCEPT ![d] = x] EXCEPT ![d] = w] = [f EXCEPT ![d] = w]
OBVIOUS

LEMMA PutCh ==
    ASSUME NEW s, NEW c, NEW p, At(s, c, p), NEW x, NEW y, NEW z, NEW l, NEW w
    PROVE  [Put(s, c, p, x, y, z, l) EXCEPT !.ch[c] = w] = Put(s, c, p, w, y, z, l)
<1>1. [[s.ch EXCEPT ![c] = x] EXCEPT ![c] = w] = [s.ch EXCEPT ![c] = w]
  BY Twice DEF At, Typed
<1> QED BY <1>1 DEF Put

LEMMA PutPr ==
    ASSUME NEW s, NEW c, NEW p, At(s, c, p), NEW x, NEW y, NEW z, NEW l, NEW w
    PROVE  [Put(s, c, p, x, y, z, l) EXCEPT !.pr[p] = w] = Put(s, c, p, x, w, z, l)
<1>1. [[s.pr EXCEPT ![p] = y] EXCEPT ![p] = w] = [s.pr EXCEPT ![p] = w]
  BY Twice DEF At, Typed
<1> QED BY <1>1 DEF Put

LEMMA PutLl ==
    ASSUME NEW s, NEW c, NEW p, At(s, c, p), NEW x, NEW y, NEW z, NEW l, NEW w
    PROVE  [Put(s, c, p, x, y, z, l) EXCEPT !.ll[c] = w] = Put(s, c, p, x, y, w, l)
<1>1. [[s.ll EXCEPT ![c] = z] EXCEPT ![c] = w] = [s.ll EXCEPT ![c] = w]
  BY Twice DEF At, Typed
<1> QED BY <1>1 DEF Put

\* Each assignment of the operations, one by one.
LEMMA PutSt ==
    ASSUME NEW s, NEW c, NEW p, At(s, c, p), NEW x, NEW y, NEW z, NEW l, NEW w
    PROVE  SetSt(Put(s, c, p, x, y, z, l), c, w) = Put(s, c, p, St(x, w), y, z, l)
<1> DEFINE t == Put(s, c, p, x, y, z, l)
<1>1. t.ch[c] = x
  BY PutIs
<1>2. \A v : [t EXCEPT !.ch[c] = v] = Put(s, c, p, v, y, z, l)
  BY PutCh
<1> HIDE DEF t
<1>3. SetSt(t, c, w) = Put(s, c, p, St(x, w), y, z, l)
  BY <1>1, <1>2 DEF SetSt, St
<1> QED BY <1>3 DEF t

LEMMA PutBOff ==
    ASSUME NEW s, NEW c, NEW p, At(s, c, p), NEW x, NEW y, NEW z, NEW l
    PROVE  SetBOff(Put(s, c, p, x, y, z, l), c) = Put(s, c, p, BOff(x), y, z, l)
<1> DEFINE t == Put(s, c, p, x, y, z, l)
<1>1. t.ch[c] = x
  BY PutIs
<1>2. \A v : [t EXCEPT !.ch[c] = v] = Put(s, c, p, v, y, z, l)
  BY PutCh
<1> HIDE DEF t
<1>3. SetBOff(t, c) = Put(s, c, p, BOff(x), y, z, l)
  BY <1>1, <1>2 DEF SetBOff, BOff
<1> QED BY <1>3 DEF t

LEMMA PutBSet ==
    ASSUME NEW s, NEW c, NEW p, At(s, c, p), NEW x, NEW y, NEW z, NEW l, NEW w
    PROVE  SetBSet(Put(s, c, p, x, y, z, l), c, w) = Put(s, c, p, BSet(x, w), y, z, l)
<1> DEFINE t == Put(s, c, p, x, y, z, l)
<1>1. t.ch[c] = x
  BY PutIs
<1>2. \A v : [t EXCEPT !.ch[c] = v] = Put(s, c, p, v, y, z, l)
  BY PutCh
<1> HIDE DEF t
<1>3. SetBSet(t, c, w) = Put(s, c, p, BSet(x, w), y, z, l)
  BY <1>1, <1>2 DEF SetBSet, BSet
<1> QED BY <1>3 DEF t

LEMMA PutOpened ==
    ASSUME NEW s, NEW c, NEW p, At(s, c, p), NEW x, NEW y, NEW z, NEW l
    PROVE  SetOpened(Put(s, c, p, x, y, z, l), c) = Put(s, c, p, Opened(x), y, z, l)
<1> DEFINE t == Put(s, c, p, x, y, z, l)
<1>1. t.ch[c] = x
  BY PutIs
<1>2. \A v : [t EXCEPT !.ch[c] = v] = Put(s, c, p, v, y, z, l)
  BY PutCh
<1> HIDE DEF t
<1>3. SetOpened(t, c) = Put(s, c, p, Opened(x), y, z, l)
  BY <1>1, <1>2 DEF SetOpened, Opened
<1> QED BY <1>3 DEF t

LEMMA PutShut ==
    ASSUME NEW s, NEW c, NEW p, At(s, c, p), NEW x, NEW y, NEW z, NEW l
    PROVE  SetShut(Put(s, c, p, x, y, z, l), c) = Put(s, c, p, Shut(x), y, z, l)
<1> DEFINE t == Put(s, c, p, x, y, z, l)
<1>1. t.ch[c] = x
  BY PutIs
<1>2. \A v : [t EXCEPT !.ch[c] = v] = Put(s, c, p, v, y, z, l)
  BY PutCh
<1> HIDE DEF t
<1>3. SetShut(t, c) = Put(s, c, p, Shut(x), y, z, l)
  BY <1>1, <1>2 DEF SetShut, Shut
<1> QED BY <1>3 DEF t

LEMMA PutDrelOn ==
    ASSUME NEW s, NEW c, NEW p, At(s, c, p), NEW x, NEW y, NEW z, NEW l
    PROVE  SetDrelOn(Put(s, c, p, x, y, z, l), c) = Put(s, c, p, DrelOn(x), y, z, l)
<1> DEFINE t == Put(s, c, p, x, y, z, l)
<1>1. t.ch[c] = x
  BY PutIs
<1>2. \A v : [t EXCEPT !.ch[c] = v] = Put(s, c, p, v, y, z, l)
  BY PutCh
<1> HIDE DEF t
<1>3. SetDrelOn(t, c) = Put(s, c, p, DrelOn(x), y, z, l)
  BY <1>1, <1>2 DEF SetDrelOn, DrelOn
<1> QED BY <1>3 DEF t

LEMMA PutDrelOff ==
    ASSUME NEW s, NEW c, NEW p, At(s, c, p), NEW x, NEW y, NEW z, NEW l
    PROVE  StopDrel(Put(s, c, p, x, y, z, l), c) = Put(s, c, p, DrelOff(x), y, z, l)
<1> DEFINE t == Put(s, c, p, x, y, z, l)
<1>1. t.ch[c] = x
  BY PutIs
<1>2. \A v : [t EXCEPT !.ch[c] = v] = Put(s, c, p, v, y, z, l)
  BY PutCh
<1> HIDE DEF t
<1>3. StopDrel(t, c) = Put(s, c, p, DrelOff(x), y, z, l)
  BY <1>1, <1>2 DEF StopDrel, DrelOff
<1> QED BY <1>3 DEF t

LEMMA PutDial ==
    ASSUME NEW s, NEW c, NEW p, At(s, c, p), NEW x, NEW y, NEW z, NEW l, NEW w
    PROVE  SetDial(Put(s, c, p, x, y, z, l), c, w) = Put(s, c, p, Dial(x, w), y, z, l)
<1> DEFINE t == Put(s, c, p, x, y, z, l)
<1>1. t.ch[c] = x
  BY PutIs
<1>2. \A v : [t EXCEPT !.ch[c] = v] = Put(s, c, p, v, y, z, l)
  BY PutCh
<1> HIDE DEF t
<1>3. SetDial(t, c, w) = Put(s, c, p, Dial(x, w), y, z, l)
  BY <1>1, <1>2 DEF SetDial, Dial
<1> QED BY <1>3 DEF t

LEMMA PutProc ==
    ASSUME NEW s, NEW c, NEW p, At(s, c, p), NEW x, NEW y, NEW z, NEW l, NEW w
    PROVE  SetProc(Put(s, c, p, x, y, z, l), c, w) = Put(s, c, p, Proc(x, w), y, z, l)
<1> DEFINE t == Put(s, c, p, x, y, z, l)
<1>1. t.ch[c] = x
  BY PutIs
<1>2. \A v : [t EXCEPT !.ch[c] = v] = Put(s, c, p, v, y, z, l)
  BY PutCh
<1> HIDE DEF t
<1>3. SetProc(t, c, w) = Put(s, c, p, Proc(x, w), y, z, l)
  BY <1>1, <1>2 DEF SetProc, Proc
<1> QED BY <1>3 DEF t

LEMMA PutL3St ==
    ASSUME NEW s, NEW c, NEW p, At(s, c, p), NEW x, NEW y, NEW z, NEW l, NEW w
    PROVE  newl3state(Put(s, c, p, x, y, z, l), p, w) = Put(s, c, p, x, L3St(y, w), z, l)
<1> DEFINE t == Put(s, c, p, x, y, z, l)
<1>1. t.pr[p] = y
  BY PutIs
<1>2. \A v : [t EXCEPT !.pr[p] = v] = Put(s, c, p, x, v, z, l)
  BY PutPr
<1> HIDE DEF t
<1>3. newl3state(t, p, w) = Put(s, c, p, x, L3St(y, w), z, l)
  BY <1>1, <1>2 DEF newl3state, L3St
<1> QED BY <1>3 DEF t

LEMMA PutTimer ==
    ASSUME NEW s, NEW c, NEW p, At(s, c, p), NEW x, NEW y, NEW z, NEW l, NEW w
    PROVE  SetTimer(Put(s, c, p, x, y, z, l), p, w) = Put(s, c, p, x, Timer(y, w), z, l)
<1> DEFINE t == Put(s, c, p, x, y, z, l)
<1>1. t.pr[p] = y
  BY PutIs
<1>2. \A v : [t EXCEPT !.pr[p] = v] = Put(s, c, p, x, v, z, l)
  BY PutPr
<1> HIDE DEF t
<1>3. SetTimer(t, p, w) = Put(s, c, p, x, Timer(y, w), z, l)
  BY <1>1, <1>2 DEF SetTimer, Timer
<1> QED BY <1>3 DEF t

LEMMA PutDead ==
    ASSUME NEW s, NEW c, NEW p, At(s, c, p), NEW x, NEW y, NEW z, NEW l
    PROVE  SetDead(Put(s, c, p, x, y, z, l), p) = Put(s, c, p, x, Dead(y), z, l)
<1> DEFINE t == Put(s, c, p, x, y, z, l)
<1>1. t.pr[p] = y
  BY PutIs
<1>2. \A v : [t EXCEPT !.pr[p] = v] = Put(s, c, p, x, v, z, l)
  BY PutPr
<1> HIDE DEF t
<1>3. SetDead(t, p) = Put(s, c, p, x, Dead(y), z, l)
  BY <1>1, <1>2 DEF SetDead, Dead
<1> QED BY <1>3 DEF t

LEMMA PutChan ==
    ASSUME NEW s, NEW c, NEW p, At(s, c, p), NEW x, NEW y, NEW z, NEW l, NEW w
    PROVE  SetChan(Put(s, c, p, x, y, z, l), p, w) = Put(s, c, p, x, Chan(y, w), z, l)
<1> DEFINE t == Put(s, c, p, x, y, z, l)
<1>1. t.pr[p] = y
  BY PutIs
<1>2. \A v : [t EXCEPT !.pr[p] = v] = Put(s, c, p, x, v, z, l)
  BY PutPr
<1> HIDE DEF t
<1>3. SetChan(t, p, w) = Put(s, c, p, x, Chan(y, w), z, l)
  BY <1>1, <1>2 DEF SetChan, Chan
<1> QED BY <1>3 DEF t

LEMMA PutN303 ==
    ASSUME NEW s, NEW c, NEW p, At(s, c, p), NEW x, NEW y, NEW z, NEW l, NEW w
    PROVE  SetN303(Put(s, c, p, x, y, z, l), p, w) = Put(s, c, p, x, N303(y, w), z, l)
<1> DEFINE t == Put(s, c, p, x, y, z, l)
<1>1. t.pr[p] = y
  BY PutIs
<1>2. \A v : [t EXCEPT !.pr[p] = v] = Put(s, c, p, x, v, z, l)
  BY PutPr
<1> HIDE DEF t
<1>3. SetN303(t, p, w) = Put(s, c, p, x, N303(y, w), z, l)
  BY <1>1, <1>2 DEF SetN303, N303
<1> QED BY <1>3 DEF t

LEMMA PutPhase ==
    ASSUME NEW s, NEW c, NEW p, At(s, c, p), NEW x, NEW y, NEW z, NEW l, NEW w
    PROVE  SetPhase(Put(s, c, p, x, y, z, l), c, w) = Put(s, c, p, x, y, Phase(z, w), l)
<1> DEFINE t == Put(s, c, p, x, y, z, l)
<1>1. t.ll[c] = z
  BY PutIs
<1>2. \A v : [t EXCEPT !.ll[c] = v] = Put(s, c, p, x, y, v, l)
  BY PutLl
<1> HIDE DEF t
<1>3. SetPhase(t, c, w) = Put(s, c, p, x, y, Phase(z, w), l)
  BY <1>1, <1>2 DEF SetPhase, Phase
<1> QED BY <1>3 DEF t

LEMMA PutHup ==
    ASSUME NEW s, NEW c, NEW p, At(s, c, p), NEW x, NEW y, NEW z, NEW l
    PROVE  HungUp(Put(s, c, p, x, y, z, l), c) = Put(s, c, p, x, y, Hup(z), l)
<1> DEFINE t == Put(s, c, p, x, y, z, l)
<1>1. t.ll[c] = z
  BY PutIs
<1>2. \A v : [t EXCEPT !.ll[c] = v] = Put(s, c, p, x, y, v, l)
  BY PutLl
<1> HIDE DEF t
<1>3. HungUp(t, c) = Put(s, c, p, x, y, Hup(z), l)
  BY <1>1, <1>2 DEF HungUp, Hup
<1> QED BY <1>3 DEF t

\* As a constant: TRUE as an argument is lost on Zenon.
Yes == TRUE

LEMMA PutLost ==
    ASSUME NEW s, NEW c, NEW p, NEW x, NEW y, NEW z, NEW l
    PROVE  Lose(Put(s, c, p, x, y, z, l)) = Put(s, c, p, x, y, z, Yes)
<1> DEFINE t == Put(s, c, p, x, y, z, l)
<1>1. Lose(t) = [t EXCEPT !.lost = Yes]
  BY DEF Lose, Yes
<1>2. [t EXCEPT !.lost = Yes] = Put(s, c, p, x, y, z, Yes)
  BY DEF Put
<1> QED BY <1>1, <1>2

-----------------------------------------------------------------------------
(* The operations, of a state in this form *)

NoCall == [phase |-> "null", hup |-> FALSE]
Setup == [phase |-> "setup", hup |-> FALSE]
Go(y, st, timer) == Timer(L3St(y, st), timer)
Gone(y) == Chan(Timer(Dead(y), "none"), NoChan)
Closed(x) == BOff(St(x, "NULL"))

LEMMA ChangeStatePut ==
    ASSUME NEW s, NEW c, NEW p, At(s, c, p), NEW x, NEW y, NEW z, NEW l, NEW w
    PROVE  ChangeState(Put(s, c, p, x, y, z, l), c, w)
               = Put(s, c, p, St(x, w), y, z, l)
<1>1. ChangeState(Put(s, c, p, x, y, z, l), c, w)
          = SetSt(Put(s, c, p, x, y, z, l), c, w)
  BY DEF ChangeState, SetSt
<1> QED BY <1>1, PutSt

LEMMA TellPut ==
    ASSUME NEW s, NEW c, NEW p, At(s, c, p), NEW x, NEW y, NEW z, NEW l, NEW w
    PROVE  Tell(Put(s, c, p, x, y, z, l), c, w)
               = Put(s, c, p, x, y, Phase(z, w), l)
<1>1. Tell(Put(s, c, p, x, y, z, l), c, w)
          = SetPhase(Put(s, c, p, x, y, z, l), c, w)
  BY DEF Tell, SetPhase
<1> QED BY <1>1, PutPhase

LEMMA NewCallPut ==
    ASSUME NEW s, NEW c, NEW p, At(s, c, p), NEW x, NEW y, NEW z, NEW l
    PROVE  NewCall(Put(s, c, p, x, y, z, l), c)
               = Put(s, c, p, x, y, Setup, l)
<1>1. NewCall(Put(s, c, p, x, y, z, l), c)
          = SetLl(Put(s, c, p, x, y, z, l), c, Setup)
  BY DEF NewCall, SetLl, Setup
<1> QED BY <1>1, PutLl DEF SetLl

LEMMA release_b_stPut ==
    ASSUME NEW s, NEW c, NEW p, At(s, c, p), NEW x, NEW y, NEW z, NEW l
    PROVE  release_b_st(Put(s, c, p, x, y, z, l), c)
               = Put(s, c, p, BOff(x), y, z, l)
<1>1. release_b_st(Put(s, c, p, x, y, z, l), c)
          = SetBOff(Put(s, c, p, x, y, z, l), c)
  BY DEF release_b_st, SetBOff
<1> QED BY <1>1, PutBOff

LEMMA close_dataPut ==
    ASSUME NEW s, NEW c, NEW p, At(s, c, p), NEW x, NEW y, NEW z, NEW l, NEW w
    PROVE  close_data(Put(s, c, p, x, y, z, l), c, w)
               = Put(s, c, p, Shut(St(x, w)), y, z, l)
<1>1. close_data(Put(s, c, p, x, y, z, l), c, w)
          = SetShut(SetSt(Put(s, c, p, x, y, z, l), c, w), c)
  BY DEF close_data, ChangeState, SetSt, SetShut
<1> QED BY <1>1, PutSt, PutShut

LEMMA lli_closePut ==
    ASSUME NEW s, NEW c, NEW p, At(s, c, p), NEW x, NEW y, NEW z, NEW l, z.phase # "data"
    PROVE  lli_close(Put(s, c, p, x, y, z, l), c) = Put(s, c, p, Closed(x), y, NoCall, l)
<1> DEFINE t == SetBOff(SetSt(Put(s, c, p, x, y, z, l), c, "NULL"), c)
<1>1. lli_close(Put(s, c, p, x, y, z, l), c)
          = SetLl(t, c, IF t.ll[c].phase = "data" THEN t.ll[c] ELSE NoCall)
  BY DEF lli_close, SetBOff, SetSt, SetLl, NoCall
<1>2. t = Put(s, c, p, Closed(x), y, z, l)
  BY PutSt, PutBOff DEF Closed
<1> HIDE DEF t
<1>3. lli_close(Put(s, c, p, x, y, z, l), c)
            = SetLl(Put(s, c, p, Closed(x), y, z, l), c, NoCall)
  BY <1>1, <1>2, PutIs
<1> QED BY <1>3, PutLl DEF SetLl

LEMMA lli_abortIs ==
    ASSUME NEW s, NEW c, NEW p, At(s, c, p), NEW x, NEW y, NEW z, NEW l
    PROVE  lli_abort(Put(s, c, p, x, y, z, l), c)
               = lli_bhup_dhup(Put(s, c, p, Shut(x), y, z, l), c)
<1>1. lli_abort(Put(s, c, p, x, y, z, l), c)
          = lli_bhup_dhup(SetShut(Put(s, c, p, x, y, z, l), c), c)
  BY DEF lli_abort, SetShut
<1> QED BY <1>1, PutShut

LEMMA lli_go_activePut ==
    ASSUME NEW s, NEW c, NEW p, At(s, c, p), NEW x, NEW y, NEW z, NEW l
    PROVE  lli_go_active(Put(s, c, p, x, y, z, l), c)
               = Put(s, c, p, Opened(St(x, "ACTIVE")), y, Phase(z, "data"), l)
<1>1. lli_go_active(Put(s, c, p, x, y, z, l), c)
          = SetOpened(SetPhase(SetSt(Put(s, c, p, x, y, z, l), c, "ACTIVE"), c, "data"), c)
  BY DEF lli_go_active, ChangeState, Tell, SetOpened, SetPhase, SetSt
<1> QED BY <1>1, PutSt, PutPhase, PutOpened

LEMMA L3Put ==
    ASSUME NEW s, NEW c, NEW p, At(s, c, p), NEW x, NEW y, NEW z, NEW l, NEW a, NEW b
    PROVE  L3(Put(s, c, p, x, y, z, l), p, a, b)
               = Put(s, c, p, x, Go(y, a, b), z, l)
<1>1. L3(Put(s, c, p, x, y, z, l), p, a, b)
          = SetTimer(newl3state(Put(s, c, p, x, y, z, l), p, a), p, b)
  BY DEF L3, SetTimer, newl3state
<1> QED BY <1>1, PutL3St, PutTimer DEF Go

LEMMA release_l3_processPut ==
    ASSUME NEW s, NEW c, NEW p, At(s, c, p), NEW x, NEW y, NEW z, NEW l
    PROVE  release_l3_process(Put(s, c, p, x, y, z, l), p)
               = Put(s, c, p, x, Gone(y), z, l)
<1>1. release_l3_process(Put(s, c, p, x, y, z, l), p)
          = SetChan(SetTimer(SetDead(Put(s, c, p, x, y, z, l), p), p, "none"), p, NoChan)
  BY DEF release_l3_process, SetChan, SetTimer, SetDead
<1> QED BY <1>1, PutDead, PutTimer, PutChan DEF Gone

LEMMA L3AddTimerPut ==
    ASSUME NEW s, NEW c, NEW p, At(s, c, p), NEW x, NEW y, NEW z, NEW l, NEW w
    PROVE  L3AddTimer(Put(s, c, p, x, y, z, l), p, w)
               = IF y.timer
                     = "none" THEN Put(s, c, p, x, Timer(y, w), z, l) ELSE Put(s, c, p, x, y,
                     z, l)
<1>1. L3AddTimer(Put(s, c, p, x, y, z, l), p, w)
          = IF Put(s, c, p, x, y, z, l).pr[p].timer
                = "none" THEN SetTimer(Put(s, c, p, x, y, z, l), p, w) ELSE Put(s, c, p, x, y,
                z, l)
  BY DEF L3AddTimer, SetTimer
<1> QED BY <1>1, PutIs, PutTimer

LEMMA lli_init_bchanPut ==
    ASSUME NEW s, NEW c, NEW p, At(s, c, p), NEW x, NEW y, NEW z, NEW l
    PROVE  lli_init_bchan(Put(s, c, p, x, y, z, l), c)
               = Put(s, c, p, BSet(St(x, "WAIT_BCONN"), s.env.bc), y, Phase(z, "up"), l)
<1>1. lli_init_bchan(Put(s, c, p, x, y, z, l), c)
          = SetBSet(SetPhase(SetSt(Put(s, c, p, x, y, z, l), c, "WAIT_BCONN"), c, "up"), c,
                  Put(s, c, p, x, y, z, l).env.bc)
  BY DEF lli_init_bchan, ChangeState, Tell, SetBSet, SetPhase, SetSt
<1>2. Put(s, c, p, x, y, z, l).env.bc = s.env.bc
  BY PutIs
<1> QED BY <1>1, <1>2, PutSt, PutPhase, PutBSet

LEMMA L3DelTimerPut ==
    ASSUME NEW s, NEW c, NEW p, At(s, c, p), NEW x, NEW y, NEW z, NEW l
    PROVE  L3DelTimer(Put(s, c, p, x, y, z, l), p) = Put(s, c, p, x, Timer(y, "none"), z, l)
<1>1. L3DelTimer(Put(s, c, p, x, y, z, l), p) = SetTimer(Put(s, c, p, x, y, z, l), p, "none")
  BY DEF L3DelTimer, SetTimer
<1> QED BY <1>1, PutTimer

LEMMA CC_ALERTINGPut ==
    ASSUME NEW s, NEW c, NEW p, At(s, c, p), NEW x, NEW y, NEW z, NEW l, p # NoProc
    PROVE  CC_ALERTING(Put(s, c, p, x, y, z, l), p)
               = IF y.st \in {6, 9, 25} THEN Put(s, c, p, x, L3St(y, 7), z, l) ELSE Put(s, c,
                       p, x, y, z, l)
<1>1. CC_ALERTING(Put(s, c, p, x, y, z, l), p)
          = IF InState(Put(s, c, p, x, y, z, l), p, {6, 9, 25}) THEN newl3state(Put(s, c, p, x,
                  y, z, l), p, 7) ELSE Put(s, c, p, x, y, z, l)
  BY DEF CC_ALERTING, newl3state
<1>2. InState(Put(s, c, p, x, y, z, l), p, {6, 9, 25}) <=> y.st \in {6, 9, 25}
  BY PutIs DEF InState
<1> QED BY <1>1, <1>2, PutL3St

LEMMA CC_PROCEED_SENDPut ==
    ASSUME NEW s, NEW c, NEW p, At(s, c, p), NEW x, NEW y, NEW z, NEW l, p # NoProc
    PROVE  CC_PROCEED_SEND(Put(s, c, p, x, y, z, l), p)
               = IF y.st \in {6, 25} THEN Put(s, c, p, x, L3St(y, 9), z, l) ELSE Put(s, c, p,
                       x, y, z, l)
<1>1. CC_PROCEED_SEND(Put(s, c, p, x, y, z, l), p)
          = IF InState(Put(s, c, p, x, y, z, l), p, {6, 25}) THEN newl3state(Put(s, c, p, x, y,
                  z, l), p, 9) ELSE Put(s, c, p, x, y, z, l)
  BY DEF CC_PROCEED_SEND, newl3state
<1>2. InState(Put(s, c, p, x, y, z, l), p, {6, 25}) <=> y.st \in {6, 25}
  BY PutIs DEF InState
<1> QED BY <1>1, <1>2, PutL3St

LEMMA CC_SUSPENDPut ==
    ASSUME NEW s, NEW c, NEW p, At(s, c, p), NEW x, NEW y, NEW z, NEW l, p # NoProc
    PROVE  CC_SUSPEND(Put(s, c, p, x, y, z, l), p)
               = IF y.st # 10 THEN Put(s, c, p, x, y, z, l)
                 ELSE IF y.timer = "none" THEN Put(s, c, p, x, L3St(Timer(y, "T319"), 15), z, l)
                 ELSE Put(s, c, p, x, L3St(y, 15), z, l)
<1>1. CC_SUSPEND(Put(s, c, p, x, y, z, l), p)
          = IF InState(Put(s, c, p, x, y, z, l), p, {10}) THEN newl3state(L3AddTimer(Put(s, c,
                  p, x, y, z, l), p, "T319"), p, 15) ELSE Put(s, c, p, x, y, z, l)
  BY DEF CC_SUSPEND, newl3state
<1>2. InState(Put(s, c, p, x, y, z, l), p, {10}) <=> y.st = 10
  BY PutIs DEF InState
<1> QED BY <1>1, <1>2, PutL3St, L3AddTimerPut

LEMMA lli_reject_reqPut ==
    ASSUME NEW s, NEW c, NEW p, At(s, c, p), NEW x, NEW y, NEW z, NEW l, p # NoProc, x.proc = p,
           y.st \in {6, 25}
    PROVE  lli_reject_req(Put(s, c, p, x, y, z, l), c)
               = Put(s, c, p, DrelOn(St(x, "ALERT_SENT")), L3St(y, 7), z, l)
<1>1. lli_reject_req(Put(s, c, p, x, y, z, l), c)
          = CC_ALERTING(SetDrelOn(SetSt(Put(s, c, p, x, y, z, l), c, "ALERT_SENT"), c), Put(s,
                  c, p, x, y, z, l).ch[c].proc)
  BY DEF lli_reject_req, ChangeState, SetDrelOn, SetSt
<1>2. Put(s, c, p, x, y, z, l).ch[c].proc = p
  BY PutIs
<1>3. SetDrelOn(SetSt(Put(s, c, p, x, y, z, l), c, "ALERT_SENT"), c)
            = Put(s, c, p, DrelOn(St(x, "ALERT_SENT")), y, z, l)
  BY PutSt, PutDrelOn
<1> QED BY <1>1, <1>2, <1>3, CC_ALERTINGPut

LEMMA CC_DISCONNECTPut ==
    ASSUME NEW s, NEW c, NEW p, At(s, c, p), NEW x, NEW y, NEW z, NEW l, p # NoProc
    PROVE  CC_DISCONNECT(Put(s, c, p, x, y, z, l), p)
               = IF y.st \in {1, 2, 3, 4, 6, 7, 8, 9, 10, 25}
                 THEN Put(s, c, p, x, Go(y, 11, "T305"), z, l) ELSE Put(s, c, p, x, y, z, l)
BY PutIs, L3Put DEF CC_DISCONNECT, InState, l3dss1_disconnect_req

LEMMA CC_RELEASEPut ==
    ASSUME NEW s, NEW c, NEW p, At(s, c, p), NEW x, NEW y, NEW z, NEW l, p # NoProc
    PROVE  CC_RELEASE(Put(s, c, p, x, y, z, l), p)
               = IF y.st
                     = 12 THEN Put(s, c, p, x, Go(y, 19, "T308_1"), z, l) ELSE Put(s, c, p, x,
                     y, z, l)
BY PutIs, L3Put DEF CC_RELEASE, InState, l3dss1_release_req

LEMMA CC_SETUP_RESPONSEPut ==
    ASSUME NEW s, NEW c, NEW p, At(s, c, p), NEW x, NEW y, NEW z, NEW l, p # NoProc
    PROVE  CC_SETUP_RESPONSE(Put(s, c, p, x, y, z, l), p)
               = IF y.st \notin {6, 7, 9, 25} THEN Put(s, c, p, x, y, z, l)
                 ELSE IF y.bchannel THEN Put(s, c, p, x, Go(y, 8, "T313"), z, l)
                 ELSE Put(s, c, p, x, Go(y, 11, "T305"), z, l)
BY PutIs, L3Put DEF CC_SETUP_RESPONSE, InState, l3dss1_disconnect_req

Phases == {"null", "setup", "up", "data", "half"}

\* What the assignments do to the fields and to the type.
LEMMA StIs ==
    ASSUME NEW x \in Channel, NEW w \in States
    PROVE  /\ St(x, w) \in Channel /\ St(x, w).st = w /\ St(x, w).proc = x.proc
           /\ (St(x, w).start_b <=> x.start_b) /\ (St(x, w).data_open <=> x.data_open)
              /\ (St(x, w).drel <=> x.drel)
           /\ St(x, w).dial = x.dial
BY DEF St, Channel

LEMMA BOffIs ==
    ASSUME NEW x \in Channel
    PROVE  /\ BOff(x) \in Channel /\ BOff(x).st = x.st /\ BOff(x).proc = x.proc
           /\ ~BOff(x).start_b /\ (BOff(x).data_open <=> x.data_open)
              /\ (BOff(x).drel <=> x.drel)
           /\ BOff(x).dial = x.dial
BY DEF BOff, Channel

LEMMA BSetIs ==
    ASSUME NEW x \in Channel, NEW w \in BOOLEAN
    PROVE  /\ BSet(x, w) \in Channel /\ BSet(x, w).st = x.st /\ BSet(x, w).proc = x.proc
           /\ (BSet(x, w).start_b <=> w) /\ (BSet(x, w).data_open <=> x.data_open)
              /\ (BSet(x, w).drel <=> x.drel)
           /\ BSet(x, w).dial = x.dial
BY DEF BSet, Channel

LEMMA OpenedIs ==
    ASSUME NEW x \in Channel
    PROVE  /\ Opened(x) \in Channel /\ Opened(x).st = x.st /\ Opened(x).proc = x.proc
           /\ (Opened(x).start_b <=> x.start_b) /\ Opened(x).data_open
              /\ (Opened(x).drel <=> x.drel)
           /\ Opened(x).dial = x.dial
BY DEF Opened, Channel

LEMMA ShutIs ==
    ASSUME NEW x \in Channel
    PROVE  /\ Shut(x) \in Channel /\ Shut(x).st = x.st /\ Shut(x).proc = x.proc
           /\ (Shut(x).start_b <=> x.start_b) /\ ~Shut(x).data_open /\ (Shut(x).drel <=> x.drel)
           /\ Shut(x).dial = x.dial
BY DEF Shut, Channel

LEMMA DrelOnIs ==
    ASSUME NEW x \in Channel
    PROVE  /\ DrelOn(x) \in Channel /\ DrelOn(x).st = x.st /\ DrelOn(x).proc = x.proc
           /\ (DrelOn(x).start_b <=> x.start_b) /\ (DrelOn(x).data_open <=> x.data_open)
              /\ DrelOn(x).drel
           /\ DrelOn(x).dial = x.dial
BY DEF DrelOn, Channel

LEMMA DrelOffIs ==
    ASSUME NEW x \in Channel
    PROVE  /\ DrelOff(x) \in Channel /\ DrelOff(x).st = x.st /\ DrelOff(x).proc = x.proc
           /\ (DrelOff(x).start_b <=> x.start_b) /\ (DrelOff(x).data_open <=> x.data_open)
              /\ ~DrelOff(x).drel
           /\ DrelOff(x).dial = x.dial
BY DEF DrelOff, Channel

LEMMA DialIs ==
    ASSUME NEW x \in Channel, NEW w \in {"none", "DIAL", "RESUME"}
    PROVE  /\ Dial(x, w) \in Channel /\ Dial(x, w).st = x.st /\ Dial(x, w).proc = x.proc
           /\ (Dial(x, w).start_b <=> x.start_b) /\ (Dial(x, w).data_open <=> x.data_open)
              /\ (Dial(x, w).drel <=> x.drel)
           /\ Dial(x, w).dial = w
BY DEF Dial, Channel

LEMMA ProcIs ==
    ASSUME NEW x \in Channel, NEW w \in Procs
    PROVE  /\ Proc(x, w) \in Channel /\ Proc(x, w).st = x.st /\ Proc(x, w).proc = w
           /\ (Proc(x, w).start_b <=> x.start_b) /\ (Proc(x, w).data_open <=> x.data_open)
              /\ (Proc(x, w).drel <=> x.drel)
           /\ Proc(x, w).dial = x.dial
BY DEF Proc, Channel

LEMMA L3StIs ==
    ASSUME NEW y \in l3_process, NEW w \in L3States
    PROVE  /\ L3St(y, w) \in l3_process /\ (L3St(y, w).live <=> y.live) /\ L3St(y, w).st = w
           /\ L3St(y, w).chan = y.chan /\ L3St(y, w).timer = y.timer /\ L3St(y, w).n303 = y.n303
           /\ (L3St(y, w).bchannel <=> y.bchannel)
BY DEF L3St, l3_process

LEMMA TimerIs ==
    ASSUME NEW y \in l3_process, NEW w \in L3Timers
    PROVE  /\ Timer(y, w) \in l3_process /\ (Timer(y, w).live <=> y.live)
              /\ Timer(y, w).st = y.st
           /\ Timer(y, w).chan = y.chan /\ Timer(y, w).timer = w /\ Timer(y, w).n303 = y.n303
           /\ (Timer(y, w).bchannel <=> y.bchannel)
BY DEF Timer, l3_process

LEMMA DeadIs ==
    ASSUME NEW y \in l3_process
    PROVE  /\ Dead(y) \in l3_process /\ ~Dead(y).live /\ Dead(y).st = y.st
           /\ Dead(y).chan = y.chan /\ Dead(y).timer = y.timer /\ Dead(y).n303 = y.n303
           /\ (Dead(y).bchannel <=> y.bchannel)
BY DEF Dead, l3_process

LEMMA ChanIs ==
    ASSUME NEW y \in l3_process, NEW w \in Channels \cup {NoChan}
    PROVE  /\ Chan(y, w) \in l3_process /\ (Chan(y, w).live <=> y.live) /\ Chan(y, w).st = y.st
           /\ Chan(y, w).chan = w /\ Chan(y, w).timer = y.timer /\ Chan(y, w).n303 = y.n303
           /\ (Chan(y, w).bchannel <=> y.bchannel)
BY DEF Chan, l3_process

LEMMA N303Is ==
    ASSUME NEW y \in l3_process, NEW w \in 0 .. 1
    PROVE  /\ N303(y, w) \in l3_process /\ (N303(y, w).live <=> y.live) /\ N303(y, w).st = y.st
           /\ N303(y, w).chan = y.chan /\ N303(y, w).timer = y.timer /\ N303(y, w).n303 = w
           /\ (N303(y, w).bchannel <=> y.bchannel)
BY DEF N303, l3_process

LEMMA PhaseIs ==
    ASSUME NEW z \in LinkLevel, NEW w \in Phases
    PROVE  /\ Phase(z, w) \in LinkLevel /\ Phase(z, w).phase = w /\ (Phase(z, w).hup <=> z.hup)
BY DEF Phase, LinkLevel, Phases

LEMMA HupIs ==
    ASSUME NEW z \in LinkLevel
    PROVE  /\ Hup(z) \in LinkLevel /\ Hup(z).phase = z.phase /\ Hup(z).hup
BY DEF Hup, LinkLevel, Phases

\* The states of the call process that go with a state of the channel, the
\* phases of the call that do, and the timer that runs in a state of the process.
Partners(st) ==
    CASE st = "OUT_DIAL" -> {1, 2, 3, 4, 17}
      [] st = "WAIT_LL" -> {25}
      [] st = "ALERT_SENT" -> {7, 8, 11, 19}
      [] st = "PROCEED_SEND" -> {9, 11, 19}
      [] st = "WAIT_CONN_ACK" -> {8, 11, 19}
      [] st = "WAIT_BCONN" -> {10}
      [] st \in {"ACTIVE", "WAIT_BRELEASE", "WAIT_DCOMMAND"} -> {10, 15}
      [] st = "WAIT_BREL_DISC" -> {12, 19}
      [] st = "WAIT_DRELEASE" -> {10, 11, 12, 15, 17, 19}
      [] st = "WAIT_D_REL_CNF" -> {19}
      [] OTHER -> {}
PhasesOf(st) ==
    CASE st = "WAIT_BCONN" -> {"up"}
      [] st \in {"ACTIVE", "WAIT_BRELEASE", "WAIT_BREL_DISC"} -> {"data"}
      [] st = "WAIT_DCOMMAND" -> {"half"}
      [] st \in {"WAIT_DRELEASE", "WAIT_D_REL_CNF"} -> {"setup", "up", "half"}
      [] OTHER -> {"setup"}
TimersOf(st) ==
    CASE st = 1 -> {"T303"}
      [] st = 2 -> {"T304"}
      [] st = 3 -> {"T310"}
      [] st = 8 -> {"T313"}
      [] st = 11 -> {"T305"}
      [] st = 17 -> {"T318"}
      [] st = 19 -> {"T308_1", "T308_2"}
      [] st = 25 -> {"T302"}
      [] st \in {10, 15} -> {"none", "T309", "T319"}
      [] OTHER -> L3Timers

\* A channel, its process and the link level in the middle of a call: what is
\* hung up is on its way out, except while the network has to take an ALERTING
\* back (ST_IN_ALERT_SENT, until drel_timer hangs up).
Fits(c, p, x, y, z) ==
    /\ x \in Channel /\ y \in l3_process /\ z \in LinkLevel
    /\ x.proc = p /\ y.live /\ y.chan = c
    /\ y.st \in Partners(x.st) /\ z.phase \in PhasesOf(x.st) /\ y.timer \in TimersOf(y.st)
    /\ x.start_b => x.st \in BStates
    /\ x.data_open => x.st = "ACTIVE"
    /\ z.hup => \/ x.st \in {"WAIT_BRELEASE", "WAIT_BREL_DISC", "WAIT_DRELEASE", "WAIT_D_REL_CNF"}
                \/ x.st = "ALERT_SENT" /\ y.st = 7

\* They have no call: the process was freed.
Over(x, y, z) ==
    /\ x \in Channel /\ y \in l3_process /\ z \in LinkLevel
    /\ x.st = "NULL" /\ ~x.start_b /\ ~x.data_open
    /\ ~y.live /\ y.chan = NoChan /\ z.phase = "null" /\ ~z.hup

\* The callbacks of one channel, as Call has them: Held and Hung are Suspended
\* and hung of the refinement.
Held(x, y) == y.st \in {15, 17} \/ (y.st \in {10, 12} /\ x.st = "WAIT_DRELEASE")
Hung(x, y, z) == z.hup /\ ~Held(x, y)
Order(x, y, z, x1, y1, z1) ==
    \/ z.phase = "null" /\ z1.phase = "setup"
    \/ z.phase = "setup" /\ z1.phase = "up" /\ ~Hung(x, y, z) /\ ~Hung(x1, y1, z1)
    \/ z.phase = "up" /\ z1.phase = "data" /\ ~Hung(x, y, z) /\ ~Hung(x1, y1, z1)
    \/ z.phase = "data" /\ z1.phase = "half" /\ (Hung(x, y, z) => Hung(x1, y1, z1))
    \/ z.phase # "null" /\ z1.phase = "null" /\ ~Hung(x1, y1, z1)
    \/ z.phase # "null" /\ z1.phase = z.phase /\ Hung(x1, y1, z1)
    \/ z1.phase = z.phase /\ (Hung(x1, y1, z1) <=> Hung(x, y, z))

\* A process in 15 without a timer was there before, and not with T319.
Kept(y, y1) ==
    y1.live /\ y1.st = 15 /\ y1.timer = "none" =>
        y.live /\ y.st = 15 /\ y.timer \in {"none", "T309"}

\* The step of a pair.
Next1(c, p, x, y, z, x1, y1, z1) ==
    /\ Fits(c, p, x1, y1, z1) \/ Over(x1, y1, z1)
    /\ Order(x, y, z, x1, y1, z1)
    /\ Kept(y, y1)

\* An operation that touches only channel c and process p does such a step, or
\* leaves what is explored.
Result(s, c, p, t) ==
    /\ t = Put(s, c, p, t.ch[c], t.pr[p], t.ll[c], t.lost)
    /\ t.lost \/ Next1(c, p, s.ch[c], s.pr[p], s.ll[c], t.ch[c], t.pr[p], t.ll[c])

\* The events that end a call, by the state of the channel.
LEMMA EvHangupPut ==
    ASSUME NEW s, NEW c, NEW p, At(s, c, p), NEW x \in Channel, NEW y \in l3_process,
           NEW z \in LinkLevel, NEW l,
           x.proc = p, p # NoProc
    PROVE  /\ x.st = "WAIT_LL" /\ y.st \in {6, 25} =>
                  EvHangup(Put(s, c, p, x, y, z, l), c)
                      = Put(s, c, p, DrelOn(St(x, "ALERT_SENT")), L3St(y, 7), z, l)
           /\ x.st \in {"OUT_DIAL", "ALERT_SENT", "PROCEED_SEND", "WAIT_CONN_ACK",
                  "WAIT_DCOMMAND"} /\ y.st \in {1, 2, 3, 4, 6, 7, 8, 9, 10, 25} =>
                  EvHangup(Put(s, c, p, x, y, z, l), c)
                      = Put(s, c, p, St(x, "WAIT_DRELEASE"), Go(y, 11, "T305"), z, l)
           /\ x.st \in {"OUT_DIAL", "ALERT_SENT", "PROCEED_SEND", "WAIT_CONN_ACK",
                  "WAIT_DCOMMAND"} /\ ~(y.st \in {1, 2, 3, 4, 6, 7, 8, 9, 10, 25}) =>
                  EvHangup(Put(s, c, p, x, y, z, l), c)
                      = Put(s, c, p, St(x, "WAIT_DRELEASE"), y, z, l)
           /\ x.st = "WAIT_BCONN" /\ y.st \in {1, 2, 3, 4, 6, 7, 8, 9, 10, 25} =>
                  EvHangup(Put(s, c, p, x, y, z, l), c)
                      = Put(s, c, p, St(BOff(x), "WAIT_DRELEASE"), Go(y, 11, "T305"), z, l)
           /\ x.st = "ACTIVE" =>
                  EvHangup(Put(s, c, p, x, y, z, l), c)
                      = Put(s, c, p, Shut(St(x, "WAIT_BRELEASE")), y, z, l)
           /\ x.st \in {"NULL", "WAIT_DRELEASE", "WAIT_D_REL_CNF", "WAIT_BRELEASE",
                  "WAIT_BREL_DISC"} =>
                  EvHangup(Put(s, c, p, x, y, z, l), c)
                      = Put(s, c, p, x, y, z, l)
<1>1. ASSUME x.st = "WAIT_LL" /\ y.st \in {6, 25}
      PROVE  EvHangup(Put(s, c, p, x, y, z, l), c)
                   = Put(s, c, p, DrelOn(St(x, "ALERT_SENT")), L3St(y, 7), z, l)
  BY <1>1, PutIs, lli_reject_reqPut DEF EvHangup, In
<1>2. ASSUME x.st \in {"OUT_DIAL", "ALERT_SENT", "PROCEED_SEND", "WAIT_CONN_ACK",
                     "WAIT_DCOMMAND"} /\ y.st \in {1, 2, 3, 4, 6, 7, 8, 9, 10, 25}
      PROVE  EvHangup(Put(s, c, p, x, y, z, l), c)
                   = Put(s, c, p, St(x, "WAIT_DRELEASE"), Go(y, 11, "T305"), z, l)
  BY <1>2, PutIs, ChangeStatePut, StIs, CC_DISCONNECTPut
     DEF EvHangup, In, lli_disconnect_req, States, BStates, InStates
<1>3. ASSUME x.st \in {"OUT_DIAL", "ALERT_SENT", "PROCEED_SEND", "WAIT_CONN_ACK",
                     "WAIT_DCOMMAND"} /\ ~(y.st \in {1, 2, 3, 4, 6, 7, 8, 9, 10, 25})
      PROVE  EvHangup(Put(s, c, p, x, y, z, l), c)
                   = Put(s, c, p, St(x, "WAIT_DRELEASE"), y, z, l)
  BY <1>3, PutIs, ChangeStatePut, StIs, CC_DISCONNECTPut
     DEF EvHangup, In, lli_disconnect_req, States, BStates, InStates
<1>4. ASSUME x.st = "WAIT_BCONN" /\ y.st \in {1, 2, 3, 4, 6, 7, 8, 9, 10, 25}
      PROVE  EvHangup(Put(s, c, p, x, y, z, l), c)
                   = Put(s, c, p, St(BOff(x), "WAIT_DRELEASE"), Go(y, 11, "T305"), z, l)
  BY <1>4, PutIs, ChangeStatePut, StIs, BOffIs, release_b_stPut, CC_DISCONNECTPut
     DEF EvHangup, In, lli_disconnect_req, lli_rel_b_disc, States, BStates, InStates
<1>5. ASSUME x.st = "ACTIVE"
      PROVE  EvHangup(Put(s, c, p, x, y, z, l), c)
                   = Put(s, c, p, Shut(St(x, "WAIT_BRELEASE")), y, z, l)
  BY <1>5, PutIs, close_dataPut DEF EvHangup, In, lli_disconn_bchan
<1>6. ASSUME x.st \in {"NULL", "WAIT_DRELEASE", "WAIT_D_REL_CNF", "WAIT_BRELEASE",
                     "WAIT_BREL_DISC"}
      PROVE  EvHangup(Put(s, c, p, x, y, z, l), c) = Put(s, c, p, x, y, z, l)
  BY <1>6, PutIs DEF EvHangup, In
<1> QED BY <1>1, <1>2, <1>3, <1>4, <1>5, <1>6

LEMMA EvDisconnectIndPut ==
    ASSUME NEW s, NEW c, NEW p, At(s, c, p), NEW x \in Channel, NEW y \in l3_process,
           NEW z \in LinkLevel, NEW l,
           x.proc = p, p # NoProc
    PROVE  /\ x.st \in {"OUT_DIAL", "WAIT_LL", "ALERT_SENT", "WAIT_CONN_ACK", "WAIT_DCOMMAND"}
              /\ y.st = 12 =>
                  EvDisconnectInd(Put(s, c, p, x, y, z, l), c)
                      = Put(s, c, p, St(x, "WAIT_D_REL_CNF"), Go(y, 19, "T308_1"), z, l)
           /\ x.st \in {"OUT_DIAL", "WAIT_LL", "ALERT_SENT", "WAIT_CONN_ACK", "WAIT_DCOMMAND"}
              /\ y.st = 19 =>
                  EvDisconnectInd(Put(s, c, p, x, y, z, l), c)
                      = Put(s, c, p, St(x, "WAIT_D_REL_CNF"), y, z, l)
           /\ x.st = "PROCEED_SEND" /\ z.phase # "data" =>
                  EvDisconnectInd(Put(s, c, p, x, y, z, l), c)
                      = Put(s, c, p, Closed(x), y, NoCall, Yes)
           /\ x.st = "WAIT_BCONN" /\ y.st = 12 =>
                  EvDisconnectInd(Put(s, c, p, x, y, z, l), c)
                      = Put(s, c, p, St(BOff(x), "WAIT_D_REL_CNF"), Go(y, 19, "T308_1"), z, l)
           /\ x.st = "WAIT_BCONN" /\ y.st = 19 =>
                  EvDisconnectInd(Put(s, c, p, x, y, z, l), c)
                      = Put(s, c, p, St(BOff(x), "WAIT_D_REL_CNF"), y, z, l)
           /\ x.st = "ACTIVE" =>
                  EvDisconnectInd(Put(s, c, p, x, y, z, l), c)
                      = Put(s, c, p, Shut(St(x, "WAIT_BREL_DISC")), y, z, l)
           /\ x.st = "WAIT_BRELEASE" /\ y.st = 12 =>
                  EvDisconnectInd(Put(s, c, p, x, y, z, l), c)
                      = Put(s, c, p, St(BOff(x), "WAIT_D_REL_CNF"), Go(y, 19, "T308_1"),
                              Phase(z, "half"), l)
           /\ x.st = "WAIT_BRELEASE" /\ y.st = 19 =>
                  EvDisconnectInd(Put(s, c, p, x, y, z, l), c)
                      = Put(s, c, p, St(BOff(x), "WAIT_D_REL_CNF"), y, Phase(z, "half"), l)
           /\ x.st \in {"NULL", "WAIT_DRELEASE", "WAIT_D_REL_CNF", "WAIT_BREL_DISC"} =>
                  EvDisconnectInd(Put(s, c, p, x, y, z, l), c)
                      = Put(s, c, p, x, y, z, l)
<1>1. ASSUME x.st \in {"OUT_DIAL", "WAIT_LL", "ALERT_SENT", "WAIT_CONN_ACK", "WAIT_DCOMMAND"}
                 /\ y.st = 12
      PROVE  EvDisconnectInd(Put(s, c, p, x, y, z, l), c)
                   = Put(s, c, p, St(x, "WAIT_D_REL_CNF"), Go(y, 19, "T308_1"), z, l)
  BY <1>1, PutIs, ChangeStatePut, StIs, CC_RELEASEPut
     DEF EvDisconnectInd, In, lli_release_req, States, BStates, InStates
<1>2. ASSUME x.st \in {"OUT_DIAL", "WAIT_LL", "ALERT_SENT", "WAIT_CONN_ACK", "WAIT_DCOMMAND"}
                 /\ y.st = 19
      PROVE  EvDisconnectInd(Put(s, c, p, x, y, z, l), c)
                   = Put(s, c, p, St(x, "WAIT_D_REL_CNF"), y, z, l)
  BY <1>2, PutIs, ChangeStatePut, StIs, CC_RELEASEPut
     DEF EvDisconnectInd, In, lli_release_req, States, BStates, InStates
<1>3. ASSUME x.st = "PROCEED_SEND" /\ z.phase # "data"
      PROVE  EvDisconnectInd(Put(s, c, p, x, y, z, l), c)
                   = Put(s, c, p, Closed(x), y, NoCall, Yes)
  BY <1>3, PutIs, lli_closePut, PutLost DEF EvDisconnectInd, In, lli_dhup_close
<1>4. ASSUME x.st = "WAIT_BCONN" /\ y.st = 12
      PROVE  EvDisconnectInd(Put(s, c, p, x, y, z, l), c)
                   = Put(s, c, p, St(BOff(x), "WAIT_D_REL_CNF"), Go(y, 19, "T308_1"), z, l)
  BY <1>4, PutIs, ChangeStatePut, StIs, BOffIs, release_b_stPut, CC_RELEASEPut
     DEF EvDisconnectInd, In, lli_release_req, lli_rel_b_release_req, States, BStates, InStates
<1>5. ASSUME x.st = "WAIT_BCONN" /\ y.st = 19
      PROVE  EvDisconnectInd(Put(s, c, p, x, y, z, l), c)
                   = Put(s, c, p, St(BOff(x), "WAIT_D_REL_CNF"), y, z, l)
  BY <1>5, PutIs, ChangeStatePut, StIs, BOffIs, release_b_stPut, CC_RELEASEPut
     DEF EvDisconnectInd, In, lli_release_req, lli_rel_b_release_req, States, BStates, InStates
<1>6. ASSUME x.st = "ACTIVE"
      PROVE  EvDisconnectInd(Put(s, c, p, x, y, z, l), c)
                   = Put(s, c, p, Shut(St(x, "WAIT_BREL_DISC")), y, z, l)
  BY <1>6, PutIs, close_dataPut DEF EvDisconnectInd, In, lli_release_bchan
<1>7. ASSUME x.st = "WAIT_BRELEASE" /\ y.st = 12
      PROVE  EvDisconnectInd(Put(s, c, p, x, y, z, l), c)
                   = Put(s, c, p, St(BOff(x), "WAIT_D_REL_CNF"), Go(y, 19, "T308_1"), Phase(z,
                   "half"), l)
  BY <1>7, PutIs, TellPut, ChangeStatePut, StIs, BOffIs, release_b_stPut, CC_RELEASEPut
     DEF EvDisconnectInd, In, lli_release_req, lli_rel_b_release_req, lli_bhup_release_req,
         States, BStates, InStates
<1>8. ASSUME x.st = "WAIT_BRELEASE" /\ y.st = 19
      PROVE  EvDisconnectInd(Put(s, c, p, x, y, z, l), c)
                   = Put(s, c, p, St(BOff(x), "WAIT_D_REL_CNF"), y, Phase(z, "half"), l)
  BY <1>8, PutIs, TellPut, ChangeStatePut, StIs, BOffIs, release_b_stPut, CC_RELEASEPut
     DEF EvDisconnectInd, In, lli_release_req, lli_rel_b_release_req, lli_bhup_release_req,
         States, BStates, InStates
<1>9. ASSUME x.st \in {"NULL", "WAIT_DRELEASE", "WAIT_D_REL_CNF", "WAIT_BREL_DISC"}
      PROVE  EvDisconnectInd(Put(s, c, p, x, y, z, l), c) = Put(s, c, p, x, y, z, l)
  BY <1>9, PutIs DEF EvDisconnectInd, In
<1> QED BY <1>1, <1>2, <1>3, <1>4, <1>5, <1>6, <1>7, <1>8, <1>9

LEMMA EvReleasePut ==
    ASSUME NEW s, NEW c, NEW p, At(s, c, p), NEW x \in Channel, NEW y \in l3_process,
           NEW z \in LinkLevel, NEW l,
           x.proc = p, p # NoProc
    PROVE  /\ x.st \in {"OUT_DIAL", "WAIT_LL", "ALERT_SENT", "WAIT_CONN_ACK", "WAIT_DCOMMAND",
                  "WAIT_DRELEASE", "WAIT_D_REL_CNF"} /\ z.phase # "data" =>
                  EvRelease(Put(s, c, p, x, y, z, l), c)
                      = Put(s, c, p, Closed(x), y, NoCall, l)
           /\ x.st = "WAIT_BCONN" /\ z.phase # "data" =>
                  EvRelease(Put(s, c, p, x, y, z, l), c)
                      = Put(s, c, p, Closed(BOff(x)), y, NoCall, l)
           /\ x.st = "ACTIVE" =>
                  EvRelease(Put(s, c, p, x, y, z, l), c)
                      = Put(s, c, p, Closed(BOff(Shut(x))), y, NoCall, l)
           /\ x.st \in {"WAIT_BRELEASE", "WAIT_BREL_DISC"} =>
                  EvRelease(Put(s, c, p, x, y, z, l), c)
                      = Put(s, c, p, Closed(BOff(x)), y, NoCall, l)
           /\ x.st = "PROCEED_SEND" =>
                  EvRelease(Put(s, c, p, x, y, z, l), c)
                      = Put(s, c, p, x, y, z, Yes)
           /\ x.st = "NULL" =>
                  EvRelease(Put(s, c, p, x, y, z, l), c)
                      = Put(s, c, p, x, y, z, l)
<1>1. ASSUME x.st \in {"OUT_DIAL", "WAIT_LL", "ALERT_SENT", "WAIT_CONN_ACK", "WAIT_DCOMMAND",
                     "WAIT_DRELEASE", "WAIT_D_REL_CNF"} /\ z.phase # "data"
      PROVE  EvRelease(Put(s, c, p, x, y, z, l), c) = Put(s, c, p, Closed(x), y, NoCall, l)
  BY <1>1, PutIs, lli_closePut DEF EvRelease, In, lli_dhup_close
<1>2. ASSUME x.st = "WAIT_BCONN" /\ z.phase # "data"
      PROVE  EvRelease(Put(s, c, p, x, y, z, l), c)
                   = Put(s, c, p, Closed(BOff(x)), y, NoCall, l)
  BY <1>2, PutIs, lli_closePut, release_b_stPut
     DEF EvRelease, In, lli_dhup_close, lli_rel_b_dhup
<1>3. ASSUME x.st = "ACTIVE"
      PROVE  EvRelease(Put(s, c, p, x, y, z, l), c)
                   = Put(s, c, p, Closed(BOff(Shut(x))), y, NoCall, l)
  BY <1>3, PutIs, lli_closePut, release_b_stPut, lli_abortIs, TellPut, PhaseIs
     DEF EvRelease, In, lli_dhup_close, lli_rel_b_dhup, lli_bhup_dhup, Phases
<1>4. ASSUME x.st \in {"WAIT_BRELEASE", "WAIT_BREL_DISC"}
      PROVE  EvRelease(Put(s, c, p, x, y, z, l), c)
                   = Put(s, c, p, Closed(BOff(x)), y, NoCall, l)
  BY <1>4, PutIs, lli_closePut, release_b_stPut, TellPut, PhaseIs
     DEF EvRelease, In, lli_dhup_close, lli_rel_b_dhup, lli_bhup_dhup, Phases
<1>5. ASSUME x.st = "PROCEED_SEND"
      PROVE  EvRelease(Put(s, c, p, x, y, z, l), c) = Put(s, c, p, x, y, z, Yes)
  BY <1>5, PutIs, PutLost DEF EvRelease, In
<1>6. ASSUME x.st = "NULL"
      PROVE  EvRelease(Put(s, c, p, x, y, z, l), c) = Put(s, c, p, x, y, z, l)
  BY <1>6, PutIs DEF EvRelease, In
<1> QED BY <1>1, <1>2, <1>3, <1>4, <1>5, <1>6

LEMMA EvAcceptdPut ==
    ASSUME NEW s, NEW c, NEW p, At(s, c, p), NEW x \in Channel, NEW y \in l3_process,
           NEW z \in LinkLevel, NEW l,
           x.proc = p, p # NoProc
    PROVE  /\ x.st \in {"WAIT_LL", "ALERT_SENT", "PROCEED_SEND"} /\ y.st \notin {6, 7, 9, 25} =>
                  EvAcceptd(Put(s, c, p, x, y, z, l), c)
                      = Put(s, c, p, St(x, "WAIT_CONN_ACK"), y, z, l)
           /\ x.st \in {"WAIT_LL", "ALERT_SENT", "PROCEED_SEND"} /\ y.st \in {6, 7, 9, 25}
              /\ y.bchannel =>
                  EvAcceptd(Put(s, c, p, x, y, z, l), c)
                      = Put(s, c, p, St(x, "WAIT_CONN_ACK"), Go(y, 8, "T313"), z, l)
           /\ x.st \in {"WAIT_LL", "ALERT_SENT", "PROCEED_SEND"} /\ y.st \in {6, 7, 9, 25}
              /\ ~y.bchannel =>
                  EvAcceptd(Put(s, c, p, x, y, z, l), c)
                      = Put(s, c, p, St(x, "WAIT_CONN_ACK"), Go(y, 11, "T305"), z, l)
           /\ x.st = "WAIT_CONN_ACK" =>
                  EvAcceptd(Put(s, c, p, x, y, z, l), c)
                      = Put(s, c, p, x, y, z, l)
<1>1. ASSUME x.st \in {"WAIT_LL", "ALERT_SENT", "PROCEED_SEND"} /\ y.st \notin {6, 7, 9, 25}
      PROVE  EvAcceptd(Put(s, c, p, x, y, z, l), c)
                   = Put(s, c, p, St(x, "WAIT_CONN_ACK"), y, z, l)
  BY <1>1, PutIs, ChangeStatePut, StIs, CC_SETUP_RESPONSEPut
     DEF EvAcceptd, In, lli_setup_rsp, lli_send_dconnect, States, BStates, InStates
<1>2. ASSUME x.st \in {"WAIT_LL", "ALERT_SENT", "PROCEED_SEND"} /\ y.st \in {6, 7, 9, 25}
                 /\ y.bchannel
      PROVE  EvAcceptd(Put(s, c, p, x, y, z, l), c)
                   = Put(s, c, p, St(x, "WAIT_CONN_ACK"), Go(y, 8, "T313"), z, l)
  BY <1>2, PutIs, ChangeStatePut, StIs, CC_SETUP_RESPONSEPut
     DEF EvAcceptd, In, lli_setup_rsp, lli_send_dconnect, States, BStates, InStates
<1>3. ASSUME x.st \in {"WAIT_LL", "ALERT_SENT", "PROCEED_SEND"} /\ y.st \in {6, 7, 9, 25}
                 /\ ~y.bchannel
      PROVE  EvAcceptd(Put(s, c, p, x, y, z, l), c)
                   = Put(s, c, p, St(x, "WAIT_CONN_ACK"), Go(y, 11, "T305"), z, l)
  BY <1>3, PutIs, ChangeStatePut, StIs, CC_SETUP_RESPONSEPut
     DEF EvAcceptd, In, lli_setup_rsp, lli_send_dconnect, States, BStates, InStates
<1>4. ASSUME x.st = "WAIT_CONN_ACK"
      PROVE  EvAcceptd(Put(s, c, p, x, y, z, l), c) = Put(s, c, p, x, y, z, l)
  BY <1>4, PutIs DEF EvAcceptd, In
<1> QED BY <1>1, <1>2, <1>3, <1>4

LEMMA EvBcRelPut ==
    ASSUME NEW s, NEW c, NEW p, At(s, c, p), NEW x \in Channel, NEW y \in l3_process,
           NEW z \in LinkLevel, NEW l,
           x.proc = p, p # NoProc
    PROVE  /\ x.st = "WAIT_BCONN" /\ y.st \in {1, 2, 3, 4, 6, 7, 8, 9, 10, 25} =>
                  EvBcRel(Put(s, c, p, x, y, z, l), c)
                      = Put(s, c, p, St(BOff(x), "WAIT_DRELEASE"), Go(y, 11, "T305"), z, l)
           /\ x.st = "ACTIVE" =>
                  EvBcRel(Put(s, c, p, x, y, z, l), c)
                      = Put(s, c, p, BOff(Shut(St(x, "WAIT_DCOMMAND"))), y, Phase(z, "half"), l)
           /\ x.st = "WAIT_BRELEASE" /\ y.st \in {1, 2, 3, 4, 6, 7, 8, 9, 10, 25} =>
                  EvBcRel(Put(s, c, p, x, y, z, l), c)
                      = Put(s, c, p, St(BOff(x), "WAIT_DRELEASE"), Go(y, 11, "T305"), Phase(z,
                              "half"), l)
           /\ x.st = "WAIT_BRELEASE" /\ ~(y.st \in {1, 2, 3, 4, 6, 7, 8, 9, 10, 25}) =>
                  EvBcRel(Put(s, c, p, x, y, z, l), c)
                      = Put(s, c, p, St(BOff(x), "WAIT_DRELEASE"), y, Phase(z, "half"), l)
           /\ x.st = "WAIT_BREL_DISC" /\ y.st = 12 =>
                  EvBcRel(Put(s, c, p, x, y, z, l), c)
                      = Put(s, c, p, St(BOff(x), "WAIT_D_REL_CNF"), Go(y, 19, "T308_1"),
                              Phase(z, "half"), l)
           /\ x.st = "WAIT_BREL_DISC" /\ y.st = 19 =>
                  EvBcRel(Put(s, c, p, x, y, z, l), c)
                      = Put(s, c, p, St(BOff(x), "WAIT_D_REL_CNF"), y, Phase(z, "half"), l)
<1>1. ASSUME x.st = "WAIT_BCONN" /\ y.st \in {1, 2, 3, 4, 6, 7, 8, 9, 10, 25}
      PROVE  EvBcRel(Put(s, c, p, x, y, z, l), c)
                   = Put(s, c, p, St(BOff(x), "WAIT_DRELEASE"), Go(y, 11, "T305"), z, l)
  BY <1>1, PutIs, ChangeStatePut, StIs, BOffIs, release_b_stPut, CC_DISCONNECTPut
     DEF EvBcRel, In, lli_disconnect_req, lli_rel_b_disc, States, BStates, InStates
<1>2. ASSUME x.st = "ACTIVE"
      PROVE  EvBcRel(Put(s, c, p, x, y, z, l), c)
                   = Put(s, c, p, BOff(Shut(St(x, "WAIT_DCOMMAND"))), y, Phase(z, "half"), l)
  BY <1>2, PutIs, close_dataPut, TellPut, release_b_stPut DEF EvBcRel, In, lli_bhup_rel_b
<1>3. ASSUME x.st = "WAIT_BRELEASE" /\ y.st \in {1, 2, 3, 4, 6, 7, 8, 9, 10, 25}
      PROVE  EvBcRel(Put(s, c, p, x, y, z, l), c)
                   = Put(s, c, p, St(BOff(x), "WAIT_DRELEASE"), Go(y, 11, "T305"), Phase(z,
                   "half"), l)
  BY <1>3, PutIs, TellPut, ChangeStatePut, StIs, BOffIs, release_b_stPut, CC_DISCONNECTPut
     DEF EvBcRel, In, lli_disconnect_req, lli_rel_b_disc, lli_bhup_disc, States, BStates,
         InStates
<1>4. ASSUME x.st = "WAIT_BRELEASE" /\ ~(y.st \in {1, 2, 3, 4, 6, 7, 8, 9, 10, 25})
      PROVE  EvBcRel(Put(s, c, p, x, y, z, l), c)
                   = Put(s, c, p, St(BOff(x), "WAIT_DRELEASE"), y, Phase(z, "half"), l)
  BY <1>4, PutIs, TellPut, ChangeStatePut, StIs, BOffIs, release_b_stPut, CC_DISCONNECTPut
     DEF EvBcRel, In, lli_disconnect_req, lli_rel_b_disc, lli_bhup_disc, States, BStates,
         InStates
<1>5. ASSUME x.st = "WAIT_BREL_DISC" /\ y.st = 12
      PROVE  EvBcRel(Put(s, c, p, x, y, z, l), c)
                   = Put(s, c, p, St(BOff(x), "WAIT_D_REL_CNF"), Go(y, 19, "T308_1"), Phase(z,
                   "half"), l)
  BY <1>5, PutIs, TellPut, ChangeStatePut, StIs, BOffIs, release_b_stPut, CC_RELEASEPut
     DEF EvBcRel, In, lli_release_req, lli_rel_b_release_req, lli_bhup_release_req, States,
         BStates, InStates
<1>6. ASSUME x.st = "WAIT_BREL_DISC" /\ y.st = 19
      PROVE  EvBcRel(Put(s, c, p, x, y, z, l), c)
                   = Put(s, c, p, St(BOff(x), "WAIT_D_REL_CNF"), y, Phase(z, "half"), l)
  BY <1>6, PutIs, TellPut, ChangeStatePut, StIs, BOffIs, release_b_stPut, CC_RELEASEPut
     DEF EvBcRel, In, lli_release_req, lli_rel_b_release_req, lli_bhup_release_req, States,
         BStates, InStates
<1> QED BY <1>1, <1>2, <1>3, <1>4, <1>5, <1>6

LEMMA EvSuspendPut ==
    ASSUME NEW s, NEW c, NEW p, At(s, c, p), NEW x \in Channel, NEW y \in l3_process,
           NEW z \in LinkLevel, NEW l,
           x.proc = p, p # NoProc
    PROVE  /\ x.st = "ACTIVE" /\ y.st = 10 /\ y.timer = "none" =>
                  EvSuspend(Put(s, c, p, x, y, z, l), c)
                      = Put(s, c, p, x, L3St(Timer(y, "T319"), 15), z, l)
           /\ x.st = "ACTIVE" /\ y.st = 10 /\ y.timer # "none" =>
                  EvSuspend(Put(s, c, p, x, y, z, l), c)
                      = Put(s, c, p, x, L3St(y, 15), z, l)
           /\ x.st = "ACTIVE" /\ y.st # 10 =>
                  EvSuspend(Put(s, c, p, x, y, z, l), c)
                      = Put(s, c, p, x, y, z, l)
<1>1. ASSUME x.st = "ACTIVE" /\ y.st = 10 /\ y.timer = "none"
      PROVE  EvSuspend(Put(s, c, p, x, y, z, l), c)
                   = Put(s, c, p, x, L3St(Timer(y, "T319"), 15), z, l)
  BY <1>1, PutIs, CC_SUSPENDPut DEF EvSuspend, In
<1>2. ASSUME x.st = "ACTIVE" /\ y.st = 10 /\ y.timer # "none"
      PROVE  EvSuspend(Put(s, c, p, x, y, z, l), c) = Put(s, c, p, x, L3St(y, 15), z, l)
  BY <1>2, PutIs, CC_SUSPENDPut DEF EvSuspend, In
<1>3. ASSUME x.st = "ACTIVE" /\ y.st # 10
      PROVE  EvSuspend(Put(s, c, p, x, y, z, l), c) = Put(s, c, p, x, y, z, l)
  BY <1>3, PutIs, CC_SUSPENDPut DEF EvSuspend, In
<1> QED BY <1>1, <1>2, <1>3

LEMMA EvAlertPut ==
    ASSUME NEW s, NEW c, NEW p, At(s, c, p), NEW x \in Channel, NEW y \in l3_process,
           NEW z \in LinkLevel, NEW l,
           x.proc = p, p # NoProc
    PROVE  /\ x.st = "PROCEED_SEND" /\ y.st = 9 =>
                  EvAlert(Put(s, c, p, x, y, z, l), c)
                      = Put(s, c, p, St(x, "ALERT_SENT"), L3St(y, 7), z, l)
           /\ x.st = "PROCEED_SEND" /\ y.st \in {11, 19} =>
                  EvAlert(Put(s, c, p, x, y, z, l), c)
                      = Put(s, c, p, St(x, "ALERT_SENT"), y, z, l)
<1>1. ASSUME x.st = "PROCEED_SEND" /\ y.st = 9
      PROVE  EvAlert(Put(s, c, p, x, y, z, l), c)
                   = Put(s, c, p, St(x, "ALERT_SENT"), L3St(y, 7), z, l)
  BY <1>1, PutIs, ChangeStatePut, CC_ALERTINGPut DEF EvAlert, In
<1>2. ASSUME x.st = "PROCEED_SEND" /\ y.st \in {11, 19}
      PROVE  EvAlert(Put(s, c, p, x, y, z, l), c) = Put(s, c, p, St(x, "ALERT_SENT"), y, z, l)
  BY <1>2, PutIs, ChangeStatePut, CC_ALERTINGPut DEF EvAlert, In
<1> QED BY <1>1, <1>2

\* Channel c is in a call with process p.
Mine(s, c, p) ==
    /\ At(s, c, p) /\ ~s.lost
    /\ s = Put(s, c, p, s.ch[c], s.pr[p], s.ll[c], s.lost)
    /\ Fits(c, p, s.ch[c], s.pr[p], s.ll[c])

\* How the result of an operation is read off its final form.
LEMMA Outcome ==
    ASSUME NEW s, NEW c, NEW p, At(s, c, p), NEW x1, NEW y1, NEW z1, NEW l1, NEW t,
           t = Put(s, c, p, x1, y1, z1, l1),
           Next1(c, p, s.ch[c], s.pr[p], s.ll[c], x1, y1, z1)
    PROVE  Result(s, c, p, t)
BY PutIs DEF Result

\* What is lost is not explored.
LEMMA NoOutcome ==
    ASSUME NEW s, NEW c, NEW p, At(s, c, p), NEW x1, NEW y1, NEW z1, NEW t,
           t = Put(s, c, p, x1, y1, z1, Yes)
    PROVE  Result(s, c, p, t)
<1>1. t.lost = Yes /\ t.ch[c] = x1 /\ t.pr[p] = y1 /\ t.ll[c] = z1
  BY PutIs
<1>2. t = Put(s, c, p, t.ch[c], t.pr[p], t.ll[c], t.lost)
  BY <1>1
<1>3. t.lost
  BY <1>1 DEF Yes
<1> QED BY <1>2, <1>3 DEF Result

LEMMA AddedPut ==
    ASSUME NEW s, NEW c, NEW p, At(s, c, p), NEW x, NEW y, NEW z, NEW l, NEW w, y.timer = "none"
    PROVE  L3AddTimer(Put(s, c, p, x, y, z, l), p, w) = Put(s, c, p, x, Timer(y, w), z, l)
BY L3AddTimerPut

\* The fields after the changes that go together.
LEMMA GoIs ==
    ASSUME NEW y \in l3_process, NEW a \in L3States, NEW b \in L3Timers
    PROVE  /\ Go(y, a, b) \in l3_process /\ Go(y, a, b).st = a /\ Go(y, a, b).timer = b
           /\ Go(y, a, b).chan = y.chan /\ (Go(y, a, b).live <=> y.live)
           /\ (Go(y, a, b).bchannel <=> y.bchannel)
BY L3StIs, TimerIs DEF Go

\* The moves of a call process from state to state.
LEMMA Go11T305 ==
    ASSUME NEW y \in l3_process
    PROVE  LET v == Go(y, 11, "T305")
           IN  /\ v \in l3_process /\ v.st = 11 /\ v.timer = "T305" /\ v.chan = y.chan
               /\ (v.live <=> y.live) /\ (v.bchannel <=> y.bchannel)
<1>1. 11 \in L3States /\ "T305" \in L3Timers
  BY DEF L3States, L3Timers
<1> QED BY <1>1, GoIs

LEMMA Go8T313 ==
    ASSUME NEW y \in l3_process
    PROVE  LET v == Go(y, 8, "T313")
           IN  /\ v \in l3_process /\ v.st = 8 /\ v.timer = "T313" /\ v.chan = y.chan
               /\ (v.live <=> y.live) /\ (v.bchannel <=> y.bchannel)
<1>1. 8 \in L3States /\ "T313" \in L3Timers
  BY DEF L3States, L3Timers
<1> QED BY <1>1, GoIs

LEMMA Go19T308_1 ==
    ASSUME NEW y \in l3_process
    PROVE  LET v == Go(y, 19, "T308_1")
           IN  /\ v \in l3_process /\ v.st = 19 /\ v.timer = "T308_1" /\ v.chan = y.chan
               /\ (v.live <=> y.live) /\ (v.bchannel <=> y.bchannel)
<1>1. 19 \in L3States /\ "T308_1" \in L3Timers
  BY DEF L3States, L3Timers
<1> QED BY <1>1, GoIs

LEMMA Go19T308_2 ==
    ASSUME NEW y \in l3_process
    PROVE  LET v == Go(y, 19, "T308_2")
           IN  /\ v \in l3_process /\ v.st = 19 /\ v.timer = "T308_2" /\ v.chan = y.chan
               /\ (v.live <=> y.live) /\ (v.bchannel <=> y.bchannel)
<1>1. 19 \in L3States /\ "T308_2" \in L3Timers
  BY DEF L3States, L3Timers
<1> QED BY <1>1, GoIs

LEMMA Go19 ==
    ASSUME NEW y \in l3_process
    PROVE  LET v == Go(y, 19, "none")
           IN  /\ v \in l3_process /\ v.st = 19 /\ v.timer = "none" /\ v.chan = y.chan
               /\ (v.live <=> y.live) /\ (v.bchannel <=> y.bchannel)
<1>1. 19 \in L3States /\ "none" \in L3Timers
  BY DEF L3States, L3Timers
<1> QED BY <1>1, GoIs

LEMMA Go10 ==
    ASSUME NEW y \in l3_process
    PROVE  LET v == Go(y, 10, "none")
           IN  /\ v \in l3_process /\ v.st = 10 /\ v.timer = "none" /\ v.chan = y.chan
               /\ (v.live <=> y.live) /\ (v.bchannel <=> y.bchannel)
<1>1. 10 \in L3States /\ "none" \in L3Timers
  BY DEF L3States, L3Timers
<1> QED BY <1>1, GoIs

LEMMA Go12 ==
    ASSUME NEW y \in l3_process
    PROVE  LET v == Go(y, 12, "none")
           IN  /\ v \in l3_process /\ v.st = 12 /\ v.timer = "none" /\ v.chan = y.chan
               /\ (v.live <=> y.live) /\ (v.bchannel <=> y.bchannel)
<1>1. 12 \in L3States /\ "none" \in L3Timers
  BY DEF L3States, L3Timers
<1> QED BY <1>1, GoIs

LEMMA Go25T302 ==
    ASSUME NEW y \in l3_process
    PROVE  LET v == Go(y, 25, "T302")
           IN  /\ v \in l3_process /\ v.st = 25 /\ v.timer = "T302" /\ v.chan = y.chan
               /\ (v.live <=> y.live) /\ (v.bchannel <=> y.bchannel)
<1>1. 25 \in L3States /\ "T302" \in L3Timers
  BY DEF L3States, L3Timers
<1> QED BY <1>1, GoIs

LEMMA Go3T310 ==
    ASSUME NEW y \in l3_process
    PROVE  LET v == Go(y, 3, "T310")
           IN  /\ v \in l3_process /\ v.st = 3 /\ v.timer = "T310" /\ v.chan = y.chan
               /\ (v.live <=> y.live) /\ (v.bchannel <=> y.bchannel)
<1>1. 3 \in L3States /\ "T310" \in L3Timers
  BY DEF L3States, L3Timers
<1> QED BY <1>1, GoIs

LEMMA Go2T304 ==
    ASSUME NEW y \in l3_process
    PROVE  LET v == Go(y, 2, "T304")
           IN  /\ v \in l3_process /\ v.st = 2 /\ v.timer = "T304" /\ v.chan = y.chan
               /\ (v.live <=> y.live) /\ (v.bchannel <=> y.bchannel)
<1>1. 2 \in L3States /\ "T304" \in L3Timers
  BY DEF L3States, L3Timers
<1> QED BY <1>1, GoIs

LEMMA Go4 ==
    ASSUME NEW y \in l3_process
    PROVE  LET v == Go(y, 4, "none")
           IN  /\ v \in l3_process /\ v.st = 4 /\ v.timer = "none" /\ v.chan = y.chan
               /\ (v.live <=> y.live) /\ (v.bchannel <=> y.bchannel)
<1>1. 4 \in L3States /\ "none" \in L3Timers
  BY DEF L3States, L3Timers
<1> QED BY <1>1, GoIs

LEMMA GoneIs ==
    ASSUME NEW y \in l3_process
    PROVE  Gone(y) \in l3_process /\ ~Gone(y).live /\ Gone(y).chan = NoChan
               /\ Gone(y).timer = "none"
BY DeadIs, TimerIs, ChanIs DEF Gone, L3Timers

LEMMA ClosedIs ==
    ASSUME NEW x \in Channel
    PROVE  /\ Closed(x) \in Channel /\ Closed(x).st = "NULL" /\ ~Closed(x).start_b
           /\ Closed(x).proc = x.proc /\ (Closed(x).data_open <=> x.data_open)
BY StIs, BOffIs DEF Closed, States

\* DISCONNECT, in the state that waits for it and in any other.
LEMMA DisconnectPut ==
    ASSUME NEW s, NEW c, NEW p, At(s, c, p), NEW x, NEW y \in l3_process, NEW z, NEW l,
           y.chan = c, c # NoChan
    PROVE  Receive(Put(s, c, p, x, y, z, l), p, "DISCONNECT")
               = IF y.st # 11 THEN EvDisconnectInd(Put(s, c, p, x, Go(y, 12, "none"), z, l), c)
                 ELSE Put(s, c, p, x, Go(Go(y, 12, "none"), 19, "T308_1"), z, l)
<1> DEFINE P == Put(s, c, p, x, y, z, l)
           t == L3(P, p, 12, "none")
<1>1. Receive(P, p, "DISCONNECT") = l3dss1_disconnect(P, p, FALSE)
  BY DEF Receive
<1>2. l3dss1_disconnect(P, p, FALSE) =
          IF P.pr[p].st # 11
          THEN IF t.pr[p].chan = NoChan THEN t ELSE EvDisconnectInd(t, t.pr[p].chan)
          ELSE L3(t, p, 19, "T308_1")
  BY DEF l3dss1_disconnect, l3dss1_release_req, l3l4
<1>3. t = Put(s, c, p, x, Go(y, 12, "none"), z, l)
  BY L3Put
<1>4. t.pr[p].chan = c /\ P.pr[p] = y
  <2>1. t.pr[p] = Go(y, 12, "none") /\ P.pr[p] = y
    BY <1>3, PutIs
  <2> QED BY <2>1, Go12
<1>5. L3(t, p, 19, "T308_1") = Put(s, c, p, x, Go(Go(y, 12, "none"), 19, "T308_1"), z, l)
  BY <1>3, L3Put
<1> QED BY <1>1, <1>2, <1>3, <1>4, <1>5

LEMMA FaultyPut ==
    ASSUME NEW s, NEW c, NEW p, At(s, c, p), NEW x, NEW y \in l3_process, NEW z, NEW l,
           y.chan = c, c # NoChan
    PROVE  /\ y.st # 11 =>
                  Receive(Put(s, c, p, x, y, z, l), p, "DISCONNECT_faulty")
                      = L3AddTimer(EvDisconnectInd(Put(s, c, p, x, Go(y, 19, "none"), z, l),
                              c), p, "T308_1")
           /\ y.st = 11 =>
                  Receive(Put(s, c, p, x, y, z, l), p, "DISCONNECT_faulty")
                      = L3AddTimer(Put(s, c, p, x, Go(y, 19, "none"), z, l), p, "T308_1")
<1> DEFINE P == Put(s, c, p, x, y, z, l)
           t == L3(P, p, 19, "none")
<1>1. Receive(P, p, "DISCONNECT_faulty") = l3dss1_disconnect(P, p, TRUE)
  BY DEF Receive
<1>2. l3dss1_disconnect(P, p, TRUE) =
          L3AddTimer(IF P.pr[p].st # 11
                     THEN IF t.pr[p].chan = NoChan THEN t ELSE EvDisconnectInd(t, t.pr[p].chan)
                     ELSE t, p, "T308_1")
  BY DEF l3dss1_disconnect, l3l4
<1>3. t = Put(s, c, p, x, Go(y, 19, "none"), z, l)
  BY L3Put
<1>4. t.pr[p].chan = c /\ P.pr[p] = y
  <2>1. t.pr[p] = Go(y, 19, "none") /\ P.pr[p] = y
    BY <1>3, PutIs
  <2> QED BY <2>1, Go19
<1> QED BY <1>1, <1>2, <1>3, <1>4

-----------------------------------------------------------------------------
(* The steps of one channel: the link level and the B channel *)

\* ISDN_CMD_HANGUP in each state of a call: the channel is on its way out.
LEMMA HangupStep ==
    ASSUME NEW s, NEW c, NEW p, Mine(s, c, p)
    PROVE  Result(s, c, p, EvHangup(HungUp(s, c), c))
<1> DEFINE x == s.ch[c]
           y == s.pr[p]
           z == s.ll[c]
           l == s.lost
<1>1. At(s, c, p) /\ s = Put(s, c, p, x, y, z, l) /\ Fits(c, p, x, y, z) /\ p # NoProc
          /\ c # NoChan /\ ~l
  BY Names DEF Mine, At
<1>2. x \in Channel /\ y \in l3_process /\ z \in LinkLevel /\ x.proc = p /\ y.chan = c
  BY <1>1 DEF Fits
<1> HIDE DEF x, y, z, l
<1>3. Hup(z) \in LinkLevel
  BY <1>2, HupIs DEF L3States, L3Timers, Phases
<1>4. CASE x.st = "WAIT_LL"
  <2>1. EvHangup(HungUp(s, c), c)
            = Put(s, c, p, DrelOn(St(x, "ALERT_SENT")), L3St(y, 7), Hup(z), l)
    BY <1>4, <1>1, <1>2, <1>3, PutHup, EvHangupPut DEF Fits, Partners
  <2> DEFINE x1 == DrelOn(St(x, "ALERT_SENT"))
             y1 == L3St(y, 7)
             z1 == Hup(z)
  <2>2. /\ x1 \in Channel /\ x1.proc = x.proc /\ x1.st = "ALERT_SENT"
           /\ (x1.start_b <=> x.start_b) /\ (x1.data_open <=> x.data_open)
        /\ y1 \in l3_process /\ (y1.live <=> y.live) /\ y1.chan = y.chan /\ y1.st = 7
           /\ y1.timer = y.timer
        /\ z1 \in LinkLevel /\ z1.phase = z.phase /\ z1.hup
    BY <1>4, <1>1, <1>2, <1>3, StIs, DrelOnIs, L3StIs, HupIs
       DEF States, BStates, InStates, L3States, L3Timers, Phases
  <2> HIDE DEF x1, y1, z1
  <2>3. Next1(c, p, x, y, z, x1, y1, z1)
    BY <1>4, <1>1, <1>2, <2>2
       DEF Next1, Kept, Fits, Over, Partners, PhasesOf, TimersOf, Order, Hung, Held, States,
           BStates, InStates, L3States, L3Timers, Phases
  <2> QED BY <1>1, <2>1, <2>3, Outcome DEF x, y, z, x1, y1, z1
<1>5. CASE x.st \in {"OUT_DIAL", "ALERT_SENT", "PROCEED_SEND", "WAIT_CONN_ACK",
                   "WAIT_DCOMMAND"} /\ y.st \in {1, 2, 3, 4, 6, 7, 8, 9, 10, 25}
  <2>1. EvHangup(HungUp(s, c), c)
            = Put(s, c, p, St(x, "WAIT_DRELEASE"), Go(y, 11, "T305"), Hup(z), l)
    BY <1>5, <1>1, <1>2, <1>3, PutHup, EvHangupPut DEF Fits, Partners
  <2> DEFINE x1 == St(x, "WAIT_DRELEASE")
             y1 == Go(y, 11, "T305")
             z1 == Hup(z)
  <2>2. /\ x1 \in Channel /\ x1.proc = x.proc /\ x1.st = "WAIT_DRELEASE"
           /\ (x1.start_b <=> x.start_b) /\ (x1.data_open <=> x.data_open)
        /\ y1 \in l3_process /\ (y1.live <=> y.live) /\ y1.chan = y.chan /\ y1.st = 11
           /\ y1.timer = "T305"
        /\ z1 \in LinkLevel /\ z1.phase = z.phase /\ z1.hup
    BY <1>5, <1>1, <1>2, <1>3, StIs, HupIs, Go11T305 DEF States, BStates, InStates, Phases
  <2> HIDE DEF x1, y1, z1
  <2>3. Next1(c, p, x, y, z, x1, y1, z1)
    BY <1>5, <1>1, <1>2, <2>2
       DEF Next1, Kept, Fits, Over, Partners, PhasesOf, TimersOf, Order, Hung, Held, States,
           BStates, InStates, L3States, L3Timers, Phases
  <2> QED BY <1>1, <2>1, <2>3, Outcome DEF x, y, z, x1, y1, z1
<1>6. CASE x.st \in {"OUT_DIAL", "ALERT_SENT", "PROCEED_SEND", "WAIT_CONN_ACK",
                   "WAIT_DCOMMAND"} /\ y.st \notin {1, 2, 3, 4, 6, 7, 8, 9, 10, 25}
  <2>1. EvHangup(HungUp(s, c), c)
            = Put(s, c, p, St(x, "WAIT_DRELEASE"), y, Hup(z), l)
    BY <1>6, <1>1, <1>2, <1>3, PutHup, EvHangupPut DEF Fits, Partners
  <2> DEFINE x1 == St(x, "WAIT_DRELEASE")
             z1 == Hup(z)
  <2>2. /\ x1 \in Channel /\ x1.proc = x.proc /\ x1.st = "WAIT_DRELEASE"
           /\ (x1.start_b <=> x.start_b) /\ (x1.data_open <=> x.data_open)
        /\ z1 \in LinkLevel /\ z1.phase = z.phase /\ z1.hup
    BY <1>6, <1>1, <1>2, <1>3, StIs, HupIs DEF States, BStates, InStates, Phases
  <2> HIDE DEF x1, z1
  <2>3. Next1(c, p, x, y, z, x1, y, z1)
    BY <1>6, <1>1, <1>2, <2>2
       DEF Next1, Kept, Fits, Over, Partners, PhasesOf, TimersOf, Order, Hung, Held, States,
           BStates, InStates, L3States, L3Timers, Phases
  <2> QED BY <1>1, <2>1, <2>3, Outcome DEF x, y, z, x1, z1
<1>7. CASE x.st = "WAIT_BCONN"
  <2>1. EvHangup(HungUp(s, c), c)
            = Put(s, c, p, St(BOff(x), "WAIT_DRELEASE"), Go(y, 11, "T305"), Hup(z), l)
    BY <1>7, <1>1, <1>2, <1>3, PutHup, EvHangupPut DEF Fits, Partners
  <2> DEFINE x1 == St(BOff(x), "WAIT_DRELEASE")
             y1 == Go(y, 11, "T305")
             z1 == Hup(z)
  <2>2. /\ x1 \in Channel /\ x1.proc = x.proc /\ x1.st = "WAIT_DRELEASE" /\ ~x1.start_b
           /\ (x1.data_open <=> x.data_open)
        /\ y1 \in l3_process /\ (y1.live <=> y.live) /\ y1.chan = y.chan /\ y1.st = 11
           /\ y1.timer = "T305"
        /\ z1 \in LinkLevel /\ z1.phase = z.phase /\ z1.hup
    BY <1>7, <1>1, <1>2, <1>3, StIs, BOffIs, HupIs, Go11T305
       DEF States, BStates, InStates, Phases
  <2> HIDE DEF x1, y1, z1
  <2>3. Next1(c, p, x, y, z, x1, y1, z1)
    BY <1>7, <1>1, <1>2, <2>2
       DEF Next1, Kept, Fits, Over, Partners, PhasesOf, TimersOf, Order, Hung, Held, States,
           BStates, InStates, L3States, L3Timers, Phases
  <2> QED BY <1>1, <2>1, <2>3, Outcome DEF x, y, z, x1, y1, z1
<1>8. CASE x.st = "ACTIVE"
  <2>1. EvHangup(HungUp(s, c), c)
            = Put(s, c, p, Shut(St(x, "WAIT_BRELEASE")), y, Hup(z), l)
    BY <1>8, <1>1, <1>2, <1>3, PutHup, EvHangupPut DEF Fits, Partners
  <2> DEFINE x1 == Shut(St(x, "WAIT_BRELEASE"))
             z1 == Hup(z)
  <2>2. /\ x1 \in Channel /\ x1.proc = x.proc /\ x1.st = "WAIT_BRELEASE"
           /\ (x1.start_b <=> x.start_b) /\ ~x1.data_open
        /\ z1 \in LinkLevel /\ z1.phase = z.phase /\ z1.hup
    BY <1>8, <1>1, <1>2, <1>3, StIs, ShutIs, HupIs DEF States, BStates, InStates, Phases
  <2> HIDE DEF x1, z1
  <2>3. Next1(c, p, x, y, z, x1, y, z1)
    BY <1>8, <1>1, <1>2, <2>2
       DEF Next1, Kept, Fits, Over, Partners, PhasesOf, TimersOf, Order, Hung, Held, States,
           BStates, InStates, L3States, L3Timers, Phases
  <2> QED BY <1>1, <2>1, <2>3, Outcome DEF x, y, z, x1, z1
<1>9. CASE x.st \in {"WAIT_DRELEASE", "WAIT_D_REL_CNF", "WAIT_BRELEASE", "WAIT_BREL_DISC"}
  <2>1. EvHangup(HungUp(s, c), c)
            = Put(s, c, p, x, y, Hup(z), l)
    BY <1>9, <1>1, <1>2, <1>3, PutHup, EvHangupPut DEF Fits, Partners
  <2> DEFINE z1 == Hup(z)
  <2>2. /\ z1 \in LinkLevel /\ z1.phase = z.phase /\ z1.hup
    BY <1>9, <1>1, <1>2, <1>3, HupIs DEF Phases
  <2> HIDE DEF z1
  <2>3. Next1(c, p, x, y, z, x, y, z1)
    BY <1>9, <1>1, <1>2, <2>2
       DEF Next1, Kept, Fits, Over, Partners, PhasesOf, TimersOf, Order, Hung, Held, States,
           BStates, InStates, L3States, L3Timers, Phases
  <2> QED BY <1>1, <2>1, <2>3, Outcome DEF x, y, z, z1
<1> QED
  BY <1>1, <1>2, <1>4, <1>5, <1>6, <1>7, <1>8, <1>9
     DEF Fits, Partners, Channel, States, InStates, BStates

\* drel_timer hangs up what was rejected: the callbacks know already.
LEMMA DrelStep ==
    ASSUME NEW s, NEW c, NEW p, Mine(s, c, p)
    PROVE  Result(s, c, p, EvHangup(StopDrel(s, c), c))
<1> DEFINE x == s.ch[c]
           y == s.pr[p]
           z == s.ll[c]
           l == s.lost
<1>1. At(s, c, p) /\ s = Put(s, c, p, x, y, z, l) /\ Fits(c, p, x, y, z) /\ p # NoProc
          /\ c # NoChan /\ ~l
  BY Names DEF Mine, At
<1>2. x \in Channel /\ y \in l3_process /\ z \in LinkLevel /\ x.proc = p /\ y.chan = c
  BY <1>1 DEF Fits
<1> HIDE DEF x, y, z, l
<1>3. DrelOff(x) \in Channel /\ DrelOff(x).proc = p
  BY <1>2, DrelOffIs DEF L3States, L3Timers, Phases
<1>4. CASE x.st = "WAIT_LL"
  <2>1. EvHangup(StopDrel(s, c), c)
            = Put(s, c, p, DrelOn(St(DrelOff(x), "ALERT_SENT")), L3St(y, 7), z, l)
    BY <1>4, <1>1, <1>2, <1>3, PutDrelOff, DrelOffIs, EvHangupPut DEF Fits, Partners
  <2> DEFINE x1 == DrelOn(St(DrelOff(x), "ALERT_SENT"))
             y1 == L3St(y, 7)
  <2>2. /\ x1 \in Channel /\ x1.proc = x.proc /\ x1.st = "ALERT_SENT"
           /\ (x1.start_b <=> x.start_b) /\ (x1.data_open <=> x.data_open)
        /\ y1 \in l3_process /\ (y1.live <=> y.live) /\ y1.chan = y.chan /\ y1.st = 7
           /\ y1.timer = y.timer
    BY <1>4, <1>1, <1>2, <1>3, StIs, DrelOnIs, DrelOffIs, L3StIs
       DEF States, BStates, InStates, L3States, L3Timers
  <2> HIDE DEF x1, y1
  <2>3. Next1(c, p, x, y, z, x1, y1, z)
    BY <1>4, <1>1, <1>2, <2>2
       DEF Next1, Kept, Fits, Over, Partners, PhasesOf, TimersOf, Order, Hung, Held, States,
           BStates, InStates, L3States, L3Timers, Phases
  <2> QED BY <1>1, <2>1, <2>3, Outcome DEF x, y, z, x1, y1
<1>5. CASE x.st \in {"OUT_DIAL", "ALERT_SENT", "PROCEED_SEND", "WAIT_CONN_ACK",
                   "WAIT_DCOMMAND"} /\ y.st \in {1, 2, 3, 4, 6, 7, 8, 9, 10, 25}
  <2>1. EvHangup(StopDrel(s, c), c)
            = Put(s, c, p, St(DrelOff(x), "WAIT_DRELEASE"), Go(y, 11, "T305"), z, l)
    BY <1>5, <1>1, <1>2, <1>3, PutDrelOff, DrelOffIs, EvHangupPut DEF Fits, Partners
  <2> DEFINE x1 == St(DrelOff(x), "WAIT_DRELEASE")
             y1 == Go(y, 11, "T305")
  <2>2. /\ x1 \in Channel /\ x1.proc = x.proc /\ x1.st = "WAIT_DRELEASE"
           /\ (x1.start_b <=> x.start_b) /\ (x1.data_open <=> x.data_open)
        /\ y1 \in l3_process /\ (y1.live <=> y.live) /\ y1.chan = y.chan /\ y1.st = 11
           /\ y1.timer = "T305"
    BY <1>5, <1>1, <1>2, <1>3, StIs, DrelOffIs, Go11T305 DEF States, BStates, InStates
  <2> HIDE DEF x1, y1
  <2>3. Next1(c, p, x, y, z, x1, y1, z)
    BY <1>5, <1>1, <1>2, <2>2
       DEF Next1, Kept, Fits, Over, Partners, PhasesOf, TimersOf, Order, Hung, Held, States,
           BStates, InStates, L3States, L3Timers, Phases
  <2> QED BY <1>1, <2>1, <2>3, Outcome DEF x, y, z, x1, y1
<1>6. CASE x.st \in {"OUT_DIAL", "ALERT_SENT", "PROCEED_SEND", "WAIT_CONN_ACK",
                   "WAIT_DCOMMAND"} /\ y.st \notin {1, 2, 3, 4, 6, 7, 8, 9, 10, 25}
  <2>1. EvHangup(StopDrel(s, c), c)
            = Put(s, c, p, St(DrelOff(x), "WAIT_DRELEASE"), y, z, l)
    BY <1>6, <1>1, <1>2, <1>3, PutDrelOff, DrelOffIs, EvHangupPut DEF Fits, Partners
  <2> DEFINE x1 == St(DrelOff(x), "WAIT_DRELEASE")
  <2>2. /\ x1 \in Channel /\ x1.proc = x.proc /\ x1.st = "WAIT_DRELEASE"
           /\ (x1.start_b <=> x.start_b) /\ (x1.data_open <=> x.data_open)
    BY <1>6, <1>1, <1>2, <1>3, StIs, DrelOffIs DEF States, BStates, InStates
  <2> HIDE DEF x1
  <2>3. Next1(c, p, x, y, z, x1, y, z)
    BY <1>6, <1>1, <1>2, <2>2
       DEF Next1, Kept, Fits, Over, Partners, PhasesOf, TimersOf, Order, Hung, Held, States,
           BStates, InStates, L3States, L3Timers, Phases
  <2> QED BY <1>1, <2>1, <2>3, Outcome DEF x, y, z, x1
<1>7. CASE x.st = "WAIT_BCONN"
  <2>1. EvHangup(StopDrel(s, c), c)
            = Put(s, c, p, St(BOff(DrelOff(x)), "WAIT_DRELEASE"), Go(y, 11, "T305"), z, l)
    BY <1>7, <1>1, <1>2, <1>3, PutDrelOff, DrelOffIs, EvHangupPut DEF Fits, Partners
  <2> DEFINE x1 == St(BOff(DrelOff(x)), "WAIT_DRELEASE")
             y1 == Go(y, 11, "T305")
  <2>2. /\ x1 \in Channel /\ x1.proc = x.proc /\ x1.st = "WAIT_DRELEASE" /\ ~x1.start_b
           /\ (x1.data_open <=> x.data_open)
        /\ y1 \in l3_process /\ (y1.live <=> y.live) /\ y1.chan = y.chan /\ y1.st = 11
           /\ y1.timer = "T305"
    BY <1>7, <1>1, <1>2, <1>3, StIs, BOffIs, DrelOffIs, Go11T305 DEF States, BStates, InStates
  <2> HIDE DEF x1, y1
  <2>3. Next1(c, p, x, y, z, x1, y1, z)
    BY <1>7, <1>1, <1>2, <2>2
       DEF Next1, Kept, Fits, Over, Partners, PhasesOf, TimersOf, Order, Hung, Held, States,
           BStates, InStates, L3States, L3Timers, Phases
  <2> QED BY <1>1, <2>1, <2>3, Outcome DEF x, y, z, x1, y1
<1>8. CASE x.st = "ACTIVE"
  <2>1. EvHangup(StopDrel(s, c), c)
            = Put(s, c, p, Shut(St(DrelOff(x), "WAIT_BRELEASE")), y, z, l)
    BY <1>8, <1>1, <1>2, <1>3, PutDrelOff, DrelOffIs, EvHangupPut DEF Fits, Partners
  <2> DEFINE x1 == Shut(St(DrelOff(x), "WAIT_BRELEASE"))
  <2>2. /\ x1 \in Channel /\ x1.proc = x.proc /\ x1.st = "WAIT_BRELEASE"
           /\ (x1.start_b <=> x.start_b) /\ ~x1.data_open
    BY <1>8, <1>1, <1>2, <1>3, StIs, ShutIs, DrelOffIs DEF States, BStates, InStates
  <2> HIDE DEF x1
  <2>3. Next1(c, p, x, y, z, x1, y, z)
    BY <1>8, <1>1, <1>2, <2>2
       DEF Next1, Kept, Fits, Over, Partners, PhasesOf, TimersOf, Order, Hung, Held, States,
           BStates, InStates, L3States, L3Timers, Phases
  <2> QED BY <1>1, <2>1, <2>3, Outcome DEF x, y, z, x1
<1>9. CASE x.st \in {"WAIT_DRELEASE", "WAIT_D_REL_CNF", "WAIT_BRELEASE", "WAIT_BREL_DISC"}
  <2>1. EvHangup(StopDrel(s, c), c)
            = Put(s, c, p, DrelOff(x), y, z, l)
    BY <1>9, <1>1, <1>2, <1>3, PutDrelOff, DrelOffIs, EvHangupPut DEF Fits, Partners
  <2> DEFINE x1 == DrelOff(x)
  <2>2. /\ x1 \in Channel /\ x1.proc = x.proc /\ x1.st = x.st /\ (x1.start_b <=> x.start_b)
           /\ (x1.data_open <=> x.data_open)
    BY <1>9, <1>1, <1>2, <1>3, DrelOffIs DEF States, BStates, InStates
  <2> HIDE DEF x1
  <2>3. Next1(c, p, x, y, z, x1, y, z)
    BY <1>9, <1>1, <1>2, <2>2
       DEF Next1, Kept, Fits, Over, Partners, PhasesOf, TimersOf, Order, Hung, Held, States,
           BStates, InStates, L3States, L3Timers, Phases
  <2> QED BY <1>1, <2>1, <2>3, Outcome DEF x, y, z, x1
<1> QED
  BY <1>1, <1>2, <1>4, <1>5, <1>6, <1>7, <1>8, <1>9
     DEF Fits, Partners, Channel, States, InStates, BStates

\* ISDN_CMD_ACCEPTD: the network will confirm, or a channel without a B channel
\* is cleared at once.
LEMMA AcceptdStep ==
    ASSUME NEW s, NEW c, NEW p, Mine(s, c, p),
           ~s.ll[c].hup, s.ch[c].st \in InStates
    PROVE  Result(s, c, p, EvAcceptd(s, c))
<1> DEFINE x == s.ch[c]
           y == s.pr[p]
           z == s.ll[c]
           l == s.lost
<1>1. At(s, c, p) /\ s = Put(s, c, p, x, y, z, l) /\ Fits(c, p, x, y, z) /\ p # NoProc
          /\ c # NoChan /\ ~l
  BY Names DEF Mine, At
<1>2. x \in Channel /\ y \in l3_process /\ z \in LinkLevel /\ x.proc = p /\ y.chan = c
          /\ ~z.hup /\ x.st \in InStates
  BY <1>1 DEF Fits
<1> HIDE DEF x, y, z, l
<1>3. CASE x.st \in {"WAIT_LL", "ALERT_SENT", "PROCEED_SEND"} /\ y.st \in {7, 9, 25}
               /\ y.bchannel
  <2>1. EvAcceptd(s, c)
            = Put(s, c, p, St(x, "WAIT_CONN_ACK"), Go(y, 8, "T313"), z, l)
    BY <1>3, <1>1, <1>2, EvAcceptdPut
  <2> DEFINE x1 == St(x, "WAIT_CONN_ACK")
             y1 == Go(y, 8, "T313")
  <2>2. /\ x1 \in Channel /\ x1.proc = x.proc /\ x1.st = "WAIT_CONN_ACK"
           /\ (x1.start_b <=> x.start_b) /\ (x1.data_open <=> x.data_open)
        /\ y1 \in l3_process /\ (y1.live <=> y.live) /\ y1.chan = y.chan /\ y1.st = 8
           /\ y1.timer = "T313"
    BY <1>3, <1>1, <1>2, StIs, Go8T313 DEF States, BStates, InStates
  <2> HIDE DEF x1, y1
  <2>3. Next1(c, p, x, y, z, x1, y1, z)
    BY <1>3, <1>1, <1>2, <2>2
       DEF Next1, Kept, Fits, Over, Partners, PhasesOf, TimersOf, Order, Hung, Held, States,
           BStates, InStates, L3States, L3Timers, Phases
  <2> QED BY <1>1, <2>1, <2>3, Outcome DEF x, y, z, x1, y1
<1>4. CASE x.st \in {"WAIT_LL", "ALERT_SENT", "PROCEED_SEND"} /\ y.st \in {7, 9, 25}
               /\ ~y.bchannel
  <2>1. EvAcceptd(s, c)
            = Put(s, c, p, St(x, "WAIT_CONN_ACK"), Go(y, 11, "T305"), z, l)
    BY <1>4, <1>1, <1>2, EvAcceptdPut
  <2> DEFINE x1 == St(x, "WAIT_CONN_ACK")
             y1 == Go(y, 11, "T305")
  <2>2. /\ x1 \in Channel /\ x1.proc = x.proc /\ x1.st = "WAIT_CONN_ACK"
           /\ (x1.start_b <=> x.start_b) /\ (x1.data_open <=> x.data_open)
        /\ y1 \in l3_process /\ (y1.live <=> y.live) /\ y1.chan = y.chan /\ y1.st = 11
           /\ y1.timer = "T305"
    BY <1>4, <1>1, <1>2, StIs, Go11T305 DEF States, BStates, InStates
  <2> HIDE DEF x1, y1
  <2>3. Next1(c, p, x, y, z, x1, y1, z)
    BY <1>4, <1>1, <1>2, <2>2
       DEF Next1, Kept, Fits, Over, Partners, PhasesOf, TimersOf, Order, Hung, Held, States,
           BStates, InStates, L3States, L3Timers, Phases
  <2> QED BY <1>1, <2>1, <2>3, Outcome DEF x, y, z, x1, y1
<1>5. CASE x.st \in {"WAIT_LL", "ALERT_SENT", "PROCEED_SEND"} /\ y.st \in {8, 11, 19}
  <2>1. EvAcceptd(s, c)
            = Put(s, c, p, St(x, "WAIT_CONN_ACK"), y, z, l)
    BY <1>5, <1>1, <1>2, EvAcceptdPut
  <2> DEFINE x1 == St(x, "WAIT_CONN_ACK")
  <2>2. /\ x1 \in Channel /\ x1.proc = x.proc /\ x1.st = "WAIT_CONN_ACK"
           /\ (x1.start_b <=> x.start_b) /\ (x1.data_open <=> x.data_open)
    BY <1>5, <1>1, <1>2, StIs DEF States, BStates, InStates
  <2> HIDE DEF x1
  <2>3. Next1(c, p, x, y, z, x1, y, z)
    BY <1>5, <1>1, <1>2, <2>2
       DEF Next1, Kept, Fits, Over, Partners, PhasesOf, TimersOf, Order, Hung, Held, States,
           BStates, InStates, L3States, L3Timers, Phases
  <2> QED BY <1>1, <2>1, <2>3, Outcome DEF x, y, z, x1
<1>6. CASE x.st = "WAIT_CONN_ACK"
  <2>1. EvAcceptd(s, c)
            = Put(s, c, p, x, y, z, l)
    BY <1>6, <1>1, <1>2, EvAcceptdPut
  <2>2. Next1(c, p, x, y, z, x, y, z)
    BY <1>6, <1>1, <1>2
       DEF Next1, Kept, Fits, Over, Partners, PhasesOf, TimersOf, Order, Hung, Held, States,
           BStates, InStates, L3States, L3Timers, Phases
  <2> QED BY <1>1, <2>1, <2>2, Outcome DEF x, y, z
<1> QED
  BY <1>1, <1>2, <1>3, <1>4, <1>5, <1>6 DEF Fits, Partners, Channel, States, InStates, BStates

\* The caller hears it ring.
LEMMA AlertStep ==
    ASSUME NEW s, NEW c, NEW p, Mine(s, c, p),
           ~s.ll[c].hup, s.ch[c].st = "PROCEED_SEND"
    PROVE  Result(s, c, p, EvAlert(s, c))
<1> DEFINE x == s.ch[c]
           y == s.pr[p]
           z == s.ll[c]
           l == s.lost
<1>1. At(s, c, p) /\ s = Put(s, c, p, x, y, z, l) /\ Fits(c, p, x, y, z) /\ p # NoProc
          /\ c # NoChan /\ ~l
  BY Names DEF Mine, At
<1>2. x \in Channel /\ y \in l3_process /\ z \in LinkLevel /\ x.proc = p /\ y.chan = c
          /\ ~z.hup /\ x.st = "PROCEED_SEND"
  BY <1>1 DEF Fits
<1> HIDE DEF x, y, z, l
<1>3. CASE y.st = 9
  <2>1. EvAlert(s, c)
            = Put(s, c, p, St(x, "ALERT_SENT"), L3St(y, 7), z, l)
    BY <1>3, <1>1, <1>2, EvAlertPut
  <2> DEFINE x1 == St(x, "ALERT_SENT")
             y1 == L3St(y, 7)
  <2>2. /\ x1 \in Channel /\ x1.proc = x.proc /\ x1.st = "ALERT_SENT"
           /\ (x1.start_b <=> x.start_b) /\ (x1.data_open <=> x.data_open)
        /\ y1 \in l3_process /\ (y1.live <=> y.live) /\ y1.chan = y.chan /\ y1.st = 7
           /\ y1.timer = y.timer
    BY <1>3, <1>1, <1>2, StIs, L3StIs DEF States, BStates, InStates, L3States, L3Timers
  <2> HIDE DEF x1, y1
  <2>3. Next1(c, p, x, y, z, x1, y1, z)
    BY <1>3, <1>1, <1>2, <2>2
       DEF Next1, Kept, Fits, Over, Partners, PhasesOf, TimersOf, Order, Hung, Held, States,
           BStates, InStates, L3States, L3Timers, Phases
  <2> QED BY <1>1, <2>1, <2>3, Outcome DEF x, y, z, x1, y1
<1>4. CASE y.st \in {11, 19}
  <2>1. EvAlert(s, c)
            = Put(s, c, p, St(x, "ALERT_SENT"), y, z, l)
    BY <1>4, <1>1, <1>2, EvAlertPut
  <2> DEFINE x1 == St(x, "ALERT_SENT")
  <2>2. /\ x1 \in Channel /\ x1.proc = x.proc /\ x1.st = "ALERT_SENT"
           /\ (x1.start_b <=> x.start_b) /\ (x1.data_open <=> x.data_open)
    BY <1>4, <1>1, <1>2, StIs DEF States, BStates, InStates
  <2> HIDE DEF x1
  <2>3. Next1(c, p, x, y, z, x1, y, z)
    BY <1>4, <1>1, <1>2, <2>2
       DEF Next1, Kept, Fits, Over, Partners, PhasesOf, TimersOf, Order, Hung, Held, States,
           BStates, InStates, L3States, L3Timers, Phases
  <2> QED BY <1>1, <2>1, <2>3, Outcome DEF x, y, z, x1
<1> QED
  BY <1>1, <1>2, <1>3, <1>4 DEF Fits, Partners, Channel, States, InStates, BStates

\* A deflection clears the call.
LEMMA RedirStep ==
    ASSUME NEW s, NEW c, NEW p, Mine(s, c, p),
           ~s.ll[c].hup, s.ch[c].st \in {"ALERT_SENT", "PROCEED_SEND"}
    PROVE  Result(s, c, p, EvRedir(s, c))
<1> DEFINE x == s.ch[c]
           y == s.pr[p]
           z == s.ll[c]
           l == s.lost
<1>1. At(s, c, p) /\ s = Put(s, c, p, x, y, z, l) /\ Fits(c, p, x, y, z) /\ p # NoProc
          /\ c # NoChan /\ ~l
  BY Names DEF Mine, At
<1>2. x \in Channel /\ y \in l3_process /\ z \in LinkLevel /\ x.proc = p /\ y.chan = c
          /\ ~z.hup /\ x.st \in {"ALERT_SENT", "PROCEED_SEND"}
  BY <1>1 DEF Fits
<1> HIDE DEF x, y, z, l
<1>3. CASE y.st \in {7, 9}
  <2>1. EvRedir(s, c)
            = Put(s, c, p, x, Go(y, 11, "T305"), z, l)
    BY <1>3, <1>1, <1>2, PutIs, L3Put DEF EvRedir, In, CC_REDIR, InState, l3dss1_disconnect_req
  <2> DEFINE y1 == Go(y, 11, "T305")
  <2>2. /\ y1 \in l3_process /\ (y1.live <=> y.live) /\ y1.chan = y.chan /\ y1.st = 11
           /\ y1.timer = "T305"
    BY <1>3, <1>1, <1>2, Go11T305
  <2> HIDE DEF y1
  <2>3. Next1(c, p, x, y, z, x, y1, z)
    BY <1>3, <1>1, <1>2, <2>2
       DEF Next1, Kept, Fits, Over, Partners, PhasesOf, TimersOf, Order, Hung, Held, States,
           BStates, InStates, L3States, L3Timers, Phases
  <2> QED BY <1>1, <2>1, <2>3, Outcome DEF x, y, z, y1
<1>4. CASE y.st \in {8, 11, 19}
  <2>1. EvRedir(s, c)
            = Put(s, c, p, x, y, z, l)
    BY <1>4, <1>1, <1>2, PutIs DEF EvRedir, In, CC_REDIR, InState
  <2>2. Next1(c, p, x, y, z, x, y, z)
    BY <1>4, <1>1, <1>2
       DEF Next1, Kept, Fits, Over, Partners, PhasesOf, TimersOf, Order, Hung, Held, States,
           BStates, InStates, L3States, L3Timers, Phases
  <2> QED BY <1>1, <2>1, <2>2, Outcome DEF x, y, z
<1> QED
  BY <1>1, <1>2, <1>3, <1>4 DEF Fits, Partners, Channel, States, InStates, BStates

\* Suspended, the call has no timer but T319 and will not be cleared.
LEMMA SuspendStep ==
    ASSUME NEW s, NEW c, NEW p, Mine(s, c, p),
           s.ch[c].st = "ACTIVE"
    PROVE  Result(s, c, p, EvSuspend(s, c))
<1> DEFINE x == s.ch[c]
           y == s.pr[p]
           z == s.ll[c]
           l == s.lost
<1>1. At(s, c, p) /\ s = Put(s, c, p, x, y, z, l) /\ Fits(c, p, x, y, z) /\ p # NoProc
          /\ c # NoChan /\ ~l
  BY Names DEF Mine, At
<1>2. x \in Channel /\ y \in l3_process /\ z \in LinkLevel /\ x.proc = p /\ y.chan = c
          /\ x.st = "ACTIVE"
  BY <1>1 DEF Fits
<1> HIDE DEF x, y, z, l
<1>3. CASE y.st = 10 /\ y.timer = "none"
  <2>1. EvSuspend(s, c)
            = Put(s, c, p, x, L3St(Timer(y, "T319"), 15), z, l)
    BY <1>3, <1>1, <1>2, EvSuspendPut
  <2> DEFINE y1 == L3St(Timer(y, "T319"), 15)
  <2>2. /\ y1 \in l3_process /\ (y1.live <=> y.live) /\ y1.chan = y.chan /\ y1.st = 15
           /\ y1.timer = "T319"
    BY <1>3, <1>1, <1>2, L3StIs, TimerIs DEF L3States, L3Timers
  <2> HIDE DEF y1
  <2>3. Next1(c, p, x, y, z, x, y1, z)
    BY <1>3, <1>1, <1>2, <2>2
       DEF Next1, Kept, Fits, Over, Partners, PhasesOf, TimersOf, Order, Hung, Held, States,
           BStates, InStates, L3States, L3Timers, Phases
  <2> QED BY <1>1, <2>1, <2>3, Outcome DEF x, y, z, y1
<1>4. CASE y.st = 10 /\ y.timer # "none"
  <2>1. EvSuspend(s, c)
            = Put(s, c, p, x, L3St(y, 15), z, l)
    BY <1>4, <1>1, <1>2, EvSuspendPut
  <2> DEFINE y1 == L3St(y, 15)
  <2>2. /\ y1 \in l3_process /\ (y1.live <=> y.live) /\ y1.chan = y.chan /\ y1.st = 15
           /\ y1.timer = y.timer
    BY <1>4, <1>1, <1>2, L3StIs DEF L3States, L3Timers
  <2> HIDE DEF y1
  <2>3. Next1(c, p, x, y, z, x, y1, z)
    BY <1>4, <1>1, <1>2, <2>2
       DEF Next1, Kept, Fits, Over, Partners, PhasesOf, TimersOf, Order, Hung, Held, States,
           BStates, InStates, L3States, L3Timers, Phases
  <2> QED BY <1>1, <2>1, <2>3, Outcome DEF x, y, z, y1
<1>5. CASE y.st = 15
  <2>1. EvSuspend(s, c)
            = Put(s, c, p, x, y, z, l)
    BY <1>5, <1>1, <1>2, EvSuspendPut
  <2>2. Next1(c, p, x, y, z, x, y, z)
    BY <1>5, <1>1, <1>2
       DEF Next1, Kept, Fits, Over, Partners, PhasesOf, TimersOf, Order, Hung, Held, States,
           BStates, InStates, L3States, L3Timers, Phases
  <2> QED BY <1>1, <2>1, <2>2, Outcome DEF x, y, z
<1> QED
  BY <1>1, <1>2, <1>3, <1>4, <1>5 DEF Fits, Partners, Channel, States, InStates, BStates

\* Layer 2 of the B channel is up: data may flow.
LEMMA BcEstStep ==
    ASSUME NEW s, NEW c, NEW p, Mine(s, c, p),
           s.ch[c].st = "WAIT_BCONN"
    PROVE  Result(s, c, p, EvBcEst(s, c))
<1> DEFINE x == s.ch[c]
           y == s.pr[p]
           z == s.ll[c]
           l == s.lost
<1>1. At(s, c, p) /\ s = Put(s, c, p, x, y, z, l) /\ Fits(c, p, x, y, z) /\ p # NoProc
          /\ c # NoChan /\ ~l
  BY Names DEF Mine, At
<1>2. x \in Channel /\ y \in l3_process /\ z \in LinkLevel /\ x.proc = p /\ y.chan = c
          /\ x.st = "WAIT_BCONN"
  BY <1>1 DEF Fits
<1> HIDE DEF x, y, z, l
<1>3. CASE TRUE
  <2>1. EvBcEst(s, c)
            = Put(s, c, p, Opened(St(x, "ACTIVE")), y, Phase(z, "data"), l)
    BY <1>3, <1>1, <1>2, lli_go_activePut DEF EvBcEst, In
  <2> DEFINE x1 == Opened(St(x, "ACTIVE"))
             z1 == Phase(z, "data")
  <2>2. /\ x1 \in Channel /\ x1.proc = x.proc /\ x1.st = "ACTIVE" /\ (x1.start_b <=> x.start_b)
           /\ x1.data_open
        /\ z1 \in LinkLevel /\ z1.phase = "data" /\ (z1.hup <=> z.hup)
    BY <1>3, <1>1, <1>2, StIs, OpenedIs, PhaseIs DEF States, BStates, InStates, Phases
  <2> HIDE DEF x1, z1
  <2>3. Next1(c, p, x, y, z, x1, y, z1)
    BY <1>3, <1>1, <1>2, <2>2
       DEF Next1, Kept, Fits, Over, Partners, PhasesOf, TimersOf, Order, Hung, Held, States,
           BStates, InStates, L3States, L3Timers, Phases
  <2> QED BY <1>1, <2>1, <2>3, Outcome DEF x, y, z, x1, z1
<1> QED
  BY <1>1, <1>2, <1>3 DEF Fits, Partners, Channel, States, InStates, BStates

\* Layer 2 of the B channel is down, whoever wanted that.
LEMMA BcRelStep ==
    ASSUME NEW s, NEW c, NEW p, Mine(s, c, p),
           s.ch[c].start_b
    PROVE  Result(s, c, p, EvBcRel(s, c))
<1> DEFINE x == s.ch[c]
           y == s.pr[p]
           z == s.ll[c]
           l == s.lost
<1>1. At(s, c, p) /\ s = Put(s, c, p, x, y, z, l) /\ Fits(c, p, x, y, z) /\ p # NoProc
          /\ c # NoChan /\ ~l
  BY Names DEF Mine, At
<1>2. x \in Channel /\ y \in l3_process /\ z \in LinkLevel /\ x.proc = p /\ y.chan = c
          /\ x.start_b
  BY <1>1 DEF Fits
<1> HIDE DEF x, y, z, l
<1>3. CASE x.st = "WAIT_BCONN"
  <2>1. EvBcRel(s, c)
            = Put(s, c, p, St(BOff(x), "WAIT_DRELEASE"), Go(y, 11, "T305"), z, l)
    BY <1>3, <1>1, <1>2, EvBcRelPut DEF Fits, Partners
  <2> DEFINE x1 == St(BOff(x), "WAIT_DRELEASE")
             y1 == Go(y, 11, "T305")
  <2>2. /\ x1 \in Channel /\ x1.proc = x.proc /\ x1.st = "WAIT_DRELEASE" /\ ~x1.start_b
           /\ (x1.data_open <=> x.data_open)
        /\ y1 \in l3_process /\ (y1.live <=> y.live) /\ y1.chan = y.chan /\ y1.st = 11
           /\ y1.timer = "T305"
    BY <1>3, <1>1, <1>2, StIs, BOffIs, Go11T305 DEF States, BStates, InStates
  <2> HIDE DEF x1, y1
  <2>3. Next1(c, p, x, y, z, x1, y1, z)
    BY <1>3, <1>1, <1>2, <2>2
       DEF Next1, Kept, Fits, Over, Partners, PhasesOf, TimersOf, Order, Hung, Held, States,
           BStates, InStates, L3States, L3Timers, Phases
  <2> QED BY <1>1, <2>1, <2>3, Outcome DEF x, y, z, x1, y1
<1>4. CASE x.st = "ACTIVE"
  <2>1. EvBcRel(s, c)
            = Put(s, c, p, BOff(Shut(St(x, "WAIT_DCOMMAND"))), y, Phase(z, "half"), l)
    BY <1>4, <1>1, <1>2, EvBcRelPut
  <2> DEFINE x1 == BOff(Shut(St(x, "WAIT_DCOMMAND")))
             z1 == Phase(z, "half")
  <2>2. /\ x1 \in Channel /\ x1.proc = x.proc /\ x1.st = "WAIT_DCOMMAND" /\ ~x1.start_b
           /\ ~x1.data_open
        /\ z1 \in LinkLevel /\ z1.phase = "half" /\ (z1.hup <=> z.hup)
    BY <1>4, <1>1, <1>2, StIs, BOffIs, ShutIs, PhaseIs DEF States, BStates, InStates, Phases
  <2> HIDE DEF x1, z1
  <2>3. Next1(c, p, x, y, z, x1, y, z1)
    BY <1>4, <1>1, <1>2, <2>2
       DEF Next1, Kept, Fits, Over, Partners, PhasesOf, TimersOf, Order, Hung, Held, States,
           BStates, InStates, L3States, L3Timers, Phases
  <2> QED BY <1>1, <2>1, <2>3, Outcome DEF x, y, z, x1, z1
<1>5. CASE x.st = "WAIT_BRELEASE" /\ y.st = 10
  <2>1. EvBcRel(s, c)
            = Put(s, c, p, St(BOff(x), "WAIT_DRELEASE"), Go(y, 11, "T305"), Phase(z, "half"), l)
    BY <1>5, <1>1, <1>2, EvBcRelPut
  <2> DEFINE x1 == St(BOff(x), "WAIT_DRELEASE")
             y1 == Go(y, 11, "T305")
             z1 == Phase(z, "half")
  <2>2. /\ x1 \in Channel /\ x1.proc = x.proc /\ x1.st = "WAIT_DRELEASE" /\ ~x1.start_b
           /\ (x1.data_open <=> x.data_open)
        /\ y1 \in l3_process /\ (y1.live <=> y.live) /\ y1.chan = y.chan /\ y1.st = 11
           /\ y1.timer = "T305"
        /\ z1 \in LinkLevel /\ z1.phase = "half" /\ (z1.hup <=> z.hup)
    BY <1>5, <1>1, <1>2, StIs, BOffIs, PhaseIs, Go11T305 DEF States, BStates, InStates, Phases
  <2> HIDE DEF x1, y1, z1
  <2>3. Next1(c, p, x, y, z, x1, y1, z1)
    BY <1>5, <1>1, <1>2, <2>2
       DEF Next1, Kept, Fits, Over, Partners, PhasesOf, TimersOf, Order, Hung, Held, States,
           BStates, InStates, L3States, L3Timers, Phases
  <2> QED BY <1>1, <2>1, <2>3, Outcome DEF x, y, z, x1, y1, z1
<1>6. CASE x.st = "WAIT_BRELEASE" /\ y.st = 15
  <2>1. EvBcRel(s, c)
            = Put(s, c, p, St(BOff(x), "WAIT_DRELEASE"), y, Phase(z, "half"), l)
    BY <1>6, <1>1, <1>2, EvBcRelPut
  <2> DEFINE x1 == St(BOff(x), "WAIT_DRELEASE")
             z1 == Phase(z, "half")
  <2>2. /\ x1 \in Channel /\ x1.proc = x.proc /\ x1.st = "WAIT_DRELEASE" /\ ~x1.start_b
           /\ (x1.data_open <=> x.data_open)
        /\ z1 \in LinkLevel /\ z1.phase = "half" /\ (z1.hup <=> z.hup)
    BY <1>6, <1>1, <1>2, StIs, BOffIs, PhaseIs DEF States, BStates, InStates, Phases
  <2> HIDE DEF x1, z1
  <2>3. Next1(c, p, x, y, z, x1, y, z1)
    BY <1>6, <1>1, <1>2, <2>2
       DEF Next1, Kept, Fits, Over, Partners, PhasesOf, TimersOf, Order, Hung, Held, States,
           BStates, InStates, L3States, L3Timers, Phases
  <2> QED BY <1>1, <2>1, <2>3, Outcome DEF x, y, z, x1, z1
<1>7. CASE x.st = "WAIT_BREL_DISC" /\ y.st = 12
  <2>1. EvBcRel(s, c)
            = Put(s, c, p, St(BOff(x), "WAIT_D_REL_CNF"), Go(y, 19, "T308_1"), Phase(z,
                    "half"), l)
    BY <1>7, <1>1, <1>2, EvBcRelPut
  <2> DEFINE x1 == St(BOff(x), "WAIT_D_REL_CNF")
             y1 == Go(y, 19, "T308_1")
             z1 == Phase(z, "half")
  <2>2. /\ x1 \in Channel /\ x1.proc = x.proc /\ x1.st = "WAIT_D_REL_CNF" /\ ~x1.start_b
           /\ (x1.data_open <=> x.data_open)
        /\ y1 \in l3_process /\ (y1.live <=> y.live) /\ y1.chan = y.chan /\ y1.st = 19
           /\ y1.timer = "T308_1"
        /\ z1 \in LinkLevel /\ z1.phase = "half" /\ (z1.hup <=> z.hup)
    BY <1>7, <1>1, <1>2, StIs, BOffIs, PhaseIs, Go19T308_1 DEF States, BStates, InStates, Phases
  <2> HIDE DEF x1, y1, z1
  <2>3. Next1(c, p, x, y, z, x1, y1, z1)
    BY <1>7, <1>1, <1>2, <2>2
       DEF Next1, Kept, Fits, Over, Partners, PhasesOf, TimersOf, Order, Hung, Held, States,
           BStates, InStates, L3States, L3Timers, Phases
  <2> QED BY <1>1, <2>1, <2>3, Outcome DEF x, y, z, x1, y1, z1
<1>8. CASE x.st = "WAIT_BREL_DISC" /\ y.st = 19
  <2>1. EvBcRel(s, c)
            = Put(s, c, p, St(BOff(x), "WAIT_D_REL_CNF"), y, Phase(z, "half"), l)
    BY <1>8, <1>1, <1>2, EvBcRelPut
  <2> DEFINE x1 == St(BOff(x), "WAIT_D_REL_CNF")
             z1 == Phase(z, "half")
  <2>2. /\ x1 \in Channel /\ x1.proc = x.proc /\ x1.st = "WAIT_D_REL_CNF" /\ ~x1.start_b
           /\ (x1.data_open <=> x.data_open)
        /\ z1 \in LinkLevel /\ z1.phase = "half" /\ (z1.hup <=> z.hup)
    BY <1>8, <1>1, <1>2, StIs, BOffIs, PhaseIs DEF States, BStates, InStates, Phases
  <2> HIDE DEF x1, z1
  <2>3. Next1(c, p, x, y, z, x1, y, z1)
    BY <1>8, <1>1, <1>2, <2>2
       DEF Next1, Kept, Fits, Over, Partners, PhasesOf, TimersOf, Order, Hung, Held, States,
           BStates, InStates, L3States, L3Timers, Phases
  <2> QED BY <1>1, <2>1, <2>3, Outcome DEF x, y, z, x1, z1
<1> QED
  BY <1>1, <1>2, <1>3, <1>4, <1>5, <1>6, <1>7, <1>8
     DEF Fits, Partners, Channel, States, InStates, BStates

\* The dial timer is no matter of the call.
LEMMA LaterStep ==
    ASSUME NEW s, NEW c, NEW p, Mine(s, c, p), NEW w \in {"none", "DIAL", "RESUME"}
    PROVE  Result(s, c, p, SetDial(s, c, w))
<1> DEFINE x == s.ch[c]
           y == s.pr[p]
           z == s.ll[c]
           l == s.lost
<1>1. At(s, c, p) /\ s = Put(s, c, p, x, y, z, l) /\ Fits(c, p, x, y, z) /\ p # NoProc
          /\ c # NoChan /\ ~l
  BY Names DEF Mine, At
<1>2. x \in Channel /\ y \in l3_process /\ z \in LinkLevel /\ x.proc = p /\ y.chan = c
  BY <1>1 DEF Fits
<1> HIDE DEF x, y, z, l
<1>3. CASE TRUE
  <2>1. SetDial(s, c, w)
            = Put(s, c, p, Dial(x, w), y, z, l)
    BY <1>3, <1>1, <1>2, PutDial
  <2> DEFINE x1 == Dial(x, w)
  <2>2. /\ x1 \in Channel /\ x1.proc = x.proc /\ x1.st = x.st /\ (x1.start_b <=> x.start_b)
           /\ (x1.data_open <=> x.data_open)
    BY <1>3, <1>1, <1>2, DialIs DEF States, BStates, InStates
  <2> HIDE DEF x1
  <2>3. Next1(c, p, x, y, z, x1, y, z)
    BY <1>3, <1>1, <1>2, <2>2
       DEF Next1, Kept, Fits, Over, Partners, PhasesOf, TimersOf, Order, Hung, Held, States,
           BStates, InStates, L3States, L3Timers, Phases
  <2> QED BY <1>1, <2>1, <2>3, Outcome DEF x, y, z, x1
<1> QED
  BY <1>1, <1>2, <1>3 DEF Fits, Partners, Channel, States, InStates, BStates

-----------------------------------------------------------------------------
(* The messages of the network *)

\* The outgoing call proceeds: the state and its timer change together.
LEMMA CallProceedingStep ==
    ASSUME NEW s, NEW c, NEW p, Mine(s, c, p),
           s.pr[p].st \in {1, 2}
    PROVE  Result(s, c, p, Receive(s, p, "CALL_PROCEEDING"))
<1> DEFINE x == s.ch[c]
           y == s.pr[p]
           z == s.ll[c]
           l == s.lost
<1>1. At(s, c, p) /\ s = Put(s, c, p, x, y, z, l) /\ Fits(c, p, x, y, z) /\ p # NoProc
          /\ c # NoChan /\ ~l
  BY Names DEF Mine, At
<1>2. x \in Channel /\ y \in l3_process /\ z \in LinkLevel /\ x.proc = p /\ y.chan = c
          /\ y.st \in {1, 2}
  BY <1>1 DEF Fits
<1> HIDE DEF x, y, z, l
<1>3. CASE TRUE
  <2>1. Receive(s, p, "CALL_PROCEEDING")
            = Put(s, c, p, x, Go(y, 3, "T310"), z, l)
    BY <1>3, <1>1, <1>2, L3Put DEF Receive
  <2> DEFINE y1 == Go(y, 3, "T310")
  <2>2. /\ y1 \in l3_process /\ (y1.live <=> y.live) /\ y1.chan = y.chan /\ y1.st = 3
           /\ y1.timer = "T310"
    BY <1>3, <1>1, <1>2, Go3T310
  <2> HIDE DEF y1
  <2>3. Next1(c, p, x, y, z, x, y1, z)
    BY <1>3, <1>1, <1>2, <2>2
       DEF Next1, Kept, Fits, Over, Partners, PhasesOf, TimersOf, Order, Hung, Held, States,
           BStates, InStates, L3States, L3Timers, Phases
  <2> QED BY <1>1, <2>1, <2>3, Outcome DEF x, y, z, y1
<1> QED
  BY <1>1, <1>2, <1>3 DEF Fits, Partners, Channel, States, InStates, BStates

\* Overlap dialling, with T304.
LEMMA SetupAcknowledgeStep ==
    ASSUME NEW s, NEW c, NEW p, Mine(s, c, p),
           s.pr[p].st = 1
    PROVE  Result(s, c, p, Receive(s, p, "SETUP_ACKNOWLEDGE"))
<1> DEFINE x == s.ch[c]
           y == s.pr[p]
           z == s.ll[c]
           l == s.lost
<1>1. At(s, c, p) /\ s = Put(s, c, p, x, y, z, l) /\ Fits(c, p, x, y, z) /\ p # NoProc
          /\ c # NoChan /\ ~l
  BY Names DEF Mine, At
<1>2. x \in Channel /\ y \in l3_process /\ z \in LinkLevel /\ x.proc = p /\ y.chan = c
          /\ y.st = 1
  BY <1>1 DEF Fits
<1> HIDE DEF x, y, z, l
<1>3. CASE TRUE
  <2>1. Receive(s, p, "SETUP_ACKNOWLEDGE")
            = Put(s, c, p, x, Go(y, 2, "T304"), z, l)
    BY <1>3, <1>1, <1>2, L3Put DEF Receive
  <2> DEFINE y1 == Go(y, 2, "T304")
  <2>2. /\ y1 \in l3_process /\ (y1.live <=> y.live) /\ y1.chan = y.chan /\ y1.st = 2
           /\ y1.timer = "T304"
    BY <1>3, <1>1, <1>2, Go2T304
  <2> HIDE DEF y1
  <2>3. Next1(c, p, x, y, z, x, y1, z)
    BY <1>3, <1>1, <1>2, <2>2
       DEF Next1, Kept, Fits, Over, Partners, PhasesOf, TimersOf, Order, Hung, Held, States,
           BStates, InStates, L3States, L3Timers, Phases
  <2> QED BY <1>1, <2>1, <2>3, Outcome DEF x, y, z, y1
<1> QED
  BY <1>1, <1>2, <1>3 DEF Fits, Partners, Channel, States, InStates, BStates

\* It rings at the other end: no timer waits any longer.
LEMMA AlertingStep ==
    ASSUME NEW s, NEW c, NEW p, Mine(s, c, p),
           s.pr[p].st \in {2, 3}
    PROVE  Result(s, c, p, Receive(s, p, "ALERTING"))
<1> DEFINE x == s.ch[c]
           y == s.pr[p]
           z == s.ll[c]
           l == s.lost
<1>1. At(s, c, p) /\ s = Put(s, c, p, x, y, z, l) /\ Fits(c, p, x, y, z) /\ p # NoProc
          /\ c # NoChan /\ ~l
  BY Names DEF Mine, At
<1>2. x \in Channel /\ y \in l3_process /\ z \in LinkLevel /\ x.proc = p /\ y.chan = c
          /\ y.st \in {2, 3}
  BY <1>1 DEF Fits
<1> HIDE DEF x, y, z, l
<1>3. CASE TRUE
  <2>1. Receive(s, p, "ALERTING")
            = Put(s, c, p, x, Go(y, 4, "none"), z, l)
    BY <1>3, <1>1, <1>2, L3Put DEF Receive
  <2> DEFINE y1 == Go(y, 4, "none")
  <2>2. /\ y1 \in l3_process /\ (y1.live <=> y.live) /\ y1.chan = y.chan /\ y1.st = 4
           /\ y1.timer = "none"
    BY <1>3, <1>1, <1>2, Go4
  <2> HIDE DEF y1
  <2>3. Next1(c, p, x, y, z, x, y1, z)
    BY <1>3, <1>1, <1>2, <2>2
       DEF Next1, Kept, Fits, Over, Partners, PhasesOf, TimersOf, Order, Hung, Held, States,
           BStates, InStates, L3States, L3Timers, Phases
  <2> QED BY <1>1, <2>1, <2>3, Outcome DEF x, y, z, y1
<1> QED
  BY <1>1, <1>2, <1>3 DEF Fits, Partners, Channel, States, InStates, BStates

\* The other end answers.
LEMMA ConnectStep ==
    ASSUME NEW s, NEW c, NEW p, Mine(s, c, p),
           s.pr[p].st \in {1, 2, 3, 4}, s.env.bc \in BOOLEAN
    PROVE  Result(s, c, p, Receive(s, p, "CONNECT"))
<1> DEFINE x == s.ch[c]
           y == s.pr[p]
           z == s.ll[c]
           l == s.lost
<1>1. At(s, c, p) /\ s = Put(s, c, p, x, y, z, l) /\ Fits(c, p, x, y, z) /\ p # NoProc
          /\ c # NoChan /\ ~l
  BY Names DEF Mine, At
<1>2. x \in Channel /\ y \in l3_process /\ z \in LinkLevel /\ x.proc = p /\ y.chan = c
          /\ y.st \in {1, 2, 3, 4} /\ s.env.bc \in BOOLEAN
  BY <1>1 DEF Fits
<1> HIDE DEF x, y, z, l
<1>3. CASE x.st = "OUT_DIAL"
  <2>1. Receive(s, p, "CONNECT")
            = Put(s, c, p, BSet(St(x, "WAIT_BCONN"), s.env.bc), Go(y, 10, "none"), Phase(z,
                    "up"), l)
    BY <1>3, <1>1, <1>2, L3Put, PutIs, Go10, lli_init_bchanPut
       DEF Receive, l3dss1_connect, l3l4, EvSetupCnf, In
  <2> DEFINE x1 == BSet(St(x, "WAIT_BCONN"), s.env.bc)
             y1 == Go(y, 10, "none")
             z1 == Phase(z, "up")
  <2>2. /\ x1 \in Channel /\ x1.proc = x.proc /\ x1.st = "WAIT_BCONN"
           /\ (x1.data_open <=> x.data_open)
        /\ y1 \in l3_process /\ (y1.live <=> y.live) /\ y1.chan = y.chan /\ y1.st = 10
           /\ y1.timer = "none"
        /\ z1 \in LinkLevel /\ z1.phase = "up" /\ (z1.hup <=> z.hup)
    BY <1>3, <1>1, <1>2, StIs, BSetIs, PhaseIs, Go10 DEF States, BStates, InStates, Phases
  <2> HIDE DEF x1, y1, z1
  <2>3. Next1(c, p, x, y, z, x1, y1, z1)
    BY <1>3, <1>1, <1>2, <2>2
       DEF Next1, Kept, Fits, Over, Partners, PhasesOf, TimersOf, Order, Hung, Held, States,
           BStates, InStates, L3States, L3Timers, Phases
  <2> QED BY <1>1, <2>1, <2>3, Outcome DEF x, y, z, x1, y1, z1
<1> QED
  BY <1>1, <1>2, <1>3 DEF Fits, Partners, Channel, States, InStates, BStates

\* The network confirms the answer to an incoming call.
LEMMA ConnectAcknowledgeStep ==
    ASSUME NEW s, NEW c, NEW p, Mine(s, c, p),
           s.pr[p].st = 8, s.env.bc \in BOOLEAN
    PROVE  Result(s, c, p, Receive(s, p, "CONNECT_ACKNOWLEDGE"))
<1> DEFINE x == s.ch[c]
           y == s.pr[p]
           z == s.ll[c]
           l == s.lost
<1>1. At(s, c, p) /\ s = Put(s, c, p, x, y, z, l) /\ Fits(c, p, x, y, z) /\ p # NoProc
          /\ c # NoChan /\ ~l
  BY Names DEF Mine, At
<1>2. x \in Channel /\ y \in l3_process /\ z \in LinkLevel /\ x.proc = p /\ y.chan = c
          /\ y.st = 8 /\ s.env.bc \in BOOLEAN
  BY <1>1 DEF Fits
<1> HIDE DEF x, y, z, l
<1>3. CASE x.st \in {"ALERT_SENT", "WAIT_CONN_ACK"}
  <2>1. Receive(s, p, "CONNECT_ACKNOWLEDGE")
            = Put(s, c, p, BSet(St(x, "WAIT_BCONN"), s.env.bc), Go(y, 10, "none"), Phase(z,
                    "up"), l)
    BY <1>3, <1>1, <1>2, L3Put, PutIs, Go10, lli_init_bchanPut
       DEF Receive, l3l4, EvSetupCmplInd, In
  <2> DEFINE x1 == BSet(St(x, "WAIT_BCONN"), s.env.bc)
             y1 == Go(y, 10, "none")
             z1 == Phase(z, "up")
  <2>2. /\ x1 \in Channel /\ x1.proc = x.proc /\ x1.st = "WAIT_BCONN"
           /\ (x1.data_open <=> x.data_open)
        /\ y1 \in l3_process /\ (y1.live <=> y.live) /\ y1.chan = y.chan /\ y1.st = 10
           /\ y1.timer = "none"
        /\ z1 \in LinkLevel /\ z1.phase = "up" /\ (z1.hup <=> z.hup)
    BY <1>3, <1>1, <1>2, StIs, BSetIs, PhaseIs, Go10 DEF States, BStates, InStates, Phases
  <2> HIDE DEF x1, y1, z1
  <2>3. Next1(c, p, x, y, z, x1, y1, z1)
    BY <1>3, <1>1, <1>2, <2>2
       DEF Next1, Kept, Fits, Over, Partners, PhasesOf, TimersOf, Order, Hung, Held, States,
           BStates, InStates, L3States, L3Timers, Phases
  <2> QED BY <1>1, <2>1, <2>3, Outcome DEF x, y, z, x1, y1, z1
<1> QED
  BY <1>1, <1>2, <1>3 DEF Fits, Partners, Channel, States, InStates, BStates

\* DISCONNECT in each state: the channel is told unless this end cleared first.
LEMMA DisconnectStep ==
    ASSUME NEW s, NEW c, NEW p, Mine(s, c, p),
           s.pr[p].st \in {1, 2, 3, 4, 7, 8, 9, 10, 11, 15, 17, 25}
    PROVE  Result(s, c, p, Receive(s, p, "DISCONNECT"))
<1> DEFINE x == s.ch[c]
           y == s.pr[p]
           z == s.ll[c]
           l == s.lost
<1>1. At(s, c, p) /\ s = Put(s, c, p, x, y, z, l) /\ Fits(c, p, x, y, z) /\ p # NoProc
          /\ c # NoChan /\ ~l
  BY Names DEF Mine, At
<1>2. x \in Channel /\ y \in l3_process /\ z \in LinkLevel /\ x.proc = p /\ y.chan = c
          /\ y.st \in {1, 2, 3, 4, 7, 8, 9, 10, 11, 15, 17, 25}
  BY <1>1 DEF Fits
<1> HIDE DEF x, y, z, l
<1> DEFINE u == Go(y, 12, "none")
<1>3. u \in l3_process /\ u.st = 12 /\ u.timer = "none" /\ u.chan = c /\ (u.live <=> y.live)
      /\ (u.bchannel <=> y.bchannel)
  BY <1>1, <1>2, Go12
<1>4. Receive(s, p, "DISCONNECT")
          = IF y.st # 11 THEN EvDisconnectInd(Put(s, c, p, x, u, z, l), c)
            ELSE Put(s, c, p, x, Go(u, 19, "T308_1"), z, l)
  BY <1>1, <1>2, <1>3, DisconnectPut
<1> HIDE DEF u
<1>5. CASE y.st = 11
  <2>1. Receive(s, p, "DISCONNECT")
            = Put(s, c, p, x, Go(u, 19, "T308_1"), z, l)
    BY <1>5, <1>1, <1>2, <1>3, <1>4
  <2> DEFINE y1 == Go(u, 19, "T308_1")
  <2>2. /\ y1 \in l3_process /\ (y1.live <=> u.live) /\ y1.chan = u.chan /\ y1.st = 19
           /\ y1.timer = "T308_1"
    BY <1>5, <1>1, <1>2, <1>3, Go19T308_1
  <2> HIDE DEF y1
  <2>3. Next1(c, p, x, y, z, x, y1, z)
    BY <1>5, <1>1, <1>2, <1>3, <2>2
       DEF Next1, Kept, Fits, Over, Partners, PhasesOf, TimersOf, Order, Hung, Held, States,
           BStates, InStates, L3States, L3Timers, Phases
  <2> QED BY <1>1, <2>1, <2>3, Outcome DEF x, y, z, y1
<1>6. CASE y.st # 11
               /\ x.st \in {"OUT_DIAL", "WAIT_LL", "ALERT_SENT", "WAIT_CONN_ACK",
               "WAIT_DCOMMAND"}
  <2>1. Receive(s, p, "DISCONNECT")
            = Put(s, c, p, St(x, "WAIT_D_REL_CNF"), Go(u, 19, "T308_1"), z, l)
    BY <1>6, <1>1, <1>2, <1>3, <1>4, PutIs, EvDisconnectIndPut
  <2> DEFINE x1 == St(x, "WAIT_D_REL_CNF")
             y1 == Go(u, 19, "T308_1")
  <2>2. /\ x1 \in Channel /\ x1.proc = x.proc /\ x1.st = "WAIT_D_REL_CNF"
           /\ (x1.start_b <=> x.start_b) /\ (x1.data_open <=> x.data_open)
        /\ y1 \in l3_process /\ (y1.live <=> u.live) /\ y1.chan = u.chan /\ y1.st = 19
           /\ y1.timer = "T308_1"
    BY <1>6, <1>1, <1>2, <1>3, StIs, Go19T308_1 DEF States, BStates, InStates
  <2> HIDE DEF x1, y1
  <2>3. Next1(c, p, x, y, z, x1, y1, z)
    BY <1>6, <1>1, <1>2, <1>3, <2>2
       DEF Next1, Kept, Fits, Over, Partners, PhasesOf, TimersOf, Order, Hung, Held, States,
           BStates, InStates, L3States, L3Timers, Phases
  <2> QED BY <1>1, <2>1, <2>3, Outcome DEF x, y, z, x1, y1
<1>7. CASE y.st # 11 /\ x.st = "PROCEED_SEND"
  <2>1. Receive(s, p, "DISCONNECT")
            = Put(s, c, p, Closed(x), u, NoCall, Yes)
    BY <1>7, <1>1, <1>2, <1>3, <1>4, PutIs, EvDisconnectIndPut DEF Fits, PhasesOf
  <2> QED BY <1>1, <2>1, NoOutcome
<1>8. CASE y.st # 11 /\ x.st = "WAIT_BCONN"
  <2>1. Receive(s, p, "DISCONNECT")
            = Put(s, c, p, St(BOff(x), "WAIT_D_REL_CNF"), Go(u, 19, "T308_1"), z, l)
    BY <1>8, <1>1, <1>2, <1>3, <1>4, PutIs, EvDisconnectIndPut
  <2> DEFINE x1 == St(BOff(x), "WAIT_D_REL_CNF")
             y1 == Go(u, 19, "T308_1")
  <2>2. /\ x1 \in Channel /\ x1.proc = x.proc /\ x1.st = "WAIT_D_REL_CNF" /\ ~x1.start_b
           /\ (x1.data_open <=> x.data_open)
        /\ y1 \in l3_process /\ (y1.live <=> u.live) /\ y1.chan = u.chan /\ y1.st = 19
           /\ y1.timer = "T308_1"
    BY <1>8, <1>1, <1>2, <1>3, StIs, BOffIs, Go19T308_1 DEF States, BStates, InStates
  <2> HIDE DEF x1, y1
  <2>3. Next1(c, p, x, y, z, x1, y1, z)
    BY <1>8, <1>1, <1>2, <1>3, <2>2
       DEF Next1, Kept, Fits, Over, Partners, PhasesOf, TimersOf, Order, Hung, Held, States,
           BStates, InStates, L3States, L3Timers, Phases
  <2> QED BY <1>1, <2>1, <2>3, Outcome DEF x, y, z, x1, y1
<1>9. CASE y.st # 11 /\ x.st = "ACTIVE"
  <2>1. Receive(s, p, "DISCONNECT")
            = Put(s, c, p, Shut(St(x, "WAIT_BREL_DISC")), u, z, l)
    BY <1>9, <1>1, <1>2, <1>3, <1>4, PutIs, EvDisconnectIndPut
  <2> DEFINE x1 == Shut(St(x, "WAIT_BREL_DISC"))
  <2>2. /\ x1 \in Channel /\ x1.proc = x.proc /\ x1.st = "WAIT_BREL_DISC"
           /\ (x1.start_b <=> x.start_b) /\ ~x1.data_open
    BY <1>9, <1>1, <1>2, <1>3, StIs, ShutIs DEF States, BStates, InStates
  <2> HIDE DEF x1
  <2>3. Next1(c, p, x, y, z, x1, u, z)
    BY <1>9, <1>1, <1>2, <1>3, <2>2
       DEF Next1, Kept, Fits, Over, Partners, PhasesOf, TimersOf, Order, Hung, Held, States,
           BStates, InStates, L3States, L3Timers, Phases
  <2> QED BY <1>1, <2>1, <2>3, Outcome DEF x, y, z, x1
<1>10. CASE y.st # 11 /\ x.st = "WAIT_BRELEASE"
  <2>1. Receive(s, p, "DISCONNECT")
            = Put(s, c, p, St(BOff(x), "WAIT_D_REL_CNF"), Go(u, 19, "T308_1"), Phase(z,
                    "half"), l)
    BY <1>10, <1>1, <1>2, <1>3, <1>4, PutIs, EvDisconnectIndPut
  <2> DEFINE x1 == St(BOff(x), "WAIT_D_REL_CNF")
             y1 == Go(u, 19, "T308_1")
             z1 == Phase(z, "half")
  <2>2. /\ x1 \in Channel /\ x1.proc = x.proc /\ x1.st = "WAIT_D_REL_CNF" /\ ~x1.start_b
           /\ (x1.data_open <=> x.data_open)
        /\ y1 \in l3_process /\ (y1.live <=> u.live) /\ y1.chan = u.chan /\ y1.st = 19
           /\ y1.timer = "T308_1"
        /\ z1 \in LinkLevel /\ z1.phase = "half" /\ (z1.hup <=> z.hup)
    BY <1>10, <1>1, <1>2, <1>3, StIs, BOffIs, PhaseIs, Go19T308_1
       DEF States, BStates, InStates, Phases
  <2> HIDE DEF x1, y1, z1
  <2>3. Next1(c, p, x, y, z, x1, y1, z1)
    BY <1>10, <1>1, <1>2, <1>3, <2>2
       DEF Next1, Kept, Fits, Over, Partners, PhasesOf, TimersOf, Order, Hung, Held, States,
           BStates, InStates, L3States, L3Timers, Phases
  <2> QED BY <1>1, <2>1, <2>3, Outcome DEF x, y, z, x1, y1, z1
<1>11. CASE y.st # 11 /\ x.st = "WAIT_DRELEASE"
  <2>1. Receive(s, p, "DISCONNECT")
            = Put(s, c, p, x, u, z, l)
    BY <1>11, <1>1, <1>2, <1>3, <1>4, PutIs, EvDisconnectIndPut
  <2>2. Next1(c, p, x, y, z, x, u, z)
    BY <1>11, <1>1, <1>2, <1>3
       DEF Next1, Kept, Fits, Over, Partners, PhasesOf, TimersOf, Order, Hung, Held, States,
           BStates, InStates, L3States, L3Timers, Phases
  <2> QED BY <1>1, <2>1, <2>2, Outcome DEF x, y, z
<1> QED
  BY <1>1, <1>2, <1>5, <1>6, <1>7, <1>8, <1>9, <1>10, <1>11
     DEF Fits, Partners, Channel, States, InStates, BStates

\* A faulty DISCONNECT is answered with RELEASE before the channel says anything.
LEMMA FaultyStep ==
    ASSUME NEW s, NEW c, NEW p, Mine(s, c, p),
           s.pr[p].st \in {1, 2, 3, 4, 7, 8, 9, 10, 11, 15, 17, 25}
    PROVE  Result(s, c, p, Receive(s, p, "DISCONNECT_faulty"))
<1> DEFINE x == s.ch[c]
           y == s.pr[p]
           z == s.ll[c]
           l == s.lost
<1>1. At(s, c, p) /\ s = Put(s, c, p, x, y, z, l) /\ Fits(c, p, x, y, z) /\ p # NoProc
          /\ c # NoChan /\ ~l
  BY Names DEF Mine, At
<1>2. x \in Channel /\ y \in l3_process /\ z \in LinkLevel /\ x.proc = p /\ y.chan = c
          /\ y.st \in {1, 2, 3, 4, 7, 8, 9, 10, 11, 15, 17, 25}
  BY <1>1 DEF Fits
<1> HIDE DEF x, y, z, l
<1> DEFINE u == Go(y, 19, "none")
<1>3. u \in l3_process /\ u.st = 19 /\ u.timer = "none" /\ u.chan = c /\ (u.live <=> y.live)
      /\ (u.bchannel <=> y.bchannel)
  BY <1>1, <1>2, Go19
<1>4. /\ y.st # 11 =>
             Receive(s, p, "DISCONNECT_faulty")
                 = L3AddTimer(EvDisconnectInd(Put(s, c, p, x, u, z, l), c), p, "T308_1")
      /\ y.st = 11 =>
             Receive(s, p, "DISCONNECT_faulty")
                   = L3AddTimer(Put(s, c, p, x, u, z, l), p, "T308_1")
  BY <1>1, <1>2, <1>3, FaultyPut
<1> HIDE DEF u
<1>5. CASE y.st = 11
  <2>1. Receive(s, p, "DISCONNECT_faulty")
            = Put(s, c, p, x, Timer(u, "T308_1"), z, l)
    BY <1>5, <1>1, <1>2, <1>3, <1>4, AddedPut
  <2> DEFINE y1 == Timer(u, "T308_1")
  <2>2. /\ y1 \in l3_process /\ (y1.live <=> u.live) /\ y1.chan = u.chan /\ y1.st = u.st
           /\ y1.timer = "T308_1"
    BY <1>5, <1>1, <1>2, <1>3, TimerIs DEF L3States, L3Timers
  <2> HIDE DEF y1
  <2>3. Next1(c, p, x, y, z, x, y1, z)
    BY <1>5, <1>1, <1>2, <1>3, <2>2
       DEF Next1, Kept, Fits, Over, Partners, PhasesOf, TimersOf, Order, Hung, Held, States,
           BStates, InStates, L3States, L3Timers, Phases
  <2> QED BY <1>1, <2>1, <2>3, Outcome DEF x, y, z, y1
<1>6. CASE y.st # 11
               /\ x.st \in {"OUT_DIAL", "WAIT_LL", "ALERT_SENT", "WAIT_CONN_ACK",
               "WAIT_DCOMMAND"}
  <2>0. EvDisconnectInd(Put(s, c, p, x, u, z, l), c)
            = Put(s, c, p, St(x, "WAIT_D_REL_CNF"), u, z, l)
    BY <1>6, <1>1, <1>2, <1>3, PutIs, EvDisconnectIndPut
  <2>1. Receive(s, p, "DISCONNECT_faulty")
            = Put(s, c, p, St(x, "WAIT_D_REL_CNF"), Timer(u, "T308_1"), z, l)
    BY <1>6, <1>1, <1>2, <1>3, <1>4, <2>0, AddedPut
  <2> DEFINE x1 == St(x, "WAIT_D_REL_CNF")
             y1 == Timer(u, "T308_1")
  <2>2. /\ x1 \in Channel /\ x1.proc = x.proc /\ x1.st = "WAIT_D_REL_CNF"
           /\ (x1.start_b <=> x.start_b) /\ (x1.data_open <=> x.data_open)
        /\ y1 \in l3_process /\ (y1.live <=> u.live) /\ y1.chan = u.chan /\ y1.st = u.st
           /\ y1.timer = "T308_1"
    BY <1>6, <1>1, <1>2, <1>3, StIs, TimerIs DEF States, BStates, InStates, L3States, L3Timers
  <2> HIDE DEF x1, y1
  <2>3. Next1(c, p, x, y, z, x1, y1, z)
    BY <1>6, <1>1, <1>2, <1>3, <2>2
       DEF Next1, Kept, Fits, Over, Partners, PhasesOf, TimersOf, Order, Hung, Held, States,
           BStates, InStates, L3States, L3Timers, Phases
  <2> QED BY <1>1, <2>1, <2>3, Outcome DEF x, y, z, x1, y1
<1>7. CASE y.st # 11 /\ x.st = "PROCEED_SEND"
  <2>0. EvDisconnectInd(Put(s, c, p, x, u, z, l), c)
            = Put(s, c, p, Closed(x), u, NoCall, Yes)
    BY <1>7, <1>1, <1>2, <1>3, PutIs, EvDisconnectIndPut DEF Fits, PhasesOf
  <2>1. Receive(s, p, "DISCONNECT_faulty")
            = Put(s, c, p, Closed(x), Timer(u, "T308_1"), NoCall, Yes)
    BY <1>7, <1>1, <1>2, <1>3, <1>4, <2>0, AddedPut
  <2> QED BY <1>1, <2>1, NoOutcome
<1>8. CASE y.st # 11 /\ x.st = "WAIT_BCONN"
  <2>0. EvDisconnectInd(Put(s, c, p, x, u, z, l), c)
            = Put(s, c, p, St(BOff(x), "WAIT_D_REL_CNF"), u, z, l)
    BY <1>8, <1>1, <1>2, <1>3, PutIs, EvDisconnectIndPut
  <2>1. Receive(s, p, "DISCONNECT_faulty")
            = Put(s, c, p, St(BOff(x), "WAIT_D_REL_CNF"), Timer(u, "T308_1"), z, l)
    BY <1>8, <1>1, <1>2, <1>3, <1>4, <2>0, AddedPut
  <2> DEFINE x1 == St(BOff(x), "WAIT_D_REL_CNF")
             y1 == Timer(u, "T308_1")
  <2>2. /\ x1 \in Channel /\ x1.proc = x.proc /\ x1.st = "WAIT_D_REL_CNF" /\ ~x1.start_b
           /\ (x1.data_open <=> x.data_open)
        /\ y1 \in l3_process /\ (y1.live <=> u.live) /\ y1.chan = u.chan /\ y1.st = u.st
           /\ y1.timer = "T308_1"
    BY <1>8, <1>1, <1>2, <1>3, StIs, BOffIs, TimerIs
       DEF States, BStates, InStates, L3States, L3Timers
  <2> HIDE DEF x1, y1
  <2>3. Next1(c, p, x, y, z, x1, y1, z)
    BY <1>8, <1>1, <1>2, <1>3, <2>2
       DEF Next1, Kept, Fits, Over, Partners, PhasesOf, TimersOf, Order, Hung, Held, States,
           BStates, InStates, L3States, L3Timers, Phases
  <2> QED BY <1>1, <2>1, <2>3, Outcome DEF x, y, z, x1, y1
<1>9. CASE y.st # 11 /\ x.st = "ACTIVE"
  <2>0. EvDisconnectInd(Put(s, c, p, x, u, z, l), c)
            = Put(s, c, p, Shut(St(x, "WAIT_BREL_DISC")), u, z, l)
    BY <1>9, <1>1, <1>2, <1>3, PutIs, EvDisconnectIndPut
  <2>1. Receive(s, p, "DISCONNECT_faulty")
            = Put(s, c, p, Shut(St(x, "WAIT_BREL_DISC")), Timer(u, "T308_1"), z, l)
    BY <1>9, <1>1, <1>2, <1>3, <1>4, <2>0, AddedPut
  <2> DEFINE x1 == Shut(St(x, "WAIT_BREL_DISC"))
             y1 == Timer(u, "T308_1")
  <2>2. /\ x1 \in Channel /\ x1.proc = x.proc /\ x1.st = "WAIT_BREL_DISC"
           /\ (x1.start_b <=> x.start_b) /\ ~x1.data_open
        /\ y1 \in l3_process /\ (y1.live <=> u.live) /\ y1.chan = u.chan /\ y1.st = u.st
           /\ y1.timer = "T308_1"
    BY <1>9, <1>1, <1>2, <1>3, StIs, ShutIs, TimerIs
       DEF States, BStates, InStates, L3States, L3Timers
  <2> HIDE DEF x1, y1
  <2>3. Next1(c, p, x, y, z, x1, y1, z)
    BY <1>9, <1>1, <1>2, <1>3, <2>2
       DEF Next1, Kept, Fits, Over, Partners, PhasesOf, TimersOf, Order, Hung, Held, States,
           BStates, InStates, L3States, L3Timers, Phases
  <2> QED BY <1>1, <2>1, <2>3, Outcome DEF x, y, z, x1, y1
<1>10. CASE y.st # 11 /\ x.st = "WAIT_BRELEASE"
  <2>0. EvDisconnectInd(Put(s, c, p, x, u, z, l), c)
            = Put(s, c, p, St(BOff(x), "WAIT_D_REL_CNF"), u, Phase(z, "half"), l)
    BY <1>10, <1>1, <1>2, <1>3, PutIs, EvDisconnectIndPut
  <2>1. Receive(s, p, "DISCONNECT_faulty")
            = Put(s, c, p, St(BOff(x), "WAIT_D_REL_CNF"), Timer(u, "T308_1"), Phase(z, "half"),
                    l)
    BY <1>10, <1>1, <1>2, <1>3, <1>4, <2>0, AddedPut
  <2> DEFINE x1 == St(BOff(x), "WAIT_D_REL_CNF")
             y1 == Timer(u, "T308_1")
             z1 == Phase(z, "half")
  <2>2. /\ x1 \in Channel /\ x1.proc = x.proc /\ x1.st = "WAIT_D_REL_CNF" /\ ~x1.start_b
           /\ (x1.data_open <=> x.data_open)
        /\ y1 \in l3_process /\ (y1.live <=> u.live) /\ y1.chan = u.chan /\ y1.st = u.st
           /\ y1.timer = "T308_1"
        /\ z1 \in LinkLevel /\ z1.phase = "half" /\ (z1.hup <=> z.hup)
    BY <1>10, <1>1, <1>2, <1>3, StIs, BOffIs, TimerIs, PhaseIs
       DEF States, BStates, InStates, L3States, L3Timers, Phases
  <2> HIDE DEF x1, y1, z1
  <2>3. Next1(c, p, x, y, z, x1, y1, z1)
    BY <1>10, <1>1, <1>2, <1>3, <2>2
       DEF Next1, Kept, Fits, Over, Partners, PhasesOf, TimersOf, Order, Hung, Held, States,
           BStates, InStates, L3States, L3Timers, Phases
  <2> QED BY <1>1, <2>1, <2>3, Outcome DEF x, y, z, x1, y1, z1
<1>11. CASE y.st # 11 /\ x.st = "WAIT_DRELEASE"
  <2>0. EvDisconnectInd(Put(s, c, p, x, u, z, l), c)
            = Put(s, c, p, x, u, z, l)
    BY <1>11, <1>1, <1>2, <1>3, PutIs, EvDisconnectIndPut
  <2>1. Receive(s, p, "DISCONNECT_faulty")
            = Put(s, c, p, x, Timer(u, "T308_1"), z, l)
    BY <1>11, <1>1, <1>2, <1>3, <1>4, <2>0, AddedPut
  <2> DEFINE y1 == Timer(u, "T308_1")
  <2>2. /\ y1 \in l3_process /\ (y1.live <=> u.live) /\ y1.chan = u.chan /\ y1.st = u.st
           /\ y1.timer = "T308_1"
    BY <1>11, <1>1, <1>2, <1>3, TimerIs DEF L3States, L3Timers
  <2> HIDE DEF y1
  <2>3. Next1(c, p, x, y, z, x, y1, z)
    BY <1>11, <1>1, <1>2, <1>3, <2>2
       DEF Next1, Kept, Fits, Over, Partners, PhasesOf, TimersOf, Order, Hung, Held, States,
           BStates, InStates, L3States, L3Timers, Phases
  <2> QED BY <1>1, <2>1, <2>3, Outcome DEF x, y, z, y1
<1> QED
  BY <1>1, <1>2, <1>5, <1>6, <1>7, <1>8, <1>9, <1>10, <1>11
     DEF Fits, Partners, Channel, States, InStates, BStates

\* The call goes on.
LEMMA SuspendRejectStep ==
    ASSUME NEW s, NEW c, NEW p, Mine(s, c, p),
           s.pr[p].st = 15
    PROVE  Result(s, c, p, Receive(s, p, "SUSPEND_REJECT"))
<1> DEFINE x == s.ch[c]
           y == s.pr[p]
           z == s.ll[c]
           l == s.lost
<1>1. At(s, c, p) /\ s = Put(s, c, p, x, y, z, l) /\ Fits(c, p, x, y, z) /\ p # NoProc
          /\ c # NoChan /\ ~l
  BY Names DEF Mine, At
<1>2. x \in Channel /\ y \in l3_process /\ z \in LinkLevel /\ x.proc = p /\ y.chan = c
          /\ y.st = 15
  BY <1>1 DEF Fits
<1> HIDE DEF x, y, z, l
<1>3. CASE TRUE
  <2>1. Receive(s, p, "SUSPEND_REJECT")
            = Put(s, c, p, x, Go(y, 10, "none"), z, l)
    BY <1>3, <1>1, <1>2, L3Put DEF Receive
  <2> DEFINE y1 == Go(y, 10, "none")
  <2>2. /\ y1 \in l3_process /\ (y1.live <=> y.live) /\ y1.chan = y.chan /\ y1.st = 10
           /\ y1.timer = "none"
    BY <1>3, <1>1, <1>2, Go10
  <2> HIDE DEF y1
  <2>3. Next1(c, p, x, y, z, x, y1, z)
    BY <1>3, <1>1, <1>2, <2>2
       DEF Next1, Kept, Fits, Over, Partners, PhasesOf, TimersOf, Order, Hung, Held, States,
           BStates, InStates, L3States, L3Timers, Phases
  <2> QED BY <1>1, <2>1, <2>3, Outcome DEF x, y, z, y1
<1> QED
  BY <1>1, <1>2, <1>3 DEF Fits, Partners, Channel, States, InStates, BStates

\* Whatever ends the process ends the call, in each state of the channel.
LEMMA ReleaseStep ==
    ASSUME NEW s, NEW c, NEW p, Mine(s, c, p)
    PROVE  Result(s, c, p, EndWith(s, p, EvRelease))
<1> DEFINE x == s.ch[c]
           y == s.pr[p]
           z == s.ll[c]
           l == s.lost
<1>1. At(s, c, p) /\ s = Put(s, c, p, x, y, z, l) /\ Fits(c, p, x, y, z) /\ p # NoProc
          /\ c # NoChan /\ ~l
  BY Names DEF Mine, At
<1>2. x \in Channel /\ y \in l3_process /\ z \in LinkLevel /\ x.proc = p /\ y.chan = c
  BY <1>1 DEF Fits
<1> HIDE DEF x, y, z, l
<1>3. CASE x.st \in {"OUT_DIAL", "WAIT_LL", "ALERT_SENT", "WAIT_CONN_ACK", "WAIT_DCOMMAND",
                   "WAIT_DRELEASE", "WAIT_D_REL_CNF"}
  <2>1. EndWith(s, p, EvRelease)
            = Put(s, c, p, Closed(x), Gone(y), NoCall, l)
    BY <1>3, <1>1, <1>2, release_l3_processPut, EvReleasePut, PutIs
       DEF EndWith, l3l4, Fits, PhasesOf
  <2> DEFINE x1 == Closed(x)
             y1 == Gone(y)
             z1 == NoCall
  <2>2. /\ x1 \in Channel /\ x1.proc = x.proc /\ x1.st = "NULL" /\ ~x1.start_b
           /\ (x1.data_open <=> x.data_open)
        /\ y1 \in l3_process /\ ~y1.live /\ y1.chan = NoChan
        /\ z1 \in LinkLevel /\ z1.phase = "null" /\ ~z1.hup
    BY <1>3, <1>1, <1>2, GoneIs, ClosedIs
       DEF States, BStates, InStates, L3States, L3Timers, Phases, NoCall, LinkLevel
  <2> HIDE DEF x1, y1, z1
  <2>3. Next1(c, p, x, y, z, x1, y1, z1)
    BY <1>3, <1>1, <1>2, <2>2
       DEF Next1, Kept, Fits, Over, Partners, PhasesOf, TimersOf, Order, Hung, Held, States,
           BStates, InStates, L3States, L3Timers, Phases
  <2> QED BY <1>1, <2>1, <2>3, Outcome DEF x, y, z, x1, y1, z1
<1>4. CASE x.st = "WAIT_BCONN"
  <2>1. EndWith(s, p, EvRelease)
            = Put(s, c, p, Closed(BOff(x)), Gone(y), NoCall, l)
    BY <1>4, <1>1, <1>2, release_l3_processPut, EvReleasePut, PutIs
       DEF EndWith, l3l4, Fits, PhasesOf
  <2> DEFINE x1 == Closed(BOff(x))
             y1 == Gone(y)
             z1 == NoCall
  <2>2. /\ x1 \in Channel /\ x1.proc = x.proc /\ x1.st = "NULL" /\ ~x1.start_b
           /\ (x1.data_open <=> x.data_open)
        /\ y1 \in l3_process /\ ~y1.live /\ y1.chan = NoChan
        /\ z1 \in LinkLevel /\ z1.phase = "null" /\ ~z1.hup
    BY <1>4, <1>1, <1>2, BOffIs, GoneIs, ClosedIs
       DEF States, BStates, InStates, L3States, L3Timers, Phases, NoCall, LinkLevel
  <2> HIDE DEF x1, y1, z1
  <2>3. Next1(c, p, x, y, z, x1, y1, z1)
    BY <1>4, <1>1, <1>2, <2>2
       DEF Next1, Kept, Fits, Over, Partners, PhasesOf, TimersOf, Order, Hung, Held, States,
           BStates, InStates, L3States, L3Timers, Phases
  <2> QED BY <1>1, <2>1, <2>3, Outcome DEF x, y, z, x1, y1, z1
<1>5. CASE x.st = "ACTIVE"
  <2>1. EndWith(s, p, EvRelease)
            = Put(s, c, p, Closed(BOff(Shut(x))), Gone(y), NoCall, l)
    BY <1>5, <1>1, <1>2, release_l3_processPut, EvReleasePut, PutIs DEF EndWith, l3l4
  <2> DEFINE x1 == Closed(BOff(Shut(x)))
             y1 == Gone(y)
             z1 == NoCall
  <2>2. /\ x1 \in Channel /\ x1.proc = x.proc /\ x1.st = "NULL" /\ ~x1.start_b /\ ~x1.data_open
        /\ y1 \in l3_process /\ ~y1.live /\ y1.chan = NoChan
        /\ z1 \in LinkLevel /\ z1.phase = "null" /\ ~z1.hup
    BY <1>5, <1>1, <1>2, BOffIs, ShutIs, GoneIs, ClosedIs
       DEF States, BStates, InStates, L3States, L3Timers, Phases, NoCall, LinkLevel
  <2> HIDE DEF x1, y1, z1
  <2>3. Next1(c, p, x, y, z, x1, y1, z1)
    BY <1>5, <1>1, <1>2, <2>2
       DEF Next1, Kept, Fits, Over, Partners, PhasesOf, TimersOf, Order, Hung, Held, States,
           BStates, InStates, L3States, L3Timers, Phases
  <2> QED BY <1>1, <2>1, <2>3, Outcome DEF x, y, z, x1, y1, z1
<1>6. CASE x.st \in {"WAIT_BRELEASE", "WAIT_BREL_DISC"}
  <2>1. EndWith(s, p, EvRelease)
            = Put(s, c, p, Closed(BOff(x)), Gone(y), NoCall, l)
    BY <1>6, <1>1, <1>2, release_l3_processPut, EvReleasePut, PutIs DEF EndWith, l3l4
  <2> DEFINE x1 == Closed(BOff(x))
             y1 == Gone(y)
             z1 == NoCall
  <2>2. /\ x1 \in Channel /\ x1.proc = x.proc /\ x1.st = "NULL" /\ ~x1.start_b
           /\ (x1.data_open <=> x.data_open)
        /\ y1 \in l3_process /\ ~y1.live /\ y1.chan = NoChan
        /\ z1 \in LinkLevel /\ z1.phase = "null" /\ ~z1.hup
    BY <1>6, <1>1, <1>2, BOffIs, GoneIs, ClosedIs
       DEF States, BStates, InStates, L3States, L3Timers, Phases, NoCall, LinkLevel
  <2> HIDE DEF x1, y1, z1
  <2>3. Next1(c, p, x, y, z, x1, y1, z1)
    BY <1>6, <1>1, <1>2, <2>2
       DEF Next1, Kept, Fits, Over, Partners, PhasesOf, TimersOf, Order, Hung, Held, States,
           BStates, InStates, L3States, L3Timers, Phases
  <2> QED BY <1>1, <2>1, <2>3, Outcome DEF x, y, z, x1, y1, z1
<1>7. CASE x.st = "PROCEED_SEND"
  <2>1. EndWith(s, p, EvRelease)
            = Put(s, c, p, x, Gone(y), z, Yes)
    BY <1>7, <1>1, <1>2, release_l3_processPut, EvReleasePut, PutIs DEF EndWith, l3l4
  <2> QED BY <1>1, <2>1, NoOutcome
<1> QED
  BY <1>1, <1>2, <1>3, <1>4, <1>5, <1>6, <1>7
     DEF Fits, Partners, Channel, States, InStates, BStates

\* RELEASE, RELEASE_COMPLETE, STATUS of the null state, SUSPEND_ACKNOWLEDGE, RESUME_REJECT.
LEMMA EndingStep ==
    ASSUME NEW s, NEW c, NEW p, Mine(s, c, p),
           NEW msg \in {"RELEASE", "RELEASE_COMPLETE", "STATUS_null", "SUSPEND_ACKNOWLEDGE",
                   "RESUME_REJECT"}
    PROVE  Result(s, c, p, Receive(s, p, msg))
<1>1. Receive(s, p, msg) = EndWith(s, p, EvRelease)
  BY DEF Receive, EndWith, l3l4
<1>2. Result(s, c, p, EndWith(s, p, EvRelease))
  BY ReleaseStep
<1> QED BY <1>1, <1>2

\* The call is back: the process becomes active after the channel was told.
LEMMA ResumeAcknowledgeStep ==
    ASSUME NEW s, NEW c, NEW p, Mine(s, c, p),
           s.pr[p].st = 17, s.env.bc \in BOOLEAN
    PROVE  Result(s, c, p, Receive(s, p, "RESUME_ACKNOWLEDGE"))
<1> DEFINE x == s.ch[c]
           y == s.pr[p]
           z == s.ll[c]
           l == s.lost
<1>1. At(s, c, p) /\ s = Put(s, c, p, x, y, z, l) /\ Fits(c, p, x, y, z) /\ p # NoProc
          /\ c # NoChan /\ ~l
  BY Names DEF Mine, At
<1>2. x \in Channel /\ y \in l3_process /\ z \in LinkLevel /\ x.proc = p /\ y.chan = c
          /\ y.st = 17 /\ s.env.bc \in BOOLEAN
  BY <1>1 DEF Fits
<1> HIDE DEF x, y, z, l
<1> DEFINE u == Timer(y, "none")
<1>3. u \in l3_process /\ u.st = y.st /\ u.timer = "none" /\ u.chan = c /\ (u.live <=> y.live)
      /\ (u.bchannel <=> y.bchannel)
  BY <1>1, <1>2, TimerIs DEF L3States, L3Timers
<1>4. Receive(s, p, "RESUME_ACKNOWLEDGE")
          = newl3state(EvSetupCnf(Put(s, c, p, x, u, z, l), c), p, 10)
  BY <1>1, <1>2, <1>3, L3DelTimerPut, PutIs DEF Receive, l3dss1_resume_ack, l3l4
<1> HIDE DEF u
<1>5. CASE x.st = "OUT_DIAL"
  <2>0. EvSetupCnf(Put(s, c, p, x, u, z, l), c)
            = Put(s, c, p, BSet(St(x, "WAIT_BCONN"), s.env.bc), u, Phase(z, "up"), l)
    BY <1>5, <1>1, <1>2, <1>3, PutIs, lli_init_bchanPut DEF EvSetupCnf, In
  <2>1. Receive(s, p, "RESUME_ACKNOWLEDGE")
            = Put(s, c, p, BSet(St(x, "WAIT_BCONN"), s.env.bc), L3St(u, 10), Phase(z, "up"), l)
    BY <1>5, <1>1, <1>2, <1>3, <1>4, <2>0, PutL3St
  <2> DEFINE x1 == BSet(St(x, "WAIT_BCONN"), s.env.bc)
             y1 == L3St(u, 10)
             z1 == Phase(z, "up")
  <2>2. /\ x1 \in Channel /\ x1.proc = x.proc /\ x1.st = "WAIT_BCONN"
           /\ (x1.data_open <=> x.data_open)
        /\ y1 \in l3_process /\ (y1.live <=> u.live) /\ y1.chan = u.chan /\ y1.st = 10
           /\ y1.timer = u.timer
        /\ z1 \in LinkLevel /\ z1.phase = "up" /\ (z1.hup <=> z.hup)
    BY <1>5, <1>1, <1>2, <1>3, StIs, BSetIs, L3StIs, PhaseIs
       DEF States, BStates, InStates, L3States, L3Timers, Phases
  <2> HIDE DEF x1, y1, z1
  <2>3. Next1(c, p, x, y, z, x1, y1, z1)
    BY <1>5, <1>1, <1>2, <1>3, <2>2
       DEF Next1, Kept, Fits, Over, Partners, PhasesOf, TimersOf, Order, Hung, Held, States,
           BStates, InStates, L3States, L3Timers, Phases
  <2> QED BY <1>1, <2>1, <2>3, Outcome DEF x, y, z, x1, y1, z1
<1>6. CASE x.st = "WAIT_DRELEASE"
  <2>0. EvSetupCnf(Put(s, c, p, x, u, z, l), c)
            = Put(s, c, p, x, u, z, l)
    BY <1>6, <1>1, <1>2, <1>3, PutIs DEF EvSetupCnf, In
  <2>1. Receive(s, p, "RESUME_ACKNOWLEDGE")
            = Put(s, c, p, x, L3St(u, 10), z, l)
    BY <1>6, <1>1, <1>2, <1>3, <1>4, <2>0, PutL3St
  <2> DEFINE y1 == L3St(u, 10)
  <2>2. /\ y1 \in l3_process /\ (y1.live <=> u.live) /\ y1.chan = u.chan /\ y1.st = 10
           /\ y1.timer = u.timer
    BY <1>6, <1>1, <1>2, <1>3, L3StIs DEF L3States, L3Timers
  <2> HIDE DEF y1
  <2>3. Next1(c, p, x, y, z, x, y1, z)
    BY <1>6, <1>1, <1>2, <1>3, <2>2
       DEF Next1, Kept, Fits, Over, Partners, PhasesOf, TimersOf, Order, Hung, Held, States,
           BStates, InStates, L3States, L3Timers, Phases
  <2> QED BY <1>1, <2>1, <2>3, Outcome DEF x, y, z, y1
<1> QED
  BY <1>1, <1>2, <1>5, <1>6 DEF Fits, Partners, Channel, States, InStates, BStates

\* EV_SETUP_ERR after T302, T304 or T310.
LEMMA SetupErrStep ==
    ASSUME NEW s, NEW c, NEW p, Mine(s, c, p),
           s.pr[p].st \in {2, 3, 25}
    PROVE  Result(s, c, p, GiveUp(L3DelTimer(s, p), p, EvSetupErr))
<1> DEFINE x == s.ch[c]
           y == s.pr[p]
           z == s.ll[c]
           l == s.lost
<1>1. At(s, c, p) /\ s = Put(s, c, p, x, y, z, l) /\ Fits(c, p, x, y, z) /\ p # NoProc
          /\ c # NoChan /\ ~l
  BY Names DEF Mine, At
<1>2. x \in Channel /\ y \in l3_process /\ z \in LinkLevel /\ x.proc = p /\ y.chan = c
          /\ y.st \in {2, 3, 25}
  BY <1>1 DEF Fits
<1> HIDE DEF x, y, z, l
<1> DEFINE r == GiveUp(L3DelTimer(s, p), p, EvSetupErr)
           u == Timer(y, "none")
<1>3. u \in l3_process /\ u.st = y.st /\ u.timer = "none" /\ u.chan = c /\ (u.live <=> y.live)
      /\ (u.bchannel <=> y.bchannel)
  BY <1>1, <1>2, TimerIs DEF L3States, L3Timers
<1>4. r = EvSetupErr(Put(s, c, p, x, Go(u, 11, "T305"), z, l), c)
  BY <1>1, <1>2, <1>3, L3DelTimerPut, L3Put, PutIs, Go11T305
     DEF GiveUp, l3l4, l3dss1_disconnect_req
<1> SUFFICES Result(s, c, p, r)
  OBVIOUS
<1> HIDE DEF u, r
<1>5. CASE x.st \in {"OUT_DIAL", "WAIT_LL"}
  <2>1. r
            = Put(s, c, p, St(x, "WAIT_DRELEASE"), Go(u, 11, "T305"), z, l)
    BY <1>5, <1>1, <1>2, <1>3, <1>4, ChangeStatePut, PutIs DEF EvSetupErr, In
  <2> DEFINE x1 == St(x, "WAIT_DRELEASE")
             y1 == Go(u, 11, "T305")
  <2>2. /\ x1 \in Channel /\ x1.proc = x.proc /\ x1.st = "WAIT_DRELEASE"
           /\ (x1.start_b <=> x.start_b) /\ (x1.data_open <=> x.data_open)
        /\ y1 \in l3_process /\ (y1.live <=> u.live) /\ y1.chan = u.chan /\ y1.st = 11
           /\ y1.timer = "T305"
    BY <1>5, <1>1, <1>2, <1>3, StIs, Go11T305 DEF States, BStates, InStates
  <2> HIDE DEF x1, y1
  <2>3. Next1(c, p, x, y, z, x1, y1, z)
    BY <1>5, <1>1, <1>2, <1>3, <2>2
       DEF Next1, Kept, Fits, Over, Partners, PhasesOf, TimersOf, Order, Hung, Held, States,
           BStates, InStates, L3States, L3Timers, Phases
  <2> QED BY <1>1, <2>1, <2>3, Outcome DEF x, y, z, x1, y1
<1> QED
  BY <1>1, <1>2, <1>5 DEF Fits, Partners, Channel, States, InStates, BStates

\* EV_SETUP_ERR of an overlap dialling when the link is reset.
LEMMA ResetStep ==
    ASSUME NEW s, NEW c, NEW p, Mine(s, c, p),
           s.pr[p].st = 2
    PROVE  Result(s, c, p, GiveUp(s, p, EvSetupErr))
<1> DEFINE x == s.ch[c]
           y == s.pr[p]
           z == s.ll[c]
           l == s.lost
<1>1. At(s, c, p) /\ s = Put(s, c, p, x, y, z, l) /\ Fits(c, p, x, y, z) /\ p # NoProc
          /\ c # NoChan /\ ~l
  BY Names DEF Mine, At
<1>2. x \in Channel /\ y \in l3_process /\ z \in LinkLevel /\ x.proc = p /\ y.chan = c
          /\ y.st = 2
  BY <1>1 DEF Fits
<1> HIDE DEF x, y, z, l
<1> DEFINE r == GiveUp(s, p, EvSetupErr)
           u == Go(y, 11, "T305")
<1>3. u \in l3_process /\ u.st = 11 /\ u.timer = "T305" /\ u.chan = c /\ (u.live <=> y.live)
      /\ (u.bchannel <=> y.bchannel)
  BY <1>1, <1>2, Go11T305
<1>4. r = EvSetupErr(Put(s, c, p, x, u, z, l), c)
  BY <1>1, <1>2, <1>3, L3Put, PutIs DEF GiveUp, l3l4, l3dss1_disconnect_req
<1> SUFFICES Result(s, c, p, r)
  OBVIOUS
<1> HIDE DEF u, r
<1>5. CASE x.st = "OUT_DIAL"
  <2>1. r
            = Put(s, c, p, St(x, "WAIT_DRELEASE"), u, z, l)
    BY <1>5, <1>1, <1>2, <1>3, <1>4, ChangeStatePut, PutIs DEF EvSetupErr, In
  <2> DEFINE x1 == St(x, "WAIT_DRELEASE")
  <2>2. /\ x1 \in Channel /\ x1.proc = x.proc /\ x1.st = "WAIT_DRELEASE"
           /\ (x1.start_b <=> x.start_b) /\ (x1.data_open <=> x.data_open)
    BY <1>5, <1>1, <1>2, <1>3, StIs DEF States, BStates, InStates
  <2> HIDE DEF x1
  <2>3. Next1(c, p, x, y, z, x1, u, z)
    BY <1>5, <1>1, <1>2, <1>3, <2>2
       DEF Next1, Kept, Fits, Over, Partners, PhasesOf, TimersOf, Order, Hung, Held, States,
           BStates, InStates, L3States, L3Timers, Phases
  <2> QED BY <1>1, <2>1, <2>3, Outcome DEF x, y, z, x1
<1> QED
  BY <1>1, <1>2, <1>5 DEF Fits, Partners, Channel, States, InStates, BStates

\* EV_CONNECT_ERR after T313.
LEMMA ConnectErrStep ==
    ASSUME NEW s, NEW c, NEW p, Mine(s, c, p),
           s.pr[p].st = 8
    PROVE  Result(s, c, p, GiveUp(L3DelTimer(s, p), p, EvConnectErr))
<1> DEFINE x == s.ch[c]
           y == s.pr[p]
           z == s.ll[c]
           l == s.lost
<1>1. At(s, c, p) /\ s = Put(s, c, p, x, y, z, l) /\ Fits(c, p, x, y, z) /\ p # NoProc
          /\ c # NoChan /\ ~l
  BY Names DEF Mine, At
<1>2. x \in Channel /\ y \in l3_process /\ z \in LinkLevel /\ x.proc = p /\ y.chan = c
          /\ y.st = 8
  BY <1>1 DEF Fits
<1> HIDE DEF x, y, z, l
<1> DEFINE r == GiveUp(L3DelTimer(s, p), p, EvConnectErr)
           u == Timer(y, "none")
<1>3. u \in l3_process /\ u.st = y.st /\ u.timer = "none" /\ u.chan = c /\ (u.live <=> y.live)
      /\ (u.bchannel <=> y.bchannel)
  BY <1>1, <1>2, TimerIs DEF L3States, L3Timers
<1>4. r = EvConnectErr(Put(s, c, p, x, Go(u, 11, "T305"), z, l), c)
  BY <1>1, <1>2, <1>3, L3DelTimerPut, L3Put, PutIs, Go11T305
     DEF GiveUp, l3l4, l3dss1_disconnect_req
<1> SUFFICES Result(s, c, p, r)
  OBVIOUS
<1> HIDE DEF u, r
<1>5. CASE x.st = "WAIT_CONN_ACK"
  <2>1. r
            = Put(s, c, p, St(x, "WAIT_DRELEASE"), Go(u, 11, "T305"), z, l)
    BY <1>5, <1>1, <1>2, <1>3, <1>4, ChangeStatePut, PutIs DEF EvConnectErr, In
  <2> DEFINE x1 == St(x, "WAIT_DRELEASE")
             y1 == Go(u, 11, "T305")
  <2>2. /\ x1 \in Channel /\ x1.proc = x.proc /\ x1.st = "WAIT_DRELEASE"
           /\ (x1.start_b <=> x.start_b) /\ (x1.data_open <=> x.data_open)
        /\ y1 \in l3_process /\ (y1.live <=> u.live) /\ y1.chan = u.chan /\ y1.st = 11
           /\ y1.timer = "T305"
    BY <1>5, <1>1, <1>2, <1>3, StIs, Go11T305 DEF States, BStates, InStates
  <2> HIDE DEF x1, y1
  <2>3. Next1(c, p, x, y, z, x1, y1, z)
    BY <1>5, <1>1, <1>2, <1>3, <2>2
       DEF Next1, Kept, Fits, Over, Partners, PhasesOf, TimersOf, Order, Hung, Held, States,
           BStates, InStates, L3States, L3Timers, Phases
  <2> QED BY <1>1, <2>1, <2>3, Outcome DEF x, y, z, x1, y1
<1>6. CASE x.st = "ALERT_SENT"
  <2>1. r
            = Put(s, c, p, x, Go(u, 11, "T305"), z, l)
    BY <1>6, <1>1, <1>2, <1>3, <1>4, ChangeStatePut, PutIs DEF EvConnectErr, In
  <2> DEFINE y1 == Go(u, 11, "T305")
  <2>2. /\ y1 \in l3_process /\ (y1.live <=> u.live) /\ y1.chan = u.chan /\ y1.st = 11
           /\ y1.timer = "T305"
    BY <1>6, <1>1, <1>2, <1>3, Go11T305
  <2> HIDE DEF y1
  <2>3. Next1(c, p, x, y, z, x, y1, z)
    BY <1>6, <1>1, <1>2, <1>3, <2>2
       DEF Next1, Kept, Fits, Over, Partners, PhasesOf, TimersOf, Order, Hung, Held, States,
           BStates, InStates, L3States, L3Timers, Phases
  <2> QED BY <1>1, <2>1, <2>3, Outcome DEF x, y, z, y1
<1> QED
  BY <1>1, <1>2, <1>5, <1>6 DEF Fits, Partners, Channel, States, InStates, BStates

\* T308 expires a second time.
LEMMA T308_2Step ==
    ASSUME NEW s, NEW c, NEW p, Mine(s, c, p),
           s.pr[p].st = 19
    PROVE  Result(s, c, p, EndWith(L3DelTimer(s, p), p, EvRelease))
<1> DEFINE x == s.ch[c]
           y == s.pr[p]
           z == s.ll[c]
           l == s.lost
<1>1. At(s, c, p) /\ s = Put(s, c, p, x, y, z, l) /\ Fits(c, p, x, y, z) /\ p # NoProc
          /\ c # NoChan /\ ~l
  BY Names DEF Mine, At
<1>2. x \in Channel /\ y \in l3_process /\ z \in LinkLevel /\ x.proc = p /\ y.chan = c
          /\ y.st = 19
  BY <1>1 DEF Fits
<1> HIDE DEF x, y, z, l
<1> DEFINE r == EndWith(L3DelTimer(s, p), p, EvRelease)
           u == Timer(y, "none")
<1>3. u \in l3_process /\ u.st = y.st /\ u.timer = "none" /\ u.chan = c /\ (u.live <=> y.live)
      /\ (u.bchannel <=> y.bchannel)
  BY <1>1, <1>2, TimerIs DEF L3States, L3Timers
<1>4. r = release_l3_process(EvRelease(Put(s, c, p, x, u, z, l), c), p)
  BY <1>1, <1>2, <1>3, L3DelTimerPut, PutIs DEF EndWith, l3l4
<1> SUFFICES Result(s, c, p, r)
  OBVIOUS
<1> HIDE DEF u, r
<1>5. CASE x.st \in {"OUT_DIAL", "WAIT_LL", "ALERT_SENT", "WAIT_CONN_ACK", "WAIT_DCOMMAND",
                   "WAIT_DRELEASE", "WAIT_D_REL_CNF"}
  <2>0. EvRelease(Put(s, c, p, x, u, z, l), c)
            = Put(s, c, p, Closed(x), u, NoCall, l)
    BY <1>5, <1>1, <1>2, <1>3, EvReleasePut, PutIs DEF Fits, PhasesOf
  <2>1. r
            = Put(s, c, p, Closed(x), Gone(u), NoCall, l)
    BY <1>5, <1>1, <1>2, <1>3, <1>4, <2>0, release_l3_processPut
  <2> DEFINE x1 == Closed(x)
             y1 == Gone(u)
             z1 == NoCall
  <2>2. /\ x1 \in Channel /\ x1.proc = x.proc /\ x1.st = "NULL" /\ ~x1.start_b
           /\ (x1.data_open <=> x.data_open)
        /\ y1 \in l3_process /\ ~y1.live /\ y1.chan = NoChan
        /\ z1 \in LinkLevel /\ z1.phase = "null" /\ ~z1.hup
    BY <1>5, <1>1, <1>2, <1>3, GoneIs, ClosedIs
       DEF States, BStates, InStates, L3States, L3Timers, Phases, NoCall, LinkLevel
  <2> HIDE DEF x1, y1, z1
  <2>3. Next1(c, p, x, y, z, x1, y1, z1)
    BY <1>5, <1>1, <1>2, <1>3, <2>2
       DEF Next1, Kept, Fits, Over, Partners, PhasesOf, TimersOf, Order, Hung, Held, States,
           BStates, InStates, L3States, L3Timers, Phases
  <2> QED BY <1>1, <2>1, <2>3, Outcome DEF x, y, z, x1, y1, z1
<1>6. CASE x.st = "WAIT_BCONN"
  <2>0. EvRelease(Put(s, c, p, x, u, z, l), c)
            = Put(s, c, p, Closed(BOff(x)), u, NoCall, l)
    BY <1>6, <1>1, <1>2, <1>3, EvReleasePut, PutIs DEF Fits, PhasesOf
  <2>1. r
            = Put(s, c, p, Closed(BOff(x)), Gone(u), NoCall, l)
    BY <1>6, <1>1, <1>2, <1>3, <1>4, <2>0, release_l3_processPut
  <2> DEFINE x1 == Closed(BOff(x))
             y1 == Gone(u)
             z1 == NoCall
  <2>2. /\ x1 \in Channel /\ x1.proc = x.proc /\ x1.st = "NULL" /\ ~x1.start_b
           /\ (x1.data_open <=> x.data_open)
        /\ y1 \in l3_process /\ ~y1.live /\ y1.chan = NoChan
        /\ z1 \in LinkLevel /\ z1.phase = "null" /\ ~z1.hup
    BY <1>6, <1>1, <1>2, <1>3, BOffIs, GoneIs, ClosedIs
       DEF States, BStates, InStates, L3States, L3Timers, Phases, NoCall, LinkLevel
  <2> HIDE DEF x1, y1, z1
  <2>3. Next1(c, p, x, y, z, x1, y1, z1)
    BY <1>6, <1>1, <1>2, <1>3, <2>2
       DEF Next1, Kept, Fits, Over, Partners, PhasesOf, TimersOf, Order, Hung, Held, States,
           BStates, InStates, L3States, L3Timers, Phases
  <2> QED BY <1>1, <2>1, <2>3, Outcome DEF x, y, z, x1, y1, z1
<1>7. CASE x.st = "ACTIVE"
  <2>0. EvRelease(Put(s, c, p, x, u, z, l), c)
            = Put(s, c, p, Closed(BOff(Shut(x))), u, NoCall, l)
    BY <1>7, <1>1, <1>2, <1>3, EvReleasePut, PutIs DEF Fits, PhasesOf
  <2>1. r
            = Put(s, c, p, Closed(BOff(Shut(x))), Gone(u), NoCall, l)
    BY <1>7, <1>1, <1>2, <1>3, <1>4, <2>0, release_l3_processPut
  <2> DEFINE x1 == Closed(BOff(Shut(x)))
             y1 == Gone(u)
             z1 == NoCall
  <2>2. /\ x1 \in Channel /\ x1.proc = x.proc /\ x1.st = "NULL" /\ ~x1.start_b /\ ~x1.data_open
        /\ y1 \in l3_process /\ ~y1.live /\ y1.chan = NoChan
        /\ z1 \in LinkLevel /\ z1.phase = "null" /\ ~z1.hup
    BY <1>7, <1>1, <1>2, <1>3, BOffIs, ShutIs, GoneIs, ClosedIs
       DEF States, BStates, InStates, L3States, L3Timers, Phases, NoCall, LinkLevel
  <2> HIDE DEF x1, y1, z1
  <2>3. Next1(c, p, x, y, z, x1, y1, z1)
    BY <1>7, <1>1, <1>2, <1>3, <2>2
       DEF Next1, Kept, Fits, Over, Partners, PhasesOf, TimersOf, Order, Hung, Held, States,
           BStates, InStates, L3States, L3Timers, Phases
  <2> QED BY <1>1, <2>1, <2>3, Outcome DEF x, y, z, x1, y1, z1
<1>8. CASE x.st \in {"WAIT_BRELEASE", "WAIT_BREL_DISC"}
  <2>0. EvRelease(Put(s, c, p, x, u, z, l), c)
            = Put(s, c, p, Closed(BOff(x)), u, NoCall, l)
    BY <1>8, <1>1, <1>2, <1>3, EvReleasePut, PutIs DEF Fits, PhasesOf
  <2>1. r
            = Put(s, c, p, Closed(BOff(x)), Gone(u), NoCall, l)
    BY <1>8, <1>1, <1>2, <1>3, <1>4, <2>0, release_l3_processPut
  <2> DEFINE x1 == Closed(BOff(x))
             y1 == Gone(u)
             z1 == NoCall
  <2>2. /\ x1 \in Channel /\ x1.proc = x.proc /\ x1.st = "NULL" /\ ~x1.start_b
           /\ (x1.data_open <=> x.data_open)
        /\ y1 \in l3_process /\ ~y1.live /\ y1.chan = NoChan
        /\ z1 \in LinkLevel /\ z1.phase = "null" /\ ~z1.hup
    BY <1>8, <1>1, <1>2, <1>3, BOffIs, GoneIs, ClosedIs
       DEF States, BStates, InStates, L3States, L3Timers, Phases, NoCall, LinkLevel
  <2> HIDE DEF x1, y1, z1
  <2>3. Next1(c, p, x, y, z, x1, y1, z1)
    BY <1>8, <1>1, <1>2, <1>3, <2>2
       DEF Next1, Kept, Fits, Over, Partners, PhasesOf, TimersOf, Order, Hung, Held, States,
           BStates, InStates, L3States, L3Timers, Phases
  <2> QED BY <1>1, <2>1, <2>3, Outcome DEF x, y, z, x1, y1, z1
<1>9. CASE x.st = "PROCEED_SEND"
  <2>0. EvRelease(Put(s, c, p, x, u, z, l), c)
            = Put(s, c, p, x, u, z, Yes)
    BY <1>9, <1>1, <1>2, <1>3, EvReleasePut, PutIs DEF Fits, PhasesOf
  <2>1. r
            = Put(s, c, p, x, Gone(u), z, Yes)
    BY <1>9, <1>1, <1>2, <1>3, <1>4, <2>0, release_l3_processPut
  <2> QED BY <1>1, <2>1, NoOutcome
<1> QED
  BY <1>1, <1>2, <1>5, <1>6, <1>7, <1>8, <1>9
     DEF Fits, Partners, Channel, States, InStates, BStates

\* T309 expires.
LEMMA T309Step ==
    ASSUME NEW s, NEW c, NEW p, Mine(s, c, p),
           s.pr[p].st = 10
    PROVE  Result(s, c, p, EndWith(newl3state(L3DelTimer(s, p), p, 0), p, EvRelease))
<1> DEFINE x == s.ch[c]
           y == s.pr[p]
           z == s.ll[c]
           l == s.lost
<1>1. At(s, c, p) /\ s = Put(s, c, p, x, y, z, l) /\ Fits(c, p, x, y, z) /\ p # NoProc
          /\ c # NoChan /\ ~l
  BY Names DEF Mine, At
<1>2. x \in Channel /\ y \in l3_process /\ z \in LinkLevel /\ x.proc = p /\ y.chan = c
          /\ y.st = 10
  BY <1>1 DEF Fits
<1> HIDE DEF x, y, z, l
<1> DEFINE r == EndWith(newl3state(L3DelTimer(s, p), p, 0), p, EvRelease)
           u == L3St(Timer(y, "none"), 0)
<1>3. u \in l3_process /\ u.st = 0 /\ u.timer = "none" /\ u.chan = c /\ (u.live <=> y.live)
      /\ (u.bchannel <=> y.bchannel)
  BY <1>1, <1>2, TimerIs, L3StIs DEF L3States, L3Timers
<1>4. r = release_l3_process(EvRelease(Put(s, c, p, x, u, z, l), c), p)
  BY <1>1, <1>2, <1>3, L3DelTimerPut, PutL3St, PutIs DEF EndWith, l3l4
<1> SUFFICES Result(s, c, p, r)
  OBVIOUS
<1> HIDE DEF u, r
<1>5. CASE x.st \in {"OUT_DIAL", "WAIT_LL", "ALERT_SENT", "WAIT_CONN_ACK", "WAIT_DCOMMAND",
                   "WAIT_DRELEASE", "WAIT_D_REL_CNF"}
  <2>0. EvRelease(Put(s, c, p, x, u, z, l), c)
            = Put(s, c, p, Closed(x), u, NoCall, l)
    BY <1>5, <1>1, <1>2, <1>3, EvReleasePut, PutIs DEF Fits, PhasesOf
  <2>1. r
            = Put(s, c, p, Closed(x), Gone(u), NoCall, l)
    BY <1>5, <1>1, <1>2, <1>3, <1>4, <2>0, release_l3_processPut
  <2> DEFINE x1 == Closed(x)
             y1 == Gone(u)
             z1 == NoCall
  <2>2. /\ x1 \in Channel /\ x1.proc = x.proc /\ x1.st = "NULL" /\ ~x1.start_b
           /\ (x1.data_open <=> x.data_open)
        /\ y1 \in l3_process /\ ~y1.live /\ y1.chan = NoChan
        /\ z1 \in LinkLevel /\ z1.phase = "null" /\ ~z1.hup
    BY <1>5, <1>1, <1>2, <1>3, GoneIs, ClosedIs
       DEF States, BStates, InStates, L3States, L3Timers, Phases, NoCall, LinkLevel
  <2> HIDE DEF x1, y1, z1
  <2>3. Next1(c, p, x, y, z, x1, y1, z1)
    BY <1>5, <1>1, <1>2, <1>3, <2>2
       DEF Next1, Kept, Fits, Over, Partners, PhasesOf, TimersOf, Order, Hung, Held, States,
           BStates, InStates, L3States, L3Timers, Phases
  <2> QED BY <1>1, <2>1, <2>3, Outcome DEF x, y, z, x1, y1, z1
<1>6. CASE x.st = "WAIT_BCONN"
  <2>0. EvRelease(Put(s, c, p, x, u, z, l), c)
            = Put(s, c, p, Closed(BOff(x)), u, NoCall, l)
    BY <1>6, <1>1, <1>2, <1>3, EvReleasePut, PutIs DEF Fits, PhasesOf
  <2>1. r
            = Put(s, c, p, Closed(BOff(x)), Gone(u), NoCall, l)
    BY <1>6, <1>1, <1>2, <1>3, <1>4, <2>0, release_l3_processPut
  <2> DEFINE x1 == Closed(BOff(x))
             y1 == Gone(u)
             z1 == NoCall
  <2>2. /\ x1 \in Channel /\ x1.proc = x.proc /\ x1.st = "NULL" /\ ~x1.start_b
           /\ (x1.data_open <=> x.data_open)
        /\ y1 \in l3_process /\ ~y1.live /\ y1.chan = NoChan
        /\ z1 \in LinkLevel /\ z1.phase = "null" /\ ~z1.hup
    BY <1>6, <1>1, <1>2, <1>3, BOffIs, GoneIs, ClosedIs
       DEF States, BStates, InStates, L3States, L3Timers, Phases, NoCall, LinkLevel
  <2> HIDE DEF x1, y1, z1
  <2>3. Next1(c, p, x, y, z, x1, y1, z1)
    BY <1>6, <1>1, <1>2, <1>3, <2>2
       DEF Next1, Kept, Fits, Over, Partners, PhasesOf, TimersOf, Order, Hung, Held, States,
           BStates, InStates, L3States, L3Timers, Phases
  <2> QED BY <1>1, <2>1, <2>3, Outcome DEF x, y, z, x1, y1, z1
<1>7. CASE x.st = "ACTIVE"
  <2>0. EvRelease(Put(s, c, p, x, u, z, l), c)
            = Put(s, c, p, Closed(BOff(Shut(x))), u, NoCall, l)
    BY <1>7, <1>1, <1>2, <1>3, EvReleasePut, PutIs DEF Fits, PhasesOf
  <2>1. r
            = Put(s, c, p, Closed(BOff(Shut(x))), Gone(u), NoCall, l)
    BY <1>7, <1>1, <1>2, <1>3, <1>4, <2>0, release_l3_processPut
  <2> DEFINE x1 == Closed(BOff(Shut(x)))
             y1 == Gone(u)
             z1 == NoCall
  <2>2. /\ x1 \in Channel /\ x1.proc = x.proc /\ x1.st = "NULL" /\ ~x1.start_b /\ ~x1.data_open
        /\ y1 \in l3_process /\ ~y1.live /\ y1.chan = NoChan
        /\ z1 \in LinkLevel /\ z1.phase = "null" /\ ~z1.hup
    BY <1>7, <1>1, <1>2, <1>3, BOffIs, ShutIs, GoneIs, ClosedIs
       DEF States, BStates, InStates, L3States, L3Timers, Phases, NoCall, LinkLevel
  <2> HIDE DEF x1, y1, z1
  <2>3. Next1(c, p, x, y, z, x1, y1, z1)
    BY <1>7, <1>1, <1>2, <1>3, <2>2
       DEF Next1, Kept, Fits, Over, Partners, PhasesOf, TimersOf, Order, Hung, Held, States,
           BStates, InStates, L3States, L3Timers, Phases
  <2> QED BY <1>1, <2>1, <2>3, Outcome DEF x, y, z, x1, y1, z1
<1>8. CASE x.st \in {"WAIT_BRELEASE", "WAIT_BREL_DISC"}
  <2>0. EvRelease(Put(s, c, p, x, u, z, l), c)
            = Put(s, c, p, Closed(BOff(x)), u, NoCall, l)
    BY <1>8, <1>1, <1>2, <1>3, EvReleasePut, PutIs DEF Fits, PhasesOf
  <2>1. r
            = Put(s, c, p, Closed(BOff(x)), Gone(u), NoCall, l)
    BY <1>8, <1>1, <1>2, <1>3, <1>4, <2>0, release_l3_processPut
  <2> DEFINE x1 == Closed(BOff(x))
             y1 == Gone(u)
             z1 == NoCall
  <2>2. /\ x1 \in Channel /\ x1.proc = x.proc /\ x1.st = "NULL" /\ ~x1.start_b
           /\ (x1.data_open <=> x.data_open)
        /\ y1 \in l3_process /\ ~y1.live /\ y1.chan = NoChan
        /\ z1 \in LinkLevel /\ z1.phase = "null" /\ ~z1.hup
    BY <1>8, <1>1, <1>2, <1>3, BOffIs, GoneIs, ClosedIs
       DEF States, BStates, InStates, L3States, L3Timers, Phases, NoCall, LinkLevel
  <2> HIDE DEF x1, y1, z1
  <2>3. Next1(c, p, x, y, z, x1, y1, z1)
    BY <1>8, <1>1, <1>2, <1>3, <2>2
       DEF Next1, Kept, Fits, Over, Partners, PhasesOf, TimersOf, Order, Hung, Held, States,
           BStates, InStates, L3States, L3Timers, Phases
  <2> QED BY <1>1, <2>1, <2>3, Outcome DEF x, y, z, x1, y1, z1
<1>9. CASE x.st = "PROCEED_SEND"
  <2>0. EvRelease(Put(s, c, p, x, u, z, l), c)
            = Put(s, c, p, x, u, z, Yes)
    BY <1>9, <1>1, <1>2, <1>3, EvReleasePut, PutIs DEF Fits, PhasesOf
  <2>1. r
            = Put(s, c, p, x, Gone(u), z, Yes)
    BY <1>9, <1>1, <1>2, <1>3, <1>4, <2>0, release_l3_processPut
  <2> QED BY <1>1, <2>1, NoOutcome
<1> QED
  BY <1>1, <1>2, <1>5, <1>6, <1>7, <1>8, <1>9
     DEF Fits, Partners, Channel, States, InStates, BStates

\* The data link is lost.
LEMMA LinkLostStep ==
    ASSUME NEW s, NEW c, NEW p, Mine(s, c, p),
           s.pr[p].st # 10
    PROVE  Result(s, c, p, EndWith(newl3state(s, p, 0), p, EvRelease))
<1> DEFINE x == s.ch[c]
           y == s.pr[p]
           z == s.ll[c]
           l == s.lost
<1>1. At(s, c, p) /\ s = Put(s, c, p, x, y, z, l) /\ Fits(c, p, x, y, z) /\ p # NoProc
          /\ c # NoChan /\ ~l
  BY Names DEF Mine, At
<1>2. x \in Channel /\ y \in l3_process /\ z \in LinkLevel /\ x.proc = p /\ y.chan = c
          /\ y.st # 10
  BY <1>1 DEF Fits
<1> HIDE DEF x, y, z, l
<1> DEFINE r == EndWith(newl3state(s, p, 0), p, EvRelease)
           u == L3St(y, 0)
<1>3. u \in l3_process /\ u.st = 0 /\ u.timer = y.timer /\ u.chan = c /\ (u.live <=> y.live)
      /\ (u.bchannel <=> y.bchannel)
  BY <1>1, <1>2, L3StIs DEF L3States, L3Timers
<1>4. r = release_l3_process(EvRelease(Put(s, c, p, x, u, z, l), c), p)
  BY <1>1, <1>2, <1>3, PutL3St, PutIs DEF EndWith, l3l4
<1> SUFFICES Result(s, c, p, r)
  OBVIOUS
<1> HIDE DEF u, r
<1>5. CASE x.st \in {"OUT_DIAL", "WAIT_LL", "ALERT_SENT", "WAIT_CONN_ACK", "WAIT_DCOMMAND",
                   "WAIT_DRELEASE", "WAIT_D_REL_CNF"}
  <2>0. EvRelease(Put(s, c, p, x, u, z, l), c)
            = Put(s, c, p, Closed(x), u, NoCall, l)
    BY <1>5, <1>1, <1>2, <1>3, EvReleasePut, PutIs DEF Fits, PhasesOf
  <2>1. r
            = Put(s, c, p, Closed(x), Gone(u), NoCall, l)
    BY <1>5, <1>1, <1>2, <1>3, <1>4, <2>0, release_l3_processPut
  <2> DEFINE x1 == Closed(x)
             y1 == Gone(u)
             z1 == NoCall
  <2>2. /\ x1 \in Channel /\ x1.proc = x.proc /\ x1.st = "NULL" /\ ~x1.start_b
           /\ (x1.data_open <=> x.data_open)
        /\ y1 \in l3_process /\ ~y1.live /\ y1.chan = NoChan
        /\ z1 \in LinkLevel /\ z1.phase = "null" /\ ~z1.hup
    BY <1>5, <1>1, <1>2, <1>3, GoneIs, ClosedIs
       DEF States, BStates, InStates, L3States, L3Timers, Phases, NoCall, LinkLevel
  <2> HIDE DEF x1, y1, z1
  <2>3. Next1(c, p, x, y, z, x1, y1, z1)
    BY <1>5, <1>1, <1>2, <1>3, <2>2
       DEF Next1, Kept, Fits, Over, Partners, PhasesOf, TimersOf, Order, Hung, Held, States,
           BStates, InStates, L3States, L3Timers, Phases
  <2> QED BY <1>1, <2>1, <2>3, Outcome DEF x, y, z, x1, y1, z1
<1>6. CASE x.st = "WAIT_BCONN"
  <2>0. EvRelease(Put(s, c, p, x, u, z, l), c)
            = Put(s, c, p, Closed(BOff(x)), u, NoCall, l)
    BY <1>6, <1>1, <1>2, <1>3, EvReleasePut, PutIs DEF Fits, PhasesOf
  <2>1. r
            = Put(s, c, p, Closed(BOff(x)), Gone(u), NoCall, l)
    BY <1>6, <1>1, <1>2, <1>3, <1>4, <2>0, release_l3_processPut
  <2> DEFINE x1 == Closed(BOff(x))
             y1 == Gone(u)
             z1 == NoCall
  <2>2. /\ x1 \in Channel /\ x1.proc = x.proc /\ x1.st = "NULL" /\ ~x1.start_b
           /\ (x1.data_open <=> x.data_open)
        /\ y1 \in l3_process /\ ~y1.live /\ y1.chan = NoChan
        /\ z1 \in LinkLevel /\ z1.phase = "null" /\ ~z1.hup
    BY <1>6, <1>1, <1>2, <1>3, BOffIs, GoneIs, ClosedIs
       DEF States, BStates, InStates, L3States, L3Timers, Phases, NoCall, LinkLevel
  <2> HIDE DEF x1, y1, z1
  <2>3. Next1(c, p, x, y, z, x1, y1, z1)
    BY <1>6, <1>1, <1>2, <1>3, <2>2
       DEF Next1, Kept, Fits, Over, Partners, PhasesOf, TimersOf, Order, Hung, Held, States,
           BStates, InStates, L3States, L3Timers, Phases
  <2> QED BY <1>1, <2>1, <2>3, Outcome DEF x, y, z, x1, y1, z1
<1>7. CASE x.st = "ACTIVE"
  <2>0. EvRelease(Put(s, c, p, x, u, z, l), c)
            = Put(s, c, p, Closed(BOff(Shut(x))), u, NoCall, l)
    BY <1>7, <1>1, <1>2, <1>3, EvReleasePut, PutIs DEF Fits, PhasesOf
  <2>1. r
            = Put(s, c, p, Closed(BOff(Shut(x))), Gone(u), NoCall, l)
    BY <1>7, <1>1, <1>2, <1>3, <1>4, <2>0, release_l3_processPut
  <2> DEFINE x1 == Closed(BOff(Shut(x)))
             y1 == Gone(u)
             z1 == NoCall
  <2>2. /\ x1 \in Channel /\ x1.proc = x.proc /\ x1.st = "NULL" /\ ~x1.start_b /\ ~x1.data_open
        /\ y1 \in l3_process /\ ~y1.live /\ y1.chan = NoChan
        /\ z1 \in LinkLevel /\ z1.phase = "null" /\ ~z1.hup
    BY <1>7, <1>1, <1>2, <1>3, BOffIs, ShutIs, GoneIs, ClosedIs
       DEF States, BStates, InStates, L3States, L3Timers, Phases, NoCall, LinkLevel
  <2> HIDE DEF x1, y1, z1
  <2>3. Next1(c, p, x, y, z, x1, y1, z1)
    BY <1>7, <1>1, <1>2, <1>3, <2>2
       DEF Next1, Kept, Fits, Over, Partners, PhasesOf, TimersOf, Order, Hung, Held, States,
           BStates, InStates, L3States, L3Timers, Phases
  <2> QED BY <1>1, <2>1, <2>3, Outcome DEF x, y, z, x1, y1, z1
<1>8. CASE x.st \in {"WAIT_BRELEASE", "WAIT_BREL_DISC"}
  <2>0. EvRelease(Put(s, c, p, x, u, z, l), c)
            = Put(s, c, p, Closed(BOff(x)), u, NoCall, l)
    BY <1>8, <1>1, <1>2, <1>3, EvReleasePut, PutIs DEF Fits, PhasesOf
  <2>1. r
            = Put(s, c, p, Closed(BOff(x)), Gone(u), NoCall, l)
    BY <1>8, <1>1, <1>2, <1>3, <1>4, <2>0, release_l3_processPut
  <2> DEFINE x1 == Closed(BOff(x))
             y1 == Gone(u)
             z1 == NoCall
  <2>2. /\ x1 \in Channel /\ x1.proc = x.proc /\ x1.st = "NULL" /\ ~x1.start_b
           /\ (x1.data_open <=> x.data_open)
        /\ y1 \in l3_process /\ ~y1.live /\ y1.chan = NoChan
        /\ z1 \in LinkLevel /\ z1.phase = "null" /\ ~z1.hup
    BY <1>8, <1>1, <1>2, <1>3, BOffIs, GoneIs, ClosedIs
       DEF States, BStates, InStates, L3States, L3Timers, Phases, NoCall, LinkLevel
  <2> HIDE DEF x1, y1, z1
  <2>3. Next1(c, p, x, y, z, x1, y1, z1)
    BY <1>8, <1>1, <1>2, <1>3, <2>2
       DEF Next1, Kept, Fits, Over, Partners, PhasesOf, TimersOf, Order, Hung, Held, States,
           BStates, InStates, L3States, L3Timers, Phases
  <2> QED BY <1>1, <2>1, <2>3, Outcome DEF x, y, z, x1, y1, z1
<1>9. CASE x.st = "PROCEED_SEND"
  <2>0. EvRelease(Put(s, c, p, x, u, z, l), c)
            = Put(s, c, p, x, u, z, Yes)
    BY <1>9, <1>1, <1>2, <1>3, EvReleasePut, PutIs DEF Fits, PhasesOf
  <2>1. r
            = Put(s, c, p, x, Gone(u), z, Yes)
    BY <1>9, <1>1, <1>2, <1>3, <1>4, <2>0, release_l3_processPut
  <2> QED BY <1>1, <2>1, NoOutcome
<1> QED
  BY <1>1, <1>2, <1>5, <1>6, <1>7, <1>8, <1>9
     DEF Fits, Partners, Channel, States, InStates, BStates

\* T303 runs out for the first time.
LEMMA SetupAgainPut ==
    ASSUME NEW s, NEW c, NEW p, At(s, c, p), NEW x, NEW y, NEW z, NEW l
    PROVE  SetupAgain(Put(s, c, p, x, y, z, l), p)
               = Put(s, c, p, x, Timer(N303(y, y.n303 - 1), "T303"), z, l)
<1> DEFINE t == Put(s, c, p, x, y, z, l)
<1>1. SetupAgain(t, p) = SetTimer(SetN303(t, p, t.pr[p].n303 - 1), p, "T303")
  BY DEF SetupAgain, SetTimer, SetN303
<1>2. t.pr[p] = y
  BY PutIs
<1> QED BY <1>1, <1>2, PutN303, PutTimer

\* T303 expires for the first time.
LEMMA SetupAgainStep ==
    ASSUME NEW s, NEW c, NEW p, Mine(s, c, p), s.pr[p].st = 1, s.pr[p].n303 > 0
    PROVE  Result(s, c, p, SetupAgain(L3DelTimer(s, p), p))
<1> DEFINE x == s.ch[c]
           y == s.pr[p]
           z == s.ll[c]
           l == s.lost
<1>1. At(s, c, p) /\ s = Put(s, c, p, x, y, z, l) /\ Fits(c, p, x, y, z)
  BY DEF Mine
<1>2. x \in Channel /\ y \in l3_process /\ z \in LinkLevel /\ x.proc = p /\ y.chan = c
          /\ y.st = 1
      /\ y.n303 - 1 \in 0 .. 1
  BY <1>1 DEF Fits, l3_process
<1> HIDE DEF x, y, z, l
<1> DEFINE u == Timer(y, "none")
           v == N303(u, y.n303 - 1)
           y1 == Timer(v, "T303")
<1>3. u \in l3_process /\ u.st = 1 /\ u.n303 = y.n303 /\ u.chan = c /\ (u.live <=> y.live)
  BY <1>2, TimerIs DEF L3Timers
<1>4. L3DelTimer(s, p) = Put(s, c, p, x, u, z, l)
  BY <1>1, L3DelTimerPut
<1>5. SetupAgain(L3DelTimer(s, p), p) = Put(s, c, p, x, y1, z, l)
  BY <1>1, <1>3, <1>4, SetupAgainPut
<1> HIDE DEF u
<1>6. v \in l3_process /\ v.st = 1 /\ v.chan = c /\ (v.live <=> y.live)
  BY <1>2, <1>3, N303Is
<1> HIDE DEF v
<1>7. y1 \in l3_process /\ y1.st = 1 /\ y1.chan = c /\ (y1.live <=> y.live) /\ y1.timer = "T303"
  BY <1>6, TimerIs DEF L3Timers
<1> HIDE DEF y1
<1>8. Next1(c, p, x, y, z, x, y1, z)
  BY <1>1, <1>2, <1>7 DEF Next1, Kept, Fits, Over, TimersOf, Order, Hung, Held
<1> QED BY <1>1, <1>5, <1>8, Outcome DEF x, y, z

\* T303 expires for the second time.
LEMMA NoSetupRspStep ==
    ASSUME NEW s, NEW c, NEW p, Mine(s, c, p),
           s.pr[p].st = 1
    PROVE  Result(s, c, p, EndWith(L3DelTimer(s, p), p, EvNoSetupRsp))
<1> DEFINE x == s.ch[c]
           y == s.pr[p]
           z == s.ll[c]
           l == s.lost
<1>1. At(s, c, p) /\ s = Put(s, c, p, x, y, z, l) /\ Fits(c, p, x, y, z) /\ p # NoProc
          /\ c # NoChan /\ ~l
  BY Names DEF Mine, At
<1>2. x \in Channel /\ y \in l3_process /\ z \in LinkLevel /\ x.proc = p /\ y.chan = c
          /\ y.st = 1
  BY <1>1 DEF Fits
<1> HIDE DEF x, y, z, l
<1> DEFINE r == EndWith(L3DelTimer(s, p), p, EvNoSetupRsp)
           u == Timer(y, "none")
<1>3. u \in l3_process /\ u.st = y.st /\ u.timer = "none" /\ u.chan = c /\ (u.live <=> y.live)
      /\ (u.bchannel <=> y.bchannel)
  BY <1>1, <1>2, TimerIs DEF L3States, L3Timers
<1>4. r = release_l3_process(EvNoSetupRsp(Put(s, c, p, x, u, z, l), c), p)
  BY <1>1, <1>2, <1>3, L3DelTimerPut, PutIs DEF EndWith, l3l4
<1> SUFFICES Result(s, c, p, r)
  OBVIOUS
<1> HIDE DEF u, r
<1>5. CASE x.st = "OUT_DIAL"
  <2>0. EvNoSetupRsp(Put(s, c, p, x, u, z, l), c)
            = Put(s, c, p, Closed(x), u, NoCall, l)
    BY <1>5, <1>1, <1>2, <1>3, lli_closePut, PutIs DEF EvNoSetupRsp, In, Fits, PhasesOf
  <2>1. r
            = Put(s, c, p, Closed(x), Gone(u), NoCall, l)
    BY <1>5, <1>1, <1>2, <1>3, <1>4, <2>0, release_l3_processPut
  <2> DEFINE x1 == Closed(x)
             y1 == Gone(u)
             z1 == NoCall
  <2>2. /\ x1 \in Channel /\ x1.proc = x.proc /\ x1.st = "NULL" /\ ~x1.start_b
           /\ (x1.data_open <=> x.data_open)
        /\ y1 \in l3_process /\ ~y1.live /\ y1.chan = NoChan
        /\ z1 \in LinkLevel /\ z1.phase = "null" /\ ~z1.hup
    BY <1>5, <1>1, <1>2, <1>3, GoneIs, ClosedIs
       DEF States, BStates, InStates, L3States, L3Timers, Phases, NoCall, LinkLevel
  <2> HIDE DEF x1, y1, z1
  <2>3. Next1(c, p, x, y, z, x1, y1, z1)
    BY <1>5, <1>1, <1>2, <1>3, <2>2
       DEF Next1, Kept, Fits, Over, Partners, PhasesOf, TimersOf, Order, Hung, Held, States,
           BStates, InStates, L3States, L3Timers, Phases
  <2> QED BY <1>1, <2>1, <2>3, Outcome DEF x, y, z, x1, y1, z1
<1> QED
  BY <1>1, <1>2, <1>5 DEF Fits, Partners, Channel, States, InStates, BStates

\* T305 expires.
LEMMA T305Step ==
    ASSUME NEW s, NEW c, NEW p, Mine(s, c, p),
           s.pr[p].st = 11
    PROVE  Result(s, c, p, L3(L3DelTimer(s, p), p, 19, "T308_1"))
<1> DEFINE x == s.ch[c]
           y == s.pr[p]
           z == s.ll[c]
           l == s.lost
<1>1. At(s, c, p) /\ s = Put(s, c, p, x, y, z, l) /\ Fits(c, p, x, y, z) /\ p # NoProc
          /\ c # NoChan /\ ~l
  BY Names DEF Mine, At
<1>2. x \in Channel /\ y \in l3_process /\ z \in LinkLevel /\ x.proc = p /\ y.chan = c
          /\ y.st = 11
  BY <1>1 DEF Fits
<1> HIDE DEF x, y, z, l
<1> DEFINE u == Timer(y, "none")
<1>3. u \in l3_process /\ u.st = y.st /\ u.timer = "none" /\ u.chan = c /\ (u.live <=> y.live)
      /\ (u.bchannel <=> y.bchannel)
  BY <1>1, <1>2, TimerIs DEF L3States, L3Timers
<1>4. L3(L3DelTimer(s, p), p, 19, "T308_1")
          = L3(Put(s, c, p, x, u, z, l), p, 19, "T308_1")
  BY <1>1, <1>2, <1>3, L3DelTimerPut
<1> HIDE DEF u
<1>5. CASE TRUE
  <2>1. L3(L3DelTimer(s, p), p, 19, "T308_1")
            = Put(s, c, p, x, Go(u, 19, "T308_1"), z, l)
    BY <1>5, <1>1, <1>2, <1>3, <1>4, L3Put
  <2> DEFINE y1 == Go(u, 19, "T308_1")
  <2>2. /\ y1 \in l3_process /\ (y1.live <=> u.live) /\ y1.chan = u.chan /\ y1.st = 19
           /\ y1.timer = "T308_1"
    BY <1>5, <1>1, <1>2, <1>3, Go19T308_1
  <2> HIDE DEF y1
  <2>3. Next1(c, p, x, y, z, x, y1, z)
    BY <1>5, <1>1, <1>2, <1>3, <2>2
       DEF Next1, Kept, Fits, Over, Partners, PhasesOf, TimersOf, Order, Hung, Held, States,
           BStates, InStates, L3States, L3Timers, Phases
  <2> QED BY <1>1, <2>1, <2>3, Outcome DEF x, y, z, y1
<1> QED
  BY <1>1, <1>2, <1>5 DEF Fits, Partners, Channel, States, InStates, BStates

\* T308 expires for the first time.
LEMMA T308_1Step ==
    ASSUME NEW s, NEW c, NEW p, Mine(s, c, p),
           s.pr[p].st = 19
    PROVE  Result(s, c, p, L3(L3DelTimer(s, p), p, 19, "T308_2"))
<1> DEFINE x == s.ch[c]
           y == s.pr[p]
           z == s.ll[c]
           l == s.lost
<1>1. At(s, c, p) /\ s = Put(s, c, p, x, y, z, l) /\ Fits(c, p, x, y, z) /\ p # NoProc
          /\ c # NoChan /\ ~l
  BY Names DEF Mine, At
<1>2. x \in Channel /\ y \in l3_process /\ z \in LinkLevel /\ x.proc = p /\ y.chan = c
          /\ y.st = 19
  BY <1>1 DEF Fits
<1> HIDE DEF x, y, z, l
<1> DEFINE u == Timer(y, "none")
<1>3. u \in l3_process /\ u.st = y.st /\ u.timer = "none" /\ u.chan = c /\ (u.live <=> y.live)
      /\ (u.bchannel <=> y.bchannel)
  BY <1>1, <1>2, TimerIs DEF L3States, L3Timers
<1>4. L3(L3DelTimer(s, p), p, 19, "T308_2")
          = L3(Put(s, c, p, x, u, z, l), p, 19, "T308_2")
  BY <1>1, <1>2, <1>3, L3DelTimerPut
<1> HIDE DEF u
<1>5. CASE TRUE
  <2>1. L3(L3DelTimer(s, p), p, 19, "T308_2")
            = Put(s, c, p, x, Go(u, 19, "T308_2"), z, l)
    BY <1>5, <1>1, <1>2, <1>3, <1>4, L3Put
  <2> DEFINE y1 == Go(u, 19, "T308_2")
  <2>2. /\ y1 \in l3_process /\ (y1.live <=> u.live) /\ y1.chan = u.chan /\ y1.st = 19
           /\ y1.timer = "T308_2"
    BY <1>5, <1>1, <1>2, <1>3, Go19T308_2
  <2> HIDE DEF y1
  <2>3. Next1(c, p, x, y, z, x, y1, z)
    BY <1>5, <1>1, <1>2, <1>3, <2>2
       DEF Next1, Kept, Fits, Over, Partners, PhasesOf, TimersOf, Order, Hung, Held, States,
           BStates, InStates, L3States, L3Timers, Phases
  <2> QED BY <1>1, <2>1, <2>3, Outcome DEF x, y, z, y1
<1> QED
  BY <1>1, <1>2, <1>5 DEF Fits, Partners, Channel, States, InStates, BStates

\* T319 expires.
LEMMA T319Step ==
    ASSUME NEW s, NEW c, NEW p, Mine(s, c, p),
           s.pr[p].st = 15
    PROVE  Result(s, c, p, newl3state(L3DelTimer(s, p), p, 10))
<1> DEFINE x == s.ch[c]
           y == s.pr[p]
           z == s.ll[c]
           l == s.lost
<1>1. At(s, c, p) /\ s = Put(s, c, p, x, y, z, l) /\ Fits(c, p, x, y, z) /\ p # NoProc
          /\ c # NoChan /\ ~l
  BY Names DEF Mine, At
<1>2. x \in Channel /\ y \in l3_process /\ z \in LinkLevel /\ x.proc = p /\ y.chan = c
          /\ y.st = 15
  BY <1>1 DEF Fits
<1> HIDE DEF x, y, z, l
<1> DEFINE u == Timer(y, "none")
<1>3. u \in l3_process /\ u.st = y.st /\ u.timer = "none" /\ u.chan = c /\ (u.live <=> y.live)
      /\ (u.bchannel <=> y.bchannel)
  BY <1>1, <1>2, TimerIs DEF L3States, L3Timers
<1>4. newl3state(L3DelTimer(s, p), p, 10)
          = newl3state(Put(s, c, p, x, u, z, l), p, 10)
  BY <1>1, <1>2, <1>3, L3DelTimerPut
<1> HIDE DEF u
<1>5. CASE TRUE
  <2>1. newl3state(L3DelTimer(s, p), p, 10)
            = Put(s, c, p, x, L3St(u, 10), z, l)
    BY <1>5, <1>1, <1>2, <1>3, <1>4, PutL3St
  <2> DEFINE y1 == L3St(u, 10)
  <2>2. /\ y1 \in l3_process /\ (y1.live <=> u.live) /\ y1.chan = u.chan /\ y1.st = 10
           /\ y1.timer = u.timer
    BY <1>5, <1>1, <1>2, <1>3, L3StIs DEF L3States, L3Timers
  <2> HIDE DEF y1
  <2>3. Next1(c, p, x, y, z, x, y1, z)
    BY <1>5, <1>1, <1>2, <1>3, <2>2
       DEF Next1, Kept, Fits, Over, Partners, PhasesOf, TimersOf, Order, Hung, Held, States,
           BStates, InStates, L3States, L3Timers, Phases
  <2> QED BY <1>1, <2>1, <2>3, Outcome DEF x, y, z, y1
<1> QED
  BY <1>1, <1>2, <1>5 DEF Fits, Partners, Channel, States, InStates, BStates

\* The data link of an active call is lost.
LEMMA AddT309Step ==
    ASSUME NEW s, NEW c, NEW p, Mine(s, c, p),
           s.pr[p].st = 10
    PROVE  Result(s, c, p, L3AddTimer(L3DelTimer(s, p), p, "T309"))
<1> DEFINE x == s.ch[c]
           y == s.pr[p]
           z == s.ll[c]
           l == s.lost
<1>1. At(s, c, p) /\ s = Put(s, c, p, x, y, z, l) /\ Fits(c, p, x, y, z) /\ p # NoProc
          /\ c # NoChan /\ ~l
  BY Names DEF Mine, At
<1>2. x \in Channel /\ y \in l3_process /\ z \in LinkLevel /\ x.proc = p /\ y.chan = c
          /\ y.st = 10
  BY <1>1 DEF Fits
<1> HIDE DEF x, y, z, l
<1> DEFINE u == Timer(y, "none")
<1>3. u \in l3_process /\ u.st = y.st /\ u.timer = "none" /\ u.chan = c /\ (u.live <=> y.live)
      /\ (u.bchannel <=> y.bchannel)
  BY <1>1, <1>2, TimerIs DEF L3States, L3Timers
<1>4. L3AddTimer(L3DelTimer(s, p), p, "T309")
          = L3AddTimer(Put(s, c, p, x, u, z, l), p, "T309")
  BY <1>1, <1>2, <1>3, L3DelTimerPut
<1> HIDE DEF u
<1>5. CASE TRUE
  <2>1. L3AddTimer(L3DelTimer(s, p), p, "T309")
            = Put(s, c, p, x, Timer(u, "T309"), z, l)
    BY <1>5, <1>1, <1>2, <1>3, <1>4, AddedPut
  <2> DEFINE y1 == Timer(u, "T309")
  <2>2. /\ y1 \in l3_process /\ (y1.live <=> u.live) /\ y1.chan = u.chan /\ y1.st = u.st
           /\ y1.timer = "T309"
    BY <1>5, <1>1, <1>2, <1>3, TimerIs DEF L3States, L3Timers
  <2> HIDE DEF y1
  <2>3. Next1(c, p, x, y, z, x, y1, z)
    BY <1>5, <1>1, <1>2, <1>3, <2>2
       DEF Next1, Kept, Fits, Over, Partners, PhasesOf, TimersOf, Order, Hung, Held, States,
           BStates, InStates, L3States, L3Timers, Phases
  <2> QED BY <1>1, <2>1, <2>3, Outcome DEF x, y, z, y1
<1> QED
  BY <1>1, <1>2, <1>5 DEF Fits, Partners, Channel, States, InStates, BStates

\* Any other timer expires.
LEMMA StopStep ==
    ASSUME NEW s, NEW c, NEW p, Mine(s, c, p),
           s.pr[p].st \in {4, 7, 9, 10, 12, 15}, s.pr[p].st = 15 => s.pr[p].timer # "T319"
    PROVE  Result(s, c, p, L3DelTimer(s, p))
<1> DEFINE x == s.ch[c]
           y == s.pr[p]
           z == s.ll[c]
           l == s.lost
<1>1. At(s, c, p) /\ s = Put(s, c, p, x, y, z, l) /\ Fits(c, p, x, y, z) /\ p # NoProc
          /\ c # NoChan /\ ~l
  BY Names DEF Mine, At
<1>2. x \in Channel /\ y \in l3_process /\ z \in LinkLevel /\ x.proc = p /\ y.chan = c
          /\ y.st \in {4, 7, 9, 10, 12, 15} /\ (y.st = 15 => y.timer # "T319")
  BY <1>1 DEF Fits
<1> HIDE DEF x, y, z, l
<1>3. CASE TRUE
  <2>1. L3DelTimer(s, p)
            = Put(s, c, p, x, Timer(y, "none"), z, l)
    BY <1>3, <1>1, <1>2, L3DelTimerPut
  <2> DEFINE y1 == Timer(y, "none")
  <2>2. /\ y1 \in l3_process /\ (y1.live <=> y.live) /\ y1.chan = y.chan /\ y1.st = y.st
           /\ y1.timer = "none"
    BY <1>3, <1>1, <1>2, TimerIs DEF L3States, L3Timers
  <2> HIDE DEF y1
  <2>3. Next1(c, p, x, y, z, x, y1, z)
    BY <1>3, <1>1, <1>2, <2>2
       DEF Next1, Kept, Fits, Over, Partners, PhasesOf, TimersOf, Order, Hung, Held, States,
           BStates, InStates, L3States, L3Timers, Phases
  <2> QED BY <1>1, <2>1, <2>3, Outcome DEF x, y, z, y1
<1> QED
  BY <1>1, <1>2, <1>3 DEF Fits, Partners, Channel, States, InStates, BStates

\* T318 expires.
LEMMA T318Step ==
    ASSUME NEW s, NEW c, NEW p, Mine(s, c, p),
           s.pr[p].st = 17
    PROVE  Result(s, c, p, l3dss1_t318(L3DelTimer(s, p), p))
<1> DEFINE x == s.ch[c]
           y == s.pr[p]
           z == s.ll[c]
           l == s.lost
<1>1. At(s, c, p) /\ s = Put(s, c, p, x, y, z, l) /\ Fits(c, p, x, y, z) /\ p # NoProc
          /\ c # NoChan /\ ~l
  BY Names DEF Mine, At
<1>2. x \in Channel /\ y \in l3_process /\ z \in LinkLevel /\ x.proc = p /\ y.chan = c
          /\ y.st = 17
  BY <1>1 DEF Fits
<1> HIDE DEF x, y, z, l
<1> DEFINE u == Timer(y, "none")
<1>3. u \in l3_process /\ u.st = y.st /\ u.timer = "none" /\ u.chan = c /\ (u.live <=> y.live)
      /\ (u.bchannel <=> y.bchannel)
  BY <1>1, <1>2, TimerIs DEF L3States, L3Timers
<1>4. l3dss1_t318(L3DelTimer(s, p), p)
          = Lose(L3(EvRelease(Put(s, c, p, x, u, z, l), c), p, 19, "T308_1"))
  BY <1>1, <1>2, <1>3, L3DelTimerPut, PutIs DEF l3dss1_t318, l3l4
<1> HIDE DEF u
<1>5. CASE x.st \in {"OUT_DIAL", "WAIT_DRELEASE"}
  <2>0. EvRelease(Put(s, c, p, x, u, z, l), c)
            = Put(s, c, p, Closed(x), u, NoCall, l)
    BY <1>5, <1>1, <1>2, <1>3, EvReleasePut, PutIs DEF Fits, PhasesOf
  <2>1. l3dss1_t318(L3DelTimer(s, p), p)
            = Put(s, c, p, Closed(x), Go(u, 19, "T308_1"), NoCall, Yes)
    BY <1>5, <1>1, <1>2, <1>3, <1>4, <2>0, L3Put, PutLost
  <2> QED BY <1>1, <2>1, NoOutcome
<1> QED
  BY <1>1, <1>2, <1>5 DEF Fits, Partners, Channel, States, InStates, BStates

\* A timer of a call process expires.
LEMMA ExpireStep ==
    ASSUME NEW s, NEW c, NEW p, Mine(s, c, p), NEW t, t = s.pr[p].timer, t # "none"
    PROVE  Result(s, c, p, Expire(s, p, t))
<1> DEFINE u == L3DelTimer(s, p)
           st == s.pr[p].st
<1>1. st \in L3States /\ t \in TimersOf(st)
  BY DEF Mine, Fits, l3_process
<1>2. CASE t = "T302" /\ st = 25
  <2>1. Expire(s, p, t) = GiveUp(u, p, EvSetupErr)
    BY <1>2 DEF Expire, GiveUp, l3l4
  <2>2. Result(s, c, p, GiveUp(u, p, EvSetupErr))
    BY <1>2, SetupErrStep
  <2> QED BY <2>1, <2>2
<1>3. CASE t = "T304" /\ st = 2
  <2>1. Expire(s, p, t) = GiveUp(u, p, EvSetupErr)
    BY <1>3 DEF Expire, GiveUp, l3l4
  <2>2. Result(s, c, p, GiveUp(u, p, EvSetupErr))
    BY <1>3, SetupErrStep
  <2> QED BY <2>1, <2>2
<1>4. CASE t = "T310" /\ st = 3
  <2>1. Expire(s, p, t) = GiveUp(u, p, EvSetupErr)
    BY <1>4 DEF Expire, GiveUp, l3l4
  <2>2. Result(s, c, p, GiveUp(u, p, EvSetupErr))
    BY <1>4, SetupErrStep
  <2> QED BY <2>1, <2>2
<1>5. CASE t = "T313" /\ st = 8
  <2>1. Expire(s, p, t) = GiveUp(u, p, EvConnectErr)
    BY <1>5 DEF Expire, GiveUp, l3l4
  <2>2. Result(s, c, p, GiveUp(u, p, EvConnectErr))
    BY <1>5, ConnectErrStep
  <2> QED BY <2>1, <2>2
<1>6. CASE t = "T305" /\ st = 11
  <2>1. Expire(s, p, t) = L3(u, p, 19, "T308_1")
    BY <1>6 DEF Expire
  <2>2. Result(s, c, p, L3(u, p, 19, "T308_1"))
    BY <1>6, T305Step
  <2> QED BY <2>1, <2>2
<1>7. CASE t = "T308_1" /\ st = 19
  <2>1. Expire(s, p, t) = L3(u, p, 19, "T308_2")
    BY <1>7 DEF Expire
  <2>2. Result(s, c, p, L3(u, p, 19, "T308_2"))
    BY <1>7, T308_1Step
  <2> QED BY <2>1, <2>2
<1>8. CASE t = "T308_2" /\ st = 19
  <2>1. Expire(s, p, t) = EndWith(u, p, EvRelease)
    BY <1>8 DEF Expire, EndWith, l3l4
  <2>2. Result(s, c, p, EndWith(u, p, EvRelease))
    BY <1>8, T308_2Step
  <2> QED BY <2>1, <2>2
<1>9. CASE t = "T309" /\ st = 10
  <2>1. Expire(s, p, t) = EndWith(newl3state(u, p, 0), p, EvRelease)
    BY <1>9 DEF Expire, EndWith, l3l4
  <2>2. Result(s, c, p, EndWith(newl3state(u, p, 0), p, EvRelease))
    BY <1>9, T309Step
  <2> QED BY <2>1, <2>2
<1>10. CASE t = "T318" /\ st = 17
  <2>1. Expire(s, p, t) = l3dss1_t318(u, p)
    BY <1>10 DEF Expire
  <2>2. Result(s, c, p, l3dss1_t318(u, p))
    BY <1>10, T318Step
  <2> QED BY <2>1, <2>2
<1>11. CASE t = "T319" /\ st = 15
  <2>1. Expire(s, p, t) = newl3state(u, p, 10)
    BY <1>11 DEF Expire
  <2>2. Result(s, c, p, newl3state(u, p, 10))
    BY <1>11, T319Step
  <2> QED BY <2>1, <2>2
<1>12. CASE t = "T303" /\ st = 1
  <2>1. Expire(s, p, t) = l3dss1_t303(u, p)
    BY <1>12 DEF Expire, l3dss1_t303, EndWith, l3l4
  <2>2. u.pr[p].n303 = s.pr[p].n303
    BY L3DelTimerPut, PutIs, TimerIs DEF Mine, Fits, L3Timers
  <2>3. CASE s.pr[p].n303 > 0
    <3>1. l3dss1_t303(u, p) = SetupAgain(u, p)
      BY <2>2, <2>3 DEF l3dss1_t303, EndWith, l3l4
    <3>2. Result(s, c, p, SetupAgain(u, p))
      BY <1>12, <2>3, SetupAgainStep
    <3> QED BY <2>1, <3>1, <3>2
  <2>4. CASE ~(s.pr[p].n303 > 0)
    <3>1. l3dss1_t303(u, p) = EndWith(u, p, EvNoSetupRsp)
      BY <2>2, <2>4 DEF l3dss1_t303, EndWith, l3l4
    <3>2. Result(s, c, p, EndWith(u, p, EvNoSetupRsp))
      BY <1>12, NoSetupRspStep
    <3> QED BY <2>1, <3>1, <3>2
  <2> QED BY <2>3, <2>4
<1>13. CASE /\ ~(t = "T302" /\ st = 25)
            /\ ~(t = "T304" /\ st = 2)
            /\ ~(t = "T310" /\ st = 3)
            /\ ~(t = "T313" /\ st = 8)
            /\ ~(t = "T305" /\ st = 11)
            /\ ~(t = "T308_1" /\ st = 19)
            /\ ~(t = "T308_2" /\ st = 19)
            /\ ~(t = "T309" /\ st = 10)
            /\ ~(t = "T318" /\ st = 17)
            /\ ~(t = "T319" /\ st = 15)
            /\ ~(t = "T303" /\ st = 1)
  <2>1. Expire(s, p, t) = u
    BY <1>13 DEF Expire, GiveUp, EndWith, l3l4
  <2>2. st \in {4, 7, 9, 10, 12, 15}
    <3>1. st \in {1, 2, 3, 4, 7, 8, 9, 10, 11, 12, 15, 17, 19, 25}
      BY DEF Mine, Fits, Partners
    <3>2. st \notin {1, 2, 3, 8, 11, 17, 19, 25}
      BY <1>1, <1>13 DEF TimersOf
    <3> HIDE DEF st
    <3> QED BY <3>1, <3>2
  <2>4. st = 15 => t # "T319"
    BY <1>13
  <2>3. Result(s, c, p, u)
    BY <2>2, <2>4, StopStep
  <2> QED BY <2>1, <2>3
<1> QED
  BY <1>2, <1>3, <1>4, <1>5, <1>6, <1>7, <1>8, <1>9, <1>10, <1>11, <1>12, <1>13

-----------------------------------------------------------------------------
(* A call comes in *)

Asked(x) == St(x, "WAIT_LL")
Quiet(x) == DrelOff(Asked(x))

\* The channel that asked the link level, with and without drel_timer.
LEMMA QuietIs ==
    ASSUME NEW x \in Channel
    PROVE  /\ Asked(x) \in Channel /\ Asked(x).st = "WAIT_LL" /\ Asked(x).proc = x.proc
           /\ (Asked(x).start_b <=> x.start_b) /\ (Asked(x).data_open <=> x.data_open)
           /\ Quiet(x) \in Channel /\ Quiet(x).st = "WAIT_LL" /\ Quiet(x).proc = x.proc
           /\ (Quiet(x).start_b <=> x.start_b) /\ (Quiet(x).data_open <=> x.data_open)
BY StIs, DrelOffIs DEF Asked, Quiet, States, InStates

LEMMA SetupIs == Setup \in LinkLevel /\ Setup.phase = "setup" /\ ~Setup.hup
BY DEF Setup, LinkLevel

LEMMA CC_MORE_INFOPut ==
    ASSUME NEW s, NEW c, NEW p, At(s, c, p), NEW x, NEW y, NEW z, NEW l, p # NoProc
    PROVE  CC_MORE_INFO(Put(s, c, p, x, y, z, l), p)
               = IF y.st
                     = 6 THEN Put(s, c, p, x, Go(y, 25, "T302"), z, l) ELSE Put(s, c, p, x, y,
                     z, l)
BY PutIs, L3Put DEF CC_MORE_INFO, InState

LEMMA CC_IGNOREPut ==
    ASSUME NEW s, NEW c, NEW p, At(s, c, p), NEW x, NEW y, NEW z, NEW l, p # NoProc,
           y.st \in {6, 25}
    PROVE  CC_IGNORE(Put(s, c, p, x, y, z, l), p) = Put(s, c, p, x, Gone(y), z, l)
BY PutIs, release_l3_processPut DEF CC_IGNORE, InState

\* The channel that the call of process p is offered to the link level on.
Offered(s, c, p, x, y) ==
    /\ At(s, c, p) /\ x \in Channel /\ y \in l3_process /\ x.proc = p /\ p # NoProc
    /\ x.st \in {"NULL", "WAIT_LL"} /\ y.st \in {6, 25} /\ y.live /\ y.chan = c
    /\ y.timer = "none" /\ ~x.start_b /\ ~x.data_open

\* What the answer of the link level leaves: a call, or nothing.
Answered(c, p, y, x1, y1, z1) ==
    \/ /\ x1 \in Channel /\ y1 \in l3_process /\ z1 \in LinkLevel
       /\ x1.proc = p /\ y1.live /\ y1.chan = c /\ ~x1.start_b /\ ~x1.data_open
       /\ z1.phase = "setup"
       /\ \/ x1.st = "ALERT_SENT" /\ y1.st = 7
          \/ /\ ~z1.hup
             /\ \/ x1.st = "ALERT_SENT" /\ y1.st = 8 /\ y1.timer = "T313"
                \/ x1.st = "ALERT_SENT" /\ y1.st = 11 /\ y1.timer = "T305"
                \/ x1.st = "WAIT_LL" /\ y1.st = 25 /\ y1.timer = "T302"
                \/ x1.st = "WAIT_LL" /\ y1.st = 25 /\ y1.timer = "none" /\ y.st = 25
                \/ x1.st = "PROCEED_SEND" /\ y1.st = 9
    \/ Over(x1, y1, z1) /\ y1.timer = "none"

\* A call is offered to a channel that may take it.
LEMMA Offer ==
    ASSUME NEW s, NEW c, NEW p, NEW x, NEW y, NEW z, NEW l, Offered(s, c, p, x, y)
    PROVE  EvSetupInd(Put(s, c, p, x, y, z, l), c)
                 = lli_deliver_call(Put(s, c, p, x, y, z, l), c)
BY PutIs DEF Offered, EvSetupInd, In

LEMMA NewOffer ==
    ASSUME NEW s, NEW c, NEW p, NEW x, NEW y, NEW z, NEW l, Offered(s, c, p, x, y)
    PROVE  /\ ChangeState(NewCall(Put(s, c, p, x, y, z, l), c), c, "WAIT_LL")
                  = Put(s, c, p, Asked(x), y, Setup, l)
           /\ StopDrel(Put(s, c, p, Asked(x), y, Setup, l), c)
                = Put(s, c, p, Quiet(x), y, Setup, l)
           /\ Put(s, c, p, x, y, z, l).ch[c].proc = p
           /\ Put(s, c, p, x, y, z, l).env.ans = s.env.ans
BY NewCallPut, ChangeStatePut, PutDrelOff, PutIs DEF Offered, Asked, Quiet

\* One lemma for each answer of the link level: the call fits again, or is over.
LEMMA OfferRing ==
    ASSUME NEW s, NEW c, NEW p, NEW x, NEW y, NEW z, NEW l, Offered(s, c, p, x, y),
           s.env.ans = "ring"
    PROVE  \E x1, y1, z1 :
               /\ EvSetupInd(Put(s, c, p, x, y, z, l), c) = Put(s, c, p, x1, y1, z1, l)
               /\ Answered(c, p, y, x1, y1, z1)
<1> DEFINE P == Put(s, c, p, x, y, z, l)
           x1 == St(Quiet(x), "ALERT_SENT")
           y1 == L3St(y, 7)
           z1 == Setup
<1>1. EvSetupInd(P, c) = lli_deliver_call(P, c)
  BY Offer
<1>2. lli_deliver_call(P, c)
            = CC_ALERTING(ChangeState(Put(s, c, p, Quiet(x), y, Setup, l), c, "ALERT_SENT"), p)
  BY NewOffer DEF lli_deliver_call
<1>3. /\ At(s, c, p) /\ x \in Channel /\ y \in l3_process /\ x.proc = p /\ p # NoProc
         /\ y.st \in {6, 25}
      /\ y.timer = "none" /\ y.live /\ y.chan = c /\ ~x.start_b /\ ~x.data_open
  BY DEF Offered
<1>4. /\ Asked(x) \in Channel /\ Asked(x).st = "WAIT_LL" /\ Asked(x).proc = p
      /\ ~Asked(x).start_b /\ ~Asked(x).data_open
      /\ Quiet(x) \in Channel /\ Quiet(x).st = "WAIT_LL" /\ Quiet(x).proc = p
      /\ ~Quiet(x).start_b /\ ~Quiet(x).data_open
  BY <1>3, QuietIs
<1>5. CC_ALERTING(ChangeState(Put(s, c, p, Quiet(x), y, Setup, l), c, "ALERT_SENT"), p)
            = Put(s, c, p, x1, y1, z1, l)
  BY <1>3, <1>4, ChangeStatePut, CC_ALERTINGPut
<1>6. /\ x1 \in Channel /\ x1.st = "ALERT_SENT" /\ x1.proc = p /\ ~x1.start_b /\ ~x1.data_open
      /\ y1 \in l3_process /\ y1.st = 7 /\ y1.live /\ y1.chan = c
      /\ z1 \in LinkLevel /\ z1.phase = "setup" /\ ~z1.hup
  BY <1>3, <1>4, StIs, L3StIs, SetupIs DEF States, InStates, BStates, L3States, L3Timers
<1> HIDE DEF P, x1, y1, z1
<1>7. Answered(c, p, y, x1, y1, z1)
  BY <1>3, <1>6 DEF Answered, Over
<1>8. EvSetupInd(P, c) = Put(s, c, p, x1, y1, z1, l)
  BY <1>1, <1>2, <1>5
<1> QED BY <1>7, <1>8 DEF P

LEMMA OfferProceed ==
    ASSUME NEW s, NEW c, NEW p, NEW x, NEW y, NEW z, NEW l, Offered(s, c, p, x, y),
           s.env.ans = "proceed"
    PROVE  \E x1, y1, z1 :
               /\ EvSetupInd(Put(s, c, p, x, y, z, l), c) = Put(s, c, p, x1, y1, z1, l)
               /\ Answered(c, p, y, x1, y1, z1)
<1> DEFINE P == Put(s, c, p, x, y, z, l)
           x1 == St(Quiet(x), "PROCEED_SEND")
           y1 == L3St(y, 9)
           z1 == Setup
<1>1. EvSetupInd(P, c) = lli_deliver_call(P, c)
  BY Offer
<1>2. lli_deliver_call(P, c)
            = CC_PROCEED_SEND(ChangeState(Put(s, c, p, Quiet(x), y, Setup, l), c,
            "PROCEED_SEND"), p)
  BY NewOffer DEF lli_deliver_call
<1>3. /\ At(s, c, p) /\ x \in Channel /\ y \in l3_process /\ x.proc = p /\ p # NoProc
         /\ y.st \in {6, 25}
      /\ y.timer = "none" /\ y.live /\ y.chan = c /\ ~x.start_b /\ ~x.data_open
  BY DEF Offered
<1>4. /\ Asked(x) \in Channel /\ Asked(x).st = "WAIT_LL" /\ Asked(x).proc = p
      /\ ~Asked(x).start_b /\ ~Asked(x).data_open
      /\ Quiet(x) \in Channel /\ Quiet(x).st = "WAIT_LL" /\ Quiet(x).proc = p
      /\ ~Quiet(x).start_b /\ ~Quiet(x).data_open
  BY <1>3, QuietIs
<1>5. CC_PROCEED_SEND(ChangeState(Put(s, c, p, Quiet(x), y, Setup, l), c, "PROCEED_SEND"), p)
            = Put(s, c, p, x1, y1, z1, l)
  BY <1>3, <1>4, ChangeStatePut, CC_PROCEED_SENDPut
<1>6. /\ x1 \in Channel /\ x1.st = "PROCEED_SEND" /\ x1.proc = p /\ ~x1.start_b /\ ~x1.data_open
      /\ y1 \in l3_process /\ y1.st = 9 /\ y1.live /\ y1.chan = c
      /\ z1 \in LinkLevel /\ z1.phase = "setup" /\ ~z1.hup
  BY <1>3, <1>4, StIs, L3StIs, SetupIs DEF States, InStates, BStates, L3States, L3Timers
<1> HIDE DEF P, x1, y1, z1
<1>7. Answered(c, p, y, x1, y1, z1)
  BY <1>3, <1>6 DEF Answered, Over
<1>8. EvSetupInd(P, c) = Put(s, c, p, x1, y1, z1, l)
  BY <1>1, <1>2, <1>5
<1> QED BY <1>7, <1>8 DEF P

LEMMA OfferMore ==
    ASSUME NEW s, NEW c, NEW p, NEW x, NEW y, NEW z, NEW l, Offered(s, c, p, x, y),
           s.env.ans = "more", y.st = 6
    PROVE  \E x1, y1, z1 :
               /\ EvSetupInd(Put(s, c, p, x, y, z, l), c) = Put(s, c, p, x1, y1, z1, l)
               /\ Answered(c, p, y, x1, y1, z1)
<1> DEFINE P == Put(s, c, p, x, y, z, l)
           x1 == Quiet(x)
           y1 == Go(y, 25, "T302")
           z1 == Setup
<1>1. EvSetupInd(P, c) = lli_deliver_call(P, c)
  BY Offer
<1>2. lli_deliver_call(P, c) = CC_MORE_INFO(Put(s, c, p, Quiet(x), y, Setup, l), p)
  BY NewOffer DEF lli_deliver_call
<1>3. /\ At(s, c, p) /\ x \in Channel /\ y \in l3_process /\ x.proc = p /\ p # NoProc
         /\ y.st \in {6, 25}
      /\ y.timer = "none" /\ y.live /\ y.chan = c /\ ~x.start_b /\ ~x.data_open
  BY DEF Offered
<1>4. /\ Asked(x) \in Channel /\ Asked(x).st = "WAIT_LL" /\ Asked(x).proc = p
      /\ ~Asked(x).start_b /\ ~Asked(x).data_open
      /\ Quiet(x) \in Channel /\ Quiet(x).st = "WAIT_LL" /\ Quiet(x).proc = p
      /\ ~Quiet(x).start_b /\ ~Quiet(x).data_open
  BY <1>3, QuietIs
<1>5. CC_MORE_INFO(Put(s, c, p, Quiet(x), y, Setup, l), p) = Put(s, c, p, x1, y1, z1, l)
  BY <1>3, <1>4, CC_MORE_INFOPut
<1>6. /\ x1 \in Channel /\ x1.st = "WAIT_LL" /\ x1.proc = p /\ ~x1.start_b /\ ~x1.data_open
      /\ y1 \in l3_process /\ y1.st = 25 /\ y1.live /\ y1.chan = c /\ y1.timer = "T302"
      /\ z1 \in LinkLevel /\ z1.phase = "setup" /\ ~z1.hup
  BY <1>3, <1>4, Go25T302, SetupIs DEF States, InStates, BStates
<1> HIDE DEF P, x1, y1, z1
<1>7. Answered(c, p, y, x1, y1, z1)
  BY <1>3, <1>6 DEF Answered, Over
<1>8. EvSetupInd(P, c) = Put(s, c, p, x1, y1, z1, l)
  BY <1>1, <1>2, <1>5
<1> QED BY <1>7, <1>8 DEF P

LEMMA OfferMoreAgain ==
    ASSUME NEW s, NEW c, NEW p, NEW x, NEW y, NEW z, NEW l, Offered(s, c, p, x, y),
           s.env.ans = "more", y.st = 25
    PROVE  \E x1, y1, z1 :
               /\ EvSetupInd(Put(s, c, p, x, y, z, l), c) = Put(s, c, p, x1, y1, z1, l)
               /\ Answered(c, p, y, x1, y1, z1)
<1> DEFINE P == Put(s, c, p, x, y, z, l)
           x1 == Quiet(x)
           y1 == y
           z1 == Setup
<1>1. EvSetupInd(P, c) = lli_deliver_call(P, c)
  BY Offer
<1>2. lli_deliver_call(P, c) = CC_MORE_INFO(Put(s, c, p, Quiet(x), y, Setup, l), p)
  BY NewOffer DEF lli_deliver_call
<1>3. /\ At(s, c, p) /\ x \in Channel /\ y \in l3_process /\ x.proc = p /\ p # NoProc
         /\ y.st \in {6, 25}
      /\ y.timer = "none" /\ y.live /\ y.chan = c /\ ~x.start_b /\ ~x.data_open
  BY DEF Offered
<1>4. /\ Asked(x) \in Channel /\ Asked(x).st = "WAIT_LL" /\ Asked(x).proc = p
      /\ ~Asked(x).start_b /\ ~Asked(x).data_open
      /\ Quiet(x) \in Channel /\ Quiet(x).st = "WAIT_LL" /\ Quiet(x).proc = p
      /\ ~Quiet(x).start_b /\ ~Quiet(x).data_open
  BY <1>3, QuietIs
<1>5. CC_MORE_INFO(Put(s, c, p, Quiet(x), y, Setup, l), p) = Put(s, c, p, x1, y1, z1, l)
  BY <1>3, <1>4, CC_MORE_INFOPut
<1>6. /\ x1 \in Channel /\ x1.st = "WAIT_LL" /\ x1.proc = p /\ ~x1.start_b /\ ~x1.data_open
      /\ y1 \in l3_process /\ y1.st = 25 /\ y1.live /\ y1.chan = c /\ y1.timer = "none"
         /\ y.st = 25
      /\ z1 \in LinkLevel /\ z1.phase = "setup" /\ ~z1.hup
  BY <1>3, <1>4, SetupIs DEF States, InStates, BStates, L3States, L3Timers
<1> HIDE DEF P, x1, y1, z1
<1>7. Answered(c, p, y, x1, y1, z1)
  BY <1>3, <1>6 DEF Answered, Over
<1>8. EvSetupInd(P, c) = Put(s, c, p, x1, y1, z1, l)
  BY <1>1, <1>2, <1>5
<1> QED BY <1>7, <1>8 DEF P

LEMMA OfferReject ==
    ASSUME NEW s, NEW c, NEW p, NEW x, NEW y, NEW z, NEW l, Offered(s, c, p, x, y),
           s.env.ans = "reject"
    PROVE  \E x1, y1, z1 :
               /\ EvSetupInd(Put(s, c, p, x, y, z, l), c) = Put(s, c, p, x1, y1, z1, l)
               /\ Answered(c, p, y, x1, y1, z1)
<1> DEFINE P == Put(s, c, p, x, y, z, l)
           x1 == DrelOn(St(Asked(x), "ALERT_SENT"))
           y1 == L3St(y, 7)
           z1 == Hup(Setup)
<1>1. EvSetupInd(P, c) = lli_deliver_call(P, c)
  BY Offer
<1>2. lli_deliver_call(P, c) = EvHangup(HungUp(Put(s, c, p, Asked(x), y, Setup, l), c), c)
  BY NewOffer DEF lli_deliver_call
<1>3. /\ At(s, c, p) /\ x \in Channel /\ y \in l3_process /\ x.proc = p /\ p # NoProc
         /\ y.st \in {6, 25}
      /\ y.timer = "none" /\ y.live /\ y.chan = c /\ ~x.start_b /\ ~x.data_open
  BY DEF Offered
<1>4. /\ Asked(x) \in Channel /\ Asked(x).st = "WAIT_LL" /\ Asked(x).proc = p
      /\ ~Asked(x).start_b /\ ~Asked(x).data_open
      /\ Quiet(x) \in Channel /\ Quiet(x).st = "WAIT_LL" /\ Quiet(x).proc = p
      /\ ~Quiet(x).start_b /\ ~Quiet(x).data_open
  BY <1>3, QuietIs
<1>5. EvHangup(HungUp(Put(s, c, p, Asked(x), y, Setup, l), c), c) = Put(s, c, p, x1, y1, z1, l)
  BY <1>3, <1>4, PutHup, EvHangupPut, HupIs, SetupIs
<1>6. /\ x1 \in Channel /\ x1.st = "ALERT_SENT" /\ x1.proc = p /\ ~x1.start_b /\ ~x1.data_open
      /\ y1 \in l3_process /\ y1.st = 7 /\ y1.live /\ y1.chan = c
      /\ z1 \in LinkLevel /\ z1.phase = "setup"
  BY <1>3, <1>4, StIs, DrelOnIs, L3StIs, SetupIs, HupIs
     DEF States, InStates, BStates, L3States, L3Timers
<1> HIDE DEF P, x1, y1, z1
<1>7. Answered(c, p, y, x1, y1, z1)
  BY <1>3, <1>6 DEF Answered, Over
<1>8. EvSetupInd(P, c) = Put(s, c, p, x1, y1, z1, l)
  BY <1>1, <1>2, <1>5
<1> QED BY <1>7, <1>8 DEF P

LEMMA OfferAccept ==
    ASSUME NEW s, NEW c, NEW p, NEW x, NEW y, NEW z, NEW l, Offered(s, c, p, x, y),
           s.env.ans = "accept", y.bchannel
    PROVE  \E x1, y1, z1 :
               /\ EvSetupInd(Put(s, c, p, x, y, z, l), c) = Put(s, c, p, x1, y1, z1, l)
               /\ Answered(c, p, y, x1, y1, z1)
<1> DEFINE P == Put(s, c, p, x, y, z, l)
           x1 == St(St(Quiet(x), "WAIT_CONN_ACK"), "ALERT_SENT")
           y1 == Go(y, 8, "T313")
           z1 == Setup
<1>1. EvSetupInd(P, c) = lli_deliver_call(P, c)
  BY Offer
<1>2. lli_deliver_call(P, c)
            = CC_ALERTING(ChangeState(EvAcceptd(Put(s, c, p, Quiet(x), y, Setup, l), c), c,
            "ALERT_SENT"), p)
  BY NewOffer DEF lli_deliver_call
<1>3. /\ At(s, c, p) /\ x \in Channel /\ y \in l3_process /\ x.proc = p /\ p # NoProc
         /\ y.st \in {6, 25}
      /\ y.timer = "none" /\ y.live /\ y.chan = c /\ ~x.start_b /\ ~x.data_open
  BY DEF Offered
<1>4. /\ Asked(x) \in Channel /\ Asked(x).st = "WAIT_LL" /\ Asked(x).proc = p
      /\ ~Asked(x).start_b /\ ~Asked(x).data_open
      /\ Quiet(x) \in Channel /\ Quiet(x).st = "WAIT_LL" /\ Quiet(x).proc = p
      /\ ~Quiet(x).start_b /\ ~Quiet(x).data_open
  BY <1>3, QuietIs
<1>a. EvAcceptd(Put(s, c, p, Quiet(x), y, Setup, l), c)
            = Put(s, c, p, St(Quiet(x), "WAIT_CONN_ACK"), y1, Setup, l)
  BY <1>3, <1>4, EvAcceptdPut, SetupIs
<1>b. /\ St(Quiet(x), "WAIT_CONN_ACK") \in Channel /\ St(Quiet(x), "WAIT_CONN_ACK").proc = p
      /\ ~St(Quiet(x), "WAIT_CONN_ACK").start_b /\ ~St(Quiet(x), "WAIT_CONN_ACK").data_open
      /\ y1 \in l3_process /\ y1.st = 8 /\ y1.live /\ y1.chan = c /\ y1.timer = "T313"
  BY <1>3, <1>4, StIs, Go8T313 DEF States, InStates, BStates
<1>5. CC_ALERTING(ChangeState(EvAcceptd(Put(s, c, p, Quiet(x), y, Setup, l), c), c,
              "ALERT_SENT"), p) = Put(s, c, p, x1, y1, z1, l)
  BY <1>3, <1>4, <1>a, <1>b, ChangeStatePut, CC_ALERTINGPut
<1>6. /\ x1 \in Channel /\ x1.st = "ALERT_SENT" /\ x1.proc = p /\ ~x1.start_b /\ ~x1.data_open
      /\ y1 \in l3_process /\ y1.st = 8 /\ y1.live /\ y1.chan = c /\ y1.timer = "T313"
      /\ z1 \in LinkLevel /\ z1.phase = "setup" /\ ~z1.hup
  BY <1>3, <1>4, <1>b, StIs, SetupIs DEF States, InStates, BStates, L3States, L3Timers
<1> HIDE DEF P, x1, y1, z1
<1>7. Answered(c, p, y, x1, y1, z1)
  BY <1>3, <1>6 DEF Answered, Over
<1>8. EvSetupInd(P, c) = Put(s, c, p, x1, y1, z1, l)
  BY <1>1, <1>2, <1>5
<1> QED BY <1>7, <1>8 DEF P

LEMMA OfferAcceptWaiting ==
    ASSUME NEW s, NEW c, NEW p, NEW x, NEW y, NEW z, NEW l, Offered(s, c, p, x, y),
           s.env.ans = "accept", ~y.bchannel
    PROVE  \E x1, y1, z1 :
               /\ EvSetupInd(Put(s, c, p, x, y, z, l), c) = Put(s, c, p, x1, y1, z1, l)
               /\ Answered(c, p, y, x1, y1, z1)
<1> DEFINE P == Put(s, c, p, x, y, z, l)
           x1 == St(St(Quiet(x), "WAIT_CONN_ACK"), "ALERT_SENT")
           y1 == Go(y, 11, "T305")
           z1 == Setup
<1>1. EvSetupInd(P, c) = lli_deliver_call(P, c)
  BY Offer
<1>2. lli_deliver_call(P, c)
            = CC_ALERTING(ChangeState(EvAcceptd(Put(s, c, p, Quiet(x), y, Setup, l), c), c,
            "ALERT_SENT"), p)
  BY NewOffer DEF lli_deliver_call
<1>3. /\ At(s, c, p) /\ x \in Channel /\ y \in l3_process /\ x.proc = p /\ p # NoProc
         /\ y.st \in {6, 25}
      /\ y.timer = "none" /\ y.live /\ y.chan = c /\ ~x.start_b /\ ~x.data_open
  BY DEF Offered
<1>4. /\ Asked(x) \in Channel /\ Asked(x).st = "WAIT_LL" /\ Asked(x).proc = p
      /\ ~Asked(x).start_b /\ ~Asked(x).data_open
      /\ Quiet(x) \in Channel /\ Quiet(x).st = "WAIT_LL" /\ Quiet(x).proc = p
      /\ ~Quiet(x).start_b /\ ~Quiet(x).data_open
  BY <1>3, QuietIs
<1>a. EvAcceptd(Put(s, c, p, Quiet(x), y, Setup, l), c)
            = Put(s, c, p, St(Quiet(x), "WAIT_CONN_ACK"), y1, Setup, l)
  BY <1>3, <1>4, EvAcceptdPut, SetupIs
<1>b. /\ St(Quiet(x), "WAIT_CONN_ACK") \in Channel /\ St(Quiet(x), "WAIT_CONN_ACK").proc = p
      /\ ~St(Quiet(x), "WAIT_CONN_ACK").start_b /\ ~St(Quiet(x), "WAIT_CONN_ACK").data_open
      /\ y1 \in l3_process /\ y1.st = 11 /\ y1.live /\ y1.chan = c /\ y1.timer = "T305"
  BY <1>3, <1>4, StIs, Go11T305 DEF States, InStates, BStates
<1>5. CC_ALERTING(ChangeState(EvAcceptd(Put(s, c, p, Quiet(x), y, Setup, l), c), c,
              "ALERT_SENT"), p) = Put(s, c, p, x1, y1, z1, l)
  BY <1>3, <1>4, <1>a, <1>b, ChangeStatePut, CC_ALERTINGPut
<1>6. /\ x1 \in Channel /\ x1.st = "ALERT_SENT" /\ x1.proc = p /\ ~x1.start_b /\ ~x1.data_open
      /\ y1 \in l3_process /\ y1.st = 11 /\ y1.live /\ y1.chan = c /\ y1.timer = "T305"
      /\ z1 \in LinkLevel /\ z1.phase = "setup" /\ ~z1.hup
  BY <1>3, <1>4, <1>b, StIs, SetupIs DEF States, InStates, BStates, L3States, L3Timers
<1> HIDE DEF P, x1, y1, z1
<1>7. Answered(c, p, y, x1, y1, z1)
  BY <1>3, <1>6 DEF Answered, Over
<1>8. EvSetupInd(P, c) = Put(s, c, p, x1, y1, z1, l)
  BY <1>1, <1>2, <1>5
<1> QED BY <1>7, <1>8 DEF P

LEMMA OfferIgnore ==
    ASSUME NEW s, NEW c, NEW p, NEW x, NEW y, NEW z, NEW l, Offered(s, c, p, x, y),
           s.env.ans = "ignore"
    PROVE  \E x1, y1, z1 :
               /\ EvSetupInd(Put(s, c, p, x, y, z, l), c) = Put(s, c, p, x1, y1, z1, l)
               /\ Answered(c, p, y, x1, y1, z1)
<1> DEFINE P == Put(s, c, p, x, y, z, l)
           x1 == St(Asked(x), "NULL")
           y1 == Gone(y)
           z1 == Phase(Setup, "null")
<1>1. EvSetupInd(P, c) = lli_deliver_call(P, c)
  BY Offer
<1>2. lli_deliver_call(P, c)
            = Tell(ChangeState(CC_IGNORE(Put(s, c, p, Asked(x), y, Setup, l), p), c, "NULL"),
            c, "null")
  BY NewOffer DEF lli_deliver_call
<1>3. /\ At(s, c, p) /\ x \in Channel /\ y \in l3_process /\ x.proc = p /\ p # NoProc
         /\ y.st \in {6, 25}
      /\ y.timer = "none" /\ y.live /\ y.chan = c /\ ~x.start_b /\ ~x.data_open
  BY DEF Offered
<1>4. /\ Asked(x) \in Channel /\ Asked(x).st = "WAIT_LL" /\ Asked(x).proc = p
      /\ ~Asked(x).start_b /\ ~Asked(x).data_open
      /\ Quiet(x) \in Channel /\ Quiet(x).st = "WAIT_LL" /\ Quiet(x).proc = p
      /\ ~Quiet(x).start_b /\ ~Quiet(x).data_open
  BY <1>3, QuietIs
<1>5. Tell(ChangeState(CC_IGNORE(Put(s, c, p, Asked(x), y, Setup, l), p), c, "NULL"), c,
              "null") = Put(s, c, p, x1, y1, z1, l)
  BY <1>3, <1>4, CC_IGNOREPut, ChangeStatePut, TellPut
<1>6. /\ x1 \in Channel /\ x1.st = "NULL" /\ ~x1.start_b /\ ~x1.data_open
      /\ y1 \in l3_process /\ ~y1.live /\ y1.chan = NoChan /\ y1.timer = "none"
      /\ z1 \in LinkLevel /\ z1.phase = "null" /\ ~z1.hup
  BY <1>3, <1>4, StIs, GoneIs, SetupIs, PhaseIs
     DEF States, InStates, BStates, L3States, L3Timers, Phases
<1> HIDE DEF P, x1, y1, z1
<1>7. Answered(c, p, y, x1, y1, z1)
  BY <1>3, <1>6 DEF Answered, Over
<1>8. EvSetupInd(P, c) = Put(s, c, p, x1, y1, z1, l)
  BY <1>1, <1>2, <1>5
<1> QED BY <1>7, <1>8 DEF P

\* Whatever the link level answers.
LEMMA OfferStep ==
    ASSUME NEW s, NEW c, NEW p, NEW x, NEW y, NEW z, NEW l, Offered(s, c, p, x, y),
           s.env.ans \in Answers
    PROVE  \E x1, y1, z1 :
               /\ EvSetupInd(Put(s, c, p, x, y, z, l), c) = Put(s, c, p, x1, y1, z1, l)
               /\ Answered(c, p, y, x1, y1, z1)
<1>1. y.st \in {6, 25}
  BY DEF Offered
<1>2. CASE s.env.ans = "ring"
  BY <1>2, OfferRing
<1>3. CASE s.env.ans = "proceed"
  BY <1>3, OfferProceed
<1>4. CASE s.env.ans = "more"
  BY <1>1, <1>4, OfferMore, OfferMoreAgain
<1>5. CASE s.env.ans = "reject"
  BY <1>5, OfferReject
<1>6. CASE s.env.ans = "accept"
  BY <1>6, OfferAccept, OfferAcceptWaiting
<1>7. CASE s.env.ans = "ignore"
  BY <1>7, OfferIgnore
<1> QED BY <1>2, <1>3, <1>4, <1>5, <1>6, <1>7 DEF Answers

\* INFORMATION, of overlap receiving: the link level is asked again.
LEMMA InformationStep ==
    ASSUME NEW s, NEW c, NEW p, Mine(s, c, p), s.pr[p].st = 25, s.env.ans \in Answers
    PROVE  Result(s, c, p, Receive(s, p, "INFORMATION"))
<1> DEFINE x == s.ch[c]
           y == s.pr[p]
           z == s.ll[c]
           l == s.lost
           u == Timer(y, "none")
           r == Receive(s, p, "INFORMATION")
<1>1. At(s, c, p) /\ s = Put(s, c, p, x, y, z, l) /\ Fits(c, p, x, y, z) /\ p # NoProc
          /\ c # NoChan
  BY Names DEF Mine, At
<1>2. /\ x \in Channel /\ y \in l3_process /\ z \in LinkLevel /\ x.proc = p /\ y.chan = c
         /\ y.live
      /\ y.st = 25
  BY <1>1 DEF Fits
<1>3. x.st = "WAIT_LL" /\ z.phase = "setup" /\ ~z.hup /\ ~x.start_b /\ ~x.data_open
  BY <1>1, <1>2 DEF Fits, Partners, PhasesOf, Channel, States, InStates, BStates
<1> HIDE DEF x, y, z, l
<1>4. u \in l3_process /\ u.st = 25 /\ u.timer = "none" /\ u.chan = c /\ u.live
  BY <1>2, TimerIs DEF L3Timers
<1>5. r = L3AddTimer(EvSetupInd(Put(s, c, p, x, u, z, l), c), p, "T302")
  BY <1>1, <1>2, <1>4, L3DelTimerPut, PutIs DEF Receive, l3dss1_information, l3l4
<1>6. Offered(s, c, p, x, u)
  BY <1>1, <1>2, <1>3, <1>4 DEF Offered
<1> HIDE DEF u, r
<1>7. PICK x1, y1, z1 :
          /\ EvSetupInd(Put(s, c, p, x, u, z, l), c) = Put(s, c, p, x1, y1, z1, l)
          /\ Answered(c, p, u, x1, y1, z1)
  BY <1>6, OfferStep
<1>8. y1 \in l3_process
  BY <1>7 DEF Answered, Over
<1>9. CASE y1.timer = "none"
  <2> DEFINE y2 == Timer(y1, "T302")
  <2>1. r = Put(s, c, p, x1, y2, z1, l)
    BY <1>1, <1>5, <1>7, <1>9, AddedPut
  <2>2. /\ y2 \in l3_process /\ y2.st = y1.st /\ y2.timer = "T302" /\ y2.chan = y1.chan
        /\ (y2.live <=> y1.live)
    BY <1>8, TimerIs DEF L3Timers
  <2> HIDE DEF y2
  <2>3. Next1(c, p, x, y, z, x1, y2, z1)
    BY <1>2, <1>3, <1>7, <1>9, <2>2
       DEF Next1, Kept, Answered, Fits, Over, Partners, PhasesOf, TimersOf, Order, Hung, Held,
           L3Timers, BStates
  <2>4. Result(s, c, p, r)
    BY <1>1, <2>1, <2>3, Outcome DEF x, y, z
  <2> QED BY <2>4 DEF r
<1>10. CASE y1.timer # "none"
  <2>1. r = Put(s, c, p, x1, y1, z1, l)
    BY <1>1, <1>5, <1>7, <1>10, L3AddTimerPut
  <2>2. Next1(c, p, x, y, z, x1, y1, z1)
    BY <1>2, <1>3, <1>7, <1>10
       DEF Next1, Kept, Answered, Fits, Over, Partners, PhasesOf, TimersOf, Order, Hung, Held,
           L3Timers, BStates, l3_process
  <2>3. Result(s, c, p, r)
    BY <1>1, <2>1, <2>2, Outcome DEF x, y, z
  <2> QED BY <2>3 DEF r
<1> QED BY <1>9, <1>10

\* A free channel, and memory for its process.
Idle(s, c, p) ==
    /\ At(s, c, p) /\ ~s.lost
    /\ s = Put(s, c, p, s.ch[c], s.pr[p], s.ll[c], s.lost)
    /\ Over(s.ch[c], s.pr[p], s.ll[c])

NewL3(st, c, timer, b) ==
    [live |-> TRUE, st |-> st, chan |-> c, timer |-> timer, n303 |-> 1, bchannel |-> b]

\* The process that a call begins with.
LEMMA NewL3Is ==
    ASSUME NEW st \in L3States, NEW c \in Channels, NEW t \in L3Timers, NEW b \in BOOLEAN
    PROVE  /\ NewL3(st, c, t, b) \in l3_process /\ NewL3(st, c, t, b).st = st
              /\ NewL3(st, c, t, b).live
           /\ NewL3(st, c, t, b).timer = t /\ NewL3(st, c, t, b).chan = c
BY DEF NewL3, l3_process

LEMMA PutNewL3 ==
    ASSUME NEW s, NEW c, NEW p, At(s, c, p), NEW x, NEW y, NEW z, NEW l, NEW w
    PROVE  SetPr(Put(s, c, p, x, y, z, l), p, w) = Put(s, c, p, x, w, z, l)
BY PutPr DEF SetPr

\* SETUP of the network.
LEMMA SetupStep ==
    ASSUME NEW s, NEW c, NEW p, Idle(s, c, p), NEW b \in BOOLEAN, s.env.ans \in Answers
    PROVE  Result(s, c, p, EvSetupInd(SetPr(SetProc(s, c, p), p, NewL3(6, c, "none", b)), c))
<1> DEFINE x == s.ch[c]
           y == s.pr[p]
           z == s.ll[c]
           l == s.lost
           w == Proc(x, p)
           u == NewL3(6, c, "none", b)
           s0 == SetPr(SetProc(s, c, p), p, u)
<1>1. At(s, c, p) /\ s = Put(s, c, p, x, y, z, l) /\ Over(x, y, z) /\ p # NoProc /\ p \in Procs
          /\ c \in Channels
  BY Names DEF Idle, At
<1>2. x \in Channel /\ x.st = "NULL" /\ ~x.start_b /\ ~x.data_open /\ z.phase = "null" /\ ~z.hup
  BY <1>1 DEF Over
<1> HIDE DEF x, y, z, l
<1>3. u \in l3_process /\ u.st = 6 /\ u.timer = "none" /\ u.chan = c /\ u.live
  BY <1>1, NewL3Is DEF L3States, L3Timers
<1>4. w \in Channel /\ w.st = "NULL" /\ w.proc = p /\ ~w.start_b /\ ~w.data_open
  BY <1>1, <1>2, ProcIs
<1>5. s0 = Put(s, c, p, w, u, z, l)
  BY <1>1, PutProc, PutNewL3
<1>6. Offered(s, c, p, w, u)
  BY <1>1, <1>3, <1>4 DEF Offered
<1> HIDE DEF u, w, s0
<1>7. PICK x1, y1, z1 :
          /\ EvSetupInd(Put(s, c, p, w, u, z, l), c) = Put(s, c, p, x1, y1, z1, l)
          /\ Answered(c, p, u, x1, y1, z1)
  BY <1>6, OfferStep
<1>8. Next1(c, p, x, y, z, x1, y1, z1)
  BY <1>2, <1>3, <1>7
     DEF Next1, Kept, Answered, Fits, Over, Partners, PhasesOf, TimersOf, Order, Hung, Held,
         L3Timers, BStates, l3_process
<1>9. Result(s, c, p, EvSetupInd(s0, c))
  BY <1>1, <1>5, <1>7, <1>8, Outcome DEF x, y, z
<1> QED BY <1>9 DEF s0, u

-----------------------------------------------------------------------------
(* A call goes out *)

Begun(x, p) == Proc(Dial(DrelOff(St(x, "OUT_DIAL")), "none"), p)

LEMMA BegunIs ==
    ASSUME NEW x \in Channel, NEW p \in Procs
    PROVE  /\ Begun(x, p) \in Channel /\ Begun(x, p).st = "OUT_DIAL" /\ Begun(x, p).proc = p
           /\ (Begun(x, p).start_b <=> x.start_b) /\ (Begun(x, p).data_open <=> x.data_open)
<1> DEFINE x1 == St(x, "OUT_DIAL")
           x2 == DrelOff(x1)
           x3 == Dial(x2, "none")
<1>1. x1 \in Channel /\ x1.st = "OUT_DIAL" /\ (x1.start_b <=> x.start_b)
          /\ (x1.data_open <=> x.data_open)
  BY StIs DEF States
<1> HIDE DEF x1
<1>2. x2 \in Channel /\ x2.st = "OUT_DIAL" /\ (x2.start_b <=> x.start_b)
          /\ (x2.data_open <=> x.data_open)
  BY <1>1, DrelOffIs
<1> HIDE DEF x2
<1>3. x3 \in Channel /\ x3.st = "OUT_DIAL" /\ (x3.start_b <=> x.start_b)
          /\ (x3.data_open <=> x.data_open)
  BY <1>2, DialIs
<1>4. Begun(x, p) = Proc(x3, p)
  BY DEF Begun, x2, x1
<1> HIDE DEF x3
<1> QED BY <1>3, <1>4, ProcIs

LEMMA lli_prepPut ==
    ASSUME NEW s, NEW c, NEW p, At(s, c, p), NEW x, NEW y, NEW z, NEW l, NEW st, NEW t,
           s.env.new = p
    PROVE  lli_prep(Put(s, c, p, x, y, z, l), c, st, t)
               = Put(s, c, p, Begun(x, p), NewL3(st, c, t, Yes), Setup, l)
<1> DEFINE P == Put(s, c, p, x, y, z, l)
           q == SetLl(SetDial(StopDrel(SetSt(P, c, "OUT_DIAL"), c), c, "none"), c, Setup)
<1>1. lli_prep(P, c, st, t) = SetPr(SetProc(q, c, q.env.new), q.env.new, NewL3(st, c, t, Yes))
  BY
     DEF lli_prep, new_process, NewCall, SetPr, SetProc, SetLl, SetDial, StopDrel, SetSt,
         Setup, NewL3, Yes
<1>2. q = Put(s, c, p, Dial(DrelOff(St(x, "OUT_DIAL")), "none"), y, Setup, l)
  BY PutSt, PutDrelOff, PutDial, PutLl DEF SetLl
<1>3. q.env.new = p
  BY <1>2, PutIs
<1> HIDE DEF q
<1> QED BY <1>1, <1>2, <1>3, PutProc, PutNewL3 DEF Begun

\* CC_SETUP and CC_RESUME: a channel that is free gets a process.
LEMMA PrepStep ==
    ASSUME NEW s, NEW c, NEW p, Idle(s, c, p), s.env.new = p, NEW x \in Channel,
           NEW st \in {1, 17}, NEW t \in {"T303", "T318"}, st = 1 <=> t = "T303",
           x.st = "NULL", ~x.start_b, ~x.data_open
    PROVE  Result(s, c, p, lli_prep(Put(s, c, p, x, s.pr[p], s.ll[c], s.lost), c, st, t))
<1> DEFINE y == s.pr[p]
           z == s.ll[c]
           l == s.lost
           x1 == Begun(x, p)
           y1 == NewL3(st, c, t, Yes)
<1>1. At(s, c, p) /\ Over(s.ch[c], y, z) /\ p \in Procs /\ c \in Channels
  BY DEF Idle, At
<1>2. z.phase = "null" /\ ~z.hup
  BY <1>1 DEF Over
<1>3. lli_prep(Put(s, c, p, x, y, z, l), c, st, t) = Put(s, c, p, x1, y1, Setup, l)
  BY <1>1, lli_prepPut
<1>4. x1 \in Channel /\ x1.st = "OUT_DIAL" /\ x1.proc = p /\ ~x1.start_b /\ ~x1.data_open
  BY <1>1, BegunIs
<1>5. y1 \in l3_process /\ y1.st = st /\ y1.timer = t /\ y1.chan = c /\ y1.live
  <2>1. Yes \in BOOLEAN /\ st \in L3States /\ t \in L3Timers
    BY DEF Yes, L3States, L3Timers
  <2> QED BY <1>1, <2>1, NewL3Is
<1> HIDE DEF x1, y1, y, z, l
<1>6. Next1(c, p, s.ch[c], y, z, x1, y1, Setup)
  BY <1>2, <1>4, <1>5, SetupIs
     DEF Next1, Kept, Fits, Partners, PhasesOf, TimersOf, Order, Hung, Held, BStates
<1>7. Result(s, c, p, Put(s, c, p, x1, y1, Setup, l))
  BY <1>1, <1>6, Outcome DEF y, z
<1> QED BY <1>3, <1>7 DEF y, z, l

\* DIAL and RESUME on a channel that is free.
LEMMA DialStep ==
    ASSUME NEW s, NEW c, NEW p, Idle(s, c, p), s.env.new = p
    PROVE  /\ Result(s, c, p, EvDial(s, c)) /\ Result(s, c, p, EvResume(s, c))
           /\ Result(s, c, p, EvDial(SetDial(s, c, "none"), c))
           /\ Result(s, c, p, EvResume(SetDial(s, c, "none"), c))
<1> DEFINE x == s.ch[c]
           y == s.pr[p]
           z == s.ll[c]
           l == s.lost
           w == Dial(x, "none")
<1>1. At(s, c, p) /\ s = Put(s, c, p, x, y, z, l) /\ Over(x, y, z)
  BY DEF Idle
<1>2. x \in Channel /\ x.st = "NULL" /\ ~x.start_b /\ ~x.data_open
  BY <1>1 DEF Over
<1>3. w \in Channel /\ w.st = "NULL" /\ ~w.start_b /\ ~w.data_open
  BY <1>2, DialIs
<1>4. SetDial(s, c, "none") = Put(s, c, p, w, y, z, l)
  BY <1>1, PutDial
<1> HIDE DEF w
<1>5. SetDial(s, c, "none").ch[c] = w
  BY <1>1, <1>4, PutIs
<1>6. /\ EvDial(s, c) = lli_prep(Put(s, c, p, x, y, z, l), c, 1, "T303")
      /\ EvResume(s, c) = lli_prep(Put(s, c, p, x, y, z, l), c, 17, "T318")
  BY <1>1, <1>2 DEF EvDial, EvResume, In, lli_prep_dialout, lli_resume
<1>7. /\ EvDial(SetDial(s, c, "none"), c) = lli_prep(Put(s, c, p, w, y, z, l), c, 1, "T303")
      /\ EvResume(SetDial(s, c, "none"), c) = lli_prep(Put(s, c, p, w, y, z, l), c, 17, "T318")
  BY <1>3, <1>4, <1>5 DEF EvDial, EvResume, In, lli_prep_dialout, lli_resume
<1>8. /\ Result(s, c, p, lli_prep(Put(s, c, p, x, y, z, l), c, 1, "T303"))
      /\ Result(s, c, p, lli_prep(Put(s, c, p, x, y, z, l), c, 17, "T318"))
  <2>1. Result(s, c, p, lli_prep(Put(s, c, p, x, y, z, l), c, 1, "T303"))
    <3>1. \A v \in Channel : v.st = "NULL" /\ ~v.start_b /\ ~v.data_open =>
              Result(s, c, p, lli_prep(Put(s, c, p, v, y, z, l), c, 1, "T303"))
      BY PrepStep
    <3> HIDE DEF y, z, l
    <3> QED BY <1>2, <3>1
  <2>2. Result(s, c, p, lli_prep(Put(s, c, p, x, y, z, l), c, 17, "T318"))
    <3>1. \A v \in Channel : v.st = "NULL" /\ ~v.start_b /\ ~v.data_open =>
              Result(s, c, p, lli_prep(Put(s, c, p, v, y, z, l), c, 17, "T318"))
      BY PrepStep
    <3> HIDE DEF y, z, l
    <3> QED BY <1>2, <3>1
  <2> QED BY <2>1, <2>2
<1>9. /\ Result(s, c, p, lli_prep(Put(s, c, p, w, y, z, l), c, 1, "T303"))
      /\ Result(s, c, p, lli_prep(Put(s, c, p, w, y, z, l), c, 17, "T318"))
  <2>1. Result(s, c, p, lli_prep(Put(s, c, p, w, y, z, l), c, 1, "T303"))
    BY <1>3, PrepStep
  <2>2. Result(s, c, p, lli_prep(Put(s, c, p, w, y, z, l), c, 17, "T318"))
    BY <1>3, PrepStep
  <2> QED BY <2>1, <2>2
<1> QED BY <1>6, <1>7, <1>8, <1>9

-----------------------------------------------------------------------------
(* All the channels *)

\* The inductive invariant: a free channel has nothing, any other fits its
\* process, and a live process belongs to a channel that is its own.
Free1(x, z) == ~x.start_b /\ ~x.data_open /\ z.phase = "null" /\ ~z.hup
ChanGood(s, c) ==
    IF s.ch[c].st = "NULL" THEN Free1(s.ch[c], s.ll[c])
    ELSE /\ s.ch[c].proc \in Procs
         /\ Fits(c, s.ch[c].proc, s.ch[c], s.pr[s.ch[c].proc], s.ll[c])
ProcGood(s, p) ==
    IF s.pr[p].live
    THEN /\ s.pr[p].chan \in Channels
         /\ s.ch[s.pr[p].chan].st # "NULL" /\ s.ch[s.pr[p].chan].proc = p
    ELSE s.pr[p].chan = NoChan
Good(s) ==
    Typed(s) /\ (\A c \in Channels : ChanGood(s, c)) /\ (\A p \in Procs : ProcGood(s, p))

\* The callbacks of a channel in one step.
Move(s, t, c) ==
    Order(s.ch[c], s.pr[s.ch[c].proc], s.ll[c], t.ch[c], t.pr[t.ch[c].proc], t.ll[c])
\* So do all the channels and all the processes.
Moves(s, t) ==
    /\ \A c \in Channels : Move(s, t, c)
    /\ \A p \in Procs : Kept(s.pr[p], t.pr[p])

\* A free channel fits nothing.
LEMMA FitsBusy ==
    ASSUME NEW c, NEW p, NEW x, NEW y, NEW z, Fits(c, p, x, y, z)
    PROVE  x.st # "NULL"
BY DEF Fits, Partners

\* What did not change did not move.
LEMMA Still ==
    ASSUME NEW x, NEW y, NEW z, NEW y1
    PROVE  /\ Order(x, y, z, x, y, z)
           /\ ~z.hup => Order(x, y, z, x, y1, z)
           /\ Kept(y, y)
BY DEF Order, Hung, Kept

\* Without HANGUP it does not matter which process a channel points to.
LEMMA NotHung ==
    ASSUME NEW x, NEW y, NEW z, NEW x1, NEW y1, NEW z1, NEW v, Order(x, y, z, x1, y1, z1)
    PROVE  /\ ~z.hup => Order(x, v, z, x1, y1, z1)
           /\ ~z1.hup => Order(x, y, z, x1, v, z1)
           /\ ~z.hup /\ ~z1.hup => \A w : Order(x, v, z, x1, w, z1)
BY DEF Order, Hung

\* Nothing changes elsewhere.
LEMMA PutElse ==
    ASSUME NEW s, NEW c, NEW p, At(s, c, p), NEW x, NEW y, NEW z, NEW l
    PROVE  /\ \A d \in Channels \ {c} :
                  /\ Put(s, c, p, x, y, z, l).ch[d] = s.ch[d]
                  /\ Put(s, c, p, x, y, z, l).ll[d] = s.ll[d]
           /\ \A q \in Procs \ {p} : Put(s, c, p, x, y, z, l).pr[q] = s.pr[q]
           /\ x \in Channel /\ y \in l3_process /\ z \in LinkLevel =>
                  Typed(Put(s, c, p, x, y, z, l))
BY DEF Put, At, Typed

\* A pair that fits, or has no call, is good.
LEMMA GoodPair ==
    ASSUME NEW t, NEW c \in Channels, NEW q \in Procs,
           Fits(c, q, t.ch[c], t.pr[q], t.ll[c]) \/ Over(t.ch[c], t.pr[q], t.ll[c])
    PROVE  ChanGood(t, c) /\ ProcGood(t, q)
<1>1. CASE Fits(c, q, t.ch[c], t.pr[q], t.ll[c])
  <2>1. t.ch[c].st # "NULL" /\ t.ch[c].proc = q /\ t.pr[q].live /\ t.pr[q].chan = c
    BY <1>1, FitsBusy DEF Fits
  <2> QED BY <1>1, <2>1 DEF ChanGood, ProcGood
<1>2. CASE Over(t.ch[c], t.pr[q], t.ll[c])
  BY <1>2 DEF ChanGood, ProcGood, Free1, Over
<1> QED BY <1>1, <1>2

\* So is one that did not change.
LEMMA GoodStill ==
    ASSUME NEW s, NEW t, NEW q, ProcGood(s, q), t.pr[q] = s.pr[q],
           s.pr[q].live => t.ch[s.pr[q].chan] = s.ch[s.pr[q].chan]
    PROVE  ProcGood(t, q)
BY DEF ProcGood

\* One channel and one process change.
LEMMA PairStep ==
    ASSUME NEW s, NEW c, NEW p, Good(s), Mine(s, c, p) \/ Idle(s, c, p),
           NEW t, Result(s, c, p, t), ~t.lost
    PROVE  Good(t) /\ Moves(s, t)
<1> DEFINE x1 == t.ch[c]
           y1 == t.pr[p]
           z1 == t.ll[c]
<1>1. At(s, c, p) /\ c \in Channels /\ p \in Procs
  BY DEF Mine, Idle, At
<1>2. /\ \A d \in Channels \ {c} : t.ch[d] = s.ch[d] /\ t.ll[d] = s.ll[d]
      /\ \A q \in Procs \ {p} : t.pr[q] = s.pr[q]
      /\ x1 \in Channel /\ y1 \in l3_process /\ z1 \in LinkLevel => Typed(t)
  <2>1. t = Put(s, c, p, x1, y1, z1, t.lost)
    BY DEF Result
  <2> HIDE DEF x1, y1, z1
  <2> QED BY <1>1, <2>1, PutElse
<1>3. Next1(c, p, s.ch[c], s.pr[p], s.ll[c], x1, y1, z1)
  BY DEF Result
<1>4. Fits(c, p, x1, y1, z1) \/ Over(x1, y1, z1)
  BY <1>3 DEF Next1
<1>5. Typed(t)
  BY <1>2, <1>4 DEF Fits, Over
<1>6. \/ s.ch[c].st # "NULL" /\ s.ch[c].proc = p /\ s.pr[p].live /\ s.pr[p].chan = c
      \/ s.ch[c].st = "NULL" /\ ~s.pr[p].live /\ ~s.ll[c].hup
  BY FitsBusy DEF Mine, Idle, Fits, Over
<1>7. ASSUME NEW d \in Channels, d # c, s.ch[d].st # "NULL"
      PROVE  s.ch[d].proc \in Procs \ {p}
  BY <1>6, <1>7 DEF Good, ChanGood, Fits
<1>8. ASSUME NEW q \in Procs, q # p, s.pr[q].live
      PROVE  s.pr[q].chan \in Channels \ {c}
  BY <1>6, <1>8 DEF Good, ProcGood
<1>9. ASSUME NEW d \in Channels
      PROVE  ChanGood(t, d)
  <2>1. CASE d = c
    BY <1>1, <1>4, <2>1, FitsBusy DEF ChanGood, Free1, Fits, Over
  <2>2. CASE d # c /\ s.ch[d].st = "NULL"
    BY <1>2, <2>2 DEF Good, ChanGood
  <2>3. CASE d # c /\ s.ch[d].st # "NULL"
    BY <1>2, <1>7, <2>3 DEF Good, ChanGood
  <2> QED BY <2>1, <2>2, <2>3
<1>10. ASSUME NEW q \in Procs
       PROVE  ProcGood(t, q)
  <2>1. CASE q = p
    BY <1>1, <1>4, <2>1, FitsBusy DEF ProcGood, Fits, Over
  <2>2. CASE q # p
    BY <1>2, <1>8, <2>2 DEF Good, ProcGood
  <2> QED BY <2>1, <2>2
<1>11. ASSUME NEW d \in Channels
       PROVE  Move(s, t, d)
  <2>1. CASE d = c
    <3>1. Order(s.ch[c], s.pr[p], s.ll[c], x1, y1, z1)
      BY <1>3 DEF Next1
    <3>2. s.ch[c].proc = p \/ ~s.ll[c].hup
      BY <1>6
    <3>3. x1.proc = p \/ ~z1.hup
      BY <1>4 DEF Fits, Over
    <3>4. Order(s.ch[c], s.pr[s.ch[c].proc], s.ll[c], x1, t.pr[x1.proc], z1)
      BY <3>1, <3>2, <3>3, NotHung
    <3> QED BY <2>1, <3>4 DEF Move
  <2>2. CASE d # c /\ s.ch[d].st = "NULL"
    <3>1. ~s.ll[d].hup /\ t.ch[d] = s.ch[d] /\ t.ll[d] = s.ll[d]
      BY <1>2, <2>2 DEF Good, ChanGood, Free1
    <3> QED BY <3>1, Still DEF Move
  <2>3. CASE d # c /\ s.ch[d].st # "NULL"
    <3>1. t.ch[d] = s.ch[d] /\ t.ll[d] = s.ll[d] /\ t.pr[s.ch[d].proc] = s.pr[s.ch[d].proc]
      BY <1>2, <1>7, <2>3
    <3> QED BY <3>1, Still DEF Move
  <2> QED BY <2>1, <2>2, <2>3
<1>12. ASSUME NEW q \in Procs
       PROVE  Kept(s.pr[q], t.pr[q])
  BY <1>2, <1>3, Still DEF Next1
<1> QED BY <1>5, <1>9, <1>10, <1>11, <1>12 DEF Good, Moves

\* Several processes, each with its channel: the data link tells them all.
LEMMA Together ==
    ASSUME NEW s, Good(s), NEW P \in SUBSET Procs, NEW u, NEW t,
           \A p \in P : /\ s.pr[p].live /\ ~u[p].lost
                        /\ Mine(s, s.pr[p].chan, p) /\ Result(s, s.pr[p].chan, p, u[p]),
           t.pr = [p \in Procs |-> IF p \in P THEN u[p].pr[p] ELSE s.pr[p]],
           t.ch
                 = [c \in Channels |-> IF s.ch[c].proc \in P THEN u[s.ch[c].proc].ch[c] ELSE s.ch[c]],
           t.ll
                 = [c \in Channels |-> IF s.ch[c].proc \in P THEN u[s.ch[c].proc].ll[c] ELSE s.ll[c]]
    PROVE  Good(t) /\ Moves(s, t)
<1>1. ASSUME NEW p \in P, NEW c, c = s.pr[p].chan
      PROVE  /\ c \in Channels /\ s.ch[c].proc = p /\ s.ch[c].st # "NULL"
             /\ t.ch[c] = u[p].ch[c] /\ t.pr[p] = u[p].pr[p] /\ t.ll[c] = u[p].ll[c]
             /\ Next1(c, p, s.ch[c], s.pr[p], s.ll[c], t.ch[c], t.pr[p], t.ll[c])
  <2>1. c \in Channels /\ s.ch[c].proc = p /\ s.ch[c].st # "NULL"
    BY <1>1 DEF Good, ProcGood
  <2>2. t.ch[c] = u[p].ch[c] /\ t.pr[p] = u[p].pr[p] /\ t.ll[c] = u[p].ll[c]
    BY <2>1
  <2>3. /\ At(s, c, p) /\ ~u[p].lost
        /\ u[p] = Put(s, c, p, u[p].ch[c], u[p].pr[p], u[p].ll[c], u[p].lost)
        /\ u[p].lost \/ Next1(c, p, s.ch[c], s.pr[p], s.ll[c], u[p].ch[c], u[p].pr[p], u[p].ll[c])
    BY <1>1 DEF Mine, Result
  <2> QED BY <2>1, <2>2, <2>3, ZenonT(60)
<1>1a. ASSUME NEW p \in P, NEW c, c = s.pr[p].chan
      PROVE  \A d \in Channels \ {c} : u[p].ch[d] = s.ch[d] /\ u[p].ll[d] = s.ll[d]
  <2>3. At(s, c, p) /\ u[p] = Put(s, c, p, u[p].ch[c], u[p].pr[p], u[p].ll[c], u[p].lost)
    BY <1>1a DEF Mine, Result
  <2> DEFINE v == u[p]
             x1 == v.ch[c]
             y1 == v.pr[p]
             z1 == v.ll[c]
             l1 == v.lost
  <2>1. At(s, c, p) /\ v = Put(s, c, p, x1, y1, z1, l1)
    BY <2>3
  <2> HIDE DEF x1, y1, z1, l1, v
  <2> DEFINE w == Put(s, c, p, x1, y1, z1, l1)
  <2>2. w.ch = [s.ch EXCEPT ![c] = x1] /\ w.ll = [s.ll EXCEPT ![c] = z1]
    BY DEF Put
  <2> HIDE DEF w
  <2>4. \A d \in Channels \ {c} : w.ch[d] = s.ch[d] /\ w.ll[d] = s.ll[d]
    BY <2>1, <2>2 DEF At, Typed
  <2> QED BY <2>1, <2>4 DEF v, w
<1>2. ASSUME NEW c \in Channels, s.ch[c].st # "NULL", s.ch[c].proc \in P
      PROVE  s.pr[s.ch[c].proc].chan = c
  BY <1>2, Zenon DEF Good, ChanGood, Fits
<1>3. ASSUME NEW c \in Channels, s.ch[c].st # "NULL", s.ch[c].proc \notin P
      PROVE  t.ch[c] = s.ch[c] /\ t.ll[c] = s.ll[c] /\ t.pr[s.ch[c].proc] = s.pr[s.ch[c].proc]
  BY <1>3 DEF Good, ChanGood
<1>4. ASSUME NEW c \in Channels, s.ch[c].st = "NULL"
      PROVE  t.ch[c] = s.ch[c] /\ t.ll[c] = s.ll[c]
  <2>1. CASE s.ch[c].proc \in P
    <3>1. PICK q \in P : q = s.ch[c].proc
      BY <2>1
    <3>2. PICK e : e = s.pr[q].chan
      OBVIOUS
    <3>3. s.ch[e].st # "NULL"
      BY <1>1, <3>2, Zenon
    <3>6. \A d \in Channels \ {e} : u[q].ch[d] = s.ch[d] /\ u[q].ll[d] = s.ll[d]
      BY <1>1a, <3>2
    <3>4. u[q].ch[c] = s.ch[c] /\ u[q].ll[c] = s.ll[c]
      BY <1>4, <3>3, <3>6
    <3>5. t.ch[c] = u[q].ch[c] /\ t.ll[c] = u[q].ll[c]
      BY <3>1
    <3> QED BY <3>4, <3>5
  <2>2. CASE s.ch[c].proc \notin P
    BY <2>2
  <2> QED BY <2>1, <2>2
<1>5. ASSUME NEW c \in Channels
      PROVE  /\ t.ch[c] \in Channel /\ t.ll[c] \in LinkLevel
             /\ ChanGood(t, c) /\ Move(s, t, c)
  <2>0. s.ch[c] \in Channel /\ s.ll[c] \in LinkLevel /\ ChanGood(s, c)
    BY DEF Good, Typed
  <2>1. CASE s.ch[c].st = "NULL"
    <3>1. ~s.ll[c].hup
      BY <2>0, <2>1 DEF ChanGood, Free1
    <3>2. Move(s, t, c)
      BY <1>4, <2>1, <3>1, Still, Zenon DEF Move
    <3> QED BY <1>4, <2>0, <2>1, <3>2, Zenon DEF ChanGood
  <2>2. CASE s.ch[c].st # "NULL" /\ s.ch[c].proc \notin P
    <3>2. t.ch[c] = s.ch[c] /\ t.ll[c] = s.ll[c] /\ t.pr[s.ch[c].proc] = s.pr[s.ch[c].proc]
      BY <1>3, <2>2
    <3>1. Move(s, t, c)
      BY <3>2, Still, ZenonT(60) DEF Move
    <3> QED BY <1>3, <2>0, <2>2, <3>1, ZenonT(60) DEF ChanGood
  <2>3. CASE s.ch[c].st # "NULL" /\ s.ch[c].proc \in P
    <3>1. PICK q \in P : q = s.ch[c].proc
      BY <2>3
    <3>2. Next1(c, q, s.ch[c], s.pr[q], s.ll[c], t.ch[c], t.pr[q], t.ll[c])
      BY <1>1, <1>2, <2>3, <3>1, Zenon
    <3>3. Fits(c, q, t.ch[c], t.pr[q], t.ll[c]) \/ Over(t.ch[c], t.pr[q], t.ll[c])
      BY <3>2, Zenon DEF Next1
    <3>4. t.ch[c] \in Channel /\ t.ll[c] \in LinkLevel /\ ChanGood(t, c)
      <4>1. ChanGood(t, c) /\ q \in Procs
        BY <3>3, GoodPair, Zenon
      <4> QED BY <3>3, <4>1, Zenon DEF Fits, Over
    <3>5. t.ch[c].proc = q \/ ~t.ll[c].hup
      BY <3>3, Zenon DEF Fits, Over
    <3>6. Order(s.ch[c], s.pr[q], s.ll[c], t.ch[c], t.pr[q], t.ll[c])
      BY <3>2, Zenon DEF Next1
    <3>7. Move(s, t, c)
      BY <3>1, <3>5, <3>6, NotHung, ZenonT(60) DEF Move
    <3> QED BY <3>4, <3>7
  <2> QED BY <2>1, <2>2, <2>3
<1>6. ASSUME NEW p \in Procs
      PROVE  t.pr[p] \in l3_process /\ ProcGood(t, p)
  <2>0. s.pr[p] \in l3_process /\ ProcGood(s, p)
    BY DEF Good, Typed
  <2>1. CASE p \in P
    <3>1. PICK c : c = s.pr[p].chan
      OBVIOUS
    <3>2. c \in Channels /\ Next1(c, p, s.ch[c], s.pr[p], s.ll[c], t.ch[c], t.pr[p], t.ll[c])
      BY <1>1, <2>1, <3>1, Zenon
    <3>3. Fits(c, p, t.ch[c], t.pr[p], t.ll[c]) \/ Over(t.ch[c], t.pr[p], t.ll[c])
      BY <3>2, Zenon DEF Next1
    <3>4. ProcGood(t, p)
      BY <3>2, <3>3, GoodPair, Zenon
    <3> QED BY <3>3, <3>4, Zenon DEF Fits, Over
  <2>2. CASE p \notin P
    <3>1. t.pr[p] = s.pr[p]
      BY <2>2
    <3>2. ASSUME s.pr[p].live
          PROVE  t.ch[s.pr[p].chan] = s.ch[s.pr[p].chan]
      <4>1. s.pr[p].chan \in Channels /\ s.ch[s.pr[p].chan].proc = p
            /\ s.ch[s.pr[p].chan].st # "NULL"
        BY <2>0, <3>2 DEF ProcGood
      <4> QED BY <1>3, <2>2, <4>1, Zenon
    <3> QED BY <2>0, <3>1, <3>2, GoodStill, Zenon
  <2> QED BY <2>1, <2>2
<1>8. ASSUME NEW p \in Procs
      PROVE  Kept(s.pr[p], t.pr[p])
  <2>1. CASE p \in P
    BY <1>1, <2>1, Zenon DEF Next1
  <2>2. CASE p \notin P
    <3>1. t.pr[p] = s.pr[p]
      BY <2>2
    <3> QED BY <3>1, Still
  <2> QED BY <2>1, <2>2
<1>7. Typed(t)
  BY <1>5, <1>6, Zenon DEF Typed
<1> QED BY <1>5, <1>6, <1>7, <1>8 DEF Good, Moves

\* A timer that runs in memory that was freed.
LEMMA Alone ==
    ASSUME NEW s, Good(s), NEW p \in Procs, ~s.pr[p].live, NEW y \in l3_process,
           ~y.live, y.chan = NoChan, NEW t,
           t.ch = s.ch, t.ll = s.ll, t.pr = [s.pr EXCEPT ![p] = y]
    PROVE  Good(t) /\ Moves(s, t)
<1>1. Typed(t) /\ t.pr[p] = y /\ \A q \in Procs \ {p} : t.pr[q] = s.pr[q]
  BY DEF Good, Typed
<1>2. ASSUME NEW c \in Channels
      PROVE  ChanGood(t, c) /\ Move(s, t, c)
  <2>1. CASE s.ch[c].st = "NULL"
    <3>1. ~s.ll[c].hup
      BY <2>1 DEF Good, ChanGood, Free1
    <3> QED BY <2>1, <3>1, Still DEF Good, ChanGood, Move
  <2>2. CASE s.ch[c].st # "NULL"
    <3>1. s.ch[c].proc \in Procs \ {p}
      BY <2>2 DEF Good, ChanGood, Fits
    <3>2. t.pr[s.ch[c].proc] = s.pr[s.ch[c].proc]
      BY <1>1, <3>1
    <3>3. Move(s, t, c)
      BY <3>2, Still DEF Move
    <3> QED BY <2>2, <3>1, <3>2, <3>3 DEF Good, ChanGood
  <2> QED BY <2>1, <2>2
<1>3. ASSUME NEW q \in Procs
      PROVE  ProcGood(t, q)
  BY <1>1 DEF Good, ProcGood
<1>4. ASSUME NEW q \in Procs
      PROVE  Kept(s.pr[q], t.pr[q])
  <2>1. CASE q = p
    BY <1>1, <2>1 DEF Kept
  <2>2. CASE q # p
    BY <1>1, <2>2, Still
  <2> QED BY <2>1, <2>2
<1> QED BY <1>1, <1>2, <1>3, <1>4 DEF Good, Moves

-----------------------------------------------------------------------------
(* The actions *)

IInv == Good(Now)

\* The callbacks of every channel and the timer of every process in one step.
Moved ==
    /\ \A c \in Channels : Order(ch[c], pr[ch[c].proc], ll[c], ch'[c], pr'[ch'[c].proc], ll'[c])
    /\ \A p \in Procs : Kept(pr[p], pr'[p])

\* The state an action begins with has nothing but the variables.
LEMMA SIs ==
    ASSUME NEW env
    PROVE  /\ S(env).ch = ch /\ S(env).pr = pr /\ S(env).ll = ll /\ ~S(env).lost
              /\ S(env).env = env
BY DEF S

\* What holds after the operation holds after the action.
LEMMA DoStep ==
    ASSUME NEW env, NEW t, Do(t), Good(t), Moves(S(env), t)
    PROVE  IInv' /\ Moved
<1>1. ch' = t.ch /\ pr' = t.pr /\ ll' = t.ll
  BY DEF Do
<1>2. Now'.ch = t.ch /\ Now'.pr = t.pr /\ Now'.ll = t.ll
  BY <1>1 DEF Now, S
<1>3. IInv'
  <2>1. IInv' <=> Good(Now')
    BY DEF IInv
  <2>2. Typed(Now')
    BY <1>2 DEF Good, Typed
  <2>3. \A c \in Channels : ChanGood(Now', c)
    BY <1>2 DEF Good, ChanGood
  <2>4. \A p \in Procs : ProcGood(Now', p)
    BY <1>2 DEF Good, ProcGood
  <2> QED BY <2>1, <2>2, <2>3, <2>4 DEF Good
<1>4. Moved
  BY <1>1, SIs DEF Moved, Moves, Move
<1> QED BY <1>3, <1>4

\* Whatever the callees will answer.
LEMMA SGood ==
    ASSUME IInv, NEW env
    PROVE  Good(S(env))
<1>1. Now.ch = ch /\ Now.pr = pr /\ Now.ll = ll
  BY DEF Now, S
<1>2. Typed(S(env))
  BY <1>1, SIs DEF IInv, Good, Typed
<1>3. \A c \in Channels : ChanGood(S(env), c)
  BY <1>1, SIs DEF IInv, Good, ChanGood
<1>4. \A p \in Procs : ProcGood(S(env), p)
  BY <1>1, SIs DEF IInv, Good, ProcGood
<1> QED BY <1>2, <1>3, <1>4 DEF Good

\* A state is itself in this form.
LEMMA Whole ==
    ASSUME IInv, NEW env, NEW c \in Channels, NEW p \in Procs, NEW s, s = S(env)
    PROVE  At(s, c, p) /\ s = Put(s, c, p, s.ch[c], s.pr[p], s.ll[c], s.lost)
<1>1. At(s, c, p)
  BY SGood DEF Good, At
<1>2. [s.ch EXCEPT ![c] = s.ch[c]] = s.ch /\ [s.pr EXCEPT ![p] = s.pr[p]] = s.pr
      /\ [s.ll EXCEPT ![c] = s.ll[c]] = s.ll
  BY <1>1 DEF At, Typed
<1>3. s = [ch |-> s.ch, pr |-> s.pr, ll |-> s.ll, lost |-> s.lost, env |-> s.env]
  BY DEF S
<1> QED BY <1>1, <1>2, <1>3 DEF Put

\* A channel that has a call.
LEMMA Busy ==
    ASSUME IInv, NEW env, NEW c \in Channels, ch[c].st # "NULL"
    PROVE  Mine(S(env), c, ch[c].proc)
<1>1. ChanGood(S(env), c)
  BY SGood DEF Good
<1> QED BY <1>1, Whole, SIs DEF ChanGood, Mine

\* A process that is live.
LEMMA Alive ==
    ASSUME IInv, NEW env, NEW p \in Procs, pr[p].live
    PROVE  pr[p].chan \in Channels /\ Mine(S(env), pr[p].chan, p)
<1>1. ProcGood(S(env), p)
  BY SGood DEF Good
<1>2. pr[p].chan \in Channels /\ ch[pr[p].chan].st # "NULL" /\ ch[pr[p].chan].proc = p
  BY <1>1, SIs DEF ProcGood
<1> QED BY <1>2, Busy

\* A channel without a call and a process that is free.
LEMMA Spare ==
    ASSUME IInv, NEW env, NEW c \in Channels, ch[c].st = "NULL", NEW p \in Free
    PROVE  Idle(S(env), c, p)
<1>1. ChanGood(S(env), c) /\ ProcGood(S(env), p) /\ p \in Procs /\ ~pr[p].live
  BY SGood DEF Good, Free
<1>2. At(S(env), c, p)
  BY <1>1, Whole
<1>3. Over(S(env).ch[c], S(env).pr[p], S(env).ll[c])
  BY <1>1, <1>2, SIs DEF ChanGood, ProcGood, Free1, Over, At, Typed
<1> QED BY <1>1, <1>3, Whole, SIs DEF Idle

\* An action that is an operation of one channel and one process.
LEMMA Act ==
    ASSUME IInv, NEW env, NEW c, NEW p, Mine(S(env), c, p) \/ Idle(S(env), c, p),
           NEW t, Result(S(env), c, p, t), Do(t)
    PROVE  IInv' /\ Moved
<1>1. ~t.lost
  BY DEF Do
<1>2. Good(t) /\ Moves(S(env), t)
  BY <1>1, SGood, PairStep
<1> QED BY <1>2, DoStep

\* The actions of the link level and of the B channel.
LEMMA ACCEPTDStep ==
    ASSUME IInv, NEW c \in Channels, ACCEPTD(c)
    PROVE  IInv' /\ Moved
<1> DEFINE env == [ans |-> "ignore", bc |-> FALSE]
           s == S(env)
           p == ch[c].proc
<1>1. ch[c].st # "NULL" /\ Do(EvAcceptd(s, c)) /\ ~ll[c].hup /\ ch[c].st \in InStates
  BY DEF ACCEPTD, Now, InStates
<1>2. Mine(s, c, p)
  BY <1>1, Busy
<1>3. Result(s, c, p, EvAcceptd(s, c))
  <2>1. s.ch = ch /\ s.pr = pr /\ s.ll = ll
    BY SIs
  <2> HIDE DEF s
  <2> QED BY <1>1, <1>2, <2>1, AcceptdStep
<1> QED BY <1>1, <1>2, <1>3, Act

LEMMA ALERTStep ==
    ASSUME IInv, NEW c \in Channels, ALERT(c)
    PROVE  IInv' /\ Moved
<1> DEFINE env == [ans |-> "ignore", bc |-> FALSE]
           s == S(env)
           p == ch[c].proc
<1>1. ch[c].st # "NULL" /\ Do(EvAlert(s, c)) /\ ~ll[c].hup /\ ch[c].st = "PROCEED_SEND"
  BY DEF ALERT, Now
<1>2. Mine(s, c, p)
  BY <1>1, Busy
<1>3. Result(s, c, p, EvAlert(s, c))
  <2>1. s.ch = ch /\ s.pr = pr /\ s.ll = ll
    BY SIs
  <2> HIDE DEF s
  <2> QED BY <1>1, <1>2, <2>1, AlertStep
<1> QED BY <1>1, <1>2, <1>3, Act

LEMMA REDIRStep ==
    ASSUME IInv, NEW c \in Channels, REDIR(c)
    PROVE  IInv' /\ Moved
<1> DEFINE env == [ans |-> "ignore", bc |-> FALSE]
           s == S(env)
           p == ch[c].proc
<1>1. ch[c].st # "NULL" /\ Do(EvRedir(s, c)) /\ ~ll[c].hup
          /\ ch[c].st \in {"ALERT_SENT", "PROCEED_SEND"}
  BY DEF REDIR, Now
<1>2. Mine(s, c, p)
  BY <1>1, Busy
<1>3. Result(s, c, p, EvRedir(s, c))
  <2>1. s.ch = ch /\ s.pr = pr /\ s.ll = ll
    BY SIs
  <2> HIDE DEF s
  <2> QED BY <1>1, <1>2, <2>1, RedirStep
<1> QED BY <1>1, <1>2, <1>3, Act

LEMMA SUSPENDStep ==
    ASSUME IInv, NEW c \in Channels, SUSPEND(c)
    PROVE  IInv' /\ Moved
<1> DEFINE env == [ans |-> "ignore", bc |-> FALSE]
           s == S(env)
           p == ch[c].proc
<1>1. ch[c].st # "NULL" /\ Do(EvSuspend(s, c)) /\ ch[c].st = "ACTIVE"
  BY DEF SUSPEND, Now
<1>2. Mine(s, c, p)
  BY <1>1, Busy
<1>3. Result(s, c, p, EvSuspend(s, c))
  <2>1. s.ch = ch /\ s.pr = pr /\ s.ll = ll
    BY SIs
  <2> HIDE DEF s
  <2> QED BY <1>1, <1>2, <2>1, SuspendStep
<1> QED BY <1>1, <1>2, <1>3, Act

LEMMA BcEstAct ==
    ASSUME IInv, NEW c \in Channels, BcEst(c)
    PROVE  IInv' /\ Moved
<1> DEFINE env == [ans |-> "ignore", bc |-> FALSE]
           s == S(env)
           p == ch[c].proc
<1>1. ch[c].st # "NULL" /\ Do(EvBcEst(s, c)) /\ ch[c].st = "WAIT_BCONN"
  BY DEF BcEst, Now
<1>2. Mine(s, c, p)
  BY <1>1, Busy
<1>3. Result(s, c, p, EvBcEst(s, c))
  <2>1. s.ch = ch /\ s.pr = pr /\ s.ll = ll
    BY SIs
  <2> HIDE DEF s
  <2> QED BY <1>1, <1>2, <2>1, BcEstStep
<1> QED BY <1>1, <1>2, <1>3, Act

\* A call that the link level knows has a channel that is busy.
LEMMA HANGUPStep ==
    ASSUME IInv, NEW c \in Channels, HANGUP(c)
    PROVE  IInv' /\ Moved
<1> DEFINE env == [ans |-> "ignore", bc |-> FALSE]
           s == S(env)
           p == ch[c].proc
<1>1. Do(EvHangup(HungUp(s, c), c)) /\ ll[c].phase # "null"
  BY DEF HANGUP, Now
<1>2. s.ch = ch /\ s.pr = pr /\ s.ll = ll
  BY SIs
<1>3. ch[c].st # "NULL"
  <2>1. ChanGood(s, c)
    BY SGood DEF Good
  <2> HIDE DEF s
  <2> QED BY <1>1, <1>2, <2>1 DEF ChanGood, Free1
<1>4. Mine(s, c, p)
  BY <1>3, Busy
<1>5. Result(s, c, p, EvHangup(HungUp(s, c), c))
  <2> HIDE DEF s
  <2> QED BY <1>1, <1>2, <1>4, HangupStep
<1> QED BY <1>1, <1>4, <1>5, Act

\* So has a B channel that is set up.
LEMMA BcRelAct ==
    ASSUME IInv, NEW c \in Channels, BcRel(c)
    PROVE  IInv' /\ Moved
<1> DEFINE env == [ans |-> "ignore", bc |-> FALSE]
           s == S(env)
           p == ch[c].proc
<1>1. Do(EvBcRel(s, c)) /\ ch[c].start_b
  BY DEF BcRel, Now
<1>2. s.ch = ch /\ s.pr = pr /\ s.ll = ll
  BY SIs
<1>3. ch[c].st # "NULL"
  <2>1. ChanGood(s, c)
    BY SGood DEF Good
  <2> HIDE DEF s
  <2> QED BY <1>1, <1>2, <2>1 DEF ChanGood, Free1
<1>4. Mine(s, c, p)
  BY <1>3, Busy
<1>5. Result(s, c, p, EvBcRel(s, c))
  <2> HIDE DEF s
  <2> QED BY <1>1, <1>2, <1>4, BcRelStep
<1> QED BY <1>1, <1>4, <1>5, Act

\* Without HANGUP only the phase counts.
LEMMA StillIdle ==
    ASSUME NEW x, NEW y, NEW z, NEW x1, NEW y1, ~z.hup
    PROVE  Order(x, y, z, x1, y1, z)
BY DEF Order, Hung

\* The timers of a channel without a call.
LEMMA IdleChange ==
    ASSUME NEW s, Good(s), NEW c \in Channels, s.ch[c].st = "NULL", NEW x \in Channel,
           x.st = "NULL", x.start_b <=> s.ch[c].start_b, x.data_open <=> s.ch[c].data_open,
           NEW t, t.ch = [s.ch EXCEPT ![c] = x], t.pr = s.pr, t.ll = s.ll
    PROVE  Good(t) /\ Moves(s, t)
<1>1. /\ Typed(t) /\ t.ch[c] = x /\ \A d \in Channels \ {c} : t.ch[d] = s.ch[d]
  BY DEF Good, Typed
<1>2. ASSUME NEW d \in Channels
      PROVE  ChanGood(t, d) /\ Move(s, t, d)
  <2>1. CASE d = c
    <3>1. ~s.ll[c].hup /\ ChanGood(s, c)
      BY DEF Good, ChanGood, Free1
    <3>2. ChanGood(t, c)
      BY <1>1, <3>1 DEF ChanGood, Free1
    <3>3. Move(s, t, c)
      BY <3>1, StillIdle DEF Move
    <3> QED BY <2>1, <3>2, <3>3
  <2>2. CASE d # c
    <3>1. t.ch[d] = s.ch[d]
      BY <1>1, <2>2
    <3>2. Move(s, t, d)
      BY <3>1, Still DEF Move
    <3> QED BY <3>1, <3>2 DEF Good, ChanGood
  <2> QED BY <2>1, <2>2
<1>3. ASSUME NEW q \in Procs
      PROVE  ProcGood(t, q)
  <2>1. ProcGood(s, q)
    BY DEF Good
  <2>2. s.pr[q].live => s.pr[q].chan \in Channels \ {c}
    BY <2>1 DEF ProcGood
  <2> QED BY <1>1, <2>1, <2>2, GoodStill
<1>4. \A q \in Procs : Kept(s.pr[q], t.pr[q])
  BY Still
<1> QED BY <1>1, <1>2, <1>3, <1>4 DEF Good, Moves

\* drel_timer may run out after the call: then there is nothing to hang up.
LEMMA DrelTimerStep ==
    ASSUME IInv, NEW c \in Channels, DrelTimer(c)
    PROVE  IInv' /\ Moved
<1> DEFINE env == [ans |-> "ignore", bc |-> FALSE]
           s == S(env)
<1>1. Do(EvHangup(StopDrel(s, c), c))
  BY DEF DrelTimer, Now
<1>2. s.ch = ch /\ s.pr = pr /\ s.ll = ll
  BY SIs
<1>3. CASE ch[c].st # "NULL"
  <2>1. Mine(s, c, ch[c].proc)
    BY <1>3, Busy
  <2>2. Result(s, c, ch[c].proc, EvHangup(StopDrel(s, c), c))
    BY <2>1, DrelStep
  <2> QED BY <1>1, <2>1, <2>2, Act
<1>4. CASE ch[c].st = "NULL"
  <2> DEFINE t == EvHangup(StopDrel(s, c), c)
             x1 == DrelOff(ch[c])
  <2>1. ch \in [Channels -> Channel] /\ pr \in [Procs -> l3_process]
            /\ ll \in [Channels -> LinkLevel]
    BY SGood, <1>2 DEF Good, Typed
  <2>2. /\ StopDrel(s, c).ch = [ch EXCEPT ![c] = x1]
        /\ StopDrel(s, c).pr = pr /\ StopDrel(s, c).ll = ll
    BY DEF StopDrel, S, DrelOff
  <2>3. /\ x1 \in Channel /\ x1.st = "NULL" /\ (x1.start_b <=> ch[c].start_b)
        /\ (x1.data_open <=> ch[c].data_open) /\ x1.proc = ch[c].proc
    BY <1>4, <2>1, DrelOffIs
  <2> HIDE DEF x1, s
  <2>4. StopDrel(s, c).ch[c].st = "NULL"
    BY <2>1, <2>2, <2>3
  <2>5. t = StopDrel(s, c)
    BY <2>4 DEF EvHangup, In
  <2> HIDE DEF t
  <2>6. t.ch = [ch EXCEPT ![c] = x1] /\ t.pr = pr /\ t.ll = ll
    BY <2>2, <2>5
  <2>7. Good(t) /\ Moves(s, t)
    <3>1. Good(s)
      BY SGood DEF s
    <3>2. /\ s.ch[c].st = "NULL" /\ t.ch = [s.ch EXCEPT ![c] = x1] /\ t.pr = s.pr /\ t.ll = s.ll
          /\ (x1.start_b <=> s.ch[c].start_b) /\ (x1.data_open <=> s.ch[c].data_open)
      BY <1>2, <1>4, <2>3, <2>6
    <3> QED BY <2>3, <3>1, <3>2, IdleChange
  <2> QED BY <1>1, <2>7, DoStep DEF t, s
<1> QED BY <1>3, <1>4

\* DIAL and RESUME: a free channel begins; for any other, dial_timer is started.
LEMMA DIALStep ==
    ASSUME IInv, NEW c \in Channels, DIAL(c) \/ RESUME(c)
    PROVE  IInv' /\ Moved
<1>1. ASSUME ch[c].st = "NULL", NEW p \in Free, NEW t, Do(t),
             t = EvDial(S([new |-> p]), c) \/ t = EvResume(S([new |-> p]), c)
      PROVE  IInv' /\ Moved
  <2> DEFINE s == S([new |-> p])
  <2>1. Idle(s, c, p) /\ s.env.new = p
    BY <1>1, Spare, SIs
  <2> HIDE DEF s
  <2>2. Result(s, c, p, EvDial(s, c)) /\ Result(s, c, p, EvResume(s, c))
    BY <2>1, DialStep
  <2>3. t = EvDial(s, c) \/ t = EvResume(s, c)
    BY <1>1 DEF s
  <2>4. Result(s, c, p, t)
    BY <2>2, <2>3
  <2> QED BY <1>1, <2>1, <2>4, Act DEF s
<1>2. ASSUME ch[c].st # "NULL", NEW w \in {"DIAL", "RESUME"}, Do(SetDial(Now, c, w))
      PROVE  IInv' /\ Moved
  <2>1. Mine(Now, c, ch[c].proc)
    BY <1>2, Busy DEF Now
  <2>2. Result(Now, c, ch[c].proc, SetDial(Now, c, w))
    BY <1>2, <2>1, LaterStep
  <2> QED BY <1>2, <2>1, <2>2, Act DEF Now
<1>3. CASE DIAL(c)
  <2>1. \/ ch[c].st = "NULL" /\ \E p \in Free : Do(EvDial(S([new |-> p]), c))
        \/ ch[c].st # "NULL" /\ Do(SetDial(Now, c, "DIAL"))
    BY <1>3 DEF DIAL, SetDial
  <2> QED BY <1>1, <1>2, <2>1
<1>4. CASE RESUME(c)
  <2>1. \/ ch[c].st = "NULL" /\ \E p \in Free : Do(EvResume(S([new |-> p]), c))
        \/ ch[c].st # "NULL" /\ Do(SetDial(Now, c, "RESUME"))
    BY <1>4 DEF RESUME, SetDial
  <2> QED BY <1>1, <1>2, <2>1
<1> QED BY <1>3, <1>4

\* dial_timer: the channel is free now, or the DIAL is lost.
LEMMA DialTimerStep ==
    ASSUME IInv, NEW c \in Channels, DialTimer(c)
    PROVE  IInv' /\ Moved
<1>1. CASE ch[c].st # "NULL"
  <2>1. Do(SetDial(Now, c, "none"))
    BY <1>1 DEF DialTimer, SetDial, Now
  <2>2. Mine(Now, c, ch[c].proc)
    BY <1>1, Busy DEF Now
  <2>3. Result(Now, c, ch[c].proc, SetDial(Now, c, "none"))
    BY <2>2, LaterStep
  <2> QED BY <2>1, <2>2, <2>3, Act DEF Now
<1>2. CASE ch[c].st = "NULL"
  <2>1. PICK p \in Free :
            \/ Do(EvDial(SetDial(S([new |-> p]), c, "none"), c))
            \/ Do(EvResume(SetDial(S([new |-> p]), c, "none"), c))
    BY <1>2 DEF DialTimer, SetDial
  <2> DEFINE s == S([new |-> p])
  <2>2. Idle(s, c, p) /\ s.env.new = p
    BY <1>2, Spare, SIs
  <2> HIDE DEF s
  <2>3. /\ Result(s, c, p, EvDial(SetDial(s, c, "none"), c))
        /\ Result(s, c, p, EvResume(SetDial(s, c, "none"), c))
    BY <2>2, DialStep
  <2> QED BY <2>1, <2>2, <2>3, Act DEF s
<1> QED BY <1>1, <1>2

\* A SETUP finds a free channel and makes a process for it.
LEMMA SETUPStep ==
    ASSUME IInv, NEW p \in Procs, SETUP(p)
    PROVE  IInv' /\ Moved
<1>1. PICK b \in BOOLEAN, ans \in Answers, c \in Channels :
          /\ p \in Free /\ ch[c].st = "NULL"
          /\ Do(EvSetupInd(SetPr(SetProc(S([ans |-> ans]), c, p), p, NewL3(6, c, "none", b)),
                 c))
  <2>1. PICK b \in BOOLEAN, ans \in Answers : p \in Free /\
          \E c \in IF b /\ FreeOf(BChans) # {} THEN FreeOf(BChans) ELSE FreeOf(Waiting) :
           Do(EvSetupInd(
               [S([ans |-> ans]) EXCEPT
                    !.ch[c].proc = p,
                    !.pr[p] = [live |-> TRUE, st |-> 6, chan |-> c, timer |-> "none",
                               n303 |-> 1, bchannel |-> b]], c))
    BY DEF SETUP
  <2>2. (IF b /\ FreeOf(BChans) # {} THEN FreeOf(BChans) ELSE FreeOf(Waiting))
            \subseteq {c \in Channels : ch[c].st = "NULL"}
    BY DEF FreeOf, Channels
  <2>3. PICK c \in Channels : ch[c].st = "NULL" /\
           Do(EvSetupInd(
               [S([ans |-> ans]) EXCEPT
                    !.ch[c].proc = p,
                    !.pr[p] = [live |-> TRUE, st |-> 6, chan |-> c, timer |-> "none",
                               n303 |-> 1, bchannel |-> b]], c))
    BY <2>1, <2>2
  <2>4. Do(EvSetupInd(SetPr(SetProc(S([ans |-> ans]), c, p), p, NewL3(6, c, "none", b)), c))
    BY <2>3 DEF SetPr, SetProc, NewL3
  <2> QED BY <2>1, <2>3, <2>4
<1> DEFINE s == S([ans |-> ans])
           t == EvSetupInd(SetPr(SetProc(s, c, p), p, NewL3(6, c, "none", b)), c)
<1>2. Idle(s, c, p) /\ s.env.ans \in Answers
  <2>1. Idle(s, c, p)
    BY <1>1, Spare
  <2>2. s.env = [ans |-> ans]
    BY SIs
  <2>3. s.env.ans = ans
    <3> HIDE DEF s
    <3> QED BY <2>2
  <2> QED BY <2>1, <2>3
<1>3. Do(t)
  BY <1>1
<1>4. Result(s, c, p, t)
  <2> HIDE DEF s
  <2> QED BY <1>2, SetupStep
<1> QED BY <1>2, <1>3, <1>4, Act

\* A message to a process that is live.
LEMMA ReceiveStep ==
    ASSUME NEW s, NEW c, NEW p, Mine(s, c, p), NEW msg \in Messages, Handled(s.pr[p].st, msg),
           s.env.ans \in Answers, s.env.bc \in BOOLEAN
    PROVE  Result(s, c, p, Receive(s, p, msg))
<1> DEFINE st == s.pr[p].st
<1> HIDE DEF st
<1>0. Handled(st, msg)
  BY DEF st
<1>1. CASE msg = "CALL_PROCEEDING"
  <2>1. st \in {1, 2}
    BY <1>0, <1>1 DEF Handled
  <2> QED BY <1>1, <2>1, CallProceedingStep DEF st
<1>2. CASE msg = "SETUP_ACKNOWLEDGE"
  <2>1. st = 1
    BY <1>0, <1>2 DEF Handled
  <2> QED BY <1>2, <2>1, SetupAcknowledgeStep DEF st
<1>3. CASE msg = "ALERTING"
  <2>1. st \in {2, 3}
    BY <1>0, <1>3 DEF Handled
  <2> QED BY <1>3, <2>1, AlertingStep DEF st
<1>4. CASE msg = "CONNECT"
  <2>1. st \in {1, 2, 3, 4}
    BY <1>0, <1>4 DEF Handled
  <2> QED BY <1>4, <2>1, ConnectStep DEF st
<1>5. CASE msg = "CONNECT_ACKNOWLEDGE"
  <2>1. st = 8
    BY <1>0, <1>5 DEF Handled
  <2> QED BY <1>5, <2>1, ConnectAcknowledgeStep DEF st
<1>6. CASE msg = "INFORMATION"
  <2>1. st = 25
    BY <1>0, <1>6 DEF Handled
  <2> QED BY <1>6, <2>1, InformationStep DEF st
<1>7. CASE msg = "DISCONNECT"
  <2>1. st \in {1, 2, 3, 4, 7, 8, 9, 10, 11, 15, 17, 25}
    BY <1>0, <1>7 DEF Handled
  <2> QED BY <1>7, <2>1, DisconnectStep DEF st
<1>8. CASE msg = "DISCONNECT_faulty"
  <2>1. st \in {1, 2, 3, 4, 7, 8, 9, 10, 11, 15, 17, 25}
    BY <1>0, <1>8 DEF Handled
  <2> QED BY <1>8, <2>1, FaultyStep DEF st
<1>9. CASE msg = "SUSPEND_REJECT"
  <2>1. st = 15
    BY <1>0, <1>9 DEF Handled
  <2> QED BY <1>9, <2>1, SuspendRejectStep DEF st
<1>10. CASE msg = "RESUME_ACKNOWLEDGE"
  <2>1. st = 17
    BY <1>0, <1>10 DEF Handled
  <2> QED BY <1>10, <2>1, ResumeAcknowledgeStep DEF st
<1>11. CASE msg \in {"RELEASE", "RELEASE_COMPLETE", "STATUS_null", "SUSPEND_ACKNOWLEDGE",
                     "RESUME_REJECT"}
  BY <1>11, EndingStep
<1> QED BY <1>1, <1>2, <1>3, <1>4, <1>5, <1>6, <1>7, <1>8, <1>9, <1>10, <1>11 DEF Messages

\* Any message, at any time, to any live process.
LEMMA MessageStep ==
    ASSUME IInv, NEW p \in Procs, Message(p)
    PROVE  IInv' /\ Moved
<1>1. PICK msg \in Messages, ans \in Answers, bc \in BOOLEAN :
          pr[p].live /\ Handled(pr[p].st, msg)
              /\ Do(Receive(S([ans |-> ans, bc |-> bc]), p, msg))
  BY DEF Message, Live, Free
<1> DEFINE s == S([ans |-> ans, bc |-> bc])
           c == pr[p].chan
<1>2. Mine(s, c, p)
  BY <1>1, Alive
<1>3. s.pr = pr /\ s.env = [ans |-> ans, bc |-> bc]
  BY SIs
<1>4. Result(s, c, p, Receive(s, p, msg))
  <2> HIDE DEF s, c
  <2>1. s.env.ans = ans /\ (s.env.bc <=> bc) /\ s.env.bc \in BOOLEAN
    BY <1>3
  <2> QED BY <1>1, <1>2, <1>3, <2>1, ReceiveStep
<1>5. Do(Receive(s, p, msg))
  BY <1>1
<1> QED BY <1>2, <1>4, <1>5, Act

\* Memory that was freed: its process is not live, and has no channel.
Stale(y) == y \in l3_process /\ ~y.live /\ y.chan = NoChan
\* What the timer of such memory changes leaves it that.
LEMMA StaleStays ==
    ASSUME NEW y, Stale(y), NEW a \in L3States, NEW b \in L3Timers
    PROVE  Stale(L3St(y, a)) /\ Stale(Timer(y, b)) /\ Stale(Go(y, a, b))
<1>1. Stale(L3St(y, a)) /\ Stale(Timer(y, b))
  BY L3StIs, TimerIs DEF Stale
<1>2. Stale(Go(y, a, b))
  BY GoIs DEF Stale
<1> QED BY <1>1, <1>2

\* A timer that expires there reaches no channel.
LEMMA StaleExpire ==
    ASSUME NEW s, NEW c, NEW p, At(s, c, p), NEW x, NEW y, NEW z, NEW l,
           s = Put(s, c, p, x, y, z, l), Stale(y), NEW t
    PROVE  Expire(s, p, t).lost \/ \E v : Stale(v) /\ Expire(s, p, t) = Put(s, c, p, x, v, z, l)
<1> DEFINE u == L3DelTimer(s, p)
           w == Timer(y, "none")
           r == Expire(s, p, t)
           st == s.pr[p].st
           Ok(v) == Stale(v) /\ r = Put(s, c, p, x, v, z, l)
<1>1. u = Put(s, c, p, x, w, z, l) /\ y \in l3_process /\ st = y.st /\ y.st \in L3States
  BY L3DelTimerPut, PutIs DEF Stale, l3_process
<1>2. Stale(w) /\ w.st = y.st /\ w.n303 = y.n303
  <2>1. Stale(w)
    BY StaleStays, <1>1 DEF L3States, L3Timers
  <2> QED BY <1>1, <2>1, TimerIs DEF L3Timers
<1> DEFINE g == Go(w, 11, "T305")
           d == l3dss1_disconnect_req(u, p)
<1>3. d = Put(s, c, p, x, g, z, l) /\ Stale(g) /\ d.pr[p].chan = NoChan
  <2>1. d = Put(s, c, p, x, g, z, l)
    BY <1>1, L3Put DEF l3dss1_disconnect_req
  <2>2. Stale(g)
    BY <1>2, StaleStays DEF L3States, L3Timers
  <2> HIDE DEF d, g
  <2>3. d.pr[p].chan = NoChan
    BY <2>1, <2>2, PutIs DEF Stale
  <2> QED BY <2>1, <2>2, <2>3
<1>4. Stale(Gone(w)) /\ release_l3_process(u, p) = Put(s, c, p, x, Gone(w), z, l)
      /\ u.pr[p].chan = NoChan
  BY <1>1, <1>2, GoneIs, release_l3_processPut, PutIs DEF Stale
<1> SUFFICES r.lost \/ \E v : Ok(v)
  OBVIOUS
<1>5. CASE \/ t = "T302" /\ st = 25
           \/ t = "T304" /\ st = 2
           \/ t = "T310" /\ st = 3
  <2> HIDE DEF u
  <2>1. r = GiveUp(u, p, EvSetupErr)
    BY <1>5 DEF u, Expire, GiveUp, l3l4
  <2>2. r = IF d.pr[p].chan = NoChan THEN d ELSE EvSetupErr(d, d.pr[p].chan)
    BY <2>1 DEF GiveUp, l3l4
  <2> HIDE DEF d, r, g
  <2>3. Ok(g)
    BY <1>3, <2>2
  <2> QED BY <2>3
<1>6. CASE t = "T313" /\ st = 8
  <2> HIDE DEF u
  <2>1. r = GiveUp(u, p, EvConnectErr)
    BY <1>6 DEF u, Expire, GiveUp, l3l4
  <2>2. r = IF d.pr[p].chan = NoChan THEN d ELSE EvConnectErr(d, d.pr[p].chan)
    BY <2>1 DEF GiveUp, l3l4
  <2> HIDE DEF d, r, g
  <2>3. Ok(g)
    BY <1>3, <2>2
  <2> QED BY <2>3
<1>7. CASE t = "T305" /\ st = 11
  <2>1. r = L3(u, p, 19, "T308_1")
    BY <1>7 DEF Expire
  <2>2. L3(u, p, 19, "T308_1") = Put(s, c, p, x, Go(w, 19, "T308_1"), z, l)
    BY <1>1, L3Put
  <2>3. Stale(Go(w, 19, "T308_1"))
    BY <1>2, StaleStays DEF L3States, L3Timers
  <2> QED BY <2>1, <2>2, <2>3
<1>8. CASE t = "T308_1" /\ st = 19
  <2>1. r = L3(u, p, 19, "T308_2")
    BY <1>8 DEF Expire
  <2>2. L3(u, p, 19, "T308_2") = Put(s, c, p, x, Go(w, 19, "T308_2"), z, l)
    BY <1>1, L3Put
  <2>3. Stale(Go(w, 19, "T308_2"))
    BY <1>2, StaleStays DEF L3States, L3Timers
  <2> QED BY <2>1, <2>2, <2>3
<1>9. CASE t = "T308_2" /\ st = 19
  <2> HIDE DEF u
  <2>1. r = EndWith(u, p, EvRelease)
    BY <1>9 DEF u, Expire, EndWith, l3l4
  <2>2. r
              = release_l3_process(IF u.pr[p].chan = NoChan THEN u ELSE EvRelease(u,
              u.pr[p].chan), p)
    BY <2>1 DEF EndWith, l3l4
  <2> HIDE DEF r, w
  <2>3. Ok(Gone(w))
    BY <1>4, <2>2
  <2> QED BY <2>3
<1>10. CASE t = "T309" /\ st = 10
  <2> DEFINE a == newl3state(u, p, 0)
             b == L3St(w, 0)
  <2>1. a = Put(s, c, p, x, b, z, l) /\ Stale(b)
    BY <1>1, <1>2, PutL3St, StaleStays DEF L3States, L3Timers
  <2>2. Stale(Gone(b)) /\ release_l3_process(a, p) = Put(s, c, p, x, Gone(b), z, l)
        /\ a.pr[p].chan = NoChan
    BY <2>1, GoneIs, release_l3_processPut, PutIs DEF Stale
  <2>3. r = EndWith(a, p, EvRelease)
    BY <1>10 DEF Expire, EndWith, l3l4
  <2> HIDE DEF a
  <2>4. r
              = release_l3_process(IF a.pr[p].chan = NoChan THEN a ELSE EvRelease(a,
              a.pr[p].chan), p)
    BY <2>3 DEF EndWith, l3l4
  <2> HIDE DEF r, b
  <2>5. Ok(Gone(b))
    BY <2>2, <2>4
  <2> QED BY <2>5
<1>11. CASE t = "T318" /\ st = 17
  <2>1. r = l3dss1_t318(u, p)
    BY <1>11 DEF Expire
  <2> DEFINE a == l3l4(u, p, EvRelease)
  <2>2. a = u
    BY <1>4 DEF l3l4
  <2>3. l3dss1_t318(u, p) = Lose(L3(u, p, 19, "T308_1"))
    BY <2>2 DEF l3dss1_t318
  <2>4. L3(u, p, 19, "T308_1") = Put(s, c, p, x, Go(w, 19, "T308_1"), z, l)
    BY <1>1, L3Put
  <2>5. r = Put(s, c, p, x, Go(w, 19, "T308_1"), z, Yes)
    BY <2>1, <2>3, <2>4, PutLost
  <2> HIDE DEF r
  <2>6. r.lost = Yes
    BY <2>5 DEF Put
  <2> QED BY <2>6 DEF Yes
<1>12. CASE t = "T319" /\ st = 15
  <2>1. r = newl3state(u, p, 10)
    BY <1>12 DEF Expire
  <2>2. newl3state(u, p, 10) = Put(s, c, p, x, L3St(w, 10), z, l)
    BY <1>1, PutL3St
  <2>3. Stale(L3St(w, 10))
    BY <1>2, StaleStays DEF L3States, L3Timers
  <2> QED BY <2>1, <2>2, <2>3
<1>13. CASE t = "T303" /\ st = 1
  <2>1. r = l3dss1_t303(u, p)
    BY <1>13 DEF Expire, l3dss1_t303, EndWith, l3l4
  <2>2. u.pr[p].n303 = y.n303
    BY <1>1, <1>2, PutIs
  <2>3. CASE y.n303 > 0
    <3> DEFINE v == Timer(N303(w, w.n303 - 1), "T303")
    <3>1. l3dss1_t303(u, p) = SetupAgain(u, p)
      BY <2>2, <2>3 DEF l3dss1_t303, EndWith, l3l4
    <3>2. SetupAgain(u, p) = Put(s, c, p, x, v, z, l)
      BY <1>1, SetupAgainPut
    <3>3. y.n303 - 1 \in 0 .. 1
      BY <1>1, <2>3 DEF l3_process
    <3>4. Stale(N303(w, w.n303 - 1))
      BY <1>2, <3>3, N303Is DEF Stale
    <3>5. Stale(v)
      BY <3>4, StaleStays DEF L3States, L3Timers
    <3> HIDE DEF v
    <3> QED BY <2>1, <3>1, <3>2, <3>5
  <2>4. CASE ~(y.n303 > 0)
    <3> HIDE DEF u
    <3>1. l3dss1_t303(u, p) = EndWith(u, p, EvNoSetupRsp)
      BY <2>2, <2>4 DEF l3dss1_t303, EndWith, l3l4
    <3>2. l3dss1_t303(u, p)
                = release_l3_process(IF u.pr[p].chan = NoChan THEN u ELSE EvNoSetupRsp(u,
                u.pr[p].chan), p)
      BY <3>1 DEF EndWith, l3l4
    <3> HIDE DEF r, w
    <3>3. Ok(Gone(w))
      BY <1>4, <2>1, <3>2
    <3> QED BY <3>3
  <2> QED BY <2>3, <2>4
<1>14. CASE /\ ~(t = "T302" /\ st = 25)
            /\ ~(t = "T304" /\ st = 2)
            /\ ~(t = "T310" /\ st = 3)
            /\ ~(t = "T313" /\ st = 8)
            /\ ~(t = "T305" /\ st = 11)
            /\ ~(t = "T308_1" /\ st = 19)
            /\ ~(t = "T308_2" /\ st = 19)
            /\ ~(t = "T309" /\ st = 10)
            /\ ~(t = "T318" /\ st = 17)
            /\ ~(t = "T319" /\ st = 15)
            /\ ~(t = "T303" /\ st = 1)
  <2>1. r = u
    BY <1>14 DEF Expire, GiveUp, EndWith, l3l4
  <2> HIDE DEF r, u, w
  <2>2. Ok(w)
    BY <1>1, <1>2, <2>1
  <2> QED BY <2>2
<1> QED
  BY <1>5, <1>6, <1>7, <1>8, <1>9, <1>10, <1>11, <1>12, <1>13, <1>14

\* Any timer that runs.
LEMMA L3TimerStep ==
    ASSUME IInv, NEW p \in Procs, L3Timer(p)
    PROVE  IInv' /\ Moved
<1> DEFINE env == [ans |-> "ignore", bc |-> FALSE]
           s == S(env)
           t == Expire(s, p, pr[p].timer)
<1>1. pr[p].timer # "none" /\ Do(t)
  BY DEF L3Timer, Now
<1>2. s.ch = ch /\ s.pr = pr /\ s.ll = ll
  BY SIs
<1>3. CASE pr[p].live
  <2> DEFINE c == pr[p].chan
  <2>1. Mine(s, c, p)
    BY <1>3, Alive
  <2>2. Result(s, c, p, t)
    <3> HIDE DEF s
    <3> QED BY <1>1, <1>2, <2>1, ExpireStep
  <2> HIDE DEF t
  <2> QED BY <1>1, <2>1, <2>2, Act
<1>4. CASE ~pr[p].live
  <2>1. PICK c \in Channels : TRUE
    BY Names
  <2>2. Good(s)
    BY SGood
  <2> DEFINE x == s.ch[c]
             y == s.pr[p]
             z == s.ll[c]
             l == s.lost
  <2>3. At(s, c, p) /\ s = Put(s, c, p, x, y, z, l)
    BY <2>1, Whole
  <2>4. Stale(y) /\ ~s.pr[p].live
    <3>1. y \in l3_process /\ ProcGood(s, p)
      BY <2>2 DEF Good, Typed
    <3> QED BY <1>2, <1>4, <3>1 DEF Stale, ProcGood
  <2>5. ~t.lost
    BY <1>1 DEF Do
  <2> HIDE DEF x, y, z, l, s
  <2>6. PICK v : Stale(v) /\ t = Put(s, c, p, x, v, z, l)
    BY <2>3, <2>4, <2>5, StaleExpire
  <2>7. [s.ch EXCEPT ![c] = x] = s.ch /\ [s.ll EXCEPT ![c] = z] = s.ll
    BY <2>3 DEF At, Typed, x, z
  <2> HIDE DEF t
  <2>8. t.ch = s.ch /\ t.ll = s.ll /\ t.pr = [s.pr EXCEPT ![p] = v]
    BY <2>6, <2>7 DEF Put
  <2>9. Good(t) /\ Moves(s, t)
    BY <2>2, <2>4, <2>6, <2>8, Alone DEF Stale
  <2> QED BY <1>1, <2>9, DoStep DEF s
<1> QED BY <1>3, <1>4

-----------------------------------------------------------------------------
(* The data link *)

\* The data link is lost, for one process.
LEMMA dl_releaseStep ==
    ASSUME NEW s, NEW c, NEW p, Mine(s, c, p)
    PROVE  Result(s, c, p, dl_release(s, p))
<1>1. CASE s.pr[p].st = 10
  <2>1. dl_release(s, p) = L3AddTimer(L3DelTimer(s, p), p, "T309")
    BY <1>1 DEF dl_release, EndWith, l3l4
  <2> QED BY <1>1, <2>1, AddT309Step
<1>2. CASE s.pr[p].st # 10
  <2>1. dl_release(s, p) = EndWith(newl3state(s, p, 0), p, EvRelease)
    BY <1>2 DEF dl_release, EndWith, l3l4
  <2>2. Result(s, c, p, EndWith(newl3state(s, p, 0), p, EvRelease))
    BY <1>2, LinkLostStep
  <2> QED BY <2>1, <2>2
<1> QED BY <1>1, <1>2

\* What every process of P does, by itself.
LEMMA All ==
    ASSUME IInv, NEW P \in SUBSET Procs, NEW u, NEW t, Do(t),
           \A p \in P : /\ pr[p].live /\ ~u[p].lost /\ Result(Now, pr[p].chan, p, u[p]),
           t.pr = [p \in Procs |-> IF p \in P THEN u[p].pr[p] ELSE pr[p]],
           t.ch = [c \in Channels |-> IF ch[c].proc \in P THEN u[ch[c].proc].ch[c] ELSE ch[c]],
           t.ll = [c \in Channels |-> IF ch[c].proc \in P THEN u[ch[c].proc].ll[c] ELSE ll[c]]
    PROVE  IInv' /\ Moved
<1> DEFINE env == [ans |-> "ignore", bc |-> FALSE]
           s == S(env)
<1>1. s = Now /\ s.ch = ch /\ s.pr = pr /\ s.ll = ll
  BY SIs DEF Now
<1>2. Good(s)
  BY SGood
<1>3. \A p \in P : Mine(s, s.pr[p].chan, p)
  BY <1>1, Alive
<1>4. Good(t) /\ Moves(s, t)
  <2> HIDE DEF s
  <2>1. \A p \in P : /\ s.pr[p].live /\ ~u[p].lost
                     /\ Mine(s, s.pr[p].chan, p) /\ Result(s, s.pr[p].chan, p, u[p])
    BY <1>1, <1>3
  <2>2. t.pr = [p \in Procs |-> IF p \in P THEN u[p].pr[p] ELSE s.pr[p]]
    BY <1>1
  <2>3. t.ch
              = [c \in Channels |-> IF s.ch[c].proc \in P THEN u[s.ch[c].proc].ch[c] ELSE s.ch[c]]
    BY <1>1
  <2>4. t.ll
              = [c \in Channels |-> IF s.ch[c].proc \in P THEN u[s.ch[c].proc].ll[c] ELSE s.ll[c]]
    BY <1>1
  <2> QED BY <1>2, <2>1, <2>2, <2>3, <2>4, Together, Zenon
<1> QED BY <1>4, DoStep

\* The data link is lost: every process learns of it.
LEMMA LinkLostAct ==
    ASSUME IInv, LinkLost
    PROVE  IInv' /\ Moved
<1> DEFINE t == ForEach(Live, dl_release)
           u == [p \in Live |-> dl_release(Now, p)]
<1>1. Do(t) /\ Live \subseteq Procs
  BY DEF LinkLost, Live
<1>2. /\ t.pr = [p \in Procs |-> IF p \in Live THEN u[p].pr[p] ELSE pr[p]]
      /\ t.ch = [c \in Channels |-> IF ch[c].proc \in Live THEN u[ch[c].proc].ch[c] ELSE ch[c]]
      /\ t.ll = [c \in Channels |-> IF ch[c].proc \in Live THEN u[ch[c].proc].ll[c] ELSE ll[c]]
      /\ t.lost <=> \E p \in Live : u[p].lost
  BY DEF ForEach, Now, S
<1>3. \A p \in Live : pr[p].live /\ Result(Now, pr[p].chan, p, u[p])
  <2> SUFFICES ASSUME NEW p \in Live
               PROVE  pr[p].live /\ Result(Now, pr[p].chan, p, u[p])
    OBVIOUS
  <2>1. pr[p].live /\ p \in Procs
    BY DEF Live, Free
  <2>2. Mine(Now, pr[p].chan, p)
    BY <2>1, Alive DEF Now
  <2>3. Result(Now, pr[p].chan, p, dl_release(Now, p))
    BY <2>2, dl_releaseStep
  <2> QED BY <2>1, <2>3
<1>4. \A p \in Live : ~u[p].lost
  BY <1>1, <1>2 DEF Do
<1> HIDE DEF t, u
<1> QED BY <1>1, <1>2, <1>3, <1>4, All

\* It was reset: the calls that are dialling overlap are given up.
LEMMA LinkResetAct ==
    ASSUME IInv, LinkReset
    PROVE  IInv' /\ Moved
<1> DEFINE P == {p \in Live : pr[p].st = 2}
           t == ForEach(P, LAMBDA s, p : GiveUp(s, p, EvSetupErr))
           u == [p \in P |-> GiveUp(Now, p, EvSetupErr)]
<1>1. Do(t) /\ P \subseteq Procs
  BY DEF LinkReset, Live
<1>2. /\ t.pr = [p \in Procs |-> IF p \in P THEN u[p].pr[p] ELSE pr[p]]
      /\ t.ch = [c \in Channels |-> IF ch[c].proc \in P THEN u[ch[c].proc].ch[c] ELSE ch[c]]
      /\ t.ll = [c \in Channels |-> IF ch[c].proc \in P THEN u[ch[c].proc].ll[c] ELSE ll[c]]
      /\ t.lost <=> \E p \in P : u[p].lost
  BY DEF ForEach, Now, S
<1>3. \A p \in P : pr[p].live /\ Result(Now, pr[p].chan, p, u[p])
  <2> SUFFICES ASSUME NEW p \in P
               PROVE  pr[p].live /\ Result(Now, pr[p].chan, p, u[p])
    OBVIOUS
  <2>1. pr[p].live /\ p \in Procs /\ pr[p].st = 2
    BY DEF Live, Free
  <2>2. Mine(Now, pr[p].chan, p) /\ Now.pr = pr
    BY <2>1, Alive, SIs DEF Now
  <2>3. Result(Now, pr[p].chan, p, GiveUp(Now, p, EvSetupErr))
    BY <2>1, <2>2, ResetStep
  <2> QED BY <2>1, <2>3
<1>4. \A p \in P : ~u[p].lost
  BY <1>1, <1>2, Zenon DEF Do
<1> HIDE DEF t, u, P
<1> QED BY <1>1, <1>2, <1>3, <1>4, All

\* It is back: T309 stops.
LEMMA LinkBackAct ==
    ASSUME IInv, LinkBack
    PROVE  IInv' /\ Moved
<1> DEFINE P == {p \in Live : pr[p].st = 10}
           t == [Now EXCEPT !.pr = [p \in Procs |->
                    IF p \in Live
                        /\ @[p].st = 10 THEN [@[p] EXCEPT !.timer = "none"] ELSE @[p]]]
           u == [p \in P |-> L3DelTimer(Now, p)]
<1>1. Do(t) /\ P \subseteq Procs
  BY DEF LinkBack, Live
<1>2. ASSUME NEW p \in P
      PROVE  /\ pr[p].live /\ p \in Procs /\ Result(Now, pr[p].chan, p, u[p])
             /\ u[p].pr[p] = [pr[p] EXCEPT !.timer = "none"]
             /\ u[p].ch = ch /\ u[p].ll = ll /\ ~u[p].lost
  <2>1. pr[p].live /\ p \in Procs /\ pr[p].st = 10
    BY DEF Live, Free
  <2>2. Mine(Now, pr[p].chan, p) /\ Now.pr = pr
    BY <2>1, Alive, SIs DEF Now
  <2>3. Result(Now, pr[p].chan, p, L3DelTimer(Now, p))
    BY <2>1, <2>2, StopStep
  <2>4. pr \in [Procs -> l3_process]
    BY <2>2 DEF Mine, At, Typed
  <2>5. L3DelTimer(Now, p).ch = ch /\ L3DelTimer(Now, p).ll = ll /\ ~L3DelTimer(Now, p).lost
        /\ L3DelTimer(Now, p).pr = [pr EXCEPT ![p] = [pr[p] EXCEPT !.timer = "none"]]
    BY DEF L3DelTimer, Now, S
  <2>6. L3DelTimer(Now, p).pr[p] = [pr[p] EXCEPT !.timer = "none"]
    BY <2>1, <2>4, <2>5
  <2> QED BY <2>1, <2>3, <2>5, <2>6
<1>3. t.ch = ch /\ t.ll = ll
      /\ t.pr = [p \in Procs |-> IF p \in P THEN [pr[p] EXCEPT !.timer = "none"] ELSE pr[p]]
  BY DEF Now, S
<1> HIDE DEF t, u, P
<1>4. ch = [c \in Channels |-> ch[c]] /\ ll = [c \in Channels |-> ll[c]]
  BY DEF IInv, Good, Typed, Now, S
<1>5. /\ t.pr = [p \in Procs |-> IF p \in P THEN u[p].pr[p] ELSE pr[p]]
      /\ t.ch = [c \in Channels |-> IF ch[c].proc \in P THEN u[ch[c].proc].ch[c] ELSE ch[c]]
      /\ t.ll = [c \in Channels |-> IF ch[c].proc \in P THEN u[ch[c].proc].ll[c] ELSE ll[c]]
  BY <1>2, <1>3, <1>4
<1> QED BY <1>1, <1>2, <1>5, All

-----------------------------------------------------------------------------
(* The theorems *)

\* The invariant is about the variables.
LEMMA NowIs == Now.ch = ch /\ Now.pr = pr /\ Now.ll = ll
BY DEF Now, S

\* In the beginning every channel is free and no process lives.
LEMMA InitGood == Init => IInv
<1> SUFFICES ASSUME Init
             PROVE  IInv
  OBVIOUS
<1>1. /\ \A c \in Channels : ch[c] \in Channel /\ ll[c] \in LinkLevel /\ ch[c].st = "NULL"
             /\ Free1(ch[c], ll[c])
      /\ \A p \in Procs : pr[p] \in l3_process /\ ~pr[p].live /\ pr[p].chan = NoChan
  BY DEF Init, Channel, l3_process, LinkLevel, States, L3States, L3Timers, Free1
<1>2. Typed(Now)
  BY <1>1, NowIs DEF Init, Typed
<1>3. \A c \in Channels : ChanGood(Now, c)
  BY <1>1, NowIs DEF ChanGood
<1>4. \A p \in Procs : ProcGood(Now, p)
  BY <1>1, NowIs DEF ProcGood
<1> QED BY <1>2, <1>3, <1>4 DEF IInv, Good

\* Every action keeps the invariant, and every channel makes a move of Call.
LEMMA NextGood == IInv /\ [Next]_vars => IInv' /\ Moved
<1> SUFFICES ASSUME IInv, [Next]_vars
             PROVE  IInv' /\ Moved
  OBVIOUS
<1>1. ASSUME NEW c \in Channels,
             \/ DIAL(c) \/ RESUME(c) \/ DialTimer(c) \/ ACCEPTD(c) \/ ALERT(c) \/ REDIR(c)
             \/ HANGUP(c) \/ DrelTimer(c) \/ SUSPEND(c) \/ BcEst(c) \/ BcRel(c)
      PROVE  IInv' /\ Moved
  BY <1>1, DIALStep, DialTimerStep, ACCEPTDStep, ALERTStep, REDIRStep, HANGUPStep,
     DrelTimerStep, SUSPENDStep, BcEstAct, BcRelAct
<1>2. ASSUME NEW p \in Procs, SETUP(p) \/ Message(p) \/ L3Timer(p)
      PROVE  IInv' /\ Moved
  BY <1>2, SETUPStep, MessageStep, L3TimerStep
<1>3. CASE LinkLost \/ LinkReset \/ LinkBack
  BY <1>3, LinkLostAct, LinkResetAct, LinkBackAct
<1>4. CASE UNCHANGED vars
  <2>1. ch' = ch /\ pr' = pr /\ ll' = ll
    BY <1>4 DEF vars
  <2>2. Now' = Now
    BY <2>1 DEF Now, S
  <2>3. Moved
    BY <2>1, Still DEF Moved
  <2> QED BY <2>2, <2>3 DEF IInv
<1> QED BY <1>1, <1>2, <1>3, <1>4 DEF Next

\* So it always holds.
LEMMA Invariant == Spec => []IInv
BY InitGood, NextGood, PTL DEF Spec

\* A free channel, for selectfreechannel, is one the link level has nothing on,
\* in every step of every call and for any number of channels.
THEOREM AgreedAlways == Spec => []Agreed
<1>1. IInv => Agreed
  <2> SUFFICES ASSUME IInv, NEW c \in Channels
               PROVE  ll[c].phase = "null" <=> ch[c].st = "NULL"
    BY DEF Agreed
  <2>1. ChanGood(Now, c)
    BY DEF IInv, Good
  <2>2. CASE ch[c].st = "NULL"
    BY <2>1, <2>2, NowIs DEF ChanGood, Free1
  <2>3. CASE ch[c].st # "NULL"
    <3>1. ll[c].phase \in PhasesOf(ch[c].st)
      BY <2>1, <2>3, NowIs DEF ChanGood, Fits
    <3> QED BY <2>3, <3>1 DEF PhasesOf
  <2> QED BY <2>2, <2>3
<1> QED BY <1>1, Invariant, PTL

\* A channel with a call and its process point at each other, whoever clears
\* the call first, for any number of processes: no channel uses memory that was
\* freed, and no process is left that nobody can clear.
THEOREM LinkedAlways == Spec => []Linked
<1>1. IInv => Linked
  <2> SUFFICES ASSUME IInv
               PROVE  Linked
    OBVIOUS
  <2>1. ASSUME NEW c \in Channels, ch[c].st # "NULL"
        PROVE  ch[c].proc # NoProc /\ pr[ch[c].proc].live /\ pr[ch[c].proc].chan = c
    <3>1. ChanGood(Now, c)
      BY DEF IInv, Good
    <3> QED BY <2>1, <3>1, NowIs, Names DEF ChanGood, Fits
  <2>2. ASSUME NEW p \in Live
        PROVE  pr[p].chan # NoChan /\ ch[pr[p].chan].proc = p
    <3>1. p \in Procs /\ pr[p].live
      BY DEF Live, Free
    <3>2. ProcGood(Now, p)
      BY <3>1 DEF IInv, Good
    <3> QED BY <3>1, <3>2, NowIs, Names DEF ProcGood
  <2> QED BY <2>1, <2>2 DEF Linked
<1> QED BY <1>1, Invariant, PTL

\* The stack of a B channel is up only in the states that take it down again,
\* and data reaches the link level only between STAT_BCONN and STAT_BHUP.
THEOREM BChannelAlways == Spec => []BChannel
<1>1. IInv => BChannel
  <2> SUFFICES ASSUME IInv, NEW c \in Channels
               PROVE  /\ ch[c].start_b => ch[c].st \in BStates
                      /\ ch[c].data_open => ll[c].phase = "data"
    BY DEF BChannel
  <2>1. ChanGood(Now, c)
    BY DEF IInv, Good
  <2>2. CASE ch[c].st = "NULL"
    BY <2>1, <2>2, NowIs DEF ChanGood, Free1
  <2>3. CASE ch[c].st # "NULL"
    BY <2>1, <2>3, NowIs DEF ChanGood, Fits, PhasesOf
  <2> QED BY <2>2, <2>3
<1> QED BY <1>1, Invariant, PTL

\* Where only the network's answer would end the wait the process has a timer,
\* and in 15 too unless it came there with T309, for any number of channels and
\* processes: whatever the network answers, and whoever clears the call.
THEOREM TimedAlways == Spec => Timed
<1> DEFINE Waits == \A p \in Live :
                       pr[p].st \in {1, 2, 3, 8, 11, 17, 19, 25} => pr[p].timer # "none"
           Suspends == \A p \in Procs :
               pr'[p].live /\ pr'[p].st = 15 /\ pr'[p].timer = "none" =>
                   pr[p].live /\ pr[p].st = 15 /\ pr[p].timer \in {"none", "T309"}
<1>1. IInv => Waits
  <2> SUFFICES ASSUME IInv, NEW p \in Live, pr[p].st \in {1, 2, 3, 8, 11, 17, 19, 25}
               PROVE  pr[p].timer # "none"
    OBVIOUS
  <2>1. p \in Procs /\ pr[p].live
    BY DEF Live, Free
  <2>2. ProcGood(Now, p) /\ (pr[p].chan \in Channels => ChanGood(Now, pr[p].chan))
    BY <2>1 DEF IInv, Good
  <2>3. pr[p].timer \in TimersOf(pr[p].st)
    BY <2>1, <2>2, NowIs DEF ProcGood, ChanGood, Fits
  <2> QED BY <2>3 DEF TimersOf
<1>2. IInv /\ [Next]_vars => [Suspends]_vars
  BY NextGood DEF Moved, Kept
<1> HIDE DEF Waits, Suspends
<1>3. Spec => []Waits /\ [][Suspends]_vars
  BY <1>1, <1>2, Invariant, PTL DEF Spec
<1> QED BY <1>3 DEF Timed, Waits, Suspends

\* What the refinement hides of HANGUP: the call that is hung up and will end.
LEMMA HungIs ==
    ASSUME NEW s, Good(s), NEW c \in Channels
    PROVE  LET x == s.ch[c]
               y == s.pr[s.ch[c].proc]
           IN  (/\ s.ll[c].hup
                /\ ~ (/\ x.proc # NoProc
                      /\ \/ y.st \in {15, 17}
                         \/ y.st \in {10, 12} /\ x.st = "WAIT_DRELEASE"))
               <=> Hung(x, y, s.ll[c])
<1>1. s.ll[c].hup => s.ch[c].proc \in Procs
  BY DEF Good, ChanGood, Free1
<1> QED BY <1>1, Names DEF Hung, Held

\* Every channel follows the promise of Call in every step, of the link level,
\* the network, a timer or the data link: its callbacks keep their order, a call
\* that was hung up gets no STAT_DCONN and no STAT_BCONN, and only STAT_DHUP
\* ends it.
THEOREM CallOrder == Spec => Driver!Init /\ [][Driver!Next]_(Driver!vars)
<1> DEFINE phase == [c \in Channels |-> ll[c].phase]
           hung == [c \in Channels |-> ll[c].hup /\ ~Suspended(c)]
<1>1. Init => Driver!Init
  <2> SUFFICES ASSUME Init
               PROVE  phase = [c \in Channels |-> "null"] /\ hung = [c \in Channels |-> FALSE]
    BY DEF Driver!Init
  <2>1. \A c \in Channels : ll[c].phase = "null" /\ ~ll[c].hup
    BY DEF Init
  <2>2. \A c \in Channels : (ll[c].hup /\ ~Suspended(c)) = FALSE
    BY <2>1
  <2> QED BY <2>1, <2>2
<1>2. IInv /\ [Next]_vars => [Driver!Next]_(Driver!vars)
  <2> SUFFICES ASSUME IInv, [Next]_vars
               PROVE  Driver!Next
    OBVIOUS
  <2>1. IInv' /\ Moved
    BY NextGood
  <2> SUFFICES ASSUME NEW c \in Channels
               PROVE  \/ Driver!Begin(c) \/ Driver!Dconn(c) \/ Driver!Bconn(c)
                      \/ Driver!Bhup(c) \/ Driver!Dhup(c) \/ Driver!Hangup(c)
                      \/ phase'[c] = phase[c] /\ hung'[c] = hung[c]
    BY DEF Driver!Next
  <2>2. phase[c] = ll[c].phase /\ phase'[c] = ll'[c].phase
    OBVIOUS
  <2>3. hung[c] <=> Hung(ch[c], pr[ch[c].proc], ll[c])
    <3>1. Good(Now)
      BY DEF IInv
    <3> QED BY <3>1, NowIs, HungIs DEF Suspended
  <2>4. hung'[c] <=> Hung(ch'[c], pr'[ch'[c].proc], ll'[c])
    <3>1. Good(Now') /\ Now'.ch = ch' /\ Now'.pr = pr' /\ Now'.ll = ll'
      BY <2>1 DEF IInv, Now, S
    <3> QED BY <3>1, HungIs DEF Suspended
  <2>5. hung[c] \in BOOLEAN /\ hung'[c] \in BOOLEAN
    OBVIOUS
  <2>6. Order(ch[c], pr[ch[c].proc], ll[c], ch'[c], pr'[ch'[c].proc], ll'[c])
    BY <2>1 DEF Moved
  <2> QED BY <2>2, <2>3, <2>4, <2>5, <2>6
          DEF Order, Driver!Begin, Driver!Dconn, Driver!Bconn, Driver!Bhup, Driver!Dhup,
              Driver!Hangup, Driver!From
<1> QED BY <1>1, <1>2, Invariant, PTL DEF Spec
================================================================================

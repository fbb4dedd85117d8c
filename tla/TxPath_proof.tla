------------------------------ MODULE TxPath_proof ------------------------------
(***************************************************************************)
(* No frame is lost, and none waits for nothing, on the way to the         *)
(* transmitter: for every length of the queues, on a B channel, and on a D *)
(* channel that only the bottom half uses.  That a process uses it too     *)
(* breaks this (see the run tx_isac_process): Alone is needed.             *)
(***************************************************************************)
EXTENDS TxPath, TLAPS

Alone == ~DProcess

Filling == {"fill", "load"}
Pulling == {"pulled", "load", "again", "remember"}

ProcessAt(step) == pc["process"] = step

Counts ==
    /\ tx \in {0, 1, 2} /\ rest \in {0, 1, 2} /\ sq \in Nat
    /\ iq \in Nat /\ iq <= MaxQ
Bits == hscx \in BOOLEAN /\ busy \in BOOLEAN /\ fifo \in BOOLEAN /\ pull \in BOOLEAN /\ event \in BOOLEAN

Types == Counts /\ Bits /\ pc \in [Contexts -> Steps] /\ log = {}

(***************************************************************************)
(* Layer 2 makes its calls in the bottom half, and a process of a B        *)
(* channel is only ever seen between tx_skb and the FIFO.                  *)
(***************************************************************************)
Where ==
    /\ pc["process"] \in {"idle", "fill"}
    /\ pc["process"] = "fill" => hscx
    /\ pc["bh"] = "set" \/ pc["bh"] = "pulled" => tx = 0
    /\ pc["bh"] = "queue" \/ pc["bh"] = "set" => ~hscx
    /\ pc["bh"] \in Filling => ~ProcessAt("fill")

\* tx_skb, the FIFO and the context that is to fill it.
Transmitter ==
    /\ tx = 0 => ~fifo
    /\ tx # 0 /\ ~fifo => rest > 0 /\ (pc["bh"] \in Filling \/ ProcessAt("fill"))
    /\ pc["bh"] \in Filling \/ ProcessAt("fill") => tx # 0 /\ ~fifo /\ rest > 0
    /\ hscx => (busy <=> tx # 0) /\ (sq > 0 => tx # 0)

\* Requests of layer 2 that wait.
Requests ==
    /\ pull \/ pc["bh"] = "remember" => tx # 0 \/ event
    /\ iq > 0 => pull \/ pc["bh"] \in Pulling

IInv == Types /\ Where /\ Transmitter /\ Requests

-----------------------------------------------------------------------------
(* The contexts *)

LEMMA AContexts ==
    /\ "bh" \in Contexts
    /\ \A c \in Contexts : c = "bh" \/ c = "process"
    /\ "process" \in Contexts
BY DEF Contexts

LEMMA GotoFacts ==
    ASSUME Types, NEW c \in Contexts, NEW step \in Steps, Goto(c, step)
    PROVE  /\ pc' \in [Contexts -> Steps] /\ pc'[c] = step
           /\ \A d \in Contexts : d # c => pc'[d] = pc[d]
BY DEF Types, Goto

\* A step that moves nobody.
LEMMA StayFacts ==
    ASSUME Types, UNCHANGED pc PROVE pc' \in [Contexts -> Steps]
BY DEF Types

LEMMA LengthsAre == Lengths = {1, 2}
BY DEF Lengths

LEMMA IInit == Init => IInv
<1> SUFFICES ASSUME Init PROVE IInv
  OBVIOUS
<1>1. \A c \in Contexts : pc[c] = "idle"
  BY DEF Init
<1>2. Counts /\ pc \in [Contexts -> Steps] /\ log = {}
  BY TxAssumption DEF Counts, Init, Steps
<1>5. Bits
  BY DEF Bits, Init
<1>3. Where /\ Requests
  BY <1>1, AContexts DEF Where, Requests, Init, ProcessAt, Filling
<1>4. Transmitter
  BY <1>1, AContexts DEF Transmitter, Init, ProcessAt, Filling
<1> QED BY <1>2, <1>3, <1>4, <1>5 DEF IInv, Types

-----------------------------------------------------------------------------
(* One lemma for each action *)

LEMMA DataTestInv ==
    ASSUME Alone, IInv, UNCHANGED hscx, NEW c \in Contexts, DataTest(c) PROVE IInv'
<1> USE TxAssumption, AContexts, LengthsAre DEF IInv
<1>0. /\ pc' \in [Contexts -> Steps] /\ pc'[c] = (IF tx # 0 THEN "queue" ELSE "set")
      /\ \A d \in Contexts : d # c => pc'[d] = pc[d]
  BY GotoFacts DEF DataTest, Steps
<1>1. Bits'
  BY <1>0 DEF Types, Bits, DataTest
<1>2. Counts'
  BY <1>0 DEF Counts, Types, Transmitter, DataTest, At
<1>3. log' = {}
  BY <1>0 DEF Types, Where, Transmitter, DataTest, At, Filling, Pulling, Alone,
     ProcessAt
<1>4. Types'
  BY <1>1, <1>2, <1>3, <1>0 DEF Types
<1>5. Where'
  BY <1>4, <1>0 DEF Types, Bits, Counts, Where, Transmitter, DataTest, At, Filling,
     Pulling, Alone, ProcessAt
<1>6. Transmitter'
  BY <1>4, <1>0 DEF Types, Bits, Counts, Where, Transmitter, DataTest, At, Filling,
     Pulling, Alone, ProcessAt
<1>7. Requests'
  BY <1>4, <1>0 DEF Types, Bits, Counts, Where, Transmitter, Requests, DataTest,
     At, Filling, Pulling, Alone, ProcessAt
<1> QED BY <1>4, <1>5, <1>6, <1>7

LEMMA DataQueueInv ==
    ASSUME Alone, IInv, UNCHANGED hscx, NEW c \in Contexts, DataQueue(c) PROVE IInv'
<1> USE TxAssumption, AContexts, LengthsAre DEF IInv
<1>0. /\ pc' \in [Contexts -> Steps] /\ pc'[c] = "idle"
      /\ \A d \in Contexts : d # c => pc'[d] = pc[d]
  BY GotoFacts DEF DataQueue, Steps
<1>1. Bits'
  BY <1>0 DEF Types, Bits, DataQueue
<1>2. Counts'
  BY <1>0 DEF Counts, Types, Transmitter, DataQueue, At
<1>3. log' = {}
  BY <1>0 DEF Types, Where, Transmitter, DataQueue, At, Filling, Pulling, Alone,
     ProcessAt
<1>4. Types'
  BY <1>1, <1>2, <1>3, <1>0 DEF Types
<1>5. Where'
  BY <1>4, <1>0 DEF Types, Bits, Counts, Where, Transmitter, DataQueue, At,
     Filling, Pulling, Alone, ProcessAt
<1>6. Transmitter'
  BY <1>4, <1>0 DEF Types, Bits, Counts, Where, Transmitter, DataQueue, At,
     Filling, Pulling, Alone, ProcessAt
<1>7. Requests'
  BY <1>4, <1>0 DEF Types, Bits, Counts, Where, Transmitter, Requests, DataQueue,
     At, Filling, Pulling, Alone, ProcessAt
<1> QED BY <1>4, <1>5, <1>6, <1>7

LEMMA DataSetInv ==
    ASSUME Alone, IInv, UNCHANGED hscx, NEW c \in Contexts, DataSet(c) PROVE IInv'
<1> USE TxAssumption, AContexts, LengthsAre DEF IInv
<1>0. /\ pc' \in [Contexts -> Steps] /\ pc'[c] = "fill"
      /\ \A d \in Contexts : d # c => pc'[d] = pc[d]
  BY GotoFacts DEF DataSet, Steps
<1>11. c = "bh" /\ pc[c] = "set" /\ ProcessAt("idle") /\ ~hscx /\ tx = 0 /\ ~fifo
  BY <1>0 DEF Types, Counts, Bits, Where, Transmitter, DataSet, Log, At, Filling,
     Pulling, Alone, ProcessAt
<1>12. PICK n \in {1, 2} : tx' = n /\ rest' = n
  BY LengthsAre, Zenon DEF DataSet
<1>13. tx' \in {1, 2} /\ tx' # 0 /\ rest' \in {0, 1, 2} /\ rest' > 0
  BY <1>0, <1>11, <1>12, SMT
<1>14. log' = log
  BY <1>11, SMT DEF DataSet, Log
<1>15. UNCHANGED <<sq, busy, fifo, pull, event, iq>>
  BY <1>0, <1>11, <1>12, <1>13, <1>14 DEF DataSet
<1>1. Bits'
  BY <1>0, <1>11, <1>12, <1>13, <1>14, <1>15 DEF Types, Bits
<1>2. Counts'
  BY <1>0, <1>11, <1>12, <1>13, <1>14, <1>15 DEF Counts, Types, Transmitter, At
<1>3. log' = {}
  BY <1>0, <1>11, <1>12, <1>13, <1>14, <1>15 DEF Types, Where, Transmitter,
     Filling, Pulling, ProcessAt
<1>4. Types'
  BY <1>1, <1>2, <1>3, <1>0, <1>11, <1>12, <1>13, <1>14, <1>15 DEF Types
<1>5. Where'
  BY <1>0, <1>11, <1>12, <1>13, <1>14, <1>15 DEF Where, Filling, Pulling, ProcessAt
<1>6. Transmitter'
  BY <1>0, <1>11, <1>12, <1>13, <1>14, <1>15 DEF Transmitter, Filling, Pulling,
     ProcessAt
<1>7. Requests'
  BY <1>0, <1>11, <1>12, <1>13, <1>14, <1>15 DEF Requests, Filling, Pulling, ProcessAt
<1> QED BY <1>4, <1>5, <1>6, <1>7

LEMMA DataHscxInv ==
    ASSUME Alone, IInv, UNCHANGED hscx, NEW c \in Contexts, DataHscx(c) PROVE IInv'
<1> USE TxAssumption, AContexts, LengthsAre DEF IInv
<1>a. CASE tx # 0
  <2>0. pc' = pc
    BY <1>a DEF DataHscx
  <2>11. pc[c] = "idle" /\ hscx /\ sq' = sq + 1 /\ UNCHANGED <<tx, rest, busy,
  fifo, pull, event, iq, log>>
    BY <1>a, <2>0 DEF Types, Counts, Bits, Where, Transmitter, DataHscx, At,
       Filling, Pulling, Alone, ProcessAt
  <2>1. Bits'
    BY <1>a, <2>0, <2>11 DEF Types, Bits
  <2>2. Counts'
    BY <1>a, <2>0, <2>11 DEF Counts, Types, Transmitter, At
  <2>3. log' = {}
    BY <1>a, <2>0, <2>11 DEF Types, Where, Transmitter, Filling, Pulling, ProcessAt
  <2>4. Types'
    BY <2>1, <2>2, <2>3, <1>a, <2>0, <2>11 DEF Types
  <2>5. Where'
    BY <1>a, <2>0, <2>11 DEF Where, Filling, Pulling, ProcessAt
  <2>6. Transmitter'
    BY <1>a, <2>0, <2>11 DEF Transmitter, Filling, Pulling, ProcessAt
  <2>7. Requests'
    BY <1>a, <2>0, <2>11 DEF Requests, Filling, Pulling, ProcessAt
  <2> QED BY <2>4, <2>5, <2>6, <2>7
<1>b. CASE tx = 0
  <2>0. /\ pc' \in [Contexts -> Steps] /\ pc'[c] = "fill"
        /\ \A d \in Contexts : d # c => pc'[d] = pc[d]
    BY <1>b, GotoFacts DEF DataHscx, Steps, At
  <2>11. pc[c] = "idle" /\ hscx /\ tx = 0 /\ ~fifo
    BY <1>b, <2>0 DEF Types, Counts, Bits, Where, Transmitter, DataHscx, At,
       Filling, Pulling, Alone, ProcessAt
  <2>12. (c = "process" => pc["bh"] = "idle") /\ ~ProcessAt("fill") /\ ~(pc["bh"] \in Filling)
    BY <1>b, <2>0, <2>11 DEF Types, Counts, Bits, Where, Transmitter, DataHscx, At,
       Filling, Pulling, Alone, ProcessAt
  <2>13. PICK n \in {1, 2} : tx' = n /\ rest' = n
    BY <1>b, LengthsAre, Zenon DEF DataHscx
  <2>14. tx' \in {1, 2} /\ tx' # 0 /\ rest' \in {0, 1, 2} /\ rest' > 0
    BY <1>b, <2>0, <2>11, <2>12, <2>13, SMT
  <2>15. busy' = TRUE /\ UNCHANGED <<sq, fifo, pull, event, iq, log>>
    BY <1>b, Zenon DEF DataHscx
  <2>1. Bits'
    BY <1>b, <2>0, <2>11, <2>12, <2>13, <2>14, <2>15 DEF Types, Bits
  <2>2. Counts'
    BY <1>b, <2>0, <2>11, <2>12, <2>13, <2>14, <2>15 DEF Counts, Types,
       Transmitter, At
  <2>3. log' = {}
    BY <1>b, <2>0, <2>11, <2>12, <2>13, <2>14, <2>15 DEF Types, Where, Transmitter,
       Filling, Pulling, ProcessAt
  <2>4. Types'
    BY <2>1, <2>2, <2>3, <1>b, <2>0, <2>11, <2>12, <2>13, <2>14, <2>15 DEF Types
  <2>5. Where'
    BY <1>b, <2>0, <2>11, <2>12, <2>13, <2>14, <2>15 DEF Where, Filling, Pulling,
       ProcessAt
  <2>6. Transmitter'
    BY <1>b, <2>0, <2>11, <2>12, <2>13, <2>14, <2>15 DEF Transmitter, Filling,
       Pulling, ProcessAt
  <2>7. Requests'
    BY <1>b, <2>0, <2>11, <2>12, <2>13, <2>14, <2>15 DEF Requests, Filling,
       Pulling, ProcessAt
  <2> QED BY <2>4, <2>5, <2>6, <2>7
<1> QED BY <1>a, <1>b DEF Types

LEMMA FillInv ==
    ASSUME Alone, IInv, UNCHANGED hscx, NEW c \in Contexts, Fill(c) PROVE IInv'
<1> USE TxAssumption, AContexts, LengthsAre DEF IInv
<1>a. CASE At(c, "fill")
  <2>0. /\ pc' \in [Contexts -> Steps] /\ pc'[c] = "idle"
        /\ \A d \in Contexts : d # c => pc'[d] = pc[d]
    BY <1>a, GotoFacts DEF Fill, Steps, At
  <2>11. pc[c] = "fill" /\ rest > 0 /\ tx # 0 /\ ~fifo
    BY <1>a, <2>0 DEF Types, Counts, Bits, Where, Transmitter, Fill, FillFifo, Log,
       At, Filling, Pulling, Alone, ProcessAt
  <2>12. (c = "process" => pc["bh"] = "idle") /\ (c = "bh" => ~ProcessAt("fill"))
    BY <1>a, <2>0, <2>11 DEF At, Where, Filling
  <2>13. fifo' /\ rest' = rest - 1 /\ log' = log
        /\ UNCHANGED <<tx, sq, busy, pull, event, iq>>
    BY <1>a, <2>0, <2>11, <2>12 DEF Types, Counts, Bits, Where, Transmitter, Fill,
       FillFifo, Log, At, Filling, Pulling, Alone, ProcessAt
  <2>14. rest' \in {0, 1, 2}
    BY <1>a, <2>0, <2>11, <2>12, <2>13 DEF Types, Counts
  <2>1. Bits'
    BY <1>a, <2>0, <2>11, <2>12, <2>13, <2>14 DEF Types, Bits
  <2>2. Counts'
    BY <1>a, <2>0, <2>11, <2>12, <2>13, <2>14 DEF Counts, Types, Transmitter, At
  <2>3. log' = {}
    BY <1>a, <2>0, <2>11, <2>12, <2>13, <2>14 DEF Types, Where, Transmitter,
       Filling, Pulling, ProcessAt
  <2>4. Types'
    BY <2>1, <2>2, <2>3, <1>a, <2>0, <2>11, <2>12, <2>13, <2>14 DEF Types
  <2>5. Where'
    BY <1>a, <2>0, <2>11, <2>12, <2>13, <2>14 DEF Where, Filling, Pulling, ProcessAt
  <2>6. Transmitter'
    BY <1>a, <2>0, <2>11, <2>12, <2>13, <2>14 DEF Transmitter, Filling, Pulling,
       ProcessAt
  <2>7. Requests'
    BY <1>a, <2>0, <2>11, <2>12, <2>13, <2>14 DEF Requests, Filling, Pulling,
       ProcessAt
  <2> QED BY <2>4, <2>5, <2>6, <2>7
<1>b. CASE At(c, "load")
  <2>0. /\ pc' \in [Contexts -> Steps] /\ pc'[c] = "again"
        /\ \A d \in Contexts : d # c => pc'[d] = pc[d]
    BY <1>b, GotoFacts DEF Fill, Steps, At
  <2>11. pc[c] = "load" /\ c = "bh" /\ rest > 0 /\ tx # 0 /\ ~fifo
    BY <1>b, <2>0 DEF Types, Counts, Bits, Where, Transmitter, Fill, FillFifo, Log,
       At, Filling, Pulling, Alone, ProcessAt
  <2>12. ~ProcessAt("fill")
    BY <2>11 DEF Where, Filling
  <2>13. fifo' /\ rest' = rest - 1 /\ log' = log
        /\ UNCHANGED <<tx, sq, busy, pull, event, iq>>
    BY <1>b, <2>0, <2>11, <2>12 DEF Types, Counts, Bits, Where, Transmitter, Fill,
       FillFifo, Log, At, Filling, Pulling, Alone, ProcessAt
  <2>14. rest' \in {0, 1, 2}
    BY <1>b, <2>0, <2>11, <2>12, <2>13 DEF Types, Counts
  <2>1. Bits'
    BY <1>b, <2>0, <2>11, <2>12, <2>13, <2>14 DEF Types, Bits
  <2>2. Counts'
    BY <1>b, <2>0, <2>11, <2>12, <2>13, <2>14 DEF Counts, Types, Transmitter, At
  <2>3. log' = {}
    BY <1>b, <2>0, <2>11, <2>12, <2>13, <2>14 DEF Types, Where, Transmitter,
       Filling, Pulling, ProcessAt
  <2>4. Types'
    BY <2>1, <2>2, <2>3, <1>b, <2>0, <2>11, <2>12, <2>13, <2>14 DEF Types
  <2>5. Where'
    BY <1>b, <2>0, <2>11, <2>12, <2>13, <2>14 DEF Where, Filling, Pulling, ProcessAt
  <2>6. Transmitter'
    BY <1>b, <2>0, <2>11, <2>12, <2>13, <2>14 DEF Transmitter, Filling, Pulling,
       ProcessAt
  <2>7. Requests'
    BY <1>b, <2>0, <2>11, <2>12, <2>13, <2>14 DEF Requests, Filling, Pulling,
       ProcessAt
  <2> QED BY <2>4, <2>5, <2>6, <2>7
<1> QED BY <1>a, <1>b DEF Fill

LEMMA PullRequestInv ==
    ASSUME Alone, IInv, UNCHANGED hscx, NEW c \in Contexts, PullRequest(c) PROVE IInv'
<1> USE TxAssumption, AContexts, LengthsAre DEF IInv
<1>a. CASE tx = 0
  <2>0. /\ pc' \in [Contexts -> Steps] /\ pc'[c] = "pulled"
        /\ \A d \in Contexts : d # c => pc'[d] = pc[d]
    BY <1>a, GotoFacts DEF PullRequest, Steps, At
  <2>1. Bits'
    BY <1>a, <2>0 DEF Types, Bits, PullRequest
  <2>2. Counts'
    BY <1>a, <2>0 DEF Counts, Types, Transmitter, PullRequest, At
  <2>3. log' = {}
    BY <1>a, <2>0 DEF Types, Where, Transmitter, PullRequest, At, Filling, Pulling,
       Alone, ProcessAt
  <2>4. Types'
    BY <2>1, <2>2, <2>3, <1>a, <2>0 DEF Types
  <2>5. Where'
    BY <2>4, <1>a, <2>0 DEF Types, Bits, Counts, Where, Transmitter, PullRequest,
       At, Filling, Pulling, Alone, ProcessAt
  <2>6. Transmitter'
    BY <2>4, <1>a, <2>0 DEF Types, Bits, Counts, Where, Transmitter, PullRequest,
       At, Filling, Pulling, Alone, ProcessAt
  <2>7. Requests'
    BY <2>4, <1>a, <2>0 DEF Types, Bits, Counts, Where, Transmitter, Requests,
       PullRequest, At, Filling, Pulling, Alone, ProcessAt
  <2> QED BY <2>4, <2>5, <2>6, <2>7
<1>b. CASE tx # 0
  <2>0. /\ pc' \in [Contexts -> Steps] /\ pc'[c] = "remember"
        /\ \A d \in Contexts : d # c => pc'[d] = pc[d]
    BY <1>b, GotoFacts DEF PullRequest, Steps, At
  <2>1. Bits'
    BY <1>b, <2>0 DEF Types, Bits, PullRequest
  <2>2. Counts'
    BY <1>b, <2>0 DEF Counts, Types, Transmitter, PullRequest, At
  <2>3. log' = {}
    BY <1>b, <2>0 DEF Types, Where, Transmitter, PullRequest, At, Filling, Pulling,
       Alone, ProcessAt
  <2>4. Types'
    BY <2>1, <2>2, <2>3, <1>b, <2>0 DEF Types
  <2>5. Where'
    BY <2>4, <1>b, <2>0 DEF Types, Bits, Counts, Where, Transmitter, PullRequest,
       At, Filling, Pulling, Alone, ProcessAt
  <2>6. Transmitter'
    BY <2>4, <1>b, <2>0 DEF Types, Bits, Counts, Where, Transmitter, PullRequest,
       At, Filling, Pulling, Alone, ProcessAt
  <2>7. Requests'
    BY <2>4, <1>b, <2>0 DEF Types, Bits, Counts, Where, Transmitter, Requests,
       PullRequest, At, Filling, Pulling, Alone, ProcessAt
  <2> QED BY <2>4, <2>5, <2>6, <2>7
<1> QED BY <1>a, <1>b

LEMMA RememberInv ==
    ASSUME Alone, IInv, UNCHANGED hscx, NEW c \in Contexts, Remember(c) PROVE IInv'
<1> USE TxAssumption, AContexts, LengthsAre DEF IInv
<1>0. /\ pc' \in [Contexts -> Steps] /\ pc'[c] = "idle"
      /\ \A d \in Contexts : d # c => pc'[d] = pc[d]
  BY GotoFacts DEF Remember, Steps
<1>1. Bits'
  BY <1>0 DEF Types, Bits, Remember
<1>2. Counts'
  BY <1>0 DEF Counts, Types, Transmitter, Remember, At
<1>3. log' = {}
  BY <1>0 DEF Types, Where, Transmitter, Remember, At, Filling, Pulling, Alone,
     ProcessAt
<1>4. Types'
  BY <1>1, <1>2, <1>3, <1>0 DEF Types
<1>5. Where'
  BY <1>4, <1>0 DEF Types, Bits, Counts, Where, Transmitter, Remember, At, Filling,
     Pulling, Alone, ProcessAt
<1>6. Transmitter'
  BY <1>4, <1>0 DEF Types, Bits, Counts, Where, Transmitter, Remember, At, Filling,
     Pulling, Alone, ProcessAt
<1>7. Requests'
  BY <1>4, <1>0 DEF Types, Bits, Counts, Where, Transmitter, Requests, Remember,
     At, Filling, Pulling, Alone, ProcessAt
<1> QED BY <1>4, <1>5, <1>6, <1>7

LEMMA NothingToPullInv ==
    ASSUME Alone, IInv, UNCHANGED hscx, NEW c \in Contexts, NothingToPull(c) PROVE IInv'
<1> USE TxAssumption, AContexts, LengthsAre DEF IInv
<1>0. /\ pc' \in [Contexts -> Steps] /\ pc'[c] = "idle"
      /\ \A d \in Contexts : d # c => pc'[d] = pc[d]
  BY GotoFacts DEF NothingToPull, Steps
<1>11. c = "bh" /\ pc[c] \in {"pulled", "again"} /\ iq = 0 /\ UNCHANGED <<tx, rest,
sq, busy, fifo, pull, event, iq, log>>
  BY <1>0 DEF Types, Counts, Bits, Where, Transmitter, NothingToPull, At, Filling,
     Pulling, Alone, ProcessAt
<1>1. Bits'
  BY <1>0, <1>11 DEF Types, Bits
<1>2. Counts'
  BY <1>0, <1>11 DEF Counts, Types, Transmitter, At
<1>3. log' = {}
  BY <1>0, <1>11 DEF Types, Where, Transmitter, Filling, Pulling, ProcessAt
<1>4. Types'
  BY <1>1, <1>2, <1>3, <1>0, <1>11 DEF Types
<1>5. Where'
  BY <1>0, <1>11 DEF Where, Filling, Pulling, ProcessAt
<1>6. Transmitter'
  BY <1>0, <1>11 DEF Transmitter, Filling, Pulling, ProcessAt
<1>7. Requests'
  BY <1>0, <1>11 DEF Requests, Filling, Pulling, ProcessAt
<1> QED BY <1>4, <1>5, <1>6, <1>7

LEMMA PullIndInv ==
    ASSUME Alone, IInv, UNCHANGED hscx, NEW c \in Contexts, PullInd(c) PROVE IInv'
<1> USE TxAssumption, AContexts, LengthsAre DEF IInv
<1>a. tx = 0
  BY DEF PullInd, At, Where
<1>0. /\ pc' \in [Contexts -> Steps] /\ pc'[c] = "load"
      /\ \A d \in Contexts : d # c => pc'[d] = pc[d]
  BY <1>a, GotoFacts DEF PullInd, Steps
<1>11. ~fifo /\ ~ProcessAt("fill") /\ c = "bh" /\ pc[c] = "pulled" /\ iq > 0
  BY <1>a, <1>0 DEF Types, Counts, Bits, Where, Transmitter, PullInd, Log, At,
     Filling, Pulling, Alone, ProcessAt
<1>12. PICK n \in {1, 2} : tx' = n /\ rest' = n
  BY <1>a, LengthsAre, Zenon DEF PullInd
<1>13. tx' \in {1, 2} /\ tx' # 0 /\ rest' \in {0, 1, 2} /\ rest' > 0
  BY <1>a, <1>0, <1>11, <1>12, SMT
<1>14. busy' = hscx /\ iq' = iq - 1 /\ UNCHANGED <<sq, fifo, pull, event>>
  BY <1>a, Zenon DEF PullInd
<1>15. log' = log
  BY <1>a, SMT DEF PullInd, Log
<1>16. iq' \in Nat /\ iq' <= MaxQ
  BY <1>a, <1>0, <1>11, <1>12, <1>13, <1>14, <1>15 DEF Types, Counts
<1>1. Bits'
  BY <1>a, <1>0, <1>11, <1>12, <1>13, <1>14, <1>15, <1>16 DEF Types, Bits
<1>2. Counts'
  BY <1>a, <1>0, <1>11, <1>12, <1>13, <1>14, <1>15, <1>16 DEF Counts, Types,
     Transmitter, At
<1>3. log' = {}
  BY <1>a, <1>0, <1>11, <1>12, <1>13, <1>14, <1>15, <1>16 DEF Types, Where,
     Transmitter, Filling, Pulling, ProcessAt
<1>4. Types'
  BY <1>1, <1>2, <1>3, <1>a, <1>0, <1>11, <1>12, <1>13, <1>14, <1>15, <1>16 DEF Types
<1>5. Where'
  BY <1>a, <1>0, <1>11, <1>12, <1>13, <1>14, <1>15, <1>16 DEF Where, Filling,
     Pulling, ProcessAt
<1>6. Transmitter'
  BY <1>a, <1>0, <1>11, <1>12, <1>13, <1>14, <1>15, <1>16 DEF Transmitter, Filling,
     Pulling, ProcessAt
<1>7. Requests'
  BY <1>a, <1>0, <1>11, <1>12, <1>13, <1>14, <1>15, <1>16 DEF Requests, Filling,
     Pulling, ProcessAt
<1> QED BY <1>4, <1>5, <1>6, <1>7

LEMMA WritebufInv == ASSUME Alone, IInv, UNCHANGED hscx, Writebuf PROVE IInv'
<1> USE TxAssumption, AContexts, LengthsAre DEF IInv
<1>0. pc' = pc
  BY DEF Writebuf
<1>a. CASE tx # 0
  <2>11. hscx /\ pull' = TRUE /\ iq' = iq + 1 /\ iq < MaxQ
        /\ UNCHANGED <<tx, rest, sq, busy, fifo, event, log>>
    BY <1>a, <1>0 DEF Types, Counts, Bits, Where, Transmitter, Writebuf, FillFifo,
       Log, At, Filling, Pulling, Alone, ProcessAt
  <2>1. Bits'
    BY <1>a, <1>0, <2>11 DEF Types, Bits
  <2>2. Counts'
    BY <1>a, <1>0, <2>11 DEF Counts, Types, Transmitter, At
  <2>3. log' = {}
    BY <1>a, <1>0, <2>11 DEF Types, Where, Transmitter, Filling, Pulling, ProcessAt
  <2>4. Types'
    BY <2>1, <2>2, <2>3, <1>a, <1>0, <2>11 DEF Types
  <2>5. Where'
    BY <1>a, <1>0, <2>11 DEF Where, Filling, Pulling, ProcessAt
  <2>6. Transmitter'
    BY <1>a, <1>0, <2>11 DEF Transmitter, Filling, Pulling, ProcessAt
  <2>7. Requests'
    BY <1>a, <1>0, <2>11 DEF Requests, Filling, Pulling, ProcessAt
  <2> QED BY <2>4, <2>5, <2>6, <2>7
<1>b. CASE tx = 0
  <2>11. hscx /\ ~fifo /\ pc["bh"] = "idle" /\ ProcessAt("idle")
    BY <1>b, <1>0 DEF Types, Counts, Bits, Where, Transmitter, Writebuf, FillFifo,
       Log, At, Filling, Pulling, Alone, ProcessAt
  <2>12. PICK n \in {1, 2} : tx' = n /\ FillFifo(n)
    BY <1>b, LengthsAre, Zenon DEF Writebuf
  <2>13. tx' \in {1, 2} /\ tx' # 0 /\ rest' \in {0, 1, 2} /\ fifo' /\ log' = log
    BY <2>11, <2>12, SMT DEF FillFifo, Log
  <2>14. busy' = TRUE /\ pull' = (iq > 0) /\ UNCHANGED <<sq, event, iq>>
    BY <1>b, Zenon DEF Writebuf
  <2>1. Bits'
    BY <1>b, <1>0, <2>11, <2>12, <2>13, <2>14 DEF Types, Bits
  <2>2. Counts'
    BY <1>b, <1>0, <2>11, <2>12, <2>13, <2>14 DEF Counts, Types, Transmitter, At
  <2>3. log' = {}
    BY <1>b, <1>0, <2>11, <2>12, <2>13, <2>14 DEF Types, Where, Transmitter,
       Filling, Pulling, ProcessAt
  <2>4. Types'
    BY <2>1, <2>2, <2>3, <1>b, <1>0, <2>11, <2>12, <2>13, <2>14 DEF Types
  <2>5. Where'
    BY <1>b, <1>0, <2>11, <2>12, <2>13, <2>14 DEF Where, Filling, Pulling, ProcessAt
  <2>6. Transmitter'
    BY <1>b, <1>0, <2>11, <2>12, <2>13, <2>14 DEF Transmitter, Filling, Pulling,
       ProcessAt
  <2>7. Requests'
    BY <1>b, <1>0, <2>11, <2>12, <2>13, <2>14 DEF Requests, Filling, Pulling,
       ProcessAt
  <2> QED BY <2>4, <2>5, <2>6, <2>7
<1> QED BY <1>a, <1>b

LEMMA XDUInv == ASSUME Alone, IInv, UNCHANGED hscx, XDU PROVE IInv'
<1> USE TxAssumption, AContexts, LengthsAre DEF IInv
<1>0. pc' = pc
  BY DEF XDU
<1>1. Bits'
  BY <1>0 DEF Types, Bits, XDU
<1>2. Counts'
  BY <1>0 DEF Counts, Types, Transmitter, XDU, At
<1>3. log' = {}
  BY <1>0 DEF Types, Where, Transmitter, XDU, At, Filling, Pulling, Alone, ProcessAt
<1>4. Types'
  BY <1>1, <1>2, <1>3, <1>0 DEF Types
<1>5. Where'
  BY <1>4, <1>0 DEF Types, Bits, Counts, Where, Transmitter, XDU, At, Filling,
     Pulling, Alone, ProcessAt
<1>6. Transmitter'
  BY <1>4, <1>0 DEF Types, Bits, Counts, Where, Transmitter, XDU, At, Filling,
     Pulling, Alone, ProcessAt
<1>7. Requests'
  BY <1>4, <1>0 DEF Types, Bits, Counts, Where, Transmitter, Requests, XDU, At,
     Filling, Pulling, Alone, ProcessAt
<1> QED BY <1>4, <1>5, <1>6, <1>7

LEMMA proc_xmtInv == ASSUME Alone, IInv, UNCHANGED hscx, proc_xmt PROVE IInv'
<1> USE TxAssumption, AContexts, LengthsAre DEF IInv
<1>a. CASE pull /\ (IF hscx THEN ~busy ELSE tx = 0)
  <2>0. /\ pc' \in [Contexts -> Steps] /\ pc'["bh"] = "pulled"
        /\ \A d \in Contexts : d # "bh" => pc'[d] = pc[d]
    BY <1>a, GotoFacts DEF proc_xmt, Steps
  <2>1. Bits'
    BY <1>a, <2>0 DEF Types, Bits, proc_xmt
  <2>2. Counts'
    BY <1>a, <2>0 DEF Counts, Types, Transmitter, proc_xmt, At
  <2>3. log' = {}
    BY <1>a, <2>0 DEF Types, Where, Transmitter, proc_xmt, At, Filling, Pulling,
       Alone, ProcessAt
  <2>4. Types'
    BY <2>1, <2>2, <2>3, <1>a, <2>0 DEF Types
  <2>5. Where'
    BY <2>4, <1>a, <2>0 DEF Types, Bits, Counts, Where, Transmitter, proc_xmt, At,
       Filling, Pulling, Alone, ProcessAt
  <2>6. Transmitter'
    BY <2>4, <1>a, <2>0 DEF Types, Bits, Counts, Where, Transmitter, proc_xmt, At,
       Filling, Pulling, Alone, ProcessAt
  <2>7. Requests'
    BY <2>4, <1>a, <2>0 DEF Types, Bits, Counts, Where, Transmitter, Requests,
       proc_xmt, At, Filling, Pulling, Alone, ProcessAt
  <2> QED BY <2>4, <2>5, <2>6, <2>7
<1>b. CASE ~(pull /\ (IF hscx THEN ~busy ELSE tx = 0))
  <2>0. pc' = pc /\ pull' = pull
    BY <1>b DEF proc_xmt
  <2>1. Bits'
    BY <1>b, <2>0 DEF Types, Bits, proc_xmt
  <2>2. Counts'
    BY <1>b, <2>0 DEF Counts, Types, Transmitter, proc_xmt, At
  <2>3. log' = {}
    BY <1>b, <2>0 DEF Types, Where, Transmitter, proc_xmt, At, Filling, Pulling,
       Alone, ProcessAt
  <2>4. Types'
    BY <2>1, <2>2, <2>3, <1>b, <2>0 DEF Types
  <2>5. Where'
    BY <2>4, <1>b, <2>0 DEF Types, Bits, Counts, Where, Transmitter, proc_xmt, At,
       Filling, Pulling, Alone, ProcessAt
  <2>6. Transmitter'
    BY <2>4, <1>b, <2>0 DEF Types, Bits, Counts, Where, Transmitter, proc_xmt, At,
       Filling, Pulling, Alone, ProcessAt
  <2>7. Requests'
    BY <2>4, <1>b, <2>0 DEF Types, Bits, Counts, Where, Transmitter, Requests,
       proc_xmt, At, Filling, Pulling, Alone, ProcessAt
  <2> QED BY <2>4, <2>5, <2>6, <2>7
<1> QED BY <1>a, <1>b

LEMMA XPRInv == ASSUME Alone, IInv, UNCHANGED hscx, XPR PROVE IInv'
<1> USE TxAssumption, AContexts, LengthsAre DEF IInv
<1>0. pc' = pc
  BY DEF XPR
<1>a. CASE rest # 0
  <2>0. rest' = rest - 1 /\ UNCHANGED <<tx, sq, busy, fifo, pull, event, iq, log>>
    BY <1>a, Zenon DEF XPR
  <2>8. fifo /\ tx # 0 /\ ~(pc["bh"] \in Filling \/ ProcessAt("fill"))
    BY DEF XPR, Transmitter
  <2>11. tx' # 0 /\ fifo'
    BY <2>0, <2>8
  <2>12. rest' \in {0, 1, 2}
    BY <1>a, <2>0 DEF Types, Counts
  <2>1. Bits'
    BY <1>a, <1>0, <2>0, <2>8, <2>11, <2>12 DEF Types, Bits
  <2>2. Counts'
    BY <1>a, <1>0, <2>0, <2>8, <2>11, <2>12 DEF Counts, Types, Transmitter, At
  <2>3. log' = {}
    BY <1>a, <1>0, <2>0, <2>8, <2>11, <2>12 DEF Types, Where, Transmitter, Filling,
       Pulling, ProcessAt
  <2>4. Types'
    BY <2>1, <2>2, <2>3, <1>a, <1>0, <2>0, <2>8, <2>11, <2>12 DEF Types
  <2>5. Where'
    BY <1>a, <1>0, <2>0, <2>8, <2>11, <2>12 DEF Where, Filling, Pulling, ProcessAt
  <2>6. Transmitter'
    BY <1>a, <1>0, <2>0, <2>8, <2>11, <2>12 DEF Transmitter, Filling, Pulling,
       ProcessAt
  <2>7. Requests'
    BY <1>a, <1>0, <2>0, <2>8, <2>11, <2>12 DEF Requests, Filling, Pulling, ProcessAt
  <2> QED BY <2>4, <2>5, <2>6, <2>7
<1>b. CASE rest = 0
  <2>1. PICK written \in 0 .. 1 : NextFrame(sq + written)
    BY <1>b DEF XPR
  <2>2. sq + written \in Nat
    BY DEF Types, Counts
  <2>0. PICK waiting \in Nat : NextFrame(waiting)
    BY <2>1, <2>2
  <2>8. UNCHANGED <<pull, iq, log>>
    BY DEF XPR
  <2>9. fifo /\ tx # 0 /\ ~(pc["bh"] \in Filling \/ ProcessAt("fill"))
    BY DEF XPR, Transmitter
  <2>a. CASE waiting > 0
    <3>11. fifo' /\ busy' = hscx /\ UNCHANGED event
      BY <2>a, <2>8, <1>0, <2>9, <2>0 DEF NextFrame
    <3>12. tx' \in {1, 2} /\ tx' # 0 /\ rest' = tx' - 1 /\ sq' \in Nat
      BY <2>a, <2>8, <1>0, <2>9, <3>11, <2>0 DEF NextFrame
    <3>1. Bits'
      BY <2>a, <2>8, <1>0, <2>9, <3>11, <3>12 DEF Types, Bits
    <3>2. Counts'
      BY <2>a, <2>8, <1>0, <2>9, <3>11, <3>12 DEF Counts, Types, Transmitter, At
    <3>3. log' = {}
      BY <2>a, <2>8, <1>0, <2>9, <3>11, <3>12 DEF Types, Where, Transmitter,
         Filling, Pulling, ProcessAt
    <3>4. Types'
      BY <3>1, <3>2, <3>3, <2>a, <2>8, <1>0, <2>9, <3>11, <3>12 DEF Types
    <3>5. Where'
      BY <2>a, <2>8, <1>0, <2>9, <3>11, <3>12 DEF Where, Filling, Pulling, ProcessAt
    <3>6. Transmitter'
      BY <2>a, <2>8, <1>0, <2>9, <3>11, <3>12 DEF Transmitter, Filling, Pulling,
         ProcessAt
    <3>7. Requests'
      BY <2>a, <2>8, <1>0, <2>9, <3>11, <3>12 DEF Requests, Filling, Pulling,
         ProcessAt
    <3> QED BY <3>4, <3>5, <3>6, <3>7
  <2>b. CASE waiting = 0
    <3>11. fifo' = FALSE /\ busy' = FALSE /\ event' = TRUE
      BY <2>b, <2>8, <1>0, <2>9, <2>0 DEF NextFrame
    <3>12. ~fifo' /\ ~busy' /\ event'
      BY <3>11
    <3>13. tx' = 0 /\ rest' = 0 /\ sq' = 0
      BY <2>b, <2>8, <1>0, <2>9, <3>11, <3>12, <2>0 DEF NextFrame
    <3>1. Bits'
      BY <2>b, <2>8, <1>0, <2>9, <3>11, <3>12, <3>13 DEF Types, Bits
    <3>2. Counts'
      BY <2>b, <2>8, <1>0, <2>9, <3>11, <3>12, <3>13 DEF Counts, Types,
         Transmitter, At
    <3>3. log' = {}
      BY <2>b, <2>8, <1>0, <2>9, <3>11, <3>12, <3>13 DEF Types, Where, Transmitter,
         Filling, Pulling, ProcessAt
    <3>4. Types'
      BY <3>1, <3>2, <3>3, <2>b, <2>8, <1>0, <2>9, <3>11, <3>12, <3>13 DEF Types
    <3>5. Where'
      BY <2>b, <2>8, <1>0, <2>9, <3>11, <3>12, <3>13 DEF Where, Filling, Pulling,
         ProcessAt
    <3>6. Transmitter'
      BY <2>b, <2>8, <1>0, <2>9, <3>11, <3>12, <3>13 DEF Transmitter, Filling,
         Pulling, ProcessAt
    <3>7. Requests'
      BY <2>b, <2>8, <1>0, <2>9, <3>11, <3>12, <3>13 DEF Requests, Filling,
         Pulling, ProcessAt
    <3> QED BY <3>4, <3>5, <3>6, <3>7
  <2> QED BY <2>a, <2>b
<1> QED BY <1>a, <1>b DEF Types, Counts

-----------------------------------------------------------------------------
(* The specification *)

LEMMA NextInv == ASSUME Alone, IInv, [Next]_vars PROVE IInv'
<1>0. UNCHANGED hscx
  BY DEF Next, vars
<1>1. CASE \E c \in Contexts : DataTest(c) \/ DataQueue(c) \/ DataSet(c) \/ DataHscx(c)
  BY <1>0, <1>1, DataTestInv, DataQueueInv, DataSetInv, DataHscxInv
<1>2. CASE \E c \in Contexts : Fill(c) \/ PullRequest(c) \/ Remember(c)
                               \/ NothingToPull(c) \/ PullInd(c)
  BY <1>0, <1>2, FillInv, PullRequestInv, RememberInv, NothingToPullInv, PullIndInv
<1>3. CASE Writebuf \/ proc_xmt \/ XPR \/ XDU
  BY <1>0, <1>3, WritebufInv, proc_xmtInv, XPRInv, XDUInv
<1>4. CASE UNCHANGED vars
  BY <1>4 DEF vars, IInv, Types, Counts, Bits, Where, Transmitter, Requests, ProcessAt
<1> QED BY <1>1, <1>2, <1>3, <1>4 DEF Next

LEMMA Always == ASSUME Alone PROVE Spec => []IInv
<1>1. Init => IInv
  BY IInit
<1>2. IInv /\ [Next]_vars => IInv'
  BY NextInv
<1> QED BY <1>1, <1>2, PTL DEF Spec

(***************************************************************************)
(* No frame overwrites another one in tx_skb or in the FIFO, whatever      *)
(* interrupts come between the steps of a call (hscx_l2l1, ISAC_l1hw).     *)
(***************************************************************************)
THEOREM FramesSafe == ASSUME Alone PROVE Spec => []NoAccident
<1>1. IInv => NoAccident
  BY DEF IInv, Types, NoAccident
<1> QED BY <1>1, Always, PTL

(***************************************************************************)
(* A frame in the queue of a B channel always has one before it in the     *)
(* transmitter, whose XPR interrupt will fetch it.                         *)
(***************************************************************************)
THEOREM QueueServed == ASSUME Alone PROVE Spec => []NoStall
<1>1. IInv => NoStall
  BY DEF IInv, Transmitter, NoStall
<1> QED BY <1>1, Always, PTL

(***************************************************************************)
(* A pull of layer 2 that is remembered is never forgotten: the end of the *)
(* frame before it or the bottom half will answer it.                      *)
(***************************************************************************)
THEOREM PullServed == ASSUME Alone PROVE Spec => []NoLostPull
<1>1. IInv => NoLostPull
  BY DEF IInv, Requests, NoLostPull
<1> QED BY <1>1, Always, PTL

(***************************************************************************)
(* Layer 2 has a pull outstanding as long as it may send something, and    *)
(* the transmitter waits for the end of a frame that it is sending.        *)
(***************************************************************************)
THEOREM SenderServed == ASSUME Alone PROVE Spec => [](AlwaysPulling /\ NoHang)
<1>1. IInv /\ Idle => pc["bh"] = "idle" /\ ~ProcessAt("fill")
  BY AContexts DEF Idle, ProcessAt
<1>2. IInv => AlwaysPulling
  BY <1>1 DEF IInv, Requests, Pulling, AlwaysPulling
<1>3. IInv => NoHang
  BY <1>1 DEF IInv, Types, Transmitter, Filling, NoHang
<1> QED BY <1>2, <1>3, Always, PTL
=============================================================================

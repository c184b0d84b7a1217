--------------------------- MODULE PageRingProofs ---------------------------
(***************************************************************************)
(* Theorems about PageRing for rings of every even size from four on, and  *)
(* every number of calls.                                                  *)
(***************************************************************************)
EXTENDS PageRing, TLAPS

(***************************************************************************)
(* Where the two sides stand relative to each other.  The client moves     *)
(* alone until it hands its request page over, the server moves alone      *)
(* until it hands the reply page over; in between, the page one of them    *)
(* waits for is the page the other holds.                                  *)
(***************************************************************************)
ClientTurn ==   \* the request is not handed over yet
    /\ served = calls
    /\ spc = "takeRead"
    /\ swrite = cread
    /\ sread = IF cpc = "idle" THEN cwrite ELSE chold
    /\ cpc # "idle" => page[chold] = calls + 1

ServerTurn ==   \* the server has the request, or is about to take it
    /\ spc = "takeRead" => sread = chold /\ page[chold] = calls + 1
    /\ spc = "dropRead" => sread = chold
    /\ spc \in {"write", "takeWrite", "dropWrite"} => sread = cwrite
    /\ spc # "takeRead" => request = calls + 1
    /\ spc \in {"takeRead", "dropRead", "write"} => swrite = cread
    /\ spc \in {"takeWrite", "dropWrite"} =>
         shold = cread /\ swrite = Further(cread) /\ page[shold] = calls + 1

AnswerReady ==  \* the server has handed the reply over
    /\ served = calls + 1
    /\ spc = "takeRead"
    /\ sread = cwrite
    /\ swrite = Further(cread)
    /\ cpc = "takeRead" => page[cread] = calls + 1
    /\ cpc = "dropRead" => reply = calls + 1

Turns ==
    /\ cpc \in {"idle", "takeWrite", "dropWrite"} => ClientTurn
    /\ cpc = "takeRead" =>
         (served = calls /\ ServerTurn) \/ AnswerReady
    /\ cpc = "dropRead" => AnswerReady
    /\ cpc \in {"takeWrite", "dropWrite", "takeRead"} => cwrite = Further(chold)
    /\ cpc # "idle" => calls < Times

(* Requests use the even pages and replies the odd ones. *)
Parity ==
    /\ cwrite % 2 = 0 /\ sread % 2 = 0 /\ chold % 2 = 0
    /\ cread % 2 = 1 /\ swrite % 2 = 1 /\ shold % 2 = 1

IInv == TypeOK /\ Parity /\ Turns /\ PagesExclusive

-----------------------------------------------------------------------------
(* Going two pages further stays in the ring, keeps the parity and never   *)
(* comes back to the same page at once.                                    *)
LEMMA FurtherFacts ==
    ASSUME NEW p \in Page
    PROVE  /\ Further(p) \in Page
           /\ Further(p) # p
           /\ Further(p) % 2 = p % 2
BY RingAssumption DEF Page, Further

LEMMA InitInvariant == Init => IInv
<1> SUFFICES ASSUME Init PROVE IInv
  OBVIOUS
<1>1. 0 \in Page /\ 1 \in Page /\ 0 \in 0 .. Times
  BY RingAssumption DEF Page
<1>2. TypeOK
  BY <1>1 DEF Init, TypeOK, ClientPc, ServerPc
<1>3. Parity
  BY DEF Init, Parity
<1>4. Turns
  BY DEF Init, Turns, ClientTurn
<1>5. PagesExclusive
  BY <1>1 DEF Init, PagesExclusive, ClientOwns, ServerOwns
<1> QED BY <1>2, <1>3, <1>4, <1>5 DEF IInv

LEMMA StepInvariant == IInv /\ [Next]_vars => IInv'
<1> SUFFICES ASSUME IInv, [Next]_vars PROVE IInv'
  OBVIOUS
<1> USE DEF IInv
<1>1. CASE ClientWrite
  <2>1. TypeOK'
    BY <1>1, FurtherFacts, RingAssumption
      DEF TypeOK, ClientWrite, Acquire, Release, Turns, ClientTurn, ServerTurn,
          AnswerReady, serverVars, clientVars, ClientPc, ServerPc
  <2>2. Parity'
    BY <1>1, FurtherFacts DEF TypeOK, Parity, ClientWrite, serverVars, clientVars
  <2>3. Turns'
    BY <1>1, FurtherFacts, RingAssumption
      DEF TypeOK, Parity, ClientWrite, Turns, ClientTurn, ServerTurn, AnswerReady,
          serverVars, clientVars, ClientPc, ServerPc
  <2>4. PagesExclusive'
    BY <1>1, FurtherFacts
      DEF TypeOK, Parity, ClientWrite, Turns, ClientTurn, ServerTurn, AnswerReady,
          PagesExclusive, ClientOwns, ServerOwns, Acquire, Release,
          serverVars, clientVars, ClientPc, ServerPc
  <2> QED BY <2>1, <2>2, <2>3, <2>4
<1>2. CASE ClientTakeWrite
  <2>1. TypeOK'
    BY <1>2, FurtherFacts, RingAssumption
      DEF TypeOK, ClientTakeWrite, Acquire, Release, Turns, ClientTurn, ServerTurn,
          AnswerReady, serverVars, clientVars, ClientPc, ServerPc
  <2>2. Parity'
    BY <1>2, FurtherFacts DEF TypeOK, Parity, ClientTakeWrite, serverVars, clientVars
  <2>3. Turns'
    BY <1>2, FurtherFacts, RingAssumption
      DEF TypeOK, Parity, ClientTakeWrite, Turns, ClientTurn, ServerTurn, AnswerReady,
          serverVars, clientVars, ClientPc, ServerPc
  <2>4. PagesExclusive'
    BY <1>2, FurtherFacts
      DEF TypeOK, Parity, ClientTakeWrite, Turns, ClientTurn, ServerTurn, AnswerReady,
          PagesExclusive, ClientOwns, ServerOwns, Acquire, Release,
          serverVars, clientVars, ClientPc, ServerPc
  <2> QED BY <2>1, <2>2, <2>3, <2>4
<1>3. CASE ClientDropWrite
  <2>1. TypeOK'
    BY <1>3, FurtherFacts, RingAssumption
      DEF TypeOK, ClientDropWrite, Acquire, Release, Turns, ClientTurn, ServerTurn,
          AnswerReady, serverVars, clientVars, ClientPc, ServerPc
  <2>2. Parity'
    BY <1>3, FurtherFacts DEF TypeOK, Parity, ClientDropWrite, serverVars, clientVars
  <2>3. Turns'
    BY <1>3, FurtherFacts, RingAssumption
      DEF TypeOK, Parity, ClientDropWrite, Turns, ClientTurn, ServerTurn, AnswerReady,
          serverVars, clientVars, ClientPc, ServerPc
  <2>4. PagesExclusive'
    BY <1>3, FurtherFacts
      DEF TypeOK, Parity, ClientDropWrite, Turns, ClientTurn, ServerTurn, AnswerReady,
          PagesExclusive, ClientOwns, ServerOwns, Acquire, Release,
          serverVars, clientVars, ClientPc, ServerPc
  <2> QED BY <2>1, <2>2, <2>3, <2>4
<1>4. CASE ClientTakeRead
  <2>1. TypeOK'
    BY <1>4, FurtherFacts, RingAssumption
      DEF TypeOK, ClientTakeRead, Acquire, Release, Turns, ClientTurn, ServerTurn,
          AnswerReady, serverVars, clientVars, ClientPc, ServerPc
  <2>2. Parity'
    BY <1>4, FurtherFacts DEF TypeOK, Parity, ClientTakeRead, serverVars, clientVars
  <2>3. Turns'
    \* The server no longer owns the page, so its answer is ready.
    <3>1. cpc = "takeRead" /\ sem[cread] = 1 /\ cread \in Page
      BY <1>4 DEF ClientTakeRead, Acquire, TypeOK
    <3>2. cread \notin ServerOwns
      BY <3>1 DEF PagesExclusive
    <3>3. ~ServerTurn
      BY <3>1, <3>2 DEF ServerTurn, ServerOwns, TypeOK, ServerPc
    <3>4. AnswerReady
      BY <3>1, <3>3 DEF Turns
    <3> QED BY <1>4, <3>1, <3>4
        DEF Turns, AnswerReady, ClientTakeRead, serverVars
  <2>4. PagesExclusive'
    BY <1>4, FurtherFacts
      DEF TypeOK, Parity, ClientTakeRead, Turns, ClientTurn, ServerTurn, AnswerReady,
          PagesExclusive, ClientOwns, ServerOwns, Acquire, Release,
          serverVars, clientVars, ClientPc, ServerPc
  <2> QED BY <2>1, <2>2, <2>3, <2>4
<1>5. CASE ClientDropRead
  <2>1. TypeOK'
    BY <1>5, FurtherFacts, RingAssumption
      DEF TypeOK, ClientDropRead, Acquire, Release, Turns, ClientTurn, ServerTurn,
          AnswerReady, serverVars, clientVars, ClientPc, ServerPc
  <2>2. Parity'
    BY <1>5, FurtherFacts DEF TypeOK, Parity, ClientDropRead, serverVars, clientVars
  <2>3. Turns'
    BY <1>5, FurtherFacts, RingAssumption
      DEF TypeOK, Parity, ClientDropRead, Turns, ClientTurn, ServerTurn, AnswerReady,
          serverVars, clientVars, ClientPc, ServerPc
  <2>4. PagesExclusive'
    BY <1>5, FurtherFacts
      DEF TypeOK, Parity, ClientDropRead, Turns, ClientTurn, ServerTurn, AnswerReady,
          PagesExclusive, ClientOwns, ServerOwns, Acquire, Release,
          serverVars, clientVars, ClientPc, ServerPc
  <2> QED BY <2>1, <2>2, <2>3, <2>4
<1>6. CASE ServerTakeRead
  <2>1. TypeOK'
    BY <1>6, FurtherFacts, RingAssumption
      DEF TypeOK, ServerTakeRead, Acquire, Release, Turns, ClientTurn, ServerTurn,
          AnswerReady, serverVars, clientVars, ClientPc, ServerPc
  <2>2. Parity'
    BY <1>6, FurtherFacts DEF TypeOK, Parity, ServerTakeRead, serverVars, clientVars
  <2>3. Turns'
    \* The client no longer owns the page, so it has handed a request over.
    <3>1. spc = "takeRead" /\ sem[sread] = 1 /\ sread \in Page
      BY <1>6 DEF ServerTakeRead, Acquire, TypeOK
    <3>2. sread \notin ClientOwns
      BY <3>1 DEF PagesExclusive
    <3>3. cpc \notin {"idle", "takeWrite", "dropWrite"} /\ ~AnswerReady
      BY <3>1, <3>2 DEF Turns, ClientTurn, AnswerReady, ClientOwns, TypeOK, ClientPc
    <3>4. cpc = "takeRead" /\ served = calls /\ ServerTurn
      BY <3>3 DEF Turns, TypeOK, ClientPc
    <3>5. ServerTurn'
      BY <1>6, <3>1, <3>4 DEF ServerTurn, ServerTakeRead, clientVars
    <3> QED BY <1>6, <3>4, <3>5 DEF Turns, ServerTakeRead, clientVars
  <2>4. PagesExclusive'
    BY <1>6, FurtherFacts
      DEF TypeOK, Parity, ServerTakeRead, Turns, ClientTurn, ServerTurn, AnswerReady,
          PagesExclusive, ClientOwns, ServerOwns, Acquire, Release,
          serverVars, clientVars, ClientPc, ServerPc
  <2> QED BY <2>1, <2>2, <2>3, <2>4
<1>7. CASE ServerDropRead
  <2>1. TypeOK'
    BY <1>7, FurtherFacts, RingAssumption
      DEF TypeOK, ServerDropRead, Acquire, Release, Turns, ClientTurn, ServerTurn,
          AnswerReady, serverVars, clientVars, ClientPc, ServerPc
  <2>2. Parity'
    BY <1>7, FurtherFacts DEF TypeOK, Parity, ServerDropRead, serverVars, clientVars
  <2>3. Turns'
    BY <1>7, FurtherFacts, RingAssumption
      DEF TypeOK, Parity, ServerDropRead, Turns, ClientTurn, ServerTurn, AnswerReady,
          serverVars, clientVars, ClientPc, ServerPc
  <2>4. PagesExclusive'
    BY <1>7, FurtherFacts
      DEF TypeOK, Parity, ServerDropRead, Turns, ClientTurn, ServerTurn, AnswerReady,
          PagesExclusive, ClientOwns, ServerOwns, Acquire, Release,
          serverVars, clientVars, ClientPc, ServerPc
  <2> QED BY <2>1, <2>2, <2>3, <2>4
<1>8. CASE ServerWrite
  <2>1. TypeOK'
    BY <1>8, FurtherFacts, RingAssumption
      DEF TypeOK, ServerWrite, Acquire, Release, Turns, ClientTurn, ServerTurn,
          AnswerReady, serverVars, clientVars, ClientPc, ServerPc
  <2>2. Parity'
    BY <1>8, FurtherFacts DEF TypeOK, Parity, ServerWrite, serverVars, clientVars
  <2>3. Turns'
    BY <1>8, FurtherFacts, RingAssumption
      DEF TypeOK, Parity, ServerWrite, Turns, ClientTurn, ServerTurn, AnswerReady,
          serverVars, clientVars, ClientPc, ServerPc
  <2>4. PagesExclusive'
    BY <1>8, FurtherFacts
      DEF TypeOK, Parity, ServerWrite, Turns, ClientTurn, ServerTurn, AnswerReady,
          PagesExclusive, ClientOwns, ServerOwns, Acquire, Release,
          serverVars, clientVars, ClientPc, ServerPc
  <2> QED BY <2>1, <2>2, <2>3, <2>4
<1>9. CASE ServerTakeWrite
  <2>1. TypeOK'
    BY <1>9, FurtherFacts, RingAssumption
      DEF TypeOK, ServerTakeWrite, Acquire, Release, Turns, ClientTurn, ServerTurn,
          AnswerReady, serverVars, clientVars, ClientPc, ServerPc
  <2>2. Parity'
    BY <1>9, FurtherFacts DEF TypeOK, Parity, ServerTakeWrite, serverVars, clientVars
  <2>3. Turns'
    BY <1>9, FurtherFacts, RingAssumption
      DEF TypeOK, Parity, ServerTakeWrite, Turns, ClientTurn, ServerTurn, AnswerReady,
          serverVars, clientVars, ClientPc, ServerPc
  <2>4. PagesExclusive'
    BY <1>9, FurtherFacts
      DEF TypeOK, Parity, ServerTakeWrite, Turns, ClientTurn, ServerTurn, AnswerReady,
          PagesExclusive, ClientOwns, ServerOwns, Acquire, Release,
          serverVars, clientVars, ClientPc, ServerPc
  <2> QED BY <2>1, <2>2, <2>3, <2>4
<1>10. CASE ServerDropWrite
  <2>1. TypeOK'
    BY <1>10, FurtherFacts, RingAssumption
      DEF TypeOK, ServerDropWrite, Acquire, Release, Turns, ClientTurn, ServerTurn,
          AnswerReady, serverVars, clientVars, ClientPc, ServerPc
  <2>2. Parity'
    BY <1>10, FurtherFacts DEF TypeOK, Parity, ServerDropWrite, serverVars, clientVars
  <2>3. Turns'
    BY <1>10, FurtherFacts, RingAssumption
      DEF TypeOK, Parity, ServerDropWrite, Turns, ClientTurn, ServerTurn, AnswerReady,
          serverVars, clientVars, ClientPc, ServerPc
  <2>4. PagesExclusive'
    BY <1>10, FurtherFacts
      DEF TypeOK, Parity, ServerDropWrite, Turns, ClientTurn, ServerTurn, AnswerReady,
          PagesExclusive, ClientOwns, ServerOwns, Acquire, Release,
          serverVars, clientVars, ClientPc, ServerPc
  <2> QED BY <2>1, <2>2, <2>3, <2>4
<1>11. CASE UNCHANGED vars
  BY <1>11 DEF vars, serverVars, clientVars, TypeOK, Parity, Turns, ClientTurn,
     ServerTurn, AnswerReady, PagesExclusive, ClientOwns, ServerOwns
<1> QED BY <1>1, <1>2, <1>3, <1>4, <1>5, <1>6, <1>7, <1>8, <1>9, <1>10, <1>11 DEF Next, Client, Server

LEMMA Invariance == Spec => []IInv
BY InitInvariant, StepInvariant, PTL DEF Spec

(* The two sides' fields keep their types. *)
THEOREM TypeCorrect == Spec => []TypeOK
<1>1. IInv => TypeOK
  BY DEF IInv
<1> QED BY <1>1, Invariance, PTL

(***************************************************************************)
(* Mutual exclusion: no page is ever owned by both sides, and a page is    *)
(* free exactly when neither owns it, for every even ring size >= 4.       *)
(***************************************************************************)
THEOREM MutualExclusion == Spec => []PagesExclusive
<1>1. IInv => PagesExclusive
  BY DEF IInv
<1> QED BY <1>1, Invariance, PTL

(***************************************************************************)
(* Every answer is the answer to the call being made, for every ring size  *)
(* and any number of rounds.                                               *)
(***************************************************************************)
THEOREM RightAnswer == Spec => []AnswersMatch
<1>1. IInv => AnswersMatch
  BY DEF IInv, TypeOK, Turns, ClientTurn, ServerTurn, AnswerReady, AnswersMatch,
         ClientPc, ServerPc
<1> QED BY <1>1, Invariance, PTL

(***************************************************************************)
(* A ring of four pages is long enough: nobody ever waits for the next     *)
(* page to write.                                                          *)
(***************************************************************************)
THEOREM NextPageAlwaysFree == Spec => []NextPageIsFree
<1>1. IInv => NextPageIsFree
  <2> SUFFICES ASSUME IInv PROVE NextPageIsFree
    OBVIOUS
  <2> USE DEF IInv
  <2>1. CASE cpc = "takeWrite"
    <3>1. cwrite = Further(chold) /\ chold \in Page /\ cwrite \in Page /\ spc = "takeRead"
      BY <2>1 DEF Turns, TypeOK, ClientTurn
    <3>2. cwrite # chold /\ cwrite # swrite
      BY <3>1, FurtherFacts DEF Parity
    <3>3. cwrite \notin ClientOwns \union ServerOwns
      BY <2>1, <3>1, <3>2 DEF ClientOwns, ServerOwns
    <3>4. sem[cwrite] = 1
      BY <3>1, <3>3 DEF PagesExclusive, TypeOK
    <3> QED BY <2>1, <3>1, <3>4 DEF NextPageIsFree
  <2>2. CASE spc = "takeWrite"
    <3>1. cpc = "takeRead" /\ shold = cread /\ swrite = Further(cread)
          /\ cread \in Page /\ swrite \in Page
      BY <2>2 DEF Turns, TypeOK, ClientTurn, ServerTurn, AnswerReady, ClientPc
    <3>2. swrite # shold /\ swrite # cwrite
      BY <3>1, FurtherFacts DEF Parity
    <3>3. swrite \notin ClientOwns \union ServerOwns
      BY <2>2, <3>1, <3>2 DEF ClientOwns, ServerOwns
    <3>4. sem[swrite] = 1
      BY <3>1, <3>3 DEF PagesExclusive, TypeOK
    <3> QED BY <2>2, <3>1, <3>4 DEF NextPageIsFree
  <2>3. CASE cpc # "takeWrite" /\ spc # "takeWrite"
    BY <2>3 DEF NextPageIsFree
  <2> QED BY <2>1, <2>2, <2>3
<1> QED BY <1>1, Invariance, PTL

(***************************************************************************)
(* The ring implements one-at-a-time calls (the safety part: that every    *)
(* call returns is left to the model checker).                             *)
(***************************************************************************)
THEOREM Refinement == Spec => Calls!CallSafety
<1>1. Init => Calls!CallInit
  BY DEF Init, Calls!CallInit
<1>2. IInv /\ [Next]_vars => [Calls!CallNext]_(Calls!callVars)
  <2> SUFFICES ASSUME IInv, [Next]_vars PROVE [Calls!CallNext]_(Calls!callVars)
    OBVIOUS
  <2>0. calls \in Nat /\ served \in Nat
    BY RingAssumption DEF IInv, TypeOK
  <2>1. CASE ClientDropWrite
    BY <2>0, <2>1 DEF ClientDropWrite, IInv, Turns, ClientTurn, Calls!CallNext,
       Calls!Send, serverVars
  <2>2. CASE ClientDropRead
    BY <2>0, <2>2 DEF ClientDropRead, IInv, Turns, AnswerReady, Calls!CallNext,
       Calls!Return, serverVars
  <2>3. CASE ServerDropWrite
    <3>1. cpc = "takeRead" /\ served = calls
      BY <2>3 DEF ServerDropWrite, IInv, TypeOK, Turns, ClientTurn, AnswerReady, ClientPc
    <3> QED BY <2>0, <2>3, <3>1 DEF ServerDropWrite, Calls!CallNext, Calls!Answer,
           clientVars
  <2>4. CASE ClientWrite \/ ClientTakeWrite \/ ClientTakeRead
    BY <2>4 DEF ClientWrite, ClientTakeWrite, ClientTakeRead, Calls!callVars, serverVars
  <2>5. CASE ServerTakeRead \/ ServerDropRead \/ ServerWrite \/ ServerTakeWrite
    BY <2>5 DEF ServerTakeRead, ServerDropRead, ServerWrite, ServerTakeWrite,
       Calls!callVars, clientVars
  <2>6. CASE UNCHANGED vars
    BY <2>6 DEF vars, clientVars, serverVars, Calls!callVars
  <2> QED BY <2>1, <2>2, <2>3, <2>4, <2>5, <2>6 DEF Next, Client, Server
<1> QED BY <1>1, <1>2, Invariance, PTL DEF Spec, Calls!CallSafety

=============================================================================

------------------------------ MODULE PageRing ------------------------------
(***************************************************************************)
(* The page-ring call of BinderTest, in its thread version (ThreadIpc.java *)
(* and Server.java).  Client and server share a ring of pages, each with a *)
(* binary semaphore.  Requests go through the even pages and replies       *)
(* through the odd ones.  A writer hands its page over by taking the next  *)
(* page of its parity before it lets go of the one it has written, so that *)
(* the reader, waiting for the written page, can only get there second.    *)
(*                                                                         *)
(* The pages carry the number of the call they belong to: the semaphores   *)
(* are there to hand that content from one side to the other.              *)
(***************************************************************************)
EXTENDS Naturals

CONSTANTS N,      \* ThreadIpc.PAGE_SIZE: pages in the ring
          Times   \* how often the client calls, as in loop(times)

ASSUME RingAssumption == N \in Nat /\ N >= 4 /\ N % 2 = 0 /\ Times \in Nat

Page == 0 .. N - 1

VARIABLES sem,      \* the permits of each page's semaphore
          page,     \* the call whose request or reply the page holds
          cpc, cwrite, cread, chold, calls, reply,    \* the client
          spc, swrite, sread, shold, served, request  \* the server

clientVars == <<cpc, cwrite, cread, chold, calls, reply>>
serverVars == <<spc, swrite, sread, shold, served, request>>
vars == <<sem, page, clientVars, serverVars>>

ClientPc == {"idle", "takeWrite", "dropWrite", "takeRead", "dropRead"}
ServerPc == {"takeRead", "dropRead", "write", "takeWrite", "dropWrite"}

TypeOK ==
    /\ sem \in [Page -> 0 .. 1]
    /\ page \in [Page -> 0 .. Times]
    /\ cpc \in ClientPc /\ cwrite \in Page /\ cread \in Page /\ chold \in Page
    /\ calls \in 0 .. Times /\ reply \in 0 .. Times
    /\ spc \in ServerPc /\ swrite \in Page /\ sread \in Page /\ shold \in Page
    /\ served \in 0 .. Times /\ request \in 0 .. Times

(* Mutant: the turn at the end of the ring comes one page late. *)
FurtherOffByOne(p) == IF p + 2 <= N THEN p + 2 ELSE p + 2 - N

(* The page two further on: (p + 2) % PAGE_SIZE for a page p. *)
Further(p) == IF p + 2 < N THEN p + 2 ELSE p + 2 - N

(* startIpcServer and the Server constructor: before either side runs, the *)
(* client owns page 0 and the server page 1.                               *)
Init ==
    /\ sem = [p \in Page |-> IF p \in {0, 1} THEN 0 ELSE 1]
    /\ page = [p \in Page |-> 0]
    /\ cpc = "idle" /\ cwrite = 0 /\ cread = 1 /\ chold = 0
    /\ calls = 0 /\ reply = 0
    /\ spc = "takeRead" /\ swrite = 1 /\ sread = 0 /\ shold = 1
    /\ served = 0 /\ request = 0

Acquire(p) == sem[p] = 1 /\ sem' = [sem EXCEPT ![p] = 0]

Release(p) == sem' = [sem EXCEPT ![p] = 1]

-----------------------------------------------------------------------------
(* loop(): write the request into the page owned, and step to the next. *)
ClientWrite ==
    /\ cpc = "idle"
    /\ calls < Times
    /\ page' = [page EXCEPT ![cwrite] = calls + 1]
    /\ chold' = cwrite
    /\ cwrite' = Further(cwrite)
    /\ cpc' = "takeWrite"
    /\ UNCHANGED <<sem, cread, calls, reply, serverVars>>

ClientTakeWrite ==
    /\ cpc = "takeWrite"
    /\ Acquire(cwrite)
    /\ cpc' = "dropWrite"
    /\ UNCHANGED <<page, cwrite, cread, chold, calls, reply, serverVars>>

(* Mutant: lets go of the page it has just taken. *)
ClientDropsNext ==
    /\ cpc = "dropWrite"
    /\ Release(cwrite)
    /\ cpc' = "takeRead"
    /\ UNCHANGED <<page, cwrite, cread, chold, calls, reply, serverVars>>

ClientDropWrite ==
    /\ cpc = "dropWrite"
    /\ Release(chold)
    /\ cpc' = "takeRead"
    /\ UNCHANGED <<page, cwrite, cread, chold, calls, reply, serverVars>>

(* Mutant: reads the page without waiting for it. *)
ClientReadsAtOnce ==
    /\ cpc = "takeRead"
    /\ sem' = [sem EXCEPT ![cread] = 0]
    /\ reply' = page[cread]
    /\ cpc' = "dropRead"
    /\ UNCHANGED <<page, cwrite, cread, chold, calls, serverVars>>

ClientTakeRead ==
    /\ cpc = "takeRead"
    /\ Acquire(cread)
    /\ reply' = page[cread]
    /\ cpc' = "dropRead"
    /\ UNCHANGED <<page, cwrite, cread, chold, calls, serverVars>>

(* Mutant: the page read is kept. *)
ClientKeepsRead ==
    /\ cpc = "dropRead"
    /\ cread' = Further(cread)
    /\ calls' = calls + 1
    /\ cpc' = "idle"
    /\ UNCHANGED <<sem, page, cwrite, chold, reply, serverVars>>

ClientDropRead ==
    /\ cpc = "dropRead"
    /\ Release(cread)
    /\ cread' = Further(cread)
    /\ calls' = calls + 1
    /\ cpc' = "idle"
    /\ UNCHANGED <<page, cwrite, chold, reply, serverVars>>

Client ==
    \/ ClientWrite \/ ClientTakeWrite \/ ClientDropWrite
    \/ ClientTakeRead \/ ClientDropRead

-----------------------------------------------------------------------------
(* run(): wait for the request page, read it, and give it back. *)
ServerTakeRead ==
    /\ spc = "takeRead"
    /\ Acquire(sread)
    /\ request' = page[sread]
    /\ spc' = "dropRead"
    /\ UNCHANGED <<page, swrite, sread, shold, served, clientVars>>

(* Mutant: the page read is kept. *)
ServerKeepsRead ==
    /\ spc = "dropRead"
    /\ sread' = Further(sread)
    /\ spc' = "write"
    /\ UNCHANGED <<sem, page, swrite, shold, served, request, clientVars>>

ServerDropRead ==
    /\ spc = "dropRead"
    /\ Release(sread)
    /\ sread' = Further(sread)
    /\ spc' = "write"
    /\ UNCHANGED <<page, swrite, shold, served, request, clientVars>>

(* Mutant: the reply goes into the page after the one owned. *)
ServerWritesNext ==
    /\ spc = "write"
    /\ page' = [page EXCEPT ![Further(swrite)] = request]
    /\ shold' = swrite
    /\ swrite' = Further(swrite)
    /\ spc' = "takeWrite"
    /\ UNCHANGED <<sem, sread, served, request, clientVars>>

ServerWrite ==
    /\ spc = "write"
    /\ page' = [page EXCEPT ![swrite] = request]
    /\ shold' = swrite
    /\ swrite' = Further(swrite)
    /\ spc' = "takeWrite"
    /\ UNCHANGED <<sem, sread, served, request, clientVars>>

ServerTakeWrite ==
    /\ spc = "takeWrite"
    /\ Acquire(swrite)
    /\ spc' = "dropWrite"
    /\ UNCHANGED <<page, swrite, sread, shold, served, request, clientVars>>

ServerDropWrite ==
    /\ spc = "dropWrite"
    /\ Release(shold)
    /\ served' = served + 1
    /\ spc' = "takeRead"
    /\ UNCHANGED <<page, swrite, sread, shold, request, clientVars>>

Server ==
    \/ ServerTakeRead \/ ServerDropRead \/ ServerWrite
    \/ ServerTakeWrite \/ ServerDropWrite

Next == Client \/ Server

Spec == Init /\ [][Next]_vars

(* Both are threads: each takes a step when it can.  A thread waiting on a *)
(* semaphore with a permit is let through, as nobody else competes for it. *)
FairSpec == Spec /\ WF_vars(Client) /\ WF_vars(Server)

-----------------------------------------------------------------------------
(* The pages each side may touch at the moment. *)
ClientOwns ==
    CASE cpc = "idle"      -> {cwrite}
      [] cpc = "takeWrite" -> {chold}
      [] cpc = "dropWrite" -> {chold, cwrite}
      [] cpc = "takeRead"  -> {cwrite}
      [] cpc = "dropRead"  -> {cwrite, cread}

ServerOwns ==
    CASE spc = "takeRead"  -> {swrite}
      [] spc = "dropRead"  -> {swrite, sread}
      [] spc = "write"     -> {swrite}
      [] spc = "takeWrite" -> {shold}
      [] spc = "dropWrite" -> {shold, swrite}

(***************************************************************************)
(* No page is ever in the hands of both sides, and a page that neither     *)
(* side owns is free: the semaphores and the two sides' private page       *)
(* numbers never drift apart (ThreadIpc.java:31-45, Server.java:26-49).    *)
(***************************************************************************)
PagesExclusive ==
    /\ ClientOwns \intersect ServerOwns = {}
    /\ \A p \in Page : sem[p] = 0 <=> p \in ClientOwns \union ServerOwns

(***************************************************************************)
(* The server answers the call the client is making, and the client reads  *)
(* the answer to that very call, never a page left from an earlier round.  *)
(***************************************************************************)
AnswersMatch ==
    /\ cpc = "dropRead" => reply = calls + 1
    /\ spc \in {"write", "takeWrite", "dropWrite"} => request = calls + 1

(***************************************************************************)
(* Taking the next page to write never waits for the other side: only the  *)
(* wait for a request or a reply can block (the ring is long enough).      *)
(***************************************************************************)
NextPageIsFree ==
    /\ cpc = "takeWrite" => sem[cwrite] = 1
    /\ spc = "takeWrite" => sem[swrite] = 1

(* Every call the client starts comes back: nobody waits for a page that   *)
(* the other side will not let go.                                         *)
CallsReturn == cpc # "idle" ~> cpc = "idle"

(* The ring implements one-at-a-time calls, each answered and returned. *)
Calls == INSTANCE PingPong
    WITH sent <- calls + (IF cpc \in {"takeRead", "dropRead"} THEN 1 ELSE 0),
         answered <- served,
         returned <- calls

ImplementsCalls == Calls!CallSpec
=============================================================================

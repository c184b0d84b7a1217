------------------------------ MODULE FutexRing ------------------------------
(***************************************************************************)
(* The page-ring call of BinderTest between two processes (ipc.c).  The    *)
(* pages lie in shared memory, and the first word of each is a             *)
(* priority-inheritance futex: the id of the owner, a bit that says that   *)
(* somebody sleeps in the kernel, and a bit that says that the owner died. *)
(* The module models the words, the system calls, the startup of the       *)
(* server by fork, and the death of either process at any point.           *)
(*                                                                         *)
(* The data words hold constants in the code; "page" carries the number of *)
(* the call instead, a history of what is handed over.                     *)
(***************************************************************************)
EXTENDS Naturals

CONSTANTS N,          \* IPC_PAGE_SIZE: pages in the ring
          Times,      \* how many calls the client makes
          Failures    \* what may go wrong: "fork", "client", "server", "signal"

ASSUME FutexAssumption ==
    /\ N \in Nat /\ N >= 4 /\ N % 2 = 0 /\ Times \in Nat
    /\ Failures \subseteq {"fork", "client", "server", "signal"}

Page == 0 .. N - 1
Side == {"client", "server"}
Other(s) == IF s = "client" THEN "server" ELSE "client"
Nobody == "nobody"

VARIABLES owner, waiters, died,   \* the three parts of each page's word
          page,                   \* the call whose request or reply the page holds
          finished,               \* IPC_FINISHED of page 1
          alive,                  \* the processes (the server from the fork on)
          pc, phase,              \* where each side is; inside lockPage or unlockPage
          write, read, hold,      \* writePage, readPage, writePagePtr
          done, got               \* calls made or answered; what was read last

word == <<owner, waiters, died>>
local == <<write, read, hold, done, got>>
vars == <<word, page, finished, alive, pc, phase, local>>

Startup == {"boot", "fork", "await"}
ClientPc == Startup \union {"idle", "takeWrite", "dropWrite", "takeRead", "dropRead", "closed"}
ServerPc == {"none", "boot", "tell", "takeRead", "dropRead", "write", "takeWrite", "dropWrite"}

TypeOK ==
    /\ owner \in [Page -> Side \union {Nobody}]
    /\ waiters \in [Page -> BOOLEAN] /\ died \in [Page -> BOOLEAN]
    /\ page \in [Page -> 0 .. Times]
    /\ finished \in BOOLEAN
    /\ alive \in [Side -> BOOLEAN]
    /\ pc \in [Side -> ClientPc \union ServerPc]
    /\ pc["client"] \in ClientPc /\ pc["server"] \in ServerPc
    /\ phase \in [Side -> {"user", "kernel", "asleep"}]
    /\ write \in [Side -> Page] /\ read \in [Side -> Page] /\ hold \in [Side -> Page]
    /\ done \in [Side -> Nat] /\ got \in [Side -> 0 .. Times]

(* Mutant: the mask is that of the page count itself. *)
FurtherOverTheEnd(p) == IF p + 2 <= N THEN p + 2 ELSE p + 2 - N

(* (p + 2) & (IPC_PAGE_SIZE - 1) for a page p. *)
Further(p) == IF p + 2 < N THEN p + 2 ELSE p + 2 - N

(* The library is loaded: the memory is fresh, the server not yet forked. *)
Init ==
    /\ owner = [p \in Page |-> Nobody]
    /\ waiters = [p \in Page |-> FALSE] /\ died = [p \in Page |-> FALSE]
    /\ page = [p \in Page |-> 0]
    /\ finished = FALSE
    /\ alive = [s \in Side |-> s = "client"]
    /\ pc = [s \in Side |-> IF s = "client" THEN "boot" ELSE "none"]
    /\ phase = [s \in Side |-> "user"]
    /\ write = [s \in Side |-> IF s = "client" THEN 0 ELSE 1]
    /\ read = [s \in Side |-> IF s = "client" THEN 1 ELSE 0]
    /\ hold = [s \in Side |-> IF s = "client" THEN 0 ELSE 1]
    /\ done = [s \in Side |-> 0] /\ got = [s \in Side |-> 0]

At(s, where, what) == alive[s] /\ pc[s] \in where /\ phase[s] = what

(* The page the side is locking or unlocking. *)
Target(s) ==
    IF pc[s] \in {"takeRead", "dropRead"} THEN read[s]
    ELSE IF pc[s] = "dropWrite" THEN hold[s] ELSE write[s]

(* The side sleeps in FUTEX_LOCK_PI for page p, and does not own it yet. *)
SleepsFor(s, p) ==
    alive[s] /\ phase[s] = "asleep" /\ Target(s) = p /\ owner[p] # s

GoTo(s, where, what) ==
    /\ pc' = [pc EXCEPT ![s] = where]
    /\ phase' = [phase EXCEPT ![s] = what]

-----------------------------------------------------------------------------
(* The end of a process, by a signal or by exit.  The kernel gives a page  *)
(* it held to the one sleeping for it; a page nobody sleeps for keeps the  *)
(* dead owner in its word.                                                 *)
Die(s) ==
    LET Passed(p) == owner[p] = s /\ SleepsFor(Other(s), p) IN
    /\ alive' = [alive EXCEPT ![s] = FALSE]
    /\ owner' = [p \in Page |-> IF Passed(p) THEN Other(s) ELSE owner[p]]
    /\ waiters' = [p \in Page |-> waiters[p] \/ Passed(p)]
    /\ died' = [p \in Page |-> died[p] \/ Passed(p)]

-----------------------------------------------------------------------------
(* lockPage *)

Locking == {"boot", "takeWrite", "takeRead"}

(* What follows once the page is locked; a page to read is read. *)
Locked(s) ==
    /\ GoTo(s, CASE pc[s] = "boot" -> IF s = "client" THEN "fork" ELSE "tell"
                 [] pc[s] = "takeWrite" -> "dropWrite"
                 [] pc[s] = "takeRead" -> "dropRead", "user")
    /\ got' = IF pc[s] = "takeRead" THEN [got EXCEPT ![s] = page[read[s]]] ELSE got
    /\ UNCHANGED <<page, finished, alive, write, read, hold, done>>

(* Mutant: the word is written without comparing it. *)
LockPageStores(s) ==
    /\ At(s, Locking, "user")
    /\ owner' = [owner EXCEPT ![Target(s)] = s]
    /\ Locked(s)
    /\ UNCHANGED <<waiters, died>>

(* The compare and exchange of 0 by the own id. *)
LockPage(s) ==
    /\ At(s, Locking, "user")
    /\ \/ /\ owner[Target(s)] = Nobody
          /\ owner' = [owner EXCEPT ![Target(s)] = s]
          /\ Locked(s)
          /\ UNCHANGED <<waiters, died>>
       \/ /\ owner[Target(s)] # Nobody
          /\ phase' = [phase EXCEPT ![s] = "kernel"]
          /\ UNCHANGED <<word, page, finished, alive, pc, local>>

(* FUTEX_LOCK_PI finds the page free meanwhile. *)
FutexLock(s) ==
    /\ At(s, Locking, "kernel")
    /\ owner[Target(s)] = Nobody
    /\ owner' = [owner EXCEPT ![Target(s)] = s]
    /\ Locked(s)
    /\ UNCHANGED <<waiters, died>>

(* Mutant: the waiters bit is not set. *)
FutexSleepUnseen(s) ==
    /\ At(s, Locking, "kernel")
    /\ owner[Target(s)] = Other(s) /\ alive[Other(s)]
    /\ phase' = [phase EXCEPT ![s] = "asleep"]
    /\ UNCHANGED <<word, page, finished, alive, pc, local>>

(* It finds a living owner, marks the word and sleeps. *)
FutexSleep(s) ==
    /\ At(s, Locking, "kernel")
    /\ owner[Target(s)] = Other(s) /\ alive[Other(s)]
    /\ waiters' = [waiters EXCEPT ![Target(s)] = TRUE]
    /\ phase' = [phase EXCEPT ![s] = "asleep"]
    /\ UNCHANGED <<owner, died, page, finished, alive, pc, local>>

(* Mutant: an owner that is no more is taken for an interruption. *)
FutexFailsOnOwn(s) ==
    /\ At(s, Locking, "kernel")
    /\ owner[Target(s)] = s
    /\ Die(s)
    /\ UNCHANGED <<page, finished, pc, phase, local>>

(* EDEADLK, the page is the side's own, or ESRCH, the owner is no more:    *)
(* lockPage ends the process.                                              *)
FutexFails(s) ==
    /\ At(s, Locking, "kernel")
    /\ \/ owner[Target(s)] = s
       \/ owner[Target(s)] = Other(s) /\ ~alive[Other(s)]
    /\ Die(s)
    /\ UNCHANGED <<page, finished, pc, phase, local>>

(* The page was handed over, by the owner or by its death. *)
FutexWakes(s) ==
    /\ At(s, Locking, "asleep")
    /\ owner[Target(s)] = s
    /\ Locked(s)
    /\ UNCHANGED word

(* EINTR: the loop of lockPage calls again; the waiters bit stays. *)
FutexInterrupted(s) ==
    /\ "signal" \in Failures
    /\ At(s, Locking, "asleep")
    /\ owner[Target(s)] # s
    /\ phase' = [phase EXCEPT ![s] = "kernel"]
    /\ UNCHANGED <<word, page, finished, alive, pc, local>>

-----------------------------------------------------------------------------
(* unlockPage *)

Unlocking == {"dropWrite", "dropRead"}

(* Mutant: the server counts a request it has only read. *)
EndsCallEarly(s) == pc[s] = "dropRead"

(* The last unlocking of a call: the page to read is the next one. *)
EndsCall(s) == pc[s] = IF s = "client" THEN "dropRead" ELSE "dropWrite"

Unlocked(s) ==
    /\ GoTo(s, CASE s = "client" /\ pc[s] = "dropWrite" -> "takeRead"
                 [] s = "client" /\ pc[s] = "dropRead" -> "idle"
                 [] s = "server" /\ pc[s] = "dropRead" -> "write"
                 [] s = "server" /\ pc[s] = "dropWrite" -> "takeRead", "user")
    /\ read' = IF EndsCall(s) THEN [read EXCEPT ![s] = Further(@)] ELSE read
    /\ done' = IF EndsCall(s) THEN [done EXCEPT ![s] = @ + 1] ELSE done
    /\ UNCHANGED <<page, finished, alive, write, hold, got>>

(* Mutant: the word is cleared without comparing it. *)
UnlockPageClears(s) ==
    /\ At(s, Unlocking, "user")
    /\ owner' = [owner EXCEPT ![Target(s)] = Nobody]
    /\ waiters' = [waiters EXCEPT ![Target(s)] = FALSE]
    /\ died' = [died EXCEPT ![Target(s)] = FALSE]
    /\ Unlocked(s)

(* Mutant: with whatever bits, the kernel is called. *)
UnlockPageDied(s) ==
    /\ At(s, Unlocking, "user")
    /\ phase' = [phase EXCEPT ![s] = "kernel"]
    /\ UNCHANGED <<word, page, finished, alive, pc, local>>

(* The compare and exchange of the own id by 0.  It fails when one of the  *)
(* bits is set: with the waiters bit alone the kernel is called, otherwise *)
(* the page is left as it is.                                              *)
UnlockPage(s) ==
    LET p == Target(s) IN
    /\ At(s, Unlocking, "user")
    /\ \/ /\ owner[p] = s /\ ~waiters[p] /\ ~died[p]
          /\ owner' = [owner EXCEPT ![p] = Nobody]
          /\ Unlocked(s)
          /\ UNCHANGED <<waiters, died>>
       \/ /\ owner[p] = s /\ waiters[p] /\ ~died[p]
          /\ phase' = [phase EXCEPT ![s] = "kernel"]
          /\ UNCHANGED <<word, page, finished, alive, pc, local>>
       \/ /\ owner[p] # s \/ died[p]
          /\ Unlocked(s)
          /\ UNCHANGED word

(* FUTEX_UNLOCK_PI gives the page to the sleeper, if there is still one. *)
FutexUnlock(s) ==
    LET p == Target(s)
        sleeps == SleepsFor(Other(s), p) IN
    /\ At(s, Unlocking, "kernel")
    /\ owner' = [owner EXCEPT ![p] = IF sleeps THEN Other(s) ELSE Nobody]
    /\ waiters' = [waiters EXCEPT ![p] = sleeps]
    /\ Unlocked(s)
    /\ UNCHANGED died

-----------------------------------------------------------------------------
(* startServer, after the parent has locked page 0 *)

Fork ==
    /\ At("client", {"fork"}, "user")
    /\ pc' = [pc EXCEPT !["client"] = "await", !["server"] = "boot"]
    /\ alive' = [alive EXCEPT !["server"] = TRUE]
    /\ UNCHANGED <<word, page, finished, phase, local>>

(* The library counts as loaded all the same. *)
ForkFails ==
    /\ "fork" \in Failures
    /\ At("client", {"fork"}, "user")
    /\ GoTo("client", "idle", "user")
    /\ UNCHANGED <<word, page, finished, alive, local>>

(* The server owns page 1 and says so (the other flags are never read). *)
Tell ==
    /\ At("server", {"tell"}, "user")
    /\ finished' = TRUE
    /\ GoTo("server", "takeRead", "user")
    /\ UNCHANGED <<word, page, alive, local>>

(* Mutant: the parent does not wait. *)
AwaitNothing ==
    /\ At("client", {"await"}, "user")
    /\ GoTo("client", "idle", "user")
    /\ UNCHANGED <<word, page, finished, alive, local>>

(* The parent yields until it sees the flag. *)
Await ==
    /\ At("client", {"await"}, "user")
    /\ finished
    /\ GoTo("client", "idle", "user")
    /\ UNCHANGED <<word, page, finished, alive, local>>

-----------------------------------------------------------------------------
(* clientIpc and ipcServerLoop: write into the page owned, and step to the *)
(* next page to write.                                                     *)
Write(s, call) ==
    /\ page' = [page EXCEPT ![write[s]] = call]
    /\ hold' = [hold EXCEPT ![s] = write[s]]
    /\ write' = [write EXCEPT ![s] = Further(@)]
    /\ GoTo(s, "takeWrite", "user")
    /\ UNCHANGED <<word, finished, alive, read, done, got>>

ClientWrite ==
    /\ At("client", {"idle"}, "user")
    /\ done["client"] < Times
    /\ Write("client", done["client"] + 1)

ServerWrite ==
    /\ At("server", {"write"}, "user")
    /\ Write("server", got["server"])

(* NativeIpc.exit, on the thread that makes the calls: the memory is       *)
(* unmapped and the child killed.  Without a child childPid is still 0,    *)
(* which stands for the caller's own process group.                        *)
Exit ==
    /\ At("client", {"idle"}, "user")
    /\ GoTo("client", "closed", "user")
    /\ Die(IF pc["server"] = "none" THEN "client" ELSE "server")
    /\ UNCHANGED <<page, finished, local>>

(* A process is killed from outside. *)
Killed(s) ==
    /\ s \in Failures
    /\ alive[s]
    /\ Die(s)
    /\ UNCHANGED <<page, finished, pc, phase, local>>

-----------------------------------------------------------------------------
Step(s) ==
    \/ LockPage(s) \/ FutexLock(s) \/ FutexSleep(s) \/ FutexFails(s) \/ FutexWakes(s)
    \/ UnlockPage(s) \/ FutexUnlock(s)

Client == Step("client") \/ Fork \/ ForkFails \/ Await \/ ClientWrite \/ Exit
Server == Step("server") \/ Tell \/ ServerWrite

Next == Client \/ Server \/ \E s \in Side : FutexInterrupted(s) \/ Killed(s)

Spec == Init /\ [][Next]_vars

(* Both processes run when they can.  Whether the application makes        *)
(* another call is its own choice.                                         *)
FairSpec ==
    /\ Spec
    /\ WF_vars(Step("client") \/ Fork \/ Await)
    /\ WF_vars(Server)

-----------------------------------------------------------------------------
(* The pages a side may touch at the moment. *)
Owns(s) ==
    CASE pc[s] \in {"none", "boot", "closed"} -> {}
      [] pc[s] = "takeWrite" -> {hold[s]}
      [] pc[s] = "dropWrite" -> {hold[s], write[s]}
      [] pc[s] = "dropRead"  -> {write[s], read[s]}
      [] OTHER               -> {write[s]}

(***************************************************************************)
(* The words and the two programs agree on who has which page, whatever    *)
(* fails: a living side touches a page only while its word names it, and   *)
(* a page whose owner did not die before is never kept by a side that is   *)
(* through with it (lockPage and unlockPage, ipc.c:74-131).                *)
(***************************************************************************)
WordsTellHands ==
    \A s \in Side, p \in Page : alive[s] =>
        /\ p \in Owns(s) => owner[p] = s
        /\ owner[p] = s /\ ~died[p] /\ pc[s] # "closed" =>
             p \in Owns(s) \/ (phase[s] = "asleep" /\ p = Target(s))

(***************************************************************************)
(* No wake-up is lost: while a side sleeps for a page, the page is held by *)
(* the other side, which is alive and will see the waiters bit, or it has  *)
(* been handed over already (the race of the exchange in unlockPage with   *)
(* FUTEX_LOCK_PI, ipc.c:84, 112).                                          *)
(***************************************************************************)
SleepersAreSeen ==
    \A s \in Side : alive[s] /\ phase[s] = "asleep" =>
        \/ owner[Target(s)] = s
        \/ /\ owner[Target(s)] = Other(s)
           /\ alive[Other(s)]
           /\ waiters[Target(s)]

(***************************************************************************)
(* As long as both processes live, the server answers the call being made  *)
(* and the client reads the answer to it.                                  *)
(***************************************************************************)
AnswersMatch ==
    alive["client"] /\ alive["server"] =>
        /\ pc["client"] = "dropRead" => got["client"] = done["client"] + 1
        /\ pc["server"] \in {"write", "takeWrite", "dropWrite"} =>
             got["server"] = done["client"] + 1

(***************************************************************************)
(* The survivor of a death does not notice it, and goes on for one round   *)
(* of its pages to read and no further: at most N/2 calls return without   *)
(* an answer, and at most N/2 requests are answered that nobody made.      *)
(* Only a failed fork is never noticed.                                    *)
(***************************************************************************)
SurvivorStops ==
    /\ pc["server"] # "none" => done["client"] <= done["server"] + N \div 2
    /\ done["server"] <= done["client"] + N \div 2 + 1

(***************************************************************************)
(* Every call comes back or ends the process, also when the server dies    *)
(* under it; the startup ends unless the server dies before its flag.      *)
(***************************************************************************)
CallsReturn ==
    pc["client"] \notin {"idle", "closed"} ~>
        \/ pc["client"] \in {"idle", "closed"}
        \/ ~alive["client"]
        \/ pc["client"] = "await" /\ ~alive["server"]

(* No server is left behind: when the client is gone, or has called exit,  *)
(* the server's process ends too, though nothing tells it.                 *)
ServerEnds ==
    ~alive["client"] \/ pc["client"] = "closed" ~> ~alive["server"]

-----------------------------------------------------------------------------
(* The thread version as the abstract ring: a page is free in its          *)
(* semaphore from the moment it is given up until the one it was handed to *)
(* has returned from lockPage.  The startup is over before the ring moves. *)
HandedOver(p) ==
    \E s \in Side : owner[p] = s /\ phase[s] = "asleep" /\ Target(s) = p

Permits(p) ==
    IF \/ owner[p] # Nobody /\ ~HandedOver(p)
       \/ p = 0 /\ pc["client"] = "boot"
       \/ p = 1 /\ pc["server"] \in {"none", "boot"}
    THEN 0 ELSE 1

Ring == INSTANCE PageRing WITH
    sem <- [p \in Page |-> Permits(p)],
    cpc <- IF pc["client"] \in Startup THEN "idle" ELSE pc["client"],
    cwrite <- write["client"], cread <- read["client"], chold <- hold["client"],
    calls <- done["client"], reply <- got["client"],
    spc <- IF pc["server"] \in {"none", "boot", "tell"} THEN "takeRead" ELSE pc["server"],
    swrite <- write["server"], shold <- hold["server"],
    sread <- IF pc["server"] \in {"write", "takeWrite", "dropWrite"}
             THEN Further(read["server"]) ELSE read["server"],
    served <- done["server"], request <- got["server"]

(* Nothing has failed so far, and exit was not called. *)
AllWell ==
    /\ alive["client"] /\ pc["client"] # "closed"
    /\ pc["client"] \in {"boot", "fork"} \/ alive["server"]

(***************************************************************************)
(* As long as nothing fails, the processes do what the threads of PageRing *)
(* do: futex words, system calls and startup are invisible.                *)
(***************************************************************************)
ImplementsRing ==
    Ring!Init /\ [][AllWell' => [Ring!Next]_(Ring!vars)]_vars
=============================================================================

--------------------------- MODULE FutexRingProofs ---------------------------
(***************************************************************************)
(* Theorems about FutexRing for rings of every even size from four on,     *)
(* any number of calls and every set of failures.                          *)
(***************************************************************************)
EXTENDS FutexRing, TLAPS

(* Requests use the even pages and replies the odd ones. *)
Parity ==
    /\ write["client"] % 2 = 0 /\ hold["client"] % 2 = 0 /\ read["client"] % 2 = 1
    /\ write["server"] % 2 = 1 /\ hold["server"] % 2 = 1 /\ read["server"] % 2 = 0

(* Where a side can be inside the kernel, and what it writes next. *)
Places ==
    \A s \in Side :
        /\ phase[s] = "asleep" => pc[s] \in Locking
        /\ phase[s] = "kernel" => pc[s] \in Locking \union Unlocking
        /\ pc[s] \in {"takeWrite", "dropWrite"} => write[s] = Further(hold[s])

(* The startup: who exists, and what each already has. *)
Beginning ==
    /\ pc["server"] = "none" =>
         ~alive["server"] /\ \A p \in Page : owner[p] # "server"
    /\ pc["client"] \in {"boot", "fork"} => pc["server"] = "none"
    /\ pc["server"] \in {"none", "boot"} => write["server"] = 1
    /\ pc["client"] = "boot" => write["client"] = 0
    /\ finished => pc["server"] \notin {"none", "boot", "tell"}
    /\ AllWell /\ pc["client"] \notin Startup => finished
    /\ AllWell => \A p \in Page : ~died[p]

IInv == TypeOK /\ Parity /\ Places /\ Beginning /\ WordsTellHands /\ SleepersAreSeen

-----------------------------------------------------------------------------
LEMMA FurtherFacts ==
    ASSUME NEW p \in Page
    PROVE  /\ Further(p) \in Page
           /\ Further(p) # p
           /\ Further(p) % 2 = p % 2
BY FutexAssumption DEF Page, Further

(* The pages a side touches are different ones. *)
LEMMA OwnPagesDiffer ==
    ASSUME IInv, NEW s \in Side
    PROVE  /\ read[s] # write[s]
           /\ pc[s] \in {"takeWrite", "dropWrite"} => hold[s] # write[s]
           /\ Target(s) \in Page
<1>1. read[s] # write[s]
  BY DEF IInv, TypeOK, Parity, Side
<1>2. pc[s] \in {"takeWrite", "dropWrite"} => hold[s] # write[s]
  BY FurtherFacts DEF IInv, TypeOK, Places
<1>3. Target(s) \in Page
  BY DEF IInv, TypeOK, Target
<1> QED BY <1>1, <1>2, <1>3

LEMMA InitInvariant == Init => IInv
<1> SUFFICES ASSUME Init PROVE IInv
  OBVIOUS
<1>1. 0 \in Page /\ 1 \in Page /\ 0 \in 0 .. Times
  BY FutexAssumption DEF Page
<1>2. TypeOK
  BY <1>1 DEF Init, TypeOK, Side, ClientPc, ServerPc, Startup
<1>3. Parity /\ Places
  BY DEF Init, Parity, Places, Side
<1>4. Beginning
  BY DEF Init, Beginning, AllWell, Startup, Nobody, Side
<1>5. WordsTellHands /\ SleepersAreSeen
  BY DEF Init, WordsTellHands, SleepersAreSeen, Owns, Nobody, Side
<1> QED BY <1>2, <1>3, <1>4, <1>5 DEF IInv

-----------------------------------------------------------------------------
(* A page that nobody owns is taken, or one handed over is found. *)
Takes(s) ==
    /\ pc[s] \in Locking /\ alive[s]
    /\ owner[Target(s)] \in {Nobody, s}
    /\ owner[Target(s)] = s => phase[s] = "asleep"
    /\ phase[s] = "asleep" => owner[Target(s)] = s
    /\ owner' = [owner EXCEPT ![Target(s)] = s]
    /\ Locked(s)
    /\ UNCHANGED <<waiters, died>>

LEMMA TakesInvariant ==
    ASSUME IInv, NEW s \in Side, Takes(s)
    PROVE  IInv'
<1> USE DEF IInv
<1>1. TypeOK'
  BY OwnPagesDiffer DEF Takes, Locked, GoTo, TypeOK, Locking, Side, ClientPc, ServerPc, Startup
<1>2. Parity' /\ Places'
  BY DEF Takes, Locked, GoTo, TypeOK, Parity, Places, Locking, Unlocking, Side
<1>3. Beginning'
  BY DEF Takes, Locked, GoTo, TypeOK, Beginning, AllWell, Startup, Locking, Side, Target
<1>4. WordsTellHands'
  BY OwnPagesDiffer DEF Takes, Locked, GoTo, TypeOK, WordsTellHands, Owns, Target,
     Locking, Side, Nobody, Beginning
<1>5. SleepersAreSeen'
  BY OwnPagesDiffer DEF Takes, Locked, GoTo, TypeOK, SleepersAreSeen, Target,
     Locking, Side, Nobody, Other
<1> QED BY <1>1, <1>2, <1>3, <1>4, <1>5

(* lockPage without success, and the return of a signal: only the phase of *)
(* a side that does not own its target changes.                            *)
LEMMA KernelInvariant ==
    ASSUME IInv, NEW s \in Side,
           pc[s] \in Locking \/ (pc[s] \in Unlocking /\ phase[s] = "user"),
           phase[s] = "asleep" => owner[Target(s)] # s,
           phase' = [phase EXCEPT ![s] = "kernel"],
           UNCHANGED <<word, page, finished, alive, pc, local>>
    PROVE  IInv'
<1> USE DEF IInv, word, local
<1>1. TypeOK'
  BY DEF TypeOK
<1>2. Parity' /\ Places'
  BY DEF TypeOK, Parity, Places
<1>3. Beginning'
  BY DEF Beginning, AllWell
<1>4. WordsTellHands'
  BY DEF TypeOK, WordsTellHands, Owns, Target
<1>5. SleepersAreSeen'
  BY DEF TypeOK, SleepersAreSeen, Target
<1> QED BY <1>1, <1>2, <1>3, <1>4, <1>5

LEMMA SleepInvariant ==
    ASSUME IInv, NEW s \in Side, FutexSleep(s)
    PROVE  IInv'
<1> USE DEF IInv, FutexSleep, At, local
<1>1. TypeOK'
  BY OwnPagesDiffer DEF TypeOK
<1>2. Parity' /\ Places'
  BY DEF TypeOK, Parity, Places
<1>3. Beginning'
  BY DEF Beginning, AllWell
<1>4. WordsTellHands'
  BY DEF TypeOK, WordsTellHands, Owns, Target
<1>5. SleepersAreSeen'
  BY OwnPagesDiffer DEF TypeOK, SleepersAreSeen, Target
<1> QED BY <1>1, <1>2, <1>3, <1>4, <1>5

(* A death passes on at most the page that the survivor sleeps for, and    *)
(* marks it.                                                               *)
LEMMA DeathInvariant ==
    ASSUME IInv, NEW s \in Side, alive[s], Die(s),
           UNCHANGED <<page, finished, pc, phase, local>>
    PROVE  IInv'
<1> USE DEF IInv, Die, local
<1>1. TypeOK'
  BY DEF TypeOK, Other, Side
<1>2. Parity' /\ Places'
  BY DEF Parity, Places
<1>3. Beginning'
  BY DEF TypeOK, Beginning, AllWell, SleepsFor, Other, Side
<1>4. WordsTellHands'
  BY DEF TypeOK, WordsTellHands, Owns, Target, SleepsFor, Other, Side
<1>5. SleepersAreSeen'
  BY OwnPagesDiffer DEF TypeOK, SleepersAreSeen, SleepsFor, Target, Other, Side
<1> QED BY <1>1, <1>2, <1>3, <1>4, <1>5

LEMMA ExitInvariant ==
    ASSUME IInv, Exit
    PROVE  IInv'
<1> DEFINE s == IF pc["server"] = "none" THEN "client" ELSE "server"
<1> USE DEF IInv, Exit, At, GoTo, Die, local
<1>1. TypeOK'
  BY DEF TypeOK, Other, Side, ClientPc, ServerPc, Startup
<1>2. Parity' /\ Places'
  BY DEF TypeOK, Parity, Places, Locking, Unlocking, Side
<1>3. Beginning'
  BY DEF TypeOK, Beginning, AllWell, SleepsFor, Other, Side
<1>4. WordsTellHands'
  BY DEF TypeOK, WordsTellHands, Owns, Target, SleepsFor, Other, Side
<1>5. SleepersAreSeen'
  BY OwnPagesDiffer DEF TypeOK, SleepersAreSeen, SleepsFor, Target, Other, Side
<1> QED BY <1>1, <1>2, <1>3, <1>4, <1>5

-----------------------------------------------------------------------------
(* A page is given up: to the sleeper, to nobody, or not at all when its   *)
(* word has the bit of a death.                                            *)
Gives(s) ==
    LET p == Target(s) IN
    /\ pc[s] \in Unlocking /\ alive[s] /\ phase[s] # "asleep"
    /\ \/ owner' = [owner EXCEPT ![p] =
             IF SleepsFor(Other(s), p) THEN Other(s) ELSE Nobody]
       \/ died[p] /\ owner' = owner
    /\ \/ waiters' = waiters
       \/ waiters' = [waiters EXCEPT ![p] = SleepsFor(Other(s), p)]
    /\ Unlocked(s)
    /\ UNCHANGED died

LEMMA GivesInvariant ==
    ASSUME IInv, NEW s \in Side, Gives(s)
    PROVE  IInv'
<1> USE DEF IInv
<1>0. /\ \/ pc[s] = "dropWrite" /\ Target(s) = hold[s]
         \/ pc[s] = "dropRead" /\ Target(s) = read[s]
      /\ pc' = [pc EXCEPT ![s] = IF pc[s] = "dropRead"
                                 THEN IF s = "client" THEN "idle" ELSE "write"
                                 ELSE "takeRead"]
      /\ SleepsFor(Other(s), Target(s)) \in BOOLEAN
  <2>1. \/ pc[s] = "dropWrite" /\ Target(s) = hold[s]
        \/ pc[s] = "dropRead" /\ Target(s) = read[s]
    BY DEF Gives, Unlocking, Target
  <2>2. SleepsFor(Other(s), Target(s)) \in BOOLEAN
    BY DEF SleepsFor
  <2>3. CASE s = "client"
    BY <2>1, <2>2, <2>3 DEF Gives, Unlocked, GoTo
  <2>4. CASE s = "server"
    BY <2>1, <2>2, <2>4 DEF Gives, Unlocked, GoTo
  <2> QED BY <2>3, <2>4 DEF Side
<1>1. TypeOK'
  <2>1. owner' \in [Page -> Side \union {Nobody}] /\ waiters' \in [Page -> BOOLEAN]
    BY <1>0, OwnPagesDiffer DEF Gives, TypeOK, Side, Other
  <2>2. read' \in [Side -> Page] /\ done' \in [Side -> Nat]
    BY <1>0, FurtherFacts DEF Gives, Unlocked, TypeOK
  <2>3. pc' \in [Side -> ClientPc \union ServerPc] /\ pc'["client"] \in ClientPc
        /\ pc'["server"] \in ServerPc
    BY <1>0 DEF TypeOK, Side, ClientPc, ServerPc, Startup
  <2> QED BY <2>1, <2>2, <2>3 DEF Gives, Unlocked, GoTo, TypeOK
<1>2. Parity' /\ Places'
  BY FurtherFacts DEF Gives, Unlocked, GoTo, TypeOK, Parity, Places, Locking, Unlocking, Side
<1>3. Beginning'
  BY DEF Gives, Unlocked, GoTo, TypeOK, Beginning, AllWell, Startup, Unlocking, Side,
     SleepsFor, Other, Nobody
<1>4. WordsTellHands'
  <2> SUFFICES ASSUME NEW o \in Side, NEW p \in Page, alive'[o]
      PROVE  /\ p \in Owns(o)' => owner'[p] = o
             /\ owner'[p] = o /\ ~died'[p] /\ pc'[o] # "closed" =>
                  p \in Owns(o)' \/ (phase'[o] = "asleep" /\ p = Target(o)')
    BY DEF WordsTellHands
  <2>1. alive[o] /\ died' = died
    BY DEF Gives, Unlocked
  <2>2. CASE o = s
    <3>1. Owns(s)' = Owns(s) \ {Target(s)} /\ Target(s) \in Owns(s)
      BY <1>0, OwnPagesDiffer DEF Owns, Gives, Unlocked, TypeOK, Side
    <3>2. phase'[s] = "user" /\ owner[Target(s)] = s
      BY <3>1, OwnPagesDiffer DEF WordsTellHands, Gives, Unlocked, GoTo, TypeOK
    <3>3. owner'[p] = s => owner[p] = s /\ (p = Target(s) => died[p])
      BY <1>0, OwnPagesDiffer DEF Gives, TypeOK, Other, Nobody, Side
    <3>4. p \in Owns(s)' => owner'[p] = s
      BY <3>1, OwnPagesDiffer DEF Gives, TypeOK, WordsTellHands
    <3>5. owner'[p] = s /\ ~died'[p] /\ pc'[s] # "closed" => p \in Owns(s)'
      BY <2>1, <2>2, <3>1, <3>3, <1>0 DEF WordsTellHands, Gives
    <3> QED BY <2>2, <3>4, <3>5
  <2>3. CASE o # s
    <3>1. o = Other(s) /\ o # Nobody
      BY <2>3 DEF Side, Other, Nobody
    <3>2. pc'[o] = pc[o] /\ phase'[o] = phase[o] /\ Target(o)' = Target(o) /\ Owns(o)' = Owns(o)
      BY <2>3, <1>0 DEF Gives, Unlocked, GoTo, TypeOK, Target, Owns
    <3>3. Target(s) \in Owns(s)
      BY <1>0 DEF Owns
    <3>4. owner[Target(s)] = s
      BY <3>3, OwnPagesDiffer DEF Gives, WordsTellHands
    <3>5. owner'[p] = o => owner[p] = o \/ (p = Target(s) /\ SleepsFor(o, p))
      BY <3>1, <3>4, OwnPagesDiffer DEF Gives, TypeOK, SleepsFor
    <3>6. owner[p] = o => owner'[p] = o
      BY <2>3, <3>4, OwnPagesDiffer DEF Gives, TypeOK
    <3> QED BY <2>1, <3>2, <3>5, <3>6 DEF WordsTellHands, SleepsFor
  <2> QED BY <2>2, <2>3
<1>5. SleepersAreSeen'
  <2> SUFFICES ASSUME NEW o \in Side, alive'[o], phase'[o] = "asleep"
      PROVE  \/ owner'[Target(o)'] = o
             \/ owner'[Target(o)'] = Other(o) /\ alive'[Other(o)] /\ waiters'[Target(o)']
    BY DEF SleepersAreSeen
  <2>1. o # s /\ alive[o] /\ phase[o] = "asleep" /\ alive' = alive /\ Other(s) = o /\ Other(o) = s
    BY DEF Gives, Unlocked, GoTo, TypeOK, Side, Other
  <2>2. Target(o)' = Target(o) /\ Target(o) \in Page /\ Target(s) \in Page
    BY <2>1, <1>0, OwnPagesDiffer DEF Gives, Unlocked, TypeOK, Target
  <2>3. owner[Target(o)] = o \/ (owner[Target(o)] = s /\ alive[s] /\ waiters[Target(o)])
    BY <2>1 DEF SleepersAreSeen
  <2>4. Target(s) \in Owns(s) /\ owner[Target(s)] = s
    BY <1>0, <2>2 DEF Owns, Gives, WordsTellHands
  <2>5. CASE Target(o) = Target(s)
    <3>1. SleepsFor(o, Target(s))
      BY <2>1, <2>4, <2>5 DEF SleepsFor
    <3> QED BY <2>1, <2>2, <2>3, <2>5, <3>1 DEF Gives, TypeOK
  <2>6. CASE Target(o) # Target(s)
    BY <2>1, <2>2, <2>3, <2>6 DEF Gives, TypeOK
  <2> QED BY <2>5, <2>6
<1> QED BY <1>1, <1>2, <1>3, <1>4, <1>5

-----------------------------------------------------------------------------
(* The startup, and a side that writes into the page it owns. *)
LEMMA StartupInvariant ==
    ASSUME IInv, Fork \/ ForkFails \/ Tell \/ Await
    PROVE  IInv'
<1> USE DEF IInv, At, GoTo, word, local
<1>1. /\ phase' = phase /\ UNCHANGED <<word, page, local>>
      /\ finished' = finished \/ finished' = TRUE
  BY DEF Fork, ForkFails, Tell, Await, TypeOK
<1>2. \/ Fork /\ pc'["client"] = "await" /\ pc'["server"] = "boot"
      \/ (ForkFails \/ Await) /\ pc'["client"] = "idle" /\ pc'["server"] = pc["server"]
      \/ Tell /\ pc'["client"] = pc["client"] /\ pc'["server"] = "takeRead"
  BY DEF Fork, ForkFails, Tell, Await, TypeOK, Side
<1>3. alive' \in [Side -> BOOLEAN] /\ alive'["client"] = alive["client"]
      /\ (~Fork => alive' = alive)
  BY DEF Fork, ForkFails, Tell, Await, TypeOK, Side
<1>4. pc' \in [Side -> ClientPc \union ServerPc]
  BY DEF Fork, ForkFails, Tell, Await, TypeOK, Side, ClientPc, ServerPc, Startup
<1>5. TypeOK'
  BY <1>1, <1>2, <1>3, <1>4 DEF TypeOK, ClientPc, ServerPc, Startup
<1>6. Parity' /\ Places'
  BY <1>1, <1>2 DEF Fork, ForkFails, Tell, Await, TypeOK, Parity, Places, Locking, Unlocking, Side
<1>7. Beginning'
  BY DEF Fork, ForkFails, Tell, Await, TypeOK, Beginning, AllWell, Startup, Side
<1>8. WordsTellHands'
  BY <1>2 DEF Fork, ForkFails, Tell, Await, TypeOK, WordsTellHands, Owns, Target, Beginning, Side
<1>9. SleepersAreSeen'
  <2>1. ASSUME NEW s \in Side, alive'[s], phase'[s] = "asleep"
        PROVE  alive[s] /\ Target(s)' = Target(s) /\ (alive[Other(s)] => alive'[Other(s)])
    <3>0. phase[s] = "asleep" /\ pc[s] \in Locking
      BY <1>1, <2>1 DEF Places
    <3>1. CASE Fork
      BY <1>1, <3>0, <3>1 DEF Fork, TypeOK, Beginning, Locking, Side
    <3>2. CASE ~Fork
      <4>1. pc'[s] = pc[s] /\ alive' = alive
        BY <1>1, <1>2, <1>3, <3>0, <3>2 DEF ForkFails, Await, Tell, Side
      <4> QED BY <1>1, <2>1, <4>1 DEF Target
    <3> QED BY <3>1, <3>2
  <2> QED BY <1>1, <2>1 DEF SleepersAreSeen
<1> QED BY <1>5, <1>6, <1>7, <1>8, <1>9

LEMMA WriteInvariant ==
    ASSUME IInv, NEW s \in Side, NEW call \in 0 .. Times, Write(s, call),
           alive[s], phase[s] = "user", pc[s] = IF s = "client" THEN "idle" ELSE "write"
    PROVE  IInv'
<1> USE DEF IInv, Write, GoTo, word
<1>1. TypeOK'
  BY FurtherFacts DEF TypeOK, Side, ClientPc, ServerPc, Startup
<1>2. Parity' /\ Places'
  BY FurtherFacts DEF TypeOK, Parity, Places, Locking, Unlocking, Side
<1>3. Beginning'
  BY DEF TypeOK, Beginning, AllWell, Startup, Side
<1>4. WordsTellHands'
  BY DEF TypeOK, WordsTellHands, Owns, Target, Side
<1>5. SleepersAreSeen'
  BY DEF TypeOK, SleepersAreSeen, Target, Side, Other
<1> QED BY <1>1, <1>2, <1>3, <1>4, <1>5

-----------------------------------------------------------------------------
(* The steps of FutexRing as the kinds of steps above. *)
LEMMA StepKinds ==
    ASSUME IInv, NEW s \in Side, Step(s)
    PROVE  \/ Takes(s)
           \/ /\ phase[s] = "user" /\ pc[s] \in Locking \union Unlocking
              /\ phase' = [phase EXCEPT ![s] = "kernel"]
              /\ UNCHANGED <<word, page, finished, alive, pc, local>>
           \/ FutexSleep(s)
           \/ alive[s] /\ Die(s) /\ UNCHANGED <<page, finished, pc, phase, local>>
           \/ Gives(s)
<1> USE DEF IInv, At
<1>1. CASE LockPage(s)
  BY <1>1 DEF LockPage, Takes, Nobody, Side, word
<1>2. CASE FutexLock(s)
  BY <1>2, OwnPagesDiffer DEF FutexLock, Takes, Side, Nobody
<1>3. CASE FutexSleep(s)
  BY <1>3
<1>4. CASE FutexFails(s)
  BY <1>4 DEF FutexFails, Die
<1>5. CASE FutexWakes(s)
  <2>1. owner' = [owner EXCEPT ![Target(s)] = s]
    BY <1>5, OwnPagesDiffer DEF FutexWakes, word, TypeOK
  <2> QED BY <1>5, <2>1 DEF FutexWakes, Takes, word
<1>6. CASE UnlockPage(s)
  <2>1. owner[Target(s)] = s
    BY <1>6, OwnPagesDiffer DEF UnlockPage, WordsTellHands, Owns, Target, Unlocking
  <2>2. ASSUME ~waiters[Target(s)] PROVE ~SleepsFor(Other(s), Target(s))
    BY <2>1, <2>2 DEF SleepersAreSeen, SleepsFor, Side, Other
  <2> QED BY <1>6, <2>1, <2>2 DEF UnlockPage, Gives, word
<1>7. CASE FutexUnlock(s)
  BY <1>7 DEF FutexUnlock, Gives
<1> QED BY <1>1, <1>2, <1>3, <1>4, <1>5, <1>6, <1>7 DEF Step

LEMMA NextInvariant ==
    ASSUME IInv, [Next]_vars
    PROVE  IInv'
<1>1. ASSUME NEW s \in Side, Step(s) PROVE IInv'
  BY <1>1, StepKinds, TakesInvariant, KernelInvariant, SleepInvariant, DeathInvariant,
     GivesInvariant DEF Locking
<1>2. ASSUME Fork \/ ForkFails \/ Tell \/ Await PROVE IInv'
  BY <1>2, StartupInvariant
<1>3. CASE ClientWrite
  <2>1. done["client"] + 1 \in 0 .. Times
    BY <1>3, FutexAssumption DEF ClientWrite, IInv, TypeOK, Side
  <2> QED BY <1>3, <2>1, WriteInvariant DEF ClientWrite, At, Side
<1>4. CASE ServerWrite
  BY <1>4, WriteInvariant DEF ServerWrite, At, IInv, TypeOK, Side
<1>5. CASE Exit
  BY <1>5, ExitInvariant
<1>6. ASSUME NEW s \in Side, FutexInterrupted(s) PROVE IInv'
  BY <1>6, KernelInvariant DEF FutexInterrupted, At
<1>7. ASSUME NEW s \in Side, Killed(s) PROVE IInv'
  BY <1>7, DeathInvariant DEF Killed
<1>8. CASE UNCHANGED vars
  BY <1>8 DEF vars, word, local, IInv, TypeOK, Parity, Places, Beginning, AllWell,
     WordsTellHands, SleepersAreSeen, Owns, Target
<1> QED BY <1>1, <1>2, <1>3, <1>4, <1>5, <1>6, <1>7, <1>8 DEF Next, Client, Server, Side

LEMMA Invariant == Spec => []IInv
<1>1. Init => IInv
  BY InitInvariant
<1>2. IInv /\ [Next]_vars => IInv'
  BY NextInvariant
<1> QED BY <1>1, <1>2, PTL DEF Spec

(* Every variable keeps its type, for every ring, number of calls and set  *)
(* of failures (ipc.c:74-234).                                             *)
THEOREM TypeCorrect == Spec => []TypeOK
<1>1. IInv => TypeOK
  BY DEF IInv
<1> QED BY <1>1, Invariant, PTL

(* A living side touches only pages whose word names it, and keeps none it *)
(* is through with, whatever dies and whichever signals arrive             *)
(* (ipc.c:74-131).                                                         *)
THEOREM HandsAgree == Spec => []WordsTellHands
<1>1. IInv => WordsTellHands
  BY DEF IInv
<1> QED BY <1>1, Invariant, PTL

(* No wake-up is lost between the exchange in unlockPage and the kernel's  *)
(* sleep in lockPage (ipc.c:84, 112).                                      *)
THEOREM NoLostWakeup == Spec => []SleepersAreSeen
<1>1. IInv => SleepersAreSeen
  BY DEF IInv
<1> QED BY <1>1, Invariant, PTL

-----------------------------------------------------------------------------
(* The refinement: while all is well, a page's semaphore has a permit      *)
(* exactly when nobody has the page in hands.                              *)
Sem == [p \in Page |-> Permits(p)]

LEMMA StaysWell ==
    ASSUME IInv, [Next]_vars, AllWell'
    PROVE  /\ ~Exit /\ ~ForkFails
           /\ \A s \in Side : alive[s] => ~Die(s)
           /\ AllWell
<1> USE DEF IInv, TypeOK, Beginning, AllWell, Side
<1>1. ~Exit
  BY DEF Exit, GoTo
<1>2. ~ForkFails
  BY DEF ForkFails, GoTo, At, local
<1>3. ASSUME NEW s \in Side, alive[s] PROVE ~Die(s)
  <2>1. CASE s = "client"
    BY <2>1 DEF Die
  <2>2. CASE s = "server"
    <3>1. pc["client"] \notin {"boot", "fork"}
      BY <1>3, <2>2
    <3>2. ASSUME Die(s) PROVE FALSE
      <4>1. ~alive'["server"] /\ ~Fork
        BY <2>2, <3>1, <3>2 DEF Die, Fork, At
      <4>2. pc'["client"] \in {"boot", "fork"}
        BY <4>1
      <4> QED BY <1>1, <1>2, <3>1, <4>1, <4>2 DEF Next, Client, Server, Step, LockPage, FutexLock,
             FutexSleep, FutexFails, FutexWakes, UnlockPage, FutexUnlock, Locked, Unlocked, GoTo,
             Await, Tell, ClientWrite, ServerWrite, Write, FutexInterrupted, Killed, vars, word,
             local, At, Locking, Unlocking
    <3> QED BY <3>2
  <2> QED BY <1>3, <2>1, <2>2
<1>4. alive' = alive \/ Fork
  BY <1>1, <1>3 DEF Next, Client, Server, Step, LockPage, FutexLock, FutexSleep, FutexFails,
     FutexWakes, UnlockPage, FutexUnlock, Locked, Unlocked, ForkFails, Await, Tell, ClientWrite,
     ServerWrite, Write, FutexInterrupted, Killed, At, vars
<1>5. pc["client"] # "closed"
  <2> SUFFICES ASSUME pc["client"] = "closed" PROVE pc'["client"] = "closed"
    OBVIOUS
  <2>1. ASSUME NEW s \in Side, Step(s) PROVE pc'["client"] = "closed"
    BY <2>1 DEF Step, LockPage, FutexLock, FutexSleep, FutexFails, FutexWakes, UnlockPage,
       FutexUnlock, Locked, Unlocked, GoTo, At, Locking, Unlocking
  <2> QED BY <1>1, <2>1 DEF Next, Client, Server, Fork, ForkFails, Await, Tell, ClientWrite,
             ServerWrite, Write, FutexInterrupted, Killed, At, vars, GoTo
<1>6. AllWell
  <2>1. alive["client"]
    BY <1>4 DEF Fork, At
  <2>2. pc["client"] \in {"boot", "fork"} \/ alive["server"]
    <3>1. CASE Fork
      BY <3>1 DEF Fork, At
    <3>2. CASE ~Fork
      <4>1. pc["client"] \in {"boot", "fork"} \/ pc'["client"] \notin {"boot", "fork"}
        <5>1. ASSUME NEW s \in Side, Step(s) PROVE pc["client"] \in {"boot", "fork"} \/ pc'["client"] \notin {"boot", "fork"}
          BY <5>1 DEF Step, LockPage, FutexLock, FutexSleep, FutexFails, FutexWakes, UnlockPage,
             FutexUnlock, Locked, Unlocked, GoTo, At, Locking, Unlocking
        <5> QED BY <5>1, <1>1, <1>2 DEF Next, Client, Server, Fork, Await, Tell, ClientWrite,
             ServerWrite, Write, FutexInterrupted, Killed, At, vars, GoTo
      <4> QED BY <1>4, <3>2, <4>1
    <3> QED BY <3>1, <3>2
  <2> QED BY <1>5, <2>1, <2>2
<1> QED BY <1>1, <1>2, <1>3, <1>6

(* Taking a page takes its permit, but in the startup. *)
LEMMA TakesPermit ==
    ASSUME IInv, AllWell, AllWell', NEW s \in Side, Takes(s),
           NEW t \in Page, t = Target(s)
    PROVE  /\ pc[s] = "boot" => Sem' = Sem
           /\ pc[s] # "boot" => /\ Sem[t] = 1
                                /\ Sem' = [Sem EXCEPT ![t] = 0]
<1> USE DEF IInv
<1>1. Target(s) \in Page /\ alive' = alive /\ s # Nobody
  BY OwnPagesDiffer DEF Takes, Locked, Nobody, Side
<1>2. /\ phase'[s] = "user" /\ owner'[t] = s
      /\ \A o \in Side : o # s => phase'[o] = phase[o] /\ Target(o)' = Target(o) /\ pc'[o] = pc[o]
      /\ \A p \in Page : p # t => owner'[p] = owner[p]
      /\ pc'[s] \notin {"none", "boot"}
  BY <1>1 DEF Takes, Locked, GoTo, TypeOK, Target, Locking
<1>3. \A p \in Page : p # t => HandedOver(p)' = HandedOver(p)
  BY <1>2 DEF HandedOver, Takes
<1>4. ~HandedOver(t)'
  BY <1>1, <1>2 DEF HandedOver, Takes
<1>5. pc["server"] # "none"  => pc["client"] # "boot"
  BY DEF Beginning
<1>6. pc["client"] \notin Startup => pc["server"] \notin {"none", "boot"}
  BY DEF Beginning
<1>7. CASE pc[s] = "boot"
  <2>1. IF s = "client" THEN t = 0 ELSE t = 1
    BY <1>7 DEF Target, Beginning, Side
  <2>2. \A p \in Page : Permits(p)' = Permits(p)
    BY <1>1, <1>2, <1>3, <1>4, <1>5, <1>7, <2>1 DEF Permits, Side, Beginning
  <2> QED BY <1>7, <2>2 DEF Sem
<1>8. CASE pc[s] # "boot"
  <2>1. /\ t = 0 => pc["client"] # "boot"
        /\ t = 1 => pc["server"] \notin {"none", "boot"}
    BY <1>5, <1>6, <1>8 DEF Takes, Target, Parity, Locking, Side, Startup, TypeOK, Beginning
  <2>2. owner[t] = Nobody \/ HandedOver(t)
    BY DEF Takes, HandedOver
  <2>3. Permits(t) = 1
    BY <2>1, <2>2 DEF Permits
  <2>4. Permits(t)' = 0
    BY <1>1, <1>2, <1>4 DEF Permits
  <2>5. \A p \in Page : p # t => Permits(p)' = Permits(p)
    BY <1>2, <1>3, <1>8 DEF Permits, Side, Takes, Locking
  <2> QED BY <1>1, <1>8, <2>3, <2>4, <2>5 DEF Sem
<1> QED BY <1>7, <1>8

(* Giving a page up returns its permit, also to a sleeper. *)
LEMMA GivesPermit ==
    ASSUME IInv, AllWell, AllWell', NEW s \in Side, Gives(s),
           NEW t \in Page, t = Target(s)
    PROVE  Sem' = [Sem EXCEPT ![t] = 1]
<1> USE DEF IInv
<1>1. Target(s) \in Page /\ alive' = alive /\ s # Nobody /\ pc[s] \in Unlocking
  BY OwnPagesDiffer DEF Gives, Unlocked, Nobody, Side
<1>2. /\ phase[s] # "asleep" /\ phase'[s] = "user"
      /\ \A o \in Side : o # s => phase'[o] = phase[o] /\ Target(o)' = Target(o) /\ pc'[o] = pc[o]
      /\ pc'[s] \notin {"none", "boot"}
  BY <1>1 DEF Gives, Unlocked, GoTo, TypeOK, Target, Unlocking, Side
<1>3. owner' = [owner EXCEPT ![t] =
                    IF SleepsFor(Other(s), t) THEN Other(s) ELSE Nobody]
  BY <1>1 DEF Gives, Beginning
<1>4. Other(s) \in Side /\ Other(s) # s
  BY DEF Side, Other
<1>5. \A p \in Page : p # t => owner'[p] = owner[p] /\ HandedOver(p)' = HandedOver(p)
  BY <1>1, <1>2, <1>3 DEF HandedOver, TypeOK
<1>6. owner'[t] = Nobody \/ HandedOver(t)'
  BY <1>1, <1>2, <1>3, <1>4 DEF HandedOver, SleepsFor, TypeOK
<1>7. /\ t = 0 => pc["client"] # "boot"
      /\ t = 1 => pc["server"] \notin {"none", "boot"}
  BY <1>1 DEF Unlocking, Beginning, Startup, Target, Parity, Side, TypeOK
<1>8. pc'["client"] # "boot" <=> pc["client"] # "boot"
  BY <1>1, <1>2 DEF Side, Unlocking
<1>9. pc'["server"] \in {"none", "boot"} <=> pc["server"] \in {"none", "boot"}
  BY <1>1, <1>2 DEF Side, Unlocking
<1>10. Permits(t)' = 1
  BY <1>6, <1>7, <1>8, <1>9, <1>1 DEF Permits
<1>11. \A p \in Page : p # t => Permits(p)' = Permits(p)
  BY <1>5, <1>8, <1>9 DEF Permits
<1> QED BY <1>1, <1>10, <1>11 DEF Sem

(* A step that changes neither owners nor places leaves the permits. *)
LEMMA SamePermits ==
    ASSUME IInv, UNCHANGED owner,
           pc'["client"] = "boot" <=> pc["client"] = "boot",
           pc'["server"] \in {"none", "boot"} <=> pc["server"] \in {"none", "boot"},
           \A s \in Side : \/ phase'[s] # "asleep" /\ phase[s] # "asleep"
                           \/ phase'[s] = phase[s] /\ Target(s)' = Target(s)
                           \/ owner[Target(s)] # s /\ Target(s)' = Target(s)
    PROVE  Sem' = Sem
<1>1. \A p \in Page : HandedOver(p)' = HandedOver(p)
  BY DEF HandedOver
<1>2. \A p \in Page : Permits(p)' = Permits(p)
  BY <1>1 DEF Permits
<1> QED BY <1>2 DEF Sem

(* The threads' variables as the mapping gives them. *)
Mapped ==
    << Sem, page,
       IF pc["client"] \in Startup THEN "idle" ELSE pc["client"],
       write["client"], read["client"], hold["client"], done["client"], got["client"],
       IF pc["server"] \in {"none", "boot", "tell"} THEN "takeRead" ELSE pc["server"],
       write["server"],
       IF pc["server"] \in {"write", "takeWrite", "dropWrite"}
       THEN Further(read["server"]) ELSE read["server"],
       hold["server"], done["server"], got["server"] >>

LEMMA SameRing == ASSUME Mapped' = Mapped PROVE UNCHANGED Ring!vars
BY DEF Mapped, Sem, Ring!vars, Ring!clientVars, Ring!serverVars

LEMMA TakesRefines ==
    ASSUME IInv, AllWell, AllWell', NEW s \in Side, Takes(s)
    PROVE  [Ring!Next]_(Ring!vars)
<1> USE DEF IInv, TypeOK
<1>1. Target(s) \in Page
  BY OwnPagesDiffer
<1>2. CASE pc[s] = "boot"
  <2>1. Sem' = Sem
    BY <1>1, <1>2, TakesPermit
  <2> QED BY <1>2, <2>1, SameRing DEF Mapped, Takes, Locked, GoTo, Startup, Side
<1>3. CASE pc[s] # "boot"
  <2>1. Sem[Target(s)] = 1 /\ Sem' = [Sem EXCEPT ![Target(s)] = 0]
    BY <1>1, <1>3, TakesPermit
  <2>2. CASE s = "client" /\ pc[s] = "takeWrite"
    <3>1. Ring!ClientTakeWrite
      BY <2>1, <2>2 DEF Takes, Locked, GoTo, Startup, Side, Target, Sem,
         Ring!ClientTakeWrite, Ring!Acquire, Ring!serverVars
    <3> QED BY <3>1 DEF Ring!Next, Ring!Client
  <2>3. CASE s = "client" /\ pc[s] = "takeRead"
    <3>1. Ring!ClientTakeRead
      BY <2>1, <2>3 DEF Takes, Locked, GoTo, Startup, Side, Target, Sem,
         Ring!ClientTakeRead, Ring!Acquire, Ring!serverVars
    <3> QED BY <3>1 DEF Ring!Next, Ring!Client
  <2>4. CASE s = "server" /\ pc[s] = "takeWrite"
    <3>1. Ring!ServerTakeWrite
      BY <2>1, <2>4 DEF Takes, Locked, GoTo, Startup, Side, Target, Sem,
         Ring!ServerTakeWrite, Ring!Acquire, Ring!clientVars
    <3> QED BY <3>1 DEF Ring!Next, Ring!Server
  <2>5. CASE s = "server" /\ pc[s] = "takeRead"
    <3>1. Ring!ServerTakeRead
      BY <2>1, <2>5 DEF Takes, Locked, GoTo, Startup, Side, Target, Sem,
         Ring!ServerTakeRead, Ring!Acquire, Ring!clientVars
    <3> QED BY <3>1 DEF Ring!Next, Ring!Server
  <2> QED BY <1>3, <2>2, <2>3, <2>4, <2>5 DEF Takes, Locking, Side
<1> QED BY <1>2, <1>3

LEMMA GivesRefines ==
    ASSUME IInv, AllWell, AllWell', NEW s \in Side, Gives(s)
    PROVE  [Ring!Next]_(Ring!vars)
<1> USE DEF IInv, TypeOK
<1>1. Target(s) \in Page
  BY OwnPagesDiffer
<1>2. Sem' = [Sem EXCEPT ![Target(s)] = 1]
  BY <1>1, GivesPermit
<1>3. CASE s = "client" /\ pc[s] = "dropWrite"
  <2>1. Ring!ClientDropWrite
    BY <1>2, <1>3 DEF Gives, Unlocked, EndsCall, GoTo, Startup, Side, Target, Sem,
       Ring!ClientDropWrite, Ring!Release, Ring!serverVars
  <2> QED BY <2>1 DEF Ring!Next, Ring!Client
<1>4. CASE s = "client" /\ pc[s] = "dropRead"
  <2>1. Ring!ClientDropRead
    BY <1>2, <1>4 DEF Gives, Unlocked, EndsCall, GoTo, Startup, Side, Target, Sem, Further,
       Ring!ClientDropRead, Ring!Release, Ring!serverVars, Ring!Further
  <2> QED BY <2>1 DEF Ring!Next, Ring!Client
<1>5. CASE s = "server" /\ pc[s] = "dropRead"
  <2>1. Ring!ServerDropRead
    BY <1>2, <1>5 DEF Gives, Unlocked, EndsCall, GoTo, Startup, Side, Target, Sem, Further,
       Ring!ServerDropRead, Ring!Release, Ring!clientVars, Ring!Further
  <2> QED BY <2>1 DEF Ring!Next, Ring!Server
<1>6. CASE s = "server" /\ pc[s] = "dropWrite"
  <2>1. Ring!ServerDropWrite
    BY <1>2, <1>6 DEF Gives, Unlocked, EndsCall, GoTo, Startup, Side, Target, Sem, Further,
       Ring!ServerDropWrite, Ring!Release, Ring!clientVars
  <2> QED BY <2>1 DEF Ring!Next, Ring!Server
<1> QED BY <1>3, <1>4, <1>5, <1>6 DEF Gives, Unlocking, Side

LEMMA WritesRefine ==
    ASSUME IInv, ClientWrite \/ ServerWrite
    PROVE  [Ring!Next]_(Ring!vars)
<1> USE DEF IInv, TypeOK, At, Write, GoTo, word, Side
<1>1. Sem' = Sem
  <2>1. \A s \in Side : \/ phase'[s] # "asleep" /\ phase[s] # "asleep"
                        \/ phase'[s] = phase[s] /\ Target(s)' = Target(s)
    BY DEF ClientWrite, ServerWrite, Target
  <2> QED BY <2>1, SamePermits DEF ClientWrite, ServerWrite
<1>2. CASE ClientWrite
  <2>1. Ring!ClientWrite
    BY <1>1, <1>2 DEF ClientWrite, Sem, Startup, Further, Ring!ClientWrite, Ring!serverVars,
       Ring!Further
  <2> QED BY <2>1 DEF Ring!Next, Ring!Client
<1>3. CASE ServerWrite
  <2>1. Ring!ServerWrite
    BY <1>1, <1>3 DEF ServerWrite, Sem, Further, Ring!ServerWrite, Ring!clientVars, Ring!Further
  <2> QED BY <2>1 DEF Ring!Next, Ring!Server
<1> QED BY <1>2, <1>3

(* The kernel's side of waiting, and the startup, are invisible. *)
LEMMA HiddenRefines ==
    ASSUME IInv,
           \/ Fork \/ Tell \/ Await \/ UNCHANGED vars
           \/ \E s \in Side :
                 \/ FutexSleep(s) \/ FutexInterrupted(s)
                 \/ /\ phase[s] = "user"
                    /\ phase' = [phase EXCEPT ![s] = "kernel"]
                    /\ UNCHANGED <<word, page, finished, alive, pc, local>>
    PROVE  UNCHANGED Ring!vars
<1> USE DEF IInv, TypeOK, At, GoTo, word, local
<1>1. CASE Fork \/ Tell \/ Await
  <2>1. phase' = phase /\ owner' = owner /\ UNCHANGED local
    BY <1>1 DEF Fork, Tell, Await
  <2>2. /\ pc'["client"] = "boot" <=> pc["client"] = "boot"
        /\ pc'["server"] \in {"none", "boot"} <=> pc["server"] \in {"none", "boot"}
    BY <1>1 DEF Fork, Tell, Await, Beginning, Side
  <2>3. \A s \in Side : phase[s] = "asleep" => pc'[s] = pc[s]
    BY <1>1 DEF Fork, Tell, Await, Places, Locking, Side, Beginning
  <2>4. Sem' = Sem
    BY <2>1, <2>2, <2>3, SamePermits DEF Target
  <2> QED BY <1>1, <2>1, <2>4, SameRing DEF Mapped, Fork, Tell, Await, Startup, Beginning, Side
<1>2. CASE UNCHANGED vars
  <2>1. Sem' = Sem
    BY <1>2, SamePermits DEF vars, Target
  <2> QED BY <1>2, <2>1, SameRing DEF Mapped, vars
<1>3. ASSUME NEW s \in Side,
             \/ FutexSleep(s) \/ FutexInterrupted(s)
             \/ /\ phase[s] = "user"
                /\ phase' = [phase EXCEPT ![s] = "kernel"]
                /\ UNCHANGED <<word, page, finished, alive, pc, local>>
      PROVE  UNCHANGED Ring!vars
  <2>1. UNCHANGED <<owner, pc, page, local>>
    BY <1>3 DEF FutexSleep, FutexInterrupted
  <2>2. \A o \in Side : Target(o)' = Target(o)
    BY <2>1 DEF Target
  <2>3. \A o \in Side : o # s => phase'[o] = phase[o]
    BY <1>3 DEF FutexSleep, FutexInterrupted
  <2>4. \/ phase'[s] # "asleep" /\ phase[s] # "asleep"
        \/ owner[Target(s)] # s
    BY <1>3 DEF FutexSleep, FutexInterrupted, Side, Other
  <2>5. Sem' = Sem
    BY <2>1, <2>2, <2>3, <2>4, SamePermits
  <2> QED BY <2>1, <2>5, SameRing DEF Mapped
<1> QED BY <1>1, <1>2, <1>3

LEMMA NextRefines ==
    ASSUME IInv, [Next]_vars, AllWell'
    PROVE  [Ring!Next]_(Ring!vars)
<1>1. /\ ~Exit /\ ~ForkFails /\ AllWell
      /\ \A s \in Side : alive[s] => ~Die(s)
  BY StaysWell
<1>2. ASSUME NEW s \in Side, Step(s) PROVE [Ring!Next]_(Ring!vars)
  BY <1>1, <1>2, StepKinds, TakesRefines, GivesRefines, HiddenRefines
<1>3. CASE ClientWrite \/ ServerWrite
  BY <1>3, WritesRefine
<1>4. CASE Fork \/ Tell \/ Await \/ UNCHANGED vars
  BY <1>4, HiddenRefines
<1>5. ASSUME NEW s \in Side, FutexInterrupted(s) \/ Killed(s)
      PROVE  [Ring!Next]_(Ring!vars)
  BY <1>1, <1>5, HiddenRefines DEF Killed
<1> QED BY <1>1, <1>2, <1>3, <1>4, <1>5 DEF Next, Client, Server, Side

(* As long as nothing fails, the two processes with their futex words, the *)
(* kernel and the startup are the two threads with their semaphores: what  *)
(* is proved of PageRing holds of ipc.c up to the first failure.           *)
THEOREM RingRefinement == Spec => ImplementsRing
<1>1. Init => Ring!Init
  BY FutexAssumption DEF Init, Ring!Init, Page, Ring!Page, Permits, HandedOver, Nobody, Side, Startup
<1>2. IInv /\ [Next]_vars => [AllWell' => [Ring!Next]_(Ring!vars)]_vars
  BY NextRefines
<1> QED BY <1>1, <1>2, Invariant, PTL DEF Spec, ImplementsRing

-----------------------------------------------------------------------------
(***************************************************************************)
(* What is proved of the threads, read for the two processes.              *)
(***************************************************************************)
Threads == INSTANCE PageRingProofs WITH
    sem <- Sem,
    cpc <- IF pc["client"] \in Startup THEN "idle" ELSE pc["client"],
    cwrite <- write["client"], cread <- read["client"], chold <- hold["client"],
    calls <- done["client"], reply <- got["client"],
    spc <- IF pc["server"] \in {"none", "boot", "tell"} THEN "takeRead" ELSE pc["server"],
    swrite <- write["server"], shold <- hold["server"],
    sread <- IF pc["server"] \in {"write", "takeWrite", "dropWrite"}
             THEN Further(read["server"]) ELSE read["server"],
    served <- done["server"], request <- got["server"]

(* The page that stops a survivor: the dead side still owns it, or passed  *)
(* it on with the bit that keeps unlockPage from giving it back.           *)
Reads(s) ==
    \/ pc[s] = "dropRead"
    \/ s = "server" /\ pc[s] \in {"write", "takeWrite", "dropWrite"}
    \/ pc[s] = "takeRead" /\ phase[s] = "asleep"

(* How far the survivor is from needing that page, which is twice the      *)
(* number of pages that it reads before.                                   *)
Left(s, q) ==
    IF Reads(s) /\ q = read[s] THEN N
    ELSE IF q >= read[s] THEN q - read[s] ELSE q + N - read[s]

Blocks(s, q) ==
    /\ q % 2 = read[s] % 2
    /\ owner[q] = Other(s) \/ (owner[q] = s /\ died[q])
    /\ Reads(s) /\ q = read[s] => owner[q] = s
    /\ 2 * done[s] + Left(s, q)
         <= 2 * done[Other(s)] + N + (IF s = "client" THEN 0 ELSE 2)

Stranded(s) ==
    alive[s] /\ ~alive[Other(s)] /\ pc[s] # "closed" /\ (s = "client" => finished)

(* Once one is dead, the other has such a page ahead. *)
Survival == \A s \in Side : Stranded(s) => \E q \in Page : Blocks(s, q)

(* After exit one of the two processes is gone. *)
Ended == pc["client"] = "closed" => ~(alive["client"] /\ alive["server"])

(* The client is through with the startup only when the server is. *)
Told == pc["client"] \notin Startup /\ pc["server"] # "none" => finished

(* The kernel is asked to unlock only pages without the bit of a death. *)
UnlocksClean ==
    \A s \in Side : alive[s] /\ phase[s] = "kernel" /\ pc[s] \in Unlocking => ~died[Target(s)]

Idle == pc["server"] = "none" => done["server"] = 0

CallsInvariant ==
    /\ Ended /\ Told /\ UnlocksClean /\ Idle
    /\ AllWell => Threads!IInv
    /\ Survival /\ SurvivorStops

-----------------------------------------------------------------------------
LEMMA EndedStep == IInv /\ Ended /\ [Next]_vars => Ended'
<1> SUFFICES ASSUME IInv, Ended, [Next]_vars PROVE Ended'
  OBVIOUS
<1> USE DEF IInv, TypeOK, Ended
<1>1. ASSUME NEW s \in Side, Step(s) PROVE Ended'
  BY <1>1 DEF Step, LockPage, FutexLock, FutexSleep, FutexFails, FutexWakes,
     UnlockPage, FutexUnlock, Locked, Unlocked, GoTo, At, Locking, Unlocking, Die, Side
<1>2. CASE Fork \/ ForkFails \/ Await \/ ClientWrite \/ Tell \/ ServerWrite \/ UNCHANGED vars
  BY <1>2 DEF Fork, ForkFails, Await, ClientWrite, Tell, ServerWrite, Write, GoTo, At, vars, Side
<1>3. CASE Exit
  BY <1>3 DEF Exit, Die, Side
<1>4. ASSUME NEW s \in Side, FutexInterrupted(s) \/ Killed(s) PROVE Ended'
  BY <1>4 DEF FutexInterrupted, Killed, Die, Side
<1> QED BY <1>1, <1>2, <1>3, <1>4 DEF Next, Client, Server, Side

LEMMA ToldStep == IInv /\ Told /\ Idle /\ [Next]_vars => Told' /\ Idle'
<1> SUFFICES ASSUME IInv, Told, Idle, [Next]_vars PROVE Told' /\ Idle'
  OBVIOUS
<1> USE DEF IInv, TypeOK, Told, Idle
<1>1. ASSUME NEW s \in Side, Step(s) PROVE Told' /\ Idle'
  BY <1>1 DEF Step, LockPage, FutexLock, FutexSleep, FutexFails, FutexWakes, Startup, Beginning,
     UnlockPage, FutexUnlock, Locked, Unlocked, GoTo, At, Locking, Unlocking, Die, Side, local
<1>2. CASE Fork \/ ForkFails \/ Await \/ ClientWrite \/ Tell \/ ServerWrite \/ UNCHANGED vars
  BY <1>2 DEF Fork, ForkFails, Await, ClientWrite, Tell, ServerWrite, Write, GoTo, At, vars, Side,
     Startup, local, Beginning
<1>3. CASE Exit
  BY <1>3 DEF Exit, Die, Side, At, GoTo, Startup, local
<1>4. ASSUME NEW s \in Side, FutexInterrupted(s) \/ Killed(s) PROVE Told' /\ Idle'
  BY <1>4 DEF FutexInterrupted, Killed, Die, Side, local
<1> QED BY <1>1, <1>2, <1>3, <1>4 DEF Next, Client, Server, Side

(* A page that its living owner is unlocking is not marked by a death. *)
LEMMA UnlocksCleanStep == IInv /\ UnlocksClean /\ [Next]_vars => UnlocksClean'
<1> SUFFICES ASSUME IInv, UnlocksClean, [Next]_vars,
                    NEW s \in Side, alive'[s], phase'[s] = "kernel", pc'[s] \in Unlocking
             PROVE  ~died'[Target(s)']
  BY DEF UnlocksClean
<1> USE DEF IInv
<1>1. ASSUME NEW o \in Side, alive[o], Die(o), UNCHANGED <<pc, phase, local>>
      PROVE  ~died'[Target(s)']
  <2>1. Target(s)' = Target(s) /\ alive[s] /\ s # o /\ Target(s) \in Owns(s)
    BY <1>1 DEF Die, Target, local, Owns, Unlocking, TypeOK
  <2>2. owner[Target(s)] = s /\ Target(s) \in Page /\ ~died[Target(s)]
    BY <1>1, <2>1, OwnPagesDiffer DEF WordsTellHands, UnlocksClean
  <2> QED BY <1>1, <2>1, <2>2 DEF Die, TypeOK
<1>2. ASSUME NEW o \in Side, Step(o), ~(alive[o] /\ Die(o)) PROVE ~died'[Target(s)']
  <2>1. died' = died
    BY <1>2, StepKinds DEF Takes, word, FutexSleep, Gives
  <2>2. CASE o = s
    <3>1. UnlockPage(s) /\ phase' = [phase EXCEPT ![s] = "kernel"] /\ UNCHANGED <<pc, local>>
          /\ ~died[Target(s)]
      BY <1>2, <2>2 DEF Step, LockPage, FutexLock, FutexSleep, FutexFails, FutexWakes, UnlockPage,
         FutexUnlock, Locked, Unlocked, GoTo, TypeOK, At, Locking, Unlocking, Die
    <3> QED BY <2>1, <3>1 DEF Target, local
  <2>3. CASE o # s
    <3>1. alive' = alive /\ phase'[s] = phase[s] /\ pc'[s] = pc[s]
          /\ read'[s] = read[s] /\ hold'[s] = hold[s] /\ write'[s] = write[s]
      BY <1>2, <2>3, StepKinds DEF Takes, FutexSleep, Gives, Locked, Unlocked, GoTo, TypeOK, local
    <3> QED BY <2>1, <3>1 DEF UnlocksClean, Target
  <2> QED BY <2>2, <2>3
<1>3. CASE Fork \/ ForkFails \/ Await \/ ClientWrite \/ Tell \/ ServerWrite \/ UNCHANGED vars
  <2>1. pc'[s] = pc[s] /\ phase[s] = "kernel" /\ alive[s] /\ died' = died
        /\ read'[s] = read[s] /\ hold'[s] = hold[s] /\ write'[s] = write[s]
    BY <1>3 DEF Fork, ForkFails, Await, ClientWrite, Tell, ServerWrite, Write, GoTo, At, vars,
       Side, word, local, TypeOK, Unlocking
  <2> QED BY <2>1 DEF UnlocksClean, Target
<1>4. CASE Exit
  <2>1. s = "server" /\ pc["server"] # "none"
    BY <1>4 DEF Exit, GoTo, Unlocking, Side, TypeOK
  <2> QED BY <1>4, <2>1 DEF Exit, Die, TypeOK
<1>5. ASSUME NEW o \in Side, FutexInterrupted(o) \/ Killed(o), ~Killed(o)
      PROVE ~died'[Target(s)']
  <2>1. FutexInterrupted(o)
    BY <1>5
  <2>2. o # s
    BY <2>1 DEF FutexInterrupted, At, Locking, Unlocking
  <2> QED BY <2>1, <2>2 DEF FutexInterrupted, word, local, Target, UnlocksClean, TypeOK
<1>6. ASSUME NEW o \in Side, Step(o) PROVE ~died'[Target(s)']
  <2>1. CASE alive[o] /\ Die(o)
    <3>1. FutexFails(o)
      BY <1>6, <2>1 DEF Step, LockPage, FutexLock, FutexSleep, FutexWakes, UnlockPage,
         FutexUnlock, Locked, Unlocked, Die, TypeOK
    <3> QED BY <1>1, <2>1, <3>1 DEF FutexFails
  <2> QED BY <1>2, <1>6, <2>1
<1>7. ASSUME NEW o \in Side, FutexInterrupted(o) \/ Killed(o) PROVE ~died'[Target(s)']
  <2>1. CASE Killed(o)
    BY <1>1, <2>1 DEF Killed
  <2> QED BY <1>5, <1>7, <2>1
<1> QED BY <1>3, <1>4, <1>6, <1>7 DEF Next, Client, Server, Side

(* The two instances of PageRing are one. *)
LEMMA SameSteps == [Ring!Next]_(Ring!vars) => [Threads!Next]_(Threads!vars)
BY Zenon DEF Sem,
   Ring!Next, Ring!vars, Ring!Client, Ring!Server, Ring!clientVars, Ring!serverVars,
   Ring!ClientWrite, Ring!ClientTakeWrite, Ring!ClientDropWrite, Ring!ClientTakeRead,
   Ring!ClientDropRead, Ring!ServerTakeRead, Ring!ServerDropRead, Ring!ServerWrite,
   Ring!ServerTakeWrite, Ring!ServerDropWrite, Ring!Acquire, Ring!Release, Ring!Further,
   Threads!Next, Threads!vars, Threads!Client, Threads!Server,
   Threads!clientVars, Threads!serverVars,
   Threads!ClientWrite, Threads!ClientTakeWrite, Threads!ClientDropWrite,
   Threads!ClientTakeRead, Threads!ClientDropRead, Threads!ServerTakeRead,
   Threads!ServerDropRead, Threads!ServerWrite, Threads!ServerTakeWrite,
   Threads!ServerDropWrite, Threads!Acquire, Threads!Release, Threads!Further

LEMMA ThreadsStep ==
    ASSUME IInv, AllWell => Threads!IInv, [Next]_vars, AllWell'
    PROVE  Threads!IInv'
<1>1. AllWell
  BY StaysWell
<1>2. [Threads!Next]_(Threads!vars)
  BY NextRefines, SameSteps
<1> QED BY <1>1, <1>2, Threads!StepInvariant, FutexAssumption

LEMMA LeftFacts ==
    ASSUME IInv, NEW s \in Side, NEW q \in Page
    PROVE  /\ Left(s, q) \in Nat /\ Left(s, q) <= N
           /\ q = Further(read[s]) => Left(s, q) = 2
<1> DEFINE r == read[s]
<1>1. r \in Nat /\ r < N /\ q \in Nat /\ q < N /\ N \in Nat /\ N >= 4
  BY FutexAssumption DEF IInv, TypeOK, Page
<1>2. Left(s, q) = IF Reads(s) /\ q = r THEN N ELSE IF q >= r THEN q - r ELSE q + N - r
  BY DEF Left
<1>3. q = Further(r) => q = IF r + 2 < N THEN r + 2 ELSE r + 2 - N
  BY DEF Further
<1> HIDE DEF r
<1>4. Left(s, q) \in Nat /\ Left(s, q) <= N
  BY <1>1, <1>2
<1>5. q = Further(r) => Left(s, q) = 2
  BY <1>1, <1>2, <1>3
<1> QED BY <1>4, <1>5 DEF r

(* When one of the two dies, the page it was to hand over next blocks the  *)
(* other, whatever both were doing.                                        *)
LEMMA DeathStrands ==
    ASSUME IInv, AllWell, Threads!IInv, NEW s \in Side, alive[s], alive[Other(s)],
           Die(Other(s)), UNCHANGED <<page, finished, pc, phase, local>>,
           s = "client" => finished
    PROVE  \E q \in Page : Blocks(s, q)'
<1> USE DEF IInv, TypeOK
<1>0. N \in Nat /\ N >= 4
  BY FutexAssumption
<1>1. ASSUME NEW q \in Page, q \in Owns(Other(s)), q % 2 = read[s] % 2,
             Reads(s) /\ q = read[s] => phase[s] = "asleep" /\ Target(s) = q
      PROVE  /\ owner'[q] = Other(s) \/ (owner'[q] = s /\ died'[q])
             /\ Reads(s) /\ q = read[s] => owner'[q] = s
  <2>1. owner[q] = Other(s) /\ Other(s) \in Side /\ Other(s) # s /\ Other(Other(s)) = s
    BY <1>1 DEF WordsTellHands, Side, Other
  <2> QED BY <1>1, <2>1 DEF Die, SleepsFor
<1> DEFINE Far(q) == 2 * done[s] + Left(s, q)
                       <= 2 * done[Other(s)] + N + (IF s = "client" THEN 0 ELSE 2)
<1>4. ASSUME NEW q \in Page, q \in Owns(Other(s)), q % 2 = read[s] % 2,
             Reads(s) /\ q = read[s] => phase[s] = "asleep" /\ Target(s) = q,
             Far(q)
      PROVE  Blocks(s, q)'
  BY <1>1, <1>4 DEF Blocks, Reads, Left, local
<1> HIDE DEF Far
<1>2. CASE s = "client"
  <2>1. Other(s) = "server" /\ pc["server"] \in ServerPc \ {"none", "boot", "tell"}
    BY <1>2 DEF Other, Beginning
  <2>2. \/ /\ done["server"] = done["client"] + 1
           /\ pc["server"] = "takeRead" /\ write["server"] = Further(read["client"])
        \/ /\ done["server"] = done["client"] /\ pc["client"] # "dropRead"
           /\ \/ pc["server"] \notin {"takeWrite", "dropWrite"} /\ write["server"] = read["client"]
              \/ pc["server"] \in {"takeWrite", "dropWrite"} /\ hold["server"] = read["client"]
    BY <2>1 DEF Threads!IInv, Threads!Turns, Threads!ClientTurn, Threads!ServerTurn,
       Threads!AnswerReady, Threads!Further, Further, Threads!TypeOK, Threads!ClientPc, ServerPc, Startup
  <2>3. CASE done["server"] = done["client"] + 1
    <3>1. write["server"] \in Owns("server") /\ write["server"] = Further(read["client"])
      BY <2>2, <2>3 DEF Owns, Side
    <3>2. write["server"] # read["client"] /\ write["server"] % 2 = read["client"] % 2
          /\ write["server"] \in Page /\ read["client"] \in Page
      BY <3>1, FurtherFacts DEF Side
    <3>3. Left("client", write["server"]) = 2
      BY <3>1, <3>2, LeftFacts DEF Side
    <3>4. Far(write["server"])
      BY <1>0, <1>2, <2>1, <2>3, <3>3 DEF Far, Side
    <3>5. ASSUME NEW q \in Page, q = write["server"] PROVE Blocks(s, q)'
      BY <3>5, <1>2, <1>4, <2>1, <2>3, <3>1, <3>2, <3>4
    <3> QED BY <3>1, <3>2, <3>5
  <2>4. CASE done["server"] = done["client"] /\ pc["client"] # "dropRead"
    <3>1. read["client"] \in Owns("server") /\ read["client"] \in Page
      BY <2>1, <2>2, <2>4 DEF Owns, ServerPc, Side
    <3>2. Reads("client") => phase["client"] = "asleep" /\ Target("client") = read["client"]
      BY <2>4 DEF Reads, Target
    <3>3. Left("client", read["client"]) \in Nat /\ Left("client", read["client"]) <= N
      BY <3>1, LeftFacts DEF Side
    <3>4. Far(read["client"])
      BY <1>0, <1>2, <2>1, <2>4, <3>3 DEF Far, Side
    <3>5. ASSUME NEW q \in Page, q = read["client"] PROVE Blocks(s, q)'
      BY <3>5, <1>2, <1>4, <2>1, <3>1, <3>2, <3>4
    <3> QED BY <3>1, <3>2, <3>5
  <2> QED BY <2>2, <2>3, <2>4
<1>3. CASE s = "server"
  <2>1. Other(s) = "client" /\ pc["client"] \in ClientPc \ {"boot", "fork", "closed"}
        /\ pc["server"] # "none"
    BY <1>3 DEF Other, Beginning, AllWell, Startup
  <2>2. /\ done["server"] <= done["client"] + 1
        /\ \/ /\ Reads("server") => phase["server"] = "asleep" /\ pc["server"] = "takeRead"
              /\ \/ pc["client"] \notin {"takeWrite", "dropWrite"} /\ read["server"] = write["client"]
                 \/ pc["client"] \in {"takeWrite", "dropWrite"} /\ read["server"] = hold["client"]
           \/ pc["client"] = "takeRead" /\ write["client"] = Further(read["server"])
    BY <2>1 DEF Threads!IInv, Threads!Turns, Threads!ClientTurn, Threads!ServerTurn, Reads,
       Threads!AnswerReady, Threads!Further, Further, Threads!TypeOK, Threads!ClientPc, ServerPc, Startup
  <2>3. CASE /\ Reads("server") => phase["server"] = "asleep" /\ pc["server"] = "takeRead"
             /\ \/ pc["client"] \notin {"takeWrite", "dropWrite"} /\ read["server"] = write["client"]
                \/ pc["client"] \in {"takeWrite", "dropWrite"} /\ read["server"] = hold["client"]
    <3>1. read["server"] \in Owns("client") /\ read["server"] \in Page
      BY <2>1, <2>3 DEF Owns, ClientPc, Startup, Side
    <3>2. Reads("server") => Target("server") = read["server"]
      BY <2>3 DEF Target
    <3>3. Left("server", read["server"]) \in Nat /\ Left("server", read["server"]) <= N
      BY <3>1, LeftFacts DEF Side
    <3>4. Far(read["server"])
      BY <1>0, <1>3, <2>1, <2>2, <3>3 DEF Far, Side
    <3>5. ASSUME NEW q \in Page, q = read["server"] PROVE Blocks(s, q)'
      BY <3>5, <1>3, <1>4, <2>1, <2>3, <3>1, <3>2, <3>4
    <3> QED BY <3>1, <3>2, <3>5
  <2>4. CASE pc["client"] = "takeRead" /\ write["client"] = Further(read["server"])
    <3>1. write["client"] \in Owns("client")
      BY <2>4 DEF Owns, Side
    <3>2. write["client"] # read["server"] /\ write["client"] % 2 = read["server"] % 2
          /\ write["client"] \in Page /\ read["server"] \in Page
      BY <2>4, FurtherFacts DEF Side
    <3>3. Left("server", write["client"]) = 2
      BY <2>4, <3>2, LeftFacts DEF Side
    <3>4. Far(write["client"])
      BY <1>0, <1>3, <2>1, <2>2, <3>3 DEF Far, Side
    <3>5. ASSUME NEW q \in Page, q = write["client"] PROVE Blocks(s, q)'
      BY <3>5, <1>3, <1>4, <2>1, <3>1, <3>2, <3>4
    <3> QED BY <3>1, <3>2, <3>5
  <2> QED BY <2>2, <2>3, <2>4
<1> QED BY <1>2, <1>3 DEF Side

LEMMA ParityGap ==
    \A q, r \in Nat : q % 2 = r % 2 => q = r \/ q >= r + 2 \/ q + 2 <= r
OBVIOUS

(* The survivor comes closer to that page with every page it reads, and    *)
(* gets stuck there.                                                       *)
LEMMA SurvivorStep ==
    ASSUME IInv, UnlocksClean, [Next]_vars,
           NEW s \in Side, NEW q \in Page, Stranded(s), Stranded(s)', Blocks(s, q)
    PROVE  Blocks(s, q)'
<1> USE DEF IInv, TypeOK
<1>0. /\ alive[s] /\ ~alive[Other(s)] /\ alive'[s] /\ Other(s) \in Side
      /\ \A o \in Side : alive[o] => o = s
      /\ N \in Nat /\ N >= 4 /\ N % 2 = 0
  BY FutexAssumption DEF Stranded, Side, Other
<1>1. ASSUME UNCHANGED <<owner, died, read, done>>, Reads(s)' <=> Reads(s)
      PROVE  Blocks(s, q)'
  BY <1>1 DEF Blocks, Left
<1>2. ASSUME Takes(s) PROVE Blocks(s, q)'
  <2>1. UNCHANGED <<died, read, done>>
    BY <1>2 DEF Takes, Locked
  <2>2. CASE Target(s) = q
    <3>1. owner[q] = s /\ phase[s] = "asleep" /\ owner'[q] = s
      BY <1>2, <2>2 DEF Takes, Blocks, Other, Nobody, Side
    <3>2. CASE pc[s] = "takeRead"
      BY <1>2, <2>1, <2>2, <3>1, <3>2 DEF Takes, Blocks, Left, Locked, GoTo, Reads, Target
    <3>3. CASE pc[s] # "takeRead"
      BY <1>2, <2>2, <3>3 DEF Takes, Blocks, Target, Locking, Parity, Side
    <3> QED BY <3>2, <3>3
  <2>3. CASE Target(s) # q
    <3>1. owner'[q] = owner[q]
      BY <1>2, <2>3 DEF Takes
    <3>2. pc[s] = "takeRead" => q # read[s]
      BY <2>3 DEF Target
    <3>3. q = read[s] => (Reads(s)' <=> Reads(s))
      BY <1>2, <3>2 DEF Takes, Locked, GoTo, Reads, Locking, Side
    <3> QED BY <2>1, <3>1, <3>3 DEF Blocks, Left
  <2> QED BY <2>2, <2>3
<1>3. ASSUME Gives(s), died[Target(s)] => owner' = owner PROVE Blocks(s, q)'
  <2>1. died' = died /\ owner'[q] = owner[q]
    <3>1. owner[Target(s)] = s
      BY <1>3, OwnPagesDiffer DEF Gives, WordsTellHands, Owns, Target, Unlocking
    <3>2. Target(s) = q => died[q]
      BY <3>1 DEF Blocks, Side, Other
    <3> QED BY <1>3, <3>2 DEF Gives, Unlocked
  <2>2. CASE EndsCall(s)
    <3>1. /\ read'[s] = Further(read[s]) /\ done'[s] = done[s] + 1
          /\ done'[Other(s)] = done[Other(s)]
          /\ Reads(s) /\ ~Reads(s)'
      BY <1>3, <2>2 DEF Gives, Unlocked, EndsCall, GoTo, Reads, Side, Other
    <3>2. Left(s, q)' \in Nat /\ Left(s, q) = Left(s, q)' + 2
      <4> DEFINE r == read[s]
                 t == IF r + 2 < N THEN r + 2 ELSE r + 2 - N
      <4>1. /\ r \in Nat /\ r < N /\ q \in Nat /\ q < N /\ q % 2 = r % 2
        BY <1>0 DEF Page, Blocks
      <4>2. Left(s, q) = IF q = r THEN N ELSE IF q >= r THEN q - r ELSE q + N - r
        BY <3>1 DEF Left
      <4>3. Left(s, q)' = IF q >= t THEN q - t ELSE q + N - t
        BY <3>1 DEF Left, Further
      <4> HIDE DEF r
      <4>4. q = r \/ q >= r + 2 \/ q + 2 <= r
        BY <4>1, ParityGap
      <4>6. CASE q = r
        BY <1>0, <4>1, <4>2, <4>3, <4>6
      <4>7. CASE q >= r + 2
        <5>1. r + 2 < N
          BY <1>0, <4>1, <4>7
        <5>2. t = r + 2 /\ q >= t /\ q >= r /\ q # r
          BY <1>0, <4>1, <4>7, <5>1
        <5>3. Left(s, q) = q - r /\ Left(s, q)' = q - (r + 2)
          BY <4>2, <4>3, <5>2
        <5>4. q - (r + 2) \in Nat /\ q - r = (q - (r + 2)) + 2
          BY <4>1, <4>7
        <5> QED BY <5>3, <5>4
      <4>8. CASE q + 2 <= r
        BY <1>0, <4>1, <4>2, <4>3, <4>8
      <4> QED BY <4>4, <4>6, <4>7, <4>8
    <3>3. q % 2 = read'[s] % 2
      BY <3>1, FurtherFacts DEF Blocks
    <3>4. 2 * done'[s] + Left(s, q)' = 2 * done[s] + Left(s, q)
      BY <3>1, <3>2
    <3> QED BY <2>1, <3>1, <3>3, <3>4 DEF Blocks
  <2>3. CASE ~EndsCall(s)
    <3>1. UNCHANGED <<read, done>> /\ (Reads(s)' <=> Reads(s))
      BY <1>3, <2>3 DEF Gives, Unlocked, EndsCall, GoTo, Reads, Unlocking, Side
    <3> QED BY <2>1, <3>1 DEF Blocks, Left
  <2> QED BY <2>2, <2>3
<1>4. ASSUME Step(s) PROVE Blocks(s, q)'
  <2>1. ~Die(s) /\ ~FutexSleep(s)
    BY <1>0 DEF Die, FutexSleep
  <2>2. ASSUME phase[s] = "user", phase' = [phase EXCEPT ![s] = "kernel"],
               UNCHANGED <<word, page, finished, alive, pc, local>>
        PROVE  Blocks(s, q)'
    BY <1>1, <2>2 DEF word, local, Reads
  <2>3. Gives(s) => (died[Target(s)] => owner' = owner)
    <3>1. Gives(s) => UnlockPage(s) \/ FutexUnlock(s)
      BY <1>4 DEF Gives, Step, LockPage, FutexLock, FutexSleep, FutexFails, FutexWakes, At,
         Locking, Unlocking
    <3> QED BY <3>1 DEF UnlockPage, FutexUnlock, UnlocksClean, word, At
  <2> QED BY <1>2, <1>3, <1>4, <2>1, <2>2, <2>3, StepKinds
<1>5. ASSUME FutexInterrupted(s) PROVE Blocks(s, q)'
  <2>1. UNCHANGED <<owner, died, read, done>>
    BY <1>5 DEF FutexInterrupted, word, local
  <2>2. q = read[s] => (Reads(s)' <=> Reads(s))
    BY <1>5 DEF FutexInterrupted, Reads, Blocks, Target, At, Locking
  <2> QED BY <2>1, <2>2 DEF Blocks, Left
<1>6. CASE Fork \/ ForkFails \/ Await \/ ClientWrite \/ Tell \/ ServerWrite \/ UNCHANGED vars
  <2>1. ~Fork /\ ~ForkFails
    BY <1>0 DEF Fork, ForkFails, At, Stranded, Beginning, Side
  <2>2. UNCHANGED <<owner, died, read, done>>
    BY <1>6, <2>1 DEF Await, ClientWrite, Tell, ServerWrite, Write, vars, word, local
  <2>3. Reads(s)' <=> Reads(s)
    BY <1>0, <1>6, <2>1 DEF Await, ClientWrite, Tell, ServerWrite, Write, GoTo, At, vars, Reads,
       Side
  <2> QED BY <1>1, <2>2, <2>3
<1>7. ~Exit
  BY <1>0 DEF Exit, Stranded, GoTo, Side, At
<1>8. \A o \in Side : ~Killed(o)
  BY <1>0 DEF Killed, Die
<1>9. \A o \in Side : Step(o) \/ FutexInterrupted(o) => o = s
  BY <1>0 DEF Step, LockPage, FutexLock, FutexSleep, FutexFails, FutexWakes, UnlockPage,
     FutexUnlock, FutexInterrupted, At
<1> QED BY <1>4, <1>5, <1>6, <1>7, <1>8, <1>9 DEF Next, Client, Server, Side

LEMMA SurvivalStep ==
    ASSUME IInv, CallsInvariant, [Next]_vars
    PROVE  Survival'
<1> SUFFICES ASSUME NEW s \in Side, Stranded(s)' PROVE \E q \in Page : Blocks(s, q)'
  BY DEF Survival
<1>1. CASE Stranded(s)
  BY <1>1, SurvivorStep DEF CallsInvariant, Survival
<1>2. CASE ~Stranded(s)
  <2>1. ~Exit
    BY DEF Exit, Stranded, Die, GoTo, At, IInv, TypeOK, Side, Other, Beginning
  <2>2. ASSUME NEW o \in Side, alive[o], Die(o), UNCHANGED <<page, finished, pc, phase, local>>
        PROVE  \E q \in Page : Blocks(s, q)'
    <3>1. o = Other(s) /\ alive[s] /\ pc[s] # "closed" /\ (s = "client" => finished)
      BY <2>2 DEF Stranded, Die, Side, Other, IInv, TypeOK
    <3>2. alive["client"] /\ alive["server"]
      BY <2>2, <3>1 DEF Other, Side
    <3>3. AllWell
      BY <3>2 DEF AllWell, CallsInvariant, Ended
    <3> QED BY <2>2, <3>1, <3>3, DeathStrands DEF CallsInvariant
  <2>3. ASSUME NEW o \in Side, Step(o), ~(alive[o] /\ Die(o)) PROVE FALSE
    <3>1. UNCHANGED <<alive, finished>> /\ (pc'[s] # "closed" => pc[s] # "closed")
      BY <2>3, StepKinds DEF Takes, FutexSleep, Gives, Locked, Unlocked, GoTo, Locking, Unlocking,
         IInv, TypeOK, local
    <3> QED BY <1>2, <3>1 DEF Stranded
  <2>4. CASE Fork \/ ForkFails \/ Await \/ ClientWrite \/ Tell \/ ServerWrite \/ UNCHANGED vars
    BY <1>2, <2>4 DEF Fork, ForkFails, Await, ClientWrite, Tell, ServerWrite, Write, GoTo, At, vars,
       Stranded, Side, Other, IInv, TypeOK
  <2>5. ASSUME NEW o \in Side, FutexInterrupted(o) PROVE FALSE
    BY <1>2, <2>5 DEF FutexInterrupted, Stranded
  <2>6. ASSUME NEW o \in Side, Step(o), alive[o] /\ Die(o)
        PROVE  UNCHANGED <<page, finished, pc, phase, local>>
    BY <2>6 DEF Step, LockPage, FutexLock, FutexSleep, FutexFails, FutexWakes, UnlockPage,
       FutexUnlock, Locked, Unlocked, Die, IInv, TypeOK
  <2> QED BY <2>1, <2>2, <2>3, <2>4, <2>5, <2>6 DEF Next, Client, Server, Side, Killed
<1> QED BY <1>1, <1>2

(* Only a side that reads its last page of a call counts it. *)
LEMMA CountsStep ==
    ASSUME IInv, [Next]_vars, done' # done
    PROVE  \E s \in Side : /\ alive[s] /\ alive'[s] /\ Gives(s) /\ EndsCall(s)
<1>1. ASSUME NEW s \in Side, Step(s) PROVE alive[s] /\ alive'[s] /\ Gives(s) /\ EndsCall(s)
  BY <1>1, StepKinds DEF Takes, Locked, FutexSleep, local, Gives, Unlocked
<1> QED BY <1>1 DEF Next, Client, Server, Side, Fork, ForkFails, Await, ClientWrite, Tell,
       ServerWrite, Write, vars, local, Exit, FutexInterrupted, Killed

LEMMA SurvivorStopsStep ==
    ASSUME IInv, IInv', CallsInvariant, [Next]_vars,
           AllWell' => Threads!IInv', Survival', Ended', Told'
    PROVE  SurvivorStops'
<1> USE DEF IInv, TypeOK
<1>0. N \in Nat /\ N >= 4 /\ N % 2 = 0 /\ N \div 2 \in Nat /\ 2 * (N \div 2) = N
  BY FutexAssumption
<1>1. CASE AllWell'
  <2>1. done'["server"] = done'["client"] \/ done'["server"] = done'["client"] + 1
    BY <1>1 DEF Threads!IInv, Threads!Turns, Threads!ClientTurn, Threads!AnswerReady,
       Threads!TypeOK, Threads!ClientPc
  <2> QED BY <1>0, <2>1 DEF SurvivorStops, Side
<1>2. CASE ~AllWell' /\ done' = done
  <2>1. pc["server"] = "none" => pc'["server"] = "none"
    <3>1. ~Fork
      BY <1>2 DEF Fork, AllWell, Side, At
    <3>2. \A o \in Side : Step(o) /\ pc["server"] = "none" => pc'["server"] = "none"
      BY StepKinds DEF Takes, FutexSleep, Gives, Locked, Unlocked, GoTo, local, Side,
         Beginning, Locking, Unlocking
    <3> QED BY <3>1, <3>2 DEF Next, Client, Server, Side, ForkFails, Await, ClientWrite, Tell,
           ServerWrite, Write, GoTo, At, vars, Exit, FutexInterrupted, Killed
  <2> QED BY <1>2, <2>1 DEF SurvivorStops, CallsInvariant
<1>3. CASE ~AllWell' /\ done' # done
  <2>1. PICK s \in Side : alive[s] /\ alive'[s] /\ Gives(s) /\ EndsCall(s)
    BY <1>3, CountsStep
  <2>2. /\ done'[s] = done[s] + 1 /\ done'[Other(s)] = done[Other(s)]
        /\ pc'[s] = IF s = "client" THEN "idle" ELSE "takeRead"
        /\ \A o \in Side : o # s => pc'[o] = pc[o]
    BY <2>1 DEF Gives, Unlocked, EndsCall, GoTo, Side, Other
  <2>3. s = "client" /\ pc["server"] # "none" => finished'
    BY <2>2 DEF Told, Side, Startup
  <2>4. ~alive'[Other(s)]
    BY <1>3, <2>1, <2>2 DEF AllWell, Ended, Side, Other
  <2>5. ASSUME s = "client" => pc["server"] # "none"
        PROVE  2 * done'[s] <= 2 * done'[Other(s)] + N + (IF s = "client" THEN 0 ELSE 2)
    <3>1. Stranded(s)'
      BY <2>1, <2>2, <2>3, <2>4, <2>5 DEF Stranded, Side
    <3>2. PICK q \in Page : Blocks(s, q)'
      BY <3>1 DEF Survival
    <3>3. Left(s, q)' \in Nat
      <4>1. read'[s] \in Page /\ q \in Page
        OBVIOUS
      <4> HIDE DEF IInv, TypeOK
      <4> QED BY <1>0, <4>1 DEF Left, Page
    <3>4. /\ 2 * done'[s] + Left(s, q)'
               <= 2 * done'[Other(s)] + N + (IF s = "client" THEN 0 ELSE 2)
          /\ done'[s] \in Nat /\ done'[Other(s)] \in Nat
      BY <3>2 DEF Blocks, Side, Other
    <3> HIDE DEF IInv, TypeOK
    <3> QED BY <1>0, <3>3, <3>4
  <2>6. CASE s = "client"
    <3>1. Other(s) = "server" /\ done["client"] \in Nat /\ done["server"] \in Nat
          /\ pc'["server"] = pc["server"]
      BY <2>2, <2>6 DEF Other, Side
    <3> HIDE DEF IInv, TypeOK
    <3> QED BY <1>0, <2>2, <2>5, <2>6, <3>1 DEF SurvivorStops, CallsInvariant
  <2>7. CASE s = "server"
    <3>1. Other(s) = "client" /\ done["client"] \in Nat /\ done["server"] \in Nat
          /\ pc["server"] # "none"
      BY <2>1, <2>7 DEF Other, Side, EndsCall
    <3> HIDE DEF IInv, TypeOK
    <3> QED BY <1>0, <2>2, <2>5, <2>7, <3>1 DEF SurvivorStops, CallsInvariant
  <2> QED BY <2>6, <2>7 DEF Side
<1> QED BY <1>1, <1>2, <1>3

LEMMA CallsStep == IInv /\ CallsInvariant /\ [Next]_vars => CallsInvariant'
<1> SUFFICES ASSUME IInv, CallsInvariant, [Next]_vars PROVE CallsInvariant'
  OBVIOUS
<1>1. IInv'
  BY NextInvariant
<1>2. Ended' /\ Told' /\ UnlocksClean' /\ Idle'
  BY EndedStep, ToldStep, UnlocksCleanStep DEF CallsInvariant
<1>3. AllWell' => Threads!IInv'
  BY ThreadsStep DEF CallsInvariant
<1>4. Survival'
  BY SurvivalStep
<1>5. SurvivorStops'
  BY <1>1, <1>2, <1>3, <1>4, SurvivorStopsStep
<1> QED BY <1>2, <1>3, <1>4, <1>5 DEF CallsInvariant

LEMMA CallsHold == Spec => []CallsInvariant
<1>1. Init => CallsInvariant
  <2> SUFFICES ASSUME Init PROVE CallsInvariant
    OBVIOUS
  <2>1. Ended /\ Told /\ UnlocksClean /\ Idle /\ Survival
    BY DEF Init, Ended, Told, UnlocksClean, Idle, Survival, Stranded, Side, Other, Startup
  <2>2. SurvivorStops
    BY FutexAssumption DEF Init, SurvivorStops, Side
  <2>3. Threads!Init
    BY FutexAssumption DEF Init, Threads!Init, Sem, Page, Threads!Page, Permits, HandedOver,
       Nobody, Side, Startup
  <2>4. Threads!IInv
    BY <2>3, FutexAssumption, Threads!InitInvariant
  <2> QED BY <2>1, <2>2, <2>4 DEF CallsInvariant
<1> QED BY <1>1, CallsStep, Invariant, PTL DEF Spec

(* While both processes live, the server answers the call being made and   *)
(* the client reads the answer to it, for every ring and number of calls   *)
(* (clientIpc and ipcServerLoop, ipc.c:138-185): what the threads' ring    *)
(* guarantees, through the refinement.                                     *)
THEOREM RightAnswer == Spec => []AnswersMatch
<1>1. IInv /\ CallsInvariant => AnswersMatch
  <2> SUFFICES ASSUME IInv, CallsInvariant, alive["client"], alive["server"]
      PROVE  AnswersMatch
    BY DEF AnswersMatch
  <2>1. Threads!IInv
    BY DEF CallsInvariant, Ended, AllWell
  <2> QED BY <2>1 DEF Threads!IInv, Threads!Turns, Threads!ClientTurn, Threads!ServerTurn,
         Threads!AnswerReady, Threads!TypeOK, Threads!ClientPc, AnswersMatch, Startup
<1> QED BY <1>1, Invariant, CallsHold, PTL

(* After the death of one side the other ends too: it makes or answers at  *)
(* most as many calls as there are pages in its half of the ring.          *)
THEOREM Bounded == Spec => []SurvivorStops
<1>1. CallsInvariant => SurvivorStops
  BY DEF CallsInvariant
<1> QED BY <1>1, CallsHold, PTL
=============================================================================

------------------------------ MODULE PingPong ------------------------------
(***************************************************************************)
(* What the page ring promises: calls are answered one at a time and in    *)
(* order.  A call is sent only after the previous one has returned, each   *)
(* is served once, and a call returns only after it was served.            *)
(***************************************************************************)
EXTENDS Naturals

CONSTANT Times   \* how many calls the client makes

VARIABLES sent, answered, returned   \* numbers of calls that got this far

callVars == <<sent, answered, returned>>

CallInit == sent = 0 /\ answered = 0 /\ returned = 0

Send ==
    /\ sent = returned
    /\ sent < Times
    /\ sent' = sent + 1
    /\ UNCHANGED <<answered, returned>>

Answer ==
    /\ answered < sent
    /\ answered' = answered + 1
    /\ UNCHANGED <<sent, returned>>

Return ==
    /\ returned < answered
    /\ returned' = returned + 1
    /\ UNCHANGED <<sent, answered>>

CallNext == Send \/ Answer \/ Return

CallSpec == CallInit /\ [][CallNext]_callVars /\ WF_callVars(CallNext)

CallSafety == CallInit /\ [][CallNext]_callVars
=============================================================================

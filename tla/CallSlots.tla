------------------------------ MODULE CallSlots ------------------------------
(* What the router promises a charging station about the calls of the CSMS:   *)
(* a call starts only while fewer than N of them are under way, and no call   *)
(* that is under way starts again. With N = 1 this is the rule of OCPP that   *)
(* a call waits until the one before it is answered or has timed out.         *)
EXTENDS Naturals, FiniteSets

CONSTANTS Calls, N

VARIABLE held    \* the calls under way

Init == held = {}

Start(c) == /\ c \notin held
            /\ Cardinality(held) < N
            /\ held' = held \union {c}

Finish(c) == /\ c \in held
             /\ held' = held \ {c}

Next == \E c \in Calls : Start(c) \/ Finish(c)

Spec == Init /\ [][Next]_held

===============================================================================

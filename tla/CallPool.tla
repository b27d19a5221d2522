------------------------------ MODULE CallPool ------------------------------
(***************************************************************************)
(* What all asynchronous unitsync handlers promise together, however often *)
(* the page opens their paths again: a pool of calls, each of which is     *)
(* made once, begun and answered once, alone in the library, or discarded  *)
(* before it is begun.  Nothing is said of the order.                      *)
(* UnitsyncHandlerAsync implements it, with reopening too.                 *)
(***************************************************************************)
CONSTANT Calls

VARIABLES waiting,   \* calls made that have not been begun
          running,   \* the call in the library, if any
          answered,  \* calls that have a result
          discarded  \* calls that will never be begun

vars == <<waiting, running, answered, discarded>>

Init ==
    /\ waiting = {} /\ running = {}
    /\ answered = {} /\ discarded = {}

Made == waiting \cup running \cup answered \cup discarded

Submit(c) ==
    /\ c \notin Made
    /\ waiting' = waiting \cup {c}
    /\ UNCHANGED <<running, answered, discarded>>

Begin(c) ==
    /\ c \in waiting
    /\ running = {}
    /\ running' = {c}
    /\ waiting' = waiting \ {c}
    /\ UNCHANGED <<answered, discarded>>

Answer(c) ==
    /\ c \in running
    /\ running' = {}
    /\ answered' = answered \cup {c}
    /\ UNCHANGED <<waiting, discarded>>

Discard(D) ==
    /\ D \subseteq waiting
    /\ waiting' = waiting \ D
    /\ discarded' = discarded \cup D
    /\ UNCHANGED <<running, answered>>

Next ==
    \/ \E c \in Calls : Submit(c) \/ Begin(c) \/ Answer(c)
    \/ \E D \in SUBSET Calls : Discard(D)

Spec == Init /\ [][Next]_vars
=============================================================================

---------------------------- MODULE CallService ----------------------------
(***************************************************************************)
(* What an asynchronous unitsync handler promises the page: a first-in     *)
(* first-out service.  Calls are numbered in the order they are made; each *)
(* is answered at most once, in that order; closing the service discards   *)
(* the calls that are waiting, except perhaps the one being served.        *)
(* UnitsyncHandlerAsync implements it when every path is opened once.      *)
(***************************************************************************)
EXTENDS Integers, Sequences

CONSTANT Handlers

VARIABLES phase,    \* [Handlers -> {"absent", "open", "closed"}]
          issued,   \* how many calls have been accepted
          pending,  \* the calls not yet answered, oldest first
          answers   \* the answers given, in order

vars == <<phase, issued, pending, answers>>

Init ==
    /\ phase = [h \in Handlers |-> "absent"]
    /\ issued = [h \in Handlers |-> 0]
    /\ pending = [h \in Handlers |-> <<>>]
    /\ answers = [h \in Handlers |-> <<>>]

Open(h) ==
    /\ phase[h] = "absent"
    /\ phase' = [phase EXCEPT ![h] = "open"]
    /\ UNCHANGED <<issued, pending, answers>>

Submit(h) ==
    /\ phase[h] = "open"
    /\ issued' = [issued EXCEPT ![h] = @ + 1]
    /\ pending' = [pending EXCEPT ![h] = Append(@, issued[h] + 1)]
    /\ UNCHANGED <<phase, answers>>

Answer(h) ==
    /\ pending[h] # <<>>
    /\ answers' = [answers EXCEPT ![h] = Append(@, Head(pending[h]))]
    /\ pending' = [pending EXCEPT ![h] = Tail(@)]
    /\ UNCHANGED <<phase, issued>>

Close(h) ==
    /\ phase[h] = "open"
    /\ phase' = [phase EXCEPT ![h] = "closed"]
    /\ \/ pending' = [pending EXCEPT ![h] = <<>>]
       \/ /\ pending[h] # <<>>
          /\ pending' = [pending EXCEPT ![h] = <<Head(pending[h])>>]
    /\ UNCHANGED <<issued, answers>>

Next == \E h \in Handlers : Open(h) \/ Submit(h) \/ Answer(h) \/ Close(h)

Spec == Init /\ [][Next]_vars

\* An open service keeps answering.
FairSpec == Spec /\ \A h \in Handlers : WF_vars(Answer(h))
=============================================================================

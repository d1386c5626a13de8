------------------------------ MODULE RpcCall ------------------------------
(***************************************************************************)
(* What a handler may assume of a remote call: it is answered or it fails, *)
(* once, and in the end; a request whose call failed may still be executed *)
(* later.  OrderSaga takes its calls to be like this.                      *)
(***************************************************************************)
EXTENDS Integers, FiniteSets

CONSTANTS
    Callers,  \* handlers that make a call at a time
    Ops       \* operations they call

VARIABLES
    outcome,  \* of each caller: "idle", "pending", "answered" or "failed"
    op,       \* the operation each caller called last
    orphan    \* requests of each operation nobody waits for

vars == <<outcome, op, orphan>>

Init ==
    /\ outcome = [c \in Callers |-> "idle"]
    /\ op \in [Callers -> Ops]
    /\ orphan = [o \in Ops |-> 0]

\* A call begins, or is refused at once.
Call(c, o) ==
    /\ outcome[c] = "idle"
    /\ op' = [op EXCEPT ![c] = o]
    /\ \E end \in {"pending", "failed"} : outcome' = [outcome EXCEPT ![c] = end]
    /\ UNCHANGED orphan

Answer(c) ==
    /\ outcome[c] = "pending"
    /\ outcome' = [outcome EXCEPT ![c] = "answered"]
    /\ UNCHANGED <<op, orphan>>

Fail(c) ==
    /\ outcome[c] = "pending"
    /\ outcome' = [outcome EXCEPT ![c] = "failed"]
    /\ orphan' \in {orphan, [orphan EXCEPT ![op[c]] = @ + 1]}
    /\ UNCHANGED op

Return(c) ==
    /\ outcome[c] \in {"answered", "failed"}
    /\ outcome' = [outcome EXCEPT ![c] = "idle"]
    /\ UNCHANGED <<op, orphan>>

ServeOrphan(o) ==
    /\ orphan[o] > 0
    /\ orphan' = [orphan EXCEPT ![o] = @ - 1]
    /\ UNCHANGED <<outcome, op>>

\* The replica dies with the calls of all its callers.
Abandon ==
    /\ outcome' = [c \in Callers |-> "idle"]
    /\ \E left \in [Ops -> 0..Cardinality(Callers)] :
           orphan' = [o \in Ops |-> orphan[o] + left[o]]
    /\ UNCHANGED op

Next ==
    \/ \E c \in Callers : Answer(c) \/ Fail(c) \/ Return(c) \/ \E o \in Ops : Call(c, o)
    \/ \E o \in Ops : ServeOrphan(o)
    \/ Abandon

Fairness == \A c \in Callers : WF_vars(Answer(c) \/ Fail(c))

Spec == Init /\ [][Next]_vars /\ Fairness
=============================================================================

---------------------------- MODULE BreakerProofs ----------------------------
(***************************************************************************)
(* Type correctness of RpcBreaker, its single probe, that only faults make *)
(* it reject, and that calls through it are those of RpcCall.              *)
(***************************************************************************)
EXTENDS RpcBreaker, FiniteSetTheorems, TLAPS

\* Only a half-open breaker knows of a probe.
ProbeOnlyHalfOpen == breaker # "halfOpen" => pendingClose = FALSE /\ probe = {}

\* What leads to a failure of a call, or comes of one, takes a fault.
FaultFirst ==
    /\ breaker # "closed" => faults > 0
    /\ \A c \in Callers : call[c] \in {"stalled", "lost", "rejected"} => faults > 0

\* The inductive invariant.
IInv == TypeOK /\ ProbeOnlyHalfOpen /\ OneProbe /\ FaultFirst

-----------------------------------------------------------------------------
\* The counts of requests left behind are numbers.
LEMMA CallersCount == \A S \in SUBSET Callers : Cardinality(S) \in Nat
<1> SUFFICES ASSUME NEW S \in SUBSET Callers PROVE Cardinality(S) \in Nat
  OBVIOUS
<1>1. IsFiniteSet(S)
  BY CallersAssumption, FS_Subset
<1> QED BY <1>1, FS_CardinalityType

\* The breaker starts closed, before any call (constructor).
LEMMA InitIInv == Init => IInv
<1> SUFFICES ASSUME Init PROVE IInv
  OBVIOUS
<1>1. window \in Seq({"fire", "failure"})
  BY DEF Init
<1>2. call \in [Callers -> {"idle"} \cup InFlight \cup Ended] /\ orphan \in [Ops -> Nat]
  BY DEF Init
<1>3. faults \in 0..MaxFaults
  BY BreakerBoundsAssumption DEF Init
<1>4. TypeOK
  BY <1>1, <1>2, <1>3 DEF Init, TypeOK
<1> QED BY <1>4 DEF Init, IInv, ProbeOnlyHalfOpen, OneProbe, FaultFirst

\* A call let through a half-open breaker becomes its only probe (fire).
LEMMA FireStep == ASSUME IInv, NEW c \in Callers, NEW o \in Ops, Fire(c, o) PROVE IInv'
<1>0. window' \in Seq({"fire", "failure"})
  BY DEF IInv, TypeOK, Fire
<1>1. TypeOK'
  <2>1. call' \in [Callers -> {"idle"} \cup InFlight \cup Ended] /\ probe' \subseteq Callers
    BY DEF IInv, TypeOK, Fire, InFlight, Ended
  <2>2. op' \in [Callers -> Ops] /\ pendingClose' \in BOOLEAN
    BY DEF IInv, TypeOK, Fire
  <2> QED BY <1>0, <2>1, <2>2 DEF IInv, TypeOK, Fire
<1>2. ProbeOnlyHalfOpen'
  BY DEF IInv, ProbeOnlyHalfOpen, TypeOK, Fire, LetsThrough
<1>3. OneProbe'
  BY DEF IInv, ProbeOnlyHalfOpen, OneProbe, TypeOK, Fire, LetsThrough, InFlight
<1>4. FaultFirst'
  BY DEF IInv, FaultFirst, TypeOK, Fire, LetsThrough
<1> QED BY <1>1, <1>2, <1>3, <1>4 DEF IInv

\* A success leaves no half-open breaker behind (opossum success).
LEMMA SucceedStep ==
    ASSUME IInv, NEW c \in Callers, call[c] = "waiting", Succeed(c), UNCHANGED faults
    PROVE  IInv'
<1>1. TypeOK'
  BY DEF IInv, TypeOK, Succeed, Settle, InFlight, Ended
<1>2. ProbeOnlyHalfOpen' /\ OneProbe'
  BY DEF IInv, ProbeOnlyHalfOpen, OneProbe, TypeOK, Succeed
<1>3. FaultFirst'
  BY DEF IInv, FaultFirst, TypeOK, Succeed, Settle
<1> QED BY <1>1, <1>2, <1>3 DEF IInv

\* Nor does a failure (opossum fail), which a fault precedes.
LEMMA TimeoutStep == ASSUME IInv, NEW c \in Callers, Timeout(c) PROVE IInv'
<1>1. CountFailure(c) /\ faults' = faults /\ faults > 0
  BY DEF Timeout, IInv, FaultFirst
<1>2. orphan' \in [Ops -> Nat]
  <2>1. orphan \in [Ops -> Nat] /\ op[c] \in Ops
    BY DEF IInv, TypeOK
  <2>2. orphan' \in {orphan, Orphaned(c)}
    BY DEF Timeout
  <2>3. Orphaned(c) \in [Ops -> Nat]
    BY <2>1 DEF Orphaned
  <2> QED BY <2>1, <2>2, <2>3
<1>3. window' \in Seq({"fire", "failure"})
  BY <1>1 DEF CountFailure, IInv, TypeOK
<1>4. TypeOK'
  BY <1>1, <1>2, <1>3 DEF CountFailure, Settle, IInv, TypeOK, InFlight, Ended
<1>5. ProbeOnlyHalfOpen' /\ OneProbe'
  BY <1>1 DEF CountFailure, IInv, ProbeOnlyHalfOpen, OneProbe, TypeOK
<1>6. FaultFirst'
  BY <1>1 DEF CountFailure, FaultFirst
<1> QED BY <1>4, <1>5, <1>6 DEF IInv

\* A call that goes on and does not end leaves its breaker alone.
LEMMA WaitStep ==
    ASSUME IInv, NEW c \in Callers, NEW from \in InFlight, NEW to \in InFlight,
           Wait(c, from, to),
           faults' \in 0..MaxFaults, faults' >= faults,
           to \in {"stalled", "lost"} => faults' > 0
    PROVE  IInv'
<1>1. TypeOK'
  BY DEF IInv, TypeOK, Wait, Settle, circuit, InFlight, Ended
<1>2. ProbeOnlyHalfOpen'
  BY DEF IInv, ProbeOnlyHalfOpen, Wait, circuit
<1>3. OneProbe'
  BY DEF IInv, OneProbe, TypeOK, Wait, Settle, circuit, InFlight
<1>4. FaultFirst'
  BY BreakerBoundsAssumption DEF IInv, FaultFirst, TypeOK, Wait, Settle, circuit, InFlight
<1> QED BY <1>1, <1>2, <1>3, <1>4 DEF IInv

\* The handler goes on; its call had ended (handlers after breaker.fire).
LEMMA ReturnStep == ASSUME IInv, NEW c \in Callers, Return(c) PROVE IInv'
<1>1. TypeOK'
  BY DEF IInv, TypeOK, Return, Settle, circuit, InFlight, Ended
<1>2. ProbeOnlyHalfOpen' /\ OneProbe'
  BY DEF IInv, ProbeOnlyHalfOpen, OneProbe, TypeOK, Return, Settle, circuit, InFlight, Ended
<1>3. FaultFirst'
  BY DEF IInv, FaultFirst, TypeOK, Return, Settle, circuit
<1> QED BY <1>1, <1>2, <1>3 DEF IInv

\* A new replica starts with a closed breaker (constructor).
LEMMA RestartStep == ASSUME IInv, Restart PROVE IInv'
<1>1. faults' \in 0..MaxFaults /\ faults' > 0
  BY BreakerBoundsAssumption DEF IInv, TypeOK, Restart, Fault
<1> DEFINE Left(o) == {c \in Callers : op[c] = o /\ call[c] \in {"waiting", "lost"}}
<1>2. orphan' \in [Ops -> Nat]
  <2>1. \A o \in Ops : Cardinality(Left(o)) \in Nat
    <3> SUFFICES ASSUME NEW o \in Ops PROVE Cardinality(Left(o)) \in Nat
      OBVIOUS
    <3>1. Left(o) \subseteq Callers
      OBVIOUS
    <3> QED BY <3>1, CallersCount
  <2>2. orphan \in [Ops -> Nat]
    BY DEF IInv, TypeOK
  <2>3. orphan' = [o \in Ops |-> orphan[o] + Cardinality(Left(o))]
    BY DEF Restart
  <2> HIDE DEF Left
  <2> QED BY <2>1, <2>2, <2>3
<1> HIDE DEF Left
<1>3. window' \in Seq({"fire", "failure"})
  BY DEF Restart
<1>4. TypeOK'
  BY <1>1, <1>2, <1>3 DEF IInv, TypeOK, Restart
<1>5. ProbeOnlyHalfOpen' /\ OneProbe' /\ FaultFirst'
  BY <1>1 DEF ProbeOnlyHalfOpen, OneProbe, FaultFirst, Restart
<1> QED BY <1>4, <1>5 DEF IInv

\* Every step keeps the invariant.
LEMMA Inductive == IInv /\ [Next]_vars => IInv'
<1> SUFFICES ASSUME IInv, [Next]_vars PROVE IInv'
  OBVIOUS
<1>1. ASSUME NEW c \in Callers, NEW o \in Ops, Fire(c, o) PROVE IInv'
  BY <1>1, FireStep
<1>2. ASSUME NEW c \in Callers, Progress(c) PROVE IInv'
  <2>1. CASE Publish(c)
    BY <2>1, WaitStep DEF Publish, InFlight, IInv, TypeOK
  <2>2. CASE Reply(c)
    BY <2>2, SucceedStep DEF Reply
  <2>3. CASE Timeout(c)
    BY <2>3, TimeoutStep
  <2>4. CASE Return(c)
    BY <2>4, ReturnStep
  <2> QED BY <1>2, <2>1, <2>2, <2>3, <2>4 DEF Progress
<1>3. ASSUME NEW c \in Callers, Stall(c) \/ Lose(c) PROVE IInv'
  <2>1. faults' \in 0..MaxFaults /\ faults' >= faults /\ faults' > 0
    BY <1>3, BreakerBoundsAssumption DEF Stall, Lose, Fault, IInv, TypeOK
  <2> QED BY <1>3, <2>1, WaitStep DEF Stall, Lose, InFlight
<1>4. ASSUME NEW o \in Ops, ServeOrphan(o) PROVE IInv'
  BY <1>4 DEF ServeOrphan, circuit, calls, IInv, TypeOK, ProbeOnlyHalfOpen, OneProbe, FaultFirst
<1>5. CASE HalfOpen
  BY <1>5 DEF HalfOpen, calls, IInv, TypeOK, ProbeOnlyHalfOpen, OneProbe, FaultFirst
<1>6. CASE Roll
  <2>1. window' \in Seq({"fire", "failure"})
    BY <1>6 DEF Roll, IInv, TypeOK
  <2> QED BY <1>6, <2>1
          DEF Roll, calls, IInv, TypeOK, ProbeOnlyHalfOpen, OneProbe, FaultFirst
<1>7. CASE Restart
  BY <1>7, RestartStep
<1>8. CASE UNCHANGED vars
  BY <1>8 DEF vars, circuit, calls, IInv, TypeOK, ProbeOnlyHalfOpen, OneProbe, FaultFirst
<1> QED BY <1>1, <1>2, <1>3, <1>4, <1>5, <1>6, <1>7, <1>8 DEF Next

\* The invariant holds in every behaviour of the breaker.
THEOREM Invariance == Spec => []IInv
<1> QED BY InitIInv, Inductive, PTL DEF Spec

\* Type correctness of RpcBreaker: the breaker and the calls through it.
THEOREM TypeCorrect == Spec => []TypeOK
<1>1. IInv => TypeOK
  BY DEF IInv
<1> QED BY <1>1, Invariance, PTL

\* A half-open breaker waits for its probe or has exactly one under way, with any
\* number of handlers, operations and late calls, whatever the threshold.
THEOREM SingleProbe == Spec => []OneProbe
<1>1. IInv => OneProbe
  BY DEF IInv
<1> QED BY <1>1, Invariance, PTL

\* Calls are rejected only after one was lost, however many were declined
\* (callInventory resolves with success: false).
THEOREM RejectsAfterFaults == Spec => []OnlyFaultsReject
<1>1. IInv => OnlyFaultsReject
  BY DEF IInv, FaultFirst, OnlyFaultsReject
<1> QED BY <1>1, Invariance, PTL

-----------------------------------------------------------------------------
(* What the steps are to RpcCall.                                          *)

\* What a handler sees of its call.
Seen(place) == IF place \in InFlight THEN "pending"
               ELSE IF place = "rejected" THEN "failed" ELSE place
Outcome     == [c \in Callers |-> Seen(call[c])]

\* One call moves at a time.
LEMMA OutcomeMoves ==
    ASSUME TypeOK, NEW c \in Callers, NEW place, call' = [call EXCEPT ![c] = place]
    PROVE  Outcome' = [Outcome EXCEPT ![c] = Seen(place)] /\ Outcome[c] = Seen(call[c])
<1>1. \A d \in Callers : call'[d] = IF d = c THEN place ELSE call[d]
  BY DEF TypeOK
<1>2. Outcome' = [d \in Callers |-> IF d = c THEN Seen(place) ELSE Seen(call[d])]
  BY <1>1 DEF Outcome
<1>3. [Outcome EXCEPT ![c] = Seen(place)]
        = [d \in Callers |-> IF d = c THEN Seen(place) ELSE Seen(call[d])]
  BY DEF Outcome
<1> QED BY <1>2, <1>3 DEF Outcome

\* A call begins, or is refused at once (fire).
LEMMA FireCalls == ASSUME TypeOK, NEW c \in Callers, NEW o \in Ops, Fire(c, o) PROVE Call!Next
<1>1. PICK place \in {"publishing", "rejected"} : call' = [call EXCEPT ![c] = place]
  BY DEF Fire
<1>2. Outcome' = [Outcome EXCEPT ![c] = Seen(place)] /\ Outcome[c] = "idle"
  BY <1>1, OutcomeMoves DEF Fire, Seen, InFlight
<1>3. Seen(place) \in {"pending", "failed"}
  BY DEF Seen, InFlight
<1>4. Call!Call(c, o)
  BY <1>2, <1>3 DEF Fire, Call!Call, Outcome, Seen
<1> QED BY <1>4 DEF Call!Next

\* Where the call is on its way is not seen (Publish, Stall, Lose).
LEMMA WaitStutters ==
    ASSUME TypeOK, NEW c \in Callers, NEW from \in InFlight, NEW to \in InFlight, Wait(c, from, to)
    PROVE  UNCHANGED <<Outcome, op, orphan>>
<1>1. Outcome' = [Outcome EXCEPT ![c] = Seen(to)] /\ Outcome[c] = Seen(to)
  BY OutcomeMoves DEF Wait, Settle, Seen
<1>2. Outcome' = Outcome
  BY <1>1 DEF Outcome
<1> QED BY <1>2 DEF Wait, Settle

\* A reply answers the call, a timer fails it, and the handler returns.
LEMMA ProgressCalls ==
    ASSUME TypeOK, NEW c \in Callers, Progress(c)
    PROVE  Call!Next \/ UNCHANGED <<Outcome, op, orphan>>
<1>1. CASE Publish(c)
  BY <1>1, WaitStutters DEF Publish, InFlight
<1>2. CASE Reply(c)
  <2>1. Outcome' = [Outcome EXCEPT ![c] = "answered"] /\ Outcome[c] = "pending"
    BY <1>2, OutcomeMoves DEF Reply, Succeed, Settle, Seen, InFlight
  <2>2. Call!Answer(c)
    BY <1>2, <2>1 DEF Reply, Succeed, Settle, Call!Answer, Outcome, Seen
  <2> QED BY <2>2 DEF Call!Next
<1>3. CASE Timeout(c)
  <2>1. Outcome' = [Outcome EXCEPT ![c] = "failed"] /\ Outcome[c] = "pending"
    BY <1>3, OutcomeMoves DEF Timeout, CountFailure, Settle, Seen, InFlight
  <2>2. orphan' \in {orphan, [orphan EXCEPT ![op[c]] = @ + 1]} /\ UNCHANGED op
    BY <1>3 DEF Timeout, CountFailure, Settle, Orphaned
  <2>3. Call!Fail(c)
    BY <2>1, <2>2 DEF Call!Fail, Outcome, Seen
  <2> QED BY <2>3 DEF Call!Next
<1>4. CASE Return(c)
  <2>1. Outcome' = [Outcome EXCEPT ![c] = "idle"] /\ Outcome[c] \in {"answered", "failed"}
    BY <1>4, OutcomeMoves DEF Return, Settle, Seen, InFlight, Ended
  <2>2. Call!Return(c)
    BY <1>4, <2>1 DEF Return, Settle, Call!Return, Outcome, Seen
  <2> QED BY <2>2 DEF Call!Next
<1> QED BY <1>1, <1>2, <1>3, <1>4 DEF Progress

\* A replica that dies abandons its calls (constructor of the next).
LEMMA RestartAbandons == ASSUME TypeOK, Restart PROVE Call!Next
<1> DEFINE Left(o) == {c \in Callers : op[c] = o /\ call[c] \in {"waiting", "lost"}}
           left == [o \in Ops |-> Cardinality(Left(o))]
<1>1. Outcome' = [c \in Callers |-> "idle"]
  BY DEF Restart, Outcome, Seen, InFlight
<1>2. \A o \in Ops : Cardinality(Left(o)) \in 0..Cardinality(Callers)
  <2> SUFFICES ASSUME NEW o \in Ops PROVE Cardinality(Left(o)) \in 0..Cardinality(Callers)
    OBVIOUS
  <2>1. Left(o) \subseteq Callers
    OBVIOUS
  <2>2. Cardinality(Left(o)) <= Cardinality(Callers)
    BY <2>1, CallersAssumption, FS_Subset
  <2>3. Cardinality(Left(o)) \in Nat /\ Cardinality(Callers) \in Nat
    BY <2>1, CallersCount
  <2> QED BY <2>2, <2>3
<1>3. left \in [Ops -> 0..Cardinality(Callers)]
  BY <1>2
<1>4. orphan' = [o \in Ops |-> orphan[o] + left[o]]
  BY DEF Restart
<1> HIDE DEF left
<1>5. \E some \in [Ops -> 0..Cardinality(Callers)] :
          orphan' = [o \in Ops |-> orphan[o] + some[o]]
  BY <1>3, <1>4
<1>6. Call!Cardinality(Callers) = Cardinality(Callers)
  BY DEF Call!Cardinality, Cardinality
<1>7. Call!Abandon
  BY <1>1, <1>5, <1>6 DEF Call!Abandon, Outcome, Seen, Restart
<1> QED BY <1>7 DEF Call!Next

\* Every step of the breaker is one a remote call may take, or none of it.
LEMMA StepCalls == IInv /\ [Next]_vars => Call!Next \/ UNCHANGED <<Outcome, op, orphan>>
<1> SUFFICES ASSUME TypeOK, [Next]_vars PROVE Call!Next \/ UNCHANGED <<Outcome, op, orphan>>
  BY DEF IInv
<1>1. ASSUME NEW c \in Callers, NEW o \in Ops, Fire(c, o) PROVE Call!Next
  BY <1>1, FireCalls
<1>2. ASSUME NEW c \in Callers, Progress(c)
      PROVE  Call!Next \/ UNCHANGED <<Outcome, op, orphan>>
  BY <1>2, ProgressCalls
<1>3. ASSUME NEW c \in Callers, Stall(c) \/ Lose(c) PROVE UNCHANGED <<Outcome, op, orphan>>
  BY <1>3, WaitStutters DEF Stall, Lose, InFlight
<1>4. ASSUME NEW o \in Ops, ServeOrphan(o) PROVE Call!Next
  <2>1. Outcome' = Outcome
    BY <1>4 DEF ServeOrphan, calls, Outcome
  <2>2. Call!ServeOrphan(o)
    BY <1>4, <2>1 DEF ServeOrphan, calls, Call!ServeOrphan, Outcome, Seen
  <2> QED BY <2>2 DEF Call!Next
<1>5. CASE HalfOpen \/ Roll \/ UNCHANGED vars
  BY <1>5 DEF HalfOpen, Roll, vars, calls, Outcome
<1>6. CASE Restart
  BY <1>6, RestartAbandons
<1> QED BY <1>1, <1>2, <1>3, <1>4, <1>5, <1>6 DEF Next

\* A call through the breaker is a remote call as the saga takes it to be: it
\* ends once, however its two timers, its reply and a restart race.  (That it
\* does end is liveness, which the runs check.)
THEOREM EndsOnce == Spec => Call!Init /\ [][Call!Next]_(Call!vars)
<1>1. Init => Call!Init
  BY DEF Init, Call!Init, InFlight
<1>2. IInv /\ [Next]_vars => [Call!Next]_(Call!vars)
  BY StepCalls DEF Call!vars, Outcome, Seen
<1> QED BY <1>1, <1>2, Invariance, PTL DEF Spec
=============================================================================

----------------------------- MODULE RpcBreaker -----------------------------
(***************************************************************************)
(* The remote calls of one replica through one opossum circuit breaker:    *)
(* the inventory calls of the saga handlers (SagaOrchestratorService); the *)
(* catalog calls of createOrder go the same way, with a breaker of their   *)
(* own.  The breaker is external; its options are not.                     *)
(***************************************************************************)
EXTENDS Integers, Sequences, FiniteSets

CONSTANTS
    Callers,    \* handlers of the replica that call at the same time
    Ops,        \* the operations called through the breaker
    Threshold,  \* errorThresholdPercentage
    MaxWindow,  \* bound: events in the rolling window
    MaxFaults   \* bound: lost, late and stalled calls, and restarts

ASSUME ThresholdAssumption    == Threshold \in 0..100
ASSUME CallersAssumption   == IsFiniteSet(Callers)
ASSUME BreakerBoundsAssumption == MaxWindow \in Nat \ {0} /\ MaxFaults \in Nat

InFlight == {"publishing", "stalled", "waiting", "lost"}
Ended    == {"answered", "failed", "rejected"}

VARIABLES
    breaker,      \* "closed", "open" or "halfOpen"
    pendingClose, \* half-open, and the probe has not been let through
    window,       \* the fires and failures of the last rollingCountTimeout
    call,         \* where the call of each caller is
    op,           \* the operation it calls, or called last
    probe,        \* callers let through since the breaker went half-open
    orphan,       \* requests of each operation nobody waits for any more
    failedOps,    \* history: the operations a call of which has failed
    faults        \* faults that have happened

circuit == <<breaker, pendingClose, window, probe>>
calls   == <<call, op>>
vars    == <<circuit, calls, orphan, failedOps, faults>>

Init ==
    /\ breaker = "closed" /\ pendingClose = FALSE
    /\ window = <<>> /\ probe = {}
    /\ call = [c \in Callers |-> "idle"]
    /\ op \in [Callers -> Ops]
    /\ orphan = [o \in Ops |-> 0]
    /\ failedOps = {}
    /\ faults = 0

Fault == faults < MaxFaults /\ faults' = faults + 1

Count(events, kind) == Cardinality({i \in DOMAIN events : events[i] = kind})

-----------------------------------------------------------------------------
(* The breaker (external).                                                 *)

\* Mutation: a half-open breaker lets every call through.
LetsThroughAll == breaker # "open"

\* A half-open breaker lets the first call through.
LetsThrough == breaker = "closed" \/ pendingClose

\* fire: the call is made or rejected, and counted either way.
Fire(c, o) ==
    /\ call[c] = "idle" /\ Len(window) < MaxWindow
    /\ op' = [op EXCEPT ![c] = o]
    /\ window' = Append(window, "fire")
    /\ \/ /\ LetsThrough
          /\ call' = [call EXCEPT ![c] = "publishing"]
          /\ probe' = IF breaker = "halfOpen" THEN probe \cup {c} ELSE probe
          /\ pendingClose' = FALSE
       \/ /\ ~LetsThrough
          /\ call' = [call EXCEPT ![c] = "rejected"]
          /\ UNCHANGED <<probe, pendingClose>>
    /\ UNCHANGED <<breaker, orphan, failedOps, faults>>

Settle(c, end) == call' = [call EXCEPT ![c] = end] /\ UNCHANGED op

\* A call succeeds: a half-open breaker closes, whichever call it was.
Succeed(c) ==
    /\ Settle(c, "answered")
    /\ breaker' = IF breaker = "halfOpen" THEN "closed" ELSE breaker
    /\ probe' = IF breaker = "halfOpen" THEN {} ELSE probe \ {c}
    /\ pendingClose' = IF breaker = "halfOpen" THEN FALSE ELSE pendingClose
    /\ UNCHANGED <<window, orphan, failedOps>>

\* volumeThreshold is not set: one failure may be more than the threshold.
TooMany(events) == 100 * Count(events, "failure") > Threshold * Count(events, "fire")

\* A call fails: a half-open breaker opens again, whichever call it was.
CountFailure(c) ==
    /\ Settle(c, "failed")
    /\ window' = Append(window, "failure")
    /\ failedOps' = failedOps \cup {op[c]}
    /\ \/ /\ breaker = "halfOpen" \/ TooMany(window')
          /\ breaker' = "open" /\ pendingClose' = FALSE /\ probe' = {}
       \/ /\ breaker # "halfOpen" /\ ~TooMany(window')
          /\ probe' = probe \ {c}
          /\ UNCHANGED <<breaker, pendingClose>>

\* Mutation: an open breaker waits until nothing has been fired for a while.
HalfOpenWhenQuiet ==
    /\ breaker = "open" /\ window = <<>>
    /\ breaker' = "halfOpen" /\ pendingClose' = TRUE
    /\ UNCHANGED <<window, probe, calls, orphan, failedOps, faults>>

\* resetTimeout is over.
HalfOpen ==
    /\ breaker = "open"
    /\ breaker' = "halfOpen" /\ pendingClose' = TRUE
    /\ UNCHANGED <<window, probe, calls, orphan, failedOps, faults>>

\* rollingCountTimeout is over for the oldest event.
Roll ==
    /\ window # <<>>
    /\ window' = Tail(window)
    /\ UNCHANGED <<breaker, pendingClose, probe, calls, orphan, failedOps, faults>>

-----------------------------------------------------------------------------
(* The call: amqpConnection.request.                                       *)

Wait(c, from, to) ==
    /\ call[c] = from /\ Settle(c, to)
    /\ UNCHANGED <<circuit, orphan, failedOps>>

Publish(c) == Wait(c, "publishing", "waiting") /\ UNCHANGED faults

\* RabbitMQ cannot be reached: the client keeps the request and waits.
Stall(c) == Wait(c, "publishing", "stalled") /\ Fault

\* The service dies, or is too late: the answer will not be there in time.
Lose(c) == Wait(c, "waiting", "lost") /\ Fault

\* Mutation: a declined request counts as a failure of the service.
ReplyChecked(c) ==
    /\ call[c] = "waiting"
    /\ Succeed(c) \/ (CountFailure(c) /\ UNCHANGED orphan)
    /\ UNCHANGED faults

\* Mutation: the reply to a call that was given up is taken.
ReplyLate(c) == call[c] \in {"waiting", "failed"} /\ Succeed(c) /\ UNCHANGED faults

\* The reply arrives; success: false is an answer like any other.
Reply(c) == call[c] = "waiting" /\ Succeed(c) /\ UNCHANGED faults

Orphaned(c) == [orphan EXCEPT ![op[c]] = @ + 1]

\* The timer of the RPC fires, the request may still be in the queue; or, when
\* it was never published, the timer of the breaker (a second longer), and the
\* request is published on reconnection.
Timeout(c) ==
    /\ \/ call[c] = "lost" /\ orphan' \in {orphan, Orphaned(c)}
       \/ call[c] = "stalled" /\ orphan' = Orphaned(c)
    /\ CountFailure(c) /\ UNCHANGED faults

\* Mutation: the handler does not await the call.
ReturnUnawaited(c) ==
    /\ \/ call[c] \in Ended /\ UNCHANGED orphan
       \/ call[c] = "waiting" /\ orphan' = Orphaned(c)
    /\ Settle(c, "idle")
    /\ UNCHANGED <<circuit, failedOps, faults>>

\* The handler goes on with the answer or the error.
Return(c) ==
    /\ call[c] \in Ended /\ Settle(c, "idle")
    /\ UNCHANGED <<circuit, orphan, failedOps, faults>>

\* A request whose caller gave up has no expiration: it is executed.
ServeOrphan(o) ==
    /\ orphan[o] > 0
    /\ orphan' = [orphan EXCEPT ![o] = @ - 1]
    /\ UNCHANGED <<circuit, calls, failedOps, faults>>

\* The replica dies: its breaker starts closed, the requests it sent remain.
Restart ==
    /\ Fault
    /\ breaker' = "closed" /\ pendingClose' = FALSE /\ window' = <<>> /\ probe' = {}
    /\ call' = [c \in Callers |-> "idle"]
    /\ orphan' = [o \in Ops |-> orphan[o] + Cardinality(
                      {c \in Callers : op[c] = o /\ call[c] \in {"waiting", "lost"}})]
    /\ UNCHANGED <<op, failedOps>>

-----------------------------------------------------------------------------
Progress(c) == Publish(c) \/ Reply(c) \/ Timeout(c) \/ Return(c)

Next ==
    \/ \E c \in Callers, o \in Ops : Fire(c, o)
    \/ \E c \in Callers : Progress(c) \/ Stall(c) \/ Lose(c)
    \/ \E o \in Ops : ServeOrphan(o)
    \/ HalfOpen \/ Roll \/ Restart

\* Timers fire, the service answers what it does not lose, and there is always
\* another order to handle.
Fairness == /\ \A c \in Callers : WF_vars(Progress(c)) /\ WF_vars(\E o \in Ops : Fire(c, o))
            /\ WF_vars(HalfOpen) /\ WF_vars(Roll)

Spec == Init /\ [][Next]_vars /\ Fairness

-----------------------------------------------------------------------------
(* Properties.                                                             *)

\* The types of the variables; and a request has outlived its caller only after a
\* fault, because every handler awaits what it has fired.
TypeOK ==
    /\ breaker \in {"closed", "open", "halfOpen"}
    /\ pendingClose \in BOOLEAN
    /\ window \in Seq({"fire", "failure"})
    /\ call \in [Callers -> {"idle"} \cup InFlight \cup Ended]
    /\ op \in [Callers -> Ops]
    /\ probe \subseteq Callers
    /\ orphan \in [Ops -> Nat]
    /\ \A o \in Ops : orphan[o] > 0 => faults > 0
    /\ failedOps \subseteq Ops
    /\ faults \in 0..MaxFaults

\* A half-open breaker waits for its probe or has exactly one under way, however
\* late the calls made before it opened end: it never rejects for ever, and never
\* lets the load back in at once.
OneProbe ==
    breaker = "halfOpen" =>
        \/ pendingClose /\ probe = {}
        \/ ~pendingClose /\ \E c \in Callers : probe = {c} /\ call[c] \in InFlight

\* Orders that inventory declines, however many, do not keep other orders from
\* being handled: calls are rejected only after one was lost (callInventory
\* resolves with success: false).
OnlyFaultsReject ==
    breaker # "closed" \/ (\E c \in Callers : call[c] = "rejected") => faults > 0

\* A call through the breaker is what OrderSaga takes it for: it ends once, with
\* an answer or an error, and always does; only its request may outlive it.
Call == INSTANCE RpcCall WITH
    outcome <- [c \in Callers |-> IF call[c] \in InFlight THEN "pending"
                                  ELSE IF call[c] = "rejected" THEN "failed" ELSE call[c]]
ImplementsCall == Call!Spec

\* The breaker closes for good once calls are no longer lost ("rejects instantly
\* until inventory-service recovers").
BreakerRecovers == <>[](breaker = "closed")

\* An operation is not rejected because of the failures of another ("one breaker
\* per inventory RPC operation").
OwnBreaker == \A c \in Callers : call[c] = "rejected" => op[c] \in failedOps
=============================================================================

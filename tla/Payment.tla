------------------------------ MODULE Payment ------------------------------
(***************************************************************************)
(* payment-service: the consumers of payment.requested, run by several     *)
(* replicas, and the retry queues they publish to.  Every copy of a        *)
(* message is followed from its publication to its acknowledgement; an     *)
(* acknowledged copy is free and stands for a new one later.               *)
(***************************************************************************)
EXTENDS Integers, Sequences

CONSTANTS
    Orders,      \* order ids
    Copies,      \* bound: copies of payment.requested alive at one time
    MaxRequests, \* bound: requests order-service publishes for one order
    Limits,      \* the values of MAX_RETRIES considered; a build has one of them
    MaxCounted,  \* bound: retries of one request that are counted
    NoMessage    \* what a free copy carries

Outcomes == {"SUCCESS", "FAILED"}
InHand   == {"gateway", "retry", "save", "announce", "exhausted", "ack"}
Places   == {"free", "queued", "delayed"} \cup InHand
Message  == [order : Orders, deaths : Nat, retries : Nat]
Result   == [order : Orders, status : Outcomes]

ASSUME BoundsAssumption    == MaxRequests \in Nat /\ MaxCounted \in Nat /\ Limits \subseteq Nat
ASSUME NoMessageAssumption == NoMessage \notin Message

VARIABLES
    requested,  \* requests published for each order
    at,         \* the queue, or the step of the handler, each copy is at
    msg,        \* each copy's event, its x-death[0].count, its retries so far
    outcome,    \* what the handler of each copy will report, or "none"
    payments,   \* the statuses of the rows of each order in `payments`
    deadLetter, \* the orders in payment.requested-queue.dlq
    results,    \* the payment.succeeded and payment.failed events published
    charged,    \* charges of each order at the gateway: 0, 1, or 2 for more
    overlapped, \* history: orders two copies of which were processed at once
    faulted,    \* history: orders whose processing a fault has hit
    maxRetries  \* MAX_RETRIES of this build

service == <<requested, at, msg, outcome, payments, deadLetter, results>>
history == <<charged, overlapped, faulted, maxRetries>>
vars    == <<service, history>>

Init ==
    /\ requested = [o \in Orders |-> 0]
    /\ at = [c \in Copies |-> "free"]
    /\ msg = [c \in Copies |-> NoMessage]
    /\ outcome = [c \in Copies |-> "none"]
    /\ payments = [o \in Orders |-> <<>>]
    /\ deadLetter = {}
    /\ results = {}
    /\ charged = [o \in Orders |-> 0]
    /\ overlapped = {}
    /\ faulted = {}
    /\ maxRetries \in Limits

-----------------------------------------------------------------------------
Order(c) == msg[c].order

NewMessage(o, retries) == [order |-> o, deaths |-> 0, retries |-> retries]

Count(retries) == IF retries > MaxCounted THEN MaxCounted ELSE retries

\* The handler of c goes on to its next step and does nothing else.
Step(c, place) ==
    /\ at' = [at EXCEPT ![c] = place]
    /\ UNCHANGED <<requested, msg, outcome, payments, deadLetter, results>>

\* The handler of c, which knows what to report, goes on to its next step.
Decide(c, status, place) ==
    /\ at' = [at EXCEPT ![c] = place]
    /\ outcome' = [outcome EXCEPT ![c] = status]
    /\ UNCHANGED <<requested, msg>>

\* order-service publishes payment.requested (external to this service).
Request(o) ==
    /\ requested[o] < MaxRequests
    /\ requested' = [requested EXCEPT ![o] = @ + 1]
    /\ \E c \in Copies :
          /\ at[c] = "free"
          /\ at' = [at EXCEPT ![c] = "queued"]
          /\ msg' = [msg EXCEPT ![c] = NewMessage(o, 0)]
    /\ UNCHANGED <<outcome, payments, deadLetter, results>>

\* Mutation: the request is processed without a lookup.
LookupSkipped(c) ==
    /\ at[c] = "queued"
    /\ Step(c, IF msg[c].deaths >= maxRetries THEN "exhausted" ELSE "gateway")

\* An order that has a payment is skipped, a message that died too often is
\* not tried again.
Lookup(c) ==
    /\ at[c] = "queued"
    /\ \/ payments[Order(c)] # <<>> /\ Step(c, "ack")
       \/ /\ payments[Order(c)] = <<>>
          /\ Step(c, IF msg[c].deaths >= maxRetries THEN "exhausted" ELSE "gateway")

\* The event is copied to the DLQ; the payment will be reported as failed.
GiveUp(c) ==
    /\ at[c] = "exhausted"
    /\ deadLetter' = deadLetter \cup {Order(c)}
    /\ Decide(c, "FAILED", "announce")
    /\ UNCHANGED <<payments, results>>

\* Mutation: the result is published before the payment is saved.
GatewayAnswersEarly(c) ==
    /\ at[c] = "gateway"
    /\ \E status \in Outcomes :
          /\ results' = results \cup {[order |-> Order(c), status |-> status]}
          /\ Decide(c, status, "save")
    /\ UNCHANGED <<payments, deadLetter>>

GatewayAnswers(c) ==
    /\ at[c] = "gateway"
    /\ \E status \in Outcomes : Decide(c, status, "save")
    /\ UNCHANGED <<payments, deadLetter, results>>

\* A transient failure, a timeout, or the rejection of the open breaker.
GatewayFails(c) == at[c] = "gateway" /\ Step(c, "retry")

\* Mutation: the catch block does not return once the retry is published.
RetryLaterFallsThrough(c) ==
    /\ at[c] = "retry"
    /\ \E d \in Copies :
          /\ at[d] = "free"
          /\ at' = [at EXCEPT ![c] = "save", ![d] = "delayed"]
          /\ msg' = [msg EXCEPT ![d] = NewMessage(Order(c), Count(msg[c].retries + 1))]
    /\ UNCHANGED <<requested, outcome, payments, deadLetter, results>>

\* The event is published anew, without headers, to a retry queue.
RetryLater(c) ==
    /\ at[c] = "retry"
    /\ \E d \in Copies :
          /\ at[d] = "free"
          /\ at' = [at EXCEPT ![c] = "ack", ![d] = "delayed"]
          /\ msg' = [msg EXCEPT ![d] = NewMessage(Order(c), Count(msg[c].retries + 1))]
    /\ UNCHANGED <<requested, outcome, payments, deadLetter, results>>

\* Mutation: the retry queues have no dead-letter exchange.
ExpireLost(c) ==
    /\ at[c] = "delayed"
    /\ at' = [at EXCEPT ![c] = "free"]
    /\ msg' = [msg EXCEPT ![c] = NoMessage]
    /\ UNCHANGED <<requested, outcome, payments, deadLetter, results>>

\* The broker moves an expired message to the main queue and counts its death.
Expire(c) ==
    /\ at[c] = "delayed"
    /\ at' = [at EXCEPT ![c] = "queued"]
    /\ msg' = [msg EXCEPT ![c].deaths = @ + 1]
    /\ UNCHANGED <<requested, outcome, payments, deadLetter, results>>

\* Mutation: a payment that cannot be saved is tried again.
SaveOrRetry(c) ==
    /\ at[c] = "save"
    /\ \/ /\ payments' = [payments EXCEPT ![Order(c)] = Append(@, outcome[c])]
          /\ Decide(c, outcome[c], "announce")
       \/ Decide(c, "none", "retry") /\ UNCHANGED payments
    /\ UNCHANGED <<deadLetter, results>>

\* Nothing in the table keeps an order to one row.
Save(c) ==
    /\ at[c] = "save"
    /\ payments' = [payments EXCEPT ![Order(c)] = Append(@, outcome[c])]
    /\ Decide(c, outcome[c], "announce")
    /\ UNCHANGED <<deadLetter, results>>

PublishResult(c) ==
    /\ at[c] = "announce"
    /\ results' = results \cup {[order |-> Order(c), status |-> outcome[c]]}
    /\ Decide(c, "none", "ack")
    /\ UNCHANGED <<payments, deadLetter>>

Ack(c) ==
    /\ at[c] = "ack"
    /\ at' = [at EXCEPT ![c] = "free"]
    /\ msg' = [msg EXCEPT ![c] = NoMessage]
    /\ UNCHANGED <<requested, outcome, payments, deadLetter, results>>

-----------------------------------------------------------------------------
(* Faults.                                                                 *)

\* publishResult logs a failed publish and returns.
PublishSwallowed(c) ==
    /\ at[c] = "announce"
    /\ Decide(c, "none", "ack")
    /\ UNCHANGED <<payments, deadLetter, results>>

\* The replica dies, or an error the handler does not catch ends in a requeue:
\* the broker delivers the copy again, with the headers it had.
Redeliver(c) ==
    /\ at[c] \in InHand
    /\ Decide(c, "none", "queued")
    /\ UNCHANGED <<payments, deadLetter, results>>

\* Such an error (of findOne, save, a publish to the DLQ or to a retry queue)
\* is swallowed by the framework, which acknowledges the copy.
ErrorSwallowed(c) ==
    /\ at[c] \in {"queued", "retry", "save", "exhausted"}
    /\ Decide(c, "none", "ack")
    /\ UNCHANGED <<payments, deadLetter, results>>

-----------------------------------------------------------------------------
(* The history of an order: its charges, and what it went through.         *)

ChargeOnce(n) == IF n < 2 THEN n + 1 ELSE n

\* The gateway has charged the order of c, or it was declined.
Charge(c) ==
    /\ charged' = IF outcome'[c] = "SUCCESS"
                  THEN [charged EXCEPT ![Order(c)] = ChargeOnce(@)] ELSE charged
    /\ UNCHANGED <<overlapped, faulted, maxRetries>>

\* c is taken up; another copy of its order may be in hand.
TakeUp(c) ==
    /\ overlapped' = overlapped \cup
           {Order(d) : d \in {x \in Copies : at[x] \in InHand /\ Order(x) = Order(c)}}
    /\ UNCHANGED <<charged, faulted, maxRetries>>

Mark(c) == faulted' = faulted \cup {Order(c)} /\ UNCHANGED <<overlapped, maxRetries>>

\* The breaker's timer fires before the gateway has answered, which charges the
\* order all the same.
TimeoutCharged(c) ==
    /\ at[c] = "gateway" /\ Step(c, "retry")
    /\ charged' = [charged EXCEPT ![Order(c)] = ChargeOnce(@)]
    /\ Mark(c)

-----------------------------------------------------------------------------
Proceed(c) == \/ GiveUp(c) \/ GatewayFails(c) \/ RetryLater(c)
              \/ Expire(c) \/ Save(c) \/ PublishResult(c) \/ Ack(c)

Handle(c) == \/ Lookup(c) /\ TakeUp(c)
             \/ GatewayAnswers(c) /\ Charge(c)
             \/ Proceed(c) /\ UNCHANGED history

Fault(c) == PublishSwallowed(c) \/ Redeliver(c) \/ ErrorSwallowed(c)

\* Every request was dealt with: the service waits for more.
Idle == /\ \A c \in Copies : at[c] = "free"
        /\ \A o \in Orders : requested[o] = MaxRequests
        /\ UNCHANGED vars

Next == \/ \E o \in Orders : Request(o) /\ UNCHANGED history
        \/ \E c \in Copies : Handle(c)
        \/ \E c \in Copies : Fault(c) /\ Mark(c) /\ UNCHANGED charged
        \/ \E c \in Copies : TimeoutCharged(c)
        \/ Idle

\* The broker expires and delivers what it holds, a replica ends what it starts,
\* and the gateway does not fail for ever.
Fairness == \A c \in Copies : /\ WF_vars(Handle(c))
                              /\ SF_vars(GatewayAnswers(c) /\ Charge(c))

Spec == Init /\ [][Next]_vars /\ Fairness

-----------------------------------------------------------------------------
(* Properties.                                                             *)

Statuses(o) == {payments[o][i] : i \in DOMAIN payments[o]}

ServiceTypeOK ==
    /\ requested \in [Orders -> 0..MaxRequests]
    /\ at \in [Copies -> Places]
    /\ msg \in [Copies -> Message \cup {NoMessage}]
    /\ outcome \in [Copies -> Outcomes \cup {"none"}]
    /\ payments \in [Orders -> Seq(Outcomes)]
    /\ deadLetter \subseteq Orders
    /\ results \subseteq Result
    /\ \A c \in Copies : at[c] = "free" <=> msg[c] = NoMessage
    /\ \A c \in Copies : at[c] \in {"save", "announce"} <=> outcome[c] # "none"

TypeOK ==
    /\ ServiceTypeOK
    /\ charged \in [Orders -> 0..2]
    /\ overlapped \subseteq Orders
    /\ faulted \subseteq Orders
    /\ maxRetries \in Limits

\* A published result is the outcome of a recorded payment, or the failure of a
\* dead-lettered one, wherever handlers crash and however often copies of the
\* request are delivered (the order of save and publishResult).
ResultsAreBacked ==
    \A res \in results :
        \/ res.status \in Statuses(res.order)
        \/ res.status = "FAILED" /\ res.order \in deadLetter

\* An order is paid once although its request is redelivered after a crash at
\* any step, duplicated and retried, unless two copies of it are processed at
\* the same time (the lookup of an existing payment).
AtMostOnePayment == \A o \in Orders \ overlapped : Len(payments[o]) <= 1

\* The gateway charges an order once, through any number of transient failures,
\* unless a fault loses an attempt between the charge and its row, or two copies
\* are processed at the same time (only a failed call is retried).
ChargedOnce == \A o \in Orders \ (overlapped \cup faulted) : charged[o] <= 1

\* A redelivered request never makes a second payment ("skip reprocessing instead
\* of double-charging").
NoDoublePayment == \A o \in Orders : Len(payments[o]) <= 1

\* MAX_RETRIES bounds the retries of a request.
RetriesBounded ==
    \A c \in Copies : at[c] # "free" => msg[c].retries <= maxRetries

\* Once no copy of an order's request is left, its payment was reported.
PaymentsAreReported ==
    \A o \in Orders :
        payments[o] # <<>> /\ (\A c \in Copies : at[c] # "free" => Order(c) # o) =>
            \E res \in results : res.order = o

\* Every requested payment is eventually reported, through any number of
\* transient failures, whether or not MAX_RETRIES is such that the DLQ ends them,
\* as long as no fault happens (the retry queues dead-letter back to the main queue).
EveryRequestReported ==
    \A o \in Orders :
        requested[o] > 0 ~> faulted # {} \/ \E res \in results : res.order = o
=============================================================================

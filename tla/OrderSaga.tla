----------------------------- MODULE OrderSaga -----------------------------
(***************************************************************************)
(* The "create order" saga across the services: order-service creates the  *)
(* order and relays order.created, its saga handlers call inventory by RPC *)
(* and change the status, payment-service charges, notification-service is *)
(* told of the outcome.  Each handler is followed await by await.  An      *)
(* inventory operation is its lookup of the reservation and then, apart    *)
(* from it, its transaction (Inventory has the statements of that); a      *)
(* payment attempt is atomic, with its retries (Payment has those).        *)
(***************************************************************************)
EXTENDS Integers

CONSTANTS
    Orders,     \* order ids
    Workers,    \* consumer slots of the saga handlers, over all replicas
    Payers,     \* consumer slots of payment-service, over all replicas
    Units,      \* units of the product each order asks for
    Stock,      \* units of the product on hand at the start
    MaxFaults,  \* bound: failures, crashes and duplicates that happen
    None        \* a slot that holds no message

ASSUME UnitsAssumption  == Units \in [Orders -> Nat \ {0}] /\ Stock \in Nat
ASSUME FaultsAssumption == MaxFaults \in Nat

SagaKinds == {"order.created", "payment.succeeded", "payment.failed"}
Kinds     == SagaKinds \cup {"payment.requested"}
Ops       == {"reserve", "confirm", "release"}
Stages    == {"call", "commit"}
Terminal  == {"COMPLETED", "CANCELLED"}
Statuses  == {"NONE", "PENDING", "INVENTORY_RESERVED"} \cup Terminal
Bookings  == {"NONE", "RESERVED", "CONFIRMED", "RELEASED"}
Outcomes  == {"SUCCESS", "FAILED"}
Answers   == {"none", "success", "failure"}

Job == [kind : SagaKinds, order : Orders, answer : Answers,
        step : Stages \cup {"wait", "status", "notify", "publish", "ack"}]
Charge == [order : Orders, outcome : Outcomes \cup {"none"}]

ASSUME SlotAssumption == None \notin Job \cup Charge

VARIABLES
    order,        \* status of each order, "NONE" before it is created
    relayed,      \* orders whose outbox event the relay has published
    queue,        \* messages of each kind waiting for each order
    job,          \* the message a saga handler works on, and where it is
    orphan,       \* RPC requests nobody waits for any more, by their stage
    reservation,  \* inventory's reservation of each order
    free,         \* availableQuantity - reservedQuantity of the product
    charge,       \* the request a consumer of payment-service works on
    payments,     \* the statuses in each order's rows of `payments`
    events,       \* order.status-changed events waiting for notification-service
    notified,     \* what the customer of each order was told
    faults        \* faults that have happened

inventory == <<reservation, free>>
billing   == <<charge, payments>>
customer  == <<events, notified>>
vars == <<order, relayed, queue, job, orphan, inventory, billing, customer, faults>>

Init ==
    /\ order = [o \in Orders |-> "NONE"]
    /\ relayed = {}
    /\ queue = [k \in Kinds |-> [o \in Orders |-> 0]]
    /\ job = [w \in Workers |-> None]
    /\ orphan = [request \in Ops \X Stages |-> [o \in Orders |-> 0]]
    /\ reservation = [o \in Orders |-> "NONE"]
    /\ free = Stock
    /\ charge = [p \in Payers |-> None]
    /\ payments = [o \in Orders |-> {}]
    /\ events = [o \in Orders |-> {}]
    /\ notified = [o \in Orders |-> {}]
    /\ faults = 0

Put(kind, o) == queue' = [queue EXCEPT ![kind][o] = @ + 1]

Get(kind, o) == /\ queue[kind][o] > 0
                /\ queue' = [queue EXCEPT ![kind][o] = @ - 1]

Fault == faults < MaxFaults /\ faults' = faults + 1

-----------------------------------------------------------------------------
(* order-service: the order, its outbox event, the relay.                  *)

Create(o) ==
    /\ order[o] = "NONE"
    /\ order' = [order EXCEPT ![o] = "PENDING"]
    /\ UNCHANGED <<relayed, queue, job, orphan, inventory, billing, customer, faults>>

Relay(o) ==
    /\ order[o] # "NONE" /\ o \notin relayed
    /\ relayed' = relayed \cup {o}
    /\ Put("order.created", o)
    /\ UNCHANGED <<order, job, orphan, inventory, billing, customer, faults>>

\* The relay died before its Kafka offset was committed.
RelayAgain(o) ==
    /\ o \in relayed /\ Fault
    /\ Put("order.created", o)
    /\ UNCHANGED <<order, relayed, job, orphan, inventory, billing, customer>>

-----------------------------------------------------------------------------
(* inventory-service: the lookup of the reservation, then the transaction. *)

OpOf(kind) == CASE kind = "order.created"     -> "reserve"
                [] kind = "payment.succeeded" -> "confirm"
                [] kind = "payment.failed"    -> "release"

\* The reservations on which the operation opens its transaction.
Transacts(op) == CASE op = "reserve" -> {"NONE"}
                   [] op = "confirm" -> {"RESERVED", "RELEASED"}
                   [] op = "release" -> {"RESERVED"}

\* What the lookup answers on the others.
LookupAnswer(op, booking) ==
    IF <<op, booking>> \in {<<"reserve", "RELEASED">>, <<"confirm", "NONE">>}
    THEN "failure" ELSE "success"

Book(o, booking, units) ==
    /\ reservation' = [reservation EXCEPT ![o] = booking]
    /\ free' = free + units

\* An order that got a reservation since the lookup is refused by the unique
\* constraint on orderId.
Reserve(o, answer) ==
    \/ /\ reservation[o] = "NONE" /\ free >= Units[o] /\ answer = "success"
       /\ Book(o, "RESERVED", -Units[o])
    \/ /\ reservation[o] # "NONE" \/ free < Units[o]
       /\ answer = "failure" /\ UNCHANGED inventory

\* The units leave both columns, and the row that was read is saved over
\* whatever was committed since.
Confirm(o, answer) == answer = "success" /\ Book(o, "CONFIRMED", 0)

Release(o, answer) == answer = "success" /\ Book(o, "RELEASED", Units[o])

Transact(op, o, answer) == \/ op = "reserve" /\ Reserve(o, answer)
                           \/ op = "confirm" /\ Confirm(o, answer)
                           \/ op = "release" /\ Release(o, answer)

-----------------------------------------------------------------------------
(* The saga handlers.                                                      *)

At(w, step) == job[w] # None /\ job[w].step = step

Goto(w, step) == job' = [job EXCEPT ![w].step = step]

\* A handler starts: it publishes the RPC request and awaits the answer.
Start(w) ==
    /\ job[w] = None
    /\ \E kind \in SagaKinds, o \in Orders :
          /\ Get(kind, o)
          /\ job' = [job EXCEPT ![w] = [kind |-> kind, order |-> o,
                                        answer |-> "none", step |-> "call"]]
    /\ UNCHANGED <<order, relayed, orphan, inventory, billing, customer, faults>>

Resume(w, answer, step) ==
    job' = [job EXCEPT ![w].answer = answer, ![w].step = step]

\* Mutation: a confirmation that failed completes the order.
AnswerUnchecked(w, answer) == Resume(w, answer, "status")

\* Mutation: the order is not marked INVENTORY_RESERVED.
AnswerUnmarked(w, answer) ==
    Resume(w, answer,
           IF job[w].kind = "payment.succeeded" /\ answer = "failure" THEN "ack"
           ELSE IF job[w].kind = "order.created" /\ answer = "success" THEN "publish"
           ELSE "status")

\* What the handler does with the answer: a confirmation that failed is left.
Answer(w, answer) ==
    Resume(w, answer,
           IF job[w].kind = "payment.succeeded" /\ answer = "failure"
           THEN "ack" ELSE "status")

\* inventory-service looks the reservation up: it goes on to the transaction, or
\* answers at once.
ServeLookup(w) ==
    LET op == OpOf(job[w].kind)
        booking == reservation[job[w].order]
    IN  /\ At(w, "call")
        /\ \/ booking \in Transacts(op) /\ Goto(w, "commit")
           \/ booking \notin Transacts(op) /\ Answer(w, LookupAnswer(op, booking))
        /\ UNCHANGED <<order, relayed, queue, orphan, inventory, billing, customer, faults>>

\* The transaction commits, or rolls back, and the reply arrives.
ServeCommit(w) ==
    /\ At(w, "commit")
    /\ \E answer \in Answers :
          Transact(OpOf(job[w].kind), job[w].order, answer) /\ Answer(w, answer)
    /\ UNCHANGED <<order, relayed, queue, orphan, billing, customer, faults>>

\* The lookup and the transaction of a request whose caller no longer waits.
OrphanLookup(op, o) ==
    /\ orphan[<<op, "call">>][o] > 0
    /\ LET left == [orphan EXCEPT ![<<op, "call">>][o] = @ - 1]
       IN  orphan' = IF reservation[o] \in Transacts(op)
                     THEN [left EXCEPT ![<<op, "commit">>][o] = @ + 1] ELSE left
    /\ UNCHANGED <<order, relayed, queue, job, inventory, billing, customer, faults>>

OrphanCommit(op, o) ==
    /\ orphan[<<op, "commit">>][o] > 0
    /\ orphan' = [orphan EXCEPT ![<<op, "commit">>][o] = @ - 1]
    /\ \E answer \in Answers : Transact(op, o, answer)
    /\ UNCHANGED <<order, relayed, queue, job, billing, customer, faults>>

Serving(w) == \E stage \in Stages : At(w, stage)

\* inventory-service answers internal_error.
ServeError(w) ==
    /\ Serving(w) /\ Fault
    /\ Answer(w, "failure")
    /\ UNCHANGED <<order, relayed, queue, orphan, inventory, billing, customer>>

\* inventory-service dies before or after its commit: the request goes to the
\* DLQ and is never answered.
ServeCrash(w) ==
    /\ Serving(w) /\ Fault
    /\ \/ UNCHANGED inventory
       \/ /\ At(w, "commit")
          /\ \E answer \in Answers : Transact(OpOf(job[w].kind), job[w].order, answer)
    /\ Goto(w, "wait")
    /\ UNCHANGED <<order, relayed, queue, orphan, billing, customer>>

\* The unanswered call times out.
TimeoutLost(w) ==
    /\ At(w, "wait")
    /\ Answer(w, "failure")
    /\ UNCHANGED <<order, relayed, queue, orphan, inventory, billing, customer, faults>>

\* The request, at the stage it has reached, is left to itself.
Orphan(w) == [orphan EXCEPT ![<<OpOf(job[w].kind), job[w].step>>][job[w].order] = @ + 1]

\* A request that is executed stays; one at "call" may not have been sent.
Abandon(w) == orphan' \in CASE At(w, "call")   -> {orphan, Orphan(w)}
                            [] At(w, "commit") -> {Orphan(w)}
                            [] OTHER           -> {orphan}

\* The call is rejected by the open breaker, or it times out while the request
\* waits to be executed or is executed.
CallFails(w) ==
    /\ Serving(w) /\ Fault
    /\ Answer(w, "failure")
    /\ Abandon(w)
    /\ UNCHANGED <<order, relayed, queue, inventory, billing, customer>>

\* Mutation: the answer of `reserve` is not looked at.
TargetUnchecked(j) == CASE j.kind = "payment.succeeded" -> "COMPLETED"
                        [] j.kind = "payment.failed"    -> "CANCELLED"
                        [] j.kind = "order.created"     -> "INVENTORY_RESERVED"

\* Mutation: the order takes the status of its payment.
TargetOfPayment(j) == CASE j.kind = "payment.succeeded" -> "SUCCESS"
                        [] j.kind = "payment.failed"    -> "FAILED"
                        [] j.kind = "order.created"     ->
                               IF j.answer = "success" THEN "INVENTORY_RESERVED" ELSE "CANCELLED"

\* The status a handler sets.
Target(j) == CASE j.kind = "payment.succeeded" -> "COMPLETED"
               [] j.kind = "payment.failed"    -> "CANCELLED"
               [] j.kind = "order.created"     ->
                      IF j.answer = "success" THEN "INVENTORY_RESERVED" ELSE "CANCELLED"

\* Mutation: only a COMPLETED order is notified.
SetStatusQuietly(w) ==
    /\ At(w, "status")
    /\ order' = [order EXCEPT ![job[w].order] = Target(job[w])]
    /\ Goto(w, CASE Target(job[w]) = "COMPLETED" -> "notify"
                [] Target(job[w]) = "CANCELLED" -> "ack"
                [] OTHER -> "publish")
    /\ UNCHANGED <<relayed, queue, orphan, inventory, billing, customer, faults>>

SetStatus(w) ==
    /\ At(w, "status")
    /\ order' = [order EXCEPT ![job[w].order] = Target(job[w])]
    /\ Goto(w, IF Target(job[w]) \in Terminal THEN "notify" ELSE "publish")
    /\ UNCHANGED <<relayed, queue, orphan, inventory, billing, customer, faults>>

\* A failed update is logged; payment is requested all the same.
SetStatusFails(w) ==
    /\ At(w, "status") /\ Fault
    /\ Goto(w, IF Target(job[w]) \in Terminal THEN "ack" ELSE "publish")
    /\ UNCHANGED <<order, relayed, queue, orphan, inventory, billing, customer>>

Notify(w) ==
    /\ At(w, "notify")
    /\ events' = [events EXCEPT ![job[w].order] = @ \cup {Target(job[w])}]
    /\ Goto(w, "ack")
    /\ UNCHANGED <<order, relayed, queue, orphan, inventory, billing, notified, faults>>

RequestPayment(w) ==
    /\ At(w, "publish")
    /\ Put("payment.requested", job[w].order)
    /\ Goto(w, "ack")
    /\ UNCHANGED <<order, relayed, orphan, inventory, billing, customer, faults>>

\* A failed publish, of either event, is logged.
PublishFails(w) ==
    /\ At(w, "notify") \/ At(w, "publish")
    /\ Fault
    /\ Goto(w, "ack")
    /\ UNCHANGED <<order, relayed, queue, orphan, inventory, billing, customer>>

Ack(w) ==
    /\ At(w, "ack")
    /\ job' = [job EXCEPT ![w] = None]
    /\ UNCHANGED <<order, relayed, queue, orphan, inventory, billing, customer, faults>>

\* The replica dies: its message is redelivered, a request it sent stays.
SagaCrash(w) ==
    /\ job[w] # None /\ Fault
    /\ Put(job[w].kind, job[w].order)
    /\ Abandon(w)
    /\ job' = [job EXCEPT ![w] = None]
    /\ UNCHANGED <<order, relayed, inventory, billing, customer>>

-----------------------------------------------------------------------------
(* payment-service.                                                        *)

\* An order that has a payment is skipped.
StartCharge(p) ==
    /\ charge[p] = None
    /\ \E o \in Orders :
          /\ Get("payment.requested", o)
          /\ charge' = IF payments[o] # {} THEN charge
                       ELSE [charge EXCEPT ![p] = [order |-> o, outcome |-> "none"]]
    /\ UNCHANGED <<order, relayed, job, orphan, inventory, payments, customer, faults>>

SavePayment(p) ==
    /\ charge[p] # None /\ charge[p].outcome = "none"
    /\ \E outcome \in Outcomes :
          /\ charge' = [charge EXCEPT ![p].outcome = outcome]
          /\ payments' = [payments EXCEPT ![charge[p].order] = @ \cup {outcome}]
    /\ UNCHANGED <<order, relayed, queue, job, orphan, inventory, customer, faults>>

\* Mutation: a failed payment is not reported.
PublishSuccessOnly(p) ==
    /\ charge[p] # None /\ charge[p].outcome # "none"
    /\ IF charge[p].outcome = "SUCCESS"
       THEN Put("payment.succeeded", charge[p].order) ELSE UNCHANGED queue
    /\ charge' = [charge EXCEPT ![p] = None]
    /\ UNCHANGED <<order, relayed, job, orphan, inventory, payments, customer, faults>>

PublishResult(p) ==
    /\ charge[p] # None /\ charge[p].outcome # "none"
    /\ Put(IF charge[p].outcome = "SUCCESS" THEN "payment.succeeded" ELSE "payment.failed",
           charge[p].order)
    /\ charge' = [charge EXCEPT ![p] = None]
    /\ UNCHANGED <<order, relayed, job, orphan, inventory, payments, customer, faults>>

\* The result is not published, and the request acknowledged.
ResultLost(p) ==
    /\ charge[p] # None /\ charge[p].outcome # "none" /\ Fault
    /\ charge' = [charge EXCEPT ![p] = None]
    /\ UNCHANGED <<order, relayed, queue, job, orphan, inventory, payments, customer>>

\* The replica dies, or the attempt fails and is retried: the request is back.
ChargeAgain(p) ==
    /\ charge[p] # None /\ Fault
    /\ Put("payment.requested", charge[p].order)
    /\ charge' = [charge EXCEPT ![p] = None]
    /\ UNCHANGED <<order, relayed, job, orphan, inventory, payments, customer>>

-----------------------------------------------------------------------------
(* notification-service.                                                   *)

Consume(o, status) ==
    /\ status \in events[o]
    /\ events' = [events EXCEPT ![o] = @ \ {status}]
    /\ UNCHANGED <<order, relayed, queue, job, orphan, inventory, billing>>

Send(o, status) ==
    /\ Consume(o, status)
    /\ notified' = [notified EXCEPT ![o] = @ \cup {status}]
    /\ UNCHANGED faults

\* A message that cannot be sent is logged.
SendFails(o, status) ==
    /\ Consume(o, status) /\ Fault
    /\ UNCHANGED notified

\* notification-service dies before the ack: the event is delivered again.
SendAgain(o, status) ==
    /\ status \in events[o] /\ Fault
    /\ notified' = [notified EXCEPT ![o] = @ \cup {status}]
    /\ UNCHANGED <<order, relayed, queue, job, orphan, inventory, billing, events>>

-----------------------------------------------------------------------------
Handler(w) == \/ Start(w) \/ ServeLookup(w) \/ ServeCommit(w) \/ TimeoutLost(w)
              \/ SetStatus(w) \/ Notify(w) \/ RequestPayment(w) \/ Ack(w)

HandlerFault(w) == \/ ServeError(w) \/ ServeCrash(w) \/ CallFails(w)
                   \/ SetStatusFails(w) \/ PublishFails(w) \/ SagaCrash(w)

Payer(p) == StartCharge(p) \/ SavePayment(p) \/ PublishResult(p)

PayerFault(p) == ResultLost(p) \/ ChargeAgain(p)

\* No message, request or handler is left.
Quiet == /\ \A o \in Orders : order[o] # "NONE" => o \in relayed
         /\ queue = [k \in Kinds |-> [o \in Orders |-> 0]]
         /\ orphan = [request \in Ops \X Stages |-> [o \in Orders |-> 0]]
         /\ \A w \in Workers : job[w] = None
         /\ \A p \in Payers : charge[p] = None
         /\ events = [o \in Orders |-> {}]

Idle == Quiet /\ UNCHANGED vars

Next == \/ \E o \in Orders : Create(o) \/ Relay(o) \/ RelayAgain(o)
        \/ \E op \in Ops, o \in Orders : OrphanLookup(op, o) \/ OrphanCommit(op, o)
        \/ \E w \in Workers : Handler(w) \/ HandlerFault(w)
        \/ \E p \in Payers : Payer(p) \/ PayerFault(p)
        \/ \E o \in Orders, status \in Terminal :
               Send(o, status) \/ SendFails(o, status) \/ SendAgain(o, status)
        \/ Idle

\* The relay, the handlers and the consumers of the services do what they can;
\* nobody has to order, and nothing has to fail.
Fairness == /\ \A o \in Orders : WF_vars(Relay(o))
            /\ \A op \in Ops, o \in Orders : WF_vars(OrphanLookup(op, o) \/ OrphanCommit(op, o))
            /\ \A w \in Workers : WF_vars(Handler(w))
            /\ \A p \in Payers : WF_vars(Payer(p))
            /\ \A o \in Orders, status \in Terminal : WF_vars(Send(o, status))

Spec == Init /\ [][Next]_vars /\ Fairness

-----------------------------------------------------------------------------
(* Properties.                                                             *)

TypeOK ==
    /\ order \in [Orders -> Statuses]
    /\ relayed \subseteq Orders
    /\ queue \in [Kinds -> [Orders -> Nat]]
    /\ job \in [Workers -> Job \cup {None}]
    /\ orphan \in [Ops \X Stages -> [Orders -> Nat]]
    /\ reservation \in [Orders -> Bookings]
    /\ free \in Int
    /\ charge \in [Payers -> Charge \cup {None}]
    /\ payments \in [Orders -> SUBSET Outcomes]
    /\ events \in [Orders -> SUBSET Terminal]
    /\ notified \in [Orders -> SUBSET Terminal]
    /\ faults \in 0..MaxFaults

\* Whatever fails, dies or is duplicated, stock leaves for good only against a
\* successful payment; and an order is COMPLETED, and the customer told so, only
\* when it is paid and its stock has left (handlePaymentSucceeded confirms before
\* it sets the status), unless it was charged twice with opposite outcomes: a
\* release that overlaps the confirm may then undo it.
NothingForFree ==
    \A o \in Orders :
        /\ reservation[o] = "CONFIRMED" => "SUCCESS" \in payments[o]
        /\ order[o] = "COMPLETED" \/ "COMPLETED" \in notified[o] =>
              /\ "SUCCESS" \in payments[o]
              /\ \/ reservation[o] = "CONFIRMED"
                 \/ reservation[o] = "RELEASED" /\ "FAILED" \in payments[o]

\* Whatever fails, dies or is duplicated, nobody is charged for an order whose
\* stock was never reserved, and stock is given back only after a payment failed
\* (handleOrderCreated requests payment on a successful reserve only).
NoPaymentWithoutStock ==
    \A o \in Orders :
        /\ payments[o] # {} \/ order[o] = "INVENTORY_RESERVED" => reservation[o] # "NONE"
        /\ reservation[o] = "RELEASED" => "FAILED" \in payments[o]

\* When everything has been handled, the order, the stock, the payment and the
\* notification tell one story (with no fault).
AllOrNothing ==
    Quiet => \A o \in Orders \ {x \in Orders : order[x] = "NONE"} :
        \/ /\ order[o] = "COMPLETED" /\ reservation[o] = "CONFIRMED"
           /\ payments[o] = {"SUCCESS"} /\ notified[o] = {"COMPLETED"}
        \/ /\ order[o] = "CANCELLED" /\ reservation[o] = "RELEASED"
           /\ payments[o] = {"FAILED"} /\ notified[o] = {"CANCELLED"}
        \/ /\ order[o] = "CANCELLED" /\ reservation[o] = "NONE"
           /\ payments[o] = {} /\ notified[o] = {"CANCELLED"}

\* An order goes through its statuses as OrderLifecycle says (with no fault).
Lifecycle == INSTANCE OrderLifecycle WITH status <- order
FollowsLifecycle == Lifecycle!Spec

\* Every order reaches a final status, and its customer is told (with no fault).
EveryOrderEnds ==
    \A o \in Orders :
        order[o] = "PENDING" ~> order[o] \in Terminal /\ order[o] \in notified[o]
=============================================================================

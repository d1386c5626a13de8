----------------------------- MODULE OrderIntake -----------------------------
(***************************************************************************)
(* How an order comes in: POST /products registers products in the         *)
(* catalog, POST /orders prices its lines there by RPC and commits the     *)
(* order with its outbox event, which OutboxRelay takes to RabbitMQ.       *)
(***************************************************************************)
EXTENDS OutboxRelay

CONSTANTS
    Products,   \* product ids
    Lines,      \* the products each order asks for
    Creations,  \* POST /products requests
    ProductOf,  \* the product each of them registers
    PriceOf     \* at which price

ASSUME LinesAssumption     == Lines \in [Orders -> SUBSET Products]
ASSUME CreationsAssumption == /\ ProductOf \in [Creations -> Products]
                              /\ PriceOf \in [Creations -> Nat]

VARIABLES
    price,     \* price of each product in the catalog, None if it has no row
    creation,  \* where each POST /products is
    request,   \* where each POST /orders is
    quote      \* the prices an order was given for its lines

catalogVars == <<price, creation>>
orderVars   == <<request, quote>>
vars == <<catalogVars, orderVars, relayVars>>

Init ==
    /\ RelayInit
    /\ price = [p \in Products |-> None]
    /\ creation = [c \in Creations |-> "new"]
    /\ request = [o \in Orders |-> "new"]
    /\ quote = [o \in Orders |-> <<>>]

-----------------------------------------------------------------------------
(* The catalog.                                                            *)

Register(c, step) ==
    /\ creation' = [creation EXCEPT ![c] = step]
    /\ UNCHANGED <<orderVars, relayVars>>

\* The findOne of `create`.
FindProduct(c) ==
    /\ creation[c] = "new"
    /\ Register(c, IF price[ProductOf[c]] = None THEN "save" ELSE "conflict")
    /\ UNCHANGED price

\* Mutation: productId is not unique, and the last row of it counts.
SaveProductAgain(c) ==
    /\ creation[c] = "save"
    /\ price' = [price EXCEPT ![ProductOf[c]] = PriceOf[c]]
    /\ Register(c, "created")

\* The insert; productId is unique.
SaveProduct(c) ==
    /\ creation[c] = "save"
    /\ \/ /\ price[ProductOf[c]] = None
          /\ price' = [price EXCEPT ![ProductOf[c]] = PriceOf[c]]
          /\ Register(c, "created")
       \/ /\ price[ProductOf[c]] # None
          /\ Register(c, "error") /\ UNCHANGED price

-----------------------------------------------------------------------------
(* The orders.                                                             *)

Serve(o, step) ==
    /\ request' = [request EXCEPT ![o] = step]
    /\ UNCHANGED <<catalogVars, relayVars>>

\* What `getPrices` answers: the products it does not find, or their prices.
Missing(o) == {p \in Lines[o] : price[p] = None}
Prices(o)  == [p \in Lines[o] |-> price[p]]

\* Mutation: the missing products are not looked at.
PriceItemsUnchecked(o) ==
    /\ request[o] = "new"
    /\ Serve(o, "priced")
    /\ quote' = [quote EXCEPT ![o] = Prices(o)]

\* get-prices is answered: an unknown product rejects the order.
PriceItems(o) ==
    /\ request[o] = "new"
    /\ \/ /\ Missing(o) # {}
          /\ Serve(o, "rejected") /\ UNCHANGED quote
       \/ /\ Missing(o) = {}
          /\ Serve(o, "priced")
          /\ quote' = [quote EXCEPT ![o] = Prices(o)]

\* The RPC times out, is rejected by the open breaker or goes to the DLQ, or
\* the catalog's query fails and every product is reported missing.
PriceUnknown(o) ==
    /\ request[o] = "new"
    /\ Serve(o, "rejected") /\ UNCHANGED quote

\* The transaction that saves the order and its outbox event.
SaveOrder(o) ==
    /\ request[o] = "priced"
    /\ request' = [request EXCEPT ![o] = "created"]
    /\ outbox' = outbox \cup {o}
    /\ UNCHANGED <<catalogVars, quote, topic, consumers, offset, published, faults>>

\* It is rolled back.
SaveFails(o) ==
    /\ request[o] = "priced"
    /\ Serve(o, "failed") /\ UNCHANGED quote

-----------------------------------------------------------------------------
intakeVars == <<catalogVars, orderVars>>

\* Everything written was announced and every offset committed.
Idle == /\ \A c \in Creations : creation[c] \in {"created", "conflict", "error"}
        /\ \A o \in Orders : request[o] \in {"created", "rejected", "failed"}
        /\ outbox = {} /\ connected = Replicas
        /\ owner # None /\ owner \notin resolved /\ position[owner] = Len(topic)
        /\ \A n \in Replicas : hand[n] = None
        /\ UNCHANGED vars

Next ==
    \/ \E c \in Creations : FindProduct(c) \/ SaveProduct(c)
    \/ \E o \in Orders : PriceItems(o) \/ PriceUnknown(o) \/ SaveOrder(o) \/ SaveFails(o)
    \/ \E o \in Orders : Capture(o) /\ UNCHANGED intakeVars
    \/ \E i \in DOMAIN topic : CaptureAgain(i) /\ UNCHANGED intakeVars
    \/ \E n \in Replicas : Connect(n) /\ UNCHANGED intakeVars
    \/ \E n \in Replicas : Assign(n) /\ UNCHANGED intakeVars
    \/ \E n \in Replicas : Fetch(n) /\ UNCHANGED intakeVars
    \/ \E n \in Replicas : Publish(n) /\ UNCHANGED intakeVars
    \/ \E n \in Replicas : Commit(n) /\ UNCHANGED intakeVars
    \/ \E n \in Replicas : Rebalance(n) /\ UNCHANGED intakeVars
    \/ \E n \in Replicas : Crash(n) /\ UNCHANGED intakeVars
    \/ Idle

\* Debezium copies what is committed; a consumer connects, is given the
\* partition when it is free, and handles what it is given.
Fairness == /\ \A o \in Orders : WF_vars(Capture(o) /\ UNCHANGED intakeVars)
            /\ \A n \in Replicas : WF_vars(Relay(n) /\ UNCHANGED intakeVars)

Spec == Init /\ [][Next]_vars /\ Fairness

-----------------------------------------------------------------------------
(* Properties.                                                             *)

Events == {topic[i] : i \in DOMAIN topic}

TypeOK ==
    /\ RelayTypeOK
    /\ price \in [Products -> Nat \cup {None}]
    /\ creation \in [Creations -> {"new", "save", "created", "conflict", "error"}]
    /\ request \in [Orders -> {"new", "priced", "created", "rejected", "failed"}]
    /\ quote = [o \in Orders |-> quote[o]]
    /\ \A o \in Orders : request[o] \in {"priced", "created", "failed"} =>
                             quote[o] \in [Lines[o] -> Nat]

\* However registrations of one product race, an order that is announced is a
\* committed one, and its prices are those the catalog holds, then and ever after
\* (productId is unique, the event is in the order's transaction).
OrdersAsPriced ==
    \A o \in Orders :
        /\ o \in outbox \cup Events \cup published => request[o] = "created"
        /\ request[o] \in {"priced", "created"} =>
              \A p \in Lines[o] : quote[o][p] = price[p]

\* The committed offset never goes back and never passes an event that was not
\* published, whichever replicas crash or lose the partition while they publish
\* (eachMessage awaits the publish).
NothingSkipped ==
    [][offset # None =>
          /\ offset' >= offset
          /\ \A i \in DOMAIN topic : offset < i /\ i <= offset' => topic[i] \in published]_vars

\* An order written once the group has committed an offset is announced in the
\* end, through the crashes and rebalances that happen (connectWithRetry).
OrdersAnnounced ==
    \A o \in Orders :
        offset # None /\ request[o] = "created" /\ o \notin Events ~> o \in published
=============================================================================

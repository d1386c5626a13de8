------------------------------ MODULE Inventory ------------------------------
(***************************************************************************)
(* inventory-service: the three RPC handlers `reserve`, `confirm` and      *)
(* `release`, run by several replicas against one Postgres database at     *)
(* READ COMMITTED.  A request is one AMQP message and one invocation of    *)
(* its handler; two requests of one order with the same operation are      *)
(* duplicates (the saga asked twice).  A transaction is modelled statement *)
(* by statement: a row it has written is locked until it commits or rolls  *)
(* back, and its new version is seen by nobody else until then.            *)
(***************************************************************************)
EXTENDS Integers, Sequences

CONSTANTS
    Orders,         \* order ids
    Products,       \* product ids
    Requests,       \* the RPC messages that may be sent
    Items,          \* the lines of each order
    InitialStock,   \* units of each product already on record, or NoRow
    DefaultStock,   \* units given to a product seen for the first time
    NoRow,          \* absence of a row
    NoTx            \* absence of a lock holder

Ops      == {"reserve", "confirm", "release"}
Request  == [op : Ops, order : Orders, copy : Nat]
Line     == [product : Products, quantity : Int]
Row      == [available : Int, reserved : Int]
Statuses == {"NONE", "RESERVED", "CONFIRMED", "RELEASED"}
Answers  == {"none", "success", "refused", "internal_error"}
InTx     == {"ensure", "seed", "update", "deduct", "unreserve", "save"}
Steps    == {"unsent", "queued", "reply", "done", "dlq"} \cup InTx

ASSUME RequestsAssumption == Requests \subseteq Request
ASSUME ItemsAssumption    == Items \in [Orders -> Seq(Line)]
ASSUME StockAssumption    == /\ InitialStock \in [Products -> Nat \cup {NoRow}]
                             /\ DefaultStock \in Nat
ASSUME AbsenceAssumption  == /\ NoRow \notin Row \cup Nat
                             /\ NoTx \notin Requests

VARIABLES
    stock,        \* committed row of each product in stock_items, or NoRow
    draft,        \* the version written by the transaction that locks the row
    owner,        \* the request whose transaction locks the row, or NoTx
    reservation,  \* committed status of each order's reservation, or "NONE"
    pc,           \* where each request is
    item,         \* the line the loop over the items is at
    redelivered,  \* fields.redelivered of each message
    reply         \* the result the handler returns

db   == <<stock, draft, owner, reservation>>
vars == <<stock, draft, owner, reservation, pc, item, redelivered, reply>>

NewRow(units) == [available |-> units, reserved |-> 0]

Init ==
    /\ stock = [p \in Products |-> IF InitialStock[p] = NoRow
                                   THEN NoRow ELSE NewRow(InitialStock[p])]
    /\ draft = [p \in Products |-> NoRow]
    /\ owner = [p \in Products |-> NoTx]
    /\ reservation = [o \in Orders |-> "NONE"]
    /\ pc = [r \in Requests |-> "unsent"]
    /\ item = [r \in Requests |-> 1]
    /\ redelivered = [r \in Requests |-> FALSE]
    /\ reply = [r \in Requests |-> "none"]

-----------------------------------------------------------------------------
(* The database.                                                           *)

\* The version of row p that a statement of r's transaction sees.
Seen(r, p) == IF owner[p] = r THEN draft[p] ELSE stock[p]

CanLock(r, p) == owner[p] \in {r, NoTx}

Write(r, p, row) ==
    /\ CanLock(r, p)
    /\ owner' = [owner EXCEPT ![p] = r]
    /\ draft' = [draft EXCEPT ![p] = row]
    /\ UNCHANGED <<stock, reservation>>

Unlock(r) ==
    /\ owner' = [p \in Products |-> IF owner[p] = r THEN NoTx ELSE owner[p]]
    /\ draft' = [p \in Products |-> IF owner[p] = r THEN NoRow ELSE draft[p]]

Commit(r, status) ==
    /\ stock' = [p \in Products |-> Seen(r, p)]
    /\ reservation' = [reservation EXCEPT ![r.order] = status]
    /\ Unlock(r)

Rollback(r) == Unlock(r) /\ UNCHANGED <<stock, reservation>>

-----------------------------------------------------------------------------
(* Control of a handler.                                                   *)

Lines(r)   == Items[r.order]
Product(r) == Lines(r)[item[r]].product
Units(r)   == Lines(r)[item[r]].quantity

At(r, step) == pc[r] = step

Goto(r, step) ==
    /\ pc' = [pc EXCEPT ![r] = step]
    /\ UNCHANGED <<item, redelivered, reply>>

\* Line i is next, or the reservation is saved when there is none.
GotoLine(r, i, step) ==
    /\ item' = [item EXCEPT ![r] = i]
    /\ pc' = [pc EXCEPT ![r] = IF i \in DOMAIN Lines(r) THEN step ELSE "save"]
    /\ UNCHANGED <<redelivered, reply>>

\* The handler returns: its loop variable is gone.
Answer(r, result) ==
    /\ pc' = [pc EXCEPT ![r] = "reply"]
    /\ reply' = [reply EXCEPT ![r] = result]
    /\ item' = [item EXCEPT ![r] = 1]
    /\ UNCHANGED redelivered

-----------------------------------------------------------------------------
(* The handlers.                                                           *)

\* order-service publishes the request (external to this service).
Send(r) == At(r, "unsent") /\ Goto(r, "queued") /\ UNCHANGED db

\* Mutation: a redelivered message is given back, Nack(true).
NackRequeued(r) ==
    /\ At(r, "queued") /\ redelivered[r]
    /\ Goto(r, "queued")
    /\ UNCHANGED db

\* A redelivered message is dead-lettered without a reply.
NackRedelivered(r) ==
    /\ At(r, "queued") /\ redelivered[r]
    /\ Goto(r, "dlq")
    /\ UNCHANGED db

\* `reserve`: an order that has a reservation is answered from its status.
ReserveLookup(r) ==
    /\ At(r, "queued") /\ ~redelivered[r] /\ r.op = "reserve"
    /\ \/ reservation[r.order] = "NONE" /\ GotoLine(r, 1, "ensure")
       \/ reservation[r.order] = "RELEASED" /\ Answer(r, "refused")
       \/ reservation[r.order] \in {"RESERVED", "CONFIRMED"} /\ Answer(r, "success")
    /\ UNCHANGED db

\* `reserve`, one line: the quantity check and the findOne of ensureStockExists.
EnsureStock(r) ==
    /\ At(r, "ensure")
    /\ \/ Units(r) <= 0 /\ Answer(r, "refused") /\ Rollback(r)
       \/ /\ Units(r) > 0 /\ UNCHANGED db
          /\ Goto(r, IF Seen(r, Product(r)) = NoRow THEN "seed" ELSE "update")

\* The insert of ensureStockExists waits for an uncommitted insert of the same
\* product, and violates the unique constraint if that one was committed.
SeedStock(r) ==
    /\ At(r, "seed") /\ CanLock(r, Product(r))
    /\ \/ /\ stock[Product(r)] = NoRow
          /\ Write(r, Product(r), NewRow(DefaultStock))
          /\ Goto(r, "update")
       \/ /\ stock[Product(r)] # NoRow
          /\ Answer(r, "internal_error") /\ Rollback(r)

\* Mutation: the WHERE clause looks at the units on hand only.
FitsOnHand(r) == Seen(r, Product(r)).available >= Units(r)

\* The WHERE clause of the conditional update.
Fits(r) == LET row == Seen(r, Product(r))
           IN  row.available - row.reserved >= Units(r)

TakeStock(r) ==
    /\ At(r, "update") /\ Fits(r)
    /\ Write(r, Product(r), [Seen(r, Product(r)) EXCEPT !.reserved = @ + Units(r)])
    /\ GotoLine(r, item[r] + 1, "ensure")

\* Mutation: the refusal leaves the transaction open.
DeclineStockOpen(r) ==
    /\ At(r, "update") /\ ~Fits(r)
    /\ Answer(r, "refused") /\ UNCHANGED db

\* No row qualifies: affected is 0, the handler throws InsufficientStockError.
DeclineStock(r) ==
    /\ At(r, "update") /\ ~Fits(r)
    /\ Answer(r, "refused") /\ Rollback(r)

\* Mutation: orderId is not unique.
SaveReservationAgain(r) ==
    /\ At(r, "save") /\ r.op = "reserve"
    /\ Answer(r, "success") /\ Commit(r, "RESERVED")

\* The insert of the reservation and the commit; orderId is unique.
SaveReservation(r) ==
    /\ At(r, "save") /\ r.op = "reserve"
    /\ IF reservation[r.order] = "NONE"
       THEN Answer(r, "success") /\ Commit(r, "RESERVED")
       ELSE Answer(r, "internal_error") /\ Rollback(r)

\* `confirm`: every reservation that is not yet CONFIRMED is settled.
ConfirmLookup(r) ==
    /\ At(r, "queued") /\ ~redelivered[r] /\ r.op = "confirm"
    /\ \/ reservation[r.order] = "NONE" /\ Answer(r, "refused")
       \/ reservation[r.order] = "CONFIRMED" /\ Answer(r, "success")
       \/ reservation[r.order] \in {"RESERVED", "RELEASED"} /\ GotoLine(r, 1, "deduct")
    /\ UNCHANGED db

\* Mutation: `release` settles a CONFIRMED reservation too.
ReleaseLookupUnguarded(r) ==
    /\ At(r, "queued") /\ ~redelivered[r] /\ r.op = "release"
    /\ IF reservation[r.order] \in {"RESERVED", "CONFIRMED"}
       THEN GotoLine(r, 1, "unreserve")
       ELSE Answer(r, "success")
    /\ UNCHANGED db

\* `release`: only a RESERVED reservation is settled.
ReleaseLookup(r) ==
    /\ At(r, "queued") /\ ~redelivered[r] /\ r.op = "release"
    /\ IF reservation[r.order] = "RESERVED"
       THEN GotoLine(r, 1, "unreserve")
       ELSE Answer(r, "success")
    /\ UNCHANGED db

\* `confirm`, the first decrement of a line: the units leave the stock.
DeductStock(r) ==
    /\ At(r, "deduct")
    /\ Write(r, Product(r), [Seen(r, Product(r)) EXCEPT !.available = @ - Units(r)])
    /\ Goto(r, "unreserve")

\* The second decrement of a line of `confirm`, and the only one of `release`:
\* the units are no longer reserved.
UnreserveStock(r) ==
    /\ At(r, "unreserve")
    /\ Write(r, Product(r), [Seen(r, Product(r)) EXCEPT !.reserved = @ - Units(r)])
    /\ GotoLine(r, item[r] + 1, IF r.op = "confirm" THEN "deduct" ELSE "unreserve")

SaveSettled(r) ==
    /\ At(r, "save") /\ r.op # "reserve"
    /\ Answer(r, "success")
    /\ Commit(r, IF r.op = "confirm" THEN "CONFIRMED" ELSE "RELEASED")

\* Any statement of the handler may fail: the catch block answers.
DatabaseError(r) ==
    /\ pc[r] \in InTx \cup {"queued"}
    /\ ~redelivered[r]
    /\ Answer(r, "internal_error") /\ Rollback(r)

\* The reply is published and the message acknowledged.
Respond(r) ==
    /\ At(r, "reply")
    /\ pc' = [pc EXCEPT ![r] = "done"]
    /\ reply' = [reply EXCEPT ![r] = "none"]
    /\ UNCHANGED <<item, redelivered>>
    /\ UNCHANGED db

-----------------------------------------------------------------------------
(* Postgres and RabbitMQ.                                                  *)

\* r waits for the lock of the row its next statement writes.
Blocked(r) == /\ \/ pc[r] \in {"seed", "deduct", "unreserve"}
                 \/ At(r, "update") /\ Fits(r)
              /\ ~CanLock(r, Product(r))

\* One transaction of a cycle of waiting ones is rolled back by the server.
DeadlockVictim(r) ==
    /\ \E S \in SUBSET {w \in Requests : Blocked(w)} :
          r \in S /\ S = {owner[Product(w)] : w \in S}
    /\ Answer(r, "internal_error") /\ Rollback(r)

\* The replica that was given the message dies: its transaction is rolled
\* back and the broker redelivers the message, whether or not it had started.
Crash(r) ==
    /\ pc[r] \in {"queued", "reply"} \cup InTx
    /\ pc' = [pc EXCEPT ![r] = "queued"]
    /\ item' = [item EXCEPT ![r] = 1]
    /\ redelivered' = [redelivered EXCEPT ![r] = TRUE]
    /\ reply' = [reply EXCEPT ![r] = "none"]
    /\ Rollback(r)

-----------------------------------------------------------------------------
Handle(r) ==
    \/ NackRedelivered(r) \/ ReserveLookup(r) \/ ConfirmLookup(r) \/ ReleaseLookup(r)
    \/ EnsureStock(r) \/ SeedStock(r) \/ TakeStock(r) \/ DeclineStock(r)
    \/ SaveReservation(r) \/ DeductStock(r) \/ UnreserveStock(r) \/ SaveSettled(r)
    \/ DeadlockVictim(r) \/ Respond(r)

\* Every message sent was dealt with: the service waits for more.
Idle == (\A r \in Requests : pc[r] \in {"unsent", "done", "dlq"}) /\ UNCHANGED vars

Next == \/ \E r \in Requests : Send(r) \/ Handle(r) \/ DatabaseError(r) \/ Crash(r)
        \/ Idle

\* A replica that holds a message runs its handler to the end, the server ends
\* every deadlock; nothing has to be sent, to fail or to crash.
Fairness == \A r \in Requests : WF_vars(Handle(r))

Spec == Init /\ [][Next]_vars /\ Fairness
-----------------------------------------------------------------------------
(* Properties.                                                             *)

\* Every variable has its type; a row version is uncommitted exactly while a
\* transaction locks the row, and only a handler between its lookup and its
\* answer holds locks (typeorm's transaction callback spans `reserve` 95-134).
TypeOK ==
    /\ stock \in [Products -> Row \cup {NoRow}]
    /\ owner \in [Products -> Requests \cup {NoTx}]
    /\ draft \in [Products -> Row \cup {NoRow}]
    /\ reservation \in [Orders -> Statuses]
    /\ pc \in [Requests -> Steps]
    /\ item \in [Requests -> Nat \ {0}]
    /\ redelivered \in [Requests -> BOOLEAN]
    /\ reply \in [Requests -> Answers]
    /\ \A p \in Products : owner[p] = NoTx <=> draft[p] = NoRow
    /\ \A p \in Products : owner[p] # NoTx => pc[owner[p]] \in InTx

\* No committed row of stock_items ever promises more units than are on hand,
\* whatever order-service sends and however the statements of the transactions
\* interleave: the conditional update of `reserve` checks and increments in one
\* statement, `release` only gives back, and the row `confirm` has deducted from
\* but not yet unreserved, which may promise too much, is seen by nobody else.
NoOversell ==
    \A p \in Products : stock[p] # NoRow => stock[p].reserved <= stock[p].available

\* The service again and again has nothing left to do: every message that reaches
\* the queue is answered or dead-lettered.  No lock cycle between handlers (lines
\* of two orders in opposite order), no lock left behind by a rolled back or
\* crashed one, no message given back for ever, keeps a request from its end.
EveryRequestSettles ==
    []<>(\A r \in Requests : pc[r] \in {"unsent", "done", "dlq"})
=============================================================================

----------------------------- MODULE SagaProofs -----------------------------
(***************************************************************************)
(* Theorems about OrderSaga, for any number of orders, handlers, payment   *)
(* consumers and faults: stock leaves only against a successful payment,   *)
(* and nobody is charged for stock that was never reserved.                *)
(***************************************************************************)
EXTENDS OrderSaga, TLAPS

\* Every message is backed by what its sender did before it.
MessagesBacked ==
    \A o \in Orders :
        /\ queue["payment.succeeded"][o] > 0 => "SUCCESS" \in payments[o]
        /\ queue["payment.failed"][o] > 0 => "FAILED" \in payments[o]
        /\ queue["payment.requested"][o] > 0 => reservation[o] # "NONE"

\* So is every request of a caller that waits no more.
OrphansBacked ==
    \A o \in Orders, stage \in Stages :
        /\ orphan[<<"confirm", stage>>][o] > 0 => "SUCCESS" \in payments[o]
        /\ orphan[<<"release", stage>>][o] > 0 => "FAILED" \in payments[o]

\* The stock of the order has left, or was given back: which of the two, opposite
\* payments may change, but not that it is one of them.
Settled == {"CONFIRMED", "RELEASED"}

\* What a saga handler knows of the order it works on.
JobBacked(w) ==
    /\ job[w].kind = "payment.succeeded" => "SUCCESS" \in payments[job[w].order]
    /\ job[w].kind = "payment.failed" => "FAILED" \in payments[job[w].order]
    /\ job[w].kind = "order.created" /\ job[w].answer = "success" =>
          reservation[job[w].order] # "NONE"
    /\ job[w].kind = "payment.succeeded" /\ job[w].step \in {"status", "notify"} =>
          reservation[job[w].order] \in Settled
    /\ job[w].step = "publish" =>
          job[w].kind = "order.created" /\ job[w].answer = "success"
    /\ job[w].step = "notify" =>
          ~(job[w].kind = "order.created" /\ job[w].answer = "success")

JobsBacked == \A w \in Workers : job[w] # None => JobBacked(w)

\* What a consumer of payment-service knows of the order it charges.
ChargesBacked ==
    \A p \in Payers : charge[p] # None =>
        /\ reservation[charge[p].order] # "NONE"
        /\ charge[p].outcome # "none" => charge[p].outcome \in payments[charge[p].order]

\* Stock moves for a payment.
StockBacked ==
    \A o \in Orders :
        /\ reservation[o] = "CONFIRMED" => "SUCCESS" \in payments[o]
        /\ reservation[o] = "RELEASED" => "FAILED" \in payments[o]
        /\ payments[o] # {} => reservation[o] # "NONE"

\* Statuses and notifications follow the stock.
StatusBacked ==
    \A o \in Orders :
        /\ order[o] = "COMPLETED" => "SUCCESS" \in payments[o] /\ reservation[o] \in Settled
        /\ order[o] = "INVENTORY_RESERVED" => reservation[o] # "NONE"

CustomerBacked ==
    \A o \in Orders :
        "COMPLETED" \in events[o] \cup notified[o] =>
            "SUCCESS" \in payments[o] /\ reservation[o] \in Settled

IInv == /\ TypeOK /\ MessagesBacked /\ OrphansBacked /\ JobsBacked
        /\ ChargesBacked /\ StockBacked /\ StatusBacked /\ CustomerBacked

LEMMA IInvImplies ==
    ASSUME IInv
    PROVE  NothingForFree /\ NoPaymentWithoutStock
BY DEF IInv, StockBacked, StatusBacked, CustomerBacked, Settled,
       NothingForFree, NoPaymentWithoutStock

LEMMA InitIInv ==
    ASSUME Init
    PROVE  IInv
<1>1. TypeOK
  BY UnitsAssumption, FaultsAssumption
  DEF Init, TypeOK, Kinds, SagaKinds, Ops, Statuses, Bookings, Terminal
<1>2. MessagesBacked /\ OrphansBacked
  BY DEF Init, MessagesBacked, OrphansBacked, Kinds, SagaKinds, Ops, Stages
<1>3. JobsBacked /\ ChargesBacked
  BY DEF Init, JobsBacked, ChargesBacked
<1>4. StockBacked /\ StatusBacked /\ CustomerBacked
  BY DEF Init, StockBacked, StatusBacked, CustomerBacked
<1> QED BY <1>1, <1>2, <1>3, <1>4 DEF IInv

-----------------------------------------------------------------------------
(* Counters of messages.                                                   *)

LEMMA CountUp ==
    ASSUME NEW S, NEW q \in [S -> [Orders -> Nat]], NEW k \in S, NEW o \in Orders,
           NEW r, r = [q EXCEPT ![k][o] = @ + 1]
    PROVE  /\ r \in [S -> [Orders -> Nat]]
           /\ \A k2 \in S, o2 \in Orders :
                  r[k2][o2] > 0 => q[k2][o2] > 0 \/ (k2 = k /\ o2 = o)
<1>1. r[k] = [q[k] EXCEPT ![o] = q[k][o] + 1] /\ q[k] \in [Orders -> Nat]
  OBVIOUS
<1>2. \A k2 \in S : k2 # k => r[k2] = q[k2]
  OBVIOUS
<1>3. r[k] \in [Orders -> Nat]
  BY <1>1
<1>4. r \in [S -> [Orders -> Nat]]
  BY <1>2, <1>3
<1> QED BY <1>1, <1>2, <1>4

LEMMA CountDown ==
    ASSUME NEW S, NEW q \in [S -> [Orders -> Nat]], NEW k \in S, NEW o \in Orders,
           q[k][o] > 0, NEW r, r = [q EXCEPT ![k][o] = @ - 1]
    PROVE  /\ r \in [S -> [Orders -> Nat]]
           /\ \A k2 \in S, o2 \in Orders : r[k2][o2] > 0 => q[k2][o2] > 0
<1>1. r[k] = [q[k] EXCEPT ![o] = q[k][o] - 1] /\ q[k] \in [Orders -> Nat]
  OBVIOUS
<1>2. \A k2 \in S : k2 # k => r[k2] = q[k2]
  OBVIOUS
<1>3. r[k] \in [Orders -> Nat]
  BY <1>1
<1>4. r \in [S -> [Orders -> Nat]]
  BY <1>2, <1>3
<1> QED BY <1>1, <1>2, <1>4

-----------------------------------------------------------------------------
(* A step keeps what was backed: a booking is never undone, nor a payment.    *)

Grows ==
    \A o \in Orders :
        /\ reservation[o] # "NONE" => reservation'[o] # "NONE"
        /\ reservation[o] \in Settled => reservation'[o] \in Settled
        /\ payments[o] \subseteq payments'[o]

LEMMA StandsStill ==
    ASSUME UNCHANGED <<reservation, payments>>
    PROVE  Grows
BY DEF Grows

LEMMA MessagesKept ==
    ASSUME IInv, Grows,
           \A k \in Kinds, o \in Orders : queue'[k][o] > 0 => queue[k][o] > 0
    PROVE  MessagesBacked'
BY DEF IInv, MessagesBacked, Grows, Kinds, SagaKinds

LEMMA MessagePut ==
    ASSUME IInv, Grows, NEW kind \in Kinds, NEW o \in Orders, Put(kind, o),
           kind = "payment.succeeded" => "SUCCESS" \in payments'[o],
           kind = "payment.failed" => "FAILED" \in payments'[o],
           kind = "payment.requested" => reservation'[o] # "NONE"
    PROVE  /\ queue' \in [Kinds -> [Orders -> Nat]]
           /\ MessagesBacked'
<1>1. /\ queue' \in [Kinds -> [Orders -> Nat]]
      /\ \A k2 \in Kinds, o2 \in Orders :
             queue'[k2][o2] > 0 => queue[k2][o2] > 0 \/ (k2 = kind /\ o2 = o)
  <2>1. queue \in [Kinds -> [Orders -> Nat]]
    BY DEF IInv, TypeOK
  <2>2. queue' = [queue EXCEPT ![kind][o] = @ + 1]
    BY DEF Put
  <2> HIDE DEF Kinds
  <2> QED BY <2>1, <2>2, CountUp
<1>2. {"payment.succeeded", "payment.failed", "payment.requested"} \subseteq Kinds
  BY DEF Kinds, SagaKinds
<1>3. MessagesBacked'
  BY <1>1, <1>2 DEF IInv, MessagesBacked, Grows
<1> QED BY <1>1, <1>3

LEMMA MessageGot ==
    ASSUME IInv, UNCHANGED <<reservation, payments>>,
           NEW kind \in Kinds, NEW o \in Orders, Get(kind, o)
    PROVE  /\ queue' \in [Kinds -> [Orders -> Nat]]
           /\ MessagesBacked'
<1>1. /\ queue' \in [Kinds -> [Orders -> Nat]]
      /\ \A k2 \in Kinds, o2 \in Orders : queue'[k2][o2] > 0 => queue[k2][o2] > 0
  <2>1. queue \in [Kinds -> [Orders -> Nat]]
    BY DEF IInv, TypeOK
  <2>2. queue[kind][o] > 0 /\ queue' = [queue EXCEPT ![kind][o] = @ - 1]
    BY DEF Get
  <2> QED BY <2>1, <2>2, CountDown
<1> QED BY <1>1, StandsStill, MessagesKept

LEMMA OrphansKept ==
    ASSUME IInv, Grows,
           \A request \in Ops \X Stages, o \in Orders :
               orphan'[request][o] > 0 => orphan[request][o] > 0
    PROVE  OrphansBacked'
BY DEF IInv, OrphansBacked, Grows, Ops

LEMMA JobKept ==
    ASSUME IInv, Grows, NEW w \in Workers, job[w] # None, job'[w] = job[w]
    PROVE  JobBacked(w)'
<1>1. job[w] \in Job /\ job[w].order \in Orders
  BY DEF IInv, TypeOK, Job
<1> QED BY <1>1 DEF IInv, JobsBacked, JobBacked, Grows

LEMMA ChargesKept ==
    ASSUME IInv, Grows, NEW p \in Payers, charge[p] # None, charge'[p] = charge[p]
    PROVE  /\ reservation'[charge'[p].order] # "NONE"
           /\ charge'[p].outcome # "none" => charge'[p].outcome \in payments'[charge'[p].order]
<1>1. charge[p] \in Charge /\ charge[p].order \in Orders
  BY DEF IInv, TypeOK, Charge
<1> QED BY <1>1 DEF IInv, ChargesBacked, Grows

LEMMA FaultType ==
    ASSUME IInv, Fault
    PROVE  faults' \in 0..MaxFaults
BY FaultsAssumption DEF IInv, TypeOK, Fault

LEMMA ChargesStay ==
    ASSUME IInv, Grows, UNCHANGED charge
    PROVE  ChargesBacked'
BY ChargesKept DEF IInv, ChargesBacked

LEMMA JobsStay ==
    ASSUME IInv, Grows, UNCHANGED job
    PROVE  JobsBacked'
BY JobKept DEF JobsBacked

LEMMA JobsMove ==
    ASSUME IInv, Grows, NEW w \in Workers,
           \A v \in Workers : v # w => job'[v] = job[v],
           job'[w] # None => JobBacked(w)'
    PROVE  JobsBacked'
<1> SUFFICES ASSUME NEW v \in Workers, job'[v] # None
             PROVE  JobBacked(v)'
  BY DEF JobsBacked
<1>1. CASE v = w
  BY <1>1
<1>2. CASE v # w
  BY <1>2, JobKept
<1> QED BY <1>1, <1>2

\* What the orders and their customers were told stands.
LEMMA StatusStays ==
    ASSUME IInv, Grows, UNCHANGED order
    PROVE  StatusBacked'
BY DEF IInv, StatusBacked, Grows

LEMMA CustomerStays ==
    ASSUME IInv, Grows, UNCHANGED <<events, notified>>
    PROVE  CustomerBacked'
BY DEF IInv, CustomerBacked, Grows

LEMMA StockStays ==
    ASSUME IInv, UNCHANGED <<reservation, payments>>
    PROVE  StockBacked'
BY DEF IInv, StockBacked

\* Where a handler is, and what it was answered.
JobSteps == {"call", "commit", "wait", "status", "notify", "publish", "ack"}

LEMMA JobSet ==
    ASSUME IInv, NEW w \in Workers, job[w] # None, NEW a \in Answers, NEW st \in JobSteps,
           Resume(w, a, st)
    PROVE  /\ job' \in [Workers -> Job \cup {None}] /\ job'[w] # None
           /\ job'[w].kind = job[w].kind /\ job'[w].order = job[w].order
           /\ job'[w].answer = a /\ job'[w].step = st
           /\ \A v \in Workers : v # w => job'[v] = job[v]
<1>1. job \in [Workers -> Job \cup {None}] /\ job[w] \in Job
  BY DEF IInv, TypeOK
<1>2. job'[w] = [job[w] EXCEPT !.answer = a, !.step = st]
  BY <1>1 DEF Resume
<1>3. /\ job'[w] \in Job /\ job'[w].kind = job[w].kind /\ job'[w].order = job[w].order
      /\ job'[w].answer = a /\ job'[w].step = st
  BY <1>1, <1>2 DEF Job, JobSteps, Stages
<1>4. \A v \in Workers : v # w => job'[v] = job[v]
  BY <1>1 DEF Resume
<1>5. job' \in [Workers -> Job \cup {None}]
  BY <1>1, <1>3, <1>4 DEF Resume
<1> QED BY <1>3, <1>4, <1>5, SlotAssumption

LEMMA JobGoes ==
    ASSUME IInv, NEW w \in Workers, job[w] # None, NEW st \in JobSteps, Goto(w, st)
    PROVE  /\ job' \in [Workers -> Job \cup {None}] /\ job'[w] # None
           /\ job'[w].kind = job[w].kind /\ job'[w].order = job[w].order
           /\ job'[w].answer = job[w].answer /\ job'[w].step = st
           /\ \A v \in Workers : v # w => job'[v] = job[v]
<1>1. job \in [Workers -> Job \cup {None}] /\ job[w] \in Job
  BY DEF IInv, TypeOK
<1>2. job'[w] = [job[w] EXCEPT !.step = st]
  BY <1>1 DEF Goto
<1>3. /\ job'[w] \in Job /\ job'[w].kind = job[w].kind /\ job'[w].order = job[w].order
      /\ job'[w].answer = job[w].answer /\ job'[w].step = st
  BY <1>1, <1>2 DEF Job, JobSteps, Stages
<1>4. \A v \in Workers : v # w => job'[v] = job[v]
  BY <1>1 DEF Goto
<1>5. job' \in [Workers -> Job \cup {None}]
  BY <1>1, <1>3, <1>4 DEF Goto
<1> QED BY <1>3, <1>4, <1>5, SlotAssumption

LEMMA JobEnds ==
    ASSUME IInv, NEW w \in Workers, job' = [job EXCEPT ![w] = None]
    PROVE  /\ job' \in [Workers -> Job \cup {None}] /\ job'[w] = None
           /\ \A v \in Workers : v # w => job'[v] = job[v]
BY DEF IInv, TypeOK

LEMMA JobType ==
    ASSUME IInv, NEW w \in Workers, job[w] # None
    PROVE  /\ job[w].kind \in SagaKinds /\ job[w].kind \in Kinds /\ job[w].order \in Orders
           /\ job[w].answer \in Answers /\ job[w].step \in JobSteps
           /\ JobBacked(w)
BY DEF IInv, TypeOK, JobsBacked, Job, Kinds, JobSteps, Stages

LEMMA OpTypes ==
    ASSUME NEW kind \in SagaKinds
    PROVE  /\ OpOf(kind) \in Ops
           /\ OpOf(kind) = "reserve" <=> kind = "order.created"
           /\ OpOf(kind) = "confirm" <=> kind = "payment.succeeded"
           /\ OpOf(kind) = "release" <=> kind = "payment.failed"
BY DEF OpOf, SagaKinds, Ops

LEMMA TargetTypes ==
    ASSUME NEW j \in Job
    PROVE  /\ Target(j) \in {"COMPLETED", "CANCELLED", "INVENTORY_RESERVED"}
           /\ Target(j) = "COMPLETED" => j.kind = "payment.succeeded"
           /\ Target(j) = "INVENTORY_RESERVED" <=> j.kind = "order.created" /\ j.answer = "success"
BY DEF Target, Job, SagaKinds

-----------------------------------------------------------------------------
(* inventory-service.                                                      *)

LEMMA TransactBacked ==
    ASSUME IInv, NEW op \in Ops, NEW o \in Orders, NEW answer \in Answers,
           Transact(op, o, answer), UNCHANGED payments,
           op = "confirm" => "SUCCESS" \in payments[o],
           op = "release" => "FAILED" \in payments[o]
    PROVE  /\ reservation' \in [Orders -> Bookings] /\ free' \in Int
           /\ Grows /\ StockBacked' /\ answer # "none"
           /\ op = "reserve" /\ answer = "success" => reservation'[o] # "NONE"
           /\ op = "confirm" => reservation'[o] \in Settled
<1>1. /\ reservation \in [Orders -> Bookings] /\ free \in Int /\ Units[o] \in Nat
      /\ \A q \in Orders : payments[q] \subseteq Outcomes
  BY UnitsAssumption DEF IInv, TypeOK
<1>2. CASE op = "reserve" /\ Reserve(o, answer)
  BY <1>1, <1>2 DEF Reserve, Book, IInv, StockBacked, Settled, Grows, Bookings, inventory
<1>3. CASE op = "confirm" /\ Confirm(o, answer)
  BY <1>1, <1>3 DEF Confirm, Book, IInv, StockBacked, Settled, Grows, Bookings
<1>4. CASE op = "release" /\ Release(o, answer)
  BY <1>1, <1>4 DEF Release, Book, IInv, StockBacked, Settled, Grows, Bookings
<1> QED BY <1>2, <1>3, <1>4 DEF Transact

\* A success without a transaction tells that the operation was done before.
LEMMA LookupBacked ==
    ASSUME IInv, NEW op \in Ops, NEW o \in Orders, reservation[o] \notin Transacts(op)
    PROVE  /\ LookupAnswer(op, reservation[o]) \in {"success", "failure"}
           /\ op = "reserve" => reservation[o] # "NONE"
           /\ op = "confirm" /\ LookupAnswer(op, reservation[o]) = "success" =>
                  reservation[o] \in Settled
<1>1. reservation[o] \in Bookings
  BY DEF IInv, TypeOK
<1> QED BY <1>1 DEF LookupAnswer, Transacts, Settled, Bookings, Ops

-----------------------------------------------------------------------------
(* The saga handlers.                                                      *)

\* A step of one handler that leaves the rest alone.
LEMMA OnlyJob ==
    ASSUME IInv, NEW w \in Workers,
           UNCHANGED <<order, relayed, queue, orphan, inventory, billing, customer>>,
           faults' \in 0..MaxFaults,
           job' \in [Workers -> Job \cup {None}],
           \A v \in Workers : v # w => job'[v] = job[v],
           job'[w] # None => JobBacked(w)'
    PROVE  IInv'
<1>1. Grows /\ UNCHANGED <<reservation, free, charge, payments, events, notified>>
  BY StandsStill DEF inventory, billing, customer
<1>2. TypeOK'
  BY <1>1 DEF IInv, TypeOK
<1>3. MessagesBacked' /\ OrphansBacked'
  BY <1>1, MessagesKept, OrphansKept
<1>4. JobsBacked' /\ ChargesBacked'
  BY <1>1, JobsMove, ChargesStay
<1>5. StockBacked' /\ StatusBacked' /\ CustomerBacked'
  BY <1>1, StockStays, StatusStays, CustomerStays
<1> QED BY <1>2, <1>3, <1>4, <1>5 DEF IInv

\* What the handler knows once it is answered.
LEMMA Answered ==
    ASSUME IInv, Grows, NEW w \in Workers, job[w] # None,
           NEW answer \in Answers, answer # "none", Answer(w, answer),
           job[w].kind = "order.created" /\ answer = "success" =>
               reservation'[job[w].order] # "NONE",
           job[w].kind = "payment.succeeded" /\ answer = "success" =>
               reservation'[job[w].order] \in Settled
    PROVE  /\ job' \in [Workers -> Job \cup {None}]
           /\ \A v \in Workers : v # w => job'[v] = job[v]
           /\ JobBacked(w)'
<1>1. PICK st \in {"ack", "status"} :
          /\ Resume(w, answer, st)
          /\ st = "ack" <=> job[w].kind = "payment.succeeded" /\ answer = "failure"
  BY DEF Answer
<1>2. st \in JobSteps
  BY DEF JobSteps
<1>3. /\ job' \in [Workers -> Job \cup {None}]
      /\ job'[w].kind = job[w].kind /\ job'[w].order = job[w].order
      /\ job'[w].answer = answer /\ job'[w].step = st
      /\ \A v \in Workers : v # w => job'[v] = job[v]
  BY <1>1, <1>2, JobSet
<1>4. JobBacked(w) /\ job[w].order \in Orders
  BY JobType
<1>5. answer \in {"success", "failure"}
  BY DEF Answers
<1>6. JobBacked(w)'
  BY <1>1, <1>3, <1>4, <1>5 DEF JobBacked, Grows
<1> QED BY <1>3, <1>6

\* A handler that moves on knows what it knew.
LEMMA Gone ==
    ASSUME IInv, Grows, NEW w \in Workers, job[w] # None,
           NEW st \in JobSteps, Goto(w, st),
           st \notin {"status", "notify", "publish"}
    PROVE  /\ job' \in [Workers -> Job \cup {None}]
           /\ \A v \in Workers : v # w => job'[v] = job[v]
           /\ JobBacked(w)'
<1>1. /\ job' \in [Workers -> Job \cup {None}]
      /\ job'[w].kind = job[w].kind /\ job'[w].order = job[w].order
      /\ job'[w].answer = job[w].answer /\ job'[w].step = st
      /\ \A v \in Workers : v # w => job'[v] = job[v]
  BY JobGoes
<1>2. JobBacked(w) /\ job[w].order \in Orders
  BY JobType
<1>3. JobBacked(w)'
  BY <1>1, <1>2 DEF JobBacked, Grows
<1> QED BY <1>1, <1>3

LEMMA SameFaults ==
    ASSUME IInv, UNCHANGED faults
    PROVE  faults' \in 0..MaxFaults
BY DEF IInv, TypeOK

LEMMA FailureInv ==
    ASSUME IInv, NEW w \in Workers, ServeError(w) \/ TimeoutLost(w)
    PROVE  IInv'
<1>1. /\ job[w] # None /\ Answer(w, "failure") /\ faults' \in 0..MaxFaults
      /\ UNCHANGED <<order, relayed, queue, orphan, inventory, billing, customer>>
  BY FaultType, SameFaults DEF ServeError, TimeoutLost, Serving, At
<1>2. Grows /\ "failure" \in Answers
  BY <1>1, StandsStill DEF inventory, billing, Answers
<1>3. /\ job' \in [Workers -> Job \cup {None}]
      /\ \A v \in Workers : v # w => job'[v] = job[v]
      /\ JobBacked(w)'
  BY <1>1, <1>2, Answered
<1> QED BY <1>1, <1>3, OnlyJob

LEMMA AckInv ==
    ASSUME IInv, NEW w \in Workers, Ack(w)
    PROVE  IInv'
<1>1. job' = [job EXCEPT ![w] = None] /\ faults' \in 0..MaxFaults
  BY SameFaults DEF Ack
<1> QED BY <1>1, JobEnds, OnlyJob DEF Ack

LEMMA PublishFailsInv ==
    ASSUME IInv, NEW w \in Workers, PublishFails(w)
    PROVE  IInv'
<1>1. job[w] # None /\ Goto(w, "ack") /\ faults' \in 0..MaxFaults /\ "ack" \in JobSteps
  BY FaultType DEF PublishFails, At, JobSteps
<1>2. Grows
  BY StandsStill DEF PublishFails, inventory, billing
<1>3. /\ job' \in [Workers -> Job \cup {None}]
      /\ \A v \in Workers : v # w => job'[v] = job[v]
      /\ JobBacked(w)'
  BY <1>1, <1>2, Gone
<1> QED BY <1>1, <1>3, OnlyJob DEF PublishFails

\* What follows a status, set or not.
LEMMA StatusNext ==
    ASSUME IInv, NEW w \in Workers, At(w, "status"), UNCHANGED <<reservation, payments>>,
           NEW last \in {"ack", "notify"},
           Goto(w, IF Target(job[w]) \in Terminal THEN last ELSE "publish")
    PROVE  /\ job' \in [Workers -> Job \cup {None}]
           /\ \A v \in Workers : v # w => job'[v] = job[v]
           /\ JobBacked(w)'
<1>1. PICK st \in {"ack", "notify", "publish"} :
          /\ Goto(w, st)
          /\ st = "publish" <=> Target(job[w]) \notin Terminal
  BY DEF Terminal
<1>2. job[w] # None /\ job[w].step = "status" /\ st \in JobSteps
  BY DEF At, JobSteps
<1>3. /\ job' \in [Workers -> Job \cup {None}]
      /\ job'[w].kind = job[w].kind /\ job'[w].order = job[w].order
      /\ job'[w].answer = job[w].answer /\ job'[w].step = st
      /\ \A v \in Workers : v # w => job'[v] = job[v]
  BY <1>1, <1>2, JobGoes
<1>4. JobBacked(w) /\ job[w].order \in Orders /\ job[w] \in Job
  BY <1>2, JobType DEF IInv, TypeOK
<1>5. st = "publish" <=> job[w].kind = "order.created" /\ job[w].answer = "success"
  BY <1>1, <1>4, TargetTypes DEF Terminal
<1>6. JobBacked(w)'
  BY <1>2, <1>3, <1>4, <1>5 DEF JobBacked
<1> QED BY <1>3, <1>6

LEMMA SetStatusFailsInv ==
    ASSUME IInv, NEW w \in Workers, SetStatusFails(w)
    PROVE  IInv'
<1>1. UNCHANGED <<reservation, payments>> /\ faults' \in 0..MaxFaults
  BY FaultType DEF SetStatusFails, inventory, billing
<1>2. /\ job' \in [Workers -> Job \cup {None}]
      /\ \A v \in Workers : v # w => job'[v] = job[v]
      /\ JobBacked(w)'
  BY <1>1, StatusNext DEF SetStatusFails
<1> QED BY <1>1, <1>2, OnlyJob DEF SetStatusFails

LEMMA SetStatusInv ==
    ASSUME IInv, NEW w \in Workers, SetStatus(w)
    PROVE  IInv'
<1>1. /\ UNCHANGED <<relayed, queue, orphan, reservation, free, charge, payments,
                     events, notified, faults>>
      /\ At(w, "status") /\ Grows
  BY StandsStill DEF SetStatus, inventory, billing, customer
<1>2. /\ job' \in [Workers -> Job \cup {None}]
      /\ \A v \in Workers : v # w => job'[v] = job[v]
      /\ JobBacked(w)'
  BY <1>1, StatusNext DEF SetStatus
<1>3. PICK o \in Orders, status \in {"COMPLETED", "CANCELLED", "INVENTORY_RESERVED"} :
          /\ order' = [order EXCEPT ![o] = status]
          /\ status = "COMPLETED" => "SUCCESS" \in payments[o] /\ reservation[o] \in Settled
          /\ status = "INVENTORY_RESERVED" => reservation[o] # "NONE"
  <2>1. job[w] \in Job /\ JobBacked(w) /\ job[w].order \in Orders /\ job[w].step = "status"
    BY <1>1, JobType DEF At, IInv, TypeOK
  <2>2. order' = [order EXCEPT ![job[w].order] = Target(job[w])]
    BY DEF SetStatus
  <2> QED BY <2>1, <2>2, TargetTypes DEF JobBacked
<1>4. TypeOK'
  BY <1>1, <1>2, <1>3 DEF IInv, TypeOK, Statuses, Terminal
<1>5. MessagesBacked' /\ OrphansBacked'
  BY <1>1, MessagesKept, OrphansKept
<1>6. JobsBacked' /\ ChargesBacked' /\ StockBacked' /\ CustomerBacked'
  BY <1>1, <1>2, JobsMove, ChargesStay, StockStays, CustomerStays
<1>7. StatusBacked'
  BY <1>1, <1>3 DEF IInv, TypeOK, StatusBacked
<1> QED BY <1>4, <1>5, <1>6, <1>7 DEF IInv

LEMMA NotifyInv ==
    ASSUME IInv, NEW w \in Workers, Notify(w)
    PROVE  IInv'
<1>1. /\ UNCHANGED <<order, relayed, queue, orphan, reservation, free, charge, payments,
                     notified, faults>>
      /\ job[w] # None /\ job[w].step = "notify" /\ Goto(w, "ack") /\ "ack" \in JobSteps
      /\ Grows
  BY StandsStill DEF Notify, At, inventory, billing, JobSteps
<1>2. /\ job' \in [Workers -> Job \cup {None}]
      /\ \A v \in Workers : v # w => job'[v] = job[v]
      /\ JobBacked(w)'
  BY <1>1, Gone
<1>3. PICK o \in Orders, status \in Terminal :
          /\ events' = [events EXCEPT ![o] = @ \cup {status}]
          /\ status = "COMPLETED" => "SUCCESS" \in payments[o] /\ reservation[o] \in Settled
  <2>1. job[w] \in Job /\ JobBacked(w) /\ job[w].order \in Orders
    BY <1>1, JobType DEF IInv, TypeOK
  <2>2. events' = [events EXCEPT ![job[w].order] = @ \cup {Target(job[w])}]
    BY DEF Notify
  <2> QED BY <1>1, <2>1, <2>2, TargetTypes DEF JobBacked, Terminal
<1>4. TypeOK'
  BY <1>1, <1>2, <1>3 DEF IInv, TypeOK
<1>5. MessagesBacked' /\ OrphansBacked'
  BY <1>1, MessagesKept, OrphansKept
<1>6. JobsBacked' /\ ChargesBacked' /\ StockBacked' /\ StatusBacked'
  BY <1>1, <1>2, JobsMove, ChargesStay, StockStays, StatusStays
<1>7. CustomerBacked'
  BY <1>1, <1>3 DEF IInv, TypeOK, CustomerBacked
<1> QED BY <1>4, <1>5, <1>6, <1>7 DEF IInv

LEMMA RequestPaymentInv ==
    ASSUME IInv, NEW w \in Workers, RequestPayment(w)
    PROVE  IInv'
<1>1. /\ UNCHANGED <<order, relayed, orphan, reservation, free, charge, payments,
                     events, notified, faults>>
      /\ job[w] # None /\ job[w].step = "publish" /\ Goto(w, "ack") /\ "ack" \in JobSteps
      /\ Put("payment.requested", job[w].order) /\ Grows
  BY StandsStill DEF RequestPayment, At, inventory, billing, customer, JobSteps
<1>2. /\ job' \in [Workers -> Job \cup {None}]
      /\ \A v \in Workers : v # w => job'[v] = job[v]
      /\ JobBacked(w)'
  BY <1>1, Gone
<1>3. /\ job[w].order \in Orders /\ reservation'[job[w].order] # "NONE"
      /\ "payment.requested" \in Kinds
  BY <1>1, JobType DEF JobBacked, Kinds
<1>4. queue' \in [Kinds -> [Orders -> Nat]] /\ MessagesBacked'
  BY <1>1, <1>3, MessagePut
<1>5. TypeOK'
  BY <1>1, <1>2, <1>4 DEF IInv, TypeOK
<1>6. JobsBacked' /\ ChargesBacked' /\ OrphansBacked'
  BY <1>1, <1>2, JobsMove, ChargesStay, OrphansKept
<1>7. StockBacked' /\ StatusBacked' /\ CustomerBacked'
  BY <1>1, StockStays, StatusStays, CustomerStays
<1> QED BY <1>4, <1>5, <1>6, <1>7 DEF IInv

\* The message a handler takes is backed, so it knows what the message says.
LEMMA StartInv ==
    ASSUME IInv, NEW w \in Workers, Start(w)
    PROVE  IInv'
<1>1. PICK kind \in SagaKinds, o \in Orders :
          /\ Get(kind, o)
          /\ job' = [job EXCEPT ![w] = [kind |-> kind, order |-> o,
                                        answer |-> "none", step |-> "call"]]
  BY DEF Start
<1>2. /\ UNCHANGED <<order, relayed, orphan, reservation, free, charge, payments,
                     events, notified, faults>>
      /\ Grows /\ kind \in Kinds
  BY StandsStill DEF Start, inventory, billing, customer, Kinds
<1>3. queue' \in [Kinds -> [Orders -> Nat]] /\ MessagesBacked'
  BY <1>1, <1>2, MessageGot
<1>4. /\ kind = "payment.succeeded" => "SUCCESS" \in payments[o]
      /\ kind = "payment.failed" => "FAILED" \in payments[o]
  BY <1>1 DEF Get, IInv, MessagesBacked
<1>5. [kind |-> kind, order |-> o, answer |-> "none", step |-> "call"] \in Job
  BY DEF Job, Answers, Stages
<1>6. /\ job' \in [Workers -> Job \cup {None}]
      /\ \A v \in Workers : v # w => job'[v] = job[v]
      /\ job'[w] = [kind |-> kind, order |-> o, answer |-> "none", step |-> "call"]
  BY <1>1, <1>5 DEF IInv, TypeOK
<1>7. JobBacked(w)'
  BY <1>2, <1>4, <1>6 DEF JobBacked
<1>8. TypeOK'
  BY <1>2, <1>3, <1>6 DEF IInv, TypeOK
<1>9. JobsBacked' /\ ChargesBacked' /\ OrphansBacked'
  BY <1>2, <1>6, <1>7, JobsMove, ChargesStay, OrphansKept
<1>10. StockBacked' /\ StatusBacked' /\ CustomerBacked'
  BY <1>2, StockStays, StatusStays, CustomerStays
<1> QED BY <1>3, <1>8, <1>9, <1>10 DEF IInv

-----------------------------------------------------------------------------
(* The calls of inventory-service.                                         *)

\* What the operation a handler asks for rests on.
LEMMA CallBacked ==
    ASSUME IInv, NEW w \in Workers, job[w] # None
    PROVE  /\ OpOf(job[w].kind) \in Ops /\ job[w].order \in Orders
           /\ OpOf(job[w].kind) = "confirm" => "SUCCESS" \in payments[job[w].order]
           /\ OpOf(job[w].kind) = "release" => "FAILED" \in payments[job[w].order]
BY JobType, OpTypes DEF JobBacked

LEMMA ServeLookupInv ==
    ASSUME IInv, NEW w \in Workers, ServeLookup(w)
    PROVE  IInv'
<1> DEFINE op == OpOf(job[w].kind)
           o == job[w].order
<1>1. /\ UNCHANGED <<order, relayed, queue, orphan, inventory, billing, customer>>
      /\ job[w] # None /\ faults' \in 0..MaxFaults
      /\ \/ Goto(w, "commit")
         \/ reservation[o] \notin Transacts(op) /\ Answer(w, LookupAnswer(op, reservation[o]))
  BY SameFaults DEF ServeLookup, At
<1>2. Grows /\ UNCHANGED reservation /\ "commit" \in JobSteps
  BY <1>1, StandsStill DEF inventory, billing, JobSteps
<1>3. /\ job' \in [Workers -> Job \cup {None}]
      /\ \A v \in Workers : v # w => job'[v] = job[v]
      /\ JobBacked(w)'
  <2>1. CASE Goto(w, "commit")
    BY <1>1, <1>2, <2>1, Gone
  <2>2. CASE reservation[o] \notin Transacts(op) /\ Answer(w, LookupAnswer(op, reservation[o]))
    <3>1. op \in Ops /\ o \in Orders
      BY <1>1, CallBacked
    <3>2. PICK answer \in {"success", "failure"} :
              /\ Answer(w, answer)
              /\ op = "reserve" => reservation[o] # "NONE"
              /\ op = "confirm" /\ answer = "success" => reservation[o] \in Settled
      BY <2>2, <3>1, LookupBacked
    <3>3. answer \in Answers /\ answer # "none"
      BY DEF Answers
    <3>4. /\ job[w].kind = "order.created" => op = "reserve"
          /\ job[w].kind = "payment.succeeded" => op = "confirm"
      BY <1>1, JobType, OpTypes
    <3>5. /\ job[w].kind = "order.created" /\ answer = "success" =>
                 reservation'[job[w].order] # "NONE"
          /\ job[w].kind = "payment.succeeded" /\ answer = "success" =>
                 reservation'[job[w].order] \in Settled
      BY <1>2, <3>2, <3>4
    <3> HIDE DEF op, o
    <3> QED BY <1>1, <1>2, <3>2, <3>3, <3>5, Answered
  <2> QED BY <1>1, <2>1, <2>2
<1> QED BY <1>1, <1>3, OnlyJob

LEMMA ServeCommitInv ==
    ASSUME IInv, NEW w \in Workers, ServeCommit(w)
    PROVE  IInv'
<1>1. PICK answer \in Answers :
          Transact(OpOf(job[w].kind), job[w].order, answer) /\ Answer(w, answer)
  BY DEF ServeCommit
<1>2. /\ UNCHANGED <<order, relayed, queue, orphan, charge, payments, events, notified, faults>>
      /\ job[w] # None
  BY DEF ServeCommit, At, billing, customer
<1>3. /\ reservation' \in [Orders -> Bookings] /\ free' \in Int
      /\ Grows /\ StockBacked' /\ answer # "none"
      /\ OpOf(job[w].kind) = "reserve" /\ answer = "success" =>
             reservation'[job[w].order] # "NONE"
      /\ OpOf(job[w].kind) = "confirm" => reservation'[job[w].order] \in Settled
  BY <1>1, <1>2, CallBacked, TransactBacked
<1>4. /\ job' \in [Workers -> Job \cup {None}]
      /\ \A v \in Workers : v # w => job'[v] = job[v]
      /\ JobBacked(w)'
  BY <1>1, <1>2, <1>3, Answered, JobType, OpTypes
<1>5. TypeOK'
  BY <1>2, <1>3, <1>4 DEF IInv, TypeOK
<1>6. MessagesBacked' /\ OrphansBacked'
  BY <1>2, <1>3, MessagesKept, OrphansKept
<1>7. JobsBacked' /\ ChargesBacked'
  BY <1>2, <1>3, <1>4, JobsMove, ChargesStay
<1>8. StatusBacked' /\ CustomerBacked'
  BY <1>2, <1>3, StatusStays, CustomerStays
<1> QED BY <1>3, <1>5, <1>6, <1>7, <1>8 DEF IInv

LEMMA ServeCrashInv ==
    ASSUME IInv, NEW w \in Workers, ServeCrash(w)
    PROVE  IInv'
<1>1. /\ UNCHANGED <<order, relayed, queue, orphan, charge, payments, events, notified>>
      /\ job[w] # None /\ faults' \in 0..MaxFaults
      /\ Goto(w, "wait") /\ "wait" \in JobSteps
  BY FaultType DEF ServeCrash, Serving, At, billing, customer, JobSteps
<1>2. /\ reservation' \in [Orders -> Bookings] /\ free' \in Int
      /\ Grows /\ StockBacked'
  <2>1. CASE UNCHANGED inventory
    BY <1>1, <2>1, StandsStill, StockStays DEF inventory, IInv, TypeOK
  <2>2. CASE \E answer \in Answers : Transact(OpOf(job[w].kind), job[w].order, answer)
    BY <1>1, <2>2, CallBacked, TransactBacked
  <2> QED BY <2>1, <2>2 DEF ServeCrash
<1>3. /\ job' \in [Workers -> Job \cup {None}]
      /\ \A v \in Workers : v # w => job'[v] = job[v]
      /\ JobBacked(w)'
  BY <1>1, <1>2, Gone
<1>4. TypeOK'
  BY <1>1, <1>2, <1>3 DEF IInv, TypeOK
<1>5. MessagesBacked' /\ OrphansBacked'
  BY <1>1, <1>2, MessagesKept, OrphansKept
<1>6. JobsBacked' /\ ChargesBacked'
  BY <1>1, <1>2, <1>3, JobsMove, ChargesStay
<1>7. StatusBacked' /\ CustomerBacked'
  BY <1>1, <1>2, StatusStays, CustomerStays
<1> QED BY <1>2, <1>4, <1>5, <1>6, <1>7 DEF IInv

\* A request whose caller waits no more may reach its transaction.
LEMMA OrphanLookupInv ==
    ASSUME IInv, NEW op \in Ops, NEW o \in Orders, OrphanLookup(op, o)
    PROVE  IInv'
<1> DEFINE before == <<op, "call">>
           after == <<op, "commit">>
           left == [orphan EXCEPT ![before][o] = @ - 1]
<1>1. /\ UNCHANGED <<order, relayed, queue, job, reservation, free, charge, payments,
                     events, notified, faults>>
      /\ orphan[before][o] > 0 /\ Grows
      /\ orphan' \in {left, [left EXCEPT ![after][o] = @ + 1]}
  BY StandsStill DEF OrphanLookup, inventory, billing, customer
<1>2. /\ orphan \in [Ops \X Stages -> [Orders -> Nat]]
      /\ before \in Ops \X Stages /\ after \in Ops \X Stages
  BY DEF IInv, TypeOK, Stages
<1>3. /\ left \in [Ops \X Stages -> [Orders -> Nat]]
      /\ \A request \in Ops \X Stages, x \in Orders :
             left[request][x] > 0 => orphan[request][x] > 0
  <2> HIDE DEF before
  <2> QED BY <1>1, <1>2, CountDown
<1>4. /\ orphan' \in [Ops \X Stages -> [Orders -> Nat]]
      /\ \A request \in Ops \X Stages, x \in Orders :
             orphan'[request][x] > 0 =>
                 orphan[request][x] > 0 \/ (request = after /\ x = o)
  <2>1. CASE orphan' = left
    BY <1>3, <2>1
  <2>2. CASE orphan' = [left EXCEPT ![after][o] = @ + 1]
    <3> HIDE DEF left, after
    <3> QED BY <1>2, <1>3, <2>2, CountUp
  <2> QED BY <1>1, <2>1, <2>2
<1>5. OrphansBacked'
  <2> SUFFICES ASSUME NEW x \in Orders, NEW stage \in Stages
               PROVE  /\ orphan'[<<"confirm", stage>>][x] > 0 => "SUCCESS" \in payments[x]
                      /\ orphan'[<<"release", stage>>][x] > 0 => "FAILED" \in payments[x]
    BY <1>1 DEF OrphansBacked
  <2>1. /\ op = "confirm" => "SUCCESS" \in payments[o]
        /\ op = "release" => "FAILED" \in payments[o]
    BY <1>1 DEF IInv, OrphansBacked, Stages
  <2>2. /\ orphan[<<"confirm", stage>>][x] > 0 => "SUCCESS" \in payments[x]
        /\ orphan[<<"release", stage>>][x] > 0 => "FAILED" \in payments[x]
    BY DEF IInv, OrphansBacked
  <2>3. <<"confirm", stage>> \in Ops \X Stages /\ <<"release", stage>> \in Ops \X Stages
    BY DEF Ops
  <2> QED BY <1>4, <2>1, <2>2, <2>3
<1>6. TypeOK'
  BY <1>1, <1>4 DEF IInv, TypeOK
<1>7. MessagesBacked' /\ JobsBacked' /\ ChargesBacked'
  BY <1>1, MessagesKept, JobsStay, ChargesStay
<1>8. StockBacked' /\ StatusBacked' /\ CustomerBacked'
  BY <1>1, StockStays, StatusStays, CustomerStays
<1> QED BY <1>5, <1>6, <1>7, <1>8 DEF IInv

LEMMA OrphanCommitInv ==
    ASSUME IInv, NEW op \in Ops, NEW o \in Orders, OrphanCommit(op, o)
    PROVE  IInv'
<1> DEFINE request == <<op, "commit">>
<1>1. PICK answer \in Answers : Transact(op, o, answer)
  BY DEF OrphanCommit
<1>2. /\ UNCHANGED <<order, relayed, queue, job, charge, payments, events, notified, faults>>
      /\ orphan[request][o] > 0
      /\ orphan' = [orphan EXCEPT ![request][o] = @ - 1]
  BY DEF OrphanCommit, billing, customer
<1>3. /\ orphan' \in [Ops \X Stages -> [Orders -> Nat]]
      /\ \A r2 \in Ops \X Stages, o2 \in Orders : orphan'[r2][o2] > 0 => orphan[r2][o2] > 0
  <2>1. orphan \in [Ops \X Stages -> [Orders -> Nat]] /\ request \in Ops \X Stages
    BY DEF IInv, TypeOK, Stages
  <2> HIDE DEF request
  <2> QED BY <1>2, <2>1, CountDown
<1>4. /\ reservation' \in [Orders -> Bookings] /\ free' \in Int
      /\ Grows /\ StockBacked'
  <2>1. /\ op = "confirm" => "SUCCESS" \in payments[o]
        /\ op = "release" => "FAILED" \in payments[o]
    BY <1>2 DEF IInv, OrphansBacked, Stages
  <2> QED BY <1>1, <1>2, <2>1, TransactBacked
<1>5. TypeOK'
  BY <1>2, <1>3, <1>4 DEF IInv, TypeOK
<1>6. MessagesBacked' /\ OrphansBacked'
  BY <1>2, <1>3, <1>4, MessagesKept, OrphansKept
<1>7. JobsBacked' /\ ChargesBacked'
  BY <1>2, <1>4, JobsStay, ChargesStay
<1>8. StatusBacked' /\ CustomerBacked'
  BY <1>2, <1>4, StatusStays, CustomerStays
<1> QED BY <1>4, <1>5, <1>6, <1>7, <1>8 DEF IInv

\* A request that is left behind rests on what its caller knew.
LEMMA OrphanLeft ==
    ASSUME IInv, NEW w \in Workers, job[w] # None, UNCHANGED <<reservation, payments>>,
           Abandon(w)
    PROVE  orphan' \in [Ops \X Stages -> [Orders -> Nat]] /\ OrphansBacked'
<1>1. orphan \in [Ops \X Stages -> [Orders -> Nat]]
  BY DEF IInv, TypeOK
<1>2. CASE orphan' = orphan
  BY <1>1, <1>2, StandsStill, OrphansKept
<1>3. CASE orphan' = Orphan(w) /\ job[w].step \in Stages
  <2>1. PICK op \in Ops, o \in Orders, step \in Stages :
            /\ orphan' = [orphan EXCEPT ![<<op, step>>][o] = @ + 1]
            /\ op = "confirm" => "SUCCESS" \in payments[o]
            /\ op = "release" => "FAILED" \in payments[o]
    BY <1>3, CallBacked DEF Orphan
  <2> DEFINE request == <<op, step>>
  <2>2. request \in Ops \X Stages
    OBVIOUS
  <2>3. orphan' = [orphan EXCEPT ![request][o] = @ + 1]
    BY <2>1
  <2>4. /\ orphan' \in [Ops \X Stages -> [Orders -> Nat]]
        /\ \A r2 \in Ops \X Stages, o2 \in Orders :
               orphan'[r2][o2] > 0 => orphan[r2][o2] > 0 \/ (r2 = request /\ o2 = o)
    <3> HIDE DEF request
    <3> QED BY <1>1, <2>2, <2>3, CountUp
  <2>5. OrphansBacked'
    <3> SUFFICES ASSUME NEW x \in Orders, NEW stage \in Stages
                 PROVE  /\ orphan'[<<"confirm", stage>>][x] > 0 => "SUCCESS" \in payments[x]
                        /\ orphan'[<<"release", stage>>][x] > 0 => "FAILED" \in payments[x]
      BY DEF OrphansBacked
    <3>1. /\ orphan[<<"confirm", stage>>][x] > 0 => "SUCCESS" \in payments[x]
          /\ orphan[<<"release", stage>>][x] > 0 => "FAILED" \in payments[x]
      BY DEF IInv, OrphansBacked
    <3>2. <<"confirm", stage>> \in Ops \X Stages /\ <<"release", stage>> \in Ops \X Stages
      BY DEF Ops
    <3> QED BY <2>1, <2>4, <3>1, <3>2
  <2> QED BY <2>4, <2>5
<1>4. orphan' = orphan \/ (orphan' = Orphan(w) /\ job[w].step \in Stages)
  BY DEF Abandon, At, Stages
<1> QED BY <1>2, <1>3, <1>4

LEMMA CallFailsInv ==
    ASSUME IInv, NEW w \in Workers, CallFails(w)
    PROVE  IInv'
<1>1. /\ UNCHANGED <<order, relayed, queue, reservation, free, charge, payments,
                     events, notified>>
      /\ job[w] # None /\ faults' \in 0..MaxFaults /\ Grows
      /\ Answer(w, "failure") /\ "failure" \in Answers
  BY FaultType, StandsStill DEF CallFails, Serving, At, inventory, billing, customer, Answers
<1>2. orphan' \in [Ops \X Stages -> [Orders -> Nat]] /\ OrphansBacked'
  BY <1>1, OrphanLeft DEF CallFails
<1>3. /\ job' \in [Workers -> Job \cup {None}]
      /\ \A v \in Workers : v # w => job'[v] = job[v]
      /\ JobBacked(w)'
  BY <1>1, Answered
<1>4. TypeOK'
  BY <1>1, <1>2, <1>3 DEF IInv, TypeOK
<1>5. MessagesBacked' /\ JobsBacked' /\ ChargesBacked'
  BY <1>1, <1>3, MessagesKept, JobsMove, ChargesStay
<1>6. StockBacked' /\ StatusBacked' /\ CustomerBacked'
  BY <1>1, StockStays, StatusStays, CustomerStays
<1> QED BY <1>2, <1>4, <1>5, <1>6 DEF IInv

LEMMA SagaCrashInv ==
    ASSUME IInv, NEW w \in Workers, SagaCrash(w)
    PROVE  IInv'
<1>1. /\ UNCHANGED <<order, relayed, reservation, free, charge, payments, events, notified>>
      /\ job[w] # None /\ faults' \in 0..MaxFaults /\ Grows
      /\ Put(job[w].kind, job[w].order) /\ job' = [job EXCEPT ![w] = None]
  BY FaultType, StandsStill DEF SagaCrash, inventory, billing, customer
<1>2. orphan' \in [Ops \X Stages -> [Orders -> Nat]] /\ OrphansBacked'
  BY <1>1, OrphanLeft DEF SagaCrash
<1>3. queue' \in [Kinds -> [Orders -> Nat]] /\ MessagesBacked'
  <2>1. /\ job[w].kind \in SagaKinds /\ job[w].kind \in Kinds
        /\ job[w].order \in Orders /\ JobBacked(w)
    BY <1>1, JobType
  <2> QED BY <1>1, <2>1, MessagePut DEF JobBacked, SagaKinds
<1>4. /\ job' \in [Workers -> Job \cup {None}] /\ job'[w] = None
      /\ \A v \in Workers : v # w => job'[v] = job[v]
  BY <1>1, JobEnds
<1>5. TypeOK'
  BY <1>1, <1>2, <1>3, <1>4 DEF IInv, TypeOK
<1>6. JobsBacked' /\ ChargesBacked'
  BY <1>1, <1>4, JobsMove, ChargesStay
<1>7. StockBacked' /\ StatusBacked' /\ CustomerBacked'
  BY <1>1, StockStays, StatusStays, CustomerStays
<1> QED BY <1>2, <1>3, <1>5, <1>6, <1>7 DEF IInv

-----------------------------------------------------------------------------
(* The order, its outbox event and its customer.                           *)

LEMMA CreateInv ==
    ASSUME IInv, NEW o \in Orders, Create(o)
    PROVE  IInv'
<1>1. /\ UNCHANGED <<relayed, queue, job, orphan, reservation, free, charge, payments,
                     events, notified, faults>>
      /\ order' = [order EXCEPT ![o] = "PENDING"] /\ Grows
  BY StandsStill DEF Create, inventory, billing, customer
<1>2. TypeOK'
  BY <1>1 DEF IInv, TypeOK, Statuses
<1>3. StatusBacked'
  BY <1>1 DEF IInv, TypeOK, StatusBacked
<1>4. MessagesBacked' /\ OrphansBacked' /\ JobsBacked' /\ ChargesBacked'
  BY <1>1, MessagesKept, OrphansKept, JobsStay, ChargesStay
<1>5. StockBacked' /\ CustomerBacked'
  BY <1>1, StockStays, CustomerStays
<1> QED BY <1>2, <1>3, <1>4, <1>5 DEF IInv

LEMMA RelayInv ==
    ASSUME IInv, NEW o \in Orders, Relay(o) \/ RelayAgain(o)
    PROVE  IInv'
<1>1. /\ UNCHANGED <<order, job, orphan, reservation, free, charge, payments,
                     events, notified>>
      /\ relayed' \in {relayed, relayed \cup {o}} /\ faults' \in 0..MaxFaults
      /\ Put("order.created", o) /\ Grows /\ "order.created" \in Kinds
  BY FaultType, SameFaults, StandsStill
  DEF Relay, RelayAgain, inventory, billing, customer, Kinds, SagaKinds
<1>2. queue' \in [Kinds -> [Orders -> Nat]] /\ MessagesBacked'
  BY <1>1, MessagePut
<1>3. TypeOK'
  BY <1>1, <1>2 DEF IInv, TypeOK
<1>4. OrphansBacked' /\ JobsBacked' /\ ChargesBacked'
  BY <1>1, OrphansKept, JobsStay, ChargesStay
<1>5. StockBacked' /\ StatusBacked' /\ CustomerBacked'
  BY <1>1, StockStays, StatusStays, CustomerStays
<1> QED BY <1>2, <1>3, <1>4, <1>5 DEF IInv

LEMMA CustomerInv ==
    ASSUME IInv, NEW o \in Orders, NEW status \in Terminal,
           Send(o, status) \/ SendFails(o, status) \/ SendAgain(o, status)
    PROVE  IInv'
<1>1. /\ UNCHANGED <<order, relayed, queue, job, orphan, reservation, free, charge, payments>>
      /\ status \in events[o] /\ faults' \in 0..MaxFaults /\ Grows
      /\ events' \in {events, [events EXCEPT ![o] = @ \ {status}]}
      /\ notified' \in {notified, [notified EXCEPT ![o] = @ \cup {status}]}
  BY FaultType, SameFaults, StandsStill
  DEF Send, SendFails, SendAgain, Consume, inventory, billing
<1>2. TypeOK'
  <2>1. events \in [Orders -> SUBSET Terminal] /\ notified \in [Orders -> SUBSET Terminal]
    BY DEF IInv, TypeOK
  <2>2. events' \in [Orders -> SUBSET Terminal]
    BY <1>1, <2>1
  <2>3. notified' \in [Orders -> SUBSET Terminal]
    BY <1>1, <2>1
  <2> QED BY <1>1, <2>2, <2>3 DEF IInv, TypeOK
<1>3. CustomerBacked'
  <2>1. CustomerBacked /\ events \in [Orders -> SUBSET Terminal]
                       /\ notified \in [Orders -> SUBSET Terminal]
    BY DEF IInv, TypeOK
  <2>2. \A x \in Orders : events'[x] \cup notified'[x] \subseteq events[x] \cup notified[x]
    BY <1>1, <2>1
  <2> QED BY <1>1, <2>1, <2>2 DEF CustomerBacked
<1>4. MessagesBacked' /\ OrphansBacked' /\ JobsBacked' /\ ChargesBacked'
  BY <1>1, MessagesKept, OrphansKept, JobsStay, ChargesStay
<1>5. StockBacked' /\ StatusBacked'
  BY <1>1, StockStays, StatusStays
<1> QED BY <1>2, <1>3, <1>4, <1>5 DEF IInv

-----------------------------------------------------------------------------
(* payment-service.                                                        *)

LEMMA ChargeType ==
    ASSUME IInv, NEW p \in Payers, charge[p] # None
    PROVE  /\ charge[p] \in Charge /\ charge[p].order \in Orders
           /\ reservation[charge[p].order] # "NONE"
           /\ charge[p].outcome # "none" =>
                  /\ charge[p].outcome \in Outcomes
                  /\ charge[p].outcome \in payments[charge[p].order]
BY DEF IInv, TypeOK, ChargesBacked, Charge

\* One consumer moves.
LEMMA ChargesMove ==
    ASSUME IInv, Grows, NEW p \in Payers,
           \A q \in Payers : q # p => charge'[q] = charge[q],
           charge'[p] # None =>
               /\ reservation'[charge'[p].order] # "NONE"
               /\ charge'[p].outcome # "none" =>
                      charge'[p].outcome \in payments'[charge'[p].order]
    PROVE  ChargesBacked'
<1> SUFFICES ASSUME NEW q \in Payers, charge'[q] # None
             PROVE  /\ reservation'[charge'[q].order] # "NONE"
                    /\ charge'[q].outcome # "none" =>
                           charge'[q].outcome \in payments'[charge'[q].order]
  BY DEF ChargesBacked
<1>1. CASE q = p
  BY <1>1
<1>2. CASE q # p
  BY <1>2, ChargesKept
<1> QED BY <1>1, <1>2

LEMMA StartChargeInv ==
    ASSUME IInv, NEW p \in Payers, StartCharge(p)
    PROVE  IInv'
<1>1. PICK o \in Orders :
          /\ Get("payment.requested", o)
          /\ charge' = IF payments[o] # {} THEN charge
                       ELSE [charge EXCEPT ![p] = [order |-> o, outcome |-> "none"]]
  BY DEF StartCharge
<1>2. /\ UNCHANGED <<order, relayed, job, orphan, reservation, free, payments,
                     events, notified, faults>>
      /\ Grows /\ "payment.requested" \in Kinds /\ charge[p] = None
  BY StandsStill DEF StartCharge, inventory, customer, Kinds
<1>3. queue' \in [Kinds -> [Orders -> Nat]] /\ MessagesBacked'
  BY <1>1, <1>2, MessageGot
<1>4. reservation[o] # "NONE"
  BY <1>1 DEF Get, IInv, MessagesBacked
<1>5. [order |-> o, outcome |-> "none"] \in Charge
  BY DEF Charge
<1>6. /\ charge' \in [Payers -> Charge \cup {None}]
      /\ \A q \in Payers : q # p => charge'[q] = charge[q]
      /\ charge'[p] \in {None, [order |-> o, outcome |-> "none"]}
  BY <1>1, <1>2, <1>5 DEF IInv, TypeOK
<1>7. ChargesBacked'
  BY <1>2, <1>4, <1>6, ChargesMove
<1>8. TypeOK'
  BY <1>2, <1>3, <1>6 DEF IInv, TypeOK
<1>9. OrphansBacked' /\ JobsBacked'
  BY <1>2, OrphansKept, JobsStay
<1>10. StockBacked' /\ StatusBacked' /\ CustomerBacked'
  BY <1>2, StockStays, StatusStays, CustomerStays
<1> QED BY <1>3, <1>7, <1>8, <1>9, <1>10 DEF IInv

LEMMA SavePaymentInv ==
    ASSUME IInv, NEW p \in Payers, SavePayment(p)
    PROVE  IInv'
<1>1. PICK outcome \in Outcomes :
          /\ charge' = [charge EXCEPT ![p].outcome = outcome]
          /\ payments' = [payments EXCEPT ![charge[p].order] = @ \cup {outcome}]
  BY DEF SavePayment
<1>2. /\ UNCHANGED <<order, relayed, queue, job, orphan, reservation, free,
                     events, notified, faults>>
      /\ charge[p] # None
  BY DEF SavePayment, inventory, customer
<1>3. PICK o \in Orders : o = charge[p].order
  BY <1>2, ChargeType
<1>4. charge[p] \in Charge /\ reservation[o] # "NONE"
  BY <1>2, <1>3, ChargeType
<1>5. /\ payments' \in [Orders -> SUBSET Outcomes]
      /\ payments'[o] = payments[o] \cup {outcome}
      /\ \A q \in Orders : q # o => payments'[q] = payments[q]
  <2>1. payments \in [Orders -> SUBSET Outcomes]
    BY DEF IInv, TypeOK
  <2>2. payments' = [payments EXCEPT ![o] = payments[o] \cup {outcome}]
    BY <1>1, <1>3
  <2> QED BY <2>1, <2>2
<1>6. Grows
  BY <1>2, <1>5 DEF Grows
<1>7. charge'[p] = [charge[p] EXCEPT !.outcome = outcome]
  BY <1>1 DEF IInv, TypeOK
<1>8. charge'[p] \in Charge /\ charge'[p].order = o /\ charge'[p].outcome = outcome
  BY <1>3, <1>4, <1>7 DEF Charge
<1>9. /\ charge' \in [Payers -> Charge \cup {None}]
      /\ \A q \in Payers : q # p => charge'[q] = charge[q]
  BY <1>1, <1>8 DEF IInv, TypeOK
<1>10. ChargesBacked'
  BY <1>2, <1>4, <1>5, <1>6, <1>8, <1>9, ChargesMove
<1>11. TypeOK'
  BY <1>2, <1>5, <1>9 DEF IInv, TypeOK
<1>12. StockBacked'
  BY <1>2, <1>4, <1>5 DEF IInv, StockBacked
<1>13. MessagesBacked' /\ OrphansBacked' /\ JobsBacked'
  BY <1>2, <1>6, MessagesKept, OrphansKept, JobsStay
<1>14. StatusBacked' /\ CustomerBacked'
  BY <1>2, <1>6, StatusStays, CustomerStays
<1> QED BY <1>10, <1>11, <1>12, <1>13, <1>14 DEF IInv

\* A consumer that is done, for whatever reason, may publish what it rests on.
LEMMA ChargeEnds ==
    ASSUME IInv, NEW p \in Payers, faults' \in 0..MaxFaults,
           charge' = [charge EXCEPT ![p] = None],
           UNCHANGED <<order, relayed, job, orphan, inventory, payments, customer>>,
           queue' \in [Kinds -> [Orders -> Nat]], MessagesBacked'
    PROVE  IInv'
<1>1. /\ UNCHANGED <<reservation, free, events, notified>> /\ Grows
  BY StandsStill DEF inventory, customer
<1>2. /\ charge' \in [Payers -> Charge \cup {None}] /\ charge'[p] = None
      /\ \A q \in Payers : q # p => charge'[q] = charge[q]
  BY DEF IInv, TypeOK
<1>3. TypeOK'
  BY <1>1, <1>2 DEF IInv, TypeOK
<1>4. ChargesBacked' /\ OrphansBacked' /\ JobsBacked'
  BY <1>1, <1>2, ChargesMove, OrphansKept, JobsStay
<1>5. StockBacked' /\ StatusBacked' /\ CustomerBacked'
  BY <1>1, StockStays, StatusStays, CustomerStays
<1> QED BY <1>3, <1>4, <1>5 DEF IInv

LEMMA PublishResultInv ==
    ASSUME IInv, NEW p \in Payers, PublishResult(p)
    PROVE  IInv'
<1>1. PICK kind \in {"payment.succeeded", "payment.failed"} :
          /\ Put(kind, charge[p].order)
          /\ kind = "payment.succeeded" <=> charge[p].outcome = "SUCCESS"
  BY DEF PublishResult
<1>2. charge[p] # None /\ charge[p].outcome # "none" /\ faults' \in 0..MaxFaults
  BY SameFaults DEF PublishResult
<1>3. /\ charge[p].order \in Orders
      /\ charge[p].outcome \in Outcomes /\ charge[p].outcome \in payments[charge[p].order]
  BY <1>2, ChargeType
<1>4. UNCHANGED <<reservation, payments>> /\ Grows /\ kind \in Kinds
  BY StandsStill DEF PublishResult, inventory, Kinds, SagaKinds
<1>5. queue' \in [Kinds -> [Orders -> Nat]] /\ MessagesBacked'
  BY <1>1, <1>3, <1>4, MessagePut DEF Outcomes
<1> QED BY <1>2, <1>5, ChargeEnds DEF PublishResult

LEMMA ResultLostInv ==
    ASSUME IInv, NEW p \in Payers, ResultLost(p)
    PROVE  IInv'
<1>1. UNCHANGED <<reservation, payments, queue>> /\ Grows /\ faults' \in 0..MaxFaults
  BY FaultType, StandsStill DEF ResultLost, inventory
<1>2. queue' \in [Kinds -> [Orders -> Nat]] /\ MessagesBacked'
  BY <1>1, MessagesKept DEF IInv, TypeOK
<1> QED BY <1>1, <1>2, ChargeEnds DEF ResultLost

LEMMA ChargeAgainInv ==
    ASSUME IInv, NEW p \in Payers, ChargeAgain(p)
    PROVE  IInv'
<1>1. /\ UNCHANGED <<reservation, payments>> /\ Grows /\ faults' \in 0..MaxFaults
      /\ Put("payment.requested", charge[p].order) /\ charge[p] # None
      /\ "payment.requested" \in Kinds
  BY FaultType, StandsStill DEF ChargeAgain, inventory, Kinds
<1>2. charge[p].order \in Orders /\ reservation[charge[p].order] # "NONE"
  BY <1>1, ChargeType
<1>3. queue' \in [Kinds -> [Orders -> Nat]] /\ MessagesBacked'
  BY <1>1, <1>2, MessagePut
<1> QED BY <1>1, <1>3, ChargeEnds DEF ChargeAgain

-----------------------------------------------------------------------------
LEMMA NextIInv ==
    ASSUME IInv, [Next]_vars
    PROVE  IInv'
<1>1. ASSUME NEW o \in Orders, Create(o) \/ Relay(o) \/ RelayAgain(o)
      PROVE  IInv'
  BY <1>1, CreateInv, RelayInv
<1>2. ASSUME NEW op \in Ops, NEW o \in Orders, OrphanLookup(op, o) \/ OrphanCommit(op, o)
      PROVE  IInv'
  BY <1>2, OrphanLookupInv, OrphanCommitInv
<1>3. ASSUME NEW w \in Workers, Handler(w)
      PROVE  IInv'
  BY <1>3, StartInv, ServeLookupInv, ServeCommitInv, FailureInv, SetStatusInv, NotifyInv,
     RequestPaymentInv, AckInv
  DEF Handler
<1>4. ASSUME NEW w \in Workers, HandlerFault(w)
      PROVE  IInv'
  BY <1>4, FailureInv, ServeCrashInv, CallFailsInv, SetStatusFailsInv, PublishFailsInv,
     SagaCrashInv
  DEF HandlerFault
<1>5. ASSUME NEW p \in Payers, Payer(p) \/ PayerFault(p)
      PROVE  IInv'
  BY <1>5, StartChargeInv, SavePaymentInv, PublishResultInv, ResultLostInv, ChargeAgainInv
  DEF Payer, PayerFault
<1>6. ASSUME NEW o \in Orders, NEW status \in Terminal,
             Send(o, status) \/ SendFails(o, status) \/ SendAgain(o, status)
      PROVE  IInv'
  BY <1>6, CustomerInv
<1>7. CASE UNCHANGED vars
  <2>1. /\ UNCHANGED <<order, relayed, queue, job, orphan, reservation, free, charge,
                       payments, events, notified, faults>>
        /\ Grows
    BY <1>7, StandsStill DEF vars, inventory, billing, customer
  <2>2. TypeOK'
    BY <2>1 DEF IInv, TypeOK
  <2>3. MessagesBacked' /\ OrphansBacked' /\ JobsBacked' /\ ChargesBacked'
    BY <2>1, MessagesKept, OrphansKept, JobsStay, ChargesStay
  <2>4. StockBacked' /\ StatusBacked' /\ CustomerBacked'
    BY <2>1, StockStays, StatusStays, CustomerStays
  <2> QED BY <2>2, <2>3, <2>4 DEF IInv
<1>8. CASE Idle
  BY <1>7, <1>8 DEF Idle
<1> QED BY <1>1, <1>2, <1>3, <1>4, <1>5, <1>6, <1>7, <1>8 DEF Next

\* Every message, handler and late call of the saga carries its cause.
THEOREM Invariance == Spec => []IInv
<1>1. Init => IInv
  BY InitIInv
<1>2. IInv /\ [Next]_vars => IInv'
  BY NextIInv
<1> QED BY <1>1, <1>2, PTL DEF Spec

\* Every variable keeps its type, for any number of orders, slots and faults.
THEOREM TypeCorrect == Spec => []TypeOK
<1>1. IInv => TypeOK
  BY DEF IInv
<1> QED BY <1>1, Invariance, PTL

\* Stock leaves for good only against a successful payment, and an order is
\* COMPLETED, and its customer told so, only when it is paid and its stock has
\* left, or was given back for a second payment that failed: whatever handlers,
\* crashes, late calls and duplicates there are, with the lookups of
\* inventory-service apart from its transactions (handlePaymentSucceeded).
THEOREM PaidFor == Spec => []NothingForFree
<1>1. IInv => NothingForFree
  BY IInvImplies
<1> QED BY <1>1, Invariance, PTL

\* Nobody is charged for an order whose stock was never reserved, and stock is
\* given back only after a payment failed (handleOrderCreated,
\* handlePaymentFailed).
THEOREM ChargedForStock == Spec => []NoPaymentWithoutStock
<1>1. IInv => NoPaymentWithoutStock
  BY IInvImplies
<1> QED BY <1>1, Invariance, PTL
=============================================================================

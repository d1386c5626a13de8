-------------------------- MODULE SagaStoryProofs --------------------------
(***************************************************************************)
(* Theorems about the saga of OrderSaga as long as nothing has failed, for *)
(* any number of orders, handlers and payment consumers: an order goes     *)
(* through its statuses as OrderLifecycle says, and when the services have *)
(* nothing left to do, all of them agree on how it ended.                  *)
(***************************************************************************)
EXTENDS SagaProofs

\* What the services hold about order o: nothing was said to its customer yet.
Untold(o, status, booking, paid) ==
    /\ order[o] = status /\ reservation[o] = booking /\ payments[o] = paid
    /\ events[o] = {} /\ notified[o] = {}

Told(o, status, booking, paid) ==
    /\ order[o] = status /\ reservation[o] = booking /\ payments[o] = paid
    /\ events[o] \cup notified[o] = {status}

\* A handler that has only its ack left has passed the order on.
InHand(w, o) == job[w] # None /\ job[w].order = o /\ job[w].step # "ack"

Charged(p, o) == charge[p] # None /\ charge[p].order = o

Unqueued(o) == \A k \in Kinds : queue[k][o] = 0

Unhandled(o) == \A w \in Workers : ~InHand(w, o)

Uncharged(o) == \A p \in Payers : ~Charged(p, o)

\* The order waits in one queue, and nowhere else.
OnlyQueued(o, k) ==
    /\ queue[k][o] = 1 /\ \A l \in Kinds \ {k} : queue[l][o] = 0
    /\ Unhandled(o) /\ Uncharged(o)

OnlyInHand(o, w) ==
    /\ InHand(w, o) /\ \A v \in Workers \ {w} : ~InHand(v, o)
    /\ Unqueued(o) /\ Uncharged(o)

OnlyCharged(o, p) ==
    /\ Charged(p, o) /\ \A q \in Payers \ {p} : ~Charged(q, o)
    /\ Unqueued(o) /\ Unhandled(o)

Nowhere(o) == Unqueued(o) /\ Unhandled(o) /\ Uncharged(o)

\* What is known of an order whose message waits in queue k.
Awaited(o, k) ==
    \/ k = "order.created" /\ Untold(o, "PENDING", "NONE", {})
    \/ k = "payment.requested" /\ Untold(o, "INVENTORY_RESERVED", "RESERVED", {})
    \/ k = "payment.succeeded" /\ Untold(o, "INVENTORY_RESERVED", "RESERVED", {"SUCCESS"})
    \/ k = "payment.failed" /\ Untold(o, "INVENTORY_RESERVED", "RESERVED", {"FAILED"})

\* What is known of an order in the handler of order.created,
CreatedHandled(o, j) ==
    \/ j.step \in Stages /\ Untold(o, "PENDING", "NONE", {})
    \/ j.step = "status" /\ j.answer = "success" /\ Untold(o, "PENDING", "RESERVED", {})
    \/ j.step = "status" /\ j.answer = "failure" /\ Untold(o, "PENDING", "NONE", {})
    \/ /\ j.step = "publish" /\ j.answer = "success"
       /\ Untold(o, "INVENTORY_RESERVED", "RESERVED", {})
    \/ j.step = "notify" /\ j.answer = "failure" /\ Untold(o, "CANCELLED", "NONE", {})

\* in the one of payment.succeeded,
SucceededHandled(o, j) ==
    \/ j.step \in Stages /\ Untold(o, "INVENTORY_RESERVED", "RESERVED", {"SUCCESS"})
    \/ j.step = "status" /\ Untold(o, "INVENTORY_RESERVED", "CONFIRMED", {"SUCCESS"})
    \/ j.step = "notify" /\ Untold(o, "COMPLETED", "CONFIRMED", {"SUCCESS"})

\* and in the one of payment.failed.
FailedHandled(o, j) ==
    \/ j.step \in Stages /\ Untold(o, "INVENTORY_RESERVED", "RESERVED", {"FAILED"})
    \/ j.step = "status" /\ Untold(o, "INVENTORY_RESERVED", "RELEASED", {"FAILED"})
    \/ j.step = "notify" /\ Untold(o, "CANCELLED", "RELEASED", {"FAILED"})

Handled(o, j) == \/ j.kind = "order.created" /\ CreatedHandled(o, j)
                 \/ j.kind = "payment.succeeded" /\ SucceededHandled(o, j)
                 \/ j.kind = "payment.failed" /\ FailedHandled(o, j)

Paying(o, c) ==
    Untold(o, "INVENTORY_RESERVED", "RESERVED",
           IF c.outcome = "none" THEN {} ELSE {c.outcome})

Finished(o) == \/ Told(o, "COMPLETED", "CONFIRMED", {"SUCCESS"})
               \/ Told(o, "CANCELLED", "RELEASED", {"FAILED"})
               \/ Told(o, "CANCELLED", "NONE", {})

\* The places an order can be in: not ordered or not relayed yet, in a queue, in
\* the hands of a handler or of payment-service, or done with.
Story(o) ==
    \/ /\ Nowhere(o) /\ o \notin relayed
       /\ Untold(o, "NONE", "NONE", {}) \/ Untold(o, "PENDING", "NONE", {})
    \/ o \in relayed /\ \E k \in Kinds : OnlyQueued(o, k) /\ Awaited(o, k)
    \/ o \in relayed /\ \E w \in Workers : OnlyInHand(o, w) /\ Handled(o, job[w])
    \/ o \in relayed /\ \E p \in Payers : OnlyCharged(o, p) /\ Paying(o, charge[p])
    \/ o \in relayed /\ Nowhere(o) /\ Finished(o)

\* As long as nothing has failed, every order is in one place, the services agree
\* with the place it is in, and no caller has given up on its request.
NoOrphan == \A request \in Ops \X Stages, o \in Orders : orphan[request][o] = 0

Stories == NoOrphan /\ \A o \in Orders : Story(o)

StoryInv == faults = 0 => Stories

-----------------------------------------------------------------------------
(* Where an order is.                                                      *)

\* An order with a message in a queue is nowhere else, and at the place the queue says.
LEMMA FoundQueued ==
    ASSUME NEW o \in Orders, Story(o), NEW k \in Kinds, queue[k][o] > 0
    PROVE  o \in relayed /\ OnlyQueued(o, k) /\ Awaited(o, k)
<1>1. ~Unqueued(o)
  BY DEF Unqueued
<1>2. PICK l \in Kinds : o \in relayed /\ OnlyQueued(o, l) /\ Awaited(o, l)
  BY <1>1 DEF Story, Nowhere, OnlyInHand, OnlyCharged
<1>3. l = k
  BY <1>2 DEF OnlyQueued
<1> QED BY <1>2, <1>3

\* An order in a handler is nowhere else.
LEMMA FoundInHand ==
    ASSUME NEW o \in Orders, Story(o), NEW w \in Workers, InHand(w, o)
    PROVE  o \in relayed /\ OnlyInHand(o, w) /\ Handled(o, job[w])
<1>1. ~Unhandled(o)
  BY DEF Unhandled
<1>2. PICK v \in Workers : o \in relayed /\ OnlyInHand(o, v) /\ Handled(o, job[v])
  BY <1>1 DEF Story, Nowhere, OnlyQueued, OnlyCharged
<1>3. v = w
  BY <1>2 DEF OnlyInHand
<1> QED BY <1>2, <1>3

\* An order being charged is nowhere else.
LEMMA FoundCharged ==
    ASSUME NEW o \in Orders, Story(o), NEW p \in Payers, Charged(p, o)
    PROVE  o \in relayed /\ OnlyCharged(o, p) /\ Paying(o, charge[p])
<1>1. ~Uncharged(o)
  BY DEF Uncharged
<1>2. PICK q \in Payers : o \in relayed /\ OnlyCharged(o, q) /\ Paying(o, charge[q])
  BY <1>1 DEF Story, Nowhere, OnlyQueued, OnlyInHand
<1>3. q = p
  BY <1>2 DEF OnlyCharged
<1> QED BY <1>2, <1>3

-----------------------------------------------------------------------------
(* A step about one order leaves the others where they are.                *)

SameTale(o) ==
    /\ order'[o] = order[o] /\ reservation'[o] = reservation[o] /\ payments'[o] = payments[o]
    /\ events'[o] = events[o] /\ notified'[o] = notified[o]
    /\ o \in relayed' <=> o \in relayed

SameQueues(o) == \A k \in Kinds : queue'[k][o] = queue[k][o]

SameHands(o) ==
    \A w \in Workers : /\ InHand(w, o)' <=> InHand(w, o)
                       /\ InHand(w, o) => job'[w] = job[w]

SameCharges(o) ==
    \A p \in Payers : /\ Charged(p, o)' <=> Charged(p, o)
                      /\ Charged(p, o) => charge'[p] = charge[p]

\* An order that the step is not about keeps its story.
LEMMA Apart ==
    ASSUME NEW o \in Orders, Story(o),
           SameTale(o), SameQueues(o), SameHands(o), SameCharges(o)
    PROVE  Story(o)'
<1>1. /\ Unqueued(o)' <=> Unqueued(o)
      /\ Unhandled(o)' <=> Unhandled(o)
      /\ Uncharged(o)' <=> Uncharged(o)
  BY DEF SameQueues, SameHands, SameCharges, Unqueued, Unhandled, Uncharged
<1>2. \A status, booking, paid :
          /\ Untold(o, status, booking, paid) => Untold(o, status, booking, paid)'
          /\ Told(o, status, booking, paid) => Told(o, status, booking, paid)'
  BY DEF SameTale, Untold, Told
<1>3. o \in relayed' <=> o \in relayed
  BY DEF SameTale
<1>4. ASSUME Nowhere(o), o \notin relayed,
             Untold(o, "NONE", "NONE", {}) \/ Untold(o, "PENDING", "NONE", {})
      PROVE  Story(o)'
  BY <1>1, <1>2, <1>3, <1>4 DEF Story, Nowhere
<1>5. ASSUME o \in relayed, NEW k \in Kinds, OnlyQueued(o, k), Awaited(o, k)
      PROVE  Story(o)'
  <2>1. OnlyQueued(o, k)'
    BY <1>1, <1>5 DEF OnlyQueued, SameQueues
  <2>2. Awaited(o, k)'
    BY <1>2, <1>5 DEF Awaited
  <2> QED BY <1>3, <1>5, <2>1, <2>2 DEF Story
<1>6. ASSUME o \in relayed, NEW w \in Workers, OnlyInHand(o, w), Handled(o, job[w])
      PROVE  Story(o)'
  <2>1. OnlyInHand(o, w)' /\ job'[w] = job[w]
    BY <1>1, <1>6 DEF OnlyInHand, SameHands
  <2>2. Handled(o, job[w])'
    BY <1>2, <1>6, <2>1 DEF Handled, CreatedHandled, SucceededHandled, FailedHandled
  <2> QED BY <1>3, <1>6, <2>1, <2>2 DEF Story
<1>7. ASSUME o \in relayed, NEW p \in Payers, OnlyCharged(o, p), Paying(o, charge[p])
      PROVE  Story(o)'
  <2>1. OnlyCharged(o, p)' /\ charge'[p] = charge[p]
    BY <1>1, <1>7 DEF OnlyCharged, SameCharges
  <2>2. Paying(o, charge[p])'
    BY <1>2, <1>7, <2>1 DEF Paying
  <2> QED BY <1>3, <1>7, <2>1, <2>2 DEF Story
<1>8. ASSUME o \in relayed, Nowhere(o), Finished(o)
      PROVE  Story(o)'
  BY <1>1, <1>2, <1>3, <1>8 DEF Story, Nowhere, Finished
<1> QED BY <1>4, <1>5, <1>6, <1>7, <1>8 DEF Story

\* One order goes on.
LEMMA GoesOn ==
    ASSUME Stories, UNCHANGED orphan, NEW a \in Orders, Story(a)',
           \A o \in Orders \ {a} :
               SameTale(o) /\ SameQueues(o) /\ SameHands(o) /\ SameCharges(o)
    PROVE  Stories'
<1>1. NoOrphan'
  BY DEF Stories, NoOrphan
<1>2. ASSUME NEW o \in Orders PROVE Story(o)'
  <2>1. CASE o = a
    BY <2>1
  <2>2. CASE o # a
    BY <2>2, Apart DEF Stories
  <2> QED BY <2>1, <2>2
<1> QED BY <1>1, <1>2 DEF Stories

\* A step that leaves the queues alone leaves those of every order.
LEMMA QueueStays == ASSUME UNCHANGED queue PROVE \A o \in Orders : SameQueues(o)
BY DEF SameQueues

\* A step that leaves the handlers alone leaves those of every order.
LEMMA HandsStay == ASSUME UNCHANGED job PROVE \A o \in Orders : SameHands(o)
BY DEF SameHands, InHand

\* A step that leaves the charges alone leaves those of every order.
LEMMA ChargesStand == ASSUME UNCHANGED charge PROVE \A o \in Orders : SameCharges(o)
BY DEF SameCharges, Charged

\* A message of one order is put in a queue.
LEMMA PutOne ==
    ASSUME IInv, NEW k \in Kinds, NEW a \in Orders, Put(k, a)
    PROVE  /\ \A o \in Orders \ {a} : SameQueues(o)
           /\ \A l \in Kinds \ {k} : queue'[l][a] = queue[l][a]
           /\ queue'[k][a] = queue[k][a] + 1
<1>1. queue \in [Kinds -> [Orders -> Nat]] /\ queue' = [queue EXCEPT ![k][a] = @ + 1]
  BY DEF IInv, TypeOK, Put
<1>2. /\ queue'[k] = [queue[k] EXCEPT ![a] = queue[k][a] + 1] /\ queue[k] \in [Orders -> Nat]
      /\ \A l \in Kinds \ {k} : queue'[l] = queue[l]
  BY <1>1
<1>3. /\ queue'[k][a] = queue[k][a] + 1
      /\ \A o \in Orders \ {a} : queue'[k][o] = queue[k][o]
  BY <1>2
<1> QED BY <1>2, <1>3 DEF SameQueues

\* The only message of an order is taken.
LEMMA GetOne ==
    ASSUME IInv, NEW k \in Kinds, NEW a \in Orders, Get(k, a), OnlyQueued(a, k)
    PROVE  /\ \A o \in Orders \ {a} : SameQueues(o)
           /\ Unqueued(a)'
<1>1. queue \in [Kinds -> [Orders -> Nat]] /\ queue' = [queue EXCEPT ![k][a] = @ - 1]
  BY DEF IInv, TypeOK, Get
<1>2. /\ queue'[k] = [queue[k] EXCEPT ![a] = queue[k][a] - 1] /\ queue[k] \in [Orders -> Nat]
      /\ \A l \in Kinds \ {k} : queue'[l] = queue[l]
  BY <1>1
<1>3. queue'[k][a] = 0 /\ \A o \in Orders \ {a} : queue'[k][o] = queue[k][o]
  BY <1>2 DEF OnlyQueued
<1> QED BY <1>2, <1>3 DEF OnlyQueued, Unqueued, SameQueues

\* A handler works on one order only.
LEMMA HandsOne ==
    ASSUME NEW w \in Workers, NEW a \in Orders,
           \A v \in Workers : v # w => job'[v] = job[v],
           job[w] # None => job[w].order = a, job'[w] # None => job'[w].order = a
    PROVE  /\ \A o \in Orders \ {a} : SameHands(o)
           /\ \A v \in Workers \ {w} : InHand(v, a)' <=> InHand(v, a)
BY DEF SameHands, InHand

\* So does a consumer of payment-service.
LEMMA ChargesOne ==
    ASSUME NEW p \in Payers, NEW a \in Orders,
           \A q \in Payers : q # p => charge'[q] = charge[q],
           charge[p] # None => charge[p].order = a, charge'[p] # None => charge'[p].order = a
    PROVE  /\ \A o \in Orders \ {a} : SameCharges(o)
           /\ \A q \in Payers \ {p} : Charged(q, a)' <=> Charged(q, a)
BY DEF SameCharges, Charged

-----------------------------------------------------------------------------
(* order-service: the order and its outbox event.                          *)

\* A customer orders: nothing holds the order until its event is relayed.
LEMMA CreateTells == ASSUME IInv, Stories, NEW o \in Orders, Create(o) PROVE Stories'
<1>1. /\ order[o] = "NONE" /\ order' = [order EXCEPT ![o] = "PENDING"]
      /\ UNCHANGED <<relayed, queue, job, orphan, reservation, charge, payments,
                     events, notified>>
  BY DEF Create, inventory, billing, customer
<1>2. order'[o] = "PENDING" /\ \A x \in Orders \ {o} : order'[x] = order[x]
  BY <1>1 DEF IInv, TypeOK
<1>3. Nowhere(o) /\ o \notin relayed /\ Untold(o, "NONE", "NONE", {})
  BY <1>1 DEF Stories, Story, Awaited, Handled, CreatedHandled, SucceededHandled,
              FailedHandled, Paying, Finished, Untold, Told
<1>4. Story(o)'
  BY <1>1, <1>2, <1>3
  DEF Story, Nowhere, Unqueued, Unhandled, Uncharged, InHand, Charged, Untold
<1>5. \A x \in Orders \ {o} :
          SameTale(x) /\ SameQueues(x) /\ SameHands(x) /\ SameCharges(x)
  BY <1>1, <1>2, QueueStays, HandsStay, ChargesStand DEF SameTale
<1> QED BY <1>1, <1>4, <1>5, GoesOn

\* The outbox event becomes order.created.
LEMMA RelayTells == ASSUME IInv, Stories, NEW o \in Orders, Relay(o) PROVE Stories'
<1> DEFINE k == "order.created"
<1>1. /\ order[o] # "NONE" /\ o \notin relayed /\ relayed' = relayed \cup {o}
      /\ Put(k, o) /\ k \in Kinds
      /\ UNCHANGED <<order, job, orphan, reservation, charge, payments, events, notified>>
  BY DEF Relay, inventory, billing, customer, Kinds, SagaKinds
<1>2. Nowhere(o) /\ Untold(o, "PENDING", "NONE", {})
  BY <1>1 DEF Stories, Story, Untold
<1>3. /\ \A x \in Orders \ {o} : SameQueues(x)
      /\ \A l \in Kinds \ {k} : queue'[l][o] = queue[l][o]
      /\ queue'[k][o] = queue[k][o] + 1
  BY <1>1, PutOne
<1>4. OnlyQueued(o, k)'
  BY <1>1, <1>2, <1>3
  DEF OnlyQueued, Nowhere, Unqueued, Unhandled, Uncharged, InHand, Charged
<1>5. Awaited(o, k)' /\ o \in relayed'
  BY <1>1, <1>2 DEF Awaited, Untold
<1>6. Story(o)'
  BY <1>1, <1>4, <1>5 DEF Story
<1>7. \A x \in Orders \ {o} :
          SameTale(x) /\ SameQueues(x) /\ SameHands(x) /\ SameCharges(x)
  BY <1>1, <1>3, HandsStay, ChargesStand DEF SameTale
<1> QED BY <1>1, <1>6, <1>7, GoesOn

-----------------------------------------------------------------------------
(* The saga handlers.                                                      *)

\* A handler takes the order out of its queue.
LEMMA StartTells == ASSUME IInv, Stories, NEW w \in Workers, Start(w) PROVE Stories'
<1>1. PICK k \in SagaKinds, o \in Orders :
          /\ Get(k, o)
          /\ job' = [job EXCEPT ![w] = [kind |-> k, order |-> o,
                                        answer |-> "none", step |-> "call"]]
  BY DEF Start
<1> DEFINE j == [kind |-> k, order |-> o, answer |-> "none", step |-> "call"]
<1>2. /\ UNCHANGED <<order, relayed, orphan, reservation, charge, payments, events, notified>>
      /\ job[w] = None /\ k \in Kinds /\ queue[k][o] > 0
  BY <1>1 DEF Start, inventory, billing, customer, Kinds, Get
<1>3. j \in Job /\ j # None
  BY SlotAssumption DEF Job, Answers, Stages
<1>4. job'[w] = j /\ \A v \in Workers : v # w => job'[v] = job[v]
  BY <1>1 DEF IInv, TypeOK
<1>5. o \in relayed /\ OnlyQueued(o, k) /\ Awaited(o, k)
  BY <1>2, FoundQueued DEF Stories
<1>6. /\ \A x \in Orders \ {o} : SameQueues(x)
      /\ Unqueued(o)'
  BY <1>1, <1>2, <1>5, GetOne
<1>7. /\ \A x \in Orders \ {o} : SameHands(x)
      /\ \A v \in Workers \ {w} : InHand(v, o)' <=> InHand(v, o)
  BY <1>2, <1>3, <1>4, HandsOne
<1>8. InHand(w, o)'
  BY <1>3, <1>4 DEF InHand
<1>9. OnlyInHand(o, w)'
  BY <1>2, <1>5, <1>6, <1>7, <1>8
  DEF OnlyInHand, OnlyQueued, Unhandled, Uncharged, Charged
<1>10. Handled(o, job[w])'
  <2>1. job'[w].kind = k /\ job'[w].step = "call"
    BY <1>4
  <2> QED BY <1>2, <1>5, <2>1
          DEF Awaited, Handled, CreatedHandled, SucceededHandled, FailedHandled, Untold,
              SagaKinds, Stages
<1>11. Story(o)'
  BY <1>2, <1>5, <1>9, <1>10 DEF Story
<1>12. \A x \in Orders \ {o} :
           SameTale(x) /\ SameQueues(x) /\ SameHands(x) /\ SameCharges(x)
  BY <1>2, <1>6, <1>7, ChargesStand DEF SameTale
<1> QED BY <1>2, <1>11, <1>12, GoesOn

\* A handler goes on with its order.
LEMMA HandGoesOn ==
    ASSUME IInv, Stories, NEW w \in Workers, NEW a \in Orders, InHand(w, a),
           UNCHANGED <<relayed, queue, orphan, charge>>,
           \A x \in Orders \ {a} : SameTale(x),
           \A v \in Workers : v # w => job'[v] = job[v],
           job'[w] # None, job'[w].order = a, job'[w].step # "ack",
           Handled(a, job[w])'
    PROVE  Stories'
<1>1. a \in relayed /\ OnlyInHand(a, w)
  BY FoundInHand DEF Stories
<1>2. /\ \A x \in Orders \ {a} : SameHands(x)
      /\ \A v \in Workers \ {w} : InHand(v, a)' <=> InHand(v, a)
  BY HandsOne DEF InHand
<1>3. InHand(w, a)'
  BY DEF InHand
<1>4. OnlyInHand(a, w)'
  BY <1>1, <1>2, <1>3 DEF OnlyInHand, Unqueued, Uncharged, Charged
<1>5. Story(a)'
  BY <1>1, <1>4 DEF Story
<1> QED BY <1>2, <1>5, GoesOn, QueueStays, ChargesStand

\* What inventory-service holds when a handler calls it.
LEMMA CallFollows ==
    ASSUME IInv, Stories, NEW w \in Workers, job[w] # None, job[w].step \in Stages
    PROVE  LET a == job[w].order
               op == OpOf(job[w].kind) IN
           /\ a \in Orders /\ InHand(w, a)
           /\ \/ /\ job[w].kind = "order.created" /\ op = "reserve"
                 /\ Untold(a, "PENDING", "NONE", {})
              \/ /\ job[w].kind = "payment.succeeded" /\ op = "confirm"
                 /\ Untold(a, "INVENTORY_RESERVED", "RESERVED", {"SUCCESS"})
              \/ /\ job[w].kind = "payment.failed" /\ op = "release"
                 /\ Untold(a, "INVENTORY_RESERVED", "RESERVED", {"FAILED"})
<1> DEFINE a == job[w].order
<1>1. a \in Orders /\ job[w].kind \in SagaKinds /\ InHand(w, a)
  BY JobType DEF InHand, Stages
<1>2. Handled(a, job[w])
  BY <1>1, FoundInHand DEF Stories
<1>3. job[w].step \notin {"status", "publish", "notify"}
  BY DEF Stages
<1> QED BY <1>1, <1>2, <1>3, OpTypes
        DEF Handled, CreatedHandled, SucceededHandled, FailedHandled

\* The lookup finds what the operation is for, so that its transaction follows.
LEMMA ServeLookupTells ==
    ASSUME IInv, Stories, NEW w \in Workers, ServeLookup(w)
    PROVE  Stories'
<1>1. /\ UNCHANGED <<order, relayed, queue, orphan, reservation, charge, payments,
                     events, notified>>
      /\ job[w] # None /\ job[w].step \in Stages
  BY DEF ServeLookup, At, inventory, billing, customer, Stages
<1>2. PICK a \in Orders : a = job[w].order /\ InHand(w, a)
  BY <1>1, CallFollows
<1>3. reservation[a] \in Transacts(OpOf(job[w].kind))
  BY <1>1, <1>2, CallFollows DEF Transacts, Untold
<1>4. Goto(w, "commit") /\ "commit" \in JobSteps /\ "commit" \in Stages
  BY <1>2, <1>3 DEF ServeLookup, JobSteps, Stages
<1>5. /\ job'[w] # None /\ job'[w].kind = job[w].kind /\ job'[w].order = a
      /\ job'[w].step = "commit"
      /\ \A v \in Workers : v # w => job'[v] = job[v]
  BY <1>1, <1>2, <1>4, JobGoes
<1>6. Handled(a, job[w])'
  BY <1>1, <1>2, <1>4, <1>5, CallFollows
  DEF Handled, CreatedHandled, SucceededHandled, FailedHandled, Untold
<1>7. \A x \in Orders \ {a} : SameTale(x)
  BY <1>1 DEF SameTale
<1> QED BY <1>1, <1>2, <1>5, <1>6, <1>7, HandGoesOn

\* inventory-service commits what a handler asked for, or refuses it.
LEMMA ServeCommitTells ==
    ASSUME IInv, Stories, NEW w \in Workers, ServeCommit(w)
    PROVE  Stories'
<1>1. /\ UNCHANGED <<order, relayed, queue, orphan, charge, payments, events, notified>>
      /\ job[w] # None /\ job[w].step \in Stages
  BY DEF ServeCommit, At, billing, customer, Stages
<1>2. PICK a \in Orders : a = job[w].order /\ InHand(w, a)
  BY <1>1, CallFollows
<1>3. PICK answer \in Answers : Transact(OpOf(job[w].kind), a, answer) /\ Answer(w, answer)
  BY <1>2 DEF ServeCommit
<1>4. job[w].kind \in SagaKinds
  BY <1>1, JobType
<1>5. \/ /\ job[w].kind = "order.created" /\ OpOf(job[w].kind) = "reserve"
         /\ Untold(a, "PENDING", "NONE", {})
      \/ /\ job[w].kind = "payment.succeeded" /\ OpOf(job[w].kind) = "confirm"
         /\ Untold(a, "INVENTORY_RESERVED", "RESERVED", {"SUCCESS"})
      \/ /\ job[w].kind = "payment.failed" /\ OpOf(job[w].kind) = "release"
         /\ Untold(a, "INVENTORY_RESERVED", "RESERVED", {"FAILED"})
  BY <1>1, <1>2, CallFollows
<1>6. /\ \A x \in Orders \ {a} : reservation'[x] = reservation[x]
      /\ job[w].kind = "order.created" =>
            \/ answer = "success" /\ reservation'[a] = "RESERVED"
            \/ answer = "failure" /\ reservation'[a] = "NONE"
      /\ job[w].kind = "payment.succeeded" =>
            answer = "success" /\ reservation'[a] = "CONFIRMED"
      /\ job[w].kind = "payment.failed" =>
            answer = "success" /\ reservation'[a] = "RELEASED"
  <2>1. reservation \in [Orders -> Bookings]
    BY DEF IInv, TypeOK
  <2>2. CASE job[w].kind = "order.created" /\ Reserve(a, answer) /\ reservation[a] = "NONE"
    BY <1>4, <2>1, <2>2 DEF Reserve, Book, inventory
  <2>3. CASE job[w].kind = "payment.succeeded" /\ Confirm(a, answer) /\ reservation[a] = "RESERVED"
    BY <1>4, <2>1, <2>3 DEF Confirm, Book
  <2>4. CASE job[w].kind = "payment.failed" /\ Release(a, answer) /\ reservation[a] = "RESERVED"
    BY <1>4, <2>1, <2>4 DEF Release, Book
  <2>5. /\ job[w].kind = "order.created" => Reserve(a, answer) /\ reservation[a] = "NONE"
        /\ job[w].kind = "payment.succeeded" => Confirm(a, answer) /\ reservation[a] = "RESERVED"
        /\ job[w].kind = "payment.failed" => Release(a, answer) /\ reservation[a] = "RESERVED"
    BY <1>3, <1>5 DEF Transact, Untold
  <2> QED BY <1>5, <2>2, <2>3, <2>4, <2>5
<1>7. Resume(w, answer, "status") /\ "status" \in JobSteps
  BY <1>3, <1>4, <1>6 DEF Answer, SagaKinds, JobSteps
<1>8. /\ job'[w] # None /\ job'[w].kind = job[w].kind /\ job'[w].order = a
      /\ job'[w].answer = answer /\ job'[w].step = "status"
      /\ \A v \in Workers : v # w => job'[v] = job[v]
  BY <1>1, <1>2, <1>7, JobSet
<1>9. Handled(a, job[w])'
  BY <1>1, <1>5, <1>6, <1>8
  DEF Handled, CreatedHandled, SucceededHandled, FailedHandled, Untold
<1>10. \A x \in Orders \ {a} : SameTale(x)
  BY <1>1, <1>6 DEF SameTale
<1> QED BY <1>1, <1>2, <1>8, <1>9, <1>10, HandGoesOn

\* Every call is answered.
LEMMA NeverWaits == ASSUME IInv, Stories, NEW w \in Workers, TimeoutLost(w) PROVE FALSE
<1>1. job[w] # None /\ job[w].step = "wait" /\ job[w].order \in Orders
  BY JobType DEF TimeoutLost, At
<1>2. Handled(job[w].order, job[w])
  BY <1>1, FoundInHand DEF Stories, InHand
<1> QED BY <1>1, <1>2 DEF Handled, CreatedHandled, SucceededHandled, FailedHandled, Stages

\* The status a handler sets is the next one of the order's life.
LEMMA StatusFollows ==
    ASSUME IInv, Stories, NEW w \in Workers, At(w, "status")
    PROVE  LET a == job[w].order IN
           /\ a \in Orders /\ InHand(w, a)
           /\ \/ /\ job[w].kind = "order.created" /\ job[w].answer = "success"
                 /\ Target(job[w]) = "INVENTORY_RESERVED"
                 /\ Untold(a, "PENDING", "RESERVED", {})
              \/ /\ job[w].kind = "order.created" /\ job[w].answer = "failure"
                 /\ Target(job[w]) = "CANCELLED"
                 /\ Untold(a, "PENDING", "NONE", {})
              \/ /\ job[w].kind = "payment.succeeded" /\ Target(job[w]) = "COMPLETED"
                 /\ Untold(a, "INVENTORY_RESERVED", "CONFIRMED", {"SUCCESS"})
              \/ /\ job[w].kind = "payment.failed" /\ Target(job[w]) = "CANCELLED"
                 /\ Untold(a, "INVENTORY_RESERVED", "RELEASED", {"FAILED"})
<1> DEFINE a == job[w].order
<1>1. job[w] # None /\ job[w].step = "status"
  BY DEF At
<1>2. a \in Orders /\ InHand(w, a) /\ job[w] \in Job
  BY <1>1, JobType DEF InHand, IInv, TypeOK
<1>3. Handled(a, job[w])
  BY <1>2, FoundInHand DEF Stories
<1>4. /\ job[w].kind = "payment.succeeded" => Target(job[w]) = "COMPLETED"
      /\ job[w].kind = "payment.failed" => Target(job[w]) = "CANCELLED"
      /\ job[w].kind = "order.created" =>
            Target(job[w]) = IF job[w].answer = "success" THEN "INVENTORY_RESERVED"
                             ELSE "CANCELLED"
  BY <1>2 DEF Target
<1> QED BY <1>1, <1>2, <1>3, <1>4
        DEF Handled, CreatedHandled, SucceededHandled, FailedHandled, Stages

\* A handler updates the status of its order.
LEMMA SetStatusTells == ASSUME IInv, Stories, NEW w \in Workers, SetStatus(w) PROVE Stories'
<1> DEFINE st == IF Target(job[w]) \in Terminal THEN "notify" ELSE "publish"
<1>1. st \in JobSteps \ {"ack"}
  BY DEF JobSteps
<1>2. PICK a \in Orders : a = job[w].order /\ InHand(w, a)
  BY StatusFollows DEF SetStatus
<1>3. /\ At(w, "status") /\ Goto(w, st) /\ job[w] # None
      /\ order' = [order EXCEPT ![a] = Target(job[w])]
      /\ UNCHANGED <<relayed, queue, orphan, reservation, charge, payments, events, notified>>
  BY <1>2 DEF SetStatus, At, inventory, billing, customer
<1>4. /\ job'[w] # None /\ job'[w].kind = job[w].kind /\ job'[w].order = a
      /\ job'[w].answer = job[w].answer /\ job'[w].step = st
      /\ \A v \in Workers : v # w => job'[v] = job[v]
  <2> HIDE DEF st
  <2> QED BY <1>1, <1>2, <1>3, JobGoes
<1>5. order'[a] = Target(job[w]) /\ \A x \in Orders \ {a} : order'[x] = order[x]
  BY <1>2, <1>3 DEF IInv, TypeOK
<1>6. Handled(a, job[w])'
  <2> PICK status : status = Target(job[w])
    OBVIOUS
  <2>1. \A last, booking, paid :
            Untold(a, last, booking, paid) => Untold(a, status, booking, paid)'
    BY <1>3, <1>5 DEF Untold
  <2>2. /\ status \in {"COMPLETED", "CANCELLED"} => job'[w].step = "notify"
        /\ status = "INVENTORY_RESERVED" => job'[w].step = "publish"
    BY <1>4 DEF Terminal
  <2>3. \/ /\ job[w].kind = "order.created" /\ job[w].answer = "success"
           /\ status = "INVENTORY_RESERVED"
           /\ Untold(a, "PENDING", "RESERVED", {})
        \/ /\ job[w].kind = "order.created" /\ job[w].answer = "failure"
           /\ status = "CANCELLED"
           /\ Untold(a, "PENDING", "NONE", {})
        \/ /\ job[w].kind = "payment.succeeded" /\ status = "COMPLETED"
           /\ Untold(a, "INVENTORY_RESERVED", "CONFIRMED", {"SUCCESS"})
        \/ /\ job[w].kind = "payment.failed" /\ status = "CANCELLED"
           /\ Untold(a, "INVENTORY_RESERVED", "RELEASED", {"FAILED"})
    BY <1>2, <1>3, StatusFollows
  <2>4. \/ /\ job[w].kind = "order.created" /\ job[w].answer = "success"
           /\ job'[w].step = "publish" /\ Untold(a, "INVENTORY_RESERVED", "RESERVED", {})'
        \/ /\ job[w].kind = "order.created" /\ job[w].answer = "failure"
           /\ job'[w].step = "notify" /\ Untold(a, "CANCELLED", "NONE", {})'
        \/ /\ job[w].kind = "payment.succeeded" /\ job'[w].step = "notify"
           /\ Untold(a, "COMPLETED", "CONFIRMED", {"SUCCESS"})'
        \/ /\ job[w].kind = "payment.failed" /\ job'[w].step = "notify"
           /\ Untold(a, "CANCELLED", "RELEASED", {"FAILED"})'
    BY <2>1, <2>2, <2>3
  <2> QED BY <1>4, <2>4 DEF Handled, CreatedHandled, SucceededHandled, FailedHandled
<1>7. \A x \in Orders \ {a} : SameTale(x)
  BY <1>3, <1>5 DEF SameTale
<1>8. job'[w].step # "ack"
  BY <1>1, <1>4
<1> HIDE DEF st
<1> QED BY <1>2, <1>3, <1>4, <1>6, <1>7, <1>8, HandGoesOn

\* A handler that passes its order on has its ack left.
LEMMA HandLeaves ==
    ASSUME IInv, Stories, NEW w \in Workers, NEW a \in Orders, InHand(w, a), Goto(w, "ack")
    PROVE  /\ a \in relayed /\ OnlyInHand(a, w) /\ Handled(a, job[w])
           /\ \A x \in Orders \ {a} : SameHands(x)
           /\ Unhandled(a)'
<1>1. a \in relayed /\ OnlyInHand(a, w) /\ Handled(a, job[w])
  BY FoundInHand DEF Stories
<1>2. /\ job'[w].order = a /\ job'[w].step = "ack"
      /\ \A v \in Workers : v # w => job'[v] = job[v]
  BY JobGoes DEF InHand, JobSteps
<1>3. /\ \A x \in Orders \ {a} : SameHands(x)
      /\ \A v \in Workers \ {w} : InHand(v, a)' <=> InHand(v, a)
  BY <1>2, HandsOne DEF InHand
<1>4. ~InHand(w, a)'
  BY <1>2 DEF InHand
<1> QED BY <1>1, <1>3, <1>4 DEF OnlyInHand, Unhandled

\* A handler publishes order.status-changed, and is left with its ack.
LEMMA NotifyTells == ASSUME IInv, Stories, NEW w \in Workers, Notify(w) PROVE Stories'
<1>1. /\ UNCHANGED <<order, relayed, queue, orphan, reservation, charge, payments, notified>>
      /\ job[w] # None /\ job[w].step = "notify" /\ Goto(w, "ack")
  BY DEF Notify, At, inventory, billing
<1>2. PICK a \in Orders : a = job[w].order /\ InHand(w, a)
  BY <1>1, JobType DEF InHand
<1>3. /\ a \in relayed /\ OnlyInHand(a, w) /\ Handled(a, job[w])
      /\ \A x \in Orders \ {a} : SameHands(x)
      /\ Unhandled(a)'
  BY <1>1, <1>2, HandLeaves
<1>4. /\ events'[a] = events[a] \cup {Target(job[w])}
      /\ \A x \in Orders \ {a} : events'[x] = events[x]
  BY <1>2 DEF Notify, IInv, TypeOK
<1>5. \/ /\ Untold(a, "CANCELLED", "NONE", {}) /\ Target(job[w]) = "CANCELLED"
      \/ /\ Untold(a, "COMPLETED", "CONFIRMED", {"SUCCESS"}) /\ Target(job[w]) = "COMPLETED"
      \/ /\ Untold(a, "CANCELLED", "RELEASED", {"FAILED"}) /\ Target(job[w]) = "CANCELLED"
  BY <1>1, <1>3 DEF Handled, CreatedHandled, SucceededHandled, FailedHandled, Stages, Target
<1>6. Finished(a)'
  BY <1>1, <1>4, <1>5 DEF Finished, Untold, Told
<1>7. Nowhere(a)' /\ a \in relayed'
  BY <1>1, <1>3 DEF OnlyInHand, Nowhere, Unqueued, Uncharged, Charged
<1>8. Story(a)'
  BY <1>6, <1>7 DEF Story
<1>9. \A x \in Orders \ {a} :
          SameTale(x) /\ SameQueues(x) /\ SameHands(x) /\ SameCharges(x)
  BY <1>1, <1>3, <1>4, QueueStays, ChargesStand DEF SameTale
<1> QED BY <1>1, <1>8, <1>9, GoesOn

\* The handler of order.created hands the order on to payment-service.
LEMMA RequestPaymentTells ==
    ASSUME IInv, Stories, NEW w \in Workers, RequestPayment(w)
    PROVE  Stories'
<1> DEFINE k == "payment.requested"
<1>1. /\ UNCHANGED <<order, relayed, orphan, reservation, charge, payments, events, notified>>
      /\ job[w] # None /\ job[w].step = "publish" /\ Goto(w, "ack") /\ k \in Kinds
  BY DEF RequestPayment, At, inventory, billing, customer, Kinds
<1>2. PICK a \in Orders : a = job[w].order /\ InHand(w, a)
  BY <1>1, JobType DEF InHand
<1>3. /\ a \in relayed /\ OnlyInHand(a, w) /\ Handled(a, job[w])
      /\ \A x \in Orders \ {a} : SameHands(x)
      /\ Unhandled(a)'
  BY <1>1, <1>2, HandLeaves
<1>4. /\ \A x \in Orders \ {a} : SameQueues(x)
      /\ \A l \in Kinds \ {k} : queue'[l][a] = queue[l][a]
      /\ queue'[k][a] = queue[k][a] + 1
  BY <1>1, <1>2, PutOne DEF RequestPayment
<1>5. OnlyQueued(a, k)'
  BY <1>1, <1>3, <1>4 DEF OnlyInHand, OnlyQueued, Unqueued, Uncharged, Charged
<1>6. Untold(a, "INVENTORY_RESERVED", "RESERVED", {})
  BY <1>1, <1>3 DEF Handled, CreatedHandled, SucceededHandled, FailedHandled, Stages
<1>7. Awaited(a, k)' /\ a \in relayed'
  BY <1>1, <1>3, <1>6 DEF Awaited, Untold
<1>8. Story(a)'
  BY <1>1, <1>5, <1>7 DEF Story
<1>9. \A x \in Orders \ {a} :
          SameTale(x) /\ SameQueues(x) /\ SameHands(x) /\ SameCharges(x)
  BY <1>1, <1>3, <1>4, ChargesStand DEF SameTale
<1> QED BY <1>1, <1>8, <1>9, GoesOn

\* The ack is about no order any more.
LEMMA AckTells == ASSUME IInv, Stories, NEW w \in Workers, Ack(w) PROVE Stories'
<1>1. /\ UNCHANGED <<order, relayed, queue, orphan, reservation, charge, payments,
                     events, notified>>
      /\ job[w] # None /\ job[w].step = "ack"
      /\ job' = [job EXCEPT ![w] = None]
  BY DEF Ack, At, inventory, billing, customer
<1>2. job'[w] = None /\ \A v \in Workers : v # w => job'[v] = job[v]
  BY <1>1, JobEnds
<1>3. PICK a \in Orders : a = job[w].order
  BY <1>1, JobType
<1>4. /\ \A x \in Orders \ {a} : SameHands(x)
      /\ \A v \in Workers \ {w} : InHand(v, a)' <=> InHand(v, a)
  BY <1>1, <1>2, <1>3, HandsOne
<1>5. ~InHand(w, a) /\ ~InHand(w, a)'
  BY <1>1, <1>2 DEF InHand
<1>6. SameHands(a)
  BY <1>2, <1>4, <1>5 DEF SameHands
<1>7. \A x \in Orders : SameTale(x) /\ SameQueues(x) /\ SameHands(x) /\ SameCharges(x)
  BY <1>1, <1>4, <1>6, QueueStays, ChargesStand DEF SameTale
<1>8. Story(a)'
  BY <1>7, Apart DEF Stories
<1> QED BY <1>1, <1>7, <1>8, GoesOn

-----------------------------------------------------------------------------
(* payment-service.                                                        *)

\* payment-service takes a request.
LEMMA StartChargeTells ==
    ASSUME IInv, Stories, NEW p \in Payers, StartCharge(p)
    PROVE  Stories'
<1> DEFINE k == "payment.requested"
<1>1. PICK o \in Orders :
          /\ Get(k, o)
          /\ charge' = IF payments[o] # {} THEN charge
                       ELSE [charge EXCEPT ![p] = [order |-> o, outcome |-> "none"]]
  BY DEF StartCharge
<1>2. /\ UNCHANGED <<order, relayed, job, orphan, reservation, payments, events, notified>>
      /\ charge[p] = None /\ k \in Kinds /\ queue[k][o] > 0
  BY <1>1 DEF StartCharge, inventory, customer, Kinds, Get
<1>3. o \in relayed /\ OnlyQueued(o, k) /\ Untold(o, "INVENTORY_RESERVED", "RESERVED", {})
  BY <1>2, FoundQueued DEF Stories, Awaited
<1>4. [order |-> o, outcome |-> "none"] \in Charge
  BY DEF Charge
<1>5. /\ charge'[p] = [order |-> o, outcome |-> "none"] /\ charge'[p] # None
      /\ \A q \in Payers : q # p => charge'[q] = charge[q]
  BY <1>1, <1>3, <1>4, SlotAssumption DEF Untold, IInv, TypeOK
<1>6. /\ \A x \in Orders \ {o} : SameQueues(x)
      /\ Unqueued(o)'
  BY <1>1, <1>2, <1>3, GetOne
<1>7. /\ \A x \in Orders \ {o} : SameCharges(x)
      /\ \A q \in Payers \ {p} : Charged(q, o)' <=> Charged(q, o)
  BY <1>2, <1>5, ChargesOne
<1>8. Charged(p, o)'
  BY <1>5 DEF Charged
<1>9. OnlyCharged(o, p)'
  BY <1>2, <1>3, <1>6, <1>7, <1>8
  DEF OnlyCharged, OnlyQueued, Unhandled, Uncharged, InHand
<1>10. Paying(o, charge[p])'
  BY <1>2, <1>3, <1>5 DEF Paying, Untold
<1>11. Story(o)'
  BY <1>2, <1>3, <1>9, <1>10 DEF Story
<1>12. \A x \in Orders \ {o} :
           SameTale(x) /\ SameQueues(x) /\ SameHands(x) /\ SameCharges(x)
  BY <1>2, <1>6, <1>7, HandsStay DEF SameTale
<1> QED BY <1>2, <1>11, <1>12, GoesOn

\* payment-service records an outcome.
LEMMA SavePaymentTells ==
    ASSUME IInv, Stories, NEW p \in Payers, SavePayment(p)
    PROVE  Stories'
<1>1. /\ UNCHANGED <<order, relayed, queue, job, orphan, reservation, events, notified>>
      /\ charge[p] # None /\ charge[p].outcome = "none"
  BY DEF SavePayment, inventory, customer
<1>2. PICK o \in Orders : o = charge[p].order /\ Charged(p, o)
  BY <1>1, ChargeType DEF Charged
<1>3. PICK outcome \in Outcomes :
          /\ charge' = [charge EXCEPT ![p].outcome = outcome]
          /\ payments' = [payments EXCEPT ![o] = @ \cup {outcome}]
  BY <1>2 DEF SavePayment
<1>4. o \in relayed /\ OnlyCharged(o, p) /\ Untold(o, "INVENTORY_RESERVED", "RESERVED", {})
  BY <1>1, <1>2, FoundCharged DEF Stories, Paying
<1>5. /\ charge'[p].order = o /\ charge'[p].outcome = outcome /\ charge'[p] # None
      /\ \A q \in Payers : q # p => charge'[q] = charge[q]
  <2>1. charge \in [Payers -> Charge \cup {None}] /\ charge[p] \in Charge
    BY <1>1, ChargeType DEF IInv, TypeOK
  <2>2. charge'[p] = [charge[p] EXCEPT !.outcome = outcome]
    BY <1>3, <2>1
  <2>3. charge'[p] \in Charge /\ charge'[p].order = o /\ charge'[p].outcome = outcome
    BY <1>2, <2>1, <2>2 DEF Charge
  <2> QED BY <1>3, <2>1, <2>3, SlotAssumption
<1>6. /\ payments'[o] = {outcome}
      /\ \A x \in Orders \ {o} : payments'[x] = payments[x]
  BY <1>3, <1>4 DEF Untold, IInv, TypeOK
<1>7. /\ \A x \in Orders \ {o} : SameCharges(x)
      /\ \A q \in Payers \ {p} : Charged(q, o)' <=> Charged(q, o)
  BY <1>2, <1>5, ChargesOne
<1>8. OnlyCharged(o, p)'
  BY <1>1, <1>4, <1>5, <1>7 DEF OnlyCharged, Charged, Unqueued, Unhandled, InHand
<1>9. Paying(o, charge[p])'
  BY <1>1, <1>4, <1>5, <1>6 DEF Paying, Untold, Outcomes
<1>10. Story(o)'
  BY <1>1, <1>4, <1>8, <1>9 DEF Story
<1>11. \A x \in Orders \ {o} :
           SameTale(x) /\ SameQueues(x) /\ SameHands(x) /\ SameCharges(x)
  BY <1>1, <1>6, <1>7, QueueStays, HandsStay DEF SameTale
<1> QED BY <1>1, <1>10, <1>11, GoesOn

\* payment-service hands the order back.
LEMMA PublishResultTells ==
    ASSUME IInv, Stories, NEW p \in Payers, PublishResult(p)
    PROVE  Stories'
<1>1. /\ UNCHANGED <<order, relayed, job, orphan, reservation, payments, events, notified>>
      /\ charge[p] # None /\ charge[p].outcome # "none"
      /\ charge' = [charge EXCEPT ![p] = None]
  BY DEF PublishResult, inventory, customer
<1>2. PICK o \in Orders : o = charge[p].order /\ Charged(p, o)
  BY <1>1, ChargeType DEF Charged
<1>3. /\ o \in relayed /\ OnlyCharged(o, p) /\ charge[p].outcome \in Outcomes
      /\ Untold(o, "INVENTORY_RESERVED", "RESERVED", {charge[p].outcome})
  BY <1>1, <1>2, FoundCharged, ChargeType DEF Stories, Paying
<1>4. PICK k \in {"payment.succeeded", "payment.failed"} :
          /\ Put(k, o)
          /\ k = "payment.succeeded" <=> charge[p].outcome = "SUCCESS"
  BY <1>2 DEF PublishResult
<1>5. k \in Kinds
  BY DEF Kinds, SagaKinds
<1>6. charge'[p] = None /\ \A q \in Payers : q # p => charge'[q] = charge[q]
  BY <1>1 DEF IInv, TypeOK
<1>7. /\ \A x \in Orders \ {o} : SameQueues(x)
      /\ \A l \in Kinds \ {k} : queue'[l][o] = queue[l][o]
      /\ queue'[k][o] = queue[k][o] + 1
  BY <1>4, <1>5, PutOne
<1>8. /\ \A x \in Orders \ {o} : SameCharges(x)
      /\ \A q \in Payers \ {p} : Charged(q, o)' <=> Charged(q, o)
  BY <1>2, <1>6, ChargesOne
<1>9. Uncharged(o)'
  BY <1>3, <1>6, <1>8 DEF OnlyCharged, Uncharged, Charged
<1>10. OnlyQueued(o, k)'
  BY <1>1, <1>3, <1>5, <1>7, <1>9 DEF OnlyCharged, OnlyQueued, Unqueued, Unhandled, InHand
<1>11. Awaited(o, k)' /\ o \in relayed'
  BY <1>1, <1>3, <1>4 DEF Awaited, Untold, Outcomes
<1>12. Story(o)'
  BY <1>5, <1>10, <1>11 DEF Story
<1>13. \A x \in Orders \ {o} :
           SameTale(x) /\ SameQueues(x) /\ SameHands(x) /\ SameCharges(x)
  BY <1>1, <1>7, <1>8, HandsStay DEF SameTale
<1> QED BY <1>1, <1>12, <1>13, GoesOn

-----------------------------------------------------------------------------
(* notification-service.                                                   *)

\* The notification of an order's end reaches its customer.
LEMMA SendTells ==
    ASSUME IInv, Stories, NEW o \in Orders, NEW status \in Terminal, Send(o, status)
    PROVE  Stories'
<1>1. /\ UNCHANGED <<order, relayed, queue, job, orphan, reservation, charge, payments>>
      /\ status \in events[o]
      /\ events' = [events EXCEPT ![o] = @ \ {status}]
      /\ notified' = [notified EXCEPT ![o] = @ \cup {status}]
  BY DEF Send, Consume, inventory, billing
<1>2. o \in relayed /\ Nowhere(o) /\ Finished(o)
  BY <1>1 DEF Stories, Story, Awaited, Handled, CreatedHandled, SucceededHandled,
              FailedHandled, Paying, Untold
<1>3. /\ events'[o] \cup notified'[o] = events[o] \cup notified[o]
      /\ \A x \in Orders \ {o} : events'[x] = events[x] /\ notified'[x] = notified[x]
  BY <1>1 DEF IInv, TypeOK
<1>4. Finished(o)'
  BY <1>1, <1>2, <1>3 DEF Finished, Told
<1>5. Nowhere(o)' /\ o \in relayed'
  BY <1>1, <1>2 DEF Nowhere, Unqueued, Unhandled, Uncharged, InHand, Charged
<1>6. Story(o)'
  BY <1>4, <1>5 DEF Story
<1>7. \A x \in Orders \ {o} :
          SameTale(x) /\ SameQueues(x) /\ SameHands(x) /\ SameCharges(x)
  BY <1>1, <1>3, QueueStays, HandsStay, ChargesStand DEF SameTale
<1> QED BY <1>1, <1>6, <1>7, GoesOn

-----------------------------------------------------------------------------
\* No order is anywhere at first.
LEMMA InitStories == Init => Stories
<1> SUFFICES ASSUME Init PROVE Stories
  OBVIOUS
<1>1. NoOrphan
  BY DEF Init, NoOrphan
<1>2. ASSUME NEW o \in Orders PROVE Story(o)
  <2>1. Nowhere(o) /\ o \notin relayed
    BY DEF Init, Nowhere, Unqueued, Unhandled, Uncharged, InHand, Charged
  <2>2. Untold(o, "NONE", "NONE", {})
    BY DEF Init, Untold
  <2> QED BY <2>1, <2>2 DEF Story
<1> QED BY <1>1, <1>2 DEF Stories

\* A fault counts, for good.
LEMMA FaultsCount ==
    ASSUME IInv, [Next]_vars, faults' = 0
    PROVE  /\ faults = 0
           /\ \/ \E o \in Orders : Create(o) \/ Relay(o)
              \/ \E op \in Ops, o \in Orders : OrphanLookup(op, o) \/ OrphanCommit(op, o)
              \/ \E w \in Workers : Handler(w)
              \/ \E p \in Payers : Payer(p)
              \/ \E o \in Orders, status \in Terminal : Send(o, status)
              \/ UNCHANGED vars
<1>1. faults \in Nat
  BY FaultsAssumption DEF IInv, TypeOK
<1>2. ~Fault
  BY <1>1 DEF Fault
<1>3. \A o \in Orders : ~RelayAgain(o)
  BY <1>2 DEF RelayAgain
<1>4. \A w \in Workers : ~HandlerFault(w)
  BY <1>2 DEF HandlerFault, ServeError, ServeCrash, CallFails, SetStatusFails, PublishFails,
              SagaCrash
<1>5. \A p \in Payers : ~PayerFault(p)
  BY <1>2 DEF PayerFault, ResultLost, ChargeAgain
<1>6. \A o \in Orders, status \in Terminal : ~SendFails(o, status) /\ ~SendAgain(o, status)
  BY <1>2 DEF SendFails, SendAgain
<1>7. \/ \E o \in Orders : Create(o) \/ Relay(o)
      \/ \E op \in Ops, o \in Orders : OrphanLookup(op, o) \/ OrphanCommit(op, o)
      \/ \E w \in Workers : Handler(w)
      \/ \E p \in Payers : Payer(p)
      \/ \E o \in Orders, status \in Terminal : Send(o, status)
      \/ UNCHANGED vars
  BY <1>3, <1>4, <1>5, <1>6 DEF Next, Idle
<1>8. faults' = faults
  <2>1. ASSUME NEW w \in Workers, Handler(w) PROVE faults' = faults
    BY <2>1 DEF Handler, Start, ServeLookup, ServeCommit, TimeoutLost, SetStatus, Notify,
                RequestPayment, Ack
  <2>2. ASSUME NEW p \in Payers, Payer(p) PROVE faults' = faults
    BY <2>2 DEF Payer, StartCharge, SavePayment, PublishResult
  <2> QED BY <1>7, <2>1, <2>2 DEF Create, Relay, OrphanLookup, OrphanCommit, Send, vars
<1> QED BY <1>7, <1>8

\* As long as nothing has failed, no step loses or duplicates an order.
LEMMA NextStories ==
    ASSUME IInv, StoryInv, [Next]_vars
    PROVE  StoryInv'
<1> SUFFICES ASSUME faults' = 0 PROVE Stories'
  BY DEF StoryInv
<1>1. Stories
  BY FaultsCount DEF StoryInv
<1>2. ASSUME NEW o \in Orders, Create(o) \/ Relay(o) PROVE Stories'
  BY <1>1, <1>2, CreateTells, RelayTells
<1>3. ASSUME NEW op \in Ops, NEW o \in Orders, OrphanLookup(op, o) \/ OrphanCommit(op, o)
      PROVE  Stories'
  BY <1>1, <1>3 DEF OrphanLookup, OrphanCommit, Stories, NoOrphan, Stages
<1>4. ASSUME NEW w \in Workers, Handler(w) PROVE Stories'
  BY <1>1, <1>4, StartTells, ServeLookupTells, ServeCommitTells, NeverWaits, SetStatusTells,
     NotifyTells, RequestPaymentTells, AckTells
  DEF Handler
<1>5. ASSUME NEW p \in Payers, Payer(p) PROVE Stories'
  BY <1>1, <1>5, StartChargeTells, SavePaymentTells, PublishResultTells DEF Payer
<1>6. ASSUME NEW o \in Orders, NEW status \in Terminal, Send(o, status) PROVE Stories'
  BY <1>1, <1>6, SendTells
<1>7. CASE UNCHANGED vars
  <2>1. \A o \in Orders : SameTale(o) /\ SameQueues(o) /\ SameHands(o) /\ SameCharges(o)
    BY <1>7, QueueStays, HandsStay, ChargesStand
    DEF SameTale, vars, inventory, billing, customer
  <2>2. \A o \in Orders : Story(o)'
    BY <1>1, <2>1, Apart DEF Stories
  <2> QED BY <1>1, <1>7, <2>2 DEF Stories, NoOrphan, vars
<1> QED BY <1>2, <1>3, <1>4, <1>5, <1>6, <1>7, FaultsCount

-----------------------------------------------------------------------------
(* What follows.                                                           *)

\* Nothing is left to do: every order that was made has ended.
LEMMA QuietIsFinished ==
    ASSUME Stories, Quiet, NEW o \in Orders, order[o] # "NONE"
    PROVE  Finished(o) /\ events[o] = {}
<1>1. o \in relayed /\ events[o] = {}
  BY DEF Quiet
<1>2. \A k \in Kinds : queue[k][o] = 0
  BY DEF Quiet
<1>3. Unhandled(o) /\ Uncharged(o)
  BY DEF Quiet, Unhandled, Uncharged, InHand, Charged
<1>4. /\ \A k \in Kinds : ~OnlyQueued(o, k)
      /\ \A w \in Workers : ~OnlyInHand(o, w)
      /\ \A p \in Payers : ~OnlyCharged(o, p)
  BY <1>2, <1>3 DEF OnlyQueued, OnlyInHand, OnlyCharged, Unhandled, Uncharged
<1> QED BY <1>1, <1>4 DEF Stories, Story

\* Orders that are nowhere were never created, or ended in agreement.
LEMMA QuietAgrees ==
    ASSUME Stories
    PROVE  AllOrNothing
<1> SUFFICES ASSUME Quiet, NEW o \in Orders, order[o] # "NONE"
             PROVE  \/ /\ order[o] = "COMPLETED" /\ reservation[o] = "CONFIRMED"
                       /\ payments[o] = {"SUCCESS"} /\ notified[o] = {"COMPLETED"}
                    \/ /\ order[o] = "CANCELLED" /\ reservation[o] = "RELEASED"
                       /\ payments[o] = {"FAILED"} /\ notified[o] = {"CANCELLED"}
                    \/ /\ order[o] = "CANCELLED" /\ reservation[o] = "NONE"
                       /\ payments[o] = {} /\ notified[o] = {"CANCELLED"}
  BY DEF AllOrNothing
<1>1. Finished(o) /\ events[o] = {}
  BY QuietIsFinished
<1> QED BY <1>1 DEF Finished, Told

\* An order's status moves along its life.
LEMMA StatusMoves ==
    ASSUME IInv, StoryInv, [Next]_vars, faults' = 0
    PROVE  Lifecycle!Next \/ UNCHANGED order
<1>1. Stories
  BY FaultsCount DEF StoryInv
<1>2. ASSUME NEW o \in Orders, Create(o) PROVE Lifecycle!Next
  BY <1>2 DEF Create, Lifecycle!Next, Lifecycle!Move
<1>3. ASSUME NEW w \in Workers, SetStatus(w) PROVE Lifecycle!Next
  <2>1. PICK a \in Orders : a = job[w].order
    BY <1>1, <1>3, StatusFollows DEF SetStatus
  <2>2. order' = [order EXCEPT ![a] = Target(job[w])]
    BY <1>3, <2>1 DEF SetStatus
  <2>3. \/ order[a] = "PENDING" /\ Target(job[w]) \in {"INVENTORY_RESERVED", "CANCELLED"}
        \/ order[a] = "INVENTORY_RESERVED" /\ Target(job[w]) \in {"COMPLETED", "CANCELLED"}
    BY <1>1, <1>3, <2>1, StatusFollows DEF SetStatus, Untold
  <2> QED BY <2>2, <2>3 DEF Lifecycle!Next, Lifecycle!Move
<1>4. ASSUME NEW w \in Workers, Handler(w), ~SetStatus(w) PROVE UNCHANGED order
  BY <1>4 DEF Handler, Start, ServeLookup, ServeCommit, TimeoutLost, Notify, RequestPayment, Ack
<1>5. ASSUME NEW p \in Payers, Payer(p) PROVE UNCHANGED order
  BY <1>5 DEF Payer, StartCharge, SavePayment, PublishResult
<1>6. ASSUME NEW o \in Orders, Relay(o) PROVE UNCHANGED order
  BY <1>6 DEF Relay
<1>7. ASSUME NEW op \in Ops, NEW o \in Orders, OrphanLookup(op, o) \/ OrphanCommit(op, o)
      PROVE  UNCHANGED order
  BY <1>7 DEF OrphanLookup, OrphanCommit
<1>8. ASSUME NEW o \in Orders, NEW status \in Terminal, Send(o, status) PROVE UNCHANGED order
  BY <1>8 DEF Send, Consume
<1>9. CASE UNCHANGED vars
  BY <1>9 DEF vars
<1> QED BY <1>2, <1>3, <1>4, <1>5, <1>6, <1>7, <1>8, <1>9, FaultsCount

\* As long as nothing has failed, each order is in exactly one place, whatever
\* handlers and consumers run, and the services agree with the place it is in.
THEOREM StoryHolds == Spec => []StoryInv
<1>1. Init => StoryInv
  BY InitStories DEF StoryInv
<1>2. IInv /\ StoryInv /\ [Next]_vars => StoryInv'
  BY NextStories
<1> QED BY <1>1, <1>2, Invariance, PTL DEF Spec

\* Until a first fault: when the services have nothing left to do, the order,
\* the stock, the payment and the notification tell one story (the handlers of
\* saga-orchestrator.service.ts).
THEOREM AgreeBeforeFaults == Spec => [](faults = 0 => AllOrNothing)
<1>1. StoryInv => (faults = 0 => AllOrNothing)
  BY QuietAgrees DEF StoryInv
<1> QED BY <1>1, StoryHolds, PTL

\* So they do always when nothing fails.
THEOREM AgreeWithoutFaults == MaxFaults = 0 => (Spec => []AllOrNothing)
<1> SUFFICES ASSUME MaxFaults = 0 PROVE Spec => []AllOrNothing
  OBVIOUS
<1>1. IInv /\ StoryInv => AllOrNothing
  BY QuietAgrees DEF StoryInv, IInv, TypeOK
<1> QED BY <1>1, Invariance, StoryHolds, PTL

\* What order-service asks inventory-service: one request of an order at a time,
\* none that nobody waits for, to reserve what has no reservation and to settle a
\* RESERVED one.
Calling(w) == job[w] # None /\ job[w].step \in Stages

CallsInTurn ==
    /\ NoOrphan
    /\ \A v, w \in Workers : Calling(v) /\ Calling(w) /\ job[v].order = job[w].order => v = w
    /\ \A w \in Workers : Calling(w) =>
          reservation[job[w].order] = IF job[w].kind = "order.created" THEN "NONE"
                                                                       ELSE "RESERVED"

\* A handler that calls is the one that has its order in hand.
LEMMA StoriesInTurn ==
    ASSUME IInv, Stories
    PROVE  CallsInTurn
<1>1. ASSUME NEW w \in Workers, Calling(w)
      PROVE  /\ job[w].order \in Orders /\ OnlyInHand(job[w].order, w)
             /\ Handled(job[w].order, job[w])
  <2>1. job[w].order \in Orders
    BY <1>1, JobType DEF Calling
  <2>2. InHand(w, job[w].order)
    BY <1>1 DEF Calling, InHand, Stages
  <2> QED BY <2>1, <2>2, FoundInHand DEF Stories
<1>2. ASSUME NEW v \in Workers, NEW w \in Workers, Calling(v), Calling(w),
             job[v].order = job[w].order
      PROVE  v = w
  BY <1>1, <1>2 DEF OnlyInHand, InHand
<1>3. ASSUME NEW w \in Workers, Calling(w)
      PROVE  reservation[job[w].order] = IF job[w].kind = "order.created" THEN "NONE"
                                                                          ELSE "RESERVED"
  BY <1>1, <1>3 DEF Calling, Handled, CreatedHandled, SucceededHandled, FailedHandled, Untold,
                     Stages
<1> QED BY <1>2, <1>3 DEF CallsInTurn, Stories

\* Until a first fault the saga is the caller that `confirm` and `release` need: the
\* reservation each of them reads before its transaction is nobody else's to settle.
THEOREM CallsBeforeFaults == Spec => [](faults = 0 => CallsInTurn)
<1>1. IInv /\ StoryInv => (faults = 0 => CallsInTurn)
  BY StoriesInTurn DEF StoryInv
<1> QED BY <1>1, Invariance, StoryHolds, PTL

\* Until a first fault, an order's status only moves from PENDING to
\* INVENTORY_RESERVED, and from either to its end, which is final, although
\* setStatus itself looks at no earlier status (saga-orchestrator.service.ts).
THEOREM LifecycleBeforeFaults == Spec => [][faults' = 0 => Lifecycle!Next]_order
<1>1. IInv /\ StoryInv /\ [Next]_vars => [faults' = 0 => Lifecycle!Next]_order
  BY StatusMoves
<1> QED BY <1>1, Invariance, StoryHolds, PTL DEF Spec

\* Without faults, the saga implements the life of an order.
THEOREM ImplementsLifecycle == MaxFaults = 0 => (Spec => FollowsLifecycle)
<1> SUFFICES ASSUME MaxFaults = 0 PROVE Spec => FollowsLifecycle
  OBVIOUS
<1>1. Init => Lifecycle!Init
  BY DEF Init, Lifecycle!Init
<1>2. IInv /\ IInv' /\ StoryInv /\ [Next]_vars => [Lifecycle!Next]_order
  <2>1. IInv' => faults' = 0
    BY DEF IInv, TypeOK
  <2> QED BY <2>1, StatusMoves
<1> QED BY <1>1, <1>2, Invariance, StoryHolds, PTL DEF Spec, FollowsLifecycle, Lifecycle!Spec
=============================================================================

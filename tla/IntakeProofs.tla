---------------------------- MODULE IntakeProofs ----------------------------
(***************************************************************************)
(* Theorems about OrderIntake and OutboxRelay, for any number of orders,   *)
(* products, registrations, replicas and faults: the committed offset      *)
(* never passes an unpublished event, and orders are announced as priced.  *)
(***************************************************************************)
EXTENDS OrderIntake, TLAPS

\* What a consumer has in hand is the event at its position.
HandAtPosition ==
    \A n \in Replicas : hand[n] # None =>
        position[n] + 1 \in DOMAIN topic /\ hand[n] = topic[position[n] + 1]

\* Between the committed offset and what its owner has behind it, everything is
\* published.
OwnerAhead ==
    /\ offset # None => offset <= Len(topic)
    /\ owner # None =>
          /\ position[owner] <= Len(topic)
          /\ offset # None =>
                /\ offset <= position[owner]
                /\ \A i \in DOMAIN topic :
                       offset < i /\ i <= position[owner] => topic[i] \in published

RelayInv == RelayTypeOK /\ HandAtPosition /\ OwnerAhead

\* What NothingSkipped says of a step.
SkipsNothing ==
    offset # None =>
        /\ offset' >= offset
        /\ \A i \in DOMAIN topic : offset < i /\ i <= offset' => topic[i] \in published

-----------------------------------------------------------------------------
(* The relay.                                                              *)

LEMMA NoneType ==
    /\ None \notin Nat /\ None \notin Orders /\ None \notin Replicas
BY RelayNoneAssumption

LEMMA TopicDomain ==
    ASSUME RelayInv
    PROVE  /\ topic \in Seq(Orders) /\ Len(topic) \in Nat /\ DOMAIN topic = 1..Len(topic)
           /\ \A i \in DOMAIN topic : topic[i] \in Orders
           /\ owner # None => owner \in Replicas
           /\ \A n \in Replicas : position[n] \in Nat
BY DEF RelayInv, RelayTypeOK

\* The topic only grows.
LEMMA AppendTopic ==
    ASSUME RelayInv, NEW o \in Orders, topic' = Append(topic, o),
           UNCHANGED <<consumers, offset, published>>,
           outbox' \subseteq outbox, faults' \in 0..MaxFaults
    PROVE  RelayInv' /\ SkipsNothing
<1>1. /\ topic' \in Seq(Orders) /\ Len(topic') = Len(topic) + 1
      /\ DOMAIN topic' = 1..(Len(topic) + 1)
      /\ \A i \in DOMAIN topic : topic'[i] = topic[i]
  BY TopicDomain
<1>2. RelayTypeOK'
  BY <1>1 DEF RelayInv, RelayTypeOK, consumers
<1>3. HandAtPosition'
  BY <1>1, TopicDomain DEF RelayInv, HandAtPosition, consumers
<1>4. OwnerAhead'
  <2>1. ASSUME NEW i \in DOMAIN topic', i <= Len(topic)
        PROVE  i \in DOMAIN topic
    BY <1>1, <2>1, TopicDomain
  <2> QED
    BY <1>1, <2>1, TopicDomain, NoneType DEF RelayInv, RelayTypeOK, OwnerAhead, consumers
<1>5. SkipsNothing
  BY NoneType DEF SkipsNothing, RelayInv, RelayTypeOK
<1> QED BY <1>2, <1>3, <1>4, <1>5 DEF RelayInv

LEMMA FaultType ==
    ASSUME RelayInv, Fault
    PROVE  faults' \in 0..MaxFaults
BY RelayBoundsAssumption DEF RelayInv, RelayTypeOK, Fault

\* A step that leaves the topic, the offset and what is published alone skips
\* nothing.
LEMMA OffsetStays ==
    ASSUME RelayInv, UNCHANGED offset
    PROVE  SkipsNothing
BY NoneType DEF SkipsNothing, RelayInv, RelayTypeOK

LEMMA ConnectRelay ==
    ASSUME RelayInv, NEW n \in Replicas, Connect(n)
    PROVE  RelayInv'
BY DEF Connect, RelayInv, RelayTypeOK, HandAtPosition, OwnerAhead

LEMMA TakeRelay ==
    ASSUME RelayInv, NEW n \in Replicas, Take(n), faults' \in 0..MaxFaults,
           UNCHANGED <<outbox, topic, offset, published>>
    PROVE  RelayInv'
<1>1. StartPosition \in Nat /\ StartPosition <= Len(topic)
  BY TopicDomain, NoneType DEF StartPosition, RelayInv, RelayTypeOK, OwnerAhead
<1>2. RelayTypeOK'
  BY <1>1 DEF Take, RelayInv, RelayTypeOK
<1>3. HandAtPosition'
  BY DEF Take, RelayInv, RelayTypeOK, HandAtPosition
<1>4. owner' = n /\ position'[n] = StartPosition
  BY DEF Take, RelayInv, RelayTypeOK
<1>5. offset # None => StartPosition = offset /\ offset \in Nat
  BY DEF StartPosition, RelayInv, RelayTypeOK
<1>6. OwnerAhead'
  BY <1>1, <1>4, <1>5, TopicDomain DEF RelayInv, OwnerAhead
<1> QED BY <1>2, <1>3, <1>6 DEF RelayInv

LEMMA FetchRelay ==
    ASSUME RelayInv, NEW n \in Replicas, Fetch(n)
    PROVE  RelayInv'
<1>1. position[n] + 1 \in DOMAIN topic /\ topic[position[n] + 1] \in Orders
  BY TopicDomain DEF Fetch
<1>2. RelayTypeOK'
  <2>1. n \in connected
    BY NoneType DEF Fetch, RelayInv, RelayTypeOK
  <2>2. /\ hand' \in [Replicas -> Orders \cup {None}]
        /\ \A m \in Replicas : m # n => hand'[m] = hand[m]
    BY <1>1 DEF Fetch, RelayInv, RelayTypeOK
  <2> QED BY <2>1, <2>2 DEF Fetch, RelayInv, RelayTypeOK
<1>3. HandAtPosition'
  BY <1>1 DEF Fetch, RelayInv, RelayTypeOK, HandAtPosition
<1>4. OwnerAhead'
  BY DEF Fetch, RelayInv, OwnerAhead
<1> QED BY <1>2, <1>3, <1>4 DEF RelayInv

LEMMA PublishRelay ==
    ASSUME RelayInv, NEW n \in Replicas, Publish(n)
    PROVE  RelayInv'
<1>1. /\ position[n] \in Nat /\ position[n] + 1 \in DOMAIN topic
      /\ hand[n] = topic[position[n] + 1]
      /\ published' = published \cup {topic[position[n] + 1]}
      /\ position'[n] = position[n] + 1
      /\ n \in connected
  BY TopicDomain DEF Publish, RelayInv, RelayTypeOK, HandAtPosition
<1>2. RelayTypeOK'
  BY <1>1 DEF Publish, RelayInv, RelayTypeOK
<1>3. HandAtPosition'
  BY DEF Publish, RelayInv, RelayTypeOK, HandAtPosition
<1>4. OwnerAhead'
  <2>1. CASE owner = n
    BY <1>1, <2>1, TopicDomain, NoneType DEF Publish, RelayInv, RelayTypeOK, OwnerAhead
  <2>2. CASE owner # n
    <3>1. owner # None => position'[owner] = position[owner]
      BY <2>2, TopicDomain DEF Publish, RelayInv, RelayTypeOK
    <3> QED BY <3>1, <1>1 DEF Publish, RelayInv, OwnerAhead
  <2> QED BY <2>1, <2>2
<1> QED BY <1>2, <1>3, <1>4 DEF RelayInv

LEMMA CommitRelay ==
    ASSUME RelayInv, NEW n \in Replicas, Commit(n)
    PROVE  RelayInv' /\ SkipsNothing
<1>1. owner = n /\ owner # None /\ offset' = position[n] /\ position[n] \in Nat
  BY TopicDomain, NoneType DEF Commit
<1>2. RelayTypeOK'
  BY <1>1 DEF Commit, RelayInv, RelayTypeOK
<1>3. HandAtPosition'
  BY DEF Commit, RelayInv, HandAtPosition
<1>4. OwnerAhead'
  BY <1>1, TopicDomain DEF Commit, RelayInv, OwnerAhead
<1>5. SkipsNothing
  BY <1>1, NoneType DEF SkipsNothing, RelayInv, RelayTypeOK, OwnerAhead
<1> QED BY <1>2, <1>3, <1>4, <1>5 DEF RelayInv

LEMMA CrashRelay ==
    ASSUME RelayInv, NEW n \in Replicas, Crash(n)
    PROVE  RelayInv'
<1>1. faults' \in 0..MaxFaults
  BY FaultType DEF Crash
<1>2. RelayTypeOK'
  BY <1>1 DEF Crash, RelayInv, RelayTypeOK
<1>3. HandAtPosition'
  BY DEF Crash, RelayInv, RelayTypeOK, HandAtPosition
<1>4. OwnerAhead'
  BY DEF Crash, RelayInv, OwnerAhead
<1> QED BY <1>2, <1>3, <1>4 DEF RelayInv

-----------------------------------------------------------------------------
(* The intake.                                                             *)

IntakeTypeOK ==
    /\ price \in [Products -> Nat \cup {None}]
    /\ creation \in [Creations -> {"new", "save", "created", "conflict", "error"}]
    /\ request \in [Orders -> {"new", "priced", "created", "rejected", "failed"}]
    /\ quote = [o \in Orders |-> quote[o]]
    /\ \A o \in Orders : request[o] \in {"priced", "created", "failed"} =>
                             quote[o] \in [Lines[o] -> Nat]

Announced == outbox \cup Events \cup published

AnnouncedCreated == \A o \in Announced : o \in Orders /\ request[o] = "created"

AtCatalogPrices ==
    \A o \in Orders : request[o] \in {"priced", "created"} =>
        \A p \in Lines[o] : quote[o][p] = price[p]

IInv == IntakeTypeOK /\ RelayInv /\ AnnouncedCreated /\ AtCatalogPrices

LEMMA IInvImplies ==
    ASSUME IInv
    PROVE  TypeOK /\ OrdersAsPriced
BY DEF IInv, IntakeTypeOK, RelayInv, TypeOK, AnnouncedCreated, Announced,
       AtCatalogPrices, OrdersAsPriced

LEMMA InitIInv ==
    ASSUME Init
    PROVE  IInv
<1>1. topic \in Seq(Orders) /\ Len(topic) = 0 /\ DOMAIN topic = {}
  BY DEF Init, RelayInit
<1>2. IntakeTypeOK /\ AtCatalogPrices
  BY DEF Init, IntakeTypeOK, AtCatalogPrices
<1>3. RelayInv
  BY <1>1, RelayBoundsAssumption
  DEF Init, RelayInit, RelayInv, RelayTypeOK, HandAtPosition, OwnerAhead
<1>4. AnnouncedCreated
  BY <1>1 DEF Init, RelayInit, AnnouncedCreated, Announced, Events
<1> QED BY <1>2, <1>3, <1>4 DEF IInv

\* A product the order asks for is one of the catalog's.
LEMMA LinesType ==
    ASSUME NEW o \in Orders, NEW p \in Lines[o]
    PROVE  p \in Products
BY LinesAssumption

LEMMA RelayUnchanged ==
    ASSUME RelayInv, UNCHANGED relayVars
    PROVE  RelayInv' /\ SkipsNothing
<1>1. RelayInv'
  BY DEF relayVars, consumers, RelayInv, RelayTypeOK, HandAtPosition, OwnerAhead
<1>2. SkipsNothing
  BY OffsetStays DEF relayVars
<1> QED BY <1>1, <1>2

LEMMA FindProductInv ==
    ASSUME IInv, NEW c \in Creations, FindProduct(c)
    PROVE  IInv' /\ SkipsNothing
<1>1. RelayInv' /\ SkipsNothing
  BY RelayUnchanged DEF IInv, FindProduct, Register
<1>2. IntakeTypeOK'
  BY DEF IInv, IntakeTypeOK, FindProduct, Register, orderVars
<1>3. AnnouncedCreated' /\ AtCatalogPrices'
  BY DEF IInv, AnnouncedCreated, Announced, Events, AtCatalogPrices,
         FindProduct, Register, orderVars, relayVars
<1> QED BY <1>1, <1>2, <1>3 DEF IInv

\* A price is set once, so no price an order was given changes.
LEMMA SaveProductInv ==
    ASSUME IInv, NEW c \in Creations, SaveProduct(c)
    PROVE  IInv' /\ SkipsNothing
<1>1. RelayInv' /\ SkipsNothing
  BY RelayUnchanged DEF IInv, SaveProduct, Register
<1>2. PriceOf[c] \in Nat /\ ProductOf[c] \in Products
  BY CreationsAssumption
<1>3. IntakeTypeOK'
  <2>1. price' \in [Products -> Nat \cup {None}]
    BY <1>2 DEF IInv, IntakeTypeOK, SaveProduct
  <2>2. creation' \in [Creations -> {"new", "save", "created", "conflict", "error"}]
    BY DEF IInv, IntakeTypeOK, SaveProduct, Register
  <2> QED BY <2>1, <2>2 DEF IInv, IntakeTypeOK, SaveProduct, Register, orderVars
<1>4. \A p \in Products : price[p] # None => price'[p] = price[p]
  BY <1>2 DEF IInv, IntakeTypeOK, SaveProduct
<1>5. AtCatalogPrices'
  <2> SUFFICES ASSUME NEW o \in Orders, request[o] \in {"priced", "created"},
                      NEW p \in Lines[o]
               PROVE  quote[o][p] = price'[p]
    BY DEF AtCatalogPrices, SaveProduct, Register, orderVars
  <2>1. quote[o] \in [Lines[o] -> Nat] /\ quote[o][p] = price[p]
    BY DEF IInv, IntakeTypeOK, AtCatalogPrices
  <2>2. price[p] # None
    BY <2>1, NoneType
  <2> QED BY <1>4, <2>1, <2>2, LinesType
<1>6. AnnouncedCreated'
  BY DEF IInv, AnnouncedCreated, Announced, Events, SaveProduct, Register,
         orderVars, relayVars
<1> QED BY <1>1, <1>3, <1>5, <1>6 DEF IInv

\* A request that moves on without being announced.
LEMMA ServeInv ==
    ASSUME IInv, NEW o \in Orders, request[o] # "created",
           NEW step \in {"priced", "rejected", "failed"}, Serve(o, step)
    PROVE  /\ RelayInv' /\ SkipsNothing /\ AnnouncedCreated'
           /\ request' \in [Orders -> {"new", "priced", "created", "rejected", "failed"}]
           /\ request'[o] = step
           /\ \A q \in Orders : q # o => request'[q] = request[q]
<1>1. RelayInv' /\ SkipsNothing
  BY RelayUnchanged DEF IInv, Serve
<1>2. /\ request' \in [Orders -> {"new", "priced", "created", "rejected", "failed"}]
      /\ request'[o] = step
      /\ \A q \in Orders : q # o => request'[q] = request[q]
  BY DEF IInv, IntakeTypeOK, Serve
<1>3. AnnouncedCreated'
  <2>1. Announced' = Announced
    BY DEF Announced, Events, Serve, relayVars
  <2> QED BY <2>1, <1>2 DEF IInv, AnnouncedCreated
<1> QED BY <1>1, <1>2, <1>3

LEMMA RejectInv ==
    ASSUME IInv, NEW o \in Orders, request[o] = "new",
           Serve(o, "rejected"), UNCHANGED quote
    PROVE  IInv' /\ SkipsNothing
<1>1. /\ RelayInv' /\ SkipsNothing /\ AnnouncedCreated'
      /\ request' \in [Orders -> {"new", "priced", "created", "rejected", "failed"}]
      /\ request'[o] = "rejected"
      /\ \A q \in Orders : q # o => request'[q] = request[q]
  BY ServeInv
<1>2. IntakeTypeOK' /\ AtCatalogPrices'
  BY <1>1 DEF IInv, IntakeTypeOK, AtCatalogPrices, Serve, catalogVars
<1> QED BY <1>1, <1>2 DEF IInv

LEMMA SaveFailsInv ==
    ASSUME IInv, NEW o \in Orders, SaveFails(o)
    PROVE  IInv' /\ SkipsNothing
<1>1. /\ RelayInv' /\ SkipsNothing /\ AnnouncedCreated'
      /\ request' \in [Orders -> {"new", "priced", "created", "rejected", "failed"}]
      /\ request'[o] = "failed"
      /\ \A q \in Orders : q # o => request'[q] = request[q]
  BY ServeInv DEF SaveFails
<1>2. IntakeTypeOK' /\ AtCatalogPrices'
  BY <1>1 DEF IInv, IntakeTypeOK, AtCatalogPrices, SaveFails, Serve, catalogVars
<1> QED BY <1>1, <1>2 DEF IInv

LEMMA PriceItemsInv ==
    ASSUME IInv, NEW o \in Orders, PriceItems(o)
    PROVE  IInv' /\ SkipsNothing
<1>1. CASE Serve(o, "rejected") /\ UNCHANGED quote
  BY <1>1, RejectInv DEF PriceItems
<1>2. CASE /\ Missing(o) = {}
           /\ Serve(o, "priced")
           /\ quote' = [quote EXCEPT ![o] = Prices(o)]
  <2>1. /\ RelayInv' /\ SkipsNothing /\ AnnouncedCreated'
        /\ request' \in [Orders -> {"new", "priced", "created", "rejected", "failed"}]
        /\ request'[o] = "priced"
        /\ \A q \in Orders : q # o => request'[q] = request[q]
    BY <1>2, ServeInv DEF PriceItems
  <2>2. /\ quote'[o] = [p \in Lines[o] |-> price[p]]
        /\ \A q \in Orders : q # o => quote'[q] = quote[q]
        /\ quote' = [q \in Orders |-> quote'[q]]
    BY <1>2 DEF IInv, IntakeTypeOK, Prices
  <2>3. quote'[o] \in [Lines[o] -> Nat]
    <3>1. ASSUME NEW p \in Lines[o] PROVE price[p] \in Nat
      BY <1>2, LinesType DEF IInv, IntakeTypeOK, Missing
    <3> QED BY <2>2, <3>1
  <2>4. UNCHANGED <<price, creation>>
    BY <1>2 DEF Serve, catalogVars
  <2>5. IntakeTypeOK'
    BY <2>1, <2>2, <2>3, <2>4 DEF IInv, IntakeTypeOK
  <2>6. AtCatalogPrices'
    BY <2>1, <2>2, <2>4 DEF IInv, AtCatalogPrices
  <2> QED BY <2>1, <2>5, <2>6 DEF IInv
<1> QED BY <1>1, <1>2 DEF PriceItems

LEMMA SaveOrderInv ==
    ASSUME IInv, NEW o \in Orders, SaveOrder(o)
    PROVE  IInv' /\ SkipsNothing
<1>1. RelayInv'
  BY DEF IInv, RelayInv, RelayTypeOK, HandAtPosition, OwnerAhead, SaveOrder, consumers
<1>2. SkipsNothing
  BY OffsetStays DEF SaveOrder, IInv
<1>3. /\ request' \in [Orders -> {"new", "priced", "created", "rejected", "failed"}]
      /\ request'[o] = "created" /\ request[o] = "priced"
      /\ \A q \in Orders : q # o => request'[q] = request[q]
  BY DEF SaveOrder, IInv, IntakeTypeOK
<1>4. IntakeTypeOK' /\ AtCatalogPrices'
  BY <1>3 DEF IInv, IntakeTypeOK, AtCatalogPrices, SaveOrder, catalogVars
<1>5. AnnouncedCreated'
  <2>1. Announced' = Announced \cup {o}
    BY DEF Announced, Events, SaveOrder
  <2> QED BY <2>1, <1>3 DEF IInv, AnnouncedCreated
<1> QED BY <1>1, <1>2, <1>4, <1>5 DEF IInv

\* A step of the relay announces nothing that was not announced before.
LEMMA RelayInvLifts ==
    ASSUME IInv, UNCHANGED intakeVars, RelayInv', Announced' \subseteq Announced
    PROVE  IInv'
BY DEF IInv, IntakeTypeOK, AnnouncedCreated, AtCatalogPrices,
       intakeVars, catalogVars, orderVars

\* So is one that leaves what was announced alone.
LEMMA ConsumerLifts ==
    ASSUME IInv, UNCHANGED <<intakeVars, outbox, topic, published>>, RelayInv'
    PROVE  IInv'
BY RelayInvLifts DEF Announced, Events

LEMMA CaptureInv ==
    ASSUME IInv, NEW o \in Orders, Capture(o), UNCHANGED intakeVars
    PROVE  IInv' /\ SkipsNothing
<1>1. RelayInv' /\ SkipsNothing
  <2>1. outbox' \subseteq outbox /\ faults' \in 0..MaxFaults
    BY DEF Capture, IInv, RelayInv, RelayTypeOK
  <2> QED BY <2>1, AppendTopic DEF Capture, IInv
<1>2. Announced' \subseteq Announced
  <2>1. Events' = Events \cup {o}
    BY TopicDomain DEF Events, Capture, IInv
  <2> QED BY <2>1 DEF Announced, Capture
<1> QED BY <1>1, <1>2, RelayInvLifts

LEMMA CaptureAgainInv ==
    ASSUME IInv, NEW i \in DOMAIN topic, CaptureAgain(i), UNCHANGED intakeVars
    PROVE  IInv' /\ SkipsNothing
<1>1. PICK o \in Orders : o = topic[i]
  BY TopicDomain DEF IInv
<1>2. topic' = Append(topic, o)
  BY <1>1 DEF CaptureAgain
<1>3. RelayInv' /\ SkipsNothing
  <2>1. faults' \in 0..MaxFaults
    BY FaultType DEF CaptureAgain, IInv
  <2> QED BY <1>2, <2>1, AppendTopic DEF CaptureAgain, IInv
<1>4. Announced' \subseteq Announced
  <2>1. Events' = Events \cup {o} /\ o \in Events
    BY <1>1, <1>2, TopicDomain DEF Events, IInv
  <2> QED BY <2>1 DEF Announced, CaptureAgain
<1> QED BY <1>3, <1>4, RelayInvLifts

LEMMA PublishInv ==
    ASSUME IInv, NEW n \in Replicas, Publish(n), UNCHANGED intakeVars
    PROVE  IInv' /\ SkipsNothing
<1>1. RelayInv' /\ SkipsNothing
  BY PublishRelay, OffsetStays DEF Publish, IInv
<1>2. hand[n] \in Events
  BY DEF Publish, IInv, RelayInv, HandAtPosition, Events
<1>3. Announced' \subseteq Announced
  BY <1>2 DEF Publish, Announced, Events
<1> QED BY <1>1, <1>3, RelayInvLifts

\* The steps that move the consumers and announce nothing.
LEMMA ConsumerInv ==
    ASSUME IInv, NEW n \in Replicas, UNCHANGED intakeVars,
           \/ Connect(n) \/ Assign(n) \/ Fetch(n)
           \/ Commit(n) \/ Rebalance(n) \/ Crash(n)
    PROVE  IInv' /\ SkipsNothing
<1> USE DEF IInv
<1>1. CASE Connect(n)
  BY <1>1, ConnectRelay, OffsetStays, ConsumerLifts DEF Connect
<1>2. CASE Assign(n)
  <2>1. faults' \in 0..MaxFaults
    BY <1>2 DEF Assign, RelayInv, RelayTypeOK
  <2> QED BY <1>2, <2>1, TakeRelay, OffsetStays, ConsumerLifts DEF Assign
<1>3. CASE Fetch(n)
  BY <1>3, FetchRelay, OffsetStays, ConsumerLifts DEF Fetch
<1>4. CASE Commit(n)
  BY <1>4, CommitRelay, ConsumerLifts DEF Commit
<1>5. CASE Rebalance(n)
  <2>1. faults' \in 0..MaxFaults
    BY <1>5, FaultType DEF Rebalance
  <2> QED BY <1>5, <2>1, TakeRelay, OffsetStays, ConsumerLifts DEF Rebalance
<1>6. CASE Crash(n)
  BY <1>6, CrashRelay, OffsetStays, ConsumerLifts DEF Crash
<1> QED BY <1>1, <1>2, <1>3, <1>4, <1>5, <1>6

-----------------------------------------------------------------------------
LEMMA NextIInv ==
    ASSUME IInv, [Next]_vars
    PROVE  IInv' /\ (SkipsNothing \/ UNCHANGED vars)
<1>1. ASSUME NEW c \in Creations, FindProduct(c) \/ SaveProduct(c)
      PROVE  IInv' /\ SkipsNothing
  BY <1>1, FindProductInv, SaveProductInv
<1>2. ASSUME NEW o \in Orders,
             PriceItems(o) \/ PriceUnknown(o) \/ SaveOrder(o) \/ SaveFails(o)
      PROVE  IInv' /\ SkipsNothing
  <2>1. CASE PriceUnknown(o)
    BY <2>1, RejectInv DEF PriceUnknown
  <2> QED BY <1>2, <2>1, PriceItemsInv, SaveOrderInv, SaveFailsInv
<1>3. CASE \E o \in Orders : Capture(o) /\ UNCHANGED intakeVars
  BY <1>3, CaptureInv
<1>4. CASE \E i \in DOMAIN topic : CaptureAgain(i) /\ UNCHANGED intakeVars
  BY <1>4, CaptureAgainInv
<1>5. ASSUME NEW n \in Replicas, UNCHANGED intakeVars,
             \/ Connect(n) \/ Assign(n) \/ Fetch(n) \/ Publish(n)
             \/ Commit(n) \/ Rebalance(n) \/ Crash(n)
      PROVE  IInv' /\ SkipsNothing
  BY <1>5, ConsumerInv, PublishInv
<1>6. CASE UNCHANGED vars
  <2>1. RelayInv'
    BY <1>6, RelayUnchanged DEF vars, IInv
  <2>2. UNCHANGED <<intakeVars, outbox, topic, published>>
    BY <1>6 DEF vars, relayVars, intakeVars
  <2> QED BY <1>6, <2>1, <2>2, ConsumerLifts
<1>7. CASE Idle
  BY <1>6, <1>7 DEF Idle
<1> QED BY <1>1, <1>2, <1>3, <1>4, <1>5, <1>6, <1>7 DEF Next

\* The inductive invariant of createOrder, the catalog and the relay.
THEOREM Invariance == Spec => []IInv
<1>1. Init => IInv
  BY InitIInv
<1>2. IInv /\ [Next]_vars => IInv'
  BY NextIInv
<1> QED BY <1>1, <1>2, PTL DEF Spec

\* Every variable keeps its type, for any number of orders, products and replicas.
THEOREM TypeCorrect == Spec => []TypeOK
<1>1. IInv => TypeOK
  BY IInvImplies
<1> QED BY <1>1, Invariance, PTL

\* An order that is announced was committed, and its prices are the catalog's,
\* however many registrations of its products race (createOrderWithOutbox, and
\* the unique productId).
THEOREM AsPriced == Spec => []OrdersAsPriced
<1>1. IInv => OrdersAsPriced
  BY IInvImplies
<1> QED BY <1>1, Invariance, PTL

\* The committed offset never passes an event that was not published, for any
\* number of replicas, crashes and rebalances (eachMessage awaits the publish).
THEOREM NeverSkips == Spec => NothingSkipped
<1>1. IInv /\ [Next]_vars => [SkipsNothing]_vars
  BY NextIInv
<1>2. Spec => [][SkipsNothing]_vars
  BY <1>1, Invariance, PTL DEF Spec
<1> QED BY <1>2 DEF NothingSkipped, SkipsNothing
=============================================================================

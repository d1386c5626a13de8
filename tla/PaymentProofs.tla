---------------------------- MODULE PaymentProofs ----------------------------
(***************************************************************************)
(* Theorems about Payment: type correctness and ResultsAreBacked for any   *)
(* behaviour, AtMostOnePayment for the orders no two copies of which are   *)
(* processed at the same time, for any number of orders and copies.        *)
(***************************************************************************)
EXTENDS Payment, TLAPS

Backed(res) ==
    \/ res.status \in Statuses(res.order)
    \/ res.status = "FAILED" /\ res.order \in deadLetter

\* A handler about to announce an outcome has recorded it.
AnnouncesBacked ==
    \A c \in Copies :
        at[c] = "announce" => Backed([order |-> Order(c), status |-> outcome[c]])

IInv == ServiceTypeOK /\ ResultsAreBacked /\ AnnouncesBacked

\* What no step takes back: a recorded payment and a dead letter.
Grows ==
    /\ \A o \in Orders : Statuses(o) \subseteq Statuses(o)'
    /\ deadLetter \subseteq deadLetter'

-----------------------------------------------------------------------------
\* A copy that carries a message has an order.
LEMMA MessageOrder ==
    ASSUME ServiceTypeOK, NEW c \in Copies, at[c] # "free"
    PROVE  Order(c) \in Orders /\ msg[c] \in Message
BY DEF ServiceTypeOK, Order, Message

\* A step of the whole service keeps types.
LEMMA RequestType ==
    ASSUME ServiceTypeOK, NEW o \in Orders, Request(o)
    PROVE  ServiceTypeOK'
<1>1. PICK c \in Copies :
          /\ at[c] = "free"
          /\ at' = [at EXCEPT ![c] = "queued"]
          /\ msg' = [msg EXCEPT ![c] = NewMessage(o, 0)]
  BY DEF Request
<1>2. NewMessage(o, 0) \in Message
  BY DEF NewMessage, Message
<1>3. requested' \in [Orders -> 0..MaxRequests]
  BY BoundsAssumption DEF ServiceTypeOK, Request
<1> QED
  BY <1>1, <1>2, <1>3, NoMessageAssumption DEF ServiceTypeOK, Request, Places, InHand

LEMMA RetryType ==
    ASSUME ServiceTypeOK, NEW c \in Copies, RetryLater(c)
    PROVE  ServiceTypeOK'
<1>1. PICK d \in Copies :
          /\ at[d] = "free"
          /\ at' = [at EXCEPT ![c] = "ack", ![d] = "delayed"]
          /\ msg' = [msg EXCEPT ![d] = NewMessage(Order(c), Count(msg[c].retries + 1))]
  BY DEF RetryLater
<1>2. at[c] = "retry" /\ Order(c) \in Orders /\ msg[c] \in Message
  BY MessageOrder DEF RetryLater
<1>3. Count(msg[c].retries + 1) \in Nat
  BY <1>2, BoundsAssumption DEF Count, Message
<1>4. NewMessage(Order(c), Count(msg[c].retries + 1)) \in Message
  BY <1>2, <1>3 DEF NewMessage, Message
<1> QED
  BY <1>1, <1>2, <1>4, NoMessageAssumption DEF ServiceTypeOK, RetryLater, Places, InHand

LEMMA ExpireType ==
    ASSUME ServiceTypeOK, NEW c \in Copies, Expire(c)
    PROVE  ServiceTypeOK'
<1>1. at[c] = "delayed" /\ msg[c] \in Message
  BY MessageOrder DEF Expire
<1>2. [msg[c] EXCEPT !.deaths = @ + 1] \in Message
  BY <1>1 DEF Message
<1>3. msg' = [msg EXCEPT ![c] = [msg[c] EXCEPT !.deaths = @ + 1]]
  BY DEF Expire, ServiceTypeOK
<1> QED
  BY <1>1, <1>2, <1>3, NoMessageAssumption DEF ServiceTypeOK, Expire, Places, InHand

\* The steps of one handler that leave the messages alone.
LEMMA MoveType ==
    ASSUME ServiceTypeOK, NEW c \in Copies, NEW place \in Places \ {"free"}, at[c] # "free",
           NEW status \in Outcomes \cup {"none"},
           place \in {"save", "announce"} <=> status # "none",
           at' = [at EXCEPT ![c] = place], outcome' = [outcome EXCEPT ![c] = status],
           UNCHANGED <<requested, msg>>,
           payments' \in [Orders -> Seq(Outcomes)], deadLetter' \subseteq Orders,
           results' \subseteq Result
    PROVE  ServiceTypeOK'
BY DEF ServiceTypeOK

LEMMA AckType ==
    ASSUME ServiceTypeOK, NEW c \in Copies, Ack(c)
    PROVE  ServiceTypeOK'
BY DEF ServiceTypeOK, Ack, Places

-----------------------------------------------------------------------------
(* ResultsAreBacked.                                                       *)

\* A result that is backed stays backed.
LEMMA BackedStays ==
    ASSUME Grows, NEW res \in Result, Backed(res)
    PROVE  Backed(res)'
BY DEF Grows, Backed, Result

\* A step that publishes only what is backed, and brings no other handler to
\* its announcement, keeps the invariant.
LEMMA HandlerStep ==
    ASSUME IInv, ServiceTypeOK', Grows, NEW c \in Copies,
           \A res \in results' \ results : Backed(res)',
           \A d \in Copies \ {c} : at'[d] = "announce" =>
               at[d] = "announce" /\ msg'[d] = msg[d] /\ outcome'[d] = outcome[d],
           at'[c] = "announce" => Backed([order |-> Order(c), status |-> outcome[c]])'
    PROVE  IInv'
<1>1. ResultsAreBacked'
  <2> SUFFICES ASSUME NEW res \in results' PROVE Backed(res)'
    BY DEF ResultsAreBacked, Backed
  <2>1. CASE res \in results
    BY <2>1, BackedStays DEF IInv, ServiceTypeOK, ResultsAreBacked, Backed
  <2>2. CASE res \notin results
    BY <2>2
  <2> QED BY <2>1, <2>2
<1>2. AnnouncesBacked'
  <2> SUFFICES ASSUME NEW d \in Copies, at'[d] = "announce"
               PROVE  Backed([order |-> Order(d), status |-> outcome[d]])'
    BY DEF AnnouncesBacked
  <2>1. CASE d = c
    BY <2>1
  <2>2. CASE d # c
    <3>1. at[d] = "announce" /\ msg'[d] = msg[d] /\ outcome'[d] = outcome[d]
      BY <2>2
    <3>2. Order(d) \in Orders /\ outcome[d] \in Outcomes
      BY <3>1, MessageOrder DEF IInv, ServiceTypeOK
    <3>3. PICK o \in Orders, status \in Outcomes : o = Order(d) /\ status = outcome[d]
      BY <3>2
    <3>4. [order |-> o, status |-> status] \in Result /\ Backed([order |-> o, status |-> status])
      BY <3>1, <3>3 DEF IInv, AnnouncesBacked, Result
    <3>5. Backed([order |-> o, status |-> status])'
      BY <3>4, BackedStays
    <3> QED BY <3>1, <3>3, <3>5 DEF Backed, Order
  <2> QED BY <2>1, <2>2
<1> QED BY <1>1, <1>2 DEF IInv

\* A step of c that records and publishes nothing.
LEMMA QuietStep ==
    ASSUME IInv, ServiceTypeOK', NEW c \in Copies, UNCHANGED <<payments, deadLetter, results>>,
           at'[c] # "announce",
           \A d \in Copies \ {c} : at'[d] = "announce" =>
               at[d] = "announce" /\ msg'[d] = msg[d] /\ outcome'[d] = outcome[d]
    PROVE  IInv'
<1>1. Grows
  BY DEF Grows, Statuses
<1> QED BY <1>1, HandlerStep

LEMMA StepKeeps ==
    ASSUME IInv, NEW c \in Copies, NEW place \in Places \ {"free", "save", "announce"},
           at[c] \in Places \ {"free", "save", "announce"}, Step(c, place)
    PROVE  IInv'
<1>1. outcome[c] = "none" /\ outcome' = [outcome EXCEPT ![c] = "none"]
  BY DEF IInv, ServiceTypeOK, Step
<1>2. ServiceTypeOK'
  BY <1>1, MoveType DEF IInv, ServiceTypeOK, Step
<1> QED BY <1>2, QuietStep DEF Step, IInv, ServiceTypeOK

LEMMA DropKeeps ==
    ASSUME IInv, NEW c \in Copies, NEW place \in {"queued", "ack"}, at[c] # "free",
           Decide(c, "none", place), UNCHANGED <<payments, deadLetter, results>>
    PROVE  IInv'
<1>1. ServiceTypeOK'
  BY MoveType DEF IInv, ServiceTypeOK, Decide, Places, InHand
<1> QED BY <1>1, QuietStep DEF Decide, IInv, ServiceTypeOK

LEMMA GiveUpKeeps ==
    ASSUME IInv, NEW c \in Copies, GiveUp(c)
    PROVE  IInv'
<1>1. Order(c) \in Orders /\ msg' = msg /\ at[c] = "exhausted"
  BY MessageOrder DEF IInv, GiveUp, Decide
<1>2. ServiceTypeOK'
  BY <1>1, MoveType DEF IInv, ServiceTypeOK, GiveUp, Decide, Places, InHand, Outcomes
<1>3. Grows
  BY DEF Grows, Statuses, GiveUp
<1>4. Backed([order |-> Order(c), status |-> outcome[c]])'
  BY <1>1 DEF GiveUp, Decide, Backed, Order, IInv, ServiceTypeOK
<1> QED BY <1>2, <1>3, <1>4, HandlerStep DEF GiveUp, Decide, IInv, ServiceTypeOK

LEMMA GatewayAnswersKeeps ==
    ASSUME IInv, NEW c \in Copies, GatewayAnswers(c)
    PROVE  IInv'
<1>1. PICK status \in Outcomes : Decide(c, status, "save")
  BY DEF GatewayAnswers
<1>2. ServiceTypeOK'
  BY <1>1, MoveType DEF IInv, ServiceTypeOK, GatewayAnswers, Decide, Places, InHand, Outcomes
<1> QED BY <1>1, <1>2, QuietStep DEF GatewayAnswers, Decide, IInv, ServiceTypeOK

LEMMA SaveKeeps ==
    ASSUME IInv, NEW c \in Copies, Save(c)
    PROVE  IInv'
<1> DEFINE o == Order(c)
<1>1. o \in Orders /\ outcome[c] \in Outcomes /\ payments[o] \in Seq(Outcomes)
  BY MessageOrder DEF IInv, ServiceTypeOK, Save
<1>2. payments' = [payments EXCEPT ![o] = Append(payments[o], outcome[c])]
  BY DEF Save
<1>3. payments' \in [Orders -> Seq(Outcomes)]
  BY <1>1, <1>2 DEF IInv, ServiceTypeOK
<1>4. ServiceTypeOK'
  BY <1>1, <1>3, MoveType DEF IInv, ServiceTypeOK, Save, Decide, Places, InHand, Outcomes
<1>5. Grows
  <2> SUFFICES ASSUME NEW x \in Orders PROVE Statuses(x) \subseteq Statuses(x)'
    BY DEF Grows, Save
  <2>1. \A i \in DOMAIN payments[x] : i \in DOMAIN payments'[x] /\ payments'[x][i] = payments[x][i]
    BY <1>1, <1>2 DEF IInv, ServiceTypeOK
  <2> QED BY <2>1 DEF Statuses
<1>6. outcome[c] \in Statuses(o)'
  <2> DEFINE n == Len(payments[o]) + 1
  <2>1. n \in DOMAIN payments'[o] /\ payments'[o][n] = outcome[c]
    BY <1>1, <1>2 DEF IInv, ServiceTypeOK
  <2> QED BY <2>1 DEF Statuses, Order, Save, Decide
<1>7. Backed([order |-> Order(c), status |-> outcome[c]])'
  BY <1>6 DEF Save, Decide, Backed, Order, IInv, ServiceTypeOK
<1> QED BY <1>4, <1>5, <1>7, HandlerStep DEF Save, Decide, IInv, ServiceTypeOK

LEMMA PublishResultKeeps ==
    ASSUME IInv, NEW c \in Copies, PublishResult(c)
    PROVE  IInv'
<1> DEFINE res == [order |-> Order(c), status |-> outcome[c]]
<1>1. res \in Result /\ Backed(res)
  BY MessageOrder DEF IInv, ServiceTypeOK, PublishResult, AnnouncesBacked, Result
<1>2. ServiceTypeOK'
  BY <1>1, MoveType DEF IInv, ServiceTypeOK, PublishResult, Decide, Places, InHand
<1>3. Grows
  BY DEF Grows, Statuses, PublishResult
<1>4. results' = results \cup {res}
  BY DEF PublishResult
<1>5. \A r \in results' \ results : Backed(r)'
  <2> HIDE DEF res
  <2> QED BY <1>1, <1>3, <1>4, BackedStays
<1> QED BY <1>2, <1>3, <1>5, HandlerStep DEF PublishResult, Decide, IInv, ServiceTypeOK

\* The steps that make or free a copy.
LEMMA RequestKeeps ==
    ASSUME IInv, NEW o \in Orders, Request(o)
    PROVE  IInv'
<1>1. PICK c \in Copies :
          /\ at' = [at EXCEPT ![c] = "queued"]
          /\ msg' = [msg EXCEPT ![c] = NewMessage(o, 0)]
  BY DEF Request
<1>2. ServiceTypeOK'
  BY RequestType DEF IInv
<1> QED BY <1>1, <1>2, QuietStep DEF Request, IInv, ServiceTypeOK

LEMMA RetryLaterKeeps ==
    ASSUME IInv, NEW c \in Copies, RetryLater(c)
    PROVE  IInv'
<1>1. PICK d \in Copies :
          /\ at[d] = "free"
          /\ at' = [at EXCEPT ![c] = "ack", ![d] = "delayed"]
          /\ msg' = [msg EXCEPT ![d] = NewMessage(Order(c), Count(msg[c].retries + 1))]
  BY DEF RetryLater
<1>2. ServiceTypeOK'
  BY RetryType DEF IInv
<1> DEFINE m == NewMessage(Order(c), Count(msg[c].retries + 1))
<1>3. DOMAIN at = Copies /\ DOMAIN msg = Copies
  BY DEF IInv, ServiceTypeOK
<1> HIDE DEF m
<1>4. at' = [at EXCEPT ![c] = "ack", ![d] = "delayed"] /\ msg' = [msg EXCEPT ![d] = m]
  BY <1>1 DEF m
<1>5. \A e \in Copies : at'[e] = "announce" => e # d /\ e # c
  BY <1>3, <1>4
<1>6. \A e \in Copies \ {c} : at'[e] = "announce" => at[e] = "announce" /\ msg'[e] = msg[e]
  BY <1>3, <1>4, <1>5
<1>7. at'[c] # "announce"
  BY <1>5
<1> QED BY <1>2, <1>6, <1>7, QuietStep DEF RetryLater

LEMMA FreeKeeps ==
    ASSUME IInv, NEW c \in Copies, Expire(c) \/ Ack(c)
    PROVE  IInv'
<1>1. ServiceTypeOK'
  BY ExpireType, AckType DEF IInv
<1>2. DOMAIN at = Copies /\ DOMAIN msg = Copies
  BY DEF IInv, ServiceTypeOK
<1>3. /\ UNCHANGED <<outcome, payments, deadLetter, results>>
      /\ \E place \in {"queued", "free"} : at' = [at EXCEPT ![c] = place]
      /\ msg' = msg \/ \E m : msg' = [msg EXCEPT ![c] = m]
  BY DEF Expire, Ack
<1>4. at'[c] # "announce"
  BY <1>2, <1>3
<1>5. \A d \in Copies \ {c} : at'[d] = at[d] /\ msg'[d] = msg[d]
  BY <1>2, <1>3
<1> QED BY <1>1, <1>3, <1>4, <1>5, QuietStep

-----------------------------------------------------------------------------
LEMMA InitIInv == Init => IInv
BY BoundsAssumption DEF Init, IInv, ServiceTypeOK, ResultsAreBacked, AnnouncesBacked, Places

LEMMA HandleKeeps ==
    ASSUME IInv, NEW c \in Copies, Handle(c) \/ Fault(c)
    PROVE  IInv'
<1>1. CASE Lookup(c)
  <2>1. at[c] = "queued" /\ \E place \in {"ack", "exhausted", "gateway"} : Step(c, place)
    BY <1>1 DEF Lookup
  <2> QED BY <2>1, StepKeeps DEF Places, InHand
<1>2. CASE GatewayFails(c)
  BY <1>2, StepKeeps DEF GatewayFails, Places, InHand
<1>3. CASE PublishSwallowed(c) \/ Redeliver(c) \/ ErrorSwallowed(c)
  <2>1. at[c] # "free" /\ UNCHANGED <<payments, deadLetter, results>>
    BY <1>3 DEF PublishSwallowed, Redeliver, ErrorSwallowed, InHand
  <2>2. Decide(c, "none", "queued") \/ Decide(c, "none", "ack")
    BY <1>3 DEF PublishSwallowed, Redeliver, ErrorSwallowed
  <2> QED BY <2>1, <2>2, DropKeeps
<1> QED
  BY <1>1, <1>2, <1>3, GiveUpKeeps, GatewayAnswersKeeps, RetryLaterKeeps, FreeKeeps,
     SaveKeeps, PublishResultKeeps DEF Handle, Proceed, Fault

LEMMA NextIInv == IInv /\ [Next]_vars => IInv'
<1> SUFFICES ASSUME IInv, [Next]_vars PROVE IInv'
  OBVIOUS
<1>1. CASE UNCHANGED service
  BY <1>1 DEF service, IInv, ServiceTypeOK, ResultsAreBacked, AnnouncesBacked, Backed,
              Statuses, Order
<1>2. CASE \E o \in Orders : Request(o)
  BY <1>2, RequestKeeps
<1>3. CASE \E c \in Copies : Handle(c) \/ Fault(c)
  BY <1>3, HandleKeeps
<1>4. CASE \E c \in Copies : TimeoutCharged(c)
  <2>1. PICK c \in Copies : at[c] = "gateway" /\ Step(c, "retry")
    BY <1>4 DEF TimeoutCharged
  <2> QED BY <2>1, StepKeeps DEF Places, InHand
<1> QED BY <1>1, <1>2, <1>3, <1>4 DEF Next, Idle, vars

\* Every copy of payment.requested keeps the inductive invariant.
THEOREM Invariance == Spec => []IInv
BY InitIInv, NextIInv, PTL DEF Spec

-----------------------------------------------------------------------------
(* The history.                                                            *)

HistoryTypeOK ==
    /\ charged \in [Orders -> 0..2]
    /\ overlapped \subseteq Orders
    /\ faulted \subseteq Orders
    /\ maxRetries \in Limits

\* A copy is in hand when it carries a message.
LEMMA InHandOrder ==
    ASSUME ServiceTypeOK, NEW c \in Copies, at[c] \in InHand \cup {"queued"}
    PROVE  Order(c) \in Orders
BY MessageOrder DEF InHand

LEMMA ChargedType ==
    ASSUME charged \in [Orders -> 0..2], NEW o \in Orders
    PROVE  [charged EXCEPT ![o] = ChargeOnce(@)] \in [Orders -> 0..2]
BY DEF ChargeOnce

LEMMA HistoryStep == ServiceTypeOK /\ HistoryTypeOK /\ [Next]_vars => HistoryTypeOK'
<1> SUFFICES ASSUME ServiceTypeOK, HistoryTypeOK, [Next]_vars PROVE HistoryTypeOK'
  OBVIOUS
<1>1. CASE UNCHANGED history
  BY <1>1 DEF HistoryTypeOK, history
<1>2. ASSUME NEW c \in Copies, Lookup(c) /\ TakeUp(c) PROVE HistoryTypeOK'
  <2>1. \A d \in Copies : at[d] \in InHand => Order(d) \in Orders
    BY InHandOrder
  <2> QED BY <1>2, <2>1 DEF TakeUp, HistoryTypeOK
<1>3. ASSUME NEW c \in Copies, GatewayAnswers(c) /\ Charge(c) PROVE HistoryTypeOK'
  <2>1. Order(c) \in Orders
    BY <1>3, InHandOrder DEF GatewayAnswers, InHand
  <2> QED BY <1>3, <2>1, ChargedType DEF Charge, HistoryTypeOK
<1>4. ASSUME NEW c \in Copies, Fault(c) /\ Mark(c) /\ UNCHANGED charged PROVE HistoryTypeOK'
  <2>1. at[c] \in InHand \cup {"queued"}
    BY <1>4 DEF Fault, PublishSwallowed, Redeliver, ErrorSwallowed, InHand
  <2> QED BY <1>4, <2>1, InHandOrder DEF Mark, HistoryTypeOK
<1>5. ASSUME NEW c \in Copies, TimeoutCharged(c) PROVE HistoryTypeOK'
  <2>1. Order(c) \in Orders
    BY <1>5, InHandOrder DEF TimeoutCharged, InHand
  <2> QED BY <1>5, <2>1, ChargedType DEF TimeoutCharged, Mark, HistoryTypeOK
<1> QED
  BY <1>1, <1>2, <1>3, <1>4, <1>5 DEF Next, Handle, Idle, vars

\* Every variable of Payment keeps its type, whatever crashes, is redelivered or
\* swallowed: a copy carries a message exactly while it is somewhere, and an
\* outcome exactly while its handler has one to report.
THEOREM TypeCorrect == Spec => []TypeOK
<1>1. Init => HistoryTypeOK
  BY DEF Init, HistoryTypeOK
<1>2. IInv => ServiceTypeOK
  BY DEF IInv
<1>3. ServiceTypeOK /\ HistoryTypeOK => TypeOK
  BY DEF TypeOK, HistoryTypeOK
<1> QED BY <1>1, <1>2, <1>3, HistoryStep, Invariance, PTL DEF Spec

\* No result is ever published that is not the outcome of a recorded payment or
\* the failure of a dead-lettered one: processPaymentRequested saves before it
\* publishes, in every branch.
THEOREM ResultsBacked == Spec => []ResultsAreBacked
<1>1. IInv => ResultsAreBacked
  BY DEF IInv
<1> QED BY <1>1, Invariance, PTL

-----------------------------------------------------------------------------
(* AtMostOnePayment.                                                       *)

Charging == {"gateway", "save"}

\* Whoever is about to charge an order, no two copies of which were in hand at
\* once, is alone, and the order has no payment.
ChargesAlone ==
    /\ \A c \in Copies :
          at[c] \in Charging /\ Order(c) \notin overlapped => payments[Order(c)] = <<>>
    /\ \A c, d \in Copies :
          at[c] \in Charging /\ at[d] \in Charging /\ c # d /\ Order(c) \notin overlapped =>
              Order(c) # Order(d)

AloneInv == ServiceTypeOK /\ AtMostOnePayment /\ ChargesAlone

\* A step that records no payment and begins no charge.
LEMMA NoNewCharge ==
    ASSUME AloneInv, ServiceTypeOK', UNCHANGED payments, overlapped \subseteq overlapped',
           \A c \in Copies : at'[c] \in Charging => at[c] \in Charging /\ msg'[c] = msg[c]
    PROVE  AloneInv'
<1>1. AtMostOnePayment'
  BY DEF AloneInv, AtMostOnePayment
<1>2. ChargesAlone'
  BY DEF AloneInv, ChargesAlone, Order
<1> QED BY <1>1, <1>2 DEF AloneInv

\* A copy taken up while another of its order is in hand marks the order.
LEMMA BeginCharge ==
    ASSUME AloneInv, ServiceTypeOK', NEW c \in Copies, Lookup(c), TakeUp(c)
    PROVE  AloneInv'
<1>1. overlapped \subseteq overlapped'
  BY DEF TakeUp
<1>2. CASE Step(c, "ack") \/ Step(c, "exhausted")
  BY <1>1, <1>2, NoNewCharge DEF Step, AloneInv, ServiceTypeOK, Charging
<1>3. CASE Step(c, "gateway") /\ payments[Order(c)] = <<>>
  <2>1. AtMostOnePayment'
    BY <1>1, <1>3 DEF AloneInv, AtMostOnePayment, Step
  <2>2. msg' = msg /\ payments' = payments
    BY <1>3 DEF Step
  <2>3. \A d \in Copies : d # c /\ at'[d] \in Charging => at[d] \in Charging
    BY <1>3 DEF AloneInv, ServiceTypeOK, Step
  <2>4. ASSUME NEW d \in Copies, d # c, at'[d] \in Charging, Order(d) = Order(c)
        PROVE  Order(c) \in overlapped'
    <3>1. at[d] \in InHand
      BY <2>3, <2>4 DEF Charging, InHand
    <3> QED BY <2>4, <3>1 DEF TakeUp
  <2>5. ChargesAlone'
    BY <1>1, <1>3, <2>2, <2>3, <2>4 DEF AloneInv, ChargesAlone, Order
  <2> QED BY <2>1, <2>5 DEF AloneInv
<1> QED BY <1>2, <1>3 DEF Lookup

LEMMA SaveOnce ==
    ASSUME AloneInv, ServiceTypeOK', NEW c \in Copies, Save(c), UNCHANGED overlapped
    PROVE  AloneInv'
<1> DEFINE o == Order(c)
<1>1. o \in Orders /\ outcome[c] \in Outcomes /\ msg' = msg /\ at[c] \in Charging
  BY MessageOrder DEF AloneInv, ServiceTypeOK, Charging, Save, Decide
<1>2. payments' = [payments EXCEPT ![o] = Append(payments[o], outcome[c])]
  BY DEF Save
<1>3. o \notin overlapped => payments[o] = <<>>
  BY <1>1 DEF AloneInv, ChargesAlone
<1>4. AtMostOnePayment'
  <2> SUFFICES ASSUME NEW x \in Orders \ overlapped PROVE Len(payments'[x]) <= 1
    BY DEF AtMostOnePayment
  <2>1. CASE x = o
    BY <1>1, <1>2, <1>3, <2>1 DEF AloneInv, ServiceTypeOK
  <2>2. CASE x # o
    BY <1>1, <1>2, <2>2 DEF AloneInv, ServiceTypeOK, AtMostOnePayment
  <2> QED BY <2>1, <2>2
<1>5. \A d \in Copies : at'[d] \in Charging => at[d] \in Charging /\ d # c
  BY DEF Save, Decide, AloneInv, ServiceTypeOK, Charging
<1>6. ASSUME NEW d \in Copies, at'[d] \in Charging, Order(d) \notin overlapped
      PROVE  payments'[Order(d)] = <<>>
  <2>1. Order(d) # o /\ payments[Order(d)] = <<>>
    BY <1>1, <1>5, <1>6 DEF AloneInv, ChargesAlone
  <2>2. Order(d) \in Orders
    BY <1>5, <1>6, MessageOrder DEF AloneInv, Charging
  <2> QED BY <1>2, <2>1, <2>2 DEF AloneInv, ServiceTypeOK
<1>7. ChargesAlone'
  BY <1>1, <1>5, <1>6 DEF AloneInv, ChargesAlone, Order
<1> QED BY <1>4, <1>7 DEF AloneInv

\* A free copy does not charge, a charging one is not free.
LEMMA OtherSteps ==
    ASSUME AloneInv, ServiceTypeOK', UNCHANGED overlapped, NEW c \in Copies,
           GiveUp(c) \/ GatewayAnswers(c) \/ GatewayFails(c) \/ RetryLater(c) \/ Expire(c)
           \/ PublishResult(c) \/ Ack(c) \/ Fault(c) \/ TimeoutCharged(c)
    PROVE  AloneInv'
<1>1. payments' = payments
  BY DEF GiveUp, GatewayAnswers, GatewayFails, RetryLater, Expire, PublishResult, Ack,
         Fault, PublishSwallowed, Redeliver, ErrorSwallowed, TimeoutCharged, Step
<1>2. ASSUME RetryLater(c)
      PROVE  \A e \in Copies : at'[e] \in Charging => at[e] \in Charging /\ msg'[e] = msg[e]
  <2>1. PICK d \in Copies :
            /\ at[d] = "free"
            /\ at' = [at EXCEPT ![c] = "ack", ![d] = "delayed"]
            /\ msg' = [msg EXCEPT ![d] = NewMessage(Order(c), Count(msg[c].retries + 1))]
    BY <1>2 DEF RetryLater
  <2> QED BY <2>1 DEF AloneInv, ServiceTypeOK, Charging
<1>3. ASSUME Expire(c) \/ Ack(c)
      PROVE  \A e \in Copies : at'[e] \in Charging => at[e] \in Charging /\ msg'[e] = msg[e]
  BY <1>3 DEF Expire, Ack, AloneInv, ServiceTypeOK, Charging
<1>4. ASSUME GiveUp(c) \/ GatewayAnswers(c) \/ GatewayFails(c) \/ PublishResult(c) \/ Fault(c)
             \/ TimeoutCharged(c)
      PROVE  \A e \in Copies : at'[e] \in Charging => at[e] \in Charging /\ msg'[e] = msg[e]
  BY <1>4 DEF GiveUp, GatewayAnswers, GatewayFails, PublishResult, Fault, PublishSwallowed,
              Redeliver, ErrorSwallowed, TimeoutCharged, Step, Decide, AloneInv, ServiceTypeOK, Charging
<1> QED BY <1>1, <1>2, <1>3, <1>4, NoNewCharge

LEMMA NewRequest ==
    ASSUME AloneInv, ServiceTypeOK', NEW o \in Orders, Request(o), UNCHANGED overlapped
    PROVE  AloneInv'
<1>1. PICK c \in Copies :
          /\ at[c] = "free"
          /\ at' = [at EXCEPT ![c] = "queued"]
          /\ msg' = [msg EXCEPT ![c] = NewMessage(o, 0)]
  BY DEF Request
<1> QED BY <1>1, NoNewCharge DEF Request, AloneInv, ServiceTypeOK, Charging

LEMMA AloneStep == ServiceTypeOK' /\ AloneInv /\ [Next]_vars => AloneInv'
<1> SUFFICES ASSUME ServiceTypeOK', AloneInv, [Next]_vars PROVE AloneInv'
  OBVIOUS
<1>1. CASE UNCHANGED vars
  BY <1>1, NoNewCharge DEF vars, service, history
<1>2. CASE \E o \in Orders : Request(o) /\ UNCHANGED history
  BY <1>2, NewRequest DEF history
<1>3. ASSUME NEW c \in Copies, Handle(c) PROVE AloneInv'
  <2>1. CASE Lookup(c) /\ TakeUp(c)
    BY <2>1, BeginCharge
  <2>2. CASE GatewayAnswers(c) /\ Charge(c)
    BY <2>2, OtherSteps DEF Charge
  <2>3. CASE Proceed(c) /\ UNCHANGED history
    BY <2>3, SaveOnce, OtherSteps DEF Proceed, history
  <2> QED BY <1>3, <2>1, <2>2, <2>3 DEF Handle
<1>4. ASSUME NEW c \in Copies, (Fault(c) /\ Mark(c)) \/ TimeoutCharged(c) PROVE AloneInv'
  <2>1. UNCHANGED overlapped
    BY <1>4 DEF Mark, TimeoutCharged
  <2> QED BY <1>4, <2>1, OtherSteps
<1> QED BY <1>1, <1>2, <1>3, <1>4 DEF Next, Idle

LEMMA AloneInit == Init => AloneInv
<1>1. Init => AtMostOnePayment
  <2>1. Len(<<>>) = 0
    OBVIOUS
  <2>2. Init => \A o \in Orders : payments[o] = <<>>
    BY DEF Init
  <2>3. ASSUME NEW o \in Orders, payments[o] = <<>> PROVE Len(payments[o]) <= 1
    BY <2>1, <2>3
  <2> QED BY <2>2, <2>3 DEF AtMostOnePayment
<1>2. Init => ChargesAlone
  BY DEF Init, ChargesAlone, Charging
<1> QED BY <1>1, <1>2, InitIInv DEF AloneInv, IInv

\* An order is paid at most once, however often its request is redelivered,
\* retried or duplicated, unless two copies of it are processed at the same time:
\* the lookup of processPaymentRequested is enough then.
THEOREM PaidOnce == Spec => []AtMostOnePayment
<1>1. IInv => ServiceTypeOK
  BY DEF IInv
<1>2. AloneInv => AtMostOnePayment
  BY DEF AloneInv
<1> QED BY <1>1, <1>2, AloneInit, AloneStep, Invariance, PTL DEF Spec

-----------------------------------------------------------------------------
(* ChargedOnce.                                                            *)

\* A charge of an order nothing happened to has a payment, or is about to.
ChargesKept ==
    \A o \in Orders \ (overlapped \cup faulted) :
        charged[o] # 0 =>
            /\ charged[o] = 1
            /\ payments[o] # <<>> \/ \E c \in Copies : at[c] = "save" /\ Order(c) = o

ChargeInv == ServiceTypeOK /\ HistoryTypeOK /\ ChargesAlone /\ ChargesKept

\* A step that charges nothing, and lets no outcome go without a row or a mark.
LEMMA NoCharge ==
    ASSUME ChargeInv, UNCHANGED charged, overlapped \subseteq overlapped',
           faulted \subseteq faulted',
           \A o \in Orders : payments[o] # <<>> => payments'[o] # <<>>,
           \A c \in Copies : at[c] = "save" =>
               \/ at'[c] = "save" /\ msg'[c] = msg[c]
               \/ payments'[Order(c)] # <<>>
               \/ Order(c) \in faulted'
    PROVE  ChargesKept'
<1> SUFFICES ASSUME NEW o \in Orders, o \notin overlapped' \cup faulted', charged'[o] # 0
             PROVE  /\ charged'[o] = 1
                    /\ payments'[o] # <<>> \/ \E c \in Copies : at'[c] = "save" /\ Order(c)' = o
  BY DEF ChargesKept
<1>1. charged[o] = 1
  BY DEF ChargeInv, ChargesKept
<1>2. CASE payments[o] # <<>>
  BY <1>1, <1>2
<1>3. CASE \E c \in Copies : at[c] = "save" /\ Order(c) = o
  BY <1>1, <1>3 DEF Order
<1> QED BY <1>1, <1>2, <1>3 DEF ChargeInv, ChargesKept

\* The gateway is asked when the order has neither a row nor an outcome.
LEMMA FirstCharge ==
    ASSUME ChargeInv, NEW c \in Copies, GatewayAnswers(c), Charge(c)
    PROVE  ChargesKept'
<1>1. PICK status \in Outcomes : Decide(c, status, "save")
  BY DEF GatewayAnswers
<1>2. at[c] = "gateway" /\ Order(c) \in Orders /\ payments' = payments /\ msg' = msg
      /\ at' = [at EXCEPT ![c] = "save"] /\ UNCHANGED <<overlapped, faulted>>
  BY <1>1, InHandOrder DEF ChargeInv, GatewayAnswers, Decide, Charge, InHand
<1>3. \A d \in Copies : at[d] = "save" => at'[d] = "save" /\ Order(d)' = Order(d)
  BY <1>2 DEF ChargeInv, ServiceTypeOK, Order
<1> SUFFICES ASSUME NEW o \in Orders, o \notin overlapped \cup faulted, charged'[o] # 0
             PROVE  /\ charged'[o] = 1
                    /\ payments'[o] # <<>> \/ \E d \in Copies : at'[d] = "save" /\ Order(d)' = o
  BY <1>2 DEF ChargesKept
<1>4. CASE charged'[o] = charged[o]
  <2>1. charged[o] = 1 /\ (payments[o] # <<>> \/ \E d \in Copies : at[d] = "save" /\ Order(d) = o)
    BY <1>4 DEF ChargeInv, ChargesKept
  <2> QED BY <1>2, <1>3, <1>4, <2>1
<1>5. CASE charged'[o] # charged[o]
  <2>1. o = Order(c) /\ charged'[o] = ChargeOnce(charged[o])
    BY <1>2, <1>5 DEF Charge, ChargeInv, HistoryTypeOK
  <2>2. payments[o] = <<>> /\ \A d \in Copies : at[d] = "save" => Order(d) # o
    BY <1>2, <2>1 DEF ChargeInv, ChargesAlone, Charging
  <2>3. charged[o] = 0
    BY <2>2 DEF ChargeInv, ChargesKept
  <2>4. at'[c] = "save" /\ Order(c)' = o
    BY <1>2, <2>1 DEF ChargeInv, ServiceTypeOK, Order
  <2> QED BY <2>1, <2>3, <2>4 DEF ChargeOnce
<1> QED BY <1>4, <1>5

LEMMA ChargeStep == ChargeInv /\ [Next]_vars => ChargesKept'
<1> SUFFICES ASSUME ChargeInv, [Next]_vars PROVE ChargesKept'
  OBVIOUS
<1>1. CASE UNCHANGED vars
  BY <1>1, NoCharge DEF vars, service, history
<1>2. ASSUME NEW o \in Orders, Request(o) /\ UNCHANGED history PROVE ChargesKept'
  <2>1. \A d \in Copies : at[d] = "save" => at'[d] = "save" /\ msg'[d] = msg[d]
    BY <1>2 DEF Request, ChargeInv, ServiceTypeOK
  <2> QED BY <1>2, <2>1, NoCharge DEF Request, history
<1>3. ASSUME NEW c \in Copies, Lookup(c) /\ TakeUp(c) PROVE ChargesKept'
  <2>1. at[c] = "queued" /\ \E place \in {"ack", "exhausted", "gateway"} : Step(c, place)
    BY <1>3 DEF Lookup
  <2> QED BY <1>3, <2>1, NoCharge DEF Step, TakeUp, ChargeInv, ServiceTypeOK
<1>4. ASSUME NEW c \in Copies, Proceed(c) /\ UNCHANGED history PROVE ChargesKept'
  <2>1. CASE RetryLater(c)
    <3>1. PICK d \in Copies :
              /\ at[d] = "free"
              /\ at' = [at EXCEPT ![c] = "ack", ![d] = "delayed"]
              /\ msg' = [msg EXCEPT ![d] = NewMessage(Order(c), Count(msg[c].retries + 1))]
      BY <2>1 DEF RetryLater
    <3>2. \A e \in Copies : at[e] = "save" => at'[e] = "save" /\ msg'[e] = msg[e]
      BY <2>1, <3>1 DEF RetryLater, ChargeInv, ServiceTypeOK
    <3> QED BY <1>4, <2>1, <3>2, NoCharge DEF RetryLater, history
  <2>2. CASE Save(c)
    <3>1. Order(c) \in Orders /\ outcome[c] \in Outcomes
      BY <2>2, MessageOrder DEF ChargeInv, ServiceTypeOK, Save
    <3>2. payments' = [payments EXCEPT ![Order(c)] = Append(payments[Order(c)], outcome[c])]
      BY <2>2 DEF Save
    <3>3. \A o \in Orders : payments[o] # <<>> => payments'[o] # <<>>
      BY <3>1, <3>2 DEF ChargeInv, ServiceTypeOK
    <3>4. payments'[Order(c)] # <<>>
      <4>1. PICK o \in Orders, s \in Seq(Outcomes) : o = Order(c) /\ s = payments[o]
        BY <3>1 DEF ChargeInv, ServiceTypeOK
      <4>2. payments'[o] = Append(s, outcome[c])
        BY <3>2, <4>1 DEF ChargeInv, ServiceTypeOK
      <4>3. Len(Append(s, outcome[c])) = Len(s) + 1 /\ Len(s) \in Nat /\ Len(<<>>) = 0
        BY <3>1
      <4>4. Append(s, outcome[c]) # <<>>
        BY <4>3
      <4> QED BY <4>1, <4>2, <4>4
    <3>5. \A d \in Copies : d # c /\ at[d] = "save" => at'[d] = "save" /\ msg'[d] = msg[d]
      BY <2>2 DEF Save, Decide, ChargeInv, ServiceTypeOK
    <3> QED BY <1>4, <3>3, <3>4, <3>5, NoCharge DEF history
  <2>3. CASE Expire(c) \/ Ack(c)
    <3>1. \A e \in Copies : at[e] = "save" => at'[e] = "save" /\ msg'[e] = msg[e]
      BY <2>3 DEF Expire, Ack, ChargeInv, ServiceTypeOK
    <3> QED BY <1>4, <2>3, <3>1, NoCharge DEF Expire, Ack, history
  <2>4. CASE GiveUp(c) \/ GatewayFails(c) \/ PublishResult(c)
    <3>1. \A e \in Copies : at[e] = "save" => at'[e] = "save" /\ msg'[e] = msg[e]
      BY <2>4 DEF GiveUp, GatewayFails, PublishResult, Step, Decide, ChargeInv, ServiceTypeOK
    <3>2. payments' = payments
      BY <2>4 DEF GiveUp, GatewayFails, PublishResult, Step
    <3> QED BY <1>4, <3>1, <3>2, NoCharge DEF history
  <2> QED BY <1>4, <2>1, <2>2, <2>3, <2>4 DEF Proceed
<1>5. ASSUME NEW c \in Copies, Fault(c) /\ Mark(c) /\ UNCHANGED charged PROVE ChargesKept'
  <2>1. payments' = payments /\ \A d \in Copies : d # c => at'[d] = at[d] /\ msg'[d] = msg[d]
    BY <1>5 DEF Fault, PublishSwallowed, Redeliver, ErrorSwallowed, Decide, ChargeInv, ServiceTypeOK
  <2>2. Order(c) \in faulted' /\ faulted \subseteq faulted' /\ overlapped' = overlapped
    BY <1>5 DEF Mark
  <2> QED BY <1>5, <2>1, <2>2, NoCharge
<1>6. ASSUME NEW c \in Copies, TimeoutCharged(c) PROVE ChargesKept'
  <2>1. PICK o \in Orders : o = Order(c)
    BY <1>6, InHandOrder DEF TimeoutCharged, InHand, ChargeInv
  <2>2. /\ charged' = [charged EXCEPT ![o] = ChargeOnce(@)] /\ o \in faulted'
        /\ faulted \subseteq faulted' /\ overlapped' = overlapped
        /\ payments' = payments /\ msg' = msg /\ at[c] = "gateway" /\ at' = [at EXCEPT ![c] = "retry"]
    BY <1>6, <2>1 DEF TimeoutCharged, Mark, Step
  <2>3. \A x \in Orders : x # o => charged'[x] = charged[x]
    BY <2>2 DEF ChargeInv, HistoryTypeOK
  <2>4. \A d \in Copies : at[d] = "save" => at'[d] = "save" /\ Order(d)' = Order(d)
    BY <2>2 DEF ChargeInv, ServiceTypeOK, Order
  <2> QED BY <2>2, <2>3, <2>4 DEF ChargeInv, ChargesKept
<1>7. ASSUME NEW c \in Copies, Handle(c) PROVE ChargesKept'
  BY <1>3, <1>4, <1>7, FirstCharge DEF Handle
<1> QED BY <1>1, <1>2, <1>5, <1>6, <1>7 DEF Next, Idle

\* The gateway charges an order once, however often the request is redelivered
\* after its payment was saved, duplicated, and retried after failed calls, unless
\* two copies overlap or a fault comes between the charge and its row.
THEOREM GatewayChargesOnce == Spec => []ChargedOnce
<1>1. Init => HistoryTypeOK /\ ChargesKept
  BY DEF Init, HistoryTypeOK, ChargesKept
<1>2. Init => AloneInv
  BY AloneInit
<1>3. AloneInv => ServiceTypeOK /\ ChargesAlone
  BY DEF AloneInv
<1>4. ServiceTypeOK /\ HistoryTypeOK /\ ChargesAlone /\ ChargesKept <=> ChargeInv
  BY DEF ChargeInv
<1>5. ChargeInv => ChargedOnce
  <2> SUFFICES ASSUME ChargeInv, NEW o \in Orders \ (overlapped \cup faulted)
               PROVE  charged[o] <= 1
    BY DEF ChargedOnce
  <2>1. charged[o] = 0 \/ charged[o] = 1
    BY DEF ChargeInv, ChargesKept
  <2> QED BY <2>1
<1>6. IInv => ServiceTypeOK
  BY DEF IInv
<1> QED
  BY <1>1, <1>2, <1>3, <1>4, <1>5, <1>6, AloneStep, HistoryStep, ChargeStep, Invariance, PTL
  DEF Spec
=============================================================================

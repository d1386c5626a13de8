----------------------------- MODULE OutboxRelay -----------------------------
(***************************************************************************)
(* The way of an order.created event from the outbox table to RabbitMQ:    *)
(* Debezium copies committed rows to a Kafka topic (one partition), and    *)
(* the relays of the order-service replicas, one consumer group, publish   *)
(* them.  The group's offset survives; what a consumer has read does not.  *)
(***************************************************************************)
EXTENDS Integers, Sequences

CONSTANTS
    Orders,     \* the orders that may be created; an event is its order
    Replicas,   \* replicas of order-service, each with a relay
    MaxFaults,  \* bound: crashes, rebalances, failed publishes, duplicates
    None        \* no owner, no offset, nothing in hand

ASSUME RelayBoundsAssumption == MaxFaults \in Nat
ASSUME RelayNoneAssumption   == None \notin Orders \cup Replicas \cup Nat

VARIABLES
    outbox,     \* committed rows of outbox_events that Debezium has not copied
    topic,      \* the Kafka topic outbox.event.Order
    connected,  \* replicas whose consumer runs
    owner,      \* the replica the partition is assigned to, or None
    position,   \* events each consumer has behind it
    hand,       \* the event in eachMessage of each consumer, or None
    resolved,   \* consumers that have handled events they did not commit
    offset,     \* the group's committed offset, or None
    published,  \* events published to RabbitMQ
    faults      \* faults that have happened

consumers == <<connected, owner, position, hand, resolved>>
relayVars == <<outbox, topic, consumers, offset, published, faults>>

RelayInit ==
    /\ outbox = {}
    /\ topic = <<>>
    /\ connected = {}
    /\ owner = None
    /\ position = [n \in Replicas |-> 0]
    /\ hand = [n \in Replicas |-> None]
    /\ resolved = {}
    /\ offset = None
    /\ published = {}
    /\ faults = 0

Fault == faults < MaxFaults /\ faults' = faults + 1

-----------------------------------------------------------------------------
(* Debezium (external).                                                    *)

Capture(o) ==
    /\ o \in outbox
    /\ outbox' = outbox \ {o}
    /\ topic' = Append(topic, o)
    /\ UNCHANGED <<consumers, offset, published, faults>>

\* Debezium dies before it has stored how far it got.
CaptureAgain(i) ==
    /\ i \in DOMAIN topic /\ Fault
    /\ topic' = Append(topic, topic[i])
    /\ UNCHANGED <<outbox, consumers, offset, published>>

-----------------------------------------------------------------------------
(* The relay.                                                              *)

\* connectWithRetry succeeds, at boot or after a crash of the consumer.
Connect(n) ==
    /\ n \notin connected
    /\ connected' = connected \cup {n}
    /\ UNCHANGED <<outbox, topic, owner, position, hand, resolved, offset, published, faults>>

\* Where a consumer starts: at the committed offset, or with fromBeginning
\* false at the end of the topic.
StartPosition == IF offset = None THEN Len(topic) ELSE offset

\* The group gives n the partition (external); n has finished what it had.
Take(n) ==
    /\ n \in connected /\ hand[n] = None
    /\ owner' = n
    /\ position' = [position EXCEPT ![n] = StartPosition]
    /\ resolved' = resolved \ {n}
    /\ UNCHANGED <<connected, hand>>

Assign(n) ==
    /\ owner = None /\ Take(n)
    /\ UNCHANGED <<outbox, topic, offset, published, faults>>

\* The group moves the partition while its owner may be in eachMessage.
Rebalance(n) ==
    /\ owner \notin {None, n} /\ Fault /\ Take(n)
    /\ UNCHANGED <<outbox, topic, offset, published>>

\* Mutation: eachMessage does not await the publish.
FetchUnawaited(n) ==
    /\ owner = n /\ hand[n] = None /\ position[n] < Len(topic)
    /\ hand' = [hand EXCEPT ![n] = topic[position[n] + 1]]
    /\ position' = [position EXCEPT ![n] = @ + 1]
    /\ resolved' = resolved \cup {n}
    /\ UNCHANGED <<outbox, topic, connected, owner, offset, published, faults>>

\* eachMessage is called with the next event.
Fetch(n) ==
    /\ owner = n /\ hand[n] = None /\ position[n] < Len(topic)
    /\ hand' = [hand EXCEPT ![n] = topic[position[n] + 1]]
    /\ UNCHANGED <<outbox, topic, connected, owner, position, resolved>>
    /\ UNCHANGED <<offset, published, faults>>

\* Mutation: eachMessage catches the error of a failed publish, and returns.
PublishLogged(n) ==
    /\ hand[n] # None
    /\ published' \in {published, published \cup {hand[n]}}
    /\ hand' = [hand EXCEPT ![n] = None]
    /\ position' = [position EXCEPT ![n] = @ + 1]
    /\ resolved' = resolved \cup {n}
    /\ UNCHANGED <<outbox, topic, connected, owner, offset, faults>>

\* The publish resolves and eachMessage returns, whether or not n still owns
\* the partition.
Publish(n) ==
    /\ hand[n] # None
    /\ published' = published \cup {hand[n]}
    /\ hand' = [hand EXCEPT ![n] = None]
    /\ position' = [position EXCEPT ![n] = @ + 1]
    /\ resolved' = resolved \cup {n}
    /\ UNCHANGED <<outbox, topic, connected, owner, offset, faults>>

\* kafkajs commits what eachMessage has returned from; the broker accepts it
\* from the owner only.
Commit(n) ==
    /\ owner = n /\ n \in resolved
    /\ offset' = position[n]
    /\ resolved' = resolved \ {n}
    /\ UNCHANGED <<outbox, topic, connected, owner, position, hand, published, faults>>

\* The replica dies, or its publish fails and the consumer crashes.
Crash(n) ==
    /\ n \in connected /\ Fault
    /\ connected' = connected \ {n}
    /\ owner' = IF owner = n THEN None ELSE owner
    /\ hand' = [hand EXCEPT ![n] = None]
    /\ resolved' = resolved \ {n}
    /\ UNCHANGED <<outbox, topic, position, offset, published>>

-----------------------------------------------------------------------------
Relay(n) == Connect(n) \/ Assign(n) \/ Fetch(n) \/ Publish(n) \/ Commit(n)

-----------------------------------------------------------------------------
RelayTypeOK ==
    /\ outbox \subseteq Orders
    /\ topic \in Seq(Orders)
    /\ connected \subseteq Replicas
    /\ owner \in connected \cup {None}
    /\ position \in [Replicas -> Nat]
    /\ hand \in [Replicas -> Orders \cup {None}]
    /\ resolved \subseteq connected
    /\ offset \in Nat \cup {None}
    /\ published \subseteq Orders
    /\ faults \in 0..MaxFaults
    /\ \A n \in Replicas : hand[n] # None => n \in connected
=============================================================================

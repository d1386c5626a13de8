------------------------------- MODULE Gateway -------------------------------
(***************************************************************************)
(* gateway-service: every request passes express-rate-limit, which counts  *)
(* in a Redis that all replicas share (main.ts), and is then proxied to    *)
(* the service of its path prefix (proxy.setup.ts).                        *)
(***************************************************************************)
EXTENDS Integers, FiniteSets

CONSTANTS
    Requests,   \* requests of one client address
    Replicas,   \* gateway replicas
    Limit,      \* THROTTLE_LIMIT
    MaxRetriesPerRequest,  \* option of the Redis client
    MaxFaults   \* bound: failures of Redis, of a connection, of a replica

VARIABLES
    reply,     \* of each request: "unsent", "pending" or what the client got
    asking,    \* requests of each replica that wait for Redis
    retried,   \* those the store asks Redis a second time for
    proxied,   \* requests of each replica that wait for a service
    hits,      \* the counter of the window in each store
    redisUp,
    attempts,  \* connection attempts a replica has made in vain, 0 when connected
    admitted,  \* history: requests the counter has let through in this window
    resent,    \* history: counts of this window whose answer was lost
    faults     \* failures that have happened

limiterVars == <<asking, retried, hits, redisUp, attempts, admitted, resent>>
gatewayVars == <<reply, proxied, limiterVars, faults>>

Redis  == "redis"
Stores == {Redis} \cup Replicas

GatewayInit ==
    /\ reply = [r \in Requests |-> "unsent"]
    /\ asking = [g \in Replicas |-> {}]
    /\ retried = {}
    /\ proxied = [g \in Replicas |-> {}]
    /\ hits = [s \in Stores |-> 0]
    /\ redisUp = TRUE
    /\ attempts = [g \in Replicas |-> 0]
    /\ admitted = 0 /\ resent = 0 /\ faults = 0

Fault == faults < MaxFaults /\ faults' = faults + 1

InFlight(g) == asking[g] \cup proxied[g]

\* What the requests of R are answered.
Answered(R, text) == [r \in Requests |-> IF r \in R THEN text ELSE reply[r]]

-----------------------------------------------------------------------------
(* Rate limiting.                                                          *)

\* A request arrives at a replica and is counted first.
Arrive(r, g) ==
    /\ reply[r] = "unsent"
    /\ reply' = [reply EXCEPT ![r] = "pending"]
    /\ asking' = [asking EXCEPT ![g] = @ \cup {r}]
    /\ UNCHANGED <<retried, proxied, hits, redisUp, attempts, admitted, resent, faults>>

\* Requests of g that pass the limiter are proxied.
Pass(g, R) == proxied' = [proxied EXCEPT ![g] = @ \cup R] /\ UNCHANGED reply

\* Mutation: the default store of express-rate-limit, in the memory of a pod.
MemoryStore(g) == g

\* The store of the limiter.
StoreOf(g) == Redis

\* The script of the store increments the counter and returns it.
Count(r, g) ==
    /\ r \in asking[g] /\ redisUp /\ attempts[g] = 0
    /\ hits' = [hits EXCEPT ![StoreOf(g)] = @ + 1]
    /\ asking' = [asking EXCEPT ![g] = @ \ {r}]
    /\ retried' = retried \ {r}
    /\ \/ /\ hits'[StoreOf(g)] <= Limit
          /\ Pass(g, {r}) /\ admitted' = admitted + 1
       \/ /\ hits'[StoreOf(g)] > Limit
          /\ reply' = Answered({r}, "tooMany")
          /\ UNCHANGED <<proxied, admitted>>
    /\ UNCHANGED <<redisUp, attempts, resent, faults>>

\* A connection drops when some of the waiting requests have been counted: the
\* client sends all of them again once it is reconnected.
Disconnect(g) ==
    /\ redisUp /\ attempts[g] = 0 /\ Fault
    /\ \E counted \in SUBSET asking[g] :
           /\ hits' = [hits EXCEPT ![StoreOf(g)] = @ + Cardinality(counted)]
           /\ resent' = resent + Cardinality(counted)
    /\ attempts' = [attempts EXCEPT ![g] = 1]
    /\ UNCHANGED <<reply, proxied, asking, retried, redisUp, admitted>>

\* Mutation: the counter outlives its window.
WindowKept ==
    /\ hits[Redis] > 0
    /\ admitted' = 0 /\ resent' = 0
    /\ UNCHANGED <<hits, reply, proxied, asking, retried, redisUp, attempts, faults>>

\* windowMs is over.
WindowEnds ==
    /\ hits[Redis] > 0
    /\ hits' = [s \in Stores |-> 0]
    /\ admitted' = 0 /\ resent' = 0
    /\ UNCHANGED <<reply, proxied, asking, retried, redisUp, attempts, faults>>

\* Redis dies with its counters, which are not persisted.
RedisDies ==
    /\ redisUp /\ Fault
    /\ redisUp' = FALSE
    /\ hits' = [s \in Stores |-> 0]
    /\ attempts' = [g \in Replicas |-> IF attempts[g] = 0 THEN 1 ELSE attempts[g]]
    /\ admitted' = 0 /\ resent' = 0
    /\ UNCHANGED <<reply, proxied, asking, retried>>

RedisReturns ==
    /\ ~redisUp /\ redisUp' = TRUE
    /\ UNCHANGED <<reply, proxied, asking, retried, hits, attempts, admitted, resent, faults>>

Connect(g) ==
    /\ attempts[g] > 0 /\ redisUp
    /\ attempts' = [attempts EXCEPT ![g] = 0]
    /\ UNCHANGED <<reply, proxied, asking, retried, hits, redisUp, admitted, resent, faults>>

\* Mutation: maxRetriesPerRequest is null.
WaitForRedis(g) ==
    /\ attempts[g] > 0 /\ ~redisUp
    /\ attempts' = [attempts EXCEPT ![g] = 1]
    /\ UNCHANGED <<reply, proxied, asking, retried, hits, redisUp, admitted, resent, faults>>

\* Mutation: the attempts do not start over.
AttemptOnly(n) == n + 1

\* The attempts after n in vain; the commands that wait fail once in a cycle.
Attempt(n) == IF n > MaxRetriesPerRequest THEN 1 ELSE n + 1

\* retryStrategy: an attempt a second.  After maxRetriesPerRequest of them the
\* waiting commands fail; the store asks once more, then passOnStoreError.
ConnectFails(g) ==
    /\ attempts[g] > 0 /\ ~redisUp
    /\ attempts' = [attempts EXCEPT ![g] = Attempt(@)]
    /\ \/ /\ attempts[g] # MaxRetriesPerRequest
          /\ UNCHANGED <<reply, proxied, asking, retried>>
       \/ /\ attempts[g] = MaxRetriesPerRequest
          /\ Pass(g, asking[g] \cap retried)
          /\ asking' = [asking EXCEPT ![g] = @ \ retried]
          /\ retried' = (retried \ asking[g]) \cup (asking[g] \ retried)
    /\ UNCHANGED <<hits, redisUp, admitted, resent, faults>>

-----------------------------------------------------------------------------
(* Proxying.                                                               *)

Leave(r, g, text) ==
    /\ r \in proxied[g]
    /\ proxied' = [proxied EXCEPT ![g] = @ \ {r}]
    /\ reply' = Answered({r}, text)
    /\ UNCHANGED <<limiterVars, faults>>

\* The service cannot be reached, or PROXY_TIMEOUT_MS is over.
Sever(r, g) == Leave(r, g, "noAnswer")

\* A replica dies with its requests; another takes its place.
ReplicaDies(g) ==
    /\ Fault
    /\ reply' = Answered(InFlight(g), "noAnswer")
    /\ asking' = [asking EXCEPT ![g] = {}]
    /\ retried' = retried \ asking[g]
    /\ proxied' = [proxied EXCEPT ![g] = {}]
    /\ attempts' = [attempts EXCEPT ![g] = 1]
    /\ UNCHANGED <<hits, redisUp, admitted, resent>>

GatewayFairness ==
    \A g \in Replicas :
        /\ WF_gatewayVars(Connect(g) \/ ConnectFails(g))
        /\ \A r \in Requests : WF_gatewayVars(Count(r, g)) /\ WF_gatewayVars(Sever(r, g))

-----------------------------------------------------------------------------
(* Properties.                                                             *)

GatewayTypeOK ==
    /\ asking \in [Replicas -> SUBSET Requests] /\ retried \subseteq Requests
    /\ proxied \in [Replicas -> SUBSET Requests]
    /\ hits \in [Stores -> Nat]
    /\ attempts \in [Replicas -> 0..(MaxRetriesPerRequest + 1)]
    /\ redisUp \in BOOLEAN /\ admitted \in Nat /\ resent \in Nat /\ faults \in 0..MaxFaults

\* The replicas together let no more than THROTTLE_LIMIT requests of a window
\* through on a count, whichever replica each of them came to ("one limit
\* cluster-wide"); what Redis could not count is let through besides.
LimitKept == admitted <= Limit

\* A request is refused only when its window has had THROTTLE_LIMIT requests,
\* those counted twice because a connection dropped included: no counter is
\* left over from an earlier window or an earlier Redis.
OnlyExcessRefused ==
    [][\A r \in Requests : reply[r] = "pending" /\ reply'[r] = "tooMany" =>
          admitted + resent >= Limit]_gatewayVars

\* Every request is answered, with Redis down for ever and with a service that
\* never answers ("rate limiting must never be able to take the gateway down";
\* a hung downstream does not hold the connection open indefinitely).
EveryRequestAnswered == <>[](\A r \in Requests : reply[r] # "pending")
=============================================================================

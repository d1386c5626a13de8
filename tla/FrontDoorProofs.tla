--------------------------- MODULE FrontDoorProofs ---------------------------
(***************************************************************************)
(* Type correctness of FrontDoor, the limit of the cluster, whom it        *)
(* refuses, and that what becomes of accounts implements AccountBook.      *)
(***************************************************************************)
EXTENDS FrontDoor, FiniteSetTheorems, TLAPS

Closed(r) == reply[r] \notin {"unsent", "pending"}

\* The counter of Redis has counted what it let through, and nothing else before
\* the limit is reached, but what a connection lost.
Counted ==
    /\ admitted <= hits[Redis] /\ admitted <= Limit
    /\ hits[Redis] <= admitted + resent \/ Limit <= admitted + resent

\* A request is with one replica, which still owes the answer.
Carried ==
    \A g \in Replicas :
        /\ \A r \in asking[g] : reply[r] = "pending" /\ work[r] = "none"
        /\ \A r \in proxied[g] : reply[r] = "pending" /\ work[r] # "none"
        /\ \A h \in Replicas \ {g} :
               asking[g] \cap asking[h] = {} /\ proxied[g] \cap proxied[h] = {}

\* A service works on what was sent, and was sent when all before was answered.
InTurn ==
    \A r \in Requests :
        /\ work[r] # "none" => reply[r] # "unsent"
        /\ reply[r] # "unsent" => \A q \in Earlier(r) : Closed(q)

\* A client that was told of its account has one.
Recorded ==
    \A r \in Requests :
        /\ reply[r] = "created" => work[r] = "created"
        /\ work[r] = "created" => NewUser(r) \in users

\* The inductive invariant.
IInv == TypeOK /\ Counted /\ Carried /\ InTurn /\ Recorded /\ RegistrationHolds

Working == {"sent", "hashing"}

-----------------------------------------------------------------------------
(* What the services do.                                                   *)

\* A service answers what was sent to it, and rows are only added.
LEMMA ServeChanges ==
    ASSUME IInv, NEW r \in Requests, Serve(r)
    PROVE  /\ UNCHANGED gatewayVars
           /\ work[r] \in Working
           /\ \E text \in {"hashing"} \cup Results :
                 /\ work' = [work EXCEPT ![r] = text]
                 /\ text = "created" => users' = users \cup {NewUser(r)}
           /\ users' = users \/ users' = users \cup {NewUser(r)}
  BY DEF Serve, FindUser, InsertUser, Login, Unauthorized, Me, DatabaseError, At, Answer,
         Results, Working

\* A client with an account on record is not told that its password is wrong.
LEMMA ServeKeepsPromise ==
    ASSUME IInv, NEW r \in Requests, Serve(r) PROVE RegistrationHolds'
<1> SUFFICES ASSUME NEW p \in Requests, NEW q \in Earlier(p),
                    Ask[q].op = "register", reply'[q] = "created", Ask[p].op = "login",
                    NewUser(q) = [NewUser(p) EXCEPT !.id = q],
                    work'[p] = "unauthorized"
             PROVE  FALSE
  BY DEF RegistrationHolds, Earlier, NewUser
<1>1. q \in Requests /\ reply[q] = "created"
  BY ServeChanges DEF Earlier, gatewayVars
<1>2. CASE work[p] = "unauthorized"
  BY <1>1, <1>2 DEF IInv, RegistrationHolds
<1>3. CASE work[p] # "unauthorized"
  <2>1. p = r
    <3>1. PICK text : work' = [work EXCEPT ![r] = text]
      BY ServeChanges
    <3> QED BY <1>3, <3>1, FrontDoorAssumption DEF IInv, TypeOK, AccountsTypeOK
  <2>2. Login(p)
    <3>1. ~FindUser(p) /\ ~InsertUser(p) /\ ~Unauthorized(p) /\ ~(\E sub \in Bearer(p) : Me(p, sub))
      BY DEF FindUser, InsertUser, Unauthorized, Me, At
    <3>2. ~DatabaseError(p)
      BY FrontDoorAssumption DEF DatabaseError, Answer, IInv, TypeOK, AccountsTypeOK
    <3> QED BY <2>1, <3>1, <3>2 DEF Serve
  <2>3. NewUser(q) \in users
    BY <1>1 DEF IInv, Recorded
  <2>4. NewUser(q).email = Ask[p].email /\ NewUser(q).password = Ask[p].password
    BY DEF NewUser
  <2>5. NewUser(q) \in Rows(Ask[p].email)
    BY <2>3, <2>4 DEF Rows
  <2>6. work'[p] = "token"
    BY <2>2, <2>4, <2>5, FrontDoorAssumption DEF Login, Answer, IInv, TypeOK, AccountsTypeOK
  <2> QED BY <2>6
<1> QED BY <1>2, <1>3

\* A service keeps the invariant (AuthService).
LEMMA ServeStep == ASSUME IInv, NEW r \in Requests, Serve(r) PROVE IInv'
<1>1. TypeOK'
  BY ServeChanges, FrontDoorAssumption
  DEF IInv, TypeOK, GatewayTypeOK, AccountsTypeOK, gatewayVars, limiterVars, Working
<1>2. Counted'
  BY ServeChanges DEF IInv, Counted, gatewayVars, limiterVars
<1>0. PICK text \in {"hashing"} \cup Results :
          /\ work' = [work EXCEPT ![r] = text]
          /\ text = "created" => users' = users \cup {NewUser(r)}
  BY ServeChanges
<1>w. work \in [Requests -> {"none", "sent", "hashing"} \cup Results] /\ text # "none"
  BY FrontDoorAssumption DEF IInv, TypeOK, AccountsTypeOK, Results
<1>3. \A p \in Requests : work'[p] = "none" <=> work[p] = "none"
  BY <1>0, <1>w, ServeChanges DEF Working
<1>4. Carried'
  BY <1>3, ServeChanges DEF IInv, Carried, TypeOK, GatewayTypeOK, gatewayVars, limiterVars
<1>5. InTurn'
  BY <1>3, ServeChanges DEF IInv, InTurn, Closed, gatewayVars, Earlier
<1>6. Recorded'
  <2>1. \A p \in Requests : work[p] = "created" => work'[p] = "created"
    BY <1>0, <1>w, ServeChanges DEF Working
  <2>2. \A p \in Requests : work'[p] = "created" => NewUser(p) \in users'
    BY <1>0, <1>w, ServeChanges DEF IInv, Recorded
  <2> QED BY <2>1, <2>2, ServeChanges DEF IInv, Recorded, gatewayVars, NewUser
<1> QED BY <1>1, <1>2, <1>4, <1>5, <1>6, ServeKeepsPromise DEF IInv

-----------------------------------------------------------------------------
(* What the gateway does.                                                  *)

\* Requests only go from unsent to pending and from there to an answer, and
\* services are sent each request once.
OnlyForward ==
    /\ users' = users
    /\ \A r \in Requests :
          \/ reply'[r] = reply[r]
          \/ reply[r] = "unsent" /\ reply'[r] = "pending" /\ \A q \in Earlier(r) : Closed(q)
          \/ /\ reply[r] = "pending" /\ reply'[r] \notin {"unsent", "pending"}
             /\ reply'[r] = "created" => work[r] = "created"
    /\ \A r \in Requests :
          \/ work'[r] = work[r]
          \/ work[r] = "none" /\ work'[r] = "sent" /\ reply[r] # "unsent"

\* Such a step keeps what clients were told true (Relay, Deliver).
LEMMA ForwardKeeps ==
    ASSUME IInv, OnlyForward
    PROVE InTurn' /\ Recorded' /\ RegistrationHolds'
<1>1. \A r \in Requests : Closed(r) => reply'[r] = reply[r]
  BY DEF OnlyForward, Closed
<1>2. InTurn'
  <2>1. \A r \in Requests : work'[r] # "none" => reply'[r] # "unsent"
    BY DEF OnlyForward, IInv, InTurn
  <2>2. \A r \in Requests : reply'[r] # "unsent" => \A q \in Earlier(r) : Closed(q)
    BY DEF OnlyForward, IInv, InTurn
  <2> QED BY <1>1, <2>1, <2>2 DEF InTurn, Closed, Earlier
<1>3. Recorded'
  BY DEF OnlyForward, IInv, Recorded, NewUser
<1>4. RegistrationHolds'
  <2> SUFFICES ASSUME NEW r \in Requests, NEW q \in Earlier(r),
                      Ask[q].op = "register", reply'[q] = "created", Ask[r].op = "login",
                      NewUser(q) = [NewUser(r) EXCEPT !.id = q],
                      work'[r] = "unauthorized"
               PROVE  FALSE
    BY DEF RegistrationHolds, Earlier, NewUser
  <2>1. work[r] = "unauthorized"
    BY DEF OnlyForward
  <2>2. Closed(q) /\ q \in Requests
    BY <2>1 DEF IInv, InTurn, Earlier
  <2> QED BY <1>1, <2>1, <2>2 DEF IInv, RegistrationHolds
<1> QED BY <1>2, <1>3, <1>4

\* Requests leave the limiter of a replica: those of R are proxied, the others
\* refused (rateLimit).
LEMMA LimiterStep ==
    ASSUME IInv, NEW g \in Replicas, NEW S \in SUBSET asking[g], NEW R \in SUBSET S, Deliver,
           asking' = [asking EXCEPT ![g] = @ \ S],
           proxied' = [proxied EXCEPT ![g] = @ \cup R],
           reply' = Answered(S \ R, "tooMany")
    PROVE  Carried' /\ OnlyForward /\ AccountsTypeOK'
<1>1. \A r \in S : reply[r] = "pending" /\ work[r] = "none" /\ r \in Requests
  BY DEF IInv, Carried, TypeOK, GatewayTypeOK
<1>2. R \cap Forwarded = {}
  BY <1>1 DEF IInv, Carried, Forwarded
<1>3. Forwarded' = Forwarded \cup R
  BY DEF Forwarded, IInv, TypeOK, GatewayTypeOK
<1>4. \A r \in Requests : work'[r] = IF r \in R THEN "sent" ELSE work[r]
  BY <1>2, <1>3 DEF Deliver
<1>5. \A r \in Requests : reply'[r] = IF r \in S \ R THEN "tooMany" ELSE reply[r]
  BY DEF Answered
<1>6. Carried'
  <2>1. \A h \in Replicas : /\ asking'[h] = IF h = g THEN asking[h] \ S ELSE asking[h]
                            /\ proxied'[h] = IF h = g THEN proxied[h] \cup R ELSE proxied[h]
    BY DEF IInv, TypeOK, GatewayTypeOK
  <2>2. \A h \in Replicas : \A r \in asking'[h] : r \in Requests /\ r \notin S
    BY <2>1 DEF IInv, Carried, TypeOK, GatewayTypeOK
  <2>3. \A h \in Replicas : \A r \in asking'[h] : reply'[r] = "pending" /\ work'[r] = "none"
    <3> SUFFICES ASSUME NEW h \in Replicas, NEW r \in asking'[h]
                 PROVE  reply'[r] = "pending" /\ work'[r] = "none"
      OBVIOUS
    <3>1. r \in Requests /\ r \notin S /\ r \notin R
      BY <2>2
    <3>2. reply[r] = "pending" /\ work[r] = "none"
      BY <2>1 DEF IInv, Carried
    <3> QED BY <1>4, <1>5, <3>1, <3>2
  <2>4. \A h \in Replicas : \A r \in proxied'[h] : reply'[r] = "pending" /\ work'[r] # "none"
    <3> SUFFICES ASSUME NEW h \in Replicas, NEW r \in proxied'[h]
                 PROVE  reply'[r] = "pending" /\ work'[r] # "none"
      OBVIOUS
    <3>1. CASE r \in R
      <4>1. r \in Requests /\ r \in S /\ reply[r] = "pending"
        BY <1>1, <3>1
      <4> QED BY <1>4, <1>5, <3>1, <4>1
    <3>2. CASE r \notin R
      <4>1. r \in proxied[h]
        BY <2>1, <3>2
      <4>2. reply[r] = "pending" /\ work[r] # "none"
        BY <4>1 DEF IInv, Carried
      <4>3. r \in Requests /\ r \notin S
        BY <1>1, <4>1, <4>2 DEF IInv, TypeOK, GatewayTypeOK
      <4> QED BY <1>4, <1>5, <3>2, <4>2, <4>3
    <3> QED BY <3>1, <3>2
  <2>5. \A h \in Replicas, k \in Replicas : h # k =>
            asking'[h] \cap asking'[k] = {} /\ proxied'[h] \cap proxied'[k] = {}
    BY <1>1, <2>1 DEF IInv, Carried
  <2> QED BY <2>3, <2>4, <2>5 DEF Carried
<1>7. OnlyForward
  BY <1>1, <1>4, <1>5 DEF OnlyForward, Deliver
<1>8. AccountsTypeOK'
  BY <1>4, FrontDoorAssumption DEF Deliver, IInv, TypeOK, AccountsTypeOK, NewUser, Results
<1> QED BY <1>6, <1>7, <1>8

\* Requests of a replica are answered and forgotten (Relay, Sever, ReplicaDies).
LEMMA LeaveStep ==
    ASSUME IInv, NEW g \in Replicas, NEW R \in SUBSET InFlight(g), NEW text,
           text \notin {"unsent", "pending"},
           \A r \in R : text = "created" => work[r] = "created",
           asking' = [asking EXCEPT ![g] = @ \ R],
           proxied' = [proxied EXCEPT ![g] = @ \ R],
           reply' = Answered(R, text),
           UNCHANGED accountVars
    PROVE  Carried' /\ OnlyForward
<1>1. \A r \in R : reply[r] = "pending" /\ r \in Requests
  BY DEF IInv, Carried, TypeOK, GatewayTypeOK, InFlight
<1>2. \A r \in Requests : reply'[r] = IF r \in R THEN text ELSE reply[r]
  BY DEF Answered
<1>3. OnlyForward
  BY <1>1, <1>2 DEF OnlyForward, accountVars
<1>4. Carried'
  <2>1. \A h \in Replicas : /\ asking'[h] = IF h = g THEN asking[h] \ R ELSE asking[h]
                            /\ proxied'[h] = IF h = g THEN proxied[h] \ R ELSE proxied[h]
    BY DEF IInv, TypeOK, GatewayTypeOK
  <2>2. \A h \in Replicas : InFlight(h) \cap InFlight(g) # {} => h = g
    BY DEF IInv, Carried, InFlight
  <2>3. \A h \in Replicas : \A r \in asking'[h] \cup proxied'[h] : r \notin R /\ r \in Requests
    BY <2>1, <2>2 DEF InFlight, IInv, TypeOK, GatewayTypeOK
  <2> QED BY <1>2, <2>1, <2>3 DEF IInv, Carried, accountVars
<1> QED BY <1>3, <1>4

\* A step that moves no request keeps what is said of requests.
LEMMA StillStep ==
    ASSUME IInv, UNCHANGED <<reply, asking, proxied>>, UNCHANGED accountVars
    PROVE  Carried' /\ OnlyForward
  BY DEF IInv, Carried, OnlyForward, accountVars

\* The invariant follows from what such a step does to requests.
LEMMA StepKeeps == ASSUME IInv, TypeOK', Counted', Carried', OnlyForward PROVE IInv'
  BY ForwardKeeps DEF IInv

\* What a reply may be.
Replies == {"unsent", "pending", "tooMany", "noAnswer"} \cup Results

\* Arrive keeps the invariant.
LEMMA SendStep ==
    ASSUME IInv, NEW r \in Requests, NEW g \in Replicas, Send(r, g)
    PROVE  IInv' /\ OnlyForward
<1> USE DEF Send, Arrive
<1>0. reply \in [Requests -> Replies]
  BY DEF IInv, TypeOK, Replies
<1>1. \A p \in Requests : reply'[p] = IF p = r THEN "pending" ELSE reply[p]
  BY <1>0
<1>2. \A h \in Replicas : asking'[h] = IF h = g THEN asking[h] \cup {r} ELSE asking[h]
  BY DEF IInv, TypeOK, GatewayTypeOK
<1>3. TypeOK'
  <2>1. reply' \in [Requests -> Replies]
    BY <1>0 DEF Replies
  <2>2. GatewayTypeOK'
    BY DEF IInv, TypeOK, GatewayTypeOK
  <2>3. AccountsTypeOK'
    BY FrontDoorAssumption DEF IInv, TypeOK, AccountsTypeOK, accountVars, NewUser
  <2> QED BY <2>1, <2>2, <2>3 DEF TypeOK, Replies
<1>4. Counted'
  BY DEF IInv, Counted
<1>5. \A q \in Earlier(r) : Closed(q)
  BY DEF Closed
<1>6. OnlyForward
  BY <1>1, <1>5 DEF OnlyForward, accountVars
<1>7. work[r] = "none"
  BY DEF IInv, InTurn
<1>8. \A h \in Replicas : r \notin asking[h] /\ r \notin proxied[h]
  BY DEF IInv, Carried
<1>9. Carried'
  <2>1. \A h \in Replicas : \A p \in asking'[h] : reply'[p] = "pending" /\ work'[p] = "none"
    BY <1>1, <1>2, <1>7 DEF IInv, Carried, TypeOK, GatewayTypeOK, accountVars
  <2>2. \A h \in Replicas : \A p \in proxied'[h] : reply'[p] = "pending" /\ work'[p] # "none"
    BY <1>1, <1>8 DEF IInv, Carried, TypeOK, GatewayTypeOK, accountVars
  <2>3. \A h \in Replicas, k \in Replicas : h # k =>
            asking'[h] \cap asking'[k] = {} /\ proxied'[h] \cap proxied'[k] = {}
    BY <1>2, <1>8 DEF IInv, Carried
  <2> QED BY <2>1, <2>2, <2>3 DEF Carried
<1> QED BY <1>3, <1>4, <1>6, <1>9, StepKeeps

\* Counting keeps the invariant: the counter is one for all replicas (StoreOf).
LEMMA CountStep ==
    ASSUME IInv, NEW r \in Requests, NEW g \in Replicas, Count(r, g), Deliver
    PROVE  IInv' /\ OnlyForward
<1>0. /\ r \in asking[g]
      /\ hits' = [hits EXCEPT ![Redis] = hits[Redis] + 1]
      /\ asking' = [asking EXCEPT ![g] = @ \ {r}]
      /\ retried' = retried \ {r}
      /\ UNCHANGED <<redisUp, attempts, resent, faults>>
  BY DEF Count, StoreOf
<1>1. hits \in [Stores -> Nat] /\ Redis \in Stores /\ admitted \in Nat
  BY DEF IInv, TypeOK, GatewayTypeOK, Stores
<1>2. hits'[Redis] = hits[Redis] + 1
  BY <1>0, <1>1
<1>3. PICK R \in SUBSET {r} :
          /\ proxied' = [proxied EXCEPT ![g] = @ \cup R]
          /\ reply' = Answered({r} \ R, "tooMany")
          /\ R # {} => admitted' = admitted + 1 /\ hits'[Redis] <= Limit
          /\ R = {} => admitted' = admitted /\ hits'[Redis] > Limit
  <2>1. CASE hits'[Redis] <= Limit /\ Pass(g, {r}) /\ admitted' = admitted + 1
    <3>1. reply \in [Requests -> Replies]
      BY DEF IInv, TypeOK, Replies
    <3>2. reply' = Answered({r} \ {r}, "tooMany")
      BY <2>1, <3>1 DEF Pass, Answered
    <3> WITNESS {r} \in SUBSET {r}
    <3> QED BY <2>1, <3>2 DEF Pass
  <2>2. CASE /\ hits'[Redis] > Limit /\ reply' = Answered({r}, "tooMany")
             /\ UNCHANGED <<proxied, admitted>>
    <3>1. proxied' = [proxied EXCEPT ![g] = @ \cup {}]
      BY <2>2 DEF IInv, TypeOK, GatewayTypeOK
    <3>2. {r} \ {} = {r}
      OBVIOUS
    <3> WITNESS {} \in SUBSET {r}
    <3> QED BY <2>2, <3>1, <3>2
  <2> QED BY <2>1, <2>2 DEF Count, StoreOf
<1>4. {r} \in SUBSET asking[g] /\ g \in Replicas
  BY <1>0
<1>5. Carried' /\ OnlyForward /\ AccountsTypeOK'
  BY <1>0, <1>3, <1>4, LimiterStep
<1>6. TypeOK'
  <2>1. reply' \in [Requests -> Replies]
    BY <1>3 DEF Answered, IInv, TypeOK, Replies
  <2>2. hits' \in [Stores -> Nat]
    BY <1>0, <1>1
  <2>3. proxied' \in [Replicas -> SUBSET Requests]
    BY <1>3 DEF IInv, TypeOK, GatewayTypeOK
  <2>4. asking' \in [Replicas -> SUBSET Requests] /\ retried' \subseteq Requests
    BY <1>0 DEF IInv, TypeOK, GatewayTypeOK
  <2>5. admitted' \in Nat
    BY <1>1, <1>3
  <2>6. GatewayTypeOK'
    BY <1>0, <2>2, <2>3, <2>4, <2>5 DEF IInv, TypeOK, GatewayTypeOK
  <2> QED BY <1>5, <2>1, <2>6 DEF TypeOK, Replies
<1>7. Counted'
  <2>1. resent' = resent /\ resent \in Nat /\ hits[Redis] \in Nat /\ Limit \in Nat
    BY <1>0, <1>1, FrontDoorAssumption DEF IInv, TypeOK, GatewayTypeOK
  <2>2. CASE R = {}
    BY <1>1, <1>2, <1>3, <2>1, <2>2 DEF IInv, Counted
  <2>3. CASE R # {}
    BY <1>1, <1>2, <1>3, <2>1, <2>3 DEF IInv, Counted
  <2> QED BY <2>2, <2>3
<1> QED BY <1>5, <1>6, <1>7, StepKeeps

\* Passing requests that Redis did not count keeps the invariant (passOnStoreError).
LEMMA ConnectFailsStep ==
    ASSUME IInv, NEW g \in Replicas, ConnectFails(g), Deliver
    PROVE  IInv' /\ OnlyForward
<1>0. /\ attempts' = [attempts EXCEPT ![g] = Attempt(attempts[g])]
      /\ UNCHANGED <<hits, redisUp, admitted, resent, faults>>
  BY DEF ConnectFails
<1>1. PICK S \in SUBSET asking[g] :
          /\ asking' = [asking EXCEPT ![g] = @ \ S]
          /\ proxied' = [proxied EXCEPT ![g] = @ \cup S]
          /\ reply' = reply
  <2>1. CASE UNCHANGED <<reply, proxied, asking, retried>>
    <3>1. /\ asking' = [asking EXCEPT ![g] = @ \ {}]
          /\ proxied' = [proxied EXCEPT ![g] = @ \cup {}]
      BY <2>1 DEF IInv, TypeOK, GatewayTypeOK
    <3> WITNESS {} \in SUBSET asking[g]
    <3> QED BY <2>1, <3>1
  <2>2. CASE Pass(g, asking[g] \cap retried) /\ asking' = [asking EXCEPT ![g] = @ \ retried]
    <3>1. asking' = [asking EXCEPT ![g] = @ \ (asking[g] \cap retried)]
      BY <2>2 DEF IInv, TypeOK, GatewayTypeOK
    <3> WITNESS asking[g] \cap retried \in SUBSET asking[g]
    <3> QED BY <2>2, <3>1 DEF Pass
  <2> QED BY <2>1, <2>2 DEF ConnectFails
<1>2. reply' = Answered(S \ S, "tooMany")
  BY <1>1 DEF Answered, IInv, TypeOK
<1>3. Carried' /\ OnlyForward /\ AccountsTypeOK'
  <2>1. S \in SUBSET S
    OBVIOUS
  <2> QED BY <1>1, <1>2, <2>1, LimiterStep
<1>4. TypeOK'
  <2>1. attempts' \in [Replicas -> 0..(MaxRetriesPerRequest + 1)]
    BY <1>0, FrontDoorAssumption DEF Attempt, IInv, TypeOK, GatewayTypeOK
  <2>2. /\ asking' \in [Replicas -> SUBSET Requests]
        /\ proxied' \in [Replicas -> SUBSET Requests]
    BY <1>1 DEF IInv, TypeOK, GatewayTypeOK
  <2>3. retried' \subseteq Requests
    BY DEF ConnectFails, IInv, TypeOK, GatewayTypeOK
  <2>4. GatewayTypeOK'
    BY <1>0, <2>1, <2>2, <2>3 DEF IInv, TypeOK, GatewayTypeOK
  <2> QED BY <1>1, <1>3, <2>4 DEF IInv, TypeOK
<1>5. Counted'
  BY <1>0 DEF IInv, Counted
<1> QED BY <1>3, <1>4, <1>5, StepKeeps

\* An answer, or the lack of one, keeps the invariant (proxy.setup.ts).
LEMMA AnswerStep ==
    ASSUME IInv, NEW r \in Requests, NEW g \in Replicas, Relay(r, g) \/ Sever(r, g),
           UNCHANGED accountVars
    PROVE  IInv' /\ OnlyForward
<1>1. PICK text \in {"noAnswer"} \cup Results :
          Leave(r, g, text) /\ (text = "created" => work[r] = "created")
  <2>1. CASE Relay(r, g)
    BY <2>1 DEF Relay
  <2>2. CASE Sever(r, g)
    <3>1. Leave(r, g, "noAnswer") /\ ("noAnswer" = "created" => work[r] = "created")
      BY <2>2 DEF Sever
    <3> WITNESS "noAnswer" \in {"noAnswer"} \cup Results
    <3> QED BY <3>1
  <2> QED BY <2>1, <2>2
<1>2. r \notin asking[g]
  BY <1>1 DEF IInv, Carried, Leave
<1>3. asking' = [asking EXCEPT ![g] = @ \ {r}]
  BY <1>1, <1>2 DEF Leave, limiterVars, IInv, TypeOK, GatewayTypeOK
<1>4. Carried' /\ OnlyForward
  <2>1. {r} \in SUBSET InFlight(g)
    BY <1>1 DEF Leave, InFlight
  <2>2. text \notin {"unsent", "pending"}
    BY DEF Results
  <2>3. \A p \in {r} : text = "created" => work[p] = "created"
    BY <1>1
  <2>4. proxied' = [proxied EXCEPT ![g] = @ \ {r}] /\ reply' = Answered({r}, text)
    BY <1>1 DEF Leave
  <2> QED BY <1>3, <2>1, <2>2, <2>3, <2>4, LeaveStep
<1>5. TypeOK'
  <2>1. reply' \in [Requests -> Replies]
    BY <1>1 DEF Leave, Answered, IInv, TypeOK, Replies
  <2>2. GatewayTypeOK'
    BY <1>1 DEF Leave, limiterVars, IInv, TypeOK, GatewayTypeOK
  <2>3. AccountsTypeOK'
    BY FrontDoorAssumption DEF IInv, TypeOK, AccountsTypeOK, accountVars, NewUser
  <2> QED BY <2>1, <2>2, <2>3 DEF TypeOK, Replies
<1>6. Counted'
  BY <1>1 DEF Leave, limiterVars, IInv, Counted
<1> QED BY <1>4, <1>5, <1>6, StepKeeps

\* The death of a replica keeps the invariant.
LEMMA DeathStep ==
    ASSUME IInv, NEW g \in Replicas, ReplicaDies(g), UNCHANGED accountVars
    PROVE  IInv' /\ OnlyForward
<1>1. /\ asking' = [asking EXCEPT ![g] = @ \ InFlight(g)]
      /\ proxied' = [proxied EXCEPT ![g] = @ \ InFlight(g)]
  BY DEF ReplicaDies, InFlight, IInv, TypeOK, GatewayTypeOK
<1>2. Carried' /\ OnlyForward
  <2>1. InFlight(g) \in SUBSET InFlight(g)
    OBVIOUS
  <2>2. "noAnswer" \notin {"unsent", "pending"}
    OBVIOUS
  <2>3. \A p \in InFlight(g) : "noAnswer" = "created" => work[p] = "created"
    OBVIOUS
  <2>4. reply' = Answered(InFlight(g), "noAnswer")
    BY DEF ReplicaDies
  <2> QED BY <1>1, <2>1, <2>2, <2>3, <2>4, LeaveStep
<1>3. TypeOK'
  <2>1. reply' \in [Requests -> Replies]
    BY DEF ReplicaDies, Answered, IInv, TypeOK, Replies
  <2>2. GatewayTypeOK'
    BY FrontDoorAssumption DEF ReplicaDies, Fault, IInv, TypeOK, GatewayTypeOK
  <2>3. AccountsTypeOK'
    BY FrontDoorAssumption DEF IInv, TypeOK, AccountsTypeOK, accountVars, NewUser
  <2> QED BY <2>1, <2>2, <2>3 DEF TypeOK, Replies
<1>4. Counted'
  BY DEF ReplicaDies, IInv, Counted
<1> QED BY <1>2, <1>3, <1>4, StepKeeps

\* So do connections, Redis and its windows, which move no request.
LEMMA RedisStep ==
    ASSUME IInv, UNCHANGED accountVars,
           \/ WindowEnds \/ RedisDies \/ RedisReturns
           \/ \E g \in Replicas : Connect(g) \/ Disconnect(g)
    PROVE  IInv' /\ OnlyForward
<1>1. UNCHANGED <<reply, asking, proxied, retried>>
  BY DEF WindowEnds, RedisDies, RedisReturns, Connect, Disconnect
<1>2. Carried' /\ OnlyForward
  BY <1>1, StillStep
<1>3. AccountsTypeOK' /\ reply' \in [Requests -> Replies]
  BY <1>1, FrontDoorAssumption DEF IInv, TypeOK, AccountsTypeOK, accountVars, NewUser, Replies
<1>4. GatewayTypeOK' /\ Counted'
  <2>1. CASE WindowEnds
    BY <2>1, FrontDoorAssumption DEF WindowEnds, IInv, TypeOK, GatewayTypeOK, Counted, Stores
  <2>2. CASE RedisDies
    <3>1. attempts' \in [Replicas -> 0..(MaxRetriesPerRequest + 1)]
      BY <2>2, FrontDoorAssumption DEF RedisDies, IInv, TypeOK, GatewayTypeOK
    <3>2. /\ hits' \in [Stores -> Nat] /\ hits'[Redis] = 0
          /\ faults' \in 0..MaxFaults
      BY <2>2, FrontDoorAssumption DEF RedisDies, Fault, IInv, TypeOK, GatewayTypeOK, Stores
    <3>3. admitted' = 0 /\ resent' = 0 /\ redisUp' = FALSE
      BY <2>2 DEF RedisDies
    <3>4. GatewayTypeOK'
      BY <1>1, <3>1, <3>2, <3>3 DEF IInv, TypeOK, GatewayTypeOK
    <3>5. Counted'
      BY <3>2, <3>3, FrontDoorAssumption DEF Counted
    <3> QED BY <3>4, <3>5
  <2>3. CASE RedisReturns
    BY <2>3 DEF RedisReturns, IInv, TypeOK, GatewayTypeOK, Counted
  <2>4. ASSUME NEW g \in Replicas, Connect(g) PROVE GatewayTypeOK' /\ Counted'
    BY <2>4, FrontDoorAssumption DEF Connect, IInv, TypeOK, GatewayTypeOK, Counted
  <2>5. ASSUME NEW g \in Replicas, Disconnect(g) PROVE GatewayTypeOK' /\ Counted'
    <3>1. PICK counted \in SUBSET asking[g] :
              /\ hits' = [hits EXCEPT ![Redis] = @ + Cardinality(counted)]
              /\ resent' = resent + Cardinality(counted)
      BY <2>5 DEF Disconnect, StoreOf
    <3>2. Cardinality(counted) \in Nat
      <4>1. counted \subseteq Requests
        BY DEF IInv, TypeOK, GatewayTypeOK
      <4>2. IsFiniteSet(counted)
        BY <4>1, FrontDoorAssumption, FS_Subset
      <4> QED BY <4>2, FS_CardinalityType
    <3>3. /\ hits' \in [Stores -> Nat] /\ hits'[Redis] = hits[Redis] + Cardinality(counted)
          /\ resent' \in Nat
      BY <3>1, <3>2 DEF IInv, TypeOK, GatewayTypeOK, Stores
    <3>4. hits[Redis] \in Nat /\ resent \in Nat /\ admitted \in Nat /\ admitted' = admitted
      BY <2>5 DEF Disconnect, IInv, TypeOK, GatewayTypeOK, Stores
    <3>5. Counted'
      BY <3>1, <3>2, <3>3, <3>4, FrontDoorAssumption DEF IInv, Counted
    <3> QED BY <2>5, <3>3, <3>5, FrontDoorAssumption
            DEF Disconnect, Fault, IInv, TypeOK, GatewayTypeOK
  <2> QED BY <2>1, <2>2, <2>3, <2>4, <2>5
<1> QED BY <1>2, <1>3, <1>4, StepKeeps DEF TypeOK, Replies

-----------------------------------------------------------------------------
(* The invariant.                                                          *)

\* It holds initially.
LEMMA InitIInv == Init => IInv
<1> SUFFICES ASSUME Init PROVE IInv
  OBVIOUS
<1> USE FrontDoorAssumption DEF Init, GatewayInit, AccountsInit
<1>1. TypeOK
  BY DEF TypeOK, GatewayTypeOK, AccountsTypeOK, Stores
<1>2. Counted
  BY DEF Counted, Stores
<1>3. Carried /\ InTurn /\ Recorded
  BY DEF Carried, InTurn, Recorded, Earlier
<1>4. RegistrationHolds
  BY DEF RegistrationHolds
<1> QED BY <1>1, <1>2, <1>3, <1>4 DEF IInv

\* Every action keeps it, and those of the gateway only go forward.
LEMMA Inductive ==
    IInv /\ [Next]_vars => IInv' /\ (OnlyForward \/ \E r \in Requests : Serve(r))
<1> SUFFICES ASSUME IInv, [Next]_vars
             PROVE  IInv' /\ (OnlyForward \/ \E r \in Requests : Serve(r))
  OBVIOUS
<1>1. ASSUME NEW r \in Requests, NEW g \in Replicas, Send(r, g) PROVE IInv' /\ OnlyForward
  BY <1>1, SendStep
<1>2. ASSUME NEW r \in Requests, NEW g \in Replicas, Count(r, g) /\ Deliver
      PROVE  IInv' /\ OnlyForward
  BY <1>2, CountStep
<1>3. ASSUME NEW r \in Requests, NEW g \in Replicas,
             (Relay(r, g) \/ Sever(r, g)) /\ UNCHANGED accountVars
      PROVE  IInv' /\ OnlyForward
  BY <1>3, AnswerStep
<1>4. ASSUME NEW g \in Replicas, ConnectFails(g) /\ Deliver PROVE IInv' /\ OnlyForward
  BY <1>4, ConnectFailsStep
<1>5. ASSUME NEW g \in Replicas, ReplicaDies(g) /\ UNCHANGED accountVars
      PROVE  IInv' /\ OnlyForward
  BY <1>5, DeathStep
<1>6. ASSUME NEW g \in Replicas, (Connect(g) \/ Disconnect(g)) /\ UNCHANGED accountVars
      PROVE  IInv' /\ OnlyForward
  BY <1>6, RedisStep
<1>7. CASE (WindowEnds \/ RedisDies \/ RedisReturns) /\ UNCHANGED accountVars
  BY <1>7, RedisStep
<1>8. ASSUME NEW r \in Requests, Serve(r) PROVE IInv'
  BY <1>8, ServeStep
<1>9. CASE UNCHANGED vars
  <2>1. UNCHANGED gatewayVars /\ UNCHANGED accountVars
    BY <1>9 DEF vars
  <2>2. Carried' /\ OnlyForward
    BY <2>1, StillStep DEF gatewayVars, limiterVars
  <2>3. TypeOK' /\ Counted'
    BY <2>1, FrontDoorAssumption
    DEF IInv, TypeOK, GatewayTypeOK, AccountsTypeOK, Counted, gatewayVars, limiterVars,
        accountVars, NewUser
  <2> QED BY <2>2, <2>3, StepKeeps
<1> QED BY <1>1, <1>2, <1>3, <1>4, <1>5, <1>6, <1>7, <1>8, <1>9 DEF Next, Done

\* The inductive invariant of the gateway and the accounts behind it.
THEOREM Invariance == Spec => []IInv
  BY InitIInv, Inductive, PTL DEF Spec

\* Every variable keeps its type, the counter of connection attempts included
\* (retryStrategy).
THEOREM TypeCorrect == Spec => []TypeOK
<1>1. IInv => TypeOK
  BY DEF IInv
<1> QED BY <1>1, Invariance, PTL

\* Whatever their number, the replicas together let at most THROTTLE_LIMIT
\* requests of a window through on a count (RedisStore).
THEOREM LimitHolds == Spec => []LimitKept
<1>1. IInv => LimitKept
  BY DEF IInv, Counted, LimitKept
<1> QED BY <1>1, Invariance, PTL

\* Whoever was told that the account is created is not told that its password
\* is wrong, however many clients register the email (AuthService.register).
THEOREM RegistrationsHold == Spec => []RegistrationHolds
<1>1. IInv => RegistrationHolds
  BY DEF IInv
<1> QED BY <1>1, Invariance, PTL

\* Only the counter refuses (rateLimit).
LEMMA RefusedOnCount ==
    ASSUME IInv, [Next]_vars, NEW r \in Requests, reply[r] = "pending", reply'[r] = "tooMany"
    PROVE  \E q \in Requests, g \in Replicas : Count(q, g) /\ hits[Redis] + 1 > Limit
<1>1. reply' # reply
  OBVIOUS
<1>2. ASSUME NEW q \in Requests, NEW g \in Replicas, Send(q, g) PROVE FALSE
  BY <1>2 DEF Send, Arrive, IInv, TypeOK
<1>3. ASSUME NEW q \in Requests, NEW g \in Replicas, Count(q, g)
      PROVE  Count(q, g) /\ hits[Redis] + 1 > Limit
  <2>1. hits'[Redis] = hits[Redis] + 1
    BY <1>3 DEF Count, StoreOf, IInv, TypeOK, GatewayTypeOK, Stores
  <2>2. hits'[Redis] > Limit
    BY <1>1, <1>3 DEF Count, StoreOf, Pass
  <2> QED BY <1>3, <2>1, <2>2
<1>4. ASSUME NEW q \in Requests, NEW g \in Replicas, Relay(q, g) \/ Sever(q, g) PROVE FALSE
  BY <1>4 DEF Relay, Sever, Leave, Answered, Results
<1>5. ASSUME NEW g \in Replicas, ConnectFails(g) PROVE FALSE
  BY <1>1, <1>5 DEF ConnectFails, Pass
<1>6. ASSUME NEW g \in Replicas, ReplicaDies(g) PROVE FALSE
  BY <1>6 DEF ReplicaDies, Answered
<1>7. ASSUME NEW g \in Replicas, Connect(g) \/ Disconnect(g) PROVE FALSE
  BY <1>1, <1>7 DEF Connect, Disconnect
<1>8. ~(WindowEnds \/ RedisDies \/ RedisReturns)
  BY <1>1 DEF WindowEnds, RedisDies, RedisReturns
<1>9. ASSUME NEW q \in Requests, Serve(q) PROVE FALSE
  BY <1>1, <1>9 DEF Serve, gatewayVars
<1>10. ~UNCHANGED vars
  BY <1>1 DEF vars, gatewayVars
<1> QED BY <1>2, <1>3, <1>4, <1>5, <1>6, <1>7, <1>8, <1>9, <1>10 DEF Next, Done

\* Nobody is refused before the window has had THROTTLE_LIMIT requests: whenever
\* the counter is beyond what was let through or counted again, the limit had
\* been reached.
THEOREM ExcessOnly == Spec => OnlyExcessRefused
<1>1. IInv /\ [Next]_vars =>
          [\A r \in Requests : reply[r] = "pending" /\ reply'[r] = "tooMany" =>
              admitted + resent >= Limit]_gatewayVars
  <2> SUFFICES ASSUME IInv, [Next]_vars, NEW r \in Requests,
                      reply[r] = "pending", reply'[r] = "tooMany"
               PROVE  admitted + resent >= Limit
    OBVIOUS
  <2>1. hits[Redis] + 1 > Limit
    BY RefusedOnCount
  <2> QED BY <2>1, FrontDoorAssumption
          DEF IInv, TypeOK, GatewayTypeOK, Counted, Stores
<1> QED BY <1>1, Invariance, PTL DEF Spec, OnlyExcessRefused

-----------------------------------------------------------------------------
(* What the steps are to AccountBook.                                      *)

\* The book: the accounts of each email, and the logins given a token.
Saved == [e \in Emails |-> {u.id : u \in Rows(e)}]
Granted  == {r \in Requests : work[r] = "token"}

\* A step that saves no account and gives no token is none of the book.
LEMMA BookStutters ==
    ASSUME users' = users, \A r \in Requests : work'[r] = "token" <=> work[r] = "token"
    PROVE  UNCHANGED <<Saved, Granted>>
<1>1. Saved' = Saved
  BY DEF Saved, Rows, Emails
<1>2. Granted' = Granted
  BY DEF Granted
<1> QED BY <1>1, <1>2

\* A row saved is an account opened, of an email that had none (save).
LEMMA InsertOpens ==
    ASSUME IInv, NEW r \in Requests, At(r, "register", "hashing"),
           Rows(Ask[r].email) = {}, users' = users \cup {NewUser(r)}, Answer(r, "created")
    PROVE  /\ Saved[Ask[r].email] = {}
           /\ Saved' = [Saved EXCEPT ![Ask[r].email] = {r}]
           /\ Granted' = Granted
<1>1. Ask[r].email \in Emails
  BY DEF Emails
<1>2. Saved[Ask[r].email] = {}
  BY <1>1 DEF Saved
<1>3. Saved' = [Saved EXCEPT ![Ask[r].email] = {r}]
  <2>1. ASSUME NEW e \in Emails
        PROVE  Saved'[e] = [Saved EXCEPT ![Ask[r].email] = {r}][e]
    <3>1. Rows(e)' = {u \in users \cup {NewUser(r)} : u.email = e}
      BY DEF Rows
    <3>2. NewUser(r).email = Ask[r].email /\ NewUser(r).id = r
      BY DEF NewUser
    <3>3. CASE e = Ask[r].email
      <4>1. Rows(e)' = {NewUser(r)}
        BY <3>1, <3>2, <3>3 DEF Rows
      <4>2. {u.id : u \in {NewUser(r)}} = {r}
        BY <3>2
      <4> QED BY <1>1, <3>3, <4>1, <4>2 DEF Saved
    <3>4. CASE e # Ask[r].email
      <4>1. Rows(e)' = Rows(e)
        BY <3>1, <3>2, <3>4 DEF Rows
      <4> QED BY <3>4, <4>1 DEF Saved
    <3> QED BY <3>3, <3>4
  <2>2. Saved' = [e \in Emails |-> Saved'[e]]
    BY DEF Saved, Emails
  <2>3. [Saved EXCEPT ![Ask[r].email] = {r}]
           = [e \in Emails |-> [Saved EXCEPT ![Ask[r].email] = {r}][e]]
    BY DEF Saved
  <2> QED BY <2>1, <2>2, <2>3
<1>4. Granted' = Granted
  BY FrontDoorAssumption DEF Granted, Answer, At, IInv, TypeOK, AccountsTypeOK
<1> QED BY <1>2, <1>3, <1>4

\* A token is given for an account whose email and password the login gives.
LEMMA LoginGrants ==
    ASSUME IInv, NEW r \in Requests, At(r, "login", "sent"), Answer(r, "token"),
           users' = users, NEW u \in Rows(Ask[r].email), u.password = Ask[r].password
    PROVE  /\ \E e \in Emails : Saved[e] \cap Entitled[r] # {}
           /\ Granted' = Granted \cup {r}
           /\ Saved' = Saved
           /\ r \in Requests \ Registrants
<1>1. PICK q \in Requests : u = NewUser(q)
  BY FrontDoorAssumption DEF Rows, IInv, TypeOK, AccountsTypeOK
<1>2. Ask[q].email = Ask[r].email /\ Ask[q].password = Ask[r].password /\ u.id = q
  BY <1>1 DEF NewUser, Rows
<1>3. q \in Entitled[r]
  BY <1>2 DEF Entitled, NewUser
<1>4. Ask[r].email \in Emails /\ q \in Saved[Ask[r].email]
  BY <1>2 DEF Saved, Emails
<1>5. Granted' = Granted \cup {r}
  BY FrontDoorAssumption DEF Granted, Answer, IInv, TypeOK, AccountsTypeOK
<1>6. Saved' = Saved
  BY DEF Saved, Rows, Emails
<1>7. r \notin Registrants
  BY DEF At, Registrants
<1> QED BY <1>3, <1>4, <1>5, <1>6, <1>7

\* Every step of a service is one of the book, or none.
LEMMA ServeRefines ==
    ASSUME IInv, NEW r \in Requests, Serve(r)
    PROVE  Book!Next \/ UNCHANGED <<Saved, Granted>>
<1>w. work \in [Requests -> {"none", "sent", "hashing"} \cup Results]
  BY FrontDoorAssumption DEF IInv, TypeOK, AccountsTypeOK
<1>1. ASSUME NEW text, text # "token", work[r] \in Working, Answer(r, text), users' = users
      PROVE  UNCHANGED <<Saved, Granted>>
  <2>1. \A p \in Requests : work'[p] = "token" <=> work[p] = "token"
    BY <1>1, <1>w DEF Answer, Working
  <2> QED BY <1>1, <2>1, BookStutters
<1>2. CASE FindUser(r) \/ Unauthorized(r) \/ DatabaseError(r) \/ \E sub \in Bearer(r) : Me(r, sub)
  <2>1. work[r] \in Working
    BY <1>2 DEF FindUser, Unauthorized, DatabaseError, Me, At, Working
  <2>2. \E text : text # "token" /\ Answer(r, text) /\ users' = users
    BY <1>2 DEF FindUser, Unauthorized, DatabaseError, Me
  <2> QED BY <1>1, <2>1, <2>2
<1>3. CASE InsertUser(r)
  <2>1. CASE Rows(Ask[r].email) = {} /\ users' = users \cup {NewUser(r)} /\ Answer(r, "created")
    <3>1. At(r, "register", "hashing")
      BY <1>3 DEF InsertUser
    <3>2. r \in Registrants /\ Ask[r].email \in Emails
      BY <3>1 DEF At, Registrants, Emails
    <3> QED BY <2>1, <3>1, <3>2, InsertOpens DEF Book!Next, Book!Open, Saved, Granted
  <2>2. CASE Answer(r, "error") /\ users' = users
    BY <1>1, <1>3, <2>2 DEF InsertUser, At, Working
  <2> QED BY <1>3, <2>1, <2>2 DEF InsertUser
<1>4. CASE Login(r)
  <2>1. CASE \E u \in Rows(Ask[r].email) : u.password = Ask[r].password
    <3>1. PICK u \in Rows(Ask[r].email) : u.password = Ask[r].password
      BY <2>1
    <3>2. At(r, "login", "sent") /\ Answer(r, "token") /\ users' = users
      BY <1>4, <2>1 DEF Login
    <3> QED BY <3>1, <3>2, LoginGrants DEF Book!Next, Book!Grant, Saved, Granted
  <2>2. CASE ~ \E u \in Rows(Ask[r].email) : u.password = Ask[r].password
    BY <1>1, <1>4, <2>2 DEF Login, At, Working
  <2> QED BY <2>1, <2>2
<1> QED BY <1>2, <1>3, <1>4 DEF Serve

\* What the gateway does is no step of the book.
LEMMA GatewayRefines ==
    ASSUME IInv, OnlyForward PROVE UNCHANGED <<Saved, Granted>>
  BY BookStutters DEF OnlyForward

\* However registrations race and whatever the gateway severs, an email belongs
\* to the first account saved for it, and only who gives the password of that
\* account is given a token (AuthService, uniqueness of users.email).
THEOREM Refinement == Spec => ImplementsAccountBook
<1>1. Init => Book!Init
  <2> SUFFICES ASSUME Init PROVE Book!Init
    OBVIOUS
  <2>1. users = {} /\ \A r \in Requests : work[r] = "none"
    BY FrontDoorAssumption DEF Init, AccountsInit
  <2>2. \A e \in Emails : {u.id : u \in Rows(e)} = {}
    BY <2>1 DEF Rows
  <2>3. {r \in Requests : work[r] = "token"} = {}
    BY <2>1
  <2> QED BY <2>2, <2>3 DEF Book!Init
<1>2. IInv /\ [Next]_vars => Book!Next \/ UNCHANGED <<Saved, Granted>>
  BY Inductive, ServeRefines, GatewayRefines
<1>3. IInv /\ [Next]_vars
        => [Book!Next]_<<[e \in Emails |-> {u.id : u \in Rows(e)}],
                         {r \in Requests : work[r] = "token"}>>
  BY <1>2 DEF Saved, Granted
<1> QED BY <1>1, <1>3, Invariance, PTL DEF Spec, ImplementsAccountBook, Book!Spec
=============================================================================

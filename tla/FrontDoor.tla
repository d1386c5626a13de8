------------------------------ MODULE FrontDoor ------------------------------
(***************************************************************************)
(* What clients see of their accounts: Accounts behind Gateway.  Each      *)
(* client sends its requests one after the other.                          *)
(***************************************************************************)
EXTENDS Gateway, Accounts

ASSUME FrontDoorAssumption == /\ IsFiniteSet(Requests) /\ DOMAIN Ask = Requests
                              /\ Limit \in Nat /\ MaxFaults \in Nat
                              /\ MaxRetriesPerRequest \in Nat \ {0}

vars == <<gatewayVars, accountVars>>

Init == GatewayInit /\ AccountsInit

\* A request is <<a client, its number>>.
Earlier(r) == {q \in Requests : q[1] = r[1] /\ q[2] < r[2]}

\* A client waits for the answer before its next request.
Send(r, g) ==
    /\ \A q \in Earlier(r) : reply[q] \notin {"unsent", "pending"}
    /\ Arrive(r, g) /\ UNCHANGED accountVars

Forwarded == UNION {proxied[g] : g \in Replicas}

\* What the limiter lets through reaches its service.
Deliver ==
    /\ work' = [r \in Requests |-> IF r \in Forwarded' \ Forwarded THEN "sent" ELSE work[r]]
    /\ UNCHANGED users

\* The answer of the service comes in time.
Relay(r, g) == work[r] \in Results /\ Leave(r, g, work[r])

\* The accounts the client of r has a token for.
Bearer(r) ==
    {u.id : u \in UNION {Rows(Ask[q].email) : q \in {p \in Earlier(r) : reply[p] = "token"}}}

\* A service handles a request, whether or not the gateway still waits for it.
Serve(r) ==
    /\ \/ FindUser(r) \/ InsertUser(r) \/ Login(r) \/ Unauthorized(r) \/ DatabaseError(r)
       \/ \E sub \in Bearer(r) : Me(r, sub)
    /\ UNCHANGED gatewayVars

\* Every client has been answered everything.
Done == (\A r \in Requests : reply[r] \notin {"unsent", "pending"}) /\ UNCHANGED vars

Next ==
    \/ \E r \in Requests, g \in Replicas :
           \/ Send(r, g)
           \/ Count(r, g) /\ Deliver
           \/ (Relay(r, g) \/ Sever(r, g)) /\ UNCHANGED accountVars
    \/ \E g \in Replicas :
           \/ ConnectFails(g) /\ Deliver
           \/ (Connect(g) \/ Disconnect(g) \/ ReplicaDies(g)) /\ UNCHANGED accountVars
    \/ (WindowEnds \/ RedisDies \/ RedisReturns) /\ UNCHANGED accountVars
    \/ \E r \in Requests : Serve(r)
    \/ Done

Spec == Init /\ [][Next]_vars /\ GatewayFairness

-----------------------------------------------------------------------------
(* Properties.                                                             *)

TypeOK ==
    /\ GatewayTypeOK /\ AccountsTypeOK
    /\ reply \in [Requests -> {"unsent", "pending", "tooMany", "noAnswer"} \cup Results]

\* A client that was told its account is created is never told afterwards that
\* its password is wrong, whoever else registers the email at the same time.
RegistrationHolds ==
    \A r \in Requests : \A q \in Earlier(r) :
        /\ Ask[q].op = "register" /\ reply[q] = "created"
        /\ Ask[r].op = "login" /\ NewUser(q) = [NewUser(r) EXCEPT !.id = q]
        => work[r] # "unauthorized"

Emails      == {Ask[r].email : r \in Requests}
Entitled    == [l \in Requests |-> {r \in Requests : NewUser(r) = [NewUser(l) EXCEPT !.id = r]}]
Registrants == {r \in Requests : Ask[r].op = "register"}

\* However registrations race, and whatever the gateway severs or refuses, an
\* email belongs to the first account saved for it, and only who gives the
\* password of that account gets a token.
Book == INSTANCE AccountBook WITH
    Ids     <- Registrants,
    Logins  <- Requests \ Registrants,
    account <- [e \in Emails |-> {u.id : u \in Rows(e)}],
    granted <- {r \in Requests : work[r] = "token"}
ImplementsAccountBook == Book!Spec
=============================================================================

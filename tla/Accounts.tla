------------------------------ MODULE Accounts ------------------------------
(***************************************************************************)
(* AuthService (auth-service) behind its controller and its JWT guard,     *)
(* which is also that of POST /orders and POST /products.                  *)
(***************************************************************************)
EXTENDS Integers

CONSTANTS Ask  \* what each HTTP request asks: [op, email, password]

VARIABLES
    users,  \* the users table: [id, email, password]; the id is that of the request
    work    \* of each request: "none", "sent" to its service, "hashing" or the answer

accountVars == <<users, work>>

AccountsInit ==
    /\ users = {}
    /\ work = [r \in DOMAIN Ask |-> "none"]

\* What a request may be answered.
Results == {"created", "conflict", "token", "unauthorized", "profile", "notFound",
            "error"}

Rows(email) == {u \in users : u.email = email}

NewUser(r) == [id |-> r, email |-> Ask[r].email, password |-> Ask[r].password]

At(r, op, stage) == Ask[r].op = op /\ work[r] = stage

Answer(r, text) == work' = [work EXCEPT ![r] = text]

\* register: findOne, then bcrypt.hash.
FindUser(r) ==
    /\ At(r, "register", "sent")
    /\ Answer(r, IF Rows(Ask[r].email) # {} THEN "conflict" ELSE "hashing")
    /\ UNCHANGED users

\* Mutation: email is not unique.
InsertAnyway(r) ==
    /\ At(r, "register", "hashing")
    /\ users' = users \cup {NewUser(r)}
    /\ Answer(r, "created")

\* Mutation: the row of an email is replaced, as an upsert does.
InsertOrReplace(r) ==
    /\ At(r, "register", "hashing")
    /\ users' = (users \ Rows(Ask[r].email)) \cup {NewUser(r)}
    /\ Answer(r, "created")

\* register: save; email is unique, and a violation is an internal error.
InsertUser(r) ==
    /\ At(r, "register", "hashing")
    /\ \/ /\ Rows(Ask[r].email) = {}
          /\ users' = users \cup {NewUser(r)}
          /\ Answer(r, "created")
       \/ /\ Rows(Ask[r].email) # {}
          /\ Answer(r, "error") /\ UNCHANGED users

\* login: findOne and bcrypt.compare; rows are never updated or deleted.
Login(r) ==
    /\ At(r, "login", "sent")
    /\ Answer(r, IF \E u \in Rows(Ask[r].email) : u.password = Ask[r].password
                 THEN "token" ELSE "unauthorized")
    /\ UNCHANGED users

\* JwtAuthGuard: no token, or a token that has expired.
Unauthorized(r) ==
    /\ At(r, "me", "sent")
    /\ Answer(r, "unauthorized") /\ UNCHANGED users

\* me, with a token for the account sub.
Me(r, sub) ==
    /\ At(r, "me", "sent")
    /\ Answer(r, IF \E u \in users : u.id = sub THEN "profile" ELSE "notFound")
    /\ UNCHANGED users

\* Postgres cannot be reached.
DatabaseError(r) ==
    /\ work[r] \in {"sent", "hashing"}
    /\ Answer(r, "error") /\ UNCHANGED users

AccountsTypeOK ==
    /\ users \subseteq {NewUser(r) : r \in DOMAIN Ask}
    /\ work \in [DOMAIN Ask -> {"none", "sent", "hashing"} \cup Results]
=============================================================================

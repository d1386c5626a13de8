----------------------------- MODULE AccountBook -----------------------------
(***************************************************************************)
(* What auth-service promises: an email belongs to the first who registers *)
(* it, for good, and tokens are given only to who has its password.        *)
(***************************************************************************)
CONSTANTS
    Emails,
    Ids,      \* ids of the accounts that may be opened
    Logins,   \* requests for a token
    Entitled  \* Entitled[l]: the accounts whose email and password l gives

VARIABLES
    account,  \* ids of the accounts of each email
    granted   \* logins that were given a token

Init ==
    /\ account = [e \in Emails |-> {}]
    /\ granted = {}

Open(e, id) ==
    /\ account[e] = {}
    /\ account' = [account EXCEPT ![e] = {id}]
    /\ UNCHANGED granted

Grant(l) ==
    /\ \E e \in Emails : account[e] \cap Entitled[l] # {}
    /\ granted' = granted \cup {l}
    /\ UNCHANGED account

Next == (\E e \in Emails, id \in Ids : Open(e, id)) \/ (\E l \in Logins : Grant(l))

Spec == Init /\ [][Next]_<<account, granted>>
=============================================================================

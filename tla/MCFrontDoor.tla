----------------------------- MODULE MCFrontDoor -----------------------------
(* A small instance of FrontDoor for TLC.                                  *)
EXTENDS FrontDoor, TLC

CONSTANTS alice, bob, mail, pw1, pw2

\* Two clients register the same email.
Asks(op, password) == [op |-> op, email |-> mail, password |-> password]
MCAsk ==
    <<alice, 1>> :> Asks("register", pw1) @@
    <<alice, 2>> :> Asks("login", pw1) @@
    <<alice, 3>> :> Asks("me", pw1) @@
    <<bob, 1>>   :> Asks("register", pw2)

MCRequests == DOMAIN MCAsk
=============================================================================

---------------------------- MODULE SessionService ----------------------------
(***************************************************************************)
(* What the sessions of the HTTP server amount to for its clients: every   *)
(* login gets a new token, which opens a session if there is room; an open *)
(* session is accepted, until it is found to be over or somebody logs out; *)
(* a token that is not open never is again.                                *)
(***************************************************************************)
EXTENDS Integers, FiniteSets

CONSTANT MAX_USERS     \* sessions at a time

VARIABLES
    open,              \* tokens of the open sessions
    issued             \* tokens issued so far, 1..issued

vars == <<open, issued>>

Init == open = {} /\ issued = 0

Login ==
    /\ issued' = issued + 1
    /\ open' = IF Cardinality(open) < MAX_USERS THEN open \cup {issued'} ELSE open

Accepted(t) == t \in open /\ UNCHANGED vars

(* A token without a session, or one whose session has been idle too long. *)
Refused(t) == open' = open \ {t} /\ UNCHANGED issued

(* Logging out ends all sessions. *)
LoggedOut(t) == t \in open /\ open' = {} /\ UNCHANGED issued

Next == Login \/ \E t \in 1..issued : Accepted(t) \/ Refused(t) \/ LoggedOut(t)

Spec == Init /\ [][Next]_vars
===============================================================================

----------------------------- MODULE HttpSessions -----------------------------
(***************************************************************************)
(* The login sessions of http_server.c.  The server's one task handles a   *)
(* request at a time, so a handler is one step; time passes between them.  *)
(*                                                                         *)
(* A token is a number: the tokens of generate_token never repeat, 0 is    *)
(* the empty string of a cleared slot.  The clock the code reads is the    *)
(* real time in milliseconds modulo the width of a uint32_t.               *)
(***************************************************************************)
EXTENDS Integers

CONSTANTS
    MAX_USERS,   \* session slots (1 in the source, "Can scale later")
    TIMEOUT,     \* idle time a session survives (180000 ms in the source)
    Word,        \* 2^32 in the source: the clock wraps there
    MaxTime,     \* bound: real time in one behaviour
    MaxLogins    \* bound: tokens issued in one behaviour

ASSUME SessionAssumption ==
    /\ {MAX_USERS, TIMEOUT, Word} \subseteq Nat \ {0}
    /\ TIMEOUT < Word
    /\ {MaxTime, MaxLogins} \subseteq Nat

VARIABLES
    current_sessions,   \* slot |-> [active, token, last_activity]
    time,               \* real time
    issued,             \* tokens issued so far, 1..issued
    used,               \* history: real time each token was last accepted at
    ended               \* history: tokens that were refused or logged out

vars == <<current_sessions, time, issued, used, ended>>

Slots == 0..MAX_USERS - 1
Tokens == 1..MaxLogins
uint32(x) == x % Word
Clock == uint32(time)       \* xTaskGetTickCount() * portTICK_PERIOD_MS

Cleared == [active |-> FALSE, token |-> 0, last_activity |-> 0]

(* The first of the slots that satisfy a condition, as a loop finds it. *)
IsFirst(i, S) == i \in S /\ \A j \in S : i <= j

Free == {i \in Slots : ~current_sessions[i].active}
Holding(t) == {i \in Slots : current_sessions[i].active /\ current_sessions[i].token = t}

TimePasses ==
    /\ time < MaxTime
    /\ time' = time + 1
    /\ UNCHANGED <<current_sessions, issued, used, ended>>

-----------------------------------------------------------------------------
(***************************************************************************)
(* Login.                                                                  *)
(***************************************************************************)
(* Mutant: the real time is stored in the wider type of the tick count.    *)
SaveTokenWide(t) ==
    \E i \in Free :
        /\ IsFirst(i, Free)
        /\ current_sessions' = [current_sessions EXCEPT ![i] =
               [active |-> TRUE, token |-> t, last_activity |-> time]]

(* Mutant: the loop does not stop at the first free slot. *)
SaveTokenEverywhere(t) ==
    current_sessions' = [i \in Slots |->
        IF i \in Free THEN [active |-> TRUE, token |-> t, last_activity |-> Clock]
        ELSE current_sessions[i]]

(* Mutant: a token that is still in the slot is kept. *)
SaveTokenKeepsOld(t) ==
    \E i \in Free :
        /\ IsFirst(i, Free)
        /\ current_sessions' = [current_sessions EXCEPT ![i] =
               [active |-> TRUE, token |-> IF @.token = 0 THEN t ELSE @.token,
                last_activity |-> Clock]]

(* The first free slot takes the token. *)
SaveToken(t) ==
    \E i \in Free :
        /\ IsFirst(i, Free)
        /\ current_sessions' = [current_sessions EXCEPT ![i] =
               [active |-> TRUE, token |-> t, last_activity |-> Clock]]

(* The right credentials: the client gets a token whether it was saved or  *)
(* not.  (Any other request leaves the server as it is.)                   *)
auth_handler ==
    /\ issued < MaxLogins
    /\ issued' = issued + 1
    /\ IF Free # {} THEN SaveToken(issued') ELSE UNCHANGED current_sessions
    /\ used' = [used EXCEPT ![issued'] = time]
    /\ UNCHANGED <<time, ended>>

-----------------------------------------------------------------------------
(***************************************************************************)
(* Requests that carry a token.                                            *)
(***************************************************************************)
(* Mutant: a clock that has wrapped gives no idle time at all. *)
IdleTimeSaturates(i) ==
    IF Clock < current_sessions[i].last_activity THEN 0
    ELSE Clock - current_sessions[i].last_activity

(* Unsigned subtraction of two readings of the clock. *)
IdleTime(i) == uint32(Clock - current_sessions[i].last_activity)

Expired(i) == IdleTime(i) > TIMEOUT

(* validate_token finds the session live: it counts as used now. *)
TokenAccepted(t, i) ==
    /\ IsFirst(i, Holding(t))
    /\ ~Expired(i)
    /\ used' = [used EXCEPT ![t] = time]

(* Mutant: the activity of the session is not recorded. *)
SessionUsedForgotten(i) == current_sessions

SessionUsed(i) == [current_sessions EXCEPT ![i].last_activity = Clock]

(* validate_token refuses: an expired session is closed on the way. *)
TokenRefused(t) ==
    /\ \/ Holding(t) = {} /\ UNCHANGED current_sessions
       \/ \E i \in Slots :
             /\ IsFirst(i, Holding(t))
             /\ Expired(i)
             /\ current_sessions' = [current_sessions EXCEPT ![i].active = FALSE]
    /\ ended' = ended \cup {t}
    /\ UNCHANGED <<time, issued, used>>

(* GET /check-auth, by way of logged_in_checked. *)
check_auth_handler(t) ==
    \/ /\ \E i \in Slots : TokenAccepted(t, i) /\ current_sessions' = SessionUsed(i)
       /\ UNCHANGED <<time, issued, ended>>
    \/ TokenRefused(t)

(* POST /logout: all slots are cleared, not only the caller's. *)
logout_handler(t) ==
    \/ /\ \E i \in Slots : TokenAccepted(t, i)
       /\ current_sessions' = [i \in Slots |-> Cleared]
       /\ ended' = ended \cup {t}
       /\ UNCHANGED <<time, issued>>
    \/ TokenRefused(t)

-----------------------------------------------------------------------------
Init ==
    /\ current_sessions = [i \in Slots |-> Cleared]
    /\ time = 0
    /\ issued = 0
    /\ used = [t \in Tokens |-> 0]
    /\ ended = {}

Next ==
    \/ TimePasses
    \/ auth_handler
    \/ \E t \in 1..issued : check_auth_handler(t) \/ logout_handler(t)

Spec == Init /\ [][Next]_vars

-----------------------------------------------------------------------------
(* Every variable holds a value its C type and its writers allow.          *)
TypeOK ==
    /\ current_sessions \in
           [Slots -> [active : BOOLEAN, token : 0..MaxLogins, last_activity : 0..Word - 1]]
    /\ time \in 0..MaxTime
    /\ issued \in 0..MaxLogins
    /\ used \in [Tokens -> 0..MaxTime]
    /\ ended \subseteq 1..issued

(* A token opens one session: no two slots are active for the same token,  *)
(* so that logging out or expiring once is enough.                         *)
OneSlotPerToken ==
    \A i, j \in Slots :
        current_sessions[i].active /\ current_sessions[j].active
            /\ current_sessions[i].token = current_sessions[j].token => i = j

(* The clock of the sessions is the real one: the last activity of an      *)
(* active session is the real time its token was last accepted at, however *)
(* often the clock has wrapped.                                            *)
ActivityIsRecorded ==
    \A i \in Slots :
        current_sessions[i].active =>
            current_sessions[i].last_activity = uint32(used[current_sessions[i].token])

RealIdle(t) == time - used[t]

(* A session that is asked for within one turn of the clock is kept for    *)
(* TIMEOUT of real time and closed after it, also while the clock wraps    *)
(* between two requests.                                                   *)
ExpiryIsExact ==
    \A i \in Slots :
        LET t == current_sessions[i].token IN
        current_sessions[i].active /\ RealIdle(t) < Word =>
            (Expired(i) <=> RealIdle(t) > TIMEOUT)

(* What is over stays over: no slot is active for a token that was refused *)
(* or logged out once, whoever logs in afterwards and however slots and    *)
(* the clock are reused.                                                   *)
EndedStaysEnded == \A t \in ended : Holding(t) = {}

(* The sessions as clients know them. *)
Active == {i \in Slots : current_sessions[i].active}
OpenTokens == {current_sessions[i].token : i \in Active}

(* To its clients the slots, times and the wrapping clock are the          *)
(* SessionService the web console relies on.                               *)
Service == INSTANCE SessionService WITH open <- OpenTokens
ImplementsSessionService == Service!Spec

-----------------------------------------------------------------------------
(* What a log line says and the code does not do.                          *)

(* "User '%s' logged in, issued token": when every other session has been  *)
(* idle for longer than TIMEOUT, the token a login issues opens a session. *)
LoginOpensSession ==
    [][(auth_handler /\ \A t \in 1..issued : RealIdle(t) > TIMEOUT) =>
          \E i \in Slots : current_sessions'[i].active /\ current_sessions'[i].token = issued']_vars
===============================================================================

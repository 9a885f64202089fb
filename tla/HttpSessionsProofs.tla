-------------------------- MODULE HttpSessionsProofs --------------------------
(***************************************************************************)
(* Proofs about HttpSessions, for any number of slots, any timeout and any *)
(* width of the clock.                                                     *)
(***************************************************************************)
EXTENDS HttpSessions, ClockArithmetic, FiniteSetTheorems

(* A reading of the clock fits its type.                                   *)
LEMMA ClockType == \A x \in Nat : uint32(x) \in 0..Word - 1
BY SessionAssumption DEF SessionAssumption, uint32

(* A slot of the three kinds the handlers write.                           *)
LEMMA SlotTypes ==
    ASSUME time \in Nat
    PROVE  /\ Clock \in 0..Word - 1
           /\ Cleared \in [active : BOOLEAN, token : 0..MaxLogins, last_activity : 0..Word - 1]
<1>1. Clock \in 0..Word - 1
  BY ClockType DEF Clock
<1> QED
  BY <1>1, SessionAssumption DEF SessionAssumption, Cleared

LEMMA TypeStep ==
    ASSUME TypeOK, [Next]_vars
    PROVE  TypeOK'
<1> USE SessionAssumption DEF SessionAssumption
<1>0. time \in Nat /\ issued \in Nat /\ Clock \in 0..Word - 1
  BY SlotTypes DEF TypeOK
<1>1. CASE TimePasses
  BY <1>1 DEF TypeOK, TimePasses
<1>2. CASE auth_handler
  <2>1. issued' = issued + 1 /\ issued' \in 1..MaxLogins /\ UNCHANGED <<time, ended>>
    BY <1>0, <1>2 DEF auth_handler, TypeOK
  <2>2. used' \in [Tokens -> 0..MaxTime]
    BY <1>2, <2>1 DEF auth_handler, TypeOK
  <2>3. CASE Free # {}
    <3>1. PICK i \in Free : current_sessions' = [current_sessions EXCEPT ![i] =
               [active |-> TRUE, token |-> issued', last_activity |-> Clock]]
      BY <1>2, <2>3 DEF auth_handler, SaveToken
    <3> QED
      BY <1>0, <2>1, <2>2, <3>1 DEF TypeOK, Free
  <2>4. CASE Free = {}
    BY <1>2, <2>1, <2>2, <2>4 DEF auth_handler, TypeOK
  <2> QED
    BY <2>3, <2>4
<1>3. ASSUME NEW t \in 1..issued, NEW i \in Slots, TokenAccepted(t, i)
      PROVE  used' \in [Tokens -> 0..MaxTime]
  BY <1>3 DEF TokenAccepted, TypeOK
<1>4. ASSUME NEW t \in 1..issued, TokenRefused(t)
      PROVE  TypeOK'
  <2>1. UNCHANGED <<time, issued, used>> /\ ended' \subseteq 1..issued'
    BY <1>4 DEF TokenRefused, TypeOK
  <2>2. CASE UNCHANGED current_sessions
    BY <2>1, <2>2 DEF TypeOK
  <2>3. CASE \E i \in Slots : current_sessions' = [current_sessions EXCEPT ![i].active = FALSE]
    BY <2>1, <2>3 DEF TypeOK
  <2> QED
    BY <1>4, <2>2, <2>3 DEF TokenRefused
<1>5. ASSUME NEW t \in 1..issued, check_auth_handler(t)
      PROVE  TypeOK'
  <2>1. ASSUME NEW i \in Slots, TokenAccepted(t, i), current_sessions' = SessionUsed(i),
               UNCHANGED <<time, issued, ended>>
        PROVE  TypeOK'
    BY <1>0, <1>3, <2>1 DEF TypeOK, SessionUsed
  <2> QED
    BY <1>4, <1>5, <2>1 DEF check_auth_handler
<1>6. ASSUME NEW t \in 1..issued, logout_handler(t)
      PROVE  TypeOK'
  <2>1. ASSUME NEW i \in Slots, TokenAccepted(t, i),
               current_sessions' = [j \in Slots |-> Cleared],
               ended' = ended \cup {t}, UNCHANGED <<time, issued>>
        PROVE  TypeOK'
    BY <1>0, <1>3, <2>1, SlotTypes DEF TypeOK
  <2> QED
    BY <1>4, <1>6, <2>1 DEF logout_handler
<1>7. CASE UNCHANGED vars
  BY <1>7 DEF vars, TypeOK
<1> QED
  BY <1>1, <1>2, <1>5, <1>6, <1>7 DEF Next

(* Every variable of the sessions holds a value of its type in every       *)
(* reachable state.                                                        *)
THEOREM TypeCorrect == Spec => []TypeOK
<1>1. Init => TypeOK
  BY SessionAssumption, SlotTypes DEF SessionAssumption, Init, TypeOK, Tokens
<1> QED
  BY <1>1, TypeStep, PTL DEF Spec

-----------------------------------------------------------------------------
(* What the four properties need to be inductive: an active slot holds a   *)
(* token that was issued, and nothing was used in the future.              *)
HistoryInv ==
    /\ \A i \in Slots : current_sessions[i].active => current_sessions[i].token \in 1..issued
    /\ \A t \in Tokens : used[t] <= time

SessionInv ==
    TypeOK /\ HistoryInv /\ OneSlotPerToken /\ ActivityIsRecorded /\ EndedStaysEnded

(* Nothing a step of time, or of a client, does to the other histories.    *)
LEMMA TimeStep ==
    ASSUME SessionInv, TimePasses
    PROVE  SessionInv'
<1>1. TypeOK'
  BY TypeStep DEF SessionInv, Next
<1>2. HistoryInv'
  BY DEF SessionInv, HistoryInv, TimePasses, TypeOK
<1>3. OneSlotPerToken' /\ ActivityIsRecorded' /\ EndedStaysEnded'
  BY DEF SessionInv, TimePasses, OneSlotPerToken, ActivityIsRecorded, EndedStaysEnded, Holding
<1> QED
  BY <1>1, <1>2, <1>3 DEF SessionInv

(* A login: the token is new, so no other slot and no history speaks of it. *)
LEMMA LoginStep ==
    ASSUME SessionInv, auth_handler
    PROVE  SessionInv'
<1>1. TypeOK'
  BY TypeStep DEF SessionInv, Next
<1>2. /\ issued \in Nat /\ issued' = issued + 1 /\ issued' \in Tokens
      /\ UNCHANGED <<time, ended>> /\ time \in Nat
      /\ used' = [used EXCEPT ![issued'] = time] /\ used \in [Tokens -> Nat]
      /\ ended \subseteq 1..issued
      /\ current_sessions \in
             [Slots -> [active : BOOLEAN, token : 0..MaxLogins, last_activity : 0..Word - 1]]
  <2>1. issued \in 0..MaxLogins /\ MaxLogins \in Nat /\ issued < MaxLogins
    BY SessionAssumption DEF SessionAssumption, SessionInv, auth_handler, TypeOK
  <2>2. issued' \in Tokens
    BY <2>1 DEF auth_handler, Tokens
  <2> QED
    BY <2>1, <2>2 DEF SessionInv, auth_handler, TypeOK
<1>3. \A i \in Slots : current_sessions[i].active =>
          current_sessions[i].token \in 1..issued /\ current_sessions[i].token \in Tokens
  BY <1>2 DEF SessionInv, HistoryInv, Tokens
<1>4. \A t \in Tokens : used'[t] <= time'
  BY <1>2 DEF SessionInv, HistoryInv
<1>5. CASE Free = {}
  <2>1. UNCHANGED current_sessions
    BY <1>5 DEF auth_handler
  <2>2. HistoryInv' /\ OneSlotPerToken' /\ EndedStaysEnded'
    BY <1>2, <1>3, <1>4, <2>1
    DEF SessionInv, HistoryInv, OneSlotPerToken, EndedStaysEnded, Holding
  <2>3. ActivityIsRecorded'
    BY <1>2, <1>3, <2>1 DEF SessionInv, ActivityIsRecorded
  <2> QED
    BY <1>1, <2>2, <2>3 DEF SessionInv
<1>6. CASE Free # {}
  <2>1. PICK i \in Free : current_sessions' = [current_sessions EXCEPT ![i] =
             [active |-> TRUE, token |-> issued', last_activity |-> Clock]]
    BY <1>6 DEF auth_handler, SaveToken
  <2>2. i \in Slots
    BY DEF Free
  <2>3. /\ current_sessions'[i] = [active |-> TRUE, token |-> issued', last_activity |-> Clock]
        /\ \A j \in Slots \ {i} : current_sessions'[j] = current_sessions[j]
    BY <1>2, <2>1, <2>2
  <2>4. HistoryInv'
    <3>1. ASSUME NEW j \in Slots, current_sessions'[j].active
          PROVE  current_sessions'[j].token \in 1..issued'
      BY <1>2, <1>3, <2>3, <3>1
    <3> QED
      BY <1>4, <3>1 DEF HistoryInv
  <2>5. OneSlotPerToken'
    <3>1. ASSUME NEW j \in Slots \ {i}, current_sessions'[j].active
          PROVE  current_sessions'[j].token # issued'
      BY <1>2, <1>3, <2>3, <3>1
    <3> QED
      BY <2>3, <3>1 DEF SessionInv, OneSlotPerToken
  <2>6. ActivityIsRecorded'
    <3>1. ASSUME NEW j \in Slots, current_sessions'[j].active
          PROVE  current_sessions'[j].last_activity = uint32(used'[current_sessions'[j].token])
      <4>1. CASE j = i
        BY <1>2, <2>3, <4>1 DEF Clock
      <4>2. CASE j # i
        <5>1. /\ current_sessions'[j] = current_sessions[j]
              /\ used'[current_sessions[j].token] = used[current_sessions[j].token]
          BY <1>2, <1>3, <2>3, <3>1, <4>2
        <5> QED
          BY <3>1, <5>1 DEF SessionInv, ActivityIsRecorded
      <4> QED
        BY <4>1, <4>2
    <3> QED
      BY <3>1 DEF ActivityIsRecorded
  <2>7. EndedStaysEnded'
    <3>1. ASSUME NEW t \in ended, NEW j \in Slots,
                 current_sessions'[j].active, current_sessions'[j].token = t
          PROVE  FALSE
      <4>1. CASE j = i
        BY <1>2, <2>3, <3>1, <4>1
      <4>2. CASE j # i
        BY <2>3, <3>1, <4>2 DEF SessionInv, EndedStaysEnded, Holding
      <4> QED
        BY <4>1, <4>2
    <3> QED
      BY <1>2, <3>1 DEF EndedStaysEnded, Holding
  <2> QED
    BY <1>1, <2>4, <2>5, <2>6, <2>7 DEF SessionInv
<1> QED
  BY <1>5, <1>6

(* A refused request closes the one slot its token may have left open.     *)
LEMMA RefusalStep ==
    ASSUME SessionInv, NEW t \in 1..issued, TokenRefused(t), TypeOK'
    PROVE  SessionInv'
<1>1. /\ UNCHANGED <<time, issued, used>> /\ ended' = ended \cup {t}
      /\ current_sessions \in
             [Slots -> [active : BOOLEAN, token : 0..MaxLogins, last_activity : 0..Word - 1]]
  BY DEF TokenRefused, SessionInv, TypeOK
<1>2. /\ \A i \in Slots : /\ current_sessions'[i].active => current_sessions[i].active
                          /\ current_sessions'[i].token = current_sessions[i].token
                          /\ current_sessions'[i].last_activity
                                = current_sessions[i].last_activity
      /\ \A i \in Slots : current_sessions'[i].active => current_sessions'[i].token # t
  <2>1. CASE Holding(t) = {} /\ UNCHANGED current_sessions
    BY <2>1 DEF Holding
  <2>2. ASSUME NEW i \in Slots, IsFirst(i, Holding(t)),
               current_sessions' = [current_sessions EXCEPT ![i].active = FALSE]
        PROVE  /\ \A j \in Slots : /\ current_sessions'[j].active => current_sessions[j].active
                                  /\ current_sessions'[j].token = current_sessions[j].token
                                  /\ current_sessions'[j].last_activity
                                        = current_sessions[j].last_activity
               /\ \A j \in Slots : current_sessions'[j].active => current_sessions'[j].token # t
    <3>1. /\ current_sessions'[i].active = FALSE
          /\ current_sessions'[i].token = current_sessions[i].token
          /\ current_sessions'[i].last_activity = current_sessions[i].last_activity
          /\ \A j \in Slots \ {i} : current_sessions'[j] = current_sessions[j]
      BY <1>1, <2>2
    <3>2. current_sessions[i].active /\ current_sessions[i].token = t
      BY <2>2 DEF IsFirst, Holding
    <3>3. \A j \in Slots : current_sessions[j].active /\ current_sessions[j].token = t => j = i
      BY <3>2 DEF SessionInv, OneSlotPerToken
    <3> QED
      BY <3>1, <3>3
  <2> QED
    BY <2>1, <2>2 DEF TokenRefused
<1>3. HistoryInv' /\ OneSlotPerToken' /\ ActivityIsRecorded'
  BY <1>1, <1>2 DEF SessionInv, HistoryInv, OneSlotPerToken, ActivityIsRecorded
<1>4. EndedStaysEnded'
  BY <1>1, <1>2 DEF SessionInv, EndedStaysEnded, Holding
<1> QED
  BY <1>3, <1>4 DEF SessionInv

(* An accepted request moves the last activity of the one slot of its      *)
(* token along with the history.                                           *)
LEMMA AcceptanceStep ==
    ASSUME SessionInv, NEW t \in 1..issued, NEW i \in Slots, TokenAccepted(t, i),
           current_sessions' = SessionUsed(i), UNCHANGED <<time, issued, ended>>, TypeOK'
    PROVE  SessionInv'
<1>1. /\ used' = [used EXCEPT ![t] = time] /\ used \in [Tokens -> Nat] /\ time \in Nat
      /\ t \in Tokens
      /\ current_sessions \in
             [Slots -> [active : BOOLEAN, token : 0..MaxLogins, last_activity : 0..Word - 1]]
  BY DEF SessionInv, TypeOK, TokenAccepted, Tokens
<1>2. current_sessions[i].active /\ current_sessions[i].token = t
  BY DEF TokenAccepted, IsFirst, Holding
<1>3. \A j \in Slots : current_sessions[j].active /\ current_sessions[j].token = t => j = i
  BY <1>2 DEF SessionInv, OneSlotPerToken
<1>4. /\ \A j \in Slots : /\ current_sessions'[j].active = current_sessions[j].active
                          /\ current_sessions'[j].token = current_sessions[j].token
      /\ current_sessions'[i].last_activity = Clock
      /\ \A j \in Slots \ {i} : current_sessions'[j] = current_sessions[j]
  BY <1>1 DEF SessionUsed
<1>5. HistoryInv'
  BY <1>1, <1>4 DEF SessionInv, HistoryInv
<1>6. OneSlotPerToken' /\ EndedStaysEnded'
  BY <1>1, <1>4 DEF SessionInv, OneSlotPerToken, EndedStaysEnded, Holding
<1>7. ActivityIsRecorded'
  <2>1. ASSUME NEW j \in Slots, current_sessions'[j].active
        PROVE  current_sessions'[j].last_activity = uint32(used'[current_sessions'[j].token])
    <3>1. CASE j = i
      BY <1>1, <1>2, <1>4, <3>1 DEF Clock
    <3>2. CASE j # i
      <4>1. /\ current_sessions'[j] = current_sessions[j]
            /\ current_sessions[j].active
            /\ current_sessions[j].token # t
        BY <1>3, <1>4, <2>1, <3>2
      <4>2. used'[current_sessions[j].token] = used[current_sessions[j].token]
        BY <1>1, <4>1
      <4> QED
        BY <4>1, <4>2 DEF SessionInv, ActivityIsRecorded
    <3> QED
      BY <3>1, <3>2
  <2> QED
    BY <2>1 DEF ActivityIsRecorded
<1> QED
  BY <1>5, <1>6, <1>7 DEF SessionInv

(* SessionInv is inductive.                                                *)
LEMMA SessionStep ==
    ASSUME SessionInv, [Next]_vars
    PROVE  SessionInv'
<1>0. TypeOK'
  BY TypeStep DEF SessionInv
<1>1. ASSUME NEW t \in 1..issued, check_auth_handler(t)
      PROVE  SessionInv'
  BY <1>0, <1>1, RefusalStep, AcceptanceStep DEF check_auth_handler
<1>2. ASSUME NEW t \in 1..issued, logout_handler(t)
      PROVE  SessionInv'
  <2>1. ASSUME NEW i \in Slots, TokenAccepted(t, i),
               current_sessions' = [j \in Slots |-> Cleared],
               UNCHANGED <<time, issued>>
        PROVE  SessionInv'
    <3>1. \A j \in Slots : ~current_sessions'[j].active
      BY <2>1 DEF Cleared
    <3>2. used' = [used EXCEPT ![t] = time] /\ used \in [Tokens -> Nat] /\ time \in Nat
      BY <2>1 DEF SessionInv, TypeOK, TokenAccepted
    <3>3. \A s \in Tokens : used'[s] <= time'
      BY <2>1, <3>2 DEF SessionInv, HistoryInv
    <3> QED
      BY <1>0, <3>1, <3>3
      DEF SessionInv, HistoryInv, OneSlotPerToken, ActivityIsRecorded, EndedStaysEnded, Holding
  <2> QED
    BY <1>0, <1>2, <2>1, RefusalStep DEF logout_handler
<1>3. CASE UNCHANGED vars
  <2>1. UNCHANGED <<current_sessions, time, issued, used, ended>>
    BY <1>3 DEF vars
  <2> QED
    BY <1>0, <2>1
    DEF SessionInv, HistoryInv, OneSlotPerToken, ActivityIsRecorded, EndedStaysEnded, Holding
<1> QED
  BY <1>1, <1>2, <1>3, TimeStep, LoginStep DEF Next

LEMMA SessionInvariant == Spec => []SessionInv
<1>1. Init => SessionInv
  <2> SUFFICES ASSUME Init PROVE SessionInv
    OBVIOUS
  <2>1. TypeOK
    BY SessionAssumption, SlotTypes DEF SessionAssumption, Init, TypeOK, Tokens
  <2>2. \A j \in Slots : ~current_sessions[j].active
    BY DEF Init, Cleared
  <2>3. time = 0 /\ \A t \in Tokens : used[t] = 0
    BY DEF Init
  <2> QED
    BY <2>1, <2>2, <2>3
    DEF SessionInv, HistoryInv, OneSlotPerToken, ActivityIsRecorded, EndedStaysEnded, Holding
<1> QED
  BY <1>1, SessionStep, PTL DEF Spec

(* No two slots are open for one token, with however many slots.           *)
THEOREM OneSlotPerTokenHolds == Spec => []OneSlotPerToken
BY SessionInvariant, PTL DEF SessionInv

(* The last activity of an active slot is when its token was accepted.     *)
THEOREM ActivityIsRecordedHolds == Spec => []ActivityIsRecorded
BY SessionInvariant, PTL DEF SessionInv

(* No slot ever holds a token again that was refused or logged out.        *)
THEOREM EndedStaysEndedHolds == Spec => []EndedStaysEnded
BY SessionInvariant, PTL DEF SessionInv

(* Expiry is exact across any number of wraps of a clock of any width.     *)
THEOREM ExpiryIsExactHolds == Spec => []ExpiryIsExact
<1>1. SessionInv => ExpiryIsExact
  <2> SUFFICES ASSUME SessionInv, NEW i \in Slots, current_sessions[i].active,
                      RealIdle(current_sessions[i].token) < Word
               PROVE  Expired(i) <=> RealIdle(current_sessions[i].token) > TIMEOUT
    BY DEF ExpiryIsExact
  <2> DEFINE t == current_sessions[i].token
  <2>1. t \in Tokens
    BY DEF SessionInv, HistoryInv, TypeOK, Tokens
  <2>2. used[t] \in Nat /\ time \in Nat /\ used[t] <= time /\ Word \in Nat \ {0}
    BY <2>1, SessionAssumption DEF SessionInv, HistoryInv, TypeOK, SessionAssumption
  <2>3. current_sessions[i].last_activity = uint32(used[t])
    BY DEF SessionInv, ActivityIsRecorded
  <2>4. time - used[t] < Word
    BY DEF RealIdle
  <2> HIDE DEF t
  <2>5. ((time % Word) - (used[t] % Word)) % Word = time - used[t]
    BY <2>2, <2>4, UnsignedDifference
  <2>6. IdleTime(i) = time - used[t]
    BY <2>3, <2>5 DEF IdleTime, uint32, Clock
  <2> QED
    BY <2>6 DEF Expired, RealIdle, t
<1> QED
  BY <1>1, SessionInvariant, PTL

-----------------------------------------------------------------------------
(***************************************************************************)
(* The slots implement SessionService.                                     *)
(***************************************************************************)
(* There is a free slot exactly when fewer tokens than slots are open.     *)
LEMMA FreeSlots ==
    ASSUME SessionInv
    PROVE  Free # {} <=> Cardinality(OpenTokens) < MAX_USERS
<1>1. IsFiniteSet(Slots) /\ Cardinality(Slots) = MAX_USERS
  <2>1. MAX_USERS \in Nat \ {0} /\ 0 \in Int /\ MAX_USERS - 1 \in Int
    BY SessionAssumption DEF SessionAssumption
  <2> QED
    BY <2>1, FS_Interval DEF Slots
<1>2. /\ IsFiniteSet(Active)
      /\ Cardinality(Active) <= MAX_USERS
      /\ Cardinality(Active) = MAX_USERS => Active = Slots
  <2>1. Active \in SUBSET Slots
    BY DEF Active
  <2> QED
    BY <1>1, <2>1, FS_Subset
<1>3. Cardinality(OpenTokens) = Cardinality(Active)
  <2> DEFINE f == [i \in Active |-> current_sessions[i].token]
  <2>1. f \in Surjection(Active, OpenTokens)
    BY DEF Surjection, OpenTokens
  <2>2. f \in Injection(Active, OpenTokens)
    BY <2>1 DEF Injection, IsInjective, Surjection, SessionInv, OneSlotPerToken, Active
  <2> QED
    BY <1>2, <2>1, <2>2, FS_Surjection
<1>4. Free = {} <=> Active = Slots
  BY DEF Free, Active
<1>5. Cardinality(Active) \in Nat /\ MAX_USERS \in Nat
  BY <1>2, FS_CardinalityType, SessionAssumption DEF SessionAssumption
<1> QED
  BY <1>1, <1>2, <1>3, <1>4, <1>5

(* The service counts with the same operator.                              *)
LEMMA SameCardinality == \A S : Service!Cardinality(S) = Cardinality(S)
BY DEF Service!Cardinality, Cardinality

(* A login opens a session if it finds a slot, and none if it does not.    *)
LEMMA LoginRefines ==
    ASSUME SessionInv, auth_handler
    PROVE  Service!Login
<1>1. issued' = issued + 1
  BY DEF auth_handler
<1>2. CASE Free # {}
  <2>1. PICK i \in Free : current_sessions' = [current_sessions EXCEPT ![i] =
             [active |-> TRUE, token |-> issued', last_activity |-> Clock]]
    BY <1>2 DEF auth_handler, SaveToken
  <2>2. i \in Slots /\ i \notin Active
    BY DEF Free, Active
  <2>3. /\ current_sessions'[i].active /\ current_sessions'[i].token = issued'
        /\ \A j \in Slots \ {i} : current_sessions'[j] = current_sessions[j]
    BY <2>1, <2>2 DEF SessionInv, TypeOK
  <2>4. Active' = Active \cup {i}
    BY <2>2, <2>3 DEF Active, Slots
  <2>5. OpenTokens' = OpenTokens \cup {issued'}
    BY <2>2, <2>3, <2>4 DEF OpenTokens, Active
  <2> QED
    BY <1>1, <1>2, <2>5, FreeSlots, SameCardinality DEF Service!Login
<1>3. CASE Free = {}
  <2>1. OpenTokens' = OpenTokens
    BY <1>3 DEF auth_handler, OpenTokens, Active, Slots
  <2> QED
    BY <1>1, <1>3, <2>1, FreeSlots, SameCardinality DEF Service!Login
<1> QED
  BY <1>2, <1>3

(* A refusal closes at most the session of its token.                      *)
LEMMA RefusalRefines ==
    ASSUME SessionInv, NEW t \in 1..issued, TokenRefused(t)
    PROVE  Service!Refused(t)
<1>1. UNCHANGED issued
  BY DEF TokenRefused
<1>2. CASE Holding(t) = {} /\ UNCHANGED current_sessions
  <2>1. OpenTokens' = OpenTokens \ {t}
    BY <1>2 DEF Holding, OpenTokens, Active, Slots
  <2> QED
    BY <1>1, <2>1 DEF Service!Refused
<1>3. ASSUME NEW i \in Slots, IsFirst(i, Holding(t)),
             current_sessions' = [current_sessions EXCEPT ![i].active = FALSE]
      PROVE  Service!Refused(t)
  <2>1. /\ ~current_sessions'[i].active
        /\ \A j \in Slots \ {i} : current_sessions'[j] = current_sessions[j]
    BY <1>3 DEF SessionInv, TypeOK
  <2>2. i \in Active /\ current_sessions[i].token = t
    BY <1>3 DEF IsFirst, Holding, Active
  <2>3. \A j \in Active : current_sessions[j].token = t => j = i
    BY <2>2 DEF SessionInv, OneSlotPerToken, Active
  <2>4. Active' = Active \ {i}
    BY <2>1 DEF Active, Slots
  <2>5. OpenTokens' = OpenTokens \ {t}
    BY <2>1, <2>2, <2>3, <2>4 DEF OpenTokens, Active
  <2> QED
    BY <1>1, <2>5 DEF Service!Refused
<1> QED
  BY <1>2, <1>3 DEF TokenRefused

(* A request that is accepted comes from an open session and leaves it     *)
(* open, unless it logs out.                                               *)
LEMMA AcceptanceRefines ==
    ASSUME SessionInv, NEW t \in 1..issued, NEW i \in Slots, TokenAccepted(t, i), UNCHANGED issued
    PROVE  /\ current_sessions' = SessionUsed(i) => Service!Accepted(t)
           /\ current_sessions' = [j \in Slots |-> Cleared] => Service!LoggedOut(t)
<1>1. t \in OpenTokens
  BY DEF TokenAccepted, IsFirst, Holding, OpenTokens, Active
<1>2. ASSUME current_sessions' = SessionUsed(i) PROVE Service!Accepted(t)
  <2>1. \A j \in Slots : /\ current_sessions'[j].active = current_sessions[j].active
                         /\ current_sessions'[j].token = current_sessions[j].token
    BY <1>2 DEF SessionUsed, SessionInv, TypeOK
  <2>2. Active' = Active
    BY <2>1 DEF Active, Slots
  <2>3. OpenTokens' = OpenTokens
    BY <2>1, <2>2 DEF OpenTokens, Active
  <2> QED
    BY <1>1, <2>3 DEF Service!Accepted, Service!vars
<1>3. ASSUME current_sessions' = [j \in Slots |-> Cleared] PROVE Service!LoggedOut(t)
  <2>1. \A j \in Slots : ~current_sessions'[j].active
    BY <1>3 DEF Cleared
  <2>2. Active' = {}
    BY <2>1 DEF Active, Slots
  <2>3. OpenTokens' = {}
    BY <2>2 DEF OpenTokens
  <2> QED
    BY <1>1, <2>3 DEF Service!LoggedOut
<1> QED
  BY <1>2, <1>3

(* Every step of the slots is a step of the service or leaves it alone.    *)
LEMMA ServiceStep ==
    ASSUME SessionInv, [Next]_vars
    PROVE  [Service!Next]_(Service!vars)
<1>1. ASSUME UNCHANGED current_sessions, UNCHANGED issued
      PROVE  UNCHANGED Service!vars
  BY <1>1 DEF Service!vars, OpenTokens, Active, Slots
<1>2. ASSUME NEW t \in 1..issued, check_auth_handler(t) \/ logout_handler(t)
      PROVE  Service!Accepted(t) \/ Service!Refused(t) \/ Service!LoggedOut(t)
  BY <1>2, AcceptanceRefines, RefusalRefines DEF check_auth_handler, logout_handler
<1>3. CASE auth_handler
  BY <1>3, LoginRefines DEF Service!Next
<1>4. CASE TimePasses \/ UNCHANGED vars
  BY <1>1, <1>4 DEF TimePasses, vars
<1> QED
  BY <1>2, <1>3, <1>4 DEF Next, Service!Next

(* For its clients the server's slots, timeouts and wrapping clock are the *)
(* SessionService, however many slots there are.                           *)
THEOREM SessionsImplementService == Spec => ImplementsSessionService
<1>1. Init => Service!Init
  <2> SUFFICES ASSUME Init PROVE Service!Init
    OBVIOUS
  <2>1. Active = {}
    BY DEF Init, Active, Cleared
  <2> QED
    BY <2>1 DEF Init, Service!Init, OpenTokens
<1> QED
  BY <1>1, SessionInvariant, ServiceStep, PTL DEF Spec, ImplementsSessionService, Service!Spec
===============================================================================

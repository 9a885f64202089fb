--------------------------- MODULE WebConsoleProofs ---------------------------
(***************************************************************************)
(* Proofs about WebConsole, for any number of browsers, connections,       *)
(* sessions, clicks and failures: types, that an open page has been let    *)
(* in, that an answered logout has ended the session, and that a page is   *)
(* never left half way.                                                    *)
(***************************************************************************)
EXTENDS WebConsole, FiniteSetTheorems, TLAPS

Results == {"ok", "refused", "error"}
Req == [from : Browsers, id : 0..Connections, what : Requests, token : Nat, live : BOOLEAN]
Ans == [to : Browsers, id : 1..Connections, what : Requests, result : Results, token : Nat]

SessionPart ==
    /\ issued \in Nat /\ open \subseteq 1..issued
    /\ IsFiniteSet(open) /\ Cardinality(open) <= MAX_USERS

ViewPart ==
    /\ page \in [Browsers -> Pages]
    /\ phase \in [Browsers -> {"loading", "checking", "form", "run", "dead"}]
    /\ token \in [Browsers -> Nat]
    /\ button \in [Browsers -> BOOLEAN]
    /\ status \in [Browsers -> {"none", "success", "error"}]
    /\ authorised \in [Browsers -> BOOLEAN]

(* A page has at most one request or answer per connection, and a logout   *)
(* under way carries the token that its page still has.                    *)
NetPart ==
    /\ requests \subseteq Req /\ answers \subseteq Ans
    /\ \A r \in requests : r.live => r.id # 0
    /\ \A r, q \in requests : r.live /\ q.live /\ r.from = q.from /\ r.id = q.id => r = q
    /\ \A a, c \in answers : a.to = c.to /\ a.id = c.id => a = c
    /\ \A r \in requests, a \in answers : r.live /\ r.from = a.to => r.id # a.id
    /\ \A r \in requests : r.live /\ r.what = "logout" => r.token = token[r.from]

IssuedPart ==
    /\ \A b \in Browsers : token[b] <= issued
    /\ \A r \in requests : r.token <= issued
    /\ \A a \in answers : a.token <= issued

ServerPart == httpd \in {"free", "blocked"} /\ spare \in 0..TOTAL_CHUNK_BUFFERS

ConsoleInv == SessionPart /\ ViewPart /\ NetPart /\ IssuedPart /\ ServerPart

LEMMA ConstantFacts ==
    /\ TOTAL_CHUNK_BUFFERS \in Nat \ {0} /\ Connections \in Nat \ {0} /\ MAX_USERS \in Nat
BY ConsoleAssumption DEF ConsoleAssumption

LEMMA SameCardinality == \A S : Sessions!Cardinality(S) = Cardinality(S)
BY DEF Sessions!Cardinality, Cardinality

-----------------------------------------------------------------------------
(***************************************************************************)
(* What a step does to the two sides of the network.                       *)
(***************************************************************************)
(* The server answers a request.                                           *)
Responds ==
    \E r \in requests, result \in Results, t \in {0, issued'} :
        /\ Respond(r, result, t)
        /\ r.what = "logout" => r.token \notin open'
        /\ UNCHANGED view

(* A page takes an answer and may ask for more.                            *)
Reacts ==
    \E a \in answers :
        /\ Take(a)
        /\ UNCHANGED requests \/ \E what \in Requests : Resend(a, what)
        /\ UNCHANGED <<token, sessions>>

(* A page is left for another, perhaps with another token.                 *)
Leaves ==
    \E b \in Browsers, p \in Pages :
        /\ GoTo(b, p)
        /\ \E t \in 0..issued : token' = [token EXCEPT ![b] = t]
        /\ UNCHANGED sessions

Sends ==
    \E b \in Browsers, what \in Requests :
        /\ \E t \in {0, token[b]} : Send(b, what, t) /\ (what = "logout" => t = token[b])
        /\ UNCHANGED <<answers, token, sessions>>

Quiet == UNCHANGED <<requests, answers, token, sessions>>

LEMMA HandleShape ==
    ASSUME ConsoleInv, NEW r \in requests, Handle(r)
    PROVE  /\ Responds \/ Quiet
           /\ UNCHANGED view
           /\ SessionPart' /\ issued <= issued' /\ \A t \in 0..issued : t \in open' => t \in open
           /\ ServerPart'
<1>0. /\ issued \in Nat /\ open \subseteq 1..issued /\ IsFiniteSet(open)
      /\ Cardinality(open) <= MAX_USERS /\ Cardinality(open) \in Nat
      /\ r.token \in Nat /\ r.token <= issued
      /\ httpd \in {"free", "blocked"} /\ spare \in 0..TOTAL_CHUNK_BUFFERS
  BY FS_CardinalityType DEF ConsoleInv, SessionPart, NetPart, Req, IssuedPart, ServerPart
<1>1. UNCHANGED view
  BY DEF Handle
<1>2. ASSUME Respond(r, "ok", 0) \/ Respond(r, "refused", 0), r.what = "logout" => r.token \notin open'
      PROVE  Responds
  BY <1>1, <1>2 DEF Responds, Results
<1>3. ASSUME UNCHANGED sessions
      PROVE  SessionPart' /\ issued <= issued' /\ \A t \in 0..issued : t \in open' => t \in open
  BY <1>0, <1>3 DEF sessions, SessionPart
<1>4. ASSUME NEW S, open' = open \ S, UNCHANGED issued
      PROVE  SessionPart' /\ issued <= issued' /\ \A t \in 0..issued : t \in open' => t \in open
  <2>1. IsFiniteSet(open') /\ Cardinality(open') <= Cardinality(open) /\ Cardinality(open') \in Nat
    <3>1. open' \in SUBSET open
      BY <1>4
    <3> QED
      BY <1>0, <3>1, FS_Subset, FS_CardinalityType
  <2>2. Cardinality(open') <= MAX_USERS
    BY <1>0, <2>1, ConstantFacts
  <2>3. open' \subseteq 1..issued' /\ issued' \in Nat /\ issued <= issued'
    <3>1. issued' = issued /\ issued <= issued /\ open' \subseteq open
      BY <1>0, <1>4
    <3> QED
      BY <1>0, <3>1
  <2>4. \A t \in 0..issued : t \in open' => t \in open
    BY <1>4
  <2> QED
    BY <2>1, <2>2, <2>3, <2>4 DEF SessionPart
<1>5. CASE resource_handler(r) \/ NotFound(r)
  BY <1>0, <1>1, <1>2, <1>3, <1>5 DEF resource_handler, NotFound, ServerPart
<1>6. ASSUME Sessions!Refused(r.token)
      PROVE  open' = open \ {r.token} /\ UNCHANGED issued /\ r.token \notin open'
  BY <1>6 DEF Sessions!Refused
<1>7. CASE check_auth_handler(r)
  <2>1. UNCHANGED <<httpd, spare>> /\ r.what = "check"
    BY <1>7 DEF check_auth_handler
  <2>2. CASE Sessions!Accepted(r.token) /\ Respond(r, "ok", 0)
    <3>1. UNCHANGED sessions
      BY <2>2 DEF Sessions!Accepted, Sessions!vars, sessions
    <3> QED
      BY <1>0, <1>1, <1>2, <1>3, <2>1, <2>2, <3>1 DEF ServerPart
  <2>3. CASE Sessions!Refused(r.token) /\ Respond(r, "refused", 0)
    BY <1>0, <1>1, <1>2, <1>4, <1>6, <2>1, <2>3 DEF ServerPart
  <2> QED
    BY <1>7, <2>2, <2>3 DEF check_auth_handler
<1>8. CASE logout_handler(r)
  <2>1. UNCHANGED <<httpd, spare>>
    BY <1>8 DEF logout_handler
  <2>2. CASE Sessions!LoggedOut(r.token) /\ Respond(r, "ok", 0)
    <3>1. open' = open \ open /\ UNCHANGED issued /\ r.token \notin open'
      BY <2>2 DEF Sessions!LoggedOut
    <3> QED
      BY <1>0, <1>1, <1>2, <1>4, <2>1, <2>2, <3>1 DEF ServerPart
  <2>3. CASE Sessions!Refused(r.token) /\ Respond(r, "refused", 0)
    BY <1>0, <1>1, <1>2, <1>4, <1>6, <2>1, <2>3 DEF ServerPart
  <2> QED
    BY <1>8, <2>2, <2>3 DEF logout_handler
<1>9. CASE auth_handler(r)
  <2>1. UNCHANGED <<httpd, spare>> /\ r.what = "auth"
    BY <1>9 DEF auth_handler
  <2>2. CASE Sessions!Login /\ Respond(r, "ok", issued')
    <3>1. /\ issued' = issued + 1
          /\ open' = IF Cardinality(open) < MAX_USERS THEN open \cup {issued'} ELSE open
      BY <2>2, SameCardinality DEF Sessions!Login
    <3>2. issued + 1 \notin open
      BY <1>0
    <3>3. IsFiniteSet(open \cup {issued + 1}) /\ Cardinality(open \cup {issued + 1}) = Cardinality(open) + 1
      BY <1>0, <3>2, FS_AddElement
    <3>4. IsFiniteSet(open') /\ Cardinality(open') <= MAX_USERS
      BY <1>0, <3>1, <3>3, ConstantFacts
    <3>5. SessionPart' /\ issued <= issued' /\ \A t \in 0..issued : t \in open' => t \in open
      BY <1>0, <3>1, <3>4 DEF SessionPart
    <3>6. Responds
      BY <1>1, <2>1, <2>2 DEF Responds, Results
    <3> QED
      BY <1>0, <1>1, <2>1, <3>5, <3>6 DEF ServerPart
  <2>3. CASE Respond(r, "refused", 0) /\ UNCHANGED sessions
    BY <1>0, <1>1, <1>2, <1>3, <2>1, <2>3 DEF ServerPart
  <2> QED
    BY <1>9, <2>2, <2>3 DEF auth_handler
<1>10. CASE file_upload_handler(r)
  <2>1. UNCHANGED sessions /\ r.what = "upload"
    BY <1>10 DEF file_upload_handler
  <2>2. ServerPart'
    BY <1>0, <1>10, ConstantFacts DEF file_upload_handler, Handle, ServerPart
  <2>3. Responds \/ Quiet
    BY <1>1, <1>2, <1>10, <2>1 DEF file_upload_handler, Quiet, view
  <2> QED
    BY <1>1, <1>3, <2>1, <2>2, <2>3
<1> QED
  BY <1>5, <1>7, <1>8, <1>9, <1>10 DEF Handle

LEMMA ReceiveShape ==
    ASSUME ConsoleInv, NEW a \in answers, Receive(a)
    PROVE  (Reacts \/ Leaves) /\ UNCHANGED <<sessions, httpd, spare>> /\ ViewPart'
<1>0. /\ UNCHANGED <<sessions, httpd, spare>> /\ a.to \in Browsers /\ a.token \in 0..issued
      /\ issued \in Nat /\ ViewPart /\ \A b \in Browsers : token[b] \in 0..issued
  BY DEF Receive, ConsoleInv, NetPart, Ans, IssuedPart, SessionPart, ViewPart
<1>1. ASSUME NEW p \in Pages, GoTo(a.to, p), NEW t \in 0..issued,
             token' = [token EXCEPT ![a.to] = t]
      PROVE  Leaves /\ ViewPart'
  <2>1. Leaves
    BY <1>0, <1>1 DEF Leaves
  <2>2. ViewPart'
    BY <1>0, <1>1 DEF GoTo, ViewPart
  <2> QED
    BY <2>1, <2>2
<1>2. ASSUME NEW p \in Pages, GoTo(a.to, p), UNCHANGED token
      PROVE  Leaves /\ ViewPart'
  <2>1. token' = [token EXCEPT ![a.to] = token[a.to]]
    BY <1>0, <1>2 DEF ViewPart
  <2> QED
    BY <1>0, <1>1, <1>2, <2>1
<1>3. ASSUME Take(a), UNCHANGED requests \/ (\E what \in Requests : Resend(a, what)),
             UNCHANGED token
      PROVE  Reacts
  BY <1>0, <1>3 DEF Reacts
<1>4. ASSUME NEW ph \in {"loading", "checking", "form", "run", "dead"}, SetPhase(a.to, ph)
      PROVE  ViewPart' /\ UNCHANGED token
  BY <1>0, <1>4 DEF SetPhase, ViewPart
<1>5. ASSUME NEW e \in BOOLEAN, NEW rep \in {"none", "success", "error"}, Shows(a.to, e, rep)
      PROVE  ViewPart' /\ UNCHANGED token
  BY <1>0, <1>5 DEF Shows, ViewPart
<1>6. "dashboard" \in Pages /\ "login" \in Pages /\ "check" \in Requests /\ "complete" \in Requests
  BY DEF Pages, Requests
<1>7. CASE Loads(a)
  <2>1. Take(a) /\ (UNCHANGED requests \/ Resend(a, "check"))
    BY <1>7 DEF Loads, OnLoad
  <2>2. \E ph \in {"loading", "checking", "form", "run", "dead"} : SetPhase(a.to, ph)
    BY <1>7 DEF Loads, OnLoad
  <2> QED
    BY <1>0, <1>3, <1>4, <1>6, <2>1, <2>2
<1>8. CASE LoginChecked(a)
  <2>1. CASE a.result = "ok"
    BY <1>0, <1>2, <1>6, <1>8, <2>1 DEF LoginChecked
  <2>2. CASE a.result # "ok"
    BY <1>0, <1>3, <1>4, <1>8, <2>2 DEF LoginChecked
  <2> QED
    BY <2>1, <2>2
<1>9. CASE PageChecked(a)
  <2>1. CASE a.result = "ok"
    <3>1. /\ authorised' = [authorised EXCEPT ![a.to] = TRUE] /\ Take(a)
          /\ UNCHANGED <<page, phase, token, button, status, requests>>
      BY <1>9, <2>1 DEF PageChecked
    <3>2. ViewPart'
      BY <1>0, <3>1 DEF ViewPart
    <3> QED
      BY <1>3, <1>0, <3>1, <3>2
  <2>2. CASE a.result # "ok"
    BY <1>2, <1>0, <1>6, <1>9, <2>2 DEF PageChecked
  <2> QED
    BY <2>1, <2>2
<1>10. CASE LoggedIn(a)
  <2>1. CASE a.result = "ok"
    BY <1>0, <1>1, <1>6, <1>10, <2>1 DEF LoggedIn
  <2>2. CASE a.result # "ok"
    <3>1. Take(a) /\ UNCHANGED <<view, requests>>
      BY <1>10, <2>2 DEF LoggedIn
    <3> QED
      BY <1>0, <1>3, <3>1 DEF view, ViewPart
  <2> QED
    BY <2>1, <2>2
<1>11. CASE LoggedOut(a)
  <2>1. 0 \in 0..issued
    BY <1>0
  <2> QED
    BY <1>0, <1>1, <1>6, <1>11, <2>1 DEF LoggedOut
<1>12. CASE Uploaded(a)
  <2>1. CASE a.result = "ok"
    <3>1. Take(a) /\ Resend(a, "complete") /\ UNCHANGED view
      BY <1>12, <2>1 DEF Uploaded
    <3> QED
      BY <1>0, <1>3, <1>6, <3>1 DEF view, ViewPart
  <2>2. CASE a.result # "ok"
    BY <1>0, <1>3, <1>5, <1>12, <2>2 DEF Uploaded
  <2> QED
    BY <2>1, <2>2
<1>13. CASE Finalized(a)
  <2>1. button[a.to] \in BOOLEAN
    BY <1>0 DEF ViewPart
  <2> QED
    BY <1>0, <1>3, <1>5, <1>13, <2>1 DEF Finalized
<1> QED
  BY <1>0, <1>7, <1>8, <1>9, <1>10, <1>11, <1>12, <1>13 DEF Receive

LEMMA UserShape ==
    ASSUME ConsoleInv, NEW b \in Browsers, User(b)
    PROVE  (Leaves \/ Sends \/ Quiet) /\ UNCHANGED <<sessions, httpd, spare>> /\ ViewPart'
<1>0. /\ UNCHANGED <<sessions, httpd, spare>>
      /\ issued \in Nat /\ ViewPart /\ \A x \in Browsers : token[x] \in 0..issued
  BY DEF User, ConsoleInv, IssuedPart, SessionPart, ViewPart
<1>1. ASSUME NEW p \in Pages, GoTo(b, p), NEW t \in 0..issued, token' = [token EXCEPT ![b] = t]
      PROVE  Leaves /\ ViewPart'
  <2>1. Leaves
    BY <1>0, <1>1 DEF Leaves
  <2>2. ViewPart'
    BY <1>0, <1>1 DEF GoTo, ViewPart
  <2> QED
    BY <2>1, <2>2
<1>2. ASSUME NEW p \in Pages, GoTo(b, p), UNCHANGED token
      PROVE  Leaves /\ ViewPart'
  <2>1. token' = [token EXCEPT ![b] = token[b]]
    BY <1>0, <1>2 DEF ViewPart
  <2> QED
    BY <1>0, <1>1, <1>2, <2>1
<1>3. ASSUME NEW what \in Requests, NEW t \in {0, token[b]}, Send(b, what, t),
             what = "logout" => t = token[b], UNCHANGED <<answers, token>>
      PROVE  Sends
  BY <1>0, <1>3 DEF Sends
<1>4. "login" \in Pages /\ {"auth", "logout", "upload"} \subseteq Requests /\ 0 \in 0..issued
  BY <1>0 DEF Pages, Requests
<1>5. CASE Submit(b)
  <2>1. Send(b, "auth", 0) /\ UNCHANGED <<answers, view>>
    BY <1>5 DEF Submit
  <2>2. UNCHANGED <<answers, token>> /\ ViewPart'
    BY <1>0, <2>1 DEF view, ViewPart
  <2> QED
    BY <1>0, <1>3, <1>4, <2>1, <2>2
<1>6. CASE ClickLogout(b)
  <2>1. CASE GoTo(b, "login") /\ UNCHANGED token
    BY <1>0, <1>2, <1>4, <2>1
  <2>2. CASE Send(b, "logout", token[b]) /\ UNCHANGED <<answers, view>>
    <3>1. UNCHANGED <<answers, token>> /\ ViewPart'
      BY <1>0, <2>2 DEF view, ViewPart
    <3> QED
      BY <1>0, <1>3, <1>4, <2>2, <3>1
  <2> QED
    BY <1>6, <2>1, <2>2 DEF ClickLogout, LogoutHeader
<1>7. CASE CloseTab(b)
  BY <1>0, <1>1, <1>4, <1>7 DEF CloseTab
<1>8. CASE SelectFile(b)
  BY <1>0, <1>8 DEF SelectFile, Shows, ViewPart, Quiet
<1>9. CASE ClickUpdate(b)
  <2>1. /\ Send(b, "upload", token[b]) /\ button' = [button EXCEPT ![b] = FALSE]
        /\ UNCHANGED <<page, phase, token, status, authorised, answers>>
    BY <1>9 DEF ClickUpdate
  <2>2. ViewPart'
    BY <1>0, <2>1 DEF ViewPart
  <2> QED
    BY <1>0, <1>3, <1>4, <2>1, <2>2
<1>10. CASE \E p \in Pages : ClickPage(b, p)
  BY <1>0, <1>2, <1>10 DEF ClickPage
<1> QED
  BY <1>5, <1>6, <1>7, <1>8, <1>9, <1>10 DEF User

-----------------------------------------------------------------------------
(***************************************************************************)
(* Each kind of step keeps the network in order.                           *)
(***************************************************************************)
LEMMA NetFacts ==
    ASSUME ConsoleInv
    PROVE  /\ \A r \in requests : /\ r.from \in Browsers /\ r.id \in Nat /\ r.what \in Requests
                                  /\ r.token \in Nat /\ r.live \in BOOLEAN
                                  /\ r.live => r.id \in 1..Connections
           /\ \A a \in answers : /\ a.to \in Browsers /\ a.id \in 1..Connections
                                 /\ a.what \in Requests /\ a.token \in Nat
           /\ issued \in Nat /\ token \in [Browsers -> Nat] /\ NetPart /\ IssuedPart
BY ConstantFacts DEF ConsoleInv, SessionPart, ViewPart, NetPart, Req, Ans

LEMMA RespondsNet ==
    ASSUME ConsoleInv, Responds, issued' \in Nat, issued <= issued'
    PROVE  NetPart' /\ IssuedPart'
<1>1. PICK r \in requests, result \in Results, t \in {0, issued'} : Respond(r, result, t)
  BY DEF Responds
<1>2. /\ requests' = requests \ {r} /\ UNCHANGED token
      /\ \A c \in answers' : \/ c \in answers
                             \/ /\ r.live /\ c = Answer(r, result, t)
  BY <1>1 DEF Responds, Respond, view
<1>3. r.live => /\ Answer(r, result, t) \in Ans /\ Answer(r, result, t).token <= issued'
                /\ Answer(r, result, t).to = r.from /\ Answer(r, result, t).id = r.id
  BY <1>1, NetFacts DEF Answer, Ans
<1>4. NetPart'
  <2>1. requests' \subseteq Req /\ answers' \subseteq Ans
    BY <1>2, <1>3, NetFacts DEF NetPart
  <2>2. \A a, c \in answers' : a.to = c.to /\ a.id = c.id => a = c
    BY <1>2, <1>3, NetFacts DEF NetPart
  <2>3. \A q \in requests', a \in answers' : q.live /\ q.from = a.to => q.id # a.id
    BY <1>2, <1>3, NetFacts DEF NetPart
  <2> QED
    BY <1>2, <2>1, <2>2, <2>3, NetFacts DEF NetPart
<1>5. IssuedPart'
  <2>1. \A x \in Nat : x <= issued => x <= issued'
    BY NetFacts
  <2> QED
    BY <1>2, <1>3, <2>1, NetFacts DEF IssuedPart
<1> QED
  BY <1>4, <1>5

LEMMA ReactsNet ==
    ASSUME ConsoleInv, Reacts
    PROVE  NetPart' /\ IssuedPart'
<1>1. PICK a \in answers : /\ Take(a) /\ UNCHANGED <<token, sessions>>
                           /\ UNCHANGED requests \/ \E what \in Requests : Resend(a, what)
  BY DEF Reacts
<1>2. answers' = answers \ {a} /\ UNCHANGED <<token, issued>>
  BY <1>1 DEF Take, sessions
<1>3. CASE UNCHANGED requests
  BY <1>2, <1>3, NetFacts DEF NetPart, IssuedPart
<1>4. CASE \E what \in Requests : Resend(a, what)
  <2>1. PICK what, q : /\ what \in Requests /\ q = Request(a.to, a.id, what, token[a.to])
                      /\ requests' = requests \cup {q}
    BY <1>4 DEF Resend
  <2>2. /\ q \in Req /\ q.live /\ q.from = a.to /\ q.id = a.id /\ q.id # 0
        /\ q.token = token[q.from] /\ q.token <= issued
    BY <2>1, NetFacts DEF Request, Req, IssuedPart
  <2>3. NetPart'
    <3>1. \A r, p \in requests' : r.live /\ p.live /\ r.from = p.from /\ r.id = p.id => r = p
      BY <2>1, <2>2, NetFacts DEF NetPart
    <3>2. \A r \in requests', c \in answers' : r.live /\ r.from = c.to => r.id # c.id
      BY <1>2, <2>1, <2>2, NetFacts DEF NetPart
    <3> QED
      BY <1>2, <2>1, <2>2, <3>1, <3>2, NetFacts DEF NetPart
  <2> QED
    BY <1>2, <2>1, <2>2, <2>3, NetFacts DEF IssuedPart
<1> QED
  BY <1>1, <1>3, <1>4

(* What is left of the network when browser b goes to another page.        *)
LEMMA GoToFacts ==
    ASSUME ConsoleInv, NEW b \in Browsers, NEW p, GoTo(b, p)
    PROVE  /\ answers' = {a \in answers : a.to # b}
           /\ \A r \in requests' :
                 \/ r \in requests /\ ~(r.from = b /\ r.live)
                 \/ r \in Req /\ ~r.live /\ r.token <= issued
                 \/ r = Request(b, 1, "load", 0)
           /\ /\ Request(b, 1, "load", 0) \in Req /\ Request(b, 1, "load", 0).live
              /\ Request(b, 1, "load", 0).from = b /\ Request(b, 1, "load", 0).id = 1
              /\ Request(b, 1, "load", 0).what = "load" /\ Request(b, 1, "load", 0).token = 0
<1>1. answers' = {a \in answers : a.to # b}
  BY DEF GoTo, OwnAnswers
<1>2. PICK S : /\ S \subseteq OwnRequests(b)
               /\ requests' = (requests \ OwnRequests(b)) \cup {Orphan(r) : r \in S}
                                  \cup {Request(b, 1, "load", 0)}
  BY DEF GoTo
<1>3. \A r \in S : Orphan(r) \in Req /\ ~Orphan(r).live /\ Orphan(r).token <= issued
  <2> SUFFICES ASSUME NEW r \in requests
               PROVE  Orphan(r) \in Req /\ ~Orphan(r).live /\ Orphan(r).token <= issued
    BY <1>2 DEF OwnRequests
  <2>1. r \in Req /\ r.token <= issued /\ 0 \in 0..Connections
    BY ConstantFacts, NetFacts DEF NetPart, IssuedPart
  <2> QED
    BY <2>1 DEF Orphan, Req
<1>4. /\ Request(b, 1, "load", 0) \in Req /\ Request(b, 1, "load", 0).live
      /\ Request(b, 1, "load", 0).from = b /\ Request(b, 1, "load", 0).id = 1
      /\ Request(b, 1, "load", 0).what = "load" /\ Request(b, 1, "load", 0).token = 0
  BY ConstantFacts DEF Request, Req, Requests
<1> QED
  BY <1>1, <1>2, <1>3, <1>4 DEF OwnRequests

LEMMA LeavesNet ==
    ASSUME ConsoleInv, Leaves
    PROVE  NetPart' /\ IssuedPart'
<1>1. PICK b \in Browsers, p \in Pages, t \in 0..issued :
         GoTo(b, p) /\ token' = [token EXCEPT ![b] = t] /\ UNCHANGED sessions
  BY DEF Leaves
<1>2. PICK q : q = Request(b, 1, "load", 0)
  OBVIOUS
<1>3. /\ answers' = {a \in answers : a.to # b}
      /\ \A r \in requests' : \/ r \in requests /\ ~(r.from = b /\ r.live)
                              \/ r \in Req /\ ~r.live /\ r.token <= issued
                              \/ r = q
      /\ q \in Req /\ q.live /\ q.from = b /\ q.id = 1 /\ q.what = "load" /\ q.token = 0
  BY <1>1, <1>2, GoToFacts
<1>4. /\ UNCHANGED issued /\ issued \in Nat /\ token \in [Browsers -> Nat] /\ t \in Nat /\ t <= issued
      /\ \A x \in Browsers : token'[x] = (IF x = b THEN t ELSE token[x])
  BY <1>1, NetFacts DEF sessions
<1>5. NetPart'
  <2>1. requests' \subseteq Req /\ answers' \subseteq Ans
    BY <1>3, NetFacts DEF NetPart
  <2>2. \A r \in requests' : r.live => r.id # 0
    BY <1>3, NetFacts DEF NetPart
  <2>3. \A r, s \in requests' : r.live /\ s.live /\ r.from = s.from /\ r.id = s.id => r = s
    BY <1>3, NetFacts DEF NetPart
  <2>4. \A a, c \in answers' : a.to = c.to /\ a.id = c.id => a = c
    BY <1>3, NetFacts DEF NetPart
  <2>5. \A r \in requests', a \in answers' : r.live /\ r.from = a.to => r.id # a.id
    BY <1>3, NetFacts DEF NetPart
  <2>6. \A r \in requests' : r.live /\ r.what = "logout" => r.token = token'[r.from]
    BY <1>3, <1>4, NetFacts DEF NetPart
  <2> QED
    BY <2>1, <2>2, <2>3, <2>4, <2>5, <2>6 DEF NetPart
<1>6. IssuedPart'
  BY <1>3, <1>4, NetFacts DEF IssuedPart
<1> QED
  BY <1>5, <1>6

LEMMA SendsNet ==
    ASSUME ConsoleInv, Sends
    PROVE  NetPart' /\ IssuedPart'
<1>1. PICK b, what, t :
         /\ b \in Browsers /\ what \in Requests /\ t \in {0, token[b]}
         /\ Send(b, what, t) /\ (what = "logout" => t = token[b])
         /\ UNCHANGED <<answers, token, sessions>>
  BY DEF Sends
<1>2. PICK id, q :
         id \in (1..Connections) \ InUse(b) /\ q = Request(b, id, what, t) /\ requests' = requests \cup {q}
  BY <1>1 DEF Send
<1>3. /\ q \in Req /\ q.live /\ q.from = b /\ q.id = id /\ q.id # 0 /\ q.what = what
      /\ q.token = t /\ q.token <= issued
  BY <1>1, <1>2, ConstantFacts, NetFacts DEF Request, Req, IssuedPart
<1>4. /\ \A r \in requests : r.live /\ r.from = b => r.id # id
      /\ \A a \in answers : a.to = b => a.id # id
  BY <1>2 DEF InUse, OwnRequests, OwnAnswers
<1>5. NetPart'
  <2>1. \A r, s \in requests' : r.live /\ s.live /\ r.from = s.from /\ r.id = s.id => r = s
    BY <1>2, <1>3, <1>4, NetFacts DEF NetPart
  <2>2. \A r \in requests', a \in answers' : r.live /\ r.from = a.to => r.id # a.id
    BY <1>1, <1>2, <1>3, <1>4, NetFacts DEF NetPart
  <2> QED
    BY <1>1, <1>2, <1>3, <2>1, <2>2, NetFacts DEF NetPart
<1> QED
  BY <1>1, <1>2, <1>3, <1>5, NetFacts DEF IssuedPart, sessions

LEMMA BreaksNet ==
    ASSUME ConsoleInv, ConnectionBreaks
    PROVE  /\ NetPart' /\ IssuedPart'
           /\ UNCHANGED <<sessions, httpd, spare, view>>
           /\ \A a \in answers' : a \in answers \/ a.result = "error"
<1>1. UNCHANGED <<sessions, httpd, spare, view>> /\ UNCHANGED <<token, issued>>
  BY DEF ConnectionBreaks, view, sessions
<1>2. CASE \E r \in requests :
             /\ r.live
             /\ requests' = requests \ {r}
             /\ answers' = answers \cup {Answer(r, "error", 0)}
  <2>1. PICK r, c : /\ r \in requests /\ r.live /\ requests' = requests \ {r}
                   /\ c = Answer(r, "error", 0) /\ answers' = answers \cup {c}
    BY <1>2
  <2>2. c \in Ans /\ c.to = r.from /\ c.id = r.id /\ c.token = 0 /\ c.result = "error"
    BY <2>1, NetFacts DEF Answer, Ans, Results
  <2>3. NetPart'
    BY <1>1, <2>1, <2>2, NetFacts DEF NetPart
  <2> QED
    BY <1>1, <2>1, <2>2, <2>3, NetFacts DEF IssuedPart
<1>3. CASE \E a \in answers :
             /\ a.result # "error"
             /\ answers' = (answers \ {a}) \cup {[a EXCEPT !.result = "error", !.token = 0]}
             /\ UNCHANGED requests
  <2>1. PICK a, c : /\ a \in answers /\ c = [a EXCEPT !.result = "error", !.token = 0]
                   /\ answers' = (answers \ {a}) \cup {c} /\ UNCHANGED requests
    BY <1>3
  <2>2. c \in Ans /\ c.to = a.to /\ c.id = a.id /\ c.token = 0 /\ c.result = "error"
    BY <2>1, NetFacts DEF NetPart, Ans, Results
  <2>3. \A d \in answers' : d = c \/ (d \in answers /\ d # a)
    BY <2>1
  <2>4. NetPart'
    <3>1. answers' \subseteq Ans
      BY <2>2, <2>3, NetFacts DEF NetPart
    <3>2. \A d, f \in answers' : d.to = f.to /\ d.id = f.id => d = f
      <4>1. \A d \in answers : d.to = a.to /\ d.id = a.id => d = a
        BY <2>1 DEF ConsoleInv, NetPart
      <4> QED
        BY <2>2, <2>3, <4>1 DEF ConsoleInv, NetPart
    <3>3. \A d \in answers' : \E e \in answers : d.to = e.to /\ d.id = e.id
      BY <2>1, <2>2, <2>3
    <3>4. requests' = requests
      BY <2>1
    <3>5. \A r \in requests', d \in answers' : r.live /\ r.from = d.to => r.id # d.id
      BY <3>3, <3>4, NetFacts DEF NetPart
    <3>6. /\ requests' \subseteq Req /\ \A r \in requests' : r.live => r.id # 0
          /\ \A r, q \in requests' : r.live /\ q.live /\ r.from = q.from /\ r.id = q.id => r = q
          /\ \A r \in requests' : r.live /\ r.what = "logout" => r.token = token[r.from]
      BY <3>4, NetFacts DEF NetPart
    <3>7. token' = token
      BY <1>1
    <3> QED
      BY <3>1, <3>2, <3>5, <3>6, <3>7 DEF NetPart
  <2>5. IssuedPart'
    <3>1. requests' = requests /\ token' = token /\ issued' = issued /\ issued \in Nat
      BY <1>1, <2>1, NetFacts
    <3>2. \A d \in answers' : d.token <= issued
      BY <2>2, <2>3, <3>1, NetFacts DEF IssuedPart
    <3> QED
      BY <3>1, <3>2, NetFacts DEF IssuedPart
  <2> QED
    BY <1>1, <2>2, <2>3, <2>4, <2>5
<1> QED
  BY <1>1, <1>2, <1>3 DEF ConnectionBreaks

LEMMA RestartNet ==
    ASSUME ConsoleInv, NodeRestarts
    PROVE  /\ NetPart' /\ IssuedPart' /\ UNCHANGED view
           /\ \A a \in answers' : a \in answers \/ a.result = "error"
<1>1. /\ UNCHANGED view /\ UNCHANGED <<token, issued>> /\ requests' = {}
      /\ answers' = answers \cup {Answer(r, "error", 0) : r \in {q \in requests : q.live}}
  BY DEF NodeRestarts, view
<1>2. \A c \in answers' : \/ c \in answers
                          \/ \E r \in requests : r.live /\ c = Answer(r, "error", 0)
  BY <1>1
<1>3. \A r \in requests : r.live => /\ Answer(r, "error", 0) \in Ans
                                    /\ Answer(r, "error", 0).to = r.from
                                    /\ Answer(r, "error", 0).id = r.id
                                    /\ Answer(r, "error", 0).token = 0
                                    /\ Answer(r, "error", 0).result = "error"
  BY NetFacts DEF Answer, Ans, Results
<1>4. \A a, c \in answers' : a.to = c.to /\ a.id = c.id => a = c
  BY <1>2, <1>3, NetFacts DEF NetPart
<1>5. NetPart'
  BY <1>1, <1>2, <1>3, <1>4, NetFacts DEF NetPart
<1> QED
  BY <1>1, <1>2, <1>3, <1>5, NetFacts DEF IssuedPart

LEMMA ConsoleStep ==
    ASSUME ConsoleInv, [Next]_vars
    PROVE  ConsoleInv'
<1>0. SessionPart /\ ViewPart /\ NetPart /\ IssuedPart /\ ServerPart /\ issued \in Nat
  BY NetFacts DEF ConsoleInv
<1>1. ASSUME Quiet PROVE NetPart' /\ IssuedPart'
  BY <1>0, <1>1 DEF Quiet, NetPart, IssuedPart, sessions
<1>2. ASSUME UNCHANGED <<sessions, httpd, spare>> PROVE SessionPart' /\ ServerPart'
  BY <1>0, <1>2 DEF SessionPart, ServerPart, sessions
<1>3. ASSUME UNCHANGED view PROVE ViewPart'
  BY <1>0, <1>3 DEF view, ViewPart
<1>4. CASE \E r \in requests : Handle(r)
  <2>1. /\ Responds \/ Quiet
        /\ UNCHANGED view /\ SessionPart' /\ issued <= issued' /\ ServerPart'
    BY <1>4, HandleShape
  <2>2. issued' \in Nat
    BY <2>1 DEF SessionPart
  <2> QED
    BY <1>1, <1>3, <2>1, <2>2, RespondsNet DEF ConsoleInv
<1>5. CASE \E a \in answers : Receive(a)
  BY <1>2, <1>5, ReceiveShape, ReactsNet, LeavesNet DEF ConsoleInv
<1>6. CASE \E b \in Browsers : User(b)
  BY <1>1, <1>2, <1>6, UserShape, LeavesNet, SendsNet DEF ConsoleInv
<1>7. CASE ConnectionBreaks
  BY <1>2, <1>3, <1>7, BreaksNet DEF ConsoleInv
<1>8. CASE NodeRestarts
  <2>1. SessionPart'
    <3>1. open' = {} /\ UNCHANGED issued
      BY <1>8 DEF NodeRestarts
    <3> QED
      BY <1>0, <3>1, ConstantFacts, FS_EmptySet DEF SessionPart
  <2>2. ServerPart'
    BY <1>8, ConstantFacts DEF NodeRestarts, ServerPart
  <2> QED
    BY <1>3, <1>8, <2>1, <2>2, RestartNet DEF ConsoleInv
<1>9. CASE UNCHANGED vars
  <2>1. Quiet /\ UNCHANGED view /\ UNCHANGED <<sessions, httpd, spare>>
    BY <1>9 DEF vars, view, Quiet
  <2> QED
    BY <1>1, <1>2, <1>3, <2>1 DEF ConsoleInv
<1> QED
  BY <1>4, <1>5, <1>6, <1>7, <1>8, <1>9 DEF Next

LEMMA ConsoleInitial == Init => ConsoleInv
<1> SUFFICES ASSUME Init PROVE ConsoleInv
  OBVIOUS
<1>1. open = {} /\ issued = 0
  BY DEF Init, Sessions!Init
<1>2. SessionPart
  BY <1>1, ConstantFacts, FS_EmptySet DEF SessionPart
<1>3. ViewPart
  BY DEF Init, ViewPart, Pages
<1>4. ServerPart
  BY ConstantFacts DEF Init, ServerPart
<1>5. /\ answers = {} /\ \A r \in requests : \E b \in Browsers : r = Request(b, 1, "load", 0)
      /\ \A b \in Browsers : token[b] = 0
  BY DEF Init
<1>6. \A b \in Browsers : /\ Request(b, 1, "load", 0) \in Req
                          /\ Request(b, 1, "load", 0).from = b
                          /\ Request(b, 1, "load", 0).id = 1
                          /\ Request(b, 1, "load", 0).what = "load"
                          /\ Request(b, 1, "load", 0).token = 0
  BY ConstantFacts DEF Request, Req, Requests
<1>7. NetPart
  BY <1>5, <1>6 DEF NetPart
<1>8. IssuedPart
  BY <1>1, <1>5, <1>6 DEF IssuedPart
<1> QED
  BY <1>2, <1>3, <1>4, <1>7, <1>8 DEF ConsoleInv

LEMMA ConsoleInvariant == Spec => []ConsoleInv
BY ConsoleInitial, ConsoleStep, PTL DEF Spec

(* Every variable holds a value its writers allow, no more sessions are    *)
(* open than there is room for, and a page's requests and answers are on   *)
(* different connections.                                                  *)
THEOREM TypeCorrect == Spec => []TypeOK
<1>1. ConsoleInv => TypeOK
  <2> SUFFICES ASSUME ConsoleInv PROVE TypeOK
    OBVIOUS
  <2>1. SessionPart /\ ViewPart /\ NetPart /\ IssuedPart /\ ServerPart
    BY DEF ConsoleInv
  <2>2. token \in [Browsers -> 0..issued]
    BY <2>1 DEF ViewPart, IssuedPart, SessionPart
  <2>3. requests \subseteq [from : Browsers, id : 0..Connections, what : Requests,
                            token : 0..issued, live : BOOLEAN]
    BY <2>1 DEF NetPart, IssuedPart, SessionPart, Req
  <2>4. answers \subseteq [to : Browsers, id : 1..Connections, what : Requests,
                           result : {"ok", "refused", "error"}, token : 0..issued]
    BY <2>1 DEF NetPart, IssuedPart, SessionPart, Ans, Results
  <2>5. \A b \in Browsers : \A r \in OwnRequests(b) : \A a \in OwnAnswers(b) : r.id # a.id
    BY <2>1 DEF NetPart, OwnRequests, OwnAnswers
  <2> QED
    BY <2>1, <2>2, <2>3, <2>4, <2>5 DEF TypeOK, SessionPart, ViewPart, ServerPart
<1> QED
  BY <1>1, ConsoleInvariant, PTL

-----------------------------------------------------------------------------
(***************************************************************************)
(* Logging out.                                                            *)
(***************************************************************************)
LEMMA LogoutStep ==
    ASSUME ConsoleInv, AnsweredLogoutEndsSession, [Next]_vars
    PROVE  AnsweredLogoutEndsSession'
<1> DEFINE Ended(a) == a.what = "logout" /\ a.result # "error" => token[a.to] \notin open
<1>0. /\ \A a \in answers : Ended(a)
      /\ \A b \in Browsers : token[b] \in 0..issued
  BY NetFacts DEF AnsweredLogoutEndsSession, IssuedPart
<1>1. ASSUME \A a \in answers' : a \in answers \/ a.result = "error",
             UNCHANGED token, open' \subseteq open
      PROVE  AnsweredLogoutEndsSession'
  BY <1>0, <1>1 DEF AnsweredLogoutEndsSession
<1>2. CASE \E r \in requests : Handle(r)
  <2>1. /\ Responds \/ Quiet
        /\ UNCHANGED view /\ \A t \in 0..issued : t \in open' => t \in open
    BY <1>2, HandleShape
  <2>2. CASE Quiet
    BY <1>1, <2>2 DEF Quiet, sessions
  <2>3. CASE Responds
    <3>1. PICK r \in requests, result \in Results, t \in {0, issued'} :
                   /\ Respond(r, result, t)
                   /\ r.what = "logout" => r.token \notin open'
      BY <2>3 DEF Responds
    <3>2. \A a \in answers' : a \in answers \/ (r.live /\ a = Answer(r, result, t))
      BY <3>1 DEF Respond
    <3>3. Answer(r, result, t).what = r.what /\ Answer(r, result, t).to = r.from
      BY DEF Answer
    <3>4. r.live /\ r.what = "logout" => r.token = token[r.from]
      BY NetFacts DEF NetPart
    <3>5. UNCHANGED token
      BY <2>1 DEF view
    <3>6. \A a \in answers : a.to \in Browsers
      BY NetFacts
    <3> QED
      BY <1>0, <2>1, <3>1, <3>2, <3>3, <3>4, <3>5, <3>6 DEF AnsweredLogoutEndsSession
  <2> QED
    BY <2>1, <2>2, <2>3
<1>3. CASE Reacts \/ Sends \/ Quiet
  BY <1>1, <1>3 DEF Reacts, Sends, Quiet, Take, sessions
<1>4. CASE Leaves
  <2>1. PICK b \in Browsers, p \in Pages, t \in 0..issued :
           GoTo(b, p) /\ token' = [token EXCEPT ![b] = t] /\ UNCHANGED sessions
    BY <1>4 DEF Leaves
  <2>2. answers' = {a \in answers : a.to # b}
    BY <2>1, GoToFacts
  <2>3. \A a \in answers' : token'[a.to] = token[a.to]
    BY <2>1, <2>2, NetFacts
  <2> QED
    BY <1>0, <2>1, <2>2, <2>3 DEF AnsweredLogoutEndsSession, sessions
<1>5. CASE ConnectionBreaks
  BY <1>1, <1>5, BreaksNet DEF sessions, view
<1>6. CASE NodeRestarts
  <2>1. open' = {}
    BY <1>6 DEF NodeRestarts
  <2> QED
    BY <1>1, <1>6, <2>1, RestartNet DEF view
<1>7. CASE UNCHANGED vars
  BY <1>3, <1>7 DEF vars, view, Quiet
<1> QED
  BY <1>2, <1>3, <1>4, <1>5, <1>6, <1>7, ReceiveShape, UserShape DEF Next

(* When the server has answered a logout, with whatever result, the        *)
(* session of the token its page still holds is over.                      *)
THEOREM AnsweredLogoutEndsSessionHolds == Spec => []AnsweredLogoutEndsSession
<1>1. Init => AnsweredLogoutEndsSession
  BY DEF Init, AnsweredLogoutEndsSession
<1> QED
  BY <1>1, LogoutStep, ConsoleInvariant, PTL DEF Spec

-----------------------------------------------------------------------------
(***************************************************************************)
(* Open pages.                                                             *)
(***************************************************************************)
(* What OpenPageIsAuthorised says of one page.                             *)
Checking(b) == Waits(b, "check")
Let(b) == page[b] # "login" /\ phase[b] = "run" => authorised[b] \/ Checking(b)

LEMMA WaitsIs ==
    ASSUME NEW b, NEW what
    PROVE  /\ Waits(b, what) <=>
                \/ \E r \in requests : r.from = b /\ r.live /\ r.what = what
                \/ \E a \in answers : a.to = b /\ a.what = what
           /\ Waits(b, what)' <=>
                \/ \E r \in requests' : r.from = b /\ r.live /\ r.what = what
                \/ \E a \in answers' : a.to = b /\ a.what = what
BY DEF Waits, OwnRequests, OwnAnswers

(* What a page waits for is not forgotten: every step on the network keeps *)
(* the request or turns it into its answer, but the page taking that       *)
(* answer.                                                                 *)
LEMMA WaitKept ==
    ASSUME ConsoleInv, NEW b \in Browsers, NEW what \in Requests,
           \/ Responds \/ Sends \/ Quiet \/ ConnectionBreaks \/ NodeRestarts
           \/ \E x \in Browsers, p \in Pages : x # b /\ GoTo(x, p)
           \/ \E a \in answers : /\ Take(a) /\ (a.to = b => a.what # what)
                                 /\ UNCHANGED requests \/ \E w : Resend(a, w)
    PROVE  Waits(b, what) => Waits(b, what)'
<1>1. CASE Responds
  <2>1. PICK r \in requests, result \in Results, t \in {0, issued'} : Respond(r, result, t)
    BY <1>1 DEF Responds
  <2>2. Answer(r, result, t).to = r.from /\ Answer(r, result, t).what = r.what
    BY DEF Answer
  <2>3. /\ requests' = requests \ {r}
        /\ answers' = IF r.live THEN answers \cup {Answer(r, result, t)} ELSE answers
    BY <2>1 DEF Respond
  <2> QED
    BY <2>2, <2>3, WaitsIs
<1>2. CASE Sends \/ Quiet
  BY <1>2, WaitsIs DEF Sends, Send, Quiet
<1>3. CASE ConnectionBreaks
  <2>1. CASE \E r \in requests :
               /\ r.live
               /\ requests' = requests \ {r}
               /\ answers' = answers \cup {Answer(r, "error", 0)}
    <3>1. \A r : Answer(r, "error", 0).to = r.from /\ Answer(r, "error", 0).what = r.what
      BY DEF Answer
    <3> QED
      BY <2>1, <3>1, WaitsIs
  <2>2. CASE \E a \in answers :
               /\ a.result # "error"
               /\ answers' = (answers \ {a}) \cup {[a EXCEPT !.result = "error", !.token = 0]}
               /\ UNCHANGED requests
    <3>1. PICK a, c : /\ a \in answers /\ c = [a EXCEPT !.result = "error", !.token = 0]
                      /\ answers' = (answers \ {a}) \cup {c} /\ UNCHANGED requests
      BY <2>2
    <3>2. c.to = a.to /\ c.what = a.what
      BY <3>1, NetFacts DEF NetPart, Ans
    <3>3. \A d \in answers : \E e \in answers' : e.to = d.to /\ e.what = d.what
      BY <3>1, <3>2
    <3>4. requests' = requests
      BY <3>1
    <3> QED
      BY <3>3, <3>4, WaitsIs
  <2> QED
    BY <1>3, <2>1, <2>2 DEF ConnectionBreaks
<1>4. CASE NodeRestarts
  <2>1. answers' = answers \cup {Answer(r, "error", 0) : r \in {q \in requests : q.live}}
    BY <1>4 DEF NodeRestarts
  <2>2. \A r \in requests : r.live => Answer(r, "error", 0) \in answers'
    BY <2>1
  <2>3. \A r : Answer(r, "error", 0).to = r.from /\ Answer(r, "error", 0).what = r.what
    BY DEF Answer
  <2> QED
    BY <2>1, <2>2, <2>3, WaitsIs
<1>5. CASE \E x \in Browsers, p \in Pages : x # b /\ GoTo(x, p)
  <2>1. PICK x \in Browsers, p \in Pages : x # b /\ GoTo(x, p)
    BY <1>5
  <2>2. /\ \A r \in requests : r.from = b => r \in requests'
        /\ \A a \in answers : a.to = b => a \in answers'
    BY <2>1 DEF GoTo, OwnRequests, OwnAnswers
  <2> QED
    BY <2>2, WaitsIs
<1>6. CASE \E a \in answers : /\ Take(a) /\ (a.to = b => a.what # what)
                              /\ UNCHANGED requests \/ \E w : Resend(a, w)
  BY <1>6, WaitsIs DEF Take, Resend
<1> QED
  BY <1>1, <1>2, <1>3, <1>4, <1>5, <1>6

LEMMA CheckKept ==
    ASSUME ConsoleInv, NEW b \in Browsers,
           \/ Responds \/ Sends \/ Quiet \/ ConnectionBreaks \/ NodeRestarts
           \/ \E x \in Browsers, p \in Pages : x # b /\ GoTo(x, p)
           \/ \E a \in answers : /\ Take(a) /\ (a.to = b => a.what # "check")
                                 /\ UNCHANGED requests \/ \E w : Resend(a, w)
    PROVE  Checking(b) => Checking(b)'
<1>1. "check" \in Requests
  BY DEF Requests
<1> QED
  BY <1>1, WaitKept DEF Checking

LEMMA PageLeft ==
    ASSUME ConsoleInv, NEW b \in Browsers, NEW x \in Browsers, NEW p \in Pages, GoTo(x, p),
           Let(b)
    PROVE  Let(b)'
<1>1. CASE x = b
  <2>1. phase'[b] = "loading"
    BY <1>1 DEF GoTo, ConsoleInv, ViewPart
  <2> QED
    BY <2>1 DEF Let
<1>2. CASE x # b
  <2>1. page'[b] = page[b] /\ phase'[b] = phase[b] /\ authorised'[b] = authorised[b]
    BY <1>2 DEF GoTo, ConsoleInv, ViewPart
  <2> QED
    BY <1>2, <2>1, CheckKept DEF Let
<1> QED
  BY <1>1, <1>2

LEMMA ReceiveLets ==
    ASSUME ConsoleInv, NEW b \in Browsers, NEW a \in answers, Receive(a), Let(b)
    PROVE  Let(b)'
<1>0. a.to \in Browsers /\ ViewPart
  BY NetFacts DEF ConsoleInv
<1>1. ASSUME NEW p \in Pages, GoTo(a.to, p) PROVE Let(b)'
  BY <1>0, <1>1, PageLeft
<1>2. ASSUME Take(a), UNCHANGED requests \/ (\E what : Resend(a, what)),
             a.to = b => a.what # "check",
             UNCHANGED <<page, phase, authorised>>
      PROVE  Let(b)'
  BY <1>2, CheckKept DEF Let
<1>3. CASE Loads(a)
  <2>1. CASE a.to # b
    <3>1. Take(a) /\ (UNCHANGED requests \/ Resend(a, "check"))
      BY <1>3 DEF Loads, OnLoad
    <3>2. \E ph : SetPhase(a.to, ph)
      BY <1>3 DEF Loads, OnLoad
    <3>3. page'[b] = page[b] /\ phase'[b] = phase[b] /\ authorised'[b] = authorised[b]
      BY <1>0, <2>1, <3>2 DEF SetPhase, ViewPart
    <3> QED
      BY <2>1, <3>1, <3>3, CheckKept DEF Let
  <2>2. CASE a.to = b
    <3>1. CASE page[b] # "login" /\ a.result = "ok"
      <4>1. Resend(a, "check")
        BY <1>3, <2>2, <3>1 DEF Loads, OnLoad
      <4>2. Request(b, a.id, "check", token[b]) \in requests'
        BY <2>2, <4>1 DEF Resend
      <4>3. /\ Request(b, a.id, "check", token[b]).from = b
            /\ Request(b, a.id, "check", token[b]).live
            /\ Request(b, a.id, "check", token[b]).what = "check"
        BY DEF Request
      <4> QED
        BY <4>2, <4>3, WaitsIs DEF Let, Checking
    <3>2. CASE page[b] = "login"
      <4>1. page' = page
        BY <1>3 DEF Loads, OnLoad, SetPhase
      <4> QED
        BY <3>2, <4>1 DEF Let
    <3>3. CASE a.result # "ok"
      <4>1. phase'[b] = "dead"
        BY <1>0, <1>3, <2>2, <3>3 DEF Loads, SetPhase, ViewPart
      <4> QED
        BY <4>1 DEF Let
    <3> QED
      BY <3>1, <3>2, <3>3
  <2> QED
    BY <2>1, <2>2
<1>4. CASE LoginChecked(a)
  <2>1. CASE a.result = "ok"
    BY <1>1, <1>4, <2>1 DEF Pages, LoginChecked
  <2>2. CASE a.result # "ok"
    <3>1. /\ Take(a) /\ SetPhase(a.to, "form") /\ UNCHANGED requests /\ page[a.to] = "login"
      BY <1>4, <2>2 DEF LoginChecked
    <3>2. page' = page /\ authorised' = authorised
          /\ phase'[b] = IF a.to = b THEN "form" ELSE phase[b]
      BY <1>0, <3>1 DEF SetPhase, ViewPart
    <3>3. CASE a.to = b
      BY <3>2, <3>3 DEF Let
    <3>4. CASE a.to # b
      BY <3>1, <3>2, <3>4, CheckKept DEF Let
    <3> QED
      BY <3>3, <3>4
  <2> QED
    BY <2>1, <2>2
<1>5. CASE PageChecked(a)
  <2>1. CASE a.result = "ok"
    <3>1. /\ authorised' = [authorised EXCEPT ![a.to] = TRUE] /\ Take(a)
          /\ UNCHANGED <<page, phase, requests>>
      BY <1>5, <2>1 DEF PageChecked
    <3>2. CASE a.to = b
      <4>1. authorised'[b]
        BY <1>0, <3>1, <3>2 DEF ViewPart
      <4> QED
        BY <4>1 DEF Let
    <3>3. CASE a.to # b
      <4>1. authorised'[b] = authorised[b]
        BY <1>0, <3>1, <3>3 DEF ViewPart
      <4> QED
        BY <3>1, <3>3, <4>1, CheckKept DEF Let
    <3> QED
      BY <3>2, <3>3
  <2>2. CASE a.result # "ok"
    BY <1>1, <1>5, <2>2 DEF Pages, PageChecked
  <2> QED
    BY <2>1, <2>2
<1>6. CASE LoggedIn(a)
  <2>1. CASE a.result = "ok"
    BY <1>1, <1>6, <2>1 DEF Pages, LoggedIn
  <2>2. CASE a.result # "ok"
    BY <1>2, <1>6, <2>2 DEF LoggedIn, view
  <2> QED
    BY <2>1, <2>2
<1>7. CASE LoggedOut(a)
  BY <1>1, <1>7 DEF Pages, LoggedOut
<1>8. CASE Uploaded(a)
  BY <1>2, <1>8 DEF Uploaded, Shows, view
<1>9. CASE Finalized(a)
  BY <1>2, <1>9 DEF Finalized, Shows
<1> QED
  BY <1>3, <1>4, <1>5, <1>6, <1>7, <1>8, <1>9 DEF Receive

LEMMA UserLets ==
    ASSUME ConsoleInv, NEW b \in Browsers, NEW x \in Browsers, User(x), Let(b)
    PROVE  Let(b)'
<1>1. CASE \E p \in Pages : GoTo(x, p)
  BY <1>1, PageLeft
<1>2. CASE UNCHANGED <<page, phase, authorised>>
           /\ (\E what, t : Send(x, what, t) \/ UNCHANGED requests) /\ UNCHANGED answers
  <2>1. Checking(b) => Checking(b)'
    BY <1>2, WaitsIs DEF Send, Checking
  <2> QED
    BY <1>2, <2>1 DEF Let
<1>3. CASE Submit(x)
  BY <1>2, <1>3 DEF Submit, view
<1>4. CASE ClickLogout(x)
  BY <1>1, <1>2, <1>4 DEF Pages, ClickLogout, view
<1>5. CASE CloseTab(x) \/ \E p \in Pages : ClickPage(x, p)
  BY <1>1, <1>5 DEF Pages, CloseTab, ClickPage
<1>6. CASE SelectFile(x)
  BY <1>2, <1>6 DEF SelectFile, Shows
<1>7. CASE ClickUpdate(x)
  BY <1>2, <1>7 DEF ClickUpdate
<1> QED
  BY <1>3, <1>4, <1>5, <1>6, <1>7 DEF User

LEMMA OpenPageStep ==
    ASSUME ConsoleInv, OpenPageIsAuthorised, [Next]_vars
    PROVE  OpenPageIsAuthorised'
<1> SUFFICES ASSUME NEW b \in Browsers PROVE Let(b)'
  BY DEF OpenPageIsAuthorised, Let, Checking
<1>1. Let(b)
  BY DEF OpenPageIsAuthorised, Let, Checking
<1>2. ASSUME UNCHANGED view, Responds \/ Quiet \/ ConnectionBreaks \/ NodeRestarts
      PROVE  Let(b)'
  BY <1>1, <1>2, CheckKept DEF Let, view
<1>3. CASE \E r \in requests : Handle(r)
  BY <1>2, <1>3, HandleShape
<1>4. CASE \E a \in answers : Receive(a)
  BY <1>1, <1>4, ReceiveLets
<1>5. CASE \E x \in Browsers : User(x)
  BY <1>1, <1>5, UserLets
<1>6. CASE ConnectionBreaks \/ NodeRestarts
  BY <1>2, <1>6, BreaksNet, RestartNet
<1>7. CASE UNCHANGED vars
  BY <1>2, <1>7 DEF vars, view, Quiet
<1> QED
  BY <1>3, <1>4, <1>5, <1>6, <1>7 DEF Next

(* A dashboard or OTA page stays open only for a token the server has      *)
(* accepted since it was loaded, unless it is still being asked: no broken *)
(* connection, restart or click opens one without.                         *)
THEOREM OpenPageIsAuthorisedHolds == Spec => []OpenPageIsAuthorised
<1>1. Init => OpenPageIsAuthorised
  BY DEF Init, OpenPageIsAuthorised
<1> QED
  BY <1>1, OpenPageStep, ConsoleInvariant, PTL DEF Spec

-----------------------------------------------------------------------------
(***************************************************************************)
(* Pages at rest.  PagesComeToRest is a liveness property; what follows    *)
(* says what rest means: a page that shows neither its form nor its        *)
(* content still waits for what will make it do so.                        *)
(***************************************************************************)
Starting(b) ==
    /\ phase[b] = "loading" => Waits(b, "load")
    /\ phase[b] = "checking" => Waits(b, "check")
    /\ phase[b] = "run" => page[b] # "login"
    /\ phase[b] \in {"checking", "form"} => page[b] = "login"

StartingInv == \A b \in Browsers : Starting(b)

(* A page with nothing under way shows the login form, or is a dashboard   *)
(* or OTA page whose token the server has accepted, or could not be loaded.*)
RestIsSettled ==
    \A b \in Browsers :
        AtRest(b) =>
            \/ phase[b] = "dead"
            \/ page[b] = "login" /\ phase[b] = "form"
            \/ page[b] # "login" /\ phase[b] = "run" /\ authorised[b]

LEMMA RequestNames ==
    /\ "load" \in Requests /\ "check" \in Requests /\ "login" \in Pages
    /\ "dashboard" \in Pages /\ "dashboard" # "login"
BY DEF Requests, Pages

(* A browser that goes to a page waits for it; the others are not touched. *)
LEMMA StartingLeft ==
    ASSUME ConsoleInv, NEW b \in Browsers, NEW x \in Browsers, NEW p \in Pages, GoTo(x, p),
           Starting(b)
    PROVE  Starting(b)'
<1>1. CASE x = b
  <2>1. phase'[b] = "loading"
    BY <1>1 DEF GoTo, ConsoleInv, ViewPart
  <2>2. Request(b, 1, "load", 0) \in requests'
    BY <1>1 DEF GoTo
  <2>3. Waits(b, "load")'
    <3>1. /\ Request(b, 1, "load", 0).from = b /\ Request(b, 1, "load", 0).live
          /\ Request(b, 1, "load", 0).what = "load"
      BY DEF Request
    <3> QED
      BY <2>2, <3>1, WaitsIs
  <2> QED
    BY <2>1, <2>3 DEF Starting
<1>2. CASE x # b
  <2>1. page'[b] = page[b] /\ phase'[b] = phase[b]
    BY <1>2 DEF GoTo, ConsoleInv, ViewPart
  <2>2. \A what \in Requests : Waits(b, what) => Waits(b, what)'
    BY <1>2, WaitKept
  <2> QED
    BY <2>1, <2>2, RequestNames DEF Starting
<1> QED
  BY <1>1, <1>2

(* A step that takes an answer of another kind, or of another page, leaves *)
(* what a page waits for.                                                  *)
LEMMA StartingKept ==
    ASSUME ConsoleInv, NEW b \in Browsers, Starting(b),
           page'[b] = page[b], phase'[b] = phase[b],
           \/ Responds \/ Sends \/ Quiet \/ ConnectionBreaks \/ NodeRestarts
           \/ \E a \in answers : /\ Take(a)
                                 /\ a.to = b => a.what \notin {"load", "check"}
                                 /\ UNCHANGED requests \/ \E w : Resend(a, w)
    PROVE  Starting(b)'
<1>1. ASSUME NEW what \in {"load", "check"} PROVE Waits(b, what) => Waits(b, what)'
  <2>1. what \in Requests
    BY DEF Requests
  <2>2. \/ Responds \/ Sends \/ Quiet \/ ConnectionBreaks \/ NodeRestarts
        \/ \E a \in answers : /\ Take(a)
                              /\ a.to = b => a.what # what
                              /\ UNCHANGED requests \/ \E w : Resend(a, w)
    OBVIOUS
  <2> QED
    BY <2>1, <2>2, WaitKept
<1> QED
  BY <1>1 DEF Starting

LEMMA ReceiveStarting ==
    ASSUME ConsoleInv, NEW b \in Browsers, NEW a \in answers, Receive(a), Starting(b)
    PROVE  Starting(b)'
<1>0. a.to \in Browsers /\ ViewPart
  BY NetFacts DEF ConsoleInv
<1>1. ASSUME NEW p \in Pages, GoTo(a.to, p) PROVE Starting(b)'
  BY <1>0, <1>1, StartingLeft
<1>2. ASSUME Take(a), UNCHANGED requests \/ (\E w : Resend(a, w)),
             a.to = b => a.what \notin {"load", "check"},
             page'[b] = page[b], phase'[b] = phase[b]
      PROVE  Starting(b)'
  BY <1>2, StartingKept
<1>3. CASE Loads(a)
  <2>1. Take(a) /\ (UNCHANGED requests \/ Resend(a, "check"))
    BY <1>3 DEF Loads, OnLoad
  <2>2. CASE a.to # b
    <3>1. \E ph : SetPhase(a.to, ph)
      BY <1>3 DEF Loads, OnLoad
    <3>2. page'[b] = page[b] /\ phase'[b] = phase[b]
      BY <1>0, <2>2, <3>1 DEF SetPhase, ViewPart
    <3> QED
      BY <1>2, <2>1, <2>2, <3>2
  <2>3. CASE a.to = b
    <3>1. CASE page[b] # "login" /\ a.result = "ok"
      <4>1. phase'[b] = "run" /\ page'[b] # "login"
        BY <1>0, <1>3, <2>3, <3>1 DEF Loads, OnLoad, SetPhase, ViewPart
      <4> QED
        BY <4>1 DEF Starting
    <3>2. CASE page[b] = "login" /\ a.result = "ok" /\ token[b] # 0
      <4>1. phase'[b] = "checking" /\ page'[b] = "login" /\ Resend(a, "check")
        BY <1>0, <1>3, <2>3, <3>2 DEF Loads, OnLoad, SetPhase, ViewPart
      <4>2. Request(b, a.id, "check", token[b]) \in requests'
        BY <2>3, <4>1 DEF Resend
      <4>3. /\ Request(b, a.id, "check", token[b]).from = b
            /\ Request(b, a.id, "check", token[b]).live
            /\ Request(b, a.id, "check", token[b]).what = "check"
        BY DEF Request
      <4>4. Waits(b, "check")'
        BY <4>2, <4>3, WaitsIs
      <4> QED
        BY <4>1, <4>4 DEF Starting
    <3>3. CASE page[b] = "login" /\ a.result = "ok" /\ token[b] = 0
      <4>1. phase'[b] = "form" /\ page'[b] = "login"
        BY <1>0, <1>3, <2>3, <3>3 DEF Loads, OnLoad, SetPhase, ViewPart
      <4> QED
        BY <4>1 DEF Starting
    <3>4. CASE a.result # "ok"
      <4>1. phase'[b] = "dead"
        BY <1>0, <1>3, <2>3, <3>4 DEF Loads, SetPhase, ViewPart
      <4> QED
        BY <4>1 DEF Starting
    <3> QED
      BY <3>1, <3>2, <3>3, <3>4
  <2> QED
    BY <2>2, <2>3
<1>4. CASE LoginChecked(a)
  <2>1. CASE a.result = "ok"
    BY <1>1, <1>4, <2>1, RequestNames DEF LoginChecked
  <2>2. CASE a.result # "ok"
    <3>1. /\ Take(a) /\ SetPhase(a.to, "form") /\ UNCHANGED requests /\ page[a.to] = "login"
      BY <1>4, <2>2 DEF LoginChecked
    <3>2. page' = page /\ phase'[b] = IF a.to = b THEN "form" ELSE phase[b]
      BY <1>0, <3>1 DEF SetPhase, ViewPart
    <3>3. CASE a.to = b
      BY <3>1, <3>2, <3>3 DEF Starting
    <3>4. CASE a.to # b
      BY <1>2, <3>1, <3>2, <3>4
    <3> QED
      BY <3>3, <3>4
  <2> QED
    BY <2>1, <2>2
<1>5. CASE PageChecked(a)
  <2>1. CASE a.result = "ok"
    <3>1. /\ Take(a) /\ UNCHANGED <<page, phase, requests>>
          /\ a.what = "check" /\ page[a.to] # "login"
      BY <1>5, <2>1 DEF PageChecked
    <3>2. CASE a.to = b
      <4>1. "load" \in Requests /\ a.what # "load"
        BY <3>1, RequestNames
      <4>2. Waits(b, "load") => Waits(b, "load")'
        BY <3>1, <4>1, WaitKept
      <4> QED
        BY <3>1, <3>2, <4>2 DEF Starting
    <3>3. CASE a.to # b
      BY <1>2, <3>1, <3>3
    <3> QED
      BY <3>2, <3>3
  <2>2. CASE a.result # "ok"
    BY <1>1, <1>5, <2>2, RequestNames DEF PageChecked
  <2> QED
    BY <2>1, <2>2
<1>6. CASE LoggedIn(a)
  <2>1. CASE a.result = "ok"
    BY <1>1, <1>6, <2>1, RequestNames DEF LoggedIn
  <2>2. CASE a.result # "ok"
    BY <1>2, <1>6, <2>2 DEF LoggedIn, view
  <2> QED
    BY <2>1, <2>2
<1>7. CASE LoggedOut(a)
  BY <1>1, <1>7, RequestNames DEF LoggedOut
<1>8. CASE Uploaded(a)
  BY <1>2, <1>8 DEF Uploaded, Shows, view
<1>9. CASE Finalized(a)
  BY <1>2, <1>9 DEF Finalized, Shows
<1> QED
  BY <1>3, <1>4, <1>5, <1>6, <1>7, <1>8, <1>9 DEF Receive

LEMMA UserStarting ==
    ASSUME ConsoleInv, NEW b \in Browsers, NEW x \in Browsers, User(x), Starting(b)
    PROVE  Starting(b)'
<1>1. CASE \E p \in Pages : GoTo(x, p)
  BY <1>1, StartingLeft
<1>2. CASE UNCHANGED <<page, phase>>
           /\ (\E what, t : Send(x, what, t) \/ UNCHANGED requests) /\ UNCHANGED answers
  <2>1. \A what : Waits(b, what) => Waits(b, what)'
    BY <1>2, WaitsIs DEF Send
  <2> QED
    BY <1>2, <2>1 DEF Starting
<1>3. CASE Submit(x)
  BY <1>2, <1>3 DEF Submit, view
<1>4. CASE ClickLogout(x)
  BY <1>1, <1>2, <1>4 DEF Pages, ClickLogout, view
<1>5. CASE CloseTab(x) \/ \E p \in Pages : ClickPage(x, p)
  BY <1>1, <1>5 DEF Pages, CloseTab, ClickPage
<1>6. CASE SelectFile(x)
  BY <1>2, <1>6 DEF SelectFile, Shows
<1>7. CASE ClickUpdate(x)
  BY <1>2, <1>7 DEF ClickUpdate
<1> QED
  BY <1>3, <1>4, <1>5, <1>6, <1>7 DEF User

LEMMA StartingStep ==
    ASSUME ConsoleInv, StartingInv, [Next]_vars
    PROVE  StartingInv'
<1> SUFFICES ASSUME NEW b \in Browsers PROVE Starting(b)'
  BY DEF StartingInv
<1>1. Starting(b)
  BY DEF StartingInv
<1>2. ASSUME UNCHANGED view, Responds \/ Quiet \/ ConnectionBreaks \/ NodeRestarts
      PROVE  Starting(b)'
  BY <1>1, <1>2, StartingKept DEF view
<1>3. CASE \E r \in requests : Handle(r)
  BY <1>2, <1>3, HandleShape
<1>4. CASE \E a \in answers : Receive(a)
  BY <1>1, <1>4, ReceiveStarting
<1>5. CASE \E x \in Browsers : User(x)
  BY <1>1, <1>5, UserStarting
<1>6. CASE ConnectionBreaks \/ NodeRestarts
  BY <1>2, <1>6, BreaksNet, RestartNet
<1>7. CASE UNCHANGED vars
  BY <1>2, <1>7 DEF vars, view, Quiet
<1> QED
  BY <1>3, <1>4, <1>5, <1>6, <1>7 DEF Next

(* The safety half of PagesComeToRest: a page that is left alone is never  *)
(* left half way.  Whatever broke, restarted or was clicked, one that      *)
(* waits for nothing shows its form, has been let in, or failed to load.   *)
THEOREM RestIsSettledHolds == Spec => []RestIsSettled
<1>1. Init => StartingInv
  <2> SUFFICES ASSUME Init, NEW b \in Browsers PROVE Starting(b)
    BY DEF StartingInv
  <2>1. Request(b, 1, "load", 0) \in requests
    BY DEF Init
  <2>2. /\ Request(b, 1, "load", 0).from = b /\ Request(b, 1, "load", 0).live
        /\ Request(b, 1, "load", 0).what = "load"
    BY DEF Request
  <2>3. Waits(b, "load")
    BY <2>1, <2>2, WaitsIs
  <2> QED
    BY <2>3 DEF Init, Starting
<1>2. Spec => []StartingInv
  BY <1>1, StartingStep, ConsoleInvariant, PTL DEF Spec
<1>3. ConsoleInv /\ StartingInv /\ OpenPageIsAuthorised => RestIsSettled
  <2> SUFFICES ASSUME ConsoleInv, StartingInv, OpenPageIsAuthorised,
                      NEW b \in Browsers, AtRest(b)
               PROVE  \/ phase[b] = "dead"
                      \/ page[b] = "login" /\ phase[b] = "form"
                      \/ page[b] # "login" /\ phase[b] = "run" /\ authorised[b]
    BY DEF RestIsSettled
  <2>1. \A what : ~Waits(b, what)
    BY DEF AtRest, Waits
  <2>2. phase[b] \in {"loading", "checking", "form", "run", "dead"}
    BY DEF ConsoleInv, ViewPart
  <2> QED
    BY <2>1, <2>2 DEF StartingInv, Starting, OpenPageIsAuthorised
<1> QED
  BY <1>2, <1>3, ConsoleInvariant, OpenPageIsAuthorisedHolds, PTL
===============================================================================

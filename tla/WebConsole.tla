------------------------------ MODULE WebConsole ------------------------------
(***************************************************************************)
(* The web console: the pages login.html, dashboard.html and ota.html with *)
(* their scripts in some browsers, and the HTTP server with its sessions   *)
(* (SessionService).  A page sends requests and goes on when they are      *)
(* answered or fail; leaving a page drops what it was waiting for, though  *)
(* the server may still get the requests.  The server's one task handles a *)
(* request at a time, in any order since they come on connections of their *)
(* own; the upload is detailed in OtaUpload.                               *)
(***************************************************************************)
EXTENDS Integers, FiniteSets

CONSTANTS
    Browsers,
    MAX_USERS,             \* sessions, 1 in the source
    TOTAL_CHUNK_BUFFERS,   \* upload buffers, 3 in the source
    Connections,           \* bound: requests a page has under way
    MaxLogins,             \* bound: submitted logins
    MaxClicks,             \* bound: clicks on links, buttons and the reload key
    MaxUploads,            \* bound: uploads
    MaxFailures            \* bound: broken connections and restarts of the node

ASSUME ConsoleAssumption ==
    /\ {TOTAL_CHUNK_BUFFERS, Connections} \subseteq Nat \ {0}
    /\ {MAX_USERS, MaxLogins, MaxClicks, MaxUploads, MaxFailures} \subseteq Nat

VARIABLES
    open, issued, \* see SessionService
    httpd,        \* "free", or "blocked" waiting for an upload buffer
    spare,        \* upload buffers in the pool
    page,         \* the page each browser is on
    phase,        \* how far it is: "loading", "checking", "form", "run" or "dead"
    token,        \* authToken in its sessionStorage, 0 if there is none
    button,       \* the update button of its OTA page is enabled
    status,       \* what the OTA page reports
    authorised,   \* history: the server has accepted the page's token
    requests,     \* on their way to the server
    answers,      \* on their way to the page that waits for them
    budget        \* what is left of each bound

Sessions == INSTANCE SessionService

sessions == <<open, issued>>
view == <<page, phase, token, button, status, authorised>>
vars == <<sessions, httpd, spare, view, requests, answers, budget>>

Pages == {"login", "dashboard", "ota"}
Requests == {"load", "check", "auth", "logout", "upload", "complete"}

Spend(what) ==
    /\ budget[what] > 0
    /\ budget' = [budget EXCEPT ![what] = @ - 1]

-----------------------------------------------------------------------------
(***************************************************************************)
(* The network.  An orphan is a request whose page has gone.               *)
(***************************************************************************)
OwnRequests(b) == {r \in requests : r.from = b /\ r.live}
OwnAnswers(b) == {a \in answers : a.to = b}
InUse(b) == {r.id : r \in OwnRequests(b)} \cup {a.id : a \in OwnAnswers(b)}

Request(b, id, what, t) == [from |-> b, id |-> id, what |-> what, token |-> t, live |-> TRUE]
Orphan(r) == [r EXCEPT !.id = 0, !.live = FALSE]
Answer(r, result, t) ==
    [to |-> r.from, id |-> r.id, what |-> r.what, result |-> result, token |-> t]

(* A request on a connection of its own, by a page that waits for others. *)
Send(b, what, t) ==
    \E id \in (1..Connections) \ InUse(b) :
        /\ \A i \in (1..Connections) \ InUse(b) : id <= i
        /\ requests' = requests \cup {Request(b, id, what, t)}

(* The browser goes to a page and asks for its HTML and then its script;   *)
(* requests it gives up may be under way already.                          *)
GoTo(b, p) ==
    /\ page' = [page EXCEPT ![b] = p]
    /\ phase' = [phase EXCEPT ![b] = "loading"]
    /\ button' = [button EXCEPT ![b] = FALSE]
    /\ status' = [status EXCEPT ![b] = "none"]
    /\ authorised' = [authorised EXCEPT ![b] = FALSE]
    /\ answers' = answers \ OwnAnswers(b)
    /\ \E S \in SUBSET {r \in OwnRequests(b) : r.what # "load"} :
          requests' = (requests \ OwnRequests(b)) \cup {Orphan(r) : r \in S}
                          \cup {Request(b, 1, "load", 0)}

(* A connection breaks, before the request is handled or after it. *)
ConnectionBreaks ==
    /\ Spend("failures")
    /\ \/ \E r \in requests :
             /\ r.live
             /\ requests' = requests \ {r}
             /\ answers' = answers \cup {Answer(r, "error", 0)}
       \/ \E a \in answers :
             /\ a.result # "error"
             /\ answers' = (answers \ {a}) \cup {[a EXCEPT !.result = "error", !.token = 0]}
             /\ UNCHANGED requests
    /\ UNCHANGED <<sessions, httpd, spare, view>>

-----------------------------------------------------------------------------
(***************************************************************************)
(* The server.                                                             *)
(***************************************************************************)
Respond(r, result, t) ==
    /\ requests' = requests \ {r}
    /\ answers' = IF r.live THEN answers \cup {Answer(r, result, t)} ELSE answers

(* Pages and scripts are sent to anybody.  (One request stands for both: a *)
(* page whose script does not come is as dead as one that does not come.)  *)
resource_handler(r) ==
    /\ r.what = "load"
    /\ Respond(r, "ok", 0)
    /\ UNCHANGED <<sessions, httpd, spare>>

(* validate_token finds an open session live, or else closes it; "Bearer   *)
(* null", which a page without a token sends, is no session's token.       *)
check_auth_handler(r) ==
    /\ r.what = "check"
    /\ \/ Sessions!Accepted(r.token) /\ Respond(r, "ok", 0)
       \/ Sessions!Refused(r.token) /\ Respond(r, "refused", 0)
    /\ UNCHANGED <<httpd, spare>>

logout_handler(r) ==
    /\ r.what = "logout"
    /\ \/ Sessions!LoggedOut(r.token) /\ Respond(r, "ok", 0)
       \/ Sessions!Refused(r.token) /\ Respond(r, "refused", 0)
    /\ UNCHANGED <<httpd, spare>>

(* The credentials are right, or they are not. *)
auth_handler(r) ==
    /\ r.what = "auth"
    /\ \/ Sessions!Login /\ Respond(r, "ok", issued')
       \/ Respond(r, "refused", 0) /\ UNCHANGED sessions
    /\ UNCHANGED <<httpd, spare>>

(* Mutant: the handler does not wait for a buffer. *)
file_upload_handler_hasty(r) ==
    /\ r.what = "upload"
    /\ spare' = spare - 1
    /\ \E result \in {"ok", "refused"} : Respond(r, result, 0)
    /\ UNCHANGED <<sessions, httpd>>

(* Every upload costs a buffer; without one the task waits for ever.  The  *)
(* answer says that the file was received, not what became of it.          *)
file_upload_handler(r) ==
    /\ r.what = "upload"
    /\ \/ /\ spare > 0
          /\ spare' = spare - 1
          /\ \E result \in {"ok", "refused"} : Respond(r, result, 0)
          /\ UNCHANGED httpd
       \/ /\ spare = 0
          /\ httpd' = "blocked"
          /\ UNCHANGED <<spare, requests, answers>>
    /\ UNCHANGED sessions

(* POST /ota/complete is not among the registered URIs. *)
NotFound(r) ==
    /\ r.what = "complete"
    /\ Respond(r, "refused", 0)
    /\ UNCHANGED <<sessions, httpd, spare>>

Handle(r) ==
    /\ httpd = "free"
    /\ \/ resource_handler(r) \/ check_auth_handler(r) \/ logout_handler(r)
       \/ auth_handler(r) \/ file_upload_handler(r) \/ NotFound(r)
    /\ UNCHANGED <<view, budget>>

(* An installed update, a panic or a power loss: sessions and buffers are  *)
(* as at the start, and open connections break.                            *)
NodeRestarts ==
    /\ Spend("failures")
    /\ open' = {}
    /\ httpd' = "free"
    /\ spare' = TOTAL_CHUNK_BUFFERS
    /\ answers' = answers \cup {Answer(r, "error", 0) : r \in {q \in requests : q.live}}
    /\ requests' = {}
    /\ UNCHANGED <<issued, view>>

-----------------------------------------------------------------------------
(***************************************************************************)
(* The pages: what a script does when a request of its page is answered.   *)
(***************************************************************************)
Take(a) == answers' = answers \ {a}
SetPhase(b, ph) ==
    phase' = [phase EXCEPT ![b] = ph] /\ UNCHANGED <<page, token, button, status, authorised>>
Shows(b, enabled, report) ==
    /\ button' = [button EXCEPT ![b] = enabled]
    /\ status' = [status EXCEPT ![b] = report]
    /\ UNCHANGED <<page, phase, token, authorised>>

Resend(a, what) == requests' = requests \cup {Request(a.to, a.id, what, token[a.to])}

(* Mutant: the login page takes a token it finds for good. *)
OnLoadTrusting(a) ==
    LET b == a.to IN
    IF page[b] # "login"
    THEN Take(a) /\ SetPhase(b, "run") /\ Resend(a, "check")
    ELSE IF token[b] # 0
    THEN GoTo(b, "dashboard") /\ UNCHANGED token
    ELSE Take(a) /\ SetPhase(b, "form") /\ UNCHANGED requests

(* DOMContentLoaded: ask the server about the token; the login page shows  *)
(* its form at once if it has none.                                        *)
OnLoad(a) ==
    LET b == a.to IN
    /\ Take(a)
    /\ IF page[b] # "login"
       THEN SetPhase(b, "run") /\ Resend(a, "check")
       ELSE IF token[b] # 0
       THEN SetPhase(b, "checking") /\ Resend(a, "check")
       ELSE SetPhase(b, "form") /\ UNCHANGED requests

Loads(a) ==
    /\ a.what = "load"
    /\ \/ a.result = "ok" /\ OnLoad(a)
       \/ a.result # "ok" /\ Take(a) /\ SetPhase(a.to, "dead") /\ UNCHANGED requests

LoginChecked(a) ==
    /\ a.what = "check" /\ page[a.to] = "login"
    /\ IF a.result = "ok"
       THEN GoTo(a.to, "dashboard") /\ UNCHANGED token
       ELSE Take(a) /\ SetPhase(a.to, "form") /\ UNCHANGED requests

(* Mutant: a check that fails without an answer is only logged. *)
PageCheckedLeniently(a) ==
    /\ a.what = "check" /\ page[a.to] # "login"
    /\ IF a.result # "refused"
       THEN /\ authorised' = [authorised EXCEPT ![a.to] = a.result = "ok"]
            /\ Take(a)
            /\ UNCHANGED <<page, phase, token, button, status, requests>>
       ELSE GoTo(a.to, "login") /\ UNCHANGED token

(* checkAuthWithServer of dashboard.js and ota.js: a refusal and a failure *)
(* lead back to the login page.                                            *)
PageChecked(a) ==
    /\ a.what = "check" /\ page[a.to] # "login"
    /\ IF a.result = "ok"
       THEN /\ authorised' = [authorised EXCEPT ![a.to] = TRUE]
            /\ Take(a)
            /\ UNCHANGED <<page, phase, token, button, status, requests>>
       ELSE GoTo(a.to, "login") /\ UNCHANGED token

(* handleServerLogin *)
LoggedIn(a) ==
    /\ a.what = "auth"
    /\ IF a.result = "ok"
       THEN GoTo(a.to, "dashboard") /\ token' = [token EXCEPT ![a.to] = a.token]
       ELSE Take(a) /\ UNCHANGED <<view, requests>>

(* handleLogout, whatever came of the request. *)
LoggedOut(a) ==
    /\ a.what = "logout"
    /\ GoTo(a.to, "login")
    /\ token' = [token EXCEPT ![a.to] = 0]

(* handleOTAUpdate and finalizeOTAUpdate: a failed upload may be repeated, *)
(* a failed finalisation leaves the button disabled.                       *)
Uploaded(a) ==
    /\ a.what = "upload"
    /\ Take(a)
    /\ IF a.result = "ok"
       THEN Resend(a, "complete") /\ UNCHANGED view
       ELSE Shows(a.to, TRUE, "error") /\ UNCHANGED requests

Finalized(a) ==
    /\ a.what = "complete"
    /\ Take(a)
    /\ Shows(a.to, button[a.to], IF a.result = "ok" THEN "success" ELSE "error")
    /\ UNCHANGED requests

Receive(a) ==
    /\ \/ Loads(a) \/ LoginChecked(a) \/ PageChecked(a) \/ LoggedIn(a)
       \/ LoggedOut(a) \/ Uploaded(a) \/ Finalized(a)
    /\ UNCHANGED <<sessions, httpd, spare, budget>>

-----------------------------------------------------------------------------
(***************************************************************************)
(* The user.                                                               *)
(***************************************************************************)
(* The submit button stays enabled while a login is under way. *)
Submit(b) ==
    /\ page[b] = "login" /\ phase[b] = "form"
    /\ Spend("logins")
    /\ Send(b, "auth", 0)
    /\ UNCHANGED <<answers, view>>

(* Mutant: the header is sent without "Bearer ", as it once was. *)
LogoutHeaderBare(b) == 0

LogoutHeader(b) == token[b]

(* The dashboard does not ask the server when it has no token. *)
ClickLogout(b) ==
    /\ page[b] # "login" /\ phase[b] = "run"
    /\ Spend("clicks")
    /\ IF page[b] = "dashboard" /\ token[b] = 0
       THEN GoTo(b, "login") /\ UNCHANGED token
       ELSE Send(b, "logout", LogoutHeader(b)) /\ UNCHANGED <<answers, view>>

(* The menu, the address line or the reload key. *)
ClickPage(b, p) ==
    /\ Spend("clicks")
    /\ GoTo(b, p)
    /\ UNCHANGED token

(* The sessionStorage goes with the tab. *)
CloseTab(b) ==
    /\ Spend("clicks")
    /\ GoTo(b, "login")
    /\ token' = [token EXCEPT ![b] = 0]

(* handleFileSelect, at any time. *)
SelectFile(b) ==
    /\ page[b] = "ota" /\ phase[b] = "run"
    /\ Spend("clicks")
    /\ Shows(b, TRUE, "none")
    /\ UNCHANGED <<requests, answers>>

ClickUpdate(b) ==
    /\ page[b] = "ota" /\ phase[b] = "run" /\ button[b]
    /\ Spend("uploads")
    /\ Send(b, "upload", token[b])
    /\ button' = [button EXCEPT ![b] = FALSE]
    /\ UNCHANGED <<page, phase, token, status, authorised, answers>>

User(b) ==
    /\ \/ Submit(b) \/ ClickLogout(b) \/ CloseTab(b) \/ SelectFile(b) \/ ClickUpdate(b)
       \/ \E p \in Pages : ClickPage(b, p)
    /\ UNCHANGED <<sessions, httpd, spare>>

-----------------------------------------------------------------------------
(* Every browser has just been pointed at "/", which is the login page. *)
Init ==
    /\ Sessions!Init
    /\ httpd = "free"
    /\ spare = TOTAL_CHUNK_BUFFERS
    /\ page = [b \in Browsers |-> "login"]
    /\ phase = [b \in Browsers |-> "loading"]
    /\ token = [b \in Browsers |-> 0]
    /\ button = [b \in Browsers |-> FALSE]
    /\ status = [b \in Browsers |-> "none"]
    /\ authorised = [b \in Browsers |-> FALSE]
    /\ requests = {Request(b, 1, "load", 0) : b \in Browsers}
    /\ answers = {}
    /\ budget = [logins |-> MaxLogins, clicks |-> MaxClicks, uploads |-> MaxUploads,
                 failures |-> MaxFailures]

Next ==
    \/ \E r \in requests : Handle(r)
    \/ \E a \in answers : Receive(a)
    \/ \E b \in Browsers : User(b)
    \/ ConnectionBreaks \/ NodeRestarts

Spec == Init /\ [][Next]_vars

(* The server gets to every request and a page to every answer. *)
Fairness ==
    \A b \in Browsers :
        /\ \A id \in 0..Connections :
              WF_vars(\E r \in requests : r.from = b /\ r.id = id /\ Handle(r))
        /\ WF_vars(\E a \in answers : a.to = b /\ Receive(a))

FairSpec == Spec /\ Fairness

-----------------------------------------------------------------------------
(* Every variable holds a value its writers allow, and a page has one      *)
(* request per connection.                                                 *)
TypeOK ==
    /\ open \subseteq 1..issued /\ Cardinality(open) <= MAX_USERS
    /\ issued \in Nat
    /\ httpd \in {"free", "blocked"}
    /\ spare \in 0..TOTAL_CHUNK_BUFFERS
    /\ page \in [Browsers -> Pages]
    /\ phase \in [Browsers -> {"loading", "checking", "form", "run", "dead"}]
    /\ token \in [Browsers -> 0..issued]
    /\ button \in [Browsers -> BOOLEAN]
    /\ status \in [Browsers -> {"none", "success", "error"}]
    /\ authorised \in [Browsers -> BOOLEAN]
    /\ requests \subseteq [from : Browsers, id : 0..Connections, what : Requests,
                           token : 0..issued, live : BOOLEAN]
    /\ answers \subseteq [to : Browsers, id : 1..Connections, what : Requests,
                          result : {"ok", "refused", "error"}, token : 0..issued]
    /\ \A b \in Browsers :
          \A r \in OwnRequests(b) : \A a \in OwnAnswers(b) : r.id # a.id

Waits(b, what) ==
    \/ \E r \in OwnRequests(b) : r.what = what
    \/ \E a \in OwnAnswers(b) : a.what = what

(* The dashboard and the OTA page stay open only for a token the server    *)
(* has accepted since they were loaded: as soon as nothing is checked any  *)
(* more, whether the check was answered, refused or cut off, a page that   *)
(* is still there has been let in.                                         *)
OpenPageIsAuthorised ==
    \A b \in Browsers :
        page[b] # "login" /\ phase[b] = "run" => authorised[b] \/ Waits(b, "check")

(* When the user has logged out and the server has answered, accepting or  *)
(* refusing, the session of the token is over.                             *)
AnsweredLogoutEndsSession ==
    \A a \in answers :
        a.what = "logout" /\ a.result # "error" =>
            token[a.to] \notin open

(* A page left alone comes to rest: whatever token the storage holds,      *)
(* login page and dashboard do not send each other back and forth, and     *)
(* every request is answered or fails, as long as the server has a buffer  *)
(* for every upload.                                                       *)
AtRest(b) == OwnRequests(b) = {} /\ OwnAnswers(b) = {}
PagesComeToRest == \A b \in Browsers : []<>(AtRest(b) \/ httpd = "blocked")

===============================================================================

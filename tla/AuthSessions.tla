----------------------------- MODULE AuthSessions -----------------------------
(***************************************************************************)
(* Logging in and out: AuthShell and LoginScreen of apps/web, the guard, the *)
(* controller and the service of apps/api, LdapAuthenticator, and the        *)
(* auth_sessions table of packages/platform-db.                             *)
(*                                                                         *)
(* One browser, whose requests overlap, and one API process.  A request slot *)
(* stands for a chain of requests in which one answer causes the next: a 401 *)
(* the question for the session, a login that question, the app its menus.   *)
(* LoginRateLimiter.tla has what an attempt does to the limits; here it is   *)
(* only pending, committed or released.                                    *)
(***************************************************************************)
EXTENDS Integers, FiniteSets, Functions

CONSTANTS
    Request,    \* requests that may be under way at once
    NoSession,  \* a request or a browser without the cookie
    Ttl,        \* length of a session
    MaxSessions,\* bound: sessions created
    MaxTime     \* bound: the clock

ASSUME BoundAssumption == Ttl \in Nat \ {0} /\ MaxSessions \in Nat /\ MaxTime \in Nat

Cookie == 1..MaxSessions \union {NoSession}
Time == 0..MaxTime

VARIABLES
    clock,      \* Date.now() of the API and of the browser
    sessions,   \* rows of auth_sessions: when each expires
    created,    \* how many there have been
    cookie,     \* of the browser
    until,      \* when the browser drops it: Max-Age
    shell,      \* what AuthShell shows
    loggingIn,  \* busy of the LoginScreen that is shown
    request,    \* the requests
    ended       \* history: sessions whose logout was answered with ok

server == <<sessions, created, ended>>
browser == <<cookie, until, shell, loggingIn>>
vars == <<clock, server, browser, request>>

Kind == {"none", "session", "data", "post", "dropped", "login", "stray", "logout"}
Label == {"idle", "sent", "selecting", "deleting", "securing", "binding", "searching",
          "checking", "unbinding", "inserting", "cleaning", "answered"}
Answer == {"none", "ok", "anonymous", "required", "limited", "invalid", "unavailable", "error"}

Idle == [kind |-> "none", pc |-> "idle", cookie |-> NoSession, now |-> 0, answer |-> "none",
         ldap |-> FALSE, attempt |-> "none", session |-> NoSession]

Send(kind, with) == [Idle EXCEPT !.kind = kind, !.pc = "sent", !.cookie = with]

TypeOK ==
    /\ clock \in Time /\ until \in 0..(MaxTime + Ttl)
    /\ created \in 0..MaxSessions /\ DOMAIN sessions \subseteq 1..created
    /\ \A id \in DOMAIN sessions : sessions[id] \in 1..(clock + Ttl)
    /\ cookie \in Cookie /\ ended \subseteq 1..created
    /\ shell \in {"loading", "failure", "anonymous", "app"}
    /\ loggingIn => shell = "anonymous"
    /\ \A r \in Request :
        /\ request[r].kind \in Kind /\ request[r].pc \in Label /\ request[r].cookie \in Cookie
        /\ request[r].now \in 0..clock /\ request[r].answer \in Answer
        /\ request[r].ldap \in BOOLEAN /\ request[r].session \in Cookie
        /\ request[r].attempt \in {"none", "pending", "committed", "released"}

Init ==
    /\ clock = 0
    /\ sessions = << >> /\ created = 0 /\ ended = {}
    /\ cookie = NoSession /\ until = 0
    /\ shell = "loading" /\ loggingIn = FALSE
    /\ \E first \in Request :
        request = [r \in Request |-> IF r = first THEN Send("session", NoSession) ELSE Idle]

-----------------------------------------------------------------------------
(* The API.                                                                *)

Handle(r, label, new) ==
    /\ request[r].pc = label
    /\ request' = [request EXCEPT ![r] = new]
    /\ UNCHANGED <<clock, browser>>

Answered(r, answer) == [request[r] EXCEPT !.pc = "answered", !.answer = answer]

At(r, label) == [request[r] EXCEPT !.pc = label]

IsLogin(r) == request[r].kind \in {"login", "stray"}

AsksSession(r) == request[r].kind \in {"session", "data", "post", "dropped"}

(* AuthController.current, or the guard, of a request without a session.    *)
Without(r) == Answered(r, IF request[r].kind = "session" THEN "anonymous" ELSE "required")

(* parseSessionCookie; the time is taken before the database is asked.      *)
FindSession(r) ==
    /\ AsksSession(r)
    /\ Handle(r, "sent", IF request[r].cookie = NoSession THEN Without(r)
                         ELSE [At(r, "selecting") EXCEPT !.now = clock])
    /\ UNCHANGED server

ValidAt(id, now) == id \in DOMAIN sessions /\ sessions[id] > now

SelectSession(r) ==
    /\ \/ Handle(r, "selecting",
                 IF ValidAt(request[r].cookie, request[r].now)
                 THEN Answered(r, "ok") ELSE At(r, "deleting"))
       \/ Handle(r, "selecting", Answered(r, "error"))
    /\ UNCHANGED server

RowsWithout(f, id) == Restrict(f, DOMAIN f \ {id})

(* A row that was not found valid is deleted if it expired.                *)
DeleteSession(r) ==
    /\ \/ /\ Handle(r, "deleting", Without(r))
          /\ sessions' = IF ValidAt(request[r].cookie, request[r].now) THEN sessions
                         ELSE RowsWithout(sessions, request[r].cookie)
       \/ /\ Handle(r, "deleting", Answered(r, "error"))
          /\ UNCHANGED sessions
    /\ UNCHANGED <<created, ended>>

(* Mutant: a session that could not be deleted is logged out of all the same. *)
RevocationAnswers == {"ok"}

(* SessionRevocationError is a 503.                                        *)
FailedRevocation == {"unavailable"}

RevokeSession(r) ==
    /\ request[r].kind = "logout"
    /\ \/ /\ Handle(r, "sent", Answered(r, "ok"))
          /\ sessions' = RowsWithout(sessions, request[r].cookie)
          /\ ended' = ended \union ({request[r].cookie} \ {NoSession})
       \/ /\ request[r].cookie # NoSession
          /\ \E answer \in FailedRevocation :
                /\ Handle(r, "sent", Answered(r, answer))
                /\ ended' = IF answer = "ok" THEN ended \union {request[r].cookie} ELSE ended
          /\ UNCHANGED sessions
    /\ UNCHANGED created

-----------------------------------------------------------------------------
(* AuthService.login and LdapAuthenticator.authenticate.                    *)

(* Refused by the limiter; ids and passwords that cannot be right never get *)
(* to the directory.                                                       *)
ReserveAttempt(r) ==
    /\ IsLogin(r)
    /\ \/ Handle(r, "sent", Answered(r, "limited"))
       \/ Handle(r, "sent", [Answered(r, "invalid") EXCEPT !.attempt = "committed"])
       \/ Handle(r, "sent", [At(r, "securing") EXCEPT !.ldap = TRUE, !.attempt = "pending"])
    /\ UNCHANGED server

Verdict(r, answer) == [At(r, "unbinding") EXCEPT !.answer = answer]

(* TLS, the bind of the service and the search: any of them may fail.       *)
Directory(r, label, next) ==
    /\ \/ Handle(r, label, At(r, next))
       \/ Handle(r, label, Verdict(r, "unavailable"))
    /\ UNCHANGED server

SecureConnection(r) == Directory(r, "securing", "binding")
BindService(r) == Directory(r, "binding", "searching")

(* There must be one entry, and it must have a usable id.                  *)
SearchUser(r) ==
    \/ Directory(r, "searching", "checking")
    \/ Handle(r, "searching", Verdict(r, "invalid")) /\ UNCHANGED server

BindUser(r) ==
    /\ \E answer \in {"ok", "invalid", "unavailable"} :
            Handle(r, "checking", Verdict(r, answer))
    /\ UNCHANGED server

(* Mutant: only INVALID_CREDENTIALS and success settle an attempt.         *)
SettledIfKnown(answer) ==
    CASE answer = "invalid" -> "committed"
      [] answer = "ok" -> "released"
      [] OTHER -> "pending"

Settled(answer) == IF answer = "invalid" THEN "committed" ELSE "released"

(* The connection is closed whatever happened, and a failure to close it is  *)
(* nobody's; then the attempt is settled.                                  *)
Unbind(r) ==
    LET answer == request[r].answer
        settled == [request[r] EXCEPT !.ldap = FALSE, !.attempt = Settled(answer)]
    IN  /\ Handle(r, "unbinding",
                IF answer = "ok"
                THEN [settled EXCEPT !.pc = "inserting", !.answer = "none", !.now = clock]
                ELSE [settled EXCEPT !.pc = "answered"])
        /\ UNCHANGED server

(* AuthSessionManager.create                                               *)
CreateSession(r) ==
    \/ /\ created < MaxSessions
       /\ Handle(r, "inserting", [At(r, "cleaning") EXCEPT !.session = created + 1])
       /\ created' = created + 1
       /\ sessions' = [id \in DOMAIN sessions \union {created + 1} |->
                        IF id = created + 1 THEN request[r].now + Ttl ELSE sessions[id]]
       /\ UNCHANGED ended
    \/ Handle(r, "inserting", Answered(r, "error")) /\ UNCHANGED server

Expired(now) == {id \in DOMAIN sessions : sessions[id] <= now}

(* deleteExpired may fail unnoticed; its limit is above the rows there are.  *)
CleanUp(r) ==
    /\ Handle(r, "cleaning", Answered(r, "ok"))
    /\ sessions' \in {sessions, Restrict(sessions, DOMAIN sessions \ Expired(request[r].now))}
    /\ UNCHANGED <<created, ended>>

-----------------------------------------------------------------------------
(* The browser.                                                            *)

(* AuthShell shows something else.                                         *)
Show(new) ==
    /\ shell' = new
    /\ loggingIn' = (loggingIn /\ new = "anonymous")

(* The requests when what slot r was at is over and AuthShell shows new: with *)
(* the app the requests of its components are cancelled; a login whose screen *)
(* is gone goes on without it.                                             *)
NextRequest(r, next, new) ==
    [x \in Request |->
        CASE x = r -> next
          [] x # r /\ request[x].kind = "data" /\ new # "app" -> [request[x] EXCEPT !.kind = "dropped"]
          [] x # r /\ request[x].kind = "login" /\ new # "anonymous" -> [request[x] EXCEPT !.kind = "stray"]
          [] x # r /\ request[x].kind = "session" /\ new # "anonymous" -> [request[x] EXCEPT !.session = NoSession]
          [] OTHER -> request[x]]

(* setState of refresh: the app, mounted, asks for its menus.               *)
SessionKnown(r) ==
    /\ request[r].kind = "session" /\ request[r].pc = "answered"
    /\ LET new == CASE request[r].answer = "ok" -> "app"
                    [] request[r].answer = "anonymous" -> "anonymous"
                    [] OTHER -> "failure"
           next == IF new = "app" /\ shell # "app" THEN Send("data", cookie) ELSE Idle
       IN  /\ request' = NextRequest(r, next, new)
           /\ IF request[r].session = NoSession \/ new # "anonymous" THEN Show(new)
              ELSE shell' = new /\ loggingIn' = FALSE
    /\ UNCHANGED <<clock, server, cookie, until>>

(* authenticatedFetch: a 401 makes AuthShell ask for the session again.     *)
DataAnswered(r) ==
    /\ request[r].kind \in {"data", "post", "dropped"} /\ request[r].pc = "answered"
    /\ request' = [request EXCEPT ![r] =
            IF request[r].answer = "required" /\ request[r].kind # "dropped"
            THEN Send("session", cookie) ELSE Idle]
    /\ UNCHANGED <<clock, server, browser>>

LoginAnswered(r) ==
    /\ IsLogin(r) /\ request[r].pc = "answered"
    /\ LET shown == request[r].kind = "login"
       IN  IF request[r].answer = "ok"
           THEN /\ cookie' = request[r].session /\ until' = clock + Ttl
                /\ request' = [request EXCEPT ![r] = [Send("session", cookie') EXCEPT
                        !.session = IF shown THEN cookie' ELSE NoSession]]
                /\ UNCHANGED loggingIn
           ELSE /\ request' = [request EXCEPT ![r] = Idle]
                /\ loggingIn' = (loggingIn /\ ~shown)
                /\ UNCHANGED <<cookie, until>>
    /\ UNCHANGED <<clock, server, shell>>

LogoutAnswered(r) ==
    /\ request[r].kind = "logout" /\ request[r].pc = "answered"
    /\ IF request[r].answer = "ok"
       THEN /\ cookie' = NoSession /\ until' = 0
            /\ Show("anonymous")
            /\ request' = NextRequest(r, Idle, "anonymous")
       ELSE /\ request' = [request EXCEPT ![r] = Idle]
            /\ UNCHANGED browser
    /\ UNCHANGED <<clock, server>>

(* The request or its answer does not arrive.                              *)
LoseRequest(r) ==
    /\ request[r].pc \in {"sent", "answered"}
    /\ IF request[r].kind = "session"
       THEN /\ request' = NextRequest(r, Idle, "failure")
            /\ Show("failure")
       ELSE /\ request' = [request EXCEPT ![r] = Idle]
            /\ loggingIn' = (loggingIn /\ request[r].kind # "login")
            /\ UNCHANGED shell
    /\ UNCHANGED <<clock, server, cookie, until>>

UserSends(r, where, kind) ==
    /\ shell = where
    /\ request[r] = Idle
    /\ request' = [request EXCEPT ![r] = Send(kind, cookie)]
    /\ UNCHANGED <<clock, server, cookie, until>>

SubmitLogin(r) ==
    /\ ~loggingIn
    /\ UserSends(r, "anonymous", "login")
    /\ loggingIn' = TRUE
    /\ UNCHANGED shell

UseApp(r) ==
    /\ \E kind \in {"data", "post", "logout"} : UserSends(r, "app", kind)
    /\ UNCHANGED <<shell, loggingIn>>

AskAgain(r) ==
    /\ UserSends(r, "failure", "session")
    /\ shell' = "loading"
    /\ UNCHANGED loggingIn

DropCookie ==
    /\ cookie # NoSession /\ until <= clock
    /\ cookie' = NoSession /\ until' = 0
    /\ UNCHANGED <<clock, server, shell, loggingIn, request>>

Tick ==
    /\ clock < MaxTime
    /\ clock' = clock + 1
    /\ UNCHANGED <<server, browser, request>>

-----------------------------------------------------------------------------
Serve(r) ==
    \/ FindSession(r) \/ SelectSession(r) \/ DeleteSession(r) \/ RevokeSession(r)
    \/ ReserveAttempt(r) \/ SecureConnection(r) \/ BindService(r) \/ SearchUser(r)
    \/ BindUser(r) \/ Unbind(r) \/ CreateSession(r) \/ CleanUp(r)

Browse(r) ==
    \/ SessionKnown(r) \/ DataAnswered(r) \/ LoginAnswered(r) \/ LogoutAnswered(r)
    \/ LoseRequest(r) \/ SubmitLogin(r) \/ UseApp(r) \/ AskAgain(r)

Next == (\E r \in Request : Serve(r) \/ Browse(r)) \/ DropCookie \/ Tick

Spec == Init /\ [][Next]_vars

-----------------------------------------------------------------------------
(* A logout that was answered with ok has ended the session for good: its    *)
(* row does not come back, whatever was under way with it.                 *)
LogoutIsFinal == ended \intersect DOMAIN sessions = {}

(* AuthService.login: a login is answered when its connection to the         *)
(* directory is closed and its attempt is settled, counted if and only if the *)
(* credentials were wrong and not when the directory or the database failed. *)
LoginIsSettled ==
    \A r \in Request : IsLogin(r) /\ request[r].pc = "answered" =>
        /\ ~request[r].ldap
        /\ (request[r].attempt = "committed") = (request[r].answer = "invalid")
        /\ (request[r].attempt = "released") = (request[r].answer \in {"ok", "unavailable", "error"})

(* A session is only deleted when it expired or its logout is under way.    *)
OnlyDeadSessionsDeleted ==
    [][\A id \in DOMAIN sessions \ DOMAIN sessions' :
        \/ sessions[id] <= clock
        \/ \E r \in Request : request[r].kind = "logout" /\ request[r].cookie = id]_vars

(* docs/superpowers/specs/2026-09-19-ldap-session-auth-design.md:143: with a *)
(* valid session the app is shown.  A question for the session from before   *)
(* the login, answered after it, takes the app away again.                  *)
LoginIsShown ==
    (\A r \in Request : request[r] = Idle) /\ shell = "anonymous" =>
        ~ValidAt(cookie, clock)

=============================================================================

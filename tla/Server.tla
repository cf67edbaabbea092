--------------------------------- MODULE Server ---------------------------------
(***************************************************************************)
(* The server process around its handlers: cmd/server/main.go with the     *)
(* logins of internal/auth and the pool of database connections.  Several  *)
(* requests at once, each in the steps at which it looks at something the  *)
(* others, the monitor of the database or the shutdown may change.         *)
(*                                                                         *)
(*   dbUp    what monitorDatabase found last; while it is false every      *)
(*           internal error is answered as 502;                            *)
(*   logins  the map of auth.Service, in memory and without a lock: Go     *)
(*           ends the process when it notices a write beside another       *)
(*           access.                                                       *)
(*                                                                         *)
(* The database answers, refuses connections, or hangs.  What the handlers *)
(* do with it is the subject of the other modules; here it is one query.   *)
(***************************************************************************)
EXTENDS Integers, FiniteSets

CONSTANTS
  Clients,    \* browsers
  Requests,   \* requests they send
  Kinds,      \* what the requests are for
  MaxConns,   \* size of the pool
  MaxLogins,  \* bound: logins
  MaxStarts   \* bound: starts of the process

AllKinds == {"login", "logout", "check", "read", "manage", "edit", "health", "live"}

ASSUME ClientsAssumption == Clients # {}
ASSUME KindsAssumption  == Kinds \subseteq AllKinds
ASSUME BoundsAssumption == /\ MaxConns \in Nat \ {0}
                           /\ MaxLogins \in Nat
                           /\ MaxStarts \in Nat \ {0}

VARIABLES
  proc,    \* the process
  starts,  \* how often it was started
  db,      \* the database
  dbUp,    \* what the monitor says of it
  ping,    \* where the monitor stands
  doubt,   \* history: was the database out of reach since it was last reached?
  logins,  \* cookie -> role
  issued,  \* cookies issued, by this process or an earlier one
  jar,     \* client -> its cookie
  req      \* request -> where its handler stands

vars == <<proc, starts, db, dbUp, ping, doubt, logins, issued, jar, req>>

Cookies  == 1..MaxLogins
NoCookie == 0
Roles    == {"worker", "admin"}
NoUser   == "nobody"
Codes    == {200, 302, 401, 404, 500, 502, 503}
NoCode   == 0

\* Steps of a request that is being handled: in HTTP, or on a WebSocket.
HttpPcs == {"login", "store", "clear", "check", "auth", "role", "work", "query", "lookup", "ping"}
LivePcs == {"first", "live"}

Request == [client : Clients, kind : AllKinds \cup {"none"},
            pc : {"new", "done", "lost"} \cup HttpPcs \cup LivePcs,
            cookie : Cookies \cup {NoCookie},  \* of the request; of a login: its new one
            role : Roles,                      \* of a login: of the password
            code : Codes \cup {NoCode}]        \* the answer

TypeOK ==
  /\ proc \in {"running", "draining", "closing", "over"}
  /\ starts \in 1..MaxStarts
  /\ db \in {"up", "down", "hangs"}
  /\ dbUp \in BOOLEAN
  /\ ping \in {"asking", "idle", "over"}
  /\ doubt \in BOOLEAN
  /\ logins \in [Cookies -> Roles \cup {NoUser}]
  /\ issued \in 0..MaxLogins
  /\ jar \in [Clients -> Cookies \cup {NoCookie}]
  /\ req \in [Requests -> Request]

\* A request that has not been sent, or is over.
Idle(pc) == [client |-> CHOOSE c \in Clients : TRUE, kind |-> "none", pc |-> pc, cookie |-> NoCookie,
             role |-> "worker", code |-> NoCode]

\* A process that has just begun, or one in which somebody has logged in.
Init ==
  /\ proc = "running" /\ starts = 1
  /\ db \in {"up", "down", "hangs"}
  /\ dbUp = FALSE /\ ping = "asking" /\ doubt = TRUE
  /\ \/ /\ logins = [k \in Cookies |-> NoUser] /\ issued = 0
        /\ jar = [c \in Clients |-> NoCookie]
     \/ \E c \in Clients, role \in Roles :
          /\ issued = 1 /\ 1 \in Cookies
          /\ logins = [k \in Cookies |-> IF k = 1 THEN role ELSE NoUser]
          /\ jar = [d \in Clients |-> IF d = c THEN 1 ELSE NoCookie]
  /\ req = [r \in Requests |-> Idle("new")]

------------------------------------------------------------------------------

At(r, pc) == req[r].pc = pc
InHttp(r) == req[r].pc \in HttpPcs
To(r, rec) == req' = [req EXCEPT ![r] = rec]
Go(r, pc) == To(r, [req[r] EXCEPT !.pc = pc])

\* The process serves what it has accepted until it is over.
Serving == proc \in {"running", "draining"}

\* Mutant of Conns: a WebSocket keeps its connection for as long as it lives.
ConnsKept == {r \in Requests : req[r].pc \in {"query", "first", "live"}}

\* Connections of the pool that are in use, and whether a ping gets one and an
\* answer within 2 seconds.
Conns == {r \in Requests : req[r].pc \in {"query", "first"}}
Full  == Cardinality(Conns) >= MaxConns
Reachable == db = "up" /\ ~Full

\* GetUser
UserOf(r) == IF req[r].cookie = NoCookie THEN NoUser ELSE logins[req[r].cookie]

------------------------------------------------------------------------------
(* Answers. *)

\* errorLoggingMiddleware, shouldReturnBadGateway
Shown(code) == IF code >= 500 /\ ~dbUp THEN 502 ELSE code

\* What a handler writes itself, and an error it returns.
Answered(code) == [Idle("done") EXCEPT !.code = code]
Refused(code)  == [Idle("done") EXCEPT !.code = Shown(code)]

------------------------------------------------------------------------------
(* A request. *)

FirstPc(kind) == CASE kind = "login"  -> "login"
                   [] kind = "logout" -> "clear"
                   [] kind = "check"  -> "check"
                   [] kind = "health" -> "ping"
                   [] OTHER           -> "auth"

Send(r, c, kind) ==
  /\ proc = "running"
  /\ At(r, "new") /\ kind \in Kinds
  /\ To(r, [req[r] EXCEPT !.client = c, !.kind = kind, !.pc = FirstPc(kind), !.cookie = jar[c]])
  /\ UNCHANGED <<proc, starts, db, dbUp, ping, logins, issued, jar>>

\* Mutant of NewCookie: the number of logins, and one more.
CountCookie == Cardinality({k \in Cookies : logins[k] # NoUser}) + 1

\* A session id nobody has had.
NewCookie == issued + 1

\* Login, as far as the map: the password is that of a role, or of none.
Login(r, role) ==
  /\ Serving /\ At(r, "login")
  /\ IF role = NoUser THEN To(r, Refused(401))
     ELSE To(r, [req[r] EXCEPT !.pc = "store", !.cookie = NewCookie, !.role = role])
  /\ issued' = IF role = NoUser THEN issued ELSE issued + 1
  /\ issued' <= MaxLogins
  /\ UNCHANGED <<proc, starts, db, dbUp, ping, logins, jar>>

\* The entry in the map, and the cookie to the client.
StoreLogin(r) ==
  /\ Serving /\ At(r, "store")
  /\ logins' = [logins EXCEPT ![req[r].cookie] = req[r].role]
  /\ jar' = [jar EXCEPT ![req[r].client] = req[r].cookie]
  /\ To(r, Answered(200))
  /\ UNCHANGED <<proc, starts, db, dbUp, ping, issued>>

\* Mutant of Forgotten: Logout forgets the login itself.
ForgottenAtOnce(r) == [logins EXCEPT ![req[r].cookie] = NoUser]

\* What is left of the logins after a Logout: all of them.
Forgotten(r) == logins

\* Logout takes the cookie from the client.
Logout(r) ==
  /\ Serving /\ At(r, "clear")
  /\ logins' = IF req[r].cookie = NoCookie THEN logins ELSE Forgotten(r)
  /\ jar' = [jar EXCEPT ![req[r].client] = NoCookie]
  /\ To(r, Answered(200))
  /\ UNCHANGED <<proc, starts, db, dbUp, ping, issued>>

\* HandleCheck
Check(r) ==
  /\ Serving /\ At(r, "check")
  /\ To(r, IF UserOf(r) = NoUser THEN Refused(401) ELSE Answered(200))
  /\ UNCHANGED <<proc, starts, db, dbUp, ping, logins, issued, jar>>

\* Middleware: a redirect, or on to the handler.
Authenticate(r) ==
  /\ Serving /\ At(r, "auth")
  /\ To(r, IF UserOf(r) = NoUser THEN Answered(302)
           ELSE [req[r] EXCEPT !.pc = IF req[r].kind = "manage" THEN "role" ELSE "work"])
  /\ UNCHANGED <<proc, starts, db, dbUp, ping, logins, issued, jar>>

\* RequireRole(RoleAdmin)
RequireRole(r) ==
  /\ Serving /\ At(r, "role")
  /\ To(r, IF UserOf(r) = "admin" THEN [req[r] EXCEPT !.pc = "work"] ELSE Refused(401))
  /\ UNCHANGED <<proc, starts, db, dbUp, ping, logins, issued, jar>>

\* A connection for the handler; the first query of a WebSocket comes after the
\* upgrade and is no longer HTTP.
Acquire(r) ==
  /\ Serving /\ At(r, "work")
  /\ ~Full
  /\ Go(r, IF req[r].kind = "live" THEN "first" ELSE "query")
  /\ UNCHANGED <<proc, starts, db, dbUp, ping, logins, issued, jar>>

\* Mutant of Returns: a refused connection is tried again and again.
ReturnsWhenUp(code) == db = "up"

\* May a query end like this?
Returns(code) == db # "hangs" /\ (code = 500 \/ db = "up")

\* The query of a handler: its result, something it does not find, an error.
\* UpdateOrder looks at the user again when it has read the order.
Query(r, code) ==
  /\ Serving /\ At(r, "query")
  /\ Returns(code)
  /\ To(r, IF code # 200 THEN Refused(code)
           ELSE IF req[r].kind = "edit" THEN [req[r] EXCEPT !.pc = "lookup"]
           ELSE Answered(200))
  /\ UNCHANGED <<proc, starts, db, dbUp, ping, logins, issued, jar>>

\* ... and the rest of it is database work as that of others.
LookUpAgain(r) ==
  /\ Serving /\ At(r, "lookup")
  /\ To(r, IF UserOf(r) = NoUser THEN Refused(401) ELSE [req[r] EXCEPT !.pc = "work", !.kind = "read"])
  /\ UNCHANGED <<proc, starts, db, dbUp, ping, logins, issued, jar>>

\* /health writes its answer itself.
Health(r) ==
  /\ Serving /\ At(r, "ping")
  /\ To(r, Answered(IF Reachable THEN 200 ELSE 503))
  /\ UNCHANGED <<proc, starts, db, dbUp, ping, logins, issued, jar>>

\* A WebSocket gets its first lists, or does without, and lives until it is left.
FirstLists(r) ==
  /\ proc # "over" /\ At(r, "first")
  /\ db # "hangs"
  /\ Go(r, "live")
  /\ UNCHANGED <<proc, starts, db, dbUp, ping, logins, issued, jar>>

\* The client goes away: its context ends the query of an HTTP request.
GoAway(r) ==
  /\ Serving /\ req[r].pc \in {"work", "query", "live"}
  /\ To(r, Idle("lost"))
  /\ UNCHANGED <<proc, starts, db, dbUp, ping, logins, issued, jar>>

------------------------------------------------------------------------------
(* The database and its monitor. *)

DbChanges ==
  /\ db' \in {"up", "down", "hangs"} \ {db}
  /\ UNCHANGED <<proc, starts, dbUp, ping, logins, issued, jar, req>>

\* Mutant of BeginPing: the flag is cleared until there is an answer.
BeginPingInDoubt ==
  /\ proc = "running" /\ ping = "idle"
  /\ ping' = "asking" /\ dbUp' = FALSE
  /\ UNCHANGED <<proc, starts, db, logins, issued, jar, req>>

\* Every 15 seconds.
BeginPing ==
  /\ proc = "running" /\ ping = "idle"
  /\ ping' = "asking"
  /\ UNCHANGED <<proc, starts, db, dbUp, logins, issued, jar, req>>

\* Mutant of Found: only a connection that is refused is noticed.
FoundRefused == db # "down"

Found == Reachable

\* Within 2 seconds, or at once when the background context is cancelled.
EndPing ==
  /\ ping = "asking"
  /\ IF proc = "running" THEN dbUp' = Found /\ ping' = "idle"
     ELSE dbUp' \in {FALSE, Found} /\ ping' = "over"
  /\ UNCHANGED <<proc, starts, db, logins, issued, jar, req>>

------------------------------------------------------------------------------
(* The process. *)

\* The process is gone, with what it had in memory and what it was doing.
End ==
  /\ proc' = "over"
  /\ ping' = "over"
  /\ logins' = [k \in Cookies |-> NoUser]
  /\ req' = [r \in Requests |-> IF req[r].pc \in {"new", "done"} THEN req[r]
                                ELSE Idle("lost")]
  /\ UNCHANGED <<starts, db, dbUp, issued, jar>>

MapPcs == {"check", "auth", "role", "lookup", "store"}

\* "concurrent map read and map write", or two writes.
MapFault ==
  /\ Serving
  /\ \E r, q \in Requests : r # q /\ At(r, "store") /\ req[q].pc \in MapPcs
  /\ End

\* SIGTERM, from a person or from Kubernetes after /health has failed three times
\* (livenessProbe): the background context is cancelled and no more requests are
\* accepted.
Stop ==
  /\ proc = "running"
  /\ proc' = "draining"
  /\ ping' = IF ping = "idle" THEN "over" ELSE ping
  /\ UNCHANGED <<starts, db, dbUp, logins, issued, jar, req>>

\* The requests Shutdown waits for.
Waits == {r \in Requests : InHttp(r)}

Drained ==
  /\ proc = "draining"
  /\ Waits = {}
  /\ proc' = "closing"
  /\ UNCHANGED <<starts, db, dbUp, ping, logins, issued, jar, req>>

\* 10 seconds are over: Fatal, without any deferred call.
AbandonRequests ==
  /\ proc = "draining"
  /\ Waits # {}
  /\ End

\* dbPool.Close, which waits for the connections that are in use.
ClosePool ==
  /\ proc = "closing"
  /\ Conns = {}
  /\ End

\* 30 seconds after SIGTERM.
Kill ==
  /\ proc \in {"draining", "closing"}
  /\ End

Restart ==
  /\ proc = "over"
  /\ starts < MaxStarts
  /\ starts' = starts + 1
  /\ proc' = "running"
  /\ dbUp' = FALSE /\ ping' = "asking"
  /\ UNCHANGED <<db, logins, issued, jar, req>>

------------------------------------------------------------------------------

\* The next step of a handler, when it can take one.
Handle(r) ==
  \/ \E role \in Roles \cup {NoUser} : Login(r, role)
  \/ StoreLogin(r)
  \/ Logout(r)
  \/ Check(r)
  \/ Authenticate(r)
  \/ RequireRole(r)
  \/ Acquire(r)
  \/ \E code \in {200, 404, 500} : Query(r, code)
  \/ LookUpAgain(r)
  \/ Health(r)
  \/ FirstLists(r)

Shutdown == Drained \/ AbandonRequests \/ ClosePool

Step ==
  \/ \E r \in Requests, c \in Clients, kind \in AllKinds : Send(r, c, kind)
  \/ \E r \in Requests : Handle(r) \/ GoAway(r)
  \/ DbChanges
  \/ BeginPing
  \/ EndPing
  \/ MapFault
  \/ Stop
  \/ Shutdown
  \/ Kill
  \/ Restart

\* In doubt until a ping succeeds, and again whenever one would not.
Doubt ==
  doubt' = (\/ ~Reachable'
            \/ starts' # starts
            \/ doubt /\ ~(ping = "asking" /\ ping' = "idle" /\ Reachable))

Next == Step /\ Doubt

Spec == Init /\ [][Next]_vars

\* Goroutines run on, the ticker ticks, Shutdown's deadline passes.
Fairness ==
  /\ \A r \in Requests : WF_vars(Handle(r) /\ Doubt)
  /\ WF_vars(BeginPing /\ Doubt)
  /\ WF_vars(EndPing /\ Doubt)
  /\ WF_vars(Shutdown /\ Doubt)

FairSpec == Spec /\ Fairness

------------------------------------------------------------------------------
(* Properties. *)

\* No internal error is shown as a bad gateway but after the process began, the
\* database was out of reach or the pool was exhausted since it was last
\* reached, or the shutdown has cut the last ping short.
BadGatewayHasCause == proc = "running" /\ ~dbUp => doubt

\* Whoever got past the Middleware is found again by every later look at the
\* logins, an admin as an admin: logins end with the process only.
LoginsLast ==
  \A r \in Requests :
    /\ req[r].pc \in {"role", "work", "query", "lookup", "first"} => UserOf(r) # NoUser
    /\ req[r].pc \in {"work", "query"} /\ req[r].kind = "manage" => UserOf(r) = "admin"

\* What makes these inductive: a login that is on its way into the map has a
\* cookie of its own, that nobody has yet.
LoginsFresh ==
  /\ \A k \in Cookies : logins[k] # NoUser => k <= issued
  /\ \A r \in Requests : At(r, "store") =>
       /\ req[r].cookie \in 1..issued
       /\ logins[req[r].cookie] = NoUser
       /\ \A q \in Requests \ {r} : At(q, "store") => req[q].cookie # req[r].cookie

\* The inductive invariant of the proofs.
IndInv ==
  /\ TypeOK
  /\ BadGatewayHasCause
  /\ LoginsLast
  /\ LoginsFresh

\* The flag follows the database, when the process lasts.
FlagFollows ==
  /\ <>[](proc = "running" /\ db = "up")  => <>[]dbUp
  /\ <>[](proc = "running" /\ db # "up") => <>[]~dbUp

\* Every request comes to an end, unless the database hangs for good.
RequestsEnd ==
  <>[](db # "hangs") =>
    \A r \in Requests : [](InHttp(r) => <>(req[r].pc \in {"done", "lost"} \cup LivePcs))

\* A process that was told to end does.
StoppedEnds == <>[](db # "hangs") => [](proc \in {"draining", "closing"} => <>(proc = "over"))
================================================================================

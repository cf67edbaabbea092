------------------------------ MODULE ServerProofs ------------------------------
(***************************************************************************)
(* Proofs about Server, for any number of clients and requests: what a     *)
(* 502 says of the database, and what a request may rely on of its login.  *)
(* Nearly every action of a handler moves one request and leaves the       *)
(* logins alone (PlainMove); storing a login and the end of the process    *)
(* are apart.                                                              *)
(***************************************************************************)
EXTENDS Server, TLAPS

USE ClientsAssumption, KindsAssumption, BoundsAssumption

Pcs == {"new", "done", "lost"} \cup HttpPcs \cup LivePcs

\* Past the Middleware.
InPcs == {"role", "work", "query", "lookup", "first"}

RoleOf(k) == IF k = NoCookie THEN NoUser ELSE logins[k]

\* A request that may stand where it does without storing a login.
Fits(rec) ==
  /\ rec \in Request
  /\ rec.pc # "store"
  /\ rec.pc \in InPcs => RoleOf(rec.cookie) # NoUser
  /\ rec.pc \in {"work", "query"} /\ rec.kind = "manage" => RoleOf(rec.cookie) = "admin"

\* The conjuncts of the invariant that speak of requests and logins.
LoginsOK ==
  /\ req \in [Requests -> Request]
  /\ logins \in [Cookies -> Roles \cup {NoUser}]
  /\ issued \in 0..MaxLogins
  /\ LoginsLast
  /\ LoginsFresh

------------------------------------------------------------------------------

LEMMA IdleType ==
  ASSUME NEW pc \in {"new", "done", "lost"}
  PROVE  Idle(pc) \in Request /\ Idle(pc).pc = pc
<1>1. (CHOOSE c \in Clients : TRUE) \in Clients
  OBVIOUS
<1> QED BY <1>1 DEF Idle, Request, Roles, NoCode

LEMMA AnswerFits ==
  ASSUME NEW code \in Codes
  PROVE  Fits(Answered(code)) /\ Fits(Refused(code))
<1>1. \A n \in Codes : Fits(Answered(n))
  <2> SUFFICES ASSUME NEW n \in Codes PROVE Fits(Answered(n))
    OBVIOUS
  <2>1. Idle("done") \in Request /\ Idle("done").pc = "done"
    BY IdleType
  <2>2. Answered(n) \in Request /\ Answered(n).pc = "done"
    BY <2>1 DEF Answered, Request
  <2> QED BY <2>2 DEF Fits, InPcs
<1>2. Shown(code) \in Codes
  BY DEF Shown, Codes
<1>3. Refused(code) = Answered(Shown(code))
  BY DEF Refused, Answered
<1> QED BY <1>1, <1>2, <1>3

LEMMA LostFits ==
  Fits(Idle("lost"))
  BY IdleType DEF Fits, InPcs

LEMMA ToType ==
  ASSUME req \in [Requests -> Request], NEW r \in Requests, NEW rec \in Request, To(r, rec)
  PROVE  /\ req' \in [Requests -> Request]
         /\ req'[r] = rec
         /\ \A q \in Requests \ {r} : req'[q] = req[q]
  BY DEF To

\* Moving on to another step.
LEMMA PcType ==
  ASSUME NEW rec \in Request, NEW pc \in Pcs, NEW new, new = [rec EXCEPT !.pc = pc]
  PROVE  /\ new \in Request /\ new.pc = pc
         /\ new.cookie = rec.cookie /\ new.kind = rec.kind
  BY DEF Request, Pcs

\* One request moves, and no login changes.
LEMMA PlainMove ==
  ASSUME LoginsOK, NEW r \in Requests, NEW rec, Fits(rec), To(r, rec),
         logins' = logins, issued' \in issued..MaxLogins
  PROVE  LoginsOK'
<1>1. /\ req' \in [Requests -> Request]
      /\ req'[r] = rec
      /\ \A q \in Requests \ {r} : req'[q] = req[q]
  BY ToType DEF LoginsOK, Fits
<1>2. issued \in 0..MaxLogins /\ issued' \in 0..MaxLogins /\ issued <= issued'
  BY DEF LoginsOK
<1>3. LoginsLast'
  <2> SUFFICES ASSUME NEW q \in Requests
               PROVE  /\ req'[q].pc \in InPcs => UserOf(q)' # NoUser
                      /\ req'[q].pc \in {"work", "query"} /\ req'[q].kind = "manage" => UserOf(q)' = "admin"
    BY DEF LoginsLast, InPcs
  <2>1. CASE q = r
    BY <2>1, <1>1 DEF Fits, UserOf, RoleOf
  <2>2. CASE q # r
    BY <2>2, <1>1 DEF LoginsOK, LoginsLast, UserOf, InPcs
  <2> QED BY <2>1, <2>2
<1>4. LoginsFresh'
  <2>1. \A k \in Cookies : logins'[k] # NoUser => k <= issued'
    <3> SUFFICES ASSUME NEW k \in Cookies, logins'[k] # NoUser PROVE k <= issued'
      OBVIOUS
    <3>1. k <= issued
      BY DEF LoginsOK, LoginsFresh
    <3> QED BY <3>1, <1>2 DEF Cookies
  <2>2. \A q \in Requests : At(q, "store")' => q # r /\ At(q, "store") /\ req'[q] = req[q]
    BY <1>1 DEF At, Fits
  <2>3. \A q \in Requests : At(q, "store")' =>
          /\ req'[q].cookie \in 1..issued'
          /\ logins'[req'[q].cookie] = NoUser
          /\ \A p \in Requests \ {q} : At(p, "store")' => req'[p].cookie # req'[q].cookie
    <3> SUFFICES ASSUME NEW q \in Requests, At(q, "store")'
                 PROVE  /\ req'[q].cookie \in 1..issued'
                        /\ logins'[req'[q].cookie] = NoUser
                        /\ \A p \in Requests \ {q} : At(p, "store")' => req'[p].cookie # req'[q].cookie
      OBVIOUS
    <3>1. /\ req[q].cookie \in 1..issued
          /\ logins[req[q].cookie] = NoUser
          /\ \A p \in Requests \ {q} : At(p, "store") => req[p].cookie # req[q].cookie
      BY <2>2 DEF LoginsOK, LoginsFresh
    <3> QED BY <3>1, <2>2, <1>2
  <2> QED BY <2>1, <2>3 DEF LoginsFresh
<1> QED BY <1>1, <1>2, <1>3, <1>4 DEF LoginsOK

\* The process ends: nobody is logged in, and no request is under way.
LEMMA EndMove ==
  ASSUME LoginsOK, End
  PROVE  LoginsOK'
<1>1. \A r \in Requests : /\ req'[r] \in Request
                          /\ req'[r].pc \in {"new", "done", "lost"}
  BY IdleType DEF End, LoginsOK
<1>2. req' \in [Requests -> Request]
  BY <1>1 DEF End
<1>3. logins' = [k \in Cookies |-> NoUser] /\ issued' = issued
  BY DEF End
<1>4. LoginsLast'
  BY <1>1 DEF LoginsLast
<1>5. LoginsFresh'
  BY <1>1, <1>3 DEF LoginsFresh, At
<1> QED BY <1>2, <1>3, <1>4, <1>5 DEF LoginsOK

------------------------------------------------------------------------------
(* The steps of a handler. *)

\* The request as it stands.
LEMMA Standing ==
  ASSUME LoginsOK, NEW r \in Requests
  PROVE  /\ req[r] \in Request /\ UserOf(r) = RoleOf(req[r].cookie)
         /\ req[r].pc \in InPcs => UserOf(r) # NoUser
         /\ req[r].pc \in {"work", "query"} /\ req[r].kind = "manage" => UserOf(r) = "admin"
  BY DEF LoginsOK, LoginsLast, UserOf, RoleOf, InPcs

LEMMA SendMove ==
  ASSUME TypeOK, LoginsOK, NEW r \in Requests, NEW c \in Clients, NEW kind \in AllKinds, Send(r, c, kind)
  PROVE  LoginsOK'
<1> DEFINE rec == [req[r] EXCEPT !.client = c, !.kind = kind, !.pc = FirstPc(kind), !.cookie = jar[c]]
<1>1. req[r] \in Request /\ jar[c] \in Cookies \cup {NoCookie} /\ kind \in Kinds
  BY Standing DEF TypeOK, Send
<1>2. FirstPc(kind) \in {"login", "clear", "check", "auth", "ping"}
  BY DEF FirstPc
<1>3. rec \in Request /\ rec.pc = FirstPc(kind)
  BY <1>1, <1>2 DEF Request, HttpPcs
<1>4. Fits(rec)
  BY <1>2, <1>3 DEF Fits, InPcs
<1>5. To(r, rec) /\ logins' = logins /\ issued' = issued
  BY DEF Send
<1> QED BY <1>4, <1>5, PlainMove DEF LoginsOK

LEMMA LoginMove ==
  ASSUME LoginsOK, NEW r \in Requests, NEW role \in Roles \cup {NoUser}, Login(r, role)
  PROVE  LoginsOK'
<1>1. CASE role = NoUser
  <2>1. Fits(Refused(401))
    BY AnswerFits DEF Codes
  <2>2. To(r, Refused(401)) /\ logins' = logins /\ issued' = issued
    BY <1>1 DEF Login
  <2> QED BY <2>1, <2>2, PlainMove DEF LoginsOK
<1>2. CASE role # NoUser
  <2> DEFINE rec == [req[r] EXCEPT !.pc = "store", !.cookie = issued + 1, !.role = role]
  <2>1. /\ To(r, rec) /\ logins' = logins
        /\ issued' = issued + 1 /\ issued + 1 \in 1..MaxLogins
        /\ issued \in 0..MaxLogins
    BY <1>2 DEF Login, LoginsOK, NewCookie
  <2>2. req[r] \in Request /\ role \in Roles
    BY <1>2, Standing
  <2>3. rec \in Request /\ rec.pc = "store" /\ rec.cookie = issued + 1
    BY <2>1, <2>2 DEF Request, Cookies, HttpPcs
  <2>4. /\ req' \in [Requests -> Request]
        /\ req'[r] = rec
        /\ \A q \in Requests \ {r} : req'[q] = req[q]
    BY <2>1, <2>3, ToType DEF LoginsOK
  <2>5. LoginsLast'
    BY <2>1, <2>3, <2>4 DEF LoginsOK, LoginsLast, UserOf
  <2>6. \A k \in Cookies : logins'[k] # NoUser => k <= issued /\ k <= issued'
    BY <2>1 DEF LoginsOK, LoginsFresh, Cookies
  <2>7. logins'[issued + 1] = NoUser
    BY <2>1, <2>6 DEF Cookies
  <2>8. \A q \in Requests \ {r} : At(q, "store")' =>
          /\ req'[q].cookie \in 1..issued
          /\ logins'[req'[q].cookie] = NoUser
          /\ \A p \in Requests \ {q, r} : At(p, "store")' => req'[p].cookie # req'[q].cookie
    BY <2>1, <2>4 DEF LoginsOK, LoginsFresh, At
  <2>9. LoginsFresh'
    <3> SUFFICES ASSUME NEW q \in Requests, At(q, "store")'
                 PROVE  /\ req'[q].cookie \in 1..issued'
                        /\ logins'[req'[q].cookie] = NoUser
                        /\ \A p \in Requests \ {q} : At(p, "store")' => req'[p].cookie # req'[q].cookie
      BY <2>6 DEF LoginsFresh
    <3>1. CASE q = r
      BY <3>1, <2>1, <2>3, <2>4, <2>7, <2>8
    <3>2. CASE q # r
      <4>1. /\ req'[q].cookie \in 1..issued /\ req'[q].cookie \in 1..issued'
            /\ logins'[req'[q].cookie] = NoUser
        BY <3>2, <2>1, <2>8
      <4>2. req'[r].cookie # req'[q].cookie
        BY <4>1, <2>1, <2>3, <2>4
      <4> QED BY <3>2, <4>1, <4>2, <2>8
    <3> QED BY <3>1, <3>2
  <2> QED BY <2>1, <2>4, <2>5, <2>9 DEF LoginsOK, Cookies
<1> QED BY <1>1, <1>2

LEMMA StoreMove ==
  ASSUME LoginsOK, NEW r \in Requests, StoreLogin(r)
  PROVE  LoginsOK'
<1> DEFINE k == req[r].cookie
<1>1. /\ At(r, "store") /\ k \in 1..issued /\ logins[k] = NoUser
      /\ issued \in 0..MaxLogins /\ issued' = issued /\ k \in Cookies /\ k # NoCookie
  BY DEF StoreLogin, LoginsOK, LoginsFresh, Cookies, NoCookie
<1>2. req[r] \in Request /\ req[r].role \in Roles
  BY Standing DEF Request
<1>3. Fits(Answered(200))
  BY AnswerFits DEF Codes
<1>4. /\ req' \in [Requests -> Request]
      /\ req'[r] = Answered(200)
      /\ \A q \in Requests \ {r} : req'[q] = req[q]
  BY <1>3, ToType DEF LoginsOK, StoreLogin, Fits
<1>5. logins' = [logins EXCEPT ![k] = req[r].role]
  BY DEF StoreLogin
<1>6. logins' \in [Cookies -> Roles \cup {NoUser}]
  BY <1>1, <1>2, <1>5 DEF LoginsOK
<1>7. logins'[k] # NoUser /\ \A j \in Cookies : j # k => logins'[j] = logins[j]
  BY <1>1, <1>2, <1>5 DEF LoginsOK, Roles, NoUser
<1>8. LoginsLast'
  <2> SUFFICES ASSUME NEW q \in Requests
               PROVE  /\ req'[q].pc \in InPcs => UserOf(q)' # NoUser
                      /\ req'[q].pc \in {"work", "query"} /\ req'[q].kind = "manage" => UserOf(q)' = "admin"
    BY DEF LoginsLast, InPcs
  <2>1. CASE q = r
    BY <2>1, <1>3, <1>4 DEF Fits, Answered, Idle, InPcs
  <2>2. CASE q # r
    <3>1. req'[q] = req[q] /\ req[q].cookie \in Cookies \cup {NoCookie}
      BY <2>2, <1>4 DEF LoginsOK, Request
    <3>2. UserOf(q) # NoUser => UserOf(q)' = UserOf(q)
      BY <3>1, <1>1, <1>7 DEF UserOf
    <3> QED BY <3>1, <3>2, Standing DEF NoUser, InPcs
  <2> QED BY <2>1, <2>2
<1>9. LoginsFresh'
  <2>1. \A j \in Cookies : logins'[j] # NoUser => j <= issued'
    BY <1>1, <1>7 DEF LoginsOK, LoginsFresh
  <2>2. \A q \in Requests : At(q, "store")' => q # r /\ At(q, "store") /\ req'[q] = req[q]
    BY <1>3, <1>4 DEF At, Fits
  <2>3. \A q \in Requests : At(q, "store") =>
          /\ req[q].cookie \in 1..issued /\ req[q].cookie \in Cookies
          /\ logins[req[q].cookie] = NoUser
          /\ \A p \in Requests \ {q} : At(p, "store") => req[p].cookie # req[q].cookie
    BY <1>1 DEF LoginsOK, LoginsFresh, Cookies
  <2>4. \A q \in Requests : At(q, "store")' => logins'[req'[q].cookie] = NoUser
    BY <1>1, <1>7, <2>2, <2>3
  <2> QED BY <1>1, <2>1, <2>2, <2>3, <2>4 DEF LoginsFresh
<1> QED BY <1>1, <1>4, <1>6, <1>8, <1>9 DEF LoginsOK

\* The other steps move on or answer.
LEMMA HandleMove ==
  ASSUME TypeOK, LoginsOK, NEW r \in Requests,
         Handle(r), ~StoreLogin(r), \A role \in Roles \cup {NoUser} : ~Login(r, role)
  PROVE  LoginsOK'
<1>1. /\ req[r] \in Request /\ UserOf(r) = RoleOf(req[r].cookie)
      /\ req[r].pc \in InPcs => UserOf(r) # NoUser
      /\ req[r].pc \in {"work", "query"} /\ req[r].kind = "manage" => UserOf(r) = "admin"
  BY Standing
<1>2. \A code \in Codes : Fits(Answered(code)) /\ Fits(Refused(code))
  BY AnswerFits
<1>3. {200, 302, 401, 404, 500, 503} \subseteq Codes
  BY DEF Codes
<1>4. \A pc \in {"role", "work", "query", "lookup", "first", "live"} :
        /\ [req[r] EXCEPT !.pc = pc] \in Request
        /\ [req[r] EXCEPT !.pc = pc].pc = pc
        /\ [req[r] EXCEPT !.pc = pc].cookie = req[r].cookie
        /\ [req[r] EXCEPT !.pc = pc].kind = req[r].kind
  BY <1>1, PcType DEF Pcs, HttpPcs, LivePcs
<1>5. ASSUME NEW rec, To(r, rec), Fits(rec), logins' = logins, issued' = issued
      PROVE  LoginsOK'
  BY <1>5, PlainMove DEF LoginsOK
<1>6. CASE Logout(r)
  BY <1>6, <1>2, <1>3, <1>5 DEF Logout, Forgotten
<1>7. CASE Check(r)
  BY <1>7, <1>2, <1>3, <1>5 DEF Check
<1>8. CASE Authenticate(r)
  <2>1. CASE UserOf(r) = NoUser
    <3>1. To(r, Answered(302)) /\ logins' = logins /\ issued' = issued
      BY <2>1, <1>8 DEF Authenticate
    <3> QED BY <3>1, <1>2, <1>3, <1>5
  <2>2. CASE UserOf(r) # NoUser /\ req[r].kind = "manage"
    <3>1. Fits([req[r] EXCEPT !.pc = "role"])
      BY <2>2, <1>1, <1>4 DEF Fits
    <3> QED BY <2>2, <3>1, <1>8, <1>5 DEF Authenticate
  <2>3. CASE UserOf(r) # NoUser /\ req[r].kind # "manage"
    <3>1. Fits([req[r] EXCEPT !.pc = "work"])
      BY <2>3, <1>1, <1>4 DEF Fits
    <3> QED BY <2>3, <3>1, <1>8, <1>5 DEF Authenticate
  <2> QED BY <2>1, <2>2, <2>3
<1>9. CASE RequireRole(r)
  <2>1. CASE UserOf(r) = "admin"
    <3>1. Fits([req[r] EXCEPT !.pc = "work"])
      BY <2>1, <1>1, <1>4 DEF Fits, NoUser
    <3> QED BY <2>1, <3>1, <1>9, <1>5 DEF RequireRole
  <2>2. CASE UserOf(r) # "admin"
    BY <2>2, <1>9, <1>2, <1>3, <1>5 DEF RequireRole
  <2> QED BY <2>1, <2>2
<1>10. CASE Acquire(r)
  <2>1. Fits([req[r] EXCEPT !.pc = "first"]) /\ Fits([req[r] EXCEPT !.pc = "query"])
    BY <1>10, <1>1, <1>4 DEF Acquire, At, Fits, InPcs
  <2> QED BY <2>1, <1>10, <1>5 DEF Acquire, Go
<1>11. CASE \E code \in {200, 404, 500} : Query(r, code)
  <2> PICK code \in {200, 404, 500} : Query(r, code)
    BY <1>11
  <2>1. Fits([req[r] EXCEPT !.pc = "lookup"])
    BY <1>1, <1>4 DEF Query, At, Fits, InPcs
  <2> QED BY <2>1, <1>2, <1>3, <1>5 DEF Query
<1>12. CASE LookUpAgain(r)
  <2> DEFINE rec == [req[r] EXCEPT !.pc = "work", !.kind = "read"]
  <2>1. CASE UserOf(r) = NoUser
    BY <2>1, <1>12, <1>2, <1>3, <1>5 DEF LookUpAgain
  <2>2. CASE UserOf(r) # NoUser
    <3>1. rec.pc = "work" /\ rec.kind = "read" /\ rec.cookie = req[r].cookie
      BY <1>1 DEF Request
    <3>2. rec \in Request
      BY <1>1 DEF Request, HttpPcs, AllKinds
    <3>3. Fits(rec)
      BY <3>1, <3>2, <2>2, <1>1 DEF Fits
    <3> QED BY <2>2, <3>3, <1>12, <1>5 DEF LookUpAgain
  <2> QED BY <2>1, <2>2
<1>13. CASE Health(r)
  BY <1>13, <1>2, <1>3, <1>5 DEF Health
<1>14. CASE FirstLists(r)
  <2>1. Fits([req[r] EXCEPT !.pc = "live"])
    BY <1>4 DEF Fits, InPcs
  <2> QED BY <2>1, <1>14, <1>5 DEF FirstLists, Go
<1> QED BY <1>6, <1>7, <1>8, <1>9, <1>10, <1>11, <1>12, <1>13, <1>14 DEF Handle

------------------------------------------------------------------------------
(* All steps. *)

LEMMA LoginsStep ==
  ASSUME IndInv, Step
  PROVE  LoginsOK'
<1>1. TypeOK /\ LoginsOK
  BY DEF IndInv, TypeOK, LoginsOK
<1>2. ASSUME NEW r \in Requests, NEW c \in Clients, NEW kind \in AllKinds, Send(r, c, kind)
      PROVE  LoginsOK'
  BY <1>1, <1>2, SendMove
<1>3. ASSUME NEW r \in Requests, Handle(r)
      PROVE  LoginsOK'
  <2>1. CASE StoreLogin(r)
    BY <1>1, <2>1, StoreMove
  <2>2. CASE \E role \in Roles \cup {NoUser} : Login(r, role)
    BY <1>1, <2>2, LoginMove
  <2>3. CASE ~StoreLogin(r) /\ \A role \in Roles \cup {NoUser} : ~Login(r, role)
    BY <1>1, <1>3, <2>3, HandleMove
  <2> QED BY <2>1, <2>2, <2>3
<1>4. ASSUME NEW r \in Requests, GoAway(r)
      PROVE  LoginsOK'
  BY <1>1, <1>4, LostFits, PlainMove DEF GoAway, LoginsOK
<1>5. CASE End
  BY <1>1, <1>5, EndMove
<1>6. CASE UNCHANGED <<logins, issued, req>>
  BY <1>1, <1>6 DEF LoginsOK, LoginsLast, LoginsFresh, UserOf, At
<1>7. CASE DbChanges \/ BeginPing \/ EndPing \/ Stop \/ Drained \/ Restart
  BY <1>6, <1>7 DEF DbChanges, BeginPing, EndPing, Stop, Drained, Restart
<1>8. CASE MapFault \/ AbandonRequests \/ ClosePool \/ Kill
  BY <1>5, <1>8 DEF MapFault, AbandonRequests, ClosePool, Kill
<1> QED BY <1>2, <1>3, <1>4, <1>7, <1>8 DEF Step, Shutdown

\* What the other variables are, whoever moves.
RestOK ==
  /\ proc \in {"running", "draining", "closing", "over"}
  /\ starts \in 1..MaxStarts
  /\ db \in {"up", "down", "hangs"}
  /\ dbUp \in BOOLEAN
  /\ ping \in {"asking", "idle", "over"}
  /\ doubt \in BOOLEAN

Rest == <<proc, starts, db, dbUp, ping>>

LEMMA HandleKeepsRest ==
  ASSUME NEW r \in Requests, Handle(r)
  PROVE  UNCHANGED Rest
  BY DEF Handle, Login, StoreLogin, Logout, Check, Authenticate, RequireRole, Acquire, Query,
         LookUpAgain, Health, FirstLists, Rest

LEMMA RestStep ==
  ASSUME RestOK, Step, Doubt
  PROVE  RestOK'
<1>1. doubt' \in BOOLEAN
  BY DEF Doubt
<1>2. CASE UNCHANGED Rest
  BY <1>1, <1>2 DEF RestOK, Rest
<1>3. CASE \/ \E r \in Requests, c \in Clients, kind \in AllKinds : Send(r, c, kind)
           \/ \E r \in Requests : Handle(r) \/ GoAway(r)
  BY <1>2, <1>3, HandleKeepsRest DEF Send, GoAway, Rest
<1>4. CASE DbChanges \/ BeginPing \/ Stop \/ Drained
  BY <1>1, <1>4 DEF DbChanges, BeginPing, Stop, Drained, RestOK
<1>5. CASE EndPing
  <2>1. Found \in BOOLEAN
    BY DEF Found, Reachable
  <2> QED BY <1>1, <1>5, <2>1 DEF EndPing, RestOK
<1>6. CASE MapFault \/ AbandonRequests \/ ClosePool \/ Kill
  BY <1>1, <1>6 DEF MapFault, AbandonRequests, ClosePool, Kill, End, RestOK
<1>7. CASE Restart
  <2>1. starts' \in 1..MaxStarts
    BY <1>7 DEF Restart, RestOK
  <2>2. proc' = "running" /\ dbUp' = FALSE /\ ping' = "asking" /\ db' = db
    BY <1>7 DEF Restart
  <2> QED BY <1>1, <2>1, <2>2 DEF RestOK
<1> QED BY <1>3, <1>4, <1>5, <1>6, <1>7 DEF Step, Shutdown

LEMMA JarStep ==
  ASSUME TypeOK, LoginsOK, Step
  PROVE  jar' \in [Clients -> Cookies \cup {NoCookie}]
<1>1. ASSUME NEW r \in Requests, Handle(r)
      PROVE  jar' \in [Clients -> Cookies \cup {NoCookie}]
  <2>1. req[r].client \in Clients /\ req[r].cookie \in Cookies \cup {NoCookie}
    BY DEF TypeOK, Request
  <2>2. CASE StoreLogin(r)
    BY <2>1, <2>2 DEF StoreLogin, TypeOK
  <2>3. CASE Logout(r)
    BY <2>1, <2>3 DEF Logout, TypeOK
  <2>4. CASE UNCHANGED jar
    BY <2>4 DEF TypeOK
  <2> QED BY <1>1, <2>2, <2>3, <2>4
       DEF Handle, Login, Check, Authenticate, RequireRole, Acquire, Query, LookUpAgain, Health, FirstLists
<1>2. CASE UNCHANGED jar
  BY <1>2 DEF TypeOK
<1>3. CASE \E r \in Requests, c \in Clients, kind \in AllKinds : Send(r, c, kind)
  BY <1>2, <1>3 DEF Send
<1>4. CASE \E r \in Requests : GoAway(r)
  BY <1>2, <1>4 DEF GoAway
<1>5. CASE DbChanges \/ BeginPing \/ EndPing \/ Stop \/ Restart
  BY <1>2, <1>5 DEF DbChanges, BeginPing, EndPing, Stop, Restart
<1>6. CASE MapFault \/ Shutdown \/ Kill
  BY <1>2, <1>6 DEF MapFault, Shutdown, Drained, AbandonRequests, ClosePool, Kill, End
<1> QED BY <1>1, <1>3, <1>4, <1>5, <1>6 DEF Step

\* The flag is false only as long as there is doubt: the ping that ends the
\* doubt sets it, and one that clears it could not reach the database.
LEMMA FlagStep ==
  ASSUME RestOK, BadGatewayHasCause, Step, Doubt
  PROVE  BadGatewayHasCause'
<1>1. CASE EndPing
  <2>1. Reachable' <=> Reachable
    BY <1>1 DEF EndPing, Reachable, Full, Conns
  <2> QED BY <1>1, <2>1 DEF EndPing, Found, Doubt, BadGatewayHasCause, RestOK
<1>2. CASE Restart
  BY <1>2 DEF Restart, Doubt, BadGatewayHasCause, RestOK
<1>3. CASE UNCHANGED <<dbUp, ping>> /\ (proc' = proc \/ proc' # "running")
  BY <1>3 DEF Doubt, BadGatewayHasCause, RestOK
<1>4. CASE \/ \E r \in Requests, c \in Clients, kind \in AllKinds : Send(r, c, kind)
           \/ \E r \in Requests : Handle(r) \/ GoAway(r)
  BY <1>3, <1>4, HandleKeepsRest DEF Send, GoAway, Rest
<1>5. CASE DbChanges \/ Drained
  BY <1>3, <1>5 DEF DbChanges, Drained
<1>6. CASE BeginPing
  BY <1>6 DEF BeginPing, Doubt, BadGatewayHasCause, RestOK
<1>7. CASE Stop
  BY <1>7 DEF Stop, BadGatewayHasCause
<1>8. CASE MapFault \/ AbandonRequests \/ ClosePool \/ Kill
  BY <1>8 DEF MapFault, AbandonRequests, ClosePool, Kill, End, BadGatewayHasCause
<1> QED BY <1>1, <1>2, <1>4, <1>5, <1>6, <1>7, <1>8 DEF Step, Shutdown

LEMMA InitIndInv == Init => IndInv
<1> SUFFICES ASSUME Init PROVE IndInv
  OBVIOUS
<1>1. req \in [Requests -> Request] /\ \A r \in Requests : req[r].pc = "new"
  BY IdleType DEF Init
<1>2. /\ logins \in [Cookies -> Roles \cup {NoUser}]
      /\ issued \in 0..MaxLogins
      /\ jar \in [Clients -> Cookies \cup {NoCookie}]
      /\ \A k \in Cookies : logins[k] # NoUser => k <= issued
  BY DEF Init, Cookies, NoCookie
<1>3. starts \in 1..MaxStarts
  BY DEF Init
<1>4. TypeOK
  <2>1. dbUp \in BOOLEAN /\ doubt \in BOOLEAN
    BY DEF Init
  <2> QED BY <1>1, <1>2, <1>3, <2>1 DEF Init, TypeOK
<1> QED BY <1>1, <1>2, <1>4 DEF Init, IndInv, BadGatewayHasCause, LoginsLast, LoginsFresh, At

LEMMA NextIndInv == IndInv /\ [Next]_vars => IndInv'
<1> SUFFICES ASSUME IndInv, [Next]_vars PROVE IndInv'
  OBVIOUS
<1>1. TypeOK /\ RestOK /\ LoginsOK /\ BadGatewayHasCause
  BY DEF IndInv, TypeOK, RestOK, LoginsOK
<1>2. CASE Next
  <2>1. LoginsOK' /\ RestOK' /\ BadGatewayHasCause'
    BY <1>1, <1>2, LoginsStep, RestStep, FlagStep DEF Next
  <2>2. jar' \in [Clients -> Cookies \cup {NoCookie}]
    BY <1>1, <1>2, JarStep DEF Next
  <2> QED BY <2>1, <2>2 DEF IndInv, TypeOK, LoginsOK, RestOK
<1>3. CASE UNCHANGED vars
  BY <1>3 DEF vars, IndInv, TypeOK, BadGatewayHasCause, LoginsLast, LoginsFresh, UserOf, At
<1> QED BY <1>2, <1>3

\* The inductive invariant of the process holds.
THEOREM Invariance == Spec => []IndInv
  BY InitIndInv, NextIndInv, PTL DEF Spec

\* The variables keep their types.
THEOREM TypeCorrect == Spec => []TypeOK
<1>1. IndInv => TypeOK
  BY DEF IndInv
<1> QED BY <1>1, Invariance, PTL

\* shouldReturnBadGateway shows an internal error as a 502 only when the
\* database was out of reach since a ping last reached it, or none ever did.
THEOREM BadGatewaysHaveACause == Spec => []BadGatewayHasCause
<1>1. IndInv => BadGatewayHasCause
  BY DEF IndInv
<1> QED BY <1>1, Invariance, PTL

\* Who got past Middleware or RequireRole is found again, in the same role, by
\* every later look at the logins, whoever logs in or out meanwhile.
THEOREM LoginsAreKept == Spec => []LoginsLast
<1>1. IndInv => LoginsLast
  BY DEF IndInv
<1> QED BY <1>1, Invariance, PTL
================================================================================

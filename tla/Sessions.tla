------------------------------ MODULE Sessions ------------------------------
(***************************************************************************)
(* Logins, signed session cookies, admin requests and the audit log        *)
(* (src/internal/api/server.go, auth/auth.go, store/users.go).  A token    *)
(* carries the role its user had when the login read the account; no       *)
(* request looks at the account again.  Requests of one browser overlap,   *)
(* accounts are edited by the command line meanwhile, and the process may  *)
(* be restarted, with the same signing secret or another.                  *)
(* Left out: reads and malformed bodies (they change nothing), and the     *)
(* login's last_login_at.                                                  *)
(***************************************************************************)
EXTENDS Integers, FiniteSets

CONSTANTS Users, Browsers,
          Requests,      \* bound: requests in flight at once
          TTL,           \* ticks a session lasts
          SecretIsKept,  \* auth.secret is configured
          MaxFaults      \* bound: failed calls, clients gone and restarts

ASSUME SessionsAssumption ==
  /\ Users # {} /\ IsFiniteSet(Requests)
  /\ TTL \in Nat \ {0}
  /\ SecretIsKept \in BOOLEAN
  /\ MaxFaults \in Nat

Roles == {"admin", "viewer"}

\* left: ticks until exp, -1 when exp has passed; signed: with the secret of the
\* process that runs.
Token == [user : Users, role : Roles, left : -1..TTL, signed : BOOLEAN]
NoToken == [user |-> "none"]

VARIABLES account,  \* app_user: the role of each account, "none" if there is none
          held,     \* history: ticks since the account last was an admin's
          cookie,   \* each browser's session cookie
          req,      \* the requests in flight
          missing,  \* history: what happened in a user's name, less the audit rows about it
          faults    \* failed calls, clients gone and restarts so far

vars == <<account, held, cookie, req, missing, faults>>

\* held counts this far.
Far == TTL + 2

\* pc: "idle" "lookup" "issue" (login), "auth" "mutate" (admin), "record" "respond".
\* waited: ticks since the login read the account.
Idle == [pc |-> "idle"]
Busy == [pc : {"lookup", "issue", "auth", "mutate", "record", "respond"},
         kind : {"login", "refused", "logout", "mutation"}, browser : Browsers,
         token : Token \cup {NoToken}, waited : 0..1]

At(r, pc) == req[r].pc = pc
Move(r, pc) == req' = [req EXCEPT ![r].pc = pc]
Due(u, n) == missing' = [missing EXCEPT ![u] = @ + n]
Fault == faults < MaxFaults /\ faults' = faults + 1

Init ==
  /\ account = [u \in Users |-> "none"]
  /\ held = [u \in Users |-> Far]
  /\ cookie = [b \in Browsers |-> NoToken]
  /\ req = [r \in Requests |-> Idle]
  /\ missing = [u \in Users |-> 0]
  /\ faults = 0

-----------------------------------------------------------------------------
\* motzworks user add: creates the account or replaces its password and role.
AddUser(u, role) ==
  /\ account' = [account EXCEPT ![u] = role]
  /\ held' = [held EXCEPT ![u] = IF role = "admin" THEN 0 ELSE @]
  /\ UNCHANGED <<cookie, req, missing, faults>>

tables == <<account, held>>

\* A browser sends a login; role and expiry are not known yet.
BeginLogin(r, b, u) ==
  /\ At(r, "idle")
  /\ req' = [req EXCEPT ![r] =
       [pc |-> "lookup", kind |-> "login", browser |-> b, waited |-> 0,
        token |-> [user |-> u, role |-> "viewer", left |-> TTL, signed |-> TRUE]]]
  /\ UNCHANGED <<tables, cookie, missing, faults>>

\* The account is read and the password fits; bcrypt takes its time.
LookUp(r) ==
  /\ At(r, "lookup")
  /\ account[req[r].token.user] # "none"
  /\ req' = [req EXCEPT ![r].pc = "issue", ![r].token.role = account[req[r].token.user]]
  /\ UNCHANGED <<tables, cookie, missing, faults>>

\* No such account or a wrong password, or the query failed: it is all one.
Refuse(r) ==
  /\ At(r, "lookup")
  /\ Fault \/ UNCHANGED faults
  /\ req' = [req EXCEPT ![r].pc = "record", ![r].kind = "refused"]
  /\ Due(req[r].token.user, 1)
  /\ UNCHANGED <<tables, cookie>>

\* exp = now + ttl, and the claims are signed.
IssueToken(r) ==
  /\ At(r, "issue")
  /\ Move(r, "record")
  /\ Due(req[r].token.user, 1)
  /\ UNCHANGED <<tables, cookie, faults>>

-----------------------------------------------------------------------------
\* A browser sends an admin request with its cookie.
BeginMutation(r, b) ==
  /\ At(r, "idle") /\ cookie[b] # NoToken
  /\ req' = [req EXCEPT ![r] =
       [pc |-> "auth", kind |-> "mutation", browser |-> b, waited |-> 0, token |-> cookie[b]]]
  /\ UNCHANGED <<tables, cookie, missing, faults>>

\* Mutant: the expiry is left to the browser.
VerifyTokenSignature(t) == t.signed

\* Expired is now > exp: a token is good for the second it expires in.
VerifyToken(t) == t.signed /\ t.left >= 0

\* Mutant: every accepted request renews the session.
AuthorizeRenewing(r) ==
  /\ At(r, "auth")
  /\ req' = IF VerifyToken(req[r].token) /\ req[r].token.role = "admin"
            THEN [req EXCEPT ![r].pc = "mutate"] ELSE [req EXCEPT ![r] = Idle]
  /\ cookie' = IF VerifyToken(req[r].token)
               THEN [cookie EXCEPT ![req[r].browser] = [req[r].token EXCEPT !.left = TTL]]
               ELSE cookie
  /\ UNCHANGED <<tables, missing, faults>>

\* 401 without a valid token, 403 without the role.
Authorize(r) ==
  /\ At(r, "auth")
  /\ req' = IF VerifyToken(req[r].token) /\ req[r].token.role = "admin"
            THEN [req EXCEPT ![r].pc = "mutate"] ELSE [req EXCEPT ![r] = Idle]
  /\ UNCHANGED <<tables, cookie, missing, faults>>

\* 400 or 404: nothing is changed, nothing recorded.
Reject(r) ==
  /\ At(r, "mutate")
  /\ req' = [req EXCEPT ![r] = Idle]
  /\ UNCHANGED <<tables, cookie, missing, faults>>

\* One of the six handlers carries the request out.
Mutate(r) ==
  /\ At(r, "mutate")
  /\ Move(r, "record")
  /\ Due(req[r].token.user, 1)
  /\ UNCHANGED <<tables, cookie, faults>>

\* Mutant: the failure is recorded like a success.
MutateFailsAudited(r) ==
  /\ At(r, "mutate") /\ Fault
  /\ Move(r, "record")
  /\ UNCHANGED <<tables, cookie, missing>>

\* The handler answers 500 and records nothing, also when it took effect.
MutateFails(r) ==
  /\ At(r, "mutate") /\ Fault
  /\ req' = [req EXCEPT ![r] = Idle]
  /\ UNCHANGED missing \/ Due(req[r].token.user, 1)
  /\ UNCHANGED <<tables, cookie>>

\* Only the response to a login has an effect.
AfterAudit(r) ==
  req' = [req EXCEPT ![r] = IF @.kind = "login" THEN [@ EXCEPT !.pc = "respond"] ELSE Idle]

\* Best effort: the response does not depend on it.
Audit(r) ==
  /\ At(r, "record")
  /\ AfterAudit(r)
  /\ Due(req[r].token.user, -1)
  /\ UNCHANGED <<tables, cookie, faults>>

AuditFails(r) ==
  /\ At(r, "record") /\ Fault
  /\ AfterAudit(r)
  /\ UNCHANGED missing \/ Due(req[r].token.user, -1)
  /\ UNCHANGED <<tables, cookie>>

\* Anyone may log out; it is not recorded.
BeginLogout(r, b) ==
  /\ At(r, "idle")
  /\ req' = [req EXCEPT ![r] =
       [pc |-> "respond", kind |-> "logout", browser |-> b, waited |-> 0, token |-> NoToken]]
  /\ UNCHANGED <<tables, cookie, missing, faults>>

\* The cookie the response sets, if it arrives.
Respond(r) ==
  /\ At(r, "respond")
  /\ cookie' = [cookie EXCEPT ![req[r].browser] = req[r].token] \/ UNCHANGED cookie
  /\ req' = [req EXCEPT ![r] = Idle]
  /\ UNCHANGED <<tables, missing, faults>>

-----------------------------------------------------------------------------
\* A browser forgets a cookie when it expires, or when it is told to.
Forget(b) ==
  /\ cookie[b] # NoToken
  /\ cookie' = [cookie EXCEPT ![b] = NoToken]
  /\ UNCHANGED <<tables, req, missing, faults>>

Older(t) == IF t.left < 0 THEN t ELSE [t EXCEPT !.left = @ - 1]

\* A request whose token is still to be checked, or to be sent to the browser.
InUse(q) == q.pc = "auth" \/ (q.pc \in {"record", "respond"} /\ q.kind = "login")

\* Time goes by.  Between the account's lookup and the expiry's computation there is
\* nothing but bcrypt: at most one tick.
Tick ==
  /\ \A r \in Requests : At(r, "issue") => req[r].waited = 0
  /\ held' = [u \in Users |-> IF account[u] = "admin" THEN 0
                              ELSE IF held[u] < Far THEN held[u] + 1 ELSE Far]
  /\ cookie' = [b \in Browsers |-> IF cookie[b] = NoToken THEN NoToken ELSE Older(cookie[b])]
  /\ req' = [r \in Requests |->
       IF At(r, "issue") THEN [req[r] EXCEPT !.waited = 1]
       ELSE IF InUse(req[r]) THEN [req[r] EXCEPT !.token = Older(@)] ELSE req[r]]
  /\ UNCHANGED <<account, missing, faults>>

\* The process ends with its requests; an ephemeral secret ends with it.
Restart ==
  /\ Fault
  /\ req' = [r \in Requests |-> Idle]
  /\ cookie' = [b \in Browsers |->
       IF cookie[b] = NoToken THEN NoToken
       ELSE [cookie[b] EXCEPT !.signed = @ /\ SecretIsKept]]
  /\ UNCHANGED <<tables, missing>>

Begin(r) ==
  \E b \in Browsers : \/ \E u \in Users : BeginLogin(r, b, u)
                      \/ BeginMutation(r, b)
                      \/ BeginLogout(r, b)

Proceed(r) ==
  \/ LookUp(r) \/ Refuse(r) \/ IssueToken(r)
  \/ Authorize(r) \/ Reject(r) \/ Mutate(r) \/ MutateFails(r)
  \/ Audit(r) \/ AuditFails(r) \/ Respond(r)

Next ==
  \/ \E u \in Users, role \in Roles : AddUser(u, role)
  \/ \E r \in Requests : Begin(r) \/ Proceed(r)
  \/ \E b \in Browsers : Forget(b)
  \/ Tick \/ Restart

Spec == Init /\ [][Next]_vars

\* Handlers come to their end, and time passes.
FairSpec == Spec /\ WF_vars(Tick) /\ \A r \in Requests : WF_vars(Proceed(r))

-----------------------------------------------------------------------------
TypeOK ==
  /\ account \in [Users -> Roles \cup {"none"}]
  /\ held \in [Users -> 0..Far]
  /\ cookie \in [Browsers -> Token \cup {NoToken}]
  /\ req \in [Requests -> Busy \cup {Idle}]
  /\ missing \in [Users -> Int]
  /\ faults \in 0..MaxFaults

\* Whose account it is now counts as held.
HeldInv == \A u \in Users : account[u] = "admin" => held[u] = 0

\* A token that is still good was issued no longer than a session ago, to someone who
\* had the role a tick before that at the earliest.
Backed(t) == t.role = "admin" /\ t.left >= 0 => held[t.user] <= TTL - t.left + 1

\* What a request carries.
RequestInv ==
  \A r \in Requests : LET q == req[r] IN
    /\ q.pc = "lookup" => q.kind = "login" /\ q.waited = 0
    /\ q.pc \in {"lookup", "issue"} => q.token # NoToken /\ q.token.left = TTL
    /\ q.pc \in {"auth", "mutate"} => q.kind = "mutation"
    /\ q.pc \in {"auth", "mutate", "record"} => q.token # NoToken
    /\ q.pc = "respond" => q.kind \in {"login", "logout"} /\ (q.kind = "logout" <=> q.token = NoToken)

TokenInv ==
  /\ \A b \in Browsers : cookie[b] # NoToken => Backed(cookie[b])
  /\ \A r \in Requests : LET q == req[r] IN
       /\ InUse(q) /\ q.token # NoToken => Backed(q.token)
       /\ q.pc = "issue" /\ q.token.role = "admin" => held[q.token.user] <= q.waited

Recording(u) == {r \in Requests : At(r, "record") /\ req[r].token.user = u}

\* The audit log: no row without what it tells of (a login, a refused login, an admin
\* request carried out); and unless a call failed, a client went away or the
\* process ended, what has no row yet is just being recorded.
AuditComplete ==
  \A u \in Users : /\ missing[u] >= Cardinality(Recording(u))
                   /\ faults = 0 => missing[u] = Cardinality(Recording(u))

IInv == TypeOK /\ HeldInv /\ RequestInv /\ TokenInv /\ AuditComplete

\* A role that was taken away works on for as long as the sessions of its time and no
\* longer: whoever is let into an admin handler held the role within the last TTL (and
\* the tick that checking the password may take), whatever was edited, restarted or
\* delayed meanwhile (server.go:127 asks the token, auth.go:97 its expiry).
RoleBound ==
  [][\A r \in Requests :
       At(r, "auth") /\ req'[r].pc = "mutate" => held[req[r].token.user] <= TTL + 1]_vars

Acts(u) == \E r \in Requests : At(r, "mutate") /\ req[r].token.user = u

\* So an account that stays without the role stops acting as an admin in the end.
DemotedRetires == \A u \in Users : <>[](account[u] # "admin") => <>[]~Acts(u)
=============================================================================

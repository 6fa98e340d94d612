--------------------------- MODULE SessionsProofs ---------------------------
(***************************************************************************)
(* Sessions outlive their role by no more than their lifetime, and the     *)
(* audit log is complete, for any number of accounts, browsers, requests   *)
(* and faults.  Most steps change one request only: what such a step has   *)
(* to show is said once (OneRequest), and so is how the audit log's        *)
(* balance moves with the requests that are being recorded (Same, Enters,  *)
(* Leaves).                                                                *)
(***************************************************************************)
EXTENDS Sessions, FiniteSetTheorems, TLAPS

Slot == Busy \cup {Idle}

Carries(q) ==
  /\ q.pc = "lookup" => q.kind = "login" /\ q.waited = 0
  /\ q.pc \in {"lookup", "issue"} => q.token # NoToken /\ q.token.left = TTL
  /\ q.pc \in {"auth", "mutate"} => q.kind = "mutation"
  /\ q.pc \in {"auth", "mutate", "record"} => q.token # NoToken
  /\ q.pc = "respond" => q.kind \in {"login", "logout"} /\ (q.kind = "logout" <=> q.token = NoToken)

Sound(q) ==
  /\ InUse(q) /\ q.token # NoToken => Backed(q.token)
  /\ q.pc = "issue" /\ q.token.role = "admin" => held[q.token.user] <= q.waited

(* The invariant's parts about requests, request by request.               *)
LEMMA Requestwise ==
  /\ RequestInv <=> \A r \in Requests : Carries(req[r])
  /\ TokenInv <=> /\ \A b \in Browsers : cookie[b] # NoToken => Backed(cookie[b])
                  /\ \A r \in Requests : Sound(req[r])
BY DEF RequestInv, TokenInv, Carries, Sound

(* An idle request carries nothing.                                        *)
LEMMA IdleSound == Carries(Idle) /\ Sound(Idle) /\ Idle \in Slot /\ Idle.pc = "idle"
BY DEF Carries, Sound, Idle, InUse, Slot

(* A request that is not idle is one of Busy.                              *)
LEMMA BusyFields ==
  ASSUME NEW q \in Slot, q.pc # "idle"
  PROVE  /\ q \in Busy
         /\ q.pc \in {"lookup", "issue", "auth", "mutate", "record", "respond"}
         /\ q.kind \in {"login", "refused", "logout", "mutation"}
         /\ q.browser \in Browsers /\ q.waited \in 0..1
         /\ q.token # NoToken => q.token \in Token
<1>1. q \in Busy
  BY DEF Slot, Idle
<1>. QED  BY <1>1 DEF Busy

LEMMA TokenNotNone == NoToken \notin Token
<1>1. ASSUME NoToken \in Token PROVE FALSE
  <2>1. PICK u \in Users, ro \in Roles, l \in -1..TTL, g \in BOOLEAN :
          NoToken = [user |-> u, role |-> ro, left |-> l, signed |-> g]
    BY <1>1 DEF Token
  <2>. QED  BY <2>1 DEF NoToken
<1>. QED  BY <1>1

LEMMA TokenFields ==
  ASSUME NEW t \in Token
  PROVE  /\ t.user \in Users /\ t.role \in Roles /\ t.left \in -1..TTL /\ t.signed \in BOOLEAN
         /\ t.left \in Int
BY SessionsAssumption DEF Token

(* A table of tokens does not mind a history that has become shorter.      *)
LEMMA BackedAnew ==
  ASSUME TypeOK, NEW t \in Token, Backed(t),
         held' \in [Users -> 0..Far], held'[t.user] <= held[t.user]
  PROVE  Backed(t)'
<1>1. t.user \in Users /\ t.left \in Int
  BY TokenFields
<1>2. held[t.user] \in Int /\ held'[t.user] \in Int /\ TTL \in Int
  BY <1>1, SessionsAssumption DEF TypeOK, Far
<1>. QED  BY <1>1, <1>2 DEF Backed

-----------------------------------------------------------------------------
(* A step that changes one request, and tables not at all.                 *)
LEMMA OneRequest ==
  ASSUME TypeOK, HeldInv, RequestInv, TokenInv,
         NEW r \in Requests, NEW q \in Slot, req' = [req EXCEPT ![r] = q],
         Carries(q), Sound(q), UNCHANGED <<account, held>>,
         cookie' \in [Browsers -> Token \cup {NoToken}],
         \A b \in Browsers : cookie'[b] # NoToken => Backed(cookie'[b])
  PROVE  /\ req' \in [Requests -> Slot]
         /\ HeldInv' /\ RequestInv' /\ TokenInv'
<1>1. req' \in [Requests -> Slot]
  BY DEF TypeOK, Slot
<1>2. HeldInv'
  BY DEF HeldInv
<1>3. \A s \in Requests : req'[s] = IF s = r THEN q ELSE req[s]
  BY DEF TypeOK
<1>4. \A s \in Requests : Carries(req'[s]) /\ Sound(req'[s])
  BY <1>3, Requestwise
<1>5. RequestInv'
  BY <1>4 DEF RequestInv, Carries
<1>6. \A s \in Requests : Sound(req[s])'
  BY <1>4 DEF Sound, InUse, Backed
<1>7. \A b \in Browsers : cookie'[b] # NoToken => Backed(cookie[b])'
  BY DEF Backed
<1>8. TokenInv'
  BY <1>6, <1>7 DEF TokenInv, Sound
<1>. QED  BY <1>1, <1>2, <1>5, <1>8

(* Requests in flight are finitely many, those being recorded too.         *)
LEMMA RecordingFinite ==
  ASSUME NEW u \in Users
  PROVE  IsFiniteSet(Recording(u)) /\ Cardinality(Recording(u)) \in Nat
<1>1. Recording(u) \subseteq Requests
  BY DEF Recording
<1>. QED  BY <1>1, SessionsAssumption, FS_Subset, FS_CardinalityType

(* Neither enters nor leaves the recording.                                *)
LEMMA Same ==
  ASSUME TypeOK, NEW r \in Requests, NEW q \in Slot, req' = [req EXCEPT ![r] = q],
         ~At(r, "record"), q.pc # "record", NEW u \in Users
  PROVE  Recording(u)' = Recording(u)
BY DEF TypeOK, Recording, At

(* What is now to be recorded is one request more.                         *)
LEMMA Enters ==
  ASSUME TypeOK, NEW r \in Requests, NEW q \in Slot, req' = [req EXCEPT ![r] = q],
         ~At(r, "record"), q.pc = "record", NEW u \in Users
  PROVE  Cardinality(Recording(u)') = Cardinality(Recording(u)) + (IF q.token.user = u THEN 1 ELSE 0)
<1>1. CASE q.token.user = u
  <2>1. Recording(u)' = Recording(u) \cup {r} /\ r \notin Recording(u)
    BY <1>1 DEF TypeOK, Recording, At
  <2>. QED  BY <1>1, <2>1, RecordingFinite, FS_AddElement
<1>2. CASE q.token.user # u
  <2>1. Recording(u)' = Recording(u)
    BY <1>2 DEF TypeOK, Recording, At
  <2>. QED  BY <1>2, <2>1, RecordingFinite
<1>. QED  BY <1>1, <1>2

(* Recorded or given up: one request less.                                 *)
LEMMA Leaves ==
  ASSUME TypeOK, NEW r \in Requests, NEW q \in Slot, req' = [req EXCEPT ![r] = q],
         At(r, "record"), q.pc # "record", NEW u \in Users
  PROVE  Cardinality(Recording(u)') = Cardinality(Recording(u)) - (IF req[r].token.user = u THEN 1 ELSE 0)
<1>1. CASE req[r].token.user = u
  <2>1. Recording(u)' = Recording(u) \ {r} /\ r \in Recording(u)
    BY <1>1 DEF TypeOK, Recording, At
  <2>. QED  BY <1>1, <2>1, RecordingFinite, FS_RemoveElement
<1>2. CASE req[r].token.user # u
  <2>1. Recording(u)' = Recording(u)
    BY <1>2 DEF TypeOK, Recording, At
  <2>. QED  BY <1>2, <2>1, RecordingFinite
<1>. QED  BY <1>1, <1>2

(* The balance of the log after a step.                                    *)
LEMMA Balanced ==
  ASSUME TypeOK, AuditComplete, missing' \in [Users -> Int], faults' \in 0..MaxFaults,
         \A u \in Users :
           /\ missing'[u] - missing[u] >= Cardinality(Recording(u)') - Cardinality(Recording(u))
           /\ Cardinality(Recording(u)') \in Int,
         faults' = 0 => faults = 0 /\
           \A u \in Users :
             missing'[u] - missing[u] = Cardinality(Recording(u)') - Cardinality(Recording(u))
  PROVE  AuditComplete'
<1>1. ASSUME NEW u \in Users
      PROVE  /\ missing'[u] >= Cardinality(Recording(u)')
             /\ faults' = 0 => missing'[u] = Cardinality(Recording(u)')
  <2>1. missing[u] \in Int /\ missing'[u] \in Int
    BY <1>1 DEF TypeOK
  <2>2. Cardinality(Recording(u)) \in Nat
    BY <1>1, RecordingFinite
  <2>. QED  BY <1>1, <2>1, <2>2 DEF AuditComplete
<1>. QED  BY <1>1 DEF AuditComplete

-----------------------------------------------------------------------------
(* No account, no cookie, no request.                                      *)
LEMMA InitIInv == Init => IInv
<1>. SUFFICES ASSUME Init PROVE IInv
  OBVIOUS
<1>1. TypeOK
  <2>1. Far \in 0..Far /\ MaxFaults \in Nat
    BY SessionsAssumption DEF Far
  <2>2. /\ account \in [Users -> Roles \cup {"none"}] /\ held \in [Users -> 0..Far]
        /\ cookie \in [Browsers -> Token \cup {NoToken}]
        /\ missing \in [Users -> Int] /\ faults \in 0..MaxFaults
    BY <2>1 DEF Init
  <2>3. req \in [Requests -> Busy \cup {Idle}]
    BY DEF Init
  <2>. QED  BY <2>2, <2>3 DEF TypeOK
<1>2. HeldInv
  BY DEF Init, HeldInv
<1>3. RequestInv /\ TokenInv
  BY IdleSound, Requestwise DEF Init
<1>4. AuditComplete
  <2>1. ASSUME NEW u \in Users PROVE Recording(u) = {}
    BY IdleSound DEF Init, Recording, At
  <2>. QED  BY <2>1, FS_EmptySet DEF Init, AuditComplete
<1>. QED  BY <1>1, <1>2, <1>3, <1>4 DEF IInv

(* An edited account: whoever had the role has it no later than before.    *)
LEMMA AddUserKeepsIInv ==
  ASSUME IInv, NEW u \in Users, NEW role \in Roles, AddUser(u, role)
  PROVE  IInv'
<1>1. account' \in [Users -> Roles \cup {"none"}]
  BY DEF IInv, TypeOK, AddUser
<1>2. held' \in [Users -> 0..Far]
  BY SessionsAssumption DEF IInv, TypeOK, AddUser, Far
<1>3. UNCHANGED <<cookie, req, missing, faults>>
  BY DEF AddUser
<1>4. TypeOK'
  BY <1>1, <1>2, <1>3 DEF IInv, TypeOK
<1>5. \A v \in Users : held'[v] <= held[v]
  BY SessionsAssumption DEF IInv, TypeOK, AddUser, Far
<1>6. HeldInv'
  BY DEF IInv, TypeOK, HeldInv, AddUser
<1>7. RequestInv'
  BY <1>3 DEF IInv, RequestInv
<1>8. TokenInv'
  <2>1. ASSUME NEW t \in Token, Backed(t) PROVE Backed(t)'
    BY <2>1, <1>2, <1>5, BackedAnew, TokenFields DEF IInv
  <2>2. ASSUME NEW b \in Browsers, cookie[b] # NoToken PROVE Backed(cookie[b])'
    BY <2>1, <2>2, <1>3 DEF IInv, TypeOK, TokenInv, Backed
  <2>3. ASSUME NEW r \in Requests PROVE Sound(req[r])'
    <3>1. req[r] \in Slot /\ Sound(req[r])
      BY Requestwise DEF IInv, TypeOK, Slot
    <3>2. ASSUME InUse(req[r]), req[r].token # NoToken PROVE Backed(req[r].token)'
      <4>1. req[r].token \in Token
        BY <3>1, <3>2, BusyFields DEF InUse
      <4>. QED  BY <4>1, <3>1, <3>2, <2>1, <1>3 DEF Sound, Backed
    <3>3. ASSUME req[r].pc = "issue", req[r].token.role = "admin"
          PROVE  held'[req[r].token.user] <= req[r].waited
      <4>1. req[r].token \in Token /\ req[r].waited \in 0..1
        BY <3>1, <3>3, BusyFields, Requestwise DEF IInv, Carries
      <4>2. req[r].token.user \in Users
        BY <4>1, TokenFields
      <4>. QED  BY <4>1, <4>2, <3>1, <3>3, <1>2, <1>5, SessionsAssumption DEF Sound, IInv, TypeOK, Far
    <3>. QED  BY <3>2, <3>3, <1>3 DEF Sound, InUse
  <2>. QED  BY <2>2, <2>3, <1>3 DEF TokenInv, Sound
<1>9. AuditComplete'
  BY <1>3 DEF IInv, AuditComplete, Recording, At
<1>. QED  BY <1>4, <1>6, <1>7, <1>8, <1>9 DEF IInv

-----------------------------------------------------------------------------
(* A request goes on without anything for the audit log.                   *)
LEMMA Quiet ==
  ASSUME IInv, NEW r \in Requests, NEW q \in Slot, req' = [req EXCEPT ![r] = q],
         Carries(q), Sound(q), ~At(r, "record"), q.pc # "record",
         UNCHANGED <<account, held, missing, faults>>,
         cookie' \in [Browsers -> Token \cup {NoToken}],
         \A b \in Browsers : cookie'[b] # NoToken => Backed(cookie'[b])
  PROVE  IInv'
<1>1. /\ req' \in [Requests -> Slot]
      /\ HeldInv' /\ RequestInv' /\ TokenInv'
  BY OneRequest DEF IInv
<1>2. TypeOK'
  BY <1>1 DEF IInv, TypeOK, Slot
<1>3. AuditComplete'
  <2>1. \A u \in Users : Recording(u)' = Recording(u)
    BY Same DEF IInv
  <2>. QED  BY <2>1 DEF IInv, AuditComplete
<1>. QED  BY <1>1, <1>2, <1>3 DEF IInv

(* Something happens that the audit log is to tell of.                     *)
LEMMA Opens ==
  ASSUME IInv, NEW r \in Requests, NEW q \in Busy, req' = [req EXCEPT ![r] = q],
         Carries(q), Sound(q), ~At(r, "record"), q.pc = "record", q.token \in Token,
         missing' = [missing EXCEPT ![q.token.user] = @ + 1],
         faults' \in 0..MaxFaults, faults <= faults',
         UNCHANGED <<account, held, cookie>>
  PROVE  IInv'
<1>1. q \in Slot /\ q.token.user \in Users
  BY TokenFields DEF Slot
<1>2. cookie' \in [Browsers -> Token \cup {NoToken}]
      /\ \A b \in Browsers : cookie'[b] # NoToken => Backed(cookie'[b])
  BY DEF IInv, TypeOK, TokenInv
<1>3. /\ req' \in [Requests -> Slot]
      /\ HeldInv' /\ RequestInv' /\ TokenInv'
  BY <1>1, <1>2, OneRequest DEF IInv
<1>4. missing' \in [Users -> Int]
  BY <1>1 DEF IInv, TypeOK
<1>5. TypeOK'
  BY <1>2, <1>3, <1>4 DEF IInv, TypeOK, Slot
<1>6. AuditComplete'
  <2>1. ASSUME NEW u \in Users
        PROVE  /\ Cardinality(Recording(u)') = Cardinality(Recording(u)) + (IF q.token.user = u THEN 1 ELSE 0)
               /\ missing'[u] = missing[u] + (IF q.token.user = u THEN 1 ELSE 0)
               /\ Cardinality(Recording(u)) \in Nat /\ missing[u] \in Int
    <3>1. Cardinality(Recording(u)') = Cardinality(Recording(u)) + (IF q.token.user = u THEN 1 ELSE 0)
      BY <1>1, Enters DEF IInv
    <3>2. missing'[u] = missing[u] + (IF q.token.user = u THEN 1 ELSE 0) /\ missing[u] \in Int
      BY <1>1 DEF IInv, TypeOK
    <3>. QED  BY <3>1, <3>2, RecordingFinite
  <2>2. faults \in Nat
    BY SessionsAssumption DEF IInv, TypeOK
  <2>3. faults' = 0 => faults = 0
    BY <2>2
  <2>. QED  BY <1>4, <2>1, <2>3, Balanced DEF IInv
<1>. QED  BY <1>3, <1>5, <1>6 DEF IInv

(* The login, up to the point where its token is issued.                   *)
LEMMA LoginKeepsIInv ==
  ASSUME IInv, NEW r \in Requests,
         \/ \E b \in Browsers, u \in Users : BeginLogin(r, b, u)
         \/ LookUp(r) \/ Refuse(r) \/ IssueToken(r)
  PROVE  IInv'
<1>0. /\ cookie \in [Browsers -> Token \cup {NoToken}] /\ req[r] \in Slot
      /\ \A b \in Browsers : cookie[b] # NoToken => Backed(cookie[b])
      /\ Carries(req[r]) /\ Sound(req[r])
  BY Requestwise DEF IInv, TypeOK, Slot
<1>1. ASSUME NEW b \in Browsers, NEW u \in Users, BeginLogin(r, b, u) PROVE IInv'
  <2> DEFINE q == [pc |-> "lookup", kind |-> "login", browser |-> b, waited |-> 0,
                   token |-> [user |-> u, role |-> "viewer", left |-> TTL, signed |-> TRUE]]
  <2>1. q.token \in Token /\ q.token # NoToken
    BY SessionsAssumption DEF Token, Roles, NoToken
  <2>2. q \in Slot /\ Carries(q) /\ Sound(q)
    BY <2>1 DEF Slot, Busy, Carries, Sound, InUse
  <2>3. req' = [req EXCEPT ![r] = q] /\ ~At(r, "record") /\ q.pc # "record"
        /\ UNCHANGED <<account, held, missing, faults, cookie>>
    BY <1>1 DEF BeginLogin, At, tables
  <2>. QED  BY <1>0, <2>2, <2>3, Quiet
<1>2. ASSUME LookUp(r) PROVE IInv'
  <2> DEFINE t == [req[r].token EXCEPT !.role = account[req[r].token.user]]
             q == [req[r] EXCEPT !.pc = "issue", !.token = t]
  <2>1. /\ At(r, "lookup") /\ account[req[r].token.user] # "none"
        /\ req' = [req EXCEPT ![r].pc = "issue", ![r].token.role = account[req[r].token.user]]
        /\ UNCHANGED <<account, held, missing, faults, cookie>>
    BY <1>2 DEF LookUp, tables
  <2>2. req[r] \in Busy /\ req[r].token \in Token /\ req[r].waited = 0 /\ req[r].token.left = TTL
    BY <1>0, <2>1, BusyFields DEF Carries, At
  <2>3. req[r].token.user \in Users /\ account[req[r].token.user] \in Roles
    BY <2>1, <2>2, TokenFields DEF IInv, TypeOK
  <2>4. t \in Token /\ t.left = TTL /\ t.user = req[r].token.user
        /\ t.role = account[req[r].token.user] /\ t # NoToken
    BY <2>2, <2>3 DEF Token, NoToken
  <2>5. q \in Busy /\ q.pc = "issue" /\ q.token = t /\ q.waited = 0
    BY <2>2, <2>4 DEF Busy
  <2>6. req' = [req EXCEPT ![r] = q]
    BY <2>1, <2>2 DEF IInv, TypeOK, Busy, Token
  <2>7. t.role = "admin" => held[t.user] = 0
    BY <2>3, <2>4 DEF IInv, HeldInv
  <2>8. Carries(q) /\ Sound(q)
    <3> HIDE DEF q, t
    <3>1. Carries(q)
      BY <2>4, <2>5 DEF Carries
    <3>2. Sound(q)
      BY <2>5, <2>7 DEF Sound, InUse
    <3>. QED  BY <3>1, <3>2
  <2>. QED  BY <1>0, <2>1, <2>5, <2>6, <2>8, Quiet DEF Slot, At
<1>3. ASSUME Refuse(r) PROVE IInv'
  <2> DEFINE q == [req[r] EXCEPT !.pc = "record", !.kind = "refused"]
  <2>1. /\ At(r, "lookup") /\ (Fault \/ UNCHANGED faults)
        /\ req' = [req EXCEPT ![r].pc = "record", ![r].kind = "refused"]
        /\ missing' = [missing EXCEPT ![req[r].token.user] = @ + 1]
        /\ UNCHANGED <<account, held, cookie>>
    BY <1>3 DEF Refuse, Due, tables
  <2>2. req[r] \in Busy /\ req[r].token \in Token
    BY <1>0, <2>1, BusyFields DEF Carries, At
  <2>3. q \in Busy /\ q.pc = "record" /\ q.kind = "refused" /\ q.token = req[r].token
    BY <2>2 DEF Busy
  <2>4. q.token # NoToken
    BY <2>1, <2>3, <1>0 DEF Carries, At
  <2>5. Carries(q) /\ Sound(q)
    BY <2>3, <2>4 DEF Carries, Sound, InUse
  <2>6. req' = [req EXCEPT ![r] = q]
    BY <2>1, <2>2 DEF IInv, TypeOK, Busy
  <2>7. faults' \in 0..MaxFaults /\ faults <= faults'
    BY <2>1, SessionsAssumption DEF IInv, TypeOK, Fault
  <2>. QED  BY <2>1, <2>2, <2>3, <2>5, <2>6, <2>7, Opens DEF At
<1>4. ASSUME IssueToken(r) PROVE IInv'
  <2> DEFINE q == [req[r] EXCEPT !.pc = "record"]
  <2>1. /\ At(r, "issue")
        /\ req' = [req EXCEPT ![r].pc = "record"]
        /\ missing' = [missing EXCEPT ![req[r].token.user] = @ + 1]
        /\ UNCHANGED <<account, held, cookie, faults>>
    BY <1>4 DEF IssueToken, Due, Move, tables
  <2>2. req[r] \in Busy /\ req[r].token \in Token /\ req[r].token.left = TTL
        /\ req[r].waited \in 0..1
    BY <1>0, <2>1, BusyFields DEF Carries, At
  <2>3. q \in Busy /\ q.pc = "record" /\ q.token = req[r].token
    BY <2>2 DEF Busy
  <2>4. q.token # NoToken
    BY <2>1, <2>3, <1>0 DEF Carries, At
  <2>5. Backed(q.token)
    <3>1. req[r].token.user \in Users /\ held[req[r].token.user] \in Int
      BY <2>2, TokenFields, SessionsAssumption DEF IInv, TypeOK, Far
    <3>. QED  BY <1>0, <2>1, <2>2, <2>3, <3>1, SessionsAssumption DEF Sound, Backed, At
  <2>6. Carries(q) /\ Sound(q)
    BY <2>3, <2>4, <2>5 DEF Carries, Sound
  <2>7. req' = [req EXCEPT ![r] = q]
    BY <2>1, <2>2 DEF IInv, TypeOK, Busy
  <2>8. faults' \in 0..MaxFaults /\ faults <= faults'
    BY <2>1, SessionsAssumption DEF IInv, TypeOK
  <2>. QED  BY <2>1, <2>2, <2>3, <2>6, <2>7, <2>8, Opens DEF At
<1>. QED  BY <1>1, <1>2, <1>3, <1>4

(* What every request shows before a step.                                 *)
LEMMA Before ==
  ASSUME IInv, NEW r \in Requests
  PROVE  /\ cookie \in [Browsers -> Token \cup {NoToken}] /\ req[r] \in Slot
         /\ \A b \in Browsers : cookie[b] # NoToken => Backed(cookie[b])
         /\ Carries(req[r]) /\ Sound(req[r])
BY Requestwise DEF IInv, TypeOK, Slot

(* A request that ends without anything for the audit log.                 *)
LEMMA QuietEnd ==
  ASSUME IInv, NEW r \in Requests, ~At(r, "record"), req' = [req EXCEPT ![r] = Idle],
         UNCHANGED <<account, held, missing, faults>>,
         cookie' \in [Browsers -> Token \cup {NoToken}],
         \A b \in Browsers : cookie'[b] # NoToken => Backed(cookie'[b])
  PROVE  IInv'
<1>1. Idle \in Slot /\ Carries(Idle) /\ Sound(Idle) /\ Idle.pc # "record"
  BY IdleSound
<1>. QED  BY <1>1, Quiet

(* Admin requests and logouts arrive; the cookie they bring is backed.     *)
LEMMA BeginKeepsIInv ==
  ASSUME IInv, NEW r \in Requests, NEW b \in Browsers,
         BeginMutation(r, b) \/ BeginLogout(r, b)
  PROVE  IInv'
<1>1. ASSUME BeginMutation(r, b) PROVE IInv'
  <2> DEFINE q == [pc |-> "auth", kind |-> "mutation", browser |-> b, waited |-> 0,
                   token |-> cookie[b]]
  <2>1. cookie[b] \in Token /\ cookie[b] # NoToken /\ Backed(cookie[b])
    BY <1>1, Before DEF BeginMutation
  <2>2. q \in Slot /\ Carries(q) /\ Sound(q)
    BY <2>1 DEF Slot, Busy, Carries, Sound, InUse
  <2>3. req' = [req EXCEPT ![r] = q] /\ ~At(r, "record") /\ q.pc # "record"
        /\ UNCHANGED <<account, held, missing, faults, cookie>>
    BY <1>1 DEF BeginMutation, At, tables
  <2>. QED  BY <2>2, <2>3, Before, Quiet
<1>2. ASSUME BeginLogout(r, b) PROVE IInv'
  <2> DEFINE q == [pc |-> "respond", kind |-> "logout", browser |-> b, waited |-> 0,
                   token |-> NoToken]
  <2>1. q \in Slot /\ Carries(q) /\ Sound(q)
    BY DEF Slot, Busy, Carries, Sound, InUse
  <2>2. req' = [req EXCEPT ![r] = q] /\ ~At(r, "record") /\ q.pc # "record"
        /\ UNCHANGED <<account, held, missing, faults, cookie>>
    BY <1>2 DEF BeginLogout, At, tables
  <2>. QED  BY <2>1, <2>2, Before, Quiet
<1>. QED  BY <1>1, <1>2

(* Admin requests pass or are turned away, and take effect or fail.        *)
LEMMA AdminKeepsIInv ==
  ASSUME IInv, NEW r \in Requests, Authorize(r) \/ Reject(r) \/ Mutate(r)
  PROVE  IInv'
<1>1. ASSUME Authorize(r) PROVE IInv'
  <2>1. /\ At(r, "auth") /\ ~At(r, "record")
        /\ req' = [req EXCEPT ![r].pc = "mutate"] \/ req' = [req EXCEPT ![r] = Idle]
        /\ UNCHANGED <<account, held, missing, faults, cookie>>
    BY <1>1 DEF Authorize, At, tables
  <2>2. CASE req' = [req EXCEPT ![r] = Idle]
    BY <2>1, <2>2, Before, QuietEnd
  <2>3. CASE req' = [req EXCEPT ![r].pc = "mutate"]
    <3> DEFINE q == [req[r] EXCEPT !.pc = "mutate"]
    <3>1. req[r] \in Busy /\ req[r].token # NoToken /\ req[r].kind = "mutation"
      BY <2>1, Before, BusyFields DEF Carries, At
    <3>2. q \in Slot /\ q.pc = "mutate" /\ q.token = req[r].token /\ q.kind = "mutation"
      BY <3>1 DEF Busy, Slot
    <3>3. Carries(q) /\ Sound(q)
      BY <3>1, <3>2 DEF Carries, Sound, InUse
    <3>4. req' = [req EXCEPT ![r] = q]
      BY <2>3, <3>1 DEF IInv, TypeOK, Busy
    <3>. QED  BY <2>1, <3>2, <3>3, <3>4, Before, Quiet
  <2>. QED  BY <2>1, <2>2, <2>3
<1>2. ASSUME Mutate(r) PROVE IInv'
  <2> DEFINE q == [req[r] EXCEPT !.pc = "record"]
  <2>1. /\ At(r, "mutate")
        /\ req' = [req EXCEPT ![r].pc = "record"]
        /\ missing' = [missing EXCEPT ![req[r].token.user] = @ + 1]
        /\ UNCHANGED <<account, held, cookie, faults>>
    BY <1>2 DEF Mutate, Due, Move, tables
  <2>2. /\ req[r] \in Busy /\ req[r].token \in Token /\ req[r].token # NoToken
        /\ req[r].kind = "mutation"
    BY <2>1, Before, BusyFields DEF Carries, At
  <2>3. q \in Busy /\ q.pc = "record" /\ q.token = req[r].token /\ q.kind = "mutation"
    BY <2>2 DEF Busy
  <2>4. Carries(q) /\ Sound(q)
    BY <2>2, <2>3 DEF Carries, Sound, InUse
  <2>5. req' = [req EXCEPT ![r] = q]
    BY <2>1, <2>2 DEF IInv, TypeOK, Busy
  <2>6. faults' \in 0..MaxFaults /\ faults <= faults'
    BY <2>1, SessionsAssumption DEF IInv, TypeOK
  <2>. QED  BY <2>1, <2>2, <2>3, <2>4, <2>5, <2>6, Opens DEF At
<1>3. ASSUME Reject(r) PROVE IInv'
  <2>1. /\ ~At(r, "record") /\ req' = [req EXCEPT ![r] = Idle]
        /\ UNCHANGED <<account, held, missing, faults, cookie>>
    BY <1>3 DEF Reject, At, tables
  <2>. QED  BY <2>1, Before, QuietEnd
<1>. QED  BY <1>1, <1>2, <1>3

(* A failed admin request, whether or not it took effect: a fault.         *)
LEMMA MutateFailsKeepsIInv ==
  ASSUME IInv, NEW r \in Requests, MutateFails(r)
  PROVE  IInv'
<1>1. /\ At(r, "mutate") /\ req' = [req EXCEPT ![r] = Idle]
      /\ faults' = faults + 1 /\ faults < MaxFaults
      /\ UNCHANGED missing \/ missing' = [missing EXCEPT ![req[r].token.user] = @ + 1]
      /\ UNCHANGED <<account, held, cookie>>
  BY DEF MutateFails, Fault, Due, tables
<1>2. req[r].token \in Token /\ req[r].token.user \in Users
  BY <1>1, Before, BusyFields, TokenFields DEF Carries, At
<1>3. Idle \in Slot /\ Carries(Idle) /\ Sound(Idle) /\ Idle.pc # "record" /\ ~At(r, "record")
  BY <1>1, IdleSound DEF At
<1>4. req' \in [Requests -> Slot] /\ HeldInv' /\ RequestInv' /\ TokenInv'
  BY <1>1, <1>3, Before, OneRequest DEF IInv
<1>5. /\ missing' \in [Users -> Int] /\ faults' \in 0..MaxFaults /\ faults' # 0
      /\ \A u \in Users : missing[u] \in Int /\ missing'[u] >= missing[u]
  BY <1>1, <1>2, SessionsAssumption DEF IInv, TypeOK
<1>6. TypeOK'
  BY <1>1, <1>4, <1>5 DEF IInv, TypeOK, Slot
<1>7. \A u \in Users : Recording(u)' = Recording(u)
  BY <1>1, <1>3, Same DEF IInv
<1>8. AuditComplete'
  BY <1>5, <1>7, RecordingFinite DEF IInv, AuditComplete
<1>. QED  BY <1>4, <1>6, <1>8 DEF IInv

(* A row is written, or lost, or both as far as the server can tell.       *)
LEMMA AuditKeepsIInv ==
  ASSUME IInv, NEW r \in Requests, Audit(r) \/ AuditFails(r)
  PROVE  IInv'
<1> DEFINE q == IF req[r].kind = "login" THEN [req[r] EXCEPT !.pc = "respond"] ELSE Idle
           w == req[r].token.user
<1>1. /\ At(r, "record") /\ req' = [req EXCEPT ![r] = q]
      /\ UNCHANGED <<account, held, cookie>>
      /\ \/ missing' = [missing EXCEPT ![w] = @ + (-1)] /\ UNCHANGED faults
         \/ /\ faults < MaxFaults /\ faults' = faults + 1
            /\ UNCHANGED missing \/ missing' = [missing EXCEPT ![w] = @ + (-1)]
  BY DEF Audit, AuditFails, AfterAudit, Fault, Due, tables
<1>2. req[r] \in Busy /\ req[r].token # NoToken /\ req[r].token \in Token /\ w \in Users
  BY <1>1, Before, BusyFields, TokenFields DEF Carries, At
<1>3. q \in Slot /\ q.pc # "record" /\ Carries(q) /\ Sound(q)
  <2>1. CASE req[r].kind = "login"
    <3>1. q \in Busy /\ q.pc = "respond" /\ q.kind = "login" /\ q.token = req[r].token
      BY <1>2, <2>1 DEF Busy
    <3>2. Backed(q.token)
      BY <1>1, <1>2, <2>1, <3>1, Before DEF Sound, InUse, At
    <3> HIDE DEF q
    <3>. QED  BY <1>2, <3>1, <3>2 DEF Carries, Sound, Slot
  <2>2. CASE req[r].kind # "login"
    BY <2>2, IdleSound
  <2>. QED  BY <2>1, <2>2
<1> HIDE DEF q, w
<1>4. req' \in [Requests -> Slot] /\ HeldInv' /\ RequestInv' /\ TokenInv'
  BY <1>1, <1>3, Before, OneRequest DEF IInv
<1>5. /\ missing' \in [Users -> Int] /\ faults' \in 0..MaxFaults
      /\ \A u \in Users : missing[u] \in Int
      /\ faults' = 0 => faults = 0 /\ missing' = [missing EXCEPT ![w] = @ + (-1)]
      /\ missing' = missing \/ missing' = [missing EXCEPT ![w] = @ + (-1)]
  BY <1>1, <1>2, SessionsAssumption DEF IInv, TypeOK
<1>6. TypeOK'
  BY <1>1, <1>4, <1>5 DEF IInv, TypeOK, Slot
<1>7. AuditComplete'
  <2>1. ASSUME NEW u \in Users
        PROVE  /\ Cardinality(Recording(u)') = Cardinality(Recording(u)) - (IF w = u THEN 1 ELSE 0)
               /\ Cardinality(Recording(u)) \in Nat
               /\ missing[u] \in Int
               /\ \/ missing'[u] = missing[u]
                  \/ missing'[u] = missing[u] - (IF w = u THEN 1 ELSE 0)
               /\ faults' = 0 => missing'[u] = missing[u] - (IF w = u THEN 1 ELSE 0)
    <3>1. Cardinality(Recording(u)') = Cardinality(Recording(u)) - (IF w = u THEN 1 ELSE 0)
      BY <1>1, <1>3, Leaves DEF IInv, w
    <3>2. missing[u] \in Int
          /\ (missing'[u] = missing[u]
              \/ missing'[u] = missing[u] - (IF w = u THEN 1 ELSE 0))
      BY <1>2, <1>5 DEF IInv, TypeOK
    <3>3. faults' = 0 => missing'[u] = missing[u] - (IF w = u THEN 1 ELSE 0)
      BY <1>2, <1>5 DEF IInv, TypeOK
    <3>. QED  BY <3>1, <3>2, <3>3, RecordingFinite
  <2>. QED  BY <1>5, <2>1, Balanced DEF IInv
<1>. QED  BY <1>4, <1>6, <1>7 DEF IInv

(* A response sets the cookie: the token of a login, or none.              *)
LEMMA RespondKeepsIInv ==
  ASSUME IInv, NEW r \in Requests, Respond(r)
  PROVE  IInv'
<1>1. /\ At(r, "respond") /\ ~At(r, "record") /\ req' = [req EXCEPT ![r] = Idle]
      /\ cookie' = [cookie EXCEPT ![req[r].browser] = req[r].token] \/ UNCHANGED cookie
      /\ UNCHANGED <<account, held, missing, faults>>
  BY DEF Respond, At, tables
<1>2. /\ req[r].browser \in Browsers
      /\ req[r].token # NoToken => req[r].token \in Token /\ Backed(req[r].token)
      /\ req[r].token \in Token \cup {NoToken}
  BY <1>1, Before, BusyFields DEF Carries, Sound, InUse, At
<1>3. /\ cookie' \in [Browsers -> Token \cup {NoToken}]
      /\ \A b \in Browsers : cookie'[b] # NoToken => Backed(cookie'[b])
  BY <1>1, <1>2, Before
<1>. QED  BY <1>1, <1>3, QuietEnd

(* A browser without its cookie.                                           *)
LEMMA ForgetKeepsIInv ==
  ASSUME IInv, NEW b \in Browsers, Forget(b)
  PROVE  IInv'
<1>1. cookie' = [cookie EXCEPT ![b] = NoToken] /\ UNCHANGED <<account, held, req, missing, faults>>
  BY DEF Forget, tables
<1>2. TypeOK'
  BY <1>1 DEF IInv, TypeOK
<1>3. HeldInv' /\ RequestInv' /\ AuditComplete'
  BY <1>1 DEF IInv, HeldInv, RequestInv, AuditComplete, Recording, At
<1>4. \A a \in Browsers : cookie'[a] # NoToken => cookie[a] # NoToken /\ cookie'[a] = cookie[a]
  BY <1>1 DEF IInv, TypeOK
<1>5. TokenInv'
  BY <1>1, <1>4 DEF IInv, TokenInv, InUse, Backed
<1>. QED  BY <1>2, <1>3, <1>5 DEF IInv

(* A tick costs a token what it adds to its owner's time without the role. *)
LEMMA Aged ==
  ASSUME TypeOK, NEW t \in Token, Backed(t),
         held' \in [Users -> 0..Far], held'[t.user] <= held[t.user] + 1
  PROVE  /\ Older(t) \in Token /\ Older(t).user = t.user
         /\ Older(t).role = "admin" /\ Older(t).left >= 0
            => held'[Older(t).user] <= TTL - Older(t).left + 1
<1>1. t.user \in Users /\ t.left \in -1..TTL /\ t.left \in Int
  BY TokenFields
<1>2. held[t.user] \in Int /\ held'[t.user] \in Int /\ TTL \in Nat
  BY <1>1, SessionsAssumption DEF TypeOK, Far
<1>3. CASE t.left < 0
  BY <1>1, <1>3 DEF Older
<1>4. CASE ~(t.left < 0)
  <2>1. /\ Older(t) = [t EXCEPT !.left = @ - 1]
        /\ t.left - 1 \in -1..TTL
    BY <1>1, <1>2, <1>4 DEF Older
  <2>2. Older(t) \in Token /\ Older(t).left = t.left - 1 /\ Older(t).user = t.user
        /\ Older(t).role = t.role
    BY <2>1 DEF Token
  <2>. QED  BY <1>1, <1>2, <1>4, <2>2 DEF Backed
<1>. QED  BY <1>3, <1>4

(* Time goes by: tokens lose what the accounts' histories gain.            *)
LEMMA TickKeepsIInv ==
  ASSUME IInv, Tick
  PROVE  IInv'
<1>1. /\ held' \in [Users -> 0..Far]
      /\ \A u \in Users : held'[u] <= held[u] + 1 /\ (account[u] = "admin" => held'[u] = 0)
  BY SessionsAssumption DEF IInv, TypeOK, Tick, Far
<1>2. UNCHANGED <<account, missing, faults>>
  BY DEF Tick
<1>3. HeldInv'
  BY <1>1, <1>2 DEF HeldInv
<1>4. ASSUME NEW t \in Token, Backed(t)
      PROVE  /\ Older(t) \in Token /\ Older(t).user = t.user
             /\ Older(t).role = "admin" /\ Older(t).left >= 0
                => held'[Older(t).user] <= TTL - Older(t).left + 1
  BY <1>1, <1>4, Aged, TokenFields DEF IInv
<1>5. ASSUME NEW b \in Browsers
      PROVE  /\ cookie'[b] \in Token \cup {NoToken}
             /\ cookie'[b] # NoToken => Backed(cookie[b])'
  <2>1. cookie'[b] = IF cookie[b] = NoToken THEN NoToken ELSE Older(cookie[b])
    BY DEF Tick
  <2>2. cookie[b] # NoToken => cookie[b] \in Token /\ Backed(cookie[b])
    BY DEF IInv, TypeOK, TokenInv
  <2>. QED  BY <2>1, <2>2, <1>4 DEF Backed
<1>6. ASSUME NEW r \in Requests
      PROVE  /\ req'[r] \in Slot /\ Carries(req[r])' /\ Sound(req[r])'
             /\ req'[r].pc = req[r].pc
             /\ req[r].pc = "record" => req'[r].token.user = req[r].token.user
  <2>1. req'[r] = IF At(r, "issue") THEN [req[r] EXCEPT !.waited = 1]
                  ELSE IF InUse(req[r]) THEN [req[r] EXCEPT !.token = Older(@)] ELSE req[r]
    BY DEF Tick
  <2>2. req[r] \in Slot /\ Carries(req[r]) /\ Sound(req[r])
    BY Before
  <2>3. CASE At(r, "issue")
    <3>1. req[r] \in Busy /\ req[r].token \in Token /\ req[r].waited = 0
      BY <2>2, <2>3, BusyFields DEF Carries, At, Tick
    <3>2. /\ req'[r] \in Busy /\ req'[r].pc = "issue" /\ req'[r].token = req[r].token
          /\ req'[r].waited = 1
      BY <2>1, <2>3, <3>1 DEF Busy, At
    <3>3. req[r].token.user \in Users /\ held[req[r].token.user] \in Int
          /\ held'[req[r].token.user] \in Int
      BY <1>1, <3>1, TokenFields, SessionsAssumption DEF IInv, TypeOK, Far
    <3>4. req[r].token.role = "admin" => held'[req[r].token.user] <= 1
      BY <1>1, <2>2, <2>3, <3>1, <3>3 DEF Sound, At
    <3>. QED  BY <2>2, <2>3, <3>2, <3>4 DEF Carries, Sound, InUse, Slot, At
  <2>4. CASE ~At(r, "issue") /\ InUse(req[r])
    <3>1. /\ req[r] \in Busy /\ req[r].token \in Token /\ req[r].token # NoToken
          /\ Backed(req[r].token) /\ req[r].pc \in {"auth", "record", "respond"}
      BY <2>2, <2>4, BusyFields DEF Carries, Sound, InUse
    <3>2. /\ Older(req[r].token) \in Token /\ Older(req[r].token) # NoToken
          /\ Older(req[r].token).user = req[r].token.user
      BY <3>1, <1>4, TokenNotNone
    <3>3. /\ req'[r] \in Busy /\ req'[r].pc = req[r].pc /\ req'[r].kind = req[r].kind
          /\ req'[r].token = Older(req[r].token)
      BY <2>1, <2>4, <3>1, <3>2 DEF Busy
    <3>4. Backed(req[r].token)'
      BY <3>1, <3>3, <1>4 DEF Backed
    <3>5. Carries(req[r])'
      BY <2>2, <3>1, <3>2, <3>3 DEF Carries
    <3>6. Sound(req[r])'
      BY <3>1, <3>3, <3>4 DEF Sound
    <3>. QED  BY <3>2, <3>3, <3>5, <3>6 DEF Slot
  <2>5. CASE ~At(r, "issue") /\ ~InUse(req[r])
    BY <2>1, <2>2, <2>5 DEF Carries, Sound, InUse, At
  <2>. QED  BY <2>3, <2>4, <2>5
<1>7. req' \in [Requests -> Slot] /\ cookie' \in [Browsers -> Token \cup {NoToken}]
  BY <1>5, <1>6 DEF Tick
<1>8. TypeOK'
  BY <1>1, <1>2, <1>7 DEF IInv, TypeOK, Slot
<1>9. RequestInv' /\ TokenInv'
  BY <1>5, <1>6 DEF RequestInv, TokenInv, Carries, Sound
<1>10. AuditComplete'
  <2>1. \A u \in Users : Recording(u)' = Recording(u)
    BY <1>6 DEF Recording, At
  <2>. QED  BY <1>2, <2>1 DEF IInv, AuditComplete
<1>. QED  BY <1>3, <1>8, <1>9, <1>10 DEF IInv

(* The process ends: every request with it, and perhaps the secret.        *)
LEMMA RestartKeepsIInv ==
  ASSUME IInv, Restart
  PROVE  IInv'
<1>1. /\ req' = [r \in Requests |-> Idle]
      /\ faults' = faults + 1 /\ faults < MaxFaults
      /\ UNCHANGED <<account, held, missing>>
  BY DEF Restart, Fault, tables
<1>2. ASSUME NEW b \in Browsers
      PROVE  /\ cookie'[b] \in Token \cup {NoToken}
             /\ cookie'[b] # NoToken => Backed(cookie[b])'
  <2>1. CASE cookie[b] = NoToken
    BY <2>1 DEF Restart
  <2>2. CASE cookie[b] # NoToken
    <3>1. cookie[b] \in Token /\ Backed(cookie[b])
      BY <2>2 DEF IInv, TypeOK, TokenInv
    <3>2. PICK g \in BOOLEAN : cookie'[b] = [cookie[b] EXCEPT !.signed = g]
      <4>1. (cookie[b].signed /\ SecretIsKept) \in BOOLEAN
        OBVIOUS
      <4>2. cookie'[b] = [cookie[b] EXCEPT !.signed = cookie[b].signed /\ SecretIsKept]
        BY <2>2 DEF Restart
      <4>. QED  BY <4>1, <4>2, Zenon
    <3>3. cookie'[b] \in Token /\ cookie'[b].user = cookie[b].user
          /\ cookie'[b].left = cookie[b].left /\ cookie'[b].role = cookie[b].role
      BY <3>1, <3>2 DEF Token
    <3>. QED  BY <1>1, <3>1, <3>3 DEF Backed
  <2>. QED  BY <2>1, <2>2
<1>3. cookie' \in [Browsers -> Token \cup {NoToken}]
  BY <1>2 DEF Restart
<1>4. faults' \in 0..MaxFaults /\ faults' # 0
  BY <1>1, SessionsAssumption DEF IInv, TypeOK
<1>5. TypeOK'
  BY <1>1, <1>3, <1>4 DEF IInv, TypeOK
<1>6. HeldInv'
  BY <1>1 DEF IInv, HeldInv
<1>7. RequestInv'
  BY <1>1, IdleSound DEF RequestInv
<1>8. TokenInv'
  BY <1>1, <1>2, IdleSound DEF TokenInv, InUse
<1>9. AuditComplete'
  <2>1. ASSUME NEW u \in Users
        PROVE  Cardinality(Recording(u)') = 0 /\ missing'[u] >= 0
    <3>1. Recording(u)' = {}
      BY <1>1, IdleSound DEF Recording, At
    <3>2. missing[u] \in Int /\ missing[u] >= Cardinality(Recording(u))
      BY DEF IInv, TypeOK, AuditComplete
    <3>. QED  BY <1>1, <3>1, <3>2, RecordingFinite, FS_EmptySet
  <2>. QED  BY <1>4, <2>1 DEF AuditComplete
<1>. QED  BY <1>5, <1>6, <1>7, <1>8, <1>9 DEF IInv

LEMMA NextKeepsIInv == IInv /\ [Next]_vars => IInv'
<1>. SUFFICES ASSUME IInv, [Next]_vars PROVE IInv'
  OBVIOUS
<1>1. ASSUME NEW u \in Users, NEW role \in Roles, AddUser(u, role) PROVE IInv'
  BY <1>1, AddUserKeepsIInv
<1>2. ASSUME NEW r \in Requests, Begin(r) PROVE IInv'
  BY <1>2, LoginKeepsIInv, BeginKeepsIInv DEF Begin
<1>3. ASSUME NEW r \in Requests, Proceed(r) PROVE IInv'
  BY <1>3, LoginKeepsIInv, AdminKeepsIInv, MutateFailsKeepsIInv, AuditKeepsIInv,
     RespondKeepsIInv DEF Proceed
<1>4. ASSUME NEW b \in Browsers, Forget(b) PROVE IInv'
  BY <1>4, ForgetKeepsIInv
<1>5. CASE Tick
  BY <1>5, TickKeepsIInv
<1>6. CASE Restart
  BY <1>6, RestartKeepsIInv
<1>7. CASE UNCHANGED vars
  BY <1>7 DEF vars, IInv, TypeOK, HeldInv, RequestInv, TokenInv, AuditComplete, InUse,
              Backed, Recording, At
<1>. QED  BY <1>1, <1>2, <1>3, <1>4, <1>5, <1>6, <1>7 DEF Next

(* Into an admin handler leads one way only.                               *)
LEMMA OnlyAuthorize ==
  ASSUME IInv, Next, NEW r \in Requests, At(r, "auth"), req'[r].pc = "mutate"
  PROVE  Authorize(r)
<1>1. req[r] \in Busy /\ req \in [Requests -> Slot]
  BY Before, BusyFields DEF At, IInv, TypeOK, Slot
<1>2. ASSUME NEW s \in Requests, s # r, Begin(s) \/ Proceed(s) PROVE FALSE
  <2>1. req'[r] = req[r]
    BY <1>1, <1>2 DEF Begin, Proceed, BeginLogin, BeginMutation, BeginLogout, LookUp, Refuse,
       IssueToken, Authorize, Reject, Mutate, MutateFails, Audit, AuditFails, AfterAudit, Respond, Move
  <2>. QED  BY <2>1 DEF At
<1>3. ~Begin(r)
  BY DEF Begin, BeginLogin, BeginMutation, BeginLogout, At
<1>4. Proceed(r) => Authorize(r)
  BY DEF Proceed, LookUp, Refuse, IssueToken, Reject, Mutate, MutateFails, Audit, AuditFails, Respond, At
<1>5. ~Tick
  <2>1. ASSUME Tick PROVE req'[r].pc = req[r].pc
    <3>1. req'[r] = [req[r] EXCEPT !.token = Older(@)]
      BY <2>1 DEF Tick, At, InUse
    <3>. QED  BY <1>1, <3>1 DEF Busy
  <2>. QED  BY <2>1 DEF At
<1>6. ~Restart
  BY IdleSound DEF Restart
<1>7. ASSUME UNCHANGED req PROVE FALSE
  BY <1>7 DEF At
<1>. QED  BY <1>2, <1>3, <1>4, <1>5, <1>6, <1>7 DEF Next, AddUser, Forget

(* Tokens are backed by their owners' history and the audit log lacks      *)
(* nothing but what a fault took, however logins, edits of accounts, admin *)
(* requests, failures, restarts and ticks follow one another.              *)
THEOREM SessionsInvariant == Spec => []IInv
<1>. QED  BY InitIInv, NextKeepsIInv, PTL DEF Spec

(* The audit log tells of every login, refused login and admin request     *)
(* carried out, as long as no call fails and nobody disconnects           *)
(* (server.go:194-232), and never of anything else.                        *)
COROLLARY AuditLogComplete == Spec => []AuditComplete
<1>1. IInv => AuditComplete
  BY DEF IInv
<1>. QED  BY <1>1, SessionsInvariant, PTL

(* Nobody is let into an admin handler whose account has been without the  *)
(* role for longer than a session lasts (server.go:114-133, auth.go:97).   *)
THEOREM RoleOutlivedBoundedly == Spec => RoleBound
<1> DEFINE Bounded(r) ==
      At(r, "auth") /\ req'[r].pc = "mutate" => held[req[r].token.user] <= TTL + 1
<1>1. ASSUME IInv, Next, NEW r \in Requests, At(r, "auth"), req'[r].pc = "mutate"
      PROVE  held[req[r].token.user] <= TTL + 1
  <2>1. /\ req[r] \in Slot /\ req[r].token \in Token /\ Backed(req[r].token)
        /\ req[r].token.user \in Users
    BY <1>1, Before, BusyFields, TokenFields DEF Carries, Sound, InUse, At
  <2>2. req[r].token.role = "admin" /\ req[r].token.left >= 0
    <3>1. Authorize(r)
      BY <1>1, <2>1, OnlyAuthorize
    <3>. QED  BY <1>1, <3>1, IdleSound DEF Authorize, VerifyToken, IInv, TypeOK
  <2>3. req[r].token.left \in Int /\ held[req[r].token.user] \in Int /\ TTL \in Nat
    BY <1>1, <2>1, TokenFields, SessionsAssumption DEF IInv, TypeOK, Far
  <2>. QED  BY <2>1, <2>2, <2>3 DEF Backed
<1>2. IInv /\ [Next]_vars => [\A r \in Requests : Bounded(r)]_vars
  BY <1>1
<1>. QED  BY <1>2, SessionsInvariant, PTL DEF Spec, RoleBound
=============================================================================

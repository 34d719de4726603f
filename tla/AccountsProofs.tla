--------------------------- MODULE AccountsProofs ---------------------------
(***************************************************************************)
(* Proofs about the auth-service, for any number of users, workers, rules, *)
(* consents, proposals, appeals, one-time passwords and overlapping        *)
(* requests.                                                               *)
(***************************************************************************)
EXTENDS MCAccounts, TLAPS, FiniteSetTheorems, WellFoundedInduction

(* The rows of the tables. *)
UserRow ==
    [registered : BOOLEAN, frozen : BOOLEAN, merged : Users \cup {Nobody}, deleted : BOOLEAN,
     erased : BOOLEAN, age : Ages \cup {0, Adult}]
ConsentRow ==
    [who : Users, age : Ages, token : Nat, confirmed : BOOLEAN, expired : BOOLEAN]
ProposalRow ==
    [requester : Users, dups : SUBSET Users,
     status : {"pending_review", "approved", "auto_approved", "rejected", "accepted"}]
AppealRow ==
    [user : Users, status : {"started", "expired", "proposal_submitted", "accepted"},
     past : BOOLEAN, proposal : Nat]
Pair == [used : BOOLEAN, expired : BOOLEAN]

Typed ==
    /\ overlaps \in Nat
    /\ req = [w \in Workers |-> req[w]]
    /\ user \in [Users -> UserRow]
    /\ flags \in [Users -> SUBSET Rules]
    /\ pardoned \in [Users -> BOOLEAN]
    /\ keys \in [Users -> {"none", "active", "revoked"}]
    /\ consents \in Seq(ConsentRow)
    /\ proposals \in Seq(ProposalRow)
    /\ appeals \in Seq(AppealRow)
    /\ otps \in [Users -> Seq(Pair)]
    /\ logins \in [Users -> Seq(Nat)]
    /\ prefs \subseteq Users
    /\ notified \in [Incidents -> SUBSET Users]
    /\ events \in [Incidents -> [Users -> Nat]]

(* An appeal points to a proposal of its user. *)
PointsToOwn(row) ==
    row.proposal # 0 => /\ row.proposal \in DOMAIN proposals
                        /\ proposals[row.proposal].requester = row.user

(* What a request has decided to write, however old the rows it read. *)
Signup(r) ==
    /\ r.u \in Users /\ r.age \in Ages \cup {Adult}
    /\ r.rules \in SUBSET Rules /\ r.freeze = (r.rules # {} /\ Freezes(r.rules))
    /\ r.consent = 0 => r.age = Adult
    /\ r.consent # 0 => /\ r.consent \in DOMAIN consents
                        /\ consents[r.consent].who = r.u /\ r.age \in Ages

Ops == {"idle", "signup", "flag", "propose", "review", "accept", "appeal", "submit", "mark",
        "otp", "login", "key", "revoke", "delete", "fanout"}

SessionRow(r) ==
    /\ r.op \in Ops
    /\ r.op = "idle" => r = Idle
    /\ r.op = "signup" => Signup(r)
    /\ r.op = "flag" => r.u \in Users /\ r.rule \in Rules /\ r.freeze \in BOOLEAN
    /\ r.op = "propose" => r.row \in ProposalRow /\ r.row.requester \notin r.row.dups
    /\ r.op = "review" => r.p \in DOMAIN proposals /\ r.status \in {"approved", "rejected"}
    /\ r.op = "accept" => r.p \in DOMAIN proposals /\ (r.a # 0 => r.a \in DOMAIN appeals)
    /\ r.op = "appeal" => r.row \in AppealRow /\ r.row.status = "started" /\ PointsToOwn(r.row)
    /\ r.op = "submit" => /\ r.row \in ProposalRow /\ r.row.requester \notin r.row.dups
                          /\ r.a \in DOMAIN appeals /\ r.row.requester = appeals[r.a].user
    /\ r.op = "mark" => r.a \in DOMAIN appeals
    /\ r.op \in {"otp", "login", "key", "revoke", "delete"} => r.u \in Users
    /\ r.op \in {"otp", "login"} => r.n \in Nat
    /\ r.op = "login" => r.i \in 1 .. r.n
    /\ r.op = "fanout" => r.i \in Incidents /\ r.rows \subseteq Users

Sessions == \A w \in Workers : SessionRow(req[w])

(* What the tables say about each other, however the requests interleave. *)
MergeRows ==
    /\ \A p \in DOMAIN proposals : proposals[p].requester \notin proposals[p].dups
    /\ \A a \in DOMAIN appeals : PointsToOwn(appeals[a])

ConsentRows ==
    /\ \A i \in DOMAIN consents : consents[i].confirmed => user[consents[i].who].registered
    /\ \A i, j \in DOMAIN consents :
          consents[i].confirmed /\ consents[j].confirmed /\ consents[i].who = consents[j].who => i = j
    /\ \A u \in Users : user[u].registered /\ user[u].age \in Ages =>
          \E i \in DOMAIN consents : consents[i].confirmed /\ consents[i].who = u

OtpRows == \A u \in Users : Len(logins[u]) = Len(otps[u])

Tables == MergeRows /\ ConsentRows /\ OtpRows /\ OneEventPerNotification

-----------------------------------------------------------------------------
(* What holds as long as no requests overlap: what a request has read and  *)
(* decided on is still so.                                                 *)
SerialSession(r) ==
    /\ r.op = "signup" => (r.consent # 0 => consents[r.consent].age = r.age)
    /\ r.op = "flag" => r.freeze = (Freezes(flags[r.u] \cup {r.rule}) /\ ~user[r.u].frozen)
    /\ r.op = "review" => proposals[r.p].status = "pending_review"
    /\ r.op = "accept" => Mergeable(r.p) /\ (r.a # 0 => appeals[r.a].proposal = r.p)
    /\ r.op = "mark" => /\ appeals[r.a].proposal # 0
                        /\ proposals[appeals[r.a].proposal].status = "accepted"
    /\ r.op = "key" => ~Retired(r.u)
    /\ r.op = "login" => r.i \in DOMAIN otps[r.u] /\ ~otps[r.u][r.i].used

Flagged == \A u \in Users : Freezes(flags[u]) /\ ~pardoned[u] => user[u].frozen

NoCycle == \A S \in SUBSET Users : S # {} => \E u \in S : user[u].merged \notin S

NoKeys == \A u \in Users : Retired(u) => keys[u] # "active"

Accepted ==
    \A a \in DOMAIN appeals :
        appeals[a].status = "accepted" =>
            appeals[a].proposal # 0 /\ proposals[appeals[a].proposal].status = "accepted"

ConsentAges ==
    \A i \in DOMAIN consents : consents[i].confirmed => consents[i].age = user[consents[i].who].age

OtpOnce ==
    \A u \in Users : \A i \in DOMAIN logins[u] :
        logins[u][i] <= 1 /\ (~otps[u][i].used => logins[u][i] = 0)

SerialTables == Flagged /\ NoCycle /\ NoKeys /\ Accepted /\ ConsentAges /\ OtpOnce

Serial ==
    /\ \A v, w \in Workers : req[v] # Idle /\ req[w] # Idle => v = w
    /\ \A w \in Workers : SerialSession(req[w])
    /\ SerialTables

IInv == Typed /\ Sessions /\ Tables /\ (overlaps = 0 => Serial)

(* Of some rows of a table one is the latest. *)
LEMMA LatestIndex ==
    ASSUME NEW T, NEW s \in Seq(T), NEW S \in SUBSET DOMAIN s, S # {}
    PROVE  (CHOOSE i \in S : \A j \in S : j <= i) \in S
  <1> DEFINE n == Len(s)
             gaps == {n - i : i \in S}
  <1>1. n \in Nat /\ \A i \in S : i \in 1..n
    OBVIOUS
  <1> HIDE DEF n
  <1>2. gaps \in SUBSET Nat /\ gaps # {}
    BY <1>1
  <1>3. IsWellFoundedOn(OpToRel(<, Nat), Nat)
    BY NatLessThanWellFounded
  <1>4. PICK g \in gaps : \A h \in gaps : ~(<<h, g>> \in OpToRel(<, Nat))
    BY <1>2, <1>3, WFMin
  <1>5. \A h \in gaps : g <= h
    <2> HIDE DEF gaps
    <2>1. \A h \in gaps : ~(h < g)
      BY <1>2, <1>4 DEF OpToRel
    <2> QED BY <1>2, <2>1
  <1>6. PICK i \in S : g = n - i
    OBVIOUS
  <1>7. \A j \in S : n - i <= n - j
    BY <1>5, <1>6
  <1>8. \A j \in S : j <= i
    BY <1>1, <1>7
  <1> QED BY <1>8

(* Without a flag nobody is frozen. *)
LEMMA NoRuleFreezes == ~Freezes({})
  <1>1. {} \cap EnabledRules = {} /\ Cardinality({}) = 0
    BY FS_EmptySet
  <1> QED BY <1>1, RiskAssumption DEF Freezes, _distinct_enabled_triggers

LEMMA AccountsInit == Init => IInv
  <1> SUFFICES ASSUME Init PROVE IInv
    OBVIOUS
  <1> USE DEF Init, RiskInit, MergeInit, AccessInit
  <1>1. PICK registered \in SUBSET Users :
          user = [u \in Users |-> IF u \in registered THEN NewUser(Adult) ELSE NoUser]
    OBVIOUS
  <1>2. /\ NoUser \in UserRow /\ NewUser(Adult) \in UserRow
        /\ NewUser(Adult).age = Adult /\ NoUser.registered = FALSE
        /\ NoUser.merged = Nobody /\ NewUser(Adult).merged = Nobody
        /\ NoUser.deleted = FALSE /\ NewUser(Adult).deleted = FALSE
    BY DEF NoUser, NewUser, UserRow, Adult
  <1>3. user \in [Users -> UserRow] /\ \A u \in Users :
          /\ user[u].merged = Nobody /\ ~user[u].deleted
          /\ user[u].registered => user[u].age = Adult
    BY <1>1, <1>2
  <1>4. Typed
    BY <1>3 DEF Typed
  <1>5. Sessions
    BY DEF Sessions, SessionRow, Idle, Ops
  <1>6. Adult \notin Ages /\ Nobody \notin Users
    BY RiskAssumption DEF Adult
  <1>7. MergeRows /\ OtpRows /\ OneEventPerNotification
    BY DEF MergeRows, OtpRows, OneEventPerNotification
  <1>8. ConsentRows
    BY <1>3, <1>6 DEF ConsentRows
  <1>9. Serial
    <2>1. \A w \in Workers : req[w] = Idle
      OBVIOUS
    <2>2. \A w \in Workers : SerialSession(req[w])
      BY <2>1 DEF SerialSession, Idle
    <2>3. Flagged
      BY NoRuleFreezes DEF Flagged
    <2>4. NoCycle
      <3> SUFFICES ASSUME NEW S \in SUBSET Users, S # {} PROVE \E u \in S : user[u].merged \notin S
        BY DEF NoCycle
      <3>1. PICK u \in S : u \in Users
        OBVIOUS
      <3>2. user[u].merged = Nobody /\ Nobody \notin S
        BY <1>3, <1>6, <3>1
      <3> QED BY <3>2
    <2>5. NoKeys
      BY DEF NoKeys
    <2>6. Accepted /\ ConsentAges
      BY DEF Accepted, ConsentAges
    <2>7. OtpOnce
      BY DEF OtpOnce
    <2> QED BY <2>1, <2>2, <2>3, <2>4, <2>5, <2>6, <2>7 DEF Serial, SerialTables
  <1> QED BY <1>4, <1>5, <1>7, <1>8, <1>9 DEF IInv, Tables

-----------------------------------------------------------------------------
(* Steps.  Rows are never deleted, and whom they belong to never changes.   *)
Grows ==
    /\ \A i \in DOMAIN consents : i \in DOMAIN consents' /\ consents'[i].who = consents[i].who
    /\ \A p \in DOMAIN proposals :
          p \in DOMAIN proposals' /\ proposals'[p].requester = proposals[p].requester
    /\ \A a \in DOMAIN appeals : a \in DOMAIN appeals' /\ appeals'[a].user = appeals[a].user

LEMMA GrowsPoints ==
    ASSUME Grows, NEW row, PointsToOwn(row)
    PROVE  PointsToOwn(row)'
  BY DEF Grows, PointsToOwn

LEMMA SessionRowGrows ==
    ASSUME Grows, NEW r, SessionRow(r)
    PROVE  SessionRow(r)'
  <1>1. \A row : PointsToOwn(row) => PointsToOwn(row)'
    BY GrowsPoints
  <1>2. Signup(r) => Signup(r)'
    BY DEF Signup, Grows
  <1>3. /\ r.op = "review" => r.p \in DOMAIN proposals'
        /\ r.op = "accept" => r.p \in DOMAIN proposals' /\ (r.a # 0 => r.a \in DOMAIN appeals')
        /\ r.op = "submit" => r.a \in DOMAIN appeals' /\ r.row.requester = appeals'[r.a].user
        /\ r.op = "mark" => r.a \in DOMAIN appeals'
    BY DEF SessionRow, Grows
  <1> QED BY <1>1, <1>2, <1>3 DEF SessionRow

tableVars == <<user, flags, keys, consents, pardoned, mergeVars, accessVars>>

LEMMA AllStay ==
    ASSUME UNCHANGED tableVars
    PROVE  /\ Grows
           /\ Tables => Tables'
           /\ SerialTables => SerialTables'
           /\ \A r : SerialSession(r) => SerialSession(r)'
  <1> USE DEF tableVars, mergeVars, accessVars
  <1>1. Grows
    BY DEF Grows
  <1>2. Tables => Tables'
    BY DEF Tables, MergeRows, PointsToOwn, ConsentRows, OtpRows, OneEventPerNotification
  <1>3. \A u : Retired(u)' = Retired(u)
    BY DEF Retired, _is_tombstoned
  <1>4. Flagged => Flagged'
    BY DEF Flagged
  <1>5. NoCycle => NoCycle'
    BY DEF NoCycle
  <1>6. NoKeys => NoKeys'
    BY <1>3 DEF NoKeys
  <1>7. (Accepted => Accepted') /\ (ConsentAges => ConsentAges') /\ (OtpOnce => OtpOnce')
    BY DEF Accepted, ConsentAges, OtpOnce
  <1>8. \A p : Mergeable(p) => Mergeable(p)'
    BY <1>3 DEF Mergeable
  <1>9. \A r : SerialSession(r) => SerialSession(r)'
    BY <1>3, <1>8 DEF SerialSession
  <1> QED BY <1>1, <1>2, <1>4, <1>5, <1>6, <1>7, <1>9 DEF SerialTables

(* A request begins. *)
LEMMA Opened ==
    ASSUME IInv, NEW w \in Workers, NEW r, Begin(w, r), UNCHANGED tableVars,
           SessionRow(r), Serial => SerialSession(r)
    PROVE  IInv'
  <1>1. Typed'
    <2>1. overlaps \in Nat /\ req = [v \in Workers |-> req[v]]
      BY DEF IInv, Typed
    <2>2. req' = [v \in Workers |-> req'[v]]
      BY <2>1 DEF Begin
    <2>3. overlaps' \in Nat
      BY <2>1 DEF Begin
    <2> QED BY <2>2, <2>3 DEF IInv, Typed, tableVars, mergeVars, accessVars
  <1>2. \A v \in Workers : req'[v] = IF v = w THEN r ELSE req[v]
    BY DEF IInv, Typed, Begin
  <1>3. Sessions'
    <2> SUFFICES ASSUME NEW v \in Workers PROVE SessionRow(req[v])'
      BY DEF Sessions
    <2>1. PICK x : x = req'[v]
      OBVIOUS
    <2>2. SessionRow(x)
      BY <1>2, <2>1 DEF IInv, Sessions
    <2> QED BY <2>1, <2>2, AllStay, SessionRowGrows
  <1>4. ASSUME overlaps' = 0 PROVE Serial'
    <2>1. overlaps = 0 /\ Busy = {}
      BY <1>4 DEF Begin, IInv, Typed
    <2>2. Serial /\ \A v \in Workers : req[v] = Idle
      BY <2>1 DEF IInv, Busy
    <2>3. \A v \in Workers : SerialSession(req[v])'
      <3> SUFFICES ASSUME NEW v \in Workers PROVE SerialSession(req[v])'
        OBVIOUS
      <3>1. PICK x : x = req'[v]
        OBVIOUS
      <3>2. SerialSession(x)
        BY <1>2, <2>2, <3>1 DEF Serial
      <3> QED BY <3>1, <3>2, AllStay
    <2>4. \A u, v \in Workers : req'[u] # Idle /\ req'[v] # Idle => u = v
      BY <1>2, <2>2
    <2> QED BY <2>2, <2>3, <2>4, AllStay DEF Serial
  <1> QED BY <1>1, <1>3, <1>4, AllStay DEF IInv

(* A request ends; the tables change with it. *)
LEMMA Closed ==
    ASSUME IInv, NEW w \in Workers, req[w] # Idle, Done(w), Grows, Typed', Tables',
           Serial => SerialTables'
    PROVE  IInv'
  <1>1. \A v \in Workers : req'[v] = IF v = w THEN Idle ELSE req[v]
    BY DEF IInv, Typed, Done
  <1>2. SessionRow(Idle) /\ SerialSession(Idle)'
    BY DEF SessionRow, SerialSession, Idle, Ops
  <1>3. Sessions'
    <2> SUFFICES ASSUME NEW v \in Workers PROVE SessionRow(req[v])'
      BY DEF Sessions
    <2>1. PICK x : x = req'[v]
      OBVIOUS
    <2>2. SessionRow(x)
      BY <1>1, <1>2, <2>1 DEF IInv, Sessions
    <2> QED BY <2>1, <2>2, SessionRowGrows
  <1>4. ASSUME overlaps' = 0 PROVE Serial'
    <2>1. Serial
      BY <1>4 DEF IInv, Done
    <2>2. \A v \in Workers : req'[v] = Idle
      BY <1>1, <2>1 DEF Serial
    <2>3. \A v \in Workers : SerialSession(req[v])'
      BY <1>2, <2>2
    <2> QED BY <2>1, <2>2, <2>3 DEF Serial
  <1> QED BY <1>3, <1>4 DEF IInv

(* A request is lost. *)
LEMMA RolledBack ==
    ASSUME IInv, NEW w \in Workers, Rollback(w), UNCHANGED tableVars
    PROVE  IInv'
  <1>1. Typed'
    BY DEF IInv, Typed, Rollback, Done, tableVars, mergeVars, accessVars
  <1> QED BY <1>1, AllStay, Closed DEF Rollback, IInv, Serial

(* A handler that is one step. *)
LEMMA InOneStep ==
    ASSUME IInv, AtOnce, Grows, Typed', Tables', Serial => SerialTables'
    PROVE  IInv'
  <1>1. Sessions'
    <2> SUFFICES ASSUME NEW v \in Workers PROVE SessionRow(req[v])'
      BY DEF Sessions
    <2>1. PICK x : x = req[v] /\ x = req'[v]
      BY DEF AtOnce
    <2>2. SessionRow(x)
      BY <2>1 DEF IInv, Sessions
    <2> QED BY <2>1, <2>2, SessionRowGrows
  <1>2. ASSUME overlaps' = 0 PROVE Serial'
    <2>1. overlaps = 0 /\ Busy = {}
      BY <1>2 DEF AtOnce, IInv, Typed
    <2>2. Serial /\ \A v \in Workers : req'[v] = Idle
      BY <2>1 DEF IInv, Busy, AtOnce
    <2>3. SerialSession(Idle)'
      BY DEF SerialSession, Idle
    <2>4. \A v \in Workers : SerialSession(req[v])'
      BY <2>2, <2>3
    <2> QED BY <2>2, <2>4 DEF Serial
  <1> QED BY <1>1, <1>2 DEF IInv

(* Time passes while requests are being handled. *)
LEMMA TimePasses ==
    ASSUME IInv, UNCHANGED requestVars, Grows, Typed', Tables',
           Serial => SerialTables',
           \A r : SessionRow(r) /\ SerialSession(r) => SerialSession(r)'
    PROVE  IInv'
  <1> USE DEF requestVars
  <1>1. Sessions'
    <2> SUFFICES ASSUME NEW v \in Workers PROVE SessionRow(req[v])'
      BY DEF Sessions
    <2>1. PICK x : x = req[v] /\ x = req'[v]
      OBVIOUS
    <2>2. SessionRow(x)
      BY <2>1 DEF IInv, Sessions
    <2> QED BY <2>1, <2>2, SessionRowGrows
  <1>2. ASSUME overlaps' = 0 PROVE Serial'
    <2>1. Serial
      BY <1>2 DEF IInv
    <2>2. ASSUME NEW v \in Workers PROVE SerialSession(req[v])'
      <3>1. PICK x : x = req[v] /\ x = req'[v]
        OBVIOUS
      <3>2. SessionRow(x) /\ SerialSession(x)
        BY <2>1, <3>1 DEF IInv, Sessions, Serial
      <3>3. SerialSession(x)'
        BY <3>2
      <3> QED BY <3>1, <3>3
    <2> QED BY <2>1, <2>2 DEF Serial
  <1> QED BY <1>1, <1>2 DEF IInv

-----------------------------------------------------------------------------
(* The parts that a step leaves alone.                                      *)
LEMMA MergeStays ==
    ASSUME UNCHANGED mergeVars
    PROVE  (MergeRows => MergeRows') /\ (Accepted => Accepted')
  BY DEF mergeVars, MergeRows, PointsToOwn, Accepted

LEMMA OtpStays ==
    ASSUME UNCHANGED <<otps, logins>>
    PROVE  (OtpRows => OtpRows') /\ (OtpOnce => OtpOnce')
  BY DEF OtpRows, OtpOnce

LEMMA EventsStay ==
    ASSUME UNCHANGED <<notified, events>>, OneEventPerNotification
    PROVE  OneEventPerNotification'
  BY DEF OneEventPerNotification

(* Of a user the consents only need to know the signup. *)
LEMMA ConsentsStay ==
    ASSUME Typed, UNCHANGED consents,
           \A u \in Users : user'[u].registered = user[u].registered /\ user'[u].age = user[u].age
    PROVE  (ConsentRows => ConsentRows') /\ (ConsentAges => ConsentAges')
  <1>1. \A i \in DOMAIN consents : consents[i].who \in Users
    <2>1. consents \in Seq(ConsentRow)
      BY DEF Typed
    <2>2. \A i \in DOMAIN consents : consents[i] \in ConsentRow
      BY <2>1
    <2> QED BY <2>2 DEF ConsentRow
  <1>2. ConsentRows => ConsentRows'
    BY <1>1 DEF ConsentRows
  <1>3. ConsentAges => ConsentAges'
    BY <1>1 DEF ConsentAges
  <1> QED BY <1>2, <1>3

LEMMA NoCycleStays ==
    ASSUME \A u \in Users : user'[u].merged \in {user[u].merged, Nobody}, NoCycle
    PROVE  NoCycle'
  <1> SUFFICES ASSUME NEW S \in SUBSET Users, S # {} PROVE \E u \in S : user'[u].merged \notin S
    BY DEF NoCycle
  <1>1. PICK u \in S : user[u].merged \notin S
    BY DEF NoCycle
  <1>2. Nobody \notin S
    BY RiskAssumption
  <1>3. user'[u].merged \notin S
    BY <1>1, <1>2
  <1> QED BY <1>3

LEMMA KeysStay ==
    ASSUME \A u \in Users : Retired(u)' => Retired(u),
           \A u \in Users : keys'[u] = "active" => keys[u] = "active", NoKeys
    PROVE  NoKeys'
  BY DEF NoKeys

-----------------------------------------------------------------------------
(* Signups and consents.                                                    *)
LEMMA SignupOpened ==
    ASSUME IInv, NEW w \in Workers, UNCHANGED tableVars, NEW u \in Users, NEW age, NEW consent,
           consent = 0 => age = Adult,
           consent # 0 => /\ consent \in DOMAIN consents /\ consents[consent].who = u
                          /\ consents[consent].age = age /\ age \in Ages,
           _create_verified_user_signup(w, u, age, consent)
    PROVE  IInv'
  <1>1. PICK rules : rules = evaluate_signup(u)
    OBVIOUS
  <1>2. rules \in SUBSET Rules
    BY <1>1, RiskAssumption DEF evaluate_signup
  <1>3. PICK r : r = [op |-> "signup", u |-> u, age |-> age, rules |-> rules,
                      freeze |-> rules # {} /\ Freezes(rules), consent |-> consent]
    OBVIOUS
  <1>4. Begin(w, r)
    BY <1>1, <1>3 DEF _create_verified_user_signup
  <1>5. /\ r.op = "signup" /\ r.u = u /\ r.age = age /\ r.rules = rules /\ r.consent = consent
        /\ r.freeze = (rules # {} /\ Freezes(rules))
    BY <1>3
  <1>6. Signup(r)
    BY <1>2, <1>5 DEF Signup
  <1>7. SessionRow(r)
    BY <1>5, <1>6 DEF SessionRow, Ops
  <1>8. SerialSession(r)
    BY <1>5 DEF SerialSession
  <1> QED BY <1>4, <1>7, <1>8, Opened

LEMMA ConsentRequested ==
    ASSUME IInv, AtOnce, NEW u \in Users, NEW age \in Ages,
           _create_or_refresh_guardian_consent(u, age),
           UNCHANGED <<user, flags, keys, pardoned, mergeVars, accessVars>>
    PROVE  IInv'
  <1> DEFINE open == {i \in DOMAIN consents : consents[i].who = u /\ Usable(i)}
  <1>1. Typed /\ Tables /\ consents \in Seq(ConsentRow)
    BY DEF IInv, Typed
  <1>2. PICK rows : rows = consents'
    OBVIOUS
  <1>3. /\ rows \in Seq(ConsentRow) /\ \A i \in DOMAIN consents : i \in DOMAIN rows
        /\ \A i \in DOMAIN consents : rows[i].who = consents[i].who
        /\ \A i \in DOMAIN consents : rows[i].confirmed = consents[i].confirmed
        /\ \A i \in DOMAIN consents : consents[i].confirmed => rows[i].age = consents[i].age
        /\ \A i \in DOMAIN rows \ DOMAIN consents : ~rows[i].confirmed
    <2>1. CASE open = {}
      <3>1. PICK new : new = [who |-> u, age |-> age, token |-> 1, confirmed |-> FALSE,
                              expired |-> FALSE]
        OBVIOUS
      <3>2. rows = Append(consents, new)
        BY <1>2, <2>1, <3>1 DEF _create_or_refresh_guardian_consent
      <3>3. new \in ConsentRow /\ ~new.confirmed
        BY <3>1 DEF ConsentRow
      <3> QED BY <1>1, <3>2, <3>3
    <2>2. CASE open # {}
      <3>1. PICK i : i = CHOOSE k \in open : \A j \in open : j <= k
        OBVIOUS
      <3>2. rows = [consents EXCEPT ![i].age = age, ![i].token = @ + 1]
        BY <1>2, <2>2, <3>1 DEF _create_or_refresh_guardian_consent
      <3>3. CASE i \in DOMAIN consents /\ ~consents[i].confirmed
        <4>1. PICK row : row = [consents[i] EXCEPT !.age = age, !.token = consents[i].token + 1]
          OBVIOUS
        <4>2. consents[i] \in ConsentRow
          BY <1>1, <3>3
        <4>3. row \in ConsentRow /\ row.who = consents[i].who /\ row.confirmed = consents[i].confirmed
          <5>1. consents[i].token + 1 \in Nat
            BY <4>2 DEF ConsentRow
          <5> QED BY <4>1, <4>2, <5>1 DEF ConsentRow
        <4>4. rows = [consents EXCEPT ![i] = row]
          BY <1>1, <3>2, <3>3, <4>1, <4>2 DEF ConsentRow
        <4> QED BY <1>1, <3>3, <4>3, <4>4
      <3>4. CASE ~(i \in DOMAIN consents /\ ~consents[i].confirmed)
        <4>1. i \in open
          BY <1>1, <2>2, <3>1, LatestIndex
        <4> QED BY <3>4, <4>1 DEF Usable
      <3> QED BY <3>3, <3>4
    <2> QED BY <2>1, <2>2

  <1>4. Grows
    BY <1>2, <1>3 DEF Grows, mergeVars
  <1>5. Typed'
    <2>1. overlaps' \in Nat /\ UNCHANGED req
      BY <1>1 DEF Typed, AtOnce
    <2> QED BY <1>1, <1>2, <1>3, <2>1 DEF Typed, mergeVars, accessVars
  <1>6. ConsentRows'
    <2>1. ConsentRows /\ \A i \in DOMAIN rows : rows[i].confirmed =>
            /\ i \in DOMAIN consents /\ consents[i].confirmed /\ consents[i].who = rows[i].who
            /\ consents[i].age = rows[i].age
      BY <1>1, <1>3 DEF Tables
    <2>2. \A i \in DOMAIN consents : consents[i].confirmed =>
            i \in DOMAIN rows /\ rows[i].confirmed /\ consents[i].who = rows[i].who
      BY <1>3
    <2> QED BY <1>2, <2>1, <2>2 DEF ConsentRows
  <1>7. Tables'
    BY <1>1, <1>6, MergeStays, OtpStays, EventsStay DEF Tables, accessVars
  <1>8. ASSUME Serial PROVE SerialTables'
    <2>1. ConsentAges'
      BY <1>2, <1>3, <1>8 DEF Serial, SerialTables, ConsentAges
    <2>2. NoCycle' /\ NoKeys' /\ Flagged'
      <3>1. \A v : Retired(v)' = Retired(v)
        BY DEF Retired, _is_tombstoned
      <3> QED BY <3>1, <1>8 DEF Serial, SerialTables, NoCycle, NoKeys, Flagged
    <2> QED BY <1>8, <2>1, <2>2, MergeStays, OtpStays DEF Serial, SerialTables, accessVars
  <1> QED BY <1>4, <1>5, <1>7, <1>8, InOneStep

LEMMA ConsentExpired ==
    ASSUME IInv, UNCHANGED requestVars, NEW k \in DOMAIN consents, ConsentExpires(k),
           UNCHANGED <<user, flags, keys, pardoned, mergeVars, accessVars>>
    PROVE  IInv'
  <1>1. Typed /\ Tables /\ consents \in Seq(ConsentRow)
    BY DEF IInv, Typed
  <1>2. PICK row : row = [consents[k] EXCEPT !.expired = TRUE]
    OBVIOUS
  <1>3. consents' = [consents EXCEPT ![k] = row]
    BY <1>2 DEF ConsentExpires
  <1>4. consents[k] \in ConsentRow
    BY <1>1
  <1>5. /\ row \in ConsentRow /\ row.who = consents[k].who /\ row.age = consents[k].age
        /\ row.confirmed = consents[k].confirmed
    BY <1>2, <1>4 DEF ConsentRow
  <1>6. /\ consents' \in Seq(ConsentRow) /\ DOMAIN consents' = DOMAIN consents
        /\ \A i \in DOMAIN consents : /\ consents'[i].who = consents[i].who
                                      /\ consents'[i].age = consents[i].age
                                      /\ consents'[i].confirmed = consents[i].confirmed
    BY <1>1, <1>3, <1>5
  <1>7. Grows
    BY <1>6 DEF Grows, mergeVars
  <1>8. Typed'
    BY <1>1, <1>6 DEF Typed, mergeVars, accessVars, requestVars
  <1>9. ConsentRows'
    BY <1>1, <1>6 DEF Tables, ConsentRows
  <1>10. Tables'
    BY <1>1, <1>9, MergeStays, OtpStays, EventsStay DEF Tables, accessVars
  <1>11. \A v : Retired(v)' = Retired(v)
    BY DEF Retired, _is_tombstoned
  <1>12. ASSUME Serial PROVE SerialTables'
    <2>1. ConsentAges'
      BY <1>6, <1>12 DEF Serial, SerialTables, ConsentAges
    <2>2. NoCycle' /\ NoKeys' /\ Flagged'
      BY <1>11, <1>12 DEF Serial, SerialTables, NoCycle, NoKeys, Flagged
    <2> QED BY <1>12, <2>1, <2>2, MergeStays, OtpStays DEF Serial, SerialTables, accessVars
  <1>13. ASSUME NEW r, SessionRow(r), SerialSession(r) PROVE SerialSession(r)'
    <2>1. \A p : Mergeable(p) => Mergeable(p)'
      BY <1>11 DEF Mergeable, mergeVars
    <2>2. r.op = "signup" => (r.consent # 0 => consents'[r.consent].age = r.age)
      BY <1>6, <1>13 DEF SessionRow, SerialSession, Signup
    <2> QED BY <1>11, <1>13, <2>1, <2>2 DEF SerialSession, mergeVars, accessVars
  <1> QED BY <1>7, <1>8, <1>10, <1>12, <1>13, TimePasses

LEMMA SignupCommitted ==
    ASSUME IInv, NEW w \in Workers, CommitSignup(w), UNCHANGED <<mergeVars, accessVars>>
    PROVE  IInv'
  <1>1. Typed /\ Tables /\ SessionRow(req[w]) /\ user \in [Users -> UserRow]
        /\ consents \in Seq(ConsentRow)
    BY DEF IInv, Typed, Sessions
  <1>2. PICK r : r = req[w]
    OBVIOUS
  <1>3. r.op = "signup" /\ Signup(r) /\ r # Idle
    BY <1>1, <1>2 DEF CommitSignup, SessionRow, Idle
  <1>4. PICK row : row = [NewUser(r.age) EXCEPT !.frozen = r.freeze]
    OBVIOUS
  <1>5. /\ user' = [user EXCEPT ![r.u] = row] /\ flags' = [flags EXCEPT ![r.u] = r.rules]
        /\ ~user[r.u].registered /\ UNCHANGED <<keys, pardoned>>
        /\ consents' = IF r.consent = 0 THEN consents
                       ELSE [consents EXCEPT ![r.consent].confirmed = TRUE]
    BY <1>2, <1>4 DEF CommitSignup
  <1>6. r.freeze \in BOOLEAN
    BY <1>3 DEF Signup
  <1>7. /\ row \in UserRow /\ row.registered /\ row.frozen = r.freeze /\ row.merged = Nobody
        /\ ~row.deleted /\ row.age = r.age
    BY <1>3, <1>4, <1>6 DEF Signup, NewUser, NoUser, UserRow
  <1>8. /\ user' \in [Users -> UserRow]
        /\ \A u \in Users : user'[u] = IF u = r.u THEN row ELSE user[u]
    BY <1>1, <1>3, <1>5, <1>7 DEF Signup
  <1>9. /\ consents' \in Seq(ConsentRow) /\ DOMAIN consents' = DOMAIN consents
        /\ \A i \in DOMAIN consents :
              /\ consents'[i].who = consents[i].who /\ consents'[i].age = consents[i].age
              /\ (consents'[i].confirmed <=> consents[i].confirmed \/ i = r.consent)
    <2>1. CASE r.consent = 0
      <3>1. consents' = consents /\ \A i \in DOMAIN consents : i # r.consent
        BY <1>1, <1>5, <2>1
      <3> QED BY <1>1, <3>1
    <2>2. CASE r.consent # 0
      <3>1. PICK new : new = [consents[r.consent] EXCEPT !.confirmed = TRUE]
        OBVIOUS
      <3>2. consents' = [consents EXCEPT ![r.consent] = new] /\ r.consent \in DOMAIN consents
        BY <1>3, <1>5, <2>2, <3>1 DEF Signup
      <3>3. \A i \in DOMAIN consents : consents[i] \in ConsentRow
        BY <1>1
      <3>4. /\ new \in ConsentRow /\ new.confirmed = TRUE
            /\ new.who = consents[r.consent].who /\ new.age = consents[r.consent].age
        BY <3>1, <3>2, <3>3 DEF ConsentRow
      <3>5. consents' \in Seq(ConsentRow) /\ DOMAIN consents' = DOMAIN consents
        BY <1>1, <3>2, <3>4
      <3>6. ASSUME NEW i \in DOMAIN consents
            PROVE  /\ consents'[i].who = consents[i].who /\ consents'[i].age = consents[i].age
                   /\ (consents'[i].confirmed <=> consents[i].confirmed \/ i = r.consent)
        <4>1. consents[i].confirmed \in BOOLEAN
          BY <3>3 DEF ConsentRow
        <4>2. CASE i = r.consent
          BY <1>1, <3>2, <3>4, <4>2
        <4>3. CASE i # r.consent
          BY <1>1, <3>2, <4>1, <4>3
        <4> QED BY <4>2, <4>3
      <3> QED BY <3>5, <3>6
    <2> QED BY <2>1, <2>2
  <1>10. Grows
    BY <1>9 DEF Grows, mergeVars
  <1>11. Typed'
    <2>1. flags' \in [Users -> SUBSET Rules]
      BY <1>1, <1>3, <1>5 DEF Typed, Signup
    <2>2. overlaps' \in Nat /\ req' = [v \in Workers |-> req'[v]]
      BY <1>1 DEF Typed, CommitSignup, Done
    <2> QED BY <1>1, <1>5, <1>8, <1>9, <2>1, <2>2 DEF Typed, mergeVars, accessVars
  <1>12. ASSUME NEW i \in DOMAIN consents, consents[i].confirmed PROVE consents[i].who # r.u
    BY <1>1, <1>5, <1>12 DEF Tables, ConsentRows
  <1>13. \A i \in DOMAIN consents : consents[i].who \in Users
    <2>1. \A i \in DOMAIN consents : consents[i] \in ConsentRow
      BY <1>1
    <2> QED BY <2>1 DEF ConsentRow
  <1>14. ConsentRows'
    <2>1. \A i \in DOMAIN consents : consents'[i].confirmed => user'[consents'[i].who].registered
      BY <1>1, <1>3, <1>7, <1>8, <1>9, <1>13 DEF Tables, ConsentRows, Signup
    <2>2. \A i, j \in DOMAIN consents :
            consents'[i].confirmed /\ consents'[j].confirmed /\ consents'[i].who = consents'[j].who
            => i = j
      BY <1>1, <1>3, <1>9, <1>12 DEF Tables, ConsentRows, Signup
    <2>3. ASSUME NEW u \in Users, user'[u].registered, user'[u].age \in Ages
          PROVE  \E i \in DOMAIN consents : consents'[i].confirmed /\ consents'[i].who = u
      <3>1. CASE u = r.u
        <4>1. r.consent # 0
          BY <1>3, <1>7, <1>8, <2>3, <3>1, RiskAssumption DEF Signup, Adult
        <4> QED BY <1>3, <1>9, <3>1, <4>1 DEF Signup
      <3>2. CASE u # r.u
        <4>1. PICK i \in DOMAIN consents : consents[i].confirmed /\ consents[i].who = u
          BY <1>1, <1>8, <2>3, <3>2 DEF Tables, ConsentRows
        <4> QED BY <1>9, <4>1
      <3> QED BY <3>1, <3>2
    <2> QED BY <1>9, <2>1, <2>2, <2>3 DEF ConsentRows
  <1>15. Tables'
    BY <1>1, <1>14, MergeStays, OtpStays, EventsStay DEF Tables, accessVars
  <1>16. ASSUME Serial PROVE SerialTables'
    <2>1. ConsentAges'
      <3> SUFFICES ASSUME NEW i \in DOMAIN consents, consents'[i].confirmed
                   PROVE  consents'[i].age = user'[consents'[i].who].age
        BY <1>9 DEF ConsentAges
      <3>1. CASE i = r.consent
        <4>1. r.consent # 0
          BY <1>1, <3>1
        <4>2. consents[i].who = r.u /\ consents[i].age = r.age
          BY <1>2, <1>3, <1>16, <3>1, <4>1 DEF Signup, Serial, SerialSession
        <4> QED BY <1>3, <1>7, <1>8, <1>9, <4>2 DEF Signup
      <3>2. CASE i # r.consent
        BY <1>8, <1>9, <1>12, <1>13, <1>16, <3>2 DEF Serial, SerialTables, ConsentAges
      <3> QED BY <3>1, <3>2
    <2>2. NoCycle'
      BY <1>7, <1>8, <1>16, NoCycleStays DEF Serial, SerialTables
    <2>3. NoKeys'
      <3>1. \A u \in Users : Retired(u)' => Retired(u)
        BY <1>7, <1>8 DEF Retired, _is_tombstoned
      <3> QED BY <1>5, <1>16, <3>1, KeysStay DEF Serial, SerialTables
    <2>4. Flagged'
      <3> SUFFICES ASSUME NEW u \in Users, Freezes(flags'[u]), ~pardoned'[u]
                   PROVE  user'[u].frozen
        BY DEF Flagged
      <3>1. flags \in [Users -> SUBSET Rules]
        BY <1>1 DEF Typed
      <3>2. CASE u = r.u
        <4>1. Freezes(r.rules)
          BY <1>5, <3>1, <3>2
        <4>2. r.rules # {}
          BY <4>1, NoRuleFreezes
        <4> QED BY <1>3, <1>7, <1>8, <3>2, <4>1, <4>2 DEF Signup
      <3>3. CASE u # r.u
        BY <1>5, <1>8, <1>16, <3>1, <3>3 DEF Serial, SerialTables, Flagged
      <3> QED BY <3>2, <3>3
    <2> QED BY <1>16, <2>1, <2>2, <2>3, <2>4, MergeStays, OtpStays DEF Serial, SerialTables, accessVars
  <1> QED BY <1>2, <1>3, <1>10, <1>11, <1>15, <1>16, Closed DEF CommitSignup

-----------------------------------------------------------------------------
(* Flags and freezes.                                                       *)
LEMMA FlagOpened ==
    ASSUME IInv, NEW w \in Workers, UNCHANGED tableVars, NEW u \in Users, NEW rule \in Rules,
           NEW link, admin_add_risk_flag(w, u, rule, link)
    PROVE  IInv'
  <1>1. PICK freeze : freeze = (Freezes(flags[u] \cup {rule}) /\ ~user[u].frozen)
    OBVIOUS
  <1>2. PICK r : r = [op |-> "flag", u |-> u, rule |-> rule, link |-> link, freeze |-> freeze]
    OBVIOUS
  <1>3. Begin(w, r)
    BY <1>1, <1>2 DEF admin_add_risk_flag
  <1>4. r.op = "flag" /\ r.u = u /\ r.rule = rule /\ r.freeze = freeze
    BY <1>2
  <1>5. freeze \in BOOLEAN
    BY <1>1
  <1>6. SessionRow(r)
    BY <1>4, <1>5 DEF SessionRow, Ops
  <1>7. SerialSession(r)
    BY <1>1, <1>4 DEF SerialSession
  <1> QED BY <1>3, <1>6, <1>7, Opened

LEMMA FlagCommitted ==
    ASSUME IInv, NEW w \in Workers, CommitFlag(w), UNCHANGED <<mergeVars, accessVars>>
    PROVE  IInv'
  <1>1. Typed /\ Tables /\ SessionRow(req[w]) /\ user \in [Users -> UserRow]
        /\ flags \in [Users -> SUBSET Rules] /\ pardoned \in [Users -> BOOLEAN]
    BY DEF IInv, Typed, Sessions
  <1>2. PICK r : r = req[w]
    OBVIOUS
  <1>3. r.op = "flag" /\ r # Idle /\ r.u \in Users /\ r.rule \in Rules /\ r.freeze \in BOOLEAN
    BY <1>1, <1>2 DEF CommitFlag, SessionRow, Idle
  <1>4. PICK row : row = [user[r.u] EXCEPT !.frozen = user[r.u].frozen \/ r.freeze]
    OBVIOUS
  <1>5. /\ user' = [user EXCEPT ![r.u] = row]
        /\ flags' = [flags EXCEPT ![r.u] = flags[r.u] \cup {r.rule}]
        /\ pardoned' = [pardoned EXCEPT ![r.u] = FALSE] /\ UNCHANGED <<keys, consents>>
    BY <1>1, <1>2, <1>3, <1>4 DEF CommitFlag
  <1>6. user[r.u] \in UserRow
    BY <1>1, <1>3
  <1>7. /\ row \in UserRow /\ (row.frozen <=> user[r.u].frozen \/ r.freeze)
        /\ row.registered = user[r.u].registered /\ row.age = user[r.u].age
        /\ row.merged = user[r.u].merged /\ row.deleted = user[r.u].deleted
    BY <1>4, <1>6 DEF UserRow
  <1>8. /\ user' \in [Users -> UserRow]
        /\ \A u \in Users : user'[u] = IF u = r.u THEN row ELSE user[u]
    BY <1>1, <1>3, <1>5, <1>7
  <1>9. Grows
    BY <1>5 DEF Grows, mergeVars
  <1>10. Typed'
    <2>1. flags' \in [Users -> SUBSET Rules] /\ pardoned' \in [Users -> BOOLEAN]
      BY <1>1, <1>3, <1>5
    <2>2. overlaps' \in Nat /\ req' = [v \in Workers |-> req'[v]]
      BY <1>1 DEF Typed, CommitFlag, Done
    <2> QED BY <1>1, <1>5, <1>8, <2>1, <2>2 DEF Typed, mergeVars, accessVars
  <1>11. Tables'
    <2>1. ConsentRows'
      BY <1>1, <1>5, <1>7, <1>8, ConsentsStay DEF Tables
    <2> QED BY <1>1, <2>1, MergeStays, OtpStays, EventsStay DEF Tables, accessVars
  <1>12. ASSUME Serial PROVE SerialTables'
    <2>1. ConsentAges'
      BY <1>1, <1>5, <1>7, <1>8, <1>12, ConsentsStay DEF Serial, SerialTables
    <2>2. NoCycle'
      BY <1>7, <1>8, <1>12, NoCycleStays DEF Serial, SerialTables
    <2>3. NoKeys'
      <3>1. \A u \in Users : Retired(u)' => Retired(u)
        BY <1>7, <1>8 DEF Retired, _is_tombstoned
      <3> QED BY <1>5, <1>12, <3>1, KeysStay DEF Serial, SerialTables
    <2>4. Flagged'
      <3> SUFFICES ASSUME NEW u \in Users, Freezes(flags'[u]), ~pardoned'[u]
                   PROVE  user'[u].frozen
        BY DEF Flagged
      <3>1. CASE u = r.u
        <4>1. Freezes(flags[r.u] \cup {r.rule})
          BY <1>1, <1>5, <3>1
        <4>2. r.freeze = (Freezes(flags[r.u] \cup {r.rule}) /\ ~user[r.u].frozen)
          BY <1>2, <1>3, <1>12 DEF Serial, SerialSession
        <4> QED BY <1>7, <1>8, <3>1, <4>1, <4>2
      <3>2. CASE u # r.u
        BY <1>1, <1>5, <1>8, <1>12, <3>2 DEF Serial, SerialTables, Flagged
      <3> QED BY <3>1, <3>2
    <2> QED BY <1>12, <2>1, <2>2, <2>3, <2>4, MergeStays, OtpStays DEF Serial, SerialTables, accessVars
  <1> QED BY <1>2, <1>3, <1>9, <1>10, <1>11, <1>12, Closed DEF CommitFlag

LEMMA Unfrozen ==
    ASSUME IInv, NEW x \in Users, admin_unfreeze_user(x), UNCHANGED <<mergeVars, accessVars>>
    PROVE  IInv'
  <1>1. Typed /\ Tables /\ user \in [Users -> UserRow] /\ pardoned \in [Users -> BOOLEAN]
    BY DEF IInv, Typed
  <1>2. PICK row : row = [user[x] EXCEPT !.frozen = FALSE]
    OBVIOUS
  <1>3. /\ user' = [user EXCEPT ![x] = row] /\ pardoned' = [pardoned EXCEPT ![x] = TRUE]
        /\ UNCHANGED <<flags, keys, consents>>
    BY <1>2 DEF admin_unfreeze_user
  <1>4. user[x] \in UserRow
    BY <1>1
  <1>5. /\ row \in UserRow
        /\ row.registered = user[x].registered /\ row.age = user[x].age
        /\ row.merged = user[x].merged /\ row.deleted = user[x].deleted
    BY <1>2, <1>4 DEF UserRow
  <1>6. /\ user' \in [Users -> UserRow] /\ pardoned' \in [Users -> BOOLEAN]
        /\ \A u \in Users : user'[u] = IF u = x THEN row ELSE user[u]
        /\ \A u \in Users : pardoned'[u] = IF u = x THEN TRUE ELSE pardoned[u]
    BY <1>1, <1>3, <1>5
  <1>7. Grows
    BY <1>3 DEF Grows, mergeVars
  <1>8. Typed'
    <2>1. overlaps' \in Nat /\ UNCHANGED req
      BY <1>1 DEF Typed, admin_unfreeze_user, AtOnce
    <2> QED BY <1>1, <1>3, <1>6, <2>1 DEF Typed, mergeVars, accessVars
  <1>9. Tables'
    <2>1. ConsentRows'
      BY <1>1, <1>3, <1>5, <1>6, ConsentsStay DEF Tables
    <2> QED BY <1>1, <2>1, MergeStays, OtpStays, EventsStay DEF Tables, accessVars
  <1>10. ASSUME Serial PROVE SerialTables'
    <2>1. ConsentAges'
      BY <1>1, <1>3, <1>5, <1>6, <1>10, ConsentsStay DEF Serial, SerialTables
    <2>2. NoCycle'
      BY <1>5, <1>6, <1>10, NoCycleStays DEF Serial, SerialTables
    <2>3. NoKeys'
      <3>1. \A u \in Users : Retired(u)' => Retired(u)
        BY <1>5, <1>6 DEF Retired, _is_tombstoned
      <3> QED BY <1>3, <1>10, <3>1, KeysStay DEF Serial, SerialTables
    <2>4. Flagged'
      BY <1>3, <1>6, <1>10 DEF Serial, SerialTables, Flagged
    <2> QED BY <1>10, <2>1, <2>2, <2>3, <2>4, MergeStays, OtpStays DEF Serial, SerialTables, accessVars
  <1> QED BY <1>7, <1>8, <1>9, <1>10, InOneStep DEF admin_unfreeze_user

-----------------------------------------------------------------------------
(* Keys.                                                                    *)
LEMMA SimpleOpened ==
    ASSUME IInv, NEW w \in Workers, UNCHANGED tableVars, NEW u \in Users,
           NEW op \in {"key", "revoke", "delete"}, Begin(w, [op |-> op, u |-> u]),
           op = "key" => ~Retired(u)
    PROVE  IInv'
  <1>1. PICK r : r = [op |-> op, u |-> u]
    OBVIOUS
  <1>2. r.op = op /\ r.u = u
    BY <1>1
  <1>3. SessionRow(r) /\ SerialSession(r)
    BY <1>2 DEF SessionRow, SerialSession, Ops
  <1> QED BY <1>1, <1>3, Opened

LEMMA KeyCommitted ==
    ASSUME IInv, NEW w \in Workers, CommitKey(w) \/ CommitRevoke(w)
    PROVE  IInv'
  <1>1. Typed /\ Tables /\ SessionRow(req[w]) /\ keys \in [Users -> {"none", "active", "revoked"}]
    BY DEF IInv, Typed, Sessions
  <1>2. PICK u : u = req[w].u
    OBVIOUS
  <1>3. u \in Users /\ req[w] # Idle
    BY <1>1, <1>2 DEF CommitKey, CommitRevoke, SessionRow, Idle
  <1>4. UNCHANGED <<user, flags, consents, pardoned, mergeVars, accessVars>> /\ Done(w)
    BY DEF CommitKey, CommitRevoke
  <1>5. /\ keys' \in [Users -> {"none", "active", "revoked"}]
        /\ \A v \in Users : v # u => keys'[v] = keys[v]
        /\ keys'[u] = "active" => req[w].op = "key"
    BY <1>1, <1>2, <1>3 DEF CommitKey, CommitRevoke
  <1>6. Grows
    BY <1>4 DEF Grows, mergeVars
  <1>7. Typed'
    <2>1. overlaps' \in Nat /\ req' = [v \in Workers |-> req'[v]]
      BY <1>1, <1>4 DEF Typed, Done
    <2> QED BY <1>1, <1>4, <1>5, <2>1 DEF Typed, mergeVars, accessVars
  <1>8. Tables'
    BY <1>1, <1>4, ConsentsStay, MergeStays, OtpStays, EventsStay DEF Tables, accessVars
  <1>9. ASSUME Serial PROVE SerialTables'
    <2>1. \A v : Retired(v)' = Retired(v)
      BY <1>4 DEF Retired, _is_tombstoned
    <2>2. keys'[u] = "active" => ~Retired(u)
      BY <1>2, <1>5, <1>9 DEF Serial, SerialSession
    <2>3. NoKeys'
      BY <1>3, <1>5, <1>9, <2>1, <2>2 DEF Serial, SerialTables, NoKeys
    <2>4. NoCycle' /\ Flagged'
      BY <1>4, <1>9 DEF Serial, SerialTables, NoCycle, Flagged
    <2> QED BY <1>1, <1>4, <1>9, <2>3, <2>4, ConsentsStay, MergeStays, OtpStays
            DEF Serial, SerialTables, accessVars
  <1> QED BY <1>3, <1>4, <1>6, <1>7, <1>8, <1>9, Closed

(* What concerns neither accounts nor merges. *)
LEMMA AccountsStay ==
    ASSUME Typed, UNCHANGED <<user, flags, keys, consents, pardoned, mergeVars>>
    PROVE  /\ Grows
           /\ MergeRows => MergeRows'
           /\ ConsentRows => ConsentRows'
           /\ \A u : Retired(u)' = Retired(u)
           /\ (Flagged => Flagged') /\ (NoCycle => NoCycle') /\ (NoKeys => NoKeys')
           /\ (Accepted => Accepted') /\ (ConsentAges => ConsentAges')
  <1>1. Grows
    BY DEF Grows, mergeVars
  <1>2. \A u : Retired(u)' = Retired(u)
    BY DEF Retired, _is_tombstoned
  <1>3. (Flagged => Flagged') /\ (NoCycle => NoCycle')
    BY DEF Flagged, NoCycle
  <1>4. NoKeys => NoKeys'
    BY <1>2 DEF NoKeys
  <1> QED BY <1>1, <1>2, <1>3, <1>4, MergeStays, ConsentsStay

-----------------------------------------------------------------------------
(* One-time passwords and logins.                                           *)
LEMMA InvalidatedPairs ==
    ASSUME NEW s \in Seq(Pair), NEW n \in Nat
    PROVE  /\ Invalidated(s, n) \in Seq(Pair) /\ Len(Invalidated(s, n)) = Len(s)
           /\ DOMAIN Invalidated(s, n) = DOMAIN s
           /\ \A i \in DOMAIN s : i <= n => Invalidated(s, n)[i].used = TRUE
           /\ \A i \in DOMAIN s : s[i].used => Invalidated(s, n)[i].used
  <1>1. \A i \in DOMAIN s : s[i] \in Pair
    OBVIOUS
  <1>2. \A i \in DOMAIN s : [s[i] EXCEPT !.used = TRUE] \in Pair
                          /\ [s[i] EXCEPT !.used = TRUE].used = TRUE
    BY <1>1 DEF Pair
  <1>3. PICK t : t = Invalidated(s, n)
    OBVIOUS
  <1>4. /\ t = [i \in 1 .. Len(s) |-> IF i <= n THEN [s[i] EXCEPT !.used = TRUE] ELSE s[i]]
        /\ DOMAIN s = 1 .. Len(s)
    BY <1>3 DEF Invalidated
  <1>5. \A i \in DOMAIN s :
           (IF i <= n THEN [s[i] EXCEPT !.used = TRUE] ELSE s[i]) \in Pair
    BY <1>1, <1>2
  <1>6. t \in Seq(Pair) /\ Len(t) = Len(s) /\ DOMAIN t = DOMAIN s
    BY <1>4, <1>5
  <1>7. \A i \in DOMAIN s : i <= n => t[i].used = TRUE
    BY <1>2, <1>4
  <1>8. \A i \in DOMAIN s : s[i].used => t[i].used
    BY <1>2, <1>4
  <1> QED BY <1>3, <1>6, <1>7, <1>8, Zenon

LEMMA OtpOpened ==
    ASSUME IInv, NEW w \in Workers, UNCHANGED tableVars, NEW u \in Users, request_otp(w, u)
    PROVE  IInv'
  <1>1. PICK r : r = [op |-> "otp", u |-> u, n |-> Len(otps[u])]
    OBVIOUS
  <1>2. r.op = "otp" /\ r.u = u /\ r.n = Len(otps[u])
    BY <1>1
  <1>3. r.n \in Nat
    BY <1>2 DEF IInv, Typed
  <1>4. SessionRow(r) /\ SerialSession(r)
    BY <1>2, <1>3 DEF SessionRow, SerialSession, Ops
  <1>5. Begin(w, r)
    BY <1>1 DEF request_otp
  <1> QED BY <1>4, <1>5, Opened

LEMMA LoginOpened ==
    ASSUME IInv, NEW w \in Workers, UNCHANGED tableVars, NEW u \in Users,
           NEW i, login(w, u, i)
    PROVE  IInv'
  <1>1. PICK r : r = [op |-> "login", u |-> u, i |-> i, n |-> Len(otps[u])]
    OBVIOUS
  <1>2. r.op = "login" /\ r.u = u /\ r.i = i /\ r.n = Len(otps[u])
    BY <1>1
  <1>a. i \in DOMAIN otps[u] /\ ~otps[u][i].used /\ otps[u] \in Seq(Pair)
    BY DEF login, _verify_otp, IInv, Typed
  <1>b. r.n \in Nat /\ r.i \in 1 .. r.n
    BY <1>2, <1>a
  <1>3. SessionRow(r) /\ SerialSession(r)
    BY <1>2, <1>a, <1>b DEF SessionRow, SerialSession, Ops
  <1>4. Begin(w, r)
    BY <1>1 DEF login
  <1> QED BY <1>3, <1>4, Opened

(* A request for passwords ends, and so does a login. *)
LEMMA PairsCommitted ==
    ASSUME IInv, NEW w \in Workers, CommitOtp(w) \/ CommitLogin(w)
    PROVE  IInv'
  <1>1. /\ Typed /\ Tables /\ SessionRow(req[w]) /\ otps \in [Users -> Seq(Pair)]
        /\ logins \in [Users -> Seq(Nat)]
    BY DEF IInv, Typed, Sessions
  <1>2. PICK r : r = req[w]
    OBVIOUS
  <1>3. r.u \in Users /\ r # Idle
    BY <1>1, <1>2 DEF CommitOtp, CommitLogin, SessionRow, Idle
  <1>4. PICK u : u = r.u
    OBVIOUS
  <1>a. PICK n \in UpdateFinds(w) :
          \/ CommitOtp(w) /\ otps' = [otps EXCEPT ![u] = Append(Invalidated(otps[u], n),
                                                   [used |-> FALSE, expired |-> FALSE])]
          \/ CommitLogin(w) /\ otps' = [otps EXCEPT ![u] = Invalidated(otps[u], n)]
    BY <1>2, <1>4 DEF CommitOtp, CommitLogin, _invalidate_unused_otps
  <1>b. n \in Nat /\ r.n \in Nat /\ r.n <= n
    <2>1. r.n \in Nat /\ Len(otps[u]) \in Nat
      BY <1>1, <1>2, <1>3, <1>4 DEF CommitOtp, CommitLogin, SessionRow
    <2> QED BY <1>2, <1>4, <2>1 DEF UpdateFinds
  <1>5. PICK old : old = Invalidated(otps[u], n)
    OBVIOUS
  <1>6. /\ old \in Seq(Pair) /\ Len(old) = Len(otps[u]) /\ DOMAIN old = DOMAIN otps[u]
        /\ \A i \in DOMAIN old : i <= n => old[i].used = TRUE
        /\ \A i \in DOMAIN old : ~old[i].used => ~otps[u][i].used
    BY <1>1, <1>3, <1>4, <1>5, <1>b, InvalidatedPairs
  <1>7. /\ UNCHANGED <<user, flags, consents, keys, pardoned, mergeVars, prefs, notified, events>>
        /\ Done(w)
    BY DEF CommitOtp, CommitLogin, accountVars
  <1>8. logins[u] \in Seq(Nat) /\ Len(logins[u]) = Len(otps[u]) /\ u \in Users
    BY <1>1, <1>3, <1>4 DEF Tables, OtpRows
  <1>9. PICK pairs, opened :
          /\ otps' = [otps EXCEPT ![u] = pairs] /\ logins' = [logins EXCEPT ![u] = opened]
          /\ pairs \in Seq(Pair) /\ opened \in Seq(Nat) /\ Len(pairs) = Len(opened)
          /\ Serial => \A i \in DOMAIN opened :
                opened[i] <= 1 /\ (~pairs[i].used => opened[i] = 0)
    <2>1. CASE CommitOtp(w) /\ otps' = [otps EXCEPT ![u] =
                 Append(Invalidated(otps[u], n), [used |-> FALSE, expired |-> FALSE])]
      <3>1. PICK new : new = [used |-> FALSE, expired |-> FALSE]
        OBVIOUS
      <3>2. new \in Pair
        BY <3>1 DEF Pair
      <3>3. /\ otps' = [otps EXCEPT ![u] = Append(old, new)]
            /\ logins' = [logins EXCEPT ![u] = Append(logins[u], 0)]
        BY <1>1, <1>2, <1>4, <1>5, <1>8, <2>1, <3>1 DEF CommitOtp
      <3>4. /\ Append(old, new) \in Seq(Pair) /\ Append(logins[u], 0) \in Seq(Nat)
            /\ Len(Append(old, new)) = Len(Append(logins[u], 0))
        BY <1>6, <1>8, <3>2
      <3>5. ASSUME Serial, NEW i \in DOMAIN Append(logins[u], 0)
            PROVE  Append(logins[u], 0)[i] <= 1
                   /\ (~Append(old, new)[i].used => Append(logins[u], 0)[i] = 0)
        <4>1. CASE i = Len(logins[u]) + 1
          <5>1. Append(logins[u], 0)[i] = 0
            BY <1>8, <4>1
          <5> QED BY <5>1
        <4>2. CASE i # Len(logins[u]) + 1
          <5>1. i \in DOMAIN logins[u] /\ i \in DOMAIN old
            BY <1>6, <1>8, <3>5, <4>2
          <5>2. Append(logins[u], 0)[i] = logins[u][i] /\ Append(old, new)[i] = old[i]
            BY <1>6, <1>8, <5>1
          <5> QED BY <1>6, <1>8, <3>5, <5>1, <5>2 DEF Serial, SerialTables, OtpOnce
        <4> QED BY <4>1, <4>2
      <3> QED BY <3>3, <3>4, <3>5
    <2>2. CASE CommitLogin(w) /\ otps' = [otps EXCEPT ![u] = Invalidated(otps[u], n)]
      <3>1. otps' = [otps EXCEPT ![u] = old]
        BY <1>5, <2>2
      <3>2. PICK opened : opened = IF r.i \in DOMAIN logins[u]
                                   THEN [logins[u] EXCEPT ![r.i] = logins[u][r.i] + 1]
                                   ELSE logins[u]
        OBVIOUS
      <3>3. logins' = [logins EXCEPT ![u] = opened]
        <4>1. CASE r.i \in DOMAIN logins[u]
          BY <1>1, <1>2, <1>4, <1>8, <2>2, <3>2, <4>1 DEF CommitLogin
        <4>2. CASE r.i \notin DOMAIN logins[u]
          BY <1>1, <1>2, <1>4, <1>8, <2>2, <3>2, <4>2 DEF CommitLogin
        <4> QED BY <4>1, <4>2
      <3>4. /\ opened \in Seq(Nat) /\ Len(opened) = Len(logins[u])
            /\ DOMAIN opened = DOMAIN logins[u]
        <4>1. CASE r.i \in DOMAIN logins[u]
          <5>1. logins[u][r.i] + 1 \in Nat
            BY <1>8, <4>1
          <5> QED BY <1>8, <3>2, <4>1, <5>1
        <4>2. CASE r.i \notin DOMAIN logins[u]
          BY <1>8, <3>2, <4>2
        <4> QED BY <4>1, <4>2
      <3>5. ASSUME Serial, NEW i \in DOMAIN opened
            PROVE  opened[i] <= 1 /\ (~old[i].used => opened[i] = 0)
        <4>1. i \in DOMAIN logins[u] /\ i \in DOMAIN old /\ logins[u][i] \in Nat
          <5>1. old \in Seq(Pair) /\ Len(old) = Len(logins[u]) /\ logins[u] \in Seq(Nat)
            BY <1>6, <1>8
          <5>2. DOMAIN old = DOMAIN logins[u]
            BY <5>1
          <5> QED BY <3>4, <3>5, <5>1, <5>2
        <4>2. r.i \in 1 .. r.n
          BY <1>1, <1>2, <2>2 DEF SessionRow, CommitLogin
        <4>3. logins[u][i] <= 1 /\ (~otps[u][i].used => logins[u][i] = 0)
          BY <1>8, <3>5, <4>1 DEF Serial, SerialTables, OtpOnce
        <4>4. CASE i = r.i
          <5>1. ~otps[u][i].used
            BY <1>2, <1>4, <2>2, <3>5, <4>4 DEF Serial, SerialSession, CommitLogin
          <5>2. logins[u][i] = 0
            BY <1>8, <3>5, <4>1, <5>1 DEF Serial, SerialTables, OtpOnce
          <5>3. opened[i] = 1
            BY <1>8, <3>2, <4>1, <4>4, <5>2
          <5>4. old[i].used = TRUE
            BY <1>6, <1>b, <4>1, <4>2, <4>4
          <5> QED BY <5>3, <5>4
        <4>5. CASE i # r.i
          <5>1. opened[i] = logins[u][i]
            BY <1>8, <3>2, <4>1, <4>5
          <5> QED BY <1>6, <4>1, <4>3, <5>1
        <4> QED BY <4>4, <4>5
      <3> QED BY <1>6, <1>8, <3>1, <3>3, <3>4, <3>5
    <2> QED BY <1>a, <2>1, <2>2
  <1>10. /\ otps' \in [Users -> Seq(Pair)] /\ logins' \in [Users -> Seq(Nat)]
         /\ \A v \in Users : otps'[v] = IF v = u THEN pairs ELSE otps[v]
         /\ \A v \in Users : logins'[v] = IF v = u THEN opened ELSE logins[v]
    BY <1>1, <1>8, <1>9
  <1>11. Typed'
    <2>1. overlaps' \in Nat /\ req' = [v \in Workers |-> req'[v]]
      BY <1>1, <1>7 DEF Typed, Done
    <2> QED BY <1>1, <1>7, <1>10, <2>1 DEF Typed, mergeVars
  <1>12. Tables'
    <2>1. OtpRows'
      BY <1>1, <1>9, <1>10 DEF Tables, OtpRows
    <2> QED BY <1>1, <1>7, <2>1, AccountsStay, EventsStay DEF Tables
  <1>13. ASSUME Serial PROVE SerialTables'
    <2>1. OtpOnce'
      <3> SUFFICES ASSUME NEW v \in Users, NEW i \in DOMAIN logins'[v]
                   PROVE  logins'[v][i] <= 1 /\ (~otps'[v][i].used => logins'[v][i] = 0)
        BY DEF OtpOnce
      <3>1. CASE v = u
        BY <1>9, <1>10, <1>13, <3>1
      <3>2. CASE v # u
        <4>1. i \in DOMAIN logins[v] /\ logins'[v] = logins[v] /\ otps'[v] = otps[v]
          BY <1>10, <3>2
        <4> QED BY <1>13, <4>1 DEF Serial, SerialTables, OtpOnce
      <3> QED BY <3>1, <3>2
    <2> QED BY <1>1, <1>7, <1>13, <2>1, AccountsStay DEF Serial, SerialTables
  <1> QED BY <1>1, <1>2, <1>3, <1>7, <1>11, <1>12, <1>13, AccountsStay, Closed

LEMMA OtpExpired ==
    ASSUME IInv, NEW u \in Users, NEW i \in DOMAIN otps[u], OtpExpires(u, i)
    PROVE  IInv'
  <1>1. Typed /\ Tables /\ otps \in [Users -> Seq(Pair)] /\ logins \in [Users -> Seq(Nat)]
    BY DEF IInv, Typed
  <1>2. PICK row : row = [otps[u][i] EXCEPT !.expired = TRUE]
    OBVIOUS
  <1>3. otps[u] \in Seq(Pair) /\ otps[u][i] \in Pair
    BY <1>1
  <1>4. row \in Pair /\ row.used = otps[u][i].used
    BY <1>2, <1>3 DEF Pair
  <1>5. PICK pairs : pairs = [otps[u] EXCEPT ![i] = row]
    OBVIOUS
  <1>6. otps' = [otps EXCEPT ![u] = pairs]
    BY <1>1, <1>2, <1>3, <1>5 DEF OtpExpires
  <1>7. /\ pairs \in Seq(Pair) /\ Len(pairs) = Len(otps[u]) /\ DOMAIN pairs = DOMAIN otps[u]
        /\ \A j \in DOMAIN pairs : pairs[j].used = otps[u][j].used
    BY <1>3, <1>4, <1>5
  <1>8. /\ otps' \in [Users -> Seq(Pair)]
        /\ \A v \in Users : Len(otps'[v]) = Len(otps[v]) /\ DOMAIN otps'[v] = DOMAIN otps[v]
        /\ \A v \in Users : \A j \in DOMAIN otps[v] : otps'[v][j].used = otps[v][j].used
    BY <1>1, <1>6, <1>7
  <1>9. /\ UNCHANGED <<user, flags, consents, keys, pardoned, mergeVars, prefs, notified, events>>
        /\ UNCHANGED requestVars /\ logins' = logins
    BY DEF OtpExpires, accountVars
  <1>10. Typed'
    BY <1>1, <1>8, <1>9 DEF Typed, mergeVars, requestVars
  <1>11. \A v \in Users : DOMAIN logins[v] = DOMAIN otps[v]
    <2>1. \A v \in Users : otps[v] \in Seq(Pair) /\ logins[v] \in Seq(Nat)
                          /\ Len(logins[v]) = Len(otps[v])
      BY <1>1 DEF Tables, OtpRows
    <2> QED BY <2>1
  <1>12. Tables'
    <2>1. OtpRows'
      BY <1>1, <1>8, <1>9 DEF Tables, OtpRows
    <2> QED BY <1>1, <1>9, <2>1, AccountsStay, EventsStay DEF Tables
  <1>13. ASSUME Serial PROVE SerialTables'
    <2>1. OtpOnce'
      BY <1>8, <1>9, <1>11, <1>13 DEF Serial, SerialTables, OtpOnce
    <2> QED BY <1>1, <1>9, <1>13, <2>1, AccountsStay DEF Serial, SerialTables
  <1>14. ASSUME NEW r, SessionRow(r), SerialSession(r) PROVE SerialSession(r)'
    <2>1. \A v : Retired(v)' = Retired(v)
      BY <1>1, <1>9, AccountsStay
    <2>2. \A p : Mergeable(p) => Mergeable(p)'
      BY <1>9, <2>1 DEF Mergeable, mergeVars
    <2>3. r.op = "login" => r.i \in DOMAIN otps'[r.u] /\ ~otps'[r.u][r.i].used
      BY <1>8, <1>14 DEF SessionRow, SerialSession
    <2> QED BY <1>9, <1>14, <2>1, <2>2, <2>3 DEF SerialSession, mergeVars
  <1> QED BY <1>1, <1>9, <1>10, <1>12, <1>13, <1>14, AccountsStay, TimePasses

-----------------------------------------------------------------------------
(* The two stages of a deletion.                                            *)
LEMMA DeleteCommitted ==
    ASSUME IInv, NEW w \in Workers, CommitDelete(w)
    PROVE  IInv'
  <1>1. /\ Typed /\ Tables /\ SessionRow(req[w]) /\ user \in [Users -> UserRow]
        /\ keys \in [Users -> {"none", "active", "revoked"}]
    BY DEF IInv, Typed, Sessions
  <1>2. PICK x : x = req[w].u
    OBVIOUS
  <1>3. x \in Users /\ req[w] # Idle
    BY <1>1, <1>2 DEF CommitDelete, SessionRow, Idle
  <1>4. PICK row : row = [user[x] EXCEPT !.deleted = TRUE]
    OBVIOUS
  <1>5. /\ user' = [user EXCEPT ![x] = row] /\ keys' = RevokedKeys(x) /\ Done(w)
        /\ UNCHANGED <<flags, consents, pardoned, mergeVars, otps, logins, prefs, notified, events>>
    BY <1>2, <1>4 DEF CommitDelete
  <1>6. user[x] \in UserRow
    BY <1>1, <1>3
  <1>7. /\ row \in UserRow
        /\ row.registered = user[x].registered /\ row.age = user[x].age
        /\ row.merged = user[x].merged /\ row.frozen = user[x].frozen
    BY <1>4, <1>6 DEF UserRow
  <1>8. /\ user' \in [Users -> UserRow]
        /\ \A u \in Users : user'[u] = IF u = x THEN row ELSE user[u]
    BY <1>1, <1>3, <1>5, <1>7
  <1>9. /\ keys' \in [Users -> {"none", "active", "revoked"}] /\ keys'[x] # "active"
        /\ \A u \in Users : u # x => keys'[u] = keys[u]
    BY <1>1, <1>3, <1>5 DEF RevokedKeys
  <1>10. Grows
    BY <1>5 DEF Grows, mergeVars
  <1>11. Typed'
    <2>1. overlaps' \in Nat /\ req' = [v \in Workers |-> req'[v]]
      BY <1>1, <1>5 DEF Typed, Done
    <2> QED BY <1>1, <1>5, <1>8, <1>9, <2>1 DEF Typed, mergeVars
  <1>12. Tables'
    <2>1. ConsentRows'
      BY <1>1, <1>5, <1>7, <1>8, ConsentsStay DEF Tables
    <2> QED BY <1>1, <1>5, <2>1, MergeStays, OtpStays, EventsStay DEF Tables
  <1>13. ASSUME Serial PROVE SerialTables'
    <2>1. ConsentAges'
      BY <1>1, <1>5, <1>7, <1>8, <1>13, ConsentsStay DEF Serial, SerialTables
    <2>2. NoCycle'
      BY <1>7, <1>8, <1>13, NoCycleStays DEF Serial, SerialTables
    <2>3. NoKeys'
      <3>1. \A u \in Users : u # x => Retired(u)' = Retired(u)
        BY <1>8 DEF Retired, _is_tombstoned
      <3> QED BY <1>9, <1>13, <3>1 DEF Serial, SerialTables, NoKeys
    <2>4. Flagged'
      BY <1>5, <1>7, <1>8, <1>13 DEF Serial, SerialTables, Flagged
    <2> QED BY <1>5, <1>13, <2>1, <2>2, <2>3, <2>4, MergeStays, OtpStays DEF Serial, SerialTables
  <1> QED BY <1>3, <1>5, <1>10, <1>11, <1>12, <1>13, Closed

LEMMA GracePeriodEnded ==
    ASSUME IInv, NEW u \in Users, GracePeriodEnds(u)
    PROVE  IInv'
  <1>1. Typed /\ Tables
    BY DEF IInv
  <1>2. /\ UNCHANGED <<user, flags, keys, consents, pardoned, mergeVars>> /\ UNCHANGED requestVars
        /\ UNCHANGED <<otps, logins>> /\ UNCHANGED <<notified, events>> /\ UNCHANGED prefs
    BY DEF GracePeriodEnds, accountVars
  <1>3. Typed'
    BY <1>1, <1>2 DEF Typed, mergeVars, requestVars
  <1>4. Tables'
    BY <1>1, <1>2, AccountsStay, OtpStays, EventsStay DEF Tables
  <1>5. SerialTables => SerialTables'
    BY <1>1, <1>2, AccountsStay, OtpStays DEF SerialTables
  <1>6. ASSUME NEW r, SerialSession(r) PROVE SerialSession(r)'
    <2>1. \A v : Retired(v)' = Retired(v)
      BY <1>1, <1>2, AccountsStay
    <2>2. \A p : Mergeable(p) => Mergeable(p)'
      BY <1>2, <2>1 DEF Mergeable, mergeVars
    <2> QED BY <1>2, <1>6, <2>1, <2>2 DEF SerialSession, mergeVars
  <1> QED BY <1>1, <1>2, <1>3, <1>4, <1>5, <1>6, AccountsStay, TimePasses DEF Serial

LEMMA DueDeleted ==
    ASSUME IInv, complete_due_deletion_requests
    PROVE  IInv'
  <1>1. /\ Typed /\ Tables /\ user \in [Users -> UserRow] /\ pardoned \in [Users -> BOOLEAN]
        /\ keys \in [Users -> {"none", "active", "revoked"}]
        /\ otps \in [Users -> Seq(Pair)] /\ logins \in [Users -> Seq(Nat)]
    BY DEF IInv, Typed
  <1>2. PICK gone : gone = {u \in Users : deletion[u].status = "scheduled" /\ deletion[u].due}
    OBVIOUS
  <1>3. /\ keys' = [u \in Users |-> IF u \in gone THEN "none" ELSE keys[u]]
        /\ otps' = [u \in Users |-> IF u \in gone THEN <<>> ELSE otps[u]]
        /\ logins' = [u \in Users |-> IF u \in gone THEN <<>> ELSE logins[u]]
        /\ pardoned' = [u \in Users |-> pardoned[u] \/ u \in gone]
    BY <1>2 DEF complete_due_deletion_requests
  <1>4. user' = [u \in Users |-> IF u \in gone
                                 THEN [user[u] EXCEPT !.erased = TRUE, !.frozen = FALSE]
                                 ELSE user[u]]
    BY <1>2 DEF complete_due_deletion_requests
  <1>5. AtOnce /\ UNCHANGED <<flags, consents, mergeVars, prefs, notified, events>>
    BY DEF complete_due_deletion_requests
  <1>6. ASSUME NEW u \in Users
        PROVE  /\ user'[u] \in UserRow
               /\ user'[u].registered = user[u].registered
               /\ user'[u].age = user[u].age /\ user'[u].merged = user[u].merged
               /\ user'[u].deleted = user[u].deleted
               /\ u \notin gone => user'[u].frozen = user[u].frozen
    <2>1. user[u] \in UserRow
      BY <1>1
    <2>2. CASE u \in gone
      <3>1. PICK old : old = user[u]
        OBVIOUS
      <3>2. PICK row : row = [old EXCEPT !.erased = TRUE, !.frozen = FALSE]
        OBVIOUS
      <3>3. /\ row \in UserRow
            /\ row.registered = old.registered /\ row.age = old.age
            /\ row.merged = old.merged /\ row.deleted = old.deleted
        BY <2>1, <3>1, <3>2 DEF UserRow
      <3>4. user'[u] = row
        BY <1>4, <2>2, <3>1, <3>2
      <3> QED BY <2>2, <3>1, <3>3, <3>4
    <2>3. CASE u \notin gone
      BY <1>4, <2>1, <2>3
    <2> QED BY <2>2, <2>3
  <1>7. user' \in [Users -> UserRow]
    <2>1. user' = [u \in Users |-> user'[u]]
      BY <1>4
    <2> QED BY <1>6, <2>1
  <1>8. \A u \in Users : user'[u].registered = user[u].registered /\ user'[u].age = user[u].age
    BY <1>6
  <1>9. /\ keys' \in [Users -> {"none", "active", "revoked"}]
        /\ \A u \in Users : keys'[u] = "active" => keys[u] = "active"
    BY <1>1, <1>3
  <1>10. ASSUME NEW u \in Users
         PROVE  /\ u \notin gone => otps'[u] = otps[u] /\ logins'[u] = logins[u]
                /\ u \in gone => otps'[u] = <<>> /\ logins'[u] = <<>>
    BY <1>3
  <1>11. otps' \in [Users -> Seq(Pair)] /\ logins' \in [Users -> Seq(Nat)]
    <2>1. ASSUME NEW u \in Users PROVE otps'[u] \in Seq(Pair) /\ logins'[u] \in Seq(Nat)
      <3>1. CASE u \in gone
        <4>1. otps'[u] = <<>> /\ logins'[u] = <<>>
          BY <1>10, <3>1
        <4>2. <<>> \in Seq(Pair) /\ <<>> \in Seq(Nat)
          OBVIOUS
        <4> QED BY <4>1, <4>2
      <3>2. CASE u \notin gone
        BY <1>1, <1>10, <3>2
      <3> QED BY <3>1, <3>2
    <2>2. otps' = [u \in Users |-> otps'[u]] /\ logins' = [u \in Users |-> logins'[u]]
      BY <1>3
    <2> QED BY <2>1, <2>2
  <1>12. /\ pardoned' \in [Users -> BOOLEAN]
         /\ \A u \in Users : pardoned'[u] <=> pardoned[u] \/ u \in gone
    BY <1>1, <1>3
  <1>13. Grows
    BY <1>5 DEF Grows, mergeVars
  <1>14. Typed'
    <2>1. overlaps' \in Nat /\ UNCHANGED req
      BY <1>1, <1>5 DEF Typed, AtOnce
    <2> QED BY <1>1, <1>5, <1>7, <1>9, <1>11, <1>12, <2>1 DEF Typed, mergeVars
  <1>15. Tables'
    <2>1. ConsentRows'
      BY <1>1, <1>5, <1>8, ConsentsStay DEF Tables
    <2>2. OtpRows'
      <3> SUFFICES ASSUME NEW u \in Users PROVE Len(logins'[u]) = Len(otps'[u])
        BY DEF OtpRows
      <3> QED BY <1>1, <1>10 DEF Tables, OtpRows
    <2> QED BY <1>1, <1>5, <2>1, <2>2, MergeStays, EventsStay DEF Tables
  <1>16. ASSUME Serial PROVE SerialTables'
    <2>1. ConsentAges'
      BY <1>1, <1>5, <1>8, <1>16, ConsentsStay DEF Serial, SerialTables
    <2>2. NoCycle'
      <3>1. \A u \in Users : user'[u].merged \in {user[u].merged, Nobody}
        BY <1>6
      <3> QED BY <1>16, <3>1, NoCycleStays DEF Serial, SerialTables
    <2>3. NoKeys'
      <3>1. \A u \in Users : user'[u].deleted = user[u].deleted /\ user'[u].merged = user[u].merged
        BY <1>6
      <3>2. \A u \in Users : Retired(u)' => Retired(u)
        BY <3>1 DEF Retired, _is_tombstoned
      <3> QED BY <1>9, <1>16, <3>2, KeysStay DEF Serial, SerialTables
    <2>4. Flagged'
      <3>1. \A u \in Users : u \notin gone => user'[u].frozen = user[u].frozen
        BY <1>6
      <3> QED BY <1>5, <1>12, <1>16, <3>1 DEF Serial, SerialTables, Flagged
    <2>5. OtpOnce'
      <3> SUFFICES ASSUME NEW v \in Users, NEW i \in DOMAIN logins'[v]
                   PROVE  logins'[v][i] <= 1 /\ (~otps'[v][i].used => logins'[v][i] = 0)
        BY DEF OtpOnce
      <3>1. CASE v \in gone
        BY <1>10, <3>1
      <3>2. CASE v \notin gone
        <4>1. i \in DOMAIN logins[v] /\ logins'[v] = logins[v] /\ otps'[v] = otps[v]
          BY <1>10, <3>2
        <4> QED BY <1>16, <4>1 DEF Serial, SerialTables, OtpOnce
      <3> QED BY <3>1, <3>2
    <2> QED BY <1>5, <1>16, <2>1, <2>2, <2>3, <2>4, <2>5, MergeStays DEF Serial, SerialTables
  <1> QED BY <1>5, <1>13, <1>14, <1>15, <1>16, InOneStep

-----------------------------------------------------------------------------
(* Notifications.                                                           *)
LEMMA PreferencesUpdated ==
    ASSUME IInv, NEW u \in Users, update_notification_preferences(u)
    PROVE  IInv'
  <1>1. Typed /\ Tables /\ prefs \subseteq Users
    BY DEF IInv, Typed
  <1>2. /\ UNCHANGED <<user, flags, keys, consents, pardoned, mergeVars>> /\ AtOnce
        /\ UNCHANGED <<otps, logins>> /\ UNCHANGED <<notified, events>>
        /\ prefs' \in {prefs \cup {u}, prefs \ {u}}
    BY DEF update_notification_preferences, accountVars
  <1>3. Typed'
    <2>1. overlaps' \in Nat /\ UNCHANGED req
      BY <1>1, <1>2 DEF Typed, AtOnce
    <2>2. prefs' \subseteq Users
      BY <1>1, <1>2
    <2> QED BY <1>1, <1>2, <2>1, <2>2 DEF Typed, mergeVars
  <1>4. Tables'
    BY <1>1, <1>2, AccountsStay, OtpStays, EventsStay DEF Tables
  <1>5. SerialTables => SerialTables'
    BY <1>1, <1>2, AccountsStay, OtpStays DEF SerialTables
  <1> QED BY <1>1, <1>2, <1>3, <1>4, <1>5, AccountsStay, InOneStep DEF Serial

LEMMA FanoutOpened ==
    ASSUME IInv, NEW w \in Workers, UNCHANGED tableVars, NEW i \in Incidents,
           admin_fanout_status_incident(w, i)
    PROVE  IInv'
  <1>1. PICK rows : rows = {u \in prefs : _require_active_user(u)}
    OBVIOUS
  <1>2. rows \subseteq Users
    BY <1>1 DEF IInv, Typed
  <1>3. PICK r : r = [op |-> "fanout", i |-> i, rows |-> rows]
    OBVIOUS
  <1>4. r.op = "fanout" /\ r.i = i /\ r.rows = rows
    BY <1>3
  <1>5. SessionRow(r) /\ SerialSession(r)
    BY <1>2, <1>4 DEF SessionRow, SerialSession, Ops
  <1>6. Begin(w, r)
    BY <1>1, <1>3 DEF admin_fanout_status_incident
  <1> QED BY <1>5, <1>6, Opened

LEMMA FanoutCommitted ==
    ASSUME IInv, NEW w \in Workers, CommitFanout(w)
    PROVE  IInv'
  <1>1. /\ Typed /\ Tables /\ SessionRow(req[w]) /\ notified \in [Incidents -> SUBSET Users]
        /\ events \in [Incidents -> [Users -> Nat]]
    BY DEF IInv, Typed, Sessions
  <1>2. PICK r : r = req[w]
    OBVIOUS
  <1>3. r.i \in Incidents /\ r.rows \subseteq Users /\ req[w] # Idle
    BY <1>1, <1>2 DEF CommitFanout, SessionRow, Idle
  <1>4. PICK created : created = r.rows \ notified[r.i]
    OBVIOUS
  <1>5. PICK counts : counts = [u \in Users |-> events[r.i][u] + (IF u \in created THEN 1 ELSE 0)]
    OBVIOUS
  <1>6. /\ notified' = [notified EXCEPT ![r.i] = notified[r.i] \cup created]
        /\ events' = [events EXCEPT ![r.i] = counts] /\ Done(w)
        /\ UNCHANGED <<user, flags, keys, consents, pardoned, mergeVars>>
        /\ UNCHANGED <<otps, logins>> /\ UNCHANGED prefs
    BY <1>1, <1>2, <1>3, <1>4, <1>5 DEF CommitFanout, CreatedRequests, accountVars
  <1>7. events[r.i] \in [Users -> Nat]
    BY <1>1, <1>3
  <1>8. counts \in [Users -> Nat]
    BY <1>5, <1>7
  <1>9. \A u \in Users : counts[u] = IF u \in notified[r.i] \cup created THEN 1 ELSE 0
    <2>1. \A u \in Users : events[r.i][u] = IF u \in notified[r.i] THEN 1 ELSE 0
      BY <1>1, <1>3 DEF Tables, OneEventPerNotification
    <2> QED BY <1>4, <1>5, <2>1
  <1>10. Typed'
    <2>1. overlaps' \in Nat /\ req' = [v \in Workers |-> req'[v]]
      BY <1>1, <1>6 DEF Typed, Done
    <2>2. notified' \in [Incidents -> SUBSET Users] /\ events' \in [Incidents -> [Users -> Nat]]
      BY <1>1, <1>3, <1>4, <1>6, <1>8
    <2> QED BY <1>1, <1>6, <2>1, <2>2 DEF Typed, mergeVars
  <1>11. OneEventPerNotification'
    <2> SUFFICES ASSUME NEW i \in Incidents, NEW u \in Users
                 PROVE  events'[i][u] = IF u \in notified'[i] THEN 1 ELSE 0
      BY DEF OneEventPerNotification
    <2>1. CASE i = r.i
      <3>1. events'[i] = counts /\ notified'[i] = notified[i] \cup created
        BY <1>1, <1>6, <2>1
      <3> QED BY <1>9, <2>1, <3>1
    <2>2. CASE i # r.i
      <3>1. events'[i] = events[i] /\ notified'[i] = notified[i]
        BY <1>1, <1>6, <2>2
      <3> QED BY <1>1, <3>1 DEF Tables, OneEventPerNotification
    <2> QED BY <2>1, <2>2
  <1>12. Tables'
    BY <1>1, <1>6, <1>11, AccountsStay, OtpStays DEF Tables
  <1>13. SerialTables => SerialTables'
    BY <1>1, <1>6, AccountsStay, OtpStays DEF SerialTables
  <1> QED BY <1>1, <1>3, <1>6, <1>10, <1>12, <1>13, AccountsStay, Closed DEF Serial

-----------------------------------------------------------------------------
(* Proposals and appeals begin.                                             *)
LEMMA NewProposalRow ==
    ASSUME NEW u \in Users, NEW body \in Bodies, Proposable(u, body)
    PROVE  LET row == NewProposal(u, body)
           IN  row \in ProposalRow /\ row.requester = u /\ row.requester \notin row.dups
  <1>1. body.dups \in SUBSET Users /\ u \notin body.dups
    BY DEF Bodies, Proposable
  <1>2. PICK status \in {"auto_approved", "pending_review"} :
          NewProposal(u, body) = [requester |-> u, dups |-> body.dups, status |-> status]
    BY DEF NewProposal
  <1> QED BY <1>1, <1>2 DEF ProposalRow

LEMMA ProposalOpened ==
    ASSUME IInv, NEW w \in Workers, UNCHANGED tableVars, NEW u \in Users, NEW body \in Bodies,
           create_merge_proposal(w, u, body)
    PROVE  IInv'
  <1>1. PICK row : row = NewProposal(u, body)
    OBVIOUS
  <1>2. row \in ProposalRow /\ row.requester = u /\ row.requester \notin row.dups
    BY <1>1, NewProposalRow DEF create_merge_proposal
  <1>3. PICK r : r = [op |-> "propose", row |-> row]
    OBVIOUS
  <1>4. r.op = "propose" /\ r.row = row
    BY <1>3
  <1>5. SessionRow(r) /\ SerialSession(r)
    BY <1>2, <1>4 DEF SessionRow, SerialSession, Ops
  <1>6. Begin(w, r)
    BY <1>1, <1>3 DEF create_merge_proposal
  <1> QED BY <1>5, <1>6, Opened

LEMMA SubmitOpened ==
    ASSUME IInv, NEW w \in Workers, UNCHANGED tableVars, NEW a \in DOMAIN appeals,
           NEW body \in Bodies, submit_frozen_appeal_proposal(w, a, body)
    PROVE  IInv'
  <1>1. PICK row : row = NewProposal(appeals[a].user, body)
    OBVIOUS
  <1>2. appeals[a].user \in Users
    <2>1. appeals \in Seq(AppealRow)
      BY DEF IInv, Typed
    <2>2. appeals[a] \in AppealRow
      BY <2>1
    <2> QED BY <2>2 DEF AppealRow
  <1>3. row \in ProposalRow /\ row.requester = appeals[a].user /\ row.requester \notin row.dups
    BY <1>1, <1>2, NewProposalRow DEF submit_frozen_appeal_proposal
  <1>4. PICK r : r = [op |-> "submit", a |-> a, row |-> row]
    OBVIOUS
  <1>5. r.op = "submit" /\ r.row = row /\ r.a = a
    BY <1>4
  <1>6. SessionRow(r) /\ SerialSession(r)
    BY <1>3, <1>5 DEF SessionRow, SerialSession, Ops
  <1>7. Begin(w, r)
    BY <1>1, <1>4 DEF submit_frozen_appeal_proposal
  <1> QED BY <1>6, <1>7, Opened

LEMMA ReviewOpened ==
    ASSUME IInv, NEW w \in Workers, UNCHANGED tableVars, NEW p \in DOMAIN proposals,
           NEW decision \in {"approved", "rejected"}, review_merge_proposal(w, p, decision)
    PROVE  IInv'
  <1>1. PICK r : r = [op |-> "review", p |-> p, status |-> decision]
    OBVIOUS
  <1>2. r.op = "review" /\ r.p = p /\ r.status = decision
    BY <1>1
  <1>3. SessionRow(r) /\ SerialSession(r)
    BY <1>2 DEF SessionRow, SerialSession, Ops, review_merge_proposal, Reviewable
  <1>4. Begin(w, r)
    BY <1>1 DEF review_merge_proposal
  <1> QED BY <1>3, <1>4, Opened

LEMMA AcceptOpened ==
    ASSUME IInv, NEW w \in Workers, UNCHANGED tableVars, NEW p \in DOMAIN proposals, NEW a,
           a # 0 => a \in DOMAIN appeals /\ appeals[a].proposal = p,
           accept_merge_proposal(w, p, a)
    PROVE  IInv'
  <1>1. PICK r : r = [op |-> "accept", p |-> p, a |-> a]
    OBVIOUS
  <1>2. r.op = "accept" /\ r.p = p /\ r.a = a
    BY <1>1
  <1>3. SessionRow(r) /\ SerialSession(r)
    BY <1>2 DEF SessionRow, SerialSession, Ops, accept_merge_proposal
  <1>4. Begin(w, r)
    BY <1>1 DEF accept_merge_proposal
  <1> QED BY <1>3, <1>4, Opened

LEMMA AppealAcceptOpened ==
    ASSUME IInv, NEW w \in Workers, UNCHANGED tableVars, NEW a \in DOMAIN appeals,
           accept_frozen_appeal(w, a)
    PROVE  IInv'
  <1>1. PICK p : p = appeals[a].proposal
    OBVIOUS
  <1>2. p # 0 /\ p \in DOMAIN proposals
    BY <1>1 DEF accept_frozen_appeal, IInv, Tables, MergeRows, PointsToOwn
  <1>3. CASE accept_merge_proposal(w, p, a)
    BY <1>1, <1>2, <1>3, AcceptOpened
  <1>4. CASE proposals[p].status = "accepted" /\ Begin(w, [op |-> "mark", a |-> a])
    <2>1. PICK r : r = [op |-> "mark", a |-> a]
      OBVIOUS
    <2>2. r.op = "mark" /\ r.a = a
      BY <2>1
    <2>3. SessionRow(r) /\ SerialSession(r)
      BY <1>1, <1>2, <1>4, <2>2 DEF SessionRow, SerialSession, Ops
    <2> QED BY <1>4, <2>1, <2>3, Opened
  <1> QED BY <1>1, <1>3, <1>4 DEF accept_frozen_appeal

LEMMA AppealOpened ==
    ASSUME IInv, NEW w \in Workers, UNCHANGED tableVars, NEW u \in Users,
           start_frozen_appeal(w, u)
    PROVE  IInv'
  <1>1. PICK p : p = _latest_non_terminal_proposal(u)
    OBVIOUS
  <1>2. proposals \in Seq(ProposalRow)
    BY DEF IInv, Typed
  <1>3. p = 0 \/ (p \in DOMAIN proposals /\ proposals[p].requester = u)
    <2> DEFINE open == {q \in DOMAIN proposals :
                          proposals[q].requester = u /\ proposals[q].status \in NonTerminal}
    <2>1. CASE open = {}
      BY <1>1, <2>1 DEF _latest_non_terminal_proposal
    <2>2. CASE open # {}
      <3>1. p = CHOOSE q \in open : \A k \in open : k <= q
        BY <1>1, <2>2 DEF _latest_non_terminal_proposal
      <3>2. p \in open
        <4>1. open \in SUBSET DOMAIN proposals
          OBVIOUS
        <4> HIDE DEF open
        <4> QED BY <1>2, <2>2, <3>1, <4>1, LatestIndex
      <3> QED BY <3>2
    <2> QED BY <2>1, <2>2
  <1>4. PICK row : row = [user |-> u, status |-> "started", past |-> FALSE, proposal |-> p]
    OBVIOUS
  <1>5. row.user = u /\ row.proposal = p /\ row.status = "started" /\ row \in AppealRow
    <2>1. p \in Nat
      BY <1>2, <1>3
    <2> QED BY <1>4, <2>1 DEF AppealRow
  <1>6. PICK r : r = [op |-> "appeal", row |-> row]
    OBVIOUS
  <1>7. r.op = "appeal" /\ r.row = row
    BY <1>6
  <1>8. PointsToOwn(row)
    BY <1>3, <1>5 DEF PointsToOwn
  <1>9. SessionRow(r) /\ SerialSession(r)
    BY <1>5, <1>7, <1>8 DEF SessionRow, SerialSession, Ops
  <1>10. Begin(w, r)
    BY <1>1, <1>4, <1>6 DEF start_frozen_appeal
  <1> QED BY <1>9, <1>10, Opened

-----------------------------------------------------------------------------
(* Proposals and appeals change.                                            *)
LEMMA OnlyMerges ==
    ASSUME IInv, UNCHANGED <<user, flags, keys, consents, pardoned>>, UNCHANGED accessVars
    PROVE  /\ MergeRows' => Tables'
           /\ Serial /\ Accepted' => SerialTables'
           /\ proposals' \in Seq(ProposalRow) /\ appeals' \in Seq(AppealRow)
              /\ overlaps' \in Nat /\ req' = [v \in Workers |-> req'[v]] => Typed'
  <1>1. Typed /\ Tables
    BY DEF IInv
  <1>2. \A u : Retired(u)' = Retired(u)
    BY DEF Retired, _is_tombstoned
  <1>3. Typed => (ConsentRows => ConsentRows') /\ (ConsentAges => ConsentAges')
    BY ConsentsStay
  <1>4. MergeRows' => Tables'
    BY <1>1, <1>3, OtpStays, EventsStay DEF Tables, accessVars
  <1>5. ASSUME Serial, Accepted' PROVE SerialTables'
    <2>1. NoCycle' /\ NoKeys' /\ Flagged'
      BY <1>2, <1>5 DEF Serial, SerialTables, NoCycle, NoKeys, Flagged
    <2> QED BY <1>1, <1>3, <1>5, <2>1, OtpStays DEF Serial, SerialTables, accessVars
  <1>6. ASSUME proposals' \in Seq(ProposalRow), appeals' \in Seq(AppealRow),
               overlaps' \in Nat, req' = [v \in Workers |-> req'[v]]
        PROVE  Typed'
    BY <1>1, <1>6 DEF Typed, accessVars
  <1> QED BY <1>4, <1>5, <1>6

LEMMA ProposalCommitted ==
    ASSUME IInv, NEW w \in Workers, CommitProposal(w), UNCHANGED accessVars
    PROVE  IInv'
  <1>1. /\ Typed /\ Tables /\ SessionRow(req[w]) /\ proposals \in Seq(ProposalRow)
        /\ appeals \in Seq(AppealRow)
    BY DEF IInv, Typed, Sessions
  <1>2. PICK row : row = req[w].row
    OBVIOUS
  <1>3. row \in ProposalRow /\ row.requester \notin row.dups /\ req[w] # Idle
    BY <1>1, <1>2 DEF CommitProposal, SessionRow, Idle
  <1>4. /\ proposals' = Append(proposals, row) /\ appeals' = appeals /\ Done(w)
        /\ UNCHANGED <<user, flags, keys, consents, pardoned>>
    BY <1>2 DEF CommitProposal, accountVars
  <1>5. /\ proposals' \in Seq(ProposalRow) /\ DOMAIN proposals \subseteq DOMAIN proposals'
        /\ \A p \in DOMAIN proposals : proposals'[p] = proposals[p]
        /\ \A p \in DOMAIN proposals' : p \in DOMAIN proposals \/ proposals'[p] = row
    BY <1>1, <1>3, <1>4
  <1>6. Grows
    BY <1>4, <1>5 DEF Grows
  <1>7. MergeRows'
    <2>1. \A a \in DOMAIN appeals : PointsToOwn(appeals[a])'
      BY <1>1, <1>4, <1>5 DEF Tables, MergeRows, PointsToOwn
    <2>2. \A p \in DOMAIN proposals' : proposals'[p].requester \notin proposals'[p].dups
      BY <1>1, <1>3, <1>5 DEF Tables, MergeRows
    <2> QED BY <1>4, <2>1, <2>2 DEF MergeRows
  <1>8. Serial => Accepted'
    BY <1>1, <1>4, <1>5 DEF Serial, SerialTables, Accepted, Tables, MergeRows, PointsToOwn
  <1>9. overlaps' \in Nat /\ req' = [v \in Workers |-> req'[v]]
    BY <1>1, <1>4 DEF Typed, Done
  <1>10. Typed' /\ Tables' /\ (Serial => SerialTables')
    BY <1>1, <1>4, <1>5, <1>7, <1>8, <1>9, OnlyMerges
  <1> QED BY <1>3, <1>4, <1>6, <1>10, Closed

LEMMA ReviewCommitted ==
    ASSUME IInv, NEW w \in Workers, CommitReview(w), UNCHANGED accessVars
    PROVE  IInv'
  <1>1. /\ Typed /\ Tables /\ SessionRow(req[w]) /\ proposals \in Seq(ProposalRow)
        /\ appeals \in Seq(AppealRow)
    BY DEF IInv, Typed, Sessions
  <1>2. PICK r : r = req[w]
    OBVIOUS
  <1>3. /\ r.p \in DOMAIN proposals /\ r.status \in {"approved", "rejected"} /\ req[w] # Idle
        /\ r.op = "review"
    BY <1>1, <1>2 DEF CommitReview, SessionRow, Idle
  <1>4. PICK row : row = [proposals[r.p] EXCEPT !.status = r.status]
    OBVIOUS
  <1>5. /\ proposals' = [proposals EXCEPT ![r.p] = row] /\ appeals' = appeals /\ Done(w)
        /\ UNCHANGED <<user, flags, keys, consents, pardoned>>
    BY <1>2, <1>4 DEF CommitReview, accountVars
  <1>6. proposals[r.p] \in ProposalRow
    BY <1>1, <1>3
  <1>7. /\ row \in ProposalRow /\ row.requester = proposals[r.p].requester
        /\ row.dups = proposals[r.p].dups
    BY <1>3, <1>4, <1>6 DEF ProposalRow
  <1>8. /\ proposals' \in Seq(ProposalRow) /\ DOMAIN proposals' = DOMAIN proposals
        /\ \A p \in DOMAIN proposals : proposals'[p].requester = proposals[p].requester
        /\ \A p \in DOMAIN proposals : proposals'[p].dups = proposals[p].dups
        /\ \A p \in DOMAIN proposals : p # r.p => proposals'[p] = proposals[p]
    BY <1>1, <1>3, <1>5, <1>7
  <1>9. Grows
    BY <1>5, <1>8 DEF Grows
  <1>10. MergeRows'
    BY <1>1, <1>5, <1>8 DEF Tables, MergeRows, PointsToOwn
  <1>11. ASSUME Serial PROVE Accepted'
    <2>1. proposals[r.p].status = "pending_review"
      BY <1>2, <1>3, <1>11 DEF Serial, SerialSession
    <2>2. \A a \in DOMAIN appeals : appeals[a].status = "accepted" =>
            appeals[a].proposal # r.p /\ appeals[a].proposal \in DOMAIN proposals
      BY <1>1, <1>11, <2>1 DEF Serial, SerialTables, Accepted, Tables, MergeRows, PointsToOwn
    <2> QED BY <1>5, <1>8, <1>11, <2>2 DEF Serial, SerialTables, Accepted
  <1>12. overlaps' \in Nat /\ req' = [v \in Workers |-> req'[v]]
    BY <1>1, <1>5 DEF Typed, Done
  <1>13. Typed' /\ Tables' /\ (Serial => SerialTables')
    BY <1>1, <1>5, <1>8, <1>10, <1>11, <1>12, OnlyMerges
  <1> QED BY <1>3, <1>5, <1>9, <1>13, Closed

LEMMA AppealCommitted ==
    ASSUME IInv, NEW w \in Workers, CommitAppeal(w), UNCHANGED accessVars
    PROVE  IInv'
  <1>1. /\ Typed /\ Tables /\ SessionRow(req[w]) /\ proposals \in Seq(ProposalRow)
        /\ appeals \in Seq(AppealRow)
    BY DEF IInv, Typed, Sessions
  <1>2. PICK row : row = req[w].row
    OBVIOUS
  <1>3. row \in AppealRow /\ row.status = "started" /\ PointsToOwn(row) /\ req[w] # Idle
    BY <1>1, <1>2 DEF CommitAppeal, SessionRow, Idle
  <1>4. /\ appeals' = Append(appeals, row) /\ proposals' = proposals /\ Done(w)
        /\ UNCHANGED <<user, flags, keys, consents, pardoned>>
    BY <1>2 DEF CommitAppeal, accountVars
  <1>5. /\ appeals' \in Seq(AppealRow) /\ DOMAIN appeals \subseteq DOMAIN appeals'
        /\ \A a \in DOMAIN appeals : appeals'[a] = appeals[a]
        /\ \A a \in DOMAIN appeals' : a \in DOMAIN appeals \/ appeals'[a] = row
    BY <1>1, <1>3, <1>4
  <1>6. Grows
    BY <1>4, <1>5 DEF Grows
  <1>7. MergeRows'
    BY <1>1, <1>3, <1>4, <1>5 DEF Tables, MergeRows, PointsToOwn
  <1>8. Serial => Accepted'
    BY <1>3, <1>4, <1>5 DEF Serial, SerialTables, Accepted
  <1>9. overlaps' \in Nat /\ req' = [v \in Workers |-> req'[v]]
    BY <1>1, <1>4 DEF Typed, Done
  <1>10. Typed' /\ Tables' /\ (Serial => SerialTables')
    BY <1>1, <1>4, <1>5, <1>7, <1>8, <1>9, OnlyMerges
  <1> QED BY <1>3, <1>4, <1>6, <1>10, Closed

LEMMA SubmitCommitted ==
    ASSUME IInv, NEW w \in Workers, CommitSubmit(w), UNCHANGED accessVars
    PROVE  IInv'
  <1>1. /\ Typed /\ Tables /\ SessionRow(req[w]) /\ proposals \in Seq(ProposalRow)
        /\ appeals \in Seq(AppealRow)
    BY DEF IInv, Typed, Sessions
  <1>2. PICK r : r = req[w]
    OBVIOUS
  <1>3. /\ r.row \in ProposalRow /\ r.row.requester \notin r.row.dups /\ r.a \in DOMAIN appeals
        /\ r.row.requester = appeals[r.a].user /\ req[w] # Idle
    BY <1>1, <1>2 DEF CommitSubmit, SessionRow, Idle
  <1>4. PICK n : n = Len(proposals) + 1
    OBVIOUS
  <1>5. PICK row : row = [appeals[r.a] EXCEPT !.proposal = n, !.status = "proposal_submitted"]
    OBVIOUS
  <1>6. appeals[r.a] \in AppealRow /\ n \in Nat /\ n # 0
    BY <1>1, <1>3, <1>4
  <1>7. /\ row \in AppealRow /\ row.user = appeals[r.a].user /\ row.proposal = n
        /\ row.status = "proposal_submitted"
    BY <1>5, <1>6 DEF AppealRow
  <1>8. /\ proposals' = Append(proposals, r.row) /\ Done(w)
        /\ UNCHANGED <<user, flags, keys, consents, pardoned>>
    BY <1>2 DEF CommitSubmit, accountVars
  <1>9. appeals' = [appeals EXCEPT ![r.a] = row]
    BY <1>1, <1>2, <1>3, <1>4, <1>5, <1>6 DEF CommitSubmit, AppealRow
  <1>10. /\ proposals' \in Seq(ProposalRow) /\ DOMAIN proposals \subseteq DOMAIN proposals'
         /\ \A p \in DOMAIN proposals : proposals'[p] = proposals[p]
         /\ \A p \in DOMAIN proposals' : p \in DOMAIN proposals \/ proposals'[p] = r.row
         /\ n \in DOMAIN proposals' /\ proposals'[n] = r.row
    BY <1>1, <1>3, <1>4, <1>8
  <1>11. /\ appeals' \in Seq(AppealRow) /\ DOMAIN appeals' = DOMAIN appeals
         /\ \A a \in DOMAIN appeals : a # r.a => appeals'[a] = appeals[a]
         /\ appeals'[r.a] = row
    BY <1>1, <1>3, <1>7, <1>9
  <1>12. Grows
    BY <1>3, <1>7, <1>8, <1>10, <1>11 DEF Grows
  <1>13. MergeRows'
    <2>1. \A p \in DOMAIN proposals' : proposals'[p].requester \notin proposals'[p].dups
      BY <1>1, <1>3, <1>10 DEF Tables, MergeRows
    <2>2. ASSUME NEW a \in DOMAIN appeals PROVE PointsToOwn(appeals[a])'
      <3>1. CASE a = r.a
        BY <1>3, <1>7, <1>10, <1>11, <3>1 DEF PointsToOwn
      <3>2. CASE a # r.a
        BY <1>1, <1>10, <1>11, <3>2 DEF Tables, MergeRows, PointsToOwn
      <3> QED BY <3>1, <3>2
    <2> QED BY <1>11, <2>1, <2>2 DEF MergeRows
  <1>14. ASSUME Serial PROVE Accepted'
    <2> SUFFICES ASSUME NEW a \in DOMAIN appeals, appeals'[a].status = "accepted"
                 PROVE  appeals'[a].proposal # 0 /\ proposals'[appeals'[a].proposal].status = "accepted"
      BY <1>11 DEF Accepted
    <2>1. a # r.a
      BY <1>7, <1>11
    <2> QED BY <1>1, <1>10, <1>11, <1>14, <2>1
            DEF Serial, SerialTables, Accepted, Tables, MergeRows, PointsToOwn
  <1>15. overlaps' \in Nat /\ req' = [v \in Workers |-> req'[v]]
    BY <1>1, <1>8 DEF Typed, Done
  <1>16. Typed' /\ Tables' /\ (Serial => SerialTables')
    BY <1>1, <1>8, <1>10, <1>11, <1>13, <1>14, <1>15, OnlyMerges
  <1> QED BY <1>3, <1>8, <1>12, <1>16, Closed

(* An appeal changes, but neither its user nor its proposal. *)
LEMMA AppealRowChanges ==
    ASSUME IInv, NEW a \in DOMAIN appeals, NEW row \in AppealRow,
           row.user = appeals[a].user, row.proposal = appeals[a].proposal,
           appeals' = [appeals EXCEPT ![a] = row], UNCHANGED proposals,
           UNCHANGED <<user, flags, keys, consents, pardoned>>, UNCHANGED accessVars,
           overlaps' \in Nat, req' = [v \in Workers |-> req'[v]],
           Serial /\ row.status = "accepted" =>
               row.proposal # 0 /\ proposals[row.proposal].status = "accepted"
    PROVE  /\ Grows /\ Typed' /\ Tables' /\ (Serial => SerialTables')
           /\ \A r : SessionRow(r) /\ SerialSession(r) => SerialSession(r)'
  <1>1. Typed /\ Tables /\ proposals \in Seq(ProposalRow) /\ appeals \in Seq(AppealRow)
    BY DEF IInv, Typed
  <1>2. /\ appeals' \in Seq(AppealRow) /\ DOMAIN appeals' = DOMAIN appeals
        /\ \A b \in DOMAIN appeals : b # a => appeals'[b] = appeals[b]
        /\ appeals'[a] = row
    BY <1>1
  <1>3. \A b \in DOMAIN appeals : /\ appeals'[b].user = appeals[b].user
                                  /\ appeals'[b].proposal = appeals[b].proposal
    BY <1>2
  <1>4. Grows
    BY <1>2, <1>3 DEF Grows
  <1>5. MergeRows'
    BY <1>1, <1>2, <1>3 DEF Tables, MergeRows, PointsToOwn
  <1>6. Serial => Accepted'
    BY <1>2 DEF Serial, SerialTables, Accepted
  <1>7. Typed' /\ Tables' /\ (Serial => SerialTables')
    BY <1>1, <1>2, <1>5, <1>6, OnlyMerges
  <1>8. ASSUME NEW r, SessionRow(r), SerialSession(r) PROVE SerialSession(r)'
    <2>1. \A v : Retired(v)' = Retired(v)
      BY DEF Retired, _is_tombstoned
    <2>2. \A p : Mergeable(p) => Mergeable(p)'
      BY <2>1 DEF Mergeable
    <2>3. r.op = "accept" => (r.a # 0 => appeals'[r.a].proposal = r.p)
      BY <1>3, <1>8 DEF SessionRow, SerialSession
    <2>4. r.op = "mark" => /\ appeals'[r.a].proposal # 0
                           /\ proposals'[appeals'[r.a].proposal].status = "accepted"
      BY <1>3, <1>8 DEF SessionRow, SerialSession
    <2> QED BY <1>8, <2>1, <2>2, <2>3, <2>4 DEF SerialSession, accessVars
  <1> QED BY <1>4, <1>7, <1>8

LEMMA MarkCommitted ==
    ASSUME IInv, NEW w \in Workers, CommitMark(w), UNCHANGED accessVars
    PROVE  IInv'
  <1>1. Typed /\ SessionRow(req[w]) /\ appeals \in Seq(AppealRow)
    BY DEF IInv, Typed, Sessions
  <1>2. PICK a : a = req[w].a
    OBVIOUS
  <1>3. a \in DOMAIN appeals /\ req[w] # Idle
    BY <1>1, <1>2 DEF CommitMark, SessionRow, Idle
  <1>4. PICK row : row = [appeals[a] EXCEPT !.status = "accepted"]
    OBVIOUS
  <1>5. appeals[a] \in AppealRow
    BY <1>1, <1>3
  <1>6. row \in AppealRow /\ row.user = appeals[a].user /\ row.proposal = appeals[a].proposal
    BY <1>4, <1>5 DEF AppealRow
  <1>7. /\ appeals' = [appeals EXCEPT ![a] = row] /\ UNCHANGED proposals
        /\ UNCHANGED <<user, flags, keys, consents, pardoned>> /\ Done(w)
    BY <1>2, <1>4 DEF CommitMark, accountVars
  <1>8. overlaps' \in Nat /\ req' = [v \in Workers |-> req'[v]]
    BY <1>1, <1>7 DEF Typed, Done
  <1>9. Serial => row.proposal # 0 /\ proposals[row.proposal].status = "accepted"
    BY <1>2, <1>6 DEF Serial, SerialSession, CommitMark
  <1>10. Grows /\ Typed' /\ Tables' /\ (Serial => SerialTables')
    BY <1>3, <1>6, <1>7, <1>8, <1>9, AppealRowChanges
  <1> QED BY <1>3, <1>7, <1>10, Closed

LEMMA AppealExpired ==
    ASSUME IInv, NEW a \in DOMAIN appeals, AppealExpires(a), UNCHANGED accessVars
    PROVE  IInv'
  <1>1. Typed /\ appeals \in Seq(AppealRow) /\ Tables
    BY DEF IInv, Typed
  <1>2. PICK row : row = [appeals[a] EXCEPT !.past = TRUE]
    OBVIOUS
  <1>3. appeals[a] \in AppealRow
    BY <1>1
  <1>4. /\ row \in AppealRow /\ row.user = appeals[a].user /\ row.proposal = appeals[a].proposal
        /\ row.status = appeals[a].status
    BY <1>2, <1>3 DEF AppealRow
  <1>5. /\ appeals' = [appeals EXCEPT ![a] = row] /\ UNCHANGED proposals
        /\ UNCHANGED <<user, flags, keys, consents, pardoned>> /\ UNCHANGED requestVars
    BY <1>2 DEF AppealExpires, accountVars
  <1>6. overlaps' \in Nat /\ req' = [v \in Workers |-> req'[v]]
    BY <1>1, <1>5 DEF Typed, requestVars
  <1>7. Serial /\ row.status = "accepted" =>
          row.proposal # 0 /\ proposals[row.proposal].status = "accepted"
    BY <1>4 DEF Serial, SerialTables, Accepted
  <1>8. /\ Grows /\ Typed' /\ Tables' /\ (Serial => SerialTables')
        /\ \A r : SessionRow(r) /\ SerialSession(r) => SerialSession(r)'
    BY <1>4, <1>5, <1>6, <1>7, AppealRowChanges
  <1> QED BY <1>5, <1>8, TimePasses

LEMMA AppealRefused ==
    ASSUME IInv, NEW a \in DOMAIN appeals, _load_appeal_or_404(a), UNCHANGED accessVars
    PROVE  IInv'
  <1>1. Typed /\ appeals \in Seq(AppealRow) /\ Tables
    BY DEF IInv, Typed
  <1>2. PICK row : row = [appeals[a] EXCEPT !.status = "expired"]
    OBVIOUS
  <1>3. appeals[a] \in AppealRow
    BY <1>1
  <1>4. /\ row \in AppealRow /\ row.user = appeals[a].user /\ row.proposal = appeals[a].proposal
        /\ row.status = "expired"
    BY <1>2, <1>3 DEF AppealRow
  <1>5. /\ appeals' = [appeals EXCEPT ![a] = row] /\ UNCHANGED proposals
        /\ UNCHANGED <<user, flags, keys, consents, pardoned>> /\ AtOnce
    BY <1>2 DEF _load_appeal_or_404, accountVars
  <1>6. overlaps' \in Nat /\ req' = [v \in Workers |-> req'[v]]
    BY <1>1, <1>5 DEF Typed, AtOnce
  <1>7. Grows /\ Typed' /\ Tables' /\ (Serial => SerialTables')
    BY <1>4, <1>5, <1>6, AppealRowChanges
  <1> QED BY <1>5, <1>7, InOneStep

(* A merge.  The accounts it retires point to one that is not retired, so  *)
(* no chain of merged accounts closes.                                      *)
LEMMA AcceptCommitted ==
    ASSUME IInv, NEW w \in Workers, CommitAccept(w), UNCHANGED accessVars
    PROVE  IInv'
  <1>1. /\ Typed /\ Tables /\ SessionRow(req[w]) /\ proposals \in Seq(ProposalRow)
        /\ appeals \in Seq(AppealRow) /\ user \in [Users -> UserRow]
        /\ keys \in [Users -> {"none", "active", "revoked"}] /\ pardoned \in [Users -> BOOLEAN]
    BY DEF IInv, Typed, Sessions
  <1>2. PICK r : r = req[w]
    OBVIOUS
  <1>3. /\ r.op = "accept" /\ r.p \in DOMAIN proposals /\ (r.a # 0 => r.a \in DOMAIN appeals)
        /\ req[w] # Idle
    BY <1>1, <1>2 DEF CommitAccept, SessionRow, Idle
  <1>4. PICK primary : primary = proposals[r.p].requester
    OBVIOUS
  <1>5. PICK dups : dups = proposals[r.p].dups
    OBVIOUS
  <1>6. /\ Merge(primary, dups) /\ pardoned' = [pardoned EXCEPT ![primary] = TRUE] /\ Done(w)
        /\ UNCHANGED <<flags, consents>>
    BY <1>2, <1>4, <1>5 DEF CommitAccept
  <1>7. proposals[r.p] \in ProposalRow
    BY <1>1, <1>3
  <1>8. primary \in Users /\ dups \subseteq Users /\ primary \notin dups
    BY <1>1, <1>3, <1>4, <1>5, <1>7 DEF ProposalRow, Tables, MergeRows
  <1>9. ASSUME NEW u \in Users
        PROVE  /\ user'[u] \in UserRow
               /\ user'[u].registered = user[u].registered /\ user'[u].age = user[u].age
               /\ user'[u].deleted = user[u].deleted
               /\ u \in dups => user'[u].frozen = TRUE /\ user'[u].merged = primary
               /\ u \notin dups => user'[u].merged = user[u].merged
               /\ u # primary /\ u \notin dups => user'[u] = user[u]
    <2>1. PICK old : old = user[u]
      OBVIOUS
    <2>2. old \in UserRow
      BY <1>1, <2>1
    <2>3. CASE u = primary
      <3>1. PICK row : row = [old EXCEPT !.frozen = FALSE]
        OBVIOUS
      <3>2. /\ row \in UserRow /\ row.registered = old.registered /\ row.age = old.age
            /\ row.deleted = old.deleted /\ row.merged = old.merged
        BY <2>2, <3>1 DEF UserRow
      <3>3. user'[u] = row
        BY <1>6, <1>8, <2>1, <2>3, <3>1 DEF Merge
      <3> QED BY <1>8, <2>1, <2>3, <3>2, <3>3
    <2>4. CASE u # primary /\ u \in dups
      <3>1. PICK row : row = [old EXCEPT !.frozen = TRUE, !.merged = primary]
        OBVIOUS
      <3>2. /\ row \in UserRow /\ row.registered = old.registered /\ row.age = old.age
            /\ row.deleted = old.deleted /\ row.merged = primary /\ row.frozen = TRUE
        BY <1>8, <2>2, <3>1 DEF UserRow
      <3>3. user'[u] = row
        BY <1>6, <2>1, <2>4, <3>1 DEF Merge
      <3> QED BY <2>1, <2>4, <3>2, <3>3
    <2>5. CASE u # primary /\ u \notin dups
      <3>1. user'[u] = user[u]
        BY <1>6, <2>5 DEF Merge
      <3> QED BY <2>1, <2>2, <2>5, <3>1
    <2> QED BY <2>3, <2>4, <2>5
  <1>10. user' \in [Users -> UserRow]
    <2> DEFINE after(u) == CASE u = primary -> [user[u] EXCEPT !.frozen = FALSE]
                             [] u \in dups -> [user[u] EXCEPT !.frozen = TRUE, !.merged = primary]
                             [] OTHER -> user[u]
    <2>1. user' = [u \in Users |-> user'[u]]
      <3>1. user' = [u \in Users |-> after(u)]
        BY <1>6 DEF Merge
      <3> HIDE DEF after
      <3> QED BY <3>1
    <2> QED BY <1>9, <2>1
  <1>11. /\ keys' \in [Users -> {"none", "active", "revoked"}]
         /\ \A u \in dups : keys'[u] # "active"
         /\ \A u \in Users : u \notin dups => keys'[u] = keys[u]
    BY <1>1, <1>6, <1>8 DEF Merge
  <1>12. PICK merged : merged = [proposals[r.p] EXCEPT !.status = "accepted"]
    OBVIOUS
  <1>13. /\ merged \in ProposalRow /\ merged.requester = primary /\ merged.dups = dups
         /\ merged.status = "accepted"
    BY <1>4, <1>5, <1>7, <1>12 DEF ProposalRow
  <1>14. proposals' = [proposals EXCEPT ![r.p] = merged]
    BY <1>2, <1>12 DEF CommitAccept
  <1>15. /\ proposals' \in Seq(ProposalRow) /\ DOMAIN proposals' = DOMAIN proposals
         /\ \A p \in DOMAIN proposals : p # r.p => proposals'[p] = proposals[p]
         /\ proposals'[r.p] = merged
    BY <1>1, <1>3, <1>13, <1>14
  <1>16. /\ \A p \in DOMAIN proposals : proposals'[p].requester = proposals[p].requester
         /\ \A p \in DOMAIN proposals : proposals'[p].dups = proposals[p].dups
         /\ \A p \in DOMAIN proposals :
               proposals[p].status = "accepted" => proposals'[p].status = "accepted"
    BY <1>4, <1>5, <1>13, <1>15
  <1>17. /\ appeals' \in Seq(AppealRow) /\ DOMAIN appeals' = DOMAIN appeals
         /\ \A a \in DOMAIN appeals : appeals'[a].user = appeals[a].user
         /\ \A a \in DOMAIN appeals : appeals'[a].proposal = appeals[a].proposal
         /\ \A a \in DOMAIN appeals : a # r.a => appeals'[a] = appeals[a]
    <2>1. CASE r.a = 0
      <3>1. appeals' = appeals
        BY <1>2, <2>1 DEF CommitAccept
      <3> QED BY <1>1, <3>1
    <2>2. CASE r.a # 0
      <3>1. PICK row : row = [appeals[r.a] EXCEPT !.status = "accepted"]
        OBVIOUS
      <3>2. appeals[r.a] \in AppealRow
        BY <1>1, <1>3, <2>2
      <3>3. row \in AppealRow /\ row.user = appeals[r.a].user /\ row.proposal = appeals[r.a].proposal
        BY <3>1, <3>2 DEF AppealRow
      <3>4. appeals' = [appeals EXCEPT ![r.a] = row]
        BY <1>2, <2>2, <3>1 DEF CommitAccept
      <3> QED BY <1>1, <1>3, <2>2, <3>3, <3>4
    <2> QED BY <2>1, <2>2
  <1>18. pardoned' \in [Users -> BOOLEAN] /\ pardoned'[primary] = TRUE
         /\ \A u \in Users : u # primary => pardoned'[u] = pardoned[u]
    BY <1>1, <1>6, <1>8
  <1>19. Grows
    BY <1>6, <1>15, <1>16, <1>17 DEF Grows
  <1>20. Typed'
    <2>1. overlaps' \in Nat /\ req' = [v \in Workers |-> req'[v]]
      BY <1>1, <1>6 DEF Typed, Done
    <2> QED BY <1>1, <1>6, <1>10, <1>11, <1>15, <1>17, <1>18, <2>1 DEF Typed, accessVars
  <1>21. \A u \in Users : user'[u].registered = user[u].registered /\ user'[u].age = user[u].age
    BY <1>9
  <1>22. Tables'
    <2>1. ConsentRows'
      BY <1>1, <1>6, <1>21, ConsentsStay DEF Tables
    <2>2. MergeRows'
      BY <1>1, <1>15, <1>16, <1>17 DEF Tables, MergeRows, PointsToOwn
    <2> QED BY <1>1, <2>1, <2>2, OtpStays, EventsStay DEF Tables, accessVars
  <1>23. ASSUME Serial PROVE SerialTables'
    <2>1. /\ \A u \in {primary} \cup dups : ~Retired(u)
          /\ r.a # 0 => appeals[r.a].proposal = r.p
      BY <1>2, <1>3, <1>4, <1>5, <1>23 DEF Serial, SerialSession, Mergeable
    <2>2. user[primary].merged = Nobody /\ ~user[primary].deleted
      BY <2>1 DEF Retired, _is_tombstoned
    <2>3. ConsentAges'
      BY <1>1, <1>6, <1>21, <1>23, ConsentsStay DEF Serial, SerialTables
    <2>4. NoCycle'
      <3> SUFFICES ASSUME NEW S \in SUBSET Users, S # {} PROVE \E u \in S : user'[u].merged \notin S
        BY DEF NoCycle
      <3>1. CASE primary \in S
        <4>1. user'[primary].merged = Nobody
          BY <1>8, <1>9, <2>2
        <4>2. Nobody \notin S
          BY RiskAssumption
        <4> QED BY <3>1, <4>1, <4>2
      <3>2. CASE primary \notin S /\ S \cap dups # {}
        <4>1. PICK u \in S : u \in dups
          BY <3>2
        <4>2. user'[u].merged = primary
          BY <1>9, <4>1
        <4> QED BY <3>2, <4>2
      <3>3. CASE primary \notin S /\ S \cap dups = {}
        <4>1. PICK u \in S : user[u].merged \notin S
          BY <1>23 DEF Serial, SerialTables, NoCycle
        <4>2. user'[u].merged = user[u].merged
          BY <1>9, <3>3, <4>1
        <4> QED BY <4>1, <4>2
      <3> QED BY <3>1, <3>2, <3>3
    <2>5. NoKeys'
      <3> SUFFICES ASSUME NEW u \in Users, Retired(u)' PROVE keys'[u] # "active"
        BY DEF NoKeys
      <3>1. CASE u \in dups
        BY <1>11, <3>1
      <3>2. CASE u \notin dups
        <4>1. user'[u].deleted = user[u].deleted /\ user'[u].merged = user[u].merged
          BY <1>9, <3>2
        <4>2. Retired(u)
          BY <4>1 DEF Retired, _is_tombstoned
        <4> QED BY <1>11, <1>23, <3>2, <4>2 DEF Serial, SerialTables, NoKeys
      <3> QED BY <3>1, <3>2
    <2>6. Flagged'
      <3> SUFFICES ASSUME NEW u \in Users, Freezes(flags'[u]), ~pardoned'[u]
                   PROVE  user'[u].frozen
        BY DEF Flagged
      <3>1. u # primary
        BY <1>18
      <3>2. CASE u \in dups
        BY <1>9, <3>2
      <3>3. CASE u \notin dups
        <4>1. user'[u] = user[u]
          BY <1>9, <3>1, <3>3
        <4> QED BY <1>6, <1>18, <1>23, <3>1, <4>1 DEF Serial, SerialTables, Flagged
      <3> QED BY <3>2, <3>3
    <2>7. Accepted'
      <3> SUFFICES ASSUME NEW a \in DOMAIN appeals, appeals'[a].status = "accepted"
                   PROVE  /\ appeals'[a].proposal # 0
                          /\ proposals'[appeals'[a].proposal].status = "accepted"
        BY <1>17 DEF Accepted
      <3>1. appeals'[a].proposal = appeals[a].proposal
        BY <1>17
      <3>2. CASE a = r.a
        <4>1. r.a # 0
          BY <1>1, <3>2
        <4>2. r.p # 0
          BY <1>1, <1>3
        <4> QED BY <1>13, <1>15, <2>1, <3>1, <3>2, <4>1, <4>2
      <3>3. CASE a # r.a
        <4>1. appeals[a].proposal # 0 /\ proposals[appeals[a].proposal].status = "accepted"
          BY <1>17, <1>23, <3>3 DEF Serial, SerialTables, Accepted
        <4>2. appeals[a].proposal \in DOMAIN proposals
          BY <1>1, <4>1 DEF Tables, MergeRows, PointsToOwn
        <4> QED BY <1>16, <3>1, <4>1, <4>2
      <3> QED BY <3>2, <3>3
    <2> QED BY <1>23, <2>3, <2>4, <2>5, <2>6, <2>7, OtpStays DEF Serial, SerialTables, accessVars
  <1> QED BY <1>3, <1>6, <1>19, <1>20, <1>22, <1>23, Closed

-----------------------------------------------------------------------------
(* All parts of the service.                                                *)
LEMMA SignupKeeps ==
    ASSUME IInv, SignupPart PROVE IInv'
  <1>1. UNCHANGED <<mergeVars, accessVars>> /\ consents \in Seq(ConsentRow)
    BY DEF SignupPart, IInv, Typed
  <1>2. CASE /\ \/ AtOnce /\ \E u \in Users : \E age \in Ages :
                             _create_or_refresh_guardian_consent(u, age)
                \/ UNCHANGED requestVars /\ \E i \in DOMAIN consents : ConsentExpires(i)
             /\ UNCHANGED <<user, flags, links, keys, pardoned>>
    BY <1>1, <1>2, ConsentRequested, ConsentExpired
  <1>3. ASSUME NEW w \in Workers, NEW u \in Users, signup(w, u) PROVE IInv'
    BY <1>1, <1>3, SignupOpened DEF signup, accountVars, tableVars
  <1>4. ASSUME NEW w \in Workers, NEW i \in DOMAIN consents, NEW u \in Users, NEW age \in Ages,
               NEW token, _complete_guardian_confirmed_signup(w, i, u, age, token)
        PROVE  IInv'
    <2>1. i # 0 /\ consents[i].who = u /\ consents[i].age = age
      BY <1>1, <1>4 DEF _complete_guardian_confirmed_signup, ConsentMatches
    <2> QED BY <1>1, <1>4, <2>1, SignupOpened
            DEF _complete_guardian_confirmed_signup, accountVars, tableVars
  <1>5. ASSUME NEW w \in Workers, CommitSignup(w) PROVE IInv'
    BY <1>1, <1>5, SignupCommitted
  <1> QED BY <1>2, <1>3, <1>4, <1>5 DEF SignupPart, ConsentNext

LEMMA RiskKeeps ==
    ASSUME IInv, RiskPart PROVE IInv'
  <1>1. UNCHANGED <<mergeVars, accessVars>>
    BY DEF RiskPart
  <1>2. ASSUME NEW w \in Workers, NEW u \in Users, NEW rule \in Rules, NEW link,
               admin_add_risk_flag(w, u, rule, link)
        PROVE  IInv'
    <2>1. UNCHANGED tableVars
      BY <1>1, <1>2 DEF admin_add_risk_flag, accountVars, tableVars
    <2> QED BY <1>2, <2>1, FlagOpened
  <1>3. ASSUME NEW w \in Workers, CommitFlag(w) PROVE IInv'
    BY <1>1, <1>3, FlagCommitted
  <1>4. ASSUME NEW u \in Users, admin_unfreeze_user(u) PROVE IInv'
    BY <1>1, <1>4, Unfrozen
  <1> QED BY <1>2, <1>3, <1>4 DEF RiskPart, FlagNext

LEMMA MergeKeeps ==
    ASSUME IInv, MergePart PROVE IInv'
  <1>1. UNCHANGED accessVars
    BY DEF MergePart
  <1>2. ASSUME UNCHANGED <<accountVars, mergeVars>> PROVE UNCHANGED tableVars
    BY <1>1, <1>2 DEF accountVars, tableVars
  <1>3. ASSUME NEW w \in Workers, NEW u \in Users, NEW body \in Bodies,
               create_merge_proposal(w, u, body)
        PROVE  IInv'
    <2>1. UNCHANGED tableVars
      BY <1>2, <1>3 DEF create_merge_proposal
    <2> QED BY <1>3, <2>1, ProposalOpened
  <1>4. ASSUME NEW w \in Workers, NEW u \in Users, start_frozen_appeal(w, u) PROVE IInv'
    <2>1. UNCHANGED tableVars
      BY <1>2, <1>4 DEF start_frozen_appeal
    <2> QED BY <1>4, <2>1, AppealOpened
  <1>5. ASSUME NEW w \in Workers, NEW p \in DOMAIN proposals, accept_merge_proposal(w, p, 0)
        PROVE  IInv'
    <2>1. UNCHANGED tableVars
      BY <1>2, <1>5 DEF accept_merge_proposal
    <2> QED BY <1>5, <2>1, AcceptOpened
  <1>6. ASSUME NEW w \in Workers, NEW p \in DOMAIN proposals,
               NEW decision \in {"approved", "rejected"}, review_merge_proposal(w, p, decision)
        PROVE  IInv'
    <2>1. UNCHANGED tableVars
      BY <1>2, <1>6 DEF review_merge_proposal
    <2> QED BY <1>6, <2>1, ReviewOpened
  <1>7. ASSUME NEW w \in Workers, NEW a \in DOMAIN appeals, accept_frozen_appeal(w, a) PROVE IInv'
    <2>1. UNCHANGED tableVars
      BY <1>2, <1>7 DEF accept_frozen_appeal, accept_merge_proposal
    <2> QED BY <1>7, <2>1, AppealAcceptOpened
  <1>8. ASSUME NEW w \in Workers, NEW a \in DOMAIN appeals, NEW body \in Bodies,
               submit_frozen_appeal_proposal(w, a, body)
        PROVE  IInv'
    <2>1. UNCHANGED tableVars
      BY <1>2, <1>8 DEF submit_frozen_appeal_proposal
    <2> QED BY <1>8, <2>1, SubmitOpened
  <1>9. ASSUME NEW w \in Workers,
               \/ CommitProposal(w) \/ CommitReview(w) \/ CommitAccept(w)
               \/ CommitAppeal(w) \/ CommitSubmit(w) \/ CommitMark(w)
        PROVE  IInv'
    BY <1>1, <1>9, ProposalCommitted, ReviewCommitted, AcceptCommitted, AppealCommitted,
       SubmitCommitted, MarkCommitted
  <1>10. ASSUME NEW a \in DOMAIN appeals, AppealExpires(a) \/ _load_appeal_or_404(a) PROVE IInv'
    BY <1>1, <1>10, AppealExpired, AppealRefused
  <1> QED BY <1>3, <1>4, <1>5, <1>6, <1>7, <1>8, <1>9, <1>10 DEF MergePart, MergeNext

LEMMA AccessKeeps ==
    ASSUME IInv, KeyPart \/ LoginPart \/ DeletionPart \/ NotificationPart PROVE IInv'
  <1>1. ASSUME UNCHANGED <<accountVars, mergeVars, accessVars>> PROVE UNCHANGED tableVars
    BY <1>1 DEF accountVars, tableVars
  <1>2. ASSUME NEW w \in Workers, NEW u \in Users,
               \/ create_api_key(w, u) \/ revoke_api_key(w, u)
               \/ request_account_deletion(w, u)
        PROVE  IInv'
    <2>1. UNCHANGED tableVars
      BY <1>1, <1>2 DEF create_api_key, revoke_api_key, request_account_deletion
    <2>2. PICK op \in {"key", "revoke", "delete"} :
            Begin(w, [op |-> op, u |-> u]) /\ (op = "key" => ~Retired(u))
      <3>1. CASE create_api_key(w, u)
        BY <3>1 DEF create_api_key, _require_active_user
      <3>2. CASE revoke_api_key(w, u)
        BY <3>2 DEF revoke_api_key
      <3>3. CASE request_account_deletion(w, u)
        BY <3>3 DEF request_account_deletion
      <3> QED BY <1>2, <3>1, <3>2, <3>3
    <2> QED BY <2>1, <2>2, SimpleOpened
  <1>3. ASSUME NEW w \in Workers, NEW u \in Users, NEW i, request_otp(w, u) \/ login(w, u, i)
        PROVE  IInv'
    <2>1. UNCHANGED tableVars
      BY <1>1, <1>3 DEF request_otp, login
    <2> QED BY <1>3, <2>1, OtpOpened, LoginOpened
  <1>4. ASSUME NEW w \in Workers, NEW i \in Incidents, admin_fanout_status_incident(w, i)
        PROVE  IInv'
    <2>1. UNCHANGED tableVars
      BY <1>1, <1>4 DEF admin_fanout_status_incident
    <2> QED BY <1>4, <2>1, FanoutOpened
  <1>5. ASSUME NEW w \in Workers,
               \/ CommitKey(w) \/ CommitRevoke(w) \/ CommitOtp(w) \/ CommitLogin(w)
               \/ CommitDelete(w) \/ CommitFanout(w)
        PROVE  IInv'
    BY <1>5, KeyCommitted, PairsCommitted, DeleteCommitted, FanoutCommitted
  <1>6. ASSUME NEW u \in Users,
               \/ \E i \in DOMAIN otps[u] : OtpExpires(u, i)
               \/ GracePeriodEnds(u) \/ update_notification_preferences(u)
        PROVE  IInv'
    BY <1>6, OtpExpired, GracePeriodEnded, PreferencesUpdated
  <1>7. CASE complete_due_deletion_requests
    BY <1>7, DueDeleted
  <1>8. CASE KeyPart
    BY <1>2, <1>5, <1>8 DEF KeyPart, KeyNext
  <1>9. CASE LoginPart
    BY <1>2, <1>3, <1>5, <1>6, <1>9 DEF LoginPart, LoginNext
  <1>10. CASE DeletionPart
    BY <1>2, <1>5, <1>6, <1>7, <1>10 DEF DeletionPart, DeletionNext
  <1>11. CASE NotificationPart
    BY <1>4, <1>5, <1>6, <1>11 DEF NotificationPart, NotificationNext
  <1> QED BY <1>8, <1>9, <1>10, <1>11

(* Exports and the audit log only read accounts. *)
LEMMA OthersRead ==
    ASSUME IInv, UNCHANGED tableVars, UNCHANGED requestVars PROVE IInv'
  <1>1. Typed'
    BY DEF IInv, Typed, tableVars, mergeVars, accessVars, requestVars
  <1> QED BY <1>1, AllStay, TimePasses DEF IInv, Serial

LEMMA IInvStep == IInv /\ [Next]_vars => IInv'
  <1> SUFFICES ASSUME IInv, [Next]_vars PROVE IInv'
    OBVIOUS
  <1>1. ASSUME UNCHANGED <<accountVars, mergeVars, accessVars, requestVars>> PROVE IInv'
    <2>1. UNCHANGED tableVars /\ UNCHANGED requestVars
      BY <1>1 DEF accountVars, tableVars
    <2> QED BY <2>1, OthersRead
  <1>2. CASE ExportPart \/ AuditPart
    BY <1>1, <1>2 DEF ExportPart, ExportNext, AuditPart
  <1>3. CASE RollbackPart
    <2>1. PICK w \in Workers : Rollback(w) /\ UNCHANGED accountVars
      BY <1>3 DEF RollbackPart, RollbackNext
    <2>2. UNCHANGED tableVars
      BY <1>3, <2>1 DEF RollbackPart, accountVars, tableVars
    <2> QED BY <2>1, <2>2, RolledBack
  <1>4. CASE UNCHANGED vars
    BY <1>1, <1>4 DEF vars
  <1> QED BY <1>2, <1>3, <1>4, SignupKeeps, RiskKeeps, MergeKeeps, AccessKeeps DEF Next

LEMMA IInvAlways == Spec => []IInv
  BY AccountsInit, IInvStep, PTL DEF Spec

-----------------------------------------------------------------------------
(* Whatever is signed up, flagged, merged, appealed, deleted, lost or      *)
(* expires, in requests that do not overlap, an account with enough flags  *)
(* of enabled rules is frozen unless that was resolved, every chain of     *)
(* merged accounts ends, and an accepted appeal stands for a merge:        *)
(* apply_flags_and_maybe_freeze, accept_merge_proposal and                 *)
(* accept_frozen_appeal do what their rows record.                         *)
THEOREM FreezesAndMergesAlwaysSound == Spec => []FreezesAndMergesSound
  <1>1. IInv => FreezesAndMergesSound
    <2> SUFFICES ASSUME IInv PROVE FreezesAndMergesSound
      OBVIOUS
    <2>1. FlaggedAccountsAreFrozen
      BY DEF IInv, Serial, SerialTables, Flagged, FlaggedAccountsAreFrozen, Freezes,
             _distinct_enabled_triggers
    <2>2. SomeoneRemains
      BY DEF IInv, Serial, SerialTables, NoCycle, SomeoneRemains
    <2>3. AcceptedAppealsWereMerged
      BY DEF IInv, Serial, SerialTables, Accepted, AcceptedAppealsWereMerged, Tables, MergeRows,
             PointsToOwn
    <2> QED BY <2>1, <2>2, <2>3 DEF FreezesAndMergesSound
  <1> QED BY <1>1, IInvAlways, PTL

(* However requests overlap, a minor's account rests on one confirmed      *)
(* consent and a notification has one event; as long as none overlap, the  *)
(* consent is for the age of the signup, a retired account holds no usable *)
(* key, and a pair of one-time passwords opens one session.                *)
THEOREM AccessAlwaysSound == Spec => []AccessSound
  <1>1. IInv => AccessSound
    <2> SUFFICES ASSUME IInv PROVE AccessSound
      OBVIOUS
    <2>1. RetiredAccountsHoldNoKey
      BY DEF IInv, Serial, SerialTables, NoKeys, RetiredAccountsHoldNoKey
    <2>2. MinorsHaveConsent
      <3> SUFFICES ASSUME NEW u \in Users, user[u].registered, user[u].age \in Ages
                   PROVE  \E i \in DOMAIN consents :
                            /\ consents[i].confirmed /\ consents[i].who = u
                            /\ overlaps = 0 => consents[i].age = user[u].age
                            /\ \A j \in DOMAIN consents :
                                 consents[j].confirmed /\ consents[j].who = u => j = i
        BY DEF MinorsHaveConsent
      <3>1. PICK i \in DOMAIN consents : consents[i].confirmed /\ consents[i].who = u
        BY DEF IInv, Tables, ConsentRows
      <3>2. overlaps = 0 => consents[i].age = user[u].age
        BY <3>1 DEF IInv, Serial, SerialTables, ConsentAges
      <3>3. \A j \in DOMAIN consents : consents[j].confirmed /\ consents[j].who = u => j = i
        BY <3>1 DEF IInv, Tables, ConsentRows
      <3> QED BY <3>1, <3>2, <3>3
    <2>3. OtpOpensOneSession
      BY DEF IInv, Serial, SerialTables, OtpOnce, OtpOpensOneSession
    <2>4. OneEventPerNotification
      BY DEF IInv, Tables
    <2> QED BY <2>1, <2>2, <2>3, <2>4 DEF AccessSound
  <1> QED BY <1>1, IInvAlways, PTL
=============================================================================

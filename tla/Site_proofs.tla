---------------------------- MODULE Site_proofs ----------------------------
(***************************************************************************)
(* Proofs about Site, for every number of requests, accounts, Google       *)
(* accounts, badges and uploads.                                           *)
(***************************************************************************)
EXTENDS Site, FiniteSetTheorems, SequenceTheorems, TLAPS

(* One request moves to a step, with what it then holds. *)
Moves(p, step, held) ==
    /\ DOMAIN pc' = Procs /\ DOMAIN loc' = Procs
    /\ pc'[p] = step /\ loc'[p] = held
    /\ \A q \in Procs \ {p} : pc'[q] = pc[q] /\ loc'[q] = loc[q]

LEMMA Moving ==
    ASSUME DOMAIN pc = Procs, DOMAIN loc = Procs, NEW p \in Procs, NEW step, NEW held
    PROVE  /\ Accept(p, step, held) => Moves(p, step, held) /\ pc[p] = "idle"
           /\ Goto(p, step, held) => Moves(p, step, held)
           /\ Finish(p) => Moves(p, "idle", None)
BY DEF Accept, Goto, Finish, Moves, Busy
----------------------------------------------------------------------------
(***************************************************************************)
(* Accounts.  A callback being served has taken its state; one that is     *)
(* about to link an account that it found verified still finds it so.      *)
(***************************************************************************)
AccountsType ==
    /\ DOMAIN pc = Procs /\ DOMAIN loc = Procs
    /\ accounts \in [Ids -> Account \cup {None}]
    /\ links \in [Subjects -> Ids \cup {None}]
    /\ minted \in Nat /\ states \subseteq 1..minted
    /\ born \in 0..MaxUsers /\ \A u \in Ids : Exists(u) => u <= born

Linking(p) ==
    /\ loc[p].user \in 1..born /\ loc[p].verified \in BOOLEAN
    /\ loc[p].verified /\ Exists(loc[p].user) => accounts[loc[p].user].verified

ServesCallbacks ==
    \A p \in Procs : pc[p] \in Serving =>
       /\ loc[p].state \in 1..minted /\ loc[p].state \notin states
       /\ pc[p] # "linked" => loc[p].sub \in Subjects
       /\ pc[p] = "link" => Linking(p)

AccountsInv == AccountsType /\ ServesCallbacks /\ AccountsSound

LEMMA AccountsInitInv == SiteInit => AccountsInv
<1> SUFFICES ASSUME SiteInit PROVE AccountsInv
  OBVIOUS
<1> USE DEF SiteInit, AssetsInit, AccountsInit, RequestsInit
<1>1. accounts \in [Ids -> Account \cup {None}]
  BY EarlyAssumption
<1>2. PICK n \in 0..MaxUsers : {u \in Ids : accounts[u] # None} = 1..n
  BY EarlyAssumption
<1>3. Cardinality(1..n) = n
  BY <1>2, AccountsAssumption, FS_Interval
<1>4. born = n
  BY <1>2, <1>3 DEF Exists
<1>5. AccountsType
  <2>1. \A u \in Ids : accounts[u] # None => u \in 1..n
    BY <1>2
  <2>2. born \in 0..MaxUsers /\ \A u \in Ids : Exists(u) => u <= born
    <3>1. \A u \in Ids : accounts[u] # None => u <= n
      BY <2>1, <1>2, AccountsAssumption
    <3> QED BY ONLY <3>1, <1>2, <1>4 DEF Exists
  <2>3. minted \in Nat /\ states \subseteq 1..minted
    <3>1. minted = 1 /\ states = {1}
      OBVIOUS
    <3> QED BY ONLY <3>1
  <2>4. DOMAIN pc = Procs /\ DOMAIN loc = Procs /\ links \in [Subjects -> Ids \cup {None}]
    OBVIOUS
  <2> QED BY <1>1, <2>2, <2>3, <2>4 DEF AccountsType
<1>6. ServesCallbacks
  BY DEF ServesCallbacks, Serving
<1>7. AccountsSound
  BY EarlyAssumption DEF AccountsSound, Exists, Serving
<1> QED BY <1>5, <1>6, <1>7 DEF AccountsInv

(* A step that serves no callback and changes no account but for its photo *)
(* keeps the invariant.                                                    *)
LEMMA ElsewhereInv ==
    ASSUME AccountsInv,
           DOMAIN pc' = Procs, DOMAIN loc' = Procs,
           accounts' \in [Ids -> Account \cup {None}],
           UNCHANGED <<links, states, minted, born>>,
           \A u \in Ids : /\ Exists(u)' <=> Exists(u)
                          /\ Exists(u) => /\ accounts'[u].email = accounts[u].email
                                          /\ accounts'[u].password = accounts[u].password
                                          /\ accounts'[u].verified = accounts[u].verified,
           \A p \in Procs : pc'[p] \in Serving => pc'[p] = pc[p] /\ loc'[p] = loc[p]
    PROVE  AccountsInv'
<1>1. AccountsType'
  BY DEF AccountsInv, AccountsType, Exists
<1>2. ServesCallbacks'
  <2>1. \A u \in 1..born : u \in Ids
    BY AccountsAssumption DEF AccountsInv, AccountsType, Ids
  <2> SUFFICES ASSUME NEW p \in Procs, pc'[p] \in Serving
               PROVE  /\ loc'[p].state \in 1..minted /\ loc'[p].state \notin states
                      /\ pc'[p] # "linked" => loc'[p].sub \in Subjects
                      /\ pc'[p] = "link" => Linking(p)'
    BY DEF ServesCallbacks, Serving
  <2> QED BY <2>1 DEF AccountsInv, ServesCallbacks, Linking, Exists
<1>3. AccountsSound'
  <2>1. \A u, v \in Ids :
           Exists(u)' /\ Exists(v)' /\ accounts'[u].email = accounts'[v].email => u = v
    BY DEF AccountsInv, AccountsSound
  <2>2. \A s \in Subjects : links'[s] # None =>
           /\ accounts'[links'[s]] # None /\ accounts'[links'[s]].verified
           /\ \A t \in Subjects : links'[t] = links'[s] => s = t
    BY DEF AccountsInv, AccountsSound, AccountsType, Exists
  <2>3. \A u \in Ids : Exists(u)' /\ ~accounts'[u].password =>
           \E s \in Subjects : links'[s] = u
    BY DEF AccountsInv, AccountsSound
  <2>4. \A p, q \in Procs :
           pc'[p] \in Serving /\ pc'[q] \in Serving /\ loc'[p].state = loc'[q].state => p = q
    BY DEF AccountsInv, AccountsSound
  <2> QED BY <2>1, <2>2, <2>3, <2>4 DEF AccountsSound, Serving, Exists
<1> QED BY <1>1, <1>2, <1>3 DEF AccountsInv

(* A new row has an address of its own and no Google account yet.          *)
LEMMA BornRow ==
    ASSUME AccountsType, NEW row \in Account, Born(row)
    PROVE  /\ born + 1 \in Ids /\ ~Exists(born + 1) /\ born' = born + 1 /\ born' \in 0..MaxUsers
           /\ accounts' \in [Ids -> Account \cup {None}]
           /\ accounts'[born + 1] = row /\ accounts'[born + 1] # None
           /\ \A u \in Ids \ {born + 1} : accounts'[u] = accounts[u]
           /\ \A u \in Ids : Exists(u)' => u <= born'
<1>1. born + 1 \in Ids /\ born' = born + 1 /\ born' \in 0..MaxUsers
  BY AccountsAssumption DEF AccountsType, Born, Ids
<1>2. ~Exists(born + 1)
  BY <1>1 DEF AccountsType
<1>3. /\ accounts' \in [Ids -> Account \cup {None}] /\ accounts'[born + 1] = row
      /\ \A u \in Ids \ {born + 1} : accounts'[u] = accounts[u]
  BY <1>1 DEF AccountsType, Born
<1>4. accounts'[born + 1] # None
  BY <1>3, AccountsAssumption
<1>5. \A u \in Ids : Exists(u)' => u <= born'
  <2> SUFFICES ASSUME NEW u \in Ids, accounts'[u] # None PROVE u <= born + 1
    BY <1>1 DEF Exists
  <2>1. CASE u = born + 1
    BY <2>1, AccountsAssumption DEF Ids
  <2>2. CASE u # born + 1
    <3>1. u <= born
      BY <2>2, <1>3 DEF AccountsType, Exists
    <3> QED BY <3>1, AccountsAssumption DEF AccountsType, Ids
  <2> QED BY <2>1, <2>2
<1> QED BY <1>1, <1>2, <1>3, <1>4, <1>5

LEMMA SignupInv == ASSUME AccountsInv, NEW e \in Emails, Signup(e) PROVE AccountsInv'
<1> DEFINE new == born + 1
<1>1. NewAccount(e, TRUE, None) \in Account
  BY DEF NewAccount, Account
<1>2. AtOnce /\ WithEmail(e) = {} /\ Born(NewAccount(e, TRUE, None))
      /\ UNCHANGED <<links, states, minted>>
  BY DEF Signup
<1>3. /\ new \in Ids /\ ~Exists(new) /\ born' = new /\ born' \in 0..MaxUsers
      /\ accounts' \in [Ids -> Account \cup {None}]
      /\ accounts'[new] = NewAccount(e, TRUE, None) /\ accounts'[new] # None
      /\ \A u \in Ids \ {new} : accounts'[u] = accounts[u]
      /\ \A u \in Ids : Exists(u)' => u <= born'
  BY <1>1, <1>2, BornRow DEF AccountsInv
<1>4. UNCHANGED <<pc, loc>>
  BY <1>2 DEF AtOnce
<1>5. AccountsType'
  BY <1>2, <1>3, <1>4 DEF AccountsInv, AccountsType
<1>6. \A u \in 1..born : u \in Ids /\ u # new /\ u \in 1..born'
  BY <1>3, AccountsAssumption DEF AccountsInv, AccountsType, Ids
<1>7. ServesCallbacks'
  <2> SUFFICES ASSUME NEW p \in Procs, pc[p] \in Serving
               PROVE  /\ loc[p].state \in 1..minted /\ loc[p].state \notin states
                      /\ pc[p] # "linked" => loc[p].sub \in Subjects
                      /\ pc[p] = "link" => Linking(p)'
    BY <1>2, <1>4 DEF ServesCallbacks, Serving
  <2>1. ASSUME Linking(p) PROVE Linking(p)'
    BY <2>1, <1>3, <1>4, <1>6 DEF Linking, Exists
  <2> QED BY <2>1 DEF AccountsInv, ServesCallbacks
<1>8. AccountsSound'
  <2>1. \A u, v \in Ids :
           Exists(u)' /\ Exists(v)' /\ accounts'[u].email = accounts'[v].email => u = v
    BY <1>2, <1>3 DEF AccountsInv, AccountsSound, Exists, WithEmail, NewAccount
  <2>2. \A s \in Subjects : links'[s] # None =>
           /\ accounts'[links'[s]] # None /\ accounts'[links'[s]].verified
           /\ \A t \in Subjects : links'[t] = links'[s] => s = t
    BY <1>2, <1>3 DEF AccountsInv, AccountsSound, AccountsType, Exists
  <2>3. \A u \in Ids : Exists(u)' /\ ~accounts'[u].password =>
           \E s \in Subjects : links'[s] = u
    BY <1>2, <1>3 DEF AccountsInv, AccountsSound, Exists, NewAccount
  <2> QED BY <2>1, <2>2, <2>3, <1>4 DEF AccountsInv, AccountsSound, Serving, Exists
<1> QED BY <1>5, <1>7, <1>8 DEF AccountsInv

(* A change of one row.                                                    *)
LEMMA RowInv ==
    ASSUME AccountsInv, NEW u \in Ids,
           VerifyEmail(u) \/ ResetPassword(u) \/ \E e \in Emails : ChangeEmail(u, e)
    PROVE  AccountsInv'
<1>1. /\ accounts[u] \in Account /\ Exists(u)
      /\ UNCHANGED <<pc, loc, links, states, minted, born>>
  BY DEF AccountsInv, AccountsType, VerifyEmail, ResetPassword, ChangeEmail, Exists, AtOnce
<1>2. /\ accounts'[u] \in Account
      /\ accounts' = [accounts EXCEPT ![u] = accounts'[u]]
      /\ accounts'[u].email = accounts[u].email \/ WithEmail(accounts'[u].email) = {}
      /\ accounts[u].password => accounts'[u].password
      /\ accounts[u].verified => accounts'[u].verified
  <2>1. CASE VerifyEmail(u)
    BY <1>1, <2>1 DEF VerifyEmail, Account, AccountsInv, AccountsType
  <2>2. CASE ResetPassword(u)
    BY <1>1, <2>2 DEF ResetPassword, Account, AccountsInv, AccountsType
  <2>3. ASSUME NEW e \in Emails, ChangeEmail(u, e)
        PROVE  /\ accounts'[u] \in Account
               /\ accounts' = [accounts EXCEPT ![u] = accounts'[u]]
               /\ WithEmail(accounts'[u].email) = {}
               /\ accounts[u].password => accounts'[u].password
               /\ accounts[u].verified => accounts'[u].verified
    BY <1>1, <2>3 DEF ChangeEmail, Account, AccountsInv, AccountsType
  <2> QED BY <2>1, <2>2, <2>3
<1>3. /\ accounts' \in [Ids -> Account \cup {None}]
      /\ \A v \in Ids \ {u} : accounts'[v] = accounts[v]
      /\ \A v \in Ids : Exists(v)' <=> Exists(v)
  BY <1>1, <1>2, AccountsAssumption DEF AccountsInv, AccountsType, Exists
<1>4. AccountsType'
  BY <1>1, <1>3 DEF AccountsInv, AccountsType
<1>5. ServesCallbacks'
  <2>1. \A v \in 1..born : v \in Ids
    BY AccountsAssumption DEF AccountsInv, AccountsType, Ids
  <2> SUFFICES ASSUME NEW p \in Procs, pc[p] \in Serving
               PROVE  /\ loc[p].state \in 1..minted /\ loc[p].state \notin states
                      /\ pc[p] # "linked" => loc[p].sub \in Subjects
                      /\ pc[p] = "link" => Linking(p)'
    BY <1>1 DEF ServesCallbacks, Serving
  <2>2. ASSUME Linking(p) PROVE Linking(p)'
    BY <2>1, <2>2, <1>1, <1>2, <1>3 DEF Linking
  <2> QED BY <2>2 DEF AccountsInv, ServesCallbacks
<1>6. AccountsSound'
  <2>1. \A v, w \in Ids :
           Exists(v)' /\ Exists(w)' /\ accounts'[v].email = accounts'[w].email => v = w
    BY <1>1, <1>2, <1>3 DEF AccountsInv, AccountsSound, WithEmail
  <2>2. \A s \in Subjects : links'[s] # None =>
           /\ accounts'[links'[s]] # None /\ accounts'[links'[s]].verified
           /\ \A t \in Subjects : links'[t] = links'[s] => s = t
    BY <1>1, <1>2, <1>3 DEF AccountsInv, AccountsSound, AccountsType, Exists
  <2>3. \A v \in Ids : Exists(v)' /\ ~accounts'[v].password =>
           \E s \in Subjects : links'[s] = v
    BY <1>1, <1>2, <1>3 DEF AccountsInv, AccountsSound
  <2> QED BY <2>1, <2>2, <2>3, <1>1 DEF AccountsInv, AccountsSound, Serving, Exists
<1> QED BY <1>4, <1>5, <1>6 DEF AccountsInv

(* A callback that goes on keeps its state, which no other has.            *)
LEMMA ServingInv ==
    ASSUME AccountsInv, NEW p \in Procs, NEW step, NEW held, Moves(p, step, held),
           pc[p] \in Serving, UNCHANGED accountVars,
           step \in Serving =>
              /\ held.state = loc[p].state
              /\ step # "linked" => held.sub \in Subjects
              /\ step = "link" => /\ held.user \in 1..born /\ held.verified \in BOOLEAN
                                  /\ held.verified => accounts[held.user].verified
    PROVE  AccountsInv'
<1> USE DEF accountVars
<1>1. AccountsType'
  BY DEF AccountsInv, AccountsType, Moves, Exists
<1>2. \A q \in Procs : pc'[q] \in Serving => pc[q] \in Serving /\ loc'[q].state = loc[q].state
  BY DEF Moves
<1>3. ServesCallbacks'
  <2> SUFFICES ASSUME NEW q \in Procs, pc'[q] \in Serving
               PROVE  /\ loc'[q].state \in 1..minted /\ loc'[q].state \notin states
                      /\ pc'[q] # "linked" => loc'[q].sub \in Subjects
                      /\ pc'[q] = "link" => Linking(q)'
    BY DEF ServesCallbacks, Serving
  <2>1. CASE q = p
    BY <2>1 DEF AccountsInv, ServesCallbacks, Moves, Linking, Exists
  <2>2. CASE q # p
    BY <2>2 DEF AccountsInv, ServesCallbacks, Moves, Linking, Exists
  <2> QED BY <2>1, <2>2
<1>4. AccountsSound'
  BY <1>2 DEF AccountsInv, AccountsSound, Exists, Serving
<1> QED BY <1>1, <1>3, <1>4 DEF AccountsInv

LEMMA CallbackInv ==
    ASSUME AccountsInv, NEW p \in Procs, NEW s \in states, NEW sub \in Subjects,
           Callback(p, s, sub)
    PROVE  AccountsInv'
<1>1. /\ Moves(p, "exchange", [state |-> s, sub |-> sub]) /\ pc[p] = "idle"
      /\ states' = states \ {s} /\ UNCHANGED <<accounts, links, minted, born>>
  BY Moving DEF AccountsInv, AccountsType, Callback, Taken
<1>2. AccountsType'
  BY <1>1 DEF AccountsInv, AccountsType, Moves, Exists
<1>3. ServesCallbacks'
  <2> SUFFICES ASSUME NEW q \in Procs, pc'[q] \in Serving
               PROVE  /\ loc'[q].state \in 1..minted /\ loc'[q].state \notin states'
                      /\ pc'[q] # "linked" => loc'[q].sub \in Subjects
                      /\ pc'[q] = "link" => Linking(q)'
    BY <1>1 DEF ServesCallbacks, Serving
  <2>1. CASE q = p
    <3>1. pc'[q] = "exchange" /\ loc'[q].state = s /\ loc'[q].sub = sub
      BY <1>1, <2>1 DEF Moves
    <3>2. s \in 1..minted /\ s \notin states'
      BY <1>1 DEF AccountsInv, AccountsType
    <3> QED BY <3>1, <3>2
  <2>2. CASE q # p
    BY <1>1, <2>2 DEF AccountsInv, ServesCallbacks, Moves, Linking, Exists
  <2> QED BY <2>1, <2>2
<1>4. AccountsSound'
  <2>1. \A q, r \in Procs :
           pc'[q] \in Serving /\ pc'[r] \in Serving /\ loc'[q].state = loc'[r].state => q = r
    BY <1>1 DEF AccountsInv, AccountsSound, ServesCallbacks, Moves
  <2> QED BY <1>1, <2>1 DEF AccountsInv, AccountsSound, Exists, Serving
<1> QED BY <1>2, <1>3, <1>4 DEF AccountsInv

LEMMA StatesInv ==
    ASSUME AccountsInv, GoogleStart \/ \E s \in states : StateExpires(s)
    PROVE  AccountsInv'
<1>1. /\ UNCHANGED <<accounts, links, born, pc, loc>>
      /\ minted' \in {minted, minted + 1} /\ states' \subseteq states \cup {minted'}
      /\ minted' = minted => states' \subseteq states
  BY DEF AccountsInv, AccountsType, GoogleStart, StateExpires, AtOnce, requestVars
<1>2. /\ minted' \in Nat /\ states' \subseteq 1..minted' /\ 1..minted \subseteq 1..minted'
      /\ \A s \in 1..minted : s \notin states => s \notin states'
  <2>1. minted \in Nat /\ states \subseteq 1..minted
    BY DEF AccountsInv, AccountsType
  <2>2. CASE minted' = minted
    BY <1>1, <2>1, <2>2
  <2>3. CASE minted' = minted + 1
    <3>1. minted' \in Nat /\ minted' \in 1..minted' /\ minted' \notin 1..minted
      BY <2>1, <2>3
    <3>2. 1..minted \subseteq 1..minted'
      BY <2>1, <2>3
    <3> QED BY <1>1, <2>1, <3>1, <3>2
  <2> QED BY <1>1, <2>2, <2>3
<1>3. AccountsType'
  BY <1>1, <1>2 DEF AccountsInv, AccountsType, Exists
<1>4. ServesCallbacks'
  BY <1>1, <1>2 DEF AccountsInv, ServesCallbacks, Serving, Linking, Exists
<1>5. AccountsSound'
  BY <1>1 DEF AccountsInv, AccountsSound, Serving, Exists
<1> QED BY <1>3, <1>4, <1>5 DEF AccountsInv

LEMMA GoogleReadsInv ==
    ASSUME AccountsInv, NEW p \in Procs,
           \/ Exchange(p) \/ FetchUserInfo(p) \/ GoogleFails(p)
           \/ FindProvider(p) \/ SignInLinked(p) \/ MatchEmail(p)
    PROVE  AccountsInv'
<1>0. DOMAIN pc = Procs /\ DOMAIN loc = Procs
  BY DEF AccountsInv, AccountsType
<1>1. CASE Exchange(p)
  BY <1>0, <1>1, Moving, ServingInv DEF Exchange, Serving, AccountsInv, ServesCallbacks
<1>2. CASE FetchUserInfo(p)
  BY <1>0, <1>2, Moving, ServingInv DEF FetchUserInfo, Serving, AccountsInv, ServesCallbacks
<1>3. CASE GoogleFails(p) \/ SignInLinked(p)
  <2>1. pc[p] \in Serving /\ Finish(p) /\ UNCHANGED accountVars
    BY <1>3 DEF GoogleFails, SignInLinked, Serving
  <2>2. Moves(p, "idle", None) /\ "idle" \notin Serving
    BY <1>0, <2>1, Moving DEF Serving
  <2> QED BY <2>1, <2>2, ServingInv
<1>4. CASE FindProvider(p)
  <2>1. pc[p] \in Serving /\ pc[p] = "provider" /\ UNCHANGED accountVars
    BY <1>4 DEF FindProvider, Serving
  <2>2. loc[p].sub \in Subjects
    BY <2>1 DEF AccountsInv, ServesCallbacks
  <2>3. CASE links[loc[p].sub] # None
    <3>1. Moves(p, "linked", [state |-> loc[p].state, user |-> links[loc[p].sub]])
      BY <1>0, <1>4, <2>3, Moving DEF FindProvider
    <3> QED BY <2>1, <3>1, ServingInv
  <2>4. CASE links[loc[p].sub] = None
    <3>1. Moves(p, "match", loc[p])
      BY <1>0, <1>4, <2>4, Moving DEF FindProvider
    <3> QED BY <2>1, <2>2, <3>1, ServingInv
  <2> QED BY <2>3, <2>4
<1>5. CASE MatchEmail(p)
  <2>1. pc[p] \in Serving /\ pc[p] = "match" /\ UNCHANGED accountVars
    BY <1>5 DEF MatchEmail, Serving
  <2>2. loc[p].sub \in Subjects
    BY <2>1 DEF AccountsInv, ServesCallbacks
  <2>3. CASE Goto(p, "insert", loc[p])
    <3>1. Moves(p, "insert", loc[p])
      BY <1>0, <2>3, Moving
    <3> QED BY <2>1, <2>2, <3>1, ServingInv
  <2>4. CASE Finish(p)
    <3>1. Moves(p, "idle", None) /\ "idle" \notin Serving
      BY <1>0, <2>4, Moving DEF Serving
    <3> QED BY <2>1, <3>1, ServingInv
  <2>5. ASSUME NEW u \in WithEmail(Gmail[loc[p].sub]),
               Goto(p, "link", [state |-> loc[p].state, sub |-> loc[p].sub, user |-> u,
                                verified |-> accounts[u].verified,
                                photo |-> accounts[u].photo])
        PROVE  AccountsInv'
    <3> DEFINE held == [state |-> loc[p].state, sub |-> loc[p].sub, user |-> u,
                        verified |-> accounts[u].verified, photo |-> accounts[u].photo]
    <3>1. Moves(p, "link", held)
      BY <1>0, <2>5, Moving
    <3>2. u \in 1..born /\ accounts[u] \in Account
      BY AccountsAssumption DEF AccountsInv, AccountsType, WithEmail, Exists, Ids
    <3>3. /\ held.state = loc[p].state /\ held.sub \in Subjects
          /\ held.user \in 1..born /\ held.verified \in BOOLEAN
          /\ held.verified => accounts[held.user].verified
      BY <2>2, <3>2 DEF Account
    <3> HIDE DEF held
    <3> QED BY <2>1, <3>1, <3>3, ServingInv
  <2> QED BY <1>5, <2>3, <2>4, <2>5 DEF MatchEmail
<1> QED BY <1>1, <1>2, <1>3, <1>4, <1>5

(* The new account is linked at once.                                      *)
LEMMA GoogleInsertInv ==
    ASSUME AccountsInv, NEW p \in Procs, GoogleInsert(p) PROVE AccountsInv'
<1> DEFINE s == loc[p].sub
           new == born + 1
           row == NewAccount(Gmail[s], FALSE, Pictures[s])
<1>1. /\ s \in Subjects /\ WithEmail(Gmail[s]) = {} /\ Linkable(s, new) /\ Born(row)
      /\ links' = [links EXCEPT ![s] = new] /\ UNCHANGED <<states, minted>>
      /\ Moves(p, "idle", None)
  BY Moving DEF GoogleInsert, AccountsInv, AccountsType, ServesCallbacks, Serving
<1>2. row \in Account
  BY <1>1, AccountsAssumption DEF NewAccount, Account
<1>3. row.email = Gmail[s] /\ row.verified /\ ~row.password
  BY DEF NewAccount
<1> HIDE DEF row
<1>4. /\ new \in Ids /\ ~Exists(new) /\ born' = new /\ born' \in 0..MaxUsers
      /\ accounts' \in [Ids -> Account \cup {None}]
      /\ accounts'[new] = row /\ accounts'[new] # None
      /\ \A u \in Ids \ {new} : accounts'[u] = accounts[u]
      /\ \A u \in Ids : Exists(u)' => u <= born'
  BY <1>1, <1>2, BornRow DEF AccountsInv
<1>5. /\ links' \in [Subjects -> Ids \cup {None}] /\ links'[s] = new
      /\ \A t \in Subjects \ {s} : links'[t] = links[t] /\ links[t] # new
      /\ links[s] = None
  BY <1>1, <1>4 DEF AccountsInv, AccountsType, Linkable
<1>6. AccountsType'
  BY <1>1, <1>4, <1>5 DEF AccountsInv, AccountsType, Moves
<1>7. \A u \in 1..born : u \in Ids /\ u # new /\ u \in 1..born'
  BY <1>4, AccountsAssumption DEF AccountsInv, AccountsType, Ids
<1>8. ServesCallbacks'
  <2> SUFFICES ASSUME NEW q \in Procs, pc'[q] \in Serving
               PROVE  /\ loc'[q].state \in 1..minted /\ loc'[q].state \notin states
                      /\ pc'[q] # "linked" => loc'[q].sub \in Subjects
                      /\ pc'[q] = "link" => Linking(q)'
    BY <1>1 DEF ServesCallbacks, Serving
  <2>1. q # p /\ pc'[q] = pc[q] /\ loc'[q] = loc[q]
    BY <1>1 DEF Moves, Serving
  <2>2. ASSUME Linking(q) PROVE Linking(q)'
    BY <2>1, <2>2, <1>4, <1>7 DEF Linking, Exists
  <2> QED BY <2>1, <2>2 DEF AccountsInv, ServesCallbacks
<1>9. AccountsSound'
  <2>1. \A u, v \in Ids :
           Exists(u)' /\ Exists(v)' /\ accounts'[u].email = accounts'[v].email => u = v
    BY <1>1, <1>3, <1>4 DEF AccountsInv, AccountsSound, Exists, WithEmail
  <2>2. \A t \in Subjects : links'[t] # None =>
           /\ accounts'[links'[t]] # None /\ accounts'[links'[t]].verified
           /\ \A r \in Subjects : links'[r] = links'[t] => t = r
    BY <1>3, <1>4, <1>5 DEF AccountsInv, AccountsSound, AccountsType, Exists
  <2>3. \A u \in Ids : Exists(u)' /\ ~accounts'[u].password =>
           \E t \in Subjects : links'[t] = u
    <3> SUFFICES ASSUME NEW u \in Ids, accounts'[u] # None, ~accounts'[u].password
                 PROVE  \E t \in Subjects : links'[t] = u
      BY DEF Exists
    <3>1. CASE u = new
      BY <3>1, <1>1, <1>5
    <3>2. CASE u # new
      <4>1. PICK t \in Subjects : links[t] = u
        BY <3>2, <1>4 DEF AccountsInv, AccountsSound, Exists
      <4>2. t # s
        BY <4>1, <1>5, AccountsAssumption DEF Ids
      <4> QED BY <4>1, <4>2, <1>5
    <3> QED BY <3>1, <3>2
  <2>4. \A q, r \in Procs :
           pc'[q] \in Serving /\ pc'[r] \in Serving /\ loc'[q].state = loc'[r].state => q = r
    BY <1>1 DEF AccountsInv, AccountsSound, Moves, Serving
  <2> QED BY <2>1, <2>2, <2>3, <2>4 DEF AccountsSound, Exists, Serving
<1> QED BY <1>6, <1>8, <1>9 DEF AccountsInv

(* An account that was found verified is so still; else it is made so.     *)
LEMMA GoogleLinkInv ==
    ASSUME AccountsInv, NEW p \in Procs, GoogleLink(p) PROVE AccountsInv'
<1> DEFINE me == loc[p]
           s == me.sub
           u == me.user
           photo == IF Pictures[s] \in {None, me.photo} THEN accounts[u].photo ELSE Pictures[s]
<1>1. /\ s \in Subjects /\ Linking(p) /\ Exists(u) /\ Linkable(s, u)
      /\ accounts' = [accounts EXCEPT
            ![u].verified = @ \/ ~me.verified,
            ![u].photo = IF Pictures[s] \in {None, me.photo} THEN @ ELSE Pictures[s]]
      /\ links' = [links EXCEPT ![s] = u] /\ UNCHANGED <<states, minted, born>>
      /\ Moves(p, "idle", None)
  BY Moving DEF GoogleLink, AccountsInv, AccountsType, ServesCallbacks, Serving
<1>2. u \in Ids /\ accounts[u] \in Account /\ u \in 1..born
  BY <1>1, AccountsAssumption DEF AccountsInv, AccountsType, Linking, Exists, Ids
<1>3. /\ accounts'[u] = [accounts[u] EXCEPT !.verified = @ \/ ~me.verified, !.photo = photo]
      /\ \A v \in Ids \ {u} : accounts'[v] = accounts[v]
      /\ DOMAIN accounts' = Ids
  BY <1>1, <1>2 DEF AccountsInv, AccountsType, Account
<1>4. photo \in Urls \cup {None}
  BY <1>1, <1>2, AccountsAssumption DEF Account
<1> HIDE DEF photo
<1>5. accounts[u].verified \/ ~me.verified
  BY <1>1 DEF Linking
<1>6. /\ accounts'[u] \in Account /\ accounts'[u].verified
      /\ accounts'[u].email = accounts[u].email /\ accounts'[u].password = accounts[u].password
  BY <1>2, <1>3, <1>4, <1>5 DEF Account
<1>7. accounts' \in [Ids -> Account \cup {None}]
  <2>1. \A v \in Ids : accounts'[v] \in Account \cup {None}
    BY <1>3, <1>6 DEF AccountsInv, AccountsType
  <2>2. accounts' = [v \in Ids |-> accounts'[v]]
    BY <1>1 DEF AccountsInv, AccountsType
  <2> QED BY <2>1, <2>2
<1>8. \A v \in Ids : Exists(v)' <=> Exists(v)
  BY <1>1, <1>2, <1>3, <1>6, AccountsAssumption DEF Exists
<1>9. /\ links' \in [Subjects -> Ids \cup {None}] /\ links'[s] = u
      /\ \A t \in Subjects \ {s} : links'[t] = links[t] /\ links[t] # u
      /\ links[s] = None
  BY <1>1, <1>2 DEF AccountsInv, AccountsType, Linkable
<1>10. AccountsType'
  BY <1>1, <1>7, <1>8, <1>9 DEF AccountsInv, AccountsType, Moves
<1>11. ServesCallbacks'
  <2> SUFFICES ASSUME NEW q \in Procs, pc'[q] \in Serving
               PROVE  /\ loc'[q].state \in 1..minted /\ loc'[q].state \notin states
                      /\ pc'[q] # "linked" => loc'[q].sub \in Subjects
                      /\ pc'[q] = "link" => Linking(q)'
    BY <1>1 DEF ServesCallbacks, Serving
  <2>1. q # p /\ pc'[q] = pc[q] /\ loc'[q] = loc[q]
    BY <1>1 DEF Moves, Serving
  <2>2. ASSUME Linking(q) PROVE Linking(q)'
    <3>1. \A v \in 1..born : v \in Ids
      BY AccountsAssumption DEF AccountsInv, AccountsType, Ids
    <3>2. \A v \in Ids : accounts'[v] # None /\ accounts[v].verified => accounts'[v].verified
      BY <1>3, <1>6
    <3> QED BY <3>1, <3>2, <2>1, <2>2, <1>1, <1>8 DEF Linking, Exists
  <2> QED BY <2>1, <2>2 DEF AccountsInv, ServesCallbacks
<1>12. AccountsSound'
  <2>0. \A v \in Ids : accounts'[v] # None =>
           /\ accounts[v] # None /\ accounts'[v].email = accounts[v].email
           /\ accounts'[v].password = accounts[v].password
           /\ accounts[v].verified => accounts'[v].verified
    <3>1. \A v \in Ids : accounts'[v] # None => accounts[v] # None
      BY <1>8 DEF Exists
    <3>2. \A v \in Ids \ {u} : accounts'[v] = accounts[v]
      BY <1>3
    <3> QED BY <3>1, <3>2, <1>6
  <2>1. \A v, w \in Ids :
           accounts'[v] # None /\ accounts'[w] # None
              /\ accounts'[v].email = accounts'[w].email => v = w
    BY <2>0 DEF AccountsInv, AccountsSound, Exists
  <2>2. \A t \in Subjects : links'[t] # None =>
           /\ accounts'[links'[t]] # None /\ accounts'[links'[t]].verified
           /\ \A r \in Subjects : links'[r] = links'[t] => t = r
    <3> SUFFICES ASSUME NEW t \in Subjects, links'[t] # None
                 PROVE  /\ accounts'[links'[t]] # None /\ accounts'[links'[t]].verified
                        /\ \A r \in Subjects : links'[r] = links'[t] => t = r
      OBVIOUS
    <3>1. CASE t = s
      BY <3>1, <1>1, <1>2, <1>6, <1>8, <1>9 DEF Exists
    <3>2. CASE t # s
      <4>1. links'[t] = links[t] /\ links[t] \in Ids /\ links[t] # u /\ links[t] # None
        BY <3>2, <1>9
      <4>2. /\ accounts[links[t]] # None /\ accounts[links[t]].verified
            /\ \A r \in Subjects : links[r] = links[t] => t = r
        BY <4>1 DEF AccountsInv, AccountsSound, Exists
      <4>3. accounts'[links[t]] = accounts[links[t]]
        BY <4>1, <1>3
      <4>4. \A r \in Subjects : links'[r] = links[t] => links[r] = links[t]
        BY <4>1, <1>9
      <4> QED BY <4>1, <4>2, <4>3, <4>4
    <3> QED BY <3>1, <3>2
  <2>3. \A v \in Ids : Exists(v)' /\ ~accounts'[v].password =>
           \E t \in Subjects : links'[t] = v
    <3> SUFFICES ASSUME NEW v \in Ids, Exists(v), ~accounts[v].password
                 PROVE  \E t \in Subjects : links'[t] = v
      BY <1>3, <1>6, <1>8
    <3>1. PICK t \in Subjects : links[t] = v
      BY DEF AccountsInv, AccountsSound
    <3>2. t # s
      BY <3>1, <1>9, AccountsAssumption DEF Ids
    <3> QED BY <3>1, <3>2, <1>9
  <2>4. \A q, r \in Procs :
           pc'[q] \in Serving /\ pc'[r] \in Serving /\ loc'[q].state = loc'[r].state => q = r
    BY <1>1 DEF AccountsInv, AccountsSound, Moves, Serving
  <2> QED BY <2>1, <2>2, <2>3, <2>4 DEF AccountsSound, Exists, Serving
<1> QED BY <1>10, <1>11, <1>12 DEF AccountsInv

(* Deleting an account deletes its links.                                  *)
LEMMA AccountDeleteInv ==
    ASSUME AccountsInv, NEW p \in Procs, AccountDelete(p) PROVE AccountsInv'
<1> DEFINE u == loc[p].user
<1>1. /\ accounts' = [accounts EXCEPT ![u] = None]
      /\ links' = [t \in Subjects |-> IF links[t] = u THEN None ELSE links[t]]
      /\ UNCHANGED <<states, minted, born>> /\ Moves(p, "sweep", loc[p])
  BY Moving DEF AccountDelete, Cascaded, AccountsInv, AccountsType
<1>2. /\ accounts' \in [Ids -> Account \cup {None}]
      /\ \A v \in Ids : accounts'[v] # None =>
            accounts[v] # None /\ v # u /\ accounts'[v] = accounts[v]
      /\ \A v \in Ids \ {u} : accounts'[v] = accounts[v]
  BY <1>1 DEF AccountsInv, AccountsType, Exists
<1>3. /\ links' \in [Subjects -> Ids \cup {None}]
      /\ \A t \in Subjects : links'[t] # None => links'[t] = links[t] /\ links[t] # u
      /\ \A t \in Subjects : links[t] # u => links'[t] = links[t]
  BY <1>1 DEF AccountsInv, AccountsType
<1>4. AccountsType'
  BY <1>1, <1>2, <1>3 DEF AccountsInv, AccountsType, Moves, Exists
<1>5. ServesCallbacks'
  <2>1. \A v \in 1..born : v \in Ids
    BY AccountsAssumption DEF AccountsInv, AccountsType, Ids
  <2> SUFFICES ASSUME NEW q \in Procs, pc'[q] \in Serving
               PROVE  /\ loc'[q].state \in 1..minted /\ loc'[q].state \notin states
                      /\ pc'[q] # "linked" => loc'[q].sub \in Subjects
                      /\ pc'[q] = "link" => Linking(q)'
    BY <1>1 DEF ServesCallbacks, Serving
  <2>2. q # p /\ pc'[q] = pc[q] /\ loc'[q] = loc[q]
    BY <1>1 DEF Moves, Serving
  <2>3. ASSUME Linking(q) PROVE Linking(q)'
    BY <2>1, <2>2, <2>3, <1>1, <1>2 DEF Linking, Exists
  <2> QED BY <2>2, <2>3 DEF AccountsInv, ServesCallbacks
<1>6. AccountsSound'
  <2>1. \A v, w \in Ids :
           Exists(v)' /\ Exists(w)' /\ accounts'[v].email = accounts'[w].email => v = w
    BY <1>2 DEF AccountsInv, AccountsSound, Exists
  <2>2. \A t \in Subjects : links'[t] # None =>
           /\ accounts'[links'[t]] # None /\ accounts'[links'[t]].verified
           /\ \A r \in Subjects : links'[r] = links'[t] => t = r
    <3> SUFFICES ASSUME NEW t \in Subjects, links'[t] # None
                 PROVE  /\ accounts'[links[t]] # None /\ accounts'[links[t]].verified
                        /\ \A r \in Subjects : links'[r] = links[t] => t = r
      BY <1>3
    <3>1. links'[t] = links[t] /\ links[t] \in Ids \ {u}
      BY <1>3 DEF AccountsInv, AccountsType
    <3>2. accounts'[links[t]] = accounts[links[t]]
      BY <3>1, <1>2
    <3>3. accounts[links[t]] # None /\ accounts[links[t]].verified
          /\ \A r \in Subjects : links[r] = links[t] => t = r
      BY <1>3, <3>1 DEF AccountsInv, AccountsSound, Exists
    <3>4. \A r \in Subjects : links'[r] = links[t] => links[r] = links[t]
      BY <1>3, <3>1
    <3> QED BY <3>2, <3>3, <3>4
  <2>3. \A v \in Ids : Exists(v)' /\ ~accounts'[v].password =>
           \E t \in Subjects : links'[t] = v
    <3> SUFFICES ASSUME NEW v \in Ids, accounts'[v] # None, ~accounts'[v].password
                 PROVE  \E t \in Subjects : links'[t] = v
      BY DEF Exists
    <3>1. accounts[v] # None /\ v # u /\ ~accounts[v].password
      BY <1>2
    <3>2. PICK t \in Subjects : links[t] = v
      BY <3>1 DEF AccountsInv, AccountsSound, Exists
    <3> QED BY <1>3, <3>1, <3>2
  <2>4. \A q, r \in Procs :
           pc'[q] \in Serving /\ pc'[r] \in Serving /\ loc'[q].state = loc'[r].state => q = r
    BY <1>1 DEF AccountsInv, AccountsSound, Moves, Serving
  <2> QED BY <2>1, <2>2, <2>3, <2>4 DEF AccountsSound, Exists, Serving
<1> QED BY <1>4, <1>5, <1>6 DEF AccountsInv
----------------------------------------------------------------------------
(***************************************************************************)
(* Assets.  A photo's public id is found again in its URL.                 *)
(***************************************************************************)
Known == {Asset(n) : n \in 1..upload}

LEMMA UrlType ==
    /\ <<"cloud", "image", "upload", "v17", "template-logos">> \in Seq(Segments)
    /\ Folder \in Seq(Segments)
<1>1. ASSUME NEW S, NEW a \in S, NEW b \in S, NEW c \in S, NEW d \in S, NEW e \in S
      PROVE  <<a, b, c, d, e>> \in Seq(S) /\ <<e>> \in Seq(S)
  OBVIOUS
<1> QED BY <1>1, AssetsAssumption DEF Folder

LEMMA PairTail ==
    ASSUME NEW S, NEW a \in S, NEW b \in S
    PROVE  <<a, b>> # <<>> /\ Head(<<a, b>>) = a /\ Tail(<<a, b>>) = <<b>>
<1>1. <<a, b>> \in Seq(S) /\ <<b>> \in Seq(S) /\ Len(<<a, b>>) = 2 /\ Len(<<b>>) = 1
  OBVIOUS
<1>2. /\ Len(Tail(<<a, b>>)) = 1 /\ Tail(<<a, b>>)[1] = b /\ Tail(<<a, b>>) \in Seq(S)
      /\ <<a, b>> # <<>> /\ Head(<<a, b>>) = a
  BY <1>1, HeadTailProperties
<1>3. \A i \in 1..1 : i = 1
  OBVIOUS
<1> QED BY <1>1, <1>2, <1>3, SeqEqual

LEMMA LastTwo ==
    ASSUME NEW S, NEW a \in S, NEW b \in S, NEW c \in S, NEW d \in S, NEW e \in S
    PROVE  SubSeq(<<a, b, c, d, e>>, 4, 5) = <<d, e>>
<1> DEFINE s == <<a, b, c, d, e>>
           t == <<d, e>>
<1>1. s[4] = d /\ s[5] = e /\ \A i \in 4..5 : s[i] \in S
  OBVIOUS
<1>2. t \in Seq(S) /\ Len(t) = 2 /\ t[1] = d /\ t[2] = e
  OBVIOUS
<1> HIDE DEF s, t
<1>3. /\ SubSeq(s, 4, 5) \in Seq(S) /\ Len(SubSeq(s, 4, 5)) = 2
      /\ \A i \in 1..2 : SubSeq(s, 4, 5)[i] = s[4 + i - 1]
  BY <1>1, SubSeqProperties
<1>4. \A i \in 1..2 : SubSeq(s, 4, 5)[i] = t[i]
  BY <1>1, <1>2, <1>3
<1> QED BY <1>2, <1>3, <1>4, SeqEqual DEF s, t

LEMMA UrlId == ASSUME NEW n PROVE PublicId(AssetUrl(n)) = Asset(n)
<1> DEFINE path == <<"cloud", "image", "upload", "v17", "template-logos">>
           after == {i \in DOMAIN path : path[i] = "upload"}
           at == CHOOSE i \in after : \A j \in after : i <= j
           rest == SubSeq(path, at + 1, Len(path))
<1>1. after = {3}
  OBVIOUS
<1>2. at = 3
  BY <1>1
<1>3. rest = <<"v17", "template-logos">>
  <2>1. Len(path) = 5
    OBVIOUS
  <2>2. SubSeq(path, 4, 5) = <<"v17", "template-logos">>
    BY AssetsAssumption, LastTwo
  <2> QED BY <1>2, <2>1, <2>2
<1>4. Head(rest) = "v17" /\ Tail(rest) = <<"template-logos">> /\ rest # <<>>
  <2>1. "v17" \in Segments /\ "template-logos" \in Segments
    BY AssetsAssumption
  <2>2. LET s == <<"v17", "template-logos">> IN
          Head(s) = "v17" /\ Tail(s) = <<"template-logos">> /\ s # <<>>
    BY <2>1, PairTail
  <2> QED BY ONLY <1>3, <2>2
<1>5. AssetUrl(n).path = path /\ AssetUrl(n).file = n
  BY DEF AssetUrl
<1>6. PublicId(AssetUrl(n)) =
         IF after = {} THEN None
         ELSE [folder |-> IF rest # <<>> /\ Version(Head(rest)) THEN Tail(rest) ELSE rest,
               file |-> n]
  BY <1>5 DEF PublicId
<1> HIDE DEF after, rest
<1> QED BY <1>1, <1>4, <1>6 DEF Version, Asset, Folder

LEMMA PictureId ==
    ASSUME NEW s \in Subjects, Pictures[s] # None PROVE PublicId(Pictures[s]) = None
BY AssetsAssumption DEF PublicId

LEMMA AssetUrlType ==
    ASSUME NEW n \in Nat
    PROVE  /\ AssetUrl(n) \in Urls /\ AssetUrl(n) # None /\ AssetUrl(n).file = n
           /\ Asset(n) \in PublicIds /\ Asset(n) # None /\ Asset(n).file = n
<1>1. AssetUrl(n) \in Urls /\ AssetUrl(n).file = n
  BY UrlType DEF AssetUrl, Urls
<1>2. Asset(n) \in PublicIds /\ Asset(n).file = n
  BY UrlType DEF Asset, PublicIds
<1> QED BY <1>1, <1>2, AccountsAssumption, AssetsAssumption

LEMMA KnownType ==
    ASSUME upload \in Nat
    PROVE  /\ Known \subseteq PublicIds /\ None \notin Known
           /\ Asset(upload + 1) \notin Known
           /\ \A a \in Known : /\ AssetUrl(a.file) \in Urls /\ AssetUrl(a.file) # None
                               /\ PublicId(AssetUrl(a.file)) = a
<1>1. \A n \in 1..upload : n \in Nat /\ n # upload + 1
  OBVIOUS
<1>2. Asset(upload + 1).file = upload + 1
  BY AssetUrlType
<1>3. Asset(upload + 1) \notin Known
  BY <1>1, <1>2, AssetUrlType DEF Known
<1> QED BY <1>1, <1>3, AssetUrlType, UrlId DEF Known

(***************************************************************************)
(* The invariant of the assets.  Every asset that a request has in hand is *)
(* shown at most where the request means to replace it; a fresh one is in  *)
(* nobody else's hand; whatever is about to be deleted is shown nowhere.   *)
(***************************************************************************)
Holding == {"logo_upload", "logo_commit", "photo_upload", "photo_commit", "photo_none",
            "bury", "clean", "drop"}
Committing == {"logo_commit", "photo_commit"}
Sweeping == {"logos", "delete", "sweep"}

Held(p) ==
    IF pc[p] \in Holding THEN {loc[p].new, loc[p].old} \ {None}
    ELSE IF pc[p] \in Sweeping THEN loc[p].ids ELSE {}

(* What is in Cloudinary, but for the request in no row. *)
LooseOf(p) ==
    IF pc[p] \in Committing \cup {"clean"} THEN {loc[p].new}
    ELSE IF pc[p] = "drop" THEN {loc[p].old}
    ELSE IF pc[p] = "sweep" THEN loc[p].ids ELSE {}

OnPhotos(a, users) == \A u \in Ids : Photo(u) = a => u \in users
OnLogos(a, rows) == \A b \in Logos : Logo(b) = a => b \in rows

FreshHand(p) ==
    /\ loc[p].new \in store \ Referenced /\ loc[p].new # loc[p].old
    /\ \A q \in Procs \ {p} : loc[p].new \notin Held(q)

LogoHand(p) ==
    /\ loc[p].row \in Logos
    /\ loc[p].old # None => OnPhotos(loc[p].old, {}) /\ OnLogos(loc[p].old, {loc[p].row})

PhotoHand(p) ==
    /\ loc[p].row \in Ids
    /\ loc[p].old # None => OnPhotos(loc[p].old, {loc[p].row}) /\ OnLogos(loc[p].old, {})

DropHand(p) ==
    /\ loc[p].old # None /\ OnPhotos(loc[p].old, {})
    /\ \A b \in Logos : Logo(b) = loc[p].old => ~badges[b].live

CleanHand(p) ==
    /\ loc[p].new # None /\ OnPhotos(loc[p].new, {})
    /\ loc[p].new \in doubt \/ OnLogos(loc[p].new, {})

AccountHand(p) ==
    /\ loc[p].user \in Ids
    /\ \A a \in loc[p].ids : OnPhotos(a, {loc[p].user}) /\ OnLogos(a, Rows(loc[p].user))

SweepHand(p) == \A a \in loc[p].ids : OnPhotos(a, {}) /\ OnLogos(a, {})

HandOK(p) ==
    /\ Held(p) \subseteq Known
    /\ pc[p] \in Committing => FreshHand(p)
    /\ pc[p] \in {"logo_upload", "logo_commit", "bury"} => LogoHand(p)
    /\ pc[p] \in {"photo_upload", "photo_commit", "photo_none"} => PhotoHand(p)
    /\ pc[p] = "drop" => DropHand(p)
    /\ pc[p] = "clean" => CleanHand(p)
    /\ pc[p] \in {"logos", "delete"} => AccountHand(p)
    /\ pc[p] = "sweep" => SweepHand(p)

AssetsType ==
    /\ badges \in [Logos -> Badge \cup {None}]
    /\ \A b \in Logos : badges[b] # None => Exists(badges[b].owner)
    /\ upload \in Nat /\ store \subseteq Known /\ leaks \subseteq Known
    /\ \A u \in Ids : Photo(u) \in Known \cup {None}
    /\ \A b \in Logos : Logo(b) \in Known \cup {None}

OneRow ==
    /\ \A u, v \in Ids : Photo(u) = Photo(v) /\ Photo(u) # None => u = v
    /\ \A b, c \in Logos : Logo(b) = Logo(c) /\ Logo(b) # None => b = c
    /\ \A u \in Ids, b \in Logos : Photo(u) = Logo(b) => Photo(u) = None

Accounted == \A a \in store : a \in Referenced \cup leaks \/ \E p \in Procs : a \in LooseOf(p)

AssetsInv ==
    AssetsType /\ OneRow /\ Accounted /\ AssetsStored /\ \A p \in Procs : HandOK(p)

(* Rows only lose assets, but for the new ones N. *)
RowsLose(N) ==
    /\ \A u \in Ids : Photo(u)' \in {Photo(u), None} \cup N
    /\ \A b \in Logos :
          /\ Logo(b)' \in {Logo(b), None} \cup N
          /\ badges'[b] # None =>
                /\ badges[b] # None /\ badges'[b].owner = badges[b].owner
                /\ badges'[b].live => badges[b].live

LEMMA KnownGrows ==
    ASSUME upload \in Nat, upload' \in {upload, upload + 1}
    PROVE  /\ upload' \in Nat /\ Known \subseteq Known'
           /\ upload' = upload + 1 => Asset(upload + 1) \in Known'
<1>1. upload' \in Nat /\ upload <= upload'
  OBVIOUS
<1>2. \A n \in 1..upload : n \in 1..upload'
  BY <1>1
<1>3. upload' = upload + 1 => upload + 1 \in 1..upload'
  BY <1>1
<1> QED BY <1>1, <1>2, <1>3 DEF Known, Asset

(* A request that did not move still has what it had in hand, as safe as   *)
(* before.                                                                 *)
LEMMA HandKept ==
    ASSUME AssetsInv, NEW q \in Procs, pc'[q] = pc[q], loc'[q] = loc[q],
           NEW N, NEW D, RowsLose(N), N \cap Held(q) = {},
           pc[q] \in Committing => loc[q].new \notin D,
           store \ D \subseteq store', doubt \subseteq doubt',
           upload' \in {upload, upload + 1},
           \A r \in Procs \ {q} : Held(r)' \subseteq Held(r) \cup Referenced \cup {Asset(upload + 1)}
    PROVE  HandOK(q)'
<1>1. HandOK(q) /\ Held(q)' = Held(q) /\ Held(q) \subseteq Known
  BY DEF AssetsInv, HandOK, Held
<1>2. upload \in Nat /\ Known \subseteq Known' /\ None \notin Known /\ Asset(upload + 1) \notin Known
  BY KnownGrows, KnownType DEF AssetsInv, AssetsType
<1>3. Held(q)' \subseteq Known'
  BY <1>1, <1>2
<1>4. ASSUME NEW a \in Held(q)
      PROVE  /\ \A u \in Ids : Photo(u)' = a => Photo(u) = a
             /\ \A b \in Logos : Logo(b)' = a =>
                   /\ Logo(b) = a /\ badges'[b] # None /\ badges[b] # None
                   /\ badges'[b].owner = badges[b].owner
                   /\ badges'[b].live => badges[b].live
  <2>1. a # None /\ a \notin N
    BY <1>1, <1>2
  <2>2. \A b \in Logos : Logo(b)' = a => badges'[b] # None
    BY <2>1 DEF Logo
  <2> QED BY <2>1, <2>2 DEF RowsLose
<1>5. pc[q] \in Holding /\ loc[q].old # None => loc[q].old \in Held(q)
  BY DEF Held
<1>6. pc[q] \in Holding /\ loc[q].new # None => loc[q].new \in Held(q)
  BY DEF Held
<1>7. ASSUME pc[q] \in Committing PROVE FreshHand(q)'
  <2>1. FreshHand(q) /\ loc[q].new \in Known /\ loc[q].new \in Held(q)
    BY <1>1, <1>2, <1>6, <1>7 DEF HandOK, FreshHand, AssetsInv, AssetsType, Committing, Holding
  <2>2. loc[q].new \in store'
    BY <1>7, <2>1 DEF FreshHand
  <2>3. loc[q].new \notin Referenced'
    BY <1>4, <2>1 DEF FreshHand, Referenced
  <2>4. \A r \in Procs \ {q} : loc[q].new \notin Held(r)'
    BY <1>2, <2>1 DEF FreshHand
  <2> QED BY <2>1, <2>2, <2>3, <2>4 DEF FreshHand
<1>8. ASSUME pc[q] \in {"logo_upload", "logo_commit", "bury"} PROVE LogoHand(q)'
  BY <1>1, <1>4, <1>5, <1>8 DEF HandOK, LogoHand, OnPhotos, OnLogos, Holding
<1>9. ASSUME pc[q] \in {"photo_upload", "photo_commit", "photo_none"} PROVE PhotoHand(q)'
  BY <1>1, <1>4, <1>5, <1>9 DEF HandOK, PhotoHand, OnPhotos, OnLogos, Holding
<1>10. ASSUME pc[q] = "drop" PROVE DropHand(q)'
  BY <1>1, <1>4, <1>5, <1>10 DEF HandOK, DropHand, OnPhotos, Holding
<1>11. ASSUME pc[q] = "clean" PROVE CleanHand(q)'
  BY <1>1, <1>4, <1>6, <1>11 DEF HandOK, CleanHand, OnPhotos, OnLogos, Holding
<1>12. ASSUME pc[q] \in {"logos", "delete"} PROVE AccountHand(q)'
  <2>1. AccountHand(q) /\ \A a \in loc[q].ids : a \in Held(q)
    BY <1>1, <1>12 DEF HandOK, Held, Holding, Sweeping
  <2> QED BY <1>4, <2>1 DEF AccountHand, OnPhotos, OnLogos, Rows
<1>13. ASSUME pc[q] = "sweep" PROVE SweepHand(q)'
  <2>1. SweepHand(q) /\ \A a \in loc[q].ids : a \in Held(q)
    BY <1>1, <1>13 DEF HandOK, Held, Holding, Sweeping
  <2> QED BY <1>4, <2>1 DEF SweepHand, OnPhotos, OnLogos
<1> QED BY <1>3, <1>7, <1>8, <1>9, <1>10, <1>11, <1>12, <1>13 DEF HandOK, Committing

(* What keeps the invariant: the requests P move, the rows lose assets and *)
(* gain only those of N, and only what no page shows, D, is deleted.       *)
LEMMA AssetsKept ==
    ASSUME AssetsInv, NEW P \in SUBSET Procs, NEW N, NEW D,
           badges' \in [Logos -> Badge \cup {None}],
           \A b \in Logos : badges'[b] # None => accounts'[badges'[b].owner] # None,
           RowsLose(N), OneRow', N \subseteq store',
           upload' \in {upload, upload + 1},
           store \ D \subseteq store', store' \subseteq Known',
           leaks \subseteq leaks', leaks' \subseteq Known', doubt \subseteq doubt',
           \A u \in Ids : Photo(u) \notin D,
           \A b \in Logos : badges[b] # None /\ badges[b].live /\ Logo(b) \in D => Logo(b) \in doubt,
           \A a \in store' : a \in store \/ a \in leaks' \/ \E p \in P : a \in LooseOf(p)',
           \A a \in Referenced : a \in Referenced' \/ a \in leaks' \/ \E p \in P : a \in LooseOf(p)',
           \A p \in P : /\ HandOK(p)'
                        /\ Held(p)' \subseteq Held(p) \cup Referenced \cup {Asset(upload + 1)}
                        /\ \A a \in LooseOf(p) : a \in store' =>
                              a \in Referenced' \/ a \in leaks' \/ \E r \in P : a \in LooseOf(r)',
           \A q \in Procs \ P : /\ pc'[q] = pc[q] /\ loc'[q] = loc[q]
                                /\ N \cap Held(q) = {}
                                /\ pc[q] \in Committing => loc[q].new \notin D
    PROVE  AssetsInv'
<1>1. upload \in Nat /\ upload' \in Nat /\ Known \subseteq Known'
  BY KnownGrows DEF AssetsInv, AssetsType
<1>2. AssetsType'
  <2>1. \A u \in Ids : Photo(u)' \in Known' \cup {None}
    BY <1>1 DEF AssetsInv, AssetsType, RowsLose
  <2>2. \A b \in Logos : Logo(b)' \in Known' \cup {None}
    BY <1>1 DEF AssetsInv, AssetsType, RowsLose
  <2> QED BY <1>1, <2>1, <2>2 DEF AssetsType, Exists
<1>3. \A q \in Procs \ P : LooseOf(q)' = LooseOf(q) /\ Held(q)' = Held(q)
  BY DEF LooseOf, Held
<1>4. Accounted'
  <2> SUFFICES ASSUME NEW a \in store'
               PROVE  a \in Referenced' \/ a \in leaks' \/ \E p \in Procs : a \in LooseOf(p)'
    BY DEF Accounted
  <2>1. CASE a \in store
    <3>1. a \in Referenced \/ a \in leaks \/ \E p \in Procs : a \in LooseOf(p)
      BY <2>1 DEF AssetsInv, Accounted
    <3>2. ASSUME NEW q \in Procs \ P, a \in LooseOf(q) PROVE a \in LooseOf(q)'
      BY <1>3, <3>2
    <3> QED BY <3>1, <3>2
  <2> QED BY <2>1
<1>5. AssetsStored'
  <2>1. \A u \in Ids : Photo(u)' \in store' \cup {None}
    BY DEF AssetsInv, AssetsStored, RowsLose
  <2>2. ASSUME NEW b \in Logos, badges'[b] # None, badges'[b].live
        PROVE  Logo(b)' \in store' \cup doubt' \cup {None}
    <3>1. badges[b] # None /\ badges[b].live /\ Logo(b)' \in {Logo(b), None} \cup N
      BY <2>2 DEF RowsLose
    <3>2. Logo(b) \in store \cup doubt \cup {None}
      BY <3>1 DEF AssetsInv, AssetsStored
    <3> QED BY <3>1, <3>2
  <2> QED BY <2>1, <2>2 DEF AssetsStored
<1>6. ASSUME NEW q \in Procs PROVE HandOK(q)'
  <2>1. CASE q \in P
    BY <2>1
  <2>2. CASE q \notin P
    <3>1. \A r \in Procs \ {q} :
             Held(r)' \subseteq Held(r) \cup Referenced \cup {Asset(upload + 1)}
      BY <1>3
    <3> QED BY <2>2, <3>1, HandKept
  <2> QED BY <2>1, <2>2
<1> QED BY <1>2, <1>4, <1>5, <1>6 DEF AssetsInv

LEMMA NoHand ==
    ASSUME NEW p \in Procs, pc'[p] \notin Holding \cup Sweeping
    PROVE  HandOK(p)' /\ Held(p)' = {} /\ LooseOf(p)' = {}
BY DEF HandOK, Held, LooseOf, Holding, Sweeping, Committing

(* A step that deletes nothing and gains nothing, outside these requests.  *)
LEMMA RowsInv ==
    ASSUME AssetsInv,
           \A p \in Procs : \/ pc'[p] = pc[p] /\ loc'[p] = loc[p]
                            \/ {pc[p], pc'[p]} \cap (Holding \cup Sweeping) = {},
           badges' \in [Logos -> Badge \cup {None}],
           \A b \in Logos : badges'[b] # None => accounts'[badges'[b].owner] # None,
           RowsLose({}), leaks \subseteq leaks', leaks' \subseteq Known,
           Referenced \subseteq Referenced' \cup leaks',
           UNCHANGED <<store, upload, doubt>>
    PROVE  AssetsInv'
<1> DEFINE P == {p \in Procs : {pc[p], pc'[p]} \cap (Holding \cup Sweeping) = {}}
<1>1. \A p \in P : HandOK(p)' /\ Held(p)' = {} /\ LooseOf(p) = {}
  <2> SUFFICES ASSUME NEW p \in P PROVE HandOK(p)' /\ Held(p)' = {} /\ LooseOf(p) = {}
    OBVIOUS
  <2>1. LooseOf(p) = {}
    BY DEF LooseOf, Holding, Sweeping, Committing
  <2> QED BY <2>1, NoHand
<1>2. OneRow'
  BY DEF AssetsInv, OneRow, RowsLose
<1>3. Known' = Known /\ store \subseteq Known
  BY DEF Known, AssetsInv, AssetsType
<1>4. \A q \in Procs \ P : pc'[q] = pc[q] /\ loc'[q] = loc[q]
  OBVIOUS
<1> HIDE DEF P
<1>5. P \in SUBSET Procs
  BY DEF P
<1> DEFINE N == {}
           D == {}
<1>6. /\ N \subseteq store' /\ store \ D \subseteq store' /\ RowsLose(N)
      /\ \A q \in Procs \ P : N \cap Held(q) = {} /\ loc[q].new \notin D
      /\ \A u \in Ids : Photo(u) \notin D
      /\ \A b \in Logos : Logo(b) \notin D
  OBVIOUS
<1>7. \A p \in P : HandOK(p)' /\ Held(p)' \subseteq Held(p) \cup Referenced \cup {Asset(upload + 1)}
  BY <1>1
<1>8. \A a \in Referenced : a \in Referenced' \/ a \in leaks'
  OBVIOUS
<1> HIDE DEF N, D
<1> QED BY <1>1, <1>2, <1>3, <1>4, <1>5, <1>6, <1>7, <1>8, AssetsKept

(* One request moves; it may bring the row its new asset, and delete what  *)
(* it has in hand.                                                         *)
LEMMA OneMoves ==
    ASSUME AssetsInv, NEW p \in Procs, NEW N, NEW D,
           \A q \in Procs \ {p} : pc'[q] = pc[q] /\ loc'[q] = loc[q],
           N = {} \/ (pc[p] \in Committing /\ N = {loc[p].new}), D \subseteq Held(p),
           badges' \in [Logos -> Badge \cup {None}],
           \A b \in Logos : badges'[b] # None => accounts'[badges'[b].owner] # None,
           RowsLose(N), OneRow', N \subseteq store',
           upload' \in {upload, upload + 1},
           store \ D \subseteq store', store' \subseteq Known',
           leaks \subseteq leaks', leaks' \subseteq Known', doubt \subseteq doubt',
           \A u \in Ids : Photo(u) \notin D,
           \A b \in Logos : badges[b] # None /\ badges[b].live /\ Logo(b) \in D => Logo(b) \in doubt,
           store' \subseteq store \cup leaks' \cup LooseOf(p)',
           Referenced \subseteq Referenced' \cup leaks' \cup LooseOf(p)',
           LooseOf(p) \cap store' \subseteq Referenced' \cup leaks' \cup LooseOf(p)',
           HandOK(p)', Held(p)' \subseteq Held(p) \cup Referenced \cup {Asset(upload + 1)}
    PROVE  AssetsInv'
<1> DEFINE P == {p}
<1>1. ASSUME NEW q \in Procs \ P
      PROVE  N \cap Held(q) = {} /\ (pc[q] \in Committing => loc[q].new \notin D)
  <2>1. N = {loc[p].new} => FreshHand(p) \/ N = {}
    BY DEF AssetsInv, HandOK
  <2>2. N \cap Held(q) = {}
    BY <2>1 DEF FreshHand
  <2>3. ASSUME pc[q] \in Committing PROVE loc[q].new \notin D
    BY <2>3 DEF AssetsInv, HandOK, FreshHand
  <2> QED BY <2>2, <2>3
<1>2. /\ \A a \in store' : a \in store \/ a \in leaks' \/ \E r \in P : a \in LooseOf(r)'
      /\ \A a \in Referenced : a \in Referenced' \/ a \in leaks' \/ \E r \in P : a \in LooseOf(r)'
      /\ \A r \in P : \A a \in LooseOf(r) : a \in store' =>
            a \in Referenced' \/ a \in leaks' \/ \E t \in P : a \in LooseOf(t)'
  OBVIOUS
<1>3. \A r \in P : HandOK(r)' /\ Held(r)' \subseteq Held(r) \cup Referenced \cup {Asset(upload + 1)}
  OBVIOUS
<1>4. P \in SUBSET Procs /\ \A q \in Procs \ P : pc'[q] = pc[q] /\ loc'[q] = loc[q]
  OBVIOUS
<1> HIDE DEF P
<1> QED BY <1>1, <1>2, <1>3, <1>4, AssetsKept, ZenonT(30)

(* Nothing is lost where nothing changes. *)
LEMMA RowsStill ==
    ASSUME AssetsInv, UNCHANGED <<accounts, badges>>
    PROVE  /\ RowsLose({}) /\ OneRow' /\ Referenced' = Referenced
           /\ badges' \in [Logos -> Badge \cup {None}]
           /\ \A b \in Logos : badges'[b] # None => accounts'[badges'[b].owner] # None
           /\ \A u \in Ids : Photo(u)' = Photo(u)
           /\ \A b \in Logos : Logo(b)' = Logo(b)
<1>1. \A u \in Ids : Photo(u)' = Photo(u)
  BY DEF Photo, Exists
<1>2. \A b \in Logos : Logo(b)' = Logo(b)
  BY DEF Logo
<1>3. RowsLose({})
  BY <1>1, <1>2 DEF RowsLose
<1>4. Referenced' = Referenced
  BY <1>1, <1>2 DEF Referenced
<1>5. OneRow'
  BY <1>1, <1>2 DEF AssetsInv, OneRow
<1> QED BY <1>1, <1>2, <1>3, <1>4, <1>5 DEF AssetsInv, AssetsType, Exists

LEMMA StillInv ==
    ASSUME AssetsInv, NEW p \in Procs,
           \A q \in Procs \ {p} : pc'[q] = pc[q] /\ loc'[q] = loc[q],
           UNCHANGED <<accounts, badges, store, upload, leaks, doubt>>,
           HandOK(p)', Held(p)' \subseteq Held(p) \cup Referenced,
           LooseOf(p) \subseteq LooseOf(p)'
    PROVE  AssetsInv'
<1> DEFINE N == {}
           D == {}
<1>1. /\ RowsLose(N) /\ OneRow' /\ Referenced' = Referenced
      /\ badges' \in [Logos -> Badge \cup {None}]
      /\ \A b \in Logos : badges'[b] # None => accounts'[badges'[b].owner] # None
  BY RowsStill
<1>2. /\ N = {} /\ D \subseteq Held(p) /\ N \subseteq store' /\ store \ D \subseteq store'
      /\ \A u \in Ids : Photo(u) \notin D
      /\ \A b \in Logos : Logo(b) \notin D
  OBVIOUS
<1>3. store' \subseteq Known' /\ leaks' \subseteq Known'
  BY DEF AssetsInv, AssetsType, Known
<1>4. Held(p)' \subseteq Held(p) \cup Referenced \cup {Asset(upload + 1)}
  OBVIOUS
<1> HIDE DEF N, D
<1> QED BY <1>1, <1>2, <1>3, <1>4, OneMoves

(* What a row shows, no other row shows.                                   *)
LEMMA Showing ==
    ASSUME AssetsInv
    PROVE  /\ \A b \in Logos : Logo(b) # None =>
                 OnPhotos(Logo(b), {}) /\ OnLogos(Logo(b), {b}) /\ Logo(b) \in Known
           /\ \A u \in Ids : Photo(u) # None =>
                 OnPhotos(Photo(u), {u}) /\ OnLogos(Photo(u), {}) /\ Photo(u) \in Known
<1>1. \A u \in Ids, b \in Logos : Photo(u) = Logo(b) => Logo(b) = None /\ Photo(u) = None
  BY DEF AssetsInv, OneRow
<1> QED BY <1>1 DEF AssetsInv, OneRow, AssetsType, OnPhotos, OnLogos

LEMMA LoadInv ==
    ASSUME AssetsInv, DOMAIN pc = Procs, DOMAIN loc = Procs, NEW p \in Procs,
           \/ \E b \in Logos : LogoLoad(p, b) \/ BadgeLoad(p, b)
           \/ \E u \in Ids : PhotoLoad(p, u) \/ PhotoRemove(p, u) \/ AccountLoad(p, u)
    PROVE  AssetsInv'
<1>1. ASSUME NEW b \in Logos, LogoLoad(p, b) \/ BadgeLoad(p, b) PROVE AssetsInv'
  <2>1. PICK step \in {"logo_upload", "bury"} :
           /\ Moves(p, step, Hold(b, None, Logo(b))) /\ pc[p] = "idle"
           /\ UNCHANGED <<accounts, badges, store, upload, leaks, doubt>>
    BY <1>1, Moving DEF LogoLoad, BadgeLoad, accountVars, assetVars
  <2>2. Held(p)' = {Logo(b)} \ {None} /\ LooseOf(p) = {} /\ Logo(b)' = Logo(b)
    BY <2>1 DEF Held, LooseOf, Moves, Hold, Holding, Committing, Logo
  <2>3. HandOK(p)'
    <3>1. LogoHand(p)'
      BY <2>1, <2>2, Showing, RowsStill DEF LogoHand, Moves, Hold, OnPhotos, OnLogos
    <3>2. Held(p)' \subseteq Known'
      BY <2>1, <2>2, Showing DEF Known
    <3> QED BY <2>1, <3>1, <3>2 DEF HandOK, Moves, Committing
  <2>4. Held(p)' \subseteq Referenced
    BY <2>2 DEF Referenced
  <2> QED BY <2>1, <2>2, <2>3, <2>4, StillInv DEF Moves
<1>2. ASSUME NEW u \in Ids, PhotoLoad(p, u) \/ PhotoRemove(p, u) PROVE AssetsInv'
  <2>1. PICK step \in {"photo_upload", "photo_none"} :
           /\ Moves(p, step, Hold(u, None, Photo(u))) /\ pc[p] = "idle"
           /\ UNCHANGED <<accounts, badges, store, upload, leaks, doubt>>
    BY <1>2, Moving DEF PhotoLoad, PhotoRemove, accountVars, assetVars
  <2>2. Held(p)' = {Photo(u)} \ {None} /\ LooseOf(p) = {}
    BY <2>1 DEF Held, LooseOf, Moves, Hold, Holding, Committing
  <2>3. HandOK(p)'
    <3>1. PhotoHand(p)'
      BY <2>1, <2>2, Showing, RowsStill DEF PhotoHand, Moves, Hold, OnPhotos, OnLogos
    <3>2. Held(p)' \subseteq Known'
      BY <2>1, <2>2, Showing DEF Known
    <3> QED BY <2>1, <3>1, <3>2 DEF HandOK, Moves, Committing
  <2>4. Held(p)' \subseteq Referenced
    BY <2>2 DEF Referenced
  <2> QED BY <2>1, <2>2, <2>3, <2>4, StillInv DEF Moves
<1>3. ASSUME NEW u \in Ids, AccountLoad(p, u) PROVE AssetsInv'
  <2>1. /\ Moves(p, "logos", Swept(u, {Photo(u)} \ {None})) /\ pc[p] = "idle"
        /\ UNCHANGED <<accounts, badges, store, upload, leaks, doubt>>
    BY <1>3, Moving DEF AccountLoad, accountVars, assetVars
  <2>2. Held(p)' = {Photo(u)} \ {None} /\ LooseOf(p) = {}
    BY <2>1 DEF Held, LooseOf, Moves, Swept, Holding, Committing, Sweeping
  <2>3. HandOK(p)'
    <3>1. AccountHand(p)'
      BY <2>1, <2>2, Showing, RowsStill DEF AccountHand, Moves, Swept, OnPhotos, OnLogos
    <3>2. Held(p)' \subseteq Known'
      BY <2>1, <2>2, Showing DEF Known
    <3> QED BY <2>1, <3>1, <3>2 DEF HandOK, Moves, Committing
  <2>4. Held(p)' \subseteq Referenced
    BY <2>2 DEF Referenced
  <2> QED BY <2>1, <2>2, <2>3, <2>4, StillInv DEF Moves
<1> QED BY <1>1, <1>2, <1>3

LEMMA AccountLogosInv ==
    ASSUME AssetsInv, DOMAIN pc = Procs, DOMAIN loc = Procs, NEW p \in Procs, AccountLogos(p)
    PROVE  AssetsInv'
<1> DEFINE u == loc[p].user
           more == {Logo(b) : b \in Rows(u)} \ {None}
<1>1. /\ pc[p] = "logos" /\ Moves(p, "delete", Swept(u, loc[p].ids \cup more))
      /\ UNCHANGED <<accounts, badges, store, upload, leaks, doubt>>
  BY Moving DEF AccountLogos, accountVars, assetVars
<1>2. Held(p) = loc[p].ids /\ Held(p)' = loc[p].ids \cup more /\ LooseOf(p) = {}
  BY <1>1 DEF Held, LooseOf, Moves, Swept, Holding, Committing, Sweeping
<1>3. AccountHand(p) /\ Held(p) \subseteq Known
  BY <1>1 DEF AssetsInv, HandOK
<1>4. \A a \in more : OnPhotos(a, {u}) /\ OnLogos(a, Rows(u)) /\ a \in Known
  BY Showing DEF Rows, OnPhotos, OnLogos
<1>5. HandOK(p)'
  <2>1. \A a \in loc[p].ids \cup more : OnPhotos(a, {u}) /\ OnLogos(a, Rows(u))
    BY <1>3, <1>4 DEF AccountHand
  <2>2. \A v \in Ids : Rows(v)' = Rows(v)
    BY <1>1 DEF Rows
  <2>3. AccountHand(p)'
    BY <1>1, <1>3, <2>1, <2>2, RowsStill DEF AccountHand, Moves, Swept, OnPhotos, OnLogos
  <2>4. Held(p)' \subseteq Known'
    BY <1>1, <1>2, <1>3, <1>4 DEF Known
  <2> QED BY <1>1, <2>3, <2>4 DEF HandOK, Moves, Committing
<1>6. Held(p)' \subseteq Held(p) \cup Referenced
  BY <1>2 DEF Referenced, Rows
<1> QED BY <1>1, <1>2, <1>5, <1>6, StillInv DEF Moves

(* An upload's name is new: nobody can know of it.                         *)
LEMMA UploadInv ==
    ASSUME AssetsInv, DOMAIN pc = Procs, DOMAIN loc = Procs, NEW p \in Procs, Upload(p)
    PROVE  AssetsInv'
<1> DEFINE new == Asset(upload + 1)
           step == IF pc[p] = "logo_upload" THEN "logo_commit" ELSE "photo_commit"
           N == {}
           D == {}
<1>1. /\ pc[p] \in {"logo_upload", "photo_upload"} /\ upload' = upload + 1
      /\ store' = store \cup {new} /\ Moves(p, step, Hold(loc[p].row, new, loc[p].old))
      /\ UNCHANGED <<accounts, badges, leaks, doubt>>
  BY Moving DEF Upload, accountVars
<1>2. /\ upload \in Nat /\ Known \subseteq Known' /\ new \in Known' /\ new \notin Known
      /\ new # None
  <2>1. upload \in Nat /\ upload + 1 \in Nat
    BY DEF AssetsInv, AssetsType
  <2> QED BY <1>1, <2>1, KnownGrows, KnownType, AssetUrlType
<1> HIDE DEF new
<1>3. /\ RowsLose(N) /\ OneRow' /\ Referenced' = Referenced
      /\ badges' \in [Logos -> Badge \cup {None}]
      /\ \A b \in Logos : badges'[b] # None => accounts'[badges'[b].owner] # None
      /\ \A u \in Ids : Photo(u)' = Photo(u)
      /\ \A b \in Logos : Logo(b)' = Logo(b)
  BY <1>1, RowsStill
<1>4. Held(p) \subseteq Known
  BY DEF AssetsInv, HandOK
<1>5. /\ Held(p)' = {new, loc[p].old} \ {None} /\ LooseOf(p) = {} /\ LooseOf(p)' = {new}
      /\ loc[p].old # None => loc[p].old \in Held(p)
  BY <1>1 DEF Held, LooseOf, Moves, Hold, Holding, Committing, Sweeping
<1>6. HandOK(p)'
  <2>1. Held(p)' \subseteq Known'
    BY <1>2, <1>4, <1>5
  <2>2. FreshHand(p)'
    <3>1. new \notin Referenced'
      BY <1>2, <1>3 DEF AssetsInv, AssetsType, Referenced
    <3>2. \A q \in Procs \ {p} : Held(q)' = Held(q) /\ Held(q) \subseteq Known
      BY <1>1 DEF Moves, Held, AssetsInv, HandOK
    <3>3. new # loc[p].old
      BY <1>2, <1>4, <1>5
    <3>4. loc'[p].new = new /\ loc'[p].old = loc[p].old
      BY <1>1 DEF Moves, Hold
    <3> QED BY <1>1, <1>2, <3>1, <3>2, <3>3, <3>4 DEF FreshHand
  <2>3. CASE pc[p] = "logo_upload"
    <3>1. LogoHand(p)
      BY <2>3 DEF AssetsInv, HandOK
    <3>2. LogoHand(p)'
      BY <1>1, <1>3, <3>1 DEF LogoHand, OnPhotos, OnLogos, Moves, Hold
    <3> QED BY <1>1, <2>1, <2>2, <2>3, <3>2 DEF HandOK, Moves
  <2>4. CASE pc[p] = "photo_upload"
    <3>1. PhotoHand(p)
      BY <2>4 DEF AssetsInv, HandOK
    <3>2. PhotoHand(p)'
      BY <1>1, <1>3, <3>1 DEF PhotoHand, OnPhotos, OnLogos, Moves, Hold
    <3> QED BY <1>1, <2>1, <2>2, <2>4, <3>2 DEF HandOK, Moves
  <2> QED BY <1>1, <2>3, <2>4
<1>7. /\ N = {} /\ D \subseteq Held(p) /\ N \subseteq store' /\ store \ D \subseteq store'
      /\ \A u \in Ids : Photo(u) \notin D
      /\ \A b \in Logos : Logo(b) \notin D
  BY <1>1
<1>8. /\ store' \subseteq Known' /\ leaks' \subseteq Known' /\ leaks \subseteq leaks'
      /\ doubt \subseteq doubt'
  BY <1>1, <1>2 DEF AssetsInv, AssetsType
<1>9. /\ Held(p)' \subseteq Held(p) \cup Referenced \cup {Asset(upload + 1)}
      /\ store' \subseteq store \cup LooseOf(p)'
  BY <1>1, <1>5 DEF new
<1>10. \A q \in Procs \ {p} : pc'[q] = pc[q] /\ loc'[q] = loc[q]
  BY <1>1 DEF Moves
<1> HIDE DEF N, D
<1> QED BY <1>1, <1>3, <1>5, <1>6, <1>7, <1>8, <1>9, <1>10, OneMoves

(* A request that ends, having leaked what it cannot delete any more.      *)
LEMMA EndInv ==
    ASSUME AssetsInv, DOMAIN pc = Procs, DOMAIN loc = Procs, NEW p \in Procs, Finish(p),
           UNCHANGED <<accounts, badges, doubt>>, NEW D, D \subseteq Held(p),
           upload' \in {upload, upload + 1},
           store \ D \subseteq store', store' \subseteq Known', store' \subseteq store \cup leaks',
           leaks \subseteq leaks', leaks' \subseteq Known',
           LooseOf(p) \cap store' \subseteq leaks',
           \A u \in Ids : Photo(u) \notin D,
           \A b \in Logos : badges[b] # None /\ badges[b].live /\ Logo(b) \in D => Logo(b) \in doubt
    PROVE  AssetsInv'
<1> DEFINE N == {}
<1>1. Moves(p, "idle", None)
  BY Moving
<1>2. HandOK(p)' /\ Held(p)' = {} /\ LooseOf(p)' = {}
  BY <1>1, NoHand DEF Moves, Holding, Sweeping
<1>3. /\ RowsLose(N) /\ OneRow' /\ Referenced' = Referenced
      /\ badges' \in [Logos -> Badge \cup {None}]
      /\ \A b \in Logos : badges'[b] # None => accounts'[badges'[b].owner] # None
  BY RowsStill
<1>4. N = {} /\ N \subseteq store' /\ doubt \subseteq doubt'
  OBVIOUS
<1>5. \A q \in Procs \ {p} : pc'[q] = pc[q] /\ loc'[q] = loc[q]
  BY <1>1 DEF Moves
<1>6. /\ Held(p)' \subseteq Held(p) \cup Referenced \cup {Asset(upload + 1)}
      /\ store' \subseteq store \cup leaks' \cup LooseOf(p)'
      /\ Referenced \subseteq Referenced' \cup leaks' \cup LooseOf(p)'
      /\ LooseOf(p) \cap store' \subseteq Referenced' \cup leaks' \cup LooseOf(p)'
  BY <1>2, <1>3
<1> HIDE DEF N
<1> QED BY <1>2, <1>3, <1>4, <1>5, <1>6, OneMoves

LEMMA UploadFailsInv ==
    ASSUME AssetsInv, DOMAIN pc = Procs, DOMAIN loc = Procs, NEW p \in Procs, UploadFails(p)
    PROVE  AssetsInv'
<1> DEFINE D == {}
<1>1. /\ pc[p] \in {"logo_upload", "photo_upload"} /\ upload' = upload + 1
      /\ store' \in {store, store \cup {Asset(upload + 1)}}
      /\ leaks' = leaks \cup (store' \ store) /\ Finish(p)
      /\ UNCHANGED <<accounts, badges, doubt>>
  BY DEF UploadFails, accountVars
<1>2. store \subseteq Known /\ leaks \subseteq Known /\ upload \in Nat
  BY DEF AssetsInv, AssetsType
<1>3. Known \subseteq Known' /\ Asset(upload + 1) \in Known'
  BY <1>1, <1>2, KnownGrows
<1>4. LooseOf(p) = {}
  BY <1>1 DEF LooseOf, Committing
<1>5. /\ D \subseteq Held(p) /\ store \ D \subseteq store'
      /\ \A u \in Ids : Photo(u) \notin D
      /\ \A b \in Logos : Logo(b) \notin D
  BY <1>1
<1>6. /\ store' \subseteq Known' /\ store' \subseteq store \cup leaks'
      /\ leaks \subseteq leaks' /\ leaks' \subseteq Known'
      /\ LooseOf(p) \cap store' \subseteq leaks'
  BY <1>1, <1>2, <1>3, <1>4
<1> HIDE DEF D
<1> QED BY <1>1, <1>5, <1>6, EndInv

(* Clean, Drop and Sweep delete only what no page shows.                   *)
LEMMA DeletionsInv ==
    ASSUME AssetsInv, DOMAIN pc = Procs, DOMAIN loc = Procs, NEW p \in Procs,
           Clean(p) \/ Drop(p) \/ Sweep(p)
    PROVE  AssetsInv'
<1>1. PICK D : /\ D \subseteq LooseOf(p) /\ pc[p] \in {"clean", "drop", "sweep"} /\ Finish(p)
               /\ store' = store \ D /\ leaks' = leaks \cup (LooseOf(p) \ D)
               /\ UNCHANGED <<accounts, badges, upload, doubt>>
  <2>1. CASE Clean(p) \/ Drop(p)
    BY <2>1 DEF Clean, Drop, Replaced, LooseOf, Committing, accountVars
  <2>2. CASE Sweep(p)
    <3>1. PICK failed \in SUBSET loc[p].ids :
             store' = store \ (loc[p].ids \ failed) /\ leaks' = leaks \cup failed
      BY <2>2 DEF Sweep
    <3>2. LooseOf(p) = loc[p].ids /\ pc[p] = "sweep"
      BY <2>2 DEF Sweep, LooseOf, Committing
    <3>3. failed = loc[p].ids \ (loc[p].ids \ failed)
      BY <3>1
    <3> QED BY <2>2, <3>1, <3>2, <3>3 DEF Sweep, accountVars
  <2> QED BY <2>1, <2>2
<1>2. HandOK(p)
  BY DEF AssetsInv
<1>3. LooseOf(p) \subseteq Held(p) /\ Held(p) \subseteq Known
  BY <1>1, <1>2 DEF LooseOf, Held, HandOK, DropHand, CleanHand, Holding, Committing, Sweeping
<1>4. \A u \in Ids : Photo(u) \notin LooseOf(p)
  BY <1>1, <1>2 DEF HandOK, DropHand, CleanHand, SweepHand, OnPhotos, LooseOf, Committing
<1>5. ASSUME NEW b \in Logos, badges[b] # None, badges[b].live, Logo(b) \in LooseOf(p)
      PROVE  Logo(b) \in doubt
  BY <1>1, <1>2, <1>5 DEF HandOK, DropHand, CleanHand, SweepHand, OnLogos, LooseOf, Committing
<1>6. store \subseteq Known /\ leaks \subseteq Known /\ Known' = Known
  BY <1>1 DEF AssetsInv, AssetsType, Known
<1> QED BY <1>1, <1>3, <1>4, <1>5, <1>6, EndInv

LEMMA AssetsFailInv ==
    ASSUME AssetsInv, DOMAIN pc = Procs, DOMAIN loc = Procs, NEW p \in Procs, AssetsFail(p)
    PROVE  AssetsInv'
<1> DEFINE D == {}
<1>1. /\ leaks' = leaks \cup Carried(p) /\ Finish(p)
      /\ UNCHANGED <<accounts, badges, store, upload, doubt>>
  BY DEF AssetsFail, accountVars
<1>2. HandOK(p)
  BY DEF AssetsInv
<1>3. Carried(p) \subseteq Held(p) /\ Held(p) \subseteq Known
  BY <1>2 DEF Carried, Held, HandOK, Holding, Sweeping
<1>4. store \subseteq Known /\ leaks \subseteq Known /\ Known' = Known
  BY <1>1 DEF AssetsInv, AssetsType, Known
<1>5. LooseOf(p) \cap store \subseteq Carried(p)
  <2>1. None \notin store
    BY <1>4, KnownType DEF AssetsInv, AssetsType
  <2> QED BY <2>1 DEF LooseOf, Carried, Committing
<1>6. /\ D \subseteq Held(p) /\ store \ D \subseteq store'
      /\ \A u \in Ids : Photo(u) \notin D
      /\ \A b \in Logos : Logo(b) \notin D
  BY <1>1
<1>7. /\ store' \subseteq Known' /\ store' \subseteq store \cup leaks'
      /\ leaks \subseteq leaks' /\ leaks' \subseteq Known'
      /\ LooseOf(p) \cap store' \subseteq leaks' /\ upload' = upload
  BY <1>1, <1>3, <1>4, <1>5
<1> HIDE DEF D
<1> QED BY <1>1, <1>6, <1>7, EndInv

(* What follows a commit: the old asset, if there is one, is next.         *)
LEMMA Dropping ==
    ASSUME DOMAIN pc = Procs, DOMAIN loc = Procs, NEW p \in Procs, pc[p] \in Holding, DropOld(p)
    PROVE  /\ \A q \in Procs \ {p} : pc'[q] = pc[q] /\ loc'[q] = loc[q]
           /\ LooseOf(p)' = {loc[p].old} \ {None} /\ Held(p)' \subseteq Held(p)
           /\ pc'[p] \in {"idle", "drop"} /\ (pc'[p] = "drop" => loc'[p] = loc[p])
           /\ pc'[p] = "drop" <=> loc[p].old # None
<1>1. CASE loc[p].old = None
  <2>1. Moves(p, "idle", None)
    BY <1>1, Moving DEF DropOld
  <2> QED BY <1>1, <2>1, NoHand DEF Moves, Holding, Sweeping
<1>2. CASE loc[p].old # None
  <2>1. Moves(p, "drop", loc[p])
    BY <1>2, Moving DEF DropOld
  <2> QED BY <1>2, <2>1 DEF Moves, LooseOf, Held, Holding, Committing
<1> QED BY <1>1, <1>2

(* A logo's commit: one row shows the new asset, and no longer its last.   *)
LEMMA LogoRow ==
    ASSUME AssetsInv, NEW p \in Procs, pc[p] = "logo_commit",
           NEW b, b = loc[p].row, NEW new, new = loc[p].new,
           badges[b] # None, badges' = LogoSet(b, loc[p]), UNCHANGED accounts
    PROVE  /\ b \in Logos /\ new \in Known \cap store /\ new # None
           /\ badges' \in [Logos -> Badge \cup {None}]
           /\ \A c \in Logos : badges'[c] # None => accounts'[badges'[c].owner] # None
           /\ Logo(b)' = new /\ \A c \in Logos \ {b} : Logo(c)' = Logo(c)
           /\ \A u \in Ids : Photo(u)' = Photo(u)
           /\ RowsLose({new}) /\ OneRow'
           /\ Referenced \subseteq Referenced' \cup {Logo(b)} /\ new \in Referenced'
           /\ Logo(b) \in Known \cup {None}
<1>1. HandOK(p) /\ FreshHand(p) /\ LogoHand(p) /\ new \in store /\ new \in Known
  BY DEF AssetsInv, AssetsType, HandOK, FreshHand, Committing
<1>2. b \in Logos /\ new \in PublicIds /\ new # None
  BY <1>1, KnownType DEF AssetsInv, AssetsType, LogoHand
<1>3. /\ badges' \in [Logos -> Badge \cup {None}]
      /\ badges'[b].logo = new /\ badges'[b] # None
      /\ badges'[b].owner = badges[b].owner /\ badges'[b].live = badges[b].live
      /\ \A c \in Logos \ {b} : badges'[c] = badges[c]
  <2>1. badges[b] \in Badge /\ badges'[b] = [badges[b] EXCEPT !.logo = new]
    BY <1>2 DEF AssetsInv, AssetsType, LogoSet
  <2>2. badges'[b] \in Badge
    BY <1>2, <2>1 DEF Badge
  <2> QED BY <1>2, <2>1, <2>2, AssetsAssumption DEF AssetsInv, AssetsType, Badge, LogoSet
<1>4. Logo(b)' = new /\ \A c \in Logos \ {b} : Logo(c)' = Logo(c)
  BY <1>3 DEF Logo
<1>5. \A u \in Ids : Photo(u)' = Photo(u)
  BY DEF Photo, Exists
<1>6. /\ \A u \in Ids : Photo(u) # new
      /\ \A c \in Logos : Logo(c) # new
  BY <1>1, <1>2 DEF FreshHand, Referenced
<1>7. RowsLose({new})
  BY <1>2, <1>3, <1>4, <1>5 DEF RowsLose
<1>8. OneRow'
  BY <1>4, <1>5, <1>6 DEF AssetsInv, OneRow
<1>9. \A c \in Logos : badges'[c] # None => accounts'[badges'[c].owner] # None
  BY <1>2, <1>3 DEF AssetsInv, AssetsType, Exists
<1>10. Referenced \subseteq Referenced' \cup {Logo(b)} /\ new \in Referenced'
  <2>1. \A u \in Ids : Photo(u) # None => Photo(u) \in Referenced'
    BY <1>5 DEF Referenced
  <2>2. \A c \in Logos \ {b} : Logo(c) # None => Logo(c) \in Referenced'
    BY <1>4 DEF Referenced
  <2>3. new \in Referenced'
    BY <1>2, <1>4 DEF Referenced
  <2> QED BY <2>1, <2>2, <2>3 DEF Referenced
<1> QED BY <1>1, <1>2, <1>3, <1>4, <1>5, <1>7, <1>8, <1>9, <1>10 DEF AssetsInv, AssetsType

LEMMA LogoCommitInv ==
    ASSUME AssetsInv, DOMAIN pc = Procs, DOMAIN loc = Procs, NEW p \in Procs, LogoCommit(p)
    PROVE  AssetsInv'
<1>1. PICK b, new, old : b = loc[p].row /\ new = loc[p].new /\ old = loc[p].old
  OBVIOUS
<1> DEFINE N == {new}
           D == {}
<1>2. /\ pc[p] = "logo_commit" /\ badges[b] # None /\ badges' = LogoSet(b, loc[p])
      /\ leaks' = leaks \cup ({Logo(b)} \ {None, old}) /\ DropOld(p)
      /\ UNCHANGED <<accounts, store, upload, doubt>>
  BY <1>1 DEF LogoCommit, accountVars
<1>3. /\ b \in Logos /\ new \in Known \cap store /\ new # None
      /\ badges' \in [Logos -> Badge \cup {None}]
      /\ \A c \in Logos : badges'[c] # None => accounts'[badges'[c].owner] # None
      /\ Logo(b)' = new /\ \A c \in Logos \ {b} : Logo(c)' = Logo(c)
      /\ \A u \in Ids : Photo(u)' = Photo(u)
      /\ RowsLose(N) /\ OneRow'
      /\ Referenced \subseteq Referenced' \cup {Logo(b)} /\ new \in Referenced'
      /\ Logo(b) \in Known \cup {None}
  BY <1>1, <1>2, LogoRow
<1>4. /\ FreshHand(p) /\ LogoHand(p) /\ new # old
      /\ Held(p) = {new, old} \ {None} /\ LooseOf(p) = {new} /\ Held(p) \subseteq Known
  BY <1>1, <1>2 DEF AssetsInv, HandOK, FreshHand, Committing, LooseOf, Held, Holding
<1>5. /\ \A q \in Procs \ {p} : pc'[q] = pc[q] /\ loc'[q] = loc[q]
      /\ LooseOf(p)' = {old} \ {None} /\ Held(p)' \subseteq Held(p)
      /\ pc'[p] \in {"idle", "drop"} /\ (pc'[p] = "drop" => loc'[p] = loc[p])
      /\ pc'[p] = "drop" <=> old # None
  BY <1>1, <1>2, Dropping DEF Holding
<1>6. HandOK(p)'
  <2>1. CASE old = None
    BY <2>1, <1>5, NoHand DEF Holding, Sweeping
  <2>2. CASE old # None
    <3>1. pc'[p] = "drop" /\ loc'[p].old = old
      BY <2>2, <1>1, <1>5
    <3>2. OnPhotos(old, {}) /\ OnLogos(old, {b})
      BY <1>1, <1>4, <2>2 DEF LogoHand
    <3>3. /\ \A u \in Ids : Photo(u)' # old
          /\ \A c \in Logos : Logo(c)' # old
      BY <1>3, <1>4, <3>2 DEF OnPhotos, OnLogos
    <3>4. DropHand(p)'
      BY <2>2, <3>1, <3>3 DEF DropHand, OnPhotos
    <3>5. Held(p)' \subseteq Known'
      BY <1>2, <1>4, <1>5 DEF Known
    <3> QED BY <3>1, <3>4, <3>5 DEF HandOK, Committing
  <2> QED BY <2>1, <2>2
<1>7. /\ store' \subseteq Known' /\ leaks' \subseteq Known' /\ leaks \subseteq leaks'
      /\ store' = store /\ upload' = upload /\ doubt' = doubt
  BY <1>2, <1>3 DEF AssetsInv, AssetsType, Known
<1>8. Referenced \subseteq Referenced' \cup leaks' \cup LooseOf(p)'
  <2>1. Logo(b) # None => Logo(b) \in leaks' \cup LooseOf(p)'
    BY <1>2, <1>5
  <2> QED BY <1>3, <2>1 DEF Referenced
<1>9. LooseOf(p) \subseteq Referenced'
  BY <1>3, <1>4
<1>10. /\ N = {loc[p].new} /\ pc[p] \in Committing /\ D \subseteq Held(p)
       /\ N \subseteq store' /\ store \ D \subseteq store'
       /\ \A u \in Ids : Photo(u) \notin D
       /\ \A c \in Logos : Logo(c) \notin D
  BY <1>1, <1>2, <1>3 DEF Committing
<1> HIDE DEF N, D
<1> QED BY <1>3, <1>5, <1>6, <1>7, <1>8, <1>9, <1>10, OneMoves

(* A commit taken for a failure: the asset is about to be deleted, shown   *)
(* or not.                                                                 *)
LEMMA LogoCommitFailsInv ==
    ASSUME AssetsInv, DOMAIN pc = Procs, DOMAIN loc = Procs, NEW p \in Procs, LogoCommitFails(p)
    PROVE  AssetsInv'
<1>1. PICK b, new, old : b = loc[p].row /\ new = loc[p].new /\ old = loc[p].old
  OBVIOUS
<1>2. /\ pc[p] = "logo_commit" /\ Moves(p, "clean", loc[p])
      /\ UNCHANGED <<accounts, store, upload>>
  BY Moving DEF LogoCommitFails, accountVars
<1>3. /\ FreshHand(p) /\ LogoHand(p) /\ new \in Known /\ new \in store \ Referenced
      /\ Held(p) = {new, old} \ {None} /\ LooseOf(p) = {new} /\ Held(p) \subseteq Known
  BY <1>1, <1>2 DEF AssetsInv, AssetsType, HandOK, FreshHand, Committing, LooseOf, Held, Holding
<1>4. /\ Held(p)' = Held(p) /\ LooseOf(p)' = {new} /\ pc'[p] = "clean" /\ loc'[p].new = new
      /\ \A q \in Procs \ {p} : pc'[q] = pc[q] /\ loc'[q] = loc[q]
  BY <1>1, <1>2 DEF Moves, Held, LooseOf, Holding, Committing
<1>5. new # None /\ Held(p)' \subseteq Known'
  BY <1>2, <1>3, <1>4, KnownType DEF Known, AssetsInv, AssetsType
<1>6. \A u \in Ids : Photo(u)' = Photo(u) /\ Photo(u) # new
  BY <1>2, <1>3, <1>5 DEF Photo, Exists, Referenced
<1>7. CASE UNCHANGED <<badges, leaks, doubt>>
  <2>1. \A c \in Logos : Logo(c)' # new
    BY <1>3, <1>5, <1>7 DEF Logo, Referenced
  <2>2. CleanHand(p)'
    BY <1>4, <1>5, <1>6, <2>1 DEF CleanHand, OnPhotos, OnLogos
  <2>3. HandOK(p)'
    BY <1>4, <1>5, <2>2 DEF HandOK, Committing
  <2> QED BY <1>2, <1>3, <1>4, <1>7, <2>3, StillInv
<1>8. CASE /\ badges[b] # None /\ badges' = LogoSet(b, loc[p])
           /\ leaks' = leaks \cup ({Logo(b)} \ {None})
           /\ doubt' = doubt \cup {new}
  <2> DEFINE N == {new}
             D == {}
  <2>1. /\ new \in Known \cap store
        /\ badges' \in [Logos -> Badge \cup {None}]
        /\ \A c \in Logos : badges'[c] # None => accounts'[badges'[c].owner] # None
        /\ RowsLose(N) /\ OneRow'
        /\ Referenced \subseteq Referenced' \cup {Logo(b)} /\ new \in Referenced'
        /\ Logo(b) \in Known \cup {None}
    BY <1>1, <1>2, <1>8, LogoRow
  <2>2. CleanHand(p)'
    BY <1>4, <1>5, <1>6, <1>8 DEF CleanHand, OnPhotos
  <2>3. HandOK(p)'
    BY <1>4, <1>5, <2>2 DEF HandOK, Committing
  <2>4. /\ store' \subseteq Known' /\ leaks' \subseteq Known' /\ leaks \subseteq leaks'
        /\ store' = store /\ upload' = upload /\ doubt \subseteq doubt'
    BY <1>2, <1>8, <2>1 DEF AssetsInv, AssetsType, Known
  <2>5. Referenced \subseteq Referenced' \cup leaks'
    BY <1>8, <2>1 DEF Referenced
  <2>6. /\ N = {loc[p].new} /\ pc[p] \in Committing /\ D \subseteq Held(p)
        /\ N \subseteq store' /\ store \ D \subseteq store'
        /\ \A u \in Ids : Photo(u) \notin D
        /\ \A c \in Logos : Logo(c) \notin D
    BY <1>1, <1>2, <2>1 DEF Committing
  <2>7. LooseOf(p) \subseteq LooseOf(p)' /\ store' \subseteq store
        /\ Held(p)' \subseteq Held(p)
    BY <1>2, <1>3, <1>4
  <2> HIDE DEF N, D
  <2> QED BY <1>4, <2>1, <2>3, <2>4, <2>5, <2>6, <2>7, OneMoves
<1> QED BY <1>1, <1>7, <1>8 DEF LogoCommitFails

(* A photo's commit: one account shows the asset a, or nothing.            *)
LEMMA PhotoRow ==
    ASSUME AssetsInv, accounts \in [Ids -> Account \cup {None}],
           NEW u \in Ids, Exists(u), NEW url \in Urls \cup {None},
           accounts' = [accounts EXCEPT ![u].photo = url], UNCHANGED badges
    PROVE  /\ accounts' \in [Ids -> Account \cup {None}]
           /\ \A v \in Ids :
                 /\ accounts'[v] # None <=> accounts[v] # None
                 /\ accounts[v] # None => /\ accounts'[v].email = accounts[v].email
                                          /\ accounts'[v].password = accounts[v].password
                                          /\ accounts'[v].verified = accounts[v].verified
           /\ badges' \in [Logos -> Badge \cup {None}]
           /\ \A c \in Logos : badges'[c] # None => accounts'[badges'[c].owner] # None
           /\ Photo(u)' = IF url = None THEN None ELSE PublicId(url)
           /\ \A v \in Ids \ {u} : Photo(v)' = Photo(v)
           /\ \A c \in Logos : Logo(c)' = Logo(c)
           /\ Referenced \subseteq Referenced' \cup {Photo(u)}
<1>1. /\ accounts[u] \in Account /\ accounts'[u] = [accounts[u] EXCEPT !.photo = url]
      /\ \A v \in Ids \ {u} : accounts'[v] = accounts[v]
  BY DEF Exists
<1>2. /\ accounts'[u] \in Account /\ accounts'[u].photo = url
      /\ accounts'[u].email = accounts[u].email /\ accounts'[u].password = accounts[u].password
      /\ accounts'[u].verified = accounts[u].verified
  BY <1>1 DEF Account
<1>3. accounts' \in [Ids -> Account \cup {None}]
  BY <1>1, <1>2
<1>4. accounts'[u] # None /\ accounts[u] # None
  BY <1>1, <1>2, AccountsAssumption DEF Exists
<1>5. /\ Photo(u)' = IF url = None THEN None ELSE PublicId(url)
      /\ \A v \in Ids \ {u} : Photo(v)' = Photo(v)
  BY <1>1, <1>2, <1>4 DEF Photo, Exists
<1>6. \A c \in Logos : Logo(c)' = Logo(c)
  BY DEF Logo
<1>7. /\ badges' \in [Logos -> Badge \cup {None}]
      /\ \A c \in Logos : badges'[c] # None => accounts'[badges'[c].owner] # None
  BY <1>1, <1>4 DEF AssetsInv, AssetsType, Exists
<1>8. Referenced \subseteq Referenced' \cup {Photo(u)}
  <2>1. \A v \in Ids \ {u} : Photo(v) # None => Photo(v) \in Referenced'
    BY <1>5 DEF Referenced
  <2>2. \A c \in Logos : Logo(c) # None => Logo(c) \in Referenced'
    BY <1>6 DEF Referenced
  <2> QED BY <2>1, <2>2 DEF Referenced
<1> QED BY <1>1, <1>2, <1>3, <1>4, <1>5, <1>6, <1>7, <1>8

(* Whether the photo is set or removed.                                    *)
LEMMA PhotoInv ==
    ASSUME AccountsInv, AssetsInv, NEW p \in Procs, PhotoCommit(p) \/ PhotoNone(p)
    PROVE  AccountsInv' /\ AssetsInv'
<1>1. PICK u, new, old : u = loc[p].row /\ new = loc[p].new /\ old = loc[p].old
  OBVIOUS
<1>2. HandOK(p) /\ pc[p] \in {"photo_commit", "photo_none"} /\ DOMAIN pc = Procs /\ DOMAIN loc = Procs
  BY DEF PhotoCommit, PhotoNone, AssetsInv, AccountsInv, AccountsType
<1>3. PICK url, a, N :
         /\ PhotoWrite(p, url) /\ url \in Urls \cup {None}
         /\ a = IF url = None THEN None ELSE PublicId(url)
         /\ \/ pc[p] = "photo_commit" /\ a = new /\ N = {new} /\ FreshHand(p)
            \/ pc[p] = "photo_none" /\ a = None /\ N = {}
  <2>1. CASE PhotoCommit(p)
    <3>1. FreshHand(p) /\ pc[p] = "photo_commit" /\ new \in Known
      BY <1>1, <1>2, <2>1 DEF PhotoCommit, HandOK, Committing, FreshHand, AssetsInv, AssetsType
    <3>2. /\ AssetUrl(new.file) \in Urls /\ AssetUrl(new.file) # None
          /\ PublicId(AssetUrl(new.file)) = new
      BY <3>1, KnownType DEF AssetsInv, AssetsType
    <3> QED BY <1>1, <2>1, <3>1, <3>2 DEF PhotoCommit
  <2>2. CASE PhotoNone(p)
    BY <2>2 DEF PhotoNone
  <2> QED BY <2>1, <2>2
<1>4. /\ PhotoHand(p) /\ u \in Ids /\ Held(p) = {new, old} \ {None} /\ Held(p) \subseteq Known
      /\ LooseOf(p) = N /\ (N # {} => new \in store /\ new # old)
  BY <1>1, <1>2, <1>3 DEF HandOK, PhotoHand, FreshHand, Held, LooseOf, Holding, Committing
<1>5. /\ Exists(u) /\ accounts' = [accounts EXCEPT ![u].photo = url] /\ UNCHANGED badges
      /\ leaks' = leaks \cup ({Photo(u)} \ {None, old}) /\ DropOld(p)
      /\ UNCHANGED <<links, states, minted, born, store, upload, doubt>>
  BY <1>1, <1>3 DEF PhotoWrite
<1>6. /\ accounts' \in [Ids -> Account \cup {None}]
      /\ \A v \in Ids :
            /\ accounts'[v] # None <=> accounts[v] # None
            /\ accounts[v] # None => /\ accounts'[v].email = accounts[v].email
                                     /\ accounts'[v].password = accounts[v].password
                                     /\ accounts'[v].verified = accounts[v].verified
      /\ badges' \in [Logos -> Badge \cup {None}]
      /\ \A c \in Logos : badges'[c] # None => accounts'[badges'[c].owner] # None
      /\ Photo(u)' = a /\ \A v \in Ids \ {u} : Photo(v)' = Photo(v)
      /\ \A c \in Logos : Logo(c)' = Logo(c)
      /\ Referenced \subseteq Referenced' \cup {Photo(u)}
  <2>1. /\ AssetsInv /\ accounts \in [Ids -> Account \cup {None}] /\ u \in Ids /\ Exists(u)
        /\ url \in Urls \cup {None}
        /\ accounts' = [accounts EXCEPT ![u].photo = url] /\ UNCHANGED badges
    BY <1>3, <1>4, <1>5 DEF AccountsInv, AccountsType
  <2> QED BY <2>1, <1>3, PhotoRow
<1>7. /\ \A q \in Procs \ {p} : pc'[q] = pc[q] /\ loc'[q] = loc[q]
      /\ LooseOf(p)' = {old} \ {None} /\ Held(p)' \subseteq Held(p)
      /\ pc'[p] \in {"idle", "drop"} /\ (pc'[p] = "drop" => loc'[p] = loc[p])
      /\ pc'[p] = "drop" <=> old # None
  BY <1>1, <1>2, <1>5, Dropping DEF Holding
<1>8. AccountsInv'
  <2>1. \A q \in Procs : pc'[q] \in Serving => pc'[q] = pc[q] /\ loc'[q] = loc[q]
    BY <1>7 DEF Serving
  <2>2. DOMAIN pc' = Procs /\ DOMAIN loc' = Procs
    BY <1>2, <1>5 DEF DropOld, Goto, Finish
  <2> QED BY <1>5, <1>6, <2>1, <2>2, ElsewhereInv DEF Exists
<1>9. RowsLose(N)
  BY <1>3, <1>5, <1>6 DEF RowsLose
<1>10. OneRow'
  <2>1. CASE a = None
    BY <2>1, <1>6 DEF AssetsInv, OneRow
  <2>2. CASE a # None
    <3>1. /\ \A v \in Ids : Photo(v) # a
          /\ \A c \in Logos : Logo(c) # a
      BY <1>1, <1>3, <2>2 DEF FreshHand, Referenced
    <3> QED BY <1>6, <3>1 DEF AssetsInv, OneRow
  <2> QED BY <2>1, <2>2
<1>11. HandOK(p)'
  <2>1. CASE old = None
    BY <2>1, <1>7, NoHand DEF Holding, Sweeping
  <2>2. CASE old # None
    <3>1. pc'[p] = "drop" /\ loc'[p].old = old
      BY <2>2, <1>1, <1>7
    <3>2. OnPhotos(old, {u}) /\ OnLogos(old, {})
      BY <1>1, <1>4, <2>2 DEF PhotoHand
    <3>3. a # old
      BY <1>3, <1>4, <2>2
    <3>4. /\ \A v \in Ids : Photo(v)' # old
          /\ \A c \in Logos : Logo(c)' # old
      BY <1>6, <3>2, <3>3 DEF OnPhotos, OnLogos
    <3>5. DropHand(p)'
      BY <2>2, <3>1, <3>4 DEF DropHand, OnPhotos
    <3>6. Held(p)' \subseteq Known'
      BY <1>4, <1>5, <1>7 DEF Known
    <3> QED BY <3>1, <3>5, <3>6 DEF HandOK, Committing
  <2> QED BY <2>1, <2>2
<1>12. /\ store' \subseteq Known' /\ leaks' \subseteq Known' /\ leaks \subseteq leaks'
       /\ store' = store /\ upload' = upload /\ doubt' = doubt
  BY <1>4, <1>5 DEF AssetsInv, AssetsType, Known
<1>13. Referenced \subseteq Referenced' \cup leaks' \cup LooseOf(p)'
  <2>1. Photo(u) # None => Photo(u) \in leaks' \cup LooseOf(p)'
    BY <1>5, <1>7
  <2> QED BY <1>6, <2>1 DEF Referenced
<1>14. LooseOf(p) \cap store' \subseteq Referenced'
  <2>1. N # {} => Photo(u)' = new /\ new # None
    BY <1>3, <1>4, <1>6, KnownType DEF AssetsInv, AssetsType
  <2> QED BY <1>3, <1>4, <2>1 DEF Referenced
<1> DEFINE D == {}
<1>15. /\ N = {} \/ (pc[p] \in Committing /\ N = {loc[p].new})
       /\ D \subseteq Held(p) /\ N \subseteq store' /\ store \ D \subseteq store'
       /\ \A v \in Ids : Photo(v) \notin D
       /\ \A c \in Logos : Logo(c) \notin D
  BY <1>1, <1>3, <1>4, <1>5 DEF Committing
<1> HIDE DEF D
<1>16. AssetsInv'
  BY <1>6, <1>7, <1>9, <1>10, <1>11, <1>12, <1>13, <1>14, <1>15, OneMoves
<1> QED BY <1>8, <1>16

(* A deleted badge keeps its logo's id, but is shown no more.              *)
LEMMA BadgeBuryInv ==
    ASSUME AssetsInv, DOMAIN pc = Procs, DOMAIN loc = Procs, NEW p \in Procs, BadgeBury(p)
    PROVE  AssetsInv'
<1>1. PICK b, old : b = loc[p].row /\ old = loc[p].old
  OBVIOUS
<1> DEFINE N == {}
           D == {}
<1>2. /\ pc[p] = "bury" /\ badges[b] # None /\ badges' = [badges EXCEPT ![b].live = FALSE]
      /\ DropOld(p) /\ UNCHANGED <<accounts, store, upload, leaks, doubt>>
  BY <1>1 DEF BadgeBury, accountVars
<1>3. /\ LogoHand(p) /\ b \in Logos /\ Held(p) \subseteq Known /\ LooseOf(p) = {}
  BY <1>1, <1>2 DEF AssetsInv, HandOK, LogoHand, LooseOf, Committing
<1>4. /\ \A q \in Procs \ {p} : pc'[q] = pc[q] /\ loc'[q] = loc[q]
      /\ LooseOf(p)' = {old} \ {None} /\ Held(p)' \subseteq Held(p)
      /\ pc'[p] \in {"idle", "drop"} /\ (pc'[p] = "drop" => loc'[p] = loc[p])
      /\ pc'[p] = "drop" <=> old # None
  BY <1>1, <1>2, Dropping DEF Holding
<1>5. /\ badges' \in [Logos -> Badge \cup {None}]
      /\ badges'[b] # None /\ badges'[b].logo = badges[b].logo
      /\ badges'[b].owner = badges[b].owner /\ badges'[b].live = FALSE
      /\ \A c \in Logos \ {b} : badges'[c] = badges[c]
  <2>1. badges[b] \in Badge /\ badges'[b] = [badges[b] EXCEPT !.live = FALSE]
    BY <1>2, <1>3 DEF AssetsInv, AssetsType
  <2>2. badges'[b] \in Badge
    BY <2>1 DEF Badge
  <2> QED BY <1>2, <1>3, <2>1, <2>2, AssetsAssumption DEF AssetsInv, AssetsType, Badge
<1>6. /\ \A c \in Logos : Logo(c)' = Logo(c)
      /\ \A u \in Ids : Photo(u)' = Photo(u)
  BY <1>2, <1>5 DEF Logo, Photo, Exists
<1>7. RowsLose(N)
  BY <1>2, <1>5, <1>6 DEF RowsLose
<1>8. OneRow' /\ Referenced' = Referenced
  BY <1>6 DEF AssetsInv, OneRow, Referenced
<1>9. \A c \in Logos : badges'[c] # None => accounts'[badges'[c].owner] # None
  BY <1>2, <1>3, <1>5 DEF AssetsInv, AssetsType, Exists
<1>10. HandOK(p)'
  <2>1. CASE old = None
    BY <2>1, <1>4, NoHand DEF Holding, Sweeping
  <2>2. CASE old # None
    <3>1. pc'[p] = "drop" /\ loc'[p].old = old
      BY <2>2, <1>1, <1>4
    <3>2. OnPhotos(old, {}) /\ OnLogos(old, {b})
      BY <1>1, <1>3, <2>2 DEF LogoHand
    <3>3. DropHand(p)'
      BY <1>5, <1>6, <2>2, <3>1, <3>2 DEF DropHand, OnPhotos, OnLogos
    <3>4. Held(p)' \subseteq Known'
      BY <1>2, <1>3, <1>4 DEF Known
    <3> QED BY <3>1, <3>3, <3>4 DEF HandOK, Committing
  <2> QED BY <2>1, <2>2
<1>11. /\ store' \subseteq Known' /\ leaks' \subseteq Known' /\ leaks \subseteq leaks'
       /\ store' = store /\ upload' = upload /\ doubt' = doubt
  BY <1>2 DEF AssetsInv, AssetsType, Known
<1>12. /\ N = {} /\ D \subseteq Held(p) /\ N \subseteq store' /\ store \ D \subseteq store'
       /\ \A u \in Ids : Photo(u) \notin D
       /\ \A c \in Logos : Logo(c) \notin D
  BY <1>2
<1> HIDE DEF N, D
<1> QED BY <1>3, <1>4, <1>5, <1>7, <1>8, <1>9, <1>10, <1>11, <1>12, OneMoves

(* The rows of an account go together, and what was collected of them is   *)
(* shown nowhere else.                                                     *)
LEMMA AccountDeleteAssets ==
    ASSUME AccountsInv, AssetsInv, NEW p \in Procs, AccountDelete(p) PROVE AssetsInv'
<1>1. PICK u, ids : u = loc[p].user /\ ids = loc[p].ids
  OBVIOUS
<1> DEFINE N == {}
           D == {}
<1>2. /\ pc[p] = "delete" /\ accounts' = [accounts EXCEPT ![u] = None]
      /\ badges' = [b \in Logos |-> IF b \in Rows(u) THEN None ELSE badges[b]]
      /\ leaks' = leaks \cup (({Photo(u)} \cup {Logo(b) : b \in Rows(u)}) \ ({None} \cup ids))
      /\ Moves(p, "sweep", loc[p]) /\ UNCHANGED <<store, upload, doubt>>
  BY <1>1, Moving DEF AccountDelete, AccountsInv, AccountsType
<1>3. /\ AccountHand(p) /\ u \in Ids /\ Held(p) = ids /\ ids \subseteq Known /\ LooseOf(p) = {}
      /\ None \notin ids
  BY <1>1, <1>2, KnownType DEF AssetsInv, AssetsType, HandOK, AccountHand, Held, LooseOf, Holding,
                               Sweeping, Committing
<1>4. /\ pc'[p] = "sweep" /\ loc'[p].ids = ids /\ Held(p)' = ids /\ LooseOf(p)' = ids
      /\ \A q \in Procs \ {p} : pc'[q] = pc[q] /\ loc'[q] = loc[q]
  BY <1>1, <1>2 DEF Moves, Held, LooseOf, Holding, Sweeping, Committing
<1>5. accounts'[u] = None /\ \A v \in Ids \ {u} : accounts'[v] = accounts[v]
  BY <1>2, <1>3 DEF AccountsInv, AccountsType
<1>6. /\ Photo(u)' = None /\ \A v \in Ids \ {u} : Photo(v)' = Photo(v)
      /\ \A b \in Rows(u) : Logo(b)' = None /\ badges'[b] = None
      /\ \A b \in Logos \ Rows(u) : Logo(b)' = Logo(b) /\ badges'[b] = badges[b]
  BY <1>2, <1>5 DEF Photo, Exists, Logo, Rows
<1>7. RowsLose(N)
  BY <1>6 DEF RowsLose
<1>8. OneRow'
  BY <1>6 DEF AssetsInv, OneRow
<1>9. /\ badges' \in [Logos -> Badge \cup {None}]
      /\ \A b \in Logos : badges'[b] # None => accounts'[badges'[b].owner] # None
  <2>1. \A b \in Logos : badges'[b] # None =>
           badges[b] # None /\ badges'[b] = badges[b] /\ badges[b].owner # u
    BY <1>6 DEF Rows
  <2>2. \A b \in Logos : badges[b] # None =>
           badges[b].owner \in Ids /\ accounts[badges[b].owner] # None
    BY DEF AssetsInv, AssetsType, Badge, Exists
  <2> QED BY <1>2, <1>5, <2>1, <2>2 DEF AssetsInv, AssetsType
<1>10. HandOK(p)'
  <2>1. ASSUME NEW a \in ids
        PROVE  /\ \A v \in Ids : Photo(v)' # a
               /\ \A b \in Logos : Logo(b)' # a
    <3>1. a # None /\ OnPhotos(a, {u}) /\ OnLogos(a, Rows(u))
      BY <1>1, <1>3 DEF AccountHand
    <3> QED BY <1>6, <3>1 DEF OnPhotos, OnLogos
  <2>2. SweepHand(p)'
    BY <1>4, <2>1 DEF SweepHand, OnPhotos, OnLogos
  <2>3. Held(p)' \subseteq Known'
    BY <1>2, <1>3, <1>4 DEF Known
  <2> QED BY <1>4, <2>2, <2>3 DEF HandOK, Committing
<1>11. leaks' \subseteq Known
  <2>1. Photo(u) \in Known \cup {None} /\ \A b \in Rows(u) : Logo(b) \in Known \cup {None}
    BY <1>3 DEF AssetsInv, AssetsType, Rows
  <2> QED BY <1>2, <2>1 DEF AssetsInv, AssetsType
<1>12. /\ store' \subseteq Known' /\ leaks' \subseteq Known' /\ leaks \subseteq leaks'
       /\ store' = store /\ upload' = upload /\ doubt' = doubt
  BY <1>2, <1>11 DEF AssetsInv, AssetsType, Known
<1>13. Referenced \subseteq Referenced' \cup leaks' \cup LooseOf(p)'
  <2>1. Photo(u) # None => Photo(u) \in leaks' \cup ids
    BY <1>2
  <2>2. \A b \in Rows(u) : Logo(b) # None => Logo(b) \in leaks' \cup ids
    BY <1>2
  <2>3. \A v \in Ids \ {u} : Photo(v) # None => Photo(v) \in Referenced'
    BY <1>6 DEF Referenced
  <2>4. \A b \in Logos \ Rows(u) : Logo(b) # None => Logo(b) \in Referenced'
    BY <1>6 DEF Referenced
  <2> QED BY <1>4, <2>1, <2>2, <2>3, <2>4 DEF Referenced
<1>14. /\ N = {} /\ D \subseteq Held(p) /\ N \subseteq store' /\ store \ D \subseteq store'
       /\ \A v \in Ids : Photo(v) \notin D
       /\ \A b \in Logos : Logo(b) \notin D
  BY <1>2
<1>15. /\ Held(p)' \subseteq Held(p) /\ store' \subseteq store /\ LooseOf(p) \cap store' = {}
  BY <1>3, <1>4, <1>12
<1> HIDE DEF N, D
<1> QED BY <1>4, <1>7, <1>8, <1>9, <1>10, <1>12, <1>13, <1>14, <1>15, OneMoves

LEMMA TemplateDeleteInv ==
    ASSUME AccountsInv, AssetsInv, TemplateDelete PROVE AccountsInv' /\ AssetsInv'
<1>1. /\ badges' = [b \in Logos |-> None]
      /\ leaks' = leaks \cup ({Logo(b) : b \in Logos} \ {None})
      /\ UNCHANGED <<accounts, links, states, minted, born, store, upload, doubt, pc, loc>>
  BY DEF TemplateDelete, AtOnce, accountVars
<1>2. AccountsInv'
  BY <1>1, ElsewhereInv DEF AccountsInv, AccountsType, Exists
<1>3. /\ \A u \in Ids : Photo(u)' = Photo(u)
      /\ \A b \in Logos : Logo(b)' = None /\ badges'[b] = None
  BY <1>1 DEF Photo, Exists, Logo
<1>4. RowsLose({})
  BY <1>3 DEF RowsLose
<1>5. leaks' \subseteq Known
  BY <1>1 DEF AssetsInv, AssetsType
<1>6. Referenced \subseteq Referenced' \cup leaks'
  <2>1. \A u \in Ids : Photo(u) # None => Photo(u) \in Referenced'
    BY <1>3 DEF Referenced
  <2>2. \A b \in Logos : Logo(b) # None => Logo(b) \in leaks'
    BY <1>1
  <2> QED BY <2>1, <2>2 DEF Referenced
<1>7. badges' \in [Logos -> Badge \cup {None}]
  BY <1>1
<1>8. /\ \A p \in Procs : \/ pc'[p] = pc[p] /\ loc'[p] = loc[p]
                          \/ {pc[p], pc'[p]} \cap (Holding \cup Sweeping) = {}
      /\ \A b \in Logos : badges'[b] # None => accounts'[badges'[b].owner] # None
      /\ leaks \subseteq leaks' /\ UNCHANGED <<store, upload, doubt>>
  BY <1>1, <1>3
<1>9. AssetsInv'
  BY <1>4, <1>5, <1>6, <1>7, <1>8, RowsInv
<1> QED BY <1>2, <1>9

(* Nothing of Accounts shows an asset that was not shown before.           *)
LEMMA BornPhoto ==
    ASSUME AccountsInv, NEW row \in Account, Born(row),
           row.photo = None \/ \E s \in Subjects : row.photo = Pictures[s]
    PROVE  \A u \in Ids : /\ Exists(u) => accounts'[u] = accounts[u]
                          /\ Photo(u)' = Photo(u)
<1> USE DEF AccountsInv
<1>1. /\ born + 1 \in Ids /\ ~Exists(born + 1) /\ accounts'[born + 1] = row
      /\ \A u \in Ids \ {born + 1} : accounts'[u] = accounts[u]
  BY BornRow
<1>2. row.photo # None => PublicId(row.photo) = None
  BY PictureId
<1>3. \A u \in Ids \ {born + 1} : Photo(u)' = Photo(u)
  BY <1>1 DEF Photo, Exists
<1>4. accounts'[born + 1] # None => accounts'[born + 1].photo = row.photo
  BY <1>1
<1>5. Photo(born + 1) = None
  BY <1>1 DEF Photo
<1>6. \A u \in Ids : u = born + 1 => Photo(u)' = None
  BY <1>1, <1>2, <1>4 DEF Photo, Exists
<1> QED BY <1>1, <1>3, <1>5, <1>6

LEMMA AccountsRows ==
    ASSUME AccountsInv, AccountsNext
    PROVE  /\ \A u \in Ids :
                 /\ Exists(u) => accounts'[u] # None
                 /\ Photo(u)' \in {Photo(u), None}
                 /\ Photo(u)' = Photo(u) \/ (Exists(u) /\ accounts'[u].photo # accounts[u].photo)
           /\ \A p \in Procs : \/ pc'[p] = pc[p] /\ loc'[p] = loc[p]
                               \/ {pc[p], pc'[p]} \cap (Holding \cup Sweeping) = {}
<1> DEFINE Rest == \A p \in Procs : \/ pc'[p] = pc[p] /\ loc'[p] = loc[p]
                                    \/ {pc[p], pc'[p]} \cap (Holding \cup Sweeping) = {}
           Keep == \A u \in Ids :
                     /\ Exists(u) => accounts'[u] # None
                     /\ Photo(u)' \in {Photo(u), None}
                     /\ Photo(u)' = Photo(u) \/ (Exists(u) /\ accounts'[u].photo # accounts[u].photo)
<1>1. DOMAIN pc = Procs /\ DOMAIN loc = Procs /\ accounts \in [Ids -> Account \cup {None}]
  BY DEF AccountsInv, AccountsType
<1>2. ASSUME UNCHANGED accounts PROVE Keep
  BY <1>2 DEF Photo, Exists
<1>3. ASSUME UNCHANGED <<pc, loc>> PROVE Rest
  BY <1>3
<1>4. ASSUME NEW p \in Procs, NEW step \in Serving \cup {"idle"}, NEW held, Moves(p, step, held),
             pc[p] \in Serving \cup {"idle"}
      PROVE  Rest
  BY <1>4 DEF Moves, Serving, Holding, Sweeping
<1> SUFFICES Keep /\ Rest
  OBVIOUS
<1> HIDE DEF Keep, Rest
<1>5. CASE \E e \in Emails : Signup(e)
  <2>1. PICK e \in Emails : Born(NewAccount(e, TRUE, None)) /\ UNCHANGED <<pc, loc>>
    BY <1>5 DEF Signup, AtOnce
  <2>2. NewAccount(e, TRUE, None) \in Account /\ NewAccount(e, TRUE, None).photo = None
    BY DEF NewAccount, Account
  <2>3. \A u \in Ids : (Exists(u) => accounts'[u] = accounts[u]) /\ Photo(u)' = Photo(u)
    BY <2>1, <2>2, BornPhoto
  <2> QED BY <1>3, <2>1, <2>3 DEF Exists, Keep
<1>6. CASE \E u \in Ids : VerifyEmail(u) \/ ResetPassword(u) \/ \E e \in Emails : ChangeEmail(u, e)
  <2>1. PICK u \in Ids : VerifyEmail(u) \/ ResetPassword(u) \/ \E e \in Emails : ChangeEmail(u, e)
    BY <1>6
  <2>2. accounts[u] \in Account /\ UNCHANGED <<pc, loc>>
    BY <1>1, <2>1 DEF VerifyEmail, ResetPassword, ChangeEmail, AtOnce, Exists
  <2>3. /\ accounts'[u] \in Account /\ accounts'[u].photo = accounts[u].photo
        /\ \A v \in Ids \ {u} : accounts'[v] = accounts[v]
    <3>1. CASE VerifyEmail(u)
      BY <1>1, <2>2, <3>1 DEF VerifyEmail, Account
    <3>2. CASE ResetPassword(u)
      BY <1>1, <2>2, <3>2 DEF ResetPassword, Account
    <3>3. CASE \E e \in Emails : ChangeEmail(u, e)
      BY <1>1, <2>2, <3>3 DEF ChangeEmail, Account
    <3> QED BY <2>1, <3>1, <3>2, <3>3
  <2>4. accounts'[u] # None /\ accounts[u] # None
    BY <2>2, <2>3, AccountsAssumption
  <2>5. Keep
    BY <2>3, <2>4 DEF Photo, Exists, Keep
  <2> QED BY <1>3, <2>2, <2>5
<1>7. CASE GoogleStart \/ \E s \in states : StateExpires(s)
  BY <1>2, <1>3, <1>7 DEF GoogleStart, StateExpires, AtOnce, requestVars
<1>8. ASSUME NEW p \in Procs, AccountsStep(p) PROVE Keep /\ Rest
  <2>1. CASE \E s \in states, sub \in Subjects : Callback(p, s, sub)
    <3>1. PICK held : Moves(p, "exchange", held) /\ pc[p] = "idle" /\ UNCHANGED accounts
      BY <1>1, <2>1, Moving DEF Callback
    <3> QED BY <1>2, <1>4, <3>1 DEF Serving
  <2>2. CASE Exchange(p) \/ FetchUserInfo(p) \/ FindProvider(p) \/ SignInLinked(p)
             \/ MatchEmail(p) \/ GoogleFails(p)
    <3>1. pc[p] \in Serving /\ UNCHANGED accounts
      BY <2>2 DEF Exchange, FetchUserInfo, FindProvider, SignInLinked, MatchEmail, GoogleFails,
                  Serving, accountVars
    <3>2. PICK step, held : step \in Serving \cup {"idle"} /\ Moves(p, step, held)
      BY <1>1, <2>2, Moving DEF Exchange, FetchUserInfo, FindProvider, SignInLinked, MatchEmail,
                                GoogleFails, Serving
    <3> QED BY <1>2, <1>4, <3>1, <3>2
  <2>3. CASE GoogleInsert(p)
    <3>1. PICK s \in Subjects : Born(NewAccount(Gmail[s], FALSE, Pictures[s]))
      BY <2>3 DEF GoogleInsert, AccountsInv, ServesCallbacks, Serving
    <3>2. /\ NewAccount(Gmail[s], FALSE, Pictures[s]) \in Account
          /\ NewAccount(Gmail[s], FALSE, Pictures[s]).photo = Pictures[s]
      BY AccountsAssumption DEF NewAccount, Account
    <3>3. \A u \in Ids : (Exists(u) => accounts'[u] = accounts[u]) /\ Photo(u)' = Photo(u)
      BY <3>1, <3>2, BornPhoto
    <3>4. Moves(p, "idle", None) /\ pc[p] \in Serving
      BY <1>1, <2>3, Moving DEF GoogleInsert, Serving
    <3> QED BY <1>4, <3>3, <3>4 DEF Exists, Keep
  <2>4. CASE GoogleLink(p)
    <3>1. PICK u, picture :
             /\ Exists(u) /\ u \in Ids /\ \E s \in Subjects : picture = Pictures[s]
             /\ \A v \in Ids \ {u} : accounts'[v] = accounts[v]
             /\ accounts'[u] \in Account
             /\ accounts'[u].photo # accounts[u].photo =>
                   accounts'[u].photo = picture /\ picture # None
      <4> DEFINE me == loc[p]
                 url == IF Pictures[me.sub] \in {None, me.photo} THEN accounts[me.user].photo
                        ELSE Pictures[me.sub]
      <4>1. /\ me.sub \in Subjects /\ Linking(p) /\ Exists(me.user)
            /\ accounts' = [accounts EXCEPT
                  ![me.user].verified = @ \/ ~me.verified,
                  ![me.user].photo = IF Pictures[me.sub] \in {None, me.photo} THEN @
                                     ELSE Pictures[me.sub]]
        BY <2>4 DEF GoogleLink, AccountsInv, ServesCallbacks, Serving
      <4>2. me.user \in Ids /\ accounts[me.user] \in Account
        BY <1>1, <4>1, AccountsAssumption DEF AccountsInv, AccountsType, Linking, Exists, Ids
      <4>3. /\ accounts'[me.user] =
                  [accounts[me.user] EXCEPT !.verified = @ \/ ~me.verified, !.photo = url]
            /\ \A v \in Ids \ {me.user} : accounts'[v] = accounts[v]
        BY <1>1, <4>1, <4>2 DEF Account
      <4>4. url \in Urls \cup {None} /\ me.verified \in BOOLEAN
        BY <4>1, <4>2, AccountsAssumption DEF Account, Linking
      <4>5. url = accounts[me.user].photo \/ (url = Pictures[me.sub] /\ url # None)
        OBVIOUS
      <4> HIDE DEF url
      <4>6. accounts'[me.user] \in Account /\ accounts'[me.user].photo = url
        BY <4>2, <4>3, <4>4 DEF Account
      <4> QED BY <4>1, <4>2, <4>3, <4>5, <4>6
    <3>2. accounts'[u] # None /\ accounts[u] # None
      BY <3>1, AccountsAssumption DEF Exists
    <3>3. picture # None => PublicId(picture) = None
      BY <3>1, PictureId
    <3>4. Photo(u)' \in {Photo(u), None}
          /\ (Photo(u)' = Photo(u) \/ accounts'[u].photo # accounts[u].photo)
      BY <3>1, <3>2, <3>3 DEF Photo, Exists
    <3>5. \A v \in Ids \ {u} : Photo(v)' = Photo(v)
      BY <3>1 DEF Photo, Exists
    <3>6. Keep
      BY <3>1, <3>2, <3>4, <3>5 DEF Exists, Keep
    <3>7. Moves(p, "idle", None) /\ pc[p] \in Serving
      BY <1>1, <2>4, Moving DEF GoogleLink, Serving
    <3> QED BY <1>4, <3>6, <3>7
  <2> QED BY <1>8, <2>1, <2>2, <2>3, <2>4 DEF AccountsStep
<1> QED BY <1>5, <1>6, <1>7, <1>8 DEF AccountsNext

LEMMA AccountsNextInv == ASSUME AccountsInv, AccountsNext PROVE AccountsInv'
<1>1. ASSUME NEW p \in Procs, AccountsStep(p) PROVE AccountsInv'
  BY <1>1, CallbackInv, GoogleReadsInv, GoogleInsertInv, GoogleLinkInv DEF AccountsStep
<1> QED BY <1>1, SignupInv, RowInv, StatesInv DEF AccountsNext

LEMMA AccountsPartInv == ASSUME AccountsInv, AssetsInv, AccountsPart PROVE AccountsInv' /\ AssetsInv'
<1>1. AccountsInv'
  BY AccountsNextInv DEF AccountsPart
<1>2. /\ \A u \in Ids :
            /\ Exists(u) => accounts'[u] # None
            /\ Photo(u)' \in {Photo(u), None}
            /\ Photo(u)' = Photo(u) \/ (Exists(u) /\ accounts'[u].photo # accounts[u].photo)
      /\ \A p \in Procs : \/ pc'[p] = pc[p] /\ loc'[p] = loc[p]
                          \/ {pc[p], pc'[p]} \cap (Holding \cup Sweeping) = {}
  BY AccountsRows DEF AccountsPart
<1>3. /\ leaks' = leaks \cup ({Photo(u) : u \in {v \in Ids :
                                Exists(v) /\ accounts'[v].photo # accounts[v].photo}} \ {None})
      /\ UNCHANGED <<badges, store, upload, doubt>>
  BY DEF AccountsPart
<1>4. \A b \in Logos : Logo(b)' = Logo(b)
  BY <1>3 DEF Logo
<1>5. RowsLose({})
  BY <1>2, <1>3, <1>4 DEF RowsLose
<1>6. /\ badges' \in [Logos -> Badge \cup {None}]
      /\ \A b \in Logos : badges'[b] # None => accounts'[badges'[b].owner] # None
  <2>1. \A b \in Logos : badges[b] # None => badges[b].owner \in Ids /\ Exists(badges[b].owner)
    BY DEF AssetsInv, AssetsType, Badge
  <2> QED BY <1>2, <1>3, <2>1 DEF AssetsInv, AssetsType
<1>7. leaks \subseteq leaks' /\ leaks' \subseteq Known
  BY <1>3 DEF AssetsInv, AssetsType
<1>8. Referenced \subseteq Referenced' \cup leaks'
  <2>1. \A u \in Ids : Photo(u) # None => Photo(u) \in Referenced' \cup leaks'
    BY <1>2, <1>3 DEF Referenced
  <2>2. \A b \in Logos : Logo(b) # None => Logo(b) \in Referenced'
    BY <1>4 DEF Referenced
  <2> QED BY <2>1, <2>2 DEF Referenced
<1>9. AssetsInv'
  BY <1>2, <1>3, <1>5, <1>6, <1>7, <1>8, RowsInv
<1> QED BY <1>1, <1>9

(* The accounts in a step of Assets that is not of Accounts.               *)
LEMMA AccountsStill ==
    ASSUME AccountsInv, NEW p \in Procs, NEW step, NEW held, Moves(p, step, held),
           step \notin Serving, UNCHANGED accountVars
    PROVE  AccountsInv'
BY ElsewhereInv DEF Moves, Serving, accountVars, AccountsInv, AccountsType, Exists

LEMMA AssetsNextInv ==
    ASSUME AccountsInv, AssetsInv, AssetsNext PROVE AccountsInv' /\ AssetsInv'
<1>1. DOMAIN pc = Procs /\ DOMAIN loc = Procs
  BY DEF AccountsInv, AccountsType
<1>2. ASSUME NEW p \in Procs,
             \/ \E b \in Logos : LogoLoad(p, b) \/ BadgeLoad(p, b)
             \/ \E u \in Ids : PhotoLoad(p, u) \/ PhotoRemove(p, u) \/ AccountLoad(p, u)
      PROVE  AccountsInv' /\ AssetsInv'
  <2>1. PICK step, held : Moves(p, step, held) /\ step \notin Serving /\ UNCHANGED accountVars
    <3>1. CASE \E b \in Logos : LogoLoad(p, b) \/ BadgeLoad(p, b)
      BY <1>1, <3>1, Moving DEF LogoLoad, BadgeLoad, Serving
    <3>2. CASE \E u \in Ids : PhotoLoad(p, u) \/ PhotoRemove(p, u) \/ AccountLoad(p, u)
      BY <1>1, <3>2, Moving DEF PhotoLoad, PhotoRemove, AccountLoad, Serving
    <3> QED BY <1>2, <3>1, <3>2
  <2> QED BY <1>1, <1>2, <2>1, AccountsStill, LoadInv
<1>3. ASSUME NEW p \in Procs, Upload(p) \/ UploadFails(p) \/ AssetsFail(p) \/ AccountLogos(p)
      PROVE  AccountsInv' /\ AssetsInv'
  <2>1. PICK step, held : Moves(p, step, held) /\ step \notin Serving /\ UNCHANGED accountVars
    BY <1>1, <1>3, Moving DEF Upload, UploadFails, AssetsFail, AccountLogos, Serving
  <2> QED BY <1>1, <1>3, <2>1, AccountsStill, UploadInv, UploadFailsInv, AssetsFailInv, AccountLogosInv
<1>4. ASSUME NEW p \in Procs, Clean(p) \/ Drop(p) \/ Sweep(p) \/ LogoCommitFails(p)
      PROVE  AccountsInv' /\ AssetsInv'
  <2>1. PICK step, held : Moves(p, step, held) /\ step \notin Serving /\ UNCHANGED accountVars
    BY <1>1, <1>4, Moving DEF Clean, Drop, Sweep, LogoCommitFails, Serving
  <2> QED BY <1>1, <1>4, <2>1, AccountsStill, DeletionsInv, LogoCommitFailsInv
<1>5. ASSUME NEW p \in Procs, LogoCommit(p) \/ BadgeBury(p) PROVE AccountsInv' /\ AssetsInv'
  <2>0. Moves(p, "idle", None) \/ Moves(p, "drop", loc[p])
    BY <1>1, <1>5, Moving DEF LogoCommit, BadgeBury, DropOld
  <2>1. PICK step, held : Moves(p, step, held) /\ step \notin Serving /\ UNCHANGED accountVars
    BY <1>5, <2>0 DEF LogoCommit, BadgeBury, Serving
  <2> QED BY <1>1, <1>5, <2>1, AccountsStill, LogoCommitInv, BadgeBuryInv
<1>6. ASSUME NEW p \in Procs, PhotoCommit(p) \/ PhotoNone(p) \/ AccountDelete(p)
      PROVE  AccountsInv' /\ AssetsInv'
  BY <1>6, PhotoInv, AccountDeleteInv, AccountDeleteAssets
<1> QED BY <1>2, <1>3, <1>4, <1>5, <1>6, AccountsPartInv, TemplateDeleteInv DEF AssetsNext

LEMMA AssetsInitInv == SiteInit => AssetsInv
<1> SUFFICES ASSUME SiteInit PROVE AssetsInv
  OBVIOUS
<1>1. /\ accounts \in Early /\ badges \in EarlyLogos /\ store = Referenced /\ upload = 2
      /\ leaks = {} /\ pc = [p \in Procs |-> "idle"]
  BY DEF SiteInit, AssetsInit, AccountsInit, RequestsInit
<1>2. Known = {Asset(1), Asset(2)} /\ Asset(1) # Asset(2) /\ None \notin Known
  <2>1. 1..2 = {1, 2}
    OBVIOUS
  <2> QED BY <1>1, <2>1, KnownType, AssetUrlType DEF Known, Asset
<1>3. \A u \in Ids : Photo(u) \in {Asset(1), None}
  <2>1. \A u \in Ids : accounts[u] # None => accounts[u].photo \in {AssetUrl(1), None}
    BY <1>1, AssetsAssumption
  <2> QED BY <2>1, UrlId DEF Photo, Exists
<1>4. \A u, v \in Ids : Photo(u) = Photo(v) /\ Photo(u) # None => u = v
  <2>1. \A u \in Ids : Photo(u) # None => accounts[u] # None /\ accounts[u].photo = AssetUrl(1)
    BY <1>1, AssetsAssumption DEF Photo, Exists
  <2>2. AssetUrl(1) # None
    BY AssetUrlType
  <2> QED BY <1>1, <2>1, <2>2, AssetsAssumption
<1>5. /\ badges \in [Logos -> Badge \cup {None}]
      /\ \A b \in Logos : Logo(b) \in {Asset(2), None}
      /\ \A b, c \in Logos : Logo(b) = Logo(c) /\ Logo(b) # None => b = c
      /\ \A b \in Logos : badges[b] # None => accounts[badges[b].owner] # None
  BY <1>1, AssetsAssumption DEF Logo
<1>6. AssetsType
  BY <1>1, <1>2, <1>3, <1>5 DEF AssetsType, Referenced, Exists
<1>7. OneRow
  BY <1>2, <1>3, <1>4, <1>5 DEF OneRow
<1>8. Accounted /\ AssetsStored
  BY <1>1 DEF Accounted, AssetsStored, Referenced
<1>9. \A p \in Procs : HandOK(p)
  BY <1>1 DEF HandOK, Held, Holding, Sweeping, Committing
<1> QED BY <1>6, <1>7, <1>8, <1>9 DEF AssetsInv
----------------------------------------------------------------------------
(***************************************************************************)
(* The newsletter.  The link of an active subscription has been sent, or   *)
(* some request is about to read it, or has read it and is about to send.  *)
(***************************************************************************)
Mailing == {"subscribe", "refresh", "mail", "leave"}

NewsType ==
    /\ tokens \in Nat /\ mailed \subseteq 1..tokens
    /\ subscriber # None => subscriber \in Subscription /\ subscriber.token \in 1..tokens

NewsHand(p) ==
    /\ pc[p] \in Mailing => loc[p].token \in 1..tokens
    /\ pc[p] \in {"refresh", "mail", "leave"} => subscriber # None

Pending ==
    \E p \in Procs :
       pc[p] = "refresh" \/ (pc[p] = "mail" /\ loc[p].token = subscriber.token)

NewsInv ==
    /\ NewsType
    /\ \A p \in Procs : NewsHand(p)
    /\ subscriber # None /\ subscriber.active /\ ~unsent =>
          subscriber.token \in mailed \/ Pending

LEMMA NewsElsewhere ==
    ASSUME NewsInv, UNCHANGED newsVars,
           \A p \in Procs : \/ pc'[p] = pc[p] /\ loc'[p] = loc[p]
                            \/ {pc[p], pc'[p]} \cap Mailing = {}
    PROVE  NewsInv'
<1>1. \A p \in Procs : NewsHand(p)'
  BY DEF NewsInv, NewsHand, newsVars, Mailing
<1>2. Pending => Pending'
  BY DEF Pending, newsVars, Mailing
<1> QED BY <1>1, <1>2 DEF NewsInv, NewsType, newsVars

LEMMA NewsletterInv ==
    ASSUME NewsInv, NewsletterNext, DOMAIN pc = Procs, DOMAIN loc = Procs PROVE NewsInv'
<1>1. PICK p \in Procs :
         \/ Subscribe(p) \/ SubscribeCommit(p) \/ Refresh(p) \/ Mail(p) \/ MailFails(p)
         \/ \E t \in mailed : Unsubscribe(p, t)
         \/ Leave(p)
  BY DEF NewsletterNext
<1> USE DEF NewsInv
<1>2. tokens \in Nat /\ 1..tokens \subseteq Nat
  BY DEF NewsType
<1>3. CASE Subscribe(p)
  <2>1. /\ tokens' = tokens + 1 /\ UNCHANGED <<subscriber, mailed, unsent>>
        /\ Moves(p, "subscribe", [token |-> tokens + 1, row |-> subscriber # None])
        /\ pc[p] = "idle" /\ (subscriber # None => ~subscriber.active)
    BY <1>3, Moving DEF Subscribe
  <2>2. 1..tokens \subseteq 1..tokens' /\ tokens + 1 \in 1..tokens' /\ tokens' \in Nat
    BY <1>2, <2>1
  <2>3. NewsType' /\ \A q \in Procs : NewsHand(q)'
    BY <2>1, <2>2 DEF NewsType, NewsHand, Moves
  <2> QED BY <2>1, <2>3
<1>4. CASE SubscribeCommit(p)
  <2>1. CASE subscriber # None /\ ~loc[p].row
    <3>1. UNCHANGED newsVars /\ Moves(p, "idle", None) /\ pc[p] = "subscribe"
      BY <1>4, <2>1, Moving DEF SubscribeCommit
    <3>2. NewsType' /\ \A q \in Procs : NewsHand(q)'
      BY <3>1 DEF NewsType, NewsHand, Moves, newsVars, Mailing
    <3>3. Pending => Pending'
      BY <3>1 DEF Pending, Moves, newsVars
    <3> QED BY <3>1, <3>2, <3>3 DEF newsVars
  <2>2. CASE ~(subscriber # None /\ ~loc[p].row)
    <3>1. /\ subscriber' = [active |-> TRUE, token |-> loc[p].token]
          /\ Moves(p, "refresh", loc[p]) /\ UNCHANGED <<tokens, mailed, unsent>>
          /\ loc[p].token \in 1..tokens
      BY <1>4, <2>2, Moving DEF SubscribeCommit, Greet, NewsHand, Mailing
    <3>2. subscriber' \in Subscription /\ subscriber' # None /\ subscriber'.token = loc[p].token
      <4>1. loc[p].token \in Nat
        BY <1>2, <3>1
      <4>2. subscriber' \in Subscription /\ subscriber'.token = loc[p].token
        BY <3>1, <4>1 DEF Subscription
      <4> QED BY <4>2, NewsletterAssumption
    <3>3. NewsType' /\ \A q \in Procs : NewsHand(q)'
      BY <3>1, <3>2 DEF NewsType, NewsHand, Moves, Mailing
    <3>4. Pending'
      BY <3>1 DEF Pending, Moves
    <3> QED BY <3>3, <3>4
  <2> QED BY <2>1, <2>2
<1>5. CASE Refresh(p)
  <2>1. /\ Moves(p, "mail", [loc[p] EXCEPT !.token = subscriber.token])
        /\ pc[p] = "refresh" /\ UNCHANGED newsVars /\ subscriber # None
    BY <1>5, Moving DEF Refresh, NewsHand
  <2>2. loc'[p].token = subscriber.token
    BY <2>1 DEF Moves
  <2>3. NewsType' /\ \A q \in Procs : NewsHand(q)'
    BY <2>1, <2>2 DEF NewsType, NewsHand, Moves, newsVars, Mailing
  <2>4. Pending'
    BY <2>1, <2>2 DEF Pending, Moves, newsVars
  <2> QED BY <2>3, <2>4
<1>6. CASE Mail(p)
  <2>1. /\ pc[p] = "mail" /\ mailed' = mailed \cup {loc[p].token} /\ Moves(p, "idle", None)
        /\ UNCHANGED <<subscriber, tokens, unsent>> /\ loc[p].token \in 1..tokens
    BY <1>6, Moving DEF Mail, NewsHand, Mailing
  <2>2. NewsType' /\ \A q \in Procs : NewsHand(q)'
    BY <2>1 DEF NewsType, NewsHand, Moves, Mailing
  <2>3. Pending => Pending' \/ subscriber.token \in mailed'
    BY <2>1 DEF Pending, Moves
  <2> QED BY <2>1, <2>2, <2>3
<1>7. CASE MailFails(p)
  <2>1. unsent' = TRUE /\ Moves(p, "idle", None) /\ UNCHANGED <<subscriber, tokens, mailed>>
    BY <1>7, Moving DEF MailFails
  <2>2. NewsType' /\ \A q \in Procs : NewsHand(q)'
    BY <2>1 DEF NewsType, NewsHand, Moves, Mailing
  <2> QED BY <2>1, <2>2
<1>8. CASE \E t \in mailed : Unsubscribe(p, t)
  <2>1. PICK t \in 1..tokens :
          /\ Moves(p, "leave", [token |-> t]) /\ pc[p] = "idle" /\ UNCHANGED newsVars
          /\ subscriber # None
    BY <1>8, Moving DEF Unsubscribe, NewsType
  <2>2. NewsType' /\ \A q \in Procs : NewsHand(q)'
    BY <2>1 DEF NewsType, NewsHand, Moves, newsVars
  <2>3. Pending => Pending'
    BY <2>1 DEF Pending, Moves, newsVars
  <2> QED BY <2>1, <2>2, <2>3 DEF newsVars
<1>9. CASE Leave(p)
  <2>1. /\ subscriber # None /\ subscriber' = [subscriber EXCEPT !.active = FALSE]
        /\ Moves(p, "idle", None) /\ UNCHANGED <<tokens, mailed, unsent>>
    BY <1>9, Moving DEF Leave, NewsHand
  <2>2. /\ subscriber' \in Subscription /\ subscriber' # None /\ ~subscriber'.active
        /\ subscriber'.token = subscriber.token
    BY <2>1, NewsletterAssumption DEF NewsType, Subscription
  <2>3. NewsType' /\ \A q \in Procs : NewsHand(q)'
    BY <2>1, <2>2 DEF NewsType, NewsHand, Moves, Mailing
  <2> QED BY <2>2, <2>3
<1> QED BY <1>1, <1>3, <1>4, <1>5, <1>6, <1>7, <1>8, <1>9

(* A request at work on accounts or assets is at no step of the newsletter. *)
LEMMA NewsAside ==
    ASSUME AssetsNext, AccountsInv
    PROVE  \A q \in Procs : \/ pc'[q] = pc[q] /\ loc'[q] = loc[q]
                            \/ {pc[q], pc'[q]} \cap Mailing = {}
<1> DEFINE Rest == \A q \in Procs : \/ pc'[q] = pc[q] /\ loc'[q] = loc[q]
                                    \/ {pc[q], pc'[q]} \cap Mailing = {}
<1>1. DOMAIN pc = Procs /\ DOMAIN loc = Procs
  BY DEF AccountsInv, AccountsType
<1>2. ASSUME NEW p \in Procs, NEW step, NEW held, Moves(p, step, held), {pc[p], step} \cap Mailing = {}
      PROVE  Rest
  BY <1>2 DEF Moves
<1>3. ASSUME UNCHANGED <<pc, loc>> PROVE Rest
  BY <1>3
<1> SUFFICES Rest
  OBVIOUS
<1> HIDE DEF Rest
<1>4. CASE TemplateDelete
  BY <1>3, <1>4 DEF TemplateDelete, AtOnce
<1>5. CASE AccountsPart
  <2>1. ASSUME NEW p \in Procs, AccountsStep(p) PROVE Rest
    <3>1. CASE \E s \in states, sub \in Subjects : Callback(p, s, sub)
      BY <1>1, <1>2, <3>1, Moving DEF Callback, Mailing
    <3>2. CASE Exchange(p) \/ FetchUserInfo(p) \/ GoogleFails(p) \/ SignInLinked(p)
      BY <1>1, <1>2, <3>2, Moving DEF Exchange, FetchUserInfo, GoogleFails, SignInLinked, Mailing,
                                      Serving
    <3>3. CASE FindProvider(p)
      BY <1>1, <1>2, <3>3, Moving DEF FindProvider, Mailing
    <3>4. CASE MatchEmail(p)
      <4>1. PICK step \in {"idle", "insert", "link"} : \E held : Moves(p, step, held)
        BY <1>1, <3>4, Moving DEF MatchEmail
      <4> QED BY <1>2, <3>4, <4>1 DEF MatchEmail, Mailing
    <3>5. CASE GoogleInsert(p) \/ GoogleLink(p)
      BY <1>1, <1>2, <3>5, Moving DEF GoogleInsert, GoogleLink, Mailing
    <3> QED BY <2>1, <3>1, <3>2, <3>3, <3>4, <3>5 DEF AccountsStep
  <2>2. ASSUME UNCHANGED <<pc, loc>> \/ \E p \in Procs : AccountsStep(p) PROVE Rest
    BY <1>3, <2>1, <2>2
  <2>3. UNCHANGED <<pc, loc>> \/ \E p \in Procs : AccountsStep(p)
    BY <1>5 DEF AccountsPart, AccountsNext, Signup, ChangeEmail, VerifyEmail, ResetPassword,
                GoogleStart, StateExpires, AtOnce, requestVars
  <2> QED BY <2>2, <2>3
<1>6. ASSUME NEW p \in Procs, NEW b \in Logos, LogoLoad(p, b) \/ BadgeLoad(p, b) PROVE Rest
  BY <1>1, <1>2, <1>6, Moving DEF LogoLoad, BadgeLoad, Mailing
<1>7. ASSUME NEW p \in Procs, NEW u \in Ids, PhotoLoad(p, u) \/ PhotoRemove(p, u) \/ AccountLoad(p, u)
      PROVE  Rest
  BY <1>1, <1>2, <1>7, Moving DEF PhotoLoad, PhotoRemove, AccountLoad, Mailing
<1>8. ASSUME NEW p \in Procs, Upload(p) \/ UploadFails(p) \/ LogoCommitFails(p) \/ Clean(p) \/ Drop(p)
      PROVE  Rest
  BY <1>1, <1>2, <1>8, Moving DEF Upload, UploadFails, LogoCommitFails, Clean, Drop, Mailing
<1>9. ASSUME NEW p \in Procs, DropOld(p), pc[p] \notin Mailing PROVE Rest
  BY <1>1, <1>2, <1>9, Moving DEF DropOld, Mailing
<1>10. ASSUME NEW p \in Procs, LogoCommit(p) \/ PhotoCommit(p) \/ PhotoNone(p) \/ BadgeBury(p)
       PROVE  Rest
  BY <1>9, <1>10 DEF LogoCommit, PhotoCommit, PhotoNone, PhotoWrite, BadgeBury, Mailing
<1>11. ASSUME NEW p \in Procs, AccountLogos(p) \/ AccountDelete(p) \/ Sweep(p) \/ AssetsFail(p)
       PROVE  Rest
  BY <1>1, <1>2, <1>11, Moving DEF AccountLogos, AccountDelete, Sweep, AssetsFail, Carried, Mailing
<1> QED BY <1>4, <1>5, <1>6, <1>7, <1>8, <1>10, <1>11 DEF AssetsNext

(* A request at work on the newsletter is at no step of the others.        *)
LEMMA OthersAside ==
    ASSUME NewsletterNext, DOMAIN pc = Procs, DOMAIN loc = Procs
    PROVE  \E p \in Procs, step \in Mailing \cup {"idle"} : \E held :
              Moves(p, step, held) /\ pc[p] \in Mailing \cup {"idle"}
<1>1. PICK p \in Procs :
         \/ Subscribe(p) \/ SubscribeCommit(p) \/ Refresh(p) \/ Mail(p) \/ MailFails(p)
         \/ \E t \in mailed : Unsubscribe(p, t)
         \/ Leave(p)
  BY DEF NewsletterNext
<1>2. CASE Subscribe(p) \/ \E t \in mailed : Unsubscribe(p, t)
  BY <1>2, Moving DEF Subscribe, Unsubscribe, Mailing
<1>3. CASE SubscribeCommit(p)
  BY <1>3, Moving DEF SubscribeCommit, Greet, Mailing
<1>4. CASE Refresh(p) \/ Mail(p) \/ MailFails(p) \/ Leave(p)
  BY <1>4, Moving DEF Refresh, Mail, MailFails, Leave, Mailing
<1> QED BY <1>1, <1>2, <1>3, <1>4
----------------------------------------------------------------------------
SiteInv == AccountsInv /\ AssetsInv /\ NewsInv

LEMMA SiteInvInit == SiteInit => SiteInv
<1>1. SiteInit => NewsInv
  BY DEF SiteInit, AssetsInit, RequestsInit, NewsletterInit, NewsInv, NewsType, NewsHand, Mailing
<1> QED BY <1>1, AccountsInitInv, AssetsInitInv DEF SiteInv

LEMMA SiteInvNext == SiteInv /\ [SiteNext]_siteVars => SiteInv'
<1> SUFFICES ASSUME SiteInv, [SiteNext]_siteVars PROVE SiteInv'
  OBVIOUS
<1> USE DEF SiteInv
<1>1. DOMAIN pc = Procs /\ DOMAIN loc = Procs
  BY DEF AccountsInv, AccountsType
<1>2. CASE AssetsNext /\ UNCHANGED newsVars
  <2>1. AccountsInv' /\ AssetsInv'
    BY <1>2, AssetsNextInv
  <2>2. NewsInv'
    BY <1>2, NewsAside, NewsElsewhere
  <2> QED BY <2>1, <2>2
<1>3. ASSUME UNCHANGED accountVars, UNCHANGED assetVars, DOMAIN pc' = Procs, DOMAIN loc' = Procs,
             \A p \in Procs : \/ pc'[p] = pc[p] /\ loc'[p] = loc[p]
                              \/ {pc[p], pc'[p]} \subseteq Mailing \cup {"idle"}
      PROVE  AccountsInv' /\ AssetsInv'
  <2>1. \A p \in Procs : pc'[p] \in Serving => pc'[p] = pc[p] /\ loc'[p] = loc[p]
    BY <1>3 DEF Serving, Mailing
  <2>2. AccountsInv'
    BY <1>3, <2>1, ElsewhereInv DEF accountVars, AccountsInv, AccountsType, Exists
  <2>3. UNCHANGED <<accounts, badges, store, upload, leaks, doubt>>
    BY <1>3 DEF accountVars, assetVars
  <2>4. \A p \in Procs : \/ pc'[p] = pc[p] /\ loc'[p] = loc[p]
                         \/ {pc[p], pc'[p]} \cap (Holding \cup Sweeping) = {}
    BY <1>3 DEF Holding, Sweeping, Mailing
  <2>5. leaks \subseteq leaks' /\ leaks' \subseteq Known
    BY <2>3 DEF AssetsInv, AssetsType
  <2>6. AssetsInv'
    BY <2>3, <2>4, <2>5, RowsStill, RowsInv
  <2> QED BY <2>2, <2>6
<1>4. CASE NewsletterNext /\ UNCHANGED accountVars /\ UNCHANGED assetVars
  <2>1. NewsInv'
    BY <1>1, <1>4, NewsletterInv
  <2>2. PICK p \in Procs, step \in Mailing \cup {"idle"} : \E held :
           Moves(p, step, held) /\ pc[p] \in Mailing \cup {"idle"}
    BY <1>1, <1>4, OthersAside
  <2>3. /\ DOMAIN pc' = Procs /\ DOMAIN loc' = Procs
        /\ \A q \in Procs : \/ pc'[q] = pc[q] /\ loc'[q] = loc[q]
                            \/ {pc[q], pc'[q]} \subseteq Mailing \cup {"idle"}
    BY <2>2 DEF Moves
  <2> QED BY <1>3, <1>4, <2>1, <2>3
<1>5. CASE UNCHANGED siteVars
  <2>1. UNCHANGED accountVars /\ UNCHANGED assetVars /\ UNCHANGED newsVars /\ UNCHANGED <<pc, loc>>
    BY <1>5 DEF siteVars, requestVars
  <2>2. AccountsInv' /\ AssetsInv'
    BY <1>1, <1>3, <2>1
  <2>3. NewsInv'
    BY <2>1, NewsElsewhere
  <2> QED BY <2>2, <2>3
<1> QED BY <1>2, <1>4, <1>5 DEF SiteNext

LEMMA SiteInvariant == SiteSpec => []SiteInv
BY SiteInvInit, SiteInvNext, PTL DEF SiteSpec

(* What every row, link, asset and token of the site is.                   *)
THEOREM SiteTypes == SiteSpec => []SiteTypeOK
<1>1. SiteInv => SiteTypeOK
  <2> SUFFICES ASSUME SiteInv PROVE SiteTypeOK
    OBVIOUS
  <2> USE DEF SiteInv
  <2>1. \A u \in Ids : Exists(u) => u <= born /\ accounts[u] \in Account
    BY DEF AccountsInv, AccountsType, Exists
  <2>2. \A b \in Logos : badges[b] # None => Exists(badges[b].owner) /\ badges[b].live \in BOOLEAN
    BY DEF AssetsInv, AssetsType, Badge
  <2>3. Referenced \subseteq Known
    BY DEF AssetsInv, AssetsType, Referenced
  <2>4. Referenced \cup store \cup leaks \subseteq {Asset(n) : n \in 1..upload}
    BY <2>3 DEF AssetsInv, AssetsType, Known
  <2> QED BY <2>1, <2>2, <2>4 DEF SiteTypeOK, AccountsInv, AccountsType, Account, NewsInv, NewsType
<1> QED BY <1>1, SiteInvariant, PTL

(* Addresses, Google accounts and sign-in, however callbacks overlap        *)
(* (authenticate_with_google, delete_user).                                *)
THEOREM AccountsAreSound == SiteSpec => []AccountsSound
<1>1. SiteInv => AccountsSound
  BY DEF SiteInv, AccountsInv
<1> QED BY <1>1, SiteInvariant, PTL

(* What a page shows is in Cloudinary (upload_template_logo, delete_badge,  *)
(* upload_profile_photo, delete_user).                                     *)
THEOREM AssetsAreStored == SiteSpec => []AssetsStored
<1>1. SiteInv => AssetsStored
  BY DEF SiteInv, AssetsInv
<1> QED BY <1>1, SiteInvariant, PTL

(* An asset that no row shows was lost for one of the causes noted.        *)
THEOREM NothingIsLeaked == SiteSpec => []NothingLeaks
<1>1. SiteInv => NothingLeaks
  <2> SUFFICES ASSUME SiteInv, Quiet, NEW a \in store PROVE a \in Referenced \cup leaks
    BY DEF NothingLeaks
  <2>1. \A p \in Procs : LooseOf(p) = {}
    BY DEF Quiet, Busy, LooseOf, Committing
  <2> QED BY <2>1 DEF SiteInv, AssetsInv, Accounted
<1> QED BY <1>1, SiteInvariant, PTL

(* Who is subscribed has the link that leaves (subscribe, send_welcome).   *)
THEOREM LinksWork == SiteSpec => []LinkWorks
<1>1. SiteInv => LinkWorks
  BY DEF SiteInv, NewsInv, LinkWorks, Pending, Quiet, Busy
<1> QED BY <1>1, SiteInvariant, PTL
=============================================================================

------------------------------ MODULE Accounts ------------------------------
(***************************************************************************)
(* The users table and sign-in with Google (app/services/auth.py,          *)
(* app/models/users.py, app/models/auth.py).  Each SELECT of               *)
(* authenticate_with_google is an await; PostgreSQL's constraints decide   *)
(* at the commit.  The session that a sign-in opens is in Sessions, the    *)
(* links that are mailed in EmailTokens.                                   *)
(***************************************************************************)
EXTENDS Requests, FiniteSets, Sequences

CONSTANTS
    Emails,
    Segments,   \* what a URL's path consists of
    Subjects,   \* Google accounts
    Gmail,      \* Gmail[s]: the verified address that Google reports for s
    Pictures,   \* Pictures[s]: the URL of its picture, or None
    MaxUsers,   \* accounts that can be made (a bound)
    MaxStates,  \* OAuth states that can be given out (a bound)
    Early       \* the users tables that a behaviour may begin with

Ids == 1..MaxUsers
Urls == [path : Seq(Segments), file : Nat]
Account == [email : Emails, password : BOOLEAN, verified : BOOLEAN, photo : Urls \cup {None}]

ASSUME AccountsAssumption ==
    /\ MaxUsers \in Nat /\ MaxStates \in Nat
    /\ None \notin Nat /\ None \notin Account /\ None \notin Urls
    /\ Gmail \in [Subjects -> Emails]
    /\ Pictures \in [Subjects -> Urls \cup {None}]

(* The first accounts have addresses of their own and a password.          *)
ASSUME EarlyAssumption ==
    \A rows \in Early :
       /\ rows \in [Ids -> Account \cup {None}]
       /\ \E n \in 0..MaxUsers : {u \in Ids : rows[u] # None} = 1..n
       /\ \A u, v \in Ids : rows[u] # None /\ rows[v] # None =>
             rows[u].password /\ (rows[u].email = rows[v].email => u = v)

VARIABLES
    accounts,  \* accounts[u]: a row of the users table, or None
    links,     \* links[s]: the account that Google account s is linked to, or None
    states,    \* the OAuth states that are in Redis
    minted,    \* states given out so far
    born       \* accounts made so far: identifiers are not used again

accountVars == <<accounts, links, states, minted, born>>

Exists(u) == accounts[u] # None
WithEmail(e) == {u \in Ids : Exists(u) /\ accounts[u].email = e}

(* A behaviour begins with accounts that have a password, and with a Google *)
(* sign-in under way in a browser.                                          *)
AccountsInit ==
    /\ accounts \in Early
    /\ born = Cardinality({u \in Ids : Exists(u)})
    /\ links = [s \in Subjects |-> None]
    /\ states = {1} /\ minted = 1

NewAccount(e, password, photo) ==
    [email |-> e, password |-> password, verified |-> ~password, photo |-> photo]

Born(row) ==
    /\ born < MaxUsers /\ born' = born + 1
    /\ accounts' = [accounts EXCEPT ![born + 1] = row]
----------------------------------------------------------------------------
(* signup's look at the address is repeated by the unique constraint.      *)
Signup(e) ==
    /\ AtOnce /\ WithEmail(e) = {}
    /\ Born(NewAccount(e, TRUE, None))
    /\ UNCHANGED <<links, states, minted>>

VerifyEmail(u) ==
    /\ AtOnce /\ Exists(u) /\ ~accounts[u].verified
    /\ accounts' = [accounts EXCEPT ![u].verified = TRUE]
    /\ UNCHANGED <<links, states, minted, born>>

ResetPassword(u) ==
    /\ AtOnce /\ Exists(u)
    /\ accounts' = [accounts EXCEPT ![u].password = TRUE]
    /\ UNCHANGED <<links, states, minted, born>>

ChangeEmail(u, e) ==
    /\ AtOnce /\ Exists(u) /\ WithEmail(e) = {}
    /\ accounts' = [accounts EXCEPT ![u].email = e]
    /\ UNCHANGED <<links, states, minted, born>>
----------------------------------------------------------------------------
GoogleStart ==
    /\ AtOnce /\ minted < MaxStates
    /\ minted' = minted + 1
    /\ states' = states \cup {minted + 1}
    /\ UNCHANGED <<accounts, links, born>>

StateExpires(s) ==
    /\ s \in states
    /\ states' = states \ {s}
    /\ UNCHANGED <<accounts, links, minted, born>>
    /\ UNCHANGED requestVars

(* GETDEL. *)
Taken(s) == states \ {s}

(* A callback whose state has been taken. *)
Serving == {"exchange", "userinfo", "provider", "linked", "match", "insert", "link"}

(* Without its state a callback is refused and changes nothing.            *)
Callback(p, s, sub) ==
    /\ s \in states
    /\ states' = Taken(s)
    /\ Accept(p, "exchange", [state |-> s, sub |-> sub])
    /\ UNCHANGED <<accounts, links, minted, born>>

(* The code is exchanged for tokens, then the profile is fetched; the two  *)
(* must be of one Google account.                                          *)
Exchange(p) ==
    /\ pc[p] = "exchange"
    /\ Goto(p, "userinfo", loc[p])
    /\ UNCHANGED accountVars

FetchUserInfo(p) ==
    /\ pc[p] = "userinfo"
    /\ Goto(p, "provider", loc[p])
    /\ UNCHANGED accountVars

(* Google cannot be reached or its answer is refused; a lookup fails.      *)
GoogleFails(p) ==
    /\ pc[p] \in Serving
    /\ Finish(p)
    /\ UNCHANGED accountVars

FindProvider(p) ==
    LET u == links[loc[p].sub] IN
    /\ pc[p] = "provider"
    /\ IF u # None
       THEN Goto(p, "linked", [state |-> loc[p].state, user |-> u])
       ELSE Goto(p, "match", loc[p])
    /\ UNCHANGED accountVars

(* The account of the link may have been deleted since; nothing is written *)
(* either way.                                                             *)
SignInLinked(p) ==
    /\ pc[p] = "linked"
    /\ Finish(p)
    /\ UNCHANGED accountVars

(* An unverified account with a password is refused.                       *)
MatchEmail(p) ==
    LET sub == loc[p].sub
        found == WithEmail(Gmail[sub])
    IN
    /\ pc[p] = "match"
    /\ IF found = {} THEN Goto(p, "insert", loc[p])
       ELSE \E u \in found :
          IF accounts[u].password /\ ~accounts[u].verified THEN Finish(p)
          ELSE Goto(p, "link", [state |-> loc[p].state, sub |-> sub, user |-> u,
                                verified |-> accounts[u].verified,
                                photo |-> accounts[u].photo])
    /\ UNCHANGED accountVars

\* Mutant: only the Google account is unique.
LinkableTwice(s, u) == links[s] = None

(* uq_provider_user and uq_provider_provider_user_id.                      *)
Linkable(s, u) == links[s] = None /\ u \notin {links[t] : t \in Subjects}

(* User and provider in one transaction; an IntegrityError undoes both.    *)
GoogleInsert(p) ==
    LET s == loc[p].sub IN
    /\ pc[p] = "insert"
    /\ WithEmail(Gmail[s]) = {}
    /\ Linkable(s, born + 1)
    /\ Born(NewAccount(Gmail[s], FALSE, Pictures[s]))
    /\ links' = [links EXCEPT ![s] = born + 1]
    /\ Finish(p)
    /\ UNCHANGED <<states, minted>>

(* The UPDATE writes the columns that differ from what was loaded.  The    *)
(* row may have gone: then it, or the provider's foreign key, fails.       *)
GoogleLink(p) ==
    LET me == loc[p]
        picture == Pictures[me.sub]
    IN
    /\ pc[p] = "link"
    /\ Exists(me.user) /\ Linkable(me.sub, me.user)
    /\ accounts' = [accounts EXCEPT
          ![me.user].verified = @ \/ ~me.verified,
          ![me.user].photo = IF picture \in {None, me.photo} THEN @ ELSE picture]
    /\ links' = [links EXCEPT ![me.sub] = me.user]
    /\ Finish(p)
    /\ UNCHANGED <<states, minted, born>>

AccountsStep(p) ==
    \/ \E s \in states, sub \in Subjects : Callback(p, s, sub)
    \/ Exchange(p) \/ FetchUserInfo(p) \/ FindProvider(p) \/ SignInLinked(p) \/ MatchEmail(p)
    \/ GoogleInsert(p) \/ GoogleLink(p) \/ GoogleFails(p)

AccountsNext ==
    \/ \E e \in Emails : Signup(e) \/ \E u \in Ids : ChangeEmail(u, e)
    \/ \E u \in Ids : VerifyEmail(u) \/ ResetPassword(u)
    \/ GoogleStart \/ \E s \in states : StateExpires(s)
    \/ \E p \in Procs : AccountsStep(p)
----------------------------------------------------------------------------
(* However callbacks, deletions and changes of address overlap: addresses   *)
(* are unique; a Google account leads to one account, which is there and    *)
(* whose address counts as verified, and no account has two; an account     *)
(* without a password has a Google account to sign in with; and no two      *)
(* callbacks are being served for the same state.                           *)
AccountsSound ==
    /\ \A u, v \in Ids :
          Exists(u) /\ Exists(v) /\ accounts[u].email = accounts[v].email => u = v
    /\ \A s \in Subjects : links[s] # None =>
          /\ Exists(links[s]) /\ accounts[links[s]].verified
          /\ \A t \in Subjects : links[t] = links[s] => s = t
    /\ \A u \in Ids : Exists(u) /\ ~accounts[u].password => \E s \in Subjects : links[s] = u
    /\ \A p, q \in Procs :
          pc[p] \in Serving /\ pc[q] \in Serving /\ loc[p].state = loc[q].state => p = q
=============================================================================

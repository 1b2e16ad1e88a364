------------------------------ MODULE Sessions ------------------------------
(***************************************************************************)
(* Sign-in sessions: the refresh_tokens table, the Redis blacklist of      *)
(* access tokens, and the request handlers that change them                *)
(* (app/services/auth.py, app/services/profile.py, app/routers/v1/auth.py, *)
(* app/dependencies.py).                                                   *)
(*                                                                         *)
(* A handler is a coroutine: it runs from one await to the next, and other *)
(* handlers, of this worker or of another, run in between.  Each action    *)
(* below is what one handler does between two awaits that touch shared     *)
(* state.  PostgreSQL runs at READ COMMITTED: a commit of loaded objects   *)
(* is one step; a bulk UPDATE or DELETE chooses its rows from the snapshot *)
(* its statement starts with, and changes them later, testing each again.  *)
(*                                                                         *)
(* A browser receives an access token and a refresh token together and     *)
(* sends them together, so one element of Tokens stands for the pair.  A   *)
(* family (RefreshToken.family_id, a fresh UUID) is named by the token     *)
(* that a sign-in created it with.                                         *)
(***************************************************************************)
EXTENDS Naturals, FiniteSets

CONSTANTS
    Users,       \* accounts, all verified and present at the start
    Tokens,      \* the token pairs that can ever be issued (a bound)
    Procs,       \* request handlers that can run at the same time (a bound)
    NoToken,     \* not a token
    Grace,       \* settings.REFRESH_REUSE_GRACE_SECONDS
    Lifetime,    \* of a refresh token: settings.REFRESH_TOKEN_EXPIRE_DAYS
    AccessLife,  \* of an access token: settings.ACCESS_TOKEN_EXPIRE_MINUTES
    MaxTime,     \* the last reading of the clock (a bound)
    MaxCalls     \* the requests that are served (a bound)

(***************************************************************************)
(* Clock readings are even and expires_at is odd: both are microsecond     *)
(* timestamps of different clock calls, and no reading is taken to fall    *)
(* exactly on an expires_at.  The code's two tests, expires_at < now and   *)
(* expires_at > now, are then each other's negation.                       *)
(***************************************************************************)
ASSUME SessionsAssumption ==
    /\ NoToken \notin Tokens \cup Users
    /\ Grace \in Nat /\ AccessLife \in Nat /\ MaxTime \in Nat /\ MaxCalls \in Nat
    /\ Lifetime \in Nat /\ Lifetime % 2 = 1

VARIABLES
    users,   \* rows of the users table
    row,     \* row[t]: the refresh_tokens row with the hash of t, or NoRow
    jwt,     \* jwt[t]: the claims of t's access token, NoClaims until t is issued
    black,   \* access tokens whose JTI is in the Redis blacklist
    now,     \* the clock
    pc,      \* pc[p]: where handler p stands
    loc,     \* loc[p]: handler p's local variables
    calls,   \* how many requests have arrived
    origin,  \* history: origin[t], which handler rotated which token into t
    closed,  \* history: families a family- or user-wide revocation committed for
    late     \* history: tokens rotated by a handler that such a revocation overtook

vars == <<users, row, jwt, black, now, pc, loc, calls, origin, closed, late>>
----------------------------------------------------------------------------
(* Types. *)

Row == [user : Users, family : Tokens, revoked : BOOLEAN, used : Nat, exp : Nat]
NoRow == [user |-> NoToken]

Claims == [sub : Users, exp : Nat]
NoClaims == [sub |-> NoToken]

Steps == {"idle", "signin", "refresh", "rotate", "reuse", "logoutAll", "reset",
          "apply", "changePw", "changed", "logoutCommit", "delete", "blacklist"}

(* op is the request, tok the presented pair, user and fam what was loaded *)
(* for it, at the handler's own clock reading; snap are the rows a bulk    *)
(* statement chose, seen the tokens and fams the families that existed     *)
(* when it did; late says that a revocation of fam committed meanwhile.    *)
Local == [op : Steps, tok : Tokens \cup {NoToken}, user : Users \cup {NoToken},
          fam : Tokens \cup {NoToken}, at : Nat, late : BOOLEAN,
          snap : SUBSET Tokens, seen : SUBSET Tokens, fams : SUBSET Tokens]
NoLocal == [op |-> "idle", tok |-> NoToken, user |-> NoToken, fam |-> NoToken,
            at |-> 0, late |-> FALSE, snap |-> {}, seen |-> {}, fams |-> {}]

TypeOK ==
    /\ users \subseteq Users
    /\ row \in [Tokens -> Row \cup {NoRow}]
    /\ jwt \in [Tokens -> Claims \cup {NoClaims}]
    /\ black \subseteq Tokens
    /\ now \in Nat
    /\ pc \in [Procs -> Steps]
    /\ loc \in [Procs -> Local]
    /\ calls \in Nat
    /\ origin \in [Tokens -> [parent : Tokens \cup {NoToken},
                              by : Procs \cup {NoToken}]]
    /\ closed \subseteq Tokens
    /\ late \subseteq Tokens
----------------------------------------------------------------------------
(* Reading the tables. *)

Issued == {t \in Tokens : jwt[t] # NoClaims}
Stored == {t \in Tokens : row[t] # NoRow}

(* What the session list, and logout-all's WHERE clause, call active. *)
Active(t) == t \in Stored /\ ~row[t].revoked /\ row[t].exp > now

\* Mutant: is_revoked is not looked at.
AcceptedRevoked(t) == t \in Stored /\ ~(row[t].exp < now)

(* refresh_session goes on past its checks of the row. *)
Accepted(t) == t \in Stored /\ ~row[t].revoked /\ ~(row[t].exp < now)

(* A revoked token comes back after the grace period. *)
Reused(t) == t \in Stored /\ row[t].revoked /\ ~(now <= row[t].used + Grace)

(* get_current_user lets the request through. *)
Authenticated(t) ==
    t \in Issued /\ jwt[t].exp >= now /\ t \notin black /\ jwt[t].sub \in users

(* A blacklist entry is written only for an access token with time left. *)
Blacklisted(t) == IF jwt[t].exp > now THEN black \cup {t} ELSE black
----------------------------------------------------------------------------
(* Writing the tables. *)

\* Mutant: the family is left out of a new row.
NewRowNoFamily(u, f, at) ==
    [user |-> u, family |-> NoToken, revoked |-> FALSE, used |-> at, exp |-> now + Lifetime]

NewRow(u, f, at) ==
    [user |-> u, family |-> f, revoked |-> FALSE, used |-> at, exp |-> now + Lifetime]

\* Mutants: the old token is stamped but not revoked; its row is used again.
RotatedStamped(r, at) == [r EXCEPT !.used = at]
RotatedInPlace(r, at) == [r EXCEPT !.revoked = FALSE, !.used = at]

Rotated(r, at) == [r EXCEPT !.revoked = TRUE, !.used = at]

(* logout_session leaves last_used_at alone. *)
LoggedOut(r) == [r EXCEPT !.revoked = TRUE]

\* Mutant: no foreign key.
ReferencesNothing(u) == TRUE

(* Foreign key users.id, ON DELETE CASCADE. *)
ReferencesUser(u) == u \in users

Fresh == CHOOSE t \in Tokens : t \notin Issued

\* Mutant: reuse detection revokes the session's first token, not its family.
MatchedFirst(op, u, f) ==
    CASE op = "reuse"     -> {t \in Stored : t = f}
      [] op = "logoutAll" -> {t \in Stored : row[t].user = u /\ Active(t)}
      [] OTHER            -> {t \in Stored : row[t].user = u}

\* Mutant: logout-all's WHERE clause leaves the user out.
MatchedAnyone(op, u, f) ==
    CASE op = "reuse"     -> {t \in Stored : row[t].family = f /\ ~row[t].revoked}
      [] op = "logoutAll" -> {t \in Stored : Active(t)}
      [] OTHER            -> {t \in Stored : row[t].user = u}

(* The rows a bulk statement's snapshot holds, by request: reuse takes the *)
(* family, logout-all what is active, reset everything the user has.       *)
Matched(op, u, f) ==
    CASE op = "reuse"     -> {t \in Stored : row[t].family = f /\ ~row[t].revoked}
      [] op = "logoutAll" -> {t \in Stored : row[t].user = u /\ Active(t)}
      [] OTHER            -> {t \in Stored : row[t].user = u}

(* The families those requests promise to end. *)
Families(op, u, f) ==
    IF op = "reuse" THEN {f} ELSE {row[t].family : t \in {x \in Stored : row[x].user = u}}

(* What the statement makes of a chosen row when it gets to it: reset      *)
(* deletes, the others set is_revoked (on a row revoked since, in vain).   *)
Struck(op, r) ==
    IF op = "reset" \/ r = NoRow THEN NoRow ELSE [r EXCEPT !.revoked = TRUE]
----------------------------------------------------------------------------
(* Control. *)

Idle(p) == pc[p] = "idle"
Start(p, step, data) ==
    /\ pc' = [pc EXCEPT ![p] = step]
    /\ loc' = [loc EXCEPT ![p] = data]
Accept(p) == Idle(p) /\ calls < MaxCalls /\ calls' = calls + 1
Goto(p, step) == pc' = [pc EXCEPT ![p] = step] /\ UNCHANGED loc
Finish(p) == Start(p, "idle", NoLocal)

Tables == <<users, row, jwt, black, origin, closed, late>>

(* Handler p stores a new pair t for u and sends it to the browser; parent *)
(* is the token it replaces, and rest the table the new row is added to.   *)
Issue(p, t, u, f, parent, at, rest) ==
    /\ row' = [rest EXCEPT ![t] = NewRow(u, f, at)]
    /\ jwt' = [jwt EXCEPT ![t] = [sub |-> u, exp |-> now + AccessLife]]
    /\ origin' = [origin EXCEPT ![t] = [parent |-> parent, by |-> p]]

Init ==
    /\ users = Users
    /\ row = [t \in Tokens |-> NoRow]
    /\ jwt = [t \in Tokens |-> NoClaims]
    /\ black = {}
    /\ now = 0
    /\ pc = [p \in Procs |-> "idle"]
    /\ loc = [p \in Procs |-> NoLocal]
    /\ calls = 0
    /\ origin = [t \in Tokens |-> [parent |-> NoToken, by |-> NoToken]]
    /\ closed = {}
    /\ late = {}
----------------------------------------------------------------------------
(* Opening a session: password sign-in, and the e-mail verification and    *)
(* Google callback handlers, which add the same row.                       *)

SigninRead(p, u) ==
    /\ Accept(p) /\ u \in users
    /\ Start(p, "signin", [NoLocal EXCEPT !.op = "signin", !.user = u, !.at = now])
    /\ UNCHANGED <<Tables, now>>

SigninCommit(p) ==
    /\ pc[p] = "signin" /\ ReferencesUser(loc[p].user)
    /\ Tokens \ Issued # {}
    /\ Issue(p, Fresh, loc[p].user, Fresh, NoToken, loc[p].at, row)
    /\ Finish(p)
    /\ UNCHANGED <<users, black, now, calls, closed, late>>
----------------------------------------------------------------------------
(* refresh_session. *)

RefreshRead(p, t) ==
    /\ Accept(p) /\ Accepted(t)
    /\ Start(p, "refresh", [NoLocal EXCEPT !.op = "refresh", !.tok = t, !.at = now,
                                !.user = row[t].user, !.fam = row[t].family])
    /\ UNCHANGED <<Tables, now>>

\* Mutant: the old access token is not blacklisted.
RefreshNoBlacklist(p) ==
    /\ pc[p] = "refresh" /\ loc[p].user \in users
    /\ Goto(p, "rotate")
    /\ UNCHANGED <<users, row, jwt, black, origin, now, calls, closed, late>>

RefreshBlacklist(p) ==
    /\ pc[p] = "refresh" /\ loc[p].user \in users
    /\ black' = Blacklisted(loc[p].tok)
    /\ Goto(p, "rotate")
    /\ UNCHANGED <<users, row, jwt, origin, now, calls, closed, late>>

RefreshCommit(p) ==
    LET t == loc[p].tok IN
    /\ pc[p] = "rotate" /\ t \in Stored
    /\ Tokens \ Issued # {}
    /\ Issue(p, Fresh, loc[p].user, loc[p].fam, t, loc[p].at,
             [row EXCEPT ![t] = Rotated(row[t], loc[p].at)])
    /\ late' = IF loc[p].late \/ t \in late THEN late \cup {Fresh} ELSE late
    /\ Finish(p)
    /\ UNCHANGED <<users, black, now, calls, closed>>

ReuseRead(p, t) ==
    /\ Accept(p) /\ Reused(t)
    /\ Start(p, "reuse", [NoLocal EXCEPT !.op = "reuse", !.tok = t,
                              !.user = row[t].user, !.fam = row[t].family])
    /\ UNCHANGED <<Tables, now>>
----------------------------------------------------------------------------
(* Family- and user-wide revocation. *)

LogoutAll(p, t) ==
    /\ Accept(p) /\ Authenticated(t)
    /\ Start(p, "logoutAll",
             [NoLocal EXCEPT !.op = "logoutAll", !.tok = t, !.user = jwt[t].sub])
    /\ UNCHANGED <<Tables, now>>

ResetPassword(p, u) ==
    /\ Accept(p) /\ u \in users
    /\ Start(p, "reset", [NoLocal EXCEPT !.op = "reset", !.user = u])
    /\ UNCHANGED <<Tables, now>>

(* The statement starts.  Reset flushes the new password hash first, which *)
(* fails when the account is gone.                                         *)
BulkSnapshot(p) ==
    LET op == loc[p].op IN
    /\ pc[p] \in {"reuse", "logoutAll", "reset"}
    /\ op = "reset" => loc[p].user \in users
    /\ Start(p, "apply",
             [loc[p] EXCEPT !.snap = Matched(op, loc[p].user, loc[p].fam),
                            !.seen = Issued,
                            !.fams = Families(op, loc[p].user, loc[p].fam)])
    /\ UNCHANGED <<Tables, now, calls>>

(* It changes its rows and the transaction commits.  Handlers that loaded  *)
(* a token of an ended family before are now late.                         *)
BulkApply(p) ==
    LET me == loc[p]
        next == IF me.op = "logoutAll" THEN "blacklist" ELSE "idle"
        overtaken(q) == pc[q] \in {"refresh", "rotate"} /\ loc[q].fam \in me.fams
    IN
    /\ pc[p] = "apply"
    /\ row' = [t \in Tokens |-> IF t \in me.snap THEN Struck(me.op, row[t]) ELSE row[t]]
    /\ closed' = closed \cup me.fams
    /\ late' = late \cup {t \in Stored \ me.seen : row[t].family \in me.fams}
    /\ pc' = [pc EXCEPT ![p] = next]
    /\ loc' = [q \in Procs |->
                 IF q = p THEN IF next = "idle" THEN NoLocal ELSE me
                 ELSE IF overtaken(q) THEN [loc[q] EXCEPT !.late = TRUE] ELSE loc[q]]
    /\ UNCHANGED <<users, jwt, black, now, calls, origin>>
----------------------------------------------------------------------------
(* One session: logout, and the logout at the end of change_password. *)

LogoutSelect(p, t, op) ==
    Start(p, IF t \in Stored /\ ~row[t].revoked THEN "logoutCommit" ELSE "blacklist",
          [NoLocal EXCEPT !.op = op, !.tok = t, !.user = jwt[t].sub])

Logout(p, t) ==
    /\ Accept(p) /\ t \in Issued
    /\ LogoutSelect(p, t, "logoutCommit")
    /\ UNCHANGED <<Tables, now>>

LogoutCommit(p) ==
    LET t == loc[p].tok IN
    /\ pc[p] = "logoutCommit" /\ t \in Stored
    /\ row' = [row EXCEPT ![t] = LoggedOut(row[t])]
    /\ Goto(p, "blacklist")
    /\ UNCHANGED <<users, jwt, black, now, calls, origin, closed, late>>

Blacklist(p) ==
    /\ pc[p] = "blacklist"
    /\ black' = Blacklisted(loc[p].tok)
    /\ Finish(p)
    /\ UNCHANGED <<users, row, jwt, now, calls, origin, closed, late>>

ChangePassword(p, t) ==
    /\ Accept(p) /\ Authenticated(t)
    /\ Start(p, "changePw",
             [NoLocal EXCEPT !.op = "changePw", !.tok = t, !.user = jwt[t].sub])
    /\ UNCHANGED <<Tables, now>>

ChangePasswordCommit(p) ==
    /\ pc[p] = "changePw" /\ loc[p].user \in users
    /\ Goto(p, "changed")
    /\ UNCHANGED <<Tables, now, calls>>

ChangePasswordLogout(p) ==
    /\ pc[p] = "changed"
    /\ LogoutSelect(p, loc[p].tok, "changePw")
    /\ UNCHANGED <<Tables, now, calls>>
----------------------------------------------------------------------------
(* delete_profile.  The cascade removes every token row; the logout that   *)
(* follows finds none and only blacklists.  A reset that has flushed its   *)
(* new password holds the user's row lock until it commits.                *)

DeleteProfile(p, t) ==
    /\ Accept(p) /\ Authenticated(t)
    /\ Start(p, "delete", [NoLocal EXCEPT !.op = "delete", !.tok = t, !.user = jwt[t].sub])
    /\ UNCHANGED <<Tables, now>>

DeleteCommit(p) ==
    LET u == loc[p].user IN
    /\ pc[p] = "delete"
    /\ \A q \in Procs : ~(pc[q] = "apply" /\ loc[q].op = "reset" /\ loc[q].user = u)
    /\ users' = users \ {u}
    /\ row' = [t \in Tokens |-> IF t \in Stored /\ row[t].user = u THEN NoRow ELSE row[t]]
    /\ Goto(p, "blacklist")
    /\ UNCHANGED <<jwt, black, now, calls, origin, closed, late>>
----------------------------------------------------------------------------
(* The worker dies, the client disconnects, or the transaction fails and   *)
(* is rolled back: nothing more of the request happens.  It is all that is *)
(* left to a handler whose row or account was deleted meanwhile: the       *)
(* UPDATE matches no row (StaleDataError), the INSERT breaks the foreign   *)
(* key, session.get finds no user.                                         *)
Abort(p) ==
    /\ ~Idle(p)
    /\ Finish(p)
    /\ UNCHANGED <<Tables, now, calls>>

Tick ==
    /\ now < MaxTime
    /\ now' = now + 2
    /\ UNCHANGED <<Tables, pc, loc, calls>>

Next ==
    \/ \E p \in Procs, u \in Users : SigninRead(p, u) \/ ResetPassword(p, u)
    \/ \E p \in Procs, t \in Tokens :
          \/ RefreshRead(p, t) \/ ReuseRead(p, t)
          \/ LogoutAll(p, t) \/ Logout(p, t)
          \/ ChangePassword(p, t) \/ DeleteProfile(p, t)
    \/ \E p \in Procs :
          \/ SigninCommit(p) \/ RefreshBlacklist(p) \/ RefreshCommit(p)
          \/ BulkSnapshot(p) \/ BulkApply(p)
          \/ LogoutCommit(p) \/ Blacklist(p)
          \/ ChangePasswordCommit(p) \/ ChangePasswordLogout(p)
          \/ DeleteCommit(p) \/ Abort(p)
    \/ Tick

Spec == Init /\ [][Next]_vars
----------------------------------------------------------------------------
(* Properties. *)

Parent(c) == origin[c].parent
Child(c, t) == c \in Issued /\ Parent(c) = t

(* Refreshing a token ends it for good: no interleaving leaves a token that *)
(* has been exchanged for another one usable (refresh_session commits both  *)
(* rows in one transaction).                                                *)
RotatedIsDead ==
    \A t, c \in Tokens : Child(c, t) => t \notin Stored \/ row[t].revoked

(* Two tokens rotated out of the same one come from two handlers that had   *)
(* both read it before either committed: refreshes one after the other can  *)
(* not fork a session.                                                      *)
SiblingsOverlap ==
    \A t, c, d \in Tokens :
       Child(c, t) /\ Child(d, t) /\ c # d => origin[c].by # origin[d].by

(* After reuse detection, logout-all or a password reset has committed, an  *)
(* active token of the families it ended was rotated by a handler that the  *)
(* revocation overtook, or descends from such a token.                      *)
SurvivorsAreLate ==
    \A t \in Tokens : Active(t) /\ row[t].family \in closed => t \in late

(* No commit of objects loaded earlier, and no bulk statement, gives a      *)
(* revoked or deleted refresh token back its life.                          *)
RevocationFinal ==
    [][\A t \in Issued : (t \in Stored => row[t].revoked)
                            => (t \in Stored' => t \in Stored /\ row'[t].revoked)]_vars

(* The order across the two stores: by the time a token has been rotated,   *)
(* the access token that came with it is in the blacklist or has used up    *)
(* its time.                                                                *)
AccessDeadBeforeRotation ==
    \A t, c \in Tokens : Child(c, t) => t \in black \/ jwt[t].exp <= now

(* Deleting an account leaves no session behind, whatever sign-ins and      *)
(* refreshes of it are in flight.                                           *)
NoOrphanSessions == \A t \in Stored : row[t].user \in users

(* What the code promises of refreshes and revocations that do not overlap: *)
(* a session has one active token (of PromiseKept's one key) ...            *)
OneActivePerFamily ==
    \A t, d \in Tokens :
       Active(t) /\ Active(d) /\ row[t].family = row[d].family => t = d

(* ... and reuse detection, logout-all and a password reset end the         *)
(* sessions they are about.                                                 *)
EndedMeansDead == \A t \in Tokens : ~(Active(t) /\ row[t].family \in closed)

(* Changing the password "invalidates other active sessions": none of them  *)
(* has an active token when the request completes.                          *)
PasswordChangeEndsSessions ==
    [][\A p \in Procs :
          (pc[p] = "blacklist" /\ loc[p].op = "changePw" /\ Blacklist(p))
             => \A t \in Tokens : ~(Active(t) /\ row[t].user = loc[p].user)]_vars

(* A session as its owner sees it: see SessionPromise.  It is named by the  *)
(* token of its sign-in, and its key is its one unrevoked token.            *)
Root(f) == f \in Issued /\ Parent(f) = NoToken
Going(f) == {t \in Stored : row[t].family = f /\ ~row[t].revoked}

State(f) ==
    IF ~Root(f) THEN "absent"
    ELSE IF Going(f) = {} THEN "ended"
    ELSE IF \E t \in Going(f) : Active(t) THEN "open" ELSE "lapsed"
Who(f) == IF Root(f) THEN jwt[f].sub ELSE NoToken
Key(f) ==
    IF \E t \in Tokens : Going(f) = {t}
    THEN CHOOSE t \in Tokens : Going(f) = {t} ELSE NoToken

Promise == INSTANCE SessionPromise WITH
    Sessions <- Tokens, Keys <- Tokens, None <- NoToken,
    state <- [f \in Tokens |-> State(f)], who <- [f \in Tokens |-> Who(f)],
    key <- [f \in Tokens |-> Key(f)], given <- Issued

(* Served one at a time, however requests break off, sign-in, refresh,      *)
(* logout, reuse detection, logout-all, password reset and the deletion of  *)
(* an account keep what SessionPromise says.                                *)
PromiseKept == Promise!Spec
============================================================================

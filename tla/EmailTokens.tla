----------------------------- MODULE EmailTokens -----------------------------
(***************************************************************************)
(* The one-time links a user is mailed: to verify the address and to reset *)
(* the password (app/core/token.py; signup, resend_verification_email,     *)
(* request_password_reset and reset_password in app/services/auth.py;      *)
(* verify_email in app/routers/v1/auth.py).                                *)
(*                                                                         *)
(* Redis holds a key per token.  A verification token also has an index    *)
(* key, from its user to the token, through which the next request of a    *)
(* link revokes it.  Every Redis command is a step of its own, and any     *)
(* other request runs between two of them.                                 *)
(***************************************************************************)
EXTENDS Naturals, FiniteSets

CONSTANTS
    Users,    \* user ids, each created by one sign-up (a bound)
    Tokens,   \* the tokens that can ever be generated (a bound)
    Procs,    \* requests that can be served at the same time (a bound)
    None,     \* nothing
    Life      \* the two *_TOKEN_TTL_MINUTES settings, which are equal

ASSUME EmailTokensAssumption ==
    /\ None \notin Users \cup Tokens
    /\ Life \in Nat \ {0}

VARIABLES
    account,  \* account[u]: the users row of u and its is_email_verified
    key,      \* key[t]: what Redis keeps under t's hash, or NoKey
    index,    \* index[u]: the token Redis keeps under u, or NoIndex
    pc,       \* pc[p]: where request p stands
    loc,      \* loc[p]: its local variables
    made,     \* tokens that were generated: never again
    left,     \* history: left[t], how long the mail says that t will work
    mailed,   \* history: tokens whose mail was sent
    clicked,  \* history: tokens a request has consumed
    uses,     \* history: uses[t], how often t has verified or reset something
    newest,   \* history: newest[u], the last verification token mailed to u
    asked,    \* history: users that have asked for another link since
    shared    \* history: two requests have been under way at the same time

vars == <<account, key, index, pc, loc, made, left, mailed, clicked, uses, newest, asked,
          shared>>
----------------------------------------------------------------------------
(* Types. *)

Ops == {"none", "signup", "resend", "forgot", "verify", "reset"}
Steps == {"idle", "lookup", "revoke", "unindex", "store", "index", "commit", "mail",
          "load", "use"}

Key == [user : Users, kind : {"verify", "reset"}, ttl : 1..Life]
NoKey == [user |-> None]
Index == [token : Tokens, ttl : 1..Life]
NoIndex == [token |-> None]

(* The user a request is about, the token it generated or presents, and    *)
(* the earlier token it found in the index.                                *)
Local == [op : Ops, user : Users \cup {None}, token : Tokens \cup {None},
          old : Tokens \cup {None}]
NoLocal == [op |-> "none", user |-> None, token |-> None, old |-> None]

TypeOK ==
    /\ account \in [Users -> {"unused", "pending", "unverified", "verified", "gone"}]
    /\ key \in [Tokens -> Key \cup {NoKey}]
    /\ index \in [Users -> Index \cup {NoIndex}]
    /\ pc \in [Procs -> Steps] /\ loc \in [Procs -> Local]
    /\ left \in [Tokens -> 0..Life]
    /\ made \subseteq Tokens /\ mailed \subseteq Tokens /\ clicked \subseteq Tokens
    /\ uses \in [Tokens -> Nat]
    /\ newest \in [Users -> Tokens \cup {None}]
    /\ asked \subseteq Users
    /\ shared \in BOOLEAN

Live == {t \in Tokens : key[t] # NoKey}
Exists(u) == account[u] \in {"unverified", "verified"}
----------------------------------------------------------------------------
(* Control. *)

Accept(p, step, data) ==
    /\ pc[p] = "idle"
    /\ pc' = [pc EXCEPT ![p] = step]
    /\ loc' = [loc EXCEPT ![p] = data]
    /\ shared' = (shared \/ \E q \in Procs \ {p} : pc[q] # "idle")
Goto(p, step) == pc' = [pc EXCEPT ![p] = step] /\ UNCHANGED <<loc, shared>>
Finish(p) ==
    /\ pc' = [pc EXCEPT ![p] = "idle"]
    /\ loc' = [loc EXCEPT ![p] = NoLocal]
    /\ UNCHANGED shared

Redis == <<key, index, made>>
Mail == <<left, mailed, newest, asked>>
Links == <<clicked, uses>>

Init ==
    /\ account = [u \in Users |-> "unused"]
    /\ key = [t \in Tokens |-> NoKey]
    /\ index = [u \in Users |-> NoIndex]
    /\ pc = [p \in Procs |-> "idle"] /\ loc = [p \in Procs |-> NoLocal]
    /\ left = [t \in Tokens |-> 0]
    /\ made = {} /\ mailed = {} /\ clicked = {}
    /\ uses = [t \in Tokens |-> 0]
    /\ newest = [u \in Users |-> None]
    /\ asked = {}
    /\ shared = FALSE
----------------------------------------------------------------------------
(* Asking for a link. *)

(* signup: the row is flushed, not committed; its id is new. *)
Signup(p, u) ==
    /\ account[u] = "unused"
    /\ account' = [account EXCEPT ![u] = "pending"]
    /\ Accept(p, "lookup", [NoLocal EXCEPT !.op = "signup", !.user = u])
    /\ UNCHANGED <<Redis, Mail, Links>>

Resend(p, u) ==
    /\ account[u] = "unverified"
    /\ Accept(p, "lookup", [NoLocal EXCEPT !.op = "resend", !.user = u])
    /\ asked' = asked \cup {u}
    /\ UNCHANGED <<account, Redis, left, mailed, newest, Links>>

Forgot(p, u) ==
    /\ Exists(u)
    /\ Accept(p, "store", [NoLocal EXCEPT !.op = "forgot", !.user = u])
    /\ UNCHANGED <<account, Redis, Mail, Links>>

(* revoke_previous_verification_token: GET the index, DEL the token, DEL   *)
(* the index.                                                              *)
Lookup(p) ==
    LET old == index[loc[p].user].token IN
    /\ pc[p] = "lookup"
    /\ pc' = [pc EXCEPT ![p] = IF old = None THEN "store" ELSE "revoke"]
    /\ loc' = [loc EXCEPT ![p].old = old]
    /\ UNCHANGED <<account, Redis, Mail, Links, shared>>

\* Mutant: only the index is deleted.
RevokeNothing(p) ==
    /\ pc[p] = "revoke"
    /\ Goto(p, "unindex")
    /\ UNCHANGED <<account, Redis, Mail, Links>>

Revoke(p) ==
    /\ pc[p] = "revoke"
    /\ key' = [key EXCEPT ![loc[p].old] = NoKey]
    /\ Goto(p, "unindex")
    /\ UNCHANGED <<account, index, made, Mail, Links>>

Unindex(p) ==
    /\ pc[p] = "unindex"
    /\ index' = [index EXCEPT ![loc[p].user] = NoIndex]
    /\ Goto(p, "store")
    /\ UNCHANGED <<account, key, made, Mail, Links>>

\* Mutants: the key lives shorter than the mail says, or longer.
ShortLife == Life - 1
LongLife == Life + 1

KeyLife == Life

(* generate_token, and the first SET of store_verification_token or the    *)
(* one of store_password_reset_token.                                      *)
Store(p) ==
    \E t \in Tokens :
       LET kind == IF loc[p].op = "forgot" THEN "reset" ELSE "verify" IN
       /\ pc[p] = "store"
       /\ t \notin made /\ made' = made \cup {t}
       /\ key' = [key EXCEPT ![t] = [user |-> loc[p].user, kind |-> kind, ttl |-> KeyLife]]
       /\ left' = [left EXCEPT ![t] = Life]
       /\ pc' = [pc EXCEPT ![p] = IF kind = "reset" THEN "mail" ELSE "index"]
       /\ loc' = [loc EXCEPT ![p].token = t]
       /\ UNCHANGED <<account, index, mailed, newest, asked, Links, shared>>

SetIndex(p) ==
    /\ pc[p] = "index"
    /\ index' = [index EXCEPT ![loc[p].user] = [token |-> loc[p].token, ttl |-> Life]]
    /\ Goto(p, IF loc[p].op = "signup" THEN "commit" ELSE "mail")
    /\ UNCHANGED <<account, key, made, Mail, Links>>

SignupCommit(p) ==
    /\ pc[p] = "commit"
    /\ account' = [account EXCEPT ![loc[p].user] = "unverified"]
    /\ Goto(p, "mail")
    /\ UNCHANGED <<Redis, Mail, Links>>

SendMail(p) ==
    LET me == loc[p] IN
    /\ pc[p] = "mail"
    /\ mailed' = mailed \cup {me.token}
    /\ newest' = IF me.op = "forgot" THEN newest
                 ELSE [newest EXCEPT ![me.user] = me.token]
    /\ asked' = IF me.op = "forgot" THEN asked ELSE asked \ {me.user}
    /\ Finish(p)
    /\ UNCHANGED <<account, Redis, left, Links>>
----------------------------------------------------------------------------
(* Using a link. *)

\* Mutant: GET in the place of GETDEL.
KeptKey(t) == key

Consumed(t) == [key EXCEPT ![t] = NoKey]

(* GETDEL; without the key, the answer is an error and nothing changes.    *)
(* verify_email leaves the index as it is.                                 *)
Click(p, t) ==
    /\ t \in mailed \cap Live
    /\ Accept(p, "load", [NoLocal EXCEPT !.op = key[t].kind, !.user = key[t].user,
                                         !.token = t])
    /\ key' = Consumed(t)
    /\ clicked' = clicked \cup {t}
    /\ UNCHANGED <<account, index, made, Mail, uses>>

(* verify_email turns away an account that is verified already. *)
Usable(op, u) == IF op = "verify" THEN account[u] = "unverified" ELSE Exists(u)

Load(p) ==
    /\ pc[p] = "load" /\ Usable(loc[p].op, loc[p].user)
    /\ Goto(p, "use")
    /\ UNCHANGED <<account, Redis, Mail, Links>>

(* The commit: the address is verified and a session opened, or the        *)
(* password changed and every session closed (see Sessions).               *)
Use(p) ==
    LET me == loc[p] IN
    /\ pc[p] = "use" /\ Exists(me.user)
    /\ account' = [account EXCEPT ![me.user] = IF me.op = "verify" THEN "verified" ELSE @]
    /\ uses' = [uses EXCEPT ![me.token] = @ + 1]
    /\ Finish(p)
    /\ UNCHANGED <<Redis, Mail, clicked>>
----------------------------------------------------------------------------
(* A request ends early: the worker dies, Redis, the database or the mail  *)
(* server fails, or a check turns it away.  An uncommitted sign-up is      *)
(* rolled back; its user id never comes back.                              *)
Abort(p) ==
    /\ pc[p] # "idle"
    /\ account' = IF loc[p].op = "signup" /\ account[loc[p].user] = "pending"
                  THEN [account EXCEPT ![loc[p].user] = "gone"] ELSE account
    /\ Finish(p)
    /\ UNCHANGED <<Redis, Mail, Links>>

DeleteAccount(u) ==
    /\ account[u] = "verified"
    /\ account' = [account EXCEPT ![u] = "gone"]
    /\ UNCHANGED <<Redis, pc, loc, Mail, Links, shared>>

(* Redis drops what has expired. *)
Tick ==
    LET older(r, gone) == IF r = gone \/ r.ttl = 1 THEN gone ELSE [r EXCEPT !.ttl = @ - 1] IN
    /\ \E t \in Tokens : left[t] > 0
    /\ key' = [t \in Tokens |-> older(key[t], NoKey)]
    /\ index' = [u \in Users |-> older(index[u], NoIndex)]
    /\ left' = [t \in Tokens |-> IF left[t] = 0 THEN 0 ELSE left[t] - 1]
    /\ UNCHANGED <<account, pc, loc, made, mailed, newest, asked, Links, shared>>

Next ==
    \/ \E p \in Procs, u \in Users : Signup(p, u) \/ Resend(p, u) \/ Forgot(p, u)
    \/ \E p \in Procs, t \in Tokens : Click(p, t)
    \/ \E p \in Procs :
          \/ Lookup(p) \/ Revoke(p) \/ Unindex(p) \/ Store(p) \/ SetIndex(p)
          \/ SignupCommit(p) \/ SendMail(p) \/ Load(p) \/ Use(p) \/ Abort(p)
    \/ \E u \in Users : DeleteAccount(u)
    \/ Tick

Spec == Init /\ [][Next]_vars
----------------------------------------------------------------------------
(* A link works once, however many requests present it at the same time:    *)
(* GETDEL lets one of them have it.                                         *)
UsedOnce == \A t \in Tokens : uses[t] <= 1

(* Requests that do not overlap leave a user one working verification link, *)
(* wherever an earlier one broke off: resending "revokes any previously     *)
(* outstanding verification token".                                         *)
OneLiveLink ==
    ~shared => \A t, d \in Live \cap mailed :
                  key[t].user = key[d].user /\ key[t].kind = "verify" /\ key[d].kind = "verify"
                     => t = d

(* The link in the newest mail works until it is used, it expires, or       *)
(* another is asked for; while requests do not overlap.                     *)
NewestLinkWorks ==
    ~shared => \A u \in Users :
                  LET t == newest[u] IN
                  t # None /\ u \notin asked /\ t \notin clicked /\ left[t] > 0 => t \in Live
============================================================================

---------------------------- MODULE Notifications ----------------------------
(***************************************************************************)
(* An organiser's notification preferences and in-app notifications        *)
(* (app/services/notification.py, app/models/notifications.py,             *)
(* app/routers/v1/notifications.py).  The notifications themselves are     *)
(* inserted by Participation and Digests.                                  *)
(***************************************************************************)
EXTENDS Requests, FiniteSets

CONSTANTS
    Users,    \* accounts
    Updates,  \* the preference updates that are sent
    Limit,    \* the page size that listings are asked for
    MaxClock  \* the last half day (a bound)

Kinds == {"daily", "weekly"}
Toggles == {"alert"} \cup Kinds

(* The e-mail toggles of the row are stored and shown and never read.      *)
ASSUME NotificationsAssumption ==
    /\ None \notin Users
    /\ Updates \subseteq [yes : SUBSET Toggles, no : SUBSET Toggles]
    /\ Limit \in Nat \ {0}
    /\ MaxClock \in Nat

VARIABLES
    users,  \* rows of the users table
    prefs,  \* prefs[u]: u's row of user_notification_preferences, or NoPrefs
    notes,  \* rows of the notifications table
    begun,  \* transactions begun: PostgreSQL's now() at this grain
    clock   \* half days: 2d until 20:00 UTC of day d, 2d+1 after

noticeVars == <<users, prefs, notes, begun, clock>>

Today == clock \div 2
Evening == clock % 2 = 1
----------------------------------------------------------------------------
(* on: the toggles that are on; updated: updated_at. *)
Prefs == [on : SUBSET Toggles, updated : Nat]
NoPrefs == [on |-> Toggles, updated |-> 0]

(* A request without a row gets the defaults: everything on. *)
Row(u) == prefs[u] # NoPrefs
Allows(u, t) == t \in prefs[u].on

(* INSERT with the defaults, ON CONFLICT (user_id) DO UPDATE of the fields *)
(* in the request: NoPrefs has the defaults.                               *)
Saved(u, upd) == (prefs[u].on \cup upd.yes) \ upd.no

(* A DELETE of the account holds its row until it commits; whatever refers *)
(* to the account waits for it.                                            *)
Going(u) == \E p \in Procs : pc[p] = "cascade" /\ loc[p].user = u

SavePreferences(u, upd) ==
    /\ AtOnce /\ u \in users /\ ~Going(u)
    /\ begun' = begun + 1
    /\ prefs' = [prefs EXCEPT ![u] = [on |-> Saved(u, upd), updated |-> begun + 1]]
    /\ UNCHANGED <<users, notes, clock>>
----------------------------------------------------------------------------
(* created_at is the time the inserting transaction began: `at' orders it, *)
(* `day' is its date.  A notification of a creation is about a badge, a    *)
(* digest about a period and the creations it counted.                     *)
Alert(u, b, at, day) ==
    [user |-> u, type |-> "alert", at |-> at, day |-> day, read |-> FALSE, badge |-> b]
Digest(u, k, at, period, n, top) ==
    [user |-> u, type |-> k, at |-> at, read |-> FALSE,
     period |-> period, count |-> n, top |-> top]

Inbox(u) == {n \in notes : n.user = u}
Unread(u) == {n \in Inbox(u) : ~n.read}

Read(S) == (notes \ S) \cup {[n EXCEPT !.read = TRUE] : n \in S}
ReadAll(u) == Read(Unread(u))

MarkRead(u, n) ==
    /\ AtOnce /\ u \in users /\ n \in notes /\ n.user = u
    /\ notes' = Read({n})
    /\ UNCHANGED <<users, prefs, begun, clock>>

MarkAllRead(u) ==
    /\ AtOnce /\ u \in users
    /\ notes' = ReadAll(u)
    /\ UNCHANGED <<users, prefs, begun, clock>>
----------------------------------------------------------------------------
(* Listing.  A client asks for page 1, 2, ... until there is no next link. *)
(* Each request counts and then selects, in two statements; others commit  *)
(* between them and between the pages.                                     *)

(* Newest first: n's place in the listing. *)
Rank(u, n) == Cardinality({m \in Inbox(u) : m.at >= n.at})

(* OFFSET (page - 1) * limit LIMIT limit. *)
Page(u, k) == {n \in Inbox(u) : (k - 1) * Limit < Rank(u, n) /\ Rank(u, n) <= k * Limit}

\* Mutant: a next link only when the next page is full.
MoreFull(k, total) == (k + 1) * Limit <= total

More(k, total) == k * Limit < total

WalkStart(p, u) ==
    /\ u \in users
    /\ Accept(p, "slice", [user |-> u, page |-> 1, total |-> Cardinality(Inbox(u)),
                           seen |-> {}, first |-> {n.at : n \in Inbox(u)}, torn |-> FALSE])
    /\ UNCHANGED noticeVars

(* torn is an observation: a notification was inserted between the count   *)
(* and the select of one page.                                             *)
WalkSlice(p) ==
    LET me == loc[p]
        got == [me EXCEPT !.seen = @ \cup {n.at : n \in Page(me.user, me.page)},
                          !.torn = @ \/ me.total # Cardinality(Inbox(me.user))]
    IN
    /\ pc[p] = "slice"
    /\ Goto(p, IF More(me.page, me.total) THEN "next" ELSE "walked", got)
    /\ UNCHANGED noticeVars

WalkNext(p) ==
    /\ pc[p] = "next" /\ loc[p].user \in users
    /\ Goto(p, "slice", [loc[p] EXCEPT !.page = @ + 1,
                                       !.total = Cardinality(Inbox(loc[p].user))])
    /\ UNCHANGED noticeVars

WalkEnd(p) ==
    /\ pc[p] = "walked"
    /\ Finish(p)
    /\ UNCHANGED noticeVars

Tick ==
    /\ clock < MaxClock
    /\ clock' = clock + 1
    /\ UNCHANGED <<users, prefs, notes, begun>>
    /\ UNCHANGED requestVars

NotificationsNext ==
    \/ \E u \in Users :
          \/ \E upd \in Updates : SavePreferences(u, upd)
          \/ \E n \in notes : MarkRead(u, n)
          \/ MarkAllRead(u)
    \/ \E p \in Procs :
          \/ \E u \in Users : WalkStart(p, u)
          \/ WalkSlice(p) \/ WalkNext(p) \/ WalkEnd(p)
----------------------------------------------------------------------------
(* Pages are numbered by offset, so notifications that arrive while a      *)
(* client turns the pages push the rest down.  A client that follows       *)
(* `next' to the end has still been shown every notification there was     *)
(* when it began; it misses one only when an insert falls between the      *)
(* count and the select of one page.                                       *)
WalkSeesAll ==
    \A p \in Procs :
       pc[p] = "walked" /\ ~loc[p].torn
          => loc[p].first \cap {n.at : n \in Inbox(loc[p].user)} \subseteq loc[p].seen
=============================================================================

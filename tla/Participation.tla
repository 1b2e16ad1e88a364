--------------------------- MODULE Participation ---------------------------
(***************************************************************************)
(* Badges as participants and administrators see them: creation from a     *)
(* platform template, the participants' creations and shares with their    *)
(* counters and notifications, the deletion of accounts and templates      *)
(* (app/services/badge.py, profile.py, admin.py).  What organisers edit,   *)
(* and how their edits overlap, is in Badges: here publication is one      *)
(* step.                                                                   *)
(***************************************************************************)
EXTENDS Notifications, Sequences, FiniteSetsExt

CONSTANTS
    Templates,  \* platform templates
    MaxBadges,  \* badges that can be made (a bound)
    Founded,    \* the badges there are at the start, <<[owner, template], ...>>
    Past        \* their creations so far, <<[badge, day], ...>> in their order

Badges == 1..MaxBadges  \* identifiers are UUIDv7: they grow

ASSUME ParticipationAssumption ==
    /\ MaxBadges \in Nat /\ None \notin Templates
    /\ Founded \in Seq([owner : Users, template : Templates]) /\ Len(Founded) <= MaxBadges
    /\ Past \in Seq([badge : DOMAIN Founded, day : Nat])

VARIABLES
    badges,     \* badges[b]: a row of the badges table, or None
    templates,  \* templates[t]: its row of platform_templates
    origin      \* origin[b]: the template b was made from, also once b is gone

siteVars == <<users, prefs, notes, begun, clock, badges, templates, origin>>

Badge == [owner : Users, template : Templates, public : BOOLEAN, deleted : BOOLEAN,
          created : Nat, shares : Nat]
Template == [stage : {"new", "stored", "deleted"}, active : BOOLEAN, total : Nat]

ASSUME BadgeAssumption == None \notin Badge

Live(b) == badges[b] # None /\ ~badges[b].deleted
Public(b) == Live(b) /\ badges[b].public
Owned(u) == {b \in Badges : badges[b] # None /\ badges[b].owner = u}
Mine(u) == {b \in Owned(u) : Live(b)}  \* what the organiser is listed
Stored(t) == templates[t].stage = "stored"
(* The templates that everyone is shown, and that a badge can be made from. *)
Gallery == {t \in Templates : Stored(t) /\ templates[t].active}
Fresh == {b \in Badges : origin[b] = None /\ \A c \in 1..(b - 1) : origin[c] # None}

(* A creation's UPDATE holds the badge's row until its transaction ends.   *)
Held(b) == \E p \in Procs : pc[p] \in {"alert", "insert"} /\ loc[p].badge = b

NewBadge(u, t) ==
    [owner |-> u, template |-> t, public |-> FALSE, deleted |-> FALSE,
     created |-> 0, shares |-> 0]

ParticipationInit ==
    /\ RequestsInit
    /\ users = Users /\ prefs = [u \in Users |-> NoPrefs]
    /\ badges = [b \in Badges |->
          IF b \in DOMAIN Founded
          THEN [NewBadge(Founded[b].owner, Founded[b].template) EXCEPT
                   !.public = TRUE,
                   !.created = Cardinality({i \in DOMAIN Past : Past[i].badge = b})]
          ELSE None]
    /\ origin = [b \in Badges |-> IF b \in DOMAIN Founded THEN Founded[b].template ELSE None]
    /\ templates = [t \in Templates |->
          LET from == {b \in DOMAIN Founded : Founded[b].template = t} IN
          [stage |-> IF from = {} THEN "new" ELSE "stored", active |-> from # {},
           total |-> Cardinality(from)]]
    /\ begun = Len(Past)
    /\ notes = {Alert(Founded[Past[i].badge].owner, Past[i].badge, i, Past[i].day)
                   : i \in DOMAIN Past}
----------------------------------------------------------------------------
(* Creation.  create_badge looks for an active template, duplicate_badge   *)
(* for a badge of the organiser; both then insert a row and count it.      *)
CreateBadge(p, u, t) ==
    /\ u \in users /\ t \in Gallery
    /\ Accept(p, "create", [user |-> u, template |-> t])
    /\ UNCHANGED siteVars

Duplicate(p, b) ==
    /\ Live(b)
    /\ Accept(p, "create", [user |-> badges[b].owner, template |-> badges[b].template])
    /\ UNCHANGED siteVars

Counted(t) == [templates EXCEPT ![t].total = @ + 1]

\* Mutant: no foreign key to the template.
RefersToUser(u, t) == u \in users

RefersTo(u, t) == u \in users /\ Stored(t)

(* The foreign keys make the insert wait for a deletion under way, and fail *)
(* when the account or the template is gone.                                *)
CreateCommit(p) ==
    LET u == loc[p].user
        t == loc[p].template
    IN
    /\ pc[p] = "create" /\ ~Going(u)
    /\ RefersTo(u, t)
    /\ \E b \in Fresh :
          /\ badges' = [badges EXCEPT ![b] = NewBadge(u, t)]
          /\ origin' = [origin EXCEPT ![b] = t]
    /\ templates' = Counted(t)
    /\ begun' = begun + 1
    /\ Finish(p)
    /\ UNCHANGED <<users, prefs, notes, clock>>

(* An IntegrityError, or a failed or cancelled request: all is undone.     *)
Abort(p) ==
    /\ pc[p] \in {"create", "share"}
    /\ Finish(p)
    /\ UNCHANGED siteVars

(* What an organiser writes at once waits for a creation's lock.           *)
Write(b, set) ==
    /\ AtOnce /\ Live(b) /\ ~Held(b) /\ ~Going(badges[b].owner)
    /\ badges' = [badges EXCEPT ![b] = [c \in DOMAIN @ |-> IF c \in DOMAIN set THEN set[c] ELSE @[c]]]
    /\ UNCHANGED <<users, prefs, notes, begun, clock, templates, origin>>

Publish(b) == Live(b) /\ ~badges[b].public /\ Write(b, [public |-> TRUE])
Unpublish(b) == Public(b) /\ Write(b, [public |-> FALSE])
DeleteBadge(b) == Write(b, [public |-> FALSE, deleted |-> TRUE])
----------------------------------------------------------------------------
(* A participant's creation is one transaction: the counter's UPDATE, whose *)
(* lock stays; the organiser's preferences; the insert; the commit.         *)
Count(p, b) ==
    /\ Public(b) /\ ~Held(b)
    /\ Accept(p, "alert", [badge |-> b, user |-> badges[b].owner, at |-> begun + 1,
                           day |-> Today, notify |-> FALSE])
    /\ begun' = begun + 1
    /\ UNCHANGED <<users, prefs, notes, clock, badges, templates, origin>>

AlertRead(p) ==
    /\ pc[p] = "alert"
    /\ Goto(p, "insert", [loc[p] EXCEPT !.notify = Allows(loc[p].user, "alert")])
    /\ UNCHANGED siteVars

\* Mutant: one notification per badge and day.
AlertOncePerDay(p) ==
    {n \in {Alert(loc[p].user, loc[p].badge, loc[p].at, loc[p].day)} :
        loc[p].notify /\ ~\E m \in Inbox(loc[p].user) :
                             m.type = "alert" /\ m.badge = n.badge /\ m.day = n.day}

Alerted(p) == {n \in {Alert(loc[p].user, loc[p].badge, loc[p].at, loc[p].day)} : loc[p].notify}

CountCommit(p) ==
    /\ pc[p] = "insert"
    /\ loc[p].notify => ~Going(loc[p].user)
    /\ badges' = [badges EXCEPT ![loc[p].badge].created = @ + 1]
    /\ notes' = notes \cup Alerted(p)
    /\ Finish(p)
    /\ UNCHANGED <<users, prefs, begun, clock, templates, origin>>

(* The share is answered at once and counted by a background task, which   *)
(* finds the badge again.                                                  *)
Share(p, b) ==
    /\ Public(b)
    /\ Accept(p, "share", [badge |-> b])
    /\ UNCHANGED siteVars

ShareCount(p) ==
    LET b == loc[p].badge IN
    /\ pc[p] = "share" /\ ~Held(b)
    /\ badges' = IF Public(b) THEN [badges EXCEPT ![b].shares = @ + 1] ELSE badges
    /\ Finish(p)
    /\ UNCHANGED <<users, prefs, notes, begun, clock, templates, origin>>
----------------------------------------------------------------------------
(* DELETE FROM users takes the row, then its cascade the badges one by one, *)
(* waiting for those that a creation holds; that creation may be waiting    *)
(* for the user's row.  PostgreSQL ends one of the two.                     *)
DeleteAccount(p, u) ==
    /\ u \in users /\ ~Going(u)
    /\ Accept(p, "cascade", [user |-> u])
    /\ UNCHANGED siteVars

Cascade(p) ==
    LET u == loc[p].user IN
    /\ pc[p] = "cascade" /\ \A b \in Owned(u) : ~Held(b)
    /\ users' = users \ {u}
    /\ prefs' = [prefs EXCEPT ![u] = NoPrefs]
    /\ notes' = notes \ Inbox(u)
    /\ badges' = [b \in Badges |-> IF b \in Owned(u) THEN None ELSE badges[b]]
    /\ Finish(p)
    /\ UNCHANGED <<begun, clock, templates, origin>>

Locked(p, q) ==
    /\ pc[p] = "insert" /\ loc[p].notify
    /\ pc[q] = "cascade" /\ loc[q].user = loc[p].user

Resolve(p, q) ==
    /\ Locked(p, q)
    /\ Finish(p) \/ Finish(q)
    /\ UNCHANGED siteVars
----------------------------------------------------------------------------
(* Administrators.  Deleting a template deletes the badges made from it.   *)
Administer(ts) ==
    /\ AtOnce /\ templates' = ts
    /\ UNCHANGED <<users, prefs, notes, begun, clock, origin>>

CreateTemplate(t, v) ==
    /\ templates[t].stage = "new" /\ UNCHANGED badges
    /\ Administer([templates EXCEPT ![t] = [stage |-> "stored", active |-> v, total |-> 0]])

UpdateTemplate(t, v) ==
    /\ Stored(t) /\ templates[t].active # v /\ UNCHANGED badges
    /\ Administer([templates EXCEPT ![t].active = v])

Made(t) == {b \in Badges : badges[b] # None /\ badges[b].template = t}

DeleteTemplate(t) ==
    /\ Stored(t) /\ \A b \in Made(t) : ~Held(b)
    /\ badges' = [b \in Badges |-> IF b \in Made(t) THEN None ELSE badges[b]]
    /\ Administer([templates EXCEPT ![t].stage = "deleted"])
----------------------------------------------------------------------------
(* The dashboard of an organiser, over the badges that are not deleted.    *)
Analytics(u) ==
    [total     |-> Cardinality(Mine(u)),
     active    |-> Cardinality({b \in Mine(u) : badges[b].public}),
     shares    |-> SumFunction([b \in Mine(u) |-> badges[b].shares]),
     creations |-> SumFunction([b \in Mine(u) |-> badges[b].created]),
     usage     |-> [t \in Templates |-> Cardinality({b \in Mine(u) : badges[b].template = t})]]

ParticipationNext ==
    \/ /\ NotificationsNext \/ Tick
       /\ UNCHANGED <<badges, templates, origin>>
    \/ \E p \in Procs :
          \/ \E u \in Users : DeleteAccount(p, u) \/ \E t \in Templates : CreateBadge(p, u, t)
          \/ \E b \in Badges : Duplicate(p, b) \/ Count(p, b) \/ Share(p, b)
          \/ CreateCommit(p) \/ AlertRead(p) \/ CountCommit(p) \/ ShareCount(p)
          \/ Cascade(p) \/ Abort(p)
          \/ \E q \in Procs : Resolve(p, q)
    \/ \E b \in Badges : Publish(b) \/ Unpublish(b) \/ DeleteBadge(b)
    \/ \E t \in Templates :
          DeleteTemplate(t) \/ \E v \in BOOLEAN : CreateTemplate(t, v) \/ UpdateTemplate(t, v)
----------------------------------------------------------------------------
(* Three counts of the same creations agree at every moment: the badge's   *)
(* counter, the organiser's notifications and the dashboard.  Someone who  *)
(* has never touched the preferences has been told of every creation; no   *)
(* one of more than there were.  A template's counter is the number of     *)
(* badges ever made from it, also of those that are gone.                  *)
CountersAgree ==
    /\ \A u \in users :
          LET told == {n \in Inbox(u) : n.type = "alert" /\ Live(n.badge)} IN
          /\ Cardinality(told) <= Analytics(u).creations
          /\ ~Row(u) => Cardinality(told) = Analytics(u).creations
    /\ \A t \in Templates :
          templates[t].total = Cardinality({b \in Badges : origin[b] = t})
=============================================================================

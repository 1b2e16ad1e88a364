------------------------------- MODULE Badges -------------------------------
(***************************************************************************)
(* An organiser's badges: the badges and badge_hashtags tables and the     *)
(* requests that change them (app/services/badge.py, app/models/badges.py, *)
(* app/schemas/badge.py).                                                  *)
(*                                                                         *)
(* A request loads the badge, assigns attributes to the loaded object and  *)
(* commits; it takes no lock, and any number of requests, of other tabs or *)
(* retries, run between the load and the commit.  The commit is one        *)
(* UPDATE that SQLAlchemy builds from the attributes whose value differs   *)
(* from the LOADED one: it neither tests nor touches the others.           *)
(***************************************************************************)
EXTENDS Naturals, FiniteSets

CONSTANTS
    Organisers,  \* accounts
    Badges,      \* the badge ids that can ever be used (a bound)
    Slugs,       \* what generate_share_slug can return (a bound)
    Codes,       \* access codes of 4 to 10 characters
    Tags,        \* hashtags
    Procs,       \* requests that can be served at the same time (a bound)
    None,        \* SQL's NULL
    MaxCalls     \* the requests that are served (a bound)

ASSUME BadgesAssumption ==
    /\ None \notin Organisers \cup Slugs \cup Codes \cup Badges
    /\ MaxCalls \in Nat

VARIABLES
    organisers,  \* rows of the users table
    badges,      \* badges[b]: the row with id b, or NoBadge
    tags,        \* tags[b]: the rows of badge_hashtags that belong to b
    made,        \* ids that have been given out (uuid7: never again)
    pc,          \* pc[p]: where request p stands
    loc,         \* loc[p]: what request p has loaded and assigned
    calls        \* how many requests have arrived

vars == <<organisers, badges, tags, made, pc, loc, calls>>
----------------------------------------------------------------------------
(* Types.  access_type is 0 or 1 (private); published_at and deleted_at    *)
(* are kept as set or not set.                                             *)

Badge == [owner : Organisers, published : BOOLEAN, stamped : BOOLEAN,
          slug : Slugs \cup {None}, private : BOOLEAN, code : Codes \cup {None},
          deleted : BOOLEAN]
NoBadge == [owner |-> None]

(* A hashtag row: which request inserted it, and the hashtag.  A request's *)
(* list is free of duplicates (clean_hashtags).                            *)
TagRow == Nat \X Tags

Ops == {"none", "publish", "unpublish", "delete", "edit", "duplicate"}

(* old is the badge as loaded, new the object after the assignments; drop  *)
(* and add are hashtag rows the commit deletes and inserts.                *)
Local == [op : Ops, badge : Badges \cup {None}, old : Badge \cup {NoBadge},
          new : Badge \cup {NoBadge}, drop : SUBSET TagRow, add : SUBSET TagRow]
NoLocal == [op |-> "none", badge |-> None, old |-> NoBadge, new |-> NoBadge,
            drop |-> {}, add |-> {}]

TypeOK ==
    /\ organisers \subseteq Organisers
    /\ badges \in [Badges -> Badge \cup {NoBadge}]
    /\ tags \in [Badges -> SUBSET TagRow]
    /\ made \subseteq Badges
    /\ pc \in [Procs -> {"idle", "commit", "insert"}]
    /\ loc \in [Procs -> Local]
    /\ calls \in Nat

(* The fields of an EditBadgeRequest that matter here: set are the ones    *)
(* present in the body (model_fields_set).                                 *)
Updates == [set : SUBSET {"access_type", "access_code", "hashtags"},
            private : BOOLEAN, code : Codes \cup {None}, hashtags : SUBSET Tags]
----------------------------------------------------------------------------
(* Reading. *)

Stored == {b \in Badges : badges[b] # NoBadge}
(* The SELECT that every organiser's request starts with: WHERE deleted_at *)
(* IS NULL, and the owner's id compared with the caller's.                 *)
Owned(o, b) == b \in Stored /\ ~badges[b].deleted /\ badges[b].owner = o

(* get_participant_page lets a visitor of a live badge in who sends code c *)
(* (or None).  Codes stand for what strip().lower() makes of them.         *)
Unlocks(b, c) == badges[b].private => c # None /\ c = badges[b].code
----------------------------------------------------------------------------
(* What each request makes of the badge it has loaded. *)

\* Mutant: a new slug each time.
PublishedAnew(r, s) == [r EXCEPT !.published = TRUE, !.stamped = TRUE, !.slug = s]

Published(r, s) ==
    [r EXCEPT !.published = TRUE, !.stamped = TRUE,
              !.slug = IF r.slug = None THEN s ELSE r.slug]

Unpublished(r) == [r EXCEPT !.published = FALSE, !.stamped = FALSE]

\* Mutant: the badge stays published.
DeletedOnly(r) == [r EXCEPT !.deleted = TRUE]

Deleted(r) == [r EXCEPT !.deleted = TRUE, !.published = FALSE, !.stamped = FALSE]

TargetPrivate(r, u) == IF "access_type" \in u.set THEN u.private ELSE r.private
TargetCode(r, u) == IF "access_code" \in u.set THEN u.code ELSE r.code

\* Mutant: a private badge may come without a code.
AnyAccess(r, u) == TRUE

(* A private badge needs a code; otherwise ValueError.                     *)
ValidAccess(r, u) ==
    u.set \cap {"access_type", "access_code"} # {} /\ TargetPrivate(r, u)
       => TargetCode(r, u) # None

\* Mutant: the code of a badge made public stays.
EditedKeepCode(r, u) ==
    [r EXCEPT !.private = TargetPrivate(r, u), !.code = TargetCode(r, u)]

Edited(r, u) ==
    IF u.set \cap {"access_type", "access_code"} = {} THEN r
    ELSE [r EXCEPT !.private = TargetPrivate(r, u),
                   !.code = IF TargetPrivate(r, u) THEN TargetCode(r, u) ELSE None]

\* Mutants: the copy is as published as the badge; organiser_id is not copied.
CopyPublished(r) == [r EXCEPT !.slug = None]
CopyNoOwner(r) ==
    [r EXCEPT !.owner = None, !.published = FALSE, !.stamped = FALSE, !.slug = None]

(* The copy that duplicate_badge inserts. *)
Copy(r) == [r EXCEPT !.published = FALSE, !.stamped = FALSE, !.slug = None]
----------------------------------------------------------------------------
(* The unit of work. *)

\* Mutant: the UPDATE writes every attribute of the object.
WriteAll(r, old, new) == new

(* The UPDATE a commit issues: attributes that differ from the loaded ones *)
(* are written over whatever the row holds by then.                        *)
Write(r, old, new) == [f \in DOMAIN r |-> IF new[f] = old[f] THEN r[f] ELSE new[f]]

\* Mutant: share_slug is not unique.
AnySlug(b, s) == TRUE

(* The unique constraint on share_slug. *)
SlugFree(b, s) == s = None \/ \A d \in Stored \ {b} : badges[d].slug # s

Idle(p) == pc[p] = "idle"
Accept(p) == Idle(p) /\ calls < MaxCalls /\ calls' = calls + 1
Finish(p) == pc' = [pc EXCEPT ![p] = "idle"] /\ loc' = [loc EXCEPT ![p] = NoLocal]
Tables == <<organisers, badges, tags, made>>

(* Request p has loaded b and assigned; the next step commits. *)
Load(p, op, b, new, drop, add) ==
    /\ Accept(p)
    /\ pc' = [pc EXCEPT ![p] = IF op = "duplicate" THEN "insert" ELSE "commit"]
    /\ loc' = [loc EXCEPT ![p] = [op |-> op, badge |-> b, old |-> badges[b], new |-> new,
                                  drop |-> drop, add |-> add]]
    /\ UNCHANGED Tables

Init ==
    /\ organisers = Organisers
    /\ badges = [b \in Badges |-> NoBadge]
    /\ tags = [b \in Badges |-> {}]
    /\ made = {}
    /\ pc = [p \in Procs |-> "idle"]
    /\ loc = [p \in Procs |-> NoLocal]
    /\ calls = 0
----------------------------------------------------------------------------
(* Requests. *)

(* create_badge inserts a draft in one transaction; the template it copies *)
(* from is not modelled.                                                   *)
Create(p, o, b) ==
    /\ Accept(p) /\ o \in organisers /\ b \notin made
    /\ made' = made \cup {b}
    /\ badges' = [badges EXCEPT ![b] =
                    [owner |-> o, published |-> FALSE, stamped |-> FALSE, slug |-> None,
                     private |-> FALSE, code |-> None, deleted |-> FALSE]]
    /\ UNCHANGED <<organisers, tags, pc, loc>>

PublishRead(p, o, b, s) ==
    /\ Owned(o, b) /\ ~badges[b].published
    /\ Load(p, "publish", b, Published(badges[b], s), {}, {})

UnpublishRead(p, o, b) ==
    /\ Owned(o, b)
    /\ Load(p, "unpublish", b, Unpublished(badges[b]), {}, {})

DeleteRead(p, o, b) ==
    /\ Owned(o, b)
    /\ Load(p, "delete", b, Deleted(badges[b]), {}, {})

\* Mutant: the old hashtags are not cleared.
Cleared(b, u) == {}

(* hashtags.clear(): the rows that were loaded with the badge. *)
Replaced(b, u) == IF "hashtags" \in u.set THEN tags[b] ELSE {}
Added(u) == IF "hashtags" \in u.set THEN {calls} \X u.hashtags ELSE {}

EditRead(p, o, b, u) ==
    /\ Owned(o, b) /\ ValidAccess(badges[b], u)
    /\ Load(p, "edit", b, Edited(badges[b], u), Replaced(b, u), Added(u))

DuplicateRead(p, o, b) ==
    /\ Owned(o, b)
    /\ Load(p, "duplicate", b, Copy(badges[b]), {}, {<<calls, r[2]>> : r \in tags[b]})

Commit(p) ==
    LET me == loc[p]
        b == me.badge
        written == Write(badges[b], me.old, me.new)
    IN
    /\ pc[p] = "commit" /\ b \in Stored
    /\ SlugFree(b, written.slug)
    /\ badges' = [badges EXCEPT ![b] = written]
    /\ tags' = [tags EXCEPT ![b] = (tags[b] \ me.drop) \cup me.add]
    /\ Finish(p)
    /\ UNCHANGED <<organisers, made, calls>>

(* duplicate_badge inserts the copy and its hashtags. *)
Insert(p, c) ==
    /\ pc[p] = "insert" /\ c \notin made /\ loc[p].new.owner \in organisers
    /\ made' = made \cup {c}
    /\ badges' = [badges EXCEPT ![c] = loc[p].new]
    /\ tags' = [tags EXCEPT ![c] = loc[p].add]
    /\ Finish(p)
    /\ UNCHANGED <<organisers, calls>>

(* delete_profile: the account's badges and their hashtags go with it, by  *)
(* ON DELETE CASCADE.                                                      *)
DeleteOrganiser(o) ==
    LET gone(b) == b \in Stored /\ badges[b].owner = o IN
    /\ o \in organisers
    /\ organisers' = organisers \ {o}
    /\ badges' = [b \in Badges |-> IF gone(b) THEN NoBadge ELSE badges[b]]
    /\ tags' = [b \in Badges |-> IF gone(b) THEN {} ELSE tags[b]]
    /\ UNCHANGED <<made, pc, loc, calls>>

(* The worker dies or the transaction is rolled back: the slug was taken   *)
(* (IntegrityError), the row or the account is gone (StaleDataError, a     *)
(* foreign key).                                                           *)
Abort(p) ==
    /\ ~Idle(p)
    /\ Finish(p)
    /\ UNCHANGED <<Tables, calls>>

Next ==
    \/ \E p \in Procs, o \in Organisers, b \in Badges :
          \/ Create(p, o, b)
          \/ \E s \in Slugs : PublishRead(p, o, b, s)
          \/ UnpublishRead(p, o, b) \/ DeleteRead(p, o, b)
          \/ \E u \in Updates : EditRead(p, o, b, u)
          \/ DuplicateRead(p, o, b)
    \/ \E p \in Procs :
          Commit(p) \/ (\E c \in Badges : Insert(p, c)) \/ Abort(p)
    \/ \E o \in Organisers : DeleteOrganiser(o)

Spec == Init /\ [][Next]_vars
----------------------------------------------------------------------------
(* Properties of every interleaving. *)

(* is_published and published_at agree: no two requests that overlap leave  *)
(* a published badge without its time, or a time on an unpublished badge.   *)
PublishedStamped ==
    \A b \in Stored : badges[b].published <=> badges[b].stamped

(* A badge that is published can be found: whatever requests overlapped, it *)
(* has a slug (publish_badge keeps the one it loaded).                      *)
PublishedHasSlug ==
    \A b \in Stored : badges[b].published => badges[b].slug # None

(* A public link leads to one badge.                                        *)
SlugsDistinct ==
    \A b, d \in Stored : badges[b].slug = badges[d].slug /\ badges[b].slug # None => b = d

(* Nothing brings a deleted badge back to its owner or to the public: not a *)
(* commit of a badge that was loaded before it was deleted either.          *)
DeletedFinal ==
    [][\A b \in Stored : badges[b].deleted => (b \in Stored' => badges'[b].deleted)]_vars

(* Saving an edit leaves alone what it has not set: a publication, its time *)
(* and slug, and a deletion that committed while the edit was in flight.    *)
EditsKeepPublication ==
    [][\A p \in Procs :
          loc[p].op = "edit" /\ Commit(p)
             => LET r == badges[loc[p].badge]
                    n == badges'[loc[p].badge]
                IN <<n.published, n.stamped, n.slug, n.deleted>>
                     = <<r.published, r.stamped, r.slug, r.deleted>>]_vars

(* Properties of requests that do not overlap. *)

(* The link given out with the first publication is the badge's for good:   *)
(* "The slug is preserved across re-publishes".                             *)
SlugStable ==
    [][\A b \in Stored : badges[b].slug # None
                            => (b \in Stored' => badges'[b].slug = badges[b].slug)]_vars

(* delete_badge unpublishes, and a deleted badge stays unpublished.         *)
DeletedUnpublished ==
    \A b \in Stored : badges[b].deleted => ~badges[b].published

(* A badge has an access code when, and only when, it is private.           *)
CodeIffPrivate ==
    \A b \in Stored : badges[b].private <=> badges[b].code # None

(* The hashtags of a badge are one list: the one the last edit (or the copy *)
(* that made the badge) wrote, never a mixture of two.                      *)
OneHashtagList ==
    \A b \in Stored : \A x, y \in tags[b] : x[1] = y[1]
----------------------------------------------------------------------------
(* What a badge is to its public: see BadgePromise. *)

State(b) ==
    IF b \notin made THEN "absent"
    ELSE IF b \notin Stored THEN "removed"
    ELSE IF badges[b].deleted THEN "gone"
    ELSE IF badges[b].published THEN "live" ELSE "draft"

Link(b) == IF b \in Stored THEN badges[b].slug ELSE None

(* The codes that open the page once the badge is live. *)
Keys(b) == IF b \in Stored THEN {c \in Codes \cup {None} : Unlocks(b, c)} ELSE {}

Promise == INSTANCE BadgePromise WITH
              state <- [b \in Badges |-> State(b)],
              link <- [b \in Badges |-> Link(b)],
              keys <- [b \in Badges |-> Keys(b)]
PromiseKept == Promise!Spec
============================================================================

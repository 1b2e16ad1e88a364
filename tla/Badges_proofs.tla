---------------------------- MODULE Badges_proofs ----------------------------
(***************************************************************************)
(* Proofs about Badges, for every set of accounts, badges, slugs, codes    *)
(* and requests.                                                           *)
(***************************************************************************)
EXTENDS Badges, TLAPS

(* An UPDATE sets each column to the object's value, if that differs from   *)
(* the loaded one, and else leaves it.                                      *)
LEMMA Written ==
    ASSUME NEW r \in Badge, NEW old \in Badge, NEW new \in Badge, NEW w,
           w = Write(r, old, new)
    PROVE  /\ w \in Badge
           /\ w.owner = IF new.owner = old.owner THEN r.owner ELSE new.owner
           /\ w.published = IF new.published = old.published THEN r.published ELSE new.published
           /\ w.stamped = IF new.stamped = old.stamped THEN r.stamped ELSE new.stamped
           /\ w.slug = IF new.slug = old.slug THEN r.slug ELSE new.slug
           /\ w.private = IF new.private = old.private THEN r.private ELSE new.private
           /\ w.code = IF new.code = old.code THEN r.code ELSE new.code
           /\ w.deleted = IF new.deleted = old.deleted THEN r.deleted ELSE new.deleted
<1>1. DOMAIN r = {"owner", "published", "stamped", "slug", "private", "code", "deleted"}
  BY DEF Badge
<1>2. w = [owner |-> IF new.owner = old.owner THEN r.owner ELSE new.owner,
           published |-> IF new.published = old.published THEN r.published ELSE new.published,
           stamped |-> IF new.stamped = old.stamped THEN r.stamped ELSE new.stamped,
           slug |-> IF new.slug = old.slug THEN r.slug ELSE new.slug,
           private |-> IF new.private = old.private THEN r.private ELSE new.private,
           code |-> IF new.code = old.code THEN r.code ELSE new.code,
           deleted |-> IF new.deleted = old.deleted THEN r.deleted ELSE new.deleted]
  BY <1>1 DEF Write
<1>3. w \in Badge
  BY <1>2 DEF Badge
<1> QED BY <1>2, <1>3

LEMMA StoredBadge ==
    ASSUME TypeOK, NEW b \in Stored
    PROVE  b \in Badges /\ badges[b] \in Badge
BY DEF TypeOK, Stored

LEMMA NotNull == NoBadge \notin Badge
BY BadgesAssumption DEF NoBadge, Badge

LEMMA NoLocalType == NoLocal \in Local
BY DEF NoLocal, Local, Ops

LEMMA FinishTypes ==
    ASSUME TypeOK, NEW p \in Procs, Finish(p)
    PROVE  pc' \in [Procs -> {"idle", "commit", "insert"}] /\ loc' \in [Procs -> Local]
BY NoLocalType DEF Finish, TypeOK

(* Loading keeps the types, and says what the request then holds. *)
LEMMA LoadTypes ==
    ASSUME TypeOK, NEW p \in Procs, NEW op \in Ops, NEW b \in Stored, NEW new \in Badge,
           NEW drop \in SUBSET TagRow, NEW add \in SUBSET TagRow,
           Load(p, op, b, new, drop, add)
    PROVE  TypeOK'
<1>1. badges[b] \in Badge /\ b \in Badges
  BY StoredBadge
<1>2. [op |-> op, badge |-> b, old |-> badges[b], new |-> new,
       drop |-> drop, add |-> add] \in Local
  BY <1>1 DEF Local
<1> QED BY <1>2 DEF Load, Accept, Idle, Tables, TypeOK
----------------------------------------------------------------------------
(***************************************************************************)
(* The inductive invariant: what a request that has loaded a badge knows   *)
(* of it.  The object it loaded agreed in is_published and published_at    *)
(* and was not deleted; the assignments keep that, only ever add a slug,   *)
(* and publish nothing without one; and the row has not lost its slug.     *)
(***************************************************************************)
Kept(r, n) ==
    /\ r.published = r.stamped /\ n.published = n.stamped
    /\ ~r.deleted
    /\ n.slug = r.slug \/ (r.slug = None /\ n.slug # None)
    /\ n.published /\ ~r.published => n.slug # None

Publicity(r) == <<r.published, r.stamped, r.slug, r.deleted>>

Known == Stored \subseteq made

LoadedOK ==
    \A p \in Procs :
       /\ pc[p] # "idle" => loc[p].old \in Badge /\ loc[p].new \in Badge
       /\ pc[p] = "insert" => ~loc[p].new.published /\ ~loc[p].new.stamped
                              /\ loc[p].new.slug = None
       /\ pc[p] = "commit" =>
             /\ loc[p].badge \in made
             /\ Kept(loc[p].old, loc[p].new)
             /\ loc[p].op = "edit" => Publicity(loc[p].new) = Publicity(loc[p].old)
             /\ loc[p].badge \in Stored /\ badges[loc[p].badge].slug = None
                   => loc[p].old.slug = None

Inv == TypeOK /\ Known /\ LoadedOK /\ PublishedStamped /\ PublishedHasSlug /\ SlugsDistinct

(* A load that keeps the rules keeps the invariant: it changes no table. *)
LEMMA LoadKeeps ==
    ASSUME Inv, NEW p \in Procs, NEW op \in Ops, NEW b \in Stored, NEW new \in Badge,
           NEW drop \in SUBSET TagRow, NEW add \in SUBSET TagRow,
           Load(p, op, b, new, drop, add),
           op # "duplicate" => Kept(badges[b], new),
           op = "edit" => Publicity(new) = Publicity(badges[b]),
           op = "duplicate" => ~new.published /\ ~new.stamped /\ new.slug = None
    PROVE  Inv'
<1> USE DEF Inv
<1>1. TypeOK'
  BY LoadTypes
<1>2. UNCHANGED <<badges, made>>
  BY DEF Load, Tables
<1>3. (Known /\ PublishedStamped /\ PublishedHasSlug /\ SlugsDistinct)'
  BY <1>2 DEF Known, PublishedStamped, PublishedHasSlug, SlugsDistinct, Stored
<1>4. LoadedOK'
  <2>1. badges[b] \in Badge /\ b \in made
    BY StoredBadge DEF Known
  <2>2. /\ pc'[p] = IF op = "duplicate" THEN "insert" ELSE "commit"
        /\ loc'[p] = [op |-> op, badge |-> b, old |-> badges[b], new |-> new,
                      drop |-> drop, add |-> add]
        /\ \A q \in Procs \ {p} : pc'[q] = pc[q] /\ loc'[q] = loc[q]
    BY DEF Load, TypeOK
  <2> QED BY <1>2, <2>1, <2>2 DEF LoadedOK, Stored
<1> QED BY <1>1, <1>3, <1>4

(* Publish, unpublish and delete read the badge and touch no hashtag. *)
LEMMA ChangeKeeps ==
    ASSUME Inv, NEW p \in Procs, NEW op \in Ops, op \notin {"edit", "duplicate"},
           NEW b \in Stored, NEW new \in Badge, Kept(badges[b], new),
           Load(p, op, b, new, {}, {})
    PROVE  Inv'
<1>1. {} \in SUBSET TagRow /\ op # "edit" /\ op # "duplicate"
  OBVIOUS
<1> QED BY <1>1, LoadKeeps

(* A request that ends holds nothing. *)
LEMMA Finished ==
    ASSUME TypeOK, NEW p \in Procs, Finish(p)
    PROVE  pc'[p] = "idle" /\ \A q \in Procs \ {p} : pc'[q] = pc[q] /\ loc'[q] = loc[q]
BY DEF Finish, TypeOK

LEMMA CommitKeeps ==
    ASSUME Inv, NEW p \in Procs, Commit(p)
    PROVE  Inv'
<1> DEFINE b == loc[p].badge
           old == loc[p].old
           new == loc[p].new
           w == Write(badges[b], old, new)
<1> USE DEF Inv
<1>1. /\ b \in Stored /\ badges[b] \in Badge /\ old \in Badge /\ new \in Badge
      /\ Kept(old, new) /\ b \in made
      /\ badges[b].slug = None => old.slug = None
  BY StoredBadge DEF Commit, LoadedOK
<1>2. /\ w \in Badge
      /\ w.published = IF new.published = old.published THEN badges[b].published ELSE new.published
      /\ w.stamped = IF new.stamped = old.stamped THEN badges[b].stamped ELSE new.stamped
      /\ w.slug = IF new.slug = old.slug THEN badges[b].slug ELSE new.slug
  <2> HIDE DEF b, old, new, w
  <2>1. w = Write(badges[b], old, new)
    BY DEF w
  <2> QED BY <1>1, <2>1, Written
<1>3. /\ badges' = [badges EXCEPT ![b] = w] /\ UNCHANGED <<organisers, made, calls>>
      /\ tags' = [tags EXCEPT ![b] = (tags[b] \ loc[p].drop) \cup loc[p].add]
      /\ SlugFree(b, w.slug) /\ Finish(p)
  BY DEF Commit
<1>4. b \in Badges /\ loc[p] \in Local
  BY <1>1 DEF Stored, TypeOK
<1> HIDE DEF b, old, new, w
<1>5. TypeOK'
  <2>1. tags' \in [Badges -> SUBSET TagRow]
    BY <1>3, <1>4 DEF TypeOK, Local
  <2> QED BY <1>2, <1>3, <1>4, <2>1, FinishTypes DEF TypeOK
<1>6. Stored' = Stored /\ badges'[b] = w /\ \A d \in Badges \ {b} : badges'[d] = badges[d]
  BY <1>1, <1>2, <1>3, <1>4, NotNull DEF Stored, TypeOK
<1>7. w.published = w.stamped /\ (w.published => w.slug # None)
      /\ (badges[b].slug # None => w.slug # None)
  BY <1>1, <1>2 DEF Kept, PublishedStamped, PublishedHasSlug, Badge
<1>8. Known' /\ PublishedStamped' /\ PublishedHasSlug'
  BY <1>3, <1>6, <1>7 DEF Known, PublishedStamped, PublishedHasSlug, Stored
<1>9. SlugsDistinct'
  BY <1>3, <1>6 DEF SlugsDistinct, SlugFree, Stored
<1>10. LoadedOK'
  BY <1>3, <1>6, <1>7, Finished DEF LoadedOK, Stored
<1> QED BY <1>5, <1>8, <1>9, <1>10

LEMMA InsertKeeps ==
    ASSUME Inv, NEW p \in Procs, NEW c \in Badges, Insert(p, c)
    PROVE  Inv'
<1> USE DEF Inv
<1>1. /\ loc[p].new \in Badge /\ loc[p].add \in SUBSET TagRow
      /\ ~loc[p].new.published /\ ~loc[p].new.stamped /\ loc[p].new.slug = None
  BY DEF Insert, LoadedOK, TypeOK, Local
<1>2. TypeOK'
  BY <1>1, FinishTypes DEF Insert, TypeOK
<1>3. /\ c \notin made /\ c \notin Stored /\ made' = made \cup {c}
      /\ badges'[c] = loc[p].new /\ \A d \in Badges \ {c} : badges'[d] = badges[d]
      /\ Stored' = Stored \cup {c}
  BY <1>1, NotNull DEF Insert, Known, Stored, TypeOK
<1>4. (Known /\ PublishedStamped /\ PublishedHasSlug /\ SlugsDistinct)'
  BY <1>1, <1>3 DEF Known, PublishedStamped, PublishedHasSlug, SlugsDistinct, Stored
<1>5. LoadedOK'
  BY <1>3, Finished DEF Insert, LoadedOK, Stored
<1> QED BY <1>2, <1>4, <1>5

LEMMA CreateKeeps ==
    ASSUME Inv, NEW p \in Procs, NEW o \in Organisers, NEW b \in Badges, Create(p, o, b)
    PROVE  Inv'
<1> DEFINE r == [owner |-> o, published |-> FALSE, stamped |-> FALSE, slug |-> None,
                 private |-> FALSE, code |-> None, deleted |-> FALSE]
<1> USE DEF Inv
<1>1. r \in Badge
  BY DEF Badge
<1>2. /\ badges' = [badges EXCEPT ![b] = r] /\ b \notin made /\ made' = made \cup {b}
      /\ UNCHANGED <<organisers, tags, pc, loc>> /\ calls' \in Nat
  BY DEF Create, Accept, TypeOK
<1>3. TypeOK'
  BY <1>1, <1>2 DEF TypeOK
<1>4. /\ b \notin Stored /\ Stored' = Stored \cup {b} /\ badges'[b] = r
      /\ \A d \in Badges \ {b} : badges'[d] = badges[d]
  BY <1>1, <1>2, NotNull DEF Known, Stored, TypeOK
<1>5. (Known /\ PublishedStamped /\ PublishedHasSlug /\ SlugsDistinct)'
  BY <1>2, <1>4 DEF Known, PublishedStamped, PublishedHasSlug, SlugsDistinct, Stored
<1>6. LoadedOK'
  BY <1>2, <1>4 DEF LoadedOK, Stored
<1> QED BY <1>3, <1>5, <1>6

LEMMA DeleteOrganiserKeeps ==
    ASSUME Inv, NEW o \in Organisers, DeleteOrganiser(o)
    PROVE  Inv'
<1> USE DEF Inv
<1>1. TypeOK'
  BY DEF DeleteOrganiser, TypeOK
<1>2. \A b \in Stored' : b \in Stored /\ badges'[b] = badges[b]
  BY DEF DeleteOrganiser, Stored
<1>3. UNCHANGED <<made, pc, loc>>
  BY DEF DeleteOrganiser
<1>4. (Known /\ PublishedStamped /\ PublishedHasSlug /\ SlugsDistinct)'
  BY <1>2, <1>3 DEF Known, PublishedStamped, PublishedHasSlug, SlugsDistinct
<1>5. LoadedOK'
  BY <1>2, <1>3 DEF LoadedOK
<1> QED BY <1>1, <1>4, <1>5

LEMMA InvInit == Init => Inv
<1> SUFFICES ASSUME Init PROVE Inv
  OBVIOUS
<1>1. Stored = {}
  BY DEF Init, Stored
<1>2. TypeOK
  BY NoLocalType, BadgesAssumption DEF Init, TypeOK
<1> QED BY <1>1, <1>2
    DEF Init, Inv, Known, LoadedOK, PublishedStamped, PublishedHasSlug, SlugsDistinct

LEMMA InvNext == Inv /\ [Next]_vars => Inv'
<1> SUFFICES ASSUME Inv, [Next]_vars PROVE Inv'
  OBVIOUS
<1>1. TypeOK /\ calls \in Nat
  BY DEF Inv, TypeOK
<1>2. {} \in SUBSET TagRow
  OBVIOUS
<1>3. \A b \in Badges : tags[b] \in SUBSET TagRow
  BY <1>1 DEF TypeOK
<1>4. ASSUME NEW p \in Procs, NEW o \in Organisers, NEW b \in Badges, NEW s \in Slugs,
             PublishRead(p, o, b, s)
      PROVE  Inv'
  <2> DEFINE new == Published(badges[b], s)
  <2>1. /\ b \in Stored /\ ~badges[b].deleted /\ ~badges[b].published
        /\ Load(p, "publish", b, new, {}, {})
    BY <1>4 DEF PublishRead, Owned
  <2>2. new \in Badge /\ Kept(badges[b], new)
    <3>1. badges[b] \in Badge /\ badges[b].stamped = badges[b].published /\ s # None
      BY <1>1, <2>1, StoredBadge, BadgesAssumption DEF Inv, PublishedStamped, Badge
    <3>2. /\ new \in Badge /\ new.published /\ new.stamped
          /\ new.slug = IF badges[b].slug = None THEN s ELSE badges[b].slug
      BY <3>1 DEF Published, Badge
    <3> QED BY <2>1, <3>1, <3>2 DEF Kept, Badge
  <2>3. "publish" \in Ops \ {"edit", "duplicate"}
    BY DEF Ops
  <2> HIDE DEF new
  <2> QED BY <2>1, <2>2, <2>3, ChangeKeeps
<1>5. ASSUME NEW p \in Procs, NEW o \in Organisers, NEW b \in Badges, UnpublishRead(p, o, b)
      PROVE  Inv'
  <2> DEFINE new == Unpublished(badges[b])
  <2>1. /\ b \in Stored /\ ~badges[b].deleted
        /\ Load(p, "unpublish", b, new, {}, {})
    BY <1>5 DEF UnpublishRead, Owned
  <2>2. new \in Badge /\ Kept(badges[b], new)
    BY <1>1, <2>1, StoredBadge DEF Unpublished, Kept, Badge, Inv, PublishedStamped
  <2>3. "unpublish" \in Ops \ {"edit", "duplicate"}
    BY DEF Ops
  <2> HIDE DEF new
  <2> QED BY <2>1, <2>2, <2>3, ChangeKeeps
<1>6. ASSUME NEW p \in Procs, NEW o \in Organisers, NEW b \in Badges, DeleteRead(p, o, b)
      PROVE  Inv'
  <2> DEFINE new == Deleted(badges[b])
  <2>1. /\ b \in Stored /\ ~badges[b].deleted
        /\ Load(p, "delete", b, new, {}, {})
    BY <1>6 DEF DeleteRead, Owned
  <2>2. new \in Badge /\ Kept(badges[b], new)
    BY <1>1, <2>1, StoredBadge DEF Deleted, Kept, Badge, Inv, PublishedStamped
  <2>3. "delete" \in Ops \ {"edit", "duplicate"}
    BY DEF Ops
  <2> HIDE DEF new
  <2> QED BY <2>1, <2>2, <2>3, ChangeKeeps
<1>7. ASSUME NEW p \in Procs, NEW o \in Organisers, NEW b \in Badges, NEW u \in Updates,
             EditRead(p, o, b, u)
      PROVE  Inv'
  <2>1. /\ b \in Stored /\ ~badges[b].deleted
        /\ Load(p, "edit", b, Edited(badges[b], u), Replaced(b, u), Added(u))
    BY <1>7 DEF EditRead, Owned
  <2>2. Replaced(b, u) \in SUBSET TagRow /\ Added(u) \in SUBSET TagRow
    BY <1>1, <1>3 DEF Replaced, Added, TagRow, Updates
  <2>3. /\ TargetPrivate(badges[b], u) \in BOOLEAN
        /\ TargetCode(badges[b], u) \in Codes \cup {None}
    BY <1>1, <2>1, StoredBadge DEF TargetPrivate, TargetCode, Badge, Updates
  <2>4. /\ Edited(badges[b], u) \in Badge
        /\ Publicity(Edited(badges[b], u)) = Publicity(badges[b])
    BY <1>1, <2>1, <2>3, StoredBadge DEF Edited, Publicity, Badge
  <2>5. Kept(badges[b], Edited(badges[b], u))
    BY <1>1, <2>1, <2>4, StoredBadge DEF Kept, Publicity, Badge, Inv, PublishedStamped
  <2> QED BY <2>1, <2>2, <2>4, <2>5, LoadKeeps DEF Ops
<1>8. ASSUME NEW p \in Procs, NEW o \in Organisers, NEW b \in Badges, DuplicateRead(p, o, b)
      PROVE  Inv'
  <2> DEFINE new == Copy(badges[b])
             add == {<<calls, r[2]>> : r \in tags[b]}
  <2>1. b \in Stored /\ Load(p, "duplicate", b, new, {}, add)
    BY <1>8 DEF DuplicateRead, Owned
  <2>2. new \in Badge /\ ~new.published /\ ~new.stamped /\ new.slug = None
    BY <1>1, <2>1, StoredBadge DEF Copy, Badge
  <2>3. add \in SUBSET TagRow
    BY <1>1, <1>3 DEF TagRow
  <2> HIDE DEF new, add
  <2> QED BY <1>2, <2>1, <2>2, <2>3, LoadKeeps DEF Ops
<1>9. ASSUME NEW p \in Procs, Abort(p) PROVE Inv'
  <2>1. TypeOK'
    BY <1>1, <1>9, FinishTypes DEF Abort, Tables, TypeOK
  <2> QED BY <1>1, <1>9, <2>1, Finished
      DEF Abort, Tables, Inv, Known, LoadedOK, PublishedStamped, PublishedHasSlug,
          SlugsDistinct, Stored
<1>10. CASE UNCHANGED vars
  BY <1>10 DEF vars, Inv, TypeOK, Known, LoadedOK, PublishedStamped, PublishedHasSlug,
     SlugsDistinct, Stored
<1> QED BY <1>4, <1>5, <1>6, <1>7, <1>8, <1>9, <1>10, CommitKeeps, InsertKeeps, CreateKeeps,
       DeleteOrganiserKeeps DEF Next

LEMMA Invariant == Spec => []Inv
BY InvInit, InvNext, PTL DEF Spec
----------------------------------------------------------------------------
(* The variables of Badges keep their types. *)
THEOREM TypeCorrect == Spec => []TypeOK
<1>1. Inv => TypeOK
  BY DEF Inv
<1> QED BY <1>1, Invariant, PTL

(* is_published and published_at agree in every row, whatever overlaps. *)
THEOREM StampKept == Spec => []PublishedStamped
<1>1. Inv => PublishedStamped
  BY DEF Inv
<1> QED BY <1>1, Invariant, PTL

(* A published badge has a slug, whatever overlaps. *)
THEOREM LinksWork == Spec => []PublishedHasSlug
<1>1. Inv => PublishedHasSlug
  BY DEF Inv
<1> QED BY <1>1, Invariant, PTL

(* No two badges have the same slug. *)
THEOREM LinksDiffer == Spec => []SlugsDistinct
<1>1. Inv => SlugsDistinct
  BY DEF Inv
<1> QED BY <1>1, Invariant, PTL

(* A step other than a commit leaves every row alone, or removes it. *)
LEMMA OtherSteps ==
    ASSUME Inv, [Next]_vars, NEW b \in Stored, b \in Stored',
           \A p \in Procs : ~(Commit(p) /\ loc[p].badge = b)
    PROVE  badges'[b] = badges[b]
<1>1. b \in Badges /\ b \in made /\ badges \in [Badges -> Badge \cup {NoBadge}]
  BY DEF Inv, TypeOK, Known, Stored
<1> QED BY <1>1
    DEF Next, Create, PublishRead, UnpublishRead, DeleteRead, EditRead, DuplicateRead, Load,
        Commit, Insert, DeleteOrganiser, Abort, Tables, Stored, vars

(* What a commit writes. *)
LEMMA CommitWrites ==
    ASSUME Inv, NEW p \in Procs, Commit(p)
    PROVE  LET b == loc[p].badge
               old == loc[p].old
               new == loc[p].new IN
           /\ b \in Stored /\ Kept(old, new)
           /\ loc[p].op = "edit" => Publicity(new) = Publicity(old)
           /\ badges'[b].published
                = IF new.published = old.published THEN badges[b].published ELSE new.published
           /\ badges'[b].stamped
                = IF new.stamped = old.stamped THEN badges[b].stamped ELSE new.stamped
           /\ badges'[b].slug = IF new.slug = old.slug THEN badges[b].slug ELSE new.slug
           /\ badges'[b].deleted
                = IF new.deleted = old.deleted THEN badges[b].deleted ELSE new.deleted
           /\ old \in Badge /\ new \in Badge /\ badges[b] \in Badge
<1> DEFINE b == loc[p].badge
           old == loc[p].old
           new == loc[p].new
<1>1. /\ b \in Stored /\ old \in Badge /\ new \in Badge /\ Kept(old, new)
      /\ loc[p].op = "edit" => Publicity(new) = Publicity(old)
  BY DEF Commit, Inv, LoadedOK
<1>2. b \in Badges /\ badges[b] \in Badge
  BY <1>1, StoredBadge DEF Inv
<1>3. badges'[b] = Write(badges[b], old, new)
  BY <1>2 DEF Commit, Inv, TypeOK
<1> HIDE DEF b, old, new
<1>4. /\ badges'[b].published
           = IF new.published = old.published THEN badges[b].published ELSE new.published
      /\ badges'[b].stamped
           = IF new.stamped = old.stamped THEN badges[b].stamped ELSE new.stamped
      /\ badges'[b].slug = IF new.slug = old.slug THEN badges[b].slug ELSE new.slug
      /\ badges'[b].deleted
           = IF new.deleted = old.deleted THEN badges[b].deleted ELSE new.deleted
  BY <1>1, <1>2, <1>3, Written
<1> QED BY <1>1, <1>2, <1>4 DEF b, old, new

(* No step, a commit of an object loaded before included, brings a deleted *)
(* badge back.                                                             *)
THEOREM DeletionIsFinal == Spec => DeletedFinal
<1>1. ASSUME Inv, [Next]_vars,
             NEW b \in Stored, badges[b].deleted, b \in Stored'
      PROVE  badges'[b].deleted
  <2>1. CASE \E p \in Procs : Commit(p) /\ loc[p].badge = b
    <3>1. PICK p \in Procs : Commit(p) /\ loc[p].badge = b
      BY <2>1
    <3> QED BY <1>1, <3>1, CommitWrites DEF Kept, Badge
  <2>2. CASE \A p \in Procs : ~(Commit(p) /\ loc[p].badge = b)
    BY <1>1, <2>2, OtherSteps
  <2> QED BY <2>1, <2>2
<1>2. Inv /\ [Next]_vars
        => [\A b \in Stored : badges[b].deleted => (b \in Stored' => badges'[b].deleted)]_vars
  BY <1>1
<1> QED BY <1>2, Invariant, PTL DEF Spec, DeletedFinal

(* Saving an edit undoes no publication and no deletion. *)
THEOREM EditsAreNarrow == Spec => EditsKeepPublication
<1> DEFINE Narrow ==
      \A p \in Procs :
         loc[p].op = "edit" /\ Commit(p)
            => LET r == badges[loc[p].badge]
                   n == badges'[loc[p].badge]
               IN <<n.published, n.stamped, n.slug, n.deleted>>
                    = <<r.published, r.stamped, r.slug, r.deleted>>
<1>1. ASSUME Inv PROVE Narrow
  BY <1>1, CommitWrites DEF Publicity
<1>2. Inv => [Narrow]_vars
  BY <1>1
<1> QED BY <1>2, Invariant, PTL DEF Spec, EditsKeepPublication
----------------------------------------------------------------------------
(***************************************************************************)
(* Requests that do not overlap: with one handler, the row a request       *)
(* commits to is still the one it loaded, so that its commit writes the    *)
(* whole new object.                                                       *)
(***************************************************************************)
OneHandler == \A p, q \in Procs : p = q

CodeOK(r) == r.private <=> r.code # None
OneList(S) == \A x, y \in S : x[1] = y[1]

Assigned(op, old, new) ==
    \/ op = "publish" /\ ~old.published /\ \E s \in Slugs : new = Published(old, s)
    \/ op = "unpublish" /\ new = Unpublished(old)
    \/ op = "delete" /\ new = Deleted(old)
    \/ op = "edit" /\ \E u \in Updates : ValidAccess(old, u) /\ new = Edited(old, u)

Undisturbed ==
    \A p \in Procs :
       LET me == loc[p] IN
       /\ pc[p] = "commit" =>
             /\ me.badge \in Stored => badges[me.badge] = me.old
             /\ Assigned(me.op, me.old, me.new) /\ CodeOK(me.old)
             /\ OneList(me.add)
             /\ \/ me.drop = {} /\ me.add = {}
                \/ me.badge \in Stored => me.drop = tags[me.badge]
       /\ pc[p] = "insert" => CodeOK(me.new) /\ ~me.new.deleted /\ OneList(me.add)

NoStrayTags == \A b \in Badges \ Stored : tags[b] = {}
RowsOK == DeletedUnpublished /\ CodeIffPrivate /\ OneHashtagList /\ NoStrayTags
SInv == Inv /\ Undisturbed /\ RowsOK

LEMMA WriteAlone ==
    ASSUME NEW old \in Badge, NEW new \in Badge
    PROVE  Write(old, old, new) = new
<1>1. /\ DOMAIN old = {"owner", "published", "stamped", "slug", "private", "code", "deleted"}
      /\ DOMAIN new = {"owner", "published", "stamped", "slug", "private", "code", "deleted"}
  BY DEF Badge
<1>2. new = [f \in DOMAIN new |-> new[f]]
  BY DEF Badge
<1>3. \A f \in DOMAIN old : (IF new[f] = old[f] THEN old[f] ELSE new[f]) = new[f]
  OBVIOUS
<1> QED BY <1>1, <1>2, <1>3 DEF Write

(* What the assignments of a request leave of a badge that obeys the rules. *)
LEMMA EditedAccess ==
    ASSUME NEW r \in Badge, NEW u \in Updates, CodeOK(r), ValidAccess(r, u)
    PROVE  /\ CodeOK(Edited(r, u))
           /\ Edited(r, u).deleted = r.deleted /\ Edited(r, u).published = r.published
           /\ Edited(r, u).slug = r.slug
<1> DEFINE tp == TargetPrivate(r, u)
           tc == TargetCode(r, u)
<1>1. tp \in BOOLEAN
  BY DEF TargetPrivate, Badge, Updates
<1>2. CASE u.set \cap {"access_type", "access_code"} = {}
  BY <1>2 DEF Edited
<1>3. CASE u.set \cap {"access_type", "access_code"} # {}
  <2>1. tp => tc # None
    BY <1>3 DEF ValidAccess
  <2>2. Edited(r, u) = [r EXCEPT !.private = tp, !.code = IF tp THEN tc ELSE None]
    BY <1>3 DEF Edited
  <2> HIDE DEF tp, tc
  <2>3. CASE tp
    <3>1. Edited(r, u) = [r EXCEPT !.private = TRUE, !.code = tc]
      BY <1>1, <2>2, <2>3
    <3> QED BY <2>1, <2>3, <3>1 DEF CodeOK, Badge
  <2>4. CASE ~tp
    <3>1. Edited(r, u) = [r EXCEPT !.private = FALSE, !.code = None]
      BY <1>1, <2>2, <2>4
    <3> QED BY <3>1 DEF CodeOK, Badge
  <2> QED BY <2>3, <2>4
<1> QED BY <1>2, <1>3

LEMMA AssignedRules ==
    ASSUME NEW op, NEW old \in Badge, NEW new \in Badge, Assigned(op, old, new),
           CodeOK(old), ~old.deleted
    PROVE  CodeOK(new) /\ (new.deleted => ~new.published)
<1>1. CASE op = "publish" /\ \E s \in Slugs : new = Published(old, s)
  BY <1>1 DEF Published, CodeOK, Badge
<1>2. CASE new = Unpublished(old) \/ new = Deleted(old)
  BY <1>2 DEF Unpublished, Deleted, CodeOK, Badge
<1>3. CASE op = "edit" /\ \E u \in Updates : ValidAccess(old, u) /\ new = Edited(old, u)
  BY <1>3, EditedAccess
<1> QED BY <1>1, <1>2, <1>3 DEF Assigned

LEMMA SequentialLoad ==
    ASSUME OneHandler, SInv,
           NEW p \in Procs, NEW op \in Ops, NEW b \in Stored, NEW new \in Badge,
           NEW drop, NEW add,
           Load(p, op, b, new, drop, add),
           op # "duplicate" => Assigned(op, badges[b], new),
           op = "duplicate" => CodeOK(new) /\ ~new.deleted,
           OneList(add),
           op = "duplicate" \/ (drop = {} /\ add = {}) \/ drop = tags[b]
    PROVE  (Undisturbed /\ RowsOK)'
<1> USE DEF SInv, Inv
<1>1. UNCHANGED <<badges, tags, made>>
  BY DEF Load, Tables
<1>2. RowsOK'
  BY <1>1 DEF RowsOK, DeletedUnpublished, CodeIffPrivate, OneHashtagList, NoStrayTags, Stored
<1>3. /\ pc'[p] = IF op = "duplicate" THEN "insert" ELSE "commit"
      /\ loc'[p] = [op |-> op, badge |-> b, old |-> badges[b], new |-> new,
                    drop |-> drop, add |-> add]
  BY DEF Load, TypeOK
<1>4. CodeOK(badges[b])
  BY DEF RowsOK, CodeIffPrivate, CodeOK
<1>5. \A q \in Procs : q = p
  BY DEF OneHandler
<1>6. Undisturbed'
  <2> SUFFICES ASSUME NEW q \in Procs PROVE
        LET me == loc'[q] IN
        /\ pc'[q] = "commit" =>
              /\ me.badge \in Stored' => badges'[me.badge] = me.old
              /\ Assigned(me.op, me.old, me.new) /\ CodeOK(me.old)
              /\ OneList(me.add)
              /\ \/ me.drop = {} /\ me.add = {}
                 \/ me.badge \in Stored' => me.drop = tags'[me.badge]
        /\ pc'[q] = "insert" => CodeOK(me.new) /\ ~me.new.deleted /\ OneList(me.add)
    BY DEF Undisturbed, Assigned, Stored
  <2>1. q = p
    BY <1>5
  <2> QED BY <1>1, <1>3, <1>4, <2>1
<1> QED BY <1>2, <1>6

(* The one request of the system ends: nothing is left to disturb. *)
LEMMA SequentialEnd ==
    ASSUME OneHandler, TypeOK, NEW p \in Procs, Finish(p)
    PROVE  Undisturbed'
<1>1. \A q \in Procs : q = p
  BY DEF OneHandler
<1>2. pc'[p] = "idle"
  BY DEF Finish, TypeOK
<1> QED BY <1>1, <1>2 DEF Undisturbed

(* A commit writes the object as it is. *)
LEMMA SequentialCommit ==
    ASSUME SInv, NEW p \in Procs, Commit(p)
    PROVE  LET b == loc[p].badge IN
           /\ b \in Stored /\ badges[b] = loc[p].old /\ loc[p].new \in Badge
           /\ loc[p].old \in Badge
           /\ badges' = [badges EXCEPT ![b] = loc[p].new]
           /\ tags' = [tags EXCEPT ![b] = (tags[b] \ loc[p].drop) \cup loc[p].add]
           /\ SlugFree(b, loc[p].new.slug)
<1> DEFINE b == loc[p].badge
<1>1. /\ b \in Stored /\ badges[b] = loc[p].old /\ loc[p].new \in Badge /\ loc[p].old \in Badge
  BY DEF SInv, Inv, Undisturbed, LoadedOK, Commit
<1>2. Write(badges[b], loc[p].old, loc[p].new) = loc[p].new
  BY <1>1, WriteAlone
<1> QED BY <1>1, <1>2 DEF Commit

LEMMA SequentialInit == Init => Undisturbed /\ RowsOK
BY DEF Init, Undisturbed, RowsOK, DeletedUnpublished, CodeIffPrivate, OneHashtagList,
       NoStrayTags, Stored

LEMMA SequentialNext ==
    ASSUME OneHandler, SInv, [Next]_vars
    PROVE  SInv'
<1> USE DEF SInv
<1>1. Inv' /\ Inv /\ TypeOK /\ RowsOK
  BY InvNext DEF Inv
<1>2. \A b \in Stored : badges[b] \in Badge /\ CodeOK(badges[b])
  BY <1>1, StoredBadge DEF RowsOK, CodeIffPrivate, CodeOK
<1>3. OneList({})
  BY DEF OneList
<1>4. ASSUME NEW p \in Procs, NEW o \in Organisers, NEW b \in Badges, NEW s \in Slugs,
             PublishRead(p, o, b, s)
      PROVE  (Undisturbed /\ RowsOK)'
  <2>1. /\ b \in Stored /\ Assigned("publish", badges[b], Published(badges[b], s))
        /\ Load(p, "publish", b, Published(badges[b], s), {}, {})
    BY <1>4 DEF PublishRead, Owned, Assigned
  <2>2. Published(badges[b], s) \in Badge
    BY <1>2, <2>1 DEF Published, Badge
  <2> QED BY <1>3, <2>1, <2>2, SequentialLoad DEF Ops
<1>5. ASSUME NEW p \in Procs, NEW o \in Organisers, NEW b \in Badges, UnpublishRead(p, o, b)
      PROVE  (Undisturbed /\ RowsOK)'
  <2>1. /\ b \in Stored /\ Assigned("unpublish", badges[b], Unpublished(badges[b]))
        /\ Load(p, "unpublish", b, Unpublished(badges[b]), {}, {})
    BY <1>5 DEF UnpublishRead, Owned, Assigned
  <2>2. Unpublished(badges[b]) \in Badge
    BY <1>2, <2>1 DEF Unpublished, Badge
  <2> QED BY <1>3, <2>1, <2>2, SequentialLoad DEF Ops
<1>6. ASSUME NEW p \in Procs, NEW o \in Organisers, NEW b \in Badges, DeleteRead(p, o, b)
      PROVE  (Undisturbed /\ RowsOK)'
  <2>1. /\ b \in Stored /\ Assigned("delete", badges[b], Deleted(badges[b]))
        /\ Load(p, "delete", b, Deleted(badges[b]), {}, {})
    BY <1>6 DEF DeleteRead, Owned, Assigned
  <2>2. Deleted(badges[b]) \in Badge
    BY <1>2, <2>1 DEF Deleted, Badge
  <2> QED BY <1>3, <2>1, <2>2, SequentialLoad DEF Ops
<1>7. ASSUME NEW p \in Procs, NEW o \in Organisers, NEW b \in Badges, NEW u \in Updates,
             EditRead(p, o, b, u)
      PROVE  (Undisturbed /\ RowsOK)'
  <2>1. /\ b \in Stored /\ Assigned("edit", badges[b], Edited(badges[b], u))
        /\ Load(p, "edit", b, Edited(badges[b], u), Replaced(b, u), Added(u))
    BY <1>7 DEF EditRead, Owned, Assigned
  <2>2. OneList(Added(u)) /\ ((Replaced(b, u) = {} /\ Added(u) = {}) \/ Replaced(b, u) = tags[b])
    BY DEF OneList, Added, Replaced
  <2>3. /\ TargetPrivate(badges[b], u) \in BOOLEAN
        /\ TargetCode(badges[b], u) \in Codes \cup {None}
    BY <1>2, <2>1 DEF TargetPrivate, TargetCode, Badge, Updates
  <2>4. Edited(badges[b], u) \in Badge
    BY <1>2, <2>1, <2>3 DEF Edited, Badge
  <2> QED BY <2>1, <2>2, <2>4, SequentialLoad DEF Ops
<1>8. ASSUME NEW p \in Procs, NEW o \in Organisers, NEW b \in Badges, DuplicateRead(p, o, b)
      PROVE  (Undisturbed /\ RowsOK)'
  <2> DEFINE new == Copy(badges[b])
             add == {<<calls, r[2]>> : r \in tags[b]}
  <2>1. b \in Stored /\ ~badges[b].deleted /\ Load(p, "duplicate", b, new, {}, add)
    BY <1>8 DEF DuplicateRead, Owned
  <2>2. new \in Badge /\ CodeOK(new) /\ ~new.deleted
    BY <1>2, <2>1 DEF Copy, CodeOK, Badge
  <2>3. OneList(add)
    BY DEF OneList
  <2> HIDE DEF new, add
  <2> QED BY <2>1, <2>2, <2>3, SequentialLoad DEF Ops
<1>9. ASSUME NEW p \in Procs, NEW o \in Organisers, NEW b \in Badges, Create(p, o, b)
      PROVE  (Undisturbed /\ RowsOK)'
  <2>1. \A q \in Procs : q = p
    BY DEF OneHandler
  <2>2. /\ b \notin Stored /\ badges \in [Badges -> Badge \cup {NoBadge}] /\ tags[b] = {}
    BY <1>1, <1>9 DEF Create, Inv, Known, TypeOK, RowsOK, NoStrayTags
  <2>3. /\ UNCHANGED <<tags, pc, loc>> /\ pc[p] = "idle" /\ Stored' \subseteq Stored \cup {b}
        /\ Stored \subseteq Stored'
        /\ \A d \in Badges \ {b} : badges'[d] = badges[d]
        /\ ~badges'[b].private /\ badges'[b].code = None /\ ~badges'[b].deleted
    BY <2>2, <1>9 DEF Create, Accept, Idle, Stored
  <2>4. Undisturbed'
    BY <2>1, <2>3 DEF Undisturbed
  <2>5. RowsOK'
    BY <1>1, <2>2, <2>3
    DEF RowsOK, DeletedUnpublished, CodeIffPrivate, OneHashtagList, NoStrayTags, Stored
  <2> QED BY <2>4, <2>5
<1>10. ASSUME NEW p \in Procs, Commit(p) PROVE (Undisturbed /\ RowsOK)'
  <2> DEFINE b == loc[p].badge
             new == loc[p].new
             rest == (tags[b] \ loc[p].drop) \cup loc[p].add
  <2>1. /\ b \in Stored /\ b \in Badges /\ badges[b] = loc[p].old /\ new \in Badge
        /\ badges' = [badges EXCEPT ![b] = new] /\ tags' = [tags EXCEPT ![b] = rest]
    BY <1>10, SequentialCommit DEF Stored
  <2>2. CodeOK(new) /\ (new.deleted => ~new.published)
    BY <1>10, <1>2, <2>1, AssignedRules DEF Commit, Undisturbed, Inv, LoadedOK, Kept
  <2>3. OneList(rest)
    BY <1>10, <1>1, <2>1
    DEF Commit, Undisturbed, OneList, RowsOK, OneHashtagList
  <2>4. Undisturbed'
    BY <1>10, <1>1, SequentialEnd DEF Commit
  <2> HIDE DEF b, new, rest
  <2>5. /\ badges'[b] = new /\ tags'[b] = rest /\ Stored' = Stored
        /\ \A d \in Badges \ {b} : badges'[d] = badges[d] /\ tags'[d] = tags[d]
    BY <1>1, <2>1, NotNull DEF TypeOK, Stored
  <2>6. RowsOK'
    BY <1>1, <2>1, <2>2, <2>3, <2>5
    DEF RowsOK, DeletedUnpublished, CodeIffPrivate, OneHashtagList, NoStrayTags, CodeOK,
        OneList, Stored
  <2> QED BY <2>4, <2>6
<1>11. ASSUME NEW p \in Procs, NEW c \in Badges, Insert(p, c) PROVE (Undisturbed /\ RowsOK)'
  <2> DEFINE new == loc[p].new
             add == loc[p].add
  <2>1. /\ new \in Badge /\ CodeOK(new) /\ ~new.deleted /\ OneList(add)
        /\ badges' = [badges EXCEPT ![c] = new] /\ tags' = [tags EXCEPT ![c] = add]
    BY <1>11 DEF Insert, Undisturbed, Inv, LoadedOK
  <2>2. Undisturbed'
    BY <1>11, <1>1, SequentialEnd DEF Insert
  <2> HIDE DEF new, add
  <2>3. /\ badges'[c] = new /\ tags'[c] = add /\ Stored' = Stored \cup {c}
        /\ \A d \in Badges \ {c} : badges'[d] = badges[d] /\ tags'[d] = tags[d]
    BY <1>1, <2>1, NotNull DEF TypeOK, Stored
  <2>4. RowsOK'
    BY <1>1, <2>1, <2>3
    DEF RowsOK, DeletedUnpublished, CodeIffPrivate, OneHashtagList, NoStrayTags, CodeOK,
        OneList, Stored
  <2> QED BY <2>2, <2>4
<1>12. ASSUME NEW o \in Organisers, DeleteOrganiser(o) PROVE (Undisturbed /\ RowsOK)'
  <2>1. /\ UNCHANGED <<pc, loc>>
        /\ \A b \in Badges : \/ badges'[b] = badges[b] /\ tags'[b] = tags[b]
                             \/ badges'[b] = NoBadge /\ tags'[b] = {}
    BY <1>12 DEF DeleteOrganiser
  <2>2. \A b \in Stored' : b \in Stored /\ badges'[b] = badges[b] /\ tags'[b] = tags[b]
    BY <2>1 DEF Stored
  <2>3. Undisturbed'
    BY <2>1, <2>2 DEF Undisturbed
  <2>4. RowsOK'
    BY <1>1, <2>1, <2>2
    DEF RowsOK, DeletedUnpublished, CodeIffPrivate, OneHashtagList, NoStrayTags, Stored
  <2> QED BY <2>3, <2>4
<1>13. ASSUME NEW p \in Procs, Abort(p) PROVE (Undisturbed /\ RowsOK)'
  <2>1. Undisturbed'
    BY <1>13, <1>1, SequentialEnd DEF Abort
  <2> QED BY <1>1, <1>13, <2>1
      DEF Abort, Tables, RowsOK, DeletedUnpublished, CodeIffPrivate, OneHashtagList,
          NoStrayTags, Stored
<1>14. CASE UNCHANGED vars
  BY <1>1, <1>14
  DEF vars, Undisturbed, RowsOK, DeletedUnpublished, CodeIffPrivate, OneHashtagList,
      NoStrayTags, Stored
<1> QED
  BY <1>1, <1>4, <1>5, <1>6, <1>7, <1>8, <1>9, <1>10, <1>11, <1>12, <1>13, <1>14 DEF Next

LEMMA SequentialInvariant ==
    ASSUME OneHandler
    PROVE  Spec => []SInv
<1>1. Init => SInv
  BY InvInit, SequentialInit DEF SInv
<1>2. SInv /\ [Next]_vars => SInv'
  BY SequentialNext
<1> QED BY <1>1, <1>2, PTL DEF Spec

(* Served one at a time, requests leave no access code on a public badge   *)
(* and no private badge without one.                                       *)
THEOREM SequentialCodes ==
    ASSUME OneHandler
    PROVE  Spec => []CodeIffPrivate
<1>1. SInv => CodeIffPrivate
  BY DEF SInv, RowsOK
<1> QED BY <1>1, SequentialInvariant, PTL

(* Served one at a time, they never leave a deleted badge published.       *)
THEOREM SequentialDeletion ==
    ASSUME OneHandler
    PROVE  Spec => []DeletedUnpublished
<1>1. SInv => DeletedUnpublished
  BY DEF SInv, RowsOK
<1> QED BY <1>1, SequentialInvariant, PTL

(* Served one at a time, they never mix two hashtag lists.                 *)
THEOREM SequentialHashtags ==
    ASSUME OneHandler
    PROVE  Spec => []OneHashtagList
<1>1. SInv => OneHashtagList
  BY DEF SInv, RowsOK
<1> QED BY <1>1, SequentialInvariant, PTL

(* Served one at a time, they never change a link once it is given.        *)
THEOREM SequentialLinks ==
    ASSUME OneHandler
    PROVE  Spec => SlugStable
<1>1. ASSUME SInv, [Next]_vars, NEW b \in Stored, badges[b].slug # None, b \in Stored'
      PROVE  badges'[b].slug = badges[b].slug
  <2>1. CASE \E p \in Procs : Commit(p) /\ loc[p].badge = b
    <3>1. PICK p \in Procs : Commit(p) /\ loc[p].badge = b
      BY <2>1
    <3>2. badges[b] = loc[p].old
      BY <1>1, <3>1, SequentialCommit
    <3> QED BY <1>1, <3>1, <3>2, CommitWrites DEF SInv, Kept
  <2>2. CASE \A p \in Procs : ~(Commit(p) /\ loc[p].badge = b)
    BY <1>1, <2>2, OtherSteps DEF SInv
  <2> QED BY <2>1, <2>2
<1>2. SInv /\ [Next]_vars
        => [\A b \in Stored : badges[b].slug # None
                                 => (b \in Stored' => badges'[b].slug = badges[b].slug)]_vars
  BY <1>1
<1> QED BY <1>2, SequentialInvariant, PTL DEF Spec, SlugStable
=============================================================================

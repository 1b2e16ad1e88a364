-------------------------- MODULE Badges_refinement --------------------------
(***************************************************************************)
(* Badges, with one handler, implements BadgePromise: the initial states   *)
(* map to initial states, every step to a step or a stutter.               *)
(***************************************************************************)
EXTENDS Badges_proofs

(* The abstract state changes where the tables do. *)
LEMMA Stutter ==
    ASSUME UNCHANGED <<badges, made>>
    PROVE  UNCHANGED Promise!pvars
<1>1. Stored' = Stored
  BY DEF Stored
<1>2. \A b \in Badges : State(b)' = State(b) /\ Link(b)' = Link(b) /\ Keys(b)' = Keys(b)
  BY <1>1 DEF State, Link, Keys, Unlocks
<1> QED BY <1>2 DEF Promise!pvars

LEMMA OneChange ==
    ASSUME NEW b \in Badges,
           \A d \in Badges \ {b} : badges'[d] = badges[d] /\ (d \in made' <=> d \in made)
    PROVE  /\ [d \in Badges |-> State(d)]' = [[d \in Badges |-> State(d)] EXCEPT ![b] = State(b)']
           /\ [d \in Badges |-> Link(d)]' = [[d \in Badges |-> Link(d)] EXCEPT ![b] = Link(b)']
           /\ [d \in Badges |-> Keys(d)]' = [[d \in Badges |-> Keys(d)] EXCEPT ![b] = Keys(b)']
<1>1. \A d \in Badges \ {b} : d \in Stored' <=> d \in Stored
  BY DEF Stored
<1>2. \A d \in Badges \ {b} : State(d)' = State(d) /\ Link(d)' = Link(d) /\ Keys(d)' = Keys(d)
  BY <1>1 DEF State, Link, Keys, Unlocks
<1> QED BY <1>2

(* A badge that obeys the rules opens for everyone or with its one code. *)
LEMMA OpensOneWay ==
    ASSUME NEW r \in Badge, CodeOK(r)
    PROVE  {c \in Codes \cup {None} : r.private => c # None /\ c = r.code} \in Promise!Ways
<1> DEFINE K == {c \in Codes \cup {None} : r.private => c # None /\ c = r.code}
<1>1. CASE r.private
  <2>1. K = {r.code} /\ r.code \in Codes
    BY <1>1 DEF CodeOK, Badge
  <2> QED BY <2>1 DEF Promise!Ways
<1>2. CASE ~r.private
  <2>1. K = Codes \cup {None}
    BY <1>2
  <2> QED BY <2>1 DEF Promise!Ways
<1> QED BY <1>1, <1>2 DEF Badge

LEMMA InitImplements == Init => Promise!Init
BY DEF Init, Promise!Init, State, Link, Keys, Stored

(* A step that makes badge c a draft. *)
LEMMA MakeImplements ==
    ASSUME TypeOK, Known, NEW c \in Badges, c \notin made, made' = made \cup {c},
           NEW r \in Badge, CodeOK(r), ~r.deleted, ~r.published, r.slug = None,
           badges' = [badges EXCEPT ![c] = r]
    PROVE  Promise!Make(c)
<1>1. /\ c \notin Stored /\ c \in Stored' /\ badges'[c] = r
      /\ \A d \in Badges \ {c} : badges'[d] = badges[d] /\ (d \in made' <=> d \in made)
  BY NotNull DEF TypeOK, Known, Stored
<1>2. State(c) = "absent" /\ State(c)' = "draft" /\ Link(c) = None /\ Link(c)' = None
  BY <1>1 DEF State, Link
<1>3. Keys(c)' \in Promise!Ways
  BY <1>1, OpensOneWay DEF Keys, Unlocks
<1> QED BY <1>1, <1>2, <1>3, OneChange DEF Promise!Make

LEMMA CreateImplements ==
    ASSUME SInv, NEW p \in Procs, NEW o \in Organisers, NEW b \in Badges, Create(p, o, b)
    PROVE  Promise!Make(b)
<1> DEFINE r == [owner |-> o, published |-> FALSE, stamped |-> FALSE, slug |-> None,
                 private |-> FALSE, code |-> None, deleted |-> FALSE]
<1>1. r \in Badge /\ CodeOK(r) /\ ~r.deleted /\ ~r.published /\ r.slug = None
  BY DEF Badge, CodeOK
<1>2. b \notin made /\ made' = made \cup {b} /\ badges' = [badges EXCEPT ![b] = r]
  BY DEF Create
<1> HIDE DEF r
<1> QED BY <1>1, <1>2, MakeImplements DEF SInv, Inv

LEMMA InsertImplements ==
    ASSUME SInv, NEW p \in Procs, NEW c \in Badges, Insert(p, c)
    PROVE  Promise!Make(c)
<1>1. /\ loc[p].new \in Badge /\ CodeOK(loc[p].new) /\ ~loc[p].new.deleted
      /\ ~loc[p].new.published /\ loc[p].new.slug = None
  BY DEF SInv, Inv, LoadedOK, Undisturbed, Insert
<1>2. c \notin made /\ made' = made \cup {c} /\ badges' = [badges EXCEPT ![c] = loc[p].new]
  BY DEF Insert
<1> QED BY <1>1, <1>2, MakeImplements DEF SInv, Inv

(* What one commit does to badge b. *)
LEMMA ChangeImplements ==
    ASSUME TypeOK, NEW b \in Badges, b \in made, NEW op, NEW old \in Badge, NEW new \in Badge,
           badges[b] = old, badges' = [badges EXCEPT ![b] = new], made' = made,
           SlugFree(b, new.slug), Assigned(op, old, new),
           CodeOK(old), CodeOK(new), ~old.deleted
    PROVE  \/ UNCHANGED Promise!pvars
           \/ Promise!Publish(b) \/ Promise!Unpublish(b) \/ Promise!Lock(b) \/ Promise!Delete(b)
<1>1. b \in Stored
  BY NotNull DEF Stored
<1>2. badges \in [Badges -> Badge \cup {NoBadge}]
  BY DEF TypeOK
<1>3. /\ b \in Stored' /\ badges'[b] = new
      /\ \A d \in Badges \ {b} : badges'[d] = badges[d] /\ (d \in made' <=> d \in made)
  BY <1>2, NotNull DEF Stored
<1>4. /\ State(b) = IF old.published THEN "live" ELSE "draft"
      /\ State(b)' = IF new.deleted THEN "gone" ELSE IF new.published THEN "live" ELSE "draft"
      /\ Link(b) = old.slug /\ Link(b)' = new.slug
      /\ Keys(b) = {c \in Codes \cup {None} : old.private => c # None /\ c = old.code}
      /\ Keys(b)' = {c \in Codes \cup {None} : new.private => c # None /\ c = new.code}
  BY <1>1, <1>3 DEF State, Link, Keys, Unlocks
<1>5. /\ [d \in Badges |-> State(d)]' = [[d \in Badges |-> State(d)] EXCEPT ![b] = State(b)']
      /\ [d \in Badges |-> Link(d)]' = [[d \in Badges |-> Link(d)] EXCEPT ![b] = Link(b)']
      /\ [d \in Badges |-> Keys(d)]' = [[d \in Badges |-> Keys(d)] EXCEPT ![b] = Keys(b)']
  BY <1>3, OneChange
<1>6. ASSUME NEW s \in Slugs, ~old.published, new = Published(old, s)
      PROVE  Promise!Publish(b)
  <2>1. /\ new.published /\ new.deleted = old.deleted /\ new.private = old.private
        /\ new.code = old.code /\ new.slug = IF old.slug = None THEN s ELSE old.slug
    BY <1>6 DEF Published, Badge
  <2>2. State(b) = "draft" /\ State(b)' = "live" /\ Keys(b)' = Keys(b)
    BY <1>4, <1>6, <2>1
  <2>3. CASE old.slug # None
    <3>1. Link(b) # None /\ Link(b)' = Link(b)
      BY <1>4, <2>1, <2>3
    <3> QED BY <1>1, <1>5, <2>2, <3>1 DEF Promise!Publish
  <2>4. CASE old.slug = None
    <3>1. Link(b) = None /\ Link(b)' = s /\ s # None
      BY <1>4, <2>1, <2>4, BadgesAssumption
    <3>2. \A d \in Stored \ {b} : badges[d].slug # s
      BY <2>1, <2>4, <3>1 DEF SlugFree
    <3>3. \A d \in Badges : Link(d) # s
      BY <3>1, <3>2 DEF Link
    <3>4. /\ [d \in Badges |-> State(d)]' = [[d \in Badges |-> State(d)] EXCEPT ![b] = "live"]
          /\ [d \in Badges |-> State(d)][b] = "draft"
      BY <1>5, <2>2
    <3>5. /\ [d \in Badges |-> Link(d)]' = [[d \in Badges |-> Link(d)] EXCEPT ![b] = s]
          /\ [d \in Badges |-> Link(d)][b] = None
      BY <1>5, <3>1
    <3>6. s \in Slugs \ {[d \in Badges |-> Link(d)][e] : e \in Badges}
      BY <3>3
    <3>7. UNCHANGED [d \in Badges |-> Keys(d)]
      BY <1>5, <2>2
    <3> QED BY <3>4, <3>5, <3>6, <3>7 DEF Promise!Publish
  <2> QED BY <2>3, <2>4
<1>7. ASSUME new = Unpublished(old)
      PROVE  Promise!Unpublish(b) \/ UNCHANGED Promise!pvars
  <2>1. /\ ~new.published /\ new.deleted = old.deleted /\ new.private = old.private
        /\ new.code = old.code /\ new.slug = old.slug
    BY <1>7 DEF Unpublished, Badge
  <2>2. State(b)' = "draft" /\ Keys(b)' = Keys(b) /\ Link(b)' = Link(b)
    BY <1>4, <2>1
  <2>3. CASE old.published
    BY <1>1, <1>4, <1>5, <2>2, <2>3 DEF Promise!Unpublish
  <2>4. CASE ~old.published
    BY <1>1, <1>4, <1>5, <2>2, <2>4 DEF Promise!pvars
  <2> QED BY <2>3, <2>4
<1>8. ASSUME new = Deleted(old)
      PROVE  Promise!Delete(b)
  <2>1. /\ new.deleted /\ new.private = old.private /\ new.code = old.code
        /\ new.slug = old.slug
    BY <1>8 DEF Deleted, Badge
  <2>2. State(b)' = "gone" /\ Keys(b)' = Keys(b) /\ Link(b)' = Link(b)
    BY <1>4, <2>1
  <2>3. State(b) \in {"draft", "live"}
    BY <1>4
  <2> QED BY <1>1, <1>5, <2>2, <2>3 DEF Promise!Delete, Promise!Kept
<1>9. ASSUME NEW u \in Updates, ValidAccess(old, u), new = Edited(old, u)
      PROVE  Promise!Lock(b)
  <2>1. new.deleted = old.deleted /\ new.published = old.published /\ new.slug = old.slug
    BY <1>1, <1>9, EditedAccess
  <2>2. /\ State(b)' = State(b) /\ Link(b)' = Link(b) /\ State(b) \in {"draft", "live"}
        /\ Keys(b)' \in Promise!Ways
    BY <1>1, <1>4, <2>1, OpensOneWay
  <2> QED BY <1>1, <1>5, <2>2 DEF Promise!Lock, Promise!Kept
<1> QED BY <1>6, <1>7, <1>8, <1>9 DEF Assigned

LEMMA CommitImplements ==
    ASSUME SInv, NEW p \in Procs, Commit(p)
    PROVE  \/ UNCHANGED Promise!pvars
           \/ \E b \in Badges : \/ Promise!Publish(b) \/ Promise!Unpublish(b)
                                \/ Promise!Lock(b) \/ Promise!Delete(b)
<1>1. /\ loc[p].badge \in Badges /\ loc[p].badge \in made /\ badges[loc[p].badge] = loc[p].old
      /\ loc[p].old \in Badge /\ loc[p].new \in Badge
      /\ badges' = [badges EXCEPT ![loc[p].badge] = loc[p].new] /\ made' = made
      /\ SlugFree(loc[p].badge, loc[p].new.slug)
  BY SequentialCommit DEF SInv, Inv, Known, Stored, Commit
<1>2. /\ Assigned(loc[p].op, loc[p].old, loc[p].new)
      /\ CodeOK(loc[p].old) /\ CodeOK(loc[p].new) /\ ~loc[p].old.deleted
  BY <1>1, AssignedRules DEF SInv, Inv, Undisturbed, LoadedOK, Kept, Commit
<1> QED BY <1>1, <1>2, ChangeImplements DEF SInv, Inv

LEMMA DeleteOrganiserImplements ==
    ASSUME SInv, NEW o \in Organisers, DeleteOrganiser(o)
    PROVE  Promise!Remove({b \in Stored : badges[b].owner = o})
<1> DEFINE S == {b \in Stored : badges[b].owner = o}
<1>1. /\ S \subseteq Badges /\ made' = made /\ S \subseteq made
      /\ \A b \in Badges : badges'[b] = IF b \in S THEN NoBadge ELSE badges[b]
  BY DEF DeleteOrganiser, SInv, Inv, Known, Stored
<1> HIDE DEF S
<1>2. \A b \in Badges \ S : /\ State(b)' = State(b) /\ Link(b)' = Link(b)
                            /\ Keys(b)' = Keys(b)
  BY <1>1 DEF State, Link, Keys, Unlocks, Stored
<1>3. \A b \in S : State(b)' = "removed" /\ Link(b)' = None /\ Keys(b)' = {}
  BY <1>1 DEF State, Link, Keys, Stored
<1>4. \A b \in S : State(b) \in {"draft", "live", "gone"}
  BY <1>1 DEF State, S
<1> QED BY <1>1, <1>2, <1>3, <1>4 DEF Promise!Remove, Promise!Kept, S

LEMMA StepImplements ==
    ASSUME OneHandler, SInv, [Next]_vars
    PROVE  [Promise!Next]_(Promise!pvars)
<1>1. ASSUME NEW p \in Procs, NEW op, NEW b, NEW new, NEW drop, NEW add,
             Load(p, op, b, new, drop, add)
      PROVE  UNCHANGED Promise!pvars
  BY <1>1, Stutter DEF Load, Tables
<1>2. ASSUME NEW p \in Procs, Abort(p)
      PROVE  UNCHANGED Promise!pvars
  BY <1>2, Stutter DEF Abort, Tables
<1>3. ASSUME NEW p \in Procs, NEW o \in Organisers, NEW b \in Badges,
             \/ Create(p, o, b)
             \/ \E s \in Slugs : PublishRead(p, o, b, s)
             \/ UnpublishRead(p, o, b) \/ DeleteRead(p, o, b)
             \/ \E u \in Updates : EditRead(p, o, b, u)
             \/ DuplicateRead(p, o, b)
      PROVE  Promise!Next \/ UNCHANGED Promise!pvars
  BY <1>1, <1>3, CreateImplements
  DEF PublishRead, UnpublishRead, DeleteRead, EditRead, DuplicateRead, Promise!Next
<1>4. ASSUME NEW p \in Procs, Commit(p)
      PROVE  Promise!Next \/ UNCHANGED Promise!pvars
  BY <1>4, CommitImplements DEF Promise!Next
<1>5. ASSUME NEW p \in Procs, NEW c \in Badges, Insert(p, c)
      PROVE  Promise!Next
  BY <1>5, InsertImplements DEF Promise!Next
<1>6. ASSUME NEW o \in Organisers, DeleteOrganiser(o)
      PROVE  Promise!Next
  <2>1. {b \in Stored : badges[b].owner = o} \in SUBSET Badges
    BY DEF Stored
  <2> QED BY <1>6, <2>1, DeleteOrganiserImplements DEF Promise!Next
<1>7. CASE UNCHANGED vars
  BY <1>7, Stutter DEF vars
<1> QED BY <1>2, <1>3, <1>4, <1>5, <1>6, <1>7 DEF Next

(* Served one at a time, the requests keep what BadgePromise promises the  *)
(* people who are sent a badge's link.                                     *)
THEOREM KeepsPromise ==
    ASSUME OneHandler
    PROVE  Spec => PromiseKept
<1>1. SInv /\ [Next]_vars => [Promise!Next]_(Promise!pvars)
  BY StepImplements
<1> QED BY <1>1, InitImplements, SequentialInvariant, PTL DEF Spec, PromiseKept, Promise!Spec
=============================================================================

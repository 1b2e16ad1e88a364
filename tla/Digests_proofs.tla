--------------------------- MODULE Digests_proofs ---------------------------
(***************************************************************************)
(* Proofs about Digests (and the requests it runs beside), for every       *)
(* number of requests, accounts, badges, templates and days.               *)
(***************************************************************************)
EXTENDS Digests, FiniteSetTheorems, WellFoundedInduction, TLAPS

(* One request moves to a step, with what it then holds. *)
Moves(p, step, held) ==
    /\ DOMAIN pc' = Procs /\ DOMAIN loc' = Procs
    /\ pc'[p] = step /\ loc'[p] = held
    /\ \A q \in Procs \ {p} : pc'[q] = pc[q] /\ loc'[q] = loc[q]

LEMMA Moving ==
    ASSUME DOMAIN pc = Procs, DOMAIN loc = Procs, NEW p \in Procs, NEW step, NEW held
    PROVE  /\ Accept(p, step, held) => Moves(p, step, held) /\ pc[p] = "idle"
           /\ Goto(p, step, held) => Moves(p, step, held)
           /\ Finish(p) => Moves(p, "idle", None)
BY DEF Accept, Goto, Finish, Moves, Busy
----------------------------------------------------------------------------
(***************************************************************************)
(* Types.                                                                  *)
(***************************************************************************)
AlertNote ==
    [user : Users, type : {"alert"}, at : Nat, day : Nat, read : BOOLEAN, badge : Badges]
DigestNote ==
    [user : Users, type : Kinds, at : Nat, read : BOOLEAN, period : Nat, count : Nat,
     top : {None} \cup {WeekdayNames[i] : i \in 1..7}]
Note == AlertNote \cup DigestNote

CountHand == [badge : Badges, user : Users, at : Nat, day : Nat, notify : BOOLEAN]
WalkHand ==
    [user : Users, page : Nat \ {0}, total : Nat, seen : SUBSET Nat, first : SUBSET Nat,
     torn : BOOLEAN]

Walking == {"slice", "next", "walked"}
Counting == {"alert", "insert"}

HandOK(p) ==
    /\ pc[p] \in {"idle", "create", "share", "cascade"} \cup Walking \cup Counting
    /\ pc[p] \in Walking => loc[p] \in WalkHand
    /\ pc[p] \in Counting => loc[p] \in CountHand
    /\ pc[p] = "create" => loc[p] \in [user : Users, template : Templates]
    /\ pc[p] = "share" => loc[p] \in [badge : Badges]
    /\ pc[p] = "cascade" => loc[p] \in [user : Users]

Hands == DOMAIN pc = Procs /\ DOMAIN loc = Procs /\ \A p \in Procs : HandOK(p)

Tables ==
    /\ users \subseteq Users
    /\ prefs \in [Users -> Prefs] /\ \A u \in Users : prefs[u].updated <= begun
    /\ notes \subseteq Note /\ IsFiniteSet(notes)
    /\ begun \in Nat /\ clock \in Nat
    /\ badges \in [Badges -> Badge \cup {None}]
    /\ origin \in [Badges -> Templates \cup {None}]
    /\ templates \in [Templates -> Template]

LEMMA InitHands == DigestsInit => Hands
BY DEF DigestsInit, ParticipationInit, RequestsInit, Hands, HandOK, Walking, Counting

LEMMA Beginnings ==
    /\ DOMAIN Past = 1..Len(Past) /\ Len(Past) \in Nat /\ IsFiniteSet(DOMAIN Past)
    /\ \A i \in DOMAIN Past : Past[i].badge \in DOMAIN Founded /\ Past[i].day \in Nat
    /\ DOMAIN Founded \subseteq Badges /\ IsFiniteSet(DOMAIN Founded)
    /\ \A b \in DOMAIN Founded : Founded[b].owner \in Users /\ Founded[b].template \in Templates
<1>1. /\ DOMAIN Past = 1..Len(Past) /\ Len(Past) \in Nat
      /\ \A i \in DOMAIN Past : Past[i] \in [badge : DOMAIN Founded, day : Nat]
  <2> DEFINE P == [badge : DOMAIN Founded, day : Nat]
  <2>1. Past \in Seq(P)
    BY ParticipationAssumption
  <2> HIDE DEF P
  <2>2. DOMAIN Past = 1..Len(Past) /\ Len(Past) \in Nat /\ \A i \in DOMAIN Past : Past[i] \in P
    BY ONLY <2>1
  <2> QED BY <2>2 DEF P
<1>2. /\ DOMAIN Founded = 1..Len(Founded) /\ Len(Founded) \in Nat /\ Len(Founded) <= MaxBadges
      /\ \A b \in DOMAIN Founded : Founded[b] \in [owner : Users, template : Templates]
  <2> DEFINE P == [owner : Users, template : Templates]
  <2>1. Founded \in Seq(P)
    BY ParticipationAssumption
  <2> HIDE DEF P
  <2>2. DOMAIN Founded = 1..Len(Founded) /\ Len(Founded) \in Nat /\ \A i \in DOMAIN Founded : Founded[i] \in P
    BY ONLY <2>1
  <2> QED BY <2>2, ParticipationAssumption DEF P
<1>3. IsFiniteSet(DOMAIN Past) /\ IsFiniteSet(DOMAIN Founded)
  <2>1. \A n \in Nat : IsFiniteSet(1..n)
    BY FS_Interval
  <2> QED BY <1>1, <1>2, <2>1
<1>4. \A i \in DOMAIN Past : Past[i].badge \in DOMAIN Founded /\ Past[i].day \in Nat
  BY <1>1
<1>5. \A b \in DOMAIN Founded : Founded[b].owner \in Users /\ Founded[b].template \in Templates
  BY <1>2
<1>6. DOMAIN Founded \subseteq Badges
  BY <1>2, ParticipationAssumption DEF Badges
<1> QED BY <1>1, <1>3, <1>4, <1>5, <1>6

LEMMA PartOfFinite ==
    ASSUME NEW S, IsFiniteSet(S), NEW T, T \subseteq S
    PROVE  IsFiniteSet(T) /\ Cardinality(T) \in Nat
BY FS_Subset, FS_CardinalityType

LEMMA InitTables == DigestsInit => Tables
<1> SUFFICES ASSUME ParticipationInit, clock = Start PROVE Tables
  BY DEF DigestsInit
<1>1. users \subseteq Users /\ begun \in Nat /\ clock \in Nat
  BY Beginnings, DigestsAssumption DEF ParticipationInit
<1>2. prefs \in [Users -> Prefs] /\ \A u \in Users : prefs[u].updated <= begun
  <2>1. prefs = [u \in Users |-> NoPrefs] /\ begun \in Nat
    BY Beginnings DEF ParticipationInit
  <2> QED BY <2>1 DEF Prefs, NoPrefs
<1>3. notes \subseteq Note /\ IsFiniteSet(notes)
  <2> DEFINE note(i) == Alert(Founded[Past[i].badge].owner, Past[i].badge, i, Past[i].day)
  <2>1. notes = {note(i) : i \in DOMAIN Past}
    BY DEF ParticipationInit
  <2>2. \A i \in DOMAIN Past : note(i) \in Note
    BY Beginnings DEF Note, AlertNote, Alert
  <2>3. IsFiniteSet({note(i) : i \in DOMAIN Past})
    <3> DEFINE f == [i \in DOMAIN Past |-> note(i)]
    <3>1. f \in Surjection(DOMAIN Past, {note(i) : i \in DOMAIN Past})
      BY DEF Surjection
    <3> QED BY <3>1, Beginnings, FS_Surjection
  <2> QED BY <2>1, <2>2, <2>3
<1>4. badges \in [Badges -> Badge \cup {None}]
  <2> DEFINE n(b) == Cardinality({i \in DOMAIN Past : Past[i].badge = b})
  <2>1. \A b \in DOMAIN Founded : n(b) \in Nat
    BY Beginnings, PartOfFinite
  <2>2. badges = [b \in Badges |->
          IF b \in DOMAIN Founded
          THEN [NewBadge(Founded[b].owner, Founded[b].template) EXCEPT
                   !.public = TRUE, !.created = n(b)]
          ELSE None]
    BY DEF ParticipationInit
  <2> HIDE DEF n
  <2> QED BY ONLY <2>1, <2>2, Beginnings DEF Badge, NewBadge
<1>5. origin \in [Badges -> Templates \cup {None}]
  BY Beginnings DEF ParticipationInit
<1>6. templates \in [Templates -> Template]
  <2> DEFINE from(t) == {b \in DOMAIN Founded : Founded[b].template = t}
  <2>1. \A t \in Templates : Cardinality(from(t)) \in Nat
    BY Beginnings, PartOfFinite
  <2>2. templates = [t \in Templates |->
          [stage |-> IF from(t) = {} THEN "new" ELSE "stored", active |-> from(t) # {},
           total |-> Cardinality(from(t))]]
    BY DEF ParticipationInit
  <2> HIDE DEF from
  <2> QED BY ONLY <2>1, <2>2 DEF Template
<1> QED BY <1>1, <1>2, <1>3, <1>4, <1>5, <1>6 DEF Tables
----------------------------------------------------------------------------
(* The foreign keys; a creation in progress holds a badge that is there.    *)
References ==
    /\ \A b \in Badges : badges[b] # None =>
          /\ badges[b].owner \in users
          /\ badges[b].template = origin[b] /\ Stored(origin[b])
    /\ \A n \in notes : n.user \in users

HeldRow(p) ==
    LET b == loc[p].badge IN badges[b] # None /\ badges[b].owner = loc[p].user

Holds == \A p \in Procs : pc[p] \in Counting => HeldRow(p)

(* The runs of the jobs.  The record's fields are kept by EXCEPT; counts    *)
(* and due are functions on some of the accounts.                          *)
Iterating == {"each", "look", "send"}
JobOK(k) ==
    LET run == job[k] IN
    /\ DOMAIN run = DOMAIN NoJob
    /\ run.pc \in {"off", "owners", "targets", "counts", "done", "failed", "cut"} \cup Iterating
    /\ run.day \in Nat \cup {None} /\ run.at \in Nat \cup {None} /\ run.base \in Nat
    /\ run.opted \subseteq Users /\ run.owners \subseteq Users /\ run.left \subseteq Users
    /\ DOMAIN run.due \subseteq Users
    /\ \A u \in DOMAIN run.due : run.due[u].count \in Nat \ {0} /\ run.due[u].badges \subseteq Badges
    /\ run.refused \subseteq Users
    /\ Running(k) => run.day \in Nat
    /\ run.pc \in Iterating => \A u \in run.left : run.counts[u] \in Nat \ {0}
    /\ run.pc \in {"look", "send"} =>
          run.who \in run.left /\ run.top \in {None} \cup {WeekdayNames[i] : i \in 1..7}
    /\ run.pc = "send" => run.at \in Nat

Jobs == DOMAIN job = Kinds /\ \A k \in Kinds : JobOK(k)

Typed == Hands /\ Tables /\ References /\ Holds /\ Jobs

(* A run that is not going on holds nothing. *)
Rests(run, how) ==
    /\ DOMAIN run = DOMAIN NoJob /\ run.pc = how
    /\ run.at = None /\ run.base = 0 /\ run.opted = {} /\ run.owners = {}
    /\ run.left = {} /\ DOMAIN run.due = {} /\ run.refused = {}

LEMMA Resting ==
    /\ Rests(NoJob, "off") /\ NoJob.day = None
    /\ \A day, how, run : run = [NoJob EXCEPT !.pc = how, !.day = day]
                             => Rests(run, how) /\ run.day = day
<1>1. Rests(NoJob, "off") /\ NoJob.day = None
  BY DEF NoJob, Rests
<1>2. ASSUME NEW day, NEW how, NEW run, run = [NoJob EXCEPT !.pc = how, !.day = day]
      PROVE  Rests(run, how) /\ run.day = day
  <2>1. DOMAIN NoJob = {"pc", "day", "opted", "owners", "counts", "left", "who", "top", "at",
                        "base", "due", "refused"}
    BY DEF NoJob
  <2>2. /\ DOMAIN run = DOMAIN NoJob /\ run.pc = how /\ run.day = day
        /\ run.at = NoJob.at /\ run.base = NoJob.base /\ run.opted = NoJob.opted
        /\ run.owners = NoJob.owners /\ run.left = NoJob.left /\ run.due = NoJob.due
        /\ run.refused = NoJob.refused
    BY ONLY <1>2, <2>1
  <2> QED BY <1>1, <2>2 DEF Rests
<1> QED BY <1>1, <1>2

LEMMA InitTyped == DigestsInit => Typed
<1> SUFFICES ASSUME DigestsInit PROVE Typed
  OBVIOUS
<1>1. Hands /\ Tables
  BY InitHands, InitTables
<1>2. References
  <2>1. users = Users
    BY DEF DigestsInit, ParticipationInit
  <2>2. ASSUME NEW b \in Badges, badges[b] # None
        PROVE  badges[b].owner \in users /\ badges[b].template = origin[b] /\ Stored(origin[b])
    <3>1. badges[b] = IF b \in DOMAIN Founded
                      THEN [NewBadge(Founded[b].owner, Founded[b].template) EXCEPT
                               !.public = TRUE,
                               !.created = Cardinality({i \in DOMAIN Past : Past[i].badge = b})]
                      ELSE None
      BY DEF DigestsInit, ParticipationInit
    <3>2. b \in DOMAIN Founded
      BY <2>2, <3>1
    <3>3. badges[b].owner = Founded[b].owner /\ badges[b].template = Founded[b].template
      BY <3>1, <3>2 DEF NewBadge
    <3>4. origin[b] = Founded[b].template
      BY <3>2 DEF DigestsInit, ParticipationInit
    <3>5. templates[Founded[b].template].stage = "stored"
      <4> DEFINE from(t) == {c \in DOMAIN Founded : Founded[c].template = t}
      <4>1. templates = [t \in Templates |->
              [stage |-> IF from(t) = {} THEN "new" ELSE "stored", active |-> from(t) # {},
               total |-> Cardinality(from(t))]]
        BY DEF DigestsInit, ParticipationInit
      <4>2. from(Founded[b].template) # {} /\ Founded[b].template \in Templates
        BY <3>2, Beginnings
      <4> HIDE DEF from
      <4> QED BY ONLY <4>1, <4>2
    <3> QED BY <2>1, <3>2, <3>3, <3>4, <3>5, Beginnings DEF Stored
  <2>3. ASSUME NEW n \in notes PROVE n.user \in users
    BY <1>1, <2>1, <2>3 DEF Tables, Note, AlertNote, DigestNote
  <2> QED BY <2>2, <2>3 DEF References
<1>3. Holds
  BY DEF Holds, Counting, DigestsInit, ParticipationInit, RequestsInit
<1>4. Jobs
  <2>1. PICK k \in Kinds : job = [j \in Kinds |->
          IF j = k THEN NoJob ELSE [NoJob EXCEPT !.pc = "cut", !.day = Today]]
    BY DEF DigestsInit
  <2>2. Today \in Nat
    BY <1>1 DEF Tables, Today
  <2>3. ASSUME NEW j \in Kinds PROVE JobOK(j)
    <3>1. job[j] = NoJob \/ job[j] = [NoJob EXCEPT !.pc = "cut", !.day = Today]
      BY <2>1
    <3>2. Rests(job[j], "off") \/ Rests(job[j], "cut")
      BY <3>1, Resting
    <3>3. job[j].day = None \/ job[j].day = Today
      BY <3>1, Resting
    <3> QED BY <2>2, <3>2, <3>3 DEF JobOK, Rests, Iterating, Running
  <2> QED BY <2>1, <2>3 DEF Jobs
<1> QED BY <1>1, <1>2, <1>3, <1>4 DEF Typed
----------------------------------------------------------------------------
LEMMA InboxFinite ==
    ASSUME Tables, NEW u
    PROVE  IsFiniteSet(Inbox(u)) /\ Cardinality(Inbox(u)) \in Nat
BY PartOfFinite DEF Tables, Inbox

LEMMA NoteAt == Tables => \A n \in notes : n.at \in Nat /\ n.user \in Users
BY DEF Tables, Note, AlertNote, DigestNote

LEMMA HandMoves ==
    ASSUME Hands, NEW p \in Procs, NEW step, NEW held, Moves(p, step, held),
           HandOK(p)'
    PROVE  Hands'
BY DEF Hands, Moves, HandOK

LEMMA HandRests ==
    ASSUME Hands, NEW p \in Procs, Finish(p)
    PROVE  Hands' /\ Moves(p, "idle", None)
<1>1. Moves(p, "idle", None)
  BY Moving DEF Hands
<1> QED BY <1>1, HandMoves DEF HandOK, Moves, Walking, Counting

LEMMA WalkTypes ==
    ASSUME Hands, Tables, NEW p \in Procs,
           (\E u \in Users : WalkStart(p, u)) \/ WalkSlice(p) \/ WalkNext(p) \/ WalkEnd(p)
    PROVE  Hands'
<1>1. ASSUME NEW u \in Users, WalkStart(p, u) PROVE Hands'
  <2> DEFINE held == [user |-> u, page |-> 1, total |-> Cardinality(Inbox(u)), seen |-> {},
                      first |-> {n.at : n \in Inbox(u)}, torn |-> FALSE]
  <2>1. Moves(p, "slice", held)
    BY <1>1, Moving DEF Hands, WalkStart
  <2>2. held \in WalkHand
    BY InboxFinite, NoteAt DEF WalkHand, Inbox
  <2> QED BY <2>1, <2>2, HandMoves DEF Moves, HandOK, Walking, Counting
<1>2. CASE WalkSlice(p)
  <2> DEFINE got == [loc[p] EXCEPT !.seen = @ \cup {n.at : n \in Page(loc[p].user, loc[p].page)},
                                   !.torn = @ \/ loc[p].total # Cardinality(Inbox(loc[p].user))]
             step == IF More(loc[p].page, loc[p].total) THEN "next" ELSE "walked"
  <2>1. Moves(p, step, got)
    BY <1>2, Moving DEF Hands, WalkSlice
  <2>2. {n.at : n \in Page(loc[p].user, loc[p].page)} \subseteq Nat
    BY NoteAt DEF Page, Inbox
  <2>3. loc[p] \in WalkHand
    BY <1>2 DEF WalkSlice, Hands, HandOK, Walking
  <2>4. got \in WalkHand
    BY <2>2, <2>3 DEF WalkHand
  <2> QED BY <2>1, <2>4, HandMoves DEF Moves, HandOK, Walking, Counting
<1>3. CASE WalkNext(p)
  <2> DEFINE held == [loc[p] EXCEPT !.page = @ + 1, !.total = Cardinality(Inbox(loc[p].user))]
  <2>1. Moves(p, "slice", held)
    BY <1>3, Moving DEF Hands, WalkNext
  <2>2. loc[p] \in WalkHand
    BY <1>3 DEF WalkNext, Hands, HandOK, Walking
  <2>3. held \in WalkHand
    <3>1. loc[p].page + 1 \in Nat \ {0}
      BY <2>2 DEF WalkHand
    <3>2. Cardinality(Inbox(loc[p].user)) \in Nat
      BY InboxFinite
    <3> QED BY <2>2, <3>1, <3>2 DEF WalkHand
  <2> QED BY <2>1, <2>3, HandMoves DEF Moves, HandOK, Walking, Counting
<1>4. CASE WalkEnd(p)
  BY <1>4, HandRests DEF WalkEnd
<1> QED BY <1>1, <1>2, <1>3, <1>4

LEMMA BadgeTypes ==
    ASSUME Tables, NEW b \in Badges, badges[b] # None
    PROVE  badges[b].owner \in Users /\ badges[b].template \in Templates
BY DEF Tables, Badge

LEMMA RequestHands ==
    ASSUME Hands, Tables, References, ParticipationNext
    PROVE  Hands'
<1>1. CASE UNCHANGED <<pc, loc>>
  BY <1>1 DEF Hands, HandOK
<1>2. ASSUME NEW p \in Procs,
             (\E u \in Users : WalkStart(p, u)) \/ WalkSlice(p) \/ WalkNext(p) \/ WalkEnd(p)
      PROVE  Hands'
  BY <1>2, WalkTypes
<1>3. ASSUME NEW p \in Procs, NEW u \in Users, DeleteAccount(p, u) PROVE Hands'
  <2>1. Moves(p, "cascade", [user |-> u])
    BY <1>3, Moving DEF DeleteAccount, Hands
  <2> QED BY <2>1, HandMoves DEF Moves, HandOK, Walking, Counting
<1>4. ASSUME NEW p \in Procs, NEW u \in Users, NEW t \in Templates,
             Accept(p, "create", [user |-> u, template |-> t])
      PROVE  Hands'
  <2>1. Moves(p, "create", [user |-> u, template |-> t])
    BY <1>4, Moving DEF Hands
  <2> QED BY <2>1, HandMoves DEF Moves, HandOK, Walking, Counting
<1>5. ASSUME NEW p \in Procs, NEW b \in Badges, Duplicate(p, b) PROVE Hands'
  <2>1. badges[b].owner \in Users /\ badges[b].template \in Templates
    BY <1>5, BadgeTypes DEF Duplicate, Live
  <2> QED BY <1>4, <1>5, <2>1 DEF Duplicate
<1>6. ASSUME NEW p \in Procs, NEW b \in Badges, Count(p, b) PROVE Hands'
  <2> DEFINE held == [badge |-> b, user |-> badges[b].owner, at |-> begun + 1,
                      day |-> Today, notify |-> FALSE]
  <2>1. Moves(p, "alert", held)
    BY <1>6, Moving DEF Count, Hands
  <2>2. held \in CountHand
    <3>1. badges[b].owner \in Users
      BY <1>6, BadgeTypes DEF Count, Public, Live
    <3>2. begun + 1 \in Nat /\ Today \in Nat
      BY DEF Tables, Today
    <3> QED BY <3>1, <3>2 DEF CountHand
  <2> QED BY <2>1, <2>2, HandMoves DEF Moves, HandOK, Walking, Counting
<1>7. ASSUME NEW p \in Procs, NEW b \in Badges, Share(p, b) PROVE Hands'
  <2>1. Moves(p, "share", [badge |-> b])
    BY <1>7, Moving DEF Share, Hands
  <2> QED BY <2>1, HandMoves DEF Moves, HandOK, Walking, Counting
<1>8. ASSUME NEW p \in Procs, AlertRead(p) PROVE Hands'
  <2> DEFINE held == [loc[p] EXCEPT !.notify = Allows(loc[p].user, "alert")]
  <2>1. Moves(p, "insert", held)
    BY <1>8, Moving DEF AlertRead, Hands
  <2>2. held \in CountHand
    <3>1. loc[p] \in CountHand
      BY <1>8 DEF AlertRead, Hands, HandOK, Counting
    <3>2. Allows(loc[p].user, "alert") \in BOOLEAN
      BY DEF Allows
    <3> QED BY <3>1, <3>2 DEF CountHand
  <2> QED BY <2>1, <2>2, HandMoves DEF Moves, HandOK, Walking, Counting
<1>9. ASSUME NEW p \in Procs, Finish(p) PROVE Hands'
  BY <1>9, HandRests
<1>10. ASSUME NEW p \in Procs, NEW u \in Users, NEW t \in Templates, CreateBadge(p, u, t)
       PROVE  Hands'
  BY <1>4, <1>10 DEF CreateBadge
<1>11. ASSUME NotificationsNext PROVE Hands'
  BY <1>1, <1>2, <1>11 DEF NotificationsNext, SavePreferences, MarkRead, MarkAllRead, AtOnce
<1>12. CASE Tick
  BY <1>1, <1>12 DEF Tick, requestVars
<1>13. ASSUME NEW p \in Procs,
              \/ CreateCommit(p) \/ CountCommit(p) \/ ShareCount(p) \/ Cascade(p) \/ Abort(p)
              \/ \E q \in Procs : Resolve(p, q)
       PROVE  Hands'
  BY <1>9, <1>13 DEF CreateCommit, CountCommit, ShareCount, Cascade, Abort, Resolve
<1>14. ASSUME NEW b \in Badges, Publish(b) \/ Unpublish(b) \/ DeleteBadge(b) PROVE Hands'
  BY <1>1, <1>14 DEF Publish, Unpublish, DeleteBadge, Write, AtOnce
<1>15. ASSUME NEW t \in Templates,
              DeleteTemplate(t) \/ \E v \in BOOLEAN : CreateTemplate(t, v) \/ UpdateTemplate(t, v)
       PROVE  Hands'
  BY <1>1, <1>15 DEF DeleteTemplate, CreateTemplate, UpdateTemplate, Administer, AtOnce
<1> QED BY <1>3, <1>5, <1>6, <1>7, <1>8, <1>10, <1>11, <1>12, <1>13, <1>14, <1>15
        DEF ParticipationNext
----------------------------------------------------------------------------
(***************************************************************************)
(* What a step does to the notifications: each one stays, but for its read *)
(* mark, as long as its user does; at most one is added.                   *)
(***************************************************************************)
Same(n, m) ==
    /\ m.user = n.user /\ m.type = n.type /\ m.at = n.at
    /\ n.type = "alert" => m.day = n.day /\ m.badge = n.badge
    /\ n.type \in Kinds => m.period = n.period /\ m.count = n.count /\ m.top = n.top

Keeps == \A n \in notes : n.user \in users' => \E m \in notes' : Same(n, m)
Old(m) == \E n \in notes : Same(n, m)

LEMMA Marked ==
    ASSUME Tables, NEW S \in SUBSET notes, notes' = Read(S)
    PROVE  /\ notes' \subseteq Note /\ IsFiniteSet(notes')
           /\ \A n \in notes : \E m \in notes' : Same(n, m)
           /\ \A m \in notes' : Old(m)
<1> DEFINE mark(n) == IF n \in S THEN [n EXCEPT !.read = TRUE] ELSE n
           f == [n \in notes |-> mark(n)]
<1>1. \A n \in notes : mark(n) \in Note /\ Same(n, mark(n))
  BY DEF Tables, Note, AlertNote, DigestNote, Same, Kinds
<1>2. notes' = {mark(n) : n \in notes}
  BY DEF Read
<1>3. f \in Surjection(notes, notes')
  BY <1>2 DEF Surjection
<1>4. IsFiniteSet(notes')
  BY <1>3, FS_Surjection DEF Tables
<1> HIDE DEF mark
<1> QED BY <1>1, <1>2, <1>4 DEF Old

LEMMA SameAsItself == \A n : Same(n, n)
BY DEF Same

(* The rows that references point to are still there. *)
SameRows ==
    \A b \in Badges :
       /\ badges'[b] = None <=> badges[b] = None
       /\ badges[b] # None => /\ badges'[b].owner = badges[b].owner
                              /\ badges'[b].template = badges[b].template

Lost(S) ==
    /\ S \subseteq Badges /\ \A b \in S : ~Held(b)
    /\ badges' = [b \in Badges |-> IF b \in S THEN None ELSE badges[b]]
    /\ origin' = origin

KeptHand(p) ==
    /\ pc'[p] \in Counting =>
          /\ pc[p] \in Counting
          /\ loc'[p].badge = loc[p].badge /\ loc'[p].user = loc[p].user
          /\ loc'[p].at = loc[p].at /\ loc'[p].day = loc[p].day
    /\ pc'[p] \in Walking => pc'[p] = pc[p] /\ loc'[p] = loc[p]

KeptHands == \A p \in Procs : KeptHand(p)

LEMMA KeepsHands ==
    ASSUME Hands, NEW p \in Procs,
           \/ Finish(p)
           \/ \E step \in {"create", "share", "cascade"} : \E held : Accept(p, step, held)
           \/ AlertRead(p)
    PROVE  KeptHands
<1>1. CASE Finish(p)
  BY <1>1, Moving DEF Hands, Moves, KeptHands, KeptHand, Counting, Walking
<1>2. CASE \E step \in {"create", "share", "cascade"} : \E held : Accept(p, step, held)
  <2>1. PICK step, held : step \in {"create", "share", "cascade"} /\ Accept(p, step, held)
    BY <1>2
  <2>2. Moves(p, step, held)
    BY <2>1, Moving DEF Hands
  <2> QED BY <2>1, <2>2 DEF Hands, Moves, KeptHands, KeptHand, Counting, Walking
<1>3. CASE AlertRead(p)
  <2>1. Moves(p, "insert", [loc[p] EXCEPT !.notify = Allows(loc[p].user, "alert")])
    BY <1>3, Moving DEF Hands, AlertRead
  <2>2. loc[p] \in CountHand /\ pc[p] \in Counting
    BY <1>3 DEF Hands, HandOK, AlertRead, Counting
  <2>3. /\ loc'[p].badge = loc[p].badge /\ loc'[p].user = loc[p].user
        /\ loc'[p].at = loc[p].at /\ loc'[p].day = loc[p].day
    BY <2>1, <2>2 DEF Moves, CountHand
  <2>4. pc'[p] = "insert" /\ \A q \in Procs \ {p} : pc'[q] = pc[q] /\ loc'[q] = loc[q]
    BY <2>1 DEF Moves
  <2> QED BY <2>2, <2>3, <2>4 DEF KeptHands, KeptHand, Walking, Counting
<1> QED BY <1>1, <1>2, <1>3

(* Most requests' steps touch none of what the invariants are about. *)
Bland ==
    /\ UNCHANGED <<users, prefs, notes, begun, origin>>
    /\ clock' \in Nat /\ clock <= clock'
    /\ badges' \in [Badges -> Badge \cup {None}] /\ SameRows
    /\ templates' \in [Templates -> Template] /\ \A t \in Templates : Stored(t) => Stored(t)'
    /\ KeptHands

BlandNext ==
    \/ Tick /\ UNCHANGED <<badges, templates, origin>>
    \/ \E p \in Procs :
          \/ WalkEnd(p) /\ UNCHANGED <<badges, templates, origin>>
          \/ \E u \in Users : DeleteAccount(p, u) \/ \E t \in Templates : CreateBadge(p, u, t)
          \/ \E b \in Badges : Duplicate(p, b) \/ Share(p, b)
          \/ AlertRead(p) \/ ShareCount(p) \/ Abort(p)
          \/ \E q \in Procs : Resolve(p, q)
    \/ \E b \in Badges : Publish(b) \/ Unpublish(b) \/ DeleteBadge(b)
    \/ \E t \in Templates, v \in BOOLEAN : CreateTemplate(t, v) \/ UpdateTemplate(t, v)

(* The rest of them. *)
ActiveNext ==
    \/ /\ UNCHANGED <<badges, templates, origin>>
       /\ \/ \E u \in Users : \/ \E upd \in Updates : SavePreferences(u, upd)
                              \/ \E n \in notes : MarkRead(u, n)
                              \/ MarkAllRead(u)
          \/ \E p \in Procs : (\E u \in Users : WalkStart(p, u)) \/ WalkSlice(p) \/ WalkNext(p)
    \/ \E p \in Procs : \/ \E b \in Badges : Count(p, b)
                        \/ CreateCommit(p) \/ CountCommit(p) \/ Cascade(p)
    \/ \E t \in Templates : DeleteTemplate(t)

LEMMA TwoKinds == ParticipationNext => BlandNext \/ ActiveNext
BY DEF ParticipationNext, NotificationsNext, BlandNext, ActiveNext

(* Write keeps a row's type and what references point to. *)
Overlay(row, set) == [c \in DOMAIN row |-> IF c \in DOMAIN set THEN set[c] ELSE row[c]]
Marks ==
    {[public |-> TRUE], [public |-> FALSE], [public |-> FALSE, deleted |-> TRUE]}

LEMMA Overlays ==
    ASSUME NEW row \in Badge, NEW set \in Marks
    PROVE  /\ Overlay(row, set) \in Badge
           /\ Overlay(row, set).owner = row.owner /\ Overlay(row, set).template = row.template
<1>1. row = [owner |-> row.owner, template |-> row.template, public |-> row.public,
             deleted |-> row.deleted, created |-> row.created, shares |-> row.shares]
      /\ DOMAIN row = {"owner", "template", "public", "deleted", "created", "shares"}
  BY DEF Badge
<1>2. /\ row.owner \in Users /\ row.template \in Templates /\ row.public \in BOOLEAN
      /\ row.deleted \in BOOLEAN /\ row.created \in Nat /\ row.shares \in Nat
  BY DEF Badge
<1>3. /\ "public" \in DOMAIN set => set["public"] \in BOOLEAN
      /\ "deleted" \in DOMAIN set => set["deleted"] \in BOOLEAN
      /\ DOMAIN set \subseteq {"public", "deleted"}
  <2>1. CASE set = [public |-> TRUE]
    BY <2>1
  <2>2. CASE set = [public |-> FALSE]
    BY <2>2
  <2>3. CASE set = [public |-> FALSE, deleted |-> TRUE]
    BY <2>3
  <2> QED BY <2>1, <2>2, <2>3 DEF Marks
<1> DEFINE new == Overlay(row, set)
<1>4. /\ DOMAIN new = DOMAIN row
      /\ new["owner"] = row.owner /\ new["template"] = row.template
      /\ new["created"] = row.created /\ new["shares"] = row.shares
      /\ new["public"] \in BOOLEAN /\ new["deleted"] \in BOOLEAN
  BY ONLY <1>1, <1>2, <1>3 DEF Overlay
<1>5. new = [owner |-> new["owner"], template |-> new["template"], public |-> new["public"],
             deleted |-> new["deleted"], created |-> new["created"], shares |-> new["shares"]]
  <2>1. new = [c \in DOMAIN new |-> new[c]]
    BY DEF Overlay
  <2> HIDE DEF new
  <2> QED BY ONLY <1>1, <1>4, <2>1
<1> HIDE DEF new
<1>6. new \in Badge
  BY <1>2, <1>4, <1>5 DEF Badge
<1> QED BY <1>4, <1>6 DEF new

LEMMA Counters ==
    ASSUME NEW row \in Badge
    PROVE  /\ row # None
           /\ \A new \in {[row EXCEPT !.shares = @ + 1], [row EXCEPT !.created = @ + 1]} :
                 new \in Badge /\ new.owner = row.owner /\ new.template = row.template
<1>1. row.shares + 1 \in Nat /\ row.created + 1 \in Nat
  BY DEF Badge
<1> QED BY <1>1, BadgeAssumption DEF Badge

LEMMA OneRow ==
    ASSUME Tables, NEW b \in Badges, badges[b] # None, NEW new \in Badge,
           new.owner = badges[b].owner, new.template = badges[b].template,
           badges' = [badges EXCEPT ![b] = new]
    PROVE  badges' \in [Badges -> Badge \cup {None}] /\ SameRows
BY BadgeAssumption DEF Tables, SameRows

LEMMA Writes ==
    ASSUME Tables, NEW b \in Badges, NEW set \in Marks, Write(b, set)
    PROVE  badges' \in [Badges -> Badge \cup {None}] /\ SameRows
<1>1. badges[b] \in Badge /\ badges[b] # None
  BY DEF Write, Live, Tables
<1>2. badges' = [badges EXCEPT ![b] = Overlay(badges[b], set)]
  BY DEF Write, Overlay, Tables
<1> QED BY <1>1, <1>2, Overlays, OneRow

LEMMA BlandSteps == Typed /\ BlandNext => Bland
<1> SUFFICES ASSUME Typed, BlandNext PROVE Bland
  OBVIOUS
<1> USE DEF Typed
<1>1. ASSUME UNCHANGED <<badges, templates>>
      PROVE  /\ badges' \in [Badges -> Badge \cup {None}] /\ SameRows
             /\ templates' \in [Templates -> Template] /\ \A t \in Templates : Stored(t) => Stored(t)'
  BY <1>1 DEF Tables, SameRows, Stored
<1>2. clock \in Nat
  BY DEF Tables
<1>3. ASSUME UNCHANGED <<pc, loc>> PROVE KeptHands
  BY <1>3 DEF KeptHands, KeptHand
<1>4. ASSUME NEW p \in Procs, UNCHANGED siteVars,
             \/ Finish(p)
             \/ \E step \in {"create", "share", "cascade"} : \E held : Accept(p, step, held)
             \/ AlertRead(p)
      PROVE  Bland
  BY <1>1, <1>2, <1>4, KeepsHands DEF Bland, siteVars
<1>5. CASE Tick /\ UNCHANGED <<badges, templates, origin>>
  BY <1>1, <1>2, <1>3, <1>5 DEF Tick, requestVars, Bland
<1>6. ASSUME NEW p \in Procs, WalkEnd(p) /\ UNCHANGED <<badges, templates, origin>> PROVE Bland
  BY <1>4, <1>6 DEF WalkEnd, noticeVars, siteVars
<1>7. ASSUME NEW p \in Procs, NEW u \in Users,
             DeleteAccount(p, u) \/ \E t \in Templates : CreateBadge(p, u, t)
      PROVE  Bland
  BY <1>4, <1>7 DEF DeleteAccount, CreateBadge
<1>8. ASSUME NEW p \in Procs, NEW b \in Badges, Duplicate(p, b) \/ Share(p, b) PROVE Bland
  BY <1>4, <1>8 DEF Duplicate, Share
<1>9. ASSUME NEW p \in Procs, AlertRead(p) PROVE Bland
  BY <1>4, <1>9 DEF AlertRead
<1>10. ASSUME NEW p \in Procs, ShareCount(p) PROVE Bland
  <2>1. KeptHands
    BY <1>10, KeepsHands DEF ShareCount
  <2>2. CASE badges' = badges
    BY <1>1, <1>2, <1>10, <2>1, <2>2 DEF Bland, ShareCount
  <2>3. CASE badges' # badges
    <3> DEFINE b == loc[p].badge
    <3>1. /\ Public(b) /\ b \in Badges /\ badges[b] # None
          /\ badges' = [badges EXCEPT ![b].shares = @ + 1]
      BY <1>10, <2>3 DEF ShareCount, Public, Live, Hands, HandOK
    <3>2. badges[b] \in Badge
      BY <3>1 DEF Tables
    <3>3. badges' = [badges EXCEPT ![b] = [badges[b] EXCEPT !.shares = @ + 1]]
      BY <3>1 DEF Tables
    <3>4. badges' \in [Badges -> Badge \cup {None}] /\ SameRows
      BY <3>1, <3>2, <3>3, Counters, OneRow
    <3> QED BY <1>1, <1>2, <1>10, <2>1, <3>4 DEF Bland, ShareCount, Stored, Tables
  <2> QED BY <2>2, <2>3
<1>11. ASSUME NEW p \in Procs, Abort(p) PROVE Bland
  BY <1>4, <1>11 DEF Abort
<1>12. ASSUME NEW p \in Procs, NEW q \in Procs, Resolve(p, q) PROVE Bland
  BY <1>4, <1>12 DEF Resolve
<1>13. ASSUME NEW b \in Badges, Publish(b) \/ Unpublish(b) \/ DeleteBadge(b) PROVE Bland
  <2>1. PICK set \in Marks : Write(b, set)
    BY <1>13 DEF Publish, Unpublish, DeleteBadge, Marks
  <2> QED BY <1>2, <1>3, <2>1, Writes DEF Bland, Write, AtOnce, Tables, Stored
<1>14. ASSUME NEW t \in Templates, NEW v \in BOOLEAN, CreateTemplate(t, v) \/ UpdateTemplate(t, v)
       PROVE  Bland
  <2>1. templates' \in [Templates -> Template]
    BY <1>14 DEF CreateTemplate, UpdateTemplate, Administer, Tables, Template
  <2>2. \A s \in Templates : Stored(s) => Stored(s)'
    BY <1>14 DEF CreateTemplate, UpdateTemplate, Administer, Tables, Template, Stored
  <2>3. UNCHANGED badges /\ Administer(templates')
    BY <1>14 DEF CreateTemplate, UpdateTemplate, Administer
  <2> QED BY <1>1, <1>2, <1>3, <2>1, <2>2, <2>3 DEF Bland, Administer, AtOnce, SameRows, Tables
<1> QED BY <1>5, <1>6, <1>7, <1>8, <1>9, <1>10, <1>11, <1>12, <1>13, <1>14 DEF BlandNext
----------------------------------------------------------------------------
LEMMA BlandTyped ==
    ASSUME Typed, Bland
    PROVE  Tables' /\ References' /\ Holds'
<1> USE DEF Typed
<1>1. Tables'
  BY DEF Bland, Tables
<1>2. References'
  <2>1. ASSUME NEW b \in Badges, badges'[b] # None
        PROVE  /\ badges'[b].owner \in users' /\ badges'[b].template = origin'[b]
               /\ Stored(origin[b])'
    <3>1. badges[b] # None /\ badges'[b].owner = badges[b].owner
          /\ badges'[b].template = badges[b].template
      BY <2>1 DEF Bland, SameRows
    <3>2. origin[b] \in Templates
      BY <3>1, BadgeTypes DEF References
    <3> QED BY <3>1, <3>2 DEF Bland, References
  <2>2. \A n \in notes' : n.user \in users'
    BY DEF Bland, References
  <2> QED BY <2>1, <2>2 DEF References, Stored
<1>3. Holds'
  <2> SUFFICES ASSUME NEW p \in Procs, pc'[p] \in Counting PROVE HeldRow(p)'
    BY DEF Holds
  <2>1. /\ pc[p] \in Counting /\ HeldRow(p)
        /\ loc'[p].badge = loc[p].badge /\ loc'[p].user = loc[p].user
    BY DEF Bland, KeptHands, KeptHand, Holds
  <2>2. loc[p].badge \in Badges
    BY <2>1 DEF Hands, HandOK, CountHand
  <2> QED BY <2>1, <2>2 DEF HeldRow, Bland, SameRows
<1> QED BY <1>1, <1>2, <1>3

LEMMA SavedTyped ==
    ASSUME Typed, NEW u \in Users, NEW upd \in Updates, SavePreferences(u, upd),
           UNCHANGED <<badges, templates, origin>>
    PROVE  Tables' /\ References' /\ Holds'
<1> USE DEF Typed
<1>1. upd.yes \subseteq Toggles
  BY NotificationsAssumption
<1>2. prefs[u].on \subseteq Toggles
  BY DEF Tables, Prefs
<1>3. Saved(u, upd) \subseteq Toggles
  BY <1>1, <1>2 DEF Saved
<1>4. prefs' \in [Users -> Prefs] /\ begun' = begun + 1 /\ begun \in Nat
  BY <1>3 DEF SavePreferences, Tables, Prefs
<1>5. \A v \in Users : prefs'[v].updated <= begun'
  BY <1>4 DEF SavePreferences, Tables, Prefs
<1>6. Tables'
  BY <1>4, <1>5 DEF SavePreferences, Tables
<1>7. References' /\ Holds'
  BY DEF SavePreferences, AtOnce, References, Holds, HeldRow, Stored
<1> QED BY <1>6, <1>7

LEMMA MarkedTyped ==
    ASSUME Typed, NEW S \in SUBSET notes, notes' = Read(S),
           UNCHANGED <<users, prefs, begun, clock, badges, templates, origin, pc, loc>>
    PROVE  Tables' /\ References' /\ Holds'
<1> USE DEF Typed
<1>1. Tables'
  BY Marked DEF Tables
<1>2. \A m \in notes' : m.user \in users'
  BY Marked DEF Old, Same, References
<1>3. References' /\ Holds'
  BY <1>2 DEF References, Holds, HeldRow, Stored
<1> QED BY <1>1, <1>3

(* A walk through the pages only moves its own request. *)
Walks(p) ==
    /\ UNCHANGED siteVars
    /\ pc[p] \notin Counting /\ pc'[p] \notin Counting
    /\ \A q \in Procs \ {p} : pc'[q] = pc[q] /\ loc'[q] = loc[q]

LEMMA WalkFrame ==
    ASSUME Hands, NEW p \in Procs, UNCHANGED <<badges, templates, origin>>,
           (\E u \in Users : WalkStart(p, u)) \/ WalkSlice(p) \/ WalkNext(p)
    PROVE  Walks(p)
<1>1. UNCHANGED siteVars
  BY DEF WalkStart, WalkSlice, WalkNext, noticeVars, siteVars
<1>2. ASSUME NEW u \in Users, WalkStart(p, u) PROVE Walks(p)
  BY <1>1, <1>2, Moving DEF Hands, WalkStart, Moves, Walks, Counting
<1>3. CASE WalkSlice(p)
  <2>1. PICK step, held : step \in {"next", "walked"} /\ Goto(p, step, held)
    BY <1>3 DEF WalkSlice
  <2>2. Moves(p, step, held)
    BY <2>1, Moving DEF Hands
  <2> QED BY <1>1, <1>3, <2>1, <2>2 DEF Moves, Walks, Counting, WalkSlice
<1>4. CASE WalkNext(p)
  BY <1>1, <1>4, Moving DEF Hands, WalkNext, Moves, Walks, Counting
<1> QED BY <1>2, <1>3, <1>4

LEMMA WalksTyped ==
    ASSUME Typed, NEW p \in Procs, Walks(p)
    PROVE  Tables' /\ References' /\ Holds'
<1>1. Tables' /\ References'
  BY DEF Typed, Walks, siteVars, Tables, References, Stored
<1>2. Holds'
  BY DEF Typed, Walks, siteVars, Holds, HeldRow
<1> QED BY <1>1, <1>2

LEMMA LaterPrefs ==
    ASSUME Tables, begun' \in {begun, begun + 1}, prefs' = prefs
    PROVE  begun' \in Nat /\ \A u \in Users : prefs'[u].updated <= begun'
<1>1. begun \in Nat /\ \A u \in Users : prefs[u].updated \in Nat /\ prefs[u].updated <= begun
  BY DEF Tables, Prefs
<1> QED BY <1>1

LEMMA CountTyped ==
    ASSUME Typed, NEW p \in Procs, NEW b \in Badges, Count(p, b)
    PROVE  /\ Tables' /\ References' /\ Holds'
           /\ Moves(p, "alert", [badge |-> b, user |-> badges[b].owner, at |-> begun + 1,
                                 day |-> Today, notify |-> FALSE])
           /\ pc[p] = "idle"
<1> USE DEF Typed
<1>1. Tables'
  BY LaterPrefs DEF Tables, Count
<1>2. References'
  BY DEF References, Count, Stored
<1>3. /\ Moves(p, "alert", [badge |-> b, user |-> badges[b].owner, at |-> begun + 1,
                            day |-> Today, notify |-> FALSE])
      /\ pc[p] = "idle"
  BY Moving DEF Hands, Count
<1>4. Holds'
  BY <1>3 DEF Moves, Holds, HeldRow, Count, Public, Live
<1> QED BY <1>1, <1>2, <1>3, <1>4

LEMMA CountCommitTyped ==
    ASSUME Typed, NEW p \in Procs, CountCommit(p)
    PROVE  /\ Tables' /\ References' /\ Holds' /\ KeptHands
           /\ pc[p] = "insert" /\ pc'[p] = "idle"
           /\ Alert(loc[p].user, loc[p].badge, loc[p].at, loc[p].day) \in AlertNote
           /\ SameRows
<1> USE DEF Typed
<1> DEFINE b == loc[p].badge
           note == Alert(loc[p].user, loc[p].badge, loc[p].at, loc[p].day)
<1>1. /\ pc[p] = "insert" /\ loc[p] \in CountHand /\ HeldRow(p)
  BY DEF CountCommit, Hands, HandOK, Counting, Holds
<1>2. /\ b \in Badges /\ badges[b] \in Badge /\ badges[b] # None
      /\ badges[b].owner = loc[p].user /\ loc[p].user \in users
  BY <1>1 DEF CountHand, HeldRow, Tables, References
<1>3. badges' = [badges EXCEPT ![b] = [badges[b] EXCEPT !.created = @ + 1]]
  BY <1>2 DEF CountCommit, Tables
<1>4. badges' \in [Badges -> Badge \cup {None}] /\ SameRows
  BY <1>2, <1>3, Counters, OneRow
<1>5. note \in AlertNote
  BY <1>1 DEF CountHand, AlertNote, Alert
<1>6. notes' = notes \/ notes' = notes \cup {note}
  BY DEF CountCommit, Alerted
<1>7. notes' \subseteq Note /\ IsFiniteSet(notes')
  BY <1>5, <1>6, FS_AddElement DEF Tables, Note
<1>8. Tables'
  BY <1>4, <1>7 DEF Tables, CountCommit
<1>9. KeptHands /\ Moves(p, "idle", None)
  BY KeepsHands, Moving DEF CountCommit, Hands
<1>10. References'
  <2>1. \A n \in notes' : n.user \in users'
    BY <1>2, <1>6 DEF References, Alert, CountCommit
  <2>2. \A c \in Badges : badges'[c] # None =>
          badges'[c].owner \in users' /\ badges'[c].template = origin'[c] /\ Stored(origin[c])'
    BY <1>4 DEF SameRows, References, CountCommit, Stored
  <2> QED BY <2>1, <2>2 DEF References, Stored
<1>11. Holds'
  <2> SUFFICES ASSUME NEW q \in Procs, pc'[q] \in Counting PROVE HeldRow(q)'
    BY DEF Holds
  <2>1. pc[q] \in Counting /\ HeldRow(q) /\ loc'[q].badge = loc[q].badge /\ loc'[q].user = loc[q].user
    BY <1>9 DEF KeptHands, KeptHand, Holds
  <2>2. loc[q].badge \in Badges
    BY <2>1 DEF Hands, HandOK, CountHand
  <2> QED BY <1>4, <2>1, <2>2 DEF HeldRow, SameRows
<1> QED BY <1>1, <1>4, <1>5, <1>8, <1>9, <1>10, <1>11 DEF Moves

LEMMA CreateCommitTyped ==
    ASSUME Typed, NEW p \in Procs, CreateCommit(p)
    PROVE  /\ Tables' /\ References' /\ Holds' /\ KeptHands
           /\ \E b \in Badges : /\ origin[b] = None /\ origin'[b] # None
                                /\ \A c \in Badges \ {b} : /\ badges'[c] = badges[c]
                                                           /\ origin'[c] = origin[c]
<1> USE DEF Typed
<1> DEFINE u == loc[p].user
           t == loc[p].template
<1>1. u \in users /\ u \in Users /\ t \in Templates /\ Stored(t)
  BY DEF CreateCommit, Hands, HandOK, RefersTo
<1>2. PICK b \in Fresh : /\ badges' = [badges EXCEPT ![b] = NewBadge(u, t)]
                         /\ origin' = [origin EXCEPT ![b] = t]
  BY DEF CreateCommit
<1>3. b \in Badges /\ origin[b] = None
  BY DEF Fresh
<1>4. NewBadge(u, t) \in Badge /\ NewBadge(u, t) # None
  <2>1. NewBadge(u, t) \in Badge
    BY ONLY <1>1 DEF NewBadge, Badge
  <2> QED BY <2>1, BadgeAssumption
<1>5. badges' \in [Badges -> Badge \cup {None}] /\ origin' \in [Badges -> Templates \cup {None}]
  BY <1>1, <1>2, <1>3, <1>4 DEF Tables
<1>6. templates' \in [Templates -> Template] /\ \A s \in Templates : Stored(s) => Stored(s)'
  BY <1>1 DEF CreateCommit, Counted, Tables, Template, Stored
<1>7. Tables'
  BY <1>5, <1>6, LaterPrefs DEF Tables, CreateCommit
<1>8. KeptHands
  BY KeepsHands DEF CreateCommit, Hands
<1>9. /\ badges'[b] = NewBadge(u, t) /\ origin'[b] = t
      /\ \A c \in Badges \ {b} : badges'[c] = badges[c] /\ origin'[c] = origin[c]
  BY <1>2, <1>3 DEF Tables
<1>10. References'
  <2>1. ASSUME NEW c \in Badges, badges'[c] # None
        PROVE  badges'[c].owner \in users' /\ badges'[c].template = origin'[c] /\ Stored(origin[c])'
    <3>1. CASE c = b
      BY <1>1, <1>6, <1>9, <3>1 DEF NewBadge, CreateCommit, Stored
    <3>2. CASE c # b
      <4>1. badges[c] # None /\ origin[c] \in Templates
        BY <1>9, <2>1, <3>2, BadgeTypes DEF References
      <4> QED BY <1>6, <1>9, <3>2, <4>1 DEF References, CreateCommit, Stored
    <3> QED BY <3>1, <3>2
  <2> QED BY <2>1 DEF References, CreateCommit, Stored
<1>11. Holds'
  <2> SUFFICES ASSUME NEW q \in Procs, pc'[q] \in Counting PROVE HeldRow(q)'
    BY DEF Holds
  <2>1. pc[q] \in Counting /\ HeldRow(q) /\ loc'[q].badge = loc[q].badge /\ loc'[q].user = loc[q].user
    BY <1>8 DEF KeptHands, KeptHand, Holds
  <2>2. loc[q].badge \in Badges /\ origin[loc[q].badge] \in Templates
    BY <2>1, BadgeTypes DEF Hands, HandOK, CountHand, HeldRow, References
  <2>3. loc[q].badge # b
    BY <1>3, <2>2, ParticipationAssumption
  <2> QED BY <1>9, <2>1, <2>2, <2>3 DEF HeldRow
<1>12. origin'[b] # None
  BY <1>1, <1>9, ParticipationAssumption
<1> QED BY <1>3, <1>7, <1>8, <1>9, <1>10, <1>11, <1>12

LEMMA LostTyped ==
    ASSUME Typed, NEW S, Lost(S), KeptHands
    PROVE  /\ badges' \in [Badges -> Badge \cup {None}] /\ Holds'
           /\ \A b \in Badges \ S : badges'[b] = badges[b]
           /\ \A b \in S : badges'[b] = None
<1> USE DEF Typed
<1>1. badges' \in [Badges -> Badge \cup {None}]
  BY DEF Lost, Tables
<1>2. (\A b \in Badges \ S : badges'[b] = badges[b]) /\ (\A b \in S : badges'[b] = None)
  BY DEF Lost
<1>3. Holds'
  <2> SUFFICES ASSUME NEW q \in Procs, pc'[q] \in Counting PROVE HeldRow(q)'
    BY DEF Holds
  <2>1. pc[q] \in Counting /\ HeldRow(q) /\ loc'[q].badge = loc[q].badge /\ loc'[q].user = loc[q].user
    BY DEF KeptHands, KeptHand, Holds
  <2>2. loc[q].badge \in Badges
    BY <2>1 DEF Hands, HandOK, CountHand
  <2>3. loc[q].badge \notin S
    BY <2>1 DEF Lost, Held, Counting
  <2> QED BY <1>2, <2>1, <2>2, <2>3 DEF HeldRow
<1> QED BY <1>1, <1>2, <1>3

LEMMA CascadeTyped ==
    ASSUME Typed, NEW p \in Procs, Cascade(p)
    PROVE  Tables' /\ References' /\ Holds' /\ KeptHands
<1> USE DEF Typed
<1> DEFINE u == loc[p].user
<1>1. KeptHands
  BY KeepsHands DEF Cascade, Hands
<1>2. Lost(Owned(u))
  BY DEF Lost, Owned, Cascade
<1>3. /\ badges' \in [Badges -> Badge \cup {None}] /\ Holds'
      /\ \A b \in Badges \ Owned(u) : badges'[b] = badges[b]
      /\ \A b \in Owned(u) : badges'[b] = None
  BY <1>1, <1>2, LostTyped
<1>4. prefs' \in [Users -> Prefs] /\ \A v \in Users : prefs'[v].updated <= begun'
  <2>1. NoPrefs \in Prefs /\ NoPrefs.updated = 0 /\ begun \in Nat /\ begun' = begun
    BY DEF NoPrefs, Prefs, Tables, Cascade
  <2>2. \A v \in Users : prefs'[v] = prefs[v] \/ prefs'[v] = NoPrefs
    BY DEF Cascade, Tables
  <2>3. prefs' \in [Users -> Prefs]
    BY <2>1 DEF Cascade, Tables
  <2> QED BY <2>1, <2>2, <2>3 DEF Tables
<1>5. notes' \subseteq notes /\ notes' = notes \ Inbox(u)
  BY DEF Cascade
<1>6. IsFiniteSet(notes')
  BY <1>5, PartOfFinite DEF Tables
<1>7. Tables'
  BY <1>3, <1>4, <1>5, <1>6 DEF Cascade, Tables
<1>8. References'
  BY <1>3, <1>5 DEF References, Cascade, Owned, Inbox, Stored
<1> QED BY <1>1, <1>3, <1>7, <1>8

LEMMA DeleteTemplateTyped ==
    ASSUME Typed, NEW t \in Templates, DeleteTemplate(t)
    PROVE  /\ Tables' /\ References' /\ Holds' /\ KeptHands
           /\ \A b \in Badges : badges'[b] = badges[b] \/ badges'[b] = None
<1> USE DEF Typed
<1>1. KeptHands
  BY DEF DeleteTemplate, Administer, AtOnce, KeptHands, KeptHand
<1>2. Lost(Made(t))
  BY DEF Lost, Made, DeleteTemplate, Administer
<1>3. /\ badges' \in [Badges -> Badge \cup {None}] /\ Holds'
      /\ \A b \in Badges \ Made(t) : badges'[b] = badges[b]
      /\ \A b \in Made(t) : badges'[b] = None
  BY <1>1, <1>2, LostTyped
<1>4. templates' \in [Templates -> Template] /\ \A s \in Templates \ {t} : templates'[s] = templates[s]
  BY DEF DeleteTemplate, Administer, Tables, Template
<1>5. Tables'
  BY <1>3, <1>4 DEF DeleteTemplate, Administer, Tables
<1>6. References'
  <2>1. ASSUME NEW c \in Badges, badges'[c] # None
        PROVE  badges'[c].owner \in users' /\ badges'[c].template = origin'[c] /\ Stored(origin[c])'
    <3>1. c \notin Made(t) /\ badges'[c] = badges[c]
      BY <1>3, <2>1
    <3>2. origin[c] \in Templates \ {t}
      BY <2>1, <3>1, BadgeTypes DEF Made, References
    <3> QED BY <1>4, <2>1, <3>1, <3>2 DEF References, DeleteTemplate, Administer, Stored
  <2> QED BY <2>1 DEF References, DeleteTemplate, Administer, Stored
<1> QED BY <1>1, <1>3, <1>5, <1>6
----------------------------------------------------------------------------
(* The steps of a run. *)
Runs(k, run) ==
    /\ DOMAIN job' = Kinds /\ job'[k] = run
    /\ \A j \in Kinds \ {k} : job'[j] = job[j]

LEMMA Stepping ==
    ASSUME Jobs, NEW k \in Kinds, NEW run, Step(k, run)
    PROVE  Runs(k, run) /\ UNCHANGED requestVars
BY DEF Step, Runs, Jobs

LEMMA JobMoves ==
    ASSUME Jobs, NEW k \in Kinds, NEW run, Runs(k, run), JobOK(k)'
    PROVE  Jobs'
BY DEF Jobs, Runs, JobOK, Running

LEMMA JobRests ==
    ASSUME Jobs, NEW k \in Kinds, NEW how \in {"failed", "cut"}, Step(k, Over(k, how))
    PROVE  Jobs' /\ Rests(job'[k], how) /\ job'[k].day = job[k].day
<1>1. Runs(k, Over(k, how))
  BY Stepping
<1>2. Rests(job'[k], how) /\ job'[k].day = job[k].day
  <2>1. Over(k, how) = [NoJob EXCEPT !.pc = how, !.day = job[k].day]
    BY DEF Over
  <2>2. Rests(Over(k, how), how) /\ Over(k, how).day = job[k].day
    BY <2>1, Resting
  <2> QED BY <1>1, <2>2 DEF Runs
<1>3. JobOK(k)'
  BY <1>2 DEF Jobs, JobOK, Rests, Iterating, Running
<1> QED BY <1>1, <1>2, <1>3, JobMoves

Fields ==
    {"pc", "day", "opted", "owners", "counts", "left", "who", "top", "at", "base", "due",
     "refused"}

LEMMA RunFields == DOMAIN NoJob = Fields /\ NoJob.owners = {} /\ NoJob.left = {}
BY DEF NoJob, Fields

KeepsRun(run, old) ==
    /\ DOMAIN run = DOMAIN old /\ run.day = old.day /\ run.base = old.base
    /\ run.due = old.due /\ run.refused = old.refused

(* The steps of a job, by the fields that they change. *)
Pending(u, k) == Allows(u, k) /\ (Row(u) \/ Owned(u) # {}) /\ Creations(u, Days(k, Today)) # {}

OnStart(k) ==
    LET run == job'[k] IN
    /\ Evening /\ (k = "weekly" => Sunday(Today)) /\ ~Running(k) /\ job[k].day # Today
    /\ DOMAIN run = DOMAIN NoJob /\ run.pc = "owners" /\ run.day = Today /\ run.at = begun + 1
    /\ run.opted = {u \in users : Row(u) /\ Allows(u, k)} /\ run.base = begun
    /\ DOMAIN run.due = {u \in users : Pending(u, k)}
    /\ \A u \in users : Pending(u, k) =>
          /\ run.due[u].count = Cardinality(Creations(u, Days(k, Today)))
          /\ run.due[u].badges = Owned(u)
    /\ run.refused = {u \in users : ~Allows(u, k)} /\ run.left = {} /\ run.owners = {}
    /\ begun' = begun + 1 /\ notes' = notes

OnOwners(k) ==
    /\ job[k].pc = "owners" /\ job'[k].pc = "targets" /\ KeepsRun(job'[k], job[k])
    /\ job'[k].owners = {u \in Users : Owned(u) # {}} /\ job'[k].opted = job[k].opted
    /\ job'[k].left = job[k].left /\ job'[k].at = job[k].at
    /\ begun' = begun /\ notes' = notes

OnTargets(k) ==
    /\ job[k].pc = "targets" /\ job'[k].pc = "counts" /\ KeepsRun(job'[k], job[k])
    /\ job'[k].left = Targets(k) /\ job'[k].opted = {} /\ job'[k].owners = {}
    /\ job'[k].at = job[k].at
    /\ begun' = begun /\ notes' = notes

OnCounts(k) ==
    LET n(u) == Cardinality(Creations(u, Days(k, job[k].day))) IN
    /\ job[k].pc = "counts" /\ job'[k].pc = "each" /\ KeepsRun(job'[k], job[k])
    /\ job'[k].left = {u \in job[k].left : n(u) > 0}
    /\ \A u \in job[k].left : job'[k].counts[u] = n(u)
    /\ job'[k].opted = job[k].opted /\ job'[k].owners = job[k].owners /\ job'[k].at = job[k].at
    /\ begun' = begun /\ notes' = notes

(* The three steps that may begin a transaction. *)
Begins(k) ==
    /\ job'[k].at = TxAt(k) /\ begun' = IF job[k].at = None THEN begun + 1 ELSE begun
    /\ job'[k].counts = job[k].counts /\ KeepsRun(job'[k], job[k])
    /\ job'[k].opted = job[k].opted /\ job'[k].owners = job[k].owners
    /\ notes' = notes

OnAsk(k, u, top) ==
    /\ Begins(k) /\ u \in job[k].left
    /\ Allows(u, k) /\ job'[k].pc = "send" /\ job'[k].who = u /\ job'[k].top = top
    /\ job'[k].left = job[k].left

OnSkip(k, u) ==
    /\ Begins(k) /\ u \in job[k].left
    /\ ~Allows(u, k) /\ job'[k].pc = "each" /\ job'[k].left = job[k].left \ {u}

OnLook(k, u, top) ==
    /\ \/ k = "daily" /\ job[k].pc = "each" /\ top = None
       \/ k = "weekly" /\ job[k].pc = "look" /\ u = job[k].who /\ top = job[k].top
    /\ OnAsk(k, u, top) \/ OnSkip(k, u)

OnPerDay(u) ==
    LET k == "weekly" IN
    /\ job[k].pc = "each" /\ u \in job[k].left /\ Begins(k)
    /\ Creations(u, Days(k, job[k].day)) # {}
    /\ job'[k].pc = "look" /\ job'[k].who = u /\ job'[k].left = job[k].left
    /\ job'[k].top = NameOf(TopDow(u, job[k].day))

Letter(k) == Digest(job[k].who, k, job[k].at, job[k].day, job[k].counts[job[k].who], job[k].top)

OnSend(k) ==
    /\ job[k].pc = "send" /\ job[k].who \in users /\ KeepsRun(job'[k], job[k])
    /\ notes' = notes \cup {Letter(k)}
    /\ job'[k].pc = "each" /\ job'[k].at = None /\ job'[k].left = job[k].left \ {job[k].who}
    /\ job'[k].counts = job[k].counts
    /\ job'[k].opted = job[k].opted /\ job'[k].owners = job[k].owners
    /\ begun' = begun

OnDone(k) ==
    /\ job[k].pc = "each" /\ job[k].left = {} /\ job'[k].pc = "done" /\ KeepsRun(job'[k], job[k])
    /\ job'[k].at = None /\ job'[k].left = {}
    /\ job'[k].opted = job[k].opted /\ job'[k].owners = job[k].owners
    /\ begun' = begun /\ notes' = notes

OnEnd(k) ==
    /\ Running(k) /\ job'[k].day = job[k].day /\ notes' = notes /\ begun' \in {begun, begun + 1}
    /\ \/ Rests(job'[k], "cut")
       \/ Rests(job'[k], "failed") /\ \E u \in job[k].left :
            \/ job[k].pc = "send" /\ u \notin users
            \/ k = "weekly" /\ job[k].pc = "each" /\ Creations(u, Days(k, job[k].day)) = {}

Works(k) ==
    /\ UNCHANGED <<users, prefs, clock, badges, templates, origin>> /\ UNCHANGED requestVars
    /\ DOMAIN job' = Kinds /\ \A j \in Kinds \ {k} : job'[j] = job[j]
    /\ \/ OnStart(k) \/ OnOwners(k) \/ OnTargets(k) \/ OnCounts(k)
       \/ \E u \in Users : (\E top : OnLook(k, u, top)) \/ (k = "weekly" /\ OnPerDay(u))
       \/ OnSend(k) \/ OnDone(k) \/ OnEnd(k)

LEMMA WorkSteps ==
    ASSUME Typed, NEW k \in Kinds, JobStart(k) \/ JobStep(k) \/ JobCut(k)
    PROVE  Works(k)
<1> USE DEF Typed
<1> DEFINE Others == /\ UNCHANGED <<users, prefs, clock, badges, templates, origin>>
                     /\ UNCHANGED requestVars
                     /\ DOMAIN job' = Kinds /\ \A j \in Kinds \ {k} : job'[j] = job[j]
<1>1. DOMAIN job[k] = Fields /\ JobOK(k)
  BY RunFields DEF Jobs, JobOK
<1>2. ASSUME JobStart(k) PROVE Others /\ OnStart(k)
  <2> DEFINE due == {u \in users : Pending(u, k)}
             opted == {u \in users : Row(u) /\ Allows(u, k)}
             refused == {u \in users : ~Allows(u, k)}
             dues == [u \in due |-> [count  |-> Cardinality(Creations(u, Days(k, Today))),
                                     badges |-> Owned(u)]]
             run == [NoJob EXCEPT !.pc = "owners", !.day = Today, !.at = begun + 1,
                                  !.opted = opted, !.base = begun, !.due = dues,
                                  !.refused = refused]
  <2>1. Step(k, run)
    BY <1>2 DEF JobStart, Pending
  <2>2. Runs(k, run) /\ UNCHANGED requestVars
    BY <2>1, Stepping
  <2>3. /\ DOMAIN run = DOMAIN NoJob /\ run.pc = "owners" /\ run.day = Today
        /\ run.at = begun + 1 /\ run.opted = opted /\ run.base = begun /\ run.due = dues
        /\ run.refused = refused /\ run.owners = {} /\ run.left = {}
    BY ONLY RunFields DEF Fields
  <2>4. job'[k] = run
    BY <2>2 DEF Runs
  <2>5. /\ DOMAIN dues = due
        /\ \A u \in users : Pending(u, k) =>
             /\ dues[u].count = Cardinality(Creations(u, Days(k, Today)))
             /\ dues[u].badges = Owned(u)
    OBVIOUS
  <2> HIDE DEF run, dues, opted, refused
  <2>6. OnStart(k)
    BY <1>2, <2>3, <2>4, <2>5 DEF OnStart, JobStart, opted, refused
  <2> QED BY <1>2, <2>2, <2>6 DEF JobStart, Runs
<1>3. ASSUME JobOwners(k) PROVE Others /\ OnOwners(k)
  <2> DEFINE run == [job[k] EXCEPT !.pc = "targets",
                                !.owners = {u \in Users : Owned(u) # {}}]
  <2>1. Runs(k, run) /\ UNCHANGED requestVars
    BY <1>3, Stepping DEF JobOwners
  <2>2. /\ KeepsRun(run, job[k])
        /\ run.pc = "targets" /\ run.owners = {u \in Users : Owned(u) # {}}
        /\ run.opted = job[k].opted /\ run.left = job[k].left /\ run.at = job[k].at
    BY ONLY <1>1 DEF Fields, KeepsRun
  <2> HIDE DEF run
  <2> QED BY <1>3, <2>1, <2>2 DEF JobOwners, OnOwners, Runs, siteVars
<1>4. ASSUME JobTargets(k) PROVE Others /\ OnTargets(k)
  <2> DEFINE run == [job[k] EXCEPT !.pc = "counts", !.left = Targets(k),
                                !.opted = {}, !.owners = {}]
  <2>1. Runs(k, run) /\ UNCHANGED requestVars
    BY <1>4, Stepping DEF JobTargets
  <2>2. /\ KeepsRun(run, job[k])
        /\ run.pc = "counts" /\ run.left = Targets(k) /\ run.opted = {} /\ run.owners = {}
        /\ run.at = job[k].at
    BY ONLY <1>1 DEF Fields, KeepsRun
  <2> HIDE DEF run
  <2> QED BY <1>4, <2>1, <2>2 DEF JobTargets, OnTargets, Runs, siteVars
<1>5. ASSUME JobCounts(k) PROVE Others /\ OnCounts(k)
  <2> DEFINE counts == [u \in job[k].left |-> Cardinality(Creations(u, Days(k, job[k].day)))]
             left == {u \in job[k].left : counts[u] > 0}
             run == [job[k] EXCEPT !.pc = "each", !.counts = counts, !.left = left]
  <2>1. Runs(k, run) /\ UNCHANGED requestVars
    <3>1. Step(k, run)
      BY <1>5 DEF JobCounts
    <3> HIDE DEF run
    <3> QED BY <3>1, Stepping
  <2>2. \A u \in job[k].left : counts[u] = Cardinality(Creations(u, Days(k, job[k].day)))
    OBVIOUS
  <2>3. left = {u \in job[k].left : Cardinality(Creations(u, Days(k, job[k].day))) > 0}
    BY <2>2
  <2> HIDE DEF counts, left
  <2>4. /\ KeepsRun(run, job[k])
        /\ run.pc = "each" /\ run.left = left /\ run.counts = counts
        /\ run.at = job[k].at /\ run.opted = job[k].opted /\ run.owners = job[k].owners
    BY ONLY <1>1 DEF Fields, KeepsRun
  <2> HIDE DEF run
  <2> QED BY <1>5, <2>1, <2>2, <2>3, <2>4 DEF JobCounts, OnCounts, Runs, siteVars
<1>6. ASSUME NEW u \in job[k].left, NEW top, Look(k, u, top)
      PROVE  Others /\ (OnAsk(k, u, top) \/ OnSkip(k, u))
  <2>1. CASE Allows(u, k)
    <3> DEFINE run == [job[k] EXCEPT !.pc = "send", !.who = u, !.top = top, !.at = TxAt(k)]
    <3>1. Runs(k, run) /\ UNCHANGED requestVars
      BY <1>6, <2>1, Stepping DEF Look
    <3>2. /\ KeepsRun(run, job[k])
          /\ run.pc = "send" /\ run.who = u /\ run.top = top /\ run.at = TxAt(k)
          /\ run.left = job[k].left /\ run.counts = job[k].counts
          /\ run.opted = job[k].opted /\ run.owners = job[k].owners
      BY ONLY <1>1 DEF Fields, KeepsRun
    <3> HIDE DEF run
    <3> QED BY <1>6, <2>1, <3>1, <3>2 DEF Look, OnAsk, Begins, TxBegins, Runs
  <2>2. CASE ~Allows(u, k)
    <3> DEFINE run == [job[k] EXCEPT !.pc = "each", !.who = None, !.top = None,
                                     !.at = TxAt(k), !.left = Skip(k, u)]
    <3>1. Runs(k, run) /\ UNCHANGED requestVars
      BY <1>6, <2>2, Stepping DEF Look
    <3>2. /\ KeepsRun(run, job[k])
          /\ run.pc = "each" /\ run.at = TxAt(k) /\ run.left = Skip(k, u)
          /\ run.counts = job[k].counts
          /\ run.opted = job[k].opted /\ run.owners = job[k].owners
      BY ONLY <1>1 DEF Fields, KeepsRun
    <3> HIDE DEF run
    <3> QED BY <1>6, <2>2, <3>1, <3>2 DEF Look, OnSkip, Begins, TxBegins, Runs, Skip
  <2> QED BY <2>1, <2>2
<1>7. ASSUME NEW u \in Users, k = "daily", DailyLook(u) PROVE Others /\ OnLook(k, u, None)
  BY <1>6, <1>7 DEF DailyLook, OnLook
<1>8. ASSUME k = "weekly", WeeklyLook PROVE Others /\ \E u \in Users : \E top : OnLook(k, u, top)
  <2>1. job[k].who \in job[k].left /\ job[k].left \subseteq Users
    BY <1>1, <1>8 DEF WeeklyLook, JobOK
  <2> QED BY <1>6, <1>8, <2>1 DEF WeeklyLook, OnLook
<1>9. ASSUME NEW u \in Users, k = "weekly", PerDay(u) PROVE Others /\ (OnPerDay(u) \/ OnEnd(k))
  <2>1. CASE Creations(u, Days(k, job[k].day)) = {}
    <3>1. Rests(job'[k], "failed") /\ job'[k].day = job[k].day /\ Others
      BY <1>9, <2>1, JobRests, Stepping DEF PerDay, Runs
    <3> QED BY <1>9, <2>1, <3>1 DEF PerDay, OnEnd, Running, TxBegins
  <2>2. CASE Creations(u, Days(k, job[k].day)) # {}
    <3> DEFINE run == [job[k] EXCEPT !.pc = "look", !.who = u, !.at = TxAt(k),
                                     !.top = NameOf(TopDow(u, job[k].day))]
    <3>1. Runs(k, run) /\ UNCHANGED requestVars
      BY <1>9, <2>2, Stepping DEF PerDay
    <3>2. /\ KeepsRun(run, job[k])
          /\ run.pc = "look" /\ run.who = u /\ run.at = TxAt(k)
          /\ run.top = NameOf(TopDow(u, job[k].day))
          /\ run.left = job[k].left /\ run.counts = job[k].counts
          /\ run.opted = job[k].opted /\ run.owners = job[k].owners
      BY ONLY <1>1 DEF Fields, KeepsRun
    <3> HIDE DEF run
    <3> QED BY <1>9, <2>2, <3>1, <3>2 DEF PerDay, OnPerDay, Begins, TxBegins, Runs
  <2> QED BY <2>1, <2>2
<1>10. ASSUME Send(k) PROVE Others /\ (OnSend(k) \/ OnEnd(k))
  <2>1. CASE job[k].who \in users
    <3> DEFINE run == [job[k] EXCEPT !.pc = "each", !.who = None, !.top = None,
                                     !.at = None, !.left = @ \ {job[k].who}]
    <3>1. Runs(k, run) /\ UNCHANGED requestVars
      BY <1>10, <2>1, Stepping DEF Send
    <3>2. /\ KeepsRun(run, job[k])
          /\ run.pc = "each" /\ run.at = None /\ run.left = job[k].left \ {job[k].who}
          /\ run.counts = job[k].counts
          /\ run.opted = job[k].opted /\ run.owners = job[k].owners
      BY ONLY <1>1 DEF Fields, KeepsRun
    <3> HIDE DEF run
    <3> QED BY <1>10, <2>1, <3>1, <3>2 DEF Send, OnSend, Letter, Runs
  <2>2. CASE job[k].who \notin users
    <3>1. Rests(job'[k], "failed") /\ job'[k].day = job[k].day /\ Others
      BY <1>10, <2>2, JobRests, Stepping DEF Send, Runs
    <3> QED BY <1>1, <1>10, <2>2, <3>1 DEF Send, OnEnd, Running, JobOK
  <2> QED BY <2>1, <2>2
<1>11. ASSUME JobDone(k) PROVE Others /\ OnDone(k)
  <2> DEFINE run == [job[k] EXCEPT !.pc = "done", !.at = None, !.counts = <<>>]
  <2>1. Runs(k, run) /\ UNCHANGED requestVars
    BY <1>11, Stepping DEF JobDone
  <2>2. /\ KeepsRun(run, job[k])
        /\ run.pc = "done" /\ run.at = None /\ run.left = job[k].left
        /\ run.opted = job[k].opted /\ run.owners = job[k].owners
    BY ONLY <1>1 DEF Fields, KeepsRun
  <2> HIDE DEF run
  <2> QED BY <1>11, <2>1, <2>2 DEF JobDone, OnDone, Runs, siteVars
<1>12. ASSUME JobCut(k) PROVE Others /\ OnEnd(k)
  <2>1. Rests(job'[k], "cut") /\ job'[k].day = job[k].day /\ Others
    BY <1>12, JobRests, Stepping DEF JobCut, Runs, siteVars
  <2> QED BY <1>12, <2>1 DEF JobCut, OnEnd, siteVars
<1> QED BY <1>2, <1>3, <1>4, <1>5, <1>7, <1>8, <1>9, <1>10, <1>11, <1>12 DEF Works, JobStep
----------------------------------------------------------------------------
(* The busiest weekday. *)
On(u, day, w) == Cardinality({n \in Creations(u, Days("weekly", day)) : n.day % 7 = w})

LEMMA BusiestSoFar ==
    ASSUME NEW f \in [0..6 -> Nat], NEW i \in 0..5,
           \E w \in 0..i : \A x \in 0..i : f[x] < f[w] \/ (f[x] = f[w] /\ w <= x)
    PROVE  \E w \in 0..(i + 1) :
              \A x \in 0..(i + 1) : f[x] < f[w] \/ (f[x] = f[w] /\ w <= x)
<1>1. PICK w \in 0..i : \A x \in 0..i : f[x] < f[w] \/ (f[x] = f[w] /\ w <= x)
  OBVIOUS
<1>2. CASE f[w] < f[i + 1]
  <2>1. \A x \in 0..(i + 1) : f[x] < f[i + 1] \/ (f[x] = f[i + 1] /\ i + 1 <= x)
    <3> SUFFICES ASSUME NEW x \in 0..(i + 1)
                 PROVE  f[x] < f[i + 1] \/ (f[x] = f[i + 1] /\ i + 1 <= x)
      OBVIOUS
    <3>1. x \in 0..i \/ x = i + 1
      OBVIOUS
    <3>2. f[x] \in Nat /\ f[w] \in Nat /\ f[i + 1] \in Nat
      OBVIOUS
    <3> QED BY <1>1, <1>2, <3>1, <3>2
  <2> QED BY <2>1
<1>3. CASE ~(f[w] < f[i + 1])
  <2>1. \A x \in 0..(i + 1) : f[x] < f[w] \/ (f[x] = f[w] /\ w <= x)
    <3> SUFFICES ASSUME NEW x \in 0..(i + 1) PROVE f[x] < f[w] \/ (f[x] = f[w] /\ w <= x)
      OBVIOUS
    <3>1. x \in 0..i \/ x = i + 1
      OBVIOUS
    <3>2. f[x] \in Nat /\ f[w] \in Nat /\ f[i + 1] \in Nat
      OBVIOUS
    <3> QED BY <1>1, <1>3, <3>1, <3>2
  <2> QED BY <2>1
<1> QED BY <1>2, <1>3

LEMMA Busiest ==
    ASSUME NEW f \in [0..6 -> Nat]
    PROVE  \E w \in 0..6 : \A x \in 0..6 : f[x] < f[w] \/ (f[x] = f[w] /\ w <= x)
<1> DEFINE P(i) == \E w \in 0..i : \A x \in 0..i : f[x] < f[w] \/ (f[x] = f[w] /\ w <= x)
<1>1. P(0)
  OBVIOUS
<1>2. \A i \in 0..5 : P(i) => P(i + 1)
  BY BusiestSoFar
<1> HIDE DEF P
<1>3. P(0 + 1) BY <1>1, <1>2
<1>4. P(1) BY <1>3
<1>5. P(1 + 1) BY <1>2, <1>4
<1>6. P(2) BY <1>5
<1>7. P(2 + 1) BY <1>2, <1>6
<1>8. P(3) BY <1>7
<1>9. P(3 + 1) BY <1>2, <1>8
<1>10. P(4) BY <1>9
<1>11. P(4 + 1) BY <1>2, <1>10
<1>12. P(5) BY <1>11
<1>13. P(5 + 1) BY <1>2, <1>12
<1>14. P(6) BY <1>13
<1> QED BY <1>14 DEF P

LEMMA CreationsFinite ==
    ASSUME Tables, NEW u, NEW S
    PROVE  IsFiniteSet(Creations(u, S)) /\ Cardinality(Creations(u, S)) \in Nat
<1>1. Creations(u, S) \subseteq notes
  BY DEF Creations, Inbox
<1> QED BY <1>1, PartOfFinite DEF Tables

LEMMA TopDowBusiest ==
    ASSUME Tables, NEW u, NEW day
    PROVE  /\ TopDow(u, day) \in 0..6
           /\ \A x \in 0..6 : On(u, day, x) <= On(u, day, TopDow(u, day))
<1> DEFINE f == [w \in 0..6 |-> On(u, day, w)]
           Wins(w) == \A x \in 0..6 : \/ On(u, day, x) < On(u, day, w)
                                      \/ On(u, day, x) = On(u, day, w) /\ w <= x
<1>1. \A w \in 0..6 : On(u, day, w) \in Nat
  <2>1. \A w : {n \in Creations(u, Days("weekly", day)) : n.day % 7 = w} \subseteq Creations(u, Days("weekly", day))
    OBVIOUS
  <2> QED BY <2>1, CreationsFinite, PartOfFinite DEF On
<1>2. \E w \in 0..6 : \A x \in 0..6 : f[x] < f[w] \/ (f[x] = f[w] /\ w <= x)
  <2>1. f \in [0..6 -> Nat]
    BY <1>1
  <2> HIDE DEF f
  <2> QED BY <2>1, Busiest
<1>3. \E w \in 0..6 : Wins(w)
  BY <1>2
<1>4. TopDow(u, day) = CHOOSE w \in 0..6 : Wins(w)
  BY DEF TopDow, On
<1>5. TopDow(u, day) \in 0..6 /\ Wins(TopDow(u, day))
  <2> HIDE DEF Wins
  <2> QED BY <1>3, <1>4
<1> QED BY <1>1, <1>5

LEMMA NameOfIs ==
    ASSUME NEW w \in 0..6
    PROVE  \E i \in 1..7 : i = ((w + 6) % 7) + 1 /\ NameOf(w) = WeekdayNames[i] /\ i % 7 = w
<1>1. ((w + 6) % 7) + 1 \in 1..7 /\ (((w + 6) % 7) + 1) % 7 = w
  OBVIOUS
<1> QED BY <1>1 DEF NameOf

LEMMA WorkJobs ==
    ASSUME Typed, NEW k \in Kinds, Works(k)
    PROVE  JobOK(k)'
<1> USE DEF Typed
<1>1. JobOK(k) /\ begun \in Nat /\ Today \in Nat /\ users \subseteq Users
  BY DEF Jobs, Tables, Today
<1>2. \A u, S : Cardinality(Creations(u, S)) \in Nat
  BY CreationsFinite
<1>3. TxAt(k) \in Nat
  BY <1>1 DEF TxAt, JobOK
<1>4. CASE OnStart(k)
  <2>1. \A u \in DOMAIN job'[k].due :
           job'[k].due[u].count \in Nat \ {0} /\ job'[k].due[u].badges \subseteq Badges
    <3> SUFFICES ASSUME NEW u \in users, Pending(u, k)
                 PROVE  job'[k].due[u].count \in Nat \ {0} /\ job'[k].due[u].badges \subseteq Badges
      BY <1>4 DEF OnStart
    <3>1. IsFiniteSet(Creations(u, Days(k, Today))) /\ Creations(u, Days(k, Today)) # {}
      BY CreationsFinite DEF Pending
    <3>2. Cardinality(Creations(u, Days(k, Today))) \in Nat \ {0}
      BY <3>1, <1>2, FS_EmptySet
    <3> QED BY <1>4, <3>2 DEF OnStart, Owned
  <2> QED BY <1>1, <1>4, <2>1 DEF OnStart, JobOK, Iterating, Running
<1>5. CASE OnOwners(k)
  BY <1>1, <1>5 DEF OnOwners, KeepsRun, JobOK, Iterating, Running
<1>6. CASE OnTargets(k)
  <2>1. Targets(k) \subseteq Users
    BY <1>1 DEF Targets, JobOK
  <2> QED BY <1>1, <1>6, <2>1 DEF OnTargets, KeepsRun, JobOK, Iterating, Running
<1>7. CASE OnCounts(k)
  <2>1. \A u \in job'[k].left : job'[k].counts[u] \in Nat \ {0}
    BY <1>2, <1>7 DEF OnCounts
  <2>2. job'[k].left \subseteq Users
    BY <1>1, <1>7 DEF OnCounts, JobOK
  <2> QED BY <1>1, <1>7, <2>1, <2>2 DEF OnCounts, KeepsRun, JobOK, Iterating, Running
<1>8. ASSUME Begins(k), job[k].pc \in Iterating, job'[k].left \subseteq job[k].left,
             job'[k].pc \in Iterating,
             job'[k].pc \in {"look", "send"} =>
                /\ job'[k].who \in job'[k].left
                /\ job'[k].top \in {None} \cup {WeekdayNames[i] : i \in 1..7}
      PROVE  JobOK(k)'
  <2>1. Running(k) /\ job[k].day \in Nat
    BY <1>1, <1>8 DEF Running, Iterating, JobOK
  <2> QED BY <1>1, <1>3, <1>8, <2>1 DEF Begins, KeepsRun, JobOK, Iterating
<1>9. ASSUME NEW u \in Users, NEW top, OnLook(k, u, top) PROVE JobOK(k)'
  <2>1. top \in {None} \cup {WeekdayNames[i] : i \in 1..7} /\ job[k].pc \in Iterating
    BY <1>1, <1>9 DEF OnLook, JobOK, Iterating
  <2>2. CASE OnAsk(k, u, top)
    BY <1>8, <2>1, <2>2 DEF OnAsk, Iterating
  <2>3. CASE OnSkip(k, u)
    BY <1>8, <2>1, <2>3 DEF OnSkip, Iterating
  <2> QED BY <1>9, <2>2, <2>3 DEF OnLook
<1>10. ASSUME NEW u \in Users, k = "weekly", OnPerDay(u) PROVE JobOK(k)'
  <2>1. job'[k].top \in {None} \cup {WeekdayNames[i] : i \in 1..7}
    BY <1>10, TopDowBusiest, NameOfIs DEF OnPerDay
  <2> QED BY <1>8, <1>10, <2>1 DEF OnPerDay, Iterating
<1>11. CASE OnSend(k)
  BY <1>1, <1>11 DEF OnSend, KeepsRun, JobOK, Iterating, Running
<1>12. CASE OnDone(k)
  BY <1>1, <1>12 DEF OnDone, KeepsRun, JobOK, Iterating, Running
<1>13. CASE OnEnd(k)
  BY <1>1, <1>13 DEF OnEnd, Rests, JobOK, Iterating, Running
<1> QED BY <1>4, <1>5, <1>6, <1>7, <1>9, <1>10, <1>11, <1>12, <1>13 DEF Works

LEMMA LetterTyped ==
    ASSUME Typed, NEW k \in Kinds, OnSend(k)
    PROVE  /\ Letter(k) \in DigestNote /\ Letter(k).user = job[k].who /\ Letter(k).type = k
           /\ Letter(k).at = job[k].at /\ Letter(k).period = job[k].day
           /\ Letter(k).count = job[k].counts[job[k].who] /\ Letter(k).top = job[k].top
           /\ job[k].at \in Nat /\ job[k].who \in job[k].left
<1>1. /\ job[k].who \in job[k].left /\ job[k].left \subseteq Users /\ job[k].at \in Nat
      /\ job[k].day \in Nat /\ job[k].counts[job[k].who] \in Nat
      /\ job[k].top \in {None} \cup {WeekdayNames[i] : i \in 1..7}
  BY DEF Typed, Jobs, JobOK, OnSend, Running, Iterating
<1> QED BY <1>1 DEF Letter, Digest, DigestNote

LEMMA WorkTyped ==
    ASSUME Typed, NEW k \in Kinds, Works(k)
    PROVE  Typed'
<1> USE DEF Typed
<1>1. Jobs'
  <2>1. \A j \in Kinds \ {k} : JobOK(j)'
    BY DEF Works, Jobs, JobOK, Running
  <2> QED BY <2>1, WorkJobs DEF Works, Jobs
<1>2. Hands'
  BY DEF Works, requestVars, Hands, HandOK
<1>3. Holds'
  BY DEF Works, requestVars, Holds, HeldRow
<1>4. notes' = notes \/ (OnSend(k) /\ notes' = notes \cup {Letter(k)})
  BY DEF Works, OnStart, OnOwners, OnTargets, OnCounts, OnLook, OnAsk, OnSkip, Begins, OnPerDay,
         OnSend, OnDone, OnEnd
<1>5. begun' \in {begun, begun + 1}
  BY DEF Works, OnStart, OnOwners, OnTargets, OnCounts, OnLook, OnAsk, OnSkip, Begins, OnPerDay,
         OnSend, OnDone, OnEnd
<1>6. notes' \subseteq Note /\ IsFiniteSet(notes') /\ \A n \in notes' : n.user \in users
  <2>1. CASE notes' = notes
    BY <2>1 DEF Tables, References
  <2>2. CASE OnSend(k) /\ notes' = notes \cup {Letter(k)}
    BY <2>2, LetterTyped, FS_AddElement DEF Tables, References, Note, OnSend
  <2> QED BY <1>4, <2>1, <2>2
<1>7. Tables'
  BY <1>5, <1>6, LaterPrefs DEF Works, Tables
<1>8. References'
  BY <1>6 DEF Works, References, Stored
<1> QED BY <1>1, <1>2, <1>3, <1>7, <1>8

LEMMA NextTyped == Typed /\ [DigestsNext]_vars => Typed'
<1> SUFFICES ASSUME Typed, [DigestsNext]_vars PROVE Typed'
  OBVIOUS
<1>1. CASE ParticipationNext /\ UNCHANGED job
  <2>1. Hands' /\ Jobs'
    BY <1>1, RequestHands DEF Typed, Jobs, JobOK, Running
  <2>2. CASE BlandNext
    BY <2>1, <2>2, BlandSteps, BlandTyped DEF Typed
  <2>3. CASE ActiveNext
    <3>1. ASSUME NEW u \in Users, UNCHANGED <<badges, templates, origin>>,
                 \/ \E upd \in Updates : SavePreferences(u, upd)
                 \/ \E n \in notes : MarkRead(u, n)
                 \/ MarkAllRead(u)
          PROVE  Tables' /\ References' /\ Holds'
      <4>1. CASE \E upd \in Updates : SavePreferences(u, upd)
        BY <3>1, <4>1, SavedTyped
      <4>2. CASE \E n \in notes : MarkRead(u, n)
        BY <3>1, <4>2, MarkedTyped DEF MarkRead, AtOnce
      <4>3. CASE MarkAllRead(u)
        <5>1. Unread(u) \in SUBSET notes
          BY DEF Unread, Inbox
        <5> QED BY <3>1, <4>3, <5>1, MarkedTyped DEF MarkAllRead, ReadAll, AtOnce
      <4> QED BY <3>1, <4>1, <4>2, <4>3
    <3>2. ASSUME NEW p \in Procs, UNCHANGED <<badges, templates, origin>>,
                 (\E u \in Users : WalkStart(p, u)) \/ WalkSlice(p) \/ WalkNext(p)
          PROVE  Tables' /\ References' /\ Holds'
      BY <3>2, WalkFrame, WalksTyped DEF Typed
    <3> QED BY <2>1, <2>3, <3>1, <3>2, CountTyped, CreateCommitTyped, CountCommitTyped,
               CascadeTyped, DeleteTemplateTyped DEF ActiveNext, Typed
  <2> QED BY <1>1, <2>2, <2>3, TwoKinds
<1>2. ASSUME NEW k \in Kinds, JobStart(k) \/ JobStep(k) \/ JobCut(k) PROVE Typed'
  BY <1>2, WorkSteps, WorkTyped
<1>3. CASE UNCHANGED vars
  BY <1>3 DEF vars, Typed, Hands, HandOK, Tables, References, Stored, Holds, HeldRow, Jobs,
              JobOK, Running
<1> QED BY <1>1, <1>2, <1>3 DEF DigestsNext
----------------------------------------------------------------------------
(***************************************************************************)
(* Tickets.  A transaction in progress has a time of its own: no           *)
(* notification has it yet, no other transaction has it, and no walk       *)
(* through the pages is waiting for it.  So created_at tells notifications *)
(* apart.                                                                  *)
(***************************************************************************)
Unused(a) ==
    /\ a \in 1..begun /\ \A n \in notes : n.at # a
    /\ \A p \in Procs : pc[p] \in Walking => a \notin loc[p].first

Apart == \A n, m \in notes : n.at = m.at => n = m
Dated == \A n \in notes : n.at \in 1..begun
WalksDated == \A p \in Procs : pc[p] \in Walking => loc[p].first \subseteq 1..begun
HandTickets ==
    \A p \in Procs : pc[p] \in Counting =>
       /\ Unused(loc[p].at)
       /\ \A q \in Procs \ {p} : pc[q] \in Counting => loc[q].at # loc[p].at
       /\ \A k \in Kinds : job[k].at # loc[p].at
JobTickets ==
    \A k \in Kinds : job[k].at # None =>
       /\ Unused(job[k].at)
       /\ \A j \in Kinds \ {k} : job[j].at # job[k].at

Tickets == Apart /\ Dated /\ WalksDated /\ HandTickets /\ JobTickets

LEMMA InitTickets == DigestsInit => Tickets
<1> SUFFICES ASSUME DigestsInit PROVE Tickets
  OBVIOUS
<1>1. notes = {Alert(Founded[Past[i].badge].owner, Past[i].badge, i, Past[i].day)
                  : i \in DOMAIN Past}
      /\ begun = Len(Past)
  BY DEF DigestsInit, ParticipationInit
<1>2. Apart /\ Dated
  <2> DEFINE note(i) == Alert(Founded[Past[i].badge].owner, Past[i].badge, i, Past[i].day)
  <2>1. \A i \in DOMAIN Past : note(i).at = i
    BY DEF Alert
  <2>2. notes = {note(i) : i \in DOMAIN Past}
    BY <1>1
  <2> HIDE DEF note
  <2>3. Apart
    BY <2>1, <2>2 DEF Apart
  <2>4. Dated
    BY <1>1, <2>1, <2>2, Beginnings DEF Dated
  <2> QED BY <2>3, <2>4
<1>3. \A p \in Procs : pc[p] = "idle"
  BY DEF DigestsInit, ParticipationInit, RequestsInit
<1>4. \A k \in Kinds : job[k].at = None
  <2>1. PICK k \in Kinds : job = [j \in Kinds |->
          IF j = k THEN NoJob ELSE [NoJob EXCEPT !.pc = "cut", !.day = Today]]
    BY DEF DigestsInit
  <2>2. \A j \in Kinds : job[j] = NoJob \/ job[j] = [NoJob EXCEPT !.pc = "cut", !.day = Today]
    BY <2>1
  <2>3. \A j \in Kinds : Rests(job[j], "off") \/ Rests(job[j], "cut")
    BY <2>2, Resting
  <2> QED BY <2>3 DEF Rests
<1> QED BY <1>2, <1>3, <1>4 DEF Tickets, WalksDated, HandTickets, JobTickets, Walking, Counting

LEMMA MarkedApart ==
    ASSUME Tables, Apart, NEW S \in SUBSET notes, notes' = Read(S)
    PROVE  Apart'
<1> DEFINE mark(n) == IF n \in S THEN [n EXCEPT !.read = TRUE] ELSE n
<1>1. \A n \in notes : mark(n).at = n.at
  BY DEF Tables, Note, AlertNote, DigestNote
<1>2. notes' = {mark(n) : n \in notes}
  BY DEF Read
<1> HIDE DEF mark
<1> QED BY <1>1, <1>2 DEF Apart

(* What a request holds stays, ends, or begins with what there is. *)
HandStays(p) ==
    /\ pc'[p] \in Counting => pc[p] \in Counting /\ loc'[p].at = loc[p].at
    /\ pc'[p] \in Walking => \/ pc[p] \in Walking /\ loc'[p].first = loc[p].first
                             \/ loc'[p].first \subseteq {n.at : n \in notes}

LEMMA TicketsStay ==
    ASSUME Typed, Tickets, begun' \in {begun, begun + 1}, Apart',
           \A m \in notes' : \E n \in notes : m.at = n.at,
           \A p \in Procs : HandStays(p),
           \A k \in Kinds : job'[k].at = job[k].at \/ job'[k].at = None
    PROVE  Tickets'
<1>1. begun \in Nat /\ 1..begun \subseteq 1..begun'
  BY DEF Typed, Tables
<1>2. ASSUME NEW a, Unused(a) PROVE Unused(a)'
  <2>1. a \in 1..begun' /\ \A n \in notes' : n.at # a
    BY <1>1, <1>2 DEF Unused
  <2>2. ASSUME NEW p \in Procs, pc'[p] \in Walking PROVE a \notin loc'[p].first
    BY <1>2, <2>2 DEF Unused, HandStays
  <2> QED BY <2>1, <2>2 DEF Unused
<1>3. Dated' /\ WalksDated'
  <2>1. {n.at : n \in notes} \subseteq 1..begun
    BY DEF Tickets, Dated
  <2>2. Dated'
    BY <1>1, <2>1 DEF Dated
  <2>3. WalksDated'
    BY <1>1, <2>1 DEF Tickets, WalksDated, HandStays
  <2> QED BY <2>2, <2>3
<1>4. HandTickets'
  <2>1. ASSUME NEW p \in Procs, pc'[p] \in Counting
        PROVE  /\ Unused(loc[p].at)'
               /\ \A q \in Procs \ {p} : pc'[q] \in Counting => loc'[q].at # loc'[p].at
               /\ \A k \in Kinds : job'[k].at # loc'[p].at
    <3>1. PICK a : a = loc[p].at
      OBVIOUS
    <3>2. pc[p] \in Counting /\ loc'[p].at = a /\ Unused(a) /\ a # None
      BY <2>1, <3>1, DigestsAssumption DEF HandStays, Tickets, HandTickets, Unused
    <3>3. Unused(loc[p].at)'
      BY <1>2, <3>2 DEF Unused
    <3>4. \A q \in Procs \ {p} : pc'[q] \in Counting => loc'[q].at # a
      BY <3>1, <3>2 DEF HandStays, Tickets, HandTickets
    <3>5. \A k \in Kinds : job'[k].at # a
      BY <3>1, <3>2 DEF Tickets, HandTickets
    <3> QED BY <3>2, <3>3, <3>4, <3>5
  <2> QED BY <2>1 DEF HandTickets
<1>5. JobTickets'
  <2>1. ASSUME NEW k \in Kinds, job'[k].at # None
        PROVE  /\ Unused(job[k].at)'
               /\ \A j \in Kinds \ {k} : job'[j].at # job'[k].at
    <3>1. PICK a : a = job[k].at
      OBVIOUS
    <3>2. job'[k].at = a /\ Unused(a) /\ a # None
      BY <2>1, <3>1 DEF Tickets, JobTickets
    <3>3. Unused(job[k].at)'
      BY <1>2, <3>2 DEF Unused
    <3>4. \A j \in Kinds \ {k} : job'[j].at # a
      BY <3>1, <3>2 DEF Tickets, JobTickets
    <3> QED BY <3>2, <3>3, <3>4
  <2> QED BY <2>1 DEF JobTickets
<1> QED BY <1>3, <1>4, <1>5 DEF Tickets

LEMMA TicketUsed ==
    ASSUME Typed, Tickets, begun' = begun,
           NEW n, Unused(n.at), notes' = notes \cup {n},
           \A p \in Procs : /\ HandStays(p)
                            /\ pc'[p] \in Counting => loc[p].at # n.at
                            /\ pc'[p] \in Walking => pc[p] \in Walking /\ loc'[p].first = loc[p].first,
           \A k \in Kinds : (job'[k].at = job[k].at /\ job[k].at # n.at) \/ job'[k].at = None
    PROVE  Tickets'
<1>1. ASSUME NEW a, Unused(a), a # n.at PROVE Unused(a)'
  BY <1>1 DEF Unused
<1>2. Apart' /\ Dated' /\ WalksDated'
  <2>1. Apart'
    BY DEF Apart, Tickets, Unused
  <2>2. Dated'
    BY DEF Dated, Tickets, Unused
  <2>3. WalksDated'
    BY DEF WalksDated, Tickets
  <2> QED BY <2>1, <2>2, <2>3
<1>3. HandTickets'
  <2>1. ASSUME NEW p \in Procs, pc'[p] \in Counting
        PROVE  /\ Unused(loc[p].at)'
               /\ \A q \in Procs \ {p} : pc'[q] \in Counting => loc'[q].at # loc'[p].at
               /\ \A k \in Kinds : job'[k].at # loc'[p].at
    <3>1. PICK a : a = loc[p].at
      OBVIOUS
    <3>2. pc[p] \in Counting /\ loc'[p].at = a /\ Unused(a) /\ a # None /\ a # n.at
      BY <2>1, <3>1, DigestsAssumption DEF HandStays, Tickets, HandTickets, Unused
    <3>3. Unused(loc[p].at)'
      BY <1>1, <3>2 DEF Unused
    <3>4. \A q \in Procs \ {p} : pc'[q] \in Counting => loc'[q].at # a
      BY <3>1, <3>2 DEF HandStays, Tickets, HandTickets
    <3>5. \A k \in Kinds : job'[k].at # a
      BY <3>1, <3>2 DEF Tickets, HandTickets
    <3> QED BY <3>2, <3>3, <3>4, <3>5
  <2> QED BY <2>1 DEF HandTickets
<1>4. JobTickets'
  <2>1. ASSUME NEW k \in Kinds, job'[k].at # None
        PROVE  /\ Unused(job[k].at)'
               /\ \A j \in Kinds \ {k} : job'[j].at # job'[k].at
    <3>1. PICK a : a = job[k].at
      OBVIOUS
    <3>2. job'[k].at = a /\ Unused(a) /\ a # None /\ a # n.at
      BY <2>1, <3>1 DEF Tickets, JobTickets
    <3>3. Unused(job[k].at)'
      BY <1>1, <3>2 DEF Unused
    <3>4. \A j \in Kinds \ {k} : job'[j].at # a
      BY <3>1, <3>2 DEF Tickets, JobTickets
    <3> QED BY <3>2, <3>3, <3>4
  <2> QED BY <2>1 DEF JobTickets
<1> QED BY <1>2, <1>3, <1>4 DEF Tickets

(* The time of a transaction that begins is later than all there are. *)
LEMMA NewTicket ==
    ASSUME Typed, Tickets, begun' = begun + 1, notes' = notes,
           \A p \in Procs : pc'[p] \in Walking => pc[p] \in Walking /\ loc'[p].first = loc[p].first
    PROVE  /\ Apart' /\ Dated' /\ WalksDated'
           /\ \A a : Unused(a) \/ a = begun + 1 => Unused(a)'
           /\ \A a : Unused(a) => a # begun + 1
           /\ begun + 1 # None
<1>1. begun \in Nat /\ begun + 1 \notin 1..begun /\ 1..begun' = 1..begun \cup {begun + 1}
  BY DEF Typed, Tables
<1>2. Apart' /\ Dated' /\ WalksDated'
  BY <1>1 DEF Tickets, Apart, Dated, WalksDated
<1>3. \A a : Unused(a) => Unused(a)' /\ a # begun + 1
  BY <1>1 DEF Unused
<1>4. \A a : a = begun + 1 => Unused(a)'
  BY <1>1 DEF Unused, Tickets, Dated, WalksDated
<1> QED BY <1>1, <1>2, <1>3, <1>4, DigestsAssumption

LEMMA CountTickets ==
    ASSUME Typed, Tickets, NEW p \in Procs, NEW b \in Badges, Count(p, b), UNCHANGED job
    PROVE  Tickets'
<1>1. /\ pc'[p] = "alert" /\ loc'[p].at = begun + 1 /\ pc[p] = "idle"
      /\ \A q \in Procs \ {p} : pc'[q] = pc[q] /\ loc'[q] = loc[q]
      /\ begun' = begun + 1 /\ notes' = notes
  BY CountTyped DEF Moves, Count
<1>2. /\ Apart' /\ Dated' /\ WalksDated'
      /\ \A a : Unused(a) \/ a = begun + 1 => Unused(a)'
      /\ \A a : Unused(a) => a # begun + 1
      /\ begun + 1 # None
  <2>1. \A q \in Procs : pc'[q] \in Walking => pc[q] \in Walking /\ loc'[q].first = loc[q].first
    BY <1>1 DEF Walking
  <2> QED BY <1>1, <2>1, NewTicket
<1>3. HandTickets'
  <2>1. ASSUME NEW q \in Procs, pc'[q] \in Counting
        PROVE  /\ Unused(loc[q].at)'
               /\ \A r \in Procs \ {q} : pc'[r] \in Counting => loc'[r].at # loc'[q].at
               /\ \A k \in Kinds : job'[k].at # loc'[q].at
    <3>1. PICK a : a = loc'[q].at
      OBVIOUS
    <3>2. a = begun + 1 \/ Unused(a)
      BY <1>1, <2>1, <3>1 DEF Tickets, HandTickets
    <3>3. Unused(loc[q].at)'
      BY <1>2, <3>1, <3>2 DEF Unused
    <3>4. \A r \in Procs \ {q} : pc'[r] \in Counting => loc'[r].at # a
      BY <1>1, <1>2, <2>1, <3>1 DEF Tickets, HandTickets
    <3>5. \A k \in Kinds : job'[k].at # a
      BY <1>1, <1>2, <2>1, <3>1 DEF Tickets, HandTickets, JobTickets
    <3> QED BY <3>1, <3>3, <3>4, <3>5
  <2> QED BY <2>1 DEF HandTickets
<1>4. JobTickets'
  BY <1>2 DEF Tickets, JobTickets, Unused
<1> QED BY <1>2, <1>3, <1>4 DEF Tickets

LEMMA BeginTickets ==
    ASSUME Typed, Tickets, NEW k \in Kinds, UNCHANGED requestVars, notes' = notes,
           begun' = begun + 1, job'[k].at = begun + 1,
           \A j \in Kinds \ {k} : job'[j] = job[j]
    PROVE  Tickets'
<1>1. pc' = pc /\ loc' = loc
  BY DEF requestVars
<1>2. /\ Apart' /\ Dated' /\ WalksDated'
      /\ \A a : Unused(a) \/ a = begun + 1 => Unused(a)'
      /\ \A a : Unused(a) => a # begun + 1
      /\ begun + 1 # None
  BY <1>1, NewTicket
<1>3. HandTickets'
  <2>1. ASSUME NEW q \in Procs, pc'[q] \in Counting
        PROVE  /\ Unused(loc[q].at)'
               /\ \A r \in Procs \ {q} : pc'[r] \in Counting => loc'[r].at # loc'[q].at
               /\ \A j \in Kinds : job'[j].at # loc'[q].at
    <3>1. PICK a : a = loc[q].at
      OBVIOUS
    <3>2. Unused(a) /\ loc'[q].at = a
      BY <1>1, <2>1, <3>1 DEF Tickets, HandTickets
    <3>3. Unused(loc[q].at)'
      BY <1>2, <3>2 DEF Unused
    <3> QED BY <1>1, <1>2, <2>1, <3>1, <3>2, <3>3 DEF Tickets, HandTickets
  <2> QED BY <2>1 DEF HandTickets
<1>4. JobTickets'
  <2>1. ASSUME NEW j \in Kinds, job'[j].at # None
        PROVE  /\ Unused(job[j].at)'
               /\ \A i \in Kinds \ {j} : job'[i].at # job'[j].at
    <3>1. PICK a : a = job'[j].at
      OBVIOUS
    <3>2. a = begun + 1 \/ Unused(a)
      BY <2>1, <3>1 DEF Tickets, JobTickets
    <3>3. Unused(job[j].at)'
      BY <1>2, <3>1, <3>2 DEF Unused
    <3>4. \A i \in Kinds \ {j} : job'[i].at # a
      BY <1>2, <2>1, <3>1 DEF Tickets, JobTickets
    <3> QED BY <3>1, <3>3, <3>4
  <2> QED BY <2>1 DEF JobTickets
<1> QED BY <1>2, <1>3, <1>4 DEF Tickets

LEMMA KeptStays ==
    ASSUME NEW p \in Procs, KeptHand(p)
    PROVE  HandStays(p)
BY DEF KeptHand, HandStays, Walking

LEMMA WalkStays ==
    ASSUME Hands, NEW p \in Procs, UNCHANGED <<badges, templates, origin>>,
           (\E u \in Users : WalkStart(p, u)) \/ WalkSlice(p) \/ WalkNext(p)
    PROVE  \A q \in Procs : HandStays(q)
<1>1. \A q \in Procs \ {p} : HandStays(q)
  BY WalkFrame DEF Walks, HandStays
<1>2. ASSUME NEW u \in Users, WalkStart(p, u) PROVE HandStays(p)
  <2>1. loc'[p].first = {n.at : n \in Inbox(u)} /\ pc'[p] = "slice"
    BY <1>2, Moving DEF Hands, WalkStart, Moves
  <2> QED BY <2>1 DEF HandStays, Counting, Inbox
<1>3. ASSUME WalkSlice(p) \/ WalkNext(p) PROVE HandStays(p)
  <2>1. loc[p] \in WalkHand /\ pc[p] \in Walking
    BY <1>3 DEF Hands, HandOK, WalkSlice, WalkNext, Walking
  <2>2. loc'[p].first = loc[p].first
    <3>1. CASE WalkSlice(p)
      <4>1. PICK step, seen, torn :
               Goto(p, step, [loc[p] EXCEPT !.seen = seen, !.torn = torn])
        BY <3>1 DEF WalkSlice
      <4>2. loc'[p] = [loc[p] EXCEPT !.seen = seen, !.torn = torn]
        BY <4>1, Moving DEF Hands, Moves
      <4> QED BY <2>1, <4>2 DEF WalkHand
    <3>2. CASE WalkNext(p)
      <4>1. PICK page, total : Goto(p, "slice", [loc[p] EXCEPT !.page = page, !.total = total])
        BY <3>2 DEF WalkNext
      <4>2. loc'[p] = [loc[p] EXCEPT !.page = page, !.total = total]
        BY <4>1, Moving DEF Hands, Moves
      <4> QED BY <2>1, <4>2 DEF WalkHand
    <3> QED BY <1>3, <3>1, <3>2
  <2>3. pc'[p] \notin Counting
    BY <1>3, WalkFrame DEF Walks
  <2> QED BY <2>1, <2>2, <2>3 DEF HandStays
<1> QED BY <1>1, <1>2, <1>3

LEMMA CountCommitTickets ==
    ASSUME Typed, Tickets, NEW p \in Procs, CountCommit(p), UNCHANGED job
    PROVE  Tickets'
<1> DEFINE note == Alert(loc[p].user, loc[p].badge, loc[p].at, loc[p].day)
<1>1. /\ KeptHands /\ pc[p] = "insert" /\ pc'[p] = "idle" /\ note.at = loc[p].at
      /\ begun' = begun
  BY CountCommitTyped DEF Alert, CountCommit
<1>2. notes' = notes \/ notes' = notes \cup {note}
  BY DEF CountCommit, Alerted
<1>3. \A q \in Procs : HandStays(q)
  BY <1>1, KeptStays DEF KeptHands
<1>4. CASE notes' = notes
  BY <1>1, <1>3, <1>4, TicketsStay DEF Typed, Tables, Tickets, Apart
<1>5. CASE notes' = notes \cup {note}
  <2>1. Unused(note.at) /\ \A k \in Kinds : job[k].at # note.at
    BY <1>1 DEF Tickets, HandTickets, Counting
  <2>2. \A q \in Procs :
           /\ pc'[q] \in Counting => loc[q].at # note.at
           /\ pc'[q] \in Walking => pc[q] \in Walking /\ loc'[q].first = loc[q].first
    BY <1>1 DEF KeptHands, KeptHand, Tickets, HandTickets, Counting
  <2> HIDE DEF note
  <2> QED BY <1>1, <1>3, <1>5, <2>1, <2>2, TicketUsed
<1> QED BY <1>2, <1>4, <1>5

LEMMA WorkTickets ==
    ASSUME Typed, Tickets, NEW k \in Kinds, Works(k)
    PROVE  Tickets'
<1>1. /\ pc' = pc /\ loc' = loc /\ \A j \in Kinds \ {k} : job'[j] = job[j]
      /\ UNCHANGED requestVars
  BY DEF Works, requestVars
<1>2. \A p \in Procs : HandStays(p)
  BY <1>1 DEF HandStays
<1>3. ASSUME notes' = notes, begun' \in {begun, begun + 1},
             job'[k].at = job[k].at \/ job'[k].at = None
      PROVE  Tickets'
  <2>1. Apart' /\ \A m \in notes' : \E n \in notes : m.at = n.at
    BY <1>3 DEF Tickets, Apart
  <2>2. \A j \in Kinds : job'[j].at = job[j].at \/ job'[j].at = None
    BY <1>1, <1>3
  <2> QED BY <1>2, <1>3, <2>1, <2>2, TicketsStay
<1>4. CASE OnStart(k)
  BY <1>1, <1>4, BeginTickets DEF OnStart
<1>5. CASE OnOwners(k) \/ OnTargets(k) \/ OnCounts(k) \/ OnDone(k) \/ OnEnd(k)
  BY <1>3, <1>5 DEF OnOwners, OnTargets, OnCounts, OnDone, OnEnd, Rests
<1>6. ASSUME Begins(k) PROVE Tickets'
  <2>1. CASE job[k].at = None
    BY <1>1, <1>6, <2>1, BeginTickets DEF Begins, TxAt
  <2>2. CASE job[k].at # None
    BY <1>3, <1>6, <2>2 DEF Begins, TxAt
  <2> QED BY <2>1, <2>2
<1>7. CASE OnSend(k)
  <2>1. Letter(k).at = job[k].at /\ job[k].at # None
    BY <1>7, LetterTyped, DigestsAssumption
  <2>2. /\ Unused(Letter(k).at)
        /\ \A p \in Procs : pc'[p] \in Counting => loc[p].at # Letter(k).at
        /\ \A p \in Procs : pc'[p] \in Walking => pc[p] \in Walking /\ loc'[p].first = loc[p].first
        /\ \A j \in Kinds \ {k} : job'[j].at = job[j].at /\ job[j].at # Letter(k).at
    <3>1. Unused(Letter(k).at)
      BY <2>1 DEF Tickets, JobTickets
    <3> QED BY <1>1, <2>1, <3>1 DEF Tickets, JobTickets, HandTickets
  <2>3. \A j \in Kinds : (job'[j].at = job[j].at /\ job[j].at # Letter(k).at) \/ job'[j].at = None
    BY <1>7, <2>2 DEF OnSend
  <2>4. begun' = begun /\ notes' = notes \cup {Letter(k)}
    BY <1>7 DEF OnSend
  <2> QED BY <1>2, <2>2, <2>3, <2>4, TicketUsed
<1> QED BY <1>4, <1>5, <1>6, <1>7 DEF Works, OnLook, OnAsk, OnSkip, OnPerDay

LEMMA NextTickets == Typed /\ Tickets /\ [DigestsNext]_vars => Tickets'
<1> SUFFICES ASSUME Typed, Tickets, [DigestsNext]_vars PROVE Tickets'
  OBVIOUS
<1>1. ASSUME begun' \in {begun, begun + 1}, UNCHANGED job, \A p \in Procs : HandStays(p),
             notes' \subseteq notes
      PROVE  Tickets'
  <2>1. Apart' /\ \A m \in notes' : \E n \in notes : m.at = n.at
    BY <1>1 DEF Tickets, Apart
  <2> QED BY <1>1, <2>1, TicketsStay
<1>2. ASSUME NEW S \in SUBSET notes, notes' = Read(S), UNCHANGED <<begun, pc, loc, job>>
      PROVE  Tickets'
  <2>1. Apart' /\ \A m \in notes' : \E n \in notes : m.at = n.at
    BY <1>2, Marked, MarkedApart DEF Typed, Tickets, Old, Same
  <2>2. \A p \in Procs : HandStays(p)
    BY <1>2 DEF HandStays
  <2> QED BY <1>2, <2>1, <2>2, TicketsStay
<1>3. CASE ParticipationNext /\ UNCHANGED job
  <2>1. CASE BlandNext
    BY <1>1, <1>3, <2>1, BlandSteps, KeptStays DEF Bland, KeptHands
  <2>2. CASE ActiveNext
    <3>1. ASSUME NEW u \in Users, UNCHANGED <<badges, templates, origin>>,
                 \/ \E upd \in Updates : SavePreferences(u, upd)
                 \/ \E n \in notes : MarkRead(u, n)
                 \/ MarkAllRead(u)
          PROVE  Tickets'
      <4>1. pc' = pc /\ loc' = loc
        BY <3>1 DEF SavePreferences, MarkRead, MarkAllRead, AtOnce
      <4>2. \A p \in Procs : HandStays(p)
        BY <4>1 DEF HandStays
      <4>3. CASE \E upd \in Updates : SavePreferences(u, upd)
        BY <1>1, <1>3, <4>2, <4>3 DEF SavePreferences
      <4>4. CASE \E n \in notes : MarkRead(u, n)
        BY <1>2, <1>3, <4>1, <4>4 DEF MarkRead
      <4>5. CASE MarkAllRead(u)
        <5>1. Unread(u) \in SUBSET notes
          BY DEF Unread, Inbox
        <5> QED BY <1>2, <1>3, <4>1, <4>5, <5>1 DEF MarkAllRead, ReadAll
      <4> QED BY <3>1, <4>3, <4>4, <4>5
    <3>2. ASSUME NEW p \in Procs, UNCHANGED <<badges, templates, origin>>,
                 (\E u \in Users : WalkStart(p, u)) \/ WalkSlice(p) \/ WalkNext(p)
          PROVE  Tickets'
      <4>1. begun' = begun /\ notes' = notes
        BY <3>2, WalkFrame DEF Typed, Walks, siteVars
      <4> QED BY <1>1, <1>3, <3>2, <4>1, WalkStays DEF Typed
    <3>3. ASSUME NEW p \in Procs, CreateCommit(p) PROVE Tickets'
      BY <1>1, <1>3, <3>3, CreateCommitTyped, KeptStays DEF CreateCommit, KeptHands
    <3>4. ASSUME NEW p \in Procs, Cascade(p) PROVE Tickets'
      BY <1>1, <1>3, <3>4, CascadeTyped, KeptStays DEF Cascade, KeptHands
    <3>5. ASSUME NEW t \in Templates, DeleteTemplate(t) PROVE Tickets'
      BY <1>1, <1>3, <3>5, DeleteTemplateTyped, KeptStays DEF DeleteTemplate, Administer, KeptHands
    <3> QED BY <1>3, <2>2, <3>1, <3>2, <3>3, <3>4, <3>5, CountTickets, CountCommitTickets
            DEF ActiveNext
  <2> QED BY <1>3, <2>1, <2>2, TwoKinds
<1>4. ASSUME NEW k \in Kinds, JobStart(k) \/ JobStep(k) \/ JobCut(k) PROVE Tickets'
  BY <1>4, WorkSteps, WorkTickets
<1>5. CASE UNCHANGED vars
  <2>1. \A p \in Procs : HandStays(p)
    BY <1>5 DEF vars, HandStays
  <2> QED BY <1>1, <1>5, <2>1 DEF vars
<1> QED BY <1>3, <1>4, <1>5 DEF DigestsNext
----------------------------------------------------------------------------
(***************************************************************************)
(* What every step keeps.                                                  *)
(***************************************************************************)
NewAlert(m) ==
    /\ m \in AlertNote /\ job' = job
    /\ \E p \in Procs : pc[p] \in Counting /\ m.at = loc[p].at
NewDigest(m) == \E k \in Kinds : Works(k) /\ OnSend(k) /\ m = Letter(k)

NotesMove ==
    /\ users' \subseteq users /\ Keeps
    /\ \A m \in notes' : Old(m) \/ NewAlert(m) \/ NewDigest(m)

PrefsMove ==
    \A u \in users' : prefs'[u] = prefs[u] \/ prefs'[u].updated = begun + 1

BadgesMove ==
    \A b \in Badges : origin[b] # None =>
       /\ origin'[b] # None
       /\ badges'[b] # None => badges[b] # None /\ badges'[b].owner = badges[b].owner

(* No account comes back, no time goes back; preferences that change get a  *)
(* later time; a badge that is gone stays gone, and until then keeps owner. *)
TablesMove == NotesMove /\ PrefsMove /\ BadgesMove /\ begun <= begun' /\ clock <= clock'

LEMMA NotesStay ==
    ASSUME users' \subseteq users, notes' = notes
    PROVE  NotesMove
BY SameAsItself DEF NotesMove, Keeps, Old

LEMMA NextMoves == Typed /\ [DigestsNext]_vars => TablesMove
<1> SUFFICES ASSUME Typed, [DigestsNext]_vars PROVE TablesMove
  OBVIOUS
<1>1. begun \in Nat /\ clock \in Nat /\ users \subseteq Users
  BY DEF Typed, Tables
<1>2. ASSUME UNCHANGED <<badges, origin>> PROVE BadgesMove
  BY <1>2 DEF BadgesMove
<1>3. ASSUME NEW S \in SUBSET notes, notes' = Read(S), users' = users
      PROVE  NotesMove
  BY <1>3, Marked DEF NotesMove, Keeps, Typed
<1>4. CASE ParticipationNext /\ UNCHANGED job
  <2>1. CASE BlandNext
    <3>1. Bland
      BY <2>1, BlandSteps
    <3>2. BadgesMove
      BY <3>1 DEF Bland, SameRows, BadgesMove
    <3>3. NotesMove
      BY <3>1, NotesStay DEF Bland
    <3> QED BY <1>1, <3>1, <3>2, <3>3 DEF Bland, PrefsMove, TablesMove
  <2>2. CASE ActiveNext
    <3>1. ASSUME NEW u \in Users, NEW upd \in Updates, SavePreferences(u, upd),
                 UNCHANGED <<badges, templates, origin>>
          PROVE  TablesMove
      <4>1. \A v \in Users : prefs'[v] = prefs[v] \/ prefs'[v].updated = begun + 1
        BY <3>1 DEF SavePreferences, Typed, Tables
      <4>2. users' = users /\ notes' = notes /\ begun' = begun + 1 /\ clock' = clock
        BY <3>1 DEF SavePreferences
      <4> QED BY <1>1, <1>2, <3>1, <4>1, <4>2, NotesStay DEF TablesMove, PrefsMove
    <3>2. ASSUME NEW u \in Users, UNCHANGED <<badges, templates, origin>>,
                 (\E n \in notes : MarkRead(u, n)) \/ MarkAllRead(u)
          PROVE  TablesMove
      <4>1. Unread(u) \in SUBSET notes
        BY DEF Unread, Inbox
      <4>2. PICK S \in SUBSET notes : notes' = Read(S)
        BY <3>2, <4>1 DEF MarkRead, MarkAllRead, ReadAll
      <4>3. UNCHANGED <<users, prefs, begun, clock>>
        BY <3>2 DEF MarkRead, MarkAllRead
      <4> QED BY <1>1, <1>2, <1>3, <3>2, <4>2, <4>3 DEF TablesMove, PrefsMove
    <3>3. ASSUME NEW p \in Procs, UNCHANGED <<badges, templates, origin>>,
                 (\E u \in Users : WalkStart(p, u)) \/ WalkSlice(p) \/ WalkNext(p)
          PROVE  TablesMove
      <4>1. UNCHANGED siteVars
        BY <3>3, WalkFrame DEF Typed, Walks
      <4> QED BY <1>1, <1>2, <4>1, NotesStay DEF siteVars, TablesMove, PrefsMove
    <3>4. ASSUME NEW p \in Procs, NEW b \in Badges, Count(p, b) PROVE TablesMove
      BY <1>1, <1>2, <3>4, NotesStay DEF Count, TablesMove, PrefsMove
    <3>5. ASSUME NEW p \in Procs, CreateCommit(p) PROVE TablesMove
      <4>1. PICK b \in Badges : /\ origin[b] = None
                                /\ \A c \in Badges \ {b} : /\ badges'[c] = badges[c]
                                                           /\ origin'[c] = origin[c]
        BY <3>5, CreateCommitTyped
      <4>2. BadgesMove
        BY <4>1 DEF BadgesMove
      <4> QED BY <1>1, <3>5, <4>2, NotesStay DEF CreateCommit, TablesMove, PrefsMove
    <3>6. ASSUME NEW p \in Procs, CountCommit(p) PROVE TablesMove
      <4> DEFINE note == Alert(loc[p].user, loc[p].badge, loc[p].at, loc[p].day)
      <4>1. note \in AlertNote /\ SameRows /\ pc[p] = "insert" /\ note.at = loc[p].at
        BY <3>6, CountCommitTyped DEF Alert
      <4>2. notes' = notes \/ notes' = notes \cup {note}
        BY <3>6 DEF CountCommit, Alerted
      <4>3. NewAlert(note)
        BY <1>4, <4>1 DEF NewAlert, Counting
      <4>4. UNCHANGED <<users, prefs, begun, clock, origin>>
        BY <3>6 DEF CountCommit
      <4> HIDE DEF note
      <4>5. NotesMove
        BY <4>2, <4>3, <4>4, SameAsItself DEF NotesMove, Keeps, Old
      <4>6. BadgesMove
        BY <4>1, <4>4 DEF BadgesMove, SameRows
      <4> QED BY <1>1, <4>4, <4>5, <4>6 DEF TablesMove, PrefsMove
    <3>7. ASSUME NEW p \in Procs, Cascade(p) PROVE TablesMove
      <4> DEFINE u == loc[p].user
      <4>1. users' = users \ {u} /\ notes' = notes \ Inbox(u) /\ begun' = begun /\ clock' = clock
            /\ origin' = origin
        BY <3>7 DEF Cascade
      <4>2. NotesMove
        BY <4>1, SameAsItself DEF NotesMove, Keeps, Old, Inbox
      <4>3. PrefsMove
        BY <1>1, <3>7 DEF PrefsMove, Cascade, Typed, Tables
      <4>4. BadgesMove
        BY <3>7 DEF BadgesMove, Cascade
      <4> QED BY <1>1, <4>1, <4>2, <4>3, <4>4 DEF TablesMove
    <3>8. ASSUME NEW t \in Templates, DeleteTemplate(t) PROVE TablesMove
      <4>1. UNCHANGED <<users, prefs, notes, begun, clock, origin>>
        BY <3>8 DEF DeleteTemplate, Administer
      <4>2. BadgesMove
        BY <3>8, <4>1, DeleteTemplateTyped DEF BadgesMove
      <4> QED BY <1>1, <4>1, <4>2, NotesStay DEF TablesMove, PrefsMove
    <3> QED BY <2>2, <3>1, <3>2, <3>3, <3>4, <3>5, <3>6, <3>7, <3>8 DEF ActiveNext
  <2> QED BY <1>4, <2>1, <2>2, TwoKinds
<1>5. ASSUME NEW k \in Kinds, JobStart(k) \/ JobStep(k) \/ JobCut(k) PROVE TablesMove
  <2>1. Works(k)
    BY <1>5, WorkSteps
  <2>2. UNCHANGED <<users, prefs, clock, badges, origin>>
    BY <2>1 DEF Works
  <2>3. begun' \in {begun, begun + 1} /\ (notes' = notes \/ OnSend(k))
    BY <2>1 DEF Works, OnStart, OnOwners, OnTargets, OnCounts, OnLook, OnAsk, OnSkip, Begins,
                OnPerDay, OnSend, OnDone, OnEnd
  <2>4. NotesMove
    <3>1. CASE notes' = notes
      BY <2>2, <3>1, NotesStay
    <3>2. CASE OnSend(k)
      <4>1. notes' = notes \cup {Letter(k)} /\ NewDigest(Letter(k))
        BY <2>1, <3>2 DEF NewDigest, OnSend
      <4> QED BY <2>2, <4>1, SameAsItself DEF NotesMove, Keeps, Old
    <3> QED BY <2>3, <3>1, <3>2
  <2> QED BY <1>1, <1>2, <2>2, <2>3, <2>4 DEF TablesMove, PrefsMove
<1>6. CASE UNCHANGED vars
  BY <1>1, <1>2, <1>6, NotesStay DEF vars, TablesMove, PrefsMove
<1> QED BY <1>4, <1>5, <1>6 DEF DigestsNext
----------------------------------------------------------------------------
(***************************************************************************)
(* Sets of notifications are compared by the times in them.                *)
(***************************************************************************)
Within(S, T) == \A n \in S : \E m \in T : m.at = n.at

LEMMA Injects ==
    ASSUME NEW S, NEW T, IsFiniteSet(T), Within(S, T),
           \A n, m \in S : n.at = m.at => n = m
    PROVE  /\ Cardinality(S) <= Cardinality(T)
           /\ Cardinality(S) = Cardinality(T) => Within(T, S)
<1> DEFINE f == [n \in S |-> CHOOSE m \in T : m.at = n.at]
<1>1. \A n \in S : f[n] \in T /\ f[n].at = n.at
  BY DEF Within
<1>2. f \in [S -> T]
  BY <1>1
<1> HIDE DEF f
<1>3. f \in Injection(S, T)
  BY <1>1, <1>2 DEF Injection, IsInjective
<1>4. /\ Cardinality(S) <= Cardinality(T)
      /\ Cardinality(S) = Cardinality(T) => f \in Surjection(S, T)
  BY <1>3, FS_Injection
<1>5. f \in Surjection(S, T) => Within(T, S)
  BY <1>1 DEF Surjection, Within
<1> QED BY <1>4, <1>5
----------------------------------------------------------------------------
(***************************************************************************)
(* Turning the pages: what was there when the client began has been seen,  *)
(* or is still further on.                                                 *)
(***************************************************************************)
Place(u, a) == Cardinality({m \in Inbox(u) : m.at >= a})

(* How many notifications the pages that have been shown take up. *)
Turned(p) == IF pc[p] = "slice" THEN (loc[p].page - 1) * Limit ELSE loc[p].page * Limit

WalkOK(p) ==
    pc[p] \in Walking /\ ~loc[p].torn =>
       \A n \in Inbox(loc[p].user) : n.at \in loc[p].first =>
          n.at \in loc[p].seen \/ (pc[p] # "walked" /\ Place(loc[p].user, n.at) > Turned(p))

WalksOK == \A p \in Procs : WalkOK(p)

LEMMA PlaceFinite ==
    ASSUME Tables, NEW u, NEW a
    PROVE  /\ IsFiniteSet({m \in Inbox(u) : m.at >= a})
           /\ Place(u, a) \in Nat /\ Place(u, a) <= Cardinality(Inbox(u))
<1>1. {m \in Inbox(u) : m.at >= a} \subseteq Inbox(u)
  OBVIOUS
<1> QED BY <1>1, InboxFinite, FS_Subset, FS_CardinalityType DEF Place

LEMMA PlaceGrows ==
    ASSUME Typed, Typed', Apart, NotesMove, NEW u \in users', NEW a
    PROVE  Place(u, a) <= Place(u, a)'
<1> DEFINE S == {m \in Inbox(u) : m.at >= a}
<1>1. IsFiniteSet(S')
  <2>1. S' \subseteq notes'
    BY DEF Inbox
  <2> QED BY <2>1, PartOfFinite DEF Typed, Tables
<1>2. Within(S, S')
  BY DEF Within, NotesMove, Keeps, Same, Inbox
<1>3. \A n, m \in S : n.at = m.at => n = m
  BY DEF Apart, Inbox
<1>4. PICK T : T = S'
  OBVIOUS
<1>5. Cardinality(S) <= Cardinality(T)
  BY <1>1, <1>2, <1>3, <1>4, Injects DEF Within
<1> QED BY <1>4, <1>5 DEF Place

(* A request that does not move, whatever the others do. *)
LEMMA WalkWaits ==
    ASSUME Typed, Typed', Tickets, NotesMove, NEW p \in Procs, WalkOK(p),
           pc'[p] = pc[p], loc'[p] = loc[p]
    PROVE  WalkOK(p)'
<1> DEFINE u == loc[p].user
<1> SUFFICES ASSUME pc[p] \in Walking, ~loc[p].torn,
                    NEW m \in notes', m.user = u, m.at \in loc[p].first
             PROVE  \/ m.at \in loc[p].seen
                    \/ pc[p] # "walked" /\ Place(u, m.at)' > Turned(p)
  <2>1. Turned(p)' = Turned(p) /\ Inbox(u)' = {m \in notes' : m.user = u}
    BY DEF Turned, Inbox
  <2> QED BY <2>1 DEF WalkOK, Place, Inbox
<1>1. loc[p] \in WalkHand
  BY DEF Typed, Hands, HandOK
<1>2. Old(m)
  <2>1. CASE NewAlert(m)
    BY <2>1 DEF NewAlert, Tickets, HandTickets, Unused
  <2>2. CASE NewDigest(m)
    <3>1. PICK k \in Kinds : OnSend(k) /\ m = Letter(k)
      BY <2>2 DEF NewDigest
    <3>2. m.at = job[k].at /\ job[k].at # None
      BY <3>1, LetterTyped, DigestsAssumption
    <3> QED BY <3>2 DEF Tickets, JobTickets, Unused
  <2> QED BY <2>1, <2>2 DEF NotesMove
<1>3. PICK n \in notes : Same(n, m)
  BY <1>2 DEF Old
<1>4. n \in Inbox(u) /\ n.at = m.at
  BY <1>3 DEF Same, Inbox
<1>5. u \in users'
  BY DEF Typed, References
<1>6. Place(u, m.at) <= Place(u, m.at)'
  BY <1>5, PlaceGrows DEF Tickets
<1>7. Place(u, m.at) \in Nat /\ Place(u, m.at)' \in Nat
  <2>1. Place(u, m.at)' \in Nat
    <3>1. {x \in Inbox(u) : x.at >= m.at}' \subseteq notes'
      BY DEF Inbox
    <3> QED BY <3>1, PartOfFinite DEF Typed, Tables, Place
  <2> QED BY <2>1, PlaceFinite DEF Typed
<1>8. Turned(p) \in Nat
  BY <1>1, NotificationsAssumption DEF Turned, WalkHand
<1> QED BY <1>4, <1>6, <1>7, <1>8 DEF WalkOK

LEMMA StartWalk ==
    ASSUME Typed, NEW p \in Procs, NEW u \in Users, WalkStart(p, u)
    PROVE  WalkOK(p)'
<1>1. /\ pc'[p] = "slice"
      /\ loc'[p] = [user |-> u, page |-> 1, total |-> Cardinality(Inbox(u)), seen |-> {},
                    first |-> {n.at : n \in Inbox(u)}, torn |-> FALSE]
  BY Moving DEF Typed, Hands, WalkStart, Moves
<1>2. notes' = notes
  BY DEF WalkStart, noticeVars
<1>3. ASSUME NEW n \in Inbox(u) PROVE Place(u, n.at) > 0
  <2>1. n \in {m \in Inbox(u) : m.at >= n.at}
    BY <1>3, NoteAt DEF Typed, Inbox
  <2>2. IsFiniteSet({m \in Inbox(u) : m.at >= n.at}) /\ Place(u, n.at) \in Nat
    BY PlaceFinite DEF Typed
  <2>3. Place(u, n.at) # 0
    BY <2>1, <2>2, FS_EmptySet DEF Place
  <2> QED BY <2>2, <2>3
<1>4. (1 - 1) * Limit = 0
  BY NotificationsAssumption
<1> QED BY <1>1, <1>2, <1>3, <1>4 DEF WalkOK, Turned, Inbox, Place, Walking

LEMMA SliceWalk ==
    ASSUME Typed, NEW p \in Procs, WalkOK(p), WalkSlice(p)
    PROVE  WalkOK(p)'
<1> DEFINE u == loc[p].user
           k == loc[p].page
           total == loc[p].total
           seen == loc[p].seen \cup {n.at : n \in Page(u, k)}
           torn == loc[p].torn \/ total # Cardinality(Inbox(u))
           step == IF More(k, total) THEN "next" ELSE "walked"
<1>1. loc[p] \in WalkHand /\ pc[p] = "slice"
  BY DEF Typed, Hands, HandOK, WalkSlice, Walking
<1>2. /\ pc'[p] = step /\ loc'[p] = [loc[p] EXCEPT !.seen = seen, !.torn = torn]
      /\ notes' = notes
  BY Moving DEF Typed, Hands, WalkSlice, Moves, noticeVars
<1>3. /\ loc'[p].user = u /\ loc'[p].page = k /\ loc'[p].first = loc[p].first
      /\ loc'[p].seen = seen /\ loc'[p].torn = torn
  BY <1>1, <1>2 DEF WalkHand
<1>4. k \in Nat \ {0} /\ total \in Nat /\ Limit \in Nat \ {0}
  BY <1>1, NotificationsAssumption DEF WalkHand
<1> SUFFICES ASSUME ~torn, NEW n \in Inbox(u), n.at \in loc[p].first
             PROVE  n.at \in seen \/ (step # "walked" /\ Place(u, n.at) > k * Limit)
  <2>1. step \in {"next", "walked"}
    OBVIOUS
  <2> HIDE DEF step, seen, torn
  <2> QED BY <1>2, <1>3, <2>1 DEF WalkOK, Turned, Inbox, Place
<1>5. n.at \in loc[p].seen \/ Place(u, n.at) > (k - 1) * Limit
  BY <1>1 DEF WalkOK, Turned, Walking
<1>6. Place(u, n.at) \in Nat /\ Place(u, n.at) <= total
  BY PlaceFinite DEF Typed
<1>7. CASE Place(u, n.at) > k * Limit
  <2>1. k * Limit \in Nat
    BY <1>4
  <2>2. More(k, total)
    BY <1>4, <1>6, <1>7, <2>1 DEF More
  <2> QED BY <1>7, <2>2
<1>8. CASE ~(Place(u, n.at) > k * Limit)
  <2>1. CASE n.at \in loc[p].seen
    BY <2>1
  <2>2. CASE Place(u, n.at) > (k - 1) * Limit
    <3>1. k * Limit \in Nat /\ (k - 1) * Limit \in Nat
      BY <1>4
    <3>2. n \in Page(u, k)
      BY <1>6, <1>8, <2>2, <3>1 DEF Page, Rank, Place
    <3> QED BY <3>2
  <2> QED BY <1>5, <2>1, <2>2
<1> QED BY <1>7, <1>8

LEMMA NextWalk ==
    ASSUME Typed, NEW p \in Procs, WalkOK(p), WalkNext(p)
    PROVE  WalkOK(p)'
<1> DEFINE u == loc[p].user
           k == loc[p].page
           total == Cardinality(Inbox(u))
<1>1. loc[p] \in WalkHand /\ pc[p] = "next"
  BY DEF Typed, Hands, HandOK, WalkNext, Walking
<1>2. /\ pc'[p] = "slice" /\ loc'[p] = [loc[p] EXCEPT !.page = k + 1, !.total = total]
      /\ notes' = notes
  BY Moving DEF Typed, Hands, WalkNext, Moves, noticeVars
<1>3. /\ loc'[p].user = u /\ loc'[p].page = k + 1 /\ loc'[p].first = loc[p].first
      /\ loc'[p].seen = loc[p].seen /\ loc'[p].torn = loc[p].torn
  BY <1>1, <1>2 DEF WalkHand
<1>4. (k + 1) - 1 = k
  BY <1>1 DEF WalkHand
<1> QED BY <1>1, <1>2, <1>3, <1>4 DEF WalkOK, Turned, Inbox, Place, Walking

LEMMA NextWalks == Typed /\ Tickets /\ WalksOK /\ [DigestsNext]_vars => WalksOK'
<1> SUFFICES ASSUME Typed, Tickets, WalksOK, [DigestsNext]_vars PROVE WalksOK'
  OBVIOUS
<1>1. NotesMove /\ Typed'
  BY NextMoves, NextTyped DEF TablesMove
<1>2. \A p \in Procs : pc'[p] = pc[p] /\ loc'[p] = loc[p] => WalkOK(p)'
  BY <1>1, WalkWaits DEF WalksOK
<1>3. ASSUME KeptHands PROVE WalksOK'
  BY <1>2, <1>3 DEF KeptHands, KeptHand, WalksOK, WalkOK
<1>4. ASSUME pc' = pc, loc' = loc PROVE WalksOK'
  BY <1>2, <1>4 DEF WalksOK
<1>5. ASSUME NEW p \in Procs, UNCHANGED <<badges, templates, origin>>,
             (\E u \in Users : WalkStart(p, u)) \/ WalkSlice(p) \/ WalkNext(p)
      PROVE  WalksOK'
  <2>1. \A q \in Procs \ {p} : WalkOK(q)'
    BY <1>2, <1>5, WalkFrame DEF Typed, Walks
  <2>2. WalkOK(p)'
    BY <1>5, StartWalk, SliceWalk, NextWalk DEF WalksOK
  <2> QED BY <2>1, <2>2 DEF WalksOK
<1>6. ASSUME NEW p \in Procs, NEW b \in Badges, Count(p, b) PROVE WalksOK'
  <2>1. pc'[p] = "alert" /\ \A q \in Procs \ {p} : pc'[q] = pc[q] /\ loc'[q] = loc[q]
    BY <1>6, CountTyped DEF Moves
  <2> QED BY <1>2, <2>1 DEF WalksOK, WalkOK, Walking
<1>7. ASSUME NEW u \in Users, \/ \E upd \in Updates : SavePreferences(u, upd)
                              \/ \E n \in notes : MarkRead(u, n)
                              \/ MarkAllRead(u)
      PROVE  WalksOK'
  BY <1>4, <1>7 DEF SavePreferences, MarkRead, MarkAllRead, AtOnce
<1>8. CASE ParticipationNext
  <2>1. CASE BlandNext
    BY <1>3, <2>1, BlandSteps DEF Bland
  <2>2. CASE ActiveNext
    BY <1>3, <1>5, <1>6, <1>7, <2>2, CreateCommitTyped, CountCommitTyped, CascadeTyped,
       DeleteTemplateTyped DEF ActiveNext
  <2> QED BY <1>8, <2>1, <2>2, TwoKinds
<1>9. ASSUME NEW k \in Kinds, JobStart(k) \/ JobStep(k) \/ JobCut(k) PROVE WalksOK'
  BY <1>4, <1>9, WorkSteps DEF Works, requestVars
<1>10. CASE UNCHANGED vars
  BY <1>4, <1>10 DEF vars
<1> QED BY <1>8, <1>9, <1>10 DEF DigestsNext

LEMMA InitWalks == DigestsInit => WalksOK
BY DEF DigestsInit, ParticipationInit, RequestsInit, WalksOK, WalkOK, Walking

(* The typed state is what the run checks. *)
LEMMA TypedIsTypeOK == Typed /\ Tickets => DigestsTypeOK
BY DEF Typed, Tables, References, Jobs, JobOK, Tickets, Apart, Dated, DigestsTypeOK,
       Note, AlertNote, DigestNote

LEMMA WalksSee == Typed /\ WalksOK => WalkSeesAll
BY DEF WalksOK, WalkOK, WalkSeesAll, Walking, Inbox

(* In every reachable state the tables have their types, the foreign keys   *)
(* hold and created_at tells notifications apart.                           *)
THEOREM DigestsTypeCorrect == DigestsSpec => []DigestsTypeOK
<1>1. DigestsInit => Typed /\ Tickets
  BY InitTyped, InitTickets
<1>2. (Typed /\ Tickets) /\ [DigestsNext]_vars => (Typed /\ Tickets)'
  BY NextTyped, NextTickets
<1>3. Typed /\ Tickets => DigestsTypeOK
  BY TypedIsTypeOK
<1> QED BY <1>1, <1>2, <1>3, PTL DEF DigestsSpec

(* A client that follows the next links to the end of list_notifications    *)
(* has been shown every notification that there was when it began, unless   *)
(* one was inserted between the count and the select of one page.           *)
THEOREM PagesShowAll == DigestsSpec => []WalkSeesAll
<1> DEFINE Inv == Typed /\ Tickets /\ WalksOK
<1>1. DigestsInit => Inv
  BY InitTyped, InitTickets, InitWalks
<1>2. Inv /\ [DigestsNext]_vars => Inv'
  BY NextTyped, NextTickets, NextWalks
<1>3. Inv => WalkSeesAll
  BY WalksSee
<1> QED BY <1>1, <1>2, <1>3, PTL DEF DigestsSpec
----------------------------------------------------------------------------
(***************************************************************************)
(* The creations of an organiser only grow in number; while their number   *)
(* stays, so does that of each day.                                        *)
(***************************************************************************)
HowMany(u, k, day) == Cardinality(Creations(u, Days(k, day)))
OnDay(u, day, d) == Cardinality({m \in Creations(u, Days("weekly", day)) : m.day = d})

LEMMA CreationsMove ==
    ASSUME Typed, Typed', Tickets, Tickets', NotesMove, NEW u \in users', NEW S
    PROVE  /\ Cardinality(Creations(u, S)) <= Cardinality(Creations(u, S))'
           /\ Cardinality(Creations(u, S)) = Cardinality(Creations(u, S))' =>
                \A d : Cardinality({m \in Creations(u, S) : m.day = d})
                     = Cardinality({m \in Creations(u, S) : m.day = d})'
<1> DEFINE C == Creations(u, S)
           ofDay(d) == {m \in C : m.day = d}
<1>1. PICK C2 : C2 = C'
  OBVIOUS
<1>2. C2 = {m \in notes' : m.user = u /\ m.type = "alert" /\ m.day \in S}
  BY <1>1 DEF Creations, Inbox
<1>3. C = {n \in notes : n.user = u /\ n.type = "alert" /\ n.day \in S}
  BY DEF Creations, Inbox
<1>4. IsFiniteSet(C) /\ IsFiniteSet(C2)
  BY <1>2, <1>3, PartOfFinite DEF Typed, Tables
<1>5. \A n \in C : \E m \in C2 : m.at = n.at /\ m.day = n.day
  BY <1>2, <1>3 DEF NotesMove, Keeps, Same
<1>6. /\ \A n, m \in C : n.at = m.at => n = m
      /\ \A n, m \in C2 : n.at = m.at => n = m
  BY <1>2, <1>3 DEF Tickets, Apart
<1> HIDE DEF C
<1>7. /\ Cardinality(C) <= Cardinality(C2)
      /\ Cardinality(C) = Cardinality(C2) => Within(C2, C)
  BY <1>4, <1>5, <1>6, Injects DEF Within
<1>8. ASSUME Within(C2, C), NEW d
      PROVE  Cardinality({m \in C : m.day = d}) = Cardinality({m \in C2 : m.day = d})
  <2> DEFINE A == {m \in C : m.day = d}
             B == {m \in C2 : m.day = d}
  <2>1. IsFiniteSet(A) /\ IsFiniteSet(B)
    BY <1>4, PartOfFinite
  <2>2. Within(A, B)
    BY <1>5 DEF Within
  <2>3. Within(B, A)
    BY <1>5, <1>6, <1>8 DEF Within
  <2>4. Cardinality(A) <= Cardinality(B) /\ Cardinality(B) <= Cardinality(A)
    <3>1. (\A n, m \in A : n.at = m.at => n = m) /\ (\A n, m \in B : n.at = m.at => n = m)
      BY <1>6
    <3> HIDE DEF A, B
    <3> QED BY <2>1, <2>2, <2>3, <3>1, Injects
  <2>5. Cardinality(A) \in Nat /\ Cardinality(B) \in Nat
    BY <2>1, FS_CardinalityType
  <2> HIDE DEF A, B
  <2>6. Cardinality(A) = Cardinality(B)
    BY <2>4, <2>5
  <2> QED BY <2>6 DEF A, B
<1>9. \A d : {m \in Creations(u, S) : m.day = d}' = {m \in C2 : m.day = d}
  BY <1>1 DEF C
<1> QED BY <1>1, <1>7, <1>8, <1>9 DEF C
----------------------------------------------------------------------------
(***************************************************************************)
(* One digest a period.  Whom a run may still serve has none of its day.   *)
(***************************************************************************)
Todo(k) ==
    IF job[k].pc \in {"owners", "targets", "counts"} THEN Users
    ELSE IF job[k].pc \in Iterating THEN job[k].left ELSE {}

Letters == {n \in notes : n.type \in Kinds}

LettersDated ==
    \A n \in Letters : job[n.type].day # None /\ n.period <= job[n.type].day
JobsDated == \A k \in Kinds : job[k].day # None => job[k].day <= Today
Unserved == \A k \in Kinds : \A u \in Todo(k) : Sent(u, k, job[k].day) = {}
OneEach ==
    \A n, m \in Letters : n.user = m.user /\ n.type = m.type /\ n.period = m.period => n = m
Sundays ==
    /\ Running("weekly") => Sunday(job["weekly"].day)
    /\ \A n \in Letters : n.type = "weekly" => Sunday(n.period)

Once == LettersDated /\ JobsDated /\ Unserved /\ OneEach /\ Sundays

LEMMA DaysPass ==
    ASSUME Typed, Typed', clock <= clock'
    PROVE  Today <= Today' /\ Today \in Nat /\ Today' \in Nat
<1>1. \A a, b \in Nat : a <= b => a \div 2 <= b \div 2 /\ a \div 2 \in Nat /\ b \div 2 \in Nat
  OBVIOUS
<1>2. clock \in Nat /\ clock' \in Nat
  BY DEF Typed, Tables
<1>3. Today = clock \div 2 /\ Today' = clock' \div 2
  BY DEF Today
<1> QED BY ONLY clock <= clock', <1>1, <1>2, <1>3

LEMMA LetterFields ==
    ASSUME Typed, NEW n \in Letters
    PROVE  /\ n \in DigestNote /\ n.period \in Nat /\ n.count \in Nat /\ n.type \in Kinds
           /\ n.user \in users
BY DEF Letters, Typed, Tables, References, Note, AlertNote, DigestNote, Kinds

LEMMA OldLetter ==
    ASSUME NEW m, m.type \in Kinds, Old(m)
    PROVE  \E n \in Letters : Same(n, m) /\ n.user = m.user /\ n.type = m.type /\ n.at = m.at
                              /\ n.period = m.period /\ n.count = m.count /\ n.top = m.top
BY DEF Old, Same, Letters

LEMMA AlertsAreNoLetters == \A m : NewAlert(m) => m.type \notin Kinds
BY DEF NewAlert, AlertNote, Kinds

(* A step of the requests. *)
LEMMA OnceRequests ==
    ASSUME Typed, Typed', Tickets', Once, NotesMove, clock <= clock', job' = job
    PROVE  Once'
<1>1. \A m \in notes' : m.type \in Kinds => Old(m)
  <2>1. \A m : NewDigest(m) => FALSE
    <3> SUFFICES ASSUME NEW k \in Kinds, Works(k), OnSend(k) PROVE FALSE
      BY DEF NewDigest
    <3>1. job'[k].pc = "each" /\ job[k].pc = "send"
      BY DEF OnSend
    <3> QED BY <3>1
  <2> QED BY <2>1, AlertsAreNoLetters DEF NotesMove
<1>2. \A m \in Letters' : \E n \in Letters : /\ n.user = m.user /\ n.type = m.type /\ n.at = m.at
                                             /\ n.period = m.period
  BY <1>1, OldLetter DEF Letters
<1>3. LettersDated' /\ Sundays'
  BY <1>2 DEF Once, LettersDated, Sundays, Sunday, Running
<1>4. JobsDated'
  <2>1. \A k \in Kinds : job[k].day \in Nat \cup {None}
    BY DEF Typed, Jobs, JobOK
  <2> QED BY <2>1, DaysPass DEF Once, JobsDated
<1>5. Unserved'
  <2> SUFFICES ASSUME NEW k \in Kinds, NEW u \in Todo(k), NEW m \in notes',
                      m.user = u, m.type = k, m.period = job[k].day
               PROVE  FALSE
    BY DEF Unserved, Todo, Sent, Inbox
  <2>1. PICK n \in Letters : n.user = m.user /\ n.type = m.type /\ n.period = m.period
    BY <1>2 DEF Letters
  <2> QED BY <2>1 DEF Once, Unserved, Sent, Inbox, Letters
<1>6. OneEach'
  <2> SUFFICES ASSUME NEW n \in Letters', NEW m \in Letters',
                      n.user = m.user, n.type = m.type, n.period = m.period
               PROVE  n = m
    BY DEF OneEach, Letters
  <2>1. n.at = m.at
    BY <1>2 DEF Once, OneEach
  <2> QED BY <2>1 DEF Tickets, Apart, Letters
<1> QED BY <1>3, <1>4, <1>5, <1>6 DEF Once

LEMMA WorkTodo ==
    ASSUME Typed, NEW k \in Kinds, Works(k), ~OnStart(k)
    PROVE  /\ job'[k].day = job[k].day /\ Todo(k)' \subseteq Todo(k)
           /\ Running(k) /\ job[k].day \in Nat
           /\ OnSend(k) => job[k].who \in Todo(k) /\ job[k].who \notin Todo(k)'
<1>1. job[k].left \subseteq Users
  BY DEF Typed, Jobs, JobOK
<1>2. CASE OnOwners(k) \/ OnTargets(k) \/ OnDone(k)
  BY <1>2 DEF OnOwners, OnTargets, OnDone, OnSend, KeepsRun, Todo, Iterating, Running, Typed, Jobs, JobOK
<1>3. CASE OnCounts(k)
  BY <1>1, <1>3 DEF OnCounts, OnSend, KeepsRun, Todo, Iterating, Running, Typed, Jobs, JobOK
<1>4. ASSUME NEW u \in Users, NEW top, OnLook(k, u, top)
      PROVE  /\ job'[k].day = job[k].day /\ Todo(k)' \subseteq Todo(k)
             /\ Running(k) /\ ~OnSend(k)
  BY <1>1, <1>4 DEF OnLook, OnAsk, OnSkip, Begins, OnSend, KeepsRun, Todo, Iterating, Running
<1>5. ASSUME NEW u \in Users, k = "weekly", OnPerDay(u)
      PROVE  /\ job'[k].day = job[k].day /\ Todo(k)' \subseteq Todo(k)
             /\ Running(k) /\ ~OnSend(k)
  BY <1>5 DEF OnPerDay, Begins, OnSend, KeepsRun, Todo, Iterating, Running
<1>6. CASE OnSend(k)
  BY <1>6 DEF OnSend, KeepsRun, Todo, Iterating, Running, Typed, Jobs, JobOK
<1>7. CASE OnEnd(k)
  BY <1>7 DEF OnEnd, OnSend, Rests, Todo, Iterating, Running, Typed, Jobs, JobOK
<1>8. Running(k) => job[k].day \in Nat
  BY DEF Typed, Jobs, JobOK
<1> QED BY <1>2, <1>3, <1>4, <1>5, <1>6, <1>7, <1>8 DEF Works

LEMMA OnceWork ==
    ASSUME Typed, Typed', Tickets', Once, NotesMove, NEW k \in Kinds, Works(k)
    PROVE  Once'
<1>1. Today' = Today /\ Today \in Nat
  BY DEF Works, Today, Typed, Tables
<1>2. \A j \in Kinds \ {k} : job'[j] = job[j]
  BY DEF Works
<1>3. \A j \in Kinds : job[j].day \in Nat \cup {None}
  BY DEF Typed, Jobs, JobOK
<1>4. CASE OnStart(k)
  <2>1. notes' = notes /\ Letters' = Letters /\ job'[k].day = Today /\ job'[k].pc = "owners"
    BY <1>4 DEF OnStart, Letters
  <2>2. \A n \in Letters : n.type = k => n.period < Today
    <3> SUFFICES ASSUME NEW n \in Letters, n.type = k PROVE n.period < Today
      OBVIOUS
    <3>1. job[k].day # None /\ n.period <= job[k].day /\ job[k].day <= Today /\ job[k].day # Today
      BY <1>4 DEF Once, LettersDated, JobsDated, OnStart
    <3>2. n.period \in Nat /\ job[k].day \in Nat
      BY <1>3, <3>1, LetterFields
    <3> QED BY <1>1, <3>1, <3>2
  <2>3. \A n \in Letters : n.period \in Nat
    BY LetterFields
  <2>4. LettersDated'
    BY <1>1, <1>2, <2>1, <2>2, <2>3, DigestsAssumption DEF Once, LettersDated, Letters
  <2>5. JobsDated'
    BY <1>1, <1>2, <2>1 DEF Once, JobsDated
  <2>6. Unserved'
    <3> SUFFICES ASSUME NEW j \in Kinds, NEW u \in Todo(j)', NEW n \in notes,
                        n.user = u, n.type = j, n.period = job'[j].day
                 PROVE  FALSE
      BY <2>1 DEF Unserved, Sent, Inbox
    <3>1. n \in Letters
      BY DEF Letters
    <3>2. CASE j = k
      BY <1>1, <2>1, <2>2, <2>3, <3>1, <3>2
    <3>3. CASE j # k
      BY <1>2, <3>1, <3>3 DEF Once, Unserved, Todo, Sent, Inbox
    <3> QED BY <3>2, <3>3
  <2>7. Sundays'
    <3>1. Running("weekly")' => Sunday(job'["weekly"].day)
      <4>1. CASE k = "weekly"
        BY <1>4, <2>1, <4>1 DEF OnStart
      <4>2. CASE k # "weekly"
        BY <1>2, <4>2 DEF Once, Sundays, Running, Kinds
      <4> QED BY <4>1, <4>2
    <3> QED BY <2>1, <3>1 DEF Once, Sundays, Sunday
  <2> QED BY <2>1, <2>4, <2>5, <2>6, <2>7 DEF Once, OneEach
<1>5. CASE ~OnStart(k)
  <2>1. /\ job'[k].day = job[k].day /\ Todo(k)' \subseteq Todo(k)
        /\ Running(k) /\ job[k].day \in Nat
        /\ OnSend(k) => job[k].who \in Todo(k) /\ job[k].who \notin Todo(k)'
    BY <1>5, WorkTodo
  <2>2. \A m \in Letters' : \/ \E n \in Letters : /\ n.user = m.user /\ n.type = m.type
                                                  /\ n.at = m.at /\ n.period = m.period
                            \/ OnSend(k) /\ m = Letter(k)
    <3> SUFFICES ASSUME NEW m \in Letters', ~(OnSend(k) /\ m = Letter(k))
                 PROVE  \E n \in Letters : /\ n.user = m.user /\ n.type = m.type
                                           /\ n.at = m.at /\ n.period = m.period
      OBVIOUS
    <3>1. ~NewAlert(m) /\ m \in notes' /\ m.type \in Kinds
      BY AlertsAreNoLetters DEF Letters
    <3>2. ~NewDigest(m)
      <4>1. \A j \in Kinds \ {k} : ~OnSend(j)
        BY <1>2 DEF OnSend
      <4> QED BY <4>1 DEF NewDigest
    <3> QED BY <3>1, <3>2, OldLetter DEF NotesMove
  <2>3. OnSend(k) => /\ Letter(k).user = job[k].who /\ Letter(k).type = k
                     /\ Letter(k).period = job[k].day
    BY LetterTyped
  <2>4. LettersDated'
    <3> SUFFICES ASSUME NEW m \in Letters'
                 PROVE  job'[m.type].day # None /\ m.period <= job'[m.type].day
      BY DEF LettersDated
    <3>1. ASSUME NEW n \in Letters, n.type = m.type, n.period = m.period
          PROVE  job'[m.type].day # None /\ m.period <= job'[m.type].day
      <4>1. job'[n.type].day = job[n.type].day
        BY <1>2, <2>1, <3>1 DEF Letters
      <4> QED BY <3>1, <4>1 DEF Once, LettersDated
    <3>2. ASSUME OnSend(k), m = Letter(k)
          PROVE  job'[m.type].day # None /\ m.period <= job'[m.type].day
      BY <2>1, <2>3, <3>2, DigestsAssumption
    <3> QED BY <2>2, <3>1, <3>2
  <2>5. JobsDated'
    BY <1>1, <1>2, <2>1 DEF Once, JobsDated
  <2>6. Unserved'
    <3> SUFFICES ASSUME NEW j \in Kinds, NEW u \in Todo(j)', NEW m \in notes',
                        m.user = u, m.type = j, m.period = job'[j].day
                 PROVE  FALSE
      BY DEF Unserved, Sent, Inbox
    <3>1. m \in Letters' /\ job'[j].day = job[j].day /\ u \in Todo(j)
      BY <1>2, <2>1 DEF Letters, Todo
    <3>2. ASSUME NEW n \in Letters, n.user = m.user, n.type = m.type, n.period = m.period
          PROVE  FALSE
      BY <3>1, <3>2 DEF Once, Unserved, Sent, Inbox, Letters
    <3>3. ASSUME OnSend(k), m = Letter(k) PROVE FALSE
      BY <2>1, <2>3, <3>3
    <3> QED BY <2>2, <3>1, <3>2, <3>3
  <2>7. OneEach'
    <3> SUFFICES ASSUME NEW n \in Letters', NEW m \in Letters',
                        n.user = m.user, n.type = m.type, n.period = m.period
                 PROVE  n.at = m.at
      BY DEF OneEach, Letters, Tickets, Apart
    <3>1. ASSUME NEW x \in Letters, OnSend(k), x.user = Letter(k).user,
                 x.type = Letter(k).type, x.period = Letter(k).period
          PROVE  FALSE
      BY <2>1, <2>3, <3>1 DEF Once, Unserved, Sent, Inbox, Letters
    <3> QED BY <2>2, <3>1 DEF Once, OneEach
  <2>8. Sundays'
    <3>1. Running("weekly")' => Sunday(job'["weekly"].day)
      <4>1. CASE k = "weekly"
        BY <2>1, <4>1 DEF Once, Sundays
      <4>2. CASE k # "weekly"
        BY <1>2, <4>2 DEF Once, Sundays, Running, Kinds
      <4> QED BY <4>1, <4>2
    <3>2. \A m \in Letters' : m.type = "weekly" => Sunday(m.period)
      BY <2>1, <2>2, <2>3 DEF Once, Sundays
    <3> QED BY <3>1, <3>2 DEF Sundays, Sunday
  <2> QED BY <2>4, <2>5, <2>6, <2>7, <2>8 DEF Once
<1> QED BY <1>4, <1>5
----------------------------------------------------------------------------
(***************************************************************************)
(* Honest digests.  What is counted is there, and the day that is named is *)
(* the busiest while nothing has been added.                               *)
(***************************************************************************)
Tops(u, day, top) ==
    \E i \in 1..7 : /\ top = WeekdayNames[i]
                    /\ \A j \in 1..7 : OnDay(u, day, day + j - 7) <= OnDay(u, day, day + i - 7)

Fair(u, k, day, c, top) ==
    /\ c <= HowMany(u, k, day)
    /\ k = "weekly" /\ c = HowMany(u, k, day) => Tops(u, day, top)

LettersHonest ==
    \A n \in Letters : 0 < n.count /\ Fair(n.user, n.type, n.period, n.count, n.top)

RunHonest(k) ==
    LET run == job[k] IN
    /\ run.pc \in Iterating => \A u \in run.left \cap users : run.counts[u] <= HowMany(u, k, run.day)
    /\ run.pc \in {"look", "send"} /\ run.who \in users =>
          Fair(run.who, k, run.day, run.counts[run.who], run.top)

Honest == LettersHonest /\ \A k \in Kinds : RunHonest(k)

LEMMA FairStays ==
    ASSUME Typed, Typed', Tickets, Tickets', NotesMove, NEW u \in users', NEW k \in Kinds,
           NEW day, NEW c \in Nat, NEW top
    PROVE  /\ c <= HowMany(u, k, day) => c <= HowMany(u, k, day)'
           /\ Fair(u, k, day, c, top) => Fair(u, k, day, c, top)'
<1>1. /\ HowMany(u, k, day) <= HowMany(u, k, day)'
      /\ HowMany(u, k, day) = HowMany(u, k, day)' =>
           \A d : Cardinality({m \in Creations(u, Days(k, day)) : m.day = d})
                = Cardinality({m \in Creations(u, Days(k, day)) : m.day = d})'
  <2>1. PICK S : S = Days(k, day)
    OBVIOUS
  <2> QED BY <2>1, CreationsMove DEF HowMany
<1>2. HowMany(u, k, day) \in Nat /\ HowMany(u, k, day)' \in Nat
  <2>1. HowMany(u, k, day) \in Nat
    BY CreationsFinite DEF HowMany, Typed
  <2>2. HowMany(u, k, day)' \in Nat
    <3>1. Creations(u, Days(k, day))' \subseteq notes' /\ IsFiniteSet(notes')
      BY DEF Creations, Inbox, Typed, Tables
    <3> QED BY <3>1, PartOfFinite DEF HowMany
  <2> QED BY <2>1, <2>2
<1>3. c <= HowMany(u, k, day) => c <= HowMany(u, k, day)'
  BY <1>1, <1>2
<1>4. ASSUME Fair(u, k, day, c, top), k = "weekly", c = HowMany(u, k, day)'
      PROVE  Tops(u, day, top)'
  <2>1. c = HowMany(u, k, day) /\ HowMany(u, k, day) = HowMany(u, k, day)'
    BY <1>1, <1>2, <1>4 DEF Fair
  <2>2. Tops(u, day, top)
    BY <1>4, <2>1 DEF Fair
  <2>3. \A d : OnDay(u, day, d)' = OnDay(u, day, d)
    BY <1>1, <1>4, <2>1 DEF OnDay
  <2> QED BY <2>2, <2>3 DEF Tops
<1> QED BY <1>3, <1>4 DEF Fair

LEMMA WeekDay ==
    ASSUME NEW day \in Nat, day % 7 = 0, NEW d \in Nat, d <= day, day - 7 < d, NEW i \in 1..7
    PROVE  d = day + i - 7 <=> d % 7 = i % 7
OBVIOUS

LEMMA PerDayTops ==
    ASSUME Typed, NEW u \in Users, NEW day \in Nat, Sunday(day)
    PROVE  Tops(u, day, NameOf(TopDow(u, day)))
<1> DEFINE w == TopDow(u, day)
<1>1. w \in 0..6 /\ \A x \in 0..6 : On(u, day, x) <= On(u, day, w)
  BY TopDowBusiest DEF Typed
<1>2. PICK i \in 1..7 : NameOf(w) = WeekdayNames[i] /\ i % 7 = w
  <2> HIDE DEF w
  <2> QED BY <1>1, NameOfIs
<1>3. ASSUME NEW j \in 1..7 PROVE OnDay(u, day, day + j - 7) = On(u, day, j % 7) /\ j % 7 \in 0..6
  <2>1. ASSUME NEW n \in Creations(u, Days("weekly", day))
        PROVE  n.day = day + j - 7 <=> n.day % 7 = j % 7
    <3>1. n.day \in Nat /\ n.day <= day /\ day - 7 < n.day
      BY <2>1 DEF Creations, Days
    <3> QED BY <3>1, WeekDay DEF Sunday
  <2>2. {n \in Creations(u, Days("weekly", day)) : n.day = day + j - 7}
      = {n \in Creations(u, Days("weekly", day)) : n.day % 7 = j % 7}
    BY <2>1
  <2>3. OnDay(u, day, day + j - 7) = On(u, day, j % 7)
    BY ONLY <2>2 DEF OnDay, On
  <2>4. j % 7 \in 0..6
    OBVIOUS
  <2> QED BY <2>3, <2>4
<1> HIDE DEF w
<1>4. \A j \in 1..7 : OnDay(u, day, day + j - 7) <= OnDay(u, day, day + i - 7)
  BY <1>1, <1>2, <1>3
<1> QED BY <1>2, <1>4 DEF Tops, w

LEMMA LettersStayHonest ==
    ASSUME Typed, Typed', Tickets, Tickets', NotesMove, Honest,
           NEW m \in Letters', Old(m)
    PROVE  0 < m.count /\ Fair(m.user, m.type, m.period, m.count, m.top)'
<1>1. PICK n \in Letters : /\ n.user = m.user /\ n.type = m.type /\ n.at = m.at
                           /\ n.period = m.period /\ n.count = m.count /\ n.top = m.top
  BY OldLetter DEF Letters
<1>2. n.count \in Nat /\ n.type \in Kinds
  BY LetterFields
<1>3. n.user \in users'
  BY <1>1 DEF Letters, Typed, References
<1>4. Fair(n.user, n.type, n.period, n.count, n.top)'
  BY <1>2, <1>3, FairStays DEF Honest, LettersHonest
<1> QED BY <1>1, <1>4 DEF Honest, LettersHonest

LEMMA RunStaysHonest ==
    ASSUME Typed, Typed', Tickets, Tickets', NotesMove, Honest, NEW k \in Kinds,
           job'[k] = job[k]
    PROVE  RunHonest(k)'
<1> DEFINE run == job[k]
<1>1. ASSUME run.pc \in Iterating, NEW u \in run.left, u \in users'
      PROVE  run.counts[u] <= HowMany(u, k, run.day)'
  <2>1. PICK c, day : c \in Nat /\ c = run.counts[u] /\ day = run.day
    BY <1>1 DEF Typed, Jobs, JobOK
  <2>2. u \in users /\ c <= HowMany(u, k, day)
    BY <1>1, <2>1 DEF NotesMove, Honest, RunHonest
  <2>3. c <= HowMany(u, k, day)'
    BY <1>1, <2>1, <2>2, FairStays
  <2> QED BY <2>1, <2>3 DEF HowMany, Creations
<1>2. ASSUME run.pc \in {"look", "send"}, run.who \in users'
      PROVE  Fair(run.who, k, run.day, run.counts[run.who], run.top)'
  <2>1. run.counts[run.who] \in Nat
    BY <1>2 DEF Typed, Jobs, JobOK, Iterating
  <2>2. PICK u, day, c, top :
           u = run.who /\ day = run.day /\ c = run.counts[run.who] /\ top = run.top
    OBVIOUS
  <2>3. Fair(u, k, day, c, top) /\ c \in Nat /\ u \in users'
    BY <1>2, <2>1, <2>2 DEF NotesMove, Honest, RunHonest
  <2>4. Fair(u, k, day, c, top)'
    BY <2>3, FairStays
  <2> QED BY <2>2, <2>4
<1> QED BY <1>1, <1>2 DEF RunHonest

LEMMA HonestRequests ==
    ASSUME Typed, Typed', Tickets, Tickets', NotesMove, Honest, job' = job
    PROVE  Honest'
<1>1. \A m \in Letters' : Old(m)
  <2>1. \A m : ~NewDigest(m)
    <3> SUFFICES ASSUME NEW k \in Kinds, OnSend(k) PROVE FALSE
      BY DEF NewDigest
    <3>1. job'[k].pc = "each" /\ job[k].pc = "send"
      BY DEF OnSend
    <3> QED BY <3>1
  <2> QED BY <2>1, AlertsAreNoLetters DEF NotesMove, Letters
<1>2. LettersHonest'
  BY <1>1, LettersStayHonest DEF LettersHonest
<1>3. \A k \in Kinds : RunHonest(k)'
  BY RunStaysHonest
<1> QED BY <1>2, <1>3 DEF Honest

LEMMA WorkHonest ==
    ASSUME Typed, Typed', Tickets, Tickets', NotesMove, Once, Honest, NEW k \in Kinds, Works(k)
    PROVE  RunHonest(k)'
<1>1. users' = users
  BY DEF Works
<1>2. JobOK(k) /\ RunHonest(k) /\ users \subseteq Users
  BY DEF Typed, Jobs, Honest, Tables
<1>3. CASE job'[k].pc \notin Iterating
  BY <1>3 DEF RunHonest, Iterating
<1>4. CASE OnStart(k) \/ OnOwners(k) \/ OnTargets(k) \/ OnDone(k) \/ OnEnd(k)
  BY <1>3, <1>4 DEF OnStart, OnOwners, OnTargets, OnDone, OnEnd, Rests, Iterating
<1>5. CASE OnCounts(k)
  <2>1. notes' = notes /\ job'[k].pc = "each" /\ job'[k].day = job[k].day
    BY <1>5 DEF OnCounts, KeepsRun
  <2>2. \A u \in job'[k].left : job'[k].counts[u] = HowMany(u, k, job[k].day)
    BY <1>5 DEF OnCounts, HowMany
  <2>3. \A u : HowMany(u, k, job[k].day) \in Nat
    BY CreationsFinite DEF HowMany, Typed
  <2>4. \A u : HowMany(u, k, job[k].day)' = HowMany(u, k, job[k].day)
    BY <2>1 DEF HowMany, Creations, Inbox
  <2>5. \A u \in job'[k].left : job'[k].counts[u] <= HowMany(u, k, job[k].day)'
    BY <2>2, <2>3, <2>4
  <2> QED BY <2>1, <2>5 DEF RunHonest
<1>6. ASSUME Begins(k), job[k].pc \in Iterating, job'[k].left \subseteq job[k].left,
             job'[k].pc \in {"look", "send"} /\ job'[k].who \in users =>
                Fair(job'[k].who, k, job[k].day, job[k].counts[job'[k].who], job'[k].top)
      PROVE  RunHonest(k)'
  <2>1. /\ notes' = notes /\ job'[k].day = job[k].day /\ job'[k].counts = job[k].counts
    BY <1>6 DEF Begins, KeepsRun
  <2>2. \A u \in job'[k].left \cap users : job'[k].counts[u] <= HowMany(u, k, job[k].day)
    BY <1>2, <1>6, <2>1 DEF RunHonest
  <2>3. \A u \in job'[k].left \cap users' : job'[k].counts[u] <= HowMany(u, k, job[k].day)'
    BY <1>1, <2>1, <2>2 DEF HowMany, Creations, Inbox
  <2>4. ASSUME job'[k].pc \in {"look", "send"}, job'[k].who \in users'
        PROVE  Fair(job[k].who, k, job[k].day, job[k].counts[job[k].who], job[k].top)'
    <3>1. PICK u, c, day, top : /\ u = job'[k].who /\ c = job[k].counts[u] /\ day = job[k].day
                                /\ top = job'[k].top
      OBVIOUS
    <3>2. Fair(u, k, day, c, top)
      BY <1>1, <1>6, <2>4, <3>1
    <3>3. Fair(u, k, day, c, top)'
      BY <2>1, <3>2 DEF Fair, HowMany, Tops, OnDay, Creations, Inbox
    <3> QED BY <2>1, <3>1, <3>3
  <2> QED BY <2>1, <2>3, <2>4 DEF RunHonest, HowMany, Creations, Inbox
<1>7. ASSUME NEW u \in Users, NEW top, OnLook(k, u, top) PROVE RunHonest(k)'
  <2>1. job[k].pc \in Iterating /\ u \in job[k].left /\ Begins(k)
    BY <1>7 DEF OnLook, OnAsk, OnSkip, Iterating
  <2>2. ASSUME u \in users PROVE Fair(u, k, job[k].day, job[k].counts[u], top)
    BY <1>2, <1>7, <2>1, <2>2 DEF OnLook, RunHonest, Fair
  <2>3. CASE OnAsk(k, u, top)
    BY <1>6, <2>1, <2>2, <2>3 DEF OnAsk
  <2>4. CASE OnSkip(k, u)
    BY <1>6, <2>1, <2>4 DEF OnSkip
  <2> QED BY <1>7, <2>3, <2>4 DEF OnLook
<1>8. ASSUME NEW u \in Users, k = "weekly", OnPerDay(u) PROVE RunHonest(k)'
  <2>1. job[k].pc \in Iterating /\ u \in job[k].left /\ Begins(k) /\ Running(k)
    BY <1>8 DEF OnPerDay, Iterating, Running
  <2>2. Sunday(job[k].day) /\ job[k].day \in Nat
    BY <1>2, <1>8, <2>1 DEF Once, Sundays, JobOK
  <2>3. Tops(u, job[k].day, NameOf(TopDow(u, job[k].day)))
    BY <2>2, PerDayTops
  <2>4. u \in users => Fair(u, k, job[k].day, job[k].counts[u], NameOf(TopDow(u, job[k].day)))
    BY <1>2, <2>1, <2>3 DEF RunHonest, Fair
  <2> QED BY <1>6, <1>8, <2>1, <2>4 DEF OnPerDay
<1>9. CASE OnSend(k)
  <2>1. /\ job'[k].pc = "each" /\ job'[k].day = job[k].day /\ job'[k].counts = job[k].counts
        /\ job'[k].left \subseteq job[k].left /\ job[k].pc = "send"
    BY <1>9 DEF OnSend, KeepsRun
  <2>2. ASSUME NEW u \in job'[k].left, u \in users'
        PROVE  job'[k].counts[u] <= HowMany(u, k, job[k].day)'
    <3>1. PICK c, day : c \in Nat /\ c = job[k].counts[u] /\ day = job[k].day
      BY <1>2, <2>1, <2>2 DEF JobOK, Iterating
    <3>2. c <= HowMany(u, k, day)
      BY <1>1, <1>2, <2>1, <2>2, <3>1 DEF RunHonest, Iterating
    <3>3. c <= HowMany(u, k, day)'
      BY <2>2, <3>1, <3>2, FairStays
    <3> QED BY <2>1, <3>1, <3>3 DEF HowMany, Creations
  <2> QED BY <2>1, <2>2 DEF RunHonest, HowMany, Creations
<1> QED BY <1>4, <1>5, <1>7, <1>8, <1>9 DEF Works

LEMMA HonestWork ==
    ASSUME Typed, Typed', Tickets, Tickets', NotesMove, Once, Honest, NEW k \in Kinds, Works(k)
    PROVE  Honest'
<1>1. \A j \in Kinds : RunHonest(j)'
  BY RunStaysHonest, WorkHonest DEF Works
<1>2. ASSUME NEW m \in Letters'
      PROVE  0 < m.count /\ Fair(m.user, m.type, m.period, m.count, m.top)'
  <2>1. CASE Old(m)
    BY <2>1, LettersStayHonest
  <2>2. CASE OnSend(k) /\ m = Letter(k)
    <3>1. /\ m.user = job[k].who /\ m.type = k /\ m.period = job[k].day
          /\ m.count = job[k].counts[job[k].who] /\ m.top = job[k].top
          /\ job[k].who \in job[k].left
      BY <2>2, LetterTyped
    <3>2. m.user \in users' /\ m.user \in users
      BY <2>2, <3>1 DEF OnSend, Works
    <3>3. m.count \in Nat \ {0}
      BY <2>2, <3>1 DEF Typed, Jobs, JobOK, OnSend, Iterating
    <3>4. Fair(m.user, m.type, m.period, m.count, m.top)
      BY <2>2, <3>1, <3>2 DEF Honest, RunHonest, OnSend
    <3>5. Fair(m.user, k, m.period, m.count, m.top)'
      BY <3>1, <3>2, <3>3, <3>4, FairStays
    <3> QED BY <3>1, <3>3, <3>5
  <2>3. ~NewAlert(m)
    BY AlertsAreNoLetters DEF Letters
  <2>4. NewDigest(m) => OnSend(k) /\ m = Letter(k)
    <3>1. \A j \in Kinds \ {k} : ~OnSend(j)
      BY DEF OnSend, Works
    <3> QED BY <3>1 DEF NewDigest
  <2> QED BY <2>1, <2>2, <2>3, <2>4 DEF NotesMove, Letters
<1> QED BY <1>1, <1>2 DEF Honest, LettersHonest

LEMMA HonestDigests == Typed /\ Once /\ Honest => DigestsHonest
<1> SUFFICES ASSUME Typed, Once, Honest, NEW n \in notes, n.type \in Kinds
             PROVE  LET counted == Creations(n.user, Days(n.type, n.period))
                        busy(d) == Cardinality({m \in counted : m.day = d})
                    IN
                    /\ Sent(n.user, n.type, n.period) = {n}
                    /\ 0 < n.count /\ n.count <= Cardinality(counted)
                    /\ n.type = "weekly" /\ n.count = Cardinality(counted) =>
                          \E i \in 1..7 :
                             /\ n.top = WeekdayNames[i]
                             /\ \A j \in 1..7 : busy(n.period + j - 7) <= busy(n.period + i - 7)
  BY DEF DigestsHonest
<1>1. n \in Letters
  BY DEF Letters
<1>2. Sent(n.user, n.type, n.period) = {n}
  BY <1>1 DEF Sent, Inbox, Once, OneEach, Letters
<1>3. 0 < n.count /\ Fair(n.user, n.type, n.period, n.count, n.top)
  BY <1>1 DEF Honest, LettersHonest
<1> QED BY <1>2, <1>3 DEF Fair, HowMany, Tops, OnDay
----------------------------------------------------------------------------
(***************************************************************************)
(* Whom a run serves.  From query to query it keeps in hand everyone who   *)
(* was due when it began and has left preferences and badges alone.        *)
(***************************************************************************)
Untouched(u, k) == u \in users /\ prefs[u].updated <= job[k].base

Wanted(u, k) ==
    /\ u \in DOMAIN job[k].due /\ Untouched(u, k)
    /\ Row(u) \/ Owned(u) \cap job[k].due[u].badges # {}

Served(u, k) == \E n \in Sent(u, k, job[k].day) : n.count >= job[k].due[u].count

InHand(u, k) ==
    LET run == job[k] IN
    /\ run.pc = "owners" /\ Row(u) => u \in run.opted
    /\ run.pc = "targets" => IF Row(u) THEN u \in run.opted ELSE u \in run.owners
    /\ run.pc = "counts" => u \in run.left
    /\ run.pc \in Iterating =>
          (u \in run.left /\ run.counts[u] >= run.due[u].count) \/ Served(u, k)
    /\ run.pc = "done" => Served(u, k)

DueOK(u, k) ==
    /\ Untouched(u, k) => Allows(u, k)
    /\ \A b \in job[k].due[u].badges : origin[b] # None
    /\ u \in users => job[k].due[u].count <= HowMany(u, k, job[k].day)
    /\ Wanted(u, k) => InHand(u, k)

RefusedOK(u, k) ==
    Untouched(u, k) =>
       /\ ~Allows(u, k) /\ Sent(u, k, job[k].day) = {}
       /\ ~(job[k].pc = "send" /\ job[k].who = u)

Serves(k) ==
    /\ job[k].base <= begun
    /\ \A u \in DOMAIN job[k].due : DueOK(u, k)
    /\ \A u \in job[k].refused : RefusedOK(u, k)
    /\ job[k].pc = "failed" => users # Users

(* What can be said of two moments between which u was left alone. *)
LEMMA LeftAlone ==
    ASSUME Typed, Typed', TablesMove, NEW k \in Kinds, job[k].base <= begun,
           job'[k].base = job[k].base, NEW u, Untouched(u, k)'
    PROVE  /\ Untouched(u, k) /\ prefs'[u] = prefs[u]
           /\ Row(u)' = Row(u) /\ Allows(u, k)' = Allows(u, k)
<1>1. u \in users' /\ u \in users /\ prefs'[u].updated <= job[k].base
  BY DEF Untouched, TablesMove, NotesMove
<1>2. job[k].base \in Nat /\ begun \in Nat
  BY DEF Typed, Jobs, JobOK, Tables
<1>3. prefs'[u].updated # begun + 1
  BY <1>1, <1>2
<1>4. prefs'[u] = prefs[u]
  BY <1>1, <1>3 DEF TablesMove, PrefsMove
<1> QED BY <1>1, <1>4 DEF Untouched, Row, Allows

LEMMA WantedBefore ==
    ASSUME Typed, Typed', TablesMove, NEW k \in Kinds, job[k].base <= begun,
           job'[k].base = job[k].base, job'[k].due = job[k].due, NEW u,
           \A b \in job[k].due[u].badges : origin[b] # None, Wanted(u, k)'
    PROVE  Wanted(u, k) /\ Untouched(u, k)' /\ Row(u)' = Row(u)
<1>1. Untouched(u, k)' /\ u \in DOMAIN job[k].due
  BY DEF Wanted
<1>2. Untouched(u, k) /\ Row(u)' = Row(u)
  BY <1>1, LeftAlone
<1>3. CASE Row(u)
  BY <1>1, <1>2, <1>3 DEF Wanted
<1>4. CASE ~Row(u)
  <2>1. PICK b : b \in Owned(u)' /\ b \in job[k].due[u].badges
    BY <1>2, <1>4 DEF Wanted
  <2>2. b \in Badges /\ badges'[b] # None /\ badges'[b].owner = u /\ origin[b] # None
    BY <2>1 DEF Owned
  <2>3. b \in Owned(u)
    BY <2>2 DEF Owned, TablesMove, BadgesMove
  <2> QED BY <1>1, <1>2, <2>1, <2>3 DEF Wanted
<1> QED BY <1>1, <1>2, <1>3, <1>4

LEMMA ServedStays ==
    ASSUME Typed, NotesMove, NEW k \in Kinds, NEW u \in users', Served(u, k),
           job'[k].day = job[k].day, job'[k].due = job[k].due
    PROVE  Served(u, k)'
<1>1. PICK n \in notes : /\ n.user = u /\ n.type = k /\ n.period = job[k].day
                         /\ n.count >= job[k].due[u].count
  BY DEF Served, Sent, Inbox
<1>2. PICK m \in notes' : Same(n, m)
  BY <1>1 DEF NotesMove, Keeps
<1>3. m.user = u /\ m.type = k /\ m.period = job'[k].day /\ m.count >= job'[k].due[u].count
  BY <1>1, <1>2 DEF Same
<1> QED BY <1>3 DEF Served, Sent, Inbox

(* Letters of a job are only sent by its own run. *)
LEMMA NoneSent ==
    ASSUME NotesMove, NEW k \in Kinds, job'[k].day = job[k].day,
           NEW u, ~(OnSend(k) /\ job[k].who = u), Sent(u, k, job[k].day) = {}
    PROVE  Sent(u, k, job[k].day)' = {}
<1> SUFFICES ASSUME NEW m \in notes', m.user = u, m.type = k, m.period = job[k].day
             PROVE  FALSE
  BY DEF Sent, Inbox
<1>1. ~NewAlert(m)
  BY AlertsAreNoLetters
<1>2. ~NewDigest(m)
  BY DEF NewDigest, Letter, Digest
<1>3. PICK n \in Letters : n.user = m.user /\ n.type = m.type /\ n.period = m.period
  BY <1>1, <1>2, OldLetter DEF NotesMove
<1> QED BY <1>3 DEF Sent, Inbox, Letters
----------------------------------------------------------------------------
LEMMA InitOnce == DigestsInit => Once /\ Honest
<1> SUFFICES ASSUME DigestsInit PROVE Once /\ Honest
  OBVIOUS
<1>1. Letters = {}
  <2> DEFINE note(i) == Alert(Founded[Past[i].badge].owner, Past[i].badge, i, Past[i].day)
  <2>1. notes = {note(i) : i \in DOMAIN Past}
    BY DEF DigestsInit, ParticipationInit
  <2>2. \A i : note(i).type = "alert"
    BY DEF Alert
  <2>3. \A n \in notes : n.type = "alert"
    BY ONLY <2>1, <2>2
  <2> QED BY <2>3 DEF Letters, Kinds
<1>2. \A k \in Kinds : /\ job[k].pc \in {"off", "cut"} /\ job[k].day \in {None, Today}
                       /\ Todo(k) = {}
  <2>1. PICK k \in Kinds : job = [j \in Kinds |->
          IF j = k THEN NoJob ELSE [NoJob EXCEPT !.pc = "cut", !.day = Today]]
    BY DEF DigestsInit
  <2>2. \A j \in Kinds : job[j].pc \in {"off", "cut"} /\ job[j].day \in {None, Today}
    <3> SUFFICES ASSUME NEW j \in Kinds
                 PROVE  job[j].pc \in {"off", "cut"} /\ job[j].day \in {None, Today}
      OBVIOUS
    <3>1. job[j] = NoJob \/ job[j] = [NoJob EXCEPT !.pc = "cut", !.day = Today]
      BY <2>1
    <3>2. Rests(job[j], "off") \/ Rests(job[j], "cut")
      BY <3>1, Resting
    <3>3. job[j].day = None \/ job[j].day = Today
      BY <3>1, Resting
    <3> QED BY <3>2, <3>3 DEF Rests
  <2> QED BY <2>2 DEF Todo, Iterating
<1>3. Today \in Nat
  BY InitTables DEF Tables, Today
<1>4. Once
  BY <1>1, <1>2, <1>3 DEF Once, LettersDated, JobsDated, Unserved, OneEach, Sundays, Running, Kinds
<1>5. Honest
  BY <1>1, <1>2 DEF Honest, LettersHonest, RunHonest, Iterating
<1> QED BY <1>4, <1>5

LEMMA NextOnce ==
    ASSUME Typed, Typed', Tickets, Tickets', Once, Honest, [DigestsNext]_vars
    PROVE  Once' /\ Honest'
<1>1. NotesMove /\ clock <= clock'
  BY NextMoves DEF TablesMove
<1>2. CASE job' = job
  BY <1>1, <1>2, OnceRequests, HonestRequests
<1>3. ASSUME NEW k \in Kinds, JobStart(k) \/ JobStep(k) \/ JobCut(k) PROVE Once' /\ Honest'
  BY <1>1, <1>3, WorkSteps, OnceWork, HonestWork
<1> QED BY <1>2, <1>3 DEF DigestsNext, vars

(* What digests say is true: one a period to each organiser, never empty,   *)
(* of no more creations than there were, and naming the busiest day.        *)
THEOREM DigestsAreHonest == DigestsSpec => []DigestsHonest
<1> DEFINE Inv == Typed /\ Tickets /\ Once /\ Honest
<1>1. DigestsInit => Inv
  BY InitTyped, InitTickets, InitOnce
<1>2. Inv /\ [DigestsNext]_vars => Inv'
  BY NextTyped, NextTickets, NextOnce
<1>3. Inv => DigestsHonest
  BY HonestDigests
<1> QED BY <1>1, <1>2, <1>3, PTL DEF DigestsSpec
----------------------------------------------------------------------------
(* Steps of a run that keep what it observed when it began. *)
LEMMA DueStays ==
    ASSUME Typed, Typed', Tickets, Tickets', TablesMove, NEW k \in Kinds, job[k].base <= begun,
           KeepsRun(job'[k], job[k]), NEW u \in DOMAIN job[k].due, DueOK(u, k),
           Wanted(u, k) /\ InHand(u, k) /\ u \in users' /\ Row(u)' = Row(u) => InHand(u, k)'
    PROVE  DueOK(u, k)'
<1>1. /\ job'[k].due = job[k].due /\ job'[k].base = job[k].base /\ job'[k].day = job[k].day
      /\ job[k].due[u].badges \subseteq Badges
  BY DEF KeepsRun, Typed, Jobs, JobOK
<1>2. (Untouched(u, k) => Allows(u, k))'
  BY <1>1, LeftAlone DEF DueOK
<1>3. \A b \in job'[k].due[u].badges : origin'[b] # None
  BY <1>1 DEF DueOK, TablesMove, BadgesMove
<1>4. ASSUME u \in users' PROVE (job[k].due[u].count <= HowMany(u, k, job[k].day))'
  <2>1. PICK c, day : c \in Nat /\ c = job[k].due[u].count /\ day = job[k].day
    BY DEF Typed, Jobs, JobOK
  <2>2. c <= HowMany(u, k, day)
    BY <1>4, <2>1 DEF DueOK, TablesMove, NotesMove
  <2>3. c <= HowMany(u, k, day)'
    BY <1>4, <2>1, <2>2, FairStays DEF TablesMove
  <2> QED BY <1>1, <2>1, <2>3 DEF HowMany, Creations
<1>5. ASSUME Wanted(u, k)' PROVE InHand(u, k)'
  <2>1. Wanted(u, k) /\ Untouched(u, k)' /\ Row(u)' = Row(u)
    BY <1>1, <1>5, WantedBefore DEF DueOK
  <2>2. InHand(u, k) /\ u \in users'
    BY <2>1 DEF DueOK, Untouched
  <2> QED BY <2>1, <2>2
<1> QED BY <1>2, <1>3, <1>4, <1>5 DEF DueOK

LEMMA RefusedStays ==
    ASSUME Typed, Typed', TablesMove, NEW k \in Kinds, job[k].base <= begun,
           KeepsRun(job'[k], job[k]), NEW u, RefusedOK(u, k),
           job'[k].pc = "send" /\ job'[k].who = u =>
              Allows(u, k) \/ (job[k].pc = "send" /\ job[k].who = u)
    PROVE  RefusedOK(u, k)'
<1> SUFFICES ASSUME Untouched(u, k)'
             PROVE  /\ ~Allows(u, k)' /\ Sent(u, k, job[k].day)' = {}
                    /\ ~(job'[k].pc = "send" /\ job'[k].who = u)
  BY DEF RefusedOK
<1>1. job'[k].base = job[k].base /\ job'[k].day = job[k].day
  BY DEF KeepsRun
<1>2. Untouched(u, k) /\ Allows(u, k)' = Allows(u, k)
  BY <1>1, LeftAlone
<1>3. ~Allows(u, k) /\ Sent(u, k, job[k].day) = {} /\ ~(job[k].pc = "send" /\ job[k].who = u)
  BY <1>2 DEF RefusedOK
<1>4. Sent(u, k, job[k].day)' = {}
  BY <1>1, <1>3, NoneSent DEF TablesMove, OnSend
<1> QED BY <1>2, <1>3, <1>4

LEMMA ServesStays ==
    ASSUME Typed, Typed', Tickets, Tickets', TablesMove, NEW k \in Kinds, Serves(k),
           job'[k] = job[k]
    PROVE  Serves(k)'
<1>1. job[k].base <= begun /\ KeepsRun(job'[k], job[k])
  BY DEF Serves, KeepsRun
<1>2. job'[k].base <= begun'
  BY <1>1 DEF TablesMove, Typed, Jobs, JobOK, Tables
<1>3. ASSUME NEW u \in DOMAIN job[k].due PROVE DueOK(u, k)'
  <2>1. ASSUME InHand(u, k), u \in users', Row(u)' = Row(u) PROVE InHand(u, k)'
    <3>1. Served(u, k) => Served(u, k)'
      BY <2>1, ServedStays DEF TablesMove
    <3> QED BY <2>1, <3>1 DEF InHand
  <2> QED BY <1>1, <2>1, DueStays DEF Serves
<1>4. ASSUME NEW u \in job[k].refused PROVE RefusedOK(u, k)'
  BY <1>1, RefusedStays DEF Serves
<1>5. job'[k].pc = "failed" => users' # Users
  BY DEF Serves, TablesMove, NotesMove, Typed, Tables
<1> QED BY <1>2, <1>3, <1>4, <1>5 DEF Serves

(* The step of a run that goes on keeps it so when each one wanted stays in *)
(* hand and nobody is written to who has switched the digest off.          *)
LEMMA ServesGoesOn ==
    ASSUME Typed, Typed', Tickets, Tickets', TablesMove, NEW k \in Kinds, Serves(k),
           KeepsRun(job'[k], job[k]), job'[k].pc # "failed",
           \A u \in DOMAIN job[k].due :
              Wanted(u, k) /\ InHand(u, k) /\ u \in users' /\ Row(u)' = Row(u) => InHand(u, k)',
           job'[k].pc = "send" =>
              \/ Allows(job'[k].who, k)
              \/ job[k].pc = "send" /\ job[k].who = job'[k].who
    PROVE  Serves(k)'
<1>1. job[k].base <= begun /\ job'[k].base <= begun'
  BY DEF Serves, KeepsRun, TablesMove, Typed, Jobs, JobOK, Tables
<1>2. \A u \in DOMAIN job[k].due : DueOK(u, k)'
  BY <1>1, DueStays DEF Serves
<1>3. \A u \in job[k].refused : RefusedOK(u, k)'
  BY <1>1, RefusedStays DEF Serves
<1> QED BY <1>1, <1>2, <1>3 DEF Serves, KeepsRun

LEMMA ServesStart ==
    ASSUME Typed, Typed', Once', NEW k \in Kinds, Works(k), OnStart(k)
    PROVE  Serves(k)'
<1>1. /\ UNCHANGED <<users, prefs, badges, origin>> /\ notes' = notes /\ Today' = Today
      /\ users \subseteq Users
  BY DEF Works, OnStart, Typed, Tables, Today
<1>2. job'[k].pc = "owners" /\ job'[k].day = Today /\ job'[k].base = begun /\ begun' = begun + 1
  BY DEF OnStart
<1>3. ASSUME NEW u \in DOMAIN job'[k].due PROVE DueOK(u, k)'
  <2>1. u \in users /\ Pending(u, k)
    BY <1>3 DEF OnStart
  <2>2. job'[k].due[u].count = Cardinality(Creations(u, Days(k, Today)))
    BY <2>1 DEF OnStart
  <2>3. job'[k].due[u].badges = Owned(u)
    BY <2>1 DEF OnStart
  <2>4. Allows(u, k)'
    BY <1>1, <2>1 DEF Pending, Allows
  <2>5. \A b \in job'[k].due[u].badges : origin'[b] # None
    BY <1>1, <2>3, BadgeTypes, ParticipationAssumption DEF Owned, Typed, References
  <2>6. (job[k].due[u].count <= HowMany(u, k, job[k].day))'
    <3>1. HowMany(u, k, Today)' = Cardinality(Creations(u, Days(k, Today)))
      BY <1>1 DEF HowMany, Creations, Inbox
    <3>2. HowMany(u, k, Today) \in Nat
      BY CreationsFinite DEF HowMany, Typed
    <3>3. PICK c : c = Cardinality(Creations(u, Days(k, Today)))
      OBVIOUS
    <3>4. (HowMany(u, k, job[k].day))' = c
      BY <1>1, <1>2, <3>3 DEF HowMany, Creations, Inbox
    <3> QED BY <2>2, <3>2, <3>3, <3>4 DEF HowMany
  <2>7. InHand(u, k)'
    <3>1. Row(u)' => u \in job'[k].opted
      BY <1>1, <2>1 DEF OnStart, Row, Pending
    <3> QED BY <1>2, <3>1 DEF InHand, Iterating
  <2> QED BY <2>4, <2>5, <2>6, <2>7 DEF DueOK
<1>4. ASSUME NEW u \in job'[k].refused PROVE RefusedOK(u, k)'
  <2>1. u \in users /\ ~Allows(u, k)
    BY <1>4 DEF OnStart
  <2>2. ~Allows(u, k)'
    BY <1>1, <2>1 DEF Allows
  <2>3. Sent(u, k, job[k].day)' = {}
    BY <1>1, <1>2, <2>1 DEF Once, Unserved, Todo
  <2> QED BY <1>2, <2>2, <2>3 DEF RefusedOK
<1> QED BY <1>2, <1>3, <1>4 DEF Serves, Typed, Tables

LEMMA ServesWork ==
    ASSUME Typed, Typed', Tickets, Tickets', TablesMove, Once', Honest, NEW k \in Kinds, Serves(k),
           Works(k)
    PROVE  Serves(k)'
<1>1. /\ JobOK(k) /\ users' = users /\ users \subseteq Users /\ badges' = badges
      /\ prefs' = prefs
  BY DEF Works, Typed, Jobs, Tables
<1>2. ASSUME KeepsRun(job'[k], job[k]), NEW u \in users', Served(u, k)
      PROVE  Served(u, k)'
  BY <1>2, ServedStays DEF KeepsRun, TablesMove
<1>3. CASE OnStart(k)
  BY <1>3, ServesStart
<1>4. CASE OnOwners(k)
  <2>1. ASSUME NEW u \in DOMAIN job[k].due, Wanted(u, k), InHand(u, k), u \in users',
               Row(u)' = Row(u)
        PROVE  InHand(u, k)'
    <3>1. /\ job[k].pc = "owners" /\ job'[k].pc = "targets" /\ job'[k].opted = job[k].opted
          /\ job'[k].owners = {v \in Users : Owned(v) # {}}
      BY <1>4 DEF OnOwners
    <3>2. IF Row(u) THEN u \in job'[k].opted ELSE u \in job'[k].owners
      BY <1>1, <2>1, <3>1 DEF InHand, Wanted
    <3> QED BY <2>1, <3>1, <3>2 DEF InHand, Iterating
  <2>2. KeepsRun(job'[k], job[k]) /\ job'[k].pc = "targets"
    BY <1>4 DEF OnOwners
  <2> QED BY <2>1, <2>2, ServesGoesOn
<1>5. CASE OnTargets(k)
  <2>1. ASSUME NEW u \in DOMAIN job[k].due, Wanted(u, k), InHand(u, k), u \in users',
               Row(u)' = Row(u)
        PROVE  InHand(u, k)'
    <3>1. job[k].pc = "targets" /\ job'[k].pc = "counts" /\ job'[k].left = Targets(k)
      BY <1>5 DEF OnTargets
    <3>2. u \in Targets(k)
      BY <1>1, <2>1, <3>1 DEF InHand, Targets
    <3> QED BY <2>1, <3>1, <3>2 DEF InHand, Iterating
  <2>2. KeepsRun(job'[k], job[k]) /\ job'[k].pc = "counts"
    BY <1>5 DEF OnTargets
  <2> QED BY <2>1, <2>2, ServesGoesOn
<1>6. CASE OnCounts(k)
  <2>1. ASSUME NEW u \in DOMAIN job[k].due, Wanted(u, k), InHand(u, k), u \in users',
               Row(u)' = Row(u)
        PROVE  InHand(u, k)'
    <3>1. /\ job[k].pc = "counts" /\ job'[k].pc = "each" /\ job'[k].due = job[k].due
          /\ u \in job[k].left
      BY <1>6, <2>1 DEF OnCounts, KeepsRun, InHand
    <3>2. job'[k].counts[u] = HowMany(u, k, job[k].day)
      BY <1>6, <3>1 DEF OnCounts, HowMany
    <3>3. u \in job'[k].left <=> HowMany(u, k, job[k].day) > 0
      BY <1>6, <3>1 DEF OnCounts, HowMany
    <3>4. job[k].due[u].count \in Nat \ {0} /\ job[k].due[u].count <= HowMany(u, k, job[k].day)
      BY <1>1, <2>1 DEF JobOK, Serves, DueOK
    <3>5. HowMany(u, k, job[k].day) \in Nat
      BY CreationsFinite DEF HowMany, Typed
    <3> QED BY <3>1, <3>2, <3>3, <3>4, <3>5 DEF InHand, Iterating
  <2>2. KeepsRun(job'[k], job[k]) /\ job'[k].pc = "each"
    BY <1>6 DEF OnCounts
  <2> QED BY <2>1, <2>2, ServesGoesOn
<1>7. ASSUME Begins(k), job[k].pc \in Iterating, job'[k].pc \in Iterating,
             job'[k].pc = "send" => Allows(job'[k].who, k),
             \A u \in job[k].left : Wanted(u, k) => u \in job'[k].left
      PROVE  Serves(k)'
  <2>1. ASSUME NEW u \in DOMAIN job[k].due, Wanted(u, k), InHand(u, k), u \in users',
               Row(u)' = Row(u)
        PROVE  InHand(u, k)'
    <3>1. KeepsRun(job'[k], job[k]) /\ job'[k].counts = job[k].counts
      BY <1>7 DEF Begins
    <3>2. (u \in job[k].left /\ job[k].counts[u] >= job[k].due[u].count) \/ Served(u, k)
      BY <1>7, <2>1 DEF InHand
    <3>3. (u \in job'[k].left /\ job'[k].counts[u] >= job'[k].due[u].count) \/ Served(u, k)'
      BY <1>2, <1>7, <2>1, <3>1, <3>2 DEF KeepsRun
    <3> QED BY <1>7, <3>3 DEF InHand, Iterating
  <2> QED BY <1>7, <2>1, ServesGoesOn DEF Begins, Iterating
<1>8. ASSUME NEW u \in Users, NEW top, OnLook(k, u, top) PROVE Serves(k)'
  <2>1. job[k].pc \in Iterating
    BY <1>8 DEF OnLook, Iterating
  <2>2. CASE OnAsk(k, u, top)
    BY <1>7, <2>1, <2>2 DEF OnAsk, Iterating
  <2>3. CASE OnSkip(k, u)
    <3>1. ~Wanted(u, k)
      BY <2>3 DEF OnSkip, Wanted, Serves, DueOK
    <3> QED BY <1>7, <2>1, <2>3, <3>1 DEF OnSkip, Iterating
  <2> QED BY <1>8, <2>2, <2>3 DEF OnLook
<1>9. ASSUME NEW u \in Users, k = "weekly", OnPerDay(u) PROVE Serves(k)'
  BY <1>7, <1>9 DEF OnPerDay, Iterating
<1>10. CASE OnSend(k)
  <2>1. ASSUME NEW u \in DOMAIN job[k].due, Wanted(u, k), InHand(u, k), u \in users',
               Row(u)' = Row(u)
        PROVE  InHand(u, k)'
    <3>1. /\ KeepsRun(job'[k], job[k]) /\ job'[k].counts = job[k].counts
          /\ job[k].pc = "send" /\ job'[k].pc = "each"
          /\ job'[k].left = job[k].left \ {job[k].who} /\ Letter(k) \in notes'
      BY <1>10 DEF OnSend
    <3>2. (u \in job[k].left /\ job[k].counts[u] >= job[k].due[u].count) \/ Served(u, k)
      BY <2>1, <3>1 DEF InHand, Iterating
    <3>3. ASSUME u = job[k].who, job[k].counts[u] >= job[k].due[u].count
          PROVE  Served(u, k)'
      <4>1. /\ Letter(k).user = u /\ Letter(k).type = k /\ Letter(k).period = job'[k].day
            /\ Letter(k).count >= job'[k].due[u].count
        BY <1>10, <3>1, <3>3, LetterTyped DEF KeepsRun
      <4> QED BY <3>1, <4>1 DEF Served, Sent, Inbox
    <3>4. (u \in job'[k].left /\ job'[k].counts[u] >= job'[k].due[u].count) \/ Served(u, k)'
      BY <1>2, <2>1, <3>1, <3>2, <3>3 DEF KeepsRun
    <3> QED BY <3>1, <3>4 DEF InHand, Iterating
  <2>2. KeepsRun(job'[k], job[k]) /\ job'[k].pc = "each"
    BY <1>10 DEF OnSend
  <2> QED BY <2>1, <2>2, ServesGoesOn
<1>11. CASE OnDone(k)
  <2>1. ASSUME NEW u \in DOMAIN job[k].due, Wanted(u, k), InHand(u, k), u \in users',
               Row(u)' = Row(u)
        PROVE  InHand(u, k)'
    <3>1. job[k].pc = "each" /\ job[k].left = {} /\ job'[k].pc = "done" /\ KeepsRun(job'[k], job[k])
      BY <1>11 DEF OnDone
    <3>2. Served(u, k)'
      BY <1>2, <2>1, <3>1 DEF InHand, Iterating
    <3> QED BY <3>1, <3>2 DEF InHand, Iterating
  <2>2. KeepsRun(job'[k], job[k]) /\ job'[k].pc = "done"
    BY <1>11 DEF OnDone
  <2> QED BY <2>1, <2>2, ServesGoesOn
<1>12. CASE OnEnd(k)
  <2>1. DOMAIN job'[k].due = {} /\ job'[k].refused = {} /\ job'[k].base = 0
    BY <1>12 DEF OnEnd, Rests
  <2>2. job'[k].pc = "failed" => users' # Users
    <3> SUFFICES ASSUME job'[k].pc = "failed" PROVE users # Users
      BY <1>1
    <3>1. PICK u \in job[k].left :
             \/ job[k].pc = "send" /\ u \notin users
             \/ job[k].pc = "each" /\ Creations(u, Days(k, job[k].day)) = {}
      BY <1>12 DEF OnEnd, Rests
    <3>2. CASE job[k].pc = "each" /\ Creations(u, Days(k, job[k].day)) = {}
      <4>1. HowMany(u, k, job[k].day) = 0
        BY <3>2, FS_EmptySet DEF HowMany
      <4>2. job[k].counts[u] \in Nat \ {0}
        BY <1>1, <3>1, <3>2 DEF JobOK, Iterating
      <4>3. u \notin users
        BY <3>1, <3>2, <4>1, <4>2 DEF Honest, RunHonest, Iterating
      <4> QED BY <1>1, <3>1, <4>3 DEF JobOK
    <3> QED BY <1>1, <3>1, <3>2 DEF JobOK
  <2>3. begun' \in Nat
    BY DEF Typed, Tables
  <2> QED BY <2>1, <2>2, <2>3 DEF Serves
<1> QED BY <1>3, <1>4, <1>5, <1>6, <1>8, <1>9, <1>10, <1>11, <1>12 DEF Works

LEMMA InitServes == DigestsInit => \A k \in Kinds : Serves(k)
<1> SUFFICES ASSUME DigestsInit, NEW j \in Kinds PROVE Serves(j)
  OBVIOUS
<1>1. PICK k \in Kinds : job = [i \in Kinds |->
        IF i = k THEN NoJob ELSE [NoJob EXCEPT !.pc = "cut", !.day = Today]]
  BY DEF DigestsInit
<1>2. job[j] = NoJob \/ job[j] = [NoJob EXCEPT !.pc = "cut", !.day = Today]
  BY <1>1
<1>3. Rests(job[j], "off") \/ Rests(job[j], "cut")
  BY <1>2, Resting
<1>4. begun \in Nat
  BY InitTables DEF Tables
<1> QED BY <1>3, <1>4 DEF Rests, Serves

LEMMA NextServes ==
    ASSUME Typed, Typed', Tickets, Tickets', Once', Honest, \A k \in Kinds : Serves(k),
           [DigestsNext]_vars
    PROVE  (\A k \in Kinds : Serves(k))'
<1>1. TablesMove
  BY NextMoves
<1>2. CASE job' = job
  BY <1>1, <1>2, ServesStays
<1>3. ASSUME NEW k \in Kinds, JobStart(k) \/ JobStep(k) \/ JobCut(k)
      PROVE  \A j \in Kinds : Serves(j)'
  <2>1. Works(k)
    BY <1>3, WorkSteps
  <2>2. Serves(k)'
    BY <1>1, <2>1, ServesWork
  <2>3. \A j \in Kinds \ {k} : Serves(j)'
    BY <1>1, <2>1, ServesStays DEF Works
  <2> QED BY <2>2, <2>3
<1> QED BY <1>2, <1>3 DEF DigestsNext, vars

LEMMA ServesAll == Typed /\ (\A k \in Kinds : Serves(k)) => JobServes
<1> SUFFICES ASSUME Typed, NEW k \in Kinds, Serves(k)
             PROVE  /\ job[k].pc = "done" =>
                          /\ \A u \in DOMAIN job[k].due :
                                Untouched(u, k)
                                /\ (Row(u) \/ Owned(u) \cap job[k].due[u].badges # {})
                                   => \E n \in Sent(u, k, job[k].day) :
                                         n.count >= job[k].due[u].count
                          /\ \A u \in job[k].refused :
                                Untouched(u, k) => Sent(u, k, job[k].day) = {}
                    /\ job[k].pc = "failed" => users # Users
  BY DEF JobServes, Untouched
<1> QED BY DEF Serves, DueOK, RefusedOK, Wanted, InHand, Served

(* A run that ends well has served everyone for whom it had something when  *)
(* it began and who has left preferences and badges alone since, and has    *)
(* written to no one who had switched the digest off; a run fails only over *)
(* a deleted account.                                                       *)
THEOREM JobsServe == DigestsSpec => []JobServes
<1> DEFINE All == \A k \in Kinds : Serves(k)
           Inv == Typed /\ Tickets /\ Once /\ Honest /\ All
<1>1. DigestsInit => Inv
  BY InitTyped, InitTickets, InitOnce, InitServes
<1>2. Inv /\ [DigestsNext]_vars => Inv'
  BY NextTyped, NextTickets, NextOnce, NextServes
<1>3. Inv => JobServes
  BY ServesAll
<1> QED BY <1>1, <1>2, <1>3, PTL DEF DigestsSpec
----------------------------------------------------------------------------
LEMMA WorkAdvances ==
    ASSUME Typed, NEW k \in Kinds, Works(k), Running(k)
    PROVE  Further(job[k], job'[k])
<1>1. JobOK(k) /\ job[k].pc \in {"owners", "targets", "counts", "each", "look", "send"}
  BY DEF Typed, Jobs, Running
<1>2. CASE OnStart(k)
  BY <1>2 DEF OnStart
<1>3. CASE OnOwners(k) \/ OnTargets(k) \/ OnCounts(k)
  BY <1>3 DEF OnOwners, OnTargets, OnCounts, Further, Stage
<1>4. ASSUME NEW u \in Users, NEW top, OnLook(k, u, top)
      PROVE  Further(job[k], job'[k])
  BY <1>4 DEF OnLook, OnAsk, OnSkip, Further, Stage
<1>5. ASSUME NEW u \in Users, k = "weekly", OnPerDay(u)
      PROVE  Further(job[k], job'[k])
  BY <1>5 DEF OnPerDay, Further, Stage
<1>6. CASE OnSend(k)
  <2>1. job[k].who \in job[k].left
    BY <1>1, <1>6 DEF JobOK, OnSend
  <2> QED BY <1>6, <2>1 DEF OnSend, Further
<1>7. CASE OnDone(k)
  BY <1>7 DEF OnDone, Further, Stage
<1>8. CASE OnEnd(k)
  <2>1. job'[k].left = {} /\ job'[k].pc \in {"cut", "failed"}
    BY <1>8 DEF OnEnd, Rests
  <2> QED BY <1>1, <2>1 DEF Further, Stage
<1> QED BY <1>2, <1>3, <1>4, <1>5, <1>6, <1>7, <1>8 DEF Works

(* A run that goes on comes nearer to its end with every step, however many *)
(* organisers it serves and whatever the requests around it do.             *)
THEOREM JobsAdvance == DigestsSpec => JobAdvances
<1> DEFINE Progress == \A k \in Kinds : Running(k) => job'[k] = job[k] \/ Further(job[k], job'[k])
<1>1. Typed /\ [DigestsNext]_vars => Progress
  <2> SUFFICES ASSUME Typed, [DigestsNext]_vars, NEW k \in Kinds, Running(k), job'[k] # job[k]
               PROVE  Further(job[k], job'[k])
    OBVIOUS
  <2>1. PICK j \in Kinds : JobStart(j) \/ JobStep(j) \/ JobCut(j)
    BY DEF DigestsNext, vars
  <2>2. Works(j)
    BY <2>1, WorkSteps
  <2>3. j = k
    BY <2>2 DEF Works
  <2> QED BY <2>2, <2>3, WorkAdvances
<1>2. Typed /\ [DigestsNext]_vars => Typed'
  BY NextTyped
<1>3. DigestsInit => Typed
  BY InitTyped
<1>4. DigestsSpec => [][Progress]_vars
  BY <1>1, <1>2, <1>3, PTL DEF DigestsSpec
<1> QED BY <1>4 DEF JobAdvances
----------------------------------------------------------------------------
(***************************************************************************)
(* Sums.  SumFunction is defined by recursion over subsets; that such a    *)
(* recursion has a value is shown by giving one, and what it is worth by   *)
(* a smallest subset for which it would be worth something else.           *)
(***************************************************************************)
First(s) == CHOOSE x \in s : TRUE
IsSum(iter, f, S) ==
    iter = [s \in SUBSET S |-> IF s = {} THEN 0 ELSE f[First(s)] + iter[s \ {First(s)}]]

LEMMA SumUnfolds ==
    ASSUME NEW f, NEW S
    PROVE  SumFunctionOnSet(f, S) = (CHOOSE iter : IsSum(iter, f, S))[S]
BY DEF SumFunctionOnSet, FoldFunctionOnSet, MapThenFoldSet, IsSum, First

LEMMA DisjointUnion ==
    ASSUME NEW A, IsFiniteSet(A), NEW B, IsFiniteSet(B), A \cap B = {}
    PROVE  IsFiniteSet(A \cup B) /\ Cardinality(A \cup B) = Cardinality(A) + Cardinality(B)
<1>1. /\ IsFiniteSet(A \cup B)
      /\ Cardinality(A \cup B) = Cardinality(A) + Cardinality(B) - Cardinality(A \cap B)
  BY FS_Union
<1>2. Cardinality(A) \in Nat /\ Cardinality(B) \in Nat 
  BY FS_CardinalityType
<1>3. Cardinality(A \cap B) = 0
  <2>1. Cardinality({}) = 0
    BY FS_EmptySet
  <2> QED BY <2>1, Zenon
<1> QED BY <1>1, <1>2, <1>3

(* One element for each unit that f has anywhere in S. *)
Units(f, S) == {u \in S \X Nat : u[2] \in 1..f[u[1]]}

LEMMA UnitsGrow ==
    ASSUME NEW S, NEW f, NEW x \in S,
           f[x] \in Nat, IsFiniteSet(Units(f, S \ {x}))
    PROVE  IsFiniteSet(Units(f, S))
          /\ Cardinality(Units(f, S)) = f[x] + Cardinality(Units(f, S \ {x}))
<1> DEFINE X == {x} \X (1..f[x])
<1>1. IsFiniteSet(1..f[x]) /\ Cardinality(1..f[x]) = f[x]
  BY FS_Interval
<1>2. IsFiniteSet(X) /\ Cardinality(X) = f[x]
  <2>1. IsFiniteSet({x}) /\ Cardinality({x}) = 1
    BY FS_Singleton
  <2>2. IsFiniteSet(X) /\ Cardinality(X) = Cardinality({x}) * Cardinality(1..f[x])
    BY <1>1, <2>1, FS_Product, Zenon
  <2> QED BY <2>1, <2>2, <1>1
<1>3. Units(f, S) = Units(f, S \ {x}) \cup X
  BY DEF Units
<1>4. Units(f, S \ {x}) \cap X = {}
  BY DEF Units
<1>5. Cardinality(Units(f, S \ {x})) \in Nat
  BY FS_CardinalityType
<1> HIDE DEF X
<1>6. IsFiniteSet(Units(f, S \ {x}) \cup X)
      /\ Cardinality(Units(f, S \ {x}) \cup X) = Cardinality(Units(f, S \ {x})) + Cardinality(X)
  BY <1>2, <1>4, DisjointUnion
<1> QED
  BY <1>2, <1>3, <1>5, <1>6

(* Among any subsets of a finite set there is a smallest one. *)
LEMMA SmallestSet ==
    ASSUME NEW S, IsFiniteSet(S), NEW Bad, Bad \subseteq SUBSET S, Bad # {}
    PROVE  \E s \in Bad : \A t \in Bad : ~(t \subseteq s /\ t # s)
<1>1. IsWellFoundedOn(StrictSubsetOrdering(S), FiniteSubsetsOf(S))
  BY FS_StrictSubsetOrderingWellFounded
<1>2. FiniteSubsetsOf(S) = SUBSET S
  BY FS_FiniteSubsetsOfFinite
<1>3. PICK s \in Bad : \A t \in Bad : <<t, s>> \notin StrictSubsetOrdering(S)
  BY <1>1, <1>2, WFMin, Zenon
<1> QED BY <1>3 DEF StrictSubsetOrdering

LEMMA UnitsFinite ==
    ASSUME NEW S, IsFiniteSet(S), NEW f, \A b \in S : f[b] \in Nat
    PROVE  \A s \in SUBSET S : IsFiniteSet(Units(f, s))
<1> DEFINE Bad == {s \in SUBSET S : ~IsFiniteSet(Units(f, s))}
<1>1. SUFFICES ASSUME Bad # {} PROVE FALSE
  OBVIOUS
<1>2. PICK s \in Bad : \A t \in Bad : ~(t \subseteq s /\ t # s)
  <2>1. Bad \subseteq SUBSET S
    OBVIOUS
  <2> HIDE DEF Bad
  <2> QED BY <1>1, <2>1, SmallestSet
<1>3. Units(f, {}) = {}
  BY DEF Units
<1>4. PICK x : x \in s
  BY <1>3, FS_EmptySet
<1>5. s \ {x} \notin Bad
  BY <1>2, <1>4
<1> QED BY <1>4, <1>5, UnitsGrow

LEMMA SumExists ==
    ASSUME NEW S, IsFiniteSet(S), NEW f, \A b \in S : f[b] \in Nat
    PROVE  \E iter : IsSum(iter, f, S)
<1> DEFINE w == [s \in SUBSET S |-> Cardinality(Units(f, s))]
<1>1. ASSUME NEW s \in SUBSET S
      PROVE  w[s] = IF s = {} THEN 0 ELSE f[First(s)] + w[s \ {First(s)}]
  <2>1. CASE s = {}
    <3>1. Units(f, {}) = {}
      BY DEF Units
    <3> QED BY <2>1, <3>1, FS_EmptySet
  <2>2. CASE s # {}
    <3>1. First(s) \in s /\ First(s) \in S /\ s \ {First(s)} \in SUBSET S
      BY <2>2 DEF First
    <3>2. IsFiniteSet(Units(f, s \ {First(s)})) /\ f[First(s)] \in Nat
      BY <3>1, UnitsFinite
    <3>3. Cardinality(Units(f, s)) = f[First(s)] + Cardinality(Units(f, s \ {First(s)}))
      BY <3>1, <3>2, UnitsGrow
    <3> QED BY <2>2, <3>1, <3>3
  <2> QED BY <2>1, <2>2
<1>2. IsSum(w, f, S)
  BY <1>1, Zenon DEF IsSum
<1> QED BY <1>2

(* A value of the recursion, as far as it is needed here. *)
Tallies(iter, f, S) ==
    /\ iter[{}] = 0
    /\ \A s \in SUBSET S : s # {} => \E x \in s : iter[s] = f[x] + iter[s \ {x}]

LEMMA SumSteps ==
    ASSUME NEW S, IsFiniteSet(S), NEW f, \A b \in S : f[b] \in Nat
    PROVE  \E iter : SumFunctionOnSet(f, S) = iter[S] /\ Tallies(iter, f, S)
<1> DEFINE iter == CHOOSE i : IsSum(i, f, S)
<1>1. IsSum(iter, f, S)
  BY SumExists
<1>2. SumFunctionOnSet(f, S) = iter[S]
  BY SumUnfolds
<1> HIDE DEF iter
<1>3. \A s \in SUBSET S : iter[s] = IF s = {} THEN 0 ELSE f[First(s)] + iter[s \ {First(s)}]
  BY <1>1, Zenon DEF IsSum
<1>4. \A s : s # {} => First(s) \in s
  BY DEF First
<1>5. iter[{}] = 0
  BY <1>3
<1> QED BY <1>2, <1>3, <1>4, <1>5 DEF Tallies

(* T is sorted into boxes by k, and each holds at most (exactly) what f says *)
Box(T, k, b) == {n \in T : k[n] = b}
Sorted(T, k, S, f) ==
    /\ IsFiniteSet(S) /\ \A b \in S : f[b] \in Nat
    /\ IsFiniteSet(T) /\ \A n \in T : k[n] \in S
    /\ \A b \in S : Cardinality(Box(T, k, b)) <= f[b]
Full(T, k, S, f) == \A b \in S : Cardinality(Box(T, k, b)) = f[b]

(* Things sorted into boxes: if each box holds at most (exactly) its        *)
(* number, all boxes together hold at most (exactly) the sum.               *)
LEMMA SumOfFibres ==
    ASSUME NEW S, NEW f, NEW T, NEW k, Sorted(T, k, S, f)
    PROVE  /\ Cardinality(T) <= SumFunctionOnSet(f, S)
           /\ Full(T, k, S, f) => Cardinality(T) = SumFunctionOnSet(f, S)
<1>0. /\ IsFiniteSet(S) /\ \A b \in S : f[b] \in Nat
      /\ IsFiniteSet(T) /\ \A n \in T : k[n] \in S
      /\ \A b \in S : Cardinality(Box(T, k, b)) <= f[b]
  BY DEF Sorted
<1>1. PICK iter : SumFunctionOnSet(f, S) = iter[S] /\ Tallies(iter, f, S)
  BY <1>0, SumSteps
<1> DEFINE Part(s) == {n \in T : k[n] \in s}
           Even == Full(T, k, S, f)
           Fits(s) == /\ iter[s] \in Nat
                      /\ Cardinality(Part(s)) <= iter[s]
                      /\ Even => Cardinality(Part(s)) = iter[s]
           Bad == {s \in SUBSET S : ~Fits(s)}
<1>2. SUFFICES Bad = {}
  <2>1. Part(S) = T
    BY <1>0
  <2>2. Fits(S)
    BY <1>2
  <2> QED BY <1>1, <2>1, <2>2
<1>3. SUFFICES ASSUME Bad # {} PROVE FALSE
  OBVIOUS
<1> HIDE DEF Bad
<1>4. PICK s \in Bad : \A t \in Bad : ~(t \subseteq s /\ t # s)
  <2>1. Bad \subseteq SUBSET S
    BY DEF Bad
  <2> QED BY <1>0, <1>3, <2>1, SmallestSet
<1>5. s # {}
  <2>1. Part({}) = {}
    OBVIOUS
  <2>2. Cardinality(Part({})) = 0
    BY <2>1, FS_EmptySet
  <2>3. Fits({})
    <3> HIDE DEF Part, Even
    <3> QED BY <1>1, <2>2 DEF Tallies
  <2> QED BY <1>4, <2>3 DEF Bad
<1>6. s \subseteq S
  BY <1>4 DEF Bad
<1>7. PICK x \in s : iter[s] = f[x] + iter[s \ {x}]
  BY <1>1, <1>5, <1>6 DEF Tallies
<1>8. Fits(s \ {x})
  BY <1>4, <1>6 DEF Bad
<1> DEFINE X == Box(T, k, x)
<1>9. /\ Part(s) = Part(s \ {x}) \cup X
      /\ Part(s \ {x}) \cap X = {} /\ X \subseteq T
  BY DEF Box
<1>10. /\ IsFiniteSet(Part(s \ {x})) /\ Cardinality(Part(s \ {x})) \in Nat
       /\ IsFiniteSet(X) /\ Cardinality(X) \in Nat
  BY <1>0, <1>9, FS_Subset, FS_CardinalityType
<1>11. Cardinality(Part(s)) = Cardinality(Part(s \ {x})) + Cardinality(X)
  <2> HIDE DEF Part, X
  <2> QED BY <1>9, <1>10, DisjointUnion
<1>12. /\ Cardinality(X) <= f[x] /\ f[x] \in Nat
       /\ Even => Cardinality(X) = f[x]
  BY <1>0, <1>6 DEF Full
<1>13. Fits(s)
  <2> HIDE DEF Part, X, Even
  <2> QED BY <1>7, <1>8, <1>10, <1>11, <1>12
<1> QED BY <1>4, <1>13 DEF Bad
----------------------------------------------------------------------------
(***************************************************************************)
(* The ledger: for each badge, its counter and the notifications about it. *)
(***************************************************************************)
Entries(b) == {n \in notes : n.type = "alert" /\ n.badge = b}

(* A notification about a badge that is there belongs to the badge's owner. *)
Filed ==
    \A n \in notes : n.type = "alert" =>
       /\ origin[n.badge] # None
       /\ badges[n.badge] # None => badges[n.badge].owner = n.user

Booked ==
    \A b \in Badges : badges[b] # None =>
       /\ Cardinality(Entries(b)) <= badges[b].created
       /\ ~Row(badges[b].owner) => Cardinality(Entries(b)) = badges[b].created

(* Who has no row yet had none when the creation looked. *)
Telling == \A p \in Procs : pc[p] = "insert" /\ ~Row(loc[p].user) => loc[p].notify

Totals ==
    \A t \in Templates :
       /\ templates[t].total = Cardinality({b \in Badges : origin[b] = t})
       /\ templates[t].stage = "new" => templates[t].total = 0

Ledger == Filed /\ Booked /\ Telling /\ Totals

LEMMA NoteTypes ==
    ASSUME Tables, NEW n \in notes, n.type = "alert"
    PROVE  n \in AlertNote /\ n.badge \in Badges
BY DEF Tables, Note, AlertNote, DigestNote, Kinds

LEMMA EntriesFinite ==
    ASSUME Tables, NEW b
    PROVE  IsFiniteSet(Entries(b)) /\ Cardinality(Entries(b)) \in Nat
BY PartOfFinite DEF Tables, Entries

LEMMA BadgesFinite == IsFiniteSet(Badges)
BY FS_Interval, ParticipationAssumption DEF Badges

NoNewAlert == \A m \in notes' : m.type = "alert" => Old(m)

LEMMA EntriesStay ==
    ASSUME Typed, Typed', Tickets, Tickets', NEW b, NoNewAlert,
           \A n \in Entries(b) : \E m \in notes' : Same(n, m)
    PROVE  Cardinality(Entries(b)') = Cardinality(Entries(b))
<1> DEFINE A == Entries(b)
<1>1. PICK B : B = Entries(b)'
  OBVIOUS
<1>2. B = {n \in notes' : n.type = "alert" /\ n.badge = b}
  BY <1>1 DEF Entries
<1>3. A = {n \in notes : n.type = "alert" /\ n.badge = b}
  BY DEF Entries
<1>4. /\ IsFiniteSet(A) /\ IsFiniteSet(B)
      /\ Cardinality(A) \in Nat /\ Cardinality(B) \in Nat
  BY <1>2, <1>3, PartOfFinite DEF Typed, Tables
<1>5. Within(A, B)
  BY <1>2, <1>3 DEF Same, Within
<1>6. Within(B, A)
  BY <1>2, <1>3 DEF NoNewAlert, Old, Same, Within
<1>7. /\ \A n, m \in A : n.at = m.at => n = m
      /\ \A n, m \in B : n.at = m.at => n = m
  BY <1>2, <1>3 DEF Tickets, Apart
<1> HIDE DEF A
<1>8. Cardinality(A) <= Cardinality(B) /\ Cardinality(B) <= Cardinality(A)
  BY <1>4, <1>5, <1>6, <1>7, Injects
<1>9. Cardinality(A) = Cardinality(B)
  BY <1>4, <1>8
<1> QED BY <1>1, <1>9 DEF A

LEMMA RowStays ==
    ASSUME Typed, PrefsMove, NEW u \in users', Row(u)
    PROVE  Row(u)'
<1>1. prefs'[u] = prefs[u] \/ prefs'[u].updated = begun + 1
  BY DEF PrefsMove
<1>2. NoPrefs.updated = 0 /\ begun \in Nat
  BY DEF NoPrefs, Typed, Tables
<1> QED BY <1>1, <1>2 DEF Row

(* Nothing is created: what is booked stays as it is. *)
LEMMA BooksStay ==
    ASSUME Typed, Typed', Tickets, Tickets', TablesMove, Filed, Booked, NoNewAlert,
           \A b \in Badges : badges'[b] # None =>
              badges[b] # None /\ badges'[b].created = badges[b].created
    PROVE  Filed' /\ Booked'
<1>1. ASSUME NEW b \in Badges, badges'[b] # None
      PROVE  /\ badges[b] # None /\ badges'[b].created = badges[b].created
             /\ badges'[b].owner = badges[b].owner /\ badges[b].owner \in users'
  <2>1. badges[b] # None /\ badges'[b].created = badges[b].created
    BY <1>1
  <2>2. origin[b] # None
    BY <2>1, BadgeTypes, ParticipationAssumption DEF Typed, References
  <2>3. badges'[b].owner = badges[b].owner
    BY <1>1, <2>2 DEF TablesMove, BadgesMove
  <2>4. badges'[b].owner \in users'
    BY <1>1 DEF Typed, References
  <2> QED BY <2>1, <2>3, <2>4
<1>2. Filed'
  <2> SUFFICES ASSUME NEW m \in notes', m.type = "alert"
               PROVE  /\ origin'[m.badge] # None
                      /\ badges'[m.badge] # None => badges'[m.badge].owner = m.user
    BY DEF Filed
  <2>1. PICK n \in notes : Same(n, m)
    BY DEF NoNewAlert, Old
  <2>2. n.type = "alert" /\ m.badge = n.badge /\ m.user = n.user
    BY <2>1 DEF Same
  <2>3. n.badge \in Badges
    BY <2>2, NoteTypes DEF Typed
  <2> QED BY <1>1, <2>2, <2>3 DEF Filed, TablesMove, BadgesMove
<1>3. Booked'
  <2> SUFFICES ASSUME NEW b \in Badges, badges'[b] # None
               PROVE  (/\ Cardinality(Entries(b)) <= badges[b].created
                       /\ ~Row(badges[b].owner) => Cardinality(Entries(b)) = badges[b].created)'
    BY DEF Booked
  <2>1. PICK u \in users' : u = badges[b].owner /\ u = badges'[b].owner
    BY <1>1
  <2>2. badges[b] # None /\ badges'[b].created = badges[b].created
    BY <1>1
  <2>3. \A n \in Entries(b) : \E m \in notes' : Same(n, m)
    BY <2>1, <2>2 DEF Entries, Filed, TablesMove, NotesMove, Keeps
  <2>4. Cardinality(Entries(b)') = Cardinality(Entries(b))
    BY <2>3, EntriesStay
  <2>5. Row(u) => Row(u)'
    BY RowStays DEF TablesMove
  <2> QED BY <2>1, <2>2, <2>4, <2>5 DEF Booked, Row
<1> QED BY <1>2, <1>3

LEMMA BlandCreates ==
    ASSUME Typed, BlandNext, NEW b \in Badges, badges[b] # None
    PROVE  badges'[b].created = badges[b].created
<1> USE DEF Typed
<1>1. CASE badges' = badges
  BY <1>1
<1>2. ASSUME NEW p \in Procs, ShareCount(p) PROVE badges'[b].created = badges[b].created
  <2>1. badges' = badges \/ badges' = [badges EXCEPT ![loc[p].badge].shares = @ + 1]
    BY <1>2 DEF ShareCount
  <2>2. badges[b] \in Badge
    BY DEF Tables
  <2> QED BY <2>1, <2>2 DEF Tables, Badge
<1>3. ASSUME NEW c \in Badges, Publish(c) \/ Unpublish(c) \/ DeleteBadge(c)
      PROVE  badges'[b].created = badges[b].created
  <2>1. PICK set \in Marks : Write(c, set)
    BY <1>3 DEF Publish, Unpublish, DeleteBadge, Marks
  <2>2. badges' = [badges EXCEPT ![c] = Overlay(badges[c], set)]
    BY <2>1 DEF Write, Overlay, Tables
  <2>3. badges[b] \in Badge
    BY DEF Tables
  <2>4. Overlay(badges[b], set).created = badges[b].created
    <3>1. "created" \in DOMAIN badges[b] /\ "created" \notin DOMAIN set
      BY <2>3 DEF Badge, Marks
    <3> QED BY <3>1 DEF Overlay
  <2> QED BY <2>2, <2>4 DEF Tables
<1>4. CASE Tick /\ UNCHANGED <<badges, templates, origin>>
  BY <1>1, <1>4
<1>5. ASSUME NEW p \in Procs,
             \/ WalkEnd(p) /\ UNCHANGED <<badges, templates, origin>>
             \/ \E u \in Users : DeleteAccount(p, u) \/ \E t \in Templates : CreateBadge(p, u, t)
             \/ \E c \in Badges : Duplicate(p, c) \/ Share(p, c)
             \/ AlertRead(p) \/ Abort(p) \/ \E q \in Procs : Resolve(p, q)
      PROVE  badges' = badges
  BY <1>5 DEF DeleteAccount, CreateBadge, Duplicate, Share, AlertRead, Abort, Resolve, siteVars
<1>6. ASSUME NEW t \in Templates, NEW v \in BOOLEAN, CreateTemplate(t, v) \/ UpdateTemplate(t, v)
      PROVE  badges' = badges
  BY <1>6 DEF CreateTemplate, UpdateTemplate
<1> QED BY <1>1, <1>2, <1>3, <1>4, <1>5, <1>6 DEF BlandNext

LEMMA CountCommitBooks ==
    ASSUME Typed, Typed', Tickets, Ledger, NEW p \in Procs, CountCommit(p)
    PROVE  Filed' /\ Booked'
<1> USE DEF Typed
<1> DEFINE b == loc[p].badge
           note == Alert(loc[p].user, b, loc[p].at, loc[p].day)
<1>1. /\ pc[p] = "insert" /\ loc[p] \in CountHand /\ HeldRow(p)
  BY DEF CountCommit, Hands, HandOK, Counting, Holds
<1>2. /\ b \in Badges /\ badges[b] \in Badge /\ badges[b] # None
      /\ badges[b].owner = loc[p].user
  BY <1>1 DEF CountHand, HeldRow, Tables
<1>3. /\ badges' = [badges EXCEPT ![b] = [badges[b] EXCEPT !.created = @ + 1]]
      /\ UNCHANGED <<prefs, origin>>
  BY <1>2 DEF CountCommit, Tables
<1>4. /\ badges'[b].created = badges[b].created + 1 /\ badges[b].created \in Nat
      /\ badges'[b].owner = badges[b].owner
      /\ \A c \in Badges \ {b} : badges'[c] = badges[c]
  BY <1>2, <1>3 DEF Tables, Badge
<1>5. note.type = "alert" /\ note.badge = b /\ note.user = loc[p].user /\ note.at = loc[p].at
  BY DEF Alert
<1>6. note \notin notes
  BY <1>1, <1>5 DEF Tickets, HandTickets, Unused, Counting
<1>7. \/ loc[p].notify /\ notes' = notes \cup {note}
      \/ ~loc[p].notify /\ notes' = notes
  BY DEF CountCommit, Alerted
<1>8. origin[b] # None
  BY <1>2, BadgeTypes, ParticipationAssumption DEF References
<1> HIDE DEF note
<1>9. Filed'
  <2> SUFFICES ASSUME NEW n \in notes', n.type = "alert"
               PROVE  /\ origin'[n.badge] # None
                      /\ badges'[n.badge] # None => badges'[n.badge].owner = n.user
    BY DEF Filed
  <2>1. CASE n = note
    BY <1>2, <1>3, <1>4, <1>5, <1>8, <2>1
  <2>2. CASE n # note
    <3>1. n \in notes
      BY <1>7, <2>2
    <3>2. n.badge \in Badges
      BY <3>1, NoteTypes
    <3> QED BY <1>2, <1>3, <1>4, <3>1, <3>2 DEF Ledger, Filed
  <2> QED BY <2>1, <2>2
<1>10. ASSUME NEW c \in Badges, badges'[c] # None
       PROVE  (/\ Cardinality(Entries(c)) <= badges[c].created
               /\ ~Row(badges[c].owner) => Cardinality(Entries(c)) = badges[c].created)'
  <2>1. badges[c] # None /\ badges'[c].owner = badges[c].owner
    BY <1>2, <1>4, <1>10
  <2>2. Row(badges[c].owner)' <=> Row(badges[c].owner)
    BY <1>3, <2>1 DEF Row
  <2>3. /\ Cardinality(Entries(c)) <= badges[c].created
        /\ ~Row(badges[c].owner) => Cardinality(Entries(c)) = badges[c].created
    BY <2>1 DEF Ledger, Booked
  <2>4. IsFiniteSet(Entries(c)) /\ Cardinality(Entries(c)) \in Nat
    BY EntriesFinite
  <2>5. CASE c # b \/ notes' = notes
    <3>1. Entries(c)' = Entries(c)
      BY <1>5, <1>7, <2>5 DEF Entries
    <3>2. CASE c # b
      BY <1>4, <2>1, <2>2, <2>3, <3>1, <3>2
    <3>3. CASE c = b
      <4>1. ~loc[p].notify
        BY <1>6, <1>7, <2>5, <3>3
      <4>2. Row(badges[c].owner)
        BY <1>1, <1>2, <3>3, <4>1 DEF Ledger, Telling
      <4> QED BY <1>4, <2>2, <2>3, <2>4, <3>1, <3>3, <4>2
    <3> QED BY <3>2, <3>3
  <2>6. CASE c = b /\ notes' = notes \cup {note}
    <3>1. Entries(c)' = Entries(c) \cup {note} /\ note \notin Entries(c)
      BY <1>5, <1>6, <2>6 DEF Entries
    <3>2. Cardinality(Entries(c)') = Cardinality(Entries(c)) + 1
      BY <2>4, <3>1, FS_AddElement
    <3> QED BY <1>4, <2>2, <2>3, <2>4, <2>6, <3>2
  <2> QED BY <1>7, <2>5, <2>6
<1>11. Booked'
  BY <1>10 DEF Booked
<1> QED BY <1>9, <1>11

LEMMA CreateCommitBooks ==
    ASSUME Typed, Typed', Ledger, NEW p \in Procs, CreateCommit(p)
    PROVE  Filed' /\ Booked'
<1> USE DEF Typed
<1>1. PICK b \in Fresh :
        /\ badges' = [badges EXCEPT ![b] = NewBadge(loc[p].user, loc[p].template)]
        /\ origin' = [origin EXCEPT ![b] = loc[p].template]
  BY DEF CreateCommit
<1>2. b \in Badges /\ origin[b] = None
  BY <1>1 DEF Fresh
<1>3. /\ badges'[b] = NewBadge(loc[p].user, loc[p].template)
      /\ \A c \in Badges \ {b} : badges'[c] = badges[c] /\ origin'[c] = origin[c]
  BY <1>1, <1>2 DEF Tables
<1>4. UNCHANGED <<notes, prefs>>
  BY DEF CreateCommit
<1>5. \A n \in notes : n.type = "alert" => n.badge \in Badges \ {b}
  BY <1>2, NoteTypes DEF Ledger, Filed
<1>6. Filed'
  BY <1>3, <1>4, <1>5 DEF Ledger, Filed
<1>7. ASSUME NEW c \in Badges, badges'[c] # None
      PROVE  (/\ Cardinality(Entries(c)) <= badges[c].created
              /\ ~Row(badges[c].owner) => Cardinality(Entries(c)) = badges[c].created)'
  <2>1. Entries(c)' = Entries(c)
    BY <1>4 DEF Entries
  <2>2. CASE c = b
    <3>1. Entries(c) = {}
      BY <1>5, <2>2 DEF Entries
    <3>2. badges'[c].created = 0
      BY <1>3, <2>2 DEF NewBadge
    <3> QED BY <2>1, <3>1, <3>2, FS_EmptySet
  <2>3. CASE c # b
    BY <1>3, <1>4, <1>7, <2>1, <2>3 DEF Ledger, Booked, Row
  <2> QED BY <2>2, <2>3
<1>8. Booked'
  BY <1>7 DEF Booked
<1> QED BY <1>6, <1>8

LEMMA NextBooks ==
    ASSUME Typed, Typed', Tickets, Tickets', Ledger, [DigestsNext]_vars
    PROVE  Filed' /\ Booked'
<1>1. TablesMove
  BY NextMoves
<1>2. ASSUME notes' \subseteq notes PROVE NoNewAlert
  BY <1>2, SameAsItself DEF NoNewAlert, Old
<1>3. ASSUME NoNewAlert, UNCHANGED badges PROVE Filed' /\ Booked'
  BY <1>1, <1>3, BooksStay DEF Ledger
<1>4. CASE BlandNext /\ UNCHANGED job
  <2>1. UNCHANGED notes /\ SameRows
    BY <1>4, BlandSteps DEF Bland
  <2>2. \A b \in Badges : badges'[b] # None =>
           badges[b] # None /\ badges'[b].created = badges[b].created
    BY <1>4, <2>1, BlandCreates DEF SameRows
  <2> QED BY <1>1, <1>2, <2>1, <2>2, BooksStay DEF Ledger
<1>5. CASE ActiveNext /\ UNCHANGED job
  <2>1. ASSUME NEW u \in Users, NEW upd \in Updates, SavePreferences(u, upd),
               UNCHANGED <<badges, templates, origin>>
        PROVE  Filed' /\ Booked'
    BY <1>2, <1>3, <2>1 DEF SavePreferences
  <2>2. ASSUME NEW u \in Users, UNCHANGED <<badges, templates, origin>>,
               (\E n \in notes : MarkRead(u, n)) \/ MarkAllRead(u)
        PROVE  Filed' /\ Booked'
    <3>1. Unread(u) \in SUBSET notes
      BY DEF Unread, Inbox
    <3>2. PICK S \in SUBSET notes : notes' = Read(S)
      BY <2>2, <3>1 DEF MarkRead, MarkAllRead, ReadAll
    <3>3. NoNewAlert
      BY <3>2, Marked DEF NoNewAlert, Typed
    <3> QED BY <1>3, <2>2, <3>3
  <2>3. ASSUME NEW p \in Procs, UNCHANGED <<badges, templates, origin>>,
               (\E u \in Users : WalkStart(p, u)) \/ WalkSlice(p) \/ WalkNext(p)
        PROVE  Filed' /\ Booked'
    BY <1>2, <1>3, <2>3 DEF WalkStart, WalkSlice, WalkNext, noticeVars
  <2>4. ASSUME NEW p \in Procs, NEW b \in Badges, Count(p, b) PROVE Filed' /\ Booked'
    BY <1>2, <1>3, <2>4 DEF Count
  <2>5. ASSUME NEW p \in Procs, CreateCommit(p) PROVE Filed' /\ Booked'
    BY <2>5, CreateCommitBooks
  <2>6. ASSUME NEW p \in Procs, CountCommit(p) PROVE Filed' /\ Booked'
    BY <2>6, CountCommitBooks
  <2>7. ASSUME NEW p \in Procs, Cascade(p) PROVE Filed' /\ Booked'
    <3>1. notes' \subseteq notes
      BY <2>7 DEF Cascade
    <3>2. \A b \in Badges : badges'[b] # None => badges'[b] = badges[b]
      BY <2>7 DEF Cascade
    <3> QED BY <1>1, <1>2, <3>1, <3>2, BooksStay DEF Ledger
  <2>8. ASSUME NEW t \in Templates, DeleteTemplate(t) PROVE Filed' /\ Booked'
    <3>1. notes' \subseteq notes
      BY <2>8 DEF DeleteTemplate, Administer
    <3>2. \A b \in Badges : badges'[b] # None => badges'[b] = badges[b]
      BY <2>8 DEF DeleteTemplate
    <3> QED BY <1>1, <1>2, <3>1, <3>2, BooksStay DEF Ledger
  <2> QED BY <1>5, <2>1, <2>2, <2>3, <2>4, <2>5, <2>6, <2>7, <2>8 DEF ActiveNext
<1>6. ASSUME NEW k \in Kinds, JobStart(k) \/ JobStep(k) \/ JobCut(k)
      PROVE  Filed' /\ Booked'
  <2>1. Works(k)
    BY <1>6, WorkSteps DEF Typed
  <2>2. UNCHANGED badges
    BY <2>1 DEF Works
  <2>3. notes' = notes \/ OnSend(k)
    BY <2>1 DEF Works, OnStart, OnOwners, OnTargets, OnCounts, OnLook, OnAsk, OnSkip, Begins,
                OnPerDay, OnSend, OnDone, OnEnd
  <2>4. CASE notes' = notes
    BY <1>2, <1>3, <2>2, <2>4
  <2>5. CASE OnSend(k)
    <3>1. notes' = notes \cup {Letter(k)} /\ Letter(k).type = k
      BY <2>5 DEF OnSend, Letter, Digest
    <3>2. NoNewAlert
      BY <3>1, SameAsItself DEF NoNewAlert, Old, Kinds
    <3> QED BY <1>3, <2>2, <3>2
  <2> QED BY <2>3, <2>4, <2>5
<1>7. CASE UNCHANGED vars
  BY <1>2, <1>3, <1>7 DEF vars
<1> QED BY <1>4, <1>5, <1>6, <1>7, TwoKinds DEF DigestsNext

(* A request stands before its insert because it was there already, or has *)
(* just looked.                                                            *)
InsertStays ==
    \A p \in Procs : pc'[p] = "insert" =>
       (pc[p] = "insert" /\ loc'[p] = loc[p]) \/ AlertRead(p)

LEMMA Inserts ==
    ASSUME Hands, [DigestsNext]_vars
    PROVE  InsertStays
<1>1. ASSUME UNCHANGED <<pc, loc>> PROVE InsertStays
  BY <1>1 DEF InsertStays
<1>2. ASSUME NEW p \in Procs, NEW step, NEW held, Moves(p, step, held), step # "insert"
      PROVE  InsertStays
  BY <1>2 DEF InsertStays, Moves
<1>3. ASSUME NEW p \in Procs, Finish(p) PROVE InsertStays
  <2>1. Moves(p, "idle", None)
    BY <1>3, Moving DEF Hands
  <2> QED BY <1>2, <2>1
<1>4. ASSUME NEW p \in Procs, NEW step, NEW held, step # "insert",
             Accept(p, step, held) \/ Goto(p, step, held)
      PROVE  InsertStays
  <2>1. Moves(p, step, held)
    BY <1>4, Moving DEF Hands
  <2> QED BY <1>2, <1>4, <2>1
<1>5. ASSUME NEW p \in Procs, AlertRead(p) PROVE InsertStays
  <2>1. Moves(p, "insert", [loc[p] EXCEPT !.notify = Allows(loc[p].user, "alert")])
    BY <1>5, Moving DEF Hands, AlertRead
  <2> QED BY <1>5, <2>1 DEF InsertStays, Moves
<1>6. ASSUME NEW p \in Procs, NEW u \in Users, DeleteAccount(p, u) PROVE InsertStays
  BY <1>4, <1>6 DEF DeleteAccount
<1>7. ASSUME NEW p \in Procs, NEW u \in Users, NEW t \in Templates, CreateBadge(p, u, t)
      PROVE  InsertStays
  BY <1>4, <1>7 DEF CreateBadge
<1>8. ASSUME NEW p \in Procs, NEW b \in Badges, Duplicate(p, b) \/ Count(p, b) \/ Share(p, b)
      PROVE  InsertStays
  BY <1>4, <1>8 DEF Duplicate, Count, Share
<1>9. ASSUME NEW p \in Procs, NEW u \in Users, WalkStart(p, u) PROVE InsertStays
  BY <1>4, <1>9 DEF WalkStart
<1>10. ASSUME NEW p \in Procs, WalkSlice(p) \/ WalkNext(p) PROVE InsertStays
  <2>1. \E step \in {"slice", "next", "walked"} : \E held : Goto(p, step, held)
    BY <1>10 DEF WalkSlice, WalkNext
  <2> QED BY <1>4, <2>1
<1>11. ASSUME NEW p \in Procs,
              \/ WalkEnd(p) \/ CreateCommit(p) \/ CountCommit(p) \/ ShareCount(p) \/ Cascade(p)
              \/ Abort(p)
       PROVE  InsertStays
  BY <1>3, <1>11 DEF WalkEnd, CreateCommit, CountCommit, ShareCount, Cascade, Abort
<1>12. ASSUME NEW p \in Procs, NEW q \in Procs, Resolve(p, q) PROVE InsertStays
  BY <1>3, <1>12 DEF Resolve
<1>13. ASSUME NotificationsNext PROVE InsertStays
  BY <1>1, <1>9, <1>10, <1>11, <1>13
     DEF NotificationsNext, SavePreferences, MarkRead, MarkAllRead, AtOnce
<1>14. CASE Tick
  BY <1>1, <1>14 DEF Tick, requestVars
<1>15. ASSUME NEW b \in Badges, Publish(b) \/ Unpublish(b) \/ DeleteBadge(b) PROVE InsertStays
  BY <1>1, <1>15 DEF Publish, Unpublish, DeleteBadge, Write, AtOnce
<1>16. ASSUME NEW t \in Templates,
              DeleteTemplate(t) \/ \E v \in BOOLEAN : CreateTemplate(t, v) \/ UpdateTemplate(t, v)
       PROVE  InsertStays
  BY <1>1, <1>16 DEF DeleteTemplate, CreateTemplate, UpdateTemplate, Administer, AtOnce
<1>17. CASE ParticipationNext
  BY <1>5, <1>6, <1>7, <1>8, <1>11, <1>12, <1>13, <1>14, <1>15, <1>16, <1>17
     DEF ParticipationNext
<1>18. ASSUME NEW k \in Kinds, JobStart(k) \/ JobStep(k) \/ JobCut(k)
       PROVE  UNCHANGED <<pc, loc>>
  <2>1. PICK held : Step(k, held)
    BY <1>18 DEF JobStart, JobStep, JobCut, JobOwners, JobTargets, JobCounts, Send, JobDone,
                 DailyLook, WeeklyLook, PerDay, Look, Kinds
  <2> QED BY <2>1 DEF Step, requestVars
<1>19. CASE UNCHANGED vars
  BY <1>1, <1>19 DEF vars
<1> QED BY <1>1, <1>17, <1>18, <1>19 DEF DigestsNext

LEMMA NextTelling ==
    ASSUME Typed, Typed', Telling, [DigestsNext]_vars
    PROVE  Telling'
<1>1. TablesMove /\ InsertStays
  BY NextMoves, Inserts DEF Typed
<1> SUFFICES ASSUME NEW p \in Procs, pc'[p] = "insert", (~Row(loc[p].user))'
             PROVE  loc'[p].notify
  BY DEF Telling
<1>2. PICK u \in users' : u = loc'[p].user
  <2>1. loc'[p] \in CountHand /\ HeldRow(p)'
    BY DEF Typed, Hands, HandOK, Holds, Counting
  <2> QED BY <2>1 DEF CountHand, HeldRow, Typed, References
<1>3. ~Row(u)'
  BY <1>2 DEF Row
<1>4. ~Row(u)
  BY <1>1, <1>3, RowStays DEF TablesMove
<1>5. CASE pc[p] = "insert" /\ loc'[p] = loc[p]
  BY <1>2, <1>4, <1>5 DEF Telling
<1>6. CASE AlertRead(p)
  <2>1. Moves(p, "insert", [loc[p] EXCEPT !.notify = Allows(loc[p].user, "alert")])
    BY <1>6, Moving DEF Typed, Hands, AlertRead
  <2>2. loc[p] \in CountHand
    BY <1>6 DEF Typed, Hands, HandOK, AlertRead, Counting
  <2>3. loc'[p].notify = Allows(loc[p].user, "alert") /\ loc'[p].user = loc[p].user
    BY <2>1, <2>2 DEF Moves, CountHand
  <2>4. Allows(u, "alert")
    BY <1>4 DEF Row, NoPrefs, Allows, Toggles
  <2> QED BY <1>2, <2>3, <2>4
<1> QED BY <1>1, <1>5, <1>6 DEF InsertStays

(* Badges are counted when they are made, and a template starts from none. *)
SameTotals ==
    /\ origin' = origin
    /\ \A t \in Templates :
          /\ templates'[t].total = templates[t].total
          /\ templates'[t].stage = "new" => templates[t].stage = "new"

LEMMA TotalsStay ==
    ASSUME Tables, Totals, [DigestsNext]_vars, \A p \in Procs : ~CreateCommit(p)
    PROVE  SameTotals
<1>1. ASSUME UNCHANGED <<templates, origin>> PROVE SameTotals
  BY <1>1 DEF SameTotals
<1>2. ASSUME NEW t \in Templates, DeleteTemplate(t) PROVE SameTotals
  BY <1>2 DEF DeleteTemplate, Administer, SameTotals, Tables, Template
<1>3. ASSUME NEW t \in Templates, NEW v \in BOOLEAN, UpdateTemplate(t, v) PROVE SameTotals
  BY <1>3 DEF UpdateTemplate, Administer, SameTotals, Tables, Template
<1>4. ASSUME NEW t \in Templates, NEW v \in BOOLEAN, CreateTemplate(t, v) PROVE SameTotals
  <2>1. templates' = [templates EXCEPT ![t] = [stage |-> "stored", active |-> v, total |-> 0]]
        /\ origin' = origin /\ templates[t].stage = "new"
    BY <1>4 DEF CreateTemplate, Administer
  <2>2. templates[t].total = 0
    BY <2>1 DEF Totals
  <2> QED BY <2>1, <2>2 DEF SameTotals, Tables
<1>5. ASSUME NEW p \in Procs,
             \/ \E u \in Users : DeleteAccount(p, u) \/ \E t \in Templates : CreateBadge(p, u, t)
             \/ \E b \in Badges : Duplicate(p, b) \/ Count(p, b) \/ Share(p, b)
             \/ AlertRead(p) \/ CountCommit(p) \/ ShareCount(p) \/ Cascade(p) \/ Abort(p)
             \/ \E q \in Procs : Resolve(p, q)
      PROVE  UNCHANGED <<templates, origin>>
  BY <1>5 DEF DeleteAccount, CreateBadge, Duplicate, Count, Share, AlertRead, CountCommit,
              ShareCount, Cascade, Abort, Resolve, siteVars
<1>6. ASSUME NEW b \in Badges, Publish(b) \/ Unpublish(b) \/ DeleteBadge(b)
      PROVE  UNCHANGED <<templates, origin>>
  BY <1>6 DEF Publish, Unpublish, DeleteBadge, Write
<1>7. CASE ParticipationNext
  BY <1>1, <1>2, <1>3, <1>4, <1>5, <1>6, <1>7 DEF ParticipationNext
<1>8. ASSUME NEW k \in Kinds, JobStart(k) \/ JobStep(k) \/ JobCut(k)
      PROVE  UNCHANGED <<templates, origin>>
  BY <1>8 DEF JobStart, JobStep, JobCut, JobOwners, JobTargets, JobCounts, Send, JobDone,
              DailyLook, WeeklyLook, PerDay, Look, Kinds, siteVars
<1> QED BY <1>1, <1>7, <1>8 DEF DigestsNext, vars

LEMMA NextTotals ==
    ASSUME Typed, Totals, [DigestsNext]_vars
    PROVE  Totals'
<1> USE DEF Typed
<1>1. CASE SameTotals
  BY <1>1 DEF SameTotals, Totals
<1>2. ASSUME NEW p \in Procs, CreateCommit(p) PROVE Totals'
  <2>0. PICK t : t = loc[p].template
    OBVIOUS
  <2> DEFINE From(s) == {b \in Badges : origin[b] = s}
  <2>1. PICK b \in Fresh : origin' = [origin EXCEPT ![b] = t]
    BY <1>2, <2>0 DEF CreateCommit
  <2>2. b \in Badges /\ origin[b] = None /\ b \notin From(t)
    BY <1>2, <2>0, <2>1, ParticipationAssumption DEF Fresh, CreateCommit, Hands, HandOK
  <2>3. t \in Templates /\ Stored(t) /\ templates' = Counted(t)
    BY <1>2, <2>0 DEF CreateCommit, Hands, HandOK, RefersTo
  <2>4. \A s \in Templates : IsFiniteSet(From(s)) /\ Cardinality(From(s)) \in Nat
    BY BadgesFinite, PartOfFinite
  <2>5. \A s \in Templates \ {t} : From(s)' = From(s) /\ templates'[s] = templates[s]
    BY <2>1, <2>2, <2>3, ParticipationAssumption DEF Tables, Counted
  <2>6. From(t)' = From(t) \cup {b}
    <3>1. origin'[b] = t /\ \A c \in Badges \ {b} : origin'[c] = origin[c]
      BY <2>1, <2>2 DEF Tables
    <3> QED BY <2>2, <3>1
  <2>7. Cardinality(From(t) \cup {b}) = Cardinality(From(t)) + 1
    BY <2>2, <2>3, <2>4, FS_AddElement
  <2>8. templates'[t].total = templates[t].total + 1 /\ templates'[t].stage = "stored"
    BY <2>3 DEF Counted, Tables, Template, Stored
  <2>9. \A s \in Templates : /\ templates[s].total = Cardinality(From(s))
                             /\ templates[s].stage = "new" => templates[s].total = 0
    BY DEF Totals
  <2>10. \A s \in Templates : /\ templates'[s].total = Cardinality(From(s)')
                              /\ templates'[s].stage = "new" => templates'[s].total = 0
    <3>1. Cardinality(From(t)') = templates'[t].total
      BY <2>3, <2>6, <2>7, <2>8, <2>9
    <3> QED BY <2>5, <2>8, <2>9, <3>1
  <2> QED BY <2>10 DEF Totals
<1> QED BY <1>1, <1>2, TotalsStay

LEMMA NextLedger ==
    ASSUME Typed, Typed', Tickets, Tickets', Ledger, [DigestsNext]_vars
    PROVE  Ledger'
BY NextBooks, NextTelling, NextTotals DEF Ledger

LEMMA InitLedger == DigestsInit => Ledger
<1> SUFFICES ASSUME DigestsInit PROVE Ledger
  OBVIOUS
<1>1. ParticipationInit /\ Tables
  BY InitTables DEF DigestsInit
<1> DEFINE about(b) == {i \in DOMAIN Past : Past[i].badge = b}
           note(i) == Alert(Founded[Past[i].badge].owner, Past[i].badge, i, Past[i].day)
<1>2. notes = {note(i) : i \in DOMAIN Past}
  BY <1>1 DEF ParticipationInit
<1>3. \A i \in DOMAIN Past : /\ note(i).type = "alert" /\ note(i).badge = Past[i].badge
                             /\ note(i).at = i
                             /\ note(i).user = Founded[Past[i].badge].owner
  BY DEF Alert
<1>4. \A b \in DOMAIN Founded : /\ badges[b].created = Cardinality(about(b))
                                /\ badges[b].owner = Founded[b].owner
                                /\ origin[b] = Founded[b].template
  BY <1>1, Beginnings DEF ParticipationInit, NewBadge
<1>5. \A b \in Badges \ DOMAIN Founded : badges[b] = None /\ origin[b] = None
  BY <1>1 DEF ParticipationInit
<1>6. Filed
  <2> SUFFICES ASSUME NEW i \in DOMAIN Past
               PROVE  /\ origin[Past[i].badge] # None
                      /\ badges[Past[i].badge].owner = Founded[Past[i].badge].owner
    BY <1>2, <1>3 DEF Filed
  <2> QED BY <1>4, Beginnings, ParticipationAssumption
<1>7. ASSUME NEW b \in DOMAIN Founded PROVE Cardinality(Entries(b)) = Cardinality(about(b))
  <2> DEFINE f == [i \in about(b) |-> note(i)]
  <2>1. Entries(b) = {note(i) : i \in about(b)}
    BY <1>2, <1>3 DEF Entries
  <2>2. f \in Bijection(about(b), Entries(b))
    BY <1>3, <2>1 DEF Bijection, Injection, Surjection, IsInjective
  <2>3. IsFiniteSet(about(b))
    BY Beginnings, PartOfFinite
  <2> HIDE DEF about, f
  <2>4. Cardinality(about(b)) = Cardinality(Entries(b))
    BY <2>2, <2>3, FS_Bijection DEF ExistsBijection
  <2> QED BY <2>4
<1>8. Booked
  <2> SUFFICES ASSUME NEW b \in DOMAIN Founded
               PROVE  /\ Cardinality(Entries(b)) <= badges[b].created
                      /\ Cardinality(Entries(b)) = badges[b].created
    BY <1>5 DEF Booked
  <2>1. Cardinality(Entries(b)) \in Nat
    BY <1>1, EntriesFinite
  <2>2. Cardinality(Entries(b)) = badges[b].created
    <3>1. badges[b].created = Cardinality(about(b)) /\ Cardinality(Entries(b)) = Cardinality(about(b))
      BY <1>4, <1>7
    <3> QED BY ONLY <3>1
  <2> QED BY <2>1, <2>2
<1>9. Telling
  BY <1>1 DEF ParticipationInit, RequestsInit, Telling
<1>10. Totals
  <2> SUFFICES ASSUME NEW t \in Templates
               PROVE  /\ templates[t].total = Cardinality({b \in Badges : origin[b] = t})
                      /\ templates[t].stage = "new" => templates[t].total = 0
    BY DEF Totals
  <2> DEFINE from == {b \in DOMAIN Founded : Founded[b].template = t}
  <2>1. {b \in Badges : origin[b] = t} = from
    BY <1>4, <1>5, Beginnings, ParticipationAssumption
  <2>2. /\ templates[t].total = Cardinality(from)
        /\ templates[t].stage = IF from = {} THEN "new" ELSE "stored"
    BY <1>1 DEF ParticipationInit
  <2> HIDE DEF from
  <2> QED BY <2>1, <2>2, FS_EmptySet
<1> QED BY <1>6, <1>8, <1>9, <1>10 DEF Ledger

LEMMA LedgerAgrees ==
    ASSUME Typed, Ledger
    PROVE  CountersAgree
<1> USE DEF Typed
<1>1. ASSUME NEW u \in users
      PROVE  LET told == {n \in Inbox(u) : n.type = "alert" /\ Live(n.badge)} IN
             /\ Cardinality(told) <= Analytics(u).creations
             /\ ~Row(u) => Cardinality(told) = Analytics(u).creations
  <2> DEFINE told == {n \in Inbox(u) : n.type = "alert" /\ Live(n.badge)}
             S == Mine(u)
             f == [b \in S |-> badges[b].created]
             k == [n \in told |-> n.badge]
  <2>1. Analytics(u).creations = SumFunctionOnSet(f, S)
    BY DEF Analytics, SumFunction
  <2>2. S \subseteq Badges /\ IsFiniteSet(S)
    <3>1. S \subseteq Badges
      BY DEF Mine, Owned
    <3> QED BY <3>1, BadgesFinite, PartOfFinite
  <2>3. \A b \in S : f[b] = badges[b].created /\ f[b] \in Nat
    BY DEF Mine, Owned, Tables, Badge
  <2>4. IsFiniteSet(told)
    BY InboxFinite, PartOfFinite
  <2>5. \A n \in told : k[n] \in S
    <3>1. \A n \in told : n.badge \in Badges
      BY NoteTypes DEF Inbox
    <3> QED BY <3>1 DEF Inbox, Live, Mine, Owned, Ledger, Filed
  <2>6. ASSUME NEW b \in S PROVE  Box(told, k, b) = Entries(b)
    BY DEF Box, Entries, Inbox, Mine, Owned, Live, Ledger, Filed
  <2>7. \A b \in S : /\ Cardinality(Box(told, k, b)) <= f[b]
                     /\ ~Row(u) => Cardinality(Box(told, k, b)) = f[b]
    BY <2>2, <2>3, <2>6 DEF Mine, Owned, Ledger, Booked
  <2>8. Sorted(told, k, S, f) /\ (~Row(u) => Full(told, k, S, f))
    <3> HIDE DEF told, S, f, k
    <3> QED BY <2>2, <2>3, <2>4, <2>5, <2>7 DEF Sorted, Full
  <2>9. /\ Cardinality(told) <= SumFunctionOnSet(f, S)
        /\ ~Row(u) => Cardinality(told) = SumFunctionOnSet(f, S)
    <3> HIDE DEF told, S, f, k
    <3> QED BY ONLY <2>8, SumOfFibres
  <2> QED BY <2>1, <2>9
<1> QED BY <1>1 DEF CountersAgree, Ledger, Totals

(* At every moment each organiser has been notified of at most as many      *)
(* creations as the dashboard adds up from the badges' counters, and of all *)
(* of them as long as the preferences have not been touched; a template's   *)
(* counter is the number of badges ever made from it.                       *)
THEOREM CountsAgree == DigestsSpec => []CountersAgree
<1> DEFINE Inv == Typed /\ Tickets /\ Ledger
<1>1. DigestsInit => Inv
  BY InitTyped, InitTickets, InitLedger
<1>2. Inv /\ [DigestsNext]_vars => Inv'
  BY NextTyped, NextTickets, NextLedger
<1>3. Inv => CountersAgree
  BY LedgerAgrees
<1> QED BY <1>1, <1>2, <1>3, PTL DEF DigestsSpec
=============================================================================

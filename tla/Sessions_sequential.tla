------------------------ MODULE Sessions_sequential ------------------------
(***************************************************************************)
(* Proofs about Sessions when no two requests overlap: what the code       *)
(* promises of refreshes and revocations holds then, crashes included.     *)
(***************************************************************************)
EXTENDS Sessions_proofs

OneHandler == \A p, q \in Procs : p = q

Unrevoked(t) == t \in Stored /\ ~row[t].revoked

OneUnrevoked ==
    \A t, d \in Tokens :
       Unrevoked(t) /\ Unrevoked(d) /\ row[t].family = row[d].family => t = d

(* The one handler holds an unrevoked token, no revocation has overtaken    *)
(* it, and a bulk statement that it has started saw every token there is.   *)
UpToDate ==
    /\ late = {}
    /\ \A p \in Procs :
          /\ pc[p] \in {"refresh", "rotate"} => Unrevoked(loc[p].tok) /\ ~loc[p].late
          /\ pc[p] = "apply" => loc[p].seen = Issued

SeqInv == OneUnrevoked /\ UpToDate

(* How the one handler comes to be refreshing or about to revoke.           *)
LEMMA Moves ==
    ASSUME TypeOK, OneHandler, [Next]_vars, NEW q \in Procs,
           pc'[q] \in {"refresh", "rotate", "apply"}
    PROVE  \/ \E t \in Tokens : RefreshRead(q, t)
           \/ RefreshBlacklist(q) \/ BulkSnapshot(q)
           \/ /\ pc'[q] = pc[q] /\ UNCHANGED <<row, jwt, loc>>
              /\ now' = now \/ now' = now + 2
<1> USE DEF Start, Goto, Finish, TypeOK
<1>a. \A p \in Procs : p = q
  BY DEF OneHandler
<1>1. ASSUME NEW p \in Procs, NEW u \in Users, SigninRead(p, u) \/ ResetPassword(p, u) PROVE FALSE
  BY <1>1, <1>a DEF SigninRead, ResetPassword
<1>2. ASSUME NEW p \in Procs, NEW t \in Tokens,
             ReuseRead(p, t) \/ LogoutAll(p, t) \/ ChangePassword(p, t) \/ DeleteProfile(p, t)
      PROVE  FALSE
  BY <1>2, <1>a DEF ReuseRead, LogoutAll, ChangePassword, DeleteProfile
<1>3. ASSUME NEW p \in Procs, ChangePasswordLogout(p) \/ \E t \in Tokens : Logout(p, t)
      PROVE  FALSE
  BY <1>3, <1>a DEF ChangePasswordLogout, Logout, LogoutSelect
<1>4. ASSUME NEW p \in Procs,
             \/ SigninCommit(p) \/ RefreshCommit(p) \/ LogoutCommit(p) \/ Blacklist(p)
             \/ ChangePasswordCommit(p) \/ DeleteCommit(p) \/ Abort(p)
      PROVE  FALSE
  BY <1>4, <1>a DEF SigninCommit, RefreshCommit, LogoutCommit, Blacklist,
     ChangePasswordCommit, DeleteCommit, Abort
<1>5. ASSUME NEW p \in Procs, BulkApply(p) PROVE FALSE
  BY <1>5, <1>a DEF BulkApply
<1>6. CASE Tick \/ UNCHANGED vars
  BY <1>6 DEF Tick, Tables, vars
<1> QED BY <1>a, <1>1, <1>2, <1>3, <1>4, <1>5, <1>6 DEF Next

LEMMA MovesKeep ==
    ASSUME HandlerInv, HandlerInv', Parity, SeqInv, OneHandler, [Next]_vars, NEW q \in Procs
    PROVE  /\ pc'[q] \in {"refresh", "rotate"} => Unrevoked(loc[q].tok)' /\ ~loc'[q].late
           /\ pc'[q] = "apply" => loc'[q].seen = Issued'
<1> USE DEF SeqInv, UpToDate
<1> SUFFICES ASSUME pc'[q] \in {"refresh", "rotate", "apply"}
             PROVE  /\ pc'[q] \in {"refresh", "rotate"}
                          => Unrevoked(loc[q].tok)' /\ ~loc'[q].late
                    /\ pc'[q] = "apply" => loc'[q].seen = Issued'
  OBVIOUS
<1>a. pc \in [Procs -> Steps] /\ loc \in [Procs -> Local]
  BY DEF HandlerInv, TypeOK
<1>1. ASSUME NEW t \in Tokens, RefreshRead(q, t)
      PROVE  pc'[q] = "refresh" /\ Unrevoked(loc[q].tok)' /\ ~loc'[q].late
  BY <1>1, <1>a DEF RefreshRead, Start, Tables, NoLocal, Accepted, Unrevoked, Stored
<1>2. CASE RefreshBlacklist(q)
  BY <1>2, <1>a DEF RefreshBlacklist, Goto, Unrevoked, Stored
<1>3. CASE BulkSnapshot(q)
  BY <1>3, <1>a DEF BulkSnapshot, Start, Tables, Local, Issued
<1>4. CASE pc'[q] = pc[q] /\ UNCHANGED <<row, jwt, loc>>
  BY <1>4 DEF Unrevoked, Stored, Issued
<1> QED BY <1>1, <1>2, <1>3, <1>4, Moves DEF HandlerInv

(* A step that adds no row keeps at most one unrevoked row of a family.     *)
LEMMA NoneAdded ==
    ASSUME OneUnrevoked, \A t \in Stored' : RowKept(t)
    PROVE  OneUnrevoked'
BY DEF OneUnrevoked, Unrevoked, RowKept, Stored

LEMMA SigninAlone ==
    ASSUME HandlerInv, LateInv, SeqInv, NEW p \in Procs, SigninCommit(p)
    PROVE  OneUnrevoked' /\ late' = {}
<1>1. Fresh \in Tokens /\ Fresh \notin Issued
  BY FreshToken DEF SigninCommit
<1>2. row' = [row EXCEPT ![Fresh] = NewRow(loc[p].user, Fresh, loc[p].at)] /\ late' = late
  BY DEF SigninCommit, Issue
<1>3. \A t \in Stored : row[t].family # Fresh
  BY <1>1 DEF LateInv, FamilyOwner
<1>4. \A t \in Tokens \ {Fresh} : row'[t] = row[t]
  BY <1>2 DEF HandlerInv, TypeOK
<1>5. row'[Fresh].family = Fresh
  BY <1>1, <1>2 DEF HandlerInv, TypeOK, NewRow
<1>6. OneUnrevoked'
  BY <1>3, <1>4, <1>5 DEF OneUnrevoked, Unrevoked, Stored, SeqInv
<1> QED BY <1>2, <1>6 DEF SeqInv, UpToDate

(* The token a refresh rotates is the only unrevoked one of its family; the *)
(* new one takes its place.                                                 *)
LEMMA RefreshAlone ==
    ASSUME HandlerInv, SeqInv, NEW p \in Procs, RefreshCommit(p)
    PROVE  OneUnrevoked' /\ late' = {}
<1> DEFINE t == loc[p].tok
<1>1. Fresh \in Tokens /\ Fresh \notin Issued
  BY FreshToken DEF RefreshCommit
<1>2. /\ row' = [[row EXCEPT ![t] = Rotated(row[t], loc[p].at)]
                    EXCEPT ![Fresh] = NewRow(loc[p].user, loc[p].fam, loc[p].at)]
      /\ t \in Stored /\ pc[p] = "rotate"
  BY DEF RefreshCommit, Issue
<1>3. t \in Tokens /\ row[t] \in Row /\ t # Fresh
  BY <1>1, <1>2, StoredRow DEF Stored, HandlerInv, RowsOK
<1>4. Unrevoked(t) /\ row[t].family = loc[p].fam /\ late = {} /\ ~loc[p].late
  BY <1>2, <1>3 DEF SeqInv, UpToDate, HandlerInv, HandlersOK, Refreshing
<1>5. /\ row'[t].revoked
      /\ row'[Fresh].family = row[t].family
      /\ \A d \in Tokens \ {t, Fresh} : row'[d] = row[d]
  BY <1>1, <1>2, <1>3, <1>4 DEF HandlerInv, TypeOK, Rotated, NewRow, Row
<1> HIDE DEF t
<1>6. OneUnrevoked'
  BY <1>3, <1>4, <1>5 DEF SeqInv, OneUnrevoked, Unrevoked, Stored
<1>7. late' = {}
  BY <1>4 DEF RefreshCommit, t
<1> QED BY <1>6, <1>7

(* A bulk statement that nothing overlaps misses nothing.                   *)
LEMMA ApplyAlone ==
    ASSUME HandlerInv, SeqInv, NEW p \in Procs, BulkApply(p)
    PROVE  OneUnrevoked' /\ late' = {}
<1>1. Stored \subseteq loc[p].seen /\ late = {}
  BY DEF BulkApply, SeqInv, UpToDate, HandlerInv, RowsOK
<1>2. late' = {}
  BY <1>1 DEF BulkApply
<1>3. \A t \in Tokens : row'[t] = row[t] \/ row'[t] = Struck(loc[p].op, row[t])
  BY DEF BulkApply
<1>4. \A t \in Stored' : RowKept(t)
  <2> SUFFICES ASSUME NEW t \in Stored' PROVE RowKept(t)
    OBVIOUS
  <2>1. t \in Tokens /\ row'[t] # NoRow
    BY DEF Stored
  <2>2. CASE row'[t] = row[t]
    BY <2>1, <2>2 DEF RowKept, Stored
  <2>3. CASE row'[t] = Struck(loc[p].op, row[t])
    <3>1. row[t] # NoRow /\ row'[t] = [row[t] EXCEPT !.revoked = TRUE]
      BY <2>1, <2>3 DEF Struck
    <3>2. row[t] \in Row
      BY <2>1, <3>1 DEF HandlerInv, TypeOK
    <3> QED BY <2>1, <3>1, <3>2 DEF RowKept, Stored, Row
  <2> QED BY <1>3, <2>1, <2>2, <2>3
<1>5. OneUnrevoked'
  BY <1>4, NoneAdded DEF SeqInv
<1> QED BY <1>2, <1>5

LEMMA SeqStep ==
    ASSUME OneHandler, HandlerInv, HandlerInv', LateInv, SeqInv, [Next]_vars
    PROVE  SeqInv'
<1>1. OneUnrevoked' /\ late' = {}
  <2>1. CASE \E p \in Procs : SigninCommit(p)
    BY <2>1, SigninAlone
  <2>2. CASE \E p \in Procs : RefreshCommit(p)
    BY <2>2, RefreshAlone
  <2>3. CASE \E p \in Procs : BulkApply(p)
    BY <2>3, ApplyAlone
  <2>4. CASE \A p \in Procs : ~SigninCommit(p) /\ ~RefreshCommit(p) /\ ~BulkApply(p)
    BY <2>4, QuietSteps, NoneAdded DEF Quiet, SeqInv, UpToDate
  <2> QED BY <2>1, <2>2, <2>3, <2>4
<1>2. \A q \in Procs :
         /\ pc'[q] \in {"refresh", "rotate"} => Unrevoked(loc[q].tok)' /\ ~loc'[q].late
         /\ pc'[q] = "apply" => loc'[q].seen = Issued'
  BY MovesKeep DEF LateInv
<1> QED BY <1>1, <1>2 DEF SeqInv, UpToDate

LEMMA SeqCorrect ==
    ASSUME OneHandler
    PROVE  Spec => []SeqInv
<1>1. Init => SeqInv
  BY DEF Init, SeqInv, OneUnrevoked, UpToDate, Unrevoked, Stored
<1>2. HandlerInv /\ HandlerInv' /\ LateInv /\ SeqInv /\ [Next]_vars => SeqInv'
  BY SeqStep
<1> QED BY <1>1, <1>2, HandlerCorrect, LateCorrect, PTL DEF Spec

(* Served one at a time, however requests break off, refreshes leave a      *)
(* session one active token.                                                *)
THEOREM OneTokenPerSession ==
    ASSUME OneHandler
    PROVE  Spec => []OneActivePerFamily
<1>1. SeqInv => OneActivePerFamily
  BY DEF SeqInv, OneUnrevoked, Unrevoked, OneActivePerFamily, Active
<1> QED BY <1>1, SeqCorrect, PTL

(* Served one at a time, reuse detection, logout-all and a password reset   *)
(* leave nothing active of the sessions they end.                           *)
THEOREM RevocationTotal ==
    ASSUME OneHandler
    PROVE  Spec => []EndedMeansDead
<1>1. SeqInv /\ LateInv => EndedMeansDead
  BY DEF SeqInv, UpToDate, LateInv, SurvivorsAreLate, EndedMeansDead
<1> QED BY <1>1, SeqCorrect, LateCorrect, PTL
----------------------------------------------------------------------------
(***************************************************************************)
(* Sessions, with one handler, implements SessionPromise.  The refinement  *)
(* needs two more facts: every row belongs to a session that a sign-in     *)
(* opened, and what a bulk statement has chosen is still what it is for,   *)
(* all of it but what has expired meanwhile.                               *)
(***************************************************************************)
RootsOK == \A t \in Stored : Root(row[t].family)

Chosen ==
    \A p \in Procs : pc[p] = "apply" =>
       /\ loc[p].op \in {"reuse", "logoutAll", "reset"}
       /\ Matched(loc[p].op, loc[p].user, loc[p].fam) \subseteq loc[p].snap
       /\ loc[p].snap \subseteq Stored
       /\ \A t \in loc[p].snap : IF loc[p].op = "reuse" THEN row[t].family = loc[p].fam
                                 ELSE row[t].user = loc[p].user

PInv == HandlerInv /\ LateInv /\ SeqInv /\ RootsOK /\ Chosen

LEMMA RootsStep ==
    ASSUME HandlerInv, HandlerInv', RootsOK, [Next]_vars
    PROVE  RootsOK'
<1>1. ASSUME UNCHANGED <<jwt, origin>>, \A t \in Stored' : RowKept(t)
      PROVE  RootsOK'
  BY <1>1 DEF RootsOK, Root, Parent, Issued, RowKept
<1>2. ASSUME NEW p \in Procs, SigninCommit(p) PROVE RootsOK'
  <2>1. Fresh \in Tokens /\ Fresh \notin Issued
    BY <1>2, FreshToken DEF SigninCommit
  <2>2. /\ row' = [row EXCEPT ![Fresh] = NewRow(loc[p].user, Fresh, loc[p].at)]
        /\ origin' = [origin EXCEPT ![Fresh] = [parent |-> NoToken, by |-> p]]
        /\ jwt' = [jwt EXCEPT ![Fresh] = [sub |-> loc[p].user, exp |-> now + AccessLife]]
    BY <1>2 DEF SigninCommit, Issue
  <2>3. \A t \in Issued : t # Fresh /\ t \in Issued' /\ origin'[t] = origin[t]
    BY <2>1, <2>2 DEF Issued, HandlerInv, TypeOK
  <2>4. \A t \in Tokens \ {Fresh} : row'[t] = row[t]
    BY <2>2 DEF HandlerInv, TypeOK
  <2>5. row'[Fresh].family = Fresh /\ row'[Fresh] # NoRow
    BY <2>1, <2>2 DEF HandlerInv, TypeOK, NewRow, NoRow
  <2>6. Fresh \in Issued' /\ origin'[Fresh].parent = NoToken
    BY <2>1, <2>2, <2>5 DEF HandlerInv, TypeOK, RowsOK, Stored
  <2> QED BY <2>3, <2>4, <2>5, <2>6 DEF RootsOK, Root, Parent, Stored
<1>3. ASSUME NEW p \in Procs, RefreshCommit(p) PROVE RootsOK'
  <2> DEFINE t == loc[p].tok
  <2>1. Fresh \in Tokens /\ Fresh \notin Issued
    BY <1>3, FreshToken DEF RefreshCommit
  <2>2. /\ row' = [[row EXCEPT ![t] = Rotated(row[t], loc[p].at)]
                      EXCEPT ![Fresh] = NewRow(loc[p].user, loc[p].fam, loc[p].at)]
        /\ origin' = [origin EXCEPT ![Fresh] = [parent |-> t, by |-> p]]
        /\ jwt' = [jwt EXCEPT ![Fresh] = [sub |-> loc[p].user, exp |-> now + AccessLife]]
        /\ t \in Stored /\ pc[p] = "rotate"
    BY <1>3 DEF RefreshCommit, Issue
  <2>3. \A x \in Issued : x # Fresh /\ x \in Issued' /\ origin'[x] = origin[x]
    BY <2>1, <2>2 DEF Issued, HandlerInv, TypeOK
  <2>4. t \in Tokens /\ row[t] \in Row /\ row[t].family = loc[p].fam
    BY <2>2, StoredRow DEF HandlerInv, HandlersOK, Refreshing
  <2>5. /\ \A d \in Tokens \ {t, Fresh} : row'[d] = row[d]
        /\ t # Fresh => row'[t].family = row[t].family
        /\ row'[Fresh].family = row[t].family
    BY <2>1, <2>2, <2>4 DEF HandlerInv, TypeOK, Rotated, NewRow, Row
  <2>6. t \in Stored
    BY <2>2
  <2> HIDE DEF t
  <2>7. \A d \in Stored' : \E e \in Stored : row'[d].family = row[e].family
    BY <2>4, <2>5, <2>6 DEF Stored
  <2>8. \A e \in Stored : row[e].family \in Issued' /\ origin'[row[e].family].parent = NoToken
    BY <2>3 DEF RootsOK, Root, Parent
  <2> QED BY <2>7, <2>8 DEF RootsOK, Root, Parent
<1>4. ASSUME NEW p \in Procs, BulkApply(p) PROVE RootsOK'
  <2>1. \A t \in Stored' : RowKept(t)
    BY <1>4, StoredRow DEF BulkApply, Struck, RowKept, Stored, HandlerInv, Row
  <2> QED BY <1>1, <1>4, <2>1 DEF BulkApply
<1>5. CASE \A p \in Procs : ~SigninCommit(p) /\ ~RefreshCommit(p) /\ ~BulkApply(p)
  BY <1>1, <1>5, QuietSteps, CalmSteps DEF Quiet, Calm
<1> QED BY <1>2, <1>3, <1>4, <1>5

LEMMA ChosenStep ==
    ASSUME OneHandler, HandlerInv, Chosen, [Next]_vars
    PROVE  Chosen'
<1> SUFFICES ASSUME NEW p \in Procs, pc'[p] = "apply"
             PROVE  (/\ loc[p].op \in {"reuse", "logoutAll", "reset"}
                     /\ Matched(loc[p].op, loc[p].user, loc[p].fam) \subseteq loc[p].snap
                     /\ loc[p].snap \subseteq Stored
                     /\ \A t \in loc[p].snap :
                           IF loc[p].op = "reuse" THEN row[t].family = loc[p].fam
                           ELSE row[t].user = loc[p].user)'
  BY DEF Chosen
<1>a. pc \in [Procs -> Steps] /\ loc \in [Procs -> Local] /\ now \in Nat
  BY DEF HandlerInv, TypeOK
<1>1. CASE (\E t \in Tokens : RefreshRead(p, t)) \/ RefreshBlacklist(p)
  BY <1>1, <1>a DEF RefreshRead, RefreshBlacklist, Start, Goto
<1>2. CASE BulkSnapshot(p)
  <2> DEFINE S == Matched(loc[p].op, loc[p].user, loc[p].fam)
  <2>1. /\ loc'[p].op = loc[p].op /\ loc'[p].user = loc[p].user /\ loc'[p].fam = loc[p].fam
        /\ loc'[p].snap = S /\ UNCHANGED <<row, now>>
    BY <1>2, <1>a DEF BulkSnapshot, Start, Tables, Local
  <2>2. loc[p].op \in {"reuse", "logoutAll", "reset"}
    BY <1>2 DEF BulkSnapshot, HandlerInv, HolderPresent
  <2>3. Matched(loc[p].op, loc[p].user, loc[p].fam)' = S
    BY <2>1 DEF Matched, Stored, Active
  <2>4. S \subseteq Stored /\ \A t \in S : IF loc[p].op = "reuse" THEN row[t].family = loc[p].fam
                                          ELSE row[t].user = loc[p].user
    BY <2>2 DEF Matched
  <2> HIDE DEF S
  <2> QED BY <2>1, <2>2, <2>3, <2>4 DEF Stored
<1>3. CASE /\ pc'[p] = pc[p] /\ UNCHANGED <<row, jwt, loc>>
           /\ now' = now \/ now' = now + 2
  <2>1. \A t \in Tokens : Active(t)' => Active(t)
    BY <1>3, <1>a, StoredRow DEF Active, Stored, Row, HandlerInv
  <2>2. Stored' = Stored
    BY <1>3 DEF Stored
  <2>3. Matched(loc[p].op, loc[p].user, loc[p].fam)'
          \subseteq Matched(loc[p].op, loc[p].user, loc[p].fam)
    BY <1>3, <2>1, <2>2 DEF Matched, Stored
  <2> QED BY <1>3, <2>2, <2>3 DEF Chosen
<1> QED BY <1>1, <1>2, <1>3, Moves DEF HandlerInv

LEMMA PromiseInvariant ==
    ASSUME OneHandler
    PROVE  Spec => []PInv
<1>1. Init => RootsOK /\ Chosen
  BY DEF Init, RootsOK, Chosen, Stored
<1>2. HandlerInv /\ HandlerInv' /\ RootsOK /\ Chosen /\ [Next]_vars => RootsOK' /\ Chosen'
  BY RootsStep, ChosenStep
<1> QED BY <1>1, <1>2, HandlerCorrect, LateCorrect, SeqCorrect, PTL DEF Spec, PInv

(* What a session with an unrevoked token looks like to its owner.          *)
LEMMA OnlyKey ==
    ASSUME OneUnrevoked, NEW f, NEW t \in Going(f)
    PROVE  Going(f) = {t} /\ Key(f) = t
<1>1. Going(f) = {t}
  BY DEF OneUnrevoked, Unrevoked, Going, Stored
<1>2. t \in Tokens /\ \A d : Going(f) = {d} => d = t
  BY <1>1 DEF Going, Stored
<1>3. PICK G : G = Going(f)
  OBVIOUS
<1>4. (CHOOSE d \in Tokens : G = {d}) = t
  BY <1>1, <1>2, <1>3
<1> QED BY <1>1, <1>2, <1>3, <1>4 DEF Key

LEMMA KeyState ==
    ASSUME OneUnrevoked, NEW f, Root(f), NEW t \in Going(f)
    PROVE  State(f) = IF Active(t) THEN "open" ELSE "lapsed"
BY OnlyKey DEF State

(* The abstract session of a family none of whose rows a step touches.      *)
Untouched(f) ==
    /\ Root(f)' = Root(f) /\ (Root(f) => jwt'[f] = jwt[f])
    /\ Going(f)' = Going(f)
    /\ \A t \in Going(f) : Active(t)' = Active(t)

LEMMA Unseen ==
    ASSUME NEW f, Untouched(f)
    PROVE  State(f)' = State(f) /\ Who(f)' = Who(f) /\ Key(f)' = Key(f)
<1>1. State(f)' = State(f)
  BY DEF Untouched, State
<1>2. Key(f)' = Key(f)
  BY DEF Untouched, Key
<1>3. Who(f)' = Who(f)
  BY DEF Untouched, Who
<1> QED BY <1>1, <1>2, <1>3

LEMMA Stutter ==
    ASSUME UNCHANGED <<row, jwt, origin, now>>
    PROVE  UNCHANGED Promise!svars
<1>1. Stored' = Stored /\ Issued' = Issued
  BY DEF Stored, Issued
<1>2. \A f \in Tokens : Untouched(f)
  BY <1>1 DEF Untouched, Root, Parent, Going, Active
<1> QED BY <1>1, <1>2, Unseen DEF Promise!svars

LEMMA OneChange ==
    ASSUME NEW f \in Tokens, \A g \in Tokens \ {f} : Untouched(g)
    PROVE  /\ [g \in Tokens |-> State(g)]' = [[g \in Tokens |-> State(g)] EXCEPT ![f] = State(f)']
           /\ [g \in Tokens |-> Who(g)]' = [[g \in Tokens |-> Who(g)] EXCEPT ![f] = Who(f)']
           /\ [g \in Tokens |-> Key(g)]' = [[g \in Tokens |-> Key(g)] EXCEPT ![f] = Key(f)']
<1>1. \A g \in Tokens \ {f} : State(g)' = State(g) /\ Who(g)' = Who(g) /\ Key(g)' = Key(g)
  BY Unseen
<1> QED BY <1>1

LEMMA PromiseStarts == Init => Promise!Init
<1> SUFFICES ASSUME Init PROVE Promise!Init
  OBVIOUS
<1>1. Issued = {} /\ Stored = {}
  BY DEF Init, Issued, Stored
<1>2. \A f \in Tokens : State(f) = "absent" /\ Who(f) = NoToken /\ Key(f) = NoToken
  BY <1>1 DEF State, Who, Key, Root, Going
<1> QED BY <1>1, <1>2 DEF Promise!Init

LEMMA NewRowLives == \A n \in Nat : n + Lifetime > n
<1>1. Lifetime \in Nat /\ Lifetime # 0
  BY SessionsAssumption
<1> QED BY <1>1

(* A sign-in opens a session. *)
LEMMA SigninImplements ==
    ASSUME PInv, HandlerInv', NEW p \in Procs, SigninCommit(p)
    PROVE  \E f \in Tokens, u \in Users, k \in Tokens : Promise!Open(f, u, k)
<1>a. PICK f \in Tokens : f = Fresh
  BY FreshToken DEF SigninCommit
<1>b. PICK u : u = loc[p].user
  OBVIOUS
<1>1. f \in Tokens /\ f \notin Issued /\ f \notin Stored
  BY <1>a, FreshToken DEF SigninCommit, PInv, HandlerInv, RowsOK
<1>2. /\ row' = [row EXCEPT ![f] = NewRow(u, f, loc[p].at)]
      /\ jwt' = [jwt EXCEPT ![f] = [sub |-> u, exp |-> now + AccessLife]]
      /\ origin' = [origin EXCEPT ![f] = [parent |-> NoToken, by |-> p]]
      /\ now' = now /\ u \in users /\ users \subseteq Users
  BY <1>a, <1>b DEF SigninCommit, Issue, ReferencesUser, PInv, HandlerInv, TypeOK
<1>3. \A t \in Tokens \ {f} : row'[t] = row[t] /\ jwt'[t] = jwt[t] /\ origin'[t] = origin[t]
  BY <1>2 DEF PInv, HandlerInv, TypeOK
<1>4. row'[f].family = f /\ ~row'[f].revoked /\ row'[f].exp = now + Lifetime /\ row'[f] # NoRow
  BY <1>1, <1>2 DEF PInv, HandlerInv, TypeOK, NewRow, NoRow
<1>5. jwt'[f].sub = u /\ origin'[f].parent = NoToken
  BY <1>1, <1>2 DEF PInv, HandlerInv, TypeOK
<1>6. f \in Issued' /\ Issued' = Issued \cup {f}
  <2>1. f \in Issued'
    BY <1>1, <1>4 DEF HandlerInv, RowsOK, Stored
  <2> QED BY <1>1, <1>3, <2>1 DEF Issued
<1>7. now + Lifetime > now
  BY NewRowLives DEF PInv, HandlerInv, TypeOK
<1>8. Going(f)' = {f} /\ Active(f)'
  <2>1. \A t \in Stored : row[t].family \in Issued
    BY DEF PInv, LateInv, FamilyOwner
  <2>2. Active(f)'
    BY <1>1, <1>2, <1>4, <1>7 DEF Active, Stored
  <2>3. \A t \in Stored' : row'[t].family = f => t = f
    BY <1>1, <1>3, <2>1 DEF Stored
  <2> QED BY <1>4, <2>2, <2>3 DEF Going, Active
<1>9. \A g \in Tokens \ {f} : Untouched(g)
  <2> SUFFICES ASSUME NEW g \in Tokens \ {f} PROVE Untouched(g)
    OBVIOUS
  <2>1. Root(g)' = Root(g) /\ (Root(g) => jwt'[g] = jwt[g])
    BY <1>3, <1>6 DEF Root, Parent
  <2>2. \A t \in Tokens : t \in Going(g)' <=> t \in Going(g)
    BY <1>1, <1>3, <1>4 DEF Going, Stored
  <2>3. Going(g)' = Going(g)
    BY <2>2 DEF Going, Stored
  <2>4. \A t \in Going(g) : Active(t)' = Active(t)
    BY <1>1, <1>2, <1>3 DEF Going, Active, Stored
  <2> QED BY <2>1, <2>3, <2>4 DEF Untouched
<1>10. State(f) = "absent" /\ State(f)' = "open"
  BY <1>1, <1>5, <1>6, <1>8 DEF State, Root, Parent
<1>11. Who(f)' = u /\ Key(f)' = f
  BY <1>5, <1>6, <1>8 DEF Who, Key, Root, Parent
<1>12. Promise!Give(f, f)
  BY <1>1, <1>6, <1>9, <1>10, <1>11, OneChange DEF Promise!Give
<1>13. Promise!Open(f, u, f)
  BY <1>1, <1>9, <1>10, <1>11, <1>12, OneChange DEF Promise!Open
<1> QED BY <1>1, <1>2, <1>13

(* A refresh gives a session another key. *)
LEMMA RefreshImplements ==
    ASSUME PInv, HandlerInv', NEW p \in Procs, RefreshCommit(p)
    PROVE  \E f \in Tokens, k \in Tokens : Promise!Renew(f, k)
<1>a. PICK k \in Tokens : k = Fresh
  BY FreshToken DEF RefreshCommit
<1>b. PICK t : t = loc[p].tok
  OBVIOUS
<1>c. PICK f : f = loc[p].fam
  OBVIOUS
<1>1. k \in Tokens /\ k \notin Issued /\ k \notin Stored
  BY <1>a, FreshToken DEF RefreshCommit, PInv, HandlerInv, RowsOK
<1>2. /\ row' = [[row EXCEPT ![t] = Rotated(row[t], loc[p].at)]
                    EXCEPT ![k] = NewRow(loc[p].user, f, loc[p].at)]
      /\ jwt' = [jwt EXCEPT ![k] = [sub |-> loc[p].user, exp |-> now + AccessLife]]
      /\ origin' = [origin EXCEPT ![k] = [parent |-> t, by |-> p]]
      /\ now' = now /\ t \in Stored /\ pc[p] = "rotate"
  BY <1>a, <1>b, <1>c DEF RefreshCommit, Issue
<1>3. t \in Tokens /\ row[t] \in Row /\ t # k
  BY <1>1, <1>2, StoredRow DEF PInv, HandlerInv
<1>4. row[t].family = f /\ ~row[t].revoked /\ t # NoToken
  BY <1>b, <1>c, <1>2, <1>3, SessionsAssumption
  DEF PInv, SeqInv, UpToDate, Unrevoked, HandlerInv, HandlersOK, Refreshing
<1>5. \A d \in Tokens \ {k} : jwt'[d] = jwt[d] /\ origin'[d] = origin[d]
  BY <1>2 DEF PInv, HandlerInv, TypeOK
<1>6. /\ \A d \in Tokens \ {t, k} : row'[d] = row[d]
      /\ row'[t].revoked
      /\ row'[k] = NewRow(loc[p].user, f, loc[p].at)
  BY <1>1, <1>2, <1>3 DEF PInv, HandlerInv, TypeOK, Rotated, Row
<1>7. /\ row'[k].family = f /\ ~row'[k].revoked /\ row'[k].exp = now + Lifetime
      /\ row'[k] # NoRow /\ origin'[k].parent = t
  BY <1>1, <1>2, <1>6 DEF NewRow, NoRow, PInv, HandlerInv, TypeOK
<1>8. t \in Stored /\ now' = now
  BY <1>2
<1>9. k \in Issued' /\ Issued' = Issued \cup {k}
  <2>1. k \in Issued'
    BY <1>1, <1>7 DEF HandlerInv, RowsOK, Stored
  <2> QED BY <1>1, <1>5, <2>1 DEF Issued
<1>10. f \in Tokens /\ f # k /\ Root(f)
  <2>1. Root(f)
    BY <1>4, <1>8 DEF PInv, RootsOK
  <2> QED BY <1>1, <2>1 DEF Root, Issued
<1>11. now + Lifetime > now
  BY NewRowLives DEF PInv, HandlerInv, TypeOK
<1>12. t \in Going(f) /\ Going(f) = {t}
  <2>1. t \in Going(f)
    BY <1>4, <1>8 DEF Going
  <2> QED BY <2>1, OnlyKey DEF PInv, SeqInv
<1>13. Active(k)' /\ Going(f)' = {k}
  <2>1. Active(k)'
    BY <1>1, <1>7, <1>8, <1>11 DEF Active, Stored
  <2>2. \A d \in Tokens \ {k} : d \notin Going(f)'
    BY <1>6, <1>12 DEF Going, Stored
  <2>3. k \in Going(f)'
    BY <1>1, <1>7 DEF Going, Stored
  <2> QED BY <2>1, <2>2, <2>3 DEF Going, Stored
<1>14. \A g \in Tokens \ {f} : Untouched(g)
  <2> SUFFICES ASSUME NEW g \in Tokens \ {f} PROVE Untouched(g)
    OBVIOUS
  <2>1. Root(g)' = Root(g)
    BY <1>1, <1>4, <1>5, <1>7, <1>9 DEF Root, Parent
  <2>2. Root(g) => jwt'[g] = jwt[g]
    BY <1>1, <1>5 DEF Root
  <2>3. \A d \in Tokens : d \in Going(g)' <=> d \in Going(g)
    BY <1>1, <1>4, <1>6, <1>7, <1>8 DEF Going, Stored
  <2>4. Going(g)' = Going(g)
    BY <2>3 DEF Going, Stored
  <2>5. \A d \in Going(g) : Active(d)' = Active(d)
    BY <1>1, <1>4, <1>6, <1>8 DEF Going, Active, Stored
  <2> QED BY <2>1, <2>2, <2>4, <2>5 DEF Untouched
<1>15. State(f) \in {"open", "lapsed"} /\ State(f)' = "open"
  <2>1. Root(f)'
    BY <1>5, <1>9, <1>10 DEF Root, Parent
  <2> QED BY <1>10, <1>12, <1>13, <2>1 DEF State
<1>16. Who(f)' = Who(f) /\ Key(f)' = k
  BY <1>5, <1>9, <1>10, <1>13 DEF Who, Key, Root, Parent
<1>17. Promise!Give(f, k)
  BY <1>1, <1>9, <1>10, <1>14, <1>15, <1>16, OneChange DEF Promise!Give
<1>18. Promise!Renew(f, k)
  BY <1>10, <1>14, <1>15, <1>16, <1>17, OneChange DEF Promise!Renew, Promise!Going
<1> QED BY <1>1, <1>10, <1>18

(* A step that revokes or deletes rows, and does nothing else to them, ends *)
(* the sessions whose one unrevoked token is among them.                    *)
Ended == {f \in Tokens : Going(f) # {} /\ Going(f)' = {}}

Revoking ==
    /\ UNCHANGED <<jwt, origin, now>>
    /\ \A t \in Tokens : row'[t] = row[t] \/ t \notin Stored' \/ row'[t].revoked

LEMMA EndedIs ==
    ASSUME PInv, Revoking
    PROVE  /\ \A f \in Tokens \ Ended : Untouched(f)
           /\ \A f \in Ended : State(f) \in {"open", "lapsed"}
           /\ \A f \in Ended : State(f)' = "ended" /\ Key(f)' = NoToken /\ Who(f)' = Who(f)
<1>1. OneUnrevoked /\ RootsOK
  BY DEF PInv, SeqInv
<1>2. Issued' = Issued /\ \A f \in Tokens : Root(f)' = Root(f)
  BY DEF Revoking, Issued, Root, Parent
<1>3. \A f \in Tokens : Going(f)' \subseteq Going(f)
  BY DEF Revoking, Going, Stored
<1>4. \A f \in Tokens \ Ended : Untouched(f)
  <2> SUFFICES ASSUME NEW f \in Tokens \ Ended PROVE Untouched(f)
    OBVIOUS
  <2>1. Going(f)' = Going(f)
    <3>1. CASE Going(f) = {}
      BY <1>3, <3>1
    <3>2. ASSUME NEW t \in Going(f) PROVE Going(f)' = Going(f)
      <4>1. Going(f) = {t}
        BY <1>1, <3>2, OnlyKey
      <4> QED BY <1>3, <4>1 DEF Ended
    <3> QED BY <3>1, <3>2
  <2>2. \A t \in Going(f) : t \in Tokens /\ t \in Stored' /\ row'[t] = row[t]
    <3> SUFFICES ASSUME NEW t \in Going(f) PROVE t \in Tokens /\ t \in Stored' /\ row'[t] = row[t]
      OBVIOUS
    <3>1. t \in Going(f)' /\ t \in Tokens
      BY <2>1 DEF Going, Stored
    <3> QED BY <3>1 DEF Going, Revoking
  <2>3. \A t \in Going(f) : Active(t)' = Active(t)
    BY <2>2 DEF Going, Active, Revoking
  <2> QED BY <1>2, <2>1, <2>3 DEF Untouched, Revoking
<1>5. \A f \in Ended : Root(f)
  BY <1>1 DEF Ended, Going, RootsOK
<1>6. \A f \in Ended : State(f) \in {"open", "lapsed"}
  BY <1>5 DEF Ended, State
<1>7. \A f \in Ended : State(f)' = "ended" /\ Key(f)' = NoToken /\ Who(f)' = Who(f)
  BY <1>2, <1>5 DEF Ended, State, Key, Who, Revoking
<1> QED BY <1>4, <1>6, <1>7

LEMMA EndImplements ==
    ASSUME PInv, Revoking
    PROVE  Promise!End(Ended)
<1>1. PICK S \in SUBSET Tokens : S = Ended
  BY DEF Ended
<1>2. /\ \A f \in Tokens \ S : State(f)' = State(f) /\ Who(f)' = Who(f) /\ Key(f)' = Key(f)
      /\ \A f \in S : State(f) \in {"open", "lapsed"}
      /\ \A f \in S : State(f)' = "ended" /\ Key(f)' = NoToken /\ Who(f)' = Who(f)
  BY <1>1, EndedIs, Unseen
<1>3. Issued' = Issued
  BY DEF Revoking, Issued
<1>4. Promise!End(S)
  BY <1>2, <1>3 DEF Promise!End, Promise!Going
<1> QED BY <1>1, <1>4

(* The account a going session belongs to is that of its one row. *)
LEMMA OwnerOfKey ==
    ASSUME PInv, NEW f \in Tokens, NEW t \in Going(f)
    PROVE  Root(f) /\ Who(f) = row[t].user
<1>1. t \in Stored /\ row[t].family = f
  BY DEF Going
<1>2. Root(f)
  BY <1>1 DEF PInv, RootsOK
<1> QED BY <1>1, <1>2 DEF Who, PInv, LateInv, FamilyOwner

(* A step that strikes every active row of an account, and no other's.      *)
LEMMA EndAllImplements ==
    ASSUME PInv, Revoking, NEW u,
           \A t \in Stored : row[t].user # u => row'[t] = row[t],
           \A t \in Stored : row[t].user = u /\ Active(t) => t \notin Stored' \/ row'[t].revoked
    PROVE  Promise!EndAll(u, Ended)
<1>1. \A f \in Ended : Who(f) = u
  <2> SUFFICES ASSUME NEW f \in Ended PROVE Who(f) = u
    OBVIOUS
  <2>1. PICK t \in Going(f) : TRUE
    BY DEF Ended
  <2>2. f \in Tokens /\ t \in Stored /\ t \notin Going(f)'
    BY DEF Ended, Going
  <2>3. row'[t] # row[t]
    BY <2>2 DEF Going, Stored
  <2> QED BY <2>1, <2>2, <2>3, OwnerOfKey
<1>2. \A f \in Tokens \ Ended : Who(f) = u => State(f) # "open"
  <2> SUFFICES ASSUME NEW f \in Tokens \ Ended, Who(f) = u, State(f) = "open" PROVE FALSE
    OBVIOUS
  <2>1. PICK t \in Going(f) : Active(t)
    BY DEF State
  <2>2. row[t].user = u /\ t \in Stored
    BY <2>1, OwnerOfKey DEF Going
  <2>3. t \notin Going(f)'
    BY <2>1, <2>2 DEF Going
  <2> QED BY <2>1, <2>3, EndedIs DEF Untouched
<1>3. PICK S \in SUBSET Tokens : S = Ended
  BY DEF Ended
<1>4. Promise!EndAll(u, S)
  BY <1>1, <1>2, <1>3, EndImplements DEF Promise!EndAll
<1> QED BY <1>3, <1>4

(* Time passing makes sessions lapse. *)
LEMMA TickImplements ==
    ASSUME PInv, UNCHANGED <<row, jwt, origin>>, now' = now + 2
    PROVE  \E S \in SUBSET Tokens : Promise!Lapse(S)
<1>1. Stored' = Stored /\ Issued' = Issued
  BY DEF Stored, Issued
<1>2. \A f \in Tokens : Root(f)' = Root(f) /\ Going(f)' = Going(f)
  BY <1>1 DEF Root, Parent, Going
<1>3. \A t \in Stored : Active(t)' => Active(t)
  BY <1>1, StoredRow DEF Active, PInv, HandlerInv, TypeOK, Row
<1>4. \A f \in Tokens : Who(f)' = Who(f) /\ Key(f)' = Key(f)
  <2> TAKE f \in Tokens
  <2>1. Root(f)' = Root(f) /\ Going(f)' = Going(f)
    BY <1>2
  <2>2. Key(f)' = Key(f)
    BY <2>1 DEF Key
  <2> QED BY <2>1, <2>2 DEF Who
<1>5. PICK S \in SUBSET Tokens : S = {f \in Tokens : State(f) = "open" /\ State(f)' # "open"}
  OBVIOUS
<1>6. \A f \in Tokens : State(f)' = IF f \in S THEN "lapsed" ELSE State(f)
  <2> SUFFICES ASSUME NEW f \in Tokens PROVE State(f)' = IF f \in S THEN "lapsed" ELSE State(f)
    OBVIOUS
  <2>1. CASE State(f) = "open"
    <3>1. Root(f)' /\ Going(f)' # {}
      BY <1>2, <2>1 DEF State
    <3> QED BY <1>5, <2>1, <3>1 DEF State
  <2>2. CASE State(f) # "open"
    <3>1. Root(f) /\ Going(f) # {} => \A t \in Going(f) : ~Active(t)'
      BY <1>3, <2>2 DEF State, Going
    <3> QED BY <1>2, <1>5, <2>2, <3>1 DEF State
  <2> QED BY <2>1, <2>2
<1>7. Promise!Lapse(S)
  BY <1>1, <1>4, <1>5, <1>6 DEF Promise!Lapse
<1> QED BY <1>7

LEMMA NoneEnds ==
    ASSUME PInv, Revoking, Ended = {}
    PROVE  UNCHANGED Promise!svars
<1>1. \A f \in Tokens : State(f)' = State(f) /\ Who(f)' = Who(f) /\ Key(f)' = Key(f)
  BY EndedIs, Unseen
<1> QED BY <1>1 DEF Promise!svars, Revoking, Issued

LEMMA OneEnds ==
    ASSUME PInv, Revoking, NEW f \in Tokens, Ended \subseteq {f}
    PROVE  [Promise!Next]_(Promise!svars)
<1>1. CASE Ended = {}
  BY <1>1, NoneEnds
<1>2. CASE Ended = {f}
  BY <1>2, EndImplements DEF Promise!Next
<1> QED BY <1>1, <1>2

LEMMA ManyEnd ==
    ASSUME PInv, Revoking, NEW u,
           \A t \in Stored : row[t].user # u => row'[t] = row[t],
           \A t \in Stored : row[t].user = u /\ Active(t) => t \notin Stored' \/ row'[t].revoked
    PROVE  [Promise!Next]_(Promise!svars)
<1>1. CASE Ended = {}
  BY <1>1, NoneEnds
<1>2. ASSUME NEW f \in Ended PROVE Promise!Next
  <2>1. PICK t \in Going(f) : t \in Stored /\ f \in Tokens
    BY DEF Ended, Going
  <2>2. Promise!EndAll(u, Ended)
    BY EndAllImplements
  <2>3. u \in Users
    <3>1. row[t].user \in Users /\ Who(f) = row[t].user
      BY <2>1, StoredRow, OwnerOfKey DEF PInv, HandlerInv, Row
    <3>2. Who(f) = u
      BY <1>2, <2>1, <2>2 DEF Promise!EndAll
    <3> QED BY <3>1, <3>2
  <2>4. Ended \in SUBSET Tokens
    BY DEF Ended
  <2>5. \E S \in SUBSET Tokens : Promise!EndAll(u, S)
    BY <2>2, <2>4
  <2> QED BY <2>3, <2>5 DEF Promise!Next
<1> QED BY <1>1, <1>2

LEMMA BulkImplements ==
    ASSUME PInv, NEW p \in Procs, BulkApply(p)
    PROVE  [Promise!Next]_(Promise!svars)
<1>1. PICK op, u, f : op = loc[p].op /\ u = loc[p].user /\ f = loc[p].fam
  OBVIOUS
<1>2. PICK S : S = loc[p].snap
  OBVIOUS
<1>3. /\ UNCHANGED <<jwt, origin, now>> /\ pc[p] = "apply"
      /\ \A t \in Tokens : row'[t] = IF t \in S THEN Struck(op, row[t]) ELSE row[t]
  BY <1>1, <1>2 DEF BulkApply
<1>4. /\ op \in {"reuse", "logoutAll", "reset"} /\ Matched(op, u, f) \subseteq S
      /\ \A t \in S : IF op = "reuse" THEN row[t].family = f ELSE row[t].user = u
  BY <1>1, <1>2, <1>3 DEF PInv, Chosen
<1>5. \A t \in Stored : t \in S => t \notin Stored' \/ row'[t].revoked
  BY <1>3, StoredRow DEF Struck, Stored, Row, PInv, HandlerInv
<1>6. \A t \in Tokens \ Stored : t \notin Stored'
  BY <1>3 DEF Struck, Stored
<1>7. Revoking
  BY <1>3, <1>5, <1>6 DEF Revoking
<1>8. CASE op = "reuse"
  <2>1. \A g \in Ended : g = f
    <3> SUFFICES ASSUME NEW g \in Ended PROVE g = f
      OBVIOUS
    <3>1. PICK t \in Going(g) : t \notin Going(g)'
      BY DEF Ended
    <3>2. t \in Tokens /\ t \in Stored /\ row[t].family = g /\ row'[t] # row[t]
      BY <3>1 DEF Going, Stored
    <3> QED BY <1>3, <1>4, <1>8, <3>2
  <2>2. CASE f \in Tokens
    BY <1>7, <2>1, <2>2, OneEnds
  <2>3. CASE f \notin Tokens
    BY <1>7, <2>1, <2>3, NoneEnds DEF Ended
  <2> QED BY <2>2, <2>3
<1>9. CASE op # "reuse"
  <2>1. \A t \in Stored : row[t].user # u => row'[t] = row[t]
    BY <1>3, <1>4, <1>9 DEF Stored
  <2>2. \A t \in Stored : row[t].user = u /\ Active(t) => t \in S
    BY <1>4, <1>9 DEF Matched
  <2> QED BY <1>5, <1>7, <2>1, <2>2, ManyEnd
<1> QED BY <1>8, <1>9

LEMMA LogoutImplements ==
    ASSUME PInv, NEW p \in Procs, LogoutCommit(p)
    PROVE  [Promise!Next]_(Promise!svars)
<1>1. PICK t : t = loc[p].tok
  OBVIOUS
<1>2. t \in Stored /\ row' = [row EXCEPT ![t] = LoggedOut(row[t])] /\ UNCHANGED <<jwt, origin, now>>
  BY <1>1 DEF LogoutCommit
<1>3. t \in Tokens /\ row[t] \in Row
  BY <1>2, StoredRow DEF PInv, HandlerInv
<1>4. /\ row'[t].revoked
      /\ \A d \in Tokens \ {t} : row'[d] = row[d]
  BY <1>2, <1>3 DEF LoggedOut, Row, PInv, HandlerInv, TypeOK
<1>5. Revoking
  BY <1>2, <1>4 DEF Revoking
<1>6. row[t].family \in Tokens /\ Ended \subseteq {row[t].family}
  <2> SUFFICES ASSUME NEW g \in Ended PROVE g = row[t].family
    BY <1>3 DEF Row
  <2>1. PICK d \in Going(g) : d \notin Going(g)'
    BY DEF Ended
  <2>2. d \in Tokens /\ d \in Stored /\ row[d].family = g /\ row'[d] # row[d]
    BY <2>1 DEF Going, Stored
  <2> QED BY <1>4, <2>2
<1> QED BY <1>5, <1>6, OneEnds

LEMMA DeleteImplements ==
    ASSUME PInv, NEW p \in Procs, DeleteCommit(p)
    PROVE  [Promise!Next]_(Promise!svars)
<1>1. PICK u : u = loc[p].user
  OBVIOUS
<1>2. /\ UNCHANGED <<jwt, origin, now>>
      /\ \A t \in Tokens : row'[t] = IF t \in Stored /\ row[t].user = u THEN NoRow ELSE row[t]
  BY <1>1 DEF DeleteCommit
<1>3. Revoking
  BY <1>2 DEF Revoking, Stored
<1> QED BY <1>2, <1>3, ManyEnd DEF Stored

LEMMA StepImplements ==
    ASSUME PInv, HandlerInv', [Next]_vars
    PROVE  [Promise!Next]_(Promise!svars)
<1>1. ASSUME NEW p \in Procs, NEW u \in Users, SigninRead(p, u) \/ ResetPassword(p, u)
      PROVE  UNCHANGED Promise!svars
  BY <1>1, Stutter DEF SigninRead, ResetPassword, Tables
<1>2. ASSUME NEW p \in Procs, NEW t \in Tokens,
             \/ RefreshRead(p, t) \/ ReuseRead(p, t) \/ LogoutAll(p, t)
             \/ Logout(p, t) \/ ChangePassword(p, t) \/ DeleteProfile(p, t)
      PROVE  UNCHANGED Promise!svars
  BY <1>2, Stutter
  DEF RefreshRead, ReuseRead, LogoutAll, Logout, ChangePassword, DeleteProfile, Tables
<1>3. ASSUME NEW p \in Procs,
             \/ RefreshBlacklist(p) \/ BulkSnapshot(p) \/ Blacklist(p)
             \/ ChangePasswordCommit(p) \/ ChangePasswordLogout(p) \/ Abort(p)
      PROVE  UNCHANGED Promise!svars
  BY <1>3, Stutter
  DEF RefreshBlacklist, BulkSnapshot, Blacklist, ChangePasswordCommit,
      ChangePasswordLogout, Abort, Tables
<1>4. ASSUME NEW p \in Procs, SigninCommit(p) \/ RefreshCommit(p)
      PROVE  Promise!Next
  BY <1>4, SigninImplements, RefreshImplements DEF Promise!Next
<1>5. ASSUME NEW p \in Procs, BulkApply(p) \/ LogoutCommit(p) \/ DeleteCommit(p)
      PROVE  [Promise!Next]_(Promise!svars)
  BY <1>5, BulkImplements, LogoutImplements, DeleteImplements
<1>6. CASE Tick
  BY <1>6, TickImplements DEF Tick, Tables, Promise!Next
<1>7. CASE UNCHANGED vars
  BY <1>7, Stutter DEF vars
<1> QED BY <1>1, <1>2, <1>3, <1>4, <1>5, <1>6, <1>7 DEF Next

(* Served one at a time, however requests break off, the session handlers   *)
(* keep what SessionPromise says: a session has one key at a time, never    *)
(* one given out before; it ends for good; and logout-all, a reset and the  *)
(* deletion of an account end all of that account's and no other's.         *)
THEOREM SessionsKeepPromise ==
    ASSUME OneHandler
    PROVE  Spec => PromiseKept
<1>1. PInv /\ PInv' /\ [Next]_vars => [Promise!Next]_(Promise!svars)
  BY StepImplements DEF PInv
<1> QED BY <1>1, PromiseStarts, PromiseInvariant, PTL DEF Spec, PromiseKept, Promise!Spec
============================================================================

--------------------------- MODULE Sessions_proofs ---------------------------
(***************************************************************************)
(* Proofs about Sessions, for every set of accounts, tokens and handlers   *)
(* and every setting of the lifetimes.                                     *)
(***************************************************************************)
EXTENDS Sessions, TLAPS

(* A handler's step and local variables keep their types. *)
LEMMA StartTypes ==
    ASSUME TypeOK, NEW p \in Procs, NEW step \in Steps, NEW data \in Local,
           Start(p, step, data)
    PROVE  pc' \in [Procs -> Steps] /\ loc' \in [Procs -> Local]
BY DEF TypeOK, Start

LEMMA NoLocalType == NoLocal \in Local
BY DEF NoLocal, Local, Steps

LEMMA FinishTypes ==
    ASSUME TypeOK, NEW p \in Procs, Finish(p)
    PROVE  pc' \in [Procs -> Steps] /\ loc' \in [Procs -> Local]
<1>1. "idle" \in Steps
  BY DEF Steps
<1> QED BY <1>1, StartTypes, NoLocalType DEF Finish

(* The next token is an unissued one as long as there is one. *)
LEMMA FreshToken ==
    ASSUME Tokens \ Issued # {}
    PROVE  Fresh \in Tokens /\ Fresh \notin Issued
BY DEF Fresh

LEMMA StoredRow ==
    ASSUME TypeOK, NEW t \in Stored
    PROVE  t \in Tokens /\ row[t] \in Row
BY DEF TypeOK, Stored

LEMMA IssuedClaims ==
    ASSUME TypeOK, NEW t \in Issued
    PROVE  t \in Tokens /\ jwt[t] \in Claims
BY DEF TypeOK, Issued

(* Issuing a pair keeps the types of the three tables it writes. *)
LEMMA IssueTypes ==
    ASSUME TypeOK, NEW p \in Procs, NEW t \in Tokens, NEW u \in Users, NEW f \in Tokens,
           NEW parent \in Tokens \cup {NoToken}, NEW at \in Nat,
           NEW rest \in [Tokens -> Row \cup {NoRow}],
           Issue(p, t, u, f, parent, at, rest)
    PROVE  /\ row' \in [Tokens -> Row \cup {NoRow}]
           /\ jwt' \in [Tokens -> Claims \cup {NoClaims}]
           /\ origin' \in [Tokens -> [parent : Tokens \cup {NoToken},
                                      by : Procs \cup {NoToken}]]
<1>1. NewRow(u, f, at) \in Row
  BY SessionsAssumption DEF NewRow, Row, TypeOK
<1>2. [sub |-> u, exp |-> now + AccessLife] \in Claims
  BY SessionsAssumption DEF Claims, TypeOK
<1>3. [parent |-> parent, by |-> p] \in [parent : Tokens \cup {NoToken},
                                         by : Procs \cup {NoToken}]
  OBVIOUS
<1> QED BY <1>1, <1>2, <1>3 DEF Issue, TypeOK

LEMMA RotatedType ==
    ASSUME NEW r \in Row, NEW at \in Nat
    PROVE  Rotated(r, at) \in Row /\ LoggedOut(r) \in Row
BY DEF Rotated, LoggedOut, Row

LEMMA StruckType ==
    ASSUME NEW r \in Row \cup {NoRow}, NEW op
    PROVE  Struck(op, r) \in Row \cup {NoRow}
BY DEF Struck, Row
----------------------------------------------------------------------------
(***************************************************************************)
(* The inductive invariant behind the typing and rotation theorems.  A     *)
(* handler of refresh_session that is past its reads holds the owner and   *)
(* family of a token that was issued and, while its row exists, those of   *)
(* that row; once it has written the blacklist, the token's access token   *)
(* is dead.  A handler that has rotated a token never holds it again.      *)
(***************************************************************************)
Refreshing(p, t) == pc[p] \in {"refresh", "rotate"} /\ loc[p].tok = t

RowsOK ==
    \A t \in Stored : t \in Issued /\ row[t].user \in users

HandlersOK ==
    \A p \in Procs : \A t \in Tokens :
       Refreshing(p, t) =>
          /\ t \in Issued /\ loc[p].user \in Users /\ loc[p].fam \in Tokens
          /\ t \in Stored => row[t].user = loc[p].user /\ row[t].family = loc[p].fam

BlacklistFirst ==
    \A p \in Procs : \A t \in Tokens :
       Refreshing(p, t) /\ pc[p] = "rotate" => t \in black \/ jwt[t].exp <= now

HolderPresent ==
    \A p \in Procs :
       /\ pc[p] \in {"refresh", "rotate"} => loc[p].tok \in Tokens
       /\ pc[p] \in {"changePw", "changed", "logoutCommit", "delete", "blacklist"}
             => loc[p].tok \in Issued
       /\ pc[p] = "reuse" => loc[p].fam \in Tokens
       /\ pc[p] \in {"reuse", "logoutAll", "reset"} => pc[p] = loc[p].op
       /\ pc[p] \in {"logoutAll", "apply"} /\ loc[p].op = "logoutAll"
             => loc[p].tok \in Issued

MinterDone ==
    \A t, c \in Tokens : \A p \in Procs :
       Child(c, t) /\ origin[c].by = p => ~Refreshing(p, t)

ParentIssued == \A t, c \in Tokens : Child(c, t) => t \in Issued

HandlerInv == TypeOK /\ RowsOK /\ HolderPresent /\ HandlersOK
RotationInv ==
    /\ ParentIssued /\ RotatedIsDead /\ MinterDone /\ SiblingsOverlap
    /\ BlacklistFirst /\ AccessDeadBeforeRotation

LEMMA InitInv == Init => HandlerInv /\ RotationInv
<1> SUFFICES ASSUME Init PROVE HandlerInv /\ RotationInv
  OBVIOUS
<1>1. TypeOK
  BY NoLocalType, SessionsAssumption DEF Init, TypeOK, Steps
<1>2. Issued = {} /\ Stored = {}
  BY DEF Init, Issued, Stored
<1> QED
  BY <1>1, <1>2 DEF Init, HandlerInv, RotationInv, RowsOK, HandlersOK, HolderPresent,
     Refreshing, ParentIssued, RotatedIsDead, MinterDone, SiblingsOverlap,
     BlacklistFirst, AccessDeadBeforeRotation, Child

LEMMA TypeStep == HandlerInv /\ [Next]_vars => TypeOK'
<1> SUFFICES ASSUME HandlerInv, [Next]_vars PROVE TypeOK'
  OBVIOUS
<1> USE DEF HandlerInv
<1>a. TypeOK
  OBVIOUS
<1>1. ASSUME NEW p \in Procs, NEW u \in Users, SigninRead(p, u) PROVE TypeOK'
  <2>1. [NoLocal EXCEPT !.op = "signin", !.user = u, !.at = now] \in Local
    BY <1>a, NoLocalType DEF TypeOK, Local, Steps
  <2> QED BY <1>1, <1>a, <2>1, StartTypes DEF SigninRead, Tables, Accept, TypeOK, Steps
<1>2. ASSUME NEW p \in Procs, NEW u \in Users, ResetPassword(p, u) PROVE TypeOK'
  <2>1. [NoLocal EXCEPT !.op = "reset", !.user = u] \in Local
    BY <1>a, NoLocalType DEF TypeOK, Local, Steps
  <2> QED BY <1>2, <1>a, <2>1, StartTypes DEF ResetPassword, Tables, Accept, TypeOK, Steps
<1>3. ASSUME NEW p \in Procs, NEW t \in Tokens, RefreshRead(p, t) PROVE TypeOK'
  <2>1. row[t] \in Row
    BY <1>3, <1>a, StoredRow DEF RefreshRead, Accepted
  <2>2. [NoLocal EXCEPT !.op = "refresh", !.tok = t, !.at = now,
                        !.user = row[t].user, !.fam = row[t].family] \in Local
    BY <1>a, <2>1, NoLocalType DEF TypeOK, Local, Steps, Row
  <2> QED BY <1>3, <1>a, <2>2, StartTypes DEF RefreshRead, Tables, Accept, TypeOK, Steps
<1>4. ASSUME NEW p \in Procs, NEW t \in Tokens, ReuseRead(p, t) PROVE TypeOK'
  <2>1. row[t] \in Row
    BY <1>4, <1>a, StoredRow DEF ReuseRead, Reused
  <2>2. [NoLocal EXCEPT !.op = "reuse", !.tok = t,
                        !.user = row[t].user, !.fam = row[t].family] \in Local
    BY <1>a, <2>1, NoLocalType DEF TypeOK, Local, Steps, Row
  <2> QED BY <1>4, <1>a, <2>2, StartTypes DEF ReuseRead, Tables, Accept, TypeOK, Steps
<1>5. ASSUME NEW p \in Procs, NEW t \in Tokens, LogoutAll(p, t) PROVE TypeOK'
  <2>1. [NoLocal EXCEPT !.op = "logoutAll", !.tok = t, !.user = jwt[t].sub] \in Local
    BY <1>5, <1>a, NoLocalType, IssuedClaims
    DEF LogoutAll, Authenticated, Claims, Local, Steps
  <2> QED BY <1>5, <1>a, <2>1, StartTypes DEF LogoutAll, Tables, Accept, TypeOK, Steps
<1>6. ASSUME NEW p \in Procs, NEW t \in Tokens, Logout(p, t) PROVE TypeOK'
  <2>1. [NoLocal EXCEPT !.op = "logoutCommit", !.tok = t, !.user = jwt[t].sub] \in Local
    BY <1>6, <1>a, NoLocalType, IssuedClaims DEF Logout, Claims, Local, Steps
  <2> QED BY <1>6, <1>a, <2>1, StartTypes
    DEF Logout, LogoutSelect, Tables, Accept, TypeOK, Steps
<1>7. ASSUME NEW p \in Procs, NEW t \in Tokens, ChangePassword(p, t) PROVE TypeOK'
  <2>1. [NoLocal EXCEPT !.op = "changePw", !.tok = t, !.user = jwt[t].sub] \in Local
    BY <1>7, <1>a, NoLocalType, IssuedClaims
    DEF ChangePassword, Authenticated, Claims, Local, Steps
  <2> QED BY <1>7, <1>a, <2>1, StartTypes DEF ChangePassword, Tables, Accept, TypeOK, Steps
<1>8. ASSUME NEW p \in Procs, NEW t \in Tokens, DeleteProfile(p, t) PROVE TypeOK'
  <2>1. [NoLocal EXCEPT !.op = "delete", !.tok = t, !.user = jwt[t].sub] \in Local
    BY <1>8, <1>a, NoLocalType, IssuedClaims
    DEF DeleteProfile, Authenticated, Claims, Local, Steps
  <2> QED BY <1>8, <1>a, <2>1, StartTypes DEF DeleteProfile, Tables, Accept, TypeOK, Steps
<1>9. ASSUME NEW p \in Procs, SigninCommit(p) PROVE TypeOK'
  <2>1. loc[p].user \in Users /\ loc[p].at \in Nat
    BY <1>9, <1>a DEF SigninCommit, ReferencesUser, TypeOK, Local
  <2>2. Fresh \in Tokens /\ row \in [Tokens -> Row \cup {NoRow}]
    BY <1>9, <1>a, FreshToken DEF SigninCommit, TypeOK
  <2>3. Issue(p, Fresh, loc[p].user, Fresh, NoToken, loc[p].at, row)
    BY <1>9 DEF SigninCommit
  <2>4. /\ row' \in [Tokens -> Row \cup {NoRow}]
        /\ jwt' \in [Tokens -> Claims \cup {NoClaims}]
        /\ origin' \in [Tokens -> [parent : Tokens \cup {NoToken},
                                   by : Procs \cup {NoToken}]]
    BY <1>a, <2>1, <2>2, <2>3, IssueTypes
  <2> QED BY <1>9, <1>a, <2>4, FinishTypes DEF SigninCommit, TypeOK
<1>10. ASSUME NEW p \in Procs, RefreshBlacklist(p) PROVE TypeOK'
  <2>1. loc[p].tok \in Tokens
    BY <1>10 DEF RefreshBlacklist, HolderPresent
  <2>2. Blacklisted(loc[p].tok) \subseteq Tokens
    BY <1>a, <2>1 DEF Blacklisted, TypeOK
  <2> QED BY <1>10, <1>a, <2>2 DEF RefreshBlacklist, Goto, TypeOK, Steps
<1>11. ASSUME NEW p \in Procs, RefreshCommit(p) PROVE TypeOK'
  <2> DEFINE t == loc[p].tok
             old == [row EXCEPT ![t] = Rotated(row[t], loc[p].at)]
  <2>1. /\ t \in Tokens /\ row[t] \in Row
        /\ loc[p].user \in Users /\ loc[p].fam \in Tokens /\ loc[p].at \in Nat
    BY <1>11, <1>a, StoredRow
    DEF RefreshCommit, HolderPresent, HandlersOK, Refreshing, TypeOK, Local
  <2>2. old \in [Tokens -> Row \cup {NoRow}]
    BY <1>a, <2>1, RotatedType DEF TypeOK
  <2>3. Fresh \in Tokens
    BY <1>11, FreshToken DEF RefreshCommit
  <2>4. Issue(p, Fresh, loc[p].user, loc[p].fam, t, loc[p].at, old)
    BY <1>11 DEF RefreshCommit
  <2>5. /\ row' \in [Tokens -> Row \cup {NoRow}]
        /\ jwt' \in [Tokens -> Claims \cup {NoClaims}]
        /\ origin' \in [Tokens -> [parent : Tokens \cup {NoToken},
                                   by : Procs \cup {NoToken}]]
    <3> HIDE DEF t, old
    <3> QED BY <1>a, <2>1, <2>2, <2>3, <2>4, IssueTypes
  <2>6. late' \subseteq Tokens
    BY <1>11, <1>a, <2>3 DEF RefreshCommit, TypeOK
  <2> QED BY <1>11, <1>a, <2>5, <2>6, FinishTypes DEF RefreshCommit, TypeOK
<1>12. ASSUME NEW p \in Procs, BulkSnapshot(p) PROVE TypeOK'
  <2> DEFINE S == Matched(loc[p].op, loc[p].user, loc[p].fam)
             F == Families(loc[p].op, loc[p].user, loc[p].fam)
  <2>1. S \subseteq Tokens
    BY DEF Matched, Stored
  <2>2. F \subseteq Tokens
    <3>1. CASE loc[p].op = "reuse"
      BY <1>12, <3>1 DEF Families, BulkSnapshot, HolderPresent
    <3>2. CASE loc[p].op # "reuse"
      BY <1>a, <3>2, StoredRow DEF Families, Row
    <3> QED BY <3>1, <3>2
  <2>3. Issued \subseteq Tokens
    BY DEF Issued
  <2> HIDE DEF S, F
  <2>4. [loc[p] EXCEPT !.snap = S, !.seen = Issued, !.fams = F] \in Local
    <3>1. loc[p] \in Local
      BY <1>a DEF TypeOK
    <3> QED BY <2>1, <2>2, <2>3, <3>1 DEF Local
  <2>5. Start(p, "apply", [loc[p] EXCEPT !.snap = S, !.seen = Issued, !.fams = F])
    BY <1>12 DEF BulkSnapshot, S, F
  <2> QED BY <1>12, <1>a, <2>4, <2>5, StartTypes DEF BulkSnapshot, Tables, TypeOK, Steps
<1>13. ASSUME NEW p \in Procs, BulkApply(p) PROVE TypeOK'
  <2>1. loc[p] \in Local
    BY <1>a DEF TypeOK
  <2>2. row' \in [Tokens -> Row \cup {NoRow}]
    BY <1>13, <1>a, StruckType DEF BulkApply, TypeOK
  <2>3. closed' \subseteq Tokens /\ late' \subseteq Tokens
    BY <1>13, <1>a, <2>1 DEF BulkApply, TypeOK, Local, Stored
  <2>4. pc' \in [Procs -> Steps]
    BY <1>13, <1>a DEF BulkApply, TypeOK, Steps
  <2>5. \A q \in Procs : [loc[q] EXCEPT !.late = TRUE] \in Local
    BY <1>a DEF TypeOK, Local
  <2>6. loc' \in [Procs -> Local]
    BY <1>13, <1>a, <2>1, <2>5, NoLocalType DEF BulkApply, TypeOK
  <2> QED BY <1>13, <1>a, <2>2, <2>3, <2>4, <2>6 DEF BulkApply, TypeOK
<1>14. ASSUME NEW p \in Procs, LogoutCommit(p) PROVE TypeOK'
  <2>1. row' \in [Tokens -> Row \cup {NoRow}]
    BY <1>14, <1>a, StoredRow, RotatedType DEF LogoutCommit, TypeOK
  <2> QED BY <1>14, <1>a, <2>1 DEF LogoutCommit, Goto, TypeOK, Steps
<1>15. ASSUME NEW p \in Procs, Blacklist(p) PROVE TypeOK'
  <2>1. Blacklisted(loc[p].tok) \subseteq Tokens
    BY <1>15, <1>a DEF Blacklist, HolderPresent, Blacklisted, TypeOK, Issued
  <2> QED BY <1>15, <1>a, <2>1, FinishTypes DEF Blacklist, TypeOK
<1>16. ASSUME NEW p \in Procs, ChangePasswordCommit(p) PROVE TypeOK'
  BY <1>16, <1>a DEF ChangePasswordCommit, Goto, Tables, TypeOK, Steps
<1>17. ASSUME NEW p \in Procs, ChangePasswordLogout(p) PROVE TypeOK'
  <2> DEFINE t == loc[p].tok
  <2>1. t \in Issued
    BY <1>17 DEF ChangePasswordLogout, HolderPresent
  <2>2. [NoLocal EXCEPT !.op = "changePw", !.tok = t, !.user = jwt[t].sub] \in Local
    BY <1>a, <2>1, NoLocalType, IssuedClaims DEF Claims, Local, Steps
  <2> QED BY <1>17, <1>a, <2>2, StartTypes
    DEF ChangePasswordLogout, LogoutSelect, Tables, TypeOK, Steps
<1>18. ASSUME NEW p \in Procs, DeleteCommit(p) PROVE TypeOK'
  <2>1. row' \in [Tokens -> Row \cup {NoRow}]
    BY <1>18, <1>a DEF DeleteCommit, TypeOK
  <2> QED BY <1>18, <1>a, <2>1 DEF DeleteCommit, Goto, TypeOK, Steps
<1>19. ASSUME NEW p \in Procs, Abort(p) PROVE TypeOK'
  BY <1>19, <1>a, FinishTypes DEF Abort, Tables, TypeOK
<1>20. CASE Tick
  BY <1>20, <1>a DEF Tick, Tables, TypeOK
<1>21. CASE UNCHANGED vars
  BY <1>21, <1>a DEF vars, TypeOK
<1> QED
  BY <1>1, <1>2, <1>3, <1>4, <1>5, <1>6, <1>7, <1>8, <1>9, <1>10, <1>11, <1>12,
     <1>13, <1>14, <1>15, <1>16, <1>17, <1>18, <1>19, <1>20, <1>21
  DEF Next

(* What a bulk statement's commit does to the handlers: its own goes on to *)
(* the blacklist or ends, and others are at most marked late.              *)
LEMMA BulkApplyControl ==
    ASSUME pc \in [Procs -> Steps], loc \in [Procs -> Local],
           NEW p \in Procs, BulkApply(p)
    PROVE  /\ \/ loc[p].op # "logoutAll" /\ pc'[p] = "idle"
              \/ loc[p].op = "logoutAll" /\ pc'[p] = "blacklist" /\ loc'[p] = loc[p]
           /\ \A q \in Procs \ {p} :
                 /\ pc'[q] = pc[q] /\ loc'[q].tok = loc[q].tok /\ loc'[q].op = loc[q].op
                 /\ loc'[q].user = loc[q].user /\ loc'[q].fam = loc[q].fam
<1>1. CASE loc[p].op = "logoutAll"
  BY <1>1 DEF BulkApply, Local
<1>2. CASE loc[p].op # "logoutAll"
  BY <1>2 DEF BulkApply, Local
<1> QED BY <1>1, <1>2

(* Nothing a handler holds goes stale: the owner and family of a row never *)
(* change, and a row that is deleted does not come back.                   *)
LEMMA HandlerStep == HandlerInv /\ [Next]_vars => (RowsOK /\ HolderPresent /\ HandlersOK)'
<1> SUFFICES ASSUME HandlerInv, [Next]_vars PROVE (RowsOK /\ HolderPresent /\ HandlersOK)'
  OBVIOUS
<1> USE DEF HandlerInv, TypeOK, RowsOK, HolderPresent, HandlersOK, Refreshing, Stored, Issued
<1>1. ASSUME NEW p \in Procs, NEW u \in Users, SigninRead(p, u)
      PROVE  (RowsOK /\ HolderPresent /\ HandlersOK)'
  BY <1>1
  DEF SigninRead, Accept, Idle, Start, Tables, NoLocal
<1>2. ASSUME NEW p \in Procs, NEW u \in Users, ResetPassword(p, u)
      PROVE  (RowsOK /\ HolderPresent /\ HandlersOK)'
  BY <1>2
  DEF ResetPassword, Accept, Idle, Start, Tables, NoLocal
<1>3. ASSUME NEW p \in Procs, NEW t \in Tokens, RefreshRead(p, t)
      PROVE  (RowsOK /\ HolderPresent /\ HandlersOK)'
  BY <1>3
  DEF RefreshRead, Accepted, Accept, Idle, Start, Tables, NoLocal, NoRow, Row
<1>4. ASSUME NEW p \in Procs, NEW t \in Tokens, ReuseRead(p, t)
      PROVE  (RowsOK /\ HolderPresent /\ HandlersOK)'
  BY <1>4
  DEF ReuseRead, Reused, Accept, Idle, Start, Tables, NoLocal, NoRow, Row
<1>5. ASSUME NEW p \in Procs, NEW t \in Tokens, LogoutAll(p, t)
      PROVE  (RowsOK /\ HolderPresent /\ HandlersOK)'
  BY <1>5
  DEF LogoutAll, Authenticated, Accept, Idle, Start, Tables, NoLocal
<1>6. ASSUME NEW p \in Procs, NEW t \in Tokens, Logout(p, t)
      PROVE  (RowsOK /\ HolderPresent /\ HandlersOK)'
  BY <1>6
  DEF Logout, LogoutSelect, Accept, Idle, Start, Tables, NoLocal
<1>7. ASSUME NEW p \in Procs, NEW t \in Tokens, ChangePassword(p, t)
      PROVE  (RowsOK /\ HolderPresent /\ HandlersOK)'
  BY <1>7
  DEF ChangePassword, Authenticated, Accept, Idle, Start, Tables, NoLocal
<1>8. ASSUME NEW p \in Procs, NEW t \in Tokens, DeleteProfile(p, t)
      PROVE  (RowsOK /\ HolderPresent /\ HandlersOK)'
  BY <1>8
  DEF DeleteProfile, Authenticated, Accept, Idle, Start, Tables, NoLocal
<1>9. ASSUME NEW p \in Procs, SigninCommit(p)
      PROVE  (RowsOK /\ HolderPresent /\ HandlersOK)'
  BY <1>9, FreshToken, SessionsAssumption
  DEF SigninCommit, ReferencesUser, Issue, NewRow, Finish, Start, NoLocal, NoRow, NoClaims
<1>10. ASSUME NEW p \in Procs, RefreshBlacklist(p)
      PROVE  (RowsOK /\ HolderPresent /\ HandlersOK)'
  BY <1>10
  DEF RefreshBlacklist, Goto
<1>11. ASSUME NEW p \in Procs, RefreshCommit(p)
      PROVE  (RowsOK /\ HolderPresent /\ HandlersOK)'
  <2> DEFINE t == loc[p].tok
  <2>1. Fresh \in Tokens /\ Fresh \notin Issued /\ Fresh \notin Stored /\ Fresh # t
    BY <1>11, FreshToken DEF RefreshCommit
  <2>2. /\ t \in Stored /\ t \in Tokens /\ row[t] \in Row
        /\ row[t].user = loc[p].user /\ row[t].family = loc[p].fam
    BY <1>11, StoredRow DEF RefreshCommit
  <2>3. row' = [row EXCEPT ![t] = Rotated(row[t], loc[p].at),
                          ![Fresh] = NewRow(loc[p].user, loc[p].fam, loc[p].at)]
    BY <1>11, <2>1 DEF RefreshCommit, Issue
  <2>4. /\ Rotated(row[t], loc[p].at).user = row[t].user
        /\ Rotated(row[t], loc[p].at).family = row[t].family
    BY <2>2 DEF Rotated, Row
  <2>5. NewRow(loc[p].user, loc[p].fam, loc[p].at).user = loc[p].user
    BY DEF NewRow
  <2>6. \A x \in Tokens : jwt'[x] = jwt[x] \/ (x = Fresh /\ jwt'[x].sub = loc[p].user)
    BY <1>11 DEF RefreshCommit, Issue
  <2>7. Issued \cup {Fresh} \subseteq Issued'
    BY <1>11, <2>1, <2>2, SessionsAssumption DEF RefreshCommit, Issue, NoClaims, Row
  <2>8. /\ \A q \in Procs \ {p} : pc'[q] = pc[q] /\ loc'[q] = loc[q]
        /\ pc'[p] = "idle" /\ users' = users
    BY <1>11 DEF RefreshCommit, Finish, Start
  <2> HIDE DEF t
  <2>9. \A x \in Stored' : x = Fresh \/ x \in Stored
    BY <2>2, <2>3
  <2>10. \A x \in Stored : row'[x].user = row[x].user /\ row'[x].family = row[x].family
    BY <2>1, <2>2, <2>3, <2>4
  <2>11. RowsOK'
    BY <2>1, <2>2, <2>3, <2>5, <2>7, <2>8, <2>9, <2>10
  <2>12. HolderPresent'
    BY <2>7, <2>8
  <2>13. HandlersOK'
    BY <2>1, <2>7, <2>8, <2>9, <2>10
  <2> QED BY <2>11, <2>12, <2>13
<1>12. ASSUME NEW p \in Procs, BulkSnapshot(p)
      PROVE  (RowsOK /\ HolderPresent /\ HandlersOK)'
  BY <1>12
  DEF BulkSnapshot, Start, Tables
<1>13. ASSUME NEW p \in Procs, BulkApply(p)
      PROVE  (RowsOK /\ HolderPresent /\ HandlersOK)'
  <2>1. \A x \in Stored' : /\ x \in Stored
                         /\ row'[x].user = row[x].user /\ row'[x].family = row[x].family
    BY <1>13, StoredRow DEF BulkApply, Struck, Row
  <2>2. users' = users /\ jwt' = jwt
    BY <1>13 DEF BulkApply
  <2>3. \A q \in Procs \ {p} : /\ pc'[q] = pc[q] /\ loc'[q].tok = loc[q].tok
                             /\ loc'[q].op = loc[q].op /\ loc'[q].user = loc[q].user
                             /\ loc'[q].fam = loc[q].fam
    BY <1>13, BulkApplyControl
  <2>4. \/ pc'[p] = "idle"
        \/ pc'[p] = "blacklist" /\ loc'[p] = loc[p] /\ loc[p].op = "logoutAll"
    BY <1>13, BulkApplyControl
  <2>5. loc[p].op = "logoutAll" => loc[p].tok \in Issued
    BY <1>13 DEF BulkApply
  <2>6. RowsOK'
    BY <2>1, <2>2
  <2>7. HolderPresent'
    BY <2>2, <2>3, <2>4, <2>5
  <2>8. HandlersOK'
    BY <2>1, <2>2, <2>3, <2>4
  <2> QED BY <2>6, <2>7, <2>8
<1>14. ASSUME NEW p \in Procs, LogoutCommit(p)
      PROVE  (RowsOK /\ HolderPresent /\ HandlersOK)'
  BY <1>14
  DEF LogoutCommit, LoggedOut, Goto, NoRow, Row
<1>15. ASSUME NEW p \in Procs, Blacklist(p)
      PROVE  (RowsOK /\ HolderPresent /\ HandlersOK)'
  BY <1>15
  DEF Blacklist, Finish, Start, NoLocal
<1>16. ASSUME NEW p \in Procs, ChangePasswordCommit(p)
      PROVE  (RowsOK /\ HolderPresent /\ HandlersOK)'
  BY <1>16
  DEF ChangePasswordCommit, Goto, Tables
<1>17. ASSUME NEW p \in Procs, ChangePasswordLogout(p)
      PROVE  (RowsOK /\ HolderPresent /\ HandlersOK)'
  BY <1>17
  DEF ChangePasswordLogout, LogoutSelect, Start, Tables, NoLocal
<1>18. ASSUME NEW p \in Procs, DeleteCommit(p)
      PROVE  (RowsOK /\ HolderPresent /\ HandlersOK)'
  BY <1>18
  DEF DeleteCommit, Goto
<1>19. ASSUME NEW p \in Procs, Abort(p)
      PROVE  (RowsOK /\ HolderPresent /\ HandlersOK)'
  BY <1>19
  DEF Abort, Finish, Start, Tables, NoLocal
<1>20. CASE Tick
  BY <1>20 DEF Tick, Tables
<1>21. CASE UNCHANGED vars
  BY <1>21 DEF vars
<1> QED
  BY <1>1, <1>2, <1>3, <1>4, <1>5, <1>6, <1>7, <1>8, <1>9, <1>10, <1>11, <1>12,
     <1>13, <1>14, <1>15, <1>16, <1>17, <1>18, <1>19, <1>20, <1>21
  DEF Next
----------------------------------------------------------------------------
(***************************************************************************)
(* Rotation.  Of all steps only the two commits that issue a token write   *)
(* the history; the others are calm: what is dead stays dead, and a        *)
(* handler comes to hold a token only by reading a row that is not revoked.*)
(***************************************************************************)
DeadStaysDead ==
    \A t \in Issued : (t \in Stored => row[t].revoked)
                         => (t \in Stored' => t \in Stored /\ row'[t].revoked)

HoldersKept ==
    \A q \in Procs : \A t \in Tokens :
       Refreshing(q, t)' =>
          \/ /\ Refreshing(q, t)
             /\ pc'[q] = "rotate" =>
                   pc[q] = "rotate" \/ t \in black' \/ jwt[t].exp <= now
          \/ t \in Stored /\ ~row[t].revoked /\ pc'[q] = "refresh"

Calm ==
    /\ UNCHANGED <<origin, jwt>>
    /\ black \subseteq black' /\ now <= now'
    /\ DeadStaysDead /\ HoldersKept

LEMMA CalmSteps ==
    ASSUME HandlerInv, [Next]_vars,
           \A p \in Procs : ~SigninCommit(p) /\ ~RefreshCommit(p)
    PROVE  Calm
<1> USE DEF HandlerInv, TypeOK, RowsOK, HolderPresent, Refreshing, Stored, Issued,
            Calm, DeadStaysDead, HoldersKept
<1>1. ASSUME NEW p \in Procs, NEW u \in Users, SigninRead(p, u) PROVE Calm
  BY <1>1 DEF SigninRead, Accept, Idle, Start, Tables, NoLocal
<1>2. ASSUME NEW p \in Procs, NEW u \in Users, ResetPassword(p, u) PROVE Calm
  BY <1>2 DEF ResetPassword, Accept, Idle, Start, Tables, NoLocal
<1>3. ASSUME NEW p \in Procs, NEW t \in Tokens, RefreshRead(p, t) PROVE Calm
  BY <1>3 DEF RefreshRead, Accepted, Accept, Idle, Start, Tables, NoLocal
<1>4. ASSUME NEW p \in Procs, NEW t \in Tokens, ReuseRead(p, t) PROVE Calm
  BY <1>4 DEF ReuseRead, Accept, Idle, Start, Tables, NoLocal
<1>5. ASSUME NEW p \in Procs, NEW t \in Tokens, LogoutAll(p, t) PROVE Calm
  BY <1>5 DEF LogoutAll, Accept, Idle, Start, Tables, NoLocal
<1>6. ASSUME NEW p \in Procs, NEW t \in Tokens, Logout(p, t) PROVE Calm
  BY <1>6 DEF Logout, LogoutSelect, Accept, Idle, Start, Tables, NoLocal
<1>7. ASSUME NEW p \in Procs, NEW t \in Tokens, ChangePassword(p, t) PROVE Calm
  BY <1>7 DEF ChangePassword, Accept, Idle, Start, Tables, NoLocal
<1>8. ASSUME NEW p \in Procs, NEW t \in Tokens, DeleteProfile(p, t) PROVE Calm
  BY <1>8 DEF DeleteProfile, Accept, Idle, Start, Tables, NoLocal
<1>9. ASSUME NEW p \in Procs, RefreshBlacklist(p) PROVE Calm
  <2> DEFINE x == loc[p].tok
  <2>1. x \in Issued /\ jwt[x].exp \in Nat /\ now \in Nat
    BY <1>9, IssuedClaims DEF RefreshBlacklist, HandlersOK, Claims
  <2>2. x \in black' \/ jwt[x].exp <= now
    BY <1>9, <2>1 DEF RefreshBlacklist, Blacklisted
  <2>3. HoldersKept
    BY <1>9, <2>2 DEF RefreshBlacklist, Goto
  <2> QED BY <1>9, <2>3 DEF RefreshBlacklist, Blacklisted
<1>10. ASSUME NEW p \in Procs, BulkSnapshot(p) PROVE Calm
  BY <1>10 DEF BulkSnapshot, Start, Tables
<1>11. ASSUME NEW p \in Procs, BulkApply(p) PROVE Calm
  <2>1. UNCHANGED <<origin, jwt, black, now>>
    BY <1>11 DEF BulkApply
  <2>2. DeadStaysDead
    BY <1>11, StoredRow DEF BulkApply, Struck, Row
  <2>3. \A q \in Procs \ {p} : pc'[q] = pc[q] /\ loc'[q].tok = loc[q].tok
    BY <1>11, BulkApplyControl
  <2>4. pc'[p] = "idle" \/ pc'[p] = "blacklist"
    BY <1>11, BulkApplyControl
  <2>5. HoldersKept
    BY <2>3, <2>4
  <2> QED BY <2>1, <2>2, <2>5
<1>12. ASSUME NEW p \in Procs, LogoutCommit(p) PROVE Calm
  BY <1>12 DEF LogoutCommit, LoggedOut, Goto, Row
<1>13. ASSUME NEW p \in Procs, Blacklist(p) PROVE Calm
  BY <1>13 DEF Blacklist, Blacklisted, Finish, Start, NoLocal
<1>14. ASSUME NEW p \in Procs, ChangePasswordCommit(p) PROVE Calm
  BY <1>14 DEF ChangePasswordCommit, Goto, Tables
<1>15. ASSUME NEW p \in Procs, ChangePasswordLogout(p) PROVE Calm
  BY <1>15 DEF ChangePasswordLogout, LogoutSelect, Start, Tables, NoLocal
<1>16. ASSUME NEW p \in Procs, DeleteCommit(p) PROVE Calm
  BY <1>16 DEF DeleteCommit, Goto
<1>17. ASSUME NEW p \in Procs, Abort(p) PROVE Calm
  BY <1>17 DEF Abort, Finish, Start, Tables, NoLocal
<1>18. CASE Tick
  BY <1>18 DEF Tick, Tables
<1>19. CASE UNCHANGED vars
  BY <1>19 DEF vars
<1> QED
  BY <1>1, <1>2, <1>3, <1>4, <1>5, <1>6, <1>7, <1>8, <1>9, <1>10, <1>11,
     <1>12, <1>13, <1>14, <1>15, <1>16, <1>17, <1>18, <1>19
  DEF Next

LEMMA CalmKeeps ==
    ASSUME HandlerInv, HandlerInv', RotationInv, Calm
    PROVE  RotationInv'
<1> USE DEF RotationInv, Calm
<1>1. \A c, t \in Tokens : Child(c, t)' <=> Child(c, t)
  BY DEF Child, Parent, Issued
<1>2. ParentIssued'
  BY <1>1 DEF ParentIssued, Issued
<1>3. RotatedIsDead'
  BY <1>1 DEF RotatedIsDead, ParentIssued, DeadStaysDead
<1>4. MinterDone'
  BY <1>1 DEF MinterDone, HoldersKept, RotatedIsDead
<1>5. SiblingsOverlap'
  BY <1>1 DEF SiblingsOverlap
<1>6. BlacklistFirst'
  <2> SUFFICES ASSUME NEW q \in Procs, NEW t \in Tokens, Refreshing(q, t)', pc'[q] = "rotate"
               PROVE  t \in black' \/ jwt'[t].exp <= now'
    BY DEF BlacklistFirst
  <2>1. t \in black' \/ jwt[t].exp <= now
    BY DEF BlacklistFirst, HoldersKept
  <2>2. jwt[t].exp \in Nat /\ now \in Nat /\ now' \in Nat
    BY IssuedClaims DEF HandlerInv, HandlersOK, TypeOK, Claims, Issued
  <2> QED BY <2>1, <2>2
<1>7. AccessDeadBeforeRotation'
  <2> SUFFICES ASSUME NEW t \in Tokens, NEW c \in Tokens, Child(c, t)
               PROVE  t \in black' \/ jwt'[t].exp <= now'
    BY <1>1 DEF AccessDeadBeforeRotation
  <2>1. t \in black \/ jwt[t].exp <= now
    BY DEF AccessDeadBeforeRotation
  <2>2. jwt[t].exp \in Nat /\ now \in Nat /\ now' \in Nat
    BY IssuedClaims DEF ParentIssued, HandlerInv, TypeOK, Claims
  <2> QED BY <2>1, <2>2
<1> QED BY <1>2, <1>3, <1>4, <1>5, <1>6, <1>7

(* Issuing a token: the row of an issued token keeps its place, and no      *)
(* token is the parent of one that has just been issued but the presented.  *)
LEMMA SigninKeeps ==
    ASSUME HandlerInv, HandlerInv', RotationInv, NEW p \in Procs, SigninCommit(p)
    PROVE  RotationInv' /\ DeadStaysDead
<1>1. Fresh \in Tokens /\ Fresh \notin Issued /\ Fresh \notin Stored
  BY FreshToken DEF SigninCommit, HandlerInv, RowsOK
<1>2. \A x \in Tokens \ {Fresh} :
         row'[x] = row[x] /\ jwt'[x] = jwt[x] /\ origin'[x] = origin[x]
  BY DEF SigninCommit, Issue, HandlerInv, TypeOK
<1>3. origin'[Fresh].parent = NoToken /\ NoToken \notin Tokens
  BY <1>1, SessionsAssumption DEF SigninCommit, Issue, HandlerInv, TypeOK
<1>4. \A c, t \in Tokens : Child(c, t)' <=> Child(c, t)
  BY <1>1, <1>2, <1>3 DEF Child, Parent, Issued
<1>5. \A q \in Procs : \A t \in Tokens :
         Refreshing(q, t)' => Refreshing(q, t) /\ t \in Issued /\ pc[q] = pc'[q]
  BY DEF SigninCommit, Finish, Start, NoLocal, HandlerInv, TypeOK, HandlersOK, Refreshing
<1>6. black' = black /\ now' = now
  BY DEF SigninCommit
<1>7. \A t, c \in Tokens : Child(c, t) => t \in Issued /\ t # Fresh /\ c # Fresh
  BY <1>1 DEF RotationInv, ParentIssued, Child
<1>8. ParentIssued'
  BY <1>2, <1>4, <1>7 DEF Issued, ParentIssued
<1>9. RotatedIsDead'
  BY <1>2, <1>4, <1>7 DEF RotationInv, RotatedIsDead, Stored
<1>10. MinterDone'
  BY <1>2, <1>4, <1>5, <1>7 DEF RotationInv, MinterDone
<1>11. SiblingsOverlap'
  BY <1>2, <1>4, <1>7 DEF RotationInv, SiblingsOverlap
<1>12. BlacklistFirst'
  BY <1>1, <1>2, <1>5, <1>6 DEF RotationInv, BlacklistFirst
<1>13. AccessDeadBeforeRotation'
  BY <1>2, <1>4, <1>6, <1>7 DEF RotationInv, AccessDeadBeforeRotation
<1>14. DeadStaysDead
  BY <1>1, <1>2 DEF DeadStaysDead, Stored, Issued
<1> QED BY <1>8, <1>9, <1>10, <1>11, <1>12, <1>13, <1>14 DEF RotationInv

LEMMA RefreshKeeps ==
    ASSUME HandlerInv, HandlerInv', RotationInv, NEW p \in Procs, RefreshCommit(p)
    PROVE  RotationInv' /\ DeadStaysDead
<1> DEFINE old == loc[p].tok
<1>1. Fresh \in Tokens /\ Fresh \notin Issued /\ Fresh \notin Stored
  BY FreshToken DEF RefreshCommit, HandlerInv, RowsOK
<1>2. /\ old \in Stored /\ old \in Tokens /\ old \in Issued /\ old # Fresh
      /\ Refreshing(p, old) /\ pc[p] = "rotate"
  BY <1>1 DEF RefreshCommit, HandlerInv, RowsOK, Refreshing, Stored
<1>3. /\ row'[old] = Rotated(row[old], loc[p].at)
      /\ jwt'[old] = jwt[old] /\ origin'[old] = origin[old]
  BY <1>2 DEF RefreshCommit, Issue, HandlerInv, TypeOK
<1>4. row'[old].revoked
  BY <1>2, <1>3, StoredRow DEF Rotated, Row, HandlerInv
<1>5. \A x \in Tokens \ {Fresh, old} :
         row'[x] = row[x] /\ jwt'[x] = jwt[x] /\ origin'[x] = origin[x]
  BY DEF RefreshCommit, Issue, HandlerInv, TypeOK
<1>6. origin'[Fresh] = [parent |-> old, by |-> p]
  BY <1>1 DEF RefreshCommit, Issue, HandlerInv, TypeOK
<1>7. Fresh \in Issued'
  BY <1>1, <1>2, SessionsAssumption, StoredRow
  DEF RefreshCommit, Issue, HandlerInv, TypeOK, Issued, NoClaims, HandlersOK
<1>8. /\ \A q \in Procs \ {p} : pc'[q] = pc[q] /\ loc'[q] = loc[q]
      /\ pc'[p] = "idle" /\ black' = black /\ now' = now
  BY DEF RefreshCommit, Finish, Start, HandlerInv, TypeOK
<1> HIDE DEF old
<1>9. \A c, t \in Tokens : Child(c, t)' <=> Child(c, t) \/ (c = Fresh /\ t = old)
  BY <1>1, <1>2, <1>3, <1>5, <1>6, <1>7 DEF Child, Parent, Issued
<1>10. \A c, t \in Tokens : Child(c, t) => t \in Issued /\ t # Fresh /\ c # Fresh
  BY <1>1 DEF RotationInv, ParentIssued, Child
<1>11. \A c, t \in Tokens : Child(c, t) => origin'[c] = origin[c]
  BY <1>3, <1>5, <1>10
<1>12. \A q \in Procs : \A t \in Tokens :
          Refreshing(q, t)' => q # p /\ Refreshing(q, t) /\ t \in Issued /\ pc[q] = pc'[q]
  BY <1>8 DEF Refreshing, HandlerInv, HandlersOK
<1>13. \A t \in Issued : t # Fresh /\ jwt'[t] = jwt[t] /\ t \in Issued' /\ t \in Tokens
  BY <1>1, <1>3, <1>5 DEF Issued
<1>14. DeadStaysDead
  BY <1>1, <1>2, <1>4, <1>5 DEF DeadStaysDead, Stored, Issued
<1>15. ParentIssued'
  BY <1>2, <1>9, <1>10, <1>13 DEF ParentIssued
<1>16. RotatedIsDead'
  BY <1>4, <1>9, <1>10, <1>14 DEF RotationInv, RotatedIsDead, DeadStaysDead
<1>17. MinterDone'
  BY <1>6, <1>9, <1>11, <1>12 DEF RotationInv, MinterDone
<1>18. SiblingsOverlap'
  <2>1. \A c \in Tokens : Child(c, old) => origin[c].by # p
    BY <1>2 DEF RotationInv, MinterDone
  <2> QED BY <2>1, <1>2, <1>6, <1>9, <1>10, <1>11 DEF RotationInv, SiblingsOverlap
<1>19. BlacklistFirst'
  BY <1>8, <1>12, <1>13 DEF RotationInv, BlacklistFirst
<1>20. AccessDeadBeforeRotation'
  <2>1. old \in black \/ jwt[old].exp <= now
    BY <1>2 DEF RotationInv, BlacklistFirst
  <2> QED BY <2>1, <1>2, <1>8, <1>9, <1>10, <1>13 DEF RotationInv, AccessDeadBeforeRotation
<1> QED BY <1>14, <1>15, <1>16, <1>17, <1>18, <1>19, <1>20 DEF RotationInv

LEMMA RotationStep ==
    ASSUME HandlerInv, HandlerInv', RotationInv, [Next]_vars
    PROVE  RotationInv' /\ DeadStaysDead
<1>1. CASE \E p \in Procs : SigninCommit(p)
  BY <1>1, SigninKeeps
<1>2. CASE \E p \in Procs : RefreshCommit(p)
  BY <1>2, RefreshKeeps
<1>3. CASE \A p \in Procs : ~SigninCommit(p) /\ ~RefreshCommit(p)
  BY <1>3, CalmSteps, CalmKeeps DEF Calm
<1> QED BY <1>1, <1>2, <1>3
----------------------------------------------------------------------------
(* What a handler loaded agrees with the tables in every reachable state.   *)
LEMMA HandlerCorrect == Spec => []HandlerInv
<1>1. Init => HandlerInv
  BY InitInv
<1>2. HandlerInv /\ [Next]_vars => HandlerInv'
  BY TypeStep, HandlerStep DEF HandlerInv
<1> QED BY <1>1, <1>2, PTL DEF Spec

(* Every variable keeps its type: no request stores a session without an    *)
(* owner, a family or an expiry.                                            *)
THEOREM TypeCorrect == Spec => []TypeOK
<1>1. HandlerInv => TypeOK
  BY DEF HandlerInv
<1> QED BY <1>1, HandlerCorrect, PTL

(* Deleting an account leaves no session behind, whatever sign-ins and      *)
(* refreshes of it are in flight (the foreign key and its cascade).         *)
THEOREM NoOrphans == Spec => []NoOrphanSessions
<1>1. HandlerInv => NoOrphanSessions
  BY DEF HandlerInv, RowsOK, NoOrphanSessions
<1> QED BY <1>1, HandlerCorrect, PTL

LEMMA RotationCorrect == Spec => []RotationInv
<1>1. Init => RotationInv
  BY InitInv
<1>2. HandlerInv /\ HandlerInv' /\ RotationInv /\ [Next]_vars => RotationInv'
  BY RotationStep
<1> QED BY <1>1, <1>2, HandlerCorrect, PTL DEF Spec

(* A refresh token that has been exchanged is dead for good, however many   *)
(* handlers run (refresh_session).                                          *)
THEOREM RotationSafe == Spec => []RotatedIsDead
<1>1. RotationInv => RotatedIsDead
  BY DEF RotationInv
<1> QED BY <1>1, RotationCorrect, PTL

(* Two tokens exchanged for the same one come from two refreshes that       *)
(* overlapped.                                                              *)
THEOREM ForksOverlap == Spec => []SiblingsOverlap
<1>1. RotationInv => SiblingsOverlap
  BY DEF RotationInv
<1> QED BY <1>1, RotationCorrect, PTL

(* By the time a refresh commits, the access token it replaces is in the    *)
(* blacklist or has no time left.                                           *)
THEOREM AccessTokensDie == Spec => []AccessDeadBeforeRotation
<1>1. RotationInv => AccessDeadBeforeRotation
  BY DEF RotationInv
<1> QED BY <1>1, RotationCorrect, PTL

(* No commit of objects loaded earlier, and no bulk statement, gives a      *)
(* revoked or deleted refresh token back its life.                          *)
THEOREM RevocationIsFinal == Spec => RevocationFinal
<1>1. HandlerInv /\ HandlerInv' /\ RotationInv /\ [Next]_vars
         => [DeadStaysDead]_vars
  BY RotationStep
<1>2. [DeadStaysDead]_vars
         => [\A t \in Issued : (t \in Stored => row[t].revoked)
                => (t \in Stored' => t \in Stored /\ row'[t].revoked)]_vars
  BY DEF DeadStaysDead
<1> QED BY <1>1, <1>2, HandlerCorrect, RotationCorrect, PTL DEF Spec, RevocationFinal
----------------------------------------------------------------------------
(***************************************************************************)
(* Revocation.  What survives the end of a family is late.  The invariant  *)
(* follows a revocation through its two steps: its snapshot holds every    *)
(* active token of the families it ends that was issued by then (Covered), *)
(* and a handler that is still rotating a token of an ended family is      *)
(* marked late, or holds a late token (OvertakenMarked).                   *)
(***************************************************************************)
FamilyOwner ==
    \A t \in Stored : row[t].family \in Issued /\ jwt[row[t].family].sub = row[t].user

ClosedIssued ==
    /\ closed \subseteq Issued
    /\ \A p \in Procs :
          /\ pc[p] = "reuse" => loc[p].fam \in Issued
          /\ pc[p] = "apply" => loc[p].fams \subseteq Issued /\ loc[p].seen \subseteq Issued

Parity == now % 2 = 0 /\ \A t \in Stored : row[t].exp % 2 = 1

Covered ==
    \A p \in Procs : pc[p] = "apply" =>
       \A t \in Stored \cap loc[p].seen :
          Active(t) /\ row[t].family \in loc[p].fams => t \in loc[p].snap

OvertakenMarked ==
    \A p \in Procs : \A t \in Tokens :
       Refreshing(p, t) /\ loc[p].fam \in closed => loc[p].late \/ t \in late

LateInv ==
    /\ FamilyOwner /\ ClosedIssued /\ Parity /\ Covered
    /\ OvertakenMarked /\ SurvivorsAreLate

(* A row that outlives a step keeps what identifies it, and its life is at *)
(* most shortened.                                                         *)
RowKept(t) ==
    /\ t \in Stored
    /\ row'[t].user = row[t].user /\ row'[t].family = row[t].family
    /\ row'[t].exp = row[t].exp /\ (row[t].revoked => row'[t].revoked)

(* Steps other than a commit that issues tokens or ends families.          *)
Quiet ==
    /\ UNCHANGED <<jwt, closed, late>>
    /\ now' = now \/ now' = now + 2
    /\ \A t \in Stored' : RowKept(t)
    /\ \A q \in Procs :
          /\ \A t \in Tokens : Refreshing(q, t)' =>
                \/ /\ Refreshing(q, t)
                   /\ loc'[q].fam = loc[q].fam /\ loc'[q].late = loc[q].late
                \/ Accepted(t) /\ loc'[q].fam = row[t].family
          /\ pc'[q] = "reuse" =>
                \/ pc[q] = "reuse" /\ loc'[q] = loc[q]
                \/ \E t \in Stored : loc'[q].fam = row[t].family
          /\ pc'[q] = "apply" =>
                \/ pc[q] = "apply" /\ loc'[q] = loc[q]
                \/ BulkSnapshot(q)

LEMMA QuietSteps ==
    ASSUME HandlerInv, [Next]_vars,
           \A p \in Procs : ~SigninCommit(p) /\ ~RefreshCommit(p) /\ ~BulkApply(p)
    PROVE  Quiet
<1> USE DEF HandlerInv, TypeOK, Refreshing, Stored, Quiet, RowKept
<1>1. ASSUME NEW p \in Procs, NEW u \in Users, SigninRead(p, u) PROVE Quiet
  BY <1>1 DEF SigninRead, Accept, Idle, Start, Tables, NoLocal
<1>2. ASSUME NEW p \in Procs, NEW u \in Users, ResetPassword(p, u) PROVE Quiet
  BY <1>2 DEF ResetPassword, Accept, Idle, Start, Tables, NoLocal
<1>3. ASSUME NEW p \in Procs, NEW t \in Tokens, RefreshRead(p, t) PROVE Quiet
  BY <1>3 DEF RefreshRead, Accept, Idle, Start, Tables, NoLocal
<1>4. ASSUME NEW p \in Procs, NEW t \in Tokens, ReuseRead(p, t) PROVE Quiet
  BY <1>4 DEF ReuseRead, Reused, Accept, Idle, Start, Tables, NoLocal
<1>5. ASSUME NEW p \in Procs, NEW t \in Tokens, LogoutAll(p, t) PROVE Quiet
  BY <1>5 DEF LogoutAll, Accept, Idle, Start, Tables, NoLocal
<1>6. ASSUME NEW p \in Procs, NEW t \in Tokens, Logout(p, t) PROVE Quiet
  BY <1>6 DEF Logout, LogoutSelect, Accept, Idle, Start, Tables, NoLocal
<1>7. ASSUME NEW p \in Procs, NEW t \in Tokens, ChangePassword(p, t) PROVE Quiet
  BY <1>7 DEF ChangePassword, Accept, Idle, Start, Tables, NoLocal
<1>8. ASSUME NEW p \in Procs, NEW t \in Tokens, DeleteProfile(p, t) PROVE Quiet
  BY <1>8 DEF DeleteProfile, Accept, Idle, Start, Tables, NoLocal
<1>9. ASSUME NEW p \in Procs, RefreshBlacklist(p) PROVE Quiet
  BY <1>9 DEF RefreshBlacklist, Goto
<1>10. ASSUME NEW p \in Procs, BulkSnapshot(p) PROVE Quiet
  BY <1>10 DEF BulkSnapshot, Start, Tables
<1>11. ASSUME NEW p \in Procs, LogoutCommit(p) PROVE Quiet
  BY <1>11 DEF LogoutCommit, LoggedOut, Goto, Row
<1>12. ASSUME NEW p \in Procs, Blacklist(p) PROVE Quiet
  BY <1>12 DEF Blacklist, Finish, Start, NoLocal
<1>13. ASSUME NEW p \in Procs, ChangePasswordCommit(p) PROVE Quiet
  BY <1>13 DEF ChangePasswordCommit, Goto, Tables
<1>14. ASSUME NEW p \in Procs, ChangePasswordLogout(p) PROVE Quiet
  BY <1>14 DEF ChangePasswordLogout, LogoutSelect, Start, Tables, NoLocal
<1>15. ASSUME NEW p \in Procs, DeleteCommit(p) PROVE Quiet
  BY <1>15 DEF DeleteCommit, Goto
<1>16. ASSUME NEW p \in Procs, Abort(p) PROVE Quiet
  BY <1>16 DEF Abort, Finish, Start, Tables, NoLocal
<1>17. CASE Tick
  BY <1>17 DEF Tick, Tables
<1>18. CASE UNCHANGED vars
  BY <1>18 DEF vars
<1> QED
  BY <1>1, <1>2, <1>3, <1>4, <1>5, <1>6, <1>7, <1>8, <1>9, <1>10, <1>11,
     <1>12, <1>13, <1>14, <1>15, <1>16, <1>17, <1>18
  DEF Next

(* Clock readings never fall on an expiry, so what refresh_session accepts  *)
(* is what the session list calls active.                                  *)
LEMMA AcceptedIsActive ==
    ASSUME HandlerInv, Parity, NEW t, Accepted(t)
    PROVE  Active(t)
<1>1. t \in Stored /\ row[t].exp \in Nat /\ now \in Nat
  BY StoredRow DEF Accepted, HandlerInv, Row, TypeOK
<1>2. row[t].exp # now
  BY <1>1 DEF Parity
<1> QED BY <1>1, <1>2 DEF Accepted, Active

LEMMA SnapshotCovers ==
    ASSUME HandlerInv, FamilyOwner, NEW p \in Procs, BulkSnapshot(p),
           NEW t \in Stored, Active(t), row[t].family \in loc'[p].fams
    PROVE  t \in loc'[p].snap
<1> DEFINE S == Matched(loc[p].op, loc[p].user, loc[p].fam)
           F == Families(loc[p].op, loc[p].user, loc[p].fam)
<1>1. loc[p] \in Local
  BY DEF HandlerInv, TypeOK
<1>2. loc'[p] = [loc[p] EXCEPT !.snap = S, !.seen = Issued, !.fams = F]
  BY DEF BulkSnapshot, Start, HandlerInv, TypeOK
<1>3. loc'[p].snap = S /\ loc'[p].fams = F
  BY <1>1, <1>2 DEF Local
<1>4. CASE loc[p].op = "reuse"
  BY <1>3, <1>4 DEF Families, Matched, Active
<1>5. CASE loc[p].op # "reuse"
  <2>1. PICK x \in Stored : row[x].user = loc[p].user /\ row[t].family = row[x].family
    BY <1>3, <1>5 DEF Families
  <2>2. row[t].user = loc[p].user
    BY <2>1 DEF FamilyOwner
  <2> QED BY <1>3, <1>5, <2>2 DEF Matched
<1> QED BY <1>4, <1>5

LEMMA QuietKeeps ==
    ASSUME HandlerInv, HandlerInv', LateInv, Quiet
    PROVE  LateInv'
<1> USE DEF LateInv
<1>1. now \in Nat /\ Issued' = Issued /\ closed' = closed /\ late' = late
  BY DEF Quiet, HandlerInv, TypeOK, Issued
<1>2. \A t \in Stored' : RowKept(t) /\ row[t].exp \in Nat
  BY StoredRow DEF Quiet, RowKept, HandlerInv, Row
<1>3. \A t \in Stored' : Active(t)' => Active(t)
  BY <1>1, <1>2 DEF Active, RowKept, Quiet
<1>4. FamilyOwner'
  BY <1>1, <1>2 DEF FamilyOwner, RowKept, Quiet
<1>5. ClosedIssued'
  <2>1. ASSUME NEW p \in Procs, pc'[p] = "reuse" PROVE loc'[p].fam \in Issued
    BY <2>1 DEF Quiet, ClosedIssued, FamilyOwner
  <2>2. ASSUME NEW p \in Procs, BulkSnapshot(p)
        PROVE  loc'[p].fams \subseteq Issued /\ loc'[p].seen \subseteq Issued
    <3>1. loc[p] \in Local /\ (loc[p].op = "reuse" => loc[p].fam \in Issued)
      BY <2>2 DEF HandlerInv, TypeOK, HolderPresent, ClosedIssued, BulkSnapshot
    <3>2. Families(loc[p].op, loc[p].user, loc[p].fam) \subseteq Issued
      BY <3>1 DEF Families, FamilyOwner
    <3> QED BY <2>2, <3>1, <3>2 DEF BulkSnapshot, Start, Local, HandlerInv, TypeOK
  <2>3. ASSUME NEW p \in Procs, pc'[p] = "apply"
        PROVE  loc'[p].fams \subseteq Issued /\ loc'[p].seen \subseteq Issued
    BY <2>2, <2>3 DEF Quiet, ClosedIssued
  <2> QED BY <1>1, <2>1, <2>3 DEF ClosedIssued
<1>6. Parity'
  BY <1>1, <1>2 DEF Parity, RowKept, Quiet
<1>7. Covered'
  <2> SUFFICES ASSUME NEW p \in Procs, pc'[p] = "apply", NEW t \in Stored', t \in loc'[p].seen,
                      Active(t)', row'[t].family \in loc'[p].fams
               PROVE  t \in loc'[p].snap
    BY DEF Covered
  <2>1. t \in Stored /\ Active(t) /\ row[t].family \in loc'[p].fams
    BY <1>2, <1>3 DEF RowKept
  <2>2. CASE pc[p] = "apply" /\ loc'[p] = loc[p]
    BY <2>1, <2>2 DEF Covered
  <2>3. CASE BulkSnapshot(p)
    BY <2>1, <2>3, SnapshotCovers
  <2> QED BY <2>2, <2>3 DEF Quiet
<1>8. OvertakenMarked'
  <2> SUFFICES ASSUME NEW p \in Procs, NEW t \in Tokens, Refreshing(p, t)',
                      loc'[p].fam \in closed
               PROVE  loc'[p].late \/ t \in late
    BY <1>1 DEF OvertakenMarked
  <2>1. CASE Refreshing(p, t) /\ loc'[p].fam = loc[p].fam /\ loc'[p].late = loc[p].late
    BY <2>1 DEF OvertakenMarked
  <2>2. CASE Accepted(t) /\ loc'[p].fam = row[t].family
    BY <2>2, AcceptedIsActive DEF SurvivorsAreLate
  <2> QED BY <2>1, <2>2 DEF Quiet
<1>9. SurvivorsAreLate'
  BY <1>1, <1>2, <1>3 DEF SurvivorsAreLate, RowKept, Active
<1> QED BY <1>4, <1>5, <1>6, <1>7, <1>8, <1>9

LEMMA ApplyKeepsLate ==
    ASSUME HandlerInv, HandlerInv', LateInv, NEW p \in Procs, BulkApply(p)
    PROVE  LateInv'
<1> USE DEF LateInv
<1>1. /\ now' = now /\ jwt' = jwt /\ Issued' = Issued
      /\ closed' = closed \cup loc[p].fams /\ pc[p] = "apply"
      /\ late' = late \cup {t \in Stored \ loc[p].seen : row[t].family \in loc[p].fams}
  BY DEF BulkApply, Issued
<1>2. \A t \in Stored' : RowKept(t)
  BY StoredRow DEF BulkApply, Struck, RowKept, Stored, HandlerInv, Row
<1>3. \A t \in Stored' : t \in loc[p].snap => row'[t].revoked
  BY StoredRow DEF BulkApply, Struck, Stored, HandlerInv, Row
<1>4. \A t \in Stored' : Active(t)' => Active(t) /\ t \notin loc[p].snap
  BY <1>1, <1>2, <1>3 DEF Active, RowKept
<1>5. \A q \in Procs \ {p} :
         /\ pc'[q] = pc[q] /\ loc'[q].tok = loc[q].tok /\ loc'[q].fam = loc[q].fam
         /\ loc'[q].snap = loc[q].snap /\ loc'[q].seen = loc[q].seen
         /\ loc'[q].fams = loc[q].fams /\ (loc[q].late => loc'[q].late)
  <2> TAKE q \in Procs \ {p}
  <2>1. loc[q] \in Local
    BY DEF HandlerInv, TypeOK
  <2>2. loc'[q] = loc[q] \/ loc'[q] = [loc[q] EXCEPT !.late = TRUE]
    BY DEF BulkApply
  <2>3. pc'[q] = pc[q]
    BY DEF BulkApply, HandlerInv, TypeOK
  <2> QED BY <2>1, <2>2, <2>3 DEF Local
<1>6. \A q \in Procs \ {p} : pc[q] \in {"refresh", "rotate"} /\ loc[q].fam \in loc[p].fams
                               => loc'[q].late
  BY DEF BulkApply, HandlerInv, TypeOK, Local
<1>7. pc'[p] \in {"idle", "blacklist"}
  BY BulkApplyControl DEF HandlerInv, TypeOK
<1>8. FamilyOwner'
  BY <1>1, <1>2 DEF FamilyOwner, RowKept
<1>9. ClosedIssued'
  BY <1>1, <1>5, <1>7 DEF ClosedIssued
<1>10. Parity'
  BY <1>1, <1>2 DEF Parity, RowKept
<1>11. Covered'
  BY <1>2, <1>4, <1>5, <1>7 DEF Covered, RowKept
<1>12. OvertakenMarked'
  BY <1>1, <1>5, <1>6, <1>7 DEF OvertakenMarked, Refreshing
<1>13. SurvivorsAreLate'
  BY <1>1, <1>2, <1>4 DEF SurvivorsAreLate, Covered, RowKept, Active
<1> QED BY <1>8, <1>9, <1>10, <1>11, <1>12, <1>13

LEMMA EvenPlusOdd ==
    \A a, b \in Nat : a % 2 = 0 /\ b % 2 = 1 => (a + b) % 2 = 1
OBVIOUS

LEMMA SigninKeepsLate ==
    ASSUME HandlerInv, HandlerInv', LateInv, NEW p \in Procs, SigninCommit(p)
    PROVE  LateInv'
<1> USE DEF LateInv
<1> DEFINE u == loc[p].user
<1>1. /\ Fresh \in Tokens /\ Fresh \notin Issued /\ Fresh \notin Stored
      /\ u \in Users /\ u # NoToken
  BY FreshToken, SessionsAssumption
  DEF SigninCommit, ReferencesUser, HandlerInv, RowsOK, TypeOK
<1>2. /\ row' = [row EXCEPT ![Fresh] = NewRow(u, Fresh, loc[p].at)]
      /\ jwt' = [jwt EXCEPT ![Fresh] = [sub |-> u, exp |-> now + AccessLife]]
      /\ now' = now /\ closed' = closed /\ late' = late
  BY DEF SigninCommit, Issue
<1>3. /\ row'[Fresh] = NewRow(u, Fresh, loc[p].at)
      /\ jwt'[Fresh].sub = u
      /\ \A t \in Tokens \ {Fresh} : row'[t] = row[t] /\ jwt'[t] = jwt[t]
  BY <1>1, <1>2 DEF HandlerInv, TypeOK
<1>4. /\ row'[Fresh].user = u /\ row'[Fresh].family = Fresh
      /\ row'[Fresh].exp = now + Lifetime
  BY <1>3 DEF NewRow
<1>5. Stored' \subseteq Stored \cup {Fresh} /\ Issued' = Issued \cup {Fresh}
  BY <1>1, <1>3 DEF Stored, Issued, NoClaims
<1>6. /\ \A q \in Procs \ {p} : pc'[q] = pc[q] /\ loc'[q] = loc[q]
      /\ pc'[p] = "idle"
  BY DEF SigninCommit, Finish, Start, HandlerInv, TypeOK
<1> HIDE DEF u
<1>7. \A t \in Stored : t # Fresh /\ row'[t] = row[t] /\ (Active(t)' <=> Active(t))
  BY <1>1, <1>2, <1>3 DEF Active, Stored
<1>8. FamilyOwner'
  <2> SUFFICES ASSUME NEW t \in Stored'
               PROVE  row'[t].family \in Issued' /\ jwt'[row'[t].family].sub = row'[t].user
    BY DEF FamilyOwner
  <2>1. CASE t = Fresh
    BY <2>1, <1>3, <1>4, <1>5
  <2>2. CASE t \in Stored
    <3>1. row[t].family \in Issued /\ row[t].family \in Tokens \ {Fresh}
      BY <2>2, <1>1 DEF FamilyOwner, Issued
    <3> QED BY <2>2, <3>1, <1>3, <1>5, <1>7 DEF FamilyOwner
  <2> QED BY <2>1, <2>2, <1>5
<1>9. ClosedIssued'
  BY <1>2, <1>5, <1>6 DEF ClosedIssued
<1>10. Parity'
  <2>1. now \in Nat /\ (now + Lifetime) % 2 = 1
    BY SessionsAssumption, EvenPlusOdd DEF Parity, HandlerInv, TypeOK
  <2> QED BY <2>1, <1>2, <1>4, <1>5, <1>7 DEF Parity
<1>11. Covered'
  BY <1>1, <1>5, <1>6, <1>7 DEF Covered, ClosedIssued
<1>12. OvertakenMarked'
  BY <1>2, <1>6 DEF OvertakenMarked, Refreshing
<1>13. SurvivorsAreLate'
  BY <1>1, <1>2, <1>4, <1>5, <1>7 DEF SurvivorsAreLate, ClosedIssued, Active
<1> QED BY <1>8, <1>9, <1>10, <1>11, <1>12, <1>13

LEMMA RefreshKeepsLate ==
    ASSUME HandlerInv, HandlerInv', LateInv, NEW p \in Procs, RefreshCommit(p)
    PROVE  LateInv'
<1> USE DEF LateInv
<1> DEFINE u == loc[p].user
           f == loc[p].fam
           old == loc[p].tok
<1>1. /\ Fresh \in Tokens /\ Fresh \notin Issued /\ Fresh \notin Stored
      /\ old \in Tokens /\ old \in Stored /\ old # Fresh /\ Refreshing(p, old)
  BY FreshToken DEF RefreshCommit, HandlerInv, RowsOK, Stored, Refreshing
<1>2. /\ u \in Users /\ u # NoToken /\ row[old].user = u /\ row[old].family = f
      /\ row[old] \in Row
  BY <1>1, StoredRow, SessionsAssumption DEF HandlerInv, HandlersOK
<1>3. /\ row' = [row EXCEPT ![old] = Rotated(row[old], loc[p].at),
                            ![Fresh] = NewRow(u, f, loc[p].at)]
      /\ jwt' = [jwt EXCEPT ![Fresh] = [sub |-> u, exp |-> now + AccessLife]]
      /\ now' = now /\ closed' = closed
      /\ late' = IF loc[p].late \/ old \in late THEN late \cup {Fresh} ELSE late
  BY DEF RefreshCommit, Issue
<1>4. /\ row'[Fresh] = NewRow(u, f, loc[p].at)
      /\ row'[old] = Rotated(row[old], loc[p].at)
      /\ jwt'[Fresh].sub = u
      /\ \A t \in Tokens \ {Fresh} : jwt'[t] = jwt[t]
      /\ \A t \in Tokens \ {Fresh, old} : row'[t] = row[t]
  BY <1>1, <1>3 DEF HandlerInv, TypeOK
<1>5. /\ row'[Fresh].user = u /\ row'[Fresh].family = f
      /\ row'[Fresh].exp = now + Lifetime
  BY <1>4 DEF NewRow
<1>6. /\ row'[old].user = u /\ row'[old].family = f
      /\ row'[old].exp = row[old].exp /\ row'[old].revoked
  BY <1>2, <1>4 DEF Rotated, Row
<1>7. Stored' \subseteq Stored \cup {Fresh} /\ Issued' = Issued \cup {Fresh}
  BY <1>1, <1>2, <1>4 DEF Stored, Issued, NoClaims
<1>8. /\ \A q \in Procs \ {p} : pc'[q] = pc[q] /\ loc'[q] = loc[q]
      /\ pc'[p] = "idle"
  BY DEF RefreshCommit, Finish, Start, HandlerInv, TypeOK
<1>9. f \in closed => Fresh \in late'
  BY <1>1, <1>3 DEF OvertakenMarked
<1>10. late \subseteq late'
  BY <1>3
<1> HIDE DEF u, f, old
<1>11. \A t \in Stored : RowKept(t) /\ t # Fresh /\ (Active(t)' => Active(t))
  BY <1>1, <1>2, <1>3, <1>4, <1>6 DEF Active, Stored, RowKept
<1>12. FamilyOwner'
  <2> SUFFICES ASSUME NEW t \in Stored'
               PROVE  row'[t].family \in Issued' /\ jwt'[row'[t].family].sub = row'[t].user
    BY DEF FamilyOwner
  <2>1. \A x \in Issued : x \in Tokens \ {Fresh}
    BY <1>1 DEF Issued
  <2>2. CASE t = Fresh
    BY <2>1, <2>2, <1>1, <1>2, <1>4, <1>5, <1>7 DEF FamilyOwner
  <2>3. CASE t \in Stored
    BY <2>1, <2>3, <1>4, <1>7, <1>11 DEF FamilyOwner, RowKept
  <2> QED BY <2>2, <2>3, <1>7
<1>13. ClosedIssued'
  BY <1>3, <1>7, <1>8 DEF ClosedIssued
<1>14. Parity'
  <2>1. now \in Nat /\ (now + Lifetime) % 2 = 1
    BY SessionsAssumption, EvenPlusOdd DEF Parity, HandlerInv, TypeOK
  <2> QED BY <2>1, <1>3, <1>5, <1>7, <1>11 DEF Parity, RowKept
<1>15. Covered'
  BY <1>1, <1>7, <1>8, <1>11 DEF Covered, ClosedIssued, RowKept
<1>16. OvertakenMarked'
  BY <1>3, <1>8, <1>10 DEF OvertakenMarked, Refreshing
<1>17. SurvivorsAreLate'
  <2> SUFFICES ASSUME NEW t \in Tokens, Active(t)', row'[t].family \in closed
               PROVE  t \in late'
    BY <1>3 DEF SurvivorsAreLate
  <2>1. CASE t = Fresh
    BY <2>1, <1>5, <1>9
  <2>2. CASE t \in Stored
    BY <2>2, <1>10, <1>11 DEF SurvivorsAreLate, RowKept
  <2> QED BY <2>1, <2>2, <1>7 DEF Active
<1> QED BY <1>12, <1>13, <1>14, <1>15, <1>16, <1>17

LEMMA LateCorrect == Spec => []LateInv
<1>1. Init => LateInv
  <2> SUFFICES ASSUME Init PROVE LateInv
    OBVIOUS
  <2>1. Stored = {} /\ closed = {} /\ now = 0 /\ \A p \in Procs : pc[p] = "idle"
    BY DEF Init, Stored
  <2> QED BY <2>1 DEF LateInv, FamilyOwner, ClosedIssued, Parity, Covered,
          OvertakenMarked, Refreshing, SurvivorsAreLate, Active
<1>2. HandlerInv /\ HandlerInv' /\ LateInv /\ [Next]_vars => LateInv'
  <2> SUFFICES ASSUME HandlerInv, HandlerInv', LateInv, [Next]_vars PROVE LateInv'
    OBVIOUS
  <2>1. CASE \E p \in Procs : SigninCommit(p)
    BY <2>1, SigninKeepsLate
  <2>2. CASE \E p \in Procs : RefreshCommit(p)
    BY <2>2, RefreshKeepsLate
  <2>3. CASE \E p \in Procs : BulkApply(p)
    BY <2>3, ApplyKeepsLate
  <2>4. CASE \A p \in Procs : ~SigninCommit(p) /\ ~RefreshCommit(p) /\ ~BulkApply(p)
    BY <2>4, QuietSteps, QuietKeeps
  <2> QED BY <2>1, <2>2, <2>3, <2>4
<1> QED BY <1>1, <1>2, HandlerCorrect, PTL DEF Spec

(* After reuse detection, logout-all or a password reset has committed, an  *)
(* active token of the families it ended was rotated by a handler that the  *)
(* revocation overtook, or descends from such a token: without overlap      *)
(* (late = {}) the revocation is complete.                                  *)
THEOREM RevocationComplete == Spec => []SurvivorsAreLate
<1>1. LateInv => SurvivorsAreLate
  BY DEF LateInv
<1> QED BY <1>1, LateCorrect, PTL
=============================================================================

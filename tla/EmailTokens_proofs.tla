------------------------- MODULE EmailTokens_proofs -------------------------
(***************************************************************************)
(* Proofs about EmailTokens, for every set of users, tokens and requests.  *)
(***************************************************************************)
EXTENDS EmailTokens, TLAPS

(* p has consumed its token and has not used it yet.                        *)
Holding(p) == pc[p] \in {"load", "use"}

(* A token is in Redis, with one request, or used: at most one of the three *)
(* and, before it is generated, none.                                       *)
OnePlace ==
    /\ Live \subseteq made
    /\ \A t \in Live : uses[t] = 0
    /\ \A t \in Tokens \ made : uses[t] = 0
    /\ \A p \in Procs : Holding(p) => /\ loc[p].token \in made \ Live
                                      /\ uses[loc[p].token] = 0
    /\ \A p, q \in Procs : Holding(p) /\ Holding(q) /\ loc[p].token = loc[q].token => p = q

(* What a request that is under way is about.                               *)
HasUser ==
    \A p \in Procs :
       /\ pc[p] # "idle" => loc[p].user \in Users
       /\ pc[p] = "revoke" => loc[p].old \in Tokens
       /\ pc[p] \in {"index", "commit", "mail", "load", "use"} => loc[p].token \in Tokens

Inv == TypeOK /\ HasUser /\ OnePlace /\ UsedOnce

LEMMA NoLocalType == NoLocal \in Local
BY DEF NoLocal, Local, Ops

LEMMA Nulls == NoKey \notin Key /\ NoIndex \notin Index
BY EmailTokensAssumption DEF NoKey, Key, NoIndex, Index

LEMMA InitInv == Init => Inv
<1> SUFFICES ASSUME Init PROVE Inv
  OBVIOUS
<1>1. TypeOK
  <2>1. /\ account \in [Users -> {"unused", "pending", "unverified", "verified", "gone"}]
        /\ key \in [Tokens -> Key \cup {NoKey}] /\ index \in [Users -> Index \cup {NoIndex}]
        /\ pc \in [Procs -> Steps] /\ loc \in [Procs -> Local]
    BY NoLocalType DEF Init, Steps
  <2>2. /\ left \in [Tokens -> 0..Life] /\ uses \in [Tokens -> Nat]
        /\ newest \in [Users -> Tokens \cup {None}]
    BY EmailTokensAssumption DEF Init
  <2> QED BY <2>1, <2>2 DEF Init, TypeOK
<1>2. HasUser /\ OnePlace /\ UsedOnce
  BY DEF Init, HasUser, OnePlace, UsedOnce, Holding, Live
<1> QED BY <1>1, <1>2 DEF Inv

(* Types of the control part. *)
LEMMA AcceptTypes ==
    ASSUME TypeOK, NEW p \in Procs, NEW step \in Steps, NEW data \in Local, Accept(p, step, data)
    PROVE  /\ pc' \in [Procs -> Steps] /\ loc' \in [Procs -> Local] /\ shared' \in BOOLEAN
           /\ pc'[p] = step /\ loc'[p] = data
           /\ \A q \in Procs \ {p} : pc'[q] = pc[q] /\ loc'[q] = loc[q]
BY DEF TypeOK, Accept

LEMMA GotoTypes ==
    ASSUME TypeOK, NEW p \in Procs, NEW step \in Steps, Goto(p, step)
    PROVE  /\ pc' \in [Procs -> Steps] /\ loc' \in [Procs -> Local] /\ shared' \in BOOLEAN
           /\ pc'[p] = step /\ loc' = loc
           /\ \A q \in Procs \ {p} : pc'[q] = pc[q]
BY DEF TypeOK, Goto

LEMMA FinishTypes ==
    ASSUME TypeOK, NEW p \in Procs, Finish(p)
    PROVE  /\ pc' \in [Procs -> Steps] /\ loc' \in [Procs -> Local] /\ shared' \in BOOLEAN
           /\ pc'[p] = "idle"
           /\ \A q \in Procs \ {p} : pc'[q] = pc[q] /\ loc'[q] = loc[q]
BY NoLocalType DEF TypeOK, Finish, Steps
----------------------------------------------------------------------------
(* A step after which no more tokens are in Redis and no more are held.     *)
LEMMA NothingGained ==
    ASSUME OnePlace, UsedOnce, Live' \subseteq Live, made' = made, uses' = uses,
           \A q \in Procs : Holding(q)' => Holding(q) /\ loc'[q].token = loc[q].token
    PROVE  OnePlace' /\ UsedOnce'
BY DEF OnePlace, UsedOnce

LEMMA AskKeeps ==
    ASSUME Inv, NEW p \in Procs, NEW u \in Users, Signup(p, u) \/ Resend(p, u) \/ Forgot(p, u)
    PROVE  Inv'
<1> USE DEF Inv
<1>1. PICK step \in {"lookup", "store"}, data \in Local :
         Accept(p, step, data) /\ data.user = u
  <2> DEFINE ask(op) == [NoLocal EXCEPT !.op = op, !.user = u]
  <2>1. \A op \in Ops : ask(op) \in Local /\ ask(op).user = u
    BY DEF NoLocal, Local
  <2>2. "signup" \in Ops /\ "resend" \in Ops /\ "forgot" \in Ops
    BY DEF Ops
  <2>3. \/ Accept(p, "lookup", ask("signup")) \/ Accept(p, "lookup", ask("resend"))
        \/ Accept(p, "store", ask("forgot"))
    BY DEF Signup, Resend, Forgot
  <2> HIDE DEF ask
  <2> QED BY <2>1, <2>2, <2>3
<1>2. step \in Steps
  BY DEF Steps
<1>3. /\ pc' \in [Procs -> Steps] /\ loc' \in [Procs -> Local] /\ shared' \in BOOLEAN
      /\ pc'[p] = step /\ loc'[p] = data
      /\ \A q \in Procs \ {p} : pc'[q] = pc[q] /\ loc'[q] = loc[q]
  BY <1>1, <1>2, AcceptTypes
<1>4. TypeOK'
  BY <1>3 DEF TypeOK, Signup, Resend, Forgot, Redis, Mail, Links
<1>5. HasUser'
  BY <1>1, <1>3 DEF HasUser
<1>6. Live' = Live /\ made' = made /\ uses' = uses
  BY DEF Live, Signup, Resend, Forgot, Redis, Links
<1>7. \A q \in Procs : Holding(q)' => Holding(q) /\ loc'[q].token = loc[q].token
  BY <1>3 DEF Holding
<1> QED BY <1>4, <1>5, <1>6, <1>7, NothingGained

LEMMA LookupKeeps ==
    ASSUME Inv, NEW p \in Procs, Lookup(p)
    PROVE  Inv'
<1> USE DEF Inv
<1>1. loc[p].user \in Users
  BY DEF HasUser, Lookup
<1>2. index[loc[p].user].token \in Tokens \cup {None}
  BY <1>1 DEF TypeOK, Index, NoIndex
<1>3. /\ pc' = [pc EXCEPT ![p] = IF index[loc[p].user].token = None
                                 THEN "store" ELSE "revoke"]
      /\ loc' = [loc EXCEPT ![p] = [loc[p] EXCEPT !.old = index[loc[p].user].token]]
  BY DEF Lookup
<1>4. [loc[p] EXCEPT !.old = index[loc[p].user].token] \in Local
  BY <1>2 DEF TypeOK, Local
<1>5. TypeOK'
  BY <1>3, <1>4 DEF TypeOK, Lookup, Redis, Mail, Links, Steps
<1>6. /\ pc'[p] \in {"store", "revoke"} /\ loc'[p].user = loc[p].user
      /\ pc'[p] = "revoke" => loc'[p].old \in Tokens
      /\ \A q \in Procs \ {p} : pc'[q] = pc[q] /\ loc'[q] = loc[q]
  BY <1>2, <1>3 DEF TypeOK, Local
<1>7. HasUser'
  BY <1>1, <1>6 DEF HasUser
<1>8. Live' = Live /\ made' = made /\ uses' = uses
  BY DEF Live, Lookup, Redis, Links
<1>9. \A q \in Procs : Holding(q)' => Holding(q) /\ loc'[q].token = loc[q].token
  BY <1>6 DEF Holding
<1> QED BY <1>5, <1>7, <1>8, <1>9, NothingGained

LEMMA RedisKeeps ==
    ASSUME Inv, NEW p \in Procs, Revoke(p) \/ Unindex(p) \/ SetIndex(p)
    PROVE  Inv'
<1> USE DEF Inv
<1>1. PICK step \in {"unindex", "store", "commit", "mail"} :
         Goto(p, step) /\ (step \in {"commit", "mail"} => pc[p] = "index")
  BY DEF Revoke, Unindex, SetIndex
<1>2. pc[p] \in {"revoke", "unindex", "index"}
  BY DEF Revoke, Unindex, SetIndex
<1>3. step \in Steps
  BY DEF Steps
<1>4. /\ pc' \in [Procs -> Steps] /\ loc' \in [Procs -> Local] /\ shared' \in BOOLEAN
      /\ pc'[p] = step /\ loc' = loc
      /\ \A q \in Procs \ {p} : pc'[q] = pc[q]
  BY <1>1, <1>3, GotoTypes
<1>5. key' \in [Tokens -> Key \cup {NoKey}] /\ Live' \subseteq Live
  BY DEF TypeOK, Live, Revoke, Unindex, SetIndex
<1>6. index' \in [Users -> Index \cup {NoIndex}]
  <2>1. CASE SetIndex(p)
    <3>1. [token |-> loc[p].token, ttl |-> Life] \in Index
      BY <2>1, EmailTokensAssumption DEF SetIndex, HasUser, Index
    <3> QED BY <2>1, <3>1 DEF SetIndex, TypeOK
  <2>2. CASE Revoke(p) \/ Unindex(p)
    BY <2>2 DEF Revoke, Unindex, TypeOK
  <2> QED BY <2>1, <2>2
<1>7. TypeOK'
  BY <1>4, <1>5, <1>6 DEF TypeOK, Revoke, Unindex, SetIndex, Mail, Links
<1>8. HasUser'
  BY <1>1, <1>2, <1>4 DEF HasUser
<1>9. made' = made /\ uses' = uses
  BY DEF Revoke, Unindex, SetIndex, Links
<1>10. \A q \in Procs : Holding(q)' => Holding(q) /\ loc'[q].token = loc[q].token
  BY <1>4 DEF Holding
<1> QED BY <1>5, <1>7, <1>8, <1>9, <1>10, NothingGained

(* The token that is stored is new: it is nowhere, and unused.              *)
LEMMA StoreKeeps ==
    ASSUME Inv, NEW p \in Procs, Store(p), KeyLife \in 1..Life
    PROVE  Inv'
<1> USE DEF Inv
<1> DEFINE kind == IF loc[p].op = "forgot" THEN "reset" ELSE "verify"
<1>1. PICK t \in Tokens :
        /\ pc[p] = "store" /\ t \notin made /\ made' = made \cup {t}
        /\ key' = [key EXCEPT ![t] = [user |-> loc[p].user, kind |-> kind, ttl |-> KeyLife]]
        /\ left' = [left EXCEPT ![t] = Life]
        /\ pc' = [pc EXCEPT ![p] = IF kind = "reset" THEN "mail" ELSE "index"]
        /\ loc' = [loc EXCEPT ![p] = [loc[p] EXCEPT !.token = t]]
        /\ UNCHANGED <<account, index, mailed, newest, asked, Links, shared>>
  BY DEF Store
<1>2. loc[p].user \in Users /\ [loc[p] EXCEPT !.token = t] \in Local
  BY <1>1 DEF HasUser, TypeOK, Local
<1>3. [user |-> loc[p].user, kind |-> kind, ttl |-> KeyLife] \in Key
  BY <1>2 DEF Key
<1>4. TypeOK'
  <2>1. left' \in [Tokens -> 0..Life]
    BY <1>1, EmailTokensAssumption DEF TypeOK
  <2>2. key' \in [Tokens -> Key \cup {NoKey}] /\ loc' \in [Procs -> Local]
    BY <1>1, <1>2, <1>3 DEF TypeOK
  <2> QED BY <1>1, <2>1, <2>2 DEF TypeOK, Steps, Links
<1>5. /\ pc'[p] \in {"mail", "index"} /\ loc'[p].user = loc[p].user /\ loc'[p].token = t
      /\ \A q \in Procs \ {p} : pc'[q] = pc[q] /\ loc'[q] = loc[q]
  BY <1>1 DEF TypeOK, Local
<1>6. HasUser'
  BY <1>2, <1>5 DEF HasUser
<1>7. Live' \subseteq Live \cup {t} /\ uses' = uses
  BY <1>1 DEF Live, TypeOK, Links
<1>8. \A q \in Procs : Holding(q)' => Holding(q) /\ loc'[q].token = loc[q].token
  BY <1>5 DEF Holding
<1>9. OnePlace' /\ UsedOnce'
  BY <1>1, <1>7, <1>8 DEF OnePlace, UsedOnce
<1> QED BY <1>4, <1>6, <1>9

LEMMA MailKeeps ==
    ASSUME Inv, NEW p \in Procs, SignupCommit(p) \/ SendMail(p)
    PROVE  Inv'
<1> USE DEF Inv
<1>1. /\ pc' \in [Procs -> Steps] /\ loc' \in [Procs -> Local] /\ shared' \in BOOLEAN
      /\ \A q \in Procs \ {p} : pc'[q] = pc[q] /\ loc'[q] = loc[q]
      /\ pc'[p] = "idle" \/ (pc'[p] = "mail" /\ pc[p] = "commit" /\ loc'[p] = loc[p])
  <2>1. "mail" \in Steps
    BY DEF Steps
  <2> QED BY <2>1, GotoTypes, FinishTypes DEF SignupCommit, SendMail
<1>2. TypeOK'
  BY <1>1 DEF TypeOK, HasUser, SignupCommit, SendMail, Redis, Mail, Links
<1>3. HasUser'
  BY <1>1 DEF HasUser
<1>4. Live' = Live /\ made' = made /\ uses' = uses
  BY DEF Live, SignupCommit, SendMail, Redis, Links
<1>5. \A q \in Procs : Holding(q)' => Holding(q) /\ loc'[q].token = loc[q].token
  BY <1>1 DEF Holding
<1> QED BY <1>2, <1>3, <1>4, <1>5, NothingGained

(* GETDEL takes the token out of Redis: only this request holds it.         *)
LEMMA ClickKeeps ==
    ASSUME Inv, NEW p \in Procs, NEW t \in Tokens, Click(p, t)
    PROVE  Inv'
<1> USE DEF Inv
<1> DEFINE data == [NoLocal EXCEPT !.op = key[t].kind, !.user = key[t].user, !.token = t]
<1>1. t \in Live /\ key[t] \in Key
  BY DEF Click, Live, TypeOK
<1>2. data \in Local /\ data.user \in Users /\ data.token = t
  BY <1>1 DEF NoLocal, Local, Ops, Key
<1>3. Accept(p, "load", data) /\ "load" \in Steps
  BY DEF Click, Steps
<1> HIDE DEF data
<1>4. /\ pc' \in [Procs -> Steps] /\ loc' \in [Procs -> Local] /\ shared' \in BOOLEAN
      /\ pc'[p] = "load" /\ loc'[p] = data
      /\ \A q \in Procs \ {p} : pc'[q] = pc[q] /\ loc'[q] = loc[q]
  BY <1>2, <1>3, AcceptTypes
<1>5. key' = [key EXCEPT ![t] = NoKey] /\ clicked' = clicked \cup {t} /\ made' = made
      /\ uses' = uses
  BY DEF Click, Consumed
<1>6. TypeOK'
  BY <1>4, <1>5 DEF TypeOK, Click, Mail
<1>7. HasUser'
  BY <1>2, <1>4 DEF HasUser
<1>8. Live' = Live \ {t}
  BY <1>5 DEF Live, TypeOK
<1>9. OnePlace' /\ UsedOnce'
  BY <1>1, <1>2, <1>4, <1>5, <1>8 DEF OnePlace, UsedOnce, Holding
<1> QED BY <1>6, <1>7, <1>9

LEMMA LoadKeeps ==
    ASSUME Inv, NEW p \in Procs, Load(p)
    PROVE  Inv'
<1> USE DEF Inv
<1>1. "use" \in Steps
  BY DEF Steps
<1>2. /\ pc' \in [Procs -> Steps] /\ loc' \in [Procs -> Local] /\ shared' \in BOOLEAN
      /\ pc'[p] = "use" /\ loc' = loc
      /\ \A q \in Procs \ {p} : pc'[q] = pc[q]
  BY <1>1, GotoTypes DEF Load
<1>3. TypeOK'
  BY <1>2 DEF TypeOK, Load, Redis, Mail, Links
<1>4. HasUser' /\ pc[p] = "load"
  BY <1>2 DEF HasUser, Load
<1>5. Live' = Live /\ made' = made /\ uses' = uses
  BY DEF Live, Load, Redis, Links
<1>6. \A q \in Procs : Holding(q)' => Holding(q) /\ loc'[q].token = loc[q].token
  BY <1>2, <1>4 DEF Holding
<1> QED BY <1>3, <1>4, <1>5, <1>6, NothingGained

(* The request that holds a token uses it, and lets go of it.               *)
LEMMA UseKeeps ==
    ASSUME Inv, NEW p \in Procs, Use(p)
    PROVE  Inv'
<1> USE DEF Inv
<1>1. /\ pc' \in [Procs -> Steps] /\ loc' \in [Procs -> Local] /\ shared' \in BOOLEAN
      /\ pc'[p] = "idle"
      /\ \A q \in Procs \ {p} : pc'[q] = pc[q] /\ loc'[q] = loc[q]
  BY FinishTypes DEF Use
<1>2. /\ Holding(p) /\ loc[p].token \in Tokens
      /\ uses' = [uses EXCEPT ![loc[p].token] = uses[loc[p].token] + 1]
  BY DEF Use, Holding, HasUser
<1>3. TypeOK'
  <2>1. account' \in [Users -> {"unused", "pending", "unverified", "verified", "gone"}]
    BY DEF TypeOK, Use
  <2>2. uses' \in [Tokens -> Nat]
    BY <1>2 DEF TypeOK
  <2> QED BY <1>1, <2>1, <2>2 DEF TypeOK, Use, Redis, Mail
<1>4. HasUser'
  BY <1>1 DEF HasUser
<1>5. Live' = Live /\ made' = made
  BY DEF Live, Use, Redis
<1>6. \A q \in Procs : Holding(q)' => q # p /\ Holding(q) /\ loc'[q] = loc[q]
  BY <1>1 DEF Holding
<1>7. uses[loc[p].token] = 0 /\ loc[p].token \in made \ Live
  BY <1>2 DEF OnePlace
<1>8. \A t \in Tokens : uses'[t] = IF t = loc[p].token THEN 1 ELSE uses[t]
  BY <1>2, <1>7 DEF TypeOK
<1>9. Live \subseteq Tokens
  BY DEF Live
<1>10. OnePlace' /\ UsedOnce'
  BY <1>2, <1>5, <1>6, <1>7, <1>8, <1>9 DEF OnePlace, UsedOnce, TypeOK
<1> QED BY <1>3, <1>4, <1>10

LEMMA AbortKeeps ==
    ASSUME Inv, NEW p \in Procs, Abort(p)
    PROVE  Inv'
<1> USE DEF Inv
<1>1. /\ pc' \in [Procs -> Steps] /\ loc' \in [Procs -> Local] /\ shared' \in BOOLEAN
      /\ pc'[p] = "idle"
      /\ \A q \in Procs \ {p} : pc'[q] = pc[q] /\ loc'[q] = loc[q]
  BY FinishTypes DEF Abort
<1>2. TypeOK'
  BY <1>1 DEF TypeOK, Abort, Redis, Mail, Links
<1>3. HasUser'
  BY <1>1 DEF HasUser
<1>4. Live' = Live /\ made' = made /\ uses' = uses
  BY DEF Live, Abort, Redis, Links
<1>5. \A q \in Procs : Holding(q)' => Holding(q) /\ loc'[q].token = loc[q].token
  BY <1>1 DEF Holding
<1> QED BY <1>2, <1>3, <1>4, <1>5, NothingGained

LEMMA TickKeeps ==
    ASSUME Inv, Tick
    PROVE  Inv'
<1> USE DEF Inv
<1>a. \A n \in 1..Life : n # 1 => n - 1 \in 1..Life
  BY EmailTokensAssumption
<1>1. key' \in [Tokens -> Key \cup {NoKey}] /\ Live' \subseteq Live
  <2>1. \A t \in Tokens :
           \/ key'[t] = NoKey
           \/ key[t] # NoKey /\ key[t].ttl # 1 /\ key'[t] = [key[t] EXCEPT !.ttl = @ - 1]
    BY DEF Tick
  <2>2. \A t \in Tokens : key'[t] \in Key \cup {NoKey}
    <3> TAKE t \in Tokens
    <3>1. CASE key'[t] = NoKey
      BY <3>1
    <3>2. CASE key[t] # NoKey /\ key[t].ttl # 1 /\ key'[t] = [key[t] EXCEPT !.ttl = @ - 1]
      <4>1. key[t] \in Key
        BY <3>2 DEF TypeOK
      <4>2. [key[t] EXCEPT !.ttl = @ - 1] \in Key
        BY <1>a, <3>2, <4>1 DEF Key
      <4> QED BY <3>2, <4>2
    <3> QED BY <2>1, <3>1, <3>2
  <2>3. Live' \subseteq Live
    BY <2>1 DEF Live
  <2> QED BY <2>2, <2>3 DEF Tick
<1>2. index' \in [Users -> Index \cup {NoIndex}]
  <2>1. \A u \in Users :
           \/ index'[u] = NoIndex
           \/ index[u] # NoIndex /\ index[u].ttl # 1
              /\ index'[u] = [index[u] EXCEPT !.ttl = @ - 1]
    BY DEF Tick
  <2>2. \A u \in Users : index'[u] \in Index \cup {NoIndex}
    <3> TAKE u \in Users
    <3>1. CASE index'[u] = NoIndex
      BY <3>1
    <3>2. CASE index[u] # NoIndex /\ index[u].ttl # 1 /\ index'[u] = [index[u] EXCEPT !.ttl = @ - 1]
      <4>1. index[u] \in Index
        BY <3>2 DEF TypeOK
      <4>2. [index[u] EXCEPT !.ttl = @ - 1] \in Index
        BY <1>a, <3>2, <4>1 DEF Index
      <4> QED BY <3>2, <4>2
    <3> QED BY <2>1, <3>1, <3>2
  <2> QED BY <2>2 DEF Tick
<1>3. left' \in [Tokens -> 0..Life]
  <2>1. \A n \in 0..Life : n # 0 => n - 1 \in 0..Life
    BY EmailTokensAssumption
  <2>2. \A t \in Tokens : (IF left[t] = 0 THEN 0 ELSE left[t] - 1) \in 0..Life
    BY <2>1, EmailTokensAssumption DEF TypeOK
  <2> QED BY <2>2 DEF Tick
<1>4. TypeOK'
  BY <1>1, <1>2, <1>3 DEF TypeOK, Tick, Links
<1>5. HasUser'
  BY DEF HasUser, Tick
<1>6. made' = made /\ uses' = uses
  BY DEF Tick, Links
<1>7. \A q \in Procs : Holding(q)' => Holding(q) /\ loc'[q].token = loc[q].token
  BY DEF Holding, Tick
<1> QED BY <1>1, <1>4, <1>5, <1>6, <1>7, NothingGained

LEMMA QuietKeeps ==
    ASSUME Inv, (\E u \in Users : DeleteAccount(u)) \/ UNCHANGED vars
    PROVE  Inv'
<1> USE DEF Inv
<1>1. UNCHANGED <<key, index, pc, loc, made, left, mailed, clicked, uses, newest, asked, shared>>
  BY DEF DeleteAccount, vars, Redis, Mail, Links
<1>2. account' \in [Users -> {"unused", "pending", "unverified", "verified", "gone"}]
  BY DEF DeleteAccount, vars, TypeOK
<1>3. TypeOK' /\ HasUser'
  BY <1>1, <1>2 DEF TypeOK, HasUser
<1>4. Live' = Live /\ \A q \in Procs : Holding(q)' => Holding(q) /\ loc'[q].token = loc[q].token
  BY <1>1 DEF Live, Holding
<1> QED BY <1>1, <1>3, <1>4, NothingGained

LEMMA NextInv == Inv /\ [Next]_vars => Inv'
<1>1. KeyLife \in 1..Life
  BY EmailTokensAssumption DEF KeyLife
<1> QED BY <1>1, AskKeeps, LookupKeeps, RedisKeeps, StoreKeeps, MailKeeps, ClickKeeps, LoadKeeps,
           UseKeeps, AbortKeeps, TickKeeps, QuietKeeps DEF Next

LEMMA Invariant == Spec => []Inv
BY InitInv, NextInv, PTL DEF Spec

THEOREM TypeCorrect == Spec => []TypeOK
<1>1. Inv => TypeOK
  BY DEF Inv
<1> QED BY <1>1, Invariant, PTL

(* However many requests present a link at the same time, one of them at   *)
(* most verifies the address or resets the password with it.               *)
THEOREM LinksWorkOnce == Spec => []UsedOnce
<1>1. Inv => UsedOnce
  BY DEF Inv
<1> QED BY <1>1, Invariant, PTL
----------------------------------------------------------------------------
(***************************************************************************)
(* Requests that do not overlap.  Every token that was mailed and works is *)
(* the one its user's index leads to, for at least as long, so that the    *)
(* next request finds and revokes it; the request under way keeps the      *)
(* token that it made to itself until the mail.                            *)
(***************************************************************************)
Busy(p) == pc[p] # "idle"
OneAtATime == \A p, q \in Procs : Busy(p) /\ Busy(q) => p = q

(* What is known has been made; what is stored lives as long as promised.  *)
Known ==
    /\ mailed \subseteq made /\ clicked \subseteq mailed
    /\ \A u \in Users : index[u].token \in made \cup {None} /\ newest[u] \in mailed \cup {None}
    /\ \A t \in Live : key[t].ttl = left[t]
    /\ \A u \in Users : account[u] = "unused" => newest[u] = None

(* The links that u could verify the address with.                         *)
Verifying(u) == {t \in Live \cap mailed : key[t].user = u /\ key[t].kind = "verify"}

Covers(u, t) == index[u].token = t /\ key[t].ttl <= index[u].ttl

Indexed == \A u \in Users : \A t \in Verifying(u) : Covers(u, t)
IndexOwn == \A u \in Users : index[u].token \in Live => key[index[u].token].user = u

NewestLive ==
    \A u \in Users :
       newest[u] # None /\ u \notin asked /\ newest[u] \notin clicked /\ left[newest[u]] > 0
          => newest[u] \in Live /\ key[newest[u]].user = u

Steady(p) == pc[p] \in {"lookup", "revoke", "unindex", "index", "commit"} => loc[p].op # "forgot"

(* The newest mail of whoever asks does not count.                         *)
Asking(p) ==
    pc[p] \in {"lookup", "revoke", "unindex", "store", "index", "commit", "mail"}
       /\ loc[p].op # "forgot"
    => /\ account[loc[p].user] # "unused"
       /\ loc[p].user \in asked \/ newest[loc[p].user] = None

(* The earlier link is the one in hand, and from then on there is none.    *)
Revoking(p) ==
    /\ pc[p] = "revoke" =>
          /\ \A t \in Verifying(loc[p].user) : t = loc[p].old
          /\ loc[p].old \in Live => key[loc[p].old].user = loc[p].user
    /\ pc[p] \in {"unindex", "store", "index", "commit", "mail"} /\ loc[p].op # "forgot"
          => Verifying(loc[p].user) = {}

(* The new token.                                                          *)
Sending(p) ==
    LET t == loc[p].token IN
    pc[p] \in {"index", "commit", "mail"} =>
       /\ t \in made \ (mailed \cup clicked)
       /\ left[t] > 0 => t \in Live
       /\ t \in Live => /\ key[t].user = loc[p].user
                        /\ key[t].kind = "verify" <=> loc[p].op # "forgot"
                        /\ pc[p] # "index" /\ loc[p].op # "forgot" => Covers(loc[p].user, t)

Sound(p) == Steady(p) /\ Asking(p) /\ Revoking(p) /\ Sending(p)

Calm ==
    /\ OneAtATime /\ Known /\ Indexed /\ IndexOwn /\ NewestLive
    /\ \A p \in Procs : Sound(p)

CalmInv == ~shared => Calm

(* While requests do not overlap, a step of p finds the others idle.       *)
LEMMA OthersIdle ==
    ASSUME TypeOK, OneAtATime, ~shared', NEW p \in Procs,
           \/ Busy(p) /\ \A q \in Procs \ {p} : pc'[q] = pc[q]
           \/ \E step \in Steps, data \in Local : Accept(p, step, data)
    PROVE  \A q \in Procs \ {p} : pc'[q] = "idle"
BY DEF TypeOK, OneAtATime, Busy, Accept

LEMMA CalmStep ==
    ASSUME NEW p \in Procs, \A q \in Procs \ {p} : pc'[q] = "idle",
           Known', Indexed', IndexOwn', NewestLive', Sound(p)'
    PROVE  Calm'
<1>1. OneAtATime'
  BY DEF OneAtATime, Busy
<1>2. \A q \in Procs \ {p} : Sound(q)'
  BY DEF Sound, Steady, Asking, Revoking, Sending
<1> QED BY <1>1, <1>2 DEF Calm

(* Nothing that is said of the tables is disturbed by a step that only     *)
(* moves a request.                                                        *)
LEMMA TablesKept ==
    ASSUME Calm, UNCHANGED <<key, index, made, left, mailed, clicked, newest>>,
           asked \subseteq asked',
           \A u \in Users : account'[u] = "unused" => account[u] = "unused"
    PROVE  /\ Known' /\ Indexed' /\ IndexOwn' /\ NewestLive'
           /\ Live' = Live /\ \A u : Verifying(u)' = Verifying(u)
           /\ \A u, t : Covers(u, t)' <=> Covers(u, t)
<1>1. Live' = Live
  BY DEF Live
<1>2. \A u : Verifying(u)' = Verifying(u)
  BY <1>1 DEF Verifying
<1>3. \A u, t : Covers(u, t)' <=> Covers(u, t)
  BY DEF Covers
<1>4. Known'
  BY <1>1 DEF Calm, Known
<1>5. Indexed' /\ IndexOwn'
  BY <1>1, <1>2, <1>3 DEF Calm, Indexed, IndexOwn
<1>6. NewestLive'
  BY <1>1 DEF Calm, NewestLive
<1> QED BY <1>1, <1>2, <1>3, <1>4, <1>5, <1>6

LEMMA AskCalm ==
    ASSUME Inv, Calm, ~shared', NEW p \in Procs, NEW u \in Users,
           Signup(p, u) \/ Resend(p, u) \/ Forgot(p, u)
    PROVE  Calm'
<1> DEFINE ask(op) == [NoLocal EXCEPT !.op = op, !.user = u]
<1>1. \A op \in Ops : ask(op) \in Local /\ ask(op).user = u /\ ask(op).op = op
  BY DEF NoLocal, Local
<1>2. /\ "signup" \in Ops /\ "resend" \in Ops /\ "forgot" \in Ops
      /\ "lookup" \in Steps /\ "store" \in Steps
  BY DEF Ops, Steps
<1>3. PICK step \in Steps, op \in Ops :
        /\ Accept(p, step, ask(op))
        /\ \/ Signup(p, u) /\ op = "signup" /\ step = "lookup"
           \/ Resend(p, u) /\ op = "resend" /\ step = "lookup"
           \/ Forgot(p, u) /\ op = "forgot" /\ step = "store"
  BY <1>2 DEF Signup, Resend, Forgot
<1> HIDE DEF ask
<1>4. pc'[p] = step /\ loc'[p].user = u /\ loc'[p].op = op
  BY <1>1, <1>3, AcceptTypes DEF Inv
<1>5. \A q \in Procs \ {p} : pc'[q] = "idle"
  BY <1>1, <1>3, OthersIdle DEF Inv, Calm
<1>6. /\ UNCHANGED <<key, index, made, left, mailed, clicked, newest>> /\ asked \subseteq asked'
      /\ \A v \in Users : account'[v] = "unused" => account[v] = "unused"
  BY DEF Signup, Resend, Forgot, Redis, Mail, Links, Inv, TypeOK
<1>7. Known' /\ Indexed' /\ IndexOwn' /\ NewestLive'
  BY <1>6, TablesKept
<1>8. Asking(p)'
  <2>1. CASE Signup(p, u)
    BY <1>3, <1>4, <2>1 DEF Asking, Signup, Mail, Inv, TypeOK, Calm, Known
  <2>2. CASE Resend(p, u)
    BY <1>3, <1>4, <2>2 DEF Asking, Resend
  <2>3. CASE op = "forgot"
    BY <1>4, <2>3 DEF Asking
  <2> QED BY <1>3, <2>1, <2>2, <2>3
<1>9. Steady(p)' /\ Revoking(p)' /\ Sending(p)'
  BY <1>3, <1>4 DEF Steady, Revoking, Sending
<1> QED BY <1>5, <1>7, <1>8, <1>9, CalmStep DEF Sound

LEMMA LookupCalm ==
    ASSUME Inv, Calm, ~shared', NEW p \in Procs, Lookup(p)
    PROVE  Calm'
<1> DEFINE u == loc[p].user
           old == index[u].token
<1>1. /\ pc' = [pc EXCEPT ![p] = IF old = None THEN "store" ELSE "revoke"]
      /\ loc' = [loc EXCEPT ![p] = [loc[p] EXCEPT !.old = old]]
      /\ pc[p] = "lookup" /\ u \in Users
  BY DEF Lookup, Inv, HasUser
<1>2. /\ pc'[p] = IF old = None THEN "store" ELSE "revoke"
      /\ loc'[p].user = u /\ loc'[p].op = loc[p].op /\ loc'[p].old = old
  BY <1>1 DEF Inv, TypeOK, Local
<1>3. \A q \in Procs \ {p} : pc'[q] = "idle"
  <2>1. Busy(p) /\ \A q \in Procs \ {p} : pc'[q] = pc[q]
    BY <1>1 DEF Busy, Inv, TypeOK
  <2> QED BY <2>1, OthersIdle DEF Inv, Calm
<1>4. UNCHANGED <<account, key, index, made, left, mailed, clicked, newest, asked>>
  BY DEF Lookup, Redis, Mail, Links
<1>5. /\ Known' /\ Indexed' /\ IndexOwn' /\ NewestLive' /\ Live' = Live
      /\ \A v : Verifying(v)' = Verifying(v)
  BY <1>4, TablesKept
<1>6. Steady(p)' /\ Asking(p)' /\ loc[p].op # "forgot"
  BY <1>1, <1>2, <1>4 DEF Calm, Sound, Steady, Asking
<1>7. \A t \in Verifying(u) : t = old /\ t \in Tokens
  BY <1>1 DEF Calm, Indexed, Covers, Verifying, Live
<1>8. old = None => Verifying(u) = {}
  BY <1>7, EmailTokensAssumption
<1>9. Revoking(p)'
  <2>1. pc'[p] = "revoke" => /\ \A t \in Verifying(u) : t = old
                             /\ old \in Live => key[old].user = u
    BY <1>1, <1>7 DEF Calm, IndexOwn
  <2> QED BY <1>2, <1>4, <1>5, <1>8, <2>1 DEF Revoking
<1>10. Sending(p)'
  BY <1>2 DEF Sending
<1> QED BY <1>3, <1>5, <1>6, <1>9, <1>10, CalmStep DEF Sound

(* Only the link of the user who asks is revoked, who waits for another.   *)
LEMMA RevokeCalm ==
    ASSUME Inv, Calm, ~shared', NEW p \in Procs, Revoke(p)
    PROVE  Calm'
<1> DEFINE u == loc[p].user
           old == loc[p].old
<1>1. pc[p] = "revoke" /\ u \in Users /\ old \in Tokens /\ key' = [key EXCEPT ![old] = NoKey]
  BY DEF Revoke, Inv, HasUser
<1>2. /\ pc'[p] = "unindex" /\ loc' = loc
      /\ \A q \in Procs \ {p} : pc'[q] = pc[q]
  BY GotoTypes DEF Revoke, Steps, Inv
<1>3. \A q \in Procs \ {p} : pc'[q] = "idle"
  BY <1>1, <1>2, OthersIdle DEF Inv, Calm, Busy
<1>4. UNCHANGED <<account, index, made, left, mailed, clicked, newest, asked>>
  BY DEF Revoke, Mail, Links
<1>5. Live' = Live \ {old} /\ \A t \in Live' : key'[t] = key[t]
  BY <1>1 DEF Live, Inv, TypeOK
<1>6. \A v : Verifying(v)' = Verifying(v) \ {old}
  BY <1>4, <1>5 DEF Verifying
<1>7. Known'
  BY <1>4, <1>5 DEF Calm, Known
<1>8. Indexed' /\ IndexOwn'
  <2>1. \A v \in Users : \A t \in Verifying(v)' : t \in Verifying(v) /\ key'[t] = key[t]
    BY <1>5, <1>6 DEF Verifying
  <2> QED BY <1>4, <1>5, <2>1 DEF Calm, Indexed, IndexOwn, Covers
<1>9. loc[p].op # "forgot" /\ (u \in asked \/ newest[u] = None)
  BY <1>1 DEF Calm, Sound, Steady, Asking
<1>10. NewestLive'
  <2>1. ASSUME NEW v \in Users, newest[v] # None, v \notin asked, newest[v] \notin clicked,
               left[newest[v]] > 0
        PROVE  newest[v] \in Live' /\ key'[newest[v]].user = v
    <3>1. newest[v] \in Live /\ key[newest[v]].user = v
      BY <2>1 DEF Calm, NewestLive
    <3>2. newest[v] # old
      <4>1. old \in Live => key[old].user = u
        BY <1>1 DEF Calm, Sound, Revoking
      <4> QED BY <1>9, <2>1, <3>1, <4>1
    <3> QED BY <1>5, <3>1, <3>2
  <2> QED BY <1>4, <2>1 DEF NewestLive
<1>11. Steady(p)' /\ Asking(p)' /\ Sending(p)'
  BY <1>1, <1>2, <1>4, <1>9 DEF Calm, Sound, Steady, Asking, Sending
<1>12. Revoking(p)'
  <2>1. \A t \in Verifying(u) : t = old
    BY <1>1 DEF Calm, Sound, Revoking
  <2>2. Verifying(u)' = {}
    BY <1>2, <1>6, <2>1
  <2> QED BY <1>2, <2>2 DEF Revoking
<1> QED BY <1>3, <1>7, <1>8, <1>10, <1>11, <1>12, CalmStep DEF Sound

LEMMA UnindexCalm ==
    ASSUME Inv, Calm, ~shared', NEW p \in Procs, Unindex(p)
    PROVE  Calm'
<1> DEFINE u == loc[p].user
<1>1. pc[p] = "unindex" /\ u \in Users /\ index' = [index EXCEPT ![u] = NoIndex]
  BY DEF Unindex, Inv, HasUser
<1>2. /\ pc'[p] = "store" /\ loc' = loc
      /\ \A q \in Procs \ {p} : pc'[q] = pc[q]
  BY GotoTypes DEF Unindex, Steps, Inv
<1>3. \A q \in Procs \ {p} : pc'[q] = "idle"
  BY <1>1, <1>2, OthersIdle DEF Inv, Calm, Busy
<1>4. UNCHANGED <<account, key, made, left, mailed, clicked, newest, asked>>
  BY DEF Unindex, Mail, Links
<1>5. Live' = Live /\ \A v : Verifying(v)' = Verifying(v)
  BY <1>4 DEF Live, Verifying
<1>6. \A v \in Users : index'[v] = IF v = u THEN NoIndex ELSE index[v]
  BY <1>1 DEF Inv, TypeOK
<1>7. loc[p].op # "forgot" /\ Verifying(u) = {}
  BY <1>1 DEF Calm, Sound, Steady, Revoking
<1>8. NoIndex.token = None /\ None \notin Live
  BY EmailTokensAssumption DEF NoIndex, Live
<1>9. Known'
  BY <1>4, <1>5, <1>6, <1>8 DEF Calm, Known
<1>10. Indexed' /\ IndexOwn'
  BY <1>4, <1>5, <1>6, <1>7, <1>8 DEF Calm, Indexed, IndexOwn, Covers
<1>11. NewestLive'
  BY <1>4, <1>5 DEF Calm, NewestLive
<1>12. Sound(p)'
  BY <1>1, <1>2, <1>4, <1>5, <1>7 DEF Calm, Sound, Steady, Asking, Revoking, Sending
<1> QED BY <1>3, <1>9, <1>10, <1>11, <1>12, CalmStep

(* The new token is in no mail and no index yet.                           *)
LEMMA StoreCalm ==
    ASSUME Inv, Calm, ~shared', NEW p \in Procs, Store(p)
    PROVE  Calm'
<1> DEFINE u == loc[p].user
           kind == IF loc[p].op = "forgot" THEN "reset" ELSE "verify"
           new == [user |-> u, kind |-> kind, ttl |-> KeyLife]
<1>1. PICK t \in Tokens :
        /\ pc[p] = "store" /\ t \notin made /\ made' = made \cup {t}
        /\ key' = [key EXCEPT ![t] = new]
        /\ left' = [left EXCEPT ![t] = Life]
        /\ pc' = [pc EXCEPT ![p] = IF kind = "reset" THEN "mail" ELSE "index"]
        /\ loc' = [loc EXCEPT ![p] = [loc[p] EXCEPT !.token = t]]
        /\ UNCHANGED <<account, index, mailed, newest, asked, clicked, uses, shared>>
  BY DEF Store, Links
<1>2. /\ pc'[p] = IF kind = "reset" THEN "mail" ELSE "index"
      /\ loc'[p].user = u /\ loc'[p].op = loc[p].op /\ loc'[p].token = t
      /\ \A q \in Procs \ {p} : pc'[q] = pc[q]
  BY <1>1 DEF Inv, TypeOK, Local
<1>3. \A q \in Procs \ {p} : pc'[q] = "idle"
  BY <1>1, <1>2, OthersIdle DEF Inv, Calm, Busy
<1>4. u \in Users /\ t \notin Live /\ t \notin mailed
  BY <1>1 DEF Inv, HasUser, OnePlace, Calm, Known
<1>5. /\ key'[t] = new /\ new # NoKey /\ left'[t] = Life
      /\ \A d \in Tokens \ {t} : key'[d] = key[d] /\ left'[d] = left[d]
  <2>1. new.user # NoKey.user
    BY <1>4, EmailTokensAssumption DEF NoKey
  <2> QED BY <1>1, <2>1 DEF Inv, TypeOK
<1>6. Live' = Live \cup {t} /\ new.user = u /\ new.kind = kind /\ new.ttl = KeyLife
  BY <1>5 DEF Live
<1> HIDE DEF new
<1>7. \A v : Verifying(v)' = Verifying(v)
  BY <1>1, <1>4, <1>5, <1>6 DEF Verifying, Live
<1>8. Known'
  <2>1. \A d \in Live' : key'[d].ttl = left'[d]
    BY <1>5, <1>6 DEF Calm, Known, Live, KeyLife
  <2> QED BY <1>1, <2>1 DEF Calm, Known
<1>9. \A v \in Users : index[v].token # t /\ newest[v] # t
  BY <1>1, <1>4, EmailTokensAssumption DEF Calm, Known
<1>10. Indexed' /\ IndexOwn'
  <2>1. \A v \in Users : \A d \in Verifying(v) : d \in Tokens \ {t}
    BY <1>4 DEF Verifying, Live
  <2>2. Live \subseteq Tokens \ {t}
    BY <1>4 DEF Live
  <2> QED BY <1>1, <1>5, <1>6, <1>7, <1>9, <2>1, <2>2 DEF Calm, Indexed, IndexOwn, Covers
<1>11. NewestLive'
  <2>1. \A v \in Users : newest[v] # None => newest[v] \in Tokens \ {t}
    BY <1>9 DEF Inv, TypeOK
  <2> QED BY <1>1, <1>5, <1>6, <2>1 DEF Calm, NewestLive
<1>12. Steady(p)' /\ Asking(p)' /\ Revoking(p)'
  BY <1>1, <1>2, <1>7 DEF Calm, Sound, Steady, Asking, Revoking
<1>13. Sending(p)'
  <2>1. t \notin clicked
    BY <1>1 DEF Calm, Known
  <2> QED BY <1>1, <1>2, <1>4, <1>5, <1>6, <2>1 DEF Sending
<1> QED BY <1>3, <1>8, <1>10, <1>11, <1>12, <1>13, CalmStep DEF Sound

LEMMA SetIndexCalm ==
    ASSUME Inv, Calm, ~shared', NEW p \in Procs, SetIndex(p)
    PROVE  Calm'
<1> DEFINE u == loc[p].user
           t == loc[p].token
<1>1. /\ pc[p] = "index" /\ u \in Users /\ t \in Tokens
      /\ index' = [index EXCEPT ![u] = [token |-> t, ttl |-> Life]]
  BY DEF SetIndex, Inv, HasUser
<1>2. /\ pc'[p] \in {"commit", "mail"} /\ loc' = loc
      /\ \A q \in Procs \ {p} : pc'[q] = pc[q]
  BY GotoTypes DEF SetIndex, Steps, Inv
<1>3. \A q \in Procs \ {p} : pc'[q] = "idle"
  BY <1>1, <1>2, OthersIdle DEF Inv, Calm, Busy
<1>4. UNCHANGED <<account, key, made, left, mailed, clicked, newest, asked>>
  BY DEF SetIndex, Mail, Links
<1>5. Live' = Live /\ \A v : Verifying(v)' = Verifying(v)
  BY <1>4 DEF Live, Verifying
<1>6. \A v \in Users : index'[v] = IF v = u THEN [token |-> t, ttl |-> Life] ELSE index[v]
  BY <1>1 DEF Inv, TypeOK
<1>7. loc[p].op # "forgot" /\ Verifying(u) = {} /\ t \in made /\ (t \in Live => key[t].user = u)
  BY <1>1 DEF Calm, Sound, Steady, Revoking, Sending
<1>8. t \in Live => key[t].ttl <= Life
  BY EmailTokensAssumption DEF Inv, TypeOK, Live, Key
<1>9. Known'
  BY <1>4, <1>5, <1>6, <1>7 DEF Calm, Known
<1>10. Indexed' /\ IndexOwn'
  BY <1>4, <1>5, <1>6, <1>7 DEF Calm, Indexed, IndexOwn, Covers
<1>11. NewestLive'
  BY <1>4, <1>5 DEF Calm, NewestLive
<1>12. Steady(p)' /\ Asking(p)' /\ Revoking(p)'
  BY <1>1, <1>2, <1>4, <1>5, <1>7 DEF Calm, Sound, Steady, Asking, Revoking
<1>13. Sending(p)'
  <2>1. t \in Live => Covers(u, t)'
    BY <1>1, <1>2, <1>4, <1>6, <1>8 DEF Covers
  <2> QED BY <1>1, <1>2, <1>4, <1>5, <2>1 DEF Calm, Sound, Sending
<1> QED BY <1>3, <1>9, <1>10, <1>11, <1>12, <1>13, CalmStep DEF Sound

LEMMA CommitCalm ==
    ASSUME Inv, Calm, ~shared', NEW p \in Procs, SignupCommit(p)
    PROVE  Calm'
<1>1. /\ pc[p] = "commit" /\ loc[p].user \in Users
      /\ account' = [account EXCEPT ![loc[p].user] = "unverified"]
  BY DEF SignupCommit, Inv, HasUser
<1>2. /\ pc'[p] = "mail" /\ loc' = loc
      /\ \A q \in Procs \ {p} : pc'[q] = pc[q]
  BY GotoTypes DEF SignupCommit, Steps, Inv
<1>3. \A q \in Procs \ {p} : pc'[q] = "idle"
  BY <1>1, <1>2, OthersIdle DEF Inv, Calm, Busy
<1>4. UNCHANGED <<key, index, made, left, mailed, clicked, newest, asked>>
  BY DEF SignupCommit, Redis, Mail, Links
<1>5. \A v \in Users : account'[v] = "unused" => account[v] = "unused"
  BY <1>1 DEF Inv, TypeOK
<1>6. /\ Known' /\ Indexed' /\ IndexOwn' /\ NewestLive' /\ Live' = Live
      /\ \A v : Verifying(v)' = Verifying(v)
      /\ \A v, t : Covers(v, t)' <=> Covers(v, t)
  BY <1>4, <1>5, TablesKept
<1>7. Steady(p)' /\ Asking(p)' /\ Revoking(p)'
  BY <1>1, <1>2, <1>4, <1>5, <1>6 DEF Calm, Sound, Steady, Asking, Revoking
<1>8. Sending(p)'
  BY <1>1, <1>2, <1>4, <1>6 DEF Calm, Sound, Sending
<1> QED BY <1>3, <1>6, <1>7, <1>8, CalmStep DEF Sound

(* The token that is mailed is the only one, and the index leads to it.    *)
LEMMA SendCalm ==
    ASSUME Inv, Calm, ~shared', NEW p \in Procs, SendMail(p)
    PROVE  Calm'
<1> DEFINE u == loc[p].user
           t == loc[p].token
<1>1. /\ pc[p] = "mail" /\ u \in Users /\ t \in Tokens /\ mailed' = mailed \cup {t}
      /\ newest' = IF loc[p].op = "forgot" THEN newest ELSE [newest EXCEPT ![u] = t]
      /\ asked' = IF loc[p].op = "forgot" THEN asked ELSE asked \ {u}
  BY DEF SendMail, Inv, HasUser
<1>2. pc'[p] = "idle" /\ \A q \in Procs \ {p} : pc'[q] = pc[q]
  BY FinishTypes DEF SendMail, Inv
<1>3. \A q \in Procs \ {p} : pc'[q] = "idle"
  BY <1>1, <1>2, OthersIdle DEF Inv, Calm, Busy
<1>4. UNCHANGED <<account, key, index, made, left, clicked>>
  BY DEF SendMail, Redis, Links
<1>5. Live' = Live
  BY <1>4 DEF Live
<1>6. /\ t \in made \ (mailed \cup clicked) /\ (left[t] > 0 => t \in Live)
      /\ t \in Live => /\ key[t].user = u
                       /\ key[t].kind = "verify" <=> loc[p].op # "forgot"
                       /\ loc[p].op # "forgot" => Covers(u, t)
  BY <1>1 DEF Calm, Sound, Sending
<1>7. loc[p].op # "forgot" => Verifying(u) = {} /\ account[u] # "unused"
  BY <1>1 DEF Calm, Sound, Revoking, Asking
<1>8. Known'
  <2>1. \A v \in Users : /\ newest'[v] \in mailed' \cup {None}
                         /\ account[v] = "unused" => newest'[v] = None
    BY <1>1, <1>7 DEF Calm, Known, Inv, TypeOK
  <2> QED BY <1>1, <1>4, <1>5, <1>6, <2>1 DEF Calm, Known
<1>9. Indexed' /\ IndexOwn'
  <2>1. ASSUME NEW v \in Users, NEW d \in Verifying(v)'
        PROVE  d \in Verifying(v) \/ (d = t /\ v = u /\ loc[p].op # "forgot" /\ t \in Live)
    BY <1>1, <1>4, <1>5, <1>6, <2>1 DEF Verifying
  <2> QED BY <1>4, <1>5, <1>6, <2>1 DEF Calm, Indexed, IndexOwn, Covers
<1>10. NewestLive'
  <2>1. CASE loc[p].op = "forgot"
    BY <1>1, <1>4, <1>5, <2>1 DEF Calm, NewestLive
  <2>2. CASE loc[p].op # "forgot"
    <3>1. \A v \in Users \ {u} : newest'[v] = newest[v] /\ (v \in asked' <=> v \in asked)
      BY <1>1, <2>2 DEF Inv, TypeOK
    <3>2. newest'[u] = t
      BY <1>1, <2>2 DEF Inv, TypeOK
    <3> QED BY <1>4, <1>5, <1>6, <3>1, <3>2 DEF Calm, NewestLive
  <2> QED BY <2>1, <2>2
<1>11. Sound(p)'
  BY <1>2 DEF Sound, Steady, Asking, Revoking, Sending
<1> QED BY <1>3, <1>8, <1>9, <1>10, <1>11, CalmStep

(* A click takes a token out and nothing else.                             *)
LEMMA ClickCalm ==
    ASSUME Inv, Calm, ~shared', NEW p \in Procs, NEW t \in Tokens, Click(p, t)
    PROVE  Calm'
<1> DEFINE data == [NoLocal EXCEPT !.op = key[t].kind, !.user = key[t].user, !.token = t]
<1>1. t \in Live /\ t \in mailed /\ key[t] \in Key
  BY DEF Click, Live, Inv, TypeOK
<1>2. data \in Local
  BY <1>1 DEF NoLocal, Local, Ops, Key
<1>3. Accept(p, "load", data) /\ "load" \in Steps
  BY DEF Click, Steps
<1> HIDE DEF data
<1>4. pc'[p] = "load"
  BY <1>2, <1>3, AcceptTypes DEF Inv
<1>5. \A q \in Procs \ {p} : pc'[q] = "idle"
  BY <1>2, <1>3, OthersIdle DEF Inv, Calm
<1>6. /\ key' = [key EXCEPT ![t] = NoKey] /\ clicked' = clicked \cup {t}
      /\ UNCHANGED <<account, index, made, left, mailed, newest, asked>>
  BY DEF Click, Consumed, Mail
<1>7. Live' = Live \ {t} /\ \A d \in Live' : key'[d] = key[d]
  BY <1>6 DEF Live, Inv, TypeOK
<1>8. \A v : Verifying(v)' = Verifying(v) \ {t}
  BY <1>6, <1>7 DEF Verifying
<1>9. Known'
  BY <1>1, <1>6, <1>7 DEF Calm, Known
<1>10. Indexed' /\ IndexOwn'
  <2>1. \A v \in Users : \A d \in Verifying(v)' : d \in Verifying(v) /\ key'[d] = key[d]
    BY <1>7, <1>8 DEF Verifying
  <2> QED BY <1>6, <1>7, <2>1 DEF Calm, Indexed, IndexOwn, Covers
<1>11. NewestLive'
  BY <1>6, <1>7 DEF Calm, NewestLive
<1>12. Sound(p)'
  BY <1>4 DEF Sound, Steady, Asking, Revoking, Sending
<1> QED BY <1>5, <1>9, <1>10, <1>11, <1>12, CalmStep

(* The rest of a click, and the end of a request that fails.               *)
LEMMA EndCalm ==
    ASSUME Inv, Calm, ~shared', NEW p \in Procs, Load(p) \/ Use(p) \/ Abort(p)
    PROVE  Calm'
<1>1. pc'[p] \in {"use", "idle"} /\ \A q \in Procs \ {p} : pc'[q] = pc[q]
  <2>1. "use" \in Steps
    BY DEF Steps
  <2> QED BY <2>1, GotoTypes, FinishTypes DEF Load, Use, Abort, Inv
<1>2. Busy(p)
  BY DEF Busy, Load, Use, Abort
<1>3. \A q \in Procs \ {p} : pc'[q] = "idle"
  BY <1>1, <1>2, OthersIdle DEF Inv, Calm
<1>4. UNCHANGED <<key, index, made, left, mailed, clicked, newest, asked>>
  BY DEF Load, Use, Abort, Redis, Mail, Links
<1>5. \A v \in Users : account'[v] = "unused" => account[v] = "unused"
  BY DEF Load, Use, Abort, Inv, TypeOK
<1>6. Known' /\ Indexed' /\ IndexOwn' /\ NewestLive'
  BY <1>4, <1>5, TablesKept
<1>7. Sound(p)'
  BY <1>1 DEF Sound, Steady, Asking, Revoking, Sending
<1> QED BY <1>3, <1>6, <1>7, CalmStep

(* Time takes the index no earlier than its token.                         *)
LEMMA TickCalm ==
    ASSUME Inv, Calm, Tick
    PROVE  Calm'
<1>1. UNCHANGED <<account, pc, loc, made, mailed, newest, asked, clicked, shared>>
  BY DEF Tick, Links
<1>2. \A t \in Live' : /\ t \in Live /\ key[t].ttl \in 2..Life
                       /\ key'[t].user = key[t].user /\ key'[t].kind = key[t].kind
                       /\ key'[t].ttl = key[t].ttl - 1
  <2> SUFFICES ASSUME NEW t \in Tokens, key'[t] # NoKey
               PROVE  /\ key[t] # NoKey /\ key[t].ttl \in 2..Life
                      /\ key'[t].user = key[t].user /\ key'[t].kind = key[t].kind
                      /\ key'[t].ttl = key[t].ttl - 1
    BY DEF Live
  <2>1. key[t] # NoKey /\ key[t].ttl # 1 /\ key'[t] = [key[t] EXCEPT !.ttl = @ - 1]
    BY DEF Tick
  <2>2. key[t] \in Key
    BY <2>1 DEF Inv, TypeOK
  <2> QED BY <2>1, <2>2, EmailTokensAssumption DEF Key
<1>3. \A t \in Live : key[t].ttl # 1 => t \in Live'
  <2> SUFFICES ASSUME NEW t \in Tokens, key[t] # NoKey, key[t].ttl # 1 PROVE key'[t] # NoKey
    BY DEF Live
  <2>1. key[t] \in Key /\ key'[t] = [key[t] EXCEPT !.ttl = @ - 1]
    BY DEF Tick, Inv, TypeOK
  <2>2. key'[t].user \in Users
    BY <2>1 DEF Key
  <2> QED BY <2>2, EmailTokensAssumption DEF NoKey
<1>4. \A u \in Users : \/ index'[u] = NoIndex /\ (index[u] = NoIndex \/ index[u].ttl = 1)
                       \/ /\ index[u] \in Index /\ index'[u].token = index[u].token
                          /\ index'[u].ttl = index[u].ttl - 1
  <2> TAKE u \in Users
  <2>1. CASE index[u] = NoIndex \/ index[u].ttl = 1
    BY <2>1 DEF Tick
  <2>2. CASE index[u] # NoIndex /\ index[u].ttl # 1
    <3>1. index[u] \in Index /\ index'[u] = [index[u] EXCEPT !.ttl = @ - 1]
      BY <2>2 DEF Tick, Inv, TypeOK
    <3> QED BY <3>1 DEF Index
  <2> QED BY <2>1, <2>2
<1>5. \A t \in Tokens : /\ left'[t] = (IF left[t] = 0 THEN 0 ELSE left[t] - 1)
                        /\ left[t] \in Nat /\ (left'[t] > 0 => left[t] > 1)
  <2>1. \A t \in Tokens : left[t] \in Nat /\ left'[t] = (IF left[t] = 0 THEN 0 ELSE left[t] - 1)
    BY EmailTokensAssumption DEF Tick, Inv, TypeOK
  <2> QED BY <2>1
<1>6. Live \subseteq Tokens /\ Live' \subseteq Live /\ \A t \in Live : key[t].ttl = left[t]
  BY <1>2 DEF Live, Calm, Known
<1>7. \A t \in Live' : key'[t].ttl = left'[t]
  BY <1>2, <1>5, <1>6
<1>8. \A t \in Live : left'[t] > 0 => t \in Live'
  BY <1>3, <1>5, <1>6
<1>9. \A u : Verifying(u)' \subseteq Verifying(u)
  BY <1>1, <1>2 DEF Verifying
<1>10. ASSUME NEW u \in Users, NEW t \in Live', Covers(u, t)
       PROVE  Covers(u, t)'
  <2>1. key[t].ttl \in 2..Life /\ key'[t].ttl = key[t].ttl - 1 /\ t \in Tokens
    BY <1>2, <1>6
  <2>2. index[u].token = t /\ key[t].ttl <= index[u].ttl
    BY <1>10 DEF Covers
  <2>3. index[u] # NoIndex
    BY <2>1, <2>2, EmailTokensAssumption DEF NoIndex
  <2>4. index[u].ttl \in Nat
    BY <2>3, EmailTokensAssumption DEF Inv, TypeOK, Index
  <2>5. index[u].ttl # 1
    BY <2>1, <2>2
  <2> QED BY <1>4, <2>1, <2>2, <2>3, <2>4, <2>5 DEF Covers
<1>11. \A u \in Users : index'[u].token \in {index[u].token, None}
  BY <1>4 DEF NoIndex
<1>12. Known'
  BY <1>1, <1>7, <1>11 DEF Calm, Known
<1>13. Indexed'
  <2>1. \A u \in Users : \A t \in Verifying(u)' : t \in Live' /\ Covers(u, t)
    BY <1>9 DEF Verifying, Calm, Indexed
  <2> QED BY <1>10, <2>1 DEF Indexed
<1>14. IndexOwn'
  <2>1. None \notin Live'
    BY <1>6, EmailTokensAssumption
  <2> QED BY <1>2, <1>11, <2>1 DEF Calm, IndexOwn
<1>15. NewestLive'
  <2>1. ASSUME NEW u \in Users, newest[u] # None, u \notin asked, newest[u] \notin clicked,
               left'[newest[u]] > 0
        PROVE  newest[u] \in Live' /\ key'[newest[u]].user = u
    <3>1. newest[u] \in Tokens
      BY <2>1 DEF Inv, TypeOK
    <3>2. left[newest[u]] > 0
      BY <1>5, <2>1, <3>1
    <3>3. newest[u] \in Live /\ key[newest[u]].user = u
      BY <2>1, <3>2 DEF Calm, NewestLive
    <3> QED BY <1>2, <1>8, <2>1, <3>3
  <2> QED BY <1>1, <2>1 DEF NewestLive
<1>16. ASSUME NEW p \in Procs PROVE Sound(p)'
  <2>1. Steady(p)' /\ Asking(p)'
    BY <1>1 DEF Calm, Sound, Steady, Asking
  <2>2. Revoking(p)'
    BY <1>1, <1>2, <1>9 DEF Calm, Sound, Revoking
  <2>3. Sending(p)'
    <3> SUFFICES ASSUME pc[p] \in {"index", "commit", "mail"}
                 PROVE  LET t == loc[p].token IN
                        /\ t \in made \ (mailed \cup clicked)
                        /\ left'[t] > 0 => t \in Live'
                        /\ t \in Live' =>
                              /\ key'[t].user = loc[p].user
                              /\ key'[t].kind = "verify" <=> loc[p].op # "forgot"
                              /\ pc[p] # "index" /\ loc[p].op # "forgot" => Covers(loc[p].user, t)'
      BY <1>1 DEF Sending
    <3> DEFINE t == loc[p].token
    <3>1. t \in Tokens /\ loc[p].user \in Users
      BY DEF Inv, HasUser
    <3>2. /\ t \in made \ (mailed \cup clicked) /\ (left[t] > 0 => t \in Live)
          /\ t \in Live => /\ key[t].user = loc[p].user
                           /\ key[t].kind = "verify" <=> loc[p].op # "forgot"
                           /\ pc[p] # "index" /\ loc[p].op # "forgot" => Covers(loc[p].user, t)
      BY DEF Calm, Sound, Sending
    <3>3. left'[t] > 0 => t \in Live'
      BY <1>5, <1>8, <3>1, <3>2
    <3> QED BY <1>1, <1>2, <1>10, <3>1, <3>2, <3>3
  <2> QED BY <2>1, <2>2, <2>3 DEF Sound
<1>17. OneAtATime'
  BY <1>1 DEF Calm, OneAtATime, Busy
<1> QED BY <1>12, <1>13, <1>14, <1>15, <1>16, <1>17 DEF Calm

LEMMA StillCalm ==
    ASSUME Inv, Calm, (\E u \in Users : DeleteAccount(u)) \/ UNCHANGED vars
    PROVE  Calm'
<1>1. /\ UNCHANGED <<key, index, made, left, mailed, clicked, newest, pc, loc, asked>>
      /\ \A v \in Users : account'[v] = "unused" => account[v] = "unused"
  BY DEF DeleteAccount, vars, Redis, Mail, Links, Inv, TypeOK
<1>2. /\ Known' /\ Indexed' /\ IndexOwn' /\ NewestLive' /\ Live' = Live
      /\ \A u : Verifying(u)' = Verifying(u)
      /\ \A u, t : Covers(u, t)' <=> Covers(u, t)
  BY <1>1, TablesKept
<1>3. OneAtATime'
  BY <1>1 DEF Calm, OneAtATime, Busy
<1>4. ASSUME NEW p \in Procs PROVE Sound(p)'
  <2>1. pc[p] # "idle" => loc[p].user \in Users
    BY DEF Inv, HasUser
  <2>2. Steady(p)' /\ Asking(p)' /\ Revoking(p)'
    BY <1>1, <1>2, <2>1 DEF Calm, Sound, Steady, Asking, Revoking
  <2>3. Sending(p)'
    BY <1>1, <1>2 DEF Calm, Sound, Sending
  <2> QED BY <2>2, <2>3 DEF Sound
<1> QED BY <1>2, <1>3, <1>4 DEF Calm

LEMMA CalmInit == Init => CalmInv
<1> SUFFICES ASSUME Init PROVE Calm
  BY DEF CalmInv
<1>1. Live = {}
  BY DEF Init, Live
<1>2. Known
  BY <1>1 DEF Init, Known, NoIndex
<1>3. OneAtATime /\ Indexed /\ IndexOwn /\ NewestLive
  BY <1>1 DEF Init, OneAtATime, Busy, Indexed, Verifying, IndexOwn, NewestLive
<1>4. \A p \in Procs : Sound(p)
  BY DEF Init, Sound, Steady, Asking, Revoking, Sending
<1> QED BY <1>2, <1>3, <1>4 DEF Calm

LEMMA CalmNext == Inv /\ CalmInv /\ [Next]_vars => CalmInv'
<1> SUFFICES ASSUME Inv, CalmInv, [Next]_vars, ~shared' PROVE Calm'
  BY DEF CalmInv
<1>1. Calm
  <2>1. shared => shared'
    BY DEF Next, Signup, Resend, Forgot, Click, Lookup, Revoke, Unindex, Store, SetIndex,
       SignupCommit, SendMail, Load, Use, Abort, DeleteAccount, Tick, Accept, Goto, Finish, vars
  <2> QED BY <2>1 DEF CalmInv
<1> QED BY <1>1, AskCalm, LookupCalm, RevokeCalm, UnindexCalm, StoreCalm, SetIndexCalm, CommitCalm,
           SendCalm, ClickCalm, EndCalm, TickCalm, StillCalm DEF Next

LEMMA CalmInvariant == Spec => []CalmInv
BY CalmInit, CalmNext, Invariant, PTL DEF Spec

(* Requests that do not overlap leave a user one working verification link, *)
(* wherever an earlier request broke off                                    *)
(* (revoke_previous_verification_token).                                    *)
THEOREM LinksReplaced == Spec => []OneLiveLink
<1>1. Inv /\ CalmInv => OneLiveLink
  <2> SUFFICES ASSUME Inv, Calm,
                      NEW t \in Live \cap mailed, NEW d \in Live \cap mailed,
                      key[t].user = key[d].user, key[t].kind = "verify", key[d].kind = "verify"
               PROVE  t = d
    BY DEF CalmInv, OneLiveLink
  <2>1. key[t].user \in Users
    BY DEF Inv, TypeOK, Live, Key
  <2>2. t \in Verifying(key[t].user) /\ d \in Verifying(key[t].user)
    BY DEF Verifying
  <2> QED BY <2>1, <2>2 DEF Calm, Indexed, Covers
<1> QED BY <1>1, Invariant, CalmInvariant, PTL

(* The newest link mailed works until it is used, it expires or another is  *)
(* asked for (store_verification_token, revoke_previous_verification_token).*)
THEOREM NewestLinksWork == Spec => []NewestLinkWorks
<1>1. CalmInv => NewestLinkWorks
  BY DEF CalmInv, Calm, NewestLive, NewestLinkWorks
<1> QED BY <1>1, CalmInvariant, PTL
============================================================================

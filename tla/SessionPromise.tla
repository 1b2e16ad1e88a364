--------------------------- MODULE SessionPromise ---------------------------
(***************************************************************************)
(* What signing in and out promises the people who do it: an abstract      *)
(* specification, which Sessions implements when no two requests overlap.  *)
(* A session belongs to one account and has one key at a time, which was   *)
(* never given out before.  It goes on with another key, or lapses, until  *)
(* it is ended, for good; and whoever ends all sessions of an account ends *)
(* every open one of that account and none of another's.                   *)
(***************************************************************************)
CONSTANTS Users, Sessions, Keys, None

VARIABLES
    state,  \* state[s]: "absent", "open", "lapsed" (its key has expired) or "ended"
    who,    \* who[s]: the account that s was opened for
    key,    \* key[s]: the key that s goes on with, or None
    given   \* the keys that have been given out

svars == <<state, who, key, given>>

Going(s) == state[s] \in {"open", "lapsed"}

Init ==
    /\ state = [s \in Sessions |-> "absent"]
    /\ who = [s \in Sessions |-> None]
    /\ key = [s \in Sessions |-> None]
    /\ given = {}

(* Session s is open with a key k nobody has had. *)
Give(s, k) ==
    /\ k \notin given
    /\ given' = given \cup {k}
    /\ key' = [key EXCEPT ![s] = k]
    /\ state' = [state EXCEPT ![s] = "open"]

Open(s, u, k) ==
    /\ state[s] = "absent"
    /\ who' = [who EXCEPT ![s] = u]
    /\ Give(s, k)

(* A request that found s open may renew it when s has just lapsed. *)
Renew(s, k) ==
    /\ Going(s)
    /\ Give(s, k)
    /\ UNCHANGED who

Lapse(S) ==
    /\ \A s \in S : state[s] = "open"
    /\ state' = [s \in Sessions |-> IF s \in S THEN "lapsed" ELSE state[s]]
    /\ UNCHANGED <<who, key, given>>

End(S) ==
    /\ \A s \in S : Going(s)
    /\ state' = [s \in Sessions |-> IF s \in S THEN "ended" ELSE state[s]]
    /\ key' = [s \in Sessions |-> IF s \in S THEN None ELSE key[s]]
    /\ UNCHANGED <<who, given>>

(* Of the account's sessions, those that have lapsed may be left to rot. *)
EndAll(u, S) ==
    /\ \A s \in S : who[s] = u
    /\ \A s \in Sessions \ S : who[s] = u => state[s] # "open"
    /\ End(S)

Next ==
    \/ \E s \in Sessions, k \in Keys : Renew(s, k) \/ \E u \in Users : Open(s, u, k)
    \/ \E S \in SUBSET Sessions : Lapse(S) \/ \E u \in Users : EndAll(u, S)
    \/ \E s \in Sessions : End({s})

Spec == Init /\ [][Next]_svars
============================================================================

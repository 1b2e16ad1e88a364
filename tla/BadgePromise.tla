---------------------------- MODULE BadgePromise ----------------------------
(***************************************************************************)
(* What a badge promises the people who are sent its link: an abstract     *)
(* specification, which Badges implements when no two requests overlap.    *)
(* A badge is a draft or live until it is gone for good; its link is given *)
(* once, with the first publication, and stays its own; and there is       *)
(* always a way to open it, for everyone or with one code.                 *)
(***************************************************************************)
CONSTANTS Badges, Slugs, Codes, None

VARIABLES
    state,  \* state[b]: "absent", "draft", "live", "gone" or "removed"
    link,   \* link[b]: the slug people have been given, or None
    keys    \* keys[b]: the access codes (None: no code) that open the page

pvars == <<state, link, keys>>

Ways == {{c} : c \in Codes} \cup {Codes \cup {None}}
Kept(b) == state[b] \in {"draft", "live"}

Init ==
    /\ state = [b \in Badges |-> "absent"]
    /\ link = [b \in Badges |-> None]
    /\ keys = [b \in Badges |-> {}]

Make(b) ==
    /\ state[b] = "absent"
    /\ state' = [state EXCEPT ![b] = "draft"]
    /\ \E w \in Ways : keys' = [keys EXCEPT ![b] = w]
    /\ UNCHANGED link

Publish(b) ==
    /\ state[b] = "draft"
    /\ state' = [state EXCEPT ![b] = "live"]
    /\ \/ link[b] # None /\ UNCHANGED link
       \/ /\ link[b] = None
          /\ \E s \in Slugs \ {link[d] : d \in Badges} : link' = [link EXCEPT ![b] = s]
    /\ UNCHANGED keys

Unpublish(b) ==
    /\ state[b] = "live"
    /\ state' = [state EXCEPT ![b] = "draft"]
    /\ UNCHANGED <<link, keys>>

Lock(b) ==
    /\ Kept(b)
    /\ \E w \in Ways : keys' = [keys EXCEPT ![b] = w]
    /\ UNCHANGED <<state, link>>

Delete(b) ==
    /\ Kept(b)
    /\ state' = [state EXCEPT ![b] = "gone"]
    /\ UNCHANGED <<link, keys>>

(* An account is deleted with its badges, which free their links. *)
Remove(S) ==
    /\ \A b \in S : Kept(b) \/ state[b] = "gone"
    /\ state' = [b \in Badges |-> IF b \in S THEN "removed" ELSE state[b]]
    /\ link' = [b \in Badges |-> IF b \in S THEN None ELSE link[b]]
    /\ keys' = [b \in Badges |-> IF b \in S THEN {} ELSE keys[b]]

Next ==
    \/ \E b \in Badges : Make(b) \/ Publish(b) \/ Unpublish(b) \/ Lock(b) \/ Delete(b)
    \/ \E S \in SUBSET Badges : Remove(S)

Spec == Init /\ [][Next]_pvars
============================================================================

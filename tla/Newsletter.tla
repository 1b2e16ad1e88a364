----------------------------- MODULE Newsletter -----------------------------
(***************************************************************************)
(* One address's row of newsletter_subscribers (app/services/newsletter.py, *)
(* app/models/newsletter.py): subscribing, again after leaving, and the     *)
(* link in the welcome mail that leaves.                                    *)
(***************************************************************************)
EXTENDS Requests

CONSTANT MaxTokens  \* unsubscribe tokens that can be made (a bound)

Subscription == [active : BOOLEAN, token : Nat]

ASSUME NewsletterAssumption == MaxTokens \in Nat /\ None \notin Subscription

VARIABLES
    subscriber,  \* the row, or None
    tokens,      \* tokens made so far: they are random
    mailed,      \* tokens that have been sent
    unsent       \* observation: a welcome mail was lost

newsVars == <<subscriber, tokens, mailed, unsent>>

NewsletterInit == subscriber = None /\ tokens = 0 /\ mailed = {} /\ unsent = FALSE

(* Who is subscribed already is told so.                                   *)
Subscribe(p) ==
    /\ subscriber # None => ~subscriber.active
    /\ tokens < MaxTokens /\ tokens' = tokens + 1
    /\ Accept(p, "subscribe", [token |-> tokens + 1, row |-> subscriber # None])
    /\ UNCHANGED <<subscriber, mailed, unsent>>

\* Mutant: who was subscribed before gets no mail.
GreetOnce(p) == IF loc[p].row THEN Finish(p) ELSE Goto(p, "refresh", loc[p])

Greet(p) == Goto(p, "refresh", loc[p])

(* An INSERT that finds a row, of a subscription that overlapped, ends the  *)
(* request without a mail; an UPDATE takes whatever the row has become.     *)
SubscribeCommit(p) ==
    /\ pc[p] = "subscribe"
    /\ IF subscriber # None /\ ~loc[p].row
       THEN Finish(p) /\ UNCHANGED newsVars
       ELSE /\ subscriber' = [active |-> TRUE, token |-> loc[p].token]
            /\ Greet(p)
            /\ UNCHANGED <<tokens, mailed, unsent>>

(* session.refresh reads the row again: its token may be another's.        *)
Refresh(p) ==
    /\ pc[p] = "refresh"
    /\ Goto(p, "mail", [loc[p] EXCEPT !.token = subscriber.token])
    /\ UNCHANGED newsVars

Mail(p) ==
    /\ pc[p] = "mail"
    /\ mailed' = mailed \cup {loc[p].token}
    /\ Finish(p)
    /\ UNCHANGED <<subscriber, tokens, unsent>>

(* The mail fails, which is logged, or the request dies.                   *)
MailFails(p) ==
    /\ pc[p] \in {"subscribe", "refresh", "mail"}
    /\ unsent' = TRUE
    /\ Finish(p)
    /\ UNCHANGED <<subscriber, tokens, mailed>>

Unsubscribe(p, t) ==
    /\ subscriber # None /\ subscriber.token = t /\ subscriber.active
    /\ Accept(p, "leave", [token |-> t])
    /\ UNCHANGED newsVars

Leave(p) ==
    /\ pc[p] = "leave"
    /\ subscriber' = [subscriber EXCEPT !.active = FALSE]
    /\ Finish(p)
    /\ UNCHANGED <<tokens, mailed, unsent>>

NewsletterNext ==
    \E p \in Procs :
       \/ Subscribe(p) \/ SubscribeCommit(p) \/ Refresh(p) \/ Mail(p) \/ MailFails(p)
       \/ \E t \in mailed : Unsubscribe(p, t)
       \/ Leave(p)
----------------------------------------------------------------------------
(* Once nobody is at work, who is subscribed has been sent the link that    *)
(* leaves, however subscriptions overlapped, unless a mail was lost.        *)
LinkWorks ==
    Quiet /\ subscriber # None /\ subscriber.active /\ ~unsent => subscriber.token \in mailed
=============================================================================

------------------------------- MODULE Lockout -------------------------------
(***************************************************************************)
(* The counter of failed sign-ins of one e-mail address, a Redis key with  *)
(* a time to live (check_lockout, increment_failed_attempts and            *)
(* reset_attempts in app/services/auth.py, called by signin).  The keys of *)
(* different addresses have nothing to do with each other.                 *)
(*                                                                         *)
(* A sign-in reads the counter, verifies the password in a thread, and     *)
(* then counts the failure or deletes the key; INCR and EXPIRE are two     *)
(* commands.  Other sign-ins for the address run at each await.            *)
(***************************************************************************)
EXTENDS Integers, FiniteSets

CONSTANTS
    Procs,        \* sign-ins that can be served at the same time (a bound)
    MaxAttempts,  \* settings.MAX_LOGIN_ATTEMPTS
    Window,       \* settings.LOCKOUT_WINDOW, in units of the clock
    MaxCalls      \* the sign-ins that are let through to the password (a bound)

ASSUME LockoutAssumption ==
    /\ IsFiniteSet(Procs)
    /\ MaxAttempts \in Nat \ {0} /\ Window \in Nat \ {0} /\ MaxCalls \in Nat

VARIABLES
    count,   \* the counter; 0: there is no key
    ttl,     \* what the key has left to live; 0: no key, or no expiry
    pc,      \* pc[p]: where sign-in p stands
    calls,   \* how many sign-ins were let through
    lost,    \* history: a sign-in died between its INCR and its EXPIRE
    shared   \* history: two sign-ins have been under way at the same time

vars == <<count, ttl, pc, calls, lost, shared>>

TypeOK ==
    /\ count \in Nat
    /\ ttl \in 0..Window
    /\ pc \in [Procs -> {"idle", "verify", "expire"}]
    /\ calls \in 0..MaxCalls
    /\ lost \in BOOLEAN /\ shared \in BOOLEAN

Goto(p, step) == pc' = [pc EXCEPT ![p] = step]

Init ==
    /\ count = 0 /\ ttl = 0
    /\ pc = [p \in Procs |-> "idle"]
    /\ calls = 0
    /\ lost = FALSE /\ shared = FALSE
----------------------------------------------------------------------------
\* Mutants: nothing is refused; one attempt too many is let through.
OpenAlways == TRUE
OpenAtLimit == count <= MaxAttempts

(* check_lockout lets the sign-in through. *)
Open == count < MaxAttempts

\* Mutants: the key never gets its expiry, or with the last failure only.
FirstNever(n) == n = 0
FirstAtLimit(n) == n = MaxAttempts

(* increment_failed_attempts sets the expiry with the first failure. *)
First(n) == n = 1

Check(p) ==
    /\ pc[p] = "idle" /\ calls < MaxCalls
    /\ Open
    /\ Goto(p, "verify")
    /\ calls' = calls + 1
    /\ shared' = (shared \/ \E q \in Procs \ {p} : pc[q] # "idle")
    /\ UNCHANGED <<count, ttl, lost>>

(* The password is wrong, or there is no such account: INCR.              *)
Wrong(p) ==
    /\ pc[p] = "verify"
    /\ count' = count + 1
    /\ Goto(p, IF First(count') THEN "expire" ELSE "idle")
    /\ UNCHANGED <<ttl, calls, lost, shared>>

\* Mutant: the window in another unit.
ExpiryLonger == 60 * Window

Expiry == Window

(* EXPIRE does nothing when the key is gone.                               *)
Expire(p) ==
    /\ pc[p] = "expire"
    /\ ttl' = IF count > 0 THEN Expiry ELSE ttl
    /\ Goto(p, "idle")
    /\ UNCHANGED <<count, calls, lost, shared>>

(* The password is right: DEL. *)
Right(p) ==
    /\ pc[p] = "verify"
    /\ count' = 0 /\ ttl' = 0
    /\ Goto(p, "idle")
    /\ UNCHANGED <<calls, lost, shared>>

(* The worker dies, the request is cancelled or Redis does not answer. *)
Abort(p) ==
    /\ pc[p] # "idle"
    /\ lost' = (lost \/ pc[p] = "expire")
    /\ Goto(p, "idle")
    /\ UNCHANGED <<count, ttl, calls, shared>>

(* Time passes for a key that has an expiry. *)
Tick ==
    /\ ttl > 0
    /\ ttl' = ttl - 1
    /\ count' = IF ttl = 1 THEN 0 ELSE count
    /\ UNCHANGED <<pc, calls, lost, shared>>

Next ==
    \/ \E p \in Procs : Check(p) \/ Wrong(p) \/ Expire(p) \/ Right(p) \/ Abort(p)
    \/ Tick

(* Time passes, and a sign-in that has counted a failure goes on to its    *)
(* EXPIRE or dies: the event loop resumes every coroutine whose command    *)
(* was answered.                                                           *)
Spec ==
    /\ Init /\ [][Next]_vars
    /\ WF_vars(Tick)
    /\ \A p \in Procs : WF_vars(Expire(p) \/ (pc[p] = "expire" /\ Abort(p)))
----------------------------------------------------------------------------
Locked == count >= MaxAttempts

(* Attempts in flight when the limit is reached are still verified and      *)
(* counted, but no more than were under way: check_lockout stops the rest.  *)
GuessesBounded == count < MaxAttempts + Cardinality(Procs)

(* As long as sign-ins do not overlap, the limit is exact: "locking         *)
(* accounts after 5 consecutive failures".                                  *)
LimitExact == ~shared => count <= MaxAttempts

(* The counter is never left without an expiry, whatever successful         *)
(* sign-ins and expiries come between an INCR and its EXPIRE: only a        *)
(* sign-in that dies between the two can do that.                           *)
CounterTimed == count > 0 /\ ttl = 0 => lost \/ \E p \in Procs : pc[p] = "expire"

(* A lock comes to an end, unless a sign-in has died between INCR and       *)
(* EXPIRE.                                                                  *)
LockEnds == Locked ~> (~Locked \/ lost)

(* What the e-mail about the lock says: "locked for $minutes minutes.       *)
(* Please try again after that time".                                       *)
LockTemporary == Locked ~> ~Locked
============================================================================

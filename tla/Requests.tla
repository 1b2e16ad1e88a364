------------------------------ MODULE Requests ------------------------------
(***************************************************************************)
(* The requests that the API serves: each is a coroutine with a database   *)
(* session of its own (app/db/session.py), any number of them interleave   *)
(* at their awaits.  The modules of the components say what happens in the *)
(* steps between.                                                          *)
(***************************************************************************)
EXTENDS Naturals

CONSTANTS
    Procs,    \* requests that can be served at the same time (a bound)
    None,     \* SQL's NULL, and what an idle coroutine holds
    MaxCalls  \* the requests that are served (a bound)

ASSUME RequestsAssumption == MaxCalls \in Nat

VARIABLES
    pc,    \* pc[p]: the await that request p stands at
    loc,   \* loc[p]: what it holds
    calls  \* how many requests have arrived

requestVars == <<pc, loc, calls>>

RequestsInit ==
    /\ pc = [p \in Procs |-> "idle"]
    /\ loc = [p \in Procs |-> None]
    /\ calls = 0

Busy(p) == pc[p] # "idle"
Quiet == \A p \in Procs : ~Busy(p)

Accept(p, step, held) ==
    /\ ~Busy(p) /\ calls < MaxCalls
    /\ calls' = calls + 1
    /\ pc' = [pc EXCEPT ![p] = step]
    /\ loc' = [loc EXCEPT ![p] = held]

Goto(p, step, held) ==
    /\ pc' = [pc EXCEPT ![p] = step]
    /\ loc' = [loc EXCEPT ![p] = held]
    /\ UNCHANGED calls

Finish(p) ==
    /\ pc' = [pc EXCEPT ![p] = "idle"]
    /\ loc' = [loc EXCEPT ![p] = None]
    /\ UNCHANGED calls

(* A request whose only effect is one statement. *)
AtOnce == calls < MaxCalls /\ calls' = calls + 1 /\ UNCHANGED <<pc, loc>>
=============================================================================

------------------------------ MODULE Digests ------------------------------
(***************************************************************************)
(* The worker's two cron jobs (app/workers/digest_jobs.py,                 *)
(* notification_worker.py): at 20:00 UTC each organiser is sent the number *)
(* of creations of the day, on Sundays that of the week.  A job is one     *)
(* coroutine over one session: READ COMMITTED queries, then a transaction  *)
(* per organiser.  Requests go on being served all the while.              *)
(***************************************************************************)
EXTENDS Participation

CONSTANT Start  \* the half day at which the behaviour begins

ASSUME DigestsAssumption == Start \in Nat /\ None \notin Nat

VARIABLE job  \* job[k]: the last run of job k

vars == <<users, prefs, notes, begun, clock, badges, templates, origin, job, pc, loc, calls>>

(* Day 0 is a Sunday, so that a day's number modulo 7 is PostgreSQL's dow. *)
Sunday(d) == d % 7 = 0
WeekdayNames == <<"Monday", "Tuesday", "Wednesday", "Thursday", "Friday", "Saturday", "Sunday">>

Days(k, day) == IF k = "daily" THEN {day} ELSE {d \in 0..day : day - 7 < d}
Creations(u, S) == {n \in Inbox(u) : n.type = "alert" /\ n.day \in S}

(* What a run holds: the local variables of the job.  base, due and        *)
(* refused are observations of the moment it began: the organisers it has  *)
(* something for, with their badges, and those who have switched it off.   *)
NoJob ==
    [pc |-> "off", day |-> None, opted |-> {}, owners |-> {}, counts |-> <<>>, left |-> {},
     who |-> None, top |-> None, at |-> None, base |-> 0, due |-> <<>>, refused |-> {}]

Over(k, how) == [NoJob EXCEPT !.pc = how, !.day = job[k].day]

Running(k) == job[k].pc \in {"owners", "targets", "counts", "each", "look", "send"}

(* A behaviour begins with one job still to be run that day.  (The jobs     *)
(* share no more than the tables, and neither reads what the other writes.) *)
DigestsInit ==
    /\ ParticipationInit
    /\ clock = Start
    /\ \E k \in Kinds : job = [j \in Kinds |->
          IF j = k THEN NoJob ELSE [NoJob EXCEPT !.pc = "cut", !.day = Today]]

Step(k, held) == job' = [job EXCEPT ![k] = held] /\ UNCHANGED requestVars

(* now() is when the transaction of the first statement since the last     *)
(* commit began.                                                           *)
TxAt(k) == IF job[k].at = None THEN begun + 1 ELSE job[k].at
TxBegins(k) == begun' = IF job[k].at = None THEN begun + 1 ELSE begun
----------------------------------------------------------------------------
(* arq runs a cron job once, whether or not it succeeds.                   *)
JobStart(k) ==
    LET due == {u \in users : /\ Allows(u, k) /\ (Row(u) \/ Owned(u) # {})
                              /\ Creations(u, Days(k, Today)) # {}} IN
    /\ Evening /\ (k = "weekly" => Sunday(Today))
    /\ ~Running(k) /\ job[k].day # Today
    /\ Step(k, [NoJob EXCEPT
          !.pc = "owners", !.day = Today, !.at = begun + 1,
          !.opted = {u \in users : Row(u) /\ Allows(u, k)},
          !.base = begun,
          !.due = [u \in due |-> [count  |-> Cardinality(Creations(u, Days(k, Today))),
                                  badges |-> Owned(u)]],
          !.refused = {u \in users : ~Allows(u, k)}])
    /\ begun' = begun + 1
    /\ UNCHANGED <<users, prefs, notes, clock, badges, templates, origin>>

(* Badges that are soft-deleted still make an owner.                       *)
JobOwners(k) ==
    /\ job[k].pc = "owners"
    /\ Step(k, [job[k] EXCEPT !.pc = "targets", !.owners = {u \in Users : Owned(u) # {}}])
    /\ UNCHANGED siteVars

\* Mutant: only those who own badges and have no preferences.
DefaultedOnly(k) == job[k].owners \ {u \in Users : Row(u)}

Targets(k) == job[k].opted \cup (job[k].owners \ {u \in Users : Row(u)})

JobTargets(k) ==
    /\ job[k].pc = "targets"
    /\ Step(k, [job[k] EXCEPT !.pc = "counts", !.left = Targets(k),
                              !.opted = {}, !.owners = {}])
    /\ UNCHANGED siteVars

(* Organisers with nothing to report are skipped without a query.          *)
JobCounts(k) ==
    LET counts == [u \in job[k].left |-> Cardinality(Creations(u, Days(k, job[k].day)))] IN
    /\ job[k].pc = "counts"
    /\ Step(k, [job[k] EXCEPT !.pc = "each", !.counts = counts,
                              !.left = {u \in @ : counts[u] > 0}])
    /\ UNCHANGED siteVars

\* Mutant: the next iteration starts from the same organiser.
SkipNobody(k, u) == job[k].left

Skip(k, u) == job[k].left \ {u}

(* create_notification: the preferences, then the insert.                  *)
Look(k, u, top) ==
    /\ TxBegins(k)
    /\ Step(k, IF Allows(u, k)
               THEN [job[k] EXCEPT !.pc = "send", !.who = u, !.top = top, !.at = TxAt(k)]
               ELSE [job[k] EXCEPT !.pc = "each", !.who = None, !.top = None,
                                   !.at = TxAt(k), !.left = Skip(k, u)])
    /\ UNCHANGED <<users, prefs, notes, clock, badges, templates, origin>>

DailyLook(u) ==
    /\ job["daily"].pc = "each" /\ u \in job["daily"].left
    /\ Look("daily", u, None)

\* Mutant: dow taken for the index of a list that begins with Monday.
NameFromSunday(dow) == WeekdayNames[dow + 1]

NameOf(dow) == WeekdayNames[((dow + 6) % 7) + 1]

(* The dow with the most creations, the least one of a tie.                *)
TopDow(u, day) ==
    LET on(w) == Cardinality({n \in Creations(u, Days("weekly", day)) : n.day % 7 = w}) IN
    CHOOSE w \in 0..6 : \A x \in 0..6 : on(x) < on(w) \/ (on(x) = on(w) /\ w <= x)

(* per_day[0] of an empty answer raises, and the job ends.                 *)
PerDay(u) ==
    /\ job["weekly"].pc = "each" /\ u \in job["weekly"].left
    /\ TxBegins("weekly")
    /\ Step("weekly",
            IF Creations(u, Days("weekly", job["weekly"].day)) = {}
            THEN Over("weekly", "failed")
            ELSE [job["weekly"] EXCEPT !.pc = "look", !.who = u, !.at = TxAt("weekly"),
                                       !.top = NameOf(TopDow(u, job["weekly"].day))])
    /\ UNCHANGED <<users, prefs, notes, clock, badges, templates, origin>>

WeeklyLook ==
    /\ job["weekly"].pc = "look"
    /\ Look("weekly", job["weekly"].who, job["weekly"].top)

(* The insert waits for a deletion of the account and fails after it: the  *)
(* job ends, and with it the digests of those that are left.               *)
Send(k) ==
    LET u == job[k].who IN
    /\ job[k].pc = "send" /\ ~Going(u)
    /\ IF u \in users
       THEN /\ notes' = notes \cup {Digest(u, k, job[k].at, job[k].day, job[k].counts[u], job[k].top)}
            /\ Step(k, [job[k] EXCEPT !.pc = "each", !.who = None, !.top = None,
                                      !.at = None, !.left = @ \ {u}])
       ELSE notes' = notes /\ Step(k, Over(k, "failed"))
    /\ UNCHANGED <<users, prefs, begun, clock, badges, templates, origin>>

JobDone(k) ==
    /\ job[k].pc = "each" /\ job[k].left = {}
    /\ Step(k, [job[k] EXCEPT !.pc = "done", !.at = None, !.counts = <<>>])
    /\ UNCHANGED siteVars

(* The worker is stopped, or the job runs into arq's timeout.              *)
JobCut(k) ==
    /\ Running(k)
    /\ Step(k, Over(k, "cut"))
    /\ UNCHANGED siteVars

JobStep(k) ==
    \/ JobOwners(k) \/ JobTargets(k) \/ JobCounts(k) \/ Send(k) \/ JobDone(k)
    \/ k = "daily" /\ \E u \in Users : DailyLook(u)
    \/ k = "weekly" /\ (WeeklyLook \/ \E u \in Users : PerDay(u))

DigestsNext ==
    \/ ParticipationNext /\ UNCHANGED job
    \/ \E k \in Kinds : JobStart(k) \/ JobStep(k) \/ JobCut(k)

(* A job and a request that have been started go on; the rest need not      *)
(* happen.  Nothing is assumed of which request PostgreSQL ends.            *)
RequestStep(p) ==
    \/ AlertRead(p) \/ CountCommit(p) \/ Cascade(p)
    \/ \E q \in Procs : Resolve(p, q)

DigestsSpec ==
    /\ DigestsInit /\ [][DigestsNext]_vars
    /\ \A k \in Kinds : WF_vars(JobStep(k))
    /\ \A p \in Procs : WF_vars(RequestStep(p) /\ UNCHANGED job)
----------------------------------------------------------------------------
(* Types; the foreign keys hold; created_at tells notifications apart.      *)
DigestsTypeOK ==
    /\ users \subseteq Users
    /\ prefs \in [Users -> Prefs]
    /\ \A n \in notes :
          /\ n.user \in users /\ n.type \in Kinds \cup {"alert"} /\ n.at \in 1..begun
          /\ \A m \in notes : n.at = m.at => n = m
    /\ badges \in [Badges -> Badge \cup {None}]
    /\ \A b \in Badges : badges[b] # None =>
          /\ badges[b].owner \in users
          /\ badges[b].template = origin[b] /\ Stored(origin[b])
    /\ templates \in [Templates -> Template]
    /\ \A k \in Kinds : DOMAIN job[k].due \cup job[k].left \cup job[k].opted \subseteq Users
----------------------------------------------------------------------------
Sent(u, k, day) == {n \in Inbox(u) : n.type = k /\ n.period = day}

(* A run that ends well has served everyone whose toggle was on, or who had *)
(* none and a badge, when it began, and who has left all that alone since;  *)
(* the digest counts at least what had happened by then.  It sends nothing  *)
(* to who had switched it off.  A run fails only over a deleted account.    *)
(* The condition on the preferences is needed: a first save that falls      *)
(* between the job's queries takes the organiser out of both its sets, even *)
(* with the digest switched on.                                             *)
JobServes ==
    \A k \in Kinds :
       LET run == job[k]
           untouched(u) == u \in users /\ prefs[u].updated <= run.base
       IN
       /\ run.pc = "done" =>
             /\ \A u \in DOMAIN run.due :
                   untouched(u) /\ (Row(u) \/ Owned(u) \cap run.due[u].badges # {})
                      => \E n \in Sent(u, k, run.day) : n.count >= run.due[u].count
             /\ \A u \in run.refused : untouched(u) => Sent(u, k, run.day) = {}
       /\ run.pc = "failed" => users # Users

(* A digest tells what happened: one a day, or a week, at the most; never   *)
(* an empty one, nor one that counts creations of another day; and the day  *)
(* it names is the busiest, unless more have come since.                    *)
DigestsHonest ==
    \A n \in notes : n.type \in Kinds =>
       LET counted == Creations(n.user, Days(n.type, n.period))
           busy(d) == Cardinality({m \in counted : m.day = d})
       IN
       /\ Sent(n.user, n.type, n.period) = {n}
       /\ 0 < n.count /\ n.count <= Cardinality(counted)
       /\ n.type = "weekly" /\ n.count = Cardinality(counted) =>
             \E i \in 1..7 : /\ n.top = WeekdayNames[i]
                             /\ \A j \in 1..7 : busy(n.period + j - 7) <= busy(n.period + i - 7)

(* A job that has begun ends, whatever the requests around it wait for.     *)
JobEnds == \A k \in Kinds : Running(k) ~> ~Running(k)

(* Why it ends: each step of a run brings it to a later stage of its round  *)
(* of the organisers, or leaves it fewer of them to serve; no step brings   *)
(* it back, and no request touches it.                                      *)
Stage == [owners |-> 1, targets |-> 2, counts |-> 3, each |-> 4, look |-> 5, send |-> 6,
          done |-> 7, failed |-> 7, cut |-> 7]

Further(old, new) ==
    \/ new.left \subseteq old.left /\ new.left # old.left
    \/ /\ Stage[old.pc] < Stage[new.pc]
       /\ old.pc \in {"counts", "each", "look", "send"} => new.left \subseteq old.left

JobAdvances ==
    [][\A k \in Kinds : Running(k) => job'[k] = job[k] \/ Further(job[k], job'[k])]_vars
=============================================================================

# A formal model of the Social Badge API

The repository is a FastAPI service in which organisers make badges ("I am
attending ...") and share their links. It runs as several uvicorn workers of
asyncio coroutines over PostgreSQL (async SQLAlchemy, READ COMMITTED), Redis,
Cloudinary and an SMTP server, with an arq worker for two cron jobs. This
directory models the parts of it in which more than one actor, or more than one
store, can make something go wrong, checks the models with TLC and proves the
main results with TLAPS.

## 1. Inventory

Paths are relative to `src/app/`.

| Component | State | Operations | Hard because |
|---|---|---|---|
| Sign-in sessions (`services/auth.py`, `services/profile.py`, `routers/v1/auth.py`, `dependencies.py`) | `refresh_tokens` rows (family, `is_revoked`, `last_used_at`, `expires_at`); access JWTs; the Redis blacklist of their JTIs | sign-in, refresh with rotation and reuse detection, logout, logout-all, password reset, password change, account deletion | nothing is locked: each of them loads, awaits and commits; two stores are written one after the other; bulk statements see a snapshot |
| Badges (`services/badge.py`, `routers/v1/badges.py`) | `badges` and `badge_hashtags` rows, counters | create, publish, unpublish, edit, delete, duplicate, count shares and creations | load, assign, commit without a lock; a commit writes only what the request changed |
| Verification and reset tokens (`core/token.py`, `services/auth.py`, `routers/v1/auth.py`) | two Redis keys per purpose: token to user, user to token | store, replace, resend, consume (GETDEL) | several Redis commands per operation; the token is consumed before the commit that uses it |
| Login lockout (`services/auth.py`) | a Redis counter per e-mail address, with a TTL | check, count a failure, reset | check, verify and count are three awaits; INCR and EXPIRE are two commands |
| Google sign-in and accounts (`services/auth.py`, `services/profile.py`) | one-time state in Redis; `users`, `auth_providers` | sign-up, verification, change of address, start, callback | select-then-insert under unique constraints; two HTTP calls to Google in between |
| Logo and photo assets (`services/badge.py`, `services/profile.py`, `services/cloudinary.py`) | a URL in a row, an asset at Cloudinary | upload and replace, remove | two stores, no transaction over both |
| Notifications and digests (`services/notification.py`, `workers/digest_jobs.py`) | preferences, `notifications` rows, the creation log | creation alerts, mark read; daily and weekly digest | a cron job that commits per user over data that changes meanwhile; calendar arithmetic |
| Newsletter (`services/newsletter.py`) | one row per address with an unsubscribe token | subscribe, re-subscribe, unsubscribe | load-then-commit on one row; the token in the last e-mail |
| Platform templates (`services/admin.py`) | `platform_templates` rows and a badge count | create, update, delete | the deletion cascades to badges that are being created, counted or given a logo |
| Other profile fields, contact form, e-mail, rate limiter, middleware, sanitizer, configuration, seeds | see PROJECT.json | | one-row writes, libraries, I/O or formatting |

How they interact: `get_current_user` (every authenticated request) reads the
blacklist and the `users` row; password reset and change, verification and
Google sign-in all end or open sessions; account deletion cascades to sessions,
badges and notifications; creating a badge reads a template and raises its
count; publishing and creation counting feed notifications; the digests read
what the counters log.

What makes each one correct:

- *Sessions*: a rotated token is dead; revoked stays revoked; after reuse
  detection, logout-all or a reset no session of the user is alive; no session
  without its account; the access token dies before its refresh token is
  exchanged.
- *Badges*: a published badge can be found, under one link that is its own for
  good; deletion is final; a private badge, and only a private one, has a code;
  a commit touches only what its request changed.
- *Tokens*: at most one live verification token per user; a token is used once.
- *Lockout*: at most five verified guesses per window; every lock ends.
- *Assets*: a row never points to a deleted asset; no asset is lost track of.
- *Accounts*: one account per address and per Google account; nobody is left
  without a way to sign in; a state serves one callback.
- *Notifications*: whoever wants it is told of every creation; counters,
  notifications and the dashboard agree; turning pages misses nothing.
- *Digests*: a job serves everyone who is to be served, once a period, with
  true numbers, and ends.
- *Newsletter*: the unsubscribe link that was mailed works.

## 2. Modules

| Module | Models |
|---|---|
| `Sessions` | the sign-in sessions |
| `SessionPromise` | abstract: what signing in and out promises the people who do it |
| `MCSessions` | `Sessions` for TLC (symmetry) |
| `Sessions_proofs` | theorems about `Sessions` |
| `Sessions_sequential` | theorems about `Sessions` when requests do not overlap, and the proof that it then implements `SessionPromise` |
| `Badges` | an organiser's badges |
| `BadgePromise` | abstract: what a badge promises the people who have its link |
| `MCBadges` | `Badges` for TLC (symmetry) |
| `Badges_proofs` | theorems about `Badges` |
| `Lockout` | the counter of failed sign-ins of one address |
| `Lockout_proofs` | theorems about `Lockout` |
| `EmailTokens` | one-time links for verification and password reset |
| `MCEmailTokens` | `EmailTokens` for TLC (symmetry) |
| `EmailTokens_proofs` | theorems about `EmailTokens` |
| `Badges_refinement` | the proof that `Badges`, with one handler, implements `BadgePromise` |
| `Requests` | what the modules below share: requests as coroutines |
| `Notifications` | preferences, in-app notifications and their listing |
| `Participation` | badges as participants and administrators see them: creations, shares, counters, templates, deletions |
| `Digests` | the worker's two cron jobs, over `Participation` |
| `MCDigests` | `Digests` for TLC (what there is at the start) |
| `Digests_proofs` | theorems about `Digests`, and about the requests that run beside it |
| `Accounts` | the users table and sign-in with Google |
| `Assets` | logos and photos: database row and Cloudinary asset, over `Accounts` |
| `Newsletter` | one address's subscription |
| `Site` | `Assets` and `Newsletter`, served by one application |
| `MCSite` | `Site` for TLC (two Google accounts, what there is at the start, symmetry) |
| `Site_proofs` | theorems about `Site` |

### Sessions

A request handler is a coroutine. Each action is what one handler (`p \in
Procs`) does between two awaits that touch shared state; every other handler
may run at each of these points. `pc[p]` is the point it stands at and `loc[p]`
what it has loaded.

| Actions | Code |
|---|---|
| `SigninRead`, `SigninCommit` | `signin`, and the same row added by e-mail verification and the Google callback |
| `RefreshRead`, `RefreshBlacklist`, `RefreshCommit` | `refresh_session`: checks, blacklisting of the old access token, the commit of both rows |
| `ReuseRead`, `LogoutAll`, `ResetPassword`, then `BulkSnapshot`, `BulkApply` | reuse detection, `revoke_all_user_sessions`, `reset_password`: one bulk UPDATE or DELETE |
| `Logout`, `LogoutCommit`, `Blacklist` | `logout_session` |
| `ChangePassword`, `ChangePasswordCommit`, `ChangePasswordLogout` | `change_password`, which ends in `logout_session` |
| `DeleteProfile`, `DeleteCommit` | `delete_profile` and the cascade |
| `Abort` | a crash, a disconnect, or a rollback (StaleDataError, foreign key) at any await |
| `Tick` | time |

Abstractions. The access and refresh token of one response are one element of
`Tokens`; a family is named by its first token; the clock moves in steps of two
and expiries are odd, so that "before" and "after" are each other's negation. A
bulk statement is two steps because READ COMMITTED takes the statement's snapshot
when it starts and each row as it is when it gets to it. A commit of loaded
objects is one step. `origin`, `closed` and `late` are history variables: they
record who rotated what and which families a revocation committed for, and no
guard reads them.

`SessionPromise` knows sessions, not tokens: a session has a `state` (absent,
open, lapsed, ended), an account (`who`) and one `key` at a time, and `given` are
the keys that have been handed out. `Open` and `Renew` hand out a key nobody has
had; `Lapse` is time passing; `End` and `EndAll` end one session or those of one
account for good. `State`, `Who` and `Key` in `Sessions` are the refinement
mapping: a session is the family of a sign-in, its key the family's one unrevoked
token, and it has lapsed when that token has expired (logout-all passes over
those, a reset does not).

### Badges

`PublishRead`, `UnpublishRead`, `DeleteRead`, `EditRead` and `DuplicateRead`
are the part of a request up to its commit: the SELECT, the checks, the
assignments to the object (`Published`, `Unpublished`, `Deleted`, `Edited`,
`Copy`). `Commit` is the UPDATE SQLAlchemy then issues. It sets exactly the
columns whose new value differs from the value that was *loaded* (`Write`), in
whatever row it finds. `Insert` adds a duplicate, `Create` a new badge,
`DeleteOrganiser` is the cascade of an account's deletion and `Abort` any
failure. Hashtag rows carry the request that inserted them, so that a mixture of
two lists can be told from one list.

`BadgePromise` has three variables per badge: its `state` (absent, draft, live,
gone, removed), its `link` and its `keys`, the codes that open its page. `State`,
`Link` and `Keys` in `Badges` are the refinement mapping.

Not in the module: the logo (`Assets`), the counters and the template that a
badge is made from (`Participation`), and the text fields, which no rule relates
to anything.

### Lockout

One Redis key: `count` and `ttl`. A sign-in is `Check` (GET, in
`check_lockout`), then `Wrong` (INCR) or `Right` (DEL), then `Expire` if it
counted the first failure; any other sign-in runs between these steps, and
`Abort` ends one at any of them. Keys of different addresses are independent, so
one is modelled. A sign-in that is refused changes nothing and has no action.
`lost` and `shared` are history: a sign-in died between INCR and EXPIRE; two
were under way at once.

### EmailTokens

`Signup`, `Resend` and `Forgot` ask for a link; `Lookup`, `Revoke` and `Unindex`
are the three Redis commands of `revoke_previous_verification_token`; `Store`
and `SetIndex` the two of `store_verification_token` (a reset token has the
first only); `SignupCommit` and `SendMail` follow. `Click` is the GETDEL of
`verify_email` and `reset_password`, `Load` the check of the account and `Use` the
commit. What `Use` does to sessions is in `Sessions` (`SigninCommit`,
`ResetPassword`). A key carries the time it has left, so that the index can
expire before or after its token. `left`, `mailed`, `clicked`, `uses`, `newest`,
`asked` and `shared` are history: what the mails promise, and what became of it.

### Requests

`pc[p]` and `loc[p]` again: where request `p` stands and what it holds. `Accept`
starts one, `Goto` moves it to its next await, `Finish` ends it; `AtOnce` is a
request whose only effect is one statement, which needs no steps. The modules
below EXTEND it and are composed by sharing these variables: a slot that is busy
with an upload is not free for a sign-in.

### Notifications, Participation, Digests

Three layers over the same tables.

| Actions | Code |
|---|---|
| `SavePreferences`, `MarkRead`, `MarkAllRead` | `update_notification_preferences` (an upsert), `mark_notification_read`, `mark_all_notifications_read` |
| `WalkStart`, `WalkSlice`, `WalkNext`, `WalkEnd` | a client that turns the pages of `list_notifications`: the count, the select, the next link |
| `CreateBadge`, `Duplicate`, `CreateCommit` | `create_badge` and `duplicate_badge` up to and with the commit that also counts in the template |
| `Publish`, `Unpublish`, `DeleteBadge` | the organiser's writes, one step here (their overlaps are in `Badges`) |
| `Count`, `AlertRead`, `CountCommit` | `increment_badge_creation_count`: the UPDATE, whose row lock stays, the preferences, the insert and commit |
| `Share`, `ShareCount` | the share and its background task |
| `DeleteAccount`, `Cascade`, `Resolve` | the DELETE of a user with its cascade, and PostgreSQL ending one of two that wait for each other |
| `CreateTemplate`, `UpdateTemplate`, `DeleteTemplate` | `services/admin.py` |
| `JobStart`, `JobOwners`, `JobTargets`, `JobCounts` | the four queries of a job |
| `DailyLook`, `PerDay`, `WeeklyLook`, `Send`, `JobDone`, `JobCut` | its loop: the busiest day, the preferences, insert and commit; the end; the worker stopped |

Abstractions. The clock counts half days: before 20:00 UTC and after; day 0 is a
Sunday, so that a day modulo 7 is PostgreSQL's `dow`. `begun` numbers the
transactions: `now()` is when a transaction began, and orders notifications. Row
locks appear where they make something wait: `Held` (a badge whose creation has
not committed) and `Going` (an account whose deletion has not). The dashboard
(`Analytics`) is computed from the rows, as the code does. `torn`, `base`, `due`
and `refused` are observations, which no guard reads.

A behaviour begins with organisers who have badges and creations, with one of
the two jobs still to be run that day: the jobs share no more than the tables and
neither reads what the other writes. arq
runs a cron job once, whether or not it succeeds, so a run that fails or is cut
is not repeated.

### Accounts, Assets, Newsletter, Site

| Actions | Code |
|---|---|
| `Signup`, `VerifyEmail`, `ResetPassword`, `ChangeEmail` | the writes to a `users` row that Google sign-in may meet (their links and sessions are in the other modules) |
| `GoogleStart`, `StateExpires`, `Callback` | `build_google_auth_url`, the TTL, GETDEL |
| `Exchange`, `FetchUserInfo`, `GoogleFails` | the two calls to Google, and any failure |
| `FindProvider`, `SignInLinked`, `MatchEmail`, `GoogleInsert`, `GoogleLink` | `_upsert_google_user`: its queries and the two commits |
| `LogoLoad`, `Upload`, `UploadFails`, `LogoCommit`, `LogoCommitFails`, `Clean`, `Drop` | `upload_badge_logo`: load, upload in a thread, commit, clean-up, deletion of the old asset |
| `PhotoLoad`, `PhotoCommit`, `PhotoRemove`, `PhotoNone` | `update_profile_photo`, `remove_profile_photo` |
| `BadgeLoad`, `BadgeBury` | `delete_badge` with its logo |
| `AccountLoad`, `AccountLogos`, `AccountDelete`, `Sweep` | `delete_profile`: two queries, the cascade, the deletions at Cloudinary, each of which may fail |
| `TemplateDelete` | the cascade of a template's deletion, which leaves its badges' logos |
| `AssetsFail` | a crash or failure at any of these awaits |
| `Subscribe`, `SubscribeCommit`, `Refresh`, `Mail`, `MailFails` | `subscribe` |
| `Unsubscribe`, `Leave` | `unsubscribe` |

A URL is a path of `Segments` and a file; `PublicId` is the parsing of it: what
follows "upload" without the version. A Cloudinary public id is a folder and a
file, and uploads are named at random. A commit writes the columns that differ
from what was *loaded*, in the row as it is. A commit may fail, or happen and its
answer be lost; the code cannot tell and cleans up in both cases: `doubt` notes
the assets deleted in the second. `leaks` notes the assets that lose their
row for one of four causes: a call or commit that failed or died, two requests
that overlapped on one row, a template's deletion, Google's new picture.

`Site` composes the two: every action of one leaves the other's tables alone and
competes for the same request slots.

## 3. Runs

| Run | Shows |
|---|---|
| `sessions` | What holds of every interleaving of two handlers: `RotatedIsDead`, `SiblingsOverlap`, `SurvivorsAreLate`, `AccessDeadBeforeRotation`, `NoOrphanSessions`, `RevocationFinal`. |
| `sessions_sequential` | Without overlap, with crashes: `SessionPromise` is implemented (`PromiseKept`), and `EndedMeansDead`. |
| `sessions_overlap` | Finding: with overlap `EndedMeansDead` fails. |
| `sessions_password` | Finding: a password change leaves the user's other sessions. |
| `badges` | What holds of every interleaving of two requests: `PublishedHasSlug`, `SlugsDistinct`, `DeletedFinal`, `EditsKeepPublication`. |
| `badges_sequential` | Without overlap: `BadgePromise` is implemented, and `DeletedUnpublished`, `CodeIffPrivate`, `OneHashtagList`, `SlugStable`. |
| `badges_overlap` | Finding: with overlap `SlugStable` fails. |
| `lockout` | Three sign-ins at a time: `GuessesBounded`, `CounterTimed`, `LockEnds`; `LimitExact` while they do not overlap. |
| `lockout_crash` | Finding: the lock the e-mail calls temporary may never end (`LockTemporary`). |
| `email_tokens` | Two requests at a time: `UsedOnce`; while they do not overlap `OneLiveLink` and `NewestLinkWorks`, crashes and expiry included. |
| `digests` | Two requests at a time around a run of either job: `CountersAgree`, `WalkSeesAll`, `JobServes`, `DigestsHonest`, that each step of a job brings it nearer to its end (`JobAdvances`), and that it ends (`JobEnds`). |
| `site` | Two requests at a time, failures at every await: `AccountsSound`, `AssetsStored`, `NothingLeaks`, `LinkWorks`. |

Bounds. *Sessions*: three pairs allow a sign-in and two refreshes that race for
one token, or a chain of two rotations and a survivor; two handlers give every
pairwise race (a third adds no new pair; the proofs cover any number); five
calls are a sign-in and four further requests; four units of time let an access
token (2) and a refresh token (3) expire and the grace period pass. Two
accounts appear only in the sequential run, where a request of one must leave
the other alone; there four pairs allow two sessions and a rotation of each, and
every step is compared with the abstract ones. *Badges*: two badges and two slugs let links collide; two codes
let one replace another; six calls are a creation, a publication and four more.
*Lockout*: the limit is 3 instead of 5, with three sign-ins at a
time, so that all of them can be past the check when the limit is reached; eight
let the counter pass the limit, expire and start again. *EmailTokens*: three
tokens are a sign-up's, a resent one and a reset's, or three verification links;
two units of life let a resend fall between the expiry of a token and of its
index. *Digests*: two organisers, a badge of each and a third that
can be made; four past creations, on the last Sunday, on Saturday and on the day
itself, put one inside and one outside each period; the clock starts on the
evening of day 7, a Sunday, when both jobs are due, and goes on to the next
morning; pages of two notifications, so that the first organiser's list has two pages; two requests
around one job are each pair of steps that can race. *Site*: two Google accounts
that report one address, one with a picture; an account that is verified with a
photo, or neither; a badge with a logo; four requests, of which two run at a
time; three more uploads than there are assets, so that two uploads can fail.
Requests are interchangeable (`Alike`). `MaxCalls`, `MaxTime` and the sizes of `Tokens`, `Badges` and `Slugs` are the
bounds of the models themselves. `CHECK_DEADLOCK FALSE` is in every
configuration because the models stop when the bounded calls have been served.

Fairness. `Lockout` claims that a lock ends (`LockEnds`). It assumes
that time passes (`WF(Tick)`) and that a sign-in whose INCR was answered goes on
to its EXPIRE or dies, which is what the event loop does with a coroutine
whose command was answered. `Digests` claims that a job ends (`JobEnds`). It
assumes that a job that has started goes on (`WF(JobStep)`), and that a creation
or a deletion that holds a row's lock commits or is ended by PostgreSQL's
deadlock detector (`WF(RequestStep)`): the database gives locks back when a
transaction or its connection ends. Nothing is assumed of users, of pages being
turned, of the clock, or of which of two transactions is ended. In the other
components a request may stop at any await and nothing waits for anything: no
liveness is claimed.

## 4. Findings

1. **A revocation misses a refresh in flight** (`sessions_overlap`;
   `services/auth.py:430`). `reset_password` "revokes all active refresh tokens"
   (line 173) and reuse detection promises "all tokens in the family are revoked"
   (line 343). A refresh that loaded its token before the bulk statement's
   snapshot and commits after it adds a row the statement never saw.
   `SurvivorsAreLate` says that this is the only way: what survives was rotated
   by an overtaken handler or descends from such a token.
2. **A password change keeps other sessions** (`sessions_password`;
   `services/profile.py:253`). The route's description says it "invalidates
   other active sessions" (`routers/v1/profile.py:391`); only the presented
   pair is logged out.
3. **Two first publications give out two links** (`badges_overlap`;
   `services/badge.py:147`). "The slug is preserved across re-publishes"
   (`routers/v1/badges.py:412`); two overlapping first publications both
   generate one, and the second commit replaces the first.

4. **A lock that never ends** (`lockout_crash`; `services/auth.py:541`). The
   e-mail says "locked for $minutes minutes. Please try again after that time"
   (`services/email_templates/account_lock.html:130`). If the sign-in that
   counted the first failure dies between INCR and EXPIRE, the counter never
   expires, and once at the limit every sign-in is refused. `CounterTimed` says
   that this is the only way.

Two more disagreements need no run of their own. Overlapping sign-ins pass the
limit that the route states ("locking accounts after 5 consecutive failures"):
`LimitExact` holds while they do not overlap, `GuessesBounded` is what is left.
Overlapping requests of a link leave two that work, though resending "revokes any
previously outstanding verification token" (`services/auth.py:138`):
`OneLiveLink` holds while they do not overlap.

What the models show and no text of the repository denies: creations between
20:00 and midnight are in no daily digest; an organiser whose *first* preferences
are saved between a job's queries is left out of that run (`JobServes` says
"untouched"); an account deleted during a run ends it for the organisers that
come after; a logo commit taken for a failure leaves a row whose asset is gone
(`doubt`); a template's deletion and a new Google picture leave assets behind
(`leaks`); an unsubscription that overlaps a new subscription ends the new one.

## 5. Proofs

TLC checks small instances; the theorems hold for every set of users, tokens,
badges and handlers and every setting of the lifetimes, under the assumptions
`SessionsAssumption`, `BadgesAssumption`,
`LockoutAssumption`, `EmailTokensAssumption`, `AccountsAssumption`,
`EarlyAssumption`, `AssetsAssumption`, `NewsletterAssumption`, `RequestsAssumption`,
`NotificationsAssumption`, `ParticipationAssumption`, `BadgeAssumption` and
`DigestsAssumption` (the null value is
no member of the other sets, numbers are naturals, lifetimes are odd, the tables
that a behaviour begins with are ones the program makes), which TLC evaluates.

`Sessions_proofs`. The invariants are not inductive as they stand: a handler
commits what it read earlier, so what it holds must be tied to the tables.

- `HandlerInv` (types, rows belong to present users, what a handler holds is
  still true of its row as far as it needs) gives `TypeCorrect` and `NoOrphans`.
- `RotationInv` adds that a token with a child is revoked or gone, that a handler
  about to rotate is not the one that rotated the token before, and that it has
  blacklisted the access token; it gives `RotationSafe`, `AccessTokensDie` and
  `RevocationIsFinal`.
- A third invariant says which tokens a bulk statement under way will still
  miss; it gives `RevocationComplete` (`SurvivorsAreLate`).

`Sessions_sequential`. Under `OneHandler`, `SeqInv` says that a family has one
unrevoked row, that the token a handler is rotating is still that row, and that a
bulk statement under way has every token in its snapshot. A refresh then swaps
the unrevoked row for another and a revocation misses nothing
(`OneTokenPerSession`, `RevocationTotal`), wherever requests break off.
The refinement of `SessionPromise` needs two facts more (`PInv`): every row
belongs to a family that a sign-in opened (`RootsOK`), and what a bulk statement
has chosen is still what it is for, all of it but what has expired since
(`Chosen`). A step that only strikes rows ends exactly the sessions that had
their one unrevoked row among them (`EndedIs`), which makes logout, reuse detection,
logout-all, a reset and the cascade cases of one lemma (`EndImplements`);
`SessionsKeepPromise` follows.

`Badges_proofs`. `Inv` says of the object a request has loaded that it agreed in
`is_published` and `published_at` and was not deleted, that the assignments keep
that, only ever add a slug, and publish nothing without one, and that the row has
not lost its slug since. That is what a column-wise UPDATE needs:
`LinksWork`, `StampKept`, `DeletionIsFinal` and `EditsAreNarrow` follow for any
number of overlapping requests. `SInv` adds, under `OneHandler` (no two requests
overlap), that the loaded object *is* the row; `SequentialRules` and
`SequentialLinks` follow, and `Badges_refinement` shows step by step that the
mapped behaviour is one of `BadgePromise` (`KeepsPromise`).

`StampKept` and `OneTokenPerSession` state `PublishedStamped` and
`OneActivePerFamily`, which no run checks on its own: the first is part of `Inv`,
and the second follows from the run of `PromiseKept`, where the key of a session
is its only unrevoked token.

`Lockout_proofs`. `Budget` counts the counter together with the sign-ins that have
passed the check and not been counted: each passed when the counter was below the
limit, so the sum stays below the limit plus the number of sign-ins at a time
(`GuessesLimited`). `Alone` gives the exact limit (`LimitKept`), and
`CounterExpires` is inductive with the types.

`EmailTokens_proofs`. `OnePlace`: a token is in Redis, or held by one request, or
used, or not yet generated; GETDEL moves it from the first to the second
(`LinksWorkOnce`). `Calm` is what holds while requests do not overlap: every mailed
token that works is the one that its user's index leads to, and the index lives
at least as long (`Covers`), so that the next request finds what it has to revoke;
the request under way keeps its new token to itself until the mail; a crash
between two commands leaves nothing else, because what it leaves was not mailed
(`LinksReplaced`, `NewestLinksWork`).

`Site_proofs`. `SiteInv` has a part per component, each inductive given the types.

- `AccountsInv`: a callback being served has taken its state, and one about to link
  an account that it found verified still finds it so. With the unique
  constraints that gives `AccountsAreSound`.
- `AssetsInv`: an asset is shown by at most one row (`OneRow`); what a request has in
  hand is shown at most where that request means to replace or delete it
  (`HandOK`, one conjunct per kind of request): so whatever it deletes, nobody else
  shows (`AssetsAreStored`). `Accounted`: what is in Cloudinary is shown, noted as
  lost, or in the hand of a request (`NothingIsLeaked`).
- `NewsInv`: the row's token has been mailed, or a request is about to
  (`LinksWork`).

`Digests_proofs`. `Typed` ties what a request or a job holds to the tables: a
creation that is being counted holds a row that is there, because whatever deletes
badges waits for it (`Holds`). `Works` restates the job's steps by the fields they
change.

- `Tickets`: the time of a transaction under way is no notification's yet, no other
  transaction's, and none that a client turning pages waits for; with it
  `DigestsTypeCorrect`.
- `NotesMove`: in a step each notification stays, but for its read mark, as long
  as its user does, and at most one comes. The place of a notification in the
  listing therefore never falls (`PlaceGrows`), so that pages numbered by offset
  pass over none. `WalksOK`: what was there when the client began has been seen or
  stands beyond the pages shown; the last page has no next link only when nothing
  stands beyond it, provided its count was still right when it was cut
  (`PagesShowAll`).
- `Once`: whom a run may still write to has nothing of its day yet. `Honest`: what a
  run has counted was there, and the weekday in its hand is the busiest unless
  more has come since (`DigestsAreHonest`).
- `Serves`: from query to query the run has in hand, in a different place after each
  (`InHand`), everyone it had something for who has left preferences and badges
  alone; a row that was saved since has a later time, which is how `LeftAlone` tells
  (`JobsServe`).

- `Ledger`: a notification about a badge is its owner's (`Filed`); a badge has no more
  of them than its counter, and as many if the owner never saved preferences
  (`Booked`), for which the request that has counted and is about to insert must still
  mean to tell such an owner (`Telling`); a template's total is the number of badges
  that name it (`Totals`). From a badge to the dashboard it is a sum over the
  organiser's badges, a fold whose value would need an induction over sets. The
  sum is reached without one: `SumExists` exhibits the function that the fold's
  recursion defines, and `SumOfFibres` takes a smallest subset for which the sum
  is wrong, which the library's theorem on minimal elements provides (it has no
  operator for a parameter), and finds a smaller (`CountsAgree`).

- `Works` also shows the variant of the job's loop (`JobsAdvance`): every step of a run
  leaves it fewer organisers to serve or is at a later stage of the one at hand. What
  is left of `JobEnds` is that a step is taken, which the locks and the fairness
  decide.

Only model-checked: `LockEnds` and `JobEnds`: they are liveness, which tlapm does not
prove.

## 6. Not modelled

The contact form (two e-mails and no state), e-mail bodies and SMTP, the rate
limiter (a library: it bounds how often a request is served, not what it does),
the middleware, the sanitizer, configuration and wiring, seeds and migrations
are libraries, I/O or formatting without a rule between two pieces of state;
PROJECT.json gives the reason for each. Names, roles, categories, canvas data
and thumbnails are columns that no rule relates to another. The listing of
badges and of templates reads one query; the counts it shows are those of
`Analytics`.

What could be added: two overlapping jobs, should the worker ever be run twice.

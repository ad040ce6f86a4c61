# JusticeLynk backend (kipi-core-db): TLA+ models, checks and proofs

The repository is a NestJS API over PostgreSQL (Prisma), Redis and S3. Most of
its risk is not in a single handler but in handlers that run at the same time:
every one of them reads a row or a key, awaits, and then acts on what it has
read, and hardly any of them uses a transaction. The models therefore split a
handler at the awaits another handler could notice, and the properties are
about what overlapping, stopping half-way and repeating can do.

Paths below are relative to `src/src/modules` unless they start with `src/`.

## 1. Inventory

| Component | State it keeps | Operations | Interacts with | What makes it correct |
|---|---|---|---|---|
| Authentication and sessions (`auth`) | `users`, `user_security`, `user_sessions`; Redis `jl:auth:grace:*`, `jl:mfa:temp:*`, `jl:reset:session:*` | login, verifyMfa, refreshTokens, logout, resetPassword; JWT strategies | security, subscriptions (signs tokens), mail | rotation neither strands nor prolongs a session; a reset ends what the old password opened; closed sessions stay closed |
| Login lockout (`auth`) | `loginAttempts`, `lockedUntil` | login | - | a lock stops new logins, bounds the guesses and ends |
| One-time codes (`auth`) | Redis `jl:otp:verify:*`, `jl:otp:resend:*`, `jl:otp:pwd:*`; `isVerified` | register, login, resendOtp, verifyEmailOtp, forgotPassword, verifyForgotPasswordOtp | mail | a code serves once but for overlap and failure; resends are limited |
| MFA enrolment (`auth`, `security`) | `mfaEnabled`, `mfaSecret`, `mfaBackupCodes`; Redis `jl:mfa:setup:*` | setup, enable, disable, regenerate, backup-code sign-in | sessions | what the user was shown works, each code once |
| Security settings (`security`) | `user_sessions` | list, revoke one, revoke all | sessions | the caller's own sessions end |
| File storage (`storage`) | `file_storage`, `file_directories`; S3 objects | upload, move, copy, delete, list, sign URL, directories | organizations | rows and objects agree but for leading slashes; nothing is lost or mixed |
| Subscriptions and plans (`subscriptions`) | `subscriptions`, `subscription_plans`; Redis `jl:subscription:*` (a day) | subscribe, cancel, select-plan, plan CRUD | payments, sessions (new token pair) | row and Redis copy agree until the plan is renamed; a plan in use is not deleted |
| Payments (`payments`) | `payments`; Razorpay orders | createOrder, verifyAndActivate, webhook | subscriptions | one activation per paid order |
| Chat (`chat`) | in-memory online map and rooms; `case_messages` | connect, disconnect, join, leave, send, read, delete, typing | cases | the online list is the connected users; read marks are unique |
| Cases (`cases`) | `cases`, updates, assignments, documents | create, update, updateStatus, assign, documents | notifications, audit | a firm's cases are numbered without a gap until they are renumbered; changes leave their trail |
| Organizations (`organizations`) | organizations, members, invites | create, update, invite, acceptInvite, removeMember | - | an invite admits one; there is always an owner |
| Accounts and approval (`users`, `admin`, `professionals`) | `isActive`, `approvalStatus`, `deletedAt` | deactivate, toggle, approve | sessions, guards | a suspended or rejected account gets no further |
| Guards (`src/src/common/guards`) | - | read the token and a row, decide | accounts, subscriptions, MFA | decisions follow the rows |
| Notifications (`notifications`) | one row per notification | send, read, mark, clear | cases, payments | best effort: errors are swallowed |
| Audit log (`audit`, `src/src/common/interceptors`) | append-only rows | `AuditService.log`, `AuditInterceptor`, read by page | all | a change leaves its entries, and nothing else does |
| Modules catalogue (`modules`, `src/prisma/seed.ts`) | modules, features, actions, plans' references | seed, read | subscriptions | a finished seed leaves the definition |
| Pagination (`src/src/common/utils`) | - | cut a list by offset, answer a page | every list | a walk brings every row |
| Mail, filters, interceptors, bootstrapping | configuration, SMTP | - | - | - |

There is one process in the sense of the models: Redis and PostgreSQL are
shared, so two instances of the API only add requests in flight. Only the
chat gateway keeps state of its own (the online map and the rooms), which
`ChatPresence` and `ChatFeed` lose at a restart.

Hard behaviour, component by component, is listed under `hazards` in
`PROJECT.json`, each at the line where it bites.

## 2. What is modelled

| Module | Models | Extends or uses |
|---|---|---|
| `AuthSessions` | sessions, rotation with grace keys, MFA step of a sign-in, select-plan pairs, logout and revocation, password reset, expiry, crashes | - |
| `SessionLedger` | abstract specification: a session id is fresh, then open, then closed | implemented by `AuthSessions` |
| `MCAuthSessions` | symmetry for checking | `AuthSessions` |
| `LoginLockout` | counter, lock and its expiry, logins judging snapshots | - |
| `OneTimeCodes` | email and password codes, resend counter | - |
| `MfaEnrolment` | secret, backup codes, set-up key | - |
| `FileStorage`, `MCFileStorage` | rows against S3 objects, leading slashes of keys; symmetry for checking | - |
| `Handlers` | slots for requests in flight | used by the modules below |
| `Accounts` | registration by its four routes, email code, sign-in gates, administrators' decisions | `Handlers` |
| `Billing` | plans, subscriptions with their Redis copy, orders and payments | `Handlers` |
| `Catalogue` | the seed, statement by statement, against releases, crashes and edited plans | `Handlers` |
| `Commerce`, `MCCommerce` | `Accounts`, `Billing` and `Catalogue` together, for checking; symmetry | those three |
| `ChatPresence` | connections, the online map, what each tab believes of it | `Handlers` |
| `ChatFeed` | messages, read marks, deletions, the room's announcements against pages of history | `Handlers` |
| `CaseRecords` | case numbers, changes of a case, both audit trails | `Handlers` |
| `Listings` | paging by offset through a list that changes | - |
| `Collaboration`, `MCCollaboration` | `ChatPresence`, `ChatFeed`, `CaseRecords` and `Listings` together, for checking; symmetry | those four |
| `*_proofs` | theorems about the module of that name; those of `Commerce_proofs` and `Collaboration_proofs` are about the modules these compose, but for `Accounts`, which has `Accounts_proofs` | that module, TLAPS |

A request in flight is a slot of a function (`req`, `billReq`, `acctReq`,
`chatReq`, `call`; `seed`, `socket` and `page` are the seed script, connections
and walks): its `pc` names the step it is about to take, its other fields are
the values the handler has already read. An action is one database, Redis or S3 round trip of
a handler (with the purely local code around it), named after the handler and
the step: `RefreshRead`, `RefreshWrite`, `RefreshAnswer`.
Variables the program does not have are listed as history variables in each module and are never read by a
guard that models code (except to draw an identifier that is not in use, as a
uuid does).

Where handlers can stop differs by module, and so do the actions that say it.
A handler that merely never takes its next step is in every module, since no
handler is obliged to; the actions below also give its slot back, or do more.

| Module | What stops | Action |
|---|---|---|
| `AuthSessions` | the process, at any step: every handler in flight | `Crash` |
| `LoginLockout` | a login between the counter and the lock; elsewhere a failed login has written nothing | `AbortLock` |
| `OneTimeCodes` | one handler, at any step | `Fail` |
| `MfaEnrolment` | one handler, at any step | `Abort` |
| `FileStorage` | one handler, at any step | `Fail` |
| `Accounts` | one handler, at any step | `AccountsFail` |
| `Billing` | one handler, at any step | `BillingFail` |
| `Catalogue` | the seed, at any step | `SeedCrash` |
| `ChatPresence` | the process, which loses the map and the sockets | `Restart` |
| `ChatFeed` | a handler whose deletion or mark is refused; the process | `ChatFail`, `ChatRestart` |
| `CaseRecords` | a call whose change is refused, one whose history entry is; an audit insert; the process | `CaseFail`, `HistoryFails`, `LogEntry`, `ProcessEnds` |
| `Listings` | nothing: its handlers only read, and a walk that stops has not finished | - |

### AuthSessions

`sess` is `user_sessions` by id with the hash of its current refresh token;
since both JWTs of a pair carry the same claims, a pair is its claims and issue
time (`Token`), and the stored hash is the pair itself. `pwd` is the version of
the password hash; `grace`, `temps` and `resets` are the Redis keys. The model
keeps the surprising parts of the code: the row found through a grace key comes
without its user, so signing fails and the refresh is refused
(`RefreshGraced`, `RefreshRefused`); every refresh signs
`mfaVerified = true`, however its session was opened (no route carries the
guard that reads the claim, and no property is about it); select-plan signs a
pair for the session of the caller's token without touching the row (`aside`).

The lockout, code and approval gates of the handlers change none of these
variables; a request that passes them is a choice of the environment.

### LoginLockout

`lockLeft` is the time `lockedUntil` is away, counted down by `Tick`.
`attempts` saturates at the limit: the code compares it with the limit only.
A login takes a snapshot of the row (`Start`), and after bcrypt writes
according to that snapshot (`Wrong`, `Lock`, `Right`); `AbortLock` is the
failure between the counter and the lock.

### OneTimeCodes

Codes are numbered in the order they are generated; a key holds a number or 0.
`Expire` drops any key at any time, which covers every time to live. The
production setting is modelled (no master code). `Fail` stops a handler at any
step. `verifyForgotPasswordOtp` stores a reset token (`ForgotMint`) and then
deletes the code (`ForgotDone`): stopped between the two it leaves the code in
its key, to buy another token, and `stranded` counts how often that happened to
a code. Overlapping calls may serve one code several times, too. `UsesBounded`
says that this is all: a code signs in no more often than requests can be in
flight, and buys no more tokens than that but for one more for each stranded
request.

### MfaEnrolment

`sec` is the MFA part of `user_security`. Backup codes are a set: hashes of
random codes do not repeat. Enabling, disabling and regenerating replace the
list (`Retire` records which codes die), a backup-code sign-in writes back the
list it has read without the code.

### FileStorage

A key is a directory path and a name; names are uuids minted with the row's id,
so `Files` serves as both, and content is named by the upload it came from. The
caller of move and copy gives the path as any string, so a directory is a path
and the number of slashes it begins with (`Dirs`). `copyFile` takes one slash
off either key (`Bare`); deletion, upload and the row keep the key as it is.
Sent to `/docs` a file is therefore stored where its row does not lead
(`SlashedMove`), and a second move copies one key and deletes another. Reading
the row does not look at its status, as in `findFileById`. S3 copy of a missing
object fails, and so does that of an object onto itself; deletion of a missing
one succeeds. `Taken` is the UNIQUE column `storageFileName`. A directory
deletion removes only its own row.

The exceptions of the properties are kept file by file: `contested` files were
moved or deleted by two requests together, a request of a `halted` file
stopped half-way, a `slashed` one was sent to a path with a leading slash.
`StoresAgree` speaks of every other file, whatever happens meanwhile to these;
`NothingDestroyed` excepts neither `halted` nor `slashed` files, and
`ContentNeverMixed` none at all.

### Accounts

One row per address, with the fields a gate looks at. The four registration
routes differ in kind, approval and in whether a profile or firm comes with
the account (`Fresh`); the lookup (`RegisterRead`) and the insert
(`CreateAccount`) are two steps with the hashing between them, and the unique
address decides a race. A login judges the snapshot it read before bcrypt
(`SignInRead`, `SignInJudge`); the MFA token it may answer is not judged again
(`MfaRead`). Administrators look an account up and write it in two steps
(`DecideRead`, `DecideWrite`), but for the routes of `admin`, which write at
once and activate on approval, deleted rows too. The history variable `epoch`
counts how often an account went from admissible to refused; each session
carries the epoch of its password check.

### Billing

`row` is a user's subscription, `copy` the key `jl:subscription:{userId}`
written after it. The copy names its plan by the slug, which is made from the
plan's name and rewritten when the plan is renamed (`UpdatePlan`) without a
look at the copies: `outdated` holds the users whose plan that happened to
since they subscribed. Of what else the copy holds (module keys, limits, the
end of the period) nothing is kept: it is as old as the slug. A deletion counts the subscribers that have not canceled
(`DeleteCount`) and then deactivates or deletes (`DeleteApply`), where the
foreign key has the last word. `verifyAndActivate` completes the payment,
subscribes and notifies in that order. It reads its secret under
`payment.razorpayKeySecret`, while the configuration registers
`payment.razorpay.keySecret`: as deployed, verification throws. `KeySecretSet`
says which; the run checks the code with the secret set, and with it unset
`VerifyRead` is never enabled. `disturbed` holds users whose calls overlapped
or failed, which is what `CopyMatchesRow` and `PaidIsServed` except;
`CopyMatchesRow` excepts the slug, not the status, of `outdated` users.

### Catalogue

`release` is the definition in the deployed `seed.ts`; a run of the seed keeps
the one it started with. Every `deleteMany` and `upsert` is an action, with the
cascades of the schema (`Drop`), in any order the loops could be written in. A
crash leaves the tables as they are. Administrators save plans between the
statements (`SavePlan`, one transaction).

### ChatPresence and ChatFeed

A connection is verified across an await; it may close meanwhile, and events
sent without waiting already pass `WsJwtGuard`, which sets the user that
`handleDisconnect` looks for. socket.io delivers what the server emits in
order, so a tab takes an event in when it is emitted. Of the map only its keys
are read, so the model keeps a set. `Restart` drops map and sockets.

In `ChatFeed` a handler writes its row and only then announces it (the audit
entry is awaited in between), and a page of history travels on its own HTTP
connection. The browser is not in the repository and is modelled as external:
it joins the room, then reads history, adds what it is told of, removes what it
is told is deleted. `crossed` records messages deleted while a copy was on its
way, `overlapped` readers with two overlapping calls.

### CaseRecords

A case is known by the call that created it, as a row is by its id; it holds a
number (a prefix of its firm's id and a count made before the insert), its
firm, status, date of deletion and lawyers. Firms in `SamePrefix` share the
prefix. The bodies of two routes are not validated, since their TypeScript
types leave no class at run time: `PATCH cases/:id` writes what it is given, so
`Update` may give a case any free number, firm, status and date of deletion,
and `renumbered` notes the firms concerned; `POST cases/:id/documents` makes a
row if the body names the table's columns (`AddDocument`) and fails if it does
not (`CaseFail`). A status change writes the status and then fails on its
history entry, since `addUpdate` names columns the table lacks whatever the
caller sent (`HistoryFails`), so it is neither notified nor logged.
`AuditService.log` is awaited and swallows its failure, and is not called for a
document; the interceptor's insert is not awaited, and its failure ends the
process as an unhandled rejection (`ProcessEnds`). `mishap` holds the calls
that a lost insert or the end of the process concerned: what happens to one
call does not excuse another.

### Listings

Five lists stand for all: the audit log, the inbox, a firm's open cases, the
marketplace and the queue of pending professionals. The rows a query selects
are a set; the order it reads them in is the place each has by its time of
creation (`Place`), and a page is the set of rows with places between two
multiples of the page size (`Items`). `FindMany` and `CountRows`
are the two queries of a page, in either order; `Answer` is
`buildPaginatedResponse`. The client is external: it asks for pages while
the answer says there is a next one.

## 3. Runs

| Run | Instance | Checks |
|---|---|---|
| `SessionRotation` | 1 session, 2 requests, session life 2, access life 1, clock to 4, 1 crash, no resets | `SessionLifetimeBounded`, `CurrentTokenWasSent` |
| `PasswordReset` | 1 user, 2 sessions, 2 requests, 1 temporary and 1 reset token, 2 password changes, 1 crash, clock fixed | `TypeOK`, `ResetEndsOldSessions`, `ImplementsLedger` |
| `LoginLockout` | 3 requests, limit 3, lock 2, 1 lost lock | `TypeOK`, `LockStopsNewLogins`, `GuessesBounded`, `LockAlwaysEnds` |
| `OneTimeCodes` | 2 requests, limit 2, 6 email and 2 password codes, 2 stranded requests a code | `TypeOK`, `UsesBounded`, `ResendLimitSerial`, `EmailSignInOnce` |
| `MfaEnrolment` | 2 requests, lists of 2, 2 set-ups, 2 lists, 1 abort | `TypeOK`, `BackupCodeOnce`, `ShownFactorsWork`, `DeadCodesStayDead` |
| `FileStorage` | 2 files, 2 paths with up to 2 leading slashes, 2 requests in flight, 5 in all, 2 failures; files, paths and slots interchangeable | `TypeOK`, `StoresAgree`, `NothingDestroyed`, `ContentNeverMixed` |
| `Commerce` | accounts: 1 address, 2 requests, 6 calls, 2 refusals; billing: 2 users, 2 plans, 3 slugs, 1 order, 2 requests, 4 calls; catalogue: 2 modules, 1 feature, 2 actions, 1 plan, 1 release, 1 edit, any number of crashes; slots, users and slugs interchangeable | `CommerceTypeOK`, `RefusedSignInsAreOlder`, `RegistrationsDoNotMix`, `CopyMatchesRow`, `SubscribersKeepTheirPlan`, `PaidIsServed`, `SyncedIsDefinition`, `SeedKeepsGrants` |
| `Collaboration` | presence: 3 sockets, 2 users; feed: 2 members, 1 message, 2 requests; cases: 3 firms, two with one prefix, 3 calls; lists: 4 rows, pages of 2; calls and the two firms interchangeable | `CollaborationTypeOK`, `OnlineIsConnected`, `ViewsAgree`, `InStepSeesAll`, `OnlyCrossedLinger`, `ReadersAreKept`, `ListedOnce`, `NumberedInOrder`, `RefusedHadRival`, `TrailIsTrue`, `WalkMissesNothing` |
| `ResetRace`, `GracePeriod`, `ResendRace`, `SlashedMove` | as the run they belong to, smaller | one documented promise each, violated |

Why these bounds are enough. Two requests give every pair of handlers in every
order; three in `LoginLockout` because the bound on guesses grows with them and
the interesting case needs one that is about to lock and two that still
compare. A rotation involves one session, so `SessionRotation` has one and
spends its states on time: the clock passes the session's expiry and one more
access lifetime. `PasswordReset` needs two sessions (one opened before the
reset, one straddling it); its clock stands still and its access lifetime is 0,
which leaves select-plan to the other run: what select-plan signs is no
session row and no reset looks at it. Two password changes let an older reset
sweep after a newer one. Six codes are the first code, more resends than the
limit and two more. Two files and two paths let every object have another
place to be and another file to be mistaken for; two slashes are one that a
copy drops and one that it leaves. Five requests are an upload, a copy, two
moves and a deletion.

`Commerce` and `Collaboration` hold several components whose tables are
separate: no action of one changes or reads a variable of another. Each
behaviour lets one of them run, named by `focus`, while the others stay in
one initial state, up to the choice of slugs; the steps of different components commute, so nothing that
an invariant of one component could see is left out, and the product of their
state spaces need not be searched. Two users and two plans let a subscription
move while another holds its plan; one address is enough because no property
of `Accounts` relates two. Four calls are a subscription, a cancellation and a
deletion racing with a fourth, or order, payment, withdrawal and verification.
Three slugs are those of two plans and one to rename to. The
billing part starts from every table of plans, with trials and without.
Two modules and a release let a feature move out of a dropped module. Three
sockets are two tabs of one user seen by another user. One message suffices
because no handler of one message reads another; the feed has also been
explored with three requests. Three calls on cases are two creations and the
update that renumbers or moves one of their cases, or three creations of firms
with one prefix. Four rows in pages of two give a full last page,
a part of one and a page that no longer exists.

Symmetry is sound where it is used: the properties of those runs are invariants
and, in `Commerce`, one action property, no action chooses among the
interchangeable values, and none of them is ordered.

Some promises hold only while requests do not overlap. `overlap` records
whether any step was taken while another request was in flight, and such a
property says `~overlap =>`: one run then checks both kinds. The newer modules
name the exception more closely (`disturbed`, `outdated`, `stranded`,
`contested`, `halted`, `slashed`, `blurred`, `crossed`, `overlapped`, `late`,
`renumbered`, `mishap`, `slid`): whatever such a variable does not name holds
under every interleaving.
`CHECK_DEADLOCK FALSE` is set where the bounds on codes, secrets, time and
identifiers can be used up with nothing left to do.

Each property of a passing run has a mutant in `PROJECT.json`: an operator of
the same module that changes one step as a plausible bug would.

Fairness. Only `LoginLockout` has a liveness property, under
`WF_vars(Tick)`: time passes. No handler is assumed to finish and nobody is
obliged to log in, and yet a lock always ends, since only logins already in
flight when the lock was set can renew it. The other modules are safety only:
the code has no background job and no handler is retried, so nothing else must
eventually happen; what a finished seed or walk has reached is stated of the
states in which it has finished.

### Disagreements with the documentation

* `ResetRace`: `auth.service.ts:561` promises to revoke all sessions on a
  password reset; a login that had already checked the old password opens its
  session after the sweep. `ResetEndsOldSessions` is what does hold.
* `GracePeriod`: the grace key of `auth.service.ts:604` is set but cannot be
  used, since the session it leads to has no user loaded.
* `ResendRace`: the limit of `auth.service.ts:400` counts overlapping resends
  once. `ResendLimitSerial` is what does hold.
* `SlashedMove`: `storage.service.ts:139` and `:141` say that a move copies the
  object to its new key and points the row at that key; of a path with a
  leading slash the object's key loses the slash and the row's keeps it.
  `StoresAgree` and `NothingDestroyed` are what does hold.

## 4. Proofs

For every value of the constants:

| Theorem | Argument |
|---|---|
| `AuthSessions_proofs`: `TypeCorrect`, `ResetEndsOldSessionsHolds`, `CurrentTokenWasSentHolds`, `SessionLifetimeHolds`, `ImplementsLedgerHolds` | `IInv` binds a live row to the sign-in that made it, with its first expiry (`RowBinding`); says no pair was signed after that expiry (`TokenBound`); that a rotation in flight writes into the session it read (`Requests`); and that sweeps and rows never know a newer password than the stored one (`PasswordOrder`, `SweepOrder`). The ledger theorem maps each step to an opening, a closing or a stutter. |
| `LoginLockout_proofs`: `TypeCorrect`, `LockStopsNewLoginsHolds`, `GuessesBoundedHolds` | a login starts only without a lock, and setting a lock makes every login in flight a straggler. The bound is a count of request slots (`Counted`): below the maximum the counter has seen every guess; at the maximum no login starts that could guess without locking, so those that still may (`Low`) are paid for in advance, and every other guess leaves a request about to lock (`Locking`) or a lost lock |
| `OneTimeCodes_proofs`: `TypeCorrect`, `UsesBoundedHolds`, `ResendLimitSerialHolds`, `EmailSignInOnceHolds` | every code a key, a request or a count knows was generated (`Known`), so a new one is unspent. While a code is in its key it has served no one who is gone, but for stranded requests; once it is not, only requests that have read it are left to serve, and they are counted (`EmailBound`, `PwdBound`). Without overlap at most one request is in flight (`Alone`), resends answered are counted but for that one (`Counted`), and after the account is verified no code is on its way to the key (`Once`) |
| `MfaEnrolment_proofs`: `TypeCorrect`, `DeadCodesStayDeadHolds`, `BackupCodeOnceHolds`, `ShownFactorsWorkHolds` | no list a verification is about to write back holds a dead code (`HeldAlive`), and no code is dead before it is issued (`Issued`, `HeldIssued`). Without overlap, the codes in the list and the one a sign-in has taken out but not yet accepted are unused (`Unused`), the list read is the list stored (`Reads`), and what was shown, or what an enabling is about to show, is in force but for codes used or taken (`Exact`) |
| `FileStorage_proofs`: `TypeCorrect`, `ContentNeverMixedHolds`, `StoresAgreeHolds`, `NothingDestroyedHolds` | a row keeps the name minted with its id (`Named`), what is stored under a name is the content of that name's row (`ByName`), no two requests draw one name (`Fresh`), a request's row is never removed (`Known`). File by file (`PerFile`), of one that no two requests changed together at most one request is at work (`Alone`), what it has read still holds and at each of its steps the file has an object somewhere unless its deletion was asked for (`Fits`: a move copies before it removes); and if neither a stop nor a slash was met, its objects are exactly where the row and the step of its request lead to expect them (`Agrees`, `Expected`), whatever is done to other files |
| `Accounts_proofs`: `AccountsTypeCorrect`, `RefusedSignInsAreOlderHolds`, `RegistrationsDoNotMixHolds` | every place that holds the epoch of a password check (a session, an MFA token, a call between its gate and its session) holds one that was over or admissible when the password was accepted (`Over`), and no step forgets a row or an epoch (`Kept`). For registrations: only the insert that succeeded leads to an answer, to one at most, and none has been given before (`Answers`); the membership is that of the stored account (`Joined`); every other step is `Quiet` |
| `Commerce_proofs`, billing: `BillingTypeCorrect`, `SubscribersKeepTheirPlanHolds`, `CopyMatchesRowHolds`, `PaidIsServedHolds` | the upsert writes only a plan that exists, and a deletion by an older count removes only a plan that no row refers to; the types need that what a call has found is not deleted under it (`Found`). An undisturbed user has one call (`OneCall`), and the copy, or what that call is about to copy, is the row, but for the slug of a plan renamed since (`Copied`). A call for an order carries that order's plan (`Serving`), a plan off sale was withdrawn (`Withdrawn`), and no order id is drawn twice (`OneOrder`) |
| `Commerce_proofs`, catalogue: `CatalogueTypeCorrect`, `SyncedIsDefinitionHolds`, `SeedKeepsGrantsHolds` | a loop invariant of the seed, whatever it started from: after the deletions nothing undefined is left (`Cleared`, `Undefined`), and the loops have brought what they no longer have to do (`Loops`, `Bounds`, `Current`); administrators' steps do not touch the catalogue. What a plan loses is read off each statement and its cascades |
| `Collaboration_proofs`, presence: `PresenceTypeCorrect`, `OnlineIsConnectedHolds`, `ViewsAgreeHolds` | only a blurred user has two connections or one that closed while it was verified (`Single`) |
| `Collaboration_proofs`, feed: `ChatFeedTypeCorrect`, `ReadersAreKeptHolds`, `InStepSeesAllHolds`, `OnlyCrossedLingerHolds`, `ListedOnceHolds` | what a page or an announcement in flight carries is bound to the row: readers about to be shown are listed (`ReadersUnderway`), a page on its way to a screen that is not in step has every message or its announcement is to come (`Complete`), a deleted message is still to be announced, crossed a copy, or is nowhere (`Gone`), and an undisturbed reader is listed by one call only (`ReadOnce`) |
| `Collaboration_proofs`, cases: `CaseTypeCorrect`, `NumberedInOrderHolds`, `RefusedHadRivalHolds`, `TrailIsTrueHolds` | a creation under way holds the number its firm's count led to, unless it is late or the firm was renumbered, and firms are noted before either is broken (`Promised`, `Settled`); every case was made by a call of its own, so counts stay within the numbers there are (`Created`); how far a call has come is what it has written and logged (`Progress`) |
| `Collaboration_proofs`, lists: `ListTypeCorrect`, `WalkMissesNothingHolds` | while no row leaves, a row's place only grows, so the pages answered so far hold every row of the first listing up to their last place (`Received`); a total counts them all (`Counted`), so the last page holds the last of them (`Ending`); by arithmetic on places and pages for any page size |
| `Commerce_proofs`: `CommerceImplements`, `CommerceTypeCorrect`; `Collaboration_proofs`: `CollaborationImplements`, `CollaborationTypeCorrect` | each behaviour of a composition is one of every component, step or stutter, so what is proved of a component holds of the composition the run checks |

Each invariant named in the table was checked by TLC on the instance of its
run before it was proved. They are needed because none of the properties sees
the requests in flight: what a request will write was decided when it read.

The assumptions are the named `ASSUME`s of the modules. Bounds and lifetimes
are natural numbers; the maximum of attempts, the lock, the number of email
codes and the page size are at least one; there is at least one request slot
where the property speaks of the one in flight, and finitely many where slots
are counted (`LockoutAssumption`, `CallsAssumption`); the marker for "no
object" is not a file, and `None`, the one for "no row", is neither a row nor
a status (`RowAssumption`, `RowsAssumption` and their like).

Only model-checked: `LockAlwaysEnds`, since liveness under fairness is out of
the prover's reach, and the four documented promises that the runs of the last
row of the table in section 3 refute. Every other property of a passing run is
stated by a theorem.

## 5. Not modelled, and why

* In modelled components: hashing, signing and TOTP arithmetic (a right code
  is a choice of the environment), the wording of answers, S3 folder markers,
  signed URLs, search terms of a list, audit entries and notifications of other
  components than cases and payments (their errors are swallowed and no handler
  reads them back to decide anything).
* Routes that cannot change anything: `DELETE security/sessions/all` and
  `GET users/pending-approvals` are shadowed by the parameter routes declared
  before them; `POST subscriptions/subscribe` hands over a string for the user;
  `POST organizations` and `POST organizations/:id/invite` write columns the
  schema lacks (`ownerId`, `invitedBy`) and Prisma refuses them before anything
  is stored; `accept-invite` is public and fails on the missing user; the
  payments webhook refuses every call, since no raw body is kept.
* The session-less token pair of an email verification names no session, so
  no session model bounds it; `Accounts` keeps only that it was handed out.
* An update of a case whose body changes its id or writes through its relations
  (Prisma's nested writes); an added document whose body names another case.
* An upload outside an organization fails on the foreign key of its directory
  row before anything is stored, and is left out.
* `PlanAccessGuard` is a single read: it asks for the features of `user.id`,
  which a token does not carry (`sub` does), so Prisma drops the condition and
  any active subscription is the one found. A model of it would restate the
  query. The MFA, limit and subscription guards stand on no route.
* `GET users` passes no order to the database unless asked for one; a walk
  through such a list promises nothing even while nothing changes.
* Profile fields, read flags of notifications, statistics and revenue: single
  reads or updates that nothing depends upon. Typing events keep no state.
* DDL of the migrations, DTO validation, templates, configuration and
  bootstrapping: no state machine.

## 6. Plan

1. Done: the modules of section 2, their runs, and the theorems of section 4.
2. Still to be proved: facts that no run states yet because they relate
   components, such as what the lockout says of the sessions that
   `AuthSessions` opens; they need a module that composes both.

Runs are kept few: a module has one passing run whose properties say under
which conditions they hold, and small modules are composed rather than given
runs of their own.

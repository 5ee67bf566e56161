# iam-control-plane: a TLA+ verification project

iam-control-plane is an identity and access control plane: people arrive over
SAML and SCIM, hold console roles, groups and applications, ask for access, and
are provisioned into downstream systems over SCIM. It is a FastAPI application
on PostgreSQL (`src/apps/api/iam`), a background worker (`worker.py`), a web
console (`src/apps/web`) and a demonstration downstream (`src/apps/hrms`).

This directory models its core in TLA+, checks it with TLC and proves part of
it with TLAPS. Paths below are relative to `src/apps/api/iam` unless they start
with `src/`.

## How the program runs, and what that means for the models

- One database transaction per HTTP request, on sessions made with
  `expire_on_commit=False, autoflush=False` (`db.py:55-60`), at READ COMMITTED
  and without row locks: a request acts on rows as it loaded them, an
  assignment equal to the loaded value writes nothing, and two requests
  interleave anywhere between two statements.
- The only serialisation is what the database gives: unique indexes, a
  conditional UPDATE (the sync's lease) and one advisory lock (the audit log).
- Calls to other systems (the downstreams, mail) are made between commits, so
  what was done there and what is recorded here can come apart.
- Nothing runs in the background except the worker's sweep. Expiry of roles is
  looked at when somebody makes a request; expiry of memberships by nobody.

## Inventory

| Component | State | Operations | Meets | Hard part | What makes it correct |
| --- | --- | --- | --- | --- | --- |
| Console roles (`access/roles.py`, `routers/access.py`) | `role_grants`, `users.platform_role` (a cache), `users.active` | grant, revoke, expire on request, revoke for leaver, bootstrap | users, SCIM, sessions, audit | a request compares with what it loaded; last-admin check without a lock | cache = live grant; one live grant; leavers hold nothing; somebody can still grant; history is final |
| Provisioning lease and worker (`worker.py`, `provisioning/sync.py:153-214`) | `sweep_lease_until`, the worker's captured `now` | take, release, lapse | sync | a lease that is outlived; release by somebody else; a killed worker | one sync per target; a target is not wedged |
| Provisioning targets and sync (`routers/provisioning.py`, `provisioning/sync.py`, `client.py`) | `provisioning_targets`, `provisioning_links`, the accounts downstream | register, switch, delete; push, adopt, revive, switch off | directory, lease, downstream, audit | the answer that is lost, the process that dies, the person or the target that changes meanwhile | links tell the truth; leavers are off; nobody has two accounts; it converges; what is shown of it is so |
| Audit chain (`audit/chain.py`) | `audit_events` | append, verify | everything that changes state | the lock held to commit beside row locks; verification of a log that grows | the log is one chain; an untouched log verifies; an edit of an old entry is found and named; nobody waits for ever |
| Access requests (`access/requests.py`) | `access_requests`, `group_members` | raise, approve, deny, withdraw, cancel | groups, leaver flow | two deciders at once, a leaver in between, an expiry nobody enforces | a decision is final; approved means in the group |
| Access rules (`access/rules.py`, `routers/access_rules.py`) | `access_rules`, rule-sourced memberships | create, change, delete, run, preview; reconcile one or all | SCIM, logins, groups | every path that changes a person has to reconcile | a rule's memberships are what the rules say, and a preview what will happen |
| Leaver flow (`access/lifecycle.py`) | none of its own | cut_access | roles, sessions, apps, requests | every path that means "they left" must call it | a leaver has no access |
| Inbound SCIM (`routers/scim_users.py`, `scim_groups.py`, `scim/`) | `users`, `groups`, `group_members` | create, adopt, PUT, PATCH, DELETE | rules, leaver flow, logins | sync and logins make the same people; PATCH in a session that does not flush | one row per identity; an id of the provider's is not taken away |
| Sessions and actor (`saml/sessions.py`, `security/actor.py`) | `saml_sessions` | create, touch, expire, revoke | leaver flow, roles | a login or a touch racing an ending | what has ended stays ended; nobody deactivated acts |
| SAML service provider (`routers/saml.py`, `saml/`) | `saml_request_state`, `saml_assertion_seen` | login, ACS, logout | sessions, providers, people | replay, two answers to one request | every session is earned, once |
| SAML identity provider (`routers/idp.py`, `saml/idp.py`) | `idp_sessions` | SSO, SLO | sessions, assignments, applications | login in the middle of a sign-on; a session ending before its login is written | entitled and alive at signing; logout signs out |
| Keys, metadata, registrations (`saml/keys.py`, `metadata.py`, `signer.py`, `reader.py`, `routers/identity_providers.py`, `applications.py`) | the process's key, `identity_providers`, `applications` | boot, rotate, register, sign, verify | everything SAML | keys that rotate or are lost with the process; two signatures; bundles | our own papers pass our own checks; nothing is believed without the registered key |
| Review, dashboard, inspector, lists | none | queries | all of the above | few | |
| HRMS (`src/apps/hrms/main.py`) | `employees` | SCIM users | sync | unique userName | |
| Web console, migrations, seeds, infrastructure | none on the server | | | | not modelled |

`PROJECT.json` lists every component with its status, and under "hazards" the
lines where these difficulties bite. Some of them the code does not guard
against. Those name no property and say so: the condition of the nearest
property excludes them (one request at a time, `Timely`, not `slow`), and "Where
the code and its claims part" says what then happens.

## Modules

| Module | Models | Proofs |
| --- | --- | --- |
| `RoleGrants` | console roles, as interleaved requests | `RoleGrants_proofs` |
| `TargetLock` | what the lease is for: a lock per target | |
| `SyncLease` | the lease itself, workers, manual syncs, time, crashes | `SyncLease_proofs` |
| `ProvisioningSync` | one target and its syncs, request by request | `ProvisioningSync_proofs` |
| `AuditChain` | `append_event` inside transactions, `verify_chain` in batches, the table edited from outside | `AuditChain_proofs` |
| `AccessRequests` | asking for a group, deciding, withdrawing, leaving | `AccessRequests_proofs` |
| `RuleMatching` | `validate` and `matches`, on texts | |
| `PeopleAndGroups` | the directory's tables, reconciliation, begin and commit of a request | |
| `AccessRules`, `ScimUsers`, `ScimGroups` | who writes to the directory: rules; the provider's people, logins and the console; groups | |
| `Directory` | the three composed | `Directory_proofs` |
| `AssertionChecks` | the ten checks on an assertion, as functions | |
| `ConsoleSessions` | sessions, cookies, leaving | |
| `SamlLogin`, `AppSignOn` | signing in through the provider; signing on to applications | |
| `SignOn` | the three composed | `SignOn_proofs` |
| `SamlMetadata`, `SamlMessages` | reading metadata; what messages hold and who signed what | |
| `Registrations` | our key, the registered providers and applications | |
| `Federation` | messages going back and forth, on top of the three | `Federation_proofs` |
| `MC...` | the TLC instance of each: symmetry sets, circumstances | |

How they compose. `SyncLease` instantiates `TargetLock` through a refinement
mapping (`Lock`: who holds a target is who is at work on it) and is shown to
implement it. `Directory` extends `AccessRules`, `ScimUsers` and `ScimGroups`,
which share the tables of `PeopleAndGroups`; `SignOn` extends `SamlLogin` and
`AppSignOn`, which share the sessions of `ConsoleSessions`; `Federation` stands
on `Registrations`, `SamlMessages` and `SamlMetadata`. `SamlLogin` and
`Federation` both instantiate `AssertionChecks`: one is about what an accepted
answer does to people and sessions, the other about the papers. Between these
groups the components meet through tables: each has the columns it reads as
variables of its own, changed by actions that stand for the others
(`SwitchOff`, `Add`, `Rename` and the like).

Operators named `Mut...` are the mutants of `PROJECT.json`; no specification
uses them.

### RoleGrants

`grants` is the table, one `Row` per grant id; `active` and `cached` are the
two columns of `users`; `now` is the clock the requests read. `req` holds each
request in flight: what it loaded (`Load`), where it is, which row it selected.
An operation is a `Begin...` step (the handler up to its first write, on its
own snapshot), then the last-admin guard (`RefuseLastAdmin`, `PassGuard`),
`Select`, and one of `WriteGrant`, `WriteEnd`, `WriteScimOff`, `WriteActive`,
which is the flush and the commit. Between any two steps another request may
run. `Recompute` is faithful to the session: it compares with the role the
request *loaded*, and leaves the column alone if they are equal. `Collides` is
the partial unique index; a collision is `Abort`.

### SyncLease and TargetLock

Time is relative: `lease[t]` is how long the lease of a target still runs and
`age[p]` how old the `now` is that a sync captured. `Available` is the WHERE
clause of `take_lease` with that stale `now`, `Take` its SET. `SweepTarget`,
`SkipBusy`, `StartSweep` and `EndSweep` are the worker's loops, `ManualSync` the
console's button, `Release` the `finally` of `reconcile`, which clears the
lease whoever holds it, `Crash` a killed process. `TargetLock` is the promise of
`worker.py:18-20`; `ImplementsLock` states that the lease keeps it.

### ProvisioningSync

`entitled` and `name` are the directory, `link` the links, `account` what is
really out there (the `employees` table of the demonstration downstream, whose
`external_id` is `of`), `target` the row of the target, `run` the sync in
progress with what it read at its start.
`Start` is the two queries, then each person is one of `Answered`,
`RefusedBy404Or500`, `AnswerLost`, `Down`, `Unauthorized` (the request) followed
by `Record` (the commit) or `Break` (the unique index refuses it), and a
`Crash` may come between. `ToLeavers` starts the second loop. People's details
are one value, the userName, which is also the attribute the downstream keys
accounts by. Directory changes may happen at every step; a rename may be
`SlowRename`, one whose transaction began before the run's `now`. What is
written is the client's `CreateUser`, `ReplaceUser` or `SetActive`, which come
to the downstream's `Created`, `Replaced` and `Patched`. The target is switched,
deleted and registered again by `UpdateTarget`, `DeleteTarget`, `CreateTarget`;
`Count` and `CountWaiting` are what the console shows of it.

`weather.may` is the set of kinds of changes and failures that may happen in a
behaviour. It is chosen from `Circumstances` in the initial state and never
changes, so that one run covers many mixtures, and a property that does not
survive a kind says so by name: `Without({"crash"}) => ...`. What it does not
survive is listed under "Where the code and its claims part".
`may` in the other modules works the same way.

### AuditChain

`log` is the committed table, `tx` the transactions in progress with the
entries they have flushed (`own`), `holder` who has which lock, `nextId` the
sequence, which a rollback does not give back. A fingerprint is the sequence
of contents it covers: SHA-256 as an injection. `BeginAppend`, `Get`,
`ReadTail` and `Insert` are `append_event`: ask for the advisory lock, have it,
read the newest entry (own ones included), insert. `Update` takes a row lock
that a handler needs before or after, so that transactions can wait for each
other in a circle; `BreakDeadlock` is Postgres ending one of them. `Commit`,
`Rollback` and `Refused` (the unique fingerprint) end a transaction and free
its locks. `check` is one verification: each `CheckBatch` reads the log as
committed by then. `Tamper` edits, deletes or inserts one row, once, with any
fingerprints that can be made from those in the table.

### AccessRequests

`ask` is the table of requests, `member` the memberships with their source,
`req` the HTTP requests being served. A step is one read of a handler or its
commit: raising reads the membership (`SeeMembership`), then the open request
(`SeeOpenAsk`), then inserts (`Raise`, where the partial unique index decides);
approving loads and guards (`BeginDecision`), reads the requester
(`SeeRequester`), then writes decision and membership (`Approve`, where the
primary key of `group_members` decides); denying and withdrawing load, guard
and write (`Close`); the leaver flow selects the open requests (`SeeOpenAsks`)
and cancels them (`Leave`). `Answer` updates by primary key, with no condition
on the state, as the session's UPDATE does. A handler that refuses changes
nothing, so it does not begin or just ends. Who may decide (`Admins`) is fixed:
roles are the subject of `RoleGrants`.

### RuleMatching, PeopleAndGroups, AccessRules, ScimUsers, ScimGroups, Directory

`person`, `group`, `member` (with its source) and `rule` are the four tables.
A text is a sequence of characters, so that case and blanks are what `strip`
and `casefold` make of them: `Matches` and `Valid` are functions of those. A
request is two steps. It begins, which is everything its handler reads, and
keeps in `req` what it is going to write; it commits (`Write`, guarded by the
unique columns in `Storable`), or aborts. Requests that reconcile after their
first audit entry read rules and memberships under the audit chain's lock, so
that reading is part of their commit (`late`). Deletions are flushed before
insertions and a handler's own reads do not see what it has added
(`MembersAfter`, `ScimGroups!Outcome`), as sessions without autoflush have it.
`ReconcileAdds` and `ReconcileDels` are `reconcile`; every handler that calls it
has it in its step, and those that decide not to (nothing changed that rules
look at) do not. `Login` is `provision_user`: found by external id, then by
name, refreshed or built. Documents set the attributes that vary; a PATCH may
also clear with a null what can be cleared (`PatchCarried`).

### AssertionChecks, ConsoleSessions, SamlLogin, AppSignOn, SignOn

`sess` is `saml_sessions`, `pending` the login requests by relay state, `seen`
the assertions accepted, `doc` what the provider has signed, `assigned` the
application assignments, `issued` the rows of `idp_sessions`, `now` the clock.
A request takes the time once, when it begins, and each step is one read of
its handler or one commit: an ACS post takes the request (`TakeRequest`, whose
DELETE is flushed and holds the row, `Locked`), judges the answer
(`JudgeAnswer`, with all ten checks), looks at the person (`SeePerson`) and
commits (`Accept`). Using a session is finding it (`CookieRequest`, which keeps
the row as read), loading its person and, when by that row enough time has
passed, touching it, whatever has become of it. Sign-on does the same, then reads
the person once more (`SeeAgain`), the direct assignment (`SeeDirect`), if there
is none the one through the group (`SeeGroup`) and, at a time of its own, the
session it names (`Issue`). `Leave` is
`cut_access` as far as sessions go and `LeaveApps` as far as assignments go;
`SwitchOff` is the console's deactivation, which ends no session.

### SamlMetadata, SamlMessages, Registrations, Federation

A metadata document is a sequence of parties with roles, keys and services;
`ReadIdpMetadata` and `ReadSpMetadata` read it as the code does, first match
first. A message is a record; a signature shows a certificate and was made by a
key, and what was signed is the element it stands on. `Verify` asks both.
`process` is the key the process runs with: `Load` and `Boot` refuse, accept or
make one up, `Stop` loses it. `trip[t]` is one conversation: what is on the wire,
where it is going, what it quoted. Each handler is one step from what arrived to
what it sends (`Sso...`, `JudgeAnswer`, `SignOut`, `ProviderLogsOut`); those
marked external in the map are the party elsewhere, with the habits a provider
may have: signing the wrapper only, or nothing, refusing, a clock that is early.
The lengths of a request in a URL are three numbers, because a column has 500
characters.

## Runs

Passing runs:

| Run | What it shows | Bounds, and why they are enough |
| --- | --- | --- |
| `rg_serial` | with requests one at a time and deactivation over SCIM, the whole of the role discipline holds | two people, four grant rows, a clock of three values: a row can be superseded, expire and be followed by another; the last admin needs a second person only |
| `rg_concurrent` | what the unique index and the transaction give when requests interleave, whoever deactivates | two requests and two rows: a collision needs exactly two |
| `sl_lock` | the lease is a lock while nobody outlives it, crashes included, and a killed worker wedges nothing | two workers, one manual sync, two targets: the competition for a target and a sweep with a second target to go; a lease of two ticks can be alive, about to end and over |
| `ps_sync` | the links are true, accounts single and owned, leavers off, a quiet summary means in step and the target converges, each under all it survives | two people, four changes, two failures of three attempts, four accounts of which one was there before: leave and come back, renamed while pushed and again before the next run, a target deleted and registered again; eight mixtures, which between them hold every kind of change and failure |
| `ac_pass` | one chain, no false alarm, edits of old entries found and named, no transaction waits for ever | two transactions, one row, three ids, two entries each, batches of two: a deadlock, a second entry in a transaction, a batch border inside the log, an entry committed between two batches |
| `ar_pass` | what the indexes give whatever overlaps, and the life of a request when nothing does | two people, one of them an admin, one group, two rows, two requests at a time: every pair of handlers races; a second request follows a refused, withdrawn or cancelled one |
| `dir_pass` | the rules' memberships are what the rules say after every request, the engine keeps to its own rows, previews foretell, identities are single, logins keep a link | two people, two rules on one group, three names of which two differ in case, texts of one letter: a rule replacing another's membership, two people with one identity, an id taken over; ten mixtures, three of them with requests that overlap |
| `so_pass` | sessions are earned once, end for good, a leaver is signed out, only the entitled sign on, an application's logout reaches the browser | two people, two sessions, two requests of two answers, two requests served at a time, three ticks: idle, out of time and alive differ; every pair of handlers races |
| `fed_pass` | our papers pass our checks, nothing is believed without the registered key, answers go where registered and quote what they answer | one conversation with each other party, two slugs, two keys each, two ticks: a key rotates or is lost between two messages, a slug is registered again, an answer is on time, late or early; conversations share nothing but the registrations |

Violation runs each check one claim the repository makes of itself and find a
behaviour of the code that contradicts it; the finding in `PROJECT.json` quotes
the claim.

| Run | The claim that does not hold |
| --- | --- |
| `rg_lastadmin` | nobody can take the last admin away: two requests each count two and each remove one |
| `ps_lost_create` | DEPROVISIONED means switched off: a create whose answer was lost, then a departure |
| `fed_posted` | a posted sign-in request survives the trip through logging in: it does not fit the column its way back is kept in |

### Fairness

`SyncLease!Fairness`: `run_forever` loops for ever and survives every exception
(`worker.py:133-147`), every sync ends (each request has a timeout), time
passes, a killed machine is started again. Nothing is assumed of the console's
button, and no bound on crashes: `TargetsKeepBeingSwept` only asks that workers
are not killed for ever. `ProvisioningSync!FairSpec`: the worker keeps sweeping
and a run goes on (`Sweep`); crashes, failures and directory changes are never
required to happen, and are bounded by `MaxFailures` and `MaxChanges`, so a
behaviour is quiet from some point on, which is when convergence is claimed, of
a target that is not left switched off.
Forced syncs are not required either. In `ps_sync` there are fewer
failures than `MaxAttempts`: past the limit the code stops retrying by design.
`AuditChain!FairSpec`: strong fairness of every transaction's next step, because
a lock is handed out in turn to whoever waits (Postgres queues them) and a
handler that is not interrupted runs on to its commit. Nobody has to open a
transaction, roll back, verify or edit. `AccessRequests`, `Directory`, `SignOn`
and `Federation` have no liveness property: what happens next is up to people,
browsers and other systems.

## Proofs

Every safety property a passing run checks, invariant or action property, is
also a theorem, for every value of the constants. Each proof has the same
shape: an invariant that holds initially, that every step keeps (a lemma per
handler), and from which the property follows.

`RoleGrants_proofs` proves, for any sets of people, grant ids and requests:

- `TypeCorrect`: `Spec => []TypeOK`.
- `OneLiveGrantAlways`: `Spec => []OneLiveGrant`, however many requests
  interleave; the argument is the collision check of every insert.
- `RolesComeFromGrantsAlways`: `Spec => RolesComeFromGrants`, also however many
  interleave. The strengthening: rows not inserted yet are nobody's, rows keep
  whose they are and which role they give, and every cached role is in some row.
- `CacheAgreesSerially`, `RevocationsHoldSerially` and, of people who are
  switched off over SCIM only, `LeaversHoldNoRoleSerially` and
  `LastAdminCheckIsExactSerially`, under the named assumption `OneAtATime`. The
  inductive invariant (`SerialInv`) says that a request in flight has loaded what
  the tables still say; without it a write on a stale snapshot would not preserve
  it. With two requests in flight, or people switched off from the console, the
  properties are false (see below), so the assumptions are needed.
  Counting admins needs that there are finitely many people
  (`UsersAssumption`).

`SyncLease_proofs` proves, from `Timely == MaxAge <= Lease` (no sync is still at
work when its captured `now` is older than the lease):

- `TimelySyncsExclude`: `Spec => []MutualExclusion` for any number of workers,
  manual syncs and targets. The strengthening: the lease of a target somebody
  works on runs at least until that somebody's own `now` plus the lease, so it
  cannot be available to anybody else.
- `TimelyTypeCorrect`: `Spec => []TypeOK`, from the same invariant.
- `TimelyLeaseIsALock`: `Spec => Lock!Spec`, step by step.

`ProvisioningSync_proofs` proves, for any number of people, accounts, changes and
failures:

- `TypeCorrect`: `Spec => []TypeOK`. That a request is always about an account
  there is needs `Room`, the guard that there are ids left to give out.
- `LinksTellTheTruthAlways`, `AccountsAreTheirOwnAlways` and `QuietMeansInStep`,
  from one invariant, `IInv`. Its parts each name what they do not survive:
  userNames past and present tell people apart (`NamesTellApart`), so what is sent
  for somebody goes to nobody else's account (`OwnersStay`); an account that was
  pushed is on until its leaver's turn, and one switched off stays off for that
  leaver (`OnUntilTheyLeave`, `OffForLeavers`); whoever has an account has it on
  their link once it is recorded (`Traced`); what changed since a run read it is
  newer than what the run stamps (`NamesFollow`); while nobody leaves nobody is
  switched off (`NobodyLeft`, `OnForGood`). A count of zero is then of nobody.
- `OnePersonPerAccountAlways`: `Spec => []OnePersonPerAccount`, the part of
  `AccountsAreTheirOwn` that survives everything: a link gets its account in
  `Record` only, which the unique index stops, and a target deleted takes all its
  links with it.

`AuditChain_proofs` proves, for any number of transactions, rows, entries, any
batch size and any limit:

- `TypeCorrect`: `Spec => []TypeOK`, edits from outside included. What is read
  as the newest entry is an entry only because every set of entries has a
  newest, so the invariant says that as well (`Topped`).
- `OneChainAlways`: `Spec => []OneChain`. The strengthening `ChainInv`: whoever
  has entries of their own or is about to make one holds the advisory lock; own
  entries come after all committed ones and prolong their chain; what was read
  as the newest entry still is. So a commit or a rollback leaves a chain.
- `NoFalseAlarmAlways`: `Spec => []NoFalseAlarm`. The strengthening `CheckInv`:
  a verification expects the fingerprint of the last entry up to where it has
  got. A batch leaves no gap (`BatchClosed`, by cardinalities), and entries
  committed meanwhile come after everything looked at.
- `TamperingIsFoundAlways`: `Spec => []TamperingIsFoundAndNamed`. An entry is
  good if it has the fingerprint of what it says and points at the one before
  it. Fingerprints tell contents apart (`HashTells`), so one edit spoils the
  edited entry or the one that follows it and no other (`Sound`), and later
  transactions, which only append, mend nothing; the verification has not passed
  a bad entry while it is running (`Underway`).

`AccessRequests_proofs` proves, for any people, groups and number of requests
served at once:

- `TypeCorrect`, with an invariant that says what each step of a handler has
  found (`Fits`) and that rows never go away.
- `OneOpenAskAlways`: the index is asked at every insert, and no update opens a
  row again.
- `ApprovedHasAccessAlways`: a membership stays while nobody is taken out of
  groups, and an approval that collides leaves nothing behind.
- `DecisionsAlwaysStand` and `AccessFollowsDecisionsAlways`, of the behaviours in
  which requests are served one at a time. The strengthening (`Prepared`): the
  one handler at work found the request open and the requester active, and both
  still are, so it overwrites no decision and the leaver flow misses no request.

`Directory_proofs` proves, for any number of people, groups and rules and any
alphabet:

- `TypeCorrect`: `Spec => []TypeOK` whatever overlaps, with `Fits`: what a
  request is about to write fits whatever the tables hold by then. It is also
  where cascades are proved to leave no membership or rule of a group or a person
  that is gone.
- `OnePersonPerIdentityAlways`: overlapping requests share no external id and no
  userName, by the unique columns (`Unique`); served one at a time, no two names
  differ in case only either.
- `RulesDoWhatTheySayAlways` and `LoginsKeepTheLinkAlways`, of requests one at a
  time. The tables are settled (`Settled`: names are apart, rules are valid,
  everybody's rule memberships are in line with the rules), and whatever the one
  request under way is about to write leaves them settled (`Keeps`), gives nobody
  who has left a membership, keeps the link of a login and adds whom the preview
  names. There is a lemma per handler.

`SignOn_proofs` proves, for any number of people, browsers, login requests,
documents and applications, and any lifetimes:

- `TypeCorrect`: `Spec => []TypeOK`, with `AcsFits`: a request that judges an
  answer has one.
- `SignInsAreAlwaysEarned`: `Spec => []SignInsAreEarned`. The strengthening: an
  answer that was believed names the request it came back with
  (`BelievedFits`, out of `CheckInResponseTo`); sessions keep their answer and
  answers their content; a request that is gone stays gone; and, one request at
  a time, a login being answered has its request still open (`OneAtATime`), so
  that no session stands on it yet.
- `EndedStaysEndedAlways`: `Spec => EndedStaysEnded`. The strengthening
  `Punctual`: while no time passes during a request, whoever is being let through
  still could be but for a sign-out, so the touch they owe revives nothing.
- `SignedOutMeansOutAlways` and `OnlyTheEntitledSignOnAlways`. What a request has
  looked up is still so when it is served alone (`Undisturbed`), and a login
  issued names the browser session it came from, or that session lets nobody
  through (`LoginsFit`).

`Federation_proofs` proves, for any number of conversations, slugs and keys and
any lifetimes and clock skews, from one invariant with two parts:

- `RowsFit`: what is registered is what one of the three parties publishes,
  whole. It rests on lemmas about reading metadata: what `ReadIdpMetadata` and
  `ReadSpMetadata` make of each document there can be.
- `TripsFit`: every conversation is being opened, asking, answered by us or by the
  provider elsewhere, logging out or logged out, and what is on the wire is of
  that kind and quotes what it should. Kinds of messages exclude each other, so
  what arrives at an address says which case it is (`ArrivedIs`).

Its theorems are `TypeCorrect`, `AnswersFollowTheRequestAlways`,
`AnswersGoWhereRegisteredAlways`, `OwnPapersAreBelievedAlways` (each check of
`AssertionChecks` passes on what the builder made) and
`BelievedIsVouchedForAlways`. The last assumes that no behaviour has both a
federation's bundle registered and logouts: a bundle registers the key of the
provider elsewhere under the name of the party that comes first, and
`_identify_logout_sender` looks at the key only, so a logout is then believed of
a provider that calls itself something else. TLC finds it when the two are
allowed together; of a login `CheckIssuer` refuses it.
It also uses that keys of two parties are different (`KeysAssumption`) and
that None is nothing else (`NoneAssumption`).

Beside those named here, the proofs use the assumptions the modules state on
their constants (`None` is nobody, bounds are numbers) and nothing else.

Only model-checked: the three liveness properties (`TargetsKeepBeingSwept`,
`Converges`, `TransactionsEnd`) and the fairness they rest on, which are beyond
TLAPS here; the violations, which are TLC's counterexamples; and, of
`RuleMatching`, what matching does with particular texts, of which the proofs of
`Directory` use only that a rule looks at the attribute it names.

## Where the code and its claims part

Each of these can be seen in a counterexample by checking the property named
without the condition that excludes it, or by reading the lines. The three with
a run of their own are in the table above.

- Roles. Under two requests the cached role drifts from the grant
  (`access/roles.py:113` compares with the role loaded at the start;
  `CacheAgrees`); a grant lands after a SCIM deactivation committed
  (`roles.py:155`; `LeaverHoldsNoRole`); an ending is overwritten
  (`roles.py:233`) and a revocation answered 200 leaves a live grant (both in
  `RevocationsHold`); and, with one request at a time, revoking a deactivated
  admin is refused as "the last admin" although somebody else is one
  (`routers/access.py:86`; `LastAdminCheckIsExact` with console deactivation).
- Leaving. `access/lifecycle.py:3-5,19` says reactivation restores nothing; the
  console's deactivation (`routers/users.py`) calls no `cut_access`, so role
  grants, sessions and open requests are there again when the person is switched
  on (`LeaverHoldsNoRole`, `LeaverIsSignedOut`, `LeaverHasNoOpenAsk` without
  their conditions).
- Lease. A sweep dates every lease from its own start (`worker.py:135`), so the
  last target of a long sweep may be given a lease that is already over, and two
  syncs of it run at once, against `worker.py:18-20`; `Timely` is the condition
  under which that cannot be. A sync that outlived its lease clears the lease of
  its successor (`sync.py:209`), after which a third may start.
- Provisioning. Crashes: between create and commit, then a departure
  (`sync.py:586`); while reviving; at the switch-off, then a return
  (`sync.py:506`). Changes: what changed while somebody was away is not pushed
  when they come back (`sync.py:521`); a change that commits late is not pushed
  (`sync.py:298`). Names: whoever is given a userName somebody else had takes
  over that account (`sync.py:335`), and where that account is already somebody's
  the index refuses the row (`sync.py:551`), which is nobody's `PushFailed`
  (`sync.py:411-412`), so every sweep ends at the same person, and
  an account made over before that is on no link, so it stays on when its person
  leaves (`DeprovisionedMeansOff` without `reuse` excluded); a rename between a
  lost create and its retry makes a second account (`sync.py:320`). An account
  deleted downstream is not created again (`client.py:84-89` says it should be).
  The waiting count leaves out failed and orphaned leavers, which are counted
  beside it (`sync.py:246`), and counts people who ran out of attempts, whom no
  sweep pushes (`sync.py:218`); the attempt limit does not apply to leavers
  (`sync.py:583`).
- Targets. `delete_target` advises "disable the target and run one more sync to
  deprovision people first"; the sync of a disabled target does nothing. Its
  audit entry counts only active links as accounts left switched on.
- Audit. The newest entries deleted from the end leave a log that verifies
  (`audit/chain.py:233`), and so does a log all of whose fingerprints were
  redone, as the module docstring says; `TamperingIsFoundAndNamed` is about an
  entry with another after it.
- Requests. Of two overlapping decisions the second replaces the first
  (`access/requests.py:186`), against `requests.py:8-9` and `enums.py:137`; it is
  why `DecisionsStand` asks for requests one at a time. Somebody who leaves after
  an approval looked at them (`requests.py:177`) is still given the membership.
  `access/requests.py:12-13` and `models/requests.py:81-85` say an
  expiry lands on the membership, so temporary access ends: `group_members` has
  no such column, and nothing ends the membership. Approving is told to "Cancel
  it instead" (`requests.py:183`), for which there is no endpoint.
  Approving a request whose membership was given meanwhile answers 500, and the
  request stays open.
- Signing in. An accepted assertion is forgotten at its expiry (`routers/saml.py:569`)
  because it "fails the timing check anyway" (`saml.py:567-568`,
  `models/saml.py:212-213`), but the timing check allows for a clock skew and
  lets it pass a while longer: it is the request, taken once, that stops a replay. Two answers to one request posted at once can both read it before
  either deletion is committed (`saml.py:425`, against `saml.py:421`). Somebody
  who leaves after `saml.py:524` looked at them is given a session, which their
  next request ends.
- Signing out. A login whose browser session ended between the access check and
  its row names none (`routers/idp.py:441`), and a logout from that application
  then ends nothing (`idp.py:993`, against `idp.py:938-939`); and a request still
  running when its session went idle may touch it back after such a logout
  (`AppLogoutSignsOut` with `slow`). The person, their own assignment and the one
of their group are read one after the other (`idp.py:729`, `idp.py:261-278`), so
whoever leaves or loses access in between may still be signed on
(`OnlyTheEntitledSignOn` with requests that overlap). A logout request
  signed the way the redirect binding has it, in the query string, is refused as
  unsigned (`saml.py:957`, `saml.py:845-849`). Two providers registered with one
  certificate are not told apart (`_identify_logout_sender`).
- Metadata. In a federation's bundle the entity id is read from the first party
  and everything else from the first party that is a provider
  (`saml/metadata.py:163`, against `metadata.py:143`): the provider is registered
  under somebody else's name.
- Posted requests. Beside the one that is too long for its column, the comment
  that such a request would be unreadable after the trip does not hold of the
  reader, which takes both encodings; a refused login's failure response, which
  has no assertion, is reported as "contains no assertion".
- SCIM groups. A PATCH that adds a member and then replaces the members leaves
  the added one in (`scim_groups.py:433`, against `scim_groups.py:358-359`): the
  replacement does not see the row that is not flushed.
- SCIM people. A PATCH of the title is mapped to a column (`scim_users.py:471`)
  that is not writable, so it answers 200 and changes nothing
  (`scim/mapping.py:211`), which `scim_users.py:408-410` says is not done; rules
  on the job title do not see it. A PATCH of the userName is not compared without case,
  so two people may come to differ in case only. A login by name may find a row
  that carries another external id, and a login that overlaps with the sync may
  overwrite one (`LoginsKeepTheLink`). Two overlapping edits of a rule may store
  one that neither wrote and that `validate` would refuse (`RulesHold`).

## Not modelled, and why

Formatting, logging, HTML, cryptography and XML: a fingerprint, a signature and a
document are what the program can tell of them. Mail, which is sent after the
commit and changes nothing. `push_one` and `expire_due_grants`, which nothing in
the program calls. The contents of an audit entry beyond one value: what goes
into the fingerprint is tested field by field in `tests/test_audit_chain.py`.
Pure functions without state that are tested as such: the SCIM filter grammar,
pagination, the outbound address policy, the reading of claims. The tokens of
inbound SCIM clients, whose check is one comparison. Queries: the access review,
the dashboard, the login inspector, every list. The seeds, the migrations, the
web console and the deployment files.

## Plan

1. Done: `RoleGrants`, `SyncLease` with `TargetLock`, `ProvisioningSync` with its
   target, `AuditChain`, `AccessRequests`, `Directory`, `SignOn`, `Federation`.
2. Done: a theorem for every safety property of the passing runs. Left: the
   refinement of `TargetLock` under a sync that outlives its lease, as far as it
   goes; an abstract specification of the sync (a mirror of the directory) for
   `ProvisioningSync` to implement where its circumstances allow.
3. Larger instances where TLC has room: a second group in `Directory`, a second
   conversation in `Federation`.

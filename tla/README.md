# A verification project for webapp-template

The repository is a template of a web application: a Go server (Kratos, ent,
PostgreSQL) that speaks JSON-RPC, a React front end, scripts that give every
derived project its development ports, and scripts that publish releases and
run a high-availability lab. This directory holds TLA+ models of the parts of it
that have state and concurrency, TLC configurations that check them on small
instances, and proofs, checked by TLAPS, of the results that should hold for
every instance.

- [1. The system](#1-the-system)
- [2. The modules](#2-the-modules)
- [3. The runs](#3-the-runs)
- [4. Fairness](#4-fairness)
- [5. The proofs](#5-the-proofs)
- [6. Where the code and its own words disagree](#6-where-the-code-and-its-own-words-disagree)
- [7. What is not modelled](#7-what-is-not-modelled)
- [8. Plan](#8-plan)

Paths below are relative to the root of the repository.

## 1. The system

### Server process

`server/cmd/server/main.go` reads the configuration, initialises the default
task group, the tracer, and through wire `NewData`
(`server/internal/data/data.go`), the use cases and the HTTP and gRPC servers.
`NewData` pings the database for up to 60 s and then runs
`InitAdminUsersIfNeeded`, so no request is served before that has finished.
On shutdown main's deferred calls run last in, first out: the database is closed,
the tracer is flushed, the task group is stopped.

| part | state | operations | what makes it hard |
|---|---|---|---|
| task group, `server/pkg/taskgroup` | `stoped`, the map `running` of contexts, a `WaitGroup` | `Go`, the goroutine of a task with its recover and panic callbacks, `finish`, `Stop(wait, timeout)` | tasks that start tasks, overlapping Stops, a timer against the last task, panics inside panic callbacks, a goroutine left in `Wait` |
| process, `main.go`, `NewData`, `server/pkg/taskgroup/default.go` | the stage of `main`, the pool, the default group | the start, the retry of the ping, `app.Run`, the deferred calls | many ways to end, each with its own deferred calls; handlers and tasks that outlive their grace; a global without a lock; a timer against the end of a window |
| administrator initialisation, `server/internal/data/admin_user_init.go` | six tables in PostgreSQL | six kinds of statement, no transaction | replicas that start together and die between two statements; restarts after an operator's changes |
| registration and login, `server/internal/biz/auth.go`, `server/internal/data/auth_repo.go` | `users`, `admin_users` | `auth.register`, `auth.login`, `last_login_at` | check then insert across two tables, unique indexes that decide, lost replies, a switch in between |
| dispatcher, `server/internal/service/jsonrpc_dispatch.go` with `server/internal/server/auth_middleware.go` | none of its own | `requireLogin`, `requireAdmin`, `requireAdminPermission`, the methods | every check reads the tables again and nothing holds them still; statements fail |
| user administration, RBAC overview, `server/internal/biz/user_admin.go`, `rbac.go` and their repositories | `users`, the role tables | `user.list`, `user.set_disabled`, `rbac.overview` | lists read in several statements |
| JWT, `server/pkg/jwt` | none | sign, parse | left to a library |
| administrator login, `server/internal/biz/admin_auth.go` | `admin_users` | `auth.admin_login`, `GetAdminByID` | the same races as the users' login, and the initialisation beside it |
| generated database client, `server/internal/data/model/ent` | mutations and builders per call, six tables | create, bulk create, update, update one, delete, old values, hooks, queries | the same method written out for six entities, twice for some; defaults, hooks and checks in a fixed order; answers that are lost after the statement took effect; a builder that is saved again |
| HTTP and gRPC wiring, health checks, logger | none | | framework code |

The parts meet in the database and in the request context: the middleware turns
an Authorization header into claims, the dispatcher checks the claims against the
tables, and use cases and repositories run one SQL statement at a time.
There is no transaction in the code that spans two statements.

### Browser

`web/src/common/auth/auth.js` keeps, for each of the scopes user and admin, a
token and metadata in `localStorage`, which all tabs share, and a React state per
tab. `utils/jsonRpc.js` attaches the token to a call and logs the scope out when
the answer rejects it. `AdminLayout.jsx` asks `auth.me` for the permissions and
stores them beside the token. It is hard because answers arrive in any order, after
logouts and new logins, because a tab renders a change, and cleans up the effect that waits
for an answer, only some time after the storage was written, and because another tab learns
of a change only by a storage event. The pages only render, except that `AdminUsers` keeps a list that
several unsequenced requests write.

### Repository tooling

`scripts/dev-ports.mjs` assigns each project in a directory of sibling
repositories an id and a bundle of ports, written to two files of that project;
any number of allocations may run at once, without a lock, and be killed.
`scripts/init-project.sh`, the git hooks and the quality scripts are sequential.
`server/deploy/compose/prod` publishes to one host: `publish_server.sh` copies the
migrations, has `migrate_online.sh` look at them or apply them, builds, uploads the
image, replaces the container by `deploy_server.sh`, and asks it for its health. The
migration directory, the image archive, the image tag and the container are shared by
all publishers, and the one lock there is covers a single atlas command.
`server/deploy/lab-ha` holds charts, manifests, runbooks and a
read-only observer page of a lab cluster.

### What correctness means, part by part

- Task group: a Stop that says everything finished has missed nothing; one that
  returns leaves nothing running that it has not told to stop; it cancels nobody
  without need; it always returns; a panicking task costs only itself.
- Process: however `main` ends, the tasks are stopped first; nobody who was waited for
  meets the closed pool or the default group after its reset; a database that comes
  up inside the window is found.
- Initialisation: serving implies that the administrator has its defaults, however
  the replicas interleave and crash; a start never changes the flag of an account that is
  there already (what an operator took from the administrator's default permissions it does
  grant again, as it is written to).
- Accounts: one winner per name, replies that are true, no token for a disabled
  account, no write that undoes another.
- Database client: a statement writes what its builder was given and no more, to the
  rows it speaks of; no row holds what a validator refuses, whatever a hook did after
  the defaults; answers and old values are true of the table.
- User list: who turns all its pages misses nobody but by a race within one reply.
- Release: no server is started on a database that lacks its migrations unless the guard
  is off or another publisher came between, and success means one's own version.
- Dispatcher: nothing is answered or written without clearance during the request
  itself, and a refusal names a reason that was true, except when the query of the
  permissions failed: then the caller is told that the permission is missing.
- Browser: tabs agree, a session that is over stays over, it ends only for cause,
  stored permissions belong to the session from the moment on at which every tab has heard
  of its last change and rendered it.
- Ports: projects that were told they succeeded never clash, ports never change,
  what failed can be run again or is reported.

`PROJECT.json` lists the components with their status and every hazard at its
line, with the properties aimed at it.

## 2. The modules

| module | models | composed of |
|---|---|---|
| `TaskGroup` | the task group | refines `TaskLifecycle` |
| `TaskLifecycle` | what the task group promises | |
| `AppLifecycle` | main, the default group, the ready window | extends `TaskGroup` |
| `AppLifecycleProofs` | theorems about `TaskGroup` and `AppLifecycle` | extends both |
| `AccountStore` | the tables, one operator per SQL statement | |
| `AdminBootstrap` | replicas that start | extends `AccountStore` |
| `UserAuth` | registrations and logins, of users and administrators, as processes | extends `AccountStore` |
| `Accounts` | requests, the administrator's switch and starting replicas on one database | extends both |
| `AccountsProofs` | theorems about `AdminBootstrap` and `Accounts` | extends both |
| `AdminGate` | the dispatcher's authorisation | |
| `AdminGateProofs` | theorems about `AdminGate` | extends it |
| `EntMutation` | a mutation, a query, and their methods, as values | |
| `EntBuilder` | what a builder does between `Save` and its statement | extends `EntMutation` |
| `EntStore` | goroutines that run builders against a table | extends `EntBuilder` |
| `EntAccountSchema`, `EntRbacSchema` | which column each piece of generated code of the six entities knows | |
| `EntStoreProofs` | facts about mutations, statements and builders | extends `EntStore` |
| `UserDirectory` | `ListUsers`, the pages, and the server's own writers | extends `EntStore` |
| `UserDirectoryProofs` | theorems about `EntStore` and `UserDirectory` | extends `EntStoreProofs` |
| `WebSession` | one login scope in the browser | |
| `WebSessionProofs` | theorems about `WebSession` | extends it |
| `DevPorts` | allocations of development ports | |
| `DevPortsProofs` | theorems about `DevPorts` | extends it |
| `Release` | publishers on one host | |
| `ReleaseProofs` | theorems about `Release` | extends it |
| `MC...` | model values and constants of the runs | extend their module |

An operator with an underscore in its name, under the heading "Seeded faults", is a
form the code could take by mistake (a check dropped, a write in the wrong place).
It is used by no specification; substituting it for the operator it is named after
makes TLC find the property it is meant for violated. `PROJECT.json` pairs them.

**TaskGroup.** A task is a member of `Task` with a program counter: `new`,
`rejected`, `spawned`, `running`, `panicked`, `returned`, `removed`, `classified`,
`done`. `running`, `wait` and `stoped` are the fields of `Group`; the contexts
are represented by the set `canceled`. Each critical section of `Group.lock` is one
action: `GoAccept` (the check of `stoped`, `wait.Add`, the entry in the map),
`FinishRemove`, `StopBegin`, `StopCancel`. What happens outside the lock
(`ctx.Err()` in `FinishClassify`, `wait.Done()` in `FinishRelease`, the branch of
the select) has actions of its own. A caller of `Go` is a running task or
`Outside`; a task that is refused unwinds by the panic `ErrStopped` into its own
recover. A panic callback in `FaultyHandler` may panic: `finish` still runs, then
the process ends (`Crash`). Not told apart: the values in the contexts, names,
spans and log lines.

**TaskLifecycle.** The same with no lock, map, counter or waiter: a gate that
closes once, tasks accepted only before that, and Stops that return either because
everything accepted has ended or after cancelling all that may still run.
`TaskGroup!ImplementsLifecycle` maps `stoped`, program counters and outcomes to it.

**AppLifecycle.** `mainPc` is the stage of `main`: the configuration, `taskgroup.Init`,
the checks, `NewData` (`open`, the loop `ping` and `wait`, `admin`), `serve`,
`stopping` while `app.Run` stops its servers, then the deferred calls from last to
first (`close`, `flush`, `stop`, `reset`, `return`). A panic of `main` enters the
deferred calls at the place its stage has reached. `Drain` is the one Stop of
`TaskGroup`, always waiting; `GoDefault` is a call of `taskgroup.Go`, which with `nil`
in the global panics in the caller. Time passes inside the ready window only, in ticks of half an
interval. A ping of a database that is `silent` may take any part of the rest of the
window; one that is refused returns at once. `handler` is one request handler of the
framework, `overran` that `app.Run` gave up waiting for it. Of the configuration only
success and failure are kept. `InitAdminUsersIfNeeded`, which has a module of its own, is one
step, and if the configuration names an administrator (`NamesAdmin`) it needs the database:
it is called without a deadline, so that while the database is silent, or another session
holds a lock, nothing comes back, until the connection breaks (`InitAdminBroken`), if ever.

**AccountStore, AdminBootstrap.** Tables keyed by a unique name are functions of
the name, so a unique index holds by construction within a table and nothing holds
across two. `BootStart` to `BootBind` are the statements of
`InitAdminUsersIfNeeded` and `initAdminRBACDefaults` in their order; a replica
`serving` has left `NewData`. `BootCrash` is an error of a statement (the error ends
in a panic of main), a lost reply, or a killed process. Permissions are numbered by
their place in `DefaultAdminPermissions`.

**UserAuth, Accounts.** A request is a process: a registration, or a login of a user
or of an administrator, whose statements are those of the two use cases and their
repositories; `enabledSeen` is a history that no action reads. `RegisterLookup` does not tell an error from
"not found", as the code does not; `RegisterInsert` may commit and lose its reply;
`GenToken` may fail after the row was created. Requests are served only while some
replica serves.

**AdminGate.** `Dispatch` is what the code decides from the claims alone.
`RequireAdmin`, `RequirePermission` and `LoadPermissions` are three separate reads,
as in the code, and the operator may disable, delete, rename or rebuild the
administrator and change its roles between them. An id of a token need not exist.
`facts` and `cleared` are histories: what was true of the account during the
request, and whether the permission was held at or after a moment when the account
was in order. Answers are classified (`ok`, `adminRequired`, ...), not composed.

**EntMutation, EntBuilder, EntStore.** ent generates one package per entity from one
template. The models say once what the template does and take what it does to which
column from a record per entity (`EntAccountSchema`, `EntRbacSchema`): the columns a
mutation can set, clear and add to, by method and by name; what the create and the two
update builders offer, fill in, check and write; the validators; what is scanned into a
pointer; the predicates; the table. What the generator writes out twice, as for `Update`
and `UpdateOne`, is two fields there, so that a field that was generated wrongly on one
side shows. A mutation is a record of the columns set, cleared and added to, its
predicates and its old values; a query is a set of predicates, a limit and an offset. The
value of a column is what the properties tell apart: who wrote it, the zero value, NULL,
a value its validator refuses, or a key. A builder is opened with its first call and may
be given more (`CallAgain`). `Save` is one step up to the statement (defaults,
then the hook: neither touches what is shared); the check and the statement are the next.
A statement may fail without effect, take effect and lose its answer, or violate the
unique index; after an error the same builder may be saved again. A question for an old
value (`AskOld`) is a statement of its own at any time.

**UserDirectory.** Either any caller of the generated API, or the server: then
`CreateUser`, `UpdateUserLastLogin` and `SetUserDisabled` write users while one
administrator turns the pages of `user.list`. `ListCount` and `ListPage` are the two
statements of `ListUsers`. `due` is the set of users that were there when the reader
began.

**WebSession.** A synchronous block of JavaScript is one action, in `Arrive` the
whole of what a caller does with an answer. `key` and `legacy` are the two places
a token may be found in; `getToken` moves a token from the second to the first
when it meets one. `snapshot` is the token whose permissions are stored; `view`,
`stale` and `due` are the React state of a tab, a storage event on its way to it, and a render
that is due with what its effect is going to do: a listener of the tab only sets the state
(`SetUser`), and the cleanup of the old effect, which is what drops a late answer, and the new
one's `auth.me` run some time later (`Render`; that a render and its effects are one step is an
abstraction). A change of the storage is told at once to the tab that made it and by an event
to the others (`Told`). A call keeps the token it was sent with; the server, the network and
the clock answer, lose and expire in any order. Several calls of one tab and of
several tabs are in flight at once.

**DevPorts.** Every file operation is an action: reading one sibling's manifest,
truncating and then writing a file (`writeFileSync`), the same for the config, and
the reads of the audit. Bundles carry the real numbers and ranges, so that
overlaps are those of the code. Of the port docs a project has the set of numbers in them
that might be somebody's port (`Copied`): if one is a port of the template or of the project's
own bundle the last audit fails (`DocsCopyPorts`), in this run and in every later one. `won` records that an allocation returned without
an error. A run of the command is `Run`, from `idle` back to `idle`.

**Release.** A publisher has a checkout: a version, a migration mode and whether the
smoke check is on. Version v has the migrations 1 to v, and its server needs them. Every
command of the three scripts that changes the host or reads it is an action, in the order of the
scripts; `Fails` is `set -e` or a lost connection at any of them. The rsync of the
migrations takes time: meanwhile the directory is `Mixed`, and atlas refuses it. `lock`
is the flock around one atlas command. `overtaken` is a history: the publishers whose
files another wrote while they relied on them.

## 3. The runs

| run | instance | shows |
|---|---|---|
| `task_group` | three tasks, a cooperative one, one with a faulty panic callback and a deaf one; two Stops | the safety properties of the group; it implements `TaskLifecycle`; no `Add` overtakes a `Wait`; Stops return; the shutdown completes |
| `app_lifecycle` | one process, two tasks of which one has a faulty panic callback, a window of five ticks with an interval of two | every exit is orderly, nobody in time meets `nil` or a closed pool, a database that recovers is found, the process serves or ends unless a silent database holds up the administrator's statements |
| `bootstrap` | two replicas, one administrator, three permissions | serving implies defaults; the defaults are complete some day |
| `accounts_safety` | one name, two requests, two replicas of which one has no administrator | the properties of registration and of both logins |
| `accounts_unique` | two names, two replicas of different configurations | a violation, section 6 |
| `admin_gate` | every method and kind of token, one administrator id, two names | clearance and true refusals |
| `user_directory` | each of the six tables with two goroutines of which one may make any call; or two writers and a reader of `users` | only what was set is written, immutable columns stay, rows are valid, old values are committed, answers are true, pages miss nobody but by a race |
| `web_session` | two tabs, two calls in flight, two tokens, one without permissions | tabs agree, no resurrection, sessions end for cause, stored permissions are the session's, but for answers to a tab that has not heard of or rendered a change |
| `web_late_rejection` | one tab, two calls, two tokens | a violation, section 6 |
| `dev_ports` | the template, two projects, two slots, two kills | winners are disjoint and consistent, ports are fixed, retries complete or report, also where port docs copy a number |
| `release` | two publishers, three versions, all modes, smoke check on or off | the guard is sound for whoever is not overtaken; success means one's own version |
| `release_guard` | two publishers, two versions, the guard on | a violation, section 6 |

Bounds, and why they are enough for the question asked:

- *Tasks and Stops.* Two tasks show a task that starts another during a Stop, the
  third a bystander. Two Stops overlap in every way two can;
  the safety properties are proved for any number (section 5).
- *Window and interval.* Five ticks with an interval of two: the last wait begins inside
  the window and ends outside it, and before it there is room for a refused ping, a wait
  and a silent one. The configuration names an administrator; without one
  the start needs the database less. One handler is enough, as no property relates two. The safety
  properties are proved for any tasks, window and interval.
- *Replicas and permissions.* Two replicas interleave every pair of statements;
  three permissions give the loop a first, a middle and a last. The properties but the
  liveness one are proved for any number.
- *Requests.* The properties of accounts speak of at most two requests of one name.
  The gate runs one request: requests write only `users`, which the authorisation
  of no administrator reads, so that other requests are no more to it than the
  operator's actions. Both are proved for any number of requests.
- *Builders.* Two goroutines race on one table: a `Client`, which makes any call, and
  another that makes the plain ones. A create is given what it must set, one column less,
  or one more; an update is opened with one call, on an id of `Ids` = {1, 2}: the row of
  the start, and one that a create may make. On the tables in `Chained` a builder is given
  more calls, up to `MaxNamed` = 3 columns and a sum of `MaxAdded` = 2: `users` has
  validators, a key and a column that can be cleared, `admin_user_roles` the columns that
  can be added to, and the other four come from the same template. Of the values set by one
  call at most one is refused by its validator. The hook acts in the first `Save` only, and sets the columns
  with a validator to a refused value. Key columns have the values 1 to `MaxKey` = 2, a
  collision and its absence; a builder is saved at most `MaxSaves` = 2 times, once more
  than a lost answer. A column that is set is not also cleared or added
  to by the same builder, as PostgreSQL refuses to assign twice. The database's own NOT NULL
  is left out on purpose: the checks of the builders have to suffice. The properties are
  proved for any schema whose parts fit together, any sessions, ids, values, chains and
  numbers of saves.
- *Pages.* `DefaultLimit` 1, `MaxLimit` 2 and `PageSize` 1 stand for 30, 200 and 30, so
  that every user is a page and a limit can be too large; `MaxName` = 4 users may register
  and `MaxPage` = 5 pages be turned, which lets one registration fall between any two; the
  guard of `ListCount` is that bound. Both properties of the list are proved for any of these
  numbers.
- *Tokens and calls.* Two tokens are an older and a newer session. Two calls overtake each
  other, and two tabs write and hear. The safety properties are proved for any number.
- *Publishers and versions* (`MaxVersion`). Two publishers interleave every pair of
  commands; three versions are one on the host and one for each publisher. Publishers
  differ in their checkouts only, which makes the symmetry sound. The properties are proved
  for any number. A command on the host is assumed to end with the connection that
  started it.
- *Slots and kills* (`MaxSlot`, `MaxCrash`). Two projects beside the template need
  two slots; with two kills, one run is killed twice or each run once. The code has 500
  slots and its search fails when none is free, which `MaxSlot` reaches as well when
  a clashing manifest was left behind. The docs of one project hold the web port of the first
  bundle, so that it fails with that bundle and may win with the second; those of the other
  hold a number that is no port of either. Everything but the retries is proved for any
  number of projects, slots and kills.

Deadlock is not checked in the runs `task_group`, `app_lifecycle` and `user_directory`,
because a group whose Stops have returned, a process that has ended, and builders that
were used with a reader on its last page have nothing left to do. It is checked in all others, where it
does not occur: requests that are over leave the administrator's switch, the
operator, a reload of a tab, another run of the command or another publication.

## 4. Fairness

Safety is checked without fairness. The liveness properties assume:

- `TaskGroup!FairSpec`: the Go scheduler runs every runnable goroutine, the timer of
  a Stop fires, a panic callback returns, and a task in `Cooperative` returns after
  its context is cancelled. Nothing makes a caller call `Go` or `Stop`, and nothing
  makes any other task return: a Stop returns without that.
- `AppLifecycle!FairAppSpec`: main runs, its clock ticks and the timer of its Stop
  fires. That `app.Run` returns after a signal and `ForceFlush` at all is assumed of the
  libraries, as the code gives neither a bound. Tasks, handlers and the
  operator owe nothing: the process ends without them. Nor does the database; but a start is
  held up by one that is silent, for ever or again and again, when the administrator's
  statements run, since these have no deadline. `ProcessEnds` names this case, and says that
  there is no other.
- `AdminBootstrap!FairBootstrapSpec`: a replica that is down is restarted by its
  supervisor (weak), and a statement tried again and again is not always cut off by
  a crash (strong, for each statement). Crashes stay possible for ever. This assumes of the
  database what the code does, that it answers some day.
- `DevPorts!FairSpec`: whoever derives a project runs the command until it
  succeeds (weak fairness of `Run`). Kills are bounded by `MaxCrash`.

## 5. The proofs

Every theorem is checked by TLAPS for all values of the constants under the named
assumptions of its module.

The part of `AppLifecycleProofs` about `TaskGroup` assumes that the set of tasks is finite and the outside caller is
no task. The properties alone are not inductive, as they do not say what the map
and the counter hold. `IInv` adds: `running` holds exactly the tasks `finish` has
not deleted (`RunningIsRegistered`), `wait` is the number of accepted tasks that have
not called `Done` (`WaitCounts`, with cardinalities from `FiniteSetTheorems`), only
accepted tasks are cancelled, and what each Stop has established at each program
counter (`StopProgress`: `stoped` is set, and a waiter that closed its channel saw
everything released). `TypeCorrect` (the counter never goes below zero),
`DrainedIsFinished`, `NoSurvivor`, `TimeoutBeforeCancel`, `ReportIsTrue` and `AddBeforeWait`
(a waiter exists only after `stoped` was set, under the lock that `Go` takes) follow.
`PanicsStayInside` needs one more fact, that a goroutine unwinds only out of a faulty
callback and through `finish` (`Unwinds`). `GroupIsLifecycle` maps every step: accepting,
refusing, leaving, ending, closing and the final `StopCancel` are steps of
`TaskLifecycle`, all others change nothing there; that `StopCancel` reaches all active tasks
is `RunningIsRegistered`, that a drained Stop cancels nobody `StopProgress`.

The part about `AppLifecycle` assumes, beside that, one Stop and a window and an interval that
are not zero. First, every step of the process is a step of `TaskGroup` or none
(`ImplementsGroup`; a call that meets `nil` is a refusal, because by then the group was
stopped), so that the group's invariant is the process's. `Order` ties the stage of main
to its Stop, `Handlers` says who can call `Go` and who has the pool at each stage, and
`ReadyWindow` that a database which is up was found down less than an interval before
it came up. `OrderlyExit`, `NilAfterGrace`, `PoolForHandlers` and `RecoveryIsFound` follow;
`OrderlyExit` is the combination of the order with what the group promises of a Stop that
drained and of one that timed out.

The part of `AccountsProofs` about `AdminBootstrap` assumes that every configuration names an administrator or
none and that there is at least one permission. `ServingImpliesDefaults` is not
inductive: the last statement makes it true only because of what the replica itself
did before. `IInv` says what is in the tables at each place of the initialisation
(`Established`); the tables only grow (`Growth`), which is why the other replicas
cannot take it away. `ServingHasDefaults` and `RestartKeepsRow` follow.

`DevPortsProofs` assumes that no derived project is called like the template and
that at most one repository is not derived. There is no lock, so the argument is the
audit's: a project writes its manifest before it reads the others', hence of two
that both win, the one whose audit ended last has seen the other's. The invariant
says, for each project, what may be in its files at each place (`Places`), that the
template is untouched (`Originals`), and of an audit under way what it has seen and
will see (`Audits`). `WinnersNeverClash`, `ConfigFollowsManifest` and
`BundleIsFixed` follow.

The part about `Accounts` rests on it: the statements of requests leave what the
replicas established alone, so that its invariant stays one when requests run beside
them. `AInv` adds what a request knows at each place (`ReqPlace`) and that a
request whose INSERT was confirmed left its row behind (`Won`); rows are never removed
(`RowsStay`), hence a second INSERT of the name is refused: `OneConfirmed`. `ExistsIsTrue`,
`LoginWasEnabled` (the account was enabled and the password right), `NobodyElseSwitches` and `ServingAmongRequests` follow.

`AdminGateProofs`: nothing keeps the tables still between the reads of a request, so the
invariant speaks of histories. Each check that lets a request pass leaves a fact in them
(`Place`), and facts are only added (`Observed`). A statement that fails is a fact too: a
refusal for want of the permission is true, or the query of the permissions failed. `GuardedWasCleared`, `RefusalWasTrue` and
`SwitchCleared` follow for any number of requests, administrators, names and users.

`WebSessionProofs`: a token that nobody has seen travels in the answer of one login only
and is neither stored nor gone (`FreshTokens`), which is why storing it cannot bring back
an old one: `GoneForGood`. A tab that does not show the session is due to hear of a change
(`EveryTabAgrees`). A call of `auth.me` whose answer is still wanted was sent by the session
that is stored, or its tab is due to hear of a change or to render one (`LiveCalls`):
`SnapshotIsOfSession`.
`EndsForCause` reads what each step does to the storage (`Effect`).

`ReleaseProofs` assumes that there is a version, that no publisher is called `Nobody` and
that `Mixed` is no version. `Place` says what a publisher that was not overtaken has at each
step: the directory, the archive, the image and the container in turn hold its version,
and past the guard the database has its migrations. The database only moves forward
(`DbGrows`) and every other write to the host overtakes those who rely on what was there.
`GuardIsSoundAlone` and `SuccessIsTrue` follow.

`EntStoreProofs` and `UserDirectoryProofs` hold for any schema record, not only the six.
`ValueAssumption` says that the values of a column can be told apart, `IdAssumption` that
ids are integers, `UsersAssumption` which columns the server names, `LimitAssumption` that
the limits of a page are positive. `SchemaAssumption` asks of every schema that what the
generator derives from one field in several places fits together (`Fitting`): every
validator is in both lists of checks, no update writes an immutable column, only what may be
NULL is cleared, a column that is neither NULL nor filled in by the table is required and
inserted. TLC evaluates it for the six tables, so that a proof for all schemas is one for
these; a builder generated wrongly would fail there.

`StoreInv` types rows, mutations and builders, because a row is valid after a statement only
since the mutation was checked and the check speaks of the values set: the lemmas give, for
each method of a mutation, what it leaves, and for each statement what the table is after it
(`Writes`). `RowsValid` and `ImmutableKept` follow, as a hook may call any method but is
followed by the check and by `sqlSave`. `OthersOnly` is what `OldValuesCommitted` needs: as long
as no statement of a session can have taken effect (`HasWritten`: it is in its first save and
has no answer, or a refusal), no row holds its value; one that read after a lost answer would
break it. `ColumnsKept` and `AnswersTrue` come from `Runs`: a statement changes only the rows
it selects and the columns that were named, and what `Save` or `Exec` answers agrees with the
table before and after it.

Of the list, `Rank` is the number of users with a greater id, the place that
`Order(Desc(id))` gives; a page is a set of ranks (`RankIs`, `RankFalls`, `RankCovers`). With
the server's writers (`ServerOnly`) a name never changes and no user is deleted, so what the
reader looks for only grows, at the front: ranks rise (`RankGrows`). `WalkInv` says that who is
still to be met has a rank at or behind the next page, that the total counted is at most what
is there now, and that an ended walk left nobody unless the numbers of the last reply differ.
`WalkComplete` and `PagesCoverTotal` follow for any page size, limits and requests.

A type invariant is stated per module and proved as a theorem (`TypeCorrect` and its
like; `StoreInvariant` and `DirInvariant` for the database client); the runs do not check it
again. Every safety invariant and action property of a passing run is stated by a theorem.

Only model-checked: liveness (`StopReturns`, `ShutdownCompletes`, `ProcessEnds`,
`DefaultsEventuallyComplete`, `RetryCompletes`), which is beyond the prover.

## 6. Where the code and its own words disagree

`accounts_unique`: `server/internal/data/auth_repo.go:108` wants a name unique
across `users` and `admin_users`, and `CreateUser` looks at both. The start of a
replica (`admin_user_init.go:39`) inserts its administrator without a look at
`users`. TLC shows a user registered under a name which a replica with a later
configuration then takes for its administrator.

`web_late_rejection`: `web/src/common/utils/jsonRpc.js:97` says that only an invalid
login state clears the token. `handleAuthError` logs out whatever session is there
when the rejection arrives: a call sent with an older token, or none, ends the
session of a login made since.

`release_guard`: `server/deploy/compose/prod/README.md:122` says of the default mode that
a publication is blocked as soon as a pending migration is found, and line 127 that no
code may be published while the database lacks its migrations. The guard
(`publish_server.sh:209`) looks at a directory that another publisher may replace between
the rsync that filled it (`publish_server.sh:182`) and the status. TLC shows a publisher
that passes the guard on the other's older files.

## 7. What is not modelled

- Of the generated client: transactions (`tx.go`; no code of the repository opens one),
  interceptors, grouping, selection and eager loading of a query, the variants that panic,
  predicates on an `UpdateOne`, and the string forms. Of the generated messages and
  transports nothing: they have no behaviour of their own.
- `EveryRowValid`, `OldIsCommitted` and `AnswerIsTrue` are about the generated client as a
  caller may use it. The server registers no hook, creates no rows in bulk, asks for no old
  value and saves no builder twice.
- The configuration of a publication: that `APP_IMAGE` on the host and the local `IMAGE_NAME`
  name one image is taken for granted by `Release`, and so by `SuccessMeansMyVersion`. Their
  defaults agree; the scripts compare nothing.
- A user disabled between the read of its row and its token gets the token all the same;
  `LoginSawEnabledAccount` asks for one moment of the call only, and no text of the
  repository asks for more.
- Tokens, hashing and signing: libraries; of a token only its validity and claims
  matter to the models.
- The scopes of the browser are one at a time; they share only the legacy key,
  which is modelled.
- `auth.me` of a disabled user answers until its token expires; that is how the
  code treats stateless tokens and no text of the repository promises otherwise.
- `user.list` echoes the limit it was asked for, not the one it was clamped to; the
  administrators' page asks for 30, which is not clamped, and nobody else reads the echo.
- `rbac.overview` reads roles and permissions by two queries of two instants and changes
  nothing.
- An administrator without any permission makes `AdminLayout` call `auth.me`
  without end: `Render` with the effect `ask` is enabled again and again in the model as well; there is
  no property.
- The administrators' list of users is written by several unsequenced requests, so that a
  late answer may replace a newer one. The reader of `UserDirectory` waits for each answer;
  the page promises nothing that a property could state.
- Tasks in their grace period lose the database: the pool is closed before the group is
  stopped. `AppLifecycle` reaches such states; no text of the repository promises tasks
  anything else.
- When the initialisation of the administrator fails, `NewData` returns without closing the
  pool (`data.go:168`); the process ends right after, and the pool with it.
- `server/deploy/compose/prod/compose.yml` sets no grace period, so docker kills the
  container 10 s after the signal, before the 30 s of the group are over. A kill ends
  the process wherever it is.
- `lab-observer.py` samples other services, computes the phase it shows anew from each
  sample, and keeps nothing. Charts, manifests, load tests, framework wiring and logging
  have no state of their own. `PROJECT.json` gives the reason for each.

## 8. Plan

What is left, in this order:

1. The list of `AdminUsers` with several requests under way, once there is a statement of
   what it should show.
2. The phase functions of `lab-observer.py` as operators against a reference.

# UIMS: a verification project

UIMS is a TypeScript monorepo: a NestJS API (`apps/api`), a React client (`apps/web`) and shared
packages, over PostgreSQL (through Prisma) and Redis. This directory holds TLA+ models of the parts
of it where several requests meet on the same rows, the TLC configurations that check them, and
TLAPS proofs. Paths below are relative to the repository root (`src/` in `PROJECT.json`).

## 1. Inventory

Every component, its state, what it does and what could go wrong. *Hard* says which behaviours a test
would hardly reach. All API state that matters is in PostgreSQL, reached from request handlers that
interleave at every `await` (and run in several processes when the API is replicated). Prisma's
interactive transactions run at PostgreSQL's default READ COMMITTED: a statement sees what was
committed before it, updated rows stay locked to the commit, and a check followed by a write is not
atomic. Only unique indexes and foreign keys hold between transactions.

| component | state | operations | hard | correct when |
|---|---|---|---|---|
| auth (`modules/auth`, `jwt-refresh.guard.ts`) | `RefreshToken` rows (hash unique), Redis session key | login, refresh with rotation and reuse alarm, logout | two refreshes with one token; logout in the middle of a refresh; lost responses; crashes between calls; the one-second resolution of the token | a login has one working token; a spent token works never again and raises the alarm |
| users (`modules/users`) | `AppUser` rows | create, update, toggleStatus, remove (cascades to tokens) | runs between the calls of auth | tokens never cross accounts |
| web client auth (`services/api.ts`, `stores/auth.store.ts`, `useRealtimeNotifications.ts`) | queue of refused requests, the promise of the one refresh in flight, stored tokens | queue, refresh, replay, sign in and out | callbacks in any order, two callers of refresh, lost answers, reloads | a spent token is not presented; every request is settled |
| licenses (`modules/licenses`) | `License.totalSeats/usedSeats`, `LicenseAssignment` rows (no unique index) | assign, revoke, batch, bundle, update | count-then-insert races; stale counter; partial bundles | counter equals open rows; capacity; one seat per user |
| directory (`modules/directory`) | `DirectoryUser` rows, and the tables of licenses and assets | assignLicense, unassignLicense, assignAsset, unassignAsset, remove | the same tables as two other services under other conventions | both services agree |
| assets (`modules/assets`) | `Asset` (status, holder, pending flag), `AssetHandoverRecord` ledger, models, cost centres | allocate, return, transfer, batchAssign, attach a signed document, update, delete, intake | check-then-write, stale readings, several records for one move | in use iff held; the ledger tells the holder; the chain of custody has no gap; the flag is right |
| inventory (`modules/inventory`) | `DeviceModel` and its units, numbered codes (unique) | create, restock, intake, remove | restock numbers after a count that races and deletions make wrong | the next restock finds its numbers free |
| network (`modules/network`) | switch ports that name each other, racks and mounts, IP addresses and the counters of subnets | links, ports, placement, create/update/delete of addresses | peers read before the transaction; placement checked and then written; counters counted and then written | a cable has two ends; no two devices in one unit; counters equal rows |
| access control (`modules/access-control`) | doors, external people, assignments, signed scans (row and file) | grant, revoke, upload, delete | rows read before the transaction; files and rows that fail apart | one row per door and person; no row without its scan |
| notifications (`modules/notifications`) | notification rows, events to the tabs, the badge of a tab | create with pruning, read, delete, clear, nightly prune, loading a page | counts pushed out of order, lost or never sent; a badge counted from one page | the badge is right after a quiet operation that sends its count |
| scheduled alerts (`scheduled-alerts.worker.ts`) | records and licenses that are due, throttle keys in Redis | hourly and nightly scans, clearing a key | two processes scan at once; renewal during a scan; a crash between reminder and key | one reminder per cooldown; no scan makes a valid license EXPIRED, but one renewed under it |
| settings (`modules/settings`) | `Setting` rows and copies in Redis | get, update with invalidation | a reader puts an old value back; a del that is lost | no stale copy |
| redis (`common/redis`) | connection, fallback map in the memory of the process | get, set, del | connection lost and back between a set and a del | a deleted key is not read again |
| organization (`modules/organization`) | `Organization.parentId` | create, move, delete, tree | two moves that race make a cycle | no cycle from one move; the tree shows everyone |
| roles and guards (`modules/roles`, `common/guards`) | `Role`, `RolePermission`, `AppUser.roleId` | create, clone, save, sync, remove | deleteMany and createMany without a transaction | a role permits exactly what was asked |
| audit (`modules/audit`, `audit.interceptor.ts`) | append-only log | log a request | none: nothing reads it | - |
| search, dashboard, reports, health, crypto, app shell | rows or none | queries | none across requests | - |
| web pages, shared packages, seeders, deployment | presentation and configuration | - | - | - |

The components meet in the database: users delete the token rows auth works on; the directory service
writes the seats and counters of the license service and moves assets through the asset service
(`allocate`, `returnUnits`) or past it (`remove`); the web client and the alarm of auth answer each
other. `PROJECT.json` lists every component with its status and every hazard with its line.

## 2. The modules

| module | models | abstract / composes |
|---|---|---|
| `RefreshTokens` | auth: login, refresh, logout, guard; account operations of users | implements `SessionLineage` |
| `SessionLineage` | what rotation promises, without requests, table or clock | abstract specification |
| `RefreshTokensProof` | theorems about `RefreshTokens` | extends `RefreshTokens` |
| `WebSession` | the interceptor, its queue, the store and the socket of the client, against an abstract server | uses the rotation and the alarm of `RefreshTokens` as one step each |
| `LicenseSeats` | licenses: every seat endpoint | |
| `DirectorySeats` | the seat endpoints of the directory service | extends `LicenseSeats`: `DirNext` adds to its `Next` |
| `Custody` | assets: every endpoint that moves a unit or writes a handover record, and the directory endpoints that do | |
| `Handlers` | a request handler: a record with a program counter, and whether it ran alone | extended by the modules below |
| `PortLinks`, `RackMounts`, `SubnetStats` | the three parts of the network service | |
| `Network` | their composition | extends the three |
| `DoorAccess` | access control | |
| `RedisCache` | get, set and del with the fallback | used by the next and by `AlertScans` |
| `SettingsCache`, `OrgTree`, `RolePermissions`, `Inbox`, `AlertScans`, `Stock` | settings, organization, roles, notifications, scheduled alerts, units and their codes | |
| `Console` | their composition | extends the six |
| `ConsoleProof` | theorems about `Console` | extends `Console` |
| `CustodyProof` | theorems about `Custody` | extends `Custody` |
| `LicenseSeatsProof` | theorems about `LicenseSeats` | extends `LicenseSeats` |
| `DirectorySeatsProof` | theorems about `DirectorySeats` | extends `DirectorySeats` and `LicenseSeatsProof` |
| `DoorAccessProof` | theorems about `DoorAccess` | extends `DoorAccess` |
| `NetworkProof` | theorems about `Network` | extends `Network` |
| `WebSessionProof` | theorems about `WebSession` | extends `WebSession` |
| `MC...` | symmetry and constants for TLC | |

Conventions. A request is a process with a program counter `pc`; an action is one call to the database
or to Redis, with the control flow up to the next one. Names of actions are those of the handlers or of
what the statement does. An operator whose comment begins with "Mutant of" is a plausible bug, used to
confirm that a property can fail; it is in no next-state relation. Several properties begin with `Alone`:
they speak of a request during which no other began, ran or ended (`alone`, a history variable of
`Handlers`), in whatever state earlier races and failures left the tables. That is the most the code
can promise where it checks first and writes later.

A composition has a constant set `Areas`, and each behaviour is about one of them: the parts share no row
that both write, so that interleaving them shows nothing that one alone does not. What two parts do share
(the switch row of cables and racks, the Redis keys of settings and alerts) is said in the module.

### RefreshTokens

`rows` is the `RefreshToken` table indexed by the token itself (the row is found by a hash under a
unique index). A token is `[user, iat]`: the JWT is signed over the user id, the email and the second,
with no random part, so signing twice in a second gives the same string; the model keeps exactly that.
`refresh` is `ReadUser`, `FindToken`, `Consume` (the conditional `updateMany` at
`auth.service.ts:445`), `Sign`, `Create`, `SetSession`, `Respond`, or, for a revoked token or a lost
race, `RevokeAll`, `DelSession`. Login joins at `Sign`, logout at `RevokeAll`. No handler opens a
transaction, so any request may run between two steps. `Faults` chooses database writes that fail and
are swallowed (`dbWrite`), processes that die (`crash`) and responses that do not arrive (`response`).
`family` and `ended` are history: the login a token descends from, and the logins a logout or an alarm
has ended. Left out: the password check, role and permission lookups (a failing one is a lost
response), and the session key's value beyond which token was put there; nothing reads it to decide.

### WebSession

The steps are those of JavaScript: one event and all the continuations it settles. Token *n* is the *n*-th
pair the server has issued; `live` are the refresh tokens that work. Per tab: the store, the promise and
the POST in flight (`post`), the call that has set `isRefreshing` (`leader`); per call its place in
`handleUnauthorized`, `queueFailedRequest` or the retry. `disk` is localStorage, read when a page loads. A POST whose page
has gone still reaches the server (`adrift`). `excused` is history: spent tokens that somebody was left
holding for a reason the property names. The age of access tokens is left out: any check of one may fail.

### LicenseSeats and DirectorySeats

An assignment row has an id, a state (`open`, `closed` = `unassignedAt` set, `deleted`) and the
transaction that has inserted it and not committed. `Rows(r)` is what READ COMMITTED lets request `r`
see. `wrote` and `ending` are a transaction's uncommitted writes and, since PostgreSQL locks what it
updates, the locks others wait for (`Unlocked`, `NotEnded`). A bundle holds locks on several licenses
while it goes on; the others write `usedSeats` last, so that write and the commit are one step
(`WriteUsed`). Inserts join the count they follow: nobody else sees an insert before the commit.
`Abort` ends any transaction at any point and undoes it: time limits, lost connections and deadlock
victims. `DirectorySeats` adds the endpoints that check outside their transaction (`DirRead`,
`DirFind`), trust and adjust `usedSeats` (`DirInsert`, `DirReadUsed`, `DirWriteUsed`) and delete rows
(`DirDelete`, `DirDeleteUser`). Left out: deleting a license, changing its type, and all the fields
that decide nothing here.

### Custody

`unit` is the `Asset` row (status, holder, pending flag), `ledger` the handover records in the order of
creation; a record has its asset, kind, recipient, whether it waits for its document, and whether its
notes say it belongs to a transfer (the code looks for that text). Each endpoint is a check and one
commit, or more steps where the code has more: `attachHandoverDocument` reads the holder before its
transaction, resolves records, counts the pending ones and writes the flag; a transfer supersedes
pending assignments before its two records. `resolved` and `released` are uncommitted updates and
locks. `issueUnit` and `assignAsset` check the same things and call `allocate`; `checkinUnit`
and `returnAsset` are `returnUnits` for one unit. A single batch covers one chunk (100 assets). Foreign
keys are kept: a commit fails when a recipient has gone, and removing a user sets holders and
recipients to null; an asset's records go with it. The two records of a transfer are kept in the order they are created in;
the readers sort by `createdAt`, and equal milliseconds would order them by a random id.

### Network

`PortLinks`: `port[p]` has the port it is connected to and the asset; `mine[r]` are the rows a transaction
has written, seen by it alone and locked. `createTopologyLink` reads both ports, opens its transaction, clears the ports
that point at the two (Step A), then the peers it read before (Step B), then writes both ends; the unique index on
`connectedPortId` refuses the rest. Connecting an asset, unlinking, `updatePort`, creation and deletion of
ports and switches join in. `RackMounts`: `createSwitch` and `updateSwitch` are the reading of the switch, `validateRackMount` and the
write; `Wish` is what a request names, `Keep` what it leaves out. `SubnetStats`: an address request matches
its subnet, finds or chooses an address, writes the row and then counts and writes the counters of the
subnets it left and entered (`todo`); a failure of those is logged and forgotten (`SyncFaults`).
Left out: VLANs, MACs, layout, labels, discovery and reports.

### DoorAccess

`row` are the assignments, `scan` and `file` the record of a signed scan and the file under it, `mine` the
uncommitted rows. A grant checks its people and doors, keeps the scan if it brought one, then goes through
the doors in a transaction: it reads the row of door and person and updates or creates it; a revocation
closes the rows it had read. The catch block of both takes away the file they saved. `undone` is history:
the scans whose file a failed request took away after they had been recorded. Left out: validity dates, and
several people in one grant.

### Console

`SettingsCache` over `RedisCache`: one setting, whose value is how often it was written, and two keys with copies of it, in
Redis and in the memory of each process that had no connection. `OrgTree`: the climb of `updateOrganization`, one read at a time, and
the tree of `getHierarchyTree` as functions of the rows (it reads 50 of them at most; `Orgs` is no more).
`RolePermissions`: the `deleteMany` and the `createMany` of a save are two steps, with failures between.
`Inbox`: the operations of one user's notifications, pruning included, the events on the wire and what a
tab makes of them. The tab loads a page when it opens and whenever its token changes (`LoadPage`, `ShowPage`; one load at a time is modelled): the badge is then
what is unread of that page (50 rows in the code, `Page`, while up to 100 are kept, `Cap`). The user may be a
Super Admin, whose page has rows of everybody: any number of unread ones. A Super Admin's `markAllAsRead` and
`clearAll` have no `userId`: the one reads everybody's rows and sends no count (`MarkEverybodysAsRead`), the other
sends "cleared" to everybody and no count after it (`ClearAll`, `PushCleared`). What a tab adds to its own badge for
its own clicks is left out: the answer to its `markAsRead` takes one off once more, after the count if that
came first, so the badge of that tab may be one too low until the next count.
`AlertScans`: each scan reads what is due, then per row writes EXPIRED (licenses), looks
for the key, reminds, sets the key; keys expire, records are resolved and licenses updated meanwhile. A license may be created
with any status, and an update writes date and status each alone or both, without looking at either (`UpdateLicense`),
so a license that is not due can be EXPIRED by hand. EXPIRING_SOON and ACTIVE are one status here, "not EXPIRED": the
tiers of the scan that write EXPIRING_SOON are such an update.
`Stock`: a unit is its two codes, restock a count and a transaction that numbers after it.

## 3. The runs

Each run answers one question; `PROJECT.json` names its properties and, for each, a mutant of
the code that breaks it. Bounds are constants of the modules.

| run | question | bounds and why they are enough |
|---|---|---|
| `RefreshSafety` | Is there ever a login with two working tokens, a token that changes hands, a step that `SessionLineage` does not allow? With failing writes, crashes and lost responses | one account, two requests, seconds 0..2, tokens that live one second: two requests are what it takes to race for one token, three seconds are two generations and an expired token |
| `RefreshReplay` | Does a replayed token end, in the end, every session that worked when it was presented? | `FairSpec`, one account, two requests, two seconds, lost responses |
| `RefreshLogout` | Does a login that was ended stay ended? **No** | two requests |
| `WebSession` | Does the client ever raise the alarm against itself, and is every call settled? | `FairSpec`, one tab, two calls that may fail together, three token pairs (two rotations), lost answers, a socket that refreshes |
| `LicenseRaces` | How far can racing transactions overshoot, and does a wrong counter heal? | one license of one seat, two users and an email-only seat, two transactions, three rows: one more row than the bound on the overshoot |
| `DirectorySerial` | What holds between the two services when no two requests overlap? | two licenses (one unlimited), two users, three rows, every seat endpoint but `batchAssignUsers` (it runs in `LicenseRaces`); aborts included |
| `CustodySerial` | Does the ledger tell the holder, without a gap? Has every flag its record? | two assets, two users, four records: an assignment, a transfer (two records) and a return |
| `CustodyRaces` | What survives two racing requests? | one asset, two users, two requests, three records |
| `CustodyEdits` | Does the flag heal whatever allocations, batches, edits, status changes and the removal of a user did? | one asset, one user, two requests, two records, the status MAINTENANCE in payloads |
| `Network` | What does a quiet request keep, whatever races left behind? | two requests; three ports on two switches and an asset; two devices of one or two units in a rack of two; two subnets of which one lies in the other, two addresses, one address request at a time and failing counters |
| `DoorAccess` | Does every row keep its scan, and a quiet request do all and only what it was asked? | two requests, two doors, one person, two rows, two scans; requests together about two doors or rows |
| `Console` | For which reasons, and no others, is a copy stale, a reminder doubled, a license wrongly expired, a badge wrong, a role inexact, a restock refused? | two requests on two processes; two updates of a setting; three organizations (a cycle and one below it); two roles and two permissions; three notifications with a cap of one, a page of one, operations that begin with nothing on the wire (two that race put several events on it); two records, one license; two numbers |

Symmetry is used for sets of interchangeable model values, never in a run with a liveness property.
Deadlock is checked everywhere but in the refresh runs: with every account
deleted and no token delivered, or the clock at its bound, the modelled system has nothing left to do.

### What holds

- One working token per login, and one request at a time between burning it and persisting
  the next (`OneLivePerLogin`, `OneHolder`), with every fault on; the handlers implement
  `SessionLineage`. The conditional update at `auth.service.ts:445` carries all of it.
- A replay ends every session that worked at that moment (`ReplayEndsSessions`), also when
  other refreshes are half done.
- The client presents a spent token only when a second tab had it, a page was reloaded during a refresh, a
  refresh of the socket was lost or the session was ended (`NoFalseAlarm`); every call is settled, but one that
  queues behind a refresh only the socket asked for (`CallsSettle`).
- The overshoot of a license is at most one fill per racing transaction (`OvershootBounded`), and a
  quiet operation of the license service repairs the counter and keeps the capacity
  (`AloneHeals`, `AloneWithinCapacity`), whatever the directory service or earlier races did.
- One request at a time, the counter never claims more seats than are taken and no user holds two seats.
- In use exactly when held, and a record for every holder, also under races of allocate, return,
  transfer, attach, unassign and delete. One request at a time, the ledger tells the holder without a gap.
- A document attached while nothing else runs leaves the pending flag right, whatever it was.
- A quiet link leaves no new half cable and is never refused by the index, even among half cables that
  races left (`AloneLinksBothEnds`, `AloneNeverRefused`); a quiet placement adds no collision; a quiet address
  request whose counters do not fail leaves none newly wrong.
- Every assignment of a door has its scan, with the one excuse named below; a quiet grant or revocation does
  all its doors and makes no second row.
- A stale copy of a setting, a second reminder and an EXPIRED license that is not due each have one of the reasons
  their property names; the tree shows every organization, on a cycle or not; a quiet move makes no
  cycle; a quiet save leaves a role exactly what was asked; a quiet operation that sends its count leaves the badge right,
  whatever page was loaded before;
  as long as nobody deletes or numbers a unit by hand, restocks, however they race, number without a gap.

### What does not

One run ends in a counterexample against a line of the repository's own docs (`findings` in
`PROJECT.json`): a session survives a logout or an alarm that falls between the consume and the create of a refresh.

What the models show besides, at the steps named. Where a property carries an excuse or speaks of a quiet request
only, this is what it excuses:

- auth: a refresh within the second of issue returns the token it has just burned (`Sign`); a swallowed
  failure of `refreshToken.create` delivers a token no refresh accepts (`Create`).
- client: signing out does not tell the server and is undone by a refresh in flight (`SignOut`, then
  `Renewed`); calls queued behind a refresh of the socket wait for the next leader (`Stranded`).
- seats: two assignments take the last seat; revoking in one service and unassigning in the other
  decrements twice and lets the directory exceed the capacity; `assignLicense` refuses a user whose
  seat was revoked, because the old row exists; a seat given during the removal of a user stays open.
- custody: two allocations can both take one available asset; `unassignAsset` takes an asset that has
  moved to another user (`StartDirUnassign`, `Transfer`, `Return`); `deleteUnit` can delete an asset issued after its
  check; `batchAssign` over a held asset, and the removal of a holder, write no return; a signed
  return clears the pending flag over an unsigned assignment.
- network: racing links leave half cables and racing placements share units; `updatePort` connects an
  asset a second time; addresses in no subnet are unique by a check alone.
- doors: racing grants make two rows of which a revocation closes one; the record of a scan survives the
  failed grant that took its file, and can be cited; deleting a door or a person races a grant; the
  directory's `remove` leaves assignments ACTIVE.
- console: two moves that race make a cycle; two saves that race leave a role the union, one that fails half-way an
  empty role; two scans remind twice; `notifyAdmins` swallows its failures, so a key may be set with nobody
  reminded; EXPIRED is written over a renewal, and a new date alone leaves a license EXPIRED (only an update that
  gives another status puts either right); racing creations prune more than they must; counts overtake
  each other; a page counts only its own rows, a Super Admin's page those of everybody; a Super Admin who marks all as
  read leaves every badge as it was; one deleted or hand-numbered unit makes every restock that reaches its number fail.

### Fairness

`FairSpec` of `RefreshTokens` asks weak fairness of each request's handler: Node resolves or rejects every pending call, so
a handler that has begun takes its next step. It does not ask that requests arrive, that the clock
ticks or that administrators act. Crashes and failing writes are off in `RefreshReplay`: a process that
dies, or an `updateMany` whose error is logged and swallowed, before `RevokeAll` simply does not revoke,
and the code has nothing that would do it later. `FairSpec` of `WebSession` asks that the server answers each
call and refresh or the connection breaks, and that the browser delivers the result; not that users
do anything, nor that a socket reconnects. Every other run checks safety and assumes no fairness.

## 4. The proofs

`RefreshTokensProof` proves, for any sets of accounts and requests, any clock bound, token life and set of
faults, from `ConstantsAssumption` alone:

- `TypeCorrect`: `Spec => []TypeOK`;
- `LineageCorrect`: `Spec => []Lineage`;
- `RotationIsExclusive` and `HolderIsExclusive`: `Spec => []OneLivePerLogin`, `Spec => []OneHolder`;
- `ImplementsLineage`: `Spec => SL!Spec`, under the mapping in `RefreshTokens`.

The inductive invariant is `IInv == TypeOK /\ RequestsOK /\ Lineage /\ OneHolder`. `OneLivePerLogin` is not
inductive: `Create` makes a row live and must know that no other row of the login is live and no other
request is about to make one. That is `OneHolder`: per login, the live token and the requests between
`Consume` and `Create` are together at most one. For `Create` to give the new row the family of
the consumed one, that family must be known and closed under the root (`Lineage`), and the request must
carry what it claims to (`RequestsOK`). The proof has one lemma per conjunct; `RowsStep` and `FamilyGrows`
say once what each action does to the table, so that the other lemmas split into three cases instead of
twenty actions. The refinement shows that every step opens, renews or retires a login or leaves both
abstract variables alone.

`ConsoleProof` proves, for any sets of requests, processes, keys, records, licenses, roles, permissions and
users, any bound, and organizations as many as one page of the tree holds, from `SettingsAssumption`, `KeysAssumption`,
`ScansAssumption`, `StockAssumption`, `InboxAssumption`, `OrgTreeAssumption`, `RolesAssumption` and
`ConsoleAssumption`, every property of the run `Console`:

- `TypeCorrect`: `Spec => []TypeOK`;
- `StaleIsExcused`, `TwiceIsExcused`, `ExpiredIsExcused`, `RestocksLeaveNoGap`, `BadgeIsSettled`: `StaleExcused`,
  `TwiceExcused`, `ExpiredExcused`, `RestockLeavesNoGap` and `BadgeSettles` hold in every state;
- `TreeIsWhole`: `TreeShowsAll` in every state, whichever cycles the organizations are on;
- `AloneRoleIsExact`, `AloneMoveMakesNoCycle`: `Spec => AloneRoleExact`, `Spec => AloneMakesNoCycle`.

A behaviour is about one part, so each invariant speaks of the handlers only while `area` is its part, and
a lemma says what the next-state relation of the part does with it; `Parts` says that the others leave its
variables alone. None of the properties is inductive:

- `StaleExcused` needs that a reader about to fill the cache holds the present value or knows that it was
  overtaken, and that an update that has yet to write will delete both copies (`TasksKnown` in `SettingsOK`);
- `ExpiredExcused` needs that what a scan will make EXPIRED is due, or has been renewed since it was read
  (`UnmarkedKnown`);
- `TwiceExcused` needs, for every thing with which nothing was amiss, that one scan at most is about to
  remind, that it has not reminded before, and that after the reminder the key is there or about to be (`SureOK`);
- `RestockLeavesNoGap` needs that no restock has counted more units than there are (`InOrder`): one that
  counted all goes on where they end, one that counted fewer finds its first number taken;
- `BadgeSettles` needs that the last event under way carries the present count, or is "cleared" with nothing
  unread (`Final`), and that an operation that ran alone so far is about to send what is so (`CountKnown`);
- `AloneRoleExact` needs that a request that ran alone found no permissions left when it grants, and that the
  role it clones still permits what it read (`RoleKnown`); and that no handler of another part is at such a
  step (`OnlyRoles`);
- `AloneMakesNoCycle` needs that what a move that ran alone so far has climbed through is closed upwards but for the
  organization it reads next, and does not contain the one it moves (`OrgKnown`): when it writes, the new parent
  lies in a closed set without that organization, so no walk upwards comes back to it (`WalksAfterMove`);
- `TreeShowsAll` is about one state: an organization from which the climb never ends is shown at the top, one from
  which it ends after n steps at a depth below n (`EndsShown`). The two recursive functions it
  speaks of, `Above` and `ShownAt`, are used through their equations (`AboveSteps`, `ShownSteps`): that such a function
  exists, and what holds at every depth, is shown by the least depth at which it would not (`Least`), not by
  the induction theorems, which take an operator;
- `TypeOK` needs that no copy is newer than the setting (`CopiesKnown`), and that units have different tags,
  so that a restock's count is in its range (`UnitsCount`).

`LicenseSeatsProof` proves, for any licenses, users, transactions, rows and totals, from `SeatsAssumption`:

- `TypeCorrect`: `Spec => []TypeOK`. The strengthening says which statements have a license, and that only a
  revocation ends rows, all of them committed (`StepsOK`, `EndsOK`);
- `OvershootIsBounded`: `OvershootBounded` in every state. The bound on the committed seats is not inductive, and
  neither is one on what a single transaction adds: the invariant (`FillOK`) bounds all the open rows of a license,
  committed or not, and the uncommitted ones of each transaction. When one inserts, the committed rows and its own
  fit in the limit it read, and the other rows are pieces of one transaction each, none above `MaxSeats`;
  `CoveredByRequests` adds the pieces up with an injection into pairs of a transaction and a number.

`DirectorySeatsProof` proves, from the same assumption and `DirectoryAssumption`, of both services on the same tables
(`DirSpec`; `SpecIsDirSpec` carries it over to `LicensesService` alone):

- `BothTypeCorrect`: `DirSpec => []TypeOK`. Beside the types it needs that a row not committed is open and belongs to
  a transaction that is about to insert, count or write (`OwnersOK`);
- `AloneRequestHeals` and `AloneSeatHeals`: `AloneHeals`, of both services and of the specification `LicenseRaces` checks;
  `AloneRequestFits`: `AloneWithinCapacity`. A request that no other overlapped so far has read the limit the license
  has, counts all its open rows, and where it has seated somebody all of them fit (`AloneAt`);
- `SerialCounters` and `SerialSeats`: `DirSpec /\ []OneAtATime => []UsedNotOverstated`, and the same of
  `NoDoubleSeat`. The hypothesis says that no two requests are ever under way together, which is what the run
  `DirectorySerial` has with its one request (and what two that race break); the theorems add any number of
  requests that come one after another. `UsedNotOverstated` needs an invariant of the transaction half done (`CountersAt`): what
  `LicensesService` has written is at most what it has open, and what the directory's `remove` has
  written is at most the seats of the rows it has not been through yet, so that what it deletes at the end
  cannot leave a counter above them. `NoDoubleSeat` is inductive only for the rows not committed too (`OneRowEach`), with
  who is about to be seated having none (`SeatedOnce`).

`OvershootBounded` stays a theorem about `LicensesService` alone: `DirectoryService` trusts a counter instead of counting,
and the bound does not hold of it.

`CustodyProof` proves, for any finite set of assets, any users and requests and any number of records, from
`CustodyAssumption`:

- `TypeCorrect`: `Spec => []TypeOK`, for all the endpoints. It needs that a request about an asset has one, that
  a transfer has exactly one, and that who is given an asset is a user (`StepsOK`);
- `StatusFollowsHolder` and `HolderIsRecorded`: `HolderIffInUse` and `HolderHasRecord`, on the condition `Tame`: no
  call of `update` and of the directory's `remove`, and no status named in a payload. Each of those breaks at least
  one of the two (section 3), and the run `CustodyRaces` has the same condition; the theorems add any number of requests and the endpoint
  `batchAssign`. Every commit is one of rows that are consistent, and whose holder is nobody, the one before, or named
  by a record of the same commit (`Consistent`, `Accounted`, `CommitHolds`), whatever the request had read before;
- `AttachRepairs`: `Spec => AttachHeals`, for all the endpoints and whatever raced before. An attachment that ran
  alone so far settles records of its own asset, settles none only where none waits, and its count says whether one is left
  (`AttachOK`);
- `NewestRecordTells`, `ChainIsKept`, `FlagIsBacked`: `LedgerTellsHolder`, `ChainUnbroken` and `FlagHasRecord`, under
  `[]OneAtATime` and `Orderly`: none of `batchAssign`, `update`, a status set by hand and the directory's
  `remove` is called. Both conditions are those of the run `CustodySerial`, and both are needed: two
  allocations that race break the chain, and those endpoints change who holds an asset, or
  make a held one available, without both records of it (section 3). The three are proved together (`LedgerOK`), since none is inductive: a new assignment keeps the chain
  because whoever was assigned the asset and does not hold it has handed it back since (`HandedBack`), and nobody holds
  it who is not in its newest record (`LastTells`); and a commit writes what it read, which must be so still (`Fresh`).
  `CommitAppends`, `CommitHandsBack` and `CommitFlags` say of any commit what the ledger keeps; each endpoint then has
  to show only that its records tell the rows it writes.

`NetworkProof` proves, for any requests, ports, switches, racks, devices, subnets and addresses, and any bounds, from the
assumptions of the three parts and of `Network`, every property of the run `Network`:

- `TypesCorrect`: `Spec => []TypeOK`;
- `LinkNeverRefused`: `AloneNeverRefused`; `LinksBothPorts`: `Spec => AloneLinksBothEnds`. `LinksOK` says that the unique index holds in
  the table and in what each transaction sees of it (`TablesOK`), whatever races, and of a link that ran alone that the
  peers it read are still the two ends' (`LinkAlone`), so that after the two evictions no other port names
  them and every port let go had named or been named by one of them (`LetGo`);
- `MountsWithoutCollision`: `Spec => AloneMountsFree`. What a request validated is what it will write (`Goal`), and
  nothing has come in its way (`MountAlone`). The units of every other device stay as they are, so an overlap
  afterwards was one before;
- `CountersSettle`: `Spec => AloneSyncs`. Of a request that ran alone, every subnet with wrong counters had them before or is
  in the list it has yet to recount (`IpAlone`); a counted number is still the right one when it is written.

`DoorAccessProof` proves, for any requests, doors, people, rows and scans, from `DoorsAssumption`, every property of the run
`DoorAccess`:

- `TypesCorrect` and `ScansAreKept`: `Spec => []TypeOK`, `Spec => []ScansKept`. `ScansKept` needs the same of the rows a
  transaction has written and not committed, and that a request about to write holds a scan of its own type
  whose record nobody deletes (`KeptOK`);
- `AloneRequestDoesAll` and `AloneRequestAddsNone`: `Spec => AloneDoesAll`, `Spec => AloneOneRow`. The invariant `AloneOK` follows a
  request that runs alone door by door: those it is through with have their open row among what it has
  written, what it found for the present one is still so, and what it sees has no pair of rows that was not
  there before.

`WebSessionProof` proves, for any number of tabs, calls and tokens, from `WebAssumption`, `TypesCorrect` (`Spec => []TypeOK`) and
`NoAlarmIsFalse` (`Spec => []NoFalseAlarm`); the run has one tab. Every place a token is kept in (the store of a tab,
localStorage, a POST under way) holds one that works, is excused, or is about to be replaced because the POST
that spent it has been answered; an answer on its way carries a token that nobody else has (`TokensOK`).

So every safety property of the passing runs is a theorem. Only model-checked: liveness (`ReplayEndsSessions` and
`CallsSettle`; fairness and ENABLED are out of reach of the prover), and the violation of `EndedStaysEnded`, which is
a counterexample and not a theorem.

## 5. Not modelled, and the plan

To be proved next: that the interleaved handlers implement atomic specifications of their part while they
run alone, and what the ledger keeps under races (a chain with a named excuse).

Not modelled, and why:

- parts of modelled components that decide nothing for the rows here, named in the sections above and in
  `PROJECT.json` (VLANs, thresholds, vendors, categories, other scans, departments and positions, whose writes
  are one statement after one check);
- audit: rows are only added, after the answer and outside every transaction, and nothing reads them to decide;
- search, dashboard, reports and health: queries;
- cryptography and formatting: functions of libraries or of single values;
- web pages and the shared packages: presentation over the API, and pure functions;
- seeders run once on an empty database; the schema is where the modules take tables, unique indexes and
  foreign keys from; deployment is configuration, and that several API processes may run is assumed.

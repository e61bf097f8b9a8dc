# SecureFile Storage in TLA+

TLA+ specifications of the SecureFile Storage service (`src/`): what its
handlers do to PostgreSQL, Redis and the blob store, model-checked with TLC on
small instances and, for the properties that matter most, proved with TLAPS for
every instance.

## 1. The system

The service is one Node.js process (Express, TypeORM, ioredis). There are no
threads and no locks: a handler runs until its next `await`, and the handlers of
all open requests interleave there. **No database transaction spans two calls**,
so every hard behaviour of this system is an interleaving of awaited calls, or a
handler that stops between two of them.

| Component | State it keeps | Operations | What makes it correct |
|---|---|---|---|
| Upload (`UploadFileUseCase`) | rows of `files`, `file_versions`, `users.storage_used_bytes`, blobs | create a file, add a version | an answered upload is kept; quota; versions numbered without gaps |
| Delete (`DeleteFileUseCase`) | the same | soft delete, permanent delete (admin) | final; gives quota back; leaves nothing behind |
| Download (`DownloadFileUseCase`) | none | look up, fetch | finds the content of what it was allowed to read |
| Repositories (`TypeOrm*Repository`) | PostgreSQL | find, save (an upsert), delete | foreign keys, unique e-mail |
| Blob storage (local, S3) | content by path | upload, download, delete | content named by a row exists |
| Login (`LoginUseCase`) | `login_attempts:<email>` in Redis, `users.last_login_at` | check, count, clear, record | lockout; does not disturb the quota |
| Refresh, logout | `blacklist:<token>` in Redis | rotate, revoke | a revoked token stays out until it expires; every request is decided as by one register of revoked tokens |
| Authentication middleware | none | blacklist check, then verify | as above |
| Registration | `users` | check address, hash, insert, issue tokens | one account per address; a refusal is true; an answered account stays |
| Listing, history (`ListFilesUseCase`, `GetFileVersionsUseCase`) | none | page through rows, read versions | pages cover the list; an answered file has a history |
| Shares | `shares`, cache | generate, access | expiry, `maxDownloads`, gone with the file |
| Rate limiter | counters in memory | count | library, not modelled |
| Lifecycle (`main.ts`) | server, connections | start, stop on a signal, exit on an unhandled rejection | clients that wait are answered before the stores close; every shutdown ends |

Use cases call repositories and providers; they share nothing in memory. They
interact through the tables and keys only: upload, delete and login all write
the `users` row; upload and delete write the same `files` row; delete removes
what download and share access are about to read; logout writes what refresh and
the middleware read.

What is hard:

* **Lost updates.** Every update saves an entity read some awaits earlier.
  TypeORM's `save()` is a SELECT followed by an UPDATE of the columns that differ
  from what the SELECT found, or by an INSERT if it found nothing. So a stale save
  overwrites, *and* a save of a row that is gone brings it back.
* **Partial effects.** A rejected call ends the handler with an error answer and
  leaves its earlier effects; a crash does the same without the answer.
* **Check, then act.** Quota, blacklist, attempt counter, download counter and
  version number are read, and acted on awaits later.
* **Start and stop.** A shutdown waits for connections and not for handlers, so a client
  that hangs up leaves its handler to stores that close; two signals run its callback
  twice, and a rejection nobody handles ends the process at once.
* **Reading while others write.** A listing is read page by page from a changing table.
* **Time.** Tokens, blacklist keys and attempt counters expire on their own.

The hazards, each at its line and with the properties that watch it, are in
`PROJECT.json`.

## 2. Modules

| Module | Models | Built on |
|---|---|---|
| `FileStore` | upload, delete, download, version history and login's user write over the tables and the blob store; all interleavings, rejected calls, crashes | |
| `MCFileStore` | symmetry for TLC | `FileStore` |
| `FileContract` | what the file use cases promise a client who waits for each answer: one atomic transition per accepted request | |
| `Listing` | `ListFilesUseCase` and the list query: whose rows, in which order, on which page | `FileStore` |
| `FileStoreSerial` | one request at a time: the refinement of `FileContract` by `FileStore`, and what holds between requests | `Listing`, `FileContract` |
| `MCFileStoreSerial` | creation times, pages and limits for TLC | `FileStoreSerial` |
| `FileStoreClaims` | statements of comments and documents that the code does not keep | `FileStore` |
| `FileStoreProofs` | types and quota of `FileStore` as theorems | `FileStore`, TLAPS |
| `FileHistoryProofs` | what `FileStore` keeps of files, versions and content, what a purge leaves, and when a delete is final, as theorems | `FileStoreProofs` |
| `FileSerialProofs` | the refinement, the exact states between requests and the quota as a sum, as theorems | `FileStoreSerial`, `FileHistoryProofs`, TLAPS |
| `ListingProofs` | theorems about `Listing` | `Listing`, TLAPS |
| `TokenRegister` | what sessions promise: one look at a register of revoked tokens from which nothing is struck | |
| `Sessions` | tokens, clock, blacklist; login, refresh, logout, authentication middleware; the refinement of `TokenRegister` | `TokenRegister` |
| `MCSessions` | symmetry for TLC | `Sessions` |
| `SessionsProofs` | theorems about `Sessions` | `Sessions`, TLAPS |
| `LoginGuard` | the attempt counter of login: GET, password check, INCR, EXPIRE, DEL, and time | |
| `LoginGuardProofs` | theorems about `LoginGuard` | `LoginGuard`, TLAPS |
| `Shares` | share links: generate, access, the delete and purge of their files, and time | |
| `MCShares` | lifetimes, maxima and symmetry for TLC | `Shares` |
| `SharesProofs` | theorems about `Shares` | `Shares`, TLAPS |
| `Accounts` | registration over the `users` table, and how a login finds its account | |
| `Lifecycle` | `main.ts`: start-up, connections, shutdown on signals, crash, restart | |
| `AccountDirectory` | what registration and login promise: every request takes effect in one step, accounts only come | |
| `Service` | a process that serves the requests of `Accounts` while it goes through `Lifecycle`, and the refinement of `AccountDirectory` | `Accounts`, `Lifecycle`, `AccountDirectory` |
| `MCService` | spellings of addresses for TLC | `Service` |
| `ServiceProofs` | theorems about `Service` | `Service`, TLAPS |

### How `FileStore` corresponds to the code

State: `used` is `users.storage_used_bytes`; `files` and `versions` are the two
tables (a row or `Nothing`); `blobs` is the set of paths with content; `pc[r]` is
the await request `r` stands at; `args[r]` is what the request asks; `seen[r]`
holds the handler's locals that survive an await: the usage of the user it loaded
(`used`), what `save()`'s SELECT saw of the same row (`usedRow`), the file entity
(`file`), what `save()`'s SELECT saw of it (`fileRow`), and the versions a purge
has still to visit (`todo`).

A request creates at most one file row, one version row and one blob, each under
a fresh UUID. The model uses the request itself as all three identifiers.

One action is one awaited call together with the synchronous code up to the next
await:

| Upload | Delete | Download, history | Login |
|---|---|---|---|
| `UploadBegin` (find user, quota) | `RemovalBegin` (find file, permission) | `DownloadBegin`, `HistoryBegin` | `LoginBegin` |
| `UploadInfected` / `UploadStore` | soft: `LoadFile`, `UpdateFile` / `ReinsertFile` | `DownloadFetch`, `HistoryRead` | `LoadUser`, `WriteUser` |
| new file: `UploadInsertFile`, `UploadInsertFirstVersion` | hard: `PurgeListVersions`, `PurgeBlob`*, `PurgeBlobsEnd`, `PurgeVersions`, `PurgeFile` | | |
| new version: `UploadFindFile`, `UploadInsertVersion`, `LoadFile`, `UpdateFile` / `ReinsertFile` | `FindOwner`, `LoadUser`, `WriteUser`, `Uncache` | | |
| `LoadUser`, `WriteUser`, `Uncache` | | | |

`Abort(r)` is a rejected call or a crash at any await (`Faults`). The inserts of
rows under fresh identifiers are one action: `save()`'s SELECT cannot find
anything. A call that changes nothing and whose result is not used later (the
scan, the cache deletes) is merged with a neighbour. The blob of a new file and
of its first version is one path, `File.storagePath`, which is also the path a
download serves, whatever the newest version is.

Foreign keys are in the guards: a version of a file that is gone is refused
(`InsertVersion`), a file with versions cannot be deleted (`PurgeFile`). Nothing
in the service deletes or deactivates a user, makes a file public or quarantines
one, so the branches on those are not modelled.

### How `Listing` corresponds to the code

A listing is one query, so it has no step of its own: `Listing` says what the query
returns in each state of the `files` table of `FileStore`. `PageOf` and `LimitOf` are
the two clamps at the top of `ListFilesUseCase.execute`, `MayList` and `Scope` its
permission check and default, `Listed` the `WHERE` of `buildQuery` (owner and status;
the filters by type, tag and name narrow it further and are left out), `SortKey` its
`ORDER BY`, `Offset` and `Window` the `skip` and `take` of `paginate`, and `TotalPages`
its `Math.ceil`. `CreatedAt` gives every file a creation time, ties included: the order
of tied rows is left to PostgreSQL, which may choose another in each query (an UPDATE
that moves a tuple suffices), so `Orders` is the set of all it may return. A page or limit that is not a number passes the clamps as NaN and is refused
by TypeORM with an error; it is not among the inputs.

### How `Service` corresponds to the code

`users` is the table, with the unique index on `email` in `SaveUser`; a row is named by
the request that inserted it. `Lower` is the normalisation of `Email.create` and of the
two look-ups. `RegisterBegin` is the validation, `LookUp` the look-up of the address
(line 51), `SaveUser` the insert (66), `IssueTokens` the signing and the `setex` after
it (68-92). `conflict` is the 409 of the look-up, `taken` the error the index raises
for the one of two that came second, `cut` no answer.

`phase` is where `main` stands, `db` and `redis` the two connections, `busy` the
clients that wait for an answer, each on a connection of its own, `idle` the connections
kept alive without a request.
`Signal` is `gracefulShutdown` up to `server.close`, which stops accepting and drops
idle connections; `closers[n]` is where the callback of signal `n` stands. Every signal
adds one, and all of them run when the last connection is gone (`ServerClosed`), or at
once if it is gone already. `DestroyDatabase` rejects when another callback was first,
and its `catch` exits with 1. `Crash` is the exit of `main().catch`,
`unhandledRejection` and `uncaughtException`, or a kill. The container starts the
process again (`restart: unless-stopped`). `Service` puts the two together: a request
begins on a connection, is answered on it if its client still waits (`Reply`), and is cut
when the process ends under its handler. A client may hang up at any moment (`HangUp`).
Nothing tells its handler, which goes on (`Continue` does not ask for `busy`), while
`server.close` no longer waits for it: its queries fail once the data source is
destroyed, may fail from the moment the destruction begins (`Fail`), and `process.exit`
may end it between two awaits.

`AccountDirectory` is the abstract specification of the accounts: a registration finds
its address free and makes the account, or finds it taken, and a login finds its
credentials or not, each in one step. `Service` maps the `users` rows to its accounts,
the arguments, normalised, to what each request asks for, and the await a request stands at
to what a client may conclude (`OutcomeAt`). A registration takes effect at the insert, or
where an account is found in its way; a login at the look-up. Unlike `FileContract`, which
the handlers implement one at a time, the directory is implemented under every
interleaving, failure and restart, as the unique index makes the insert atomic.

### How `Sessions` corresponds to the code

A JWT is `[sub, type, iat]`: the payload has no nonce and `iat` is in seconds, so
two pairs signed for one user in one second are equal, as in the code.
`blacklist[t]` is the second at which Redis drops `blacklist:<t>`. `Tick` lets
time pass between any two awaits. The order of the two checks differs in the
code and in the model: refresh verifies and then looks at the blacklist, the
middleware the other way round. `Abort` is a rejected call inside a use case;
`Exit` is one at the middleware's blacklist lookup, which no `try` surrounds: the
`unhandledRejection` handler ends the process and all open requests. `Horizon`
bounds the clock. The keys `refresh:*` and `files:*` are written or deleted and
never read; they only delay the answer.

`TokenRegister` is the abstract specification: no clock and no keys, but a set of revoked
tokens that only grows and a set of expired ones. A request is cleared or denied in one
look, and denied only for a reason; a logout is done when all it brought is revoked; a
refresh gives a pair of its own user, and only for a token that is revoked. `Sessions` maps
the tokens that ever had a key to the register, and the await a request stands at to what
became of it (`OutcomeAt`). It does not promise that a token is traded once: that is
`RefreshIsSingleUse`, which the code does not keep.

### How `LoginGuard` corresponds to the code

`attempts[e]` is the value under `login_attempts:<e>`, 0 while the key is missing,
and `left[e]` the seconds the key has left, `Forever` while no expiry was set.
`Begin` is the GET and the refusal at the threshold (`LoginUseCase` line 49),
`Compare` the look-up of the user and the comparison of the password, `Increment`
and `Expire` the two calls of `incrementAttempts`, `Clear` the DEL. As in Redis,
INCR of a missing key makes it without expiry and EXPIRE of a missing key does
nothing. `Tick` passes a second. What follows the DEL is in `FileStore` (the users
row) and `Sessions` (the tokens). An address without an account behaves as one
whose password is never right.

### How `Shares` corresponds to the code

`shares[s]` is the row of the link that request `s` generated, `files` and `contents`
what links depend on: the row of a file (its status, and whether its scan is clear)
and its content. `seen[r]` holds the share or file entity of the handler and what
`save()`'s SELECT saw of the same row.

| Generate | Access | Soft delete | Permanent delete |
|---|---|---|---|
| `GenerateBegin` (find file, checks) | `AccessBegin` (find share, `isValid`, e-mail) | `RemovalBegin` | `RemovalBegin` |
| `SaveShare` (insert) | `AccessFindFile` (checks, `recordAccess`) | `LoadFile` | `PurgeBlobs` |
| `CacheShare` | `LoadShare`, `UpdateShare` / `ReinsertShare` | `WriteFile` | `PurgeShares` |
| | `AccessFetch` | | `PurgeFile` |

A link's row is written by `update()`, so an access that loaded the share before a
purge removed it inserts it again (`ReinsertShare`) while the file row still stands;
the foreign key then makes the last step of the purge fail. Two such inserts meet at
the primary key. A negative `expiresInHours`, which nothing validates, is refused by
Redis (`SETEX`) only after the row is stored. Time is in hours. What a delete does to
versions and quota is in `FileStore`, and is left out here with its failures: `Abort`
stands for them. The lookup in the cache that opens an access changes nothing and its
value is not used.

## 3. Runs

| Run | Question | Bounds | Result |
|---|---|---|---|
| `FileStoreConcurrent` | What do the tables and blobs guarantee under every interleaving and failure? | 3 requests, all 3 open at once, any of the seven operations, a user and an admin, sizes 1 and 2, limit 3, faults | holds |
| `FileStoreSerial` | Do the handlers, one request at a time, implement `FileContract`, keep an exact history, charge all content, purge completely and always answer? Do pages cover a listing, and what does a client miss that pages through it meanwhile? | 3 requests, 1 open at a time, three verdicts, no faults; two creation times, limits 1, 2 and 20, pages below 1, none and 2 | holds |
| `Service` | Is an address one account, is an answer about accounts true, does each request take effect at one moment, and does a shutdown wait for the clients that wait for it, and end? | 2 registrations, a login, two addresses in three spellings, 2 connections, 2 signals, 2 starts, faults and crashes | holds |
| `Sessions` | Does what was revoked stay out, and does forgetting expired keys change any decision? | 4 requests, one user, lifetimes 1 and 2 s, 3 s of time, faults | holds |
| `LoginGuard` | How far can the attempt counter overrun, when does it lack an expiry, does a lockout end? | 5 requests on one address, 3 open at once, threshold 2, window 2 s, faults | holds |
| `Shares` | What do the count, the expiry and the row of a link guarantee? | 4 requests on one file, 3 open at once, lifetimes of -1 and 1 h, maximum 2 or none, 2 h of time, faults | holds |
| `FileStoreDeletion` | Is a delete final? | 3 requests, 2 open | violated |
| `FileStoreReclaim` | Does a delete give back what was charged? | 3 requests, serial | violated |
| `FileStoreNumbers` | Are version numbers unique? | 3 requests, 2 open | violated |
| `SessionsReplay` | Is a refresh token good for one refresh? | 3 requests, no faults | violated |
| `LoginGuardCrash` | Does every lockout end? | 3 requests, 2 open, threshold 2, window 2 s, faults | violated |
| `SharesRace` | Does a link serve at most `maxDownloads` times? | 3 requests, 2 open, maximum 1, no faults | violated |

Why the bounds are enough to show the interesting cases: three requests suffice
for a create with two rivals on its file (two revisions; a revision and a delete;
a revision and a purge; two deletes; a download and a purge), and every pair of
writers of one users row. Sizes 1 and 2 with limit 3 let two uploads fit alone and
not together, and let a decrement meet a smaller counter. Two lifetimes let a
refresh token outlive the access token of the same pair, and a horizon of 3 lets
both expire. Five attempts, three of them open at once, reach the threshold of 2 and
the greatest overrun, with one attempt to spare to exceed it; addresses have
separate keys, so one is enough. In `Shares` a generate and three accesses let a stale
count overwrite a later one and roll it back below the maximum of 2, and a generate,
an access and a purge let the access bring the row back; links of different files do
not meet, so one file is enough. Three files in two instants make ties in a listing, in
each order of both queries, and limits of 1, 2 and 20 make pages that are full, partly
full and past the end. In
`Service`, two registrations of one address race at every await, two signals give two
callbacks, a client that hangs up on one connection leaves the other to a client that
waits, and two starts let a client see after a restart what a crash left. `SYMMETRY` in `FileStoreConcurrent`,
`Sessions` and `Shares` permutes request identifiers, which are compared for equality only; these runs check
no liveness property.

`CHECK_DEADLOCK FALSE` is set for `Service`, `Sessions` and `LoginGuard`: the process may
stay down, the clock of
`Sessions` stops at the horizon, `Tick` of `LoginGuard` needs a key that is to
expire, and the clients run out of requests. `FileStore` and `Shares` have an explicit `Idle`
step instead, allowed only when every request is answered, so their runs do check for
deadlock.

**Fairness.** `FairSpec` of `FileStore` assumes weak fairness of `Continue(r)` for
each request; `FairSpec` of `LoginGuard` assumes it of `Tick` too, as time passes
whatever the service does. Node's event loop runs every continuation whose
call has settled, and every call of the service settles (a result or a
rejection). Nothing is assumed of `Begin` (clients need not come) nor of `Abort`.
`FairSpec` of `Service` assumes that calls return, answers go out, an idle connection
is dropped (Node's `keepAliveTimeout`) and queued callbacks run. Nobody has to hang up.
`SignalEndsProcess` needs two things more. Clients stop sending, which the finite set of
requests supplies: a client that keeps a connection busy forever holds a shutdown up
forever, as `main.ts` sets no deadline for it. And requests arrive whole: a connection
that stays silent, or stops in the middle of a request, is not modelled and would hold
it up too, as Node ends its checks for such connections when the server closes.

### The disagreements

* **A delete can be undone** (`FileStoreDeletion`). The upload of a new version
  reads the file, and later saves the whole entity. If a delete is answered
  between its read and `save()`'s SELECT, the stale `status = 'active'` differs
  from the row and is written back. What does hold is proved: only an upload that read
  the file while it was active can do that, and once none is open the file stays deleted
  or gone (`WithdrawnForGood`).
* **A delete gives back the first version only** (`FileStoreReclaim`): no
  concurrency needed. Later versions stay charged for good.
* **Two versions can bear one number** (`FileStoreNumbers`).
* **A refresh token can be used twice at once** (`SessionsReplay`): both requests
  look at the blacklist before either writes it.
* **A lockout can be permanent** (`LoginGuardCrash`). If the process dies or EXPIRE
  rejects right after the INCR of a first failure, the counter never expires; the
  next failures find it above 1 and set no expiry either. At the threshold every
  login is refused before it could clear the key.
* **A link can serve more than `maxDownloads` times** (`SharesRace`). Accesses that
  read the share before any of them saves are all served and all save the same count.
  What does hold is proved: the recorded count stays within the maximum, and a link
  that is used up and has no open access never serves again (`OverStaysOver`).

Each is listed under `findings` with the line and the statement it contradicts.

## 4. Proofs

All theorems are about the specification with any sets of requests, users and
sizes, any limits and lifetimes allowed by the named assumptions.

| Theorem | States |
|---|---|
| `FileStoreProofs!TypeCorrect` | `Spec => []TypeOK` |
| `FileStoreProofs!UsageStaysWithinLimit` | `Spec => []RecordedUsageWithinLimit` |
| `FileHistoryProofs!ContentIsKept` | `Spec => []RowsHaveContent` |
| `FileHistoryProofs!HistoryNeverHasGaps` | `Spec => []HistoryHasNoGaps` |
| `FileHistoryProofs!AcknowledgedUploadsAreKept` | `Spec => []AcknowledgedUploadKept` |
| `FileHistoryProofs!DownloadsMissOnlyPurged` | `Spec => []DownloadMissesOnlyPurged` |
| `FileHistoryProofs!AnsweredFilesHaveHistory` | `Spec => EmptyHistoryOnlyUnfinished` |
| `FileHistoryProofs!PurgesLeaveNoHoles` | `Spec => []PurgeLeavesNoHoles` |
| `FileHistoryProofs!OrphansComeOfErrors` | `Spec => []OrphansAreErrors` |
| `FileHistoryProofs!FilesStayWithdrawn` | `Spec => WithdrawnForGood` |
| `FileSerialProofs!HandlersImplementContract` | `OneAtATime => (Spec => ImplementsContract)` |
| `FileSerialProofs!HistoriesStayExact` | `OneAtATime => (Spec => []HistoryIsExact)` |
| `FileSerialProofs!QuotasCoverContent` | `OneAtATime => (Spec => []QuotaCoversContent)` |
| `FileSerialProofs!PurgesAreComplete` | `OneAtATime => (Spec => []PurgeIsComplete)` |
| `ListingProofs!PagesAlwaysCover` | `Spec => []PagesCoverList` |
| `ListingProofs!CursorsKeepRest` | `Spec => CursorKeepsRest` |
| `SessionsProofs!SessionsTypeCorrect` | `Spec => []TypeOK` |
| `SessionsProofs!RevocationHolds` | `Spec => []RevokedUntilExpiry` |
| `SessionsProofs!RevokedTokensAreTurnedAway` | `Spec => RevokedIsTurnedAway` |
| `SessionsProofs!SessionsImplementRegister` | `Spec => ImplementsRegister` |
| `LoginGuardProofs!GuardTypeCorrect` | `Spec => []TypeOK` |
| `LoginGuardProofs!CountersExpire` | `Spec => []CounterExpires` |
| `LoginGuardProofs!GuardOverrun` | `Spec => []OverrunIsBounded` |
| `SharesProofs!SharesTypeCorrect` | `Spec => []TypeOK` |
| `SharesProofs!AnsweredSharesAreKept` | `Spec => []AnsweredShareKept` |
| `SharesProofs!AccessesMissOnlyPurged` | `Spec => []AccessMissesOnlyPurged` |
| `SharesProofs!CountStaysWithinMax` | `Spec => []CountWithinMax` |
| `SharesProofs!CountsAreBacked` | `Spec => []CountIsBacked` |
| `SharesProofs!LinksStayOver` | `Spec => OverStaysOver` |
| `ServiceProofs!TypeCorrect` | `Spec => []TypeOK` |
| `ServiceProofs!AccountsImplementDirectory` | `Spec => ImplementsDirectory` |
| `ServiceProofs!AddressesUnique` | `Spec => []OneAccountPerAddress` |
| `ServiceProofs!RefusalsTrue` | `Spec => []RefusalIsTrue` |
| `ServiceProofs!AnsweredAccountsKept` | `Spec => []AcknowledgedAccountKept` |
| `ServiceProofs!AnsweredAccountsOpen` | `Spec => LoginKnowsAccounts` |
| `ServiceProofs!StoresUnderWaitingClients` | `Spec => []WaitingClientsHaveStores` |
| `ServiceProofs!ShutdownsCutNobodyWaiting` | `Spec => ShutdownCutsNobodyWaiting` |

*Type correctness of `FileStore`* is not inductive as stated: a handler at
`insertVersion` dereferences `seen[r].file`, so one must know that it is a row
there. `TypeInv` adds `ControlOK`: which locals are set at which await, for which
operation.

*Usage.* `RecordedUsageWithinLimit` is not inductive either: `WriteUser` writes a
value computed from a snapshot that may be long out of date. The strengthening
`UsageInv` bounds every handler's snapshot instead: an upload past its check
holds `seen[r].used + args[r].size <= Limit`, a removal or a login holds
`seen[r].used <= Limit`. Each snapshot is taken of a table that obeys the limit,
so what any handler may still write obeys it too, in whatever order they write.
This is why lost updates never push the counter over the limit, although they
make it wrong.

*History.* The theorems of `FileHistoryProofs`, but for those on purges, on orphans and
on deletes, come from one invariant, `HistoryInv`. What a purge takes away it takes away for good, so everything is said
of the files outside `Purged`, a set that only grows. `FileOK` says that the version
rows bear out the row of such a file (`Borne`): a row for every number that
`versionCount` counts, and for `currentVersionId`. `LinkOK` says which request made
which row, and `KeptOK` what the stores still hold on behalf of a handler or of an
answered request: its content, the row of its file, its version row. Stale file
entities are the hard case: `UpdateFile` may write back an old `versionCount`, so
`KeptOK` asks `Borne` of the entity each handler holds and not only of the row. The
lemma `HistoryFrame` carries the facts about every request and file over a step, from
a short list of what the step keeps (`Moves`, `Keeps`) and the facts about the
request that took it.

*Purges.* `PurgeLeavesNoHoles` says that a version row without content belongs to a
purge that has not removed the rows yet or was cut off. It needs to know that what a
purge has listed are versions of its own file whose uploads are past their last use of
the content (`ListedOK`), and that an upload's content precedes its row (`ContentFirst`).
An upload that adds a version while a purge runs keeps its content, as it is not on the
list; its row makes the last delete fail or goes with the rows, never without them.

*Orphans.* `BlobExplained(v)` says, of each content that is stored, what a reader of the
tables is missing: the upload is still on the way to its row, it ended with an error, its file
is being purged, or nothing. `OrphanInv` adds this to `HistoryInv`, which supplies that an
upload past its insert had its row and that only a purge takes rows away. So a sweep that
deletes content without a row loses nothing that was answered, if it spares open uploads.

*When a delete is final.* `Withdrawn(f)` is inductive with the types: a handler that may
still write the row of `f` is an upload or a delete, it holds the status it read or
`deleted`, and whoever reads the row from now on reads `deleted` or no row. `UpdateFile`
writes the status of the entity or leaves that of the row, and `ReinsertFile` brings the row
back with the status of the entity, so neither makes the file active.

*One request at a time.* The theorems of `FileSerialProofs` are about instances with
`MaxInFlight = 1` and no faults (`OneAtATime`). `FreshInv` says what that buys: only one
request is open, and so what its handler read is, at each of its awaits, still what the
tables hold; in particular the quota that was checked still leaves room, the foreign key
never refuses, and no save finds its row gone. `ExactInv` adds that every history is exact
but that of the file the open request has half renumbered, and that the entity it is about to write
is exact. `CleanInv` follows a purge through its steps: content not yet removed is on its list,
then there is none, then no row. The refinement needs no more than `FreshInv` and that a
purge is of a file that was created: a request commits in one step (`CommittingStep`),
owes its account the charge or the reclaim from then on, and pays exactly that
when it writes the users row (`SettlingStep`); every other step is a stutter of
`FileContract` (`UncommittedStep`).

*The quota as a sum.* `QuotaCoversContent` compares the counter with the sum of the sizes
of all versions of a user's active files, so its proof has two parts. The first is about
sums: what a fold over a finite set of requests amounts to when a member joins, leaves or
shrinks (`BytesMore`, `BytesLess`, `BytesSubset`, `BytesSame`). These lemmas are by
induction on the set. The library's induction theorem takes the predicate as an
operator, which the provers cannot instantiate; `SubsetInduction` says the same of the
*set of the sets* that satisfy it, and is proved from the library's theorem that strict
inclusion on finite sets is well-founded. The second is the invariant `CountInv`: at every
await, the counter plus what the open request still owes covers the sizes of the
versions that count (`Counted`). An upload owes its size from the insert of its row
on, a new version only from the save of the file row; a soft delete stops the versions
of a file from counting in the step that saves its status, and gives back less than that,
as only the first version is returned.

*Listing.* That pages partition a list is arithmetic: the row `k` is on page
`(k - 1) \div limit + 1`. `CursorsKeepRest` rests on one fact about the service: nothing
changes `created_at`. So of two rows of different instants the newer stays ahead, and a
row that was read and is still there stays ahead of every row missed that is not of its
instant. In the second query both lie within the offset, which has room for as many rows
as were read: for each row missed, one that was read must have left
(`NoMoreMissedThanGone`). That lemma is about any two lists, with any number of steps
between them, and any order each query gives to ties. What the property leaves out, the
code does not keep: of two rows of one instant one can be read twice and the other never,
although nothing left. TLC finds that in this instance if `tied` is dropped.

*Accounts and shutdown.* A step of `Service` is a step of `Accounts` and a step of
`Lifecycle`, so `ServiceProofs` keeps an invariant for each half. `AccountInv`: rows are
normalised, a registration before its insert has no row and after it has the row it
asked for. `LifeInv`: nobody is connected before the server listens or after a
callback of `server.close` ran, and the stores are open until one ran. Together: only
a callback closes the stores or exits, and none runs while a client waits. Handlers whose
clients have left are not in `busy`, and nothing of the kind holds of them. The refinement of
`AccountDirectory` needs `AccountInv` only, whether or not a client is there to be told: a
look-up that finds the address free is a stutter, the insert is `Create` or `Refuse` (the
index decides in the same step), and what ends handlers, an error or the end of the
process, is `Lose`.

*Revocation.* The invariant behind `RevocationHolds` follows a logout or refresh
through its awaits: once past a blacklist write, the entry for the token it
presented reaches at least to the token's expiry. This needs the assumption that
lifetimes are at or below the holds (`SessionsAssumption`), that a token's `iat`
never lies ahead of the clock, and that a later write of the same key never
shortens it. `RevokedTokensAreTurnedAway` then follows step by step.

*The register.* `RegisterInv` adds that every key ever set reaches at least to the expiry
of its token, whoever set it and whether its request was answered or cut off, and that a
handler that is about to sign has struck the token it trades. So a look that finds no key
for a revoked token is a look at an expired one, which the register clears as well: the
middleware then refuses it when it verifies, and a refresh had verified it before. Each
await is a step of `TokenRegister` or a stutter (`StepRegister`); `Tick` is `Age`, and the
exit of the process is `Lose(Request)`. The proof rests on keys staying for as long as they
are set for: eviction in Redis, which the models leave out, would break just this.

*Attempts.* `OverrunIsBounded` is not inductive: what matters is the attempts that
already passed the check. `OverrunInv` counts them: the counter plus the requests
that may still increment it stays below the threshold plus the bound on open
requests. An increment moves one request from the second summand to the first; a
request joins the second only while the counter is below the threshold.
`CounterExpires` is inductive with the types.

*Shares.* Three invariants, each on the types. `LinkInv` ties a link's row, its
generating request and the accesses that found it valid to the purges of its file: a
link, or content, that is gone was taken by a purge that has begun, and a begun purge
stays begun. `WithinInv` bounds not the row but what handlers may still write into it:
an access holds a count below the maximum before `recordAccess` and at most the
maximum after, and every copy of a share bears the maximum of the row, so that bringing
the row back cannot raise it. `BackedInv` says the same of the number
of accesses that have saved: a handler holds a count at most one above it. An access
joins that number in the step that saves, so no interleaving can write more than it.

The assumptions are those the modules declare: `StoreAssumption`,
`NothingAssumption`, `SessionsAssumption`, `NoTokenAssumption`, `GuardAssumption`,
`SharesAssumption`, `NoRowAssumption`, `ListingAssumption`, `AccountsAssumption`,
`NoAccountAssumption`, `LifecycleAssumption`, `ClientAssumption` and `ContractAssumption`. TLC evaluates all of them in the runs.

**Model-checked only:** the liveness properties `EveryRequestAnswered`, `LockoutEnds`
and `SignalEndsProcess`, as liveness is out of the prover's reach. Every invariant and every
other property of the runs that pass is proved.

## 5. Not modelled

* The filters of a listing by type, tag and name; a page or limit that is not a number.
* Rate limiting (`express-rate-limit` state in the process's memory; the global limiter
  is mounted before `/health`, although a comment there says the route has none), upload
  parsing (multer), helmet, CORS, logging: no state of the service.
* Streams: a download ends with the stream handed to the response.
* Connections on which no whole request arrives: silent or half-sent. They change no
  table, but a shutdown waits for them (see *Fairness*).
* Clients that hang up, outside `Service`: a handler does not notice and goes on, so in
  the other modules nothing would differ.
* Commands that ioredis sends again after a lost connection: in the models a call takes
  effect at most once.
* Eviction in Redis (`docker-compose.yml` runs it with `allkeys-lru`): the models
  assume a key lives until it expires.
* Presigned URLs, public files, quarantine, share revocation, deactivation of
  users: code that no route reaches.

## 6. What is left

`FileStore` under the restarts of `Lifecycle`. Its `Abort` already takes any request at
any await, so a crash of all of them at once adds no behaviour of the tables.

# TLA+ models of OpenCodeRouter

OpenCodeRouter is a reverse proxy. It discovers local `opencode serve`
instances by scanning a port range and routes requests to them by project slug.
This directory holds TLA+ models of its concurrent core, TLC configurations that
model-check them, and TLAPS proofs.

## The system and how its parts interact

| Part | Source | What it does | State | Concurrency |
|---|---|---|---|---|
| Registry | `src/internal/registry/registry.go` | Maps slug → Backend and port → slug under one RWMutex. Derives slugs with `Slugify`, disambiguates collisions with `slug-port`, handles port reassignment, prunes stale backends. | `backends`, `byPort`, `LastSeen` per backend | Every method holds the lock for its whole body |
| Scanner | `src/internal/scanner/scanner.go` | Runs a pass now, then on every tick. A pass probes every port of the range, bounded by a semaphore, waits for the probes, then calls `Prune`. A probe does `GET /global/health`, then `GET /project/current`, then `Upsert`. | Semaphore, WaitGroup, goroutines, ctx | One driver goroutine, up to `concurrency` probe goroutines |
| mDNS Advertiser | `src/internal/discovery/discovery.go` | `Sync` reconciles one zeroconf server per slug with a snapshot of the registry. `Shutdown` clears them all. | `servers` map under a mutex | Called from a ticker goroutine in main, and from main at shutdown |
| Main | `src/unnamed/part_003` | Wires the parts, starts the scanner and the sync loop, and on a signal calls `cancel()` then `adv.Shutdown()`. | ctx | Three long-lived goroutines |
| Router | `src/unnamed/part_006` | Tries host routing, then path routing, then the `/api/*` endpoints, then the dashboard. Forwards to `127.0.0.1:<port>` of the looked-up backend. | None (reads the registry) | One goroutine per request |
| Launcher | `src/internal/launcher/launcher.go` | Starts `opencode serve` on the first free ports of the range and stops the processes at shutdown. | `procs` | Reaper goroutines |
| Config | `src/internal/config/config.go` | Defaults, flags, `Validate`. | None | None |
| Older registry | `src/unnamed/part_004` | An earlier `Upsert` that updates the backend under a slug whatever its path. | Same as the Registry | Same as the Registry |

How the parts interact:

- The data flow is Scanner → Registry ← Advertiser, which reads snapshots.
- The Router reads the Registry on every request.
- One ctx cancels the scanner and the sync loop.

## Modules

### `Registry` (the registry)

State:

- `backends` is a total function from `Slugs`, the slugs a key can have, to a Backend record or `NoBackend`.
- `byPort` maps ports to a slug or `NoSlug`, which is `<<>>`. `Slugify` never returns `""`.

Data abstraction:

- A path is a model value, and `Slugify` is the constant function `SlugOf`.
- A slug is a non-empty sequence of hyphen-free segments: Words or port numbers.
- `fmt.Sprintf("%s-%d", slug, port)` becomes `Append(slug, port)`. Two slug strings are equal exactly when their segment sequences are. So a folder named `a-4097` has the slug `<<a, 4097>>`, which is the disambiguated slug of `a` on port 4097.
- `ProjectName` and `Version` are left out because no decision reads them.
- Time enters the code only as `time.Since(LastSeen)` compared with `staleAfter`. So a backend carries an age in ticks, capped at `StaleAfter + 1`.

Actions:

- `Upsert` is `UpsertInPlace \/ UpsertInsert`. Both cover the whole method: `ForgetOldProject` (lines 54-58), the same-instance test (63), the in-place update with its deletion of the old port's index entry (65-73), and the insert under the slug or the disambiguated slug (76-89).
- `Prune`.
- `Tick`: time passing.

The read-only methods are operators on the state: `Lookup`, `LookupByPort`, `LookupByPath` and `All`. `LookupByPath` is the set of results Go's random map order allows.

### `Scanner` (the scanner, extends `Registry`)

State:

- `phase` is the driver's position: `check` (the ctx test at the top of scan's loop), `acquire` (blocked on the semaphore), `wait` (in `wg.Wait`), `loop` (Run's select) or `stopped`.
- `next` is the loop's port.
- `sem` and `wg` are the channel's occupancy and the WaitGroup.
- `probe[p]` is where each goroutine is: `idle`, `health` or `project`.
- `cancelled` is whether ctx is done.
- `server[p]` is the environment: `Down`, or the health flag and project path that the instance on `p` reports. It changes at any step.

Actions:

| Action | Code |
|---|---|
| `ScanCheck` | The ctx check and `wg.Add`, or the end of the loop |
| `ScanAcquire` | `sem <-` and `go` |
| `ScanWait` | `wg.Wait` followed by `Prune` |
| `HealthFail`, `HealthOK` | `getHealth` and its tests |
| `ProjectOK` | `Upsert` of the reported path |
| `ProjectFail` | `Upsert` of `/unknown/port-N` |
| `RunStop`, `RunTicker` | The two cases of the select. Both are enabled once ctx is done and the ticker fires, as in Go. |
| `Cancel` | main's `cancel()` |
| `ServerChange` | Environment: an instance starts, stops or changes |
| `ScanTick` | Environment: time passes |

Every GET may fail, because it may time out. Both GETs fail once ctx is cancelled. So a probe whose health check has passed upserts the synthetic path when ctx is cancelled.

The counters are not reset per pass:

- A completed pass leaves both at 0.
- After a cancelled pass, no later pass gets past its first check.

### `Advertiser` (the mDNS advertiser with main's sync loop, extends `Registry`)

State:

- `servers[s]` is the TXT record a slug is advertised with (`port`, `path`), or `NoAdvert`. The instance name and hostname are functions of the slug, and the router's port and IP are fixed, so they are left out.
- `snapshot` is the `reg.All()` the sync goroutine took. It is taken before `Sync` locks, so it can be outdated when applied.
- `syncPc` is the goroutine (`select`, `sync`, `done`), and `mainPc` is main (`running`, `cancelled`, `shutdown`).
- `regSteps` counts the scanner's registry calls. Up to `MaxRegistrySteps` Upserts, Prunes and Ticks stand for them.

Actions:

| Action | Code |
|---|---|
| `SyncTick` | `case <-ticker.C` and `reg.All()` (part_003 83-92) |
| `SyncStop` | `case <-ctx.Done()`. Only once main has cancelled. |
| `SyncRun(failed)` | The whole of `Sync`: the removal loop, then `register` for every slug not yet advertised. `failed` is the set of slugs whose `RegisterProxy` errs. |
| `MainCancel`, `MainShutdown` | `cancel()`, then `adv.Shutdown()` |
| `RegistryStep` | The scanner's `Upsert`, `Prune` and time |

`Sync` and `Shutdown` hold the mutex for their whole bodies, so each is one step.

### `Launcher`

`Launch` is modelled one loop step per action:

- `SkipDir`: a path that is not a directory.
- `NextPort`: one iteration of the free-port loop, with its range test.
- `Start` and `StartFail`: `cmd.Start` succeeding or failing.
- `Finish`: the return.

The environment has two actions:

- `Occupy(p)`: another program takes a free port at any moment.
- `Listen(i)`: a started child binds its port, later.

`portInUse` is `InUse`: ports held by others, or by children that have bound. So the check and the start are two steps with the environment between them. `Shutdown` only signals the children and is not modelled. `main` does not call the Launcher in this tree.

### `Slug` (TLC only)

`Slugify` over strings as sequences of one-character strings: `filepath.Base`, `ToLower`, the two regexp replacements as a map and a `FoldLeft`, `Trim`, and `"default"`.

The reference `RefSlug` is the runs of letters and digits of the lower-cased base name, joined by hyphens.

No theorem lives here: what `Slugify` and `RefSlug` compute for every string is induction over data (see "What is only model-checked").

### `RouterParse`

`slugFromHost` and `slugFromPath` of the router, and `DomainFor`, over strings of one-character strings.

A request is a slug together with the parts a client builds its request from:

- a username;
- a path tail;
- a `:port` suffix or none;
- whether the client lower-cases the host. mDNS names are case-insensitive and browsers lower-case hosts.

The request dispatch is in `Router`.

The assumption `RouterParseStrings` says what the strings are made of, so that the proofs can type them. Characters are those `LowerOf` covers, with `/` and `:` added (`Alphabet`). A slug is made of characters that `ToLower` leaves alone and has no `:`, which is what `Slugify` returns: after `ToLower`, its replacement of `[^a-z0-9-]` leaves only `[a-z0-9-]`. A port suffix is empty or `:` followed by characters other than `:`, as a client writes the port in the Host header.

### `PortDirectory` (the abstract registry)

What the registry promises to the callers that know a backend by its port. `dir[q]` is `{}` for a free port, or `{[path, age]}`: the project on the port and the age of its last sighting. Slugs, the index and collisions do not appear. Three actions:

- `Register(p, x)` gives port `p` the project `x` at age 0. It may clear other ports that listed `x` (the project moved), and no other port.
- `Expire` drops exactly the entries older than `StaleAfter`.
- `Age` ages every entry, capped like the registry's ages.

`Registry` instantiates it with `INSTANCE PortDirectory WITH dir <- PortView`. `PortView[q]` is what `LookupByPort(q)` returns, reduced to path and age. The property `ImplementsPortDirectory == Directory!DSpec` is checked in the registry run and proved in `RegistryProofs`.

### `Router` (extends `Registry`)

`ServeHTTP` (`part_006:40-72`) is modelled as the outcome of one request against one registry state. `Lookup` is one read-locked call returning a copy. A request is what the parsers return: the slug `slugFromHost` gives (`NoSlug` when the Host is not a project domain), and the slug and remainder `slugFromPath` gives. `RouterParse` checks the parsers themselves on strings.

The dispatch tries four stages, in order:

1. host routing;
2. path routing, with the prefix stripped;
3. the three exact API paths;
4. the dashboard.

A slug that parses but is not registered falls through to the next stage. `ProxyTo` is `proxyTo`'s target port and path override.

`APIBackends`, `ResolveByPath` and `ResolveByName` are the entries that `/api/backends` and `/api/resolve?path=` / `?name=` return. The domain and path prefix of an entry are built from `b.Slug`. The folder name `api` is a word, so a project can have the slug `<<api>>`.

### `Config`

`Defaults` and `Validate` of `config.go`. `Validate` returns the name of the first check that fails, in the code's order, or `"ok"`. Durations are in milliseconds. It checks nothing of `ScanConcurrency`, `ProbeTimeout` or `StaleAfter`. `MCScanner` builds the scanner's parameters as main does: the defaults, overridden by `-scan-start`, `-scan-end` and `-scan-concurrency`, and an `ASSUME` that `Validate` accepts them.

### Proof modules

- `RegistryProofs`: the proofs about `Registry`, including the refinement of `PortDirectory`.
- `ScannerProofs`: the scan loop's control.
- `ScannerRegistryProofs`: the scanner composed with the registry.
- `LauncherProofs`: the launcher.
- `RouterProofs`: the router's dispatch against every registry state.
- `RouterParseProofs`: the two parsers on strings.
- `AdvertiserProofs`: the advertiser composed with the registry.

### MC modules

`MCRegistry`, `MCRegistryCollision`, `MCScanner`, `MCAdvertiser`, `MCLauncher`, `MCSlug` and `MCRouterParse` give the constants for TLC: ports as integers, paths and words as model values, and `SlugOf` as a finite function. `MCRegistry` extends `Router`, so the registry run also checks the router's properties over every registry state it reaches. `MCScanner` extends `Config` and takes the scanner's range and concurrency from a config that `Validate` accepts.

## Runs

| Run | Module / cfg | Expect | Checks |
|---|---|---|---|
| registry | MCRegistry / MCRegistry.cfg | pass | `IndexConsistent`, `HandedOutRoutesBack`, `ApiShadowedOnlyByApiSlug`, `UpsertKeepsOtherPorts`, `ImplementsPortDirectory` |
| registry_collision | MCRegistryCollision / MCRegistryCollision.cfg | violation | `IndexConsistent` |
| scanner | MCScanner / MCScanner.cfg | pass | `PassCompletes`, `PruneAfterPass`, `DownForgotten`, `Discovered` |
| scanner_zero_concurrency | MCScanner / MCScannerZero.cfg | violation | `PassCompletes` |
| advertiser | MCAdvertiser / MCAdvertiser.cfg | pass | `AdvertConverges` |
| advertiser_shutdown | MCAdvertiser / MCAdvertiserShutdown.cfg | violation | `NoAdvertAfterShutdown` |
| advertiser_stale | MCAdvertiser / MCAdvertiserStale.cfg | violation | `AdvertCurrent` |
| launcher | MCLauncher / MCLauncher.cfg | pass | `ErrorOnlyWhenFull`, `DistinctPorts` |
| launcher_range | MCLauncher / MCLauncherRange.cfg | violation | `LaunchedInRange` |
| slugify | MCSlug / MCSlug.cfg | pass | `SlugifyMatchesReference`, `SlugifyIdempotent` |
| router_parse | MCRouterParse / MCRouterParse.cfg | pass | `DomainRoutesBack`, `PathRoutesBack` |
| router_upper_username | MCRouterParse / MCRouterParseUpper.cfg | violation | `DomainRoutesBack` |

### registry

The bounds are three ports, `StaleAfter = 1`, and four paths. Two share the slug `a`, one has the slug `b`, and one is a folder named `api`. They are enough because:

- Every collision case occurs: an in-place update on the same port, a project moving port, a different project with the same slug on another port (disambiguated), and a port taken over by another project.
- Ages reach both sides of the boundary.
- A backend can hold the slug `api` while other backends are registered.

The run checks five properties:

- `IndexConsistent` (spec I1-I3): every live backend is indexed under its own port, and every index entry names a live backend on that port.
- `UpsertKeepsOtherPorts`: an Upsert on one port never takes another port's project away.
- `ImplementsPortDirectory`: the registry, seen through `LookupByPort`, is a behaviour of `PortDirectory`. Every Upsert is a `Register`, every Prune an `Expire` and every tick an `Age`. An off-by-one in Prune's comparison (`>=` for `>`) breaks it. So would any change to another port's entry that the directory does not allow.
- `HandedOutRoutesBack`: every domain and path prefix that `/api/backends` or `/api/resolve` hands out routes, through `ServeHTTP`, to the port of the very backend it describes. This rests on the Backend's `Slug` field being its map key after a collision. A Backend that stores the slug from before disambiguation breaks it: the entry's URL then leads to the other project.
- `ApiShadowedOnlyByApiSlug`: the spec's known hazard, checked as the code has it. A request for `/api/backends`, `/api/health` or `/api/resolve` on a non-project host reaches the control API unless, and only when, a backend is registered under the slug `api`. That backend then receives the request. Matching the API before path routing, the fix the spec suggests, would change this outcome.

### registry_collision

A third project's folder is named like the disambiguated slug `a-4097`. TLC finds three Upserts that break `IndexConsistent`:

1. `homeA` on 4096 is stored as `a`.
2. `folderA4097` on 4098 is stored as `a-4097`.
3. `workA` on 4097 collides, and is stored as `a-4097` too, overwriting step 2.

Port 4098 now maps to a backend on port 4097. After a Prune, `LookupByPort(4098)` is a nil dereference (`registry.go:133-134`). This is a code bug: `registry.go:78` does not check the key it computes.

### scanner

Bounds:

- Two ports and concurrency 2. Two probes can then be in flight, which a missing `wg.Add` needs before it can be observed.
- One project, plus the two synthetic paths.
- `StaleAfter = 1`.
- Every instance state, cancellation at any step, and failures of every request.

The run checks four properties:

- `PassCompletes`: every pass ends.
- `PruneAfterPass`: spec, "Prune always runs after all probes in the pass complete".
- `DownForgotten`: a port whose instance stays down, while the scanner runs, eventually has no backend.
- `Discovered`: a port whose instance stays healthy for project x is registered for x infinitely often. It can only be "infinitely often": a failing `/project/current` replaces x by `/unknown/port-N` for a while.

### scanner_zero_concurrency

`Config.Validate` does not check `ScanConcurrency`. The run's parameters are the defaults with `-scan-concurrency 0`, and `MCScanner` assumes that `Validate` accepts them, which TLC evaluates. With 0, the first `sem <-` blocks forever, so no pass ends and the scanner ignores cancellation.

### advertiser

Bounds:

- Two ports and two projects with different slugs.
- Four registry calls. That is enough for a project to appear and move port, or to appear, age past `StaleAfter` (two ticks) and be pruned. A move followed by a prune would take five.
- `StaleAfter = 1`.
- Any subset of registrations failing on each Sync.

`AdvertConverges`: while the router runs, once the registry has settled, the advertised slugs come to equal the registered ones and stay so.

The cfg sets `CHECK_DEADLOCK FALSE` because the process exits after shutdown: once main has shut down and the goroutine has returned, nothing is left to run.

### advertiser_shutdown

The spec (section 5) says the Advertiser tears down all registrations synchronously before process exit. main does not wait for the sync goroutine. TLC's trace is:

1. main runs `cancel()`, then `adv.Shutdown()`, while the goroutine is idle in its select.
2. The scanner upserts a project.
3. A tick is pending when the select wakes. Go picks at random between ready cases, so it takes `ticker.C` rather than `ctx.Done()`, and reads `reg.All()`.
4. `Sync` registers the project after `Shutdown`.

The service then stays on the network until the process exits. The same happens when the tick and `reg.All()` are taken just before `cancel()` and `Shutdown` gets the mutex before `Sync`. `SyncTick` is enabled after `cancel()` even when no tick is pending. That over-approximates Go, where a tick must already be pending when the select runs. The trace needs only a tick that arrives as the goroutine wakes.

### advertiser_stale

`AdvertCurrent` says that every advertisement eventually carries its backend's current port and path. It fails: a project that moves port keeps its old `backend=` TXT record, because `Sync` skips a slug already advertised (`discovery.go:59`).

### launcher

Bounds:

- A range of two ports, and three other ports that other programs may take.
- Up to three arguments, one of them not a directory. The same directory may appear twice.

The run checks two properties:

- `ErrorOnlyWhenFull`: Launch reports "no free ports" only when the whole range is taken.
- `DistinctPorts`: no two children get the same port. This holds even though a child binds its port later than the check of the next one, because `nextPort` only grows.

### launcher_range

The comment at `launcher.go:60` says the next free port is found in the scan range. After a start on `portEnd`, though, `nextPort++` (line 95) makes the next directory start on `portEnd + 1` without a test. The scanner never probes that port.

### slugify

Every path of up to five characters over `A a 1 - / .` is checked: 9331 paths. That covers upper case, trailing slashes, a dot, runs of hyphens and punctuation, and a base name that is empty or "/".

The run checks two properties:

- `SlugifyMatchesReference`: `Slugify` equals the reference definition.
- `SlugifyIdempotent`: spec P3, `Slugify(Slugify(x)) = Slugify(x)`. A second pass changes nothing only if the first left a lower-case string of `[a-z0-9-]` with no `--` and no hyphen at either end. The mutant that applies the two regexp replacements in the other order breaks it: `a.-a` becomes `a--a`, and only a second pass collapses that.

`ToLower` is given on the letters of `"default"` too, because the second pass reads that string. Paths are still drawn from the six characters above.

### router_parse

The inputs are:

- every slug `Slugify` can return over `a 1 -` up to three characters;
- the usernames `b` and `b-a`;
- path tails over `a` and `/` up to two characters;
- a host with or without `:8`, sent as advertised or lower-cased.

The run checks two properties:

- `DomainRoutesBack`: the `DomainFor` hostname routes back to its slug. The username `b-a` has a hyphen of its own inside the `-username` suffix.
- `PathRoutesBack`: `/slug/rest` routes to the slug with the path `/rest`, and `/slug` routes to it with the path `/`.

### router_upper_username

With a username such as `B`, a client that lower-cases the advertised hostname is not routed by host. `slugFromHost` compares `-B` case-sensitively (`part_006:91`).

## Fairness

The Advertiser's fairness is in `SysFairness`:

- **Weak fairness of the goroutine's steps and of main's `Shutdown`.**
- **Strong fairness of `SyncStop`.** Go's select picks uniformly among ready cases.
- **Strong fairness of a `Sync` in which no registration fails.** This is an assumption about the network, as with the scanner's GETs.
- The signal need not come.

The Scanner's fairness is in `ScanFairness`:

- **Weak fairness of the driver's steps and of every probe step.** A runnable goroutine runs, and every GET ends within the client timeout.
- **Strong fairness of `RunStop`.** Go's select picks uniformly among ready cases, so ctx.Done is taken eventually, even though the ticker keeps being ready too.
- **Weak fairness of `RunTicker` and of time.**
- **Strong fairness of `HealthOK` and `ProjectOK`.** This one is an assumption about the environment, not about the code: an instance that keeps answering does not time out forever. `Discovered` depends on it. The other properties hold without it.

## Proofs (checked by `tlapm`)

### `RegistryProofs`

Four theorems are proved:

- `TypeCorrect`: `Spec => []TypeOK` for all constants satisfying the `ASSUME`s.
- `RegistryIndexConsistent`: under `SlugsUnambiguous`, `Spec => []IndexConsistent`. `SlugsUnambiguous` says that no path's slug equals `Disambiguate` of another path's slug and a port. The collision run shows that the assumption cannot be dropped.
- `RegistryUpsertKeepsOtherPorts`: under the same assumption, `Spec => UpsertKeepsOtherPorts`.
- `RegistryImplementsPortDirectory`: under the same assumption, `Spec => ImplementsPortDirectory`, the refinement of the abstract `PortDirectory`.

`IndexConsistent` is not inductive by itself. The inductive invariant is `IInv == TypeOK /\ IndexConsistent /\ KeyShape`. `KeyShape` says a backend is kept under the slug of its path, or under the disambiguated slug of its path and its own port. It is needed for the collision case:

- The disambiguated key `slug-port` can only already hold a backend on that same port, by `KeyShape`, `SlugsUnambiguous` and the injectivity of `Append` in the port (`DisambiguatePort`).
- That backend is exactly the one `ForgetOldProject` has just deleted, so the insert overwrites nothing.

The step proof has one case per action. For `UpsertInPlace` and `UpsertInsert`, its steps are the two halves of `IndexConsistent` and `KeyShape`.

`RegistryUpsertKeepsOtherPorts` proves `Spec => UpsertKeepsOtherPorts` from the same invariant and assumption. Let `s0` be the key that another port `q` resolves to:

- `ForgetOldProject` does not delete `s0`, because that deletes the key of a backend on `p`, by `IndexConsistent`.
- An in-place update does not touch `s0`, because its backend is neither on `p` nor for the upserted path.
- An insert's key is not `s0`. A free slug is not live, and a disambiguated `slug-p` can be `s0` only if `s0`'s backend listens on `p`, by `KeyShape`, `SlugsUnambiguous` and `DisambiguatePort`.

The refinement proof has the usual two parts: `Init` maps to `DInit`, and under `IInv` every step maps to a step of the directory or a stutter. Each concrete action gets one lemma:

- `PortViewUpsert`: an Upsert is `Register(p, x)`, witnessed by the set of ports whose entry changed. `UpsertOtherPort` gives the two cases for another port `q`. Either its index entry and the backend it names are untouched. Or the entry is cleared and its backend was the project being upserted. The lemma rests on the same argument as `UpsertKeepsOtherPorts`, which is now derived from it. `PortViewUpsertSelf` gives the upserted port its fresh entry.
- `PortViewPrune`: a Prune is `Expire`. Under `IndexConsistent`, a port's entry is cleared exactly when the backend it names is stale.
- `PortViewTick`: a Tick is `Age`.

Without `IInv` the mapping fails: a collision that overwrites a key changes another port's entry to a different project, which no step of the directory does.

### `ScannerProofs`

Two theorems are proved for every port range and concurrency:

- `ScanPruneAfterPass`: `ScanSpec => PruneAfterPass`. When `wg.Wait()` returns and Prune runs, no probe goroutine is running.
- `ScanConcurrencyBound`: at most `Concurrency` probes run at once.

The inductive invariant is `SInv == ScanCtlType /\ Counted /\ InOrder`:

- `Counted`: `wg` is the number of running probes, plus one in `acquire`, because `wg.Add(1)` comes before the semaphore send. `sem` is the number of running probes, and never more than the capacity.
- `InOrder`: a pass starts its probes in port order. While it acquires, or checks or waits uncancelled, every running probe is on a port below `next`. While Run is in its select uncancelled, no probe runs.

`InOrder` is what makes `Counted` inductive. The port `ScanAcquire` starts must be idle, or the count would not grow. That port is idle because a pass only starts after a completed pass (which left nothing running) or after a cancelled one. A cancelled pass never gets past its first ctx check.

The lemmas `ActiveStart`, `ActiveStop` and `ActiveMove` say how the running set changes when one probe changes step. `FiniteSetTheorems` gives its cardinality.

### `LauncherProofs`

Two theorems are proved for every port range, argument list and behaviour of other programs:

- `LaunchDistinctPorts`: `LSpec => []DistinctPorts`.
- `LaunchErrorOnlyWhenFull`: `LSpec => []ErrorOnlyWhenFull`.

Both rest on the inductive invariant `LInv`, which says:

- the ports of `procs` increase along the sequence and stay below `nextPort`;
- every port from `portStart` to `nextPort - 1` is held by another program or by a started process;
- an error leaves `nextPort` past `portEnd`.

The second clause is the heart of it. `nextPort` only moves past a port that `portInUse` reported, which a started child reports only once it has bound, or past the port a `Start` has just taken. Neither `busy` nor `procs` ever shrinks. The lemma `ProcEntries` gives the type of the entries of `procs`, from `SequenceTheorems`.

Neither theorem needs the range check that `launcher_range` shows missing: a start on `portEnd + 1` breaks neither.

### `ScannerRegistryProofs`

Three theorems are proved for every port range, concurrency and behaviour of the instances:

- `ScanDrivesRegistry`: `ScanSpec => Spec`. Seen on `backends` and `byPort`, every behaviour of the scanner's system is one of the registry's own specification. `ProjectOK` and `ProjectFail` are Upserts, `ScanWait` is a Prune, `ScanTick` is a Tick, and every other step leaves both maps alone. The only fact needed is the type of `server` (`ServerType`), so that the path a probe upserts is a path.
- `ScanIndexConsistent` and `ScanImplementsPortDirectory`: under `SlugsUnambiguous`, the registry the scanner drives keeps `IndexConsistent` and refines `PortDirectory`. Both follow from `ScanDrivesRegistry` and the registry's theorems.

### `RouterProofs`

Two theorems are proved for every set of ports and paths and every slug function, with no assumption on collisions:

- `RouterHandedOutRoutesBack`: `Spec => []HandedOutRoutesBack`. The inductive invariant is `RInv == TypeOK /\ SlugFieldIsKey`, which says a live backend's `Slug` field is the key it is stored under. `UpsertInsert` writes `Slug: key` next to `backends[key]`. An in-place update keeps the field, and Prune and time never touch it. A client builds its request from `Slug`, and `ServeHTTP` looks the request up by key, so it reaches the same backend. `SlugsUnambiguous` is not needed: a collision replaces the backend under a key, but the new backend carries the same key.
- `RouterApiShadowedOnlyByApiSlug`: `Spec => []ApiShadowedOnlyByApiSlug`. This holds in every state, because path routing comes before the API paths in `ServeHTTP`.

### `RouterParseProofs`

Two theorems are proved for every slug, username, path tail and port suffix that `RouterParseStrings` allows:

- `RouterParsePathRoutesBack`: `RPSpec => []PathRoutesBack`. `slugFromPath` splits `/<slug>/<tail>` into the slug and `/<tail>`, and `/<slug>` into the slug and `/`. The lemmas `SelectFirstSlash` and `SelectNoSlash` say where the first `/` of a concatenation is. `SlugFromPathOf` unfolds the parser over plain arguments, because the provers do not rewrite under the `LAMBDA` that `SelectInSeq` takes. `PathSplit` puts these together.
- `RouterParseDomainRoutesBack`: under `UsersRoutable`, `RPSpec => []DomainRoutesBack`. `HostnameOf` gives the advertised name as a sequence. `LowerFixed` says that lower-casing leaves it alone. `HostSplit` shows that cutting at the last `:` and removing the suffixes `.local` and `-<username>` gives back the slug and the username.

`UsersRoutable` says every username is made of characters that `ToLower` leaves alone, and has no `:`. It is a hypothesis of the theorem, not an assumption of the module, because the code does not guarantee it: `os.Getenv("USER")` can be anything. The run `router_upper_username` shows the property fails for a username with an upper-case letter. `UsersRoutable` is false on that run's usernames and true on those of `router_parse`.

### `AdvertiserProofs`

Three theorems are proved for every set of ports and paths, every slug function and every bound on the registry calls:

- `AdvDrivesRegistry`: `SysSpec => Spec`. The sync goroutine and main only read the registry, and `RegistryStep` is an Upsert, a Prune or a Tick.
- `AdvIndexConsistent` and `AdvImplementsPortDirectory`: under `SlugsUnambiguous`, the registry of the advertiser's system keeps `IndexConsistent` and refines `PortDirectory`. Both follow from `AdvDrivesRegistry` and the registry's theorems.

`SlugFieldIsKey` and its lemmas (`RInv`, `RInvNext`) are in `RegistryProofs`, where `RouterProofs` uses them.

### What is only model-checked

- The liveness properties (`PassCompletes`, `DownForgotten`, `Discovered`, `AdvertConverges`). TLAPS does not handle liveness under fairness, or ENABLED.
- The Advertiser's other properties, which are liveness properties or are violated.
- `Slug`'s `SlugifyMatchesReference` and `SlugifyIdempotent`. `Slugify` is a `FoldLeft` over the string, and the reference uses `SetToSortSeq` and `FlattenSeq`. Saying what these compute for every input is induction over data. The library's induction theorems take an operator parameter, which the installed provers cannot instantiate. Both properties are checked on every string up to the bounds above.
- Everything the runs check beyond the theorems above, on the small instances given.

## Not modelled, and what is left

- **The router's forwarding, `/api/health` and the dashboard.** `Router` models which backend and path a request is sent to. The reverse proxy's bytes, streaming, headers and error page are HTTP I/O. The copy of the backend that a handler takes under the read lock can be stale when the proxy dials its port. No property the code is meant to satisfy separates those two steps, so the hazard is listed without one.
- **`ProbeTimeout` and `StaleAfter` values that `Validate` accepts but the model cannot express.** A timeout of 0 disables the HTTP timeout that the scanner's fairness assumes. A `StaleAfter` of 0 or less prunes every backend at the end of the pass that found it, which needs real elapsed time and not ticks. Both are listed as hazards.
- **`Launcher.Shutdown`.** It only sends signals.
- **The older registry's rune-based disambiguation.**
- **Flag parsing, `GetOutboundIP`, logging and the dashboard template.** These are I/O or formatting, and no property reads them.

Next step: a request process in `Router` separating the lookup from the dial, composed with the scanner, should a property of that race become worth stating.

------------------------------ MODULE Registry ------------------------------
(***************************************************************************)
(* The backend registry of internal/registry/registry.go: a map from slug  *)
(* to Backend (`backends`) with a secondary index from port to slug        *)
(* (`byPort`), guarded by one RWMutex.  Every exported method holds the    *)
(* lock for its whole body, so each is one atomic step here.               *)
(*                                                                         *)
(* Data abstraction.  A project path is an opaque model value; Slugify is  *)
(* the constant function SlugOf.  A slug is a non-empty sequence of        *)
(* hyphen-free segments (Words, or port numbers), so that the string       *)
(* "s-<port>" built by fmt.Sprintf("%s-%d", slug, port) is Append(s, port):*)
(* two slugs are equal strings exactly when their segment sequences are    *)
(* equal, and a project folder literally named "app-30001" has a slug      *)
(* equal to the disambiguated slug of "app" on port 30001.  ProjectName is *)
(* always filepath.Base(ProjectPath) at the call sites and Version is      *)
(* opaque text no decision reads; both are left out.  Time enters only as  *)
(* time.Since(b.LastSeen), so a backend carries its age in ticks, capped   *)
(* at StaleAfter + 1: every comparison the code makes (> staleAfter in     *)
(* Prune, < staleAfter in Healthy) is decided by the capped age.           *)
(***************************************************************************)
EXTENDS Naturals, Sequences

CONSTANTS
    Ports,       \* ports Upsert is called with
    Paths,       \* project paths reported by instances
    Words,       \* the hyphen-free words slugs are made of
    SlugOf,      \* Slugify, as a function of the path
    StaleAfter,  \* Registry.staleAfter, in clock ticks
    NoBackend    \* the value of backends[s] when s is not a key

VARIABLES
    backends,    \* slug -> Backend, NoBackend where the map has no entry
    byPort       \* port -> slug, NoSlug where the map has no entry

vars == <<backends, byPort>>

(* Slugify never returns "" (it returns "default"), so <<>> is free to     *)
(* mean "no slug".                                                         *)
NoSlug == <<>>

ASSUME PortsAssumption == Ports \subseteq Nat
ASSUME SlugOfAssumption == SlugOf \in [Paths -> Seq(Words \cup Ports) \ {NoSlug}]
ASSUME StaleAfterAssumption == StaleAfter \in Nat

(* fmt.Sprintf("%s-%d", slug, port): the slug of a collision.              *)
Disambiguate(slug, port) == Append(slug, port)

(* Every slug a key of `backends` can have.                                *)
Slugs == {SlugOf[x] : x \in Paths} \cup
         {Disambiguate(SlugOf[x], p) : x \in Paths, p \in Ports}

(* The ages time.Since(LastSeen) can have, the last standing for all       *)
(* larger ones.                                                            *)
MaxAge == StaleAfter + 1
Ages == 0..MaxAge

Backend == [port : Ports, path : Paths, slug : Slugs, age : Ages]

ASSUME NoBackendAssumption == NoBackend \notin Backend

(* The keys of `backends`.                                                 *)
Live == {s \in Slugs : backends[s] # NoBackend}

(* Registry.New: both maps empty.                                          *)
Init ==
    /\ backends = [s \in Slugs |-> NoBackend]
    /\ byPort = [p \in Ports |-> NoSlug]

(***************************************************************************)
(* Upsert(port, projectName, projectPath, version).  First, if the port    *)
(* was registered under another slug, that backend is deleted (but not its *)
(* byPort entry, which the rest of Upsert overwrites).                     *)
(***************************************************************************)
ForgetOldProject(port, slug) ==
    LET old == byPort[port]
    IN  IF old # NoSlug /\ old # slug
          THEN [backends EXCEPT ![old] = NoBackend]
          ELSE backends

(* Variant: the older registry (src/unnamed/part_004:59-72) updates the    *)
(* backend found under the slug whatever its path and port.                *)
SameSlug(existing, port, path) == existing # NoBackend

(* The condition under which the backend found under the slug is updated:  *)
(* same project, or same port.                                             *)
SameInstance(existing, port, path) ==
    existing.path = path \/ existing.port = port

(* Variant: the in-place update without the deletion of the old port's     *)
(* index entry (registry.go:65-67).                                        *)
UpsertInPlaceKeepOldPort(port, path) ==
    LET slug     == SlugOf[path]
        bs       == ForgetOldProject(port, slug)
        existing == bs[slug]
    IN  /\ existing # NoBackend
        /\ SameInstance(existing, port, path)
        /\ backends' = [bs EXCEPT ![slug] = [existing EXCEPT !.port = port,
                                                             !.path = path,
                                                             !.age = 0]]
        /\ byPort' = [byPort EXCEPT ![port] = slug]

(* The slug's backend exists and is the same instance: update in place,    *)
(* moving the port index entry if the port changed.                        *)
UpsertInPlace(port, path) ==
    LET slug     == SlugOf[path]
        bs       == ForgetOldProject(port, slug)
        existing == bs[slug]
        index    == IF existing.port # port
                      THEN [byPort EXCEPT ![existing.port] = NoSlug]
                      ELSE byPort
    IN  /\ existing # NoBackend
        /\ SameInstance(existing, port, path)
        /\ backends' = [bs EXCEPT ![slug] = [existing EXCEPT !.port = port,
                                                             !.path = path,
                                                             !.age = 0]]
        /\ byPort' = [index EXCEPT ![port] = slug]

(* Variant: the fresh Backend's Slug field set to the slug before         *)
(* disambiguation.                                                         *)
UpsertInsertSlugField(port, path) ==
    LET slug     == SlugOf[path]
        bs       == ForgetOldProject(port, slug)
        existing == bs[slug]
        key      == IF existing = NoBackend THEN slug
                                            ELSE Disambiguate(slug, port)
    IN  /\ existing # NoBackend => ~SameInstance(existing, port, path)
        /\ backends' = [bs EXCEPT ![key] = [port |-> port, path |-> path,
                                            slug |-> slug, age |-> 0]]
        /\ byPort' = [byPort EXCEPT ![port] = key]

(* Otherwise a fresh Backend is stored, under the slug itself if it is     *)
(* free and under the disambiguated slug after a collision.                *)
UpsertInsert(port, path) ==
    LET slug     == SlugOf[path]
        bs       == ForgetOldProject(port, slug)
        existing == bs[slug]
        key      == IF existing = NoBackend THEN slug
                                            ELSE Disambiguate(slug, port)
    IN  /\ existing # NoBackend => ~SameInstance(existing, port, path)
        /\ backends' = [bs EXCEPT ![key] = [port |-> port, path |-> path,
                                            slug |-> key, age |-> 0]]
        /\ byPort' = [byPort EXCEPT ![port] = key]

Upsert(port, path) == UpsertInPlace(port, path) \/ UpsertInsert(port, path)

(* Variant: a backend counted stale once its age reaches r.staleAfter.      *)
IsStaleAtLimit(b) == b.age >= StaleAfter

(* A backend is stale when time.Since(b.LastSeen) > r.staleAfter.          *)
IsStale(b) == b.age > StaleAfter

(* Backend.Healthy: time.Since(b.LastSeen) < staleAfter.                   *)
Healthy(b) == b.age < StaleAfter

(* Prune: every stale backend leaves both maps.                            *)
Prune ==
    LET stale == {s \in Live : IsStale(backends[s])}
    IN  /\ backends' = [s \in Slugs |-> IF s \in stale THEN NoBackend
                                                         ELSE backends[s]]
        /\ byPort' = [p \in Ports |->
                        IF \E s \in stale : backends[s].port = p
                          THEN NoSlug ELSE byPort[p]]

(* Time passes between registry calls: every backend ages by one tick.     *)
Tick ==
    /\ backends' = [s \in Slugs |->
                      IF backends[s] = NoBackend THEN NoBackend
                      ELSE [backends[s] EXCEPT !.age =
                              IF @ < MaxAge THEN @ + 1 ELSE MaxAge]]
    /\ UNCHANGED byPort

(***************************************************************************)
(* The read-only methods, as the values they return.  Each returns a copy  *)
(* of the record, so the caller's value is the state at the call.          *)
(***************************************************************************)
Lookup(slug) == IF slug \in Slugs THEN backends[slug] ELSE NoBackend

(* LookupByPort dereferences backends[slug] without checking it exists: a  *)
(* port whose slug has no backend is a nil-pointer dereference.            *)
LookupByPort(port) == IF byPort[port] = NoSlug THEN NoBackend
                                               ELSE backends[byPort[port]]

(* LookupByPath: the backends with that exact path (the map is iterated in *)
(* random order, so any of them), else the one under Slugify(path).        *)
LookupByPath(path) ==
    LET exact == {backends[s] : s \in {t \in Live : backends[t].path = path}}
    IN  IF exact # {} THEN exact ELSE {Lookup(SlugOf[path])}

(* All: a snapshot of every backend.                                       *)
All == {backends[s] : s \in Live}

Next ==
    \/ \E p \in Ports, x \in Paths : Upsert(p, x)
    \/ Prune
    \/ Tick

Spec == Init /\ [][Next]_vars

-----------------------------------------------------------------------------
(* The type invariant.                                                     *)
TypeOK ==
    /\ backends \in [Slugs -> Backend \cup {NoBackend}]
    /\ byPort \in [Ports -> Slugs \cup {NoSlug}]

(***************************************************************************)
(* Spec invariants I1-I3: the two maps agree.  Every backend is indexed    *)
(* under its own port, and every port index entry names a backend that     *)
(* listens on that port; together they make byPort a bijection between    *)
(* the indexed ports and the live slugs.  The second half is what makes    *)
(* LookupByPort safe and is what a collision that overwrites a backend     *)
(* (registry.go:78-81) breaks.                                             *)
(***************************************************************************)
IndexConsistent ==
    /\ \A s \in Live : byPort[backends[s].port] = s
    /\ \A p \in Ports : byPort[p] # NoSlug =>
           /\ backends[byPort[p]] # NoBackend
           /\ backends[byPort[p]].port = p

(***************************************************************************)
(* Upsert(port, path) never takes a backend away from another port: after *)
(* the call every other port still resolves to a backend for the project  *)
(* it resolved to before, unless that project is the one being upserted   *)
(* (it moved to this port).  A collision that lands on an existing key    *)
(* silently replaces another port's project.                               *)
(***************************************************************************)
UpsertKeepsOtherPorts ==
    [][\A p \in Ports, x \in Paths :
         Upsert(p, x) =>
           \A q \in Ports \ {p} :
              LET b == LookupByPort(q) IN
              (b # NoBackend /\ b.port = q /\ b.path # x) =>
                 /\ LookupByPort(q)' # NoBackend
                 /\ LookupByPort(q)'.path = b.path
                 /\ LookupByPort(q)'.port = q]_vars

(* The constants under which no project's slug equals the disambiguated    *)
(* slug of another (no folder named "<slug>-<port>").                      *)
SlugsUnambiguous ==
    \A x, y \in Paths, p \in Ports : SlugOf[y] # Disambiguate(SlugOf[x], p)

-----------------------------------------------------------------------------
(***************************************************************************)
(* The registry seen by port, as LookupByPort returns it: the project and  *)
(* age of the backend indexed under each port.                             *)
(***************************************************************************)
PortEntry(q) ==
    IF LookupByPort(q) = NoBackend THEN {}
    ELSE {[path |-> LookupByPort(q).path, age |-> LookupByPort(q).age]}

PortView == [q \in Ports |-> PortEntry(q)]

Directory == INSTANCE PortDirectory WITH dir <- PortView

(***************************************************************************)
(* Upsert, Prune and the passing of time, seen through LookupByPort,       *)
(* behave as the port directory of PortDirectory: an Upsert gives its port *)
(* the project fresh and takes no other port's project away unless it is   *)
(* the one that moved, and Prune drops exactly the backends older than     *)
(* staleAfter from the port index.                                         *)
(***************************************************************************)
ImplementsPortDirectory == Directory!DSpec
=============================================================================

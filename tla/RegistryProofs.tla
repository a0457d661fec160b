--------------------------- MODULE RegistryProofs ---------------------------
(***************************************************************************)
(* Proofs about the registry of Registry.tla, for every set of ports,     *)
(* paths and slugs, every staleness threshold and every clock bound.       *)
(***************************************************************************)
EXTENDS Registry, SequenceTheorems, TLAPS

-----------------------------------------------------------------------------
(* Lemmas on the constants.                                                *)

(* A disambiguated slug is a slug.                                         *)
LEMMA DisambiguateInSlugs ==
    ASSUME NEW x \in Paths, NEW p \in Ports
    PROVE  Disambiguate(SlugOf[x], p) \in Slugs
BY DEF Slugs

(* Every slug is a sequence.                                               *)
LEMMA SlugsAreSeqs ==
    Slugs \subseteq Seq(Words \cup Ports)
<1>1. ASSUME NEW x \in Paths PROVE SlugOf[x] \in Seq(Words \cup Ports)
  BY SlugOfAssumption
<1>2. ASSUME NEW x \in Paths, NEW p \in Ports
      PROVE  Disambiguate(SlugOf[x], p) \in Seq(Words \cup Ports)
  BY <1>1, AppendProperties DEF Disambiguate
<1>3. QED BY <1>1, <1>2 DEF Slugs

(* Two disambiguated slugs are equal only if the ports are.                *)
LEMMA DisambiguatePort ==
    ASSUME NEW s \in Seq(Words \cup Ports), NEW t \in Seq(Words \cup Ports),
           NEW p \in Ports, NEW q \in Ports,
           Disambiguate(s, p) = Disambiguate(t, q)
    PROVE  p = q
<1>1. Disambiguate(s, p)[Len(s) + 1] = p
  BY AppendProperties DEF Disambiguate
<1>2. Disambiguate(t, q)[Len(t) + 1] = q
  BY AppendProperties DEF Disambiguate
<1>3. Len(s) = Len(t)
  BY AppendProperties DEF Disambiguate
<1>4. QED BY <1>1, <1>2, <1>3

(* A fresh backend's age is an age.                                       *)
LEMMA ZeroAge == 0 \in Ages
BY StaleAfterAssumption DEF Ages, MaxAge

-----------------------------------------------------------------------------
(* Type correctness.                                                       *)

LEMMA TypeOKInit == Init => TypeOK
BY DEF Init, TypeOK

LEMMA TypeOKNext == TypeOK /\ [Next]_vars => TypeOK'
<1> SUFFICES ASSUME TypeOK, [Next]_vars PROVE TypeOK'
  OBVIOUS
<1> USE DEF TypeOK
<1>1. ASSUME NEW p \in Ports, NEW x \in Paths, UpsertInPlace(p, x)
      PROVE  TypeOK'
  <2> DEFINE slug == SlugOf[x]
             bs == ForgetOldProject(p, slug)
  <2>1. slug \in Slugs
    BY DEF Slugs
  <2>2. bs \in [Slugs -> Backend \cup {NoBackend}]
    BY DEF ForgetOldProject
  <2>3. bs[slug] \in Backend
    BY <1>1, <2>1, <2>2 DEF UpsertInPlace
  <2>4. [bs[slug] EXCEPT !.port = p, !.path = x, !.age = 0] \in Backend
    BY <2>3, ZeroAge DEF Backend
  <2>5. QED BY <1>1, <2>1, <2>2, <2>3, <2>4 DEF UpsertInPlace
<1>2. ASSUME NEW p \in Ports, NEW x \in Paths, UpsertInsert(p, x)
      PROVE  TypeOK'
  <2> DEFINE slug == SlugOf[x]
             bs == ForgetOldProject(p, slug)
             key == IF bs[slug] = NoBackend THEN slug ELSE Disambiguate(slug, p)
  <2>1. key \in Slugs
    BY DisambiguateInSlugs DEF Slugs
  <2>2. bs \in [Slugs -> Backend \cup {NoBackend}]
    BY DEF ForgetOldProject
  <2>3. [port |-> p, path |-> x, slug |-> key, age |-> 0] \in Backend
    BY <2>1, ZeroAge DEF Backend
  <2>4. QED BY <1>2, <2>1, <2>2, <2>3 DEF UpsertInsert
<1>3. CASE Prune
  BY <1>3 DEF Prune
<1>4. CASE Tick
  BY <1>4, StaleAfterAssumption DEF Tick, Backend, Ages, MaxAge
<1>5. CASE UNCHANGED vars
  BY <1>5 DEF vars
<1>6. QED BY <1>1, <1>2, <1>3, <1>4, <1>5 DEF Next, Upsert

(* The registry's maps always have their types.                           *)
THEOREM TypeCorrect == Spec => []TypeOK
BY TypeOKInit, TypeOKNext, PTL DEF Spec

-----------------------------------------------------------------------------
(***************************************************************************)
(* Index consistency.  It needs the shape of the keys: a backend is kept   *)
(* either under the slug of its path or under the disambiguated slug of    *)
(* its path and its port.  A disambiguated key is never updated in place   *)
(* (Upsert only looks up the slug of the path), so its port is fixed, and  *)
(* a collision that computes an existing disambiguated key finds that key  *)
(* on its own port, where ForgetOldProject has just deleted it.            *)
(***************************************************************************)
KeyShape ==
    \A s \in Live :
        \/ s = SlugOf[backends[s].path]
        \/ s = Disambiguate(SlugOf[backends[s].path], backends[s].port)

IInv == TypeOK /\ IndexConsistent /\ KeyShape

(* The sentinel is not a slug.                                             *)
LEMMA NoSlugNotSlug == NoSlug \notin Slugs
<1>1. ASSUME NEW x \in Paths PROVE SlugOf[x] # NoSlug
  BY SlugOfAssumption
<1>2. ASSUME NEW x \in Paths, NEW p \in Ports
      PROVE  Disambiguate(SlugOf[x], p) # NoSlug
  <2>1. SlugOf[x] \in Seq(Words \cup Ports)
    BY SlugOfAssumption
  <2>2. Len(Disambiguate(SlugOf[x], p)) = Len(SlugOf[x]) + 1
    BY <2>1, AppendProperties DEF Disambiguate
  <2>3. QED BY <2>1, <2>2 DEF NoSlug
<1>3. QED BY <1>1, <1>2 DEF Slugs

(* A disambiguated slug differs from the slug it extends.                  *)
LEMMA DisambiguateDiffers ==
    ASSUME NEW s \in Seq(Words \cup Ports), NEW p \in Ports
    PROVE  Disambiguate(s, p) # s
BY AppendProperties DEF Disambiguate

LEMMA IInvInit == Init => IInv
BY TypeOKInit, NoSlugNotSlug DEF Init, IInv, IndexConsistent, KeyShape, Live

LEMMA IInvNext ==
    ASSUME SlugsUnambiguous
    PROVE  IInv /\ [Next]_vars => IInv'
<1> SUFFICES ASSUME IInv, [Next]_vars PROVE IInv'
  OBVIOUS
<1>0. TypeOK'
  BY TypeOKNext DEF IInv
<1> USE DEF IInv, TypeOK
<1>1. ASSUME NEW p \in Ports, NEW x \in Paths, UpsertInPlace(p, x)
      PROVE  IInv'
  <2> DEFINE slug  == SlugOf[x]
             old   == byPort[p]
             bs    == ForgetOldProject(p, slug)
             e     == bs[slug]
             index == IF e.port # p THEN [byPort EXCEPT ![e.port] = NoSlug]
                                    ELSE byPort
  <2>1. slug \in Slugs
    BY DEF Slugs
  <2>2. /\ bs \in [Slugs -> Backend \cup {NoBackend}]
        /\ \A s \in Slugs : bs[s] = IF old # NoSlug /\ old # slug /\ s = old
                                      THEN NoBackend ELSE backends[s]
    BY DEF ForgetOldProject
  <2>3. /\ e = backends[slug]
        /\ e \in Backend
        /\ slug \in Live
    BY <1>1, <2>1, <2>2 DEF UpsertInPlace, Live
  <2>4. byPort[e.port] = slug
    BY <2>3 DEF IndexConsistent
  <2>5. /\ backends' = [bs EXCEPT ![slug] = [e EXCEPT !.port = p, !.path = x,
                                                     !.age = 0]]
        /\ byPort' = [index EXCEPT ![p] = slug]
    BY <1>1 DEF UpsertInPlace
  <2>6. /\ index \in [Ports -> Slugs \cup {NoSlug}]
        /\ \A q \in Ports : index[q] = IF q = e.port /\ e.port # p
                                         THEN NoSlug ELSE byPort[q]
    BY <2>3 DEF Backend
  <2>7. /\ backends'[slug] # NoBackend
        /\ backends'[slug].port = p
        /\ backends'[slug].path = x
    BY <2>1, <2>2, <2>3, <2>5, NoBackendAssumption, ZeroAge DEF Backend
  <2>8. ASSUME NEW s \in Slugs, s # slug
        PROVE  backends'[s] = bs[s]
    BY <2>2, <2>5, <2>8
  <2>9. ASSUME NEW s \in Live', s # slug
        PROVE  /\ s \in Live
               /\ backends'[s] = backends[s]
               /\ backends[s].port # p
               /\ backends[s].port # e.port
    <3>1. s \in Slugs /\ backends'[s] # NoBackend
      BY DEF Live
    <3>2. bs[s] # NoBackend /\ backends'[s] = backends[s] /\ s \in Live
      BY <3>1, <2>2, <2>8, <2>9 DEF Live
    <3>3. byPort[backends[s].port] = s
      BY <3>2 DEF IndexConsistent
    <3>4. backends[s].port # p
      BY <3>1, <3>2, <3>3, <2>2, <2>9, NoSlugNotSlug
    <3>5. QED BY <3>2, <3>3, <3>4, <2>4, <2>9
  <2>10. \A s \in Live' : byPort'[backends'[s].port] = s
    <3> SUFFICES ASSUME NEW s \in Live' PROVE byPort'[backends'[s].port] = s
      OBVIOUS
    <3>1. CASE s = slug
      BY <3>1, <2>5, <2>6, <2>7
    <3>2. CASE s # slug
      <4>1. /\ s \in Live
            /\ backends'[s] = backends[s]
            /\ backends[s].port # p
            /\ backends[s].port # e.port
        BY <3>2, <2>9
      <4>2. backends[s].port \in Ports
        BY <4>1 DEF Live, Backend
      <4>3. byPort[backends[s].port] = s
        BY <4>1 DEF IndexConsistent
      <4>4. QED BY <4>1, <4>2, <4>3, <2>5, <2>6
    <3>3. QED BY <3>1, <3>2
  <2>11. \A q \in Ports : byPort'[q] # NoSlug =>
              /\ backends'[byPort'[q]] # NoBackend
              /\ backends'[byPort'[q]].port = q
    <3> SUFFICES ASSUME NEW q \in Ports, byPort'[q] # NoSlug
                 PROVE  /\ backends'[byPort'[q]] # NoBackend
                        /\ backends'[byPort'[q]].port = q
      OBVIOUS
    <3>1. CASE q = p
      BY <3>1, <2>5, <2>6, <2>7
    <3>2. CASE q # p
      <4>1. q # e.port /\ byPort'[q] = byPort[q] /\ byPort[q] # NoSlug
        BY <3>2, <2>5, <2>6
      <4>2. /\ backends[byPort[q]] # NoBackend
            /\ backends[byPort[q]].port = q
        BY <4>1 DEF IndexConsistent
      <4>3. byPort[q] # slug
        BY <4>1, <4>2, <2>3
      <4>4. byPort[q] # old \/ old = NoSlug
        BY <4>2, <3>2, <4>1 DEF IndexConsistent
      <4>5. byPort[q] \in Slugs
        BY <4>1
      <4>6. backends'[byPort[q]] = backends[byPort[q]]
        BY <4>3, <4>4, <4>5, <2>2, <2>8
      <4>7. QED BY <4>1, <4>2, <4>6
    <3>3. QED BY <3>1, <3>2
  <2>12. KeyShape'
    <3> SUFFICES ASSUME NEW s \in Live'
                 PROVE  \/ s = SlugOf[backends'[s].path]
                        \/ s = Disambiguate(SlugOf[backends'[s].path],
                                            backends'[s].port)
      BY DEF KeyShape
    <3>1. CASE s = slug
      BY <3>1, <2>7
    <3>2. CASE s # slug
      BY <3>2, <2>9 DEF KeyShape
    <3>3. QED BY <3>1, <3>2
  <2>13. QED BY <1>0, <2>10, <2>11, <2>12 DEF IndexConsistent
<1>2. ASSUME NEW p \in Ports, NEW x \in Paths, UpsertInsert(p, x)
      PROVE  IInv'
  <2> DEFINE slug == SlugOf[x]
             old  == byPort[p]
             bs   == ForgetOldProject(p, slug)
             key  == IF bs[slug] = NoBackend THEN slug ELSE Disambiguate(slug, p)
             nb   == [port |-> p, path |-> x, slug |-> key, age |-> 0]
  <2>1. slug \in Slugs /\ slug \in Seq(Words \cup Ports) /\ key \in Slugs
    BY SlugOfAssumption, DisambiguateInSlugs DEF Slugs
  <2>2. /\ bs \in [Slugs -> Backend \cup {NoBackend}]
        /\ \A s \in Slugs : bs[s] = IF old # NoSlug /\ old # slug /\ s = old
                                      THEN NoBackend ELSE backends[s]
    BY DEF ForgetOldProject
  <2>3. /\ backends' = [bs EXCEPT ![key] = nb]
        /\ byPort' = [byPort EXCEPT ![p] = key]
        /\ bs[slug] # NoBackend => ~SameInstance(bs[slug], p, x)
    BY <1>2 DEF UpsertInsert
  <2>4. nb \in Backend /\ nb # NoBackend
    BY <2>1, NoBackendAssumption, ZeroAge DEF Backend
  (* The key a collision computes is free once the old project is gone.   *)
  <2>5. bs[key] = NoBackend
    <3>1. CASE bs[slug] = NoBackend
      BY <3>1
    <3>2. CASE bs[slug] # NoBackend
      <4> SUFFICES ASSUME bs[key] # NoBackend PROVE FALSE
        OBVIOUS
      <4>1. key = Disambiguate(slug, p)
        BY <3>2
      <4>2. key \in Live /\ bs[key] = backends[key]
        BY <2>1, <2>2 DEF Live
      <4>3. backends[key] \in Backend
        BY <4>2, <2>1
      <4>4. key # SlugOf[backends[key].path]
        BY <4>1, <4>3 DEF SlugsUnambiguous, Backend
      <4>5. key = Disambiguate(SlugOf[backends[key].path], backends[key].port)
        BY <4>2, <4>4 DEF KeyShape
      <4>6. backends[key].port = p
        <5>1. /\ SlugOf[backends[key].path] \in Seq(Words \cup Ports)
              /\ backends[key].port \in Ports
          BY <4>3, SlugOfAssumption DEF Backend
        <5>2. Disambiguate(slug, p) =
              Disambiguate(SlugOf[backends[key].path], backends[key].port)
          BY <4>1, <4>5
        <5>3. QED BY <5>1, <5>2, <2>1, DisambiguatePort
      <4>7. old = key
        BY <4>2, <4>6 DEF IndexConsistent
      <4>8. key # slug /\ key # NoSlug
        BY <4>1, <2>1, DisambiguateDiffers, NoSlugNotSlug
      <4>9. QED BY <4>7, <4>8, <2>1, <2>2
    <3>3. QED BY <3>1, <3>2
  (* No other port is indexed under the slug the old project had.         *)
  <2>6. ASSUME NEW q \in Ports, q # p, byPort[q] # NoSlug
        PROVE  /\ bs[byPort[q]] = backends[byPort[q]]
               /\ backends[byPort[q]] # NoBackend
               /\ backends[byPort[q]].port = q
               /\ byPort[q] # key
    <3>1. /\ backends[byPort[q]] # NoBackend
          /\ backends[byPort[q]].port = q
      BY <2>6 DEF IndexConsistent
    <3>2. byPort[q] # old \/ old = NoSlug
      BY <3>1, <2>6 DEF IndexConsistent
    <3>3. bs[byPort[q]] = backends[byPort[q]]
      BY <3>2, <2>2, <2>6
    <3>4. QED BY <3>1, <3>3, <2>5
  (* A backend other than the new one is on another port.                *)
  <2>7. ASSUME NEW s \in Slugs, s # key, backends'[s] # NoBackend
        PROVE  /\ backends'[s] = backends[s]
               /\ s \in Live
               /\ backends[s].port # p
    <3>1. backends'[s] = bs[s] /\ bs[s] # NoBackend
      BY <2>2, <2>3, <2>7
    <3>2. backends'[s] = backends[s] /\ s \in Live
      BY <3>1, <2>2, <2>7 DEF Live
    <3>3. byPort[backends[s].port] = s
      BY <3>2 DEF IndexConsistent
    <3>4. CASE old # NoSlug /\ old # slug
      BY <3>1, <3>2, <3>3, <3>4, <2>2, <2>7
    <3>5. CASE old = slug
      <4>1. backends[slug] # NoBackend /\ backends[slug].port = p
        BY <3>5, <2>1, NoSlugNotSlug DEF IndexConsistent
      <4>2. bs[slug] = backends[slug]
        BY <3>5, <2>1, <2>2
      <4>3. ~SameInstance(bs[slug], p, x)
        BY <4>1, <4>2, <2>3
      <4>4. QED BY <4>1, <4>2, <4>3, <3>2, <3>3 DEF SameInstance
    <3>6. CASE old = NoSlug
      BY <3>2, <3>3, <3>6, <2>1, NoSlugNotSlug
    <3>7. QED BY <3>4, <3>5, <3>6
  <2>8. \A s \in Live' : byPort'[backends'[s].port] = s
    <3> SUFFICES ASSUME NEW s \in Live' PROVE byPort'[backends'[s].port] = s
      OBVIOUS
    <3>1. CASE s = key
      BY <3>1, <2>1, <2>2, <2>3, <2>4
    <3>2. CASE s # key
      <4>1. /\ backends'[s] = backends[s]
            /\ s \in Live
            /\ backends[s].port # p
        BY <3>2, <2>7 DEF Live
      <4>2. backends[s].port \in Ports /\ byPort[backends[s].port] = s
        BY <4>1 DEF IndexConsistent, Live, Backend
      <4>3. QED BY <4>1, <4>2, <2>3
    <3>3. QED BY <3>1, <3>2
  <2>9. \A q \in Ports : byPort'[q] # NoSlug =>
             /\ backends'[byPort'[q]] # NoBackend
             /\ backends'[byPort'[q]].port = q
    <3> SUFFICES ASSUME NEW q \in Ports, byPort'[q] # NoSlug
                 PROVE  /\ backends'[byPort'[q]] # NoBackend
                        /\ backends'[byPort'[q]].port = q
      OBVIOUS
    <3>1. CASE q = p
      BY <3>1, <2>1, <2>2, <2>3, <2>4
    <3>2. CASE q # p
      <4>1. byPort'[q] = byPort[q] /\ byPort[q] # NoSlug /\ byPort[q] \in Slugs
        BY <3>2, <2>3
      <4>2. QED BY <4>1, <3>2, <2>2, <2>3, <2>6
    <3>3. QED BY <3>1, <3>2
  <2>10. KeyShape'
    <3> SUFFICES ASSUME NEW s \in Live'
                 PROVE  \/ s = SlugOf[backends'[s].path]
                        \/ s = Disambiguate(SlugOf[backends'[s].path],
                                            backends'[s].port)
      BY DEF KeyShape
    <3>1. CASE s = key
      BY <3>1, <2>1, <2>2, <2>3
    <3>2. CASE s # key
      BY <3>2, <2>7 DEF KeyShape, Live
    <3>3. QED BY <3>1, <3>2
  <2>11. QED BY <1>0, <2>8, <2>9, <2>10 DEF IndexConsistent
<1>3. CASE Prune
  <2> DEFINE stale == {s \in Live : IsStale(backends[s])}
  <2>1. /\ backends' = [s \in Slugs |-> IF s \in stale THEN NoBackend
                                                        ELSE backends[s]]
        /\ byPort' = [q \in Ports |-> IF \E s \in stale : backends[s].port = q
                                        THEN NoSlug ELSE byPort[q]]
    BY <1>3 DEF Prune
  (* A port's index entry names the only backend on that port, so the    *)
  (* entry goes exactly when that backend goes.                          *)
  <2>2. ASSUME NEW s \in Live, NEW t \in stale, backends[t].port = backends[s].port
        PROVE  s = t
    BY <2>2 DEF IndexConsistent
  <2>3. \A s \in Live' : byPort'[backends'[s].port] = s
    <3> SUFFICES ASSUME NEW s \in Live' PROVE byPort'[backends'[s].port] = s
      OBVIOUS
    <3>1. s \in Live /\ s \notin stale /\ backends'[s] = backends[s]
      BY <2>1 DEF Live
    <3>2. backends[s].port \in Ports
      BY <3>1 DEF Live, Backend
    <3>3. QED BY <3>1, <3>2, <2>1, <2>2 DEF IndexConsistent
  <2>4. \A q \in Ports : byPort'[q] # NoSlug =>
             /\ backends'[byPort'[q]] # NoBackend
             /\ backends'[byPort'[q]].port = q
    <3> SUFFICES ASSUME NEW q \in Ports, byPort'[q] # NoSlug
                 PROVE  /\ backends'[byPort'[q]] # NoBackend
                        /\ backends'[byPort'[q]].port = q
      OBVIOUS
    <3>1. byPort'[q] = byPort[q] /\ ~\E s \in stale : backends[s].port = q
      BY <2>1
    <3>2. /\ byPort[q] \in Live
          /\ backends[byPort[q]].port = q
      BY <3>1 DEF IndexConsistent, Live
    <3>3. byPort[q] \notin stale
      BY <3>1, <3>2
    <3>4. QED BY <3>1, <3>2, <3>3, <2>1 DEF Live
  <2>5. KeyShape'
    BY <2>1 DEF KeyShape, Live
  <2>6. QED BY <1>0, <2>3, <2>4, <2>5 DEF IndexConsistent
<1>4. CASE Tick
  <2>1. ASSUME NEW s \in Slugs
        PROVE  /\ backends'[s] = NoBackend <=> backends[s] = NoBackend
               /\ backends[s] # NoBackend =>
                     /\ backends'[s].port = backends[s].port
                     /\ backends'[s].path = backends[s].path
    <3>1. CASE backends[s] = NoBackend
      BY <3>1, <1>4 DEF Tick
    <3>2. CASE backends[s] # NoBackend
      <4>1. backends[s] \in Backend
        BY <3>2
      <4>2. backends'[s] = [backends[s] EXCEPT !.age =
                               IF @ < MaxAge THEN @ + 1 ELSE MaxAge]
        BY <3>2, <1>4 DEF Tick
      <4>3. backends'[s] \in Backend
        BY <4>1, <4>2, StaleAfterAssumption DEF Backend, Ages, MaxAge
      <4>4. QED BY <3>2, <4>1, <4>2, <4>3, NoBackendAssumption DEF Backend
    <3>3. QED BY <3>1, <3>2
  <2>2. Live' = Live /\ byPort' = byPort
    BY <2>1, <1>4 DEF Live, Tick
  <2>3. IndexConsistent'
    BY <2>1, <2>2 DEF IndexConsistent, Live
  <2>4. KeyShape'
    BY <2>1, <2>2 DEF KeyShape, Live
  <2>5. QED BY <1>0, <2>3, <2>4
<1>5. CASE UNCHANGED vars
  BY <1>0, <1>5 DEF vars, IndexConsistent, KeyShape, Live
<1>6. QED BY <1>1, <1>2, <1>3, <1>4, <1>5 DEF Next, Upsert

-----------------------------------------------------------------------------
(***************************************************************************)
(* What an Upsert on port p does to another port q: its index entry and    *)
(* the backend it names are untouched, or, when that backend is the       *)
(* project being upserted, the entry is cleared (the project moved to p).  *)
(* The key s0 of q is not the one ForgetOldProject deletes (that backend   *)
(* listens on p), not the slug updated in place unless its backend is on q *)
(* (then the entry is the one cleared), and not the key of an insert (a    *)
(* free slug is not live; a disambiguated slug-p is, by KeyShape and       *)
(* SlugsUnambiguous, only ever a key of a backend on p).                   *)
(***************************************************************************)
LEMMA UpsertOtherPort ==
    ASSUME SlugsUnambiguous, IInv,
           NEW p \in Ports, NEW x \in Paths, Upsert(p, x),
           NEW q \in Ports \ {p}
    PROVE  \/ /\ byPort'[q] = byPort[q]
              /\ byPort[q] # NoSlug => backends'[byPort[q]] = backends[byPort[q]]
           \/ /\ byPort'[q] = NoSlug
              /\ byPort[q] # NoSlug
              /\ backends[byPort[q]] \in Backend
              /\ backends[byPort[q]].path = x
<1> DEFINE s0 == byPort[q]
           slug == SlugOf[x]
           bs == ForgetOldProject(p, slug)
<1>1. slug \in Slugs
  BY DEF Slugs
<1>2. bs \in [Slugs -> Backend \cup {NoBackend}] /\ bs[slug] = backends[slug]
  BY DEF ForgetOldProject, IInv, TypeOK
<1>3. s0 # NoSlug => /\ s0 \in Slugs /\ s0 \in Live
                     /\ backends[s0] \in Backend /\ backends[s0].port = q
                     /\ bs[s0] = backends[s0]
  <2> SUFFICES ASSUME s0 # NoSlug
               PROVE  /\ s0 \in Slugs /\ s0 \in Live
                      /\ backends[s0] \in Backend /\ backends[s0].port = q
                      /\ bs[s0] = backends[s0]
    OBVIOUS
  <2>1. s0 \in Slugs /\ backends[s0] # NoBackend /\ backends[s0].port = q
    BY DEF IInv, TypeOK, IndexConsistent
  <2>2. backends[s0] \in Backend /\ s0 \in Live
    BY <2>1 DEF IInv, TypeOK, Live
  <2>3. bs[s0] = backends[s0]
    <3>1. CASE byPort[p] # NoSlug /\ byPort[p] # slug
      <4>1. backends[byPort[p]].port = p
        BY <3>1 DEF IInv, IndexConsistent
      <4>2. byPort[p] # s0
        BY <2>1, <4>1
      <4>3. QED BY <3>1, <4>2, <2>1 DEF ForgetOldProject, IInv, TypeOK
    <3>2. CASE ~(byPort[p] # NoSlug /\ byPort[p] # slug)
      BY <3>2 DEF ForgetOldProject
    <3>3. QED BY <3>1, <3>2
  <2>4. QED BY <2>1, <2>2, <2>3
<1>4. CASE UpsertInPlace(p, x)
  <2> DEFINE existing == bs[slug]
  <2>1. existing # NoBackend /\ SameInstance(existing, p, x)
    BY <1>4 DEF UpsertInPlace
  <2>2. slug \in Live /\ existing = backends[slug] /\ existing \in Backend
        /\ existing.port \in Ports
    BY <1>1, <1>2, <2>1 DEF Live, Backend
  <2>3. byPort[existing.port] = slug
    BY <2>2 DEF IInv, IndexConsistent
  <2>4. CASE existing.port = q
    <3>1. byPort'[q] = NoSlug
      BY <1>4, <2>4 DEF UpsertInPlace, IInv, TypeOK
    <3>2. s0 = slug /\ slug # NoSlug
      BY <1>1, <2>3, <2>4, NoSlugNotSlug
    <3>3. existing.path = x
      BY <2>1, <2>4 DEF SameInstance
    <3>4. QED BY <2>2, <3>1, <3>2, <3>3
  <2>5. CASE existing.port # q
    <3>1. byPort'[q] = s0
      BY <1>4, <2>5 DEF UpsertInPlace, IInv, TypeOK
    <3>2. s0 # NoSlug => backends'[s0] = backends[s0]
      <4> SUFFICES ASSUME s0 # NoSlug PROVE backends'[s0] = backends[s0]
        OBVIOUS
      <4>1. s0 # slug
        BY <1>3, <2>2, <2>5
      <4>2. QED BY <1>2, <1>3, <1>4, <4>1 DEF UpsertInPlace
    <3>3. QED BY <3>1, <3>2
  <2>6. QED BY <2>4, <2>5
<1>5. CASE UpsertInsert(p, x)
  <2> DEFINE key == IF bs[slug] = NoBackend THEN slug ELSE Disambiguate(slug, p)
  <2>1. byPort'[q] = s0
    BY <1>5 DEF UpsertInsert, IInv, TypeOK
  <2>2. s0 # NoSlug => key # s0
    <3> SUFFICES ASSUME s0 # NoSlug PROVE key # s0
      OBVIOUS
    <3>1. CASE bs[slug] = NoBackend
      BY <3>1, <1>3, NoBackendAssumption
    <3>2. CASE bs[slug] # NoBackend
      <4>a. SUFFICES ASSUME Disambiguate(slug, p) = s0 PROVE FALSE
        BY <3>2
      <4>b. backends[s0].path \in Paths /\ backends[s0].port = q
        BY <1>3 DEF Backend
      <4>c. CASE s0 = SlugOf[backends[s0].path]
        BY <4>a, <4>b, <4>c DEF SlugsUnambiguous
      <4>d. CASE s0 = Disambiguate(SlugOf[backends[s0].path], q)
        <5>1. slug \in Seq(Words \cup Ports)
              /\ SlugOf[backends[s0].path] \in Seq(Words \cup Ports)
          BY <4>b, SlugOfAssumption
        <5>2. p = q
          BY <4>a, <4>d, <5>1, DisambiguatePort
        <5>3. QED BY <5>2
      <4>e. QED BY <1>3, <4>b, <4>c, <4>d DEF IInv, KeyShape
    <3>3. QED BY <3>1, <3>2
  <2>3. s0 # NoSlug => backends'[s0] = backends[s0]
    BY <1>2, <1>3, <1>5, <2>2 DEF UpsertInsert
  <2>4. QED BY <2>1, <2>3
<1>6. QED BY <1>4, <1>5 DEF Upsert

(* Hence a port that resolves to another project still resolves to it.     *)
LEMMA UpsertKeepsOtherPortsStep ==
    ASSUME SlugsUnambiguous, IInv,
           NEW p \in Ports, NEW x \in Paths, Upsert(p, x),
           NEW q \in Ports \ {p},
           LookupByPort(q) # NoBackend,
           LookupByPort(q).port = q,
           LookupByPort(q).path # x
    PROVE  /\ LookupByPort(q)' # NoBackend
           /\ LookupByPort(q)'.path = LookupByPort(q).path
           /\ LookupByPort(q)'.port = q
<1>1. byPort[q] # NoSlug /\ LookupByPort(q) = backends[byPort[q]]
  BY DEF LookupByPort
<1>2. byPort'[q] = byPort[q] /\ backends'[byPort[q]] = backends[byPort[q]]
  BY <1>1, UpsertOtherPort
<1>3. QED BY <1>1, <1>2 DEF LookupByPort

(***************************************************************************)
(* No Upsert takes a backend away from another port (UpsertKeepsOtherPorts) *)
(* for every set of ports and paths, provided no project's slug equals the *)
(* disambiguated slug of another; registry_collision shows the converse.   *)
(***************************************************************************)
THEOREM RegistryUpsertKeepsOtherPorts ==
    ASSUME SlugsUnambiguous
    PROVE  Spec => UpsertKeepsOtherPorts
<1> DEFINE A == \A p \in Ports, x \in Paths :
                  Upsert(p, x) =>
                    \A q \in Ports \ {p} :
                      LET b == LookupByPort(q) IN
                      (b # NoBackend /\ b.port = q /\ b.path # x) =>
                         /\ LookupByPort(q)' # NoBackend
                         /\ LookupByPort(q)'.path = b.path
                         /\ LookupByPort(q)'.port = q
<1>1. IInv => A
  BY UpsertKeepsOtherPortsStep
<1>2. Spec => []IInv
  BY IInvInit, IInvNext, PTL DEF Spec
<1>3. QED BY <1>1, <1>2, PTL DEF UpsertKeepsOtherPorts

(***************************************************************************)
(* Spec invariants I1-I3 hold after every sequence of Upsert and Prune     *)
(* calls, provided no project's slug equals the disambiguated slug of      *)
(* another; MCRegistryCollision shows that they fail otherwise.            *)
(***************************************************************************)
THEOREM RegistryIndexConsistent ==
    ASSUME SlugsUnambiguous
    PROVE  Spec => []IndexConsistent
<1>1. Init => IInv
  BY IInvInit
<1>2. IInv /\ [Next]_vars => IInv'
  BY IInvNext
<1>3. IInv => IndexConsistent
  BY DEF IInv
<1>4. QED BY <1>1, <1>2, <1>3, PTL DEF Spec

-----------------------------------------------------------------------------
(***************************************************************************)
(* The registry implements the port directory of PortDirectory under the   *)
(* mapping PortView (what LookupByPort returns for every port).  The       *)
(* argument rests on IInv: with the index consistent, LookupByPort(q) is   *)
(* the backend listening on q, so an Upsert is a Register (UpsertOtherPort *)
(* says which other ports change), a Prune is an Expire and a Tick an Age. *)
(***************************************************************************)

(* What LookupByPort shows for a port, under the invariant.               *)
LEMMA PortEntryOf ==
    ASSUME IInv, NEW q \in Ports, byPort[q] # NoSlug
    PROVE  /\ byPort[q] \in Live
           /\ backends[byPort[q]] \in Backend
           /\ backends[byPort[q]].port = q
           /\ PortEntry(q) = {[path |-> backends[byPort[q]].path,
                               age |-> backends[byPort[q]].age]}
<1>1. byPort[q] \in Slugs /\ backends[byPort[q]] # NoBackend
      /\ backends[byPort[q]].port = q
  BY DEF IInv, TypeOK, IndexConsistent
<1>2. byPort[q] \in Live /\ backends[byPort[q]] \in Backend
  BY <1>1 DEF IInv, TypeOK, Live
<1>3. QED BY <1>1, <1>2 DEF PortEntry, LookupByPort

LEMMA PortViewInit == Init => Directory!DInit
BY DEF Init, PortView, PortEntry, LookupByPort, Directory!DInit

(* Another port keeps its entry or, if it listed x, loses it.              *)
LEMMA PortViewUpsertOther ==
    ASSUME SlugsUnambiguous, IInv,
           NEW p \in Ports, NEW x \in Paths, Upsert(p, x),
           NEW q \in Ports \ {p}
    PROVE  \/ PortEntry(q)' = PortEntry(q)
           \/ PortEntry(q)' = {} /\ \E e \in PortEntry(q) : e.path = x
<1>1. CASE /\ byPort'[q] = byPort[q]
           /\ byPort[q] # NoSlug => backends'[byPort[q]] = backends[byPort[q]]
  <2>1. LookupByPort(q)' = LookupByPort(q)
    BY <1>1 DEF LookupByPort
  <2>2. QED BY <2>1 DEF PortEntry
<1>2. CASE /\ byPort'[q] = NoSlug
           /\ byPort[q] # NoSlug
           /\ backends[byPort[q]] \in Backend
           /\ backends[byPort[q]].path = x
  <2>1. PortEntry(q)' = {}
    BY <1>2 DEF PortEntry, LookupByPort
  <2>a. PortEntry(q) = {[path |-> backends[byPort[q]].path,
                         age |-> backends[byPort[q]].age]}
    BY <1>2, PortEntryOf
  <2>2. \E e \in PortEntry(q) : e.path = x
    BY <1>2, <2>a
  <2>3. QED BY <2>1, <2>2
<1>3. QED BY <1>1, <1>2, UpsertOtherPort

(* The upserted port lists the project, fresh.                             *)
LEMMA PortViewUpsertSelf ==
    ASSUME IInv, NEW p \in Ports, NEW x \in Paths, Upsert(p, x)
    PROVE  PortEntry(p)' = {[path |-> x, age |-> 0]}
<1> DEFINE slug == SlugOf[x]
           bs == ForgetOldProject(p, slug)
<1>1. slug \in Slugs /\ slug # NoSlug
  BY NoSlugNotSlug DEF Slugs
<1>2. bs \in [Slugs -> Backend \cup {NoBackend}]
  BY DEF ForgetOldProject, IInv, TypeOK
<1>3. CASE UpsertInPlace(p, x)
  <2> DEFINE new == [bs[slug] EXCEPT !.port = p, !.path = x, !.age = 0]
  <2>1. bs[slug] \in Backend
    BY <1>1, <1>2, <1>3 DEF UpsertInPlace
  <2>2. new \in Backend /\ new.path = x /\ new.age = 0
    BY <2>1, ZeroAge DEF Backend
  <2>3. byPort'[p] = slug /\ backends'[slug] = new
    BY <1>1, <1>2, <1>3 DEF UpsertInPlace, IInv, TypeOK
  <2>4. QED BY <1>1, <2>2, <2>3, NoBackendAssumption DEF PortEntry, LookupByPort
<1>4. CASE UpsertInsert(p, x)
  <2> DEFINE key == IF bs[slug] = NoBackend THEN slug ELSE Disambiguate(slug, p)
             new == [port |-> p, path |-> x, slug |-> key, age |-> 0]
  <2>1. key \in Slugs /\ key # NoSlug
    BY <1>1, DisambiguateInSlugs, NoSlugNotSlug
  <2>2. new \in Backend
    BY <2>1, ZeroAge DEF Backend
  <2>3. byPort'[p] = key /\ backends'[key] = new
    BY <1>2, <1>4, <2>1 DEF UpsertInsert, IInv, TypeOK
  <2>4. QED BY <2>1, <2>2, <2>3, NoBackendAssumption DEF PortEntry, LookupByPort
<1>5. QED BY <1>3, <1>4 DEF Upsert

(* An Upsert is a Register of the directory.                               *)
LEMMA PortViewUpsert ==
    ASSUME SlugsUnambiguous, IInv,
           NEW p \in Ports, NEW x \in Paths, Upsert(p, x)
    PROVE  Directory!Register(p, x)
<1> DEFINE moved == {q \in Ports \ {p} : PortEntry(q)' # PortEntry(q)}
           From == {q \in Ports \ {p} : \E e \in PortView[q] : e.path = x}
<1>1. moved \in SUBSET From
  BY PortViewUpsertOther DEF PortView
<1>2. PortView' = [q \in Ports |-> IF q = p THEN {[path |-> x, age |-> 0]}
                                   ELSE IF q \in moved THEN {} ELSE PortView[q]]
  BY PortViewUpsertSelf, PortViewUpsertOther DEF PortView
<1>3. QED
  <2> SUFFICES \E m \in SUBSET From :
                 PortView' = [q \in Ports |->
                                IF q = p THEN {[path |-> x, age |-> 0]}
                                ELSE IF q \in m THEN {} ELSE PortView[q]]
    BY DEF Directory!Register
  <2> WITNESS moved \in SUBSET From
  <2> QED BY <1>2


(* A Prune is an Expire of the directory.                                  *)
LEMMA PortViewPrune ==
    ASSUME IInv, Prune
    PROVE  Directory!Expire
<1> DEFINE stale == {s \in Live : IsStale(backends[s])}
<1>1. SUFFICES ASSUME NEW q \in Ports
               PROVE  PortEntry(q)' = {e \in PortEntry(q) : e.age <= StaleAfter}
  BY DEF Directory!Expire, PortView
<1>2. /\ backends' = [s \in Slugs |-> IF s \in stale THEN NoBackend
                                                      ELSE backends[s]]
      /\ byPort' = [r \in Ports |-> IF \E s \in stale : backends[s].port = r
                                      THEN NoSlug ELSE byPort[r]]
  BY DEF Prune
<1>3. ASSUME NEW s \in stale, backends[s].port = q
      PROVE  byPort[q] = s /\ s # NoSlug
  BY <1>3, NoSlugNotSlug DEF IInv, IndexConsistent, Live
<1>4. CASE byPort[q] = NoSlug
  <2>1. byPort'[q] = NoSlug
    BY <1>2, <1>3, <1>4
  <2>2. QED BY <1>4, <2>1 DEF PortEntry, LookupByPort
<1>5. CASE byPort[q] # NoSlug
  <2> DEFINE s0 == byPort[q]
             b == backends[s0]
  <2>1. s0 \in Live /\ b \in Backend /\ b.port = q
        /\ PortEntry(q) = {[path |-> b.path, age |-> b.age]}
    BY <1>5, PortEntryOf
  <2>2. b.age \in Nat
    BY <2>1, StaleAfterAssumption DEF Backend, Ages, MaxAge
  <2>3. s0 \in Slugs
    BY <2>1 DEF Live
  <2>4. CASE IsStale(b)
    <3>1. byPort'[q] = NoSlug
      BY <1>2, <2>1, <2>4
    <3>2. PortEntry(q)' = {}
      BY <3>1 DEF PortEntry, LookupByPort
    <3>3. QED BY <2>1, <2>2, <2>4, <3>2, StaleAfterAssumption DEF IsStale
  <2>5. CASE ~IsStale(b)
    <3>1. byPort'[q] = s0
      BY <1>2, <1>3, <2>5
    <3>2. backends'[s0] = b
      BY <1>2, <2>3, <2>5
    <3>3. PortEntry(q)' = PortEntry(q)
      BY <2>1, <3>1, <3>2, <1>5 DEF PortEntry, LookupByPort
    <3>4. QED BY <2>1, <2>2, <2>5, <3>3, StaleAfterAssumption DEF IsStale
  <2>6. QED BY <2>4, <2>5
<1>6. QED BY <1>4, <1>5

(* A Tick is an Age of the directory.                                      *)
LEMMA PortViewTick ==
    ASSUME IInv, Tick
    PROVE  Directory!Age
<1>1. SUFFICES ASSUME NEW q \in Ports
               PROVE  PortEntry(q)' =
                        {[e EXCEPT !.age = IF @ < MaxAge THEN @ + 1 ELSE MaxAge] :
                           e \in PortEntry(q)}
  BY DEF Directory!Age, Directory!MaxAge, MaxAge, PortView
<1>2. byPort' = byPort
  BY DEF Tick
<1>3. CASE byPort[q] = NoSlug
  BY <1>2, <1>3 DEF PortEntry, LookupByPort
<1>4. CASE byPort[q] # NoSlug
  <2> DEFINE s0 == byPort[q]
             b == backends[s0]
             age == IF b.age < MaxAge THEN b.age + 1 ELSE MaxAge
  <2>1. s0 \in Live /\ b \in Backend
        /\ PortEntry(q) = {[path |-> b.path, age |-> b.age]}
    BY <1>4, PortEntryOf
  <2>2. backends'[s0] = [b EXCEPT !.age = age]
    BY <2>1 DEF Tick, Live
  <2>3. [b EXCEPT !.age = age] \in Backend
    BY <2>1, StaleAfterAssumption DEF Backend, Ages, MaxAge
  <2>4. PortEntry(q)' = {[path |-> b.path, age |-> age]}
    BY <1>2, <1>4, <2>2, <2>3, NoBackendAssumption DEF PortEntry, LookupByPort
  <2>5. QED BY <2>1, <2>4
<1>5. QED BY <1>3, <1>4

(***************************************************************************)
(* The registry implements the port directory (ImplementsPortDirectory):  *)
(* every Upsert is a Register, every Prune an Expire and every Tick an Age *)
(* of the directory, for every set of ports and paths and every staleness  *)
(* threshold, provided no project's slug equals the disambiguated slug of  *)
(* another (a collision that overwrites a key takes a port's project away, *)
(* which no step of the directory does).                                   *)
(***************************************************************************)
THEOREM RegistryImplementsPortDirectory ==
    ASSUME SlugsUnambiguous
    PROVE  Spec => ImplementsPortDirectory
<1>1. Init => Directory!DInit
  BY PortViewInit
<1>2. IInv /\ [Next]_vars => [Directory!DNext]_PortView
  <2> SUFFICES ASSUME IInv, [Next]_vars PROVE [Directory!DNext]_PortView
    OBVIOUS
  <2>1. CASE \E p \in Ports, x \in Paths : Upsert(p, x)
    BY <2>1, PortViewUpsert DEF Directory!DNext
  <2>2. CASE Prune
    BY <2>2, PortViewPrune DEF Directory!DNext
  <2>3. CASE Tick
    BY <2>3, PortViewTick DEF Directory!DNext
  <2>4. CASE UNCHANGED vars
    BY <2>4 DEF vars, PortView, PortEntry, LookupByPort
  <2>5. QED BY <2>1, <2>2, <2>3, <2>4 DEF Next
<1>3. Spec => []IInv
  BY IInvInit, IInvNext, PTL DEF Spec
<1>4. QED
  BY <1>1, <1>2, <1>3, PTL DEF Spec, ImplementsPortDirectory, Directory!DSpec


(***************************************************************************)
(* The inductive invariant.  A Backend's Slug field is the key it is       *)
(* stored under: UpsertInsert writes Slug: key next to backends[key], an   *)
(* in-place update keeps the field, and Prune and time never touch it.     *)
(* HandedOutRoutesBack needs nothing more of the registry: a client builds *)
(* its request from the Slug field, and ServeHTTP looks the request up by  *)
(* key.                                                                    *)
(***************************************************************************)
SlugFieldIsKey == \A s \in Live : backends[s].slug = s

RInv == TypeOK /\ SlugFieldIsKey

(* ForgetOldProject only deletes.                                          *)
LEMMA ForgetOldProjectDeletes ==
    ASSUME TypeOK, NEW p \in Ports, NEW slug
    PROVE  LET bs == ForgetOldProject(p, slug) IN
           /\ bs \in [Slugs -> Backend \cup {NoBackend}]
           /\ \A t \in Slugs : bs[t] = backends[t] \/ bs[t] = NoBackend
BY DEF ForgetOldProject, TypeOK

LEMMA RInvInit == Init => RInv
BY TypeOKInit DEF Init, RInv, SlugFieldIsKey, Live

LEMMA RInvNext == RInv /\ [Next]_vars => RInv'
<1> SUFFICES ASSUME RInv, [Next]_vars PROVE RInv'
  OBVIOUS
<1>0. TypeOK'
  BY TypeOKNext DEF RInv
<1> USE DEF RInv
<1>1. ASSUME NEW p \in Ports, NEW x \in Paths, UpsertInPlace(p, x)
      PROVE  SlugFieldIsKey'
  <2> DEFINE slug == SlugOf[x]
             bs == ForgetOldProject(p, slug)
             existing == bs[slug]
  <2>1. slug \in Slugs
    BY DEF Slugs
  <2>2. /\ bs \in [Slugs -> Backend \cup {NoBackend}]
        /\ \A t \in Slugs : bs[t] = backends[t] \/ bs[t] = NoBackend
    BY ForgetOldProjectDeletes
  <2>3. existing # NoBackend /\ existing = backends[slug] /\ existing \in Backend
    BY <1>1, <2>1, <2>2 DEF UpsertInPlace
  <2>4. existing.slug = slug
    BY <2>1, <2>3 DEF SlugFieldIsKey, Live
  <2>5. backends' = [bs EXCEPT ![slug] = [existing EXCEPT !.port = p,
                                                          !.path = x,
                                                          !.age = 0]]
    BY <1>1 DEF UpsertInPlace
  <2>6. ASSUME NEW t \in Live' PROVE backends'[t].slug = t
    <3>1. t \in Slugs /\ backends'[t] # NoBackend
      BY DEF Live
    <3>2. CASE t = slug
      BY <2>2, <2>3, <2>4, <2>5, <3>1, <3>2
    <3>3. CASE t # slug
      BY <2>2, <2>5, <3>1, <3>3 DEF SlugFieldIsKey, Live
    <3>4. QED BY <3>2, <3>3
  <2>7. QED BY <2>6 DEF SlugFieldIsKey
<1>2. ASSUME NEW p \in Ports, NEW x \in Paths, UpsertInsert(p, x)
      PROVE  SlugFieldIsKey'
  <2> DEFINE slug == SlugOf[x]
             bs == ForgetOldProject(p, slug)
             existing == bs[slug]
             key == IF existing = NoBackend THEN slug ELSE Disambiguate(slug, p)
  <2>1. key \in Slugs
    BY DisambiguateInSlugs DEF Slugs
  <2>2. /\ bs \in [Slugs -> Backend \cup {NoBackend}]
        /\ \A t \in Slugs : bs[t] = backends[t] \/ bs[t] = NoBackend
    BY ForgetOldProjectDeletes
  <2>3. backends' = [bs EXCEPT ![key] = [port |-> p, path |-> x,
                                         slug |-> key, age |-> 0]]
    BY <1>2 DEF UpsertInsert
  <2>4. ASSUME NEW t \in Live' PROVE backends'[t].slug = t
    <3>1. t \in Slugs /\ backends'[t] # NoBackend
      BY DEF Live
    <3>2. CASE t = key
      BY <2>1, <2>2, <2>3, <3>2
    <3>3. CASE t # key
      BY <2>2, <2>3, <3>1, <3>3 DEF SlugFieldIsKey, Live
    <3>4. QED BY <3>2, <3>3
  <2>5. QED BY <2>4 DEF SlugFieldIsKey
<1>3. CASE Prune
  BY <1>0, <1>3 DEF Prune, SlugFieldIsKey, Live, TypeOK
<1>4. CASE Tick
  BY <1>0, <1>4 DEF Tick, SlugFieldIsKey, Live, TypeOK, Backend
<1>5. CASE UNCHANGED vars
  BY <1>0, <1>5 DEF vars, SlugFieldIsKey, Live
<1>6. QED
  BY <1>0, <1>1, <1>2, <1>3, <1>4, <1>5 DEF Next, Upsert
LEMMA RInvAlways == Spec => []RInv
BY RInvInit, RInvNext, PTL DEF Spec
=============================================================================

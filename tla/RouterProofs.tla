---------------------------- MODULE RouterProofs ----------------------------
(***************************************************************************)
(* Proofs that the router's dispatch and the routes the control API hands  *)
(* out agree, for every registry state Upsert, Prune and time can reach,   *)
(* for every set of ports, paths and slug function: collisions and folders *)
(* named like a disambiguated slug included.                               *)
(***************************************************************************)
EXTENDS Router, RegistryProofs

(* Every backend the control API hands out is the backend of a live key.   *)
LEMMA HandedOutAreLive ==
    ASSUME TypeOK, NEW x \in Paths,
           NEW b \in All \cup ((LookupByPath(x) \cup {Lookup(SlugOf[x])}) \ {NoBackend})
    PROVE  \E s \in Live : b = backends[s]
<1>1. SlugOf[x] \in Slugs
  BY DEF Slugs
<1>2. CASE b \in All
  BY <1>2 DEF All
<1>3. CASE b = Lookup(SlugOf[x]) /\ b # NoBackend
  BY <1>1, <1>3 DEF Lookup, Live
<1>4. CASE b \in LookupByPath(x) /\ b # NoBackend
  BY <1>1, <1>4 DEF LookupByPath, Lookup, Live
<1>5. QED BY <1>2, <1>3, <1>4

(* A request built from the Slug field of a live backend is proxied to     *)
(* that backend's port, by domain with the request's path and by prefix    *)
(* with the prefix stripped.                                               *)
LEMMA LiveRoutesBack ==
    ASSUME RInv, NEW s \in Live,
           NEW e, e = [slug |-> backends[s].slug, port |-> backends[s].port,
                       path |-> backends[s].path]
    PROVE  /\ ServeHTTP(DomainRequest(e)) = [to |-> "proxy", port |-> e.port, path |-> "sent"]
           /\ ServeHTTP(PrefixRequest(e)) = [to |-> "proxy", port |-> e.port, path |-> "/"]
<1>1. e.slug = s /\ s \in Slugs /\ s # NoSlug
  BY NoSlugNotSlug DEF RInv, SlugFieldIsKey, Live
<1>2. Lookup(s) = backends[s] /\ backends[s] # NoBackend
  BY <1>1 DEF Lookup, Live
<1>3. ServeHTTP(DomainRequest(e)) = ProxyTo(backends[s], "")
  BY <1>1, <1>2 DEF ServeHTTP, DomainRequest
<1>4. ServeHTTP(PrefixRequest(e)) = ProxyTo(backends[s], "/")
  BY <1>1, <1>2 DEF ServeHTTP, PrefixRequest
<1>5. QED BY <1>3, <1>4 DEF ProxyTo

(***************************************************************************)
(* Every domain and path prefix that /api/backends and /api/resolve hand   *)
(* out is routed by ServeHTTP to the port of the backend it describes      *)
(* (HandedOutRoutesBack), in every state the registry can reach, for every *)
(* slug function, collisions on a slug or a disambiguated slug included.   *)
(***************************************************************************)
THEOREM RouterHandedOutRoutesBack == Spec => []HandedOutRoutesBack
<1>1. RInv => HandedOutRoutesBack
  <2> SUFFICES ASSUME RInv,
               NEW e \in APIBackends \cup UNION {ResolveByPath(x) \cup ResolveByName(x) : x \in Paths}
               PROVE  /\ ServeHTTP(DomainRequest(e)) = [to |-> "proxy", port |-> e.port, path |-> "sent"]
                      /\ ServeHTTP(PrefixRequest(e)) = [to |-> "proxy", port |-> e.port, path |-> "/"]
    BY DEF HandedOutRoutesBack
  <2>1. CASE e \in APIBackends
    <3>1. PICK b \in All : e = [slug |-> b.slug, port |-> b.port, path |-> b.path]
      BY <2>1 DEF APIBackends
    <3>2. PICK s \in Live : b = backends[s]
      BY DEF All
    <3>3. QED BY <3>1, <3>2, LiveRoutesBack
  <2>2. CASE e \notin APIBackends
    <3>1. PICK x \in Paths : e \in ResolveByPath(x) \cup ResolveByName(x)
      BY <2>2
    <3>2. PICK b \in (LookupByPath(x) \cup {Lookup(SlugOf[x])}) \ {NoBackend} :
                 e = [slug |-> b.slug, port |-> b.port, path |-> b.path]
      BY <3>1 DEF ResolveByPath, ResolveByName
    <3>3. PICK s \in Live : b = backends[s]
      BY HandedOutAreLive DEF RInv
    <3>4. QED BY <3>2, <3>3, LiveRoutesBack
  <2>3. QED BY <2>1, <2>2
<1>2. QED BY <1>1, RInvAlways, PTL

(***************************************************************************)
(* In every registry state a request for /api/backends, /api/health or     *)
(* /api/resolve outside host routing reaches the control API exactly when  *)
(* no backend is registered under the slug "api", and that backend         *)
(* otherwise (ApiShadowedOnlyByApiSlug): path routing comes before the API *)
(* in ServeHTTP.                                                           *)
(***************************************************************************)
THEOREM RouterApiShadowedOnlyByApiSlug == Spec => []ApiShadowedOnlyByApiSlug
<1>1. ApiShadowedOnlyByApiSlug
  <2> SUFFICES ASSUME NEW e \in ApiRests
               PROVE  LET out == ServeHTTP([host |-> NoSlug, slug |-> ApiSlug, rest |-> e])
                      IN  /\ (out.to = e) <=> (Lookup(ApiSlug) = NoBackend)
                          /\ out.to # e => out = ProxyTo(Lookup(ApiSlug), e)
    BY DEF ApiShadowedOnlyByApiSlug
  <2>1. ApiSlug # NoSlug
    BY DEF ApiSlug, NoSlug
  <2>2. e # "proxy"
    BY DEF ApiRests
  <2>3. CASE Lookup(ApiSlug) = NoBackend
    BY <2>3 DEF ServeHTTP
  <2>4. CASE Lookup(ApiSlug) # NoBackend
    BY <2>1, <2>2, <2>4 DEF ServeHTTP, ProxyTo
  <2>5. QED BY <2>3, <2>4
<1>2. QED BY <1>1, PTL
=============================================================================

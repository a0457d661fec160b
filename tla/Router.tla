------------------------------ MODULE Router ------------------------------
(***************************************************************************)
(* The dispatch of Router.ServeHTTP (src/unnamed/part_006) and the routing *)
(* information /api/backends and /api/resolve hand out, over the registry  *)
(* state.  A request is given by what the router's parsers make of it     *)
(* (RouterParse checks the parsers on strings): the slug slugFromHost      *)
(* returns, NoSlug when the Host is not "<slug>-<username>.local", and the *)
(* slug and remainder slugFromPath returns.  Every read of the registry is *)
(* one read-locked call returning a copy, so each handler sees one state.  *)
(***************************************************************************)
EXTENDS Registry

CONSTANTS
    ApiWord,    \* the word "api", a possible slug of a project folder
    Rests       \* remainders slugFromPath can return, "/" for none

(* The control API's paths are "/api" followed by these remainders.        *)
ApiRests == {"/backends", "/health", "/resolve"}

ApiSlug == <<ApiWord>>

ASSUME RouterAssumption == ApiWord \in Words /\ ApiRests \cup {"/"} \subseteq Rests

Request == [host : Slugs \cup {NoSlug}, slug : Slugs \cup {NoSlug}, rest : Rests]

(* proxyTo: the target is 127.0.0.1:<backend.Port>; the path is the       *)
(* request's own ("sent") unless an override is given.                     *)
ProxyTo(b, override) ==
    [to |-> "proxy", port |-> b.port,
     path |-> IF override = "" THEN "sent" ELSE override]

(* Variant: the control API matched before path routing.                  *)
ServeHTTPApiFirst(r) ==
    IF r.host # NoSlug /\ Lookup(r.host) # NoBackend
      THEN ProxyTo(Lookup(r.host), "")
    ELSE IF r.slug = ApiSlug /\ r.rest \in ApiRests
      THEN [to |-> r.rest, port |-> 0, path |-> "sent"]
    ELSE IF r.slug # NoSlug /\ Lookup(r.slug) # NoBackend
      THEN ProxyTo(Lookup(r.slug), r.rest)
    ELSE [to |-> "dashboard", port |-> 0, path |-> "sent"]

(***************************************************************************)
(* ServeHTTP: host routing, then path routing with the prefix stripped,    *)
(* then the exact API paths, then the dashboard.  A slug that parses but   *)
(* is not registered falls through to the next stage.                      *)
(***************************************************************************)
ServeHTTP(r) ==
    IF r.host # NoSlug /\ Lookup(r.host) # NoBackend
      THEN ProxyTo(Lookup(r.host), "")
    ELSE IF r.slug # NoSlug /\ Lookup(r.slug) # NoBackend
      THEN ProxyTo(Lookup(r.slug), r.rest)
    ELSE IF r.slug = ApiSlug /\ r.rest \in ApiRests
      THEN [to |-> r.rest, port |-> 0, path |-> "sent"]
    ELSE [to |-> "dashboard", port |-> 0, path |-> "sent"]

(* handleAPIBackends: one entry per backend of All(); its domain is        *)
(* DomainFor(b.Slug) and its path prefix and URL "/<b.Slug>/".              *)
APIBackends == {[slug |-> b.slug, port |-> b.port, path |-> b.path] : b \in All}

(* handleAPIResolve: ?path= goes through LookupByPath, ?name= through      *)
(* Lookup(Slugify(name)); the answer carries the backend's slug.           *)
ResolveByPath(x) ==
    {[slug |-> b.slug, port |-> b.port, path |-> b.path] :
        b \in LookupByPath(x) \ {NoBackend}}

ResolveByName(x) ==
    {[slug |-> b.slug, port |-> b.port, path |-> b.path] :
        b \in {Lookup(SlugOf[x])} \ {NoBackend}}

(* The requests a client builds from an entry: the domain with path "/",   *)
(* and the path prefix on localhost.                                       *)
DomainRequest(e) == [host |-> e.slug, slug |-> NoSlug, rest |-> "/"]
PrefixRequest(e) == [host |-> NoSlug, slug |-> e.slug, rest |-> "/"]

-----------------------------------------------------------------------------
(***************************************************************************)
(* Every domain and path prefix the control API hands out, in the list of  *)
(* /api/backends or as the answer of /api/resolve by path or by name, is   *)
(* routed by ServeHTTP to the port of the very backend it describes.  It   *)
(* rests on the Backend's Slug field being its key in the map after every  *)
(* Upsert, collisions included.                                            *)
(***************************************************************************)
HandedOutRoutesBack ==
    \A e \in APIBackends \cup UNION {ResolveByPath(x) \cup ResolveByName(x) : x \in Paths} :
        /\ ServeHTTP(DomainRequest(e)) = [to |-> "proxy", port |-> e.port, path |-> "sent"]
        /\ ServeHTTP(PrefixRequest(e)) = [to |-> "proxy", port |-> e.port, path |-> "/"]

(***************************************************************************)
(* Known hazard of the spec: a request for /api/backends, /api/health or   *)
(* /api/resolve on a non-project Host reaches the control API unless, and  *)
(* only when, a backend is registered under the slug "api" (a project     *)
(* folder named "api"), which then receives it.                            *)
(***************************************************************************)
ApiShadowedOnlyByApiSlug ==
    \A e \in ApiRests :
        LET out == ServeHTTP([host |-> NoSlug, slug |-> ApiSlug, rest |-> e])
        IN  /\ (out.to = e) <=> (Lookup(ApiSlug) = NoBackend)
            /\ out.to # e => out = ProxyTo(Lookup(ApiSlug), e)
=============================================================================

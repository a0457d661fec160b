----------------------------- MODULE RouterParse -----------------------------
(***************************************************************************)
(* The two parsers of the router (src/unnamed/part_006, slugFromHost and   *)
(* slugFromPath) and the names the rest of the program hands out for a     *)
(* slug (config.DomainFor for the mDNS hostname, "/<slug>/" for the path   *)
(* prefix of /api/backends), over strings as sequences of one-character    *)
(* strings.  The question is whether a name handed out for a slug is       *)
(* routed back to that slug.  A client may send the hostname as it was     *)
(* advertised or lower-cased: mDNS names are case-insensitive and URL      *)
(* parsers in browsers lower-case the host.                                *)
(***************************************************************************)
EXTENDS Naturals, Sequences, SequencesExt

CONSTANTS
    Slugs,      \* slugs Slugify can return (checked in Slug)
    Users,      \* values of cfg.Username (-username, or the OS user)
    Rests,      \* path tails after the slug prefix
    PortSuffixes, \* "" or ":<port>" as the Host header may carry
    LowerOf     \* strings.ToLower on one character, as clients apply it

VARIABLE req    \* the request: the slug it was built for and its parts

ASSUME RouterParseAssumption ==
    /\ \A u \in Users : u # <<>>
    /\ \A s \in Slugs : s # <<>> /\ ~Contains(s, "/")

(***************************************************************************)
(* What the strings are made of: the characters ToLower is applied to,     *)
(* and the "/" and ":" of paths and ports.  Slugify returns [a-z0-9-]      *)
(* only, which strings.ToLower leaves alone and which holds no ":";        *)
(* ToLower leaves "-" and the letters of ".local" alone too; the port      *)
(* suffix of a Host header is ":" followed by digits.                      *)
(***************************************************************************)
Alphabet == DOMAIN LowerOf \cup {"/", ":"}

ASSUME RouterParseStrings ==
    /\ Slugs \subseteq Seq(DOMAIN LowerOf) /\ Users \subseteq Seq(DOMAIN LowerOf)
    /\ Rests \subseteq Seq(Alphabet) /\ PortSuffixes \subseteq Seq(Alphabet)
    /\ \A s \in Slugs : \A i \in 1..Len(s) : LowerOf[s[i]] = s[i] /\ s[i] # ":"
    /\ \A c \in {"-", ".", "l", "o", "c", "a"} : c \in DOMAIN LowerOf /\ LowerOf[c] = c
    /\ \A ps \in PortSuffixes :
           ps = <<>> \/ (ps[1] = ":" /\ \A i \in 2..Len(ps) : ps[i] # ":")

Local == <<".", "l", "o", "c", "a", "l">>

(* strings.HasSuffix and strings.TrimSuffix.                               *)
HasSuffix(s, t) == IsSuffix(t, s)
TrimSuffix(s, t) == IF HasSuffix(s, t) THEN SubSeq(s, 1, Len(s) - Len(t)) ELSE s

(* config.DomainFor: "<slug>-<username>.local".                            *)
DomainFor(slug, user) == slug \o <<"-">> \o user \o Local

(* Variant: the ":port" of the Host header not stripped.                   *)
SlugFromHostNoPortStrip(host, user) ==
    LET suffix == <<"-">> \o user
        name == TrimSuffix(host, Local)
        slug == TrimSuffix(name, suffix)
    IN  IF ~HasSuffix(host, Local) \/ ~HasSuffix(name, suffix) THEN <<>>
        ELSE slug

(* Router.slugFromHost: strip from the last ":", require and strip         *)
(* ".local", require and strip "-<username>"; "" when any test fails.      *)
SlugFromHost(host, user) ==
    LET colon == SelectLastInSeq(host, LAMBDA c : c = ":")
        hostname == IF colon = 0 THEN host ELSE SubSeq(host, 1, colon - 1)
        suffix == <<"-">> \o user
        name == TrimSuffix(hostname, Local)
        slug == TrimSuffix(name, suffix)
    IN  IF ~HasSuffix(hostname, Local) \/ ~HasSuffix(name, suffix) THEN <<>>
        ELSE slug

(* Variant: the tail returned without its leading "/".                     *)
SlugFromPathNoSlash(path) ==
    LET trimmed == IF path # <<>> /\ Head(path) = "/" THEN Tail(path) ELSE path
        slash == SelectInSeq(trimmed, LAMBDA c : c = "/")
    IN  IF trimmed = <<>> THEN <<<<>>, <<>>>>
        ELSE IF slash = 0 THEN <<trimmed, <<"/">>>>
        ELSE <<SubSeq(trimmed, 1, slash - 1),
               SubSeq(trimmed, slash + 1, Len(trimmed))>>

(* Router.slugFromPath: strings.TrimPrefix of "/", then SplitN on "/" into *)
(* the slug and the remainder, which gets its "/" back ("/" if none).      *)
SlugFromPath(path) ==
    LET trimmed == IF path # <<>> /\ Head(path) = "/" THEN Tail(path) ELSE path
        slash == SelectInSeq(trimmed, LAMBDA c : c = "/")
    IN  IF trimmed = <<>> THEN <<<<>>, <<>>>>
        ELSE IF slash = 0 THEN <<trimmed, <<"/">>>>
        ELSE <<SubSeq(trimmed, 1, slash - 1),
               SubSeq(trimmed, slash, Len(trimmed))>>

Lower(s) == [i \in DOMAIN s |-> LowerOf[s[i]]]

(* The Host header a client sends for the advertised hostname.             *)
HostSent(r) ==
    (IF r.lower THEN Lower(DomainFor(r.slug, r.user))
                ELSE DomainFor(r.slug, r.user)) \o r.port

Requests == [slug : Slugs, user : Users, rest : Rests,
             port : PortSuffixes, lower : BOOLEAN]

RPInit == req \in Requests

RPNext == UNCHANGED req

RPSpec == RPInit /\ [][RPNext]_req

-----------------------------------------------------------------------------
(***************************************************************************)
(* The hostname DomainFor advertises for a slug, sent with or without a    *)
(* port and as advertised or lower-cased, is routed by host to that slug.  *)
(***************************************************************************)
DomainRoutesBack == SlugFromHost(HostSent(req), req.user) = req.slug

(***************************************************************************)
(* The path prefix /api/backends hands out for a slug is routed by path    *)
(* to that slug, and what follows the prefix reaches the backend as the    *)
(* path, "/" for the bare prefix.                                          *)
(***************************************************************************)
PathRoutesBack ==
    /\ SlugFromPath(<<"/">> \o req.slug \o <<"/">> \o req.rest)
           = <<req.slug, <<"/">> \o req.rest>>
    /\ SlugFromPath(<<"/">> \o req.slug) = <<req.slug, <<"/">>>>
=============================================================================

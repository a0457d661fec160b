-------------------------- MODULE RouterParseProofs --------------------------
(***************************************************************************)
(* Proofs that the router's parsers take back apart what the rest of the   *)
(* program puts together: slugFromPath splits the path prefix that         *)
(* /api/backends hands out into its slug and the remainder, and            *)
(* slugFromHost recovers the slug from the hostname DomainFor advertises,  *)
(* for every slug, path tail, port suffix and (routable) username.         *)
(***************************************************************************)
EXTENDS RouterParse, SequenceTheorems, TLAPS

-----------------------------------------------------------------------------
(* Lemmas on the sequence operators of the parsers.                        *)

(* Reverse gives a sequence of the same length, read backwards.            *)
LEMMA ReverseProps ==
    ASSUME NEW S, NEW s \in Seq(S)
    PROVE  /\ Reverse(s) \in Seq(S)
           /\ Len(Reverse(s)) = Len(s)
           /\ \A i \in 1..Len(s) : Reverse(s)[i] = s[Len(s) - i + 1]
<1>1. Len(s) \in Nat /\ \A i \in 1..Len(s) : s[Len(s) - i + 1] \in S
  BY LenProperties, ElementOfSeq
<1>2. Reverse(s) \in Seq(S)
  BY <1>1, IsASeq DEF Reverse
<1>3. QED BY <1>1, <1>2, LenProperties DEF Reverse

(* strings.HasSuffix(s + t, t), and TrimSuffix(s + t, t) is s.             *)
LEMMA ConcatSuffix ==
    ASSUME NEW S, NEW s \in Seq(S), NEW t \in Seq(S)
    PROVE  HasSuffix(s \o t, t) /\ TrimSuffix(s \o t, t) = s
<1> DEFINE u == s \o t
<1>1. u \in Seq(S) /\ Len(u) = Len(s) + Len(t)
      /\ \A i \in 1..Len(s) + Len(t) : u[i] = IF i <= Len(s) THEN s[i] ELSE t[i - Len(s)]
  BY ConcatProperties
<1>2. Len(s) \in Nat /\ Len(t) \in Nat
  BY LenProperties
<1>3. /\ Reverse(t) \in Seq(S) /\ Len(Reverse(t)) = Len(t)
      /\ \A i \in 1..Len(t) : Reverse(t)[i] = t[Len(t) - i + 1]
  BY ReverseProps
<1>4. /\ Reverse(u) \in Seq(S) /\ Len(Reverse(u)) = Len(u)
      /\ \A i \in 1..Len(u) : Reverse(u)[i] = u[Len(u) - i + 1]
  BY <1>1, ReverseProps
<1>5. SubSeq(Reverse(t), 1, Len(t)) = Reverse(t)
  BY <1>3, SubSeqFull
<1>6. SubSeq(Reverse(u), 1, Len(t)) = Reverse(t)
  <2>1. SubSeq(Reverse(u), 1, Len(t)) \in Seq(S)
        /\ Len(SubSeq(Reverse(u), 1, Len(t))) = Len(t)
        /\ \A i \in 1..Len(t) : SubSeq(Reverse(u), 1, Len(t))[i] = Reverse(u)[i]
    <3>1. \A i \in 1..Len(t) : Reverse(u)[i] \in S
      BY <1>1, <1>2, <1>4, ElementOfSeq
    <3>2. QED BY <1>2, <3>1, SubSeqProperties
  <2>2. \A i \in 1..Len(t) : Reverse(u)[i] = Reverse(t)[i]
    BY <1>1, <1>2, <1>3, <1>4
  <2>3. QED BY <2>1, <2>2, <1>3, SeqEqual
<1>7. HasSuffix(u, t)
  BY <1>1, <1>2, <1>3, <1>4, <1>5, <1>6 DEF HasSuffix, IsSuffix, IsPrefix
<1>8. SubSeq(u, 1, Len(u) - Len(t)) = s
  <2>1. CASE s = <<>>
    BY <2>1, <1>1, <1>2, SubSeqEmpty, EmptySeq
  <2>2. CASE s # <<>>
    <3>1. Len(s) \in 1..Len(s)
      BY <2>2, EmptySeq
    <3>2. SubSeq(u, 1, Len(s)) = SubSeq(s, 1, Len(s))
      BY <3>1, SubSeqOfConcat1
    <3>3. QED BY <1>1, <1>2, <3>2, SubSeqFull
  <2>3. QED BY <2>1, <2>2
<1>9. QED BY <1>7, <1>8 DEF TrimSuffix
(* The two halves of a concatenation.                                      *)
LEMMA ConcatHalves ==
    ASSUME NEW S, NEW s \in Seq(S), NEW t \in Seq(S)
    PROVE  /\ SubSeq(s \o t, 1, Len(s)) = s
           /\ SubSeq(s \o t, Len(s) + 1, Len(s \o t)) = t
<1>1. Len(s) \in Nat /\ Len(t) \in Nat /\ Len(s \o t) = Len(s) + Len(t)
  BY LenProperties, ConcatProperties
<1>2. SubSeq(s \o t, 1, Len(s)) = s
  <2>1. CASE s = <<>>
    BY <2>1, SubSeqEmpty, EmptySeq
  <2>2. CASE s # <<>>
    <3>1. Len(s) \in 1..Len(s)
      BY <2>2, EmptySeq
    <3>2. QED BY <3>1, SubSeqOfConcat1, SubSeqFull
  <2>3. QED BY <2>1, <2>2
<1>3. SubSeq(s \o t, Len(s) + 1, Len(s \o t)) = t
  <2>1. CASE t = <<>>
    BY <1>1, <2>1, SubSeqEmpty, EmptySeq
  <2>2. CASE t # <<>>
    <3>1. Len(t) \in Nat \ {0}
      BY <2>2, EmptySeq
    <3>2. SubSeq(s \o t, Len(s) + 1, Len(s) + Len(t)) = SubSeq(t, 1, Len(t))
      BY <1>1, <3>1, SubSeqOfConcat2
    <3>3. QED BY <1>1, <3>2, SubSeqFull
  <2>3. QED BY <2>1, <2>2
<1>4. QED BY <1>2, <1>3

(* A sequence that starts with c: its head is c and its tail the rest.     *)
LEMMA ConsHeadTail ==
    ASSUME NEW S, NEW c \in S, NEW v \in Seq(S)
    PROVE  /\ <<c>> \o v # <<>>
           /\ Head(<<c>> \o v) = c
           /\ Tail(<<c>> \o v) = v
<1>1. <<c>> \in Seq(S) /\ Len(<<c>>) = 1
  OBVIOUS
<1>2. /\ <<c>> \o v \in Seq(S) /\ Len(<<c>> \o v) = 1 + Len(v)
      /\ \A i \in 1..1 + Len(v) : (<<c>> \o v)[i] = IF i <= 1 THEN c ELSE v[i - 1]
  BY <1>1, ConcatProperties
<1>3. Len(v) \in Nat
  BY LenProperties
<1>4. <<c>> \o v # <<>>
  BY <1>2, <1>3, EmptySeq
<1>5. Tail(<<c>> \o v) = v
  <2>1. Tail(<<c>> \o v) \in Seq(S) /\ Len(Tail(<<c>> \o v)) = Len(v)
        /\ \A i \in 1..Len(v) : Tail(<<c>> \o v)[i] = v[i]
    BY <1>2, <1>3, <1>4, HeadTailProperties
  <2>2. QED BY <2>1, SeqEqual
<1>6. QED BY <1>2, <1>3, <1>4, <1>5

(* The first "/" in s, "/", t is at Len(s) + 1 when s holds no "/" ...     *)
LEMMA SelectFirstSlash ==
    ASSUME NEW S, NEW s \in Seq(S), NEW t \in Seq(S), "/" \in S,
           \A i \in 1..Len(s) : s[i] # "/"
    PROVE  SelectInSeq((s \o <<"/">>) \o t, LAMBDA c : c = "/") = Len(s) + 1
<1> DEFINE u == (s \o <<"/">>) \o t
           I == {i \in 1..Len(u) : u[i] = "/"}
<1>1. Len(s) \in Nat /\ Len(t) \in Nat
  BY LenProperties
<1>2. /\ s \o <<"/">> \in Seq(S) /\ Len(s \o <<"/">>) = Len(s) + 1
      /\ \A i \in 1..Len(s) + 1 : (s \o <<"/">>)[i] = IF i <= Len(s) THEN s[i] ELSE "/"
  BY <1>1, ConcatProperties
<1>3. /\ Len(u) = Len(s) + 1 + Len(t)
      /\ \A i \in 1..Len(s) + 1 : u[i] = (s \o <<"/">>)[i]
  BY <1>1, <1>2, ConcatProperties
<1>4. Len(s) + 1 \in I /\ \A i \in I : Len(s) + 1 <= i
  BY <1>1, <1>2, <1>3
<1>5. Min(I) = Len(s) + 1
  BY <1>1, <1>4 DEF Min
<1>6. QED BY <1>4, <1>5 DEF SelectInSeq

(* ... and there is none in s.                                             *)
LEMMA SelectNoSlash ==
    ASSUME NEW s, \A i \in 1..Len(s) : s[i] # "/"
    PROVE  SelectInSeq(s, LAMBDA c : c = "/") = 0
BY DEF SelectInSeq

-----------------------------------------------------------------------------
(* The request stays a request.                                            *)
LEMMA RequestAlways == RPSpec => [](req \in Requests)
<1>1. RPInit => req \in Requests
  BY DEF RPInit
<1>2. req \in Requests /\ [RPNext]_req => (req \in Requests)'
  BY DEF RPNext
<1>3. QED BY <1>1, <1>2, PTL DEF RPSpec

(* A slug holds no "/".                                                    *)
LEMMA SlugNoSlash ==
    ASSUME NEW s \in Slugs
    PROVE  s \in Seq(Alphabet) /\ s # <<>> /\ \A i \in 1..Len(s) : s[i] # "/"
<1>1. s \in Seq(Alphabet)
  BY RouterParseStrings, SeqMonotonic DEF Alphabet
<1>2. QED BY <1>1, RouterParseAssumption DEF Contains

(* slugFromPath on a path that starts with "/", by where the next "/" is.  *)
LEMMA SlugFromPathOf ==
    ASSUME NEW p, NEW tr, p # <<>>, Head(p) = "/", Tail(p) = tr, tr # <<>>,
           NEW k, SelectInSeq(tr, LAMBDA c : c = "/") = k
    PROVE  SlugFromPath(p) =
             IF k = 0 THEN <<tr, <<"/">>>>
             ELSE <<SubSeq(tr, 1, k - 1), SubSeq(tr, k, Len(tr))>>
<1>1. (IF p # <<>> /\ Head(p) = "/" THEN Tail(p) ELSE p) = tr
  OBVIOUS
<1>2. QED BY <1>1, Zenon DEF SlugFromPath

(* slugFromPath on "/<slug>/<tail>" and on "/<slug>".                     *)
LEMMA PathSplit ==
    ASSUME NEW slug \in Seq(Alphabet), slug # <<>>,
           \A i \in 1..Len(slug) : slug[i] # "/",
           NEW rest \in Seq(Alphabet)
    PROVE  /\ SlugFromPath(((<<"/">> \o slug) \o <<"/">>) \o rest)
                = <<slug, <<"/">> \o rest>>
           /\ SlugFromPath(<<"/">> \o slug) = <<slug, <<"/">>>>
<1> DEFINE slash == <<"/">>
           trimmed == (slug \o slash) \o rest
           path == ((slash \o slug) \o slash) \o rest
<1>1. "/" \in Alphabet /\ slash \in Seq(Alphabet) /\ Len(slug) \in Nat
  BY LenProperties DEF Alphabet
<1>2. slug \o slash \in Seq(Alphabet) /\ slash \o slug \in Seq(Alphabet)
  BY <1>1, ConcatProperties
<1>3. slash \o rest \in Seq(Alphabet) /\ trimmed \in Seq(Alphabet)
  BY <1>1, <1>2, ConcatProperties
<1>4. trimmed = slug \o (slash \o rest)
  BY <1>1, ConcatAssociative
<1>5. path = slash \o trimmed
  <2>1. (slash \o slug) \o slash = slash \o (slug \o slash)
    BY <1>1, ConcatAssociative
  <2>2. path = (slash \o (slug \o slash)) \o rest
    BY <2>1
  <2>3. QED BY <1>1, <1>2, <2>2, ConcatAssociative
<1>6. path # <<>> /\ Head(path) = "/" /\ Tail(path) = trimmed
  BY <1>1, <1>3, <1>5, ConsHeadTail
<1>7. SelectInSeq(trimmed, LAMBDA c : c = "/") = Len(slug) + 1
  BY <1>1, SelectFirstSlash
<1>8. trimmed # <<>>
  BY <1>1, <1>3, <1>4, ConcatProperties, EmptySeq
<1>9. /\ SubSeq(trimmed, 1, Len(slug)) = slug
      /\ SubSeq(trimmed, Len(slug) + 1, Len(trimmed)) = slash \o rest
  BY <1>3, <1>4, ConcatHalves
<1>10. SlugFromPath(path) = <<slug, slash \o rest>>
  <2>1. Len(slug) + 1 # 0
    BY <1>1
  <2>2. SlugFromPath(path) = <<SubSeq(trimmed, 1, (Len(slug) + 1) - 1),
                               SubSeq(trimmed, Len(slug) + 1, Len(trimmed))>>
    BY <1>6, <1>7, <1>8, <2>1, SlugFromPathOf
  <2>3. (Len(slug) + 1) - 1 = Len(slug)
    BY <1>1
  <2>4. QED BY <1>9, <2>2, <2>3
<1>11. slash \o slug # <<>> /\ Head(slash \o slug) = "/" /\ Tail(slash \o slug) = slug
  BY <1>1, ConsHeadTail
<1>12. SelectInSeq(slug, LAMBDA c : c = "/") = 0
  BY SelectNoSlash
<1>13. SlugFromPath(slash \o slug) = <<slug, slash>>
  BY <1>11, <1>12, SlugFromPathOf
<1>14. QED BY <1>10, <1>13

(***************************************************************************)
(* The path prefix "/<slug>/" that /api/backends hands out, followed by    *)
(* any path tail or by nothing, is split by slugFromPath into that slug    *)
(* and the tail with its "/" (PathRoutesBack), for every slug Slugify can  *)
(* return and every tail.                                                  *)
(***************************************************************************)
THEOREM RouterParsePathRoutesBack == RPSpec => []PathRoutesBack
<1>1. req \in Requests => PathRoutesBack
  <2> SUFFICES ASSUME req \in Requests PROVE PathRoutesBack
    OBVIOUS
  <2>1. /\ req.slug \in Seq(Alphabet) /\ req.slug # <<>>
        /\ \A i \in 1..Len(req.slug) : req.slug[i] # "/"
    BY SlugNoSlash DEF Requests
  <2>2. req.rest \in Seq(Alphabet)
    BY RouterParseStrings DEF Requests
  <2>3. QED BY <2>1, <2>2, PathSplit DEF PathRoutesBack
<1>2. QED BY <1>1, RequestAlways, PTL
-----------------------------------------------------------------------------
(***************************************************************************)
(* The hostname.  It routes back only for a username that strings.ToLower  *)
(* leaves alone (router_upper_username shows the other case) and that has  *)
(* no ":" (slugFromHost cuts the Host at its last ":").                    *)
(***************************************************************************)
UsersRoutable ==
    \A u \in Users : \A i \in 1..Len(u) : LowerOf[u[i]] = u[i] /\ u[i] # ":"

(* The characters ToLower leaves alone, ":" excepted.                      *)
Fixed == {c \in DOMAIN LowerOf : LowerOf[c] = c /\ c # ":"}

(* A string of such characters is a sequence over Fixed ...                *)
LEMMA FixedSeq ==
    ASSUME NEW s \in Seq(DOMAIN LowerOf),
           \A i \in 1..Len(s) : LowerOf[s[i]] = s[i] /\ s[i] # ":"
    PROVE  s \in Seq(Fixed)
<1>1. Len(s) \in Nat /\ s = [i \in 1..Len(s) |-> s[i]]
  BY LenProperties
<1>2. \A i \in 1..Len(s) : s[i] \in Fixed
  BY ElementOfSeq DEF Fixed
<1>3. QED BY <1>1, <1>2, IsASeq

(* ... which Lower leaves as it is.                                        *)
LEMMA LowerFixed ==
    ASSUME NEW s \in Seq(Fixed)
    PROVE  Lower(s) = s
<1>1. DOMAIN s = 1..Len(s) /\ \A i \in 1..Len(s) : s[i] \in Fixed
  BY LenProperties, ElementOfSeq
<1>2. s = [i \in DOMAIN s |-> s[i]]
  BY LenProperties
<1>3. QED BY <1>1, <1>2 DEF Lower, Fixed

(* The hostname DomainFor builds is a string over Fixed.                   *)
LEMMA DomainFixed ==
    ASSUME NEW slug \in Seq(Fixed), NEW user \in Seq(Fixed)
    PROVE  /\ <<"-">> \in Seq(Fixed) /\ Local \in Seq(Fixed)
           /\ slug \o <<"-">> \in Seq(Fixed)
           /\ (slug \o <<"-">>) \o user \in Seq(Fixed)
           /\ DomainFor(slug, user) \in Seq(Fixed)
<1>1. \A c \in {"-", ".", "l", "o", "c", "a"} : c \in Fixed
  BY RouterParseStrings DEF Fixed
<1>2. <<"-">> \in Seq(Fixed) /\ Local \in Seq(Fixed)
  BY <1>1 DEF Local
<1>3. QED BY <1>2, ConcatProperties DEF DomainFor

(* The last ":" of d, ps is the port suffix's own, or there is none ...    *)
LEMMA HostnameOf ==
    ASSUME NEW d \in Seq(Fixed), NEW ps \in Seq(Alphabet),
           ps = <<>> \/ (ps[1] = ":" /\ \A i \in 2..Len(ps) : ps[i] # ":")
    PROVE  LET h == d \o ps
               colon == SelectLastInSeq(h, LAMBDA c : c = ":")
           IN  (IF colon = 0 THEN h ELSE SubSeq(h, 1, colon - 1)) = d
<1> DEFINE h == d \o ps
           I == {i \in 1..Len(h) : h[i] = ":"}
<1>1. d \in Seq(Alphabet) /\ Len(d) \in Nat /\ Len(ps) \in Nat
      /\ \A i \in 1..Len(d) : d[i] # ":"
  BY SeqMonotonic, LenProperties, ElementOfSeq DEF Fixed, Alphabet
<1>2. /\ h \in Seq(Alphabet) /\ Len(h) = Len(d) + Len(ps)
      /\ \A i \in 1..Len(d) + Len(ps) : h[i] = IF i <= Len(d) THEN d[i] ELSE ps[i - Len(d)]
  BY <1>1, ConcatProperties
<1>3. CASE ps = <<>>
  <2>1. h = d
    BY <1>1, <1>3, ConcatEmptySeq
  <2>2. SelectLastInSeq(h, LAMBDA c : c = ":") = 0
    BY <1>1, <2>1 DEF SelectLastInSeq
  <2>3. QED BY <2>1, <2>2
<1>4. CASE ps # <<>>
  <2>1. ps[1] = ":" /\ \A i \in 2..Len(ps) : ps[i] # ":"
    BY <1>4
  <2>2. Len(ps) >= 1
    BY <1>4, EmptySeq
  <2>3. I = {Len(d) + 1}
    BY <1>1, <1>2, <2>1, <2>2
  <2>4. Max(I) = Len(d) + 1
    BY <2>3 DEF Max
  <2>5. SelectLastInSeq(h, LAMBDA c : c = ":") = Len(d) + 1
    BY <2>3, <2>4 DEF SelectLastInSeq
  <2>6. SubSeq(h, 1, Len(d)) = d
    BY <1>1, ConcatHalves
  <2>7. (Len(d) + 1) - 1 = Len(d) /\ Len(d) + 1 # 0
    BY <1>1
  <2>8. QED BY <2>5, <2>6, <2>7
<1>5. QED BY <1>3, <1>4

(* ... so that slugFromHost reads the hostname d.                          *)
LEMMA SlugFromHostOf ==
    ASSUME NEW h, NEW user, NEW d,
           (IF SelectLastInSeq(h, LAMBDA c : c = ":") = 0 THEN h
            ELSE SubSeq(h, 1, SelectLastInSeq(h, LAMBDA c : c = ":") - 1)) = d
    PROVE  SlugFromHost(h, user) =
             IF ~HasSuffix(d, Local) \/ ~HasSuffix(TrimSuffix(d, Local), <<"-">> \o user)
               THEN <<>>
               ELSE TrimSuffix(TrimSuffix(d, Local), <<"-">> \o user)
BY Zenon DEF SlugFromHost

(* slugFromHost recovers the slug from DomainFor(slug, user) followed by  *)
(* a port suffix.                                                          *)
LEMMA HostSplit ==
    ASSUME NEW slug \in Seq(Fixed), NEW user \in Seq(Fixed),
           NEW ps \in Seq(Alphabet),
           ps = <<>> \/ (ps[1] = ":" /\ \A i \in 2..Len(ps) : ps[i] # ":")
    PROVE  SlugFromHost(DomainFor(slug, user) \o ps, user) = slug
<1> DEFINE d == DomainFor(slug, user)
           dash == <<"-">>
<1>1. /\ dash \in Seq(Fixed) /\ Local \in Seq(Fixed)
      /\ slug \o dash \in Seq(Fixed) /\ (slug \o dash) \o user \in Seq(Fixed)
      /\ d \in Seq(Fixed)
  BY DomainFixed
<1>2. d = ((slug \o dash) \o user) \o Local
  BY DEF DomainFor
<1>3. HasSuffix(d, Local) /\ TrimSuffix(d, Local) = (slug \o dash) \o user
  BY <1>1, <1>2, ConcatSuffix
<1>4. (slug \o dash) \o user = slug \o (dash \o user) /\ dash \o user \in Seq(Fixed)
  BY <1>1, ConcatAssociative, ConcatProperties
<1>5. /\ HasSuffix(TrimSuffix(d, Local), dash \o user)
      /\ TrimSuffix(TrimSuffix(d, Local), dash \o user) = slug
  <2>1. /\ HasSuffix(slug \o (dash \o user), dash \o user)
        /\ TrimSuffix(slug \o (dash \o user), dash \o user) = slug
    BY <1>1, <1>4, ConcatSuffix
  <2>2. TrimSuffix(d, Local) = slug \o (dash \o user)
    BY <1>3, <1>4
  <2>3. QED BY <2>1, <2>2
<1>6. SlugFromHost(d \o ps, user) =
        IF ~HasSuffix(d, Local) \/ ~HasSuffix(TrimSuffix(d, Local), dash \o user)
          THEN <<>>
          ELSE TrimSuffix(TrimSuffix(d, Local), dash \o user)
  <2>1. LET h == d \o ps
            colon == SelectLastInSeq(h, LAMBDA c : c = ":")
        IN  (IF colon = 0 THEN h ELSE SubSeq(h, 1, colon - 1)) = d
    BY <1>1, HostnameOf
  <2>2. QED BY <2>1, SlugFromHostOf
<1>7. QED BY <1>3, <1>5, <1>6
(***************************************************************************)
(* The hostname config.DomainFor advertises for a slug, sent as advertised *)
(* or lower-cased and with or without a port, is routed by slugFromHost to *)
(* that slug (DomainRoutesBack), for every slug Slugify can return, every  *)
(* port suffix and every username ToLower leaves alone that has no ":".    *)
(***************************************************************************)
THEOREM RouterParseDomainRoutesBack ==
    ASSUME UsersRoutable
    PROVE  RPSpec => []DomainRoutesBack
<1>1. req \in Requests => DomainRoutesBack
  <2> SUFFICES ASSUME req \in Requests PROVE DomainRoutesBack
    OBVIOUS
  <2>1. req.slug \in Seq(Fixed)
    BY RouterParseStrings, FixedSeq DEF Requests
  <2>2. req.user \in Seq(Fixed)
    BY RouterParseStrings, FixedSeq DEF Requests, UsersRoutable
  <2>3. /\ req.port \in Seq(Alphabet)
        /\ req.port = <<>> \/ (req.port[1] = ":" /\ \A i \in 2..Len(req.port) : req.port[i] # ":")
    BY RouterParseStrings DEF Requests
  <2>4. Lower(DomainFor(req.slug, req.user)) = DomainFor(req.slug, req.user)
    BY <2>1, <2>2, DomainFixed, LowerFixed
  <2>5. HostSent(req) = DomainFor(req.slug, req.user) \o req.port
    BY <2>4 DEF HostSent
  <2>6. QED BY <2>1, <2>2, <2>3, <2>5, HostSplit DEF DomainRoutesBack
<1>2. QED BY <1>1, RequestAlways, PTL
=============================================================================

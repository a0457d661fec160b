-------------------------------- MODULE Slug --------------------------------
(***************************************************************************)
(* registry.Slugify as the string algorithm it is, over strings as         *)
(* sequences of one-character strings from a small alphabet:               *)
(* filepath.Base, strings.ToLower, the regexp [^a-z0-9-] replaced by "-",  *)
(* the regexp -+ replaced by "-", strings.Trim of "-", and "default" for   *)
(* the empty result.  A reference definition states what the result is:    *)
(* the runs of letters and digits of the lower-cased base name, joined by  *)
(* hyphens.  The Registry module takes a slug to be the sequence of those  *)
(* runs.  Slugify applied to its own result is checked to change nothing.  *)
(***************************************************************************)
EXTENDS Naturals, Sequences, SequencesExt

CONSTANTS
    Chars,      \* the alphabet of paths, "/" and "-" among them
    LowerOf,    \* strings.ToLower on one character of Letters
    Alnum,      \* the characters of [a-z0-9]
    MaxLen      \* the longest path checked

VARIABLE input  \* the projectPath argument

Default == <<"d", "e", "f", "a", "u", "l", "t">>

(* The characters a slug can hold: those of paths and those of "default".  *)
Letters == Chars \cup {Default[i] : i \in DOMAIN Default}

ASSUME SlugAssumption ==
    /\ {"/", "-"} \subseteq Chars
    /\ LowerOf \in [Letters -> Letters]
    /\ Alnum \subseteq Letters \ {"/", "-"}
    /\ {Default[i] : i \in DOMAIN Default} \subseteq Alnum
    /\ \A c \in Alnum : LowerOf[c] = c
    /\ MaxLen \in Nat

(* filepath.Base: "." for "", trailing slashes dropped, "/" if nothing is  *)
(* left, else the part after the last slash.                               *)
Base(p) ==
    LET last == SelectLastInSeq(p, LAMBDA c : c # "/")
        trimmed == SubSeq(p, 1, last)
        slash == SelectLastInSeq(trimmed, LAMBDA c : c = "/")
    IN  IF p = <<>> THEN <<".">>
        ELSE IF last = 0 THEN <<"/">>
        ELSE SubSeq(trimmed, slash + 1, last)

(* Variant: ToLower left out.                                              *)
ToLowerNone(s) == s

(* strings.ToLower.                                                        *)
ToLower(s) == [i \in DOMAIN s |-> LowerOf[s[i]]]

(* nonAlphaNum.ReplaceAllString(slug, "-").                                *)
ReplaceNonAlnum(s) == [i \in DOMAIN s |-> IF s[i] \in Alnum THEN s[i] ELSE "-"]

(* multiHyphen.ReplaceAllString(slug, "-").                                *)
CollapseHyphens(s) ==
    FoldLeft(LAMBDA acc, c : IF c = "-" /\ acc # <<>> /\ Last(acc) = "-"
                               THEN acc ELSE Append(acc, c),
             <<>>, s)

(* Variant: strings.TrimLeft in place of strings.Trim.                     *)
TrimHyphensLeft(s) ==
    LET first == SelectInSeq(s, LAMBDA c : c # "-")
    IN  IF first = 0 THEN <<>> ELSE SubSeq(s, first, Len(s))

(* strings.Trim(slug, "-").                                                *)
TrimHyphens(s) ==
    LET first == SelectInSeq(s, LAMBDA c : c # "-")
        last == SelectLastInSeq(s, LAMBDA c : c # "-")
    IN  IF first = 0 THEN <<>> ELSE SubSeq(s, first, last)

(* Variant: the two regexp replacements in the other order.               *)
SlugifyCollapseFirst(p) ==
    LET slug == TrimHyphens(ReplaceNonAlnum(CollapseHyphens(ToLower(Base(p)))))
    IN  IF slug = <<>> THEN Default ELSE slug

Slugify(p) ==
    LET slug == TrimHyphens(CollapseHyphens(ReplaceNonAlnum(ToLower(Base(p)))))
    IN  IF slug = <<>> THEN Default ELSE slug

SlugInit == input \in BoundedSeq(Chars, MaxLen)

SlugNext == UNCHANGED input

SlugSpec == SlugInit /\ [][SlugNext]_input

-----------------------------------------------------------------------------
(* The maximal runs of characters of s in the set A, in order.             *)
Runs(s, A) ==
    LET ends == {<<i, j>> \in (DOMAIN s) \X (DOMAIN s) :
                    /\ i <= j
                    /\ \A k \in i..j : s[k] \in A
                    /\ i = 1 \/ s[i - 1] \notin A
                    /\ j = Len(s) \/ s[j + 1] \notin A}
        sorted == SetToSortSeq(ends, LAMBDA x, y : x[1] < y[1])
    IN  [n \in DOMAIN sorted |-> SubSeq(s, sorted[n][1], sorted[n][2])]

(* The strings of segs, with a hyphen between two.                         *)
JoinHyphen(segs) ==
    FlattenSeq([n \in DOMAIN segs |->
                   IF n = 1 THEN segs[n] ELSE <<"-">> \o segs[n]])

(* The reference: the letter-and-digit runs of the lower-cased base name   *)
(* joined by hyphens, "default" when there is none.                        *)
RefSlug(p) ==
    LET segs == Runs([i \in DOMAIN Base(p) |-> LowerOf[Base(p)[i]]], Alnum)
    IN  IF segs = <<>> THEN Default ELSE JoinHyphen(segs)

(* The parts strings.Split(s, "-") returns.                                *)
SplitHyphen(s) ==
    LET cuts == <<0>> \o SetToSortSeq({i \in DOMAIN s : s[i] = "-"},
                                      LAMBDA x, y : x < y) \o <<Len(s) + 1>>
    IN  [n \in 1..Len(cuts) - 1 |-> SubSeq(s, cuts[n] + 1, cuts[n + 1] - 1)]

(***************************************************************************)
(* Slugify computes the reference slug for every path of the alphabet up   *)
(* to MaxLen characters: lower-casing, replacing, collapsing and trimming  *)
(* in this order leave exactly the runs of letters and digits.             *)
(***************************************************************************)
SlugifyMatchesReference == Slugify(input) = RefSlug(input)

(***************************************************************************)
(* Spec P3: Slugify is idempotent.  A slug, read as a path, is its own     *)
(* base name (it holds no "/"), is lower case, holds only [a-z0-9-] and    *)
(* no "--", and starts and ends with a letter or digit, so a second pass   *)
(* changes nothing; "default" is a fixed point too.  A step of the         *)
(* pipeline that leaves one of these undone shows here.                   *)
(***************************************************************************)
SlugifyIdempotent == Slugify(Slugify(input)) = Slugify(input)
=============================================================================

------------------------------- MODULE MCSlug -------------------------------
(* Slugify over paths of up to five characters: an upper-case letter, its  *)
(* lower case, a digit, the hyphen, the slash and the dot.  ToLower is    *)
(* also given on the other letters of "default", which Slugify can return. *)
EXTENDS Slug, TLC

MCChars == {"A", "a", "1", "-", "/", "."}
MCLowerOf == [c \in Letters |-> IF c = "A" THEN "a" ELSE c]
MCAlnum == {"a", "1"} \cup {Default[i] : i \in DOMAIN Default}
=============================================================================

---------------------------- MODULE MCRouterParse ----------------------------
(* Small instances of RouterParse: the slugs Slugify returns over the      *)
(* alphabet a, 1, "-" up to three characters, path tails over a and "/"    *)
(* up to two, and a Host header with or without a port.                    *)
EXTENDS RouterParse

MCSlugChars == {"a", "1", "-"}

(* Slugify's results: no leading, trailing or doubled hyphen.              *)
MCSlugs ==
    {s \in BoundedSeq(MCSlugChars, 3) :
        /\ s # <<>>
        /\ Head(s) # "-" /\ Last(s) # "-"
        /\ \A i \in 1..Len(s) - 1 : ~(s[i] = "-" /\ s[i + 1] = "-")}

MCRests == BoundedSeq({"a", "/"}, 2)

MCPortSuffixes == {<<>>, <<":", "8">>}

(* Usernames with lower-case letters only, one with a hyphen.             *)
MCUsers == {<<"b">>, <<"b", "-", "a">>}

(* An OS or -username name with an upper-case letter.                     *)
MCUsersUpper == MCUsers \cup {<<"B">>}

MCLowerOf ==
    [c \in {"a", "b", "1", "-", ".", "l", "o", "c", ":", "8", "B"} |->
        IF c = "B" THEN "b" ELSE c]
=============================================================================

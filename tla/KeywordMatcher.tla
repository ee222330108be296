--------------------------- MODULE KeywordMatcher ----------------------------
(***************************************************************************)
(* Whether a message has a campaign's keyword (lib/utils/keyword-matcher): *)
(* the cleaning of both texts, the two modes, and what the whole-word mode *)
(* forgives, plurals and typing errors.                                    *)
(*                                                                         *)
(* A text is a sequence of characters: letters, which have no case here,   *)
(* emoji, and others, of which a space is one.                             *)
(***************************************************************************)
EXTENDS Naturals, Sequences, FiniteSets
LOCAL INSTANCE FiniteSetsExt   \* Min

CONSTANTS Letters, Emoji,            \* characters; every other one separates
          Examples,                  \* sets of messages with a set of keywords for each
          MIN_FUZZY_KEYWORD_LENGTH

ASSUME MatcherAssumption ==
    /\ Letters \cap (Emoji \cup {" "}) = {} /\ " " \notin Emoji
    /\ MIN_FUZZY_KEYWORD_LENGTH \in Nat

VARIABLE example    \* a message and a keyword, as they are typed

MatcherTypeOK == {example.text, example.keyword} \subseteq Seq(Letters \cup Emoji \cup {" "})

-----------------------------------------------------------------------------
(* The texts                                                               *)

\* Emoji go without a trace, anything else that is no letter separates words by
\* one space, and there is none at the ends.
stripSpecialCharacters(t) ==
    LET kept == SelectSeq(t, LAMBDA c : c \notin Emoji)
        open(s) == s # << >> /\ s[Len(s)] # " "
        clean[i \in 0 .. Len(kept)] ==
            IF i = 0 THEN << >>
            ELSE LET s == clean[i - 1] IN
                 IF kept[i] \in Letters THEN Append(s, kept[i])
                 ELSE IF open(s) THEN Append(s, " ") ELSE s
        all == clean[Len(kept)]
    IN  IF all = << >> \/ open(all) THEN all ELSE SubSeq(all, 1, Len(all) - 1)

Occurs(k, t) ==
    {i \in 1 .. Len(t) : i + Len(k) - 1 <= Len(t) /\ SubSeq(t, i, i + Len(k) - 1) = k}

\* \b before position i of a text and after position j.
Boundary(t, i, j) ==
    (i = 1 \/ t[i - 1] \notin Letters) /\ (j = Len(t) \/ t[j + 1] \notin Letters)

WordsIn(t) ==
    {SubSeq(t, i, j) : <<i, j>> \in
        {p \in (1 .. Len(t)) \X (1 .. Len(t)) :
            /\ p[1] <= p[2] /\ \A n \in p[1] .. p[2] : t[n] \in Letters
            /\ Boundary(t, p[1], p[2])}}

-----------------------------------------------------------------------------
(* What is forgiven                                                        *)

typoTolerance(n) == IF n < MIN_FUZZY_KEYWORD_LENGTH THEN 0 ELSE IF n <= 8 THEN 1 ELSE 2

\* Seeded bug: only the lengths count.
DistanceOfLengths(a, b) == IF Len(a) > Len(b) THEN Len(a) - Len(b) ELSE Len(b) - Len(a)

\* Row by row, as the table of edit distances is filled in.
levenshteinDistance(a, b) ==
    LET table[i \in 0 .. Len(a)] ==
            IF i = 0 THEN [j \in 1 .. Len(b) + 1 |-> j - 1]
            ELSE LET prev == table[i - 1]
                     row[j \in 0 .. Len(b)] ==
                         IF j = 0 THEN <<i>>
                         ELSE LET r == row[j - 1] IN
                              Append(r, Min({r[j] + 1, prev[j + 1] + 1,
                                             prev[j] + IF a[i] = b[j] THEN 0 ELSE 1}))
                 IN  row[Len(b)]
    IN  table[Len(a)][Len(b) + 1]

EndsWith(w, e) == Len(w) >= Len(e) /\ SubSeq(w, Len(w) - Len(e) + 1, Len(w)) = e

lightStem(w) ==
    CASE Len(w) <= 4 -> w
      [] Len(w) > 5 /\ EndsWith(w, <<"i", "e", "s">>) -> SubSeq(w, 1, Len(w) - 3) \o <<"y">>
      [] EndsWith(w, <<"s">>) /\ ~EndsWith(w, <<"s", "s">>)
         /\ ~(Len(w) > 5 /\ EndsWith(w, <<"i", "e", "s">>)) -> SubSeq(w, 1, Len(w) - 1)
      [] OTHER -> w

Apart(m, n) == IF m > n THEN m - n ELSE n - m

\* One word for a keyword of one word.
fuzzyWholeWordMatch(t, k) ==
    LET tolerance == typoTolerance(Len(k)) IN
    /\ \A i \in 1 .. Len(k) : k[i] # " "
    /\ Len(k) >= 3
    /\ \E w \in WordsIn(t) :
          /\ w[1] = k[1]
          /\ \/ lightStem(w) = lightStem(k)
             \/ /\ tolerance > 0 /\ Apart(Len(w), Len(k)) <= tolerance
                /\ levenshteinDistance(w, k) <= tolerance

-----------------------------------------------------------------------------
(* The modes                                                               *)

\* The regular expression of the whole-word mode; the keyword is not empty, and
\* begins and ends with a letter.
ExactWords(t, k) == \E i \in Occurs(k, t) : Boundary(t, i, i + Len(k) - 1)

matchKeyword(text, keyword, wholeWordMatch) ==
    LET t == stripSpecialCharacters(text)
        k == stripSpecialCharacters(keyword) IN
    /\ t # << >> /\ k # << >>
    /\ IF wholeWordMatch THEN ExactWords(t, k) \/ fuzzyWholeWordMatch(t, k)
                         ELSE Occurs(k, t) # {}

MatcherInit == \E e \in Examples : example \in [text : e[1], keyword : e[2]]

-----------------------------------------------------------------------------
(* Properties, against definitions that say what is meant                  *)

\* The words of a typed text, one after the other.
Spelled(t) ==
    LET words[i \in 0 .. Len(t)] ==     \* of the first i characters; the last word is open
            IF i = 0 THEN << << >> >>
            ELSE LET s == words[i - 1] IN
                 CASE t[i] \in Letters -> [s EXCEPT ![Len(s)] = Append(@, t[i])]
                   [] t[i] \in Emoji -> s
                   [] OTHER -> Append(s, << >>)
    IN  SelectSeq(words[Len(t)], LAMBDA w : w # << >>)

\* The words one insertion, removal or replacement makes of w, with the letters of k.
Edited(w, k) ==
    LET front(i) == SubSeq(w, 1, i)
        back(i) == SubSeq(w, i, Len(w)) IN
    {front(i - 1) \o back(i + 1) : i \in 1 .. Len(w)}
    \cup UNION {{front(i) \o <<k[n]>> \o back(i + 1) : i \in 0 .. Len(w)} : n \in 1 .. Len(k)}
    \cup UNION {{front(i - 1) \o <<k[n]>> \o back(i + 1) : i \in 1 .. Len(w)} : n \in 1 .. Len(k)}

Within(n, w, k) ==
    LET near[i \in 0 .. n] ==
            IF i = 0 THEN {w} ELSE near[i - 1] \cup UNION {Edited(v, k) : v \in near[i - 1]}
    IN  k \in near[n]

Text    == Spelled(example.text)
Keyword == Spelled(example.keyword)
Matched(whole) == matchKeyword(example.text, example.keyword, whole)

\* A message that has the keyword's words, one after the other, has the keyword
\* in either mode, whatever stands around and between them; a keyword of several
\* words is found in no other message of the whole-word mode.
WholeWordsAreFound ==
    LET said == Keyword # << >> /\ Occurs(Keyword, Text) # {} IN
    /\ said => Matched(TRUE) /\ Matched(FALSE)
    /\ Len(Keyword) # 1 /\ Matched(TRUE) => said

\* A single word and a keyword that begin alike: as many typing errors as the
\* keyword's length allows are forgiven and, apart from plurals, no more; those
\* of the first letter never.
TyposAreForgiven ==
    Len(Text) = 1 /\ Len(Keyword) = 1 =>
        LET w == Text[1]
            k == Keyword[1] IN
        /\ w[1] = k[1] /\ Len(k) >= 3 /\ Within(typoTolerance(Len(k)), w, k) => Matched(TRUE)
        /\ Matched(TRUE) /\ lightStem(w) # lightStem(k) =>
              w[1] = k[1] /\ Within(typoTolerance(Len(k)), w, k)

\* A word of four letters or more and its plural are one keyword, whichever is
\* typed: the rule for -ies, which makes a "y" of the -ie of a singular, is made
\* good by the typing errors that are forgiven.
PluralsAreForgiven ==
    Len(Text) = 1 /\ Len(Keyword) = 1 =>
        \A one, many \in {Text[1], Keyword[1]} :
            /\ Len(one) >= 4 /\ one[Len(one)] # "s"
            /\ \/ many = Append(one, "s")
               \/ one[Len(one)] = "y" /\ many = SubSeq(one, 1, Len(one) - 1) \o <<"i", "e", "s">>
            => Matched(TRUE)

\* The matcher against what its comments promise: words, typing errors, plurals.
KeywordsAreFound ==
    /\ MatcherTypeOK
    /\ example.text # << >> => WholeWordsAreFound /\ TyposAreForgiven /\ PluralsAreForgiven

=============================================================================

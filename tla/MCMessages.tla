----------------------------- MODULE MCMessages -----------------------------
(***************************************************************************)
(* The replies of Telegram bots, the keywords they and the campaigns look  *)
(* for, and the pushes to a workspace's phones, checked in one run.  The   *)
(* modules share no variable: the part that moves is chosen in the initial *)
(* state and the others keep theirs.                                       *)
(***************************************************************************)
EXTENDS TelegramReplies, KeywordMatcher, PushDigest, PushDevices, TLC

CONSTANTS x1, x2, x3,         \* requests, people, and events that are alike
          u1, u2, k1, k2   \* updates and their words

VARIABLE part

Xs       == {x1, x2}
MCEvents == {x1, x2, x3}

\* One update has one of the words, the other both.
MCSays == (u1 :> {k1}) @@ (u2 :> {k1, k2})

Symmetry == Permutations(Xs)

\* Messages and keywords: all short ones, of separators, emoji and one letter, and
\* of letters only; long keywords; and words with the endings the rules know.
Strings(S, lengths) == UNION {[1 .. n -> S] : n \in lengths}
LongKeywords == {<<"a", "b", "a", "a", "b", "b", "a", "b">>,
                 <<"a", "b", "a", "a", "b", "b", "a", "b", "b">>}
Inflected(w) == {w \o e : e \in {<< >>, <<"s">>, <<"s", "s">>, <<"e", "s">>, <<"i", "e", "s">>,
                                 <<"i", "e">>, <<"y">>}}
MCExamples ==
    {<<Strings({"a", " ", "*"}, 1 .. 5), Strings({"a", " ", "*"}, 1 .. 3)>>,
     <<Strings({"a", "b"}, 1 .. 6), Strings({"a", "b"}, 1 .. 5)>>,
     <<Strings({"a", "b"}, {7, 9}), LongKeywords>>}
    \cup {<<Inflected(w), Inflected(w)>> : w \in Strings({"a", "b"}, 1 .. 5)}

MessagesInit ==
    /\ part \in {"telegram", "keywords", "digest", "devices"}
    /\ TgInit /\ DigestInit /\ DevicesInit
    /\ part # "telegram" => verified
    /\ IF part = "keywords" THEN MatcherInit ELSE example = [text |-> << >>, keyword |-> << >>]

MessagesNext ==
    /\ UNCHANGED <<part, example>>
    /\ \/ part = "telegram" /\ TgNext /\ UNCHANGED <<digestVars, deviceVars>>
       \/ part = "digest" /\ DigestNext /\ UNCHANGED <<tgVars, deviceVars>>
       \/ part = "devices" /\ DevicesNext /\ UNCHANGED <<tgVars, digestVars>>

MessagesSpec == MessagesInit /\ [][MessagesNext]_<<part, example, tgVars, digestVars, deviceVars>>

=============================================================================

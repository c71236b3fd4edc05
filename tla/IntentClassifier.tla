-------------------------- MODULE IntentClassifier --------------------------
(***************************************************************************)
(* IntentClassifierService: when an utterance calls the bot.  A word of an *)
(* utterance is abstracted to what the tables, patterns and comparisons    *)
(* of the service tell apart:                                              *)
(*   "wake"   begins with a wake word of WAKE_WORDS, after the STT         *)
(*            corrections; a spelling in several words counts as one       *)
(*   "near"   no wake word, but spelled like one: the anchored patterns    *)
(*            and the comparison of jamo accept it                         *)
(*   "fuzzy"  accepted by the comparison of jamo only                      *)
(*   "hey"    one of the openings: together with a wake word that follows  *)
(*            it, it is an entry of WAKE_WORDS itself                      *)
(*   "half"   half like a wake word: accepted only after an opening        *)
(*   "word"   anything else                                                *)
(* What else classify finds in the text (questions, categories, boards,    *)
(* timer commands) does not depend on the order of its words.              *)
(***************************************************************************)
EXTENDS Integers, Sequences, FiniteSets, FiniteSetsExt, SequencesExt

CONSTANT
  MaxTokens  \* bound: words of an utterance

VARIABLES
  tokens,  \* the words
  intent   \* "call" when classify found isCallIntent, "none" when it did not

vars == <<tokens, intent>>

Tokens == {"wake", "near", "fuzzy", "hey", "half", "word"}

Unclassified == "unclassified"

Init ==
  /\ tokens \in UNION {[1..n -> Tokens] : n \in 0..MaxTokens}
  /\ intent = Unclassified

-----------------------------------------------------------------------------
WakeWordMaxTokens == 4

\* Fewer than four words precede the match.
LeadingTokensMore(position) == position - 1 <= WakeWordMaxTokens
LeadingTokens(position) == position - 1 < WakeWordMaxTokens

\* Where the entries of WAKE_WORDS begin that are one word, and those that are two.
WakeWords == {i \in DOMAIN tokens : tokens[i] = "wake"}
OpenedWakeWords == {i \in 1..Len(tokens) - 1 : tokens[i] = "hey" /\ i + 1 \in WakeWords}

\* Of every entry the first occurrence is looked at.
IsWakeWordInLeadingTokens ==
  \E entries \in {WakeWords, OpenedWakeWords} : entries # {} /\ LeadingTokens(Min(entries))

\* WAKE_WORD_PATTERNS are anchored at the beginning.
RegexMatchWakeWord ==
  \/ tokens # <<>> /\ tokens[1] = "near"
  \/ Len(tokens) > 1 /\ tokens[1] = "hey" /\ tokens[2] \in {"near", "half"}

\* jamoSimilarity with a wake word, of at least 0.65, and of at least 0.5.
Similar == {"wake", "near", "fuzzy"}
HalfSimilar == Similar \cup {"half"}

\* The first four words in turn: the word itself, or the one after the first occurrence of
\* the same opening.
FuzzyMatchWakeWord ==
  LET first == SubSeq(tokens, 1, Min({4, Len(tokens)}))
      After(i) == 1 + Min({j \in DOMAIN first : first[j] = first[i]})
  IN  \E i \in DOMAIN first :
        \/ first[i] \in Similar
        \/ first[i] = "hey" /\ After(i) <= Len(first) /\ first[After(i)] \in HalfSimilar

Classify ==
  /\ intent = Unclassified
  /\ intent' = IF IsWakeWordInLeadingTokens \/ RegexMatchWakeWord \/ FuzzyMatchWakeWord
               THEN "call" ELSE "none"
  /\ UNCHANGED tokens

Next == Classify

Spec == Init /\ [][Next]_vars

-----------------------------------------------------------------------------
\* The utterance is made of the classes of words, and has one of the two results or none yet.
TypeOK == tokens \in Seq(Tokens) /\ intent \in {"call", "none", Unclassified}

\* Whichever of the three comparisons accepts it, an utterance calls the bot only by
\* something that begins within its first four words: a wake word or what is heard as one,
\* or an opening that a wake word follows, as the fifth word at the latest.  And a wake
\* word that begins there always calls, whatever precedes it.
WakeWordLeads ==
  intent # Unclassified =>
    LET leading == 1..4 \cap DOMAIN tokens
        wake == {i \in leading : tokens[i] = "wake" \/ i \in OpenedWakeWords}
        heard == {i \in leading : tokens[i] \in HalfSimilar}
    IN  /\ intent = "call" => wake \cup heard # {}
        /\ wake # {} => intent = "call"
=============================================================================

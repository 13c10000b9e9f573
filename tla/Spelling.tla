------------------------------ MODULE Spelling ------------------------------
(***************************************************************************)
(* SpellingChecker.check (pipeline/spelling.py): the user's jargon is      *)
(* protected by placeholders, the rest is cut into words, each word is     *)
(* kept or corrected, and the placeholders are put back.                   *)
(*                                                                         *)
(* A text is a sequence of words, separators and placeholders; no two      *)
(* words of a question are adjacent.  Edit distances and the dictionary    *)
(* are relations between words.                                            *)
(***************************************************************************)
EXTENDS Integers, Sequences, FiniteSets, Functions, SequencesExt

CONSTANTS
  Word, Separator,  \* strings; "-" is a separator
  Lower,       \* the words in lower case
  Technical,   \* words with digits or underscores
  Stopword,
  Dictionary,  \* the correction of each word, itself if there is none
  Jargon,      \* names of jargon terms
  Spelled,     \* the words and separators of each
  Length,      \* and its length
  Near,        \* a word may be a typo of a jargon term
  MaxLength, MaxJargons  \* bounds on questions and lists of jargon

Folded(a) == IF a \in Word THEN Lower[a] ELSE a

Hole == "__JARGON_PH__"

\* What holds of the constants; no occurrence of a term overlaps another one of
\* the same term, and nobody writes a placeholder.
Parameters ==
  /\ Word \cap Separator = {} /\ Hole \notin Word \cup Separator /\ Lower \in [Word -> Word]
  /\ MaxLength \in Nat /\ MaxJargons \in Nat
  /\ Technical \subseteq Word /\ Stopword \subseteq Word /\ Dictionary \in [Word -> Word]
  /\ Spelled \in [Jargon -> Seq(Word \cup Separator) \ {<<>>}] /\ Length \in [Jargon -> Nat]
  /\ \A j \in Jargon : IsInjective([i \in DOMAIN Spelled[j] |-> Folded(Spelled[j][i])])

Plain(a) == [is |-> IF a \in Word THEN "word" ELSE "separator", text |-> a]
Placeholder(j) == [is |-> "placeholder", text |-> j]
Joins(atom) == atom.is # "separator"  \* an atom of word characters, as \w has them

VARIABLES
  question, jargons,
  phase,    \* "find" and "replace" jargon, "words", "done"
  term,     \* the jargon term whose turn it is
  matches,  \* where it occurs in the text
  text, position,
  result, corrections

vars == <<question, jargons, phase, term, matches, text, position, result, corrections>>

-----------------------------------------------------------------------------
(* Jargon                                                                  *)

\* A mutant: the terms are not sorted.
AsGiven == jargons

\* Longest first, and in the given order between terms of one length.
Sorted ==
  LET before(a, b) == \/ Length[jargons[a]] > Length[jargons[b]]
                      \/ Length[jargons[a]] = Length[jargons[b]] /\ a < b
      order == CHOOSE s \in SetToSeqs(DOMAIN jargons) :
                 \A a, b \in DOMAIN s : a < b => before(s[a], s[b])
  IN [i \in DOMAIN jargons |-> jargons[order[i]]]

\* A term that starts or ends in a word character or a hyphen must not go on there.
Bounded(atom) == Joins(atom) \/ atom.text = "-"

\* Such a term never stands next to a word, or to another one of them.
Closed(j) == Bounded(Plain(Head(Spelled[j]))) /\ Bounded(Plain(Last(Spelled[j])))

Occurs(t, j, i) ==
  LET s == Spelled[j] n == Len(s) IN
  /\ i + n - 1 <= Len(t)
  /\ \A k \in 1 .. n : t[i + k - 1].is # "placeholder" /\ Folded(t[i + k - 1].text) = Folded(s[k])
  /\ (i > 1 /\ Bounded(Plain(s[1]))) => ~Bounded(t[i - 1])
  /\ (i + n <= Len(t) /\ Bounded(Plain(s[n]))) => ~Bounded(t[i + n])

Found(t, i, j) == [k \in DOMAIN Spelled[j] |-> t[i + k - 1].text]

Find ==
  /\ phase = "find"
  /\ IF term > Len(jargons)
     THEN phase' = "words" /\ UNCHANGED matches
     ELSE phase' = "replace" /\ matches' = {i \in DOMAIN text : Occurs(text, Sorted[term], i)}
  /\ UNCHANGED <<question, jargons, term, text, position, result, corrections>>

Correct(from, to) ==
  corrections' = IF from = to THEN corrections ELSE Append(corrections, [original |-> from, corrected |-> to])

\* The text with n atoms at i replaced.
Replaced(i, n, atoms) == SubSeq(text, 1, i - 1) \o atoms \o SubSeq(text, i + n, Len(text))

\* The last occurrence comes first.
Replace ==
  /\ phase = "replace"
  /\ IF matches = {}
     THEN phase' = "find" /\ term' = term + 1 /\ UNCHANGED <<matches, text, corrections>>
     ELSE LET i == Max(matches) j == Sorted[term] IN
          /\ Correct(Found(text, i, j), Spelled[j])
          /\ text' = Replaced(i, Len(Spelled[j]), <<Placeholder(j)>>)
          /\ matches' = matches \ {i}
          /\ UNCHANGED <<phase, term>>
  /\ UNCHANGED <<question, jargons, position, result>>

-----------------------------------------------------------------------------
(* Words                                                                   *)

\* The given terms that are the word in another case, or may be meant by it.
Equal(w) == {i \in DOMAIN jargons : Len(Spelled[jargons[i]]) = 1 /\ Folded(Spelled[jargons[i]][1]) = Lower[w]}
Meant(w) == {i \in DOMAIN jargons : <<w, jargons[i]>> \in Near}

\* The first rule that applies; of equal terms the last one given, of near ones the first.
Chosen(w) ==
  IF Equal(w) # {} THEN Spelled[jargons[Max(Equal(w))]]
  ELSE IF w \in Technical \cup Stopword THEN <<w>>
  ELSE IF Meant(w) # {} THEN Spelled[jargons[Min(Meant(w))]]
  ELSE <<Dictionary[w]>>

\* The token at i: word characters as far as they go, or one separator.
End(i) ==
  IF ~Joins(text[i]) THEN i
  ELSE Max({n \in i .. Len(text) : \A k \in i .. n : Joins(text[k])})

\* Word characters next to a placeholder make one token of both, which has
\* underscores and is kept.
Kept(atom) == IF atom.is = "placeholder" THEN Hole ELSE atom.text

Token ==
  /\ phase = "words" /\ position <= Len(text)
  /\ LET n == End(position) atom == text[position] IN
     /\ position' = n + 1
     /\ \/ /\ n > position
           /\ result' = result \o [k \in 1 .. n - position + 1 |-> Kept(text[position + k - 1])]
           /\ UNCHANGED corrections
        \/ /\ n = position /\ atom.is = "separator"
           /\ result' = Append(result, atom.text) /\ UNCHANGED corrections
        \/ /\ n = position /\ atom.is = "placeholder"
           /\ result' = result \o Spelled[atom.text] /\ UNCHANGED corrections
        \/ /\ n = position /\ atom.is = "word"
           /\ result' = result \o Chosen(atom.text)
           /\ IF Equal(atom.text) # {} THEN UNCHANGED corrections
              ELSE Correct(<<atom.text>>, Chosen(atom.text))
  /\ UNCHANGED <<question, jargons, phase, term, matches, text>>

Return ==
  /\ phase = "words" /\ position > Len(text)
  /\ phase' = "done"
  /\ UNCHANGED <<question, jargons, term, matches, text, position, result, corrections>>

Init ==
  /\ question \in {q \in UNION {[1 .. n -> Word \cup Separator] : n \in 0 .. MaxLength} :
                     \A i \in 1 .. Len(q) - 1 : {q[i], q[i + 1]} \cap Separator # {}}
  /\ jargons \in {s \in UNION {[1 .. n -> Jargon] : n \in 0 .. MaxJargons} : IsInjective(s)}
  /\ phase = "find" /\ term = 1 /\ matches = {}
  /\ text = [i \in DOMAIN question |-> Plain(question[i])]
  /\ position = 1 /\ result = <<>> /\ corrections = <<>>

Over == phase = "done" /\ UNCHANGED vars

Next == Find \/ Replace \/ Token \/ Return \/ Over

Spec == Init /\ [][Next]_vars

-----------------------------------------------------------------------------
(* Properties                                                              *)

Text == Seq(Word \cup Separator \cup {Hole})

\* Type invariant.
TypeOK ==
  /\ phase \in {"find", "replace", "words", "done"}
  /\ term \in 1 .. Len(jargons) + 1 /\ matches \subseteq DOMAIN text
  /\ \A i \in DOMAIN text : text[i].is = "placeholder" => text[i].text \in Range(jargons)
  /\ position \in 1 .. Len(text) + 1
  /\ result \in Text
  /\ \A i \in DOMAIN corrections : corrections[i].original \in Text /\ corrections[i].corrected \in Text

HasPart(t, s) ==
  \E i \in DOMAIN t : i + Len(s) - 1 <= Len(t) /\ \A k \in DOMAIN s : t[i + k - 1] = s[k]

\* Every placeholder was replaced by its term.
Restored == ~HasPart(result, <<Hole>>)

\* No placeholder is left in the corrected question, if every given term starts
\* and ends in a character of a word or a hyphen.  One that does not may stand
\* next to a word, and what is left of both is one token (spelling.py:131): the
\* other properties are about questions in which this did not happen.
NothingIsLeft ==
  phase = "done" /\ (\A j \in Range(jargons) : Closed(j)) => Restored

\* What is reported was done, unless a placeholder is left: a correction
\* replaces something that the user wrote by something that the corrected
\* question has.
CorrectionsAreReal ==
  phase = "done" /\ Restored => \A i \in DOMAIN corrections :
    HasPart(question, corrections[i].original) /\ HasPart(result, corrections[i].corrected)

\* The longest term, where it occurs in any case, comes out as the user spelled
\* it, whatever the other terms and the dictionary make of its parts, unless a
\* placeholder is left.
LongestTermIsKept ==
  phase = "done" /\ Restored => \A j \in Range(jargons) :
    /\ \A k \in Range(jargons) \ {j} : Length[k] < Length[j]
    /\ \E i \in DOMAIN question : Occurs([n \in DOMAIN question |-> Plain(question[n])], j, i)
    => HasPart(result, Spelled[j])

Count(t, w) == Cardinality({i \in DOMAIN t : t[i] = w})
InJargon(w) == \E j \in Range(jargons) : \E k \in DOMAIN Spelled[j] : Folded(Spelled[j][k]) = Lower[w]

\* Stop words and technical words that are no jargon are left as they are.
ExemptAreKept ==
  phase = "done" => \A w \in Technical \cup Stopword :
    ~InJargon(w) => Count(result, w) >= Count(question, w)
=============================================================================

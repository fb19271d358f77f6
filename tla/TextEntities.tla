----------------------------- MODULE TextEntities -----------------------------
(***************************************************************************)
(* RegexEntityExtractor: the entities of a text.  A text is the sequence   *)
(* of candidates the regular expressions find in it, in the order they are *)
(* searched: each a name of some length and a kind, 0 to 3 for QUOTED,     *)
(* PROPER, COMPOUND, NOUN.                                                 *)
(***************************************************************************)
EXTENDS Integers, SequencesExt

CONSTANTS
  Length,        \* [name -> characters]
  Inside,        \* <<a, b>>: name a is a proper substring of name b
  Stopwords,     \* names that are no entities
  MinLength, MaxEntities   \* min_length, max_entities_per_text

\* RegexEntityExtractor._is_valid().
Valid(name) == Length[name] >= MinLength /\ name \notin Stopwords

\* _dedupe_and_filter() and the limit: a name found more than once has its best
\* kind; a name inside another of the same kind is dropped (what it is inside of
\* may be dropped too, then for a name that contains both); best kinds first, then
\* long names, then the order of the first occurrence.
TextEntities(candidates) ==
  LET found == SelectSeq(candidates, LAMBDA c : Valid(c.name))
      Places(n) == {i \in DOMAIN found : found[i].name = n}
      kind == [n \in {c.name : c \in ToSet(found)} |-> Min({found[i].kind : i \in Places(n)})]
      kept == {n \in DOMAIN kind :
                 \A m \in DOMAIN kind : <<n, m>> \in Inside => kind[m] # kind[n]}
      Before(a, b) ==
        \/ kind[a] < kind[b]
        \/ kind[a] = kind[b] /\ Length[a] > Length[b]
        \/ kind[a] = kind[b] /\ Length[a] = Length[b] /\ Min(Places(a)) < Min(Places(b))
      sorted == SetToSortSeq(kept, Before)
  IN SubSeq(sorted, 1, Min({MaxEntities, Len(sorted)}))
=============================================================================

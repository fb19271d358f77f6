------------------------------ MODULE Extraction ------------------------------
(***************************************************************************)
(* What the extractors make of an LLM's answer.  An answer is the sequence *)
(* of items of the JSON array found in it, a single object counting as one *)
(* item; an answer in which no JSON is found is the empty sequence.        *)
(***************************************************************************)
EXTENDS SequencesExt

CONSTANTS
  NoObject,      \* an item that is no JSON object
  Blank          \* content that is missing or empty

Objects(answer) == SelectSeq(answer, LAMBDA item : item # NoObject)

\* parse_semantic_response(): items without content are dropped.
ParseFacts(answer) == SelectSeq(Objects(answer), LAMBDA item : item.content # Blank)

\* EpisodeMemoryExtractor.extract(): an answer without objects gives one episode
\* made of the text itself, without entities; an empty text gives none.
Episodes(hasText, answer) ==
  IF ~hasText THEN <<>>
  ELSE IF Objects(answer) = <<>> THEN <<[content |-> Blank, entities |-> <<>>]>>
  ELSE Objects(answer)

AddNew(list, e) == IF Contains(list, e) THEN list ELSE Append(list, e)

\* _collect_episode_entities(): the first occurrence of each entity.
KeyEntities(episodes) ==
  FoldLeft(LAMBDA list, ep : FoldLeft(AddNew, list, ep.entities), <<>>, episodes)
=============================================================================

-------------------------------- MODULE Fusion --------------------------------
(***************************************************************************)
(* Ranking: weighted reciprocal rank fusion, signal boost, the fallback    *)
(* without a fuser, and maximal marginal relevance (retrieval/fusion.py,   *)
(* retrieval/reranker.py).  Hits are records [id, score], lists of hits    *)
(* are in rank order.  Scores are integers, in a unit so small that the    *)
(* contributions of all ranks are whole.                                   *)
(***************************************************************************)
EXTENDS Integers, SequencesExt

CONSTANTS
  Mems,        \* memory ids
  One,         \* 1.0 in the unit of scores
  Weight,      \* weights of the channels, in hundredths
  RrfK,        \* k of reciprocal rank fusion
  Lambda,      \* mmr_lambda, in tenths
  Similarity,  \* cosine similarity of two memories, in tenths; 0 without embeddings
  Factor       \* time decay x (1 + importance), in tenths

Channels == {"bm25", "vector", "entity", "graph"}

\* The elements of a finite set in an order: the i-th has i - 1 before it.
InOrder(S, before) ==
  [i \in 1..Cardinality(S) |->
     CHOOSE x \in S : Cardinality({y \in S : <<y, x>> \in before}) = i - 1]

Ids(hits) == {hits[i].id : i \in 1..Len(hits)}
Position(hits, m) == SelectInSeq(hits, LAMBDA h : h.id = m)

\* The memories of a list by score, the highest first, equal ones in the order of
\* their first places: a stable sort.
Ranking(hits, score) ==
  LET Before(m, n) == \/ score[m] > score[n]
                      \/ score[m] = score[n] /\ Position(hits, m) < Position(hits, n)
      order == InOrder(Ids(hits), {p \in Ids(hits) \X Ids(hits) : Before(p[1], p[2])})
  IN [i \in 1..Len(order) |-> [id |-> order[i], score |-> score[order[i]]]]

\* The hits of some channels, one list after the other, in the order in which the
\* builders add the channels.
Joined(counted, outputs) ==
  LET Of(c) == IF c \in counted THEN outputs[c] ELSE <<>>
  IN Of("bm25") \o Of("vector") \o Of("entity") \o Of("graph")

-----------------------------------------------------------------------------
(* Fusion *)

\* Mutant: the contribution grows with the rank.
LaterIsBetter(w, rank) == (w * 10 * (RrfK + rank))
\* rank counts from one here.
Contribution(w, rank) == (w * One) \div (100 * (RrfK + rank))

\* fuse() of what these channels answered.  A channel without a positive weight
\* does not count.
Fuse(answered, outputs) ==
  LET counted == {c \in answered : Weight[c] > 0}
      Part(c, m) == IF c \in counted /\ m \in Ids(outputs[c])
                    THEN Contribution(Weight[c], Position(outputs[c], m)) ELSE 0
      all == Joined(counted, outputs)
  IN Ranking(all, [m \in Ids(all) |->
                     Part("bm25", m) + Part("vector", m) + Part("entity", m) + Part("graph", m)])

\* _flat_concat(), without a fuser: the best score of each memory.
FlatConcat(answered, outputs) ==
  LET all == Joined(answered, outputs)
      Best(m) == Max({h.score : h \in {x \in ToSet(all) : x.id = m}})
  IN Ranking(all, [m \in Ids(all) |-> Best(m)])

\* apply_signal_boost(), with the memories whose signals are known.
Boost(hits, known) ==
  LET Boosted(m) == (hits[Position(hits, m)].score * (IF m \in known THEN Factor[m] ELSE 10)) \div 10
  IN Ranking(hits, [m \in Ids(hits) |-> Boosted(m)])

-----------------------------------------------------------------------------
(* Maximal marginal relevance *)

\* Mutant: the similarity to the last choice only.
LastOnly(old, new) == new
\* The running maximum of a candidate's similarity to what was chosen; from zero.
Closer(old, new) == IF new > old THEN new ELSE old

Marginal(hit, sim) == Lambda * hit.score - (10 - Lambda) * sim * (One \div 10)

\* One more choice, by the running maxima.  Among equals the first candidate wins.
Choose(hits, last) ==
  LET left == DOMAIN hits \ ToSet(last.chosen)
      Value(i) == Marginal(hits[i], last.sim[i])
      best == Min({i \in left : \A j \in left : Value(j) <= Value(i)})
  IN [chosen |-> Append(last.chosen, best),
      sim |-> [i \in DOMAIN hits |->
                 Closer(last.sim[i], Similarity[hits[i].id][hits[best].id])]]

\* mmr_rerank(): the matrix version.
Rerank(hits, k) ==
  LET n == Min({k, Len(hits)})
      Round[r \in 0..n] ==
        IF r = 0 THEN [chosen |-> <<>>, sim |-> [i \in DOMAIN hits |-> 0]]
        ELSE Choose(hits, Round[r - 1])
      chosen == Round[n].chosen
  IN IF n = 1 THEN <<hits[1]>> ELSE [r \in 1..n |-> hits[chosen[r]]]

\* The same choice without numpy, each similarity taken anew over all chosen hits.
BaseChoose(last) ==
  LET Sim(m) == Max({0} \cup {Similarity[m][h.id] : h \in ToSet(last.chosen)})
      Value(h) == Marginal(h, Sim(h.id))
      best == SelectInSeq(last.left, LAMBDA h : \A x \in ToSet(last.left) : Value(x) <= Value(h))
  IN [left |-> RemoveAt(last.left, best), chosen |-> Append(last.chosen, last.left[best])]

BaseRerank(hits, k) ==
  LET n == Min({k, Len(hits)})
      Round[r \in 0..n] ==
        IF r = 0 THEN [left |-> hits, chosen |-> <<>>] ELSE BaseChoose(Round[r - 1])
  IN Round[n].chosen
=============================================================================

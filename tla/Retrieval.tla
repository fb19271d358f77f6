------------------------------- MODULE Retrieval -------------------------------
(***************************************************************************)
(* A retrieval request (pipelines/retrieval.py, retrieval/orchestrator.py, *)
(* retrieval/channels): the enabled channels search their indexes at the   *)
(* same time, each under a timeout; what they return is fused, boosted,    *)
(* filtered, reranked and cut.  Meanwhile ingestion and the cold path go   *)
(* on adding memories, to MongoDB first and to the indexes one by one.     *)
(***************************************************************************)
EXTENDS Fusion

CONSTANTS
  Deployments,  \* [channels, ready, fuser, signals, threshold, reranker]
  Requests,     \* [enabled, top_k, over_fetch]; {}, 0: not given
  Early,        \* memories that are in every index from the start
  Queries,      \* relevance of each memory to the query, per channel; 0: no match
  ChannelFetch, \* over_fetch_factor of the bm25 and vector channels
  Lookup,       \* top_k_lookup of the entity channel, 200 by default
  OverFetch,    \* over_fetch_factor of the pipeline
  MaxFaults     \* bound on errors and timeouts

VARIABLES
  app,      \* what the builders assembled
  stored,   \* the memories in MongoDB
  indexed,  \* per channel, the memories its index knows
  query, request,
  stage,    \* where the pipeline is
  channel,  \* per channel: "off", "running", "ok", "failed"
  outputs,  \* hits of the channels that answered
  fused,    \* the merged list, boosted in place
  passed,   \* what the filter let through
  final,
  known,    \* history: what the indexes knew when the request came
  faults

stores == <<stored, indexed>>
req == <<query, request, known>>
vars == <<app, stores, req, stage, channel, outputs, fused, passed, final, faults>>

Init ==
  /\ app \in Deployments
  /\ stored = Early /\ indexed = [c \in Channels |-> IF c \in app.channels THEN Early ELSE {}]
  /\ query \in Queries /\ request \in Requests
  /\ known = indexed
  /\ stage = "idle"
  /\ channel = [c \in Channels |-> "off"] /\ outputs = [c \in Channels |-> <<>>]
  /\ fused = <<>> /\ passed = <<>> /\ final = <<>>
  /\ faults = 0

Fault == faults < MaxFaults /\ faults' = faults + 1

-----------------------------------------------------------------------------
(* Ingestion, seen from here; what it does after the recall concerns no request. *)

Commit(m) ==
  /\ stage \in {"idle", "recall"} /\ m \notin stored
  /\ stored' = stored \cup {m}
  /\ UNCHANGED <<app, indexed, req, stage, channel, outputs, fused, passed, final, faults>>

Index(m, c) ==
  /\ stage \in {"idle", "recall"}
  /\ m \in stored /\ c \in app.channels /\ m \notin indexed[c]
  /\ indexed' = [indexed EXCEPT ![c] = @ \cup {m}]
  /\ UNCHANGED <<app, stored, req, stage, channel, outputs, fused, passed, final, faults>>

-----------------------------------------------------------------------------
(* The request *)

Enabled == IF request.enabled = {} THEN app.channels ELSE app.channels \cap request.enabled
RecallK ==
  Max({1, request.top_k * IF request.over_fetch = 0 THEN OverFetch ELSE request.over_fetch})

\* What validates; the names of channels and the factor may be any.
RetrieveMemRequest == [enabled : SUBSET STRING, top_k : 1..100, over_fetch : Int]
Refuse ==
  /\ stage = "idle" /\ request \notin RetrieveMemRequest
  /\ stage' = "refused"
  /\ UNCHANGED <<app, stores, req, channel, outputs, fused, passed, final, faults>>

\* retrieve() up to the gather; without an enabled channel the answer is empty.
Retrieve ==
  /\ stage = "idle" /\ request \in RetrieveMemRequest
  /\ known' = indexed
  /\ channel' = [c \in Channels |-> IF c \in Enabled THEN "running" ELSE "off"]
  /\ stage' = IF Enabled = {} THEN "ranked" ELSE "recall"
  /\ UNCHANGED <<app, stores, query, request, outputs, fused, passed, final, faults>>

\* Mutant: the channels are asked for top_k hits instead of recall_k.
SmallLimit(c) == IF c \in {"bm25", "vector"} THEN 1 ELSE request.top_k
\* How many hits a channel returns: the search engines are asked for more, and
\* nothing cuts their answer; the graph fetches twice as many cells and cuts.
Limit(c) == IF c \in {"bm25", "vector"} THEN RecallK * ChannelFetch ELSE RecallK

\* The hits of a channel among what its search found, best first.  All hits of
\* the graph have the score 1.0, in the order of the traversals.
Hits(c, found) ==
  LET Score(m) == IF c = "graph" THEN One ELSE query[c][m] * One
      Ranked(p) == \A i, j \in DOMAIN p : i < j => Score(p[i]) >= Score(p[j])
  IN {[i \in 1..Min({Len(p), Limit(c)}) |-> [id |-> p[i], score |-> Score(p[i])]] :
        p \in {q \in SetToSeqs(found) : Ranked(q)}}

Matches(c) == {m \in indexed[c] : query[c][m] > 0}

\* get_by_ids(): entity and graph read the cells they found from MongoDB, by scope.
Fetched(found) == found \cap stored

\* find_by_entities() gives up after so many ids, in no particular order (without
\* MongoDB; with it, after so many entities, more than queries name here).
Found(c) ==
  IF c = "entity" /\ Cardinality(Matches(c)) > Lookup
  THEN {found \in SUBSET Matches(c) : Cardinality(found) = Lookup} ELSE {Matches(c)}

\* search(): the engine answers.
Answer(c) ==
  /\ stage = "recall" /\ channel[c] = "running" /\ c \in app.ready
  /\ \E found \in Found(c) : \E hits \in Hits(c, Fetched(found)) :
       outputs' = [outputs EXCEPT ![c] = hits]
  /\ channel' = [channel EXCEPT ![c] = "ok"]
  /\ UNCHANGED <<app, stores, req, stage, fused, passed, final, faults>>

\* One of the graph's traversals raises: its memories are missing, the others are not.
AnswerInPart ==
  /\ stage = "recall" /\ channel["graph"] = "running" /\ "graph" \in app.ready /\ Fault
  /\ \E found \in SUBSET Matches("graph") : \E hits \in Hits("graph", Fetched(found)) :
       outputs' = [outputs EXCEPT !["graph"] = hits]
  /\ channel' = [channel EXCEPT !["graph"] = "partial"]
  /\ UNCHANGED <<app, stores, req, stage, fused, passed, final>>

\* A channel without its client raises at once.
Unbound(c) ==
  /\ stage = "recall" /\ channel[c] = "running" /\ c \notin app.ready
  /\ channel' = [channel EXCEPT ![c] = "failed"]
  /\ UNCHANGED <<app, stores, req, stage, outputs, fused, passed, final, faults>>

\* Mutant: no timeout.
NoTimeout(c) == FALSE /\ UNCHANGED vars
\* The search raises, the embedding is empty, or the time is up; a channel may
\* never answer by itself.
Fail(c) ==
  /\ stage = "recall" /\ channel[c] = "running" /\ c \in app.ready
  /\ faults' = IF faults < MaxFaults THEN faults + 1 ELSE faults
  /\ channel' = [channel EXCEPT ![c] = "failed"]
  /\ UNCHANGED <<app, stores, req, stage, outputs, fused, passed, final>>

Answered == {c \in Channels : channel[c] \in {"ok", "partial"}}
Recalled == stage = "recall" /\ \A c \in Channels : channel[c] # "running"

\* FuseStage: all channels are done.  Without a fuser the lists are merged by score.
FuseAll ==
  /\ Recalled /\ Answered # {}
  /\ fused' = IF app.fuser THEN Fuse(Answered, outputs) ELSE FlatConcat(Answered, outputs)
  /\ stage' = "fused"
  /\ UNCHANGED <<app, stores, req, channel, outputs, passed, final, faults>>

\* SignalBoostStage: without a fuser there is no boost, and without signals, or
\* when their provider raises, no factor.
BoostAll ==
  /\ stage = "fused"
  /\ \/ fused' = (IF app.fuser THEN Boost(fused, IF app.signals THEN Mems ELSE {}) ELSE fused)
        /\ UNCHANGED faults
     \/ app.fuser /\ app.signals /\ Fault /\ fused' = Boost(fused, {})
  /\ stage' = "boosted"
  /\ UNCHANGED <<app, stores, req, channel, outputs, passed, final>>

\* ThresholdFilter.filter(): what passes, in its order.
Filtered(hits) ==
  LET passing == {i \in DOMAIN hits : hits[i].score >= app.threshold * (One \div 10)}
      places == InOrder(passing, {p \in passing \X passing : p[1] < p[2]})
  IN [k \in DOMAIN places |-> hits[places[k]]]

\* FilterStage: a filter that raises is skipped, and everything passes.
FilterAll ==
  /\ stage = "boosted"
  /\ \/ passed' = Filtered(fused) /\ UNCHANGED faults
     \/ Fault /\ passed' = fused
  /\ stage' = "filtered"
  /\ UNCHANGED <<app, stores, req, channel, outputs, fused, final>>

Cut(hits) == SubSeq(hits, 1, Min({Len(hits), request.top_k}))

\* RerankStage: without a reranker the first top_k.
RerankAll ==
  /\ stage = "filtered"
  /\ final' = IF app.reranker /\ passed # <<>> THEN Rerank(passed, request.top_k) ELSE Cut(passed)
  /\ stage' = "ranked"
  /\ UNCHANGED <<app, stores, req, channel, outputs, fused, passed, faults>>

\* Another reranker may raise: the error reaches the route.
RerankError ==
  /\ stage = "filtered" /\ app.reranker /\ passed # <<>> /\ Fault
  /\ stage' = "error"
  /\ UNCHANGED <<app, stores, req, channel, outputs, fused, passed, final>>

AllFailed ==
  /\ Recalled /\ Answered = {}
  /\ stage' = "error"
  /\ UNCHANGED <<app, stores, req, channel, outputs, fused, passed, final, faults>>

\* finalize() cuts and runs the hooks one by one; a hook that raises is passed over.
Respond ==
  /\ stage = "ranked"
  /\ final' = Cut(final)
  /\ stage' = "answered"
  /\ UNCHANGED <<app, stores, req, channel, outputs, fused, passed, faults>>

\* The route's status; what raised, all channels failing included, is a 500.
Status ==
  CASE stage = "refused" -> 422 [] stage = "error" -> 500 [] stage = "answered" -> 200
    [] OTHER -> 0

Next ==
  \/ \E m \in Mems : Commit(m) \/ \E c \in Channels : Index(m, c)
  \/ Refuse \/ Retrieve
  \/ \E c \in Channels : Answer(c) \/ Unbound(c) \/ Fail(c)
  \/ AnswerInPart
  \/ FuseAll \/ BoostAll \/ FilterAll \/ RerankAll \/ AllFailed \/ RerankError \/ Respond

\* The timeout of a channel fires; a missing client raises.
Fairness == \A c \in Channels : WF_vars(Unbound(c)) /\ WF_vars(Fail(c))

Spec == Init /\ [][Next]_vars /\ Fairness

-----------------------------------------------------------------------------
(* Properties *)

\* Types.
TypeOK ==
  /\ app \in Deployments /\ query \in Queries /\ request \in Requests
  /\ stored \subseteq Mems
  /\ indexed \in [Channels -> SUBSET Mems] /\ known \in [Channels -> SUBSET Mems]
  /\ stage \in {"idle", "refused", "recall", "fused", "boosted", "filtered", "ranked", "answered", "error"}
  /\ channel \in [Channels -> {"off", "running", "ok", "partial", "failed"}]
  /\ faults \in 0..MaxFaults

\* A memory that an answering channel knew when the request came is in the answer,
\* or the answer is full, or the memory was below the threshold: neither the
\* limits of the channels nor their order of arrival nor the failures of others
\* hide it.  A request may give a negative factor, or want more than the entities
\* are looked up for, and then they do.
NothingHidden ==
  Status = 200 /\ request.over_fetch >= 0 /\ request.top_k <= Lookup =>
    \A c \in {x \in Channels : channel[x] = "ok" /\ (app.fuser => Weight[x] > 0)} :
      \A m \in known[c] :
        \/ query[c][m] = 0
        \/ m \in Ids(final) \/ Len(final) = request.top_k
        \/ app.threshold > 0 /\ m \notin Ids(passed)

\* What every channel that lists it ranks behind another memory stays behind it,
\* with a fuser or without, unless the signals favour it.
UnanimityRespected ==
  stage = "ranked" =>
    LET lists == {outputs[c] : c \in {x \in Answered : app.fuser => Weight[x] > 0}}
    IN \A i, j \in 1..Len(passed) :
         LET a == passed[i].id  b == passed[j].id
         IN /\ i # j /\ Factor[a] >= Factor[b]
            /\ \A l \in lists : b \in Ids(l) => a \in Ids(l) /\ Position(l, a) < Position(l, b)
            => i < j

\* The answer: no memory twice, never more than top_k, and with a reranker the
\* matrix version with its incremental maxima chooses what the definition of
\* marginal relevance, the version without numpy, chooses.
GreedyDiversity ==
  Status = 200 =>
    /\ Len(final) <= request.top_k /\ Cardinality(Ids(final)) = Len(final)
    /\ app.reranker => final = BaseRerank(passed, request.top_k)

\* The gather ends even if the indexes never answer, and the stages after it do
\* not wait for anything.
RecallEnds == stage = "recall" ~> \A c \in Channels : channel[c] # "running"
=============================================================================

-------------------------- MODULE MCClientRequests --------------------------
(***************************************************************************)
(* What a client asks of the service, one of three at a time.  "front":    *)
(* two ingest requests on their way to the pipeline (IngestFront); one of  *)
(* up to four sessions, whose dates, lengths and missing dates meet every  *)
(* rule of the detectors, or two with every kind of key and body, under a  *)
(* limit of one per window.  "key": attempts with one idempotency key      *)
(* (IngestService).  "query": a retrieval over four memories (Retrieval).  *)
(***************************************************************************)
EXTENDS ClientRequests, SequencesExt

CONSTANTS r1, r2, t1, t2, u1, u2, secret, other

Turn(role, speaker, content) == [role |-> role, speaker |-> speaker, content |-> content]
Session(date, start, turns) == [id |-> "s", date |-> date, start |-> start, turns |-> turns]
Hi == Turn("user", 1, 1)
Sessions == {Session(0, None, <<Hi>>), Session(1, 0, <<Hi, Hi>>),
             Session(3, None, <<Turn("user", None, 0)>>), Session(None, 2, <<Hi>>),
             Session(None, None, <<>>)}
Body(form, tenant, user, sessions) ==
  [form |-> form, tenant |-> tenant, user |-> user, sessions |-> sessions]
Long == {Body("object", t1, u1, s) : s \in SeqOf(Sessions, 4)}
Short ==
  {Body("object", t, u, <<Session(1, None, <<Hi>>)>>) : t \in {t1, t2, None, Blank}, u \in {u1, u2, None, Blank}}
  \cup {Body("malformed", None, None, <<>>), Body("list", None, None, <<>>)}
  \cup {Body("extra", t1, u1, <<Session(1, None, <<Hi>>)>>)}
  \cup {Body("object", t1, u1, <<[Session(1, None, <<Turn(role, None, None)>>) EXCEPT !.id = id]>>)
           : role \in {"user", "robot"}, id \in {"s", None}}

Id(tenant, user) == [tenant |-> tenant, user |-> user]
Input(k, body) == [token |-> k, gateway |-> Id(t2, u2), body |-> body]
Usual == Input(secret, Body("object", t1, u1, <<Session(1, None, <<Hi>>), Session(3, None, <<Hi>>)>>))
\* One request cut in every way, and two that share a key or differ in it.
Cuts == {r1 :> Input(secret, body) @@ r2 :> Input(None, body) : body \in Long}
Pairs == {r1 :> Usual @@ r2 :> Input(k, body) : k \in {secret, other, None}, body \in Short}

Unbound == [k \in {secret, other, None} |-> Id(None, None)]
Plain ==
  [debug |-> FALSE, auth |-> TRUE, admin_key |-> "admin", api_key |-> secret, binding |-> TRUE,
   trust_gateway |-> TRUE, claims |-> Unbound, bindings |-> [Unbound EXCEPT ![secret] = Id(t1, u1)],
   limiter |-> "memory", detector |-> "rule_sbd", llm |-> TRUE]
Detecting ==
  {[Plain EXCEPT !.detector = d] : d \in {"rule_sbd", "hybrid_sbd", "llm_sbd", "noop_sbd"}}
  \cup {[Plain EXCEPT !.detector = d, !.llm = FALSE] : d \in {"hybrid_sbd", "llm_sbd"}}
Binding ==
  {Plain, [Plain EXCEPT !.bindings[secret] = Id(t1, None), !.limiter = "redis"],
        [Plain EXCEPT !.bindings = Unbound, !.limiter = "off"],
        [Plain EXCEPT !.bindings = Unbound, !.binding = FALSE],
        [Plain EXCEPT !.api_key = None],
        [Plain EXCEPT !.auth = FALSE], [Plain EXCEPT !.auth = FALSE, !.debug = TRUE]}
MCLaunches ==
  {[settings |-> s, input |-> i] : s \in Detecting, i \in Cuts}
  \cup {[settings |-> s, input |-> i] : s \in Binding, i \in Pairs}

MCRequests == {r1, r2}
MCParams ==
  [time_gap_min |-> 1, max_window_turns |-> None, max_window_size |-> 3, max_window_tokens |-> Garbage]
MCDefaults == [gap |-> 30, turns |-> 20, tokens |-> 2]

-----------------------------------------------------------------------------
CONSTANTS m1, m2, m3, m4

MCMemories == {m1, m2, m3, m4}
MCEarly == {m1, m2, m4}
\* With RrfK = 1 and lists of four hits, the ranks divide by two to five.
MCOne == 1000 * 2 * 3 * 4 * 5
\* m1 and m2 are near duplicates, m3 points the other way from m1, m4 is close to m2.
MCSimilarity == [m \in MCMemories |-> [n \in MCMemories |->
  IF m = n THEN 10
  ELSE IF {m, n} \in {{m1, m2}, {m2, m4}} THEN 9
  ELSE IF {m, n} = {m1, m3} THEN -4 ELSE 2]]
MCFactor == [m \in MCMemories |-> IF m = m3 THEN 20 ELSE IF m = m2 THEN 12 ELSE 8]
MCChannels == {"bm25", "vector", "entity", "graph"}
MCWeight == [x \in MCChannels |-> CASE x = "bm25" -> 40 [] x = "vector" -> 60
                                     [] x = "entity" -> 15 [] x = "graph" -> 0]

Deploy(channels, ready, fuser, signals, threshold, reranker) ==
  [channels |-> channels, ready |-> ready, fuser |-> fuser, signals |-> signals,
   threshold |-> threshold, reranker |-> reranker]
Pair == {"bm25", "vector"}
Most == {"vector", "entity", "graph"}
\* The default configuration, with and without its plugins; a client that is
\* missing; the channels of the cold path.
MCDeployments ==
  {Deploy(Pair, Pair, f, f, 0, f) : f \in BOOLEAN}
  \cup {Deploy(Pair, {"bm25"}, TRUE, FALSE, 2, TRUE), Deploy(Most, Most, TRUE, TRUE, 0, FALSE)}

Ask(enabled, top_k, over_fetch) ==
  [enabled |-> enabled, top_k |-> top_k, over_fetch |-> over_fetch]
MCAsked == {Ask({}, 1, 0), Ask({}, 2, 1), Ask({"vector", "graph"}, 3, 4), Ask({}, 0, 1),
            Ask({}, 2, -1)}

Relevance(bm25, vector, entity, graph) ==
  [x \in MCChannels |-> CASE x = "bm25" -> bm25 [] x = "vector" -> vector
                            [] x = "entity" -> entity [] x = "graph" -> graph]
Per(x, y, z, w) ==
  [m \in MCMemories |-> CASE m = m1 -> x [] m = m2 -> y [] m = m3 -> z [] m = m4 -> w]
\* Orders that agree, disagree, tie and miss a memory.
MCQueries == {Relevance(f, g, Per(2, 1, 1, 0), Per(1, 0, 1, 1)) :
                f \in {Per(1, 2, 3, 0), Per(2, 2, 1, 1), Per(1, 0, 2, 3)},
                g \in {Per(4, 2, 1, 3), Per(0, 1, 1, 2)}}

-----------------------------------------------------------------------------
\* The parts that are not looked at stay in one of their initial states.
MCInit ==
  /\ part \in {"front", "key", "query"}
  /\ IF part = "front" THEN TRUE ELSE settings = Plain
  /\ IF part = "query" THEN R!Init
     ELSE /\ app = CHOOSE d \in Deployments : TRUE
          /\ query = CHOOSE q \in Queries : TRUE
          /\ asked = CHOOSE r \in Asked : TRUE
  /\ ClientInit
  /\ part # "front" => /\ request[r1].input = Usual
                       /\ request[r2].input = Input(None, Body("malformed", None, None, <<>>))

\* In the initial states no action that fairness names is enabled.
MCSpec == MCInit /\ [][ClientNext]_<<part, vars, front, search>> /\ Fairness /\ R!Fairness

-----------------------------------------------------------------------------
\* Retrieval: the gather of the channels ends.
RecallEnds == R!RecallEnds
=============================================================================

---------------------------- MODULE ClientRequests ----------------------------
(***************************************************************************)
(* The service as its clients meet it: ingest requests on their way to the *)
(* pipeline (IngestFront), attempts with one idempotency key               *)
(* (IngestService), or a query (Retrieval); part says which of the three   *)
(* moves.                                                                  *)
(***************************************************************************)
EXTENDS IngestService, Sequences

\* Of IngestFront.
CONSTANTS
  None, Blank, Garbage, Infinite, Failed, Requests, Launches, Rpm, Window, MaxNow,
  Params, Defaults, RefineThreshold, PromptTurns

\* Of Retrieval.
CONSTANTS
  Memories, One, Weight, RrfK, Lambda, Similarity, Factor, Deployments, Asked, Early,
  Queries, ChannelFetch, Lookup, OverFetch, MaxLosses

VARIABLES part, settings, now, request, hits, cells
VARIABLES app, memories, indexed, query, asked, stage, channel, outputs, fused, passed, final,
          knew, losses

Door == INSTANCE IngestFront
front == <<settings, now, request, hits, cells>>

R == INSTANCE Retrieval WITH
       Mems <- Memories, Requests <- Asked, MaxFaults <- MaxLosses,
       stored <- memories, request <- asked, known <- knew, faults <- losses
search == <<app, memories, indexed, query, asked, stage, channel, outputs, fused, passed, final,
            knew, losses>>

\* Importance and decay are not negative, mmr_lambda is cut to 0..1, and so are the
\* factors that multiply a limit and top_k_lookup to 1 and above; relevances are 0
\* for no match.
ASSUME SearchAssumption ==
  /\ IsFiniteSet(Memories) /\ Early \subseteq Memories
  /\ One \in Nat \ {0} /\ RrfK \in Nat /\ Lambda \in 0..10
  /\ Weight \in [R!Channels -> Int] /\ Factor \in [Memories -> Nat]
  /\ Similarity \in [Memories -> [Memories -> Int]]
  /\ Deployments \subseteq
       [channels : SUBSET R!Channels, ready : SUBSET R!Channels, fuser : BOOLEAN,
        signals : BOOLEAN, threshold : Nat, reranker : BOOLEAN]
  /\ Queries \subseteq [R!Channels -> [Memories -> Nat]]
  /\ ChannelFetch \in Nat \ {0} /\ OverFetch \in Nat \ {0} /\ Lookup \in Nat \ {0}

\* What the schemas of plugins and requests let through: windows are not empty, a
\* length is no negative number, and a detector is one of four.
HistorySession ==
  [id : STRING \cup {None}, date : Int \cup {None}, start : Int \cup {None},
   turns : Seq([role : STRING, speaker : Nat \cup {None}, content : Nat \cup {None}])]
ASSUME IngestAssumption ==
  /\ Params \in [time_gap_min : Int \cup {None, Garbage}, max_window_tokens : Int \cup {None, Garbage},
                 max_window_turns : (Nat \ {0}) \cup {None, Garbage},
                 max_window_size : (Nat \ {0}) \cup {None, Garbage}]
  /\ Defaults \in [gap : Int, turns : Nat \ {0}, tokens : Int]
  /\ PromptTurns \in Nat \ {0}
  /\ \A launch \in Launches :
       /\ launch.settings.detector \in {"rule_sbd", "hybrid_sbd", "llm_sbd", "noop_sbd"}
       /\ \A r \in Requests : launch.input[r].body.sessions \in Seq(HistorySession)

ClientInit == part \in {"front", "key", "query"} /\ Init /\ R!Init /\ Door!Init
ClientNext ==
  \/ part = "front" /\ Door!Next /\ UNCHANGED <<part, vars, search>>
  \/ part = "key" /\ Next /\ UNCHANGED <<part, front, search>>
  \/ part = "query" /\ R!Next /\ UNCHANGED <<part, vars, front>>
ClientSpec == ClientInit /\ [][ClientNext]_<<part, vars, front, search>>

\* IngestFront: the cells of a request are its sessions, cut where the rules cut.
CellsPartition == Door!CellsPartition
\* IngestFront: a request is served as the tenant and user it was bound to.
ServedAsBound == Door!ServedAsBound
\* Retrieval: no memory is lost on the way to the answer.
NothingHidden == R!NothingHidden
\* Retrieval: fusion and boost keep what the channels agree on.
UnanimityRespected == R!UnanimityRespected
\* Retrieval: the incremental reranker chooses what marginal relevance defines.
GreedyDiversity == R!GreedyDiversity
=============================================================================

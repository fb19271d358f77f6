------------------------------ MODULE Assembly ------------------------------
(***************************************************************************)
(* AppState (deps/state.py): a process starts its configuration centre,    *)
(* its plugin factory, its clients, and then six builders, each of which   *)
(* asks the factory for plugins and keeps them in the services it makes.   *)
(* A builder that cannot get what it needs leaves the process degraded.    *)
(* The configuration may change at any time: the factory then stops the    *)
(* plugin and forgets it.  Closing goes through the parts one by one.      *)
(***************************************************************************)
EXTENDS Integers, Sequences, SequencesExt

CONSTANTS
  MaxFaults,   \* bound on plugins and clients that are missing or raise
  MaxChanges   \* bound on configuration changes

Clients == {"mongo", "es", "redis", "milvus"}

\* What each builder asks for, in its order: plugins from the factory, and
\* objects of its own (indexes, the dead letter queue, the task runner).
Steps == [
  ingest        |-> <<"sbd", "repo", "es_index", "dlq">>,
  cold          |-> <<"llm", "episode", "semantic", "clusterer", "dlq", "runner">>,
  retrieval     |-> <<"fuser", "reranker", "filter", "embedding", "bm25", "vector">>,
  feedback      |-> <<"reinforcer", "repo", "scorer">>,
  consolidation |-> <<"consolidator", "embedding", "strategy", "capacity", "llm", "scorer">>,
  graph         |-> <<"extractor", "graph_store", "entity", "traversal">>]

Objects == {"repo", "es_index", "dlq", "runner"}
Plugins == (UNION {ToSet(Steps[b]) : b \in DOMAIN Steps}) \ Objects

\* LookupError ends these builders, other errors end them all but for Tolerant.
Required == [
  ingest        |-> {"sbd", "repo", "es_index", "dlq"},
  cold          |-> {"llm", "episode", "semantic", "clusterer", "dlq", "runner"},
  retrieval     |-> {},
  feedback      |-> {"reinforcer", "repo"},
  consolidation |-> {"consolidator", "strategy"},
  graph         |-> {}]
Tolerant == [b \in DOMAIN Steps |->
  CASE b = "retrieval" -> {"embedding"}
    [] b = "feedback" -> {"scorer"}
    [] b = "graph" -> ToSet(Steps["graph"])
    [] OTHER -> {}]

\* Mutant: the cold path is built before the service it is attached to.
ColdFirst == <<"cold", "ingest", "retrieval", "feedback", "consolidation", "graph">>
Builders == <<"ingest", "cold", "retrieval", "feedback", "consolidation", "graph">>

VARIABLES
  backend,   \* settings.config_center_backend
  phase,     \* "config", "clients", "build", "serving", "closing", "closed", "failed"
  at,        \* <<n, m>>: the n-th client, or step m of the n-th builder
  got,       \* <<plugin, version>>: what the builder has so far
  version,   \* configuration version of each plugin's category
  cached,    \* plugins the factory holds a running instance of
  fields,    \* fields of AppState that are not None
  held,      \* <<service, plugin, version>>: the plugins inside the services
  links,     \* <<service, part>>: what was attached to a service later
  made,      \* dead letter queues created
  queueOf,   \* the queue inside the ingest pipeline and inside the runner
  open,      \* parts and clients that run
  stuck,     \* parts that raised when they were closed
  faults, changes

queues == <<made, queueOf>>
config == <<backend, version, changes>>
vars == <<config, phase, at, got, cached, fields, held, links, queues, open, stuck, faults>>

Init ==
  /\ backend \in {"file", "mongo"}
  /\ phase = "config"
  /\ at = <<1, 1>> /\ got = {}
  /\ version = [p \in Plugins |-> 0] /\ cached = {}
  /\ fields = {} /\ held = {} /\ links = {}
  /\ made = 0 /\ queueOf = [ingest |-> 0, runner |-> 0]
  /\ open = {} /\ stuck = {}
  /\ faults = 0 /\ changes = 0

Fault == faults < MaxFaults /\ faults' = faults + 1

-----------------------------------------------------------------------------
(* init(): configuration centre and clients *)

\* The Mongo centre needs a client first: without one its constructor raises,
\* init() raises and the process does not start.
OpenConfigCenter ==
  /\ phase = "config"
  /\ \/ phase' = "clients" /\ UNCHANGED faults
        /\ fields' = {"config", "factory"} \cup (IF backend = "mongo" THEN {"mongo"} ELSE {})
        /\ open' = fields'
     \/ Fault /\ phase' = "failed" /\ UNCHANGED <<fields, open>>
  /\ UNCHANGED <<config, at, got, cached, held, links, queues, stuck>>

ClientOrder == <<"mongo", "es", "redis", "milvus">>

\* init_mongo() ... init_milvus(): a client that is there stays, one that cannot
\* be made is missing for the life of the process.
OpenClient ==
  /\ phase = "clients"
  /\ LET c == ClientOrder[at[1]] IN
       \/ fields' = fields \cup {c} /\ open' = open \cup {c} /\ UNCHANGED faults
       \/ c \notin fields /\ Fault /\ UNCHANGED <<fields, open>>
  /\ IF at[1] < Len(ClientOrder)
     THEN at' = <<at[1] + 1, 1>> /\ UNCHANGED phase
     ELSE at' = <<1, 1>> /\ phase' = "build"
  /\ UNCHANGED <<config, got, cached, held, links, queues, stuck>>

-----------------------------------------------------------------------------
(* init(): the builders *)

Current == Builders[at[1]]
Asked == Steps[Current][at[2]]
Building == phase = "build" /\ at[1] <= Len(Builders)
More == at[2] <= Len(Steps[Current])

Requires(b) == IF b \in {"ingest", "feedback", "consolidation"} THEN {"mongo"} ELSE {}
CanBuild(b) == Requires(b) \subseteq fields

\* What the builder already finds in the state, or has no use for.
NotNeeded(b, s) ==
  \/ s = "es_index" /\ "es" \notin fields
  \/ s \in {"dlq", "runner", "repo"} /\ s \in fields
  \/ b = "consolidation" /\ s = "scorer" /\ s \in fields
  \/ b = "graph" /\ s \in {"entity", "traversal"} /\ "retrieval" \notin fields

NextBuilder == at' = <<at[1] + 1, 1>> /\ got' = {}
NextStep == at' = <<at[1], at[2] + 1>>

Skip ==
  /\ Building
  /\ \/ ~CanBuild(Current) /\ NextBuilder
     \/ CanBuild(Current) /\ More /\ NotNeeded(Current, Asked) /\ NextStep /\ UNCHANGED got
  /\ UNCHANGED <<config, phase, cached, fields, held, links, queues, open, stuck, faults>>

\* PluginFactory.build(): the cached instance, or a new one of the version the
\* configuration has now.
GetPlugin ==
  /\ Building /\ CanBuild(Current) /\ More
  /\ Asked \in Plugins /\ ~NotNeeded(Current, Asked)
  /\ cached' = cached \cup {Asked}
  /\ got' = got \cup {<<Asked, version[Asked]>>}
  /\ NextStep
  /\ UNCHANGED <<config, phase, fields, held, links, queues, open, stuck, faults>>

\* ensure_indexes() of the repository.  The ingest builder puts its repository
\* into the state only at its end.
SharedRepo == fields' = fields \cup ({Asked} \ (IF Current = "ingest" THEN {"repo", "es_index"} ELSE {}))

\* create_dlq(), whatever the backend.
CreateDLQ == made' = IF Asked = "dlq" THEN made + 1 ELSE made

\* create_task_runner() gives the runner the queue of the state.
CreateTaskRunner ==
  IF Asked = "runner"
  THEN queueOf' = [queueOf EXCEPT !.runner = made] /\ open' = open \cup {"runner"}
  ELSE UNCHANGED <<queueOf, open>>

MakeObject ==
  /\ Building /\ CanBuild(Current) /\ More
  /\ Asked \in Objects /\ ~NotNeeded(Current, Asked)
  /\ SharedRepo /\ CreateDLQ /\ CreateTaskRunner
  /\ NextStep
  /\ UNCHANGED <<config, phase, got, cached, held, links, stuck, faults>>

\* Not configured, or its start() or the call raises; a cached plugin does
\* neither.  The builder goes on without it or ends, and the next one follows.
Unavailable ==
  /\ Building /\ CanBuild(Current) /\ More
  /\ ~NotNeeded(Current, Asked) /\ Asked \notin cached
  /\ Fault
  /\ \/ Asked \notin Tolerant[Current] \ Required[Current] /\ NextBuilder
     \/ Asked \notin Required[Current] /\ NextStep /\ UNCHANGED got
  /\ UNCHANGED <<config, phase, cached, fields, held, links, queues, open, stuck>>

Names == {g[1] : g \in got}
Kept(service, ps) == {<<service, g[1], g[2]>> : g \in {h \in got : h[1] \in ps}}

\* IngestService with its pipeline.
FinishIngest ==
  /\ fields' = fields \cup {"repo", "ingest"}
  /\ held' = held \cup Kept("ingest", {"sbd"})
  /\ queueOf' = [queueOf EXCEPT !.ingest = made]
  /\ UNCHANGED links

\* ColdPathService; the LLM is bound to the extractors, and the ingest service,
\* when there is one, hands its cells over.
FinishCold ==
  /\ fields' = fields \cup {"cold"}
  /\ held' = held \cup Kept("cold", Names)
  /\ links' = links \cup (IF "ingest" \in fields THEN {<<"ingest", "cold">>} ELSE {})
  /\ UNCHANGED queueOf

\* RetrievalOrchestrator, unless neither of its channels could be built.
FinishRetrieval ==
  IF Names \cap {"bm25", "vector"} = {}
  THEN UNCHANGED <<fields, held, links, queueOf>>
  ELSE /\ fields' = fields \cup {"retrieval"}
       /\ held' = held \cup Kept("retrieval", Names)
       /\ UNCHANGED <<links, queueOf>>

\* FeedbackService and LifecycleUpdater; retrievals report their hits to the
\* updater only when there is a runner.
FinishFeedback ==
  /\ fields' = fields \cup {"feedback", "updater"} \cup (Names \cap {"scorer"})
  /\ held' = held \cup Kept("feedback", Names)
  /\ links' = links \cup (IF {"retrieval", "runner"} \subseteq fields
                          THEN {<<"retrieval", "updater">>} ELSE {})
  /\ UNCHANGED queueOf

\* ConsolidationService over a strategy; sleep needs the LLM, decay a scorer.
FinishConsolidation ==
  /\ fields' = fields \cup {"consolidation", "consolidator"} \cup (Names \cap {"scorer", "capacity"})
  /\ held' = held \cup Kept("consolidation", Names)
  /\ UNCHANGED <<links, queueOf>>

\* Entity store, memory graph, their channels and the cold path's last stage.
FinishGraph ==
  /\ fields' = fields \cup {"entities"} \cup (IF "mongo" \in fields THEN {"repo"} ELSE {})
                      \cup (IF "graph_store" \in Names THEN {"graph"} ELSE {})
  /\ held' = held \cup Kept("graph", {"extractor", "graph_store"})
                  \cup Kept("retrieval", Names \cap {"entity", "traversal"})
  /\ links' = links \cup ({"retrieval"} \X (Names \cap {"entity", "traversal"}))
                    \cup (IF "cold" \in fields THEN {<<"cold", "entities">>} ELSE {})
  /\ UNCHANGED queueOf

Finish ==
  /\ Building /\ CanBuild(Current) /\ ~More
  /\ CASE Current = "ingest" -> FinishIngest
       [] Current = "cold" -> FinishCold
       [] Current = "retrieval" -> FinishRetrieval
       [] Current = "feedback" -> FinishFeedback
       [] Current = "consolidation" -> FinishConsolidation
       [] Current = "graph" -> FinishGraph
  /\ NextBuilder
  /\ UNCHANGED <<config, phase, cached, made, open, stuck, faults>>

\* init() returns, whatever is missing.
Serve ==
  /\ phase = "build" /\ at[1] > Len(Builders)
  /\ phase' = "serving"
  /\ open' = open \cup {"loop"}
  /\ UNCHANGED <<config, at, got, cached, fields, held, links, queues, stuck, faults>>

\* GET /health/ready: the centre and the core services must be there; clients
\* that are missing or do not answer a ping only degrade the process, unless
\* settings.strict_readiness says otherwise.
Readiness(down, strict) ==
  IF ~({"config", "ingest", "retrieval"} \subseteq fields) THEN "fail"
  ELSE IF Clients \subseteq fields \ down THEN "ok"
  ELSE IF strict THEN "fail" ELSE "degraded"

-----------------------------------------------------------------------------
\* A write to the centre, an edit of the file or an admin's reload: the factory's
\* watcher stops and drops what it holds of the category.  Nobody builds again.
Change(p) ==
  /\ phase \in {"build", "serving"} /\ changes < MaxChanges
  /\ changes' = changes + 1
  /\ version' = [version EXCEPT ![p] = @ + 1]
  /\ cached' = cached \ {p}
  /\ UNCHANGED <<backend, phase, at, got, fields, held, links, queues, open, stuck, faults>>

-----------------------------------------------------------------------------
(* lifespan() after its yield, and close() *)

CloseOrder == <<"loop", "runner", "factory", "config", "mongo", "es", "redis", "milvus">>

Stop ==
  /\ phase = "serving"
  /\ phase' = "closing" /\ at' = <<1, 1>>
  /\ UNCHANGED <<config, got, cached, fields, held, links, queues, open, stuck, faults>>

\* Mutant: what raises ends close().
CloseStops ==
  /\ phase = "closing"
  /\ LET c == CloseOrder[at[1]] IN
       \/ /\ open' = open \ {c}
          /\ cached' = IF c = "factory" THEN {} ELSE cached
          /\ at' = <<at[1] + 1, 1>>
          /\ phase' = IF at[1] = Len(CloseOrder) THEN "closed" ELSE phase
          /\ UNCHANGED <<stuck, faults>>
       \/ /\ c \in open \ {"loop"} /\ Fault
          /\ stuck' = stuck \cup {c}
          /\ phase' = "closed"
          /\ UNCHANGED <<open, cached, at>>
  /\ UNCHANGED <<config, got, fields, held, links, queues>>

\* Each part is closed if it was opened, and the next one follows whether or not
\* that raises.
ClosePart ==
  /\ phase = "closing"
  /\ LET c == CloseOrder[at[1]] IN
       \/ /\ open' = open \ {c}
          /\ cached' = IF c = "factory" THEN {} ELSE cached
          /\ UNCHANGED <<stuck, faults>>
       \/ /\ c \in open \ {"loop"} /\ Fault
          /\ stuck' = stuck \cup {c}
          /\ UNCHANGED <<open, cached>>
  /\ at' = <<at[1] + 1, 1>>
  /\ phase' = IF at[1] = Len(CloseOrder) THEN "closed" ELSE phase
  /\ UNCHANGED <<config, got, fields, held, links, queues>>

Next ==
  \/ OpenConfigCenter \/ OpenClient
  \/ Skip \/ GetPlugin \/ MakeObject \/ Unavailable \/ Finish \/ Serve
  \/ \E p \in cached : Change(p)
  \/ Stop \/ ClosePart

Spec == Init /\ [][Next]_vars

-----------------------------------------------------------------------------
(* Properties *)

\* What the runner gives up on and what the ingest pipeline could not index goes
\* to one queue, the one the reconciler reads.
OneQueue == \A part \in {"ingest", "runner"} : queueOf[part] \in {0, made}

\* Services that were both built find each other, however many others are
\* missing: the ingest service hands cells to the cold path, the cold path lists
\* them under their entities, retrievals report their hits, and failures of all
\* kinds end in one queue.  A process that calls itself ready, if only degraded,
\* has what its core services work with.
PartsAreWired ==
  phase = "serving" =>
    /\ {"ingest", "cold"} \subseteq fields => <<"ingest", "cold">> \in links
    /\ {"cold", "entities"} \subseteq fields => <<"cold", "entities">> \in links
    /\ {"retrieval", "updater", "runner"} \subseteq fields => <<"retrieval", "updater">> \in links
    /\ OneQueue
    /\ Readiness({}, FALSE) # "fail" =>
         /\ {"mongo", "repo"} \subseteq fields /\ queueOf.ingest # 0
         /\ \E h \in held : h[1] = "ingest" /\ h[2] = "sbd"
         /\ \E h \in held : h[1] = "retrieval" /\ h[2] \in {"bm25", "vector"}

\* Closing leaves no worker behind that could use a closed client or plugin: the
\* reconcile loop, the tasks and the plugins end before the clients do, and all
\* are closed in the end, but for those that raised.
ClosedBehindWorkers ==
  /\ \A worker \in {"loop", "runner", "factory"} :
       worker \in open \ stuck => fields \cap Clients \subseteq open
  /\ phase = "closed" => open \subseteq stuck

\* default.yaml's changes take effect while the process runs: once the factory
\* has stopped a plugin, no service works with it.
ChangesTakeEffect ==
  phase = "serving" => \A h \in held : h[3] = version[h[2]]
=============================================================================

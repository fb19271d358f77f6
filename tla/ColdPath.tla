------------------------------- MODULE ColdPath -------------------------------
(***************************************************************************)
(* The cold path: every ingested cell gets a background task that extracts *)
(* episodes with an LLM, derives semantic memories, puts the cell in a     *)
(* scene, and lists it under its entities, first in the entity store       *)
(* (MongoDB, shared by all processes), then in the memory graph (this      *)
(* process only).  Tasks interleave at their awaits.  Writing to the graph *)
(* has no await inside, but traversals run in threads and see the graph    *)
(* between any two of its calls.                                           *)
(***************************************************************************)
EXTENDS GraphIndex, SceneClusterer, Extraction, TextEntities, FiniteSets

CONSTANTS
  Answers,      \* what the LLM may answer about a cell
  Texts,        \* what the text of a cell may hold
  MaxAttempts,  \* max_attempts of the retry policy
  Reruns,       \* cells for which run_now() may be called once more
  MaxFaults     \* bound on errors, cancellations and crashes

\* What the extractors may find: key entities of all episodes, the empty text
\* included, and entities of a text.
EpisodeLists == {KeyEntities(Episodes(hasText, answer)) : hasText \in BOOLEAN, answer \in Answers}
TextLists == {TextEntities(text) : text \in Texts}
EntityLists == EpisodeLists \cup TextLists

ASSUME ColdAssumption ==
  /\ EntityLists \subseteq Seq(Entities) /\ <<>> \in EntityLists
  /\ Cells \subseteq DOMAIN Time
  /\ MaxAttempts \in Nat \ {0} /\ MaxFaults \in Nat /\ Reruns \subseteq Cells

VARIABLES
  stage,    \* where each cell's task is
  tries,    \* attempts of the task so far
  found,    \* entities collected for the cell
  index,    \* entity store: the cells listed under an entity
  graph,    \* the graph of this process
  todo,     \* calls left of the add_memory_node() that holds the event loop
  scenes,   \* the clusterer's scenes, oldest first
  missed,   \* <<cell, entity>>: both the bulk and the single update failed
  reran,    \* cells whose task was run again
  faults

store == <<index, missed>>
vars == <<stage, tries, found, store, graph, todo, scenes, reran, faults>>

Init ==
  /\ stage = [c \in Cells |-> "new"]
  /\ tries = [c \in Cells |-> 0]
  /\ found = [c \in Cells |-> <<>>]
  /\ index = [e \in Entities |-> {}] /\ missed = {}
  /\ graph = EmptyGraph /\ todo = <<>>
  /\ scenes = <<>>
  /\ reran = {}
  /\ faults = 0

Fault(n) == faults + n <= MaxFaults /\ faults' = faults + n
Goto(c, s) == stage' = [stage EXCEPT ![c] = s]
\* The event loop runs a coroutine only while no other one has it.
Resume(c, s) == stage[c] = s /\ todo = <<>>

-----------------------------------------------------------------------------
(* ColdPathService *)

\* schedule(): the task is submitted under the cell's id.
Schedule(c) ==
  /\ Resume(c, "new")
  /\ Goto(c, "extract")
  /\ tries' = [tries EXCEPT ![c] = 1]
  /\ UNCHANGED <<found, store, graph, todo, scenes, reran, faults>>

\* run_now() on a cell that was processed before; an error reaches the caller.
RunNow(c) ==
  /\ Resume(c, "done") /\ c \in Reruns \ reran
  /\ Goto(c, "extract")
  /\ reran' = reran \cup {c}
  /\ tries' = [tries EXCEPT ![c] = MaxAttempts]
  /\ found' = [found EXCEPT ![c] = <<>>]
  /\ UNCHANGED <<store, graph, todo, scenes, faults>>

-----------------------------------------------------------------------------
(* The stages *)

\* The semantic memories derived after the episodes stay in the task's context and
\* their failures are warnings, so both stages are one step.
Extract(c) ==
  /\ Resume(c, "extract")
  /\ \E list \in EpisodeLists : found' = [found EXCEPT ![c] = list]
  /\ Goto(c, "cluster")
  /\ UNCHANGED <<tries, store, graph, todo, scenes, reran, faults>>

\* The only stage whose error leaves the pipeline: the task is tried again
\* from the start, and parked in the dead letter queue when it is exhausted.
ExtractError(c) ==
  /\ Resume(c, "extract") /\ Fault(1)
  /\ IF tries[c] < MaxAttempts
     THEN tries' = [tries EXCEPT ![c] = @ + 1] /\ UNCHANGED stage
     ELSE Goto(c, "parked") /\ UNCHANGED tries
  /\ UNCHANGED <<found, store, graph, todo, scenes, reran>>

\* EntityIndexStage: without entities from the episodes the text is searched for
\* some; an extractor that fails finds none.
CollectEntities(c) ==
  IF found[c] # <<>>
  THEN Goto(c, "store") /\ UNCHANGED found
  ELSE \E list \in TextLists \cup {<<>>} :
         /\ found' = [found EXCEPT ![c] = list]
         /\ Goto(c, IF list = <<>> THEN "done" ELSE "store")

\* cluster() holds the group's lock over no await, and the default extractor of
\* the next stage does not suspend either: the step ends at the entity store.
Cluster(c) ==
  /\ Resume(c, "cluster")
  /\ scenes' \in Assign(scenes, c)
  /\ CollectEntities(c)
  /\ UNCHANGED <<tries, store, graph, todo, reran, faults>>

\* Another clusterer may fail: a warning.
ClusterError(c) ==
  /\ Resume(c, "cluster") /\ Fault(1)
  /\ CollectEntities(c)
  /\ UNCHANGED <<tries, store, graph, todo, scenes, reran>>

\* find_by_entities(): what the entity channel finds.
FindByEntities(ents) == UNION {index[e] : e \in ents}

ListUnder(c, ents) ==
  index' = [e \in Entities |-> IF e \in ents THEN index[e] \cup {c} ELSE index[e]]

\* upsert_entities(): one unordered bulk write.
StoreEntities(c) ==
  /\ Resume(c, "store")
  /\ ListUnder(c, ToSet(found[c]))
  /\ missed' = missed \ ({c} \X ToSet(found[c]))
  /\ Goto(c, "graph")
  /\ UNCHANGED <<tries, found, graph, todo, scenes, reran, faults>>

\* Mutant: a failed bulk write is only logged.
BulkGivesUp(c) ==
  /\ Resume(c, "store") /\ Fault(1)
  /\ \E ents \in SUBSET ToSet(found[c]) : ListUnder(c, ents)
  /\ Goto(c, "graph")
  /\ UNCHANGED <<tries, found, missed, graph, todo, scenes, reran>>

\* It raises after any part of it was applied; single updates follow.
BulkError(c) ==
  /\ Resume(c, "store") /\ Fault(1)
  /\ \E ents \in SUBSET ToSet(found[c]) : ListUnder(c, ents)
  /\ Goto(c, "fallback")
  /\ UNCHANGED <<tries, found, missed, graph, todo, scenes, reran>>

\* Each update that raises is logged; the stage goes on.
StoreEach(c) ==
  /\ Resume(c, "fallback")
  /\ \E failed \in SUBSET ToSet(found[c]) :
       /\ Fault(Cardinality(failed))
       /\ \E late \in SUBSET failed : ListUnder(c, (ToSet(found[c]) \ failed) \cup late)
       /\ missed' = (missed \ ({c} \X ToSet(found[c]))) \cup ({c} \X failed)
  /\ Goto(c, "graph")
  /\ UNCHANGED <<tries, found, graph, todo, scenes, reran>>

\* add_memory_node(), its calls one by one.
IndexGraph(c) ==
  /\ Resume(c, "graph")
  /\ todo' = CallsFor(c, found[c])
  /\ Goto(c, "done")
  /\ UNCHANGED <<tries, found, store, graph, scenes, reran, faults>>

GraphCall ==
  /\ todo # <<>>
  /\ graph' = Apply(graph, Head(todo))
  /\ todo' = Tail(todo)
  /\ UNCHANGED <<stage, tries, found, store, scenes, reran, faults>>

-----------------------------------------------------------------------------
(* Faults *)

Running == {c \in Cells : stage[c] \notin {"new", "done", "parked", "dropped"}}

\* shutdown() cancels a task at its await; no stage swallows the cancellation.
Cancel(c) ==
  /\ c \in Running /\ todo = <<>> /\ Fault(1)
  /\ Goto(c, "dropped")
  /\ UNCHANGED <<tries, found, store, graph, todo, scenes, reran>>

\* The process dies: tasks, graph and scenes are gone, the entity store stays.
Crash ==
  /\ Fault(1)
  /\ stage' = [c \in Cells |-> IF c \in Running THEN "dropped" ELSE stage[c]]
  /\ graph' = EmptyGraph /\ todo' = <<>> /\ scenes' = <<>>
  /\ UNCHANGED <<tries, found, store, reran>>

Next ==
  \/ \E c \in Cells :
       \/ Schedule(c) \/ RunNow(c)
       \/ Extract(c) \/ ExtractError(c)
       \/ Cluster(c) \/ ClusterError(c)
       \/ StoreEntities(c) \/ BulkError(c) \/ StoreEach(c) \/ IndexGraph(c)
       \/ Cancel(c)
  \/ GraphCall
  \/ Crash

Spec == Init /\ [][Next]_vars

-----------------------------------------------------------------------------
(* Properties *)

\* Types.
TypeOK ==
  /\ stage \in [Cells -> {"new", "extract", "cluster", "store",
                          "fallback", "graph", "done", "parked", "dropped"}]
  /\ tries \in [Cells -> 0..MaxAttempts]
  /\ found \in [Cells -> EntityLists]
  /\ index \in [Entities -> SUBSET Cells]
  /\ missed \subseteq Edges
  /\ reran \subseteq Reruns
  /\ faults \in 0..MaxFaults

\* find_related_memories(): one hop gives exactly the memories that mention the
\* entity and so does the default of two; only the third hop brings memories
\* that share another entity with one of these.  Five hops are three.
RelatedExact ==
  \A e \in Entities :
    LET near == Mentioning(graph, e)
        far == UNION {Mentioning(graph, f) : f \in {x \in Entities :
                                               near \cap Mentioning(graph, x) # {}}}
    IN Dangling(graph) = {} =>
       /\ Related(graph, e, 1) = near /\ Related(graph, e, 2) = near
       /\ Related(graph, e, 3) = far /\ Related(graph, e, 5) = far

\* At every moment a traversal may take its snapshot, evictions included, the
\* adjacency is the incidence of the edges, and what it finds is exact.  If no
\* cell has as many entities as the graph has room for nodes, no edge leads to a
\* node that is not there.
GraphConsistent ==
  /\ Consistent(graph)
  /\ (\A list \in EntityLists : Len(list) < MaxNodes) => Dangling(graph) = {}
  /\ RelatedExact

\* However tasks interleave, are cancelled or repeated: a cell is in one scene at
\* most, caps hold, and a scene is a chain of cells near in time, each to the next.
ScenesAreChains ==
  /\ Len(scenes) <= MaxScenes
  /\ \A i \in 1..Len(scenes) : Chain(scenes[i])
  /\ \A c \in Cells : Cardinality(Homes(scenes, c)) <= 1

\* The graph never knows more than the entity store: an edge stands for a listed
\* cell or a failed update.
GraphFollowsStore ==
  \A e \in Entities : \A c \in Mentioning(graph, e) :
    c \in FindByEntities({e}) \/ <<c, e>> \in missed

\* A finished cell is listed under each of its entities, but for the updates
\* that failed, and it takes two faults to lose one: the single updates make up
\* for a bulk write that failed in part.  The graph is not ahead of the store: a
\* memory it relates to an entity is found under it, too.
EntitiesListed ==
  /\ \A c \in Cells : stage[c] \in {"graph", "done"} =>
       \A e \in ToSet(found[c]) : c \in index[e] \/ <<c, e>> \in missed
  /\ missed # {} => faults >= 2
  /\ GraphFollowsStore
=============================================================================

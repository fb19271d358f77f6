---------------------------- MODULE SceneClusterer ----------------------------
(***************************************************************************)
(* Incremental clustering of one group (clustering.py, behind              *)
(* plugins_default/incremental_centroid.py): a cell joins the most similar *)
(* scene that has room and is near in time, or founds a scene; at most     *)
(* max_scenes_per_group scenes are kept, least recently used first out.    *)
(* `scenes` is in LRU order.  Which candidate is the most similar, and     *)
(* whether any is similar enough, is left open: that is data.              *)
(***************************************************************************)
EXTENDS Integers, Sequences, SequencesExt

CONSTANTS
  Time,          \* timestamp of each cell
  Embedded,      \* cells that have an embedding
  Gap,           \* time_gap_max
  MaxSceneSize,  \* max_scene_size
  MaxScenes      \* max_scenes_per_group

ASSUME ClusterAssumption ==
  /\ Time \in [DOMAIN Time -> Int]
  /\ Gap \in Nat /\ MaxSceneSize \in Nat \ {0} /\ MaxScenes \in Nat \ {0}

Distance(s, t) == IF s > t THEN s - t ELSE t - s
\* Mutant: a late cell is always near.
NotAfterWindow(scene, c) == Time[c] - scene.last <= Gap
WithinWindow(scene, c) == Distance(scene.last, Time[c]) <= Gap

Candidates(scenes, c) ==
  {i \in 1..Len(scenes) :
     /\ c \in Embedded
     /\ scenes[i].centroid
     /\ Len(scenes[i].members) < MaxSceneSize
     /\ WithinWindow(scenes[i], c)}

Merged(scene, c) ==
  [scene EXCEPT !.members = Append(@, c), !.last = Time[c]]

NewScene(c) ==
  [members |-> <<c>>, last |-> Time[c], centroid |-> c \in Embedded]

\* A scene that is hit becomes the newest; a new one may push out the oldest.
Touch(scenes, i, scene) == Append(RemoveAt(scenes, i), scene)
Insert(scenes, scene) ==
  LET all == Append(scenes, scene)
  IN IF Len(all) <= MaxScenes THEN all ELSE Tail(all)

Homes(scenes, c) == {i \in 1..Len(scenes) : Contains(scenes[i].members, c)}

\* cluster(): what the group's scenes may be afterwards.
Assign(scenes, c) ==
  IF Homes(scenes, c) # {}
  THEN {Touch(scenes, i, scenes[i]) : i \in Homes(scenes, c)}
  ELSE {Insert(scenes, NewScene(c))} \cup
       {Touch(scenes, i, Merged(scenes[i], c)) : i \in Candidates(scenes, c)}

-----------------------------------------------------------------------------
MemScene == [members : Seq(DOMAIN Time), last : Int, centroid : BOOLEAN]
\* Each member of a scene is near in time to the one that joined before it, and
\* the scene has the time of its last and, from the first, a centroid or none.
Chain(scene) ==
  /\ scene \in MemScene
  /\ Len(scene.members) \in 1..MaxSceneSize
  /\ IsInjective(scene.members)
  /\ \A i \in 2..Len(scene.members) :
       /\ Distance(Time[scene.members[i]], Time[scene.members[i - 1]]) <= Gap
       /\ scene.members[i] \in Embedded /\ scene.members[i - 1] \in Embedded
  /\ scene.last = Time[Last(scene.members)]
  /\ scene.centroid <=> scene.members[1] \in Embedded
=============================================================================

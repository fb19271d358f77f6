---------------------------- MODULE ConfigCenter ----------------------------
(***************************************************************************)
(* MongoConfigCenter (config_center/_common.py, _db.py, mongo_center.py)   *)
(* in one of the replicas that share a MongoDB entry, and the plugins its  *)
(* PluginFactory caches under the version that resolve() returned.  The    *)
(* replica serialises its resolves and writes with _lock; change stream    *)
(* events are handled outside it.  The other replicas are the writes they  *)
(* make.  An entry is told apart by the write that made it.                *)
(***************************************************************************)
EXTENDS Integers, FiniteSets

CONSTANTS
  Calls,      \* the replica's callers of write() and of PluginFactory.build()
  MaxWrites   \* bound on the writes to the entry

ASSUME WritesAssumption == MaxWrites \in Nat

None == -1

VARIABLES
  entry,      \* the MongoDB entry: which write made it, and its version field
  pc,         \* where each caller is
  got,        \* the entry each caller read or wrote
  version,    \* the version it goes with: the snapshot's in a resolve, the
              \* entry's in a write
  cache,      \* _overrides_cache; None when unset or older than its TTL
  snapshot,   \* self._version
  position,   \* the writes whose change events the replica has seen or missed
  notices,    \* notifications its PluginFactory has yet to run
  plugins,    \* PluginFactory._instances: <<version, entry it was built from>>
  shown,      \* the newest entry a resolve returned or a completed write made
  suspect     \* whether the present version may have been given to an old entry

caller == <<pc, got, version>>
replica == <<cache, snapshot, notices>>
history == <<shown, suspect>>
vars == <<entry, caller, replica, position, plugins, history>>

Init ==
  /\ entry = [write |-> 0, version |-> 0]
  /\ pc = [c \in Calls |-> "idle"]
  /\ got = [c \in Calls |-> None]
  /\ version = [c \in Calls |-> 0]
  /\ cache = None
  /\ snapshot = 0
  /\ position = 0
  /\ notices = 0
  /\ plugins = {}
  /\ shown = 0
  /\ suspect = FALSE

Higher(a, b) == IF a > b THEN a ELSE b

Resolving == {"querying", "queried"}
Writing == {"finding", "upserting", "archiving"}

\* The caller inside _lock.
Holders == {c \in Calls : pc[c] \in Resolving \cup Writing}

Enter(c, s) ==
  /\ pc[c] = "idle"
  /\ Holders = {}
  /\ pc' = [pc EXCEPT ![c] = s]

Go(c, s) == pc' = [pc EXCEPT ![c] = s]

\* The call is over and its locals with it.
Leave(c) ==
  /\ Go(c, "idle")
  /\ got' = [got EXCEPT ![c] = None]
  /\ version' = [version EXCEPT ![c] = 0]

-----------------------------------------------------------------------------
(* resolve() *)

\* The overrides cache answers without leaving the lock.
ResolveCached(c) ==
  /\ cache # None
  /\ Enter(c, "resolved")
  /\ got' = [got EXCEPT ![c] = cache]
  /\ version' = [version EXCEPT ![c] = snapshot]
  /\ shown' = Higher(shown, cache)
  /\ UNCHANGED <<entry, replica, position, plugins, suspect>>

Resolve(c) ==
  /\ cache = None
  /\ Enter(c, "querying")
  /\ UNCHANGED <<entry, got, version, replica, position, plugins, history>>

\* MongoDB runs the find of the entry's scope; other finds follow it.
Query(c) ==
  /\ pc[c] = "querying"
  /\ Go(c, "queried")
  /\ got' = [got EXCEPT ![c] = entry.write]
  /\ UNCHANGED <<entry, version, replica, position, plugins, history>>

\* The finds are done: fill the cache, read _version, leave the lock.
QueryEnds(c) ==
  /\ pc[c] = "queried"
  /\ Go(c, "resolved")
  /\ version' = [version EXCEPT ![c] = snapshot]
  /\ cache' = got[c]
  /\ shown' = Higher(shown, got[c])
  /\ UNCHANGED <<entry, got, snapshot, notices, position, plugins, suspect>>

\* A find raises, or the caller is cancelled.
QueryRaises(c) ==
  /\ pc[c] \in Resolving
  /\ Leave(c)
  /\ UNCHANGED <<entry, replica, position, plugins, history>>

\* PluginFactory.build() with what resolve() returned: a plugin cached under
\* the version is used, else one is built and cached.
Build(c) ==
  /\ pc[c] = "resolved"
  /\ Leave(c)
  /\ plugins' = IF \E p \in plugins : p[1] = version[c]
                  THEN plugins ELSE plugins \cup {<<version[c], got[c]>>}
  /\ UNCHANGED <<entry, replica, position, history>>

-----------------------------------------------------------------------------
(* write() *)

Write(c) ==
  /\ Enter(c, "finding")
  /\ UNCHANGED <<entry, got, version, replica, position, plugins, history>>

Find(c) ==
  /\ pc[c] = "finding"
  /\ Go(c, "upserting")
  /\ version' = [version EXCEPT ![c] = entry.version]
  /\ UNCHANGED <<entry, got, replica, position, plugins, history>>

\* The version is the one found plus one, whatever was written since.
Stored(c) == entry' = [write |-> entry.write + 1, version |-> version[c] + 1]

Upsert(c) ==
  /\ pc[c] = "upserting" /\ entry.write < MaxWrites
  /\ Stored(c)
  /\ Go(c, "archiving")
  /\ got' = [got EXCEPT ![c] = entry.write + 1]
  /\ version' = [version EXCEPT ![c] = @ + 1]
  /\ UNCHANGED <<replica, position, plugins, history>>

\* The find or the upsert raises, the upsert before or after MongoDB applied it,
\* or the caller is cancelled: the rest of write() is skipped.
WriteRaises(c) ==
  /\ pc[c] \in Writing
  /\ \/ UNCHANGED entry
     \/ pc[c] = "upserting" /\ entry.write < MaxWrites /\ Stored(c)
  /\ Leave(c)
  /\ UNCHANGED <<replica, position, plugins, history>>

\* Mutant: a write leaves the overrides cache to its TTL.
WriteEndsCached(c) ==
  /\ pc[c] = "archiving"
  /\ Leave(c)
  /\ snapshot' = Higher(snapshot + 1, version[c])
  /\ notices' = notices + 1
  /\ shown' = Higher(shown, got[c])
  /\ suspect' = FALSE
  /\ UNCHANGED <<entry, cache, position, plugins>>

\* The history is written (an error there is logged), the cache is dropped, the
\* snapshot is raised, and outside the lock the callbacks are told.
WriteEnds(c) ==
  /\ pc[c] = "archiving"
  /\ Leave(c)
  /\ cache' = None
  /\ snapshot' = Higher(snapshot + 1, version[c])
  /\ notices' = notices + 1
  /\ shown' = Higher(shown, got[c])
  /\ suspect' = FALSE
  /\ UNCHANGED <<entry, position, plugins>>

\* A write() of another replica.  The version it found is the present one, or an
\* older one if it raced with another write.
Elsewhere ==
  /\ entry.write < MaxWrites
  /\ \E v \in 0..entry.version : entry' = [write |-> entry.write + 1, version |-> v + 1]
  /\ UNCHANGED <<caller, replica, position, plugins, history>>

-----------------------------------------------------------------------------
(* The change stream *)

\* A resolve that read the entry before the event's write is about to cache it
\* and to return it under the version the event brings.
Overtaken ==
  \E c \in Holders : pc[c] = "queried" /\ got[c] < position + 1

\* Mutant: an event drops the cache and leaves the version.
EventUnversioned ==
  /\ position < entry.write
  /\ position' = position + 1
  /\ cache' = None
  /\ notices' = notices + 1
  /\ suspect' = Overtaken
  /\ UNCHANGED <<entry, caller, snapshot, plugins, shown>>

\* _wrapped: the event of the next write drops the cache and raises the version
\* without the lock, then the callbacks are told.
Event ==
  /\ position < entry.write
  /\ position' = position + 1
  /\ cache' = None
  /\ snapshot' = snapshot + 1
  /\ notices' = notices + 1
  /\ suspect' = Overtaken
  /\ UNCHANGED <<entry, caller, plugins, shown>>

\* The stream breaks and is opened anew, without a resume token: the events of
\* the writes in between are not seen.
Break ==
  /\ position < entry.write
  /\ position' = entry.write
  /\ suspect' = TRUE
  /\ UNCHANGED <<entry, caller, replica, plugins, shown>>

\* PluginFactory._on_config_change drops what it cached.
Notify ==
  /\ notices > 0
  /\ notices' = notices - 1
  /\ plugins' = {}
  /\ UNCHANGED <<entry, caller, cache, snapshot, position, history>>

\* overrides_cache_ttl_seconds have passed.
Expire ==
  /\ cache # None
  /\ cache' = None
  /\ UNCHANGED <<entry, caller, snapshot, notices, position, plugins, history>>

-----------------------------------------------------------------------------
ResolveStep(c) == \/ ResolveCached(c) \/ Resolve(c) \/ Query(c) \/ QueryEnds(c)
                  \/ QueryRaises(c) \/ Build(c)
WriteStep(c) == Write(c) \/ Find(c) \/ Upsert(c) \/ WriteRaises(c) \/ WriteEnds(c)

Next ==
  \/ \E c \in Calls : ResolveStep(c) \/ WriteStep(c)
  \/ Event \/ Break \/ Notify \/ Expire \/ Elsewhere

Spec == Init /\ [][Next]_vars

-----------------------------------------------------------------------------
(* Properties *)

Places == {"idle", "resolved"} \cup Resolving \cup Writing

\* Every variable has its type, and _lock has one holder at most.
TypeOK ==
  /\ entry \in [write : 0..MaxWrites, version : Nat]
  /\ pc \in [Calls -> Places]
  /\ got \in [Calls -> Nat \cup {None}]
  /\ \A c \in Calls : pc[c] \in {"queried", "resolved", "archiving"} => got[c] # None
  /\ version \in [Calls -> Nat]
  /\ cache \in Nat \cup {None}
  /\ snapshot \in Nat /\ position \in Nat /\ notices \in Nat /\ shown \in Nat
  /\ plugins \subseteq Nat \X Nat
  /\ suspect \in BOOLEAN
  /\ \A c, d \in Holders : c = d

\* Reads do not go back: what a resolve returns is as new as anything an earlier
\* resolve of the replica returned and as any write() the replica completed,
\* whatever the other replicas, the TTL and the change stream do in between.
NothingOlderReturned ==
  [][\A c \in Calls :
       pc[c] # "resolved" /\ pc'[c] = "resolved" => got'[c] >= shown]_vars

\* A replica that has seen the last event and still serves, under its present
\* version, a plugin of an older entry has missed events or had a resolve
\* overtaken by one; nothing else makes a plugin stale.
StaleHasCause ==
  ~ suspect /\ position = entry.write =>
    \A p \in plugins : p[1] = snapshot => p[2] = entry.write

=============================================================================

---------------------------- MODULE PluginFactory ----------------------------
(***************************************************************************)
(* PluginFactory (plugins/factory.py): build() returns the started plugin  *)
(* cached under (category, name, tenant, version), starting it under a     *)
(* lock of its own key; config changes and admin reloads drop and stop     *)
(* cached plugins; shutdown stops them all.  Every await lets other calls  *)
(* run.  A build() call makes at most one Lock and one plugin, so both are *)
(* named after the call.                                                   *)
(***************************************************************************)
CONSTANTS
  Calls,     \* calls of build()
  Reloads,   \* calls of _on_config_change and release_category
  Keys,      \* the cache keys the configuration centre resolves to
  None

ASSUME NoneAssumption == None \notin Calls \cup Keys

VARIABLES
  pc,          \* where each build() is
  key,         \* the cache key a build() resolved
  lock,        \* the Lock a build() took from _build_locks
  buildLocks,  \* self._build_locks
  instances,   \* self._instances
  plugin,      \* the life of the plugin a build() made
  returned,    \* the plugin a build() returned
  toStop,      \* the cached keys a reload still has to drop
  stopping,    \* the plugin whose stop() a reload awaits
  phase,       \* shutdown: "open", "closing" or "closed"
  closing,     \* the plugins shutdown still has to stop
  disturbed    \* keys with a failed or cancelled build or a dropped plugin

caches == <<buildLocks, instances>>
reloads == <<toStop, stopping>>
closes == <<phase, closing>>
vars == <<pc, key, lock, caches, plugin, returned, reloads, closes, disturbed>>

InFlight == {b \in Calls : pc[b] \in {"waiting", "starting"}}
Cached == {k \in Keys : instances[k] # None}

Init ==
  /\ pc = [b \in Calls |-> "idle"]
  /\ key = [b \in Calls |-> None]
  /\ lock = [b \in Calls |-> None]
  /\ buildLocks = [k \in Keys |-> None]
  /\ instances = [k \in Keys |-> None]
  /\ plugin = [b \in Calls |-> "none"]
  /\ returned = [b \in Calls |-> None]
  /\ toStop = [r \in Reloads |-> {}]
  /\ stopping = [r \in Reloads |-> None]
  /\ phase = "open"
  /\ closing = {}
  /\ disturbed = {}

-----------------------------------------------------------------------------
(* build() *)

Leave(b, how) == pc' = [pc EXCEPT ![b] = how]
Return(b, i) == Leave(b, "returned") /\ returned' = [returned EXCEPT ![b] = i]
ForgetLock(b) == buildLocks' = [buildLocks EXCEPT ![key[b]] = None]
Start(b) == Leave(b, "starting") /\ plugin' = [plugin EXCEPT ![b] = "starting"]

\* resolve() returned key k and its plugin is cached.
Hit(b, k) ==
  /\ pc[b] = "idle"
  /\ instances[k] # None
  /\ key' = [key EXCEPT ![b] = k]
  /\ Return(b, instances[k])
  /\ UNCHANGED <<lock, caches, plugin, reloads, closes, disturbed>>

\* It is not: setdefault a Lock, take it at once if nobody holds or awaits it,
\* else wait for it.
Miss(b, k) ==
  /\ pc[b] = "idle"
  /\ instances[k] = None
  /\ key' = [key EXCEPT ![b] = k]
  /\ LET l == IF buildLocks[k] = None THEN b ELSE buildLocks[k]
     IN  /\ lock' = [lock EXCEPT ![b] = l]
         /\ buildLocks' = [buildLocks EXCEPT ![k] = l]
         /\ IF \E c \in InFlight : lock[c] = l
              THEN Leave(b, "waiting") /\ UNCHANGED plugin
              ELSE Start(b)
  /\ UNCHANGED <<instances, returned, reloads, closes, disturbed>>

\* Mutant: a failed start keeps the Lock.
TurnAfterSuccess(b) ==
  /\ pc[b] = "waiting"
  /\ \A c \in Calls : lock[c] = lock[b] => plugin[c] \notin {"starting", "failed"}

\* It is b's turn: nobody who shares it is starting.  Any waiter may be
\* the next, of which the Lock's first-come order is one choice.
Turn(b) ==
  /\ pc[b] = "waiting"
  /\ \A c \in Calls : pc[c] = "starting" => lock[c] # lock[b]

\* Mutant: the second look into the cache is left out.
WakeHitNever(b) ==
  /\ Turn(b) /\ instances[key[b]] # None
  /\ Start(b)
  /\ UNCHANGED <<key, lock, caches, returned, reloads, closes, disturbed>>

\* The second look under the lock finds the plugin of an earlier holder.
WakeHit(b) ==
  /\ Turn(b) /\ instances[key[b]] # None
  /\ Return(b, instances[key[b]])
  /\ ForgetLock(b)
  /\ UNCHANGED <<key, lock, instances, plugin, reloads, closes, disturbed>>

WakeMiss(b) ==
  /\ Turn(b) /\ instances[key[b]] = None
  /\ Start(b)
  /\ UNCHANGED <<key, lock, caches, returned, reloads, closes, disturbed>>

\* start() returned.
Started(b) ==
  /\ pc[b] = "starting"
  /\ plugin' = [plugin EXCEPT ![b] = "running"]
  /\ instances' = [instances EXCEPT ![key[b]] = b]
  /\ Return(b, b)
  /\ ForgetLock(b)
  /\ UNCHANGED <<key, lock, reloads, closes, disturbed>>

\* Mutant: the plugin is cached before its start() is known to succeed.
StartFailsCached(b) ==
  /\ pc[b] = "starting"
  /\ plugin' = [plugin EXCEPT ![b] = "failed"]
  /\ instances' = [instances EXCEPT ![key[b]] = b]
  /\ Leave(b, "raised")
  /\ ForgetLock(b)
  /\ disturbed' = disturbed \cup {key[b]}
  /\ UNCHANGED <<key, lock, returned, reloads, closes>>

\* The registry does not know the plugin, or start() raised: the finally clause
\* drops the key's Lock, whichever Lock that is by now.
StartFails(b) ==
  /\ pc[b] = "starting"
  /\ plugin' = [plugin EXCEPT ![b] = "failed"]
  /\ Leave(b, "raised")
  /\ ForgetLock(b)
  /\ disturbed' = disturbed \cup {key[b]}
  /\ UNCHANGED <<key, lock, instances, returned, reloads, closes>>

\* The caller is cancelled while it waits for the Lock or for start().
Cancelled(b) ==
  /\ b \in InFlight
  /\ plugin' = [plugin EXCEPT ![b] = IF pc[b] = "starting" THEN "failed" ELSE @]
  /\ Leave(b, "raised")
  /\ ForgetLock(b)
  /\ disturbed' = disturbed \cup {key[b]}
  /\ UNCHANGED <<key, lock, instances, returned, reloads, closes>>

\* A request_override bypasses the cache: a plugin of its own, started and
\* handed over.
Override(b) ==
  /\ pc[b] = "idle"
  /\ Leave(b, "overriding")
  /\ plugin' = [plugin EXCEPT ![b] = "starting"]
  /\ UNCHANGED <<key, lock, caches, returned, reloads, closes, disturbed>>

OverrideEnds(b) ==
  /\ pc[b] = "overriding"
  /\ \/ Return(b, b) /\ plugin' = [plugin EXCEPT ![b] = "running"]
     \/ Leave(b, "raised") /\ plugin' = [plugin EXCEPT ![b] = "failed"] /\ UNCHANGED returned
  /\ UNCHANGED <<key, lock, caches, reloads, closes, disturbed>>

-----------------------------------------------------------------------------
(* _on_config_change and release_category *)

\* The loop over the affected keys ks up to its next await: keys dropped
\* meanwhile are passed over, the next plugin is popped and its stop() begins.
Drop(r, ks, life) ==
  IF ks \cap Cached = {}
    THEN /\ toStop' = [toStop EXCEPT ![r] = {}]
         /\ stopping' = [stopping EXCEPT ![r] = None]
         /\ plugin' = life
         /\ UNCHANGED <<instances, disturbed>>
    ELSE \E k \in ks \cap Cached :
         /\ toStop' = [toStop EXCEPT ![r] = ks \ {k}]
         /\ stopping' = [stopping EXCEPT ![r] = instances[k]]
         /\ instances' = [instances EXCEPT ![k] = None]
         /\ plugin' = [life EXCEPT ![instances[k]] = "stopping"]
         /\ disturbed' = disturbed \cup {k}

\* The call affects the cached keys of its category or name, here any of them.
Reload(r) ==
  /\ stopping[r] = None
  /\ \E ks \in (SUBSET Cached) \ {{}} : Drop(r, ks, plugin)
  /\ UNCHANGED <<pc, key, lock, buildLocks, returned, closes>>

\* stop() ended, well or with an error that is logged.
Stopped(r) ==
  /\ stopping[r] # None
  /\ Drop(r, toStop[r], [plugin EXCEPT ![stopping[r]] = "stopped"])
  /\ UNCHANGED <<pc, key, lock, buildLocks, returned, closes>>

-----------------------------------------------------------------------------
(* shutdown() *)

Shutdown ==
  /\ phase = "open"
  /\ phase' = "closing"
  /\ closing' = {instances[k] : k \in Cached}
  /\ UNCHANGED <<pc, key, lock, caches, plugin, returned, reloads, disturbed>>

ShutdownStops(i) ==
  /\ phase = "closing" /\ i \in closing
  /\ closing' = closing \ {i}
  /\ plugin' = [plugin EXCEPT ![i] = "stopped"]
  /\ UNCHANGED <<pc, key, lock, caches, returned, reloads, phase, disturbed>>

\* _instances.clear() after the last stop().
ShutdownClears ==
  /\ phase = "closing" /\ closing = {}
  /\ phase' = "closed"
  /\ instances' = [k \in Keys |-> None]
  /\ disturbed' = disturbed \cup Cached
  /\ UNCHANGED <<pc, key, lock, buildLocks, plugin, returned, reloads, closing>>

-----------------------------------------------------------------------------
BuildStep(b) == \/ WakeHit(b) \/ WakeMiss(b) \/ Started(b) \/ StartFails(b) \/ OverrideEnds(b)

Next ==
  \/ \E b \in Calls, k \in Keys : Hit(b, k) \/ Miss(b, k)
  \/ \E b \in Calls : BuildStep(b) \/ Cancelled(b) \/ Override(b)
  \/ \E r \in Reloads : Reload(r) \/ Stopped(r)
  \/ Shutdown \/ ShutdownClears
  \/ \E i \in Calls : ShutdownStops(i)

Spec == Init /\ [][Next]_vars

\* A start() ends, and the loop runs what is ready.
Fairness == \A b \in Calls : WF_vars(BuildStep(b))

FairSpec == Spec /\ Fairness

-----------------------------------------------------------------------------
(* Properties *)

\* Every variable has its type.
TypeOK ==
  /\ pc \in [Calls -> {"idle", "waiting", "starting", "overriding", "returned", "raised"}]
  /\ key \in [Calls -> Keys \cup {None}]
  /\ lock \in [Calls -> Calls \cup {None}]
  /\ buildLocks \in [Keys -> Calls \cup {None}]
  /\ instances \in [Keys -> Calls \cup {None}]
  /\ plugin \in [Calls -> {"none", "starting", "running", "failed", "stopping", "stopped"}]
  /\ returned \in [Calls -> Calls \cup {None}]
  /\ toStop \in [Reloads -> SUBSET Keys]
  /\ stopping \in [Reloads -> Calls \cup {None}]
  /\ phase \in {"open", "closing", "closed"}
  /\ closing \subseteq Calls
  /\ disturbed \subseteq Keys

\* _build_locks never outgrows the builds in flight: a Lock it holds has a
\* build of its key behind it, whatever failed, was cancelled or took another
\* build's Lock with it.
LocksHaveBuilds ==
  \A k \in Keys : buildLocks[k] # None => \E b \in InFlight : key[b] = k

\* A key on which nothing failed and nothing was dropped is started once,
\* however many builds race for it.
QuietKeyStartsOnce ==
  \A b, c \in Calls :
    /\ key[b] = key[c] /\ key[b] \in Keys \ disturbed
    /\ plugin[b] # "none" /\ plugin[c] # "none"
    => b = c

\* Until shutdown, what the cache holds is running and was built for its key:
\* neither a plugin a reload is stopping, nor one that failed to start, nor one
\* made for a request_override.
CachedIsRunning ==
  phase = "open" =>
    \A k \in Cached : plugin[instances[k]] = "running" /\ key[instances[k]] = k

\* Two overlapping reloads never stop the same plugin.
StoppedByOne ==
  \A r, s \in Reloads : r # s /\ stopping[r] # None => stopping[r] # stopping[s]

\* Every build ends: the Lock of a failed or a cancelled build is passed on.
BuildsEnd == \A b \in Calls : b \in InFlight ~> b \notin InFlight
=============================================================================

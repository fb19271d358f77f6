------------------------- MODULE PluginFactory_proof -------------------------
(***************************************************************************)
(* Proofs about PluginFactory for any set of calls, reloads and keys.  The *)
(* inductive invariant adds to the properties why they persist: a plugin   *)
(* leaves the cache for good, and on a key on which nothing went wrong all *)
(* builds in flight share the Lock of _build_locks.                        *)
(***************************************************************************)
EXTENDS PluginFactory, TLAPS

\* A build in flight has resolved its key.
Keyed == \A b \in InFlight : key[b] \in Keys

\* Every variable has its type, and builds in flight their key, in every
\* reachable state.
THEOREM TypeCorrect == Spec => [](TypeOK /\ Keyed)
<1> USE NoneAssumption
<1>1. Init => TypeOK /\ Keyed
  BY DEF Init, TypeOK, Keyed, InFlight
<1>2. TypeOK /\ Keyed /\ [Next]_vars => (TypeOK /\ Keyed)'
  <2> SUFFICES ASSUME TypeOK, Keyed, [Next]_vars PROVE (TypeOK /\ Keyed)'
    OBVIOUS
  <2> USE DEF TypeOK, Keyed, InFlight, caches, reloads, closes
  <2>1. ASSUME NEW b \in Calls, NEW k \in Keys, Hit(b, k) PROVE (TypeOK /\ Keyed)'
    BY <2>1 DEF Hit, Return, Leave
  <2>2. ASSUME NEW b \in Calls, NEW k \in Keys, Miss(b, k) PROVE (TypeOK /\ Keyed)'
    BY <2>2 DEF Miss, Start, Leave
  <2>3. ASSUME NEW b \in Calls, WakeHit(b) PROVE (TypeOK /\ Keyed)'
    BY <2>3 DEF WakeHit, Turn, Return, Leave, ForgetLock
  <2>4. ASSUME NEW b \in Calls, WakeMiss(b) PROVE (TypeOK /\ Keyed)'
    BY <2>4 DEF WakeMiss, Turn, Start, Leave
  <2>5. ASSUME NEW b \in Calls, Started(b) PROVE (TypeOK /\ Keyed)'
    BY <2>5 DEF Started, Return, Leave, ForgetLock
  <2>6. ASSUME NEW b \in Calls, StartFails(b) PROVE (TypeOK /\ Keyed)'
    BY <2>6 DEF StartFails, Leave, ForgetLock
  <2>7. ASSUME NEW b \in Calls, Cancelled(b) PROVE (TypeOK /\ Keyed)'
    BY <2>7 DEF Cancelled, Leave, ForgetLock
  <2>8. ASSUME NEW b \in Calls, Override(b) PROVE (TypeOK /\ Keyed)'
    BY <2>8 DEF Override, Leave
  <2>9. ASSUME NEW b \in Calls, OverrideEnds(b) PROVE (TypeOK /\ Keyed)'
    BY <2>9 DEF OverrideEnds, Return, Leave
  <2>10. ASSUME NEW r \in Reloads, Reload(r) PROVE (TypeOK /\ Keyed)'
    BY <2>10 DEF Reload, Drop, Cached
  <2>11. ASSUME NEW r \in Reloads, Stopped(r) PROVE (TypeOK /\ Keyed)'
    BY <2>11 DEF Stopped, Drop, Cached
  <2>12. CASE Shutdown
    BY <2>12 DEF Shutdown, Cached
  <2>13. ASSUME NEW i \in Calls, ShutdownStops(i) PROVE (TypeOK /\ Keyed)'
    BY <2>13 DEF ShutdownStops
  <2>14. CASE ShutdownClears
    BY <2>14 DEF ShutdownClears, Cached
  <2>15. CASE UNCHANGED vars
    BY <2>15 DEF vars
  <2> QED BY <2>1, <2>2, <2>3, <2>4, <2>5, <2>6, <2>7, <2>8, <2>9, <2>10,
             <2>11, <2>12, <2>13, <2>14, <2>15 DEF Next, BuildStep
<1> QED BY <1>1, <1>2, PTL DEF Spec

-----------------------------------------------------------------------------
\* What a call has done so far.
Fresh ==
  \A b \in Calls :
    /\ pc[b] \in {"idle", "overriding"} => key[b] = None
    /\ pc[b] \in {"idle", "waiting"} => plugin[b] = "none"
    /\ pc[b] = "starting" => plugin[b] = "starting"

\* A plugin is cached once its build returned, under its key, and a reload that
\* stops it has taken it out of the cache for good.
CacheHolds ==
  /\ \A k \in Cached :
       /\ pc[instances[k]] = "returned" /\ key[instances[k]] = k
       /\ plugin[instances[k]] # "none"
  /\ \A r \in Reloads : stopping[r] # None =>
       /\ pc[stopping[r]] = "returned" /\ plugin[stopping[r]] # "none"
       /\ \A k \in Keys : instances[k] # stopping[r]

\* Shutdown stops plugins that were cached.
ClosingReturned == \A i \in closing : pc[i] = "returned" /\ plugin[i] # "none"

\* On a key on which nothing went wrong, the builds in flight share the Lock of
\* _build_locks until a plugin is cached, one of them starts it, and the plugin
\* in the cache is the only one made.
Quiet ==
  \A b \in Calls : key[b] \in Keys \ disturbed =>
    /\ instances[key[b]] = None =>
         /\ b \in InFlight => buildLocks[key[b]] # None /\ lock[b] = buildLocks[key[b]]
         /\ plugin[b] # "none" => pc[b] = "starting"
    /\ instances[key[b]] # None /\ plugin[b] # "none" => b = instances[key[b]]
    /\ \A c \in Calls :
         pc[b] = "starting" /\ pc[c] = "starting" /\ key[b] = key[c] => b = c

Base == TypeOK /\ Keyed /\ Fresh /\ CacheHolds /\ ClosingReturned

\* The part of the invariant that does not depend on what went wrong.
THEOREM BaseHolds == Spec => []Base
<1> USE NoneAssumption
<1>1. Init => Base
  BY DEF Init, Base, TypeOK, Keyed, Fresh, CacheHolds, ClosingReturned, InFlight, Cached
<1>2. ASSUME Base, TypeOK', Keyed', [Next]_vars PROVE Base'
  <2> USE <1>2 DEF Base, TypeOK, Keyed, Fresh, CacheHolds, ClosingReturned,
             InFlight, Cached, caches, reloads, closes
  <2>1. ASSUME NEW b \in Calls, NEW k \in Keys, Hit(b, k) PROVE Base'
    BY <2>1 DEF Hit, Return, Leave
  <2>2. ASSUME NEW b \in Calls, NEW k \in Keys, Miss(b, k) PROVE Base'
    BY <2>2 DEF Miss, Start, Leave
  <2>3. ASSUME NEW b \in Calls, WakeHit(b) PROVE Base'
    BY <2>3 DEF WakeHit, Turn, Return, Leave, ForgetLock
  <2>4. ASSUME NEW b \in Calls, WakeMiss(b) PROVE Base'
    BY <2>4 DEF WakeMiss, Turn, Start, Leave
  <2>5. ASSUME NEW b \in Calls, Started(b) PROVE Base'
    BY <2>5 DEF Started, Return, Leave, ForgetLock
  <2>6. ASSUME NEW b \in Calls, StartFails(b) PROVE Base'
    BY <2>6 DEF StartFails, Leave, ForgetLock
  <2>7. ASSUME NEW b \in Calls, Cancelled(b) PROVE Base'
    BY <2>7 DEF Cancelled, Leave, ForgetLock
  <2>8. ASSUME NEW b \in Calls, Override(b) PROVE Base'
    BY <2>8 DEF Override, Leave
  <2>9. ASSUME NEW b \in Calls, OverrideEnds(b) PROVE Base'
    BY <2>9 DEF OverrideEnds, Return, Leave
  <2>10. ASSUME NEW r \in Reloads, Reload(r) PROVE Base'
    BY <2>10 DEF Reload, Drop
  <2>11. ASSUME NEW r \in Reloads, Stopped(r) PROVE Base'
    BY <2>11 DEF Stopped, Drop
  <2>12. CASE Shutdown
    BY <2>12 DEF Shutdown
  <2>13. ASSUME NEW i \in Calls, ShutdownStops(i) PROVE Base'
    BY <2>13 DEF ShutdownStops
  <2>14. CASE ShutdownClears
    BY <2>14 DEF ShutdownClears
  <2>15. CASE UNCHANGED vars
    BY <2>15 DEF vars
  <2> QED BY <2>1, <2>2, <2>3, <2>4, <2>5, <2>6, <2>7, <2>8,
             <2>9, <2>10, <2>11, <2>12, <2>13, <2>14, <2>15 DEF Next, BuildStep
<1> QED BY <1>1, <1>2, TypeCorrect, PTL DEF Spec

\* A Lock in _build_locks has a build in flight behind it: failures and
\* cancellations leave none behind.
THEOREM LocksHaveBuildsHolds == Spec => []LocksHaveBuilds
<1> USE NoneAssumption
<1>1. Init => LocksHaveBuilds
  BY DEF Init, LocksHaveBuilds, InFlight
<1>2. ASSUME TypeOK, Keyed, LocksHaveBuilds, [Next]_vars PROVE LocksHaveBuilds'
  <2> USE <1>2 DEF LocksHaveBuilds, TypeOK, Keyed, InFlight, caches, reloads, closes
  <2>1. ASSUME NEW b \in Calls, NEW k \in Keys, Hit(b, k) PROVE LocksHaveBuilds'
    BY <2>1 DEF Hit, Return, Leave
  <2>2. ASSUME NEW b \in Calls, NEW k \in Keys, Miss(b, k) PROVE LocksHaveBuilds'
    BY <2>2 DEF Miss, Start, Leave
  <2>3. ASSUME NEW b \in Calls, WakeHit(b) PROVE LocksHaveBuilds'
    BY <2>3 DEF WakeHit, Turn, Return, Leave, ForgetLock
  <2>4. ASSUME NEW b \in Calls, WakeMiss(b) PROVE LocksHaveBuilds'
    BY <2>4 DEF WakeMiss, Turn, Start, Leave
  <2>5. ASSUME NEW b \in Calls, Started(b) PROVE LocksHaveBuilds'
    BY <2>5 DEF Started, Return, Leave, ForgetLock
  <2>6. ASSUME NEW b \in Calls, StartFails(b) PROVE LocksHaveBuilds'
    BY <2>6 DEF StartFails, Leave, ForgetLock
  <2>7. ASSUME NEW b \in Calls, Cancelled(b) PROVE LocksHaveBuilds'
    BY <2>7 DEF Cancelled, Leave, ForgetLock
  <2>8. ASSUME NEW b \in Calls, Override(b) PROVE LocksHaveBuilds'
    BY <2>8 DEF Override, Leave
  <2>9. ASSUME NEW b \in Calls, OverrideEnds(b) PROVE LocksHaveBuilds'
    BY <2>9 DEF OverrideEnds, Return, Leave
  <2>10. ASSUME NEW r \in Reloads, Reload(r) PROVE LocksHaveBuilds'
    BY <2>10 DEF Reload, Drop
  <2>11. ASSUME NEW r \in Reloads, Stopped(r) PROVE LocksHaveBuilds'
    BY <2>11 DEF Stopped, Drop
  <2>12. CASE Shutdown
    BY <2>12 DEF Shutdown
  <2>13. ASSUME NEW i \in Calls, ShutdownStops(i) PROVE LocksHaveBuilds'
    BY <2>13 DEF ShutdownStops
  <2>14. CASE ShutdownClears
    BY <2>14 DEF ShutdownClears
  <2>15. CASE UNCHANGED vars
    BY <2>15 DEF vars
  <2> QED BY <1>2, <2>1, <2>2, <2>3, <2>4, <2>5, <2>6, <2>7, <2>8,
             <2>9, <2>10, <2>11, <2>12, <2>13, <2>14, <2>15 DEF Next, BuildStep
<1> QED BY <1>1, <1>2, TypeCorrect, PTL DEF Spec

\* A key on which no build failed and nothing was dropped is started once.
THEOREM QuietKeyStartsOnceHolds == Spec => []QuietKeyStartsOnce
<1> USE NoneAssumption
<1>1. Init => Quiet
  BY DEF Init, Quiet, InFlight
<1>2. ASSUME Base, Base', Quiet, [Next]_vars PROVE Quiet'
  <2> USE <1>2 DEF Quiet, Base, TypeOK, Keyed, Fresh, CacheHolds, ClosingReturned,
             InFlight, Cached, caches, reloads, closes
  <2>1. ASSUME NEW b \in Calls, NEW k \in Keys, Hit(b, k) PROVE Quiet'
    BY <2>1 DEF Hit, Return, Leave
  <2>2. ASSUME NEW b \in Calls, NEW k \in Keys, Miss(b, k) PROVE Quiet'
    BY <2>2 DEF Miss, Start, Leave
  <2>3. ASSUME NEW b \in Calls, WakeHit(b) PROVE Quiet'
    BY <2>3 DEF WakeHit, Turn, Return, Leave, ForgetLock
  <2>4. ASSUME NEW b \in Calls, WakeMiss(b) PROVE Quiet'
    BY <2>4 DEF WakeMiss, Turn, Start, Leave
  <2>5. ASSUME NEW b \in Calls, Started(b) PROVE Quiet'
    BY <2>5 DEF Started, Return, Leave, ForgetLock
  <2>6. ASSUME NEW b \in Calls, StartFails(b) PROVE Quiet'
    BY <2>6 DEF StartFails, Leave, ForgetLock
  <2>7. ASSUME NEW b \in Calls, Cancelled(b) PROVE Quiet'
    BY <2>7 DEF Cancelled, Leave, ForgetLock
  <2>8. ASSUME NEW b \in Calls, Override(b) PROVE Quiet'
    BY <2>8 DEF Override, Leave
  <2>9. ASSUME NEW b \in Calls, OverrideEnds(b) PROVE Quiet'
    BY <2>9 DEF OverrideEnds, Return, Leave
  <2>10. ASSUME NEW r \in Reloads, Reload(r) PROVE Quiet'
    BY <2>10 DEF Reload, Drop
  <2>11. ASSUME NEW r \in Reloads, Stopped(r) PROVE Quiet'
    BY <2>11 DEF Stopped, Drop
  <2>12. CASE Shutdown
    BY <2>12 DEF Shutdown
  <2>13. ASSUME NEW i \in Calls, ShutdownStops(i) PROVE Quiet'
    BY <2>13 DEF ShutdownStops
  <2>14. CASE ShutdownClears
    BY <2>14 DEF ShutdownClears
  <2>15. CASE UNCHANGED vars
    BY <2>15 DEF vars
  <2> QED BY <1>2, <2>1, <2>2, <2>3, <2>4, <2>5, <2>6, <2>7, <2>8,
             <2>9, <2>10, <2>11, <2>12, <2>13, <2>14, <2>15 DEF Next, BuildStep
<1>3. Quiet /\ TypeOK => QuietKeyStartsOnce
  BY DEF Quiet, QuietKeyStartsOnce, TypeOK
<1> QED BY <1>1, <1>2, <1>3, BaseHolds, PTL DEF Spec, Base

\* While the factory is open, a plugin a reload stops is being stopped by it
\* alone, and the cached ones run.
Serving ==
  phase = "open" =>
    /\ \A k \in Cached : plugin[instances[k]] = "running"
    /\ \A r \in Reloads : stopping[r] # None => plugin[stopping[r]] = "stopping"

\* Two overlapping reloads never stop the same plugin.
THEOREM StoppedByOneHolds == Spec => []StoppedByOne
<1> USE NoneAssumption
<1>1. Init => StoppedByOne
  BY DEF Init, StoppedByOne
<1>2. ASSUME Base, Base', StoppedByOne, [Next]_vars PROVE StoppedByOne'
  <2> USE <1>2 DEF StoppedByOne, Base, TypeOK, Keyed, CacheHolds,
             InFlight, Cached, caches, reloads, closes
  <2>1. ASSUME NEW b \in Calls, NEW k \in Keys, Hit(b, k) PROVE StoppedByOne'
    BY <2>1 DEF Hit, Return, Leave
  <2>2. ASSUME NEW b \in Calls, NEW k \in Keys, Miss(b, k) PROVE StoppedByOne'
    BY <2>2 DEF Miss, Start, Leave
  <2>3. ASSUME NEW b \in Calls, WakeHit(b) PROVE StoppedByOne'
    BY <2>3 DEF WakeHit, Turn, Return, Leave, ForgetLock
  <2>4. ASSUME NEW b \in Calls, WakeMiss(b) PROVE StoppedByOne'
    BY <2>4 DEF WakeMiss, Turn, Start, Leave
  <2>5. ASSUME NEW b \in Calls, Started(b) PROVE StoppedByOne'
    BY <2>5 DEF Started, Return, Leave, ForgetLock
  <2>6. ASSUME NEW b \in Calls, StartFails(b) PROVE StoppedByOne'
    BY <2>6 DEF StartFails, Leave, ForgetLock
  <2>7. ASSUME NEW b \in Calls, Cancelled(b) PROVE StoppedByOne'
    BY <2>7 DEF Cancelled, Leave, ForgetLock
  <2>8. ASSUME NEW b \in Calls, Override(b) PROVE StoppedByOne'
    BY <2>8 DEF Override, Leave
  <2>9. ASSUME NEW b \in Calls, OverrideEnds(b) PROVE StoppedByOne'
    BY <2>9 DEF OverrideEnds, Return, Leave
  <2>10. ASSUME NEW r \in Reloads, Reload(r) PROVE StoppedByOne'
    BY <2>10 DEF Reload, Drop
  <2>11. ASSUME NEW r \in Reloads, Stopped(r) PROVE StoppedByOne'
    BY <2>11 DEF Stopped, Drop
  <2>12. CASE Shutdown
    BY <2>12 DEF Shutdown
  <2>13. ASSUME NEW i \in Calls, ShutdownStops(i) PROVE StoppedByOne'
    BY <2>13 DEF ShutdownStops
  <2>14. CASE ShutdownClears
    BY <2>14 DEF ShutdownClears
  <2>15. CASE UNCHANGED vars
    BY <2>15 DEF vars
  <2> QED BY <1>2, <2>1, <2>2, <2>3, <2>4, <2>5, <2>6, <2>7, <2>8,
             <2>9, <2>10, <2>11, <2>12, <2>13, <2>14, <2>15 DEF Next, BuildStep
<1> QED BY <1>1, <1>2, BaseHolds, PTL DEF Spec

\* Until shutdown the cache holds running plugins, each under its own key.
THEOREM CachedIsRunningHolds == Spec => []CachedIsRunning
<1> USE NoneAssumption
<1>1. Init => Serving
  BY DEF Init, Serving, Cached
<1>2. ASSUME Base, Base', StoppedByOne, Serving, [Next]_vars PROVE Serving'
  <2> USE <1>2 DEF Serving, StoppedByOne, Base, TypeOK, Keyed, Fresh, CacheHolds,
             InFlight, Cached, caches, reloads, closes
  <2>1. ASSUME NEW b \in Calls, NEW k \in Keys, Hit(b, k) PROVE Serving'
    BY <2>1 DEF Hit, Return, Leave
  <2>2. ASSUME NEW b \in Calls, NEW k \in Keys, Miss(b, k) PROVE Serving'
    BY <2>2 DEF Miss, Start, Leave
  <2>3. ASSUME NEW b \in Calls, WakeHit(b) PROVE Serving'
    BY <2>3 DEF WakeHit, Turn, Return, Leave, ForgetLock
  <2>4. ASSUME NEW b \in Calls, WakeMiss(b) PROVE Serving'
    BY <2>4 DEF WakeMiss, Turn, Start, Leave
  <2>5. ASSUME NEW b \in Calls, Started(b) PROVE Serving'
    BY <2>5 DEF Started, Return, Leave, ForgetLock
  <2>6. ASSUME NEW b \in Calls, StartFails(b) PROVE Serving'
    BY <2>6 DEF StartFails, Leave, ForgetLock
  <2>7. ASSUME NEW b \in Calls, Cancelled(b) PROVE Serving'
    BY <2>7 DEF Cancelled, Leave, ForgetLock
  <2>8. ASSUME NEW b \in Calls, Override(b) PROVE Serving'
    BY <2>8 DEF Override, Leave
  <2>9. ASSUME NEW b \in Calls, OverrideEnds(b) PROVE Serving'
    BY <2>9 DEF OverrideEnds, Return, Leave
  <2>10. ASSUME NEW r \in Reloads, Reload(r) PROVE Serving'
    BY <2>10 DEF Reload, Drop
  <2>11. ASSUME NEW r \in Reloads, Stopped(r) PROVE Serving'
    BY <2>11 DEF Stopped, Drop
  <2>12. CASE Shutdown
    BY <2>12 DEF Shutdown
  <2>13. ASSUME NEW i \in Calls, ShutdownStops(i) PROVE Serving'
    BY <2>13 DEF ShutdownStops
  <2>14. CASE ShutdownClears
    BY <2>14 DEF ShutdownClears
  <2>15. CASE UNCHANGED vars
    BY <2>15 DEF vars
  <2> QED BY <1>2, <2>1, <2>2, <2>3, <2>4, <2>5, <2>6, <2>7, <2>8,
             <2>9, <2>10, <2>11, <2>12, <2>13, <2>14, <2>15 DEF Next, BuildStep
<1>3. Serving /\ Base => CachedIsRunning
  BY DEF Serving, Base, CacheHolds, CachedIsRunning
<1> QED BY <1>1, <1>2, <1>3, BaseHolds, StoppedByOneHolds, PTL DEF Spec
=============================================================================

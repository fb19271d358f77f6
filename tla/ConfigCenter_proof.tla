------------------------- MODULE ConfigCenter_proof -------------------------
(***************************************************************************)
(* Proofs about the configuration centre: ConfigCenter for any number of   *)
(* callers and writes, FileCenter for any readers, writers, slots,         *)
(* defaults, writes, edits and number of events.                           *)
(***************************************************************************)
EXTENDS ConfigBackends, TLAPS

\* Every variable has its type and _lock one holder, in every reachable state.
THEOREM TypeCorrect == Spec => []TypeOK
<1> USE WritesAssumption
<1>1. Init => TypeOK
  <2> SUFFICES ASSUME Init PROVE TypeOK
    OBVIOUS
  <2>1. Holders = {}
    BY DEF Init, Holders, Resolving, Writing
  <2>2. entry \in [write : 0..MaxWrites, version : Nat]
    BY DEF Init
  <2> QED BY <2>1, <2>2 DEF Init, TypeOK, Places, None
<1>2. ASSUME TypeOK, [Next]_vars PROVE TypeOK'
  <2> USE <1>2 DEF TypeOK, Holders, Resolving, Writing, Places, Higher, None,
             caller, replica, history
  <2>1. ASSUME NEW c \in Calls, ResolveCached(c) PROVE TypeOK'
    BY <2>1 DEF ResolveCached, Enter
  <2>2. ASSUME NEW c \in Calls, Resolve(c) PROVE TypeOK'
    BY <2>2 DEF Resolve, Enter
  <2>3. ASSUME NEW c \in Calls, Query(c) PROVE TypeOK'
    BY <2>3 DEF Query, Go
  <2>4. ASSUME NEW c \in Calls, QueryEnds(c) PROVE TypeOK'
    BY <2>4 DEF QueryEnds, Go
  <2>5. ASSUME NEW c \in Calls, QueryRaises(c) PROVE TypeOK'
    BY <2>5 DEF QueryRaises, Leave, Go
  <2>6. ASSUME NEW c \in Calls, Build(c) PROVE TypeOK'
    BY <2>6 DEF Build, Leave, Go
  <2>7. ASSUME NEW c \in Calls, Write(c) PROVE TypeOK'
    BY <2>7 DEF Write, Enter
  <2>8. ASSUME NEW c \in Calls, Find(c) PROVE TypeOK'
    BY <2>8 DEF Find, Go
  <2>9. ASSUME NEW c \in Calls, Upsert(c) PROVE TypeOK'
    BY <2>9 DEF Upsert, Stored, Go
  <2>10. ASSUME NEW c \in Calls, WriteRaises(c) PROVE TypeOK'
    BY <2>10 DEF WriteRaises, Stored, Leave, Go
  <2>11. ASSUME NEW c \in Calls, WriteEnds(c) PROVE TypeOK'
    <3>1. snapshot' \in Nat /\ shown' \in Nat /\ got[c] \in Nat
      BY <2>11 DEF WriteEnds
    <3>2. got' \in [Calls -> Nat \cup {-1}] /\ version' \in [Calls -> Nat]
          /\ pc' \in [Calls -> Places]
      BY <2>11 DEF WriteEnds, Leave, Go
    <3>3. (\A d, e \in Holders : d = e)'
      BY <2>11 DEF WriteEnds, Leave, Go
    <3>4. (\A d \in Calls : pc[d] \in {"queried", "resolved", "archiving"} => got[d] # None)'
      BY <2>11 DEF WriteEnds, Leave, Go
    <3>5. cache' = None /\ suspect' = FALSE /\ UNCHANGED <<entry, position, plugins>>
          /\ notices' \in Nat
      BY <2>11 DEF WriteEnds
    <3> QED BY <3>1, <3>2, <3>3, <3>4, <3>5
  <2>12. CASE Elsewhere
    BY <2>12 DEF Elsewhere
  <2>13. CASE Event
    BY <2>13 DEF Event, Overtaken
  <2>14. CASE Break
    BY <2>14 DEF Break
  <2>15. CASE Notify
    BY <2>15 DEF Notify
  <2>16. CASE Expire
    BY <2>16 DEF Expire
  <2>17. CASE UNCHANGED vars
    BY <2>17 DEF vars
  <2> QED BY <1>2, <2>1, <2>2, <2>3, <2>4, <2>5, <2>6, <2>7, <2>8, <2>9,
             <2>10, <2>11, <2>12, <2>13, <2>14, <2>15, <2>16, <2>17
          DEF Next, ResolveStep, WriteStep
<1> QED BY <1>1, <1>2, PTL DEF Spec

\* Nothing is newer than the entry.
Bounded ==
  /\ shown <= entry.write /\ position <= entry.write /\ cache <= entry.write
  /\ \A c \in Calls : pc[c] \in {"queried", "resolved", "archiving"} =>
       got[c] \in 0..entry.write
  /\ \A p \in plugins : p[2] <= entry.write

\* What the next resolves will return is not older than what was shown.
Ordered ==
  /\ cache # None => cache >= shown
  /\ \A c \in Calls : pc[c] = "queried" => got[c] >= shown

\* No version is ahead of the snapshot, so a raised snapshot names nothing yet.
Named ==
  /\ \A c \in Calls : pc[c] = "resolved" => version[c] <= snapshot
  /\ \A p \in plugins : p[1] <= snapshot

\* Unless the present version is suspect, what it names is not older than the
\* last event seen.
Fresh ==
  ~ suspect =>
    /\ cache # None => cache >= position
    /\ \A c \in Calls :
         \/ pc[c] = "queried"
         \/ pc[c] = "resolved" /\ version[c] = snapshot
         => got[c] >= position
    /\ \A p \in plugins : p[1] = snapshot => p[2] >= position

IInv == Bounded /\ Ordered /\ Named /\ Fresh

\* The inductive invariant of the two properties.
THEOREM InvHolds == Spec => []IInv
<1> USE WritesAssumption
<1>1. Init => IInv
  BY DEF Init, IInv, Bounded, Ordered, Named, Fresh, None
<1>2. ASSUME TypeOK, TypeOK', IInv, [Next]_vars PROVE IInv'
  <2> USE <1>2 DEF TypeOK, IInv, Bounded, Ordered, Named, Fresh,
             Holders, Resolving, Writing, Places, Higher, None,
             caller, replica, history
  <2>1. ASSUME NEW c \in Calls, ResolveCached(c) PROVE IInv'
    BY <2>1 DEF ResolveCached, Enter
  <2>2. ASSUME NEW c \in Calls, Resolve(c) PROVE IInv'
    BY <2>2 DEF Resolve, Enter
  <2>3. ASSUME NEW c \in Calls, Query(c) PROVE IInv'
    BY <2>3 DEF Query, Go
  <2>4. ASSUME NEW c \in Calls, QueryEnds(c) PROVE IInv'
    BY <2>4 DEF QueryEnds, Go
  <2>5. ASSUME NEW c \in Calls, QueryRaises(c) PROVE IInv'
    BY <2>5 DEF QueryRaises, Leave, Go
  <2>6. ASSUME NEW c \in Calls, Build(c) PROVE IInv'
    BY <2>6 DEF Build, Leave, Go
  <2>7. ASSUME NEW c \in Calls, Write(c) PROVE IInv'
    BY <2>7 DEF Write, Enter
  <2>8. ASSUME NEW c \in Calls, Find(c) PROVE IInv'
    BY <2>8 DEF Find, Go
  <2>9. ASSUME NEW c \in Calls, Upsert(c) PROVE IInv'
    BY <2>9 DEF Upsert, Stored, Go
  <2>10. ASSUME NEW c \in Calls, WriteRaises(c) PROVE IInv'
    BY <2>10 DEF WriteRaises, Stored, Leave, Go
  <2>11. ASSUME NEW c \in Calls, WriteEnds(c) PROVE IInv'
    BY <2>11 DEF WriteEnds, Leave, Go
  <2>12. CASE Elsewhere
    BY <2>12 DEF Elsewhere
  <2>13. CASE Event
    BY <2>13 DEF Event, Overtaken
  <2>14. CASE Break
    BY <2>14 DEF Break
  <2>15. CASE Notify
    BY <2>15 DEF Notify
  <2>16. CASE Expire
    BY <2>16 DEF Expire
  <2>17. CASE UNCHANGED vars
    BY <2>17 DEF vars
  <2> QED BY <1>2, <2>1, <2>2, <2>3, <2>4, <2>5, <2>6, <2>7, <2>8, <2>9,
             <2>10, <2>11, <2>12, <2>13, <2>14, <2>15, <2>16, <2>17
          DEF Next, ResolveStep, WriteStep
<1> QED BY <1>1, <1>2, TypeCorrect, PTL DEF Spec

\* Reads of a replica do not go back: a resolve returns nothing older than what
\* an earlier resolve returned or a completed write() made.
THEOREM NothingOlderReturnedHolds == Spec => NothingOlderReturned
<1> DEFINE Returns ==
      \A c \in Calls : pc[c] # "resolved" /\ pc'[c] = "resolved" => got'[c] >= shown
<1>1. ASSUME TypeOK, IInv, [Next]_vars PROVE Returns
  <2> USE <1>1 DEF TypeOK, IInv, Ordered, Returns, caller
  <2>1. ASSUME NEW c \in Calls, ResolveCached(c) PROVE Returns
    BY <2>1 DEF ResolveCached, Enter
  <2>2. ASSUME NEW c \in Calls, Resolve(c) PROVE Returns
    BY <2>2 DEF Resolve, Enter
  <2>3. ASSUME NEW c \in Calls, Query(c) PROVE Returns
    BY <2>3 DEF Query, Go
  <2>4. ASSUME NEW c \in Calls, QueryEnds(c) PROVE Returns
    BY <2>4 DEF QueryEnds, Go
  <2>5. ASSUME NEW c \in Calls, QueryRaises(c) PROVE Returns
    BY <2>5 DEF QueryRaises, Leave, Go
  <2>6. ASSUME NEW c \in Calls, Build(c) PROVE Returns
    BY <2>6 DEF Build, Leave, Go
  <2>7. ASSUME NEW c \in Calls, Write(c) PROVE Returns
    BY <2>7 DEF Write, Enter
  <2>8. ASSUME NEW c \in Calls, Find(c) PROVE Returns
    BY <2>8 DEF Find, Go
  <2>9. ASSUME NEW c \in Calls, Upsert(c) PROVE Returns
    BY <2>9 DEF Upsert, Stored, Go
  <2>10. ASSUME NEW c \in Calls, WriteRaises(c) PROVE Returns
    BY <2>10 DEF WriteRaises, Stored, Leave, Go
  <2>11. ASSUME NEW c \in Calls, WriteEnds(c) PROVE Returns
    BY <2>11 DEF WriteEnds, Leave, Go
  <2>12. CASE Elsewhere
    BY <2>12 DEF Elsewhere
  <2>13. CASE Event
    BY <2>13 DEF Event, Overtaken
  <2>14. CASE Break
    BY <2>14 DEF Break
  <2>15. CASE Notify
    BY <2>15 DEF Notify
  <2>16. CASE Expire
    BY <2>16 DEF Expire
  <2>17. CASE UNCHANGED vars
    BY <2>17 DEF vars
  <2> QED BY <1>1, <2>1, <2>2, <2>3, <2>4, <2>5, <2>6, <2>7, <2>8, <2>9,
             <2>10, <2>11, <2>12, <2>13, <2>14, <2>15, <2>16, <2>17
          DEF Next, ResolveStep, WriteStep
<1>2. TypeOK /\ IInv /\ [Next]_vars => [Returns]_vars
  BY <1>1
<1> QED BY <1>2, TypeCorrect, InvHolds, PTL DEF Spec, NothingOlderReturned

\* A plugin of the present version is of the present entry, once the last event
\* was seen, unless events were missed or a resolve was overtaken by one.
THEOREM StaleHasCauseHolds == Spec => []StaleHasCause
<1>1. TypeOK /\ IInv => StaleHasCause
  <2> SUFFICES ASSUME TypeOK, IInv, ~ suspect, position = entry.write,
                      NEW p \in plugins, p[1] = snapshot
               PROVE  p[2] = entry.write
    BY DEF StaleHasCause
  <2>1. p[2] \in Nat /\ entry.write \in Nat
    BY DEF TypeOK
  <2>2. p[2] >= position /\ p[2] <= entry.write
    BY DEF IInv, Bounded, Fresh
  <2> QED BY <2>1, <2>2
<1> QED BY <1>1, TypeCorrect, InvHolds, PTL


-----------------------------------------------------------------------------
(* The file: the invariant *)

\* A content of the file, or of memory: a leaf for each category and an entry, or
\* none, for each slot.
IsContent(c) ==
  /\ c = [x \in {"defaults", "over"} |-> c[x]]
  /\ c.over = [slot \in Slots |-> c.over[slot]]
CallKeys == {"pc", "key", "gen", "mtime", "data", "found", "slot", "entry"}
PollKeys == {"pc", "last", "seen", "mtime", "data"}
IsCall(c) == c = [x \in CallKeys |-> c[x]]
IsPoll(p) == p = [x \in PollKeys |-> p[x]]

In(k, places) == call[k].pc \in places

\* What the variables hold; no mtime that was read is newer than the file.
FileType ==
  /\ disk = [content |-> disk.content, mtime |-> disk.mtime]
  /\ IsContent(disk.content) /\ disk.mtime \in Nat
  /\ mtime \in Nat /\ mtime <= disk.mtime
  /\ owed = [slot \in Slots |-> owed[slot]]
  /\ causes \subseteq {"overtaken", "unsaved", "unread", "torn", "raced"}
  /\ call = [k \in F!Callers |-> call[k]]
  /\ \A k \in F!Callers :
       /\ IsCall(call[k])
       /\ In(k, {"apply", "truncate", "fill", "commit"}) => IsContent(call[k].data)
       /\ In(k, {"load", "apply"}) => call[k].mtime \in Nat /\ call[k].mtime <= disk.mtime
  /\ IsPoll(poll) /\ poll.last \in Nat /\ poll.seen \in Nat
  /\ poll.pc \in {"asleep", "stat", "load", "apply", "event"}
  /\ poll.pc \in {"stat", "load", "apply", "event"} => poll.seen <= disk.mtime
  /\ poll.pc \in {"load", "apply"} =>
       poll.mtime \in Nat /\ poll.seen <= poll.mtime /\ poll.mtime <= disk.mtime
  /\ poll.pc = "apply" => IsContent(poll.data)

\* _lock: one caller is inside.
OneInside ==
  \A j, k \in F!Callers :
    In(j, F!Resolving \cup F!Writing) /\ In(k, F!Resolving \cup F!Writing) => j = k

\* What was read with the file's present mtime, and is to be taken over, is the
\* file, but for the instant between writing it and taking its mtime.
UpToDate(stamp, data) ==
  stamp = disk.mtime /\ stamp > mtime /\ (\A k \in F!Callers : ~In(k, {"commit"})) =>
    data = disk.content
LoadsAreFresh ==
  /\ \A k \in F!Callers : In(k, {"apply"}) => UpToDate(call[k].mtime, call[k].data)
  /\ poll.pc = "apply" => UpToDate(poll.mtime, poll.data)

\* Nothing has set memory and file apart since the process started.
Clean == causes \cap {"overtaken", "unsaved", "unread"} = {}

\* What the poll loop has heard of is in memory.
PollCaught == Clean => poll.last <= mtime /\ (poll.pc = "event" => poll.seen <= mtime)

\* Memory is the file it has the mtime of; during a write, what the file will be.
MemoryFollows ==
  Clean =>
    /\ F!MutexFree /\ mtime = disk.mtime => memory = F!Loaded(disk.content)
    /\ \A k \in F!Callers :
         /\ In(k, {"read"}) =>
              memory = F!Loaded([disk.content EXCEPT !.over[call[k].slot] = call[k].entry])
         /\ In(k, {"truncate", "fill", "commit"}) => memory = F!Loaded(call[k].data)
         /\ In(k, {"fill"}) => mtime < disk.mtime
         /\ In(k, {"commit"}) => disk.content = call[k].data

\* What is owed is in the file, or in what a writer is about to put there.
Holds(over) == \A slot \in Slots : owed[slot] # Unset => over[slot] = owed[slot]
AckedFollows ==
  causes \cap {"torn", "raced"} = {} =>
    /\ (\A k \in F!Callers : ~In(k, {"fill"})) => Holds(disk.content.over)
    /\ \A k \in F!Callers :
         /\ In(k, F!Writing) => (call[k].slot \in Slots => owed[call[k].slot] = Unset)
         /\ In(k, {"truncate", "fill", "commit"}) =>
              /\ Holds(call[k].data.over)
              /\ call[k].slot \in Slots => call[k].data.over[call[k].slot] = call[k].entry
         /\ In(k, {"commit"}) => disk.content = call[k].data

FileInv == FileType /\ OneInside /\ LoadsAreFresh /\ PollCaught /\ MemoryFollows /\ AckedFollows

-----------------------------------------------------------------------------
(* The file: what each step does *)

\* Caller k moves, and nobody else.
Only(k) ==
  /\ k \in F!Callers /\ call' = [j \in F!Callers |-> call'[j]]
  /\ \A j \in F!Callers : j # k => call'[j] = call[j]
  /\ IsCall(call'[k])
Takes(data, stamp) ==
  IF stamp <= mtime THEN UNCHANGED <<memory, mtime>>
  ELSE memory' = F!Loaded(data) /\ mtime' = stamp

\* A step that reads and writes neither file nor memory.
QuietStep(k) ==
  /\ Only(k) /\ ~In(k, F!Writing) /\ call'[k].pc \notin {"load", "apply"} \cup F!Writing
  /\ call'[k].pc \in F!Resolving => In(k, F!Resolving) \/ F!LockFree
  /\ UNCHANGED <<disk, memory, mtime, poll, owed, causes>>
StatStep(k) ==
  /\ Only(k) /\ In(k, {"stat"}) /\ call'[k].pc = "load" /\ call'[k].mtime = disk.mtime
  /\ UNCHANGED <<disk, memory, mtime, poll, owed, causes>>
LoadStep(k) ==
  /\ Only(k) /\ In(k, {"load"}) /\ call'[k].pc = "apply"
  /\ call'[k].mtime = call[k].mtime /\ call'[k].data = disk.content
  /\ UNCHANGED <<disk, memory, mtime, poll, owed, causes>>
ApplyStep(k) ==
  /\ Only(k) /\ In(k, {"apply"}) /\ call'[k].pc = "resolved" /\ F!MutexFree
  /\ Takes(call[k].data, call[k].mtime)
  /\ UNCHANGED <<disk, poll, owed, causes>>
PersistStep(k) ==
  /\ Only(k) /\ F!LockFree /\ call'[k].pc = "read"
  /\ memory' = [memory EXCEPT !.over[call'[k].slot] = call'[k].entry]
  /\ causes' = causes \cup (IF disk.mtime > mtime THEN {"overtaken"} ELSE {})
  /\ owed' = [owed EXCEPT ![call'[k].slot] = Unset]
  /\ UNCHANGED <<disk, mtime, poll>>
ReadStep(k) ==
  /\ Only(k) /\ In(k, {"read"}) /\ call'[k].pc = "truncate"
  /\ call'[k].slot = call[k].slot /\ call'[k].entry = call[k].entry
  /\ call'[k].data = [disk.content EXCEPT !.over[call[k].slot] = call[k].entry]
  /\ UNCHANGED <<disk, memory, mtime, poll, owed, causes>>
TruncateStep(k) ==
  /\ Only(k) /\ In(k, {"truncate"}) /\ call'[k] = [call[k] EXCEPT !.pc = "fill"]
  /\ disk' = [content |-> F!Emptied, mtime |-> disk.mtime + 1]
  /\ UNCHANGED <<memory, mtime, poll, owed, causes>>
FillStep(k) ==
  /\ Only(k) /\ In(k, {"fill"}) /\ call'[k] = [call[k] EXCEPT !.pc = "commit"]
  /\ \E tick \in {0, 1} : disk' = [content |-> call[k].data, mtime |-> disk.mtime + tick]
  /\ UNCHANGED <<memory, mtime, poll, owed, causes>>
CommitStep(k) ==
  /\ Only(k) /\ In(k, {"commit"}) /\ call'[k].pc = "notify"
  /\ mtime' = disk.mtime
  /\ owed' = [owed EXCEPT ![call[k].slot] = call[k].entry]
  /\ UNCHANGED <<disk, memory, poll, causes>>
FailStep(k) ==
  /\ Only(k) /\ In(k, {"read", "truncate", "fill"}) /\ call'[k].pc = "idle"
  /\ causes' = causes \cup {IF In(k, {"fill"}) THEN "torn" ELSE "unsaved"}
  /\ UNCHANGED <<disk, memory, mtime, poll, owed>>
CallStep(k) ==
  \/ QuietStep(k) \/ StatStep(k) \/ LoadStep(k) \/ ApplyStep(k) \/ PersistStep(k)
  \/ ReadStep(k) \/ TruncateStep(k) \/ FillStep(k) \/ CommitStep(k) \/ FailStep(k)

\* What an assignment to the call of k does.
LEMMA CallMoves ==
  ASSUME FileType, NEW k \in F!Callers, NEW c, IsCall(c), call' = [call EXCEPT ![k] = c]
  PROVE  Only(k) /\ call'[k] = c
  BY DEF FileType, Only

LEMMA ReadsStep ==
  ASSUME FileType, NEW k \in F!Callers, F!Reads(k)
  PROVE  CallStep(k)
<1>0. IsCall(call[k])
  BY DEF FileType
<1>1. ASSUME NEW key \in F!Keys, F!Ask(k, key) PROVE QuietStep(k)
  <2>1. /\ call' = [call EXCEPT ![k] = [call[k] EXCEPT !.pc = "asked", !.key = key, !.gen = gen]]
        /\ In(k, {"idle"}) /\ UNCHANGED <<disk, memory, mtime, poll, owed, causes>>
    BY <1>0, <1>1 DEF F!Ask, F!At_, F!center, In, IsCall, CallKeys, FileType
  <2>2. Only(k) /\ call'[k].pc = "asked"
    <3> DEFINE n == [call[k] EXCEPT !.pc = "asked", !.key = key, !.gen = gen]
    <3>1. IsCall(n) /\ n.pc = "asked"
      BY ONLY <1>0 DEF IsCall, CallKeys
    <3>2. call' = [call EXCEPT ![k] = n]
      BY <2>1
    <3> HIDE DEF n
    <3> QED BY <3>1, <3>2, CallMoves
  <2> QED BY <2>1, <2>2 DEF QuietStep, In, F!Writing, F!Resolving
<1>2. CASE F!EnterResolve(k)
  <2>1. /\ call' = [call EXCEPT ![k] = [call[k] EXCEPT !.pc = "stat"]]
        /\ In(k, {"asked"}) /\ F!LockFree /\ UNCHANGED <<disk, memory, mtime, poll, owed, causes>>
    BY <1>2 DEF F!EnterResolve, F!At_, F!Go, F!center, In
  <2>2. Only(k) /\ call'[k].pc = "stat"
    <3> DEFINE n == [call[k] EXCEPT !.pc = "stat"]
    <3>1. IsCall(n) /\ n.pc = "stat"
      BY ONLY <1>0 DEF IsCall, CallKeys
    <3>2. call' = [call EXCEPT ![k] = n]
      BY <2>1
    <3> HIDE DEF n
    <3> QED BY <3>1, <3>2, CallMoves
  <2> QED BY <2>1, <2>2 DEF CallStep, QuietStep, In, F!Writing, F!Resolving
<1>3. ASSUME NEW content, F!Resolved(k, content)
      PROVE  Only(k) /\ call'[k].pc = "resolved"
  <2>1. call' = [call EXCEPT ![k] = [call[k] EXCEPT !.pc = "resolved", !.mtime = 0, !.data = Unset,
                                     !.found = F!Found(k, content)]]
    BY <1>0, <1>3 DEF F!Resolved, FileType, IsCall, CallKeys
  <2> DEFINE n == [call[k] EXCEPT !.pc = "resolved", !.mtime = 0, !.data = Unset,
                                  !.found = F!Found(k, content)]
  <2>2. IsCall(n) /\ n.pc = "resolved"
    BY ONLY <1>0 DEF IsCall, CallKeys
  <2>3. call' = [call EXCEPT ![k] = n]
    BY <2>1
  <2> HIDE DEF n
  <2> QED BY <2>2, <2>3, CallMoves
<1>4. CASE F!Stat(k)
  <2>1. In(k, {"stat"}) /\ UNCHANGED <<disk, memory, mtime, poll, owed, causes>>
    BY <1>4 DEF F!Stat, F!At_, F!center, In
  <2>2. CASE disk.mtime <= mtime
    <3>1. Only(k) /\ call'[k].pc = "resolved"
      BY <1>3, <1>4, <2>2 DEF F!Stat
    <3> QED BY <2>1, <3>1 DEF CallStep, QuietStep, In, F!Writing, F!Resolving
  <2>3. CASE ~(disk.mtime <= mtime)
    <3>1. call' = [call EXCEPT ![k] = [call[k] EXCEPT !.pc = "load", !.mtime = disk.mtime]]
      BY <1>0, <1>4, <2>3 DEF F!Stat, FileType, IsCall, CallKeys
    <3>2. Only(k) /\ call'[k].pc = "load" /\ call'[k].mtime = disk.mtime
      <4> DEFINE n == [call[k] EXCEPT !.pc = "load", !.mtime = disk.mtime]
      <4>1. IsCall(n) /\ n.pc = "load" /\ n.mtime = disk.mtime
        BY ONLY <1>0 DEF IsCall, CallKeys
      <4>2. call' = [call EXCEPT ![k] = n]
        BY <3>1
      <4> HIDE DEF n
      <4> QED BY <4>1, <4>2, CallMoves
    <3> QED BY <2>1, <3>2 DEF CallStep, StatStep
  <2> QED BY <2>2, <2>3
<1>5. CASE F!Load(k)
  <2>1. /\ call' = [call EXCEPT ![k] = [call[k] EXCEPT !.pc = "apply", !.data = disk.content]]
        /\ In(k, {"load"}) /\ UNCHANGED <<disk, memory, mtime, poll, owed, causes>>
    BY <1>0, <1>5 DEF F!Load, F!At_, F!center, In, FileType, IsCall, CallKeys
  <2>2. Only(k) /\ call'[k].pc = "apply" /\ call'[k].data = disk.content /\ call'[k].mtime = call[k].mtime
    <3> DEFINE n == [call[k] EXCEPT !.pc = "apply", !.data = disk.content]
    <3>1. IsCall(n) /\ n.pc = "apply" /\ n.data = disk.content /\ n.mtime = call[k].mtime
      BY ONLY <1>0 DEF IsCall, CallKeys
    <3>2. call' = [call EXCEPT ![k] = n]
      BY <2>1
    <3> HIDE DEF n
    <3> QED BY <3>1, <3>2, CallMoves
  <2> QED BY <2>1, <2>2 DEF CallStep, LoadStep
<1>6. CASE F!LoadFails(k)
  <2>1. In(k, {"load"}) /\ UNCHANGED <<disk, memory, mtime, poll, owed, causes>>
    BY <1>6 DEF F!LoadFails, F!At_, F!center, In
  <2>2. Only(k) /\ call'[k].pc = "resolved"
    BY <1>3, <1>6 DEF F!LoadFails
  <2> QED BY <2>1, <2>2 DEF CallStep, QuietStep, In, F!Writing, F!Resolving
<1>7. CASE F!ApplyResolve(k)
  <2>1. /\ In(k, {"apply"}) /\ F!MutexFree /\ UNCHANGED <<disk, poll, owed, causes>>
        /\ Takes(call[k].data, call[k].mtime)
    BY <1>7 DEF F!ApplyResolve, F!At_, F!Apply, In, Takes
  <2>2. Only(k) /\ call'[k].pc = "resolved"
    BY <1>3, <1>7 DEF F!ApplyResolve
  <2> QED BY <2>1, <2>2 DEF CallStep, ApplyStep
<1>8. CASE F!WriteBack(k)
  <2>1. /\ call' = [call EXCEPT ![k] = F!Idle]
        /\ In(k, {"resolved"}) /\ UNCHANGED <<disk, memory, mtime, poll, owed, causes>>
    BY <1>8 DEF F!WriteBack, F!At_, F!Leave, F!center, In
  <2>2. Only(k) /\ call'[k].pc = "idle"
    <3> DEFINE n == F!Idle
    <3>1. IsCall(n) /\ n.pc = "idle"
      BY ONLY <1>0 DEF IsCall, CallKeys, F!Idle
    <3>2. call' = [call EXCEPT ![k] = n]
      BY <2>1
    <3> HIDE DEF n
    <3> QED BY <3>1, <3>2, CallMoves
  <2> QED BY <2>1, <2>2 DEF CallStep, QuietStep, In, F!Writing, F!Resolving
<1> QED
  <2>1. QuietStep(k) => CallStep(k)
    BY DEF CallStep
  <2> QED BY <1>1, <1>2, <1>4, <1>5, <1>6, <1>7, <1>8, <2>1 DEF F!Reads

LEMMA PutsStep ==
  ASSUME FileType, NEW k \in F!Callers, F!Puts(k)
  PROVE  CallStep(k)
<1>0. IsCall(call[k])
  BY DEF FileType
<1>1. ASSUME NEW slot, NEW e, F!Persist(k, slot, e) PROVE CallStep(k)
  <2> DEFINE n == [call[k] EXCEPT !.pc = "read", !.slot = slot, !.entry = e]
  <2>1. IsCall(n) /\ n.pc = "read" /\ n.slot = slot /\ n.entry = e
    BY ONLY <1>0 DEF IsCall, CallKeys
  <2>2. call' = [call EXCEPT ![k] = n]
    BY <1>0, <1>1 DEF F!Persist, FileType, IsCall, CallKeys
  <2> HIDE DEF n
  <2>3. Only(k) /\ call'[k] = n
    BY <2>1, <2>2, CallMoves
  <2>4. /\ F!LockFree
        /\ memory' = [memory EXCEPT !.over[slot] = e]
        /\ causes' = causes \cup (IF disk.mtime > mtime THEN {"overtaken"} ELSE {})
        /\ owed' = [owed EXCEPT ![slot] = Unset]
        /\ UNCHANGED <<disk, mtime, poll>>
    BY <1>1 DEF F!Persist
  <2> QED BY <2>1, <2>3, <2>4 DEF CallStep, PersistStep
<1>2. CASE F!ReadRaw(k)
  <2> DEFINE d == [disk.content EXCEPT !.over[call[k].slot] = call[k].entry]
             n == [call[k] EXCEPT !.pc = "truncate", !.data = d]
  <2>1. In(k, {"read"}) /\ UNCHANGED <<disk, memory, mtime, poll, owed, causes>>
    BY <1>2 DEF F!ReadRaw, F!At_, F!center, In
  <2>2. call' = [call EXCEPT ![k] = n]
    BY <1>0, <1>2 DEF F!ReadRaw, F!Entered, FileType, IsCall, CallKeys
  <2> HIDE DEF d
  <2>3. IsCall(n) /\ n.pc = "truncate" /\ n.data = d /\ n.slot = call[k].slot /\ n.entry = call[k].entry
    BY ONLY <1>0 DEF IsCall, CallKeys
  <2> HIDE DEF n
  <2>4. Only(k) /\ call'[k] = n
    BY <2>2, <2>3, CallMoves
  <2>5. call'[k].data = [disk.content EXCEPT !.over[call[k].slot] = call[k].entry]
    BY ONLY <2>3, <2>4 DEF d
  <2> QED BY <2>1, <2>3, <2>4, <2>5 DEF CallStep, ReadStep
<1>3. ASSUME NEW pc_, F!Go(k, pc_) PROVE Only(k) /\ call'[k] = [call[k] EXCEPT !.pc = pc_]
  <2> DEFINE n == [call[k] EXCEPT !.pc = pc_]
  <2>1. IsCall(n)
    BY ONLY <1>0 DEF IsCall, CallKeys
  <2>2. call' = [call EXCEPT ![k] = n]
    BY <1>3 DEF F!Go
  <2> HIDE DEF n
  <2>3. Only(k) /\ call'[k] = n
    BY <2>1, <2>2, CallMoves
  <2> QED BY <2>3 DEF n
<1>4. CASE F!Truncate(k)
  <2>1. /\ In(k, {"truncate"}) /\ UNCHANGED <<memory, mtime, poll, owed, causes>>
        /\ disk' = [content |-> F!Emptied, mtime |-> disk.mtime + 1] /\ F!Go(k, "fill")
    BY <1>4 DEF F!Truncate, F!At_, F!Stamp, F!center, In
  <2> QED BY <1>3, <2>1 DEF CallStep, TruncateStep
<1>5. CASE F!Fill(k)
  <2>1. /\ In(k, {"fill"}) /\ UNCHANGED <<memory, mtime, poll, owed, causes>>
        /\ \E tick \in {0, 1} : disk' = [content |-> call[k].data, mtime |-> disk.mtime + tick]
        /\ F!Go(k, "commit")
    BY <1>5 DEF F!Fill, F!At_, F!center, In
  <2> QED BY <1>3, <2>1 DEF CallStep, FillStep
<1>6. CASE F!Commit(k)
  <2> DEFINE n == [call[k] EXCEPT !.pc = "notify", !.data = Unset, !.entry = Unset]
  <2>1. /\ In(k, {"commit"}) /\ mtime' = disk.mtime
        /\ owed' = [owed EXCEPT ![call[k].slot] = call[k].entry]
        /\ UNCHANGED <<disk, memory, poll, causes>>
    BY <1>6 DEF F!Commit, F!At_, In
  <2>2. call' = [call EXCEPT ![k] = n]
    BY <1>0, <1>6 DEF F!Commit, FileType, IsCall, CallKeys
  <2>3. IsCall(n) /\ n.pc = "notify"
    BY ONLY <1>0 DEF IsCall, CallKeys
  <2> HIDE DEF n
  <2>4. Only(k) /\ call'[k] = n
    BY <2>2, <2>3, CallMoves
  <2> QED BY <2>1, <2>3, <2>4 DEF CallStep, CommitStep
<1>7. ASSUME F!Leave(k) PROVE Only(k) /\ call'[k].pc = "idle"
  <2>1. IsCall(F!Idle) /\ F!Idle.pc = "idle"
    BY DEF IsCall, CallKeys, F!Idle
  <2>2. call' = [call EXCEPT ![k] = F!Idle]
    BY <1>7 DEF F!Leave
  <2> QED BY <2>1, <2>2, CallMoves
<1>8. CASE F!WriteFails(k)
  <2>1. /\ In(k, {"read", "truncate", "fill"}) /\ F!Leave(k)
        /\ causes' = causes \cup {IF In(k, {"fill"}) THEN "torn" ELSE "unsaved"}
        /\ UNCHANGED <<disk, memory, mtime, poll, owed>>
    BY <1>8 DEF F!WriteFails, F!At_, F!Writing, F!center, In
  <2> QED BY <1>7, <2>1 DEF CallStep, FailStep
<1>9. CASE F!Notify(k)
  <2>1. In(k, {"notify"}) /\ F!Leave(k) /\ UNCHANGED <<disk, memory, mtime, poll, owed, causes>>
    BY <1>9 DEF F!Notify, F!At_, F!center, In
  <2>2. Only(k) /\ call'[k].pc = "idle"
    BY <1>7, <2>1
  <2> QED BY <2>1, <2>2 DEF CallStep, QuietStep, In, F!Writing, F!Resolving
<1> QED
  <2>1. CASE F!Write(k) \/ F!PutPrompt(k) \/ F!DeletePrompt(k) \/ F!Rollback(k)
    <3>1. PICK slot, e : F!Persist(k, slot, e)
      BY <2>1 DEF F!Write, F!PutPrompt, F!DeletePrompt, F!Rollback, F!WritePrompt
    <3> QED BY <1>1, <3>1
  <2> QED BY <1>2, <1>4, <1>5, <1>6, <1>8, <1>9, <2>1 DEF F!Puts

\* What the poll loop does.
LEMMA PollSteps ==
  ASSUME FileType, F!PollStep
  PROVE  /\ IsPoll(poll') /\ UNCHANGED <<disk, call, owed>>
         /\ \/ /\ poll.pc = "asleep" /\ poll'.pc = "stat"
               /\ poll'.last = poll.last /\ poll'.seen = disk.mtime
               /\ UNCHANGED <<memory, mtime, causes>>
            \/ /\ poll.pc = "stat" /\ poll'.pc = "event" /\ disk.mtime <= mtime
               /\ poll'.last = poll.last /\ poll'.seen = poll.seen
               /\ UNCHANGED <<memory, mtime, causes>>
            \/ /\ poll.pc = "stat" /\ poll'.pc = "load" /\ poll'.mtime = disk.mtime
               /\ poll'.last = poll.last /\ poll'.seen = poll.seen
               /\ UNCHANGED <<memory, mtime, causes>>
            \/ /\ poll.pc = "load" /\ poll'.pc = "apply"
               /\ poll'.mtime = poll.mtime /\ poll'.data = disk.content
               /\ poll'.last = poll.last /\ poll'.seen = poll.seen
               /\ UNCHANGED <<memory, mtime, causes>>
            \/ /\ poll.pc = "load" /\ poll'.pc = "event" /\ causes' = causes \cup {"unread"}
               /\ poll'.last = poll.last /\ poll'.seen = poll.seen
               /\ UNCHANGED <<memory, mtime>>
            \/ /\ poll.pc = "apply" /\ poll'.pc = "event" /\ F!MutexFree
               /\ Takes(poll.data, poll.mtime) /\ causes' = causes
               /\ poll'.last = poll.last /\ poll'.seen = poll.seen
            \/ /\ poll.pc = "event" /\ poll'.pc = "asleep"
               /\ poll'.last = poll.seen /\ poll'.seen = 0
               /\ UNCHANGED <<memory, mtime, causes>>
<1>0. poll = [x \in PollKeys |-> poll[x]]
  BY DEF FileType, IsPoll
<1> USE DEF PollKeys, IsPoll
<1>1. ASSUME F!Heard
      PROVE  IsPoll(poll') /\ poll'.pc = "event" /\ poll'.last = poll.last /\ poll'.seen = poll.seen
  BY ONLY <1>0, <1>1 DEF F!Heard, PollKeys, IsPoll
<1>2. CASE F!Wake
  <2>1. /\ poll' = [poll EXCEPT !.pc = "stat", !.seen = disk.mtime] /\ poll.pc = "asleep"
        /\ UNCHANGED <<disk, call, owed, memory, mtime, causes>>
    BY <1>2 DEF F!Wake, F!center
  <2>2. IsPoll(poll') /\ poll'.pc = "stat" /\ poll'.last = poll.last /\ poll'.seen = disk.mtime
    BY ONLY <1>0, <2>1 DEF PollKeys, IsPoll
  <2> QED BY ONLY <2>1, <2>2
<1>3. CASE F!PollStat
  <2>1. poll.pc = "stat" /\ UNCHANGED <<disk, call, owed, memory, mtime, causes>>
    BY <1>3 DEF F!PollStat, F!center
  <2>2. CASE disk.mtime <= mtime
    BY <1>1, <1>3, <2>1, <2>2 DEF F!PollStat
  <2>3. CASE ~(disk.mtime <= mtime)
    <3>1. poll' = [poll EXCEPT !.pc = "load", !.mtime = disk.mtime]
      BY <1>3, <2>3 DEF F!PollStat
    <3>2. /\ IsPoll(poll') /\ poll'.pc = "load" /\ poll'.mtime = disk.mtime
          /\ poll'.last = poll.last /\ poll'.seen = poll.seen
      BY ONLY <1>0, <3>1 DEF PollKeys, IsPoll
    <3> QED BY ONLY <2>1, <3>2
  <2> QED BY <2>2, <2>3
<1>4. CASE F!PollLoad
  <2>1. /\ poll' = [poll EXCEPT !.pc = "apply", !.data = disk.content] /\ poll.pc = "load"
        /\ UNCHANGED <<disk, call, owed, memory, mtime, causes>>
    BY <1>4 DEF F!PollLoad, F!center
  <2>2. /\ IsPoll(poll') /\ poll'.pc = "apply" /\ poll'.mtime = poll.mtime /\ poll'.data = disk.content
        /\ poll'.last = poll.last /\ poll'.seen = poll.seen
    BY ONLY <1>0, <2>1 DEF PollKeys, IsPoll
  <2> QED BY ONLY <2>1, <2>2
<1>5. CASE F!PollLoadFails
  <2>1. /\ poll.pc = "load" /\ causes' = causes \cup {"unread"} /\ F!Heard
        /\ UNCHANGED <<disk, call, owed, memory, mtime>>
    BY <1>5 DEF F!PollLoadFails, F!center
  <2> QED BY <1>1, <2>1
<1>6. CASE F!PollApply
  <2>1. /\ poll.pc = "apply" /\ F!MutexFree /\ Takes(poll.data, poll.mtime) /\ F!Heard
        /\ UNCHANGED <<disk, call, owed, causes>>
    BY <1>6 DEF F!PollApply, F!Apply, Takes
  <2> QED BY <1>1, <2>1
<1>7. CASE F!PollEvent
  <2>1. /\ poll' = F!Asleep(poll.seen) /\ poll.pc = "event"
        /\ UNCHANGED <<disk, call, owed, memory, mtime, causes>>
    BY <1>7 DEF F!PollEvent, F!center
  <2>2. IsPoll(poll') /\ poll'.pc = "asleep" /\ poll'.last = poll.seen /\ poll'.seen = 0
    BY ONLY <2>1 DEF PollKeys, IsPoll, F!Asleep
  <2> QED BY ONLY <2>1, <2>2
<1> QED BY <1>2, <1>3, <1>4, <1>5, <1>6, <1>7 DEF F!PollStep

\* What an operator, a crash and a minute do.
EditStep ==
  /\ \E slot, e :
       /\ disk' = [content |-> [disk.content EXCEPT !.over[slot] = e], mtime |-> disk.mtime + 1]
       /\ owed' = [owed EXCEPT ![slot] = Unset]
  /\ causes' = causes \cup (IF F!MutexFree THEN {} ELSE {"overtaken", "raced"})
  /\ UNCHANGED <<memory, mtime, call, poll>>
RestartStep ==
  /\ memory' = F!Loaded(disk.content) /\ mtime' = disk.mtime
  /\ call' = [k \in F!Callers |-> F!Idle] /\ poll' = F!Asleep(disk.mtime)
  /\ causes' = (causes \ {"overtaken", "unsaved", "unread"})
               \cup (IF \E k \in F!Callers : In(k, {"fill"}) THEN {"torn"} ELSE {})
  /\ UNCHANGED <<disk, owed>>

LEMMA WorldSteps ==
  ASSUME FileType, F!Next
  PROVE  \/ \E k \in F!Callers : CallStep(k)
         \/ F!PollStep
         \/ EditStep \/ RestartStep
         \/ UNCHANGED <<disk, memory, mtime, call, poll, owed, causes>>
<1>1. ASSUME NEW k \in Readers, F!Reads(k) PROVE \E j \in F!Callers : CallStep(j)
  BY <1>1, ReadsStep DEF F!Callers
<1>2. ASSUME NEW k \in Writers, F!Puts(k) PROVE \E j \in F!Callers : CallStep(j)
  BY <1>2, PutsStep DEF F!Callers
<1>3. CASE F!Edit
  <2>1. PICK put \in Edits :
          /\ disk' = [content |-> [disk.content EXCEPT !.over[put.slot] = put.entry], mtime |-> disk.mtime + 1]
          /\ owed' = [owed EXCEPT ![put.slot] = Unset]
    BY <1>3 DEF F!Edit, F!Stamp
  <2>2. /\ causes' = causes \cup (IF F!MutexFree THEN {} ELSE {"overtaken", "raced"})
        /\ UNCHANGED <<memory, mtime, call, poll>>
    BY <1>3 DEF F!Edit, F!center
  <2> QED BY <2>1, <2>2 DEF EditStep
<1>4. CASE F!Restart
  BY <1>4 DEF F!Restart, F!At_, In, RestartStep
<1>5. CASE F!Tick
  BY <1>5 DEF F!Tick, F!center
<1> QED BY <1>1, <1>2, <1>3, <1>4, <1>5 DEF F!Next

\* What an entry in a content changes, and that loading lets it pass.
LEMMA ContentHolds ==
  ASSUME NEW c, IsContent(c), NEW s, NEW e
  PROVE  /\ IsContent([c EXCEPT !.over[s] = e])
         /\ [c EXCEPT !.over[s] = e].over = [c.over EXCEPT ![s] = e]
         /\ F!Loaded([c EXCEPT !.over[s] = e]) = [F!Loaded(c) EXCEPT !.over[s] = e]
<1>1. /\ [c EXCEPT !.over[s] = e].over = [c.over EXCEPT ![s] = e]
      /\ [c EXCEPT !.over[s] = e].defaults = c.defaults
      /\ [c EXCEPT !.over[s] = e] = [x \in {"defaults", "over"} |-> [c EXCEPT !.over[s] = e][x]]
  BY DEF IsContent
<1>2. IsContent([c EXCEPT !.over[s] = e])
  BY <1>1 DEF IsContent
<1>3. F!Loaded([c EXCEPT !.over[s] = e]) = [F!Loaded(c) EXCEPT !.over[s] = e]
  <2> DEFINE d == [c EXCEPT !.over[s] = e]
  <2>1. F!Loaded(d) = [d EXCEPT !.defaults = F!FlattenDefaults(c.defaults)]
    BY <1>1 DEF F!Loaded
  <2>2. F!Loaded(c) = [c EXCEPT !.defaults = F!FlattenDefaults(c.defaults)]
    BY DEF F!Loaded
  <2> DEFINE f == F!FlattenDefaults(c.defaults)
  <2> HIDE DEF f
  <2>3. [[c EXCEPT !.over[s] = e] EXCEPT !.defaults = f] = [[c EXCEPT !.defaults = f] EXCEPT !.over[s] = e]
    BY DEF IsContent
  <2> QED BY <2>1, <2>2, <2>3 DEF f
<1> QED BY <1>1, <1>2, <1>3

LEMMA EmptiedHolds == IsContent(F!Emptied)
  BY DEF IsContent, F!Emptied, F!Nothing

-----------------------------------------------------------------------------
(* The file: every step keeps the invariant *)

LEMMA TypeOfCall ==
  ASSUME FileType, NEW k \in F!Callers, CallStep(k)
  PROVE  FileType'
<1>1. /\ disk = [content |-> disk.content, mtime |-> disk.mtime]
      /\ IsContent(disk.content) /\ disk.mtime \in Nat /\ mtime \in Nat /\ mtime <= disk.mtime
      /\ owed = [slot \in Slots |-> owed[slot]]
      /\ causes \subseteq {"overtaken", "unsaved", "unread", "torn", "raced"}
  BY DEF FileType
<1>2. /\ In(k, {"apply", "truncate", "fill", "commit"}) => IsContent(call[k].data)
      /\ In(k, {"load", "apply"}) => call[k].mtime \in Nat /\ call[k].mtime <= disk.mtime
      /\ IsCall(call[k])
  BY DEF FileType
<1>3. Only(k) /\ poll' = poll
  BY DEF CallStep, QuietStep, StatStep, LoadStep, ApplyStep, PersistStep, ReadStep, TruncateStep,
         FillStep, CommitStep, FailStep
<1>4. /\ disk' = [content |-> disk'.content, mtime |-> disk'.mtime]
      /\ IsContent(disk'.content) /\ disk'.mtime \in Nat /\ disk.mtime <= disk'.mtime
  <2>1. disk' = disk \/ TruncateStep(k) \/ FillStep(k)
    BY DEF CallStep, QuietStep, StatStep, LoadStep, ApplyStep, PersistStep, ReadStep, CommitStep, FailStep
  <2>2. CASE TruncateStep(k)
    BY <1>1, <2>2, EmptiedHolds DEF TruncateStep
  <2>3. CASE FillStep(k)
    BY <1>1, <1>2, <2>3 DEF FillStep, In
  <2> QED BY <1>1, <2>1, <2>2, <2>3
<1>5. mtime' \in Nat /\ mtime' <= disk'.mtime
  <2>1. mtime' = mtime \/ (ApplyStep(k) /\ disk' = disk) \/ (CommitStep(k) /\ disk' = disk)
    BY DEF CallStep, QuietStep, StatStep, LoadStep, ApplyStep, PersistStep, ReadStep, TruncateStep,
           FillStep, CommitStep, FailStep
  <2>2. CASE ApplyStep(k)
    BY <1>1, <1>2, <1>4, <2>2 DEF ApplyStep, Takes, In
  <2>3. CASE CommitStep(k)
    BY <1>1, <1>4, <2>3 DEF CommitStep
  <2> QED BY <1>1, <1>4, <2>1, <2>2, <2>3
<1>6. /\ owed' = [slot \in Slots |-> owed'[slot]]
      /\ causes' \subseteq {"overtaken", "unsaved", "unread", "torn", "raced"}
  <2>1. \/ owed' = owed
        \/ \E slot, e : owed' = [owed EXCEPT ![slot] = e]
    BY DEF CallStep, QuietStep, StatStep, LoadStep, ApplyStep, PersistStep, ReadStep, TruncateStep,
           FillStep, CommitStep, FailStep
  <2>2. causes' = causes \/ \E x \in {"overtaken", "unsaved", "torn"} : causes' \subseteq causes \cup {x}
    BY DEF CallStep, QuietStep, StatStep, LoadStep, ApplyStep, PersistStep, ReadStep, TruncateStep,
           FillStep, CommitStep, FailStep
  <2>3. owed' = [slot \in Slots |-> owed'[slot]]
    BY ONLY <1>1, <2>1
  <2> QED BY ONLY <1>1, <2>2, <2>3
<1>7. ASSUME NEW j \in F!Callers
      PROVE  /\ IsCall(call'[j])
             /\ In(j, {"apply", "truncate", "fill", "commit"})' => IsContent(call'[j].data)
             /\ In(j, {"load", "apply"})' => call'[j].mtime \in Nat /\ call'[j].mtime <= disk'.mtime
  <2>1. CASE j # k
    <3>1. call'[j] = call[j]
      BY <1>3, <2>1 DEF Only
    <3>2. /\ IsCall(call[j])
          /\ In(j, {"apply", "truncate", "fill", "commit"}) => IsContent(call[j].data)
          /\ In(j, {"load", "apply"}) => call[j].mtime \in Nat /\ call[j].mtime <= disk.mtime
      BY DEF FileType
    <3> QED BY ONLY <1>1, <1>4, <3>1, <3>2 DEF In
  <2>2. CASE j = k
    <3>1. IsCall(call'[k])
      BY <1>3 DEF Only
    <3>2. call'[k].pc \in {"load", "apply"} =>
            disk' = disk /\ (call'[k].mtime = disk.mtime \/ (In(k, {"load"}) /\ call'[k].mtime = call[k].mtime))
      <4>1. call'[k].pc \in {"load", "apply"} => StatStep(k) \/ LoadStep(k)
        BY <1>2 DEF CallStep, QuietStep, StatStep, LoadStep, ApplyStep, PersistStep, ReadStep, TruncateStep,
           FillStep, CommitStep, FailStep, IsCall, CallKeys
      <4> QED BY <4>1 DEF StatStep, LoadStep
    <3>3. call'[k].pc \in {"apply", "truncate", "fill", "commit"} => IsContent(call'[k].data)
      <4>1. CASE LoadStep(k)
        BY <1>1, <4>1 DEF LoadStep
      <4>2. CASE ReadStep(k)
        <5>1. IsContent([disk.content EXCEPT !.over[call[k].slot] = call[k].entry])
          BY ONLY <1>1, ContentHolds
        <5>2. call'[k].data = [disk.content EXCEPT !.over[call[k].slot] = call[k].entry]
          BY <4>2 DEF ReadStep
        <5> QED BY ONLY <5>1, <5>2
      <4>3. CASE TruncateStep(k) \/ FillStep(k)
        <5>1. In(k, {"truncate", "fill"}) /\ call'[k].data = call[k].data
          BY <1>2, <4>3 DEF TruncateStep, FillStep, IsCall, CallKeys, In
        <5> QED BY <1>2, <5>1 DEF In
      <4>4. ASSUME call'[k].pc \in {"apply", "truncate", "fill", "commit"}
            PROVE  LoadStep(k) \/ ReadStep(k) \/ TruncateStep(k) \/ FillStep(k)
        <5>1. ~QuietStep(k)
          BY <4>4 DEF QuietStep, F!Writing
        <5>2. ~StatStep(k) /\ ~ApplyStep(k) /\ ~PersistStep(k) /\ ~CommitStep(k) /\ ~FailStep(k)
          BY <4>4 DEF StatStep, ApplyStep, PersistStep, CommitStep, FailStep
        <5> QED BY ONLY <5>1, <5>2, CallStep(k) DEF CallStep
      <4> QED BY ONLY <4>1, <4>2, <4>3, <4>4
    <3> QED BY <1>1, <1>2, <1>4, <2>2, <3>1, <3>2, <3>3 DEF In
  <2> QED BY <2>1, <2>2
<1>8. /\ IsPoll(poll) /\ poll.last \in Nat /\ poll.seen \in Nat
      /\ poll.pc \in {"asleep", "stat", "load", "apply", "event"}
      /\ poll.pc \in {"stat", "load", "apply", "event"} => poll.seen <= disk.mtime
      /\ poll.pc \in {"load", "apply"} =>
           poll.mtime \in Nat /\ poll.seen <= poll.mtime /\ poll.mtime <= disk.mtime
      /\ poll.pc = "apply" => IsContent(poll.data)
  BY DEF FileType
<1>9. call' = [j \in F!Callers |-> call'[j]]
  BY <1>3 DEF Only
<1>10. /\ IsPoll(poll)' /\ poll'.last \in Nat /\ poll'.seen \in Nat
       /\ poll'.pc \in {"asleep", "stat", "load", "apply", "event"}
       /\ poll'.pc \in {"stat", "load", "apply", "event"} => poll'.seen <= disk'.mtime
       /\ poll'.pc \in {"load", "apply"} =>
            poll'.mtime \in Nat /\ poll'.seen <= poll'.mtime /\ poll'.mtime <= disk'.mtime
       /\ poll'.pc = "apply" => IsContent(poll'.data)
  BY ONLY <1>1, <1>3, <1>4, <1>8
<1> QED BY ONLY <1>4, <1>5, <1>6, <1>7, <1>9, <1>10 DEF FileType, F!Callers

\* What an operator, the poll loop, a crash and a minute leave as it is.
LEMMA TypeStep == FileType /\ F!Next => FileType'
<1> SUFFICES ASSUME FileType, F!Next PROVE FileType'
  OBVIOUS
<1>1. /\ disk = [content |-> disk.content, mtime |-> disk.mtime]
      /\ IsContent(disk.content) /\ disk.mtime \in Nat /\ mtime \in Nat /\ mtime <= disk.mtime
      /\ owed = [slot \in Slots |-> owed[slot]]
      /\ causes \subseteq {"overtaken", "unsaved", "unread", "torn", "raced"}
      /\ call = [k \in F!Callers |-> call[k]]
      /\ \A k \in F!Callers :
           /\ IsCall(call[k])
           /\ In(k, {"apply", "truncate", "fill", "commit"}) => IsContent(call[k].data)
           /\ In(k, {"load", "apply"}) => call[k].mtime \in Nat /\ call[k].mtime <= disk.mtime
  BY DEF FileType
<1>2. /\ IsPoll(poll) /\ poll.last \in Nat /\ poll.seen \in Nat
      /\ poll.pc \in {"asleep", "stat", "load", "apply", "event"}
      /\ poll.pc \in {"stat", "load", "apply", "event"} => poll.seen <= disk.mtime
      /\ poll.pc \in {"load", "apply"} =>
           poll.mtime \in Nat /\ poll.seen <= poll.mtime /\ poll.mtime <= disk.mtime
      /\ poll.pc = "apply" => IsContent(poll.data)
  BY DEF FileType
<1>3. ASSUME F!PollStep PROVE FileType'
  <2>1. /\ UNCHANGED <<disk, call, owed>> /\ mtime' \in Nat /\ mtime' <= disk.mtime
        /\ causes' \subseteq causes \cup {"unread"}
    BY ONLY <1>1, <1>2, <1>3, FileType, PollSteps DEF Takes
  <2>2. /\ IsPoll(poll') /\ poll'.last \in Nat /\ poll'.seen \in Nat
        /\ poll'.pc \in {"asleep", "stat", "load", "apply", "event"}
    BY ONLY <1>1, <1>2, <1>3, FileType, PollSteps
  <2>3. /\ poll'.pc \in {"stat", "load", "apply", "event"} => poll'.seen <= disk.mtime
        /\ poll'.pc \in {"load", "apply"} =>
             poll'.mtime \in Nat /\ poll'.seen <= poll'.mtime /\ poll'.mtime <= disk.mtime
        /\ poll'.pc = "apply" => IsContent(poll'.data)
    BY ONLY <1>1, <1>2, <1>3, FileType, PollSteps
  <2> QED BY ONLY <1>1, <2>1, <2>2, <2>3 DEF FileType, F!Callers, In
<1>4. ASSUME EditStep PROVE FileType'
  <2>0. PICK slot, e :
          /\ disk' = [content |-> [disk.content EXCEPT !.over[slot] = e], mtime |-> disk.mtime + 1]
          /\ owed' = [owed EXCEPT ![slot] = Unset]
    BY <1>4 DEF EditStep
  <2>00. /\ UNCHANGED <<memory, mtime, call, poll>>
         /\ causes' \subseteq causes \cup {"overtaken", "raced"}
    BY <1>4 DEF EditStep
  <2>1. /\ disk' = [content |-> disk'.content, mtime |-> disk'.mtime]
        /\ IsContent(disk'.content) /\ disk'.mtime = disk.mtime + 1
    BY ONLY <1>1, <2>0, ContentHolds
  <2>2. owed' = [s \in Slots |-> owed'[s]]
    BY ONLY <1>1, <2>0
  <2>3. causes' \subseteq {"overtaken", "unsaved", "unread", "torn", "raced"}
    BY ONLY <1>1, <2>00
  <2>4. \A m \in Nat : m <= disk.mtime => m <= disk'.mtime
    BY ONLY <1>1, <2>1
  <2>5. /\ mtime' \in Nat /\ mtime' <= disk'.mtime /\ disk'.mtime \in Nat
        /\ \A k \in F!Callers :
             /\ IsCall(call'[k])
             /\ call'[k].pc \in {"apply", "truncate", "fill", "commit"} => IsContent(call'[k].data)
             /\ call'[k].pc \in {"load", "apply"} => call'[k].mtime \in Nat /\ call'[k].mtime <= disk'.mtime
    BY ONLY <1>1, <2>00, <2>1, <2>4 DEF In
  <2>6. /\ IsPoll(poll') /\ poll'.last \in Nat /\ poll'.seen \in Nat
        /\ poll'.pc \in {"asleep", "stat", "load", "apply", "event"}
        /\ poll'.pc \in {"stat", "load", "apply", "event"} => poll'.seen <= disk'.mtime
        /\ poll'.pc \in {"load", "apply"} =>
             poll'.mtime \in Nat /\ poll'.seen <= poll'.mtime /\ poll'.mtime <= disk'.mtime
        /\ poll'.pc = "apply" => IsContent(poll'.data)
    BY ONLY <1>2, <2>00, <2>4
  <2>7. call' = [k \in F!Callers |-> call'[k]]
    BY ONLY <1>1, <2>00
  <2> QED BY ONLY <2>1, <2>2, <2>3, <2>5, <2>6, <2>7 DEF FileType, F!Callers, In
<1>5. ASSUME RestartStep PROVE FileType'
  <2>0. /\ mtime' = disk.mtime /\ call' = [k \in F!Callers |-> F!Idle]
        /\ poll' = F!Asleep(disk.mtime) /\ causes' \subseteq causes \cup {"torn"}
        /\ UNCHANGED <<disk, owed>>
    BY <1>5 DEF RestartStep
  <2>1. IsCall(F!Idle) /\ F!Idle.pc = "idle"
    BY DEF IsCall, CallKeys, F!Idle
  <2>2. /\ IsPoll(poll') /\ poll'.pc = "asleep" /\ poll'.last = disk.mtime /\ poll'.seen = 0
    BY ONLY <2>0 DEF IsPoll, PollKeys, F!Asleep
  <2>3. causes' \subseteq {"overtaken", "unsaved", "unread", "torn", "raced"}
    BY ONLY <1>1, <2>0
  <2>4. \A k \in F!Callers : call'[k] = F!Idle
    BY ONLY <2>0
  <2> QED BY ONLY <1>1, <2>0, <2>1, <2>2, <2>3, <2>4 DEF FileType, F!Callers, In
<1>6. CASE UNCHANGED <<disk, memory, mtime, call, poll, owed, causes>>
  BY ONLY FileType, <1>6 DEF FileType, In, F!Callers
<1> QED BY <1>3, <1>4, <1>5, <1>6, TypeOfCall, WorldSteps

\* One caller is inside the lock.
LEMMA InsideStep == FileType /\ OneInside /\ F!Next => OneInside'
<1> SUFFICES ASSUME FileType, OneInside, F!Next PROVE OneInside'
  OBVIOUS
<1>1. ASSUME NEW k \in F!Callers, CallStep(k) PROVE OneInside'
  <2>1. Only(k)
    BY <1>1 DEF CallStep, QuietStep, StatStep, LoadStep, ApplyStep, PersistStep, ReadStep, TruncateStep,
         FillStep, CommitStep, FailStep
  <2>2. call'[k].pc \in F!Resolving \cup F!Writing =>
          In(k, F!Resolving \cup F!Writing) \/ F!LockFree
    <3> USE DEF F!Resolving, F!Writing, In
    <3>1. CASE QuietStep(k)
      BY <3>1 DEF QuietStep
    <3>2. CASE StatStep(k) \/ LoadStep(k) \/ ApplyStep(k)
      BY <3>2 DEF StatStep, LoadStep, ApplyStep
    <3>3. CASE PersistStep(k)
      BY <3>3 DEF PersistStep
    <3>4. CASE ReadStep(k) \/ TruncateStep(k) \/ FillStep(k)
      BY <3>4 DEF ReadStep, TruncateStep, FillStep
    <3>5. CASE CommitStep(k) \/ FailStep(k)
      BY <3>5 DEF CommitStep, FailStep
    <3> QED BY <1>1, <3>1, <3>2, <3>3, <3>4, <3>5 DEF CallStep
  <2> SUFFICES ASSUME NEW i \in F!Callers, NEW j \in F!Callers, i # j,
                      In(i, F!Resolving \cup F!Writing)', In(j, F!Resolving \cup F!Writing)'
               PROVE  FALSE
    BY DEF OneInside, F!Callers, F!Resolving, F!Writing
  <2>3. ASSUME NEW m \in F!Callers, m # k, In(m, F!Resolving \cup F!Writing)',
               call'[k].pc \in F!Resolving \cup F!Writing
        PROVE  FALSE
    <3>1. In(m, F!Resolving \cup F!Writing)
      BY ONLY <2>1, <2>3 DEF Only, In, F!Resolving, F!Writing
    <3>2. ~F!LockFree
      BY ONLY <3>1, m \in F!Callers DEF F!LockFree, In
    <3> QED BY ONLY <2>2, <2>3, <3>1, <3>2, OneInside, k \in F!Callers DEF OneInside
  <2>4. CASE i = k \/ j = k
    BY <2>3, <2>4 DEF In, F!Resolving, F!Writing
  <2>5. CASE i # k /\ j # k
    <3>1. In(i, F!Resolving \cup F!Writing) /\ In(j, F!Resolving \cup F!Writing)
      BY <2>1, <2>5 DEF Only, In, F!Resolving, F!Writing
    <3> QED BY ONLY <3>1, OneInside, i \in F!Callers, j \in F!Callers, i # j DEF OneInside
  <2> QED BY <2>4, <2>5
<1>2. CASE UNCHANGED call
  BY ONLY OneInside, <1>2 DEF OneInside, In, F!Callers, F!Resolving, F!Writing
<1>3. CASE call' = [k \in F!Callers |-> F!Idle]
  BY ONLY <1>3 DEF OneInside, In, F!Callers, F!Resolving, F!Writing, F!Idle
<1>4. ASSUME F!PollStep PROVE UNCHANGED call
  BY <1>4, PollSteps
<1> QED BY <1>1, <1>2, <1>3, <1>4, WorldSteps DEF EditStep, RestartStep

\* The mtime of what is in memory only grows, but for a restart.
LEMMA MtimeGrows ==
  ASSUME FileType, NEW k \in F!Callers, CallStep(k)
  PROVE  mtime <= mtime' /\ mtime' \in Nat /\ mtime \in Nat
<1>1. mtime \in Nat /\ disk.mtime \in Nat /\ mtime <= disk.mtime
  BY DEF FileType
<1>2. In(k, {"apply"}) => call[k].mtime \in Nat
  BY DEF FileType, In
<1>3. mtime' = mtime \/ ApplyStep(k) \/ mtime' = disk.mtime
  BY DEF CallStep, QuietStep, StatStep, LoadStep, PersistStep, ReadStep, TruncateStep,
         FillStep, CommitStep, FailStep
<1>4. CASE ApplyStep(k)
  <2>1. Takes(call[k].data, call[k].mtime) /\ In(k, {"apply"})
    BY <1>4 DEF ApplyStep
  <2> QED BY ONLY <1>1, <1>2, <2>1 DEF Takes
<1> QED BY ONLY <1>1, <1>3, <1>4

\* A caller between writing the file and taking its mtime stays there, or takes it.
LEMMA CommitLeaves ==
  ASSUME NEW k \in F!Callers, CallStep(k), In(k, {"commit"}) PROVE CommitStep(k)
<1>1. ~QuietStep(k)
  BY DEF QuietStep, In, F!Writing
<1>2. ~PersistStep(k)
  BY DEF PersistStep, F!LockFree, In, F!Writing
<1>3. ~StatStep(k) /\ ~LoadStep(k) /\ ~ApplyStep(k) /\ ~ReadStep(k) /\ ~TruncateStep(k) /\ ~FillStep(k) /\ ~FailStep(k)
  BY DEF StatStep, LoadStep, ApplyStep, ReadStep, TruncateStep, FillStep, FailStep, In
<1> QED BY ONLY <1>1, <1>2, <1>3, CallStep(k) DEF CallStep

\* What was read with the file's mtime stays what the file is.
LEMMA FreshKept ==
  ASSUME FileType, NEW k \in F!Callers, CallStep(k),
         NEW stamp \in Nat, NEW data, stamp <= disk.mtime, UpToDate(stamp, data),
         stamp = disk'.mtime, stamp > mtime', \A j \in F!Callers : call'[j].pc # "commit"
  PROVE  data = disk'.content
<1>1. disk.mtime \in Nat /\ mtime <= mtime' /\ mtime' \in Nat /\ mtime \in Nat
  BY MtimeGrows DEF FileType
<1>2. disk' = disk \/ TruncateStep(k) \/ FillStep(k)
  BY DEF CallStep, QuietStep, StatStep, LoadStep, ApplyStep, PersistStep, ReadStep, CommitStep, FailStep
<1>3. ~TruncateStep(k)
  <2>1. TruncateStep(k) => disk'.mtime = disk.mtime + 1
    BY DEF TruncateStep
  <2> QED BY ONLY <1>1, <2>1, stamp <= disk.mtime, stamp = disk'.mtime, stamp \in Nat
<1>4. ~FillStep(k)
  <2>1. ASSUME FillStep(k) PROVE call'[k].pc = "commit"
    <3>1. IsCall(call[k])
      BY DEF FileType
    <3>2. call'[k] = [call[k] EXCEPT !.pc = "commit"]
      BY <2>1 DEF FillStep
    <3> QED BY ONLY <3>1, <3>2 DEF IsCall, CallKeys
  <2> QED BY <2>1
<1>5. \A j \in F!Callers : ~In(j, {"commit"})
  <2> SUFFICES ASSUME NEW j \in F!Callers, In(j, {"commit"}) PROVE FALSE
    OBVIOUS
  <2>1. Only(k)
    BY DEF CallStep, QuietStep, StatStep, LoadStep, ApplyStep, PersistStep, ReadStep, TruncateStep,
         FillStep, CommitStep, FailStep
  <2>2. j = k
    BY <2>1 DEF Only, In
  <2>3. CommitStep(k)
    BY <2>2, CommitLeaves
  <2>4. mtime' = disk.mtime /\ disk' = disk
    BY <2>3 DEF CommitStep
  <2> QED BY ONLY <1>1, <2>4, stamp = disk'.mtime, stamp > mtime', stamp \in Nat
<1>6. disk' = disk
  BY ONLY <1>2, <1>3, <1>4
<1>7. stamp > mtime
  BY ONLY <1>1, stamp > mtime', stamp \in Nat
<1> QED BY ONLY <1>5, <1>6, <1>7, stamp = disk'.mtime, UpToDate(stamp, data) DEF UpToDate

\* Every step keeps what was read fresh.
LEMMA FreshStep == FileType /\ LoadsAreFresh /\ F!Next => LoadsAreFresh'
<1> SUFFICES ASSUME FileType, LoadsAreFresh, F!Next PROVE LoadsAreFresh'
  OBVIOUS
<1>0. /\ disk.mtime \in Nat /\ mtime \in Nat /\ mtime <= disk.mtime
      /\ \A k \in F!Callers : In(k, {"apply"}) => call[k].mtime \in Nat /\ call[k].mtime <= disk.mtime
      /\ poll.pc = "apply" => poll.mtime \in Nat /\ poll.mtime <= disk.mtime
  BY DEF FileType, In
<1>1. ASSUME NEW k \in F!Callers, CallStep(k) PROVE LoadsAreFresh'
  <2>1. Only(k) /\ poll' = poll
    BY <1>1 DEF CallStep, QuietStep, StatStep, LoadStep, ApplyStep, PersistStep, ReadStep, TruncateStep,
         FillStep, CommitStep, FailStep
  <2>2. ASSUME NEW j \in F!Callers, call'[j].pc = "apply",
               call'[j].mtime = disk'.mtime, call'[j].mtime > mtime',
               \A i \in F!Callers : call'[i].pc # "commit"
        PROVE  call'[j].data = disk'.content
    <3>1. CASE j # k
      <4>1. call'[j] = call[j]
        BY <2>1, <3>1 DEF Only
      <4>2. /\ call[j].pc = "apply" /\ call[j].mtime = disk'.mtime /\ call[j].mtime > mtime'
            /\ In(j, {"apply"})
        BY ONLY <2>2, <4>1 DEF In
      <4>3. UpToDate(call[j].mtime, call[j].data) /\ call[j].mtime \in Nat /\ call[j].mtime <= disk.mtime
        BY ONLY <1>0, <4>2, LoadsAreFresh, j \in F!Callers DEF LoadsAreFresh
      <4>4. call[j].data = disk'.content
        BY ONLY <1>1, <2>2, <4>2, <4>3, FileType, FreshKept
      <4> QED BY ONLY <4>1, <4>4
    <3>2. CASE j = k
      <4>1. LoadStep(k)
        <5>1. call'[k].pc = "apply"
          BY <2>2, <3>2
        <5>2. ~QuietStep(k)
          BY <5>1 DEF QuietStep
        <5>3. ~TruncateStep(k) /\ ~FillStep(k)
          <6>1. IsCall(call[k])
            BY DEF FileType
          <6> QED BY <5>1, <6>1 DEF TruncateStep, FillStep, IsCall, CallKeys
        <5>4. ~StatStep(k) /\ ~ApplyStep(k) /\ ~PersistStep(k) /\ ~ReadStep(k) /\ ~CommitStep(k) /\ ~FailStep(k)
          BY <5>1 DEF StatStep, ApplyStep, PersistStep, ReadStep, CommitStep, FailStep
        <5> QED BY ONLY <1>1, <5>2, <5>3, <5>4 DEF CallStep
      <4> QED BY <3>2, <4>1 DEF LoadStep
    <3> QED BY <3>1, <3>2
  <2>3. ASSUME poll.pc = "apply", poll.mtime = disk'.mtime, poll.mtime > mtime',
               \A i \in F!Callers : call'[i].pc # "commit"
        PROVE  poll.data = disk'.content
    <3>1. UpToDate(poll.mtime, poll.data) /\ poll.mtime \in Nat /\ poll.mtime <= disk.mtime
      BY ONLY <1>0, <2>3, LoadsAreFresh DEF LoadsAreFresh
    <3> QED BY ONLY <1>1, <2>3, <3>1, FileType, FreshKept
  <2> QED BY ONLY <2>1, <2>2, <2>3 DEF LoadsAreFresh, UpToDate, In, F!Callers
<1>2. ASSUME F!PollStep PROVE LoadsAreFresh'
  <2>1. /\ UNCHANGED <<disk, call>> /\ mtime' \in Nat /\ mtime <= mtime'
    BY ONLY <1>0, <1>2, FileType, PollSteps DEF Takes
  <2>2. poll'.pc = "apply" => poll'.data = disk.content
    BY ONLY <1>2, FileType, PollSteps
  <2>3. \A stamp \in Nat : stamp > mtime' => stamp > mtime
    BY ONLY <1>0, <2>1
  <2>4. \A k \in F!Callers : call'[k].pc = "apply" => UpToDate(call[k].mtime, call[k].data) /\ call[k].mtime \in Nat
    BY ONLY <1>0, <2>1, LoadsAreFresh DEF LoadsAreFresh, In
  <2> QED BY ONLY <2>1, <2>2, <2>3, <2>4 DEF LoadsAreFresh, UpToDate, In, F!Callers
<1>3. CASE EditStep
  <2>1. disk'.mtime = disk.mtime + 1 /\ UNCHANGED <<mtime, call, poll>>
    BY <1>3 DEF EditStep
  <2> QED BY ONLY <1>0, <2>1 DEF LoadsAreFresh, UpToDate, In, F!Callers
<1>4. CASE RestartStep
  <2>1. call' = [k \in F!Callers |-> F!Idle] /\ poll' = F!Asleep(disk.mtime)
    BY <1>4 DEF RestartStep
  <2>2. poll'.pc = "asleep" /\ \A k \in F!Callers : call'[k].pc = "idle"
    BY ONLY <2>1 DEF F!Idle, F!Asleep
  <2> QED BY ONLY <2>2 DEF LoadsAreFresh, In, F!Callers
<1>5. CASE UNCHANGED <<disk, memory, mtime, call, poll, owed, causes>>
  BY ONLY <1>5, LoadsAreFresh DEF LoadsAreFresh, UpToDate, In, F!Callers
<1> QED BY <1>1, <1>2, <1>3, <1>4, <1>5, WorldSteps

\* Every step keeps the poll loop's promise.
LEMMA CaughtStep == FileType /\ PollCaught /\ F!Next => PollCaught'
<1> SUFFICES ASSUME FileType, PollCaught, F!Next PROVE PollCaught'
  OBVIOUS
<1>0. /\ disk.mtime \in Nat /\ mtime \in Nat /\ poll.last \in Nat /\ poll.seen \in Nat
      /\ poll.pc \in {"stat", "load", "apply", "event"} => poll.seen <= disk.mtime
      /\ poll.pc \in {"load", "apply"} => poll.mtime \in Nat /\ poll.seen <= poll.mtime
  BY DEF FileType
<1>1. ASSUME NEW k \in F!Callers, CallStep(k) PROVE PollCaught'
  <2>1. poll' = poll /\ causes \subseteq causes'
    BY <1>1 DEF CallStep, QuietStep, StatStep, LoadStep, ApplyStep, PersistStep, ReadStep, TruncateStep,
         FillStep, CommitStep, FailStep
  <2>2. mtime <= mtime' /\ mtime' \in Nat
    BY <1>1, MtimeGrows
  <2> QED BY ONLY <1>0, <2>1, <2>2, PollCaught DEF PollCaught, Clean
<1>2. ASSUME F!PollStep PROVE PollCaught'
  <2>1. causes \subseteq causes' /\ mtime' \in Nat /\ mtime <= mtime'
    BY ONLY <1>0, <1>2, FileType, PollSteps DEF Takes
  <2>2. Clean' => Clean
    BY ONLY <2>1 DEF Clean
  <2>3. ASSUME Clean' PROVE poll'.last <= mtime'
    <3>1. poll'.last = poll.last \/ (poll.pc = "event" /\ poll'.last = poll.seen)
      BY ONLY <1>2, FileType, PollSteps
    <3> QED BY ONLY <1>0, <2>1, <2>2, <2>3, <3>1, PollCaught DEF PollCaught
  <2>4. ASSUME Clean', poll'.pc = "event" PROVE poll'.seen <= mtime'
    <3>1. poll'.seen = poll.seen
      BY ONLY <1>2, <2>4, FileType, PollSteps
    <3>2. \/ poll.pc = "stat" /\ disk.mtime <= mtime
          \/ poll.pc = "load" /\ causes' = causes \cup {"unread"}
          \/ poll.pc = "apply" /\ Takes(poll.data, poll.mtime)
      BY ONLY <1>2, <2>4, FileType, PollSteps
    <3>3. CASE poll.pc = "stat" /\ disk.mtime <= mtime
      BY ONLY <1>0, <2>1, <3>1, <3>3
    <3>4. CASE causes' = causes \cup {"unread"}
      BY ONLY <2>4, <3>4 DEF Clean
    <3>5. CASE poll.pc = "apply" /\ Takes(poll.data, poll.mtime)
      BY ONLY <1>0, <2>1, <3>1, <3>5 DEF Takes
    <3> QED BY ONLY <3>2, <3>3, <3>4, <3>5
  <2> QED BY ONLY <2>3, <2>4 DEF PollCaught
<1>3. CASE EditStep
  <2>1. causes \subseteq causes' /\ UNCHANGED <<mtime, poll>>
    BY <1>3 DEF EditStep
  <2> QED BY ONLY <2>1, PollCaught DEF PollCaught, Clean
<1>4. CASE RestartStep
  <2>1. mtime' = disk.mtime /\ poll' = F!Asleep(disk.mtime)
    BY <1>4 DEF RestartStep
  <2>2. poll'.pc = "asleep" /\ poll'.last = disk.mtime
    BY ONLY <2>1 DEF F!Asleep
  <2> QED BY ONLY <1>0, <2>1, <2>2 DEF PollCaught
<1>5. CASE UNCHANGED <<disk, memory, mtime, call, poll, owed, causes>>
  BY ONLY <1>5, PollCaught DEF PollCaught, Clean
<1> QED BY <1>1, <1>2, <1>3, <1>4, <1>5, WorldSteps

\* Whoever moves inside the lock, or enters it, is the only writer.
LEMMA LoneWriter ==
  ASSUME OneInside, NEW k \in F!Callers, Only(k), In(k, F!Resolving \cup F!Writing) \/ F!LockFree
  PROVE  \A j \in F!Callers : j # k => ~In(j, F!Writing) /\ call'[j] = call[j]
<1> SUFFICES ASSUME NEW j \in F!Callers, j # k PROVE ~In(j, F!Writing) /\ call'[j] = call[j]
  OBVIOUS
<1>1. call'[j] = call[j]
  BY DEF Only
<1>2. ~In(j, F!Writing)
  <2>1. F!LockFree => ~In(j, F!Writing)
    BY DEF F!LockFree, In
  <2>2. In(k, F!Resolving \cup F!Writing) => ~In(j, F!Resolving \cup F!Writing)
    BY DEF OneInside
  <2>3. In(j, F!Writing) => In(j, F!Resolving \cup F!Writing)
    BY DEF In
  <2> QED BY <2>1, <2>2, <2>3
<1> QED BY <1>1, <1>2

\* The steps that are neither in the file nor on the way to it.
LEMMA StillSteps ==
  ASSUME NEW k \in F!Callers, QuietStep(k) \/ StatStep(k) \/ LoadStep(k)
  PROVE  /\ Only(k) /\ ~In(k, F!Writing) /\ call'[k].pc \notin F!Writing
         /\ UNCHANGED <<disk, memory, mtime, owed, causes>>
  BY DEF QuietStep, StatStep, LoadStep, In, F!Writing

\* What is taken over from the file is the file.
LEMMA TakesHolds ==
  ASSUME FileType, MemoryFollows, Clean, F!MutexFree, NEW data, NEW stamp, Takes(data, stamp),
         UpToDate(stamp, data), disk' = disk, mtime' = disk.mtime
  PROVE  memory' = F!Loaded(disk.content)
<1>1. CASE stamp <= mtime
  <2>1. memory' = memory /\ mtime = disk.mtime
    BY <1>1 DEF Takes
  <2> QED BY <2>1 DEF MemoryFollows
<1>2. CASE ~(stamp <= mtime)
  <2>1. memory' = F!Loaded(data) /\ mtime' = stamp
    BY <1>2 DEF Takes
  <2>2. \A k \in F!Callers : ~In(k, {"commit"})
    BY DEF F!MutexFree, F!Writing, In
  <2>3. stamp > mtime
    BY <1>2, <2>1 DEF FileType
  <2>4. data = disk.content
    BY <2>1, <2>2, <2>3 DEF UpToDate
  <2> QED BY <2>1, <2>4
<1> QED BY <1>1, <1>2

\* Every step keeps memory to the file.
LEMMA FollowsStep ==
  FileType /\ OneInside /\ LoadsAreFresh /\ MemoryFollows /\ F!Next => MemoryFollows'
<1> SUFFICES ASSUME FileType, OneInside, LoadsAreFresh, MemoryFollows, F!Next, Clean'
             PROVE  /\ F!MutexFree' /\ mtime' = disk'.mtime => memory' = F!Loaded(disk'.content)
                    /\ \A k \in F!Callers :
                         /\ call'[k].pc = "read" =>
                              memory' = F!Loaded([disk'.content EXCEPT !.over[call'[k].slot] = call'[k].entry])
                         /\ call'[k].pc \in {"truncate", "fill", "commit"} => memory' = F!Loaded(call'[k].data)
                         /\ call'[k].pc = "fill" => mtime' < disk'.mtime
                         /\ call'[k].pc = "commit" => disk'.content = call'[k].data
  BY DEF MemoryFollows, In, F!Callers, F!Loaded
<1> DEFINE Follows(k) ==
             /\ call'[k].pc = "read" =>
                  memory' = F!Loaded([disk'.content EXCEPT !.over[call'[k].slot] = call'[k].entry])
             /\ call'[k].pc \in {"truncate", "fill", "commit"} => memory' = F!Loaded(call'[k].data)
             /\ call'[k].pc = "fill" => mtime' < disk'.mtime
             /\ call'[k].pc = "commit" => disk'.content = call'[k].data
           Match == F!MutexFree' /\ mtime' = disk'.mtime => memory' = F!Loaded(disk'.content)
<1> SUFFICES Match /\ \A k \in F!Callers : Follows(k)
  OBVIOUS
<1>0. /\ disk.mtime \in Nat /\ mtime \in Nat /\ mtime <= disk.mtime /\ IsContent(disk.content)
      /\ \A k \in F!Callers : IsCall(call[k])
  BY DEF FileType
<1>1. \A k \in F!Callers : call'[k].pc \notin F!Writing => Follows(k)
  BY DEF F!Writing
<1>2. Clean =>
        /\ F!MutexFree /\ mtime = disk.mtime => memory = F!Loaded(disk.content)
        /\ \A k \in F!Callers :
             /\ call[k].pc = "read" =>
                  memory = F!Loaded([disk.content EXCEPT !.over[call[k].slot] = call[k].entry])
             /\ call[k].pc \in {"truncate", "fill", "commit"} => memory = F!Loaded(call[k].data)
             /\ call[k].pc = "fill" => mtime < disk.mtime
             /\ call[k].pc = "commit" => disk.content = call[k].data
  BY DEF MemoryFollows, In
<1> HIDE DEF Follows, Match
<1>3. ASSUME NEW k \in F!Callers, CallStep(k) PROVE Match /\ \A j \in F!Callers : Follows(j)
  <2>1. Only(k) /\ causes \subseteq causes'
    BY <1>3 DEF CallStep, QuietStep, StatStep, LoadStep, ApplyStep, PersistStep, ReadStep, TruncateStep,
         FillStep, CommitStep, FailStep
  <2>2. Clean
    BY <2>1 DEF Clean
  <2>3. ASSUME In(k, F!Resolving \cup F!Writing) \/ F!LockFree
        PROVE  \A j \in F!Callers : j # k => Follows(j)
    BY <1>1, <2>1, <2>3, LoneWriter DEF In
  <2>4. CASE QuietStep(k) \/ StatStep(k) \/ LoadStep(k)
    <3>1. /\ ~In(k, F!Writing) /\ call'[k].pc \notin F!Writing
          /\ UNCHANGED <<disk, memory, mtime, owed, causes>>
      BY <2>4, StillSteps
    <3>2. \A j \in F!Callers : j # k => call'[j] = call[j]
      BY <2>1 DEF Only
    <3>3. F!MutexFree' => F!MutexFree
      BY ONLY <3>1, <3>2 DEF F!MutexFree, F!Callers, In, F!Writing
    <3>4. Match
      BY ONLY <1>2, <2>2, <3>1, <3>3 DEF Match
    <3>5. ASSUME NEW j \in F!Callers, j # k PROVE Follows(j)
      BY ONLY <1>2, <2>2, <3>1, <3>2, <3>5 DEF Follows
    <3> QED BY <1>1, <3>1, <3>4, <3>5
  <2>5. CASE ApplyStep(k)
    <3>1. /\ In(k, {"apply"}) /\ call'[k].pc = "resolved" /\ F!MutexFree
          /\ Takes(call[k].data, call[k].mtime) /\ disk' = disk
      BY <2>5 DEF ApplyStep
    <3>2. UpToDate(call[k].mtime, call[k].data)
      BY <3>1 DEF LoadsAreFresh
    <3>3. Match
      BY ONLY <2>2, <3>1, <3>2, FileType, MemoryFollows, TakesHolds DEF Match
    <3>4. In(k, F!Resolving \cup F!Writing)
      BY ONLY <3>1 DEF In, F!Resolving
    <3>5. Follows(k)
      BY <1>1, <3>1 DEF F!Writing
    <3> QED BY <2>3, <3>3, <3>4, <3>5
  <2>6. CASE PersistStep(k)
    <3>1. /\ F!LockFree /\ call'[k].pc = "read" /\ UNCHANGED <<disk, mtime>>
          /\ memory' = [memory EXCEPT !.over[call'[k].slot] = call'[k].entry]
          /\ causes' = causes \cup (IF disk.mtime > mtime THEN {"overtaken"} ELSE {})
      BY <2>6 DEF PersistStep
    <3>2. F!MutexFree /\ ~F!MutexFree'
      BY <3>1 DEF F!LockFree, F!MutexFree, F!Writing, F!Callers
    <3>3. mtime = disk.mtime
      BY <1>0, <3>1 DEF Clean
    <3>4. memory = F!Loaded(disk.content)
      BY <1>2, <2>2, <3>2, <3>3
    <3>5. memory' = F!Loaded([disk.content EXCEPT !.over[call'[k].slot] = call'[k].entry])
      <4>1. ASSUME NEW c, IsContent(c), NEW s, NEW e
            PROVE  F!Loaded([c EXCEPT !.over[s] = e]) = [F!Loaded(c) EXCEPT !.over[s] = e]
        BY ONLY <4>1, ContentHolds
      <4>2. \A s, e : F!Loaded([disk.content EXCEPT !.over[s] = e])
                        = [F!Loaded(disk.content) EXCEPT !.over[s] = e]
        BY ONLY <1>0, <4>1, Zenon
      <4> QED BY ONLY <3>1, <3>4, <4>2, Zenon
    <3>6. Follows(k)
      BY ONLY <3>1, <3>5 DEF Follows
    <3>7. Match
      BY ONLY <3>2 DEF Match
    <3> QED BY <2>3, <3>1, <3>6, <3>7
  <2>7. CASE ReadStep(k) \/ TruncateStep(k) \/ FillStep(k)
    <3>1. In(k, {"read", "truncate", "fill"}) /\ UNCHANGED <<memory, mtime>>
      BY <2>7 DEF ReadStep, TruncateStep, FillStep, In
    <3>2. call'[k].pc \in F!Writing
      <4>1. ReadStep(k) => call'[k].pc = "truncate"
        BY DEF ReadStep
      <4>2. TruncateStep(k) \/ FillStep(k) => call'[k].pc \in {"fill", "commit"}
        BY <1>0 DEF TruncateStep, FillStep, IsCall, CallKeys
      <4> QED BY <2>7, <4>1, <4>2 DEF F!Writing
    <3>3. Match
      <4>1. ~F!MutexFree'
        BY ONLY <3>2, k \in F!Callers DEF F!MutexFree, F!Callers, F!Writing
      <4> QED BY ONLY <4>1 DEF Match
    <3>4. In(k, F!Resolving \cup F!Writing)
      BY ONLY <3>1 DEF In, F!Writing
    <3>5. CASE ReadStep(k)
      <4>1. /\ call[k].pc = "read" /\ call'[k].pc = "truncate"
            /\ call'[k].data = [disk.content EXCEPT !.over[call[k].slot] = call[k].entry]
        BY <3>5 DEF ReadStep, In
      <4>2. memory = F!Loaded([disk.content EXCEPT !.over[call[k].slot] = call[k].entry])
        BY <1>2, <2>2, <4>1
      <4>3. Follows(k)
        BY ONLY <3>1, <4>1, <4>2 DEF Follows
      <4> QED BY <2>3, <3>3, <3>4, <4>3
    <3>6. CASE TruncateStep(k)
      <4>1. /\ call[k].pc = "truncate" /\ call'[k].pc = "fill" /\ call'[k].data = call[k].data
        BY <1>0, <3>6 DEF TruncateStep, In, IsCall, CallKeys
      <4>2. disk'.mtime = disk.mtime + 1
        BY <3>6 DEF TruncateStep
      <4>3. mtime' < disk'.mtime
        BY ONLY <1>0, <3>1, <4>2
      <4>4. Follows(k)
        BY ONLY <1>2, <2>2, <3>1, <4>1, <4>3 DEF Follows
      <4> QED BY <2>3, <3>3, <3>4, <4>4
    <3>7. CASE FillStep(k)
      <4>1. /\ call[k].pc = "fill" /\ call'[k].pc = "commit" /\ call'[k].data = call[k].data
        BY <1>0, <3>7 DEF FillStep, In, IsCall, CallKeys
      <4>2. disk'.content = call[k].data
        BY <3>7 DEF FillStep
      <4>3. Follows(k)
        BY ONLY <1>2, <2>2, <3>1, <4>1, <4>2 DEF Follows
      <4> QED BY <2>3, <3>3, <3>4, <4>3
    <3> QED BY <2>7, <3>5, <3>6, <3>7
  <2>8. CASE CommitStep(k)
    <3>1. call[k].pc = "commit" /\ call'[k].pc = "notify" /\ UNCHANGED <<disk, memory>>
      BY <2>8 DEF CommitStep, In
    <3>2. Match
      BY ONLY <1>2, <2>2, <3>1, k \in F!Callers DEF Match
    <3>3. In(k, F!Resolving \cup F!Writing)
      BY ONLY <3>1 DEF In, F!Writing
    <3>4. Follows(k)
      BY <1>1, <3>1 DEF F!Writing
    <3> QED BY <2>3, <3>2, <3>3, <3>4
  <2>9. CASE FailStep(k)
    <3>1. /\ In(k, {"read", "truncate", "fill"}) /\ call'[k].pc = "idle" /\ UNCHANGED <<disk, memory, mtime>>
          /\ causes' = causes \cup {IF In(k, {"fill"}) THEN "torn" ELSE "unsaved"}
      BY <2>9 DEF FailStep
    <3>2. call[k].pc = "fill"
      BY ONLY <3>1, Clean' DEF Clean, In
    <3>3. mtime < disk.mtime
      BY <1>2, <2>2, <3>2
    <3>4. Match
      BY ONLY <1>0, <3>1, <3>3 DEF Match
    <3>5. In(k, F!Resolving \cup F!Writing)
      BY ONLY <3>1 DEF In, F!Writing
    <3>6. Follows(k)
      BY <1>1, <3>1 DEF F!Writing
    <3> QED BY <2>3, <3>4, <3>5, <3>6
  <2> QED BY ONLY <1>3, <2>4, <2>5, <2>6, <2>7, <2>8, <2>9 DEF CallStep
<1>4. ASSUME F!PollStep PROVE Match /\ \A j \in F!Callers : Follows(j)
  <2>1. UNCHANGED <<disk, call>> /\ causes \subseteq causes'
    BY ONLY <1>4, FileType, PollSteps
  <2>2. Clean
    BY ONLY <2>1, Clean' DEF Clean
  <2>3. \/ UNCHANGED <<memory, mtime>>
        \/ poll.pc = "apply" /\ F!MutexFree /\ Takes(poll.data, poll.mtime)
    BY ONLY <1>4, FileType, PollSteps
  <2>4. F!MutexFree' <=> F!MutexFree
    BY ONLY <2>1 DEF F!MutexFree, F!Callers, F!Writing
  <2>5. CASE UNCHANGED <<memory, mtime>>
    BY ONLY <1>2, <2>1, <2>2, <2>4, <2>5 DEF Match, Follows
  <2>6. CASE poll.pc = "apply" /\ F!MutexFree /\ Takes(poll.data, poll.mtime)
    <3>1. UpToDate(poll.mtime, poll.data)
      BY ONLY <2>6, LoadsAreFresh DEF LoadsAreFresh
    <3>2. Match
      BY ONLY <2>1, <2>2, <2>6, <3>1, FileType, MemoryFollows, TakesHolds DEF Match
    <3>3. \A j \in F!Callers : call'[j].pc \notin F!Writing
      BY ONLY <2>1, <2>6 DEF F!MutexFree
    <3> QED BY <1>1, <3>2, <3>3
  <2> QED BY <2>3, <2>5, <2>6
<1>5. CASE EditStep
  <2>1. /\ disk'.mtime = disk.mtime + 1 /\ UNCHANGED <<memory, mtime, call>>
        /\ causes' = causes \cup (IF F!MutexFree THEN {} ELSE {"overtaken", "raced"})
    BY <1>5 DEF EditStep
  <2>2. F!MutexFree
    BY ONLY <2>1, Clean' DEF Clean
  <2>3. Match
    BY ONLY <1>0, <2>1 DEF Match
  <2>4. \A j \in F!Callers : call'[j].pc \notin F!Writing
    BY ONLY <2>1, <2>2 DEF F!MutexFree
  <2> QED BY <1>1, <2>3, <2>4
<1>6. CASE RestartStep
  <2>1. memory' = F!Loaded(disk.content) /\ disk' = disk /\ call' = [k \in F!Callers |-> F!Idle]
    BY <1>6 DEF RestartStep
  <2>2. \A j \in F!Callers : call'[j].pc \notin F!Writing
    BY ONLY <2>1 DEF F!Idle, F!Writing
  <2>3. Match
    BY ONLY <2>1 DEF Match
  <2> QED BY <1>1, <2>2, <2>3
<1>7. CASE UNCHANGED <<disk, memory, mtime, call, poll, owed, causes>>
  <2>1. Clean /\ (F!MutexFree' <=> F!MutexFree)
    BY ONLY <1>7, Clean' DEF Clean, F!MutexFree, F!Callers, F!Writing
  <2> QED BY ONLY <1>2, <1>7, <2>1 DEF Match, Follows
<1> QED BY <1>3, <1>4, <1>5, <1>6, <1>7, WorldSteps
\* The steps that touch neither the file nor what is owed, by who does not write.
LEMMA AsideSteps ==
  ASSUME NEW k \in F!Callers, QuietStep(k) \/ StatStep(k) \/ LoadStep(k) \/ ApplyStep(k)
  PROVE  /\ Only(k) /\ call[k].pc \notin F!Writing /\ call'[k].pc \notin F!Writing
         /\ UNCHANGED <<disk, owed, causes>>
  BY DEF QuietStep, StatStep, LoadStep, ApplyStep, In, F!Writing

\* Every step keeps what is owed in the file, or on its way there.
LEMMA AckedStep == FileType /\ OneInside /\ AckedFollows /\ F!Next => AckedFollows'
<1> DEFINE Owing(k) ==
             /\ call'[k].pc \in F!Writing => (call'[k].slot \in Slots => owed'[call'[k].slot] = Unset)
             /\ call'[k].pc \in {"truncate", "fill", "commit"} =>
                  /\ \A slot \in Slots : owed'[slot] # Unset => call'[k].data.over[slot] = owed'[slot]
                  /\ call'[k].slot \in Slots => call'[k].data.over[call'[k].slot] = call'[k].entry
             /\ call'[k].pc = "commit" => disk'.content = call'[k].data
           Held ==
             (\A k \in F!Callers : call'[k].pc # "fill") =>
               \A slot \in Slots : owed'[slot] # Unset => disk'.content.over[slot] = owed'[slot]
<1> SUFFICES ASSUME FileType, OneInside, AckedFollows, F!Next, causes' \cap {"torn", "raced"} = {}
             PROVE  Held /\ \A k \in F!Callers : Owing(k)
  BY DEF AckedFollows, Holds, In, F!Callers, F!Writing
<1>0. /\ IsContent(disk.content) /\ owed = [slot \in Slots |-> owed[slot]]
      /\ \A k \in F!Callers : IsCall(call[k])
  BY DEF FileType
<1>1. \A k \in F!Callers : call'[k].pc \notin F!Writing => Owing(k)
  BY DEF F!Writing
<1>2. causes \cap {"torn", "raced"} = {} =>
        /\ (\A k \in F!Callers : call[k].pc # "fill") =>
             \A slot \in Slots : owed[slot] # Unset => disk.content.over[slot] = owed[slot]
        /\ \A k \in F!Callers :
             /\ call[k].pc \in F!Writing => (call[k].slot \in Slots => owed[call[k].slot] = Unset)
             /\ call[k].pc \in {"truncate", "fill", "commit"} =>
                  /\ \A slot \in Slots : owed[slot] # Unset => call[k].data.over[slot] = owed[slot]
                  /\ call[k].slot \in Slots => call[k].data.over[call[k].slot] = call[k].entry
             /\ call[k].pc = "commit" => disk.content = call[k].data
  BY DEF AckedFollows, Holds, In
<1> HIDE DEF Owing, Held
<1>3. ASSUME NEW k \in F!Callers, CallStep(k) PROVE Held /\ \A j \in F!Callers : Owing(j)
  <2>1. Only(k) /\ causes \subseteq causes'
    BY <1>3 DEF CallStep, QuietStep, StatStep, LoadStep, ApplyStep, PersistStep, ReadStep, TruncateStep,
         FillStep, CommitStep, FailStep
  <2>2. causes \cap {"torn", "raced"} = {}
    BY <2>1
  <2>3. ASSUME call[k].pc \in F!Writing \/ F!LockFree
        PROVE  \A j \in F!Callers : j # k => Owing(j) /\ call[j].pc # "fill" /\ call'[j] = call[j]
    <3>1. \A j \in F!Callers : j # k => ~In(j, F!Writing) /\ call'[j] = call[j]
      BY <2>1, <2>3, LoneWriter DEF In
    <3>2. \A j \in F!Callers : j # k => call[j].pc # "fill"
      BY ONLY <3>1 DEF In, F!Writing
    <3>3. \A j \in F!Callers : j # k => Owing(j)
      BY ONLY <1>1, <3>1 DEF In
    <3> QED BY ONLY <3>1, <3>2, <3>3
  <2>4. CASE QuietStep(k) \/ StatStep(k) \/ LoadStep(k) \/ ApplyStep(k)
    <3>1. /\ call[k].pc \notin F!Writing /\ call'[k].pc \notin F!Writing
          /\ UNCHANGED <<disk, owed, causes>>
      BY <2>4, AsideSteps
    <3>2. \A j \in F!Callers : j # k => call'[j] = call[j]
      BY <2>1 DEF Only
    <3>3. (\A j \in F!Callers : call'[j].pc # "fill") => \A j \in F!Callers : call[j].pc # "fill"
      BY ONLY <3>1, <3>2 DEF F!Writing
    <3>4. Held
      BY ONLY <1>2, <2>2, <3>1, <3>3 DEF Held
    <3>5. ASSUME NEW j \in F!Callers, j # k PROVE Owing(j)
      BY ONLY <1>2, <2>2, <3>1, <3>2, <3>5 DEF Owing
    <3> QED BY <1>1, <3>1, <3>4, <3>5
  <2>5. CASE PersistStep(k)
    <3>1. /\ F!LockFree /\ call'[k].pc = "read" /\ disk' = disk
          /\ owed' = [owed EXCEPT ![call'[k].slot] = Unset]
      BY <2>5 DEF PersistStep
    <3>2. \A j \in F!Callers : call[j].pc # "fill"
      BY ONLY <3>1 DEF F!LockFree, F!Writing
    <3>3. \A slot \in Slots : owed[slot] # Unset => disk.content.over[slot] = owed[slot]
      BY ONLY <1>2, <2>2, <3>2
    <3>4. /\ \A slot \in Slots : owed'[slot] = Unset \/ owed'[slot] = owed[slot]
          /\ call'[k].slot \in Slots => owed'[call'[k].slot] = Unset
      BY ONLY <1>0, <3>1
    <3>5. Held
      BY ONLY <3>1, <3>3, <3>4 DEF Held
    <3>6. Owing(k)
      BY ONLY <3>1, <3>4 DEF Owing
    <3> QED BY ONLY <2>3, <3>1, <3>5, <3>6
  <2>6. CASE ReadStep(k)
    <3>1. /\ call[k].pc = "read" /\ call'[k].pc = "truncate" /\ UNCHANGED <<disk, owed>>
          /\ call'[k].slot = call[k].slot /\ call'[k].entry = call[k].entry
          /\ call'[k].data = [disk.content EXCEPT !.over[call[k].slot] = call[k].entry]
      BY <2>6 DEF ReadStep, In
    <3>2. call[k].pc \in F!Writing
      BY ONLY <3>1 DEF F!Writing
    <3>3. \A j \in F!Callers : call[j].pc # "fill"
      BY <2>3, <3>1, <3>2
    <3>4. /\ \A slot \in Slots : owed[slot] # Unset => disk.content.over[slot] = owed[slot]
          /\ call[k].slot \in Slots => owed[call[k].slot] = Unset
      BY <1>2, <2>2, <3>2, <3>3
    <3>5. /\ \A slot \in Slots : slot # call[k].slot => call'[k].data.over[slot] = disk.content.over[slot]
          /\ call[k].slot \in Slots => call'[k].data.over[call[k].slot] = call[k].entry
      <4>1. call'[k].data.over = [disk.content.over EXCEPT ![call[k].slot] = call[k].entry]
        BY ONLY <1>0, <3>1, ContentHolds
      <4> QED BY ONLY <1>0, <4>1 DEF IsContent
    <3>6. Held
      BY ONLY <3>1, <3>4 DEF Held
    <3>7. Owing(k)
      BY ONLY <3>1, <3>4, <3>5 DEF Owing
    <3> QED BY ONLY <2>3, <3>2, <3>6, <3>7
  <2>7. CASE TruncateStep(k)
    <3>1. /\ call[k].pc = "truncate" /\ call'[k].pc = "fill" /\ owed' = owed
          /\ call'[k].slot = call[k].slot /\ call'[k].entry = call[k].entry
          /\ call'[k].data = call[k].data
      BY <1>0, <2>7 DEF TruncateStep, In, IsCall, CallKeys
    <3>2. call[k].pc \in F!Writing
      BY ONLY <3>1 DEF F!Writing
    <3>3. Held
      BY ONLY <3>1, k \in F!Callers DEF Held
    <3>4. Owing(k)
      BY ONLY <1>2, <2>2, <3>1, <3>2 DEF Owing
    <3> QED BY ONLY <2>3, <3>2, <3>3, <3>4
  <2>8. CASE FillStep(k)
    <3>1. /\ call[k].pc = "fill" /\ call'[k].pc = "commit" /\ owed' = owed
          /\ call'[k].slot = call[k].slot /\ call'[k].entry = call[k].entry
          /\ call'[k].data = call[k].data
      BY <1>0, <2>8 DEF FillStep, In, IsCall, CallKeys
    <3>2. call[k].pc \in F!Writing
      BY ONLY <3>1 DEF F!Writing
    <3>3. disk'.content = call[k].data
      BY <2>8 DEF FillStep
    <3>4. Held
      BY ONLY <1>2, <2>2, <3>1, <3>3 DEF Held
    <3>5. Owing(k)
      BY ONLY <1>2, <2>2, <3>1, <3>2, <3>3 DEF Owing
    <3> QED BY ONLY <2>3, <3>2, <3>4, <3>5
  <2>9. CASE CommitStep(k)
    <3>1. /\ call[k].pc = "commit" /\ call'[k].pc = "notify" /\ disk' = disk
          /\ owed' = [owed EXCEPT ![call[k].slot] = call[k].entry]
      BY <2>9 DEF CommitStep, In
    <3>2. call[k].pc \in F!Writing
      BY ONLY <3>1 DEF F!Writing
    <3>3. /\ disk.content = call[k].data
          /\ \A slot \in Slots : owed[slot] # Unset => call[k].data.over[slot] = owed[slot]
          /\ call[k].slot \in Slots => call[k].data.over[call[k].slot] = call[k].entry
      BY ONLY <1>2, <2>2, <3>1
    <3>4. \A slot \in Slots :
            owed'[slot] = IF slot = call[k].slot THEN call[k].entry ELSE owed[slot]
      BY ONLY <1>0, <3>1
    <3>5. Held
      BY ONLY <3>1, <3>3, <3>4 DEF Held
    <3>6. Owing(k)
      BY <1>1, <3>1 DEF F!Writing
    <3> QED BY ONLY <2>3, <3>2, <3>5, <3>6
  <2>10. CASE FailStep(k)
    <3>1. /\ In(k, {"read", "truncate", "fill"}) /\ call'[k].pc = "idle" /\ UNCHANGED <<disk, owed>>
          /\ causes' = causes \cup {IF In(k, {"fill"}) THEN "torn" ELSE "unsaved"}
      BY <2>10 DEF FailStep
    <3>2. call[k].pc # "fill" /\ call[k].pc \in F!Writing
      BY ONLY <3>1, causes' \cap {"torn", "raced"} = {} DEF In, F!Writing
    <3>3. \A j \in F!Callers : call[j].pc # "fill"
      BY <2>3, <3>2
    <3>4. Held
      BY ONLY <1>2, <2>2, <3>1, <3>3 DEF Held
    <3>5. Owing(k)
      BY <1>1, <3>1 DEF F!Writing
    <3> QED BY ONLY <2>3, <3>2, <3>4, <3>5
  <2> QED BY ONLY <1>3, <2>4, <2>5, <2>6, <2>7, <2>8, <2>9, <2>10 DEF CallStep
<1>4. CASE F!PollStep
  <2>1. UNCHANGED <<disk, call, owed>> /\ causes \subseteq causes'
    BY ONLY <1>4, FileType, PollSteps
  <2>2. causes \cap {"torn", "raced"} = {}
    BY ONLY <2>1, causes' \cap {"torn", "raced"} = {}
  <2> QED BY ONLY <1>2, <2>1, <2>2 DEF Held, Owing
<1>5. CASE EditStep
  <2>1. PICK slot, e :
          /\ disk' = [content |-> [disk.content EXCEPT !.over[slot] = e], mtime |-> disk.mtime + 1]
          /\ owed' = [owed EXCEPT ![slot] = Unset]
    BY <1>5 DEF EditStep
  <2>2. /\ causes' = causes \cup (IF F!MutexFree THEN {} ELSE {"overtaken", "raced"})
        /\ call' = call
    BY <1>5 DEF EditStep
  <2>3. F!MutexFree /\ causes \cap {"torn", "raced"} = {}
    BY ONLY <2>2, causes' \cap {"torn", "raced"} = {}
  <2>4. \A k \in F!Callers : call[k].pc # "fill" /\ call'[k].pc \notin F!Writing
    BY ONLY <2>2, <2>3 DEF F!MutexFree, F!Writing
  <2>5. \A s \in Slots : owed[s] # Unset => disk.content.over[s] = owed[s]
    BY ONLY <1>2, <2>3, <2>4
  <2>6. \A s \in Slots : s # slot => disk'.content.over[s] = disk.content.over[s]
    BY ONLY <1>0, <2>1 DEF IsContent
  <2>7. \A s \in Slots : owed'[s] = IF s = slot THEN Unset ELSE owed[s]
    BY ONLY <1>0, <2>1
  <2>8. Held
    BY ONLY <2>5, <2>6, <2>7 DEF Held
  <2> QED BY ONLY <1>1, <2>4, <2>8
<1>6. CASE RestartStep
  <2>1. /\ call' = [k \in F!Callers |-> F!Idle] /\ UNCHANGED <<disk, owed>>
        /\ causes' = (causes \ {"overtaken", "unsaved", "unread"})
                     \cup (IF \E k \in F!Callers : In(k, {"fill"}) THEN {"torn"} ELSE {})
    BY <1>6 DEF RestartStep
  <2>2. \A j \in F!Callers : call'[j].pc \notin F!Writing
    BY ONLY <2>1 DEF F!Idle, F!Writing
  <2>3. ~ \E k \in F!Callers : In(k, {"fill"})
    BY ONLY <2>1, causes' \cap {"torn", "raced"} = {}
  <2>4. causes \cap {"torn", "raced"} = {} /\ \A k \in F!Callers : call[k].pc # "fill"
    BY ONLY <2>1, <2>3, causes' \cap {"torn", "raced"} = {} DEF In
  <2>5. Held
    BY ONLY <1>2, <2>1, <2>4 DEF Held
  <2> QED BY ONLY <1>1, <2>2, <2>5
<1>7. CASE UNCHANGED <<disk, memory, mtime, call, poll, owed, causes>>
  <2>1. causes \cap {"torn", "raced"} = {}
    BY ONLY <1>7, causes' \cap {"torn", "raced"} = {}
  <2> QED BY ONLY <1>2, <1>7, <2>1 DEF Held, Owing
<1> QED BY <1>3, <1>4, <1>5, <1>6, <1>7, WorldSteps

LEMMA FileInit == F!Init => FileInv
<1> SUFFICES ASSUME F!Init PROVE FileInv
  OBVIOUS
<1>1. /\ disk = [content |-> [defaults |-> Defaults, over |-> F!Nothing], mtime |-> 1]
      /\ memory = F!Loaded(disk.content) /\ mtime = 1
      /\ call = [k \in F!Callers |-> F!Idle] /\ poll = F!Asleep(1)
      /\ owed = F!Nothing /\ causes = {}
  BY DEF F!Init
<1>2. /\ disk.content = [defaults |-> Defaults, over |-> F!Nothing] /\ disk.mtime = 1
      /\ disk = [content |-> disk.content, mtime |-> disk.mtime]
      /\ IsContent(disk.content)
  BY ONLY <1>1 DEF IsContent, F!Nothing
<1>3. \A k \in F!Callers : call[k].pc = "idle" /\ IsCall(call[k])
  BY ONLY <1>1 DEF F!Idle, IsCall, CallKeys
<1>4. poll.pc = "asleep" /\ poll.last = 1 /\ poll.seen = 0 /\ IsPoll(poll)
  BY ONLY <1>1 DEF F!Asleep, IsPoll, PollKeys
<1>5. FileType
  BY ONLY <1>1, <1>2, <1>3, <1>4 DEF FileType, In, F!Nothing
<1>6. OneInside /\ LoadsAreFresh
  BY ONLY <1>3, <1>4 DEF OneInside, LoadsAreFresh, In, F!Resolving, F!Writing
<1>7. PollCaught
  BY ONLY <1>1, <1>4 DEF PollCaught
<1>8. MemoryFollows
  BY ONLY <1>1, <1>3 DEF MemoryFollows, In
<1>9. AckedFollows
  BY ONLY <1>1, <1>2, <1>3 DEF AckedFollows, Holds, In, F!Writing, F!Nothing
<1> QED BY ONLY <1>5, <1>6, <1>7, <1>8, <1>9 DEF FileInv

LEMMA FileStep == FileInv /\ [BackendNext]_<<backend, vars, file>> => FileInv'
<1> SUFFICES ASSUME FileInv, [BackendNext]_<<backend, vars, file>> PROVE FileInv'
  OBVIOUS
<1>1. CASE F!Next
  BY <1>1, TypeStep, InsideStep, FreshStep, CaughtStep, FollowsStep, AckedStep DEF FileInv
<1>2. CASE UNCHANGED file
  <2>1. UNCHANGED <<disk, memory, mtime, call, poll, owed, causes>>
    BY <1>2 DEF file
  <2>2. FileType'
    BY ONLY <2>1, FileInv DEF FileInv, FileType, In, F!Callers
  <2>3. OneInside' /\ LoadsAreFresh' /\ PollCaught' /\ AckedFollows'
    BY ONLY <2>1, FileInv DEF FileInv, OneInside, LoadsAreFresh, PollCaught, AckedFollows,
         In, UpToDate, Clean, Holds, F!Callers, F!Resolving, F!Writing
  <2>4. MemoryFollows'
    BY ONLY <2>1, FileInv DEF FileInv, MemoryFollows, Clean, In, F!MutexFree, F!Callers, F!Writing, F!Loaded
  <2> QED BY ONLY <2>2, <2>3, <2>4 DEF FileInv
<1> QED BY <1>1, <1>2 DEF BackendNext

LEMMA FileAlways == BackendSpec => []FileInv
<1>1. BackendInit => FileInv
  BY FileInit DEF BackendInit
<1> QED BY <1>1, FileStep, PTL DEF BackendSpec

\* FileConfigCenter: whoever reads outside the mutex, memory is the file at rest.
THEOREM MemoryIsFileHolds == BackendSpec => []MemoryIsFile
<1>1. FileInv => MemoryIsFile
  <2> SUFFICES ASSUME FileInv, F!AtRest, causes \subseteq {"torn", "raced"}
               PROVE  memory = F!Loaded(disk.content) /\ mtime = disk.mtime
    BY DEF MemoryIsFile, F!MemoryIsFile
  <2>1. Clean
    BY DEF Clean
  <2>2. F!MutexFree
    BY DEF F!AtRest, F!MutexFree, F!Idle, F!Writing
  <2>3. mtime = disk.mtime
    BY <2>1 DEF FileInv, PollCaught, F!AtRest, FileType
  <2> QED BY <2>1, <2>2, <2>3 DEF FileInv, MemoryFollows
<1> QED BY <1>1, FileAlways, PTL

\* FileConfigCenter: an acknowledged write stays in the file.
THEOREM AckedInFileHolds == BackendSpec => []AckedInFile
<1>1. FileInv => AckedInFile
  <2> SUFFICES ASSUME FileInv, F!AtRest, causes \cap {"torn", "raced"} = {}
               PROVE  Holds(disk.content.over)
    BY DEF AckedInFile, F!AckedInFile, Holds
  <2>1. \A k \in F!Callers : ~In(k, {"fill"})
    BY DEF F!AtRest, F!Idle, In
  <2> QED BY <2>1 DEF FileInv, AckedFollows
<1> QED BY <1>1, FileAlways, PTL

-----------------------------------------------------------------------------
(* The file: what a prompt resolves to *)

\* The greatest of a set of numbers that has one.
LEMMA GreatestIs ==
  ASSUME NEW S, S \subseteq Nat, NEW m \in S, \A x \in S : m >= x
  PROVE  F!Max(S) = m
<1>1. F!Max(S) \in S /\ \A x \in S : F!Max(S) >= x
  BY DEF F!Max
<1>2. F!Max(S) \in Nat /\ m \in Nat /\ F!Max(S) >= m /\ m >= F!Max(S)
  BY ONLY <1>1, S \subseteq Nat, m \in S, \A x \in S : m >= x
<1> QED BY ONLY <1>2

\* The last of a few values that is set is the last unless it is not, and so on.
LEMMA LastOfFour ==
  ASSUME NEW a, NEW b, NEW c, NEW d
  PROVE  F!LastSet(<<a, b, c, d>>) = F!Prefer(d, F!Prefer(c, F!Prefer(b, a)))
<1> DEFINE v == <<a, b, c, d>>
           given == {i \in DOMAIN v : v[i] # Unset}
<1>1. /\ v[1] = a /\ v[2] = b /\ v[3] = c /\ v[4] = d
      /\ given = {i \in {1, 2, 3, 4} : v[i] # Unset}
  OBVIOUS
<1>2. F!LastSet(v) = IF given = {} THEN Unset ELSE v[F!Max(given)]
  BY DEF F!LastSet
<1>3. given \subseteq Nat
  BY <1>1
<1> HIDE DEF v, given
<1>4. CASE d # Unset
  <2>1. 4 \in given /\ \A x \in given : 4 >= x
    BY ONLY <1>1, <1>4
  <2>2. F!Max(given) = 4
    BY ONLY <1>3, <2>1, GreatestIs
  <2> QED BY ONLY <1>1, <1>2, <1>4, <2>1, <2>2 DEF F!Prefer, v
<1>5. CASE d = Unset /\ c # Unset
  <2>1. 3 \in given /\ \A x \in given : 3 >= x
    BY ONLY <1>1, <1>5
  <2>2. F!Max(given) = 3
    BY ONLY <1>3, <2>1, GreatestIs
  <2> QED BY ONLY <1>1, <1>2, <1>5, <2>1, <2>2 DEF F!Prefer, v
<1>6. CASE d = Unset /\ c = Unset /\ b # Unset
  <2>1. 2 \in given /\ \A x \in given : 2 >= x
    BY ONLY <1>1, <1>6
  <2>2. F!Max(given) = 2
    BY ONLY <1>3, <2>1, GreatestIs
  <2> QED BY ONLY <1>1, <1>2, <1>6, <2>1, <2>2 DEF F!Prefer, v
<1>7. CASE d = Unset /\ c = Unset /\ b = Unset /\ a # Unset
  <2>1. 1 \in given /\ \A x \in given : 1 >= x
    BY ONLY <1>1, <1>7
  <2>2. F!Max(given) = 1
    BY ONLY <1>3, <2>1, GreatestIs
  <2> QED BY ONLY <1>1, <1>2, <1>7, <2>1, <2>2 DEF F!Prefer, v
<1>8. CASE d = Unset /\ c = Unset /\ b = Unset /\ a = Unset
  <2>1. given = {}
    BY ONLY <1>1, <1>8
  <2> QED BY ONLY <1>2, <1>8, <2>1 DEF F!Prefer, v
<1> QED BY <1>4, <1>5, <1>6, <1>7, <1>8 DEF v

LEMMA LastOfFive ==
  ASSUME NEW a, NEW b, NEW c, NEW d, NEW e
  PROVE  F!LastSet(<<a, b, c, d, e>>) = F!Prefer(e, F!LastSet(<<a, b, c, d>>))
<1> DEFINE v == <<a, b, c, d, e>>
           w == <<a, b, c, d>>
           given == {i \in DOMAIN v : v[i] # Unset}
           before == {i \in DOMAIN w : w[i] # Unset}
<1>1. /\ v[1] = a /\ v[2] = b /\ v[3] = c /\ v[4] = d /\ v[5] = e
      /\ w[1] = a /\ w[2] = b /\ w[3] = c /\ w[4] = d
      /\ given = {i \in {1, 2, 3, 4, 5} : v[i] # Unset}
      /\ before = {i \in {1, 2, 3, 4} : w[i] # Unset}
  OBVIOUS
<1>2. /\ F!LastSet(v) = IF given = {} THEN Unset ELSE v[F!Max(given)]
      /\ F!LastSet(w) = IF before = {} THEN Unset ELSE w[F!Max(before)]
  BY DEF F!LastSet
<1>3. given \subseteq Nat
  BY <1>1
<1> HIDE DEF v, w, given, before
<1>4. CASE e # Unset
  <2>1. 5 \in given /\ \A x \in given : 5 >= x
    BY ONLY <1>1, <1>4
  <2>2. F!Max(given) = 5
    BY ONLY <1>3, <2>1, GreatestIs
  <2> QED BY ONLY <1>1, <1>2, <1>4, <2>1, <2>2 DEF F!Prefer, v, w
<1>5. CASE e = Unset
  <2>1. given = before
    BY ONLY <1>1, <1>5
  <2>2. before # {} => F!Max(before) \in before
    <3> SUFFICES ASSUME before # {} PROVE F!Max(before) \in before
      OBVIOUS
    <3>1. PICK m \in before : \A x \in before : m >= x
      BY ONLY <1>1, before # {}
    <3>2. before \subseteq Nat
      BY ONLY <1>1
    <3> QED BY ONLY <3>1, <3>2, GreatestIs
  <2>3. \A i \in before : v[i] = w[i]
    BY ONLY <1>1
  <2> QED BY ONLY <1>2, <1>5, <2>1, <2>2, <2>3 DEF F!Prefer, v, w
<1> QED BY <1>4, <1>5 DEF v, w

\* What an override makes of an entry, and what an entry that is not there would.
LEMMA OverriddenIs ==
  ASSUME NEW base, NEW over
  PROVE  /\ \A key \in ParamKeys :
              F!Overridden(base, over).params[key]
                = F!Prefer(F!Prefer(over, F!NoEntry).params[key], base.params[key])
         /\ F!Overridden(base, over).variants
              = F!Prefer(F!Prefer(over, F!NoEntry).variants, base.variants)
<1>1. CASE over = Unset
  <2>1. F!Prefer(over, F!NoEntry) = F!NoEntry /\ F!Overridden(base, over) = base
    BY <1>1 DEF F!Prefer, F!Overridden
  <2>2. F!NoEntry.variants = Unset /\ \A key \in ParamKeys : F!NoEntry.params[key] = Unset
    BY DEF F!NoEntry, F!NoParams
  <2> QED BY ONLY <2>1, <2>2 DEF F!Prefer
<1>2. CASE over # Unset
  <2>1. F!Prefer(over, F!NoEntry) = over /\ F!Overridden(base, over) = F!MergeEntry(base, over)
    BY <1>2 DEF F!Prefer, F!Overridden
  <2> QED BY ONLY <2>1 DEF F!MergeEntry
<1> QED BY <1>1, <1>2

\* Merging the layers one over the other, and the variant over all of them, comes
\* for each param to the most specific source that sets it.
LEMMA ResolvedIs ==
  ASSUME NEW c, NEW content, NEW ctx, NEW key \in ParamKeys
  PROVE  F!Resolve(c, content, Unset, ctx).cfg.params[key] = F!MostSpecific(c, content, ctx, key)
<1> DEFINE over == F!Overrides(c, content.over, Unset, ctx)
           default == F!Prefer(content.defaults[c], F!NoEntry)
           general == F!Overridden(default, over["global"])
           tenant_ == F!Overridden(general, over["tenant"])
           personal == F!Overridden(tenant_, over["user"])
           cfg == F!Overridden(personal, over["request"])
           s2 == F!Prefer(over["global"], F!NoEntry)
           s3 == F!Prefer(over["tenant"], F!NoEntry)
           s4 == F!Prefer(over["user"], F!NoEntry)
           variants == F!LastSet(<<default.variants, s2.variants, s3.variants, s4.variants>>)
           fits == IF variants = Unset THEN {}
                   ELSE {i \in DOMAIN variants : F!MatchGrayRule(variants[i].match, ctx)}
<1>1. F!Resolve(c, content, Unset, ctx).cfg = F!ApplyVariants(cfg, ctx)
  BY DEF F!Resolve
<1>2. over["request"] = Unset
  BY DEF F!Overrides
<1>3. cfg = personal
  BY <1>2 DEF F!Overridden
<1>4. F!Sources(c, content, ctx) = <<default, s2, s3, s4>>
  <2>1. \A layer \in {"global", "tenant", "user"} :
          over[layer] = IF layer \in OverridableAt[c]
                        THEN F!At(content.over, F!Slot(c, layer, IF layer = "global" THEN Unset ELSE ctx[layer]))
                        ELSE Unset
    BY DEF F!Overrides
  <2>2. F!Prefer(Unset, F!NoEntry) = F!NoEntry
    BY DEF F!Prefer
  <2> QED BY ONLY <2>1, <2>2 DEF F!Sources
<1> HIDE DEF over, default, s2, s3, s4
<1>5. /\ cfg.variants = F!Prefer(s4.variants, F!Prefer(s3.variants, F!Prefer(s2.variants, default.variants)))
      /\ cfg.params[key] = F!Prefer(s4.params[key], F!Prefer(s3.params[key], F!Prefer(s2.params[key], default.params[key])))
  <2>1. /\ general.variants = F!Prefer(s2.variants, default.variants)
        /\ general.params[key] = F!Prefer(s2.params[key], default.params[key])
    BY OverriddenIs DEF s2
  <2>2. /\ tenant_.variants = F!Prefer(s3.variants, general.variants)
        /\ tenant_.params[key] = F!Prefer(s3.params[key], general.params[key])
    BY OverriddenIs DEF s3
  <2>3. /\ personal.variants = F!Prefer(s4.variants, tenant_.variants)
        /\ personal.params[key] = F!Prefer(s4.params[key], tenant_.params[key])
    BY OverriddenIs DEF s4
  <2> HIDE DEF general, tenant_, personal, cfg
  <2> QED BY ONLY <1>3, <2>1, <2>2, <2>3
<1>6. cfg.variants = variants
  BY ONLY <1>5, LastOfFour
<1> HIDE DEF cfg
<1>7. F!Matching(cfg, ctx) = fits
  BY ONLY <1>6 DEF F!Matching
<1> DEFINE own == IF fits = {} THEN Unset ELSE variants[F!Min(fits)].entry.params[key]
<1>8. F!ApplyVariants(cfg, ctx).params[key] = F!Prefer(own, cfg.params[key])
  BY ONLY <1>6, <1>7, key \in ParamKeys DEF F!ApplyVariants, F!MergeEntry, F!Prefer
<1>9. F!MostSpecific(c, content, ctx, key)
        = F!LastSet(<<default.params[key], s2.params[key], s3.params[key], s4.params[key], own>>)
  <2> DEFINE s == F!Sources(c, content, ctx)
  <2>1. s[1] = default /\ s[2] = s2 /\ s[3] = s3 /\ s[4] = s4
    BY <1>4
  <2>2. F!LastSet(<<s[1].variants, s[2].variants, s[3].variants, s[4].variants>>) = variants
    BY ONLY <2>1
  <2> DEFINE all == F!LastSet(<<s[1].variants, s[2].variants, s[3].variants, s[4].variants>>)
             fit == IF all = Unset THEN {}
                    ELSE {i \in DOMAIN all : F!MatchGrayRule(all[i].match, ctx)}
             given == IF fit = {} THEN Unset ELSE all[F!Min(fit)].entry.params[key]
  <2>3. F!MostSpecific(c, content, ctx, key)
          = F!LastSet(<<s[1].params[key], s[2].params[key], s[3].params[key], s[4].params[key], given>>)
    BY DEF F!MostSpecific
  <2> HIDE DEF s, all, variants
  <2>4. all = variants
    BY ONLY <2>2 DEF all
  <2>5. fit = fits
    BY ONLY <2>4
  <2> HIDE DEF fit, fits
  <2>6. given = own
    BY ONLY <2>4, <2>5
  <2> HIDE DEF given, own
  <2>7. <<s[1].params[key], s[2].params[key], s[3].params[key], s[4].params[key], given>>
        = <<default.params[key], s2.params[key], s3.params[key], s4.params[key], own>>
    BY ONLY <2>1, <2>6
  <2> QED BY ONLY <2>3, <2>7
<1>10. F!MostSpecific(c, content, ctx, key) = F!Prefer(own, cfg.params[key])
  <2> HIDE DEF own
  <2>1. F!LastSet(<<default.params[key], s2.params[key], s3.params[key], s4.params[key]>>) = cfg.params[key]
    BY ONLY <1>5, LastOfFour
  <2>2. F!LastSet(<<default.params[key], s2.params[key], s3.params[key], s4.params[key], own>>)
          = F!Prefer(own, F!LastSet(<<default.params[key], s2.params[key], s3.params[key], s4.params[key]>>))
    BY ONLY LastOfFive
  <2> QED BY ONLY <1>9, <2>1, <2>2
<1> QED BY ONLY <1>1, <1>8, <1>10

\* What resolve_prompt() finds for a key is what the most specific sources say, or
\* the built-in prompt where that is no valid body.
LEMMA MadeIs ==
  ASSUME NEW key, NEW content, NEW minute
  PROVE  LET made == F!Made(key, content, minute)
             wanted == [param \in ParamKeys |->
                          F!MostSpecific(key[1], content, F!Context(key, minute), param)]
         IN /\ made.now = minute
            /\ IF F!ValidBody(wanted) THEN made.body = wanted ELSE made.source = "builtin"
<1> DEFINE ctx == F!Context(key, minute)
           found == F!Resolve(key[1], content, Unset, ctx)
           body == [param \in ParamKeys |-> found.cfg.params[param]]
           wanted == [param \in ParamKeys |-> F!MostSpecific(key[1], content, ctx, param)]
           resolved == F!ResolvePrompt(key[1], content, Unset, ctx)
<1>1. \A param \in ParamKeys : found.cfg.params[param] = F!MostSpecific(key[1], content, ctx, param)
  BY ONLY ResolvedIs
<1>2. body = wanted
  BY ONLY <1>1
<1>3. resolved = IF ~F!ValidBody(body) THEN [body |-> Builtin, source |-> "builtin"]
                 ELSE [body |-> body, source |-> IF found.matched THEN "variant" ELSE found.source]
  BY DEF F!ResolvePrompt
<1>4. F!Made(key, content, minute) = [now |-> minute, body |-> resolved.body, source |-> resolved.source]
  BY DEF F!Made
<1> HIDE DEF body, wanted, resolved, found
<1>5. IF F!ValidBody(wanted) THEN resolved.body = wanted ELSE resolved.source = "builtin"
  BY ONLY <1>2, <1>3
<1>6. F!Made(key, content, minute).now = minute
  BY ONLY <1>4
<1>7. IF F!ValidBody(wanted) THEN F!Made(key, content, minute).body = wanted
      ELSE F!Made(key, content, minute).source = "builtin"
  BY ONLY <1>4, <1>5
<1> QED BY ONLY <1>6, <1>7 DEF wanted

\* An entry put into a slot changes nothing for the prompts of other categories.
LEMMA MadeElsewhere ==
  ASSUME NEW key, NEW content, IsContent(content), NEW slot, NEW e, slot.category # key[1], NEW minute
  PROVE  F!Made(key, [content EXCEPT !.over[slot] = e], minute) = F!Made(key, content, minute)
<1> DEFINE after == [content EXCEPT !.over[slot] = e]
           ctx == F!Context(key, minute)
<1>1. after.defaults = content.defaults /\ after.over = [content.over EXCEPT ![slot] = e]
  BY DEF IsContent
<1> HIDE DEF after
<1>2. \A scope, id : F!At(after.over, F!Slot(key[1], scope, id)) = F!At(content.over, F!Slot(key[1], scope, id))
  <2> SUFFICES ASSUME NEW scope, NEW id
               PROVE  F!At(after.over, F!Slot(key[1], scope, id)) = F!At(content.over, F!Slot(key[1], scope, id))
    OBVIOUS
  <2>1. F!Slot(key[1], scope, id) # slot
    BY DEF F!Slot
  <2> QED BY ONLY <1>1, <2>1 DEF F!At
<1>3. F!Overrides(key[1], after.over, Unset, ctx) = F!Overrides(key[1], content.over, Unset, ctx)
  BY ONLY <1>2 DEF F!Overrides
<1>4. F!Resolve(key[1], after, Unset, ctx) = F!Resolve(key[1], content, Unset, ctx)
  BY ONLY <1>1, <1>3 DEF F!Resolve
<1>5. F!ResolvePrompt(key[1], after, Unset, ctx) = F!ResolvePrompt(key[1], content, Unset, ctx)
  BY ONLY <1>4 DEF F!ResolvePrompt
<1> QED BY ONLY <1>5 DEF F!Made, after

-----------------------------------------------------------------------------
(* The file: the prompts in the cache follow memory *)

\* What was found for a key is what memory would give, but for the minute.
Right(key, found) == found = F!Made(key, memory, found.now)

\* A notification that will drop what is cached for the key is on its way: the poll
\* loop has the file's last change before it, or a writer of the category has.
Pending(key) ==
  \/ poll.last < disk.mtime
  \/ \E k \in F!Callers : In(k, F!Writing \cup {"notify"}) /\ call[k].slot.category = key[1]

Awaited == {"asked", "stat", "load", "apply", "resolved"}
PromptsType ==
  /\ IsContent(memory) /\ gen \in Nat
  /\ prompts = [key \in F!Keys |-> prompts[key]]
  /\ \A k \in F!Callers :
       /\ call[k].gen \in Nat /\ call[k].gen <= gen
       /\ In(k, Awaited) => call[k].key \in F!Keys

\* What is cached, or is about to be, is right or will be dropped.
PromptsFollow ==
  Clean =>
    /\ \A key \in F!Keys : prompts[key] # Unset => Right(key, prompts[key]) \/ Pending(key)
    /\ \A k \in F!Callers :
         In(k, {"resolved"}) /\ call[k].gen = gen =>
           Right(call[k].key, call[k].found) \/ Pending(call[k].key)

\* What a caller that resolves a prompt leaves, finds or writes back.
Aside(k) ==
  /\ Only(k) /\ UNCHANGED <<disk, poll, causes, gen>>
  /\ ~In(k, F!Writing \cup {"notify"}) /\ call'[k].pc \notin F!Writing \cup {"notify"}
Moves(k) ==
  /\ Aside(k) /\ UNCHANGED <<memory, prompts>>
  /\ call'[k].pc \in {"asked", "stat", "load", "apply"}
  /\ call'[k].key \in F!Keys /\ call'[k].gen \in {call[k].gen, gen}
Finds(k) ==
  /\ Aside(k) /\ UNCHANGED prompts /\ call'[k].pc = "resolved"
  /\ call[k].key \in F!Keys /\ call'[k].key = call[k].key /\ call'[k].gen = call[k].gen
  /\ call'[k].found = F!Made(call[k].key, memory', clock)
  /\ \/ UNCHANGED memory
     \/ In(k, {"apply"}) /\ mtime < call[k].mtime /\ memory' = F!Loaded(call[k].data)
Caches(k) ==
  /\ Aside(k) /\ UNCHANGED memory /\ In(k, {"resolved"}) /\ call'[k] = F!Idle
  /\ prompts' = IF gen = call[k].gen THEN [prompts EXCEPT ![call[k].key] = call[k].found] ELSE prompts

LEMMA ReadsSee ==
  ASSUME FileType, PromptsType, NEW k \in F!Callers, F!Reads(k)
  PROVE  Moves(k) \/ Finds(k) \/ Caches(k)
<1>0. IsCall(call[k])
  BY DEF FileType
<1>1. ASSUME NEW key \in F!Keys, F!Ask(k, key) PROVE Moves(k)
  <2> DEFINE n == [call[k] EXCEPT !.pc = "asked", !.key = key, !.gen = gen]
  <2>1. IsCall(n) /\ n.pc = "asked" /\ n.key = key /\ n.gen = gen
    BY ONLY <1>0 DEF IsCall, CallKeys
  <2>2. call' = [call EXCEPT ![k] = n]
    BY <1>0, <1>1 DEF F!Ask, FileType, IsCall, CallKeys
  <2> HIDE DEF n
  <2>3. Only(k) /\ call'[k] = n
    BY <2>1, <2>2, CallMoves
  <2>4. call[k].pc = "idle" /\ UNCHANGED <<disk, poll, causes, gen, memory, prompts>>
    BY <1>1 DEF F!Ask, F!At_, F!center, F!manager
  <2> QED BY ONLY <1>1, <2>1, <2>3, <2>4 DEF Moves, Aside, In, F!Writing
<1>2. CASE F!EnterResolve(k)
  <2> DEFINE n == [call[k] EXCEPT !.pc = "stat"]
  <2>1. IsCall(n) /\ n.pc = "stat" /\ n.key = call[k].key /\ n.gen = call[k].gen
    BY ONLY <1>0 DEF IsCall, CallKeys
  <2>2. call' = [call EXCEPT ![k] = n]
    BY <1>2 DEF F!EnterResolve, F!Go
  <2> HIDE DEF n
  <2>3. Only(k) /\ call'[k] = n
    BY <2>1, <2>2, CallMoves
  <2>4. call[k].pc = "asked" /\ UNCHANGED <<disk, poll, causes, gen, memory, prompts>>
    BY <1>2 DEF F!EnterResolve, F!At_, F!center, F!manager
  <2>5. call[k].key \in F!Keys
    BY <2>4 DEF PromptsType, In, Awaited
  <2> QED BY ONLY <2>1, <2>3, <2>4, <2>5 DEF Moves, Aside, In, F!Writing
<1>3. ASSUME NEW content, F!Resolved(k, content)
      PROVE  /\ Only(k) /\ call'[k].pc = "resolved" /\ call'[k].key = call[k].key
             /\ call'[k].gen = call[k].gen /\ call'[k].found = F!Made(call[k].key, content, clock)
  <2> DEFINE n == [call[k] EXCEPT !.pc = "resolved", !.mtime = 0, !.data = Unset,
                                  !.found = F!Found(k, content)]
  <2>1. call' = [call EXCEPT ![k] = n]
    BY <1>0, <1>3 DEF F!Resolved, FileType, IsCall, CallKeys
  <2>2. /\ IsCall(n) /\ n.pc = "resolved" /\ n.key = call[k].key /\ n.gen = call[k].gen
        /\ n.found = F!Found(k, content)
    BY ONLY <1>0 DEF IsCall, CallKeys
  <2> HIDE DEF n
  <2>3. Only(k) /\ call'[k] = n
    BY <2>1, <2>2, CallMoves
  <2> QED BY ONLY <2>2, <2>3 DEF F!Found
<1>4. CASE F!Stat(k)
  <2>1. call[k].pc = "stat" /\ UNCHANGED <<disk, poll, causes, gen, memory, prompts>>
    BY <1>4 DEF F!Stat, F!At_, F!center, F!manager
  <2>2. call[k].key \in F!Keys
    BY <2>1 DEF PromptsType, In, Awaited
  <2>3. CASE disk.mtime <= mtime
    <3>1. F!Resolved(k, memory)
      BY <1>4, <2>3 DEF F!Stat
    <3> QED BY <1>3, <2>1, <2>2, <3>1 DEF Finds, Aside, In, F!Writing
  <2>4. CASE ~(disk.mtime <= mtime)
    <3> DEFINE n == [call[k] EXCEPT !.pc = "load", !.mtime = disk.mtime]
    <3>1. call' = [call EXCEPT ![k] = n]
      BY <1>0, <1>4, <2>4 DEF F!Stat, FileType, IsCall, CallKeys
    <3>2. IsCall(n) /\ n.pc = "load" /\ n.key = call[k].key /\ n.gen = call[k].gen
      BY ONLY <1>0 DEF IsCall, CallKeys
    <3> HIDE DEF n
    <3>3. Only(k) /\ call'[k] = n
      BY <3>1, <3>2, CallMoves
    <3> QED BY ONLY <2>1, <2>2, <3>2, <3>3 DEF Moves, Aside, In, F!Writing
  <2> QED BY <2>3, <2>4
<1>5. CASE F!Load(k)
  <2> DEFINE n == [call[k] EXCEPT !.pc = "apply", !.data = disk.content]
  <2>1. IsCall(n) /\ n.pc = "apply" /\ n.key = call[k].key /\ n.gen = call[k].gen
    BY ONLY <1>0 DEF IsCall, CallKeys
  <2>2. call' = [call EXCEPT ![k] = n]
    BY <1>0, <1>5 DEF F!Load, FileType, IsCall, CallKeys
  <2> HIDE DEF n
  <2>3. Only(k) /\ call'[k] = n
    BY <2>1, <2>2, CallMoves
  <2>4. call[k].pc = "load" /\ UNCHANGED <<disk, poll, causes, gen, memory, prompts>>
    BY <1>5 DEF F!Load, F!At_, F!center, F!manager
  <2>5. call[k].key \in F!Keys
    BY <2>4 DEF PromptsType, In, Awaited
  <2> QED BY ONLY <2>1, <2>3, <2>4, <2>5 DEF Moves, Aside, In, F!Writing
<1>6. CASE F!LoadFails(k)
  <2>1. /\ call[k].pc = "load" /\ UNCHANGED <<disk, poll, causes, gen, memory, prompts>>
        /\ F!Resolved(k, memory)
    BY <1>6 DEF F!LoadFails, F!At_, F!center, F!manager
  <2>2. call[k].key \in F!Keys
    BY <2>1 DEF PromptsType, In, Awaited
  <2> QED BY <1>3, <2>1, <2>2 DEF Finds, Aside, In, F!Writing
<1>7. CASE F!ApplyResolve(k)
  <2>1. /\ call[k].pc = "apply" /\ UNCHANGED <<disk, poll, causes, gen, prompts>>
        /\ F!Resolved(k, memory') /\ F!Apply(call[k].data, call[k].mtime)
    BY <1>7 DEF F!ApplyResolve, F!At_, F!manager
  <2>2. call[k].key \in F!Keys /\ call[k].mtime \in Nat /\ mtime \in Nat
    BY <2>1 DEF PromptsType, FileType, In, Awaited
  <2>3. memory' = memory \/ (mtime < call[k].mtime /\ memory' = F!Loaded(call[k].data))
    BY ONLY <2>1, <2>2 DEF F!Apply
  <2> QED BY <1>3, <2>1, <2>2, <2>3 DEF Finds, Aside, In, F!Writing
<1>8. CASE F!WriteBack(k)
  <2>1. IsCall(F!Idle) /\ F!Idle.pc = "idle"
    BY ONLY <1>0 DEF IsCall, CallKeys, F!Idle
  <2>2. call' = [call EXCEPT ![k] = F!Idle]
    BY <1>8 DEF F!WriteBack, F!Leave
  <2>3. Only(k) /\ call'[k] = F!Idle
    BY <2>1, <2>2, CallMoves
  <2>4. /\ call[k].pc = "resolved" /\ UNCHANGED <<disk, poll, causes, gen, memory>>
        /\ prompts' = IF gen = call[k].gen THEN [prompts EXCEPT ![call[k].key] = call[k].found] ELSE prompts
    BY <1>8 DEF F!WriteBack, F!At_, F!center
  <2> QED BY ONLY <2>1, <2>3, <2>4 DEF Caches, Aside, In, F!Writing
<1> QED BY <1>1, <1>2, <1>4, <1>5, <1>6, <1>7, <1>8 DEF F!Reads

\* What a caller that writes does to memory and the cache.
Puts_(k) ==
  /\ Only(k) /\ UNCHANGED <<poll, gen, prompts>> /\ call'[k].gen = call[k].gen
  /\ call'[k].pc \in F!Writing \cup {"notify"}
Enters(k) ==
  /\ Puts_(k) /\ UNCHANGED disk /\ causes \subseteq causes' /\ call[k].pc = "idle"
  /\ memory' = [memory EXCEPT !.over[call'[k].slot] = call'[k].entry]
Proceeds(k) ==
  /\ Puts_(k) /\ UNCHANGED <<memory, causes>> /\ disk.mtime <= disk'.mtime
  /\ In(k, F!Writing) /\ call'[k].slot = call[k].slot
GivesUp(k) ==
  /\ Only(k) /\ UNCHANGED <<disk, poll, memory, gen, prompts>> /\ call'[k] = F!Idle
  /\ In(k, {"read", "truncate", "fill"})
  /\ causes' = causes \cup {IF In(k, {"fill"}) THEN "torn" ELSE "unsaved"}
Notifies(k) ==
  /\ Only(k) /\ UNCHANGED <<disk, poll, memory, causes>> /\ call'[k] = F!Idle /\ In(k, {"notify"})
  /\ \/ /\ gen' = gen + 1
        /\ prompts' = [key \in F!Keys |-> IF key[1] = call[k].slot.category THEN Unset ELSE prompts[key]]
     \/ call[k].slot.category \notin Prompts /\ UNCHANGED <<gen, prompts>>

LEMMA PutsSee ==
  ASSUME FileType, NEW k \in F!Callers, F!Puts(k)
  PROVE  Enters(k) \/ Proceeds(k) \/ GivesUp(k) \/ Notifies(k)
<1>0. IsCall(call[k]) /\ disk.mtime \in Nat
  BY DEF FileType
<1>1. ASSUME NEW slot, NEW e, F!Persist(k, slot, e) PROVE Enters(k)
  <2> DEFINE n == [call[k] EXCEPT !.pc = "read", !.slot = slot, !.entry = e]
  <2>1. IsCall(n) /\ n.pc = "read" /\ n.slot = slot /\ n.entry = e /\ n.gen = call[k].gen
    BY ONLY <1>0 DEF IsCall, CallKeys
  <2>2. call' = [call EXCEPT ![k] = n]
    BY <1>0, <1>1 DEF F!Persist, FileType, IsCall, CallKeys
  <2> HIDE DEF n
  <2>3. Only(k) /\ call'[k] = n
    BY <2>1, <2>2, CallMoves
  <2>4. /\ memory' = [memory EXCEPT !.over[slot] = e] /\ causes \subseteq causes' /\ call[k].pc = "idle"
        /\ UNCHANGED <<disk, poll, gen, prompts>>
    BY <1>1 DEF F!Persist, F!manager, F!At_
  <2> QED BY ONLY <2>1, <2>3, <2>4 DEF Enters, Puts_, F!Writing
<1>2. CASE F!ReadRaw(k)
  <2> DEFINE d == [disk.content EXCEPT !.over[call[k].slot] = call[k].entry]
             n == [call[k] EXCEPT !.pc = "truncate", !.data = d]
  <2>1. call[k].pc = "read" /\ UNCHANGED <<disk, memory, poll, causes, gen, prompts>>
    BY <1>2 DEF F!ReadRaw, F!At_, F!center, F!manager
  <2>2. call' = [call EXCEPT ![k] = n]
    BY <1>0, <1>2 DEF F!ReadRaw, F!Entered, FileType, IsCall, CallKeys
  <2> HIDE DEF d
  <2>3. IsCall(n) /\ n.pc = "truncate" /\ n.slot = call[k].slot /\ n.gen = call[k].gen
    BY ONLY <1>0 DEF IsCall, CallKeys
  <2> HIDE DEF n
  <2>4. Only(k) /\ call'[k] = n
    BY <2>2, <2>3, CallMoves
  <2> QED BY ONLY <1>0, <2>1, <2>3, <2>4 DEF Proceeds, Puts_, In, F!Writing
<1>3. ASSUME NEW pc_, F!Go(k, pc_)
      PROVE  Only(k) /\ call'[k].pc = pc_ /\ call'[k].slot = call[k].slot /\ call'[k].gen = call[k].gen
  <2> DEFINE n == [call[k] EXCEPT !.pc = pc_]
  <2>1. IsCall(n) /\ n.pc = pc_ /\ n.slot = call[k].slot /\ n.gen = call[k].gen
    BY ONLY <1>0 DEF IsCall, CallKeys
  <2>2. call' = [call EXCEPT ![k] = n]
    BY <1>3 DEF F!Go
  <2> HIDE DEF n
  <2>3. Only(k) /\ call'[k] = n
    BY <2>1, <2>2, CallMoves
  <2> QED BY ONLY <2>1, <2>3
<1>4. CASE F!Truncate(k)
  <2>1. /\ call[k].pc = "truncate" /\ UNCHANGED <<memory, poll, causes, gen, prompts>>
        /\ disk' = [content |-> F!Emptied, mtime |-> disk.mtime + 1] /\ F!Go(k, "fill")
    BY <1>4 DEF F!Truncate, F!At_, F!Stamp, F!center, F!manager
  <2>2. disk.mtime <= disk'.mtime
    BY ONLY <1>0, <2>1
  <2> QED BY <1>3, <2>1, <2>2 DEF Proceeds, Puts_, In, F!Writing
<1>5. CASE F!Fill(k)
  <2>1. /\ call[k].pc = "fill" /\ UNCHANGED <<memory, poll, causes, gen, prompts>>
        /\ \E tick \in {0, 1} : disk' = [content |-> call[k].data, mtime |-> disk.mtime + tick]
        /\ F!Go(k, "commit")
    BY <1>5 DEF F!Fill, F!At_, F!center, F!manager
  <2>2. disk.mtime <= disk'.mtime
    BY ONLY <1>0, <2>1
  <2> QED BY <1>3, <2>1, <2>2 DEF Proceeds, Puts_, In, F!Writing
<1>6. CASE F!Commit(k)
  <2> DEFINE n == [call[k] EXCEPT !.pc = "notify", !.data = Unset, !.entry = Unset]
  <2>1. call[k].pc = "commit" /\ UNCHANGED <<disk, memory, poll, causes, gen, prompts>>
    BY <1>6 DEF F!Commit, F!At_, F!manager
  <2>2. call' = [call EXCEPT ![k] = n]
    BY <1>0, <1>6 DEF F!Commit, FileType, IsCall, CallKeys
  <2>3. IsCall(n) /\ n.pc = "notify" /\ n.slot = call[k].slot /\ n.gen = call[k].gen
    BY ONLY <1>0 DEF IsCall, CallKeys
  <2> HIDE DEF n
  <2>4. Only(k) /\ call'[k] = n
    BY <2>2, <2>3, CallMoves
  <2> QED BY ONLY <1>0, <2>1, <2>3, <2>4 DEF Proceeds, Puts_, In, F!Writing
<1>7. ASSUME F!Leave(k) PROVE Only(k) /\ call'[k] = F!Idle
  <2>1. IsCall(F!Idle)
    BY DEF IsCall, CallKeys, F!Idle
  <2>2. call' = [call EXCEPT ![k] = F!Idle]
    BY <1>7 DEF F!Leave
  <2> QED BY <2>1, <2>2, CallMoves
<1>8. CASE F!WriteFails(k)
  <2>1. /\ In(k, {"read", "truncate", "fill"}) /\ F!Leave(k)
        /\ causes' = causes \cup {IF In(k, {"fill"}) THEN "torn" ELSE "unsaved"}
        /\ UNCHANGED <<disk, memory, poll, gen, prompts>>
    BY <1>8 DEF F!WriteFails, F!At_, F!Writing, F!center, F!manager, In
  <2> QED BY <1>7, <2>1 DEF GivesUp
<1>9. CASE F!Notify(k)
  <2>1. In(k, {"notify"}) /\ F!Leave(k) /\ UNCHANGED <<disk, memory, poll, causes>>
    BY <1>9 DEF F!Notify, F!At_, F!center, In
  <2>2. \/ /\ gen' = gen + 1
           /\ prompts' = [key \in F!Keys |-> IF key[1] = call[k].slot.category THEN Unset ELSE prompts[key]]
        \/ call[k].slot.category \notin Prompts /\ UNCHANGED <<gen, prompts>>
    BY <1>9 DEF F!Notify, F!manager
  <2> QED BY <1>7, <2>1, <2>2 DEF Notifies
<1> QED
  <2>1. CASE F!Write(k) \/ F!PutPrompt(k) \/ F!DeletePrompt(k) \/ F!Rollback(k)
    <3>1. PICK slot, e : F!Persist(k, slot, e)
      BY <2>1 DEF F!Write, F!PutPrompt, F!DeletePrompt, F!Rollback, F!WritePrompt
    <3> QED BY <1>1, <3>1
  <2> QED BY <1>2, <1>4, <1>5, <1>6, <1>8, <1>9, <2>1 DEF F!Puts

\* What else takes place in the manager and the centre.
LEMMA PollSees ==
  ASSUME F!PollStep
  PROVE  \/ poll.pc = "event" /\ UNCHANGED memory /\ gen' = gen + 1 /\ prompts' = F!NoCache
         \/ poll.pc # "event" /\ UNCHANGED <<gen, prompts>>
<1>1. CASE F!PollEvent
  BY <1>1 DEF F!PollEvent, F!center
<1>2. CASE F!Wake \/ F!PollStat \/ F!PollLoad \/ F!PollLoadFails \/ F!PollApply
  BY <1>2 DEF F!Wake, F!PollStat, F!PollLoad, F!PollLoadFails, F!PollApply, F!manager
<1> QED BY <1>1, <1>2 DEF F!PollStep

LEMMA WorldSees ==
  ASSUME F!Edit \/ F!Restart \/ F!Tick
  PROVE  \/ UNCHANGED <<memory, poll, call, gen, prompts, mtime>> /\ causes \subseteq causes'
            /\ (disk' = disk \/ disk'.mtime = disk.mtime + 1)
         \/ /\ memory' = F!Loaded(disk.content) /\ gen' = 0 /\ prompts' = F!NoCache
            /\ call' = [k \in F!Callers |-> F!Idle]
<1>1. CASE F!Edit
  <2>1. disk'.mtime = disk.mtime + 1
    BY <1>1 DEF F!Edit, F!Stamp
  <2>2. UNCHANGED <<memory, poll, call, gen, prompts, mtime>> /\ causes \subseteq causes'
    BY <1>1 DEF F!Edit, F!center, F!manager
  <2> QED BY <2>1, <2>2
<1>2. CASE F!Restart
  BY <1>2 DEF F!Restart
<1>3. CASE F!Tick
  BY <1>3 DEF F!Tick, F!center, F!manager
<1> QED BY <1>1, <1>2, <1>3

LEMMA LoadedHolds == \A c : IsContent(c) => IsContent(F!Loaded(c))
<1> SUFFICES ASSUME NEW c, IsContent(c) PROVE IsContent(F!Loaded(c))
  OBVIOUS
<1> DEFINE d == F!FlattenDefaults(c.defaults)
<1>1. F!Loaded(c) = [c EXCEPT !.defaults = d]
  BY DEF F!Loaded
<1> HIDE DEF d
<1> QED BY ONLY <1>1, IsContent(c) DEF IsContent

LEMMA PromptsTypeStep == FileType /\ PromptsType /\ F!Next => PromptsType'
<1> SUFFICES ASSUME FileType, PromptsType, F!Next PROVE PromptsType'
  OBVIOUS
<1>0. /\ IsContent(memory) /\ gen \in Nat /\ prompts = [key \in F!Keys |-> prompts[key]]
      /\ \A k \in F!Callers :
           /\ call[k].gen \in Nat /\ call[k].gen <= gen
           /\ call[k].pc \in Awaited => call[k].key \in F!Keys
  BY DEF PromptsType, In
<1>1. /\ IsContent(disk.content) /\ (poll.pc = "apply" => IsContent(poll.data))
      /\ \A k \in F!Callers : In(k, {"apply"}) => IsContent(call[k].data)
  BY DEF FileType, In
<1>2. F!Idle.pc = "idle" /\ F!Idle.gen = 0
  BY DEF F!Idle
<1>3. F!NoCache = [key \in F!Keys |-> F!NoCache[key]]
  BY DEF F!NoCache
<1>4. ASSUME NEW k \in F!Callers, Moves(k) \/ Finds(k) \/ Caches(k) PROVE PromptsType'
  <2>1. Only(k) /\ gen' = gen
    BY <1>4 DEF Moves, Finds, Caches, Aside
  <2>2. IsContent(memory')
    <3>1. memory' = memory \/ (In(k, {"apply"}) /\ memory' = F!Loaded(call[k].data))
      BY <1>4 DEF Moves, Finds, Caches
    <3> QED BY ONLY <1>0, <1>1, <3>1, LoadedHolds
  <2>3. prompts' = [key \in F!Keys |-> prompts'[key]]
    <3>1. prompts' = prompts \/ \E key, f : prompts' = [prompts EXCEPT ![key] = f]
      BY <1>4 DEF Moves, Finds, Caches
    <3> QED BY ONLY <1>0, <3>1
  <2>4. /\ call'[k].gen \in {call[k].gen, gen, 0}
        /\ call'[k].pc \in Awaited => call'[k].key \in F!Keys
    BY <1>2, <1>4 DEF Moves, Finds, Caches, Awaited
  <2>5. \A j \in F!Callers : /\ call'[j].gen \in Nat /\ call'[j].gen <= gen
                             /\ call'[j].pc \in Awaited => call'[j].key \in F!Keys
    BY ONLY <1>0, <2>1, <2>4 DEF Only
  <2> QED BY ONLY <1>0, <2>1, <2>2, <2>3, <2>5 DEF PromptsType, In, F!Callers, F!Keys
<1>5. ASSUME NEW k \in F!Callers, Enters(k) \/ Proceeds(k) \/ GivesUp(k) \/ Notifies(k) PROVE PromptsType'
  <2>1. Only(k) /\ gen' \in {gen, gen + 1}
    BY <1>5 DEF Enters, Proceeds, GivesUp, Notifies, Puts_
  <2>2. IsContent(memory')
    <3>1. memory' = memory \/ memory' = [memory EXCEPT !.over[call'[k].slot] = call'[k].entry]
      BY <1>5 DEF Enters, Proceeds, GivesUp, Notifies
    <3>2. IsContent([memory EXCEPT !.over[call'[k].slot] = call'[k].entry])
      BY ONLY <1>0, ContentHolds
    <3> QED BY ONLY <1>0, <3>1, <3>2
  <2>3. prompts' = [key \in F!Keys |-> prompts'[key]]
    <3>1. \/ prompts' = prompts
          \/ prompts' = [key \in F!Keys |-> IF key[1] = call[k].slot.category THEN Unset ELSE prompts[key]]
      BY <1>5 DEF Enters, Proceeds, GivesUp, Notifies, Puts_
    <3> QED BY ONLY <1>0, <3>1
  <2>4. call'[k].gen \in {call[k].gen, 0} /\ call'[k].pc \notin Awaited
    BY <1>2, <1>5 DEF Enters, Proceeds, GivesUp, Notifies, Puts_, Awaited, F!Writing
  <2>5. \A j \in F!Callers : /\ call'[j].gen \in Nat /\ call'[j].gen <= gen'
                             /\ call'[j].pc \in Awaited => call'[j].key \in F!Keys
    BY ONLY <1>0, <2>1, <2>4 DEF Only
  <2>6. gen' \in Nat
    BY ONLY <1>0, <2>1
  <2> QED BY ONLY <2>2, <2>3, <2>5, <2>6 DEF PromptsType, In, F!Callers, F!Keys
<1>6. CASE F!PollStep
  <2>1. call' = call /\ gen' \in {gen, gen + 1} /\ (prompts' = prompts \/ prompts' = F!NoCache)
    BY <1>6, PollSteps, PollSees
  <2>2. memory' = memory \/ (poll.pc = "apply" /\ memory' = F!Loaded(poll.data))
    BY <1>6, PollSteps DEF Takes
  <2>3. IsContent(memory')
    BY ONLY <1>0, <1>1, <2>2, LoadedHolds
  <2>4. prompts' = [key \in F!Keys |-> prompts'[key]]
    BY ONLY <1>0, <1>3, <2>1
  <2>5. gen' \in Nat /\ \A j \in F!Callers : call[j].gen <= gen'
    BY ONLY <1>0, <2>1
  <2> QED BY ONLY <1>0, <2>1, <2>3, <2>4, <2>5 DEF PromptsType, In, F!Callers, F!Keys
<1>7. CASE F!Edit \/ F!Restart \/ F!Tick
  <2>1. CASE UNCHANGED <<memory, poll, call, gen, prompts, mtime>>
    BY ONLY <1>0, <2>1 DEF PromptsType, In, F!Callers, F!Keys
  <2>2. CASE /\ memory' = F!Loaded(disk.content) /\ gen' = 0 /\ prompts' = F!NoCache
             /\ call' = [k \in F!Callers |-> F!Idle]
    <3>1. IsContent(memory')
      BY ONLY <1>1, <2>2, LoadedHolds
    <3>2. \A j \in F!Callers : call'[j].pc = "idle" /\ call'[j].gen = 0
      BY ONLY <1>2, <2>2
    <3>3. prompts' = [key \in F!Keys |-> prompts'[key]]
      BY ONLY <1>3, <2>2
    <3> QED BY ONLY <2>2, <3>1, <3>2, <3>3 DEF PromptsType, In, F!Callers, F!Keys, Awaited
  <2> QED BY <1>7, <2>1, <2>2, WorldSees
<1> QED
  <2>1. \A k \in Readers : F!Reads(k) => PromptsType'
    BY <1>4, ReadsSee DEF F!Callers
  <2>2. \A k \in Writers : F!Puts(k) => PromptsType'
    BY <1>5, PutsSee DEF F!Callers
  <2> QED BY <1>6, <1>7, <2>1, <2>2 DEF F!Next

LEMMA PromptsStep == FileInv /\ PromptsType /\ PromptsFollow /\ F!Next => PromptsFollow'
<1> SUFFICES ASSUME FileInv, PromptsType, PromptsFollow, F!Next, Clean'
             PROVE  PromptsFollow'
  BY DEF PromptsFollow, Clean
<1> DEFINE Coming(key) ==
             \/ poll'.last < disk'.mtime
             \/ \E j \in F!Callers : call'[j].pc \in F!Writing \cup {"notify"} /\ call'[j].slot.category = key[1]
           Fits(key, f) == f = F!Made(key, memory', f.now) \/ Coming(key)
           Was(key, f) ==
             \/ f = F!Made(key, memory, f.now)
             \/ poll.last < disk.mtime
             \/ \E j \in F!Callers : call[j].pc \in F!Writing \cup {"notify"} /\ call[j].slot.category = key[1]
<1> SUFFICES /\ \A key \in F!Keys : prompts'[key] # Unset => Fits(key, prompts'[key])
             /\ \A j \in F!Callers : call'[j].pc = "resolved" /\ call'[j].gen = gen' =>
                  Fits(call'[j].key, call'[j].found)
  BY DEF PromptsFollow, Right, Pending, In, F!Callers, F!Keys, F!Writing, F!Made, F!ResolvePrompt
<1>0. FileType /\ PollCaught /\ MemoryFollows
  BY DEF FileInv
<1>1. Clean =>
        /\ \A key \in F!Keys : prompts[key] # Unset => Was(key, prompts[key])
        /\ \A j \in F!Callers : call[j].pc = "resolved" /\ call[j].gen = gen =>
             Was(call[j].key, call[j].found)
  BY DEF PromptsFollow, Right, Pending, In
<1>2. /\ IsContent(memory) /\ gen \in Nat /\ prompts = [key \in F!Keys |-> prompts[key]]
      /\ \A k \in F!Callers :
           /\ call[k].gen \in Nat /\ call[k].gen <= gen
           /\ call[k].pc \in Awaited => call[k].key \in F!Keys
  BY DEF PromptsType, In
<1>3. /\ disk.mtime \in Nat /\ mtime \in Nat /\ poll.last \in Nat
      /\ Clean => poll.last <= mtime
  BY <1>0 DEF FileType, PollCaught
<1>4. F!Idle.pc = "idle"
  BY DEF F!Idle
<1> HIDE DEF Coming, Fits, Was
<1>5. ASSUME NEW k \in F!Callers, Moves(k) \/ Finds(k) \/ Caches(k)
      PROVE  /\ \A key \in F!Keys : prompts'[key] # Unset => Fits(key, prompts'[key])
             /\ \A j \in F!Callers : call'[j].pc = "resolved" /\ call'[j].gen = gen' =>
                  Fits(call'[j].key, call'[j].found)
  <2>1. /\ UNCHANGED <<disk, poll, causes, gen>> /\ Only(k)
        /\ call[k].pc \notin F!Writing \cup {"notify"}
    BY <1>5 DEF Moves, Finds, Caches, Aside, In
  <2>2. Clean
    BY ONLY <2>1, Clean' DEF Clean
  <2>3. memory' = memory \/ \A key : Coming(key)
    <3>1. memory' = memory \/ (In(k, {"apply"}) /\ mtime < call[k].mtime)
      BY <1>5 DEF Moves, Finds, Caches
    <3>2. In(k, {"apply"}) => call[k].mtime \in Nat /\ call[k].mtime <= disk.mtime
      BY <1>0 DEF FileType, In
    <3> QED BY ONLY <1>3, <2>1, <2>2, <3>1, <3>2 DEF Coming
  <2>4. \A key, f : Was(key, f) => Fits(key, f)
    BY ONLY <2>1, <2>3 DEF Was, Fits, Coming, Only
  <2>5. ASSUME NEW key \in F!Keys, prompts'[key] # Unset PROVE Fits(key, prompts'[key])
    <3>1. \/ prompts' = prompts
          \/ call[k].pc = "resolved" /\ call[k].gen = gen /\ prompts' = [prompts EXCEPT ![call[k].key] = call[k].found]
      BY <1>5 DEF Moves, Finds, Caches, In
    <3> QED BY ONLY <1>1, <1>2, <2>2, <2>4, <2>5, <3>1, k \in F!Callers
  <2>6. ASSUME NEW j \in F!Callers, call'[j].pc = "resolved", call'[j].gen = gen'
        PROVE  Fits(call'[j].key, call'[j].found)
    <3>1. CASE j # k
      <4>1. call'[j] = call[j]
        BY ONLY <2>1, <3>1, j \in F!Callers DEF Only
      <4> QED BY ONLY <1>1, <2>1, <2>2, <2>4, <2>6, <4>1
    <3>2. CASE j = k
      <4>1. Finds(k)
        BY <1>4, <1>5, <2>6, <3>2 DEF Moves, Caches
      <4>2. call'[k].key = call[k].key /\ call'[k].found = F!Made(call[k].key, memory', clock)
        BY <4>1 DEF Finds
      <4>3. F!Made(call[k].key, memory', clock).now = clock
        BY ONLY MadeIs
      <4> QED BY ONLY <3>2, <4>2, <4>3 DEF Fits
    <3> QED BY <3>1, <3>2
  <2> QED BY <2>5, <2>6
<1>6. ASSUME NEW k \in F!Callers, Enters(k) \/ Proceeds(k) \/ GivesUp(k) \/ Notifies(k)
      PROVE  /\ \A key \in F!Keys : prompts'[key] # Unset => Fits(key, prompts'[key])
             /\ \A j \in F!Callers : call'[j].pc = "resolved" /\ call'[j].gen = gen' =>
                  Fits(call'[j].key, call'[j].found)
  <2>1. Only(k) /\ poll' = poll /\ causes \subseteq causes' /\ disk.mtime <= disk'.mtime
    <3>1. disk' = disk \/ disk.mtime <= disk'.mtime
      BY <1>6 DEF Enters, Proceeds, GivesUp, Notifies
    <3>2. Only(k) /\ poll' = poll /\ causes \subseteq causes'
      BY <1>6 DEF Enters, Proceeds, GivesUp, Notifies, Puts_
    <3> QED BY ONLY <1>3, <3>1, <3>2
  <2>2. Clean
    BY ONLY <2>1, Clean' DEF Clean
  <2>3. call'[k].pc # "resolved"
    BY <1>4, <1>6 DEF Enters, Proceeds, GivesUp, Notifies, Puts_, F!Writing
  <2>4. poll.last < disk.mtime => poll'.last < disk'.mtime
    <3>1. CASE disk'.mtime \in Nat
      BY ONLY <1>3, <2>1, <3>1
    <3>2. disk'.mtime \in Nat
      <4>1. FileType'
        BY <1>0, TypeStep
      <4> QED BY <4>1 DEF FileType
    <3> QED BY <3>1, <3>2
  <2>5. CASE Enters(k)
    <3>1. /\ memory' = [memory EXCEPT !.over[call'[k].slot] = call'[k].entry] /\ UNCHANGED <<gen, prompts>>
          /\ call'[k].pc \in F!Writing \cup {"notify"} /\ call[k].pc = "idle"
      BY <2>5 DEF Enters, Puts_
    <3>2. \A key, f : Was(key, f) => Fits(key, f)
      <4> SUFFICES ASSUME NEW key, NEW f, Was(key, f) PROVE Fits(key, f)
        OBVIOUS
      <4>1. CASE call'[k].slot.category = key[1]
        BY ONLY <3>1, <4>1, k \in F!Callers DEF Fits, Coming
      <4>2. CASE call'[k].slot.category # key[1]
        <5>1. F!Made(key, memory', f.now) = F!Made(key, memory, f.now)
          <6>1. IsContent(memory)
            BY ONLY <1>2
          <6>2. F!Made(key, [memory EXCEPT !.over[call'[k].slot] = call'[k].entry], f.now) = F!Made(key, memory, f.now)
            BY ONLY <4>2, <6>1, MadeElsewhere
          <6>3. memory' = [memory EXCEPT !.over[call'[k].slot] = call'[k].entry]
            BY ONLY <3>1
          <6> QED BY ONLY <6>2, <6>3
        <5>2. call[k].pc \notin F!Writing \cup {"notify"}
          BY ONLY <3>1 DEF F!Writing
        <5> QED BY ONLY <2>1, <2>4, <5>1, <5>2, Was(key, f) DEF Was, Fits, Coming, Only
      <4> QED BY <4>1, <4>2
    <3> QED BY ONLY <1>1, <2>1, <2>2, <2>3, <3>1, <3>2 DEF Only
  <2>6. CASE Proceeds(k)
    <3>1. /\ UNCHANGED <<gen, prompts, memory>>
          /\ call'[k].pc \in F!Writing \cup {"notify"} /\ call'[k].slot = call[k].slot
      BY <2>6 DEF Proceeds, Puts_
    <3>2. \A key, f : Was(key, f) => Fits(key, f)
      BY ONLY <2>1, <2>4, <3>1 DEF Was, Fits, Coming, Only
    <3> QED BY ONLY <1>1, <2>1, <2>2, <2>3, <3>1, <3>2 DEF Only
  <2>7. CASE GivesUp(k)
    <3>1. In(k, {"fill"})
      BY ONLY <2>7, Clean' DEF GivesUp, Clean
    <3>2. poll.last < disk.mtime
      <4>1. MemoryFollows
        BY ONLY <1>0
      <4>2. mtime < disk.mtime
        BY <2>2, <3>1, <4>1 DEF MemoryFollows
      <4> QED BY ONLY <1>3, <2>2, <4>2
    <3> QED BY ONLY <2>4, <3>2 DEF Fits, Coming
  <2>8. CASE Notifies(k)
    <3>1. memory' = memory
      BY <2>8 DEF Notifies
    <3>2. ASSUME NEW key, call[k].slot.category # key[1], NEW f, Was(key, f) PROVE Fits(key, f)
      BY ONLY <2>1, <2>4, <3>1, <3>2 DEF Was, Fits, Coming, Only
    <3>3. CASE /\ gen' = gen + 1
               /\ prompts' = [key \in F!Keys |-> IF key[1] = call[k].slot.category THEN Unset ELSE prompts[key]]
      <4>1. \A j \in F!Callers : call'[j].pc = "resolved" => call'[j].gen # gen'
        BY ONLY <1>2, <2>1, <2>3, <3>3 DEF Only
      <4>2. \A key \in F!Keys : prompts'[key] # Unset => call[k].slot.category # key[1] /\ prompts'[key] = prompts[key]
        BY ONLY <3>3
      <4> QED BY ONLY <1>1, <2>2, <3>2, <4>1, <4>2
    <3>4. CASE call[k].slot.category \notin Prompts /\ UNCHANGED <<gen, prompts>>
      <4>1. \A key \in F!Keys : call[k].slot.category # key[1]
        BY ONLY <3>4 DEF F!Keys
      <4>2. \A j \in F!Callers : call'[j].pc = "resolved" =>
              call'[j] = call[j] /\ call[j].key \in F!Keys
        BY ONLY <1>2, <2>1, <2>3 DEF Only, Awaited
      <4>3. \A key \in F!Keys : prompts'[key] # Unset => Fits(key, prompts'[key])
        BY ONLY <1>1, <2>2, <3>2, <3>4, <4>1
      <4>4. ASSUME NEW j \in F!Callers, call'[j].pc = "resolved", call'[j].gen = gen'
            PROVE  Fits(call'[j].key, call'[j].found)
        BY ONLY <1>1, <2>2, <3>2, <3>4, <4>1, <4>2, <4>4
      <4> QED BY ONLY <4>3, <4>4
    <3> QED BY <2>8, <3>3, <3>4 DEF Notifies
  <2> QED BY <1>6, <2>5, <2>6, <2>7, <2>8
<1>7. CASE F!PollStep
  <2>1. CASE poll.pc = "event" /\ gen' = gen + 1 /\ prompts' = F!NoCache
    <3>1. call' = call
      BY <1>0, <1>7, PollSteps
    <3>2. \A j \in F!Callers : call'[j].gen # gen'
      BY ONLY <1>2, <2>1, <3>1
    <3>3. \A key \in F!Keys : prompts'[key] = Unset
      BY ONLY <2>1 DEF F!NoCache
    <3> QED BY ONLY <3>2, <3>3
  <2>2. CASE poll.pc # "event" /\ UNCHANGED <<gen, prompts>>
    <3>1. /\ UNCHANGED <<disk, call>> /\ poll'.last = poll.last /\ causes \subseteq causes'
          /\ memory' = memory \/ (poll.pc = "apply" /\ Takes(poll.data, poll.mtime))
      BY <1>0, <1>7, <2>2, PollSteps
    <3>2. Clean
      BY ONLY <3>1, Clean' DEF Clean
    <3>3. poll.pc = "apply" => poll.mtime \in Nat /\ poll.mtime <= disk.mtime
      BY <1>0 DEF FileType
    <3>4. memory' = memory \/ \A key : Coming(key)
      BY ONLY <1>3, <3>1, <3>2, <3>3 DEF Takes, Coming
    <3>5. \A key, f : Was(key, f) => Fits(key, f)
      BY ONLY <3>1, <3>4 DEF Was, Fits, Coming
    <3> QED BY ONLY <1>1, <2>2, <3>1, <3>2, <3>5
  <2> QED BY <1>7, <2>1, <2>2, PollSees
<1>8. CASE F!Edit \/ F!Restart \/ F!Tick
  <2>1. CASE /\ UNCHANGED <<memory, poll, call, gen, prompts, mtime>> /\ causes \subseteq causes'
             /\ (disk' = disk \/ disk'.mtime = disk.mtime + 1)
    <3>1. Clean
      BY ONLY <2>1, Clean' DEF Clean
    <3>2. poll.last < disk.mtime => poll'.last < disk'.mtime
      BY ONLY <1>3, <2>1
    <3>3. \A key, f : Was(key, f) => Fits(key, f)
      BY ONLY <2>1, <3>2 DEF Was, Fits, Coming
    <3> QED BY ONLY <1>1, <2>1, <3>1, <3>3
  <2>2. CASE prompts' = F!NoCache /\ call' = [k \in F!Callers |-> F!Idle]
    BY ONLY <1>4, <2>2 DEF F!NoCache
  <2> QED BY <1>8, <2>1, <2>2, WorldSees
<1> QED
  <2>1. ASSUME NEW k \in Readers, F!Reads(k)
        PROVE  /\ \A key \in F!Keys : prompts'[key] # Unset => Fits(key, prompts'[key])
               /\ \A j \in F!Callers : call'[j].pc = "resolved" /\ call'[j].gen = gen' =>
                    Fits(call'[j].key, call'[j].found)
    BY <1>0, <1>5, <2>1, ReadsSee DEF F!Callers
  <2>2. ASSUME NEW k \in Writers, F!Puts(k)
        PROVE  /\ \A key \in F!Keys : prompts'[key] # Unset => Fits(key, prompts'[key])
               /\ \A j \in F!Callers : call'[j].pc = "resolved" /\ call'[j].gen = gen' =>
                    Fits(call'[j].key, call'[j].found)
    BY <1>0, <1>6, <2>2, PutsSee DEF F!Callers
  <2> QED BY <1>7, <1>8, <2>1, <2>2 DEF F!Next

\* FileConfigCenter and the prompt manager: at rest every cached prompt is what the
\* most specific sources in memory make of it.
THEOREM PromptsCurrentHolds == BackendSpec => []PromptsCurrent
<1>1. BackendInit => PromptsType /\ PromptsFollow
  <2> SUFFICES ASSUME F!Init PROVE PromptsType /\ PromptsFollow
    BY DEF BackendInit
  <2>1. /\ memory = F!Loaded([defaults |-> Defaults, over |-> F!Nothing]) /\ gen = 0
        /\ prompts = F!NoCache /\ call = [k \in F!Callers |-> F!Idle]
    BY DEF F!Init
  <2>2. IsContent([defaults |-> Defaults, over |-> F!Nothing])
    BY DEF IsContent, F!Nothing
  <2>3. IsContent(memory)
    BY ONLY <2>1, <2>2, LoadedHolds
  <2>4. \A k \in F!Callers : call[k].pc = "idle" /\ call[k].gen = 0
    BY ONLY <2>1 DEF F!Idle
  <2>5. prompts = [key \in F!Keys |-> prompts[key]] /\ \A key \in F!Keys : prompts[key] = Unset
    BY ONLY <2>1 DEF F!NoCache
  <2> QED BY ONLY <2>1, <2>3, <2>4, <2>5 DEF PromptsType, PromptsFollow, In, Awaited
<1>2. FileInv /\ PromptsType /\ PromptsFollow /\ [BackendNext]_<<backend, vars, file>>
        => PromptsType' /\ PromptsFollow'
  <2> SUFFICES ASSUME FileInv, PromptsType, PromptsFollow, [BackendNext]_<<backend, vars, file>>
               PROVE  PromptsType' /\ PromptsFollow'
    OBVIOUS
  <2>1. CASE F!Next
    BY <2>1, PromptsTypeStep, PromptsStep DEF FileInv
  <2>2. CASE UNCHANGED file
    <3>1. UNCHANGED <<disk, memory, call, poll, prompts, gen, causes>>
      BY <2>2 DEF file
    <3>2. PromptsType'
      BY ONLY <3>1, PromptsType DEF PromptsType, In, F!Callers, F!Keys
    <3>3. PromptsFollow'
      BY ONLY <3>1, PromptsFollow DEF PromptsFollow, Clean, Right, Pending, In, F!Callers, F!Keys, F!Writing
    <3> QED BY <3>2, <3>3
  <2> QED BY <2>1, <2>2 DEF BackendNext
<1>3. FileInv /\ PromptsFollow => PromptsCurrent
  <2> SUFFICES ASSUME FileInv, PromptsFollow, F!AtRest, causes \subseteq {"torn", "raced"},
                      NEW key \in F!Keys, prompts[key] # Unset
               PROVE  LET wanted == [param \in ParamKeys |->
                                       F!MostSpecific(key[1], memory, F!Context(key, prompts[key].now), param)]
                      IN IF F!ValidBody(wanted) THEN prompts[key].body = wanted
                         ELSE prompts[key].source = "builtin"
    BY DEF PromptsCurrent, F!PromptsCurrent
  <2>1. Clean
    BY DEF Clean
  <2>2. ~Pending(key)
    <3>1. poll.last = disk.mtime /\ disk.mtime \in Nat /\ \A k \in F!Callers : call[k] = F!Idle
      BY DEF F!AtRest, FileInv, FileType
    <3>2. F!Idle.pc = "idle"
      BY DEF F!Idle
    <3> QED BY ONLY <3>1, <3>2 DEF Pending, In, F!Writing
  <2>3. prompts[key] = F!Made(key, memory, prompts[key].now)
    BY <2>1, <2>2 DEF PromptsFollow, Right
  <2> QED BY ONLY <2>3, MadeIs
<1> QED BY <1>1, <1>2, <1>3, FileAlways, PTL DEF BackendSpec
=============================================================================

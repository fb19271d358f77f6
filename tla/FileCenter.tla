----------------------------- MODULE FileCenter -----------------------------
(***************************************************************************)
(* FileConfigCenter (config_center/file_center.py under _common.py and     *)
(* _prompts.py) and the ConfigCenterPromptManager that caches what it      *)
(* resolves.  A YAML file holds the configuration; operators edit it, the  *)
(* admin API writes it, and the process keeps a copy that it reloads when  *)
(* the file's mtime has grown.  Reading and writing the file are awaits.   *)
(***************************************************************************)
EXTENDS Resolver, FiniteSets

CONSTANTS
  Readers,    \* coroutines that resolve prompts
  Writers,    \* coroutines of admin requests that write the configuration
  Contexts,   \* the [tenant, user] prompts are asked for
  Slots,      \* the slots that may be written
  Writes,     \* the [slot, entry] the admin API may write
  Edits,      \* the [slot, entry] an operator may put into the file
  Defaults,   \* the defaults of the file, a leaf for each category
  Deleted,    \* what a param of the placeholder says
  MaxEvents   \* bound: writes, edits, faults and minutes altogether

VARIABLES
  disk,      \* the file: its content and mtime
  memory,    \* _defaults_flat and the three overrides
  mtime,     \* _mtime
  version,   \* _version
  log,       \* _history_inmem, newest first
  call,      \* each caller: where it is and its locals
  poll,      \* _poll_loop: where it is and its locals
  cache,     \* the prompt manager's cache
  gen,       \* its _cache_gen
  owed,      \* per slot, the entry last written and acknowledged
  causes,    \* what may set memory and file apart
  spent,     \* writes, edits, faults and minutes so far
  clock      \* the minute that gray rules look at

center == <<memory, mtime, version, log>>
manager == <<cache, gen>>
vars == <<disk, center, call, poll, manager, owed, causes, spent, clock>>

Nothing == [slot \in Slots |-> Unset]
\* yaml.safe_load() of a file that was just truncated.
Emptied == [defaults |-> [c \in Categories |-> Unset], over |-> Nothing]
Callers == Readers \cup Writers
Keys == Prompts \X Contexts
NoCache == [key \in Keys |-> Unset]
Idle == [pc |-> "idle", key |-> Unset, gen |-> 0, mtime |-> 0, data |-> Unset,
         found |-> Unset, slot |-> Unset, entry |-> Unset]
Asleep(seen) == [pc |-> "asleep", last |-> seen, seen |-> 0, mtime |-> 0, data |-> Unset]
\* What a reload takes over from the parsed file.
Loaded(content) == [content EXCEPT !.defaults = FlattenDefaults(@)]

Init ==
  /\ disk = [content |-> [defaults |-> Defaults, over |-> Nothing], mtime |-> 1]
  /\ memory = Loaded(disk.content) /\ mtime = 1 /\ version = 1 /\ log = <<>>
  /\ call = [k \in Callers |-> Idle]
  /\ poll = Asleep(1)
  /\ cache = NoCache /\ gen = 0
  /\ owed = Nothing /\ causes = {}
  /\ spent = 0 /\ clock = 0

At_(k, pc) == call[k].pc = pc
Go(k, pc) == call' = [call EXCEPT ![k].pc = pc]
Leave(k) == call' = [call EXCEPT ![k] = Idle]
Counted == spent < MaxEvents /\ spent' = spent + 1
Stamp(content) == disk' = [content |-> content, mtime |-> disk.mtime + 1]

Resolving == {"stat", "load", "apply"}
Writing == {"read", "truncate", "fill", "commit"}
\* Nobody is inside _lock; _reload_mu_async is held by those who write.
LockFree == \A k \in Callers : call[k].pc \notin Resolving \cup Writing
MutexFree == \A k \in Callers : call[k].pc \notin Writing

-----------------------------------------------------------------------------
(* ConfigCenterPromptManager.resolve() and, inside it, resolve_prompt()     *)

Ask(k, key) ==
  /\ At_(k, "idle") /\ cache[key] = Unset
  /\ call' = [call EXCEPT ![k].pc = "asked", ![k].key = key, ![k].gen = gen]
  /\ UNCHANGED <<disk, center, poll, manager, owed, causes, spent, clock>>

EnterResolve(k) ==
  /\ At_(k, "asked") /\ LockFree
  /\ Go(k, "stat")
  /\ UNCHANGED <<disk, center, poll, manager, owed, causes, spent, clock>>

\* What the caller returns with once its reload is over, still inside the lock.
Context(key, minute) == [now |-> minute, tenant |-> key[2].tenant, user |-> key[2].user]
Made(key, content, minute) ==
  LET resolved == ResolvePrompt(key[1], content, Unset, Context(key, minute))
  IN [now |-> minute, body |-> resolved.body, source |-> resolved.source]
Found(k, content) == Made(call[k].key, content, clock)
Resolved(k, content) ==
  call' = [call EXCEPT ![k].pc = "resolved", ![k].mtime = 0, ![k].data = Unset,
                       ![k].found = Found(k, content)]

\* _reload_from_disk_async() in a resolve
Stat(k) ==
  /\ At_(k, "stat")
  /\ IF disk.mtime <= mtime THEN Resolved(k, memory)
     ELSE call' = [call EXCEPT ![k].pc = "load", ![k].mtime = disk.mtime]
  /\ UNCHANGED <<disk, center, poll, manager, owed, causes, spent, clock>>

Load(k) ==
  /\ At_(k, "load")
  /\ call' = [call EXCEPT ![k].pc = "apply", ![k].data = disk.content]
  /\ UNCHANGED <<disk, center, poll, manager, owed, causes, spent, clock>>

\* Mutant: the mtime is not compared again under the mutex.
Unchecked(data, stamp) == memory' = Loaded(data) /\ mtime' = stamp /\ version' = version + 1
\* The second half of a reload, under the mutex.
Apply(data, stamp) ==
  IF stamp <= mtime THEN UNCHANGED <<memory, mtime, version>>
  ELSE memory' = Loaded(data) /\ mtime' = stamp /\ version' = version + 1

ApplyResolve(k) ==
  /\ At_(k, "apply") /\ MutexFree
  /\ Apply(call[k].data, call[k].mtime)
  /\ Resolved(k, memory')
  /\ UNCHANGED <<disk, log, poll, manager, owed, causes, spent, clock>>

\* stat() or the read raised: the reload is given up and memory serves.
LoadFails(k) ==
  /\ At_(k, "load") /\ Counted
  /\ Resolved(k, memory)
  /\ UNCHANGED <<disk, center, poll, manager, owed, causes, clock>>

WriteBack(k) ==
  /\ At_(k, "resolved")
  /\ cache' = IF gen = call[k].gen THEN [cache EXCEPT ![call[k].key] = call[k].found] ELSE cache
  /\ Leave(k)
  /\ UNCHANGED <<disk, center, poll, gen, owed, causes, spent, clock>>

-----------------------------------------------------------------------------
(* write(), write_prompt(): _persist_entry() under both locks, then _notify() *)

\* The entry is in memory before the file is read.
Persist(k, slot, entry) ==
  /\ At_(k, "idle") /\ LockFree
  /\ Counted
  /\ memory' = [memory EXCEPT !.over[slot] = entry]
  /\ call' = [call EXCEPT ![k].pc = "read", ![k].slot = slot, ![k].entry = entry]
  /\ causes' = causes \cup IF disk.mtime > mtime THEN {"overtaken"} ELSE {}
  /\ owed' = [owed EXCEPT ![slot] = Unset]
  /\ UNCHANGED <<disk, mtime, version, log, poll, manager, clock>>

Write(k) ==
  \E put \in Writes : put.slot.category \notin Prompts /\ Persist(k, put.slot, put.entry)

WritePrompt(k, slot, entry) ==
  slot.category \in Prompts /\ ValidEntry(entry) /\ Persist(k, slot, entry)
\* The admin API: what does not validate is refused.
PutPrompt(k) == \E put \in Writes : WritePrompt(k, put.slot, put.entry)
\* A placeholder without variants takes the place of the body.
DeletePrompt(k) ==
  \E slot \in Slots :
    WritePrompt(k, slot, [name |-> slot.category, params |-> [key \in ParamKeys |-> Deleted],
                          variants |-> Unset])

\* The history has no variants: a rollback writes the entry without them.
Rollback(k) ==
  \E i \in DOMAIN log :
    /\ log[i].slot.category \notin Prompts
    /\ Persist(k, log[i].slot, [log[i].entry EXCEPT !.variants = Unset])

\* The entry in its place in what was read.
Entered(k, content) ==
  call' = [call EXCEPT ![k].pc = "truncate", ![k].data = [content EXCEPT !.over[call[k].slot] = call[k].entry]]

\* Mutant: a file that could not be read is taken for an empty one.
ReadOrEmpty(k) ==
  /\ At_(k, "read")
  /\ \E content \in {disk.content, Emptied} : Entered(k, content)
  /\ UNCHANGED <<disk, center, poll, manager, owed, causes, spent, clock>>

ReadRaw(k) ==
  /\ At_(k, "read")
  /\ Entered(k, disk.content)
  /\ UNCHANGED <<disk, center, poll, manager, owed, causes, spent, clock>>

\* open("w")
Truncate(k) ==
  /\ At_(k, "truncate")
  /\ Stamp(Emptied)
  /\ Go(k, "fill")
  /\ UNCHANGED <<center, poll, manager, owed, causes, spent, clock>>

\* safe_dump(): the clock of the file system may or may not have ticked.
Fill(k) ==
  /\ At_(k, "fill")
  /\ \E tick \in {0, 1} : disk' = [content |-> call[k].data, mtime |-> disk.mtime + tick]
  /\ Go(k, "commit")
  /\ UNCHANGED <<center, poll, manager, owed, causes, spent, clock>>

\* The rest of the write: the file's mtime is taken for one that was loaded.
Commit(k) ==
  LET entry == [call[k].entry EXCEPT !.variants = Unset] IN
  /\ At_(k, "commit")
  /\ mtime' = disk.mtime
  /\ version' = version + 1
  /\ log' = <<[slot |-> call[k].slot, entry |-> entry]>> \o log
  /\ owed' = [owed EXCEPT ![call[k].slot] = call[k].entry]
  /\ call' = [call EXCEPT ![k].pc = "notify", ![k].data = Unset, ![k].entry = Unset]
  /\ UNCHANGED <<disk, memory, poll, manager, causes, spent, clock>>

\* Reading or writing the file raises: memory keeps the entry, a file that was
\* opened stays as it is.
WriteFails(k) ==
  /\ call[k].pc \in Writing \ {"commit"} /\ Counted
  /\ causes' = causes \cup {IF At_(k, "fill") THEN "torn" ELSE "unsaved"}
  /\ Leave(k)
  /\ UNCHANGED <<disk, center, poll, manager, owed, clock>>

\* _on_config_change() for a prompt; the other categories are not cached here.
Notify(k) ==
  /\ At_(k, "notify")
  /\ IF call[k].slot.category \in Prompts
     THEN /\ cache' = [key \in Keys |-> IF key[1] = call[k].slot.category THEN Unset ELSE cache[key]]
          /\ gen' = gen + 1
     ELSE UNCHANGED manager
  /\ Leave(k)
  /\ UNCHANGED <<disk, center, poll, owed, causes, spent, clock>>

-----------------------------------------------------------------------------
(* _poll_loop() *)

Heard == poll' = [poll EXCEPT !.pc = "event", !.mtime = 0, !.data = Unset]

Wake ==
  /\ poll.pc = "asleep" /\ disk.mtime > poll.last
  /\ poll' = [poll EXCEPT !.pc = "stat", !.seen = disk.mtime]
  /\ UNCHANGED <<disk, center, call, manager, owed, causes, spent, clock>>

PollStat ==
  /\ poll.pc = "stat"
  /\ IF disk.mtime <= mtime THEN Heard
     ELSE poll' = [poll EXCEPT !.pc = "load", !.mtime = disk.mtime]
  /\ UNCHANGED <<disk, center, call, manager, owed, causes, spent, clock>>

PollLoad ==
  /\ poll.pc = "load"
  /\ poll' = [poll EXCEPT !.pc = "apply", !.data = disk.content]
  /\ UNCHANGED <<disk, center, call, manager, owed, causes, spent, clock>>

PollLoadFails ==
  /\ poll.pc = "load" /\ Counted
  /\ Heard
  /\ causes' = causes \cup {"unread"}
  /\ UNCHANGED <<disk, center, call, manager, owed, clock>>

PollApply ==
  /\ poll.pc = "apply" /\ MutexFree
  /\ Apply(poll.data, poll.mtime)
  /\ Heard
  /\ UNCHANGED <<disk, log, call, manager, owed, causes, spent, clock>>

\* The event is for every category.
PollEvent ==
  /\ poll.pc = "event"
  /\ cache' = NoCache /\ gen' = gen + 1
  /\ poll' = Asleep(poll.seen)
  /\ UNCHANGED <<disk, center, call, owed, causes, spent, clock>>

-----------------------------------------------------------------------------
(* The world *)

\* An operator saves the file with another entry.
Edit ==
  /\ Counted
  /\ \E put \in Edits :
       /\ Stamp([disk.content EXCEPT !.over[put.slot] = put.entry])
       /\ owed' = [owed EXCEPT ![put.slot] = Unset]
  /\ causes' = causes \cup IF MutexFree THEN {} ELSE {"overtaken", "raced"}
  /\ UNCHANGED <<center, call, poll, manager, clock>>

Tick ==
  /\ Counted /\ clock' = clock + 1
  /\ UNCHANGED <<disk, center, call, poll, manager, owed, causes>>

\* The process is killed and starts anew from the file.
Restart ==
  /\ Counted
  /\ memory' = Loaded(disk.content) /\ mtime' = disk.mtime /\ version' = 1 /\ log' = <<>>
  /\ call' = [k \in Callers |-> Idle]
  /\ poll' = Asleep(disk.mtime)
  /\ cache' = NoCache /\ gen' = 0
  /\ causes' = (causes \ {"overtaken", "unsaved", "unread"})
               \cup IF \E k \in Callers : At_(k, "fill") THEN {"torn"} ELSE {}
  /\ UNCHANGED <<disk, owed, clock>>

-----------------------------------------------------------------------------
Reads(k) ==
  \/ \E key \in Keys : Ask(k, key)
  \/ EnterResolve(k) \/ Stat(k) \/ Load(k) \/ LoadFails(k) \/ ApplyResolve(k) \/ WriteBack(k)
Puts(k) ==
  \/ Write(k) \/ PutPrompt(k) \/ DeletePrompt(k) \/ Rollback(k)
  \/ ReadRaw(k) \/ Truncate(k) \/ Fill(k) \/ Commit(k) \/ WriteFails(k) \/ Notify(k)
PollStep == Wake \/ PollStat \/ PollLoad \/ PollLoadFails \/ PollApply \/ PollEvent

Next ==
  \/ \E k \in Readers : Reads(k)
  \/ \E k \in Writers : Puts(k)
  \/ PollStep \/ Edit \/ Restart \/ Tick

Spec == Init /\ [][Next]_vars

-----------------------------------------------------------------------------
(* Properties *)

\* No call is under way, and the poll loop has seen the file as it is.
AtRest ==
  /\ \A k \in Callers : call[k] = Idle
  /\ poll.pc = "asleep" /\ poll.last = disk.mtime

\* Reloads, which read outside the mutex, never put an older file over a write:
\* at rest memory is the file, unless a write took the mtime of an edit nobody had
\* loaded for its own ("overtaken"), or reading or writing the file failed.
MemoryIsFile ==
  AtRest /\ causes \subseteq {"torn", "raced"} => memory = Loaded(disk.content) /\ mtime = disk.mtime

\* A prompt in the cache is what the most specific sources in memory made of it
\* at the time it was resolved: no resolve overtaken by a change is cached, and
\* no tenant or user is given what was meant for another.
PromptsCurrent ==
  AtRest /\ causes \subseteq {"torn", "raced"} =>
    \A key \in Keys : cache[key] # Unset =>
      LET wanted == [param \in ParamKeys |->
                      MostSpecific(key[1], memory, Context(key, cache[key].now), param)]
      IN IF ValidBody(wanted) THEN cache[key].body = wanted
         ELSE cache[key].source = "builtin"

\* An acknowledged write is in the file until the next write or edit of its
\* slot: writers, reloads, edits of other slots and crashes do not undo it, unless
\* writing failed with the file open, or a file was edited during a write.
AckedInFile ==
  AtRest /\ causes \cap {"torn", "raced"} = {} =>
    \A slot \in Slots : owed[slot] # Unset => disk.content.over[slot] = owed[slot]
=============================================================================

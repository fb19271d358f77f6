--------------------------- MODULE ConfigBackends ---------------------------
(***************************************************************************)
(* The configuration centre of a deployment, by                            *)
(* settings.config_center_backend: the MongoDB one (ConfigCenter) or the   *)
(* YAML file (FileCenter).                                                 *)
(***************************************************************************)
EXTENDS ConfigCenter

\* Of FileCenter and its Resolver.
CONSTANTS
  Unset, ParamKeys, Categories, Prompts, OverridableAt, Hash, Builtin, Blank, Wrong,
  Readers, Writers, Contexts, Slots, Writes, Edits, Defaults, Deleted, MaxEvents

VARIABLES
  backend,  \* "mongo" or "file"
  disk, memory, mtime, snapshotF, log, call, poll, prompts, gen, owed, causes, spent, clock

file == <<disk, memory, mtime, snapshotF, log, call, poll, prompts, gen, owed, causes, spent, clock>>

F == INSTANCE FileCenter WITH version <- snapshotF, cache <- prompts

BackendInit == Init /\ F!Init /\ backend \in {"mongo", "file"}

BackendNext ==
  \/ backend = "mongo" /\ Next /\ UNCHANGED <<backend, file>>
  \/ backend = "file" /\ F!Next /\ UNCHANGED <<backend, vars>>

BackendSpec == BackendInit /\ [][BackendNext]_<<backend, vars, file>>

\* FileCenter: memory catches up with the file.
MemoryIsFile == F!MemoryIsFile
\* FileCenter: the prompts in the cache are those of the configuration.
PromptsCurrent == F!PromptsCurrent
\* FileCenter: what was acknowledged is in the file.
AckedInFile == F!AckedInFile
=============================================================================

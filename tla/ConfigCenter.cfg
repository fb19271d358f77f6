\* MongoDB: two callers and two writes, here and elsewhere: a resolve meets the
\* event of another replica's write, and a write meets both.
\* File: a reader and an admin request, and three of: writes, edits by hand,
\* failed reads and writes, a crash, a minute that passes; two of them when
\* prompts are asked for others than the tenant.
CONSTANTS
  Calls = {c1, c2}
  MaxWrites = 2
  Unset = Unset
  tenant = tenant
  prompt = prompt
  plugin = plugin
  old = old
  new = new
  Builtin = builtin
  Blank = blank
  Wrong = wrong
  Deleted = deleted
  ParamKeys <- MCParamKeys
  Categories <- MCCategories
  Prompts <- MCPrompts
  OverridableAt <- EveryLayer
  Hash <- MCHash
  Contexts <- MCContexts
  Slots <- MCSlots
  Writes <- MCWrites
  Edits <- MCEdits
  Defaults <- MCDefaults
  Readers = {reader}
  Writers = {writer}
  MaxEvents = 3
SPECIFICATION MCSpec
INVARIANTS StaleHasCause MemoryIsFile PromptsCurrent AckedInFile
PROPERTIES NothingOlderReturned
CHECK_DEADLOCK FALSE

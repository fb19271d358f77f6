--------------------------- MODULE MCConfigCenter ---------------------------
(***************************************************************************)
(* A configuration for TLC: a prompt and a plugin, each with a default and *)
(* with entries that the admin API and an operator may put in its place.   *)
(***************************************************************************)
EXTENDS ConfigBackends, TLC

CONSTANTS tenant, prompt, plugin, old, new

\* The default's description is not a text: only a body with one of its own is
\* valid, which the new body has from minute 1 on.
Body(template, description, variants) ==
  [name |-> Unset, variants |-> variants,
   params |-> [template |-> template, description |-> description]]
FromMinuteOne == [tenants |-> Unset, hash_lt |-> Unset, traffic |-> Unset,
                  from |-> 1, to |-> 2, tags |-> Unset]
OldBody == Body(old, old, Unset)
Named(name, body) == [body EXCEPT !.name = name]
NewBody == Body(new, Unset, <<[match |-> FromMinuteOne, entry |-> Body(Unset, new, Unset)]>>)
OfTenant == [category |-> prompt, scope |-> "tenant", id |-> tenant]
OfPlugin == [category |-> plugin, scope |-> "global", id |-> Unset]
Everyone == [tenant |-> Unset, user |-> Unset]

MCParamKeys == {"template", "description"}
MCCategories == {prompt, plugin}
MCPrompts == {prompt}
EveryLayer == [c \in {prompt, plugin} |-> {"global", "tenant", "user", "request"}]
MCHash == [x \in 0..MaxEvents |-> 0]
MCContexts == {Everyone, [tenant |-> tenant, user |-> Unset]}
MCSlots == {OfTenant, OfPlugin}
MCWrites == {[slot |-> OfTenant, entry |-> Named(prompt, OldBody)],
             [slot |-> OfPlugin, entry |-> Named(plugin, NewBody)],
             [slot |-> OfTenant, entry |-> Named(prompt, Body(Blank, old, Unset))]}
MCEdits == {[slot |-> OfTenant, entry |-> NewBody]}
MCDefaults == [c \in {prompt, plugin} |->
                 IF c = prompt THEN Body(old, Wrong, Unset) ELSE Named(plugin, OldBody)]

\* Bound: three events while prompts are asked for the tenant, or two while they
\* are asked for everybody or are deleted.
Placeholder(body) == body # Unset /\ body.params.template = Deleted
Bounded ==
  spent = MaxEvents =>
    /\ ~Placeholder(memory.over[OfTenant]) /\ ~Placeholder(disk.content.over[OfTenant])
    /\ prompts[<<prompt, Everyone>>] = Unset
    /\ \A r \in Readers : call[r].pc # "idle" => call[r].key[2] # Everyone

MCNext ==
  \/ backend = "mongo" /\ Next /\ UNCHANGED <<backend, file>>
  \/ backend = "file" /\ F!Next /\ Bounded' /\ UNCHANGED <<backend, vars>>

MCSpec == BackendInit /\ [][MCNext]_<<backend, vars, file>>
=============================================================================

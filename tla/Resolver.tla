------------------------------ MODULE Resolver ------------------------------
(***************************************************************************)
(* config_center/resolver.py and the prompt half of _prompts.py: what an   *)
(* entry of the configuration comes to for one tenant and user.  An entry  *)
(* has a name, params and perhaps variants; an override replaces params    *)
(* key by key.                                                             *)
(***************************************************************************)
EXTENDS Integers, SequencesExt

CONSTANTS
  Unset,           \* a missing entry, param, list of variants, tenant or user
  ParamKeys,       \* keys of params
  Categories,      \* dotted categories
  Prompts,         \* those under memory.prompts
  OverridableAt,   \* OverridableAt[c]: the layers that may override c
  Hash,            \* Hash[x]: the number the digest of a user or a minute stands for
  Builtin,         \* the body of a built-in prompt
  Blank, Wrong     \* a param that is the empty string, or no value of its type

Layers == <<"global", "tenant", "user", "request">>

NoParams == [key \in ParamKeys |-> Unset]
NoEntry == [name |-> Unset, params |-> NoParams, variants |-> Unset]
Prefer(a, b) == IF a = Unset THEN b ELSE a

\* Mutant: the override only fills what the base leaves open.
FillEntry(base, over) ==
  [name |-> Prefer(base.name, over.name), variants |-> Prefer(base.variants, over.variants),
   params |-> [key \in ParamKeys |-> Prefer(base.params[key], over.params[key])]]

\* _deep_merge() on two entries: lists, such as the variants, are replaced.
MergeEntry(base, over) ==
  [name |-> Prefer(over.name, base.name), variants |-> Prefer(over.variants, base.variants),
   params |-> [key \in ParamKeys |-> Prefer(over.params[key], base.params[key])]]

Overridden(base, over) == IF over = Unset THEN base ELSE MergeEntry(base, over)

\* _match_traffic_pct(): without a user the present minute is hashed.
TrafficMatches(pct, ctx) ==
  \/ pct >= 100
  \/ pct > 0 /\ Hash[Prefer(ctx.user, ctx.now)] % 10000 < pct * 100

\* _match_gray_rule(): every dimension the rule has must match.  No caller of
\* resolve() passes tags.
MatchGrayRule(rule, ctx) ==
  /\ rule.tenants # Unset => ctx.tenant \in rule.tenants
  /\ rule.hash_lt # Unset => ctx.user # Unset /\ Hash[ctx.user] % 100 < rule.hash_lt
  /\ rule.traffic # Unset => TrafficMatches(rule.traffic, ctx)
  /\ rule.from # Unset => rule.from <= ctx.now /\ ctx.now <= rule.to
  /\ rule.tags = Unset

\* _apply_variants(): the first variant that matches is merged over the entry.
Matching(cfg, ctx) ==
  IF cfg.variants = Unset THEN {}
  ELSE {i \in DOMAIN cfg.variants : MatchGrayRule(cfg.variants[i].match, ctx)}
ApplyVariants(cfg, ctx) ==
  LET matching == Matching(cfg, ctx)
      entry == IF matching = {} THEN cfg
               ELSE MergeEntry(cfg, cfg.variants[Min(matching)].entry)
  IN [name |-> entry.name, params |-> entry.params, variants |-> Unset]

\* The overrides of a category that are meant for ctx, by layer.
Slot(c, scope, id) == [category |-> c, scope |-> scope, id |-> id]
At(over, slot) == IF slot \in DOMAIN over THEN over[slot] ELSE Unset
Overrides(c, over, request, ctx) ==
  LET entry == [global |-> At(over, Slot(c, "global", Unset)),
                tenant |-> At(over, Slot(c, "tenant", ctx.tenant)),
                user |-> At(over, Slot(c, "user", ctx.user)),
                request |-> request]
  IN [layer \in DOMAIN entry |-> IF layer \in OverridableAt[c] THEN entry[layer] ELSE Unset]

\* ConfigResolver.resolve(): the merged entry and the layer that gave the last of it.
Resolve(c, content, request, ctx) ==
  LET over == Overrides(c, content.over, request, ctx)
      general == Overridden(Prefer(content.defaults[c], NoEntry), over["global"])
      personal == Overridden(Overridden(general, over["tenant"]), over["user"])
      cfg == Overridden(personal, over["request"])
      given == {i \in DOMAIN Layers : over[Layers[i]] # Unset}
  IN [cfg |-> ApplyVariants(cfg, ctx), matched |-> Matching(cfg, ctx) # {},
      source |-> IF given = {} THEN "default" ELSE Layers[Max(given)]]

\* _flatten_defaults(): a leaf is what has a name, or a template at its top, which
\* makes its fields the params of an entry; anything else comes to nothing.
FlattenDefaults(tree) ==
  LET Flatten(c, leaf) ==
        IF leaf = Unset \/ leaf.name # Unset THEN leaf
        ELSE IF leaf.params["template"] # Unset THEN [leaf EXCEPT !.name = c] ELSE Unset
  IN [c \in Categories |-> Flatten(c, tree[c])]

\* validate_prompt_body(), of a variant it looks at the template alone.
ValidBody(params) ==
  params["template"] \notin {Unset, Blank} /\ \A key \in ParamKeys : params[key] # Wrong
ValidEntry(entry) ==
  /\ ValidBody(entry.params)
  /\ entry.variants # Unset =>
       \A i \in DOMAIN entry.variants : entry.variants[i].entry.params["template"] \notin {Blank, Wrong}

\* resolve_prompt(): what makes no valid body gives way to the built-in one.
ResolvePrompt(c, content, request, ctx) ==
  LET found == Resolve(c, content, request, ctx)
      body == [key \in ParamKeys |-> found.cfg.params[key]]
  IN IF ~ValidBody(body) THEN [body |-> Builtin, source |-> "builtin"]
     ELSE [body |-> body, source |-> IF found.matched THEN "variant" ELSE found.source]

-----------------------------------------------------------------------------
(* Reference: each param is that of the most specific source that sets it. *)

Sources(c, content, ctx) ==
  LET Meant(layer, id) ==
        IF layer \in OverridableAt[c] THEN Prefer(At(content.over, Slot(c, layer, id)), NoEntry)
        ELSE NoEntry
  IN <<Prefer(content.defaults[c], NoEntry),
       Meant("global", Unset), Meant("tenant", ctx.tenant), Meant("user", ctx.user)>>
LastSet(values) ==
  LET given == {i \in DOMAIN values : values[i] # Unset} IN
  IF given = {} THEN Unset ELSE values[Max(given)]
MostSpecific(c, content, ctx, key) ==
  LET s == Sources(c, content, ctx)
      variants == LastSet(<<s[1].variants, s[2].variants, s[3].variants, s[4].variants>>)
      fits == IF variants = Unset THEN {}
              ELSE {i \in DOMAIN variants : MatchGrayRule(variants[i].match, ctx)}
      variant == IF fits = {} THEN Unset ELSE variants[Min(fits)].entry.params[key]
  IN LastSet(<<s[1].params[key], s[2].params[key], s[3].params[key], s[4].params[key], variant>>)
=============================================================================

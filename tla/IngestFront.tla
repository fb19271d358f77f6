----------------------------- MODULE IngestFront -----------------------------
(***************************************************************************)
(* The way of an ingest request from the socket to its cells: the          *)
(* middlewares of api.py in their order (authentication, rate limit,       *)
(* tenant binding), the schema, and the first stages of the ingest         *)
(* pipeline.  Requests interleave at every await; they share the limiter.  *)
(***************************************************************************)
EXTENDS Segmentation, FiniteSets

CONSTANTS
  Blank,          \* an empty string
  Requests,       \* ids of requests
  Launches,       \* the [settings, input] to look at: a configuration of the
                  \* process and the [token, gateway, body] of each request
  Rpm,            \* rate_limit_rpm
  Window,         \* length of the limiter's moving window
  MaxNow          \* bound: the clock

VARIABLES
  settings,  \* configuration of the process
  now,       \* the clock
  request,   \* each request: where it is, its identity, its input and its answer
  hits,      \* what the limiter let through: rate key and time of each request
  cells      \* per request, the cells made of it

vars == <<settings, now, request, hits, cells>>

NoIdentity == [tenant |-> None, user |-> None]
Pass(r, pc) == request' = [request EXCEPT ![r].pc = pc]
Answer(r, status) ==
  request' = [request EXCEPT ![r] = [@ EXCEPT !.pc = "answered", !.status = status]]

\* validate_startup_security(): the settings the process starts with.
StartsWith(s) == s.debug \/ (s.auth /\ s.admin_key # None)

Init ==
  /\ now = 0 /\ hits = {}
  /\ cells = [r \in Requests |-> <<>>]
  /\ \E launch \in Launches :
       /\ StartsWith(launch.settings) /\ settings = launch.settings
       /\ request = [r \in Requests |-> [pc |-> "arrived", status |-> 0, identity |-> NoIdentity,
                                         input |-> launch.input[r]]]

Tick == now < MaxNow /\ now' = now + 1 /\ UNCHANGED <<settings, request, hits, cells>>

\* resolve_identity(): the claims of a token that decodes, else the key's binding.
ResolveIdentity(token) ==
  IF settings.claims[token] # NoIdentity THEN settings.claims[token] ELSE settings.bindings[token]

\* identity_from_gateway_headers(): the headers are believed for any but the key.
GatewayIdentity(input) ==
  IF settings.trust_gateway /\ input.token # settings.api_key THEN input.gateway ELSE NoIdentity

\* check_api_key(): the status it refuses with, 0 when it lets pass.
CheckApiKey(token) ==
  CASE ~settings.auth -> 0
    [] settings.auth /\ settings.api_key = None -> 403
    [] OTHER -> IF token = settings.api_key THEN 0 ELSE 401

\* _BusinessAuthMiddleware
Authenticate(r) ==
  LET input == request[r].input
      known == ResolveIdentity(input.token)
  IN
  /\ request[r].pc = "arrived"
  /\ IF CheckApiKey(input.token) # 0 THEN Answer(r, CheckApiKey(input.token))
     ELSE request' = [request EXCEPT ![r] =
            [@ EXCEPT !.pc = "limit",
                      !.identity = CASE ~settings.auth -> NoIdentity
                                     [] settings.auth /\ known # NoIdentity -> known
                                     [] OTHER -> GatewayIdentity(input)]]
  /\ UNCHANGED <<settings, now, hits, cells>>

RateKey(identity) == IF identity = NoIdentity THEN "ip" ELSE identity
\* MovingWindowRateLimiter.hit()
Recent(key) == {h \in hits : h.key = key /\ h.at >= now - Window}
LimitRate(r) ==
  LET key == RateKey(request[r].identity) IN
  /\ request[r].pc = "limit"
  /\ CASE settings.limiter = "off" -> Pass(r, "bind") /\ UNCHANGED hits
       [] settings.limiter # "off" /\ Cardinality(Recent(key)) < Rpm ->
            Pass(r, "bind") /\ hits' = hits \cup {[key |-> key, at |-> now, by |-> r]}
       [] OTHER -> Answer(r, 429) /\ UNCHANGED hits
  /\ UNCHANGED <<settings, now, cells>>

\* The storage of the limiter does not answer: the request passes.
LimiterFails(r) ==
  /\ request[r].pc = "limit" /\ settings.limiter = "redis"
  /\ Pass(r, "bind")
  /\ UNCHANGED <<settings, now, hits, cells>>

\* Mutant: the user of the body is not compared.
TenantOnly(identity, body) == identity.tenant = body.tenant
\* validate_body_tenant()
BodyMatches(identity, body) ==
  /\ identity.tenant = body.tenant
  /\ identity.user # None /\ body.user # None => identity.user = body.user

\* TenantBindingMiddleware
BindTenant(r) ==
  LET identity == request[r].identity
      body == request[r].input.body
  IN
  /\ request[r].pc = "bind"
  /\ CASE ~settings.binding -> Pass(r, "route")
       [] settings.binding /\ identity = NoIdentity -> Answer(r, 403)
       [] settings.binding /\ identity # NoIdentity /\ body.form = "malformed" -> Answer(r, 400)
       [] settings.binding /\ identity # NoIdentity /\ body.form = "list" -> Answer(r, 500)
       [] OTHER -> IF body.tenant \in {None, Blank} THEN Answer(r, 400)
                   ELSE IF BodyMatches(identity, body) THEN Pass(r, "route") ELSE Answer(r, 403)
  /\ UNCHANGED <<settings, now, hits, cells>>

\* MemoryIngestRequest: what the schema lets through.
Validates(body) ==
  /\ body.form = "object"   \* and no field the schema does not know
  /\ {body.tenant, body.user} \cap {None, Blank} = {}
  /\ \A i \in DOMAIN body.sessions : ValidSession(body.sessions[i])

\* ingest_memory() and the first stages of the pipeline.
Ingest(r) ==
  LET body == request[r].input.body IN
  /\ request[r].pc = "route"
  /\ IF ~Validates(body) THEN Answer(r, 422) /\ UNCHANGED cells
     ELSE IF body.sessions = <<>> THEN Answer(r, 200) /\ UNCHANGED cells
     ELSE \E segments \in Segment(settings.detector, settings.llm, RawData(body, now)) :
            IF segments = Raised THEN Answer(r, 500) /\ UNCHANGED cells
            ELSE /\ Answer(r, 200)
                 /\ cells' = [cells EXCEPT ![r] = [i \in DOMAIN segments |-> BuildCell(segments[i])]]
  /\ UNCHANGED <<settings, now, hits>>

Next ==
  \/ Tick
  \/ \E r \in Requests :
       Authenticate(r) \/ LimitRate(r) \/ LimiterFails(r) \/ BindTenant(r) \/ Ingest(r)

Spec == Init /\ [][Next]_vars

-----------------------------------------------------------------------------

Segments(r) == [i \in DOMAIN cells[r] |-> cells[r][i].raw_data]

\* No cell of the rules, refined or not, reaches across a gap or beyond a full
\* window, and the rules alone cut nowhere else: the next session would not fit.
\* A caller that asks detect() step by step would cut in the same places (sbd.py:117).
CellsInWindow ==
  \A r \in Requests :
    LET raws == FlattenSeq(Segments(r)) IN
    /\ settings.detector # "llm_sbd" => \A i \in DOMAIN cells[r] : WithinWindow(cells[r][i].raw_data)
    /\ settings.detector = "rule_sbd" =>
         CutForCause(Segments(r)) /\ Segments(r) = Streamed(RuleDetect, raws)
    /\ settings.detector = "hybrid_sbd" =>
         \A i \in DOMAIN cells[r] : Len(Streamed(HybridDetect, cells[r][i].raw_data)) = 1
    /\ settings.detector = "llm_sbd" => EndsWhereCut(raws)

\* Whatever the detector and whatever the model answers, the cells of a request
\* hold every session of it once and in order, and no cell is empty: nothing a
\* user said is lost or told twice at a boundary, and boundaries are where the
\* rules put them.  They belong to the tenant and the user of the body.
CellsPartition ==
  \A r \in Requests : cells[r] # <<>> =>
    /\ FlattenSeq(Segments(r)) # <<>>
    /\ [i \in DOMAIN FlattenSeq(Segments(r)) |-> FlattenSeq(Segments(r))[i].raw]
         = [i \in DOMAIN request[r].input.body.sessions |-> i]
    /\ \A i \in DOMAIN cells[r] :
         /\ cells[r][i].raw_data # <<>>
         /\ cells[r][i].tenant = request[r].input.body.tenant
         /\ cells[r][i].user = request[r].input.body.user
    /\ CellsInWindow

\* With tenant binding, a request writes cells only for the tenant and the user
\* that its claims or its key name, and it has passed the limiter under that name
\* or the limiter was away: three layers that each check a part agree on the whole.
ServedAsBound ==
  settings.binding =>
    \A r \in Requests : cells[r] # <<>> =>
      LET bound == ResolveIdentity(request[r].input.token)
          body == request[r].input.body
      IN /\ bound.tenant = body.tenant /\ body.tenant \notin {None, Blank}
         /\ bound.user \in {None, body.user} /\ body.user \notin {None, Blank}
         /\ settings.limiter = "memory" => \E h \in hits : h.by = r /\ h.key = bound
=============================================================================

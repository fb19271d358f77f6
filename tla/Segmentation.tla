---------------------------- MODULE Segmentation ----------------------------
(***************************************************************************)
(* How the sessions of one ingest request become memory cells:             *)
(* format_transfer.py makes one raw datum of each session, the boundary    *)
(* detector of the configuration (plugins_default/rule_sbd.py,             *)
(* hybrid_sbd.py or llm_sbd.py over sbd.py) cuts the list into segments    *)
(* and PersistMemCellStage makes a cell of each.  A text is the number of  *)
(* its characters; the model's answer of a language model is an index or   *)
(* what stands in its place.                                               *)
(***************************************************************************)
EXTENDS Integers, SequencesExt

CONSTANTS
  None,              \* a field the client left out
  Params, Defaults,  \* parameters of the rules' plugin, defaults of SBDConfig
  RefineThreshold,   \* refine_threshold of hybrid_sbd
  PromptTurns,       \* max_window_turns of llm_sbd
  Garbage,           \* an answer of the model that is not the JSON asked for,
  Infinite,          \* one with a number int() does not take,
  Failed             \* and none: the prompt or the call raised

\* parse_sbd_config(): what does not convert leaves the default; the window's old
\* name is read only where the new one is missing.
Read(given, default) == IF given \in {None, Garbage} THEN default ELSE given
Config ==
  [gap |-> Read(Params.time_gap_min, Defaults.gap),
   turns |-> Read(IF Params.max_window_turns # None THEN Params.max_window_turns
                  ELSE Params.max_window_size, Defaults.turns),
   tokens |-> Read(Params.max_window_tokens, Defaults.tokens)]

\* What the schema takes: a turn with a known role, a session with an id.
Name == [user |-> 4, assistant |-> 9, system |-> 6]
ValidTurn(turn) == turn.role \in DOMAIN Name /\ turn.content # None
ValidSession(session) == session.id # None /\ \A i \in DOMAIN session.turns : ValidTurn(session.turns[i])

\* _join_turns(): "name: content" of every turn, a line each.
Line(turn) == (IF turn.speaker # None THEN turn.speaker ELSE Name[turn.role]) + 2 + turn.content
Total(numbers) ==
  LET sum[n \in 0..Len(numbers)] == IF n = 0 THEN 0 ELSE sum[n - 1] + numbers[n]
  IN sum[Len(numbers)]
JoinTurns(turns) == Total([i \in DOMAIN turns |-> Line(turns[i])]) + Max({Len(turns) - 1, 0})

\* ingest_to_raw_data_list(): one datum per session, dated by the first date it has.
EventTime(session, received) ==
  IF session.date # None THEN session.date
  ELSE IF session.start # None THEN session.start ELSE received
Datum(body, i, chars, time) ==
  [raw |-> i, tenant |-> body.tenant, user |-> body.user, chars |-> chars, time |-> time]
RawData(body, received) ==
  [i \in DOMAIN body.sessions |->
     LET session == body.sessions[i]
     IN Datum(body, i, JoinTurns(session.turns), EventTime(session, received))]

Chars(segment) == Total([i \in DOMAIN segment |-> segment[i].chars])
\* should_split(), on a segment that is not empty
ShouldSplit(segment, rd) ==
  \/ rd.time - Last(segment).time > Config.gap
  \/ Len(segment) >= Config.turns
  \/ Chars(segment) \div 4 >= Config.tokens

\* detect_boundaries()
DetectBoundaries(raws) ==
  LET Add(segments, rd) ==
        IF segments = <<>> \/ ShouldSplit(Last(segments), rd)
        THEN Append(segments, <<rd>>)
        ELSE [segments EXCEPT ![Len(segments)] = Append(@, rd)]
      cut[n \in 0..Len(raws)] == IF n = 0 THEN <<>> ELSE Add(cut[n - 1], raws[n])
  IN cut[Len(raws)]

\* Mutant: the datum at the boundary goes to both pieces.
SplitsTwice(segment, index) ==
  IF index <= 0 \/ index >= Len(segment) THEN <<segment>>
  ELSE <<SubSeq(segment, 1, index), SubSeq(segment, index, Len(segment))>>
\* split_segment_at()
SplitSegmentAt(segment, index) ==
  IF index <= 0 \/ index >= Len(segment) THEN <<segment>>
  ELSE <<SubSeq(segment, 1, index), SubSeq(segment, index + 1, Len(segment))>>

\* What asking a language model comes to.
Answers(segment) == (-1)..(Len(segment) + 1) \cup {Garbage, Infinite, Failed}
\* parse_llm_boundary_response(): what it cannot read stands for no boundary.
ParseBoundary(answer) == IF answer = Garbage THEN -1 ELSE answer

\* _llm_refine_segment(); segment() keeps the whole piece when it raises.
RefineSegment(segment, answer) ==
  IF answer \in {Infinite, Failed} THEN <<segment>>
  ELSE SplitSegmentAt(segment, ParseBoundary(answer))

\* HybridSBD.segment(): only segments above the threshold are asked about.
HybridSegments(raws, bound) ==
  LET rule == DetectBoundaries(raws)
      Pieces(segment) ==
        IF Len(segment) <= RefineThreshold \/ ~bound THEN {<<segment>>}
        ELSE {RefineSegment(segment, answer) : answer \in Answers(segment)}
      results[n \in 0..Len(rule)] ==
        IF n = 0 THEN {<<>>} ELSE {r \o pieces : r \in results[n - 1], pieces \in Pieces(rule[n])}
  IN results[Len(rule)]

\* LLMSBD.segment(): the head within the prompt's limit is asked about, the tail
\* stays whole.  _ask_llm_boundary() turns failures into -1, all but one.
Raised == <<Infinite>>
LLMSegments(raws, bound) ==
  LET head == SubSeq(raws, 1, Min({PromptTurns, Len(raws)}))
      tail == SubSeq(raws, PromptTurns + 1, Len(raws))
      rest == IF tail = <<>> THEN <<>> ELSE <<tail>>
  IN IF Len(raws) < 2 THEN {IF raws = <<>> THEN <<>> ELSE <<raws>>}
     ELSE IF ~bound THEN {<<head>> \o rest}
     ELSE {IF answer = Infinite THEN Raised
           ELSE SplitSegmentAt(head, IF answer = Failed THEN -1 ELSE ParseBoundary(answer)) \o rest
             : answer \in Answers(head)}

\* SegmentStage: what segment() of the configured detector may return.
Segment(detector, bound, raws) ==
  CASE detector = "rule_sbd" -> {DetectBoundaries(raws)}
    [] detector = "hybrid_sbd" -> HybridSegments(raws, bound)
    [] detector = "llm_sbd" -> LLMSegments(raws, bound)
    [] detector = "noop_sbd" -> {Raised}   \* it has no segment()

\* detect(): whether new ends the segment history, for a caller that holds one
\* segment at a time.  The hybrid detector asks the rules alone.
RuleDetect(history, new) ==
  IF history # <<>> /\ new # <<>> /\ ShouldSplit(history, new[1]) THEN "end" ELSE "stay"
HybridDetect(history, new) == RuleDetect(history, new)
LLMDetect(history, new, bound, answer) ==
  IF history = <<>> \/ new = <<>> \/ ~bound \/ answer = Failed THEN "stay"
  ELSE IF answer = Infinite THEN "raised"
  ELSE IF ParseBoundary(answer) = Len(history) THEN "end" ELSE "stay"

\* PersistMemCellStage._build_cell()
BuildCell(segment) ==
  [tenant |-> segment[1].tenant, user |-> segment[1].user, timestamp |-> segment[1].time,
   raw_data |-> segment]

-----------------------------------------------------------------------------
(* Reference: when a list of segments is a proper cut of a list. *)

\* No datum joins a window that the clock, the turns or the text had closed.
WithinWindow(segment) ==
  /\ Len(segment) <= Config.turns
  /\ \A i \in 2..Len(segment) : segment[i].time <= segment[i - 1].time + Config.gap
  /\ \A n \in 1..(Len(segment) - 1) : Chars(SubSeq(segment, 1, n)) < 4 * Config.tokens

\* The rules cut nowhere else.
CutForCause(segments) ==
  \A i \in 1..(Len(segments) - 1) :
    ~WithinWindow(Append(segments[i], segments[i + 1][1]))

\* A caller that asks detect() about one datum after the other.
Streamed(Detect(_, _), raws) ==
  LET Add(segments, rd) ==
        IF segments = <<>> \/ Detect(Last(segments), <<rd>>) = "end"
        THEN Append(segments, <<rd>>)
        ELSE [segments EXCEPT ![Len(segments)] = Append(@, rd)]
      cut[n \in 0..Len(raws)] == IF n = 0 THEN <<>> ELSE Add(cut[n - 1], raws[n])
  IN cut[Len(raws)]
\* The model ends a segment by the answers that make segment() cut there.
EndsWhereCut(raws) ==
  \A n \in 1..(Len(raws) - 1), answer \in Answers(raws) \ {Infinite, Failed} :
    LET history == SubSeq(raws, 1, n)
        new == <<raws[n + 1]>>
    IN LLMDetect(history, new, TRUE, answer) = "end"
         <=> SplitSegmentAt(history \o new, ParseBoundary(answer)) = <<history, new>>
=============================================================================

-------------------------- MODULE CaptureInspector --------------------------
(***************************************************************************)
(* The analyzer of koc_proxy (proxy_capture.rs, Analyzer of koc_proxy.rs): *)
(* records of frames are taken in the order of the capture, Inspector      *)
(* matches responses to the requests in its limited pending map, and       *)
(* CommandCatalog counts commands and collects the shapes of their bodies  *)
(* under its limits.                                                       *)
(*                                                                         *)
(* A record is [conn, dir, opcode, seq, resp, cmd, code, body]; opcode is  *)
(* "binary", "control" or "garbage" (a payload that cannot be decoded), a  *)
(* body is its shape, and "none" stands for an absent field.               *)
(***************************************************************************)
EXTENDS Totals, FiniteSetsExt

CONSTANTS
    Records,        \* records that can be captured
    Cmds,           \* command names of at most MAX_COMMAND_BYTES
    Shapes,         \* shapes of bodies
    Bytes,          \* length of a shape as JSON
    MaxPending,     \* 10_000
    Window,         \* 10 * 60 * 1000 ms
    MaxCommands,    \* MAX_CATALOG_COMMANDS
    MaxShapes,      \* MAX_CATALOG_SHAPES, per command and kind
    MaxSingle,      \* MAX_SINGLE_SHAPE_BYTES
    MaxShapeCount,  \* MAX_CATALOG_SHAPE_COUNT
    MaxSchemaBytes, \* MAX_CATALOG_SCHEMA_BYTES
    MaxCodes,       \* MAX_RESPONSE_CODES
    MaxTime,        \* bound: the clock
    MaxRecords      \* bound: records processed

Unknown == "<unknown>"
Commands == Cmds \cup {Unknown}
Kinds == {"request", "response", "push"}

ASSUME InspectorAssumption ==
    /\ \A r \in Records :
          /\ r.dir \in {"c2s", "s2c"} /\ r.opcode \in {"binary", "control", "garbage"}
          /\ r.seq \in Nat /\ r.resp \in Nat /\ r.cmd \in Cmds \cup {"none", "long"}
          /\ r.body \in Shapes \cup {"none"}
    /\ {"none", "long"} \cap Cmds = {} /\ "none" \notin Shapes
    /\ MaxPending \in Nat \ {0} /\ Window \in Nat
    /\ {MaxCommands, MaxShapes, MaxSingle, MaxShapeCount, MaxSchemaBytes, MaxCodes} \subseteq Nat
    /\ Bytes \in [Shapes -> Nat]

VARIABLES
    now,        \* timestamp_ms of the record
    pending,    \* Inspector.pending: <<conn, seq>> to its command and time
    catalog,    \* CommandCatalog
    done,       \* number of records processed
    open,       \* what pending would be without its limit
    peak,       \* the most requests that were ever open
    answered,   \* per command: counted responses that answer one of its requests
    counted     \* number of events the catalog has to count

vars == <<now, pending, catalog, done, open, peak, answered, counted>>

\* Maps: HashMap::remove and HashMap::insert
Without(map, key) == [k \in DOMAIN map \ {key} |-> map[k]]
With(map, key, val) == [k \in DOMAIN map \cup {key} |-> IF k = key THEN val ELSE map[k]]
Empty == [k \in {} |-> 0]

-----------------------------------------------------------------------------
(* Inspector::inspect                                                      *)

IsResponse(r) == r.opcode = "binary" /\ r.dir = "s2c" /\ r.resp > 0
IsRequest(r) == r.opcode = "binary" /\ r.dir = "c2s" /\ r.seq > 0

\* An undecodable payload or a command that is too long
decode_error(r) == r.opcode = "garbage" \/ (r.opcode = "binary" /\ r.cmd = "long")

PendingRequest(r) == [cmd |-> IF r.cmd \in Cmds THEN r.cmd ELSE Unknown, time |-> now]

\* A full map first loses what is older than the window, then everything.
Evicted ==
    LET young == {k \in DOMAIN pending : pending[k].time >= now - Window} IN
    CASE Cardinality(DOMAIN pending) < MaxPending -> pending
      [] Cardinality(DOMAIN pending) >= MaxPending /\ Cardinality(young) < MaxPending
            -> [k \in young |-> pending[k]]
      [] OTHER -> Empty

\* Faulty: the entry of an answered request stays.
inspect_keeping(r) ==
    IF IsRequest(r) THEN With(Evicted, <<r.conn, r.seq>>, PendingRequest(r)) ELSE pending

\* pending after a record
inspect(r) ==
    CASE IsResponse(r) -> Without(pending, <<r.conn, r.resp>>)
      [] IsRequest(r) -> With(Evicted, <<r.conn, r.seq>>, PendingRequest(r))
      [] OTHER -> pending

\* event.matched_request
matched_request(r) ==
    IF IsResponse(r) /\ <<r.conn, r.resp>> \in DOMAIN pending
    THEN pending[<<r.conn, r.resp>>].cmd ELSE "none"

-----------------------------------------------------------------------------
(* CommandCatalog: its operations take a catalogue to a catalogue.         *)

NewSummary ==
    [requests |-> 0, responses |-> 0, pushes |-> 0, codes |-> Empty,
     shapes |-> [k \in Kinds |-> {}], overflow |-> 0]

NewCatalog ==
    [unmatched |-> 0, overflow_commands |-> 0, overflow_shapes |-> 0,
     shape_count |-> 0, schema_bytes |-> 0, commands |-> Empty]

Known(cat, cmd) == cmd \in DOMAIN cat.commands \/ Cardinality(DOMAIN cat.commands) < MaxCommands

\* ensure_command, when it succeeds: the command has an entry
ensure_command(cat, cmd) ==
    IF cmd \in DOMAIN cat.commands THEN cat
    ELSE [cat EXCEPT !.commands = With(@, cmd, NewSummary)]

add_response_code(codes, code) ==
    IF code = "none" \/ (code \notin DOMAIN codes /\ Cardinality(DOMAIN codes) >= MaxCodes)
    THEN codes
    ELSE With(codes, code, IF code \in DOMAIN codes THEN codes[code] + 1 ELSE 1)

OverLimit(cat, cmd, kind, shape) ==
    \/ Cardinality(cat.commands[cmd].shapes[kind]) >= MaxShapes
    \/ Bytes[shape] > MaxSingle
    \/ cat.shape_count >= MaxShapeCount
    \/ cat.schema_bytes + Bytes[shape] > MaxSchemaBytes

\* Faulty: the totals are checked but a rejected shape is added to them.
record_shape_adding(cat, cmd, kind, shape) ==
    IF shape = "none" \/ shape \in cat.commands[cmd].shapes[kind] THEN cat
    ELSE IF OverLimit(cat, cmd, kind, shape)
    THEN [cat EXCEPT !.overflow_shapes = @ + 1, !.commands[cmd].overflow = @ + 1,
                     !.schema_bytes = @ + Bytes[shape]]
    ELSE [cat EXCEPT !.shape_count = @ + 1, !.schema_bytes = @ + Bytes[shape],
                     !.commands[cmd].shapes[kind] = @ \cup {shape}]

record_shape(cat, cmd, kind, shape) ==
    IF shape = "none" \/ shape \in cat.commands[cmd].shapes[kind] THEN cat
    ELSE IF OverLimit(cat, cmd, kind, shape)
    THEN [cat EXCEPT !.overflow_shapes = @ + 1, !.commands[cmd].overflow = @ + 1]
    ELSE [cat EXCEPT !.shape_count = @ + 1, !.schema_bytes = @ + Bytes[shape],
                     !.commands[cmd].shapes[kind] = @ \cup {shape}]

\* The counters of a command after an event of a kind
CountEvent(summary, kind, code) ==
    CASE kind = "request" -> [summary EXCEPT !.requests = @ + 1]
      [] kind = "response" -> [summary EXCEPT !.responses = @ + 1,
                                              !.codes = add_response_code(@, code)]
      [] kind = "push" -> [summary EXCEPT !.pushes = @ + 1, !.codes = add_response_code(@, code)]

\* An event of a command: its entry, its counters and the shape of its body
observe_command(cat, cmd, kind, r) ==
    IF Known(cat, cmd)
    THEN record_shape([ensure_command(cat, cmd) EXCEPT !.commands[cmd] = CountEvent(@, kind, r.code)],
                      cmd, kind, r.body)
    ELSE [cat EXCEPT !.overflow_commands = @ + 1]

\* Faulty: a response that matches nothing is filed under its own name.
observe_by_name(cat, r, matched) ==
    IF decode_error(r) \/ r.opcode # "binary" \/ r.cmd = "none" THEN cat
    ELSE
    CASE IsRequest(r) -> observe_command(cat, r.cmd, "request", r)
      [] IsResponse(r) -> observe_command(cat, r.cmd, "response", r)
      [] OTHER -> cat

observe(cat, r, matched) ==
    IF decode_error(r) \/ r.opcode # "binary" THEN cat
    ELSE
    CASE IsRequest(r) /\ r.cmd # "none" -> observe_command(cat, r.cmd, "request", r)
      [] IsResponse(r) /\ matched = "none" -> [cat EXCEPT !.unmatched = @ + 1]
      [] IsResponse(r) /\ matched # "none" -> observe_command(cat, matched, "response", r)
      [] r.dir = "s2c" /\ r.resp = 0 /\ r.cmd # "none" -> observe_command(cat, r.cmd, "push", r)
      [] OTHER -> cat

-----------------------------------------------------------------------------
(* Analyzer::process                                                       *)

\* What the catalog has to count: decoded requests with a number and a name,
\* decoded responses, and pushes with a name
Countable(r) ==
    /\ r.opcode = "binary" /\ ~decode_error(r)
    /\ IsResponse(r) \/ (r.cmd # "none" /\ (IsRequest(r) \/ (r.dir = "s2c" /\ r.resp = 0)))

\* The bookkeeping of the properties: the same matching without a limit, and the
\* command that a counted response answers.
NextOpen(r) ==
    CASE IsResponse(r) -> Without(open, <<r.conn, r.resp>>)
      [] IsRequest(r) -> With(open, <<r.conn, r.seq>>, PendingRequest(r))
      [] OTHER -> open

Answers(r, c) ==
    /\ IsResponse(r) /\ ~decode_error(r) /\ <<r.conn, r.resp>> \in DOMAIN open
    /\ open[<<r.conn, r.resp>>].cmd = c

Follow(r) ==
    /\ open' = NextOpen(r)
    /\ peak' = Max({peak, Cardinality(DOMAIN open')})
    /\ answered' = [c \in Commands |-> answered[c] + (IF Answers(r, c) THEN 1 ELSE 0)]
    /\ counted' = counted + (IF Countable(r) THEN 1 ELSE 0)

Process(r) ==
    /\ done < MaxRecords /\ done' = done + 1
    /\ pending' = inspect(r)
    /\ catalog' = observe(catalog, r, matched_request(r))
    /\ Follow(r)
    /\ UNCHANGED now

Tick ==
    /\ now < MaxTime /\ now' = now + 1
    /\ UNCHANGED <<pending, catalog, done, open, peak, answered, counted>>

Init ==
    /\ now = 0 /\ pending = Empty /\ catalog = NewCatalog /\ done = 0
    /\ open = Empty /\ peak = 0 /\ answered = [c \in Commands |-> 0] /\ counted = 0

Next == Tick \/ \E r \in Records : Process(r)

Spec == Init /\ [][Next]_vars

-----------------------------------------------------------------------------
(* Properties.                                                             *)

\* Every entry of the pending map is the latest open request of its connection
\* and number, and nothing is missing unless as many requests as the limit were
\* open at some time: a response is matched to the right request or to none.  The
\* map keeps its limit although a full map is only found when the next request comes.
MatchingIsRight ==
    /\ Cardinality(DOMAIN pending) <= MaxPending
    /\ \A k \in DOMAIN pending : k \in DOMAIN open /\ pending[k] = open[k]
    /\ peak < MaxPending => pending = open

\* A command is credited only with responses to its own requests, and with all of
\* them as long as neither limit was reached.
ResponsesAttributed ==
    /\ \A c \in DOMAIN catalog.commands :
          /\ catalog.commands[c].responses <= answered[c]
          /\ c # Unknown => catalog.commands[c].responses <= catalog.commands[c].requests
    /\ peak < MaxPending /\ catalog.overflow_commands = 0 =>
          \A c \in Commands : answered[c] > 0 =>
             c \in DOMAIN catalog.commands /\ catalog.commands[c].responses = answered[c]

Events(summary) == summary.requests + summary.responses + summary.pushes
AllShapes(cat) ==
    {t \in (DOMAIN cat.commands) \X Kinds \X Shapes : t[3] \in cat.commands[t[1]].shapes[t[2]]}

\* What a catalogue that has counted n events says of them
Consistent(cat, n) ==
    LET cmds == DOMAIN cat.commands IN
    /\ Cardinality(cmds) <= MaxCommands
    /\ n = cat.unmatched + cat.overflow_commands + Total([c \in cmds |-> Events(cat.commands[c])])
    /\ cat.shape_count = Cardinality(AllShapes(cat)) /\ cat.shape_count <= MaxShapeCount
    /\ cat.schema_bytes = Total([t \in AllShapes(cat) |-> Bytes[t[3]]])
    /\ cat.schema_bytes <= MaxSchemaBytes
    /\ cat.overflow_shapes = Total([c \in cmds |-> cat.commands[c].overflow])
    /\ \A c \in cmds :
          LET codes == cat.commands[c].codes IN
          /\ Cardinality(DOMAIN codes) <= MaxCodes
          /\ Total(codes) <= cat.commands[c].responses + cat.commands[c].pushes

\* Every event is counted once: under a command, as unmatched, or as overflow.  The
\* totals of the catalogue are the sums over its commands and within their limits,
\* and the codes of a command are those of its responses and pushes.
CatalogConsistent == Consistent(catalog, counted)

-----------------------------------------------------------------------------
(* Types.                                                                  *)

Requests == [cmd : Commands, time : Nat]
IsSummary(s) ==
    /\ s \in [requests : Nat, responses : Nat, pushes : Nat, codes : {s.codes},
              shapes : [Kinds -> SUBSET Shapes], overflow : Nat]
    /\ s.codes \in [DOMAIN s.codes -> Nat]
IsCatalog(cat) ==
    /\ cat \in [unmatched : Nat, overflow_commands : Nat, overflow_shapes : Nat,
                shape_count : Nat, schema_bytes : Nat, commands : {cat.commands}]
    /\ cat.commands = [c \in DOMAIN cat.commands |-> cat.commands[c]]
    /\ \A c \in DOMAIN cat.commands : c \in Commands /\ IsSummary(cat.commands[c])

\* Every variable has the type of the value it stands for.
TypeOK ==
    /\ now \in Nat /\ done \in Nat /\ peak \in Nat /\ counted \in Nat
    /\ pending \in [DOMAIN pending -> Requests] /\ open \in [DOMAIN open -> Requests]
    /\ IsCatalog(catalog) /\ answered \in [Commands -> Nat]
=============================================================================

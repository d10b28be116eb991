--------------------------- MODULE ProviderStream ---------------------------
(***************************************************************************)
(* One round of the model gateway (chat.rs, gobrowse-core model.rs and the *)
(* stream loop of run_api.rs): the request is offered to the routes in     *)
(* order, the first one that opens a stream is used, and its body is read  *)
(* as ndjson (ollama) or as server-sent events (everything else).          *)
(*                                                                         *)
(* A body is a sequence of lines.  Three units of each line travel         *)
(* separately: the two halves of its text and its newline.  The network    *)
(* delivers any number of units per chunk and may stop, or fail, anywhere. *)
(***************************************************************************)
EXTENDS Naturals, Sequences, SequencesExt, ListOps

CONSTANTS Routes,        \* how many routes load_routes returned
          MaxLines,      \* bound: lines of a body
          MaxUnits,      \* the 4 MiB limit of a response, in units
          MaxToolCalls   \* max_tool_calls

ASSUME StreamAssumption == /\ Routes \in Nat \ {0}
                           /\ MaxLines \in Nat \ {0}
                           /\ MaxUnits \in Nat /\ MaxToolCalls \in Nat

VARIABLES kind,      \* the provider_type of the opened route
          body,      \* the lines the provider sends
          route,     \* the route being tried, or the one that was opened
          arrived,   \* units received from the network
          parsed,    \* lines taken out of the buffer
          sseData,   \* sse_data: the data lines of the event being read
          queue,     \* pending: events parsed and not yet returned
          completed, \* the stream will return nothing but what is queued
          network,   \* open, ended (the body is over) or failed
          seen,      \* the events the executor took in this round
          round      \* the outcome of the round

streamState == <<arrived, parsed, sseData, queue, completed, network>>
psvars == <<kind, body, route, streamState, seen, round>>

(***************************************************************************)
(* Lines.  "text", "call", "usage" and "final" (a text with its            *)
(* finish_reason) are server-sent payloads that parse, "done" ollama's last *)
(* line, with its text and counts; "bad" is not JSON.  A "nullcall" names a *)
(* tool with arguments that do not parse: it goes on as a call with none.   *)
(* A "mute" payload is JSON that nothing is taken from: an error object, a  *)
(* tool call without its id or name, or, from ollama, whose lines are read  *)
(* for their text only, message.tool_calls.                                 *)
(***************************************************************************)
Payloads == {"text", "call", "nullcall", "usage", "mute", "final", "bad", "[DONE]"}
OllamaLines == {"text", "done", "mute", "bad", "blank"}
SseLines == Payloads \cup {"blank", "comment"}
Finishing == {"final", "done", "[DONE]"}
Unheard == {"blank", "comment", "mute"}

(* The events of a payload: its text is returned before what it queues *)
Yields(payload) ==
    CASE payload = "final"                  -> <<"text">>
      [] payload = "done"                   -> <<"text", "usage">>
      [] payload \in Unheard \cup {"[DONE]"} -> <<>>
      [] OTHER                              -> <<payload>>

Body(k) == UNION {[1 .. n -> IF k = "ollama" THEN OllamaLines ELSE SseLines] : n \in 0 .. MaxLines}
Bodies == [k \in {"ollama", "sse"} |-> Body(k)]
UnitsOf(b) == 3 * Len(b)

(* The errors a route can answer with, and those that move on to the next *)
Errors == {"InvalidCredentials", "RateLimited", "TemporaryUnavailable", "Timeout", "InvalidResponse"}
AllowsFallback(error) == error # "InvalidResponse"

StreamInit ==
    /\ kind \in {"ollama", "sse"}
    /\ body \in Bodies[kind]
    /\ route = 1
    /\ arrived = 0 /\ parsed = 0 /\ sseData = <<>> /\ queue = <<>>
    /\ completed = FALSE /\ network = "closed"
    /\ seen = <<>>
    /\ round = "opening"

(***************************************************************************)
(* open_with_fallback                                                      *)
(***************************************************************************)
RouteFails(error) ==
    /\ round = "opening"
    /\ IF AllowsFallback(error) /\ route < Routes
       THEN route' = route + 1 /\ UNCHANGED round
       ELSE round' = "failed" /\ UNCHANGED route
    /\ UNCHANGED <<kind, body, streamState, seen>>

RouteOpens ==
    /\ round = "opening"
    /\ round' = "streaming" /\ network' = "open"
    /\ UNCHANGED <<kind, body, route, arrived, parsed, sseData, queue, completed, seen>>

(* The 90 s limit on opening, the 90 s limit on an idle stream, and a run
   whose lease, access or cancellation check fails in between             *)
RoundStops ==
    /\ round \in {"opening", "streaming"}
    /\ round' = "failed"
    /\ UNCHANGED <<kind, body, route, streamState, seen>>

(***************************************************************************)
(* parse_provider_line: the state after a line, as a record                *)
(***************************************************************************)
Nothing == [ok |-> TRUE, sse |-> <<>>, events |-> <<>>, done |-> FALSE]
Bad == [Nothing EXCEPT !.ok = FALSE]

Finish(payload) == [Nothing EXCEPT !.events = Yields(payload) \o <<"completed">>, !.done = TRUE]

ParseValue(payload) ==
    CASE payload \in {"text", "call", "nullcall", "usage", "mute"} -> [Nothing EXCEPT !.events = Yields(payload)]
      [] payload \in {"final", "done"} -> Finish(payload)
      [] OTHER -> Bad

(* `data:` lines collect until a blank line; two of them are joined by a
   newline, and two JSON values are not one.  [DONE] alone ends the stream *)
ParseEvent(data) ==
    CASE data = <<>>         -> Nothing
      [] data = <<"[DONE]">> -> Finish("[DONE]")
      [] Len(data) > 1       -> Bad
      [] OTHER               -> ParseValue(data[1])

ParseProviderLine(line, data) ==
    IF kind = "ollama"
    THEN IF line = "blank" THEN Nothing ELSE ParseValue(line)
    ELSE CASE line \in Payloads -> [Nothing EXCEPT !.sse = Append(data, line)]
           [] line = "comment"  -> [Nothing EXCEPT !.sse = data]
           [] line = "blank"    -> ParseEvent(data)

(* What is left of a line when the body ends inside it: without its newline
   only, it reads like the whole line; half of it does not parse           *)
CutLine(line, units, data) ==
    IF units = 2 \/ line = "blank" THEN ParseProviderLine(line, data)
    ELSE IF kind = "ollama" THEN Bad ELSE [Nothing EXCEPT !.sse = data]

(***************************************************************************)
(* next_provider_event                                                     *)
(***************************************************************************)
Polled == round = "streaming" /\ queue = <<>> /\ ~completed
LineBuffered == arrived >= 3 * (parsed + 1)

Applied(result) ==
    /\ sseData' = result.sse
    /\ queue' = IF result.ok THEN result.events ELSE <<"error">> \o result.events
    /\ completed' = (~result.ok \/ result.done)

BufferedLine ==
    /\ Polled /\ LineBuffered
    /\ Applied(ParseProviderLine(body[parsed + 1], sseData))
    /\ parsed' = parsed + 1
    /\ UNCHANGED <<kind, body, route, arrived, network, seen, round>>

(* A chunk arrives; past the limit of a response the stream is an error *)
Chunk(n) ==
    /\ Polled /\ ~LineBuffered /\ network = "open"
    /\ n \in 1 .. (UnitsOf(body) - arrived)
    /\ arrived' = arrived + n
    /\ IF arrived + n > MaxUnits
       THEN queue' = <<"error">> /\ completed' = TRUE
       ELSE UNCHANGED <<queue, completed>>
    /\ UNCHANGED <<kind, body, route, parsed, sseData, network, seen, round>>

(* The connection breaks: reqwest's error is mapped and ends the stream *)
Breaks ==
    /\ Polled /\ ~LineBuffered /\ network = "open"
    /\ network' = "broken"
    /\ queue' = <<"error">> /\ completed' = TRUE
    /\ UNCHANGED <<kind, body, route, arrived, parsed, sseData, seen, round>>

(* The connection closes, wherever the body is: what is buffered, or else
   what is collected, is read once more; a text is returned and the stream
   polled again, an answer that is not finished by it is an error          *)
Unfinished(result) == ~result.done /\ (result.events = <<>> \/ Head(result.events) # "text")
LastRead ==
    LET units == arrived - 3 * parsed
    IN IF units > 0 THEN CutLine(body[parsed + 1], units, sseData) ELSE ParseEvent(sseData)

(* Mutant: a body that ends without finishing its answer ends the stream *)
AtEndSilently == IF Unfinished(LastRead) THEN [LastRead EXCEPT !.done = TRUE] ELSE LastRead

AtEnd == IF Unfinished(LastRead) THEN [LastRead EXCEPT !.ok = FALSE] ELSE LastRead

Ends ==
    /\ Polled /\ ~LineBuffered /\ network \in {"open", "ended"}
    /\ network' = "ended"
    /\ Applied(AtEnd)
    /\ arrived' = 3 * parsed
    /\ UNCHANGED <<kind, body, route, parsed, seen, round>>

(***************************************************************************)
(* The stream loop of process_run                                          *)
(***************************************************************************)
CallsIn(events) == Len(Picked(events, {i \in DOMAIN events : events[i] \in {"call", "nullcall"}}))

(* The end of the stream (None) leaves the loop as Completed does *)
TakeEvent ==
    /\ round = "streaming" /\ (queue # <<>> \/ completed)
    /\ queue' = IF queue = <<>> THEN queue ELSE Tail(queue)
    /\ LET event == IF queue = <<>> THEN "completed" ELSE Head(queue)
       IN CASE event = "error"     -> round' = "failed" /\ UNCHANGED seen
            [] event = "completed" -> round' = "done" /\ UNCHANGED seen
            [] event \in {"call", "nullcall"} /\ CallsIn(seen) = MaxToolCalls -> round' = "failed" /\ UNCHANGED seen
            [] OTHER               -> seen' = Append(seen, event) /\ UNCHANGED round
    /\ UNCHANGED <<kind, body, route, arrived, parsed, sseData, completed, network>>

StreamNext ==
    \/ \E error \in Errors : RouteFails(error)
    \/ RouteOpens \/ RoundStops
    \/ BufferedLine \/ (\E n \in 1 .. 3 * MaxLines : Chunk(n)) \/ Breaks \/ Ends
    \/ TakeEvent

StreamSpec == StreamInit /\ [][StreamNext]_psvars

StreamTypeOK ==
    /\ kind \in {"ollama", "sse"} /\ body \in Bodies[kind] /\ route \in 1 .. Routes
    /\ arrived \in 0 .. UnitsOf(body) /\ parsed \in 0 .. Len(body)
    /\ sseData \in Seq(Payloads)
    /\ queue \in Seq({"text", "call", "nullcall", "usage", "completed", "error"})
    /\ completed \in BOOLEAN
    /\ network \in {"closed", "open", "ended", "broken"}
    /\ seen \in Seq({"text", "call", "nullcall", "usage"})
    /\ round \in {"opening", "streaming", "done", "failed"}

(***************************************************************************)
(* A round that succeeds read its answer to the end: what the executor     *)
(* collected is what the lines up to the first one that finishes an answer *)
(* yield, in order and once each, however the body was cut into chunks.    *)
(* An answer that was cut short, a line that is not JSON or a body over    *)
(* the limit is never recorded as a completed round (next_provider_event   *)
(* of chat.rs).  It is not the whole of what the provider said: a mute     *)
(* payload is passed over in silence, a call with bad arguments is taken   *)
(* without them, and the lines after the finishing one are never read.     *)
(***************************************************************************)
Said(lines) == Picked(lines, {i \in DOMAIN lines : lines[i] \notin Unheard})
FinishedAnswer(lines) ==
    LET said == Said(lines)
    IN /\ said # <<>>
       /\ Last(said) \in Finishing
       /\ \A i \in 1 .. Len(said) - 1 : said[i] \notin Finishing \cup {"bad"}
       /\ seen = Front(said) \o Yields(Last(said))

RoundReadToItsEnd ==
    round = "done" => \E n \in 1 .. Len(body) : FinishedAnswer(SubSeq(body, 1, n))
=============================================================================

------------------------------ MODULE McpWire ------------------------------
(***************************************************************************)
(* The MCP wire layer of gobrowse-core: bounded line frames (stdio.rs),    *)
(* JSON-RPC envelopes (wire.rs), the bounds on values (validation.rs,      *)
(* model.rs), capabilities and protocol versions.  A frame is the record   *)
(* of what the code looks at in a line; contents are classes: a value is   *)
(* a valid instance of one method's type or it is "bad".                   *)
(***************************************************************************)
EXTENDS Naturals, Sequences

Modern == "2026-07-28"
Legacy == "2025-11-25"
\* In order of preference.
SUPPORTED_PROTOCOL_ERAS == <<Modern, Legacy>>
Known(v) == \E i \in 1..Len(SUPPORTED_PROTOCOL_ERAS) : SUPPORTED_PROTOCOL_ERAS[i] = v
\* "none": nothing advertised, or nothing in common.
SelectVersion(advertised) ==
    LET common == {i \in 1..Len(SUPPORTED_PROTOCOL_ERAS) : SUPPORTED_PROTOCOL_ERAS[i] \in advertised}
    IN  IF common = {} THEN "none"
        ELSE SUPPORTED_PROTOCOL_ERAS[CHOOSE i \in common : \A j \in common : i <= j]

Requests == {"server/discover", "initialize", "ping", "tools/list", "tools/call", "resources/list",
             "resources/read", "resources/subscribe", "resources/unsubscribe", "prompts/list",
             "prompts/get"}
Notices  == {"initialized", "cancelled", "tools/list_changed", "resources/list_changed",
             "resources/updated", "progress", "message"}
NeedsParams  == {"initialize", "tools/call", "resources/read", "resources/subscribe",
                 "resources/unsubscribe", "prompts/get", "cancelled", "resources/updated", "progress",
                 "message"}
RefusesParams == {"initialized", "tools/list_changed", "resources/list_changed"}

\* A line.  json is "object", another value, or not JSON within the bounds
\* (malformed, nested too deep, too many items, a key twice); id is 0 when
\* absent and "bad" is an empty or overlong one.
NoObject == [size |-> "ok", json |-> "object", jsonrpc |-> TRUE, id |-> 0, badId |-> FALSE,
             method |-> "absent", params |-> "absent", result |-> "absent", error |-> "absent",
             versions |-> {}, extra |-> FALSE]
Frame(id, method, params)  == [NoObject EXCEPT !.id = id, !.method = method, !.params = params]
Answered(id, result, error) == [NoObject EXCEPT !.id = id, !.result = result, !.error = error]
\* What is left of a line part of which was read or written.
Torn == [NoObject EXCEPT !.json = "malformed"]

\* recv: one byte more than the limit ends the line with an error.
LineBound(f) == f.size # "over"
\* parse_bounded_json and validate_json.
BoundedJson(f) == f.json \notin {"malformed", "deep", "wide", "duplicate key"}
ValidCommon(f) == f.jsonrpc /\ f.method # "overlong"
ValidId(f) == ~f.badId
\* A method this code does not know may carry anything or nothing.
ValidParams(f) ==
    IF f.params = "absent" THEN f.method \notin NeedsParams
    ELSE /\ f.method \notin RefusesParams
         /\ f.method \in (Requests \ {"ping", "server/discover"}) \cup Notices => f.params = "good"
ValidRequest(f) == ValidCommon(f) /\ ValidId(f) /\ ValidParams(f)
ValidNotification(f) == ValidCommon(f) /\ ValidParams(f)
\* An error has a message within its bound and bounded data; a result is
\* any bounded value until it is correlated with its request.
ValidResponse(f) == f.jsonrpc /\ ValidId(f) /\ f.error # "bad" /\ f.size # "over"

Has(f, key) == IF key = "id" THEN f.id # 0 ELSE f[key] # "absent"
Classify(f) ==
    IF Has(f, "method") /\ (Has(f, "result") \/ Has(f, "error")) THEN "invalid"
    ELSE CASE Has(f, "method") /\ Has(f, "id") -> IF ~f.extra /\ ValidRequest(f) THEN "request" ELSE "invalid"
           [] Has(f, "method") /\ ~Has(f, "id") -> IF ~f.extra /\ ValidNotification(f) THEN "notification" ELSE "invalid"
           [] ~Has(f, "method") /\ (Has(f, "result") # Has(f, "error")) ->
                IF ~f.extra /\ Has(f, "id") /\ ValidResponse(f) THEN "response" ELSE "invalid"
           [] OTHER -> "invalid"
Decode(f) ==
    IF LineBound(f) /\ f.size # "empty" /\ BoundedJson(f) /\ f.json = "object" THEN Classify(f) ELSE "invalid"
\* correlate: a result has to be a valid instance of what the method answers.
\* The versions of a DiscoverResult are some, and all of them known.
ValidVersions(advertised) == advertised # {} /\ \A v \in advertised : Known(v)
ValidSuccess(f, method) ==
    /\ method \in Requests /\ f.result = method
    /\ method = "server/discover" => ValidVersions(f.versions)
Correlates(f, method) == f.error # "absent" \/ ValidSuccess(f, method)

\* What a server offers.  A capability the server leaves out is FALSE.
Allowed(method, caps) ==
    CASE method \in {"tools/list", "tools/call"}                        -> "tools" \in caps
      [] method \in {"resources/list", "resources/read"}                -> "resources" \in caps
      [] method \in {"resources/subscribe", "resources/unsubscribe"}    -> {"resources", "subscribe"} \subseteq caps
      [] method \in {"prompts/list", "prompts/get"}                     -> "prompts" \in caps
      [] OTHER                                                          -> FALSE
NotificationAllowed(notice, caps) ==
    CASE notice = "tools/list_changed"     -> {"tools", "tools changed"} \subseteq caps
      [] notice = "resources/list_changed" -> {"resources", "resources changed"} \subseteq caps
      [] notice = "resources/updated"      -> {"resources", "subscribe"} \subseteq caps
      [] notice = "message"                -> "logging" \in caps
      [] OTHER                             -> FALSE
=============================================================================

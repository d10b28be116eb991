------------------------------ MODULE McpPool ------------------------------
(***************************************************************************)
(* The server's MCP client (mcp_client.rs) and the rows it connects from   *)
(* (mcp_api.rs).  A library load looks the server up in the pool, or reads *)
(* its row, spawns the process, negotiates a version with it and puts the  *)
(* connection into the pool; it then holds the connection's lock for one   *)
(* request.  Every request is bounded by a timeout that drops the future   *)
(* in the middle of a read or a write.  The process at the other end is    *)
(* the dispatcher of gobrowse-core (mcp/server.rs) or somebody else's.     *)
(***************************************************************************)
EXTENDS McpWire, FiniteSets
CONSTANTS Loads,            \* callers of load_mcp_payload
          MaxProcesses,     \* bound: processes that are spawned
          MaxServerEdits,   \* bound: changes of the mcp_servers row
          MaxMcpFaults,     \* bound: timeouts, exits, failed spawns, frames sent unasked
          MAX_INTERLEAVED_FRAMES

\* 0 stands for no connection.
ASSUME McpAssumption == MaxProcesses \in Nat

VARIABLES mcpServer,   \* the row of mcp_servers
          mcpPool,     \* the connection in the pool, 0 for none
          process,     \* process[c]: connection c and the process behind it
          load,        \* load[l]: where a caller is
          asked,       \* history: asked[c][i] is the caller of request i of connection c
          mcpEdits, mcpFaults
mcpvars == <<mcpServer, mcpPool, process, load, asked, mcpEdits, mcpFaults>>

Connections == 1..MaxProcesses
NoServer == [present |-> FALSE, enabled |-> FALSE, transport |-> "stdio", configuration |-> "valid",
             secret |-> "readable"]
NoProcess == [state |-> "none", peer |-> "gobrowse", negotiation |-> "pristine", era |-> Modern,
              next_id |-> 0, stdin |-> <<>>, stdout |-> <<>>, holder |-> "nobody"]
NoLoad == [pc |-> "idle", c |-> 0, method |-> "server/discover", id |-> 0, frames |-> 0,
           connected |-> FALSE, got |-> 0, ok |-> FALSE]
McpInit ==
    /\ mcpServer = NoServer /\ mcpPool = 0 /\ process = [c \in Connections |-> NoProcess]
    /\ load = [l \in Loads |-> NoLoad] /\ asked = [c \in Connections |-> <<>>]
    /\ mcpEdits = 0 /\ mcpFaults = 0
-----------------------------------------------------------------------------
\* mcp_api: the row only; nothing here tells the pool.
McpEdit == mcpEdits < MaxServerEdits /\ mcpEdits' = mcpEdits + 1
           /\ UNCHANGED <<mcpPool, process, load, asked, mcpFaults>>
McpCreate ==
    /\ McpEdit /\ ~mcpServer.present
    /\ \E e \in BOOLEAN, t \in {"stdio", "streamable_http"} :
          mcpServer' = [NoServer EXCEPT !.present = TRUE, !.enabled = e, !.transport = t]
McpUpdate ==
    /\ McpEdit /\ mcpServer.present
    /\ \/ \E e \in BOOLEAN : mcpServer' = [mcpServer EXCEPT !.enabled = e]
       \/ \E g \in {"valid", "unusable"} : mcpServer' = [mcpServer EXCEPT !.configuration = g]
       \/ \E s \in {"readable", "missing"} : mcpServer' = [mcpServer EXCEPT !.secret = s]
McpDelete == McpEdit /\ mcpServer.present /\ mcpServer' = NoServer
-----------------------------------------------------------------------------
\* The end of a call.  A connection that is not in the pool is dropped with
\* the call and its process killed; one that is keeps its pipes as they are.
EndsLoad(l, answer, c, p) ==
    /\ load' = [load EXCEPT ![l].pc = "done", ![l].ok = (answer # 0), ![l].got = answer]
    /\ process' = IF c = 0 THEN process
                  ELSE IF ~load[l].connected THEN [process EXCEPT ![c] = [NoProcess EXCEPT !.state = "killed"]]
                  ELSE [process EXCEPT ![c] = [p EXCEPT !.holder = "nobody"]]
Fails(l) == EndsLoad(l, 0, load[l].c, process[load[l].c])
McpFault == mcpFaults < MaxMcpFaults /\ mcpFaults' = mcpFaults + 1

StartLoad(l) ==
    /\ load[l].pc = "idle"
    /\ load' = [load EXCEPT ![l].pc = IF mcpServer.present THEN "pool" ELSE "done"]
    /\ UNCHANGED <<mcpServer, mcpPool, process, asked, mcpEdits, mcpFaults>>
\* get_or_connect: a connection in the pool is taken without a look at the row.
PoolLookup(l) ==
    /\ load[l].pc = "pool"
    /\ load' = [load EXCEPT ![l] = IF mcpPool # 0 THEN [@ EXCEPT !.pc = "lock", !.c = mcpPool, !.connected = TRUE]
                                   ELSE [@ EXCEPT !.pc = "row"]]
    /\ UNCHANGED <<mcpServer, mcpPool, process, asked, mcpEdits, mcpFaults>>
Connectable(row) == row.enabled /\ row.transport = "stdio" /\ row.configuration = "valid"
ConnectRow(l) ==
    /\ load[l].pc = "row"
    /\ IF Connectable(mcpServer) THEN load' = [load EXCEPT ![l].pc = "secret"] /\ UNCHANGED mcpPool
       ELSE /\ load' = [load EXCEPT ![l].pc = "done"]
            /\ mcpPool' = IF mcpServer.present THEN mcpPool ELSE 0
    /\ UNCHANGED <<mcpServer, process, asked, mcpEdits, mcpFaults>>
ResolveSecret(l) ==
    /\ load[l].pc = "secret"
    /\ load' = [load EXCEPT ![l].pc = IF mcpServer.secret = "missing" THEN "done" ELSE "spawn"]
    /\ UNCHANGED <<mcpServer, mcpPool, process, asked, mcpEdits, mcpFaults>>
SpawnServer(l) ==
    /\ load[l].pc = "spawn"
    /\ \/ McpFault /\ load' = [load EXCEPT ![l].pc = "done"] /\ UNCHANGED process
       \/ \E c \in Connections, peer \in {"gobrowse", "other"} :
             /\ process[c].state = "none" /\ \A d \in Connections : d < c => process[d].state # "none"
             /\ process' = [process EXCEPT ![c].state = "up", ![c].peer = peer]
             /\ load' = [load EXCEPT ![l].pc = "send", ![l].c = c]
             /\ UNCHANGED mcpFaults
    /\ UNCHANGED <<mcpServer, mcpPool, asked, mcpEdits>>

\* One request: a fresh id, a line into stdin, a wait for its answer.
SendRequest(l) ==
    LET c == load[l].c
        id == process[c].next_id + 1
    IN  /\ load[l].pc = "send"
        /\ IF process[c].state = "exited" THEN Fails(l) /\ UNCHANGED asked
           ELSE /\ process' = [process EXCEPT ![c].next_id = id, ![c].stdin = Append(@,
                      Frame(id, load[l].method, IF load[l].method \in NeedsParams THEN "good" ELSE "absent"))]
                /\ load' = [load EXCEPT ![l].pc = "wait", ![l].id = id, ![l].frames = 0]
                /\ asked' = [asked EXCEPT ![c] = Append(@, l)]
        /\ UNCHANGED <<mcpServer, mcpPool, mcpEdits, mcpFaults>>

\* What the handshake makes of the answer to server/discover: an error or a
\* legacy version leads to initialize.
Discovered(l, c, p, f) ==
    IF f.error = "absent" /\ SelectVersion(f.versions) = Modern
    THEN /\ load' = [load EXCEPT ![l].pc = "insert"]
         /\ process' = [process EXCEPT ![c] = [p EXCEPT !.era = Modern]]
    ELSE /\ load' = [load EXCEPT ![l].pc = "send", ![l].method = "initialize"]
         /\ process' = [process EXCEPT ![c] = p]
Initialized(l, c, p, f) ==
    IF f.error # "absent" \/ f.versions # {Legacy} THEN EndsLoad(l, 0, c, p)
    ELSE /\ load' = [load EXCEPT ![l].pc = "insert"]
         /\ process' = [process EXCEPT ![c] = [p EXCEPT !.era = Legacy,
                            !.stdin = Append(@, Frame(0, "initialized", "absent"))]]
\* A page has no cursor and is within the client's bounds on tools and bytes.
ToolsListed(l, c, p, f) == EndsLoad(l, IF f.error = "absent" /\ f.size # "large" THEN f.id ELSE 0, c, p)
Called(l, c, p, f) == EndsLoad(l, IF f.error = "absent" /\ f.size # "large" THEN f.id ELSE 0, c, p)
HandleAnswer(l, c, p, f) ==
    IF ~Correlates(f, load[l].method) THEN EndsLoad(l, 0, c, p)
    ELSE CASE load[l].method = "server/discover" -> Discovered(l, c, p, f)
           [] load[l].method = "initialize"      -> Initialized(l, c, p, f)
           [] load[l].method = "tools/list"      -> ToolsListed(l, c, p, f)
           [] OTHER                              -> Called(l, c, p, f)

OwnAnswer(f, id) == f.id = id

\* await_response.
Receive(l) ==
    LET c == load[l].c
        p == [process[c] EXCEPT !.stdout = Tail(@)]
        f == Head(process[c].stdout)
    IN  /\ load[l].pc = "wait"
        /\ \/ /\ process[c].stdout = <<>> /\ process[c].state = "exited"
              /\ Fails(l)
           \/ /\ process[c].stdout # <<>> /\ Decode(f) = "response" /\ OwnAnswer(f, load[l].id)
              /\ HandleAnswer(l, c, p, f)
           \/ /\ process[c].stdout # <<>>
              /\ Decode(f) = "invalid" \/ (Decode(f) = "response" /\ ~OwnAnswer(f, load[l].id))
              /\ EndsLoad(l, 0, c, p)
           \/ /\ process[c].stdout # <<>> /\ Decode(f) \in {"notification", "request"}
              /\ IF load[l].frames + 1 = MAX_INTERLEAVED_FRAMES THEN EndsLoad(l, 0, c, p)
                 ELSE /\ load' = [load EXCEPT ![l].frames = @ + 1]
                      /\ process' = [process EXCEPT ![c] = p]
        /\ UNCHANGED <<mcpServer, mcpPool, asked, mcpEdits, mcpFaults>>

\* MCP_TIMEOUT drops the request where it is.  Bytes of a line that was
\* partly read are gone, and a line that was partly written stays in stdin.
RequestTimeout(l) ==
    LET c == load[l].c
        p == process[c]
    IN  /\ load[l].pc \in {"send", "wait"} /\ McpFault
        /\ \E torn \in BOOLEAN :
              EndsLoad(l, 0, c,
                CASE ~torn                                        -> p
                  [] torn /\ load[l].pc = "send"                  -> [p EXCEPT !.stdin = Append(@, Torn),
                                                                                !.next_id = @ + 1]
                  [] torn /\ load[l].pc = "wait" /\ p.stdout # <<>> -> [p EXCEPT !.stdout = <<Torn>> \o Tail(@)]
                  [] OTHER                                        -> p)
        /\ asked' = [asked EXCEPT ![c] = IF load[l].pc = "send" /\ load[l].connected
                                             /\ process'[c].next_id > p.next_id THEN Append(@, l) ELSE @]
        /\ UNCHANGED <<mcpServer, mcpPool, mcpEdits>>

\* The second look at the pool, under its lock.
PoolInsert(l) ==
    LET own == load[l].c
    IN  /\ load[l].pc = "insert"
        /\ IF mcpPool # 0
           THEN /\ process' = [process EXCEPT ![own] = [NoProcess EXCEPT !.state = "killed"]]
                /\ load' = [load EXCEPT ![l].pc = "lock", ![l].c = mcpPool, ![l].connected = TRUE]
                /\ UNCHANGED mcpPool
           ELSE /\ mcpPool' = own /\ UNCHANGED process
                /\ load' = [load EXCEPT ![l].pc = "lock", ![l].connected = TRUE]
        /\ UNCHANGED <<mcpServer, asked, mcpEdits, mcpFaults>>
LockClient(l) ==
    LET c == load[l].c
    IN  /\ load[l].pc = "lock" /\ process[c].holder = "nobody"
        /\ process' = [process EXCEPT ![c].holder = l]
        /\ \E m \in {"tools/list", "tools/call"} : load' = [load EXCEPT ![l].pc = "send", ![l].method = m]
        /\ UNCHANGED <<mcpServer, mcpPool, asked, mcpEdits, mcpFaults>>
-----------------------------------------------------------------------------
\* The dispatcher.  h is what its handler does: a valid result, an error, an
\* invalid result, or a valid one that does not fit into a frame.
Handlers == {"good", "error", "bad", "oversize"}
Advertised == {{Modern}, {Legacy}, {Modern, Legacy}}
Reply(neg, result, versions) == [negotiation |-> neg, result |-> result, versions |-> versions]
RefuseRequest(neg) == Reply(neg, "absent", {})
OutOfOrder(neg) == IF neg = "staged" THEN "rejected" ELSE neg
DispatchDiscover(neg, h, versions) ==
    IF neg # "pristine" THEN RefuseRequest(OutOfOrder(neg))
    ELSE IF h \in {"error", "bad"} \/ ~ValidVersions(versions) \/ SelectVersion(versions) # Modern
    THEN RefuseRequest(neg) ELSE Reply("modern", "server/discover", versions)
DispatchInitialize(neg, h) ==
    IF neg # "pristine" THEN RefuseRequest(OutOfOrder(neg))
    ELSE IF h \in {"error", "bad"} THEN RefuseRequest(neg) ELSE Reply("staged", "initialize", {Legacy})
DispatchMethod(neg, method, h, caps) ==
    IF neg \notin {"modern", "legacy"} \/ ~Allowed(method, caps) \/ h \in {"error", "bad"}
    THEN RefuseRequest(neg) ELSE Reply(neg, method, {})
DispatchRequest(neg, method, h, versions, caps) ==
    CASE method = "server/discover" -> DispatchDiscover(neg, h, versions)
      [] method = "initialize"      -> DispatchInitialize(neg, h)
      [] OTHER                      -> DispatchMethod(neg, method, h, caps)
\* A result that cannot be sent takes the negotiation back with it.
DispatchReply(neg, r, h) ==
    IF h = "oversize" /\ r.result # "absent"
    THEN RefuseRequest(IF r.negotiation = "rejected" THEN "rejected" ELSE neg) ELSE r
Notify(neg, method) == IF method = "initialized" /\ neg = "staged" THEN "legacy" ELSE neg

\* A process reads a line.  A torn one swallows the line written after it.
Serve(c) ==
    LET p == process[c]
        f == Head(p.stdin)
        rest == IF f = Torn THEN Tail(Tail(p.stdin)) ELSE Tail(p.stdin)
        Answers(r, size) == [Answered(f.id, r.result, IF r.result = "absent" THEN "good" ELSE "absent")
                               EXCEPT !.versions = r.versions, !.size = size]
    IN  /\ p.state = "up" /\ p.stdin # <<>> /\ (f = Torn => Len(p.stdin) > 1)
        /\ \/ /\ Decode(f) \in {"invalid", "notification"}
              /\ process' = [process EXCEPT ![c].stdin = rest,
                                            ![c].negotiation = IF f = Torn THEN @ ELSE Notify(@, f.method)]
           \/ /\ Decode(f) = "request" /\ p.peer = "gobrowse"
              /\ \E h \in Handlers, v \in Advertised, size \in {"ok", "large"} :
                    /\ h # "good" => size = "ok" /\ v = {Modern}
                    /\ f.method # "server/discover" => v = {Modern}
                    /\ size = "large" => f.method \in {"tools/list", "tools/call"}
                    /\ LET r == DispatchReply(p.negotiation,
                                  DispatchRequest(p.negotiation, f.method, h, v, {"tools"}), h)
                       IN process' = [process EXCEPT ![c].stdin = rest, ![c].negotiation = r.negotiation,
                                        ![c].stdout = Append(@, Answers(r, size))]
           \/ /\ Decode(f) = "request" /\ p.peer = "other"
              /\ \E r \in {RefuseRequest(p.negotiation), Reply(p.negotiation, f.method, {Legacy}),
                           Reply(p.negotiation, f.method, {Modern, "2099-01-01"}),
                           Reply(p.negotiation, "bad", {})} :
                    process' = [process EXCEPT ![c].stdin = rest, ![c].stdout = Append(@, Answers(r, "ok"))]
        /\ UNCHANGED <<mcpServer, mcpPool, load, asked, mcpEdits, mcpFaults>>
Notice(c) ==
    /\ process[c].state = "up" /\ McpFault
    /\ \E f \in {Frame(0, "tools/list_changed", "absent"), Frame(1, "ping", "absent"),
                 [NoObject EXCEPT !.size = "over"]} :
          process' = [process EXCEPT ![c].stdout = Append(@, f)]
    /\ UNCHANGED <<mcpServer, mcpPool, load, asked, mcpEdits>>
ProcessExits(c) ==
    /\ process[c].state = "up" /\ McpFault
    /\ process' = [process EXCEPT ![c].state = "exited", ![c].stdin = <<>>]
    /\ UNCHANGED <<mcpServer, mcpPool, load, asked, mcpEdits>>

McpNext ==
    \/ McpCreate \/ McpUpdate \/ McpDelete
    \/ \E l \in Loads : StartLoad(l) \/ PoolLookup(l) \/ ConnectRow(l) \/ ResolveSecret(l) \/ SpawnServer(l)
                        \/ SendRequest(l) \/ Receive(l) \/ RequestTimeout(l) \/ PoolInsert(l) \/ LockClient(l)
    \/ \E c \in Connections : Serve(c) \/ Notice(c) \/ ProcessExits(c)
McpSpec == McpInit /\ [][McpNext]_mcpvars
-----------------------------------------------------------------------------
McpTypeOK ==
    /\ mcpPool \in 0..MaxProcesses
    /\ \A c \in Connections : /\ process[c].negotiation \in {"pristine", "staged", "modern", "legacy", "rejected"}
                              /\ process[c].state \in {"none", "up", "exited", "killed"}
    /\ \A l \in Loads : load[l].c \in 0..MaxProcesses

(***************************************************************************)
(* A caller is answered with the answer to its own request, although the   *)
(* calls share one connection, a timed out call leaves its answer (or half *)
(* of it) in the pipe for the next one, and the process sends frames of    *)
(* its own (await_response, get_or_connect).                               *)
(***************************************************************************)
McpAnswerIsOwn ==
    \A l \in Loads : load[l].pc = "done" /\ load[l].ok =>
        /\ load[l].got \in 1..Len(asked[load[l].c]) /\ asked[load[l].c][load[l].got] = l
        /\ \A m \in Loads \ {l} : load[m].pc = "done" /\ load[m].ok /\ load[m].c = load[l].c => load[m].got # load[l].got

=============================================================================

------------------------------ MODULE Library ------------------------------
(***************************************************************************)
(* The Library: who may create, read, find, change and delete a book, the  *)
(* chunks its text is indexed by, the companion books that triggers keep   *)
(* for skills, MCP servers and plugins, search with its two queries, and   *)
(* the loads of a run (library_api.rs, library.rs, run_tools.rs and the    *)
(* triggers of migrations 0020 and 0021).                                  *)
(***************************************************************************)
EXTENDS Naturals, FiniteSets

CONSTANTS BookIds, LibUsers,
          PrivateOwner,    \* who created the conversation without workspace
          Lengths,         \* lengths of texts, in characters
          ChunkChars, ChunkOverlap, \* 4000 and 400
          MAX_LOADS,       \* 5 loads of an executor
          MaxLibOps, MaxRoleChanges  \* bounds: writes; changes of roles and memberships
ASSUME ChunkAssumption == /\ ChunkOverlap \in Nat /\ ChunkChars \in Nat /\ ChunkOverlap < ChunkChars
                          /\ Lengths \subseteq Nat
ASSUME LoadsAssumption == MAX_LOADS \in Nat

VARIABLES shelf,      \* shelf[b]: the row of a book (kind "none": no row)
          target,     \* target[k]: the row a companion book stands for: none, present, active
          libRole, membership, \* of each user; one workspace
          embedded,   \* embedded[b]: revision whose chunks have vectors, or 0
          search,     \* search[u]: a search under way, or its answer
          loads,      \* metrics of the executor of a run
          libOps, roleChanges
libvars == <<shelf, target, libRole, membership, embedded, search, loads, libOps, roleChanges>>

Scopes == {"GLOBAL", "USER", "PROFILE", "WORKSPACE", "PROJECT", "CONVERSATION", "AGENT", "PRIVATE"}
Companions == {"SKILL", "MCP", "PLUGIN"}
NoBook == [kind |-> "none", scope |-> "PROFILE", restricted |-> FALSE, owner |-> "nobody",
           creator |-> "nobody", ws |-> FALSE, conv |-> "none", user_provided |-> TRUE,
           length |-> 0, revision |-> 0, chunks |-> {}]
NoSearch == [pc |-> "idle", lexical |-> {}, semantic |-> {}, undisturbed |-> TRUE]
NoLoads == [source |-> 0, skill |-> 0, mcp |-> 0, plugin |-> 0, books_loaded |-> 0]

\* chunk_text: each chunk starts ChunkOverlap before the end of the last one,
\* until one reaches the end of the text.
Least(m, n) == IF m <= n THEN m ELSE n
ChunkText(length) ==
    LET starts == {s \in {k * (ChunkChars - ChunkOverlap) : k \in 0 .. length} :
                      s = 0 \/ s + ChunkOverlap < length} IN
    IF length = 0 THEN {} ELSE {<<s, Least(s + ChunkChars, length)>> : s \in starts}

LibraryInit ==
    /\ shelf = [b \in BookIds |-> NoBook] /\ target = [k \in Companions |-> "none"]
    /\ libRole = [u \in LibUsers |-> "MEMBER"] /\ membership = [u \in LibUsers |-> "none"]
    /\ embedded = [b \in BookIds |-> 0] /\ search = [u \in LibUsers |-> NoSearch]
    /\ loads = NoLoads /\ libOps = 0 /\ roleChanges = 0
-----------------------------------------------------------------------------
IsAdmin(u) == libRole[u] \in {"OWNER", "ADMIN"}
Member(u)  == membership[u] # "none"
Editor(u)  == membership[u] \in {"OWNER", "EDITOR"}
OwnConversation(u, row) == row.conv = "private" /\ u = PrivateOwner
SharedConversation(row) == row.conv = "workspace"
\* authorize_workspace(require_write) and authorize_conversation
AuthorizeBookWorkspace(u, row) == row.ws => IsAdmin(u) \/ Editor(u)
AuthorizeBookConversation(u, row) ==
    row.conv # "none" => IsAdmin(u) \/ OwnConversation(u, row) \/ (SharedConversation(row) /\ Editor(u))
\* Book::validate, as far as scopes go
ValidBook(row) == /\ row.scope \in {"WORKSPACE", "PROJECT"} => row.ws
                  /\ row.scope = "CONVERSATION" => row.conv # "none"
MayCreate(u, row) ==
    /\ libRole[u] # "VIEWER" /\ row.scope # "AGENT" /\ ValidBook(row)
    /\ row.scope = "GLOBAL" \/ row.restricted \/ ~row.user_provided => IsAdmin(u)
    /\ AuthorizeBookWorkspace(u, row) /\ AuthorizeBookConversation(u, row)

\* Mutant: only private books have an owner.
OwnerOfPrivate(u, scope) == IF scope = "PRIVATE" THEN u ELSE "nobody"
OwnerOf(u, scope) == IF scope \in {"USER", "PRIVATE"} THEN u ELSE "nobody"

\* The WHERE clause that get_book, load_book_content, list_books,
\* book_history and both queries of search_books share.
Readable(u, row) ==
    /\ row.kind # "none"
    /\ row.restricted \/ row.scope = "AGENT" => IsAdmin(u)
    /\ row.scope \in {"USER", "PRIVATE"} => IsAdmin(u) \/ row.owner = u
    /\ row.scope \in {"WORKSPACE", "PROJECT"} => IsAdmin(u) \/ Member(u)
    /\ row.scope = "CONVERSATION" =>
          IsAdmin(u) \/ OwnConversation(u, row) \/ (SharedConversation(row) /\ Member(u))
\* The one of update_book, with require_book_writer before it.
Updatable(u, row) ==
    /\ libRole[u] # "VIEWER" /\ row.kind # "none"
    /\ row.restricted \/ row.scope = "AGENT" => IsAdmin(u)
    /\ row.scope \in {"USER", "PRIVATE"} => IsAdmin(u) \/ row.owner = u
    /\ row.scope \in {"WORKSPACE", "PROJECT"} => IsAdmin(u) \/ Editor(u)
    /\ row.scope = "CONVERSATION" =>
          IsAdmin(u) \/ OwnConversation(u, row) \/ (SharedConversation(row) /\ Editor(u))
    /\ IsAdmin(u) \/ (row.creator = u /\ row.user_provided /\ row.scope # "GLOBAL")
Deletable(u, row) == row.kind # "none" /\ (IsAdmin(u) \/ row.creator = u)
\* lexical_search of the library_search tool: no role, no conversations.
ToolFinds(u, row) ==
    /\ row.kind # "none" /\ ~row.restricted /\ row.scope \notin {"AGENT", "CONVERSATION"}
    /\ row.scope \in {"USER", "PRIVATE"} => row.owner = u
    /\ row.scope \in {"WORKSPACE", "PROJECT"} => Member(u)
Listed(u) == {b \in BookIds : Readable(u, shelf[b])}
-----------------------------------------------------------------------------
\* Every search under way may now see two states of the rows.
Disturb == search' = [u \in LibUsers |-> [search[u] EXCEPT !.undisturbed = search[u].pc = "idle"]]
Write(b, row) ==
    /\ libOps < MaxLibOps /\ libOps' = libOps + 1
    /\ shelf' = [shelf EXCEPT ![b] = row] /\ embedded' = [embedded EXCEPT ![b] = 0]
    /\ Disturb /\ UNCHANGED <<libRole, membership, loads, roleChanges>>

CreateBook(u, b, row) ==
    /\ shelf[b].kind = "none" /\ MayCreate(u, row)
    /\ Write(b, [row EXCEPT !.owner = OwnerOf(u, row.scope), !.creator = u, !.chunks = ChunkText(row.length)])
    /\ UNCHANGED target
\* Locked by SELECT FOR UPDATE; chunks are deleted, with their vectors, and
\* inserted again.
UpdateBook(u, b, length, expected_revision) ==
    /\ Updatable(u, shelf[b]) /\ shelf[b].revision = expected_revision
    /\ Write(b, [shelf[b] EXCEPT !.length = length, !.revision = @ + 1, !.chunks = ChunkText(length)])
    /\ UNCHANGED target
DeleteBook(u, b) == Deletable(u, shelf[b]) /\ Write(b, NoBook) /\ UNCHANGED target
\* create_library_note names nine parameters and binds eight: the INSERT, and
\* with it the library_add tool, fails.
LibraryAdd(u) == UNCHANGED libvars

\* Triggers on skills and mcp_servers, and the installer of plugins: the
\* companion book comes and goes with its row, without chunks; a new
\* description replaces its text, and nothing else of it.
CompanionInsert(b, k) ==
    /\ target[k] = "none" /\ shelf[b].kind = "none" /\ target' = [target EXCEPT ![k] = "present"]
    /\ Write(b, [NoBook EXCEPT !.kind = k, !.revision = 1, !.ws = k = "SKILL",
                               !.scope = IF k = "SKILL" THEN "WORKSPACE" ELSE "PROFILE"])
CompanionDelete(b, k) ==
    /\ target[k] # "none" /\ target' = [target EXCEPT ![k] = "none"]
    /\ \/ shelf[b].kind = k /\ Write(b, NoBook)
       \/ /\ \A c \in BookIds : shelf[c].kind # k
          /\ UNCHANGED <<shelf, libRole, membership, embedded, search, loads, libOps, roleChanges>>
CompanionSync(b, k, length) ==
    /\ k # "PLUGIN" /\ target[k] # "none" /\ shelf[b].kind = k
    /\ shelf' = [shelf EXCEPT ![b].length = length]
    /\ Disturb /\ UNCHANGED <<target, libRole, membership, embedded, loads, libOps, roleChanges>>
ActivateTarget(k) ==
    /\ target[k] = "present" /\ target' = [target EXCEPT ![k] = "active"]
    /\ UNCHANGED <<shelf, libRole, membership, embedded, search, loads, libOps, roleChanges>>
\* The embedding queue (module EmbeddingJobs) reaches the current revision.
Embed(b) ==
    /\ shelf[b].chunks # {} /\ embedded' = [embedded EXCEPT ![b] = shelf[b].revision]
    /\ UNCHANGED <<shelf, target, libRole, membership, search, loads, libOps, roleChanges>>
ChangeRole(u, role, member) ==
    /\ roleChanges < MaxRoleChanges /\ roleChanges' = roleChanges + 1
    /\ libRole' = [libRole EXCEPT ![u] = role] /\ membership' = [membership EXCEPT ![u] = member]
    /\ Disturb /\ UNCHANGED <<shelf, target, embedded, loads, libOps>>
-----------------------------------------------------------------------------
(* search_books: two queries, with a call of the embedding provider between. *)
LexicalQuery(u) ==
    /\ search[u].pc = "idle"
    /\ search' = [search EXCEPT ![u] = [pc |-> "embed", semantic |-> {}, undisturbed |-> TRUE,
                     lexical |-> {b \in BookIds : Readable(u, shelf[b])}]]
    /\ UNCHANGED <<shelf, target, libRole, membership, embedded, loads, libOps, roleChanges>>
\* e.book_revision = b.revision
SemanticQuery(u) ==
    /\ search[u].pc = "embed"
    /\ search' = [search EXCEPT ![u].pc = "answered", ![u].semantic =
                     {b \in BookIds : Readable(u, shelf[b]) /\ embedded[b] # 0
                                      /\ embedded[b] = shelf[b].revision}]
    /\ UNCHANGED <<shelf, target, libRole, membership, embedded, loads, libOps, roleChanges>>
\* No active embedding model: the lexical results are the answer.
LexicalOnly(u) ==
    /\ search[u].pc = "embed" /\ search' = [search EXCEPT ![u].pc = "answered"]
    /\ UNCHANGED <<shelf, target, libRole, membership, embedded, loads, libOps, roleChanges>>
Results(u) == search[u].lexical \cup search[u].semantic
SearchDone(u) ==
    /\ search[u].pc = "answered" /\ search' = [search EXCEPT ![u] = NoSearch]
    /\ UNCHANGED <<shelf, target, libRole, membership, embedded, loads, libOps, roleChanges>>

\* load_book_content: a companion book is what its row has to offer.
SkillLoads(row)  == row.kind = "SKILL" => target["SKILL"] = "active"
PluginLoads(row) == row.kind = "PLUGIN" => target["PLUGIN"] # "none"
McpLoads(row)    == row.kind = "MCP" => target["MCP"] # "none"  \* and McpPool answers
Loadable(u, b) == Readable(u, shelf[b]) /\ SkillLoads(shelf[b]) /\ PluginLoads(shelf[b]) /\ McpLoads(shelf[b])
Counter(kind) == CASE kind = "SKILL" -> "skill" [] kind = "MCP" -> "mcp"
                   [] kind = "PLUGIN" -> "plugin" [] OTHER -> "source"
\* Mutant: the loads of an executor are not counted against their limit.
LoadLeftAlways == TRUE
LoadLeft == loads.books_loaded < MAX_LOADS
\* The library_load tool; the executor's metrics start again with a takeover.
LibraryLoad(u, b) ==
    /\ LoadLeft /\ Loadable(u, b)
    /\ loads' = [loads EXCEPT !.books_loaded = @ + 1, ![Counter(shelf[b].kind)] = @ + 1]
    /\ UNCHANGED <<shelf, target, libRole, membership, embedded, search, libOps, roleChanges>>
NewExecutor ==
    loads' = NoLoads /\ UNCHANGED <<shelf, target, libRole, membership, embedded, search, libOps, roleChanges>>

Rows == [kind : {"SOURCE"}, scope : Scopes, restricted : BOOLEAN, owner : {"nobody"}, creator : {"nobody"},
         ws : BOOLEAN, conv : {"none", "private", "workspace"}, user_provided : BOOLEAN,
         length : Lengths, revision : {1}, chunks : {{}}]
LibraryNext ==
    \/ \E u \in LibUsers :
          \/ LexicalQuery(u) \/ SemanticQuery(u) \/ LexicalOnly(u) \/ SearchDone(u) \/ LibraryAdd(u)
          \/ \E b \in BookIds :
                \/ \E row \in Rows : CreateBook(u, b, row)
                \/ \E l \in Lengths, n \in 1 .. MaxLibOps : UpdateBook(u, b, l, n)
                \/ DeleteBook(u, b) \/ LibraryLoad(u, b)
          \/ \E r \in {"ADMIN", "MEMBER", "VIEWER"}, m \in {"none", "VIEWER", "EDITOR"} : ChangeRole(u, r, m)
    \/ \E k \in Companions : ActivateTarget(k)
                             \/ \E b \in BookIds : CompanionInsert(b, k) \/ CompanionDelete(b, k)
                                                     \/ \E l \in Lengths : CompanionSync(b, k, l)
    \/ \E b \in BookIds : Embed(b)
    \/ NewExecutor
LibrarySpec == LibraryInit /\ [][LibraryNext]_libvars
-----------------------------------------------------------------------------
LibraryTypeOK ==
    /\ \A b \in BookIds : shelf[b].scope \in Scopes /\ embedded[b] \in 0 .. shelf[b].revision
    /\ loads.books_loaded = loads.source + loads.skill + loads.mcp + loads.plugin
    /\ loads.books_loaded <= MAX_LOADS
(***************************************************************************)
(* The rights that create_book, update_book, get_book, search_books and    *)
(* the library_search tool each spell out in a query of their own agree:   *)
(* whoever could create a book of theirs again can read and change it,     *)
(* whoever may change a book may read it, the tool of a run finds only     *)
(* what its user may read, and a search that nothing disturbed answers     *)
(* exactly the books that list_books shows and get_book opens.             *)
(***************************************************************************)
RightsAgree ==
    \A u \in LibUsers :
        /\ \A b \in BookIds :
              LET row == shelf[b] IN
              /\ row.kind = "SOURCE" /\ row.creator = u /\ MayCreate(u, row)
                     => Readable(u, row) /\ (row.user_provided \/ IsAdmin(u) => Updatable(u, row))
              /\ Updatable(u, row) \/ ToolFinds(u, row) => Readable(u, row)
        /\ search[u].pc = "answered" /\ search[u].undisturbed
               => Results(u) = Listed(u)
(***************************************************************************)
(* The chunks of a book that somebody wrote are those of its text, also    *)
(* after any number of updates: together they cover every character, and   *)
(* each but the first begins ChunkOverlap characters before the end of     *)
(* another, so that a passage at a boundary is whole in one of them.       *)
(***************************************************************************)
ChunksCoverText ==
    \A b \in BookIds : shelf[b].kind = "SOURCE" =>
        LET cs == shelf[b].chunks IN
        /\ \A p \in 1 .. shelf[b].length : \E c \in cs : c[1] < p /\ p <= c[2]
        /\ \A c \in cs : /\ c[1] < c[2] /\ c[2] <= shelf[b].length /\ c[2] - c[1] <= ChunkChars
                         /\ c[1] # 0 => \E d \in cs : d[1] < c[1] /\ d[2] = c[1] + ChunkOverlap
        /\ Cardinality(cs) = Cardinality({c[1] : c \in cs})
=============================================================================

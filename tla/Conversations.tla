--------------------------- MODULE Conversations ----------------------------
(***************************************************************************)
(* Workspaces (api.rs) and the conversations in them (conversation_api.rs):*)
(* creation, forks, deletion, pinned books, and the CONVERSATION book that *)
(* projects the messages of each conversation into the library.            *)
(*                                                                         *)
(* Handlers interleave at their statements: what one authorises or counts  *)
(* may have changed when it writes.  FOR UPDATE locks and the foreign keys *)
(* of the schema are what holds between the two.  Runs of a conversation   *)
(* are the subject of RunEngine.                                           *)
(***************************************************************************)
EXTENDS Naturals, Sequences, FiniteSets

CONSTANTS ConvIds,        \* conversation ids, positive numbers
          SpaceIds,       \* workspace ids
          ConvUsers,      \* users of the profile
          ConvRole,       \* ConvRole[u]: OWNER, ADMIN, MEMBER or VIEWER
          ConvRequests,   \* concurrent handlers, positive numbers
          MaxConvMessages,\* bound: messages of a conversation
          MaxConvOps,     \* bound: handlers started
          MaxMemberEdits  \* bound: changes of memberships
ASSUME ConversationsAssumption == MaxConvMessages \in Nat

NoConv == 0
NoSpace == "none"

VARIABLES space,      \* workspace ids with their description, "" at first
          member,     \* member[w][u]: access of a member, or "none"
          convo,      \* convo[c]: the row of conversations
          texts,      \* texts[c]: the messages of c in order of their ordinals
          book,       \* book[c]: the CONVERSATION book, and the body it holds
          pins,       \* conversation_pinned_books, of projections
          creq,       \* creq[q]: a handler between two statements
          convOps, memberEdits

cvars == <<space, member, convo, texts, book, pins, creq, convOps, memberEdits>>

NoConvRow == [live |-> FALSE, used |-> FALSE, space |-> NoSpace, creator |-> "none",
              from |-> NoConv, at |-> 0, copied |-> 0]
NoBookRow == [there |-> FALSE, body |-> <<>>]
IdleRequest == [pc |-> "idle", user |-> "none", conv |-> NoConv, space |-> NoSpace, at |-> 0]

ConversationsInit ==
    /\ space = [w \in {} |-> ""]
    /\ member = [w \in SpaceIds |-> [u \in ConvUsers |-> "none"]]
    /\ convo = [c \in ConvIds |-> NoConvRow]
    /\ texts = [c \in ConvIds |-> <<>>]
    /\ book = [c \in ConvIds |-> NoBookRow]
    /\ pins = {}
    /\ creq = [q \in ConvRequests |-> IdleRequest]
    /\ convOps = 0 /\ memberEdits = 0

(***************************************************************************)
(* Rights                                                                  *)
(***************************************************************************)
Administers(u) == ConvRole[u] \in {"OWNER", "ADMIN"}

RequireWriter(u) == ConvRole[u] # "VIEWER"

AuthorizeWorkspace(u, w) ==
    w = NoSpace \/ ( w \in DOMAIN space
                     /\ (Administers(u) \/ member[w][u] \in {"OWNER", "EDITOR"}) )

(* The clause every statement on a conversation repeats *)
Reaches(u, c, levels) ==
    /\ convo[c].live
    /\ \/ Administers(u)
       \/ (convo[c].space = NoSpace /\ convo[c].creator = u)
       \/ (convo[c].space # NoSpace /\ member[convo[c].space][u] \in levels)

Members == {"OWNER", "EDITOR", "VIEWER"}
Writers == {"OWNER", "EDITOR"}

(* authorize_conversation asks an OWNER or ADMIN for nothing *)
AuthorizeConversation(u, c) ==
    RequireWriter(u) /\ (Administers(u) \/ Reaches(u, c, Writers))

(***************************************************************************)
(* Rows                                                                    *)
(***************************************************************************)
(* A row locked FOR UPDATE by a fork in progress *)
(* Mutant: the fork reads its source without the lock *)
ConversationFreeAlways(c) == TRUE
ConversationFree(c) == \A q \in ConvRequests : ~(creq[q].pc = "fork" /\ creq[q].conv = c)

RebuildProjection(c) == texts'[c]

InsertConversation(c, u, w, from, at, copy) ==
    /\ ~convo[c].used /\ \A d \in ConvIds : d < c => convo[d].used
    /\ w = NoSpace \/ w \in DOMAIN space
    /\ convo' = [convo EXCEPT ![c] =
         [live |-> TRUE, used |-> TRUE, space |-> w, creator |-> u, from |-> from, at |-> at,
          copied |-> Len(copy)]]
    /\ texts' = [texts EXCEPT ![c] = copy]

(***************************************************************************)
(* Handlers.  Each starts on an idle request, which it leaves idle.        *)
(***************************************************************************)
Start(q) ==
    /\ creq[q].pc = "idle" /\ \A p \in ConvRequests : p < q => creq[p].pc # "idle"
    /\ convOps < MaxConvOps /\ convOps' = convOps + 1

Wait(q, request) == creq' = [creq EXCEPT ![q] = request]

Answer(q) == creq' = [creq EXCEPT ![q] = IdleRequest]

CreateWorkspace(q, u, w) ==
    /\ Start(q) /\ RequireWriter(u) /\ w \notin DOMAIN space
    /\ space' = [v \in DOMAIN space \cup {w} |-> IF v = w THEN "" ELSE space[v]]
    /\ member' = [member EXCEPT ![w] = [v \in ConvUsers |-> IF v = u THEN "OWNER" ELSE "none"]]
    /\ UNCHANGED <<convo, texts, book, pins, creq, memberEdits>>

(* COALESCE: a field that is absent or blank keeps its value *)
UpdateWorkspace(q, u, w, description) ==
    /\ Start(q) /\ Administers(u) /\ w \in DOMAIN space
    /\ space' = [space EXCEPT ![w] = IF description = "" THEN @ ELSE description]
    /\ UNCHANGED <<member, convo, texts, book, pins, creq, memberEdits>>

(* delete_workspace counts the conversations of the workspace ... *)
CountConversations(q, u, w) ==
    /\ Start(q) /\ Administers(u) /\ w \in DOMAIN space
    /\ \A c \in ConvIds : ~(convo[c].live /\ convo[c].space = w)
    /\ Wait(q, [IdleRequest EXCEPT !.pc = "delete_space", !.space = w])
    /\ UNCHANGED <<space, member, convo, texts, book, pins, memberEdits>>

(* ... and deletes it: a conversation loses its workspace (SET NULL), a    *)
(* book that names the workspace goes with it (CASCADE)                    *)
DeleteWorkspace(q) ==
    /\ creq[q].pc = "delete_space"
    /\ LET w == creq[q].space
           orphans == {c \in ConvIds : convo[c].live /\ convo[c].space = w}
       IN /\ space' = [v \in DOMAIN space \ {w} |-> space[v]]
          /\ member' = [member EXCEPT ![w] = [u \in ConvUsers |-> "none"]]
          /\ convo' = [c \in ConvIds |-> IF c \in orphans THEN [convo[c] EXCEPT !.space = NoSpace]
                                         ELSE convo[c]]
          /\ book' = [c \in ConvIds |-> IF c \in orphans THEN NoBookRow ELSE book[c]]
          /\ pins' = {p \in pins : p[2] \notin orphans}
    /\ Answer(q)
    /\ UNCHANGED <<texts, convOps, memberEdits>>

CheckCreate(q, u, w) ==
    /\ Start(q) /\ RequireWriter(u) /\ AuthorizeWorkspace(u, w)
    /\ Wait(q, [IdleRequest EXCEPT !.pc = "create", !.user = u, !.space = w])
    /\ UNCHANGED <<space, member, convo, texts, book, pins, memberEdits>>

CreateConversation(q, c) ==
    /\ creq[q].pc = "create"
    /\ InsertConversation(c, creq[q].user, creq[q].space, NoConv, 0, <<>>)
    /\ book' = [book EXCEPT ![c] = [there |-> TRUE, body |-> <<>>]]
    /\ Answer(q)
    /\ UNCHANGED <<space, member, pins, convOps, memberEdits>>

(* The foreign key refuses a workspace deleted since the check *)
CreateRefused(q) ==
    /\ creq[q].pc = "create" /\ creq[q].space \notin DOMAIN space \cup {NoSpace}
    /\ Answer(q)
    /\ UNCHANGED <<space, member, convo, texts, book, pins, convOps, memberEdits>>

(* fetch_one on the book: without one the append fails as a whole *)
AppendText(q, u, c) ==
    /\ Start(q) /\ RequireWriter(u) /\ Reaches(u, c, Writers) /\ ConversationFree(c)
    /\ Len(texts[c]) < MaxConvMessages /\ book[c].there
    /\ texts' = [texts EXCEPT ![c] = Append(@, <<c, Len(@) + 1>>)]
    /\ book' = [book EXCEPT ![c].body = RebuildProjection(c)]
    /\ UNCHANGED <<space, member, convo, pins, creq, memberEdits>>

(* fork_conversation locks its source and reads the boundary: the message  *)
(* it was given, or the last one, or none (0) in an empty conversation     *)
BeginFork(q, u, c, at) ==
    /\ Start(q) /\ RequireWriter(u) /\ Reaches(u, c, Writers) /\ ConversationFree(c)
    /\ at \in 1..Len(texts[c]) \/ (at = 0 /\ texts[c] = <<>>)
    /\ Wait(q, [IdleRequest EXCEPT !.pc = "fork", !.user = u, !.conv = c, !.at = at])
    /\ UNCHANGED <<space, member, convo, texts, book, pins, memberEdits>>

(* The messages up to the boundary; all of them when there is none *)
Copied(c, at) == IF at = 0 THEN texts[c] ELSE SubSeq(texts[c], 1, at)

ForkConversation(q, c) ==
    /\ creq[q].pc = "fork"
    /\ LET source == creq[q].conv
           at == creq[q].at
       IN /\ InsertConversation(c, creq[q].user, convo[source].space, source, at,
                                Copied(source, at))
          /\ book' = [book EXCEPT ![c] = [there |-> TRUE, body |-> RebuildProjection(c)]]
    /\ Answer(q)
    /\ UNCHANGED <<space, member, pins, convOps, memberEdits>>

(* An error of a statement ends the transaction *)
ForkFails(q) ==
    /\ creq[q].pc = "fork"
    /\ Answer(q)
    /\ UNCHANGED <<space, member, convo, texts, book, pins, convOps, memberEdits>>

(* Messages, book and pins go with the row; forks forget where they began *)
DeleteConversation(q, u, c) ==
    /\ Start(q) /\ RequireWriter(u) /\ Reaches(u, c, {"OWNER"}) /\ ConversationFree(c)
    /\ convo' = [d \in ConvIds |->
         IF d = c THEN [NoConvRow EXCEPT !.used = TRUE]
         ELSE IF convo[d].from = c THEN [convo[d] EXCEPT !.from = NoConv, !.at = 0]
         ELSE convo[d]]
    /\ texts' = [texts EXCEPT ![c] = <<>>]
    /\ book' = [book EXCEPT ![c] = NoBookRow]
    /\ pins' = {p \in pins : p[1] # c /\ p[2] # c}
    /\ UNCHANGED <<space, member, creq, memberEdits>>

(* pin_book: authorised on the conversation and on the book b, then a      *)
(* statement of its own that the foreign keys may still refuse             *)
CheckPin(q, u, c, b) ==
    /\ Start(q) /\ AuthorizeConversation(u, c)
    /\ book[b].there /\ Reaches(u, b, Members)
    /\ Wait(q, [IdleRequest EXCEPT !.pc = "pin", !.conv = c, !.at = b])
    /\ UNCHANGED <<space, member, convo, texts, book, pins, memberEdits>>

PinBook(q) ==
    /\ creq[q].pc = "pin"
    /\ pins' = IF convo[creq[q].conv].live /\ book[creq[q].at].there
               THEN pins \cup {<<creq[q].conv, creq[q].at>>} ELSE pins
    /\ Answer(q)
    /\ UNCHANGED <<space, member, convo, texts, book, convOps, memberEdits>>

UnpinBook(q, u, c, b) ==
    /\ Start(q) /\ AuthorizeConversation(u, c) /\ <<c, b>> \in pins
    /\ pins' = pins \ {<<c, b>>}
    /\ UNCHANGED <<space, member, convo, texts, book, creq, memberEdits>>

(* Memberships are edited in the database *)
EditMember(w, u, access) ==
    /\ memberEdits < MaxMemberEdits /\ memberEdits' = memberEdits + 1
    /\ w \in DOMAIN space /\ member[w][u] # access
    /\ member' = [member EXCEPT ![w][u] = access]
    /\ UNCHANGED <<space, convo, texts, book, pins, creq, convOps>>

ConversationsNext ==
    \/ \E q \in ConvRequests :
         \/ DeleteWorkspace(q) \/ CreateRefused(q) \/ ForkFails(q) \/ PinBook(q)
         \/ \E c \in ConvIds : CreateConversation(q, c) \/ ForkConversation(q, c)
         \/ \E u \in ConvUsers :
              \/ \E w \in SpaceIds : CreateWorkspace(q, u, w) \/ CountConversations(q, u, w)
              \/ \E w \in SpaceIds, d \in {"", "d"} : UpdateWorkspace(q, u, w, d)
              \/ \E w \in SpaceIds \cup {NoSpace} : CheckCreate(q, u, w)
              \/ \E c \in ConvIds :
                   \/ AppendText(q, u, c) \/ DeleteConversation(q, u, c)
                   \/ \E at \in 0..MaxConvMessages : BeginFork(q, u, c, at)
                   \/ \E b \in ConvIds : CheckPin(q, u, c, b) \/ UnpinBook(q, u, c, b)
    \/ \E w \in SpaceIds, u \in ConvUsers, access \in {"none", "VIEWER"} : EditMember(w, u, access)

ConversationsSpec == ConversationsInit /\ [][ConversationsNext]_cvars

(***************************************************************************)
(* Properties                                                              *)
(***************************************************************************)
(* The rows of the schema, with its foreign keys *)
ConversationsTypeOK ==
    /\ DOMAIN space \subseteq SpaceIds
    /\ member \in [SpaceIds -> [ConvUsers -> {"none", "VIEWER", "EDITOR", "OWNER"}]]
    /\ \A c \in ConvIds :
         /\ convo[c].space \in DOMAIN space \cup {NoSpace}
         /\ book[c].there => convo[c].live
         /\ Len(texts[c]) <= MaxConvMessages
    /\ pins \subseteq ConvIds \X ConvIds
    /\ \A p \in pins : convo[p[1]].live /\ book[p[2]].there

(* fork_conversation: a fork was given the messages of its source up to    *)
(* the one it names as its origin and no other, although the source may be *)
(* appended to, or deleted, around it; and the library shows each          *)
(* conversation as it stands, the forks too.                               *)
ForkIsPrefix ==
    \A c \in ConvIds :
      LET origin == convo[c].from
          at == convo[c].at
      IN /\ origin # NoConv =>
              /\ convo[c].copied = at
              /\ SubSeq(texts[c], 1, at) = SubSeq(texts[origin], 1, at)
         /\ book[c].there => book[c].body = texts[c]

=============================================================================

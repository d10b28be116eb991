------------------------------ MODULE WebChat ------------------------------
(***************************************************************************)
(* The chat page of the web application (app.rs, ChatPage and the tasks it *)
(* spawns).  Every click starts tasks that wait for answers of the server; *)
(* meanwhile the user opens another conversation, goes back, sends,        *)
(* reloads the page or signs out.  A task may touch the page only while it *)
(* is current: its page is mounted, no later click has moved the           *)
(* generation on, and its conversation is the selected one.  What has to   *)
(* survive a reload is kept in the session storage of the tab.  The server *)
(* is external here: RunEngine models its turns, EventLog its events.      *)
(* Titles, status lines and the rendering are left out.                    *)
(***************************************************************************)
EXTENDS Naturals, Sequences, FiniteSets
CONSTANTS Chats,          \* ids of conversations, existing or still to be created
          People,         \* users who may sign in
          Typed,          \* what is typed
          PollLimit,      \* 200 events of an answer
          MaxClicks,      \* bound: what the users do
          MaxUpsets,      \* bound: reloads, sign-ins, requests or answers that are lost
          MaxTurns,       \* bound: runs of the server
          MaxRunEvents    \* bound: events of a run before its last one

VARIABLES chat,       \* the signals of the mounted ChatPage
          tab,        \* the session storage
          tasks,      \* the tasks that wait for an answer or a turn
          owner,      \* owner[c]: who created conversation c
          turns,      \* the runs of the server, in the order of their creation
          unsettled,  \* history: the last message sent, until it is answered or edited
          clicks, upsets
chatvars == <<chat, tab, tasks, owner, turns, unsettled, clicks, upsets>>
serverVars == <<owner, turns>>
webBudget == <<clicks, upsets>>

Nobody == "nobody"
NoChat == "none"
ASSUME ChatAssumption == /\ Nobody \notin People /\ NoChat \notin Chats
                         /\ People # {} /\ PollLimit \in Nat

NoSubmission == [user |-> Nobody, chat |-> NoChat, id |-> 0, text |-> ""]
NoRunSession == [user |-> Nobody, chat |-> NoChat, run |-> 0]

\* spawn_local: a task starts with its request.
NewTask(kind, p, run) ==
    [kind |-> kind, life |-> p.life, gen |-> p.generation, chat |-> p.selected, run |-> run,
     sub |-> NoSubmission, pc |-> "ask", res |-> "none", msgs |-> <<>>, num |-> 0, cursor |-> 0,
     seen |-> "none"]

-----------------------------------------------------------------------------
(***************************************************************************)
(* Mounting the page                                                       *)
(***************************************************************************)
\* ChatPage: what was stored by this user is restored, and the run of the
\* restored conversation is looked up again.
Mounted(u, life) ==
    LET sub == IF tab.pending.user = u THEN tab.pending ELSE NoSubmission
        session == IF tab.run.user = u THEN tab.run ELSE NoRunSession
        found == session # NoRunSession
    IN [user |-> u, life |-> life, leaving |-> FALSE, selected |-> session.chat, messages |-> <<>>,
        draft |-> IF found /\ session.chat # sub.chat THEN "" ELSE sub.text,
        streamed |-> <<>>, active_run |-> session.run, resolving_run |-> found, submitting |-> FALSE,
        pending |-> sub, generation |-> IF found THEN 1 ELSE 0]
RestoreTasks(p) ==
    IF p.resolving_run THEN {NewTask("load", p, 0), NewTask("resolve", p, 0)} ELSE {}

\* Users are alike, and so are conversations.
FirstUser == CHOOSE u \in People : TRUE
ToBeCreated == CHOOSE c \in Chats : TRUE
ChatInit ==
    /\ tab = [pending |-> NoSubmission, run |-> NoRunSession]
    /\ chat = Mounted(FirstUser, 1)
    /\ owner = [c \in Chats |-> IF c = ToBeCreated THEN Nobody ELSE FirstUser]
    /\ tasks = {} /\ turns = <<>> /\ unsettled = NoSubmission
    /\ clicks = 0 /\ upsets = 0

Click == clicks < MaxClicks /\ clicks' = clicks + 1 /\ UNCHANGED upsets
WebFault == upsets < MaxUpsets /\ upsets' = upsets + 1
PageLoad == WebFault /\ UNCHANGED clicks
SignedIn == chat.user # Nobody

\* A reload ends every task; the cookie still signs the user in.
Reload ==
    /\ SignedIn /\ PageLoad
    /\ chat' = Mounted(chat.user, chat.life + 1)
    /\ tasks' = RestoreTasks(chat')
    /\ UNCHANGED <<tab, unsettled, serverVars>>

\* logout: the storage is cleared at once, the page goes when the answer comes.
SignOut ==
    /\ SignedIn /\ ~chat.leaving /\ Click
    /\ tab' = [pending |-> NoSubmission, run |-> NoRunSession]
    /\ chat' = [chat EXCEPT !.leaving = TRUE]
    /\ unsettled' = NoSubmission
    /\ UNCHANGED <<tasks, serverVars>>
SignedOut ==
    /\ chat.leaving
    /\ chat' = [chat EXCEPT !.user = Nobody, !.leaving = FALSE]
    /\ unsettled' = NoSubmission
    /\ UNCHANGED <<tab, tasks, serverVars, webBudget>>
SignIn(u) ==
    /\ ~SignedIn /\ PageLoad
    /\ chat' = Mounted(u, chat.life + 1)
    /\ tasks' = tasks \cup RestoreTasks(chat')
    /\ UNCHANGED <<tab, unsettled, serverVars>>

-----------------------------------------------------------------------------
(***************************************************************************)
(* Clicks                                                                  *)
(***************************************************************************)
\* open_conversation, from the list that is shown while none is selected.
OpenConversation(c) ==
    /\ SignedIn /\ chat.selected = NoChat /\ owner[c] = chat.user /\ Click
    /\ chat' = [chat EXCEPT !.generation = @ + 1, !.selected = c, !.messages = <<>>, !.streamed = <<>>,
                            !.active_run = 0, !.resolving_run = TRUE, !.submitting = FALSE,
                            !.draft = IF chat.pending.chat = c THEN chat.pending.text ELSE ""]
    /\ tasks' = tasks \cup {NewTask("load", chat', 0), NewTask("resolve", chat', 0)}
    /\ UNCHANGED <<tab, unsettled, serverVars>>

\* "All conversations"
BackToList ==
    /\ SignedIn /\ chat.selected # NoChat /\ Click
    /\ chat' = [chat EXCEPT !.generation = @ + 1, !.selected = NoChat, !.streamed = <<>>,
                            !.active_run = 0, !.resolving_run = FALSE, !.submitting = FALSE]
    /\ UNCHANGED <<tab, tasks, unsettled, serverVars>>

NameConversation ==
    /\ SignedIn /\ chat.selected = NoChat /\ Click
    /\ tasks' = tasks \cup {[NewTask("create", chat, 0) EXCEPT !.sub.user = chat.user]}
    /\ UNCHANGED <<chat, tab, unsettled, serverVars>>

ComposerFree == ~chat.submitting /\ ~chat.resolving_run /\ chat.active_run = 0

\* clear_pending_submission_if_matching
ClearedPending(sub) == IF tab.pending = sub THEN [tab EXCEPT !.pending = NoSubmission] ELSE tab

\* on:input of the composer: an edited text gives up the key of the last one.
Input(text) ==
    LET edited == chat.pending # NoSubmission /\ text # chat.pending.text IN
    /\ SignedIn /\ chat.selected # NoChat /\ ComposerFree /\ text # chat.draft
    /\ chat' = [chat EXCEPT !.draft = text, !.pending = IF edited THEN NoSubmission ELSE @]
    /\ tab' = IF edited THEN ClearedPending(chat.pending) ELSE tab
    /\ unsettled' = IF text # unsettled.text THEN NoSubmission ELSE unsettled
    /\ UNCHANGED <<tasks, serverVars, webBudget>>

\* reusable_submission: the id of the same text in the same conversation.
Key(sub, c, text) == IF sub.chat = c /\ sub.text = text THEN sub.id ELSE clicks + 1

\* send
Send ==
    LET sub == [user |-> chat.user, chat |-> chat.selected, text |-> chat.draft,
                id |-> Key(chat.pending, chat.selected, chat.draft)]
    IN  /\ SignedIn /\ ComposerFree /\ chat.selected # NoChat /\ chat.draft # "" /\ Click
        /\ tab' = [tab EXCEPT !.pending = sub]
        /\ chat' = [chat EXCEPT !.pending = sub, !.submitting = TRUE, !.generation = @ + 1, !.streamed = <<>>]
        /\ tasks' = tasks \cup {[NewTask("send", chat', 0) EXCEPT !.sub = sub]}
        /\ unsettled' = IF unsettled.chat = sub.chat /\ unsettled.text = sub.text THEN unsettled ELSE sub
        /\ UNCHANGED serverVars

\* cancel, answered with a line of status only
CancelRun ==
    LET r == chat.active_run IN
    /\ SignedIn /\ chat.selected # NoChat /\ r # 0 /\ ~turns[r].cancel /\ Click
    /\ turns' = [turns EXCEPT ![r].cancel = TRUE]
    /\ UNCHANGED <<chat, tab, tasks, owner, unsettled>>

-----------------------------------------------------------------------------
(***************************************************************************)
(* The server                                                              *)
(***************************************************************************)
ActiveRuns(c) == {r \in DOMAIN turns : turns[r].chat = c /\ turns[r].state = "active"}

\* list_messages: 2r - 1 is the question of run r, 2r its answer.
InTranscript(c, i) == LET r == (i + 1) \div 2
                IN turns[r].chat = c /\ (i % 2 = 0 => turns[r].state = "completed")
Transcript(c) ==
    LET upto[i \in 0 .. 2 * Len(turns)] ==
            IF i = 0 THEN << >>
            ELSE IF InTranscript(c, i) THEN Append(upto[i - 1], i) ELSE upto[i - 1]
    IN  upto[2 * Len(turns)]

Replaced(t, u) == tasks' = (tasks \ {t}) \cup {u}
TaskEnds(t) == tasks' = tasks \ {t}

\* start_turn: a submission that was stored is answered with its run, and a
\* conversation takes one turn at a time.
StartTurn(t) ==
    LET known == {r \in DOMAIN turns : turns[r].sub = t.sub}
        told == [t EXCEPT !.pc = "got", !.res = "ok"]
    IN  \/ /\ \E r \in known : Replaced(t, [told EXCEPT !.run = r])
           /\ UNCHANGED <<turns, upsets>>
        \/ /\ known = {} /\ ActiveRuns(t.chat) # {}
           /\ Replaced(t, [told EXCEPT !.res = "error"]) /\ UNCHANGED <<turns, upsets>>
        \/ /\ known = {} /\ ActiveRuns(t.chat) = {} /\ Len(turns) < MaxTurns
           /\ turns' = Append(turns, [chat |-> t.chat, sub |-> t.sub, state |-> "active",
                                      cancel |-> FALSE, log |-> <<>>])
           /\ \/ Replaced(t, [told EXCEPT !.run = Len(turns) + 1]) /\ UNCHANGED upsets
              \/ WebFault /\ Replaced(t, [told EXCEPT !.res = "error"])

\* Mutant: the generation is not compared.
TaskIsCurrentInChat(t) == SignedIn /\ t.life = chat.life /\ t.chat = chat.selected
\* conversation_task_is_current and run_task_is_current
TaskIsCurrent(t) == SignedIn /\ t.life = chat.life /\ t.gen = chat.generation /\ t.chat = chat.selected
RunTaskIsCurrent(t) == TaskIsCurrent(t) /\ t.run = chat.active_run

\* What the requests of the other tasks are answered, while they are current.
Read(t) ==
    LET told == [t EXCEPT !.pc = "got", !.res = "ok"] IN
    CASE t.kind \in {"load", "reload"} -> {[told EXCEPT !.msgs = Transcript(t.chat)]}
      [] t.kind = "resolve" ->
            {[told EXCEPT !.run = r] : r \in IF ActiveRuns(t.chat) = {} THEN {0} ELSE ActiveRuns(t.chat)}
      [] t.kind = "follow" -> {[told EXCEPT !.num = Len(turns[t.run].log)]}
      [] t.kind = "status" -> {[told EXCEPT !.res = turns[t.run].state]}
      [] OTHER -> {}
Respond(t) ==
    /\ t.pc = "ask"
    /\ \/ t.kind = "send" /\ StartTurn(t) /\ UNCHANGED owner
       \/ /\ t.kind = "create" /\ UNCHANGED <<turns, upsets>>
          /\ \E c \in Chats : /\ owner[c] = Nobody /\ owner' = [owner EXCEPT ![c] = t.sub.user]
                              /\ Replaced(t, [t EXCEPT !.pc = "got", !.res = "ok", !.chat = c])
       \/ TaskIsCurrent(t) /\ (\E u \in Read(t) : Replaced(t, u)) /\ UNCHANGED <<serverVars, upsets>>
       \/ /\ WebFault /\ UNCHANGED serverVars /\ (TaskIsCurrent(t) \/ t.kind = "send")
          /\ \E res \in {"error"} \cup (IF t.kind \in {"resolve", "follow", "status"} THEN {"lost"} ELSE {}) :
                Replaced(t, [t EXCEPT !.pc = "got", !.res = res])
    /\ UNCHANGED <<chat, tab, unsettled, clicks>>

Emit(r) ==
    /\ turns[r].state = "active"
    /\ \/ /\ Len(turns[r].log) < MaxRunEvents
          /\ \E e \in {"delta", "reset"} : turns' = [turns EXCEPT ![r].log = Append(@, e)]
       \/ \E s \in {"completed", "failed"} \cup (IF turns[r].cancel THEN {"canceled"} ELSE {}) :
             turns' = [turns EXCEPT ![r].log = Append(@, s), ![r].state = s]
    /\ UNCHANGED <<chat, tab, tasks, owner, unsettled, webBudget>>

-----------------------------------------------------------------------------
(***************************************************************************)
(* The tasks after their answers                                           *)
(***************************************************************************)
Holds(t, kinds) == t.pc = "got" /\ t.kind \in kinds
Untouched == UNCHANGED <<chat, tab, unsettled>>
OnlyPage == UNCHANGED <<serverVars, webBudget>>

Session(r) == [user |-> chat.user, chat |-> chat.selected, run |-> r]

\* Every task but create ends when it finds that it is not current any more.
\* What the server answers to a mere read makes no difference then.
StaleAnswer(t) ==
    /\ \/ Holds(t, {"send"}) /\ ~TaskIsCurrent(t)
       \/ t.kind \in {"load", "reload", "resolve"} /\ ~TaskIsCurrent(t)
       \/ t.kind \in {"follow", "status"} /\ ~RunTaskIsCurrent(t)
    /\ TaskEnds(t) /\ Untouched /\ OnlyPage

\* The rest of send: the message is shown and its run followed.
TurnAnswered(t) ==
    /\ Holds(t, {"send"}) /\ TaskIsCurrent(t)
    /\ \/ /\ t.res = "ok"
          /\ tab' = [ClearedPending(t.sub) EXCEPT !.run = Session(t.run)]
          /\ chat' = [chat EXCEPT !.submitting = FALSE, !.pending = NoSubmission, !.resolving_run = FALSE,
                                  !.draft = IF @ = t.sub.text THEN "" ELSE @,
                                  !.messages = Append(@, 2 * t.run - 1), !.active_run = t.run]
          /\ unsettled' = NoSubmission
          /\ Replaced(t, NewTask("follow", chat', t.run))
       \/ /\ t.res = "error"
          /\ chat' = [chat EXCEPT !.submitting = FALSE]
          /\ TaskEnds(t) /\ UNCHANGED <<tab, unsettled>>
    /\ OnlyPage

\* The rest of create asks only whether the page is still there.
ConversationCreated(t) ==
    /\ Holds(t, {"create"})
    /\ chat' = IF t.res = "ok" /\ SignedIn /\ t.life = chat.life
               THEN [chat EXCEPT !.generation = @ + 1, !.selected = t.chat, !.messages = <<>>,
                                 !.streamed = <<>>, !.active_run = 0, !.resolving_run = FALSE,
                                 !.submitting = FALSE]
               ELSE chat
    /\ TaskEnds(t) /\ UNCHANGED <<tab, unsettled>> /\ OnlyPage

\* load_messages
MessagesLoaded(t) ==
    /\ Holds(t, {"load", "reload"}) /\ TaskIsCurrent(t)
    /\ chat' = [chat EXCEPT !.messages = IF t.res = "ok" THEN t.msgs ELSE @]
    /\ TaskEnds(t) /\ UNCHANGED <<tab, unsettled>> /\ OnlyPage

\* clear_active_run_for_conversation, clear_active_run_if_matching
ClearedRunOf(c) ==
    IF tab.run.user = chat.user /\ tab.run.chat = c THEN [tab EXCEPT !.run = NoRunSession] ELSE tab
ClearedRun(r) == IF tab.run = Session(r) THEN [tab EXCEPT !.run = NoRunSession] ELSE tab

\* resolve_active_run: repeated until somebody answers.
RunResolved(t) ==
    /\ Holds(t, {"resolve"}) /\ TaskIsCurrent(t)
    /\ \/ /\ t.res = "ok" /\ t.run # 0
          /\ chat' = [chat EXCEPT !.active_run = t.run, !.resolving_run = FALSE]
          /\ tab' = [tab EXCEPT !.run = Session(t.run)]
          /\ Replaced(t, NewTask("follow", chat', t.run))
       \/ /\ t.res = "lost" \/ (t.res = "ok" /\ t.run = 0)
          /\ chat' = [chat EXCEPT !.active_run = 0, !.resolving_run = FALSE,
                                  !.selected = IF t.res = "lost" THEN NoChat ELSE @]
          /\ tab' = ClearedRunOf(t.chat)
          /\ TaskEnds(t)
       \/ /\ t.res = "error"
          /\ Replaced(t, [t EXCEPT !.pc = "ask"]) /\ UNCHANGED <<chat, tab>>
    /\ UNCHANGED unsettled /\ OnlyPage

\* follow_run: a page of events, and another one as long as they are full.
Wipes == {"reset", "failed", "canceled"}
EndStates == {"completed", "failed", "canceled"}
TextAfter(before, log, r, k) ==
    CASE log[k] \in Wipes -> << >>
      [] log[k] = "delta" -> Append(before, <<r, k>>)
      [] OTHER -> before
\* What the events of a run from one cursor to the next make of a text.
Streamed(text, r, log, from, to) ==
    LET after[k \in from .. to] == IF k = from THEN text ELSE TextAfter(after[k - 1], log, r, k)
    IN  after[to]
EventsAnswered(t) ==
    LET last == IF t.num > t.cursor + PollLimit THEN t.cursor + PollLimit ELSE t.num
        ends == {k \in t.cursor + 1 .. last : turns[t.run].log[k] \in EndStates}
        full == last - t.cursor = PollLimit
    IN  /\ Holds(t, {"follow"}) /\ RunTaskIsCurrent(t) /\ t.res # "lost"
        /\ \/ /\ t.res = "ok"
              /\ chat' = [chat EXCEPT !.streamed = Streamed(@, t.run, turns[t.run].log, t.cursor, last)]
              /\ Replaced(t, [t EXCEPT !.pc = "ask", !.kind = IF full THEN "follow" ELSE "status",
                                       !.res = "none", !.num = 0, !.cursor = last,
                                       !.seen = IF ends = {} THEN @ ELSE turns[t.run].state])
           \/ /\ t.res = "error" /\ UNCHANGED chat
              /\ Replaced(t, [t EXCEPT !.pc = "ask", !.kind = "status", !.res = "none"])
        /\ UNCHANGED <<tab, unsettled>> /\ OnlyPage

\* The row and the last event must say the same.
SeesEnd(t) == t.res \in EndStates /\ t.seen = t.res
StatusAnswered(t) ==
    /\ Holds(t, {"status"}) /\ RunTaskIsCurrent(t) /\ t.res # "lost"
    /\ \/ /\ SeesEnd(t)
          /\ chat' = [chat EXCEPT !.active_run = 0, !.resolving_run = FALSE, !.streamed = <<>>]
          /\ tab' = ClearedRun(t.run)
          /\ IF t.res = "completed" THEN Replaced(t, NewTask("reload", chat', 0)) ELSE TaskEnds(t)
       \/ /\ ~SeesEnd(t) /\ UNCHANGED <<chat, tab>>
          /\ Replaced(t, [t EXCEPT !.pc = "ask", !.kind = "follow", !.res = "none"])
    /\ UNCHANGED unsettled /\ OnlyPage

\* Either request is refused with 401, 403 or 404.
RunLost(t) ==
    /\ Holds(t, {"follow", "status"}) /\ RunTaskIsCurrent(t) /\ t.res = "lost"
    /\ chat' = [chat EXCEPT !.active_run = 0, !.resolving_run = FALSE]
    /\ tab' = ClearedRun(t.run)
    /\ TaskEnds(t) /\ UNCHANGED unsettled /\ OnlyPage

ChatNext ==
    \/ Reload \/ SignOut \/ SignedOut \/ BackToList \/ NameConversation \/ Send \/ CancelRun
    \/ \E u \in People : SignIn(u)
    \/ \E c \in Chats : OpenConversation(c)
    \/ \E text \in Typed \cup {""} : Input(text)
    \/ \E r \in DOMAIN turns : Emit(r)
    \/ \E t \in tasks : \/ Respond(t) \/ StaleAnswer(t) \/ TurnAnswered(t) \/ ConversationCreated(t)
                        \/ MessagesLoaded(t) \/ RunResolved(t) \/ EventsAnswered(t)
                        \/ StatusAnswered(t) \/ RunLost(t)
ChatSpec == ChatInit /\ [][ChatNext]_chatvars
-----------------------------------------------------------------------------
(***************************************************************************)
(* What the page shows is of the selected conversation and of the user who *)
(* is signed in, whatever answers are still on their way from earlier      *)
(* clicks and pages: its messages, its run, and the text of the answer,    *)
(* which is that of the events read so far, none of them twice             *)
(* (conversation_task_is_current, run_task_is_current).                    *)
(***************************************************************************)
Followers == {t \in tasks : t.kind \in {"follow", "status"} /\ RunTaskIsCurrent(t)}
ChatShowsSelection ==
    SignedIn /\ chat.selected # NoChat =>
        /\ owner[chat.selected] = chat.user
        /\ \A i \in 1 .. Len(chat.messages) : turns[(chat.messages[i] + 1) \div 2].chat = chat.selected
        /\ chat.active_run # 0 => turns[chat.active_run].chat = chat.selected
        /\ \A t \in Followers : chat.streamed = Streamed(<<>>, t.run, turns[t.run].log, 0, t.cursor)

(***************************************************************************)
(* The composer is disabled only while exactly one task is at work that    *)
(* will enable it again, and a run is on the screen only while exactly one *)
(* task follows it: nothing waits for a task that has gone.                *)
(***************************************************************************)
NothingOrphaned ==
    SignedIn =>
        LET now(kind) == Cardinality({t \in tasks : t.kind = kind /\ TaskIsCurrent(t)}) IN
        /\ now("send") = IF chat.submitting THEN 1 ELSE 0
        /\ now("resolve") = IF chat.resolving_run THEN 1 ELSE 0
        /\ Cardinality(Followers) = IF chat.active_run # 0 /\ ~chat.resolving_run THEN 1 ELSE 0

(***************************************************************************)
(* What a reload needs is stored: the run on the screen, and the key of    *)
(* the last message as long as its answer is not there and its text not    *)
(* edited, so that sending it again is the same turn ("Retry will reuse    *)
(* this submission").                                                      *)
(***************************************************************************)
ReloadFindsAll ==
    /\ SignedIn /\ ~chat.leaving /\ chat.active_run # 0 => tab.run = Session(chat.active_run)
    /\ unsettled # NoSubmission => tab.pending = unsettled
=============================================================================

------------------------------ MODULE EventLog ------------------------------
(***************************************************************************)
(* How run events reach a reader: run_events and its bigserial sequence,   *)
(* the advisory lock its writers take (lock_event_sequence of run_api.rs), *)
(* the WebSocket replay of realtime.rs and the polling loop of the web app *)
(* over list_run_events.                                                   *)
(*                                                                         *)
(* A sequence number is drawn when a row is inserted and the row appears   *)
(* when its transaction commits.  A reader asks for the rows after its     *)
(* cursor and never looks back, so a row that commits after one with a     *)
(* higher number would be lost to it.  One lock per profile, held from     *)
(* before the INSERT to COMMIT, is what stands against that; the sequence  *)
(* itself is shared by all profiles and does not roll back.                *)
(***************************************************************************)
EXTENDS Integers, Sequences, FiniteSets

CONSTANTS
  Writers,      \* transactions that append run events, each of one run
  Runs,         \* runs
  RunOf,        \* RunOf[w]: the run a transaction writes to
  Finals,       \* the transactions that also make their run terminal
  ProfileOf,    \* ProfileOf[r]: the profile of a run
  Profiles,
  Sockets,      \* clients that follow a run over the WebSocket
  Pollers,      \* clients that follow a run by polling
  RunFollowed,  \* RunFollowed[k]: the run a client follows
  PageSize,     \* LIMIT of one query
  MaxInserts,   \* bound: rows of one transaction
  MaxLosses     \* bound: connections that break

Clients == Sockets \cup Pollers
Idle == "idle"

ASSUME EventLogAssumption ==
  /\ RunOf \in [Writers -> Runs] /\ Finals \subseteq Writers
  /\ ProfileOf \in [Runs -> Profiles]
  /\ RunFollowed \in [Clients -> Runs] /\ Sockets \cap Pollers = {}
  /\ PageSize \in Nat \ {0} /\ MaxInserts \in Nat /\ MaxLosses \in Nat

VARIABLES
  sequence,   \* the last number drawn
  writer,     \* writer[w]: "idle", "open" (has the lock), "ended"
  rows,       \* rows[w]: numbers of the rows a transaction has inserted
  holder,     \* holder[p]: who has the advisory lock of a profile
  committed,  \* committed[r]: numbers of the visible rows of a run
  terminal,   \* terminal[r]: is the run's row in a terminal state
  allowed,    \* allowed[k]: is the client's session good
  barred,     \* barred[k]: rows committed after the session was revoked
  page,       \* page[k]: rows fetched and not yet passed on
  checked,    \* checked[k]: was the session checked after the fetch
  cursor,     \* cursor[k]: the reader's position
  pipe,       \* pipe[k]: rows sent and not yet received
  received,   \* received[k]: rows the client has applied, in order
  client,     \* client[k]: "off", "on", "status" (between two requests), "stopped"
  losses      \* connections broken so far

logVars == <<sequence, writer, rows, holder, committed, terminal>>
readVars == <<allowed, barred, page, checked, cursor, pipe, received, client, losses>>
vars == <<logVars, readVars>>

Init ==
  /\ sequence = 0
  /\ writer = [w \in Writers |-> Idle]
  /\ rows = [w \in Writers |-> {}]
  /\ holder = [p \in Profiles |-> {}]
  /\ committed = [r \in Runs |-> {}]
  /\ terminal = [r \in Runs |-> FALSE]
  /\ allowed = [k \in Clients |-> TRUE]
  /\ barred = [k \in Clients |-> {}]
  /\ page = [k \in Clients |-> << >>]
  /\ checked = [k \in Clients |-> FALSE]
  /\ cursor = [k \in Clients |-> 0]
  /\ pipe = [k \in Clients |-> << >>]
  /\ received = [k \in Clients |-> << >>]
  /\ client = [k \in Clients |-> "off"]
  /\ losses = 0

----------------------------------------------------------------------------
(* Writers *)

ProfileOfWriter(w) == ProfileOf[RunOf[w]]

\* pg_advisory_xact_lock waits for its holder.  Mutant: it does not.
LockFreeAlways(p) == TRUE
LockFree(p) == holder[p] = {}

\* lock_event_sequence.  Nothing is appended to a run that is terminal: the
\* guards of RunEngine see to that.
LockEventSequence(w) ==
  /\ writer[w] = Idle
  /\ LockFree(ProfileOfWriter(w))
  /\ ~terminal[RunOf[w]]
  /\ holder' = [holder EXCEPT ![ProfileOfWriter(w)] = {w}]
  /\ writer' = [writer EXCEPT ![w] = "open"]
  /\ UNCHANGED <<sequence, rows, committed, terminal, readVars>>

\* INSERT INTO run_events, sequence from nextval
Insert(w) ==
  /\ writer[w] = "open" /\ Cardinality(rows[w]) < MaxInserts
  /\ sequence' = sequence + 1
  /\ rows' = [rows EXCEPT ![w] = @ \cup {sequence + 1}]
  /\ UNCHANGED <<writer, holder, committed, terminal, readVars>>

\* COMMIT or rollback; both give the lock back
EndWrite(w) ==
  /\ writer[w] = "open"
  /\ writer' = [writer EXCEPT ![w] = "ended"]
  /\ holder' = [holder EXCEPT ![ProfileOfWriter(w)] = {}]

Commit(w) ==
  /\ EndWrite(w) /\ rows[w] # {}
  /\ committed' = [committed EXCEPT ![RunOf[w]] = @ \cup rows[w]]
  /\ terminal' = [terminal EXCEPT ![RunOf[w]] = @ \/ w \in Finals]
  /\ barred' = [k \in Clients |-> IF RunFollowed[k] = RunOf[w] /\ ~allowed[k]
                                  THEN barred[k] \cup rows[w] ELSE barred[k]]
  /\ UNCHANGED <<sequence, rows, allowed, page, checked, cursor, pipe, received,
                 client, losses>>

Rollback(w) ==
  /\ EndWrite(w)
  /\ UNCHANGED <<sequence, rows, committed, terminal, readVars>>

----------------------------------------------------------------------------
(* Readers *)

\* SELECT ... WHERE run_id=$1 AND sequence>$2 ORDER BY sequence LIMIT $3
Unread(k, after) == {n \in committed[RunFollowed[k]] : n > after}
Rank(n, set) == Cardinality({m \in set : m <= n})
Page(k, after) ==
  LET unread == Unread(k, after)
      size == IF Cardinality(unread) < PageSize THEN Cardinality(unread) ELSE PageSize IN
  [i \in 1..size |-> CHOOSE n \in unread : Rank(n, unread) = i]

LastReceived(k) ==
  IF received[k] = << >> THEN 0 ELSE received[k][Len(received[k])]

\* The after= of a new socket.  Mutant: the socket goes on where the last one
\* stopped sending.
ResumeAfterSent(k) == cursor[k]
ResumeAfter(k) == LastReceived(k)

\* upgrade: a new socket starts after what the client has received
Connect(k) ==
  /\ k \in Sockets /\ client[k] = "off" /\ allowed[k]
  /\ client' = [client EXCEPT ![k] = "on"]
  /\ cursor' = [cursor EXCEPT ![k] = ResumeAfter(k)]
  /\ UNCHANGED <<logVars, allowed, barred, page, checked, pipe, received, losses>>

\* The session is not checked before the query, but after it
CheckedAtFetch == FALSE

\* handle_socket's replay tick: the query, then the check of the session,
\* then one message for each row
Fetch(k) ==
  /\ k \in Sockets /\ client[k] = "on" /\ page[k] = << >>
  /\ Unread(k, cursor[k]) # {}
  /\ page' = [page EXCEPT ![k] = Page(k, cursor[k])]
  /\ checked' = [checked EXCEPT ![k] = CheckedAtFetch]
  /\ UNCHANGED <<logVars, allowed, barred, cursor, pipe, received, client, losses>>

Close(k) ==
  /\ client' = [client EXCEPT ![k] = "off"]
  /\ page' = [page EXCEPT ![k] = << >>]
  /\ pipe' = [pipe EXCEPT ![k] = << >>]

CheckSession(k) ==
  /\ k \in Sockets /\ client[k] = "on" /\ page[k] # << >> /\ ~checked[k]
  /\ IF allowed[k]
     THEN checked' = [checked EXCEPT ![k] = TRUE] /\ UNCHANGED <<client, page, pipe>>
     ELSE Close(k) /\ UNCHANGED checked
  /\ UNCHANGED <<logVars, allowed, barred, cursor, received, losses>>

Send(k) ==
  /\ k \in Sockets /\ page[k] # << >> /\ checked[k]
  /\ cursor' = [cursor EXCEPT ![k] = Head(page[k])]
  /\ pipe' = [pipe EXCEPT ![k] = Append(@, Head(page[k]))]
  /\ page' = [page EXCEPT ![k] = Tail(@)]
  /\ UNCHANGED <<logVars, allowed, barred, checked, received, client, losses>>

Receive(k) ==
  /\ k \in Sockets /\ pipe[k] # << >>
  /\ received' = [received EXCEPT ![k] = Append(@, Head(pipe[k]))]
  /\ pipe' = [pipe EXCEPT ![k] = Tail(@)]
  /\ UNCHANGED <<logVars, allowed, barred, page, checked, cursor, client, losses>>

\* The connection breaks with what is on its way
Disconnect(k) ==
  /\ k \in Sockets /\ client[k] = "on" /\ losses < MaxLosses
  /\ Close(k)
  /\ losses' = losses + 1
  /\ UNCHANGED <<logVars, allowed, barred, checked, cursor, received>>

\* The web app: GET events?after=cursor, answered with a page, lost (the loop
\* goes on to the run), or denied (401, 403 and 404 stop the loop) ...
PollEvents(k) ==
  /\ k \in Pollers /\ client[k] = "off"
  /\ \/ /\ allowed[k]
        /\ page' = [page EXCEPT ![k] = Page(k, cursor[k])]
        /\ client' = [client EXCEPT ![k] = "on"]
        /\ UNCHANGED losses
     \/ /\ losses < MaxLosses /\ losses' = losses + 1
        /\ client' = [client EXCEPT ![k] = "status"]
        /\ UNCHANGED page
     \/ /\ ~allowed[k]
        /\ client' = [client EXCEPT ![k] = "stopped"]
        /\ UNCHANGED <<page, losses>>
  /\ UNCHANGED <<logVars, allowed, barred, checked, cursor, pipe, received>>

\* ... each row of the page applied; a full page asks for the next one ...
ApplyPage(k) ==
  /\ k \in Pollers /\ client[k] = "on"
  /\ received' = [received EXCEPT ![k] = @ \o page[k]]
  /\ cursor' = [cursor EXCEPT ![k] = IF page[k] = << >> THEN @
                                     ELSE page[k][Len(page[k])]]
  /\ page' = [page EXCEPT ![k] = << >>]
  /\ client' = [client EXCEPT ![k] = IF Len(page[k]) = PageSize THEN "off" ELSE "status"]
  /\ UNCHANGED <<logVars, allowed, barred, checked, pipe, losses>>

\* Mutant: only the page at hand is looked through.
SeenTerminalNow(k) ==
  \E w \in Finals : RunOf[w] = RunFollowed[k]
                    /\ \E i \in DOMAIN page[k] : page[k][i] \in rows[w]

\* ... then GET the run: stop when it is terminal and its terminal event was
\* seen, or denied, else wait and poll again, as when the answer is lost.
SeenTerminal(k) ==
  \E w \in Finals : RunOf[w] = RunFollowed[k]
                    /\ \E i \in DOMAIN received[k] : received[k][i] \in rows[w]
PollStatus(k) ==
  /\ k \in Pollers /\ client[k] = "status"
  /\ \/ /\ client' = [client EXCEPT ![k] =
             IF ~allowed[k] \/ (terminal[RunFollowed[k]] /\ SeenTerminal(k))
             THEN "stopped" ELSE "off"]
        /\ UNCHANGED losses
     \/ /\ losses < MaxLosses /\ losses' = losses + 1
        /\ client' = [client EXCEPT ![k] = "off"]
  /\ UNCHANGED <<logVars, allowed, barred, page, checked, cursor, pipe, received>>

\* The session expires or is revoked, or the membership ends
Revoke(k) ==
  /\ allowed[k]
  /\ allowed' = [allowed EXCEPT ![k] = FALSE]
  /\ UNCHANGED <<logVars, barred, page, checked, cursor, pipe, received, client, losses>>

----------------------------------------------------------------------------

Next ==
  \/ \E w \in Writers : LockEventSequence(w) \/ Insert(w) \/ Commit(w) \/ Rollback(w)
  \/ \E k \in Sockets : Connect(k) \/ Fetch(k) \/ CheckSession(k) \/ Send(k)
                        \/ Receive(k) \/ Disconnect(k)
  \/ \E k \in Pollers : PollEvents(k) \/ ApplyPage(k) \/ PollStatus(k)
  \/ \E k \in Clients : Revoke(k)

Spec == Init /\ [][Next]_vars

\* Transactions end, the socket's interval fires, the network delivers what
\* it does not lose, and clients come back.
Fairness ==
  /\ \A w \in Writers : WF_vars(Commit(w) \/ Rollback(w))
  /\ \A k \in Sockets : /\ WF_vars(Connect(k)) /\ WF_vars(Fetch(k))
                        /\ WF_vars(CheckSession(k)) /\ WF_vars(Send(k))
                        /\ WF_vars(Receive(k))
  /\ \A k \in Pollers : /\ WF_vars(PollEvents(k)) /\ WF_vars(ApplyPage(k))
                        /\ WF_vars(PollStatus(k))

----------------------------------------------------------------------------
(* Properties *)

\* Rows, locks, cursors and pages are of the shapes the code gives them.
TypeOK ==
  /\ sequence \in Nat
  /\ writer \in [Writers -> {Idle, "open", "ended"}]
  /\ rows \in [Writers -> SUBSET Nat]
  /\ holder \in [Profiles -> SUBSET Writers]
  /\ committed \in [Runs -> SUBSET Nat]
  /\ terminal \in [Runs -> BOOLEAN]
  /\ allowed \in [Clients -> BOOLEAN]
  /\ barred \in [Clients -> SUBSET Nat]
  /\ page \in [Clients -> Seq(Nat)]
  /\ checked \in [Clients -> BOOLEAN]
  /\ cursor \in [Clients -> Nat]
  /\ pipe \in [Clients -> Seq(Nat)]
  /\ received \in [Clients -> Seq(Nat)]
  /\ client \in [Clients -> {"off", "on", "status", "stopped"}]
  /\ losses \in 0..MaxLosses

\* What a client has applied is every event of its run up to the last one,
\* once each and in order: no commit slips in behind a cursor, and neither
\* pages nor reconnections lose or repeat a row (lock_event_sequence,
\* handle_socket, list_run_events).
NothingSkipped ==
  \A k \in Clients :
    LET upTo == {n \in committed[RunFollowed[k]] : n <= LastReceived(k)} IN
    /\ Len(received[k]) = Cardinality(upTo)
    /\ \A i \in DOMAIN received[k] : received[k][i] \in upTo
    /\ \A i \in 1..(Len(received[k]) - 1) : received[k][i] < received[k][i + 1]

\* What is committed after a session was revoked is never sent on its socket:
\* the session is checked after the rows are fetched (handle_socket).
RevokedSeesNothingNew ==
  \A k \in Sockets : \A i \in DOMAIN received[k] : received[k][i] \notin barred[k]

\* Both, and the shapes of the state.
DeliveredAsCommitted == TypeOK /\ NothingSkipped /\ RevokedSeesNothingNew

\* A client that keeps its access gets every event, over whatever sockets
\* and pages (handle_socket).
EverythingArrives ==
  Fairness =>
    \A k \in Sockets : []<>(~allowed[k] \/
      Len(received[k]) = Cardinality(committed[RunFollowed[k]]))

\* The web app's loop ends once the run has, because it sees the terminal
\* event it waits for.
PollingStops ==
  Fairness =>
    \A k \in Pollers : terminal[RunFollowed[k]] ~> client[k] = "stopped" \/ ~allowed[k]
=============================================================================

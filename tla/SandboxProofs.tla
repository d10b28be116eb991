---------------------------- MODULE SandboxProofs ----------------------------
(***************************************************************************)
(* Theorems about the sandbox daemon, proved for every set of connections, *)
(* request ids and operations.                                             *)
(*                                                                         *)
(* OncePerRequest is not inductive: that a retry executes nothing depends  *)
(* on who owns the entry of the replay cache, on which of the owners has   *)
(* the journal's row in its hands, and on what the row may still become.   *)
(* RequestsInv says that an id has at most one owner and that its entry is *)
(* then pending, that a row is PENDING exactly while its holder works or   *)
(* after the holder is gone, and that an outcome that is cached, about to  *)
(* be told or already told is settled: nothing can change the row it is    *)
(* read from any more.                                                     *)
(***************************************************************************)
EXTENDS TerminalProofs

ConnRow  == [pc : {"closed", "reading", "begin", "register", "recheck", "await",
                   "journal", "dispatch", "running", "store", "complete"},
             id : Ids \cup {"none"}, op : Operations \cup {"none"},
             resp : Responses \cup {"none"},
             note : {"none", "live", "spent"}, woken : BOOLEAN]
EntryRow == [status : {"none", "pending", "complete"},
             op : NonIdempotent \cup {"none"}, resp : Responses \cup {"none"}]
JournalRow == [status : {"none", "PENDING", "COMPLETE"},
               op : Durable \cup {"none"}, resp : Responses \cup {"none"}]

RequestTypes ==
    /\ conn \in [Conns -> ConnRow]
    /\ replay \in [Ids -> EntryRow]
    /\ order \in Seq(Ids)
    /\ mutation \in [Ids -> JournalRow]
    /\ executed \in [Ids -> Nat]

\* The line a connection works on: an id, and an operation of the class the
\* step is for.
WorksOn(m) ==
    /\ m.pc \notin {"closed", "reading"} => m.id \in Ids /\ m.op \in Operations
    /\ m.pc \in {"begin", "register", "recheck", "await", "complete"}
         => m.op \in NonIdempotent
    /\ m.pc \in {"journal", "store"} => m.op \in Durable

\* The connection that begin told to execute, and the one that also holds the
\* row it inserted in the journal.
IsOwner(m)  == /\ m.op \in NonIdempotent
               /\ m.pc \in {"journal", "dispatch", "running", "store", "complete"}
IsHolder(m) == m.op \in Durable /\ m.pc \in {"dispatch", "running", "store"}
HeldBy(i)   == \E c \in Conns : IsHolder(conn[c]) /\ conn[c].id = i

\* What the owner relies on: its entry, and its row.
OwnsEntry(m, e) == IsOwner(m) => e.status = "pending" /\ e.op = m.op
HoldsRow(m, rec, x) ==
    IsHolder(m) => /\ rec.status = "PENDING" /\ rec.op = m.op
                   /\ x = (IF m.pc = "dispatch" THEN 0 ELSE 1)
                   /\ m.pc = "store" => m.resp \in Results

OwnersInv ==
    /\ \A c \in Conns : /\ WorksOn(conn[c])
                        /\ OwnsEntry(conn[c], replay[conn[c].id])
                        /\ HoldsRow(conn[c], mutation[conn[c].id], executed[conn[c].id])
    /\ \A c, d \in Conns : IsOwner(conn[c]) /\ IsOwner(conn[d])
                             /\ conn[c].id = conn[d].id => c = d

\* A row, and how often the operation of its id was dispatched.
Journaled(rec, x) ==
    /\ x \in {0, 1}
    /\ rec.status = "none" => x = 0
    /\ rec.status = "COMPLETE" => x = 1 /\ rec.resp \in Results

\* Outcome r of operation o can be told for id i: the row says so, or will
\* never say anything else.
SettledAs(i, o, r) ==
    /\ mutation[i].op = o
    /\ \/ mutation[i].status = "COMPLETE" /\ mutation[i].resp = r
       \/ /\ r \in {"timeout", "unknown"}
          /\ \/ mutation[i].status = "COMPLETE" /\ mutation[i].resp = "timeout"
             \/ mutation[i].status = "PENDING" /\ ~HeldBy(i)

Deciding(m)  == m.pc = "complete" /\ m.op \in Durable /\ m.resp \in DispatchOutcomes
Remembers(e) == e.status = "complete" /\ e.op \in Durable /\ e.resp \in DispatchOutcomes

DecidesSettled(c) ==
    Deciding(conn[c]) => SettledAs(conn[c].id, conn[c].op, conn[c].resp)
RemembersSettled(i) ==
    Remembers(replay[i]) => SettledAs(i, replay[i].op, replay[i].resp)

OutcomesInv ==
    /\ \A i \in Ids : Journaled(mutation[i], executed[i])
    /\ \A c \in Conns : DecidesSettled(c)
    /\ \A i \in Ids : RemembersSettled(i)
    /\ \A i \in Ids, o \in Durable, r \in DispatchOutcomes :
           <<i, o, r>> \in told => SettledAs(i, o, r)

RequestsInv == RequestTypes /\ OwnersInv /\ OutcomesInv

-----------------------------------------------------------------------------
(* One step at a time *)

\* What is settled stays settled when the row stays and nobody takes it up.
LEMMA SettledStays ==
  ASSUME NEW i \in Ids, NEW o, NEW r, SettledAs(i, o, r),
         mutation'[i] = mutation[i], HeldBy(i)' => HeldBy(i)
  PROVE  SettledAs(i, o, r)'
  BY DEF SettledAs

\* Rows without owners: Closed and Reading.
LEMMA IdleRows ==
  /\ Closed \in ConnRow /\ Closed.pc = "closed"
  /\ Reading \in ConnRow /\ Reading.pc = "reading"
  /\ NoEntry \in EntryRow /\ NoEntry.status = "none"
  /\ NoEntry \in JournalRow
  BY DEF Closed, Reading, NoEntry, ConnRow, EntryRow, JournalRow

\* A step of one connection that does not own an entry before it nor after it
\* (Accept, ReadLine, Register, the answers of Begin, an idempotent operation).
LEMMA Bystander ==
  ASSUME RequestsInv, NEW c \in Conns, NEW rec \in ConnRow,
         WorksOn(rec), ~IsOwner(rec), ~IsOwner(conn[c]),
         conn' = [conn EXCEPT ![c] = rec],
         UNCHANGED <<cache, mutation, executed>>,
         \A i \in Ids, o \in Durable, r \in DispatchOutcomes :
             <<i, o, r>> \in told' => <<i, o, r>> \in told \/ SettledAs(i, o, r)
  PROVE  RequestsInv'
<1>1. RequestTypes /\ OwnersInv /\ OutcomesInv BY DEF RequestsInv
<1>2. /\ replay' = replay /\ order' = order
      /\ mutation' = mutation /\ executed' = executed BY DEF cache
<1>3. /\ conn'[c] = rec
      /\ \A d \in Conns \ {c} : conn'[d] = conn[d]
      /\ conn' \in [Conns -> ConnRow] BY <1>1 DEF RequestTypes
<1>4. ~IsHolder(rec) /\ ~IsHolder(conn[c]) /\ ~Deciding(rec) BY DEF IsHolder, IsOwner, Deciding, NonIdempotent
<1>5. \A i : HeldBy(i)' <=> HeldBy(i) BY <1>3, <1>4 DEF HeldBy
<1>6. OwnersInv'
  <2>1. \A d \in Conns : HoldsRow(conn'[d], mutation'[conn'[d].id], executed'[conn'[d].id])
    BY <1>1, <1>2, <1>3, <1>4 DEF OwnersInv, HoldsRow
  <2>2. \A d, e \in Conns : IsOwner(conn'[d]) /\ IsOwner(conn'[e])
                              /\ conn'[d].id = conn'[e].id => d = e BY <1>1, <1>3 DEF OwnersInv
  <2> QED BY <2>1, <2>2, <1>1, <1>3, <1>2 DEF OwnersInv, OwnsEntry
<1>7. OutcomesInv'
  <2>1. \A d \in Conns : DecidesSettled(d)'
    <3> SUFFICES ASSUME NEW d \in Conns, Deciding(conn'[d])
                 PROVE  DecidesSettled(d)' BY DEF DecidesSettled
    <3> QED BY <1>2, <1>5, <1>1, <1>3, <1>4 DEF SettledAs, DecidesSettled, OutcomesInv
  <2> QED BY <1>1, <1>2, <2>1, <1>5 DEF OutcomesInv, SettledAs, RemembersSettled
<1> QED BY <1>6, <1>7, <1>1, <1>2, <1>3 DEF RequestsInv, RequestTypes

\* A step of an owner that keeps its entry (BeginMutation, Dispatch, Return,
\* Store): it may change its row of the journal, and the row is then either
\* new, or was PENDING in its own hands.
LEMMA OwnerMoves ==
  ASSUME RequestsInv, NEW c \in Conns, NEW rec \in ConnRow, NEW i \in Ids,
         NEW mrow \in JournalRow, NEW x \in Nat,
         IsOwner(conn[c]), conn[c].id = i, IsOwner(rec), WorksOn(rec),
         rec.id = i, rec.op = conn[c].op,
         conn' = [conn EXCEPT ![c] = rec],
         mutation' = [mutation EXCEPT ![i] = mrow],
         executed' = [executed EXCEPT ![i] = x],
         UNCHANGED <<cache, told>>,
         HoldsRow(rec, mrow, x), Journaled(mrow, x),
         \/ mrow = mutation[i] /\ (IsHolder(rec) => IsHolder(conn[c]))
         \/ mutation[i].status = "none"
         \/ mutation[i].status = "PENDING" /\ IsHolder(conn[c]),
         DecidesSettled(c)'
  PROVE  RequestsInv'
<1>1. RequestTypes /\ OwnersInv /\ OutcomesInv BY DEF RequestsInv
<1>2. replay' = replay /\ order' = order /\ told' = told BY DEF cache
<1>3. /\ conn'[c] = rec
      /\ \A d \in Conns \ {c} : conn'[d] = conn[d]
      /\ conn' \in [Conns -> ConnRow] BY <1>1 DEF RequestTypes
<1>4. /\ mutation'[i] = mrow
      /\ \A j \in Ids \ {i} : mutation'[j] = mutation[j]
      /\ mutation' \in [Ids -> JournalRow] BY <1>1 DEF RequestTypes
<1>5. /\ executed'[i] = x
      /\ \A j \in Ids \ {i} : executed'[j] = executed[j]
      /\ executed' \in [Ids -> Nat] BY <1>1 DEF RequestTypes
<1>6. \A d \in Conns \ {c} : WorksOn(conn[d]) /\ (IsOwner(conn[d]) => conn[d].id \in Ids \ {i})
  BY <1>1 DEF OwnersInv, WorksOn, IsOwner
<1>7. OwnersInv'
  <2>1. \A d \in Conns : OwnsEntry(conn'[d], replay'[conn'[d].id]) BY <1>1, <1>2, <1>3 DEF OwnersInv, OwnsEntry
  <2>2. \A d \in Conns : HoldsRow(conn'[d], mutation'[conn'[d].id], executed'[conn'[d].id])
    <3>1. \A d \in Conns \ {c} : HoldsRow(conn[d], mutation'[conn[d].id], executed'[conn[d].id])
      BY <1>1, <1>4, <1>5, <1>6 DEF HoldsRow, OwnersInv, IsHolder, IsOwner, NonIdempotent
    <3> QED BY <1>3, <3>1, <1>4, <1>5
  <2> QED BY <2>1, <2>2, <1>1, <1>3 DEF OwnersInv
<1>8. \A j \in Ids : \A o, r : SettledAs(j, o, r) => SettledAs(j, o, r)'
  <2> SUFFICES ASSUME NEW j \in Ids, NEW o, NEW r, SettledAs(j, o, r)
               PROVE  SettledAs(j, o, r)' OBVIOUS
  <2>1. CASE j # i BY <1>4, <2>1, SettledStays, <1>3 DEF HeldBy
  <2>2. CASE j = i BY <1>4, <2>2, SettledStays, <1>3 DEF HeldBy, SettledAs
  <2> QED BY <2>1, <2>2
<1>9. OutcomesInv'
  <2>1. \A d \in Conns : DecidesSettled(d)'
    <3> SUFFICES ASSUME NEW d \in Conns, d # c, Deciding(conn'[d])
                 PROVE  DecidesSettled(d)' BY DEF DecidesSettled
    <3>1. conn'[d] = conn[d] BY <1>3
    <3>2. SettledAs(conn[d].id, conn[d].op, conn[d].resp)'
      <4>1. PICK j, o, r : j = conn[d].id /\ o = conn[d].op /\ r = conn[d].resp OBVIOUS
      <4> QED BY <3>1, <4>1, <1>8, <1>1, <1>6 DEF SettledAs, HeldBy, OutcomesInv, DecidesSettled, WorksOn, Deciding
    <3> QED BY <3>2 DEF DecidesSettled
  <2>2. \A j \in Ids : RemembersSettled(j)'
    <3> SUFFICES ASSUME NEW j \in Ids, Remembers(replay[j])
                 PROVE  SettledAs(j, replay[j].op, replay[j].resp)' BY <1>2 DEF RemembersSettled
    <3>1. PICK o, r : o = replay[j].op /\ r = replay[j].resp OBVIOUS
    <3>2. SettledAs(j, o, r) BY <3>1, <1>1 DEF SettledAs, OutcomesInv, RemembersSettled
    <3> QED BY <1>2, <3>1, <1>8, <3>2 DEF SettledAs
  <2> QED BY <2>1, <2>2, <1>1, <1>2, <1>8, <1>4, <1>5 DEF OutcomesInv
<1> QED BY <1>7, <1>9, <1>1, <1>2, <1>3, <1>4, <1>5 DEF RequestsInv, RequestTypes

\* Waking the waiters of an entry leaves everything else of a connection.
LEMMA WakeKeeps ==
  ASSUME RequestTypes, NEW i \in Ids, NEW o \in Operations, NEW c \in Conns,
         NEW rec \in ConnRow, conn' = [Wake(i, o) EXCEPT ![c] = rec]
  PROVE  /\ conn' \in [Conns -> ConnRow]
         /\ conn'[c] = rec
         /\ \A d \in Conns \ {c} : /\ conn'[d].pc = conn[d].pc
                                   /\ conn'[d].id = conn[d].id
                                   /\ conn'[d].op = conn[d].op
                                   /\ conn'[d].resp = conn[d].resp
<1>1. \A d \in Conns : conn[d] \in ConnRow BY DEF RequestTypes
<1>2. \A d \in Conns : \E n \in {"none", "live", "spent"}, w \in BOOLEAN :
          Woken(d) = [[conn[d] EXCEPT !.note = n] EXCEPT !.woken = w]
  <2> SUFFICES ASSUME NEW d \in Conns
               PROVE  \E n \in {"none", "live", "spent"}, w \in BOOLEAN :
                        Woken(d) = [[conn[d] EXCEPT !.note = n] EXCEPT !.woken = w] OBVIOUS
  <2> DEFINE m == conn[d]
  <2>1. m \in ConnRow BY <1>1
  <2>2. m.note \in {"none", "live", "spent"} /\ m.woken \in BOOLEAN BY <2>1 DEF ConnRow
  <2>3. [[m EXCEPT !.note = "spent"] EXCEPT !.woken = m.woken] = [m EXCEPT !.note = "spent"] BY <2>1 DEF ConnRow
  <2>4. [[m EXCEPT !.note = m.note] EXCEPT !.woken = TRUE] = [m EXCEPT !.woken = TRUE] BY <2>1 DEF ConnRow
  <2>5. [[m EXCEPT !.note = m.note] EXCEPT !.woken = m.woken] = m BY <2>1 DEF ConnRow
  <2>6. \/ Woken(d) = [m EXCEPT !.note = "spent"]
        \/ Woken(d) = [m EXCEPT !.woken = TRUE]
        \/ Woken(d) = m BY DEF Woken
  <2> QED BY <2>2, <2>3, <2>4, <2>5, <2>6
<1>3. \A d \in Conns : /\ Woken(d) \in ConnRow
                       /\ Woken(d).pc = conn[d].pc /\ Woken(d).id = conn[d].id
                       /\ Woken(d).op = conn[d].op /\ Woken(d).resp = conn[d].resp
  <2> TAKE d \in Conns
  <2>1. PICK n \in {"none", "live", "spent"}, w \in BOOLEAN :
            Woken(d) = [[conn[d] EXCEPT !.note = n] EXCEPT !.woken = w] BY <1>2
  <2>2. conn[d] \in ConnRow BY <1>1
  <2> QED BY <2>1, <2>2 DEF ConnRow
<1>4. \A d \in Conns : /\ Wake(i, o)[d] \in ConnRow
                       /\ Wake(i, o)[d].pc = conn[d].pc /\ Wake(i, o)[d].id = conn[d].id
                       /\ Wake(i, o)[d].op = conn[d].op /\ Wake(i, o)[d].resp = conn[d].resp BY <1>1, <1>3 DEF Wake
<1> QED BY <1>4 DEF Wake

\* An owner completes its entry and goes (Complete, Drop): what it leaves
\* behind must be settled.
LEMMA OwnerLeaves ==
  ASSUME RequestsInv, NEW c \in Conns, NEW i \in Ids, NEW o \in NonIdempotent,
         NEW r \in Responses \cup {"none"}, NEW rec \in {Closed, Reading},
         IsOwner(conn[c]), conn[c].id = i, conn[c].op = o,
         conn' = [Wake(i, o) EXCEPT ![c] = rec],
         replay' = Publish(i, o, r),
         UNCHANGED <<order, mutation, executed>>,
         o \in Durable /\ r \in DispatchOutcomes => SettledAs(i, o, r)',
         \A j \in Ids, p \in Durable, q \in DispatchOutcomes :
             <<j, p, q>> \in told' => <<j, p, q>> \in told \/ SettledAs(j, p, q)'
  PROVE  RequestsInv'
<1>1. RequestTypes /\ OwnersInv /\ OutcomesInv BY DEF RequestsInv
<1>2. rec \in ConnRow /\ rec.pc \in {"closed", "reading"} BY IdleRows
<1>3. /\ conn' \in [Conns -> ConnRow]
      /\ conn'[c] = rec
      /\ \A d \in Conns \ {c} : /\ conn'[d].pc = conn[d].pc
                                /\ conn'[d].id = conn[d].id
                                /\ conn'[d].op = conn[d].op
                                /\ conn'[d].resp = conn[d].resp BY <1>1, <1>2, WakeKeeps DEF Operations
<1>4. replay[i] \in EntryRow /\ replay[i].status = "pending" /\ replay[i].op = o
  BY <1>1 DEF RequestTypes, OwnersInv, OwnsEntry
<1>5. /\ replay' \in [Ids -> EntryRow]
      /\ replay'[i].status = "complete" /\ replay'[i].op = o /\ replay'[i].resp = r
      /\ \A j \in Ids \ {i} : replay'[j] = replay[j]
  <2>1. PICK e : e = [replay[i] EXCEPT !.status = "complete", !.resp = r] OBVIOUS
  <2>2. e \in EntryRow /\ e.status = "complete" /\ e.op = o /\ e.resp = r BY <1>4, <2>1 DEF EntryRow
  <2> QED BY <1>1, <2>2, <2>1, <1>4 DEF RequestTypes, Publish
<1>6. \A d \in Conns \ {c} : IsOwner(conn[d]) => conn[d].id \in Ids \ {i} BY <1>1 DEF OwnersInv, WorksOn, IsOwner
<1>7. ~IsOwner(rec) /\ ~IsHolder(rec) /\ ~Deciding(rec) /\ WorksOn(rec)
  BY <1>2 DEF IsOwner, IsHolder, Deciding, WorksOn
<1>8. \A d \in Conns \ {c} : /\ IsOwner(conn'[d]) <=> IsOwner(conn[d])
                             /\ IsHolder(conn'[d]) <=> IsHolder(conn[d])
                             /\ Deciding(conn'[d]) <=> Deciding(conn[d])
                             /\ WorksOn(conn'[d]) <=> WorksOn(conn[d])
  BY <1>3 DEF IsOwner, IsHolder, Deciding, WorksOn
<1>9. OwnersInv'
  <2>1. \A d \in Conns : OwnsEntry(conn'[d], replay'[conn'[d].id])
    <3> SUFFICES ASSUME NEW d \in Conns \ {c}, IsOwner(conn[d])
                 PROVE  OwnsEntry(conn'[d], replay'[conn'[d].id]) BY <1>3, <1>7, <1>8 DEF OwnsEntry
    <3> QED BY <1>3, <1>8, <1>1, <1>5, <1>6 DEF OwnsEntry, OwnersInv
  <2>2. \A d \in Conns : HoldsRow(conn'[d], mutation'[conn'[d].id], executed'[conn'[d].id])
    <3> SUFFICES ASSUME NEW d \in Conns \ {c}, IsHolder(conn[d])
                 PROVE  HoldsRow(conn'[d], mutation'[conn'[d].id], executed'[conn'[d].id])
      BY <1>3, <1>7, <1>8 DEF HoldsRow
    <3> QED BY <1>3, <1>8, <1>1 DEF HoldsRow, OwnersInv
  <2> QED BY <2>1, <2>2, <1>1, <1>3, <1>7, <1>8 DEF OwnersInv
<1>10. \A j \in Ids : \A p, q : SettledAs(j, p, q) => SettledAs(j, p, q)' BY <1>3, <1>7, <1>8 DEF SettledAs, HeldBy
<1>11. OutcomesInv'
  <2>1. \A d \in Conns : DecidesSettled(d)'
    <3> SUFFICES ASSUME NEW d \in Conns, d # c, Deciding(conn[d]), Deciding(conn'[d])
                 PROVE  DecidesSettled(d)' BY <1>3, <1>7, <1>8 DEF DecidesSettled
    <3>1. PICK j, p, q : j = conn[d].id /\ p = conn[d].op /\ q = conn[d].resp OBVIOUS
    <3>2. SettledAs(j, p, q)' BY <1>10, <1>1, <3>1 DEF OutcomesInv, OwnersInv, WorksOn, Deciding, DecidesSettled
    <3> QED BY <3>2, <1>3, <3>1 DEF DecidesSettled, SettledAs
  <2>2. \A j \in Ids : RemembersSettled(j)'
    <3>1. RemembersSettled(i)'
      <4> SUFFICES ASSUME o \in Durable, r \in DispatchOutcomes
                   PROVE  RemembersSettled(i)' BY <1>5 DEF RemembersSettled, Remembers
      <4> QED BY <1>5 DEF RemembersSettled, SettledAs
    <3>2. ASSUME NEW j \in Ids, j # i PROVE RemembersSettled(j)'
      <4>1. PICK p, q : p = replay[j].op /\ q = replay[j].resp OBVIOUS
      <4> QED BY <1>5, <3>2, <4>1, <1>10, <1>1 DEF RemembersSettled, SettledAs, OutcomesInv
    <3> QED BY <3>1, <3>2
  <2> QED BY <1>1, <2>1, <2>2, <1>10 DEF OutcomesInv
<1> QED BY <1>9, <1>11, <1>1, <1>3, <1>5 DEF RequestsInv, RequestTypes

\* The least of a set of positions.
LEMMA LeastPosition ==
  ASSUME NEW S, S \subseteq Nat, S # {}
  PROVE  (CHOOSE n \in S : \A m \in S : n <= m) \in S
<1> DEFINE R == OpToRel(<, Nat)
<1>1. IsWellFoundedOn(R, Nat) BY NatLessThanWellFounded
<1> HIDE DEF R
<1>2. PICK n \in S : \A m \in S : ~(<<m, n>> \in R) BY <1>1, WFMin
<1>3. \A m \in S : ~(m < n) BY <1>2 DEF R, OpToRel
<1>4. \A m \in S : n <= m BY <1>3
<1> QED BY <1>4

\* ReplayCache::begin inserts an entry for an id that has none, and what it
\* evicts is complete.
LEMMA InsertEntryFacts ==
  ASSUME RequestTypes, NEW i \in Ids, NEW o \in NonIdempotent,
         Decision(i, o) = "execute", InsertEntry(i, o)
  PROVE  /\ replay[i].status = "none"
         /\ replay' \in [Ids -> EntryRow]
         /\ order' \in Seq(Ids)
         /\ replay'[i].status = "pending" /\ replay'[i].op = o
         /\ \A j \in Ids \ {i} : \/ replay'[j] = replay[j]
                                 \/ replay[j].status = "complete" /\ replay'[j] = NoEntry
<1> DEFINE e == [status |-> "pending", op |-> o, resp |-> "none"]
<1>1. /\ replay \in [Ids -> EntryRow] /\ order \in Seq(Ids)
      /\ replay[i] \in EntryRow BY DEF RequestTypes
<1>2. replay[i].status = "none" BY <1>1 DEF Decision, EntryRow
<1>3. e \in EntryRow /\ e.status = "pending" /\ e.op = o BY DEF EntryRow
<1> HIDE DEF e
<1>4. CASE Cardinality(Cached) = Capacity
  <2> DEFINE victim == CHOOSE n \in Evictable : \A m \in Evictable : n <= m
             kept   == [n \in 1 .. Len(order) - 1 |->
                          IF n < victim THEN order[n] ELSE order[n + 1]]
  <2>1. Evictable \subseteq Nat BY <1>1 DEF Evictable
  <2>2. victim \in Evictable BY <1>4, <2>1, LeastPosition, <1>2 DEF Decision
  <2>3. /\ victim \in DOMAIN order
        /\ replay[order[victim]].status = "complete" BY <2>2 DEF Evictable
  <2>4. /\ replay' = [[replay EXCEPT ![order[victim]] = NoEntry] EXCEPT ![i] = e]
        /\ order' = Append(kept, i) BY <1>4 DEF InsertEntry, e
  <2> HIDE DEF victim
  <2>5. PICK v \in Ids : v = order[victim] /\ v # i BY <1>1, <1>2, <2>3
  <2>6. Len(order) - 1 \in Nat BY <1>1, <2>3
  <2>7. kept \in Seq(Ids) BY <2>6, <1>1
  <2> HIDE DEF kept
  <2>8. order' \in Seq(Ids) BY <2>4, <2>7
  <2> QED BY <1>2, <1>3, <2>3, <2>5, <2>8, <1>1, <2>4, IdleRows
<1>5. CASE Cardinality(Cached) # Capacity
  <2>1. replay' = [replay EXCEPT ![i] = e] /\ order' = Append(order, i) BY <1>5 DEF InsertEntry, e
  <2> QED BY <1>2, <1>3, <1>1, <2>1
<1> QED BY <1>4, <1>5

\* A connection that owns nothing inserts an entry: it owns it from now on
\* (Begin), or nobody does (Recheck).
LEMMA TakesEntry ==
  ASSUME RequestsInv, NEW c \in Conns, NEW rec \in ConnRow, NEW i \in Ids,
         NEW o \in NonIdempotent,
         conn[c].id = i, conn[c].op = o, ~IsOwner(conn[c]),
         rec.id = i, rec.op = o, WorksOn(rec), ~IsHolder(rec), ~Deciding(rec),
         conn' = [conn EXCEPT ![c] = rec],
         Decision(i, o) = "execute", InsertEntry(i, o),
         UNCHANGED <<mutation, executed, told>>
  PROVE  RequestsInv'
<1>1. RequestTypes /\ OwnersInv /\ OutcomesInv BY DEF RequestsInv
<1>2. /\ replay[i].status = "none"
      /\ replay' \in [Ids -> EntryRow]
      /\ order' \in Seq(Ids)
      /\ replay'[i].status = "pending" /\ replay'[i].op = o
      /\ \A j \in Ids \ {i} : \/ replay'[j] = replay[j]
                              \/ replay[j].status = "complete" /\ replay'[j] = NoEntry BY <1>1, InsertEntryFacts
<1>3. /\ conn'[c] = rec
      /\ \A d \in Conns \ {c} : conn'[d] = conn[d]
      /\ conn' \in [Conns -> ConnRow] BY <1>1 DEF RequestTypes
<1>4. \A j : HeldBy(j)' <=> HeldBy(j) BY <1>3 DEF HeldBy, IsHolder, IsOwner, NonIdempotent
<1>5. \A d \in Conns : IsOwner(conn[d]) => conn[d].id \in Ids \ {i}
  BY <1>1, <1>2 DEF OwnersInv, OwnsEntry, WorksOn, IsOwner
<1>6. OwnersInv'
  <2>1. \A d \in Conns : OwnsEntry(conn'[d], replay'[conn'[d].id])
    <3>1. ASSUME NEW d \in Conns \ {c}, IsOwner(conn[d])
          PROVE  OwnsEntry(conn[d], replay'[conn[d].id]) BY <1>2, <1>5, <3>1, <1>1 DEF OwnsEntry, OwnersInv
    <3> QED BY <1>3, <3>1, <1>2 DEF OwnsEntry
  <2>2. \A d, e \in Conns : IsOwner(conn'[d]) /\ IsOwner(conn'[e])
                              /\ conn'[d].id = conn'[e].id => d = e BY <1>1, <1>3, <1>5 DEF OwnersInv
  <2> QED BY <2>1, <2>2, <1>1, <1>3 DEF OwnersInv, HoldsRow
<1>7. OutcomesInv'
  <2>1. \A d \in Conns : DecidesSettled(d)'
    <3> SUFFICES ASSUME NEW d \in Conns, Deciding(conn'[d])
                 PROVE  DecidesSettled(d)' BY DEF DecidesSettled
    <3> QED BY <1>4, <1>1, <1>3 DEF SettledAs, DecidesSettled, OutcomesInv
  <2>2. \A j \in Ids : RemembersSettled(j)'
    <3> SUFFICES ASSUME NEW j \in Ids, Remembers(replay'[j])
                 PROVE  RemembersSettled(j)' BY DEF RemembersSettled
    <3> QED BY <1>4, <1>2, IdleRows, <1>1 DEF RemembersSettled, SettledAs, Remembers, OutcomesInv
  <2> QED BY <1>1, <2>1, <2>2, <1>4 DEF OutcomesInv, SettledAs
<1> QED BY <1>6, <1>7, <1>1, <1>2, <1>3 DEF RequestsInv, RequestTypes

\* Nobody is connected and the cache is empty (Crash, Drained).
LEMMA AllGone ==
  ASSUME RequestsInv, \A c \in Conns : conn'[c].pc = "closed",
         conn' \in [Conns -> ConnRow],
         replay' = [i \in Ids |-> NoEntry], order' = << >>,
         UNCHANGED <<mutation, executed, told>>
  PROVE  RequestsInv'
<1>1. RequestTypes /\ OwnersInv /\ OutcomesInv BY DEF RequestsInv
<1>2. RequestTypes' BY <1>1, IdleRows DEF RequestTypes
<1>3. \A c \in Conns : /\ ~IsOwner(conn'[c]) /\ ~IsHolder(conn'[c])
                       /\ ~Deciding(conn'[c]) /\ WorksOn(conn'[c]) BY DEF IsOwner, IsHolder, Deciding, WorksOn
<1>4. OutcomesInv'
  BY <1>1, <1>3, IdleRows DEF OutcomesInv, DecidesSettled, RemembersSettled, Remembers, SettledAs, HeldBy
<1> QED BY <1>2, <1>4, <1>3 DEF RequestsInv, OwnersInv, OwnsEntry, HoldsRow

-----------------------------------------------------------------------------
(* The actions *)

LEMMA RequestsInitially == RequestsInit => RequestsInv
<1> SUFFICES ASSUME RequestsInit PROVE RequestsInv OBVIOUS
<1>1. /\ conn = [c \in Conns |-> Closed]
      /\ replay = [i \in Ids |-> NoEntry] /\ order = << >>
      /\ mutation = [i \in Ids |-> NoEntry] /\ executed = [i \in Ids |-> 0]
      /\ told = {} BY DEF RequestsInit
<1>2. \A c \in Conns : /\ ~IsOwner(conn[c]) /\ ~IsHolder(conn[c])
                       /\ ~Deciding(conn[c]) /\ WorksOn(conn[c])
  BY <1>1, IdleRows DEF IsOwner, IsHolder, Deciding, WorksOn
<1>3. OutcomesInv BY <1>1, <1>2 DEF OutcomesInv, DecidesSettled, RemembersSettled, Remembers, Journaled, NoEntry
<1> QED BY <1>3, <1>2, <1>1, IdleRows DEF RequestsInv, OwnersInv, OwnsEntry, HoldsRow, RequestTypes

\* Where a connection is and what it works on.
LEMMA ConnFacts ==
  ASSUME RequestsInv, NEW c \in Conns
  PROVE  /\ conn[c] \in ConnRow
         /\ WorksOn(conn[c])
         /\ conn[c].id \in Ids \cup {"none"}
         /\ conn[c].op \in Operations \cup {"none"}
         /\ conn[c].resp \in Responses \cup {"none"}
         /\ conn[c].note \in {"none", "live", "spent"}
         /\ conn[c].woken \in BOOLEAN
  BY DEF RequestsInv, RequestTypes, OwnersInv, ConnRow

LEMMA AcceptKeeps ==
  ASSUME RequestsInv, NEW c \in Conns, Accept(c) PROVE RequestsInv'
  BY Bystander, IdleRows DEF Accept, At, IsOwner, WorksOn

LEMMA HangupKeeps ==
  ASSUME RequestsInv, NEW c \in Conns, Hangup(c) PROVE RequestsInv'
  BY Bystander, IdleRows DEF Hangup, At, IsOwner, WorksOn

LEMMA ReadLineKeeps ==
  ASSUME RequestsInv, NEW c \in Conns, NEW i \in Ids, NEW o \in Operations,
         ReadLine(c, i, o)
  PROVE  RequestsInv'
<1>1. PICK p \in {"begin", "dispatch"} : p = IF o \in NonIdempotent THEN "begin" ELSE "dispatch" OBVIOUS
<1>2. PICK rec : rec = [[[Reading EXCEPT !.pc = p] EXCEPT !.id = i] EXCEPT !.op = o] OBVIOUS
<1>3. rec \in ConnRow /\ rec.pc = p /\ rec.id = i /\ rec.op = o BY <1>2, IdleRows DEF ConnRow
<1>4. ~IsOwner(conn[c]) BY DEF ReadLine, At, IsOwner
<1>5. UNCHANGED <<cache, mutation, executed, told>> BY DEF ReadLine
<1> QED BY <1>3, <1>4, <1>5, Bystander, <1>1, <1>2 DEF ReadLine, WorksOn, IsOwner

\* Answering from the cache, a conflict or a full cache: what is told is what
\* the entry remembers.
LEMMA BeginAnswers ==
  ASSUME RequestsInv, NEW c \in Conns, At(c, "begin"), NEW r,
         \/ r \in {"conflict", "limit"}
         \/ /\ replay[conn[c].id].status = "complete"
            /\ replay[conn[c].id].op = conn[c].op
            /\ r = replay[conn[c].id].resp,
         Answer(c, r), UNCHANGED <<cache, mutation, executed>>
  PROVE  RequestsInv'
<1>1. PICK rec : rec = AfterWrite(r) OBVIOUS
<1>2. conn' = [conn EXCEPT ![c] = rec] BY <1>1 DEF Answer
<1>3. \A i \in Ids, o \in Durable, q \in DispatchOutcomes :
          <<i, o, q>> \in told' => <<i, o, q>> \in told \/ SettledAs(i, o, q)
  <2> SUFFICES ASSUME NEW i \in Ids, NEW o \in Durable, NEW q \in DispatchOutcomes,
                      <<i, o, q>> \in told', <<i, o, q>> \notin told
               PROVE  SettledAs(i, o, q) OBVIOUS
  <2> QED BY DEF RemembersSettled, RequestsInv, OutcomesInv, Remembers, DispatchOutcomes, Results, Answer, Written
<1> QED BY <1>2, <1>3, Bystander, <1>1, IdleRows DEF WorksOn, IsOwner, At, AfterWrite

\* What begin decides, and what that says of the entry.
LEMMA DecisionFacts ==
  ASSUME RequestTypes, NEW i \in Ids, NEW o
  PROVE  /\ Decision(i, o) \in {"conflict", "wait", "cached", "full", "execute"}
         /\ Decision(i, o) = "cached" => replay[i].status = "complete" /\ replay[i].op = o
  BY DEF Decision, RequestTypes, EntryRow

LEMMA BeginKeeps ==
  ASSUME RequestsInv, NEW c \in Conns, Begin(c) PROVE RequestsInv'
<1> DEFINE i == conn[c].id
           o == conn[c].op
           d == Decision(i, o)
<1>1. At(c, "begin") /\ UNCHANGED <<mode, mutation, executed, budget>> BY DEF Begin
<1>2. /\ conn[c] \in ConnRow /\ i \in Ids /\ o \in NonIdempotent
      /\ conn[c].pc = "begin" BY <1>1, ConnFacts DEF At, WorksOn
<1>3. /\ d \in {"conflict", "wait", "cached", "full", "execute"}
      /\ d = "cached" => replay[i].status = "complete" /\ replay[i].op = o BY <1>2, DecisionFacts DEF RequestsInv
<1>4. ~IsOwner(conn[c]) BY <1>2 DEF IsOwner
<1>5. \/ d = "conflict" /\ Answer(c, "conflict") /\ UNCHANGED cache
      \/ d = "full" /\ Answer(c, "limit") /\ UNCHANGED cache
      \/ d = "cached" /\ Answer(c, replay[i].resp) /\ UNCHANGED cache
      \/ /\ d = "wait"
         /\ conn' = [conn EXCEPT ![c].pc = "register", ![c].note = "live", ![c].woken = FALSE]
         /\ UNCHANGED <<cache, told>>
      \/ /\ d = "execute" /\ InsertEntry(i, o)
         /\ Goto(c, IF o \in Durable THEN "journal" ELSE "dispatch")
         /\ UNCHANGED told BY DEF Begin
<1> HIDE DEF d
<1>6. CASE d = "conflict" /\ Answer(c, "conflict") /\ UNCHANGED cache BY <1>1, <1>6, BeginAnswers
<1>7. CASE d = "full" /\ Answer(c, "limit") /\ UNCHANGED cache BY <1>1, <1>7, BeginAnswers
<1>8. CASE d = "cached" /\ Answer(c, replay[i].resp) /\ UNCHANGED cache BY <1>1, <1>3, <1>8, BeginAnswers
<1>9. CASE /\ d = "wait"
           /\ conn' = [conn EXCEPT ![c].pc = "register", ![c].note = "live", ![c].woken = FALSE]
           /\ UNCHANGED <<cache, told>>
  <2>1. PICK rec : rec = [[[conn[c] EXCEPT !.pc = "register"] EXCEPT !.note = "live"]
                             EXCEPT !.woken = FALSE] OBVIOUS
  <2>2. rec \in ConnRow /\ rec.pc = "register" /\ rec.id = i /\ rec.op = o BY <1>2, <2>1 DEF ConnRow
  <2> QED BY <1>1, <1>4, <1>9, <2>2, Bystander, <2>1, <1>2 DEF RequestsInv, RequestTypes, WorksOn, IsOwner, Operations
<1>10. CASE /\ d = "execute" /\ InsertEntry(i, o)
            /\ Goto(c, IF o \in Durable THEN "journal" ELSE "dispatch")
            /\ UNCHANGED told
  <2>1. PICK p \in {"journal", "dispatch"} : p = IF o \in Durable THEN "journal" ELSE "dispatch" OBVIOUS
  <2>2. PICK rec : rec = [conn[c] EXCEPT !.pc = p] OBVIOUS
  <2>3. conn' = [conn EXCEPT ![c] = rec] BY <1>10, <2>1, <2>2 DEF RequestsInv, RequestTypes, Goto
  <2>4. Decision(i, o) = "execute" /\ InsertEntry(i, o) BY <1>10 DEF d
  <2>5. UNCHANGED <<mutation, executed, told>> BY <1>1, <1>10
  <2> QED BY <1>2, <1>4, <2>3, <2>4, <2>5, TakesEntry, <2>1, <2>2 DEF WorksOn, IsHolder, Deciding, Operations, ConnRow
<1> QED BY <1>5, <1>6, <1>7, <1>8, <1>9, <1>10

\* A connection changes its place only.
LEMMA GotoRow ==
  ASSUME RequestsInv, NEW c \in Conns, NEW p, Goto(c, p),
         p \in {"begin", "register", "recheck", "await", "journal", "dispatch",
                "running", "store", "complete"}
  PROVE  \E rec \in ConnRow :
            /\ conn' = [conn EXCEPT ![c] = rec]
            /\ rec.pc = p /\ rec.id = conn[c].id /\ rec.op = conn[c].op
            /\ rec.resp = conn[c].resp
<1>1. PICK rec : rec = [conn[c] EXCEPT !.pc = p] OBVIOUS
<1>2. /\ rec \in ConnRow /\ rec.pc = p /\ rec.id = conn[c].id /\ rec.op = conn[c].op
      /\ rec.resp = conn[c].resp BY <1>1, ConnFacts DEF ConnRow
<1> QED BY <1>2, <1>1 DEF RequestsInv, RequestTypes, Goto

LEMMA WaitingKeeps ==
  ASSUME RequestsInv, NEW c \in Conns, NEW p \in {"begin", "recheck", "await"},
         conn[c].pc \in {"register", "recheck", "await"},
         Goto(c, p), UNCHANGED <<cache, mutation, executed, told>>
  PROVE  RequestsInv'
<1>1. PICK rec \in ConnRow :
            /\ conn' = [conn EXCEPT ![c] = rec]
            /\ rec.pc = p /\ rec.id = conn[c].id /\ rec.op = conn[c].op BY GotoRow
<1> QED BY <1>1, Bystander, ConnFacts DEF IsOwner, WorksOn, Operations

LEMMA RegisterKeeps ==
  ASSUME RequestsInv, NEW c \in Conns, Register(c) PROVE RequestsInv'
  BY WaitingKeeps DEF Register, At

LEMMA AwaitKeeps ==
  ASSUME RequestsInv, NEW c \in Conns, Await(c) PROVE RequestsInv'
  BY WaitingKeeps DEF Await, At

LEMMA RecheckKeeps ==
  ASSUME RequestsInv, NEW c \in Conns, Recheck(c) PROVE RequestsInv'
<1> DEFINE i == conn[c].id
           o == conn[c].op
<1>1. /\ conn[c].pc = "recheck"
      /\ UNCHANGED <<mutation, executed, told>>
      /\ IF Decision(i, o) = "wait" THEN Goto(c, "await") ELSE Goto(c, "begin")
      /\ IF Decision(i, o) = "execute" THEN InsertEntry(i, o) ELSE UNCHANGED cache BY DEF Recheck, At
<1>2. CASE Decision(i, o) # "execute" BY <1>1, WaitingKeeps, <1>2
<1>3. CASE Decision(i, o) = "execute"
  <2>1. Goto(c, "begin") /\ InsertEntry(i, o) BY <1>1, <1>3
  <2>2. PICK rec \in ConnRow :
            /\ conn' = [conn EXCEPT ![c] = rec]
            /\ rec.pc = "begin" /\ rec.id = i /\ rec.op = o BY <2>1, GotoRow
  <2>3. UNCHANGED <<mutation, executed, told>> BY <1>1
  <2> QED BY <1>3, <2>1, <2>2, <2>3, TakesEntry, <1>1, ConnFacts DEF WorksOn, IsHolder, Deciding, IsOwner, Operations
<1> QED BY <1>2, <1>3

\* The row of the connection after a step that gives it an outcome.
LEMMA OutcomeRow ==
  ASSUME RequestsInv, NEW c \in Conns, NEW p \in {"store", "complete"},
         NEW r \in Responses \cup {"none"},
         conn' = [conn EXCEPT ![c].pc = p, ![c].resp = r]
  PROVE  \E rec \in ConnRow :
            /\ conn' = [conn EXCEPT ![c] = rec]
            /\ rec.pc = p /\ rec.id = conn[c].id /\ rec.op = conn[c].op
            /\ rec.resp = r
<1>1. PICK rec : rec = [[conn[c] EXCEPT !.pc = p] EXCEPT !.resp = r] OBVIOUS
<1>2. /\ rec \in ConnRow /\ rec.pc = p /\ rec.id = conn[c].id /\ rec.op = conn[c].op
      /\ rec.resp = r BY <1>1, ConnFacts DEF ConnRow
<1> QED BY <1>2, <1>1 DEF RequestsInv, RequestTypes

\* A step of an owner that leaves the journal alone.
LEMMA OwnerKeepsRow ==
  ASSUME RequestsInv, NEW c \in Conns, NEW rec \in ConnRow,
         IsOwner(conn[c]), IsOwner(rec), WorksOn(rec),
         rec.id = conn[c].id, rec.op = conn[c].op,
         conn' = [conn EXCEPT ![c] = rec],
         UNCHANGED <<cache, mutation, executed, told>>,
         IsHolder(rec) => IsHolder(conn[c]),
         IsHolder(rec) => HoldsRow(rec, mutation[conn[c].id], executed[conn[c].id]),
         DecidesSettled(c)'
  PROVE  RequestsInv'
<1>1. PICK i \in Ids : i = conn[c].id BY ConnFacts DEF WorksOn, IsOwner
<1>2. PICK mrow \in JournalRow, x \in Nat : mrow = mutation[i] /\ x = executed[i] BY DEF RequestsInv, RequestTypes
<1>3. HoldsRow(rec, mrow, x) BY <1>1, <1>2 DEF HoldsRow
<1>4. UNCHANGED <<cache, told>> OBVIOUS
<1> QED BY <1>1, <1>2, <1>3, <1>4, OwnerMoves DEF RequestsInv, RequestTypes, OutcomesInv

\* What begin_mutation decides for a row.
LEMMA BeginMutationKeeps ==
  ASSUME RequestsInv, NEW c \in Conns, BeginMutation(c) PROVE RequestsInv'
<1> DEFINE i == conn[c].id
           o == conn[c].op
           d == MutationDecision(mutation[i], o)
<1>1. conn[c].pc = "journal" /\ UNCHANGED <<cache, executed, told>> BY DEF BeginMutation, At
<1>2. i \in Ids /\ o \in Durable BY <1>1, ConnFacts DEF WorksOn
<1>3. IsOwner(conn[c]) /\ ~IsHolder(conn[c]) BY <1>1, <1>2 DEF IsOwner, IsHolder, NonIdempotent
<1>4. /\ mutation \in [Ids -> JournalRow] /\ executed \in [Ids -> Nat]
      /\ mutation[i] \in JournalRow /\ executed[i] \in Nat
      /\ Journaled(mutation[i], executed[i]) BY <1>2 DEF RequestsInv, RequestTypes, OutcomesInv
<1>5. ~HeldBy(i) BY <1>3 DEF RequestsInv, OwnersInv, HeldBy, IsHolder, IsOwner, NonIdempotent
<1>6. ASSUME NEW r \in Responses \cup {"none"},
             r \in DispatchOutcomes => SettledAs(i, o, r),
             conn' = [conn EXCEPT ![c].pc = "complete", ![c].resp = r],
             UNCHANGED mutation
      PROVE  RequestsInv'
  <2>1. PICK rec \in ConnRow :
            /\ conn' = [conn EXCEPT ![c] = rec]
            /\ rec.pc = "complete" /\ rec.id = i /\ rec.op = o /\ rec.resp = r
    <3>1. PICK p \in {"store", "complete"} : p = "complete" OBVIOUS
    <3>2. conn' = [conn EXCEPT ![c].pc = p, ![c].resp = r] BY <1>6, <3>1
    <3> QED BY <3>1, <3>2, OutcomeRow, ZenonT(40)
  <2>2. IsOwner(rec) /\ ~IsHolder(rec) /\ WorksOn(rec)
    BY <1>2, <2>1 DEF IsOwner, IsHolder, WorksOn, NonIdempotent, Operations
  <2>3. /\ conn'[c] = rec
        /\ \A e \in Conns \ {c} : conn'[e] = conn[e] BY <2>1 DEF RequestsInv, RequestTypes
  <2>4. DecidesSettled(c)' BY <1>6, <2>1, <2>3, <1>5, <2>2 DEF DecidesSettled, Deciding, SettledAs, HeldBy
  <2> QED BY <1>3, <2>1, <2>2, <2>4, OwnerKeepsRow, <1>1, <1>6
<1>7. CASE /\ d = "execute"
           /\ mutation' = [mutation EXCEPT ![i] = [status |-> "PENDING", op |-> o, resp |-> "none"]]
           /\ Goto(c, "dispatch")
  <2>1. mutation[i].status = "none"
    BY <1>7, <1>4 DEF MutationDecision, JournalRow, Responses, DispatchOutcomes, Results
  <2>2. PICK mrow : mrow = [status |-> "PENDING", op |-> o, resp |-> "none"] OBVIOUS
  <2>3. mrow \in JournalRow /\ mrow.status = "PENDING" /\ mrow.op = o BY <1>2, <2>2 DEF JournalRow
  <2>4. PICK rec \in ConnRow :
            /\ conn' = [conn EXCEPT ![c] = rec]
            /\ rec.pc = "dispatch" /\ rec.id = i /\ rec.op = o BY <1>7, GotoRow
  <2>5. IsOwner(rec) /\ WorksOn(rec) BY <1>2, <2>4 DEF IsOwner, WorksOn, NonIdempotent, Operations
  <2>6. HoldsRow(rec, mrow, 0) /\ Journaled(mrow, 0) BY <2>3, <2>4 DEF HoldsRow, Journaled
  <2>7. DecidesSettled(c)' BY <2>4 DEF DecidesSettled, Deciding, RequestsInv, RequestTypes
  <2>8. executed' = [executed EXCEPT ![i] = 0] BY <1>1, <1>4, <2>1 DEF Journaled
  <2>9. mutation' = [mutation EXCEPT ![i] = mrow] BY <1>7, <2>2
  <2>10. UNCHANGED <<cache, told>> /\ 0 \in Nat BY <1>1
  <2> QED BY <1>2, <1>3, <2>1, <2>3, <2>4, <2>5, <2>6, <2>7, <2>8, <2>9, <2>10, OwnerMoves
<1>8. CASE /\ d # "execute"
           /\ conn' = [conn EXCEPT ![c].pc = "complete", ![c].resp = d]
           /\ UNCHANGED mutation
  <2>1. mutation[i].status \in {"none", "PENDING", "COMPLETE"}
        /\ mutation[i].resp \in Responses \cup {"none"} BY <1>4 DEF JournalRow
  <2>2. \/ d = "conflict"
        \/ mutation[i].op = o /\ mutation[i].status = "COMPLETE" /\ d = mutation[i].resp
        \/ mutation[i].op = o /\ mutation[i].status = "PENDING" /\ d = "unknown" BY <1>8, <2>1 DEF MutationDecision
  <2> QED BY <1>6, <1>8, <2>1, <2>2, <1>5 DEF Responses, DispatchOutcomes, Results, SettledAs
<1>9. CASE /\ conn' = [conn EXCEPT ![c].pc = "complete", ![c].resp = "journal"]
           /\ UNCHANGED mutation BY <1>6, <1>9 DEF Responses, DispatchOutcomes, Results
<1> QED BY <1>7, <1>8, <1>9 DEF BeginMutation

LEMMA DispatchKeeps ==
  ASSUME RequestsInv, NEW c \in Conns, Dispatch(c) PROVE RequestsInv'
<1> DEFINE i == conn[c].id
           o == conn[c].op
<1>1. conn[c].pc = "dispatch" /\ UNCHANGED <<cache, mutation, told>> BY DEF Dispatch, At
<1>2. i \in Ids /\ o \in Operations BY <1>1, ConnFacts DEF WorksOn
<1>3. PICK rec \in ConnRow :
          /\ conn' = [conn EXCEPT ![c] = rec]
          /\ rec.pc = "running" /\ rec.id = i /\ rec.op = o BY GotoRow DEF Dispatch
<1>4. WorksOn(rec) /\ DecidesSettled(c)'
  BY <1>2, <1>3 DEF WorksOn, DecidesSettled, Deciding, RequestsInv, RequestTypes
<1>5. /\ mutation \in [Ids -> JournalRow] /\ executed \in [Ids -> Nat]
      /\ mutation[i] \in JournalRow
      /\ Journaled(mutation[i], executed[i])
      /\ HoldsRow(conn[c], mutation[i], executed[i]) BY <1>2 DEF RequestsInv, RequestTypes, OutcomesInv, OwnersInv
<1>6. CASE o \in Durable
  <2>1. IsOwner(conn[c]) /\ IsHolder(conn[c]) /\ IsOwner(rec) BY <1>1, <1>3, <1>6 DEF IsOwner, IsHolder, NonIdempotent
  <2>2. mutation[i].status = "PENDING" /\ mutation[i].op = o /\ executed[i] = 0 BY <1>1, <1>5, <2>1 DEF HoldsRow
  <2>3. executed' = [executed EXCEPT ![i] = 1] BY <1>2, <1>5, <1>6, <2>2 DEF Dispatch
  <2>4. PICK mrow \in JournalRow : mrow = mutation[i] BY <1>5
  <2>5. mutation' = [mutation EXCEPT ![i] = mrow] BY <1>1, <1>5, <2>4
  <2>6. HoldsRow(rec, mrow, 1) /\ Journaled(mrow, 1) BY <1>3, <2>2, <2>4 DEF HoldsRow, Journaled
  <2>7. UNCHANGED <<cache, told>> /\ 1 \in Nat BY <1>1
  <2> QED BY <1>2, <1>3, <1>4, <2>1, <2>2, <2>3, <2>4, <2>5, <2>6, <2>7, OwnerMoves
<1>7. CASE o \notin Durable
  <2>1. UNCHANGED <<cache, mutation, executed, told>> BY <1>1, <1>7 DEF Dispatch
  <2>2. CASE o \in Volatile BY <1>3, <1>4, <2>1, OwnerKeepsRow, <1>7, <1>1, <2>2 DEF IsHolder, IsOwner, NonIdempotent
  <2>3. CASE o \notin Volatile BY <1>3, <1>4, <2>1, Bystander, <1>7, <2>3 DEF IsOwner, NonIdempotent
  <2> QED BY <2>2, <2>3
<1> QED BY <1>6, <1>7

LEMMA ReturnKeeps ==
  ASSUME RequestsInv, NEW c \in Conns, NEW r \in Results, Return(c, r)
  PROVE  RequestsInv'
<1> DEFINE i == conn[c].id
           o == conn[c].op
<1>1. conn[c].pc = "running" /\ UNCHANGED <<cache, mutation, executed>> BY DEF Return, At
<1>2. CASE o \in Idempotent /\ Answer(c, r)
  <2>1. PICK rec : rec = AfterWrite(r) OBVIOUS
  <2>2. o \notin NonIdempotent BY <1>2, ClassAssumption DEF NonIdempotent
  <2>3. conn' = [conn EXCEPT ![c] = rec] BY <1>2, <2>1 DEF Answer
  <2>4. told' = told BY <1>2, <2>2 DEF Answer, Written, NonIdempotent
  <2> QED BY <1>1, <2>3, <2>4, Bystander, <2>2, <2>1, IdleRows DEF WorksOn, IsOwner, AfterWrite
<1>3. CASE /\ o \notin Idempotent
           /\ conn' = [conn EXCEPT ![c].resp = r,
                         ![c].pc = IF o \in Durable THEN "store" ELSE "complete"]
           /\ UNCHANGED told
  <2>1. PICK p \in {"store", "complete"} : p = IF o \in Durable THEN "store" ELSE "complete" OBVIOUS
  <2>2. PICK rec : rec = [[conn[c] EXCEPT !.resp = r] EXCEPT !.pc = p] OBVIOUS
  <2>3. rec \in ConnRow /\ rec.pc = p /\ rec.id = i /\ rec.op = o /\ rec.resp = r
    BY <2>2, ConnFacts DEF ConnRow, Responses, DispatchOutcomes
  <2>4. conn' = [conn EXCEPT ![c] = rec] BY <1>3, <2>1, <2>2 DEF RequestsInv, RequestTypes
  <2>5. IsOwner(conn[c]) /\ IsOwner(rec) /\ WorksOn(rec)
    BY <1>1, <2>1, <2>3, <1>3, ConnFacts DEF IsOwner, WorksOn, Operations
  <2>6. IsHolder(rec) => IsHolder(conn[c]) BY <1>1, <2>3 DEF IsHolder
  <2>7. IsHolder(rec) => HoldsRow(rec, mutation[conn[c].id], executed[conn[c].id])
    BY <1>1, <2>3, <2>6 DEF HoldsRow, RequestsInv, OwnersInv
  <2> QED
    BY <2>3, <2>4, <2>5, <2>6, <2>7, OwnerKeepsRow, <1>1, <1>3, <2>1 DEF DecidesSettled, Deciding, RequestsInv,
      RequestTypes
<1> QED BY <1>2, <1>3 DEF Return

LEMMA StoreKeeps ==
  ASSUME RequestsInv, NEW c \in Conns, Store(c) PROVE RequestsInv'
<1> DEFINE i == conn[c].id
           o == conn[c].op
           r == conn[c].resp
<1>1. conn[c].pc = "store" /\ UNCHANGED <<cache, executed, told>> BY DEF Store, At
<1>2. i \in Ids /\ o \in Durable BY <1>1, ConnFacts DEF WorksOn
<1>3. IsOwner(conn[c]) /\ IsHolder(conn[c]) BY <1>1, <1>2 DEF IsOwner, IsHolder, NonIdempotent
<1>4. /\ mutation \in [Ids -> JournalRow] /\ executed \in [Ids -> Nat]
      /\ mutation[i] \in JournalRow
      /\ HoldsRow(conn[c], mutation[i], executed[i]) BY <1>2 DEF RequestsInv, RequestTypes, OwnersInv
<1>5. /\ mutation[i].status = "PENDING" /\ mutation[i].op = o
      /\ executed[i] = 1 /\ r \in Results BY <1>1, <1>3, <1>4 DEF HoldsRow
<1>6. CASE /\ mutation' = [mutation EXCEPT ![i].status = "COMPLETE", ![i].resp = r]
           /\ Goto(c, "complete")
  <2>1. PICK rec \in ConnRow :
            /\ conn' = [conn EXCEPT ![c] = rec]
            /\ rec.pc = "complete" /\ rec.id = i /\ rec.op = o /\ rec.resp = r BY <1>6, GotoRow
  <2>2. PICK mrow : mrow = [[mutation[i] EXCEPT !.status = "COMPLETE"] EXCEPT !.resp = r] OBVIOUS
  <2>3. mrow \in JournalRow /\ mrow.status = "COMPLETE" /\ mrow.op = o /\ mrow.resp = r
    BY <1>4, <1>5, <2>2 DEF JournalRow, Responses, DispatchOutcomes
  <2>4. mutation' = [mutation EXCEPT ![i] = mrow] BY <1>4, <1>6, <2>2
  <2>5. executed' = [executed EXCEPT ![i] = 1] BY <1>1, <1>4, <1>5
  <2>6. IsOwner(rec) /\ WorksOn(rec) /\ ~IsHolder(rec)
    BY <1>2, <2>1 DEF IsOwner, WorksOn, IsHolder, NonIdempotent, Operations
  <2>7. HoldsRow(rec, mrow, 1) /\ Journaled(mrow, 1) BY <1>5, <2>3, <2>6 DEF HoldsRow, Journaled
  <2>8. DecidesSettled(c)' BY <2>1, <2>3, <1>2, <1>4, <2>4 DEF DecidesSettled, SettledAs, RequestsInv, RequestTypes
  <2>9. UNCHANGED <<cache, told>> /\ 1 \in Nat BY <1>1
  <2> QED BY <1>2, <1>3, <1>5, <2>1, <2>3, <2>4, <2>5, <2>6, <2>7, <2>8, <2>9, OwnerMoves
<1>7. CASE /\ conn' = [conn EXCEPT ![c].pc = "complete", ![c].resp = "unknown"]
           /\ UNCHANGED mutation
  <2>1. PICK p, q : p = "complete" /\ q = "unknown" OBVIOUS
  <2>2. PICK rec : rec = [[conn[c] EXCEPT !.pc = p] EXCEPT !.resp = q] OBVIOUS
  <2>3. /\ rec \in ConnRow /\ conn' = [conn EXCEPT ![c] = rec]
        /\ rec.pc = p /\ rec.id = i /\ rec.op = o /\ rec.resp = q
    BY <1>7, <2>1, <2>2, ConnFacts DEF RequestsInv, RequestTypes, ConnRow, Responses, DispatchOutcomes
  <2>4. IsOwner(rec) /\ WorksOn(rec) /\ ~IsHolder(rec)
    BY <1>2, <2>1, <2>3 DEF IsOwner, WorksOn, IsHolder, NonIdempotent, Operations
  <2>5. /\ conn'[c] = rec
        /\ \A e \in Conns \ {c} : conn'[e] = conn[e] BY <2>3 DEF RequestsInv, RequestTypes
  <2>6. \A e \in Conns \ {c} : ~(IsHolder(conn[e]) /\ conn[e].id = i)
    BY <1>3 DEF RequestsInv, OwnersInv, IsHolder, IsOwner, NonIdempotent
  <2>7. PICK j \in Ids : j = i BY <1>2
  <2>8. DecidesSettled(c)' BY <1>5, <1>7, <2>1, <2>3, <2>5, <2>7, <2>4, <2>6 DEF DecidesSettled, SettledAs, HeldBy
  <2> QED BY <1>3, <2>3, <2>4, <2>8, OwnerKeepsRow, <1>1, <1>7
<1> QED BY <1>6, <1>7 DEF Store

LEMMA CompleteKeeps ==
  ASSUME RequestsInv, NEW c \in Conns, Complete(c) PROVE RequestsInv'
<1>1. /\ conn[c].pc = "complete" /\ UNCHANGED <<order, mutation, executed>>
      /\ replay' = Publish(conn[c].id, conn[c].op, conn[c].resp)
      /\ conn' = [Wake(conn[c].id, conn[c].op) EXCEPT ![c] = AfterWrite(conn[c].resp)]
      /\ told' = Written(c, conn[c].resp) BY DEF Complete, At
<1>2. PICK i \in Ids, o \in NonIdempotent, r \in Responses \cup {"none"} :
          i = conn[c].id /\ o = conn[c].op /\ r = conn[c].resp BY <1>1, ConnFacts DEF WorksOn
<1>3. PICK rec \in {Closed, Reading} : rec = AfterWrite(r) BY DEF AfterWrite
<1>4. rec \in ConnRow /\ rec.pc \in {"closed", "reading"} BY IdleRows
<1>5. /\ conn' = [Wake(i, o) EXCEPT ![c] = rec]
      /\ replay' = Publish(i, o, r)
      /\ UNCHANGED <<order, mutation, executed>> BY <1>1, <1>2, <1>3
<1>6. IsOwner(conn[c]) /\ ~IsHolder(conn[c]) /\ ~IsHolder(rec) BY <1>1, <1>2, <1>4 DEF IsOwner, IsHolder
<1>7. /\ conn'[c] = rec
      /\ \A d \in Conns \ {c} : conn'[d].pc = conn[d].pc /\ conn'[d].id = conn[d].id
                               /\ conn'[d].op = conn[d].op BY <1>4, <1>5, WakeKeeps DEF RequestsInv, Operations
<1>8. \A j : HeldBy(j)' => HeldBy(j) BY <1>6, <1>7 DEF HeldBy, IsHolder
<1>9. o \in Durable /\ r \in DispatchOutcomes => SettledAs(i, o, r)'
  BY <1>5, <1>8, SettledStays, <1>1, <1>2 DEF DecidesSettled, Deciding, RequestsInv, OutcomesInv
<1>10. \A j \in Ids, p \in Durable, q \in DispatchOutcomes :
          <<j, p, q>> \in told' => <<j, p, q>> \in told \/ SettledAs(j, p, q)'
  <2> SUFFICES ASSUME NEW j \in Ids, NEW p \in Durable, NEW q \in DispatchOutcomes,
                      <<j, p, q>> \in told', <<j, p, q>> \notin told
               PROVE  SettledAs(j, p, q)' OBVIOUS
  <2> QED BY <1>9, <1>1, <1>2 DEF Written
<1> QED BY <1>2, <1>5, <1>6, <1>9, <1>10, OwnerLeaves

\* A task that is dropped while its operation runs leaves a row that stays
\* PENDING: nobody can take it up again.
LEMMA DropKeeps ==
  ASSUME RequestsInv, NEW c \in Conns, Drop(c) PROVE RequestsInv'
<1>1. /\ conn[c].pc = "running" /\ conn[c].op \in NonIdempotent
      /\ UNCHANGED <<order, mutation, executed, told>>
      /\ replay' = Publish(conn[c].id, conn[c].op, "timeout")
      /\ conn' = [Wake(conn[c].id, conn[c].op) EXCEPT ![c] = Closed] BY DEF Drop, At
<1>2. PICK i \in Ids, o \in NonIdempotent, r \in Responses \cup {"none"}, rec \in {Closed, Reading} :
          i = conn[c].id /\ o = conn[c].op /\ r = "timeout" /\ rec = Closed
  BY <1>1, ConnFacts DEF WorksOn, Responses, DispatchOutcomes, Results
<1>3. IsOwner(conn[c]) BY <1>1 DEF IsOwner
<1>4. /\ conn' = [Wake(i, o) EXCEPT ![c] = rec]
      /\ replay' = Publish(i, o, r) BY <1>1, <1>2
<1>5. rec \in ConnRow /\ rec.pc = "closed" BY <1>2, IdleRows
<1>6. /\ conn'[c] = rec
      /\ \A d \in Conns \ {c} : conn'[d].pc = conn[d].pc /\ conn'[d].id = conn[d].id
                               /\ conn'[d].op = conn[d].op BY <1>4, <1>5, WakeKeeps DEF RequestsInv, Operations
<1>7. ~HeldBy(i)'
  <2>1. ~IsHolder(conn'[c]) BY <1>5, <1>6 DEF IsHolder
  <2> QED BY <2>1, <1>6, <1>2, <1>3 DEF HeldBy, IsHolder, RequestsInv, OwnersInv, IsOwner, NonIdempotent
<1>8. o \in Durable => mutation[i].status = "PENDING" /\ mutation[i].op = o
  BY <1>1, <1>2 DEF HoldsRow, IsHolder, RequestsInv, OwnersInv
<1>9. o \in Durable /\ r \in DispatchOutcomes => SettledAs(i, o, r)' BY <1>1, <1>2, <1>7, <1>8 DEF SettledAs
<1>10. UNCHANGED <<order, mutation, executed>> /\ told' = told BY <1>1
<1> QED BY <1>2, <1>3, <1>4, <1>9, <1>10, OwnerLeaves

LEMMA DrainedKeeps ==
  ASSUME RequestsInv, Drained PROVE RequestsInv'
  BY AllGone DEF Drained, At, RequestsInv, RequestTypes

LEMMA CrashKeeps ==
  ASSUME RequestsInv, Crash PROVE RequestsInv'
  BY AllGone, IdleRows DEF Crash

\* Shutdown, Restart and stuttering touch nothing the invariant speaks of.
LEMMA RequestsUntouched ==
  ASSUME RequestsInv, UNCHANGED <<conn, cache, mutation, executed, told>>
  PROVE  RequestsInv'
  BY DEF cache, RequestsInv, RequestTypes, OwnersInv, OutcomesInv, SettledAs, HeldBy, DecidesSettled, RemembersSettled

LEMMA RequestsStep == RequestsInv /\ [RequestsNext]_rvars => RequestsInv'
<1> SUFFICES ASSUME RequestsInv, [RequestsNext]_rvars PROVE RequestsInv' OBVIOUS
<1>1. ASSUME NEW c \in Conns, Handle(c) PROVE RequestsInv'
  BY <1>1, BeginKeeps, RegisterKeeps, RecheckKeeps, AwaitKeeps, BeginMutationKeeps, DispatchKeeps, StoreKeeps,
    CompleteKeeps, ReturnKeeps DEF Handle
<1>2. ASSUME NEW c \in Conns, \/ Accept(c) \/ Hangup(c) \/ Drop(c)
                              \/ \E i \in Ids, o \in Operations : ReadLine(c, i, o)
      PROVE  RequestsInv' BY <1>2, AcceptKeeps, HangupKeeps, DropKeeps, ReadLineKeeps
<1>3. CASE Shutdown \/ Restart BY <1>3, RequestsUntouched DEF Shutdown, Restart
<1>4. CASE UNCHANGED rvars BY <1>4, RequestsUntouched DEF rvars, cache
<1> QED BY <1>1, <1>2, <1>3, <1>4, DrainedKeeps, CrashKeeps DEF RequestsNext

LEMMA RequestsAlways == RequestsSpec => []RequestsInv
  BY RequestsInitially, RequestsStep, PTL DEF RequestsSpec

-----------------------------------------------------------------------------
(* What follows *)

LEMMA RequestsAreOnce == RequestsInv => OncePerRequest
<1> SUFFICES ASSUME RequestsInv PROVE AtMostOnce /\ StableAnswers BY DEF OncePerRequest
<1>1. \A i \in Ids, o \in Durable, r \in DispatchOutcomes :
           <<i, o, r>> \in told => SettledAs(i, o, r) BY DEF RequestsInv, OutcomesInv
<1>2. {"ok", "failed", "timeout", "unknown"} = DispatchOutcomes BY DEF DispatchOutcomes, Results
<1>3. StableAnswers
  <2> SUFFICES ASSUME NEW i \in Ids, NEW o \in Durable
               PROVE  Cardinality({"ok", "failed"} \cap Told(i, o))
                        + (IF Told(i, o) \cap {"timeout", "unknown"} = {} THEN 0 ELSE 1) <= 1 BY DEF StableAnswers
  <2>1. \A r \in {"ok", "failed", "timeout", "unknown"} : r \in Told(i, o) => SettledAs(i, o, r)
    BY <1>1, <1>2 DEF Told
  <2>2. Cardinality({}) = 0 /\ Cardinality({"ok"}) = 1 /\ Cardinality({"failed"}) = 1 BY FS_EmptySet, FS_Singleton
  <2>3. CASE {"ok", "failed"} \cap Told(i, o) = {} BY <2>2, <2>3
  <2>4. CASE {"ok", "failed"} \cap Told(i, o) # {}
    <3>1. Told(i, o) \cap {"timeout", "unknown"} = {} BY <2>4, <2>1 DEF SettledAs
    <3> QED BY <2>2, <2>4, <3>1, <2>1 DEF SettledAs
  <2> QED BY <2>3, <2>4
<1> QED BY <1>3, <1>1, <1>2 DEF AtMostOnce, Journaled, SettledAs, RequestsInv, OutcomesInv

(***************************************************************************)
(* A terminal mutation is dispatched at most once per request id, and its  *)
(* copies are told one outcome, however many connections retry it, however *)
(* small the replay cache is and however often the daemon is restarted     *)
(* (handle_line, begin_mutation, complete_mutation).                       *)
(***************************************************************************)
THEOREM RetriesAreHarmless == RequestsSpec => []OncePerRequest
  BY RequestsAlways, RequestsAreOnce, PTL

-----------------------------------------------------------------------------
(* The bound of the replay cache *)

CacheInv ==
    /\ \A m, n \in DOMAIN order : order[m] = order[n] => m = n
    /\ {order[n] : n \in DOMAIN order} = Cached
    /\ Len(order) <= Capacity

\* The entries are as many as the places in the order.
LEMMA CachedCounted ==
  ASSUME RequestTypes, CacheInv
  PROVE  Cardinality(Cached) = Len(order) /\ Cardinality(Cached) \in Nat
<1>1. order \in Seq(Ids) /\ Len(order) \in Nat /\ DOMAIN order = 1 .. Len(order) BY DEF RequestTypes
<1>2. IsFiniteSet(1 .. Len(order)) /\ Cardinality(1 .. Len(order)) = Len(order)
  <2>1. Cardinality(1 .. Len(order)) = IF 1 > Len(order) THEN 0 ELSE Len(order) - 1 + 1 BY <1>1, FS_Interval
  <2>2. IsFiniteSet(1 .. Len(order)) BY <1>1, FS_Interval
  <2> QED BY <1>1, <2>1, <2>2
<1> DEFINE f == [n \in 1 .. Len(order) |-> order[n]]
<1>3. f \in [1 .. Len(order) -> Cached] BY <1>1 DEF CacheInv
<1>4. \A m, n \in 1 .. Len(order) : f[m] = f[n] => m = n BY <1>1 DEF CacheInv
<1>5. \A i \in Cached : \E n \in 1 .. Len(order) : f[n] = i BY <1>1 DEF CacheInv
<1> HIDE DEF f
<1>6. f \in Bijection(1 .. Len(order), Cached)
  <2>1. f \in Surjection(1 .. Len(order), Cached) BY <1>3, <1>5 DEF Surjection
  <2> QED BY <2>1, <1>3, <1>4 DEF Bijection, Injection, IsInjective
<1>7. Cardinality(Cached) = Len(order) BY <1>1, FS_CountingElements, <1>6 DEF ExistsBijection
<1> QED BY <1>1, <1>2, <1>7

\* An entry is inserted in the place of the oldest complete one when the
\* cache is full.
LEMMA InsertEntryBounded ==
  ASSUME RequestTypes, CacheInv, NEW i \in Ids, NEW o \in NonIdempotent,
         Decision(i, o) = "execute", InsertEntry(i, o)
  PROVE  CacheInv'
<1> DEFINE e == [status |-> "pending", op |-> o, resp |-> "none"]
<1>1. /\ replay \in [Ids -> EntryRow] /\ order \in Seq(Ids)
      /\ Len(order) \in Nat /\ DOMAIN order = 1 .. Len(order)
      /\ replay[i] \in EntryRow /\ Capacity \in Nat \ {0} BY CapacityAssumption DEF RequestTypes
<1>2. replay[i].status = "none" BY InsertEntryFacts
<1>3. e.status = "pending" /\ NoEntry.status = "none" BY IdleRows
<1>4. Cardinality(Cached) = Len(order) BY CachedCounted
<1> HIDE DEF e
<1>5. i \notin Cached /\ Len(order) <= Capacity
      /\ {order[n] : n \in DOMAIN order} = Cached
      /\ \A m, n \in DOMAIN order : order[m] = order[n] => m = n BY <1>2 DEF Cached, CacheInv
<1>6. CASE Len(order) = Capacity
  <2> DEFINE victim == CHOOSE n \in Evictable : \A m \in Evictable : n <= m
             kept   == [n \in 1 .. Len(order) - 1 |->
                          IF n < victim THEN order[n] ELSE order[n + 1]]
  <2>1. Evictable \subseteq Nat BY <1>1 DEF Evictable
  <2>2. victim \in Evictable BY <1>4, <1>6, <2>1, LeastPosition, <1>2 DEF Decision
  <2>3. victim \in 1 .. Len(order) BY <1>1, <2>2 DEF Evictable
  <2>4. /\ replay' = [[replay EXCEPT ![order[victim]] = NoEntry] EXCEPT ![i] = e]
        /\ order' = Append(kept, i) BY <1>4, <1>6 DEF InsertEntry, e
  <2> HIDE DEF victim
  <2>5. PICK v \in Ids : v = order[victim] /\ v \in Cached /\ v # i BY <1>1, <1>5, <2>3
  <2>6. Cached' = (Cached \ {v}) \cup {i} BY <1>3, <1>5, <2>5, <1>1, <2>4 DEF Cached
  <2>7. PICK k \in Nat : k = Len(order) - 1 BY <1>1, <1>6
  <2>8. \A n \in 1 .. k : /\ n \in 1 .. Len(order) /\ n + 1 \in 1 .. Len(order) BY <1>1, <2>7
  <2>9. \A n \in 1 .. k : kept[n] \in Ids /\ kept[n] = (IF n < victim THEN order[n] ELSE order[n + 1])
    BY <1>1, <2>7, <2>8
  <2>10. kept \in Seq(Ids) /\ Len(kept) = k /\ DOMAIN kept = 1 .. k BY <2>7, <2>9
  <2> HIDE DEF kept
  <2>11. \A m, n \in 1 .. k : kept[m] = kept[n] => m = n
    <3>1. PICK w \in Nat : w = victim BY <1>1, <2>3
    <3> SUFFICES ASSUME NEW m \in 1 .. k, NEW n \in 1 .. k, kept[m] = kept[n]
                 PROVE  m = n OBVIOUS
    <3>2. PICK a \in 1 .. Len(order) : a = (IF m < w THEN m ELSE m + 1) /\ kept[m] = order[a] BY <2>8, <2>9, <3>1
    <3>3. PICK b \in 1 .. Len(order) : b = (IF n < w THEN n ELSE n + 1) /\ kept[n] = order[b] BY <2>8, <2>9, <3>1
    <3>4. a = b BY <1>1, <1>5, <3>2, <3>3
    <3> QED BY <2>7, <3>1, <3>2, <3>3, <3>4
  <2>12. \A n \in 1 .. k : kept[n] \in Cached \ {v} BY <1>1, <1>5, <2>3, <2>5, <2>8, <2>9, SMTT(40)
  <2>13. \A j \in Cached \ {v} : \E n \in 1 .. k : kept[n] = j
    <3> SUFFICES ASSUME NEW j \in Cached \ {v} PROVE \E n \in 1 .. k : kept[n] = j OBVIOUS
    <3>1. PICK n \in 1 .. Len(order) : order[n] = j BY <1>1, <1>5
    <3>2. CASE n < victim BY <2>9, <3>1, <3>2, <1>1, <2>3, <2>7
    <3>3. CASE n > victim
      <4>1. PICK p \in 1 .. k : p = n - 1 /\ p + 1 = n /\ ~(p < victim) BY <1>1, <2>3, <2>7, <3>1, <3>3
      <4> QED BY <2>9, <3>1, <4>1
    <3> QED BY <2>3, <3>2, <3>3, <2>5, <3>1
  <2>14. /\ Len(order') = k + 1 /\ DOMAIN order' = 1 .. k + 1
         /\ \A n \in 1 .. k : order'[n] = kept[n]
         /\ order'[k + 1] = i BY <2>4, <2>7, <2>10
  <2>15. {order'[n] : n \in DOMAIN order'} = Cached'
    <3>1. \A j \in Cached' : \E n \in 1 .. k + 1 : order'[n] = j
      <4> SUFFICES ASSUME NEW j \in Cached' PROVE \E n \in 1 .. k + 1 : order'[n] = j OBVIOUS
      <4>1. CASE j = i BY <2>7, <2>14, <4>1
      <4>2. CASE j # i
        <5>1. PICK n \in 1 .. k : kept[n] = j BY <2>6, <2>13, <4>2
        <5> QED BY <2>14, <5>1, <2>7
      <4> QED BY <4>1, <4>2
    <3> QED BY <2>14, <3>1, <2>6, <2>7, <2>12
  <2> QED BY <2>15, <1>5, <2>7, <2>11, <2>12, <2>14, <1>1, <1>6 DEF CacheInv
<1>7. CASE Len(order) # Capacity
  <2>1. replay' = [replay EXCEPT ![i] = e] /\ order' = Append(order, i) BY <1>4, <1>7 DEF InsertEntry, e
  <2>2. Cached' = Cached \cup {i} BY <1>3, <1>1, <2>1 DEF Cached
  <2>3. PICK k \in Nat : k = Len(order) BY <1>1
  <2>4. /\ Len(order') = k + 1 /\ DOMAIN order' = 1 .. k + 1
        /\ \A n \in 1 .. k : order'[n] = order[n]
        /\ order'[k + 1] = i BY <1>1, <2>1, <2>3
  <2>5. \A n \in 1 .. k : order[n] \in Cached BY <1>1, <1>5, <2>3
  <2>6. {order'[n] : n \in DOMAIN order'} = Cached'
    <3>1. \A j \in Cached' : \E n \in 1 .. k + 1 : order'[n] = j
      <4> SUFFICES ASSUME NEW j \in Cached' PROVE \E n \in 1 .. k + 1 : order'[n] = j OBVIOUS
      <4>1. CASE j = i BY <2>3, <2>4, <4>1
      <4>2. CASE j # i
        <5>1. PICK n \in 1 .. k : order[n] = j BY <1>1, <1>5, <2>2, <2>3, <4>2
        <5> QED BY <2>4, <5>1, <2>3
      <4> QED BY <4>1, <4>2
    <3> QED BY <2>4, <3>1, <2>2, <2>3, <2>5
  <2>7. Len(order') <= Capacity BY <2>3, <1>1, <1>5, <1>7, <2>4
  <2> QED BY <2>6, <2>7, <1>1, <1>5, <2>3, <2>4, <2>5 DEF CacheInv
<1> QED BY <1>6, <1>7

\* Completing an entry neither adds one nor takes one away.
LEMMA PublishBounded ==
  ASSUME RequestTypes, CacheInv, NEW i, NEW o, NEW r,
         replay' = Publish(i, o, r), order' = order
  PROVE  CacheInv'
<1>1. /\ replay \in [Ids -> EntryRow]
      /\ \A j \in Ids : replay[j] \in EntryRow BY DEF RequestTypes
<1>2. \A j \in Ids : replay'[j].status # "none" <=> replay[j].status # "none"
  <2>1. CASE replay[i].status = "pending" /\ replay[i].op = o /\ i \in Ids
    <3>1. PICK e : e = [replay[i] EXCEPT !.status = "complete", !.resp = r] OBVIOUS
    <3> QED BY <2>1, <1>1, <3>1 DEF EntryRow, Publish
  <2>2. CASE ~(replay[i].status = "pending" /\ replay[i].op = o) BY <2>2 DEF Publish
  <2>3. CASE i \notin Ids BY <1>1, <2>3 DEF Publish
  <2> QED BY <2>1, <2>2, <2>3
<1> QED BY <1>2 DEF CacheInv, Cached

LEMMA CacheInitially == RequestsInit => CacheInv
<1> SUFFICES ASSUME RequestsInit PROVE CacheInv OBVIOUS
<1> QED BY CapacityAssumption, IdleRows DEF CacheInv, RequestsInit, Cached

LEMMA CacheStep == RequestsInv /\ CacheInv /\ [RequestsNext]_rvars => CacheInv'
<1> SUFFICES ASSUME RequestsInv, CacheInv, [RequestsNext]_rvars PROVE CacheInv' OBVIOUS
<1>1. RequestTypes BY DEF RequestsInv
<1>2. ASSUME UNCHANGED cache PROVE CacheInv' BY <1>2 DEF cache, CacheInv, Cached
<1>3. ASSUME replay' = [i \in Ids |-> NoEntry], order' = << >> PROVE CacheInv'
  BY CapacityAssumption, <1>3, IdleRows DEF CacheInv, Cached
<1>4. ASSUME NEW c \in Conns, Begin(c) \/ Recheck(c) PROVE CacheInv'
  BY <1>1, <1>2, InsertEntryBounded, <1>4, ConnFacts DEF Begin, Recheck, WorksOn, At
<1>5. ASSUME NEW c \in Conns, Complete(c) \/ Drop(c) PROVE CacheInv' BY <1>1, <1>5, PublishBounded DEF Complete, Drop
<1>6. ASSUME NEW c \in Conns,
             \/ Accept(c) \/ Hangup(c) \/ Register(c) \/ Await(c) \/ BeginMutation(c)
             \/ Dispatch(c) \/ Store(c) \/ (\E r \in Results : Return(c, r))
             \/ (\E i \in Ids, o \in Operations : ReadLine(c, i, o))
      PROVE  CacheInv'
  BY <1>2, <1>6 DEF Accept, Hangup, Register, Await, BeginMutation, Dispatch, Store, Return, ReadLine
<1>7. CASE Shutdown \/ Restart \/ UNCHANGED rvars BY <1>2, <1>7 DEF Shutdown, Restart, rvars, cache
<1>8. CASE Drained \/ Crash BY <1>3, <1>8 DEF Drained, Crash
<1> QED BY <1>4, <1>5, <1>6, <1>7, <1>8 DEF RequestsNext, Handle

ModeOK == mode \in {"serving", "draining", "down"}

LEMMA ModeStep == ModeOK /\ [RequestsNext]_rvars => ModeOK'
<1> SUFFICES ASSUME ModeOK, [RequestsNext]_rvars PROVE ModeOK' OBVIOUS
<1>1. ASSUME NEW c \in Conns, Handle(c) PROVE mode' = mode
  BY <1>1 DEF Handle, Begin, Register, Recheck, Await, BeginMutation, Dispatch, Return, Store, Complete
<1>2. ASSUME NEW c \in Conns, \/ Accept(c) \/ Hangup(c) \/ Drop(c)
                              \/ \E i \in Ids, o \in Operations : ReadLine(c, i, o)
      PROVE  mode' = mode BY <1>2 DEF Accept, Hangup, Drop, ReadLine
<1>3. CASE Shutdown \/ Drained \/ Crash \/ Restart BY <1>3 DEF ModeOK, Shutdown, Drained, Crash, Restart
<1>4. CASE UNCHANGED rvars BY <1>4 DEF ModeOK, rvars
<1> QED BY <1>1, <1>2, <1>3, <1>4 DEF ModeOK, RequestsNext

(***************************************************************************)
(* The replay cache never remembers more entries than replay_capacity, and *)
(* its order names each of them once: an entry makes room by evicting the  *)
(* oldest complete one, and is refused when there is none                  *)
(* (ReplayCache::begin).                                                   *)
(***************************************************************************)
THEOREM CacheIsBounded == RequestsSpec => []RequestsTypeOK
<1>1. RequestsInit => ModeOK BY DEF RequestsInit, ModeOK
<1>2. RequestsInv /\ CacheInv /\ ModeOK => RequestsTypeOK
  <2> SUFFICES ASSUME RequestsInv, CacheInv, ModeOK
               PROVE  RequestsTypeOK OBVIOUS
  <2> QED
    BY CachedCounted DEF RequestsTypeOK, ModeOK, RequestTypes, CacheInv, ConnRow, EntryRow, JournalRow, RequestsInv
<1> QED BY <1>1, <1>2, RequestsAlways, CacheInitially, CacheStep, ModeStep, PTL DEF RequestsSpec

-----------------------------------------------------------------------------
(***************************************************************************)
(* Files of a workspace                                                    *)
(*                                                                         *)
(* FilesAllOrNothing speaks of the moments no operation is in progress.    *)
(* FilesInv says what the trees are at every step of one: untouched until  *)
(* the rename, and what the operation means to make of them after it; the  *)
(* staged copy equals its source in the entries already copied; what is    *)
(* staged is named by no entry of the workspace.                           *)
(***************************************************************************)
KidKinds == {"none", "file", "link"}
NodeRow  == [kind : {"none", "file", "dir", "link"}, kids : [Children -> KidKinds]]
FileOpRow ==
    [pc : {"idle", "copy", "move", "delete", "copying", "verify", "remove"},
     what : {"none", "copy", "move", "delete"},
     from : FileNames \cup {"none"}, to : FileNames \cup {"none"},
     id : 0 .. MaxInodes, kind : {"none", "file", "dir", "link"},
     staged : 0 .. MaxInodes, todo : SUBSET Children, count : Nat,
     answer : {"none", "ok", "error", "lost"}]
Paths   == FileNames \X (Children \cup {"."})
LookRow == [pc : {"idle", "search"}, todo : SUBSET FileNames, scanned : Nat,
            found : SUBSET Paths, calm : BOOLEAN, truth : SUBSET Paths,
            answer : {"none", "ok", "error"}]

NamesOnce(d) == \A n, m \in FileNames : d[n] = d[m] => n = m \/ d[n] = NoNode
Shaped(t) == t.kind # "dir" => t.kids = Unused.kids

TreeTypes ==
    /\ made \in 0 .. MaxInodes
    /\ dirent \in [FileNames -> 0 .. made]
    /\ NamesOnce(dirent)
    /\ node \in [1 .. MaxInodes -> NodeRow]
    /\ \A i \in 1 .. MaxInodes : Shaped(node[i])
    /\ before \in [FileNames -> NodeRow]
    /\ calm \in BOOLEAN
    /\ op \in FileOpRow

\* What is staged, and what each step is a step of.
StagingInv ==
    /\ op.pc \in {"copying", "remove"} =>
         /\ op.staged \in 1 .. made /\ staging = {op.staged}
         /\ \A n \in FileNames : dirent[n] # op.staged
    /\ op.pc \notin {"copying", "remove"} => staging = {}
    /\ op.pc = "copying" => /\ node[op.staged].kind = op.kind
                            /\ op.kind # "dir" => op.todo = {}
                            /\ op.id # NoNode
    /\ op.pc # "idle" => /\ op.from \in FileNames /\ op.to \in FileNames
                         /\ op.kind \in {"file", "dir"}
    /\ op.pc \in {"copy", "copying"} => op.what = "copy"
    /\ op.pc = "move" => op.what = "move"
    /\ op.pc = "verify" => op.what \in {"copy", "move"}
    /\ op.pc \in {"delete", "remove"} => op.what = "delete"

\* What may be answered of the trees as they are.
Answered(w, trees, effect, answer, to) ==
    /\ trees \in {before, effect}
    /\ answer = "ok" => trees = effect /\ (w # "delete" => before[to] = Unused)
    /\ answer = "error" /\ w # "delete" => trees = before

\* The staged copy is its source, but for the entries to do.
CopiedSoFar ==
    /\ op.id = dirent[op.from] /\ op.id # NoNode
    /\ node[op.id].kind = op.kind
    /\ \A c \in Children :
         node[op.staged].kids[c] = IF c \in op.todo THEN "none" ELSE node[op.id].kids[c]

\* The entry a move takes is the one it found, and still a safe tree.
MoveIsSafe(n) ==
    /\ op.id = dirent[n] /\ op.id # NoNode
    /\ node[op.id].kind = op.kind
    /\ op.kind = "dir" => ValidateTree(op.id)

CalmInv ==
    calm =>
      /\ op.pc = "idle" => Answered(op.what, Trees, Effect, op.answer, op.to)
      /\ op.pc \in {"copy", "move", "delete", "copying"} => Trees = before
      /\ op.pc \in {"verify", "remove"} => Trees = Effect
      /\ op.pc = "copying" => CopiedSoFar
      /\ op.pc = "move" => MoveIsSafe(op.from)
      /\ op.pc = "verify" => before[op.to] = Unused
      /\ op.pc = "verify" /\ op.what = "move" => MoveIsSafe(op.to)

\* A search has found what there was to find in the entries it has visited.
LookInv ==
    /\ look \in LookRow
    /\ look.answer # "none" => look.pc = "idle"
    /\ look.calm /\ look.pc = "search" =>
         /\ look.truth = Matches
         /\ look.found = {p \in look.truth : p[1] \notin look.todo}
    /\ look.calm /\ look.answer = "ok" => look.found = look.truth

FilesInv == TreeTypes /\ StagingInv /\ CalmInv /\ LookInv

LEMMA UnusedRow ==
  /\ Unused \in NodeRow /\ Unused.kind = "none" /\ Shaped(Unused)
  /\ Unused.kids = [c \in Children |-> "none"]
  BY DEF Unused, NodeRow, KidKinds, Shaped

\* Two trees with the same kind and the same children are the same.
LEMMA SameTree ==
  ASSUME NEW s \in NodeRow, NEW t \in NodeRow, s.kind = t.kind,
         \A c \in Children : s.kids[c] = t.kids[c]
  PROVE  s = t
  BY DEF NodeRow

\* What the names stand for when inodes change that no name refers to.
LEMMA TreesStay ==
  ASSUME TreeTypes, dirent' = dirent,
         \A n \in FileNames : dirent[n] # NoNode => node'[dirent[n]] = node[dirent[n]]
  PROVE  /\ Trees' = Trees
         /\ Matches' = Matches
  BY DEF Trees, Tree, Matches, KidsOf

LEMMA TreesTyped ==
  ASSUME TreeTypes
  PROVE  /\ Trees \in [FileNames -> NodeRow]
         /\ \A n \in FileNames : /\ Trees[n] = Tree(n)
                                 /\ Shaped(Trees[n])
                                 /\ dirent[n] = NoNode => Trees[n] = Unused
                                 /\ dirent[n] # NoNode => /\ Trees[n] = node[dirent[n]]
                                                          /\ dirent[n] \in 1 .. MaxInodes
  BY UnusedRow, FilesAssumption DEF Trees, TreeTypes, Tree, NoNode

LEMMA LookStays ==
  ASSUME LookInv, look' = look, Matches' = Matches
  PROVE  LookInv'
  BY DEF LookInv

LEMMA LookDisturbed ==
  ASSUME LookInv, Disturb
  PROVE  LookInv'
<1>1. PICK l : l = [look EXCEPT !.calm = FALSE] OBVIOUS
<1> QED BY <1>1 DEF LookInv, LookRow, Disturb

\* The operation ends (Reply).
LEMMA OperationEnds ==
  ASSUME FilesInv, NEW a \in {"ok", "error"}, Reply(a),
         staging' = {}, UNCHANGED <<made, node, before, calm>>,
         dirent' \in [FileNames -> 0 .. made], NamesOnce(dirent'),
         LookInv',
         calm => Answered(op.what, Trees', Effect, a, op.to)
  PROVE  FilesInv'
<1>1. TreeTypes /\ StagingInv BY DEF FilesInv
<1>2. PICK rec : rec = [op EXCEPT !.pc = "idle", !.answer = a, !.todo = {}, !.staged = NoNode] OBVIOUS
<1>3. /\ rec \in FileOpRow /\ rec.pc = "idle" /\ rec.answer = a /\ rec.what = op.what
      /\ rec.from = op.from /\ rec.to = op.to
  <2>1. NoNode \in 0 .. MaxInodes /\ {} \in SUBSET Children BY FilesAssumption DEF NoNode
  <2> QED BY <1>2, <2>1, <1>1 DEF FileOpRow, TreeTypes
<1>4. op' = rec BY <1>2 DEF Reply
<1>5. CalmInv' BY <1>3, <1>4 DEF CalmInv, Answered, Effect
<1> QED BY <1>5, <1>1, <1>3, <1>4 DEF FilesInv, TreeTypes, StagingInv

LEMMA FilesInitially == FilesInit => FilesInv
<1> SUFFICES ASSUME FilesInit PROVE FilesInv OBVIOUS
<1> DEFINE N == Cardinality(FileNames)
<1>1. N \in Nat /\ N <= MaxInodes /\ MaxInodes \in Nat BY FilesAssumption, FS_CardinalityType
<1>2. /\ Inode \in [FileNames -> 1 .. N]
      /\ \A n, m \in FileNames : Inode[n] = Inode[m] => n = m
  <2>1. PICK f : f \in Injection(FileNames, 1 .. N)
    BY Fun_ExistsBijSymmetric, FilesAssumption, FS_CardinalityType DEF ExistsBijection, Bijection
  <2> QED BY <2>1 DEF Inode, Injection, IsInjective
<1> HIDE DEF N
<1>3. PICK trees \in [FileNames -> Shapes] :
         /\ dirent = [n \in FileNames |-> IF trees[n].kind = "none" THEN NoNode ELSE Inode[n]]
         /\ node = [i \in 1 .. MaxInodes |->
              IF \E n \in FileNames : Inode[n] = i
              THEN trees[CHOOSE n \in FileNames : Inode[n] = i] ELSE Unused] BY DEF FilesInit
<1>4. made = N /\ staging = {} /\ op = NoOp /\ look = NoLook /\ before = Trees /\ calm = TRUE BY DEF FilesInit, N
<1>5. \A i \in 1 .. MaxInodes : node[i] \in NodeRow /\ Shaped(node[i])
  <2> SUFFICES ASSUME NEW i \in 1 .. MaxInodes PROVE node[i] \in NodeRow /\ Shaped(node[i]) OBVIOUS
  <2>1. CASE \E n \in FileNames : Inode[n] = i
    <3>1. PICK n \in FileNames : n = CHOOSE m \in FileNames : Inode[m] = i BY <2>1
    <3> QED BY <1>3, <2>1, <3>1 DEF Shapes, NodeRow, KidKinds, Shaped
  <2>2. CASE ~\E n \in FileNames : Inode[n] = i BY <1>3, <2>2, UnusedRow
  <2> QED BY <2>1, <2>2
<1>6. dirent \in [FileNames -> 0 .. made] BY <1>1, <1>3, <1>4, <1>2 DEF NoNode
<1>7. op \in FileOpRow BY <1>1, <1>4 DEF NoOp, FileOpRow, NoNode
<1>8. made \in 0 .. MaxInodes BY <1>1, <1>4
<1>9. \A n \in FileNames : Trees[n] \in NodeRow
  <2> SUFFICES ASSUME NEW n \in FileNames PROVE Tree(n) \in NodeRow BY DEF Trees
  <2> QED BY <1>5, UnusedRow, <1>1, <1>6, <1>8 DEF Tree, NoNode
<1>10. TreeTypes BY <1>4, <1>5, <1>6, <1>7, <1>8, <1>9, <1>3, <1>2 DEF TreeTypes, Trees, NamesOnce
<1>11. op.pc = "idle" /\ op.answer = "none" /\ look.pc = "idle" /\ look.answer = "none" BY <1>4 DEF NoOp, NoLook
<1>12. LookInv BY <1>11, <1>4 DEF LookInv, NoLook, LookRow
<1> QED BY <1>10, <1>12, <1>4, <1>11 DEF FilesInv, StagingInv, CalmInv, Answered

LEMMA BeginFileOpKeeps ==
  ASSUME FilesInv, NEW w \in {"copy", "move", "delete"},
         NEW n \in FileNames, NEW m \in FileNames, BeginFileOp(w, n, m)
  PROVE  FilesInv'
<1>1. TreeTypes /\ StagingInv /\ LookInv BY DEF FilesInv
<1>2. /\ op.pc = "idle" /\ dirent[n] # NoNode /\ SafeKind(Tree(n).kind)
      /\ (w = "move" /\ Tree(n).kind = "dir") => ValidateTree(dirent[n])
      /\ before' = Trees /\ calm' = TRUE
      /\ UNCHANGED <<dirent, node, made, staging, look>> BY DEF BeginFileOp
<1>3. PICK rec : rec = [NoOp EXCEPT !.pc = w, !.what = w, !.from = n, !.to = m,
                                    !.id = dirent[n], !.kind = Tree(n).kind] OBVIOUS
<1>4. op' = rec BY <1>3 DEF BeginFileOp
<1>5. Tree(n) = node[dirent[n]] /\ dirent[n] \in 1 .. MaxInodes /\ Tree(n) \in NodeRow BY <1>1, <1>2, TreesTyped
<1>6. PICK k \in {"file", "dir"} : k = Tree(n).kind BY <1>2 DEF SafeKind
<1>7. /\ rec.pc = w /\ rec.what = w /\ rec.from = n /\ rec.to = m /\ rec.id = dirent[n]
      /\ rec.kind = k /\ rec.staged = NoNode /\ rec.todo = {} /\ rec.count = 0
      /\ rec.answer = "none" BY <1>3, <1>6 DEF NoOp
<1>8. rec \in FileOpRow
  <2>1. NoNode \in 0 .. MaxInodes /\ {} \in SUBSET Children /\ dirent[n] \in 0 .. MaxInodes
    BY <1>5, FilesAssumption DEF NoNode
  <2> QED BY <1>3, <1>6, <2>1 DEF NoOp, FileOpRow
<1>9. Trees' = Trees /\ Matches' = Matches BY <1>1, <1>2, TreesStay
<1>10. CalmInv' BY <1>2, <1>9, <1>4, <1>5, <1>6, <1>7 DEF CalmInv, MoveIsSafe, ValidateTree, KidsOf
<1>11. LookInv' BY <1>1, <1>2, <1>9, LookStays
<1> QED BY <1>10, <1>11, <1>1, <1>2, <1>4, <1>8, TreesTyped, <1>7 DEF FilesInv, TreeTypes, StagingInv

\* A copy that fails before its rename leaves the trees as they were.
LEMMA CopyRefused ==
  ASSUME FilesInv, op.pc \in {"copy", "copying", "move"}, Reply("error"),
         staging' = {}, UNCHANGED <<dirent, node, made, before, calm>>,
         look' = look \/ Disturb
  PROVE  FilesInv'
<1>1. TreeTypes /\ LookInv BY DEF FilesInv
<1>2. Trees' = Trees /\ Matches' = Matches BY <1>1, TreesStay
<1>3. dirent' \in [FileNames -> 0 .. made] /\ NamesOnce(dirent') BY <1>1 DEF TreeTypes
<1> QED BY <1>3, OperationEnds, <1>2, <1>1, LookStays, LookDisturbed DEF FilesInv, CalmInv, Answered

LEMMA StageCopyKeeps ==
  ASSUME FilesInv, StageCopy PROVE FilesInv'
<1>1. TreeTypes /\ StagingInv /\ CalmInv /\ LookInv BY DEF FilesInv
<1>2. op.pc = "copy" /\ UNCHANGED <<dirent, look, before, calm>> BY DEF StageCopy
<1>3. op.from \in FileNames /\ op.kind \in {"file", "dir"} /\ op.what = "copy" /\ staging = {}
  BY <1>1, <1>2 DEF StagingInv
<1>4. CASE dirent[op.from] = NoNode \/ Tree(op.from).kind # op.kind BY <1>2, <1>3, CopyRefused, <1>4 DEF StageCopy
<1>5. CASE ~(dirent[op.from] = NoNode \/ Tree(op.from).kind # op.kind)
  <2>1. PICK source, fresh : source = dirent[op.from] /\ fresh = made + 1 OBVIOUS
  <2>2. PICK rec : rec = [op EXCEPT !.pc = "copying", !.staged = fresh, !.id = source,
                            !.todo = IF op.kind = "dir" THEN Children ELSE {},
                            !.count = IF op.kind = "file" THEN 1 ELSE 0] OBVIOUS
  <2>3. PICK t : t = [Unused EXCEPT !.kind = op.kind] OBVIOUS
  <2>4. /\ fresh <= MaxInodes /\ made' = fresh /\ staging' = staging \cup {fresh}
        /\ node' = [node EXCEPT ![fresh] = t]
        /\ op' = rec BY <1>5, <2>1, <2>2, <2>3 DEF StageCopy
  <2>5. t \in NodeRow /\ t.kind = op.kind /\ t.kids = Unused.kids BY <1>3, <2>3, UnusedRow DEF NodeRow
  <2>6. made \in Nat /\ made <= MaxInodes /\ MaxInodes \in Nat BY <1>1, FilesAssumption DEF TreeTypes
  <2>7. fresh \in 1 .. MaxInodes /\ fresh \in 0 .. MaxInodes /\ fresh \in 1 .. fresh BY <2>1, <2>4, <2>6
  <2>8. source \in 1 .. made /\ source # fresh /\ source # NoNode /\ source \in 0 .. MaxInodes
    BY <1>1, <1>3, <1>5, <2>1, <2>6 DEF TreeTypes, NoNode
  <2>9. \A n \in FileNames : dirent[n] \in 0 .. made /\ dirent[n] # fresh /\ dirent[n] \in 0 .. fresh
    BY <1>1, <2>1, <2>6 DEF TreeTypes
  <2>10. PICK todo \in SUBSET Children, count \in Nat :
            /\ todo = IF op.kind = "dir" THEN Children ELSE {}
            /\ count = IF op.kind = "file" THEN 1 ELSE 0 OBVIOUS
  <2>11. rec = [op EXCEPT !.pc = "copying", !.staged = fresh, !.id = source,
                          !.todo = todo, !.count = count] BY <2>2, <2>10
  <2>12. /\ rec \in FileOpRow /\ rec.pc = "copying" /\ rec.staged = fresh /\ rec.id = source
         /\ rec.todo = todo /\ rec.what = op.what /\ rec.from = op.from /\ rec.to = op.to
         /\ rec.kind = op.kind
    <3>1. op \in FileOpRow BY <1>1 DEF TreeTypes
    <3> QED BY <2>7, <2>8, <2>10, <2>11, <3>1, ZenonT(40) DEF FileOpRow
  <2>13. /\ node' \in [1 .. MaxInodes -> NodeRow] /\ node'[fresh] = t
         /\ \A i \in 1 .. MaxInodes : i # fresh => node'[i] = node[i] BY <1>1, <2>4, <2>5, <2>7 DEF TreeTypes
  <2>14. TreeTypes' BY <1>1, <1>2, <2>4, <2>7, <2>12, <2>13, <2>5, <2>9 DEF TreeTypes, Shaped
  <2>15. StagingInv' BY <1>1, <1>2, <1>3, <2>4, <2>5, <2>7, <2>8, <2>9, <2>10, <2>12, <2>13 DEF StagingInv
  <2>16. Trees' = Trees /\ Matches' = Matches BY <1>1, <1>2, TreesStay, <2>9, <2>13, TreesTyped
  <2>17. CopiedSoFar'
    <3>1. source \in 1 .. MaxInodes BY <2>6, <2>8
    <3>2. node'[source] = node[source] /\ node[source].kind = op.kind
      BY <1>1, <1>3, <1>5, <2>1, <2>8, <2>13, <3>1, TreesTyped
    <3>3. \A c \in Children : t.kids[c] = IF c \in todo THEN "none" ELSE node[source].kids[c]
      BY <2>10, <2>5, UnusedRow, <1>1, <3>1, <3>2 DEF TreeTypes, Shaped
    <3> QED BY <1>2, <2>1, <2>4, <2>8, <2>12, <2>13, <3>2, <3>3 DEF CopiedSoFar
  <2> QED BY <2>14, <2>15, <1>1, <1>2, <2>4, <2>12, <2>16, <2>17, LookStays DEF FilesInv, CalmInv
<1> QED BY <1>4, <1>5

LEMMA CopyEntryKeeps ==
  ASSUME FilesInv, NEW c \in Children, CopyEntry(c) PROVE FilesInv'
<1>1. TreeTypes /\ StagingInv /\ CalmInv /\ LookInv BY DEF FilesInv
<1>2. op.pc = "copying" /\ c \in op.todo /\ UNCHANGED <<dirent, made, look, before, calm>> BY DEF CopyEntry
<1>3. /\ op.from \in FileNames /\ op.kind = "dir" /\ op.what = "copy"
      /\ staging = {op.staged} /\ op.staged \in 1 .. made
      /\ \A n \in FileNames : dirent[n] # op.staged
      /\ node[op.staged].kind = op.kind BY <1>1, <1>2 DEF StagingInv
<1>4. PICK kid : kid = node[op.id].kids[c] OBVIOUS
<1>5. op \in FileOpRow /\ op.todo \subseteq Children /\ op.count \in Nat BY <1>1 DEF TreeTypes, FileOpRow
<1>6. ASSUME NEW n \in Nat, op' = [op EXCEPT !.todo = op.todo \ {c}, !.count = n],
             node' \in [1 .. MaxInodes -> NodeRow],
             \A i \in 1 .. MaxInodes : i # op.staged => node'[i] = node[i],
             node'[op.staged].kind = op.kind,
             \A d \in Children : d # c => node'[op.staged].kids[d] = node[op.staged].kids[d],
             calm => node'[op.staged].kids[c] = kid,
             UNCHANGED staging
      PROVE  FilesInv'
  <2>1. PICK rec : rec = [op EXCEPT !.todo = op.todo \ {c}, !.count = n] OBVIOUS
  <2>2. op' = rec BY <1>6, <2>1
  <2>3. /\ rec \in FileOpRow /\ rec.pc = "copying" /\ rec.staged = op.staged /\ rec.id = op.id
        /\ rec.todo = op.todo \ {c} /\ rec.what = op.what /\ rec.from = op.from /\ rec.to = op.to
        /\ rec.kind = op.kind BY <1>2, <1>5, <2>1 DEF FileOpRow
  <2>4. \A i \in 1 .. MaxInodes : Shaped(node'[i]) BY <1>1, <1>3, <1>6, FilesAssumption DEF TreeTypes, Shaped
  <2>5. \A m \in FileNames : dirent[m] # NoNode => /\ dirent[m] \in 1 .. MaxInodes
                                                   /\ node'[dirent[m]] = node[dirent[m]]
    BY <1>1, <1>3, <1>6, TreesTyped
  <2>6. Trees' = Trees /\ Matches' = Matches BY <1>1, <1>2, <2>5, TreesStay
  <2>7. calm => CopiedSoFar'
    <3> SUFFICES ASSUME calm PROVE CopiedSoFar' OBVIOUS
    <3>1. CopiedSoFar BY <1>1, <1>2 DEF CalmInv
    <3>2. node[op.id].kind = op.kind BY <3>1 DEF CopiedSoFar
    <3> QED BY <1>2, <2>2, <2>3, <3>2, <1>3, <2>5, <3>1, <1>4, <1>6 DEF CopiedSoFar
  <2>8. CalmInv' BY <1>1, <1>2, <2>2, <2>3, <2>6, <2>7 DEF CalmInv
  <2>9. LookInv' BY <1>1, <1>2, <2>6, LookStays
  <2> QED BY <2>8, <2>9, <1>1, <1>2, <1>6, <2>2, <2>3, <2>4, <1>3 DEF FilesInv, TreeTypes, StagingInv
<1>7. CASE /\ kid = "none"
           /\ op' = [op EXCEPT !.todo = @ \ {c}] /\ UNCHANGED <<node, staging>>
  <2>1. node' \in [1 .. MaxInodes -> NodeRow] BY <1>1, <1>7 DEF TreeTypes
  <2> QED BY <1>3, <1>5, <1>6, <1>7, <2>1, <1>1, <1>2 DEF FileOpRow, CalmInv, CopiedSoFar
<1>8. CASE /\ SafeKind(kid)
           /\ node' = [node EXCEPT ![op.staged].kids[c] = kid]
           /\ op' = [op EXCEPT !.todo = @ \ {c}, !.count = op.count + 1]
           /\ UNCHANGED staging
  <2>1. PICK s \in 1 .. MaxInodes : s = op.staged BY <1>1, <1>3, FilesAssumption DEF TreeTypes
  <2>2. PICK t : t = [node[s] EXCEPT !.kids[c] = kid] OBVIOUS
  <2>3. node[s] \in NodeRow BY <1>1 DEF TreeTypes
  <2>4. PICK kids : kids = [node[s].kids EXCEPT ![c] = kid] OBVIOUS
  <2>5. /\ kids \in [Children -> KidKinds] /\ kids[c] = kid
        /\ \A d \in Children : d # c => kids[d] = node[s].kids[d]
    BY <2>3, <2>4, <1>1, <1>4, <1>2, <1>5, FilesAssumption DEF NodeRow, TreeTypes, StagingInv, FileOpRow, NoNode
  <2>6. t \in NodeRow /\ t.kind = node[s].kind /\ t.kids = kids BY <2>3, <2>5, <2>2, <2>4 DEF NodeRow
  <2>7. /\ node' \in [1 .. MaxInodes -> NodeRow] /\ node'[s] = t
        /\ \A i \in 1 .. MaxInodes : i # s => node'[i] = node[i] BY <1>1, <2>6, <1>8, <2>1, <2>2 DEF TreeTypes
  <2>8. op' = [op EXCEPT !.todo = op.todo \ {c}, !.count = op.count + 1] /\ op.count + 1 \in Nat BY <1>5, <1>8
  <2>9. node'[op.staged].kind = op.kind /\ node'[op.staged].kids[c] = kid
        /\ \A d \in Children : d # c => node'[op.staged].kids[d] = node[op.staged].kids[d]
    BY <1>3, <2>1, <2>5, <2>6, <2>7
  <2> QED BY <1>6, <2>1, <2>7, <2>8, <2>9, <1>8
<1>9. CASE CopyFails("error") BY <1>2, CopyRefused, <1>3, <1>9 DEF CopyFails
<1> QED BY <1>7, <1>8, <1>9, <1>4 DEF CopyEntry

\* The trees after a name got another entry, or none.
LEMMA EntryChanges ==
  ASSUME TreeTypes, NEW n \in FileNames, NEW i \in 0 .. made,
         dirent' = [dirent EXCEPT ![n] = i], node' = node
  PROVE  /\ dirent' \in [FileNames -> 0 .. made]
         /\ dirent'[n] = i
         /\ \A m \in FileNames : m # n => dirent'[m] = dirent[m]
         /\ i # NoNode => i \in 1 .. MaxInodes
         /\ Trees' = [Trees EXCEPT ![n] = IF i = NoNode THEN Unused ELSE node[i]]
<1>1. /\ dirent' \in [FileNames -> 0 .. made]
      /\ dirent'[n] = i
      /\ \A m \in FileNames : m # n => dirent'[m] = dirent[m] BY DEF TreeTypes
<1>2. Trees' = [m \in FileNames |-> Tree(m)'] BY DEF Trees
<1>3. Trees = [m \in FileNames |-> Tree(m)] BY DEF Trees
<1> QED BY <1>1, <1>2, <1>3, FilesAssumption DEF TreeTypes, NoNode, Tree

LEMMA PublishCopyKeeps ==
  ASSUME FilesInv, PublishCopy PROVE FilesInv'
<1>1. TreeTypes /\ StagingInv /\ CalmInv /\ LookInv BY DEF FilesInv
<1>2. op.pc = "copying" /\ op.todo = {} /\ Disturb /\ UNCHANGED <<made, before, calm>> BY DEF PublishCopy
<1>3. /\ op.from \in FileNames /\ op.to \in FileNames /\ op.what = "copy"
      /\ staging = {op.staged} /\ op.staged \in 1 .. made
      /\ \A n \in FileNames : dirent[n] # op.staged
      /\ node[op.staged].kind = op.kind /\ op.kind \in {"file", "dir"} BY <1>1, <1>2 DEF StagingInv
<1>4. CASE ~Vacant(op.to) BY <1>2, CopyRefused, <1>3, <1>4 DEF PublishCopy, CopyFails
<1>5. CASE Vacant(op.to)
  <2>1. PICK s \in 0 .. made, to \in FileNames : s = op.staged /\ to = op.to BY <1>1, <1>3 DEF TreeTypes
  <2>2. /\ dirent' = [dirent EXCEPT ![to] = s] /\ staging' = {} /\ node' = node
        /\ op' = [op EXCEPT !.pc = "verify", !.id = s] BY <1>3, <1>5, <2>1 DEF PublishCopy
  <2>3. s # NoNode /\ dirent[to] = NoNode BY <1>1, <1>3, <1>5, <2>1 DEF TreeTypes, NoNode, Vacant
  <2>4. /\ dirent' \in [FileNames -> 0 .. made] /\ dirent'[to] = s
        /\ \A m \in FileNames : m # to => dirent'[m] = dirent[m]
        /\ s \in 1 .. MaxInodes
        /\ Trees' = [Trees EXCEPT ![to] = node[s]] BY <1>1, <2>2, <2>3, EntryChanges
  <2>5. PICK rec : rec = [op EXCEPT !.pc = "verify", !.id = s] OBVIOUS
  <2>6. /\ rec \in FileOpRow /\ rec.pc = "verify" /\ rec.id = s /\ rec.what = op.what
        /\ rec.from = op.from /\ rec.to = op.to /\ rec.kind = op.kind
    <3>1. op \in FileOpRow /\ s \in 0 .. MaxInodes BY <1>1, <2>4, FilesAssumption DEF TreeTypes
    <3> QED BY <2>5, <3>1 DEF FileOpRow
  <2>7. op' = rec BY <2>2, <2>5
  <2>8. TreeTypes' BY <1>1, <1>2, <2>2, <2>4, <2>6, <2>7, <1>3, <2>1 DEF TreeTypes, NamesOnce
  <2>9. ASSUME calm
        PROVE  before[to] = Unused /\ Trees' = Effect'
    <3>1. Trees = before /\ CopiedSoFar BY <1>1, <1>2, <2>9 DEF CalmInv
    <3>2. op.id = dirent[op.from] /\ op.id # NoNode /\ node[op.id].kind = op.kind
          /\ \A c \in Children : node[s].kids[c] = node[op.id].kids[c] BY <1>2, <2>1, <3>1 DEF CopiedSoFar
    <3>3. op.id \in 1 .. MaxInodes /\ Trees[op.from] = node[op.id] BY <1>1, <1>3, <3>2, TreesTyped
    <3>4. node[s] \in NodeRow /\ node[op.id] \in NodeRow BY <1>1, <2>4, <3>3 DEF TreeTypes
    <3>5. node[s] = node[op.id] BY <1>3, <2>1, <3>2, <3>4, SameTree
    <3>6. Effect' = [before EXCEPT ![to] = before[op.from]] BY <1>2, <1>3, <2>1, <2>6, <2>7 DEF Effect
    <3> QED BY <2>4, <3>1, <3>3, <3>5, <3>6, <1>1, <2>3, TreesTyped
  <2>10. LookInv' BY <1>1, <1>2, LookDisturbed
  <2> QED BY <2>8, <2>10, <1>3, <2>2, <2>6, <2>7, <1>2, <2>1, <2>9 DEF FilesInv, StagingInv, CalmInv
<1> QED BY <1>4, <1>5

LEMMA RenameEntryKeeps ==
  ASSUME FilesInv, RenameEntry PROVE FilesInv'
<1>1. TreeTypes /\ StagingInv /\ CalmInv /\ LookInv BY DEF FilesInv
<1>2. op.pc = "move" /\ Disturb /\ UNCHANGED <<node, made, staging, before, calm>> BY DEF RenameEntry
<1>3. /\ op.from \in FileNames /\ op.to \in FileNames /\ op.what = "move"
      /\ staging = {} /\ op.kind \in {"file", "dir"} BY <1>1, <1>2 DEF StagingInv
<1>4. CASE dirent[op.from] = NoNode \/ ~Vacant(op.to) BY <1>2, <1>3, CopyRefused, <1>4 DEF RenameEntry
<1>5. CASE dirent[op.from] # NoNode /\ Vacant(op.to)
  <2>1. PICK from \in FileNames, to \in FileNames, i \in 0 .. made :
            from = op.from /\ to = op.to /\ i = dirent[from] BY <1>1, <1>3 DEF TreeTypes
  <2>2. i # NoNode /\ dirent[to] = NoNode /\ from # to BY <1>5, <2>1 DEF Vacant
  <2>3. dirent' = [dirent EXCEPT ![to] = i, ![from] = NoNode]
        /\ op' = [op EXCEPT !.pc = "verify"] BY <1>5, <2>1 DEF RenameEntry
  <2>4. /\ dirent' \in [FileNames -> 0 .. made] /\ dirent'[to] = i /\ dirent'[from] = NoNode
        /\ \A m \in FileNames : m # to /\ m # from => dirent'[m] = dirent[m]
    BY <1>1, <2>2, <2>3, FilesAssumption DEF TreeTypes, NoNode
  <2>5. NamesOnce(dirent')
    <3>1. \A n, m \in FileNames : dirent[n] = dirent[m] => n = m \/ dirent[n] = NoNode
      BY <1>1 DEF TreeTypes, NamesOnce
    <3>2. ASSUME NEW n \in FileNames, NEW m \in FileNames, dirent'[n] = dirent'[m]
          PROVE  n = m \/ dirent'[n] = NoNode
      <4>1. CASE n = from \/ m = from BY <2>2, <2>4, <3>2, <4>1
      <4>2. CASE n # from /\ m # from
        <5>1. CASE n = to
          <6>1. CASE m = to BY <5>1, <6>1
          <6>2. CASE m # to
            <7>1. dirent[m] = dirent[from] BY <2>1, <2>4, <3>2, <4>2, <5>1, <6>2
            <7> QED BY <7>1, <3>1, <2>1, <2>2, <4>2
          <6> QED BY <6>1, <6>2
        <5>2. CASE n # to
          <6>1. CASE m = to
            <7>1. dirent[n] = dirent[from] BY <2>1, <2>4, <3>2, <4>2, <5>2, <6>1
            <7> QED BY <7>1, <3>1, <2>1, <2>2, <4>2
          <6>2. CASE m # to BY <2>4, <3>1, <3>2, <4>2, <5>2, <6>2
          <6> QED BY <6>1, <6>2
        <5> QED BY <5>1, <5>2
      <4> QED BY <4>1, <4>2
    <3> QED BY <3>2 DEF NamesOnce
  <2>6. PICK rec : rec = [op EXCEPT !.pc = "verify"] OBVIOUS
  <2>7. /\ rec \in FileOpRow /\ rec.pc = "verify" /\ rec.id = op.id /\ rec.what = op.what
        /\ rec.from = op.from /\ rec.to = op.to /\ rec.kind = op.kind BY <1>1, <2>6 DEF TreeTypes, FileOpRow
  <2>8. op' = rec BY <2>3, <2>6
  <2>9. i \in 1 .. MaxInodes /\ Trees[from] = node[i] /\ Trees[to] = Unused BY <1>1, <2>1, <2>2, TreesTyped
  <2>10. ASSUME calm
         PROVE  before[to] = Unused /\ Trees' = Effect' /\ MoveIsSafe(op.to)'
    <3>1. Trees = before /\ MoveIsSafe(op.from) BY <1>1, <1>2, <2>10 DEF CalmInv
    <3>2. Effect' = [before EXCEPT ![to] = before[from], ![from] = Unused] BY <1>2, <1>3, <2>1, <2>7, <2>8 DEF Effect
    <3>3. before \in [FileNames -> NodeRow] BY <1>1 DEF TreeTypes
    <3>4. Effect' = [m \in FileNames |-> Effect'[m]] BY <3>2, <3>3
    <3>5. Trees' = [m \in FileNames |-> Trees'[m]] BY DEF Trees
    <3>6. Trees' = Effect' BY <2>9, <3>1, <3>4, <3>5, <1>2, <2>2, <2>4, <3>2, <3>3 DEF Trees, Tree
    <3> QED BY <2>9, <3>1, <3>6, <1>2, <2>1, <2>4, <2>7, <2>8 DEF MoveIsSafe, ValidateTree, KidsOf
  <2>11. CalmInv' BY <1>2, <1>3, <2>1, <2>7, <2>8, <2>10 DEF CalmInv
  <2>12. LookInv' BY <1>1, <1>2, LookDisturbed
  <2> QED BY <2>11, <2>12, <1>1, <1>2, <2>4, <2>5, <2>7, <2>8, <1>3 DEF FilesInv, TreeTypes, StagingInv
<1> QED BY <1>4, <1>5

LEMMA VerifyKeeps ==
  ASSUME FilesInv, VerifyOrQuarantine PROVE FilesInv'
<1>1. TreeTypes /\ StagingInv /\ CalmInv /\ LookInv BY DEF FilesInv
<1>2. op.pc = "verify" /\ Disturb /\ UNCHANGED <<node, made, staging, before, calm>> BY DEF VerifyOrQuarantine
<1>3. /\ op.from \in FileNames /\ op.to \in FileNames /\ op.what \in {"copy", "move"}
      /\ staging' = {} /\ op.kind \in {"file", "dir"} BY <1>1, <1>2 DEF StagingInv
<1>4. LookInv' BY <1>1, <1>2, LookDisturbed
<1>5. CASE dirent[op.to] # NoNode /\ VerifyPublished(dirent[op.to])
  <2>1. Reply("ok") /\ UNCHANGED dirent BY <1>5 DEF VerifyOrQuarantine
  <2> QED BY <1>2, <1>3, <1>4, <2>1, OperationEnds, <1>1 DEF TreeTypes, CalmInv, Answered, Trees, Tree
<1>6. CASE ~(dirent[op.to] # NoNode /\ VerifyPublished(dirent[op.to]))
  <2>1. PICK to \in FileNames : to = op.to BY <1>3
  <2>2. Reply("error") /\ dirent' = [dirent EXCEPT ![to] = NoNode] BY <1>6, <2>1 DEF VerifyOrQuarantine
  <2>3. NoNode \in 0 .. made BY <1>1, FilesAssumption DEF TreeTypes, NoNode
  <2>4. /\ dirent' \in [FileNames -> 0 .. made] /\ dirent'[to] = NoNode
        /\ \A m \in FileNames : m # to => dirent'[m] = dirent[m]
        /\ Trees' = [Trees EXCEPT ![to] = Unused] BY <1>1, <1>2, <2>2, <2>3, EntryChanges
  <2>5. ASSUME calm PROVE Answered(op.what, Trees', Effect, "error", op.to)
    <3>1. CASE op.what = "move"
      BY <1>3, <1>6, <1>1, <1>2, <2>5, <3>1 DEF MoveIsSafe, VerifyPublished, SafeKind, CalmInv
    <3>2. CASE op.what = "copy"
      <4>1. before \in [FileNames -> NodeRow] BY <1>1 DEF TreeTypes
      <4>2. Trees' = before BY <2>4, <4>1, <1>1, <1>2, <2>1, <2>5, <3>2 DEF CalmInv, Effect
      <4> QED BY <4>2 DEF Answered
    <3> QED BY <1>3, <3>1, <3>2
  <2> QED BY <1>2, <1>3, <1>4, <2>2, <2>4, <2>5, OperationEnds, <1>1 DEF TreeTypes, NamesOnce
<1> QED BY <1>5, <1>6

LEMMA StageDeleteKeeps ==
  ASSUME FilesInv, StageDelete PROVE FilesInv'
<1>1. TreeTypes /\ StagingInv /\ CalmInv /\ LookInv BY DEF FilesInv
<1>2. op.pc = "delete" /\ Disturb /\ UNCHANGED <<node, made, before, calm>> BY DEF StageDelete
<1>3. /\ op.from \in FileNames /\ op.to \in FileNames /\ op.what = "delete"
      /\ staging = {} /\ op.kind \in {"file", "dir"} BY <1>1, <1>2 DEF StagingInv
<1>4. LookInv' BY <1>1, <1>2, LookDisturbed
<1>5. CASE dirent[op.from] = NoNode
  <2>1. Reply("error") /\ UNCHANGED <<dirent, staging>> BY <1>5 DEF StageDelete
  <2> QED BY <1>2, <1>3, <1>4, <2>1, OperationEnds, <1>1 DEF TreeTypes, CalmInv, Answered, Trees, Tree
<1>6. CASE dirent[op.from] # NoNode
  <2>1. PICK n \in FileNames, i \in 0 .. made : n = op.from /\ i = dirent[n] BY <1>1, <1>3 DEF TreeTypes
  <2>2. /\ dirent' = [dirent EXCEPT ![n] = NoNode] /\ staging' = {i}
        /\ op' = [op EXCEPT !.pc = "remove", !.staged = i] BY <1>3, <1>6, <2>1 DEF StageDelete
  <2>3. NoNode \in 0 .. made BY <1>1, FilesAssumption DEF TreeTypes, NoNode
  <2>4. /\ dirent' \in [FileNames -> 0 .. made] /\ dirent'[n] = NoNode
        /\ \A m \in FileNames : m # n => dirent'[m] = dirent[m]
        /\ Trees' = [Trees EXCEPT ![n] = Unused] BY <1>1, <1>2, <2>2, <2>3, EntryChanges
  <2>5. i \in 1 .. made /\ i \in 0 .. MaxInodes BY <1>1, <1>6, <2>1, FilesAssumption DEF TreeTypes, NoNode
  <2>6. \A m \in FileNames : dirent'[m] # i BY <1>1, <1>6, <2>1, <2>4 DEF TreeTypes, NamesOnce
  <2>7. PICK rec : rec = [op EXCEPT !.pc = "remove", !.staged = i] OBVIOUS
  <2>8. /\ rec \in FileOpRow /\ rec.pc = "remove" /\ rec.staged = i /\ rec.what = op.what
        /\ rec.from = op.from /\ rec.to = op.to /\ rec.kind = op.kind BY <1>1, <2>5, <2>7 DEF TreeTypes, FileOpRow
  <2>9. op' = rec BY <2>2, <2>7
  <2>10. StagingInv' BY <1>2, <1>3, <2>2, <2>5, <2>6, <2>8, <2>9 DEF StagingInv
  <2>11. calm => Trees' = Effect' BY <1>1, <1>2, <2>4, <1>3, <2>1, <2>8, <2>9 DEF CalmInv, Effect
  <2> QED BY <1>4, <2>10, <1>2, <1>3, <2>8, <2>9, <2>11, <1>1, <2>4 DEF FilesInv, CalmInv, TreeTypes, NamesOnce
<1> QED BY <1>5, <1>6

LEMMA RemoveStagedKeeps ==
  ASSUME FilesInv, RemoveStaged PROVE FilesInv'
<1>1. TreeTypes /\ StagingInv /\ CalmInv /\ LookInv BY DEF FilesInv
<1>2. /\ op.pc = "remove" /\ staging' = staging \ {op.staged}
      /\ Reply("ok") \/ Reply("error")
      /\ UNCHANGED <<dirent, node, made, look, before, calm>> BY DEF RemoveStaged
<1>3. op.what = "delete" /\ staging' = {} BY <1>1, <1>2 DEF StagingInv
<1>4. Trees' = Trees /\ Matches' = Matches BY <1>1, <1>2, TreesStay
<1>5. dirent' \in [FileNames -> 0 .. made] /\ NamesOnce(dirent') BY <1>1, <1>2 DEF TreeTypes
<1> QED BY <1>2, <1>3, <1>5, OperationEnds, <1>1, <1>4, LookStays DEF CalmInv, Answered

\* Steps of a search change nothing but what it has found.
LEMMA SearchKeeps ==
  ASSUME FilesInv, UNCHANGED <<dirent, node, made, staging, op, before, calm>>, LookInv'
  PROVE  FilesInv'
<1>1. CalmInv' BY DEF FilesInv, CalmInv, Answered, Trees, Tree, Effect, CopiedSoFar, MoveIsSafe, ValidateTree, KidsOf
<1> QED BY <1>1 DEF FilesInv, TreeTypes, StagingInv

LEMMA MatchesArePaths == Matches \subseteq Paths
  BY DEF Matches, Paths

LEMMA BeginSearchKeeps ==
  ASSUME FilesInv, BeginSearch PROVE FilesInv'
<1>1. PICK l : l = [NoLook EXCEPT !.pc = "search", !.todo = FileNames, !.truth = Matches] OBVIOUS
<1>2. look' = l /\ UNCHANGED <<dirent, node, made, staging, op, before, calm>> BY <1>1 DEF BeginSearch
<1>3. \A p \in Matches : p[1] \in FileNames BY DEF Matches
<1>4. LookInv' BY <1>2, <1>3, <1>1, MatchesArePaths, TreesStay DEF LookInv, NoLook, LookRow, FilesInv
<1> QED BY <1>2, <1>4, SearchKeeps

LEMMA SearchEntryKeeps ==
  ASSUME FilesInv, NEW n \in FileNames, SearchEntry(n) PROVE FilesInv'
<1>1. TreeTypes /\ LookInv /\ look \in LookRow BY DEF FilesInv, LookInv
<1>2. /\ look.pc = "search" /\ n \in look.todo
      /\ UNCHANGED <<dirent, node, made, staging, op, before, calm>> BY DEF SearchEntry
<1>3. Matches' = Matches BY <1>1, <1>2, TreesStay
<1>4. look.answer = "none" BY <1>1, <1>2 DEF LookInv, LookRow
<1>5. PICK scanned : scanned = look.scanned + (IF dirent[n] = NoNode THEN 0
                                               ELSE 1 + Cardinality(KidsOf(dirent[n]))) OBVIOUS
<1>6. scanned \in Nat BY <1>5, <1>1, FilesAssumption, FS_Subset, FS_CardinalityType DEF LookRow, KidsOf
<1>7. CASE dirent[n] = NoNode /\ look' = [look EXCEPT !.todo = look.todo \ {n}]
  <2>1. PICK l : l = [look EXCEPT !.todo = look.todo \ {n}] OBVIOUS
  <2>2. look' = l BY <1>7, <2>1
  <2>3. LookInv' BY <1>1, <1>2, <1>3, <1>4, <2>2, <2>1, <1>7 DEF LookInv, LookRow, Matches
  <2> QED BY <1>2, <2>3, SearchKeeps
<1>8. CASE look' = [look EXCEPT !.todo = look.todo \ {n}, !.scanned = scanned,
                                !.found = look.found \cup FoundAt(n)]
  <2>1. PICK l : l = [look EXCEPT !.todo = look.todo \ {n}, !.scanned = scanned,
                                  !.found = look.found \cup FoundAt(n)] OBVIOUS
  <2>2. look' = l BY <1>8, <2>1
  <2> QED BY <1>2, SearchKeeps, <1>1, <1>3, <1>4, <2>2, <1>6, <2>1, MatchesArePaths DEF LookInv, FoundAt, LookRow
<1>9. CASE look' = [look EXCEPT !.pc = "idle", !.todo = {}, !.answer = "error"]
  <2>1. PICK l : l = [look EXCEPT !.pc = "idle", !.todo = {}, !.answer = "error"] OBVIOUS
  <2>2. LookInv' BY <1>1, <2>1, <1>9 DEF LookInv, LookRow
  <2> QED BY <1>2, <2>2, SearchKeeps
<1> QED BY <1>7, <1>8, <1>9, <1>5 DEF SearchEntry

LEMMA SearchDoneKeeps ==
  ASSUME FilesInv, SearchDone PROVE FilesInv'
<1>1. /\ look.pc = "search" /\ look.todo = {}
      /\ UNCHANGED <<dirent, node, made, staging, op, before, calm>> BY DEF SearchDone
<1>2. PICK l : l = [look EXCEPT !.pc = "idle", !.answer = "ok"] OBVIOUS
<1>3. look' = l BY <1>2 DEF SearchDone
<1>4. LookInv' BY <1>1, <1>3, <1>2 DEF LookInv, LookRow, FilesInv
<1> QED BY <1>1, <1>4, SearchKeeps

\* What a container does is not calm: only what is staged must stay intact.
LEMMA ContainerKeeps ==
  ASSUME FilesInv, Disturb, calm' = FALSE, UNCHANGED <<staging, op, before>>,
         made' \in 0 .. MaxInodes, made <= made',
         dirent' \in [FileNames -> 0 .. made'], NamesOnce(dirent'),
         node' \in [1 .. MaxInodes -> NodeRow],
         \A i \in 1 .. MaxInodes : Shaped(node'[i]),
         \A i \in 1 .. made : node'[i].kind = node[i].kind,
         \A n \in FileNames : \/ \E m \in FileNames : dirent'[n] = dirent[m]
                              \/ dirent'[n] \notin 1 .. made
  PROVE  FilesInv'
<1>1. TreeTypes /\ StagingInv /\ LookInv BY DEF FilesInv
<1>2. StagingInv' BY <1>1, FilesAssumption DEF StagingInv, TreeTypes
<1>3. LookInv' BY <1>1, LookDisturbed
<1> QED BY <1>2, <1>3, <1>1 DEF FilesInv, TreeTypes, CalmInv

LEMMA ContainerReplacesKeeps ==
  ASSUME FilesInv, NEW n \in FileNames, NEW kind \in {"none", "file", "link"},
         ContainerReplaces(n, kind)
  PROVE  FilesInv'
<1>1. TreeTypes BY DEF FilesInv
<1>2. Disturb /\ calm' = FALSE /\ UNCHANGED <<staging, op, before>> BY DEF ContainerReplaces, ContainerActs
<1>3. made \in Nat /\ made <= MaxInodes /\ MaxInodes \in Nat BY <1>1, FilesAssumption DEF TreeTypes
<1>4. CASE kind = "none"
  <2>1. dirent' = [dirent EXCEPT ![n] = NoNode] /\ node' = node /\ made' = made BY <1>4 DEF ContainerReplaces
  <2>2. NoNode \in 0 .. made /\ NoNode \notin 1 .. made BY <1>3 DEF NoNode
  <2>3. /\ dirent' \in [FileNames -> 0 .. made] /\ dirent'[n] = NoNode
        /\ \A m \in FileNames : m # n => dirent'[m] = dirent[m] BY <1>1, <2>1, <2>2, EntryChanges
  <2>4. /\ made' \in 0 .. MaxInodes /\ made <= made'
        /\ dirent' \in [FileNames -> 0 .. made']
        /\ node' \in [1 .. MaxInodes -> NodeRow]
        /\ \A i \in 1 .. MaxInodes : Shaped(node'[i])
        /\ \A i \in 1 .. made : node'[i].kind = node[i].kind BY <1>1, <1>3, <2>1, <2>3 DEF TreeTypes
  <2>5. \A m \in FileNames : \/ \E k \in FileNames : dirent'[m] = dirent[k]
                             \/ dirent'[m] \notin 1 .. made BY <2>2, <2>3
  <2> QED BY <1>2, <2>4, <2>5, ContainerKeeps, <1>1, <2>3 DEF TreeTypes, NamesOnce
<1>5. CASE kind # "none"
  <2>1. PICK i, t : i = made + 1 /\ t = [Unused EXCEPT !.kind = kind] OBVIOUS
  <2>2. /\ made < MaxInodes /\ made' = i
        /\ dirent' = [dirent EXCEPT ![n] = i] /\ node' = [node EXCEPT ![i] = t] BY <1>5, <2>1 DEF ContainerReplaces
  <2>3. i \in 1 .. MaxInodes /\ i \in 0 .. MaxInodes /\ i \in 0 .. i /\ i \notin 1 .. made
        /\ made <= i /\ i # NoNode BY <1>3, <2>1, <2>2 DEF NoNode
  <2>4. t \in NodeRow /\ Shaped(t) BY <2>1, UnusedRow DEF NodeRow, Shaped
  <2>5. \A m \in FileNames : dirent[m] \in 0 .. made /\ dirent[m] \in 0 .. i /\ dirent[m] # i
    BY <1>1, <1>3, <2>1 DEF TreeTypes
  <2>6. /\ dirent' \in [FileNames -> 0 .. i] /\ dirent'[n] = i
        /\ \A m \in FileNames : m # n => dirent'[m] = dirent[m] BY <1>1, <2>2, <2>3, <2>5 DEF TreeTypes
  <2>7. NamesOnce(dirent') BY <1>1, <2>5, <2>6 DEF TreeTypes, NamesOnce
  <2>8. /\ node' \in [1 .. MaxInodes -> NodeRow] /\ node'[i] = t
        /\ \A j \in 1 .. MaxInodes : j # i => node'[j] = node[j] BY <1>1, <2>2, <2>3, <2>4 DEF TreeTypes
  <2>9. \A j \in 1 .. made : node'[j].kind = node[j].kind BY <2>8, <1>3, <2>1
  <2>10. \A m \in FileNames : \/ \E k \in FileNames : dirent'[m] = dirent[k]
                              \/ dirent'[m] \notin 1 .. made BY <2>3, <2>6
  <2>11. made' \in 0 .. MaxInodes /\ made <= made' /\ dirent' \in [FileNames -> 0 .. made'] BY <2>2, <2>3, <2>6
  <2> QED BY <1>2, <2>7, <2>8, <2>9, <2>10, <2>11, ContainerKeeps, <1>1, <2>4 DEF TreeTypes
<1> QED BY <1>4, <1>5

LEMMA ContainerEditsKeeps ==
  ASSUME FilesInv, NEW n \in FileNames, NEW c \in Children,
         NEW kind \in {"none", "link"}, ContainerEdits(n, c, kind)
  PROVE  FilesInv'
<1>1. TreeTypes BY DEF FilesInv
<1>2. /\ Disturb /\ calm' = FALSE /\ UNCHANGED <<dirent, made, staging, op, before>>
      /\ Tree(n).kind = "dir"
      /\ node' = [node EXCEPT ![dirent[n]].kids[c] = kind] BY DEF ContainerEdits, ContainerActs
<1>3. dirent[n] # NoNode BY <1>2, UnusedRow DEF Tree
<1>4. PICK i \in 1 .. MaxInodes : i = dirent[n] BY <1>1, <1>3, TreesTyped
<1>5. node[i] \in NodeRow /\ node[i].kind = "dir" BY <1>1, <1>2, <1>3, <1>4 DEF TreeTypes, Tree
<1>6. PICK kids, t : /\ kids = [node[i].kids EXCEPT ![c] = kind]
                     /\ t = [node[i] EXCEPT !.kids = kids] OBVIOUS
<1>7. t \in NodeRow /\ t.kind = "dir" BY <1>5, <1>6 DEF NodeRow, KidKinds
<1>8. /\ node' \in [1 .. MaxInodes -> NodeRow] /\ node'[i] = t
      /\ \A j \in 1 .. MaxInodes : j # i => node'[j] = node[j]
  BY <1>1, <1>7, <1>2, <1>4, <1>5, <1>6 DEF TreeTypes, NodeRow
<1>9. made \in Nat /\ made <= MaxInodes /\ MaxInodes \in Nat BY <1>1, FilesAssumption DEF TreeTypes
<1>10. \A j \in 1 .. made : node'[j].kind = node[j].kind BY <1>5, <1>7, <1>8, <1>9
<1>11. /\ made' \in 0 .. MaxInodes /\ made <= made'
       /\ dirent' \in [FileNames -> 0 .. made'] /\ NamesOnce(dirent') BY <1>1, <1>2, <1>9 DEF TreeTypes
<1>12. \A m \in FileNames : \E k \in FileNames : dirent'[m] = dirent[k] BY <1>2
<1>13. UNCHANGED <<staging, op, before>> BY <1>2
<1> QED BY <1>2, <1>8, <1>10, <1>11, <1>12, <1>13, ContainerKeeps, <1>1, <1>7 DEF TreeTypes, Shaped

\* A crash at any step leaves all of the operation or none of it.
LEMMA RestartFilesKeeps ==
  ASSUME FilesInv, RestartFiles PROVE FilesInv'
<1>1. TreeTypes /\ StagingInv /\ CalmInv BY DEF FilesInv
<1>2. staging' = {} /\ look' = NoLook /\ UNCHANGED <<dirent, node, made, before, calm>> BY DEF RestartFiles
<1>3. PICK rec : rec = [op EXCEPT !.pc = "idle", !.answer = "lost", !.todo = {}, !.staged = NoNode] OBVIOUS
<1>4. op' = rec BY <1>3 DEF RestartFiles
<1>5. /\ rec \in FileOpRow /\ rec.pc = "idle" /\ rec.answer = "lost" /\ rec.what = op.what
      /\ rec.from = op.from /\ rec.to = op.to
  <2>1. NoNode \in 0 .. MaxInodes /\ {} \in SUBSET Children BY FilesAssumption DEF NoNode
  <2> QED BY <1>3, <2>1, <1>1 DEF FileOpRow, TreeTypes
<1>6. calm => Trees \in {before, Effect} BY <1>1 DEF CalmInv, Answered, TreeTypes, FileOpRow
<1>7. CalmInv' BY <1>2, <1>4, <1>5, <1>6 DEF CalmInv, Answered, Trees, Tree, Effect
<1>8. LookInv' BY <1>2 DEF LookInv, NoLook, LookRow
<1> QED BY <1>7, <1>8, <1>1, <1>2, <1>4, <1>5 DEF FilesInv, TreeTypes, StagingInv

LEMMA FilesStep == FilesInv /\ [FilesNext]_fvars => FilesInv'
<1> SUFFICES ASSUME FilesInv, [FilesNext]_fvars PROVE FilesInv' OBVIOUS
<1>1. CASE \/ \E n, m \in FileNames, w \in {"copy", "move"} : BeginFileOp(w, n, m)
           \/ \E n \in FileNames : BeginFileOp("delete", n, n) BY <1>1, BeginFileOpKeeps
<1>2. CASE StageCopy \/ PublishCopy \/ RenameEntry \/ VerifyOrQuarantine
             \/ StageDelete \/ RemoveStaged \/ RestartFiles
             \/ \E c \in Children : CopyEntry(c)
  BY <1>2, StageCopyKeeps, PublishCopyKeeps, RenameEntryKeeps, VerifyKeeps, StageDeleteKeeps, RemoveStagedKeeps,
    RestartFilesKeeps, CopyEntryKeeps
<1>3. CASE BeginSearch \/ SearchDone \/ \E n \in FileNames : SearchEntry(n)
  BY <1>3, BeginSearchKeeps, SearchDoneKeeps, SearchEntryKeeps
<1>4. CASE \/ \E n \in FileNames, kind \in {"none", "file", "link"} : ContainerReplaces(n, kind)
           \/ \E n \in FileNames, c \in Children, kind \in {"none", "link"} :
                 ContainerEdits(n, c, kind) BY <1>4, ContainerReplacesKeeps, ContainerEditsKeeps
<1>5. CASE UNCHANGED fvars
  <2>1. UNCHANGED <<dirent, node, made, staging, op, before, calm, look>> BY <1>5 DEF fvars
  <2> QED BY <2>1, SearchKeeps, LookStays, TreesStay DEF FilesInv
<1> QED BY <1>1, <1>2, <1>3, <1>4, <1>5 DEF FilesNext

LEMMA FilesAreAllOrNothing == FilesInv => FilesAllOrNothing
  BY DEF FilesInv, StagingInv, CalmInv, LookInv, Answered, FilesAllOrNothing

(***************************************************************************)
(* copy, move_entry and delete do all of their work or none of it, when no *)
(* container changes the tree meanwhile, wherever the daemon is killed in  *)
(* between; they replace nothing and leave nothing staged; and a search of *)
(* a tree that holds still misses nothing (copy, move_entry, delete,       *)
(* search_directory, Filesystem::new).                                     *)
(***************************************************************************)
THEOREM FilesWholeOrUntouched == FilesSpec => []FilesAllOrNothing
  BY FilesInitially, FilesStep, FilesAreAllOrNothing, PTL DEF FilesSpec

-----------------------------------------------------------------------------
(***************************************************************************)
(* Changes of a workspace.  PatchesRecoverable is not inductive: what is   *)
(* paused is remembered by the record only between operations; while a     *)
(* task is at work it is the task that knows it (KnownToTask), and that    *)
(* one task knows all of it holds only as long as no request began beside  *)
(* a task that is still pausing.  A task that only resumes may go on       *)
(* beside the next one: the record it may clear is its own (clears = n),   *)
(* so what it knows counts only while that record is there.                *)
(***************************************************************************)
TaskRow == [pc : {"idle", "list", "persist", "pause", "resume", "chown", "look",
                  "publish", "validate", "post", "done"},
            kind : Kinds \cup {"none"},
            todo : SUBSET Containers, paused : SUBSET Containers,
            resuming : SUBSET Containers, clears : 0 .. MaxOps, tries : Nat,
            swap : BOOLEAN, seen : {"none", "base", "mine", "theirs"},
            then : {"none", "list", "failed", "gone", "ok", "error"},
            res : {"none", "ok", "error"}]

\* The shapes of everything but the tasks.
GroundTypes ==
    /\ cont \in [Containers -> {"absent", "running", "paused"}]
    /\ record \in [id : 0 .. MaxOps, conts : SUBSET Containers]
    /\ record.id = 0 => record.conts = {}
    /\ holder \in 0 .. MaxOps /\ stranded \subseteq Containers
    /\ file \in {"none", "base", "mine", "theirs"}
    /\ litter \in BOOLEAN /\ overlap \in BOOLEAN

\* A change that is settled as applied has validated what it displaced, and
\* what is told after the resume is what was settled before it.
SettledTask(t) ==
    /\ t.res = "ok" => /\ t.pc \in {"post", "resume", "done"}
                       /\ t.pc = "resume" => t.then # "list"
                       /\ t.kind = "patch" => Displaced(t)
    /\ t.pc = "validate" /\ ~t.swap => t.seen = "none"
    /\ t.then = "ok" => t.res = "ok"
    /\ t.then \in {"ok", "error"} => t.pc = "resume"
    /\ t.pc = "resume" /\ t.then # "list" => t.resuming \subseteq t.paused

PausedNow == {c \in Containers : cont[c] = "paused"}

\* Where the containers that are paused are remembered, besides the record:
\* nowhere before the task's own pause, in the task while the files are
\* changed, and in what is left to resume as long as the record to be cleared
\* is there.
KnownToTask(n, t) ==
    /\ t.pc \in {"list", "persist"} => PausedNow \subseteq stranded
    /\ t.pc = "pause" => record.id = n /\ t.todo \subseteq record.conts
    /\ t.pc \in {"pause", "chown", "look", "publish", "validate", "post"}
          => PausedNow \subseteq t.paused \cup stranded
    /\ t.pc = "resume" /\ record.id = t.clears => PausedNow \subseteq t.resuming \cup stranded
    /\ t.pc = "resume" /\ t.then # "list" => t.clears = n

PausesKnown ==
    /\ PausedNow \subseteq record.conts \cup stranded
    /\ \A n \in Ops : KnownToTask(n, task[n])

OneChanges == \A m, n \in Ops : Changing(task[m]) /\ Changing(task[n]) => m = n

WorkspaceInv ==
    /\ GroundTypes
    /\ task \in [Ops -> TaskRow]
    /\ \A n \in Ops : SettledTask(task[n])
    /\ ~overlap => OneChanges
    /\ ~litter /\ ~overlap => PausesKnown

LEMMA NoTaskRow ==
  /\ NoTask \in TaskRow /\ NoTask.pc = "idle" /\ NoTask.kind = "none"
  /\ NoTask.then = "none" /\ NoTask.res = "none" /\ NoTask.paused = {}
  BY WorkspaceAssumption DEF NoTask, TaskRow

LEMMA ResumeRow ==
  ASSUME NEW t \in TaskRow, NEW s \in SUBSET Containers, NEW c \in 0 .. MaxOps,
         NEW p \in {"none", "list", "failed", "gone", "ok", "error"}
  PROVE  ResumeThen(t, s, c, p) \in TaskRow
BY DEF ResumeThen, TaskRow

EndedTask(f, k, w, e, r) ==
    [f EXCEPT !.pc = "done", !.kind = k, !.swap = w, !.seen = e, !.res = r]

LEMMA EndedRow ==
  ASSUME NEW f \in TaskRow, NEW k \in Kinds \cup {"none"}, NEW w \in BOOLEAN,
         NEW e \in {"none", "base", "mine", "theirs"}, NEW r \in {"ok", "error"}
  PROVE  EndedTask(f, k, w, e, r) \in TaskRow
BY DEF EndedTask, TaskRow

\* What Finish leaves of a task.
LEMMA FinishRow ==
  ASSUME WorkspaceInv, NEW n \in Ops, NEW r \in {"ok", "error"}, Finish(n, r)
  PROVE  /\ \E u \in TaskRow : /\ task' = [task EXCEPT ![n] = u]
                               /\ u.pc = "done" /\ u.then = "none" /\ u.res = r
                               /\ u.kind = task[n].kind /\ u.swap = task[n].swap
                               /\ u.seen = task[n].seen
         /\ holder' \in 0 .. MaxOps
<1>1. PICK k \in Kinds \cup {"none"}, w \in BOOLEAN, e \in {"none", "base", "mine", "theirs"} :
         k = task[n].kind /\ w = task[n].swap /\ e = task[n].seen BY DEF WorkspaceInv, TaskRow
<1>2. PICK f \in TaskRow : f = NoTask BY NoTaskRow
<1>3. PICK u \in TaskRow : u = EndedTask(f, k, w, e, r) BY EndedRow
<1>4. u.pc = "done" /\ u.then = f.then /\ u.res = r /\ u.kind = k /\ u.swap = w /\ u.seen = e
  BY <1>3 DEF EndedTask, TaskRow
<1>5. holder' \in 0 .. MaxOps BY WorkspaceAssumption DEF Finish, Unlock, WorkspaceInv, GroundTypes
<1>6. task' = [task EXCEPT ![n] = u] BY <1>1, <1>2, <1>3 DEF Finish, EndedTask
<1> QED
  <2>1. u.then = "none" /\ u.kind = task[n].kind /\ u.swap = task[n].swap /\ u.seen = task[n].seen
    BY <1>1, <1>4, <1>2, NoTaskRow
  <2> QED BY <1>4, <1>5, <2>1, <1>6

\* What a step of task n does to the containers and the record, as far as the
\* other tasks can tell: it pauses nothing and leaves the record alone, the
\* record is its own while it pauses, or it clears the record when nothing
\* that is not stranded is paused.
Undisturbed(n) ==
    \/ /\ record' = record
       /\ \A c \in Containers : c \in PausedNow' \ stranded' => c \in PausedNow \ stranded
    \/ record'.id = n /\ Changing(task[n])
    \/ /\ PausedNow' \subseteq stranded'
       /\ task[n].pc = "resume" /\ record.id = task[n].clears

LEMMA OthersKnow ==
  ASSUME PausesKnown, OneChanges, NEW n \in Ops, NEW m \in Ops, m # n,
         task'[m] = task[m], Undisturbed(n)
  PROVE  KnownToTask(m, task[m])'
<1>1. KnownToTask(m, task[m]) /\ KnownToTask(n, task[n]) BY DEF PausesKnown
<1>2. CASE record' = record /\ \A c \in Containers : c \in PausedNow' \ stranded' => c \in PausedNow \ stranded
  <2>1. PausedNow' \subseteq Containers BY DEF PausedNow
  <2> QED BY <1>1, <1>2, <2>1 DEF KnownToTask
<1>3. CASE record'.id = n /\ Changing(task[n])
  <2>1. ~Changing(task[m]) BY <1>3 DEF OneChanges
  <2> QED BY <1>1, <1>3, <2>1 DEF KnownToTask, Changing
<1>4. CASE PausedNow' \subseteq stranded' /\ task[n].pc = "resume" /\ record.id = task[n].clears
  <2>1. task[m].pc # "pause"
    <3> SUFFICES ASSUME task[m].pc = "pause" PROVE FALSE OBVIOUS
    <3>1. record.id = m BY <1>1 DEF KnownToTask
    <3>2. CASE task[n].then = "list" BY <1>4, <3>2 DEF OneChanges, Changing
    <3>3. CASE task[n].then # "list" BY <1>1, <1>4, <3>1, <3>3 DEF KnownToTask
    <3> QED BY <3>2, <3>3
  <2> QED BY <1>1, <1>4, <2>1 DEF KnownToTask
<1> QED BY <1>2, <1>3, <1>4 DEF Undisturbed

\* A step of one task.
LEMMA TaskMoves ==
  ASSUME WorkspaceInv, NEW n \in Ops, NEW u \in TaskRow,
         task' = [task EXCEPT ![n] = u], SettledTask(u),
         Changing(u) => Changing(task[n]),
         GroundTypes', UNCHANGED <<litter, overlap>>,
         PausesKnown => /\ (PausedNow \subseteq record.conts \cup stranded)'
                        /\ KnownToTask(n, u)'
                        /\ Undisturbed(n)
  PROVE  WorkspaceInv'
<1>1. /\ task' \in [Ops -> TaskRow] /\ task'[n] = u
      /\ \A m \in Ops : m # n => task'[m] = task[m] BY DEF WorkspaceInv
<1>2. ASSUME ~overlap PROVE OneChanges' BY <1>1, <1>2 DEF WorkspaceInv, OneChanges, Changing
<1>3. ASSUME ~litter, ~overlap
      PROVE  PausesKnown'
  <2>1. ASSUME NEW m \in Ops, m # n PROVE KnownToTask(m, task[m])'
    BY <2>1, <1>1, <1>3, OthersKnow DEF WorkspaceInv
  <2> QED BY <2>1, <1>1, <1>3 DEF PausesKnown, KnownToTask, WorkspaceInv
<1> QED BY <1>1, <1>3, <1>2 DEF WorkspaceInv

LEMMA SamePauses ==
  ASSUME WorkspaceInv, cont' = cont, record' = record, stranded' = stranded
  PROVE  /\ PausedNow' = PausedNow
         /\ PausesKnown => (PausedNow \subseteq record.conts \cup stranded)'
         /\ \A n \in Ops : Undisturbed(n)
BY DEF PausedNow, PausesKnown, Undisturbed

LEMMA ListContainersKeeps ==
  ASSUME WorkspaceInv, NEW n \in Ops, ListContainers(n)
  PROVE  WorkspaceInv'
<1> DEFINE live == {c \in Containers : cont[c] # "absent"}
<1>1. PICK o \in TaskRow : o = task[n] BY DEF WorkspaceInv
<1>2. PICK l \in SUBSET Containers, q \in {"chown", "persist"} :
         l = live /\ q = (IF live = {} THEN "chown" ELSE "persist") OBVIOUS
<1>3. PICK u : u = [o EXCEPT !.todo = l, !.pc = q] OBVIOUS
<1>4. u \in TaskRow /\ u.pc = q /\ u.todo = l /\ u.then = o.then /\ u.res = o.res BY <1>3 DEF TaskRow
<1>5. task' = [task EXCEPT ![n] = u] BY <1>1, <1>2, <1>3 DEF ListContainers, WorkspaceInv
<1>6. Changing(task[n]) /\ o.pc = "list" BY <1>1 DEF Changing, ListContainers, TaskAt
<1>7. GroundTypes' /\ UNCHANGED <<litter, overlap>> /\ UNCHANGED <<cont, record, stranded>>
  BY DEF ListContainers, OnlyTask, hist, GroundTypes, WorkspaceInv
<1>8. ASSUME PausesKnown PROVE KnownToTask(n, u)'
  BY <1>2, <1>4, <1>7, <1>1, <1>6, <1>8, SamePauses DEF KnownToTask, PausesKnown
<1> QED BY <1>4, <1>5, <1>6, <1>7, <1>8, SamePauses, TaskMoves, <1>1, <1>2 DEF SettledTask, WorkspaceInv

LEMMA PersistKeeps ==
  ASSUME WorkspaceInv, NEW n \in Ops, Persist(n)
  PROVE  WorkspaceInv'
<1>1. PICK o \in TaskRow : o = task[n] BY DEF WorkspaceInv
<1>2. PICK u : u = [o EXCEPT !.pc = "pause"] OBVIOUS
<1>3. u \in TaskRow /\ u.pc = "pause" /\ u.todo = o.todo /\ u.then = o.then /\ u.res = o.res
      /\ u.paused = o.paused BY <1>2 DEF TaskRow
<1>4. Changing(task[n]) /\ o.pc = "persist" BY <1>1 DEF Changing, Persist, TaskAt
<1>5. UNCHANGED <<litter, overlap, cont, stranded, holder, file>> /\ record' = [id |-> n, conts |-> o.todo]
  BY <1>1 DEF Persist, hist
<1>6. GroundTypes' /\ record'.conts = o.todo /\ record'.id = n
  <2>1. o.todo \in SUBSET Containers /\ n \in 0 .. MaxOps /\ n # 0 BY WorkspaceAssumption DEF TaskRow, Ops
  <2> QED BY <1>5, <2>1 DEF GroundTypes, WorkspaceInv
<1>7. ASSUME PausesKnown PROVE (PausedNow \subseteq record.conts \cup stranded)' /\ KnownToTask(n, u)'
  BY <1>3, <1>5, <1>6, <1>1, <1>4, <1>7 DEF KnownToTask, PausesKnown, PausedNow
<1>8. Undisturbed(n) BY <1>4, <1>6 DEF Undisturbed
<1>9. SettledTask(u) BY <1>1, <1>3, <1>4 DEF WorkspaceInv, SettledTask
<1>10. task' = [task EXCEPT ![n] = u] BY <1>1, <1>2 DEF Persist, WorkspaceInv
<1> QED BY <1>3, <1>4, <1>5, <1>6, <1>7, <1>8, <1>9, <1>10, TaskMoves

LEMMA PauseOneKeeps ==
  ASSUME WorkspaceInv, NEW n \in Ops, NEW c \in Containers, PauseOne(n, c)
  PROVE  WorkspaceInv'
<1>1. PICK o \in TaskRow : o = task[n] BY DEF WorkspaceInv
<1>2. PICK l \in SUBSET Containers, p \in SUBSET Containers :
         l = o.todo \ {c} /\ p = o.paused \cup {c} BY DEF TaskRow
<1>3. PICK u : u = [o EXCEPT !.todo = l, !.paused = p] OBVIOUS
<1>4. u \in TaskRow /\ u.pc = o.pc /\ u.todo = l /\ u.paused = p /\ u.then = o.then /\ u.res = o.res
  BY <1>3 DEF TaskRow
<1>5. task' = [task EXCEPT ![n] = u] BY <1>1, <1>2, <1>3 DEF PauseOne, WorkspaceInv
<1>6. Changing(task[n]) /\ o.pc = "pause" /\ c \in o.todo BY <1>1 DEF Changing, PauseOne, TaskAt
<1>7. UNCHANGED <<litter, overlap, record, stranded, holder, file>> /\ cont' = [cont EXCEPT ![c] = "paused"]
  BY DEF PauseOne, hist
<1>8. GroundTypes' BY <1>7 DEF GroundTypes, WorkspaceInv
<1>9. ASSUME PausesKnown
      PROVE  (PausedNow \subseteq record.conts \cup stranded)' /\ KnownToTask(n, u)' /\ Undisturbed(n)
  <2>1. KnownToTask(n, o) BY <1>1, <1>9 DEF PausesKnown
  <2>2. record'.id = n BY <2>1, <1>6, <1>7 DEF KnownToTask
  <2>3. PausedNow' = PausedNow \cup {c} BY <1>7 DEF PausedNow, WorkspaceInv, GroundTypes
  <2> QED BY <1>2, <1>4, <1>6, <1>7, <1>1, <1>9, <2>1, <2>2, <2>3 DEF KnownToTask, PausesKnown, Undisturbed
<1> QED BY <1>4, <1>5, <1>6, <1>7, <1>8, <1>9, TaskMoves, <1>1 DEF SettledTask, WorkspaceInv

\* A task ends.
LEMMA ChangeEnds ==
  ASSUME WorkspaceInv, NEW n \in Ops, NEW r \in {"ok", "error"}, Finish(n, r),
         r = "ok" => task[n].res = "ok",
         holder' \in 0 .. MaxOps => GroundTypes', UNCHANGED <<litter, overlap>>,
         PausesKnown => (PausedNow \subseteq record.conts \cup stranded)' /\ Undisturbed(n)
  PROVE  WorkspaceInv'
<1>1. PICK u \in TaskRow : /\ task' = [task EXCEPT ![n] = u]
                           /\ u.pc = "done" /\ u.then = "none" /\ u.res = r
                           /\ u.kind = task[n].kind /\ u.swap = task[n].swap
                           /\ u.seen = task[n].seen BY FinishRow
<1>2. SettledTask(u) /\ ~Changing(u) BY <1>1 DEF SettledTask, WorkspaceInv, Displaced, Changing
<1>3. KnownToTask(n, u)' BY <1>1 DEF KnownToTask
<1> QED BY <1>1, <1>2, <1>3, TaskMoves, FinishRow

\* A task that has paused containers goes on to resume them; o is the task
\* with the answer settled.
LEMMA TaskResumes ==
  ASSUME WorkspaceInv, NEW n \in Ops, NEW o \in TaskRow, NEW s, s = o.paused,
         NEW p \in {"none", "failed", "gone", "ok", "error"},
         task' = [task EXCEPT ![n] = ResumeThen(o, s, n, p)],
         p = "ok" => o.res = "ok",
         o.res = "ok" /\ o.kind = "patch" => Displaced(o),
         GroundTypes', UNCHANGED <<litter, overlap>>,
         PausesKnown => (PausedNow \subseteq record.conts \cup stranded)' /\ Undisturbed(n),
         PausesKnown => (record'.id = n => PausedNow' \subseteq o.paused \cup stranded')
  PROVE  WorkspaceInv'
<1>1. s \in SUBSET Containers /\ n \in 0 .. MaxOps BY WorkspaceAssumption DEF TaskRow, Ops
<1>2. PICK u \in TaskRow : u = ResumeThen(o, s, n, p) BY ResumeRow, <1>1
<1>3. /\ u.pc = "resume" /\ u.resuming = s /\ u.then = p /\ u.res = o.res /\ u.clears = n
      /\ u.paused = o.paused /\ u.kind = o.kind /\ u.swap = o.swap /\ u.seen = o.seen
  BY <1>2 DEF ResumeThen, TaskRow
<1>4. SettledTask(u) /\ ~Changing(u) BY <1>3 DEF SettledTask, Displaced, Changing
<1>5. PausesKnown => KnownToTask(n, u)' BY <1>3 DEF KnownToTask
<1> QED BY <1>4, <1>5, TaskMoves, <1>2

LEMMA PauseFailsKeeps ==
  ASSUME WorkspaceInv, NEW n \in Ops, NEW c \in Containers, PauseFails(n, c)
  PROVE  WorkspaceInv'
<1>1. Changing(task[n]) /\ task[n].pc = "pause" /\ c \in task[n].todo
  BY DEF Changing, PauseFails, TaskAt
<1>2. UNCHANGED <<litter, overlap, record, file>> BY DEF PauseFails, hist
<1>3. /\ cont' \in [Containers -> {"absent", "running", "paused"}]
      /\ PausedNow' \subseteq PausedNow \cup {c}
      /\ stranded' \subseteq Containers /\ stranded \subseteq stranded'
      /\ PausedNow' \subseteq PausedNow \/ task[n].paused = {} \/ c \in stranded'
  BY DEF PauseFails, PausedNow, WorkspaceInv, GroundTypes
<1>4. holder' \in 0 .. MaxOps => GroundTypes' BY <1>2, <1>3 DEF GroundTypes, WorkspaceInv
<1>5. ASSUME PausesKnown
      PROVE  /\ (PausedNow \subseteq record.conts \cup stranded)' /\ Undisturbed(n)
             /\ task[n].paused # {} => PausedNow' \subseteq task[n].paused \cup stranded'
  <2>1. KnownToTask(n, task[n]) BY <1>5 DEF PausesKnown
  <2>2. record'.id = n /\ c \in record.conts BY <2>1, <1>1, <1>2 DEF KnownToTask
  <2>3. Undisturbed(n) BY <2>2, <1>1 DEF Undisturbed
  <2> QED BY <1>1, <1>2, <1>3, <1>5, <2>1, <2>2, <2>3 DEF PausesKnown, KnownToTask
<1>6. CASE task[n].paused = {} BY <1>1, <1>2, <1>4, <1>5, ChangeEnds, <1>6 DEF PauseFails
<1>7. CASE task[n].paused # {}
  <2>1. PICK o \in TaskRow : o = task[n] BY DEF WorkspaceInv
  <2>2. o.res # "ok" BY <2>1, <1>1 DEF WorkspaceInv, SettledTask
  <2>3. GroundTypes' BY <1>7, <1>4 DEF PauseFails, WorkspaceInv, GroundTypes
  <2>4. task' = [task EXCEPT ![n] = ResumeThen(o, o.paused, n, "failed")] BY <1>7, <2>1 DEF PauseFails
  <2> QED BY <1>2, <1>5, <1>7, TaskResumes, <2>1, <2>2, <2>3, <2>4
<1> QED BY <1>6, <1>7

LEMMA AllPausedKeeps ==
  ASSUME WorkspaceInv, NEW n \in Ops, AllPaused(n)
  PROVE  WorkspaceInv'
<1>1. PICK o \in TaskRow : o = task[n] BY DEF WorkspaceInv
<1>2. UNCHANGED <<litter, overlap, record, file, cont, stranded, holder>> /\ GroundTypes'
  BY DEF AllPaused, OnlyTask, hist, WorkspaceInv, GroundTypes
<1>3. Changing(task[n]) /\ o.pc = "pause" /\ o.res # "ok"
  BY <1>1 DEF Changing, AllPaused, TaskAt, WorkspaceInv, SettledTask
<1>4. ASSUME PausesKnown
      PROVE  /\ (PausedNow \subseteq record.conts \cup stranded)' /\ Undisturbed(n)
             /\ PausedNow' \subseteq o.paused \cup stranded'
  <2>1. KnownToTask(n, o) BY <1>4, <1>1 DEF PausesKnown
  <2> QED BY <1>2, <1>3, <1>4, <2>1, SamePauses DEF KnownToTask
<1>5. CASE holder # n
  <2>1. task' = [task EXCEPT ![n] = ResumeThen(o, o.paused, n, "gone")] BY <1>5, <1>1 DEF AllPaused
  <2> QED BY <1>2, <1>3, <1>4, <2>1, TaskResumes
<1>6. CASE holder = n
  <2>1. PICK u : u = [o EXCEPT !.pc = "chown"] OBVIOUS
  <2>2. u \in TaskRow /\ u.pc = "chown" /\ u.paused = o.paused /\ u.then = o.then /\ u.res = o.res BY <2>1 DEF TaskRow
  <2>3. PausesKnown => KnownToTask(n, u)' BY <1>4, <2>2 DEF KnownToTask
  <2>4. SettledTask(u) BY <1>1, <1>3, <2>2 DEF SettledTask, WorkspaceInv
  <2>5. task' = [task EXCEPT ![n] = u] BY <1>1, <1>6, <2>1 DEF AllPaused
  <2> QED BY <1>2, <1>3, <1>4, <2>2, <2>3, <2>4, <2>5, TaskMoves
<1> QED BY <1>5, <1>6

LEMMA ResumeOneKeeps ==
  ASSUME WorkspaceInv, NEW n \in Ops, NEW c \in Containers, ResumeOne(n, c)
  PROVE  WorkspaceInv'
<1>1. PICK o \in TaskRow : o = task[n] BY DEF WorkspaceInv
<1>2. PICK s \in SUBSET Containers : s = o.resuming \ {c} BY DEF TaskRow
<1>3. PICK u : u = [o EXCEPT !.resuming = s] OBVIOUS
<1>4. /\ u \in TaskRow /\ u.pc = o.pc /\ u.resuming = s /\ u.then = o.then /\ u.res = o.res
      /\ u.paused = o.paused /\ u.kind = o.kind /\ u.swap = o.swap /\ u.seen = o.seen
      /\ u.clears = o.clears BY <1>3 DEF TaskRow
<1>5. task' = [task EXCEPT ![n] = u] BY <1>1, <1>2, <1>3 DEF ResumeOne, WorkspaceInv
<1>6. o.pc = "resume" /\ (Changing(u) => Changing(task[n])) BY <1>1, <1>4 DEF Changing, ResumeOne, TaskAt
<1>7. SettledTask(u) BY <1>1, <1>2, <1>4, <1>6 DEF SettledTask, WorkspaceInv, Displaced
<1>8. UNCHANGED <<litter, overlap, record, holder, file>> /\ stranded' = stranded \ {c} BY DEF ResumeOne, hist
<1>9. cont' \in [Containers -> {"absent", "running", "paused"}] /\ PausedNow' = PausedNow \ {c}
  BY DEF ResumeOne, PausedNow, WorkspaceInv, GroundTypes
<1>10. ASSUME PausesKnown
       PROVE  (PausedNow \subseteq record.conts \cup stranded)' /\ KnownToTask(n, u)' /\ Undisturbed(n)
  <2>1. KnownToTask(n, o) BY <1>10, <1>1 DEF PausesKnown
  <2>2. Undisturbed(n) BY <1>8, <1>9 DEF Undisturbed
  <2> QED BY <1>2, <1>4, <1>6, <1>8, <1>9, <1>10, <2>1, <2>2 DEF KnownToTask, PausesKnown
<1>11. GroundTypes' BY <1>8, <1>9 DEF GroundTypes, WorkspaceInv
<1> QED BY <1>4, <1>5, <1>6, <1>7, <1>8, <1>10, <1>11, TaskMoves

LEMMA ResumeGivesUpKeeps ==
  ASSUME WorkspaceInv, NEW n \in Ops, ResumeGivesUp(n), task[n].pc = "resume",
         UNCHANGED <<litter, overlap, record, file, cont, stranded>>
  PROVE  WorkspaceInv'
<1>1. holder' \in 0 .. MaxOps => GroundTypes' BY DEF GroundTypes, WorkspaceInv
<1>2. PausesKnown => (PausedNow \subseteq record.conts \cup stranded)' /\ Undisturbed(n) BY SamePauses
<1>3. CASE Finish(n, "error") BY <1>1, <1>2, <1>3, ChangeEnds
<1>4. CASE /\ task[n].then \in {"ok", "error"} /\ Unlock(n)
           /\ task' = [task EXCEPT ![n] = ResumeThen([task[n] EXCEPT !.res = "error"],
                                                    task[n].paused, n, "gone")]
  <2>1. PICK t \in TaskRow : t = task[n] BY DEF WorkspaceInv
  <2>2. PICK o : o = [t EXCEPT !.res = "error"] OBVIOUS
  <2>3. o \in TaskRow /\ o.paused = t.paused /\ o.res = "error" BY <2>2 DEF TaskRow
  <2>4. PICK s : s = o.paused OBVIOUS
  <2>5. task' = [task EXCEPT ![n] = ResumeThen(o, s, n, "gone")] BY <1>4, <2>1, <2>2, <2>3, <2>4
  <2>6. GroundTypes' BY <1>1, <1>4, WorkspaceAssumption DEF Unlock, WorkspaceInv, GroundTypes
  <2>7. ASSUME PausesKnown, record'.id = n PROVE PausedNow' \subseteq o.paused \cup stranded'
    <3>1. KnownToTask(n, t) /\ SettledTask(t) BY <2>1, <2>7 DEF PausesKnown, WorkspaceInv
    <3>2. t.resuming \subseteq t.paused /\ t.clears = n BY <3>1, <1>4, <2>1 DEF KnownToTask, SettledTask
    <3> QED BY <3>1, <3>2, <2>1, <2>3, <2>7, SamePauses DEF KnownToTask
  <2> QED BY <1>2, <2>3, <2>4, <2>5, <2>6, <2>7, TaskResumes
<1> QED BY <1>3, <1>4 DEF ResumeGivesUp

LEMMA ResumeFailsKeeps ==
  ASSUME WorkspaceInv, NEW n \in Ops, ResumeFails(n)
  PROVE  WorkspaceInv'
<1>1. task[n].pc = "resume" /\ UNCHANGED <<litter, overlap, record, file, cont, stranded>>
  BY DEF ResumeFails, TaskAt, hist
<1>2. PausesKnown => (PausedNow \subseteq record.conts \cup stranded)' /\ Undisturbed(n) BY <1>1, SamePauses
<1>3. CASE ResumeGivesUp(n) BY <1>1, <1>3, ResumeGivesUpKeeps
<1>4. CASE task[n].tries < 2 /\ task' = [task EXCEPT ![n].tries = @ + 1] /\ UNCHANGED holder
  <2>1. PICK o \in TaskRow : o = task[n] BY DEF WorkspaceInv
  <2>2. PICK u : u = [o EXCEPT !.tries = @ + 1] OBVIOUS
  <2>3. /\ u \in TaskRow /\ u.pc = o.pc /\ u.resuming = o.resuming /\ u.then = o.then /\ u.res = o.res
        /\ u.paused = o.paused /\ u.kind = o.kind /\ u.swap = o.swap /\ u.seen = o.seen
        /\ u.clears = o.clears BY <2>2 DEF TaskRow
  <2>4. task' = [task EXCEPT ![n] = u] BY <1>4, <2>1, <2>2 DEF WorkspaceInv
  <2>5. SettledTask(u) BY <1>1, <2>1, <2>3 DEF SettledTask, WorkspaceInv, Displaced
  <2>6. GroundTypes' BY <1>1, <1>4 DEF WorkspaceInv, GroundTypes
  <2>7. Changing(u) => Changing(task[n]) BY <2>1, <2>3 DEF Changing
  <2>8. ASSUME PausesKnown PROVE KnownToTask(n, u)'
    <3>1. KnownToTask(n, o) BY <2>8, <2>1 DEF PausesKnown
    <3> QED BY <3>1, <1>1, <2>1, <2>3, SamePauses DEF KnownToTask
  <2> QED BY <1>1, <1>2, <2>3, <2>4, <2>5, <2>6, <2>7, <2>8, TaskMoves
<1> QED BY <1>3, <1>4 DEF ResumeFails

LEMMA ResumeClearKeeps ==
  ASSUME WorkspaceInv, NEW n \in Ops, ResumeClear(n)
  PROVE  WorkspaceInv'
<1> DEFINE none == task[n].paused = {} /\ task[n].then # "list"
           ok   == none \/ record.id = task[n].clears
<1>1. task[n].pc = "resume" /\ task[n].resuming = {} BY DEF ResumeClear, TaskAt
<1>2. UNCHANGED <<litter, overlap, file, cont, stranded>> BY DEF ResumeClear, hist
<1>3. /\ record' \in [id : 0 .. MaxOps, conts : SUBSET Containers]
      /\ record'.id = 0 => record'.conts = {}
  BY WorkspaceAssumption DEF WorkspaceInv, GroundTypes, ResumeClear, NoRecord
<1>4. holder' \in 0 .. MaxOps => GroundTypes' BY <1>2, <1>3 DEF GroundTypes, WorkspaceInv
<1>5. ASSUME PausesKnown, record.id = task[n].clears PROVE PausedNow' \subseteq stranded'
  BY <1>1, <1>2, <1>5 DEF PausesKnown, KnownToTask, PausedNow
<1>6. ASSUME PausesKnown
      PROVE  (PausedNow \subseteq record.conts \cup stranded)' /\ Undisturbed(n)
  <2>1. CASE record' = record BY <1>2, <1>6, <2>1, SamePauses
  <2>2. CASE record.id = task[n].clears BY <1>1, <1>5, <1>6, <2>2 DEF Undisturbed
  <2> QED BY <2>1, <2>2 DEF ResumeClear
<1>7. CASE ok /\ task[n].then = "list"
  <2>1. task' = [task EXCEPT ![n].pc = "list"] /\ UNCHANGED holder BY <1>7 DEF ResumeClear
  <2>2. PICK o \in TaskRow : o = task[n] BY DEF WorkspaceInv
  <2>3. PICK u : u = [o EXCEPT !.pc = "list"] OBVIOUS
  <2>4. u \in TaskRow /\ u.pc = "list" /\ u.then = o.then /\ u.res = o.res BY <2>3 DEF TaskRow
  <2>5. task' = [task EXCEPT ![n] = u] BY <2>1, <2>2, <2>3 DEF WorkspaceInv
  <2>6. GroundTypes' BY <1>4, <2>1 DEF WorkspaceInv, GroundTypes
  <2>7. Changing(task[n]) BY <1>1, <1>7 DEF Changing
  <2>8. SettledTask(u) BY <1>1, <1>7, <2>2, <2>4 DEF SettledTask, WorkspaceInv
  <2>9. PausesKnown => KnownToTask(n, u)' BY <1>5, <1>7, <2>4 DEF KnownToTask
  <2> QED BY <1>2, <1>6, <2>4, <2>5, <2>6, <2>7, <2>8, <2>9, TaskMoves
<1>8. CASE ok /\ task[n].then # "list"
  <2>1. PICK r \in {"ok", "error"} : r = (IF task[n].then = "ok" THEN "ok" ELSE "error") OBVIOUS
  <2>2. Finish(n, r) BY <1>8, <2>1 DEF ResumeClear
  <2>3. r = "ok" => task[n].res = "ok" BY <2>1 DEF WorkspaceInv, SettledTask
  <2> QED BY <1>2, <1>4, <1>6, <2>2, <2>3, ChangeEnds
<1>9. CASE ~ok
  <2>1. ResumeGivesUp(n) /\ record' = record BY <1>9 DEF ResumeClear
  <2> QED BY <1>1, <1>2, <2>1, ResumeGivesUpKeeps
<1> QED BY <1>7, <1>8, <1>9

\* The steps of the change itself touch no container: what is paused stays known.
LEMMA ChangeGoesOn ==
  ASSUME WorkspaceInv, NEW n \in Ops, NEW o \in TaskRow, NEW u \in TaskRow, o = task[n],
         o.pc \in {"chown", "look", "publish", "validate"},
         u.pc \in {"look", "publish", "validate", "post"},
         u.paused = o.paused, u.then = o.then,
         u.res = "ok" => u.pc = "post" /\ (u.kind = "patch" => Displaced(u)),
         u.pc = "validate" /\ ~u.swap => u.seen = "none",
         task' = [task EXCEPT ![n] = u],
         file' \in {"none", "base", "mine", "theirs"},
         UNCHANGED <<cont, record, litter, holder, stranded, overlap>>
  PROVE  WorkspaceInv'
<1>1. GroundTypes' BY DEF GroundTypes, WorkspaceInv
<1>2. ASSUME PausesKnown PROVE KnownToTask(n, u)'
  <2>1. KnownToTask(n, o) BY <1>2 DEF PausesKnown
  <2> QED BY <2>1, SamePauses DEF KnownToTask
<1>3. SettledTask(u) BY DEF SettledTask, WorkspaceInv
<1>4. Changing(task[n]) BY DEF Changing
<1> QED BY <1>1, <1>2, <1>3, <1>4, SamePauses, TaskMoves

LEMMA CheckKeeps ==
  ASSUME WorkspaceInv, NEW n \in Ops, Check(n)
  PROVE  WorkspaceInv'
<1>1. PICK o \in TaskRow : o = task[n] BY DEF WorkspaceInv
<1>2. /\ o.pc = "chown" /\ UNCHANGED <<cont, record, litter, holder, stranded, overlap, file>>
      /\ file \in {"none", "base", "mine", "theirs"} /\ o.res # "ok"
  BY <1>1 DEF Check, TaskAt, OnlyTask, hist, WorkspaceInv, GroundTypes, SettledTask
<1>3. CASE \E to \in {"look", "publish"} :
             task' = [task EXCEPT ![n] = [task[n] EXCEPT !.pc = to, !.swap = task[n].kind = "delete"]]
  <2>1. PICK to \in {"look", "publish"}, w \in BOOLEAN :
             /\ w = (o.kind = "delete")
             /\ task' = [task EXCEPT ![n] = [o EXCEPT !.pc = to, !.swap = w]] BY <1>1, <1>3
  <2>2. PICK u : u = [o EXCEPT !.pc = to, !.swap = w] OBVIOUS
  <2>3. /\ u \in TaskRow /\ u.pc = to /\ u.paused = o.paused /\ u.then = o.then
        /\ u.res = o.res BY <2>2 DEF TaskRow
  <2>4. task' = [task EXCEPT ![n] = u] BY <2>1, <2>2
  <2>5. /\ o.pc \in {"chown", "look", "publish", "validate"} /\ u.res # "ok"
        /\ u.pc \in {"look", "publish", "validate", "post"} /\ u.pc # "validate" BY <1>2, <2>3
  <2> QED BY <1>1, <1>2, <2>3, <2>4, <2>5, ChangeGoesOn
<1>4. CASE task' = [task EXCEPT ![n] = [task[n] EXCEPT !.pc = "post", !.res = "error"]]
  <2>1. PICK u : u = [o EXCEPT !.pc = "post", !.res = "error"] OBVIOUS
  <2>2. /\ u \in TaskRow /\ u.pc = "post" /\ u.paused = o.paused /\ u.then = o.then
        /\ u.res = "error" BY <2>1 DEF TaskRow
  <2> QED BY <1>1, <1>2, <2>2, ChangeGoesOn, <1>4, <2>1
<1> QED BY <1>3, <1>4 DEF Check

LEMMA LookKeeps ==
  ASSUME WorkspaceInv, NEW n \in Ops, Look(n)
  PROVE  WorkspaceInv'
<1>1. PICK o \in TaskRow : o = task[n] BY DEF WorkspaceInv
<1>2. /\ o.pc = "look" /\ UNCHANGED <<cont, record, litter, holder, stranded, overlap, file>>
      /\ file \in {"none", "base", "mine", "theirs"} /\ o.res # "ok"
  BY <1>1 DEF Look, TaskAt, OnlyTask, hist, WorkspaceInv, GroundTypes, SettledTask
<1>3. PICK w \in BOOLEAN : w = (file # "none") OBVIOUS
<1>4. PICK u : u = [o EXCEPT !.pc = "publish", !.swap = w] OBVIOUS
<1>5. /\ u \in TaskRow /\ u.pc = "publish" /\ u.paused = o.paused /\ u.then = o.then
      /\ u.res = o.res BY <1>4 DEF TaskRow
<1>6. task' = [task EXCEPT ![n] = u] BY <1>1, <1>3, <1>4 DEF Look, WorkspaceInv
<1> QED BY <1>1, <1>2, <1>5, <1>6, ChangeGoesOn

LEMMA PublishPatchKeeps ==
  ASSUME WorkspaceInv, NEW n \in Ops, PublishPatch(n)
  PROVE  WorkspaceInv'
<1>1. PICK o \in TaskRow : o = task[n] BY DEF WorkspaceInv
<1>2. /\ o.pc = "publish" /\ UNCHANGED <<cont, record, litter, holder, stranded, overlap>>
      /\ file \in {"none", "base", "mine", "theirs"} /\ file' \in {"none", "base", "mine", "theirs"}
      /\ o.res # "ok" BY <1>1 DEF PublishPatch, TaskAt, hist, WorkspaceInv, GroundTypes, SettledTask
<1>3. CASE o.swap = (file # "none") /\ task' = [task EXCEPT ![n].pc = "validate", ![n].seen = file]
  <2>1. PICK e \in {"none", "base", "mine", "theirs"} : e = file BY <1>2
  <2>2. PICK u : u = [o EXCEPT !.pc = "validate", !.seen = e] OBVIOUS
  <2>3. /\ u \in TaskRow /\ u.pc = "validate" /\ u.paused = o.paused /\ u.then = o.then
        /\ u.res = o.res /\ u.swap = o.swap /\ u.seen = e BY <2>2 DEF TaskRow
  <2>4. task' = [task EXCEPT ![n] = u] BY <1>1, <1>3, <2>1, <2>2 DEF WorkspaceInv
  <2>5. ~u.swap => u.seen = "none" BY <1>3, <2>1, <2>3
  <2> QED BY <1>1, <1>2, <2>3, <2>4, <2>5, ChangeGoesOn
<1>4. CASE task' = [task EXCEPT ![n].pc = "post", ![n].res = "error"]
  <2>1. PICK u : u = [o EXCEPT !.pc = "post", !.res = "error"] OBVIOUS
  <2>2. /\ u \in TaskRow /\ u.pc = "post" /\ u.paused = o.paused /\ u.then = o.then
        /\ u.res = "error" BY <2>1 DEF TaskRow
  <2>3. task' = [task EXCEPT ![n] = u] BY <1>1, <1>4, <2>1 DEF WorkspaceInv
  <2> QED BY <1>1, <1>2, <2>2, <2>3, ChangeGoesOn
<1> QED BY <1>1, <1>3, <1>4 DEF PublishPatch

LEMMA ValidateKeeps ==
  ASSUME WorkspaceInv, NEW n \in Ops, Validate(n)
  PROVE  WorkspaceInv'
<1>1. PICK o \in TaskRow : o = task[n] BY DEF WorkspaceInv
<1>2. /\ o.pc = "validate" /\ UNCHANGED <<cont, record, litter, holder, stranded, overlap>>
      /\ file' \in {"none", "base", "mine", "theirs"}
  BY <1>1 DEF Validate, TaskAt, hist, WorkspaceInv, GroundTypes, TaskRow
<1>3. PICK r \in {"ok", "error"} : /\ task' = [task EXCEPT ![n].pc = "post", ![n].res = r]
                                   /\ r = "ok" => DisplacedExpected(o) BY <1>1 DEF Validate
<1>4. PICK u : u = [o EXCEPT !.pc = "post", !.res = r] OBVIOUS
<1>5. /\ u \in TaskRow /\ u.pc = "post" /\ u.paused = o.paused /\ u.then = o.then
      /\ u.kind = o.kind /\ u.res = r /\ u.swap = o.swap /\ u.seen = o.seen BY <1>4 DEF TaskRow
<1>6. task' = [task EXCEPT ![n] = u] BY <1>1, <1>3, <1>4 DEF WorkspaceInv
<1>7. ~o.swap => o.seen = "none" BY <1>1, <1>2 DEF WorkspaceInv, SettledTask
<1>8. u.res = "ok" => u.pc = "post" /\ (u.kind = "patch" => Displaced(u))
  BY <1>3, <1>5, <1>7 DEF DisplacedExpected, Displaced
<1> QED BY <1>1, <1>2, <1>5, <1>6, <1>8, ChangeGoesOn

LEMMA PostKeeps ==
  ASSUME WorkspaceInv, NEW n \in Ops, Post(n)
  PROVE  WorkspaceInv'
<1>1. PICK o \in TaskRow : o = task[n] BY DEF WorkspaceInv
<1>2. UNCHANGED <<litter, overlap, record, file, cont, stranded, holder>> /\ GroundTypes' /\ o.pc = "post"
  BY <1>1 DEF Post, TaskAt, OnlyTask, hist, WorkspaceInv, GroundTypes
<1>3. PICK p \in {"none", "failed", "gone", "ok", "error"}, s \in SUBSET Containers :
         p = o.res /\ s = o.paused BY DEF TaskRow
<1>4. task' = [task EXCEPT ![n] = ResumeThen(o, s, n, p)] BY <1>1, <1>3 DEF Post
<1>5. ASSUME PausesKnown PROVE PausedNow' \subseteq o.paused \cup stranded'
  <2>1. KnownToTask(n, o) BY <1>1, <1>5 DEF PausesKnown
  <2> QED BY <1>2, <2>1, SamePauses DEF KnownToTask
<1>6. o.res = "ok" /\ o.kind = "patch" => Displaced(o) BY <1>1 DEF WorkspaceInv, SettledTask
<1> QED BY <1>2, <1>3, <1>4, <1>5, <1>6, SamePauses, TaskResumes

LEMMA ContainKeeps ==
  ASSUME WorkspaceInv, NEW n \in Ops, Contain(n)
  PROVE  WorkspaceInv'
<1>1. UNCHANGED <<litter, overlap, record, file>> /\ stranded' = stranded \ task[n].paused BY DEF Contain, hist
<1>2. /\ cont' \in [Containers -> {"absent", "running", "paused"}]
      /\ PausedNow' = PausedNow \ task[n].paused BY DEF Contain, PausedNow, WorkspaceInv, GroundTypes
<1>3. Undisturbed(n) BY <1>1, <1>2 DEF Undisturbed
<1>4. PausesKnown => (PausedNow \subseteq record.conts \cup stranded)' BY <1>1, <1>2 DEF PausesKnown
<1>5. holder' \in 0 .. MaxOps => GroundTypes' BY <1>1, <1>2 DEF GroundTypes, WorkspaceInv
<1>6. Finish(n, "error") BY DEF Contain
<1> QED BY <1>1, <1>3, <1>4, <1>5, <1>6, ChangeEnds

\* Steps that touch neither the tasks nor the containers.
LEMMA TasksStand ==
  ASSUME WorkspaceInv, UNCHANGED <<cont, record, litter, task, stranded, overlap>>,
         holder' \in 0 .. MaxOps, file' \in {"none", "base", "mine", "theirs"}
  PROVE  WorkspaceInv'
<1>1. GroundTypes' BY DEF WorkspaceInv, GroundTypes
<1>2. PausesKnown => PausesKnown' BY DEF PausesKnown, KnownToTask, PausedNow
<1>3. OneChanges => OneChanges' BY DEF OneChanges, Changing
<1> QED BY <1>1, <1>2, <1>3 DEF WorkspaceInv, SettledTask

\* A task that is dropped between the pause and the guard, or by a restart.
DroppedTask(k) == [NoTask EXCEPT !.pc = "done", !.kind = k, !.res = "error"]

LEMMA DroppedRow ==
  ASSUME NEW k \in Kinds \cup {"none"}
  PROVE  /\ DroppedTask(k) \in TaskRow /\ DroppedTask(k).pc = "done"
         /\ SettledTask(DroppedTask(k)) /\ ~Changing(DroppedTask(k))
<1>1. PICK f \in TaskRow : f = NoTask /\ f.then = "none" BY NoTaskRow
<1>2. PICK u : u = [f EXCEPT !.pc = "done", !.kind = k, !.res = "error"] OBVIOUS
<1>3. u \in TaskRow /\ u.pc = "done" /\ u.res = "error" /\ u.then = f.then BY <1>2 DEF TaskRow
<1> QED BY <1>3, <1>1, <1>2 DEF DroppedTask, SettledTask, Changing

LEMMA DropRequestKeeps ==
  ASSUME WorkspaceInv, NEW n \in Ops, DropRequest(n)
  PROVE  WorkspaceInv'
<1>1. UNCHANGED <<litter, overlap, record, file, cont, stranded>> /\ holder' \in 0 .. MaxOps
      /\ file' \in {"none", "base", "mine", "theirs"} /\ n \in 0 .. MaxOps
  BY WorkspaceAssumption DEF DropRequest, hist, WorkspaceInv, GroundTypes, Ops
<1>2. GroundTypes' BY <1>1 DEF GroundTypes, WorkspaceInv
<1>3. CASE UNCHANGED task BY <1>1, <1>3, TasksStand
<1>4. CASE TaskAt(n, "chown")
           /\ task' = [task EXCEPT ![n] = [NoTask EXCEPT !.pc = "done", !.res = "error"]]
  <2>1. PICK f \in TaskRow : f = NoTask /\ f.then = "none" BY NoTaskRow
  <2>2. PICK u : u = [f EXCEPT !.pc = "done", !.res = "error"] OBVIOUS
  <2>3. u \in TaskRow /\ u.pc = "done" /\ u.res = "error" /\ u.then = f.then BY <2>2 DEF TaskRow
  <2>4. task' = [task EXCEPT ![n] = u] BY <1>4, <2>1, <2>2
  <2>5. KnownToTask(n, u)' BY <2>3 DEF KnownToTask
  <2>6. SettledTask(u) /\ ~Changing(u) BY <2>1, <2>3 DEF SettledTask, Changing
  <2> QED BY <1>1, <1>2, <2>3, <2>4, <2>5, <2>6, SamePauses, TaskMoves
<1>5. CASE /\ TaskAt(n, "post") \/ task[n].then \in {"ok", "error"}
           /\ task' = [task EXCEPT ![n] = ResumeThen(task[n], task[n].paused, n, "gone")]
  <2>1. PICK o \in TaskRow : o = task[n] BY DEF WorkspaceInv
  <2>2. PICK s \in SUBSET Containers : s = o.paused BY DEF TaskRow
  <2>3. SettledTask(o) BY <2>1 DEF WorkspaceInv
  <2>4. ASSUME PausesKnown, record'.id = n PROVE PausedNow' \subseteq o.paused \cup stranded'
    <3>1. KnownToTask(n, o) BY <2>1, <2>4 DEF PausesKnown
    <3>2. CASE TaskAt(n, "post") BY <1>1, <2>1, <3>1, <3>2, SamePauses DEF TaskAt, KnownToTask
    <3>3. CASE task[n].then \in {"ok", "error"}
      <4>1. o.pc = "resume" /\ o.resuming \subseteq o.paused BY <2>1, <2>3, <3>3 DEF SettledTask
      <4>2. o.clears = n BY <2>1, <3>1, <3>3, <4>1 DEF KnownToTask
      <4> QED BY <1>1, <2>4, <3>1, <4>1, <4>2, SamePauses DEF KnownToTask
    <3> QED BY <1>5, <3>2, <3>3
  <2>5. o.res = "ok" /\ o.kind = "patch" => Displaced(o) BY <2>3 DEF SettledTask
  <2>6. task' = [task EXCEPT ![n] = ResumeThen(o, s, n, "gone")] BY <1>5, <2>1, <2>2
  <2> QED BY <1>1, <1>2, <2>2, <2>4, <2>5, <2>6, SamePauses, TaskResumes
<1> QED BY <1>3, <1>4, <1>5 DEF DropRequest

\* The row of a request that begins.
NewTask(k) == [NoTask EXCEPT !.kind = k]

LEMMA NewRow ==
  ASSUME WorkspaceInv, NEW k \in Kinds, NEW new, new = EnsureRecovered(NewTask(k))
  PROVE  /\ new \in TaskRow /\ SettledTask(new)
         /\ \/ new.pc = "list" /\ record.id = 0
            \/ new.pc = "resume" /\ new.resuming = record.conts /\ new.then = "list"
<1>1. PICK f \in TaskRow : f = NoTask /\ f.then = "none" /\ f.res = "none" BY NoTaskRow
<1>2. PICK g : g = [f EXCEPT !.kind = k] OBVIOUS
<1>3. g \in TaskRow /\ g.then = f.then /\ g.res = f.res BY <1>2 DEF TaskRow
<1>4. g = NewTask(k) BY <1>1, <1>2 DEF NewTask
<1>5. CASE record.id = 0
  <2>1. PICK u : u = [g EXCEPT !.pc = "list"] OBVIOUS
  <2>2. u \in TaskRow /\ u.pc = "list" /\ u.then = g.then /\ u.res = g.res BY <1>3, <2>1 DEF TaskRow
  <2> QED BY <1>5, <2>2, <1>4, <2>1, <1>1, <1>3 DEF EnsureRecovered, SettledTask
<1>6. CASE record.id # 0
  <2>1. PICK s \in SUBSET Containers, c \in 0 .. MaxOps : s = record.conts /\ c = record.id
    BY DEF WorkspaceInv, GroundTypes
  <2>2. PICK u \in TaskRow : u = ResumeThen(g, s, c, "list") BY <1>3, ResumeRow
  <2>3. u.pc = "resume" /\ u.resuming = s /\ u.then = "list" /\ u.res = g.res BY <1>3, <2>2 DEF ResumeThen, TaskRow
  <2> QED BY <2>1, <2>3, <1>4, <1>6, <2>2, <1>1, <1>3 DEF EnsureRecovered, SettledTask
<1> QED BY <1>5, <1>6

LEMMA BeginOpKeeps ==
  ASSUME WorkspaceInv, NEW n \in Ops, NEW k \in Kinds, BeginOp(n, k)
  PROVE  WorkspaceInv'
<1> PICK u : u = EnsureRecovered(NewTask(k)) OBVIOUS
<1>1. /\ u \in TaskRow /\ SettledTask(u)
      /\ \/ u.pc = "list" /\ record.id = 0
         \/ u.pc = "resume" /\ u.resuming = record.conts /\ u.then = "list" BY NewRow
<1>2. /\ task' \in [Ops -> TaskRow] /\ task'[n] = u
      /\ \A m \in Ops : m # n => task'[m] = task[m] BY <1>1 DEF WorkspaceInv, BeginOp, NewTask
<1>3. UNCHANGED <<cont, record, litter, file, stranded>> /\ overlap' \in BOOLEAN
      /\ holder' \in 0 .. MaxOps BY WorkspaceAssumption DEF BeginOp, Ops, WorkspaceInv, GroundTypes
<1>4. ASSUME ~overlap' PROVE ~overlap /\ \A m \in Ops : ~Changing(task[m]) BY <1>4 DEF BeginOp
<1>5. ~overlap' => OneChanges' BY <1>2, <1>4 DEF OneChanges, Changing
<1>6. ASSUME ~litter', ~overlap' PROVE PausesKnown'
  <2>1. PausedNow' = PausedNow /\ (PausedNow \subseteq record.conts \cup stranded)' /\ PausesKnown
    BY <1>3, SamePauses, <1>4, <1>6 DEF WorkspaceInv
  <2>2. ASSUME NEW m \in Ops, m # n PROVE KnownToTask(m, task[m])'
    <3>1. KnownToTask(m, task[m]) BY <2>1 DEF PausesKnown
    <3> QED BY <1>2, <1>3, <2>1, <2>2, <3>1 DEF KnownToTask
  <2>3. KnownToTask(n, u)' BY <1>1, <1>3, <2>1 DEF KnownToTask, WorkspaceInv, GroundTypes
  <2> QED BY <2>1, <2>2, <2>3, <1>2 DEF PausesKnown, KnownToTask
<1>7. GroundTypes' BY <1>3 DEF WorkspaceInv, GroundTypes
<1>8. \A m \in Ops : SettledTask(task'[m]) BY <1>1, <1>2 DEF WorkspaceInv
<1> QED BY <1>2, <1>5, <1>6, <1>7, <1>8 DEF WorkspaceInv, SettledTask

LEMMA RebootKeeps ==
  ASSUME WorkspaceInv, Reboot
  PROVE  WorkspaceInv'
<1>1. ASSUME NEW n \in Ops
      PROVE  task'[n] \in TaskRow /\ task'[n].pc \in {"idle", "done"} /\ SettledTask(task'[n])
  <2>1. CASE task[n].pc \in {"idle", "done"} BY <2>1 DEF WorkspaceInv, Reboot
  <2>2. CASE task[n].pc \notin {"idle", "done"}
    <3>1. PICK k \in Kinds \cup {"none"} : k = task[n].kind BY DEF WorkspaceInv, TaskRow
    <3> QED BY DroppedRow, <2>2, <3>1 DEF Reboot, DroppedTask
  <2> QED BY <2>1, <2>2
<1>2. /\ litter' \in BOOLEAN /\ overlap' = overlap /\ file' = file /\ holder' = 0
      /\ litter' => UNCHANGED <<cont, record, stranded>>
      /\ ~litter' => cont' = [c \in Containers |-> "absent"] /\ record' = NoRecord /\ stranded' = {}
  BY DEF Reboot, hist
<1>3. GroundTypes' BY <1>2, WorkspaceAssumption DEF GroundTypes, WorkspaceInv, NoRecord
<1>4. ~litter' => PausesKnown' BY <1>1, <1>2 DEF PausesKnown, KnownToTask, PausedNow
<1>5. OneChanges' BY <1>1 DEF OneChanges, Changing
<1>6. task' \in [Ops -> TaskRow] BY <1>1 DEF Reboot
<1> QED BY <1>3, <1>4, <1>1, <1>5, <1>6 DEF WorkspaceInv, SettledTask

LEMMA WorkspaceStep == WorkspaceInv /\ [WorkspaceNext]_wvars => WorkspaceInv'
<1> SUFFICES ASSUME WorkspaceInv, [WorkspaceNext]_wvars PROVE WorkspaceInv' OBVIOUS
<1>1. CASE \E n \in Ops :
             \/ \E k \in Kinds : BeginOp(n, k)
             \/ TaskSteps(n) \/ ResumeFails(n) \/ Contain(n) \/ DropRequest(n)
             \/ \E c \in Containers : PauseFails(n, c)
  <2>1. PICK n \in Ops :
             \/ \E k \in Kinds : BeginOp(n, k)
             \/ TaskSteps(n) \/ ResumeFails(n) \/ Contain(n) \/ DropRequest(n)
             \/ \E c \in Containers : PauseFails(n, c) BY <1>1
  <2>2. CASE \E k \in Kinds : BeginOp(n, k) BY <2>2, BeginOpKeeps
  <2>3. CASE TaskSteps(n)
    BY <2>3, ListContainersKeeps, PersistKeeps, AllPausedKeeps, ResumeClearKeeps, CheckKeeps, LookKeeps,
      PublishPatchKeeps, ValidateKeeps, PostKeeps, PauseOneKeeps, ResumeOneKeeps DEF TaskSteps
  <2>4. CASE ResumeFails(n) \/ Contain(n) \/ DropRequest(n) \/ \E c \in Containers : PauseFails(n, c)
    BY <2>4, ResumeFailsKeeps, ContainKeeps, DropRequestKeeps, PauseFailsKeeps
  <2> QED BY <2>1, <2>2, <2>3, <2>4
<1>2. ASSUME NEW c \in Containers, NEW v \in {"base", "theirs", "none"}, ContainerWrites(c, v)
      PROVE  WorkspaceInv' BY TasksStand, <1>2 DEF ContainerWrites, hist, WorkspaceInv, GroundTypes
<1>3. CASE Reboot BY <1>3, RebootKeeps
<1>4. CASE UNCHANGED wvars BY TasksStand, <1>4 DEF wvars, WorkspaceInv, GroundTypes
<1> QED BY <1>1, <1>2, <1>3, <1>4 DEF WorkspaceNext

LEMMA WorkspaceInitially == WorkspaceInit => WorkspaceInv
<1> SUFFICES ASSUME WorkspaceInit PROVE WorkspaceInv OBVIOUS
<1>1. GroundTypes
  <2>1. holder \in 0 .. MaxOps /\ stranded \subseteq Containers
        /\ file \in {"none", "base", "mine", "theirs"} BY WorkspaceAssumption DEF WorkspaceInit
  <2>2. litter \in BOOLEAN /\ overlap \in BOOLEAN BY DEF WorkspaceInit
  <2> QED BY <2>1, <2>2, WorkspaceAssumption DEF GroundTypes, WorkspaceInit, NoRecord
<1>2. PausedNow = {} BY DEF PausedNow, WorkspaceInit
<1> QED BY <1>1, <1>2, NoTaskRow DEF WorkspaceInv, PausesKnown, SettledTask, OneChanges, Changing,
     KnownToTask, WorkspaceInit

LEMMA PatchesAreRecorded == WorkspaceInv => PatchesRecoverable
BY DEF WorkspaceInv, SettledTask, PausesKnown, PausedNow, PatchConditional, PausedIsRecorded,
       PatchesRecoverable

LEMMA WorkspaceAlways == WorkspaceSpec => []WorkspaceInv
  BY WorkspaceInitially, WorkspaceStep, PTL DEF WorkspaceSpec

\* mutate_workspace, atomic_write and the recovery store: a patch that is
\* reported as applied replaced the content it was made for, and a container
\* that is paused when nobody is at work is in the recovery record, whatever is
\* dropped, fails or restarts meanwhile.
THEOREM PatchesRecover == WorkspaceSpec => []PatchesRecoverable
  BY WorkspaceAlways, PatchesAreRecorded, PTL

-----------------------------------------------------------------------------
(* The daemon as a whole *)

\* A behaviour of the daemon follows one of its parts and leaves the state of
\* the others alone, so that it is a behaviour of each of them.
LEMMA PartsBehave == Spec => RequestsSpec /\ WorkspaceSpec /\ FilesSpec
<1>1. Init => RequestsInit /\ WorkspaceInit /\ FilesInit BY DEF Init
<1>2. [Next]_partVars => [RequestsNext]_rvars /\ [WorkspaceNext]_wvars /\ [FilesNext]_fvars BY DEF Next, partVars
<1> QED BY <1>1, <1>2, PTL DEF Spec, RequestsSpec, WorkspaceSpec, FilesSpec

\* What the daemon answers for: a retried request is carried out once, a patch
\* replaces only what it was made for and the containers it pauses can be
\* found again, and a copy, a move or a delete is all or nothing.
THEOREM DaemonKeepsItsWord ==
  Spec => [](OncePerRequest /\ PatchesRecoverable /\ FilesAllOrNothing)
  BY PartsBehave, RetriesAreHarmless, PatchesRecover, FilesWholeOrUntouched, PTL

LEMMA FilesShapes == FilesInv => FilesTypeOK
<1> SUFFICES ASSUME FilesInv PROVE FilesTypeOK OBVIOUS
<1>1. TreeTypes /\ StagingInv BY DEF FilesInv
<1>2. /\ staging \subseteq 1 .. made
      /\ \A n \in FileNames : dirent[n] \notin staging
  <2>1. CASE op.pc \in {"copying", "remove"} BY <1>1, <2>1 DEF StagingInv
  <2>2. CASE op.pc \notin {"copying", "remove"} BY <1>1, <2>2 DEF StagingInv
  <2> QED BY <2>1, <2>2
<1> QED BY <1>2, <1>1 DEF FilesTypeOK, TreeTypes, FileOpRow, NamesOnce

LEMMA WorkspaceShapes == WorkspaceInv => WorkspaceTypeOK
<1> SUFFICES ASSUME WorkspaceInv PROVE WorkspaceTypeOK OBVIOUS
<1>1. \A n \in Ops : task[n].pc \in {"idle", "list", "persist", "pause", "resume", "chown",
                                     "look", "publish", "validate", "post", "done"} BY DEF TaskRow, WorkspaceInv
<1> QED BY <1>1 DEF WorkspaceTypeOK, GroundTypes, WorkspaceInv

\* Everything the daemon, its callers and the page keep has its shape: the
\* replay cache and the list of finished terminals stay within their limits,
\* the output that is stored within its own, an inode is named once and never
\* while it is staged.
THEOREM DaemonShapes == Spec => []SandboxTypeOK
<1>1. FilesSpec => []FilesTypeOK BY FilesInitially, FilesStep, FilesShapes, PTL DEF FilesSpec
<1>2. WorkspaceSpec => []WorkspaceTypeOK BY WorkspaceAlways, WorkspaceShapes, PTL
<1>3. /\ RequestsTypeOK /\ TerminalTypeOK /\ WorkspaceTypeOK /\ FilesTypeOK
      /\ OutputTypeOK /\ SandboxCallsTypeOK
      => SandboxTypeOK BY DEF SandboxTypeOK
<1> QED
  BY <1>1, <1>2, <1>3, PartsBehave, TerminalPartsBehave, CacheIsBounded, TerminalShapes, OutputShapes, CallsLogged,
    PTL

=============================================================================

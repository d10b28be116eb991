--------------------------- MODULE TerminalProofs ---------------------------
(***************************************************************************)
(* Theorems about the terminals of the sandbox: the daemon's registry and  *)
(* journal of them, the output they keep, the server's calls, and the page *)
(* in the browser, for any number of terminals, readers, calls and visits. *)
(*                                                                         *)
(* TerminalInv ties three views of a terminal together: its row, the part  *)
(* of the registry that counts it, and what its input and output have come *)
(* to.  A count of active sessions is right because a session holds its    *)
(* place from its reservation to its release (CountsFit), and an exit is   *)
(* recorded as complete only by the step that saw the end of the output.   *)
(* OutputInv says that the chunks cover the kept stretch of the stream     *)
(* without a gap, and that a reader asleep has nothing it waits for.       *)
(* CallsInv follows one call from the daemon's answer to its audit row.    *)
(* PageInv says what belongs to the open terminal: one loop of this visit  *)
(* and generation, whose next read starts where the screen ends, and one   *)
(* task for each button that is off.                                       *)
(*                                                                         *)
(* What a fold or a recursive function yields is proved by the least       *)
(* counterexample: a smallest set or shortest prefix for which it fails.   *)
(***************************************************************************)
EXTENDS MCSandbox, FiniteSetTheorems, FunctionTheorems, WellFoundedInduction, TLAPS

\* The least number of a set, as a witness.
LEMMA LeastNumber ==
  ASSUME NEW S, S \subseteq Nat, S # {}
  PROVE  \E n \in S : \A m \in S : n <= m
<1> DEFINE R == OpToRel(<, Nat)
<1>1. IsWellFoundedOn(R, Nat) BY NatLessThanWellFounded
<1> HIDE DEF R
<1>2. PICK n \in S : \A m \in S : ~(<<m, n>> \in R) BY <1>1, WFMin
<1>3. \A m \in S : ~(m < n) BY <1>2 DEF R, OpToRel
<1>4. \A m \in S : n <= m BY <1>3
<1> QED BY <1>4

-----------------------------------------------------------------------------
(* Terminals: the rows, the registry and the records *)

\* Of some subsets of a finite set, one that has no smaller one among them:
\* without the element a fold takes first it is not one of them any more.
LEMMA SmallestSubset ==
  ASSUME NEW D, IsFiniteSet(D), NEW Bad, Bad \subseteq SUBSET D, Bad # {}
  PROVE  \E s \in Bad : \A x \in s : s \ {x} \notin Bad
<1>1. \A s \in Bad : IsFiniteSet(s) /\ Cardinality(s) \in Nat BY FS_Subset, FS_CardinalityType
<1> DEFINE sizes == {Cardinality(s) : s \in Bad}
<1>2. sizes \subseteq Nat /\ sizes # {} BY <1>1
<1>3. PICK n \in sizes : \A m \in sizes : n <= m BY <1>2, LeastNumber
<1>4. PICK s \in Bad : n = Cardinality(s) OBVIOUS
<1>5. ASSUME NEW x \in s, s \ {x} \in Bad PROVE FALSE
  <2>1. Cardinality(s \ {x}) = Cardinality(s) - 1 BY <1>1, FS_RemoveElement
  <2> QED BY <1>1, <1>4, <2>1, <1>3, <1>5
<1> QED BY <1>5

\* What the sum of a function is made of: the sums over the subsets of its
\* domain, each with the element that is taken first.
First(s) == CHOOSE x \in s : TRUE
SumsUp(f, g) ==
    g = [s \in SUBSET DOMAIN f |-> IF s = {} THEN 0 ELSE f[First(s)] + g[s \ {First(s)}]]

LEMMA SumsAreNumbers ==
  ASSUME NEW D, IsFiniteSet(D), NEW f \in [D -> Nat], NEW g, SumsUp(f, g)
  PROVE  \A s \in SUBSET D : g[s] \in Nat
<1> DEFINE Bad == {s \in SUBSET D : g[s] \notin Nat}
<1> SUFFICES ASSUME Bad # {} PROVE FALSE OBVIOUS
<1>1. PICK s \in Bad : \A x \in s : s \ {x} \notin Bad BY SmallestSubset
<1>2. s # {} BY DEF SumsUp
<1>3. First(s) \in s BY <1>2 DEF First
<1>4. g[s] = f[First(s)] + g[s \ {First(s)}] BY <1>2 DEF SumsUp
<1>5. f[First(s)] \in Nat BY <1>3
<1>6. g[s] \in Nat BY <1>4, <1>5, <1>1, <1>3
<1> QED BY <1>6

LEMMA SumsExist ==
  ASSUME NEW D, IsFiniteSet(D), NEW f \in [D -> Nat]
  PROVE  \E g : SumsUp(f, g)
<1>1. \A s \in SUBSET D : IsFiniteSet(s) /\ Cardinality(s) \in Nat BY FS_Subset, FS_CardinalityType
<1> DEFINE Small(n) == {s \in SUBSET D : Cardinality(s) <= n}
           Fits(n, g) == \A s \in Small(n) :
                           g[s] = IF s = {} THEN 0 ELSE f[First(s)] + g[s \ {First(s)}]
           Bad == {n \in Nat : ~ \E g : Fits(n, g)}
<1>2. Bad = {}
  <2> SUFFICES ASSUME Bad # {} PROVE FALSE OBVIOUS
  <2>1. PICK n \in Bad : \A m \in Bad : n <= m BY LeastNumber
  <2>2. n # 0
    <3>1. Fits(0, [s \in SUBSET D |-> 0]) BY <1>1, FS_EmptySet
    <3>2. 0 \notin Bad BY <3>1
    <3> QED BY <3>2
  <2>3. n - 1 \in Nat /\ n - 1 \notin Bad
    <3> HIDE DEF Bad
    <3>1. n \in Nat BY DEF Bad
    <3> QED BY <2>1, <2>2, <3>1
  <2>4. PICK g : Fits(n - 1, g) BY <2>3
  <2> DEFINE h == [s \in SUBSET D |-> IF s = {} THEN 0 ELSE f[First(s)] + g[s \ {First(s)}]]
  <2>5. ASSUME NEW s \in Small(n), s # {}
        PROVE  h[s] = f[First(s)] + h[s \ {First(s)}]
    <3>1. Cardinality(s \ {First(s)}) = Cardinality(s) - 1 BY <1>1, FS_RemoveElement, <2>5 DEF First
    <3>2. s \ {First(s)} \in Small(n - 1) BY <1>1, <2>3, <3>1
    <3> QED BY <2>5, <3>2, <2>4
  <2>6. h[{}] = 0 OBVIOUS
  <2> HIDE DEF h
  <2> QED BY <2>1, <2>5, <2>6
<1>3. PICK g : Fits(Cardinality(D), g) BY <1>2, FS_CardinalityType
<1> DEFINE h == [s \in SUBSET D |-> g[s]]
<1>4. ASSUME NEW s \in SUBSET D
      PROVE  h[s] = IF s = {} THEN 0 ELSE f[First(s)] + h[s \ {First(s)}] BY <1>3, FS_Subset
<1>5. h = [s \in SUBSET D |-> h[s]] OBVIOUS
<1> HIDE DEF h
<1> QED BY <1>4, <1>5 DEF SumsUp

LEMMA SumIsLast ==
  ASSUME NEW D, IsFiniteSet(D), NEW f \in [D -> Nat]
  PROVE  \E g : SumsUp(f, g) /\ SumFunction(f) = g[D]
<1>1. PICK g : SumsUp(f, g) BY SumsExist
<1> DEFINE it == CHOOSE g1 : SumsUp(f, g1)
<1>2. SumFunction(f) = it[D] BY DEF SumsUp, First, SumFunction, SumFunctionOnSet, FoldFunctionOnSet, MapThenFoldSet
<1> QED BY <1>2, <1>1

LEMMA SumOfMore ==
  ASSUME NEW D, IsFiniteSet(D), NEW f \in [D -> Nat], NEW h \in [D -> Nat], NEW w \in D,
         h = [f EXCEPT ![w] = f[w] + 1]
  PROVE  SumFunction(h) = SumFunction(f) + 1 /\ SumFunction(f) \in Nat
<1>1. PICK a : SumsUp(f, a) /\ SumFunction(f) = a[D] BY SumIsLast
<1>2. PICK b : SumsUp(h, b) /\ SumFunction(h) = b[D] BY SumIsLast
<1>3. \A s \in SUBSET D : a[s] \in Nat /\ b[s] \in Nat BY <1>1, <1>2, SumsAreNumbers
<1> DEFINE Bad == {s \in SUBSET D : b[s] # IF w \in s THEN a[s] + 1 ELSE a[s]}
<1>4. Bad = {}
  <2> SUFFICES ASSUME Bad # {} PROVE FALSE OBVIOUS
  <2>1. PICK s \in Bad : \A x \in s : s \ {x} \notin Bad BY SmallestSubset
  <2>2. s # {} BY <1>1, <1>2 DEF SumsUp
  <2>3. PICK x \in s : x = First(s) BY <2>2 DEF First
  <2>4. PICK t \in SUBSET D : t = s \ {x} /\ t \notin Bad
    <3> HIDE DEF Bad
    <3>1. s \in SUBSET D BY DEF Bad
    <3> QED BY <2>1, <3>1
  <2>5. a[s] = f[x] + a[t] /\ b[s] = h[x] + b[t] BY <1>1, <1>2, <2>2, <2>3, <2>4 DEF SumsUp
  <2>6. /\ a[t] \in Nat /\ f[x] \in Nat
        /\ h[x] = IF x = w THEN f[x] + 1 ELSE f[x] BY <1>3
  <2>7. w \in s <=> (x = w \/ w \in t) BY <2>4
  <2>8. x \notin t BY <2>4
  <2>9. b[s] = IF w \in s THEN a[s] + 1 ELSE a[s] BY <2>5, <2>6, <2>7, <2>8, <2>4
  <2> QED BY <2>1, <2>9
<1> QED BY <1>1, <1>2, <1>3, <1>4

LEMMA SumOfNothing ==
  ASSUME NEW D, IsFiniteSet(D)
  PROVE  SumFunction([w \in D |-> 0]) = 0
<1> DEFINE f == [w \in D |-> 0]
<1>1. PICK a : SumsUp(f, a) /\ SumFunction(f) = a[D] BY SumIsLast
<1> DEFINE Bad == {s \in SUBSET D : a[s] # 0}
<1>2. Bad = {}
  <2> SUFFICES ASSUME Bad # {} PROVE FALSE OBVIOUS
  <2>1. PICK s \in Bad : \A x \in s : s \ {x} \notin Bad BY SmallestSubset
  <2>2. s # {} BY <1>1 DEF SumsUp
  <2>3. PICK x \in s : x = First(s) BY <2>2 DEF First
  <2>4. PICK t \in SUBSET D : t = s \ {x} /\ a[t] = 0 BY <2>1
  <2>5. a[s] = f[x] + a[t] BY <1>1, <2>2, <2>3, <2>4 DEF SumsUp
  <2> QED BY <2>1, <2>4, <2>5
<1> QED BY <1>1, <1>2

LifeStates == {"none", "STARTING", "RUNNING", "TERMINATING", "UNRECOVERABLE"} \cup Ended
CleanStates == {"idle", "request", "begin", "mark", "loop", "late", "true", "false"}
MemRow == [life : LifeStates, req : BOOLEAN, pty : BOOLEAN,
           starter : {"none", "reserve", "spawn", "cancel", "leaked", "ready", "resize", "running",
                      "failed", "cleaning"},
           monitor : {"none", "wait", "drain", "registry", "transition", "done"},
           drain : {"none", "reading", "complete", "failing", "record", "failed"},
           final : {"none"} \cup Ended, timer : BOOLEAN, background : BOOLEAN,
           clean : [Cleaners -> CleanStates],
           writer : [Inputs -> {"idle", "locked", "wrote"}]]
TermRow == [state : LifeStates \cup {"LOST"}, complete : BOOLEAN, end : Nat,
            input : [Inputs -> {"none", "PENDING", "APPLIED", "UNKNOWN"}],
            child : {"none", "running", "gone"}, produced : Nat,
            written : [Inputs -> Nat], tries : Nat, mem : MemRow]

\* The tasks of a session against its state: a start that has not spawned has
\* no tasks yet, only the monitor ends a session, and the drain task has begun
\* the termination before it journals its failure.
TasksFit(m) ==
    /\ m.starter \in {"reserve", "spawn", "cancel", "leaked"}
         => m.monitor = "none" /\ m.drain = "none" /\ m.clean["start"] = "idle"
    /\ IsTerminal(m.life) => m.monitor = "done"
    /\ m.drain = "record" => m.life \notin {"STARTING", "RUNNING"}
    /\ m.clean["start"] = "true" => IsTerminal(m.life)
    /\ m.monitor \in {"registry", "transition"} => m.final \in Ended
    /\ m.starter \in {"spawn", "cancel", "leaked"} \/ m.monitor # "none" => m.life # "none"
    /\ m.drain # "none" => m.monitor # "none"

\* The row against the process and its output.
OutputFits(o) ==
    /\ o.state = "none" => /\ o.mem.starter = "none" /\ o.mem.monitor = "none"
                           /\ o.mem.clean["start"] = "idle"
    /\ o.mem.starter \in {"reserve", "spawn", "cancel", "leaked"} => o.state \notin Ended
    /\ o.child = "running" => o.mem.monitor = "wait"
    /\ o.mem.drain = "complete" => o.child # "running" /\ o.end = o.produced
    /\ o.state \in Ended /\ o.complete => o.child # "running" /\ o.end = o.produced
    /\ o.end <= o.produced /\ o.end <= MaxOutputBytes

\* An input against the task that writes it.
InputFits(o, i) ==
    /\ o.written[i] <= 1
    /\ o.input[i] = "none" => o.written[i] = 0 /\ o.mem.writer[i] = "idle"
    /\ o.input[i] = "APPLIED" => o.written[i] = 1
    /\ o.mem.writer[i] = "locked" => o.written[i] = 0
    /\ o.mem.writer[i] = "wrote" => o.written[i] = 1

RowFits(o) ==
    o \in TermRow /\ TasksFit(o.mem) /\ OutputFits(o) /\ \A i \in Inputs : InputFits(o, i)

\* Whether a row has a place in the registry, and whether it gave it up.
Holding(o) == \/ o.mem.starter \in {"spawn", "cancel", "leaked"}
              \/ o.mem.monitor \in {"wait", "drain", "registry"}
GaveUp(o)  == o.mem.monitor \in {"transition", "done"}

\* A session that has a place is in the registry, and one that is kept there as
\* completed has given its place up.
RegistryFits ==
    /\ sessions \subseteq Terminals /\ completed \in Seq(Terminals \cup {"other"})
    /\ Len(completed) <= MaxRetained
    /\ \A t \in Terminals : Holding(term[t]) => t \in sessions
    /\ \A j \in 1 .. Len(completed) : completed[j] # "other" => GaveUp(term[completed[j]])

CountsFit ==
    /\ others \in [Workspaces -> Nat] /\ activeIn \in [Workspaces -> Nat]
    /\ active = SumFunction(activeIn) /\ active <= MaxActive
    /\ \A w \in Workspaces : activeIn[w] = Occupied(w) /\ activeIn[w] <= MaxActivePerWorkspace

TerminalInv ==
    /\ DOMAIN term = Terminals /\ \A t \in Terminals : RowFits(term[t])
    /\ RegistryFits /\ CountsFit

-----------------------------------------------------------------------------
(* What the actions have in common *)

NotRevived ==
    \A t \in Terminals : term[t].state \in Settled
                            => term'[t].state \notin {"STARTING", "RUNNING"}

\* Occupied counts the rows that hold a place.
Holders(w) == {t \in Terminals : Holding(term[t]) /\ Workspace[t] = w}

LEMMA HoldersCounted ==
  \A w : /\ Occupied(w) = others[w] + Cardinality(Holders(w))
         /\ IsFiniteSet(Holders(w)) /\ Cardinality(Holders(w)) \in Nat
<1> TAKE w
<1> QED BY FS_CardinalityType, TerminalAssumption, FS_Subset DEF Holders, Occupied, Holding, Occupies, Starter, Mem

\* A row changes and keeps the place it has, if any.
LEMMA RowMoves ==
  ASSUME TerminalInv, NEW t \in Terminals, NEW u, RowFits(u), term' = [term EXCEPT ![t] = u],
         Holding(u) <=> Holding(term[t]), GaveUp(term[t]) => GaveUp(u),
         term[t].state \in Settled => u.state \notin {"STARTING", "RUNNING"}, OnlyTerm
  PROVE  TerminalInv' /\ NotRevived
<1>1. DOMAIN term' = Terminals /\ \A q \in Terminals : term'[q] = IF q = t THEN u ELSE term[q] BY DEF TerminalInv
<1>2. \A q \in Terminals : /\ Holding(term'[q]) <=> Holding(term[q])
                           /\ GaveUp(term[q]) => GaveUp(term'[q])
  <2> TAKE q \in Terminals
  <2>1. CASE q = t BY <1>1, <2>1 DEF Holding, GaveUp
  <2>2. CASE q # t BY <1>1, <2>2 DEF Holding, GaveUp
  <2> QED BY <2>1, <2>2
<1>3. UNCHANGED <<sessions, active, activeIn, completed, others>> BY DEF OnlyTerm, registry, rest
<1>4. RegistryFits' BY <1>2, <1>3 DEF TerminalInv, RegistryFits
<1>5. CountsFit'
  <2>1. \A w : Occupied(w)' = Occupied(w)
    <3> TAKE w
    <3>1. Occupied(w)' = others'[w] + Cardinality(Holders(w)')
      BY DEF Occupied, Holders, Holding, Occupies, Starter, Mem
    <3> QED BY <1>3, <3>1, <1>2, HoldersCounted DEF Holders
  <2> QED BY <1>3, <2>1 DEF TerminalInv, CountsFit
<1>6. NotRevived
  <2> SUFFICES ASSUME NEW q \in Terminals, term[q].state \in Settled
               PROVE  term'[q].state \notin {"STARTING", "RUNNING"} BY DEF NotRevived
  <2>1. CASE q = t BY <1>1, <2>1
  <2>2. CASE q # t BY <1>1, <2>2 DEF Settled, Ended
  <2> QED BY <2>1, <2>2
<1> QED BY <1>1, <1>4, <1>5, <1>6 DEF TerminalInv

LEMMA TheRow ==
  ASSUME TerminalInv, NEW t \in Terminals
  PROVE  \E o \in TermRow, m \in MemRow :
           /\ o = term[t] /\ m = o.mem /\ RowFits(o)
           /\ TasksFit(m) /\ OutputFits(o) /\ \A i \in Inputs : InputFits(o, i)
  BY DEF TerminalInv, RowFits, TermRow

-----------------------------------------------------------------------------
(* The start *)

LEMMA StartKeeps ==
  ASSUME TerminalInv, NEW t \in Terminals, Start(t) PROVE TerminalInv' /\ NotRevived
<1>1. PICK o \in TermRow, m \in MemRow :
        /\ o = term[t] /\ m = o.mem /\ RowFits(o)
        /\ TasksFit(m) /\ OutputFits(o) /\ \A i \in Inputs : InputFits(o, i) BY TheRow
<1>2. PICK n : n = [m EXCEPT !.starter = "reserve"] OBVIOUS
<1>3. PICK u : u = [o EXCEPT !.state = "STARTING", !.mem = n] OBVIOUS
<1>4. term' = [term EXCEPT ![t] = u] BY <1>1, <1>2, <1>3 DEF Start, TerminalInv
<1>5. RowFits(u)
  <2>1. n \in MemRow BY <1>2 DEF MemRow
  <2>2. u \in TermRow /\ u.mem = n BY <1>3, <2>1 DEF TermRow, LifeStates
  <2>3. OutputFits(u) BY <1>1, <1>2, <1>3, <2>1, <2>2 DEF OutputFits, TermRow, MemRow, LifeStates, Ended
  <2>4. \A i \in Inputs : InputFits(u, i) BY <1>1, <1>2, <1>3, <2>1, <2>2 DEF InputFits, TermRow, MemRow
  <2> QED BY <2>2, <2>3, <2>4, <1>1, <1>2, <1>3, <2>1 DEF RowFits, Start, TasksFit, OutputFits, MemRow
<1>6. /\ Holding(u) <=> Holding(o)
      /\ GaveUp(o) => GaveUp(u)
      /\ o.state \in Settled => u.state \notin {"STARTING", "RUNNING"}
  BY <1>1, <1>2, <1>3 DEF Holding, GaveUp, Settled, Ended, Start, TermRow, MemRow, OutputFits
<1> QED BY <1>1, <1>4, <1>5, <1>6, RowMoves DEF Start

\* begin_termination and the guard of a dropped start leave alone a session
\* that has ended, and no other is starting or running after them.
LEMMA Begun ==
  ASSUME NEW m \in MemRow
  PROVE  \E b \in MemRow :
        /\ b = BeginTermination(m) /\ b.starter = m.starter /\ b.monitor = m.monitor
        /\ b.drain = m.drain /\ b.final = m.final /\ b.clean = m.clean /\ b.writer = m.writer
        /\ IsTerminal(b.life) <=> IsTerminal(m.life)
        /\ b.life = "none" <=> m.life = "none"
        /\ b.life \notin {"STARTING", "RUNNING"}
<1>1. CASE IsTerminal(m.life) BY <1>1 DEF IsTerminal, Ended, BeginTermination
<1>2. CASE ~IsTerminal(m.life)
  <2>1. PICK l \in LifeStates : l = Transition(m.life, "TERMINATING") BY DEF Transition, MemRow, LifeStates
  <2>2. PICK b : b = [m EXCEPT !.req = TRUE, !.life = l] OBVIOUS
  <2>3. b \in MemRow /\ b.life = l BY <2>2 DEF MemRow
  <2>4. b = BeginTermination(m) BY <1>2, <2>1, <2>2 DEF BeginTermination
  <2>5. /\ b.starter = m.starter /\ b.monitor = m.monitor
        /\ b.drain = m.drain /\ b.final = m.final /\ b.clean = m.clean /\ b.writer = m.writer BY <2>2 DEF MemRow
  <2> QED BY <1>2, <2>3, <2>4, <2>5, <2>1 DEF Transition, IsTerminal, Ended, MemRow, LifeStates
<1> QED BY <1>1, <1>2

LEMMA Guarded ==
  ASSUME NEW m \in MemRow
  PROVE  \E g \in MemRow :
        /\ g = Guard(m) /\ g.monitor = m.monitor /\ g.drain = m.drain /\ g.final = m.final
        /\ g.starter = m.starter /\ g.clean = m.clean /\ g.writer = m.writer
        /\ IsTerminal(g.life) <=> IsTerminal(m.life)
        /\ g.life = "none" <=> m.life = "none"
        /\ g.life = m.life \/ g.life \notin {"STARTING", "RUNNING"}
<1>1. CASE m.monitor = "none" \/ IsTerminal(m.life) BY <1>1 DEF Guard
<1>2. CASE ~(m.monitor = "none" \/ IsTerminal(m.life))
  <2>1. PICK b \in MemRow :
        /\ b = BeginTermination(m) /\ b.monitor = m.monitor /\ b.starter = m.starter
        /\ b.drain = m.drain /\ b.final = m.final /\ b.clean = m.clean /\ b.writer = m.writer
        /\ IsTerminal(b.life) <=> IsTerminal(m.life)
        /\ b.life = "none" <=> m.life = "none"
        /\ b.life \notin {"STARTING", "RUNNING"} BY Begun
  <2>2. PICK g : g = [b EXCEPT !.background = TRUE] OBVIOUS
  <2>3. /\ g \in MemRow /\ g.monitor = b.monitor /\ g.starter = b.starter /\ g.drain = b.drain /\ g.final = b.final
        /\ g.clean = b.clean /\ g.writer = b.writer /\ g.life = b.life BY <2>2 DEF MemRow
  <2> QED BY <2>1, <2>3, <1>2, <2>2 DEF Guard
<1> QED BY <1>1, <1>2

LEMMA Returned ==
  ASSUME NEW m \in MemRow, NEW k \in Cleaners, NEW cleaned \in BOOLEAN
  PROVE  \E n \in MemRow :
        /\ n = Returns(m, k, cleaned) /\ n.life = m.life /\ n.starter = m.starter
        /\ n.monitor = m.monitor /\ n.drain = m.drain /\ n.final = m.final /\ n.writer = m.writer
        /\ k # "start" => n.clean["start"] = m.clean["start"]
        /\ k = "start" => n.clean["start"] = IF cleaned THEN "true" ELSE "false"
<1>1. PICK v \in CleanStates :
        /\ v = IF k # "start" THEN "idle" ELSE IF cleaned THEN "true" ELSE "false"
        /\ k = "start" => v = IF cleaned THEN "true" ELSE "false" BY DEF CleanStates
<1>2. PICK c : c = [m.clean EXCEPT ![k] = v] OBVIOUS
<1>3. PICK g \in BOOLEAN : g = (m.background \/ ~cleaned) OBVIOUS
<1>4. PICK n : n = [m EXCEPT !.clean = c, !.background = g] OBVIOUS
<1>5. /\ n \in MemRow /\ n.life = m.life /\ n.starter = m.starter
      /\ n.monitor = m.monitor /\ n.drain = m.drain /\ n.final = m.final /\ n.writer = m.writer
      /\ n.clean = c BY <1>4, <1>2 DEF MemRow
<1>6. n = Returns(m, k, cleaned) BY <1>1, <1>2, <1>3, <1>4 DEF Returns, MemRow
<1> QED BY <1>1, <1>5, <1>6, <1>2 DEF MemRow, Cleaners

LEMMA StartNoRoomKeeps ==
  ASSUME TerminalInv, NEW t \in Terminals, StartReserve(t), ~HasRoom(Workspace[t])
  PROVE  TerminalInv' /\ NotRevived
<1>1. PICK o \in TermRow, m \in MemRow :
        /\ o = term[t] /\ m = o.mem
        /\ TasksFit(m) /\ OutputFits(o) /\ \A i \in Inputs : InputFits(o, i) BY TheRow
<1>2. m.starter = "reserve" BY <1>1 DEF StartReserve, Starter
<1>3. PICK n : n = [m EXCEPT !.starter = "none"] OBVIOUS
<1>4. /\ n \in MemRow /\ n.life = m.life /\ n.starter = "none" /\ n.monitor = m.monitor
      /\ n.drain = m.drain /\ n.final = m.final /\ n.clean = m.clean /\ n.writer = m.writer BY <1>3 DEF MemRow
<1>5. PICK u : u = [o EXCEPT !.state = "TERMINATED", !.complete = FALSE, !.mem.starter = "none"] OBVIOUS
<1>6. u.mem = n BY <1>1, <1>3, <1>5 DEF TermRow, MemRow
<1>7. /\ u \in TermRow /\ u.mem = n /\ u.state = "TERMINATED" /\ u.complete = FALSE
      /\ u.end = o.end /\ u.produced = o.produced /\ u.child = o.child /\ u.input = o.input /\ u.written = o.written
  BY <1>4, <1>5, <1>6 DEF TermRow, LifeStates, Ended
<1>8. \A i \in Inputs : InputFits(u, i) BY <1>1, <1>2, <1>4, <1>7 DEF InputFits
<1>9. /\ Holding(u) <=> Holding(o)
      /\ GaveUp(o) => GaveUp(u)
      /\ o.state \in Settled => u.state \notin {"STARTING", "RUNNING"}
  BY <1>1, <1>2, <1>4, <1>7 DEF Holding, GaveUp, Settled, Ended, TasksFit, OutputFits, IsTerminal
<1>10. RowFits(u) /\ OnlyTerm
  BY <1>7, <1>8, <1>1, <1>2, <1>4 DEF RowFits, OnlyTerm, StartReserve, TasksFit, OutputFits, IsTerminal, Ended
<1> QED BY <1>1, <1>9, <1>10, RowMoves, <1>2, <1>5 DEF StartReserve, TermRow, MemRow, TerminalInv

LEMMA StartSpawnKeeps ==
  ASSUME TerminalInv, NEW t \in Terminals, StartSpawn(t)
  PROVE  TerminalInv' /\ NotRevived
<1>1. PICK o \in TermRow, m \in MemRow :
        /\ o = term[t] /\ m = o.mem
        /\ TasksFit(m) /\ OutputFits(o) /\ \A i \in Inputs : InputFits(o, i) BY TheRow
<1>2. m.starter = "spawn" BY <1>1 DEF StartSpawn, Starter
<1>3. PICK n : n = [m EXCEPT !.pty = TRUE, !.monitor = "wait", !.drain = "reading", !.starter = "ready"] OBVIOUS
<1>4. /\ n \in MemRow /\ n.life = m.life /\ n.starter = "ready" /\ n.monitor = "wait"
      /\ n.drain = "reading" /\ n.final = m.final /\ n.clean = m.clean /\ n.writer = m.writer BY <1>3 DEF MemRow
<1>5. PICK u : u = [o EXCEPT !.child = "running", !.mem.pty = TRUE, !.mem.monitor = "wait", !.mem.drain = "reading", !.mem.starter = "ready"]
  OBVIOUS
<1>6. term' = [term EXCEPT ![t] = u] BY <1>1, <1>2, <1>5 DEF StartSpawn, TermRow, MemRow, TerminalInv
<1>7. u.mem = n BY <1>1, <1>3, <1>5 DEF TermRow, MemRow
<1>8. /\ u \in TermRow /\ u.mem = n /\ u.state = o.state /\ u.complete = o.complete
      /\ u.end = o.end /\ u.produced = o.produced /\ u.child = "running" /\ u.input = o.input /\ u.written = o.written
  BY <1>4, <1>5, <1>7 DEF TermRow, LifeStates, Ended
<1>9. \A i \in Inputs : InputFits(u, i) BY <1>1, <1>2, <1>4, <1>8 DEF InputFits
<1>10. RowFits(u) /\ OnlyTerm
  BY <1>8, <1>9, <1>1, <1>2, <1>4 DEF RowFits, OnlyTerm, StartSpawn, TasksFit, OutputFits, IsTerminal, Ended
<1> QED
  BY <1>1, <1>6, <1>10, RowMoves, <1>2, <1>4, <1>8 DEF Holding, GaveUp, Settled, Ended, TasksFit, OutputFits,
    IsTerminal

LEMMA StartReadyKeeps ==
  ASSUME TerminalInv, NEW t \in Terminals, StartReady(t)
  PROVE  TerminalInv' /\ NotRevived
<1>1. PICK o \in TermRow, m \in MemRow :
        /\ o = term[t] /\ m = o.mem
        /\ TasksFit(m) /\ OutputFits(o) /\ \A i \in Inputs : InputFits(o, i) BY TheRow
<1>2. m.starter = "ready" BY <1>1 DEF StartReady, Starter
<1>3. PICK v \in {"running", "resize", "failed"} :
        term' = [term EXCEPT ![t].mem.starter = v] BY <1>1, <1>2 DEF StartReady
<1>4. PICK n : n = [m EXCEPT !.starter = v] OBVIOUS
<1>5. /\ n \in MemRow /\ n.life = m.life /\ n.starter = v /\ n.monitor = m.monitor
      /\ n.drain = m.drain /\ n.final = m.final /\ n.clean = m.clean /\ n.writer = m.writer BY <1>4 DEF MemRow
<1>6. PICK u : u = [o EXCEPT !.mem.starter = v] OBVIOUS
<1>7. u.mem = n BY <1>1, <1>4, <1>6 DEF TermRow, MemRow
<1>8. /\ u \in TermRow /\ u.mem = n /\ u.state = o.state /\ u.complete = o.complete
      /\ u.end = o.end /\ u.produced = o.produced /\ u.child = o.child /\ u.input = o.input /\ u.written = o.written
  BY <1>5, <1>6, <1>7 DEF TermRow, LifeStates, Ended
<1>9. \A i \in Inputs : InputFits(u, i) BY <1>1, <1>2, <1>3, <1>5, <1>8 DEF InputFits
<1>10. /\ Holding(u) <=> Holding(o)
       /\ GaveUp(o) => GaveUp(u)
       /\ o.state \in Settled => u.state \notin {"STARTING", "RUNNING"}
  BY <1>1, <1>2, <1>3, <1>5, <1>8 DEF Holding, GaveUp, Settled, Ended, TasksFit, OutputFits, IsTerminal
<1>11. RowFits(u) /\ OnlyTerm
  BY <1>8, <1>9, <1>1, <1>2, <1>3, <1>5 DEF RowFits, OnlyTerm, StartReady, TasksFit, OutputFits, IsTerminal, Ended
<1> QED BY <1>1, <1>10, <1>11, RowMoves, <1>2, <1>3, <1>6 DEF StartReady, TermRow, MemRow, TerminalInv

LEMMA StartRunningKeeps ==
  ASSUME TerminalInv, NEW t \in Terminals, StartRunning(t)
  PROVE  TerminalInv' /\ NotRevived
<1>1. PICK o \in TermRow, m \in MemRow :
        /\ o = term[t] /\ m = o.mem
        /\ TasksFit(m) /\ OutputFits(o) /\ \A i \in Inputs : InputFits(o, i) BY TheRow
<1>2. m.starter = "running" BY <1>1 DEF StartRunning, Starter
<1>3. PICK s \in LifeStates \cup {"LOST"} :
        s = IF o.state \in {"STARTING", "RUNNING"} THEN "RUNNING" ELSE o.state BY <1>1, <1>2 DEF TermRow, LifeStates
<1>4. PICK n : n = [m EXCEPT !.starter = "none", !.timer = TRUE] OBVIOUS
<1>5. /\ n \in MemRow /\ n.life = m.life /\ n.starter = "none" /\ n.monitor = m.monitor
      /\ n.drain = m.drain /\ n.final = m.final /\ n.clean = m.clean /\ n.writer = m.writer BY <1>4 DEF MemRow
<1>6. PICK u : u = [o EXCEPT !.state = s, !.mem.starter = "none", !.mem.timer = TRUE] OBVIOUS
<1>7. u.mem = n BY <1>1, <1>4, <1>6 DEF TermRow, MemRow
<1>8. /\ u \in TermRow /\ u.mem = n /\ u.state = s /\ u.complete = o.complete
      /\ u.end = o.end /\ u.produced = o.produced /\ u.child = o.child /\ u.input = o.input /\ u.written = o.written
  BY <1>5, <1>6, <1>7 DEF TermRow, LifeStates, Ended
<1>9. \A i \in Inputs : InputFits(u, i) BY <1>1, <1>2, <1>3, <1>5, <1>8 DEF InputFits
<1>10. /\ Holding(u) <=> Holding(o)
       /\ GaveUp(o) => GaveUp(u)
       /\ o.state \in Settled => u.state \notin {"STARTING", "RUNNING"}
  BY <1>1, <1>2, <1>3, <1>5, <1>8 DEF Holding, GaveUp, Settled, Ended, TasksFit, OutputFits, IsTerminal
<1>11. RowFits(u) /\ OnlyTerm
  BY <1>8, <1>9, <1>1, <1>2, <1>3, <1>5 DEF RowFits, OnlyTerm, StartRunning, TasksFit, OutputFits, IsTerminal, Ended
<1> QED BY <1>1, <1>10, <1>11, RowMoves, <1>2, <1>3, <1>6 DEF StartRunning, TermRow, MemRow, TerminalInv

LEMMA StartFailedKeeps ==
  ASSUME TerminalInv, NEW t \in Terminals, StartFailed(t)
  PROVE  TerminalInv' /\ NotRevived
<1>1. PICK o \in TermRow, m \in MemRow :
        /\ o = term[t] /\ m = o.mem
        /\ TasksFit(m) /\ OutputFits(o) /\ \A i \in Inputs : InputFits(o, i) BY TheRow
<1>2. m.starter = "failed" BY <1>1 DEF StartFailed, Starter
<1>3. PICK c : c = [m.clean EXCEPT !["start"] = "begin"] OBVIOUS
<1>4. /\ c \in [Cleaners -> CleanStates]
      /\ c["start"] = "begin" BY <1>3 DEF MemRow, CleanStates, Cleaners
<1>5. PICK n : n = [m EXCEPT !.starter = "cleaning", !.clean = c] OBVIOUS
<1>6. /\ n \in MemRow /\ n.life = m.life /\ n.starter = "cleaning" /\ n.monitor = m.monitor
      /\ n.drain = m.drain /\ n.final = m.final /\ n.clean = c /\ n.writer = m.writer BY <1>4, <1>5 DEF MemRow
<1>7. PICK u : u = [o EXCEPT !.mem.starter = "cleaning", !.mem.clean = c] OBVIOUS
<1>8. term' = [term EXCEPT ![t] = u] BY <1>1, <1>2, <1>3, <1>4, <1>7 DEF StartFailed, TermRow, MemRow, TerminalInv
<1>9. u.mem = n BY <1>1, <1>5, <1>7 DEF TermRow, MemRow
<1>10. /\ u \in TermRow /\ u.mem = n /\ u.state = o.state /\ u.complete = o.complete
       /\ u.end = o.end /\ u.produced = o.produced /\ u.child = o.child /\ u.input = o.input /\ u.written = o.written
  BY <1>4, <1>6, <1>7, <1>9 DEF TermRow, LifeStates, Ended
<1>11. \A i \in Inputs : InputFits(u, i) BY <1>1, <1>2, <1>4, <1>6, <1>10 DEF InputFits
<1>12. RowFits(u) /\ OnlyTerm
  BY <1>10, <1>11, <1>1, <1>2, <1>4, <1>6 DEF RowFits, OnlyTerm, StartFailed, TasksFit, OutputFits, IsTerminal, Ended
<1> QED
  BY <1>1, <1>8, <1>12, RowMoves, <1>2, <1>4, <1>6, <1>10 DEF Holding, GaveUp, Settled, Ended, TasksFit, OutputFits,
    IsTerminal

LEMMA StartDroppedKeeps ==
  ASSUME TerminalInv, NEW t \in Terminals, StartDropped(t)
  PROVE  TerminalInv' /\ NotRevived
<1>1. PICK o \in TermRow, m \in MemRow :
        /\ o = term[t] /\ m = o.mem
        /\ TasksFit(m) /\ OutputFits(o) /\ \A i \in Inputs : InputFits(o, i) BY TheRow
<1>2. m.starter \in {"reserve", "cancel", "ready", "resize", "cleaning"} BY <1>1 DEF StartDropped, Mem
<1>3. PICK g \in MemRow :
        /\ g = Guard(m) /\ g.monitor = m.monitor /\ g.drain = m.drain /\ g.final = m.final
        /\ g.starter = m.starter /\ g.clean = m.clean /\ g.writer = m.writer
        /\ IsTerminal(g.life) <=> IsTerminal(m.life)
        /\ g.life = "none" <=> m.life = "none"
        /\ g.life = m.life \/ g.life \notin {"STARTING", "RUNNING"} BY Guarded
<1>4. PICK c : c = [g.clean EXCEPT !["start"] = "idle"] OBVIOUS
<1>5. /\ c \in [Cleaners -> CleanStates]
      /\ c["start"] = "idle" BY <1>4 DEF MemRow, CleanStates, Cleaners
<1> PICK v \in {"none", "leaked"} : v = IF m.starter = "cancel" THEN "leaked" ELSE "none" OBVIOUS
<1>6. PICK n : n = [g EXCEPT !.starter = v, !.clean = c] OBVIOUS
<1>7. /\ n \in MemRow /\ n.life = g.life /\ n.starter = v /\ n.monitor = g.monitor
      /\ n.drain = g.drain /\ n.final = g.final /\ n.clean = c /\ n.writer = g.writer BY <1>5, <1>6 DEF MemRow
<1>8. PICK u : u = [o EXCEPT !.mem = n] OBVIOUS
<1>9. term' = [term EXCEPT ![t] = u]
  <2>1. Dropped(m) = n BY <1>3, <1>4, <1>6 DEF MemRow, Dropped
  <2>2. term' = [term EXCEPT ![t].mem = n] BY <1>1, <2>1 DEF StartDropped
  <2> QED BY <1>1, <1>8, <2>2 DEF TerminalInv
<1>10. /\ u \in TermRow /\ u.mem = n /\ u.state = o.state /\ u.complete = o.complete
       /\ u.end = o.end /\ u.produced = o.produced /\ u.child = o.child /\ u.input = o.input /\ u.written = o.written
  BY <1>5, <1>7, <1>8 DEF TermRow, LifeStates, Ended
<1>11. \A i \in Inputs : InputFits(u, i) BY <1>1, <1>2, <1>3, <1>5, <1>7, <1>10 DEF InputFits
<1>12. /\ Holding(u) <=> Holding(o)
       /\ GaveUp(o) => GaveUp(u)
       /\ o.state \in Settled => u.state \notin {"STARTING", "RUNNING"}
  BY <1>1, <1>2, <1>3, <1>5, <1>7, <1>10 DEF Holding, GaveUp, Settled, Ended, TasksFit, OutputFits, IsTerminal
<1>13. RowFits(u) /\ OnlyTerm
  BY <1>10, <1>11, <1>1, <1>2, <1>3, <1>5, <1>7 DEF RowFits, OnlyTerm, StartDropped, TasksFit, OutputFits, IsTerminal,
    Ended
<1> QED BY <1>1, <1>9, <1>12, <1>13, RowMoves

LEMMA ProduceKeeps ==
  ASSUME TerminalInv, NEW t \in Terminals, Produce(t)
  PROVE  TerminalInv' /\ NotRevived
<1>1. PICK o \in TermRow, m \in MemRow :
        /\ o = term[t] /\ m = o.mem
        /\ TasksFit(m) /\ OutputFits(o) /\ \A i \in Inputs : InputFits(o, i) BY TheRow
<1>2. o.child = "running" BY <1>1 DEF Produce
<1>3. PICK u : u = [o EXCEPT !.produced = o.produced + 1] OBVIOUS
<1>4. /\ u \in TermRow /\ u.mem = m /\ u.state = o.state /\ u.complete = o.complete
      /\ u.end = o.end /\ u.produced = o.produced + 1 /\ u.child = o.child /\ u.input = o.input /\ u.written = o.written
  BY <1>1, <1>2, <1>3 DEF TermRow, LifeStates, Ended
<1>5. \A i \in Inputs : InputFits(u, i) BY <1>1, <1>2, <1>4 DEF InputFits
<1>6. RowFits(u) /\ OnlyTerm
  BY <1>4, <1>5, <1>1, <1>2 DEF RowFits, OnlyTerm, Produce, TasksFit, OutputFits, IsTerminal, Ended, TermRow
<1> QED
  BY <1>1, <1>6, RowMoves, <1>2, <1>3, <1>4 DEF Produce, TermRow, TerminalInv, Holding, GaveUp, Settled, Ended,
    TasksFit, OutputFits, IsTerminal

LEMMA ExitKeeps ==
  ASSUME TerminalInv, NEW t \in Terminals, Exit(t)
  PROVE  TerminalInv' /\ NotRevived
<1>1. PICK o \in TermRow, m \in MemRow :
        /\ o = term[t] /\ m = o.mem
        /\ TasksFit(m) /\ OutputFits(o) /\ \A i \in Inputs : InputFits(o, i) BY TheRow
<1>2. o.child = "running" BY <1>1 DEF Exit
<1>3. PICK u : u = [o EXCEPT !.child = "gone"] OBVIOUS
<1>4. /\ u \in TermRow /\ u.mem = m /\ u.state = o.state /\ u.complete = o.complete
      /\ u.end = o.end /\ u.produced = o.produced /\ u.child = "gone" /\ u.input = o.input /\ u.written = o.written
  BY <1>1, <1>2, <1>3 DEF TermRow, LifeStates, Ended
<1>5. \A i \in Inputs : InputFits(u, i) BY <1>1, <1>2, <1>4 DEF InputFits
<1>6. RowFits(u) /\ OnlyTerm
  BY <1>4, <1>5, <1>1, <1>2 DEF RowFits, OnlyTerm, Exit, TasksFit, OutputFits, IsTerminal, Ended
<1> QED
  BY <1>1, <1>6, RowMoves, <1>2, <1>3, <1>4 DEF Exit, TermRow, TerminalInv, Holding, GaveUp, Settled, Ended, TasksFit,
    OutputFits, IsTerminal

LEMMA AppendTakesKeeps ==
  ASSUME TerminalInv, NEW t \in Terminals,
         Append1(t), term[t].complete, term[t].end < MaxOutputBytes
  PROVE  TerminalInv' /\ NotRevived
<1>1. PICK o \in TermRow, m \in MemRow :
        /\ o = term[t] /\ m = o.mem
        /\ TasksFit(m) /\ OutputFits(o) /\ \A i \in Inputs : InputFits(o, i) BY TheRow
<1>2. /\ m.drain = "reading" /\ o.end < o.produced /\ o.end < MaxOutputBytes BY <1>1 DEF Append1, Mem
<1>3. MaxOutputBytes \in Nat BY TerminalAssumption
<1>4. PICK u : u = [o EXCEPT !.end = o.end + 1] OBVIOUS
<1>5. /\ u \in TermRow /\ u.mem = m /\ u.state = o.state /\ u.complete = o.complete
      /\ u.end = o.end + 1 /\ u.produced = o.produced /\ u.child = o.child /\ u.input = o.input /\ u.written = o.written
  BY <1>1, <1>2, <1>3, <1>4 DEF TermRow, LifeStates, Ended
<1>6. \A i \in Inputs : InputFits(u, i) BY <1>1, <1>2, <1>3, <1>5 DEF InputFits
<1>7. RowFits(u) /\ OnlyTerm
  BY <1>5, <1>6, <1>1, <1>2, <1>3 DEF RowFits, OnlyTerm, Append1, TasksFit, OutputFits, IsTerminal, Ended, TermRow
<1> QED
  BY <1>1, <1>7, RowMoves, <1>2, <1>3, <1>4, <1>5 DEF Append1, TermRow, TerminalInv, Holding, GaveUp, Settled, Ended,
    TasksFit, OutputFits, IsTerminal

LEMMA AppendRefusesKeeps ==
  ASSUME TerminalInv, NEW t \in Terminals,
         Append1(t), ~(term[t].complete /\ term[t].end < MaxOutputBytes)
  PROVE  TerminalInv' /\ NotRevived
<1>1. PICK o \in TermRow, m \in MemRow :
        /\ o = term[t] /\ m = o.mem
        /\ TasksFit(m) /\ OutputFits(o) /\ \A i \in Inputs : InputFits(o, i) BY TheRow
<1>2. m.drain = "reading" BY <1>1 DEF Append1, Mem
<1>3. PICK n : n = [m EXCEPT !.drain = "failing"] OBVIOUS
<1>4. /\ n \in MemRow /\ n.life = m.life /\ n.starter = m.starter /\ n.monitor = m.monitor
      /\ n.drain = "failing" /\ n.final = m.final /\ n.clean = m.clean /\ n.writer = m.writer BY <1>3 DEF MemRow
<1>5. PICK u : u = [o EXCEPT !.complete = FALSE, !.mem.drain = "failing"] OBVIOUS
<1>6. u.mem = n BY <1>1, <1>3, <1>5 DEF TermRow, MemRow
<1>7. /\ u \in TermRow /\ u.mem = n /\ u.state = o.state /\ u.complete = FALSE
      /\ u.end = o.end /\ u.produced = o.produced /\ u.child = o.child /\ u.input = o.input /\ u.written = o.written
  BY <1>4, <1>5, <1>6 DEF TermRow, LifeStates, Ended
<1>8. \A i \in Inputs : InputFits(u, i) BY <1>1, <1>2, <1>4, <1>7 DEF InputFits
<1>9. /\ Holding(u) <=> Holding(o)
      /\ GaveUp(o) => GaveUp(u)
      /\ o.state \in Settled => u.state \notin {"STARTING", "RUNNING"}
  BY <1>1, <1>2, <1>4, <1>7 DEF Holding, GaveUp, Settled, Ended, TasksFit, OutputFits, IsTerminal
<1>10. RowFits(u) /\ OnlyTerm
  BY <1>7, <1>8, <1>1, <1>2, <1>4 DEF RowFits, OnlyTerm, Append1, TasksFit, OutputFits, IsTerminal, Ended
<1> QED BY <1>1, <1>9, <1>10, RowMoves, <1>2, <1>5 DEF Append1, TermRow, MemRow, TerminalInv

LEMMA DrainEndKeeps ==
  ASSUME TerminalInv, NEW t \in Terminals, DrainEnd(t)
  PROVE  TerminalInv' /\ NotRevived
<1>1. PICK o \in TermRow, m \in MemRow :
        /\ o = term[t] /\ m = o.mem
        /\ TasksFit(m) /\ OutputFits(o) /\ \A i \in Inputs : InputFits(o, i) BY TheRow
<1>2. m.drain = "reading" /\ o.child = "gone" /\ o.end = o.produced BY <1>1 DEF DrainEnd, Mem
<1>3. PICK n : n = [m EXCEPT !.drain = "complete"] OBVIOUS
<1>4. /\ n \in MemRow /\ n.life = m.life /\ n.starter = m.starter /\ n.monitor = m.monitor
      /\ n.drain = "complete" /\ n.final = m.final /\ n.clean = m.clean /\ n.writer = m.writer BY <1>3 DEF MemRow
<1>5. PICK u : u = [o EXCEPT !.mem.drain = "complete"] OBVIOUS
<1>6. u.mem = n BY <1>1, <1>3, <1>5 DEF TermRow, MemRow
<1>7. /\ u \in TermRow /\ u.mem = n /\ u.state = o.state /\ u.complete = o.complete
      /\ u.end = o.end /\ u.produced = o.produced /\ u.child = o.child /\ u.input = o.input /\ u.written = o.written
  BY <1>4, <1>5, <1>6 DEF TermRow, LifeStates, Ended
<1>8. \A i \in Inputs : InputFits(u, i) BY <1>1, <1>2, <1>4, <1>7 DEF InputFits
<1>9. /\ Holding(u) <=> Holding(o)
      /\ GaveUp(o) => GaveUp(u)
      /\ o.state \in Settled => u.state \notin {"STARTING", "RUNNING"}
  BY <1>1, <1>2, <1>4, <1>7 DEF Holding, GaveUp, Settled, Ended, TasksFit, OutputFits, IsTerminal
<1>10. RowFits(u) /\ OnlyTerm
  BY <1>7, <1>8, <1>1, <1>2, <1>4 DEF RowFits, OnlyTerm, DrainEnd, TasksFit, OutputFits, IsTerminal, Ended
<1> QED BY <1>1, <1>9, <1>10, RowMoves, <1>2, <1>5 DEF DrainEnd, TermRow, MemRow, TerminalInv

LEMMA DrainErrorKeeps ==
  ASSUME TerminalInv, NEW t \in Terminals, DrainError(t)
  PROVE  TerminalInv' /\ NotRevived
<1>1. PICK o \in TermRow, m \in MemRow :
        /\ o = term[t] /\ m = o.mem
        /\ TasksFit(m) /\ OutputFits(o) /\ \A i \in Inputs : InputFits(o, i) BY TheRow
<1>2. m.drain = "reading" BY <1>1 DEF DrainError, Mem
<1>3. PICK n : n = [m EXCEPT !.drain = "failing"] OBVIOUS
<1>4. /\ n \in MemRow /\ n.life = m.life /\ n.starter = m.starter /\ n.monitor = m.monitor
      /\ n.drain = "failing" /\ n.final = m.final /\ n.clean = m.clean /\ n.writer = m.writer BY <1>3 DEF MemRow
<1>5. PICK u : u = [o EXCEPT !.mem.drain = "failing"] OBVIOUS
<1>6. u.mem = n BY <1>1, <1>3, <1>5 DEF TermRow, MemRow
<1>7. /\ u \in TermRow /\ u.mem = n /\ u.state = o.state /\ u.complete = o.complete
      /\ u.end = o.end /\ u.produced = o.produced /\ u.child = o.child /\ u.input = o.input /\ u.written = o.written
  BY <1>4, <1>5, <1>6 DEF TermRow, LifeStates, Ended
<1>8. \A i \in Inputs : InputFits(u, i) BY <1>1, <1>2, <1>4, <1>7 DEF InputFits
<1>9. /\ Holding(u) <=> Holding(o)
      /\ GaveUp(o) => GaveUp(u)
      /\ o.state \in Settled => u.state \notin {"STARTING", "RUNNING"}
  BY <1>1, <1>2, <1>4, <1>7 DEF Holding, GaveUp, Settled, Ended, TasksFit, OutputFits, IsTerminal
<1>10. RowFits(u) /\ OnlyTerm
  BY <1>7, <1>8, <1>1, <1>2, <1>4 DEF RowFits, OnlyTerm, DrainError, TasksFit, OutputFits, IsTerminal, Ended
<1> QED BY <1>1, <1>9, <1>10, RowMoves, <1>2, <1>5 DEF DrainError, TermRow, MemRow, TerminalInv

LEMMA DrainFailsKeeps ==
  ASSUME TerminalInv, NEW t \in Terminals, DrainFails(t)
  PROVE  TerminalInv' /\ NotRevived
<1>1. PICK o \in TermRow, m \in MemRow :
        /\ o = term[t] /\ m = o.mem
        /\ TasksFit(m) /\ OutputFits(o) /\ \A i \in Inputs : InputFits(o, i) BY TheRow
<1>2. m.drain = "failing" BY <1>1 DEF DrainFails, Mem
<1>3. PICK b \in MemRow :
        /\ b = BeginTermination(m) /\ b.starter = m.starter /\ b.monitor = m.monitor
        /\ b.drain = m.drain /\ b.final = m.final /\ b.clean = m.clean /\ b.writer = m.writer
        /\ IsTerminal(b.life) <=> IsTerminal(m.life)
        /\ b.life = "none" <=> m.life = "none"
        /\ b.life \notin {"STARTING", "RUNNING"} BY Begun
<1>4. PICK n : n = [b EXCEPT !.background = TRUE, !.drain = "record"] OBVIOUS
<1>5. /\ n \in MemRow /\ n.life = b.life /\ n.starter = b.starter /\ n.monitor = b.monitor
      /\ n.drain = "record" /\ n.final = b.final /\ n.clean = b.clean /\ n.writer = b.writer BY <1>4 DEF MemRow
<1>6. PICK u : u = [o EXCEPT !.mem = n] OBVIOUS
<1>7. term' = [term EXCEPT ![t] = u] BY <1>1, <1>2, <1>3, <1>4, <1>6 DEF DrainFails, TermRow, MemRow, TerminalInv
<1>8. /\ u \in TermRow /\ u.mem = n /\ u.state = o.state /\ u.complete = o.complete
      /\ u.end = o.end /\ u.produced = o.produced /\ u.child = o.child /\ u.input = o.input /\ u.written = o.written
  BY <1>5, <1>6 DEF TermRow, LifeStates, Ended
<1>9. \A i \in Inputs : InputFits(u, i) BY <1>1, <1>2, <1>3, <1>5, <1>8 DEF InputFits
<1>10. /\ Holding(u) <=> Holding(o)
       /\ GaveUp(o) => GaveUp(u)
       /\ o.state \in Settled => u.state \notin {"STARTING", "RUNNING"}
  BY <1>1, <1>2, <1>3, <1>5, <1>8 DEF Holding, GaveUp, Settled, Ended, TasksFit, OutputFits, IsTerminal
<1>11. RowFits(u) /\ OnlyTerm
  BY <1>8, <1>9, <1>1, <1>2, <1>3, <1>5 DEF RowFits, OnlyTerm, DrainFails, TasksFit, OutputFits, IsTerminal, Ended
<1> QED BY <1>1, <1>7, <1>10, <1>11, RowMoves

LEMMA DrainRecordKeeps ==
  ASSUME TerminalInv, NEW t \in Terminals, DrainRecord(t)
  PROVE  TerminalInv' /\ NotRevived
<1>1. PICK o \in TermRow, m \in MemRow :
        /\ o = term[t] /\ m = o.mem
        /\ TasksFit(m) /\ OutputFits(o) /\ \A i \in Inputs : InputFits(o, i) BY TheRow
<1>2. m.drain = "record" BY <1>1 DEF DrainRecord, Mem
<1>3. PICK s \in LifeStates : s = m.life /\ s \notin {"none", "STARTING", "RUNNING"}
  BY <1>1, <1>2 DEF MemRow, TasksFit
<1>4. s = TerminalState(Life(t)) BY <1>1, <1>2, <1>3 DEF TerminalState, Life
<1>5. PICK n : n = [m EXCEPT !.drain = "failed"] OBVIOUS
<1>6. /\ n \in MemRow /\ n.life = m.life /\ n.starter = m.starter /\ n.monitor = m.monitor
      /\ n.drain = "failed" /\ n.final = m.final /\ n.clean = m.clean /\ n.writer = m.writer BY <1>5 DEF MemRow
<1>7. PICK u : u = [o EXCEPT !.state = s, !.complete = FALSE, !.mem.drain = "failed"] OBVIOUS
<1>8. u.mem = n BY <1>1, <1>5, <1>7 DEF TermRow, MemRow
<1>9. /\ u \in TermRow /\ u.mem = n /\ u.state = s /\ u.complete = FALSE
      /\ u.end = o.end /\ u.produced = o.produced /\ u.child = o.child /\ u.input = o.input /\ u.written = o.written
  BY <1>6, <1>7, <1>8 DEF TermRow, LifeStates, Ended
<1>10. TasksFit(n) BY <1>1, <1>2, <1>3, <1>4, <1>6 DEF TasksFit, OutputFits, IsTerminal, Ended
<1>11. \A i \in Inputs : InputFits(u, i) BY <1>1, <1>2, <1>3, <1>4, <1>6, <1>9 DEF InputFits
<1>12. /\ Holding(u) <=> Holding(o)
       /\ GaveUp(o) => GaveUp(u)
       /\ o.state \in Settled => u.state \notin {"STARTING", "RUNNING"}
  BY <1>1, <1>2, <1>3, <1>4, <1>6, <1>9 DEF Holding, GaveUp, Settled, Ended, TasksFit, OutputFits, IsTerminal
<1>13. RowFits(u) /\ OnlyTerm
  BY <1>9, <1>10, <1>11, <1>1, <1>2, <1>3, <1>4, <1>6 DEF RowFits, OnlyTerm, DrainRecord, TasksFit, OutputFits,
    IsTerminal, Ended
<1> QED BY <1>1, <1>12, <1>13, RowMoves, <1>2, <1>3, <1>4, <1>7 DEF DrainRecord, TermRow, MemRow, TerminalInv

LEMMA MonitorWaitKeeps ==
  ASSUME TerminalInv, NEW t \in Terminals, MonitorWait(t)
  PROVE  TerminalInv' /\ NotRevived
<1>1. PICK o \in TermRow, m \in MemRow :
        /\ o = term[t] /\ m = o.mem
        /\ TasksFit(m) /\ OutputFits(o) /\ \A i \in Inputs : InputFits(o, i) BY TheRow
<1>2. m.monitor = "wait" /\ o.child = "gone" BY <1>1 DEF MonitorWait, Mem
<1>3. PICK n : n = [m EXCEPT !.monitor = "drain", !.pty = FALSE] OBVIOUS
<1>4. /\ n \in MemRow /\ n.life = m.life /\ n.starter = m.starter /\ n.monitor = "drain"
      /\ n.drain = m.drain /\ n.final = m.final /\ n.clean = m.clean /\ n.writer = m.writer BY <1>3 DEF MemRow
<1>5. PICK u : u = [o EXCEPT !.mem.monitor = "drain", !.mem.pty = FALSE] OBVIOUS
<1>6. term' = [term EXCEPT ![t] = u] BY <1>1, <1>2, <1>5 DEF MonitorWait, TermRow, MemRow, TerminalInv
<1>7. u.mem = n BY <1>1, <1>3, <1>5 DEF TermRow, MemRow
<1>8. /\ u \in TermRow /\ u.mem = n /\ u.state = o.state /\ u.complete = o.complete
      /\ u.end = o.end /\ u.produced = o.produced /\ u.child = o.child /\ u.input = o.input /\ u.written = o.written
  BY <1>4, <1>5, <1>7 DEF TermRow, LifeStates, Ended
<1>9. \A i \in Inputs : InputFits(u, i) BY <1>1, <1>2, <1>4, <1>8 DEF InputFits
<1>10. RowFits(u) /\ OnlyTerm
  BY <1>8, <1>9, <1>1, <1>2, <1>4 DEF RowFits, OnlyTerm, MonitorWait, TasksFit, OutputFits, IsTerminal, Ended
<1> QED
  BY <1>1, <1>6, <1>10, RowMoves, <1>2, <1>4, <1>8 DEF Holding, GaveUp, Settled, Ended, TasksFit, OutputFits,
    IsTerminal

LEMMA MonitorRecordKeeps ==
  ASSUME TerminalInv, NEW t \in Terminals, MonitorRecord(t)
  PROVE  TerminalInv' /\ NotRevived
<1>1. PICK o \in TermRow, m \in MemRow :
        /\ o = term[t] /\ m = o.mem
        /\ TasksFit(m) /\ OutputFits(o) /\ \A i \in Inputs : InputFits(o, i) BY TheRow
<1>2. m.monitor = "drain" /\ m.drain \in {"complete", "failed"} BY <1>1 DEF MonitorRecord, OutputDrained, Mem
<1>3. PICK f \in Ended : f = IF Mem(t).req THEN "TERMINATED" ELSE "EXITED" BY DEF Ended
<1>4. PICK k \in BOOLEAN : k = (term[t].complete /\ Mem(t).drain # "failed") OBVIOUS
<1>5. k => o.complete /\ m.drain # "failed" BY <1>1, <1>2, <1>3, <1>4 DEF Mem
<1>6. PICK n : n = [m EXCEPT !.final = f, !.monitor = "registry"] OBVIOUS
<1>7. /\ n \in MemRow /\ n.life = m.life /\ n.starter = m.starter /\ n.monitor = "registry"
      /\ n.drain = m.drain /\ n.final = f /\ n.clean = m.clean /\ n.writer = m.writer BY <1>6 DEF MemRow
<1>8. PICK u : u = [o EXCEPT !.state = f, !.complete = k, !.mem.final = f, !.mem.monitor = "registry"] OBVIOUS
<1>9. term' = [term EXCEPT ![t] = u]
  BY <1>1, <1>2, <1>3, <1>4, <1>5, <1>8 DEF MonitorRecord, TermRow, MemRow, TerminalInv
<1>10. u.mem = n BY <1>1, <1>6, <1>8 DEF TermRow, MemRow
<1>11. /\ u \in TermRow /\ u.mem = n /\ u.state = f /\ u.complete = k
       /\ u.end = o.end /\ u.produced = o.produced /\ u.child = o.child /\ u.input = o.input /\ u.written = o.written
  BY <1>7, <1>8, <1>10 DEF TermRow, LifeStates, Ended
<1>12. \A i \in Inputs : InputFits(u, i) BY <1>1, <1>2, <1>3, <1>4, <1>5, <1>7, <1>11 DEF InputFits
<1>13. /\ Holding(u) <=> Holding(o)
       /\ GaveUp(o) => GaveUp(u)
       /\ o.state \in Settled => u.state \notin {"STARTING", "RUNNING"}
  BY <1>1, <1>2, <1>3, <1>4, <1>5, <1>7, <1>11 DEF Holding, GaveUp, Settled, Ended, TasksFit, OutputFits, IsTerminal
<1>14. RowFits(u) /\ OnlyTerm
  BY <1>11, <1>12, <1>1, <1>2, <1>3, <1>4, <1>5, <1>7 DEF RowFits, OnlyTerm, MonitorRecord, TasksFit, OutputFits,
    IsTerminal, Ended
<1> QED BY <1>1, <1>9, <1>13, <1>14, RowMoves

LEMMA MonitorTransitionKeeps ==
  ASSUME TerminalInv, NEW t \in Terminals, MonitorTransition(t)
  PROVE  TerminalInv' /\ NotRevived
<1>1. PICK o \in TermRow, m \in MemRow :
        /\ o = term[t] /\ m = o.mem
        /\ TasksFit(m) /\ OutputFits(o) /\ \A i \in Inputs : InputFits(o, i) BY TheRow
<1>2. m.monitor = "transition" BY <1>1 DEF MonitorTransition, Mem
<1>3. PICK l \in Ended : l = Transition(m.life, m.final) BY <1>1, <1>2 DEF Transition, IsTerminal, Ended, TasksFit
<1>4. PICK n : n = [m EXCEPT !.monitor = "done", !.life = l] OBVIOUS
<1>5. /\ n \in MemRow /\ n.life = l /\ n.starter = m.starter /\ n.monitor = "done"
      /\ n.drain = m.drain /\ n.final = m.final /\ n.clean = m.clean /\ n.writer = m.writer
  BY <1>4 DEF MemRow, LifeStates
<1>6. PICK u : u = [o EXCEPT !.mem.monitor = "done", !.mem.life = l] OBVIOUS
<1>7. term' = [term EXCEPT ![t] = u]
  BY <1>1, <1>2, <1>3, <1>6 DEF MonitorTransition, Mem, TermRow, MemRow, TerminalInv
<1>8. u.mem = n BY <1>1, <1>4, <1>6 DEF TermRow, MemRow
<1>9. /\ u \in TermRow /\ u.mem = n /\ u.state = o.state /\ u.complete = o.complete
      /\ u.end = o.end /\ u.produced = o.produced /\ u.child = o.child /\ u.input = o.input /\ u.written = o.written
  BY <1>5, <1>6, <1>8 DEF TermRow, LifeStates, Ended
<1>10. \A i \in Inputs : InputFits(u, i) BY <1>1, <1>2, <1>3, <1>5, <1>9 DEF InputFits
<1>11. RowFits(u) /\ OnlyTerm
  BY <1>9, <1>10, <1>1, <1>2, <1>3, <1>5 DEF RowFits, OnlyTerm, MonitorTransition, TasksFit, OutputFits, IsTerminal,
    Ended
<1> QED
  BY <1>1, <1>7, <1>11, RowMoves, <1>2, <1>3, <1>5, <1>9 DEF Holding, GaveUp, Settled, Ended, TasksFit, OutputFits,
    IsTerminal

LEMMA TerminateKeeps ==
  ASSUME TerminalInv, NEW t \in Terminals, Terminate(t)
  PROVE  TerminalInv' /\ NotRevived
<1>1. PICK o \in TermRow, m \in MemRow :
        /\ o = term[t] /\ m = o.mem
        /\ TasksFit(m) /\ OutputFits(o) /\ \A i \in Inputs : InputFits(o, i) BY TheRow
<1>2. ~IsTerminal(m.life) BY <1>1 DEF Terminate, Life
<1>3. PICK b \in MemRow :
        /\ b = BeginTermination(m) /\ b.starter = m.starter /\ b.monitor = m.monitor
        /\ b.drain = m.drain /\ b.final = m.final /\ b.clean = m.clean /\ b.writer = m.writer
        /\ IsTerminal(b.life) <=> IsTerminal(m.life)
        /\ b.life = "none" <=> m.life = "none"
        /\ b.life \notin {"STARTING", "RUNNING"} BY Begun
<1>4. PICK c : c = [b.clean EXCEPT !["user"] = "request"] OBVIOUS
<1>5. /\ c \in [Cleaners -> CleanStates]
      /\ c["start"] = b.clean["start"] BY <1>4 DEF MemRow, CleanStates, Cleaners
<1>6. PICK n : n = [b EXCEPT !.clean = c] OBVIOUS
<1>7. /\ n \in MemRow /\ n.life = b.life /\ n.starter = b.starter /\ n.monitor = b.monitor
      /\ n.drain = b.drain /\ n.final = b.final /\ n.clean = c /\ n.writer = b.writer BY <1>5, <1>6 DEF MemRow
<1>8. PICK u : u = [o EXCEPT !.mem = n] OBVIOUS
<1>9. term' = [term EXCEPT ![t] = u]
  BY <1>1, <1>2, <1>3, <1>4, <1>5, <1>6, <1>8 DEF Terminate, TermRow, MemRow, TerminalInv
<1>10. /\ u \in TermRow /\ u.mem = n /\ u.state = o.state /\ u.complete = o.complete
       /\ u.end = o.end /\ u.produced = o.produced /\ u.child = o.child /\ u.input = o.input /\ u.written = o.written
  BY <1>5, <1>7, <1>8 DEF TermRow, LifeStates, Ended
<1>11. \A i \in Inputs : InputFits(u, i) BY <1>1, <1>2, <1>3, <1>5, <1>7, <1>10 DEF InputFits
<1>12. /\ Holding(u) <=> Holding(o)
       /\ GaveUp(o) => GaveUp(u)
       /\ o.state \in Settled => u.state \notin {"STARTING", "RUNNING"}
  BY <1>1, <1>2, <1>3, <1>5, <1>7, <1>10 DEF Holding, GaveUp, Settled, Ended, TasksFit, OutputFits, IsTerminal
<1>13. RowFits(u) /\ OnlyTerm
  BY <1>10, <1>11, <1>1, <1>2, <1>3, <1>5, <1>7 DEF RowFits, OnlyTerm, Terminate, TasksFit, OutputFits, IsTerminal,
    Ended
<1> QED BY <1>1, <1>9, <1>12, <1>13, RowMoves

LEMMA TerminateRecordKeeps ==
  ASSUME TerminalInv, NEW t \in Terminals, TerminateRecord(t)
  PROVE  TerminalInv' /\ NotRevived
<1>1. PICK o \in TermRow, m \in MemRow :
        /\ o = term[t] /\ m = o.mem
        /\ TasksFit(m) /\ OutputFits(o) /\ \A i \in Inputs : InputFits(o, i) BY TheRow
<1>2. m.clean["user"] = "request" BY <1>1 DEF TerminateRecord, Clean, Mem
<1>3. PICK c : c = [m.clean EXCEPT !["user"] = "begin"] OBVIOUS
<1>4. /\ c \in [Cleaners -> CleanStates]
      /\ c["start"] = m.clean["start"] BY <1>3 DEF MemRow, CleanStates, Cleaners
<1>5. PICK n : n = [m EXCEPT !.clean = c] OBVIOUS
<1>6. /\ n \in MemRow /\ n.life = m.life /\ n.starter = m.starter /\ n.monitor = m.monitor
      /\ n.drain = m.drain /\ n.final = m.final /\ n.clean = c /\ n.writer = m.writer BY <1>4, <1>5 DEF MemRow
<1>7. PICK u : u = [o EXCEPT !.state = "TERMINATING", !.mem.clean = c] OBVIOUS
<1>8. u.mem = n BY <1>1, <1>5, <1>7 DEF TermRow, MemRow
<1>9. /\ u \in TermRow /\ u.mem = n /\ u.state = "TERMINATING" /\ u.complete = o.complete
      /\ u.end = o.end /\ u.produced = o.produced /\ u.child = o.child /\ u.input = o.input /\ u.written = o.written
  BY <1>4, <1>6, <1>7, <1>8 DEF TermRow, LifeStates, Ended
<1>10. \A i \in Inputs : InputFits(u, i) BY <1>1, <1>2, <1>4, <1>6, <1>9 DEF InputFits
<1>11. /\ Holding(u) <=> Holding(o)
       /\ GaveUp(o) => GaveUp(u)
       /\ o.state \in Settled => u.state \notin {"STARTING", "RUNNING"}
  BY <1>1, <1>2, <1>4, <1>6, <1>9 DEF Holding, GaveUp, Settled, Ended, TasksFit, OutputFits, IsTerminal
<1>12. RowFits(u) /\ OnlyTerm
  BY <1>9, <1>10, <1>1, <1>2, <1>4, <1>6 DEF RowFits, OnlyTerm, TerminateRecord, TasksFit, OutputFits, IsTerminal,
    Ended
<1> QED BY <1>1, <1>11, <1>12, RowMoves, <1>2, <1>3, <1>4, <1>7 DEF TerminateRecord, TermRow, MemRow, TerminalInv

LEMMA TimeoutFiresKeeps ==
  ASSUME TerminalInv, NEW t \in Terminals, TimeoutFires(t)
  PROVE  TerminalInv' /\ NotRevived
<1>1. PICK o \in TermRow, m \in MemRow :
        /\ o = term[t] /\ m = o.mem
        /\ TasksFit(m) /\ OutputFits(o) /\ \A i \in Inputs : InputFits(o, i) BY TheRow
<1>2. m.timer BY <1>1 DEF TimeoutFires, Mem
<1>3. PICK c : c = [m.clean EXCEPT !["timer"] = "begin"] OBVIOUS
<1>4. /\ c \in [Cleaners -> CleanStates]
      /\ c["start"] = m.clean["start"] BY <1>3 DEF MemRow, CleanStates, Cleaners
<1>5. PICK n : n = [m EXCEPT !.timer = FALSE, !.clean = c] OBVIOUS
<1>6. /\ n \in MemRow /\ n.life = m.life /\ n.starter = m.starter /\ n.monitor = m.monitor
      /\ n.drain = m.drain /\ n.final = m.final /\ n.clean = c /\ n.writer = m.writer BY <1>4, <1>5 DEF MemRow
<1>7. PICK u : u = [o EXCEPT !.mem.timer = FALSE, !.mem.clean = c] OBVIOUS
<1>8. term' = [term EXCEPT ![t] = u] BY <1>1, <1>2, <1>3, <1>4, <1>7 DEF TimeoutFires, TermRow, MemRow, TerminalInv
<1>9. u.mem = n BY <1>1, <1>5, <1>7 DEF TermRow, MemRow
<1>10. /\ u \in TermRow /\ u.mem = n /\ u.state = o.state /\ u.complete = o.complete
       /\ u.end = o.end /\ u.produced = o.produced /\ u.child = o.child /\ u.input = o.input /\ u.written = o.written
  BY <1>4, <1>6, <1>7, <1>9 DEF TermRow, LifeStates, Ended
<1>11. \A i \in Inputs : InputFits(u, i) BY <1>1, <1>2, <1>4, <1>6, <1>10 DEF InputFits
<1>12. /\ Holding(u) <=> Holding(o)
       /\ GaveUp(o) => GaveUp(u)
       /\ o.state \in Settled => u.state \notin {"STARTING", "RUNNING"}
  BY <1>1, <1>2, <1>4, <1>6, <1>10 DEF Holding, GaveUp, Settled, Ended, TasksFit, OutputFits, IsTerminal
<1>13. RowFits(u) /\ OnlyTerm
  BY <1>10, <1>11, <1>1, <1>2, <1>4, <1>6 DEF RowFits, OnlyTerm, TimeoutFires, TasksFit, OutputFits, IsTerminal, Ended
<1> QED BY <1>1, <1>8, <1>12, <1>13, RowMoves

LEMMA CleanBeginEndedKeeps ==
  ASSUME TerminalInv, NEW t \in Terminals, NEW k \in Cleaners,
         CleanBegin(t, k), IsTerminal(Life(t))
  PROVE  TerminalInv' /\ NotRevived
<1>1. PICK o \in TermRow, m \in MemRow :
        /\ o = term[t] /\ m = o.mem
        /\ TasksFit(m) /\ OutputFits(o) /\ \A i \in Inputs : InputFits(o, i) BY TheRow
<1>2. IsTerminal(m.life) /\ m.clean[k] = "begin" BY <1>1 DEF CleanBegin, Clean, Mem, Life
<1>3. PICK n \in MemRow :
        /\ n = Returns(m, k, TRUE) /\ n.life = m.life /\ n.starter = m.starter
        /\ n.monitor = m.monitor /\ n.drain = m.drain /\ n.final = m.final /\ n.writer = m.writer
        /\ k # "start" => n.clean["start"] = m.clean["start"]
        /\ k = "start" => n.clean["start"] = IF TRUE THEN "true" ELSE "false" BY Returned
<1>4. /\ n.life = m.life /\ n.starter = m.starter /\ n.monitor = m.monitor
      /\ n.drain = m.drain /\ n.final = m.final /\ n.writer = m.writer
      /\ k # "start" => n.clean["start"] = m.clean["start"]
      /\ k = "start" => n.clean["start"] = "true" BY <1>3
<1>5. PICK u : u = [o EXCEPT !.mem = n] OBVIOUS
<1>6. term' = [term EXCEPT ![t] = u] BY <1>1, <1>2, <1>3, <1>4, <1>5 DEF CleanBegin, TermRow, MemRow, TerminalInv
<1>7. /\ u \in TermRow /\ u.mem = n /\ u.state = o.state /\ u.complete = o.complete
      /\ u.end = o.end /\ u.produced = o.produced /\ u.child = o.child /\ u.input = o.input /\ u.written = o.written
  BY <1>4, <1>5 DEF TermRow, LifeStates, Ended
<1>8. \A i \in Inputs : InputFits(u, i) BY <1>1, <1>2, <1>4, <1>7 DEF InputFits
<1>9. RowFits(u) /\ OnlyTerm
  BY <1>7, <1>8, <1>1, <1>2, <1>4 DEF RowFits, OnlyTerm, CleanBegin, TasksFit, OutputFits, IsTerminal, Ended
<1> QED
  BY <1>1, <1>6, <1>9, RowMoves, <1>2, <1>4, <1>7 DEF Holding, GaveUp, Settled, Ended, TasksFit, OutputFits,
    IsTerminal

LEMMA CleanBeginMarksKeeps ==
  ASSUME TerminalInv, NEW t \in Terminals, NEW k \in Cleaners,
         CleanBegin(t, k), ~IsTerminal(Life(t))
  PROVE  TerminalInv' /\ NotRevived
<1>1. PICK o \in TermRow, m \in MemRow :
        /\ o = term[t] /\ m = o.mem
        /\ TasksFit(m) /\ OutputFits(o) /\ \A i \in Inputs : InputFits(o, i) BY TheRow
<1>2. ~IsTerminal(m.life) /\ m.clean[k] = "begin" BY <1>1 DEF CleanBegin, Clean, Mem, Life
<1>3. PICK b \in MemRow :
        /\ b = BeginTermination(m) /\ b.starter = m.starter /\ b.monitor = m.monitor
        /\ b.drain = m.drain /\ b.final = m.final /\ b.clean = m.clean /\ b.writer = m.writer
        /\ IsTerminal(b.life) <=> IsTerminal(m.life)
        /\ b.life = "none" <=> m.life = "none"
        /\ b.life \notin {"STARTING", "RUNNING"} BY Begun
<1>4. PICK c : c = [b.clean EXCEPT ![k] = "mark"] OBVIOUS
<1>5. /\ c \in [Cleaners -> CleanStates]
      /\ c["start"] = IF k = "start" THEN "mark" ELSE b.clean["start"] BY <1>4 DEF MemRow, CleanStates, Cleaners
<1>6. PICK n : n = [b EXCEPT !.clean = c] OBVIOUS
<1>7. /\ n \in MemRow /\ n.life = b.life /\ n.starter = b.starter /\ n.monitor = b.monitor
      /\ n.drain = b.drain /\ n.final = b.final /\ n.clean = c /\ n.writer = b.writer BY <1>5, <1>6 DEF MemRow
<1>8. PICK u : u = [o EXCEPT !.mem = n] OBVIOUS
<1>9. term' = [term EXCEPT ![t] = u]
  BY <1>1, <1>2, <1>3, <1>4, <1>5, <1>6, <1>8 DEF CleanBegin, TermRow, MemRow, TerminalInv
<1>10. /\ u \in TermRow /\ u.mem = n /\ u.state = o.state /\ u.complete = o.complete
       /\ u.end = o.end /\ u.produced = o.produced /\ u.child = o.child /\ u.input = o.input /\ u.written = o.written
  BY <1>5, <1>7, <1>8 DEF TermRow, LifeStates, Ended
<1>11. \A i \in Inputs : InputFits(u, i) BY <1>1, <1>2, <1>3, <1>5, <1>7, <1>10 DEF InputFits
<1>12. /\ Holding(u) <=> Holding(o)
       /\ GaveUp(o) => GaveUp(u)
       /\ o.state \in Settled => u.state \notin {"STARTING", "RUNNING"}
  BY <1>1, <1>2, <1>3, <1>5, <1>7, <1>10 DEF Holding, GaveUp, Settled, Ended, TasksFit, OutputFits, IsTerminal
<1>13. RowFits(u) /\ OnlyTerm
  BY <1>10, <1>11, <1>1, <1>2, <1>3, <1>5, <1>7 DEF RowFits, OnlyTerm, CleanBegin, TasksFit, OutputFits, IsTerminal,
    Ended
<1> QED BY <1>1, <1>9, <1>12, <1>13, RowMoves

LEMMA CleanMarkKeeps ==
  ASSUME TerminalInv, NEW t \in Terminals, NEW k \in Cleaners, CleanMark(t, k)
  PROVE  TerminalInv' /\ NotRevived
<1>1. PICK o \in TermRow, m \in MemRow :
        /\ o = term[t] /\ m = o.mem
        /\ TasksFit(m) /\ OutputFits(o) /\ \A i \in Inputs : InputFits(o, i) BY TheRow
<1>2. m.clean[k] = "mark" BY <1>1 DEF CleanMark, Clean, Mem
<1>3. PICK c : c = [m.clean EXCEPT ![k] = "loop"] OBVIOUS
<1>4. /\ c \in [Cleaners -> CleanStates]
      /\ c["start"] = IF k = "start" THEN "loop" ELSE m.clean["start"] BY <1>3 DEF MemRow, CleanStates, Cleaners
<1>5. PICK n : n = [m EXCEPT !.clean = c] OBVIOUS
<1>6. /\ n \in MemRow /\ n.life = m.life /\ n.starter = m.starter /\ n.monitor = m.monitor
      /\ n.drain = m.drain /\ n.final = m.final /\ n.clean = c /\ n.writer = m.writer BY <1>4, <1>5 DEF MemRow
<1>7. PICK u : u = [o EXCEPT !.state = "TERMINATING", !.mem.clean = c] OBVIOUS
<1>8. u.mem = n BY <1>1, <1>5, <1>7 DEF TermRow, MemRow
<1>9. /\ u \in TermRow /\ u.mem = n /\ u.state = "TERMINATING" /\ u.complete = o.complete
      /\ u.end = o.end /\ u.produced = o.produced /\ u.child = o.child /\ u.input = o.input /\ u.written = o.written
  BY <1>4, <1>6, <1>7, <1>8 DEF TermRow, LifeStates, Ended
<1>10. \A i \in Inputs : InputFits(u, i) BY <1>1, <1>2, <1>4, <1>6, <1>9 DEF InputFits
<1>11. /\ Holding(u) <=> Holding(o)
       /\ GaveUp(o) => GaveUp(u)
       /\ o.state \in Settled => u.state \notin {"STARTING", "RUNNING"}
  BY <1>1, <1>2, <1>4, <1>6, <1>9 DEF Holding, GaveUp, Settled, Ended, TasksFit, OutputFits, IsTerminal
<1>12. RowFits(u) /\ OnlyTerm
  BY <1>9, <1>10, <1>1, <1>2, <1>4, <1>6 DEF RowFits, OnlyTerm, CleanMark, TasksFit, OutputFits, IsTerminal, Ended
<1> QED BY <1>1, <1>11, <1>12, RowMoves, <1>2, <1>3, <1>4, <1>7 DEF CleanMark, TermRow, MemRow, TerminalInv

LEMMA CleanSeesEndKeeps ==
  ASSUME TerminalInv, NEW t \in Terminals, NEW k \in Cleaners, CleanSeesEnd(t, k)
  PROVE  TerminalInv' /\ NotRevived
<1>1. PICK o \in TermRow, m \in MemRow :
        /\ o = term[t] /\ m = o.mem
        /\ TasksFit(m) /\ OutputFits(o) /\ \A i \in Inputs : InputFits(o, i) BY TheRow
<1>2. IsTerminal(m.life) /\ m.clean[k] = "loop" BY <1>1 DEF CleanSeesEnd, Clean, Mem, Life
<1>3. PICK n \in MemRow :
        /\ n = Returns(m, k, TRUE) /\ n.life = m.life /\ n.starter = m.starter
        /\ n.monitor = m.monitor /\ n.drain = m.drain /\ n.final = m.final /\ n.writer = m.writer
        /\ k # "start" => n.clean["start"] = m.clean["start"]
        /\ k = "start" => n.clean["start"] = IF TRUE THEN "true" ELSE "false" BY Returned
<1>4. /\ n.life = m.life /\ n.starter = m.starter /\ n.monitor = m.monitor
      /\ n.drain = m.drain /\ n.final = m.final /\ n.writer = m.writer
      /\ k # "start" => n.clean["start"] = m.clean["start"]
      /\ k = "start" => n.clean["start"] = "true" BY <1>3
<1>5. PICK u : u = [o EXCEPT !.mem = n] OBVIOUS
<1>6. term' = [term EXCEPT ![t] = u] BY <1>1, <1>2, <1>3, <1>4, <1>5 DEF CleanSeesEnd, TermRow, MemRow, TerminalInv
<1>7. /\ u \in TermRow /\ u.mem = n /\ u.state = o.state /\ u.complete = o.complete
      /\ u.end = o.end /\ u.produced = o.produced /\ u.child = o.child /\ u.input = o.input /\ u.written = o.written
  BY <1>4, <1>5 DEF TermRow, LifeStates, Ended
<1>8. \A i \in Inputs : InputFits(u, i) BY <1>1, <1>2, <1>4, <1>7 DEF InputFits
<1>9. RowFits(u) /\ OnlyTerm
  BY <1>7, <1>8, <1>1, <1>2, <1>4 DEF RowFits, OnlyTerm, CleanSeesEnd, TasksFit, OutputFits, IsTerminal, Ended
<1> QED
  BY <1>1, <1>6, <1>9, RowMoves, <1>2, <1>4, <1>7 DEF Holding, GaveUp, Settled, Ended, TasksFit, OutputFits,
    IsTerminal

LEMMA CleanDeadlineKeeps ==
  ASSUME TerminalInv, NEW t \in Terminals, NEW k \in Cleaners, CleanDeadline(t, k)
  PROVE  TerminalInv' /\ NotRevived
<1>1. PICK o \in TermRow, m \in MemRow :
        /\ o = term[t] /\ m = o.mem
        /\ TasksFit(m) /\ OutputFits(o) /\ \A i \in Inputs : InputFits(o, i) BY TheRow
<1>2. ~IsTerminal(m.life) /\ m.clean[k] = "loop" BY <1>1 DEF CleanDeadline, Clean, Mem, Life
<1>3. PICK l \in LifeStates : /\ l = Transition(m.life, "UNRECOVERABLE") /\ l \notin {"STARTING", "RUNNING"}
                              /\ l = "none" <=> m.life = "none"
                              /\ ~IsTerminal(l) BY <1>1, <1>2 DEF Transition, IsTerminal, Ended, MemRow, LifeStates
<1>4. PICK c : c = [m.clean EXCEPT ![k] = "late"] OBVIOUS
<1>5. /\ c \in [Cleaners -> CleanStates]
      /\ c["start"] = IF k = "start" THEN "late" ELSE m.clean["start"] BY <1>4 DEF MemRow, CleanStates, Cleaners
<1>6. PICK n : n = [m EXCEPT !.life = l, !.clean = c] OBVIOUS
<1>7. /\ n \in MemRow /\ n.life = l /\ n.starter = m.starter /\ n.monitor = m.monitor
      /\ n.drain = m.drain /\ n.final = m.final /\ n.clean = c /\ n.writer = m.writer BY <1>5, <1>6 DEF MemRow
<1>8. PICK u : u = [o EXCEPT !.mem.life = l, !.mem.clean = c] OBVIOUS
<1>9. u.mem = n BY <1>1, <1>6, <1>8 DEF TermRow, MemRow
<1>10. /\ u \in TermRow /\ u.mem = n /\ u.state = o.state /\ u.complete = o.complete
       /\ u.end = o.end /\ u.produced = o.produced /\ u.child = o.child /\ u.input = o.input /\ u.written = o.written
  BY <1>5, <1>7, <1>8, <1>9 DEF TermRow, LifeStates, Ended
<1>11. \A i \in Inputs : InputFits(u, i) BY <1>1, <1>2, <1>3, <1>5, <1>7, <1>10 DEF InputFits
<1>12. /\ Holding(u) <=> Holding(o)
       /\ GaveUp(o) => GaveUp(u)
       /\ o.state \in Settled => u.state \notin {"STARTING", "RUNNING"}
  BY <1>1, <1>2, <1>3, <1>5, <1>7, <1>10 DEF Holding, GaveUp, Settled, Ended, TasksFit, OutputFits, IsTerminal
<1>13. RowFits(u) /\ OnlyTerm
  BY <1>10, <1>11, <1>1, <1>2, <1>3, <1>5, <1>7 DEF RowFits, OnlyTerm, CleanDeadline, TasksFit, OutputFits,
    IsTerminal, Ended
<1> QED BY <1>1, <1>12, <1>13, RowMoves, <1>2, <1>3, <1>4, <1>5, <1>8 DEF CleanDeadline, TermRow, MemRow, TerminalInv

LEMMA CleanLateKeeps ==
  ASSUME TerminalInv, NEW t \in Terminals, NEW k \in Cleaners, CleanLate(t, k)
  PROVE  TerminalInv' /\ NotRevived
<1>1. PICK o \in TermRow, m \in MemRow :
        /\ o = term[t] /\ m = o.mem
        /\ TasksFit(m) /\ OutputFits(o) /\ \A i \in Inputs : InputFits(o, i) BY TheRow
<1>2. m.clean[k] = "late" BY <1>1 DEF CleanLate, Clean, Mem
<1>3. PICK n \in MemRow :
        /\ n = Returns(m, k, FALSE) /\ n.life = m.life /\ n.starter = m.starter
        /\ n.monitor = m.monitor /\ n.drain = m.drain /\ n.final = m.final /\ n.writer = m.writer
        /\ k # "start" => n.clean["start"] = m.clean["start"]
        /\ k = "start" => n.clean["start"] = IF FALSE THEN "true" ELSE "false" BY Returned
<1>4. /\ n.life = m.life /\ n.starter = m.starter /\ n.monitor = m.monitor
      /\ n.drain = m.drain /\ n.final = m.final /\ n.writer = m.writer
      /\ k # "start" => n.clean["start"] = m.clean["start"]
      /\ k = "start" => n.clean["start"] = "false" BY <1>3
<1>5. PICK u : u = [o EXCEPT !.state = "UNRECOVERABLE", !.mem = n] OBVIOUS
<1>6. term' = [term EXCEPT ![t] = u] BY <1>1, <1>2, <1>3, <1>4, <1>5 DEF CleanLate, TermRow, MemRow, TerminalInv
<1>7. /\ u \in TermRow /\ u.mem = n /\ u.state = "UNRECOVERABLE" /\ u.complete = o.complete
      /\ u.end = o.end /\ u.produced = o.produced /\ u.child = o.child /\ u.input = o.input /\ u.written = o.written
  BY <1>4, <1>5 DEF TermRow, LifeStates, Ended
<1>8. \A i \in Inputs : InputFits(u, i) BY <1>1, <1>2, <1>4, <1>7 DEF InputFits
<1>9. /\ Holding(u) <=> Holding(o)
      /\ GaveUp(o) => GaveUp(u)
      /\ o.state \in Settled => u.state \notin {"STARTING", "RUNNING"}
  BY <1>1, <1>2, <1>4, <1>7 DEF Holding, GaveUp, Settled, Ended, TasksFit, OutputFits, IsTerminal
<1>10. RowFits(u) /\ OnlyTerm
  BY <1>7, <1>8, <1>1, <1>2, <1>4 DEF RowFits, OnlyTerm, CleanLate, TasksFit, OutputFits, IsTerminal, Ended
<1> QED BY <1>1, <1>6, <1>9, <1>10, RowMoves

LEMMA CleanupAttemptKeeps ==
  ASSUME TerminalInv, NEW t \in Terminals, CleanupAttempt(t)
  PROVE  TerminalInv' /\ NotRevived
<1>1. PICK o \in TermRow, m \in MemRow :
        /\ o = term[t] /\ m = o.mem
        /\ TasksFit(m) /\ OutputFits(o) /\ \A i \in Inputs : InputFits(o, i) BY TheRow
<1>2. o.child = "running" BY <1>1 DEF CleanupAttempt
<1>3. PICK u : u = [o EXCEPT !.child = "gone"] OBVIOUS
<1>4. /\ u \in TermRow /\ u.mem = m /\ u.state = o.state /\ u.complete = o.complete
      /\ u.end = o.end /\ u.produced = o.produced /\ u.child = "gone" /\ u.input = o.input /\ u.written = o.written
  BY <1>1, <1>2, <1>3 DEF TermRow, LifeStates, Ended
<1>5. \A i \in Inputs : InputFits(u, i) BY <1>1, <1>2, <1>4 DEF InputFits
<1>6. RowFits(u) /\ OnlyTerm
  BY <1>4, <1>5, <1>1, <1>2 DEF RowFits, OnlyTerm, CleanupAttempt, TasksFit, OutputFits, IsTerminal, Ended
<1> QED
  BY <1>1, <1>6, RowMoves, <1>2, <1>3, <1>4 DEF CleanupAttempt, TermRow, TerminalInv, Holding, GaveUp, Settled, Ended,
    TasksFit, OutputFits, IsTerminal

LEMMA StartResizedKeeps ==
  ASSUME TerminalInv, NEW t \in Terminals, NEW v \in {"running", "failed"},
         Starter(t, "resize"), OnlyTerm,
         term' = [term EXCEPT ![t].mem.life = Transition(@, "RUNNING"), ![t].mem.starter = v]
  PROVE  TerminalInv' /\ NotRevived
<1>1. PICK o \in TermRow, m \in MemRow :
        /\ o = term[t] /\ m = o.mem
        /\ TasksFit(m) /\ OutputFits(o) /\ \A i \in Inputs : InputFits(o, i) BY TheRow
<1>2. /\ m.starter = "resize"
      /\ m.drain = "record" => m.life \notin {"STARTING", "RUNNING"} BY <1>1 DEF Starter, TasksFit
<1>3. PICK l \in LifeStates : /\ l = Transition(m.life, "RUNNING")
                              /\ l = m.life \/ (m.life = "STARTING" /\ l = "RUNNING")
  BY <1>1, <1>2 DEF Transition, IsTerminal, Ended, MemRow, LifeStates
<1>4. PICK n : n = [m EXCEPT !.life = l, !.starter = v] OBVIOUS
<1>5. /\ n \in MemRow /\ n.life = l /\ n.starter = v /\ n.monitor = m.monitor
      /\ n.drain = m.drain /\ n.final = m.final /\ n.clean = m.clean /\ n.writer = m.writer BY <1>4 DEF MemRow
<1>6. PICK u : u = [o EXCEPT !.mem.life = l, !.mem.starter = v] OBVIOUS
<1>7. u.mem = n BY <1>1, <1>4, <1>6 DEF TermRow, MemRow
<1>8. /\ u \in TermRow /\ u.mem = n /\ u.state = o.state /\ u.complete = o.complete
      /\ u.end = o.end /\ u.produced = o.produced /\ u.child = o.child /\ u.input = o.input /\ u.written = o.written
  BY <1>5, <1>6, <1>7 DEF TermRow, LifeStates, Ended
<1>9. \A i \in Inputs : InputFits(u, i) BY <1>1, <1>2, <1>3, <1>5, <1>8 DEF InputFits
<1>10. /\ Holding(u) <=> Holding(o)
       /\ GaveUp(o) => GaveUp(u)
       /\ o.state \in Settled => u.state \notin {"STARTING", "RUNNING"}
  BY <1>1, <1>2, <1>3, <1>5, <1>8 DEF Holding, GaveUp, Settled, Ended, TasksFit, OutputFits, IsTerminal
<1>11. RowFits(u) /\ OnlyTerm
  BY <1>8, <1>9, <1>1, <1>2, <1>3, <1>5 DEF RowFits, OnlyTerm, Starter, TasksFit, OutputFits, IsTerminal, Ended
<1> QED BY <1>1, <1>10, <1>11, RowMoves, <1>2, <1>3, <1>6 DEF Starter, TermRow, MemRow, TerminalInv

LEMMA StartNotResizedKeeps ==
  ASSUME TerminalInv, NEW t \in Terminals, NEW v \in {"running", "failed"},
         Starter(t, "resize"), OnlyTerm,
         term' = [term EXCEPT ![t].mem.starter = v]
  PROVE  TerminalInv' /\ NotRevived
<1>1. PICK o \in TermRow, m \in MemRow :
        /\ o = term[t] /\ m = o.mem
        /\ TasksFit(m) /\ OutputFits(o) /\ \A i \in Inputs : InputFits(o, i) BY TheRow
<1>2. m.starter = "resize" BY <1>1 DEF Starter
<1>3. PICK n : n = [m EXCEPT !.starter = v] OBVIOUS
<1>4. /\ n \in MemRow /\ n.life = m.life /\ n.starter = v /\ n.monitor = m.monitor
      /\ n.drain = m.drain /\ n.final = m.final /\ n.clean = m.clean /\ n.writer = m.writer BY <1>3 DEF MemRow
<1>5. PICK u : u = [o EXCEPT !.mem.starter = v] OBVIOUS
<1>6. u.mem = n BY <1>1, <1>3, <1>5 DEF TermRow, MemRow
<1>7. /\ u \in TermRow /\ u.mem = n /\ u.state = o.state /\ u.complete = o.complete
      /\ u.end = o.end /\ u.produced = o.produced /\ u.child = o.child /\ u.input = o.input /\ u.written = o.written
  BY <1>4, <1>5, <1>6 DEF TermRow, LifeStates, Ended
<1>8. \A i \in Inputs : InputFits(u, i) BY <1>1, <1>2, <1>4, <1>7 DEF InputFits
<1>9. /\ Holding(u) <=> Holding(o)
      /\ GaveUp(o) => GaveUp(u)
      /\ o.state \in Settled => u.state \notin {"STARTING", "RUNNING"}
  BY <1>1, <1>2, <1>4, <1>7 DEF Holding, GaveUp, Settled, Ended, TasksFit, OutputFits, IsTerminal
<1>10. RowFits(u) /\ OnlyTerm
  BY <1>7, <1>8, <1>1, <1>2, <1>4 DEF RowFits, OnlyTerm, Starter, TasksFit, OutputFits, IsTerminal, Ended
<1> QED BY <1>1, <1>9, <1>10, RowMoves, <1>2, <1>5 DEF Starter, TermRow, MemRow, TerminalInv

LEMMA InputKeeps ==
  ASSUME TerminalInv, NEW t \in Terminals, NEW j \in Inputs, Input(t, j)
  PROVE  TerminalInv' /\ NotRevived
<1>1. PICK o \in TermRow, m \in MemRow :
        /\ o = term[t] /\ m = o.mem
        /\ TasksFit(m) /\ OutputFits(o) /\ \A i \in Inputs : InputFits(o, i) BY TheRow
<1>2. m.writer[j] = "idle" /\ o.input[j] = "none" BY <1>1 DEF Input, MayWrite, Mem
<1>3. PICK r \in Nat : r = o.tries + 1 BY <1>1, <1>2 DEF TermRow
<1>4. PICK w : w = [m.writer EXCEPT ![j] = "locked"] OBVIOUS
<1>5. /\ w \in [Inputs -> {"idle", "locked", "wrote"}]
      /\ \A i \in Inputs : w[i] = IF i = j THEN "locked" ELSE m.writer[i] BY <1>4 DEF MemRow
<1>6. PICK p : p = [o.input EXCEPT ![j] = "PENDING"] OBVIOUS
<1>7. /\ p \in [Inputs -> {"none", "PENDING", "APPLIED", "UNKNOWN"}]
      /\ \A i \in Inputs : p[i] = IF i = j THEN "PENDING" ELSE o.input[i] BY <1>6 DEF TermRow
<1>8. PICK n : n = [m EXCEPT !.writer = w] OBVIOUS
<1>9. /\ n \in MemRow /\ n.life = m.life /\ n.starter = m.starter /\ n.monitor = m.monitor
      /\ n.drain = m.drain /\ n.final = m.final /\ n.clean = m.clean /\ n.writer = w
  BY <1>3, <1>5, <1>7, <1>8 DEF MemRow
<1>10. PICK u : u = [o EXCEPT !.input = p, !.tries = r, !.mem.writer = w] OBVIOUS
<1>11. term' = [term EXCEPT ![t] = u]
  BY <1>1, <1>2, <1>3, <1>4, <1>5, <1>6, <1>7, <1>10 DEF Input, TermRow, MemRow, TerminalInv
<1>12. u.mem = n BY <1>1, <1>8, <1>10 DEF TermRow, MemRow
<1>13. /\ u \in TermRow /\ u.mem = n /\ u.state = o.state /\ u.complete = o.complete
       /\ u.end = o.end /\ u.produced = o.produced /\ u.child = o.child /\ u.input = p /\ u.written = o.written
  BY <1>3, <1>5, <1>7, <1>9, <1>10, <1>12 DEF TermRow, LifeStates, Ended
<1>14. \A i \in Inputs : InputFits(u, i) BY <1>1, <1>2, <1>3, <1>5, <1>7, <1>9, <1>13 DEF InputFits
<1>15. /\ Holding(u) <=> Holding(o)
       /\ GaveUp(o) => GaveUp(u)
       /\ o.state \in Settled => u.state \notin {"STARTING", "RUNNING"}
  BY <1>1, <1>2, <1>3, <1>5, <1>7, <1>9, <1>13 DEF Holding, GaveUp, Settled, Ended, TasksFit, OutputFits, IsTerminal
<1>16. RowFits(u) /\ OnlyTerm
  BY <1>13, <1>14, <1>1, <1>2, <1>3, <1>5, <1>7, <1>9 DEF RowFits, OnlyTerm, Input, TasksFit, OutputFits, IsTerminal,
    Ended
<1> QED BY <1>1, <1>11, <1>15, <1>16, RowMoves

LEMMA InputLateKeeps ==
  ASSUME TerminalInv, NEW t \in Terminals, NEW j \in Inputs, Mem(t).writer[j] = "locked", OnlyTerm,
         term' = [term EXCEPT ![t].input[j] = "UNKNOWN", ![t].mem.writer[j] = "idle"]
  PROVE  TerminalInv' /\ NotRevived
<1>1. PICK o \in TermRow, m \in MemRow :
        /\ o = term[t] /\ m = o.mem
        /\ TasksFit(m) /\ OutputFits(o) /\ \A i \in Inputs : InputFits(o, i) BY TheRow
<1>2. m.writer[j] = "locked" BY <1>1 DEF Mem
<1>3. PICK w : w = [m.writer EXCEPT ![j] = "idle"] OBVIOUS
<1>4. /\ w \in [Inputs -> {"idle", "locked", "wrote"}]
      /\ \A i \in Inputs : w[i] = IF i = j THEN "idle" ELSE m.writer[i] BY <1>3 DEF MemRow
<1>5. PICK p : p = [o.input EXCEPT ![j] = "UNKNOWN"] OBVIOUS
<1>6. /\ p \in [Inputs -> {"none", "PENDING", "APPLIED", "UNKNOWN"}]
      /\ \A i \in Inputs : p[i] = IF i = j THEN "UNKNOWN" ELSE o.input[i] BY <1>5 DEF TermRow
<1>7. PICK n : n = [m EXCEPT !.writer = w] OBVIOUS
<1>8. /\ n \in MemRow /\ n.life = m.life /\ n.starter = m.starter /\ n.monitor = m.monitor
      /\ n.drain = m.drain /\ n.final = m.final /\ n.clean = m.clean /\ n.writer = w BY <1>4, <1>6, <1>7 DEF MemRow
<1>9. PICK u : u = [o EXCEPT !.input = p, !.mem.writer = w] OBVIOUS
<1>10. term' = [term EXCEPT ![t] = u]
  BY <1>1, <1>2, <1>3, <1>4, <1>5, <1>6, <1>9 DEF Mem, TermRow, MemRow, TerminalInv
<1>11. u.mem = n BY <1>1, <1>7, <1>9 DEF TermRow, MemRow
<1>12. /\ u \in TermRow /\ u.mem = n /\ u.state = o.state /\ u.complete = o.complete
       /\ u.end = o.end /\ u.produced = o.produced /\ u.child = o.child /\ u.input = p /\ u.written = o.written
  BY <1>4, <1>6, <1>8, <1>9, <1>11 DEF TermRow, LifeStates, Ended
<1>13. \A i \in Inputs : InputFits(u, i) BY <1>1, <1>2, <1>4, <1>6, <1>8, <1>12 DEF InputFits
<1>14. /\ Holding(u) <=> Holding(o)
       /\ GaveUp(o) => GaveUp(u)
       /\ o.state \in Settled => u.state \notin {"STARTING", "RUNNING"}
  BY <1>1, <1>2, <1>4, <1>6, <1>8, <1>12 DEF Holding, GaveUp, Settled, Ended, TasksFit, OutputFits, IsTerminal
<1>15. RowFits(u) /\ OnlyTerm
  BY <1>12, <1>13, <1>1, <1>2, <1>4, <1>6, <1>8 DEF RowFits, OnlyTerm, Mem, TasksFit, OutputFits, IsTerminal, Ended
<1> QED BY <1>1, <1>10, <1>14, <1>15, RowMoves

LEMMA InputWrittenKeeps ==
  ASSUME TerminalInv, NEW t \in Terminals, NEW j \in Inputs, Mem(t).writer[j] = "locked", OnlyTerm,
         term' = [term EXCEPT ![t].written[j] = @ + 1, ![t].mem.writer[j] = "wrote"]
  PROVE  TerminalInv' /\ NotRevived
<1>1. PICK o \in TermRow, m \in MemRow :
        /\ o = term[t] /\ m = o.mem
        /\ TasksFit(m) /\ OutputFits(o) /\ \A i \in Inputs : InputFits(o, i) BY TheRow
<1>2. m.writer[j] = "locked" BY <1>1 DEF Mem
<1>3. PICK w : w = [m.writer EXCEPT ![j] = "wrote"] OBVIOUS
<1>4. /\ w \in [Inputs -> {"idle", "locked", "wrote"}]
      /\ \A i \in Inputs : w[i] = IF i = j THEN "wrote" ELSE m.writer[i] BY <1>3 DEF MemRow
<1>5. PICK x : x = [o.written EXCEPT ![j] = o.written[j] + 1] OBVIOUS
<1>6. /\ x \in [Inputs -> Nat]
      /\ \A i \in Inputs : x[i] = IF i = j THEN o.written[j] + 1 ELSE o.written[i] BY <1>5 DEF TermRow
<1>7. PICK n : n = [m EXCEPT !.writer = w] OBVIOUS
<1>8. /\ n \in MemRow /\ n.life = m.life /\ n.starter = m.starter /\ n.monitor = m.monitor
      /\ n.drain = m.drain /\ n.final = m.final /\ n.clean = m.clean /\ n.writer = w BY <1>4, <1>6, <1>7 DEF MemRow
<1>9. PICK u : u = [o EXCEPT !.written = x, !.mem.writer = w] OBVIOUS
<1>10. term' = [term EXCEPT ![t] = u]
  BY <1>1, <1>2, <1>3, <1>4, <1>5, <1>6, <1>9 DEF Mem, TermRow, MemRow, TerminalInv
<1>11. u.mem = n BY <1>1, <1>7, <1>9 DEF TermRow, MemRow
<1>12. /\ u \in TermRow /\ u.mem = n /\ u.state = o.state /\ u.complete = o.complete
       /\ u.end = o.end /\ u.produced = o.produced /\ u.child = o.child /\ u.input = o.input /\ u.written = x
  BY <1>4, <1>6, <1>8, <1>9, <1>11 DEF TermRow, LifeStates, Ended
<1>13. \A i \in Inputs : InputFits(u, i) BY <1>1, <1>2, <1>4, <1>6, <1>8, <1>12 DEF InputFits, TermRow
<1>14. /\ Holding(u) <=> Holding(o)
       /\ GaveUp(o) => GaveUp(u)
       /\ o.state \in Settled => u.state \notin {"STARTING", "RUNNING"}
  BY <1>1, <1>2, <1>4, <1>6, <1>8, <1>12 DEF Holding, GaveUp, Settled, Ended, TasksFit, OutputFits, IsTerminal
<1>15. RowFits(u) /\ OnlyTerm
  BY <1>12, <1>13, <1>1, <1>2, <1>4, <1>6, <1>8 DEF RowFits, OnlyTerm, Mem, TasksFit, OutputFits, IsTerminal, Ended
<1> QED BY <1>1, <1>10, <1>14, <1>15, RowMoves

LEMMA InputHalfKeeps ==
  ASSUME TerminalInv, NEW t \in Terminals, NEW j \in Inputs, NEW b \in {0, 1},
         Mem(t).writer[j] = "locked", OnlyTerm,
         term' = [term EXCEPT ![t].written[j] = @ + b, ![t].input[j] = "UNKNOWN",
                              ![t].mem.writer[j] = "idle"]
  PROVE  TerminalInv' /\ NotRevived
<1>1. PICK o \in TermRow, m \in MemRow :
        /\ o = term[t] /\ m = o.mem
        /\ TasksFit(m) /\ OutputFits(o) /\ \A i \in Inputs : InputFits(o, i) BY TheRow
<1>2. m.writer[j] = "locked" BY <1>1 DEF Mem
<1>3. PICK w : w = [m.writer EXCEPT ![j] = "idle"] OBVIOUS
<1>4. /\ w \in [Inputs -> {"idle", "locked", "wrote"}]
      /\ \A i \in Inputs : w[i] = IF i = j THEN "idle" ELSE m.writer[i] BY <1>3 DEF MemRow
<1>5. PICK p : p = [o.input EXCEPT ![j] = "UNKNOWN"] OBVIOUS
<1>6. /\ p \in [Inputs -> {"none", "PENDING", "APPLIED", "UNKNOWN"}]
      /\ \A i \in Inputs : p[i] = IF i = j THEN "UNKNOWN" ELSE o.input[i] BY <1>5 DEF TermRow
<1>7. PICK x : x = [o.written EXCEPT ![j] = o.written[j] + b] OBVIOUS
<1>8. /\ x \in [Inputs -> Nat]
      /\ \A i \in Inputs : x[i] = IF i = j THEN o.written[j] + b ELSE o.written[i] BY <1>7 DEF TermRow
<1>9. PICK n : n = [m EXCEPT !.writer = w] OBVIOUS
<1>10. /\ n \in MemRow /\ n.life = m.life /\ n.starter = m.starter /\ n.monitor = m.monitor
       /\ n.drain = m.drain /\ n.final = m.final /\ n.clean = m.clean /\ n.writer = w
  BY <1>4, <1>6, <1>8, <1>9 DEF MemRow
<1>11. PICK u : u = [o EXCEPT !.written = x, !.input = p, !.mem.writer = w] OBVIOUS
<1>12. term' = [term EXCEPT ![t] = u]
  BY <1>1, <1>2, <1>3, <1>4, <1>5, <1>6, <1>7, <1>8, <1>11 DEF Mem, TermRow, MemRow, TerminalInv
<1>13. u.mem = n BY <1>1, <1>9, <1>11 DEF TermRow, MemRow
<1>14. /\ u \in TermRow /\ u.mem = n /\ u.state = o.state /\ u.complete = o.complete
       /\ u.end = o.end /\ u.produced = o.produced /\ u.child = o.child /\ u.input = p /\ u.written = x
  BY <1>4, <1>6, <1>8, <1>10, <1>11, <1>13 DEF TermRow, LifeStates, Ended
<1>15. TasksFit(n) BY <1>1, <1>2, <1>4, <1>6, <1>8, <1>10 DEF TasksFit, OutputFits, IsTerminal, Ended
<1>16. \A i \in Inputs : InputFits(u, i) BY <1>1, <1>2, <1>4, <1>6, <1>8, <1>10, <1>14 DEF InputFits, TermRow
<1>17. /\ Holding(u) <=> Holding(o)
       /\ GaveUp(o) => GaveUp(u)
       /\ o.state \in Settled => u.state \notin {"STARTING", "RUNNING"}
  BY <1>1, <1>2, <1>4, <1>6, <1>8, <1>10, <1>14 DEF Holding, GaveUp, Settled, Ended, TasksFit, OutputFits, IsTerminal
<1>18. RowFits(u) /\ OnlyTerm
  BY <1>14, <1>15, <1>16, <1>1, <1>2, <1>4, <1>6, <1>8, <1>10 DEF RowFits, OnlyTerm, Mem, TasksFit, OutputFits,
    IsTerminal, Ended
<1> QED BY <1>1, <1>12, <1>17, <1>18, RowMoves

LEMMA InputLeftKeeps ==
  ASSUME TerminalInv, NEW t \in Terminals, NEW j \in Inputs, NEW b \in {0, 1},
         Mem(t).writer[j] = "locked", OnlyTerm,
         term' = [term EXCEPT ![t].written[j] = @ + b, ![t].mem.writer[j] = "idle"]
  PROVE  TerminalInv' /\ NotRevived
<1>1. PICK o \in TermRow, m \in MemRow :
        /\ o = term[t] /\ m = o.mem
        /\ TasksFit(m) /\ OutputFits(o) /\ \A i \in Inputs : InputFits(o, i) BY TheRow
<1>2. m.writer[j] = "locked" BY <1>1 DEF Mem
<1>3. PICK w : w = [m.writer EXCEPT ![j] = "idle"] OBVIOUS
<1>4. /\ w \in [Inputs -> {"idle", "locked", "wrote"}]
      /\ \A i \in Inputs : w[i] = IF i = j THEN "idle" ELSE m.writer[i] BY <1>3 DEF MemRow
<1>5. PICK x : x = [o.written EXCEPT ![j] = o.written[j] + b] OBVIOUS
<1>6. /\ x \in [Inputs -> Nat]
      /\ \A i \in Inputs : x[i] = IF i = j THEN o.written[j] + b ELSE o.written[i] BY <1>5 DEF TermRow
<1>7. PICK n : n = [m EXCEPT !.writer = w] OBVIOUS
<1>8. /\ n \in MemRow /\ n.life = m.life /\ n.starter = m.starter /\ n.monitor = m.monitor
      /\ n.drain = m.drain /\ n.final = m.final /\ n.clean = m.clean /\ n.writer = w BY <1>4, <1>6, <1>7 DEF MemRow
<1>9. PICK u : u = [o EXCEPT !.written = x, !.mem.writer = w] OBVIOUS
<1>10. term' = [term EXCEPT ![t] = u]
  BY <1>1, <1>2, <1>3, <1>4, <1>5, <1>6, <1>9 DEF Mem, TermRow, MemRow, TerminalInv
<1>11. u.mem = n BY <1>1, <1>7, <1>9 DEF TermRow, MemRow
<1>12. /\ u \in TermRow /\ u.mem = n /\ u.state = o.state /\ u.complete = o.complete
       /\ u.end = o.end /\ u.produced = o.produced /\ u.child = o.child /\ u.input = o.input /\ u.written = x
  BY <1>4, <1>6, <1>8, <1>9, <1>11 DEF TermRow, LifeStates, Ended
<1>13. \A i \in Inputs : InputFits(u, i) BY <1>1, <1>2, <1>4, <1>6, <1>8, <1>12 DEF InputFits, TermRow
<1>14. /\ Holding(u) <=> Holding(o)
       /\ GaveUp(o) => GaveUp(u)
       /\ o.state \in Settled => u.state \notin {"STARTING", "RUNNING"}
  BY <1>1, <1>2, <1>4, <1>6, <1>8, <1>12 DEF Holding, GaveUp, Settled, Ended, TasksFit, OutputFits, IsTerminal
<1>15. RowFits(u) /\ OnlyTerm
  BY <1>12, <1>13, <1>1, <1>2, <1>4, <1>6, <1>8 DEF RowFits, OnlyTerm, Mem, TasksFit, OutputFits, IsTerminal, Ended
<1> QED BY <1>1, <1>10, <1>14, <1>15, RowMoves

LEMMA InputEndsKeeps ==
  ASSUME TerminalInv, NEW t \in Terminals, NEW j \in Inputs, NEW s \in {"APPLIED", "UNKNOWN"},

         Mem(t).writer[j] = "wrote", OnlyTerm,
         term' = [term EXCEPT ![t].input[j] = s, ![t].mem.writer[j] = "idle"]
  PROVE  TerminalInv' /\ NotRevived
<1>1. PICK o \in TermRow, m \in MemRow :
        /\ o = term[t] /\ m = o.mem
        /\ TasksFit(m) /\ OutputFits(o) /\ \A i \in Inputs : InputFits(o, i) BY TheRow
<1>2. m.writer[j] = "wrote" BY <1>1 DEF Mem
<1>3. PICK w : w = [m.writer EXCEPT ![j] = "idle"] OBVIOUS
<1>4. /\ w \in [Inputs -> {"idle", "locked", "wrote"}]
      /\ \A i \in Inputs : w[i] = IF i = j THEN "idle" ELSE m.writer[i] BY <1>3 DEF MemRow
<1>5. PICK p : p = [o.input EXCEPT ![j] = s] OBVIOUS
<1>6. /\ p \in [Inputs -> {"none", "PENDING", "APPLIED", "UNKNOWN"}]
      /\ \A i \in Inputs : p[i] = IF i = j THEN s ELSE o.input[i] BY <1>5 DEF TermRow
<1>7. PICK n : n = [m EXCEPT !.writer = w] OBVIOUS
<1>8. /\ n \in MemRow /\ n.life = m.life /\ n.starter = m.starter /\ n.monitor = m.monitor
      /\ n.drain = m.drain /\ n.final = m.final /\ n.clean = m.clean /\ n.writer = w BY <1>4, <1>6, <1>7 DEF MemRow
<1>9. PICK u : u = [o EXCEPT !.input = p, !.mem.writer = w] OBVIOUS
<1>10. term' = [term EXCEPT ![t] = u]
  BY <1>1, <1>2, <1>3, <1>4, <1>5, <1>6, <1>9 DEF Mem, TermRow, MemRow, TerminalInv
<1>11. u.mem = n BY <1>1, <1>7, <1>9 DEF TermRow, MemRow
<1>12. /\ u \in TermRow /\ u.mem = n /\ u.state = o.state /\ u.complete = o.complete
       /\ u.end = o.end /\ u.produced = o.produced /\ u.child = o.child /\ u.input = p /\ u.written = o.written
  BY <1>4, <1>6, <1>8, <1>9, <1>11 DEF TermRow, LifeStates, Ended
<1>13. \A i \in Inputs : InputFits(u, i) BY <1>1, <1>2, <1>4, <1>6, <1>8, <1>12 DEF InputFits
<1>14. /\ Holding(u) <=> Holding(o)
       /\ GaveUp(o) => GaveUp(u)
       /\ o.state \in Settled => u.state \notin {"STARTING", "RUNNING"}
  BY <1>1, <1>2, <1>4, <1>6, <1>8, <1>12 DEF Holding, GaveUp, Settled, Ended, TasksFit, OutputFits, IsTerminal
<1>15. RowFits(u) /\ OnlyTerm
  BY <1>12, <1>13, <1>1, <1>2, <1>4, <1>6, <1>8 DEF RowFits, OnlyTerm, Mem, TasksFit, OutputFits, IsTerminal, Ended
<1> QED BY <1>1, <1>10, <1>14, <1>15, RowMoves

-----------------------------------------------------------------------------
(* A session leaves the list of completed ones *)

KeptBy(list, t, kept) ==
    kept = [n \in 0 .. Len(list) |->
              IF n = 0 THEN << >>
              ELSE IF list[n] = t THEN kept[n - 1] ELSE Append(kept[n - 1], list[n])]

LEMMA KeptExists ==
  ASSUME NEW S, NEW list \in Seq(S), NEW t
  PROVE  \E kept : KeptBy(list, t, kept)
<1> DEFINE Take(g, n) == IF n = 0 THEN << >>
                         ELSE IF list[n] = t THEN g[n - 1] ELSE Append(g[n - 1], list[n])
           Fits(N, g) == \A n \in 0 .. N : g[n] = Take(g, n)
           Bad == {N \in Nat : ~ \E g : Fits(N, g)}
<1>1. Bad = {}
  <2> SUFFICES ASSUME Bad # {} PROVE FALSE OBVIOUS
  <2>1. PICK N \in Bad : \A M \in Bad : N <= M BY LeastNumber
  <2>2. N # 0
    <3>1. Fits(0, [n \in {0} |-> << >>]) OBVIOUS
    <3> QED BY <3>1
  <2>3. PICK M \in Nat : N = M + 1 BY <2>2
  <2>4. M \notin Bad
    <3> HIDE DEF Bad
    <3> QED BY <2>1, <2>3
  <2>5. PICK g : Fits(M, g) BY <2>4
  <2> DEFINE h == [n \in 0 .. N |-> IF n = N THEN Take(g, N) ELSE g[n]]
  <2>6. \A n \in 0 .. M : h[n] = g[n] BY <2>3
  <2>7. h[N] = Take(g, N) BY <2>3
  <2> HIDE DEF h
  <2>8. ASSUME NEW n \in 0 .. N PROVE h[n] = Take(h, n)
    <3>1. CASE n = N
      <4>1. n - 1 = M /\ M \in 0 .. M BY <2>3, <3>1
      <4> QED BY <2>7, <3>1, <2>6, <4>1
    <3>2. CASE n = 0
      <4>1. 0 \in 0 .. M BY <2>3
      <4> QED BY <2>5, <2>6, <3>2, <4>1
    <3>3. CASE n # N /\ n # 0
      <4>1. n \in 0 .. M /\ n - 1 \in 0 .. M BY <2>3, <3>3
      <4> QED BY <2>6, <4>1, <2>5
    <3> QED BY <3>1, <3>2, <3>3
  <2> QED BY <2>1, <2>8
<1>2. Len(list) \in Nat OBVIOUS
<1>3. PICK g : Fits(Len(list), g) BY <1>1, <1>2
<1> DEFINE h == [n \in 0 .. Len(list) |-> g[n]]
<1>4. \A n \in 0 .. Len(list) : h[n] = g[n] OBVIOUS
<1>5. h = [n \in 0 .. Len(list) |-> h[n]] OBVIOUS
<1> HIDE DEF h
<1>6. ASSUME NEW n \in 0 .. Len(list) PROVE h[n] = Take(h, n) BY <1>4, <1>3, <1>2
<1> QED BY <1>5, <1>6 DEF KeptBy

\* What stays was in the list and is not the session.
LEMMA WithoutKeeps ==
  ASSUME NEW S, NEW list \in Seq(S), NEW t
  PROVE  /\ WithoutSession(list, t) \in Seq(S)
         /\ Len(WithoutSession(list, t)) <= Len(list)
         /\ \A n \in 1 .. Len(WithoutSession(list, t)) :
               /\ WithoutSession(list, t)[n] # t
               /\ \E m \in 1 .. Len(list) : WithoutSession(list, t)[n] = list[m]
<1> DEFINE kept == CHOOSE k : KeptBy(list, t, k)
<1>1. KeptBy(list, t, kept) BY KeptExists
<1>2. WithoutSession(list, t) = kept[Len(list)] BY DEF WithoutSession, KeptBy
<1> HIDE DEF kept
<1>3. \A n \in 0 .. Len(list) :
        kept[n] = IF n = 0 THEN << >>
                  ELSE IF list[n] = t THEN kept[n - 1] ELSE Append(kept[n - 1], list[n]) BY <1>1 DEF KeptBy
<1> DEFINE Good(k, n) == /\ k \in Seq(S) /\ Len(k) <= n
                         /\ \A i \in 1 .. Len(k) :
                               k[i] # t /\ \E m \in 1 .. Len(list) : k[i] = list[m]
           Bad == {n \in 0 .. Len(list) : ~Good(kept[n], n)}
<1>4. Bad = {}
  <2> SUFFICES ASSUME Bad # {} PROVE FALSE OBVIOUS
  <2>1. Bad \subseteq Nat OBVIOUS
  <2>2. PICK n \in Bad : \A m \in Bad : n <= m BY <2>1, LeastNumber
  <2>3. n \in 0 .. Len(list) /\ n # 0
    <3>1. kept[0] = << >>
      <4>1. Len(list) \in Nat /\ 0 \in 0 .. Len(list) OBVIOUS
      <4> QED BY <4>1, <1>3
    <3>2. Good(<< >>, 0) OBVIOUS
    <3> HIDE DEF Good
    <3> QED BY <2>2, <3>1, <3>2
  <2>4. PICK p \in 0 .. Len(list) : p = n - 1 /\ p \notin Bad
    <3> HIDE DEF Bad
    <3> QED BY <2>2, <2>3
  <2>5. PICK k : k = kept[p] /\ Good(k, p) BY <2>4
  <2>6. CASE list[n] = t BY <2>2, <1>3, <2>3, <2>4, <2>5, <2>6
  <2>7. CASE list[n] # t
    <3>1. kept[n] = Append(k, list[n]) BY <1>3, <2>3, <2>4, <2>5, <2>7
    <3>2. n \in 1 .. Len(list) /\ list[n] \in S BY <2>3
    <3>3. PICK h : h = Append(k, list[n]) OBVIOUS
    <3>4. /\ h \in Seq(S) /\ Len(h) = Len(k) + 1
          /\ \A i \in 1 .. Len(h) : h[i] = IF i = Len(k) + 1 THEN list[n] ELSE k[i] BY <2>5, <3>2, <3>3
    <3>5. Good(h, n)
      <4>1. ASSUME NEW i \in 1 .. Len(h)
            PROVE  h[i] # t /\ \E m \in 1 .. Len(list) : h[i] = list[m]
        <5>1. CASE i = Len(k) + 1 BY <2>7, <3>2, <3>4, <5>1
        <5>2. CASE i # Len(k) + 1
          <6>1. i \in 1 .. Len(k) /\ h[i] = k[i] BY <2>5, <3>4, <5>2
          <6> QED BY <2>5, <6>1
        <5> QED BY <5>1, <5>2
      <4> QED BY <4>1, <2>3, <2>4, <2>5, <3>4
    <3> QED BY <2>2, <3>1, <3>3, <3>5
  <2> QED BY <2>6, <2>7
<1>5. Len(list) \in 0 .. Len(list) OBVIOUS
<1> QED BY <1>2, <1>4, <1>5

-----------------------------------------------------------------------------
(* Places taken and given up *)

\* One row changes: the others stay, and so does what a row may not go back to.
LEMMA OneRow ==
  ASSUME TerminalInv, NEW t \in Terminals, NEW u, RowFits(u), term' = [term EXCEPT ![t] = u],
         term[t].state \in Settled => u.state \notin {"STARTING", "RUNNING"}
  PROVE  /\ DOMAIN term' = Terminals
         /\ \A q \in Terminals : term'[q] = IF q = t THEN u ELSE term[q]
         /\ \A q \in Terminals : RowFits(term'[q])
         /\ NotRevived
<1>1. DOMAIN term' = Terminals /\ \A q \in Terminals : term'[q] = IF q = t THEN u ELSE term[q] BY DEF TerminalInv
<1>2. NotRevived
  <2> SUFFICES ASSUME NEW q \in Terminals, term[q].state \in Settled
               PROVE  term'[q].state \notin {"STARTING", "RUNNING"} BY DEF NotRevived
  <2>1. CASE q = t BY <1>1, <2>1
  <2>2. CASE q # t BY <1>1, <2>2 DEF Settled, Ended
  <2> QED BY <2>1, <2>2
<1> QED BY <1>1, <1>2 DEF TerminalInv

LEMMA PrimedPlaces ==
  \A w : /\ Holders(w)' = {q \in Terminals : Holding(term'[q]) /\ Workspace[q] = w}
         /\ Occupied(w)' = others'[w] + Cardinality(Holders(w)')
  BY DEF Occupied, Holders, Holding, Occupies, Starter, Mem

LEMMA CountsAreNumbers ==
  ASSUME TerminalInv
  PROVE  /\ active \in Nat /\ IsFiniteSet(Workspaces)
         /\ \A w \in Workspaces : Occupied(w) \in Nat /\ activeIn[w] = Occupied(w)
<1>1. IsFiniteSet(Workspaces)
  <2>1. [t \in Terminals |-> Workspace[t]] \in Surjection(Terminals, Workspaces) BY DEF Workspaces, Surjection
  <2> QED BY <2>1, TerminalAssumption, FS_Surjection
<1>2. PICK f \in [Workspaces -> Nat] : f = activeIn /\ active = SumFunction(f) BY DEF TerminalInv, CountsFit
<1>3. PICK a : SumsUp(f, a) /\ SumFunction(f) = a[Workspaces] BY <1>1, SumIsLast
<1> QED BY <1>1, <1>2, <1>3, SumsAreNumbers DEF TerminalInv, CountsFit

\* One more place in a workspace that has room.
LEMMA CountMore ==
  ASSUME TerminalInv, NEW w \in Workspaces, HasRoom(w), Occupy(w), others' \in [Workspaces -> Nat],
         \A v \in Workspaces : Occupied(v)' = IF v = w THEN Occupied(v) + 1 ELSE Occupied(v)
  PROVE  CountsFit'
<1>1. PICK f \in [Workspaces -> Nat] :
        /\ f = activeIn /\ active = SumFunction(f)
        /\ f[w] < MaxActivePerWorkspace /\ active < MaxActive
        /\ \A v \in Workspaces : f[v] = Occupied(v) /\ f[v] <= MaxActivePerWorkspace
  BY DEF TerminalInv, CountsFit, HasRoom
<1>2. PICK h : h = [f EXCEPT ![w] = f[w] + 1] OBVIOUS
<1>3. h \in [Workspaces -> Nat] /\ \A v \in Workspaces : h[v] = IF v = w THEN f[v] + 1 ELSE f[v] BY <1>2
<1>4. activeIn' = h /\ active' = active + 1 BY <1>1, <1>2 DEF Occupy
<1>5. SumFunction(h) = SumFunction(f) + 1 /\ SumFunction(f) \in Nat BY <1>2, <1>3, CountsAreNumbers, SumOfMore
<1> QED BY <1>3, <1>4, <1>1, LimitsAssumption, <1>5 DEF CountsFit

\* One place less: the counters do not stick at zero.
LEMMA CountLess ==
  ASSUME TerminalInv, NEW w \in Workspaces, Release(w), others' \in [Workspaces -> Nat],
         \A v \in Workspaces : Occupied(v)' \in Nat,
         \A v \in Workspaces : Occupied(v) = IF v = w THEN Occupied(v)' + 1 ELSE Occupied(v)'
  PROVE  CountsFit'
<1>1. PICK f \in [Workspaces -> Nat] :
        /\ f = activeIn /\ active = SumFunction(f) /\ active <= MaxActive
        /\ \A v \in Workspaces : f[v] = Occupied(v) /\ f[v] <= MaxActivePerWorkspace BY DEF TerminalInv, CountsFit
<1>2. f[w] # 0 /\ Dec(f[w]) = f[w] - 1 /\ f[w] - 1 \in Nat BY <1>1 DEF Dec
<1>3. PICK h : h = [f EXCEPT ![w] = f[w] - 1] OBVIOUS
<1>4. h \in [Workspaces -> Nat] /\ \A v \in Workspaces : h[v] = IF v = w THEN f[v] - 1 ELSE f[v] BY <1>2, <1>3
<1>5. activeIn' = h /\ active' = Dec(active) BY <1>1, <1>2, <1>3 DEF Release
<1>6. f = [h EXCEPT ![w] = h[w] + 1]
  <2>1. PICK g : g = [h EXCEPT ![w] = h[w] + 1] OBVIOUS
  <2> QED BY <1>4, <2>1, <1>2
<1>7. SumFunction(f) = SumFunction(h) + 1 /\ SumFunction(h) \in Nat BY <1>4, <1>6, CountsAreNumbers, SumOfMore
<1> QED BY <1>4, <1>5, <1>1, <1>2, LimitsAssumption, <1>7 DEF CountsFit, Dec

\* A row that takes a place, and one that gives its place up.
LEMMA PlaceTaken ==
  ASSUME TerminalInv, NEW t \in Terminals, NEW u,
         \A q \in Terminals : term'[q] = IF q = t THEN u ELSE term[q],
         Holding(u), ~Holding(term[t]), UNCHANGED others
  PROVE  /\ Workspace[t] \in Workspaces /\ others' \in [Workspaces -> Nat]
         /\ \A v \in Workspaces :
               Occupied(v)' = IF v = Workspace[t] THEN Occupied(v) + 1 ELSE Occupied(v)
<1>1. \A q \in Terminals : Holding(term'[q]) <=> (Holding(term[q]) \/ q = t)
  <2> TAKE q \in Terminals
  <2>1. CASE q = t BY <2>1 DEF Holding
  <2>2. CASE q # t BY <2>2 DEF Holding
  <2> QED BY <2>1, <2>2
<1>2. ASSUME NEW v \in Workspaces
      PROVE  Occupied(v)' = IF v = Workspace[t] THEN Occupied(v) + 1 ELSE Occupied(v)
  <2>1. /\ Occupied(v) = others[v] + Cardinality(Holders(v)) /\ IsFiniteSet(Holders(v))
        /\ Cardinality(Holders(v)) \in Nat BY HoldersCounted
  <2>2. Occupied(v)' = others[v] + Cardinality(Holders(v)') BY PrimedPlaces
  <2>3. Cardinality(Holders(v) \cup {t}) = Cardinality(Holders(v)) + 1 BY <2>1, FS_AddElement DEF Holders
  <2>4. others[v] \in Nat BY DEF TerminalInv, CountsFit
  <2> QED BY <2>1, <2>2, <2>3, <2>4, <1>1, PrimedPlaces DEF Holders
<1> QED BY <1>2 DEF TerminalInv, CountsFit, Workspaces

LEMMA PlaceGiven ==
  ASSUME TerminalInv, NEW t \in Terminals, NEW u,
         \A q \in Terminals : term'[q] = IF q = t THEN u ELSE term[q],
         ~Holding(u), Holding(term[t]), UNCHANGED others
  PROVE  /\ Workspace[t] \in Workspaces /\ others' \in [Workspaces -> Nat]
         /\ \A v \in Workspaces : Occupied(v)' \in Nat
         /\ \A v \in Workspaces :
               Occupied(v) = IF v = Workspace[t] THEN Occupied(v)' + 1 ELSE Occupied(v)'
<1>1. \A q \in Terminals : Holding(term'[q]) <=> (Holding(term[q]) /\ q # t)
  <2> TAKE q \in Terminals
  <2>1. CASE q = t BY <2>1 DEF Holding
  <2>2. CASE q # t BY <2>2 DEF Holding
  <2> QED BY <2>1, <2>2
<1>2. ASSUME NEW v \in Workspaces
      PROVE  /\ Occupied(v)' \in Nat
             /\ Occupied(v) = IF v = Workspace[t] THEN Occupied(v)' + 1 ELSE Occupied(v)'
  <2>1. /\ Occupied(v) = others[v] + Cardinality(Holders(v)) /\ IsFiniteSet(Holders(v))
        /\ Cardinality(Holders(v)) \in Nat BY HoldersCounted
  <2>2. Occupied(v)' = others[v] + Cardinality(Holders(v)') BY PrimedPlaces
  <2>3. Holders(v)' = Holders(v) \ {t} BY <1>1, PrimedPlaces DEF Holders
  <2>4. t \in Holders(v) <=> v = Workspace[t] BY DEF Holders
  <2>5. others[v] \in Nat BY DEF TerminalInv, CountsFit
  <2>6. CASE v = Workspace[t]
    <3>1. Cardinality(Holders(v)') = Cardinality(Holders(v)) - 1 /\ Cardinality(Holders(v)') \in Nat
      BY <2>3, <2>4, <2>6, <2>1, FS_RemoveElement, FS_Subset, FS_CardinalityType
    <3> QED BY <2>1, <2>2, <2>5, <2>6, <3>1
  <2>7. CASE v # Workspace[t] BY <2>1, <2>2, <2>5, <2>7, <2>3, <2>4
  <2> QED BY <2>6, <2>7
<1> QED BY <1>2 DEF TerminalInv, CountsFit, Workspaces

\* What the list of completed sessions keeps when one more is added to it, and
\* the sessions that are expired with it have no place.
LEMMA RetainKeeps ==
  ASSUME TerminalInv, NEW id \in Terminals \cup {"other"}, Retain(id),
         \A q \in Terminals : RowFits(term'[q]),
         \A q \in Terminals : /\ Holding(term'[q]) => Holding(term[q])
                              /\ GaveUp(term[q]) => GaveUp(term'[q]),
         id # "other" => GaveUp(term'[id])
  PROVE  RegistryFits'
<1>1. \A q \in Terminals : ~(Holding(term'[q]) /\ GaveUp(term'[q]))
  <2> SUFFICES ASSUME NEW q \in Terminals, Holding(term'[q]), GaveUp(term'[q]) PROVE FALSE OBVIOUS
  <2>1. PICK m : m = term'[q].mem /\ TasksFit(m) BY DEF RowFits
  <2> QED BY <2>1 DEF Holding, GaveUp, TasksFit
<1>2. PICK c \in Seq(Terminals \cup {"other"}) :
        /\ c = completed /\ Len(c) <= MaxRetained
        /\ \A n \in 1 .. Len(c) : c[n] # "other" => GaveUp(term[c[n]]) BY DEF TerminalInv, RegistryFits
<1>3. PICK d : d = Append(c, id) OBVIOUS
<1>4. /\ d \in Seq(Terminals \cup {"other"}) /\ Len(d) = Len(c) + 1
      /\ \A n \in 1 .. Len(d) : d[n] = IF n = Len(c) + 1 THEN id ELSE c[n] BY <1>3
<1>5. \A n \in 1 .. Len(d) : d[n] # "other" => d[n] \in Terminals /\ GaveUp(term'[d[n]])
  <2> SUFFICES ASSUME NEW n \in 1 .. Len(d), d[n] # "other"
               PROVE  d[n] \in Terminals /\ GaveUp(term'[d[n]]) OBVIOUS
  <2>1. d[n] \in Terminals BY <1>4
  <2>2. CASE n = Len(c) + 1 BY <1>4, <2>2
  <2>3. CASE n # Len(c) + 1 BY <1>2, <2>1, <1>4, <2>3
  <2> QED BY <2>1, <2>2, <2>3
<1>6. PICK drop \in 0 .. Len(d) :
        /\ drop = IF Len(d) > MaxRetained THEN Len(d) - MaxRetained ELSE 0
        /\ Len(d) - drop <= MaxRetained BY <1>4, TerminalAssumption
<1>7. completed' = SubSeq(d, drop + 1, Len(d)) /\ sessions' = sessions \ {d[n] : n \in 1 .. drop}
  BY <1>2, <1>3, <1>6 DEF Retain
<1>8. /\ completed' \in Seq(Terminals \cup {"other"}) /\ Len(completed') = Len(d) - drop
      /\ \A n \in 1 .. Len(completed') : completed'[n] = d[drop + n]
  <2>1. drop + 1 \in 1 .. Len(d) + 1 /\ Len(d) \in Nat BY <1>4, <1>6
  <2>2. PICK e : e = SubSeq(d, drop + 1, Len(d)) OBVIOUS
  <2>3. e \in Seq(Terminals \cup {"other"}) BY <1>4, <2>1, <2>2
  <2> QED BY <1>7, <2>2, <2>3, <1>4, <2>1
<1>9. \A n \in 1 .. Len(completed') : completed'[n] # "other" => GaveUp(term'[completed'[n]])
  <2> SUFFICES ASSUME NEW n \in 1 .. Len(completed'), completed'[n] # "other"
               PROVE  GaveUp(term'[completed'[n]]) OBVIOUS
  <2>1. completed'[n] = d[drop + n] BY <1>8
  <2> QED BY <1>5, <2>1, <1>4, <1>6, <1>8
<1>10. \A q \in Terminals : Holding(term'[q]) => q \in sessions'
  <2> SUFFICES ASSUME NEW q \in Terminals, Holding(term'[q]), q \notin sessions' PROVE FALSE OBVIOUS
  <2>1. PICK n \in 1 .. drop : q = d[n] BY <1>7 DEF TerminalInv, RegistryFits
  <2>2. q # "other" BY TerminalAssumption
  <2> QED BY <1>1, <1>5, <2>1, <2>2, <1>4, <1>6
<1> QED BY <1>8, <1>9, <1>10, <1>7, <1>6 DEF RegistryFits, TerminalInv

\* The sessions change and no place is lost with them.
LEMMA SessionsMove ==
  ASSUME TerminalInv, NEW list \in Seq(Terminals \cup {"other"}), completed' = list,
         Len(list) <= MaxRetained, sessions' \subseteq Terminals,
         \A j \in 1 .. Len(list) : list[j] # "other" => GaveUp(term'[list[j]]),
         \A q \in Terminals : Holding(term'[q]) => q \in sessions'
  PROVE  RegistryFits'
  BY DEF RegistryFits

\* The other sessions keep their places when one row changes.
LEMMA OthersStay ==
  ASSUME TerminalInv, NEW t \in Terminals, NEW u,
         \A q \in Terminals : term'[q] = IF q = t THEN u ELSE term[q],
         GaveUp(term[t]) => GaveUp(u)
  PROVE  /\ \A q \in Terminals : q # t /\ Holding(term'[q]) => q \in sessions
         /\ \A q \in Terminals : GaveUp(term[q]) => GaveUp(term'[q])
         /\ \A j \in 1 .. Len(completed) : completed[j] # "other" => GaveUp(term'[completed[j]])
<1>1. \A q \in Terminals : q # t => (Holding(term'[q]) <=> Holding(term[q]))
  <2> TAKE q \in Terminals
  <2> HAVE q # t
  <2> QED BY DEF Holding
<1>2. \A q \in Terminals : GaveUp(term[q]) => GaveUp(term'[q])
  <2> TAKE q \in Terminals
  <2> HAVE GaveUp(term[q])
  <2>1. CASE q = t BY <2>1 DEF GaveUp
  <2>2. CASE q # t BY <2>2 DEF GaveUp
  <2> QED BY <2>1, <2>2
<1> QED BY <1>2, <1>1 DEF TerminalInv, RegistryFits

\* A row changes and the counts of the registry stay.
LEMMA PlaceKept ==
  ASSUME TerminalInv, NEW t \in Terminals, NEW u,
         \A q \in Terminals : term'[q] = IF q = t THEN u ELSE term[q],
         Holding(u) <=> Holding(term[t]), UNCHANGED others
  PROVE  \A v : Occupied(v)' = Occupied(v)
<1>1. \A q \in Terminals : Holding(term'[q]) <=> Holding(term[q])
  <2> TAKE q \in Terminals
  <2>1. CASE q = t BY <2>1 DEF Holding
  <2>2. CASE q # t BY <2>2 DEF Holding
  <2> QED BY <2>1, <2>2
<1> TAKE v
<1> QED BY HoldersCounted, PrimedPlaces, <1>1 DEF Holders

-----------------------------------------------------------------------------
(* The steps that take a place or give one up *)

LEMMA StartRoomKeeps ==
  ASSUME TerminalInv, NEW t \in Terminals, StartReserve(t), HasRoom(Workspace[t])
  PROVE  TerminalInv' /\ NotRevived
<1>1. PICK o \in TermRow, m \in MemRow :
        /\ o = term[t] /\ m = o.mem
        /\ TasksFit(m) /\ OutputFits(o) /\ \A i \in Inputs : InputFits(o, i) BY TheRow
<1>2. m.starter = "reserve" BY <1>1 DEF StartReserve, Starter
<1>3. PICK n : n = [m EXCEPT !.starter = "spawn", !.life = "STARTING"] OBVIOUS
<1>4. /\ n \in MemRow /\ n.life = "STARTING" /\ n.starter = "spawn" /\ n.monitor = m.monitor
      /\ n.drain = m.drain /\ n.final = m.final /\ n.clean = m.clean /\ n.writer = m.writer
  BY <1>3 DEF MemRow, LifeStates
<1>5. PICK u : u = [o EXCEPT !.mem.starter = "spawn", !.mem.life = "STARTING"] OBVIOUS
<1>6. term' = [term EXCEPT ![t] = u] BY <1>1, <1>2, <1>5 DEF StartReserve, TermRow, MemRow, TerminalInv
<1>7. u.mem = n BY <1>1, <1>3, <1>5 DEF TermRow, MemRow
<1>8. /\ u \in TermRow /\ u.mem = n /\ u.state = o.state /\ u.complete = o.complete
      /\ u.end = o.end /\ u.produced = o.produced /\ u.child = o.child /\ u.input = o.input /\ u.written = o.written
  BY <1>4, <1>5, <1>7 DEF TermRow, LifeStates, Ended
<1>9. \A i \in Inputs : InputFits(u, i) BY <1>1, <1>2, <1>4, <1>8 DEF InputFits
<1>10. /\ Holding(u) /\ ~Holding(o) /\ ~GaveUp(o)
       /\ o.state \in Settled => u.state \notin {"STARTING", "RUNNING"}
  BY <1>1, <1>2, <1>4, <1>8 DEF Holding, GaveUp, Settled, Ended, TasksFit, OutputFits, IsTerminal
<1>11. RowFits(u) BY <1>8, <1>9, <1>1, <1>2, <1>4 DEF RowFits, TasksFit, OutputFits, IsTerminal, Ended
<1>12. /\ DOMAIN term' = Terminals
       /\ \A q \in Terminals : term'[q] = IF q = t THEN u ELSE term[q]
       /\ \A q \in Terminals : RowFits(term'[q])
       /\ NotRevived BY <1>1, <1>6, <1>10, <1>11, OneRow
<1>13. Reserve(t) /\ UNCHANGED others BY DEF StartReserve, rest
<1>14. CountsFit' BY <1>13, CountMore, <1>1, <1>10, <1>12, PlaceTaken DEF Reserve
<1>15. RegistryFits' BY SessionsMove, <1>1, <1>10, <1>12, OthersStay, <1>13 DEF TerminalInv, RegistryFits, Reserve
<1> QED BY <1>12, <1>14, <1>15 DEF TerminalInv

LEMMA StartSpawnFailsKeeps ==
  ASSUME TerminalInv, NEW t \in Terminals, StartSpawnFails(t)
  PROVE  TerminalInv' /\ NotRevived
<1>1. PICK o \in TermRow, m \in MemRow :
        /\ o = term[t] /\ m = o.mem
        /\ TasksFit(m) /\ OutputFits(o) /\ \A i \in Inputs : InputFits(o, i) BY TheRow
<1>2. m.starter = "spawn" BY <1>1 DEF StartSpawnFails, Starter
<1>3. PICK n : n = [m EXCEPT !.starter = "cancel"] OBVIOUS
<1>4. /\ n \in MemRow /\ n.life = m.life /\ n.starter = "cancel" /\ n.monitor = m.monitor
      /\ n.drain = m.drain /\ n.final = m.final /\ n.clean = m.clean /\ n.writer = m.writer BY <1>3 DEF MemRow
<1>5. PICK u : u = [o EXCEPT !.mem.starter = "cancel"] OBVIOUS
<1>6. term' = [term EXCEPT ![t] = u] BY <1>1, <1>5 DEF StartSpawnFails, TermRow, MemRow, TerminalInv
<1>7. u.mem = n BY <1>1, <1>3, <1>5 DEF TermRow, MemRow
<1>8. /\ u \in TermRow /\ u.mem = n /\ u.state = o.state /\ u.complete = o.complete
      /\ u.end = o.end /\ u.produced = o.produced /\ u.child = o.child /\ u.input = o.input /\ u.written = o.written
  BY <1>4, <1>5, <1>7 DEF TermRow, LifeStates, Ended
<1>9. \A i \in Inputs : InputFits(u, i) BY <1>1, <1>2, <1>4, <1>8 DEF InputFits
<1>10. RowFits(u) /\ OnlyTerm
  BY <1>8, <1>9, <1>1, <1>2, <1>4 DEF RowFits, OnlyTerm, StartSpawnFails, TasksFit, OutputFits, IsTerminal, Ended
<1> QED
  BY <1>1, <1>6, <1>10, RowMoves, <1>2, <1>4, <1>8 DEF Holding, GaveUp, Settled, Ended, TasksFit, OutputFits,
    IsTerminal

LEMMA StartCancelledKeeps ==
  ASSUME TerminalInv, NEW t \in Terminals, StartCancelled(t)
  PROVE  TerminalInv' /\ NotRevived
<1>1. PICK o \in TermRow, m \in MemRow :
        /\ o = term[t] /\ m = o.mem
        /\ TasksFit(m) /\ OutputFits(o) /\ \A i \in Inputs : InputFits(o, i) BY TheRow
<1>2. m.starter = "cancel" BY <1>1 DEF StartCancelled, Starter
<1>3. PICK n : n = IF HeldByCleaner(m) THEN [m EXCEPT !.starter = "none"] ELSE NoSession OBVIOUS
<1>4. /\ n \in MemRow /\ n.life \in {m.life, "none"} /\ n.starter = "none" /\ n.monitor = "none"
      /\ n.drain = "none" /\ n.clean["start"] = "idle"
      /\ \A i \in Inputs : n.writer[i] \in {m.writer[i], "idle"}
  <2>1. CASE HeldByCleaner(m) BY <1>1, <1>2, <1>3, <2>1 DEF MemRow, TasksFit
  <2>2. CASE ~HeldByCleaner(m)
    <3>1. n = NoSession BY <1>3, <2>2
    <3> QED BY <3>1 DEF NoSession, MemRow, LifeStates, CleanStates, Cleaners
  <2> QED BY <2>1, <2>2
<1>5. PICK u : u = [o EXCEPT !.state = "TERMINATED", !.complete = FALSE, !.mem = n] OBVIOUS
<1>6. /\ u \in TermRow /\ u.mem = n /\ u.state = "TERMINATED" /\ u.complete = FALSE
      /\ u.end = o.end /\ u.produced = o.produced /\ u.child = o.child /\ u.input = o.input /\ u.written = o.written
  BY <1>4, <1>5 DEF TermRow, LifeStates, Ended
<1>7. \A i \in Inputs : InputFits(u, i)
  <2> TAKE i \in Inputs
  <2>1. InputFits(o, i) BY <1>1
  <2>2. u.mem.writer[i] = o.mem.writer[i] \/ u.mem.writer[i] = "idle" BY <1>1, <1>4, <1>6
  <2> QED BY <1>6, <2>1, <2>2 DEF InputFits
<1>8. /\ ~Holding(u) /\ Holding(o) /\ ~GaveUp(o)
      /\ o.state \in Settled => u.state \notin {"STARTING", "RUNNING"}
  BY <1>1, <1>2, <1>4, <1>6 DEF Holding, GaveUp, Settled, Ended, TasksFit, OutputFits, IsTerminal
<1>9. RowFits(u)
  <2>1. ~IsTerminal(m.life) BY <1>1, <1>2 DEF TasksFit
  <2>2. TasksFit(n) BY <1>4, <2>1 DEF TasksFit, IsTerminal, Ended
  <2>3. OutputFits(u) BY <1>1, <1>2, <1>4, <1>6 DEF OutputFits, TasksFit
  <2> QED BY <1>6, <1>7, <2>2, <2>3 DEF RowFits
<1>10. /\ DOMAIN term' = Terminals
       /\ \A q \in Terminals : term'[q] = IF q = t THEN u ELSE term[q]
       /\ \A q \in Terminals : RowFits(term'[q])
       /\ NotRevived
  <2>1. term' = [term EXCEPT ![t] = u]
    <3>1. term' = [term EXCEPT ![t].state = "TERMINATED", ![t].complete = FALSE, ![t].mem = n]
      BY <1>1, <1>3 DEF StartCancelled, TermRow, TerminalInv
    <3> QED BY <1>1, <1>5, <3>1 DEF TermRow, TerminalInv
  <2> QED BY <1>1, <1>8, <1>9, <2>1, OneRow
<1>11. /\ Release(Workspace[t]) /\ UNCHANGED others
       /\ completed' = completed /\ sessions' = sessions \ {t}
  BY <1>1, <1>8 DEF StartCancelled, CancelReservation, rest, TerminalInv, RegistryFits
<1>12. CountsFit' BY <1>11, CountLess, <1>1, <1>8, <1>10, PlaceGiven
<1>13. RegistryFits'
  <2>1. ~Holding(term'[t]) BY <1>8, <1>10 DEF Holding
  <2> QED BY <1>11, <2>1, SessionsMove, <1>1, <1>8, <1>10, OthersStay DEF TerminalInv, RegistryFits
<1> QED BY <1>10, <1>12, <1>13 DEF TerminalInv

LEMMA StartCleanedKeeps ==
  ASSUME TerminalInv, NEW t \in Terminals, StartCleaned(t)
  PROVE  TerminalInv' /\ NotRevived
<1>1. PICK o \in TermRow, m \in MemRow :
        /\ o = term[t] /\ m = o.mem
        /\ TasksFit(m) /\ OutputFits(o) /\ \A i \in Inputs : InputFits(o, i) BY TheRow
<1>2. /\ m.starter = "cleaning"
      /\ m.clean["start"] = "true" => ~Holding(o)
  BY <1>1 DEF StartCleaned, Starter, Mem, TasksFit, IsTerminal, Holding
<1>3. PICK c : c = [m.clean EXCEPT !["start"] = "idle"] OBVIOUS
<1>4. /\ c \in [Cleaners -> CleanStates]
      /\ c["start"] = "idle" BY <1>3 DEF MemRow, CleanStates, Cleaners
<1>5. PICK n : n = [m EXCEPT !.starter = "none", !.clean = c] OBVIOUS
<1>6. /\ n \in MemRow /\ n.life = m.life /\ n.starter = "none" /\ n.monitor = m.monitor
      /\ n.drain = m.drain /\ n.final = m.final /\ n.clean = c /\ n.writer = m.writer BY <1>4, <1>5 DEF MemRow
<1>7. PICK u : u = [o EXCEPT !.state = "TERMINATED", !.complete = FALSE, !.mem.starter = "none", !.mem.clean = c]
  OBVIOUS
<1>8. u.mem = n BY <1>1, <1>5, <1>7 DEF TermRow, MemRow
<1>9. /\ u \in TermRow /\ u.mem = n /\ u.state = "TERMINATED" /\ u.complete = FALSE
      /\ u.end = o.end /\ u.produced = o.produced /\ u.child = o.child /\ u.input = o.input /\ u.written = o.written
  BY <1>4, <1>6, <1>7, <1>8 DEF TermRow, LifeStates, Ended
<1>10. \A i \in Inputs : InputFits(u, i) BY <1>1, <1>2, <1>4, <1>6, <1>9 DEF InputFits
<1>11. /\ Holding(u) <=> Holding(o)
       /\ GaveUp(o) => GaveUp(u)
       /\ o.state \in Settled => u.state \notin {"STARTING", "RUNNING"}
  BY <1>1, <1>2, <1>4, <1>6, <1>9 DEF Holding, GaveUp, Settled, Ended, TasksFit, OutputFits, IsTerminal
<1>12. RowFits(u) BY <1>9, <1>10, <1>1, <1>2, <1>4, <1>6 DEF RowFits, TasksFit, OutputFits, IsTerminal, Ended
<1>13. /\ DOMAIN term' = Terminals
       /\ \A q \in Terminals : term'[q] = IF q = t THEN u ELSE term[q]
       /\ \A q \in Terminals : RowFits(term'[q])
       /\ NotRevived
  BY <1>1, <1>11, <1>12, OneRow, <1>2, <1>3, <1>4, <1>7 DEF StartCleaned, TermRow, MemRow, TerminalInv
<1>14. /\ \A q \in Terminals : q # t /\ Holding(term'[q]) => q \in sessions
       /\ \A j \in 1 .. Len(completed) : completed[j] # "other" => GaveUp(term'[completed[j]])
  BY <1>1, <1>11, <1>13, OthersStay
<1>15. CountsFit'
  BY <1>1, <1>11, <1>13, PlaceKept DEF TerminalInv, CountsFit, StartCleaned, RemoveCompleted, registry, rest
<1>16. CASE m.clean["start"] = "true"
  <2>1. PICK list : list = WithoutSession(completed, t) OBVIOUS
  <2>2. completed \in Seq(Terminals \cup {"other"}) /\ Len(completed) <= MaxRetained BY DEF TerminalInv, RegistryFits
  <2>3. /\ list \in Seq(Terminals \cup {"other"}) /\ Len(list) <= Len(completed)
        /\ \A j \in 1 .. Len(list) : \E k \in 1 .. Len(completed) : list[j] = completed[k] BY <2>1, <2>2, WithoutKeeps
  <2>4. \A j \in 1 .. Len(list) : list[j] # "other" => GaveUp(term'[list[j]]) BY <1>14, <2>3
  <2>5. completed' = list /\ sessions' = sessions \ {t} BY <2>1, <1>1, <1>16 DEF RemoveCompleted, StartCleaned, Mem
  <2>6. ~Holding(term'[t]) BY <1>2, <1>16, <1>11, <1>13 DEF Holding
  <2>7. RegistryFits'
    BY <1>14, <2>3, <2>4, <2>5, <2>6, SessionsMove, <2>2, TerminalAssumption DEF TerminalInv, RegistryFits
  <2> QED BY <1>13, <1>15, <2>7 DEF TerminalInv
<1>17. CASE m.clean["start"] # "true"
  <2>1. Holding(term'[t]) => t \in sessions BY <1>1, <1>11, <1>13 DEF Holding, TerminalInv, RegistryFits
  <2> QED
    BY <1>13, <1>15, <1>14, <2>1, SessionsMove, <1>1, <1>17 DEF TerminalInv, RegistryFits, registry, StartCleaned, Mem
<1> QED BY <1>16, <1>17

LEMMA MonitorCompleteKeeps ==
  ASSUME TerminalInv, NEW t \in Terminals, MonitorComplete(t)
  PROVE  TerminalInv' /\ NotRevived
<1>1. PICK o \in TermRow, m \in MemRow :
        /\ o = term[t] /\ m = o.mem
        /\ TasksFit(m) /\ OutputFits(o) /\ \A i \in Inputs : InputFits(o, i) BY TheRow
<1>2. m.monitor = "registry" BY <1>1 DEF MonitorComplete, Mem
<1>3. PICK n : n = [m EXCEPT !.monitor = "transition"] OBVIOUS
<1>4. /\ n \in MemRow /\ n.life = m.life /\ n.starter = m.starter /\ n.monitor = "transition"
      /\ n.drain = m.drain /\ n.final = m.final /\ n.clean = m.clean /\ n.writer = m.writer BY <1>3 DEF MemRow
<1>5. PICK u : u = [o EXCEPT !.mem.monitor = "transition"] OBVIOUS
<1>6. u.mem = n BY <1>1, <1>3, <1>5 DEF TermRow, MemRow
<1>7. /\ u \in TermRow /\ u.mem = n /\ u.state = o.state /\ u.complete = o.complete
      /\ u.end = o.end /\ u.produced = o.produced /\ u.child = o.child /\ u.input = o.input /\ u.written = o.written
  BY <1>4, <1>5, <1>6 DEF TermRow, LifeStates, Ended
<1>8. \A i \in Inputs : InputFits(u, i) BY <1>1, <1>2, <1>4, <1>7 DEF InputFits
<1>9. /\ ~Holding(u) /\ Holding(o) /\ GaveUp(u)
      /\ o.state \in Settled => u.state \notin {"STARTING", "RUNNING"}
  BY <1>1, <1>2, <1>4, <1>7 DEF Holding, GaveUp, Settled, Ended, TasksFit, OutputFits, IsTerminal
<1>10. RowFits(u) BY <1>7, <1>8, <1>1, <1>2, <1>4 DEF RowFits, TasksFit, OutputFits, IsTerminal, Ended
<1>11. /\ DOMAIN term' = Terminals
       /\ \A q \in Terminals : term'[q] = IF q = t THEN u ELSE term[q]
       /\ \A q \in Terminals : RowFits(term'[q])
       /\ NotRevived BY <1>1, <1>9, <1>10, OneRow, <1>2, <1>5 DEF MonitorComplete, TermRow, MemRow, TerminalInv
<1>12. Release(Workspace[t]) /\ Retain(t) /\ UNCHANGED others
  BY <1>1, <1>9 DEF MonitorComplete, RegistryComplete, rest, TerminalInv, RegistryFits
<1>13. CountsFit' BY <1>12, CountLess, <1>1, <1>9, <1>11, PlaceGiven
<1>14. RegistryFits'
  <2>1. \A q \in Terminals : /\ Holding(term'[q]) => Holding(term[q])
                             /\ GaveUp(term[q]) => GaveUp(term'[q])
    <3> TAKE q \in Terminals
    <3>1. CASE q = t BY <1>9, <1>1, <1>11, <3>1 DEF Holding, GaveUp
    <3>2. CASE q # t BY <1>11, <3>2 DEF Holding, GaveUp
    <3> QED BY <3>1, <3>2
  <2>2. GaveUp(term'[t]) BY <1>9, <1>11 DEF GaveUp
  <2> QED BY <1>11, <1>12, <2>1, <2>2, RetainKeeps
<1> QED BY <1>11, <1>13, <1>14 DEF TerminalInv

-----------------------------------------------------------------------------
(* The other terminals, and a restart of the daemon *)

LEMMA RowsStay ==
  ASSUME TerminalInv, UNCHANGED term
  PROVE  /\ DOMAIN term' = Terminals /\ \A q \in Terminals : RowFits(term'[q])
         /\ NotRevived
         /\ \A v : Occupied(v)' = others'[v] + Cardinality(Holders(v))
  BY PrimedPlaces DEF TerminalInv, NotRevived, Settled, Ended, Holders

LEMMA OtherStartsKeeps ==
  ASSUME TerminalInv, NEW w \in Workspaces, OtherStarts(w) PROVE TerminalInv' /\ NotRevived
<1>1. UNCHANGED <<term, sessions, completed>> /\ HasRoom(w) /\ Occupy(w) BY DEF OtherStarts
<1>2. others \in [Workspaces -> Nat] BY DEF TerminalInv, CountsFit
<1>3. /\ others' \in [Workspaces -> Nat]
      /\ \A v \in Workspaces : others'[v] = IF v = w THEN others[v] + 1 ELSE others[v] BY <1>2 DEF OtherStarts
<1>4. \A v \in Workspaces : Occupied(v)' = IF v = w THEN Occupied(v) + 1 ELSE Occupied(v)
  <2> TAKE v \in Workspaces
  <2>1. others[v] \in Nat BY <1>2
  <2> QED BY <1>3, <2>1, <1>1, RowsStay, HoldersCounted
<1> QED BY <1>1, RowsStay, <1>3, <1>4, CountMore DEF TerminalInv, RegistryFits

LEMMA OtherEndsKeeps ==
  ASSUME TerminalInv, NEW w \in Workspaces, OtherEnds(w) PROVE TerminalInv' /\ NotRevived
<1>1. UNCHANGED term /\ Release(w) /\ Retain("other") /\ others[w] > 0 BY DEF OtherEnds
<1>2. others \in [Workspaces -> Nat] BY DEF TerminalInv, CountsFit
<1>3. /\ others' \in [Workspaces -> Nat]
      /\ \A v \in Workspaces : others'[v] = IF v = w THEN others[v] - 1 ELSE others[v] BY <1>2, <1>1 DEF OtherEnds
<1>4. \A v \in Workspaces : /\ Occupied(v)' \in Nat
                            /\ Occupied(v) = IF v = w THEN Occupied(v)' + 1 ELSE Occupied(v)'
  <2> TAKE v \in Workspaces
  <2>1. others[v] \in Nat /\ others'[v] \in Nat BY <1>2, <1>3
  <2>2. others'[v] = IF v = w THEN others[v] - 1 ELSE others[v] BY <1>3
  <2> QED BY <2>1, <2>2, <1>1, RowsStay, HoldersCounted
<1>5. /\ DOMAIN term' = Terminals /\ \A q \in Terminals : RowFits(term'[q])
      /\ NotRevived BY <1>1, RowsStay
<1>6. \A q \in Terminals : /\ Holding(term'[q]) => Holding(term[q])
                           /\ GaveUp(term[q]) => GaveUp(term'[q])
  <2> TAKE q \in Terminals
  <2> QED BY <1>1 DEF Holding, GaveUp
<1> QED BY <1>5, <1>1, <1>6, RetainKeeps, <1>3, <1>4, CountLess DEF TerminalInv

\* What a restart makes of a row.
Restarted(r) ==
    [r EXCEPT !.state = IF @ \in Ended \cup {"none", "LOST"} THEN @ ELSE "LOST",
              !.complete = @ /\ r.state \in Ended \cup {"none"},
              !.input = [i \in Inputs |-> IF @[i] = "PENDING" THEN "UNKNOWN" ELSE @[i]],
              !.child = IF @ = "running" THEN "gone" ELSE @,
              !.mem = NoSession]

LEMMA RestartedFits ==
  ASSUME NEW o, RowFits(o)
  PROVE  /\ RowFits(Restarted(o)) /\ ~Holding(Restarted(o))
         /\ o.state \in Settled => Restarted(o).state \notin {"STARTING", "RUNNING"}
<1>1. /\ o \in TermRow /\ OutputFits(o) /\ \A i \in Inputs : InputFits(o, i) BY DEF RowFits
<1>2. PICK s \in LifeStates \cup {"LOST"} :
        /\ s = IF o.state \in Ended \cup {"none", "LOST"} THEN o.state ELSE "LOST"
        /\ s \in Ended => o.state \in Ended
        /\ s \notin {"STARTING", "RUNNING"} BY <1>1 DEF TermRow, LifeStates, Ended
<1>3. PICK k \in BOOLEAN : k = (o.complete /\ o.state \in Ended \cup {"none"}) OBVIOUS
<1>4. PICK p : p = [i \in Inputs |-> IF o.input[i] = "PENDING" THEN "UNKNOWN" ELSE o.input[i]] OBVIOUS
<1>5. /\ p \in [Inputs -> {"none", "PENDING", "APPLIED", "UNKNOWN"}]
      /\ \A i \in Inputs : p[i] = IF o.input[i] = "PENDING" THEN "UNKNOWN" ELSE o.input[i] BY <1>4, <1>1 DEF TermRow
<1>6. PICK c \in {"none", "gone"} : c = IF o.child = "running" THEN "gone" ELSE o.child BY <1>1 DEF TermRow
<1>7. PICK n : n = NoSession OBVIOUS
<1>8. /\ n \in MemRow /\ n.life = "none" /\ n.starter = "none" /\ n.monitor = "none"
      /\ n.drain = "none" /\ n.clean["start"] = "idle"
      /\ \A i \in Inputs : n.writer[i] = "idle" BY <1>7 DEF NoSession, MemRow, LifeStates, CleanStates, Cleaners
<1>9. PICK u : u = [o EXCEPT !.state = s, !.complete = k, !.input = p, !.child = c, !.mem = n] OBVIOUS
<1>10. /\ u \in TermRow /\ u.mem = n /\ u.state = s /\ u.complete = k /\ u.end = o.end
       /\ u.produced = o.produced /\ u.child = c /\ u.input = p /\ u.written = o.written
  BY <1>1, <1>2, <1>3, <1>5, <1>6, <1>8, <1>9 DEF TermRow
<1>11. \A i \in Inputs : InputFits(u, i) BY <1>1, <1>5, <1>8, <1>10 DEF InputFits
<1>12. RowFits(u) /\ ~Holding(u) /\ u.state \notin {"STARTING", "RUNNING"}
  BY <1>2, <1>8, <1>10, <1>11, <1>1, <1>3, <1>6 DEF RowFits, Holding, TasksFit, IsTerminal, Ended, OutputFits
<1> QED BY <1>12, <1>1, <1>2, <1>3, <1>4, <1>6, <1>7, <1>9 DEF Restarted, TermRow

\* After a restart nothing has a place and nothing is counted.
LEMMA NothingCounted ==
  ASSUME TerminalInv, \A q \in Terminals : ~Holding(term'[q]), sessions' = {}, completed' = << >>,
         active' = 0, activeIn' = [w \in Workspaces |-> 0], others' = [w \in Workspaces |-> 0]
  PROVE  RegistryFits' /\ CountsFit'
<1>1. RegistryFits' BY TerminalAssumption DEF RegistryFits
<1>2. \A w \in Workspaces : Occupied(w)' = 0
  <2> TAKE w \in Workspaces
  <2>1. Occupied(w)' = 0 + Cardinality({}) BY PrimedPlaces
  <2> QED BY <2>1, FS_EmptySet
<1> QED BY <1>1, <1>2, LimitsAssumption, CountsAreNumbers, SumOfNothing DEF CountsFit

LEMMA RestartDaemonKeeps ==
  ASSUME TerminalInv, RestartDaemon PROVE TerminalInv' /\ NotRevived
<1>1. term' = [t \in Terminals |-> Restarted(term[t])] BY DEF RestartDaemon, Restarted
<1>2. \A t \in Terminals : /\ RowFits(term'[t]) /\ ~Holding(term'[t])
                           /\ term[t].state \in Settled => term'[t].state \notin {"STARTING", "RUNNING"}
  BY RestartedFits, <1>1 DEF TerminalInv
<1> QED BY <1>1, <1>2, NothingCounted DEF TerminalInv, NotRevived, RestartDaemon

-----------------------------------------------------------------------------
(* The steps together *)

LEMMA StarterKeeps ==
  ASSUME TerminalInv, NEW t \in Terminals, StarterStep(t) PROVE TerminalInv' /\ NotRevived
<1>1. CASE StartReserve(t) BY <1>1, StartRoomKeeps, StartNoRoomKeeps
<1>2. CASE StartResize(t)
  <2>1. Starter(t, "resize") /\ OnlyTerm BY <1>2 DEF StartResize
  <2>2. CASE \E v \in {"running", "failed"} :
               term' = [term EXCEPT ![t].mem.life = Transition(@, "RUNNING"), ![t].mem.starter = v]
    BY <2>1, <2>2, StartResizedKeeps
  <2>3. CASE \E v \in {"running", "failed"} : term' = [term EXCEPT ![t].mem.starter = v]
    BY <2>1, <2>3, StartNotResizedKeeps
  <2> QED BY <1>2, <2>2, <2>3 DEF StartResize
<1> QED
  BY <1>1, <1>2, StartSpawnKeeps, StartSpawnFailsKeeps, StartCancelledKeeps, StartReadyKeeps, StartRunningKeeps,
    StartFailedKeeps, StartCleanedKeeps DEF StarterStep

LEMMA TaskKeeps ==
  ASSUME TerminalInv, NEW t \in Terminals, TaskStep(t) PROVE TerminalInv' /\ NotRevived
<1>1. CASE Append1(t) BY <1>1, AppendTakesKeeps, AppendRefusesKeeps
<1> QED
  BY <1>1, DrainEndKeeps, DrainFailsKeeps, DrainRecordKeeps, MonitorWaitKeeps, MonitorRecordKeeps,
    MonitorCompleteKeeps, MonitorTransitionKeeps DEF TaskStep

LEMMA CleanKeeps ==
  ASSUME TerminalInv, NEW t \in Terminals, NEW k \in Cleaners, CleanStep(t, k) \/ CleanDeadline(t, k)
  PROVE  TerminalInv' /\ NotRevived
<1>1. CASE CleanBegin(t, k) BY <1>1, CleanBeginEndedKeeps, CleanBeginMarksKeeps
<1> QED BY <1>1, CleanMarkKeeps, CleanSeesEndKeeps, CleanLateKeeps, CleanDeadlineKeeps DEF CleanStep

LEMMA WriterKeeps ==
  ASSUME TerminalInv, NEW t \in Terminals, NEW i \in Inputs,
         Input(t, i) \/ InputWrite(t, i) \/ InputDropped(t, i) \/ InputComplete(t, i)
  PROVE  TerminalInv' /\ NotRevived
<1>1. CASE InputWrite(t, i)
  <2>1. Mem(t).writer[i] = "locked" /\ OnlyTerm BY <1>1 DEF InputWrite
  <2>2. CASE term' = [term EXCEPT ![t].input[i] = "UNKNOWN", ![t].mem.writer[i] = "idle"]
    BY <2>1, <2>2, InputLateKeeps
  <2>3. CASE term' = [term EXCEPT ![t].written[i] = @ + 1, ![t].mem.writer[i] = "wrote"]
    BY <2>1, <2>3, InputWrittenKeeps
  <2>4. CASE \E b \in {0, 1} :
               term' = [term EXCEPT ![t].written[i] = @ + b, ![t].input[i] = "UNKNOWN",
                                    ![t].mem.writer[i] = "idle"] BY <2>1, <2>4, InputHalfKeeps
  <2> QED BY <1>1, <2>2, <2>3, <2>4 DEF InputWrite
<1>2. CASE InputDropped(t, i)
  <2>1. PICK b \in {0, 1} :
          term' = [term EXCEPT ![t].written[i] = @ + b, ![t].mem.writer[i] = "idle"] BY <1>2 DEF InputDropped
  <2> QED BY <2>1, InputLeftKeeps, <1>2 DEF InputDropped
<1>3. CASE InputComplete(t, i)
  <2>1. PICK s \in {"APPLIED", "UNKNOWN"} :
          term' = [term EXCEPT ![t].input[i] = s, ![t].mem.writer[i] = "idle"] BY <1>3 DEF InputComplete
  <2> QED BY <2>1, InputEndsKeeps, <1>3 DEF InputComplete
<1> QED BY <1>1, <1>2, <1>3, InputKeeps

LEMMA TerminalInitially ==
  ASSUME TerminalInit PROVE TerminalInv
<1>1. PICK o : o = Absent OBVIOUS
<1>2. /\ o.state = "none" /\ o.complete = TRUE /\ o.end = 0 /\ o.produced = 0 /\ o.child = "none"
      /\ o.tries = 0 /\ o.mem = NoSession /\ o.input = [i \in Inputs |-> "none"]
      /\ o.written = [i \in Inputs |-> 0] BY <1>1 DEF Absent
<1>3. PICK n : n = NoSession OBVIOUS
<1>4. /\ n \in MemRow /\ n.life = "none" /\ n.starter = "none" /\ n.monitor = "none"
      /\ n.drain = "none" /\ n.clean["start"] = "idle"
      /\ \A i \in Inputs : n.writer[i] = "idle" BY <1>3 DEF NoSession, MemRow, LifeStates, CleanStates, Cleaners
<1>5. o \in TermRow BY <1>1, <1>3, <1>4 DEF Absent, TermRow, LifeStates
<1>6. \A i \in Inputs : InputFits(o, i) BY <1>2, <1>3, <1>4 DEF InputFits
<1>7. RowFits(o) /\ ~Holding(o)
  BY <1>2, <1>3, <1>4, <1>5, <1>6, TerminalAssumption DEF RowFits, Holding, TasksFit, IsTerminal, Ended, OutputFits
<1>8. DOMAIN term = Terminals /\ \A t \in Terminals : term[t] = o BY <1>1 DEF TerminalInit
<1>9. IsFiniteSet(Workspaces)
  <2>1. [t \in Terminals |-> Workspace[t]] \in Surjection(Terminals, Workspaces) BY DEF Workspaces, Surjection
  <2> QED BY <2>1, TerminalAssumption, FS_Surjection
<1>10. RegistryFits BY TerminalAssumption, <1>7, <1>8 DEF RegistryFits, TerminalInit
<1>11. \A w \in Workspaces : Occupied(w) = 0
  <2> TAKE w \in Workspaces
  <2>1. Occupied(w) = 0 + Cardinality({}) BY HoldersCounted, <1>7, <1>8 DEF TerminalInit, Holders
  <2> QED BY <2>1, FS_EmptySet
<1> QED BY <1>7, <1>8, <1>10, <1>11, LimitsAssumption, <1>9, SumOfNothing DEF TerminalInv, CountsFit, TerminalInit

LEMMA TerminalStep ==
  ASSUME TerminalInv, [TerminalNext]_tvars PROVE TerminalInv' /\ NotRevived
<1>1. CASE UNCHANGED tvars
  BY <1>1 DEF tvars, TerminalInv, RowFits, RegistryFits, CountsFit, Occupied, Occupies, Starter, Mem, NotRevived,
    Settled, Ended
<1>2. CASE \E t \in Terminals :
             \/ Start(t) \/ StarterStep(t) \/ StartDropped(t) \/ Produce(t) \/ Exit(t)
             \/ DrainError(t)
             \/ TaskStep(t) \/ Terminate(t) \/ TerminateRecord(t) \/ TimeoutFires(t)
             \/ CleanupAttempt(t)
  BY <1>2, StartKeeps, StarterKeeps, StartDroppedKeeps, ProduceKeeps, ExitKeeps, DrainErrorKeeps, TaskKeeps,
    TerminateKeeps, TerminateRecordKeeps, TimeoutFiresKeeps, CleanupAttemptKeeps
<1>3. CASE \E t \in Terminals, k \in Cleaners : CleanStep(t, k) \/ CleanDeadline(t, k) BY <1>3, CleanKeeps
<1>4. CASE \E t \in Terminals, i \in Inputs :
             Input(t, i) \/ InputWrite(t, i) \/ InputDropped(t, i) \/ InputComplete(t, i) BY <1>4, WriterKeeps
<1>5. CASE \E w \in Workspaces : OtherStarts(w) \/ OtherEnds(w) BY <1>5, OtherStartsKeeps, OtherEndsKeeps
<1>6. CASE RestartDaemon BY <1>6, RestartDaemonKeeps
<1> QED BY <1>1, <1>2, <1>3, <1>4, <1>5, <1>6 DEF TerminalNext

-----------------------------------------------------------------------------
(* What follows *)

LEMMA TerminalFollows ==
  ASSUME TerminalInv PROVE InputOnce /\ CompleteMeansAll /\ RegistryExact /\ TerminalTypeOK
<1>1. RegistryExact BY DEF TerminalInv, CountsFit, RegistryExact, RowFits, OutputFits, Occupies, Mem
<1>2. TerminalTypeOK
  <2>1. \A t \in Terminals :
          /\ term[t].state \in {"none", "STARTING", "RUNNING", "TERMINATING",
                               "UNRECOVERABLE"} \cup Settled
          /\ Life(t) \in {"none", "STARTING", "RUNNING", "TERMINATING",
                          "UNRECOVERABLE"} \cup Ended
          /\ term[t].end <= term[t].produced /\ term[t].end <= MaxOutputBytes
          /\ term[t].child \in {"none", "running", "gone"}
          /\ Mem(t).monitor \in {"none", "wait", "drain", "registry", "transition", "done"}
    <3> TAKE t \in Terminals
    <3>1. PICK o \in TermRow, m \in MemRow :
            /\ o = term[t] /\ m = o.mem
            /\ TasksFit(m) /\ OutputFits(o) /\ \A i \in Inputs : InputFits(o, i) BY TheRow
    <3> QED BY <3>1 DEF TermRow, MemRow, LifeStates, OutputFits, Life, Mem, Settled
  <2> QED BY <2>1, CountsAreNumbers DEF TerminalInv, RegistryFits, CountsFit, TerminalTypeOK
<1> QED BY <1>1, <1>2 DEF TerminalInv, RowFits, OutputFits, CompleteMeansAll, InputFits, InputOnce

\* The rows, the registry and what is recorded of a terminal agree at every step
\* of its tasks (PodmanRuntime::start, terminate, cleanup_until, Registry,
\* reconcile_restart).
THEOREM TerminalStays == TerminalSpec => []TerminalInv
<1>1. TerminalInit => TerminalInv BY TerminalInitially
<1>2. TerminalInv /\ [TerminalNext]_tvars => TerminalInv' BY TerminalStep
<1> QED BY <1>1, <1>2, PTL DEF TerminalSpec

\* However starts, inputs, exits, terminations and restarts interleave, an input
\* reaches the process at most once, a complete output holds every byte that was
\* written, and the registry counts the sessions that were reserved and have not
\* ended (begin_input, drain_pty_output, Registry::reserve, Registry::complete).
THEOREM TerminalRecords == TerminalSpec => [](InputOnce /\ CompleteMeansAll /\ RegistryExact)
<1>1. TerminalInv => InputOnce /\ CompleteMeansAll /\ RegistryExact BY TerminalFollows
<1> QED BY <1>1, TerminalStays, PTL

\* The registry retains no more than MaxRetained completed sessions, and what a
\* terminal keeps of its output stays within the limit (Registry::complete,
\* append_output).
THEOREM TerminalShapes == TerminalSpec => []TerminalTypeOK
<1>1. TerminalInv => TerminalTypeOK BY TerminalFollows
<1> QED BY <1>1, TerminalStays, PTL

\* No late starter, drain task, cleaner or monitor presents a terminal that has
\* ended or was lost as starting or running again (set_running, transition).
THEOREM EndedStaysEnded == TerminalSpec => NeverRevived
<1>1. TerminalInv /\ [TerminalNext]_tvars =>
        [\A t \in Terminals : term[t].state \in Settled
                                => term'[t].state \notin {"STARTING", "RUNNING"}]_tvars BY TerminalStep DEF NotRevived
<1> QED BY <1>1, TerminalStays, PTL DEF TerminalSpec, NeverRevived

-----------------------------------------------------------------------------
(* Output of a terminal *)

OutRow  == [start : Nat, end : Nat, ack : Nat, state : {"running", "exited"}, complete : BOOLEAN]
ReadRow == [pc : {"idle", "found", "registered", "waiting"}, after : Nat, max : Nat,
            woken : BOOLEAN]
AnswerRow == [after : Nat, start : Nat, next : Nat, bytes : SUBSET Nat]

OutputTypes ==
    /\ row \in OutRow /\ chunks \subseteq Nat \X Nat
    /\ drain \in {"read", "notify", "last", "record", "final", "done"}
    /\ reader \in [OutReaders -> ReadRow]
    /\ answered \in [OutReaders -> AnswerRow]

\* What is kept is what nobody has acknowledged, in chunks that end at the
\* cursor of the row at the latest.
ChunkFits(c) == c[1] < c[2] /\ c[2] <= row.end /\ c[2] - c[1] <= ChunkBytes
KeptInv ==
    /\ row.start = row.ack /\ row.start <= row.end /\ row.end <= OutputLimit
    /\ \A c \in chunks : ChunkFits(c)
    /\ (row.start + 1)..row.end \subseteq Held

AnswerTrue(a) ==
    /\ a.bytes = (a.start + 1)..a.next
    /\ a.start # a.after => a.start <= row.ack
Unread(m) == m.after < row.end /\ row.start < row.end /\ m.max > 0
WokenSoon(m) ==
    m.pc = "waiting" /\ (Unread(m) \/ row.state # "running")
      => m.woken \/ drain \in {"notify", "last", "final"}
ReadersInv ==
    \A r \in OutReaders : /\ reader[r].after <= row.end
                          /\ AnswerTrue(answered[r])
                          /\ WokenSoon(reader[r])

OutputInv == OutputTypes /\ KeptInv /\ ReadersInv

\* The first max bytes of a stretch of them are a stretch.
LEMMA FirstBytes ==
  ASSUME NEW st \in Nat, NEW en \in Nat, st <= en, NEW max \in Nat, NEW m \in Nat,
         m = IF max < en - st THEN max ELSE en - st
  PROVE  LET later == (st + 1)..en
             bytes == {b \in later : Cardinality({a \in later : a <= b}) <= max}
         IN bytes = (st + 1)..(st + m) /\ Cardinality(bytes) = m
<1> DEFINE later == (st + 1)..en
           bytes == {b \in later : Cardinality({a \in later : a <= b}) <= max}
<1>1. ASSUME NEW b \in later
      PROVE  Cardinality({a \in later : a <= b}) = b - st
  <2>1. b \in Nat /\ st + 1 <= b /\ b <= en OBVIOUS
  <2>2. {a \in later : a <= b} = (st + 1)..b BY <2>1
  <2>3. Cardinality((st + 1)..b) = b - st BY <2>1, FS_Interval
  <2> QED BY <2>2, <2>3
<1>2. bytes = {b \in later : b - st <= max} BY <1>1
<1> HIDE DEF bytes
<1>3. bytes = (st + 1)..(st + m) BY <1>2
<1>4. Cardinality((st + 1)..(st + m)) = m
  <2>1. Cardinality((st + 1)..(st + m))
          = IF st + 1 > st + m THEN 0 ELSE (st + m) - (st + 1) + 1 BY FS_Interval
  <2> QED BY <2>1
<1> QED BY <1>3, <1>4 DEF bytes

\* read_output over what is kept: the bytes after the cursor, or after what
\* is gone, at most as many as were asked for.
LEMMA ReadIsStretch ==
  ASSUME OutputTypes, KeptInv, NEW after \in Nat, after <= row.end, NEW max \in Nat
  PROVE  \E st \in Nat, n \in Nat :
           /\ ReadOutput(after, max)
                = [after |-> after, start |-> st, next |-> n, bytes |-> (st + 1)..n]
           /\ st = (IF after > row.start THEN after ELSE row.start)
           /\ st <= n /\ n <= row.end
           /\ st # n <=> st < row.end /\ max > 0
<1>1. /\ row.start \in Nat /\ row.end \in Nat /\ row.start <= row.end BY DEF OutputTypes, OutRow, KeptInv
<1>2. PICK st \in Nat : st = IF after > row.start THEN after ELSE row.start BY <1>1
<1>3. st <= row.end /\ row.start <= st BY <1>1, <1>2
<1>4. {b \in Held : b > st} = (st + 1)..row.end
  <2>1. ASSUME NEW b \in Held, b > st
        PROVE  b \in (st + 1)..row.end
    <3>1. PICK c \in chunks : b \in (c[1] + 1)..c[2] BY DEF Held
    <3> QED BY <1>1, <2>1, <3>1 DEF OutputTypes, KeptInv, ChunkFits
  <2> QED BY <1>1, <2>1, <1>3 DEF KeptInv
<1>5. PICK m \in Nat : m = IF max < row.end - st THEN max ELSE row.end - st BY <1>1, <1>3
<1> DEFINE later == (st + 1)..row.end
           bytes == {b \in later : Cardinality({a \in later : a <= b}) <= max}
<1>6. bytes = (st + 1)..(st + m) /\ Cardinality(bytes) = m BY <1>1, <1>3, <1>5, FirstBytes
<1>7. ReadOutput(after, max)
        = [after |-> after, start |-> st, next |-> st + Cardinality(bytes), bytes |-> bytes]
  BY <1>2, <1>4 DEF ReadOutput
<1> HIDE DEF bytes
<1>8. /\ st + m \in Nat /\ st <= st + m /\ st + m <= row.end
      /\ st # st + m <=> st < row.end /\ max > 0 BY <1>1, <1>3, <1>5
<1>9. ReadOutput(after, max)
        = [after |-> after, start |-> st, next |-> st + m, bytes |-> (st + 1)..(st + m)] BY <1>6, <1>7
<1> QED BY <1>2, <1>8, <1>9

-----------------------------------------------------------------------------
(* append_output *)

\* The least multiple of the chunk size that reaches a byte.
LEMMA ChunkOf ==
  ASSUME NEW n \in Nat, NEW d \in Nat, 0 < d, d <= n
  PROVE  \E j \in 0..n : j * ChunkBytes < d /\ d <= j * ChunkBytes + ChunkBytes
<1>1. ChunkBytes \in Nat /\ ChunkBytes >= 1 BY OutputAssumption
<1>2. \A j \in Nat : /\ j * ChunkBytes \in Nat /\ j <= j * ChunkBytes
                     /\ (j + 1) * ChunkBytes = j * ChunkBytes + ChunkBytes BY <1>1
<1> DEFINE S == {j \in Nat : d <= j * ChunkBytes + ChunkBytes}
<1>3. n \in S BY <1>1, <1>2
<1>4. PICK j \in S : \A i \in S : j <= i BY <1>3, LeastNumber
<1>5. j \in 0..n BY <1>3, <1>4
<1>6. CASE j = 0 BY <1>4, <1>5, <1>6, <1>1
<1>7. CASE j # 0
  <2>1. j - 1 \in Nat /\ j - 1 < j /\ (j - 1) + 1 = j BY <1>5, <1>7
  <2>2. j * ChunkBytes < d BY <1>1, <1>2, <2>1, <1>4
  <2> QED BY <1>4, <1>5, <2>2
<1> QED BY <1>6, <1>7

\* The rows of a write hold its bytes, one after the other, and are no larger
\* than a row may be.
LEMMA ChunkedHolds ==
  ASSUME NEW from \in Nat, NEW n \in Nat
  PROVE  /\ \A c \in Chunked(from, n) :
               /\ c \in Nat \X Nat /\ c[1] < c[2] /\ c[2] <= from + n
               /\ c[2] - c[1] <= ChunkBytes
         /\ \A b \in (from + 1)..(from + n) :
               \E c \in Chunked(from, n) : b \in (c[1] + 1)..c[2]
<1>1. ChunkBytes \in Nat /\ ChunkBytes >= 1 BY OutputAssumption
<1>2. \A j \in Nat : j * ChunkBytes \in Nat BY <1>1
<1>3. \A a, b \in Nat : Min({a, b}) = IF a <= b THEN a ELSE b
  <2> TAKE a, b \in Nat
  <2> QED BY DEF Min
<1>4. ASSUME NEW c \in Chunked(from, n)
      PROVE  /\ c \in Nat \X Nat /\ c[1] < c[2] /\ c[2] <= from + n
             /\ c[2] - c[1] <= ChunkBytes
  <2>1. PICK k \in 0..n : /\ k * ChunkBytes < n
                          /\ c = <<from + k * ChunkBytes,
                                   Min({from + k * ChunkBytes + ChunkBytes, from + n})>> BY DEF Chunked
  <2>2. PICK q \in Nat : q = k * ChunkBytes BY <1>2, <2>1
  <2>3. PICK e \in Nat : /\ e = Min({from + q + ChunkBytes, from + n})
                         /\ e = IF from + q + ChunkBytes <= from + n THEN from + q + ChunkBytes
                                ELSE from + n BY <1>1, <1>3
  <2> QED BY <1>1, <2>1, <2>2, <2>3
<1>5. ASSUME NEW b \in (from + 1)..(from + n)
      PROVE  \E c \in Chunked(from, n) : b \in (c[1] + 1)..c[2]
  <2>1. b - from \in Nat /\ 0 < b - from /\ b - from <= n OBVIOUS
  <2>2. PICK k \in 0..n : /\ k * ChunkBytes < b - from
                          /\ b - from <= k * ChunkBytes + ChunkBytes BY <2>1, ChunkOf
  <2>3. PICK q \in Nat : q = k * ChunkBytes BY <1>2, <2>2
  <2>4. PICK e \in Nat : /\ e = Min({from + q + ChunkBytes, from + n})
                         /\ e = IF from + q + ChunkBytes <= from + n THEN from + q + ChunkBytes
                                ELSE from + n BY <1>1, <1>3
  <2>5. k * ChunkBytes < n BY <2>1, <2>2, <2>3
  <2>6. <<from + q, e>> \in Chunked(from, n) BY <2>3, <2>4, <2>5 DEF Chunked
  <2>7. b \in (from + q + 1)..e BY <1>1, <2>2, <2>3, <2>4
  <2> QED BY <2>6, <2>7
<1> QED BY <1>4, <1>5

-----------------------------------------------------------------------------
(* Each action keeps the invariant *)

LEMMA OutputInitially == OutputInit => OutputInv
<1> SUFFICES ASSUME OutputInit PROVE OutputInv OBVIOUS
<1>1. ReadersInv
  <2>1. AnswerTrue(Answer0) BY DEF AnswerTrue, Answer0
  <2> QED BY <2>1 DEF OutputInit, ReadersInv, WokenSoon
<1> QED
  BY <1>1, OutputAssumption DEF OutputInv, OutputInit, OutputTypes, OutRow, ReadRow, AnswerRow, Answer0, KeptInv, Held

\* What an action that leaves the readers' rows alone has to show for them.
LEMMA ReadersStand ==
  ASSUME OutputInv, UNCHANGED <<reader, answered>>, row.end <= row'.end, row.ack <= row'.ack,
         row' \in OutRow,
         \A r \in OutReaders : WokenSoon(reader[r])'
  PROVE  ReadersInv'
<1> SUFFICES ASSUME NEW r \in OutReaders
             PROVE  reader[r].after <= row'.end /\ AnswerTrue(answered[r])' BY DEF ReadersInv
<1>1. reader[r].after \in Nat /\ reader[r].after <= row.end /\ AnswerTrue(answered[r])
  BY DEF OutputInv, OutputTypes, ReadersInv, ReadRow
<1>2. row'.end \in Nat /\ row'.ack \in Nat BY DEF OutRow
<1> QED BY <1>1, <1>2 DEF AnswerTrue, OutputInv, OutputTypes, OutRow, AnswerRow

LEMMA AppendKeeps == ASSUME OutputInv, NEW n \in 1..2, AppendOutput(n) PROVE OutputInv'
<1>1. /\ row \in OutRow /\ row.end \in Nat /\ row.start \in Nat /\ row.complete \in BOOLEAN
      /\ row.end <= OutputLimit /\ OutputLimit \in Nat BY OutputAssumption DEF OutputInv, OutputTypes, KeptInv, OutRow
<1>2. PICK accepted \in 0..n :
        /\ row.end + accepted <= OutputLimit
        /\ chunks' = chunks \cup Chunked(row.end, accepted)
        /\ row' = [row EXCEPT !.end = @ + accepted, !.complete = @ /\ accepted = n]
        /\ drain' \in {"notify", "last"}
  <2> DEFINE room == OutputLimit - row.end
             acc == IF row.complete THEN Min({n, room}) ELSE 0
  <2>1. acc \in 0..n /\ row.end + acc <= OutputLimit
    <3>1. Min({n, room}) = IF n <= room THEN n ELSE room
      <4>1. n \in Nat /\ room \in Nat BY <1>1
      <4> QED BY <4>1 DEF Min
    <3> QED BY <1>1, <3>1
  <2> QED BY <2>1 DEF AppendOutput
<1>3. accepted \in Nat OBVIOUS
<1>4. PICK e \in Nat : e = row.end + accepted BY <1>1, <1>3
<1>5. PICK o \in OutRow : o = row BY <1>1
<1>6. PICK k \in BOOLEAN : k = (row.complete /\ accepted = n) OBVIOUS
<1>7. /\ row' \in OutRow /\ row'.start = row.start /\ row'.ack = row.ack
      /\ row'.state = row.state /\ row'.end = e BY <1>5, <1>2, <1>4, <1>6 DEF OutRow
<1>8. UNCHANGED <<reader, answered>> BY DEF AppendOutput
<1>9. \A c \in Chunked(row.end, accepted) :
         /\ c \in Nat \X Nat /\ c[1] < c[2] /\ c[2] <= e /\ c[2] - c[1] <= ChunkBytes
  BY <1>1, <1>3, <1>4, ChunkedHolds
<1>10. KeptInv'
  <2>1. ASSUME NEW c \in chunks' PROVE ChunkFits(c)'
    <3>1. CASE c \in chunks BY <1>1, <1>3, <1>4, <1>7, <3>1 DEF ChunkFits, OutputInv, OutputTypes, KeptInv
    <3>2. CASE c \in Chunked(row.end, accepted) BY <1>7, <1>9, <3>2 DEF ChunkFits
    <3> QED BY <1>2, <3>1, <3>2
  <2>2. ASSUME NEW b \in (row'.start + 1)..row'.end PROVE b \in Held'
    <3>1. b \in Nat /\ b <= e /\ row.start + 1 <= b BY <1>1, <1>7
    <3>2. CASE b <= row.end
      <4>1. PICK c \in chunks : b \in (c[1] + 1)..c[2] BY <1>1, <3>1, <3>2 DEF OutputInv, KeptInv, Held
      <4> QED BY <1>2, <4>1 DEF Held
    <3>3. CASE b > row.end
      <4>1. PICK c \in Chunked(row.end, accepted) : b \in (c[1] + 1)..c[2]
        BY <1>1, <1>3, ChunkedHolds, <1>4, <3>1, <3>3
      <4> QED BY <1>2, <4>1 DEF Held
    <3> QED BY <1>1, <3>1, <3>2, <3>3
  <2> QED BY <2>1, <2>2, <1>1, <1>2, <1>3, <1>4, <1>7 DEF KeptInv, OutputInv
<1>11. ReadersInv' BY <1>7, <1>8, ReadersStand, <1>2, <1>1, <1>3, <1>4 DEF WokenSoon, OutRow
<1> QED BY <1>10, <1>11, <1>2, <1>7, <1>8, <1>9 DEF OutputInv, OutputTypes

LEMMA DrainEndsKeeps == ASSUME OutputInv, DrainEnds PROVE OutputInv'
<1>1. ReadersInv' BY DEF OutputInv, ReadersInv, AnswerTrue, WokenSoon, DrainEnds
<1> QED BY <1>1 DEF OutputInv, OutputTypes, DrainEnds, KeptInv, ChunkFits, Held

LEMMA NotifyKeeps ==
  ASSUME OutputInv, NEW next \in {"read", "record", "done"}, NotifyWaiters(next)
  PROVE  OutputInv'
<1>1. \A r \in OutReaders :
         /\ reader'[r] \in ReadRow /\ reader'[r].after = reader[r].after
         /\ reader'[r].pc = "waiting" => reader'[r].woken
  <2> TAKE r \in OutReaders
  <2>1. PICK o \in ReadRow : o = reader[r] BY DEF OutputInv, OutputTypes
  <2> QED BY <2>1 DEF ReadRow, NotifyWaiters
<1>2. ReadersInv' BY <1>1 DEF OutputInv, ReadersInv, AnswerTrue, WokenSoon, NotifyWaiters
<1> QED BY <1>2, <1>1 DEF OutputInv, OutputTypes, NotifyWaiters, KeptInv, ChunkFits, Held

LEMMA RecordExitKeeps == ASSUME OutputInv, RecordExit PROVE OutputInv'
<1>1. PICK failed \in BOOLEAN :
        row' = [row EXCEPT !.state = "exited", !.complete = @ /\ ~failed] BY DEF RecordExit
<1>2. PICK o \in OutRow : o = row BY DEF OutputInv, OutputTypes
<1>3. PICK k \in BOOLEAN : k = (row.complete /\ ~failed) OBVIOUS
<1>4. /\ row' \in OutRow /\ row'.start = row.start /\ row'.ack = row.ack
      /\ row'.end = row.end BY <1>2, <1>1, <1>3 DEF OutRow
<1>5. ReadersInv' BY <1>4 DEF OutputInv, ReadersInv, AnswerTrue, WokenSoon, RecordExit
<1> QED BY <1>5, <1>4 DEF OutputInv, OutputTypes, RecordExit, KeptInv, ChunkFits, Held

\* An answer that is delivered, and the reader that goes back to its cursor or
\* to the one that the answer names.
LEMMA DeliverKeeps ==
  ASSUME OutputInv, NEW r \in OutReaders, NEW max \in Nat,
         Deliver(r, ReadOutput(reader[r].after, max)), UNCHANGED <<row, chunks, drain>>
  PROVE  OutputInv'
<1>1. PICK o \in ReadRow : o = reader[r] BY DEF OutputInv, OutputTypes
<1>2. o.after \in Nat /\ o.after <= row.end BY <1>1 DEF OutputInv, ReadersInv, ReadRow
<1>3. PICK st \in Nat, n \in Nat :
        /\ ReadOutput(o.after, max)
             = [after |-> o.after, start |-> st, next |-> n, bytes |-> (st + 1)..n]
        /\ st = (IF o.after > row.start THEN o.after ELSE row.start)
        /\ st <= n /\ n <= row.end BY <1>2, ReadIsStretch DEF OutputInv
<1>4. PICK a \in AnswerRow :
        /\ a = ReadOutput(o.after, max)
        /\ a.after = o.after /\ a.start = st /\ a.next = n /\ a.bytes = (st + 1)..n BY <1>2, <1>3 DEF AnswerRow
<1>5. PICK next \in Nat :
        /\ next <= row.end
        /\ reader' = [reader EXCEPT ![r].pc = "idle", ![r].woken = FALSE, ![r].max = 0,
                                    ![r].after = next]
  <2>1. PICK arrives \in BOOLEAN :
          reader' = [reader EXCEPT ![r].pc = "idle", ![r].woken = FALSE, ![r].max = 0,
                                   ![r].after = IF arrives THEN a.next ELSE @] BY <1>1, <1>4 DEF Deliver
  <2>2. PICK next \in Nat : next = IF arrives THEN a.next ELSE o.after BY <1>2, <1>3, <1>4
  <2> QED BY <1>1, <1>2, <1>3, <1>4, <2>1, <2>2
<1>6. PICK u : u = [o EXCEPT !.pc = "idle", !.woken = FALSE, !.max = 0, !.after = next] OBVIOUS
<1>7. u \in ReadRow /\ u.pc = "idle" /\ u.after = next BY <1>6 DEF ReadRow
<1>8. reader' = [reader EXCEPT ![r] = u] BY <1>1, <1>5, <1>6 DEF OutputInv, OutputTypes
<1>9. answered' = [answered EXCEPT ![r] = a] BY <1>1, <1>4 DEF Deliver
<1>10. ReadersInv'
  <2>1. ASSUME NEW q \in OutReaders
        PROVE  reader'[q].after <= row.end /\ AnswerTrue(answered'[q]) /\ WokenSoon(reader'[q])
    <3>1. /\ reader'[q] = IF q = r THEN u ELSE reader[q]
          /\ answered'[q] = IF q = r THEN a ELSE answered[q] BY <1>8, <1>9 DEF OutputInv, OutputTypes
    <3>2. CASE q = r BY <1>5, <1>7, <3>1, <3>2, <1>2, <1>3, <1>4 DEF AnswerTrue, OutputInv, KeptInv, WokenSoon
    <3>3. CASE q # r BY <3>1, <3>3 DEF OutputInv, ReadersInv
    <3> QED BY <3>2, <3>3
  <2> QED BY <2>1 DEF ReadersInv, AnswerTrue, WokenSoon, Unread
<1> QED BY <1>10, <1>7, <1>8, <1>9 DEF OutputInv, OutputTypes, KeptInv, ChunkFits, Held

\* A reader that goes on to the next step of its wait.
LEMMA ReaderGoesOn ==
  ASSUME OutputInv, NEW r \in OutReaders, NEW u \in ReadRow, reader' = [reader EXCEPT ![r] = u],
         u.after = reader[r].after, WokenSoon(u),
         UNCHANGED <<row, chunks, drain, answered>>
  PROVE  OutputInv'
<1>1. ReadersInv' BY DEF ReadersInv, AnswerTrue, WokenSoon, Unread, OutputInv, OutputTypes
<1> QED BY <1>1 DEF OutputInv, OutputTypes, KeptInv, ChunkFits, Held

LEMMA FirstReadKeeps ==
  ASSUME OutputInv, NEW r \in OutReaders, NEW max \in ReadSizes, NEW wait \in BOOLEAN,
         FirstRead(r, max, wait)
  PROVE  OutputInv'
<1>1. max \in Nat BY OutputAssumption
<1>2. CASE Deliver(r, ReadOutput(reader[r].after, max)) BY <1>1, <1>2, DeliverKeeps DEF FirstRead
<1>3. CASE reader' = [reader EXCEPT ![r].pc = "found", ![r].max = max] /\ UNCHANGED answered
  <2>1. PICK o \in ReadRow : o = reader[r] BY DEF OutputInv, OutputTypes
  <2>2. PICK u : u = [o EXCEPT !.pc = "found", !.max = max] OBVIOUS
  <2>3. u \in ReadRow /\ u.pc = "found" /\ u.after = o.after BY <1>1, <2>2 DEF ReadRow
  <2>4. WokenSoon(u) BY <2>3 DEF WokenSoon
  <2>5. UNCHANGED <<row, chunks, drain, answered>> BY <1>3 DEF FirstRead
  <2> QED BY <2>1, <2>3, <2>4, <2>5, ReaderGoesOn, <1>3, <2>2 DEF OutputInv, OutputTypes
<1> QED BY <1>2, <1>3 DEF FirstRead

LEMMA RegisterWaiterKeeps ==
  ASSUME OutputInv, NEW r \in OutReaders, RegisterWaiter(r) PROVE OutputInv'
<1>1. PICK o \in ReadRow : o = reader[r] BY DEF OutputInv, OutputTypes
<1>2. PICK u : u = [o EXCEPT !.pc = "registered"] OBVIOUS
<1>3. u \in ReadRow /\ u.pc = "registered" /\ u.after = o.after BY <1>2 DEF ReadRow
<1> QED BY <1>1, <1>3, ReaderGoesOn, <1>2 DEF RegisterWaiter, OutputInv, OutputTypes, WokenSoon

\* The second read finds nothing, so there is nothing to be woken for yet.
LEMMA ConclusiveMeans ==
  ASSUME OutputInv, NEW m \in ReadRow, m.after <= row.end
  PROVE  Conclusive(ReadOutput(m.after, m.max)) <=> Unread(m) \/ row.state # "running"
<1>1. m.after \in Nat /\ m.max \in Nat BY DEF ReadRow
<1>2. PICK st \in Nat, n \in Nat :
        /\ ReadOutput(m.after, m.max)
             = [after |-> m.after, start |-> st, next |-> n, bytes |-> (st + 1)..n]
        /\ st = (IF m.after > row.start THEN m.after ELSE row.start)
        /\ st <= n /\ n <= row.end
        /\ st # n <=> st < row.end /\ m.max > 0 BY <1>1, ReadIsStretch DEF OutputInv
<1>3. (st + 1)..n # {} <=> st # n
  <2>1. CASE st = n BY <2>1
  <2>2. CASE st # n
    <3>1. n \in (st + 1)..n BY <1>2, <2>2
    <3> QED BY <2>2, <3>1
  <2> QED BY <2>1, <2>2
<1> QED BY <1>2, <1>3, <1>1 DEF Conclusive, Unread, OutputInv, OutputTypes, OutRow

LEMMA SecondReadKeeps ==
  ASSUME OutputInv, NEW r \in OutReaders, SecondRead(r) PROVE OutputInv'
<1>1. PICK o \in ReadRow : o = reader[r] BY DEF OutputInv, OutputTypes
<1>2. o.max \in Nat /\ o.after <= row.end BY <1>1 DEF ReadRow, OutputInv, ReadersInv
<1>3. CASE Deliver(r, ReadOutput(reader[r].after, reader[r].max)) BY <1>1, <1>2, <1>3, DeliverKeeps DEF SecondRead
<1>4. CASE /\ ~Conclusive(ReadOutput(o.after, o.max))
           /\ reader' = [reader EXCEPT ![r].pc = "waiting"] /\ UNCHANGED answered
  <2>1. PICK u : u = [o EXCEPT !.pc = "waiting"] OBVIOUS
  <2>2. u \in ReadRow /\ u.after = o.after /\ u.max = o.max BY <2>1 DEF ReadRow
  <2>3. UNCHANGED <<row, chunks, drain, answered>> BY <1>4 DEF SecondRead
  <2> QED BY <1>1, <2>2, <2>3, ReaderGoesOn, <1>4, <2>1, <1>2, ConclusiveMeans DEF OutputInv, OutputTypes, WokenSoon
<1> QED BY <1>1, <1>3, <1>4 DEF SecondRead, SomethingNew

LEMMA ThirdReadKeeps ==
  ASSUME OutputInv, NEW r \in OutReaders, ThirdRead(r) PROVE OutputInv'
  BY DeliverKeeps DEF ThirdRead, OutputInv, OutputTypes, ReadRow

\* ack_output: the chunks that go end at or before the cursor that is now the
\* first one kept.
LEMMA AckKeeps == ASSUME OutputInv, NEW cursor \in Nat, AckOutput(cursor) PROVE OutputInv'
<1>1. PICK o \in OutRow : o = row BY DEF OutputInv, OutputTypes
<1>2. /\ o.start \in Nat /\ o.end \in Nat /\ o.ack = o.start /\ o.start <= o.end
      /\ o.end <= OutputLimit BY <1>1 DEF OutRow, OutputInv, KeptInv
<1>3. PICK ack \in Nat : ack = IF cursor > row.ack THEN cursor ELSE row.ack BY <1>1, <1>2
<1>4. cursor <= o.end /\ ack <= o.end /\ o.ack <= ack BY <1>1, <1>2, <1>3 DEF AckOutput
<1>5. /\ chunks' = {c \in chunks : ~Acked(c, ack)}
      /\ row' = [row EXCEPT !.ack = ack, !.start = IF ack > @ THEN ack ELSE @]
      /\ UNCHANGED <<drain, reader, answered>> BY <1>3 DEF AckOutput
<1>6. PICK u : u = [o EXCEPT !.ack = ack, !.start = ack] OBVIOUS
<1>7. /\ u \in OutRow /\ u.ack = ack /\ u.start = ack /\ u.end = o.end /\ u.state = o.state BY <1>6 DEF OutRow
<1>8. row' = u
  <2>1. (IF ack > o.start THEN ack ELSE o.start) = ack BY <1>2, <1>4
  <2> QED BY <1>6, <2>1, <1>1, <1>5
<1>9. KeptInv'
  <2>1. ASSUME NEW c \in chunks' PROVE ChunkFits(c)' BY <1>1, <1>5, <1>7, <1>8 DEF OutputInv, KeptInv, ChunkFits
  <2>2. ASSUME NEW b \in (row'.start + 1)..row'.end PROVE b \in Held'
    <3>1. b \in (row.start + 1)..row.end /\ b > ack /\ b \in Nat BY <1>1, <1>2, <1>4, <1>7, <1>8
    <3>2. PICK c \in chunks : b \in (c[1] + 1)..c[2] BY <3>1 DEF OutputInv, KeptInv, Held
    <3> QED BY <3>2, <1>5, <3>1 DEF Held, Acked, OutputInv, OutputTypes
  <2> QED BY <2>1, <2>2, <1>2, <1>4, <1>7, <1>8 DEF KeptInv
<1>10. ReadersInv'
  <2>1. ASSUME NEW r \in OutReaders PROVE WokenSoon(reader[r])'
    BY <1>1, <1>5, <1>7, <1>8, <1>2, <1>4 DEF WokenSoon, Unread, ReadRow, OutputInv, OutputTypes, ReadersInv
  <2> QED BY <1>5, <1>7, <1>8, <2>1, ReadersStand, <1>1, <1>2, <1>4
<1> QED BY <1>9, <1>10, <1>5, <1>7, <1>8 DEF OutputInv, OutputTypes

LEMMA OutputStep == OutputInv /\ [OutputNext]_ovars => OutputInv'
<1> SUFFICES ASSUME OutputInv, [OutputNext]_ovars PROVE OutputInv' OBVIOUS
<1>1. ASSUME NEW n \in 1..2, AppendOutput(n) PROVE OutputInv' BY <1>1, AppendKeeps
<1>2. CASE DrainEnds BY <1>2, DrainEndsKeeps
<1>3. CASE NotifyAppended \/ NotifyLast \/ NotifyExit BY <1>3, NotifyKeeps DEF NotifyAppended, NotifyLast, NotifyExit
<1>4. CASE RecordExit BY <1>4, RecordExitKeeps
<1>5. ASSUME NEW r \in OutReaders, NEW max \in ReadSizes, NEW wait \in BOOLEAN,
             FirstRead(r, max, wait)
      PROVE  OutputInv' BY <1>5, FirstReadKeeps
<1>6. ASSUME NEW r \in OutReaders,
             RegisterWaiter(r) \/ SecondRead(r) \/ WaiterWoken(r) \/ WaitTimesOut(r)
      PROVE  OutputInv' BY <1>6, RegisterWaiterKeeps, SecondReadKeeps, ThirdReadKeeps DEF WaiterWoken, WaitTimesOut
<1>7. ASSUME NEW cursor \in 0..MaxBytes, AckOutput(cursor) PROVE OutputInv' BY <1>7, AckKeeps
<1>8. CASE UNCHANGED ovars
  <2>1. ReadersInv' BY <1>8 DEF OutputInv, ReadersInv, AnswerTrue, WokenSoon, Unread, ovars
  <2> QED BY <2>1, <1>8 DEF OutputInv, OutputTypes, ovars, KeptInv, ChunkFits, Held
<1> QED BY <1>1, <1>2, <1>3, <1>4, <1>5, <1>6, <1>7, <1>8 DEF OutputNext

LEMMA StreamFollows == OutputInv => OutputIsStream
<1> SUFFICES ASSUME OutputInv PROVE OutputIsStream OBVIOUS
<1>1. ASSUME NEW r \in OutReaders, reader[r].pc = "waiting",
             Conclusive(ReadOutput(reader[r].after, reader[r].max))
      PROVE  reader[r].woken \/ drain \in {"notify", "last", "final"}
  BY <1>1, ConclusiveMeans DEF WokenSoon, OutputInv, OutputTypes, ReadersInv
<1> QED BY <1>1 DEF OutputIsStream, AnswerTrue, OutputInv, ReadersInv, KeptInv

LEMMA OutputTypesFollow == OutputInv => OutputTypeOK
  BY DEF OutputInv, OutputTypes, KeptInv, ReadersInv, ChunkFits, OutputTypeOK, OutRow

\* read_output, ack_output, append_output and the notification between them:
\* whatever the chunks, acknowledgements, lost answers and sleeping readers, an
\* answer is the stretch of the output it says it is.
THEOREM OutputReadsAsStream == OutputSpec => []OutputIsStream
<1>1. OutputSpec => []OutputInv BY OutputInitially, OutputStep, PTL DEF OutputSpec
<1> QED BY <1>1, StreamFollows, PTL

\* The cursors of the output are in order and its chunks no larger than
\* OUTPUT_CHUNK_BYTES (append_output, ack_output, trim of acknowledged chunks).
THEOREM OutputShapes == OutputSpec => []OutputTypeOK
<1>1. OutputSpec => []OutputInv BY OutputInitially, OutputStep, PTL DEF OutputSpec
<1> QED BY <1>1, OutputTypesFollow, PTL

-----------------------------------------------------------------------------
(* The server's calls *)

CallRow == [pc : {"new", "refused", "provision", "send", "drain", "inspect", "audit", "answered",
                  "dropped"},
            op : ApiOps, api : BOOLEAN, ok : BOOLEAN, expired : BOOLEAN, got : Nat]
CommandRow == [state : {"none", "running", "exited", "terminated"}, out : Nat,
               output_complete : BOOLEAN]

\* The outcomes that the log has of a call.
Said(c) == {r.outcome : r \in {q \in audited : q.c = c}}

\* A call r and its command m, whether the daemon has carried it out, what the
\* log says of it, and the faults and drops so far.
CallFits(r, m, in, said, f, d) ==
    /\ r.pc \in {"new", "refused", "provision", "send"} => ~in /\ m.state = "none"
    /\ r.pc \in {"drain", "inspect"} => in
    /\ r.pc \in {"audit", "answered"} /\ r.ok => in
    /\ r.pc \in {"audit", "answered"} /\ ~r.ok => f > 0
    /\ r.pc = "audit" => r.api
    /\ r.pc = "dropped" => d > 0
    /\ m.state = "running" /\ r.pc \in {"audit", "answered"} => f > 0
    /\ r.pc # "answered" => said = {}
    /\ r.pc = "answered" /\ r.ok /\ r.api => said = {"success"}
    /\ "success" \in said => in

CallsInv ==
    /\ call \in [Calls -> CallRow] /\ command \in [Calls -> CommandRow]
    /\ applied \subseteq Calls /\ sendFaults \in Nat /\ callDrops \in Nat
    /\ \A c \in Calls : CallFits(call[c], command[c], c \in applied, Said(c), sendFaults, callDrops)
    /\ \A entry \in audited : entry.c \in Calls

\* One call moves on, with its command and its row of the log.
LEMMA CallMoves ==
  ASSUME CallsInv, NEW c \in Calls, NEW u \in CallRow, NEW m \in CommandRow,
         call' = [call EXCEPT ![c] = u], command' = [command EXCEPT ![c] = m],
         applied' = applied \/ applied' = applied \cup {c},
         audited \subseteq audited', \A q \in audited' : q \in audited \/ q.c = c,
         sendFaults' \in Nat, callDrops' \in Nat,
         sendFaults' >= sendFaults, callDrops' >= callDrops,
         CallFits(u, m, c \in applied', Said(c)', sendFaults', callDrops')
  PROVE  CallsInv'
<1>1. /\ \A x \in Calls : call'[x] = IF x = c THEN u ELSE call[x]
      /\ \A x \in Calls : command'[x] = IF x = c THEN m ELSE command[x]
      /\ call' \in [Calls -> CallRow] /\ command' \in [Calls -> CommandRow] BY DEF CallsInv
<1>2. ASSUME NEW x \in Calls
      PROVE  CallFits(call'[x], command'[x], x \in applied', Said(x)', sendFaults', callDrops')
  <2>1. CASE x = c BY <1>1, <2>1
  <2>2. CASE x # c
    <3>1. PICK r \in CallRow, n \in CommandRow, f \in Nat, d \in Nat :
            r = call[x] /\ n = command[x] /\ f = sendFaults /\ d = callDrops BY DEF CallsInv
    <3>2. CallFits(r, n, x \in applied, Said(x), f, d) BY <3>1 DEF CallsInv
    <3>3. CallFits(r, n, x \in applied', Said(x)', sendFaults', callDrops') BY <3>1, <3>2, <2>2 DEF CallFits, Said
    <3> QED BY <3>3, <1>1, <2>2, <3>1
  <2> QED BY <2>1, <2>2
<1> QED BY <1>1, <1>2 DEF CallsInv

LEMMA TheCall ==
  ASSUME CallsInv, NEW c \in Calls
  PROVE  \E r \in CallRow, m \in CommandRow, f \in Nat, d \in Nat :
            /\ r = call[c] /\ m = command[c] /\ f = sendFaults /\ d = callDrops
            /\ CallFits(r, m, c \in applied, Said(c), f, d)
  BY DEF CallsInv

LEMMA CalledKeepsCalls ==
  ASSUME CallsInv, NEW c \in Calls, NEW u \in CallRow, u.pc \in {"provision", "refused"},
         call[c].pc = "new", call' = [call EXCEPT ![c] = u],
         UNCHANGED <<applied, command, audited, sendFaults, callDrops>>
  PROVE  CallsInv'
<1>1. PICK r \in CallRow, m \in CommandRow, f \in Nat, d \in Nat :
        /\ r = call[c] /\ m = command[c] /\ f = sendFaults /\ d = callDrops
        /\ CallFits(r, m, c \in applied, Said(c), f, d) BY TheCall
<1>2. /\ applied' = applied
      /\ audited \subseteq audited' /\ \A q \in audited' : q \in audited \/ q.c = c
      /\ sendFaults' \in Nat /\ callDrops' \in Nat
      /\ sendFaults' >= sendFaults /\ callDrops' >= callDrops BY <1>1
<1> QED BY <1>2, CallMoves, <1>1 DEF CallsInv, CallFits, Said

LEMMA ProvisionGoesKeepsCalls ==
  ASSUME CallsInv, NEW c \in Calls,
         call[c].pc = "provision", Moves(c, "send"),
         UNCHANGED <<applied, command, audited, sendFaults, callDrops>>
  PROVE  CallsInv'
<1>1. PICK r \in CallRow, m \in CommandRow, f \in Nat, d \in Nat :
        /\ r = call[c] /\ m = command[c] /\ f = sendFaults /\ d = callDrops
        /\ CallFits(r, m, c \in applied, Said(c), f, d) BY TheCall
<1>2. r.pc = "provision" BY <1>1 DEF Moves
<1>3. PICK u : u = [r EXCEPT !.pc = "send"] OBVIOUS
<1>4. /\ u \in CallRow
      /\ u.pc = "send" /\ u.api = r.api /\ u.ok = r.ok BY <1>1, <1>2, <1>3 DEF CallRow
<1>5. PICK w : w = m OBVIOUS
<1>6. w \in CommandRow /\ w.state = m.state BY <1>1, <1>2, <1>5 DEF CommandRow
<1>7. call' = [call EXCEPT ![c] = u] BY <1>1, <1>2, <1>3 DEF Moves, CallsInv, CallRow
<1>8. command' = [command EXCEPT ![c] = w] BY <1>1, <1>2, <1>5 DEF Moves, CallsInv, CommandRow
<1>9. /\ applied' = applied
      /\ sendFaults' = f /\ callDrops' = d BY <1>1, <1>2 DEF Moves
<1>10. audited' = audited BY <1>1, <1>2 DEF Moves
<1>11. CallFits(u, w, c \in applied', Said(c)', sendFaults', callDrops')
  BY <1>1, <1>2, <1>4, <1>6, <1>9, <1>10 DEF CallFits, Said
<1>12. /\ applied' = applied \/ applied' = applied \cup {c}
       /\ audited \subseteq audited' /\ \A q \in audited' : q \in audited \/ q.c = c
       /\ sendFaults' \in Nat /\ callDrops' \in Nat
       /\ sendFaults' >= sendFaults /\ callDrops' >= callDrops BY <1>1, <1>9, <1>10
<1> QED BY <1>4, <1>6, <1>7, <1>8, <1>12, <1>11, CallMoves

LEMMA ProvisionFailsKeepsCalls ==
  ASSUME CallsInv, NEW c \in Calls,
         call[c].pc = "provision", Moves(c, "refused"), Faulty,
         UNCHANGED <<applied, command, audited, callDrops>>
  PROVE  CallsInv'
<1>1. PICK r \in CallRow, m \in CommandRow, f \in Nat, d \in Nat :
        /\ r = call[c] /\ m = command[c] /\ f = sendFaults /\ d = callDrops
        /\ CallFits(r, m, c \in applied, Said(c), f, d) BY TheCall
<1>2. r.pc = "provision" BY <1>1 DEF Moves
<1>3. PICK u : u = [r EXCEPT !.pc = "refused"] OBVIOUS
<1>4. /\ u \in CallRow
      /\ u.pc = "refused" /\ u.api = r.api /\ u.ok = r.ok BY <1>1, <1>2, <1>3 DEF CallRow
<1>5. PICK w : w = m OBVIOUS
<1>6. w \in CommandRow /\ w.state = m.state BY <1>1, <1>2, <1>5 DEF CommandRow
<1>7. call' = [call EXCEPT ![c] = u] BY <1>1, <1>2, <1>3 DEF Moves, Faulty, CallsInv, CallRow
<1>8. command' = [command EXCEPT ![c] = w] BY <1>1, <1>2, <1>5 DEF Moves, Faulty, CallsInv, CommandRow
<1>9. /\ applied' = applied
      /\ sendFaults' = f + 1 /\ callDrops' = d BY <1>1, <1>2 DEF Moves, Faulty
<1>10. audited' = audited BY <1>1, <1>2 DEF Moves, Faulty
<1>11. CallFits(u, w, c \in applied', Said(c)', sendFaults', callDrops')
  BY <1>1, <1>2, <1>4, <1>6, <1>9, <1>10 DEF CallFits, Said
<1>12. /\ applied' = applied \/ applied' = applied \cup {c}
       /\ audited \subseteq audited' /\ \A q \in audited' : q \in audited \/ q.c = c
       /\ sendFaults' \in Nat /\ callDrops' \in Nat
       /\ sendFaults' >= sendFaults /\ callDrops' >= callDrops BY <1>1, <1>9, <1>10
<1> QED BY <1>4, <1>6, <1>7, <1>8, <1>12, <1>11, CallMoves

LEMMA SendStartsKeepsCalls ==
  ASSUME CallsInv, NEW c \in Calls,
         call[c].pc = "send", call[c].op = Exec, Carry(c), Moves(c, "drain"),
         UNCHANGED <<audited, sendFaults, callDrops>>
  PROVE  CallsInv'
<1>1. PICK r \in CallRow, m \in CommandRow, f \in Nat, d \in Nat :
        /\ r = call[c] /\ m = command[c] /\ f = sendFaults /\ d = callDrops
        /\ CallFits(r, m, c \in applied, Said(c), f, d) BY TheCall
<1>2. r.pc = "send" /\ r.op = Exec BY <1>1 DEF Moves
<1>3. PICK u : u = [r EXCEPT !.pc = "drain"] OBVIOUS
<1>4. /\ u \in CallRow
      /\ u.pc = "drain" /\ u.api = r.api /\ u.ok = r.ok BY <1>1, <1>2, <1>3 DEF CallRow
<1>5. PICK w : w = [m EXCEPT !.state = "running"] OBVIOUS
<1>6. w \in CommandRow /\ w.state = "running" BY <1>1, <1>2, <1>5 DEF CommandRow
<1>7. call' = [call EXCEPT ![c] = u] BY <1>1, <1>2, <1>3 DEF Moves, Carry, CallsInv, CallRow
<1>8. command' = [command EXCEPT ![c] = w] BY <1>1, <1>2, <1>5 DEF Moves, Carry, CallsInv, CommandRow
<1>9. /\ applied' = applied \cup {c}
      /\ sendFaults' = f /\ callDrops' = d BY <1>1, <1>2 DEF Moves, Carry
<1>10. audited' = audited BY <1>1, <1>2 DEF Moves, Carry
<1>11. CallFits(u, w, c \in applied', Said(c)', sendFaults', callDrops')
  BY <1>1, <1>2, <1>4, <1>6, <1>9, <1>10 DEF CallFits, Said
<1>12. /\ applied' = applied \/ applied' = applied \cup {c}
       /\ audited \subseteq audited' /\ \A q \in audited' : q \in audited \/ q.c = c
       /\ sendFaults' \in Nat /\ callDrops' \in Nat
       /\ sendFaults' >= sendFaults /\ callDrops' >= callDrops BY <1>1, <1>9, <1>10
<1> QED BY <1>4, <1>6, <1>7, <1>8, <1>12, <1>11, CallMoves

LEMMA SendDoneKeepsCalls ==
  ASSUME CallsInv, NEW c \in Calls,
         call[c].pc = "send", call[c].op # Exec, Carry(c), Ends(c, TRUE),
         UNCHANGED <<audited, sendFaults, callDrops>>
  PROVE  CallsInv'
<1>1. PICK r \in CallRow, m \in CommandRow, f \in Nat, d \in Nat :
        /\ r = call[c] /\ m = command[c] /\ f = sendFaults /\ d = callDrops
        /\ CallFits(r, m, c \in applied, Said(c), f, d) BY TheCall
<1>2. r.pc = "send" /\ r.op # Exec BY <1>1 DEF Ends
<1>3. PICK p \in {"answered", "audit"} : p = IF ~r.api THEN "answered" ELSE "audit" BY <1>1, <1>2
<1>4. PICK u : u = [r EXCEPT !.pc = p, !.ok = TRUE] OBVIOUS
<1>5. /\ u \in CallRow
      /\ u.pc = p /\ u.api = r.api /\ u.ok = TRUE BY <1>1, <1>2, <1>3, <1>4 DEF CallRow
<1>6. PICK w : w = m OBVIOUS
<1>7. w \in CommandRow /\ w.state = m.state BY <1>1, <1>2, <1>3, <1>6 DEF CommandRow
<1>8. call' = [call EXCEPT ![c] = u] BY <1>1, <1>2, <1>3, <1>4 DEF Ends, Carry, CallsInv, CallRow
<1>9. command' = [command EXCEPT ![c] = w] BY <1>1, <1>2, <1>3, <1>6 DEF Ends, Carry, CallsInv, CommandRow
<1>10. /\ applied' = applied \cup {c}
       /\ sendFaults' = f /\ callDrops' = d BY <1>1, <1>2, <1>3 DEF Ends, Carry
<1>11. audited' = audited BY <1>1, <1>2, <1>3 DEF Ends, Carry
<1>12. CallFits(u, w, c \in applied', Said(c)', sendFaults', callDrops')
  BY <1>1, <1>2, <1>3, <1>5, <1>7, <1>10, <1>11 DEF CallFits, Said
<1>13. /\ applied' = applied \/ applied' = applied \cup {c}
       /\ audited \subseteq audited' /\ \A q \in audited' : q \in audited \/ q.c = c
       /\ sendFaults' \in Nat /\ callDrops' \in Nat
       /\ sendFaults' >= sendFaults /\ callDrops' >= callDrops BY <1>1, <1>10, <1>11
<1> QED BY <1>5, <1>7, <1>8, <1>9, <1>13, <1>12, CallMoves

LEMMA SendLostKeepsCalls ==
  ASSUME CallsInv, NEW c \in Calls,
         call[c].pc = "send", Faulty, Ends(c, FALSE),
         UNCHANGED <<applied, command, audited, callDrops>>
  PROVE  CallsInv'
<1>1. PICK r \in CallRow, m \in CommandRow, f \in Nat, d \in Nat :
        /\ r = call[c] /\ m = command[c] /\ f = sendFaults /\ d = callDrops
        /\ CallFits(r, m, c \in applied, Said(c), f, d) BY TheCall
<1>2. r.pc = "send" BY <1>1 DEF Ends
<1>3. PICK p \in {"answered", "audit"} : p = IF ~r.api THEN "answered" ELSE "audit" BY <1>1, <1>2
<1>4. PICK u : u = [r EXCEPT !.pc = p, !.ok = FALSE] OBVIOUS
<1>5. /\ u \in CallRow
      /\ u.pc = p /\ u.api = r.api /\ u.ok = FALSE BY <1>1, <1>2, <1>3, <1>4 DEF CallRow
<1>6. PICK w : w = m OBVIOUS
<1>7. w \in CommandRow /\ w.state = m.state BY <1>1, <1>2, <1>3, <1>6 DEF CommandRow
<1>8. call' = [call EXCEPT ![c] = u] BY <1>1, <1>2, <1>3, <1>4 DEF Ends, Faulty, CallsInv, CallRow
<1>9. command' = [command EXCEPT ![c] = w] BY <1>1, <1>2, <1>3, <1>6 DEF Ends, Faulty, CallsInv, CommandRow
<1>10. /\ applied' = applied
       /\ sendFaults' = f + 1 /\ callDrops' = d BY <1>1, <1>2, <1>3 DEF Ends, Faulty
<1>11. audited' = audited BY <1>1, <1>2, <1>3 DEF Ends, Faulty
<1>12. CallFits(u, w, c \in applied', Said(c)', sendFaults', callDrops')
  BY <1>1, <1>2, <1>3, <1>5, <1>7, <1>10, <1>11 DEF CallFits, Said
<1>13. /\ applied' = applied \/ applied' = applied \cup {c}
       /\ audited \subseteq audited' /\ \A q \in audited' : q \in audited \/ q.c = c
       /\ sendFaults' \in Nat /\ callDrops' \in Nat
       /\ sendFaults' >= sendFaults /\ callDrops' >= callDrops BY <1>1, <1>10, <1>11
<1> QED BY <1>5, <1>7, <1>8, <1>9, <1>13, <1>12, CallMoves

LEMMA AnswerLostKeepsCalls ==
  ASSUME CallsInv, NEW c \in Calls,
         call[c].pc = "send", Faulty, Ends(c, FALSE), Carry(c),
         UNCHANGED <<audited, callDrops>>
  PROVE  CallsInv'
<1>1. PICK r \in CallRow, m \in CommandRow, f \in Nat, d \in Nat :
        /\ r = call[c] /\ m = command[c] /\ f = sendFaults /\ d = callDrops
        /\ CallFits(r, m, c \in applied, Said(c), f, d) BY TheCall
<1>2. r.pc = "send" BY <1>1 DEF Ends
<1>3. PICK p \in {"answered", "audit"} : p = IF ~r.api THEN "answered" ELSE "audit" BY <1>1, <1>2
<1>4. PICK v \in {"none", "running", "exited", "terminated"} :
        v = IF r.op = Exec THEN "running" ELSE m.state BY <1>1, <1>2, <1>3 DEF CommandRow
<1>5. PICK u : u = [r EXCEPT !.pc = p, !.ok = FALSE] OBVIOUS
<1>6. /\ u \in CallRow
      /\ u.pc = p /\ u.api = r.api /\ u.ok = FALSE BY <1>1, <1>2, <1>3, <1>4, <1>5 DEF CallRow
<1>7. PICK w : w = [m EXCEPT !.state = v] OBVIOUS
<1>8. w \in CommandRow /\ w.state = v BY <1>1, <1>2, <1>3, <1>4, <1>7 DEF CommandRow
<1>9. call' = [call EXCEPT ![c] = u] BY <1>1, <1>2, <1>3, <1>4, <1>5 DEF Ends, Faulty, Carry, CallsInv, CallRow
<1>10. command' = [command EXCEPT ![c] = w]
  BY <1>1, <1>2, <1>3, <1>4, <1>7 DEF Ends, Faulty, Carry, CallsInv, CommandRow
<1>11. /\ applied' = applied \cup {c}
       /\ sendFaults' = f + 1 /\ callDrops' = d BY <1>1, <1>2, <1>3, <1>4 DEF Ends, Faulty, Carry
<1>12. audited' = audited BY <1>1, <1>2, <1>3, <1>4 DEF Ends, Faulty, Carry
<1>13. CallFits(u, w, c \in applied', Said(c)', sendFaults', callDrops')
  BY <1>1, <1>2, <1>3, <1>4, <1>6, <1>8, <1>11, <1>12 DEF CallFits, Said
<1>14. /\ applied' = applied \/ applied' = applied \cup {c}
       /\ audited \subseteq audited' /\ \A q \in audited' : q \in audited \/ q.c = c
       /\ sendFaults' \in Nat /\ callDrops' \in Nat
       /\ sendFaults' >= sendFaults /\ callDrops' >= callDrops BY <1>1, <1>11, <1>12
<1> QED BY <1>6, <1>8, <1>9, <1>10, <1>14, <1>13, CallMoves

LEMMA CommandPrintsKeepsCalls ==
  ASSUME CallsInv, NEW c \in Calls,
         CommandPrints(c)
  PROVE  CallsInv'
<1>1. PICK r \in CallRow, m \in CommandRow, f \in Nat, d \in Nat :
        /\ r = call[c] /\ m = command[c] /\ f = sendFaults /\ d = callDrops
        /\ CallFits(r, m, c \in applied, Said(c), f, d) BY TheCall
<1>2. m.state = "running" BY <1>1 DEF CommandPrints
<1>3. PICK b \in BOOLEAN :
        command' = [command EXCEPT ![c].output_complete = @ /\ b,
              ![c].out = IF command[c].output_complete /\ b THEN @ + 1 ELSE @] BY <1>1, <1>2 DEF CommandPrints
<1>4. PICK k \in BOOLEAN : k = (m.output_complete /\ b) BY <1>1, <1>2, <1>3
<1>5. PICK n \in Nat : n = IF m.output_complete /\ b THEN m.out + 1 ELSE m.out
  BY <1>1, <1>2, <1>3, <1>4 DEF CommandRow
<1>6. PICK u : u = r OBVIOUS
<1>7. /\ u \in CallRow
      /\ u.pc = r.pc /\ u.api = r.api /\ u.ok = r.ok BY <1>1, <1>2, <1>3, <1>4, <1>5, <1>6 DEF CallRow
<1>8. PICK w : w = [m EXCEPT !.output_complete = k, !.out = n] OBVIOUS
<1>9. w \in CommandRow /\ w.state = m.state BY <1>1, <1>2, <1>3, <1>4, <1>5, <1>8 DEF CommandRow
<1>10. call' = [call EXCEPT ![c] = u] BY <1>1, <1>2, <1>3, <1>4, <1>5, <1>6 DEF CommandPrints, CallsInv, CallRow
<1>11. command' = [command EXCEPT ![c] = w]
  BY <1>1, <1>2, <1>3, <1>4, <1>5, <1>8 DEF CommandPrints, CallsInv, CommandRow
<1>12. /\ applied' = applied
       /\ sendFaults' = f /\ callDrops' = d BY <1>1, <1>2, <1>3, <1>4, <1>5 DEF CommandPrints
<1>13. audited' = audited BY <1>1, <1>2, <1>3, <1>4, <1>5 DEF CommandPrints
<1>14. CallFits(u, w, c \in applied', Said(c)', sendFaults', callDrops')
  BY <1>1, <1>2, <1>3, <1>4, <1>5, <1>7, <1>9, <1>12, <1>13 DEF CallFits, Said
<1>15. /\ applied' = applied \/ applied' = applied \cup {c}
       /\ audited \subseteq audited' /\ \A q \in audited' : q \in audited \/ q.c = c
       /\ sendFaults' \in Nat /\ callDrops' \in Nat
       /\ sendFaults' >= sendFaults /\ callDrops' >= callDrops BY <1>1, <1>12, <1>13
<1> QED BY <1>7, <1>9, <1>10, <1>11, <1>15, <1>14, CallMoves

LEMMA CommandExitsKeepsCalls ==
  ASSUME CallsInv, NEW c \in Calls,
         CommandExits(c)
  PROVE  CallsInv'
<1>1. PICK r \in CallRow, m \in CommandRow, f \in Nat, d \in Nat :
        /\ r = call[c] /\ m = command[c] /\ f = sendFaults /\ d = callDrops
        /\ CallFits(r, m, c \in applied, Said(c), f, d) BY TheCall
<1>2. m.state = "running" BY <1>1 DEF CommandExits
<1>3. PICK u : u = r OBVIOUS
<1>4. /\ u \in CallRow
      /\ u.pc = r.pc /\ u.api = r.api /\ u.ok = r.ok BY <1>1, <1>2, <1>3 DEF CallRow
<1>5. PICK w : w = [m EXCEPT !.state = "exited"] OBVIOUS
<1>6. w \in CommandRow /\ w.state = "exited" BY <1>1, <1>2, <1>5 DEF CommandRow
<1>7. call' = [call EXCEPT ![c] = u] BY <1>1, <1>2, <1>3 DEF CommandExits, CallsInv, CallRow
<1>8. command' = [command EXCEPT ![c] = w] BY <1>1, <1>2, <1>5 DEF CommandExits, CallsInv, CommandRow
<1>9. /\ applied' = applied
      /\ sendFaults' = f /\ callDrops' = d BY <1>1, <1>2 DEF CommandExits
<1>10. audited' = audited BY <1>1, <1>2 DEF CommandExits
<1>11. CallFits(u, w, c \in applied', Said(c)', sendFaults', callDrops')
  BY <1>1, <1>2, <1>4, <1>6, <1>9, <1>10 DEF CallFits, Said
<1>12. /\ applied' = applied \/ applied' = applied \cup {c}
       /\ audited \subseteq audited' /\ \A q \in audited' : q \in audited \/ q.c = c
       /\ sendFaults' \in Nat /\ callDrops' \in Nat
       /\ sendFaults' >= sendFaults /\ callDrops' >= callDrops BY <1>1, <1>9, <1>10
<1> QED BY <1>4, <1>6, <1>7, <1>8, <1>12, <1>11, CallMoves

LEMMA TimeoutPassesKeepsCalls ==
  ASSUME CallsInv, NEW c \in Calls,
         TimeoutPasses(c)
  PROVE  CallsInv'
<1>1. PICK r \in CallRow, m \in CommandRow, f \in Nat, d \in Nat :
        /\ r = call[c] /\ m = command[c] /\ f = sendFaults /\ d = callDrops
        /\ CallFits(r, m, c \in applied, Said(c), f, d) BY TheCall
<1>2. r.pc = "drain" BY <1>1 DEF TimeoutPasses
<1>3. PICK u : u = [r EXCEPT !.expired = TRUE] OBVIOUS
<1>4. /\ u \in CallRow
      /\ u.pc = r.pc /\ u.api = r.api /\ u.ok = r.ok BY <1>1, <1>2, <1>3 DEF CallRow
<1>5. PICK w : w = m OBVIOUS
<1>6. w \in CommandRow /\ w.state = m.state BY <1>1, <1>2, <1>5 DEF CommandRow
<1>7. call' = [call EXCEPT ![c] = u] BY <1>1, <1>2, <1>3 DEF TimeoutPasses, CallsInv, CallRow
<1>8. command' = [command EXCEPT ![c] = w] BY <1>1, <1>2, <1>5 DEF TimeoutPasses, CallsInv, CommandRow
<1>9. /\ applied' = applied
      /\ sendFaults' = f /\ callDrops' = d BY <1>1, <1>2 DEF TimeoutPasses
<1>10. audited' = audited BY <1>1, <1>2 DEF TimeoutPasses
<1>11. CallFits(u, w, c \in applied', Said(c)', sendFaults', callDrops')
  BY <1>1, <1>2, <1>4, <1>6, <1>9, <1>10 DEF CallFits, Said
<1>12. /\ applied' = applied \/ applied' = applied \cup {c}
       /\ audited \subseteq audited' /\ \A q \in audited' : q \in audited \/ q.c = c
       /\ sendFaults' \in Nat /\ callDrops' \in Nat
       /\ sendFaults' >= sendFaults /\ callDrops' >= callDrops BY <1>1, <1>9, <1>10
<1> QED BY <1>4, <1>6, <1>7, <1>8, <1>12, <1>11, CallMoves

LEMMA DrainReadKeepsCalls ==
  ASSUME CallsInv, NEW c \in Calls,
         NEW n \in Nat, NEW p \in {"inspect", "drain"}, call[c].pc = "drain",
         call' = [call EXCEPT ![c].got = n, ![c].pc = p],
         UNCHANGED <<applied, command, audited, sendFaults, callDrops>>
  PROVE  CallsInv'
<1>1. PICK r \in CallRow, m \in CommandRow, f \in Nat, d \in Nat :
        /\ r = call[c] /\ m = command[c] /\ f = sendFaults /\ d = callDrops
        /\ CallFits(r, m, c \in applied, Said(c), f, d) BY TheCall
<1>2. r.pc = "drain" BY <1>1 DEF CallRow
<1>3. PICK u : u = [r EXCEPT !.got = n, !.pc = p] OBVIOUS
<1>4. /\ u \in CallRow
      /\ u.pc = p /\ u.api = r.api /\ u.ok = r.ok BY <1>1, <1>2, <1>3 DEF CallRow
<1>5. PICK w : w = m OBVIOUS
<1>6. w \in CommandRow /\ w.state = m.state BY <1>1, <1>2, <1>5 DEF CommandRow
<1>7. call' = [call EXCEPT ![c] = u] BY <1>1, <1>2, <1>3 DEF CallRow, CallsInv, CallRow
<1>8. command' = [command EXCEPT ![c] = w] BY <1>1, <1>2, <1>5 DEF CallRow, CallsInv, CommandRow
<1>9. /\ applied' = applied
      /\ sendFaults' = f /\ callDrops' = d BY <1>1, <1>2 DEF CallRow
<1>10. audited' = audited BY <1>1, <1>2 DEF CallRow
<1>11. CallFits(u, w, c \in applied', Said(c)', sendFaults', callDrops')
  BY <1>1, <1>2, <1>4, <1>6, <1>9, <1>10 DEF CallFits, Said
<1>12. /\ applied' = applied \/ applied' = applied \cup {c}
       /\ audited \subseteq audited' /\ \A q \in audited' : q \in audited \/ q.c = c
       /\ sendFaults' \in Nat /\ callDrops' \in Nat
       /\ sendFaults' >= sendFaults /\ callDrops' >= callDrops BY <1>1, <1>9, <1>10
<1> QED BY <1>4, <1>6, <1>7, <1>8, <1>12, <1>11, CallMoves

LEMMA DrainLostKeepsCalls ==
  ASSUME CallsInv, NEW c \in Calls,
         call[c].pc = "drain", Faulty, Ends(c, FALSE),
         UNCHANGED <<applied, command, audited, callDrops>>
  PROVE  CallsInv'
<1>1. PICK r \in CallRow, m \in CommandRow, f \in Nat, d \in Nat :
        /\ r = call[c] /\ m = command[c] /\ f = sendFaults /\ d = callDrops
        /\ CallFits(r, m, c \in applied, Said(c), f, d) BY TheCall
<1>2. r.pc = "drain" BY <1>1 DEF Ends
<1>3. PICK p \in {"answered", "audit"} : p = IF ~r.api THEN "answered" ELSE "audit" BY <1>1, <1>2
<1>4. PICK u : u = [r EXCEPT !.pc = p, !.ok = FALSE] OBVIOUS
<1>5. /\ u \in CallRow
      /\ u.pc = p /\ u.api = r.api /\ u.ok = FALSE BY <1>1, <1>2, <1>3, <1>4 DEF CallRow
<1>6. PICK w : w = m OBVIOUS
<1>7. w \in CommandRow /\ w.state = m.state BY <1>1, <1>2, <1>3, <1>6 DEF CommandRow
<1>8. call' = [call EXCEPT ![c] = u] BY <1>1, <1>2, <1>3, <1>4 DEF Ends, Faulty, CallsInv, CallRow
<1>9. command' = [command EXCEPT ![c] = w] BY <1>1, <1>2, <1>3, <1>6 DEF Ends, Faulty, CallsInv, CommandRow
<1>10. /\ applied' = applied
       /\ sendFaults' = f + 1 /\ callDrops' = d BY <1>1, <1>2, <1>3 DEF Ends, Faulty
<1>11. audited' = audited BY <1>1, <1>2, <1>3 DEF Ends, Faulty
<1>12. CallFits(u, w, c \in applied', Said(c)', sendFaults', callDrops')
  BY <1>1, <1>2, <1>3, <1>5, <1>7, <1>10, <1>11 DEF CallFits, Said
<1>13. /\ applied' = applied \/ applied' = applied \cup {c}
       /\ audited \subseteq audited' /\ \A q \in audited' : q \in audited \/ q.c = c
       /\ sendFaults' \in Nat /\ callDrops' \in Nat
       /\ sendFaults' >= sendFaults /\ callDrops' >= callDrops BY <1>1, <1>10, <1>11
<1> QED BY <1>5, <1>7, <1>8, <1>9, <1>13, <1>12, CallMoves

LEMMA DrainExpiredKeepsCalls ==
  ASSUME CallsInv, NEW c \in Calls,
         DrainExpired(c)
  PROVE  CallsInv'
<1>1. PICK r \in CallRow, m \in CommandRow, f \in Nat, d \in Nat :
        /\ r = call[c] /\ m = command[c] /\ f = sendFaults /\ d = callDrops
        /\ CallFits(r, m, c \in applied, Said(c), f, d) BY TheCall
<1>2. r.pc = "drain" BY <1>1 DEF DrainExpired
<1>3. PICK u : u = [r EXCEPT !.pc = "inspect"] OBVIOUS
<1>4. /\ u \in CallRow
      /\ u.pc = "inspect" /\ u.api = r.api /\ u.ok = r.ok BY <1>1, <1>2, <1>3 DEF CallRow
<1>5. PICK w : w = m OBVIOUS
<1>6. w \in CommandRow /\ w.state = m.state BY <1>1, <1>2, <1>5 DEF CommandRow
<1>7. call' = [call EXCEPT ![c] = u] BY <1>1, <1>2, <1>3 DEF DrainExpired, Moves, CallsInv, CallRow
<1>8. command' = [command EXCEPT ![c] = w] BY <1>1, <1>2, <1>5 DEF DrainExpired, Moves, CallsInv, CommandRow
<1>9. /\ applied' = applied
      /\ sendFaults' = f /\ callDrops' = d BY <1>1, <1>2 DEF DrainExpired, Moves
<1>10. audited' = audited BY <1>1, <1>2 DEF DrainExpired, Moves
<1>11. CallFits(u, w, c \in applied', Said(c)', sendFaults', callDrops')
  BY <1>1, <1>2, <1>4, <1>6, <1>9, <1>10 DEF CallFits, Said
<1>12. /\ applied' = applied \/ applied' = applied \cup {c}
       /\ audited \subseteq audited' /\ \A q \in audited' : q \in audited \/ q.c = c
       /\ sendFaults' \in Nat /\ callDrops' \in Nat
       /\ sendFaults' >= sendFaults /\ callDrops' >= callDrops BY <1>1, <1>9, <1>10
<1> QED BY <1>4, <1>6, <1>7, <1>8, <1>12, <1>11, CallMoves

LEMMA LeftEndsKeepsCalls ==
  ASSUME CallsInv, NEW c \in Calls,
         call[c].pc = "inspect", Ends(c, TRUE),
         command' = [command EXCEPT ![c].state = IF @ = "running" THEN "terminated" ELSE @],
         UNCHANGED <<applied, audited, sendFaults, callDrops>>
  PROVE  CallsInv'
<1>1. PICK r \in CallRow, m \in CommandRow, f \in Nat, d \in Nat :
        /\ r = call[c] /\ m = command[c] /\ f = sendFaults /\ d = callDrops
        /\ CallFits(r, m, c \in applied, Said(c), f, d) BY TheCall
<1>2. r.pc = "inspect" BY <1>1 DEF Ends
<1>3. PICK p \in {"answered", "audit"} : p = IF ~r.api THEN "answered" ELSE "audit" BY <1>1, <1>2
<1>4. PICK v \in {"none", "exited", "terminated"} :
        v = IF m.state = "running" THEN "terminated" ELSE m.state BY <1>1, <1>2, <1>3 DEF CommandRow
<1>5. PICK u : u = [r EXCEPT !.pc = p, !.ok = TRUE] OBVIOUS
<1>6. /\ u \in CallRow
      /\ u.pc = p /\ u.api = r.api /\ u.ok = TRUE BY <1>1, <1>2, <1>3, <1>4, <1>5 DEF CallRow
<1>7. PICK w : w = [m EXCEPT !.state = v] OBVIOUS
<1>8. w \in CommandRow /\ w.state = v BY <1>1, <1>2, <1>3, <1>4, <1>7 DEF CommandRow
<1>9. call' = [call EXCEPT ![c] = u] BY <1>1, <1>2, <1>3, <1>4, <1>5 DEF Ends, CallsInv, CallRow
<1>10. command' = [command EXCEPT ![c] = w] BY <1>1, <1>2, <1>3, <1>4, <1>7 DEF Ends, CallsInv, CommandRow
<1>11. /\ applied' = applied
       /\ sendFaults' = f /\ callDrops' = d BY <1>1, <1>2, <1>3, <1>4 DEF Ends
<1>12. audited' = audited BY <1>1, <1>2, <1>3, <1>4 DEF Ends
<1>13. CallFits(u, w, c \in applied', Said(c)', sendFaults', callDrops')
  BY <1>1, <1>2, <1>3, <1>4, <1>6, <1>8, <1>11, <1>12 DEF CallFits, Said
<1>14. /\ applied' = applied \/ applied' = applied \cup {c}
       /\ audited \subseteq audited' /\ \A q \in audited' : q \in audited \/ q.c = c
       /\ sendFaults' \in Nat /\ callDrops' \in Nat
       /\ sendFaults' >= sendFaults /\ callDrops' >= callDrops BY <1>1, <1>11, <1>12
<1> QED BY <1>6, <1>8, <1>9, <1>10, <1>14, <1>13, CallMoves

LEMMA LeftRunsKeepsCalls ==
  ASSUME CallsInv, NEW c \in Calls,
         call[c].pc = "inspect", Ends(c, TRUE), Faulty,
         UNCHANGED <<applied, command, audited, callDrops>>
  PROVE  CallsInv'
<1>1. PICK r \in CallRow, m \in CommandRow, f \in Nat, d \in Nat :
        /\ r = call[c] /\ m = command[c] /\ f = sendFaults /\ d = callDrops
        /\ CallFits(r, m, c \in applied, Said(c), f, d) BY TheCall
<1>2. r.pc = "inspect" BY <1>1 DEF Ends
<1>3. PICK p \in {"answered", "audit"} : p = IF ~r.api THEN "answered" ELSE "audit" BY <1>1, <1>2
<1>4. PICK u : u = [r EXCEPT !.pc = p, !.ok = TRUE] OBVIOUS
<1>5. /\ u \in CallRow
      /\ u.pc = p /\ u.api = r.api /\ u.ok = TRUE BY <1>1, <1>2, <1>3, <1>4 DEF CallRow
<1>6. PICK w : w = m OBVIOUS
<1>7. w \in CommandRow /\ w.state = m.state BY <1>1, <1>2, <1>3, <1>6 DEF CommandRow
<1>8. call' = [call EXCEPT ![c] = u] BY <1>1, <1>2, <1>3, <1>4 DEF Ends, Faulty, CallsInv, CallRow
<1>9. command' = [command EXCEPT ![c] = w] BY <1>1, <1>2, <1>3, <1>6 DEF Ends, Faulty, CallsInv, CommandRow
<1>10. /\ applied' = applied
       /\ sendFaults' = f + 1 /\ callDrops' = d BY <1>1, <1>2, <1>3 DEF Ends, Faulty
<1>11. audited' = audited BY <1>1, <1>2, <1>3 DEF Ends, Faulty
<1>12. CallFits(u, w, c \in applied', Said(c)', sendFaults', callDrops')
  BY <1>1, <1>2, <1>3, <1>5, <1>7, <1>10, <1>11 DEF CallFits, Said
<1>13. /\ applied' = applied \/ applied' = applied \cup {c}
       /\ audited \subseteq audited' /\ \A q \in audited' : q \in audited \/ q.c = c
       /\ sendFaults' \in Nat /\ callDrops' \in Nat
       /\ sendFaults' >= sendFaults /\ callDrops' >= callDrops BY <1>1, <1>10, <1>11
<1> QED BY <1>5, <1>7, <1>8, <1>9, <1>13, <1>12, CallMoves

LEMMA AuditedKeepsCalls ==
  ASSUME CallsInv, NEW c \in Calls,
         call[c].pc = "audit", Moves(c, "answered"),
         audited' = audited \cup {[c |-> c, outcome |-> AuditOutcome(c)]},
         UNCHANGED <<applied, command, sendFaults, callDrops>>
  PROVE  CallsInv'
<1>1. PICK r \in CallRow, m \in CommandRow, f \in Nat, d \in Nat :
        /\ r = call[c] /\ m = command[c] /\ f = sendFaults /\ d = callDrops
        /\ CallFits(r, m, c \in applied, Said(c), f, d) BY TheCall
<1>2. r.pc = "audit" BY <1>1 DEF Moves
<1>3. PICK s \in {"success", "failure"} : s = AuditOutcome(c) /\ (s = "success" <=> r.ok)
  BY <1>1, <1>2 DEF AuditOutcome
<1>4. PICK u : u = [r EXCEPT !.pc = "answered"] OBVIOUS
<1>5. /\ u \in CallRow
      /\ u.pc = "answered" /\ u.api = r.api /\ u.ok = r.ok BY <1>1, <1>2, <1>3, <1>4 DEF CallRow
<1>6. PICK w : w = m OBVIOUS
<1>7. w \in CommandRow /\ w.state = m.state BY <1>1, <1>2, <1>3, <1>6 DEF CommandRow
<1>8. call' = [call EXCEPT ![c] = u] BY <1>1, <1>2, <1>3, <1>4 DEF Moves, CallsInv, CallRow
<1>9. command' = [command EXCEPT ![c] = w] BY <1>1, <1>2, <1>3, <1>6 DEF Moves, CallsInv, CommandRow
<1>10. /\ applied' = applied
       /\ sendFaults' = f /\ callDrops' = d BY <1>1, <1>2, <1>3 DEF Moves
<1>11. PICK entry : entry = [c |-> c, outcome |-> s] OBVIOUS
<1>12. audited' = audited \cup {entry} /\ entry.c = c /\ entry.outcome = s
  BY <1>1, <1>2, <1>3, <1>11 DEF Moves, AuditOutcome
<1>13. CallFits(u, w, c \in applied', Said(c)', sendFaults', callDrops')
  BY <1>1, <1>2, <1>3, <1>5, <1>7, <1>10, <1>12 DEF CallFits, Said
<1>14. /\ applied' = applied \/ applied' = applied \cup {c}
       /\ audited \subseteq audited' /\ \A q \in audited' : q \in audited \/ q.c = c
       /\ sendFaults' \in Nat /\ callDrops' \in Nat
       /\ sendFaults' >= sendFaults /\ callDrops' >= callDrops BY <1>1, <1>10, <1>12
<1> QED BY <1>5, <1>7, <1>8, <1>9, <1>14, <1>13, CallMoves

LEMMA NotAuditedKeepsCalls ==
  ASSUME CallsInv, NEW c \in Calls,
         call[c].pc = "audit", Faulty,
         call' = [call EXCEPT ![c].pc = "answered", ![c].ok = FALSE],
         UNCHANGED <<applied, command, audited, callDrops>>
  PROVE  CallsInv'
<1>1. PICK r \in CallRow, m \in CommandRow, f \in Nat, d \in Nat :
        /\ r = call[c] /\ m = command[c] /\ f = sendFaults /\ d = callDrops
        /\ CallFits(r, m, c \in applied, Said(c), f, d) BY TheCall
<1>2. r.pc = "audit" BY <1>1 DEF Faulty
<1>3. PICK u : u = [r EXCEPT !.pc = "answered", !.ok = FALSE] OBVIOUS
<1>4. /\ u \in CallRow
      /\ u.pc = "answered" /\ u.api = r.api /\ u.ok = FALSE BY <1>1, <1>2, <1>3 DEF CallRow
<1>5. PICK w : w = m OBVIOUS
<1>6. w \in CommandRow /\ w.state = m.state BY <1>1, <1>2, <1>5 DEF CommandRow
<1>7. call' = [call EXCEPT ![c] = u] BY <1>1, <1>2, <1>3 DEF Faulty, CallsInv, CallRow
<1>8. command' = [command EXCEPT ![c] = w] BY <1>1, <1>2, <1>5 DEF Faulty, CallsInv, CommandRow
<1>9. /\ applied' = applied
      /\ sendFaults' = f + 1 /\ callDrops' = d BY <1>1, <1>2 DEF Faulty
<1>10. audited' = audited BY <1>1, <1>2 DEF Faulty
<1>11. CallFits(u, w, c \in applied', Said(c)', sendFaults', callDrops')
  BY <1>1, <1>2, <1>4, <1>6, <1>9, <1>10 DEF CallFits, Said
<1>12. /\ applied' = applied \/ applied' = applied \cup {c}
       /\ audited \subseteq audited' /\ \A q \in audited' : q \in audited \/ q.c = c
       /\ sendFaults' \in Nat /\ callDrops' \in Nat
       /\ sendFaults' >= sendFaults /\ callDrops' >= callDrops BY <1>1, <1>9, <1>10
<1> QED BY <1>4, <1>6, <1>7, <1>8, <1>12, <1>11, CallMoves

LEMMA DropWaitsKeepsCalls ==
  ASSUME CallsInv, NEW c \in Calls,
         call[c].pc \in {"provision", "send", "drain", "inspect", "audit"},
         Moves(c, "dropped"), callDrops' = callDrops + 1, UNCHANGED <<applied, command, audited, sendFaults>>
  PROVE  CallsInv'
<1>1. PICK r \in CallRow, m \in CommandRow, f \in Nat, d \in Nat :
        /\ r = call[c] /\ m = command[c] /\ f = sendFaults /\ d = callDrops
        /\ CallFits(r, m, c \in applied, Said(c), f, d) BY TheCall
<1>2. r.pc # "answered" BY <1>1 DEF Moves
<1>3. PICK u : u = [r EXCEPT !.pc = "dropped"] OBVIOUS
<1>4. /\ u \in CallRow
      /\ u.pc = "dropped" /\ u.api = r.api /\ u.ok = r.ok BY <1>1, <1>2, <1>3 DEF CallRow
<1>5. PICK w : w = m OBVIOUS
<1>6. w \in CommandRow /\ w.state = m.state BY <1>1, <1>2, <1>5 DEF CommandRow
<1>7. call' = [call EXCEPT ![c] = u] BY <1>1, <1>2, <1>3 DEF Moves, CallsInv, CallRow
<1>8. command' = [command EXCEPT ![c] = w] BY <1>1, <1>2, <1>5 DEF Moves, CallsInv, CommandRow
<1>9. /\ applied' = applied
      /\ sendFaults' = f /\ callDrops' = d + 1 BY <1>1, <1>2 DEF Moves
<1>10. audited' = audited BY <1>1, <1>2 DEF Moves
<1>11. CallFits(u, w, c \in applied', Said(c)', sendFaults', callDrops')
  BY <1>1, <1>2, <1>4, <1>6, <1>9, <1>10 DEF CallFits, Said
<1>12. /\ applied' = applied \/ applied' = applied \cup {c}
       /\ audited \subseteq audited' /\ \A q \in audited' : q \in audited \/ q.c = c
       /\ sendFaults' \in Nat /\ callDrops' \in Nat
       /\ sendFaults' >= sendFaults /\ callDrops' >= callDrops BY <1>1, <1>9, <1>10
<1> QED BY <1>4, <1>6, <1>7, <1>8, <1>12, <1>11, CallMoves

LEMMA DropArrivesKeepsCalls ==
  ASSUME CallsInv, NEW c \in Calls,
         call[c].pc \in {"provision", "send", "drain", "inspect", "audit"},
         Moves(c, "dropped"), callDrops' = callDrops + 1, Carry(c), UNCHANGED <<audited, sendFaults>>
  PROVE  CallsInv'
<1>1. PICK r \in CallRow, m \in CommandRow, f \in Nat, d \in Nat :
        /\ r = call[c] /\ m = command[c] /\ f = sendFaults /\ d = callDrops
        /\ CallFits(r, m, c \in applied, Said(c), f, d) BY TheCall
<1>2. r.pc # "answered" BY <1>1 DEF Moves
<1>3. PICK v \in {"none", "running", "exited", "terminated"} :
        v = IF r.op = Exec THEN "running" ELSE m.state BY <1>1, <1>2 DEF CommandRow
<1>4. PICK u : u = [r EXCEPT !.pc = "dropped"] OBVIOUS
<1>5. /\ u \in CallRow
      /\ u.pc = "dropped" /\ u.api = r.api /\ u.ok = r.ok BY <1>1, <1>2, <1>3, <1>4 DEF CallRow
<1>6. PICK w : w = [m EXCEPT !.state = v] OBVIOUS
<1>7. w \in CommandRow /\ w.state = v BY <1>1, <1>2, <1>3, <1>6 DEF CommandRow
<1>8. call' = [call EXCEPT ![c] = u] BY <1>1, <1>2, <1>3, <1>4 DEF Moves, Carry, CallsInv, CallRow
<1>9. command' = [command EXCEPT ![c] = w] BY <1>1, <1>2, <1>3, <1>6 DEF Moves, Carry, CallsInv, CommandRow
<1>10. /\ applied' = applied \cup {c}
       /\ sendFaults' = f /\ callDrops' = d + 1 BY <1>1, <1>2, <1>3 DEF Moves, Carry
<1>11. audited' = audited BY <1>1, <1>2, <1>3 DEF Moves, Carry
<1>12. CallFits(u, w, c \in applied', Said(c)', sendFaults', callDrops')
  BY <1>1, <1>2, <1>3, <1>5, <1>7, <1>10, <1>11 DEF CallFits, Said
<1>13. /\ applied' = applied \/ applied' = applied \cup {c}
       /\ audited \subseteq audited' /\ \A q \in audited' : q \in audited \/ q.c = c
       /\ sendFaults' \in Nat /\ callDrops' \in Nat
       /\ sendFaults' >= sendFaults /\ callDrops' >= callDrops BY <1>1, <1>10, <1>11
<1> QED BY <1>5, <1>7, <1>8, <1>9, <1>13, <1>12, CallMoves

LEMMA DropEndsKeepsCalls ==
  ASSUME CallsInv, NEW c \in Calls,
         call[c].pc \in {"provision", "send", "drain", "inspect", "audit"},
         Moves(c, "dropped"), callDrops' = callDrops + 1, command[c].state = "running",
         command' = [command EXCEPT ![c].state = "terminated"], UNCHANGED <<applied, audited, sendFaults>>
  PROVE  CallsInv'
<1>1. PICK r \in CallRow, m \in CommandRow, f \in Nat, d \in Nat :
        /\ r = call[c] /\ m = command[c] /\ f = sendFaults /\ d = callDrops
        /\ CallFits(r, m, c \in applied, Said(c), f, d) BY TheCall
<1>2. r.pc # "answered" BY <1>1 DEF Moves
<1>3. PICK u : u = [r EXCEPT !.pc = "dropped"] OBVIOUS
<1>4. /\ u \in CallRow
      /\ u.pc = "dropped" /\ u.api = r.api /\ u.ok = r.ok BY <1>1, <1>2, <1>3 DEF CallRow
<1>5. PICK w : w = [m EXCEPT !.state = "terminated"] OBVIOUS
<1>6. w \in CommandRow /\ w.state = "terminated" BY <1>1, <1>2, <1>5 DEF CommandRow
<1>7. call' = [call EXCEPT ![c] = u] BY <1>1, <1>2, <1>3 DEF Moves, CallsInv, CallRow
<1>8. command' = [command EXCEPT ![c] = w] BY <1>1, <1>2, <1>5 DEF Moves, CallsInv, CommandRow
<1>9. /\ applied' = applied
      /\ sendFaults' = f /\ callDrops' = d + 1 BY <1>1, <1>2 DEF Moves
<1>10. audited' = audited BY <1>1, <1>2 DEF Moves
<1>11. CallFits(u, w, c \in applied', Said(c)', sendFaults', callDrops')
  BY <1>1, <1>2, <1>4, <1>6, <1>9, <1>10 DEF CallFits, Said
<1>12. /\ applied' = applied \/ applied' = applied \cup {c}
       /\ audited \subseteq audited' /\ \A q \in audited' : q \in audited \/ q.c = c
       /\ sendFaults' \in Nat /\ callDrops' \in Nat
       /\ sendFaults' >= sendFaults /\ callDrops' >= callDrops BY <1>1, <1>9, <1>10
<1> QED BY <1>4, <1>6, <1>7, <1>8, <1>12, <1>11, CallMoves

LEMMA DaemonDeadlineKeepsCalls ==
  ASSUME CallsInv, NEW c \in Calls,
         DaemonDeadline(c)
  PROVE  CallsInv'
<1>1. PICK r \in CallRow, m \in CommandRow, f \in Nat, d \in Nat :
        /\ r = call[c] /\ m = command[c] /\ f = sendFaults /\ d = callDrops
        /\ CallFits(r, m, c \in applied, Said(c), f, d) BY TheCall
<1>2. /\ m.state = "running" /\ r.pc \in {"dropped", "answered", "audit"} BY <1>1 DEF DaemonDeadline
<1>3. PICK u : u = r OBVIOUS
<1>4. /\ u \in CallRow
      /\ u.pc = r.pc /\ u.api = r.api /\ u.ok = r.ok BY <1>1, <1>2, <1>3 DEF CallRow
<1>5. PICK w : w = [m EXCEPT !.state = "terminated"] OBVIOUS
<1>6. w \in CommandRow /\ w.state = "terminated" BY <1>1, <1>2, <1>5 DEF CommandRow
<1>7. call' = [call EXCEPT ![c] = u] BY <1>1, <1>2, <1>3 DEF DaemonDeadline, CallsInv, CallRow
<1>8. command' = [command EXCEPT ![c] = w] BY <1>1, <1>2, <1>5 DEF DaemonDeadline, CallsInv, CommandRow
<1>9. /\ applied' = applied
      /\ sendFaults' = f /\ callDrops' = d BY <1>1, <1>2 DEF DaemonDeadline
<1>10. audited' = audited BY <1>1, <1>2 DEF DaemonDeadline
<1>11. CallFits(u, w, c \in applied', Said(c)', sendFaults', callDrops')
  BY <1>1, <1>2, <1>4, <1>6, <1>9, <1>10 DEF CallFits, Said
<1>12. /\ applied' = applied \/ applied' = applied \cup {c}
       /\ audited \subseteq audited' /\ \A q \in audited' : q \in audited \/ q.c = c
       /\ sendFaults' \in Nat /\ callDrops' \in Nat
       /\ sendFaults' >= sendFaults /\ callDrops' >= callDrops BY <1>1, <1>9, <1>10
<1> QED BY <1>4, <1>6, <1>7, <1>8, <1>12, <1>11, CallMoves

LEMMA CallsInitially ==
  ASSUME SandboxCallsInit PROVE CallsInv
<1>1. \A c \in Calls : CallFits(call[c], command[c], c \in applied, Said(c), sendFaults, callDrops)
  <2> TAKE c \in Calls
  <2>1. PICK r, m : r = NotCalled /\ m = NoCommand OBVIOUS
  <2>2. call[c] = r /\ command[c] = m /\ c \notin applied /\ Said(c) = {} BY <2>1 DEF SandboxCallsInit, Said
  <2> QED BY <2>2, <2>1 DEF CallFits, NotCalled, NoCommand
<1> QED BY <1>1 DEF SandboxCallsInit, CallsInv, NotCalled, NoCommand, CallRow, CommandRow, ApiOps

LEMMA CallsStep ==
  ASSUME CallsInv, [SandboxCallsNext]_scvars PROVE CallsInv'
<1>1. CASE UNCHANGED scvars BY <1>1 DEF scvars, CallsInv, Said
<1>2. ASSUME NEW c \in Calls, NEW o \in ApiOps, NEW a \in {"EDITOR", "VIEWER", "none"},
             CallApi(c, o, a)
      PROVE  CallsInv'
  <2>1. PICK p \in {"provision", "refused"} :
          call' = [call EXCEPT ![c] = [NotCalled EXCEPT !.op = o, !.pc = p]] BY <1>2 DEF CallApi
  <2>2. PICK u : u = [NotCalled EXCEPT !.op = o, !.pc = p] OBVIOUS
  <2> QED BY <2>1, <2>2, CalledKeepsCalls, <1>2 DEF NotCalled, CallRow, CallApi
<1>3. ASSUME NEW c \in Calls, NEW o \in ToolOps, CallTool(c, o) PROVE CallsInv'
  <2>1. PICK u : u = [NotCalled EXCEPT !.op = o, !.api = FALSE, !.pc = "provision"] OBVIOUS
  <2> QED BY CalledKeepsCalls, <2>1, <1>3 DEF NotCalled, CallRow, ToolOps, CallTool
<1>4. ASSUME NEW c \in Calls, Provision(c) PROVE CallsInv'
  BY <1>4, ProvisionGoesKeepsCalls, ProvisionFailsKeepsCalls DEF Provision
<1>5. ASSUME NEW c \in Calls, Send(c) PROVE CallsInv'
  BY <1>5, SendStartsKeepsCalls, SendDoneKeepsCalls, SendLostKeepsCalls, AnswerLostKeepsCalls DEF Send
<1>6. ASSUME NEW c \in Calls, DrainRead(c) PROVE CallsInv'
  <2>1. CASE Faulty
    <3>1. sendFaults' # sendFaults BY <2>1, TheCall DEF Faulty
    <3> QED BY <2>1, DrainLostKeepsCalls, <1>6, <3>1 DEF DrainRead
  <2>2. CASE ~Faulty
    <3>1. PICK m \in CommandRow : m = command[c] BY TheCall
    <3>2. PICK n \in Nat, p \in {"inspect", "drain"} : call' = [call EXCEPT ![c].got = n, ![c].pc = p]
      BY <1>6, <2>2, <3>1 DEF DrainRead, CommandRow
    <3> QED BY <1>6, <2>2, <3>2, DrainReadKeepsCalls DEF DrainRead
  <2> QED BY <2>1, <2>2
<1>7. ASSUME NEW c \in Calls, TerminateLeft(c) PROVE CallsInv'
  BY <1>7, LeftEndsKeepsCalls, LeftRunsKeepsCalls DEF TerminateLeft
<1>8. ASSUME NEW c \in Calls, Audit(c) PROVE CallsInv' BY <1>8, AuditedKeepsCalls, NotAuditedKeepsCalls DEF Audit
<1>9. ASSUME NEW c \in Calls, DropCall(c) PROVE CallsInv'
  BY <1>9, DropWaitsKeepsCalls, DropArrivesKeepsCalls, DropEndsKeepsCalls DEF DropCall
<1> QED
  BY <1>1, <1>2, <1>3, <1>4, <1>5, <1>6, <1>7, <1>8, <1>9, DrainExpiredKeepsCalls, CommandPrintsKeepsCalls,
    CommandExitsKeepsCalls, TimeoutPassesKeepsCalls, DaemonDeadlineKeepsCalls DEF SandboxCallsNext

LEMMA CallsFollow ==
  ASSUME CallsInv PROVE SandboxLogTrue /\ SandboxCallsTypeOK
<1>1. ASSUME NEW entry \in audited, entry.outcome = "success" PROVE entry.c \in applied
  BY TheCall, <1>1 DEF CallFits, CallsInv, Said
<1>2. ASSUME NEW c \in Calls
      PROVE  /\ call[c].pc = "answered" /\ call[c].ok =>
                  c \in applied /\ (call[c].api => Said(c) = {"success"})
             /\ c \in applied /\ call[c].op.changes /\ call[c].api /\ call[c].pc \in {"answered", "dropped"} =>
                  "success" \in Said(c) \/ sendFaults > 0 \/ callDrops > 0
             /\ call[c].pc = "answered" /\ command[c].state = "running" => sendFaults > 0
  <2>1. PICK r \in CallRow, m \in CommandRow, f \in Nat, d \in Nat :
          /\ r = call[c] /\ m = command[c] /\ f = sendFaults /\ d = callDrops
          /\ CallFits(r, m, c \in applied, Said(c), f, d) BY TheCall
  <2> QED BY <2>1 DEF CallFits
<1> QED BY <1>1, <1>2 DEF SandboxLogTrue, Said, SandboxCallsTypeOK, CallsInv, CallRow, CommandRow

\* Success, to a caller or in the log, is an operation the daemon carried out, and
\* a caller of the API is told of it only with a row that says so, whatever
\* requests or answers are lost and whenever a call is dropped (run_sandbox_op,
\* drain_terminal).
THEOREM CallsLogged == SandboxCallsSpec => [](SandboxLogTrue /\ SandboxCallsTypeOK)
<1>1. SandboxCallsInit => CallsInv BY CallsInitially
<1>2. CallsInv /\ [SandboxCallsNext]_scvars => CallsInv' BY CallsStep
<1>3. CallsInv => SandboxLogTrue /\ SandboxCallsTypeOK BY CallsFollow
<1> QED BY <1>1, <1>2, <1>3, PTL DEF SandboxCallsSpec

-----------------------------------------------------------------------------
(* The page of a terminal in the browser *)

Shows == (TerminalIds \X Nat) \cup {Garbled}
TtyRow == [life : Nat, mounted : BOOLEAN, generation : Nat, session : {0} \cup TerminalIds,
           output : Seq(Shows), cursor : Nat, ended : BOOLEAN, starting : BOOLEAN,
           sending : BOOLEAN, busy : BOOLEAN, target : {0} \cup TerminalIds]
TtyTaskRow == [kind : {"start", "reconnect", "loop", "read", "write", "control", "close"},
               life : Nat, gen : Nat, t : {0} \cup TerminalIds, after : Nat]
ShellRow == [state : {"none", "running", "ended"}, out : Nat]

\* A task k of the tab: it is about a terminal that was started, unless it
\* starts one, and it is no younger than the page p.
TtyTaskFits(k, p, rm) ==
    /\ k.kind = "start" <=> k.t = 0
    /\ k.t # 0 => rm[k.t].state # "none"
    /\ k.life <= p.life /\ (k.life = p.life => k.gen <= p.generation)

\* Shapes; nothing is known of a terminal that was not started.
PageRows(p, K, sv, rm, ls) ==
    /\ p \in TtyRow /\ K \subseteq TtyTaskRow /\ sv \in {0} \cup TerminalIds
    /\ rm \in [TerminalIds -> ShellRow] /\ ls \subseteq TerminalIds
    /\ \A t \in {p.session, p.target, sv} : t # 0 => rm[t].state # "none"
    /\ \A t \in ls : rm[t].state # "none"
    /\ \A k \in K : TtyTaskFits(k, p, rm)

One(S, b) == (b => \E k : S = {k}) /\ (~b => S = {})
LoopsOf(p, K)       == {k \in K : k.kind \in {"loop", "read"} /\ k.t = p.session}
StartsOf(p, K)      == {k \in K : k.kind = "start" /\ k.life = p.life /\ k.gen = p.generation}
OfKinds(p, K, kinds) == {k \in K : k.kind \in kinds /\ k.life = p.life}

\* The screen of an open terminal: its loop is the only one, of this visit and
\* generation, and a read under way asks from the cursor.
ScreenFits(p, K, sv, rm, ls) ==
    p.session # 0 =>
        /\ Shown(p.output, p.session, p.cursor) /\ p.cursor <= rm[p.session].out
        /\ sv = p.session /\ ~p.starting
        /\ One(LoopsOf(p, K), ~p.ended /\ p.session \notin ls)
        /\ \A k \in LoopsOf(p, K) : /\ k.life = p.life /\ k.gen = p.generation
                                    /\ k.kind = "read" => k.after = p.cursor

\* A button is off while its task works, and what is closed is what is open.
ButtonsFit(p, K) ==
    /\ One(StartsOf(p, K), p.starting)
    /\ One(OfKinds(p, K, {"write"}), p.sending)
    /\ One(OfKinds(p, K, {"control", "close"}), p.busy)
    /\ \A k \in K : k.kind = "close" => (k.life = p.life <=> k.t = p.session)

PageInv ==
    /\ PageRows(tty, ttyTasks, saved, remote, lost)
    /\ mixed \in BOOLEAN /\ ttyClicks \in Nat
    /\ tty.mounted /\ ~mixed =>
          ScreenFits(tty, ttyTasks, saved, remote, lost) /\ ButtonsFit(tty, ttyTasks)

LEMMA ThePage ==
  ASSUME PageInv
  PROVE  \E p \in TtyRow, K \in SUBSET TtyTaskRow, sv \in {0} \cup TerminalIds,
            rm \in [TerminalIds -> ShellRow], ls \in SUBSET TerminalIds :
            /\ p = tty /\ K = ttyTasks /\ sv = saved /\ rm = remote /\ ls = lost
            /\ PageRows(p, K, sv, rm, ls)
            /\ p.mounted /\ ~mixed => ScreenFits(p, K, sv, rm, ls) /\ ButtonsFit(p, K)
  BY DEF PageInv, PageRows

LEMMA PageBecomes ==
  ASSUME NEW p, NEW K, NEW sv, NEW rm, NEW ls,
         tty' = p, ttyTasks' = K, saved' = sv, remote' = rm, lost' = ls,
         PageRows(p, K, sv, rm, ls), mixed' \in BOOLEAN, ttyClicks' \in Nat,
         p.mounted /\ ~mixed' => ScreenFits(p, K, sv, rm, ls) /\ ButtonsFit(p, K)
  PROVE  PageInv'
  BY DEF PageInv

LEMMA ClicksCount ==
  ASSUME PageInv
  PROVE  /\ TtyClick => ttyClicks' \in Nat
         /\ UNCHANGED ttyBudget => ttyClicks' \in Nat
         /\ TtyFault => ttyClicks' \in Nat
  BY DEF PageInv, TtyClick, ttyBudget, TtyFault

\* A new task, and a task that is over.
LEMMA RowsMore ==
  ASSUME NEW p, NEW K, NEW sv, NEW rm, NEW ls, PageRows(p, K, sv, rm, ls),
         NEW x \in TtyTaskRow, TtyTaskFits(x, p, rm)
  PROVE  PageRows(p, K \cup {x}, sv, rm, ls)
  BY DEF PageRows

LEMMA RowsLess ==
  ASSUME NEW p, NEW K, NEW sv, NEW rm, NEW ls, PageRows(p, K, sv, rm, ls), NEW k
  PROVE  PageRows(p, K \ {k}, sv, rm, ls)
  BY DEF PageRows

LEMMA OneMore ==
  ASSUME NEW S, NEW x, One(S, FALSE) PROVE One(S \cup {x}, TRUE)
  BY DEF One

LEMMA OneLess ==
  ASSUME NEW S, NEW b \in BOOLEAN, One(S, b), NEW x \in S PROVE b /\ One(S \ {x}, FALSE)
  BY DEF One

\* The page changes in what tells nothing of its terminals.
LEMMA RowsOf ==
  ASSUME NEW p, NEW K, NEW sv, NEW rm, NEW ls, PageRows(p, K, sv, rm, ls), NEW n \in TtyRow,
         n.life = p.life, n.generation >= p.generation, n.session \in {0, p.session, sv},
         n.target \in {0, p.target}
  PROVE  PageRows(n, K, sv, rm, ls)
<1>1. \A k \in K : TtyTaskFits(k, n, rm)
  <2> TAKE k \in K
  <2> QED BY DEF TtyTaskFits, PageRows, TtyTaskRow, TtyRow
<1> QED BY <1>1 DEF PageRows

LEMMA LeavePageKeeps ==
  ASSUME PageInv, LeavePage PROVE PageInv'
<1>1. PICK p \in TtyRow, K \in SUBSET TtyTaskRow, sv \in {0} \cup TerminalIds,
           rm \in [TerminalIds -> ShellRow], ls \in SUBSET TerminalIds :
        /\ p = tty /\ K = ttyTasks /\ sv = saved /\ rm = remote /\ ls = lost
        /\ PageRows(p, K, sv, rm, ls)
        /\ p.mounted /\ ~mixed => ScreenFits(p, K, sv, rm, ls) /\ ButtonsFit(p, K) BY ThePage
<1>2. PICK n : n = [p EXCEPT !.mounted = FALSE] OBVIOUS
<1>3. /\ n \in TtyRow /\ n.mounted = FALSE /\ n.life = p.life /\ n.generation = p.generation
      /\ n.session = p.session /\ n.target = p.target BY <1>2 DEF TtyRow
<1>4. PageRows(n, K, sv, rm, ls)
  <2>1. n.generation >= p.generation BY <1>3 DEF TtyRow
  <2> QED BY <1>1, <1>3, <2>1, RowsOf
<1> QED BY <1>3, <1>4, PageBecomes, <1>1, <1>2, ClicksCount DEF LeavePage, PageInv

\* A page that has just been mounted: no task is of this visit.
LEMMA FreshFits ==
  ASSUME NEW p \in TtyRow, NEW K, NEW sv, NEW rm, NEW ls, PageRows(p, K, sv, rm, ls),
         NEW n, NEW K2 \in SUBSET K,
         n = [life |-> p.life + 1, mounted |-> TRUE, generation |-> 0, session |-> 0,
              output |-> <<>>, cursor |-> 0, ended |-> FALSE, starting |-> FALSE,
              sending |-> FALSE, busy |-> FALSE, target |-> sv]
  PROVE  /\ PageRows(n, K2, sv, rm, ls)
         /\ ScreenFits(n, K2, sv, rm, ls) /\ ButtonsFit(n, K2)
<1>1. /\ n \in TtyRow /\ n.life = p.life + 1 /\ n.generation = 0 /\ n.session = 0 /\ ~n.starting
      /\ ~n.sending /\ ~n.busy /\ n.target = sv BY DEF TtyRow, PageRows
<1>2. \A k \in K2 : /\ k \in TtyTaskRow /\ TtyTaskFits(k, p, rm) /\ k.life <= p.life
                    /\ k.life \in Nat /\ p.life \in Nat BY DEF PageRows, TtyTaskFits, TtyTaskRow, TtyRow
<1>3. ScreenFits(n, K2, sv, rm, ls) BY <1>1 DEF ScreenFits
<1>4. ButtonsFit(n, K2) BY <1>1, <1>2 DEF ButtonsFit, One, StartsOf, OfKinds, TtyTaskFits
<1> QED BY <1>3, <1>4, <1>1, <1>2 DEF PageRows, TtyTaskFits

LEMMA VisitsKeep ==
  ASSUME PageInv, VisitPage \/ ReloadTab PROVE PageInv'
<1>1. PICK p \in TtyRow, K \in SUBSET TtyTaskRow, sv \in {0} \cup TerminalIds,
           rm \in [TerminalIds -> ShellRow], ls \in SUBSET TerminalIds :
        /\ p = tty /\ K = ttyTasks /\ sv = saved /\ rm = remote /\ ls = lost
        /\ PageRows(p, K, sv, rm, ls)
        /\ p.mounted /\ ~mixed => ScreenFits(p, K, sv, rm, ls) /\ ButtonsFit(p, K) BY ThePage
<1>2. PICK n : n = [life |-> p.life + 1, mounted |-> TRUE, generation |-> 0, session |-> 0,
              output |-> <<>>, cursor |-> 0, ended |-> FALSE, starting |-> FALSE,
              sending |-> FALSE, busy |-> FALSE, target |-> sv] OBVIOUS
<1>3. PICK K2 \in SUBSET K : ttyTasks' = K2 BY <1>1 DEF VisitPage, ReloadTab
<1> QED BY <1>3, PageBecomes, <1>1, <1>2, FreshFits DEF VisitPage, ReloadTab, FreshPage, PageInv

\* A button starts a task that will enable it again.
LEMMA TaskBegins ==
  ASSUME NEW p \in TtyRow, NEW K, NEW sv, NEW rm, NEW ls, PageRows(p, K, sv, rm, ls),
         NEW kind \in {"write", "control", "close"}, NEW n \in TtyRow,
         p.session # 0, n.life = p.life, n.mounted = p.mounted, n.generation = p.generation,
         n.session = p.session, n.output = p.output, n.cursor = p.cursor, n.ended = p.ended,
         n.starting = p.starting, n.target = p.target,
         NEW x, x = [kind |-> kind, life |-> p.life, gen |-> 0, t |-> p.session, after |-> 0]
  PROVE  /\ PageRows(n, K \cup {x}, sv, rm, ls)
         /\ ScreenFits(p, K, sv, rm, ls) => ScreenFits(n, K \cup {x}, sv, rm, ls)
         /\ ButtonsFit(p, K) /\ kind = "write" /\ ~p.sending /\ n.sending /\ n.busy = p.busy
               => ButtonsFit(n, K \cup {x})
         /\ ButtonsFit(p, K) /\ kind # "write" /\ ~p.busy /\ n.busy /\ n.sending = p.sending
               => ButtonsFit(n, K \cup {x})
<1>1. /\ x \in TtyTaskRow /\ x.kind = kind /\ x.life = p.life /\ x.gen = 0 /\ x.t = p.session
      /\ p.life \in Nat /\ p.generation \in Nat BY DEF TtyTaskRow, TtyRow
<1>2. PageRows(n, K, sv, rm, ls) BY RowsOf, <1>1
<1>3. TtyTaskFits(x, n, rm) BY <1>1 DEF TtyTaskFits, PageRows
<1>4. LoopsOf(n, K \cup {x}) = LoopsOf(p, K) /\ StartsOf(n, K \cup {x}) = StartsOf(p, K) BY <1>1 DEF LoopsOf, StartsOf
<1>5. ASSUME \A k \in K : k.kind = "close" => (k.life = p.life <=> k.t = p.session),
             NEW q \in K \cup {x}, q.kind = "close"
      PROVE  q.life = n.life <=> q.t = n.session
  <2>1. CASE q = x BY <1>1, <2>1
  <2>2. CASE q # x BY <1>5, <2>2
  <2> QED BY <2>1, <2>2
<1>6. ASSUME ButtonsFit(p, K), kind = "write", ~p.sending, n.sending, n.busy = p.busy
      PROVE  ButtonsFit(n, K \cup {x})
  <2>1. OfKinds(n, K \cup {x}, {"write"}) = OfKinds(p, K, {"write"}) \cup {x} BY <1>1, <1>6 DEF OfKinds
  <2>2. OfKinds(n, K \cup {x}, {"control", "close"}) = OfKinds(p, K, {"control", "close"}) BY <1>1, <1>6 DEF OfKinds
  <2>3. One(OfKinds(p, K, {"write"}), FALSE) BY <1>6 DEF ButtonsFit, One
  <2>4. One(OfKinds(n, K \cup {x}, {"write"}), n.sending) BY <1>6, <2>1, <2>3, OneMore DEF One
  <2> QED BY <1>4, <1>5, <1>6, <2>2, <2>4 DEF ButtonsFit
<1>7. ASSUME ButtonsFit(p, K), kind # "write", ~p.busy, n.busy, n.sending = p.sending
      PROVE  ButtonsFit(n, K \cup {x})
  <2>1. OfKinds(n, K \cup {x}, {"write"}) = OfKinds(p, K, {"write"}) BY <1>1, <1>7 DEF OfKinds
  <2>2. One(OfKinds(n, K \cup {x}, {"control", "close"}), n.busy) BY <1>7, OneMore, <1>1 DEF One, OfKinds, ButtonsFit
  <2> QED BY <1>4, <1>5, <1>7, <2>1, <2>2 DEF ButtonsFit
<1> QED BY <1>6, <1>7, <1>4, <1>1, <1>2, <1>3, RowsMore DEF ScreenFits

LEMMA SendLineKeeps ==
  ASSUME PageInv, SendLine PROVE PageInv'
<1>1. PICK p \in TtyRow, K \in SUBSET TtyTaskRow, sv \in {0} \cup TerminalIds,
           rm \in [TerminalIds -> ShellRow], ls \in SUBSET TerminalIds :
        /\ p = tty /\ K = ttyTasks /\ sv = saved /\ rm = remote /\ ls = lost
        /\ PageRows(p, K, sv, rm, ls)
        /\ p.mounted /\ ~mixed => ScreenFits(p, K, sv, rm, ls) /\ ButtonsFit(p, K) BY ThePage
<1>2. PICK n : n = [p EXCEPT !.sending = TRUE] OBVIOUS
<1>3. /\ n \in TtyRow /\ n.life = p.life /\ n.mounted = p.mounted
      /\ n.generation = p.generation /\ n.session = p.session /\ n.output = p.output
      /\ n.cursor = p.cursor /\ n.ended = p.ended /\ n.starting = p.starting
      /\ n.target = p.target /\ n.sending = TRUE /\ n.busy = p.busy BY <1>2 DEF TtyRow
<1>4. PICK x : x = [kind |-> "write", life |-> p.life, gen |-> 0, t |-> p.session, after |-> 0] OBVIOUS
<1>5. /\ tty' = n /\ ttyTasks' = K \cup {x} /\ saved' = sv /\ remote' = rm /\ lost' = ls
      /\ mixed' = mixed /\ mixed \in BOOLEAN /\ p.session # 0 /\ ~p.sending
  BY <1>1, <1>2, <1>4 DEF SendLine, TtyTask, PageInv
<1>6. /\ PageRows(n, K \cup {x}, sv, rm, ls)
      /\ ScreenFits(p, K, sv, rm, ls) => ScreenFits(n, K \cup {x}, sv, rm, ls)
      /\ ButtonsFit(p, K) => ButtonsFit(n, K \cup {x}) BY <1>1, <1>3, <1>4, <1>5, TaskBegins
<1> QED BY <1>1, <1>3, <1>5, <1>6, PageBecomes, ClicksCount DEF SendLine

LEMMA ResizeKeeps ==
  ASSUME PageInv, ResizeOrInterrupt PROVE PageInv'
<1>1. PICK p \in TtyRow, K \in SUBSET TtyTaskRow, sv \in {0} \cup TerminalIds,
           rm \in [TerminalIds -> ShellRow], ls \in SUBSET TerminalIds :
        /\ p = tty /\ K = ttyTasks /\ sv = saved /\ rm = remote /\ ls = lost
        /\ PageRows(p, K, sv, rm, ls)
        /\ p.mounted /\ ~mixed => ScreenFits(p, K, sv, rm, ls) /\ ButtonsFit(p, K) BY ThePage
<1>2. PICK n : n = [p EXCEPT !.busy = TRUE] OBVIOUS
<1>3. /\ n \in TtyRow /\ n.life = p.life /\ n.mounted = p.mounted
      /\ n.generation = p.generation /\ n.session = p.session /\ n.output = p.output
      /\ n.cursor = p.cursor /\ n.ended = p.ended /\ n.starting = p.starting
      /\ n.target = p.target /\ n.busy = TRUE /\ n.sending = p.sending BY <1>2 DEF TtyRow
<1>4. PICK x : x = [kind |-> "control", life |-> p.life, gen |-> 0, t |-> p.session, after |-> 0] OBVIOUS
<1>5. /\ tty' = n /\ ttyTasks' = K \cup {x} /\ saved' = sv /\ remote' = rm /\ lost' = ls
      /\ mixed' = mixed /\ mixed \in BOOLEAN /\ p.session # 0 /\ ~p.busy
  BY <1>1, <1>2, <1>4 DEF ResizeOrInterrupt, TtyTask, PageInv
<1>6. ttyClicks' \in Nat BY ClicksCount DEF ResizeOrInterrupt
<1> QED BY <1>1, <1>3, <1>5, <1>6, PageBecomes, <1>4, TaskBegins

LEMMA CloseTerminalKeeps ==
  ASSUME PageInv, CloseTerminal PROVE PageInv'
<1>1. PICK p \in TtyRow, K \in SUBSET TtyTaskRow, sv \in {0} \cup TerminalIds,
           rm \in [TerminalIds -> ShellRow], ls \in SUBSET TerminalIds :
        /\ p = tty /\ K = ttyTasks /\ sv = saved /\ rm = remote /\ ls = lost
        /\ PageRows(p, K, sv, rm, ls)
        /\ p.mounted /\ ~mixed => ScreenFits(p, K, sv, rm, ls) /\ ButtonsFit(p, K) BY ThePage
<1>2. PICK n : n = [p EXCEPT !.busy = TRUE] OBVIOUS
<1>3. /\ n \in TtyRow /\ n.life = p.life /\ n.mounted = p.mounted
      /\ n.generation = p.generation /\ n.session = p.session /\ n.output = p.output
      /\ n.cursor = p.cursor /\ n.ended = p.ended /\ n.starting = p.starting
      /\ n.target = p.target /\ n.busy = TRUE /\ n.sending = p.sending BY <1>2 DEF TtyRow
<1>4. PICK x : x = [kind |-> "close", life |-> p.life, gen |-> 0, t |-> p.session, after |-> 0] OBVIOUS
<1>5. /\ tty' = n /\ ttyTasks' = K \cup {x} /\ saved' = sv /\ remote' = rm /\ lost' = ls
      /\ mixed' = mixed /\ mixed \in BOOLEAN /\ p.session # 0 /\ ~p.busy
  BY <1>1, <1>2, <1>4 DEF CloseTerminal, TtyTask, PageInv
<1>6. ttyClicks' \in Nat BY ClicksCount DEF CloseTerminal
<1> QED BY <1>1, <1>3, <1>5, <1>6, PageBecomes, <1>4, TaskBegins

\* A task ends and enables its button again; it may have ended the terminal.
LEMMA TaskOver ==
  ASSUME NEW p \in TtyRow, NEW K, NEW sv, NEW rm, NEW ls, PageRows(p, K, sv, rm, ls),
         NEW k \in K, k.kind \in {"write", "control", "close"}, NEW n \in TtyRow,
         n.life = p.life, n.mounted = p.mounted, n.generation = p.generation,
         n.session = p.session, n.output = p.output, n.cursor = p.cursor, n.ended = p.ended,
         n.starting = p.starting, n.target = p.target,
         k.life = p.life /\ k.kind = "write" => ~n.sending /\ n.busy = p.busy,
         k.life = p.life /\ k.kind # "write" => ~n.busy /\ n.sending = p.sending,
         k.life # p.life => n.busy = p.busy /\ n.sending = p.sending
  PROVE  /\ PageRows(n, K \ {k}, sv, rm, ls)
         /\ ScreenFits(p, K, sv, rm, ls) => ScreenFits(n, K \ {k}, sv, rm, ls)
         /\ ButtonsFit(p, K) => ButtonsFit(n, K \ {k})
<1>1. PageRows(n, K, sv, rm, ls)
  <2>1. n.generation >= p.generation BY DEF TtyRow
  <2> QED BY <2>1, RowsOf
<1>2. LoopsOf(n, K \ {k}) = LoopsOf(p, K) /\ StartsOf(n, K \ {k}) = StartsOf(p, K) BY DEF LoopsOf, StartsOf
<1>3. /\ OfKinds(n, K \ {k}, {"write"}) = OfKinds(p, K, {"write"}) \ {k}
      /\ OfKinds(n, K \ {k}, {"control", "close"}) = OfKinds(p, K, {"control", "close"}) \ {k} BY DEF OfKinds
<1>4. p.sending \in BOOLEAN /\ p.busy \in BOOLEAN /\ n.sending \in BOOLEAN /\ n.busy \in BOOLEAN BY DEF TtyRow
<1>5. ASSUME ButtonsFit(p, K) PROVE ButtonsFit(n, K \ {k})
  <2>1. One(OfKinds(n, K \ {k}, {"write"}), n.sending)
    <3>1. One(OfKinds(p, K, {"write"}), p.sending) BY <1>5 DEF ButtonsFit
    <3>2. CASE k \in OfKinds(p, K, {"write"}) BY <1>3, <1>4, <3>1, <3>2, OneLess DEF One, OfKinds
    <3>3. CASE k \notin OfKinds(p, K, {"write"})
      <4>1. n.sending = p.sending BY <3>3 DEF OfKinds
      <4> QED BY <1>3, <3>1, <3>3, <4>1 DEF One
    <3> QED BY <3>2, <3>3
  <2>2. One(OfKinds(n, K \ {k}, {"control", "close"}), n.busy)
    <3>1. One(OfKinds(p, K, {"control", "close"}), p.busy) BY <1>5 DEF ButtonsFit
    <3>2. CASE k \in OfKinds(p, K, {"control", "close"}) BY <1>3, <1>4, <3>1, <3>2, OneLess DEF One, OfKinds
    <3>3. CASE k \notin OfKinds(p, K, {"control", "close"})
      <4>1. n.busy = p.busy BY <3>3 DEF OfKinds
      <4> QED BY <1>3, <3>1, <3>3, <4>1 DEF One
    <3> QED BY <3>2, <3>3
  <2> QED BY <1>2, <1>5, <2>1, <2>2 DEF ButtonsFit
<1> QED BY <1>5, <1>1, RowsLess, <1>2 DEF ScreenFits

\* The server's terminals go on: one that was started stays so, and prints.
GoesOn(rm, r2) ==
    /\ r2 \in [TerminalIds -> ShellRow]
    /\ \A t \in TerminalIds : rm[t].state # "none" => r2[t].state # "none" /\ r2[t].out >= rm[t].out

LEMMA PageGoesOn ==
  ASSUME NEW p \in TtyRow, NEW K, NEW sv, NEW rm, NEW ls, PageRows(p, K, sv, rm, ls),
         NEW r2, GoesOn(rm, r2)
  PROVE  /\ PageRows(p, K, sv, r2, ls)
         /\ ScreenFits(p, K, sv, rm, ls) => ScreenFits(p, K, sv, r2, ls)
<1>1. p.session \in {0} \cup TerminalIds /\ p.target \in {0} \cup TerminalIds /\ p.cursor \in Nat BY DEF TtyRow
<1>2. PageRows(p, K, sv, r2, ls)
  <2>1. \A k \in K : TtyTaskFits(k, p, r2)
    <3> TAKE k \in K
    <3> QED BY DEF TtyTaskFits, GoesOn, PageRows, TtyTaskRow
  <2>2. \A t \in {p.session, p.target, sv} : t # 0 => r2[t].state # "none"
    <3> TAKE t \in {p.session, p.target, sv}
    <3> HAVE t # 0
    <3> QED BY <1>1 DEF GoesOn, PageRows
  <2> QED BY <2>1, <2>2 DEF PageRows, GoesOn
<1>3. ASSUME ScreenFits(p, K, sv, rm, ls) PROVE ScreenFits(p, K, sv, r2, ls)
  <2>1. p.session # 0 => p.cursor <= r2[p.session].out
    <3> HAVE p.session # 0
    <3>1. PICK t : t = p.session /\ t \in TerminalIds BY <1>1
    <3> QED BY <1>1, <3>1, <1>3 DEF GoesOn, PageRows, ShellRow, ScreenFits
  <2> QED BY <1>3, <2>1 DEF ScreenFits
<1> QED BY <1>2, <1>3

LEMMA ShellsGoOn ==
  ASSUME remote \in [TerminalIds -> ShellRow]
  PROVE  /\ GoesOn(remote, remote)
         /\ \A t : GoesOn(remote, Terminated(t))
         /\ \A t \in TerminalIds : ShellPrints(t) => GoesOn(remote, remote')
<1>1. \A t \in TerminalIds : remote[t] \in ShellRow /\ remote[t].out \in Nat BY DEF ShellRow
<1>2. GoesOn(remote, remote) BY <1>1 DEF GoesOn
<1>3. ASSUME NEW t PROVE GoesOn(remote, Terminated(t))
  <2>1. CASE t \in TerminalIds
    <3>1. PICK m \in ShellRow : m = remote[t] BY <1>1, <2>1
    <3>2. PICK s \in {"none", "running", "ended"} :
            s = (IF m.state = "running" THEN "ended" ELSE m.state) /\ (s = "none" => m.state = "none") BY DEF ShellRow
    <3>3. PICK u : u = [m EXCEPT !.state = s] OBVIOUS
    <3>4. u \in ShellRow /\ u.state = s /\ u.out = m.out /\ m.out \in Nat BY <3>3 DEF ShellRow
    <3>5. PICK r2 : r2 = [remote EXCEPT ![t] = u] OBVIOUS
    <3>6. r2 \in [TerminalIds -> ShellRow] /\ \A q \in TerminalIds : r2[q] = IF q = t THEN u ELSE remote[q]
      BY <3>4, <3>5
    <3>7. ASSUME NEW q \in TerminalIds, remote[q].state # "none"
          PROVE  r2[q].state # "none" /\ r2[q].out >= remote[q].out
      <4>1. CASE q = t BY <3>1, <3>2, <3>4, <3>6, <3>7, <4>1
      <4>2. CASE q # t BY <1>1, <3>6, <3>7, <4>2
      <4> QED BY <4>1, <4>2
    <3> QED BY <3>6, <3>7, <2>1, <3>1, <3>2, <3>3, <3>5 DEF GoesOn, Terminated, ShellRow
  <2>2. CASE t \notin TerminalIds BY <1>2, <2>2 DEF Terminated
  <2> QED BY <2>1, <2>2
<1>4. ASSUME NEW t \in TerminalIds, ShellPrints(t) PROVE GoesOn(remote, remote')
  <2>1. PICK m \in ShellRow : m = remote[t] /\ m.out \in Nat BY <1>1
  <2>2. PICK v \in Nat : v = m.out + 1 BY <2>1
  <2>3. PICK u : u = [m EXCEPT !.out = v] OBVIOUS
  <2>4. u \in ShellRow /\ u.state = m.state /\ u.out = v BY <2>3 DEF ShellRow
  <2>5. remote' \in [TerminalIds -> ShellRow] /\ \A q \in TerminalIds : remote'[q] = IF q = t THEN u ELSE remote[q]
    BY <2>4, <1>4, <2>1, <2>2, <2>3 DEF ShellPrints, ShellRow
  <2>6. ASSUME NEW q \in TerminalIds, remote[q].state # "none"
        PROVE  remote'[q].state # "none" /\ remote'[q].out >= remote[q].out
    <3>1. CASE q = t BY <2>1, <2>2, <2>4, <2>5, <2>6, <3>1
    <3>2. CASE q # t BY <1>1, <2>5, <2>6, <3>2
    <3> QED BY <3>1, <3>2
  <2> QED BY <2>5, <2>6 DEF GoesOn
<1> QED BY <1>2, <1>3, <1>4

\* A terminal is made: it was not there before.
LEMMA ANewTerminal ==
  ASSUME remote \in [TerminalIds -> ShellRow], CanStart
  PROVE  /\ GoesOn(remote, Created) /\ NextTerminal \in TerminalIds
         /\ remote[NextTerminal].state = "none" /\ Created[NextTerminal].state # "none"
         /\ Created[NextTerminal].out = 0
<1>1. \E t \in TerminalIds : remote[t].state = "none" /\ \A u \in 1 .. t - 1 : remote[u].state # "none"
  <2> DEFINE free == {t \in TerminalIds : remote[t].state = "none"}
  <2>1. free \subseteq Nat /\ free # {} BY DEF CanStart, TerminalIds
  <2>2. PICK t \in free : \A u \in free : t <= u BY <2>1, LeastNumber
  <2>3. \A u \in 1 .. t - 1 : u \in TerminalIds /\ ~(t <= u) BY PageAssumption DEF TerminalIds
  <2> QED BY <2>2, <2>3
<1>2. PICK t : t = NextTerminal OBVIOUS
<1>3. t \in TerminalIds /\ remote[t].state = "none" BY <1>1, <1>2 DEF NextTerminal
<1>4. PICK u : u = [state |-> "running", out |-> 0] OBVIOUS
<1>5. u \in ShellRow /\ u.state = "running" /\ u.out = 0 BY <1>4 DEF ShellRow
<1>6. PICK r2 : r2 = [remote EXCEPT ![t] = u] OBVIOUS
<1>7. r2 \in [TerminalIds -> ShellRow] /\ \A q \in TerminalIds : r2[q] = IF q = t THEN u ELSE remote[q] BY <1>5, <1>6
<1>8. ASSUME NEW q \in TerminalIds, remote[q].state # "none"
      PROVE  r2[q].state # "none" /\ r2[q].out >= remote[q].out BY <1>8, <1>3, <1>7 DEF ShellRow
<1> QED BY <1>2, <1>3, <1>5, <1>7, <1>4, <1>6, <1>8 DEF Created, GoesOn

LEMMA LineAnsweredKeeps ==
  ASSUME PageInv, NEW k \in ttyTasks, LineAnswered(k) PROVE PageInv'
<1>1. PICK p \in TtyRow, K \in SUBSET TtyTaskRow, sv \in {0} \cup TerminalIds,
           rm \in [TerminalIds -> ShellRow], ls \in SUBSET TerminalIds :
        /\ p = tty /\ K = ttyTasks /\ sv = saved /\ rm = remote /\ ls = lost
        /\ PageRows(p, K, sv, rm, ls)
        /\ p.mounted /\ ~mixed => ScreenFits(p, K, sv, rm, ls) /\ ButtonsFit(p, K) BY ThePage
<1>2. PICK n : n = IF OnPage(k) THEN [p EXCEPT !.sending = FALSE] ELSE p OBVIOUS
<1>3. /\ n \in TtyRow /\ n.life = p.life /\ n.mounted = p.mounted
      /\ n.generation = p.generation /\ n.session = p.session /\ n.output = p.output
      /\ n.cursor = p.cursor /\ n.ended = p.ended /\ n.starting = p.starting
      /\ n.target = p.target /\ n.busy = p.busy BY <1>2 DEF TtyRow
<1>4. n.sending = IF OnPage(k) THEN FALSE ELSE p.sending BY <1>2 DEF TtyRow
<1>5. /\ tty' = n /\ ttyTasks' = K \ {k} /\ saved' = sv /\ lost' = ls
      /\ mixed' = mixed /\ mixed \in BOOLEAN BY <1>1, <1>2 DEF LineAnswered, TaskEnds, PageInv
<1>6. GoesOn(rm, remote') BY <1>1, ShellsGoOn DEF LineAnswered
<1>7. ttyClicks' \in Nat BY ClicksCount DEF LineAnswered
<1>8. CASE p.mounted
  <2>1. k.life # p.life => n.sending = p.sending BY <1>1, <1>4, <1>8 DEF OnPage
  <2>2. /\ PageRows(n, K \ {k}, sv, rm, ls)
        /\ ScreenFits(p, K, sv, rm, ls) => ScreenFits(n, K \ {k}, sv, rm, ls)
        /\ ButtonsFit(p, K) => ButtonsFit(n, K \ {k})
    BY <1>1, <1>3, <2>1, TaskOver, <1>4, <1>8 DEF LineAnswered, OnPage
  <2> QED BY <1>1, <1>3, <1>5, <1>7, <2>2, PageBecomes, <1>6, PageGoesOn
<1>9. CASE ~p.mounted
  <2>1. PageRows(n, K \ {k}, sv, remote', ls) BY <1>1, <1>6, PageGoesOn, RowsLess, <1>2, <1>9 DEF OnPage
  <2> QED BY <1>3, <1>5, <1>7, <1>9, <2>1, PageBecomes
<1> QED BY <1>8, <1>9

LEMMA ControlAnsweredKeeps ==
  ASSUME PageInv, NEW k \in ttyTasks, ControlAnswered(k) PROVE PageInv'
<1>1. PICK p \in TtyRow, K \in SUBSET TtyTaskRow, sv \in {0} \cup TerminalIds,
           rm \in [TerminalIds -> ShellRow], ls \in SUBSET TerminalIds :
        /\ p = tty /\ K = ttyTasks /\ sv = saved /\ rm = remote /\ ls = lost
        /\ PageRows(p, K, sv, rm, ls)
        /\ p.mounted /\ ~mixed => ScreenFits(p, K, sv, rm, ls) /\ ButtonsFit(p, K) BY ThePage
<1>2. PICK n : n = IF OnPage(k) THEN [p EXCEPT !.busy = FALSE] ELSE p OBVIOUS
<1>3. /\ n \in TtyRow /\ n.life = p.life /\ n.mounted = p.mounted
      /\ n.generation = p.generation /\ n.session = p.session /\ n.output = p.output
      /\ n.cursor = p.cursor /\ n.ended = p.ended /\ n.starting = p.starting
      /\ n.target = p.target /\ n.sending = p.sending BY <1>2 DEF TtyRow
<1>4. n.busy = IF OnPage(k) THEN FALSE ELSE p.busy BY <1>2 DEF TtyRow
<1>5. /\ tty' = n /\ ttyTasks' = K \ {k} /\ saved' = sv /\ lost' = ls
      /\ mixed' = mixed /\ mixed \in BOOLEAN BY <1>1, <1>2 DEF ControlAnswered, TaskEnds, PageInv
<1>6. GoesOn(rm, remote') BY <1>1, ShellsGoOn DEF ControlAnswered
<1>7. ttyClicks' \in Nat BY ClicksCount DEF ControlAnswered
<1>8. CASE p.mounted
  <2>1. k.life # p.life => n.busy = p.busy BY <1>1, <1>4, <1>8 DEF OnPage
  <2>2. /\ PageRows(n, K \ {k}, sv, rm, ls)
        /\ ScreenFits(p, K, sv, rm, ls) => ScreenFits(n, K \ {k}, sv, rm, ls)
        /\ ButtonsFit(p, K) => ButtonsFit(n, K \ {k})
    BY <1>1, <1>3, <2>1, TaskOver, <1>4, <1>8 DEF ControlAnswered, OnPage
  <2> QED BY <1>1, <1>3, <1>5, <1>7, <2>2, PageBecomes, <1>6, PageGoesOn
<1>9. CASE ~p.mounted
  <2>1. PageRows(n, K \ {k}, sv, remote', ls) BY <1>1, <1>6, PageGoesOn, RowsLess, <1>2, <1>9 DEF OnPage
  <2> QED BY <1>3, <1>5, <1>7, <1>9, <2>1, PageBecomes
<1> QED BY <1>8, <1>9

LEMMA CloseFailedKeeps ==
  ASSUME PageInv, NEW k \in ttyTasks, CloseFailed(k) PROVE PageInv'
<1>1. PICK p \in TtyRow, K \in SUBSET TtyTaskRow, sv \in {0} \cup TerminalIds,
           rm \in [TerminalIds -> ShellRow], ls \in SUBSET TerminalIds :
        /\ p = tty /\ K = ttyTasks /\ sv = saved /\ rm = remote /\ ls = lost
        /\ PageRows(p, K, sv, rm, ls)
        /\ p.mounted /\ ~mixed => ScreenFits(p, K, sv, rm, ls) /\ ButtonsFit(p, K) BY ThePage
<1>2. PICK n : n = IF OnPage(k) THEN [p EXCEPT !.busy = FALSE] ELSE p OBVIOUS
<1>3. /\ n \in TtyRow /\ n.life = p.life /\ n.mounted = p.mounted
      /\ n.generation = p.generation /\ n.session = p.session /\ n.output = p.output
      /\ n.cursor = p.cursor /\ n.ended = p.ended /\ n.starting = p.starting
      /\ n.target = p.target /\ n.sending = p.sending BY <1>2 DEF TtyRow
<1>4. n.busy = IF OnPage(k) THEN FALSE ELSE p.busy BY <1>2 DEF TtyRow
<1>5. /\ tty' = n /\ ttyTasks' = K \ {k} /\ saved' = sv /\ lost' = ls
      /\ mixed' = mixed /\ mixed \in BOOLEAN BY <1>1, <1>2 DEF CloseFailed, TaskEnds, PageInv
<1>6. GoesOn(rm, remote') BY <1>1, ShellsGoOn DEF CloseFailed
<1>7. ttyClicks' \in Nat BY ClicksCount DEF CloseFailed
<1>8. CASE p.mounted
  <2>1. k.life # p.life => n.busy = p.busy BY <1>1, <1>4, <1>8 DEF OnPage
  <2>2. /\ PageRows(n, K \ {k}, sv, rm, ls)
        /\ ScreenFits(p, K, sv, rm, ls) => ScreenFits(n, K \ {k}, sv, rm, ls)
        /\ ButtonsFit(p, K) => ButtonsFit(n, K \ {k})
    BY <1>1, <1>3, <2>1, TaskOver, <1>4, <1>8 DEF CloseFailed, OnPage
  <2> QED BY <1>1, <1>3, <1>5, <1>7, <2>2, PageBecomes, <1>6, PageGoesOn
<1>9. CASE ~p.mounted
  <2>1. PageRows(n, K \ {k}, sv, remote', ls) BY <1>1, <1>6, PageGoesOn, RowsLess, <1>2, <1>9 DEF OnPage
  <2> QED BY <1>3, <1>5, <1>7, <1>9, <2>1, PageBecomes
<1> QED BY <1>8, <1>9

LEMMA ShellsKeep ==
  ASSUME PageInv, NEW t \in TerminalIds, ShellPrints(t) \/ ShellExits(t) PROVE PageInv'
<1>1. PICK p \in TtyRow, K \in SUBSET TtyTaskRow, sv \in {0} \cup TerminalIds,
           rm \in [TerminalIds -> ShellRow], ls \in SUBSET TerminalIds :
        /\ p = tty /\ K = ttyTasks /\ sv = saved /\ rm = remote /\ ls = lost
        /\ PageRows(p, K, sv, rm, ls)
        /\ p.mounted /\ ~mixed => ScreenFits(p, K, sv, rm, ls) /\ ButtonsFit(p, K) BY ThePage
<1>2. /\ PageRows(p, K, sv, remote', ls)
      /\ ScreenFits(p, K, sv, rm, ls) => ScreenFits(p, K, sv, remote', ls)
  BY <1>1, PageGoesOn, ShellsGoOn DEF ShellExits
<1> QED BY <1>1, <1>2, PageBecomes, ClicksCount DEF ShellPrints, ShellExits, PageInv

LEMMA DismissKeeps ==
  ASSUME PageInv, Dismiss PROVE PageInv'
<1>1. PICK p \in TtyRow, K \in SUBSET TtyTaskRow, sv \in {0} \cup TerminalIds,
           rm \in [TerminalIds -> ShellRow], ls \in SUBSET TerminalIds :
        /\ p = tty /\ K = ttyTasks /\ sv = saved /\ rm = remote /\ ls = lost
        /\ PageRows(p, K, sv, rm, ls)
        /\ p.mounted /\ ~mixed => ScreenFits(p, K, sv, rm, ls) /\ ButtonsFit(p, K) BY ThePage
<1>2. PICK n : n = [p EXCEPT !.target = 0] OBVIOUS
<1>3. /\ n \in TtyRow /\ n.life = p.life /\ n.mounted = p.mounted /\ n.generation = p.generation /\ n.session = p.session
      /\ n.output = p.output /\ n.cursor = p.cursor /\ n.ended = p.ended /\ n.starting = p.starting
      /\ n.target = 0 /\ n.sending = p.sending /\ n.busy = p.busy BY <1>2 DEF TtyRow
<1>4. PageRows(n, K, sv, rm, ls) BY <1>1, <1>3, RowsOf DEF TtyRow
<1>5. ButtonsFit(p, K) => ButtonsFit(n, K) BY <1>3 DEF ButtonsFit, StartsOf, OfKinds
<1>6. /\ tty' = n /\ ttyTasks' = K /\ saved' = sv /\ remote' = rm /\ lost' = ls
      /\ mixed' = mixed /\ mixed \in BOOLEAN BY <1>1, <1>2 DEF Dismiss, PageInv
<1>7. ttyClicks' \in Nat BY ClicksCount DEF Dismiss
<1> QED BY <1>1, <1>3, <1>4, <1>5, <1>6, <1>7, PageBecomes DEF ScreenFits, LoopsOf

\* A task that is not of this visit, or that closes an old terminal, tells the
\* page nothing.
LEMMA TaskApart ==
  ASSUME NEW p \in TtyRow, NEW K, NEW sv, NEW rm, NEW ls, PageRows(p, K, sv, rm, ls),
         NEW k \in TtyTaskRow, TtyTaskFits(k, p, rm),
         k.kind = "reconnect" \/ (k.life # p.life /\ k.kind = "start")
  PROVE  /\ PageRows(p, K \cup {k}, sv, rm, ls) /\ PageRows(p, K \ {k}, sv, rm, ls)
         /\ ScreenFits(p, K, sv, rm, ls) =>
               ScreenFits(p, K \cup {k}, sv, rm, ls) /\ ScreenFits(p, K \ {k}, sv, rm, ls)
         /\ ButtonsFit(p, K) => ButtonsFit(p, K \cup {k}) /\ ButtonsFit(p, K \ {k})
<1>1. /\ LoopsOf(p, K \cup {k}) = LoopsOf(p, K) /\ LoopsOf(p, K \ {k}) = LoopsOf(p, K)
      /\ StartsOf(p, K \cup {k}) = StartsOf(p, K) /\ StartsOf(p, K \ {k}) = StartsOf(p, K)
      /\ \A kinds \in {{"write"}, {"control", "close"}} :
            OfKinds(p, K \cup {k}, kinds) = OfKinds(p, K, kinds) /\ OfKinds(p, K \ {k}, kinds) = OfKinds(p, K, kinds)
  BY DEF LoopsOf, StartsOf, OfKinds
<1>2. ButtonsFit(p, K) => ButtonsFit(p, K \cup {k}) /\ ButtonsFit(p, K \ {k}) BY <1>1 DEF ButtonsFit
<1> QED BY <1>2, RowsMore, RowsLess, <1>1 DEF ScreenFits

\* A start begins while no terminal is open: the earlier one is not current.
LEMMA StartBegins ==
  ASSUME NEW p \in TtyRow, NEW K, NEW sv, NEW rm, NEW ls, PageRows(p, K, sv, rm, ls),
         NEW x \in TtyTaskRow, x.kind = "start", x.life = p.life, x.gen = p.generation + 1, x.t = 0,
         NEW n, n = Starting(p)
  PROVE  /\ PageRows(n, K \cup {x}, sv, rm, ls) /\ n \in TtyRow /\ n.mounted = p.mounted
         /\ p.session = 0 => ScreenFits(n, K \cup {x}, sv, rm, ls)
         /\ p.session = 0 /\ ButtonsFit(p, K) => ButtonsFit(n, K \cup {x})
<1>1. PICK g \in Nat : g = p.generation + 1 /\ p.generation \in Nat BY DEF TtyRow
<1>2. /\ n \in TtyRow /\ n.life = p.life /\ n.mounted = p.mounted /\ n.generation = g /\ n.session = p.session
      /\ n.output = p.output /\ n.cursor = p.cursor /\ n.ended = p.ended /\ n.starting = TRUE
      /\ n.target = p.target /\ n.sending = p.sending /\ n.busy = p.busy BY <1>1 DEF TtyRow, Starting
<1>3. PageRows(n, K, sv, rm, ls) BY <1>2, RowsOf, <1>1
<1>4. StartsOf(n, K \cup {x}) = {x}
  <2>1. \A k \in K : k.life = p.life => k.gen # g
    <3> TAKE k \in K
    <3> QED BY <1>1 DEF TtyTaskFits, PageRows, TtyTaskRow
  <2> QED BY <1>1, <1>2, <2>1 DEF StartsOf
<1>5. \A kinds \in {{"write"}, {"control", "close"}} : OfKinds(n, K \cup {x}, kinds) = OfKinds(p, K, kinds)
  BY <1>2 DEF OfKinds
<1>6. p.session = 0 /\ ButtonsFit(p, K) => ButtonsFit(n, K \cup {x}) BY <1>2, <1>5, <1>4 DEF ButtonsFit, One
<1> QED BY <1>2, <1>6, <1>3, RowsMore, <1>1 DEF ScreenFits, TtyTaskFits, TtyRow

LEMMA SubmitStartKeeps ==
  ASSUME PageInv, SubmitStart PROVE PageInv'
<1>1. PICK p \in TtyRow, K \in SUBSET TtyTaskRow, sv \in {0} \cup TerminalIds,
           rm \in [TerminalIds -> ShellRow], ls \in SUBSET TerminalIds :
        /\ p = tty /\ K = ttyTasks /\ sv = saved /\ rm = remote /\ ls = lost
        /\ PageRows(p, K, sv, rm, ls)
        /\ p.mounted /\ ~mixed => ScreenFits(p, K, sv, rm, ls) /\ ButtonsFit(p, K) BY ThePage
<1>2. PICK x : x = [kind |-> "start", life |-> p.life, gen |-> p.generation + 1, t |-> 0, after |-> 0] OBVIOUS
<1>3. PICK n : n = Starting(p) OBVIOUS
<1>4. /\ x \in TtyTaskRow /\ x.kind = "start" /\ x.life = p.life /\ x.gen = p.generation + 1
      /\ x.t = 0 BY <1>2 DEF TtyTaskRow, TtyRow
<1>5. /\ tty' = n /\ ttyTasks' = K \cup {x} /\ saved' = sv /\ remote' = rm /\ lost' = ls
      /\ mixed' = mixed /\ mixed \in BOOLEAN /\ p.session = 0
  BY <1>1, <1>2, <1>3 DEF SubmitStart, TtyTask, PageInv, Starting, TtyRow
<1> QED BY <1>1, <1>5, PageBecomes, ClicksCount, <1>3, <1>4, StartBegins DEF SubmitStart

LEMMA ClickReconnectKeeps ==
  ASSUME PageInv, ClickReconnect PROVE PageInv'
<1>1. PICK p \in TtyRow, K \in SUBSET TtyTaskRow, sv \in {0} \cup TerminalIds,
           rm \in [TerminalIds -> ShellRow], ls \in SUBSET TerminalIds :
        /\ p = tty /\ K = ttyTasks /\ sv = saved /\ rm = remote /\ ls = lost
        /\ PageRows(p, K, sv, rm, ls)
        /\ p.mounted /\ ~mixed => ScreenFits(p, K, sv, rm, ls) /\ ButtonsFit(p, K) BY ThePage
<1>2. ttyClicks' \in Nat BY ClicksCount DEF ClickReconnect
<1>3. PICK x : x = [kind |-> "reconnect", life |-> p.life, gen |-> 0, t |-> p.target, after |-> ttyClicks'] OBVIOUS
<1>4. x \in TtyTaskRow /\ x.kind = "reconnect" /\ x.life = p.life /\ x.gen = 0 /\ x.t = p.target
  BY <1>2, <1>3 DEF TtyTaskRow, TtyRow
<1>5. /\ tty' = p /\ ttyTasks' = K \cup {x} /\ saved' = sv /\ remote' = rm /\ lost' = ls
      /\ mixed' = mixed /\ mixed \in BOOLEAN /\ p.target # 0 BY <1>1, <1>3 DEF ClickReconnect, TtyTask, PageInv
<1>6. TtyTaskFits(x, p, rm) BY <1>1, <1>4, <1>5 DEF TtyTaskFits, PageRows, TtyRow
<1> QED BY <1>1, <1>2, <1>5, PageBecomes, <1>4, <1>6, TaskApart

LEMMA ReconnectClosedKeeps ==
  ASSUME PageInv, NEW k \in ttyTasks, ReconnectClosed(k) PROVE PageInv'
<1>1. PICK p \in TtyRow, K \in SUBSET TtyTaskRow, sv \in {0} \cup TerminalIds,
           rm \in [TerminalIds -> ShellRow], ls \in SUBSET TerminalIds :
        /\ p = tty /\ K = ttyTasks /\ sv = saved /\ rm = remote /\ ls = lost
        /\ PageRows(p, K, sv, rm, ls)
        /\ p.mounted /\ ~mixed => ScreenFits(p, K, sv, rm, ls) /\ ButtonsFit(p, K) BY ThePage
<1>2. k \in K /\ k.kind = "reconnect" /\ k \in TtyTaskRow /\ TtyTaskFits(k, p, rm)
  BY <1>1 DEF ReconnectClosed, PageRows
<1>3. ttyClicks' \in Nat BY ClicksCount DEF ReconnectClosed
<1>4. PICK r2 : r2 = remote' OBVIOUS
<1>5. /\ saved' = sv /\ lost' = ls /\ mixed' \in BOOLEAN
      /\ mixed' = (mixed \/ (OnPage(k) /\ p.session # 0)) BY <1>1 DEF ReconnectClosed, PageInv
<1>6. /\ PageRows(p, K \ {k}, sv, r2, ls)
      /\ ScreenFits(p, K, sv, rm, ls) => ScreenFits(p, K \ {k}, sv, r2, ls)
      /\ ButtonsFit(p, K) => ButtonsFit(p, K \ {k})
  BY <1>1, <1>2, <1>4, TaskApart, PageGoesOn, ShellsGoOn DEF ReconnectClosed
<1>7. CASE OnPage(k)
  <2>1. PICK n : n = Starting(p) OBVIOUS
  <2>2. PICK x : x = [kind |-> "start", life |-> p.life, gen |-> p.generation + 1, t |-> 0, after |-> 0] OBVIOUS
  <2>3. /\ x \in TtyTaskRow /\ x.kind = "start" /\ x.life = p.life /\ x.gen = p.generation + 1
        /\ x.t = 0 BY <2>2 DEF TtyTaskRow, TtyRow
  <2>4. tty' = n BY <1>1, <1>7, <2>1 DEF ReconnectClosed
  <2>5. ttyTasks' = (K \ {k}) \cup {x}
    <3>1. x = [TtyTask("start", n.generation, 0) EXCEPT !.life = k.life]
      BY <1>1, <2>2, <1>7, <2>1 DEF TtyTask, OnPage, Starting, TtyRow
    <3> QED BY <1>1, <2>4, <3>1 DEF ReconnectClosed
  <2>6. /\ PageRows(n, (K \ {k}) \cup {x}, sv, r2, ls) /\ n.mounted = p.mounted
        /\ p.session = 0 => ScreenFits(n, (K \ {k}) \cup {x}, sv, r2, ls)
        /\ p.session = 0 /\ ButtonsFit(p, K \ {k}) => ButtonsFit(n, (K \ {k}) \cup {x})
    BY <1>6, <2>1, <2>3, StartBegins
  <2> QED BY <1>1, <1>3, <1>4, <1>5, <1>6, <1>7, <2>4, <2>5, <2>6, PageBecomes
<1>8. CASE ~OnPage(k)
  <2>1. tty' = p BY <1>1, <1>8 DEF ReconnectClosed
  <2>2. PICK x : x = [kind |-> "start", life |-> k.life, gen |-> p.generation, t |-> 0, after |-> 0] OBVIOUS
  <2>3. ttyTasks' = (K \ {k}) \cup {x} BY <1>1, <2>1, <2>2 DEF ReconnectClosed, TtyTask
  <2>4. /\ x \in TtyTaskRow /\ x.kind = "start" /\ x.life = k.life /\ x.gen = p.generation
        /\ x.t = 0 /\ p.generation \in Nat BY <1>2, <2>2 DEF TtyTaskRow, TtyRow
  <2>5. TtyTaskFits(x, p, r2) BY <1>2, <2>4 DEF TtyTaskFits
  <2>6. PageRows(p, (K \ {k}) \cup {x}, sv, r2, ls) BY <1>6, <2>4, <2>5, RowsMore
  <2>7. ASSUME p.mounted
        PROVE  /\ ScreenFits(p, K \ {k}, sv, r2, ls) => ScreenFits(p, (K \ {k}) \cup {x}, sv, r2, ls)
               /\ ButtonsFit(p, K \ {k}) => ButtonsFit(p, (K \ {k}) \cup {x})
    BY <1>6, <2>4, <2>5, <2>7, TaskApart, <1>1, <1>8 DEF OnPage
  <2> QED BY <1>1, <1>3, <1>4, <1>5, <1>6, <2>1, <2>3, <2>6, <2>7, PageBecomes
<1> QED BY <1>7, <1>8

LEMMA NothingShown ==
  ASSUME NEW t \in TerminalIds PROVE Shown(<<>>, t, 0)
  BY DEF Shown

LEMMA PageOpened ==
  ASSUME NEW p \in TtyRow, NEW t \in TerminalIds
  PROVE  \E n \in TtyRow :
            /\ n = Opened(p, t)
            /\ n.life = p.life /\ n.mounted = p.mounted /\ n.generation = p.generation
            /\ n.sending = p.sending /\ n.busy = p.busy
            /\ n.session = t /\ n.output = <<>> /\ n.cursor = 0 /\ n.ended = FALSE
            /\ n.starting = FALSE /\ n.target = 0
<1>1. PICK n : n = Opened(p, t) OBVIOUS
<1>2. PICK e \in Seq(Shows) : e = <<>>
  <2>1. <<>> \in Seq(Shows) OBVIOUS
  <2> QED BY <2>1, Zenon
<1>3. n = [p EXCEPT !.target = 0, !.session = t, !.output = e, !.cursor = 0, !.ended = FALSE,
                    !.starting = FALSE] BY <1>2, <1>1 DEF Opened
<1>4. /\ n \in TtyRow /\ n.life = p.life /\ n.mounted = p.mounted /\ n.generation = p.generation /\ n.session = t
      /\ n.output = e /\ n.cursor = 0 /\ n.ended = FALSE /\ n.starting = FALSE
      /\ n.target = 0 /\ n.sending = p.sending /\ n.busy = p.busy
  <2>1. /\ n \in TtyRow /\ n.session = t /\ n.output = e /\ n.cursor = 0
        /\ n.ended = FALSE /\ n.starting = FALSE /\ n.target = 0
    <3>1. PICK a : a = [p EXCEPT !.target = 0, !.session = t, !.output = e] OBVIOUS
    <3>2. n = [a EXCEPT !.cursor = 0, !.ended = FALSE, !.starting = FALSE] BY <1>3, <3>1 DEF TtyRow
    <3> QED BY <3>2, <3>1 DEF TtyRow
  <2> QED BY <2>1, <1>3 DEF TtyRow
<1> QED BY <1>2, <1>1, <1>4

\* The terminal of a start that is still current opens: no task is about it yet
\* but the loop that follows the start.
LEMMA TerminalOpens ==
  ASSUME NEW p \in TtyRow, NEW K, NEW sv, NEW rm, NEW ls, PageRows(p, K, sv, rm, ls),
         NEW k \in K, k.kind = "start", k.life = p.life, k.gen = p.generation,
         NEW t \in TerminalIds, rm[t].state = "none", NEW r2, GoesOn(rm, r2),
         r2[t].state # "none", r2[t].out = 0,
         NEW n \in TtyRow, n.life = p.life, n.mounted = p.mounted, n.generation = p.generation,
         n.sending = p.sending, n.busy = p.busy, n.session = t, n.output = <<>>, n.cursor = 0,
         n.ended = FALSE, n.starting = FALSE, n.target = 0,
         NEW x \in TtyTaskRow, x.kind = "loop", x.life = k.life, x.gen = k.gen, x.t = t
  PROVE  /\ PageRows(n, (K \ {k}) \cup {x}, t, r2, ls)
         /\ ScreenFits(p, K, sv, rm, ls) /\ ButtonsFit(p, K) =>
               ScreenFits(n, (K \ {k}) \cup {x}, t, r2, ls) /\ ButtonsFit(n, (K \ {k}) \cup {x})
<1>1. t # 0 BY PageAssumption DEF TerminalIds
<1>2. /\ n \in TtyRow /\ n.life = p.life /\ n.mounted = p.mounted /\ n.generation = p.generation
      /\ n.sending = p.sending /\ n.busy = p.busy /\ n.session = t /\ n.output = <<>>
      /\ n.cursor = 0 /\ n.ended = FALSE /\ n.starting = FALSE /\ n.target = 0 OBVIOUS
<1>3. k \in TtyTaskRow /\ TtyTaskFits(k, p, rm) BY DEF PageRows
<1>4. /\ x \in TtyTaskRow /\ x.kind = "loop" /\ x.life = k.life /\ x.gen = k.gen /\ x.t = t OBVIOUS
<1>5. PICK K2 : K2 = K \ {k} OBVIOUS
<1>6. PageRows(p, K2, sv, r2, ls) BY <1>5, RowsLess, PageGoesOn
<1>7. PageRows(n, K2 \cup {x}, t, r2, ls)
  <2>1. TtyTaskFits(x, n, r2) BY <1>1, <1>2, <1>3, <1>4 DEF TtyTaskFits
  <2> QED BY <1>2, <1>4, <1>6, <2>1 DEF PageRows, TtyTaskFits
<1>8. \A q \in K : q.t # t BY <1>1 DEF PageRows, TtyTaskFits
<1>9. LoopsOf(n, K2 \cup {x}) = {x}
  <2>1. x \in LoopsOf(n, K2 \cup {x}) BY <1>2, <1>4 DEF LoopsOf
  <2> QED BY <2>1, <1>2, <1>5, <1>8 DEF LoopsOf
<1>10. ScreenFits(n, K2 \cup {x}, t, r2, ls)
  <2>1. One(LoopsOf(n, K2 \cup {x}), ~n.ended /\ n.session \notin ls) BY <1>2, <1>9 DEF One, PageRows
  <2>2. n.cursor <= r2[n.session].out BY <1>2
  <2>3. \A q \in LoopsOf(n, K2 \cup {x}) : /\ q.life = n.life /\ q.gen = n.generation
                                           /\ q.kind = "read" => q.after = n.cursor BY <1>2, <1>4, <1>9
  <2> QED BY <1>2, <2>1, <2>2, <2>3, NothingShown DEF ScreenFits
<1>11. ASSUME ButtonsFit(p, K), ScreenFits(p, K, sv, rm, ls) PROVE ButtonsFit(n, K2 \cup {x})
  <2>1. k \in StartsOf(p, K) /\ p.starting \in BOOLEAN BY DEF StartsOf, TtyRow
  <2>2. p.starting /\ One(StartsOf(p, K) \ {k}, FALSE) BY <1>11, <2>1, OneLess DEF ButtonsFit
  <2>3. One(StartsOf(n, K2 \cup {x}), n.starting) BY <1>2, <2>2, <1>4, <1>5 DEF One, StartsOf
  <2>4. /\ OfKinds(n, K2 \cup {x}, {"write"}) = OfKinds(p, K, {"write"})
        /\ OfKinds(n, K2 \cup {x}, {"control", "close"}) = OfKinds(p, K, {"control", "close"})
    BY <1>2, <1>4, <1>5 DEF OfKinds
  <2>5. ASSUME NEW q \in K2 \cup {x}, q.kind = "close" PROVE q.life = n.life <=> q.t = n.session
    <3>1. q \in K /\ q.t # t /\ q.t # 0 BY <1>3, <1>4, <1>5, <1>8, <2>5 DEF PageRows, TtyTaskFits
    <3> QED BY <1>2, <3>1, <1>11, <2>2, <2>5 DEF ScreenFits, ButtonsFit
  <2> QED
    <3>1. n.sending = p.sending /\ n.busy = p.busy BY <1>2
    <3>2. One(OfKinds(n, K2 \cup {x}, {"control", "close"}), n.busy) BY <1>11, <2>4, <3>1 DEF ButtonsFit
    <3> QED BY <2>3, <2>5, <3>2, <1>11, <2>4, <3>1 DEF ButtonsFit
<1> QED BY <1>2, <1>5, <1>7, <1>10, <1>11

\* A start ends without a terminal on the page.
LEMMA StartOver ==
  ASSUME NEW p \in TtyRow, NEW K, NEW sv, NEW rm, NEW ls, PageRows(p, K, sv, rm, ls),
         NEW k \in K, k.kind = "start", NEW n,
         n = IF k.life = p.life /\ k.gen = p.generation THEN [p EXCEPT !.starting = FALSE] ELSE p
  PROVE  /\ n \in TtyRow /\ n.mounted = p.mounted /\ PageRows(n, K \ {k}, sv, rm, ls)
         /\ ScreenFits(p, K, sv, rm, ls) => ScreenFits(n, K \ {k}, sv, rm, ls)
         /\ ButtonsFit(p, K) => ButtonsFit(n, K \ {k})
<1>1. PICK b \in BOOLEAN : b = IF k.life = p.life /\ k.gen = p.generation THEN FALSE ELSE p.starting BY DEF TtyRow
<1>2. /\ n \in TtyRow /\ n.life = p.life /\ n.mounted = p.mounted /\ n.generation = p.generation /\ n.session = p.session
      /\ n.output = p.output /\ n.cursor = p.cursor /\ n.ended = p.ended /\ n.starting = b
      /\ n.target = p.target /\ n.sending = p.sending /\ n.busy = p.busy BY <1>1 DEF TtyRow
<1>3. PageRows(n, K, sv, rm, ls)
  <2>1. n.generation >= p.generation BY <1>2 DEF TtyRow
  <2> QED BY <1>2, <2>1, RowsOf
<1>4. ScreenFits(p, K, sv, rm, ls) => ScreenFits(n, K \ {k}, sv, rm, ls) BY <1>2, <1>1 DEF ScreenFits, LoopsOf
<1>5. ASSUME ButtonsFit(p, K) PROVE One(StartsOf(n, K \ {k}), n.starting)
  <2>1. StartsOf(n, K \ {k}) = StartsOf(p, K) \ {k} BY <1>2 DEF StartsOf
  <2>2. One(StartsOf(p, K), p.starting) /\ p.starting \in BOOLEAN BY <1>5 DEF ButtonsFit, TtyRow
  <2>3. CASE k.life = p.life /\ k.gen = p.generation BY <2>1, <2>2, OneLess, <1>1, <1>2, <2>3 DEF One, StartsOf
  <2>4. CASE ~(k.life = p.life /\ k.gen = p.generation) BY <2>1, <2>2, <1>1, <1>2, <2>4 DEF One, StartsOf
  <2> QED BY <2>3, <2>4
<1> QED BY <1>2, <1>4, <1>3, RowsLess, <1>5 DEF ButtonsFit, OfKinds

LEMMA StartAnsweredKeeps ==
  ASSUME PageInv, NEW k \in ttyTasks, StartAnswered(k) PROVE PageInv'
<1>1. PICK p \in TtyRow, K \in SUBSET TtyTaskRow, sv \in {0} \cup TerminalIds,
           rm \in [TerminalIds -> ShellRow], ls \in SUBSET TerminalIds :
        /\ p = tty /\ K = ttyTasks /\ sv = saved /\ rm = remote /\ ls = lost
        /\ PageRows(p, K, sv, rm, ls)
        /\ p.mounted /\ ~mixed => ScreenFits(p, K, sv, rm, ls) /\ ButtonsFit(p, K) BY ThePage
<1>2. k \in K /\ k.kind = "start" /\ CanStart BY <1>1 DEF StartAnswered
<1>3. PICK t, r2 :
        /\ t \in TerminalIds /\ t = NextTerminal /\ r2 = Created /\ remote' = r2 /\ GoesOn(rm, r2)
        /\ rm[t].state = "none" /\ r2[t].state # "none" /\ r2[t].out = 0 BY <1>1, <1>2, ANewTerminal DEF StartAnswered
<1>4. ttyClicks' \in Nat BY ClicksCount DEF StartAnswered
<1>5. lost' = ls /\ mixed' = mixed /\ mixed \in BOOLEAN BY <1>1 DEF StartAnswered, PageInv
<1>6. CASE StartIsCurrent(k)
  <2>1. PICK n \in TtyRow :
          /\ n = Opened(p, t)
          /\ n.life = p.life /\ n.mounted = p.mounted /\ n.generation = p.generation
          /\ n.sending = p.sending /\ n.busy = p.busy
          /\ n.session = t /\ n.output = <<>> /\ n.cursor = 0 /\ n.ended = FALSE
          /\ n.starting = FALSE /\ n.target = 0 BY <1>1, <1>3, PageOpened
  <2>2. PICK x : x = [k EXCEPT !.kind = "loop", !.t = t] OBVIOUS
  <2>3. tty' = n /\ saved' = t /\ ttyTasks' = (K \ {k}) \cup {x} BY <1>1, <1>3, <1>6, <2>1, <2>2 DEF StartAnswered
  <2>4. /\ n.mounted = p.mounted /\ PageRows(n, (K \ {k}) \cup {x}, t, r2, ls)
        /\ ScreenFits(p, K, sv, rm, ls) /\ ButtonsFit(p, K) =>
              ScreenFits(n, (K \ {k}) \cup {x}, t, r2, ls) /\ ButtonsFit(n, (K \ {k}) \cup {x})
    <3>1. PageRows(p, K, sv, rm, ls) BY <1>1
    <3>2. /\ k \in K /\ k.kind = "start" /\ k.life = p.life /\ k.gen = p.generation
          /\ rm[t].state = "none" /\ GoesOn(rm, r2) /\ r2[t].state # "none" /\ r2[t].out = 0
      BY <1>2, <1>3, <1>1, <1>6 DEF StartIsCurrent, OnPage
    <3>3. p \in TtyRow /\ t \in TerminalIds BY <1>1, <1>3
    <3>4. /\ x \in TtyTaskRow /\ x.kind = "loop" /\ x.life = k.life /\ x.gen = k.gen /\ x.t = t
      BY <2>2, <3>1, <3>2, <3>3 DEF TtyTaskRow, PageRows
    <3> QED BY <2>1, <3>1, <3>2, <3>3, <3>4, TerminalOpens
  <2> QED BY <1>1, <1>3, <1>4, <1>5, <2>3, <2>4, PageBecomes
<1>7. CASE ~StartIsCurrent(k)
  <2>1. PageRows(p, K, sv, r2, ls) /\ PageRows(p, K \ {k}, sv, r2, ls) BY <1>1, <1>3, PageGoesOn, RowsLess
  <2>2. ASSUME p.mounted
        PROVE  /\ ScreenFits(p, K, sv, r2, ls) => ScreenFits(p, K \ {k}, sv, r2, ls)
               /\ ButtonsFit(p, K) => ButtonsFit(p, K \ {k})
    BY <1>2, <2>1, <2>2, StartOver, <1>1, <1>7 DEF StartIsCurrent, OnPage
  <2> QED BY <1>1, <1>3, <1>4, <1>5, <2>1, <2>2, PageBecomes, <1>7, PageGoesOn DEF StartAnswered, TaskEnds
<1> QED BY <1>6, <1>7

LEMMA StartRefusedKeeps ==
  ASSUME PageInv, NEW k \in ttyTasks, StartRefused(k) PROVE PageInv'
<1>1. PICK p \in TtyRow, K \in SUBSET TtyTaskRow, sv \in {0} \cup TerminalIds,
           rm \in [TerminalIds -> ShellRow], ls \in SUBSET TerminalIds :
        /\ p = tty /\ K = ttyTasks /\ sv = saved /\ rm = remote /\ ls = lost
        /\ PageRows(p, K, sv, rm, ls)
        /\ p.mounted /\ ~mixed => ScreenFits(p, K, sv, rm, ls) /\ ButtonsFit(p, K) BY ThePage
<1>2. PICK r2 : r2 = remote' /\ GoesOn(rm, r2) BY <1>1, ANewTerminal, ShellsGoOn DEF StartRefused
<1>3. ttyClicks' \in Nat BY ClicksCount DEF StartRefused
<1>4. /\ saved' = sv /\ lost' = ls /\ mixed' = mixed /\ mixed \in BOOLEAN /\ ttyTasks' = K \ {k}
  BY <1>1 DEF StartRefused, TaskEnds, PageInv
<1>5. /\ PageRows(p, K, sv, r2, ls)
      /\ ScreenFits(p, K, sv, rm, ls) => ScreenFits(p, K, sv, r2, ls) BY <1>1, <1>2, PageGoesOn
<1>6. CASE p.mounted
  <2>1. PICK n : n = IF k.life = p.life /\ k.gen = p.generation THEN [p EXCEPT !.starting = FALSE] ELSE p OBVIOUS
  <2> QED BY <1>1, <1>2, <1>3, <1>4, <1>5, <2>1, PageBecomes, <1>6, StartOver DEF StartRefused, StartIsCurrent, OnPage
<1>7. CASE ~p.mounted
  BY <1>2, <1>3, <1>4, <1>7, PageBecomes, <1>1, <1>5, RowsLess DEF StartRefused, StartIsCurrent, OnPage
<1> QED BY <1>6, <1>7

LEMMA LoopMoves ==
  ASSUME NEW p \in TtyRow, NEW K, NEW sv, NEW rm, NEW ls, PageRows(p, K, sv, rm, ls),
         NEW k \in K, k.kind \in {"loop", "read"},
         NEW x \in TtyTaskRow, x.kind \in {"loop", "read"}, x.life = k.life, x.gen = k.gen, x.t = k.t,
         NEW S, S \subseteq {x}, NEW n \in TtyRow,
         n.life = p.life, n.generation = p.generation, n.session = p.session,
         n.starting = p.starting, n.sending = p.sending, n.busy = p.busy, n.target = p.target
  PROVE  /\ PageRows(n, (K \ {k}) \cup S, sv, rm, ls)
         /\ ButtonsFit(p, K) => ButtonsFit(n, (K \ {k}) \cup S)
<1>1. PICK K2 : K2 = (K \ {k}) \cup S OBVIOUS
<1>2. \A q \in K2 : TtyTaskFits(q, n, rm)
  <2> TAKE q \in K2
  <2>1. CASE q \in K BY <2>1 DEF PageRows, TtyTaskFits
  <2>2. CASE q = x BY <2>2 DEF TtyTaskFits, PageRows
  <2> QED BY <1>1, <2>1, <2>2
<1>3. ButtonsFit(p, K) => ButtonsFit(n, K2) BY <1>1 DEF ButtonsFit, StartsOf, OfKinds
<1> QED BY <1>1, <1>3, <1>2 DEF PageRows

\* The loop of the open terminal is the only one.
LEMMA LoopShown ==
  ASSUME NEW p, NEW K, NEW sv, NEW rm, NEW ls,
         ScreenFits(p, K, sv, rm, ls),
         NEW k \in K, k.kind \in {"loop", "read"}, k.t = p.session, p.session # 0,
         NEW x, x.kind \in {"loop", "read"}, x.t = k.t, NEW S, S \subseteq {x}
  PROVE  /\ k.life = p.life /\ k.gen = p.generation /\ (k.kind = "read" => k.after = p.cursor)
         /\ ~p.ended /\ p.session \notin ls
         /\ LoopsOf(p, (K \ {k}) \cup S) = S
<1>1. k \in LoopsOf(p, K) BY DEF LoopsOf
<1>2. /\ k.life = p.life /\ k.gen = p.generation /\ (k.kind = "read" => k.after = p.cursor)
      /\ One(LoopsOf(p, K), ~p.ended /\ p.session \notin ls) BY <1>1 DEF ScreenFits
<1>3. ~p.ended /\ p.session \notin ls BY <1>1, <1>2 DEF One
<1> QED BY <1>2, <1>3, <1>1 DEF LoopsOf, One

\* The loop of another terminal goes on or ends.
LEMMA LoopNotShown ==
  ASSUME NEW p, NEW K, NEW sv, NEW rm, NEW ls,
         ScreenFits(p, K, sv, rm, ls),
         NEW k \in K, k.t # p.session, NEW x, x.t = k.t, NEW S, S \subseteq {x},
         NEW ls2, ls2 \in {ls, ls \cup {k.t}}
  PROVE  ScreenFits(p, (K \ {k}) \cup S, sv, rm, ls2)
<1>1. One(LoopsOf(p, K), ~p.ended /\ p.session \notin ls) =>
          One(LoopsOf(p, K), ~p.ended /\ p.session \notin ls2) BY DEF One
<1> QED BY <1>1 DEF ScreenFits, LoopsOf

LEMMA PollKeeps ==
  ASSUME PageInv, NEW k \in ttyTasks, Poll(k) PROVE PageInv'
<1>1. PICK p \in TtyRow, K \in SUBSET TtyTaskRow, sv \in {0} \cup TerminalIds,
           rm \in [TerminalIds -> ShellRow], ls \in SUBSET TerminalIds :
        /\ p = tty /\ K = ttyTasks /\ sv = saved /\ rm = remote /\ ls = lost
        /\ PageRows(p, K, sv, rm, ls)
        /\ p.mounted /\ ~mixed => ScreenFits(p, K, sv, rm, ls) /\ ButtonsFit(p, K) BY ThePage
<1>2. k \in K /\ k.kind = "loop" /\ k \in TtyTaskRow /\ k.t # 0 BY <1>1 DEF Poll, PageRows, TtyTaskFits
<1>3. PICK c \in Nat : c = p.cursor BY <1>1 DEF TtyRow
<1>4. PICK x : x = [k EXCEPT !.kind = "read", !.after = c] OBVIOUS
<1>5. /\ x \in TtyTaskRow /\ x.kind = "read" /\ x.life = k.life /\ x.gen = k.gen /\ x.t = k.t /\ x.after = c
  BY <1>2, <1>4 DEF TtyTaskRow
<1>6. PICK S : S = IF StartIsCurrent(k) /\ p.session = k.t THEN {x} ELSE {} OBVIOUS
<1>7. /\ tty' = p /\ ttyTasks' = (K \ {k}) \cup S /\ saved' = sv /\ remote' = rm /\ lost' = ls
      /\ mixed' = mixed /\ mixed \in BOOLEAN /\ S \in SUBSET {x} BY <1>1, <1>3, <1>4, <1>6 DEF Poll, PageInv
<1>8. /\ PageRows(p, (K \ {k}) \cup S, sv, rm, ls)
      /\ ButtonsFit(p, K) => ButtonsFit(p, (K \ {k}) \cup S) BY <1>1, <1>2, <1>5, <1>7, LoopMoves
<1>9. ASSUME p.mounted, ScreenFits(p, K, sv, rm, ls) PROVE ScreenFits(p, (K \ {k}) \cup S, sv, rm, ls)
  <2>1. CASE k.t = p.session
    <3>1. /\ k.life = p.life /\ k.gen = p.generation /\ ~p.ended /\ p.session \notin ls
          /\ LoopsOf(p, (K \ {k}) \cup S) = S
      <4>1. /\ k \in K /\ k.kind = "loop" /\ k.t = p.session /\ p.session # 0
            /\ x.kind = "read" /\ x.t = k.t /\ S \in SUBSET {x} BY <1>2, <1>5, <1>7, <2>1
      <4>2. S \subseteq {x} BY <4>1
      <4> QED BY <1>9, <4>1, <4>2, LoopShown
    <3>2. S = {x} BY <1>1, <1>6, <1>9, <2>1, <3>1 DEF StartIsCurrent, OnPage
    <3> QED BY <1>9, <3>1, <3>2, <1>3, <1>5 DEF ScreenFits, One
  <2>2. CASE k.t # p.session BY <1>1, <1>2, <1>5, <1>7, <1>9, <2>2, LoopNotShown
  <2> QED BY <2>1, <2>2
<1> QED BY <1>1, <1>7, <1>8, <1>9, PageBecomes, ClicksCount DEF Poll

LEMMA ReadFailedKeeps ==
  ASSUME PageInv, NEW k \in ttyTasks, ReadFailed(k) PROVE PageInv'
<1>1. PICK p \in TtyRow, K \in SUBSET TtyTaskRow, sv \in {0} \cup TerminalIds,
           rm \in [TerminalIds -> ShellRow], ls \in SUBSET TerminalIds :
        /\ p = tty /\ K = ttyTasks /\ sv = saved /\ rm = remote /\ ls = lost
        /\ PageRows(p, K, sv, rm, ls)
        /\ p.mounted /\ ~mixed => ScreenFits(p, K, sv, rm, ls) /\ ButtonsFit(p, K) BY ThePage
<1>2. k \in K /\ k.kind = "read" /\ k \in TtyTaskRow /\ k.t # 0 /\ rm[k.t].state # "none"
  BY <1>1 DEF ReadFailed, PageRows, TtyTaskFits
<1>3. PICK x : x = [k EXCEPT !.kind = "loop", !.after = 0] OBVIOUS
<1>4. /\ x \in TtyTaskRow /\ x.kind = "loop" /\ x.life = k.life /\ x.gen = k.gen /\ x.t = k.t
  BY <1>2, <1>3 DEF TtyTaskRow
<1>5. PICK S, ls2 : /\ ttyTasks' = (K \ {k}) \cup S /\ lost' = ls2
                    /\ (S = {x} /\ ls2 = ls) \/ (S = {} /\ ls2 = ls \cup {k.t}) BY <1>1, <1>3 DEF ReadFailed, TaskEnds
<1>6. /\ tty' = p /\ saved' = sv /\ remote' = rm /\ mixed' = mixed /\ mixed \in BOOLEAN
      /\ S \in SUBSET {x} /\ ls2 \in {ls, ls \cup {k.t}} BY <1>1, <1>5 DEF ReadFailed, PageInv
<1>7. /\ PageRows(p, (K \ {k}) \cup S, sv, rm, ls)
      /\ ButtonsFit(p, K) => ButtonsFit(p, (K \ {k}) \cup S) BY <1>1, <1>2, <1>4, <1>6, LoopMoves
<1>8. ASSUME ScreenFits(p, K, sv, rm, ls) PROVE ScreenFits(p, (K \ {k}) \cup S, sv, rm, ls2)
  <2>1. CASE k.t = p.session
    <3>1. /\ k.life = p.life /\ k.gen = p.generation /\ ~p.ended /\ p.session \notin ls
          /\ LoopsOf(p, (K \ {k}) \cup S) = S
      <4>1. /\ k \in K /\ k.kind = "read" /\ k.t = p.session /\ p.session # 0
            /\ x.kind = "loop" /\ x.t = k.t /\ S \in SUBSET {x} BY <1>2, <1>4, <1>6, <2>1
      <4>2. S \subseteq {x} BY <4>1
      <4> QED BY <1>8, <4>1, <4>2, LoopShown
    <3> QED BY <1>8, <1>5, <2>1, <3>1, <1>4 DEF ScreenFits, One
  <2>2. CASE k.t # p.session
    <3>1. k \in K /\ k.t # p.session /\ x.t = k.t /\ S \in SUBSET {x} /\ ls2 \in {ls, ls \cup {k.t}}
      BY <1>2, <1>4, <1>6, <2>2
    <3>2. S \subseteq {x} BY <3>1
    <3>3. k \in K /\ k.t # p.session /\ x.t = k.t BY <3>1
    <3>4. ls2 \in {ls, ls \cup {k.t}} BY <3>1
    <3>5. ScreenFits(p, K, sv, rm, ls) BY <1>8
    <3> QED BY <3>2, <3>3, <3>4, <3>5, LoopNotShown
  <2> QED BY <2>1, <2>2
<1>9. p.mounted /\ ~mixed' => ScreenFits(p, (K \ {k}) \cup S, sv, rm, ls2) /\ ButtonsFit(p, (K \ {k}) \cup S)
  BY <1>1, <1>6, <1>7, <1>8
<1> QED BY <1>5, <1>6, <1>9, PageBecomes, ClicksCount, <1>2, <1>7 DEF ReadFailed, PageRows, TtyTaskRow

LEMMA Joined ==
  ASSUME NEW T, NEW a \in Seq(T), NEW b \in Seq(T)
  PROVE  /\ a \o b \in Seq(T) /\ Len(a \o b) = Len(a) + Len(b)
         /\ \A i \in 1 .. Len(a) : (a \o b)[i] = a[i]
         /\ \A i \in 1 .. Len(b) : (a \o b)[Len(a) + i] = b[i]
  OBVIOUS

\* What one read brings, decoded.
LEMMA DecodedType ==
  ASSUME NEW t \in TerminalIds, NEW c \in Nat, NEW u \in Nat, c <= u
  PROVE  /\ Decoded(t, c, u) \in Seq(Shows) /\ Len(Decoded(t, c, u)) = u - c
         /\ \A i \in 1 .. u - c :
               Decoded(t, c, u)[i] = IF Torn(c + i, c, u) THEN Garbled ELSE <<t, c + i>>
<1>1. PICK d \in Nat : d = u - c OBVIOUS
<1>2. \A i \in 1 .. d : (IF Torn(c + i, c, u) THEN Garbled ELSE <<t, c + i>>) \in Shows BY DEF Shows
<1>3. PICK f : f = [i \in 1 .. d |-> IF Torn(c + i, c, u) THEN Garbled ELSE <<t, c + i>>] OBVIOUS
<1>4. f \in [1 .. d -> Shows] BY <1>2, <1>3
<1>5. f = Decoded(t, c, u) BY <1>1, <1>3 DEF Decoded
<1>6. f \in Seq(Shows) /\ Len(f) = d BY <1>4
<1> QED BY <1>1, <1>3, <1>5, <1>6

\* What a read appends to what is shown is shown as well: two bytes of one
\* character are both marks if and only if the read begins between them.
LEMMA ShownGoesOn ==
  ASSUME NEW t \in TerminalIds, NEW c \in Nat, NEW u \in Nat, c <= u,
         NEW a \in Seq(Shows), Shown(a, t, c)
  PROVE  Shown(a \o Decoded(t, c, u), t, u)
<1>1. PICK b \in Seq(Shows) : b = Decoded(t, c, u) BY DecodedType
<1>2. /\ Len(a) = c /\ Len(b) = u - c
      /\ \A i \in 1 .. u - c : b[i] = IF Torn(c + i, c, u) THEN Garbled ELSE <<t, c + i>>
  BY <1>1, DecodedType DEF Shown
<1>3. /\ a \o b \in Seq(Shows) /\ Len(a \o b) = Len(a) + Len(b)
      /\ \A i \in 1 .. Len(a) : (a \o b)[i] = a[i]
      /\ \A i \in 1 .. Len(b) : (a \o b)[Len(a) + i] = b[i] BY Joined
<1>4. PICK o \in Seq(Shows) : o = a \o b BY <1>3
<1>5. /\ Len(o) = u /\ \A n \in 1 .. c : o[n] = a[n]
      /\ \A n \in c + 1 .. u : o[n] = IF Torn(n, c, u) THEN Garbled ELSE <<t, n>>
  <2>1. Len(o) = u /\ \A n \in 1 .. c : o[n] = a[n] BY <1>2, <1>3, <1>4
  <2>2. ASSUME NEW n \in c + 1 .. u PROVE o[n] = IF Torn(n, c, u) THEN Garbled ELSE <<t, n>>
    <3>1. PICK i \in 1 .. u - c : n = c + i
      <4>1. n - c \in 1 .. u - c /\ n = c + (n - c) OBVIOUS
      <4> QED BY <4>1
    <3> QED BY <1>2, <1>3, <1>4, <3>1
  <2> QED BY <2>1, <2>2
<1>6. t # 0 /\ \A n : <<t, n>> # Garbled BY PageAssumption DEF TerminalIds, Garbled
<1>7. ASSUME NEW n \in 1 .. u
      PROVE  o[n] = <<t, n>> \/ (o[n] = Garbled /\ (n \in TwoByte \/ n - 1 \in TwoByte))
  <2>1. CASE n \in 1 .. c BY <1>5, <2>1 DEF Shown
  <2>2. CASE n \in c + 1 .. u
    <3>1. Torn(n, c, u) => n \in TwoByte \/ n - 1 \in TwoByte BY <2>2 DEF Torn
    <3> QED BY <1>5, <2>2, <3>1
  <2> QED BY <2>1, <2>2
<1>8. ASSUME NEW n \in 1 .. u, n \in TwoByte
      PROVE  o[n] = Garbled <=> (n = u \/ o[n + 1] = Garbled)
  <2>1. n + 1 \notin TwoByte /\ n # 0 /\ n \in Nat BY <1>8, PageAssumption
  <2>2. CASE n < c
    <3>1. n \in 1 .. c /\ n + 1 \in 1 .. c /\ n # c /\ n # u BY <2>2
    <3>2. a[n] = Garbled <=> a[n + 1] = Garbled BY <1>8, <3>1 DEF Shown
    <3> QED BY <1>5, <3>1, <3>2
  <2>3. CASE n = c
    <3>1. n \in 1 .. c /\ a[n] = Garbled BY <1>8, <2>1, <2>3 DEF Shown
    <3>2. CASE n = u BY <1>5, <3>1, <3>2
    <3>3. CASE n # u
      <4>1. n + 1 \in c + 1 .. u BY <2>3, <3>3
      <4>2. Torn(n + 1, c, u) BY <1>8, <2>3 DEF Torn
      <4> QED BY <1>5, <3>1, <4>1, <4>2
    <3> QED BY <3>2, <3>3
  <2>4. CASE n > c
    <3>1. n \in c + 1 .. u BY <2>4
    <3>2. ~(n = c + 1 /\ c \in TwoByte) BY <1>8, PageAssumption
    <3>3. Torn(n, c, u) <=> n = u BY <1>8, <3>2 DEF Torn
    <3>4. CASE n = u BY <1>5, <3>1, <3>3, <3>4
    <3>5. CASE n # u
      <4>1. n + 1 \in c + 1 .. u /\ n + 1 # c + 1 BY <2>4, <3>5
      <4>2. ~Torn(n + 1, c, u) BY <2>1, <4>1 DEF Torn
      <4>3. o[n] = <<t, n>> /\ o[n + 1] = <<t, n + 1>> BY <1>5, <3>1, <3>3, <3>5, <4>1, <4>2
      <4> QED BY <1>6, <3>5, <4>3
    <3> QED BY <3>4, <3>5
  <2>5. n < c \/ n = c \/ n > c BY <2>1
  <2> QED BY <2>2, <2>3, <2>4, <2>5
<1>9. Shown(o, t, u) BY <1>5, <1>7, <1>8 DEF Shown
<1> QED BY <1>1, <1>4, <1>9

LEMMA ReadAnsweredKeeps ==
  ASSUME PageInv, NEW k \in ttyTasks, ReadAnswered(k) PROVE PageInv'
<1>1. PICK p \in TtyRow, K \in SUBSET TtyTaskRow, sv \in {0} \cup TerminalIds,
           rm \in [TerminalIds -> ShellRow], ls \in SUBSET TerminalIds :
        /\ p = tty /\ K = ttyTasks /\ sv = saved /\ rm = remote /\ ls = lost
        /\ PageRows(p, K, sv, rm, ls)
        /\ p.mounted /\ ~mixed => ScreenFits(p, K, sv, rm, ls) /\ ButtonsFit(p, K) BY ThePage
<1>2. /\ k \in K /\ k.kind = "read" /\ k \in TtyTaskRow /\ k.t # 0 /\ k.t \in TerminalIds
      /\ k.after \in Nat BY <1>1 DEF ReadAnswered, PageRows, TtyTaskFits, TtyTaskRow
<1>3. PICK x : x = [k EXCEPT !.kind = "loop", !.after = 0] OBVIOUS
<1>4. /\ x \in TtyTaskRow /\ x.kind = "loop" /\ x.life = k.life /\ x.gen = k.gen /\ x.t = k.t
  BY <1>2, <1>3 DEF TtyTaskRow
<1>5. ASSUME ScreenFits(p, K, sv, rm, ls), k.t = p.session, NEW S \in SUBSET {x}
      PROVE  /\ k.life = p.life /\ k.gen = p.generation /\ ~p.ended /\ p.session \notin ls
             /\ LoopsOf(p, (K \ {k}) \cup S) = S
  <2>1. k \in LoopsOf(p, K) BY <1>2, <1>5 DEF LoopsOf
  <2>2. /\ k.life = p.life /\ k.gen = p.generation
        /\ One(LoopsOf(p, K), ~p.ended /\ p.session \notin ls) BY <1>2, <1>5, <2>1 DEF ScreenFits
  <2>3. S \subseteq LoopsOf(p, (K \ {k}) \cup S) BY <1>4, <1>5 DEF LoopsOf
  <2> QED BY <2>2, <2>3, <2>1 DEF LoopsOf, One
<1>6. ASSUME ScreenFits(p, K, sv, rm, ls), k.t = p.session
      PROVE  k.after = p.cursor BY <1>2, <1>6 DEF ScreenFits, LoopsOf
<1>7. PICK u \in Nat, over \in BOOLEAN :
        /\ k.after <= u /\ u <= rm[k.t].out
        /\ tty' = IF OnPage(k)
                  THEN [p EXCEPT !.output = @ \o Decoded(k.t, k.after, u), !.cursor = u, !.ended = over]
                  ELSE p
        /\ ttyTasks' = (K \ {k}) \cup IF over THEN {} ELSE {[k EXCEPT !.kind = "loop", !.after = 0]}
  <2>1. k.after .. k.after + ReadLimit \subseteq Nat /\ \A u \in k.after .. k.after + ReadLimit : k.after <= u
    BY <1>2, PageAssumption
  <2> QED BY <1>1, <2>1 DEF ReadAnswered
<1>8. u \in Nat /\ k.after <= u BY <1>7
<1>9. PICK S : S = IF over THEN {} ELSE {x} OBVIOUS
<1>10. ttyTasks' = (K \ {k}) \cup S /\ S \subseteq {x} BY <1>7, <1>3, <1>9
<1>11. /\ saved' = sv /\ remote' = rm /\ lost' = ls /\ mixed' \in BOOLEAN
       /\ mixed' = (mixed \/ (OnPage(k) /\ ~(StartIsCurrent(k) /\ p.session = k.t))) BY <1>1 DEF ReadAnswered, PageInv
<1>12. ttyClicks' \in Nat BY ClicksCount DEF ReadAnswered
<1>13. S \in SUBSET {x} BY <1>10
<1>14. CASE OnPage(k)
  <2>1. PICK o \in Seq(Shows) : o = p.output \o Decoded(k.t, k.after, u)
    <3>1. p.output \o Decoded(k.t, k.after, u) \in Seq(Shows) BY Joined, <1>2, <1>8, DecodedType DEF TtyRow
    <3> QED BY <3>1, Zenon
  <2>2. PICK n : n = [p EXCEPT !.output = o, !.cursor = u, !.ended = over] OBVIOUS
  <2>3. /\ n \in TtyRow /\ n.life = p.life /\ n.mounted = p.mounted /\ n.generation = p.generation
        /\ n.session = p.session /\ n.starting = p.starting /\ n.sending = p.sending
        /\ n.busy = p.busy /\ n.target = p.target
        /\ n.output = o /\ n.cursor = u /\ n.ended = over BY <1>7, <1>8, <2>2 DEF TtyRow
  <2>4. tty' = n BY <1>7, <1>14, <2>1, <2>2 DEF TtyRow
  <2>5. /\ PageRows(n, (K \ {k}) \cup S, sv, rm, ls)
        /\ ButtonsFit(p, K) => ButtonsFit(n, (K \ {k}) \cup S) BY <1>1, <1>2, <1>4, <1>13, <2>3, LoopMoves
  <2>6. ASSUME ScreenFits(p, K, sv, rm, ls), p.session = k.t
        PROVE  ScreenFits(n, (K \ {k}) \cup S, sv, rm, ls)
    <3>1. /\ k.life = p.life /\ k.gen = p.generation /\ ~p.ended /\ p.session \notin ls
          /\ k.after = p.cursor /\ LoopsOf(p, (K \ {k}) \cup S) = S BY <1>13, <1>5, <1>6, <2>6
    <3>2. LoopsOf(n, (K \ {k}) \cup S) = S BY <2>3, <3>1 DEF LoopsOf
    <3>3. One(LoopsOf(n, (K \ {k}) \cup S), ~n.ended /\ n.session \notin ls) BY <3>2, <1>7, <1>9, <2>3, <3>1 DEF One
    <3>4. Shown(n.output, n.session, n.cursor)
      <4>1. Shown(p.output, k.t, k.after) /\ p.output \in Seq(Shows) BY <1>2, <2>6, <3>1 DEF ScreenFits, TtyRow
      <4> QED BY <2>1, <2>3, <2>6, <4>1, <1>2, <1>8, ShownGoesOn
    <3>5. n.cursor <= rm[n.session].out BY <1>7, <2>3, <2>6
    <3>6. sv = n.session /\ ~n.starting BY <1>2, <2>3, <2>6 DEF ScreenFits
    <3> QED BY <3>3, <3>4, <3>5, <3>6, <1>4, <1>10, <2>3, <3>1, <3>2 DEF ScreenFits
  <2>7. ASSUME n.mounted, ~mixed'
        PROVE  ScreenFits(n, (K \ {k}) \cup S, sv, rm, ls) /\ ButtonsFit(n, (K \ {k}) \cup S)
    BY <2>5, <2>6, <2>7, <1>1, <2>3, <1>11, <1>14
  <2> QED BY <1>10, <1>11, <1>12, <2>4, <2>5, <2>7, PageBecomes
<1>15. CASE ~OnPage(k)
  <2>1. /\ PageRows(p, (K \ {k}) \cup S, sv, rm, ls)
        /\ ButtonsFit(p, K) => ButtonsFit(p, (K \ {k}) \cup S) BY <1>1, <1>2, <1>4, <1>13, LoopMoves
  <2>2. ASSUME p.mounted, ScreenFits(p, K, sv, rm, ls)
        PROVE  ScreenFits(p, (K \ {k}) \cup S, sv, rm, ls)
    <3>1. CASE k.t = p.session BY <1>1, <1>15, <2>2, <1>13, <1>5, <3>1 DEF OnPage
    <3>2. CASE k.t # p.session BY <2>2, LoopNotShown, <1>2, <1>4, <3>2, <1>10
    <3> QED BY <3>1, <3>2
  <2> QED BY <1>1, <1>10, <1>11, <1>12, <2>1, <2>2, PageBecomes, <1>15, <1>7 DEF PageInv
<1> QED BY <1>14, <1>15

\* The page whose terminal was closed shows none, and no start is current.
LEMMA PageClosed ==
  ASSUME NEW p \in TtyRow, NEW K, NEW sv, NEW rm, NEW ls, PageRows(p, K, sv, rm, ls),
         NEW k \in K, k.kind = "close", k.life = p.life,
         NEW n \in TtyRow, n.life = p.life, n.generation = p.generation + 1, n.session = 0,
         n.starting = p.starting, n.sending = p.sending, n.busy = FALSE, n.target = p.target
  PROVE  /\ PageRows(n, K \ {k}, 0, rm, ls)
         /\ ScreenFits(p, K, sv, rm, ls) /\ ButtonsFit(p, K) =>
               ScreenFits(n, K \ {k}, 0, rm, ls) /\ ButtonsFit(n, K \ {k})
<1>1. PICK g \in Nat : g = p.generation BY DEF TtyRow
<1>2. n.generation = g + 1 /\ n.generation >= p.generation BY <1>1
<1>3. PageRows(n, K \ {k}, 0, rm, ls)
  <2>1. PageRows(n, K, sv, rm, ls) BY <1>2, RowsOf
  <2> QED BY <2>1 DEF PageRows
<1>4. \A q \in K : q.kind # "start" => q.t # 0 BY DEF PageRows, TtyTaskFits
<1>5. StartsOf(n, K \ {k}) = {}
  <2>1. \A q \in K : q.life = p.life => q.gen # n.generation
    <3> TAKE q \in K
    <3> QED BY <1>1, <1>2 DEF TtyTaskFits, PageRows, TtyTaskRow
  <2> QED BY <2>1 DEF StartsOf
<1>6. ASSUME ScreenFits(p, K, sv, rm, ls), ButtonsFit(p, K) PROVE ButtonsFit(n, K \ {k})
  <2>1. p.session # 0 /\ ~n.starting BY <1>6, <1>4 DEF ScreenFits, ButtonsFit
  <2>2. One(OfKinds(n, K \ {k}, {"write"}), n.sending) BY <1>6 DEF ButtonsFit, OfKinds
  <2>3. OfKinds(p, K, {"control", "close"}) = {k} BY <1>6 DEF One, OfKinds, ButtonsFit, TtyRow
  <2>4. ASSUME NEW q \in K \ {k}, q.kind = "close" PROVE q.life = n.life <=> q.t = n.session
    <3>1. q.t # 0 BY <1>4, <2>4
    <3> QED BY <3>1, <2>4, <2>3 DEF OfKinds
  <2> QED BY <2>2, <2>4, <1>5, <2>1, <2>3 DEF ButtonsFit, One, OfKinds
<1> QED BY <1>3, <1>6 DEF ScreenFits

LEMMA CloseAnsweredKeeps ==
  ASSUME PageInv, NEW k \in ttyTasks, CloseAnswered(k) PROVE PageInv'
<1>1. PICK p \in TtyRow, K \in SUBSET TtyTaskRow, sv \in {0} \cup TerminalIds,
           rm \in [TerminalIds -> ShellRow], ls \in SUBSET TerminalIds :
        /\ p = tty /\ K = ttyTasks /\ sv = saved /\ rm = remote /\ ls = lost
        /\ PageRows(p, K, sv, rm, ls)
        /\ p.mounted /\ ~mixed => ScreenFits(p, K, sv, rm, ls) /\ ButtonsFit(p, K) BY ThePage
<1>2. k \in K /\ k.kind = "close" /\ k \in TtyTaskRow /\ k.t # 0 BY <1>1 DEF CloseAnswered, PageRows, TtyTaskFits
<1>3. PICK r2 : r2 = remote' /\ GoesOn(rm, r2) BY <1>1, ShellsGoOn DEF CloseAnswered
<1>4. /\ saved' = 0 /\ lost' = ls /\ ttyTasks' = K \ {k} /\ mixed' \in BOOLEAN
      /\ mixed' = (mixed \/ (p.session # 0 /\ p.session # k.t)) BY <1>1 DEF CloseAnswered, TaskEnds, PageInv
<1>5. ttyClicks' \in Nat BY ClicksCount DEF CloseAnswered
<1>6. /\ PageRows(p, K, sv, r2, ls)
      /\ ScreenFits(p, K, sv, rm, ls) => ScreenFits(p, K, sv, r2, ls) BY <1>1, <1>3, PageGoesOn
<1>7. CASE OnPage(k)
  <2>1. PICK g \in Nat : g = p.generation + 1 /\ p.generation \in Nat BY DEF TtyRow
  <2>2. PICK e \in Seq(Shows) : e = <<>>
    <3>1. <<>> \in Seq(Shows) OBVIOUS
    <3> QED BY <3>1, Zenon
  <2>3. PICK n : n = [p EXCEPT !.generation = g, !.session = 0, !.output = e, !.busy = FALSE] OBVIOUS
  <2>4. /\ n \in TtyRow /\ n.life = p.life /\ n.mounted = p.mounted /\ n.generation = g
        /\ n.session = 0 /\ n.starting = p.starting /\ n.sending = p.sending /\ n.busy = FALSE
        /\ n.target = p.target BY <2>3 DEF TtyRow
  <2>5. tty' = n BY <1>1, <1>7, <2>1, <2>2, <2>3 DEF CloseAnswered, ClosedPage
  <2>6. /\ PageRows(n, K \ {k}, 0, r2, ls)
        /\ ScreenFits(p, K, sv, r2, ls) /\ ButtonsFit(p, K) =>
              ScreenFits(n, K \ {k}, 0, r2, ls) /\ ButtonsFit(n, K \ {k})
    BY <1>2, <1>6, <2>4, PageClosed, <1>1, <1>7, <2>1 DEF OnPage
  <2>7. ASSUME n.mounted, ~mixed'
        PROVE  ScreenFits(n, K \ {k}, 0, r2, ls) /\ ButtonsFit(n, K \ {k}) BY <1>6, <2>6, <1>1, <1>4, <2>4, <2>7
  <2> QED BY <1>3, <1>4, <1>5, <2>5, <2>6, <2>7, PageBecomes
<1>8. CASE ~OnPage(k)
  <2>1. tty' = p BY <1>1, <1>8 DEF CloseAnswered
  <2>2. PageRows(p, K \ {k}, 0, r2, ls) BY <1>6, RowsLess DEF PageRows
  <2>3. ASSUME p.mounted, ~mixed'
        PROVE  ScreenFits(p, K \ {k}, 0, r2, ls) /\ ButtonsFit(p, K \ {k})
    <3>1. k.life # p.life BY <1>1, <1>8, <2>3 DEF OnPage
    <3>2. ScreenFits(p, K, sv, rm, ls) /\ ButtonsFit(p, K) BY <1>1, <1>4, <2>3
    <3>3. p.session = 0 BY <1>4, <2>3, <1>2, <3>1, <3>2 DEF ButtonsFit
    <3>4. /\ OfKinds(p, K \ {k}, {"write"}) = OfKinds(p, K, {"write"})
          /\ OfKinds(p, K \ {k}, {"control", "close"}) = OfKinds(p, K, {"control", "close"})
          /\ StartsOf(p, K \ {k}) = StartsOf(p, K) BY <3>1 DEF OfKinds, StartsOf
    <3> QED BY <3>2, <3>4, <3>3 DEF ButtonsFit, ScreenFits
  <2> QED BY <1>3, <1>4, <1>5, <2>1, <2>2, <2>3, PageBecomes
<1> QED BY <1>7, <1>8

LEMMA PageInitially == WebTerminalInit => PageInv
<1> SUFFICES ASSUME WebTerminalInit PROVE PageInv OBVIOUS
<1>1. PICK p : p = tty OBVIOUS
<1>2. PICK e \in Seq(Shows) : e = <<>>
  <2>1. <<>> \in Seq(Shows) OBVIOUS
  <2> QED BY <2>1, Zenon
<1>3. /\ p \in TtyRow /\ p.session = 0 /\ p.target = 0 /\ p.starting = FALSE /\ p.sending = FALSE
      /\ p.busy = FALSE BY <1>1, <1>2 DEF TtyRow, WebTerminalInit, FreshPage
<1>4. ButtonsFit(p, {}) BY <1>3 DEF ButtonsFit, One, StartsOf, OfKinds
<1> QED BY <1>1, <1>4, <1>3 DEF PageInv, WebTerminalInit, ScreenFits, PageRows, ShellRow

LEMMA PageStep == PageInv /\ [WebTerminalNext]_ttyvars => PageInv'
<1> SUFFICES ASSUME PageInv, [WebTerminalNext]_ttyvars PROVE PageInv' OBVIOUS
<1>1. CASE LeavePage \/ VisitPage \/ ReloadTab BY <1>1, LeavePageKeeps, VisitsKeep
<1>2. CASE SubmitStart \/ ClickReconnect \/ Dismiss BY <1>2, SubmitStartKeeps, ClickReconnectKeeps, DismissKeeps
<1>3. CASE SendLine \/ ResizeOrInterrupt \/ CloseTerminal BY <1>3, SendLineKeeps, ResizeKeeps, CloseTerminalKeeps
<1>4. ASSUME NEW t \in TerminalIds, ShellPrints(t) \/ ShellExits(t) PROVE PageInv' BY <1>4, ShellsKeep
<1>5. ASSUME NEW k \in ttyTasks, ReconnectClosed(k) \/ StartAnswered(k) \/ StartRefused(k) PROVE PageInv'
  BY <1>5, ReconnectClosedKeeps, StartAnsweredKeeps, StartRefusedKeeps
<1>6. ASSUME NEW k \in ttyTasks, Poll(k) \/ ReadAnswered(k) \/ ReadFailed(k) PROVE PageInv'
  BY <1>6, PollKeeps, ReadAnsweredKeeps, ReadFailedKeeps
<1>7. ASSUME NEW k \in ttyTasks,
             LineAnswered(k) \/ ControlAnswered(k) \/ CloseAnswered(k) \/ CloseFailed(k)
      PROVE PageInv' BY <1>7, LineAnsweredKeeps, ControlAnsweredKeeps, CloseAnsweredKeeps, CloseFailedKeeps
<1>8. CASE UNCHANGED ttyvars BY <1>8 DEF ttyvars, PageInv, PageRows, ScreenFits, ButtonsFit
<1> QED BY <1>1, <1>2, <1>3, <1>4, <1>5, <1>6, <1>7, <1>8 DEF WebTerminalNext

LEMMA OneCounts ==
  ASSUME NEW S, NEW b, One(S, b) PROVE Cardinality(S) = IF b THEN 1 ELSE 0
<1>1. CASE b
  <2>1. PICK k : S = {k} BY <1>1 DEF One
  <2> QED BY <1>1, <2>1, FS_Singleton
<1>2. CASE ~b BY <1>2, FS_EmptySet DEF One
<1> QED BY <1>1, <1>2

LEMMA PageFollows == PageInv => TerminalPageTrue
<1> SUFFICES ASSUME PageInv, tty.mounted, ~mixed
    PROVE LET working(kinds) == Cardinality({k \in ttyTasks : k.kind \in kinds /\ OnPage(k)})
              loops == {k \in ttyTasks : k.kind \in {"loop", "read"} /\ StartIsCurrent(k) /\ k.t = tty.session}
              flag(b) == IF b THEN 1 ELSE 0
          IN /\ tty.session # 0 =>
                  /\ Shown(tty.output, tty.session, tty.cursor)
                  /\ tty.cursor <= remote[tty.session].out
                  /\ saved = tty.session
                  /\ Cardinality(loops) = flag(~tty.ended /\ tty.session \notin lost)
             /\ Cardinality({k \in ttyTasks : k.kind = "start" /\ StartIsCurrent(k)}) = flag(tty.starting)
             /\ working({"write"}) = flag(tty.sending)
             /\ working({"control", "close"}) = flag(tty.busy) BY DEF TerminalPageTrue
<1>1. ScreenFits(tty, ttyTasks, saved, remote, lost) /\ ButtonsFit(tty, ttyTasks) BY DEF PageInv
<1>2. ASSUME tty.session # 0
      PROVE  {k \in ttyTasks : k.kind \in {"loop", "read"} /\ StartIsCurrent(k) /\ k.t = tty.session}
                = LoopsOf(tty, ttyTasks) BY <1>1, <1>2 DEF LoopsOf, StartIsCurrent, OnPage, ScreenFits
<1>3. tty.session # 0 => Cardinality(LoopsOf(tty, ttyTasks)) = IF ~tty.ended /\ tty.session \notin lost THEN 1 ELSE 0
  BY <1>1, OneCounts DEF ScreenFits
<1>4. /\ Cardinality(StartsOf(tty, ttyTasks)) = IF tty.starting THEN 1 ELSE 0
      /\ Cardinality(OfKinds(tty, ttyTasks, {"write"})) = IF tty.sending THEN 1 ELSE 0
      /\ Cardinality(OfKinds(tty, ttyTasks, {"control", "close"})) = IF tty.busy THEN 1 ELSE 0
  BY <1>1, OneCounts DEF ButtonsFit
<1>5. tty.session # 0 =>
          /\ Shown(tty.output, tty.session, tty.cursor)
          /\ tty.cursor <= remote[tty.session].out
          /\ saved = tty.session BY <1>1 DEF ScreenFits
<1> QED BY <1>2, <1>3, <1>4, <1>5 DEF OnPage, OfKinds, StartIsCurrent, StartsOf

\* Until a task of an earlier terminal touches a later one, what the page shows
\* is the beginning of its terminal's output, read by one loop, but for the
\* characters that two reads have torn; and a button is off while its task works
\* (app.rs, TerminalsPage), for any number of terminals, clicks, visits and
\* faults, and wherever the characters of the output begin.
THEOREM PageTold == WebTerminalSpec => []TerminalPageTrue
<1>1. WebTerminalInit => PageInv BY PageInitially
<1>2. PageInv /\ [WebTerminalNext]_ttyvars => PageInv' BY PageStep
<1>3. PageInv => TerminalPageTrue BY PageFollows
<1> QED BY <1>1, <1>2, <1>3, PTL DEF WebTerminalSpec

-----------------------------------------------------------------------------
(* The four of them in one daemon *)

\* A behaviour of the daemon follows one of its parts and leaves the state of
\* the others alone, so that it is a behaviour of each of them.
LEMMA TerminalPartsBehave ==
  Spec => TerminalSpec /\ OutputSpec /\ SandboxCallsSpec /\ WebTerminalSpec
<1>1. Init => TerminalInit /\ OutputInit /\ SandboxCallsInit /\ WebTerminalInit BY DEF Init
<1>2. [Next]_partVars => /\ [TerminalNext]_tvars /\ [OutputNext]_ovars
                         /\ [SandboxCallsNext]_scvars /\ [WebTerminalNext]_ttyvars BY DEF Next, partVars
<1> QED BY <1>1, <1>2, PTL DEF Spec, TerminalSpec, OutputSpec, SandboxCallsSpec, WebTerminalSpec

\* What the daemon records of a terminal, tells its readers, logs of a call and
\* what the page shows of it, is what happened.
THEOREM RecordsAreTrue == Spec => []TerminalRecordsTrue
<1>1. /\ InputOnce /\ CompleteMeansAll /\ RegistryExact /\ OutputIsStream
      /\ SandboxLogTrue /\ SandboxCallsTypeOK /\ TerminalPageTrue
      => TerminalRecordsTrue BY DEF TerminalRecordsTrue
<1> QED BY <1>1, TerminalPartsBehave, TerminalRecords, OutputReadsAsStream, CallsLogged, PageTold, PTL

\* The daemon never revives a terminal that has ended.
THEOREM NoTerminalRevived == Spec => NeverRevived
  BY TerminalPartsBehave, EndedStaysEnded, PTL

=============================================================================

--------------------------- MODULE TerminalOutput ---------------------------
(***************************************************************************)
(* The output of one terminal between the task that drains its pty         *)
(* (drain_pty_output), the journal that keeps it in chunks (append_output, *)
(* read_output, ack_output of journal.rs) and the clients that read it by  *)
(* cursor and wait for more (read_output of runtime.rs).                   *)
(*                                                                         *)
(* Byte n of the output is the number n.  A client may lose the answer to  *)
(* a read and ask again; several read and acknowledge the same terminal.   *)
(* Each journal call is a transaction under the journal's lock; the task   *)
(* and the readers interleave between those calls.                         *)
(***************************************************************************)
EXTENDS Naturals, FiniteSets, FiniteSetsExt

CONSTANTS OutReaders,       \* clients
          MaxBytes,         \* bound: bytes the process writes
          OutputLimit,      \* MAX_TERMINAL_OUTPUT_BYTES
          ChunkBytes,       \* MAX_TERMINAL_OUTPUT_CHUNK_BYTES
          ReadSizes,        \* max_bytes of a read
          MaxOutReads,      \* bound: reads of all clients
          MaxOutAcks        \* bound: acknowledgements

ASSUME OutputAssumption == /\ {MaxBytes, OutputLimit} \subseteq Nat /\ ReadSizes \subseteq Nat
                           /\ ChunkBytes \in Nat \ {0}

VARIABLES row,      \* the terminal's row: cursors, state, output_complete
          chunks,   \* output_chunks: <<start_cursor, end_cursor>>
          drain,    \* where the draining task, then the monitor, is
          reader,   \* reader[r]: the read a client is in, and its cursor
          answered, \* answered[r]: the last answer it got
          acks, outReads

ovars == <<row, chunks, drain, reader, answered, acks, outReads>>

Answer0 == [after |-> 0, start |-> 0, next |-> 0, bytes |-> {}]

OutputInit ==
    /\ row = [start |-> 0, end |-> 0, ack |-> 0, state |-> "running", complete |-> TRUE]
    /\ chunks = {}
    /\ drain = "read"
    /\ reader = [r \in OutReaders |-> [pc |-> "idle", after |-> 0, max |-> 0, woken |-> FALSE]]
    /\ answered = [r \in OutReaders |-> Answer0]
    /\ acks = 0 /\ outReads = 0

(***************************************************************************)
(* The draining task and the monitor                                       *)
(***************************************************************************)
(* The rows a write of n bytes becomes *)
Chunked(from, n) ==
    {<<s, Min({s + ChunkBytes, from + n})>> :
        s \in {from + k * ChunkBytes : k \in {j \in 0..n : j * ChunkBytes < n}}}

AppendOutput(n) ==
    /\ drain = "read" /\ row.end + n <= MaxBytes
    /\ LET room == OutputLimit - row.end
           accepted == IF row.complete THEN Min({n, room}) ELSE 0
       IN /\ chunks' = chunks \cup Chunked(row.end, accepted)
          /\ row' = [row EXCEPT !.end = @ + accepted, !.complete = @ /\ accepted = n]
          /\ drain' = IF accepted = n THEN "notify" ELSE "last"
    /\ UNCHANGED <<reader, answered, acks, outReads>>

(* The pty is closed, or cannot be read *)
DrainEnds ==
    /\ drain = "read" /\ drain' = "last"
    /\ UNCHANGED <<row, chunks, reader, answered, acks, outReads>>

(* notify_waiters reaches the readers that have registered *)
NotifyWaiters(next) ==
    /\ drain' = next
    /\ reader' = [r \in OutReaders |->
         IF reader[r].pc \in {"registered", "waiting"} THEN [reader[r] EXCEPT !.woken = TRUE]
         ELSE reader[r]]
    /\ UNCHANGED <<row, chunks, answered, acks, outReads>>

NotifyAppended == drain = "notify" /\ NotifyWaiters("read")

NotifyLast == drain = "last" /\ NotifyWaiters("record")

(* The monitor records the exit, and whether the pty could be read to its end *)
RecordExit ==
    /\ drain = "record" /\ drain' = "final"
    /\ \E failed \in BOOLEAN :
         row' = [row EXCEPT !.state = "exited", !.complete = @ /\ ~failed]
    /\ UNCHANGED <<chunks, reader, answered, acks, outReads>>

NotifyExit == drain = "final" /\ NotifyWaiters("done")

(***************************************************************************)
(* Readers                                                                 *)
(***************************************************************************)
Held == UNION {(c[1] + 1)..c[2] : c \in chunks}

(* The first max bytes kept after the cursor, or after what is gone *)
ReadOutput(after, max) ==
    LET start == IF after > row.start THEN after ELSE row.start
        later == {b \in Held : b > start}
        bytes == {b \in later : Cardinality({a \in later : a <= b}) <= max}
    IN [after |-> after, start |-> start, next |-> start + Cardinality(bytes), bytes |-> bytes]

Conclusive(answer) == answer.bytes # {} \/ row.state # "running"

(* The client moves its cursor, unless the answer does not reach it *)
Deliver(r, answer) ==
    /\ answered' = [answered EXCEPT ![r] = answer]
    /\ \E arrives \in BOOLEAN :
         reader' = [reader EXCEPT ![r].pc = "idle", ![r].woken = FALSE, ![r].max = 0,
                                  ![r].after = IF arrives THEN answer.next ELSE @]

(* A read that may not wait, or whose session is gone, returns what it found *)
FirstRead(r, max, wait) ==
    /\ reader[r].pc = "idle" /\ outReads < MaxOutReads /\ outReads' = outReads + 1
    /\ LET answer == ReadOutput(reader[r].after, max)
       IN IF Conclusive(answer) \/ ~wait THEN Deliver(r, answer)
          ELSE reader' = [reader EXCEPT ![r].pc = "found", ![r].max = max] /\ UNCHANGED answered
    /\ UNCHANGED <<row, chunks, drain, acks>>

(* notified.enable() *)
RegisterWaiter(r) ==
    /\ reader[r].pc = "found"
    /\ reader' = [reader EXCEPT ![r].pc = "registered"]
    /\ UNCHANGED <<row, chunks, drain, answered, acks, outReads>>

SomethingNew(answer) == Conclusive(answer)

SecondRead(r) ==
    /\ reader[r].pc = "registered"
    /\ LET answer == ReadOutput(reader[r].after, reader[r].max)
       IN IF SomethingNew(answer) THEN Deliver(r, answer)
          ELSE reader' = [reader EXCEPT ![r].pc = "waiting"] /\ UNCHANGED answered
    /\ UNCHANGED <<row, chunks, drain, acks, outReads>>

ThirdRead(r) ==
    /\ Deliver(r, ReadOutput(reader[r].after, reader[r].max))
    /\ UNCHANGED <<row, chunks, drain, acks, outReads>>

WaiterWoken(r) == reader[r].pc = "waiting" /\ reader[r].woken /\ ThirdRead(r)

WaitTimesOut(r) == reader[r].pc = "waiting" /\ ThirdRead(r)

\* Chunks that end at or before the cursor are deleted.
Acked(c, ack) == c[2] <= ack

AckOutput(cursor) ==
    /\ acks < MaxOutAcks /\ acks' = acks + 1
    /\ cursor <= row.end
    /\ LET ack == IF cursor > row.ack THEN cursor ELSE row.ack
       IN /\ chunks' = {c \in chunks : ~Acked(c, ack)}
          /\ row' = [row EXCEPT !.ack = ack, !.start = IF ack > @ THEN ack ELSE @]
    /\ UNCHANGED <<drain, reader, answered, outReads>>

OutputNext ==
    \/ \E n \in 1..2 : AppendOutput(n)
    \/ DrainEnds \/ NotifyAppended \/ NotifyLast \/ RecordExit \/ NotifyExit
    \/ \E r \in OutReaders :
         \/ \E max \in ReadSizes, wait \in BOOLEAN : FirstRead(r, max, wait)
         \/ RegisterWaiter(r) \/ SecondRead(r) \/ WaiterWoken(r) \/ WaitTimesOut(r)
    \/ \E cursor \in 0..MaxBytes : AckOutput(cursor)

OutputSpec == OutputInit /\ [][OutputNext]_ovars

(***************************************************************************)
(* Properties                                                              *)
(***************************************************************************)
(* Cursors in order and within the limit *)
OutputTypeOK ==
    /\ row.ack <= row.start /\ row.start <= row.end /\ row.end <= OutputLimit
    /\ \A c \in chunks : c[1] < c[2] /\ c[2] <= row.end /\ c[2] - c[1] <= ChunkBytes
    /\ \A r \in OutReaders : reader[r].after <= row.end

(* read_output answers with the bytes from start_cursor to next_cursor and *)
(* no other, and skips from the cursor asked for only over bytes that some *)
(* client has acknowledged: with acknowledgements in the middle of chunks, *)
(* lost answers and several readers, no byte is read under another number. *)
(* A reader that waits is woken for what came since it looked (the second  *)
(* read is made after it has registered).                                  *)
OutputIsStream ==
    /\ \A r \in OutReaders :
         /\ answered[r].bytes = (answered[r].start + 1)..answered[r].next
         /\ answered[r].start # answered[r].after => answered[r].start <= row.ack
         /\ reader[r].pc = "waiting" /\ Conclusive(ReadOutput(reader[r].after, reader[r].max))
              => reader[r].woken \/ drain \in {"notify", "last", "final"}
    /\ (row.start + 1)..row.end \subseteq Held
=============================================================================

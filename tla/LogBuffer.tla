----------------------------- MODULE LogBuffer -----------------------------
(***************************************************************************)
(* The write path of the syslog receiver (backend/services/syslog.py):     *)
(* every accepted message is a task that appends to one buffer under       *)
(* _buffer_lock; a full buffer, a timer and the shutdown write it to       *)
(* ClickHouse while they hold the lock; a failed batch goes back to the    *)
(* front.  ClickHouse may fail before or after it has stored a batch, may  *)
(* be slow, and the process may end at any time.                           *)
(*                                                                         *)
(* All of it runs in one event loop, so what a task does between two       *)
(* awaits is one action.  The only await under the lock is the insert:     *)
(* the lock is held exactly while a batch is on its way, or else it is the *)
(* turn of the first task that waits for it.                               *)
(***************************************************************************)
EXTENDS Naturals, FiniteSets, SequencesExt

CONSTANTS
  MaxMessages,  \* bound: messages ever accepted, numbered as they arrive
  BufferSize,   \* _BUFFER_SIZE
  BufferMax     \* _BUFFER_MAX

ASSUME BufferAssumption ==
  /\ MaxMessages \in Nat
  /\ BufferSize \in Nat \ {0}
  /\ BufferMax \in Nat \ {0}

VARIABLES
  received,   \* messages accepted so far
  ready,      \* tasks created for them that have not run yet
  waiting,    \* who waits for _buffer_lock, in turn
  buffer,     \* _buffer
  batch,      \* what is being inserted
  writer,     \* who inserts it, holding the lock
  timer,      \* the task _flush_loop
  phase,      \* of the server
  tcp,        \* a TCP sender is connected
  (* history *)
  lines,      \* messages that came over TCP
  stored,     \* messages ClickHouse has
  dropped,    \* messages dropped as the oldest
  lost        \* messages that ended with a task or the process

taskVars == <<ready, waiting, batch, writer, timer, phase, tcp>>
bufVars == <<received, buffer, taskVars, lines, stored, dropped, lost>>

\* Besides a message's own task: the flush loop, the shutdown, no task.
Flusher == 0
Stopper == MaxMessages + 1
NoTask  == MaxMessages + 2

BufInit ==
  /\ received = 0 /\ ready = <<>> /\ waiting = <<>>
  /\ buffer = <<>> /\ batch = <<>> /\ writer = NoTask
  /\ timer = "asleep" /\ phase = "running" /\ tcp = FALSE
  /\ lines = {} /\ stored = {} /\ dropped = {} /\ lost = {}

-----------------------------------------------------------------------------
(* Messages arrive.                                                        *)

\* A datagram has passed the filters: it becomes a task.
ReceiveDatagram ==
  /\ received < MaxMessages
  /\ phase = "running"
  /\ received' = received + 1
  /\ ready' = Append(ready, received')
  /\ UNCHANGED <<waiting, buffer, batch, writer, timer, phase, tcp, lines, stored, dropped, lost>>

\* So has a line of a connected sender: its handler itself runs up to the lock.
ReceiveLine ==
  /\ received < MaxMessages
  /\ tcp /\ phase \in {"running", "closing"}
  /\ received' = received + 1
  /\ lines' = lines \union {received'}
  /\ waiting' = Append(waiting, received')
  /\ UNCHANGED <<ready, buffer, batch, writer, timer, phase, tcp, stored, dropped, lost>>

\* The task of a datagram runs up to the lock.
Reach ==
  /\ phase # "down"
  /\ ready # <<>>
  /\ waiting' = Append(waiting, Head(ready))
  /\ ready' = Tail(ready)
  /\ UNCHANGED <<received, lines, buffer, batch, writer, timer, phase, tcp, stored, dropped, lost>>

-----------------------------------------------------------------------------
(* Under the lock.                                                         *)

\* How many messages exceed the cap.
Overflow(b) == IF Len(b) > BufferMax THEN Len(b) - BufferMax ELSE 0

\* The cap keeps the newest.
Capped(b) == SubSeq(b, Overflow(b) + 1, Len(b))

\* The messages of b that the cap drops.
Excess(b) == Range(b) \ Range(Capped(b))

\* _flush_buffer up to the insert: `who` holds the lock with the content b.
Flush(who, b) ==
  /\ batch' = b
  /\ buffer' = <<>>
  /\ writer' = who

Enqueue(m) ==
  LET b == Capped(Append(buffer, m))
  IN  /\ dropped' = dropped \union Excess(Append(buffer, m))
      /\ IF Len(b) >= BufferSize THEN Flush(m, b)
         ELSE buffer' = b /\ UNCHANGED <<batch, writer>>
      /\ UNCHANGED <<timer, phase>>

TimedFlush ==
  /\ IF buffer = <<>> THEN timer' = "asleep" /\ UNCHANGED <<buffer, batch, writer>>
     ELSE Flush(Flusher, buffer) /\ UNCHANGED timer
  /\ UNCHANGED <<phase, dropped>>

LastFlush ==
  /\ IF buffer = <<>> THEN phase' = "stopped" /\ UNCHANGED <<buffer, batch, writer>>
     ELSE Flush(Stopper, buffer) /\ UNCHANGED phase
  /\ UNCHANGED <<timer, dropped>>

LockFree == writer = NoTask

\* The lock goes to the first in turn.
Enter ==
  /\ phase # "down"
  /\ LockFree
  /\ waiting # <<>>
  /\ waiting' = Tail(waiting)
  /\ LET who == Head(waiting)
     IN  CASE who = Flusher -> TimedFlush
           [] who = Stopper -> LastFlush
           [] OTHER         -> Enqueue(who)
  /\ UNCHANGED <<received, lines, ready, tcp, stored, lost>>

\* Mutant of Release: the flush loop ends with its first flush.
ReleaseOnce ==
  /\ writer' = NoTask
  /\ batch' = <<>>
  /\ timer' = IF writer = Flusher THEN "cancelled" ELSE timer
  /\ phase' = IF writer = Stopper THEN "stopped" ELSE phase

Release ==
  /\ writer' = NoTask
  /\ batch' = <<>>
  /\ timer' = IF writer = Flusher THEN "asleep" ELSE timer
  /\ phase' = IF writer = Stopper THEN "stopped" ELSE phase

InsertDone ==
  /\ writer # NoTask
  /\ stored' = stored \union Range(batch)
  /\ Release
  /\ UNCHANGED <<received, lines, ready, waiting, buffer, tcp, dropped, lost>>

\* Mutant of Requeue: the batch goes back message by message, which reverses it.
RequeueReversed ==
  /\ buffer' = Capped(Reverse(batch) \o buffer)
  /\ dropped' = dropped \union Excess(Reverse(batch) \o buffer)
  /\ UNCHANGED lost

\* The failed batch goes back before what has been buffered since.
Requeue ==
  /\ buffer' = Capped(batch \o buffer)
  /\ dropped' = dropped \union Excess(batch \o buffer)
  /\ UNCHANGED lost

\* An error, or a timeout after the batch was stored all the same.
InsertFails ==
  /\ writer # NoTask
  /\ stored' \in {stored, stored \union Range(batch)}
  /\ Requeue
  /\ Release
  /\ UNCHANGED <<received, lines, ready, waiting, tcp>>

\* The flush loop's interval is over.
Wake ==
  /\ phase # "down"
  /\ timer = "asleep"
  /\ timer' = "waiting"
  /\ waiting' = Append(waiting, Flusher)
  /\ UNCHANGED <<received, lines, ready, buffer, batch, writer, phase, tcp, stored, dropped, lost>>

-----------------------------------------------------------------------------
(* The end of the server.                                                  *)

Connect ==
  /\ phase = "running"
  /\ ~tcp
  /\ tcp' = TRUE
  /\ UNCHANGED <<received, lines, ready, waiting, buffer, batch, writer, timer, phase, stored, dropped, lost>>

Disconnect ==
  /\ tcp
  /\ tcp' = FALSE
  /\ UNCHANGED <<received, lines, ready, waiting, buffer, batch, writer, timer, phase, stored, dropped, lost>>

\* stop_syslog_server up to wait_closed: the flush loop is cancelled wherever it
\* is.  The thread that inserts its batch goes on, and nobody hears of an error.
Stop ==
  /\ phase = "running"
  /\ phase' = "closing"
  /\ timer' = "cancelled"
  /\ \/ Flusher \notin Range(waiting) /\ UNCHANGED waiting
     \/ \E i \in DOMAIN waiting : waiting[i] = Flusher /\ waiting' = RemoveAt(waiting, i)
  /\ IF writer = Flusher
     THEN /\ writer' = NoTask
          /\ batch' = <<>>
          /\ \/ stored' = stored \union Range(batch) /\ UNCHANGED lost
             \/ lost' = lost \union Range(batch) /\ UNCHANGED stored
     ELSE UNCHANGED <<writer, batch, stored, lost>>
  /\ UNCHANGED <<received, lines, ready, buffer, tcp, dropped>>

\* wait_closed returns when no sender is connected any more, and the shutdown
\* asks for the lock.
Closed ==
  /\ phase = "closing"
  /\ ~tcp
  /\ phase' = "flushing"
  /\ waiting' = Append(waiting, Stopper)
  /\ UNCHANGED <<received, lines, ready, buffer, batch, writer, timer, tcp, stored, dropped, lost>>

\* The process ends, after the shutdown or by a crash, with all it holds.
End ==
  /\ phase # "down"
  /\ phase' = "down"
  /\ lost' = lost \union ((1..received) \ (stored \union dropped))
  /\ ready' = <<>> /\ waiting' = <<>> /\ buffer' = <<>> /\ batch' = <<>>
  /\ writer' = NoTask /\ timer' = "cancelled" /\ tcp' = FALSE
  /\ UNCHANGED <<received, lines, stored, dropped>>

BufNext ==
  \/ ReceiveDatagram \/ ReceiveLine \/ Reach \/ Enter
  \/ InsertDone \/ InsertFails \/ Wake
  \/ Connect \/ Disconnect \/ Stop \/ Closed \/ End

BufSpec == BufInit /\ [][BufNext]_bufVars

\* The event loop runs what is ready, the interval ends, and the client answers
\* within its send_receive_timeout; it answers well again and again.
BufFairSpec ==
  /\ BufSpec
  /\ WF_bufVars(Reach) /\ WF_bufVars(Enter) /\ WF_bufVars(Wake)
  /\ WF_bufVars(InsertDone \/ InsertFails) /\ SF_bufVars(InsertDone)

-----------------------------------------------------------------------------
(* Properties.                                                             *)

\* A datagram's task and a line may overtake each other on the way to the lock;
\* datagrams do not overtake datagrams, nor lines lines.
Older(m, k) == m < k /\ (m \in lines <=> k \in lines)

InOrder(b) == \A i, j \in DOMAIN b : Older(b[j], b[i]) => j < i

Messages(S) == S \ {Flusher, Stopper}

\* The messages the receiver still has.
Pending == Messages(Range(ready) \union Range(waiting))
Kept == Pending \union Range(batch) \union Range(buffer)

\* Batches that fail and return, tasks that wait in turn: messages are buffered in
\* the order of their arrival, and none is stored before an older one that has
\* not reached the buffer yet.  What the cap drops is older than what it keeps.
NoOvertaking ==
  /\ InOrder(batch \o buffer)
  /\ \A m \in stored, k \in Pending : ~Older(k, m)
  /\ \A d \in dropped, k \in Kept : ~Older(k, d)

\* The server is not stopped.
Stays == [](phase = "running")

\* While the server runs, every message ends in ClickHouse or is dropped by the cap.
Delivered ==
  Stays => \A m \in 1..MaxMessages :
             received >= m ~> m \in stored \union dropped

=============================================================================

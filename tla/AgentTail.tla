------------------------------ MODULE AgentTail ------------------------------
(***************************************************************************)
(* How an agent (nodeglow-agent-linux.py, nodeglow-agent-windows.py) picks *)
(* the log lines it has not sent yet.  A source is a log that grows line   *)
(* by line; the agent keeps one position per source and reads all sources  *)
(* once per cycle of its main loop:                                        *)
(*   file     custom log files and the agent's own log: a byte offset      *)
(*   journal  journalctl --after-cursor, the newest lines only             *)
(*   since    docker logs --since and the Windows event log: the time of   *)
(*            the newest line read, so that line is read again             *)
(*   tail     tail -n, where journalctl is missing: no position at all     *)
(* Lines have one length, so an offset is a number of lines.  A batch that *)
(* cannot be sent is dropped: sending changes nothing here.                *)
(***************************************************************************)
EXTENDS Naturals, FiniteSets, FiniteSetsExt

CONSTANTS TailSources,   \* the logs the agent reads
          TailKind,      \* the kind of each
          TailMax,       \* lines taken from one source in one cycle (200, 100, 50)
          TailWrites,    \* bound: lines written in all
          TailSwaps,     \* bound: rotations
          TailRestarts   \* bound: restarts of the agent

ASSUME TailAssumption ==
    /\ TailMax \in Nat \ {0}
    /\ TailKind \in [TailSources -> {"file", "journal", "since", "tail"}]

VARIABLES tailSize,     \* lines in the source's current file
          tailPos,      \* lines the agent believes to have read (_file_positions,
                        \* _agent_log_offset, _last_log_cursor, _docker_log_since)
          tailSeen,     \* history: lines of the current file read in this life of the agent
          tailBase,     \* history: the position reading of the current file began at
          tailBurst,    \* history: more than TailMax lines waited at a read
          tailWritten, tailSwapped, tailRestarted

tailVars == <<tailSize, tailPos, tailSeen, tailBase, tailBurst, tailWritten, tailSwapped, tailRestarted>>

Files == {s \in TailSources : TailKind[s] = "file"}
Positioned == {s \in TailSources : TailKind[s] # "tail"}

TailInit ==
    /\ tailSize \in [TailSources -> 0..1]
    /\ tailPos = [s \in TailSources |-> 0]
    /\ tailSeen = [s \in TailSources |-> {}]
    /\ tailBase = [s \in TailSources |-> 0]
    /\ tailBurst = [s \in TailSources |-> FALSE]
    /\ tailWritten = 0 /\ tailSwapped = 0 /\ tailRestarted = 0

-----------------------------------------------------------------------------
(* What one cycle reads of a source                                          *)

\* A file that has become shorter than the offset was rotated.
Offset(s) == IF tailSize[s] < tailPos[s] THEN 0 ELSE tailPos[s]

\* The first TailMax lines behind the offset.
FileLines(s) == {n \in 1..tailSize[s] : n > Offset(s) /\ n <= Offset(s) + TailMax}

\* Mutant of FilePos: the position is set although the loop stopped early.
FilePosAlwaysEnd(s) == tailSize[s]

\* f.tell() after the loop has run to the end of the file; after the break it
\* raises ("telling position disabled by next() call"), the except clause
\* swallows that, and the position stays what it was.
FilePos(s) == IF tailSize[s] - Offset(s) > TailMax THEN tailPos[s] ELSE tailSize[s]

LastLines(s, from) == {n \in 1..tailSize[s] : n >= from /\ n > tailSize[s] - TailMax}

JournalLines(s) == LastLines(s, tailPos[s] + 1)

\* The time of a line is kept to the second, and the start time is inclusive
\* (docker) or one second earlier (Windows events).
DockerLines(s) == LastLines(s, tailPos[s])

\* Neither the cursor nor the newest time moves when nothing was read.
NewestPos(s, lines) == IF lines = {} THEN tailPos[s] ELSE Max(lines)

FallbackLines(s) == LastLines(s, 1)

Lines(s) == CASE TailKind[s] = "file" -> FileLines(s)
              [] TailKind[s] = "journal" -> JournalLines(s)
              [] TailKind[s] = "since" -> DockerLines(s)
              [] TailKind[s] = "tail" -> FallbackLines(s)

Pos(s) == CASE TailKind[s] = "file" -> FilePos(s)
            [] TailKind[s] \in {"journal", "since"} -> NewestPos(s, Lines(s))
            [] TailKind[s] = "tail" -> 0

\* One pass of the log part of main: every source in turn, then send_logs.
CollectLogs ==
    /\ tailPos' = [s \in TailSources |-> Pos(s)]
    /\ tailSeen' = [s \in TailSources |-> tailSeen[s] \cup Lines(s)]
    /\ tailBase' = [s \in TailSources |-> IF s \in Files /\ Pos(s) < tailPos[s] THEN 0 ELSE tailBase[s]]
    /\ tailBurst' = [s \in TailSources |-> tailBurst[s] \/ tailSize[s] - Offset(s) > TailMax]
    /\ UNCHANGED <<tailSize, tailWritten, tailSwapped, tailRestarted>>

-----------------------------------------------------------------------------
(* The world                                                                 *)

WriteLine(s) ==
    /\ tailWritten < TailWrites
    /\ tailSize' = [tailSize EXCEPT ![s] = @ + 1]
    /\ tailWritten' = tailWritten + 1
    /\ UNCHANGED <<tailPos, tailSeen, tailBase, tailBurst, tailSwapped, tailRestarted>>

\* logrotate puts an empty file in the place of a log.  The agent compares only
\* sizes: when the new file has outgrown the offset before the next cycle, the
\* lines up to the offset are never read.
Rotate(s) ==
    /\ tailSwapped < TailSwaps /\ tailSize[s] > 0
    /\ tailSize' = [tailSize EXCEPT ![s] = 0]
    /\ tailSeen' = [tailSeen EXCEPT ![s] = {}]
    /\ tailBase' = [tailBase EXCEPT ![s] = tailPos[s]]
    /\ tailSwapped' = tailSwapped + 1
    /\ UNCHANGED <<tailPos, tailBurst, tailWritten, tailRestarted>>

\* The positions are globals of the process: a restarted agent begins every file
\* again, and looks back a minute (or two) in the other sources.
RestartAgent ==
    /\ tailRestarted < TailRestarts
    /\ \E back \in [TailSources -> 0..1] :
        /\ tailPos' = [s \in TailSources |->
                         IF TailKind[s] \in {"file", "tail"} \/ back[s] > tailSize[s] THEN 0
                         ELSE tailSize[s] - back[s]]
        /\ tailBase' = tailPos'
    /\ tailSeen' = [s \in TailSources |-> {}]
    /\ tailBurst' = [s \in TailSources |-> FALSE]
    /\ tailRestarted' = tailRestarted + 1
    /\ UNCHANGED <<tailSize, tailWritten, tailSwapped>>

TailNext ==
    \/ CollectLogs
    \/ \E s \in TailSources : WriteLine(s)
    \/ \E s \in Files : Rotate(s)
    \/ RestartAgent

TailSpec == TailInit /\ [][TailNext]_tailVars

-----------------------------------------------------------------------------
(* Properties                                                                *)

\* Positions and read lines lie within what was written.
TailTypeOK ==
    /\ tailSize \in [TailSources -> 0..(TailWrites + 1)]
    /\ tailPos \in [TailSources -> 0..(TailWrites + 1)]
    /\ \A s \in TailSources : tailSeen[s] \subseteq 1..tailSize[s]

\* A position is a promise: every line between the place reading began and the
\* position has been read.  For a file this holds whatever the load, for the
\* sources that keep only the newest lines unless a burst came between two cycles.
NothingPassedOver ==
    \A s \in Positioned :
        (s \in Files \/ ~tailBurst[s]) =>
            \A n \in 1..tailSize[s] : (tailBase[s] < n /\ n <= tailPos[s]) => n \in tailSeen[s]

=============================================================================

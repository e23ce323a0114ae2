----------------------------- MODULE AgentSession -----------------------------
(***************************************************************************)
(* Enrollment, reports and commands of the agents that go by one hostname  *)
(* (routers/agents.py, api_v1.py).  Every request is served by a handler   *)
(* that reads, awaits and commits; the agent waits ten seconds for the     *)
(* answer, so a handler may outlive the request and run beside the next    *)
(* one.  Tokens and commands are numbered in the order they are made; the  *)
(* code keeps hashes and the single command "uninstall".                   *)
(***************************************************************************)
EXTENDS Naturals, FiniteSets

CONSTANTS SesMachines,   \* machines that report under the hostname
          SesSlots,      \* handlers that can run at a time
          SesKeys,       \* bound: install tokens made
          SesTokens,     \* bound: agent tokens issued
          SesCommands,   \* bound: commands queued
          SesFaults      \* bound: timeouts, lost answers, server restarts

ASSUME SesAssumption ==
    SesKeys \in Nat /\ SesTokens \in Nat \ {0} /\ SesCommands \in Nat /\ 0 \notin SesMachines

NoRow == [id |-> 0, token |-> 0, legacy |-> FALSE, enabled |-> FALSE, command |-> 0]
NoHandler == [kind |-> "none", m |-> 0, pc |-> "idle", token |-> 0, row |-> NoRow, answer |-> 0]

VARIABLES sesRow,       \* the agents row of the hostname (unique, case-insensitive)
          sesIds,       \* history: rows ever inserted
          sesIssued,    \* history: the newest token
          sesLegacy,    \* history: the token that was stored as a plain SHA-256 at first, or 0
          sesHeld,      \* token each machine has in its config file, 0 for none
          sesWait,      \* machines waiting for an answer
          sesHandler,   \* the handlers
          sesScript,    \* install token in the installer each machine has saved, or 0
          sesMade,      \* install tokens made
          sesAccepted,  \* ... and those neither expired nor withdrawn
          sesQueued,    \* history: commands queued
          sesGot,       \* history: how often each machine received each command
          sesFaults

sesVars == <<sesRow, sesIds, sesIssued, sesLegacy, sesHeld, sesWait, sesHandler, sesScript,
             sesMade, sesAccepted, sesQueued, sesGot, sesFaults>>

SesInit ==
    /\ \/ sesRow = NoRow /\ sesIds = 0 /\ sesIssued = 0 /\ sesLegacy = 0
          /\ sesHeld = [m \in SesMachines |-> 0]
       \/ \E m \in SesMachines, legacy \in BOOLEAN :
            /\ sesRow = [NoRow EXCEPT !.id = 1, !.token = 1, !.legacy = legacy, !.enabled = TRUE]
            /\ sesIds = 1 /\ sesIssued = 1
            /\ sesLegacy = IF legacy THEN 1 ELSE 0
            /\ sesHeld = [x \in SesMachines |-> IF x = m THEN 1 ELSE 0]
    /\ sesWait = {}
    /\ sesHandler = [s \in SesSlots |-> NoHandler]
    /\ sesScript = [m \in SesMachines |-> 0] /\ sesMade = 0 /\ sesAccepted = {}
    /\ sesQueued = 0 /\ sesGot = [m \in SesMachines |-> [c \in 1..SesCommands |-> 0]]
    /\ sesFaults = 0

At(s, kind, pc) == sesHandler[s].kind = kind /\ sesHandler[s].pc = pc

\* The answer of handler s, and its end but for sending it.
Answer(s, a) ==
    sesHandler' = [sesHandler EXCEPT ![s] = [NoHandler EXCEPT !.kind = sesHandler[s].kind,
                                               !.m = sesHandler[s].m, !.pc = "reply", !.answer = a]]

Request(m, s, kind, token) ==
    /\ sesHandler[s] = NoHandler /\ m \notin sesWait
    /\ sesHandler' = [sesHandler EXCEPT ![s] = [NoHandler EXCEPT !.kind = kind, !.m = m,
                                                              !.pc = "start", !.token = token]]
    /\ sesWait' = sesWait \cup {m}
    /\ UNCHANGED <<sesRow, sesIds, sesIssued, sesLegacy, sesHeld, sesScript, sesMade,
                   sesAccepted, sesQueued, sesGot, sesFaults>>

-----------------------------------------------------------------------------
(* GET /install/*, POST /api/agent/enroll                                    *)

\* The script is served to whoever shows an install token that is accepted; a machine
\* fetches the script of one token once.
DownloadInstaller(m, s) ==
    \E k \in 1..sesMade : k # sesScript[m] /\ Request(m, s, "install", k)
AuthorizeInstall(s) ==
    /\ At(s, "install", "start")
    /\ Answer(s, IF sesHandler[s].token \in sesAccepted THEN sesHandler[s].token ELSE 0)
    /\ UNCHANGED <<sesRow, sesIds, sesIssued, sesLegacy, sesHeld, sesWait, sesScript,
                   sesMade, sesAccepted, sesQueued, sesGot, sesFaults>>

\* The installer, run on a machine with or without an agent.
RunInstaller(m, s) ==
    sesScript[m] # 0 /\ sesIssued < SesTokens /\ Request(m, s, "enroll", sesScript[m])

\* First transaction: the install token is looked up and counted.
ConsumeInstallToken(s) ==
    /\ At(s, "enroll", "start")
    /\ IF sesHandler[s].token \in sesAccepted
       THEN sesHandler' = [sesHandler EXCEPT ![s].pc = "lookup"]
       ELSE Answer(s, 0)
    /\ UNCHANGED <<sesRow, sesIds, sesIssued, sesLegacy, sesHeld, sesWait, sesScript,
                   sesMade, sesAccepted, sesQueued, sesGot, sesFaults>>

\* Second transaction, its SELECT; only which row it was is used later.
LookupAgent(s) ==
    /\ At(s, "enroll", "lookup")
    /\ sesHandler' = [sesHandler EXCEPT ![s].pc = "write", ![s].row.id = sesRow.id]
    /\ UNCHANGED <<sesRow, sesIds, sesIssued, sesLegacy, sesHeld, sesWait, sesScript,
                   sesMade, sesAccepted, sesQueued, sesGot, sesFaults>>

\* Mutant of Rotated: re-enrollment leaves the old token valid.
RotatedKeepsToken(row, token) == row

\* Re-enrollment writes the columns it changed, the token among them.
Rotated(row, token) == [row EXCEPT !.token = token, !.legacy = FALSE]

\* Second transaction, its COMMIT: a fresh token for the row found, or a new row.
\* It fails when the row found is gone, or when one has been inserted meanwhile.
WriteAgent(s) ==
    /\ At(s, "enroll", "write") /\ sesIssued < SesTokens
    /\ IF sesHandler[s].row.id = sesRow.id
       THEN /\ sesIssued' = sesIssued + 1
            /\ sesIds' = IF sesRow.id = 0 THEN sesIds + 1 ELSE sesIds
            /\ sesRow' = IF sesRow.id = 0
                         THEN [NoRow EXCEPT !.id = sesIds', !.token = sesIssued', !.enabled = TRUE]
                         ELSE Rotated(sesRow, sesIssued')
            /\ Answer(s, sesIssued')
       ELSE Answer(s, 0) /\ UNCHANGED <<sesRow, sesIds, sesIssued>>
    /\ UNCHANGED <<sesLegacy, sesHeld, sesWait, sesScript, sesMade, sesAccepted,
                   sesQueued, sesGot, sesFaults>>

-----------------------------------------------------------------------------
(* POST /api/agent/report                                                    *)

Report(m, s) == sesHeld[m] # 0 /\ Request(m, s, "report", sesHeld[m])

\* The token's HMAC, or else its legacy hash, of an enabled agent.
Authenticated(token) == sesRow.id # 0 /\ sesRow.enabled /\ sesRow.token = token

ReadReport(s) ==
    /\ At(s, "report", "start")
    /\ IF Authenticated(sesHandler[s].token)
       THEN sesHandler' = [sesHandler EXCEPT ![s].pc = "commit", ![s].row = sesRow]
       ELSE Answer(s, 0)
    /\ UNCHANGED <<sesRow, sesIds, sesIssued, sesLegacy, sesHeld, sesWait, sesScript,
                   sesMade, sesAccepted, sesQueued, sesGot, sesFaults>>

\* Mutant of Reported: the command is delivered, never cleared.
ReportedKeepsCommand(row, read, token) ==
    [row EXCEPT !.token = IF read.legacy THEN token ELSE @, !.legacy = FALSE]

\* The UPDATE sets what the handler changed in the row as it had read it: the token
\* when it found a legacy hash, the command when there was one.
Reported(row, read, token) ==
    [row EXCEPT !.token = IF read.legacy THEN token ELSE @,
                !.legacy = IF read.legacy THEN FALSE ELSE @,
                !.command = IF read.command # 0 THEN 0 ELSE @]

CommitReport(s) ==
    LET h == sesHandler[s] IN
    /\ At(s, "report", "commit")
    /\ IF h.row.id = sesRow.id
       THEN sesRow' = Reported(sesRow, h.row, h.token) /\ Answer(s, h.row.command)
       ELSE Answer(s, 0) /\ UNCHANGED sesRow
    /\ UNCHANGED <<sesIds, sesIssued, sesLegacy, sesHeld, sesWait, sesScript, sesMade,
                   sesAccepted, sesQueued, sesGot, sesFaults>>

-----------------------------------------------------------------------------
(* POST /api/agent/logs                                                      *)

SendLogs(m, s) == sesHeld[m] # 0 /\ Request(m, s, "logs", sesHeld[m])

ReadLogs(s) ==
    /\ At(s, "logs", "start")
    /\ IF Authenticated(sesHandler[s].token)
       THEN sesHandler' = [sesHandler EXCEPT ![s].pc = "commit", ![s].row = sesRow]
       ELSE Answer(s, 0)
    /\ UNCHANGED <<sesRow, sesIds, sesIssued, sesLegacy, sesHeld, sesWait, sesScript,
                   sesMade, sesAccepted, sesQueued, sesGot, sesFaults>>

\* It commits when it migrates the token, and lists the lines for ClickHouse.
CommitLogs(s) ==
    LET h == sesHandler[s] IN
    /\ At(s, "logs", "commit")
    /\ sesRow' = IF h.row.legacy /\ h.row.id = sesRow.id
                 THEN [sesRow EXCEPT !.token = h.token, !.legacy = FALSE] ELSE sesRow
    /\ Answer(s, 0)
    /\ UNCHANGED <<sesIds, sesIssued, sesLegacy, sesHeld, sesWait, sesScript, sesMade,
                   sesAccepted, sesQueued, sesGot, sesFaults>>

-----------------------------------------------------------------------------
(* Answers, timeouts, restarts                                               *)

\* A client that has given up listens no more (Timeout).
Listens(s) == sesHandler[s].m \in sesWait

\* The installer is saved, and stores the token it gets; the agent that is told
\* to, uninstalls.
Reply(s) ==
    LET h == sesHandler[s] IN
    /\ h.pc = "reply"
    /\ sesHandler' = [sesHandler EXCEPT ![s] = NoHandler]
    /\ IF Listens(s)
       THEN /\ sesWait' = sesWait \ {h.m}
            /\ sesScript' = IF h.kind = "install" /\ h.answer # 0
                            THEN [sesScript EXCEPT ![h.m] = h.answer] ELSE sesScript
            /\ sesHeld' = IF h.answer = 0 \/ h.kind = "install" THEN sesHeld
                          ELSE [sesHeld EXCEPT ![h.m] = IF h.kind = "enroll" THEN h.answer ELSE 0]
            /\ sesGot' = IF h.kind = "report" /\ h.answer # 0 THEN [sesGot EXCEPT ![h.m][h.answer] = @ + 1]
                         ELSE sesGot
       ELSE UNCHANGED <<sesWait, sesScript, sesHeld, sesGot>>
    /\ UNCHANGED <<sesRow, sesIds, sesIssued, sesLegacy, sesMade, sesAccepted, sesQueued,
                   sesFaults>>

\* The client gives up (or its connection breaks); its handler goes on.
Timeout(m) ==
    /\ m \in sesWait /\ sesFaults < SesFaults
    /\ sesWait' = sesWait \ {m}
    /\ sesHandler' = [s \in SesSlots |-> IF sesHandler[s].m = m THEN [sesHandler[s] EXCEPT !.m = 0]
                                         ELSE sesHandler[s]]
    /\ sesFaults' = sesFaults + 1
    /\ UNCHANGED <<sesRow, sesIds, sesIssued, sesLegacy, sesHeld, sesScript, sesMade,
                   sesAccepted, sesQueued, sesGot>>

\* The backend restarts: transactions not committed are rolled back.
RestartServer ==
    /\ sesFaults < SesFaults
    /\ sesHandler' = [s \in SesSlots |-> NoHandler]
    /\ sesWait' = {}
    /\ sesFaults' = sesFaults + 1
    /\ UNCHANGED <<sesRow, sesIds, sesIssued, sesLegacy, sesHeld, sesScript, sesMade,
                   sesAccepted, sesQueued, sesGot>>

-----------------------------------------------------------------------------
(* Administrators                                                            *)

UninstallAgent ==
    /\ sesRow.id # 0 /\ sesQueued < SesCommands
    /\ sesQueued' = sesQueued + 1
    /\ sesRow' = [sesRow EXCEPT !.command = sesQueued']
    /\ UNCHANGED <<sesIds, sesIssued, sesLegacy, sesHeld, sesWait, sesHandler, sesScript,
                   sesMade, sesAccepted, sesGot, sesFaults>>

DeleteAgent ==
    /\ sesRow.id # 0
    /\ sesRow' = NoRow
    /\ UNCHANGED <<sesIds, sesIssued, sesLegacy, sesHeld, sesWait, sesHandler, sesScript,
                   sesMade, sesAccepted, sesQueued, sesGot, sesFaults>>

PatchAgent ==
    /\ sesRow.id # 0
    /\ sesRow' = [sesRow EXCEPT !.enabled = ~@]
    /\ UNCHANGED <<sesIds, sesIssued, sesLegacy, sesHeld, sesWait, sesHandler, sesScript,
                   sesMade, sesAccepted, sesQueued, sesGot, sesFaults>>

\* An install token is withdrawn or expires, and never comes back.
RevokeInstallToken ==
    /\ \E k \in sesAccepted : sesAccepted' = sesAccepted \ {k}
    /\ UNCHANGED <<sesRow, sesIds, sesIssued, sesLegacy, sesHeld, sesWait, sesHandler,
                   sesScript, sesMade, sesQueued, sesGot, sesFaults>>

CreateInstallToken ==
    /\ sesMade < SesKeys
    /\ sesMade' = sesMade + 1
    /\ sesAccepted' = sesAccepted \cup {sesMade'}
    /\ UNCHANGED <<sesRow, sesIds, sesIssued, sesLegacy, sesHeld, sesWait, sesHandler,
                   sesScript, sesQueued, sesGot, sesFaults>>

SesNext ==
    \/ \E s \in SesSlots :
        \/ \E m \in SesMachines :
             DownloadInstaller(m, s) \/ RunInstaller(m, s) \/ Report(m, s) \/ SendLogs(m, s)
        \/ AuthorizeInstall(s) \/ ReadLogs(s) \/ CommitLogs(s)
        \/ ConsumeInstallToken(s) \/ LookupAgent(s) \/ WriteAgent(s)
        \/ ReadReport(s) \/ CommitReport(s) \/ Reply(s)
    \/ \E m \in SesMachines : Timeout(m)
    \/ RestartServer
    \/ UninstallAgent \/ DeleteAgent \/ PatchAgent
    \/ RevokeInstallToken \/ CreateInstallToken

SesSpec == SesInit /\ [][SesNext]_sesVars

-----------------------------------------------------------------------------
(* Properties                                                                *)

SesTypeOK ==
    /\ sesRow.token \in 0..SesTokens /\ sesRow.command \in 0..SesCommands
    /\ sesHeld \in [SesMachines -> 0..SesTokens] /\ sesWait \subseteq SesMachines
    /\ sesScript \in [SesMachines -> 0..sesMade] /\ sesAccepted \subseteq 1..sesMade

\* No machine receives a command twice, although a timed-out handler and its
\* successor may both have read it: "deliver once, then clear".
CommandReceivedOnce == \A m \in SesMachines, c \in 1..SesCommands : sesGot[m][c] <= 1

\* Re-enrollment retires every earlier token for good.  The one that can come
\* back is a legacy one whose migration was under way.
OnlyNewestTokenWorks == sesRow.id # 0 => sesRow.token \in {sesIssued, sesLegacy}
=============================================================================

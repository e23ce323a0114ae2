---------------------------- MODULE AgentProofs -----------------------------
(***************************************************************************)
(* What runs on other machines: the agent with its session, the logs it    *)
(* follows and its own updates, and the remote probe with what it reports  *)
(* and how it judges.                                                      *)
(***************************************************************************)
EXTENDS AgentSession, AgentTail, AgentUpdate, ProbeAgent, RemoteChecks, SequenceTheorems, TLAPS

-----------------------------------------------------------------------------
(***************************************************************************)
(* AgentSession: an agent and its row. The invariant says of every request *)
(* under way what it may still write and answer, and that tokens and       *)
(* commands are handed out once.                                           *)
(***************************************************************************)
SesRows == [id : Nat, token : Nat, legacy : BOOLEAN, enabled : BOOLEAN, command : Nat]
SesHandlers ==
    [kind : {"none", "install", "enroll", "report", "logs"}, m : SesMachines \cup {0},
     pc : {"idle", "start", "lookup", "write", "commit", "reply"}, token : Nat, row : SesRows,
     answer : Nat]

SesTypes ==
    /\ sesRow \in SesRows
    /\ sesIds \in Nat /\ sesIssued \in Nat /\ sesLegacy \in Nat
    /\ sesHeld \in [SesMachines -> Nat]
    /\ sesWait \subseteq SesMachines
    /\ sesHandler \in [SesSlots -> SesHandlers]
    /\ sesScript \in [SesMachines -> Nat]
    /\ sesMade \in Nat /\ sesAccepted \subseteq Nat
    /\ sesQueued \in 0..SesCommands
    /\ sesGot \in [SesMachines -> [1..SesCommands -> Nat]]

\* A machine that waits does so for one handler, and none that it has given up names it.
SesOneRequest ==
    \A s \in SesSlots : sesHandler[s].m # 0 =>
        /\ sesHandler[s].m \in sesWait
        /\ \A t \in SesSlots \ {s} : sesHandler[t].m # sesHandler[s].m

\* A plain hash is the token it was at first, also where a handler has read it.
SesLegacyToken ==
    /\ sesRow.legacy => sesRow.token = sesLegacy
    /\ \A s \in SesSlots :
          sesHandler[s].pc = "commit" /\ sesHandler[s].row.legacy => sesHandler[s].token = sesLegacy

\* A command on its way to a machine, from the row the handler has read.
Carries(h, c) == h.kind = "report" /\ (h.row.command = c \/ h.answer = c)

\* Commands are known before they are read, and an answered one is no longer in the row.
SesCommandsKnown ==
    /\ sesRow.command <= sesQueued
    /\ \A s \in SesSlots :
         /\ sesHandler[s].pc # "reply" => sesHandler[s].answer = 0
         /\ sesHandler[s].kind = "report" =>
            /\ sesHandler[s].row.command <= sesQueued /\ sesHandler[s].answer <= sesQueued
            /\ sesHandler[s].answer # 0 => sesRow.command # sesHandler[s].answer

\* What a machine has received is neither in the row nor on its way to it.
SesReceived ==
    \A m \in SesMachines, c \in 1..SesCommands : sesGot[m][c] # 0 =>
        /\ sesGot[m][c] = 1 /\ c <= sesQueued
        /\ sesRow.command # c
        /\ \A s \in SesSlots : sesHandler[s].m = m => ~Carries(sesHandler[s], c)

SesInv == /\ SesTypes /\ SesOneRequest /\ SesLegacyToken /\ SesCommandsKnown /\ SesReceived
          /\ OnlyNewestTokenWorks

\* An idle handler and a missing row, field by field.
LEMMA SesNoHandler ==
    /\ NoHandler \in SesHandlers /\ NoRow \in SesRows
    /\ NoHandler.kind = "none" /\ NoHandler.m = 0 /\ NoHandler.pc = "idle" /\ NoHandler.row = NoRow
    /\ NoHandler.answer = 0 /\ NoHandler.token = 0
    /\ NoRow.command = 0 /\ NoRow.legacy = FALSE /\ NoRow.id = 0
  BY DEF NoHandler, SesHandlers, NoRow, SesRows

\* The invariant holds at first, whether the host is known already or not.
LEMMA SesInvInit == SesInit => SesInv
<1> SUFFICES ASSUME SesInit PROVE SesInv
  OBVIOUS
<1> USE SesAssumption, SesNoHandler
<1>1. SesTypes
  <2>1. /\ sesRow \in SesRows /\ sesIds \in Nat /\ sesIssued \in Nat /\ sesLegacy \in Nat
        /\ sesHeld \in [SesMachines -> Nat]
    <3>1. CASE /\ sesRow = NoRow /\ sesIds = 0 /\ sesIssued = 0 /\ sesLegacy = 0
               /\ sesHeld = [m \in SesMachines |-> 0]
      BY <3>1
    <3>2. ASSUME NEW m \in SesMachines, NEW legacy \in BOOLEAN,
                 sesRow = [NoRow EXCEPT !.id = 1, !.token = 1, !.legacy = legacy, !.enabled = TRUE],
                 sesIds = 1, sesIssued = 1, sesLegacy = IF legacy THEN 1 ELSE 0,
                 sesHeld = [x \in SesMachines |-> IF x = m THEN 1 ELSE 0]
          PROVE  /\ sesRow \in SesRows /\ sesIds \in Nat /\ sesIssued \in Nat /\ sesLegacy \in Nat
                 /\ sesHeld \in [SesMachines -> Nat]
      <4>1. sesRow \in SesRows /\ sesHeld \in [SesMachines -> Nat]
        BY <3>2 DEF NoRow, SesRows
      <4> QED BY <4>1, <3>2
    <3> QED BY <3>1, <3>2 DEF SesInit
  <2>3. sesHandler \in [SesSlots -> SesHandlers] /\ sesGot \in [SesMachines -> [1..SesCommands -> Nat]]
    BY DEF SesInit
  <2>4. /\ sesWait = {} /\ sesScript = [m \in SesMachines |-> 0] /\ sesMade = 0
        /\ sesAccepted = {} /\ sesQueued = 0
    BY DEF SesInit
  <2> QED BY <2>1, <2>3, <2>4 DEF SesTypes
<1>2. SesLegacyToken /\ OnlyNewestTokenWorks
  BY DEF SesInit, SesLegacyToken, OnlyNewestTokenWorks, NoRow
<1>3. SesOneRequest
  BY DEF SesInit, SesOneRequest
<1>4. SesCommandsKnown /\ SesReceived
  <2>1. sesRow.command = 0 /\ sesQueued = 0
    BY DEF SesInit, NoRow
  <2>2. \A s \in SesSlots : sesHandler[s] = NoHandler
    BY DEF SesInit
  <2>3. \A m \in SesMachines, c \in 1..SesCommands : sesGot[m][c] = 0
    BY DEF SesInit
  <2> QED BY <2>1, <2>2, <2>3 DEF SesCommandsKnown, SesReceived
<1> QED BY <1>1, <1>2, <1>3, <1>4 DEF SesInv

\* What a handler may do to itself and to the row of the agent: it takes a command from the
\* row, and answers with it only when the row has it no more.
SesHandles(s, h) ==
    /\ sesHandler' = [sesHandler EXCEPT ![s] = h]
    /\ h \in SesHandlers /\ h.m = sesHandler[s].m /\ h.kind = sesHandler[s].kind
    /\ h.pc = "commit" /\ h.row.legacy => h.token = sesLegacy
    /\ sesRow' \in SesRows /\ sesIds' \in Nat /\ sesIssued' \in Nat
    /\ sesRow'.legacy => sesRow'.token = sesLegacy
    /\ sesRow'.id # 0 => sesRow'.token \in {sesIssued', sesLegacy}
    /\ sesRow'.command \in {0, sesRow.command}
    /\ h.pc # "reply" => h.answer = 0
    /\ h.kind = "report" =>
          /\ h.row.command \in {0, sesRow.command, sesHandler[s].row.command}
          /\ h.answer \in {0, sesHandler[s].row.command}
          /\ h.answer # 0 => sesRow'.command # h.answer
    /\ UNCHANGED <<sesLegacy, sesHeld, sesWait, sesScript, sesMade, sesAccepted, sesQueued, sesGot>>

\* A step that changes one handler only, within what it promised, preserves the
\* invariant.
LEMMA SesHandlerStep ==
    ASSUME SesInv, NEW s \in SesSlots, NEW h, SesHandles(s, h)
    PROVE  SesInv'
<1> USE DEF SesInv, SesHandles
<1>1. SesTypes'
  BY DEF SesTypes
<1>2. \A t \in SesSlots : sesHandler'[t] = IF t = s THEN h ELSE sesHandler[t]
  BY DEF SesTypes
<1>3. \A t \in SesSlots : sesHandler'[t].m = sesHandler[t].m /\ sesHandler'[t].kind = sesHandler[t].kind
  BY <1>2
<1>4. SesOneRequest'
  BY <1>3 DEF SesOneRequest
<1>5. SesLegacyToken'
  BY <1>2 DEF SesLegacyToken
<1>6. SesCommandsKnown'
  <2>1. sesRow'.command <= sesQueued' /\ sesQueued \in Nat
    BY DEF SesCommandsKnown, SesTypes
  <2>2. ASSUME NEW t \in SesSlots, sesHandler'[t].kind = "report"
        PROVE  /\ sesHandler'[t].row.command <= sesQueued' /\ sesHandler'[t].answer <= sesQueued'
               /\ sesHandler'[t].answer # 0 => sesRow'.command # sesHandler'[t].answer
    <3>1. sesHandler[t].kind = "report"
      BY <1>3, <2>2
    <3>2. CASE t = s
      BY <3>1, <3>2, <1>2, <2>1, <2>2 DEF SesCommandsKnown
    <3>3. CASE t # s
      BY <3>1, <3>3, <1>2 DEF SesCommandsKnown
    <3> QED BY <3>2, <3>3
  <2>3. \A t \in SesSlots : sesHandler'[t].pc # "reply" => sesHandler'[t].answer = 0
    BY <1>2 DEF SesCommandsKnown
  <2> QED BY <2>1, <2>2, <2>3 DEF SesCommandsKnown
<1>7. SesReceived'
  <2> SUFFICES ASSUME NEW m \in SesMachines, NEW c \in 1..SesCommands, sesGot[m][c] # 0
               PROVE  /\ sesRow'.command # c
                      /\ \A t \in SesSlots : sesHandler'[t].m = m => ~Carries(sesHandler'[t], c)
    BY DEF SesReceived
  <2>1. c # 0 /\ sesRow.command # c
    BY SesAssumption DEF SesReceived
  <2>2. ASSUME NEW t \in SesSlots, sesHandler'[t].m = m PROVE ~Carries(sesHandler'[t], c)
    <3>1. ~Carries(sesHandler[t], c)
      BY <1>3, <2>2 DEF SesReceived
    <3> QED BY <3>1, <1>2, <2>1 DEF Carries
  <2> QED BY <2>1, <2>2
<1>8. OnlyNewestTokenWorks'
  BY DEF OnlyNewestTokenWorks
<1> QED BY <1>1, <1>4, <1>5, <1>6, <1>7, <1>8

\* The record Answer leaves.
Answered(s, a) ==
    [NoHandler EXCEPT !.kind = sesHandler[s].kind, !.m = sesHandler[s].m, !.pc = "reply", !.answer = a]

\* An answer is a handler that carries nothing but the answer.
LEMMA SesAnswered ==
    ASSUME SesTypes, NEW s \in SesSlots, NEW a \in Nat
    PROVE  /\ Answered(s, a) \in SesHandlers
           /\ Answered(s, a).m = sesHandler[s].m /\ Answered(s, a).kind = sesHandler[s].kind
           /\ Answered(s, a).pc = "reply" /\ Answered(s, a).row = NoRow /\ Answered(s, a).answer = a
<1>1. sesHandler[s] \in SesHandlers
  BY DEF SesTypes
<1> QED BY <1>1, SesNoHandler DEF Answered, NoHandler, SesHandlers

\* A handler that answers while the row stays.
LEMMA SesAnswerStep ==
    ASSUME SesInv, NEW s \in SesSlots, NEW a \in Nat, Answer(s, a),
           sesHandler[s].kind # "report" \/ a = 0,
           UNCHANGED <<sesRow, sesIds, sesIssued, sesLegacy, sesHeld, sesWait, sesScript, sesMade,
                       sesAccepted, sesQueued, sesGot>>
    PROVE  SesInv'
<1>1. sesHandler' = [sesHandler EXCEPT ![s] = Answered(s, a)]
  BY DEF Answer, Answered
<1>2. SesTypes
  BY DEF SesInv
<1>3. SesHandles(s, Answered(s, a))
  BY <1>1, <1>2, SesAnswered, SesNoHandler
     DEF SesHandles, SesInv, SesTypes, SesLegacyToken, OnlyNewestTokenWorks
<1> QED BY <1>3, SesHandlerStep

\* A handler that goes on to another place, with the row it has read.
LEMMA SesMoveStep ==
    ASSUME SesInv, NEW s \in SesSlots, NEW h \in SesHandlers,
           sesHandler' = [sesHandler EXCEPT ![s] = h],
           h.m = sesHandler[s].m, h.kind = sesHandler[s].kind, h.answer = 0,
           h.pc = "commit" /\ h.row.legacy => h.token = sesLegacy,
           h.kind = "report" => h.row.command \in {sesRow.command, sesHandler[s].row.command},
           UNCHANGED <<sesRow, sesIds, sesIssued, sesLegacy, sesHeld, sesWait, sesScript, sesMade,
                       sesAccepted, sesQueued, sesGot>>
    PROVE  SesInv'
<1>1. SesHandles(s, h)
  BY DEF SesHandles, SesInv, SesTypes, SesLegacyToken, OnlyNewestTokenWorks
<1> QED BY <1>1, SesHandlerStep

\* A machine that waits for nothing sends a request to a handler that is free.
LEMMA SesRequestStep ==
    ASSUME SesInv, NEW m \in SesMachines, NEW s \in SesSlots,
           NEW kind \in {"install", "enroll", "report", "logs"}, NEW token \in Nat,
           Request(m, s, kind, token)
    PROVE  SesInv'
<1> USE SesAssumption, SesNoHandler DEF SesInv
<1> DEFINE h == [NoHandler EXCEPT !.kind = kind, !.m = m, !.pc = "start", !.token = token]
<1>1. /\ h \in SesHandlers /\ h.m = m /\ h.pc = "start" /\ h.row = NoRow /\ h.answer = 0
  BY DEF NoHandler, SesHandlers
<1> HIDE DEF h
<1>2. /\ sesHandler' = [sesHandler EXCEPT ![s] = h] /\ m \notin sesWait
      /\ sesWait' = sesWait \cup {m}
      /\ UNCHANGED <<sesRow, sesIds, sesIssued, sesLegacy, sesHeld, sesScript, sesMade,
                     sesAccepted, sesQueued, sesGot>>
  BY DEF Request, h
<1>3. \A t \in SesSlots : sesHandler'[t] = IF t = s THEN h ELSE sesHandler[t]
  BY <1>2 DEF SesTypes
<1>4. SesTypes'
  BY <1>1, <1>2 DEF SesTypes
<1>5. SesOneRequest'
  <2>1. m # 0 /\ \A t \in SesSlots : sesHandler[t].m # m
    BY <1>2 DEF SesOneRequest
  <2> QED BY <2>1, <1>1, <1>2, <1>3 DEF SesOneRequest
<1>6. SesLegacyToken' /\ OnlyNewestTokenWorks'
  BY <1>1, <1>2, <1>3 DEF SesLegacyToken, OnlyNewestTokenWorks
<1>7. SesCommandsKnown'
  BY <1>1, <1>2, <1>3 DEF SesCommandsKnown, SesTypes
<1>8. SesReceived'
  BY <1>1, <1>2, <1>3 DEF SesReceived, Carries
<1> QED BY <1>4, <1>5, <1>6, <1>7, <1>8

\* The handlers of the four kinds of requests.
LEMMA SesHandlersStep ==
    ASSUME SesInv, NEW s \in SesSlots,
           \/ AuthorizeInstall(s) \/ ConsumeInstallToken(s) \/ LookupAgent(s) \/ WriteAgent(s)
           \/ ReadReport(s) \/ CommitReport(s) \/ ReadLogs(s) \/ CommitLogs(s)
    PROVE  SesInv'
<1> DEFINE h == sesHandler[s]
           Still == UNCHANGED <<sesRow, sesIds, sesIssued, sesLegacy, sesHeld, sesWait, sesScript,
                                sesMade, sesAccepted, sesQueued, sesGot>>
<1>1. /\ SesTypes /\ h \in SesHandlers /\ sesRow \in SesRows /\ NoRow \in SesRows
      /\ h.row \in SesRows /\ h.token \in Nat /\ h.row.command \in Nat
  BY SesNoHandler DEF SesInv, SesTypes, SesHandlers, SesRows
<1>2. CASE AuthorizeInstall(s)
  <2>1. Still /\ h.kind = "install"
    BY <1>2 DEF AuthorizeInstall, At
  <2>2. PICK a \in Nat : Answer(s, a)
    BY <1>1, <1>2 DEF AuthorizeInstall
  <2> QED BY <2>1, <2>2, SesAnswerStep
<1>3. CASE ConsumeInstallToken(s)
  <2>1. Still /\ h.kind = "enroll"
    BY <1>3 DEF ConsumeInstallToken, At
  <2>2. CASE Answer(s, 0)
    BY <2>1, <2>2, SesAnswerStep
  <2>3. CASE sesHandler' = [sesHandler EXCEPT ![s].pc = "lookup"]
    <3>1. [h EXCEPT !.pc = "lookup"] \in SesHandlers
      BY <1>1 DEF SesHandlers
    <3>2. sesHandler' = [sesHandler EXCEPT ![s] = [h EXCEPT !.pc = "lookup"]]
      BY <2>3
    <3>3. h.pc = "start" /\ h.answer = 0
      BY <1>3 DEF ConsumeInstallToken, At, SesInv, SesCommandsKnown
    <3>4. [h EXCEPT !.pc = "lookup"].m = h.m /\ [h EXCEPT !.pc = "lookup"].kind = h.kind
          /\ [h EXCEPT !.pc = "lookup"].answer = h.answer /\ [h EXCEPT !.pc = "lookup"].pc = "lookup"
      BY <1>1 DEF SesHandlers
    <3> QED BY <2>1, <3>1, <3>2, <3>3, <3>4, SesMoveStep
  <2> QED BY <1>3, <2>2, <2>3 DEF ConsumeInstallToken
<1>4. CASE LookupAgent(s)
  <2>1. Still /\ h.kind = "enroll" /\ h.pc = "lookup"
    BY <1>4 DEF LookupAgent, At
  <2> DEFINE n == [h EXCEPT !.pc = "write", !.row = [@ EXCEPT !.id = sesRow.id]]
  <2>2. sesHandler' = [sesHandler EXCEPT ![s] = n]
    BY <1>4 DEF LookupAgent
  <2>3. n \in SesHandlers /\ n.m = h.m /\ n.kind = h.kind /\ n.answer = h.answer /\ n.pc = "write"
    BY <1>1 DEF SesHandlers, SesRows
  <2>4. h.answer = 0
    BY <2>1 DEF SesInv, SesCommandsKnown
  <2> HIDE DEF n
  <2> QED BY <2>1, <2>2, <2>3, <2>4, SesMoveStep
<1>5. CASE WriteAgent(s)
  <2>1. h.kind = "enroll" /\ UNCHANGED <<sesLegacy, sesHeld, sesWait, sesScript, sesMade, sesAccepted,
                                        sesQueued, sesGot>>
    BY <1>5 DEF WriteAgent, At
  <2>2. CASE h.row.id = sesRow.id
    <3>1. /\ sesIssued' = sesIssued + 1 /\ sesIds' \in Nat
          /\ sesRow' = IF sesRow.id = 0
                       THEN [NoRow EXCEPT !.id = sesIds', !.token = sesIssued', !.enabled = TRUE]
                       ELSE Rotated(sesRow, sesIssued')
          /\ Answer(s, sesIssued')
      BY <1>5, <2>2 DEF WriteAgent, SesInv, SesTypes
    <3>2. sesIssued' \in Nat
      BY <3>1 DEF SesInv, SesTypes
    <3>3. /\ sesRow' \in SesRows /\ sesRow'.legacy = FALSE /\ sesRow'.token = sesIssued'
          /\ sesRow'.command \in {0, sesRow.command}
      BY <1>1, <3>1, <3>2 DEF SesRows, NoRow, Rotated
    <3>4. sesHandler' = [sesHandler EXCEPT ![s] = Answered(s, sesIssued')]
      BY <3>1 DEF Answer, Answered
    <3>5. SesHandles(s, Answered(s, sesIssued'))
      BY <1>1, <2>1, <3>1, <3>2, <3>3, <3>4, SesAnswered DEF SesHandles
    <3> QED BY <3>5, SesHandlerStep
  <2>3. CASE h.row.id # sesRow.id
    <3>1. Answer(s, 0) /\ Still
      BY <1>5, <2>1, <2>3 DEF WriteAgent
    <3> QED BY <3>1, SesAnswerStep
  <2> QED BY <2>2, <2>3
\* The reports and the logs read the row in the same way.
<1>6. ASSUME Still, h.pc = "start", Authenticated(h.token),
             sesHandler' = [sesHandler EXCEPT ![s].pc = "commit", ![s].row = sesRow]
      PROVE  SesInv'
  <2> DEFINE n == [h EXCEPT !.pc = "commit", !.row = sesRow]
  <2>1. sesHandler' = [sesHandler EXCEPT ![s] = n]
    BY <1>6
  <2>2. /\ n \in SesHandlers /\ n.m = h.m /\ n.kind = h.kind /\ n.answer = h.answer
        /\ n.row = sesRow /\ n.token = h.token
    BY <1>1 DEF SesHandlers
  <2>3. h.answer = 0
    BY <1>6 DEF SesInv, SesCommandsKnown
  <2>4. sesRow.legacy => h.token = sesLegacy
    BY <1>6 DEF Authenticated, SesInv, SesLegacyToken
  <2> HIDE DEF n
  <2> QED BY <1>6, <2>1, <2>2, <2>3, <2>4, SesMoveStep
<1>7. CASE ReadReport(s)
  <2>1. Still /\ h.pc = "start"
    BY <1>7 DEF ReadReport, At
  <2> QED BY <1>6, <1>7, <2>1, SesAnswerStep DEF ReadReport
<1>8. CASE ReadLogs(s)
  <2>1. Still /\ h.pc = "start"
    BY <1>8 DEF ReadLogs, At
  <2> QED BY <1>6, <1>8, <2>1, SesAnswerStep DEF ReadLogs
<1>9. CASE CommitReport(s)
  <2>1. /\ h.kind = "report" /\ h.pc = "commit"
        /\ UNCHANGED <<sesIds, sesIssued, sesLegacy, sesHeld, sesWait, sesScript, sesMade,
                       sesAccepted, sesQueued, sesGot>>
    BY <1>9 DEF CommitReport, At
  <2>2. CASE h.row.id = sesRow.id
    <3>1. sesRow' = Reported(sesRow, h.row, h.token) /\ Answer(s, h.row.command)
      BY <1>9, <2>2 DEF CommitReport
    <3>2. /\ sesRow' \in SesRows /\ sesRow'.id = sesRow.id
          /\ sesRow'.command = IF h.row.command # 0 THEN 0 ELSE sesRow.command
          /\ sesRow'.token = IF h.row.legacy THEN h.token ELSE sesRow.token
          /\ sesRow'.legacy = IF h.row.legacy THEN FALSE ELSE sesRow.legacy
      BY <1>1, <3>1 DEF Reported, SesRows
    <3>3. h.row.legacy => h.token = sesLegacy
      BY <2>1 DEF SesInv, SesLegacyToken
    <3>4. /\ sesRow'.legacy => sesRow'.token = sesLegacy
          /\ sesRow'.id # 0 => sesRow'.token \in {sesIssued', sesLegacy}
      BY <2>1, <3>2, <3>3 DEF SesInv, SesLegacyToken, OnlyNewestTokenWorks
    <3>5. sesHandler' = [sesHandler EXCEPT ![s] = Answered(s, h.row.command)]
      BY <3>1 DEF Answer, Answered
    <3>6. sesIds' \in Nat /\ sesIssued' \in Nat
      BY <2>1 DEF SesInv, SesTypes
    <3>7. SesHandles(s, Answered(s, h.row.command))
      BY <1>1, <2>1, <3>2, <3>4, <3>5, <3>6, SesAnswered, SesNoHandler DEF SesHandles
    <3> QED BY <3>7, SesHandlerStep
  <2>3. CASE h.row.id # sesRow.id
    <3>1. Answer(s, 0) /\ Still
      BY <1>9, <2>1, <2>3 DEF CommitReport
    <3> QED BY <3>1, SesAnswerStep
  <2> QED BY <2>2, <2>3
<1>10. CASE CommitLogs(s)
  <2>1. /\ h.kind = "logs" /\ h.pc = "commit" /\ Answer(s, 0)
        /\ sesRow' = IF h.row.legacy /\ h.row.id = sesRow.id
                     THEN [sesRow EXCEPT !.token = h.token, !.legacy = FALSE] ELSE sesRow
        /\ UNCHANGED <<sesIds, sesIssued, sesLegacy, sesHeld, sesWait, sesScript, sesMade,
                       sesAccepted, sesQueued, sesGot>>
    BY <1>10 DEF CommitLogs, At
  <2>2. h.row.legacy => h.token = sesLegacy
    BY <2>1 DEF SesInv, SesLegacyToken
  <2>3. sesRow' \in SesRows /\ sesRow'.command = sesRow.command
    BY <1>1, <2>1 DEF SesRows
  <2>4. /\ sesRow'.legacy => sesRow'.token = sesLegacy
        /\ sesRow'.id # 0 => sesRow'.token \in {sesIssued', sesLegacy}
    BY <1>1, <2>1, <2>2 DEF SesInv, SesLegacyToken, OnlyNewestTokenWorks, SesRows
  <2>5. sesHandler' = [sesHandler EXCEPT ![s] = Answered(s, 0)]
    BY <2>1 DEF Answer, Answered
  <2>6. sesIds' \in Nat /\ sesIssued' \in Nat
    BY <2>1 DEF SesInv, SesTypes
  <2>7. SesHandles(s, Answered(s, 0))
    BY <1>1, <2>1, <2>3, <2>4, <2>5, <2>6, SesAnswered, SesNoHandler DEF SesHandles
  <2> QED BY <2>7, SesHandlerStep
<1> QED BY <1>2, <1>3, <1>4, <1>5, <1>7, <1>8, <1>9, <1>10

\* An answer reaches the machine that waits for it, or nobody.
LEMMA SesReplyStep ==
    ASSUME SesInv, NEW s \in SesSlots, Reply(s)
    PROVE  SesInv'
<1> USE SesAssumption, SesNoHandler DEF SesInv
<1> DEFINE h == sesHandler[s]
<1>1. /\ h \in SesHandlers /\ h.m \in SesMachines \cup {0} /\ h.answer \in Nat /\ h.pc = "reply"
      /\ sesHandler' = [sesHandler EXCEPT ![s] = NoHandler]
      /\ UNCHANGED <<sesRow, sesIds, sesIssued, sesLegacy, sesMade, sesAccepted, sesQueued>>
  BY DEF Reply, SesTypes, SesHandlers
<1>2. \A t \in SesSlots : sesHandler'[t] = IF t = s THEN NoHandler ELSE sesHandler[t]
  BY <1>1 DEF SesTypes
<1>3. SesLegacyToken' /\ OnlyNewestTokenWorks' /\ SesCommandsKnown'
  BY <1>1, <1>2 DEF SesLegacyToken, OnlyNewestTokenWorks, SesCommandsKnown, SesTypes
<1>4. CASE ~Listens(s)
  <2>1. UNCHANGED <<sesWait, sesScript, sesHeld, sesGot>>
    BY <1>4 DEF Reply
  <2>2. SesTypes'
    BY <1>1, <2>1 DEF SesTypes
  <2>3. SesOneRequest'
    BY <1>2, <2>1 DEF SesOneRequest
  <2>4. SesReceived'
    BY <1>1, <1>2, <2>1 DEF SesReceived, Carries, NoRow
  <2> QED BY <1>3, <2>2, <2>3, <2>4
<1>5. CASE Listens(s)
  <2>1. /\ sesWait' = sesWait \ {h.m}
        /\ sesScript' = IF h.kind = "install" /\ h.answer # 0
                        THEN [sesScript EXCEPT ![h.m] = h.answer] ELSE sesScript
        /\ sesHeld' = IF h.answer = 0 \/ h.kind = "install" THEN sesHeld
                      ELSE [sesHeld EXCEPT ![h.m] = IF h.kind = "enroll" THEN h.answer ELSE 0]
        /\ sesGot' = IF h.kind = "report" /\ h.answer # 0 THEN [sesGot EXCEPT ![h.m][h.answer] = @ + 1]
                     ELSE sesGot
    BY <1>5 DEF Reply
  <2>2. h.m \in SesMachines /\ h.m # 0
    BY <1>1, <1>5 DEF Listens, SesTypes
  <2>3. h.kind = "report" /\ h.answer # 0 => h.answer \in 1..SesCommands
    BY <1>1 DEF SesCommandsKnown, SesTypes
  \* The command that arrives is one the machine had not received.
  <2>4. h.kind = "report" /\ h.answer # 0 => sesGot[h.m][h.answer] = 0 /\ sesRow.command # h.answer
    BY <2>2, <2>3 DEF SesReceived, Carries, SesCommandsKnown
  <2>5. sesGot' \in [SesMachines -> [1..SesCommands -> Nat]]
    <3>1. CASE h.kind = "report" /\ h.answer # 0
      <4>1. sesGot[h.m] \in [1..SesCommands -> Nat]
        BY <2>2 DEF SesTypes
      <4>2. [sesGot[h.m] EXCEPT ![h.answer] = @ + 1] \in [1..SesCommands -> Nat]
        <5>1. \A f \in [1..SesCommands -> Nat], k \in 1..SesCommands :
                 f[k] + 1 \in Nat /\ [f EXCEPT ![k] = f[k] + 1] \in [1..SesCommands -> Nat]
          OBVIOUS
        <5> QED BY <5>1, <4>1, <2>3, <3>1
      <4>3. sesGot' = [sesGot EXCEPT ![h.m] = [sesGot[h.m] EXCEPT ![h.answer] = @ + 1]]
        BY <2>1, <3>1
      <4> QED BY <4>2, <4>3, <2>2 DEF SesTypes
    <3>2. CASE ~(h.kind = "report" /\ h.answer # 0)
      BY <3>2, <2>1 DEF SesTypes
    <3> QED BY <3>1, <3>2
  <2>6. SesTypes'
    <3>1. sesHeld' \in [SesMachines -> Nat] /\ sesScript' \in [SesMachines -> Nat]
      BY <1>1, <2>1, <2>2 DEF SesTypes
    <3>2. sesWait' \subseteq SesMachines /\ sesHandler' \in [SesSlots -> SesHandlers]
      BY <1>1, <2>1 DEF SesTypes
    <3> QED BY <1>1, <2>5, <3>1, <3>2 DEF SesTypes
  <2>7. SesOneRequest'
    BY <1>2, <2>1, <2>2 DEF SesOneRequest
  <2>8. \A t \in SesSlots \ {s} : sesHandler[t].m # h.m
    BY <2>2 DEF SesOneRequest
  <2>9. ASSUME NEW m \in SesMachines, NEW c \in 1..SesCommands
        PROVE  sesGot'[m][c] = IF h.kind = "report" /\ m = h.m /\ c = h.answer THEN 1 ELSE sesGot[m][c]
    <3>0. c # 0
      OBVIOUS
    <3>1. CASE h.kind = "report" /\ h.answer # 0
      <4>1. sesGot' = [sesGot EXCEPT ![h.m] = [sesGot[h.m] EXCEPT ![h.answer] = @ + 1]]
        BY <2>1, <3>1
      <4>2. DOMAIN sesGot = SesMachines /\ DOMAIN sesGot[m] = 1..SesCommands
        BY DEF SesTypes
      <4> QED BY <2>2, <2>3, <2>4, <3>1, <4>1, <4>2
    <3>2. CASE ~(h.kind = "report" /\ h.answer # 0)
      BY <3>0, <3>2, <2>1
    <3> QED BY <3>1, <3>2
  <2>10. SesReceived'
    <3> SUFFICES ASSUME NEW m \in SesMachines, NEW c \in 1..SesCommands, sesGot'[m][c] # 0
                 PROVE  /\ sesGot'[m][c] = 1 /\ c <= sesQueued
                        /\ sesRow.command # c
                        /\ \A t \in SesSlots : sesHandler'[t].m = m => ~Carries(sesHandler'[t], c)
      BY <1>1 DEF SesReceived
    <3>1. CASE h.kind = "report" /\ m = h.m /\ c = h.answer
      <4>1. sesGot'[m][c] = 1 /\ c # 0
        BY <2>9, <3>1
      <4>2. c <= sesQueued /\ sesRow.command # c
        BY <2>4, <3>1, <4>1 DEF SesCommandsKnown
      <4>3. \A t \in SesSlots : sesHandler'[t].m # m
        BY <1>2, <2>2, <2>8, <3>1
      <4> QED BY <4>1, <4>2, <4>3
    <3>2. CASE ~(h.kind = "report" /\ m = h.m /\ c = h.answer)
      <4>1. sesGot[m][c] # 0 /\ sesGot'[m][c] = sesGot[m][c]
        BY <2>9, <3>2
      <4> QED BY <4>1, <1>2 DEF SesReceived, Carries
    <3> QED BY <3>1, <3>2
  <2> QED BY <1>3, <2>6, <2>7, <2>10
<1> QED BY <1>4, <1>5

\* Clients that give up, restarts, and what administrators do.
LEMMA SesOtherStep ==
    ASSUME SesInv,
           \/ \E m \in SesMachines : Timeout(m)
           \/ RestartServer \/ UninstallAgent \/ DeleteAgent \/ PatchAgent
           \/ RevokeInstallToken \/ CreateInstallToken
    PROVE  SesInv'
<1> USE SesAssumption, SesNoHandler DEF SesInv
<1>1. ASSUME NEW m \in SesMachines, Timeout(m) PROVE SesInv'
  <2>1. /\ sesWait' = sesWait \ {m}
        /\ UNCHANGED <<sesRow, sesIds, sesIssued, sesLegacy, sesHeld, sesScript, sesMade,
                       sesAccepted, sesQueued, sesGot>>
    BY <1>1 DEF Timeout
  <2>2. \A t \in SesSlots :
           /\ sesHandler'[t] \in SesHandlers
           /\ sesHandler'[t].m = IF sesHandler[t].m = m THEN 0 ELSE sesHandler[t].m
           /\ sesHandler'[t].kind = sesHandler[t].kind /\ sesHandler'[t].pc = sesHandler[t].pc
           /\ sesHandler'[t].token = sesHandler[t].token /\ sesHandler'[t].row = sesHandler[t].row
           /\ sesHandler'[t].answer = sesHandler[t].answer
    <3> SUFFICES ASSUME NEW t \in SesSlots
                 PROVE  /\ sesHandler'[t] \in SesHandlers
                        /\ sesHandler'[t].m = IF sesHandler[t].m = m THEN 0 ELSE sesHandler[t].m
                        /\ sesHandler'[t].kind = sesHandler[t].kind /\ sesHandler'[t].pc = sesHandler[t].pc
                        /\ sesHandler'[t].token = sesHandler[t].token
                        /\ sesHandler'[t].row = sesHandler[t].row
                        /\ sesHandler'[t].answer = sesHandler[t].answer
      OBVIOUS
    <3>1. sesHandler[t] \in SesHandlers
      BY DEF SesTypes
    <3>2. sesHandler'[t] = IF sesHandler[t].m = m THEN [sesHandler[t] EXCEPT !.m = 0] ELSE sesHandler[t]
      BY <1>1 DEF Timeout
    <3> QED BY <3>1, <3>2 DEF SesHandlers
  <2>3. sesHandler' \in [SesSlots -> SesHandlers]
    <3>1. sesHandler' = [t \in SesSlots |-> sesHandler'[t]]
      BY <1>1 DEF Timeout
    <3> QED BY <2>2, <3>1
  <2>4. SesTypes'
    BY <2>1, <2>3 DEF SesTypes
  <2>5. SesOneRequest'
    BY <2>1, <2>2 DEF SesOneRequest
  <2>6. SesLegacyToken' /\ OnlyNewestTokenWorks'
    BY <2>1, <2>2 DEF SesLegacyToken, OnlyNewestTokenWorks
  <2>7. SesCommandsKnown'
    BY <2>1, <2>2 DEF SesCommandsKnown
  <2>8. SesReceived'
    BY <2>1, <2>2 DEF SesReceived, Carries
  <2> QED BY <2>4, <2>5, <2>6, <2>7, <2>8
<1>2. CASE RestartServer
  <2>1. /\ sesHandler' = [s \in SesSlots |-> NoHandler] /\ sesWait' = {}
        /\ UNCHANGED <<sesRow, sesIds, sesIssued, sesLegacy, sesHeld, sesScript, sesMade,
                       sesAccepted, sesQueued, sesGot>>
    BY <1>2 DEF RestartServer
  <2>2. SesTypes'
    BY <2>1 DEF SesTypes
  <2>3. SesOneRequest' /\ SesLegacyToken' /\ OnlyNewestTokenWorks' /\ SesCommandsKnown'
    BY <2>1 DEF SesOneRequest, SesLegacyToken, OnlyNewestTokenWorks, SesCommandsKnown
  <2>4. SesReceived'
    BY <2>1 DEF SesReceived, Carries, NoRow
  <2> QED BY <2>2, <2>3, <2>4
\* The requests of administrators leave the handlers alone.
<1>3. ASSUME sesRow' \in SesRows, sesQueued' \in 0..SesCommands, sesMade' \in Nat, sesAccepted' \subseteq Nat,
             UNCHANGED <<sesIds, sesIssued, sesLegacy, sesHeld, sesWait, sesHandler, sesScript, sesGot>>,
             sesRow'.legacy => sesRow.legacy /\ sesRow'.token = sesRow.token,
             sesRow'.id # 0 => sesRow.id # 0 /\ sesRow'.token = sesRow.token,
             sesQueued' >= sesQueued, sesRow'.command <= sesQueued',
             sesRow'.command = 0 \/ sesRow'.command = sesRow.command \/ sesRow'.command > sesQueued
      PROVE  SesInv'
  <2>1. SesTypes'
    BY <1>3 DEF SesTypes
  <2>2. SesOneRequest' /\ SesLegacyToken' /\ OnlyNewestTokenWorks'
    BY <1>3 DEF SesOneRequest, SesLegacyToken, OnlyNewestTokenWorks
  <2>3. sesQueued \in Nat /\ sesQueued' \in Nat
        /\ \A s \in SesSlots : sesHandler[s].answer \in Nat /\ sesHandler[s].row.command \in Nat
    BY <1>3 DEF SesTypes, SesHandlers, SesRows
  <2>4. SesCommandsKnown'
    BY <1>3, <2>3 DEF SesCommandsKnown
  <2>5. SesReceived'
    BY <1>3, <2>3 DEF SesReceived, Carries
  <2> QED BY <2>1, <2>2, <2>4, <2>5
<1>4. /\ sesRow \in SesRows /\ sesQueued \in 0..SesCommands /\ sesMade \in Nat
      /\ sesAccepted \subseteq Nat /\ sesRow.command <= sesQueued
  BY DEF SesTypes, SesCommandsKnown
<1>5. CASE UninstallAgent
  <2>1. /\ sesRow' = [sesRow EXCEPT !.command = sesQueued'] /\ sesQueued' = sesQueued + 1
        /\ sesRow.id # 0 /\ sesQueued < SesCommands
        /\ UNCHANGED <<sesIds, sesIssued, sesLegacy, sesHeld, sesWait, sesHandler, sesScript, sesGot,
                       sesMade, sesAccepted>>
    BY <1>5 DEF UninstallAgent
  <2>2. /\ sesRow' \in SesRows /\ sesRow'.legacy = sesRow.legacy /\ sesRow'.token = sesRow.token
        /\ sesRow'.id = sesRow.id /\ sesRow'.command = sesQueued' /\ sesQueued' \in 0..SesCommands
    BY <1>4, <2>1 DEF SesRows
  <2> QED BY <1>3, <1>4, <2>1, <2>2
<1>6. CASE DeleteAgent
  <2>1. /\ sesRow' = NoRow
        /\ UNCHANGED <<sesIds, sesIssued, sesLegacy, sesHeld, sesWait, sesHandler, sesScript, sesGot,
                       sesMade, sesAccepted, sesQueued>>
    BY <1>6 DEF DeleteAgent
  <2> QED BY <1>3, <1>4, <2>1
<1>7. CASE PatchAgent
  <2>1. /\ sesRow' = [sesRow EXCEPT !.enabled = ~@] /\ sesRow.id # 0
        /\ UNCHANGED <<sesIds, sesIssued, sesLegacy, sesHeld, sesWait, sesHandler, sesScript, sesGot,
                       sesMade, sesAccepted, sesQueued>>
    BY <1>7 DEF PatchAgent
  <2>2. /\ sesRow' \in SesRows /\ sesRow'.legacy = sesRow.legacy /\ sesRow'.token = sesRow.token
        /\ sesRow'.id = sesRow.id /\ sesRow'.command = sesRow.command
    BY <1>4, <2>1 DEF SesRows
  <2> QED BY <1>3, <1>4, <2>1, <2>2
<1>8. CASE RevokeInstallToken
  <2>1. /\ sesAccepted' \subseteq sesAccepted
        /\ UNCHANGED <<sesRow, sesIds, sesIssued, sesLegacy, sesHeld, sesWait, sesHandler, sesScript,
                       sesGot, sesMade, sesQueued>>
    BY <1>8 DEF RevokeInstallToken
  <2> QED BY <1>3, <1>4, <2>1
<1>9. CASE CreateInstallToken
  <2>1. /\ sesMade' = sesMade + 1 /\ sesAccepted' = sesAccepted \cup {sesMade'}
        /\ UNCHANGED <<sesRow, sesIds, sesIssued, sesLegacy, sesHeld, sesWait, sesHandler, sesScript,
                       sesGot, sesQueued>>
    BY <1>9 DEF CreateInstallToken
  <2> QED BY <1>3, <1>4, <2>1
<1> QED BY <1>1, <1>2, <1>5, <1>6, <1>7, <1>8, <1>9

\* Every step preserves the invariant.
LEMMA SesInvStep == SesInv /\ [SesNext]_sesVars => SesInv'
<1> SUFFICES ASSUME SesInv, [SesNext]_sesVars PROVE SesInv'
  OBVIOUS
<1>1. ASSUME NEW s \in SesSlots, NEW m \in SesMachines,
             DownloadInstaller(m, s) \/ RunInstaller(m, s) \/ Report(m, s) \/ SendLogs(m, s)
      PROVE  SesInv'
  <2>1. sesScript[m] \in Nat /\ sesHeld[m] \in Nat /\ 1..sesMade \subseteq Nat
    BY DEF SesInv, SesTypes
  <2> QED BY <1>1, <2>1, SesRequestStep DEF DownloadInstaller, RunInstaller, Report, SendLogs
<1>2. ASSUME NEW s \in SesSlots,
             \/ AuthorizeInstall(s) \/ ConsumeInstallToken(s) \/ LookupAgent(s) \/ WriteAgent(s)
             \/ ReadReport(s) \/ CommitReport(s) \/ ReadLogs(s) \/ CommitLogs(s)
      PROVE  SesInv'
  BY <1>2, SesHandlersStep
<1>3. ASSUME NEW s \in SesSlots, Reply(s) PROVE SesInv'
  BY <1>3, SesReplyStep
<1>4. CASE \/ \E m \in SesMachines : Timeout(m)
           \/ RestartServer \/ UninstallAgent \/ DeleteAgent \/ PatchAgent
           \/ RevokeInstallToken \/ CreateInstallToken
  BY <1>4, SesOtherStep
<1>5. CASE UNCHANGED sesVars
  BY <1>5 DEF sesVars, SesInv, SesTypes, SesOneRequest, SesLegacyToken, SesCommandsKnown, SesReceived,
              OnlyNewestTokenWorks
<1> QED BY <1>1, <1>2, <1>3, <1>4, <1>5 DEF SesNext

\* For any machines, request slots and numbers of commands and reports: an agent
\* receives every command at most once, although a report that gets no answer is sent
\* again (agents.py agent_report).
THEOREM CommandsAreReceivedOnce == SesSpec => []CommandReceivedOnce
<1>1. SesInv => CommandReceivedOnce
  <2> SUFFICES ASSUME SesInv, NEW m \in SesMachines, NEW c \in 1..SesCommands
               PROVE  sesGot[m][c] <= 1
    BY DEF CommandReceivedOnce
  <2>1. sesGot[m][c] \in Nat /\ (sesGot[m][c] # 0 => sesGot[m][c] = 1)
    BY DEF SesInv, SesTypes, SesReceived
  <2> QED BY <2>1
<1> QED BY <1>1, SesInvInit, SesInvStep, PTL DEF SesSpec

\* For the same constants: of the tokens ever issued for a host only the newest opens
\* it, the one an installer or an enrollment wrote last (agents.py agent_enroll,
\* _authenticate_agent).
THEOREM RetiredTokensStayRetired == SesSpec => []OnlyNewestTokenWorks
<1>1. SesInv => OnlyNewestTokenWorks
  BY DEF SesInv
<1> QED BY <1>1, SesInvInit, SesInvStep, PTL DEF SesSpec

-----------------------------------------------------------------------------
(***************************************************************************)
(* AgentTail: a position is a promise.  A position beyond the end of the   *)
(* file is one of a file that was rotated away, and promises nothing.      *)
(***************************************************************************)

TailTypes ==
    /\ tailSize \in [TailSources -> Nat] /\ tailPos \in [TailSources -> Nat]
    /\ tailBase \in [TailSources -> Nat]

TailKept(s) ==
    (s \in Files \/ ~tailBurst[s]) =>
        \A n \in 1..tailSize[s] : (tailBase[s] < n /\ n <= tailPos[s]) => n \in tailSeen[s]

TailBeyond == \A s \in Positioned : tailPos[s] > tailSize[s] => tailBase[s] >= tailPos[s]

TailInv == TailTypes /\ TailBeyond /\ NothingPassedOver

\* The property, one source at a time.
LEMMA TailByKind == NothingPassedOver <=> \A s \in Positioned : TailKept(s)
BY DEF NothingPassedOver, TailKept

\* The newest of the last lines is the last line of all.
LEMMA TailNewest ==
  ASSUME TailTypes, NEW s \in TailSources, NEW from \in Nat, LastLines(s, from) # {}
  PROVE  Max(LastLines(s, from)) = tailSize[s]
<1>1. tailSize[s] \in Nat /\ TailMax \in Nat \ {0}
  BY TailAssumption DEF TailTypes
<1>2. tailSize[s] \in LastLines(s, from) /\ \A n \in LastLines(s, from) : n \in Nat /\ n <= tailSize[s]
  BY <1>1 DEF LastLines
<1> HIDE DEF LastLines
<1>3. \A x \in LastLines(s, from) : (\A y \in LastLines(s, from) : x >= y) => x = tailSize[s]
  BY <1>1, <1>2
<1>4. \A y \in LastLines(s, from) : tailSize[s] >= y
  BY <1>1, <1>2
<1> QED BY <1>2, <1>3, <1>4 DEF Max

\* What a read makes of the position and of the lines, source by source.
LEMMA TailReadFile ==
  ASSUME TailInv, CollectLogs, NEW s \in Files
  PROVE  /\ tailPos'[s] \in Nat /\ tailBase'[s] \in Nat
         /\ tailPos'[s] > tailSize[s] => tailBase'[s] >= tailPos'[s]
         /\ \A n \in 1..tailSize[s] : (tailBase'[s] < n /\ n <= tailPos'[s]) => n \in tailSeen'[s]
<1>1. s \in TailSources /\ s \in Positioned /\ TailKind[s] = "file"
  BY DEF Files, Positioned
<1>2. /\ tailSize[s] \in Nat /\ tailPos[s] \in Nat /\ tailBase[s] \in Nat
      /\ TailMax \in Nat \ {0}
  BY <1>1, TailAssumption DEF TailInv, TailTypes
<1>3. /\ tailPos'[s] = FilePos(s)
      /\ tailSeen'[s] = tailSeen[s] \cup FileLines(s)
      /\ tailBase'[s] = IF FilePos(s) < tailPos[s] THEN 0 ELSE tailBase[s]
  BY <1>1 DEF CollectLogs, Pos, Lines
<1>4. /\ tailPos[s] > tailSize[s] => tailBase[s] >= tailPos[s]
      /\ \A n \in 1..tailSize[s] : (tailBase[s] < n /\ n <= tailPos[s]) => n \in tailSeen[s]
  BY <1>1 DEF TailInv, TailBeyond, NothingPassedOver
<1>5. CASE tailSize[s] - Offset(s) > TailMax
  <2>1. tailPos'[s] = tailPos[s] /\ tailBase'[s] = tailBase[s]
    BY <1>2, <1>3, <1>5 DEF FilePos
  <2> QED BY <1>2, <1>3, <1>4, <2>1
<1>6. CASE ~(tailSize[s] - Offset(s) > TailMax)
  <2>1. tailPos'[s] = tailSize[s]
    BY <1>3, <1>6 DEF FilePos
  <2>2. CASE tailSize[s] < tailPos[s]
    <3>1. Offset(s) = 0 /\ tailBase'[s] = 0
      BY <1>3, <2>1, <2>2 DEF Offset
    <3>2. \A n \in 1..tailSize[s] : n \in FileLines(s)
      BY <1>2, <1>6, <3>1 DEF FileLines
    <3> QED BY <1>2, <1>3, <2>1, <3>1, <3>2
  <2>3. CASE ~(tailSize[s] < tailPos[s])
    <3>1. Offset(s) = tailPos[s] /\ tailBase'[s] = tailBase[s]
      BY <1>2, <1>3, <2>1, <2>3 DEF Offset
    <3>2. \A n \in 1..tailSize[s] : n > tailPos[s] => n \in FileLines(s)
      BY <1>2, <1>6, <3>1 DEF FileLines
    <3> QED BY <1>2, <1>3, <1>4, <2>1, <3>1, <3>2
  <2> QED BY <2>2, <2>3
<1> QED BY <1>5, <1>6

\* A read of the newest lines, of the journal or of all events since the position,
\* keeps the promise.
LEMMA TailReadNewest ==
  ASSUME TailInv, CollectLogs, NEW s \in Positioned \ Files
  PROVE  /\ tailPos'[s] \in Nat /\ tailBase'[s] \in Nat
         /\ tailPos'[s] > tailSize[s] => tailBase'[s] >= tailPos'[s]
         /\ ~tailBurst'[s] =>
              \A n \in 1..tailSize[s] : (tailBase'[s] < n /\ n <= tailPos'[s]) => n \in tailSeen'[s]
<1>1. s \in TailSources /\ TailKind[s] \in {"journal", "since"} /\ s \notin Files
  BY TailAssumption DEF Files, Positioned
<1>2. /\ tailSize[s] \in Nat /\ tailPos[s] \in Nat /\ tailBase[s] \in Nat
      /\ TailMax \in Nat \ {0}
  BY <1>1, TailAssumption DEF TailInv, TailTypes
<1>3. PICK from \in {tailPos[s], tailPos[s] + 1} : Lines(s) = LastLines(s, from)
  BY <1>1 DEF Lines, JournalLines, DockerLines
<1>4. /\ tailPos'[s] = NewestPos(s, Lines(s))
      /\ tailSeen'[s] = tailSeen[s] \cup Lines(s)
      /\ tailBase'[s] = tailBase[s]
  BY <1>1 DEF CollectLogs, Pos
<1>4a. ~tailBurst'[s] => ~tailBurst[s] /\ ~(tailSize[s] - Offset(s) > TailMax)
  BY <1>1 DEF CollectLogs
<1>5. /\ tailPos[s] > tailSize[s] => tailBase[s] >= tailPos[s]
      /\ ~tailBurst[s] => \A n \in 1..tailSize[s] : (tailBase[s] < n /\ n <= tailPos[s]) => n \in tailSeen[s]
  BY DEF TailInv, TailBeyond, NothingPassedOver
<1>6. from \in Nat /\ TailTypes
  BY <1>2 DEF TailInv
<1>7. CASE Lines(s) = {}
  <2>1. tailPos'[s] = tailPos[s]
    BY <1>4, <1>7 DEF NewestPos
  <2> QED BY <1>2, <1>4, <1>5, <1>4a, <2>1
<1>8. CASE Lines(s) # {}
  <2>1. tailPos'[s] = tailSize[s]
    BY <1>1, <1>3, <1>4, <1>6, <1>8, TailNewest DEF NewestPos
  <2>2. ASSUME ~tailBurst'[s], NEW n \in 1..tailSize[s], n > tailPos[s] PROVE n \in Lines(s)
    <3>1. tailSize[s] - tailPos[s] <= TailMax
      BY <1>2, <1>4a, <2>2 DEF Offset
    <3> QED BY <1>2, <1>3, <2>2, <3>1 DEF LastLines
  <2> QED BY <1>2, <1>4, <1>5, <1>4a, <2>1, <2>2
<1> QED BY <1>7, <1>8

\* A read of all sources keeps every promise.
LEMMA TailRead == ASSUME TailInv, CollectLogs PROVE TailInv'
<1>1. tailSize' = tailSize /\ DOMAIN tailPos' = TailSources /\ DOMAIN tailBase' = TailSources
  BY DEF CollectLogs
<1>2. \A s \in TailSources : tailPos'[s] \in Nat /\ tailBase'[s] \in Nat
  <2> SUFFICES ASSUME NEW s \in TailSources, s \notin Positioned
               PROVE  tailPos'[s] \in Nat /\ tailBase'[s] \in Nat
    BY TailReadFile, TailReadNewest
  <2>1. TailKind[s] = "tail" /\ s \notin Files
    BY DEF Positioned, Files
  <2>2. tailPos'[s] = 0 /\ tailBase'[s] = tailBase[s]
    BY <2>1 DEF CollectLogs, Pos
  <2> QED BY <2>2 DEF TailInv, TailTypes
<1>3. TailTypes'
  <2>1. tailPos' = [s \in TailSources |-> tailPos'[s]] /\ tailBase' = [s \in TailSources |-> tailBase'[s]]
    BY DEF CollectLogs
  <2> QED BY <1>1, <1>2, <2>1 DEF TailInv, TailTypes
<1>4. TailBeyond' /\ NothingPassedOver'
  BY <1>1, TailReadFile, TailReadNewest DEF TailBeyond, NothingPassedOver
<1> QED BY <1>3, <1>4 DEF TailInv

\* A line that is written lies beyond every position.
LEMMA TailWrite == ASSUME TailInv, NEW s \in TailSources, WriteLine(s) PROVE TailInv'
<1>1. tailSize' = [tailSize EXCEPT ![s] = @ + 1] /\ UNCHANGED <<tailPos, tailSeen, tailBase, tailBurst>>
  BY DEF WriteLine
<1>2. TailTypes /\ TailBeyond /\ NothingPassedOver
  BY DEF TailInv
<1>3. \A t \in TailSources : /\ tailSize[t] \in Nat /\ tailPos[t] \in Nat /\ tailBase[t] \in Nat
                             /\ tailSize'[t] \in {tailSize[t], tailSize[t] + 1}
  BY <1>1, <1>2 DEF TailTypes
<1>4. TailTypes'
  BY <1>1, <1>2, <1>3 DEF TailTypes
<1>5. TailBeyond'
  BY <1>1, <1>2, <1>3 DEF TailBeyond, Positioned
<1>6. NothingPassedOver'
  <2> SUFFICES ASSUME NEW t \in Positioned, t \in Files \/ ~tailBurst[t], NEW n \in 1..tailSize'[t],
                      tailBase[t] < n, n <= tailPos[t]
               PROVE  n \in tailSeen[t]
    BY <1>1 DEF NothingPassedOver
  <2>1. t \in TailSources
    BY DEF Positioned
  <2>2. n <= tailSize[t]
    BY <1>2, <1>3, <2>1 DEF TailBeyond
  <2> QED BY <1>2, <1>3, <2>1, <2>2 DEF NothingPassedOver
<1> QED BY <1>4, <1>5, <1>6 DEF TailInv

\* A file that is rotated has no lines, and a position kept for it promises none.
LEMMA TailRotate == ASSUME TailInv, NEW s \in Files, Rotate(s) PROVE TailInv'
<1>1. /\ tailSize' = [tailSize EXCEPT ![s] = 0] /\ tailSeen' = [tailSeen EXCEPT ![s] = {}]
      /\ tailBase' = [tailBase EXCEPT ![s] = tailPos[s]]
      /\ UNCHANGED <<tailPos, tailBurst>>
  BY DEF Rotate
<1>2. TailTypes /\ TailBeyond /\ NothingPassedOver /\ s \in TailSources /\ tailPos[s] \in Nat
  BY DEF TailInv, Files, TailTypes
<1>3. TailTypes'
  BY <1>1, <1>2 DEF TailTypes
<1>4. /\ tailSize'[s] = 0 /\ tailBase'[s] = tailPos[s]
      /\ \A t \in TailSources \ {s} : tailSize'[t] = tailSize[t] /\ tailBase'[t] = tailBase[t]
  BY <1>1, <1>2 DEF TailTypes
<1>5. \A t \in Positioned : t # s => tailSeen'[t] = tailSeen[t] \/ tailSeen' = tailSeen
  BY <1>1
<1>6. \A t \in Positioned \ {s} : t \in TailSources \ {s}
  BY DEF Positioned
<1>7. TailBeyond'
  BY <1>1, <1>2, <1>4, <1>6 DEF TailBeyond
<1>8. NothingPassedOver'
  <2> SUFFICES ASSUME NEW t \in Positioned, t \in Files \/ ~tailBurst[t], NEW n \in 1..tailSize'[t],
                      tailBase'[t] < n, n <= tailPos[t]
               PROVE  n \in tailSeen'[t]
    BY <1>1 DEF NothingPassedOver
  <2>1. t # s
    BY <1>4
  <2> QED BY <1>1, <1>2, <1>4, <1>6, <2>1 DEF NothingPassedOver
<1> QED BY <1>3, <1>7, <1>8 DEF TailInv

\* A new process promises only what lies behind where it starts.
LEMMA TailRestart == ASSUME TailInv, RestartAgent PROVE TailInv'
<1>1. PICK back \in [TailSources -> 0..1] :
        /\ tailPos' = [s \in TailSources |->
                         IF TailKind[s] \in {"file", "tail"} \/ back[s] > tailSize[s] THEN 0
                         ELSE tailSize[s] - back[s]]
        /\ tailBase' = tailPos'
  BY DEF RestartAgent
<1>2. tailSize' = tailSize /\ tailSize \in [TailSources -> Nat]
  BY DEF RestartAgent, TailInv, TailTypes
<1>3. \A s \in TailSources : tailPos'[s] \in Nat
  BY <1>1, <1>2
<1>4. tailPos' \in [TailSources -> Nat]
  BY <1>1, <1>3
<1> QED BY <1>1, <1>2, <1>3, <1>4 DEF TailInv, TailTypes, TailBeyond, NothingPassedOver, Positioned

\* A position is a promise for every number of sources and of lines, however files rotate and
\* agents restart.
THEOREM PositionsArePromises == TailSpec => []NothingPassedOver
<1>1. TailInit => TailInv
  BY DEF TailInit, TailInv, TailTypes, TailBeyond, NothingPassedOver, Positioned
<1>2. TailInv /\ [TailNext]_tailVars => TailInv'
  <2>1. ASSUME TailInv, UNCHANGED tailVars PROVE TailInv'
    BY <2>1 DEF TailInv, TailTypes, TailBeyond, NothingPassedOver, tailVars
  <2> QED BY <2>1, TailRead, TailWrite, TailRotate, TailRestart DEF TailNext
<1>3. TailInv => NothingPassedOver
  BY DEF TailInv
<1> QED BY <1>1, <1>2, <1>3, PTL DEF TailSpec

-----------------------------------------------------------------------------
(***************************************************************************)
(* AgentUpdate: each form of the agent replaces itself in its own way;     *)
(* what was verified is complete until it is moved.                        *)
(***************************************************************************)
UpdDisks == [FileNames -> {Partial, NoFile} \cup 1..UpdLast]
UpdTypes ==
    /\ updDisk \in UpdDisks /\ updServed \in 1..UpdLast
    /\ updCut \in BOOLEAN

\* Each form has its own way of replacing itself, and only a running agent does; a Rust
\* agent has its file for as long as it is at it.
UpdWays ==
    /\ updStep \in {"write", "rename"} => updForm \in Rust
    /\ updStep = "move" => updForm = "exe"
    /\ updSwapBat => updForm = "exe"
    /\ updStep # "idle" => updRun # NoFile
    /\ updStep # "idle" /\ updForm \in Rust => updDisk["own"] # NoFile

\* What was asked for is a release; what was verified is complete until it is moved, and
\* the Windows agent puts nothing else aside.
UpdSound ==
    /\ updStep \in {"download", "verify"} => Complete(updWant)
    /\ updStep \in {"replace", "move", "write"} => Complete(updDisk["tmp"])
    /\ updStep = "rename" => Complete(updDisk["new"])
    /\ updForm = "exe" => updDisk["new"] = NoFile \/ Complete(updDisk["new"])

UpdInv == UpdTypes /\ UpdWays /\ UpdSound /\ NeverWithoutACopy

\* Releases are numbers above those that stand for no release.
LEMMA ReleasesAreNumbers == NoFile \notin 1..UpdLast /\ Partial \notin 1..UpdLast /\ 1 \in 1..UpdLast
BY UpdAssumption DEF NoFile, Partial

\* Downloads touch no file but the temporary one, and only a complete file is verified.
LEMMA DownloadsAreSound ==
    ASSUME UpdInv, CheckVersion \/ Download \/ Verify \/ FailSwap
    PROVE  UpdInv'
<1>. USE ReleasesAreNumbers DEF UpdDisks, FileNames, UpdTypes, UpdWays, UpdSound, NeverWithoutACopy, Promoted
<1>1. UpdTypes /\ UpdWays /\ UpdSound /\ NeverWithoutACopy
  BY DEF UpdInv
<1>2. CASE CheckVersion
  <2>1. /\ UNCHANGED <<updForm, updServed, updDisk, updRun, updSwapBat, updCut>>
        /\ updStep = "idle" /\ updStep' = "download" /\ updWant' = updServed
        /\ updRun # NoFile /\ (updForm \in Rust => updDisk["own"] # NoFile)
    BY <1>2 DEF CheckVersion, RemoteHash
  <2>. QED BY <1>1, <2>1 DEF UpdInv, Complete
<1>3. CASE Download
  <2>1. /\ UNCHANGED <<updForm, updServed, updRun, updWant, updSwapBat, updCut>>
        /\ updStep' = "verify" /\ updStep = "download"
        /\ \E f \in {Partial} \cup 1..UpdLast : updDisk' = [updDisk EXCEPT !["tmp"] = f]
    BY <1>1, <1>3 DEF Download
  <2>2. updDisk' \in UpdDisks /\ \A f \in {"own", "old", "new"} : updDisk'[f] = updDisk[f]
    BY <1>1, <2>1
  <2>. QED BY <1>1, <2>1, <2>2 DEF UpdInv
<1>4. ASSUME GiveUp, updForm' = updForm, updCut' \in BOOLEAN, updCut => updCut', updStep = "move" => updCut',
             updStep # "idle"
      PROVE  UpdInv'
  <2>1. /\ UNCHANGED <<updServed, updRun, updWant, updSwapBat>> /\ updStep' = "idle"
        /\ updDisk' = [updDisk EXCEPT !["tmp"] = NoFile]
    BY <1>4 DEF GiveUp
  <2>2. updDisk' \in UpdDisks /\ \A f \in {"own", "old", "new"} : updDisk'[f] = updDisk[f]
    BY <1>1, <2>1
  <2>. QED BY <1>1, <1>4, <2>1, <2>2 DEF UpdInv
<1>5. CASE Verify /\ Verified
  <2>1. /\ UNCHANGED <<updForm, updServed, updDisk, updRun, updWant, updSwapBat, updCut>>
        /\ updStep' = "replace" /\ updStep = "verify" /\ updDisk["tmp"] = updWant
    BY <1>5 DEF Verify, Verified
  <2>. QED BY <1>1, <2>1 DEF UpdInv
<1>6. CASE Verify /\ ~Verified
  <2>1. GiveUp /\ updForm' = updForm /\ updCut' = updCut /\ updStep = "verify"
    BY <1>6 DEF Verify, GiveUp
  <2>. QED BY <1>1, <1>4, <2>1
<1>7. CASE FailSwap
  <2>1. GiveUp /\ updForm' = updForm /\ updCut' = (updCut \/ updStep = "move") /\ updStep \in {"replace", "move"}
    BY <1>7, Zenon DEF FailSwap, GiveUp
  <2>2. updCut' \in BOOLEAN /\ (updCut => updCut') /\ (updStep = "move" => updCut')
    BY <2>1, Zenon
  <2>. QED BY <1>4, <2>1, <2>2
<1>. QED BY <1>2, <1>3, <1>5, <1>6, <1>7

\* A swap has a complete file ready before it takes one away.
LEMMA SwapsAreSound ==
    ASSUME UpdInv, ReplaceAndExec \/ RenameOwn \/ MoveNew \/ DeferSwap
    PROVE  UpdInv'
<1>. USE ReleasesAreNumbers DEF UpdDisks, FileNames, UpdTypes, UpdWays, UpdSound, NeverWithoutACopy, Promoted
<1>1. UpdTypes /\ UpdWays /\ UpdSound /\ NeverWithoutACopy
  BY DEF UpdInv
<1>2. CASE ReplaceAndExec
  <2>1. /\ UNCHANGED <<updForm, updServed, updSwapBat, updCut>>
        /\ updStep' = "idle" /\ updStep = "replace" /\ updForm = "script"
        /\ updDisk' = [updDisk EXCEPT !["own"] = updDisk["tmp"], !["tmp"] = NoFile]
    BY <1>2 DEF ReplaceAndExec
  <2>2. updDisk' \in UpdDisks /\ updDisk'["own"] = updDisk["tmp"]
    BY <1>1, <2>1
  <2>. QED BY <1>1, <2>1, <2>2 DEF UpdInv, Complete
<1>3. CASE RenameOwn
  <2>1. /\ UNCHANGED <<updForm, updServed, updRun, updSwapBat, updCut>>
        /\ updStep' = "move" /\ updStep = "replace" /\ updForm = "exe"
        /\ updDisk["own"] # NoFile
        /\ updDisk' = [WithoutOld EXCEPT !["old"] = updDisk["own"], !["own"] = NoFile]
    BY <1>3 DEF RenameOwn
  <2>2. WithoutOld \in UpdDisks /\ \A f \in {"new", "tmp"} : WithoutOld[f] = updDisk[f]
    BY <1>1 DEF WithoutOld
  <2>3. /\ updDisk' \in UpdDisks /\ updDisk'["own"] = NoFile
        /\ updDisk'["new"] = updDisk["new"] /\ updDisk'["tmp"] = updDisk["tmp"]
    BY <1>1, <2>1, <2>2
  <2>. QED BY <1>1, <2>1, <2>3 DEF UpdInv, Complete, Rust
<1>4. CASE MoveNew
  <2>1. /\ UNCHANGED <<updForm, updServed, updSwapBat, updCut>> /\ updStep' = "idle" /\ updStep = "move"
        /\ updDisk' = [updDisk EXCEPT !["own"] = updDisk["tmp"], !["tmp"] = NoFile]
    BY <1>4 DEF MoveNew
  <2>2. updDisk' \in UpdDisks /\ updDisk'["own"] = updDisk["tmp"] /\ updDisk'["new"] = updDisk["new"]
    BY <1>1, <2>1
  <2>. QED BY <1>1, <2>1, <2>2 DEF UpdInv
<1>5. CASE DeferSwap
  <2>1. /\ UNCHANGED <<updForm, updServed, updCut>> /\ updSwapBat'
        /\ updStep' = "idle" /\ updStep \in {"replace", "move"} /\ updForm = "exe"
        /\ updDisk' = [updDisk EXCEPT !["new"] = updDisk["tmp"], !["tmp"] = NoFile]
    BY <1>5 DEF DeferSwap
  <2>2. updDisk' \in UpdDisks /\ updDisk'["new"] = updDisk["tmp"] /\ updDisk'["own"] = updDisk["own"]
    BY <1>1, <2>1
  <2>. QED BY <1>1, <2>1, <2>2 DEF UpdInv, Rust
<1>. QED BY <1>2, <1>3, <1>4, <1>5

\* A staged update is complete before the running agent takes it.
LEMMA StagedAreSound ==
    ASSUME UpdInv, WriteStaged \/ FinishStaged \/ RenameStaged \/ SwapStaged \/ RunWrapper
    PROVE  UpdInv'
<1>. USE ReleasesAreNumbers DEF UpdDisks, FileNames, UpdTypes, UpdWays, UpdSound, NeverWithoutACopy, Promoted, Rust
<1>1. UpdTypes /\ UpdWays /\ UpdSound /\ NeverWithoutACopy
  BY DEF UpdInv
<1>2. CASE WriteStaged
  <2>1. /\ UNCHANGED <<updForm, updServed, updRun, updSwapBat, updCut>>
        /\ updStep' = "write" /\ updStep = "replace" /\ updForm \in Rust
        /\ updDisk' = [updDisk EXCEPT !["new"] = Partial]
    BY <1>2 DEF WriteStaged
  <2>2. updDisk' \in UpdDisks /\ updDisk'["own"] = updDisk["own"] /\ updDisk'["tmp"] = updDisk["tmp"]
    BY <1>1, <2>1
  <2>. QED BY <1>1, <2>1, <2>2 DEF UpdInv
<1>3. CASE FinishStaged
  <2>1. /\ UNCHANGED <<updForm, updServed, updRun, updSwapBat, updCut>> /\ updStep = "write"
        /\ \/ updStep' = "rename" /\ updDisk' = [updDisk EXCEPT !["new"] = updDisk["tmp"], !["tmp"] = NoFile]
           \/ updStep' = "idle" /\ updDisk' = [updDisk EXCEPT !["tmp"] = NoFile]
    BY <1>3 DEF FinishStaged
  <2>2. /\ updDisk' \in UpdDisks /\ updDisk'["own"] = updDisk["own"]
        /\ updStep' = "rename" => updDisk'["new"] = updDisk["tmp"]
    BY <1>1, <2>1
  <2>. QED BY <1>1, <2>1, <2>2 DEF UpdInv
<1>4. CASE RenameStaged
  <2>1. /\ UNCHANGED <<updForm, updServed, updSwapBat, updCut>>
        /\ updStep = "rename" /\ updStep' = "idle" /\ updForm = "native"
        /\ updDisk' = [updDisk EXCEPT !["own"] = updDisk["new"], !["new"] = NoFile]
    BY <1>4 DEF RenameStaged
  <2>2. updDisk' \in UpdDisks /\ updDisk'["own"] = updDisk["new"]
    BY <1>1, <2>1
  <2>. QED BY <1>1, <2>1, <2>2 DEF UpdInv
<1>5. CASE SwapStaged
  <2>1. /\ UNCHANGED <<updForm, updServed, updSwapBat, updCut>>
        /\ updStep = "rename" /\ updStep' = "idle" /\ updForm = "wrapped"
    BY <1>5 DEF SwapStaged
  <2>2. \/ updDisk' = [updDisk EXCEPT !["old"] = updDisk["own"], !["own"] = updDisk["new"], !["new"] = NoFile]
        \/ updDisk' = updDisk
        \/ updDisk' = [updDisk EXCEPT !["old"] = updDisk["own"], !["own"] = NoFile]
    BY <1>5 DEF SwapStaged
  <2>3. /\ updDisk' \in UpdDisks
        /\ \/ updDisk'["own"] = updDisk["new"]
           \/ updDisk'["own"] \in {updDisk["own"], NoFile} /\ updDisk'["new"] = updDisk["new"]
    BY <1>1, <2>2
  <2>. QED BY <1>1, <2>1, <2>3 DEF UpdInv
<1>6. CASE RunWrapper
  <2>1. UNCHANGED <<updForm, updServed, updStep, updWant, updSwapBat>> /\ updForm = "wrapped" /\ updRun = NoFile
    BY <1>6 DEF RunWrapper
  <2>2. AppliedStaged \in UpdDisks
    BY <1>1 DEF AppliedStaged
  <2>3. \E old \in {NoFile, AppliedStaged["old"]} : updDisk' = [AppliedStaged EXCEPT !["old"] = old]
    BY <1>6 DEF RunWrapper
  <2>4. updDisk' \in UpdDisks /\ updDisk'["own"] = AppliedStaged["own"]
    BY <2>2, <2>3
  <2>5. updCut' \in BOOLEAN /\ (updCut' \/ Complete(AppliedStaged["own"]))
    BY <1>6, Zenon DEF RunWrapper
  <2>6. updStep' = "idle"
    BY <1>1, <2>1
  <2>. QED BY <1>1, <2>1, <2>4, <2>5, <2>6 DEF UpdInv
<1>. QED BY <1>2, <1>3, <1>4, <1>5, <1>6

\* A start, a crash and the batch file that swaps find a copy and leave one.
LEMMA StartsAreSound ==
    ASSUME UpdInv, RunSwapBat \/ StartAgent \/ Publish \/ CrashAgent
    PROVE  UpdInv'
<1>. USE ReleasesAreNumbers DEF UpdDisks, FileNames, UpdTypes, UpdWays, UpdSound, NeverWithoutACopy, Promoted, Rust
<1>1. UpdTypes /\ UpdWays /\ UpdSound /\ NeverWithoutACopy
  BY DEF UpdInv
<1>2. CASE RunSwapBat
  <2>1. /\ UNCHANGED <<updForm, updServed, updRun, updWant, updStep, updCut>> /\ ~updSwapBat' /\ updForm = "exe"
        /\ updDisk' = IF updDisk["new"] = NoFile THEN updDisk
                      ELSE [updDisk EXCEPT !["own"] = updDisk["new"], !["new"] = NoFile]
    BY <1>1, <1>2 DEF RunSwapBat
  <2>2. updDisk' \in UpdDisks /\ updDisk'["tmp"] = updDisk["tmp"]
    BY <1>1, <2>1
  <2>3. \/ updDisk["new"] = NoFile /\ updDisk'["own"] = updDisk["own"] /\ updDisk'["new"] = NoFile
        \/ updDisk["new"] # NoFile /\ updDisk'["own"] = updDisk["new"] /\ updDisk'["new"] = NoFile
    BY <1>1, <2>1
  <2>. QED BY <1>1, <2>1, <2>2, <2>3 DEF UpdInv, Complete
<1>3. CASE StartAgent
  <2>1. /\ UNCHANGED <<updForm, updServed, updWant, updStep, updSwapBat, updCut>> /\ Complete(updDisk["own"])
        /\ updRun = NoFile
        /\ updDisk' = [f \in FileNames |-> IF f \in Leftovers(updForm) THEN NoFile ELSE updDisk[f]]
    BY <1>3 DEF StartAgent, Runs
  <2>2. /\ updDisk' \in UpdDisks /\ updDisk'["own"] = updDisk["own"]
        /\ updForm = "exe" => updDisk'["new"] = NoFile
    BY <1>1, <2>1 DEF Leftovers
  <2>3. updStep' = "idle"
    BY <1>1, <2>1
  <2>. QED BY <1>1, <2>1, <2>2, <2>3 DEF UpdInv
<1>4. CASE Publish
  <2>1. UNCHANGED <<updForm, updDisk, updRun, updWant, updStep, updSwapBat, updCut>> /\ updServed' \in 1..UpdLast
    BY <1>1, <1>4, UpdAssumption DEF Publish
  <2>. QED BY <1>1, <2>1 DEF UpdInv
<1>5. CASE CrashAgent
  <2>1. /\ UNCHANGED <<updForm, updServed>> /\ updStep' = "idle" /\ ~updSwapBat'
        /\ updDisk' \in {updDisk, [updDisk EXCEPT !["tmp"] = NoFile]}
    BY <1>5 DEF CrashAgent
  <2>2. updDisk' \in UpdDisks /\ \A f \in {"own", "old", "new"} : updDisk'[f] = updDisk[f]
    BY <1>1, <2>1
  <2>3. updCut' \in BOOLEAN /\ (updCut => updCut') /\ (updForm = "exe" /\ updDisk["own"] = NoFile => updCut')
    BY <1>5, Zenon DEF CrashAgent
  <2>. QED BY <1>1, <2>1, <2>2, <2>3 DEF UpdInv
<1>. QED BY <1>2, <1>3, <1>4, <1>5

\* For any number of releases and all four packagings: the agent's name never gets an
\* incomplete file, and there is always a complete one that something starts, except where a
\* swap was cut off (the update functions of the agents, the wrapper).
THEOREM CopiesSurvive == UpdSpec => []NeverWithoutACopy
<1>1. ASSUME UpdInit PROVE UpdInv
  <2>1. /\ updDisk = [f \in FileNames |-> IF f = "own" THEN 1 ELSE NoFile] /\ updServed = 1
        /\ updStep = "idle" /\ updCut \in BOOLEAN
    BY <1>1 DEF UpdInit
  <2>2. ~updSwapBat
    BY <1>1 DEF UpdInit
  <2>3. updDisk \in UpdDisks /\ updDisk["own"] = 1 /\ updDisk["new"] = NoFile
    BY <2>1, ReleasesAreNumbers DEF UpdDisks, FileNames
  <2>. QED BY <2>1, <2>2, <2>3, ReleasesAreNumbers
       DEF UpdInv, UpdTypes, UpdWays, UpdSound, NeverWithoutACopy, Complete
<1>2. ASSUME UpdInv, [UpdNext]_updVars PROVE UpdInv'
  <2>1. ASSUME UNCHANGED updVars PROVE UpdInv'
    BY <1>2, <2>1 DEF updVars, UpdInv, UpdTypes, UpdWays, UpdSound, NeverWithoutACopy, Promoted
  <2>. QED BY <1>2, <2>1, DownloadsAreSound, SwapsAreSound, StagedAreSound, StartsAreSound DEF UpdNext, AgentUpdateStep
<1>3. UpdInv => NeverWithoutACopy
  BY DEF UpdInv
<1>. QED BY <1>1, <1>2, <1>3, PTL DEF UpdSpec

-----------------------------------------------------------------------------
(***************************************************************************)
(* ProbeAgent: a result is pending until an answer has been read. The      *)
(* agent waits for one handler at a time, which carries what is pending,   *)
(* so an answer takes away no more than was stored.                        *)
(***************************************************************************)
Found == [host : PagHosts, round : Nat]

Reports == [results : Seq(Found), heard : BOOLEAN, taken : BOOLEAN, step : {"store", "detail", "answer"}]

\* Handlers are records; what they carry and what waits are sequences of results.
PagTypes ==
    /\ pagTold \subseteq PagHosts /\ pagAssigned \subseteq PagHosts
    /\ pagPending \in Seq(Found) /\ pagRound \in Nat
    /\ pagHandlers \in Seq(Reports)

\* The agent waits for at most one handler, which carries what is pending.
PagHeard ==
    /\ \A i, j \in DOMAIN pagHandlers : pagHandlers[i].heard /\ pagHandlers[j].heard => i = j
    /\ \A i \in DOMAIN pagHandlers :
         pagHandlers[i].heard => pagStep = "wait" /\ pagHandlers[i].results = pagPending

\* The results of a handler that is past its insert are stored, unless it gave them up.
PagTaken ==
    \A i \in DOMAIN pagHandlers :
        pagHandlers[i].taken /\ pagHandlers[i].step # "store" => ToSet(pagHandlers[i].results) \subseteq pagRows

\* What waits is in the order of the rounds, up to the last; what was discarded is older.
PagSorted ==
    /\ \A i \in DOMAIN pagPending : pagPending[i].round <= pagRound
    /\ \A i, j \in DOMAIN pagPending : i <= j => pagPending[i].round <= pagPending[j].round
    /\ pagDropped \subseteq Found
    /\ \A r \in pagDropped : r.round <= pagRound /\ \A j \in DOMAIN pagPending : r.round <= pagPending[j].round

PagInv == PagTypes /\ PagHeard /\ PagTaken /\ PagSorted /\ NoResultVanishes

\* What SubSeq takes of a sequence.
LEMMA Slice ==
    ASSUME NEW S, NEW s \in Seq(S), NEW m \in Nat, NEW n \in Nat, m + n <= Len(s)
    PROVE  /\ SubSeq(s, m + 1, m + n) \in Seq(S)
           /\ Len(SubSeq(s, m + 1, m + n)) = n
           /\ \A j \in 1..n : SubSeq(s, m + 1, m + n)[j] = s[m + j]
<1>. DEFINE p == m + 1
            q == m + n
            sub == SubSeq(s, p, q)
<1>1. p \in Int /\ q \in Int /\ \A i \in p..q : s[i] \in S
  OBVIOUS
<1>2. q - p + 1 = n /\ (p <= q <=> n # 0) /\ \A j \in 1..n : p + j - 1 = m + j
  OBVIOUS
<1>3. /\ sub \in Seq(S) /\ Len(sub) = IF p <= q THEN q - p + 1 ELSE 0
      /\ \A j \in 1..(q - p + 1) : sub[j] = s[p + j - 1]
  <2>. HIDE DEF p, q
  <2>. QED BY <1>1, SubSeqProperties
<1>. HIDE DEF sub, p, q
<1>4. sub \in Seq(S) /\ Len(sub) = n /\ \A j \in 1..n : sub[j] = s[m + j]
  BY <1>2, <1>3
<1>. QED BY <1>4 DEF sub, p, q

\* What RemoveAt leaves of a sequence.
LEMMA Removed ==
    ASSUME NEW S, NEW s \in Seq(S), NEW i \in DOMAIN s
    PROVE  /\ RemoveAt(s, i) \in Seq(S)
           /\ Len(RemoveAt(s, i)) = Len(s) - 1
           /\ \A j \in 1..(Len(s) - 1) : RemoveAt(s, i)[j] = IF j < i THEN s[j] ELSE s[j + 1]
<1>1. Len(s) \in Nat /\ i \in 1..Len(s)
  OBVIOUS
<1>. DEFINE a == SubSeq(s, 1, i - 1)
            b == SubSeq(s, i + 1, Len(s))
<1>2. a \in Seq(S) /\ Len(a) = i - 1 /\ \A j \in 1..(i - 1) : a[j] = s[j]
  <2>1. i - 1 \in Nat /\ 0 \in Nat /\ 0 + (i - 1) <= Len(s) /\ 0 + 1 = 1 /\ 0 + (i - 1) = i - 1
    BY <1>1
  <2>2. /\ a \in Seq(S) /\ Len(a) = i - 1 /\ \A j \in 1..(i - 1) : a[j] = s[0 + j]
    BY <2>1, Slice
  <2>. QED BY <1>1, <2>2
<1>3. b \in Seq(S) /\ Len(b) = Len(s) - i /\ \A j \in 1..(Len(s) - i) : b[j] = s[i + j]
  <2>1. Len(s) - i \in Nat /\ i \in Nat /\ i + (Len(s) - i) <= Len(s) /\ i + (Len(s) - i) = Len(s)
    BY <1>1
  <2>2. b = SubSeq(s, i + 1, i + (Len(s) - i))
    BY <2>1
  <2>. HIDE DEF b
  <2>. QED BY <2>1, <2>2, Slice
<1>. HIDE DEF a, b
<1>4. /\ a \o b \in Seq(S) /\ Len(a \o b) = Len(a) + Len(b)
      /\ \A j \in 1..(Len(a) + Len(b)) : (a \o b)[j] = IF j <= Len(a) THEN a[j] ELSE b[j - Len(a)]
  BY <1>2, <1>3, ConcatProperties
<1>5. RemoveAt(s, i) = a \o b
  BY DEF RemoveAt, a, b
<1>6. ASSUME NEW j \in 1..(Len(s) - 1) PROVE (a \o b)[j] = IF j < i THEN s[j] ELSE s[j + 1]
  <2>1. CASE j < i
    <3>1. j \in 1..(Len(a) + Len(b)) /\ j <= Len(a) /\ j \in 1..(i - 1)
      BY <1>1, <1>2, <1>3, <2>1
    <3>2. (a \o b)[j] = a[j] /\ a[j] = s[j]
      BY <1>2, <1>4, <3>1
    <3>. QED BY <2>1, <3>2
  <2>2. CASE ~(j < i)
    <3>0. Len(a) + Len(b) = Len(s) - 1 /\ j \in 1..(Len(a) + Len(b)) /\ ~(j <= Len(a)) /\ j - Len(a) = j - (i - 1)
      BY <1>1, <1>2, <1>3, <2>2
    <3>1. (a \o b)[j] = b[j - (i - 1)] /\ j - (i - 1) \in 1..(Len(s) - i)
      BY <1>1, <1>4, <2>2, <3>0
    <3>2. b[j - (i - 1)] = s[i + (j - (i - 1))]
      BY <1>3, <3>1
    <3>. QED BY <1>1, <2>2, <3>1, <3>2
  <2>. QED BY <2>1, <2>2
<1>7. Len(a \o b) = Len(s) - 1
  BY <1>1, <1>2, <1>3, <1>4
<1>. QED BY <1>4, <1>5, <1>6, <1>7

\* A round of checks lengthens the buffer at its end and shortens it at its front.
LEMMA PushedInOrder ==
    ASSUME PagTypes, PagSorted, NEW results \in Seq(Found), \A i \in DOMAIN results : results[i].round = pagRound + 1
    PROVE  LET all == pagPending \o results
               gone == (ToSet(pagPending) \union ToSet(results)) \ ToSet(Pushed(results))
           IN  /\ Pushed(results) \in Seq(Found)
               /\ \A i \in DOMAIN Pushed(results) : Pushed(results)[i].round <= pagRound + 1
               /\ \A i, j \in DOMAIN Pushed(results) : i <= j => Pushed(results)[i].round <= Pushed(results)[j].round
               /\ \A r \in pagDropped, j \in DOMAIN Pushed(results) : r.round <= Pushed(results)[j].round
               /\ \A r \in gone : r \in Found /\ r.round <= pagRound + 1
               /\ \A r \in gone, j \in DOMAIN Pushed(results) : r.round <= Pushed(results)[j].round
<1>. DEFINE all == pagPending \o results
            cut == Len(all) - PagCap
            gone == (ToSet(pagPending) \union ToSet(results)) \ ToSet(Pushed(results))
<1>0. pagPending \in Seq(Found) /\ PagCap \in Nat /\ pagRound \in Nat
  BY PagAssumption DEF PagTypes
<1>. DEFINE n == Len(pagPending)
            m == Len(results)
<1>1. /\ all \in Seq(Found) /\ Len(all) = n + m
      /\ \A i \in 1..(n + m) : all[i] = IF i <= n THEN pagPending[i] ELSE results[i - n]
  BY <1>0, ConcatProperties
<1>2. n \in Nat /\ m \in Nat /\ DOMAIN pagPending = 1..n /\ DOMAIN results = 1..m /\ DOMAIN all = 1..(n + m)
  BY <1>0, <1>1
<1>. HIDE DEF n, m, all
<1>3. ASSUME NEW i \in DOMAIN all PROVE all[i] \in Found /\ all[i].round \in Nat /\ all[i].round <= pagRound + 1
  <2>1. CASE i <= n
    <3>1. i \in DOMAIN pagPending /\ all[i] = pagPending[i]
      BY <1>1, <1>2, <2>1
    <3>2. pagPending[i] \in Found /\ pagPending[i].round <= pagRound
      BY <1>0, <3>1 DEF PagSorted
    <3>3. pagPending[i].round \in Nat
      BY <3>2 DEF Found
    <3>. QED BY <1>0, <3>1, <3>2, <3>3
  <2>2. CASE i > n
    <3>1. i - n \in DOMAIN results /\ all[i] = results[i - n]
      BY <1>1, <1>2, <2>2
    <3>2. results[i - n] \in Found
      BY <3>1
    <3>. QED BY <1>0, <3>1, <3>2
  <2>. QED BY <1>2, <2>1, <2>2
<1>4. ASSUME NEW i \in DOMAIN all, i > n PROVE all[i].round = pagRound + 1
  BY <1>1, <1>2, <1>4
<1>5. \A i, j \in DOMAIN all : i <= j => all[i].round <= all[j].round
  <2>. TAKE i, j \in DOMAIN all
  <2>. HAVE i <= j
  <2>1. CASE j > n
    BY <1>3, <1>4, <2>1
  <2>2. CASE j <= n
    <3>1. i \in DOMAIN pagPending /\ j \in DOMAIN pagPending /\ all[i] = pagPending[i] /\ all[j] = pagPending[j]
      BY <1>1, <1>2, <2>2
    <3>. QED BY <3>1 DEF PagSorted
  <2>. QED BY <1>2, <2>1, <2>2
<1>6. \A r \in pagDropped, j \in DOMAIN all : r.round <= all[j].round
  <2>. TAKE r \in pagDropped, j \in DOMAIN all
  <2>1. CASE j > n
    BY <1>0, <1>4, <2>1 DEF PagSorted, Found
  <2>2. CASE j <= n
    BY <1>1, <1>2, <2>2 DEF PagSorted
  <2>. QED BY <1>2, <2>1, <2>2
<1>7. ToSet(pagPending) \union ToSet(results) \subseteq ToSet(all)
  <2>1. \A i \in DOMAIN pagPending : i \in DOMAIN all /\ all[i] = pagPending[i]
    BY <1>1, <1>2
  <2>2. \A i \in DOMAIN results : n + i \in DOMAIN all /\ all[n + i] = results[i]
    BY <1>1, <1>2
  <2>. QED BY <2>1, <2>2 DEF ToSet
<1>8. CASE Len(all) > PagCap
  <2>1. Pushed(results) = SubSeq(all, cut + 1, Len(all))
    BY <1>8 DEF Pushed, all
  <2>2. cut \in Nat /\ cut + PagCap = Len(all)
    BY <1>0, <1>1, <1>2, <1>8
  <2>3. /\ Pushed(results) \in Seq(Found) /\ Len(Pushed(results)) = PagCap
        /\ \A j \in 1..PagCap : Pushed(results)[j] = all[cut + j]
    <3>1. \A i \in (cut + 1)..Len(all) : all[i] \in Found
      BY <1>1, <1>2, <1>3, <2>2
    <3>2. /\ Pushed(results) \in Seq(Found)
          /\ Len(Pushed(results)) = IF cut + 1 <= Len(all) THEN Len(all) - (cut + 1) + 1 ELSE 0
          /\ \A j \in 1..(Len(all) - (cut + 1) + 1) : Pushed(results)[j] = all[cut + 1 + j - 1]
      BY <1>1, <1>2, <2>1, <2>2, <3>1, SubSeqProperties
    <3>. HIDE DEF cut
    <3>. QED BY <1>0, <1>1, <1>2, <2>2, <3>2
  <2>. HIDE DEF cut
  <2>4. DOMAIN Pushed(results) = 1..PagCap /\ \A j \in 1..PagCap : cut + j \in DOMAIN all /\ Pushed(results)[j] = all[cut + j]
    <3>1. DOMAIN Pushed(results) = 1..PagCap
      BY <2>3
    <3>2. \A j \in 1..PagCap : cut + j \in DOMAIN all
      BY <1>0, <1>1, <1>2, <2>2
    <3>. QED BY <2>3, <3>1, <3>2
  <2>5. \A r \in gone : \E i \in DOMAIN all : i <= cut /\ r = all[i]
    <3>1. ASSUME NEW i \in DOMAIN all, ~(i <= cut) PROVE all[i] \in ToSet(Pushed(results))
      <4>1. i - cut \in 1..PagCap /\ cut + (i - cut) = i
        BY <1>0, <1>1, <1>2, <2>2, <3>1
      <4>. QED BY <2>4, <4>1 DEF ToSet
    <3>2. \A r \in gone : \E i \in DOMAIN all : r = all[i]
      BY <1>7 DEF ToSet
    <3>3. \A r \in gone : r \notin ToSet(Pushed(results))
      OBVIOUS
    <3>. QED BY <3>1, <3>2, <3>3
  <2>6. \A r \in gone : r \in Found /\ r.round <= pagRound + 1
    BY <1>3, <2>5
  <2>7. \A r \in gone, j \in DOMAIN Pushed(results) : r.round <= Pushed(results)[j].round
    <3>. TAKE r \in gone, j \in DOMAIN Pushed(results)
    <3>1. PICK i \in DOMAIN all : i <= cut /\ r = all[i]
      BY <2>5
    <3>2. cut + j \in DOMAIN all /\ Pushed(results)[j] = all[cut + j] /\ i <= cut + j
      BY <1>0, <1>2, <2>2, <2>4, <3>1
    <3>. QED BY <1>5, <3>1, <3>2
  <2>8. \A i, j \in DOMAIN Pushed(results) : i <= j => Pushed(results)[i].round <= Pushed(results)[j].round
    BY <1>0, <1>5, <2>2, <2>4
  <2>9. \A i \in DOMAIN Pushed(results) : Pushed(results)[i].round <= pagRound + 1
    BY <1>3, <2>4
  <2>10. \A r \in pagDropped, j \in DOMAIN Pushed(results) : r.round <= Pushed(results)[j].round
    BY <1>6, <2>4
  <2>. HIDE DEF gone
  <2>. QED BY <2>3, <2>6, <2>7, <2>8, <2>9, <2>10 DEF gone
<1>9. CASE ~(Len(all) > PagCap)
  <2>1. Pushed(results) = all
    BY <1>9 DEF Pushed, all
  <2>2. gone = {}
    BY <1>7, <2>1
  <2>. QED BY <1>1, <1>3, <1>5, <1>6, <2>1, <2>2
<1>. QED BY <1>8, <1>9

\* A handler that has ended leaves the others in their order.
LEMMA HandlerRemoved ==
    ASSUME PagInv, NEW i \in DOMAIN pagHandlers, pagHandlers' = RemoveAt(pagHandlers, i), pagRows' = pagRows
    PROVE  /\ pagHandlers' \in Seq(Reports)
           /\ \A j \in DOMAIN pagHandlers' :
                \E k \in DOMAIN pagHandlers : k # i /\ pagHandlers'[j] = pagHandlers[k]
           /\ \A j, k \in DOMAIN pagHandlers' : pagHandlers'[j].heard /\ pagHandlers'[k].heard => j = k
           /\ PagTaken'
<1>1. pagHandlers \in Seq(Reports) /\ Len(pagHandlers) \in Nat /\ i \in 1..Len(pagHandlers)
  BY DEF PagInv, PagTypes
<1>2. /\ pagHandlers' \in Seq(Reports) /\ DOMAIN pagHandlers' = 1..(Len(pagHandlers) - 1)
      /\ \A j \in 1..(Len(pagHandlers) - 1) :
           pagHandlers'[j] = IF j < i THEN pagHandlers[j] ELSE pagHandlers[j + 1]
  BY <1>1, Removed
<1>. DEFINE Was(j) == IF j < i THEN j ELSE j + 1
<1>3. \A j \in DOMAIN pagHandlers' : Was(j) \in DOMAIN pagHandlers /\ Was(j) # i /\ pagHandlers'[j] = pagHandlers[Was(j)]
  BY <1>1, <1>2
<1>4. \A j, k \in DOMAIN pagHandlers' : Was(j) = Was(k) => j = k
  BY <1>1, <1>2
<1>. HIDE DEF Was
<1>5. \A j, k \in DOMAIN pagHandlers' : pagHandlers'[j].heard /\ pagHandlers'[k].heard => j = k
  BY <1>3, <1>4 DEF PagInv, PagHeard
<1>6. PagTaken'
  BY <1>3 DEF PagInv, PagTaken
<1>. QED BY <1>2, <1>3, <1>5, <1>6

\* A report that is sent carries what is pending, and is the only one waited for.
LEMMA SentInv == ASSUME PagInv, SendReport PROVE PagInv'
<1>. DEFINE new == [results |-> pagPending, heard |-> TRUE, taken |-> TRUE, step |-> "store"]
<1>1. pagHandlers \in Seq(Reports) /\ new \in Reports
  BY DEF PagInv, PagTypes, Reports
<1>. HIDE DEF new
<1>2. /\ pagHandlers' \in Seq(Reports) /\ DOMAIN pagHandlers' = DOMAIN pagHandlers \cup {Len(pagHandlers) + 1}
      /\ \A j \in DOMAIN pagHandlers : pagHandlers'[j] = pagHandlers[j]
      /\ pagHandlers'[Len(pagHandlers) + 1] = new
  BY <1>1 DEF SendReport, new
<1>3. /\ pagStep' = "wait" /\ pagStep = "report" /\ pagPending' = pagPending
      /\ UNCHANGED <<pagAssigned, pagTold, pagRound, pagRows, pagMade, pagDropped, pagGone>>
  BY DEF SendReport
<1>4. \A j \in DOMAIN pagHandlers : ~pagHandlers[j].heard
  BY <1>3 DEF PagInv, PagHeard
<1>5. new.results = pagPending /\ new.step = "store"
  BY DEF new
<1>6. PagTypes'
  BY <1>2, <1>3 DEF PagInv, PagTypes
<1>7. PagHeard'
  BY <1>2, <1>3, <1>4, <1>5 DEF PagHeard
<1>8. PagTaken'
  BY <1>2, <1>3, <1>5 DEF PagInv, PagTaken
<1>9. PagSorted' /\ NoResultVanishes'
  BY <1>3 DEF PagInv, PagSorted, NoResultVanishes
<1>. QED BY <1>6, <1>7, <1>8, <1>9 DEF PagInv

\* A report that fails is not waited for any more, whatever its handler does.
LEMMA FailedInv == ASSUME PagInv, ReportFails PROVE PagInv'
<1>1. /\ pagPending' = pagPending
      /\ UNCHANGED <<pagAssigned, pagTold, pagRound, pagRows, pagMade, pagDropped, pagGone>>
  BY DEF ReportFails
<1>2. PICK i \in DOMAIN pagHandlers :
         /\ pagHandlers[i].heard
         /\ \/ pagHandlers' = [pagHandlers EXCEPT ![i].heard = FALSE]
            \/ pagHandlers' = RemoveAt(pagHandlers, i)
  BY DEF ReportFails
<1>3. \A j \in DOMAIN pagHandlers : pagHandlers[j].heard => j = i
  BY <1>2 DEF PagInv, PagHeard
<1>4. PagSorted' /\ NoResultVanishes'
  BY <1>1 DEF PagInv, PagSorted, NoResultVanishes
<1>5. CASE pagHandlers' = [pagHandlers EXCEPT ![i].heard = FALSE]
  <2>1. pagHandlers \in Seq(Reports) /\ pagHandlers[i] \in Reports
    BY DEF PagInv, PagTypes
  <2>2. [pagHandlers[i] EXCEPT !.heard = FALSE] \in Reports
    BY <2>1 DEF Reports
  <2>3. pagHandlers' \in Seq(Reports) /\ DOMAIN pagHandlers' = DOMAIN pagHandlers
    BY <1>5, <2>1, <2>2
  <2>4. /\ \A j \in DOMAIN pagHandlers : j # i => pagHandlers'[j] = pagHandlers[j]
        /\ pagHandlers'[i] = [pagHandlers[i] EXCEPT !.heard = FALSE]
    BY <1>5, <2>1
  <2>5. /\ pagHandlers'[i].results = pagHandlers[i].results /\ ~pagHandlers'[i].heard
        /\ pagHandlers'[i].taken = pagHandlers[i].taken /\ pagHandlers'[i].step = pagHandlers[i].step
    BY <2>1, <2>4 DEF Reports
  <2>6. PagHeard'
    BY <1>3, <2>3, <2>4, <2>5 DEF PagHeard
  <2>7. PagTaken'
    <3>1. ASSUME NEW j \in DOMAIN pagHandlers
          PROVE  /\ pagHandlers'[j].results = pagHandlers[j].results
                 /\ pagHandlers'[j].taken = pagHandlers[j].taken /\ pagHandlers'[j].step = pagHandlers[j].step
      BY <2>4, <2>5
    <3>. QED BY <1>1, <2>3, <3>1 DEF PagInv, PagTaken
  <2>8. PagTypes'
    BY <1>1, <2>3 DEF PagInv, PagTypes
  <2>. QED BY <1>4, <2>6, <2>7, <2>8 DEF PagInv
<1>6. CASE pagHandlers' = RemoveAt(pagHandlers, i)
  <2>1. /\ pagHandlers' \in Seq(Reports)
        /\ \A j \in DOMAIN pagHandlers' : \E k \in DOMAIN pagHandlers : k # i /\ pagHandlers'[j] = pagHandlers[k]
        /\ PagTaken'
    BY <1>1, <1>6, HandlerRemoved
  <2>2. PagHeard'
    BY <1>3, <2>1 DEF PagHeard
  <2>3. PagTypes'
    BY <1>1, <2>1 DEF PagInv, PagTypes
  <2>. QED BY <1>4, <2>1, <2>2, <2>3 DEF PagInv
<1>. QED BY <1>2, <1>5, <1>6

\* A round of checks keeps what it made, or discards the oldest of it.
LEMMA CheckedInv == ASSUME PagInv, RunChecks PROVE PagInv'
<1>. DEFINE told == PagOrder[pagTold]
            results == [i \in DOMAIN told |-> CheckResult(told[i])]
            gone == (ToSet(pagPending) \union ToSet(results)) \ ToSet(Pushed(results))
<1>1. /\ pagStep = "check" /\ pagStep' = "report" /\ pagRound' = pagRound + 1
      /\ pagPending' = Pushed(results) /\ pagMade' = pagMade \union ToSet(results)
      /\ pagDropped' = pagDropped \union gone
      /\ UNCHANGED <<pagHandlers, pagAssigned, pagTold, pagRows, pagGone>>
  BY DEF RunChecks, pagServer
<1>2. told \in Seq(PagHosts) /\ pagRound \in Nat /\ PagTypes /\ PagSorted
  BY PagAssumption DEF PagInv, PagTypes
<1>3. results \in Seq(Found) /\ \A i \in DOMAIN results : results[i].round = pagRound + 1
  <2>1. \A i \in DOMAIN told : CheckResult(told[i]) \in Found /\ CheckResult(told[i]).round = pagRound + 1
    BY <1>2 DEF CheckResult, Found
  <2>2. DOMAIN told = 1..Len(told) /\ Len(told) \in Nat
    BY <1>2
  <2>. HIDE DEF told
  <2>. QED BY <2>1, <2>2
<1>. HIDE DEF results
<1>4. /\ Pushed(results) \in Seq(Found)
      /\ \A i \in DOMAIN Pushed(results) : Pushed(results)[i].round <= pagRound + 1
      /\ \A i, j \in DOMAIN Pushed(results) : i <= j => Pushed(results)[i].round <= Pushed(results)[j].round
      /\ \A r \in pagDropped, j \in DOMAIN Pushed(results) : r.round <= Pushed(results)[j].round
      /\ \A r \in gone : r \in Found /\ r.round <= pagRound + 1
      /\ \A r \in gone, j \in DOMAIN Pushed(results) : r.round <= Pushed(results)[j].round
  BY <1>2, <1>3, PushedInOrder
<1>5. PagTypes'
  BY <1>1, <1>2, <1>4 DEF PagTypes
<1>6. \A i \in DOMAIN pagHandlers : ~pagHandlers[i].heard
  BY <1>1 DEF PagInv, PagHeard
<1>7. PagHeard' /\ PagTaken'
  BY <1>1, <1>6 DEF PagInv, PagHeard, PagTaken
<1>8. PagSorted'
  <2>1. \A r \in pagDropped : r \in Found /\ r.round <= pagRound + 1
    BY <1>2 DEF PagSorted, Found
  <2>. HIDE DEF gone
  <2>. QED BY <1>1, <1>4, <2>1 DEF PagSorted
<1>9. NoResultVanishes'
  <2>1. ASSUME NEW r \in pagMade' PROVE r \in pagRows' \union ToSet(pagPending') \union pagDropped' \union pagGone'
    BY <1>1, <2>1 DEF PagInv, NoResultVanishes
  <2>2. \A r \in pagDropped', q \in ToSet(pagPending') : r.round <= q.round
    BY <1>8 DEF PagSorted, ToSet
  <2>. QED BY <2>1, <2>2 DEF NoResultVanishes
<1>. QED BY <1>5, <1>7, <1>8, <1>9 DEF PagInv

\* A lost process takes with it what was pending.
LEMMA RestartedInv == ASSUME PagInv, RestartProbeAgent PROVE PagInv'
<1>1. /\ pagGone' = pagGone \union ToSet(pagPending)
      /\ pagPending' = <<>> /\ pagTold' = {}
      /\ pagHandlers' = [i \in DOMAIN pagHandlers |-> [pagHandlers[i] EXCEPT !.heard = FALSE]]
      /\ UNCHANGED <<pagAssigned, pagRows, pagRound, pagMade, pagDropped>>
  BY DEF RestartProbeAgent
<1>2. pagHandlers \in Seq(Reports)
  BY DEF PagInv, PagTypes
<1>3. \A i \in DOMAIN pagHandlers :
         LET h == [pagHandlers[i] EXCEPT !.heard = FALSE]
         IN  /\ h \in Reports /\ ~h.heard
             /\ h.results = pagHandlers[i].results /\ h.taken = pagHandlers[i].taken /\ h.step = pagHandlers[i].step
  <2>. TAKE i \in DOMAIN pagHandlers
  <2>1. pagHandlers[i] \in Reports
    BY <1>2
  <2>. QED BY <2>1 DEF Reports
<1>4. pagHandlers' \in Seq(Reports) /\ DOMAIN pagHandlers' = DOMAIN pagHandlers
  BY <1>1, <1>2, <1>3
<1>5. PagTypes'
  BY <1>1, <1>4 DEF PagInv, PagTypes
<1>6. PagHeard' /\ PagTaken'
  BY <1>1, <1>3, <1>4 DEF PagInv, PagHeard, PagTaken
<1>7. PagSorted'
  BY <1>1 DEF PagInv, PagSorted
<1>8. NoResultVanishes'
  BY <1>1 DEF PagInv, NoResultVanishes, ToSet
<1>. QED BY <1>5, <1>6, <1>7, <1>8 DEF PagInv

\* A handler goes on with what it carries; a report is past its insert only when it
\* has stored it, or given it up.
LEMMA HandledInv ==
    ASSUME PagInv, NEW i \in DOMAIN pagHandlers, StoreResults(i) \/ StoreDetails(i)
    PROVE  PagInv'
<1>1. UNCHANGED <<pagStep, pagTold, pagPending, pagRound, pagMade, pagDropped, pagAssigned, pagGone>>
  BY DEF StoreResults, StoreDetails, pagAgent
<1>2. pagHandlers \in Seq(Reports) /\ pagHandlers[i] \in Reports
  BY DEF PagInv, PagTypes
<1>3. \/ /\ pagRows' = pagRows \union ToSet(pagHandlers[i].results)
         /\ pagHandlers' = [pagHandlers EXCEPT ![i].step = "detail"]
      \/ /\ pagHandlers' = [pagHandlers EXCEPT ![i].step = "answer", ![i].taken = FALSE]
         /\ pagRows' = pagRows
      \/ /\ pagHandlers[i].step = "detail" /\ pagRows' = pagRows
         /\ pagHandlers' = [pagHandlers EXCEPT ![i].step = "answer"]
  BY DEF StoreResults, StoreDetails
<1>4. /\ pagRows \subseteq pagRows'
      /\ pagHandlers' \in Seq(Reports) /\ DOMAIN pagHandlers' = DOMAIN pagHandlers
      /\ \A j \in DOMAIN pagHandlers : j # i => pagHandlers'[j] = pagHandlers[j]
      /\ pagHandlers'[i].heard = pagHandlers[i].heard /\ pagHandlers'[i].results = pagHandlers[i].results
      /\ pagHandlers'[i].taken => ToSet(pagHandlers[i].results) \subseteq pagRows'
  <2>0. ASSUME NEW new \in Reports, pagHandlers' = [pagHandlers EXCEPT ![i] = new]
        PROVE  /\ pagHandlers' \in Seq(Reports) /\ DOMAIN pagHandlers' = DOMAIN pagHandlers
               /\ \A j \in DOMAIN pagHandlers : j # i => pagHandlers'[j] = pagHandlers[j]
               /\ pagHandlers'[i] = new
    BY <1>2, <2>0
  <2>1. CASE /\ pagRows' = pagRows \union ToSet(pagHandlers[i].results)
             /\ pagHandlers' = [pagHandlers EXCEPT ![i].step = "detail"]
    <3>. DEFINE new == [pagHandlers[i] EXCEPT !.step = "detail"]
    <3>1. new \in Reports /\ new.heard = pagHandlers[i].heard /\ new.results = pagHandlers[i].results
      BY <1>2 DEF Reports
    <3>2. pagHandlers' = [pagHandlers EXCEPT ![i] = new]
      BY <2>1
    <3>. HIDE DEF new
    <3>. QED BY <2>0, <2>1, <3>1, <3>2
  <2>2. CASE /\ pagHandlers' = [pagHandlers EXCEPT ![i].step = "answer", ![i].taken = FALSE]
             /\ pagRows' = pagRows
    <3>. DEFINE new == [[pagHandlers[i] EXCEPT !.step = "answer"] EXCEPT !.taken = FALSE]
    <3>1. new \in Reports /\ new.heard = pagHandlers[i].heard /\ new.results = pagHandlers[i].results /\ ~new.taken
      BY <1>2 DEF Reports
    <3>2. pagHandlers' = [pagHandlers EXCEPT ![i] = new]
      BY <1>2, <2>2
    <3>. HIDE DEF new
    <3>. QED BY <2>0, <2>2, <3>1, <3>2
  <2>3. CASE /\ pagHandlers[i].step = "detail" /\ pagRows' = pagRows
             /\ pagHandlers' = [pagHandlers EXCEPT ![i].step = "answer"]
    <3>. DEFINE new == [pagHandlers[i] EXCEPT !.step = "answer"]
    <3>1. /\ new \in Reports /\ new.heard = pagHandlers[i].heard /\ new.results = pagHandlers[i].results
          /\ new.taken = pagHandlers[i].taken
      BY <1>2 DEF Reports
    <3>2. pagHandlers' = [pagHandlers EXCEPT ![i] = new]
      BY <2>3
    <3>3. pagHandlers[i].taken => ToSet(pagHandlers[i].results) \subseteq pagRows'
      BY <2>3 DEF PagInv, PagTaken
    <3>. HIDE DEF new
    <3>. QED BY <2>0, <2>3, <3>1, <3>2, <3>3
  <2>. QED BY <1>3, <2>1, <2>2, <2>3
<1>5. PagTypes'
  BY <1>1, <1>4 DEF PagInv, PagTypes
<1>6. \A j \in DOMAIN pagHandlers :
         pagHandlers'[j].heard = pagHandlers[j].heard /\ pagHandlers'[j].results = pagHandlers[j].results
  BY <1>4
<1>7. PagHeard'
  BY <1>1, <1>4, <1>6 DEF PagInv, PagHeard
<1>8. PagTaken'
  BY <1>4 DEF PagInv, PagTaken
<1>9. PagSorted' /\ NoResultVanishes'
  BY <1>1, <1>4 DEF PagInv, PagSorted, NoResultVanishes
<1>. QED BY <1>5, <1>7, <1>8, <1>9 DEF PagInv

\* The buffer is cleared by the answer to the report that carries all of it.
LEMMA AnsweredInv ==
    ASSUME PagInv, NEW i \in DOMAIN pagHandlers, AnswerReport(i)
    PROVE  PagInv'
<1>1. /\ pagHandlers[i].step = "answer" /\ pagHandlers' = RemoveAt(pagHandlers, i)
      /\ UNCHANGED <<pagAssigned, pagRows, pagRound, pagMade, pagDropped>>
  BY DEF AnswerReport
<1>2. /\ pagHandlers' \in Seq(Reports)
      /\ \A j \in DOMAIN pagHandlers' : \E k \in DOMAIN pagHandlers : k # i /\ pagHandlers'[j] = pagHandlers[k]
      /\ \A j, k \in DOMAIN pagHandlers' : pagHandlers'[j].heard /\ pagHandlers'[k].heard => j = k
      /\ PagTaken'
  BY <1>1, HandlerRemoved
<1>3. CASE pagHandlers[i].heard
  <2>1. pagPending' = <<>> /\ pagTold' \in {pagAssigned, {}}
    BY <1>3 DEF AnswerReport, Kept
  <2>2. pagGone' = IF pagHandlers[i].taken THEN pagGone ELSE pagGone \union ToSet(pagHandlers[i].results)
    BY <1>3 DEF AnswerReport
  <2>3. pagHandlers[i].results = pagPending
    BY <1>3 DEF PagInv, PagHeard
  <2>4. ToSet(pagPending) \subseteq pagRows' \union pagGone' /\ pagGone \subseteq pagGone'
    BY <1>1, <2>2, <2>3 DEF PagInv, PagTaken
  <2>5. PagTypes'
    BY <1>1, <1>2, <2>1 DEF PagInv, PagTypes
  <2>6. PagHeard'
    <3>1. \A j \in DOMAIN pagHandlers' : ~pagHandlers'[j].heard
      BY <1>2, <1>3 DEF PagInv, PagHeard
    <3>. QED BY <3>1 DEF PagHeard
  <2>7. PagSorted'
    BY <1>1, <2>1 DEF PagInv, PagSorted
  <2>8. NoResultVanishes'
    BY <1>1, <2>1, <2>4 DEF PagInv, NoResultVanishes, ToSet
  <2>. QED BY <1>2, <2>5, <2>6, <2>7, <2>8 DEF PagInv
<1>4. CASE ~pagHandlers[i].heard
  <2>1. UNCHANGED <<pagPending, pagTold, pagStep, pagGone>>
    BY <1>4 DEF AnswerReport, Kept
  <2>2. PagTypes'
    BY <1>1, <1>2, <2>1 DEF PagInv, PagTypes
  <2>3. PagHeard'
    BY <1>2, <2>1 DEF PagInv, PagHeard
  <2>4. PagSorted' /\ NoResultVanishes'
    BY <1>1, <2>1 DEF PagInv, PagSorted, NoResultVanishes
  <2>. QED BY <1>2, <2>2, <2>3, <2>4 DEF PagInv
<1>. QED BY <1>3, <1>4

\* A check result is stored, waits, or was given up in the ways that are named.
THEOREM ResultsAreAccountedFor == PagSpec => []NoResultVanishes
<1>1. ASSUME PagInit PROVE PagInv
  BY <1>1 DEF PagInit, PagInv, PagTypes, PagHeard, PagTaken, PagSorted, NoResultVanishes
<1>2. ASSUME PagInv, [PagNext]_pagVars PROVE PagInv'
  <2>1. ASSUME EditAssignments PROVE PagInv'
    BY <1>2, <2>1 DEF EditAssignments, pagAgent, PagInv, PagTypes, PagHeard, PagTaken, PagSorted, NoResultVanishes
  <2>2. ASSUME UNCHANGED pagVars PROVE PagInv'
    BY <1>2, <2>2 DEF pagVars, pagAgent, pagServer, PagInv, PagTypes, PagHeard, PagTaken, PagSorted, NoResultVanishes
  <2>. QED BY <1>2, <2>1, <2>2, SentInv, FailedInv, CheckedInv, RestartedInv, HandledInv, AnsweredInv DEF PagNext
<1>3. PagInv => NoResultVanishes
  BY DEF PagInv
<1>. QED BY <1>1, <1>2, <1>3, PTL DEF PagSpec

-----------------------------------------------------------------------------
(***************************************************************************)
(* RemoteChecks: where nothing tells them apart, the probe and the server  *)
(* make the same checks, and the verdict is a function of those.           *)
(***************************************************************************)

RmcRowInv == rmcRow.types \in UNION {[1..n -> Types] : n \in 1..2}
RmcInv == RmcRowInv /\ ProbeJudgesLikeServer

\* Outside of the divergences a check of the probe is the server's.
LEMMA RmcSameCheck ==
  ASSUME RmcRowInv, NEW i \in DOMAIN rmcRow.types, ~Divergent
  PROVE  ProbeCheck(rmcRow.types[i], rmcRow) = ServerCheck(rmcRow.types[i], rmcRow)
<1> DEFINE type == rmcRow.types[i]
<1>1. CASE type[1] \in {"http", "https"}
  <2>1. rmcRow.port = 0 /\ rmcNet.web[0] # "missing" /\ (rmcNet.web[0] = "untrusted" => rmcInsecure)
    BY <1>1 DEF Divergent, WebChecked
  <2>2. ProbeGet(rmcRow) = ServerGet
    BY <2>1 DEF ProbeGet, ServerGet, Unreached
  <2> QED BY <1>1, <2>2 DEF ProbeCheck, ServerCheck
<1>2. CASE type[1] = "tcp"
  BY <1>2 DEF ProbeCheck, ServerCheck
<1>3. CASE type[1] \notin {"http", "https", "tcp"}
  <2>1. type \in Types
    BY DEF RmcRowInv
  <2>2. type[1] = "icmp"
    BY <1>3, <2>1 DEF Types, Divergent
  <2> QED BY <2>2 DEF ProbeCheck, ServerCheck
<1> QED BY <1>1, <1>2, <1>3

\* The probe reads the types as they are written.
LEMMA RmcSmall == ASSUME RmcRowInv, ~Divergent PROVE Small(rmcRow.types) = rmcRow.types
<1>1. \A i \in DOMAIN rmcRow.types : rmcRow.types[i][1] # "ICMP"
  BY DEF Divergent
<1>2. rmcRow.types = [i \in DOMAIN rmcRow.types |-> rmcRow.types[i]]
  BY DEF RmcRowInv
<1> QED BY <1>1, <1>2 DEF Small

\* Two verdicts on the same checks are the same.
LEMMA RmcSameVerdict ==
  ASSUME RmcRowInv, ~Divergent PROVE ProbeVerdict(rmcRow) = ServerVerdict(rmcRow)
<1>1. Small(rmcRow.types) = rmcRow.types
  BY RmcSmall
<1>2. [i \in DOMAIN rmcRow.types |-> ProbeCheck(rmcRow.types[i], rmcRow)]
        = [i \in DOMAIN rmcRow.types |-> ServerCheck(rmcRow.types[i], rmcRow)]
  BY RmcSameCheck
<1> QED BY <1>1, <1>2, Zenon DEF ProbeVerdict, ServerVerdict, Summarize

\* For any ports and any answers of the network: the probe and the server judge a host alike,
\* outside the named divergences (utils/ping.py check_host, checks.rs run_one).
THEOREM HandoverKeepsTheState == RmcSpec => []ProbeJudgesLikeServer
<1>1. RmcInit => RmcInv
  <2> SUFFICES ASSUME RmcInit PROVE RmcInv
    OBVIOUS
  <2>1. rmcRow.types \in UNION {[1..n -> Types] : n \in 1..2}
    BY DEF RmcInit
  <2> QED BY <2>1 DEF RmcInit, RmcInv, RmcRowInv, ProbeJudgesLikeServer
<1>2. RmcInv /\ [RmcNext]_rmcVars => RmcInv'
  <2>1. ASSUME RmcInv, CheckRound PROVE RmcInv'
    <3>1. RmcRowInv' /\ rmcRow' = rmcRow /\ rmcNet' = rmcNet /\ rmcInsecure' = rmcInsecure
      BY <2>1 DEF CheckRound, RmcInv, RmcRowInv
    <3>2. rmcVerdicts' = [server |-> ServerVerdict(rmcRow), probe |-> ProbeVerdict(rmcRow)]
      BY <2>1 DEF CheckRound
    <3>3. Divergent' <=> Divergent
      BY <3>1 DEF Divergent, WebChecked
    <3>4. ~Divergent => ProbeVerdict(rmcRow) = ServerVerdict(rmcRow)
      BY <2>1, RmcSameVerdict DEF RmcInv
    <3>5. ProbeJudgesLikeServer'
      BY <3>2, <3>3, <3>4 DEF ProbeJudgesLikeServer
    <3> QED BY <3>1, <3>5 DEF RmcInv
  <2>2. ASSUME RmcInv, UNCHANGED rmcVars PROVE RmcInv'
    BY <2>2 DEF RmcInv, RmcRowInv, ProbeJudgesLikeServer, Divergent, WebChecked, rmcVars
  <2> QED BY <2>1, <2>2 DEF RmcNext
<1>3. RmcInv => ProbeJudgesLikeServer
  BY DEF RmcInv
<1> QED BY <1>1, <1>2, <1>3, PTL DEF RmcSpec
=============================================================================

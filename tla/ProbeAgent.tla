----------------------------- MODULE ProbeAgent -----------------------------
(***************************************************************************)
(* The main loop of the Rust agent (agent/src) when it is a probe, and the *)
(* handlers of its reports on the server (routers/agents.py).  Check       *)
(* results wait in a bounded buffer for a report that is answered; a       *)
(* report may be refused, time out while its handler goes on, or be        *)
(* answered although the results could not be stored.  A result is the     *)
(* host and the round of checks it was made in.                            *)
(***************************************************************************)
EXTENDS Naturals, Sequences, FiniteSets, SequencesExt

CONSTANTS PagHosts,     \* hosts the probe may be assigned
          PagOrder,     \* the order in which an answer lists a set of assignments
          PagCap,       \* MAX_PENDING_RESULTS
          PagRounds,    \* bound: rounds of checks
          PagHandlers,  \* bound: reports in the server at a time
          PagFaults     \* bound: reports that fail, refused inserts, restarts

ASSUME PagAssumption ==
    /\ PagCap \in Nat
    /\ PagOrder \in [SUBSET PagHosts -> Seq(PagHosts)]
    /\ \A told \in SUBSET PagHosts : ToSet(PagOrder[told]) = told

VARIABLES pagAssigned,  \* server: hosts with this probe, enabled and not in maintenance
          pagProbe,     \* server: Agent.is_probe
          pagHandlers,  \* server: the reports being handled, oldest first
          pagRows,      \* server: results in ping_checks
          pagDetail,    \* server: the round check_detail of a host is from, 0 for none
          pagStep,      \* agent: "report", "wait", "check"
          pagTold,      \* agent: assignments
          pagPending,   \* agent: pending_results
          pagRound,
          pagMade,      \* history: results made
          pagDropped,   \* history: results the cap has discarded
          pagGone,      \* history: results of a lost process or of an answered report
                        \* that were not taken
          pagFaults

pagAgent == <<pagStep, pagTold, pagPending, pagRound, pagMade, pagDropped>>
pagServer == <<pagAssigned, pagProbe, pagHandlers, pagRows, pagDetail>>
pagVars == <<pagAgent, pagServer, pagGone, pagFaults>>

CheckResult(h) == [host |-> h, round |-> pagRound + 1]

PagInit ==
    /\ pagAssigned = {} /\ pagProbe = TRUE /\ pagHandlers = <<>>
    /\ pagRows = {} /\ pagDetail = [h \in PagHosts |-> 0]
    /\ pagStep = "report" /\ pagTold = {} /\ pagPending = <<>> /\ pagRound = 0
    /\ pagMade = {} /\ pagDropped = {} /\ pagGone = {} /\ pagFaults = 0

PagFault == pagFaults < PagFaults /\ pagFaults' = pagFaults + 1

-----------------------------------------------------------------------------
(* The agent                                                                 *)

\* report: the buffer is sent, and stays as it is until there is an answer.
SendReport ==
    /\ pagStep = "report"
    /\ Len(pagHandlers) < PagHandlers
    /\ pagHandlers' = Append(pagHandlers, [results |-> pagPending, heard |-> TRUE, taken |-> TRUE, step |-> "store"])
    /\ pagStep' = "wait"
    /\ UNCHANGED <<pagAssigned, pagProbe, pagRows, pagDetail, pagTold, pagPending, pagRound, pagMade, pagDropped,
                   pagGone, pagFaults>>

AfterReport(told) == IF told = {} THEN "report" ELSE "check"

\* The server refused, or 15 s are over: the request may be handled all the same,
\* or never have arrived.  The assignments stay what they were.
ReportFails ==
    /\ pagStep = "wait" /\ PagFault
    /\ \E i \in DOMAIN pagHandlers :
         /\ pagHandlers[i].heard
         /\ \/ pagHandlers' = [pagHandlers EXCEPT ![i].heard = FALSE]
            \/ pagHandlers[i].step = "store" /\ pagHandlers' = RemoveAt(pagHandlers, i)
    /\ pagStep' = AfterReport(pagTold)
    /\ UNCHANGED <<pagAssigned, pagProbe, pagRows, pagDetail, pagTold, pagPending, pagRound, pagMade, pagDropped,
                   pagGone>>

\* push_round discards from the front.
Pushed(results) ==
    LET all == pagPending \o results
    IN  IF Len(all) > PagCap THEN SubSeq(all, Len(all) - PagCap + 1, Len(all)) ELSE all

\* One round while the interval passes: run_checks returns a result for every
\* assignment, in the order of the assignments.
RunChecks ==
    /\ pagStep = "check" /\ pagRound < PagRounds
    /\ LET told == PagOrder[pagTold]
           results == [i \in DOMAIN told |-> CheckResult(told[i])]
       IN  /\ pagPending' = Pushed(results)
           /\ pagMade' = pagMade \union ToSet(results)
           /\ pagDropped' = pagDropped \union ((ToSet(pagPending) \union ToSet(results)) \ ToSet(Pushed(results)))
    /\ pagRound' = pagRound + 1
    /\ pagStep' = "report"
    /\ UNCHANGED <<pagServer, pagTold, pagGone, pagFaults>>

\* The process is lost and started again, with nothing but its token.
RestartProbeAgent ==
    /\ PagFault
    /\ pagGone' = pagGone \union ToSet(pagPending)
    /\ pagPending' = <<>> /\ pagTold' = {} /\ pagStep' = "report"
    /\ pagHandlers' = [i \in DOMAIN pagHandlers |-> [pagHandlers[i] EXCEPT !.heard = FALSE]]
    /\ UNCHANGED <<pagAssigned, pagProbe, pagRows, pagDetail, pagRound, pagMade, pagDropped>>

-----------------------------------------------------------------------------
(* The server                                                                *)

\* _record_probe_results inserts the rows.  A failure is logged, the rest of it
\* is left out, and the report is answered as if nothing had happened; so are the
\* results of an agent that is no probe any more.
StoreResults(i) ==
    /\ pagHandlers[i].step = "store"
    /\ \/ /\ pagProbe
          /\ pagRows' = pagRows \union ToSet(pagHandlers[i].results)
          /\ pagHandlers' = [pagHandlers EXCEPT ![i].step = "detail"]
          /\ UNCHANGED pagFaults
       \/ /\ \/ ~pagProbe /\ UNCHANGED pagFaults
             \/ pagProbe /\ PagFault
          /\ pagHandlers' = [pagHandlers EXCEPT ![i].step = "answer", ![i].taken = FALSE]
          /\ UNCHANGED pagRows
    /\ UNCHANGED <<pagAssigned, pagProbe, pagDetail, pagAgent, pagGone>>

\* The last result of a host in a sequence.
RoundOf(results, h) ==
    LET i == SelectLastInSeq(results, LAMBDA r : r.host = h) IN results[i].round

\* ... and copies the newest breakdown of every host that still exists to it.
StoreDetails(i) ==
    /\ pagHandlers[i].step = "detail"
    /\ pagDetail' = [h \in PagHosts |->
                       IF \E r \in ToSet(pagHandlers[i].results) : r.host = h
                       THEN RoundOf(pagHandlers[i].results, h) ELSE pagDetail[h]]
    /\ pagHandlers' = [pagHandlers EXCEPT ![i].step = "answer"]
    /\ UNCHANGED <<pagAssigned, pagProbe, pagRows, pagAgent, pagGone, pagFaults>>

\* Mutant of Kept: the buffer is cleared whatever became of the report.
KeptNothing(heard) == <<>>

\* The buffer once the handler has answered.
Kept(heard) == IF heard THEN <<>> ELSE pagPending

\* _probe_assignments, and what the agent makes of the answer.
AnswerReport(i) ==
    /\ pagHandlers[i].step = "answer"
    /\ LET heard == pagHandlers[i].heard
       IN  /\ pagPending' = Kept(heard)
           /\ pagTold' = IF heard THEN (IF pagProbe THEN pagAssigned ELSE {}) ELSE pagTold
           /\ pagStep' = IF heard THEN AfterReport(pagTold') ELSE pagStep
           /\ pagGone' = IF heard /\ ~pagHandlers[i].taken
                          THEN pagGone \union ToSet(pagHandlers[i].results) ELSE pagGone
    /\ pagHandlers' = RemoveAt(pagHandlers, i)
    /\ UNCHANGED <<pagAssigned, pagProbe, pagRows, pagDetail, pagRound, pagMade, pagDropped, pagFaults>>

\* The operator assigns hosts, takes them away, puts them in maintenance, and
\* makes the agent a probe or not.
EditAssignments ==
    /\ \/ pagAssigned' \in SUBSET PagHosts \ {pagAssigned} /\ UNCHANGED pagProbe
       \/ pagProbe' = ~pagProbe /\ UNCHANGED pagAssigned
    /\ UNCHANGED <<pagHandlers, pagRows, pagDetail, pagAgent, pagGone, pagFaults>>

PagNext ==
    \/ SendReport \/ ReportFails \/ RunChecks \/ RestartProbeAgent \/ EditAssignments
    \/ \E i \in DOMAIN pagHandlers : StoreResults(i) \/ StoreDetails(i) \/ AnswerReport(i)

PagSpec == PagInit /\ [][PagNext]_pagVars
-----------------------------------------------------------------------------
(* Properties                                                                *)

PagTypeOK ==
    /\ pagTold \subseteq PagHosts /\ pagStep \in {"report", "wait", "check"}
    /\ Len(pagPending) <= PagCap /\ pagRows \subseteq pagMade
    /\ pagDetail \in [PagHosts -> 0..PagRounds]

\* Whatever reports fail, time out or overtake each other, a check result is
\* stored, waits, or was given up for newer ones of the same buffer, never while an
\* older one is kept; else only a lost process loses it, and a report that was
\* answered although its results could not be stored.
NoResultVanishes ==
    /\ \A r \in pagMade : r \in pagRows \union ToSet(pagPending) \union pagDropped \union pagGone
    /\ \A r \in pagDropped, q \in ToSet(pagPending) : r.round <= q.round
=============================================================================

------------------------------- MODULE DataExport -------------------------------
(***************************************************************************)
(* GET /api/v1/backup and POST /api/v1/backup/restore.  The download reads *)
(* the tables of EXPORT_TABLES one statement after the other and logs the  *)
(* action in the same transaction; the restore truncates and fills them in *)
(* one.  In PostgreSQL a statement that fails makes every later one of its *)
(* transaction fail; SQLite goes on, but has no session_replication_role.  *)
(* Revision 026 has dropped some of EXPORT_TABLES.  The contents of a      *)
(* table are a number, 0 for none.                                         *)
(***************************************************************************)
EXTENDS Naturals, Sequences

CONSTANTS DxpTables,    \* EXPORT_TABLES, parents first
          DxpDropped,   \* those that are no longer in the database
          DxpDated,     \* those with a column of type timestamp
          DxpKeyed,     \* those without a column id
          DxpRefers,    \* pairs of a table and one it refers to; also tables not exported
          DxpEngines,   \* the database of this installation
          DxpEdits      \* bound: changes by other transactions

Exported == {DxpTables[i] : i \in DOMAIN DxpTables}

ASSUME DxpAssumption ==
    /\ DxpTables \in Seq(Exported)
    /\ DxpEdits \in Nat /\ DxpEngines \subseteq {"postgres", "sqlite"}

Others == {p[1] : p \in DxpRefers} \ Exported
Present == (Exported \cup Others) \ DxpDropped
NoFile == [kind |-> "none"]

VARIABLES dxpEngine,
          dxpDb,       \* what is committed: table -> contents
          dxpWork,     \* the tables as the transaction sees them
          dxpAborted,  \* the transaction can only be rolled back
          dxpStep,     \* the request: idle, export, truncate or insert, and the table it is at
          dxpBody,     \* the file a download gathers or a restore was given, by table
          dxpFile,     \* the last answer to a download: a file, NoFile or an error
          dxpBefore,   \* of a restore: what was committed when it began
          dxpEdits

dxpRequest == <<dxpWork, dxpAborted, dxpStep, dxpBody>>
dxpVars == <<dxpEngine, dxpDb, dxpRequest, dxpFile, dxpBefore, dxpEdits>>

At(phase, i) == [phase |-> phase, i |-> i]
Idle == At("idle", 0)
Empty == [t \in {} |-> 0]

DxpInit ==
    /\ dxpEngine \in DxpEngines
    /\ dxpDb \in [Present -> {1}] /\ dxpWork = dxpDb
    /\ dxpAborted = FALSE /\ dxpStep = Idle /\ dxpBody = Empty
    /\ dxpFile = NoFile /\ dxpBefore = dxpDb /\ dxpEdits = 0

\* Other requests and jobs go on; a restore has the tables it truncates for itself.
Edit(t) ==
    /\ dxpEdits < DxpEdits /\ dxpEdits' = dxpEdits + 1
    /\ dxpStep.phase \in {"idle", "export"}
    /\ dxpDb' = [dxpDb EXCEPT ![t] = @ + 1]
    /\ UNCHANGED <<dxpEngine, dxpRequest, dxpFile, dxpBefore>>

-----------------------------------------------------------------------------
(* The download                                                              *)

BeginDownload ==
    /\ dxpStep = Idle
    /\ dxpStep' = At("export", 1) /\ dxpBody' = Empty /\ dxpAborted' = FALSE
    /\ dxpFile' = NoFile
    /\ UNCHANGED <<dxpEngine, dxpDb, dxpWork, dxpBefore, dxpEdits>>

\* SELECT * of one table.  A failure is logged, and the table exported without rows.
ExportTable ==
    /\ dxpStep.phase = "export" /\ dxpStep.i <= Len(DxpTables)
    /\ LET t == DxpTables[dxpStep.i]
           fails == dxpAborted \/ t \notin Present
       IN /\ dxpBody' = [x \in DOMAIN dxpBody \cup {t} |->
                           IF x # t THEN dxpBody[x] ELSE IF fails THEN 0 ELSE dxpDb[t]]
          /\ dxpAborted' = (dxpAborted \/ (fails /\ dxpEngine = "postgres"))
    /\ dxpStep' = At("export", dxpStep.i + 1)
    /\ UNCHANGED <<dxpEngine, dxpDb, dxpWork, dxpFile, dxpBefore, dxpEdits>>

\* log_action and the commit: an INSERT, which fails in a transaction that is aborted.
LogFails == dxpAborted

AnswerDownload ==
    /\ dxpStep = At("export", Len(DxpTables) + 1)
    /\ dxpFile' = IF LogFails THEN [kind |-> "error"] ELSE [kind |-> "file", rows |-> dxpBody]
    /\ dxpStep' = Idle /\ dxpBody' = Empty /\ dxpAborted' = FALSE
    /\ UNCHANGED <<dxpEngine, dxpDb, dxpWork, dxpBefore, dxpEdits>>

-----------------------------------------------------------------------------
(* The restore                                                               *)

\* The body may be any part of such a file: what is not in it is left alone.
Bodies == UNION {[S -> {0, 1}] : S \in SUBSET Exported}

BeginRestore ==
    /\ dxpStep = Idle
    /\ dxpBody' \in Bodies
    /\ dxpStep' = At("truncate", Len(DxpTables))
    /\ dxpWork' = dxpDb /\ dxpBefore' = dxpDb
    /\ dxpAborted' = (dxpEngine = "sqlite")
    /\ dxpFile' = NoFile
    /\ UNCHANGED <<dxpEngine, dxpDb, dxpEdits>>

\* TRUNCATE ... CASCADE empties whatever refers to the table, exported or not, and so on:
\* the least set that holds it and is closed under references.
Cascade(t) ==
    LET Closed(S) == \A p \in DxpRefers : p[2] \in S => p[1] \in S
    IN {u \in Exported \cup Others : \A S \in SUBSET (Exported \cup Others) : t \in S /\ Closed(S) => u \in S}

TruncateTable ==
    /\ dxpStep.phase = "truncate" /\ dxpStep.i > 0 /\ ~dxpAborted
    /\ LET t == DxpTables[dxpStep.i]
       IN IF t \notin DOMAIN dxpBody THEN UNCHANGED <<dxpWork, dxpAborted>>
          ELSE /\ dxpAborted' = (t \notin Present)
               /\ dxpWork' = [x \in Present |-> IF x \in Cascade(t) THEN 0 ELSE dxpWork[x]]
    /\ dxpStep' = At("truncate", dxpStep.i - 1)
    /\ UNCHANGED <<dxpEngine, dxpDb, dxpBody, dxpFile, dxpBefore, dxpEdits>>

BeginInsert ==
    /\ dxpStep = At("truncate", 0) /\ ~dxpAborted
    /\ dxpStep' = At("insert", 1)
    /\ UNCHANGED <<dxpEngine, dxpDb, dxpWork, dxpAborted, dxpBody, dxpFile, dxpBefore, dxpEdits>>

\* The timestamps of the file are strings, which the driver refuses; and after the rows the
\* sequence of the column id is asked for, an error that is swallowed but aborts all the same.
InsertTable ==
    /\ dxpStep.phase = "insert" /\ dxpStep.i <= Len(DxpTables) /\ ~dxpAborted
    /\ LET t == DxpTables[dxpStep.i]
       IN IF t \notin DOMAIN dxpBody \cap Present \/ dxpBody[t] = 0 THEN UNCHANGED <<dxpWork, dxpAborted>>
          ELSE IF t \in DxpDated THEN dxpAborted' = TRUE /\ UNCHANGED dxpWork
          ELSE dxpWork' = [dxpWork EXCEPT ![t] = dxpBody[t]] /\ dxpAborted' = (t \in DxpKeyed)
    /\ dxpStep' = At("insert", dxpStep.i + 1)
    /\ UNCHANGED <<dxpEngine, dxpDb, dxpBody, dxpFile, dxpBefore, dxpEdits>>

\* What is kept of a restore that fails or is cut off.
RolledBackNot == dxpWork
RolledBack == dxpBefore

CommitRestore ==
    /\ dxpStep = At("insert", Len(DxpTables) + 1) /\ ~dxpAborted
    /\ dxpDb' = dxpWork
    /\ dxpStep' = Idle /\ dxpBody' = Empty
    /\ UNCHANGED <<dxpEngine, dxpWork, dxpAborted, dxpFile, dxpBefore, dxpEdits>>

\* A statement has failed (a COMMIT after it rolls back, and tells nobody), or the process ends.
RestoreFails ==
    /\ dxpStep.phase \in {"truncate", "insert"}
    /\ dxpDb' = RolledBack
    /\ dxpStep' = Idle /\ dxpBody' = Empty /\ dxpAborted' = FALSE
    /\ UNCHANGED <<dxpEngine, dxpWork, dxpFile, dxpBefore, dxpEdits>>

DxpNext ==
    \/ \E t \in Present : Edit(t)
    \/ BeginDownload \/ ExportTable \/ AnswerDownload
    \/ BeginRestore \/ TruncateTable \/ BeginInsert \/ InsertTable \/ CommitRestore \/ RestoreFails

DxpSpec == DxpInit /\ [][DxpNext]_dxpVars

-----------------------------------------------------------------------------

\* api_v1.py:1824 "Download full database backup as JSON": the download is answered with a
\* file, although a table that cannot be read is skipped.
DownloadIsAnswered == dxpFile.kind # "error"

\* A restore replaces what the file holds, and empties only what refers to it, or it changes
\* nothing, wherever it fails (backup.py:113, :174).
RestoreIsAllOrNothing ==
    [][dxpStep.phase \in {"truncate", "insert"} /\ dxpStep' = Idle =>
         \/ dxpDb' = dxpBefore
         \/ \A t \in Present :
               IF t \in DOMAIN dxpBody THEN dxpDb'[t] = dxpBody[t]
               ELSE dxpDb'[t] = IF \E u \in DOMAIN dxpBody : t \in Cascade(u) THEN 0 ELSE dxpBefore[t]]_dxpVars
=============================================================================

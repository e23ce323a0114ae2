------------------------------ MODULE MCBackend ------------------------------
(***************************************************************************)
(* Small instances of what every backend process runs without an end, for  *)
(* liveness: the correlation engine, the loop for the leadership and the   *)
(* receiver of syslog messages.  They share no variable, so that one of    *)
(* them, the focus, moves in a behaviour and the others rest.              *)
(***************************************************************************)
EXTENDS MCCorrelation, LeaderLease, LogBuffer

CONSTANT Focus

VARIABLE focus

backendVars == <<focus, vars, lseVars, bufVars>>

BackendInit == focus \in Focus /\ Init /\ LseInit /\ BufInit

BackendNext ==
    /\ \/ focus = "correlation" /\ Next /\ UNCHANGED <<lseVars, bufVars>>
       \/ focus = "lease" /\ LseNext /\ UNCHANGED <<vars, bufVars>>
       \/ focus = "logs" /\ BufNext /\ UNCHANGED <<vars, lseVars>>
    /\ UNCHANGED focus

\* The correlation job is on an interval, and a run whose queries answer goes on.  The
\* event loop runs what is ready, the interval ends, and the client answers within its
\* send_receive_timeout; it answers well again and again.
BackendFairSpec ==
    /\ BackendInit /\ [][BackendNext]_backendVars
    /\ WF_vars(focus = "correlation" /\ Engine)
    /\ WF_bufVars(focus = "logs" /\ Reach)
    /\ WF_bufVars(focus = "logs" /\ Enter)
    /\ WF_bufVars(focus = "logs" /\ Wake)
    /\ WF_bufVars(focus = "logs" /\ (InsertDone \/ InsertFails))
    /\ SF_bufVars(focus = "logs" /\ InsertDone)
=============================================================================

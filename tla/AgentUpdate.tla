----------------------------- MODULE AgentUpdate -----------------------------
(***************************************************************************)
(* Self-update of an agent: the server publishes a file per platform       *)
(* (routers/agents.py), the agent compares its hash with that of its own   *)
(* file every five minutes, downloads, verifies and replaces itself.       *)
(* "script" is nodeglow-agent-linux.py under systemd, "exe" the frozen     *)
(* nodeglow-agent-windows.py, "native" and "wrapped" the Rust agent under  *)
(* systemd and under the wrapper the Windows installer writes.  Releases   *)
(* are numbered in the order they are published; the hash of a file is its *)
(* release.                                                                *)
(***************************************************************************)
EXTENDS Integers

CONSTANTS UpdForms,     \* forms of agent looked at
          UpdLast,      \* the last release published
          UpdNative,    \* the Linux releases that are native binaries, not scripts
          UpdFaults     \* bound: failed or truncated downloads, failed renames, crashes

ASSUME UpdAssumption == UpdLast \in Nat \ {0} /\ UpdNative \subseteq 1..UpdLast

NoFile == 0             \* the path does not exist
Partial == -1           \* a file that is no complete release
Complete(f) == f \in 1..UpdLast
FileNames == {"own", "old", "new", "tmp"}     \* "tmp", the download, is in memory in Rust
Rust == {"native", "wrapped"}

VARIABLES updForm,      \* the form of this agent
          updServed,    \* release published for its platform
          updDisk,      \* the files of the agent's directory
          updRun,       \* release the process runs, NoFile when it is down
          updImage,     \* the file name the running image has on disk now
          updWant,      \* remote_hash of the check under way
          updStep,      \* where check_and_update is
          updSwapBat,   \* nodeglow_swap.bat is waiting
          updCut,       \* history: a swap was cut off where nothing takes it up again
          updFaults

updVars == <<updForm, updServed, updDisk, updRun, updImage, updWant, updStep, updSwapBat, updCut, updFaults>>

\* The interpreter runs scripts only; a frozen executable is always native.
Runs(form, f) == Complete(f) /\ (form = "script" => f \notin UpdNative)

UpdInit ==
    /\ updForm \in UpdForms
    /\ updServed = 1
    /\ updDisk = [f \in FileNames |-> IF f = "own" THEN 1 ELSE NoFile]
    /\ updRun = 1 /\ updImage = "own"
    /\ updWant = NoFile /\ updStep = "idle"
    /\ updSwapBat = FALSE /\ updCut = FALSE
    /\ updFaults = 0

Fault == updFaults < UpdFaults /\ updFaults' = updFaults + 1

-----------------------------------------------------------------------------
(* The server                                                                *)

\* An image with new agent files; for Linux the native binary, once it is there,
\* is served in the place of the script (_agent_binary_path, agent_download).
Publish ==
    /\ updServed < UpdLast
    /\ updServed' = updServed + 1
    /\ UNCHANGED <<updForm, updCut, updDisk, updRun, updImage, updWant, updStep, updSwapBat, updFaults>>

\* Mutant of RemoteHash: the hash is computed once and cached.
RemoteHashOnce == 1

\* agent_version answers with the hash of that same file.
RemoteHash == updServed

-----------------------------------------------------------------------------
(* The agent                                                                 *)

\* check_and_update up to the comparison with _get_own_hash.
CheckVersion ==
    /\ updRun # NoFile /\ updStep = "idle"
    /\ updForm \in Rust => updDisk["own"] # NoFile
    /\ RemoteHash # updDisk["own"]
    /\ updWant' = RemoteHash
    /\ updStep' = "download"
    /\ UNCHANGED <<updForm, updCut, updServed, updDisk, updRun, updImage, updSwapBat, updFaults>>

\* The download is a second request: the file may have changed in between.
Download ==
    /\ updStep = "download"
    /\ \/ updDisk' = [updDisk EXCEPT !["tmp"] = updServed] /\ UNCHANGED updFaults
       \/ Fault /\ updDisk' = [updDisk EXCEPT !["tmp"] = Partial]
    /\ updStep' = "verify"
    /\ UNCHANGED <<updForm, updCut, updServed, updRun, updImage, updWant, updSwapBat>>

\* Mutant of Verified: any file will do.
VerifiedNonEmpty == updDisk["tmp"] # NoFile

Verified == updDisk["tmp"] = updWant

\* The except clause and the hash mismatch: the temporary file goes, nothing else.
GiveUp ==
    /\ updDisk' = [updDisk EXCEPT !["tmp"] = NoFile]
    /\ updStep' = "idle"
    /\ UNCHANGED <<updForm, updServed, updRun, updImage, updWant, updSwapBat>>

Verify ==
    /\ updStep = "verify"
    /\ IF Verified
       THEN updStep' = "replace" /\ UNCHANGED <<updForm, updServed, updDisk, updRun, updImage, updWant, updSwapBat>>
       ELSE GiveUp
    /\ UNCHANGED <<updCut, updFaults>>

\* os.replace and execv: one step for the disk, and the new file takes over.
ReplaceAndExec ==
    /\ updStep = "replace" /\ updForm = "script"
    /\ updDisk' = [updDisk EXCEPT !["own"] = updDisk["tmp"], !["tmp"] = NoFile]
    /\ updRun' = IF Runs(updForm, updDisk'["own"]) THEN updDisk'["own"] ELSE NoFile
    /\ updImage' = "own" /\ updStep' = "idle"
    /\ UNCHANGED <<updForm, updCut, updServed, updWant, updSwapBat, updFaults>>

\* A running image cannot be deleted, and that failure is ignored.
WithoutOld == IF updImage = "old" THEN updDisk ELSE [updDisk EXCEPT !["old"] = NoFile]

\* Windows, first rename: own -> own.old, the running image moves along.
RenameOwn ==
    /\ updStep = "replace" /\ updForm = "exe"
    /\ updDisk["own"] # NoFile /\ WithoutOld["old"] = NoFile
    /\ updDisk' = [WithoutOld EXCEPT !["old"] = updDisk["own"], !["own"] = NoFile]
    /\ updImage' = "old" /\ updStep' = "move"
    /\ UNCHANGED <<updForm, updCut, updServed, updRun, updWant, updSwapBat, updFaults>>

\* Windows, second rename: the download takes the name, the restart task starts
\* it, and this process exits.
MoveNew ==
    /\ updStep = "move"
    /\ updDisk' = [updDisk EXCEPT !["own"] = updDisk["tmp"], !["tmp"] = NoFile]
    /\ updRun' = NoFile /\ updStep' = "idle"
    /\ UNCHANGED <<updForm, updCut, updServed, updImage, updWant, updSwapBat, updFaults>>

\* PermissionError of either rename: the download becomes own.new, a script is to
\* move it over own two seconds after this process has ended.
DeferSwap ==
    /\ updStep \in {"replace", "move"} /\ updForm = "exe"
    /\ Fault
    /\ updDisk' = [updDisk EXCEPT !["new"] = updDisk["tmp"], !["tmp"] = NoFile]
    /\ updSwapBat' = TRUE
    /\ updRun' = NoFile /\ updStep' = "idle"
    /\ UNCHANGED <<updForm, updCut, updServed, updImage, updWant>>

\* Any other failure of the two renames; with own gone the first cannot succeed.  After a
\* failure of the second nothing renames own.old back.
FailSwap ==
    /\ updStep \in {"replace", "move"} /\ updForm = "exe"
    /\ GiveUp
    /\ updCut' = (updCut \/ updStep = "move")
    /\ \/ Fault
       \/ updStep = "replace" /\ (updDisk["own"] = NoFile \/ WithoutOld["old"] # NoFile) /\ UNCHANGED updFaults

\* apply_update of the Rust agent writes own.new, in place, and may be cut off or
\* fail in the middle of it.
WriteStaged ==
    /\ updStep = "replace" /\ updForm \in Rust
    /\ updDisk' = [updDisk EXCEPT !["new"] = Partial]
    /\ updStep' = "write"
    /\ UNCHANGED <<updForm, updCut, updServed, updRun, updImage, updWant, updSwapBat, updFaults>>
FinishStaged ==
    /\ updStep = "write"
    /\ \/ updDisk' = [updDisk EXCEPT !["new"] = updDisk["tmp"], !["tmp"] = NoFile]
          /\ updStep' = "rename" /\ UNCHANGED updFaults
       \/ Fault /\ updStep' = "idle" /\ updDisk' = [updDisk EXCEPT !["tmp"] = NoFile]
    /\ UNCHANGED <<updForm, updCut, updServed, updRun, updImage, updWant, updSwapBat>>

\* Linux: one rename, and the process exits for systemd to start it again.
RenameStaged ==
    /\ updStep = "rename" /\ updForm = "native"
    /\ updDisk' = [updDisk EXCEPT !["own"] = updDisk["new"], !["new"] = NoFile]
    /\ updRun' = NoFile /\ updStep' = "idle"
    /\ UNCHANGED <<updForm, updCut, updServed, updImage, updWant, updSwapBat, updFaults>>

\* Windows: own makes room, or, when that fails, the wrapper is to swap.
SwapStaged ==
    /\ updStep = "rename" /\ updForm = "wrapped"
    /\ \/ /\ updDisk' = [updDisk EXCEPT !["old"] = updDisk["own"], !["own"] = updDisk["new"], !["new"] = NoFile]
          /\ updRun' = NoFile /\ UNCHANGED <<updImage, updFaults>>
       \/ Fault /\ updRun' = NoFile /\ UNCHANGED <<updDisk, updImage>>
       \/ /\ Fault /\ updDisk' = [updDisk EXCEPT !["old"] = updDisk["own"], !["own"] = NoFile]
          /\ updImage' = "old" /\ UNCHANGED updRun
    /\ updStep' = "idle"
    /\ UNCHANGED <<updForm, updCut, updServed, updWant, updSwapBat>>

\* The wrapper's loop: what is staged takes the name of own.
AppliedStaged ==
    IF updDisk["new"] = NoFile THEN updDisk
    ELSE [updDisk EXCEPT !["own"] = updDisk["new"], !["new"] = NoFile, !["old"] = updDisk["own"]]

\* It starts own, which ends at once when it is no complete image; own.old goes
\* whenever own has ended.
RunWrapper ==
    /\ updRun = NoFile /\ updForm = "wrapped"
    /\ IF Runs(updForm, AppliedStaged["own"])
       THEN /\ updRun' = AppliedStaged["own"]
            /\ \E old \in {NoFile, AppliedStaged["old"]} : updDisk' = [AppliedStaged EXCEPT !["old"] = old]
       ELSE updDisk' = [AppliedStaged EXCEPT !["old"] = NoFile] /\ UNCHANGED updRun
    /\ updImage' = "own"
    /\ updCut' = (updCut \/ ~Complete(AppliedStaged["own"]))
    /\ UNCHANGED <<updForm, updServed, updWant, updStep, updSwapBat, updFaults>>

RunSwapBat ==
    /\ updSwapBat
    /\ updSwapBat' = FALSE
    /\ updDisk' = IF updDisk["new"] = NoFile THEN updDisk
                  ELSE [updDisk EXCEPT !["own"] = updDisk["new"], !["new"] = NoFile]
    /\ UNCHANGED <<updForm, updCut, updServed, updRun, updImage, updWant, updStep, updFaults>>

\* main removes what earlier updates left (own.old, own.new) before its loop.
Leftovers(form) == IF form = "exe" THEN {"old", "new"} ELSE {}

\* systemd, the restart task or the boot task starts own, if it is there.
StartAgent ==
    /\ updRun = NoFile /\ updForm # "wrapped" /\ Runs(updForm, updDisk["own"])
    /\ updRun' = updDisk["own"] /\ updImage' = "own"
    /\ updDisk' = [f \in FileNames |-> IF f \in Leftovers(updForm) THEN NoFile ELSE updDisk[f]]
    /\ UNCHANGED <<updForm, updCut, updServed, updWant, updStep, updSwapBat, updFaults>>

\* Power loss: the process, the waiting script and the update under way are gone; without
\* own, the boot task finds nothing to start.
CrashAgent ==
    /\ updRun # NoFile \/ updSwapBat
    /\ Fault
    /\ updRun' = NoFile /\ updStep' = "idle" /\ updSwapBat' = FALSE
    /\ updDisk' = IF updForm \in Rust THEN [updDisk EXCEPT !["tmp"] = NoFile] ELSE updDisk
    /\ updCut' = (updCut \/ (updForm = "exe" /\ updDisk["own"] = NoFile))
    /\ UNCHANGED <<updForm, updServed, updImage, updWant>>

AgentUpdateStep ==
    \/ CheckVersion \/ Download \/ Verify
    \/ ReplaceAndExec \/ RenameOwn \/ MoveNew \/ FailSwap
    \/ WriteStaged \/ FinishStaged \/ RenameStaged \/ SwapStaged \/ RunWrapper
    \/ RunSwapBat \/ StartAgent

UpdNext == AgentUpdateStep \/ Publish \/ DeferSwap \/ CrashAgent

-----------------------------------------------------------------------------
(* Properties                                                                *)

UpdTypeOK ==
    /\ updForm \in UpdForms /\ updServed \in 1..UpdLast
    /\ updDisk \in [FileNames -> {Partial, NoFile} \cup 1..UpdLast]
    /\ updRun \in {NoFile} \cup 1..UpdLast /\ updWant \in {NoFile} \cup 1..UpdLast
    /\ updStep \in {"idle", "download", "verify", "replace", "move", "write", "rename"}

\* Somebody gives own.new the name of own: the batch file that waits, or the wrapper.
Promoted == updForm = "wrapped" \/ updSwapBat

\* In all four packagings, whatever is truncated, published, refused, denied or interrupted
\* between check, download and swap: no incomplete file ever gets the agent's name, and it is
\* gone only between the two renames of the Windows agent, or while somebody is to give
\* a complete own.new its name.  What stands apart is what the code does not take up again:
\* a second rename that failed, a crash between the two or before the batch file ran, and
\* a write of own.new that was cut off, which the wrapper gives the name of own all the same.
NeverWithoutACopy ==
    updCut \/ /\ updDisk["own"] = NoFile \/ Complete(updDisk["own"])
              /\ \/ Complete(updDisk["own"])
                 \/ updStep = "move"
                 \/ Promoted /\ Complete(updDisk["new"])

\* An agent comes to run the published release, if its form can run that at all, unless its
\* swap was cut off; a running Rust agent without its file finds no hash to compare.
ReachesPublished ==
    \A v \in 1..UpdLast :
        updServed = v /\ Runs(updForm, v)
            ~> \/ updServed # v \/ updRun = v \/ updCut
               \/ updForm = "wrapped" /\ updDisk["own"] = NoFile

UpdSpec == UpdInit /\ [][UpdNext]_updVars
=============================================================================

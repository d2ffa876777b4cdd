----------------------------- MODULE SingleSiteRun -----------------------------
(***************************************************************************)
(* A run whose every request reaches the one deployment that drives it.    *)
(* Its status column then tells where its instance is, which is what the   *)
(* gates and the restart rely on, and the run keeps RunContract.           *)
(***************************************************************************)
EXTENDS ProductionRun

CONSTANT Site   \* the one deployment

ASSUME SingleSite == Deployments = {Site}

\* The statuses that the row can show while the instance is at a step.
StatusesAt(pc) ==
  CASE pc = "none" -> {"none", "pending"}
    [] pc \in {"load", "fetch"} -> {"pending"}
    [] pc = "strategy" -> {"pending", "fetching"}
    [] pc = "accept1" -> {"strategy"}
    [] pc = "gate1" -> {"strategy", "pending"}
    [] pc \in {"announce1", "await1", "apply1"} -> {"hitl_1"}
    [] pc = "produce" -> {"strategy", "hitl_1", "revising"}
    [] pc \in {"write", "render", "audit"} -> {"production"}
    [] pc = "gate2" -> {"production", "pending"}
    [] pc \in {"announce2", "await2", "publishing", "reject", "changes", "revise"} ->
         {"hitl_2"}
    [] pc \in {"read", "cms", "save"} -> {"publishing"}
    [] pc = "compliance" -> {"published"}
    [] pc \in {"close", "completed"} -> Ended
    [] pc = "onError" -> Statuses \ {"none", "failed"}
    [] pc = "errored" -> {"failed", "pending"}

Restarting == {"restart", "undoRestart"}
Claimed    == {"apply1", "send1", "undo1", "edit2", "send2", "undo2"}

\* The inductive invariant: the status tells where the instance is, a claimed restart
\* has the stopped instance to itself, and nobody creates the instance twice.
StatusTracksStep ==
  /\ row.status \in StatusesAt(wf[Site].pc)
  /\ wf[Site].rescue = NoRescue
  /\ \A c \in Clients :
       /\ req[c].pc = "launch" => row.status = "pending" /\ wf[Site].pc = "none"
       /\ req[c].pc \in Restarting => row.status = "pending" /\ wf[Site].pc = "errored"
       /\ req[c].pc \in Claimed => wf[Site].pc # "none"
       /\ \A k \in Clients :
            /\ req[c].pc \in Restarting /\ req[k].pc \in Restarting => c = k
            /\ req[c].pc = "launch" /\ req[k].pc = "launch" => c = k

\* The run as the contract sees it.
Stage ==
  CASE row.status = "hitl_1" -> "gate1"
    [] row.status = "hitl_2" -> "gate2"
    [] row.status \in {"rejected", "changes_requested"} -> "closed"
    [] row.status \in {"publishing", "published", "failed"} -> row.status
    [] OTHER -> "working"

Contract == INSTANCE RunContract WITH stage <- Stage, shown <- live

\* Every step of the run is one that RunContract allows, or none: the code's statuses,
\* claims, retries and restarts implement the desk's view of a run.
KeepsContract == Contract!Spec
=============================================================================

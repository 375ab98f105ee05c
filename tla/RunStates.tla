------------------------------ MODULE RunStates ------------------------------
(***************************************************************************)
(* Statuses of document_runs, work_items and pipeline stages, and the      *)
(* transitions RunControlService admits.  Every transition locks the run   *)
(* row, compares its status with allowed_from and then writes: the sets    *)
(* below are those allowed_from sets.                                      *)
(***************************************************************************)

RunStatuses == {"queued", "running", "paused", "draining", "succeeded",
                "succeeded_with_warnings", "failed", "cancelled"}

TerminalRun == {"succeeded", "succeeded_with_warnings", "failed", "cancelled"}

\* Statuses a run loop drives; every other run is left to the supervisor.
DrivenRun == {"running", "draining"}

CanPause  == {"queued", "running", "draining"}
CanResume == {"queued", "paused"}
CanDrain  == {"queued", "running", "paused"}
CanCancel == {"queued", "running", "paused", "draining"}
CanFail   == {"queued", "running", "paused", "draining"}
CanSucceed == {"queued", "running", "draining"}

\* The system transitions return silently when the run has left allowed_from.
PausedBySystem(r)    == IF r \in CanPause THEN "paused" ELSE r
FailedBySystem(r)    == IF r \in CanFail THEN "failed" ELSE r
SucceededBySystem(r) == IF r \in CanSucceed THEN "succeeded" ELSE r

-----------------------------------------------------------------------------
ItemStatuses == {"pending", "leased", "running", "succeeded",
                 "retryable_failed", "terminal_failed", "cancelled"}

\* Statuses a worker owns, statuses a claim accepts, statuses nothing leaves.
Owned     == {"leased", "running"}
Claimable == {"pending", "retryable_failed"}
Settled   == {"succeeded", "terminal_failed", "cancelled"}
=============================================================================

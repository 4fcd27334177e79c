---------------------------- MODULE RunLifecycle ----------------------------
(***************************************************************************)
(* The run state machine of packages/core/src/run.ts: the closed set of    *)
(* run states, which of them are terminal, and the transition table every  *)
(* Coordinator.transition consults through assertTransition.               *)
(***************************************************************************)

RunState == {"QUEUED", "PREPARING", "RUNNING", "WAITING", "WAITING_FOR_TOOL",
             "WAITING_FOR_SUBAGENT", "WAITING_FOR_HUMAN", "VERIFYING",
             "COMPLETED", "FAILED", "BLOCKED", "CANCELLED"}

TERMINAL_RUN_STATES == {"COMPLETED", "FAILED", "BLOCKED", "CANCELLED"}

\* A run parked on durable waits; the code always tests the two together.
Parked == {"WAITING", "WAITING_FOR_HUMAN"}

RUN_TRANSITIONS == [from \in RunState |->
    CASE from = "QUEUED"    -> {"PREPARING", "CANCELLED", "FAILED"}
      [] from = "PREPARING" -> {"RUNNING", "FAILED", "CANCELLED"}
      [] from = "RUNNING"   -> RunState \ {"QUEUED", "PREPARING", "RUNNING"}
      [] from = "WAITING"   -> {"RUNNING", "WAITING_FOR_HUMAN", "BLOCKED",
                                "FAILED", "CANCELLED"}
      [] from \in {"WAITING_FOR_TOOL", "WAITING_FOR_SUBAGENT"}
                            -> {"RUNNING", "FAILED", "CANCELLED"}
      [] from = "WAITING_FOR_HUMAN" -> {"RUNNING", "WAITING", "BLOCKED", "CANCELLED"}
      [] from = "VERIFYING" -> {"RUNNING", "COMPLETED", "FAILED", "CANCELLED"}
      [] from = "COMPLETED" -> {}
      [] from \in {"FAILED", "CANCELLED"} -> {"QUEUED"}
      [] from = "BLOCKED"   -> {"QUEUED", "CANCELLED"}]

isTerminal(state) == state \in TERMINAL_RUN_STATES

canTransition(from, to) == to \in RUN_TRANSITIONS[from]
=============================================================================

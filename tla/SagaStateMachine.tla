-------------------------- MODULE SagaStateMachine --------------------------
(***************************************************************************)
(* The saga state machine every billing handler goes through               *)
(* (packages/shared-py/opticloud_shared/saga/state_machine.py) and the two *)
(* lookups SagaOrchestrator.apply makes in it.  Timeouts, retry counts and *)
(* compensation names of a transition are metadata that no code reads to   *)
(* decide anything and are left out.                                       *)
(***************************************************************************)

State == {"pending", "reserved", "charged", "completed",
          "failed", "refunded", "rolled_back"}

TERMINAL_STATES == {"completed", "failed", "refunded", "rolled_back"}

Transition(from, to, trigger) ==
    [from_state |-> from, to_state |-> to, trigger |-> trigger]

TRANSITIONS ==
    { Transition("pending",  "reserved",    "reserve"),
      Transition("pending",  "failed",      "balance_insufficient"),
      Transition("reserved", "charged",     "service_success"),
      Transition("reserved", "refunded",    "user_cancel"),
      Transition("reserved", "failed",      "pre_charge_guard_reject"),
      Transition("charged",  "completed",   "outbox_delivered"),
      Transition("charged",  "rolled_back", "downstream_reject_late") }

valid_transitions_from(current) ==
    {t \in TRANSITIONS : t.from_state = current}

(* Mutant: the lookup forgets the current state. *)
find_transition_from_anywhere(current, trigger) ==
    {t \in TRANSITIONS : t.trigger = trigger}

(* The transitions trigger makes from current: none or one.                *)
find_transition(current, trigger) ==
    {t \in valid_transitions_from(current) : t.trigger = trigger}

(* A trigger whose target state has already been reached is a replay.      *)
is_idempotent_replay(current, trigger) ==
    \E t \in TRANSITIONS : t.trigger = trigger /\ t.to_state = current
=============================================================================

------------------------ MODULE MCProviderOnboarding ------------------------
(***************************************************************************)
(* The whole of provider onboarding: the intake, the version updates and   *)
(* the rollout of one provider share its application row and the workers.  *)
(* Version updates and rollouts only read the application, so in the       *)
(* instance for TLC each behaviour follows one of the two; what is checked *)
(* of version updates is about requests that do not overlap.               *)
(***************************************************************************)
EXTENDS ProviderVersions, ProviderRollout, TLC

vars == <<intakeVars, versionVars, rolloutVars>>

Init == IntakeInit /\ VersionInit /\ RolloutInit

Next ==
    \E w \in Workers :
        \/ IntakeNext(w) /\ UNCHANGED <<versionVars, rolloutVars>>
        \/ VersionNext(w) /\ UNCHANGED rolloutVars
        \/ RolloutNext(w) /\ UNCHANGED versionVars

Spec == Init /\ [][Next]_vars

VARIABLE track

Tables ==
    [versions |-> {"none", "application", "version"},
     rollouts |-> {"none", "application", "evaluation", "run", "sample", "finalize", "rollout"}]

MCInit == Init /\ track \in DOMAIN Tables

MCNext ==
    /\ Next
    /\ \A w \in Workers : req'[w].table \in Tables[track]
    /\ track = "versions" => overlaps' = 0
    /\ UNCHANGED track

MCSpec == MCInit /\ [][MCNext]_<<vars, track>>

WorkerSymmetry == Permutations(Workers)

(* A patch, a minor change and what mixes them up. *)
SmallSemvers == {<<1, 0, 0>>, <<1, 0, 1>>, <<1, 1, 0>>}

(* A good sample, a later one that is slow and deviates, one of the other   *)
(* class that timed out.                                                    *)
SmallSamples ==
    {[class |-> "normal", at |-> 0, ok |-> TRUE, timed_out |-> FALSE, deviation |-> 1,
      provider_ms |-> 3, baseline_ms |-> 2],
     [class |-> "edge", at |-> 3, ok |-> TRUE, timed_out |-> FALSE, deviation |-> 4,
      provider_ms |-> 3, baseline_ms |-> 2],
     [class |-> "edge", at |-> 2, ok |-> TRUE, timed_out |-> FALSE, deviation |-> 8,
      provider_ms |-> 3, baseline_ms |-> 2]}
=============================================================================

-------------------------------- MODULE Plan --------------------------------
(***************************************************************************)
(* Planning one scope (ReconciliationEngine::BuildPlanLocked,              *)
(* src/src/engine.cpp): classify the scope (module Drift), turn every      *)
(* record into a decision under the policy and the live authority, and     *)
(* conclude a verdict for the whole scope.                                 *)
(*                                                                         *)
(* The input of Drift is extended by `active', whether the policy of the   *)
(* request is the one in the store, and `fenced', the subjects a stored    *)
(* fence covers at the live epoch.  The engine passes at most one intent,  *)
(* the committed one.  Explanations, reason codes, digests and counters    *)
(* are left out.                                                           *)
(***************************************************************************)
EXTENDS Drift

CONSTANTS MaxPlanActions    \* RuntimeLimits::max_plan_actions

VARIABLES decisions, verdict

vars == <<driftVars, decisions, verdict>>

\* A classification BuildPlanLocked asked for carries what the engine adds to
\* it; any other is a call of ClassifyScope alone.
IsRequest(in) == "active" \in DOMAIN in

\* The bound on decisions is a number, and what the engine adds to an input is
\* well formed.
ASSUME PlanAssumption ==
    /\ MaxPlanActions \in Nat
    /\ \A in \in {i \in Inputs : IsRequest(i)} :
         /\ in.active \in BOOLEAN
         /\ in.fenced \subseteq Subjects
         /\ \A d, e \in in.intents : d = e
         /\ \A d \in in.intents : in.committed = d.generation

-----------------------------------------------------------------------------
(* One decision. *)

Act(action) == [action |-> action, disposition |-> "Actionable"]
Refrain(disposition) == [action |-> "None", disposition |-> disposition]

\* The kinds of the deltas that are neither observe-only nor unmanaged.
ActionableKinds == {"OnlyInIntent", "OnlyInObservation", "NotComparable",
                    "ValueMismatch"}

\* Fault: an observe-only difference does not block what another one calls for.
OfMismatchDespiteExempt(r, policy) ==
    LET actionable == Kinds(r.deltas) \cap ActionableKinds # {}
    IN  IF ~policy.permit_apply_mismatched THEN Refrain("Blocked")
        ELSE IF actionable THEN Act("ApplyDesired")
        ELSE IF "ObserveOnly" \in Kinds(r.deltas) THEN Refrain("Blocked")
        ELSE Refrain("AlreadySatisfied")

\* A subject whose attributes differ.
OfMismatch(r, policy) ==
    LET observe_only == "ObserveOnly" \in Kinds(r.deltas)
        actionable == Kinds(r.deltas) \cap ActionableKinds # {}
    IN  IF ~policy.permit_apply_mismatched THEN Refrain("Blocked")
        ELSE IF actionable /\ ~observe_only THEN Act("ApplyDesired")
        ELSE IF observe_only THEN Refrain("Blocked")
        ELSE Refrain("AlreadySatisfied")

\* What the policy makes of a record, before authority is considered.
ByPolicy(r, policy) ==
    CASE r.drift = "AlreadyConverged" -> Refrain("AlreadySatisfied")
      [] r.drift = "Missing" ->
           IF policy.permit_apply_missing THEN Act("ApplyDesired")
           ELSE Refrain("Blocked")
      [] r.drift = "Unexpected" ->
           IF policy.permit_withdraw_unexpected THEN Act("WithdrawSubject")
           ELSE Refrain("Blocked")
      [] r.drift = "Mismatched" -> OfMismatch(r, policy)
      [] r.drift = "Conflict" -> Refrain("Conflicted")
      [] r.drift = "Unsupported" -> Refrain("Unsupported")
      [] OTHER -> Refrain("Indeterminate")

\* Fault: the epoch in which the observation was received is not compared.
AssessAuthorityAnyEpoch(s) ==
    /\ input.active
    /\ intent # None /\ intent.generation # 0
    /\ observation # None /\ observation.generation # 0
    /\ freshness = "Fresh"
    /\ s \notin input.fenced

\* BuildAuthority and AssessAuthority: no component of the vector fails.
AssessAuthority(s) ==
    /\ input.active
    /\ intent # None /\ intent.generation # 0
    /\ observation # None /\ observation.generation # 0
    /\ observation.received_epoch = input.live_epoch
    /\ freshness = "Fresh"
    /\ s \notin input.fenced

MakeDecision(r) ==
    LET chosen == ByPolicy(r, input.policy)
        final == IF chosen.disposition = "Actionable"
                    /\ ~AssessAuthority(r.subject)
                 THEN Refrain(IF r.subject \in input.fenced
                              THEN "Fenced" ELSE "Blocked")
                 ELSE chosen
    IN  [subject |-> r.subject, drift |-> r.drift,
         action |-> final.action, disposition |-> final.disposition]

\* One iteration of the loop over the report.
Decide ==
    /\ pc = "done" /\ IsRequest(input)
    /\ verdict = None
    /\ Len(decisions) < Len(records)
    /\ Len(decisions) < MaxPlanActions
    /\ decisions' = Append(decisions,
                           MakeDecision(records[Len(decisions) + 1]))
    /\ UNCHANGED <<driftVars, verdict>>

-----------------------------------------------------------------------------
(* The verdict. *)

Dispositions == {decisions[i].disposition : i \in DOMAIN decisions}

truncated == Len(decisions) < Len(records)

any_indeterminate ==
    Dispositions \cap {"Indeterminate", "Conflicted", "Unsupported"} # {}
any_actionable == "Actionable" \in Dispositions
any_blocked == Dispositions \cap {"Blocked", "Fenced"} # {}

\* Fault: the bound is forgotten once the loop is left.
VerdictOfDecisions ==
    IF intent = None \/ observation = None THEN "Indeterminate"
    ELSE IF freshness # "Fresh" \/ any_indeterminate THEN "Indeterminate"
    ELSE IF any_actionable THEN "ConvergenceRequired"
    ELSE IF any_blocked THEN "ProvenBlocked"
    ELSE "ConvergedProven"

Verdict ==
    IF truncated THEN "SearchLimitReached"
    ELSE IF intent = None \/ observation = None THEN "Indeterminate"
    ELSE IF freshness # "Fresh" \/ any_indeterminate THEN "Indeterminate"
    ELSE IF any_actionable THEN "ConvergenceRequired"
    ELSE IF any_blocked THEN "ProvenBlocked"
    ELSE "ConvergedProven"

Conclude ==
    /\ pc = "done" /\ IsRequest(input)
    /\ verdict = None
    /\ Len(decisions) \in {Len(records), MaxPlanActions}
    /\ verdict' = Verdict
    /\ UNCHANGED <<driftVars, decisions>>

Init == DriftInit /\ decisions = <<>> /\ verdict = None

Classify == ClassifyScope /\ UNCHANGED <<decisions, verdict>>

Next == Classify \/ Decide \/ Conclude

Spec == Init /\ [][Next]_vars

-----------------------------------------------------------------------------
(* Properties. *)

\* Decisions and verdict have their types (BuildPlanLocked).
TypeOK ==
    /\ DriftTypeOK
    /\ \A i \in DOMAIN decisions :
         /\ decisions[i].subject \in Subjects
         /\ decisions[i].action \in {"None", "ApplyDesired",
                                     "WithdrawSubject"}
         /\ decisions[i].disposition = "Actionable" <=>
              decisions[i].action # "None"
    /\ verdict \in {None, "ConvergedProven", "ConvergenceRequired",
                    "ProvenBlocked", "Indeterminate", "SearchLimitReached"}

\* No observe-only attribute that both sides have, with values of one kind,
\* differs in subject s.
ExemptAgree(d, o, s) ==
    LET desired == d.subjects[s].desired
        observed == o.subjects[s].observed
    IN  \A k \in Managed(desired) \cap Managed(observed) :
          /\ k \in input.policy.observe_only
          /\ desired[k].kind = observed[k].kind
          => desired[k] = observed[k]

\* No action without proven authority and a proven difference
\* (BuildPlanLocked, AssessAuthority): whatever a plan would do is called for by
\* the current documents, received in this epoch, under the active policy and
\* outside every fence. A value that differs in an observe-only attribute blocks
\* the subject, whatever else differs in it. (Nothing is claimed of an
\* observe-only attribute one side lacks or holds with another kind: policy.hpp
\* exempts it too, and the code acts on it.)
ActionsAreJustified ==
    \A i \in DOMAIN decisions :
      LET s == decisions[i].subject
          action == decisions[i].action
      IN  action # "None" =>
            \E d \in input.intents, o \in input.observations :
               /\ SoundEvidence(d, o)
               /\ d.generation # 0 /\ o.generation # 0
               /\ o.received_epoch = input.live_epoch
               /\ input.active
               /\ s \notin input.fenced
               /\ action = "WithdrawSubject" =>
                    /\ s \in DOMAIN o.subjects \ DOMAIN d.subjects
                    /\ d.complete
                    /\ input.policy.permit_withdraw_unexpected
               /\ action = "ApplyDesired" =>
                    /\ s \in DOMAIN d.subjects
                    /\ s \notin DOMAIN o.subjects =>
                         input.policy.permit_apply_missing
                    /\ s \in DOMAIN o.subjects =>
                         /\ input.policy.permit_apply_mismatched
                         /\ NoGap(d, o, s)
                         /\ ~SameState(d, o, s)
                         /\ ExemptAgree(d, o, s)

\* The documents, soundly selected and fresh, list the same subjects with the
\* same managed attributes.
SameScope(d, o) ==
    /\ SoundEvidence(d, o)
    /\ DOMAIN d.subjects = DOMAIN o.subjects
    /\ \A s \in DOMAIN d.subjects : SameState(d, o, s)

\* Both documents enumerate all their subjects and all attributes of each.
FullyCovered(d, o) ==
    /\ d.complete /\ o.complete
    /\ \A s \in DOMAIN d.subjects : d.subjects[s].complete_attributes
    /\ \A s \in DOMAIN o.subjects : o.subjects[s].complete_attributes

\* A scope is concluded proven converged only when sound evidence shows no
\* difference and the bound left no subject undecided, and whenever that is so
\* under complete coverage (BuildPlanLocked). Nothing is claimed of equal
\* documents without it: plan.hpp and policy.hpp ask for complete coverage, and
\* the code concludes without it too.
ConvergedIsProven ==
    verdict # None =>
      /\ verdict = "ConvergedProven" =>
           /\ Len(records) <= MaxPlanActions
           /\ \E d \in input.intents, o \in input.observations :
                SameScope(d, o)
      /\ /\ Len(records) <= MaxPlanActions
         /\ \E d \in input.intents, o \in input.observations :
              SameScope(d, o) /\ FullyCovered(d, o)
         => verdict = "ConvergedProven"
=============================================================================

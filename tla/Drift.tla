------------------------------- MODULE Drift --------------------------------
(***************************************************************************)
(* Drift classification of one scope (ClassifyScope, src/src/drift.cpp).   *)
(*                                                                         *)
(* The input holds candidate intents and observations, the committed       *)
(* intent generation, a policy, the live epoch and the time.  The code     *)
(* selects one document of each kind, leaves early with one class for      *)
(* every subject when the evidence is not good enough, and otherwise       *)
(* merges the two sorted subject maps with two iterators, one record per   *)
(* step.  `left' and `right' are what each iterator still has before it.   *)
(*                                                                         *)
(* Data.  Subjects are numbers, for their order.  A map is a function on   *)
(* the keys present.  A digest is the document it is computed from, so the *)
(* candidates, which the code keeps in a list, are a set.  A record keeps  *)
(* its class and the kind of every attribute difference; reason codes,     *)
(* counters and evidence classes are left out.                             *)
(***************************************************************************)
EXTENDS Integers, Sequences, FiniteSets

CONSTANTS
    Subjects, Attributes,
    Values,             \* records with a field `kind'
    Inputs,             \* the classification inputs explored
    None

VARIABLES
    input,              \* ClassificationInput
    pc,                 \* select, uniform, merge, done
    left, right,        \* subjects the two iterators have not passed
    records             \* ClassificationReport::records

driftVars == <<input, pc, left, right, records>>

-----------------------------------------------------------------------------
(* Documents. *)

IsSubjectState(st) ==
    DOMAIN st \subseteq Attributes /\ \A k \in DOMAIN st : st[k] \in Values

IsIntent(doc) ==
    /\ doc.generation \in Nat
    /\ doc.complete \in BOOLEAN
    /\ DOMAIN doc.subjects \subseteq Subjects
    /\ \A s \in DOMAIN doc.subjects :
         /\ doc.subjects[s].complete_attributes \in BOOLEAN
         /\ IsSubjectState(doc.subjects[s].desired)

IsObservation(doc) ==
    /\ doc.generation \in Nat
    /\ doc.complete \in BOOLEAN
    /\ doc.authoritative_absence \in BOOLEAN
    /\ doc.received_epoch \in Nat
    /\ doc.received_unix_ms \in Nat
    /\ DOMAIN doc.subjects \subseteq Subjects
    /\ \A s \in DOMAIN doc.subjects :
         /\ doc.subjects[s].complete_attributes \in BOOLEAN
         /\ IsSubjectState(doc.subjects[s].observed)

Policy == [require_current_epoch : BOOLEAN, max_observation_age_ms : Nat,
           require_complete_coverage_for_absence : BOOLEAN,
           permit_apply_missing : BOOLEAN, permit_apply_mismatched : BOOLEAN,
           permit_withdraw_unexpected : BOOLEAN,
           unmanaged : SUBSET Attributes, observe_only : SUBSET Attributes]

-----------------------------------------------------------------------------
(* Selecting evidence. *)

\* The classes of a record (drift.hpp).
DriftClass == {"AlreadyConverged", "Missing", "Unexpected", "Mismatched",
               "StaleObservation", "StaleIntent", "Conflict", "Unknown",
               "Unsupported"}

Newest(docs) ==
    {d \in docs : \A e \in docs : e.generation <= d.generation}

\* Subjects are ordered by number, and an input is made of well-formed
\* documents, few enough that some are the newest.
ASSUME InputsAssumption ==
    /\ Subjects \subseteq Nat
    /\ None \notin DriftClass
    /\ \A in \in Inputs :
         /\ \A doc \in in.intents : IsIntent(doc) /\ doc # None
         /\ \A doc \in in.observations : IsObservation(doc) /\ doc # None
         /\ in.intents # {} => Newest(in.intents) # {}
         /\ in.observations # {} => Newest(in.observations) # {}
         /\ in.committed \in Nat \cup {None}
         /\ in.policy \in Policy
         /\ in.live_epoch \in Nat
         /\ in.now \in Nat

Conflicted(docs) == \E d, e \in Newest(docs) : d # e

\* SelectCurrentIntent, SelectCurrentObservation: the highest generation, or
\* nothing when two documents with different digests carry it.
Selected(docs) ==
    IF docs = {} \/ Conflicted(docs) THEN None
    ELSE CHOOSE d \in docs : d \in Newest(docs)

intent == Selected(input.intents)
observation == Selected(input.observations)

EvaluateFreshness(doc, policy, live_epoch, now) ==
    IF policy.require_current_epoch /\ doc.received_epoch # live_epoch
    THEN "ForeignEpoch"
    ELSE IF policy.max_observation_age_ms = 0 THEN "Fresh"
    ELSE IF now < doc.received_unix_ms THEN "ClockRegression"
    ELSE IF now - doc.received_unix_ms > policy.max_observation_age_ms
    THEN "Expired" ELSE "Fresh"

freshness ==
    EvaluateFreshness(observation, input.policy, input.live_epoch, input.now)

intent_regressed ==
    /\ input.committed # None
    /\ intent # None
    /\ intent.generation < input.committed

\* The class every subject gets when there is nothing to compare.
UniformClass ==
    IF Conflicted(input.intents) \/ Conflicted(input.observations)
    THEN "Conflict"
    ELSE IF intent_regressed \/ (intent = None /\ input.committed # None)
    THEN "StaleIntent"
    ELSE IF intent = None \/ observation = None THEN "Unknown"
    ELSE IF freshness # "Fresh" THEN "StaleObservation"
    ELSE None

AllSubjects ==
    UNION ({DOMAIN doc.subjects : doc \in input.intents}
             \cup {DOMAIN doc.subjects : doc \in input.observations})

UniformSubjects ==
    IF UniformClass = "Unknown" /\ intent # None
    THEN DOMAIN intent.subjects ELSE AllSubjects

-----------------------------------------------------------------------------
(* Comparing one subject. *)

IsValid(v) == v.kind # "Invalid"

\* Fault: an attribute only the observation has is no difference.
DeltaKindOfDeclared(declared, seen, policy, k) ==
    IF k \in policy.unmanaged THEN "Unmanaged"
    ELSE IF k \notin DOMAIN declared.desired THEN "Equal"
    ELSE IF k \notin DOMAIN seen.observed
    THEN IF seen.complete_attributes THEN "OnlyInIntent" ELSE "Gap"
    ELSE IF declared.desired[k] = seen.observed[k] THEN "Equal"
    ELSE "ValueMismatch"

\* What one iteration of WalkAttributes makes of key k.
DeltaKind(declared, seen, policy, k) ==
    IF k \in policy.unmanaged THEN "Unmanaged"
    ELSE IF k \notin DOMAIN seen.observed
    THEN IF seen.complete_attributes THEN "OnlyInIntent" ELSE "Gap"
    ELSE IF k \notin DOMAIN declared.desired
    THEN IF declared.complete_attributes THEN "OnlyInObservation" ELSE "Gap"
    ELSE LET v == declared.desired[k]
             w == seen.observed[k]
         IN  IF ~IsValid(v) \/ ~IsValid(w) THEN "Unsupported"
             ELSE IF v.kind # w.kind THEN "NotComparable"
             ELSE IF v = w THEN "Equal"
             ELSE IF k \in policy.observe_only THEN "ObserveOnly"
             ELSE "ValueMismatch"

WalkAttributes(declared, seen, policy) ==
    [k \in DOMAIN declared.desired \cup DOMAIN seen.observed |->
        DeltaKind(declared, seen, policy, k)]

Kinds(walk) == {walk[k] : k \in DOMAIN walk}

HasActionableDelta(walk) ==
    Kinds(walk) \cap {"OnlyInIntent", "OnlyInObservation", "NotComparable",
                      "ObserveOnly", "ValueMismatch"} # {}

\* Fault: a lone observe-only difference becomes a class of its own.
WalkClassObserveOnly(walk) ==
    IF "Unsupported" \in Kinds(walk) THEN "Unsupported"
    ELSE IF "Gap" \in Kinds(walk) THEN "Unknown"
    ELSE IF Kinds(walk) = {"ObserveOnly"} THEN "ObserveOnly"
    ELSE IF HasActionableDelta(walk) THEN "Mismatched"
    ELSE "AlreadyConverged"

WalkClass(walk) ==
    IF "Unsupported" \in Kinds(walk) THEN "Unsupported"
    ELSE IF "Gap" \in Kinds(walk) THEN "Unknown"
    ELSE IF HasActionableDelta(walk) THEN "Mismatched"
    ELSE "AlreadyConverged"

\* Fault: complete coverage alone is taken for the right to assert absence.
absence_allowedByCoverage ==
    input.policy.require_complete_coverage_for_absence => observation.complete

absence_allowed ==
    input.policy.require_complete_coverage_for_absence =>
        observation.complete /\ observation.authoritative_absence

unexpected_allowed == intent.complete

-----------------------------------------------------------------------------
(* The report. *)

\* s is what an iterator that still has `rest' before it points to.
IsFront(s, rest) == s \in rest /\ \A t \in rest : s <= t

MakeRecord(s, drift, deltas) ==
    [subject |-> s, drift |-> drift, deltas |-> deltas]

Report(r) == records' = Append(records, r)

Select ==
    /\ pc = "select"
    /\ IF UniformClass # None
       THEN /\ pc' = "uniform"
            /\ left' = UniformSubjects
            /\ right' = {}
       ELSE /\ pc' = "merge"
            /\ left' = DOMAIN intent.subjects
            /\ right' = DOMAIN observation.subjects
    /\ UNCHANGED <<input, records>>

ReportUniform ==
    /\ pc = "uniform"
    /\ \E s \in left :
         /\ IsFront(s, left)
         /\ Report(MakeRecord(s, UniformClass, <<>>))
         /\ left' = left \ {s}
    /\ UNCHANGED <<input, pc, right>>

\* Fault: the iterators are not compared.
OnlyIntendedUnordered ==
    /\ pc = "merge"
    /\ \E s \in left \ right :
         /\ IsFront(s, left)
         /\ Report(MakeRecord(s, "Unknown", <<>>))
         /\ left' = left \ {s}
    /\ UNCHANGED <<input, pc, right>>

\* A subject the intent declares and the observation does not report.
OnlyIntended ==
    /\ pc = "merge"
    /\ \E s \in left :
         /\ IsFront(s, left)
         /\ \A t \in right : s < t
         /\ LET declared == intent.subjects[s]
                managed == DOMAIN declared.desired \ input.policy.unmanaged
            IN  Report(IF absence_allowed
                       THEN MakeRecord(s, "Missing",
                                [k \in managed |-> "OnlyInIntent"])
                       ELSE MakeRecord(s, "Unknown", <<>>))
         /\ left' = left \ {s}
    /\ UNCHANGED <<input, pc, right>>

\* A subject the observation reports and the intent does not declare.
OnlyObserved ==
    /\ pc = "merge"
    /\ \E s \in right :
         /\ IsFront(s, right)
         /\ \A t \in left : s < t
         /\ LET seen == observation.subjects[s]
                managed == DOMAIN seen.observed \ input.policy.unmanaged
            IN  Report(IF unexpected_allowed
                       THEN MakeRecord(s, "Unexpected",
                                [k \in managed |-> "OnlyInObservation"])
                       ELSE MakeRecord(s, "Unknown", <<>>))
         /\ right' = right \ {s}
    /\ UNCHANGED <<input, pc, left>>

\* A subject in both documents.
Both ==
    /\ pc = "merge"
    /\ \E s \in left \cap right :
         /\ IsFront(s, left)
         /\ IsFront(s, right)
         /\ LET walk == WalkAttributes(intent.subjects[s],
                                       observation.subjects[s], input.policy)
            IN  Report(MakeRecord(s, WalkClass(walk), walk))
         /\ left' = left \ {s}
         /\ right' = right \ {s}
    /\ UNCHANGED <<input, pc>>

Return ==
    /\ pc \in {"uniform", "merge"}
    /\ left = {} /\ right = {}
    /\ pc' = "done"
    /\ UNCHANGED <<input, left, right, records>>

DriftInit ==
    /\ input \in Inputs
    /\ pc = "select"
    /\ left = {} /\ right = {}
    /\ records = <<>>

ClassifyScope ==
    Select \/ ReportUniform \/ OnlyIntended \/ OnlyObserved \/ Both \/ Return

DriftSpec == DriftInit /\ [][ClassifyScope]_driftVars

-----------------------------------------------------------------------------
(* Properties. *)

\* The report and the iterators have their types (ClassifyScope).
DriftTypeOK ==
    /\ pc \in {"select", "uniform", "merge", "done"}
    /\ left \subseteq Subjects /\ right \subseteq Subjects
    /\ \A i \in DOMAIN records : /\ records[i].subject \in Subjects
                                /\ records[i].drift \in DriftClass

Reported == {records[i].subject : i \in DOMAIN records}

\* The merge of ClassifyScope neither skips a subject nor reports one twice:
\* at every step the records are in ascending order and, with what the
\* iterators have before them, they are all the subjects there are.
EverySubjectOnce ==
    pc # "select" =>
      /\ Reported \cup left \cup right =
           IF UniformClass # None THEN UniformSubjects
           ELSE DOMAIN intent.subjects \cup DOMAIN observation.subjects
      /\ Reported \cap (left \cup right) = {}
      /\ \A i, j \in DOMAIN records :
           i < j => records[i].subject < records[j].subject

\* d and o are the evidence the scope may be judged by: the only documents of
\* their generation, none newer, the intent not behind the committed one and
\* the observation within the freshness horizon of the policy.
SoundEvidence(d, o) ==
    /\ \A e \in input.intents \ {d} : e.generation < d.generation
    /\ \A e \in input.observations \ {o} : e.generation < o.generation
    /\ input.committed # None => d.generation >= input.committed
    /\ input.policy.require_current_epoch =>
         o.received_epoch = input.live_epoch
    /\ input.policy.max_observation_age_ms > 0 =>
         input.now \in o.received_unix_ms ..
             (o.received_unix_ms + input.policy.max_observation_age_ms)

Managed(st) == DOMAIN st \ input.policy.unmanaged

\* Subject s has the same managed attributes, with the same values, in both.
SameState(d, o, s) ==
    LET desired == d.subjects[s].desired
        observed == o.subjects[s].observed
    IN  /\ Managed(desired) = Managed(observed)
        /\ \A k \in Managed(desired) :
             IsValid(desired[k]) /\ desired[k] = observed[k]

\* Every managed attribute of one side that the other lacks is lacking because
\* the other side enumerates them all.
NoGap(d, o, s) ==
    LET declared == d.subjects[s]
        seen == o.subjects[s]
    IN  /\ Managed(declared.desired) \subseteq DOMAIN seen.observed
             \/ seen.complete_attributes
        /\ Managed(seen.observed) \subseteq DOMAIN declared.desired
             \/ declared.complete_attributes

\* A subject is reported converged exactly when sound evidence shows it with
\* the managed attributes the intent declares (ClassifyScope, WalkAttributes).
ConvergedMeansEqual ==
    \A i \in DOMAIN records :
      LET s == records[i].subject
      IN  records[i].drift = "AlreadyConverged" <=>
            \E d \in input.intents, o \in input.observations :
               /\ SoundEvidence(d, o)
               /\ s \in DOMAIN d.subjects \cap DOMAIN o.subjects
               /\ SameState(d, o, s)

\* A difference is reported only when sound evidence with sufficient coverage
\* proves one: a gap never becomes an absence (ClassifyScope).
DifferencesAreProven ==
    \A i \in DOMAIN records :
      LET s == records[i].subject
          drift == records[i].drift
      IN  drift \in {"Missing", "Unexpected", "Mismatched"} =>
            \E d \in input.intents, o \in input.observations :
               /\ SoundEvidence(d, o)
               /\ drift = "Missing" =>
                    /\ s \in DOMAIN d.subjects \ DOMAIN o.subjects
                    /\ input.policy.require_complete_coverage_for_absence =>
                         o.complete /\ o.authoritative_absence
               /\ drift = "Unexpected" =>
                    s \in DOMAIN o.subjects \ DOMAIN d.subjects /\ d.complete
               /\ drift = "Mismatched" =>
                    /\ s \in DOMAIN d.subjects \cap DOMAIN o.subjects
                    /\ NoGap(d, o, s)
                    /\ ~SameState(d, o, s)

=============================================================================

----------------------------- MODULE Plan_proofs -----------------------------
(***************************************************************************)
(* Proofs about classification and planning (modules Drift and Plan), for  *)
(* every set of inputs, subjects, attributes and values and every bound.   *)
(***************************************************************************)
EXTENDS Plan, SequenceTheorems, TLAPS

-----------------------------------------------------------------------------
(* Selecting evidence. *)

\* Of documents that do not conflict the one selected is newer than the others.
LEMMA SelectedIsNewest ==
    ASSUME NEW docs, Newest(docs) # {}, ~Conflicted(docs),
           \A d \in docs : d.generation \in Nat
    PROVE  /\ Selected(docs) \in docs
           /\ \A e \in docs \ {Selected(docs)} :
                e.generation < Selected(docs).generation
<1>1. docs # {} /\ \E d \in docs : d \in Newest(docs)
  BY DEF Newest
<1>2. Selected(docs) \in docs /\ Selected(docs) \in Newest(docs)
  BY <1>1 DEF Selected
<1>3. ASSUME NEW e \in docs \ {Selected(docs)}
      PROVE  e.generation < Selected(docs).generation
  <2>1. e \notin Newest(docs)
    BY <1>2, <1>3 DEF Conflicted
  <2>2. PICK f \in docs : ~(f.generation <= e.generation)
    BY <2>1 DEF Newest
  <2> QED  BY <1>2, <2>2 DEF Newest
<1> QED  BY <1>2, <1>3

\* Documents one of which is newer than all others do not conflict, and it is
\* the one selected.
LEMMA NewestIsSelected ==
    ASSUME NEW docs, NEW d \in docs,
           \A e \in docs : e.generation \in Nat,
           \A e \in docs \ {d} : e.generation < d.generation
    PROVE  ~Conflicted(docs) /\ Selected(docs) = d
<1>1. Newest(docs) = {d}
  BY DEF Newest
<1>2. ~Conflicted(docs)
  BY <1>1 DEF Conflicted
<1> QED  BY <1>1, <1>2 DEF Selected

\* A candidate of an input is a well-formed document.
LEMMA CandidatesType ==
    ASSUME input \in Inputs
    PROVE  /\ \A d \in input.intents : IsIntent(d) /\ d # None
                                       /\ d.generation \in Nat
           /\ \A o \in input.observations :
                IsObservation(o) /\ o # None /\ o.generation \in Nat
           /\ input.intents # {} => Newest(input.intents) # {}
           /\ input.observations # {} => Newest(input.observations) # {}
           /\ input.committed \in Nat \cup {None}
           /\ input.policy \in Policy
           /\ input.live_epoch \in Nat /\ input.now \in Nat
  BY InputsAssumption DEF IsIntent, IsObservation

\* What is selected is a candidate, newer than the others.
LEMMA SelectionType ==
    ASSUME input \in Inputs
    PROVE  /\ intent # None =>
                /\ intent \in input.intents /\ ~Conflicted(input.intents)
                /\ \A e \in input.intents \ {intent} :
                     e.generation < intent.generation
           /\ observation # None =>
                /\ observation \in input.observations
                /\ ~Conflicted(input.observations)
                /\ \A e \in input.observations \ {observation} :
                     e.generation < observation.generation
<1>1. ASSUME intent # None
      PROVE  input.intents # {} /\ ~Conflicted(input.intents)
  BY <1>1 DEF intent, Selected
<1>2. ASSUME observation # None
      PROVE  input.observations # {} /\ ~Conflicted(input.observations)
  BY <1>2 DEF observation, Selected
<1>3. ASSUME intent # None
      PROVE  /\ intent \in input.intents
             /\ \A e \in input.intents \ {intent} :
                  e.generation < intent.generation
  BY <1>1, <1>3, CandidatesType, SelectedIsNewest DEF intent
<1>4. ASSUME observation # None
      PROVE  /\ observation \in input.observations
             /\ \A e \in input.observations \ {observation} :
                  e.generation < observation.generation
  BY <1>2, <1>4, CandidatesType, SelectedIsNewest DEF observation
<1> QED  BY <1>1, <1>2, <1>3, <1>4

\* The age and the epoch SoundEvidence asks for are those EvaluateFreshness calls
\* fresh.
LEMMA FreshIsWithinHorizon ==
    ASSUME input \in Inputs, NEW o \in input.observations
    PROVE  EvaluateFreshness(o, input.policy, input.live_epoch, input.now)
             = "Fresh"
           <=> /\ input.policy.require_current_epoch =>
                    o.received_epoch = input.live_epoch
               /\ input.policy.max_observation_age_ms > 0 =>
                    input.now \in o.received_unix_ms ..
                        (o.received_unix_ms
                           + input.policy.max_observation_age_ms)
<1>1. /\ input.now \in Nat /\ o.received_unix_ms \in Nat
      /\ input.policy.max_observation_age_ms \in Nat
  BY CandidatesType DEF IsObservation, Policy
<1> QED  BY <1>1 DEF EvaluateFreshness

\* Evidence is sound exactly when it is what ClassifyScope selects and goes on
\* with.
LEMMA SoundIsSelected ==
    ASSUME input \in Inputs,
           NEW d \in input.intents, NEW o \in input.observations
    PROVE  SoundEvidence(d, o)
             <=> UniformClass = None /\ d = intent /\ o = observation
<1>0. None \notin DriftClass
  BY InputsAssumption
<1>1. ASSUME SoundEvidence(d, o)
      PROVE  UniformClass = None /\ d = intent /\ o = observation
  <2>1. /\ \A e \in input.intents \ {d} : e.generation < d.generation
        /\ \A e \in input.observations \ {o} : e.generation < o.generation
    BY <1>1 DEF SoundEvidence
  <2>2. ~Conflicted(input.intents) /\ intent = d
    BY <2>1, CandidatesType, NewestIsSelected DEF intent
  <2>3. ~Conflicted(input.observations) /\ observation = o
    BY <2>1, CandidatesType, NewestIsSelected DEF observation
  <2>4. freshness = "Fresh"
    BY <1>1, <2>3, FreshIsWithinHorizon DEF freshness, SoundEvidence
  <2>5. ~intent_regressed
    BY <1>1, <2>2, CandidatesType DEF intent_regressed, SoundEvidence
  <2>6. intent # None /\ observation # None
    BY <2>2, <2>3, CandidatesType
  <2> QED  BY <2>2, <2>3, <2>4, <2>5, <2>6 DEF UniformClass
<1>2. ASSUME UniformClass = None, d = intent, o = observation
      PROVE  SoundEvidence(d, o)
  <2>1. intent # None /\ observation # None
    BY <1>2, CandidatesType
  <2>2. freshness = "Fresh" /\ ~intent_regressed
    BY <1>0, <1>2 DEF UniformClass, DriftClass
  <2>3. /\ \A e \in input.intents \ {d} : e.generation < d.generation
        /\ \A e \in input.observations \ {o} : e.generation < o.generation
    BY <1>2, <2>1, SelectionType
  <2>4. input.committed # None => d.generation >= input.committed
    BY <1>2, <2>1, <2>2, CandidatesType DEF intent_regressed
  <2> QED  BY <1>2, <2>2, <2>3, <2>4, FreshIsWithinHorizon
           DEF SoundEvidence, freshness
<1> QED  BY <1>1, <1>2

\* When no class is common to all subjects both documents are there.
LEMMA Comparable ==
    ASSUME input \in Inputs, UniformClass = None
    PROVE  /\ intent \in input.intents /\ observation \in input.observations
           /\ IsIntent(intent) /\ IsObservation(observation)
           /\ intent # None /\ observation # None /\ freshness = "Fresh"
           /\ SoundEvidence(intent, observation)
<1>1. intent # None /\ observation # None /\ freshness = "Fresh"
  BY InputsAssumption DEF UniformClass, DriftClass
<1>2. intent \in input.intents /\ observation \in input.observations
  BY <1>1, SelectionType
<1> QED  BY <1>1, <1>2, CandidatesType, SoundIsSelected

-----------------------------------------------------------------------------
(* Comparing one subject. *)

DeltaKinds == {"Unmanaged", "OnlyInIntent", "OnlyInObservation", "Gap",
               "Unsupported", "NotComparable", "Equal", "ObserveOnly",
               "ValueMismatch"}

\* The kinds of the differences WalkAttributes finds.
LEMMA KindType ==
    ASSUME NEW declared, NEW seen, NEW policy, NEW k
    PROVE  DeltaKind(declared, seen, policy, k) \in DeltaKinds
  BY DEF DeltaKind, DeltaKinds

\* No difference is found in an attribute exactly when it is not managed, or both
\* sides have it with the same valid value.
LEMMA NoDifference ==
    ASSUME NEW declared, NEW seen, NEW policy,
           NEW k \in DOMAIN declared.desired \cup DOMAIN seen.observed
    PROVE  DeltaKind(declared, seen, policy, k) \in {"Equal", "Unmanaged"}
           <=> (k \notin policy.unmanaged =>
                  /\ k \in DOMAIN declared.desired \cap DOMAIN seen.observed
                  /\ IsValid(declared.desired[k])
                  /\ declared.desired[k] = seen.observed[k])
  BY DEF DeltaKind

\* A managed attribute of one side only is a gap unless the other enumerates all.
LEMMA GapOrComplete ==
    ASSUME NEW declared, NEW seen, NEW policy,
           NEW k \in DOMAIN declared.desired \cup DOMAIN seen.observed,
           DeltaKind(declared, seen, policy, k) # "Gap",
           k \notin policy.unmanaged
    PROVE  /\ k \in DOMAIN seen.observed \/ seen.complete_attributes
           /\ k \in DOMAIN declared.desired \/ declared.complete_attributes
  BY DEF DeltaKind

\* The kinds of a walk are those of its keys.
LEMMA WalkKinds ==
    ASSUME NEW declared, NEW seen, NEW policy
    PROVE  Kinds(WalkAttributes(declared, seen, policy)) =
             {DeltaKind(declared, seen, policy, k) :
                k \in DOMAIN declared.desired \cup DOMAIN seen.observed}
  BY Zenon DEF Kinds, WalkAttributes

\* The class of a walk, by its kinds.
LEMMA WalkClasses ==
    ASSUME NEW walk, Kinds(walk) \subseteq DeltaKinds
    PROVE  /\ WalkClass(walk) \in {"AlreadyConverged", "Mismatched", "Unknown",
                                   "Unsupported"}
           /\ WalkClass(walk) = "AlreadyConverged"
                <=> Kinds(walk) \subseteq {"Equal", "Unmanaged"}
           /\ WalkClass(walk) = "Mismatched" =>
                /\ "Gap" \notin Kinds(walk)
                /\ ~(Kinds(walk) \subseteq {"Equal", "Unmanaged"})
                /\ \/ Kinds(walk) \cap ActionableKinds # {}
                   \/ "ObserveOnly" \in Kinds(walk)
  BY DEF WalkClass, HasActionableDelta, DeltaKinds, ActionableKinds

\* The walk over subject s of the two documents.
Walk(d, o, s) ==
    WalkAttributes(d.subjects[s], o.subjects[s], input.policy)

\* The walk of a subject finds no difference exactly when its state is the same,
\* and proves one only when no gap is in the way.
LEMMA WalkIsExact ==
    ASSUME NEW d, NEW o, NEW s
    PROVE  /\ Kinds(Walk(d, o, s)) \subseteq DeltaKinds
           /\ WalkClass(Walk(d, o, s)) = "AlreadyConverged"
                <=> SameState(d, o, s)
           /\ WalkClass(Walk(d, o, s)) = "Mismatched" =>
                NoGap(d, o, s) /\ ~SameState(d, o, s)
<1> DEFINE declared == d.subjects[s]
           seen == o.subjects[s]
           keys == DOMAIN declared.desired \cup DOMAIN seen.observed
           kind(k) == DeltaKind(declared, seen, input.policy, k)
           walk == Walk(d, o, s)
<1>1. Kinds(walk) = {kind(k) : k \in keys}
  BY WalkKinds DEF Walk
<1>2. Kinds(walk) \subseteq DeltaKinds
  BY <1>1, KindType
<1>3. Kinds(walk) \subseteq {"Equal", "Unmanaged"} <=> SameState(d, o, s)
  <2>1. Kinds(walk) \subseteq {"Equal", "Unmanaged"}
        <=> \A k \in keys : kind(k) \in {"Equal", "Unmanaged"}
    BY <1>1
  <2>2. \A k \in keys : kind(k) \in {"Equal", "Unmanaged"} <=>
           (k \notin input.policy.unmanaged =>
              /\ k \in DOMAIN declared.desired \cap DOMAIN seen.observed
              /\ IsValid(declared.desired[k])
              /\ declared.desired[k] = seen.observed[k])
    BY NoDifference
  <2>3. SameState(d, o, s) <=>
          \A k \in keys : k \notin input.policy.unmanaged =>
            /\ k \in DOMAIN declared.desired \cap DOMAIN seen.observed
            /\ IsValid(declared.desired[k])
            /\ declared.desired[k] = seen.observed[k]
    BY DEF SameState, Managed
  <2> HIDE DEF keys, kind, walk
  <2> QED  BY <2>1, <2>2, <2>3
<1>4. ASSUME "Gap" \notin Kinds(walk)  PROVE NoGap(d, o, s)
  <2>1. \A k \in keys : kind(k) # "Gap"
    BY <1>1, <1>4
  <2>2. \A k \in keys : k \notin input.policy.unmanaged =>
          /\ k \in DOMAIN seen.observed \/ seen.complete_attributes
          /\ k \in DOMAIN declared.desired \/ declared.complete_attributes
    BY <2>1, GapOrComplete
  <2> QED  BY <2>2 DEF NoGap, Managed
<1> HIDE DEF walk, kind
<1>5. /\ WalkClass(walk) = "AlreadyConverged"
           <=> Kinds(walk) \subseteq {"Equal", "Unmanaged"}
      /\ WalkClass(walk) = "Mismatched" =>
           /\ "Gap" \notin Kinds(walk)
           /\ ~(Kinds(walk) \subseteq {"Equal", "Unmanaged"})
  BY <1>2, WalkClasses
<1>6. /\ WalkClass(walk) = "AlreadyConverged" <=> SameState(d, o, s)
      /\ WalkClass(walk) = "Mismatched" => NoGap(d, o, s) /\ ~SameState(d, o, s)
  BY <1>3, <1>4, <1>5
<1> QED  BY <1>2, <1>6 DEF walk

-----------------------------------------------------------------------------
(* The inductive invariant. *)

\* What a record says is what ClassifyScope makes of its subject.
Judged(r) ==
    \/ UniformClass # None /\ r.drift = UniformClass
    \/ /\ UniformClass = None
       /\ r.subject \in DOMAIN intent.subjects \ DOMAIN observation.subjects
       /\ r.drift = IF absence_allowed THEN "Missing" ELSE "Unknown"
    \/ /\ UniformClass = None
       /\ r.subject \in DOMAIN observation.subjects \ DOMAIN intent.subjects
       /\ r.drift = IF unexpected_allowed THEN "Unexpected" ELSE "Unknown"
    \/ /\ UniformClass = None
       /\ r.subject \in DOMAIN intent.subjects \cap DOMAIN observation.subjects
       /\ r.deltas = Walk(intent, observation, r.subject)
       /\ r.drift = WalkClass(r.deltas)

\* The report so far: every record judged, in ascending order.
RecordsInv ==
    /\ \E S : records \in Seq(S)
    /\ \A i \in 1 .. Len(records) :
         records[i].subject \in Subjects /\ Judged(records[i])
    /\ \A i, j \in 1 .. Len(records) :
         i < j => records[i].subject < records[j].subject

Compared == DOMAIN intent.subjects \cup DOMAIN observation.subjects

\* What the iterators have before them is what is not reported yet, and comes
\* after all that is.
ProgressInv ==
    /\ pc \in {"select", "uniform", "merge", "done"}
    /\ pc = "select" => records = <<>> /\ left = {} /\ right = {}
    /\ pc = "uniform" =>
         /\ UniformClass # None /\ Reported \subseteq UniformSubjects
         /\ left = UniformSubjects \ Reported /\ right = {}
    /\ pc = "merge" =>
         /\ UniformClass = None /\ Reported \subseteq Compared
         /\ left = DOMAIN intent.subjects \ Reported
         /\ right = DOMAIN observation.subjects \ Reported
    /\ pc = "done" =>
         /\ left = {} /\ right = {}
         /\ Reported = IF UniformClass # None THEN UniformSubjects ELSE Compared
    /\ \A i \in 1 .. Len(records) : \A t \in left \cup right :
         records[i].subject < t

\* The decisions are those of the first records, within the bound, and the
\* verdict is that of all of them.
DecisionsInv ==
    /\ \E S : decisions \in Seq(S)
    /\ Len(decisions) <= Len(records) /\ Len(decisions) <= MaxPlanActions
    /\ \A i \in 1 .. Len(decisions) : decisions[i] = MakeDecision(records[i])
    /\ Len(decisions) > 0 \/ verdict # None => pc = "done" /\ IsRequest(input)
    /\ verdict # None => /\ Len(decisions) \in {Len(records), MaxPlanActions}
                         /\ verdict = Verdict

IInv == input \in Inputs /\ RecordsInv /\ ProgressInv /\ DecisionsInv

-----------------------------------------------------------------------------
(* It is inductive. *)

\* What is computed from the input alone stays while the input does.
LEMMA InputStays ==
    ASSUME input' = input
    PROVE  /\ intent' = intent /\ observation' = observation
           /\ UniformClass' = UniformClass
           /\ UniformSubjects' = UniformSubjects /\ Compared' = Compared
           /\ \A r : Judged(r)' <=> Judged(r)
           /\ \A r : MakeDecision(r)' = MakeDecision(r)
<1>1. intent' = intent /\ observation' = observation
  BY DEF intent, observation
<1>2. freshness' = freshness
  BY <1>1 DEF freshness
<1>3. intent_regressed' <=> intent_regressed
  BY <1>1 DEF intent_regressed
<1>4. UniformClass' = UniformClass
  BY <1>1, <1>2, <1>3 DEF UniformClass
<1>5. AllSubjects' = AllSubjects
  BY DEF AllSubjects
<1>6. UniformSubjects' = UniformSubjects /\ Compared' = Compared
  BY <1>1, <1>4, <1>5 DEF UniformSubjects, Compared
<1>7. (absence_allowed' <=> absence_allowed)
      /\ (unexpected_allowed' <=> unexpected_allowed)
  BY <1>1 DEF absence_allowed, unexpected_allowed
<1>8. \A d, o, s : Walk(d, o, s)' = Walk(d, o, s)
  BY DEF Walk
<1>9. \A r : Judged(r)' <=> Judged(r)
  BY <1>1, <1>4, <1>7, <1>8 DEF Judged, Walk
<1>10. \A s : AssessAuthority(s)' <=> AssessAuthority(s)
  BY <1>1, <1>2 DEF AssessAuthority
<1>11. \A r : MakeDecision(r)' = MakeDecision(r)
  BY <1>10 DEF MakeDecision
<1> QED  BY <1>1, <1>4, <1>6, <1>9, <1>11

\* A sequence with one element more.
LEMMA Appended ==
    ASSUME NEW S, NEW seq \in Seq(S), NEW e
    PROVE  /\ Append(seq, e) \in Seq(S \cup {e})
           /\ Len(seq) \in Nat /\ Len(Append(seq, e)) = Len(seq) + 1
           /\ \A i \in 1 .. Len(seq) : Append(seq, e)[i] = seq[i]
           /\ Append(seq, e)[Len(seq) + 1] = e
<1>1. seq \in Seq(S \cup {e}) /\ e \in S \cup {e}
  OBVIOUS
<1> QED  BY <1>1

\* The subjects reported, by index.
LEMMA ReportedByIndex ==
    ASSUME NEW S, records \in Seq(S)
    PROVE  Reported = {records[i].subject : i \in 1 .. Len(records)}
  BY DEF Reported

\* A record of a subject beyond all others extends the report.
LEMMA Reporting ==
    ASSUME RecordsInv, input' = input, NEW r, Report(r), Judged(r),
           r.subject \in Subjects,
           \A i \in 1 .. Len(records) : records[i].subject < r.subject
    PROVE  /\ RecordsInv'
           /\ Reported' = Reported \cup {r.subject}
           /\ Len(records) \in Nat /\ Len(records') = Len(records) + 1
           /\ \A i \in 1 .. Len(records) : records'[i] = records[i]
           /\ records'[Len(records) + 1] = r
<1>1. PICK S : records \in Seq(S)
  BY DEF RecordsInv
<1>2. /\ records' \in Seq(S \cup {r})
      /\ Len(records) \in Nat /\ Len(records') = Len(records) + 1
      /\ \A i \in 1 .. Len(records) : records'[i] = records[i]
      /\ records'[Len(records) + 1] = r
  BY <1>1, Appended DEF Report
<1>3. \A i \in 1 .. Len(records') :
        records'[i].subject \in Subjects /\ Judged(records[i])'
  <2>1. \A i \in 1 .. Len(records') : i \in 1 .. Len(records) \/ i = Len(records) + 1
    BY <1>2
  <2>2. \A i \in 1 .. Len(records') :
          records'[i].subject \in Subjects /\ Judged(records'[i])
    BY Zenon, <1>2, <2>1 DEF RecordsInv
  <2>3. ASSUME NEW i \in 1 .. Len(records')
        PROVE  Judged(records[i])'
    <3>1. PICK q : q = records'[i]
      OBVIOUS
    <3>2. Judged(q)
      BY <2>2, <3>1
    <3>3. Judged(q)'
      BY <3>2, InputStays
    <3> QED  BY <3>1, <3>3 DEF Judged
  <2> QED  BY <2>2, <2>3
<1>4. \A i, j \in 1 .. Len(records') :
        i < j => records'[i].subject < records'[j].subject
  <2> SUFFICES ASSUME NEW i \in 1 .. Len(records'), NEW j \in 1 .. Len(records'),
                      i < j
               PROVE  records'[i].subject < records'[j].subject
    OBVIOUS
  <2>1. i \in 1 .. Len(records)
    BY <1>2
  <2>2. CASE j \in 1 .. Len(records)
    BY <1>2, <2>1, <2>2 DEF RecordsInv
  <2>3. CASE j = Len(records) + 1
    BY <1>2, <2>1, <2>3
  <2> QED  BY SMTT(60), <1>2, <2>2, <2>3
<1>5. Reported' = Reported \cup {r.subject}
  <2>1. Reported = {records[i].subject : i \in 1 .. Len(records)}
    BY <1>1, ReportedByIndex
  <2>2. Reported' = {records'[i].subject : i \in 1 .. Len(records')}
    BY <1>2 DEF Reported
  <2>3. 1 .. Len(records') = 1 .. Len(records) \cup {Len(records) + 1}
    BY <1>2
  <2> QED  BY <1>2, <2>1, <2>2, <2>3
<1>6. RecordsInv'
  BY <1>2, <1>3, <1>4 DEF RecordsInv
<1> QED  BY <1>2, <1>5, <1>6

\* The report stays what it is when neither it nor the input changes.
LEMMA RecordsStay ==
    ASSUME RecordsInv, input' = input, records' = records
    PROVE  RecordsInv' /\ Reported' = Reported
<1>1. Reported' = Reported
  BY DEF Reported
<1>2. ASSUME NEW i \in 1 .. Len(records)  PROVE Judged(records[i])'
  <2>1. PICK q : q = records[i]
    OBVIOUS
  <2>2. Judged(q)'
    BY <2>1, InputStays DEF RecordsInv
  <2> QED  BY <2>1, <2>2 DEF Judged
<1> QED  BY <1>1, <1>2 DEF RecordsInv

\* The subjects of an input are subjects.
LEMMA SubjectsType ==
    ASSUME input \in Inputs
    PROVE  /\ UniformSubjects \subseteq Subjects
           /\ UniformClass = None =>
                /\ DOMAIN intent.subjects \subseteq Subjects
                /\ DOMAIN observation.subjects \subseteq Subjects
<1>1. AllSubjects \subseteq Subjects
  BY CandidatesType DEF AllSubjects, IsIntent, IsObservation
<1>2. intent # None => DOMAIN intent.subjects \subseteq Subjects
  BY SelectionType, CandidatesType DEF IsIntent
<1>3. UniformClass = None =>
        /\ DOMAIN intent.subjects \subseteq Subjects
        /\ DOMAIN observation.subjects \subseteq Subjects
  BY Comparable DEF IsIntent, IsObservation
<1> QED  BY Zenon, <1>1, <1>2, <1>3 DEF UniformSubjects

\* The iterators run over subjects, which are numbers.
LEMMA IteratorsType ==
    ASSUME IInv
    PROVE  left \subseteq Subjects /\ right \subseteq Subjects
           /\ Subjects \subseteq Nat
  BY SubjectsType, InputsAssumption DEF IInv, ProgressInv

\* No decision is made while the report is.
LEMMA UndecidedStays ==
    ASSUME IInv, pc # "done", UNCHANGED <<decisions, verdict>>, RecordsInv'
    PROVE  DecisionsInv'
<1>1. PICK S : decisions \in Seq(S)
  BY DEF IInv, DecisionsInv
<1>2. Len(decisions) \in Nat /\ ~(Len(decisions) > 0) /\ verdict = None
  BY <1>1 DEF IInv, DecisionsInv
<1>3. PICK R : records' \in Seq(R)
  BY DEF RecordsInv
<1>4. Len(records') \in Nat
  BY <1>3
<1>5. Len(decisions') = 0
  BY <1>2
<1>6. \A i \in 1 .. Len(decisions) : decisions'[i] = MakeDecision(records[i])'
  BY <1>5
<1>7. MaxPlanActions \in Nat
  BY PlanAssumption
<1> QED  BY <1>1, <1>2, <1>4, <1>5, <1>6, <1>7 DEF DecisionsInv

\* The invariant holds at the start.
LEMMA InitInv == Init => IInv
<1> SUFFICES ASSUME Init PROVE IInv
  OBVIOUS
<1>1. /\ input \in Inputs /\ pc = "select" /\ left = {} /\ right = {}
      /\ records = <<>> /\ decisions = <<>> /\ verdict = None
  BY DEF Init, DriftInit
<1>2. <<>> \in Seq({}) /\ Len(<<>>) = 0
  OBVIOUS
<1>3. RecordsInv
  BY <1>1, <1>2 DEF RecordsInv
<1>4. ProgressInv
  BY <1>1, <1>2 DEF ProgressInv
<1>5. DecisionsInv
  BY <1>1, <1>2, PlanAssumption DEF DecisionsInv
<1> QED  BY <1>1, <1>3, <1>4, <1>5 DEF IInv

\* Choosing the uniform case or the merge.
LEMMA SelectInv ==
    ASSUME IInv, Select, UNCHANGED <<decisions, verdict>>
    PROVE  IInv'
<1>1. /\ input' = input /\ records' = records /\ pc = "select"
      /\ records = <<>> /\ input \in Inputs
  BY DEF Select, IInv, ProgressInv
<1>2. RecordsInv' /\ Reported' = Reported
  BY <1>1, RecordsStay DEF IInv
<1>3. DecisionsInv'
  BY <1>1, <1>2, UndecidedStays
<1>4. Reported = {} /\ Len(records') = 0
  BY <1>1 DEF Reported
<1>5. ProgressInv'
  <2>1. \A i \in 1 .. Len(records') : FALSE
    BY <1>4
  <2>2. CASE UniformClass # None
    <3>1. pc' = "uniform" /\ left' = UniformSubjects /\ right' = {}
      BY <2>2 DEF Select
    <3> QED  BY Zenon, <1>1, <1>2, <1>4, <2>1, <2>2, <3>1, InputStays
                DEF ProgressInv
  <2>3. CASE UniformClass = None
    <3>1. /\ pc' = "merge" /\ left' = DOMAIN intent.subjects
          /\ right' = DOMAIN observation.subjects
      BY <2>3 DEF Select
    <3> QED  BY Zenon, <1>1, <1>2, <1>4, <2>1, <2>3, <3>1, InputStays DEF ProgressInv
  <2> QED  BY <2>2, <2>3
<1> QED  BY Zenon, <1>1, <1>2, <1>3, <1>5 DEF IInv

\* A record of the front of the iterators, which advance past it.
LEMMA ReportInv ==
    ASSUME IInv, UNCHANGED <<input, pc, decisions, verdict>>,
           pc \in {"uniform", "merge"},
           NEW r, Report(r), Judged(r),
           r.subject \in left \cup right,
           \A t \in left \cup right : r.subject <= t,
           left' = left \ {r.subject}, right' = right \ {r.subject}
    PROVE  IInv'
<1>1. /\ left \subseteq Subjects /\ right \subseteq Subjects
      /\ Subjects \subseteq Nat
  BY IteratorsType
<1>2. \A i \in 1 .. Len(records) : records[i].subject < r.subject
  BY DEF IInv, ProgressInv
<1>3. /\ RecordsInv'
      /\ Reported' = Reported \cup {r.subject}
      /\ Len(records) \in Nat /\ Len(records') = Len(records) + 1
      /\ \A i \in 1 .. Len(records) : records'[i] = records[i]
      /\ records'[Len(records) + 1] = r
  BY Zenon, <1>1, <1>2, Reporting DEF IInv
<1>4. DecisionsInv'
  BY <1>3, UndecidedStays
<1>5. ProgressInv'
  <2>1. \A i \in 1 .. Len(records') : \A t \in left' \cup right' :
          records'[i].subject < t
    <3> SUFFICES ASSUME NEW i \in 1 .. Len(records'), NEW t \in left' \cup right'
                 PROVE  records'[i].subject < t
      OBVIOUS
    <3>1. t \in left \cup right /\ t # r.subject /\ t \in Nat
      BY <1>1
    <3>2. CASE i \in 1 .. Len(records)
      BY Zenon, <1>3, <3>1, <3>2 DEF IInv, ProgressInv
    <3>3. CASE i = Len(records) + 1
      <4>1. records'[i].subject = r.subject
        BY <1>3, <3>3
      <4>2. r.subject \in Nat /\ r.subject <= t
        BY Zenon, <1>1, <3>1
      <4> QED  BY <3>1, <4>1, <4>2
    <3> QED  BY <1>3, <3>2, <3>3
  <2>2. CASE pc = "uniform"
    BY Zenon, <1>3, <2>1, <2>2, InputStays DEF IInv, ProgressInv
  <2>3. CASE pc = "merge"
    BY <1>3, <2>1, <2>3, InputStays DEF IInv, ProgressInv, Compared
  <2> QED  BY <2>2, <2>3
<1> QED  BY <1>3, <1>4, <1>5 DEF IInv

\* Every step of ClassifyScope keeps the invariant.
LEMMA ClassifyInv == IInv /\ Classify => IInv'
<1> SUFFICES ASSUME IInv, Classify PROVE IInv'
  OBVIOUS
<1>0. /\ UNCHANGED <<decisions, verdict>>
      /\ left \subseteq Subjects /\ right \subseteq Subjects
      /\ Subjects \subseteq Nat
  BY IteratorsType DEF Classify
<1>1. CASE Select
  BY Zenon, <1>0, <1>1, SelectInv
<1>2. CASE ReportUniform
  <2>1. PICK s \in left : /\ IsFront(s, left)
                          /\ Report(MakeRecord(s, UniformClass, <<>>))
                          /\ left' = left \ {s}
    BY Zenon, <1>2 DEF ReportUniform
  <2>2. /\ UNCHANGED <<input, pc, right>> /\ pc = "uniform"
        /\ right = {} /\ UniformClass # None
    BY <1>2 DEF ReportUniform, IInv, ProgressInv
  <2>3. PICK r : r = MakeRecord(s, UniformClass, <<>>)
    BY Zenon
  <2>4. r.subject = s /\ Judged(r)
    BY Zenon, <2>2, <2>3 DEF MakeRecord, Judged
  <2> QED  BY Zenon, <1>0, <2>1, <2>2, <2>3, <2>4, ReportInv DEF IsFront
<1>3. CASE OnlyIntended
  <2>0. /\ UNCHANGED <<input, pc, right>> /\ pc = "merge" /\ UniformClass = None
        /\ left = DOMAIN intent.subjects \ Reported
        /\ right = DOMAIN observation.subjects \ Reported
    BY <1>3 DEF OnlyIntended, IInv, ProgressInv
  <2>1. PICK s, deltas :
          /\ s \in left /\ IsFront(s, left) /\ \A t \in right : s < t
          /\ Report(MakeRecord(s, IF absence_allowed THEN "Missing"
                                  ELSE "Unknown", deltas))
          /\ left' = left \ {s}
    BY <1>3 DEF OnlyIntended
  <2>2. PICK r : r = MakeRecord(s, IF absence_allowed THEN "Missing"
                                   ELSE "Unknown", deltas)
    OBVIOUS
  <2>3. s \notin right /\ s \in Nat
    BY SMTT(60), <1>0, <2>1
  <2>4. r.subject = s /\ Judged(r)
    BY <2>0, <2>1, <2>2, <2>3 DEF MakeRecord, Judged
  <2>5. right' = right \ {s}
    BY <2>0, <2>3
  <2>6. \A t \in left \cup right : s <= t
    <3>1. \A t \in left : s <= t
      BY <2>1 DEF IsFront
    <3>2. \A t \in right : s <= t
      BY SMTT(60), <1>0, <2>1, <2>3
    <3> QED  BY <3>1, <3>2
  <2> QED  BY Zenon, <1>0, <2>0, <2>1, <2>2, <2>4, <2>5, <2>6, ReportInv
<1>4. CASE OnlyObserved
  <2>0. /\ UNCHANGED <<input, pc, left>> /\ pc = "merge" /\ UniformClass = None
        /\ left = DOMAIN intent.subjects \ Reported
        /\ right = DOMAIN observation.subjects \ Reported
    BY <1>4 DEF OnlyObserved, IInv, ProgressInv
  <2>1. PICK s, deltas :
          /\ s \in right /\ IsFront(s, right) /\ \A t \in left : s < t
          /\ Report(MakeRecord(s, IF unexpected_allowed THEN "Unexpected"
                                  ELSE "Unknown", deltas))
          /\ right' = right \ {s}
    BY <1>4 DEF OnlyObserved
  <2>2. PICK r : r = MakeRecord(s, IF unexpected_allowed THEN "Unexpected"
                                   ELSE "Unknown", deltas)
    OBVIOUS
  <2>3. s \notin left /\ s \in Nat
    BY SMTT(60), <1>0, <2>1
  <2>4. r.subject = s /\ Judged(r)
    BY <2>0, <2>1, <2>2, <2>3 DEF MakeRecord, Judged
  <2>5. left' = left \ {s}
    BY <2>0, <2>3
  <2>6. \A t \in left \cup right : s <= t
    <3>1. \A t \in right : s <= t
      BY <2>1 DEF IsFront
    <3>2. \A t \in left : s <= t
      BY SMTT(60), <1>0, <2>1, <2>3
    <3> QED  BY <3>1, <3>2
  <2> QED  BY Zenon, <1>0, <2>0, <2>1, <2>2, <2>4, <2>5, <2>6, ReportInv
<1>5. CASE Both
  <2>0. /\ UNCHANGED <<input, pc>> /\ pc = "merge" /\ UniformClass = None
        /\ left = DOMAIN intent.subjects \ Reported
        /\ right = DOMAIN observation.subjects \ Reported
    BY Zenon, <1>5 DEF Both, IInv, ProgressInv
  <2>1. PICK s \in left \cap right :
          /\ IsFront(s, left) /\ IsFront(s, right)
          /\ Report(MakeRecord(s, WalkClass(Walk(intent, observation, s)),
                               Walk(intent, observation, s)))
          /\ left' = left \ {s} /\ right' = right \ {s}
    BY <1>5 DEF Both, Walk
  <2>2. PICK r : r = MakeRecord(s, WalkClass(Walk(intent, observation, s)),
                                Walk(intent, observation, s))
    OBVIOUS
  <2>3. r.subject = s /\ Judged(r)
    BY <2>0, <2>2 DEF MakeRecord, Judged
  <2>4. \A t \in left \cup right : s <= t
    BY <2>1 DEF IsFront
  <2> QED  BY Zenon, <1>0, <2>0, <2>1, <2>2, <2>3, <2>4, ReportInv
<1>6. CASE Return
  <2>1. /\ UNCHANGED <<input, left, right, records>> /\ pc' = "done"
        /\ pc \in {"uniform", "merge"} /\ left = {} /\ right = {}
    BY <1>6 DEF Return
  <2>2. RecordsInv' /\ Reported' = Reported
    BY <2>1, RecordsStay DEF IInv
  <2>3. DecisionsInv'
    BY SMTT(60), <1>0, <2>1, <2>2, UndecidedStays
  <2>4. Reported = IF UniformClass # None THEN UniformSubjects ELSE Compared
    BY Zenon, <2>1 DEF IInv, ProgressInv, Compared
  <2>5. ProgressInv'
    BY <2>1, <2>2, <2>4, InputStays DEF ProgressInv
  <2> QED  BY <2>1, <2>2, <2>3, <2>5 DEF IInv
<1> QED  BY Zenon, <1>1, <1>2, <1>3, <1>4, <1>5, <1>6 DEF Classify, ClassifyScope

\* While the report is not touched its invariants stay.
LEMMA ReportStays ==
    ASSUME IInv, UNCHANGED driftVars
    PROVE  input' \in Inputs /\ RecordsInv' /\ ProgressInv'
<1>1. /\ input' = input /\ records' = records /\ pc' = pc
      /\ left' = left /\ right' = right
  BY DEF driftVars
<1>2. RecordsInv' /\ Reported' = Reported
  BY Zenon, <1>1, RecordsStay DEF IInv
<1>3. ProgressInv'
  BY <1>1, <1>2, InputStays DEF IInv, ProgressInv
<1> QED  BY <1>1, <1>2, <1>3 DEF IInv

\* Every iteration of the loop over the report keeps it.
LEMMA DecideInv == IInv /\ Decide => IInv'
<1> SUFFICES ASSUME IInv, Decide PROVE IInv'
  OBVIOUS
<1>1. /\ input' = input /\ records' = records /\ pc' = pc /\ verdict' = verdict
      /\ verdict = None /\ pc = "done" /\ IsRequest(input)
      /\ Len(decisions) < Len(records) /\ Len(decisions) < MaxPlanActions
  BY DEF Decide, driftVars
<1>2. PICK S, R : decisions \in Seq(S) /\ records \in Seq(R)
  BY DEF IInv, DecisionsInv, RecordsInv
<1>3. PICK e : e = MakeDecision(records[Len(decisions) + 1])
  OBVIOUS
<1>4. decisions' = Append(decisions, e)
  BY <1>3 DEF Decide
<1>5. /\ decisions' \in Seq(S \cup {e})
      /\ Len(decisions) \in Nat /\ Len(decisions') = Len(decisions) + 1
      /\ \A i \in 1 .. Len(decisions) : decisions'[i] = decisions[i]
      /\ decisions'[Len(decisions) + 1] = e
  BY <1>2, <1>4, Appended
<1>6. \A i \in 1 .. Len(decisions') : decisions'[i] = MakeDecision(records[i])
  <2>1. \A i \in 1 .. Len(decisions') :
          i \in 1 .. Len(decisions) \/ i = Len(decisions) + 1
    BY <1>5
  <2>2. \A i \in 1 .. Len(decisions) : decisions[i] = MakeDecision(records[i])
    BY Zenon DEF IInv, DecisionsInv
  <2> QED  BY <1>3, <1>5, <2>1, <2>2
<1>7. ASSUME NEW i \in 1 .. Len(decisions')
      PROVE  decisions'[i] = MakeDecision(records[i])'
  <2>1. PICK r : r = records[i]
    OBVIOUS
  <2>2. decisions'[i] = MakeDecision(r)'
    BY <1>1, <1>6, <2>1, InputStays
  <2> QED  BY <1>1, <2>1, <2>2 DEF MakeDecision
<1>8. Len(records) \in Nat /\ MaxPlanActions \in Nat
  BY SMTT(60), <1>2, PlanAssumption
<1>9. DecisionsInv'
  BY <1>1, <1>5, <1>7, <1>8 DEF DecisionsInv
<1>10. UNCHANGED driftVars
  BY DEF Decide
<1> QED  BY <1>9, <1>10, ReportStays DEF IInv

\* Nor do the decisions change their meaning, or the verdict of all of them.
LEMMA DecisionsStay ==
    ASSUME IInv, UNCHANGED driftVars, decisions' = decisions
    PROVE  /\ Verdict' = Verdict
           /\ \A i \in 1 .. Len(decisions) :
                decisions[i] = MakeDecision(records[i])'
<1>1. input' = input /\ records' = records
  BY DEF driftVars
<1>2. Verdict' = Verdict
  <2>1. freshness' = freshness
    BY <1>1, InputStays DEF freshness
  <2>2. Dispositions' = Dispositions
    BY Zenon DEF Dispositions
  <2> QED  BY <1>1, <2>1, <2>2, InputStays
           DEF Verdict, truncated, any_indeterminate, any_actionable, any_blocked
<1>3. ASSUME NEW i \in 1 .. Len(decisions)
      PROVE  decisions[i] = MakeDecision(records[i])'
  <2>1. PICK r : r = records[i]
    OBVIOUS
  <2>2. decisions[i] = MakeDecision(r)'
    BY <1>1, <2>1, InputStays DEF IInv, DecisionsInv
  <2> QED  BY <1>1, <2>1, <2>2 DEF MakeDecision
<1> QED  BY <1>2, <1>3

\* The verdict keeps it.
LEMMA ConcludeInv == IInv /\ Conclude => IInv'
<1> SUFFICES ASSUME IInv, Conclude PROVE IInv'
  OBVIOUS
<1>1. /\ UNCHANGED driftVars
      /\ input' = input /\ records' = records /\ pc' = pc
      /\ decisions' = decisions /\ pc = "done" /\ IsRequest(input)
      /\ Len(decisions) \in {Len(records), MaxPlanActions}
      /\ verdict' = Verdict
  BY DEF Conclude, driftVars
<1>2. DecisionsInv'
  BY <1>1, DecisionsStay DEF IInv, DecisionsInv
<1> QED  BY <1>1, <1>2, ReportStays DEF IInv

\* IInv is an invariant of planning.
LEMMA Inductive == Spec => []IInv
<1>1. IInv /\ [Next]_vars => IInv'
  <2> SUFFICES ASSUME IInv, [Next]_vars PROVE IInv'
    OBVIOUS
  <2>1. CASE Next
    BY <2>1, ClassifyInv, DecideInv, ConcludeInv DEF Next
  <2>2. CASE UNCHANGED vars
    <3>1. /\ UNCHANGED driftVars /\ UNCHANGED <<decisions, verdict>>
          /\ input' = input /\ records' = records /\ pc' = pc
      BY <2>2 DEF vars, driftVars
    <3>2. DecisionsInv'
      BY <3>1, DecisionsStay DEF IInv, DecisionsInv
    <3> QED  BY <3>1, <3>2, ReportStays DEF IInv
  <2> QED  BY <2>1, <2>2
<1> QED  BY InitInv, <1>1, PTL DEF Spec

-----------------------------------------------------------------------------
(* What a record says. *)

\* The classes that are common to all subjects.
LEMMA UniformClasses ==
    UniformClass \in {None, "Conflict", "StaleIntent", "Unknown",
                      "StaleObservation"}
  BY DEF UniformClass

\* The class of a judged record is one of drift.hpp.
LEMMA JudgedClass ==
    ASSUME NEW r, Judged(r)
    PROVE  r.drift \in DriftClass
<1>1. CASE r.subject \in DOMAIN intent.subjects \cap DOMAIN observation.subjects
           /\ r.deltas = Walk(intent, observation, r.subject)
           /\ r.drift = WalkClass(r.deltas)
  BY SMTT(60), <1>1 DEF WalkClass, DriftClass
<1> QED  BY SMTT(60), <1>1, UniformClasses DEF Judged, DriftClass

\* A judged record says converged exactly when ConvergedMeansEqual allows it.
LEMMA JudgedConverged ==
    ASSUME input \in Inputs, NEW r, Judged(r)
    PROVE  r.drift = "AlreadyConverged" <=>
             \E d \in input.intents, o \in input.observations :
               /\ SoundEvidence(d, o)
               /\ r.subject \in DOMAIN d.subjects \cap DOMAIN o.subjects
               /\ SameState(d, o, r.subject)
<1> DEFINE s == r.subject
<1>1. CASE UniformClass # None
  <2>1. r.drift # "AlreadyConverged"
    BY SMTT(60), <1>1, UniformClasses DEF Judged
  <2> QED  BY <1>1, <2>1, SoundIsSelected
<1>2. CASE UniformClass = None
  <2>1. (\E d \in input.intents, o \in input.observations :
           /\ SoundEvidence(d, o)
           /\ s \in DOMAIN d.subjects \cap DOMAIN o.subjects
           /\ SameState(d, o, s))
        <=> /\ s \in DOMAIN intent.subjects \cap DOMAIN observation.subjects
            /\ SameState(intent, observation, s)
    BY Zenon, <1>2, SoundIsSelected, Comparable
  <2>2. CASE s \in DOMAIN intent.subjects \cap DOMAIN observation.subjects
    <3>1. r.drift = WalkClass(Walk(intent, observation, s))
      BY SMTT(60), <1>2, <2>2 DEF Judged
    <3> QED  BY SMTT(60), <2>1, <2>2, <3>1, WalkIsExact
  <2>3. CASE s \notin DOMAIN intent.subjects \cap DOMAIN observation.subjects
    <3>1. r.drift # "AlreadyConverged"
      BY Zenon, <1>2, <2>3 DEF Judged
    <3> QED  BY SMTT(60), <2>1, <2>3, <3>1
  <2> QED  BY SMTT(60), <2>2, <2>3
<1> QED  BY <1>1, <1>2

\* A difference a judged record reports is proven by the documents selected.
LEMMA JudgedDifference ==
    ASSUME input \in Inputs, NEW r, Judged(r),
           r.drift \in {"Missing", "Unexpected", "Mismatched"}
    PROVE  /\ UniformClass = None
           /\ r.drift = "Missing" =>
                /\ r.subject \in DOMAIN intent.subjects
                                   \ DOMAIN observation.subjects
                /\ absence_allowed
           /\ r.drift = "Unexpected" =>
                /\ r.subject \in DOMAIN observation.subjects
                                   \ DOMAIN intent.subjects
                /\ unexpected_allowed
           /\ r.drift = "Mismatched" =>
                /\ r.subject \in DOMAIN intent.subjects
                                   \cap DOMAIN observation.subjects
                /\ r.deltas = Walk(intent, observation, r.subject)
                /\ WalkClass(r.deltas) = "Mismatched"
                /\ NoGap(intent, observation, r.subject)
                /\ ~SameState(intent, observation, r.subject)
<1>1. UniformClass = None
  BY Zenon, UniformClasses DEF Judged
<1>2. CASE r.subject \in DOMAIN intent.subjects \cap DOMAIN observation.subjects
  <2>1. /\ r.deltas = Walk(intent, observation, r.subject)
        /\ r.drift = WalkClass(r.deltas)
    BY <1>1, <1>2 DEF Judged
  <2>2. r.drift = "Mismatched"
    BY <2>1 DEF WalkClass
  <2>3. /\ NoGap(intent, observation, r.subject)
        /\ ~SameState(intent, observation, r.subject)
    <3>1. WalkClass(Walk(intent, observation, r.subject)) = "Mismatched"
      BY Zenon, <2>1, <2>2
    <3> QED  BY <3>1, WalkIsExact
  <2> QED  BY Zenon, <1>1, <1>2, <2>1, <2>2, <2>3
<1>3. CASE r.subject \notin DOMAIN intent.subjects \cap DOMAIN observation.subjects
  BY <1>1, <1>3 DEF Judged
<1> QED  BY Zenon, <1>2, <1>3

\* Where no observe-only difference is found, exempt attributes that can be
\* compared are equal.
LEMMA ExemptIsFound ==
    ASSUME NEW d, NEW o, NEW s,
           Kinds(Walk(d, o, s)) \cap {"ObserveOnly", "Unsupported"} = {}
    PROVE  ExemptAgree(d, o, s)
<1> DEFINE declared == d.subjects[s]
           seen == o.subjects[s]
<1> SUFFICES ASSUME NEW k \in Managed(declared.desired)
                               \cap Managed(seen.observed),
                    k \in input.policy.observe_only,
                    declared.desired[k].kind = seen.observed[k].kind
             PROVE  declared.desired[k] = seen.observed[k]
  BY DEF ExemptAgree
<1>1. /\ k \in DOMAIN declared.desired /\ k \in DOMAIN seen.observed
      /\ k \notin input.policy.unmanaged
  BY DEF Managed
<1>2. DeltaKind(declared, seen, input.policy, k) \in Kinds(Walk(d, o, s))
  <2>1. k \in DOMAIN declared.desired \cup DOMAIN seen.observed
    BY <1>1
  <2>2. Kinds(Walk(d, o, s)) =
          {DeltaKind(declared, seen, input.policy, j) :
             j \in DOMAIN declared.desired \cup DOMAIN seen.observed}
    BY WalkKinds DEF Walk
  <2> QED  BY <2>1, <2>2
<1>3. DeltaKind(declared, seen, input.policy, k)
        \notin {"ObserveOnly", "Unsupported"}
  BY Zenon, <1>2
<1> QED  BY <1>1, <1>3 DEF DeltaKind

-----------------------------------------------------------------------------
(* What a decision says. *)

\* What ByPolicy chooses is an action or a reason for none.
LEMMA PolicyChoice ==
    ASSUME NEW r, NEW policy
    PROVE  /\ ByPolicy(r, policy).action \in {"None", "ApplyDesired",
                                              "WithdrawSubject"}
           /\ ByPolicy(r, policy).disposition = "Actionable" <=>
                ByPolicy(r, policy).action # "None"
           /\ ByPolicy(r, policy).disposition \in
                {"Actionable", "AlreadySatisfied", "Blocked", "Conflicted",
                 "Unsupported", "Indeterminate"}
  BY Zenon DEF ByPolicy, OfMismatch, Act, Refrain

\* A decision is for its record, and acts as the policy chose and authority
\* allows.
LEMMA DecisionType ==
    ASSUME NEW r
    PROVE  /\ MakeDecision(r).subject = r.subject
           /\ MakeDecision(r).action \in {"None", "ApplyDesired",
                                          "WithdrawSubject"}
           /\ MakeDecision(r).disposition = "Actionable" <=>
                MakeDecision(r).action # "None"
           /\ MakeDecision(r).action # "None" =>
                /\ AssessAuthority(r.subject)
                /\ MakeDecision(r).action = ByPolicy(r, input.policy).action
           /\ MakeDecision(r).disposition \in
                {"Actionable", "AlreadySatisfied", "Blocked", "Conflicted",
                 "Unsupported", "Indeterminate", "Fenced"}
           /\ MakeDecision(r).disposition = "AlreadySatisfied" <=>
                ByPolicy(r, input.policy).disposition = "AlreadySatisfied"
<1>1. PICK chosen : chosen = ByPolicy(r, input.policy)
  OBVIOUS
<1>2. /\ chosen.action \in {"None", "ApplyDesired", "WithdrawSubject"}
      /\ chosen.disposition = "Actionable" <=> chosen.action # "None"
      /\ chosen.disposition \in
           {"Actionable", "AlreadySatisfied", "Blocked", "Conflicted",
            "Unsupported", "Indeterminate"}
  BY Zenon, <1>1, PolicyChoice
<1> QED  BY Zenon, <1>1, <1>2 DEF MakeDecision, Refrain

\* A record is satisfied exactly when it is converged.
LEMMA SatisfiedIsConverged ==
    ASSUME input \in Inputs, NEW r, Judged(r)
    PROVE  MakeDecision(r).disposition = "AlreadySatisfied" <=>
             r.drift = "AlreadyConverged"
<1>1. ByPolicy(r, input.policy).disposition = "AlreadySatisfied" <=>
        r.drift = "AlreadyConverged"
  <2>1. CASE r.drift = "Mismatched"
    <3>1. /\ r.deltas = Walk(intent, observation, r.subject)
          /\ WalkClass(r.deltas) = "Mismatched"
      BY <2>1, JudgedDifference
    <3>2. Kinds(r.deltas) \subseteq DeltaKinds
      BY <3>1, WalkIsExact
    <3>3. \/ Kinds(r.deltas) \cap ActionableKinds # {}
          \/ "ObserveOnly" \in Kinds(r.deltas)
      BY <3>1, <3>2, WalkClasses
    <3> QED  BY Zenon, <2>1, <3>3 DEF ByPolicy, OfMismatch, Act, Refrain
  <2>2. CASE r.drift # "Mismatched"
    BY <2>2 DEF ByPolicy, OfMismatch, Act, Refrain
  <2> QED  BY <2>1, <2>2
<1> QED  BY <1>1, DecisionType

-----------------------------------------------------------------------------
(* The properties. *)

\* A record of the report, by its index.
LEMMA RecordAt ==
    ASSUME IInv, NEW i \in DOMAIN records
    PROVE  /\ input \in Inputs
           /\ i \in 1 .. Len(records)
           /\ records[i].subject \in Subjects /\ Judged(records[i])
<1>1. PICK S : records \in Seq(S)
  BY DEF IInv, RecordsInv
<1>2. i \in 1 .. Len(records)
  BY <1>1
<1> QED  BY <1>2 DEF IInv, RecordsInv

\* A decision is made of the record with its index.
LEMMA DecisionAt ==
    ASSUME IInv, NEW i \in DOMAIN decisions
    PROVE  /\ i \in DOMAIN records
           /\ decisions[i] = MakeDecision(records[i])
<1>1. PICK S, R : decisions \in Seq(S) /\ records \in Seq(R)
  BY DEF IInv, DecisionsInv, RecordsInv
<1>2. /\ i \in 1 .. Len(decisions) /\ Len(decisions) \in Nat
      /\ Len(records) \in Nat /\ DOMAIN records = 1 .. Len(records)
  BY <1>1
<1> QED  BY <1>2 DEF IInv, DecisionsInv

\* Reports, decisions and verdicts have their types in every behaviour of
\* ClassifyScope and BuildPlanLocked.
THEOREM TypeCorrect == Spec => []TypeOK
<1>1. IInv => TypeOK
  <2> SUFFICES ASSUME IInv PROVE TypeOK
    BY SMTT(60)
  <2>1. DriftTypeOK
    <3>1. \A i \in DOMAIN records : /\ records[i].subject \in Subjects
                                   /\ records[i].drift \in DriftClass
      BY Zenon, RecordAt, JudgedClass
    <3> QED  BY <3>1, IteratorsType DEF DriftTypeOK, IInv, ProgressInv
  <2>2. ASSUME NEW i \in DOMAIN decisions
        PROVE  /\ decisions[i].subject \in Subjects
               /\ decisions[i].action \in {"None", "ApplyDesired",
                                           "WithdrawSubject"}
               /\ decisions[i].disposition = "Actionable" <=>
                    decisions[i].action # "None"
    <3>1. PICK r : r = records[i] /\ r.subject \in Subjects
                   /\ decisions[i] = MakeDecision(r)
      BY DecisionAt, RecordAt
    <3> QED  BY <3>1, DecisionType
  <2>3. verdict \in {None, "ConvergedProven", "ConvergenceRequired",
                     "ProvenBlocked", "Indeterminate", "SearchLimitReached"}
    BY DEF IInv, DecisionsInv, Verdict
  <2> QED  BY <2>1, <2>2, <2>3 DEF TypeOK
<1> QED  BY <1>1, Inductive, PTL

\* The merge neither skips a subject nor reports one twice, for every pair of
\* documents (ClassifyScope).
THEOREM MergeIsComplete == Spec => []EverySubjectOnce
<1>1. IInv => EverySubjectOnce
  <2> SUFFICES ASSUME IInv, pc # "select"
               PROVE  /\ Reported \cup left \cup right =
                           IF UniformClass # None THEN UniformSubjects
                           ELSE Compared
                      /\ Reported \cap (left \cup right) = {}
                      /\ \A i, j \in DOMAIN records :
                           i < j => records[i].subject < records[j].subject
    BY SMTT(60) DEF EverySubjectOnce, Compared
  <2>1. \A i, j \in DOMAIN records :
          i < j => records[i].subject < records[j].subject
    BY RecordAt DEF IInv, RecordsInv
  <2>2. CASE pc = "uniform"
    BY SMTT(60), <2>1, <2>2 DEF IInv, ProgressInv
  <2>3. CASE pc = "merge"
    BY SMTT(60), <2>1, <2>3 DEF IInv, ProgressInv, Compared
  <2>4. CASE pc = "done"
    BY Zenon, <2>1, <2>4 DEF IInv, ProgressInv
  <2> QED  BY SMTT(60), <2>2, <2>3, <2>4 DEF IInv, ProgressInv
<1> QED  BY <1>1, Inductive, PTL

\* A subject is reported converged exactly when sound evidence shows it so, for
\* every pair of documents, policy and time (ClassifyScope, WalkAttributes).
THEOREM ConvergenceIsExact == Spec => []ConvergedMeansEqual
<1>1. IInv => ConvergedMeansEqual
  BY Zenon, RecordAt, JudgedConverged DEF ConvergedMeansEqual
<1> QED  BY <1>1, Inductive, PTL

\* No gap becomes a difference, whatever the evidence (ClassifyScope).
THEOREM DifferencesAreSound == Spec => []DifferencesAreProven
<1>1. IInv => DifferencesAreProven
  <2> SUFFICES ASSUME IInv, NEW i \in DOMAIN records,
                      records[i].drift \in {"Missing", "Unexpected",
                                            "Mismatched"}
               PROVE  \E d \in input.intents, o \in input.observations :
                        /\ SoundEvidence(d, o)
                        /\ records[i].drift = "Missing" =>
                             /\ records[i].subject \in DOMAIN d.subjects
                                                         \ DOMAIN o.subjects
                             /\ input.policy.require_complete_coverage_for_absence
                                  => o.complete /\ o.authoritative_absence
                        /\ records[i].drift = "Unexpected" =>
                             /\ records[i].subject \in DOMAIN o.subjects
                                                         \ DOMAIN d.subjects
                             /\ d.complete
                        /\ records[i].drift = "Mismatched" =>
                             /\ records[i].subject \in DOMAIN d.subjects
                                                         \cap DOMAIN o.subjects
                             /\ NoGap(d, o, records[i].subject)
                             /\ ~SameState(d, o, records[i].subject)
    BY Zenon DEF DifferencesAreProven
  <2>1. PICK r : r = records[i]
    BY Zenon
  <2>2. input \in Inputs /\ Judged(r)
        /\ r.drift \in {"Missing", "Unexpected", "Mismatched"}
    BY Zenon, <2>1, RecordAt
  <2>3. UniformClass = None
    BY SMTT(60), <2>2, JudgedDifference
  <2>4. /\ intent \in input.intents /\ observation \in input.observations
        /\ SoundEvidence(intent, observation)
    BY Zenon, <2>2, <2>3, Comparable
  <2>5. /\ r.drift = "Missing" =>
             /\ r.subject \in DOMAIN intent.subjects
                               \ DOMAIN observation.subjects
             /\ input.policy.require_complete_coverage_for_absence
                  => observation.complete /\ observation.authoritative_absence
        /\ r.drift = "Unexpected" =>
             /\ r.subject \in DOMAIN observation.subjects
                               \ DOMAIN intent.subjects
             /\ intent.complete
        /\ r.drift = "Mismatched" =>
             /\ r.subject \in DOMAIN intent.subjects
                               \cap DOMAIN observation.subjects
             /\ NoGap(intent, observation, r.subject)
             /\ ~SameState(intent, observation, r.subject)
    BY Zenon, <2>2, JudgedDifference DEF absence_allowed, unexpected_allowed
  <2> QED  BY Zenon, <2>1, <2>4, <2>5
<1> QED  BY <1>1, Inductive, PTL

\* Whatever a plan would do is called for by current documents, under the active
\* policy, outside every fence and not against an observe-only value
\* (BuildPlanLocked, AssessAuthority).
THEOREM PlansAreJustified == Spec => []ActionsAreJustified
<1>1. ASSUME IInv, NEW i \in DOMAIN decisions, decisions[i].action # "None"
      PROVE  \E d \in input.intents, o \in input.observations :
               /\ SoundEvidence(d, o)
               /\ d.generation # 0 /\ o.generation # 0
               /\ o.received_epoch = input.live_epoch
               /\ input.active
               /\ decisions[i].subject \notin input.fenced
               /\ decisions[i].action = "WithdrawSubject" =>
                    /\ decisions[i].subject \in DOMAIN o.subjects
                                                  \ DOMAIN d.subjects
                    /\ d.complete
                    /\ input.policy.permit_withdraw_unexpected
               /\ decisions[i].action = "ApplyDesired" =>
                    /\ decisions[i].subject \in DOMAIN d.subjects
                    /\ decisions[i].subject \notin DOMAIN o.subjects =>
                         input.policy.permit_apply_missing
                    /\ decisions[i].subject \in DOMAIN o.subjects =>
                         /\ input.policy.permit_apply_mismatched
                         /\ NoGap(d, o, decisions[i].subject)
                         /\ ~SameState(d, o, decisions[i].subject)
                         /\ ExemptAgree(d, o, decisions[i].subject)
  <2>1. PICK r : r = records[i] /\ decisions[i] = MakeDecision(r)
    BY <1>1, DecisionAt
  <2>2. input \in Inputs /\ Judged(r)
    BY Zenon, <1>1, <2>1, DecisionAt, RecordAt
  <2>3. /\ decisions[i].subject = r.subject
        /\ AssessAuthority(r.subject)
        /\ decisions[i].action = ByPolicy(r, input.policy).action
    BY Zenon, <1>1, <2>1, DecisionType
  <2>4. /\ r.drift \in {"Missing", "Unexpected", "Mismatched"}
        /\ decisions[i].action = "WithdrawSubject" =>
             r.drift = "Unexpected" /\ input.policy.permit_withdraw_unexpected
        /\ decisions[i].action = "ApplyDesired" =>
             \/ r.drift = "Missing" /\ input.policy.permit_apply_missing
             \/ /\ r.drift = "Mismatched"
                /\ input.policy.permit_apply_mismatched
                /\ "ObserveOnly" \notin Kinds(r.deltas)
    BY SMTT(60), <1>1, <2>3 DEF ByPolicy, OfMismatch, Act, Refrain
  <2>5. UniformClass = None
    BY SMTT(60), <2>2, <2>4, JudgedDifference
  <2>6. /\ intent \in input.intents /\ observation \in input.observations
        /\ SoundEvidence(intent, observation)
    BY SMTT(60), <2>2, <2>5, Comparable
  <2>7. /\ intent.generation # 0 /\ observation.generation # 0
        /\ observation.received_epoch = input.live_epoch
        /\ input.active /\ r.subject \notin input.fenced
    BY Zenon, <2>3 DEF AssessAuthority
  <2>8. decisions[i].action = "WithdrawSubject" =>
          /\ r.subject \in DOMAIN observation.subjects \ DOMAIN intent.subjects
          /\ intent.complete
          /\ input.policy.permit_withdraw_unexpected
    BY Zenon, <2>2, <2>4, JudgedDifference DEF unexpected_allowed
  <2>9. decisions[i].action = "ApplyDesired" =>
          /\ r.subject \in DOMAIN intent.subjects
          /\ r.subject \notin DOMAIN observation.subjects =>
               input.policy.permit_apply_missing
          /\ r.subject \in DOMAIN observation.subjects =>
               /\ input.policy.permit_apply_mismatched
               /\ NoGap(intent, observation, r.subject)
               /\ ~SameState(intent, observation, r.subject)
               /\ ExemptAgree(intent, observation, r.subject)
    <3>1. ASSUME r.drift = "Mismatched", "ObserveOnly" \notin Kinds(r.deltas)
          PROVE  ExemptAgree(intent, observation, r.subject)
      <4>1. /\ r.deltas = Walk(intent, observation, r.subject)
            /\ WalkClass(r.deltas) = "Mismatched"
        BY Zenon, <2>2, <3>1, JudgedDifference
      <4>2. "Unsupported" \notin Kinds(r.deltas)
        BY <4>1 DEF WalkClass
      <4> QED  BY Zenon, <3>1, <4>1, <4>2, ExemptIsFound
    <3> QED  BY Zenon, <2>2, <2>4, <3>1, JudgedDifference
  <2> QED  BY Zenon, <2>3, <2>6, <2>7, <2>8, <2>9
<1>2. IInv => ActionsAreJustified
  BY Zenon, <1>1 DEF ActionsAreJustified
<1> QED  BY <1>2, Inductive, PTL

\* When BuildPlanLocked has both documents, and the observation is fresh, there
\* is something to compare.
LEMMA RequestIsComparable ==
    ASSUME input \in Inputs, IsRequest(input),
           intent # None, observation # None, freshness = "Fresh"
    PROVE  UniformClass = None
<1>1. intent \in input.intents /\ ~Conflicted(input.intents)
      /\ ~Conflicted(input.observations)
  BY SMTT(60), SelectionType
<1>2. input.committed = intent.generation /\ intent.generation \in Nat
  BY <1>1, PlanAssumption, CandidatesType
<1>3. ~intent_regressed
  BY <1>2 DEF intent_regressed
<1> QED  BY Zenon, <1>1, <1>3 DEF UniformClass

\* The verdict is that the scope is converged exactly when the bound left no
\* record out, the evidence can be compared and every record says so.
LEMMA VerdictOfRecords ==
    ASSUME IInv, verdict # None
    PROVE  verdict = "ConvergedProven" <=>
             /\ Len(records) <= MaxPlanActions
             /\ UniformClass = None
             /\ \A i \in DOMAIN records : records[i].drift = "AlreadyConverged"
<1>1. PICK S, R : decisions \in Seq(S) /\ records \in Seq(R)
  BY DEF IInv, DecisionsInv, RecordsInv
<1>2. /\ Len(decisions) \in Nat /\ Len(records) \in Nat
      /\ DOMAIN decisions = 1 .. Len(decisions)
      /\ DOMAIN records = 1 .. Len(records)
  BY SMTT(60), <1>1
<1>3. /\ input \in Inputs /\ IsRequest(input) /\ verdict = Verdict
      /\ Len(decisions) \in {Len(records), MaxPlanActions}
      /\ Len(decisions) <= Len(records) /\ Len(decisions) <= MaxPlanActions
      /\ MaxPlanActions \in Nat
  BY PlanAssumption DEF IInv, DecisionsInv
<1>4. /\ truncated <=> ~(Len(records) <= MaxPlanActions)
      /\ ~truncated => Len(decisions) = Len(records)
  <2>1. PICK m, n : m = Len(decisions) /\ n = Len(records)
    BY Zenon
  <2>2. /\ m \in Nat /\ n \in Nat /\ MaxPlanActions \in Nat
        /\ m = n \/ m = MaxPlanActions
        /\ m <= n /\ m <= MaxPlanActions
    BY Zenon, <1>2, <1>3, <2>1
  <2>3. (m < n <=> ~(n <= MaxPlanActions)) /\ (~(m < n) => m = n)
    BY SMTT(60), <2>2
  <2> QED  BY <2>1, <2>3 DEF truncated
<1>5. ~truncated => DOMAIN decisions = DOMAIN records
  BY Zenon, <1>2, <1>4
<1>6. (intent # None /\ observation # None /\ freshness = "Fresh")
      <=> UniformClass = None
  BY Zenon, <1>3, RequestIsComparable, Comparable
<1>7. \A i \in DOMAIN decisions :
        /\ decisions[i].disposition \in
             {"Actionable", "AlreadySatisfied", "Blocked", "Conflicted",
              "Unsupported", "Indeterminate", "Fenced"}
        /\ decisions[i].disposition = "AlreadySatisfied" <=>
             records[i].drift = "AlreadyConverged"
  <2> SUFFICES ASSUME NEW i \in DOMAIN decisions
               PROVE  /\ decisions[i].disposition \in
                           {"Actionable", "AlreadySatisfied", "Blocked",
                            "Conflicted", "Unsupported", "Indeterminate",
                            "Fenced"}
                      /\ decisions[i].disposition = "AlreadySatisfied" <=>
                           records[i].drift = "AlreadyConverged"
    OBVIOUS
  <2>1. PICK r : r = records[i] /\ decisions[i] = MakeDecision(r) /\ Judged(r)
    BY DecisionAt, RecordAt
  <2> QED  BY Zenon, <1>3, <2>1, DecisionType, SatisfiedIsConverged
<1>8. (~any_indeterminate /\ ~any_actionable /\ ~any_blocked)
      <=> \A i \in DOMAIN decisions :
            decisions[i].disposition = "AlreadySatisfied"
  BY <1>7 DEF any_indeterminate, any_actionable, any_blocked, Dispositions
<1>9. verdict = "ConvergedProven" <=>
        /\ ~truncated
        /\ intent # None /\ observation # None /\ freshness = "Fresh"
        /\ ~any_indeterminate /\ ~any_actionable /\ ~any_blocked
  BY SMTT(60), <1>3 DEF Verdict
<1> QED  BY Zenon, <1>4, <1>5, <1>6, <1>7, <1>8, <1>9

\* A scope is proven converged only when no difference remains, and whenever none
\* does under complete coverage, for every pair of documents and every bound on
\* the decisions (BuildPlanLocked).
THEOREM VerdictIsSound == Spec => []ConvergedIsProven
<1>1. ASSUME IInv, verdict # None
      PROVE  verdict = "ConvergedProven" <=>
               /\ Len(records) <= MaxPlanActions
               /\ \E d \in input.intents, o \in input.observations :
                    SameScope(d, o)
  <2>1. /\ input \in Inputs /\ pc = "done"
        /\ Reported = IF UniformClass # None THEN UniformSubjects ELSE Compared
    BY SMTT(60), <1>1 DEF IInv, DecisionsInv, ProgressInv
  <2>2. CASE UniformClass # None
    BY Zenon, <1>1, <2>1, <2>2, VerdictOfRecords, SoundIsSelected
       DEF SameScope
  <2>3. CASE UniformClass = None
    <3>1. (\E d \in input.intents, o \in input.observations :
             SameScope(d, o))
          <=> /\ DOMAIN intent.subjects = DOMAIN observation.subjects
              /\ \A s \in DOMAIN intent.subjects :
                   SameState(intent, observation, s)
      BY Zenon, <2>1, <2>3, SoundIsSelected, Comparable DEF SameScope
    <3>2. ASSUME NEW i \in DOMAIN records
          PROVE  records[i].drift = "AlreadyConverged" <=>
                   /\ records[i].subject \in DOMAIN intent.subjects
                                           \cap DOMAIN observation.subjects
                   /\ SameState(intent, observation, records[i].subject)
      <4>1. PICK r : r = records[i] /\ Judged(r)
        BY SMTT(60), <1>1, RecordAt
      <4> QED  BY SMTT(60), <2>1, <2>3, <4>1, JudgedConverged, SoundIsSelected,
                  Comparable
    <3>3. (\A i \in DOMAIN records : records[i].drift = "AlreadyConverged")
          <=> \A s \in Compared :
                /\ s \in DOMAIN intent.subjects \cap DOMAIN observation.subjects
                /\ SameState(intent, observation, s)
      BY SMTT(60), <2>1, <2>3, <3>2 DEF Reported
    <3>4. (\A s \in Compared :
             /\ s \in DOMAIN intent.subjects \cap DOMAIN observation.subjects
             /\ SameState(intent, observation, s))
          <=> /\ DOMAIN intent.subjects = DOMAIN observation.subjects
              /\ \A s \in DOMAIN intent.subjects :
                   SameState(intent, observation, s)
      BY DEF Compared
    <3> QED  BY Zenon, <1>1, <2>3, <3>1, <3>3, <3>4, VerdictOfRecords
  <2> QED  BY SMTT(60), <2>2, <2>3
<1>2. IInv => ConvergedIsProven
  BY <1>1 DEF ConvergedIsProven
<1> QED  BY <1>2, Inductive, PTL
=============================================================================

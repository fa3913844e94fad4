--------------------------- MODULE Engine_proofs ---------------------------
(***************************************************************************)
(* Proofs about Engine, for all values of its constants.                   *)
(***************************************************************************)
EXTENDS EngineStore, SequenceTheorems, TLAPS

-----------------------------------------------------------------------------
(* The tables. *)

\* The part of TypeOK that is about the durable tables.
TablesOK ==
    /\ policy \in Policies \cup {None}
    /\ last_epoch \in Epochs \cup {0}
    /\ intents \in [Scopes -> Intent \cup {None}]
    /\ observations \in [Scopes -> Seq(Observation)]
    /\ attempts \in [AttemptIds -> Attempt \cup {None}]
    /\ next_attempt \in Nat \ {0}
    /\ outcomes \in Seq(Outcome)
    /\ fences \in [FenceIds -> Fence \cup {None}]

\* Popping the front of a retained sequence leaves a sequence of the same kind.
LEMMA TrimmedType ==
    ASSUME NEW S, NEW s \in Seq(S), NEW max \in Nat
    PROVE  Trimmed(s, max) \in Seq(S)
<1>1. CASE Len(s) > max
  <2>1. Len(s) \in Nat /\ Len(s) - max + 1 \in Int
    OBVIOUS
  <2>2. \A i \in (Len(s) - max + 1) .. Len(s) : s[i] \in S
    BY <1>1, <2>1
  <2>3. SubSeq(s, Len(s) - max + 1, Len(s)) \in Seq(S)
    BY <2>1, <2>2, SubSeqProperties
  <2> QED
    BY <1>1, <2>3 DEF Trimmed
<1>2. CASE ~(Len(s) > max)
  BY <1>2 DEF Trimmed
<1> QED
  BY <1>1, <1>2

\* TrimAttempts only erases: what it keeps is unchanged.
LEMMA TrimAttemptsErases ==
    ASSUME NEW table \in [AttemptIds -> Attempt \cup {None}]
    PROVE  /\ TrimAttempts(table) \in [AttemptIds -> Attempt \cup {None}]
           /\ \A i \in AttemptIds :
                 \/ TrimAttempts(table)[i] = table[i]
                 \/ /\ TrimAttempts(table)[i] = None
                    /\ table[i] # None
                    /\ IsTerminal(table[i].state)
BY DEF TrimAttempts, Held

\* Replaying or applying a well-formed record keeps the tables well-formed.
LEMMA ApplyPayloadType ==
    ASSUME TablesOK, NEW r \in Record, ApplyPayload(r)
    PROVE  TablesOK'
<1> USE DEF TablesOK
<1>1. policy' \in Policies \cup {None} /\ last_epoch' \in Epochs \cup {0}
  BY DEF ApplyPayload, Record
<1>2. intents' \in [Scopes -> Intent \cup {None}]
  BY DEF ApplyPayload, Record
<1>3. observations' \in [Scopes -> Seq(Observation)]
  <2>1. CASE r.type = "ObservationCommit"
    <3>1. r.scope \in Scopes /\ r.observation \in Observation
      BY <2>1 DEF Record
    <3>2. Append(observations[r.scope], r.observation) \in Seq(Observation)
      BY <3>1
    <3>3. Trimmed(Append(observations[r.scope], r.observation),
                  MaxRetainedObservations) \in Seq(Observation)
      BY <3>2, TrimmedType, ConstantsAssumption, Zenon
    <3> QED
      BY <2>1, <3>1, <3>3 DEF ApplyPayload
  <2>2. CASE r.type # "ObservationCommit"
    BY <2>2 DEF ApplyPayload
  <2> QED
    BY <2>1, <2>2
<1>4. attempts' \in [AttemptIds -> Attempt \cup {None}]
  <2>1. CASE r.type = "AttemptPut"
    <3>1. r.id \in AttemptIds /\ r.attempt \in Attempt
      BY <2>1 DEF Record
    <3>2. [attempts EXCEPT ![r.id] = r.attempt]
             \in [AttemptIds -> Attempt \cup {None}]
      BY <3>1
    <3> QED
      BY <2>1, <3>2, TrimAttemptsErases, Zenon DEF ApplyPayload
  <2>2. CASE r.type # "AttemptPut"
    BY <2>2 DEF ApplyPayload
  <2> QED
    BY <2>1, <2>2
<1>5. next_attempt' \in Nat \ {0}
  <2>1. r.type = "AttemptPut" => r.id \in Nat \ {0}
    BY ConstantsAssumption, Zenon DEF Record
  <2> QED
    BY <2>1 DEF ApplyPayload
<1>6. outcomes' \in Seq(Outcome)
  <2>1. CASE r.type = "OutcomeCommit"
    <3>1. r.outcome \in Outcome
      BY <2>1 DEF Record
    <3>2. Append(outcomes, r.outcome) \in Seq(Outcome)
      BY <3>1
    <3>3. Trimmed(Append(outcomes, r.outcome), MaxRetainedOutcomes)
             \in Seq(Outcome)
      BY <3>2, TrimmedType, ConstantsAssumption, Zenon
    <3> QED
      BY <2>1, <3>3 DEF ApplyPayload
  <2>2. CASE r.type # "OutcomeCommit"
    BY <2>2 DEF ApplyPayload
  <2> QED
    BY <2>1, <2>2
<1>7. fences' \in [FenceIds -> Fence \cup {None}]
  BY DEF ApplyPayload, Record
<1> QED
  BY <1>1, <1>2, <1>3, <1>4, <1>5, <1>6, <1>7

-----------------------------------------------------------------------------
(* Type correctness. *)

Phase == {"down", "opening", "fencing", "up", "reading"}

\* TypeOK is not inductive by itself.  A handler in progress belongs to an
\* engine that is booting or up, has an epoch of its own, and sweeps attempts
\* that are unfinished.
HandlerOK ==
    /\ phase \in {"down", "opening", "reading"} => op = Idle
    /\ phase \in {"fencing", "up"} => last_epoch \in Epochs
    /\ \A i \in op.sweep : Unfinished(i)
    /\ op.issue # {} => phase = "up" /\ op.sweep = {} /\ op.outcome = None

TypeInv == TypeOK /\ HandlerOK

LEMMA IdleType == Idle \in Owed
BY DEF Idle, Owed

\* A transition of an existing attempt is a well-formed record.
LEMMA TransitionedType ==
    ASSUME TypeOK, NEW i \in AttemptIds, attempts[i] # None,
           NEW to \in AttemptState
    PROVE  /\ Transitioned(i, to) \in Record
           /\ Transitioned(i, to).type = "AttemptPut"
           /\ Transitioned(i, to).id = i
           /\ Transitioned(i, to).attempt.state = to
           /\ Transitioned(i, to).attempt.key = attempts[i].key
           /\ Transitioned(i, to).attempt.epoch = attempts[i].epoch
<1>1. attempts[i] \in Attempt
  BY DEF TypeOK
<1>2. [attempts[i] EXCEPT !.state = to] \in Attempt
  BY <1>1 DEF Attempt
<1> QED
  BY <1>1, <1>2 DEF Transitioned, Record, Attempt

\* So is the outcome made from an existing attempt.
LEMMA MakeOutcomeType ==
    ASSUME TypeOK, NEW i \in AttemptIds, attempts[i] # None,
           NEW state \in AttemptState, NEW amb \in BOOLEAN,
           NEW g \in Generations \cup {0}
    PROVE  MakeOutcome(i, state, amb, g) \in Outcome
<1>1. attempts[i] \in Attempt
  BY DEF TypeOK
<1>2. attempts[i].key \in Key /\ attempts[i].epoch \in Epochs
  BY <1>1 DEF Attempt
<1>3. (state = "Verified") \in BOOLEAN
  OBVIOUS
<1> QED
  BY <1>2, <1>3 DEF MakeOutcome, Outcome

\* A handler's append of a well-formed record preserves types, whether it
\* succeeds or fails.
LEMMA AppendType ==
    ASSUME TypeOK, NEW r \in Record, NEW ph \in Phase, NEW owed \in Owed,
           AppendAndApply(r, ph, owed), UNCHANGED plans
    PROVE  TypeOK'
<1>1. TablesOK
  BY DEF TypeOK, TablesOK
<1>2. CASE /\ ApplyPayload(r)
           /\ phase' = ph
           /\ op' = owed
           /\ UNCHANGED <<wedged, limbo>>
  <2>1. TablesOK'
    BY <1>1, <1>2, ApplyPayloadType
  <2>2. TypeOK' = (TablesOK' /\ phase' \in Phase /\ op' \in Owed
                    /\ wedged' \in BOOLEAN /\ limbo' \in Record \cup {None}
                    /\ plans' \subseteq PlanRecord)
    BY Zenon DEF TypeOK, TablesOK, Phase
  <2> QED
    BY <1>2, <2>1, <2>2, Zenon DEF TypeOK
<1>3. CASE /\ wedged' = TRUE
           /\ limbo' \in IF wedged THEN {limbo} ELSE {limbo, r}
           /\ phase' = IF phase = "up" THEN "up" ELSE "down"
           /\ op' = Idle
           /\ UNCHANGED tables
  BY <1>3, IdleType DEF TypeOK, tables
<1> QED
  BY <1>2, <1>3, Zenon DEF AppendAndApply

\* What applying an attempt record does to the attempts: the record's attempt is
\* stored, and only finished attempts are evicted.
LEMMA PutEffect ==
    ASSUME TypeOK, NEW r \in Record, ApplyPayload(r), r.type = "AttemptPut"
    PROVE  /\ r.id \in AttemptIds /\ r.attempt \in Attempt
           /\ \A i \in AttemptIds : i # r.id =>
                 \/ attempts'[i] = attempts[i]
                 \/ /\ attempts'[i] = None
                    /\ attempts[i] # None
                    /\ IsTerminal(attempts[i].state)
           /\ \/ attempts'[r.id] = r.attempt
              \/ attempts'[r.id] = None /\ IsTerminal(r.attempt.state)
           /\ next_attempt' = IF r.id >= next_attempt THEN r.id + 1
                              ELSE next_attempt
           /\ UNCHANGED <<policy, last_epoch, intents, observations, outcomes,
                          fences>>
<1>1. r.id \in AttemptIds /\ r.attempt \in Attempt
  BY DEF Record
<1> DEFINE put == [attempts EXCEPT ![r.id] = r.attempt]
<1>2. put \in [AttemptIds -> Attempt \cup {None}]
  BY <1>1 DEF TypeOK
<1>3. attempts' = TrimAttempts(put)
  BY DEF ApplyPayload
<1>4. put[r.id] = r.attempt /\ \A i \in AttemptIds : i # r.id => put[i] = attempts[i]
  BY <1>1 DEF TypeOK
<1> HIDE DEF put
<1>5. \A i \in AttemptIds : \/ attempts'[i] = put[i]
                            \/ /\ attempts'[i] = None
                               /\ put[i] # None
                               /\ IsTerminal(put[i].state)
  BY <1>2, <1>3, TrimAttemptsErases
<1> QED
  BY <1>1, <1>4, <1>5, Zenon DEF ApplyPayload

LEMMA OtherEffect ==
    ASSUME NEW r, ApplyPayload(r), r.type # "AttemptPut"
    PROVE  UNCHANGED <<attempts, next_attempt>>
BY DEF ApplyPayload

\* An unfinished attempt that a record is not about stays unfinished.
LEMMA UnfinishedStays ==
    ASSUME TypeOK, NEW r \in Record, ApplyPayload(r),
           NEW i \in AttemptIds, Unfinished(i),
           r.type = "AttemptPut" => r.id # i
    PROVE  attempts'[i] = attempts[i] /\ Unfinished(i)'
<1>1. attempts'[i] = attempts[i]
  <2>1. CASE r.type = "AttemptPut"
    BY <2>1, PutEffect DEF Unfinished
  <2>2. CASE r.type # "AttemptPut"
    BY <2>2, OtherEffect
  <2> QED
    BY <2>1, <2>2
<1> QED
  BY <1>1 DEF Unfinished

\* The whole type invariant is preserved by a handler's append.
LEMMA AppendTypeInv ==
    ASSUME TypeInv, NEW r \in Record, NEW ph \in Phase, NEW owed \in Owed,
           AppendAndApply(r, ph, owed), UNCHANGED plans,
           ph \in {"down", "opening", "reading"} => owed = Idle,
           ph \in {"fencing", "up"} =>
              \/ last_epoch \in Epochs
              \/ r.type = "EpochAdvance" /\ r.epoch > last_epoch,
           \A i \in owed.sweep : Unfinished(i),
           r.type = "AttemptPut" => r.id \notin owed.sweep,
           owed.issue # {} =>
              ph = "up" /\ owed.sweep = {} /\ owed.outcome = None
    PROVE  TypeInv'
<1>1. TypeOK'
  BY AppendType DEF TypeInv
<1>2. CASE /\ ApplyPayload(r)
           /\ phase' = ph
           /\ op' = owed
  <2>1. r.type = "EpochAdvance" => r.epoch \in Epochs
    BY Zenon DEF Record
  <2>2. ph \in {"fencing", "up"} => last_epoch' \in Epochs
    BY Zenon, <1>2, <2>1 DEF ApplyPayload, TypeInv, TypeOK
  <2>3. \A i \in owed.sweep : Unfinished(i)'
    <3> SUFFICES ASSUME NEW i \in owed.sweep PROVE Unfinished(i)'
      OBVIOUS
    <3>1. i \in AttemptIds
      BY Zenon DEF Owed
    <3> QED
      BY <1>2, <3>1, UnfinishedStays DEF TypeInv
  <2> QED
    BY Zenon, <1>1, <1>2, <2>2, <2>3 DEF TypeInv, HandlerOK
<1>3. CASE /\ phase' = IF phase = "up" THEN "up" ELSE "down"
           /\ op' = Idle
           /\ UNCHANGED tables
  BY <1>1, <1>3 DEF TypeInv, HandlerOK, Idle, tables
<1> QED
  BY <1>2, <1>3 DEF AppendAndApply

\* Replaying the disk, with or without the record of a failed append.
LEMMA ReplayType ==
    ASSUME TypeOK, Replay PROVE TablesOK'
<1>1. TablesOK
  BY DEF TypeOK, TablesOK
<1>2. CASE limbo = None
  BY <1>1, <1>2 DEF Replay, tables, TablesOK
<1>3. CASE limbo # None
  <2>1. limbo \in Record /\ ApplyPayload(limbo)
    BY <1>3 DEF Replay, TypeOK
  <2> QED
    BY <1>1, <2>1, ApplyPayloadType
<1> QED
  BY <1>2, <1>3

LEMMA RetainedType ==
    ASSUME TypeOK, NEW sc \in Scopes
    PROVE  Retained(sc) \subseteq Observation
BY DEF TypeOK, Retained

LEMMA CurrentType ==
    ASSUME TypeOK, NEW sc \in Scopes
    PROVE  Current(sc) = None \/ Current(sc) \in Retained(sc)
BY DEF Current

\* A plan that acts was made from an intent and from evidence of its epoch.
LEMMA PlanIsBased ==
    ASSUME TypeOK, NEW sc \in Scopes, NEW p \in Policies, NEW now,
           PlanSubjects(sc, p, now) # {}
    PROVE  /\ PlanSubjects(sc, p, now) \subseteq Subjects
           /\ intents[sc] \in Intent
           /\ Current(sc) \in Observation
           /\ Current(sc).received_epoch = live_epoch
           /\ live_epoch \in Epochs
<1>1. intents[sc] # None /\ Current(sc) # None
  BY DEF PlanSubjects
<1>2. intents[sc] \in Intent /\ Current(sc) \in Observation
  BY <1>1, RetainedType, CurrentType DEF TypeOK
<1>3. PlanSubjects(sc, p, now) =
        {s \in Actionable(p, intents[sc].digest, Current(sc).body) :
            Proven(p, intents[sc], Current(sc), s, sc, now)}
  BY <1>1 DEF PlanSubjects
<1>4. Current(sc).received_epoch = live_epoch
  BY <1>3 DEF Proven
<1>5. intents[sc].digest \in Digests /\ Current(sc).body \in Bodies
      /\ Current(sc).received_epoch \in Epochs
  BY <1>2 DEF Intent, Observation
<1> QED
  BY <1>2, <1>3, <1>4, <1>5, ConstantsAssumption

\* The attempts a dispatch owes are well-formed.
LEMMA ToIssueType ==
    ASSUME TypeOK, NEW p \in PlanRecord, live_epoch \in Epochs
    PROVE  ToIssue(p) \subseteq Attempt
<1> SUFFICES ASSUME NEW x \in ToIssue(p) PROVE x \in Attempt
  OBVIOUS
<1>1. PICK k \in [scope : {p.scope}, subject : p.subjects,
                  intent : {p.intent}, observation : {p.observation}] :
          x = [key |-> k, policy |-> p.policy, epoch |-> live_epoch,
               state |-> "Dispatched"]
  BY DEF ToIssue
<1>2. k \in Key
  BY DEF PlanRecord, Key
<1> QED
  BY <1>1, <1>2 DEF Attempt, AttemptState, InFlight, PlanRecord

LEMMA TypeInvInit == Init => TypeInv
<1> SUFFICES ASSUME Init PROVE TypeInv
  OBVIOUS
<1>1. observations \in [Scopes -> Seq(Observation)] /\ outcomes \in Seq(Outcome)
  BY DEF Init
<1>2. /\ intents \in [Scopes -> Intent \cup {None}]
      /\ attempts \in [AttemptIds -> Attempt \cup {None}]
      /\ fences \in [FenceIds -> Fence \cup {None}]
  BY DEF Init
<1>3. wedged \in BOOLEAN
  BY Zenon DEF Init
<1>4. /\ policy \in Policies \cup {None} /\ last_epoch \in Epochs \cup {0}
      /\ next_attempt \in Nat \ {0}
      /\ phase \in {"down", "opening", "fencing", "up", "reading"}
      /\ op \in Owed /\ limbo \in Record \cup {None}
      /\ plans \subseteq PlanRecord
  BY IdleType DEF Init
<1>5. HandlerOK
  BY DEF Init, HandlerOK, Idle
<1> QED
  BY <1>1, <1>2, <1>3, <1>4, <1>5 DEF TypeInv, TypeOK

\* Booting, dying and finishing what a handler owes.
LEMMA TypeInvProcess ==
    ASSUME TypeInv, Boot \/ Crash \/ Continue
    PROVE  TypeInv'
<1> USE DEF TypeInv, Phase
<1>1. CASE Open \/ OpenReadOnly
  <2>1. TablesOK' /\ op = Idle
    BY <1>1, ReplayType DEF Open, OpenReadOnly, HandlerOK
  <2>2. TypeOK'
    BY <1>1, <2>1, IdleType, Zenon DEF Open, OpenReadOnly, TablesOK, TypeOK
  <2>3. HandlerOK'
    BY <1>1, <2>1 DEF Open, OpenReadOnly, HandlerOK, Idle
  <2> QED
    BY <2>2, <2>3
<1>2. CASE Crash
  BY <1>2, IdleType, Zenon DEF Crash, TypeOK, HandlerOK, Idle, tables
<1>3. CASE InstallInitialPolicy
  <2>1. [type |-> "PolicyPut", policy |-> InitialPolicy] \in Record
    BY Zenon, ConstantsAssumption DEF Record
  <2> QED
    BY Zenon, <1>3, <2>1, IdleType, AppendTypeInv DEF InstallInitialPolicy, Idle
<1>4. CASE AdvanceEpoch
  <2> DEFINE r == [type |-> "EpochAdvance", epoch |-> last_epoch + 1]
             ph == IF Candidates = {} THEN "up" ELSE "fencing"
             owed == [Idle EXCEPT !.sweep = Candidates]
  <2>1. r \in Record /\ r.type = "EpochAdvance" /\ r.epoch > last_epoch
    BY <1>4, ConstantsAssumption DEF AdvanceEpoch, Record, TypeOK
  <2>2. owed \in Owed /\ owed.sweep = Candidates /\ owed.issue = {}
    BY NoneAssumption DEF Idle, Owed, Candidates, Held
  <2>3. \A i \in Candidates : Unfinished(i)
    BY DEF Candidates, Held, Unfinished
  <2>4. AppendAndApply(r, ph, owed) /\ UNCHANGED plans
    BY <1>4 DEF AdvanceEpoch
  <2>5. ph \in {"up", "fencing"}
    OBVIOUS
  <2> HIDE DEF r, ph, owed
  <2> QED
    BY <2>1, <2>2, <2>3, <2>4, <2>5, AppendTypeInv
<1>5. CASE SweepNext
  <2>1. PICK i \in op.sweep :
           AppendAndApply(Transitioned(i, SweepTarget(i)), phase,
              [op EXCEPT !.sweep = @ \ {i},
                         !.outcome = MakeOutcome(i, SweepTarget(i),
                                         SweepTarget(i) = "Interrupted", 0)])
    BY <1>5, Zenon DEF SweepNext
  <2> DEFINE r == Transitioned(i, SweepTarget(i))
             o == MakeOutcome(i, SweepTarget(i),
                              SweepTarget(i) = "Interrupted", 0)
             owed == [op EXCEPT !.sweep = @ \ {i}, !.outcome = o]
  <2>2. i \in AttemptIds /\ attempts[i] # None
    BY DEF TypeOK, Owed, HandlerOK, Unfinished
  <2>3. SweepTarget(i) \in AttemptState
    BY DEF SweepTarget, AttemptState
  <2>4. r \in Record /\ r.id = i
    BY <2>2, <2>3, TransitionedType
  <2>5. (SweepTarget(i) = "Interrupted") \in BOOLEAN
    OBVIOUS
  <2>6. o \in Outcome
    BY <2>2, <2>3, <2>5, MakeOutcomeType, Zenon
  <2>7. op \in Owed /\ phase \in Phase /\ UNCHANGED plans
    BY <1>5 DEF TypeOK, SweepNext
  <2> HIDE DEF r, o
  <2>8. owed \in Owed /\ owed.sweep = op.sweep \ {i} /\ owed.issue = {}
    BY <2>6, <2>7, Zenon DEF Owed, HandlerOK
  <2>9. phase \in {"fencing", "up"}
    BY <2>7 DEF HandlerOK, Idle
  <2>10. AppendAndApply(r, phase, owed)
    BY <2>1 DEF r, o
  <2> HIDE DEF owed
  <2>11. last_epoch \in Epochs /\ \A k \in owed.sweep : Unfinished(k)
    BY Zenon, <2>8, <2>9 DEF HandlerOK
  <2> QED
    BY <2>4, <2>7, <2>8, <2>9, <2>10, <2>11, AppendTypeInv
<1>6. CASE CommitOutcome
  <2> DEFINE r == [type |-> "OutcomeCommit", outcome |-> op.outcome]
             owed == [op EXCEPT !.outcome = None]
             ph == IF owed = Idle THEN "up" ELSE phase
  <2>1. op \in Owed /\ op.outcome \in Outcome /\ phase \in Phase
    BY <1>6 DEF CommitOutcome, TypeOK, Owed
  <2>2. r \in Record /\ r.type = "OutcomeCommit"
    BY <2>1 DEF Record
  <2>3. owed \in Owed /\ owed.sweep = op.sweep /\ owed.issue = {}
    BY <1>6, <2>1 DEF Owed, HandlerOK, CommitOutcome
  <2>4. phase \in {"fencing", "up"}
    BY <1>6, <2>1 DEF HandlerOK, Idle, CommitOutcome
  <2>5. ph \in {"fencing", "up"} /\ last_epoch \in Epochs
    BY <2>4 DEF HandlerOK
  <2>6. AppendAndApply(r, ph, owed) /\ UNCHANGED plans
    BY <1>6 DEF CommitOutcome
  <2>7. \A k \in owed.sweep : Unfinished(k)
    BY Zenon, <2>3 DEF HandlerOK
  <2> HIDE DEF r, ph, owed
  <2> QED
    BY <2>2, <2>3, <2>5, <2>6, <2>7, AppendTypeInv
<1>7. CASE IssueNext
  <2>1. PICK a \in op.issue :
           AppendAndApply([type |-> "AttemptPut", id |-> next_attempt,
                           attempt |-> a],
                          phase, [op EXCEPT !.issue = @ \ {a}])
    BY <1>7, Zenon DEF IssueNext
  <2> DEFINE r == [type |-> "AttemptPut", id |-> next_attempt, attempt |-> a]
             owed == [op EXCEPT !.issue = @ \ {a}]
  <2>2. op \in Owed /\ phase \in Phase /\ a \in Attempt /\ UNCHANGED plans
    BY <1>7 DEF TypeOK, Owed, IssueNext
  <2>3. r \in Record /\ r.id = next_attempt
    BY <1>7, <2>2 DEF Record, IssueNext
  <2>4. op.sweep = {} /\ op.outcome = None /\ phase = "up"
        /\ last_epoch \in Epochs
    BY a \in op.issue DEF HandlerOK
  <2>5. owed \in Owed /\ owed.sweep = {} /\ owed.outcome = None
    BY <2>2, <2>4 DEF Owed
  <2>6. AppendAndApply(r, phase, owed)
    BY <2>1
  <2> HIDE DEF r, owed
  <2> QED
    BY <2>2, <2>3, <2>4, <2>5, <2>6, AppendTypeInv
<1> QED
  BY <1>1, <1>2, <1>3, <1>4, <1>5, <1>6, <1>7 DEF Boot, Continue

\* An append by a handler that then owes at most an outcome, or nothing.
LEMMA AppendAndRest ==
    ASSUME TypeInv, Serving, UNCHANGED plans, NEW r \in Record,
           NEW o \in Outcome \cup {None},
           AppendAndApply(r, phase, [Idle EXCEPT !.outcome = o])
    PROVE  TypeInv'
<1> DEFINE owed == [Idle EXCEPT !.outcome = o]
<1>1. owed \in Owed /\ owed.sweep = {} /\ owed.issue = {}
  BY DEF Idle, Owed
<1>2. AppendAndApply(r, phase, owed)
  OBVIOUS
<1> HIDE DEF owed
<1>3. phase = "up" /\ last_epoch \in Epochs
  BY DEF Serving, TypeInv, HandlerOK
<1> QED
  BY <1>1, <1>2, <1>3, AppendTypeInv DEF Phase

LEMMA IdleRests == Idle = [Idle EXCEPT !.outcome = None]
BY DEF Idle

\* Policies, intents and observations.
LEMMA TypeInvEvidence ==
    ASSUME TypeInv, Evidence
    PROVE  TypeInv'
<1>1. ASSUME NEW p \in Policies, PutPolicy(p) PROVE TypeInv'
  <2>1. [type |-> "PolicyPut", policy |-> p] \in Record
    BY DEF Record
  <2> QED
    BY Zenon, <1>1, <2>1, IdleRests, AppendAndRest DEF PutPolicy
<1>2. ASSUME NEW sc \in Scopes, NEW doc \in Intent, CommitIntent(sc, doc)
      PROVE  TypeInv'
  <2>1. [type |-> "IntentCommit", scope |-> sc, intent |-> doc] \in Record
    BY DEF Record
  <2> QED
    BY Zenon, <1>2, <2>1, IdleRests, AppendAndRest DEF CommitIntent
<1>3. ASSUME NEW sc \in Scopes, NEW id \in ObservationIds, NEW re \in Reporters,
             NEW g \in Generations, NEW b \in Bodies, NEW t \in Times,
             RecordObservation(sc, id, re, g, b, t)
      PROVE  TypeInv'
  <2> DEFINE o == [id |-> id, reporter |-> re, generation |-> g, body |-> b,
                   received_epoch |-> live_epoch, received_unix_ms |-> t]
             r == [type |-> "ObservationCommit", scope |-> sc,
                   observation |-> o]
  <2>1. Serving /\ UNCHANGED plans /\ AppendAndApply(r, phase, Idle)
    BY <1>3 DEF RecordObservation
  <2>2. live_epoch \in Epochs
    BY <2>1, Zenon DEF Serving, TypeInv, HandlerOK, live_epoch
  <2>3. o \in Observation
    BY <2>2 DEF Observation
  <2>4. r \in Record
    BY <2>3, Zenon DEF Record
  <2> QED
    BY Zenon, <2>1, <2>4, IdleRests, AppendAndRest
<1> QED
  BY <1>1, <1>2, <1>3 DEF Evidence

\* Plans, dispatches, completions and verifications.
LEMMA TypeInvActions ==
    ASSUME TypeInv, Actions
    PROVE  TypeInv'
<1>1. ASSUME NEW sc \in Scopes, NEW p \in Policies, NEW now \in Times,
             Plan(sc, p, now)
      PROVE  TypeInv'
  <2> DEFINE x == [scope |-> sc, epoch |-> live_epoch, policy |-> p,
                   intent |-> intents[sc], observation |-> Current(sc),
                   subjects |-> PlanSubjects(sc, p, now)]
  <2>1. TypeOK /\ PlanSubjects(sc, p, now) # {}
    BY Zenon, <1>1 DEF Plan, TypeInv
  <2>2. x \in PlanRecord
    BY Zenon, <2>1, PlanIsBased DEF PlanRecord
  <2>3. plans' = plans \cup {x} /\ UNCHANGED <<tables, phase, op, wedged, limbo>>
    BY Zenon, <1>1 DEF Plan
  <2> HIDE DEF x
  <2>4. TypeOK'
    BY <2>1, <2>2, <2>3 DEF TypeOK, tables
  <2>5. HandlerOK'
    BY <2>3, Zenon DEF TypeInv, HandlerOK, Unfinished, tables
  <2> QED
    BY Zenon, <2>4, <2>5 DEF TypeInv
<1>2. ASSUME NEW p \in plans, Dispatch(p) PROVE TypeInv'
  <2>1. p \in PlanRecord /\ TypeOK
    BY DEF TypeInv, TypeOK
  <2>2. phase = "up" /\ live_epoch \in Epochs
    BY <1>2 DEF Dispatch, Serving, TypeInv, HandlerOK, live_epoch
  <2>3. ToIssue(p) \subseteq Attempt
    BY <2>1, <2>2, ToIssueType
  <2>4. op' \in Owed /\ op'.sweep = {} /\ op'.outcome = None
    BY <1>2, <2>3 DEF Dispatch, Idle, Owed
  <2>5. UNCHANGED <<tables, phase, wedged, limbo, plans>>
    BY Zenon, <1>2 DEF Dispatch
  <2>6. TypeOK'
    BY <2>1, <2>4, <2>5 DEF TypeOK, tables
  <2>7. HandlerOK'
    BY <2>2, <2>4, <2>5, Zenon DEF TypeInv, HandlerOK, tables
  <2> QED
    BY <2>6, <2>7 DEF TypeInv
<1>3. ASSUME NEW i \in AttemptIds, NEW e \in Epochs,
             NEW target \in AttemptState, Complete(i, e, target)
      PROVE  TypeInv'
  <2>1. Serving /\ UNCHANGED plans /\ attempts[i] # None /\ TypeOK
    BY <1>3 DEF Complete, TypeInv
  <2>2. Transitioned(i, target) \in Record
    BY <2>1, TransitionedType
  <2>3. IsInconclusive(target) \in BOOLEAN
    BY DEF IsInconclusive
  <2>4. MakeOutcome(i, target, IsInconclusive(target), 0) \in Outcome
    BY <2>1, <2>3, MakeOutcomeType
  <2>5. CASE IsTerminal(target)
    BY <1>3, <2>1, <2>2, <2>4, <2>5, AppendAndRest DEF Complete
  <2>6. CASE ~IsTerminal(target)
    BY <1>3, <2>1, <2>2, <2>6, IdleRests, AppendAndRest DEF Complete
  <2> QED
    BY <2>5, <2>6
<1>4. ASSUME NEW i \in Held(attempts), NEW applier \in Reporters,
             NEW now \in Times, NEW confirms \in BOOLEAN,
             NEW o \in Retained(attempts[i].key.scope),
             Verify(i, o, applier, now, confirms)
      PROVE  TypeInv'
  <2> DEFINE target == IF confirms THEN "Verified" ELSE "Failed"
  <2>1. /\ Serving /\ UNCHANGED plans /\ TypeOK
        /\ i \in AttemptIds /\ attempts[i] # None
        /\ target \in AttemptState
        /\ (~confirms) \in BOOLEAN
    BY <1>4 DEF Verify, TypeInv, Held, AttemptState
  <2>2. AppendAndApply(Transitioned(i, target), phase,
            [Idle EXCEPT !.outcome =
                MakeOutcome(i, target, ~confirms, o.generation)])
    BY <1>4 DEF Verify
  <2> HIDE DEF target
  <2>3. Transitioned(i, target) \in Record
    BY <2>1, TransitionedType
  <2>4. attempts[i] \in Attempt
    BY <2>1 DEF TypeOK
  <2>5. attempts[i].key.scope \in Scopes
    BY <2>4 DEF Attempt, Key
  <2>6. o \in Observation
    BY <2>1, <2>5, RetainedType
  <2>7. o.generation \in Generations
    BY <2>6 DEF Observation
  <2>8. MakeOutcome(i, target, ~confirms, o.generation) \in Outcome
    BY <2>1, <2>7, MakeOutcomeType, Zenon
  <2> QED
    BY <2>1, <2>2, <2>3, <2>8, AppendAndRest
<1> QED
  BY <1>1, <1>2, <1>3, <1>4 DEF Actions

\* Fences.
LEMMA TypeInvFencing ==
    ASSUME TypeInv, Fencing
    PROVE  TypeInv'
<1>1. ASSUME NEW id \in FenceIds, NEW f \in Fence, PutFence(id, f)
      PROVE  TypeInv'
  <2> DEFINE r == [type |-> "FencePut", id |-> id, fence |-> f]
             owed == [Idle EXCEPT !.sweep = Victims(f)]
  <2>1. r \in Record /\ r.type # "AttemptPut"
    BY DEF Record
  <2>2. owed \in Owed /\ owed.sweep = Victims(f) /\ owed.issue = {}
    BY DEF Idle, Owed, Victims, Held
  <2>3. \A i \in Victims(f) : Unfinished(i)
    BY DEF Victims, Held, Unfinished
  <2>4. phase = "up" /\ last_epoch \in Epochs
    BY <1>1 DEF PutFence, Serving, TypeInv, HandlerOK
  <2>5. AppendAndApply(r, phase, owed) /\ UNCHANGED plans
    BY <1>1 DEF PutFence
  <2> HIDE DEF r, owed
  <2> QED
    BY Zenon, <2>1, <2>2, <2>3, <2>4, <2>5, AppendTypeInv DEF Phase
<1>2. ASSUME NEW id \in FenceIds, ClearFence(id) PROVE TypeInv'
  <2>1. [type |-> "FenceClear", id |-> id] \in Record
    BY DEF Record
  <2> QED
    BY Zenon, <1>2, <2>1, IdleRests, AppendAndRest DEF ClearFence
<1> QED
  BY Zenon, <1>1, <1>2 DEF Fencing

LEMMA TypeInvStep == TypeInv /\ [Next]_vars => TypeInv'
<1>1. ASSUME TypeInv, UNCHANGED vars PROVE TypeInv'
  BY <1>1, Zenon DEF TypeInv, TypeOK, HandlerOK, Unfinished, vars, tables
<1> QED
  BY <1>1, TypeInvProcess, TypeInvEvidence, TypeInvActions, TypeInvFencing
     DEF Next

\* In every execution the tables, the handler in progress and the plans of the
\* engine keep their types, through crashes, failed appends and replays.
THEOREM TypeCorrect == Spec => []TypeOK
<1>1. Spec => []TypeInv
  BY TypeInvInit, TypeInvStep, PTL DEF Spec
<1> QED
  BY <1>1, PTL DEF TypeInv

-----------------------------------------------------------------------------
(* The inductive invariant. *)

\* An outcome agrees with the attempt it is about.
Agrees(o) ==
    /\ IsTerminal(o.terminal_state)
    /\ o.attempt < next_attempt
    /\ attempts[o.attempt] # None =>
         attempts[o.attempt].state = o.terminal_state

NoOutcomeFor(i) == \A m \in DOMAIN outcomes : outcomes[m].attempt # i

Covered(i) == FenceHoldsFor(attempts[i].key.scope, attempts[i].key.subject,
                            attempts[i].epoch)

\* The tables are consistent with each other.
TablesInv ==
    /\ \A i \in AttemptIds : attempts[i] # None => i < next_attempt
    /\ \A m \in DOMAIN outcomes : Agrees(outcomes[m])
    /\ OutcomesAreFacts
    /\ OneUnfinishedAttemptPerKey

\* A record that keeps them so when it is applied.
Sound(r) ==
    /\ r.type = "AttemptPut" =>
         /\ NoOutcomeFor(r.id)
         /\ attempts[r.id] = None => /\ r.id = next_attempt
                                     /\ r.attempt.state = "Dispatched"
         /\ attempts[r.id] # None => /\ Unfinished(r.id)
                                     /\ r.attempt.key = attempts[r.id].key
                                     /\ r.attempt.epoch = attempts[r.id].epoch
         /\ ~IsTerminal(r.attempt.state) =>
              \A i \in AttemptIds :
                 Unfinished(i) /\ attempts[i].key = r.attempt.key => i = r.id
         /\ r.attempt.state \in {"Acknowledged", "Applied", "Verified"} =>
              ~FenceHoldsFor(r.attempt.key.scope, r.attempt.key.subject,
                             r.attempt.epoch)
    /\ r.type = "OutcomeCommit" =>
         Agrees(r.outcome) /\ NoOutcomeFor(r.outcome.attempt)

\* An attempt a dispatch is about to issue.
Authorised(a) ==
    /\ a.state = "Dispatched"
    /\ a.policy = policy
    /\ a.epoch = live_epoch
    /\ a.key.intent = intents[a.key.scope]
    /\ a.key.observation = Current(a.key.scope)
    /\ a.key.observation.received_epoch = live_epoch
    /\ ~FenceHoldsFor(a.key.scope, a.key.subject, live_epoch)
    /\ \A i \in AttemptIds : Unfinished(i) => attempts[i].key # a.key

\* The handler in progress, and the record of a failed append.
ProcessInv ==
    /\ RestartRevokesInFlight
    /\ phase = "fencing" =>
         \A i \in AttemptIds : Unfinished(i) => i \in op.sweep
    /\ phase = "up" /\ ~wedged =>
         \A i \in AttemptIds : Unfinished(i) /\ Covered(i) => i \in op.sweep
    /\ \A a \in op.issue : Authorised(a)
    /\ \A a, c \in op.issue : a.key = c.key => a = c
    /\ op.outcome # None => /\ Agrees(op.outcome)
                            /\ NoOutcomeFor(op.outcome.attempt)
    /\ limbo # None => wedged /\ Sound(limbo)
    /\ \A p \in plans : p.observation.received_epoch = p.epoch

IInv == TypeInv /\ TablesInv /\ ProcessInv

-----------------------------------------------------------------------------
(* Applying a sound record keeps the tables consistent. *)

\* Trimming drops a prefix.
LEMMA TrimmedIsSuffix ==
    ASSUME NEW S, NEW s \in Seq(S), NEW max \in Nat
    PROVE  \E d \in Nat : \A m \in DOMAIN Trimmed(s, max) :
              m + d \in DOMAIN s /\ Trimmed(s, max)[m] = s[m + d]
<1>1. CASE Len(s) > max
  <2> DEFINE d == Len(s) - max
             u == SubSeq(s, d + 1, Len(s))
  <2>1. Len(s) \in Nat /\ d \in Nat /\ d + 1 \in Int
    BY <1>1
  <2>2. \A i \in (d + 1) .. Len(s) : s[i] \in S
    BY <2>1
  <2>3. /\ u \in Seq(S)
        /\ Len(u) = IF d + 1 <= Len(s) THEN Len(s) - (d + 1) + 1 ELSE 0
        /\ \A i \in 1 .. Len(s) - (d + 1) + 1 : u[i] = s[d + 1 + i - 1]
    BY <2>1, <2>2, SubSeqProperties
  <2>4. Trimmed(s, max) = u
    BY <1>1 DEF Trimmed
  <2>5. DOMAIN u = 1 .. max /\ DOMAIN s = 1 .. Len(s)
    BY <1>1, <2>1, <2>3
  <2> HIDE DEF u
  <2>6. ASSUME NEW m \in 1 .. max
        PROVE  m + d \in 1 .. Len(s) /\ u[m] = s[m + d]
    <3>1. m \in 1 .. Len(s) - (d + 1) + 1 /\ d + 1 + m - 1 = m + d
      BY <2>1
    <3>2. u[m] = s[m + d]
      BY <2>3, <3>1
    <3> QED
      BY <1>1, <2>1, <3>2
  <2> QED
    BY <2>1, <2>4, <2>5, <2>6, Zenon
<1>2. CASE ~(Len(s) > max)
  <2>1. Trimmed(s, max) = s
    BY <1>2 DEF Trimmed
  <2>2. \A m \in DOMAIN s : m + 0 \in DOMAIN s /\ s[m] = s[m + 0]
    OBVIOUS
  <2> QED
    BY <2>1, <2>2, Zenon
<1> QED
  BY <1>1, <1>2

\* Which attempts are unfinished after an attempt record was applied.
LEMMA PutUnfinished ==
    ASSUME TypeOK, NEW r \in Record, ApplyPayload(r), r.type = "AttemptPut",
           NEW i \in AttemptIds, Unfinished(i)'
    PROVE  \/ /\ i = r.id /\ attempts'[i] = r.attempt
              /\ ~IsTerminal(r.attempt.state)
           \/ i # r.id /\ attempts'[i] = attempts[i] /\ Unfinished(i)
BY PutEffect DEF Unfinished

\* The identities are numbers, and so is the next one to be given out.
LEMMA IdsAreNumbers ==
    ASSUME TypeOK
    PROVE  next_attempt \in Nat /\ \A i \in AttemptIds : i \in Nat
<1>1. next_attempt \in Nat
  BY Zenon DEF TypeOK
<1> QED
  BY <1>1, ConstantsAssumption

\* A put leaves the next identity above the one it wrote.
LEMMA PutRaisesNext ==
    ASSUME NEW i \in Nat, NEW m \in Nat, NEW n,
           n = IF i >= m THEN i + 1 ELSE m
    PROVE  n \in Nat /\ m <= n /\ i < n
BY SMTT(60)

LEMMA SoundPutApplied ==
    ASSUME TypeOK, TablesInv, NEW r \in Record, Sound(r), ApplyPayload(r),
           r.type = "AttemptPut"
    PROVE  TablesInv'
<1>1. r.id \in Nat /\ next_attempt \in Nat /\ next_attempt' \in Nat
      /\ next_attempt <= next_attempt' /\ r.id < next_attempt'
  <2>1. /\ r.id \in AttemptIds
        /\ next_attempt' = IF r.id >= next_attempt THEN r.id + 1 ELSE next_attempt
    BY PutEffect, Zenon
  <2>2. r.id \in Nat /\ next_attempt \in Nat
    BY <2>1, IdsAreNumbers, Zenon
  <2> QED
    BY <2>1, <2>2
<1>2. \A i \in AttemptIds : attempts'[i] # None => i < next_attempt'
  <2> SUFFICES ASSUME NEW i \in AttemptIds, attempts'[i] # None
               PROVE  i < next_attempt'
    OBVIOUS
  <2>1. i \in Nat
    BY IdsAreNumbers, Zenon
  <2>2. i = r.id \/ attempts[i] # None
    BY PutEffect, Zenon
  <2>3. i = r.id \/ i < next_attempt
    BY <2>2, Zenon DEF TablesInv
  <2> QED
    BY <1>1, <2>1, <2>3
<1>3. outcomes' = outcomes
  BY Zenon, PutEffect
<1>4. ASSUME NEW m \in DOMAIN outcomes PROVE Agrees(outcomes[m])'
  <2>1. outcomes[m] \in Outcome /\ Agrees(outcomes[m])
        /\ outcomes[m].attempt # r.id
    <3>1. outcomes[m] \in Outcome
      BY DEF TypeOK
    <3>2. Agrees(outcomes[m])
      BY Zenon DEF TablesInv
    <3>3. outcomes[m].attempt # r.id
      BY Zenon DEF Sound, NoOutcomeFor
    <3> QED
      BY <3>1, <3>2, <3>3
  <2>2. outcomes[m].attempt \in AttemptIds
    BY <2>1 DEF Outcome
  <2>3. \/ attempts'[outcomes[m].attempt] = attempts[outcomes[m].attempt]
        \/ attempts'[outcomes[m].attempt] = None
    BY <2>1, <2>2, PutEffect, Zenon
  <2> DEFINE k == outcomes[m].attempt
  <2>4. k < next_attempt /\ k \in Nat
    BY <2>1, <2>2, ConstantsAssumption, Zenon DEF Agrees
  <2> HIDE DEF k
  <2>5. k < next_attempt'
    BY <1>1, <2>4
  <2> QED
    BY Zenon, <1>3, <2>1, <2>3, <2>5 DEF Agrees, k
<1>5. OutcomesAreFacts'
  BY <1>3, <1>4, Zenon DEF OutcomesAreFacts, Agrees, TablesInv
<1>6. OneUnfinishedAttemptPerKey'
  <2> SUFFICES ASSUME NEW i \in AttemptIds, NEW j \in AttemptIds,
                      Unfinished(i)', Unfinished(j)',
                      attempts'[i].key = attempts'[j].key
               PROVE  i = j
    BY DEF OneUnfinishedAttemptPerKey
  <2>1. ~IsTerminal(r.attempt.state) =>
          \A k \in AttemptIds :
             Unfinished(k) /\ attempts[k].key = r.attempt.key => k = r.id
    BY Zenon DEF Sound
  <2>2. \/ i = r.id /\ attempts'[i] = r.attempt /\ ~IsTerminal(r.attempt.state)
        \/ i # r.id /\ attempts'[i] = attempts[i] /\ Unfinished(i)
    BY PutUnfinished, Zenon
  <2>3. \/ j = r.id /\ attempts'[j] = r.attempt /\ ~IsTerminal(r.attempt.state)
        \/ j # r.id /\ attempts'[j] = attempts[j] /\ Unfinished(j)
    BY PutUnfinished, Zenon
  <2>4. OneUnfinishedAttemptPerKey
    BY Zenon DEF TablesInv
  <2> QED
    BY <2>1, <2>2, <2>3, <2>4, Zenon DEF OneUnfinishedAttemptPerKey
<1> QED
  BY <1>2, <1>3, <1>4, <1>5, <1>6 DEF TablesInv

LEMMA SoundOutcomeApplied ==
    ASSUME TypeOK, TablesInv, NEW r \in Record, Sound(r), ApplyPayload(r),
           r.type = "OutcomeCommit"
    PROVE  TablesInv'
<1> DEFINE big == Append(outcomes, r.outcome)
<1>1. r.outcome \in Outcome /\ outcomes \in Seq(Outcome)
  BY Zenon DEF Record, TypeOK
<1>2. big \in Seq(Outcome) /\ DOMAIN big = 1 .. Len(outcomes) + 1
      /\ big[Len(outcomes) + 1] = r.outcome
      /\ \A m \in 1 .. Len(outcomes) : big[m] = outcomes[m]
  BY <1>1
<1>3. outcomes' = Trimmed(big, MaxRetainedOutcomes)
  BY DEF ApplyPayload
<1>4. UNCHANGED <<attempts, next_attempt>>
  BY OtherEffect
<1>5. DOMAIN outcomes = 1 .. Len(outcomes) /\ Len(outcomes) \in Nat
  BY <1>1
<1> HIDE DEF big
<1>6. PICK d \in Nat : \A m \in DOMAIN outcomes' :
         m + d \in DOMAIN big /\ outcomes'[m] = big[m + d]
  <2>1. \E d \in Nat : \A m \in DOMAIN Trimmed(big, MaxRetainedOutcomes) :
           /\ m + d \in DOMAIN big
           /\ Trimmed(big, MaxRetainedOutcomes)[m] = big[m + d]
    <3>1. MaxRetainedOutcomes \in Nat
      BY ConstantsAssumption, Zenon
    <3>2. big \in Seq(Outcome)
      BY <1>2, Zenon
    <3> QED
      BY Zenon, <3>1, <3>2, TrimmedIsSuffix
  <2> QED
    BY <1>3, <2>1, ZenonT(60)
<1>6a. ASSUME NEW m \in DOMAIN big
       PROVE  \/ m = Len(outcomes) + 1 /\ big[m] = r.outcome
              \/ m \in DOMAIN outcomes /\ big[m] = outcomes[m]
  BY <1>2, <1>5
<1>6b. /\ Agrees(r.outcome) /\ NoOutcomeFor(r.outcome.attempt)
       /\ \A m \in DOMAIN outcomes : Agrees(outcomes[m])
       /\ OutcomesAreFacts
  BY Zenon DEF TablesInv, Sound
<1>7. ASSUME NEW m \in DOMAIN big PROVE Agrees(big[m])
  BY <1>6a, <1>6b, Zenon
<1>8. ASSUME NEW m \in DOMAIN big, NEW n \in DOMAIN big,
             big[m].attempt = big[n].attempt
      PROVE  m = n
  <2>1. \A k, l \in DOMAIN outcomes :
           outcomes[k].attempt = outcomes[l].attempt => k = l
    BY <1>6b, Zenon DEF OutcomesAreFacts
  <2>2. \A k \in DOMAIN outcomes : outcomes[k].attempt # r.outcome.attempt
    BY <1>6b, Zenon DEF NoOutcomeFor
  <2> QED
    BY <1>6a, <1>8, <2>1, <2>2, Zenon
<1>9. \A m \in DOMAIN outcomes' : Agrees(outcomes[m])'
  BY <1>4, <1>6, <1>7, Zenon DEF Agrees
<1>10. ASSUME NEW m \in DOMAIN outcomes', NEW n \in DOMAIN outcomes',
              outcomes'[m].attempt = outcomes'[n].attempt
       PROVE  m = n
  <2>1. m + d = n + d
    BY <1>6, <1>8, <1>10
  <2>2. outcomes' \in Seq(Outcome)
    BY <1>2, <1>3, TrimmedType, ConstantsAssumption, Zenon
  <2>3. m \in Int /\ n \in Int
    BY <2>2
  <2>4. \A x, y, z \in Int : x + z = y + z => x = y
    OBVIOUS
  <2>5. d \in Int
    OBVIOUS
  <2> QED
    BY <2>1, <2>3, <2>4, <2>5, Zenon
<1>11. OutcomesAreFacts'
  BY SMTT(60), <1>9, <1>10 DEF OutcomesAreFacts, Agrees
<1>12. OneUnfinishedAttemptPerKey'
  BY <1>4 DEF OneUnfinishedAttemptPerKey, Unfinished, TablesInv
<1> QED
  BY <1>4, <1>9, <1>11, <1>12 DEF TablesInv

\* Applying a sound record, now or when the disk is replayed, keeps the tables
\* consistent.
LEMMA SoundApplied ==
    ASSUME TypeOK, TablesInv, NEW r \in Record, Sound(r), ApplyPayload(r)
    PROVE  TablesInv'
<1>1. CASE r.type \notin {"AttemptPut", "OutcomeCommit"}
  <2>1. UNCHANGED <<attempts, next_attempt, outcomes>>
    BY SMTT(60), <1>1 DEF ApplyPayload
  <2> QED
    BY <2>1, Zenon DEF TablesInv, Agrees, OutcomesAreFacts,
                OneUnfinishedAttemptPerKey, Unfinished
<1> QED
  BY <1>1, SoundPutApplied, SoundOutcomeApplied

-----------------------------------------------------------------------------
(* Every record a handler appends is sound. *)

\* An attempt that has an outcome is finished.
LEMMA UnfinishedHasNoOutcome ==
    ASSUME TypeOK, TablesInv, NEW i \in AttemptIds, Unfinished(i)
    PROVE  NoOutcomeFor(i)
BY DEF TablesInv, Agrees, Unfinished, NoOutcomeFor

LEMMA TransitionSound ==
    ASSUME TypeOK, TablesInv, NEW i \in AttemptIds, Unfinished(i),
           NEW to \in AttemptState,
           to \in {"Acknowledged", "Applied", "Verified"} => ~Covered(i)
    PROVE  /\ Transitioned(i, to) \in Record
           /\ Sound(Transitioned(i, to))
<1> DEFINE r == Transitioned(i, to)
<1>1. attempts[i] # None
  BY DEF Unfinished
<1>2. /\ r \in Record /\ r.type = "AttemptPut" /\ r.id = i
      /\ r.attempt.state = to /\ r.attempt.key = attempts[i].key
      /\ r.attempt.epoch = attempts[i].epoch
  BY <1>1, TransitionedType, ZenonT(60)
<1> HIDE DEF r
<1>3. NoOutcomeFor(r.id)
  BY <1>2, UnfinishedHasNoOutcome
<1>4. \A j \in AttemptIds :
         Unfinished(j) /\ attempts[j].key = r.attempt.key => j = r.id
  BY <1>2 DEF TablesInv, OneUnfinishedAttemptPerKey
<1>5. Sound(r)
  BY <1>1, <1>2, <1>3, <1>4, Zenon DEF Sound, Covered
<1> QED
  BY <1>2, <1>5, Zenon DEF r

LEMMA IssueSound ==
    ASSUME TypeOK, TablesInv, NEW a \in Attempt, Authorised(a),
           next_attempt \in AttemptIds
    PROVE  LET r == [type |-> "AttemptPut", id |-> next_attempt, attempt |-> a]
           IN  r \in Record /\ Sound(r)
<1> DEFINE r == [type |-> "AttemptPut", id |-> next_attempt, attempt |-> a]
<1>1. r \in Record /\ r.type = "AttemptPut" /\ r.id = next_attempt
      /\ r.attempt = a
  BY Zenon DEF Record
<1>2. attempts[next_attempt] = None
  BY ConstantsAssumption DEF TablesInv, TypeOK
<1>3. NoOutcomeFor(next_attempt)
  <2> SUFFICES ASSUME NEW m \in DOMAIN outcomes,
                      outcomes[m].attempt = next_attempt
               PROVE  FALSE
    BY DEF NoOutcomeFor
  <2>1. Agrees(outcomes[m])
    BY DEF TablesInv
  <2>2. next_attempt < next_attempt
    BY SMTT(60), <2>1 DEF Agrees
  <2>3. next_attempt \in Nat
    BY SMTT(60) DEF TypeOK
  <2> QED
    BY <2>2, <2>3
<1> HIDE DEF r
<1>4. a.state = "Dispatched" /\ \A i \in AttemptIds :
                                   Unfinished(i) => attempts[i].key # a.key
  BY DEF Authorised
<1>5. Sound(r)
  BY <1>1, <1>2, <1>3, <1>4, Zenon DEF Sound
<1> QED
  BY <1>1, <1>5 DEF r

\* A record about neither an attempt nor an outcome is always sound.
LEMMA OtherSound ==
    ASSUME NEW r, r.type \notin {"AttemptPut", "OutcomeCommit"}
    PROVE  Sound(r)
BY Zenon DEF Sound

\* Soundness depends on the tables only.
LEMMA SoundStable ==
    ASSUME NEW r, Sound(r), UNCHANGED tables
    PROVE  Sound(r)'
BY Zenon DEF Sound, tables, NoOutcomeFor, Unfinished, FenceHoldsFor, Agrees

-----------------------------------------------------------------------------
(* The invariant is preserved when an append fails, when the process dies    *)
(* and when it opens the store again.                                        *)

LEMMA TablesStable ==
    ASSUME TablesInv, UNCHANGED tables
    PROVE  TablesInv'
BY ZenonT(60) DEF TablesInv, tables, Agrees, OutcomesAreFacts,
       OneUnfinishedAttemptPerKey, Unfinished

\* A handler that fails leaves the tables, keeps its record in limbo or not,
\* and owes nothing.
AppendFails(r) ==
    /\ wedged' = TRUE
    /\ limbo' \in IF wedged THEN {limbo} ELSE {limbo, r}
    /\ phase' = IF phase = "up" THEN "up" ELSE "down"
    /\ op' = Idle
    /\ UNCHANGED tables

LEMMA FailedAppendKeeps ==
    ASSUME TypeOK, TablesInv, ProcessInv, NEW r \in Record, Sound(r),
           AppendFails(r), UNCHANGED plans
    PROVE  TablesInv' /\ ProcessInv'
<1>1. TablesInv'
  BY TablesStable DEF AppendFails
<1>2. limbo' # None => wedged' /\ Sound(limbo)'
  <2>1. \A x : Sound(x) => Sound(x)'
    BY SoundStable DEF AppendFails
  <2>2. limbo' = limbo \/ limbo' = r
    BY DEF AppendFails
  <2>3. CASE limbo' = r
    <3>1. Sound(r)'
      BY <2>1
    <3> QED
      BY <2>3, <3>1, Zenon DEF AppendFails, Sound, Agrees, NoOutcomeFor
  <2>4. CASE limbo' = limbo
    BY <2>4, SoundStable, ZenonT(60) DEF AppendFails, ProcessInv, Sound, Agrees,
       NoOutcomeFor, tables, Unfinished, FenceHoldsFor
  <2> QED
    BY <2>2, <2>3, <2>4
<1>3. RestartRevokesInFlight'
  BY Zenon
     DEF AppendFails, ProcessInv, RestartRevokesInFlight, Unfinished, tables,
         live_epoch
<1>4. phase' # "fencing" /\ wedged' /\ op'.issue = {} /\ op'.outcome = None
  BY DEF AppendFails, Idle
<1>5. \A p \in plans' : p.observation.received_epoch = p.epoch
  BY Zenon DEF ProcessInv
<1> QED
  BY <1>1, <1>2, <1>3, <1>4, <1>5, Zenon DEF ProcessInv

\* What remains to be shown of a step that appends: the case of success.
LEMMA AppendSplits ==
    ASSUME TypeOK, TablesInv, ProcessInv, NEW r \in Record, Sound(r),
           NEW ph, NEW owed, AppendAndApply(r, ph, owed), UNCHANGED plans
    PROVE  \/ TablesInv' /\ ProcessInv'
           \/ /\ ~wedged /\ wedged' = wedged /\ limbo' = None
              /\ ApplyPayload(r) /\ phase' = ph /\ op' = owed
              /\ TablesInv'
<1>1. CASE AppendFails(r)
  BY <1>1, FailedAppendKeeps
<1>2. CASE /\ ~wedged /\ ApplyPayload(r) /\ phase' = ph /\ op' = owed
           /\ UNCHANGED <<wedged, limbo>>
  BY <1>2, SoundApplied, Zenon DEF ProcessInv
<1> QED
  BY <1>1, <1>2, Zenon DEF AppendAndApply, AppendFails

LEMMA LimboStable ==
    ASSUME ProcessInv, UNCHANGED <<tables, wedged, limbo>>
    PROVE  limbo' # None => wedged' /\ Sound(limbo)'
BY SoundStable, ZenonT(60)
   DEF ProcessInv, Sound, Agrees, NoOutcomeFor, tables, Unfinished,
   FenceHoldsFor

LEMMA CurrentStable ==
    ASSUME NEW sc, UNCHANGED observations
    PROVE  Current(sc)' = Current(sc)
BY DEF Current, Retained

\* An attempt stays authorised while nothing it rests on changes and no
\* attempt for its key becomes unfinished.
LEMMA AuthorisedStable ==
    ASSUME NEW a, Authorised(a),
           UNCHANGED <<policy, last_epoch, intents, observations, fences>>,
           \/ UNCHANGED attempts
           \/ \A i \in AttemptIds : Unfinished(i)' => attempts'[i].key # a.key
    PROVE  Authorised(a)'
<1>1. Current(a.key.scope)' = Current(a.key.scope)
  BY CurrentStable
<1>2. FenceHoldsFor(a.key.scope, a.key.subject, live_epoch)'
        = FenceHoldsFor(a.key.scope, a.key.subject, live_epoch)
  BY Zenon DEF FenceHoldsFor, live_epoch
<1>3. \A i \in AttemptIds : Unfinished(i)' => attempts'[i].key # a.key
  BY Zenon DEF Authorised, Unfinished
<1> QED
  BY <1>1, <1>2, <1>3, ZenonT(60) DEF Authorised, live_epoch

\* Open and Crash.
LEMMA KeptByOpenAndCrash ==
    ASSUME TypeInv, TablesInv, ProcessInv, Open \/ OpenReadOnly \/ Crash
    PROVE  TablesInv' /\ ProcessInv'
<1>1. CASE Open \/ OpenReadOnly
  <2>1. TablesInv'
    <3>1. CASE limbo = None
      BY SMTT(60), <1>1, <3>1, TablesStable DEF Open, OpenReadOnly, Replay
    <3>2. CASE limbo # None
      <4>1. limbo \in Record /\ Sound(limbo) /\ ApplyPayload(limbo)
        BY <1>1, <3>2, ZenonT(60)
           DEF Open, OpenReadOnly, Replay, TypeInv, TypeOK, ProcessInv
      <4> QED
        BY <4>1, SoundApplied DEF TypeInv
    <3> QED
      BY SMTT(60), <3>1, <3>2
  <2>2. phase' \in {"opening", "reading"} /\ op' = Idle /\ limbo' = None
        /\ plans' = plans
    BY <1>1 DEF Open, OpenReadOnly, TypeInv, HandlerOK
  <2> QED
    BY <2>1, <2>2, Zenon DEF ProcessInv, RestartRevokesInFlight, Idle
<1>2. CASE Crash
  <2>1. UNCHANGED <<tables, wedged, limbo, plans>> /\ phase' = "down" /\ op' = Idle
    BY <1>2 DEF Crash
  <2>2. TablesInv' /\ (limbo' # None => wedged' /\ Sound(limbo)')
    BY <2>1, TablesStable, LimboStable
  <2> QED
    BY <2>1, <2>2, Zenon DEF ProcessInv, RestartRevokesInFlight, Idle
<1> QED
  BY <1>1, <1>2

\* A record about neither attempts nor outcomes, appended by an engine that is
\* up and owes nothing afterwards.
LEMMA KeptByDocument ==
    ASSUME TypeInv, TablesInv, ProcessInv, Serving, NEW r \in Record,
           r.type \in {"PolicyPut", "IntentCommit", "ObservationCommit",
                       "FenceClear"},
           AppendAndApply(r, phase, Idle), UNCHANGED plans
    PROVE  TablesInv' /\ ProcessInv'
<1>1. Sound(r)
  BY SMTT(60), OtherSound
<1>2. SUFFICES ASSUME ~wedged, wedged' = wedged, limbo' = None,
                      ApplyPayload(r), phase' = phase, op' = Idle, TablesInv'
               PROVE  ProcessInv'
  BY Zenon, <1>1, AppendSplits DEF TypeInv
<1>3. UNCHANGED <<attempts, last_epoch>>
  BY <1>2 DEF ApplyPayload
<1>4. \A f \in FenceIds : fences'[f] # None => fences'[f] = fences[f]
  BY <1>2, Zenon DEF ApplyPayload, TypeInv, TypeOK
<1>5. ASSUME NEW i \in AttemptIds, Unfinished(i)', Covered(i)' PROVE FALSE
  <2>1. Unfinished(i) /\ Covered(i)
    BY <1>3, <1>4, <1>5, Zenon DEF Unfinished, Covered, FenceHoldsFor
  <2> QED
    BY <1>2, <2>1, Zenon DEF ProcessInv, Serving, Idle
<1>6. RestartRevokesInFlight' /\ phase' = "up"
  BY <1>2, <1>3, Zenon
     DEF ProcessInv, RestartRevokesInFlight, Unfinished, live_epoch,
                    Serving
<1> QED
  BY <1>2, <1>5, <1>6, Zenon DEF ProcessInv, Idle

\* Policies, intents, observations and the clearing of fences.
LEMMA KeptByEvidence ==
    ASSUME TypeInv, TablesInv, ProcessInv,
           Evidence \/ \E id \in FenceIds : ClearFence(id)
    PROVE  TablesInv' /\ ProcessInv'
<1>1. ASSUME NEW p \in Policies, PutPolicy(p)
      PROVE  TablesInv' /\ ProcessInv'
  <2> DEFINE r == [type |-> "PolicyPut", policy |-> p]
  <2>1. r \in Record /\ r.type = "PolicyPut"
    BY DEF Record
  <2>2. Serving /\ AppendAndApply(r, phase, Idle) /\ UNCHANGED plans
    BY <1>1 DEF PutPolicy
  <2> HIDE DEF r
  <2> QED
    BY Zenon, <2>1, <2>2, KeptByDocument
<1>2. ASSUME NEW sc \in Scopes, NEW doc \in Intent, CommitIntent(sc, doc)
      PROVE  TablesInv' /\ ProcessInv'
  <2> DEFINE r == [type |-> "IntentCommit", scope |-> sc, intent |-> doc]
  <2>1. r \in Record /\ r.type = "IntentCommit"
    BY DEF Record
  <2>2. Serving /\ AppendAndApply(r, phase, Idle) /\ UNCHANGED plans
    BY <1>2, Zenon DEF CommitIntent
  <2> HIDE DEF r
  <2> QED
    BY Zenon, <2>1, <2>2, KeptByDocument
<1>3. ASSUME NEW sc \in Scopes, NEW id \in ObservationIds, NEW re \in Reporters,
             NEW g \in Generations, NEW b \in Bodies, NEW t \in Times,
             RecordObservation(sc, id, re, g, b, t)
      PROVE  TablesInv' /\ ProcessInv'
  <2> DEFINE o == [id |-> id, reporter |-> re, generation |-> g, body |-> b,
                   received_epoch |-> live_epoch, received_unix_ms |-> t]
             r == [type |-> "ObservationCommit", scope |-> sc,
                   observation |-> o]
  <2>1. Serving /\ UNCHANGED plans /\ AppendAndApply(r, phase, Idle)
    BY <1>3 DEF RecordObservation
  <2>2. live_epoch \in Epochs
    BY <2>1, Zenon DEF Serving, TypeInv, HandlerOK, live_epoch
  <2>3. o \in Observation
    BY <2>2 DEF Observation
  <2>4. r \in Record /\ r.type = "ObservationCommit"
    BY <2>3, Zenon DEF Record
  <2> HIDE DEF r
  <2> QED
    BY Zenon, <2>1, <2>4, KeptByDocument
<1>4. ASSUME NEW id \in FenceIds, ClearFence(id)
      PROVE  TablesInv' /\ ProcessInv'
  <2> DEFINE r == [type |-> "FenceClear", id |-> id]
  <2>1. r \in Record /\ r.type = "FenceClear"
    BY Zenon DEF Record
  <2>2. Serving /\ AppendAndApply(r, phase, Idle) /\ UNCHANGED plans
    BY <1>4 DEF ClearFence
  <2> HIDE DEF r
  <2> QED
    BY Zenon, <2>1, <2>2, KeptByDocument
<1> QED
  BY SMTT(60), <1>1, <1>2, <1>3, <1>4 DEF Evidence

\* A plan is only remembered by its caller.
LEMMA KeptByPlan ==
    ASSUME TypeInv, TablesInv, ProcessInv, NEW sc \in Scopes,
           NEW p \in Policies, NEW now \in Times, Plan(sc, p, now)
    PROVE  TablesInv' /\ ProcessInv'
<1>1. UNCHANGED <<tables, phase, op, wedged, limbo>>
      /\ PlanSubjects(sc, p, now) # {}
  BY DEF Plan
<1>2. TablesInv' /\ (limbo' # None => wedged' /\ Sound(limbo)')
  BY Zenon, <1>1, TablesStable, LimboStable
<1>3. Current(sc).received_epoch = live_epoch
  BY <1>1, PlanIsBased DEF TypeInv
<1>4. \A x \in plans' : x.observation.received_epoch = x.epoch
  <2> DEFINE made == [scope |-> sc, epoch |-> live_epoch, policy |-> p,
                      intent |-> intents[sc], observation |-> Current(sc),
                      subjects |-> PlanSubjects(sc, p, now)]
  <2>1. plans' = plans \cup {made}
    BY ZenonT(60) DEF Plan
  <2>2. made.observation.received_epoch = made.epoch
    BY <1>3
  <2>3. \A x \in plans : x.observation.received_epoch = x.epoch
    BY Zenon DEF ProcessInv
  <2> HIDE DEF made
  <2> QED
    BY <2>1, <2>2, <2>3, Zenon
<1>5. \A a \in op'.issue : Authorised(a)'
  BY <1>1, AuthorisedStable, Zenon DEF ProcessInv, tables
<1>6. op'.outcome # None => Agrees(op.outcome)' /\ NoOutcomeFor(op.outcome.attempt)'
  BY <1>1, Zenon DEF ProcessInv, Agrees, NoOutcomeFor, tables
<1>7. /\ RestartRevokesInFlight'
      /\ phase' = "fencing" =>
           \A i \in AttemptIds : Unfinished(i)' => i \in op'.sweep
      /\ phase' = "up" /\ ~wedged' =>
           \A i \in AttemptIds : Unfinished(i)' /\ Covered(i)' => i \in op'.sweep
  BY <1>1, Zenon
     DEF ProcessInv, RestartRevokesInFlight, tables, live_epoch, Covered,
              FenceHoldsFor, Unfinished
<1> QED
  BY <1>1, <1>2, <1>4, <1>5, <1>6, <1>7, ZenonT(60) DEF ProcessInv

\* Dispatch authorises what it is about to issue.
LEMMA KeptByDispatch ==
    ASSUME TypeInv, TablesInv, ProcessInv, NEW p \in plans, Dispatch(p)
    PROVE  TablesInv' /\ ProcessInv'
<1>1. UNCHANGED <<tables, phase, wedged, limbo, plans>> /\ Serving
  BY DEF Dispatch
<1>2. op'.issue = ToIssue(p) /\ op'.sweep = {} /\ op'.outcome = None
  BY DEF Dispatch, Idle
<1>3. TablesInv' /\ (limbo' # None => wedged' /\ Sound(limbo)')
  BY <1>1, TablesStable, LimboStable
<1>4. ASSUME NEW a \in ToIssue(p) PROVE Authorised(a)
  <2>1. PICK k \in [scope : {p.scope}, subject : p.subjects,
                    intent : {p.intent}, observation : {p.observation}] :
          /\ a = [key |-> k, policy |-> p.policy, epoch |-> live_epoch,
                  state |-> "Dispatched"]
          /\ ~FenceHoldsFor(k.scope, k.subject, live_epoch)
          /\ ~Reusable(k)
    BY Zenon DEF ToIssue
  <2>2. /\ a.key = k /\ a.policy = p.policy /\ a.epoch = live_epoch
        /\ a.state = "Dispatched"
        /\ k.scope = p.scope /\ k.intent = p.intent
        /\ k.observation = p.observation
    BY <2>1, Zenon
  <2>3. /\ p.epoch = live_epoch /\ p.policy = policy
        /\ p.intent = intents[p.scope] /\ p.observation = Current(p.scope)
        /\ p.observation.received_epoch = p.epoch
    BY DEF Dispatch, ProcessInv
  <2>4. ASSUME NEW i \in AttemptIds, Unfinished(i) PROVE attempts[i].key # k
    <3>1. attempts[i].epoch = live_epoch
      BY <1>1, <2>4, Zenon DEF ProcessInv, RestartRevokesInFlight, Serving
    <3> QED
      BY <2>1, <2>4, <3>1, Zenon DEF Reusable, Held, Unfinished
  <2> QED
    BY <2>1, <2>2, <2>3, <2>4, Zenon DEF Authorised
<1>5. \A a \in op'.issue : Authorised(a)'
  BY <1>1, <1>2, <1>4, AuthorisedStable, Zenon DEF tables
<1>6. ASSUME NEW a \in ToIssue(p), NEW c \in ToIssue(p), a.key = c.key
      PROVE  a = c
  <2>1. ASSUME NEW x \in ToIssue(p)
        PROVE  x = [key |-> x.key, policy |-> p.policy, epoch |-> live_epoch,
                    state |-> "Dispatched"]
    <3>1. PICK k : x = [key |-> k, policy |-> p.policy, epoch |-> live_epoch,
                        state |-> "Dispatched"]
      BY <2>1, Zenon DEF ToIssue
    <3>2. x.key = k
      BY <3>1
    <3> QED
      BY <3>1, <3>2, Zenon
  <2> QED
    BY <1>6, <2>1, Zenon
<1>7. /\ RestartRevokesInFlight'
      /\ phase' = "up"
      /\ ~wedged' =>
           \A i \in AttemptIds : Unfinished(i)' /\ Covered(i)' => i \in op'.sweep
  BY <1>1, <1>2, Zenon
     DEF ProcessInv, RestartRevokesInFlight, tables, live_epoch,
              Covered, FenceHoldsFor, Unfinished, Serving, Idle
<1> QED
  <2>1. op'.outcome = None /\ op'.sweep = {}
        /\ \A a, c \in op'.issue : a.key = c.key => a = c
    BY <1>2, <1>6
  <2>2. phase' # "fencing"
    BY <1>7, Zenon
  <2>3. \A q \in plans' : q.observation.received_epoch = q.epoch
    BY <1>1, Zenon DEF ProcessInv
  <2> QED
    BY <1>3, <1>5, <1>7, <2>1, <2>2, <2>3, ZenonT(60) DEF ProcessInv

\* A transition of an unfinished attempt: what it leaves unfinished was
\* unfinished before, with the same key and epoch.
LEMMA TransitionKeeps ==
    ASSUME TypeOK, NEW i \in AttemptIds, Unfinished(i), NEW to \in AttemptState,
           ApplyPayload(Transitioned(i, to)),
           NEW j \in AttemptIds, Unfinished(j)'
    PROVE  /\ Unfinished(j)
           /\ j = i => ~IsTerminal(to)
           /\ attempts'[j].key = attempts[j].key
           /\ attempts'[j].epoch = attempts[j].epoch
<1> DEFINE r == Transitioned(i, to)
<1>1. /\ r \in Record /\ r.type = "AttemptPut" /\ r.id = i
      /\ r.attempt.state = to /\ r.attempt.key = attempts[i].key
      /\ r.attempt.epoch = attempts[i].epoch
  BY TransitionedType, ZenonT(60) DEF Unfinished
<1>2. ApplyPayload(r)
  OBVIOUS
<1> HIDE DEF r
<1> QED
  BY <1>1, <1>2, PutUnfinished, Zenon

\* The outcome owed after a transition to a terminal state agrees with it.
LEMMA TransitionOwes ==
    ASSUME TypeOK, TablesInv, NEW i \in AttemptIds, Unfinished(i),
           NEW to \in AttemptState, IsTerminal(to),
           ApplyPayload(Transitioned(i, to)),
           NEW o, o.attempt = i, o.terminal_state = to
    PROVE  Agrees(o)' /\ NoOutcomeFor(o.attempt)'
<1> DEFINE r == Transitioned(i, to)
<1>1. /\ r \in Record /\ r.type = "AttemptPut" /\ r.id = i
      /\ r.attempt.state = to
  BY TransitionedType, ZenonT(60) DEF Unfinished
<1>2. ApplyPayload(r)
  OBVIOUS
<1> HIDE DEF r
<1>3. /\ attempts'[i] # None => attempts'[i].state = to
      /\ UNCHANGED outcomes
      /\ next_attempt' = IF i >= next_attempt THEN i + 1 ELSE next_attempt
  BY <1>1, <1>2, PutEffect, Zenon
<1>4. i < next_attempt'
  BY <1>3, IdsAreNumbers, PutRaisesNext, Zenon
<1>5. NoOutcomeFor(i)
  BY UnfinishedHasNoOutcome
<1> QED
  BY <1>3, <1>4, <1>5, Zenon DEF Agrees, NoOutcomeFor

\* Complete and Verify.
LEMMA KeptByTransition ==
    ASSUME TypeInv, TablesInv, ProcessInv, Serving,
           NEW i \in AttemptIds, Unfinished(i), NEW to \in AttemptState,
           NEW o, o = None \/ (/\ IsTerminal(to) /\ o.attempt = i
                              /\ o.terminal_state = to),
           AppendAndApply(Transitioned(i, to), phase,
                          [Idle EXCEPT !.outcome = o]),
           UNCHANGED plans
    PROVE  TablesInv' /\ ProcessInv'
<1> DEFINE r == Transitioned(i, to)
           owed == [Idle EXCEPT !.outcome = o]
<1>1. owed.issue = {} /\ owed.sweep = {} /\ owed.outcome = o
  BY DEF Idle
<1>2. ~wedged => ~Covered(i)
  BY DEF ProcessInv, Serving, Idle
<1>3. CASE wedged
  <2>1. AppendFails(r)
    BY <1>3 DEF AppendAndApply, AppendFails
  <2>2. UNCHANGED <<tables, limbo>> /\ wedged' /\ phase' = phase /\ op' = Idle
    BY <1>3, <2>1 DEF AppendFails, Serving
  <2>3. TablesInv'
    BY <2>2, TablesStable
  <2>4. limbo' # None => wedged' /\ Sound(limbo)'
    BY <1>3, <2>2, SoundStable, ZenonT(60)
       DEF ProcessInv, Sound, Agrees, NoOutcomeFor,
       tables, Unfinished, FenceHoldsFor
  <2>5. RestartRevokesInFlight' /\ phase' = "up"
    BY <2>2 DEF ProcessInv, RestartRevokesInFlight, tables, live_epoch,
                Unfinished, Serving
  <2> QED
    BY <2>2, <2>3, <2>4, <2>5 DEF ProcessInv, Idle
<1>4. CASE ~wedged
  <2>1. r \in Record /\ Sound(r)
    BY <1>2, <1>4, TransitionSound DEF TypeInv
  <2>2. AppendAndApply(r, phase, owed)
    OBVIOUS
  <2>3. SUFFICES ASSUME ~wedged, wedged' = wedged, limbo' = None,
                        ApplyPayload(r), phase' = phase, op' = owed, TablesInv'
                 PROVE  ProcessInv'
    <3> HIDE DEF r, owed
    <3> QED
      BY SMTT(60), <2>1, <2>2, AppendSplits DEF TypeInv
  <2>4. UNCHANGED <<last_epoch, fences>>
    BY <2>3 DEF ApplyPayload, Transitioned
  <2>5. ASSUME NEW j \in AttemptIds, Unfinished(j)'
        PROVE  /\ Unfinished(j) /\ attempts'[j].key = attempts[j].key
               /\ attempts'[j].epoch = attempts[j].epoch
    BY SMTT(60), <2>3, <2>5, TransitionKeeps DEF TypeInv
  <2>6. RestartRevokesInFlight' /\ phase' = "up"
    BY SMTT(60), <2>3, <2>4, <2>5
       DEF ProcessInv, RestartRevokesInFlight, Serving,
                            live_epoch
  <2>7. ASSUME NEW j \in AttemptIds, Unfinished(j)', Covered(j)' PROVE FALSE
    <3>1. Unfinished(j) /\ Covered(j)
      BY SMTT(60), <2>4, <2>5, <2>7 DEF Covered, FenceHoldsFor
    <3> QED
      BY <2>3, <3>1 DEF ProcessInv, Serving, Idle
  <2>8. o # None => Agrees(o)' /\ NoOutcomeFor(o.attempt)'
    BY <2>3, TransitionOwes DEF TypeInv
  <2>9. op' = owed /\ plans' = plans /\ limbo' = None
    BY <2>3
  <2> HIDE DEF r, owed
  <2>10. op'.outcome # None =>
            Agrees(op.outcome)' /\ NoOutcomeFor(op.outcome.attempt)'
    BY <1>1, <2>8, <2>9 DEF Agrees, NoOutcomeFor
  <2> QED
    BY SMTT(60), <1>1, <2>6, <2>7, <2>9, <2>10 DEF ProcessInv
<1> QED
  BY <1>3, <1>4

LEMMA MakeOutcomeFields ==
    ASSUME NEW i, NEW state, NEW amb, NEW g
    PROVE  /\ MakeOutcome(i, state, amb, g).attempt = i
           /\ MakeOutcome(i, state, amb, g).terminal_state = state
BY Zenon DEF MakeOutcome

\* Planning, dispatching, completing and verifying.
LEMMA KeptByActions ==
    ASSUME TypeInv, TablesInv, ProcessInv, Actions
    PROVE  TablesInv' /\ ProcessInv'
<1>1. ASSUME NEW i \in AttemptIds, NEW e \in Epochs,
             NEW target \in AttemptState, Complete(i, e, target)
      PROVE  TablesInv' /\ ProcessInv'
  <2> DEFINE o == IF IsTerminal(target)
                  THEN MakeOutcome(i, target, IsInconclusive(target), 0)
                  ELSE None
  <2>1. Serving /\ Unfinished(i) /\ UNCHANGED plans
    BY <1>1 DEF Complete, Unfinished
  <2>2. AppendAndApply(Transitioned(i, target), phase,
                       [Idle EXCEPT !.outcome = o])
    BY SMTT(60), <1>1, IdleRests DEF Complete
  <2>3. o = None \/ (/\ IsTerminal(target) /\ o.attempt = i
                    /\ o.terminal_state = target)
    BY MakeOutcomeFields
  <2> HIDE DEF o
  <2> QED
    BY SMTT(60), <2>1, <2>2, <2>3, KeptByTransition
<1>2. ASSUME NEW i \in Held(attempts), NEW applier \in Reporters,
             NEW now \in Times, NEW confirms \in BOOLEAN,
             NEW x \in Retained(attempts[i].key.scope),
             Verify(i, x, applier, now, confirms)
      PROVE  TablesInv' /\ ProcessInv'
  <2> DEFINE target == IF confirms THEN "Verified" ELSE "Failed"
             o == MakeOutcome(i, target, ~confirms, x.generation)
  <2>1. Serving /\ UNCHANGED plans /\ i \in AttemptIds /\ Unfinished(i)
    BY <1>2 DEF Verify, Unfinished, Held, IsTerminal
  <2>2. AppendAndApply(Transitioned(i, target), phase,
                       [Idle EXCEPT !.outcome = o])
    BY <1>2 DEF Verify
  <2>3. target \in AttemptState /\ IsTerminal(target)
    BY DEF AttemptState, IsTerminal
  <2> HIDE DEF target
  <2>4. o.attempt = i /\ o.terminal_state = target
    BY Zenon DEF MakeOutcome
  <2> HIDE DEF o
  <2> QED
    BY SMTT(60), <2>1, <2>2, <2>3, <2>4, KeptByTransition
<1> QED
  BY <1>1, <1>2, KeptByPlan, KeptByDispatch, Zenon DEF Actions

\* PutFence owes the fencing of every attempt the new fence covers.
LEMMA KeptByPutFence ==
    ASSUME TypeInv, TablesInv, ProcessInv, NEW id \in FenceIds,
           NEW f \in Fence, PutFence(id, f)
    PROVE  TablesInv' /\ ProcessInv'
<1> DEFINE r == [type |-> "FencePut", id |-> id, fence |-> f]
           owed == [Idle EXCEPT !.sweep = Victims(f)]
<1>1. /\ r \in Record /\ r.type = "FencePut" /\ Sound(r)
      /\ r.id = id /\ r.fence = f
  BY OtherSound, Zenon DEF Record
<1>2. owed.issue = {} /\ owed.sweep = Victims(f) /\ owed.outcome = None
  BY DEF Idle
<1>3. AppendAndApply(r, phase, owed) /\ UNCHANGED plans /\ Serving
  BY SMTT(60) DEF PutFence
<1> HIDE DEF r, owed
<1>4. SUFFICES ASSUME ~wedged, wedged' = wedged, limbo' = None,
                      ApplyPayload(r), phase' = phase, op' = owed, TablesInv'
               PROVE  ProcessInv'
  BY <1>1, <1>3, AppendSplits DEF TypeInv
<1>5. UNCHANGED <<attempts, last_epoch>> /\ fences' = [fences EXCEPT ![id] = f]
  BY <1>1, <1>4, Zenon DEF ApplyPayload
<1>6. RestartRevokesInFlight' /\ phase' = "up"
  BY <1>3, <1>4, <1>5, Zenon DEF ProcessInv, RestartRevokesInFlight, Serving,
                          live_epoch, Unfinished
<1>7. ASSUME NEW i \in AttemptIds, Unfinished(i)', Covered(i)'
      PROVE  i \in Victims(f)
  <2>1. Unfinished(i) /\ ~Covered(i)
    BY <1>3, <1>4, <1>5, <1>7, Zenon DEF ProcessInv, Serving, Idle, Unfinished
  <2>2. PICK g \in FenceIds :
           /\ fences'[g] # None
           /\ fences'[g].scope = attempts[i].key.scope
           /\ fences'[g].subject \in {AnySubject, attempts[i].key.subject}
           /\ attempts[i].epoch < fences'[g].fenced_below
    BY <1>5, <1>7, Zenon DEF Covered, FenceHoldsFor
  <2>3. g = id
    BY <1>5, <2>1, <2>2, ZenonT(60) DEF Covered, FenceHoldsFor, TypeInv, TypeOK
  <2>4. fences'[g] = f
    BY <1>5, <2>3, Zenon DEF TypeInv, TypeOK
  <2> QED
    BY <2>1, <2>2, <2>4, Zenon DEF Victims, Held, Unfinished
<1> QED
  BY <1>2, <1>3, <1>4, <1>6, <1>7, Zenon DEF ProcessInv

\* InstallInitialPolicy and AdvanceEpoch.
LEMMA KeptByBoot ==
    ASSUME TypeInv, TablesInv, ProcessInv, InstallInitialPolicy \/ AdvanceEpoch
    PROVE  TablesInv' /\ ProcessInv'
<1>1. CASE InstallInitialPolicy
  <2> DEFINE r == [type |-> "PolicyPut", policy |-> InitialPolicy]
  <2>1. r \in Record /\ Sound(r)
    BY OtherSound, ConstantsAssumption, ZenonT(60) DEF Record
  <2>2. AppendAndApply(r, "opening", Idle) /\ UNCHANGED plans
    BY SMTT(60), <1>1 DEF InstallInitialPolicy
  <2> HIDE DEF r
  <2>3. SUFFICES ASSUME limbo' = None, phase' = "opening", op' = Idle
                 PROVE  ProcessInv'
    BY <2>1, <2>2, AppendSplits DEF TypeInv
  <2> QED
    BY <2>2, <2>3, Zenon DEF ProcessInv, RestartRevokesInFlight, Idle
<1>2. CASE AdvanceEpoch
  <2> DEFINE r == [type |-> "EpochAdvance", epoch |-> last_epoch + 1]
             ph == IF Candidates = {} THEN "up" ELSE "fencing"
             owed == [Idle EXCEPT !.sweep = Candidates]
  <2>1. r \in Record /\ Sound(r) /\ r.type = "EpochAdvance"
    BY <1>2, OtherSound DEF AdvanceEpoch, Record
  <2>2. owed.issue = {} /\ owed.sweep = Candidates /\ owed.outcome = None
    BY DEF Idle
  <2>3. AppendAndApply(r, ph, owed) /\ UNCHANGED plans
    BY SMTT(60), <1>2 DEF AdvanceEpoch
  <2> HIDE DEF r, owed
  <2>4. SUFFICES ASSUME limbo' = None, ApplyPayload(r), phase' = ph, op' = owed
                 PROVE  ProcessInv'
    BY <2>1, <2>3, AppendSplits DEF TypeInv
  <2>5. UNCHANGED attempts
    BY <2>1, <2>4, Zenon DEF ApplyPayload
  <2>6. \A i \in AttemptIds : Unfinished(i)' => i \in Candidates
    BY <2>5 DEF Candidates, Held, Unfinished
  <2> QED
    BY <2>2, <2>3, <2>4, <2>6, Zenon DEF ProcessInv, RestartRevokesInFlight
<1> QED
  BY <1>1, <1>2

\* One attempt of a restart or a fence is finished.
LEMMA KeptBySweep ==
    ASSUME TypeInv, TablesInv, ProcessInv, SweepNext
    PROVE  TablesInv' /\ ProcessInv'
<1>1. PICK i \in op.sweep :
         AppendAndApply(Transitioned(i, SweepTarget(i)), phase,
            [op EXCEPT !.sweep = @ \ {i},
                       !.outcome = MakeOutcome(i, SweepTarget(i),
                                       SweepTarget(i) = "Interrupted", 0)])
  BY ZenonT(60) DEF SweepNext
<1> DEFINE to == SweepTarget(i)
           r == Transitioned(i, to)
           o == MakeOutcome(i, to, to = "Interrupted", 0)
           owed == [op EXCEPT !.sweep = @ \ {i}, !.outcome = o]
<1>2. i \in AttemptIds /\ Unfinished(i) /\ op.issue = {} /\ op \in Owed
  BY DEF TypeInv, TypeOK, Owed, HandlerOK
<1>3. to \in AttemptState /\ IsTerminal(to) /\ to # "Verified"
  BY DEF SweepTarget, AttemptState, IsTerminal
<1>4. o.attempt = i /\ o.terminal_state = to
  BY Zenon DEF MakeOutcome
<1>5. AppendAndApply(r, phase, owed) /\ UNCHANGED plans
  BY <1>1 DEF SweepNext
<1> HIDE DEF o
<1>6. owed.issue = {} /\ owed.sweep = op.sweep \ {i} /\ owed.outcome = o
  BY <1>2 DEF Owed
<1> HIDE DEF to, owed
<1>7. r \in Record /\ Sound(r)
  <2>1. to \notin {"Acknowledged", "Applied", "Verified"}
    BY <1>3 DEF IsTerminal
  <2> QED
    BY <1>2, <1>3, <2>1, TransitionSound, Zenon DEF TypeInv
<1>8. SUFFICES ASSUME ~wedged, wedged' = wedged, limbo' = None,
                      ApplyPayload(r), phase' = phase, op' = owed, TablesInv'
               PROVE  ProcessInv'
  <2> HIDE DEF r
  <2> QED
    BY <1>5, <1>7, AppendSplits, Zenon DEF TypeInv
<1>9. UNCHANGED <<last_epoch, fences>>
  BY <1>8 DEF ApplyPayload, Transitioned
<1>10. ASSUME NEW j \in AttemptIds, Unfinished(j)'
       PROVE  /\ Unfinished(j) /\ attempts'[j].key = attempts[j].key
              /\ attempts'[j].epoch = attempts[j].epoch /\ j # i
  BY <1>2, <1>3, <1>8, <1>10, TransitionKeeps, Zenon DEF TypeInv
<1>11. ASSUME NEW x, x.attempt = i, x.terminal_state = to
       PROVE  Agrees(x)' /\ NoOutcomeFor(x.attempt)'
  BY <1>2, <1>3, <1>8, <1>11, TransitionOwes, Zenon DEF TypeInv
<1>12. RestartRevokesInFlight'
  BY <1>8, <1>9, <1>10, Zenon DEF ProcessInv, RestartRevokesInFlight, live_epoch
<1>13. phase' = "fencing" =>
          \A j \in AttemptIds : Unfinished(j)' => j \in op'.sweep
  BY <1>6, <1>8, <1>10, Zenon DEF ProcessInv
<1>14. ASSUME phase' = "up", NEW j \in AttemptIds, Unfinished(j)', Covered(j)'
       PROVE  j \in op'.sweep
  <2>1. Covered(j)
    BY <1>9, <1>10, <1>14, Zenon DEF Covered, FenceHoldsFor
  <2> QED
    BY <1>6, <1>8, <1>10, <1>14, <2>1, ZenonT(60) DEF ProcessInv
<1>15. Agrees(op.outcome)' /\ NoOutcomeFor(op.outcome.attempt)'
  <2>1. op'.outcome.attempt = i /\ op'.outcome.terminal_state = to
    BY <1>4, <1>6, <1>8
  <2> QED
    BY <1>11, <2>1, ZenonT(60) DEF Agrees, NoOutcomeFor
<1> QED
  BY <1>5, <1>6, <1>8, <1>12, <1>13, <1>14, <1>15, ZenonT(60) DEF ProcessInv

\* The outcome of the attempt just finished is committed.
LEMMA KeptByCommitOutcome ==
    ASSUME TypeInv, TablesInv, ProcessInv, CommitOutcome
    PROVE  TablesInv' /\ ProcessInv'
<1> DEFINE r == [type |-> "OutcomeCommit", outcome |-> op.outcome]
           owed == [op EXCEPT !.outcome = None]
           ph == IF owed = Idle THEN "up" ELSE phase
<1>1. op \in Owed /\ op.outcome \in Outcome /\ op.issue = {}
  BY DEF CommitOutcome, TypeInv, TypeOK, Owed, HandlerOK
<1>2. r \in Record /\ r.type = "OutcomeCommit" /\ r.outcome = op.outcome
  BY <1>1, Zenon DEF Record
<1>3. owed.issue = {} /\ owed.sweep = op.sweep /\ owed.outcome = None
  BY <1>1 DEF Owed
<1>4. AppendAndApply(r, ph, owed) /\ UNCHANGED plans
  BY DEF CommitOutcome
<1>5. owed = Idle => op.sweep = {}
  BY <1>3 DEF Idle
<1> HIDE DEF r, owed
<1>6. Sound(r)
  BY <1>2 DEF Sound, ProcessInv, CommitOutcome
<1>7. SUFFICES ASSUME ~wedged, wedged' = wedged, limbo' = None,
                      ApplyPayload(r), phase' = ph, op' = owed, TablesInv'
               PROVE  ProcessInv'
  BY <1>2, <1>4, <1>6, AppendSplits, Zenon DEF TypeInv
<1>8. UNCHANGED <<attempts, last_epoch, fences>>
  BY <1>2, <1>7, Zenon DEF ApplyPayload
<1>9. phase \in {"fencing", "up"}
  BY DEF TypeInv, TypeOK, HandlerOK, Idle, CommitOutcome
<1>10. RestartRevokesInFlight'
  BY <1>5, <1>7, <1>8, <1>9, ZenonT(60) DEF ProcessInv, RestartRevokesInFlight,
                                live_epoch, Unfinished
<1>11. phase' = "fencing" =>
          \A i \in AttemptIds : Unfinished(i)' => i \in op'.sweep
  BY <1>3, <1>7, <1>8, Zenon DEF ProcessInv, Unfinished
<1>12. ASSUME phase' = "up", NEW i \in AttemptIds, Unfinished(i)', Covered(i)'
       PROVE  i \in op'.sweep
  <2>1. Unfinished(i) /\ Covered(i)
    BY <1>8, <1>12, Zenon DEF Unfinished, Covered, FenceHoldsFor
  <2> QED
    BY <1>3, <1>7, <1>9, <2>1, ZenonT(60) DEF ProcessInv
<1> QED
  BY <1>3, <1>4, <1>7, <1>10, <1>11, <1>12, ZenonT(60) DEF ProcessInv

\* One attempt of a dispatch is issued.
LEMMA KeptByIssue ==
    ASSUME TypeInv, TablesInv, ProcessInv, IssueNext
    PROVE  TablesInv' /\ ProcessInv'
<1>1. PICK a \in op.issue :
         AppendAndApply([type |-> "AttemptPut", id |-> next_attempt,
                         attempt |-> a],
                        phase, [op EXCEPT !.issue = @ \ {a}])
  BY Zenon DEF IssueNext
<1> DEFINE r == [type |-> "AttemptPut", id |-> next_attempt, attempt |-> a]
           owed == [op EXCEPT !.issue = @ \ {a}]
<1>2. /\ op \in Owed /\ a \in Attempt /\ Authorised(a)
      /\ next_attempt \in AttemptIds /\ UNCHANGED plans
      /\ op.sweep = {} /\ op.outcome = None /\ phase = "up"
  BY DEF TypeInv, TypeOK, Owed, HandlerOK, ProcessInv, IssueNext
<1>3. r \in Record /\ Sound(r)
  BY <1>2, IssueSound, Zenon DEF TypeInv
<1>4. r.type = "AttemptPut" /\ r.id = next_attempt /\ r.attempt = a
  BY Zenon
<1>5. owed.issue = op.issue \ {a} /\ owed.sweep = {} /\ owed.outcome = None
  BY <1>2 DEF Owed
<1>6. AppendAndApply(r, phase, owed)
  BY <1>1
<1> HIDE DEF r, owed
<1>7. SUFFICES ASSUME ~wedged, wedged' = wedged, limbo' = None,
                      ApplyPayload(r), phase' = phase, op' = owed, TablesInv'
               PROVE  ProcessInv'
  BY <1>2, <1>3, <1>6, AppendSplits, Zenon DEF TypeInv
<1>8. UNCHANGED <<policy, last_epoch, intents, observations, fences>>
  BY <1>3, <1>4, <1>7, PutEffect, Zenon DEF TypeInv
<1>9. ASSUME NEW i \in AttemptIds, Unfinished(i)'
      PROVE  \/ attempts'[i] = a
             \/ attempts'[i] = attempts[i] /\ Unfinished(i)
  BY <1>3, <1>4, <1>7, <1>9, PutUnfinished, ZenonT(60) DEF TypeInv
<1>10. a.epoch = live_epoch /\ ~FenceHoldsFor(a.key.scope, a.key.subject, a.epoch)
  BY <1>2, Zenon DEF Authorised
<1>11. RestartRevokesInFlight'
  BY <1>2, <1>8, <1>9, <1>10, Zenon
     DEF ProcessInv, RestartRevokesInFlight, live_epoch
<1>12. ASSUME NEW i \in AttemptIds, Unfinished(i)', Covered(i)' PROVE FALSE
  <2>1. CASE attempts'[i] = a
    BY <1>8, <1>10, <1>12, <2>1, Zenon DEF Covered, FenceHoldsFor
  <2>2. CASE attempts'[i] = attempts[i] /\ Unfinished(i)
    <3>1. Covered(i)
      BY <1>8, <1>12, <2>2, Zenon DEF Covered, FenceHoldsFor
    <3> QED
      BY <1>2, <1>7, <2>2, <3>1, ZenonT(60) DEF ProcessInv
  <2> QED
    BY <1>9, <1>12, <2>1, <2>2, Zenon
<1>13. ASSUME NEW c \in op.issue \ {a} PROVE Authorised(c)'
  <2>1. Authorised(c) /\ c.key # a.key
    BY Zenon DEF ProcessInv
  <2>2. \A i \in AttemptIds : Unfinished(i)' => attempts'[i].key # c.key
    BY <1>9, <2>1, Zenon DEF Authorised
  <2> QED
    BY <1>8, <2>1, <2>2, AuthorisedStable, ZenonT(60)
<1> QED
  BY <1>2, <1>5, <1>7, <1>11, <1>12, <1>13, ZenonT(60) DEF ProcessInv

-----------------------------------------------------------------------------
(* The invariants. *)

LEMMA IInvInit == Init => IInv
<1> SUFFICES ASSUME Init PROVE IInv
  OBVIOUS
<1>1. \A i \in AttemptIds : attempts[i] = None
  BY SMTT(60) DEF Init
<1>2. DOMAIN outcomes = {}
  BY DEF Init
<1>3. TablesInv
  BY <1>1, <1>2, Zenon
     DEF TablesInv, OutcomesAreFacts, OneUnfinishedAttemptPerKey,
                    Unfinished
<1>4. ProcessInv
  BY <1>1, Zenon DEF Init, ProcessInv, RestartRevokesInFlight, Idle
<1> QED
  BY SMTT(60), <1>3, <1>4, TypeInvInit DEF IInv

LEMMA IInvStep == IInv /\ [Next]_vars => IInv'
<1> SUFFICES ASSUME IInv, [Next]_vars PROVE IInv'
  OBVIOUS
<1>1. TypeInv /\ TablesInv /\ ProcessInv /\ TypeInv'
  BY TypeInvStep DEF IInv
<1>2. CASE UNCHANGED vars
  <2>1. UNCHANGED <<tables, wedged, limbo, phase, op, plans>>
    BY <1>2 DEF vars
  <2>2. TablesInv' /\ (limbo' # None => wedged' /\ Sound(limbo)')
    BY <1>1, <2>1, TablesStable, LimboStable
  <2>3. \A a \in op'.issue : Authorised(a)'
    BY <1>1, <2>1, AuthorisedStable, Zenon DEF ProcessInv, tables
  <2>4. /\ op'.outcome # None =>
             Agrees(op.outcome)' /\ NoOutcomeFor(op.outcome.attempt)'
        /\ RestartRevokesInFlight'
        /\ phase' = "fencing" =>
             \A i \in AttemptIds : Unfinished(i)' => i \in op'.sweep
        /\ phase' = "up" /\ ~wedged' =>
             \A i \in AttemptIds :
                Unfinished(i)' /\ Covered(i)' => i \in op'.sweep
    BY <1>1, <2>1, Zenon DEF ProcessInv, Agrees, NoOutcomeFor, tables,
       RestartRevokesInFlight, live_epoch, Covered, FenceHoldsFor, Unfinished
  <2>5. ProcessInv'
    BY <1>1, <2>1, <2>2, <2>3, <2>4, ZenonT(60) DEF ProcessInv
  <2> QED
    BY SMTT(60), <1>1, <2>2, <2>5 DEF IInv
<1>3. CASE Boot \/ Crash
  BY SMTT(60), <1>1, <1>3, KeptByOpenAndCrash, KeptByBoot DEF Boot, IInv
<1>4. CASE Continue
  BY SMTT(60), <1>1, <1>4, KeptBySweep, KeptByCommitOutcome, KeptByIssue
     DEF Continue, IInv
<1>5. CASE Evidence \/ Actions
  BY SMTT(60), <1>1, <1>5, KeptByEvidence, KeptByActions DEF IInv
<1>6. CASE Fencing
  BY SMTT(60), <1>1, <1>6, KeptByEvidence, KeptByPutFence DEF Fencing, IInv
<1> QED
  BY SMTT(60), <1>2, <1>3, <1>4, <1>5, <1>6 DEF Next

\* The inductive invariant holds in every execution: the tables agree with
\* each other, the record of a failed append can be replayed safely, and the
\* handler in progress is authorised (AppendAndApply, Dispatch, PutFence).
THEOREM Invariance == Spec => []IInv
BY IInvInit, IInvStep, PTL DEF Spec

\* A restart never restores in-flight authority: whatever crashed, failed or
\* was replayed before, an engine that is up holds only unfinished attempts of
\* its own epoch (Boot, CommitRestartFencing).
THEOREM RestartRevokes == Spec => []RestartRevokesInFlight
<1>1. IInv => RestartRevokesInFlight
  BY DEF IInv, ProcessInv
<1> QED
  BY <1>1, Invariance, PTL

\* Dispatch is idempotent: an action never has two unfinished attempts.
THEOREM DispatchIsIdempotent == Spec => []OneUnfinishedAttemptPerKey
<1>1. IInv => OneUnfinishedAttemptPerKey
  BY DEF IInv, TablesInv
<1> QED
  BY <1>1, Invariance, PTL

\* A committed outcome is a fact: an attempt has at most one, and it names the
\* state the attempt stays in (CommitOutcome).
THEOREM OutcomesStayFacts == Spec => []OutcomesAreFacts
<1>1. IInv => OutcomesAreFacts
  BY DEF IInv, TablesInv
<1> QED
  BY <1>1, Invariance, PTL

-----------------------------------------------------------------------------
(* The action properties. *)

\* A record that a step applies: sound and, when an engine that is up issues an
\* attempt by it, authorised.
Applied(r) ==
    /\ r \in Record
    /\ Sound(r)
    /\ ApplyPayload(r)
    /\ phase = "up" /\ r.type = "AttemptPut" /\ attempts[r.id] = None =>
          Authorised(r.attempt)

\* A transition is applied only if it is sound: a poisoned journal refuses it.
LEMMA TransitionApplied ==
    ASSUME IInv, NEW i \in AttemptIds, Unfinished(i), NEW to \in AttemptState,
           \/ Serving
           \/ to \notin {"Acknowledged", "Applied", "Verified"},
           NEW ph, NEW owed, AppendAndApply(Transitioned(i, to), ph, owed)
    PROVE  UNCHANGED tables \/ \E r : Applied(r)
<1> DEFINE r == Transitioned(i, to)
<1>1. SUFFICES ASSUME ~wedged, ApplyPayload(r)
               PROVE  \E x : Applied(x)
  BY DEF AppendAndApply
<1>2. Serving => ~Covered(i)
  <2>1. Serving => phase = "up" /\ op.sweep = {}
    <3>1. Idle.sweep = {}
      BY DEF Idle
    <3> QED
      BY <3>1, Zenon DEF Serving
  <2> QED
    BY <1>1, <2>1, Zenon DEF IInv, ProcessInv
<1>3. r \in Record /\ Sound(r)
  BY <1>2, TransitionSound DEF IInv, TypeInv
<1>4. r.id = i /\ attempts[i] # None
  BY DEF Transitioned, Unfinished
<1> HIDE DEF r
<1> QED
  BY <1>1, <1>3, <1>4, ZenonT(60) DEF Applied

\* So is any other record.
LEMMA OtherApplied ==
    ASSUME NEW r \in Record, r.type # "AttemptPut", Sound(r),
           NEW ph, NEW owed, AppendAndApply(r, ph, owed)
    PROVE  UNCHANGED tables \/ \E x : Applied(x)
BY Zenon DEF AppendAndApply, Applied

LEMMA ProcessApplies ==
    ASSUME IInv, Boot \/ Crash \/ Continue
    PROVE  UNCHANGED tables \/ \E r : Applied(r)
<1>1. CASE Open \/ OpenReadOnly
  <2>1. CASE limbo = None
    BY <1>1, <2>1 DEF Open, OpenReadOnly, Replay
  <2>2. CASE limbo # None
    <3>1. limbo \in Record /\ Sound(limbo) /\ ApplyPayload(limbo)
          /\ phase = "down"
      BY <1>1, <2>2, ZenonT(60)
         DEF Open, OpenReadOnly, Replay, IInv, ProcessInv, TypeInv,
                        TypeOK
    <3> QED
      BY <3>1, Zenon DEF Applied
  <2> QED
    BY SMTT(60), <2>1, <2>2
<1>2. CASE Crash
  BY <1>2 DEF Crash
<1>3. CASE InstallInitialPolicy
  <2> DEFINE r == [type |-> "PolicyPut", policy |-> InitialPolicy]
  <2>1. r \in Record /\ r.type = "PolicyPut" /\ Sound(r)
    BY OtherSound, ConstantsAssumption, ZenonT(60) DEF Record
  <2>2. AppendAndApply(r, "opening", Idle)
    BY <1>3 DEF InstallInitialPolicy
  <2> HIDE DEF r
  <2> QED
    BY <2>1, <2>2, OtherApplied
<1>4. CASE AdvanceEpoch
  <2> DEFINE r == [type |-> "EpochAdvance", epoch |-> last_epoch + 1]
  <2>1. r \in Record /\ r.type = "EpochAdvance" /\ Sound(r)
    BY <1>4, OtherSound DEF Record, AdvanceEpoch
  <2>2. \E ph, owed : AppendAndApply(r, ph, owed)
    BY <1>4 DEF AdvanceEpoch
  <2> HIDE DEF r
  <2> QED
    BY <2>1, <2>2, OtherApplied
<1>5. CASE SweepNext
  <2>1. PICK i \in op.sweep : \E owed :
           AppendAndApply(Transitioned(i, SweepTarget(i)), phase, owed)
    BY SMTT(60), <1>5 DEF SweepNext
  <2>2. i \in AttemptIds /\ Unfinished(i)
    BY DEF IInv, TypeInv, TypeOK, Owed, HandlerOK
  <2>3. SweepTarget(i) \in AttemptState
        /\ SweepTarget(i) \notin {"Acknowledged", "Applied", "Verified"}
    BY SMTT(60) DEF SweepTarget, AttemptState
  <2> QED
    BY <2>1, <2>2, <2>3, TransitionApplied, Zenon
<1>6. CASE CommitOutcome
  <2> DEFINE r == [type |-> "OutcomeCommit", outcome |-> op.outcome]
  <2>1. op.outcome \in Outcome
    BY SMTT(60), <1>6 DEF CommitOutcome, IInv, TypeInv, TypeOK, Owed
  <2>2. r \in Record /\ r.type = "OutcomeCommit" /\ r.outcome = op.outcome
    BY <2>1 DEF Record
  <2>3. \E ph, owed : AppendAndApply(r, ph, owed)
    BY SMTT(60), <1>6 DEF CommitOutcome
  <2> HIDE DEF r
  <2>4. Sound(r)
    BY SMTT(60), <1>6, <2>2 DEF Sound, IInv, ProcessInv, CommitOutcome
  <2> QED
    BY SMTT(60), <2>2, <2>3, <2>4, OtherApplied
<1>7. CASE IssueNext
  <2>1. PICK a \in op.issue : \E owed :
           AppendAndApply([type |-> "AttemptPut", id |-> next_attempt,
                           attempt |-> a], phase, owed)
    BY <1>7, Zenon DEF IssueNext
  <2> DEFINE r == [type |-> "AttemptPut", id |-> next_attempt, attempt |-> a]
  <2>2. a \in Attempt /\ Authorised(a) /\ next_attempt \in AttemptIds
    BY <1>7 DEF IssueNext, IInv, TypeInv, TypeOK, Owed, ProcessInv
  <2>3. r \in Record /\ Sound(r) /\ r.attempt = a
    BY <2>2, IssueSound, Zenon DEF IInv, TypeInv
  <2>4. UNCHANGED tables \/ ApplyPayload(r)
    BY <2>1, Zenon DEF AppendAndApply
  <2> HIDE DEF r
  <2> QED
    BY <2>2, <2>3, <2>4 DEF Applied
<1> QED
  BY SMTT(60), <1>1, <1>2, <1>3, <1>4, <1>5, <1>6, <1>7 DEF Boot, Continue

LEMMA RequestApplies ==
    ASSUME IInv, Evidence \/ Actions \/ Fencing
    PROVE  UNCHANGED tables \/ \E r : Applied(r)
<1>1. ASSUME NEW p \in Policies, PutPolicy(p)
      PROVE  UNCHANGED tables \/ \E r : Applied(r)
  <2> DEFINE r == [type |-> "PolicyPut", policy |-> p]
  <2>1. r \in Record /\ r.type = "PolicyPut" /\ Sound(r)
    BY OtherSound, Zenon DEF Record
  <2>2. AppendAndApply(r, phase, Idle)
    BY <1>1 DEF PutPolicy
  <2> HIDE DEF r
  <2> QED
    BY <2>1, <2>2, OtherApplied
<1>2. ASSUME NEW sc \in Scopes, NEW doc \in Intent, CommitIntent(sc, doc)
      PROVE  UNCHANGED tables \/ \E r : Applied(r)
  <2> DEFINE r == [type |-> "IntentCommit", scope |-> sc, intent |-> doc]
  <2>1. r \in Record /\ r.type = "IntentCommit" /\ Sound(r)
    BY OtherSound, Zenon DEF Record
  <2>2. AppendAndApply(r, phase, Idle)
    BY <1>2, Zenon DEF CommitIntent
  <2> HIDE DEF r
  <2> QED
    BY <2>1, <2>2, OtherApplied
<1>3. ASSUME NEW sc \in Scopes, NEW id \in ObservationIds, NEW re \in Reporters,
             NEW g \in Generations, NEW b \in Bodies, NEW t \in Times,
             RecordObservation(sc, id, re, g, b, t)
      PROVE  UNCHANGED tables \/ \E r : Applied(r)
  <2> DEFINE o == [id |-> id, reporter |-> re, generation |-> g, body |-> b,
                   received_epoch |-> live_epoch, received_unix_ms |-> t]
             r == [type |-> "ObservationCommit", scope |-> sc,
                   observation |-> o]
  <2>1. AppendAndApply(r, phase, Idle) /\ live_epoch \in Epochs
    BY <1>3, Zenon
       DEF RecordObservation, Serving, IInv, TypeInv, HandlerOK, live_epoch
  <2>2. o \in Observation
    BY <2>1, Zenon DEF Observation
  <2>3. r \in Record /\ r.type = "ObservationCommit" /\ Sound(r)
    BY <2>2, OtherSound, Zenon DEF Record
  <2> HIDE DEF r
  <2> QED
    BY <2>1, <2>3, OtherApplied
<1>4. ASSUME NEW sc \in Scopes, NEW p \in Policies, NEW now \in Times,
             Plan(sc, p, now)
      PROVE  UNCHANGED tables
  BY <1>4, Zenon DEF Plan
<1>5. ASSUME NEW p \in plans, Dispatch(p) PROVE UNCHANGED tables
  BY <1>5 DEF Dispatch
<1>6. ASSUME NEW i \in AttemptIds, NEW e \in Epochs,
             NEW target \in AttemptState, Complete(i, e, target)
      PROVE  UNCHANGED tables \/ \E r : Applied(r)
  <2>1. /\ Serving /\ Unfinished(i)
        /\ \E owed : AppendAndApply(Transitioned(i, target), phase, owed)
    BY SMTT(60), <1>6 DEF Complete, Unfinished
  <2> QED
    BY <2>1, TransitionApplied
<1>7. ASSUME NEW i \in Held(attempts), NEW applier \in Reporters,
             NEW now \in Times, NEW confirms \in BOOLEAN,
             NEW x \in Retained(attempts[i].key.scope),
             Verify(i, x, applier, now, confirms)
      PROVE  UNCHANGED tables \/ \E r : Applied(r)
  <2> DEFINE target == IF confirms THEN "Verified" ELSE "Failed"
  <2>1. Serving /\ i \in AttemptIds /\ Unfinished(i) /\ target \in AttemptState
    BY <1>7 DEF Verify, Unfinished, Held, IsTerminal, AttemptState
  <2>2. \E owed : AppendAndApply(Transitioned(i, target), phase, owed)
    BY <1>7 DEF Verify
  <2> HIDE DEF target
  <2> QED
    BY <2>1, <2>2, TransitionApplied
<1>8. ASSUME NEW id \in FenceIds, NEW f \in Fence, PutFence(id, f)
      PROVE  UNCHANGED tables \/ \E r : Applied(r)
  <2> DEFINE r == [type |-> "FencePut", id |-> id, fence |-> f]
  <2>1. r \in Record /\ r.type = "FencePut" /\ Sound(r)
    BY OtherSound, Zenon DEF Record
  <2>2. \E owed : AppendAndApply(r, phase, owed)
    BY <1>8 DEF PutFence
  <2> HIDE DEF r
  <2> QED
    BY <2>1, <2>2, OtherApplied
<1>9. ASSUME NEW id \in FenceIds, ClearFence(id)
      PROVE  UNCHANGED tables \/ \E r : Applied(r)
  <2> DEFINE r == [type |-> "FenceClear", id |-> id]
  <2>1. r \in Record /\ r.type = "FenceClear" /\ Sound(r)
    BY OtherSound, Zenon DEF Record
  <2>2. AppendAndApply(r, phase, Idle)
    BY SMTT(60), <1>9 DEF ClearFence
  <2> HIDE DEF r
  <2> QED
    BY <2>1, <2>2, OtherApplied
<1> QED
  BY <1>1, <1>2, <1>3, <1>4, <1>5, <1>6, <1>7, <1>8, <1>9, ZenonT(60)
     DEF Evidence, Actions, Fencing

\* Every step leaves the tables alone or applies one record that is sound.
LEMMA StepApplies ==
    ASSUME IInv, [Next]_vars
    PROVE  UNCHANGED tables \/ \E r : Applied(r)
BY ProcessApplies, RequestApplies DEF Next, vars

\* What a step can do to one attempt.
LEMMA AttemptStep ==
    ASSUME IInv, NEW r, Applied(r), NEW i \in AttemptIds,
           attempts'[i] # None, attempts'[i] # attempts[i]
    PROVE  r.type = "AttemptPut" /\ r.id = i /\ attempts'[i] = r.attempt
<1>1. r \in Record /\ ApplyPayload(r) /\ TypeOK
  BY DEF Applied, IInv, TypeInv
<1> QED
  BY <1>1, PutEffect, OtherEffect, ZenonT(60)

\* A fence revokes: in no execution does an attempt that a stored fence covers
\* move on to Acknowledged, Applied or Verified, not even by the replay of a
\* failed append (PutFence, Complete, Verify).
THEOREM FencesRevoke == Spec => FencedNeverAdvances
<1> DEFINE A == \A i \in AttemptIds :
         /\ attempts[i] # None
         /\ attempts'[i] # None
         /\ attempts'[i].state # attempts[i].state
         /\ attempts'[i].state \in {"Acknowledged", "Applied", "Verified"}
         => ~FenceHoldsFor(attempts[i].key.scope, attempts[i].key.subject,
                           attempts[i].epoch)
<1>1. IInv /\ [Next]_vars => [A]_vars
  <2> SUFFICES ASSUME IInv, [Next]_vars, NEW i \in AttemptIds,
                      attempts[i] # None, attempts'[i] # None,
                      attempts'[i].state # attempts[i].state,
                      attempts'[i].state \in
                         {"Acknowledged", "Applied", "Verified"}
               PROVE  ~FenceHoldsFor(attempts[i].key.scope,
                                     attempts[i].key.subject,
                                     attempts[i].epoch)
    BY Zenon
  <2>1. attempts' # attempts /\ attempts'[i] # attempts[i]
    BY Zenon
  <2>2. PICK r : Applied(r)
    BY <2>1, StepApplies, Zenon DEF tables
  <2>3. r.type = "AttemptPut" /\ r.id = i /\ attempts'[i] = r.attempt
    BY <2>1, <2>2, AttemptStep, ZenonT(60)
  <2>4. Sound(r)
    BY <2>2 DEF Applied
  <2> QED
    BY <2>3, <2>4, Zenon DEF Sound
<1> QED
  BY <1>1, Invariance, PTL DEF Spec, FencedNeverAdvances

\* An attempt identity never names another action (ApplyPayload, TrimAttempts).
THEOREM LineageIsAppendOnly == Spec => IdentitiesAreNeverReused
<1> DEFINE A == \A i \in AttemptIds :
         /\ attempts[i] # None /\ attempts'[i] # None =>
              /\ attempts'[i].key = attempts[i].key
              /\ attempts'[i].epoch = attempts[i].epoch
         /\ attempts[i] = None /\ attempts'[i] # None =>
              \A m \in DOMAIN outcomes : outcomes[m].attempt # i
<1>1. IInv /\ [Next]_vars => [A]_vars
  <2> SUFFICES ASSUME IInv, [Next]_vars, NEW i \in AttemptIds,
                      attempts'[i] # None
               PROVE  /\ attempts[i] # None =>
                           /\ attempts'[i].key = attempts[i].key
                           /\ attempts'[i].epoch = attempts[i].epoch
                      /\ attempts[i] = None =>
                           \A m \in DOMAIN outcomes : outcomes[m].attempt # i
    BY Zenon
  <2>1. CASE attempts'[i] = attempts[i]
    BY <2>1, Zenon
  <2>2. CASE attempts'[i] # attempts[i]
    <3>1. PICK r : Applied(r)
      BY SMTT(60), <2>2, StepApplies DEF tables
    <3>2. r.type = "AttemptPut" /\ r.id = i /\ attempts'[i] = r.attempt
      BY <2>2, <3>1, AttemptStep
    <3>3. Sound(r)
      BY <3>1, Zenon DEF Applied
    <3> QED
      BY <3>2, <3>3, ZenonT(60) DEF Sound, NoOutcomeFor
  <2> QED
    BY <2>1, <2>2, Zenon
<1> QED
  BY <1>1, Invariance, PTL DEF Spec, IdentitiesAreNeverReused

\* No action without proven authority: an engine issues an attempt only under
\* the policy, intent and evidence of that moment (Dispatch).
THEOREM AuthorityIsLive == Spec => IssuedUnderLiveAuthority
<1> DEFINE A == \A i \in AttemptIds :
         phase = "up" /\ attempts[i] = None /\ attempts'[i] # None =>
           LET a == attempts'[i]
           IN  /\ a.policy = policy
               /\ a.epoch = live_epoch
               /\ a.key.intent = intents[a.key.scope]
               /\ a.key.observation = Current(a.key.scope)
               /\ a.key.observation.received_epoch = live_epoch
               /\ ~FenceHoldsFor(a.key.scope, a.key.subject, live_epoch)
<1>1. IInv /\ [Next]_vars => [A]_vars
  <2> SUFFICES ASSUME IInv, [Next]_vars, NEW i \in AttemptIds,
                      phase = "up", attempts[i] = None, attempts'[i] # None
               PROVE  Authorised(attempts'[i])
    BY Zenon DEF Authorised
  <2>1. PICK r : Applied(r)
    BY StepApplies DEF tables
  <2>2. r.type = "AttemptPut" /\ r.id = i /\ attempts'[i] = r.attempt
    BY <2>1, AttemptStep, Zenon
  <2> QED
    BY <2>1, <2>2 DEF Applied
<1> QED
  BY <1>1, Invariance, PTL DEF Spec, IssuedUnderLiveAuthority

-----------------------------------------------------------------------------
(* The engine on its store. *)

LEMMA TablesFields ==
    /\ Tables.policy = policy /\ Tables.last_epoch = last_epoch
    /\ Tables.intents = intents /\ Tables.observations = observations
    /\ Tables.attempts = attempts /\ Tables.next_attempt = next_attempt
    /\ Tables.outcomes = outcomes /\ Tables.fences = fences
BY Zenon DEF Tables

LEMMA TablesAreStates ==
    ASSUME TypeOK PROVE Tables \in States /\ Tables # None
<1>1. Tables \in States
  BY Zenon DEF TypeOK, Tables, States
<1> QED
  BY <1>1, StatesAssumption, Zenon

\* The function After does to the tables what ApplyPayload does.
LEMMA ApplyIsAfter ==
    ASSUME NEW r \in Record, ApplyPayload(r) PROVE Tables' = After(Tables, r)
<1>1. CASE r.type = "PolicyPut"
  <2>1. After(Tables, r) = [Tables EXCEPT !.policy = r.policy]
    BY <1>1, Zenon DEF After
  <2>2. UNCHANGED <<last_epoch, intents, observations, attempts,
                    next_attempt, outcomes, fences>> /\ policy' = r.policy
    BY <1>1, Zenon DEF ApplyPayload
  <2> QED
    BY <2>1, <2>2, Zenon DEF Tables
<1>2. CASE r.type = "EpochAdvance"
  <2>1. After(Tables, r) =
          [Tables EXCEPT !.last_epoch =
              IF r.epoch > last_epoch THEN r.epoch ELSE last_epoch]
    BY <1>2, TablesFields, Zenon DEF After
  <2>2. UNCHANGED <<policy, intents, observations, attempts,
                    next_attempt, outcomes, fences>>
        /\ last_epoch' = IF r.epoch > last_epoch THEN r.epoch ELSE last_epoch
    BY <1>2, Zenon DEF ApplyPayload
  <2> QED
    BY <2>1, <2>2, Zenon DEF Tables
<1>3. CASE r.type = "IntentCommit"
  <2> DEFINE new == [intents EXCEPT ![r.scope] = r.intent]
  <2>1. After(Tables, r) = [Tables EXCEPT !.intents = new]
    BY <1>3, TablesFields, Zenon DEF After
  <2>2. /\ UNCHANGED <<policy, last_epoch, observations,
                       attempts, next_attempt, outcomes, fences>>
        /\ intents' = new
    BY <1>3, Zenon DEF ApplyPayload
  <2> HIDE DEF new
  <2> QED
    BY <2>1, <2>2, Zenon DEF Tables
<1>4. CASE r.type = "ObservationCommit"
  <2> DEFINE new ==
               [observations EXCEPT ![r.scope] =
                  Trimmed(Append(@, r.observation), MaxRetainedObservations)]
  <2>1. After(Tables, r) = [Tables EXCEPT !.observations = new]
    BY <1>4, TablesFields, Zenon DEF After
  <2>2. /\ UNCHANGED <<policy, last_epoch, intents,
                       attempts, next_attempt, outcomes, fences>>
        /\ observations' = new
    BY <1>4, Zenon DEF ApplyPayload
  <2> HIDE DEF new
  <2> QED
    BY <2>1, <2>2, Zenon DEF Tables
<1>5. CASE r.type = "AttemptPut"
  <2> DEFINE new == TrimAttempts([attempts EXCEPT ![r.id] = r.attempt])
             next == IF r.id >= next_attempt THEN r.id + 1 ELSE next_attempt
  <2>1. After(Tables, r) =
          [Tables EXCEPT !.attempts = new, !.next_attempt = next]
    BY <1>5, TablesFields, Zenon DEF After
  <2>2. /\ UNCHANGED <<policy, last_epoch, intents, observations,
                       outcomes, fences>>
        /\ attempts' = new /\ next_attempt' = next
    BY <1>5, Zenon DEF ApplyPayload
  <2> HIDE DEF new, next
  <2> QED
    BY <2>1, <2>2, Zenon DEF Tables
<1>6. CASE r.type = "OutcomeCommit"
  <2> DEFINE new ==
               Trimmed(Append(outcomes, r.outcome), MaxRetainedOutcomes)
  <2>1. After(Tables, r) = [Tables EXCEPT !.outcomes = new]
    BY <1>6, TablesFields, Zenon DEF After
  <2>2. /\ UNCHANGED <<policy, last_epoch, intents, observations,
                       attempts, next_attempt, fences>>
        /\ outcomes' = new
    BY <1>6, Zenon DEF ApplyPayload
  <2> HIDE DEF new
  <2> QED
    BY <2>1, <2>2, Zenon DEF Tables
<1>7. CASE r.type = "FencePut"
  <2> DEFINE new == [fences EXCEPT ![r.id] = r.fence]
  <2>1. After(Tables, r) = [Tables EXCEPT !.fences = new]
    BY <1>7, TablesFields, Zenon DEF After
  <2>2. /\ UNCHANGED <<policy, last_epoch, intents, observations,
                       attempts, next_attempt, outcomes>>
        /\ fences' = new
    BY <1>7, Zenon DEF ApplyPayload
  <2> HIDE DEF new
  <2> QED
    BY <2>1, <2>2, Zenon DEF Tables
<1>8. CASE r.type = "FenceClear"
  <2> DEFINE new == [fences EXCEPT ![r.id] = None]
  <2>1. After(Tables, r) = [Tables EXCEPT !.fences = new]
    BY <1>8, TablesFields, Zenon DEF After
  <2>2. /\ UNCHANGED <<policy, last_epoch, intents, observations,
                       attempts, next_attempt, outcomes>>
        /\ fences' = new
    BY <1>8, Zenon DEF ApplyPayload
  <2> HIDE DEF new
  <2> QED
    BY <2>1, <2>2, Zenon DEF Tables
<1>9. r.type \in {"PolicyPut", "EpochAdvance", "IntentCommit",
                  "ObservationCommit", "AttemptPut", "OutcomeCommit",
                  "FencePut", "FenceClear"}
  BY Zenon DEF Record
<1> QED
  BY <1>1, <1>2, <1>3, <1>4, <1>5, <1>6, <1>7, <1>8, <1>9, Zenon

\* A step that appends one record for an engine that is open.
Appends ==
    /\ phase # "down"
    /\ \E r \in Record, ph \in Phase \ {"down"} :
          \E owed : AppendAndApply(r, ph, owed)

\* A step that touches neither the tables nor the store they come from.
Elsewhere == UNCHANGED <<tables, phase, limbo>>

LEMMA AppendsIntro ==
    ASSUME phase # "down", NEW r \in Record, NEW ph \in Phase \ {"down"},
           \E owed : AppendAndApply(r, ph, owed)
    PROVE  Appends
BY Zenon DEF Appends

LEMMA ServingAppends ==
    ASSUME Serving, NEW r \in Record,
           \E owed : AppendAndApply(r, phase, owed)
    PROVE  Appends
<1>1. phase = "up"
  BY Zenon DEF Serving
<1>2. phase # "down" /\ phase \in Phase \ {"down"}
  BY <1>1, Zenon DEF Phase
<1> QED
  BY <1>2, AppendsIntro, Zenon

LEMMA IdleOwesNothing ==
    Idle.issue = {} /\ Idle.sweep = {} /\ Idle.outcome = None
BY Zenon DEF Idle

\* A handler in progress is that of an open engine.
LEMMA HandlerIsOpen ==
    ASSUME TypeInv, op # Idle PROVE phase # "down" /\ phase \in Phase \ {"down"}
BY Zenon DEF TypeInv, TypeOK, HandlerOK, Phase

LEMMA ProcessAppends ==
    ASSUME IInv, Boot \/ Continue
    PROVE  Appends \/ Open \/ OpenReadOnly
<1>1. CASE InstallInitialPolicy
  <2> DEFINE r == [type |-> "PolicyPut", policy |-> InitialPolicy]
  <2>1. r \in Record
    BY ConstantsAssumption, Zenon DEF Record
  <2>2. phase = "opening" /\ AppendAndApply(r, "opening", Idle)
    BY <1>1, Zenon DEF InstallInitialPolicy
  <2>3. phase # "down" /\ "opening" \in Phase \ {"down"}
    BY <2>2, Zenon DEF Phase
  <2> HIDE DEF r
  <2> QED
    BY <2>1, <2>2, <2>3, AppendsIntro, Zenon
<1>2. CASE AdvanceEpoch
  <2> DEFINE r == [type |-> "EpochAdvance", epoch |-> last_epoch + 1]
             ph == IF Candidates = {} THEN "up" ELSE "fencing"
  <2>1. r \in Record
    BY <1>2, Zenon DEF Record, AdvanceEpoch
  <2>2. phase = "opening" /\ \E owed : AppendAndApply(r, ph, owed)
    BY <1>2, Zenon DEF AdvanceEpoch
  <2>3. phase # "down" /\ ph \in Phase \ {"down"}
    BY <2>2, Zenon DEF Phase
  <2> HIDE DEF r, ph
  <2> QED
    BY <2>1, <2>2, <2>3, AppendsIntro, Zenon
<1>3. CASE SweepNext
  <2>1. PICK i \in op.sweep : \E owed :
           AppendAndApply(Transitioned(i, SweepTarget(i)), phase, owed)
    BY <1>3, Zenon DEF SweepNext
  <2>2. i \in AttemptIds /\ attempts[i] # None /\ TypeOK
    BY DEF IInv, TypeInv, TypeOK, Owed, HandlerOK, Unfinished
  <2>3. SweepTarget(i) \in AttemptState
    BY Zenon DEF SweepTarget, AttemptState
  <2>4. Transitioned(i, SweepTarget(i)) \in Record
    BY <2>2, <2>3, TransitionedType, Zenon
  <2>5. op # Idle
    BY <2>1, IdleOwesNothing, Zenon
  <2> QED
    BY <2>1, <2>4, <2>5, HandlerIsOpen, AppendsIntro, Zenon DEF IInv
<1>4. CASE CommitOutcome
  <2> DEFINE r == [type |-> "OutcomeCommit", outcome |-> op.outcome]
             ph == IF [op EXCEPT !.outcome = None] = Idle THEN "up" ELSE phase
  <2>1. op.outcome \in Outcome /\ op.outcome # None
    BY <1>4 DEF CommitOutcome, IInv, TypeInv, TypeOK, Owed
  <2>2. r \in Record
    BY <2>1, Zenon DEF Record
  <2>3. \E owed : AppendAndApply(r, ph, owed)
    BY <1>4, Zenon DEF CommitOutcome
  <2>4. op # Idle
    BY <2>1, IdleOwesNothing, Zenon
  <2>5. phase # "down" /\ ph \in Phase \ {"down"}
    BY <2>4, HandlerIsOpen, Zenon DEF IInv, Phase
  <2> HIDE DEF r, ph
  <2> QED
    BY <2>2, <2>3, <2>5, AppendsIntro, Zenon
<1>5. CASE IssueNext
  <2>1. PICK a \in op.issue : \E owed :
           AppendAndApply([type |-> "AttemptPut", id |-> next_attempt,
                           attempt |-> a], phase, owed)
    BY <1>5, Zenon DEF IssueNext
  <2> DEFINE r == [type |-> "AttemptPut", id |-> next_attempt, attempt |-> a]
  <2>2. a \in Attempt /\ next_attempt \in AttemptIds
    BY <1>5 DEF IssueNext, IInv, TypeInv, TypeOK, Owed
  <2>3. r \in Record
    BY <2>2, Zenon DEF Record
  <2>4. op # Idle
    BY <2>1, IdleOwesNothing, Zenon
  <2> HIDE DEF r
  <2> QED
    BY <2>1, <2>3, <2>4, HandlerIsOpen, AppendsIntro, Zenon DEF IInv, r
<1> QED
  BY <1>1, <1>2, <1>3, <1>4, <1>5, Zenon DEF Boot, Continue

LEMMA RequestAppends ==
    ASSUME IInv, Evidence \/ Actions \/ Fencing
    PROVE  Appends \/ Elsewhere
<1>1. ASSUME NEW p \in Policies, PutPolicy(p) PROVE Appends
  <2> DEFINE r == [type |-> "PolicyPut", policy |-> p]
  <2>1. r \in Record
    BY Zenon DEF Record
  <2>2. Serving /\ AppendAndApply(r, phase, Idle)
    BY <1>1, Zenon DEF PutPolicy
  <2> HIDE DEF r
  <2> QED
    BY <2>1, <2>2, ServingAppends, Zenon
<1>2. ASSUME NEW sc \in Scopes, NEW doc \in Intent, CommitIntent(sc, doc)
      PROVE  Appends
  <2> DEFINE r == [type |-> "IntentCommit", scope |-> sc, intent |-> doc]
  <2>1. r \in Record
    BY Zenon DEF Record
  <2>2. Serving /\ AppendAndApply(r, phase, Idle)
    BY <1>2, Zenon DEF CommitIntent
  <2> HIDE DEF r
  <2> QED
    BY <2>1, <2>2, ServingAppends, Zenon
<1>3. ASSUME NEW sc \in Scopes, NEW id \in ObservationIds, NEW re \in Reporters,
             NEW g \in Generations, NEW b \in Bodies, NEW t \in Times,
             RecordObservation(sc, id, re, g, b, t)
      PROVE  Appends
  <2> DEFINE o == [id |-> id, reporter |-> re, generation |-> g, body |-> b,
                   received_epoch |-> live_epoch, received_unix_ms |-> t]
             r == [type |-> "ObservationCommit", scope |-> sc,
                   observation |-> o]
  <2>1. /\ Serving /\ AppendAndApply(r, phase, Idle)
        /\ live_epoch \in Epochs
    BY <1>3, Zenon
       DEF RecordObservation, Serving, IInv, TypeInv, HandlerOK, live_epoch
  <2>2. o \in Observation
    BY <2>1, Zenon DEF Observation
  <2>3. r \in Record
    BY <2>2, Zenon DEF Record
  <2> HIDE DEF r
  <2> QED
    BY <2>1, <2>3, ServingAppends, Zenon
<1>4. ASSUME NEW sc \in Scopes, NEW p \in Policies, NEW now \in Times,
             Plan(sc, p, now)
      PROVE  Elsewhere
  BY <1>4, Zenon DEF Plan, Elsewhere
<1>5. ASSUME NEW p \in plans, Dispatch(p) PROVE Elsewhere
  BY <1>5, Zenon DEF Dispatch, Elsewhere
<1>6. ASSUME NEW i \in AttemptIds, NEW e \in Epochs,
             NEW target \in AttemptState, Complete(i, e, target)
      PROVE  Appends
  <2>1. /\ Serving /\ attempts[i] # None
        /\ \E owed : AppendAndApply(Transitioned(i, target), phase, owed)
    BY <1>6, Zenon DEF Complete
  <2>2. Transitioned(i, target) \in Record
    BY <2>1, TransitionedType, Zenon DEF IInv, TypeInv
  <2> QED
    BY <2>1, <2>2, ServingAppends, Zenon
<1>7. ASSUME NEW i \in Held(attempts), NEW applier \in Reporters,
             NEW now \in Times, NEW confirms \in BOOLEAN,
             NEW x \in Retained(attempts[i].key.scope),
             Verify(i, x, applier, now, confirms)
      PROVE  Appends
  <2> DEFINE target == IF confirms THEN "Verified" ELSE "Failed"
  <2>1. i \in AttemptIds /\ attempts[i] # None
    BY Zenon DEF Held
  <2>2. target \in AttemptState
    BY Zenon DEF AttemptState
  <2>3. Serving /\ \E owed : AppendAndApply(Transitioned(i, target), phase, owed)
    BY <1>7, Zenon DEF Verify
  <2> HIDE DEF target
  <2>4. Transitioned(i, target) \in Record
    BY <2>1, <2>2, TransitionedType, Zenon DEF IInv, TypeInv
  <2> QED
    BY <2>3, <2>4, ServingAppends, Zenon
<1>8. ASSUME NEW id \in FenceIds, NEW f \in Fence, PutFence(id, f)
      PROVE  Appends
  <2> DEFINE r == [type |-> "FencePut", id |-> id, fence |-> f]
  <2>1. r \in Record
    BY Zenon DEF Record
  <2>2. Serving /\ \E owed : AppendAndApply(r, phase, owed)
    BY <1>8, Zenon DEF PutFence
  <2> HIDE DEF r
  <2> QED
    BY <2>1, <2>2, ServingAppends, Zenon
<1>9. ASSUME NEW id \in FenceIds, ClearFence(id) PROVE Appends
  <2> DEFINE r == [type |-> "FenceClear", id |-> id]
  <2>1. r \in Record
    BY Zenon DEF Record
  <2>2. Serving /\ AppendAndApply(r, phase, Idle)
    BY <1>9, Zenon DEF ClearFence
  <2> HIDE DEF r
  <2> QED
    BY <2>1, <2>2, ServingAppends, Zenon
<1> QED
  BY <1>1, <1>2, <1>3, <1>4, <1>5, <1>6, <1>7, <1>8, <1>9, ZenonT(60)
     DEF Evidence, Actions, Fencing

\* Every step appends one record, opens the store, ends the process, or stays
\* away from the tables.
LEMMA StepAppends ==
    ASSUME IInv, [Next]_vars
    PROVE  Appends \/ Open \/ OpenReadOnly \/ Crash \/ Elsewhere
<1>1. CASE Boot \/ Continue
  BY <1>1, ProcessAppends, Zenon
<1>2. CASE Evidence \/ Actions \/ Fencing
  BY <1>2, RequestAppends, Zenon
<1>3. CASE UNCHANGED vars
  BY <1>3, Zenon DEF vars, Elsewhere
<1> QED
  BY <1>1, <1>2, <1>3, Zenon DEF Next

\* An append that succeeds commits its record; one that fails leaves the
\* record in doubt or nowhere, and a Boot it fails gives the store up.
LEMMA AppendOnStore ==
    ASSUME IInv, Appends PROVE [Store!Next]_(Store!vars)
<1>1. PICK r \in Record, ph \in Phase \ {"down"} :
         \E owed : AppendAndApply(r, ph, owed)
  BY Zenon DEF Appends
<1>2. Tables # None /\ phase # "down" /\ (limbo # None => wedged)
  BY TablesAreStates, Zenon DEF Appends, IInv, TypeInv, ProcessInv
<1>3. CASE ~wedged /\ ApplyPayload(r) /\ phase' = ph /\ UNCHANGED limbo
  <2>1. Tables' = After(Tables, r) /\ phase' # "down" /\ limbo = None
    BY <1>2, <1>3, ApplyIsAfter, Zenon
  <2>2. Store!Commit(r)
    BY <1>2, <1>3, <2>1, Zenon DEF Store!Commit
  <2> QED
    BY <2>2, Zenon DEF Store!Next
<1>4. CASE /\ limbo' \in IF wedged THEN {limbo} ELSE {limbo, r}
           /\ phase' = IF phase = "up" THEN "up" ELSE "down"
           /\ UNCHANGED tables
  <2>1. Tables' = Tables
    BY <1>4, Zenon DEF Tables, tables
  <2>2. phase' = phase \/ phase' = "down"
    BY <1>4, Zenon
  <2>3. CASE limbo' = limbo /\ phase' = phase
    BY <2>1, <2>3, Zenon DEF Store!vars
  <2>4. CASE limbo' = limbo /\ phase' = "down"
    <3>1. Store!Stop
      BY <1>2, <2>1, <2>4, Zenon DEF Store!Stop
    <3> QED
      BY <3>1, Zenon DEF Store!Next
  <2>5. CASE limbo' # limbo
    <3>1. limbo = None /\ limbo' = r
      BY <1>2, <1>4, <2>5, Zenon
    <3>2. Store!Fail(r)
      BY <1>2, <2>1, <2>2, <3>1, Zenon DEF Store!Fail
    <3> QED
      BY <3>2, Zenon DEF Store!Next
  <2> QED
    BY <2>2, <2>3, <2>4, <2>5, Zenon
<1> QED
  BY <1>1, <1>3, <1>4, Zenon DEF AppendAndApply

\* Opening recovers the store: a record in limbo is applied, and was in doubt.
LEMMA OpenOnStore ==
    ASSUME IInv, Open \/ OpenReadOnly PROVE Store!Recover
<1>1. /\ phase = "down" /\ Replay /\ limbo' = None
      /\ phase' = "opening" \/ phase' = "reading"
  BY Zenon DEF Open, OpenReadOnly
<1>2. phase' # "down"
  BY <1>1, Zenon
<1>3. CASE limbo = None
  <2>1. Tables' = Tables
    BY <1>1, <1>3, Zenon DEF Replay, Tables, tables
  <2> QED
    BY <1>1, <1>2, <2>1, Zenon DEF Store!Recover
<1>4. CASE limbo # None
  <2>1. limbo \in Record /\ ApplyPayload(limbo)
    BY <1>1, <1>4, Zenon DEF Replay, IInv, TypeInv, TypeOK
  <2>2. Tables' = After(Tables, limbo)
    BY <2>1, ApplyIsAfter, Zenon
  <2> QED
    BY <1>1, <1>2, <1>4, <2>2, Zenon DEF Store!Recover, Store!Settled
<1> QED
  BY <1>3, <1>4

LEMMA CrashOnStore ==
    ASSUME IInv, Crash PROVE Store!Stop
<1>1. Tables # None
  BY TablesAreStates, Zenon DEF IInv, TypeInv
<1>2. Tables' = Tables
  BY Zenon DEF Crash, Tables, tables
<1> QED
  BY <1>1, <1>2, Zenon DEF Crash, Store!Stop

LEMMA ElsewhereOnStore ==
    ASSUME Elsewhere PROVE UNCHANGED Store!vars
<1>1. Tables' = Tables /\ phase' = phase /\ limbo' = limbo
  BY Zenon DEF Elsewhere, Tables, tables
<1> QED
  BY <1>1, Zenon DEF Store!vars

\* The engine implements the atomic store that DurableStore implements
\* (AppendAndApply, Open, Boot): its tables are those of a store that loses no
\* acknowledged record, settles a failed append when it is opened next, and
\* changes in no other way.
THEOREM EngineKeepsStore == Spec => OnAtomicStore
<1>1. Init => Store!Init
  <2> SUFFICES ASSUME Init PROVE Store!Init
    OBVIOUS
  <2>1. Tables = Empty
    BY Zenon DEF Init, Tables, Empty
  <2> QED
    BY <2>1, Zenon DEF Init, Store!Init
<1>2. IInv /\ [Next]_vars => [Store!Next]_(Store!vars)
  <2> SUFFICES ASSUME IInv, [Next]_vars PROVE [Store!Next]_(Store!vars)
    OBVIOUS
  <2>1. CASE Appends
    BY <2>1, AppendOnStore, Zenon
  <2>2. CASE Open \/ OpenReadOnly
    BY <2>2, OpenOnStore, Zenon DEF Store!Next
  <2>3. CASE Crash
    BY <2>3, CrashOnStore, Zenon DEF Store!Next
  <2>4. CASE Elsewhere
    BY <2>4, ElsewhereOnStore, Zenon
  <2> QED
    BY <2>1, <2>2, <2>3, <2>4, StepAppends, Zenon
<1> QED
  BY <1>1, <1>2, Invariance, PTL DEF Spec, OnAtomicStore, Store!Spec

=============================================================================

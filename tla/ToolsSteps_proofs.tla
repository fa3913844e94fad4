------------------------- MODULE ToolsSteps_proofs -------------------------
(***************************************************************************)
(* Lemmas about single steps of Tools, for all values of its constants:    *)
(* the inductive invariant, the records that are appended, the documents   *)
(* in force, the order of a program's calls, that every step of a process  *)
(* is a step of the engine, and how a call moves the process on.           *)
(***************************************************************************)
EXTENDS Tools, Engine_proofs

-----------------------------------------------------------------------------
(* The inductive invariant. *)

\* What is left of a program after its first n calls.
Left(program, n) == SubSeq(program, n + 1, Len(program))

Coming(step) == tool.todo # <<>> /\ Head(tool.todo) = step

\* A process that holds the store is somewhere in its program, its plan is one
\* the engine made, and the attempt it is about to report on was issued or is
\* the first one its dispatch is still to issue.
RunningInv ==
    /\ tool \in Process
    /\ tool.plan \in plans \cup {None}
    /\ tool.mode = "opening" =>
         /\ tool.todo = <<>> /\ tool.docs = {} /\ tool.failed = FALSE
         /\ phase = "up" => op = Idle
    /\ tool.mode # "opening" =>
         \E n \in 0 .. Len(Program[tool.mode]) :
            tool.todo = Left(Program[tool.mode], n)
    /\ phase \in {"opening", "fencing"} => tool.mode = "opening"
    /\ phase = "reading" => tool.mode = "library"
    /\ Coming("apply") =>
         \/ tool.issued \in AttemptIds
         \/ op.issue # {} /\ tool.issued = next_attempt

ProgramInv == IF phase = "down" THEN tool = None ELSE RunningInv

\* A record that comes after the tables it is applied to: its policy or intent
\* is newer, and its epoch is one that was opened.
Follows(r) ==
    /\ r.type = "PolicyPut" =>
         /\ r.policy \in Policies
         /\ policy = None \/ policy.version < r.policy.version
    /\ r.type = "IntentCommit" =>
         /\ r.intent \in Intent
         /\ \/ intents[r.scope] = None
            \/ intents[r.scope].generation < r.intent.generation
    /\ r.type = "AttemptPut" => r.attempt.epoch <= last_epoch
    /\ r.type = "ObservationCommit" =>
         r.observation.received_epoch <= last_epoch

\* Nothing is dated later than the last epoch.
DatesInv ==
    /\ \A i \in AttemptIds :
         attempts[i] # None => attempts[i].epoch <= last_epoch
    /\ \A sc \in Scopes : \A o \in Retained(sc) :
         o.received_epoch <= last_epoch

EpochInv == DatesInv /\ (limbo # None => Follows(limbo))

\* A process that was not given the means to act has no attempt of its own, and
\* one that did not observe has no observation of its own.
InheritInv ==
    phase \in {"fencing", "up"} =>
      /\ tool.mode \notin {"library", "scenario"} =>
           /\ \A i \in AttemptIds :
                attempts[i] # None => attempts[i].epoch < last_epoch
           /\ phase = "up" => op.issue = {} /\ op.sweep = {}
      /\ tool.mode \notin {"library", "scenario", "observe", "fixture"} =>
           \A sc \in Scopes : \A o \in Retained(sc) :
              o.received_epoch < last_epoch

\* What ExitIsTruthful says of a document, and that there is one in force.
InForce(kind, sc, doc) ==
    /\ kind = "policy" =>
         /\ doc \in Policies /\ policy # None
         /\ doc = policy \/ doc.version < policy.version
    /\ kind = "intent" =>
         /\ doc \in Intent /\ intents[sc] # None
         /\ doc = intents[sc] \/ doc.generation < intents[sc].generation
    /\ kind \notin {"policy", "intent"} =>
         \/ Len(observations[sc]) = MaxRetainedObservations
         \/ \E o \in Retained(sc) :
               doc = [id |-> o.id, reporter |-> o.reporter,
                      generation |-> o.generation]

AllInForce(docs) ==
    /\ docs \subseteq Committed
    /\ \A c \in docs : InForce(c.kind, c.scope, c.doc)

\* What was acknowledged is in force, and so is what a process committed as
\* long as no call of it failed.
ExitInv ==
    /\ AllInForce(acknowledged)
    /\ phase # "down" /\ tool.failed # TRUE => AllInForce(tool.docs)

ToolsIInv == IInv /\ ProgramInv /\ EpochInv /\ InheritInv /\ ExitInv

-----------------------------------------------------------------------------
(* Every record that is appended follows the tables. *)

\* What an append does to the tables and to the record in limbo.
Changes(r) ==
    \/ ~wedged /\ ApplyPayload(r) /\ limbo' = limbo
    \/ UNCHANGED tables /\ limbo' \in {limbo, r}

LEMMA AppendChanges ==
    ASSUME NEW r, NEW ph, NEW owed, AppendAndApply(r, ph, owed)
    PROVE  Changes(r)
BY Zenon DEF AppendAndApply, Changes

LEMMA LastEpochIsNumber ==
    ASSUME TypeOK PROVE last_epoch \in Nat
BY ConstantsAssumption DEF TypeOK

LEMMA AttemptDate ==
    ASSUME TypeOK, NEW i \in AttemptIds, attempts[i] # None
    PROVE  attempts[i] \in Attempt /\ attempts[i].epoch \in Nat
<1>1. attempts[i] \in Attempt
  BY Zenon DEF TypeOK
<1>2. attempts[i].epoch \in Epochs
  BY <1>1, Zenon DEF Attempt
<1> QED
  BY <1>1, <1>2, ConstantsAssumption, Zenon

LEMMA ObservationDate ==
    ASSUME TypeOK, NEW sc \in Scopes, NEW o \in Retained(sc)
    PROVE  o \in Observation /\ o.received_epoch \in Nat
<1>1. o \in Observation
  BY RetainedType, Zenon
<1>2. o.received_epoch \in Epochs
  BY <1>1, Zenon DEF Observation
<1> QED
  BY <1>1, <1>2, ConstantsAssumption, Zenon

LEMMA PolicyVersion ==
    ASSUME NEW p \in Policies PROVE p.version \in Nat
BY ToolsAssumption, Zenon

LEMMA IntentGeneration ==
    ASSUME NEW doc \in Intent PROVE doc.generation \in Nat
<1>1. doc.generation \in Generations
  BY Zenon DEF Intent
<1> QED
  BY <1>1, ConstantsAssumption, Zenon

\* A transition keeps the attempt's date.
LEMMA TransitionFollows ==
    ASSUME TypeOK, DatesInv, NEW i \in AttemptIds, attempts[i] # None,
           NEW to \in AttemptState
    PROVE  Follows(Transitioned(i, to))
<1>1. /\ Transitioned(i, to).type = "AttemptPut"
      /\ Transitioned(i, to).attempt.epoch = attempts[i].epoch
  BY TransitionedType, Zenon
<1>2. attempts[i].epoch <= last_epoch
  BY Zenon DEF DatesInv
<1> QED
  BY <1>1, <1>2, Zenon DEF Follows

\* A record about anything else has no date and no predecessor.
LEMMA OtherFollows ==
    ASSUME NEW r, r.type \notin {"PolicyPut", "IntentCommit", "AttemptPut",
                                 "ObservationCommit"}
    PROVE  Follows(r)
BY Zenon DEF Follows

\* What a booting process, or a handler that goes on, appends.
LEMMA OwedFollows ==
    ASSUME IInv, DatesInv, InstallInitialPolicy \/ AdvanceEpoch \/ Continue
    PROVE  \E r : Follows(r) /\ Changes(r)
<1>0. TypeOK /\ HandlerOK /\ ProcessInv
  BY Zenon DEF IInv, TypeInv
<1>1. CASE InstallInitialPolicy
  <2> DEFINE r == [type |-> "PolicyPut", policy |-> InitialPolicy]
  <2>1. r.type = "PolicyPut" /\ policy = None /\ r.policy \in Policies
    BY <1>1, ConstantsAssumption, Zenon DEF InstallInitialPolicy
  <2>2. Changes(r)
    BY <1>1, AppendChanges, Zenon DEF InstallInitialPolicy
  <2> HIDE DEF r
  <2>3. Follows(r)
    BY <2>1, Zenon DEF Follows
  <2> QED
    BY <2>2, <2>3, Zenon
<1>2. CASE AdvanceEpoch
  <2> DEFINE r == [type |-> "EpochAdvance", epoch |-> last_epoch + 1]
  <2>1. r.type = "EpochAdvance"
    BY Zenon
  <2>2. Changes(r)
    BY <1>2, AppendChanges, Zenon DEF AdvanceEpoch
  <2> HIDE DEF r
  <2> QED
    BY <2>1, <2>2, OtherFollows, Zenon
<1>3. CASE SweepNext
  <2>1. PICK i \in op.sweep : Changes(Transitioned(i, SweepTarget(i)))
    BY <1>3, AppendChanges, Zenon DEF SweepNext
  <2>2. i \in AttemptIds /\ attempts[i] # None
    BY <1>0, Zenon DEF TypeOK, Owed, HandlerOK, Unfinished
  <2>3. SweepTarget(i) \in AttemptState
    BY Zenon DEF SweepTarget, AttemptState
  <2> QED
    BY <1>0, <2>1, <2>2, <2>3, TransitionFollows, Zenon
<1>4. CASE CommitOutcome
  <2> DEFINE r == [type |-> "OutcomeCommit", outcome |-> op.outcome]
  <2>1. r.type = "OutcomeCommit"
    BY Zenon
  <2>2. Changes(r)
    BY <1>4, AppendChanges, Zenon DEF CommitOutcome
  <2> HIDE DEF r
  <2> QED
    BY <2>1, <2>2, OtherFollows, Zenon
<1>5. CASE IssueNext
  <2>1. PICK a \in op.issue :
           Changes([type |-> "AttemptPut", id |-> next_attempt, attempt |-> a])
    BY <1>5, AppendChanges, Zenon DEF IssueNext
  <2> DEFINE r == [type |-> "AttemptPut", id |-> next_attempt, attempt |-> a]
  <2>2. r.type = "AttemptPut" /\ r.attempt = a
    BY Zenon
  <2>3. a.epoch = last_epoch
    BY <1>0, <2>1, Zenon DEF ProcessInv, Authorised, live_epoch
  <2>4. last_epoch <= last_epoch
    BY <1>0, LastEpochIsNumber
  <2> HIDE DEF r
  <2>5. Follows(r)
    BY <2>2, <2>3, <2>4, Zenon DEF Follows
  <2> QED
    BY <2>1, <2>5, Zenon DEF r
<1> QED
  BY <1>1, <1>2, <1>3, <1>4, <1>5, Zenon DEF Continue

\* What a policy, an intent or an observation appends.
LEMMA EvidenceFollows ==
    ASSUME IInv, DatesInv, Evidence
    PROVE  \E r : Follows(r) /\ Changes(r)
<1>0. TypeOK
  BY Zenon DEF IInv, TypeInv
<1>1. ASSUME NEW p \in Policies, PutPolicy(p)
      PROVE  \E r : Follows(r) /\ Changes(r)
  <2> DEFINE r == [type |-> "PolicyPut", policy |-> p]
  <2>1. r.type = "PolicyPut" /\ r.policy = p
    BY Zenon
  <2>2. Changes(r) /\ p.version > policy.version
    BY <1>1, AppendChanges, Zenon DEF PutPolicy
  <2> HIDE DEF r
  <2>3. policy = None \/ policy.version < p.version
    <3>1. CASE policy \in Policies
      <4>1. p.version \in Nat /\ policy.version \in Nat
        BY <3>1, PolicyVersion, Zenon
      <4> QED
        BY <2>2, <4>1, Zenon
    <3> QED
      BY <1>0, <3>1, Zenon DEF TypeOK
  <2>4. Follows(r)
    BY <2>1, <2>3, Zenon DEF Follows
  <2> QED
    BY <2>2, <2>4, Zenon
<1>2. ASSUME NEW sc \in Scopes, NEW doc \in Intent, CommitIntent(sc, doc)
      PROVE  \E r : Follows(r) /\ Changes(r)
  <2> DEFINE r == [type |-> "IntentCommit", scope |-> sc, intent |-> doc]
  <2>1. r.type = "IntentCommit" /\ r.intent = doc /\ r.scope = sc
    BY Zenon
  <2>2. /\ Changes(r)
        /\ intents[sc] # None => doc.generation > intents[sc].generation
    BY <1>2, AppendChanges, Zenon DEF CommitIntent
  <2> HIDE DEF r
  <2>3. intents[sc] = None \/ intents[sc].generation < doc.generation
    <3>1. CASE intents[sc] \in Intent
      <4>1. doc.generation \in Nat /\ intents[sc].generation \in Nat
        BY <3>1, IntentGeneration, Zenon
      <4> QED
        BY <2>2, <3>1, <4>1, NoneAssumption, Zenon
    <3>2. intents[sc] \in Intent \cup {None}
      BY <1>0, Zenon DEF TypeOK
    <3> QED
      BY <3>1, <3>2, Zenon
  <2>4. Follows(r)
    BY <2>1, <2>3, Zenon DEF Follows
  <2> QED
    BY <2>2, <2>4, Zenon
<1>3. ASSUME NEW sc \in Scopes, NEW id \in ObservationIds, NEW re \in Reporters,
             NEW g \in Generations, NEW b \in Bodies, NEW t \in Times,
             RecordObservation(sc, id, re, g, b, t)
      PROVE  \E r : Follows(r) /\ Changes(r)
  <2> DEFINE o == [id |-> id, reporter |-> re, generation |-> g, body |-> b,
                   received_epoch |-> live_epoch, received_unix_ms |-> t]
             r == [type |-> "ObservationCommit", scope |-> sc,
                   observation |-> o]
  <2>1. Changes(r)
    BY <1>3, AppendChanges, Zenon DEF RecordObservation
  <2>2. o.received_epoch = last_epoch
    BY Zenon DEF live_epoch
  <2> HIDE DEF o
  <2>3. r.type = "ObservationCommit" /\ r.observation = o
    BY Zenon
  <2>4. last_epoch <= last_epoch
    BY <1>0, LastEpochIsNumber
  <2> HIDE DEF r
  <2>5. Follows(r)
    BY <2>2, <2>3, <2>4, Zenon DEF Follows
  <2> QED
    BY <2>1, <2>5, Zenon
<1> QED
  BY <1>1, <1>2, <1>3, Zenon DEF Evidence

\* What a completion, a verification or a fence appends; planning and starting
\* a dispatch append nothing.
LEMMA RequestFollows ==
    ASSUME IInv, DatesInv, Actions \/ Fencing
    PROVE  \/ UNCHANGED <<tables, limbo>>
           \/ \E r : Follows(r) /\ Changes(r)
<1>0. TypeOK
  BY Zenon DEF IInv, TypeInv
<1>1. ASSUME NEW i \in AttemptIds, NEW to \in AttemptState,
             attempts[i] # None, Changes(Transitioned(i, to))
      PROVE  \E r : Follows(r) /\ Changes(r)
  BY <1>0, <1>1, TransitionFollows, Zenon
<1>2. ASSUME NEW sc, NEW p, NEW now, Plan(sc, p, now)
      PROVE  UNCHANGED <<tables, limbo>>
  BY <1>2, Zenon DEF Plan
<1>3. ASSUME NEW p, Dispatch(p) PROVE UNCHANGED <<tables, limbo>>
  BY <1>3, Zenon DEF Dispatch
<1>4. ASSUME NEW i \in AttemptIds, NEW e, NEW to \in AttemptState,
             Complete(i, e, to)
      PROVE  \E r : Follows(r) /\ Changes(r)
  BY <1>1, <1>4, AppendChanges, Zenon DEF Complete
<1>5. ASSUME NEW i \in Held(attempts), NEW o, NEW applier, NEW now,
             NEW confirms, Verify(i, o, applier, now, confirms)
      PROVE  \E r : Follows(r) /\ Changes(r)
  <2> DEFINE to == IF confirms THEN "Verified" ELSE "Failed"
  <2>1. to \in AttemptState
    BY Zenon DEF AttemptState
  <2>2. Changes(Transitioned(i, to))
    BY <1>5, AppendChanges, Zenon DEF Verify
  <2>3. i \in AttemptIds /\ attempts[i] # None
    BY Zenon DEF Held
  <2> QED
    BY <1>1, <2>1, <2>2, <2>3, Zenon
<1>6. ASSUME NEW id, NEW f, PutFence(id, f)
      PROVE  \E r : Follows(r) /\ Changes(r)
  <2> DEFINE r == [type |-> "FencePut", id |-> id, fence |-> f]
  <2>1. r.type = "FencePut"
    BY Zenon
  <2>2. Changes(r)
    BY <1>6, AppendChanges, Zenon DEF PutFence
  <2> HIDE DEF r
  <2> QED
    BY <2>1, <2>2, OtherFollows, Zenon
<1>7. ASSUME NEW id, ClearFence(id)
      PROVE  \E r : Follows(r) /\ Changes(r)
  <2> DEFINE r == [type |-> "FenceClear", id |-> id]
  <2>1. r.type = "FenceClear"
    BY Zenon
  <2>2. Changes(r)
    BY <1>7, AppendChanges, Zenon DEF ClearFence
  <2> HIDE DEF r
  <2> QED
    BY <2>1, <2>2, OtherFollows, Zenon
<1> QED
  BY <1>2, <1>3, <1>4, <1>5, <1>6, <1>7, Zenon DEF Actions, Fencing

\* A step of the engine changes nothing on disk, replays it, or appends a
\* record that follows the tables.
LEMMA StepFollows ==
    ASSUME IInv, DatesInv, [Next]_vars
    PROVE  \/ UNCHANGED <<tables, limbo>>
           \/ Replay /\ limbo' = None
           \/ \E r : Follows(r) /\ Changes(r)
<1>1. CASE UNCHANGED vars
  BY <1>1, Zenon DEF vars
<1>2. CASE Open \/ OpenReadOnly
  BY <1>2, Zenon DEF Open, OpenReadOnly
<1>3. CASE Crash
  BY <1>3, Zenon DEF Crash
<1> QED
  BY <1>1, <1>2, <1>3, OwedFollows, EvidenceFollows, RequestFollows, Zenon
     DEF Next, Boot

-----------------------------------------------------------------------------
(* Applying a record that follows the tables. *)

\* What retaining one more observation leaves: nothing is lost before the bound
\* is reached, and everything was there before or is the new one.
LEMMA RetainOne ==
    ASSUME NEW S, NEW s \in Seq(S), NEW x \in S, NEW max \in Nat,
           NEW u, u = Trimmed(Append(s, x), max)
    PROVE  /\ \A m \in DOMAIN u :
                 u[m] = x \/ \E k \in DOMAIN s : u[m] = s[k]
           /\ \/ Len(u) = max
              \/ /\ Len(s) # max
                 /\ \E m \in DOMAIN u : u[m] = x
                 /\ \A k \in DOMAIN s : \E m \in DOMAIN u : u[m] = s[k]
<1> DEFINE big == Append(s, x)
<1>1. /\ big \in Seq(S) /\ Len(s) \in Nat
      /\ Len(big) = Len(s) + 1
      /\ DOMAIN s = 1 .. Len(s)
      /\ DOMAIN big = 1 .. Len(s) + 1
      /\ big[Len(s) + 1] = x
      /\ \A m \in 1 .. Len(s) : big[m] = s[m]
  OBVIOUS
<1>2. PICK d \in Nat : \A m \in DOMAIN u : m + d \in DOMAIN big
                                          /\ u[m] = big[m + d]
  <2>1. big \in Seq(S) /\ u = Trimmed(big, max)
    BY <1>1, Zenon
  <2> HIDE DEF big
  <2>2. \E d \in Nat : \A m \in DOMAIN Trimmed(big, max) :
           /\ m + d \in DOMAIN big
           /\ Trimmed(big, max)[m] = big[m + d]
    BY <2>1, TrimmedIsSuffix, Zenon
  <2> QED
    BY <2>1, <2>2, Zenon
<1>3. \A m \in DOMAIN big : big[m] = x \/ \E k \in DOMAIN s : big[m] = s[k]
  <2> SUFFICES ASSUME NEW m \in DOMAIN big
               PROVE  big[m] = x \/ \E k \in DOMAIN s : big[m] = s[k]
    BY Zenon
  <2> HIDE DEF big
  <2>1. m = Len(s) + 1 \/ m \in 1 .. Len(s)
    BY <1>1
  <2> QED
    BY <1>1, <2>1, Zenon
<1>4. \A m \in DOMAIN u : u[m] = x \/ \E k \in DOMAIN s : u[m] = s[k]
  <2> HIDE DEF big
  <2> QED
    BY <1>2, <1>3, Zenon
<1>5. CASE Len(big) > max
  <2>1. u = SubSeq(big, Len(big) - max + 1, Len(big))
    BY <1>5, Zenon DEF Trimmed
  <2> HIDE DEF big
  <2>2. /\ Len(big) - max + 1 \in Nat /\ Len(big) \in Nat
        /\ \A i \in (Len(big) - max + 1) .. Len(big) : big[i] \in S
    BY <1>1, <1>5
  <2>3. Len(u) = max
    BY <1>5, <2>1, <2>2, SubSeqProperties
  <2> QED
    BY <1>4, <2>3, Zenon DEF big
<1>6. CASE ~(Len(big) > max)
  <2>1. u = big
    BY <1>6, Zenon DEF Trimmed
  <2> HIDE DEF big
  <2>2. Len(s) # max
    <3>1. Len(big) = Len(s) + 1 /\ Len(s) \in Nat
      BY <1>1, Zenon
    <3> QED
      BY <1>6, <3>1
  <2>3. Len(s) + 1 \in DOMAIN u /\ \A k \in DOMAIN s : k \in DOMAIN u
    BY <1>1, <2>1
  <2>4. /\ \E m \in DOMAIN u : u[m] = x
        /\ \A k \in DOMAIN s : \E m \in DOMAIN u : u[m] = s[k]
    BY <1>1, <2>1, <2>3, Zenon
  <2> QED
    BY <1>4, <2>2, <2>4, Zenon DEF big
<1> QED
  BY <1>5, <1>6, Zenon

\* The observations of a scope after a record was applied.
LEMMA RetainedAfter ==
    ASSUME TypeOK, NEW r, ApplyPayload(r), NEW sc \in Scopes
    PROVE  /\ \A o \in Retained(sc)' :
                 \/ o \in Retained(sc)
                 \/ r.type = "ObservationCommit" /\ o = r.observation
           /\ \/ Len(observations'[sc]) = MaxRetainedObservations
              \/ /\ Len(observations[sc]) # MaxRetainedObservations
                 /\ Retained(sc) \subseteq Retained(sc)'
                 /\ r.type = "ObservationCommit" /\ r.scope = sc =>
                      r.observation \in Retained(sc)'
              \/ /\ observations'[sc] = observations[sc]
                 /\ ~(r.type = "ObservationCommit" /\ r.scope = sc)
<1>1. CASE r.type = "ObservationCommit" /\ r.scope = sc
  <2> DEFINE S == Observation \cup {r.observation}
             s == observations[sc]
             u == Trimmed(Append(s, r.observation), MaxRetainedObservations)
  <2>1. s \in Seq(Observation) /\ MaxRetainedObservations \in Nat
    BY ConstantsAssumption, Zenon DEF TypeOK
  <2>2. s \in Seq(S)
    BY <2>1
  <2>3. observations'[sc] = u
    BY <1>1, Zenon DEF ApplyPayload, TypeOK
  <2>4. /\ \A m \in DOMAIN u :
              u[m] = r.observation \/ \E k \in DOMAIN s : u[m] = s[k]
        /\ \/ Len(u) = MaxRetainedObservations
           \/ /\ Len(s) # MaxRetainedObservations
              /\ \E m \in DOMAIN u : u[m] = r.observation
              /\ \A k \in DOMAIN s : \E m \in DOMAIN u : u[m] = s[k]
    <3>1. r.observation \in S
      BY Zenon
    <3>2. u = Trimmed(Append(s, r.observation), MaxRetainedObservations)
      BY Zenon
    <3> HIDE DEF S, s, u
    <3> QED
      BY <2>1, <2>2, <3>1, <3>2, RetainOne
  <2>5. /\ Retained(sc) = {s[i] : i \in DOMAIN s}
        /\ Retained(sc)' = {u[i] : i \in DOMAIN u}
    BY <2>3, Zenon DEF Retained
  <2>6. Len(observations[sc]) = Len(s) /\ Len(observations'[sc]) = Len(u)
    BY <2>3, Zenon
  <2> HIDE DEF s, u, S
  <2>7. \A o \in Retained(sc)' : o \in Retained(sc) \/ o = r.observation
    BY <2>4, <2>5, Zenon
  <2>8. (\E m \in DOMAIN u : u[m] = r.observation) =>
           r.observation \in Retained(sc)'
    BY <2>5, Zenon
  <2>9. (\A k \in DOMAIN s : \E m \in DOMAIN u : u[m] = s[k]) =>
           Retained(sc) \subseteq Retained(sc)'
    BY <2>5, Zenon
  <2> QED
    BY <1>1, <2>4, <2>6, <2>7, <2>8, <2>9, Zenon
<1>2. CASE ~(r.type = "ObservationCommit" /\ r.scope = sc)
  <2>1. observations'[sc] = observations[sc]
    BY <1>2, Zenon DEF ApplyPayload, TypeOK
  <2>2. Retained(sc)' = Retained(sc)
    BY <2>1, Zenon DEF Retained
  <2> QED
    BY <1>2, <2>1, <2>2, Zenon
<1> QED
  BY <1>1, <1>2, Zenon

\* The epoch never goes back.
LEMMA EpochRises ==
    ASSUME TypeOK, TypeOK', NEW r, ApplyPayload(r)
    PROVE  last_epoch <= last_epoch'
<1>1. last_epoch \in Nat /\ last_epoch' \in Nat
  BY ConstantsAssumption DEF TypeOK
<1>2. last_epoch' = last_epoch \/ (last_epoch' = r.epoch /\ r.epoch > last_epoch)
  BY Zenon DEF ApplyPayload
<1> QED
  BY <1>1, <1>2

\* An attempt after a record was applied is the record's, or was there before.
LEMMA AttemptAfter ==
    ASSUME TypeOK, NEW r, ApplyPayload(r), NEW i \in AttemptIds,
           attempts'[i] # None
    PROVE  \/ attempts'[i] = attempts[i]
           \/ r.type = "AttemptPut" /\ attempts'[i] = r.attempt
<1>1. CASE r.type = "AttemptPut"
  <2> DEFINE put == [attempts EXCEPT ![r.id] = r.attempt]
  <2>1. attempts' = TrimAttempts(put)
    BY <1>1, Zenon DEF ApplyPayload
  <2>2. put[i] = attempts[i] \/ put[i] = r.attempt
    BY Zenon DEF TypeOK
  <2> HIDE DEF put
  <2>3. attempts'[i] = put[i]
    BY <2>1, Zenon DEF TrimAttempts
  <2> QED
    BY <1>1, <2>2, <2>3, Zenon
<1>2. CASE r.type # "AttemptPut"
  BY <1>2, OtherEffect, Zenon
<1> QED
  BY <1>1, <1>2, Zenon

LEMMA DatesApplied ==
    ASSUME TypeOK, TypeOK', DatesInv, NEW r, Follows(r), ApplyPayload(r)
    PROVE  DatesInv'
<1>0. last_epoch \in Nat /\ last_epoch' \in Nat /\ last_epoch <= last_epoch'
  BY EpochRises, ConstantsAssumption DEF TypeOK
<1>1. ASSUME NEW i \in AttemptIds, attempts'[i] # None
      PROVE  attempts'[i].epoch <= last_epoch'
  <2> DEFINE e == attempts'[i].epoch
  <2>1. attempts'[i] \in Attempt
    BY <1>1, Zenon DEF TypeOK
  <2>2. e \in Nat
    <3>1. e \in Epochs
      BY <2>1, Zenon DEF Attempt
    <3> QED
      BY <3>1, ConstantsAssumption, Zenon
  <2>3. e <= last_epoch
    BY <1>1, AttemptAfter, Zenon DEF DatesInv, Follows
  <2> HIDE DEF e
  <2>4. e <= last_epoch'
    BY <1>0, <2>2, <2>3
  <2> QED
    BY <2>4, Zenon DEF e
<1>2. ASSUME NEW sc \in Scopes, NEW o \in Retained(sc)'
      PROVE  o.received_epoch <= last_epoch'
  <2> DEFINE e == o.received_epoch
  <2>1. Retained(sc)' \subseteq Observation
    BY DEF TypeOK, Retained
  <2>2. e \in Nat
    <3>1. e \in Epochs
      BY <2>1, Zenon DEF Observation
    <3> QED
      BY <3>1, ConstantsAssumption, Zenon
  <2>3. \/ o \in Retained(sc)
        \/ r.type = "ObservationCommit" /\ o = r.observation
    BY RetainedAfter, Zenon
  <2>4. e <= last_epoch
    BY <2>3, Zenon DEF DatesInv, Follows
  <2> HIDE DEF e
  <2>5. e <= last_epoch'
    BY <1>0, <2>2, <2>4
  <2> QED
    BY <2>5, Zenon DEF e
<1> QED
  BY <1>1, <1>2, Zenon DEF DatesInv

\* The dates and the record in limbo depend on the tables only.
LEMMA DatesStable ==
    ASSUME DatesInv, UNCHANGED tables PROVE DatesInv'
BY Zenon DEF DatesInv, Retained, tables

LEMMA FollowsStable ==
    ASSUME NEW r, Follows(r), UNCHANGED tables PROVE Follows(r)'
BY Zenon DEF Follows, tables

LEMMA EpochStep ==
    ASSUME IInv, IInv', EpochInv, [Next]_vars
    PROVE  EpochInv'
<1>0. TypeOK /\ TypeOK' /\ DatesInv /\ (limbo # None => wedged)
      /\ (limbo # None => Follows(limbo))
  BY Zenon DEF IInv, TypeInv, EpochInv, ProcessInv
<1>1. CASE UNCHANGED <<tables, limbo>>
  BY <1>0, <1>1, DatesStable, FollowsStable, Zenon DEF EpochInv
<1>2. CASE Replay /\ limbo' = None
  BY <1>0, <1>2, DatesStable, DatesApplied, Zenon DEF Replay, EpochInv
<1>3. ASSUME NEW r, Follows(r), Changes(r) PROVE EpochInv'
  <2>1. CASE ~wedged /\ ApplyPayload(r) /\ limbo' = limbo
    BY <1>0, <1>3, <2>1, DatesApplied, Zenon DEF EpochInv
  <2>2. CASE UNCHANGED tables /\ limbo' \in {limbo, r}
    <3>1. DatesInv' /\ Follows(r)' /\ (limbo # None => Follows(limbo)')
      BY <1>0, <1>3, <2>2, DatesStable, FollowsStable, Zenon
    <3>2. CASE limbo' = limbo
      BY <3>1, <3>2, Zenon DEF EpochInv, Follows
    <3>3. CASE limbo' = r
      BY <3>1, <3>3, Zenon DEF EpochInv, Follows
    <3> QED
      BY <2>2, <3>2, <3>3, Zenon
  <2> QED
    BY <1>3, <2>1, <2>2, Zenon DEF Changes
<1> QED
  BY <1>0, <1>1, <1>2, <1>3, StepFollows, Zenon

-----------------------------------------------------------------------------
(* What is in force stays in force. *)

LEMMA PolicyStaysInForce ==
    ASSUME TypeOK, NEW r, Follows(r), ApplyPayload(r),
           NEW doc \in Policies, policy # None,
           doc = policy \/ doc.version < policy.version
    PROVE  policy' # None /\ (doc = policy' \/ doc.version < policy'.version)
<1>1. CASE r.type = "PolicyPut"
  <2>1. /\ policy' = r.policy /\ policy.version < r.policy.version
        /\ r.policy \in Policies /\ policy \in Policies
    BY <1>1, Zenon DEF ApplyPayload, Follows, TypeOK
  <2>2. doc.version \in Nat /\ policy.version \in Nat /\ policy'.version \in Nat
    BY <2>1, PolicyVersion, Zenon
  <2>3. doc.version < policy'.version
    BY <2>1, <2>2
  <2> QED
    BY <2>1, <2>3, NoneAssumption, Zenon
<1>2. CASE r.type # "PolicyPut"
  BY <1>2, Zenon DEF ApplyPayload
<1> QED
  BY <1>1, <1>2, Zenon

LEMMA IntentStaysInForce ==
    ASSUME TypeOK, NEW r, Follows(r), ApplyPayload(r),
           NEW sc \in Scopes, NEW doc \in Intent, intents[sc] # None,
           doc = intents[sc] \/ doc.generation < intents[sc].generation
    PROVE  /\ intents'[sc] # None
           /\ doc = intents'[sc] \/ doc.generation < intents'[sc].generation
<1>1. CASE r.type = "IntentCommit" /\ r.scope = sc
  <2>1. intents'[sc] = r.intent
    BY <1>1, Zenon DEF ApplyPayload, TypeOK
  <2>2. /\ intents[sc].generation < r.intent.generation
        /\ r.intent \in Intent
    BY <1>1, Zenon DEF Follows
  <2>3. intents[sc] \in Intent
    BY Zenon DEF TypeOK
  <2>4. /\ doc.generation \in Nat /\ intents[sc].generation \in Nat
        /\ r.intent.generation \in Nat
    BY <2>2, <2>3, IntentGeneration, Zenon
  <2>5. doc.generation < r.intent.generation
    BY <2>2, <2>4
  <2> QED
    BY <2>1, <2>2, <2>5, NoneAssumption, Zenon
<1>2. CASE ~(r.type = "IntentCommit" /\ r.scope = sc)
  <2>1. intents'[sc] = intents[sc]
    BY <1>2, Zenon DEF ApplyPayload, TypeOK
  <2> QED
    BY <2>1, Zenon
<1> QED
  BY <1>1, <1>2, Zenon

LEMMA InForceApplied ==
    ASSUME TypeOK, NEW r, Follows(r), ApplyPayload(r),
           NEW mode, NEW sc \in Scopes, NEW doc, InForce(mode, sc, doc)
    PROVE  InForce(mode, sc, doc)'
<1>1. CASE mode = "policy"
  <2>1. doc \in Policies /\ policy # None
        /\ (doc = policy \/ doc.version < policy.version)
    BY <1>1, Zenon DEF InForce
  <2> QED
    BY <1>1, <2>1, PolicyStaysInForce, Zenon DEF InForce
<1>2. CASE mode = "intent"
  <2>1. doc \in Intent /\ intents[sc] # None
        /\ (doc = intents[sc] \/ doc.generation < intents[sc].generation)
    BY <1>2, Zenon DEF InForce
  <2> QED
    BY <1>2, <2>1, IntentStaysInForce, Zenon DEF InForce
<1>3. CASE mode \notin {"policy", "intent"}
  <2>1. \/ Len(observations[sc]) = MaxRetainedObservations
        \/ \E o \in Retained(sc) :
              doc = [id |-> o.id, reporter |-> o.reporter,
                     generation |-> o.generation]
    BY <1>3, Zenon DEF InForce
  <2>2. \/ Len(observations'[sc]) = MaxRetainedObservations
        \/ /\ Len(observations[sc]) # MaxRetainedObservations
           /\ Retained(sc) \subseteq Retained(sc)'
        \/ observations'[sc] = observations[sc]
    BY RetainedAfter, Zenon
  <2>3. observations'[sc] = observations[sc] => Retained(sc)' = Retained(sc)
    BY Zenon DEF Retained
  <2>4. \/ Len(observations'[sc]) = MaxRetainedObservations
        \/ \E o \in Retained(sc)' :
              doc = [id |-> o.id, reporter |-> o.reporter,
                     generation |-> o.generation]
    BY <2>1, <2>2, <2>3, Zenon
  <2> QED
    BY <1>3, <2>4, Zenon DEF InForce
<1> QED
  BY <1>1, <1>2, <1>3, Zenon

LEMMA InForceStays ==
    ASSUME NEW mode, NEW sc, NEW doc, InForce(mode, sc, doc), UNCHANGED tables
    PROVE  InForce(mode, sc, doc)'
BY Zenon DEF InForce, Retained, tables

\* Whatever the engine does, a policy or intent in force is replaced by newer
\* ones only, and an observation is evicted at the bound only.
LEMMA InForceStep ==
    ASSUME IInv, EpochInv, [Next]_vars,
           NEW mode, NEW sc \in Scopes, NEW doc, InForce(mode, sc, doc)
    PROVE  InForce(mode, sc, doc)'
<1>0. TypeOK /\ DatesInv /\ (limbo # None => Follows(limbo))
  BY Zenon DEF IInv, TypeInv, EpochInv
<1>1. CASE UNCHANGED <<tables, limbo>>
  BY <1>1, InForceStays, Zenon
<1>2. CASE Replay
  BY <1>0, <1>2, InForceStays, InForceApplied, Zenon DEF Replay
<1>3. ASSUME NEW r, Follows(r), Changes(r) PROVE InForce(mode, sc, doc)'
  BY <1>0, <1>3, InForceStays, InForceApplied, Zenon DEF Changes
<1> QED
  BY <1>0, <1>1, <1>2, <1>3, StepFollows, Zenon

-----------------------------------------------------------------------------
(* Programs. *)

LEMMA ModesAre ==
    Modes = {"library", "read", "policy", "intent", "observe", "dispatch",
             "complete", "verify", "fence", "fixture", "reconcile", "scenario"}
BY Zenon DEF Modes, Program

\* The empty programs, those of one call, and the others.
LEMMA ProgramsAre ==
    /\ \A mode \in {"library", "read"} : Program[mode] = <<>>
    /\ \A mode \in {"policy", "intent", "observe", "complete", "verify",
                    "fence"} : Program[mode] = <<mode>>
    /\ Program["dispatch"] = <<"plan", "dispatch">>
    /\ Program["fixture"] = <<"intent", "observe", "plan">>
    /\ Program["reconcile"] = <<"plan", "dispatch", "apply">>
    /\ Program["scenario"] = <<"intent", "observe", "plan", "dispatch", "apply">>
BY DEF Program

LEMMA ProgramType ==
    ASSUME NEW mode \in Modes PROVE Program[mode] \in Seq(Calls)
<1>1. CASE mode \in {"library", "read"}
  <2>1. Program[mode] = <<>>
    BY <1>1, ProgramsAre, Zenon
  <2> QED
    BY <2>1
<1>2. CASE mode \in {"policy", "intent", "observe", "complete", "verify",
                     "fence"}
  <2>1. Program[mode] = <<mode>> /\ mode \in Calls
    BY <1>2, ProgramsAre, Zenon DEF Calls
  <2> QED
    BY <2>1
<1>3. CASE mode \in {"dispatch", "fixture", "reconcile", "scenario"}
  <2>1. /\ "plan" \in Calls /\ "dispatch" \in Calls /\ "apply" \in Calls
        /\ "intent" \in Calls /\ "observe" \in Calls
    BY Zenon DEF Calls
  <2>2. /\ <<"plan", "dispatch">> \in Seq(Calls)
        /\ <<"plan", "dispatch", "apply">> \in Seq(Calls)
    BY <2>1
  <2>3. <<"intent", "observe", "plan">> \in Seq(Calls)
    BY <2>1
  <2>4. <<"intent", "observe", "plan", "dispatch", "apply">> \in Seq(Calls)
    BY <2>1
  <2> QED
    BY <1>3, <2>2, <2>3, <2>4, ProgramsAre, Zenon
<1> QED
  BY <1>1, <1>2, <1>3, ModesAre, Zenon

\* Which programs make which call, and what comes before and after it.
LEMMA ProgramOrder ==
    ASSUME NEW mode \in Modes, NEW i \in 1 .. Len(Program[mode])
    PROVE  LET call == Program[mode][i]
               more == i + 1 \in 1 .. Len(Program[mode])
               then == Program[mode][i + 1]
           IN  /\ call = "policy" => mode = "policy"
               /\ call = "intent" => mode \in {"intent", "fixture", "scenario"}
               /\ call = "observe" => mode \in {"observe", "fixture", "scenario"}
               /\ call = "dispatch" =>
                    mode \in {"dispatch", "reconcile", "scenario"}
               /\ call = "intent" /\ mode # "intent" => more /\ then = "observe"
               /\ call = "apply" => i # 1
               /\ more /\ then = "observe" => call = "intent"
               /\ more /\ then = "apply" => call = "dispatch"
<1>1. CASE mode \in {"library", "read"}
  BY <1>1, ProgramsAre
<1>2. CASE mode \in {"policy", "intent", "observe", "complete", "verify",
                     "fence"}
  BY <1>2, ProgramsAre
<1>3. CASE mode = "dispatch"
  BY <1>3, ProgramsAre
<1>4. CASE mode = "fixture"
  BY <1>4, ProgramsAre
<1>5. CASE mode = "reconcile"
  BY <1>5, ProgramsAre
<1>6. CASE mode = "scenario"
  BY <1>6, ProgramsAre
<1> QED
  BY <1>1, <1>2, <1>3, <1>4, <1>5, <1>6, ModesAre, Zenon

LEMMA LeftType ==
    ASSUME NEW p \in Seq(Calls), NEW n \in 0 .. Len(p)
    PROVE  /\ Left(p, n) \in Seq(Calls)
           /\ Len(Left(p, n)) = Len(p) - n
           /\ \A i \in 1 .. Len(p) - n : Left(p, n)[i] = p[n + i]
<1>1. n + 1 \in Nat /\ Len(p) \in Nat /\ n \in Nat
  OBVIOUS
<1>2. \A i \in n + 1 .. Len(p) : p[i] \in Calls
  BY <1>1
<1>3. /\ SubSeq(p, n + 1, Len(p)) \in Seq(Calls)
      /\ Len(SubSeq(p, n + 1, Len(p))) =
            IF n + 1 <= Len(p) THEN Len(p) - (n + 1) + 1 ELSE 0
      /\ \A i \in 1 .. Len(p) - (n + 1) + 1 :
            SubSeq(p, n + 1, Len(p))[i] = p[n + 1 + i - 1]
  BY <1>1, <1>2, SubSeqProperties
<1>4. Len(p) - (n + 1) + 1 = Len(p) - n
  BY <1>1
<1>5. \A i \in 1 .. Len(p) - n : n + 1 + i - 1 = n + i
  BY <1>1
<1>6. (IF n + 1 <= Len(p) THEN Len(p) - (n + 1) + 1 ELSE 0) = Len(p) - n
  BY <1>1
<1>7. \A i \in 1 .. Len(p) - n : SubSeq(p, n + 1, Len(p))[i] = p[n + i]
  BY <1>3, <1>4, <1>5, Zenon
<1>8. Len(SubSeq(p, n + 1, Len(p))) = Len(p) - n
  BY <1>3, <1>6
<1>9. Left(p, n) = SubSeq(p, n + 1, Len(p))
  BY Zenon DEF Left
<1> QED
  BY <1>3, <1>7, <1>8, <1>9, Zenon

LEMMA LeftAll ==
    ASSUME NEW p \in Seq(Calls) PROVE Left(p, 0) = p
<1>1. /\ Left(p, 0) \in Seq(Calls) /\ Len(Left(p, 0)) = Len(p)
      /\ \A i \in 1 .. Len(p) : Left(p, 0)[i] = p[i]
  BY LeftType
<1> QED
  BY <1>1

LEMMA LeftNone ==
    ASSUME NEW p \in Seq(Calls) PROVE Left(p, Len(p)) = <<>>
<1>1. Left(p, Len(p)) \in Seq(Calls) /\ Len(Left(p, Len(p))) = 0
  BY LeftType
<1> QED
  BY <1>1

\* The next call, and what is left after it.
LEMMA LeftNext ==
    ASSUME NEW p \in Seq(Calls), NEW n \in 0 .. Len(p), Left(p, n) # <<>>
    PROVE  /\ n + 1 \in 1 .. Len(p)
           /\ Head(Left(p, n)) = p[n + 1]
           /\ Tail(Left(p, n)) = Left(p, n + 1)
<1> DEFINE s == Left(p, n)
           t == Left(p, n + 1)
<1>1. /\ s \in Seq(Calls) /\ Len(s) = Len(p) - n
      /\ \A i \in 1 .. Len(p) - n : s[i] = p[n + i]
  BY LeftType, Zenon
<1>2. n \in Nat /\ Len(p) \in Nat /\ n < Len(p)
  <2>1. Len(s) # 0
    BY <1>1
  <2> QED
    BY <1>1, <2>1
<1>3. /\ t \in Seq(Calls) /\ Len(t) = Len(p) - (n + 1)
      /\ \A i \in 1 .. Len(p) - (n + 1) : t[i] = p[n + 1 + i]
  <2>1. n + 1 \in 0 .. Len(p)
    BY <1>2
  <2> QED
    BY <2>1, LeftType, Zenon
<1> HIDE DEF s, t
<1>4. Head(s) = p[n + 1]
  BY <1>1, <1>2
<1>5. /\ Tail(s) \in Seq(Calls) /\ Len(Tail(s)) = Len(p) - (n + 1)
      /\ \A i \in 1 .. Len(p) - (n + 1) : Tail(s)[i] = s[i + 1]
  BY <1>1, <1>2
<1>6. \A i \in 1 .. Len(p) - (n + 1) :
         i + 1 \in 1 .. Len(p) - n /\ n + (i + 1) = n + 1 + i
  BY <1>2
<1>7. \A i \in 1 .. Len(p) - (n + 1) : Tail(s)[i] = t[i]
  <2> SUFFICES ASSUME NEW i \in 1 .. Len(p) - (n + 1)
               PROVE  Tail(s)[i] = t[i]
    BY Zenon
  <2>1. Tail(s)[i] = s[i + 1] /\ t[i] = p[n + 1 + i]
    BY <1>3, <1>5, Zenon
  <2>2. i + 1 \in 1 .. Len(p) - n /\ n + (i + 1) = n + 1 + i
    BY <1>6, Zenon
  <2>3. s[i + 1] = p[n + (i + 1)]
    BY <1>1, <2>2, Zenon
  <2> QED
    BY <2>1, <2>2, <2>3, Zenon
<1>8. Tail(s) = t
  <2>1. Len(Tail(s)) = Len(t)
    BY <1>3, <1>5, Zenon
  <2>2. \A i \in 1 .. Len(Tail(s)) : Tail(s)[i] = t[i]
    BY <1>5, <1>7, Zenon
  <2> QED
    BY <1>3, <1>5, <2>1, <2>2, SeqEqual, Zenon
<1> QED
  BY <1>2, <1>4, <1>8 DEF s, t

-----------------------------------------------------------------------------
(* Every step of a process is a step of the engine. *)

LEMMA Running ==
    ASSUME ProgramInv, tool # None
    PROVE  phase # "down" /\ RunningInv
BY Zenon DEF ProgramInv

LEMMA Holding ==
    ASSUME ProgramInv, phase # "down"
    PROVE  RunningInv /\ tool # None
BY ToolsAssumption, Zenon DEF ProgramInv, RunningInv

LEMMA ProcessFields ==
    ASSUME NEW t \in Process
    PROVE  /\ t.mode \in Modes \cup {"opening"} /\ t.scope \in Scopes
           /\ t.todo \in Seq(Calls) /\ t.plan \in PlanRecord \cup {None}
           /\ t.issued \in Nat /\ t.docs \subseteq Committed
           /\ t.failed \in BOOLEAN
BY Zenon DEF Process

\* A process with a call to make: where it is in its program.
LEMMA InProgram ==
    ASSUME RunningInv, tool.todo # <<>>
    PROVE  /\ tool.mode \in Modes
           /\ \E n \in 0 .. Len(Program[tool.mode]) :
                 /\ n + 1 \in 1 .. Len(Program[tool.mode])
                 /\ Head(tool.todo) = Program[tool.mode][n + 1]
                 /\ Tail(tool.todo) = Left(Program[tool.mode], n + 1)
<1>1. tool.mode \in Modes
  BY ProcessFields, Zenon DEF RunningInv
<1>2. tool.mode # "opening"
  BY Zenon DEF RunningInv
<1>3. PICK n \in 0 .. Len(Program[tool.mode]) :
         tool.todo = Left(Program[tool.mode], n)
  BY <1>2, Zenon DEF RunningInv
<1>4. Program[tool.mode] \in Seq(Calls)
  BY <1>1, ProgramType, Zenon
<1> DEFINE p == Program[tool.mode]
<1>5. p \in Seq(Calls) /\ n \in 0 .. Len(p) /\ Left(p, n) # <<>>
  BY <1>3, <1>4, Zenon
<1>6. /\ n + 1 \in 1 .. Len(p) /\ Head(Left(p, n)) = p[n + 1]
      /\ Tail(Left(p, n)) = Left(p, n + 1)
  <2> HIDE DEF p
  <2> QED
    BY <1>5, LeftNext, Zenon
<1> QED
  BY <1>1, <1>3, <1>6, Zenon

\* What a process that makes a call is, and is not, about to do next.
LEMMA CallOrder ==
    ASSUME RunningInv, tool.todo # <<>>
    PROVE  LET call == Head(tool.todo)
               rest == Tail(tool.todo)
           IN  /\ tool.mode \in Modes
               /\ call = "policy" => tool.mode = "policy"
               /\ call = "intent" =>
                    tool.mode \in {"intent", "fixture", "scenario"}
               /\ call = "observe" =>
                    tool.mode \in {"observe", "fixture", "scenario"}
               /\ call = "dispatch" =>
                    tool.mode \in {"dispatch", "reconcile", "scenario"}
               /\ call = "intent" /\ tool.mode # "intent" =>
                    rest # <<>> /\ Head(rest) = "observe"
               /\ rest # <<>> /\ Head(rest) = "observe" => call = "intent"
               /\ rest # <<>> /\ Head(rest) = "apply" => call = "dispatch"
               /\ \E n \in 0 .. Len(Program[tool.mode]) :
                     rest = Left(Program[tool.mode], n)
<1> DEFINE p == Program[tool.mode]
<1>1. tool.mode \in Modes /\ p \in Seq(Calls)
  BY InProgram, ProgramType, Zenon
<1>2. PICK n \in 0 .. Len(p) :
         /\ n + 1 \in 1 .. Len(p) /\ Head(tool.todo) = p[n + 1]
         /\ Tail(tool.todo) = Left(p, n + 1)
  BY InProgram, Zenon
<1> DEFINE call == p[n + 1]
           more == n + 1 + 1 \in 1 .. Len(p)
           then == p[n + 1 + 1]
<1>3. /\ call = "policy" => tool.mode = "policy"
      /\ call = "intent" => tool.mode \in {"intent", "fixture", "scenario"}
      /\ call = "observe" => tool.mode \in {"observe", "fixture", "scenario"}
      /\ call = "dispatch" =>
           tool.mode \in {"dispatch", "reconcile", "scenario"}
      /\ call = "intent" /\ tool.mode # "intent" => more /\ then = "observe"
      /\ more /\ then = "observe" => call = "intent"
      /\ more /\ then = "apply" => call = "dispatch"
  <2>1. n + 1 \in 1 .. Len(Program[tool.mode]) /\ tool.mode \in Modes
    BY <1>1, <1>2, Zenon
  <2> QED
    BY ONLY <2>1, ProgramOrder
<1>4. n + 1 \in 0 .. Len(p) /\ (more <=> n + 1 < Len(p))
  <2> HIDE DEF p
  <2> QED
    BY <1>1, <1>2
<1>5. /\ Left(p, n + 1) # <<>> => more /\ Head(Left(p, n + 1)) = then
      /\ more => Left(p, n + 1) # <<>>
  <2> HIDE DEF p
  <2>1. Left(p, n + 1) # <<>> => more /\ Head(Left(p, n + 1)) = then
    BY <1>1, <1>4, LeftNext, Zenon
  <2>2. Left(p, n + 1) \in Seq(Calls) /\ Len(Left(p, n + 1)) = Len(p) - (n + 1)
    BY <1>1, <1>4, LeftType, Zenon
  <2>3. more => Len(Left(p, n + 1)) # 0
    BY <1>1, <1>2, <1>4, <2>2
  <2>4. more => Left(p, n + 1) # <<>>
    BY <2>3, Zenon
  <2> QED
    BY <2>1, <2>4, Zenon
<1> HIDE DEF more, then
<1> QED
  BY <1>1, <1>2, <1>3, <1>4, <1>5, Zenon

\* Callers keep their plans.
LEMMA PlansGrow ==
    ASSUME [Next]_vars PROVE plans \subseteq plans'
<1>1. ASSUME NEW sc, NEW p, NEW now, Plan(sc, p, now)
      PROVE  plans \subseteq plans'
  BY <1>1, Zenon DEF Plan
<1>2. ASSUME NEW i, NEW o, NEW applier, NEW now, NEW confirms,
             Verify(i, o, applier, now, confirms)
      PROVE  UNCHANGED plans
  BY <1>2, Zenon DEF Verify
<1>3. ASSUME Boot \/ Crash \/ Continue PROVE UNCHANGED plans
  BY <1>3, Zenon DEF Boot, Open, OpenReadOnly, InstallInitialPolicy,
     AdvanceEpoch, Crash, Continue, SweepNext, CommitOutcome, IssueNext
<1>4. ASSUME Evidence \/ Fencing PROVE UNCHANGED plans
  BY <1>4, Zenon DEF Evidence, PutPolicy, CommitIntent, RecordObservation,
     Fencing, PutFence, ClearFence
<1>5. ASSUME NEW p, Dispatch(p) PROVE UNCHANGED plans
  BY <1>5, Zenon DEF Dispatch
<1>6. ASSUME NEW i, NEW e, NEW target, Complete(i, e, target)
      PROVE  UNCHANGED plans
  BY <1>6, Zenon DEF Complete
<1> QED
  BY <1>1, <1>2, <1>3, <1>4, <1>5, <1>6, Zenon DEF Next, Actions, vars

\* A call of a running process is one the engine takes.
LEMMA CallRefines ==
    ASSUME IInv, ProgramInv, Step
    PROVE  Evidence \/ Actions \/ Fencing \/ UNCHANGED vars
<1> DEFINE Taken == Evidence \/ Actions \/ Fencing \/ UNCHANGED vars
<1>1. ASSUME NEW step, Doing(step)
      PROVE  RunningInv /\ tool.scope \in Scopes /\ live_epoch \in Epochs
             /\ Coming(step) /\ tool.plan \in plans \cup {None}
  <2>1. RunningInv /\ Coming(step) /\ phase = "up"
    BY <1>1, Running, Zenon DEF Doing, Coming, Serving
  <2>2. tool.scope \in Scopes
    BY <2>1, ProcessFields, Zenon DEF RunningInv
  <2>3. live_epoch \in Epochs
    BY <2>1, Zenon DEF IInv, TypeInv, HandlerOK, live_epoch
  <2> QED
    BY <2>1, <2>2, <2>3, Zenon DEF RunningInv
<1>2. ASSUME NEW next, Nothing(next) PROVE Taken
  BY <1>2, Zenon DEF Nothing
<1>3. ASSUME NEW p \in Policies, PolicyStep(p) PROVE Taken
  BY <1>2, <1>3, Zenon DEF PolicyStep, Refused, Evidence
<1>4. ASSUME NEW doc \in Intent, IntentStep(doc) PROVE Taken
  <2>1. tool.scope \in Scopes
    BY <1>1, <1>4, Zenon DEF IntentStep
  <2> QED
    BY <1>2, <1>4, <2>1, Zenon DEF IntentStep, Refused, Evidence
<1>5. ASSUME NEW id \in ObservationIds, NEW r \in Reporters,
             NEW g \in Generations, NEW b \in Bodies, NEW now \in Times,
             ObserveStep(id, r, g, b, now)
      PROVE  Taken
  <2>1. tool.scope \in Scopes
    BY <1>1, <1>5, Zenon DEF ObserveStep
  <2>2. \/ RecordObservation(tool.scope, id, r, g, b, now)
        \/ Refused
    BY <1>5, Zenon DEF ObserveStep
  <2> QED
    BY <1>2, <2>1, <2>2, Zenon DEF Refused, Evidence
<1>6. ASSUME NEW now \in Times, PlanStep(now) PROVE Taken
  <2>1. tool.scope \in Scopes
    BY <1>1, <1>6, Zenon DEF PlanStep
  <2>2. Plan(tool.scope, policy, now) \/ Nothing(Done)
    BY <1>6, Zenon DEF PlanStep
  <2>3. Plan(tool.scope, policy, now) => policy \in Policies
    BY Zenon DEF Plan, IInv, TypeInv, TypeOK
  <2> QED
    BY <1>2, <2>1, <2>2, <2>3, Zenon DEF Actions
<1>7. ASSUME DispatchStep PROVE Taken
  <2>1. tool.plan \in plans \cup {None}
    BY <1>1, <1>7, Zenon DEF DispatchStep
  <2>2. \/ tool.plan # None /\ Dispatch(tool.plan)
        \/ Refused
        \/ Nothing([tool EXCEPT !.todo = <<>>])
    BY <1>7, Zenon DEF DispatchStep
  <2> QED
    BY <1>2, <2>1, <2>2, Zenon DEF Refused, Actions
<1>8. ASSUME ApplyStep PROVE Taken
  <2>1. live_epoch \in Epochs /\ Coming("apply") /\ RunningInv
    BY <1>1, <1>8, Zenon DEF ApplyStep
  <2>2. Complete(tool.issued, live_epoch, "Applied") /\ op.issue = {}
    BY <1>8, Zenon DEF ApplyStep, Doing, Serving, Idle
  <2>3. tool.issued \in AttemptIds
    BY <2>1, <2>2, Zenon DEF RunningInv
  <2>4. "Applied" \in AttemptState
    BY Zenon DEF AttemptState, InFlight
  <2> QED
    BY <2>1, <2>2, <2>3, <2>4, Zenon DEF Actions
<1>9. ASSUME CompleteStep PROVE Taken
  <2>1. live_epoch \in Epochs
    BY <1>1, <1>9, Zenon DEF CompleteStep
  <2>2. \/ \E i \in AttemptIds, target \in AttemptState :
              Complete(i, live_epoch, target)
        \/ Refused
    BY <1>9, Zenon DEF CompleteStep
  <2> QED
    BY <1>2, <2>1, <2>2, Zenon DEF Refused, Actions
<1>10. ASSUME VerifyStep PROVE Taken
  <2>1. \/ \E i \in Held(attempts), applier \in Reporters, now \in Times,
             confirms \in BOOLEAN :
              \E o \in Retained(attempts[i].key.scope) :
                 Verify(i, o, applier, now, confirms)
        \/ Refused
    BY <1>10, Zenon DEF VerifyStep
  <2> QED
    BY <1>2, <2>1, Zenon DEF Refused, Actions
<1>11. ASSUME NEW s \in Subjects \cup {AnySubject}, NEW e \in Epochs,
              FenceStep(s, e)
       PROVE  Taken
  <2> DEFINE f == [scope |-> tool.scope, subject |-> s, fenced_below |-> e]
  <2>1. f \in Fence /\ FenceOf(e) \in FenceIds
    <3>1. tool.scope \in Scopes
      BY <1>1, <1>11, Zenon DEF FenceStep
    <3> QED
      BY <3>1, ToolsAssumption, Zenon DEF Fence
  <2>2. PutFence(FenceOf(e), f) \/ Refused
    BY <1>11, Zenon DEF FenceStep
  <2> HIDE DEF f
  <2> QED
    BY <1>2, <2>1, <2>2, Zenon DEF Refused, Fencing
<1> QED
  BY <1>3, <1>4, <1>5, <1>6, <1>7, <1>8, <1>9, <1>10, <1>11, Zenon DEF Step

\* So is everything else a process does.
LEMMA ToolsRefines ==
    ASSUME IInv, ProgramInv, [ToolsNext]_allVars PROVE [Next]_vars
<1>1. CASE UNCHANGED allVars
  BY <1>1, Zenon DEF allVars
<1>2. ASSUME NEW sc, Start(sc) \/ StartReading(sc) PROVE Next
  BY <1>2, Zenon DEF Start, StartReading, Next, Boot
<1>3. ASSUME NEW mode, Begin(mode) PROVE UNCHANGED vars
  BY <1>3, Zenon DEF Begin
<1>4. CASE Owes
  BY <1>4, Zenon DEF Owes, Next, Boot
<1>5. CASE LibraryCall
  BY <1>5, Zenon DEF LibraryCall, Next
<1>6. CASE Exit \/ Kill
  BY <1>6, Zenon DEF Exit, Kill, Next
<1> QED
  BY <1>1, <1>2, <1>3, <1>4, <1>5, <1>6, CallRefines, Zenon
     DEF ToolsNext, Next

-----------------------------------------------------------------------------
(* How calls move a process on. *)

LEMMA AppendStaysUp ==
    ASSUME NEW r, NEW owed, phase = "up", AppendAndApply(r, phase, owed)
    PROVE  phase' = "up"
BY Zenon DEF AppendAndApply

\* A call leaves the engine up, or open for reading.
LEMMA RequestPhase ==
    ASSUME Evidence \/ Actions \/ Fencing
    PROVE  phase' = phase /\ phase \in {"up", "reading"}
<1>1. CASE Evidence
  BY <1>1, AppendStaysUp, Zenon DEF Evidence, PutPolicy, CommitIntent,
     RecordObservation, Serving
<1>2. CASE Fencing
  BY <1>2, AppendStaysUp, Zenon DEF Fencing, PutFence, ClearFence, Serving
<1>3. CASE Actions
  <2>1. ASSUME NEW sc, NEW p, NEW now, Plan(sc, p, now)
        PROVE  phase' = phase /\ phase \in {"up", "reading"}
    BY <2>1, Zenon DEF Plan, Serving
  <2>2. ASSUME NEW p, Dispatch(p) PROVE phase' = phase /\ phase = "up"
    BY <2>2, Zenon DEF Dispatch, Serving
  <2>3. ASSUME NEW i, NEW e, NEW target, Complete(i, e, target)
        PROVE  phase' = phase /\ phase = "up"
    BY <2>3, AppendStaysUp, Zenon DEF Complete, Serving
  <2>4. ASSUME NEW i, NEW o, NEW applier, NEW now, NEW confirms,
               Verify(i, o, applier, now, confirms)
        PROVE  phase' = phase /\ phase = "up"
    BY <2>4, AppendStaysUp, Zenon DEF Verify, Serving
  <2> QED
    BY <1>3, <2>1, <2>2, <2>3, <2>4, Zenon DEF Actions
<1> QED
  BY <1>1, <1>2, <1>3, Zenon

\* t is the process after its next call, or stopped.
Onward(t) ==
    /\ t \in Process
    /\ t.mode = tool.mode /\ t.scope = tool.scope
    /\ t.todo \in {Tail(tool.todo), <<>>}
    /\ \/ t.failed = tool.failed
       \/ t.failed = TRUE /\ t.todo = <<>>

LEMMA DoneIs ==
    ASSUME RunningInv, tool.todo # <<>>
    PROVE  /\ Onward(Done)
           /\ Done.todo = Tail(tool.todo) /\ Done.plan = tool.plan
           /\ Done.issued = tool.issued /\ Done.docs = tool.docs
           /\ Done.failed = tool.failed
<1>1. tool \in Process
  BY Zenon DEF RunningInv
<1>2. Tail(tool.todo) \in Seq(Calls)
  BY <1>1, ProcessFields
<1> DEFINE rest == Tail(tool.todo)
           t == [tool EXCEPT !.todo = rest]
<1>3. Done = t
  BY Zenon DEF Done
<1> HIDE DEF rest
<1>4. /\ t \in Process /\ t.mode = tool.mode /\ t.scope = tool.scope
      /\ t.todo = rest /\ t.plan = tool.plan /\ t.issued = tool.issued
      /\ t.docs = tool.docs /\ t.failed = tool.failed
  BY <1>1, <1>2, Zenon DEF Process, rest
<1> HIDE DEF t
<1> QED
  BY <1>3, <1>4, Zenon DEF Onward, rest

LEMMA StoppedIs ==
    ASSUME NEW t \in Process
    PROVE  LET u == [t EXCEPT !.todo = <<>>, !.failed = TRUE]
           IN  /\ u \in Process /\ u.mode = t.mode /\ u.scope = t.scope
               /\ u.todo = <<>> /\ u.plan = t.plan /\ u.issued = t.issued
               /\ u.docs = t.docs /\ u.failed = TRUE
<1>1. <<>> \in Seq(Calls)
  OBVIOUS
<1> QED
  BY <1>1, Zenon DEF Process

\* The process after a call that made it `next'.
LEMMA MovesOn ==
    ASSUME NEW next, Onward(next), Goes(next) \/ Nothing(next)
    PROVE  /\ Onward(tool') /\ acknowledged' = acknowledged
           /\ tool'.plan = next.plan /\ tool'.issued = next.issued
           /\ tool'.docs = next.docs
           /\ \/ tool' = next
              \/ tool'.todo = <<>> /\ tool'.failed = TRUE
           /\ Goes(next) /\ wedged' => tool.mode = "library" \/ tool'.failed = TRUE
<1>1. CASE tool' = next /\ acknowledged' = acknowledged
           /\ ~(Goes(next) /\ wedged' /\ tool.mode # "library")
  BY <1>1, Zenon
<1>2. CASE /\ tool' = [next EXCEPT !.todo = <<>>, !.failed = TRUE]
           /\ acknowledged' = acknowledged
  <2>1. next \in Process /\ next.mode = tool.mode /\ next.scope = tool.scope
    BY Zenon DEF Onward
  <2>2. /\ tool' \in Process /\ tool'.mode = next.mode
        /\ tool'.scope = next.scope /\ tool'.todo = <<>>
        /\ tool'.plan = next.plan /\ tool'.issued = next.issued
        /\ tool'.docs = next.docs /\ tool'.failed = TRUE
    BY <1>2, <2>1, StoppedIs, Zenon
  <2> QED
    BY <1>2, <2>1, <2>2, Zenon DEF Onward
<1> QED
  BY <1>1, <1>2, Zenon DEF Goes, Nothing

LEMMA RefusedStops ==
    ASSUME RunningInv, tool.todo # <<>>, Refused
    PROVE  /\ Onward(tool') /\ acknowledged' = acknowledged
           /\ tool'.plan = tool.plan
           /\ tool'.docs = tool.docs /\ tool'.todo = <<>> /\ tool'.failed = TRUE
           /\ UNCHANGED vars
<1>1. tool \in Process
  BY Zenon DEF RunningInv
<1>2. /\ tool' = [tool EXCEPT !.todo = <<>>, !.failed = TRUE]
      /\ acknowledged' = acknowledged /\ UNCHANGED vars
  BY Zenon DEF Refused, Nothing
<1>3. /\ tool' \in Process /\ tool'.mode = tool.mode
      /\ tool'.scope = tool.scope /\ tool'.todo = <<>>
      /\ tool'.plan = tool.plan /\ tool'.docs = tool.docs /\ tool'.failed = TRUE
  BY <1>1, <1>2, StoppedIs, Zenon
<1> QED
  BY <1>2, <1>3, Zenon DEF Onward

LEMMA DoneWithIs ==
    ASSUME RunningInv, tool.todo # <<>>, NEW kind, NEW doc,
           [kind |-> kind, scope |-> tool.scope, doc |-> doc] \in Committed
    PROVE  /\ Onward(DoneWith(kind, doc))
           /\ DoneWith(kind, doc).todo = Tail(tool.todo)
           /\ DoneWith(kind, doc).plan = tool.plan
           /\ DoneWith(kind, doc).docs =
                tool.docs \cup {[kind |-> kind, scope |-> tool.scope,
                                 doc |-> doc]}
           /\ DoneWith(kind, doc).failed = tool.failed
<1> DEFINE c == [kind |-> kind, scope |-> tool.scope, doc |-> doc]
           docs == Done.docs \cup {c}
           t == [Done EXCEPT !.docs = docs]
<1>1. /\ Onward(Done) /\ Done.todo = Tail(tool.todo) /\ Done.plan = tool.plan
      /\ Done.failed = tool.failed /\ Done.docs = tool.docs
  BY DoneIs, Zenon
<1>2. docs \subseteq Committed
  <2> HIDE DEF c
  <2>1. Done.docs \subseteq Committed
    BY <1>1, ProcessFields, Zenon DEF Onward
  <2> QED
    BY <2>1, Zenon DEF c
<1>3. DoneWith(kind, doc) = t /\ docs = tool.docs \cup {c}
  BY <1>1, Zenon DEF DoneWith
<1> HIDE DEF docs
<1>4. /\ t \in Process /\ t.mode = Done.mode /\ t.scope = Done.scope
      /\ t.todo = Done.todo /\ t.plan = Done.plan /\ t.docs = docs
      /\ t.failed = Done.failed
  BY <1>1, <1>2, Zenon DEF Process, Onward
<1> HIDE DEF t
<1> QED
  BY <1>1, <1>3, <1>4, Zenon DEF Onward

\* What every call does to the process that makes it.
CallMoves ==
    /\ Onward(tool') /\ acknowledged' = acknowledged
    /\ tool'.plan \in plans' \cup {None}
    /\ tool'.todo # <<>> /\ Head(tool.todo) = "dispatch" =>
          op'.issue # {} /\ tool'.issued = next_attempt'
    /\ Head(tool.todo) \notin {"policy", "intent", "observe"} =>
          tool'.docs = tool.docs

LEMMA Making ==
    ASSUME ProgramInv, NEW step, Doing(step)
    PROVE  /\ RunningInv /\ tool.todo # <<>> /\ Head(tool.todo) = step
           /\ phase = "up" /\ tool.scope \in Scopes
           /\ tool.plan \in plans \cup {None}
<1>1. RunningInv /\ tool.todo # <<>> /\ Head(tool.todo) = step /\ phase = "up"
  BY Running, Zenon DEF Doing, Serving
<1> QED
  BY <1>1, ProcessFields, Zenon DEF RunningInv

LEMMA CallsMove ==
    ASSUME IInv, ProgramInv, Step PROVE CallMoves
<1>0. plans \subseteq plans'
  BY CallRefines, PlansGrow, Zenon DEF Next
<1>1. ASSUME NEW step, Doing(step), step # "dispatch", Refused
      PROVE  CallMoves
  <2>1. /\ RunningInv /\ tool.todo # <<>> /\ Head(tool.todo) = step
        /\ tool.plan \in plans \cup {None}
    BY <1>1, Making, Zenon
  <2>2. /\ Onward(tool') /\ acknowledged' = acknowledged
        /\ tool'.plan = tool.plan
        /\ tool'.docs = tool.docs
    BY <1>1, <2>1, RefusedStops, Zenon
  <2> QED
    BY <1>0, <1>1, <2>1, <2>2, Zenon DEF CallMoves
<1>2. ASSUME NEW step, Doing(step), step # "dispatch",
             Goes(Done) \/ Nothing(Done)
      PROVE  CallMoves
  <2>1. /\ RunningInv /\ tool.todo # <<>> /\ Head(tool.todo) = step
        /\ tool.plan \in plans \cup {None}
    BY <1>2, Making, Zenon
  <2>2. Onward(Done) /\ Done.plan = tool.plan /\ Done.docs = tool.docs
    BY <2>1, DoneIs, Zenon
  <2>3. /\ Onward(tool') /\ acknowledged' = acknowledged
        /\ tool'.plan = tool.plan
        /\ tool'.docs = tool.docs
    BY <1>2, <2>2, MovesOn, Zenon
  <2> QED
    BY <1>0, <1>2, <2>1, <2>3, Zenon DEF CallMoves
<1>3. ASSUME NEW step, Doing(step), step \in {"policy", "intent", "observe"},
             NEW kind, NEW doc,
             [kind |-> kind, scope |-> tool.scope, doc |-> doc] \in Committed,
             Goes(DoneWith(kind, doc)) \/ Nothing(DoneWith(kind, doc))
      PROVE  CallMoves
  <2>1. /\ RunningInv /\ tool.todo # <<>> /\ Head(tool.todo) = step
        /\ tool.plan \in plans \cup {None}
    BY <1>3, Making, Zenon
  <2>2. /\ Onward(DoneWith(kind, doc))
        /\ DoneWith(kind, doc).plan = tool.plan
    BY <1>3, <2>1, DoneWithIs, Zenon
  <2>3. Onward(tool') /\ acknowledged' = acknowledged /\ tool'.plan = tool.plan
    BY <1>3, <2>2, MovesOn, Zenon
  <2>4. Head(tool.todo) # "dispatch"
    BY <1>3, <2>1, Zenon
  <2> QED
    BY <1>0, <1>3, <2>1, <2>3, <2>4, Zenon DEF CallMoves
<1>4. ASSUME NEW p \in Policies, PolicyStep(p) PROVE CallMoves
  <2>1. Doing("policy") /\ tool.scope \in Scopes
    BY <1>4, Making, Zenon DEF PolicyStep
  <2>2. [kind |-> "policy", scope |-> tool.scope, doc |-> p] \in Committed
    BY <2>1, Zenon DEF Committed
  <2> QED
    BY <1>1, <1>3, <1>4, <2>1, <2>2, Zenon DEF PolicyStep
<1>5. ASSUME NEW doc \in Intent, IntentStep(doc) PROVE CallMoves
  <2>1. Doing("intent") /\ tool.scope \in Scopes
    BY <1>5, Making, Zenon DEF IntentStep
  <2>2. [kind |-> "intent", scope |-> tool.scope, doc |-> doc] \in Committed
    BY <2>1, Zenon DEF Committed
  <2> QED
    BY <1>1, <1>3, <1>5, <2>1, <2>2, Zenon DEF IntentStep
<1>6. ASSUME NEW id \in ObservationIds, NEW r \in Reporters,
             NEW g \in Generations, NEW b \in Bodies, NEW now \in Times,
             ObserveStep(id, r, g, b, now)
      PROVE  CallMoves
  <2> DEFINE doc == [id |-> id, reporter |-> r, generation |-> g]
  <2>1. Doing("observe") /\ (Goes(DoneWith("observation", doc)) \/ Refused)
    BY <1>6, Zenon DEF ObserveStep
  <2>2. tool.scope \in Scopes /\ doc \in Observed
    BY <2>1, Making, Zenon DEF Observed
  <2> HIDE DEF doc
  <2>3. [kind |-> "observation", scope |-> tool.scope, doc |-> doc]
           \in Committed
    BY <2>2, Zenon DEF Committed
  <2> QED
    BY <1>1, <1>3, <2>1, <2>3, Zenon
<1>7. ASSUME NEW now \in Times, PlanStep(now) PROVE CallMoves
  <2>1. Doing("plan")
    BY <1>7, Zenon DEF PlanStep
  <2>2. CASE Nothing(Done)
    BY <1>2, <2>1, <2>2, Zenon
  <2>3. CASE ~Nothing(Done)
    <3>1. /\ RunningInv /\ tool.todo # <<>> /\ Head(tool.todo) = "plan"
      BY <2>1, Making, Zenon
    <3>2. PICK q : /\ Plan(tool.scope, policy, now)
                   /\ Goes([Done EXCEPT !.plan = q])
                   /\ q = CHOOSE p \in plans' :
                         /\ p.scope = tool.scope /\ p.epoch = live_epoch
                         /\ p.policy = policy /\ p.intent = intents[tool.scope]
                         /\ p.observation = Current(tool.scope)
                         /\ p.subjects = PlanSubjects(tool.scope, policy, now)
      BY <1>7, <2>3, Zenon DEF PlanStep
    <3> DEFINE x == [scope |-> tool.scope, epoch |-> live_epoch,
                     policy |-> policy, intent |-> intents[tool.scope],
                     observation |-> Current(tool.scope),
                     subjects |-> PlanSubjects(tool.scope, policy, now)]
    <3>3. x \in plans'
      BY <3>2, Zenon DEF Plan
    <3>4. /\ x.scope = tool.scope /\ x.epoch = live_epoch
          /\ x.policy = policy /\ x.intent = intents[tool.scope]
          /\ x.observation = Current(tool.scope)
          /\ x.subjects = PlanSubjects(tool.scope, policy, now)
      BY Zenon
    <3> HIDE DEF x
    <3>5. q \in plans'
      BY <3>2, <3>3, <3>4, Zenon
    <3>6. plans' \subseteq PlanRecord
      <4>1. IInv'
        BY CallRefines, IInvStep, Zenon DEF Next
      <4> QED
        BY <4>1, Zenon DEF IInv, TypeInv, TypeOK
    <3> DEFINE t == [Done EXCEPT !.plan = q]
    <3>7. /\ Onward(Done) /\ Done.docs = tool.docs
      BY <3>1, DoneIs, Zenon
    <3>8. /\ t \in Process /\ t.mode = Done.mode /\ t.scope = Done.scope
          /\ t.todo = Done.todo /\ t.plan = q /\ t.docs = Done.docs
          /\ t.failed = Done.failed
      BY <3>5, <3>6, <3>7, Zenon DEF Process, Onward
    <3>9. Goes(t)
      BY <3>2, Zenon
    <3> HIDE DEF t
    <3>10. Onward(t) /\ t.docs = tool.docs
      BY <3>7, <3>8, Zenon DEF Onward
    <3>11. /\ Onward(tool') /\ acknowledged' = acknowledged /\ tool'.plan = q
           /\ tool'.docs = tool.docs
      BY <3>8, <3>9, <3>10, MovesOn, Zenon
    <3> QED
      BY <3>1, <3>5, <3>11, Zenon DEF CallMoves
  <2> QED
    BY <2>2, <2>3, Zenon
<1>8. ASSUME DispatchStep PROVE CallMoves
  <2>1. /\ RunningInv /\ tool.todo # <<>> /\ Head(tool.todo) = "dispatch"
        /\ tool.plan \in plans \cup {None}
    BY <1>8, Making, Zenon DEF DispatchStep
  <2>2. CASE Refused
    <3>1. /\ Onward(tool') /\ acknowledged' = acknowledged
          /\ tool'.plan = tool.plan
          /\ tool'.docs = tool.docs /\ tool'.todo = <<>>
      BY <2>1, <2>2, RefusedStops, Zenon
    <3> QED
      BY <1>0, <2>1, <3>1, Zenon DEF CallMoves
  <2>3. CASE Nothing([tool EXCEPT !.todo = <<>>])
    <3>1. tool \in Process /\ <<>> \in Seq(Calls)
      BY <2>1 DEF RunningInv
    <3> DEFINE t == [tool EXCEPT !.todo = <<>>]
    <3>2. /\ t \in Process /\ t.mode = tool.mode /\ t.scope = tool.scope
          /\ t.todo = <<>> /\ t.plan = tool.plan /\ t.docs = tool.docs
          /\ t.failed = tool.failed
      BY <3>1, Zenon DEF Process
    <3>3. Nothing(t)
      BY <2>3, Zenon
    <3> HIDE DEF t
    <3>4. Onward(t)
      BY <3>2, Zenon DEF Onward
    <3>5. /\ Onward(tool') /\ acknowledged' = acknowledged
          /\ tool'.plan = tool.plan
          /\ tool'.docs = tool.docs /\ tool'.todo = <<>>
      BY <3>2, <3>3, <3>4, MovesOn, Zenon
    <3> QED
      BY <1>0, <2>1, <3>5, Zenon DEF CallMoves
  <2>4. CASE /\ Dispatch(tool.plan)
             /\ Goes([Done EXCEPT !.issued = next_attempt,
                        !.todo = IF ToIssue(tool.plan) = {} THEN <<>> ELSE @])
    <3> DEFINE rest == IF ToIssue(tool.plan) = {} THEN <<>> ELSE Done.todo
               t == [Done EXCEPT !.issued = next_attempt, !.todo = rest]
    <3>1. Goes(t)
      BY <2>4, Zenon
    <3>2. /\ Onward(Done) /\ Done.docs = tool.docs /\ Done.plan = tool.plan
          /\ Done.todo = Tail(tool.todo)
      BY <2>1, DoneIs, Zenon
    <3>3. next_attempt \in Nat /\ <<>> \in Seq(Calls)
      BY IdsAreNumbers DEF IInv, TypeInv
    <3>4. Done \in Process /\ rest \in Seq(Calls) /\ rest \in {Done.todo, <<>>}
      BY <3>2, <3>3, ProcessFields, Zenon DEF Onward
    <3>5. rest # <<>> => ToIssue(tool.plan) # {}
      BY Zenon
    <3> HIDE DEF rest
    <3>6. /\ t \in Process /\ t.mode = Done.mode /\ t.scope = Done.scope
          /\ t.todo = rest /\ t.plan = Done.plan /\ t.docs = Done.docs
          /\ t.failed = Done.failed /\ t.issued = next_attempt
      BY <3>3, <3>4, Zenon DEF Process
    <3> HIDE DEF t
    <3>7. Onward(t)
      BY <3>2, <3>4, <3>6, Zenon DEF Onward
    <3>8. /\ Onward(tool') /\ acknowledged' = acknowledged
          /\ tool'.plan = tool.plan
          /\ tool'.docs = tool.docs /\ tool'.issued = next_attempt
          /\ tool'.todo # <<>> => rest # <<>>
      BY <3>1, <3>2, <3>6, <3>7, MovesOn, Zenon
    <3>9. op'.issue = ToIssue(tool.plan) /\ next_attempt' = next_attempt
      BY <2>4, Zenon DEF Dispatch, Idle, tables
    <3> QED
      BY <1>0, <2>1, <3>5, <3>8, <3>9, Zenon DEF CallMoves
  <2> QED
    BY <1>8, <2>2, <2>3, <2>4, Zenon DEF DispatchStep
<1>9. ASSUME ApplyStep PROVE CallMoves
  BY <1>2, <1>9, Zenon DEF ApplyStep
<1>10. ASSUME CompleteStep PROVE CallMoves
  BY <1>1, <1>2, <1>10, Zenon DEF CompleteStep
<1>11. ASSUME VerifyStep PROVE CallMoves
  BY <1>1, <1>2, <1>11, Zenon DEF VerifyStep
<1>12. ASSUME NEW s, NEW e, FenceStep(s, e) PROVE CallMoves
  BY <1>1, <1>2, <1>12, Zenon DEF FenceStep
<1> QED
  BY <1>4, <1>5, <1>6, <1>7, <1>8, <1>9, <1>10, <1>11, <1>12, Zenon DEF Step

-----------------------------------------------------------------------------
(* A process stays in its program. *)

LEMMA IdleSweepsNothing == [Idle EXCEPT !.sweep = {}] = Idle
BY DEF Idle

LEMMA IdleFields == Idle.issue = {} /\ Idle.sweep = {} /\ Idle.outcome = None
BY Zenon DEF Idle

\* An append succeeds, or the journal is poisoned and a boot has failed.
LEMMA AppendEither ==
    ASSUME NEW r, NEW ph, NEW owed, AppendAndApply(r, ph, owed)
    PROVE  \/ ~wedged' /\ ApplyPayload(r) /\ phase' = ph /\ op' = owed
           \/ /\ wedged' /\ UNCHANGED tables /\ op' = Idle
              /\ phase' = IF phase = "up" THEN "up" ELSE "down"
BY Zenon DEF AppendAndApply

\* What booting, and finishing what a handler owes, does to the engine.
LEMMA OwedPhase ==
    ASSUME TypeInv, InstallInitialPolicy \/ AdvanceEpoch \/ Continue
    PROVE  /\ phase \in {"opening", "fencing", "up"}
           /\ phase' \in {"down", "opening", "fencing", "up"}
           /\ phase' \in {"opening", "fencing"} =>
                phase \in {"opening", "fencing"}
           /\ phase = "up" => op # Idle
           /\ phase # "up" /\ wedged' => phase' = "down"
           /\ phase # "up" /\ phase' = "up" => op' = Idle
<1>0. HandlerOK /\ TypeOK
  BY Zenon DEF TypeInv
<1>1. CASE InstallInitialPolicy
  BY <1>1, AppendEither, Zenon DEF InstallInitialPolicy
<1>2. CASE AdvanceEpoch
  <2> DEFINE ph == IF Candidates = {} THEN "up" ELSE "fencing"
  <2>1. /\ phase = "opening"
        /\ \/ ~wedged' /\ phase' = ph
              /\ op' = [Idle EXCEPT !.sweep = Candidates]
           \/ wedged' /\ phase' = "down"
    BY <1>2, AppendEither, Zenon DEF AdvanceEpoch
  <2>2. ph = "up" => [Idle EXCEPT !.sweep = Candidates] = Idle
    BY IdleSweepsNothing, Zenon
  <2>3. ph \in {"up", "fencing"}
    BY Zenon
  <2> HIDE DEF ph
  <2> QED
    BY <2>1, <2>2, <2>3, Zenon
<1>3. ASSUME op # Idle PROVE phase \in {"fencing", "up"}
  BY <1>0, <1>3, Zenon DEF HandlerOK, TypeOK
<1>4. CASE SweepNext
  <2>1. PICK i \in op.sweep : \E r, owed : AppendAndApply(r, phase, owed)
    BY <1>4, Zenon DEF SweepNext
  <2>2. op # Idle
    BY IdleFields, Zenon
  <2>3. phase \in {"fencing", "up"}
    BY <1>3, <2>2, Zenon
  <2> QED
    BY <2>1, <2>2, <2>3, AppendEither, Zenon
<1>5. CASE CommitOutcome
  <2> DEFINE owed == [op EXCEPT !.outcome = None]
             r == [type |-> "OutcomeCommit", outcome |-> op.outcome]
             ph == IF owed = Idle THEN "up" ELSE phase
  <2>1. op.outcome # None /\ AppendAndApply(r, ph, owed)
    BY <1>5, Zenon DEF CommitOutcome
  <2>2. op # Idle
    BY <2>1, IdleFields, Zenon
  <2>3. phase \in {"fencing", "up"}
    BY <1>3, <2>2, Zenon
  <2>4. ph = phase \/ (ph = "up" /\ owed = Idle)
    BY Zenon
  <2> HIDE DEF owed, r, ph
  <2> QED
    BY <2>1, <2>2, <2>3, <2>4, AppendEither, Zenon
<1>6. CASE IssueNext
  <2>1. PICK a \in op.issue : \E r, owed : AppendAndApply(r, phase, owed)
    BY <1>6, Zenon DEF IssueNext
  <2>2. op # Idle
    BY IdleFields, Zenon
  <2>3. phase = "up"
    BY <1>0, Zenon DEF HandlerOK
  <2> QED
    BY <2>1, <2>2, <2>3, AppendEither, Zenon
<1> QED
  BY <1>1, <1>2, <1>4, <1>5, <1>6, Zenon DEF Continue

\* The attempt a process is to report on is issued before anything else.
LEMMA IssuedFirst ==
    ASSUME IInv, InstallInitialPolicy \/ AdvanceEpoch \/ Continue,
           op.issue # {}
    PROVE  next_attempt \in AttemptIds
<1>1. phase = "up" /\ op.sweep = {} /\ op.outcome = None
  BY Zenon DEF IInv, TypeInv, HandlerOK
<1> QED
  BY <1>1, Zenon DEF Continue, InstallInitialPolicy, AdvanceEpoch, SweepNext,
     CommitOutcome, IssueNext

\* The parts of RunningInv that are about the process alone.
LEMMA SameProcess ==
    ASSUME RunningInv, UNCHANGED tool, plans \subseteq plans',
           phase' \in {"opening", "fencing"} => phase \in {"opening", "fencing"},
           phase' = "reading" => phase = "reading",
           tool.mode = "opening" /\ phase' = "up" => op' = Idle,
           Coming("apply") =>
             \/ tool.issued \in AttemptIds
             \/ op'.issue # {} /\ tool.issued = next_attempt'
    PROVE  RunningInv'
<1>1. /\ tool' \in Process /\ tool'.plan \in plans' \cup {None}
      /\ phase' \in {"opening", "fencing"} => tool'.mode = "opening"
      /\ phase' = "reading" => tool'.mode = "library"
  BY Zenon DEF RunningInv
<1>2. tool'.mode = "opening" =>
        /\ tool'.todo = <<>> /\ tool'.docs = {} /\ tool'.failed = FALSE
        /\ phase' = "up" => op' = Idle
  BY Zenon DEF RunningInv
<1>3. tool'.mode # "opening" =>
        \E n \in 0 .. Len(Program[tool'.mode]) :
           tool'.todo = Left(Program[tool'.mode], n)
  BY Zenon DEF RunningInv
<1>4. Coming("apply")' =>
        \/ tool'.issued \in AttemptIds
        \/ op'.issue # {} /\ tool'.issued = next_attempt'
  BY Zenon DEF Coming
<1> QED
  BY <1>1, <1>2, <1>3, <1>4, Zenon DEF RunningInv

\* A program that is stopped.
LEMMA StoppedProcess ==
    ASSUME NEW t \in Process, t.mode \in Modes, t.todo = <<>>
    PROVE  \E n \in 0 .. Len(Program[t.mode]) :
              t.todo = Left(Program[t.mode], n)
<1> DEFINE p == Program[t.mode]
<1>1. p \in Seq(Calls)
  BY ProgramType, Zenon
<1>2. Len(p) \in 0 .. Len(p)
  <2> HIDE DEF p
  <2> QED
    BY <1>1
<1> QED
  BY <1>1, <1>2, LeftNone, Zenon

LEMMA OpeningIsNoMode == "opening" \notin Modes
BY ModesAre, Zenon
=============================================================================

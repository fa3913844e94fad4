------------------------------- MODULE Engine -------------------------------
(***************************************************************************)
(* The reconciliation engine (src/src/engine.cpp) over the tables of the   *)
(* durable store (src/src/store.cpp).                                      *)
(*                                                                         *)
(* A process opens the store, installs a policy if there is none, advances *)
(* the coordinator epoch and fences what the previous incarnation left in  *)
(* flight; then it serves policies, intents, observations, plans,          *)
(* dispatches, completions, verifications and fences until it dies.        *)
(*                                                                         *)
(* Grain.  Every mutation is one journal record: DurableStore appends,     *)
(* syncs and then applies it (AppendAndApply).  A handler that appends     *)
(* several records keeps the engine mutex between them; `op' holds what it *)
(* still has to append, so the process can die, or an append can fail,     *)
(* between any two records of one handler.  A failed append poisons the    *)
(* journal (write_failed_): every later append of that process fails, and  *)
(* the failed record may or may not be on disk (`limbo').                  *)
(*                                                                         *)
(* Data.  A digest is represented by the document it is computed from, so  *)
(* two digests are equal exactly when the documents are.  The boot         *)
(* identity is fresh at every open and the epoch is fresh at every writing *)
(* open, so the pair (epoch, boot) the code compares is the epoch here.    *)
(* Classification and the per-subject decision are the constant operator   *)
(* Actionable; their own control is modelled in modules Drift and Plan.    *)
(* Compaction does not change a table; module DurableStore models it.      *)
(***************************************************************************)
EXTENDS Integers, Sequences, FiniteSets

CONSTANTS
    Scopes, Subjects, Reporters, ObservationIds, FenceIds,
    Digests,            \* contents of an intent
    Bodies,             \* contents of an observation
    Policies,           \* the policies callers put or plan under
    InitialPolicy,      \* EngineOptions::initial_policy
    Generations,        \* intent and observation generations callers use
    Times,              \* readings of the host clock, or caller stamps
    Epochs,             \* bound: coordinator epochs explored
    AttemptIds,         \* bound: attempt identities explored
    MaxPlans,           \* bound: plans callers hold
    MaxRetainedObservations, MaxRetainedAttempts, MaxRetainedOutcomes,
    AnySubject,         \* the empty subject of a scope-wide fence
    None,
    Actionable(_, _, _) \* subjects a policy would act on, given an intent's
                        \* and an observation's contents

VARIABLES
    policy, last_epoch, intents, observations, attempts, next_attempt,
    outcomes, fences,   \* DurableState
    phase,              \* down, opening, fencing, up, reading
    op,                 \* records the handler holding the mutex still owes
    wedged,             \* Journal::write_failed_
    limbo,              \* a record whose append failed but reached the disk
    plans               \* plans held by callers

tables == <<policy, last_epoch, intents, observations, attempts,
            next_attempt, outcomes, fences>>
vars == <<tables, phase, op, wedged, limbo, plans>>

-----------------------------------------------------------------------------
(* Documents and records. *)

Intent == [generation : Generations, digest : Digests]

Observation == [id : ObservationIds, reporter : Reporters,
                generation : Generations, body : Bodies,
                received_epoch : Epochs, received_unix_ms : Times]

Key == [scope : Scopes, subject : Subjects,
        intent : Intent, observation : Observation]

InFlight == {"Issued", "Dispatched", "Acknowledged", "Applied"}

IsInconclusive(state) ==
    state \in {"Failed", "Abandoned", "Superseded", "Fenced", "Interrupted"}

IsTerminal(state) ==
    state \in {"Verified", "Failed", "Abandoned", "Superseded", "Fenced",
               "Interrupted"}

AttemptState == InFlight \cup {"Verified", "Failed", "Abandoned",
                               "Superseded", "Fenced", "Interrupted"}

Attempt == [key : Key, policy : Policies, epoch : Epochs,
            state : AttemptState]

Outcome == [attempt : AttemptIds, key : Key, epoch : Epochs,
            terminal_state : AttemptState, verified : BOOLEAN,
            verified_generation : Generations \cup {0},
            ambiguous : BOOLEAN]

Fence == [scope : Scopes, subject : Subjects \cup {AnySubject},
          fenced_below : Epochs]

Record ==
    [type : {"PolicyPut"}, policy : Policies]
      \cup [type : {"EpochAdvance"}, epoch : Epochs]
      \cup [type : {"IntentCommit"}, scope : Scopes, intent : Intent]
      \cup [type : {"ObservationCommit"}, scope : Scopes,
            observation : Observation]
      \cup [type : {"AttemptPut"}, id : AttemptIds, attempt : Attempt]
      \cup [type : {"OutcomeCommit"}, outcome : Outcome]
      \cup [type : {"FencePut"}, id : FenceIds, fence : Fence]
      \cup [type : {"FenceClear"}, id : FenceIds]

\* Identities and generations are counted from one, `None' is no document, a
\* policy acts on subjects only, and the retention limits are numbers.
ASSUME ConstantsAssumption ==
    /\ Epochs \subseteq Nat \ {0}
    /\ AttemptIds \subseteq Nat \ {0}
    /\ Generations \subseteq Nat
    /\ InitialPolicy \in Policies
    /\ \A p \in Policies, d \in Digests, b \in Bodies :
          Actionable(p, d, b) \subseteq Subjects
    /\ MaxRetainedObservations \in Nat
    /\ MaxRetainedAttempts \in Nat
    /\ MaxRetainedOutcomes \in Nat

ASSUME NoneAssumption ==
    /\ None \notin Policies
    /\ None \notin Intent
    /\ None \notin Observation
    /\ None \notin Attempt
    /\ None \notin Outcome
    /\ None \notin Fence
    /\ None \notin Record

-----------------------------------------------------------------------------
(* DurableStore::ApplyPayload and the retention bounds. *)

\* TrimObservations, TrimOutcomes: pop the front until the bound holds.
Trimmed(s, max) ==
    IF Len(s) > max THEN SubSeq(s, Len(s) - max + 1, Len(s)) ELSE s

Held(table) == {i \in AttemptIds : table[i] # None}

\* TrimAttempts: while over the bound, erase the terminal attempt with the
\* smallest identity; attempts in flight are never erased.
TrimAttempts(table) ==
    LET done == {i \in Held(table) : IsTerminal(table[i].state)}
        over == Cardinality(Held(table)) - MaxRetainedAttempts
    IN  [i \in AttemptIds |->
            IF i \in done /\ Cardinality({j \in done : j < i}) < over
            THEN None ELSE table[i]]

ApplyPayload(r) ==
    /\ policy' = IF r.type = "PolicyPut" THEN r.policy ELSE policy
    /\ last_epoch' = IF r.type = "EpochAdvance" /\ r.epoch > last_epoch
                     THEN r.epoch ELSE last_epoch
    /\ intents' = IF r.type = "IntentCommit"
                  THEN [intents EXCEPT ![r.scope] = r.intent] ELSE intents
    /\ observations' =
         IF r.type = "ObservationCommit"
         THEN [observations EXCEPT ![r.scope] =
                 Trimmed(Append(@, r.observation), MaxRetainedObservations)]
         ELSE observations
    /\ attempts' = IF r.type = "AttemptPut"
                   THEN TrimAttempts([attempts EXCEPT ![r.id] = r.attempt])
                   ELSE attempts
    /\ next_attempt' = IF r.type = "AttemptPut" /\ r.id >= next_attempt
                       THEN r.id + 1 ELSE next_attempt
    /\ outcomes' = IF r.type = "OutcomeCommit"
                   THEN Trimmed(Append(outcomes, r.outcome),
                                MaxRetainedOutcomes)
                   ELSE outcomes
    /\ fences' = IF r.type = "FencePut"
                 THEN [fences EXCEPT ![r.id] = r.fence]
                 ELSE IF r.type = "FenceClear"
                 THEN [fences EXCEPT ![r.id] = None] ELSE fences

-----------------------------------------------------------------------------
(* Appending.  `owed' is what a handler does after the record is durable.   *)

Idle == [issue |-> {}, sweep |-> {}, outcome |-> None]

\* The engine is usable and its mutex is free.
Serving == phase = "up" /\ op = Idle

\* DurableStore::AppendAndApply as every caller uses it: on success the tables
\* change and the handler goes on; on failure it returns the error, and a Boot
\* that fails leaves no engine.
AppendAndApply(r, ph, owed) ==
    \/ /\ ~wedged
       /\ ApplyPayload(r)
       /\ phase' = ph
       /\ op' = owed
       /\ UNCHANGED <<wedged, limbo>>
    \/ /\ wedged' = TRUE
       /\ limbo' \in IF wedged THEN {limbo} ELSE {limbo, r}
       /\ phase' = IF phase = "up" THEN "up" ELSE "down"
       /\ op' = Idle
       /\ UNCHANGED tables

-----------------------------------------------------------------------------
(* Process life: open, boot, die. *)

\* DurableStore::Open replays the disk, so a record in limbo is now applied.
Replay == IF limbo = None THEN UNCHANGED tables ELSE ApplyPayload(limbo)

Open ==
    /\ phase = "down"
    /\ Replay
    /\ phase' = "opening"
    /\ wedged' = FALSE
    /\ limbo' = None
    /\ UNCHANGED <<op, plans>>

\* A read-only engine plans under the last epoch and writes nothing.
OpenReadOnly ==
    /\ phase = "down"
    /\ Replay
    /\ phase' = "reading"
    /\ wedged' = FALSE
    /\ limbo' = None
    /\ UNCHANGED <<op, plans>>

\* The process is killed, or the engine is destroyed.
Crash ==
    /\ phase # "down"
    /\ phase' = "down"
    /\ op' = Idle
    /\ UNCHANGED <<tables, wedged, limbo, plans>>

InstallInitialPolicy ==
    /\ phase = "opening"
    /\ policy = None
    /\ AppendAndApply([type |-> "PolicyPut", policy |-> InitialPolicy],
                      "opening", Idle)
    /\ UNCHANGED plans

\* Fault: the epoch is incremented once more after it was made durable.
live_epochAdvancedTwice == last_epoch + 1

\* live_epoch_ is last_epoch from here on: only Boot advances the epoch.
live_epoch == last_epoch

MakeOutcome(i, state, ambiguous, generation) ==
    [attempt |-> i, key |-> attempts[i].key, epoch |-> attempts[i].epoch,
     terminal_state |-> state, verified |-> state = "Verified",
     verified_generation |-> generation, ambiguous |-> ambiguous]

\* Fault: attempts already acknowledged or applied survive the restart.
CandidatesOnlyUnanswered ==
    {i \in Held(attempts) : attempts[i].state \in {"Issued", "Dispatched"}}

\* The attempts CommitRestartFencing collects.
Candidates == {i \in Held(attempts) : ~IsTerminal(attempts[i].state)}

AdvanceEpoch ==
    /\ phase = "opening"
    /\ policy # None
    /\ last_epoch + 1 \in Epochs
    /\ AppendAndApply([type |-> "EpochAdvance", epoch |-> last_epoch + 1],
                      IF Candidates = {} THEN "up" ELSE "fencing",
                      [Idle EXCEPT !.sweep = Candidates])
    /\ UNCHANGED plans

\* Fault: the attempt moves to the epoch that transitions it.
TransitionedUnderLiveEpoch(i, to) ==
    [type |-> "AttemptPut", id |-> i,
     attempt |-> [attempts[i] EXCEPT !.state = to, !.epoch = live_epoch]]

\* The record TransitionAttempt appends.
Transitioned(i, to) ==
    [type |-> "AttemptPut", id |-> i,
     attempt |-> [attempts[i] EXCEPT !.state = to]]

\* What a sweep turns an attempt into: CommitRestartFencing while booting,
\* PutFence afterwards.
SweepTarget(i) ==
    IF phase = "up" THEN "Fenced"
    ELSE IF attempts[i].state = "Issued" THEN "Abandoned" ELSE "Interrupted"

\* One iteration of either loop, first append: TransitionAttempt.
SweepNext ==
    /\ op.outcome = None
    /\ \E i \in op.sweep :
         /\ \A k \in op.sweep : i <= k
         /\ LET target == SweepTarget(i)
            IN  AppendAndApply(
                    Transitioned(i, target), phase,
                    [op EXCEPT !.sweep = @ \ {i},
                               !.outcome = MakeOutcome(i, target,
                                               target = "Interrupted", 0)])
    /\ UNCHANGED plans

\* Second append of a terminal transition: CommitOutcome.
CommitOutcome ==
    /\ op.outcome # None
    /\ LET owed == [op EXCEPT !.outcome = None]
       IN  AppendAndApply([type |-> "OutcomeCommit", outcome |-> op.outcome],
                          IF owed = Idle THEN "up" ELSE phase, owed)
    /\ UNCHANGED plans

-----------------------------------------------------------------------------
(* Policy, intent and evidence. *)

PutPolicy(p) ==
    /\ Serving
    /\ p.version > policy.version
    /\ AppendAndApply([type |-> "PolicyPut", policy |-> p], phase, Idle)
    /\ UNCHANGED plans

CommitIntent(sc, doc) ==
    /\ Serving
    /\ intents[sc] # None => doc.generation > intents[sc].generation
    /\ AppendAndApply([type |-> "IntentCommit", scope |-> sc,
                       intent |-> doc], phase, Idle)
    /\ UNCHANGED plans

Retained(sc) ==
    {observations[sc][i] : i \in DOMAIN observations[sc]}

\* RecordObservationAt, the path that appends: an identity and generation
\* already retained is a duplicate or a conflict, an older generation of the
\* same reporter is refused.
RecordObservation(sc, id, reporter, generation, body, stamp) ==
    /\ Serving
    /\ \A o \in Retained(sc) :
         o.reporter = reporter =>
           /\ generation >= o.generation
           /\ ~(o.id = id /\ o.generation = generation)
    /\ AppendAndApply(
           [type |-> "ObservationCommit", scope |-> sc,
            observation |->
              [id |-> id, reporter |-> reporter, generation |-> generation,
               body |-> body, received_epoch |-> live_epoch,
               received_unix_ms |-> stamp]],
           phase, Idle)
    /\ UNCHANGED plans

-----------------------------------------------------------------------------
(* Planning. *)

\* SelectCurrentObservation: the highest generation, or nothing when two
\* different documents carry it.
Current(sc) ==
    LET newest == {o \in Retained(sc) :
                      \A p \in Retained(sc) : p.generation <= o.generation}
    IN  IF \E o \in newest : newest = {o}
        THEN CHOOSE o \in newest : TRUE ELSE None

\* EvaluateFreshness(...) = Fresh
Fresh(o, p, now) ==
    /\ p.require_current_epoch => o.received_epoch = live_epoch
    /\ p.max_age > 0 => /\ now >= o.received_unix_ms
                        /\ now - o.received_unix_ms <= p.max_age

FenceHoldsFor(sc, subject, epoch) ==
    \E f \in FenceIds :
        /\ fences[f] # None
        /\ fences[f].scope = sc
        /\ fences[f].subject \in {AnySubject, subject}
        /\ epoch < fences[f].fenced_below

\* Fault: evidence of an earlier incarnation carries authority.
ProvenInAnyEpoch(p, doc, o, subject, sc, now) ==
    /\ p = policy
    /\ doc.generation # 0
    /\ o.generation # 0
    /\ Fresh(o, p, now)
    /\ ~FenceHoldsFor(sc, subject, live_epoch)

\* AssessAuthority: the vector BuildAuthority takes from the store against the
\* live authority, whose policy is the one the request plans under.
Proven(p, doc, o, subject, sc, now) ==
    /\ p = policy
    /\ doc.generation # 0
    /\ o.generation # 0
    /\ o.received_epoch = live_epoch
    /\ Fresh(o, p, now)
    /\ ~FenceHoldsFor(sc, subject, live_epoch)

PlanSubjects(sc, p, now) ==
    LET o == Current(sc)
        doc == intents[sc]
    IN  IF doc = None \/ o = None THEN {}
        ELSE {s \in Actionable(p, doc.digest, o.body) :
                 Proven(p, doc, o, s, sc, now)}

\* Plan under the active policy or a caller's own.  A plan without an
\* actionable decision can issue nothing, so only the others are kept.
Plan(sc, p, now) ==
    /\ phase = "reading" \/ Serving
    /\ policy # None
    /\ Cardinality(plans) < MaxPlans
    /\ PlanSubjects(sc, p, now) # {}
    /\ plans' = plans \cup
         {[scope |-> sc, epoch |-> live_epoch, policy |-> p,
           intent |-> intents[sc], observation |-> Current(sc),
           subjects |-> PlanSubjects(sc, p, now)]}
    /\ UNCHANGED <<tables, phase, op, wedged, limbo>>

-----------------------------------------------------------------------------
(* Dispatch and the attempt lifecycle. *)

\* Fault: a dispatch never looks for an existing attempt.
ReusableNever(key) == FALSE

\* An unfinished attempt of this incarnation for the same action.
Reusable(key) ==
    \E i \in Held(attempts) : /\ attempts[i].key = key
                              /\ attempts[i].epoch = live_epoch
                              /\ ~IsTerminal(attempts[i].state)

\* The attempts the loop over the plan's decisions will append.
ToIssue(p) ==
    {[key |-> k, policy |-> p.policy, epoch |-> live_epoch,
      state |-> "Dispatched"] :
        k \in {k \in [scope : {p.scope}, subject : p.subjects,
                      intent : {p.intent}, observation : {p.observation}] :
                  /\ ~FenceHoldsFor(k.scope, k.subject, live_epoch)
                  /\ ~Reusable(k)}}

\* Fault: the evidence is not compared again.
DispatchOnOldEvidence(p) ==
    /\ Serving
    /\ p.epoch = live_epoch
    /\ p.policy = policy
    /\ p.intent = intents[p.scope]
    /\ op' = [Idle EXCEPT !.issue = ToIssue(p)]
    /\ UNCHANGED <<tables, phase, wedged, limbo, plans>>

Dispatch(p) ==
    /\ Serving
    /\ p.epoch = live_epoch
    /\ p.policy = policy
    /\ p.intent = intents[p.scope]
    /\ p.observation = Current(p.scope)
    /\ op' = [Idle EXCEPT !.issue = ToIssue(p)]
    /\ UNCHANGED <<tables, phase, wedged, limbo, plans>>

\* One IssueAttempt of the loop.
IssueNext ==
    /\ next_attempt \in AttemptIds
    /\ \E a \in op.issue :
         AppendAndApply([type |-> "AttemptPut", id |-> next_attempt,
                         attempt |-> a],
                        phase, [op EXCEPT !.issue = @ \ {a}])
    /\ UNCHANGED plans

TransitionLegal(from, to) ==
    CASE from = "Issued" ->
           to \in {"Dispatched", "Acknowledged", "Applied", "Failed",
                   "Abandoned", "Superseded", "Fenced", "Interrupted"}
      [] from = "Dispatched" ->
           to \in {"Acknowledged", "Applied", "Failed", "Abandoned",
                   "Superseded", "Fenced", "Interrupted"}
      [] from = "Acknowledged" ->
           to \in {"Applied", "Failed", "Abandoned", "Superseded",
                   "Fenced", "Interrupted"}
      [] from = "Applied" ->
           to \in {"Verified", "Failed", "Fenced", "Interrupted"}
      [] OTHER -> FALSE

\* Fault: a completion of a finished attempt is not refused.
CompleteAgain(i, epoch, target) ==
    /\ Serving
    /\ attempts[i] # None
    /\ epoch = live_epoch
    /\ attempts[i].epoch = live_epoch
    /\ AppendAndApply(
           Transitioned(i, target), phase,
           IF IsTerminal(target)
           THEN [Idle EXCEPT !.outcome =
                   MakeOutcome(i, target, IsInconclusive(target), 0)]
           ELSE Idle)
    /\ UNCHANGED plans

\* A completer reports `target' for attempt i under the epoch it was given.
Complete(i, epoch, target) ==
    /\ Serving
    /\ attempts[i] # None
    /\ epoch = live_epoch
    /\ attempts[i].epoch = live_epoch
    /\ ~IsTerminal(attempts[i].state)
    /\ TransitionLegal(attempts[i].state, target)
    /\ AppendAndApply(
           Transitioned(i, target), phase,
           IF IsTerminal(target)
           THEN [Idle EXCEPT !.outcome =
                   MakeOutcome(i, target, IsInconclusive(target), 0)]
           ELSE Idle)
    /\ UNCHANGED plans

\* Verify is given a key and takes the first retained attempt that has it.
FirstWithKey(i) ==
    \A j \in Held(attempts) : attempts[j].key = attempts[i].key => i <= j

\* Attempt i is verified by the retained observation o, whose reporter speaks
\* about an action of `applier', at the time `now'.
Verify(i, o, applier, now, confirms) ==
    LET target == IF confirms THEN "Verified" ELSE "Failed"
    IN  /\ Serving
        /\ FirstWithKey(i)
        /\ attempts[i].epoch = live_epoch
        /\ attempts[i].state = "Applied"
        /\ policy.require_independent_verification => o.reporter # applier
        /\ attempts[i].key.observation.generation < o.generation
        /\ Fresh(o, policy, now)
        /\ AppendAndApply(Transitioned(i, target), phase,
               [Idle EXCEPT !.outcome =
                   MakeOutcome(i, target, ~confirms, o.generation)])
        /\ UNCHANGED plans

-----------------------------------------------------------------------------
(* Fences. *)

\* Fault: a scope-wide fence matches no attempt.
VictimsBySubject(f) ==
    {i \in Held(attempts) : /\ ~IsTerminal(attempts[i].state)
                            /\ attempts[i].key.scope = f.scope
                            /\ f.subject = attempts[i].key.subject
                            /\ attempts[i].epoch < f.fenced_below}

\* The attempts in flight that PutFence collects after storing the fence.
Victims(f) ==
    {i \in Held(attempts) : /\ ~IsTerminal(attempts[i].state)
                            /\ attempts[i].key.scope = f.scope
                            /\ f.subject \in {AnySubject,
                                               attempts[i].key.subject}
                            /\ attempts[i].epoch < f.fenced_below}

PutFence(id, f) ==
    /\ Serving
    /\ f.fenced_below # 0
    /\ AppendAndApply([type |-> "FencePut", id |-> id, fence |-> f], phase,
                      [Idle EXCEPT !.sweep = Victims(f)])
    /\ UNCHANGED plans

ClearFence(id) ==
    /\ Serving
    /\ fences[id] # None
    /\ AppendAndApply([type |-> "FenceClear", id |-> id], phase, Idle)
    /\ UNCHANGED plans

-----------------------------------------------------------------------------
Init ==
    /\ policy = None
    /\ last_epoch = 0
    /\ intents = [sc \in Scopes |-> None]
    /\ observations = [sc \in Scopes |-> <<>>]
    /\ attempts = [i \in AttemptIds |-> None]
    /\ next_attempt = 1
    /\ outcomes = <<>>
    /\ fences = [f \in FenceIds |-> None]
    /\ phase = "down"
    /\ op = Idle
    /\ wedged = FALSE
    /\ limbo = None
    /\ plans = {}

Boot == Open \/ OpenReadOnly \/ InstallInitialPolicy \/ AdvanceEpoch

Continue == SweepNext \/ CommitOutcome \/ IssueNext

Evidence ==
    \/ \E p \in Policies : PutPolicy(p)
    \/ \E sc \in Scopes, doc \in Intent : CommitIntent(sc, doc)
    \/ \E sc \in Scopes, id \in ObservationIds, r \in Reporters,
         g \in Generations, b \in Bodies, t \in Times :
            RecordObservation(sc, id, r, g, b, t)

Actions ==
    \/ \E sc \in Scopes, p \in Policies, now \in Times : Plan(sc, p, now)
    \/ \E p \in plans : Dispatch(p)
    \/ \E i \in AttemptIds, e \in Epochs, target \in AttemptState :
          Complete(i, e, target)
    \/ \E i \in Held(attempts), applier \in Reporters, now \in Times,
         confirms \in BOOLEAN :
          \E o \in Retained(attempts[i].key.scope) :
             Verify(i, o, applier, now, confirms)

Fencing ==
    \/ \E id \in FenceIds, f \in Fence : PutFence(id, f)
    \/ \E id \in FenceIds : ClearFence(id)

Next == Boot \/ Crash \/ Continue \/ Evidence \/ Actions \/ Fencing

Spec == Init /\ [][Next]_vars

-----------------------------------------------------------------------------
(* Properties. *)

Owed == [issue : SUBSET Attempt, sweep : SUBSET AttemptIds,
         outcome : Outcome \cup {None}]

PlanRecord == [scope : Scopes, epoch : Epochs, policy : Policies,
               intent : Intent, observation : Observation,
               subjects : SUBSET Subjects]

\* The tables, the handler in progress and the plans have their types.
TypeOK ==
    /\ policy \in Policies \cup {None}
    /\ last_epoch \in Epochs \cup {0}
    /\ intents \in [Scopes -> Intent \cup {None}]
    /\ observations \in [Scopes -> Seq(Observation)]
    /\ attempts \in [AttemptIds -> Attempt \cup {None}]
    /\ next_attempt \in Nat \ {0}
    /\ outcomes \in Seq(Outcome)
    /\ fences \in [FenceIds -> Fence \cup {None}]
    /\ phase \in {"down", "opening", "fencing", "up", "reading"}
    /\ op \in Owed
    /\ wedged \in BOOLEAN
    /\ limbo \in Record \cup {None}
    /\ plans \subseteq PlanRecord

Unfinished(i) == attempts[i] # None /\ ~IsTerminal(attempts[i].state)

\* A restart never restores in-flight authority (Boot, CommitRestartFencing):
\* once an engine serves, every unfinished attempt was issued by this very
\* incarnation, whatever crashes and failed appends came before.
RestartRevokesInFlight ==
    phase = "up" => \A i \in AttemptIds :
                       Unfinished(i) => attempts[i].epoch = live_epoch

\* Dispatch is idempotent: at no time are there two unfinished attempts for
\* one idempotency key, however often a plan, or an equal plan, is dispatched
\* and wherever an earlier dispatch was cut short.
OneUnfinishedAttemptPerKey ==
    \A i, j \in AttemptIds :
        Unfinished(i) /\ Unfinished(j) /\ attempts[i].key = attempts[j].key
            => i = j

\* A committed outcome is a fact (CommitOutcome): an attempt has at most one,
\* and while the attempt is retained it is in the state the outcome names.
OutcomesAreFacts ==
    \A m \in DOMAIN outcomes :
        LET o == outcomes[m]
        IN  /\ attempts[o.attempt] # None =>
                  attempts[o.attempt].state = o.terminal_state
            /\ \A n \in DOMAIN outcomes :
                  outcomes[n].attempt = o.attempt => n = m

\* A fence revokes (PutFence, Dispatch): no step moves an attempt that a
\* stored fence covers forward to Acknowledged, Applied or Verified.
FencedNeverAdvances ==
    [][\A i \in AttemptIds :
         /\ attempts[i] # None
         /\ attempts'[i] # None
         /\ attempts'[i].state # attempts[i].state
         /\ attempts'[i].state \in {"Acknowledged", "Applied", "Verified"}
         => ~FenceHoldsFor(attempts[i].key.scope, attempts[i].key.subject,
                           attempts[i].epoch)]_vars

\* No action without proven authority (Dispatch re-checks the plan): an attempt
\* appears only under the policy, the intent and the current observation of
\* that moment, received in this epoch, and outside every fence.
IssuedUnderLiveAuthority ==
    [][\A i \in AttemptIds :
         phase = "up" /\ attempts[i] = None /\ attempts'[i] # None =>
           LET a == attempts'[i]
           IN  /\ a.policy = policy
               /\ a.epoch = live_epoch
               /\ a.key.intent = intents[a.key.scope]
               /\ a.key.observation = Current(a.key.scope)
               /\ a.key.observation.received_epoch = live_epoch
               /\ ~FenceHoldsFor(a.key.scope, a.key.subject, live_epoch)
      ]_vars

\* Lineage is append-only (ApplyPayload, TrimAttempts): an attempt identity,
\* once used, never names another action, not even after the attempt was
\* evicted, the append failed or the process restarted.
IdentitiesAreNeverReused ==
    [][\A i \in AttemptIds :
         /\ attempts[i] # None /\ attempts'[i] # None =>
              /\ attempts'[i].key = attempts[i].key
              /\ attempts'[i].epoch = attempts[i].epoch
         /\ attempts[i] = None /\ attempts'[i] # None =>
              \A m \in DOMAIN outcomes : outcomes[m].attempt # i]_vars

-----------------------------------------------------------------------------
(* A statement of the repository that the code does not keep. *)

\* lineage.hpp: an outcome is verified only when independent verification
\* evidence, newer than the action's observation, was accepted (Complete).
VerifiedNeedsEvidence ==
    \A m \in DOMAIN outcomes :
        outcomes[m].verified =>
          outcomes[m].verified_generation >
            outcomes[m].key.observation.generation
=============================================================================

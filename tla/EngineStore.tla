---------------------------- MODULE EngineStore ----------------------------
(***************************************************************************)
(* The engine on its store: with the engine's tables for its states and    *)
(* ApplyPayload for the mutation a record makes, the engine's appends,     *)
(* failures, opens and ends are steps that AtomicStore allows.             *)
(***************************************************************************)
EXTENDS Engine

\* DurableState.
States == [policy : Policies \cup {None},
           last_epoch : Epochs \cup {0},
           intents : [Scopes -> Intent \cup {None}],
           observations : [Scopes -> Seq(Observation)],
           attempts : [AttemptIds -> Attempt \cup {None}],
           next_attempt : Nat \ {0},
           outcomes : Seq(Outcome),
           fences : [FenceIds -> Fence \cup {None}]]

ASSUME StatesAssumption == None \notin States

Empty == [policy |-> None,
          last_epoch |-> 0,
          intents |-> [sc \in Scopes |-> None],
          observations |-> [sc \in Scopes |-> <<>>],
          attempts |-> [i \in AttemptIds |-> None],
          next_attempt |-> 1,
          outcomes |-> <<>>,
          fences |-> [f \in FenceIds |-> None]]

Tables == [policy |-> policy, last_epoch |-> last_epoch, intents |-> intents,
           observations |-> observations, attempts |-> attempts,
           next_attempt |-> next_attempt, outcomes |-> outcomes,
           fences |-> fences]

\* ApplyPayload as a function: the tables s with record r.
After(s, r) ==
    CASE r.type = "PolicyPut" -> [s EXCEPT !.policy = r.policy]
      [] r.type = "EpochAdvance" ->
           [s EXCEPT !.last_epoch = IF r.epoch > @ THEN r.epoch ELSE @]
      [] r.type = "IntentCommit" ->
           [s EXCEPT !.intents = [@ EXCEPT ![r.scope] = r.intent]]
      [] r.type = "ObservationCommit" ->
           [s EXCEPT !.observations =
              [s.observations EXCEPT ![r.scope] =
                 Trimmed(Append(@, r.observation), MaxRetainedObservations)]]
      [] r.type = "AttemptPut" ->
           [s EXCEPT !.attempts = TrimAttempts([@ EXCEPT ![r.id] = r.attempt]),
                     !.next_attempt = IF r.id >= @ THEN r.id + 1 ELSE @]
      [] r.type = "OutcomeCommit" ->
           [s EXCEPT !.outcomes =
               Trimmed(Append(@, r.outcome), MaxRetainedOutcomes)]
      [] r.type = "FencePut" ->
           [s EXCEPT !.fences = [@ EXCEPT ![r.id] = r.fence]]
      [] r.type = "FenceClear" ->
           [s EXCEPT !.fences = [@ EXCEPT ![r.id] = None]]

Store == INSTANCE AtomicStore WITH
    Records <- Record,
    Apply <- After,
    durable <- Tables,
    doubt <- limbo,
    visible <- IF phase = "down" THEN None ELSE Tables

-----------------------------------------------------------------------------
(* Properties. *)

\* The engine keeps to its store (AppendAndApply, Open): the tables change by
\* one record at a time, by an append that succeeded or, when the store is
\* opened, by the one record whose append was reported failed; and not at all
\* in between, whatever handler was cut and wherever the process ended.
OnAtomicStore == Store!Spec
=============================================================================

------------------------------- MODULE MCPlan -------------------------------
(***************************************************************************)
(* Small inputs of ClassifyScope, as a library caller can build them, and  *)
(* of BuildPlanLocked: valid documents, at most one intent.                *)
(***************************************************************************)
EXTENDS Plan, TLC

CONSTANTS x, y

Int1 == [kind |-> "Integer", value |-> 1]
Int2 == [kind |-> "Integer", value |-> 2]
Text1 == [kind |-> "Text", value |-> 1]

Bad == [kind |-> "Invalid", value |-> 0]

ThreeValues == {Int1, Int2, Text1}
AllValues == ThreeValues \cup {Bad}

States(attributes, values) == UNION {[d -> values] : d \in SUBSET attributes}

Lax == [require_current_epoch |-> FALSE, max_observation_age_ms |-> 0,
        require_complete_coverage_for_absence |-> FALSE,
        permit_apply_missing |-> TRUE, permit_apply_mismatched |-> TRUE,
        permit_withdraw_unexpected |-> TRUE,
        unmanaged |-> {}, observe_only |-> {}]
Strict == [Lax EXCEPT !.require_current_epoch = TRUE,
                      !.max_observation_age_ms = 1,
                      !.require_complete_coverage_for_absence = TRUE]

-----------------------------------------------------------------------------
(* Classifications. *)

Maps(subjects, states) == UNION {[d -> states] : d \in SUBSET subjects}

Declared(states) == [complete_attributes : BOOLEAN, desired : states]
Seen(states) == [complete_attributes : BOOLEAN, observed : states]

IntentsOf(generations, maps) ==
    [generation : generations, complete : BOOLEAN, subjects : maps]

ObservationsOf(generations, epochs, times, maps) ==
    [generation : generations, complete : BOOLEAN,
     authoritative_absence : BOOLEAN, received_epoch : epochs,
     received_unix_ms : times, subjects : maps]

Input(intents, observations, committed, policies, now) ==
    [intents : intents, observations : observations, committed : committed,
     policy : policies, live_epoch : {1}, now : now]

\* One subject, every combination of two attributes.
AttributeInputs ==
    LET one == States({x, y}, AllValues)
    IN  Input({{d} : d \in [generation : {1}, complete : {TRUE},
                            subjects : [{1} -> Declared(one)]]},
              {{o} : o \in [generation : {1}, complete : {TRUE},
                            authoritative_absence : {TRUE},
                            received_epoch : {1}, received_unix_ms : {1},
                            subjects : [{1} -> Seen(one)]]},
              {1},
              {[Strict EXCEPT !.unmanaged = u, !.observe_only = w] :
                  u \in {{}, {x}}, w \in {{}, {y}}},
              {1})

\* Two or three subjects with no attributes, every coverage.
SubjectInputs ==
    LET none == [complete_attributes |-> TRUE, desired |-> <<>>]
        blank == [complete_attributes |-> TRUE, observed |-> <<>>]
    IN  Input({{d} : d \in IntentsOf({1}, Maps(1..3, {none}))},
              {{o} : o \in ObservationsOf({1}, {1}, {1},
                                          Maps(1..3, {blank}))},
              {1}, {Strict, Lax}, {1})

\* Any two candidates of each kind.
CandidateInputs ==
    LET none == [complete_attributes |-> TRUE, desired |-> <<>>]
        blank == [complete_attributes |-> TRUE, observed |-> <<>>]
        intents == [generation : {1, 2}, complete : {TRUE},
                    subjects : {[s \in {1} |-> none], [s \in {2} |-> none]}]
        observations ==
            [generation : {1, 2}, complete : {TRUE},
             authoritative_absence : {TRUE}, received_epoch : {1, 2},
             received_unix_ms : {0, 2},
             subjects : {[s \in {1} |-> blank]}]
        UpToTwo(s) == {{}} \cup {{d, e} : d, e \in s}
    IN  Input(UpToTwo(intents), UpToTwo(observations), {None, 1, 2},
              {Strict, Lax}, {1, 2})

-----------------------------------------------------------------------------
(* Plans. *)

Request(intents, observations, policies, actives, fences, now) ==
    {[intents |-> d, observations |-> o,
      committed |-> IF d = {} THEN None
                    ELSE (CHOOSE doc \in d : TRUE).generation,
      policy |-> p, live_epoch |-> 1, now |-> t, active |-> a, fenced |-> f] :
        d \in intents, o \in observations, p \in policies, a \in actives,
        f \in fences, t \in now}

\* One subject, every combination of two attributes.
AttributeRequests ==
    LET one == States({x, y}, ThreeValues)
    IN  Request({{d} : d \in [generation : {1}, complete : {TRUE},
                    subjects : [{1} -> [complete_attributes : BOOLEAN,
                                        desired : one]]]},
                {{o} : o \in [generation : {1}, complete : {TRUE},
                    authoritative_absence : {TRUE}, received_epoch : {1},
                    received_unix_ms : {1},
                    subjects : [{1} -> [complete_attributes : BOOLEAN,
                                        observed : one]]]},
                {[Strict EXCEPT !.unmanaged = u, !.observe_only = w] :
                    u \in {{}, {x}}, w \in {{}, {y}}},
                {TRUE}, {{}}, {1})

\* Up to three subjects, every coverage, fence and permission.
SubjectRequests ==
    LET want == [complete_attributes |-> TRUE, desired |-> <<>>]
        see == [complete_attributes |-> TRUE, observed |-> <<>>]
    IN  Request({{d} : d \in [generation : {1}, complete : BOOLEAN,
                              subjects : Maps(1..3, {want})]},
                {{o} : o \in [generation : {1}, complete : BOOLEAN,
                              authoritative_absence : BOOLEAN,
                              received_epoch : {1}, received_unix_ms : {1},
                              subjects : Maps(1..3, {see})]},
                {Strict, [Lax EXCEPT !.permit_apply_missing = FALSE],
                 [Strict EXCEPT !.permit_withdraw_unexpected = FALSE]},
                BOOLEAN, {{}, {1}}, {1})

\* Competing, foreign, late and future observations, and no documents at all.
EvidenceRequests ==
    LET want == [complete_attributes |-> TRUE, desired |-> (x :> Int1)]
        see == [complete_attributes |-> TRUE, observed |-> (x :> Int2)]
        intents == [generation : {0, 1}, complete : {TRUE},
                    subjects : {(1 :> want)}]
        observations == [generation : {0, 1}, complete : {TRUE},
                         authoritative_absence : {TRUE},
                         received_epoch : {1, 2}, received_unix_ms : {0, 2},
                         subjects : {(1 :> see)}]
    IN  Request({{}} \cup {{d} : d \in intents},
                {{}} \cup {{o, q} : o, q \in observations},
                {Strict, Lax, [Lax EXCEPT !.permit_apply_mismatched = FALSE]},
                {TRUE}, {{}}, {1, 2, 3})

AllInputs ==
    AttributeInputs \cup SubjectInputs \cup CandidateInputs
      \cup AttributeRequests \cup SubjectRequests \cup EvidenceRequests

=============================================================================

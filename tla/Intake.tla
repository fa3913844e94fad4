------------------------------- MODULE Intake -------------------------------
(***************************************************************************)
(* How a document reaches the store: out of a file through the command     *)
(* line tool, out of a payload through the server, or out of a call of the *)
(* library; then through the engine's admission rules into the journal,    *)
(* and out of the journal again when the store is opened.                  *)
(*                                                                         *)
(* On its way to the coordinator a file or a payload may be altered in one *)
(* place: a hand-edited file, a client of another make.  A file is written *)
(* by hand, or is the document's own dump by ToJson.                       *)
(***************************************************************************)
EXTENDS DocumentJson

CONSTANTS
    Docs,                       \* the documents there are, per type
    Stamps,                     \* receipt times
    Cells, Tokens,              \* what an alteration may put in
    MaxRetainedObservations,
    MaxEpoch, MaxRecords,       \* bounds of the model, and the number of
    MaxRecordsWhenAltering      \* records up to which an input is altered

ASSUME IntakeAssumption ==
    /\ DOMAIN Docs = {"intent", "submission"}
    /\ {MaxRetainedObservations, MaxEpoch, MaxRecords} \subseteq Nat \ {0}
    /\ MaxRecordsWhenAltering \in Nat

VARIABLES
    journal,    \* the records appended, encoded
    state,      \* DurableState: the newest intent and the observations
    live_epoch,
    asked,      \* the request under way, or None
    answer      \* what the last request came to, or None

vars == <<journal, state, live_epoch, asked, answer>>

-----------------------------------------------------------------------------
(* The store.                                                                *)

Empty == [intents |-> <<>>, observations |-> <<>>]

Extended(map, key, value) ==
    [k \in DOMAIN map \cup {key} |-> IF k = key THEN value ELSE map[k]]

Stream(s, scope) ==
    IF scope \in DOMAIN s.observations THEN s.observations[scope] ELSE <<>>

TrimObservations(stream) ==
    IF Len(stream) <= MaxRetainedObservations THEN stream
    ELSE SubSeq(stream, Len(stream) - MaxRetainedObservations + 1, Len(stream))

\* ApplyPayload: the state with the record, or None if it does not decode.
Applied(s, type, doc) ==
    IF s = None \/ doc = None THEN None
    ELSE IF type = "intent"
      THEN [s EXCEPT !.intents = Extended(@, doc.head[2], doc)]
    ELSE [s EXCEPT !.observations =
             Extended(@, doc.head[2],
                      TrimObservations(Append(Stream(s, doc.head[2]), doc)))]

ApplyPayload(s, record) ==
    Applied(s, record.type, DecodeExact(record.type, record.payload))

\* What Open makes of the journal, or None.
Replay(records) == FoldLeft(ApplyPayload, Empty, records)

Init ==
    /\ journal = <<>> /\ state = Empty /\ live_epoch = 1
    /\ asked = None /\ answer = None

\* The coordinator is stopped and the store opened again.
Reopen ==
    /\ live_epoch < MaxEpoch
    /\ live_epoch' = live_epoch + 1
    /\ state' = Replay(journal)
    /\ asked' = None /\ answer' = None
    /\ UNCHANGED journal

-----------------------------------------------------------------------------
(* The way in.                                                               *)

Sealed(type, doc) == [doc EXCEPT !.digest = Digest(type, doc)]

Ways == {"call", "file", "dump", "wire"}

\* The members an author writes: those of ToJson that ParseJson knows.
HandWritten(type, doc) ==
    Object(SelectSeq(ToJson(type, doc).members,
                     LAMBDA m : m.key # Name("digest")))

\* A document as the library's caller, a file's author, ToJson or a client's
\* CommitIntent and RecordObservation hand it over.
Input ==
    [type \in DOMAIN Docs |-> [via \in Ways |-> [doc \in Docs[type] |->
        CASE via = "call" -> <<doc>>
          [] via = "file" -> Dump(HandWritten(type, doc))
          [] via = "dump" -> Dump(ToJson(type, doc))
          [] via = "wire" -> Encode(type, Sealed(type, doc))]]]

Ask(via, type, doc) ==
    /\ asked = None /\ answer = None
    /\ asked' = [via |-> via, type |-> type, meant |-> doc,
                 input |-> Input[type][via][doc], altered |-> FALSE]
    /\ UNCHANGED <<journal, state, live_epoch, answer>>

\* One place of a sequence left out or replaced, or one more at its end.
Edits(s, parts) == {RemoveAt(s, i) : i \in DOMAIN s}
                     \cup {[s EXCEPT ![i] = p] : i \in DOMAIN s, p \in parts}
                     \cup {Append(s, p) : p \in parts}

Alter ==
    /\ asked # None /\ asked.via \in {"file", "wire"} /\ ~asked.altered
    /\ Len(journal) <= MaxRecordsWhenAltering
    /\ \E input \in Edits(asked.input,
                          IF asked.via = "file" THEN Tokens ELSE Cells) :
          /\ input # asked.input
          /\ asked' = [asked EXCEPT !.input = input, !.altered = TRUE]
    /\ UNCHANGED <<journal, state, live_epoch, answer>>

\* The file is removed, or the client gives up.
Withdraw == /\ asked # None /\ asked' = None
            /\ UNCHANGED <<journal, state, live_epoch, answer>>

\* The caller has its answer; requests come one at a time.
Leave == /\ answer # None /\ answer' = None
         /\ UNCHANGED <<journal, state, live_epoch, asked>>

\* What ParseJson and DecodeExact may make of the input: a document, or None.
Received(a) == CASE a.via = "call" -> {a.input[1]}
                 [] a.via = "wire" -> {DecodeExact(a.type, a.input)}
                 [] OTHER -> ParseJson(a.type, a.input)

Answers(result, doc) ==
    /\ answer' = [result |-> result, type |-> asked.type,
                  meant |-> asked.meant, altered |-> asked.altered,
                  doc |-> doc]
    /\ asked' = None
    /\ UNCHANGED live_epoch

Settled(result, doc) ==
    Answers(result, doc) /\ UNCHANGED <<journal, state>>

\* DurableStore::CommitIntent, CommitObservation: the record is appended
\* first and applied from its encoding.
Durable(record, doc, applied) ==
    /\ Len(journal) < MaxRecords
    /\ journal' = Append(journal, record)
    /\ IF applied = None THEN Answers("failed", None) /\ UNCHANGED state
       ELSE Answers("recorded", doc) /\ state' = applied

AppendAndApply(record, doc) ==
    IF record.payload = <<>> THEN Settled("refused", None)
    ELSE Durable(record, doc, ApplyPayload(state, record))

Commit(type, doc) ==
    AppendAndApply([type |-> type, payload |-> Encode(type, doc)], doc)

\* ReconciliationEngine::CommitIntent
CommitIntent(candidate) ==
    LET scope == candidate.head[2]
        known == scope \in DOMAIN state.intents
        existing == state.intents[scope]
    IN  IF known /\ candidate.head[4] < existing.head[4]
          THEN Settled("refused", None)
        ELSE IF known /\ candidate.head[4] = existing.head[4]
          THEN IF candidate.digest = existing.digest
               THEN Settled("duplicate", existing)
               ELSE Settled("conflict", None)
        ELSE Commit("intent", candidate)

\* ReconciliationEngine::RecordObservationAt
RecordObservation(document) ==
    LET retained == {o \in ToSet(Stream(state, document.head[2])) :
                        o.head[3] = document.head[3]}
        same == {o \in retained : /\ o.head[1] = document.head[1]
                                  /\ o.head[4] = document.head[4]}
    IN  IF same # {}
          THEN IF \E o \in same : o.digest = document.digest
               THEN Settled("duplicate", document)
               ELSE Settled("conflict", None)
        ELSE IF \E o \in retained : document.head[4] < o.head[4]
          THEN Settled("refused", None)
        ELSE Commit("observation", document)

Stamped(doc, stamp) == [doc EXCEPT !.head = @ \o <<live_epoch, stamp>>]

\* The request is served: it is decoded or parsed, validated, and committed.
Admit(doc, stamp) ==
    IF doc = None THEN Settled("refused", None)
    ELSE IF ~Validate(doc) THEN Settled("refused", None)
    ELSE IF asked.type = "intent" THEN CommitIntent(Sealed("intent", doc))
    ELSE RecordObservation(Sealed("observation", Stamped(doc, stamp)))

Serve ==
    /\ asked # None /\ state # None
    /\ \E doc \in Received(asked), stamp \in Stamps : Admit(doc, stamp)

Next ==
    \/ Reopen \/ Alter \/ Serve \/ Withdraw \/ Leave
    \/ \E type \in DOMAIN Docs, via \in Ways :
          \E doc \in Docs[type] : Ask(via, type, doc)

Spec == Init /\ [][Next]_vars

-----------------------------------------------------------------------------
(* Properties.                                                               *)

\* What the coordinator holds in memory is what it would find if it opened
\* the store again: a document the engine admits is one the store decodes,
\* although DurableStore::AppendAndApply decodes it only after it is durable.
OpensAgain == state # None /\ Replay(journal) = state

\* A request that is answered with success and was not altered on its way
\* left the store with exactly the document that was meant, whichever way it
\* came: fixtures and payloads lose nothing, and a duplicate is one.
AcceptedAsMeant ==
    answer # None /\ answer.result \in {"recorded", "duplicate"}
      /\ ~answer.altered =>
        LET meant == answer.meant
            scope == meant.head[2]
            kept == IF answer.type = "intent" THEN {state.intents[scope]}
                    ELSE ToSet(Stream(state, scope))
        IN  \E d \in kept : /\ SubSeq(d.head, 1, 7) = meant.head
                            /\ d.subjects = meant.subjects
                            /\ d.digest = answer.doc.digest

\* An intent payload that was altered is refused, or still means the same:
\* its digest covers all of it.
AlteredIntentIsRefused ==
    asked # None /\ asked.via = "wire" /\ asked.type = "intent" =>
        DecodeExact("intent", asked.input)
            \in {None, Sealed("intent", asked.meant)}

\* No payload the server accepts is the beginning of another one, so a
\* payload cut short or with something behind it is never taken for whole.
PayloadsAreWhole ==
    asked # None /\ asked.via = "wire"
      /\ DecodeExact(asked.type, asked.input) # None =>
        \A n \in 1 .. Len(asked.input) - 1 :
            DecodeExact(asked.type, SubSeq(asked.input, 1, n)) = None

\* The tokens with every real spelled the way AppendReal spells it.
Respelled(tokens) ==
    [i \in DOMAIN tokens |-> IF tokens[i].sort = "real"
                             THEN AppendReal(tokens[i]) ELSE tokens[i]]

\* The parser takes every token of a file into account: dumping the value of a
\* file it accepts writes that file, token by token, but for reals without a
\* fraction, which come out as integers. What was dumped is accepted, and
\* dumping it once more changes nothing.
ParserIsExact ==
    asked # None /\ asked.via \in {"file", "dump"} =>
        LET parsed == Run(asked.input)
            dumped == Dump(parsed.value)
            again == Run(dumped)
        IN  parsed.ok => /\ dumped = Respelled(asked.input)
                         /\ again.ok /\ Dump(again.value) = dumped

\* The journal holds encoded documents within the writer's bound, and the
\* answers are those of the engine.
TypeOK ==
    /\ \A i \in DOMAIN journal :
          /\ journal[i].type \in {"intent", "observation"}
          /\ Len(journal[i].payload) \in 1 .. MaxCanonicalBytes
    /\ live_epoch \in 1 .. MaxEpoch
    /\ answer # None =>
          answer.result \in {"refused", "duplicate", "conflict", "recorded"}
=============================================================================

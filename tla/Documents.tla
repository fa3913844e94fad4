----------------------------- MODULE Documents -----------------------------
(***************************************************************************)
(* Intent and observation documents and their canonical encoding           *)
(* (document.cpp, value.cpp, canonical.cpp, identity.cpp).                 *)
(*                                                                         *)
(* A buffer is a sequence of cells.  A number of any width is one cell, a  *)
(* letter of a text is one cell, and a digest is one cell that stands for  *)
(* exactly the buffer it was computed of.  A text is a sequence of         *)
(* letters.  A document is its header, the fields in the order of its      *)
(* layout, its subjects, a map from identities to attributes, and its      *)
(* digest.                                                                 *)
(***************************************************************************)
EXTENDS Integers, SequencesExt

CONSTANTS
    IdentityOrder,      \* the identities in use, in the order of a std::map
    Width,              \* bits of a 64-bit number
    MaxCanonicalBytes, MaxAttributeTextLength, MaxSubjects, MaxAttributes,
    Misread,            \* what a letter or a digest is, read as a number
    None

ASSUME DocumentsAssumption ==
    /\ Width \in Nat \ {0}
    /\ {MaxCanonicalBytes, MaxAttributeTextLength, MaxSubjects,
        MaxAttributes, Misread} \subseteq Nat

\* The texts IsValidIdentityText accepts.
Identities == ToSet(IdentityOrder)

Types == {"intent", "observation", "submission"}

Layout ==
    [intent |-> <<"id", "id", "id", "u64", "u64", "evidence", "bool">>,
     observation |-> <<"id", "id", "id", "u64", "evidence", "bool", "bool",
                       "u64", "i64">>,
     submission |-> <<"id", "id", "id", "u64", "evidence", "bool", "bool">>]

\* EvidenceClass::Unsupported, the last one.
Unsupported == 3

Kinds == <<"Absent", "Boolean", "Integer", "Unsigned", "Text", "Token">>

KindCode(kind) == IF kind = "Invalid" THEN 0
                  ELSE CHOOSE n \in DOMAIN Kinds : Kinds[n] = kind

Absent == [kind |-> "Absent", value |-> None]

-----------------------------------------------------------------------------
(* CanonicalWriter.  What is written is a sequence of chunks, each of them   *)
(* reserved as a whole; after one that does not fit nothing is written.      *)

Num(n) == [num |-> n]
Signed(n) == Num(n % 2^Width)
Bool(b) == Num(IF b THEN 1 ELSE 0)

PutNum(n) == << <<Num(n)>> >>
PutBytes(text) == << <<Num(Len(text))>>,
                     [i \in DOMAIN text |-> [letter |-> text[i]]] >>

\* Fault: one cell more than the bound is let in.
ReserveOneMore(writer, chunk) ==
    IF writer.ok /\ Len(writer.buffer) + Len(chunk) <= MaxCanonicalBytes + 1
    THEN [writer EXCEPT !.buffer = @ \o chunk]
    ELSE [writer EXCEPT !.ok = FALSE]

Reserve(writer, chunk) ==
    IF writer.ok /\ Len(writer.buffer) + Len(chunk) <= MaxCanonicalBytes
    THEN [writer EXCEPT !.buffer = @ \o chunk]
    ELSE [writer EXCEPT !.ok = FALSE]

Write(chunks) ==
    LET writer[n \in 0 .. Len(chunks)] ==
            IF n = 0 THEN [ok |-> TRUE, buffer |-> <<>>]
            ELSE Reserve(writer[n - 1], chunks[n])
    IN  writer[Len(chunks)]

\* A map is written in the order of its keys.
InOrder(map) == SelectSeq(IdentityOrder, LAMBDA id : id \in DOMAIN map)

PutMap(entries) ==
    LET keys == InOrder(entries)
    IN  PutNum(Len(keys))
          \o FlattenSeq([i \in DOMAIN keys |->
                            PutBytes(keys[i]) \o entries[keys[i]]])

\* AttributeValue::Encode
PutValue(v) ==
    PutNum(KindCode(v.kind))
      \o CASE v.kind = "Boolean" -> << <<Bool(v.value)>> >>
           [] v.kind = "Integer" -> << <<Signed(v.value)>> >>
           [] v.kind = "Unsigned" -> PutNum(v.value)
           [] v.kind \in {"Text", "Token"} -> PutBytes(v.value)
           [] OTHER -> <<>>

PutSubject(entry) ==
    << <<Bool(entry.complete_attributes)>> >>
      \o PutMap([k \in DOMAIN entry.state |-> PutValue(entry.state[k])])

PutField(kind, x) == CASE kind = "id" -> PutBytes(x)
                       [] kind = "bool" -> << <<Bool(x)>> >>
                       [] kind = "i64" -> << <<Signed(x)>> >>
                       [] OTHER -> PutNum(x)

Body(type, doc) ==
    FlattenSeq([i \in DOMAIN Layout[type] |->
                    PutField(Layout[type][i], doc.head[i])])
      \o PutMap([s \in DOMAIN doc.subjects |-> PutSubject(doc.subjects[s])])

kCanonicalSchemaVersion == 1

\* Fault: the last field of the header is left out.
DigestOfMost(type, doc) ==
    [sha256 |-> Write(PutNum(kCanonicalSchemaVersion)
                        \o Body(type, [doc EXCEPT !.head[7] = FALSE])).buffer]

\* ComputeIntentDigest, ComputeObservationDigest: the digest of what was
\* written, whether or not all of it was.
Digest(type, doc) ==
    [sha256 |-> Write(PutNum(kCanonicalSchemaVersion)
                        \o Body(type, doc)).buffer]

\* EncodeIntent, EncodeObservation, EncodeSubmission; empty on failure.
Encode(type, doc) ==
    LET writer == Write(Body(type, doc)
                          \o IF type = "submission" THEN <<>>
                             ELSE << <<doc.digest>> >>)
    IN  IF writer.ok THEN writer.buffer ELSE <<>>

-----------------------------------------------------------------------------
(* CanonicalReader.  `got' is what was read so far.                          *)

Number(cell) == IF "num" \in DOMAIN cell THEN cell.num ELSE Misread

\* A byte that was not written as a letter is none an identity may have.
Letter(cell) == IF "letter" \in DOMAIN cell THEN cell.letter ELSE "#"

ToSigned(n) == IF n < 2^(Width - 1) THEN n ELSE n - 2^Width

Fail(r) == [r EXCEPT !.ok = FALSE]
Got(r, cells, x) == [r EXCEPT !.at = @ + cells, !.got = Append(@, x)]

\* ReadBytes, and the text it yields.
ReadText(bytes, r) ==
    LET n == Number(bytes[r.at])
    IN  IF n > Len(bytes) - r.at THEN Fail(r)
        ELSE Got(r, n + 1,
                 [i \in 1 .. n |-> Letter(bytes[r.at + i])])

Read(bytes, r, kind) ==
    IF ~r.ok \/ r.at > Len(bytes) THEN Fail(r)
    ELSE LET n == Number(bytes[r.at])
         IN  CASE kind = "text" -> ReadText(bytes, r)
               [] kind = "id" ->
                    LET text == ReadText(bytes, r)
                    IN  IF text.ok /\ Last(text.got) \in Identities
                        THEN text ELSE Fail(r)
               [] kind = "bool" -> Got(r, 1, n # 0)
               [] kind = "i64" -> Got(r, 1, ToSigned(n))
               [] kind = "evidence" ->
                    IF n <= Unsupported THEN Got(r, 1, n) ELSE Fail(r)
               [] kind = "digest" -> Got(r, 1, bytes[r.at])
               [] OTHER -> Got(r, 1, n)

\* What follows the code of each kind.
PayloadOf == [Absent |-> "none", Boolean |-> "bool", Integer |-> "i64",
              Unsigned |-> "u64", Text |-> "text", Token |-> "text"]

\* AttributeValue::Decode
ReadValue(bytes, r) ==
    LET Whole(kind, payload) ==
            IF ~payload.ok
               \/ /\ PayloadOf[kind] = "text"
                  /\ Len(Last(payload.got)) > MaxAttributeTextLength
            THEN Fail(r)
            ELSE Got(payload, 0, [kind |-> kind, value |-> Last(payload.got)])
        After(code) ==
            IF ~code.ok \/ Last(code.got) \notin DOMAIN Kinds THEN Fail(r)
            ELSE LET kind == Kinds[Last(code.got)]
                 IN  IF kind = "Absent" THEN Got(code, 0, Absent)
                     ELSE Whole(kind, Read(bytes, code, PayloadOf[kind]))
    IN  After(Read(bytes, r, "u8"))

\* One entry of a map, unless its identity is in the map already.
Entered(m, key, entry) ==
    IF m.r.ok /\ key.ok /\ entry.ok /\ Last(key.got) \notin DOMAIN m.map
    THEN [r |-> entry,
          map |-> [k \in DOMAIN m.map \cup {Last(key.got)} |->
                     IF k = Last(key.got) THEN Last(entry.got) ELSE m.map[k]]]
    ELSE [m EXCEPT !.r = Fail(m.r)]

\* The loop over the entries: as many as were counted.
Entries(count) == [i \in 1 .. Last(count.got) |-> i]

Before(count) == [r |-> count, map |-> <<>>]

ReadMap(r, all) == IF all.r.ok THEN Got(all.r, 0, all.map) ELSE Fail(r)

\* A count within the bound and that many attributes with different identities.
ReadState(bytes, r) ==
    LET Entry(m, key) == Entered(m, key, ReadValue(bytes, key))
        Enter(m, i) == Entry(m, Read(bytes, m.r, "id"))
        After(count) ==
            IF ~count.ok \/ Last(count.got) > MaxAttributes THEN Fail(r)
            ELSE ReadMap(r, FoldLeft(Enter, Before(count), Entries(count)))
    IN  After(Read(bytes, r, "u32"))

ReadSubject(bytes, r) ==
    LET Whole(complete, attributes) ==
            IF ~complete.ok \/ ~attributes.ok THEN Fail(r)
            ELSE Got(attributes, 0,
                     [complete_attributes |-> Last(complete.got),
                      state |-> Last(attributes.got)])
        After(complete) ==
            Whole(complete, ReadState(bytes, complete))
    IN  After(Read(bytes, r, "bool"))

\* The same of the subjects of a document.
ReadSubjects(bytes, r) ==
    LET Entry(m, key) == Entered(m, key, ReadSubject(bytes, key))
        Enter(m, i) == Entry(m, Read(bytes, m.r, "id"))
        After(count) ==
            IF ~count.ok \/ Last(count.got) > MaxSubjects THEN Fail(r)
            ELSE ReadMap(r, FoldLeft(Enter, Before(count), Entries(count)))
    IN  After(Read(bytes, r, "u32"))

\* Fault: what follows the document is not looked at.
AtEndNever(bytes, r) == TRUE

AtEnd(bytes, r) == r.at > Len(bytes)

\* DecodeIntentExact, DecodeObservationExact, DecodeSubmissionExact: the
\* document, or None.
DecodeExact(type, bytes) ==
    LET ReadField(r, kind) == Read(bytes, r, kind)
        Checked(doc, digest) ==
            IF /\ digest.ok /\ AtEnd(bytes, digest)
               /\ Last(digest.got) = Digest(type, doc)
            THEN [doc EXCEPT !.digest = Last(digest.got)] ELSE None
        Whole(doc, r) ==
            IF type # "submission" THEN Checked(doc, Read(bytes, r, "digest"))
            ELSE IF AtEnd(bytes, r) THEN doc ELSE None
        After(head, map) ==
            IF ~head.ok \/ ~map.ok THEN None
            ELSE Whole([head |-> head.got, subjects |-> Last(map.got),
                        digest |-> None], map)
        Subjects(head) ==
            After(head, ReadSubjects(bytes, head))
    IN  Subjects(FoldLeft(ReadField, [ok |-> TRUE, at |-> 1, got |-> <<>>],
                          Layout[type]))

-----------------------------------------------------------------------------
(* ValidateIntent, ValidateObservation, ValidateSubmission.                  *)

\* AttributeValue::IsValid
IsValid(v) ==
    /\ v.kind # "Invalid"
    /\ v.kind \in {"Text", "Token"} => Len(v.value) <= MaxAttributeTextLength

\* Fault: a value of any kind and length will do.
ValidKeys(state) == Cardinality(DOMAIN state) <= MaxAttributes

ValidateState(state) ==
    /\ Cardinality(DOMAIN state) <= MaxAttributes
    /\ \A key \in DOMAIN state : key # <<>> /\ IsValid(state[key])

Validate(doc) ==
    /\ \A i \in 1 .. 3 : doc.head[i] # <<>>
    /\ Cardinality(DOMAIN doc.subjects) <= MaxSubjects
    /\ \A s \in DOMAIN doc.subjects :
          s # <<>> /\ ValidateState(doc.subjects[s].state)
=============================================================================

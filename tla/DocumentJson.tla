---------------------------- MODULE DocumentJson ----------------------------
(***************************************************************************)
(* Intent and observation files (document_json.cpp): what ToJson writes of *)
(* a document and what ParseJson reads out of a file.                      *)
(***************************************************************************)
EXTENDS Documents

CONSTANTS PlainReals, MaxDepth, MaxItems, MaxObjectMembers, MaxArrayItems

INSTANCE Json WITH Bits <- Width

\* A member's name is a text of one letter of its own.
Name(x) == <<x>>

\* The members of the header, in the order of Layout.
MemberNames ==
    [intent |-> <<"intent", "scope", "definition", "generation",
                  "policy_version", "evidence", "complete">>,
     submission |-> <<"observation", "scope", "reporter", "generation",
                      "evidence", "complete", "authoritative_absence">>]

EvidenceNames == <<"UNKNOWN", "REAL", "SYNTHETIC", "UNSUPPORTED">>
Synthetic == 2

ValueNames == [Absent |-> "absent", Boolean |-> "bool", Integer |-> "i64",
               Unsigned |-> "u64", Text |-> "text", Token |-> "token",
               Invalid |-> "invalid"]

-----------------------------------------------------------------------------
(* ToJson.                                                                   *)

FieldJson(kind, x) ==
    CASE kind = "id" -> Text(x)
      [] kind = "evidence" -> Text(Name(EvidenceNames[x + 1]))
      [] kind = "bool" -> Boolean(x)
      [] OTHER -> Unsigned(x)

ValueJson(v) ==
    CASE v.kind \in {"Absent", "Invalid"} -> Boolean(TRUE)
      [] v.kind = "Boolean" -> Boolean(v.value)
      [] v.kind = "Integer" -> Integer(v.value)
      [] v.kind = "Unsigned" -> Unsigned(v.value)
      [] OTHER -> Text(v.value)

AttributeJson(v) == Object(<<Member(Name(ValueNames[v.kind]), ValueJson(v))>>)

StateJson(state) ==
    LET Set(members, k) == Append(members, Member(k, AttributeJson(state[k])))
    IN  Object(FoldLeft(Set, <<>>, InOrder(state)))

SubjectJson(entry) ==
    Object(<<Member(Name("complete_attributes"),
                    Boolean(entry.complete_attributes)),
             Member(Name("attributes"), StateJson(entry.state))>>)

SubjectsJson(subjects) ==
    LET Set(members, s) == Append(members, Member(s, SubjectJson(subjects[s])))
    IN  Object(FoldLeft(Set, <<>>, InOrder(subjects)))

\* The digest of an intent, which is no member of a submission.
DigestJson(type) ==
    IF type = "intent"
    THEN <<Member(Name("digest"), Text(Name("hex")))>> ELSE <<>>

ToJson(type, doc) ==
    Object([i \in DOMAIN MemberNames[type] |->
               Member(Name(MemberNames[type][i]),
                      FieldJson(Layout[type][i], doc.head[i]))]
           \o DigestJson(type)
           \o <<Member(Name("subjects"), SubjectsJson(doc.subjects))>>)

-----------------------------------------------------------------------------
(* ParseJson.                                                                *)

CheckMembers(root, allowed) ==
    /\ root.kind = "Object"
    /\ \A m \in ToSet(root.members) : m.key \in {Name(x) : x \in allowed}

ParseEvidence(v) ==
    IF \E n \in DOMAIN EvidenceNames : AsText(v) = Name(EvidenceNames[n])
    THEN (CHOOSE n \in DOMAIN EvidenceNames :
              AsText(v) = Name(EvidenceNames[n])) - 1
    ELSE Synthetic

\* What a member that is missing is taken for.
Default(kind, name) == CASE kind = "id" -> <<>>
                         [] kind = "u64" -> 0
                         [] kind = "evidence" -> Synthetic
                         [] kind = "bool" -> name # "authoritative_absence"

\* ReadText, ReadU64, ReadBool: a member of another kind is refused.
RightKind(kind, v) == CASE kind = "id" -> v.kind = "Text"
                        [] kind = "u64" -> IsNumber(v)
                        [] kind = "bool" -> v.kind = "Boolean"
                        [] OTHER -> TRUE

\* Fault: a boolean member that is present is taken for its default.
ReadMemberDefaulted(object, kind, name, saturates) ==
    IF kind = "bool" \/ ~Has(object, Name(name)) THEN Default(kind, name)
    ELSE LET v == Find(object, Name(name))
         IN  CASE kind = "id" -> AsText(v)
               [] kind = "u64" -> AsUnsigned(v, saturates)
               [] kind = "evidence" -> ParseEvidence(v)

ReadMember(object, kind, name, saturates) ==
    IF ~Has(object, Name(name)) THEN Default(kind, name)
    ELSE LET v == Find(object, Name(name))
         IN  CASE kind = "id" -> AsText(v)
               [] kind = "u64" -> AsUnsigned(v, saturates)
               [] kind = "evidence" -> ParseEvidence(v)
               [] kind = "bool" -> AsBool(v)

MemberRefused(object, kind, name) ==
    Has(object, Name(name)) /\ ~RightKind(kind, Find(object, Name(name)))

\* An object that does not stand for a map from identities to objects.
MapRefused(v, max) ==
    \/ v.kind # "Object" \/ Len(v.members) > max
    \/ \E m \in ToSet(v.members) :
          m.key \notin Identities \/ m.value.kind # "Object"

Keys(v) == {m.key : m \in ToSet(v.members)}

EntriesOf(v) == {m.value : m \in ToSet(v.members)}

\* Of several kinds named, the last in this order is taken.
ValueKinds == <<"Absent", "Boolean", "Integer", "Unsigned", "Text", "Token">>

Named(v) == SelectSeq(ValueKinds, LAMBDA kind : Has(v, Name(ValueNames[kind])))

ValueRefused(v) ==
    \/ Named(v) = <<>>
    \/ Has(v, Name("absent")) /\ ~AsBool(Find(v, Name("absent")))

ParseAttribute(v, saturates) ==
    LET kind == Last(Named(v))
        x == Find(v, Name(ValueNames[kind]))
    IN  [kind |-> kind,
         value |-> CASE kind = "Absent" -> None
                     [] kind = "Boolean" -> AsBool(x)
                     [] kind = "Integer" -> AsInteger(x, saturates)
                     [] kind = "Unsigned" -> AsUnsigned(x, saturates)
                     [] OTHER -> AsText(x)]

\* ParseState: attributes may be missing or null.
Attributes(entry) ==
    IF Has(entry, Name("attributes"))
         /\ Find(entry, Name("attributes")).kind # "Null"
    THEN Find(entry, Name("attributes")) ELSE Object(<<>>)

SubjectRefused(entry) ==
    \/ MemberRefused(entry, "bool", "complete_attributes")
    \/ LET attributes == Attributes(entry)
       IN  \/ MapRefused(attributes, MaxAttributes)
           \/ \E v \in EntriesOf(attributes) : ValueRefused(v)

ParseSubject(entry, saturates) ==
    LET attributes == Attributes(entry)
    IN  [complete_attributes |->
             ReadMember(entry, "bool", "complete_attributes", saturates),
         state |-> [k \in Keys(attributes) |->
                      ParseAttribute(Find(attributes, k), saturates)]]

\* The document a parsed file means to a build whose casts saturate or do not,
\* or None.
ParseRoot(type, parsed, saturates) ==
    LET root == parsed.value
        names == MemberNames[type]
        subjects == IF Has(root, Name("subjects"))
                    THEN Find(root, Name("subjects")) ELSE Object(<<>>)
        doc == [head |-> [i \in DOMAIN names |->
                            ReadMember(root, Layout[type][i], names[i],
                                       saturates)],
                subjects |-> [s \in Keys(subjects) |->
                                ParseSubject(Find(subjects, s), saturates)],
                digest |-> None]
    IN  IF \/ ~parsed.ok
           \/ ~CheckMembers(root, ToSet(names) \cup {"subjects"})
           \/ \E i \in DOMAIN names :
                 MemberRefused(root, Layout[type][i], names[i])
           \/ \E i \in 1 .. 3 : doc.head[i] \notin Identities
           \/ MapRefused(subjects, MaxSubjects)
           \/ \E entry \in EntriesOf(subjects) : SubjectRefused(entry)
           \/ ~Validate(doc)
        THEN None
        ELSE IF type = "submission" THEN doc
        ELSE [doc EXCEPT !.digest = Digest(type, doc)]

\* What a file may mean.
ParseJson(type, tokens) ==
    LET parsed == Run(tokens)
    IN  {ParseRoot(type, parsed, saturates) : saturates \in BOOLEAN}
=============================================================================

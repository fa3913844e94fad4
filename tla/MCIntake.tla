------------------------------ MODULE MCIntake ------------------------------
(* Documents, limits and alterations for checking Intake with TLC.           *)
EXTENDS Intake

A == <<"a">>
B == <<"b">>
IdsTwo == <<A, B>>

V(kind, value) == [kind |-> kind, value |-> value]
Subject(complete, attributes) ==
    [complete_attributes |-> complete, state |-> attributes]
One(key, v) == [k \in {key} |-> v]
Two(v, w) == [k \in {A, B} |-> IF k = A THEN v ELSE w]

Doc(head, subjects) ==
    [head |-> head, subjects |-> subjects, digest |-> None]

Intent(definition, generation, complete, subjects) ==
    Doc(<<A, A, definition, generation, 1, 1, complete>>, subjects)

Submission(id, generation, absence, subjects) ==
    Doc(<<id, A, B, generation, 2, FALSE, absence>>, subjects)

Plain == One(A, Subject(TRUE, One(A, V("Integer", -1))))

\* Among them: same generation and other content, a later generation, an
\* empty identity, a value that is no value, a text too long, a document too
\* large to encode, and one subject too many.
MCDocs ==
    [intent |->
        {Intent(A, 1, TRUE, Plain),
         Intent(A, 1, FALSE, Plain),
         Intent(B, 7, TRUE, One(B, Subject(FALSE,
                              Two(V("Text", <<"#">>), Absent)))),
         Intent(<<>>, 1, TRUE, <<>>),
         Intent(A, 2, TRUE, One(A, Subject(TRUE, One(A, V("Invalid", None))))),
         Intent(A, 2, TRUE, One(A, Subject(TRUE,
                              One(A, V("Token", <<"a", "a">>))))),
         Intent(A, 3, TRUE, One(A, Subject(TRUE,
                              Two(V("Text", A), V("Text", B)))))},
     submission |->
        {Submission(A, 2, TRUE, One(A, Subject(FALSE,
                              One(B, V("Unsigned", 5))))),
         Submission(A, 2, FALSE, One(A, Subject(TRUE, Two(V("Boolean", TRUE),
                              V("Token", B))))),
         Submission(B, 1, FALSE, <<>>),
         Submission(B, 3, FALSE, Two(Subject(TRUE, <<>>),
                              Subject(TRUE, <<>>)))}]

MCCells == {Num(0), Num(2), [letter |-> "a"]}

MCTokens == {Mark("}"), Mark(","), Mark("true"), Mark("null"), Mark("bad"),
             Mark("["), String(<<"typo">>), String(A), Literal(2), Literal(8),
             RealLiteral(1, TRUE), RealLiteral(1, FALSE),
             RealLiteral(4, TRUE), RealLiteral(8, TRUE)}
=============================================================================

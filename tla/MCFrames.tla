----------------------------- MODULE MCFrames ------------------------------
(***************************************************************************)
(* A small instance of Frames for TLC.                                     *)
(***************************************************************************)
EXTENDS Frames

SomeParts == {<<1>>, <<2>>}

Message(sequence, payload) ==
    [type |-> 3, flags |-> 0, session_id |-> 1, sequence |-> sequence,
     payload |-> payload]

\* An empty frame, one at the reader's bound and one beyond it.
SomeMessages ==
    {Message(1, <<>>), Message(2, <<<<1>>, <<2>>>>),
     Message(3, <<<<2>>, <<1>>, <<1>>>>)}

\* A damaged length may be smaller, larger, or beyond the bound.
SomeDamages == {<<0>>, <<1>>, <<2>>, <<3>>}
=============================================================================

----------------------------- MODULE MCSession ------------------------------
(***************************************************************************)
(* Small instances of Session for TLC.                                     *)
(***************************************************************************)
EXTENDS Session

TwoConnections == {1, 2}
LastConnection == {3}

\* Requests right and wrong in every field the session thread looks at, and one
\* frame of every other kind.
SomeFrames ==
    {Outgoing("Hello", 0, 1, 1, 0, 0), Outgoing("Hello", 1, 1, 1, 0, 0),
     Outgoing("Request", 1, 2, 1, 1, 0), Outgoing("Request", 1, 2, 1, 2, 0),
     Outgoing("Request", 2, 2, 1, 1, 0), Outgoing("Request", 1, 2, 2, 1, 0),
     Outgoing("Request", 1, 3, 1, 1, 0)}
    \cup {Outgoing(type, 1, 2, 1, 1, 0) :
        type \in {"Ping", "Goodbye", "broken", "garbled"}}

\* Bound: a peer of another kind is followed for as long as the client has made
\* one call at most.
Apart == call <= 1 \/ \A n \in Raw : worker[n].step = "none"
=============================================================================

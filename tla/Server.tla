------------------------------- MODULE Server -------------------------------
(***************************************************************************)
(* The threads of the reconciliation service (server.cpp over net.cpp):    *)
(* the accept thread, one session thread per connection, the thread that   *)
(* calls Stop, and the clients at the other end of the sockets.            *)
(*                                                                         *)
(* What a frame says is module Session's matter. Here a frame is something *)
(* a session thread reads, may need the engine for, and may answer; what   *)
(* counts is where each thread can block, which lock it then holds, and    *)
(* who releases it.                                                        *)
(***************************************************************************)
EXTENDS Naturals, FiniteSets

CONSTANTS Connections,     \* the connections clients may ever open
          Limits,          \* what options.max_sessions may be
          SingleSession,   \* options.single_session
          MaxFrames,       \* bound: frames the clients send
          Nobody

ASSUME ServerAssumption ==
    /\ IsFiniteSet(Connections) /\ Nobody \notin Connections
    /\ Limits \subseteq Nat /\ MaxFrames \in Nat /\ SingleSession \in BOOLEAN

VARIABLES
    \* the clients and the sockets
    peer,       \* each client: "absent", "connected" or, once it left or its
                \* connection was closed, "gone"
    sent,       \* frames the clients sent so far (at most MaxFrames)
    arrived,    \* frames in the socket, not yet received
    backlog,    \* connections the listener has not accepted
    shut,       \* connections Stop shut down
    \* the accept thread
    accept,     \* where it is
    incoming,   \* the connection it is admitting
    wake,       \* impl.wake was signalled
    \* the session threads
    worker,     \* where each one is
    buffered,   \* frames in its FrameReader
    signalled,  \* sessions whose wake channel was signalled
    \* the service
    sessions,   \* impl.sessions
    mutex,      \* the session thread that holds impl.mutex, or Nobody
    engine,     \* the session thread that holds the engine's mutex, or Nobody
    max_sessions, \* options.max_sessions
    stopping,
    \* Stop
    stop,       \* where its caller is
    live        \* the sessions it copied and has still to release

clients == <<peer, sent, arrived, backlog>>
admission == <<accept, incoming>>
release == <<wake, shut, signalled>>
service == <<mutex, engine, max_sessions>>
stopper == <<stopping, stop, live>>
vars == <<clients, admission, release, service, stopper, worker, buffered,
          sessions>>

AcceptStep == {"waiting", "accepted", "admitted", "registered", "exited"}

\* "locking" waits for impl.mutex, "naming" holds it and waits for the engine's,
\* "calling" waits for the engine's and "handling" holds it; a thread blocks
\* reading in "hello" and "reading", and writing in "answering", "refusing" and
\* "parting".
WorkerStep == {"none", "hello", "locking", "naming", "calling", "handling",
               "answering", "refusing", "reading", "parting", "closing",
               "finished"}

StopStep == {"none", "signal", "copy", "release", "join_accept",
             "join_workers", "clear", "returned"}

Running(c) == worker[c] \notin {"none", "finished"}

-----------------------------------------------------------------------------
(* The clients. *)

\* The service closes its end: the client is cut off and what it sent is lost.
Closed(c) ==
    /\ peer' = [peer EXCEPT ![c] = "gone"]
    /\ arrived' = [arrived EXCEPT ![c] = 0]
    /\ backlog' = backlog \ {c}
    /\ UNCHANGED sent

Connect(c) ==
    /\ peer[c] = "absent" /\ stop # "returned"
    /\ peer' = [peer EXCEPT ![c] = "connected"]
    /\ backlog' = backlog \cup {c}
    /\ UNCHANGED <<sent, arrived, admission, release, service, stopper, worker,
                   buffered, sessions>>

Send(c) ==
    /\ peer[c] = "connected" /\ sent < MaxFrames
    /\ sent' = sent + 1
    /\ arrived' = [arrived EXCEPT ![c] = @ + 1]
    /\ UNCHANGED <<peer, backlog, admission, release, service, stopper, worker,
                   buffered, sessions>>

Leave(c) ==
    /\ peer[c] = "connected"
    /\ peer' = [peer EXCEPT ![c] = "gone"]
    /\ UNCHANGED <<sent, arrived, backlog, admission, release, service, stopper,
                   worker, buffered, sessions>>

-----------------------------------------------------------------------------
(* The accept thread. *)

\* The loop condition, or the wait released by the wake channel.
AcceptExits ==
    /\ accept = "waiting" /\ (stopping \/ wake)
    /\ accept' = "exited"
    /\ UNCHANGED <<incoming, clients, release, service, stopper, worker,
                   buffered, sessions>>

\* WaitReadable looks at the wake channel first. stopping may have become true
\* since the loop condition was read.
Accept(c) ==
    /\ accept = "waiting" /\ ~wake /\ c \in backlog
    /\ backlog' = backlog \ {c}
    /\ accept' = "accepted" /\ incoming' = c
    /\ UNCHANGED <<peer, sent, arrived, release, service, stopper, worker,
                   buffered, sessions>>

\* The connection was aborted before it was accepted.
AcceptFails(c) ==
    /\ accept = "waiting" /\ ~wake /\ c \in backlog /\ peer[c] = "gone"
    /\ Closed(c)
    /\ accept' = IF stopping THEN "exited" ELSE "waiting"
    /\ UNCHANGED <<incoming, release, service, stopper, worker, buffered,
                   sessions>>

\* Fault: one session too many.
AdmitOneMore ==
    /\ accept = "accepted" /\ mutex = Nobody
    /\ Cardinality(sessions) <= max_sessions
    /\ accept' = "admitted"
    /\ UNCHANGED <<incoming, clients, release, service, stopper, worker,
                   buffered, sessions>>

\* The registry's size is read under the mutex, and used after it is released.
Admit ==
    /\ accept = "accepted" /\ mutex = Nobody
    /\ Cardinality(sessions) < max_sessions
    /\ accept' = "admitted"
    /\ UNCHANGED <<incoming, clients, release, service, stopper, worker,
                   buffered, sessions>>

\* Fault: the connection turned away is still the one being admitted.
RefuseKeeping ==
    /\ accept = "accepted" /\ mutex = Nobody
    /\ Cardinality(sessions) >= max_sessions
    /\ Closed(incoming)
    /\ accept' = "waiting"
    /\ UNCHANGED <<incoming, release, service, stopper, worker, buffered,
                   sessions>>

\* At the limit, or no wake channel could be made: the connection is closed.
Refuse ==
    /\ \/ /\ accept = "accepted" /\ mutex = Nobody
          /\ Cardinality(sessions) >= max_sessions
       \/ accept = "admitted"
    /\ Closed(incoming)
    /\ accept' = "waiting" /\ incoming' = Nobody
    /\ UNCHANGED <<release, service, stopper, worker, buffered, sessions>>

Register ==
    /\ accept = "admitted" /\ mutex = Nobody
    /\ sessions' = sessions \cup {incoming}
    /\ accept' = "registered"
    /\ UNCHANGED <<incoming, clients, release, service, stopper, worker,
                   buffered>>

Spawn ==
    /\ accept = "registered"
    /\ worker' = [worker EXCEPT ![incoming] = "hello"]
    /\ accept' = IF SingleSession THEN "exited" ELSE "waiting"
    /\ incoming' = Nobody
    /\ UNCHANGED <<clients, release, service, stopper, buffered, sessions>>

-----------------------------------------------------------------------------
(* A session thread. *)

\* The thread goes from one step of ServeSession to the next.
Goes(c, from, to) == worker[c] = from /\ worker' = [worker EXCEPT ![c] = to]

Reading(c) == worker[c] \in {"hello", "reading"}

\* ReceiveFrame finds its reader empty and selects on the socket and its wake
\* channel: the channel wins, then bytes, then the end of the stream.
Receive(c) ==
    /\ Reading(c) /\ buffered[c] = 0 /\ c \notin signalled /\ arrived[c] > 0
    /\ buffered' = [buffered EXCEPT ![c] = arrived[c]]
    /\ arrived' = [arrived EXCEPT ![c] = 0]
    /\ UNCHANGED <<peer, sent, backlog, admission, release, service, stopper,
                   worker, sessions>>

\* Released or PeerClosed.
Ends(c) ==
    /\ Reading(c) /\ buffered[c] = 0
    /\ \/ c \in signalled
       \/ arrived[c] = 0 /\ (peer[c] = "gone" \/ c \in shut)
    /\ worker' = [worker EXCEPT ![c] = "closing"]
    /\ UNCHANGED <<buffered, clients, admission, release, service, stopper,
                   sessions>>

\* A frame its reader already holds is taken without looking at the channel.
Takes(c) ==
    /\ buffered[c] > 0
    /\ buffered' = [buffered EXCEPT ![c] = @ - 1]
    /\ UNCHANGED <<clients, admission, release, service, stopper, sessions>>

\* The opening frame: a Hello, one that is not (the session ends), or bytes that
\* are no frame (answered with an Error first).
Hello(c) ==
    /\ \/ Goes(c, "hello", "locking")
       \/ Goes(c, "hello", "closing")
       \/ Goes(c, "hello", "parting")
    /\ Takes(c)

\* A later frame: a request; a ping; one refused without the engine (another
\* session's frame, one that is no request, a request that does not decode); a
\* goodbye; or one out of sequence or unframeable, answered and then the end.
Frame(c) ==
    /\ \/ Goes(c, "reading", "calling")
       \/ Goes(c, "reading", "answering")
       \/ Goes(c, "reading", "refusing")
       \/ Goes(c, "reading", "closing")
       \/ Goes(c, "reading", "parting")
    /\ Takes(c)

LockSessions(c) ==
    /\ mutex = Nobody /\ mutex' = c
    /\ Goes(c, "locking", "naming")
    /\ UNCHANGED <<engine, max_sessions, clients, admission, release, stopper,
                   buffered, sessions>>

\* The session's identity is written under impl.mutex, and its epoch is asked
\* of the engine meanwhile; the Welcome is built from the engine after that.
NameSession(c) ==
    /\ engine = Nobody
    /\ Goes(c, "naming", "calling")
    /\ mutex' = Nobody
    /\ UNCHANGED <<engine, max_sessions, clients, admission, release, stopper,
                   buffered, sessions>>

\* Handle, or the Welcome's fields: calls of the engine, no server lock held.
CallEngine(c) ==
    /\ engine = Nobody /\ engine' = c
    /\ Goes(c, "calling", "handling")
    /\ UNCHANGED <<mutex, max_sessions, clients, admission, release, stopper,
                   buffered, sessions>>

EngineReturns(c) ==
    /\ Goes(c, "handling", "answering")
    /\ engine' = Nobody
    /\ UNCHANGED <<mutex, max_sessions, clients, admission, release, stopper,
                   buffered, sessions>>

\* SendFrame blocks while the client does not read what it is sent.
Answered(c) ==
    /\ c \notin shut
    /\ \/ Goes(c, "answering", "reading")
       \/ Goes(c, "refusing", "reading")
       \/ Goes(c, "parting", "closing")
    /\ UNCHANGED <<clients, admission, release, service, stopper, buffered,
                   sessions>>

\* Fault: a refusal that cannot be sent is sent again.
AnswerFailsRetrying(c) ==
    /\ c \in shut \/ peer[c] = "gone"
    /\ \/ Goes(c, "answering", "closing")
       \/ Goes(c, "refusing", "refusing")
       \/ Goes(c, "parting", "closing")
    /\ UNCHANGED <<clients, admission, release, service, stopper, buffered,
                   sessions>>

\* A failed Pong, Response or Welcome ends the session. Whether a refusal could
\* be sent is not looked at: the thread goes back to its reader, and takes the
\* frames that one still holds.
AnswerFails(c) ==
    /\ c \in shut \/ peer[c] = "gone"
    /\ \/ Goes(c, "answering", "closing")
       \/ Goes(c, "refusing", "reading")
       \/ Goes(c, "parting", "closing")
    /\ UNCHANGED <<clients, admission, release, service, stopper, buffered,
                   sessions>>

\* The session stays in impl.sessions.
CloseSession(c) ==
    /\ Goes(c, "closing", "finished")
    /\ Closed(c) /\ buffered' = [buffered EXCEPT ![c] = 0]
    /\ UNCHANGED <<admission, release, service, stopper, sessions>>

-----------------------------------------------------------------------------
(* Stop. *)

StopBegins ==
    /\ stop = "none"
    /\ stopping' = TRUE /\ stop' = "signal"
    /\ UNCHANGED <<live, clients, admission, release, service, worker, buffered,
                   sessions>>

StopSignals ==
    /\ stop = "signal"
    /\ wake' = TRUE /\ stop' = "copy"
    /\ UNCHANGED <<stopping, live, shut, signalled, clients, admission, service,
                   worker, buffered, sessions>>

StopCopies ==
    /\ stop = "copy" /\ mutex = Nobody
    /\ live' = sessions /\ stop' = "release"
    /\ UNCHANGED <<stopping, clients, admission, release, service, worker,
                   buffered, sessions>>

\* The wake channel releases a reader, the shut socket a writer.
StopReleases(c) ==
    /\ stop = "release" /\ c \in live
    /\ signalled' = signalled \cup {c}
    /\ shut' = shut \cup {c}
    /\ live' = live \ {c}
    /\ UNCHANGED <<wake, stopping, stop, clients, admission, service, worker,
                   buffered, sessions>>

StopReleased ==
    /\ stop = "release" /\ live = {} /\ stop' = "join_accept"
    /\ UNCHANGED <<stopping, live, clients, admission, release, service, worker,
                   buffered, sessions>>

\* Fault: the workers are joined while the accept thread may still spawn one.
StopSkipsAccept ==
    /\ stop = "join_accept" /\ stop' = "join_workers"
    /\ UNCHANGED <<stopping, live, clients, admission, release, service, worker,
                   buffered, sessions>>

StopJoinsAccept ==
    /\ stop = "join_accept" /\ accept = "exited" /\ stop' = "join_workers"
    /\ UNCHANGED <<stopping, live, clients, admission, release, service, worker,
                   buffered, sessions>>

StopJoinsWorkers ==
    /\ stop = "join_workers" /\ \A c \in Connections : ~Running(c)
    /\ stop' = "clear"
    /\ UNCHANGED <<stopping, live, clients, admission, release, service, worker,
                   buffered, sessions>>

StopClears ==
    /\ stop = "clear" /\ mutex = Nobody
    /\ sessions' = {} /\ stop' = "returned"
    /\ UNCHANGED <<stopping, live, clients, admission, release, service, worker,
                   buffered>>

-----------------------------------------------------------------------------
Init ==
    /\ peer = [c \in Connections |-> "absent"]
    /\ sent = 0
    /\ arrived = [c \in Connections |-> 0]
    /\ backlog = {} /\ shut = {} /\ signalled = {} /\ sessions = {}
    /\ accept = "waiting" /\ incoming = Nobody /\ wake = FALSE
    /\ worker = [c \in Connections |-> "none"]
    /\ buffered = [c \in Connections |-> 0]
    /\ mutex = Nobody /\ engine = Nobody /\ max_sessions \in Limits
    /\ stopping = FALSE /\ stop = "none" /\ live = {}

Client(c) == Connect(c) \/ Send(c) \/ Leave(c)

AcceptThread ==
    \/ AcceptExits \/ Admit \/ Refuse \/ Register \/ Spawn
    \/ \E c \in Connections : Accept(c) \/ AcceptFails(c)

\* What a session thread does without waiting for its client.
Worker(c) ==
    \/ Receive(c) \/ Ends(c) \/ Hello(c) \/ Frame(c)
    \/ LockSessions(c) \/ NameSession(c) \/ CallEngine(c) \/ EngineReturns(c)
    \/ AnswerFails(c) \/ CloseSession(c)

Stop ==
    \/ StopSignals \/ StopCopies \/ StopReleased \/ StopJoinsAccept
    \/ StopJoinsWorkers \/ StopClears
    \/ \E c \in Connections : StopReleases(c)

Next ==
    \/ AcceptThread \/ StopBegins \/ Stop
    \/ \E c \in Connections : Client(c) \/ Worker(c) \/ Answered(c)

Spec == Init /\ [][Next]_vars

\* The operating system runs every thread that can run. Nothing is asked of the
\* clients: they need not connect, send, read or leave.
LiveSpec ==
    /\ Spec
    /\ WF_vars(AcceptThread) /\ WF_vars(Stop)
    /\ \A c \in Connections : WF_vars(Worker(c))

-----------------------------------------------------------------------------
(* Properties. *)

\* Every thread is at one of its steps, and the accept thread holds a connection
\* exactly while it is admitting one (Start).
TypeOK ==
    /\ peer \in [Connections -> {"absent", "connected", "gone"}]
    /\ sent \in Nat /\ arrived \in [Connections -> Nat]
    /\ buffered \in [Connections -> Nat]
    /\ backlog \subseteq Connections /\ shut \subseteq Connections
    /\ signalled \subseteq Connections /\ sessions \subseteq Connections
    /\ live \subseteq Connections
    /\ accept \in AcceptStep /\ worker \in [Connections -> WorkerStep]
    /\ incoming \in Connections \cup {Nobody}
    /\ accept \in {"accepted", "admitted", "registered"} <=> incoming # Nobody
    /\ mutex \in Connections \cup {Nobody}
    /\ engine \in Connections \cup {Nobody} /\ max_sessions \in Limits
    /\ wake \in BOOLEAN /\ stopping \in BOOLEAN /\ stop \in StopStep

\* Stop "Returns only after all threads have finished": when it returned, the
\* accept thread is gone, no session thread runs and the registry is empty, and
\* no thread can appear later (server.cpp, Stop joins the accept thread before
\* it looks at the workers).
StopLeavesNoThread ==
    stop = "returned" => /\ accept = "exited" /\ sessions = {}
                         /\ \A c \in Connections : ~Running(c)

\* However admissions and endings interleave, no more than max_sessions session
\* threads run, although the limit is checked long before the thread starts.
RunningSessionsBounded ==
    Cardinality({c \in Connections : Running(c)}) <= max_sessions

\* Every thread that Stop told to end does end, wherever it was blocked: the
\* accept thread in its wait, a session thread reading from a silent client,
\* writing to one that does not read, or waiting for a lock; also one that goes
\* on to the frames its reader holds after a refusal it could not send.
\* (Sessions are told after the accept thread, and never untold.)
ReleasedThreadsEnd ==
    wake ~> /\ accept = "exited"
            /\ \A c \in signalled : worker[c] = "finished"

\* Stop "Stops accepting, shuts every connection down and joins every thread"
\* (server.hpp:65): it returns, whatever the clients do.
StopReturns == stop = "signal" ~> stop = "returned"
=============================================================================

------------------------------ MODULE Session -------------------------------
(***************************************************************************)
(* The session protocol: ReconciliationClient at one end of a connection   *)
(* (client.cpp), ServeSession and Handle at the other (server.cpp), the    *)
(* framing between them (wire.cpp, wire_ops.hpp), and a service that can   *)
(* be killed and started again.                                            *)
(*                                                                         *)
(* The library's client makes calls one after the other; peers that are    *)
(* not the library's may write any frame on connections of their own. What *)
(* a request asks of the engine is only whether the engine did it.         *)
(***************************************************************************)
EXTENDS Naturals, Sequences, Functions

CONSTANTS Library,     \* connections ReconciliationClient may open
          Raw,         \* connections of other peers
          RawFrames,   \* the frames such a peer may write
          MaxCalls,    \* bound: calls the client makes
          MaxRaw,      \* bound: frames on a connection of another peer
          MaxEpoch     \* bound: incarnations of the service

Connections == Library \cup Raw

\* Frames to the service. "garbled" is bytes that are no frame, "broken" one that
\* is no request, or a request that does not decode; call is the call it belongs
\* to, which the bytes do not say, or 0.
Outgoings == [type : {"Hello", "Request", "Ping", "Goodbye", "broken",
                      "garbled"},
              session : Nat, sequence : Nat, boot : Nat, epoch : Nat,
              call : Nat]

ASSUME SessionAssumption ==
    /\ Connections \subseteq Nat \ {0} /\ Library \cap Raw = {}
    /\ RawFrames \subseteq Outgoings
    /\ MaxCalls \in Nat /\ MaxRaw \in Nat /\ MaxEpoch \in Nat \ {0}

VARIABLES
    \* the connections: frames written and not yet read, in order
    c2s, s2c,
    left,       \* connections the client's end has closed
    written,    \* frames each other peer has written
    \* the service
    up, epoch, next_session,
    worker,     \* per connection: its session thread
    acted,      \* history: the requests the engine acted on, per connection
    \* the client
    pc,         \* "closed", "hello", "ready" or "calling"
    client,     \* its connection, boot, session_id, sequence, server_epoch
    call,       \* the call it is in, or made last
    attempt,    \* the attempt Call is in; 0 between calls
    via,        \* history: the connection each call was made on, or 0
    result      \* what each call returned

service == <<up, epoch, next_session, worker, acted>>
caller == <<client, call, attempt, via, result>>
vars == <<c2s, s2c, left, written, service, pc, caller>>

Outgoing(type, session, sequence, boot, at, number) ==
    [type |-> type, session |-> session, sequence |-> sequence, boot |-> boot,
     epoch |-> at, call |-> number]

\* A frame to the client; call says which request it answers, which the bytes
\* do not.
Incoming(type, reason, session, number) ==
    [type |-> type, reason |-> reason, session |-> session, call |-> number,
     epoch |-> epoch]

\* What the stream carries: a frame is a whole, or, when it is larger than the
\* client accepts, a head that shows it is and a tail that starts nowhere.
Pieces(frame, whole) ==
    IF whole THEN <<[part |-> "whole", frame |-> frame]>>
    ELSE <<[part |-> "head", frame |-> frame],
           [part |-> "tail", frame |-> frame]>>

Without == [step |-> "none", session |-> 0, boot |-> 0, expected |-> 0,
            answer |-> <<>>]

-----------------------------------------------------------------------------
(* The client. *)

\* Connect, and the first half of Handshake, on a connection not used yet.
Opens(n, boot) ==
    /\ n \in Library /\ up /\ worker[n].step = "none"
    /\ client' = [client EXCEPT !.connection = n, !.boot = boot]
    /\ c2s' = [c2s EXCEPT ![n] = <<Outgoing("Hello", 0, 1, boot, 0, 0)>>]
    /\ worker' = [worker EXCEPT ![n].step = "hello"]
    /\ pc' = "hello"

Connect(n) ==
    /\ pc = "closed" /\ attempt = 0
    /\ Opens(n, n)
    /\ UNCHANGED <<s2c, left, written, up, epoch, next_session, acted, call,
                   attempt, via, result>>

\* A connection with nothing more to read.
AtEnd(n) == s2c[n] = <<>> /\ worker[n].step = "finished"

\* Receive fills a FrameReader made for this exchange; what it holds beyond the
\* first frame goes with it.
Reads(n, taken) ==
    /\ taken \in 1 .. Len(s2c[n])
    /\ s2c' = [s2c EXCEPT ![n] = SubSeq(@, taken + 1, Len(@))]

First == Head(s2c[client.connection])

\* The second half of Handshake: anything but a Welcome closes the client.
Welcomed(taken) ==
    /\ pc = "hello" /\ Reads(client.connection, taken)
    /\ IF First.part = "whole" /\ First.frame.type = "Welcome"
       THEN /\ pc' = "ready"
            /\ client' = [client EXCEPT !.session_id = First.frame.session,
                                        !.sequence = 1,
                                        !.server_epoch = First.frame.epoch]
            /\ UNCHANGED left
       ELSE /\ pc' = "closed" /\ left' = left \cup {client.connection}
            /\ UNCHANGED client
    /\ UNCHANGED <<c2s, written, service, call, attempt, via, result>>

HandshakeLost ==
    /\ pc = "hello" /\ AtEnd(client.connection)
    /\ pc' = "closed" /\ left' = left \cup {client.connection}
    /\ attempt' = 0
    /\ UNCHANGED <<c2s, s2c, written, service, client, call, via, result>>

\* Call, up to Exchange's send; a second attempt is the same call.
Call ==
    /\ pc = "ready" /\ (attempt = 0 => call < MaxCalls)
    /\ call' = IF attempt = 0 THEN call + 1 ELSE call
    /\ attempt' = attempt + 1
    /\ via' = [via EXCEPT ![call'] = client.connection]
    /\ client' = [client EXCEPT !.sequence = @ + 1]
    /\ c2s' = [c2s EXCEPT ![client.connection] =
                 Append(@, Outgoing("Request", client.session_id,
                                    client.sequence + 1, client.boot,
                                    client.server_epoch, call'))]
    /\ pc' = "calling"
    /\ UNCHANGED <<s2c, left, written, service, result>>

\* The service's end is gone and send says so.
SendFails ==
    /\ pc = "ready" /\ attempt = 0 /\ call < MaxCalls
    /\ worker[client.connection].step = "finished"
    /\ call' = call + 1
    /\ via' = [via EXCEPT ![call + 1] = client.connection]
    /\ result' = [result EXCEPT ![call + 1] = "indeterminate"]
    /\ UNCHANGED <<c2s, s2c, left, written, service, pc, client, attempt>>

Returns(outcome) ==
    /\ result' = [result EXCEPT ![call] = outcome]
    /\ attempt' = 0 /\ pc' = "ready"

\* Only an Error frame makes Call connect again.
Rehandshakes(frame) ==
    frame.type = "Error" /\ frame.reason = "epoch" /\ attempt = 1

Outcome(frame) == IF frame.type = "Response" THEN frame.reason ELSE "refused"

\* Exchange receives, and Call reads what it received. The answer's session and
\* sequence are not looked at.
Answered(taken) ==
    /\ pc = "calling" /\ Reads(client.connection, taken)
    /\ IF First.part = "whole" /\ Rehandshakes(First.frame)
       THEN /\ left' = left \cup {client.connection}
            /\ \E n \in Library : Opens(n, client.boot)
            /\ UNCHANGED <<attempt, result, up, epoch, next_session, acted>>
       ELSE /\ Returns(IF First.part = "whole" THEN Outcome(First.frame)
                                               ELSE "indeterminate")
            /\ UNCHANGED <<c2s, left, client, service>>
    /\ UNCHANGED <<written, call, via>>

\* Fault: a call whose connection was lost is made again on a new one.
LostAndRetried ==
    /\ pc = "calling" /\ AtEnd(client.connection)
    /\ \E n \in Library : Opens(n, client.boot)
    /\ UNCHANGED <<s2c, left, written, up, epoch, next_session, acted, call,
                   attempt, via, result>>

\* The connection ended before an answer. The client keeps it.
Lost ==
    /\ pc = "calling" /\ AtEnd(client.connection)
    /\ Returns("indeterminate")
    /\ UNCHANGED <<c2s, s2c, left, written, service, client, call, via>>

\* Close, between calls or by another thread while a call waits.
Close ==
    /\ pc \in {"ready", "calling"}
    /\ result' = IF pc = "calling"
                 THEN [result EXCEPT ![call] = "indeterminate"] ELSE result
    /\ pc' = "closed" /\ attempt' = 0
    /\ left' = left \cup {client.connection}
    /\ s2c' = [s2c EXCEPT ![client.connection] = <<>>]
    /\ client' = [client EXCEPT !.session_id = 0, !.sequence = 0]
    /\ UNCHANGED <<c2s, written, service, call, via>>

-----------------------------------------------------------------------------
(* Peers that write frames of their own. *)

RawConnect(n) ==
    /\ n \in Raw /\ up /\ worker[n].step = "none"
    /\ worker' = [worker EXCEPT ![n].step = "hello"]
    /\ UNCHANGED <<c2s, s2c, left, written, up, epoch, next_session, acted, pc,
                   caller>>

\* One frame at a time: the session thread reads them in order anyway.
RawWrite(n, frame) ==
    /\ n \in Raw \ left /\ worker[n].step \notin {"none", "finished"}
    /\ written[n] < MaxRaw /\ c2s[n] = <<>>
    /\ c2s' = [c2s EXCEPT ![n] = Append(@, frame)]
    /\ written' = [written EXCEPT ![n] = @ + 1]
    /\ UNCHANGED <<s2c, left, service, pc, caller>>

RawLeave(n) ==
    /\ n \in Raw \ left /\ worker[n].step \notin {"none", "finished"}
    /\ left' = left \cup {n}
    /\ UNCHANGED <<c2s, s2c, written, service, pc, caller>>

-----------------------------------------------------------------------------
(* The session thread of connection n. *)

\* ReceiveFrame returns the next frame.
Receives(n, step, frame) ==
    /\ worker[n].step = step /\ c2s[n] # <<>> /\ frame = Head(c2s[n])
    /\ c2s' = [c2s EXCEPT ![n] = Tail(@)]
    /\ UNCHANGED <<left, written, up, epoch, pc, caller>>

\* SendFrame. What the peers that are not the library's read is not followed, and
\* nobody reads what is sent to an end that closed.
SendFrame(n, frame, whole) ==
    s2c' = IF n \in Raw \cup left THEN s2c
           ELSE [s2c EXCEPT ![n] = @ \o Pieces(frame, whole)]

Sends(n, frame) == SendFrame(n, frame, TRUE)

SendsError(n, reason, number) ==
    Sends(n, Incoming("Error", reason, worker[n].session, number))

\* Fault: an answer that was not sent is kept.
FinishesKeeping(n) == worker' = [worker EXCEPT ![n].step = "finished"]

\* CloseSession, and the thread's state ends: the client reads what was sent, then
\* the end.
Finishes(n) == worker' = [worker EXCEPT ![n] = [Without EXCEPT !.step = "finished"]]

\* The stream cannot be framed any more: answered once, then closed.
ServeGarbled(n, frame) ==
    /\ \E step \in {"hello", "reading"} : Receives(n, step, frame)
    /\ frame.type = "garbled"
    /\ SendsError(n, "refused", frame.call) /\ Finishes(n)
    /\ UNCHANGED <<next_session, acted>>

WellOpened(frame) ==
    frame.type = "Hello" /\ frame.sequence = 1 /\ frame.session = 0

ServeHello(n, frame) ==
    /\ Receives(n, "hello", frame) /\ WellOpened(frame)
    /\ worker' = [worker EXCEPT ![n].step = "reading", ![n].boot = frame.boot,
                                ![n].session = next_session, ![n].expected = 2]
    /\ next_session' = next_session + 1
    /\ Sends(n, Incoming("Welcome", "ok", next_session, 0))
    /\ UNCHANGED acted

RejectHello(n, frame) ==
    /\ Receives(n, "hello", frame)
    /\ frame.type # "garbled" /\ ~WellOpened(frame)
    /\ Finishes(n)
    /\ UNCHANGED <<s2c, next_session, acted>>

\* Another session's frame is refused; its sequence number counts for nothing.
ServeForeign(n, frame) ==
    /\ Receives(n, "reading", frame)
    /\ frame.type # "garbled" /\ frame.session # worker[n].session
    /\ SendsError(n, "refused", frame.call)
    /\ UNCHANGED <<worker, next_session, acted>>

\* A frame of this session.
Own(n, frame) ==
    /\ Receives(n, "reading", frame)
    /\ frame.type # "garbled" /\ frame.session = worker[n].session

ServeGoodbye(n, frame) ==
    /\ Own(n, frame) /\ frame.type = "Goodbye"
    /\ Finishes(n)
    /\ UNCHANGED <<s2c, next_session, acted>>

ServeOutOfSequence(n, frame) ==
    /\ Own(n, frame)
    /\ frame.type # "Goodbye" /\ frame.sequence # worker[n].expected
    /\ SendsError(n, "refused", frame.call) /\ Finishes(n)
    /\ UNCHANGED <<next_session, acted>>

\* Fault: only a frame from the future is out of sequence.
InSequenceOrReplayed(n, frame) ==
    /\ Own(n, frame) /\ frame.sequence <= worker[n].expected

InSequence(n, frame) ==
    /\ Own(n, frame) /\ frame.sequence = worker[n].expected

\* A ping, or a frame that is no request or does not decode as one.
ServeOther(n, frame) ==
    /\ InSequence(n, frame) /\ frame.type \in {"Ping", "Hello", "broken"}
    /\ worker' = [worker EXCEPT ![n].expected = @ + 1]
    /\ IF frame.type = "Ping"
       THEN Sends(n, Incoming("Pong", "ok", worker[n].session, frame.call))
       ELSE SendsError(n, "refused", frame.call)
    /\ UNCHANGED <<next_session, acted>>

\* The answers Handle may give: the session's own refusals come before the engine
\* sees the request.
Handled(n, frame) ==
    CASE frame.boot # worker[n].boot -> {"refused"}
      [] frame.boot = worker[n].boot /\ frame.epoch # epoch -> {"epoch"}
      [] OTHER -> {"ok", "error"}

\* Handle. An engine that answers OK did what it was asked. One that answers an
\* error may have done it in part (attempts issued before the one that failed, a
\* transition whose outcome was not committed), or have left a record behind that
\* the next open applies.
Handle(n, frame) ==
    /\ InSequence(n, frame) /\ frame.type = "Request"
    /\ \E reason \in Handled(n, frame), did \in BOOLEAN :
         /\ reason = "ok" => did
         /\ did => reason \in {"ok", "error"}
         /\ acted' = IF did
                     THEN [acted EXCEPT ![n] = Append(@, [live |-> epoch,
                                                          frame |-> frame])]
                     ELSE acted
         /\ worker' = [worker EXCEPT
                ![n].step = "answering", ![n].expected = @ + 1,
                ![n].answer = <<Incoming("Response", reason, worker[n].session,
                                         frame.call)>>]
    /\ UNCHANGED <<s2c, next_session>>

\* The answer goes out. Nothing compares it with a limit before: an OK whose body
\* is larger than the client accepts goes out all the same, and one that is larger
\* than the writer takes goes out with no payload.
Respond(n) ==
    LET answer == worker[n].answer[1] IN
    /\ worker[n].step = "answering"
    /\ \/ Sends(n, answer)
       \/ answer.reason = "ok" /\ SendFrame(n, answer, FALSE)
       \/ /\ answer.reason = "ok"
          /\ Sends(n, [answer EXCEPT !.reason = "unreadable"])
    /\ worker' = [worker EXCEPT ![n].step = "reading", ![n].answer = <<>>]
    /\ UNCHANGED <<c2s, left, written, up, epoch, next_session, acted, pc,
                   caller>>

\* The client's end closed: the read ends, or the answer cannot be sent.
PeerClosed(n) ==
    /\ n \in left
    /\ \/ worker[n].step \in {"hello", "reading"} /\ c2s[n] = <<>>
       \/ worker[n].step = "answering"
    /\ Finishes(n)
    /\ UNCHANGED <<c2s, s2c, left, written, up, epoch, next_session, acted, pc,
                   caller>>

-----------------------------------------------------------------------------
(* The service's process. *)

\* Killed: every connection ends, and what was sent on it still arrives or is
\* lost with it.
Crash ==
    /\ up /\ epoch < MaxEpoch /\ up' = FALSE
    /\ worker' = [n \in Connections |->
                     IF worker[n].step = "none" THEN Without
                     ELSE [Without EXCEPT !.step = "finished"]]
    /\ c2s' = [n \in Connections |-> <<>>]
    /\ \E lost \in SUBSET {n \in Library : s2c[n] # <<>>} :
         s2c' = [n \in Connections |-> IF n \in lost THEN <<>> ELSE s2c[n]]
    /\ UNCHANGED <<left, written, epoch, next_session, acted, pc, caller>>

\* A new incarnation on the same store has a higher epoch (module Engine).
Restart ==
    /\ ~up /\ up' = TRUE
    /\ epoch' = epoch + 1 /\ next_session' = 1
    /\ UNCHANGED <<c2s, s2c, left, written, worker, acted, pc, caller>>

Init ==
    /\ c2s = [n \in Connections |-> <<>>] /\ s2c = [n \in Connections |-> <<>>]
    /\ left = {} /\ written = [n \in Raw |-> 0]
    /\ up = TRUE /\ epoch = 1 /\ next_session = 1
    /\ acted = [n \in Connections |-> <<>>]
    /\ worker = [n \in Connections |-> Without]
    /\ pc = "closed" /\ call = 0 /\ attempt = 0
    /\ client = [connection |-> 0, boot |-> 0, session_id |-> 0, sequence |-> 0,
                 server_epoch |-> 0]
    /\ via = [k \in 1 .. MaxCalls |-> 0]
    /\ result = [k \in 1 .. MaxCalls |-> "none"]

Client ==
    \/ HandshakeLost \/ Call \/ SendFails \/ Lost \/ Close
    \/ \E n \in Library : Connect(n)
    \/ \E taken \in 1 .. 2 * MaxCalls : Welcomed(taken) \/ Answered(taken)

Peer(n) ==
    \/ RawConnect(n) \/ RawLeave(n)
    \/ \E frame \in RawFrames : RawWrite(n, frame)

Serve(n) ==
    \/ Respond(n) \/ PeerClosed(n)
    \/ \E frame \in Range(c2s[n]) :
         \/ ServeGarbled(n, frame) \/ ServeHello(n, frame)
         \/ RejectHello(n, frame) \/ ServeForeign(n, frame)
         \/ ServeGoodbye(n, frame) \/ ServeOutOfSequence(n, frame)
         \/ ServeOther(n, frame) \/ Handle(n, frame)

Next ==
    \/ Client \/ Crash \/ Restart
    \/ \E n \in Connections : Peer(n) \/ Serve(n)

Spec == Init /\ [][Next]_vars

-----------------------------------------------------------------------------
(* Properties. *)

\* The client, the session threads and the results have their types, and a
\* session thread holds an answer exactly while it sends one (ServeSession).
TypeOK ==
    /\ left \subseteq Connections /\ up \in BOOLEAN
    /\ epoch \in 1 .. MaxEpoch /\ next_session \in Nat
    /\ pc \in {"closed", "hello", "ready", "calling"}
    /\ call \in 0 .. MaxCalls /\ attempt \in 0 .. 2
    /\ pc = "calling" => attempt # 0
    /\ client.connection \in Library \cup {0}
    /\ \A n \in Connections :
         /\ worker[n].step \in {"none", "hello", "reading", "answering",
                                "finished"}
         /\ worker[n].step = "answering" <=> worker[n].answer # <<>>
    /\ via \in [1 .. MaxCalls -> Library \cup {0}]
    /\ result \in [1 .. MaxCalls ->
                      {"none", "ok", "refused", "epoch", "error", "unreadable",
                       "indeterminate"}]

\* Where the engine acted on call k.
Effects(k) ==
    UNION {{<<n, i>> : i \in {j \in DOMAIN acted[n] :
                                acted[n][j].frame.call = k}} : n \in Library}

\* No earlier call on the connection of call k ended with its answer unread, so
\* that the answer k read is its own: the client reads whatever comes first on a
\* connection it keeps.
Trusted(k) ==
    \A j \in 1 .. k - 1 : via[j] = via[k] => result[j] # "indeterminate"

\* What Call returns is the truth about its own request, whatever crashed or was
\* closed meanwhile and however large the answers are: the engine acts on no
\* request twice, on any connection. As long as no earlier call on the connection
\* was indeterminate, OK, and the Rejected of an answer without payload, come only
\* when the engine acted on it; a refusal by the session layer, a stale epoch
\* included, only when it did not and will not (Call, Exchange, Handle). An error
\* of the engine and Indeterminate leave open whether it did.
CallsAreTruthful ==
    \A k \in 1 .. MaxCalls :
        /\ \A x, y \in Effects(k) : x = y
        /\ Trusted(k) =>
             /\ result[k] \in {"ok", "unreadable"} => Effects(k) # {}
             /\ result[k] \in {"refused", "epoch"} => Effects(k) = {}

\* "regressed sequences and trailing bytes are refused", and "one session can
\* never act under another session's identity, boot or epoch" (README.md): what
\* the engine carries out for a connection was sent under the identity its own
\* handshake established and the live epoch, in the order it was sent, and no
\* frame is carried out twice, whatever its peer writes.
EffectsAreOwnedAndOrdered ==
    \A n \in Connections : \A i \in DOMAIN acted[n] :
        LET done == acted[n][i]
        IN  /\ done.frame.epoch = done.live
            /\ worker[n].step # "finished" =>
                 /\ done.frame.boot = worker[n].boot
                 /\ done.frame.session = worker[n].session
            /\ \A j \in DOMAIN acted[n] :
                 i < j => done.frame.sequence < acted[n][j].frame.sequence
=============================================================================

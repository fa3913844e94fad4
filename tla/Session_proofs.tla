--------------------------- MODULE Session_proofs ---------------------------
(***************************************************************************)
(* Proofs about the session protocol (module Session), for any number of   *)
(* connections, calls and restarts and whatever other peers write.         *)
(***************************************************************************)
EXTENDS Session, TLAPS

-----------------------------------------------------------------------------
(* The inductive invariant. *)

Steps == {"none", "hello", "reading", "answering", "finished"}

\* An Error frame never names the epoch: a stale one is answered by a Response.
Incomings ==
    {f \in [type : {"Welcome", "Response", "Error", "Pong"},
            reason : {"ok", "refused", "epoch", "error", "unreadable"},
            session : Nat, call : Nat, epoch : Nat] :
       f.type = "Error" => f.reason = "refused"}

Sessions == [step : Steps, session : Nat, boot : Nat, expected : Nat,
             answer : Seq(Incomings)]

Parts == [part : {"whole", "head", "tail"}, frame : Incomings]

Results == {"none", "ok", "refused", "epoch", "error", "unreadable",
            "indeterminate"}

\* What the engine acted on, and the epoch it lived in.
Acted == [live : Nat, frame : Outgoings]

WireInv ==
    /\ c2s \in [Connections -> Seq(Outgoings)]
    /\ s2c \in [Connections -> Seq(Parts)]

ServiceInv ==
    /\ up \in BOOLEAN /\ epoch \in 1 .. MaxEpoch /\ next_session \in Nat
    /\ ~up => epoch < MaxEpoch
    /\ worker \in [Connections -> Sessions]
    /\ \A n \in Connections :
         worker[n].step = "answering" <=> worker[n].answer # <<>>
    /\ acted \in [Connections -> Seq(Acted)]

CallerInv ==
    /\ left \subseteq Connections
    /\ pc \in {"closed", "hello", "ready", "calling"}
    /\ client \in [connection : Library \cup {0}, boot : Nat,
                   session_id : Nat, sequence : Nat, server_epoch : Nat]
    /\ pc # "closed" => client.connection \in Library
    /\ call \in 0 .. MaxCalls
    /\ pc = "calling" => call > 0
    /\ attempt = IF pc = "calling" THEN 1 ELSE 0
    /\ via \in [1 .. MaxCalls -> Library \cup {0}]
    /\ result \in [1 .. MaxCalls -> Results]

TypeInv == WireInv /\ ServiceInv /\ CallerInv

\* What the engine acted on for connection n has the identity of its session, if
\* there still is one, and comes before what may come next.
Owned(thread, done) ==
    /\ thread.step \in {"none", "hello"} => done = <<>>
    /\ \A i \in 1 .. Len(done) :
         /\ done[i].frame.epoch = done[i].live
         /\ thread.step \in {"reading", "answering"} =>
              /\ done[i].frame.boot = thread.boot
              /\ done[i].frame.session = thread.session
              /\ done[i].frame.sequence < thread.expected
    /\ \A i, j \in 1 .. Len(done) :
         i < j => done[i].frame.sequence < done[j].frame.sequence

OwnedInv(n) == Owned(worker[n], acted[n])

EffectsInv == \A n \in Connections : OwnedInv(n)

\* The requests of a connection n, acted on and then waiting: they are of calls
\* that were made on n, in the order the calls were made, and each of another one.
Lined(n, done, queue, made, on) ==
    /\ \A i \in 1 .. Len(done) :
         done[i].frame.call \in 1 .. made /\ on[done[i].frame.call] = n
    /\ \A i \in 1 .. Len(queue) :
         /\ queue[i].type = "Request"
         /\ queue[i].call \in 1 .. made /\ on[queue[i].call] = n
    /\ \A i, j \in 1 .. Len(done) :
         i < j => done[i].frame.call < done[j].frame.call
    /\ \A i, j \in 1 .. Len(queue) : i < j => queue[i].call < queue[j].call
    /\ \A i \in 1 .. Len(done), j \in 1 .. Len(queue) :
         done[i].frame.call < queue[j].call

LineInv(n) ==
    worker[n].step # "hello" => Lined(n, acted[n], c2s[n], call, via)

\* A connection before and during its handshake.
StreamInv(n) ==
    /\ worker[n].step = "none" =>
         /\ c2s[n] = <<>> /\ s2c[n] = <<>>
         /\ \A k \in 1 .. call : via[k] # n
    /\ worker[n].step = "hello" =>
         /\ n = client.connection /\ pc = "hello" /\ s2c[n] = <<>>
         /\ Len(c2s[n]) = 1 /\ WellOpened(c2s[n][1]) /\ c2s[n][1].call = 0

\* Call k is among neither what was done nor what waits.
Missing(k, done, queue) ==
    /\ \A i \in 1 .. Len(done) : done[i].frame.call # k
    /\ \A i \in 1 .. Len(queue) : queue[i].call # k

\* The engine did not act on call k, and will not.
Over(k) == \A n \in Library : Missing(k, acted[n], c2s[n])

\* The engine acted on call k.
Done(k) ==
    \E n \in Library : \E i \in 1 .. Len(acted[n]) : acted[n][i].frame.call = k

\* outcome is the truth about call k.
Truth(k, outcome) ==
    /\ outcome \in {"ok", "unreadable"} => Done(k)
    /\ outcome \in {"refused", "epoch"} => Over(k)

\* What the calls returned, and the call under way.
ResultInv ==
    /\ \A k \in 1 .. MaxCalls :
         /\ result[k] # "none" => k <= call
         /\ Trusted(k) => Truth(k, result[k])
    /\ pc = "calling" => via[call] = client.connection /\ result[call] = "none"

\* No call on connection m was indeterminate: what comes next answers the call
\* under way.
Sound(m) == \A k \in 1 .. call : via[k] = m => result[k] # "indeterminate"

\* f answers the call under way, and truthfully.
Answers(f) == f.type \in {"Response", "Error"} /\ Truth(call, f.reason)

\* What is on its way on the client's connection m, while it is sound: a request,
\* or its answer.
ClientInv(m) ==
    /\ pc = "hello" =>
         /\ worker[m].step # "answering" /\ Len(s2c[m]) <= 1
         /\ worker[m].step # "hello" => c2s[m] = <<>>
    /\ pc = "ready" =>
         worker[m].step # "answering" /\ c2s[m] = <<>> /\ s2c[m] = <<>>
    /\ pc = "calling" =>
         /\ c2s[m] # <<>> =>
              /\ Len(c2s[m]) = 1 /\ c2s[m][1].call = call
              /\ s2c[m] = <<>> /\ worker[m].step # "answering"
         /\ worker[m].step = "answering" =>
              s2c[m] = <<>> /\ Answers(worker[m].answer[1])
         /\ s2c[m] # <<>> /\ s2c[m][1].part = "whole" =>
              Len(s2c[m]) = 1 /\ Answers(s2c[m][1].frame)

FlowInv ==
    \A n \in Library :
      /\ LineInv(n) /\ StreamInv(n)
      /\ pc # "closed" /\ n = client.connection =>
           worker[n].step # "none" /\ (Sound(n) => ClientInv(n))

IInv == TypeInv /\ EffectsInv /\ ResultInv /\ FlowInv

-----------------------------------------------------------------------------
(* Types. *)

LEMMA FirstOfSeq ==
    ASSUME NEW S, NEW s \in Seq(S), s # <<>>
    PROVE  /\ Len(s) \in Nat \ {0} /\ s[1] \in S /\ Head(s) = s[1]
           /\ Tail(s) \in Seq(S) /\ Len(Tail(s)) = Len(s) - 1
OBVIOUS

LEMMA AtMostOne == Len(<<>>) <= 1 /\ 1 <= 1
OBVIOUS

\* A sequence of one has nothing after it.
LEMMA RestOfOne ==
    ASSUME NEW S, NEW s \in Seq(S), Len(s) = 1
    PROVE  s # <<>> /\ SubSeq(s, 2, 1) = <<>>
OBVIOUS

LEMMA TypeInit == Init => TypeInv
BY SessionAssumption
   DEF Init, TypeInv, WireInv, ServiceInv, CallerInv, Without, Sessions, Steps,
       Connections, Results

LEMMA ServiceStays ==
    ASSUME TypeInv, UNCHANGED service PROVE ServiceInv'
BY Zenon DEF TypeInv, ServiceInv, service

\* What a session thread reads is a frame, and leaves the rest.
LEMMA Received ==
    ASSUME TypeInv, NEW n \in Connections, NEW step, NEW frame,
           Receives(n, step, frame)
    PROVE  /\ frame \in Outgoings /\ frame = c2s[n][1]
           /\ c2s' \in [Connections -> Seq(Outgoings)]
           /\ c2s[n] # <<>> /\ c2s'[n] = Tail(c2s[n])
           /\ Len(c2s'[n]) = Len(c2s[n]) - 1
           /\ \A m \in Connections : m # n => c2s'[m] = c2s[m]
           /\ CallerInv'
<1>1. c2s \in [Connections -> Seq(Outgoings)] /\ c2s[n] \in Seq(Outgoings)
  BY Zenon DEF TypeInv, WireInv
<1>2. /\ c2s[n][1] \in Outgoings /\ Head(c2s[n]) = c2s[n][1]
      /\ Tail(c2s[n]) \in Seq(Outgoings)
      /\ Len(Tail(c2s[n])) = Len(c2s[n]) - 1
  BY Zenon, <1>1, FirstOfSeq DEF Receives
<1>3. CallerInv'
  BY Zenon DEF Receives, TypeInv, CallerInv, caller
<1> QED  BY Zenon, <1>1, <1>2, <1>3 DEF Receives

\* What a session thread sends keeps the streams well formed.
LEMMA Sent ==
    ASSUME TypeInv, NEW n \in Connections, NEW f \in Incomings,
           NEW whole \in BOOLEAN, SendFrame(n, f, whole)
    PROVE  s2c' \in [Connections -> Seq(Parts)]
<1>1. Pieces(f, whole) \in Seq(Parts)
  <2>1. /\ [part |-> "whole", frame |-> f] \in Parts
        /\ [part |-> "head", frame |-> f] \in Parts
        /\ [part |-> "tail", frame |-> f] \in Parts
    BY Zenon DEF Parts
  <2> QED  BY <2>1 DEF Pieces
<1>2. s2c \in [Connections -> Seq(Parts)]
  BY Zenon DEF TypeInv, WireInv
<1>3. s2c[n] \o Pieces(f, whole) \in Seq(Parts)
  BY <1>1, <1>2
<1> QED  BY Zenon, <1>2, <1>3 DEF SendFrame

\* A client that is not in a call keeps its types.
LEMMA OpensType ==
    ASSUME TypeInv, NEW n, NEW boot \in Nat, Opens(n, boot)
    PROVE  /\ c2s' \in [Connections -> Seq(Outgoings)]
           /\ worker' \in [Connections -> Sessions]
           /\ \A m \in Connections :
                worker'[m].step = "answering" <=> worker'[m].answer # <<>>
           /\ client' \in [connection : Library \cup {0}, boot : Nat,
                           session_id : Nat, sequence : Nat,
                           server_epoch : Nat]
           /\ client'.connection \in Library /\ pc' = "hello"
<1>1. n \in Library /\ n \in Connections
  BY Zenon DEF Opens, Connections
<1>2. Outgoing("Hello", 0, 1, boot, 0, 0) \in Outgoings
  BY Zenon DEF Outgoing, Outgoings
<1>3. c2s' \in [Connections -> Seq(Outgoings)]
  <2>1. <<Outgoing("Hello", 0, 1, boot, 0, 0)>> \in Seq(Outgoings)
    BY <1>2
  <2> QED  BY Zenon, <1>1, <2>1 DEF Opens, TypeInv, WireInv
<1>4. /\ worker' \in [Connections -> Sessions]
      /\ \A m \in Connections :
           worker'[m].step = "answering" <=> worker'[m].answer # <<>>
  BY Zenon, <1>1 DEF Opens, TypeInv, ServiceInv, Sessions, Steps
<1> QED  BY Zenon, <1>1, <1>3, <1>4 DEF Opens, TypeInv, CallerInv

\* Every step of the client keeps the types.
LEMMA ClientType == ASSUME TypeInv, Client PROVE TypeInv'
<1>1. CASE HandshakeLost
  BY Zenon, <1>1, SessionAssumption
     DEF HandshakeLost, TypeInv, WireInv, ServiceInv, CallerInv, service,
         Connections
<1>2. CASE Call
  <2>1. client.connection \in Library /\ call' \in 0 .. MaxCalls /\ call' > 0
        /\ attempt' = 1
    BY <1>2, SessionAssumption DEF Call, TypeInv, CallerInv
  <2>2. Outgoing("Request", client.session_id, client.sequence + 1,
                 client.boot, client.server_epoch, call') \in Outgoings
    BY <2>1, SessionAssumption DEF Outgoing, Outgoings, TypeInv, CallerInv
  <2>3. c2s' \in [Connections -> Seq(Outgoings)]
    <3>1. PICK q \in Outgoings :
            q = Outgoing("Request", client.session_id, client.sequence + 1,
                         client.boot, client.server_epoch, call')
      BY Zenon, <2>2
    <3>2. c2s' = [c2s EXCEPT ![client.connection] = Append(@, q)]
      BY Zenon, <1>2, <3>1 DEF Call
    <3>3. client.connection \in Connections
      BY Zenon, <2>1 DEF Connections
    <3> QED  BY <3>2, <3>3 DEF TypeInv, WireInv
  <2>4. CallerInv'
    BY <1>2, <2>1 DEF Call, TypeInv, CallerInv
  <2> QED  BY Zenon, <1>2, <2>3, <2>4, ServiceStays DEF Call, TypeInv, WireInv
<1>3. CASE SendFails
  <2>1. CallerInv'
    BY <1>3, SessionAssumption DEF SendFails, TypeInv, CallerInv, Results
  <2> QED  BY Zenon, <1>3, <2>1, ServiceStays DEF SendFails, TypeInv, WireInv
<1>4. CASE Lost
  BY Zenon, <1>4, SessionAssumption
     DEF Lost, Returns, TypeInv, WireInv, ServiceInv, CallerInv, service,
         Results
<1>5. CASE Close
  <2>1. client.connection \in Connections
    BY Zenon, <1>5 DEF Close, TypeInv, CallerInv, Connections
  <2>2. s2c' \in [Connections -> Seq(Parts)]
    <3>1. s2c \in [Connections -> Seq(Parts)]
      BY Zenon DEF TypeInv, WireInv
    <3>2. <<>> \in Seq(Parts)
      OBVIOUS
    <3> QED  BY Zenon, <1>5, <2>1, <3>1, <3>2 DEF Close
  <2>3. result' \in [1 .. MaxCalls -> Results]
    BY Zenon, <1>5 DEF Close, TypeInv, CallerInv, Results
  <2> QED
    BY Zenon, <1>5, <2>1, <2>2, <2>3
       DEF Close, TypeInv, WireInv, ServiceInv, CallerInv, service
<1>6. CASE \E n \in Library : Connect(n)
  <2>1. PICK n \in Library : Connect(n)
    BY Zenon, <1>6
  <2>2. n \in Nat /\ Opens(n, n)
    BY Zenon, <2>1, SessionAssumption DEF Connect, Connections
  <2> QED
    BY Zenon, <2>1, <2>2, OpensType
       DEF Connect, TypeInv, WireInv, ServiceInv, CallerInv
<1>7. CASE \E taken \in 1 .. 2 * MaxCalls : Welcomed(taken) \/ Answered(taken)
  <2>1. PICK taken \in 1 .. 2 * MaxCalls : Welcomed(taken) \/ Answered(taken)
    BY Zenon, <1>7
  <2>2. /\ client.connection \in Library /\ client.connection \in Connections
        /\ Reads(client.connection, taken)
    BY Zenon, <2>1 DEF Welcomed, Answered, TypeInv, CallerInv, Connections
  <2>3. PICK m \in Connections : m = client.connection
    BY Zenon, <2>2
  <2>4. s2c[m] \in Seq(Parts) /\ taken \in 1 .. Len(s2c[m])
    BY Zenon, <2>2, <2>3 DEF Reads, TypeInv, WireInv
  <2>5. First \in Parts /\ First = s2c[m][1]
    <3> QED  BY <2>3, <2>4, FirstOfSeq DEF First
  <2>6. s2c' \in [Connections -> Seq(Parts)]
    <3>1. SubSeq(s2c[m], taken + 1, Len(s2c[m])) \in Seq(Parts)
      <4> QED  BY <2>4
    <3> QED  BY Zenon, <2>2, <2>3, <3>1 DEF Reads, TypeInv, WireInv
  <2>7. /\ First.frame.session \in Nat /\ First.frame.epoch \in Nat
        /\ First.frame.type = "Error" => First.frame.reason = "refused"
        /\ First.frame.reason \in Results
    BY Zenon, <2>5 DEF Parts, Incomings, Results
  <2>8. CASE Welcomed(taken)
    <3>1. CallerInv'
      <4>1. CASE First.part = "whole" /\ First.frame.type = "Welcome"
        <5>1. PICK a \in Nat, b \in Nat :
                client' = [client EXCEPT !.session_id = a, !.sequence = 1,
                                         !.server_epoch = b]
          BY Zenon, <2>7, <2>8, <4>1 DEF Welcomed
        <5>2. UNCHANGED <<left, call, attempt, via, result>> /\ pc = "hello"
              /\ pc' = "ready"
          BY Zenon, <2>8, <4>1 DEF Welcomed
        <5> QED  BY Zenon, <2>2, <5>1, <5>2 DEF TypeInv, CallerInv
      <4>2. CASE ~(First.part = "whole" /\ First.frame.type = "Welcome")
        BY Zenon, <2>2, <2>8, <4>2 DEF Welcomed, TypeInv, CallerInv
      <4> QED  BY Zenon, <4>1, <4>2
    <3> QED  BY Zenon, <2>6, <2>8, <3>1, ServiceStays
                DEF Welcomed, TypeInv, WireInv
  <2>9. CASE Answered(taken)
    <3>1. ~Rehandshakes(First.frame)
      BY Zenon, <2>7 DEF Rehandshakes
    <3>2. PICK outcome \in Results : Returns(outcome)
      BY Zenon, <2>7, <2>9, <3>1 DEF Answered, Outcome, Results
    <3> QED
      BY Zenon, <2>6, <2>9, <3>1, <3>2
         DEF Answered, Returns, TypeInv, WireInv, ServiceInv, CallerInv, service
  <2> QED  BY Zenon, <2>1, <2>8, <2>9
<1> QED  BY Zenon, <1>1, <1>2, <1>3, <1>4, <1>5, <1>6, <1>7 DEF Client

\* Steps of the peers that are not the library's.
LEMMA PeerType ==
    ASSUME TypeInv, NEW n \in Connections, Peer(n) PROVE TypeInv'
<1>1. CASE RawConnect(n)
  <2>1. ServiceInv'
    BY ZenonT(60), <1>1 DEF RawConnect, TypeInv, ServiceInv, Sessions, Steps
  <2> QED
    BY Zenon, <1>1, <2>1 DEF RawConnect, TypeInv, WireInv, CallerInv, caller
<1>2. CASE RawLeave(n)
  <2>1. CallerInv'
    BY Zenon, <1>2 DEF RawLeave, TypeInv, CallerInv, caller
  <2> QED  BY Zenon, <1>2, <2>1, ServiceStays DEF RawLeave, TypeInv, WireInv
<1>3. CASE \E frame \in RawFrames : RawWrite(n, frame)
  <2>1. PICK frame \in Outgoings : RawWrite(n, frame)
    BY Zenon, <1>3, SessionAssumption
  <2>2. c2s' \in [Connections -> Seq(Outgoings)]
    BY <2>1 DEF RawWrite, TypeInv, WireInv
  <2>3. CallerInv'
    BY Zenon, <2>1 DEF RawWrite, TypeInv, CallerInv, caller
  <2> QED  BY Zenon, <2>1, <2>2, <2>3, ServiceStays
              DEF RawWrite, TypeInv, WireInv
<1> QED  BY Zenon, <1>1, <1>2, <1>3 DEF Peer

\* The states a session thread starts and ends in.
LEMMA WithoutType ==
    /\ Without \in Sessions
    /\ Without.step = "none" /\ Without.answer = <<>>
    /\ [Without EXCEPT !.step = "finished"] \in Sessions
    /\ [Without EXCEPT !.step = "finished"].step = "finished"
    /\ [Without EXCEPT !.step = "finished"].answer = <<>>
<1>1. "none" \in Steps /\ "finished" \in Steps /\ <<>> \in Seq(Incomings)
  BY DEF Steps
<1>2. /\ Without \in Sessions
      /\ Without.step = "none" /\ Without.answer = <<>>
  BY Zenon, <1>1 DEF Without, Sessions
<1>3. PICK w \in Sessions : w = Without
  BY Zenon, <1>2
<1>4. /\ [w EXCEPT !.step = "finished"] \in Sessions
      /\ [w EXCEPT !.step = "finished"].step = "finished"
      /\ [w EXCEPT !.step = "finished"].answer = w.answer
  BY <1>1, Zenon DEF Sessions
<1> QED  BY Zenon, <1>2, <1>3, <1>4

\* What a session thread that changes its state needs to keep.
LEMMA ThreadType ==
    ASSUME TypeInv, NEW n \in Connections, NEW w \in Sessions,
           w.step = "answering" <=> w.answer # <<>>,
           worker' = [worker EXCEPT ![n] = w]
    PROVE  /\ worker' \in [Connections -> Sessions] /\ worker'[n] = w
           /\ \A m \in Connections : m # n => worker'[m] = worker[m]
           /\ \A m \in Connections :
                worker'[m].step = "answering" <=> worker'[m].answer # <<>>
BY Zenon DEF TypeInv, ServiceInv

\* A session thread that ends leaves nothing behind.
LEMMA Finished ==
    ASSUME TypeInv, NEW n \in Connections, Finishes(n)
    PROVE  /\ worker' \in [Connections -> Sessions]
           /\ worker'[n] = [Without EXCEPT !.step = "finished"]
           /\ worker'[n].step = "finished" /\ worker'[n].answer = <<>>
           /\ \A m \in Connections : m # n => worker'[m] = worker[m]
           /\ \A m \in Connections :
                worker'[m].step = "answering" <=> worker'[m].answer # <<>>
<1>1. PICK w : w = [Without EXCEPT !.step = "finished"]
  BY Zenon
<1>2. w \in Sessions /\ w.step = "finished" /\ w.answer = <<>>
  BY Zenon, <1>1, WithoutType
<1>3. worker' = [worker EXCEPT ![n] = w]
  BY Zenon, <1>1 DEF Finishes
<1> QED  BY Zenon, <1>1, <1>2, <1>3, ThreadType

\* An Error frame of the session thread is a frame.
LEMMA ErrorIsFrame ==
    ASSUME TypeInv, NEW n \in Connections, NEW number \in Nat
    PROVE  Incoming("Error", "refused", worker[n].session, number) \in Incomings
<1>1. worker[n].session \in Nat /\ epoch \in Nat
  BY SessionAssumption DEF TypeInv, ServiceInv, Sessions
<1> QED  BY Zenon, <1>1 DEF Incoming, Incomings

\* Steps of a session thread.
LEMMA ServeType ==
    ASSUME TypeInv, NEW n \in Connections, Serve(n) PROVE TypeInv'
<1>1. worker[n] \in Sessions /\ epoch \in Nat /\ next_session \in Nat
  BY SessionAssumption DEF TypeInv, ServiceInv
<1>2. CASE Respond(n)
  <2>1. worker[n].answer \in Seq(Incomings) /\ worker[n].answer # <<>>
    BY Zenon, <1>1, <1>2 DEF Respond, TypeInv, ServiceInv, Sessions
  <2>2. worker[n].answer[1] \in Incomings
    BY Zenon, <2>1, FirstOfSeq
  <2>3. PICK f \in Incomings, whole \in BOOLEAN : SendFrame(n, f, whole)
    <3>1. PICK answer \in Incomings : answer = worker[n].answer[1]
      BY Zenon, <2>2
    <3>2. answer.reason = "ok" =>
            [answer EXCEPT !.reason = "unreadable"] \in Incomings
      BY DEF Incomings
    <3> QED  BY Zenon, <1>2, <3>1, <3>2 DEF Respond, Sends
  <2>4. WireInv'
    BY Zenon, <1>2, <2>3, Sent DEF Respond, TypeInv, WireInv
  <2>5. ServiceInv'
    BY <1>2 DEF Respond, TypeInv, ServiceInv, Sessions, Steps
  <2> QED  BY Zenon, <1>2, <2>4, <2>5 DEF Respond, TypeInv, CallerInv, caller
<1>3. CASE PeerClosed(n)
  <2>1. Finishes(n) /\ UNCHANGED <<c2s, s2c, up, epoch, next_session, acted>>
    BY Zenon, <1>3 DEF PeerClosed
  <2>2. ServiceInv'
    BY Zenon, <2>1, Finished DEF TypeInv, ServiceInv
  <2> QED  BY Zenon, <1>3, <2>1, <2>2
              DEF PeerClosed, TypeInv, WireInv, CallerInv, caller
<1>4. ASSUME NEW frame, ServeGarbled(n, frame) PROVE TypeInv'
  <2>1. PICK step : Receives(n, step, frame)
    BY Zenon, <1>4 DEF ServeGarbled
  <2>2. frame \in Outgoings /\ c2s' \in [Connections -> Seq(Outgoings)]
        /\ CallerInv'
    BY Zenon, <2>1, Received
  <2>3. WireInv'
    BY Zenon, <1>4, <2>2, ErrorIsFrame, Sent
       DEF ServeGarbled, SendsError, Sends, Outgoings, WireInv
  <2>4. ServiceInv'
    BY Zenon, <1>4, <2>1, Finished
       DEF ServeGarbled, Receives, TypeInv, ServiceInv
  <2> QED  BY Zenon, <2>2, <2>3, <2>4 DEF TypeInv
<1>5. ASSUME NEW frame, ServeHello(n, frame) PROVE TypeInv'
  <2>1. /\ frame \in Outgoings /\ c2s' \in [Connections -> Seq(Outgoings)]
        /\ CallerInv'
    BY Zenon, <1>5, Received DEF ServeHello
  <2>2. Incoming("Welcome", "ok", next_session, 0) \in Incomings
    BY Zenon, <1>1 DEF Incoming, Incomings
  <2>3. WireInv'
    BY Zenon, <1>5, <2>1, <2>2, Sent DEF ServeHello, Sends, WireInv
  <2>4. PICK b \in Nat : b = frame.boot
    BY Zenon, <2>1 DEF Outgoings
  <2>5. worker' = [worker EXCEPT ![n].step = "reading", ![n].boot = b,
                         ![n].session = next_session, ![n].expected = 2]
    BY Zenon, <1>5, <2>4 DEF ServeHello
  <2>6. worker[n].step = "hello" /\ next_session' = next_session + 1
        /\ UNCHANGED <<up, epoch, acted>>
    BY Zenon, <1>5 DEF ServeHello, Receives
  <2> DEFINE w == [worker[n] EXCEPT !.step = "reading", !.boot = b,
                           !.session = next_session, !.expected = 2]
  <2>7. /\ w \in Sessions
        /\ w.step = "reading" /\ w.answer = worker[n].answer
    <3>1. "reading" \in Steps /\ 2 \in Nat
      BY Zenon DEF Steps
    <3>2. worker[n] \in Sessions /\ next_session \in Nat
      BY Zenon, <1>1
    <3> QED  BY <3>1, <3>2, Zenon DEF Sessions
  <2>8. worker' = [worker EXCEPT ![n] = w]
    BY Zenon, <2>5
  <2> HIDE DEF w
  <2>9. worker[n].answer = <<>>
    BY Zenon, <2>6 DEF TypeInv, ServiceInv
  <2>10. ServiceInv'
    <3>1. /\ worker' \in [Connections -> Sessions]
          /\ \A m \in Connections :
               worker'[m].step = "answering" <=> worker'[m].answer # <<>>
      BY Zenon, <2>7, <2>8, <2>9, ThreadType
    <3>2. next_session' \in Nat
      BY <1>1, <2>6
    <3> QED  BY Zenon, <2>6, <3>1, <3>2 DEF TypeInv, ServiceInv
  <2> QED  BY Zenon, <2>1, <2>3, <2>10 DEF TypeInv
<1>6. ASSUME NEW frame, RejectHello(n, frame) \/ ServeGoodbye(n, frame)
      PROVE TypeInv'
  <2>1. PICK step : Receives(n, step, frame)
    BY Zenon, <1>6 DEF RejectHello, ServeGoodbye, Own
  <2>2. Finishes(n) /\ UNCHANGED <<s2c, next_session, acted, up, epoch>>
    BY Zenon, <1>6, <2>1 DEF RejectHello, ServeGoodbye, Receives
  <2>3. ServiceInv'
    BY Zenon, <2>2, Finished DEF TypeInv, ServiceInv
  <2> QED  BY Zenon, <2>1, <2>2, <2>3, Received DEF TypeInv, WireInv
<1>7. ASSUME NEW frame, ServeForeign(n, frame) PROVE TypeInv'
  <2>1. Receives(n, "reading", frame)
    BY Zenon, <1>7 DEF ServeForeign
  <2>2. frame \in Outgoings /\ c2s' \in [Connections -> Seq(Outgoings)]
        /\ CallerInv'
    BY Zenon, <2>1, Received
  <2>3. WireInv'
    BY Zenon, <1>7, <2>2, ErrorIsFrame, Sent
       DEF ServeForeign, SendsError, Sends, Outgoings, WireInv
  <2>4. UNCHANGED service
    BY Zenon, <1>7, <2>1 DEF ServeForeign, Receives, service
  <2> QED  BY Zenon, <2>2, <2>3, <2>4, ServiceStays DEF TypeInv
<1>8. ASSUME NEW frame, ServeOutOfSequence(n, frame) PROVE TypeInv'
  <2>1. Receives(n, "reading", frame)
    BY Zenon, <1>8 DEF ServeOutOfSequence, Own
  <2>2. frame \in Outgoings /\ c2s' \in [Connections -> Seq(Outgoings)]
        /\ CallerInv'
    BY <2>1, Received
  <2>3. WireInv'
    BY Zenon, <1>8, <2>2, ErrorIsFrame, Sent
       DEF ServeOutOfSequence, SendsError, Sends, Outgoings, WireInv
  <2>4. ServiceInv'
    BY Zenon, <1>8, <2>1, Finished
       DEF ServeOutOfSequence, Receives, TypeInv, ServiceInv
  <2> QED  BY <2>2, <2>3, <2>4 DEF TypeInv
<1>9. ASSUME NEW frame, ServeOther(n, frame) PROVE TypeInv'
  <2>1. Receives(n, "reading", frame)
    BY Zenon, <1>9 DEF ServeOther, InSequence, Own
  <2>2. frame \in Outgoings /\ c2s' \in [Connections -> Seq(Outgoings)]
        /\ CallerInv' /\ frame.call \in Nat
    BY <2>1, Received DEF Outgoings
  <2>3. Incoming("Pong", "ok", worker[n].session, frame.call) \in Incomings
    BY Zenon, <1>1, <2>2 DEF Incoming, Incomings, Sessions
  <2>4. WireInv'
    BY Zenon, <1>9, <2>2, <2>3, ErrorIsFrame, Sent
       DEF ServeOther, SendsError, Sends, WireInv
  <2>5. worker' = [worker EXCEPT ![n].expected = @ + 1]
        /\ UNCHANGED <<up, epoch, next_session, acted>>
    BY Zenon, <1>9, <2>1 DEF ServeOther, Receives
  <2>6. ServiceInv'
    <3> DEFINE w == [worker[n] EXCEPT !.expected = @ + 1]
    <3>1. /\ w \in Sessions
          /\ w.step = worker[n].step /\ w.answer = worker[n].answer
      <4>1. worker[n].expected + 1 \in Nat
        BY <1>1 DEF Sessions
      <4> QED  BY <1>1, <4>1, Zenon DEF Sessions
    <3>2. worker' = [worker EXCEPT ![n] = w]
      BY Zenon, <2>5
    <3> HIDE DEF w
    <3>3. w.step = "answering" <=> w.answer # <<>>
      BY Zenon, <3>1 DEF TypeInv, ServiceInv
    <3> QED  BY Zenon, <2>5, <3>1, <3>2, <3>3, ThreadType
                DEF TypeInv, ServiceInv
  <2> QED  BY Zenon, <2>2, <2>4, <2>6 DEF TypeInv
<1>10. ASSUME NEW frame, Handle(n, frame) PROVE TypeInv'
  <2>1. Receives(n, "reading", frame)
    BY Zenon, <1>10 DEF Handle, InSequence, Own
  <2>2. frame \in Outgoings /\ c2s' \in [Connections -> Seq(Outgoings)]
        /\ CallerInv' /\ frame.call \in Nat
    BY <2>1, Received DEF Outgoings
  <2>3. PICK reason \in {"ok", "refused", "epoch", "error"}, did \in BOOLEAN :
          /\ acted' = IF did
                      THEN [acted EXCEPT ![n] = Append(@, [live |-> epoch,
                                                           frame |-> frame])]
                      ELSE acted
          /\ worker' = [worker EXCEPT
                 ![n].step = "answering", ![n].expected = @ + 1,
                 ![n].answer = <<Incoming("Response", reason,
                                          worker[n].session, frame.call)>>]
    BY Zenon, <1>10 DEF Handle, Handled
  <2>4. Incoming("Response", reason, worker[n].session, frame.call) \in Incomings
    BY Zenon, <1>1, <2>2 DEF Incoming, Incomings, Sessions
  <2>5. PICK f \in Incomings :
          f = Incoming("Response", reason, worker[n].session, frame.call)
    BY Zenon, <2>4
  <2>6. /\ worker' \in [Connections -> Sessions]
        /\ \A m \in Connections :
             worker'[m].step = "answering" <=> worker'[m].answer # <<>>
    <3>1. <<f>> \in Seq(Incomings) /\ <<f>> # <<>>
      OBVIOUS
    <3> DEFINE w == [worker[n] EXCEPT !.step = "answering",
                             !.expected = @ + 1, !.answer = <<f>>]
    <3>2. w \in Sessions /\ w.step = "answering" /\ w.answer = <<f>>
      <4>1. worker[n].expected + 1 \in Nat /\ "answering" \in Steps
        BY <1>1 DEF Sessions, Steps
      <4> QED  BY <1>1, <3>1, <4>1, Zenon DEF Sessions
    <3>3. worker' = [worker EXCEPT ![n] = w]
      BY Zenon, <2>3, <2>5
    <3> HIDE DEF w
    <3> QED  BY Zenon, <3>1, <3>2, <3>3, ThreadType
  <2>7. acted' \in [Connections -> Seq(Acted)]
    <3>1. [live |-> epoch, frame |-> frame] \in Acted
      BY Zenon, <1>1, <2>2 DEF Acted
    <3>2. acted \in [Connections -> Seq(Acted)]
      BY Zenon DEF TypeInv, ServiceInv
    <3> QED  BY <2>3, <3>1, <3>2
  <2>8. UNCHANGED <<s2c, next_session, up, epoch>>
    BY Zenon, <1>10, <2>1 DEF Handle, Receives
  <2> QED  BY Zenon, <2>2, <2>6, <2>7, <2>8 DEF TypeInv, WireInv, ServiceInv
<1> QED
  BY Zenon, <1>2, <1>3, <1>4, <1>5, <1>6, <1>7, <1>8, <1>9, <1>10 DEF Serve

\* The service is killed, or started again.
LEMMA ProcessType == ASSUME TypeInv, Crash \/ Restart PROVE TypeInv'
<1>1. CASE Crash
  <2>1. s2c' \in [Connections -> Seq(Parts)]
    <3>1. PICK lost : s2c' = [m \in Connections |->
                                IF m \in lost THEN <<>> ELSE s2c[m]]
      BY Zenon, <1>1 DEF Crash
    <3>2. s2c \in [Connections -> Seq(Parts)]
      BY Zenon DEF TypeInv, WireInv
    <3> QED  BY <3>1, <3>2
  <2>2. c2s' \in [Connections -> Seq(Outgoings)]
    BY <1>1 DEF Crash
  <2>3. /\ worker' \in [Connections -> Sessions]
        /\ \A m \in Connections :
             worker'[m].step = "answering" <=> worker'[m].answer # <<>>
    BY Zenon, <1>1, WithoutType DEF Crash
  <2>4. ServiceInv'
    BY Zenon, <1>1, <2>3, SessionAssumption DEF Crash, TypeInv, ServiceInv
  <2> QED
    BY Zenon, <1>1, <2>1, <2>2, <2>4
       DEF Crash, TypeInv, WireInv, CallerInv, caller
<1>2. CASE Restart
  <2>1. epoch' \in 1 .. MaxEpoch /\ next_session' \in Nat
    BY <1>2, SessionAssumption DEF Restart, TypeInv, ServiceInv
  <2>2. ServiceInv'
    BY <1>2, <2>1, Zenon DEF Restart, TypeInv, ServiceInv
  <2> QED  BY Zenon, <1>2, <2>2 DEF Restart, TypeInv, WireInv, CallerInv, caller
<1> QED  BY Zenon, <1>1, <1>2

LEMMA TypeStep == ASSUME TypeInv, [Next]_vars PROVE TypeInv'
<1>1. CASE UNCHANGED vars
  BY Zenon, <1>1
     DEF vars, service, caller, TypeInv, WireInv, ServiceInv, CallerInv
<1>2. CASE Next
  BY Zenon, <1>2, ClientType, PeerType, ServeType, ProcessType DEF Next
<1> QED  BY Zenon, <1>1, <1>2

-----------------------------------------------------------------------------
(* What the engine carries out is owned and ordered. *)

\* A step that concerns one connection leaves what is owned on the others.
LEMMA OwnedElsewhere ==
    ASSUME EffectsInv, NEW n \in Connections, OwnedInv(n)',
           \A m \in Connections :
             m # n => worker'[m] = worker[m] /\ acted'[m] = acted[m]
    PROVE  EffectsInv'
<1> SUFFICES ASSUME NEW m \in Connections PROVE OwnedInv(m)'
  BY Zenon DEF EffectsInv
<1>1. CASE m = n
  BY Zenon, <1>1
<1>2. CASE m # n
  <2>1. OwnedInv(m) /\ worker'[m] = worker[m] /\ acted'[m] = acted[m]
    BY Zenon, <1>2 DEF EffectsInv
  <2> QED  BY Zenon, <2>1 DEF OwnedInv
<1> QED  BY Zenon, <1>1, <1>2

LEMMA ActedSequence ==
    ASSUME NEW s \in Seq(Acted), NEW i \in 1 .. Len(s)
    PROVE  s[i].frame.sequence \in Nat
<1>1. s[i] \in Acted
  OBVIOUS
<1>2. s[i].frame \in Outgoings
  BY Zenon, <1>1 DEF Acted
<1> QED  BY Zenon, <1>2 DEF Outgoings

\* A connection that opens has no effects, and one that finishes keeps them.
LEMMA OwnedKept ==
    ASSUME TypeInv, EffectsInv, NEW n \in Connections, UNCHANGED acted,
           \A m \in Connections : m # n => worker'[m] = worker[m],
           \/ worker[n].step = "none" /\ worker'[n].step = "hello"
           \/ worker[n].step = "hello" /\ worker'[n].step = "reading"
           \/ worker'[n].step = "finished"
           \/ /\ worker[n].step \in {"reading", "answering"}
              /\ worker'[n].step = "reading"
              /\ worker'[n].boot = worker[n].boot
              /\ worker'[n].session = worker[n].session
              /\ worker'[n].expected \in Nat
              /\ worker[n].expected <= worker'[n].expected
    PROVE  EffectsInv'
<1>1. /\ acted[n] \in Seq(Acted)
      /\ worker[n].expected \in Nat
  BY Zenon DEF TypeInv, ServiceInv, Sessions
<1>2. \A i \in 1 .. Len(acted[n]) : acted[n][i].frame.sequence \in Nat
  BY Zenon, <1>1, ActedSequence
<1>3. OwnedInv(n)
  BY Zenon DEF EffectsInv
<1>4. worker[n].step \in {"none", "hello"} => Len(acted[n]) = 0
  BY <1>3 DEF OwnedInv, Owned
<1>5. OwnedInv(n)'
  BY <1>1, <1>2, <1>3, <1>4 DEF OwnedInv, Owned
<1> QED  BY Zenon, <1>5, OwnedElsewhere

\* What the engine carries out has the identity of the session and the epoch it
\* lives in, and comes after all that was carried out before.
LEMMA HandleOwned ==
    ASSUME TypeInv, EffectsInv, NEW n \in Connections, NEW frame,
           Handle(n, frame)
    PROVE  EffectsInv'
<1>1. /\ acted \in [Connections -> Seq(Acted)]
      /\ worker[n] \in Sessions /\ epoch \in Nat
  BY SessionAssumption DEF TypeInv, ServiceInv
<1>2. /\ worker[n].step = "reading" /\ frame.session = worker[n].session
      /\ frame.sequence = worker[n].expected /\ worker[n].expected \in Nat
      /\ frame \in Outgoings
  <2>1. Receives(n, "reading", frame) /\ frame.session = worker[n].session
        /\ frame.sequence = worker[n].expected
    BY Zenon DEF Handle, InSequence, Own
  <2>2. worker[n].step = "reading" /\ frame \in Outgoings
    BY Zenon, <2>1, Received DEF Receives
  <2>3. worker[n].expected \in Nat
    BY Zenon, <1>1 DEF Sessions
  <2> QED  BY Zenon, <2>1, <2>2, <2>3
<1>3. PICK reason \in Handled(n, frame), did \in BOOLEAN :
        /\ did => reason \in {"ok", "error"}
        /\ acted' = IF did
                    THEN [acted EXCEPT ![n] = Append(@, [live |-> epoch,
                                                         frame |-> frame])]
                    ELSE acted
        /\ worker' = [worker EXCEPT
               ![n].step = "answering", ![n].expected = @ + 1,
               ![n].answer = <<Incoming("Response", reason, worker[n].session,
                                        frame.call)>>]
  BY Zenon DEF Handle
<1>4. /\ worker'[n].step = "answering" /\ worker'[n].boot = worker[n].boot
      /\ worker'[n].session = worker[n].session
      /\ worker'[n].expected = worker[n].expected + 1
      /\ \A m \in Connections : m # n => worker'[m] = worker[m]
  BY Zenon, <1>1, <1>3 DEF TypeInv, ServiceInv, Sessions
<1>5. did => frame.boot = worker[n].boot /\ frame.epoch = epoch
  BY Zenon, <1>3 DEF Handled
<1>6. OwnedInv(n)
  BY Zenon DEF EffectsInv
<1>7. \A i \in 1 .. Len(acted[n]) : acted[n][i].frame.sequence \in Nat
  BY Zenon, <1>1, ActedSequence
<1>8. /\ acted[n] \in Seq(Acted)
      /\ Len(acted[n]) \in Nat
  BY <1>1
<1>9. CASE did
  <2> DEFINE done == [live |-> epoch, frame |-> frame]
  <2>1. done.live = epoch /\ done.frame = frame
        /\ done \in Acted
    BY Zenon, <1>1, <1>2 DEF Acted
  <2> HIDE DEF done
  <2>2. /\ acted'[n] = Append(acted[n], done)
        /\ \A m \in Connections : m # n => acted'[m] = acted[m]
    BY Zenon, <1>1, <1>3, <1>9 DEF done
  <2>3. /\ Len(acted'[n]) = Len(acted[n]) + 1
        /\ acted'[n][Len(acted[n]) + 1] = done
        /\ \A i \in 1 .. Len(acted[n]) : acted'[n][i] = acted[n][i]
    BY <1>8, <2>1, <2>2
  <2>4. OwnedInv(n)'
    <3>1. ASSUME NEW i \in 1 .. Len(acted'[n])
          PROVE  /\ acted'[n][i].frame.epoch = acted'[n][i].live
                 /\ acted'[n][i].frame.boot = worker'[n].boot
                 /\ acted'[n][i].frame.session = worker'[n].session
                 /\ acted'[n][i].frame.sequence < worker'[n].expected
      <4>1. CASE i = Len(acted[n]) + 1
        <5>1. worker[n].expected < worker[n].expected + 1
          BY <1>2
        <5>2. acted'[n][i] = done
          BY Zenon, <2>3, <4>1
        <5> QED  BY Zenon, <1>2, <1>4, <1>5, <1>9, <2>1, <5>1, <5>2
      <4>2. CASE i # Len(acted[n]) + 1
        <5>1. i \in 1 .. Len(acted[n])
          BY <1>8, <2>3, <4>2
        <5>2. /\ acted[n][i].frame.epoch = acted[n][i].live
              /\ acted[n][i].frame.boot = worker[n].boot
              /\ acted[n][i].frame.session = worker[n].session
              /\ acted[n][i].frame.sequence < worker[n].expected
              /\ acted[n][i].frame.sequence \in Nat
          BY Zenon, <1>2, <1>6, <1>7, <5>1 DEF OwnedInv, Owned
        <5>3. acted'[n][i] = acted[n][i]
          BY Zenon, <2>3, <5>1
        <5>4. acted[n][i].frame.sequence < worker[n].expected + 1
          BY <1>2, <5>2
        <5> QED  BY Zenon, <1>4, <5>2, <5>3, <5>4
      <4> QED  BY Zenon, <4>1, <4>2
    <3>2. ASSUME NEW i \in 1 .. Len(acted'[n]), NEW j \in 1 .. Len(acted'[n]),
                 i < j
          PROVE  acted'[n][i].frame.sequence < acted'[n][j].frame.sequence
      <4>1. i \in 1 .. Len(acted[n])
        BY <1>8, <2>3, <3>2
      <4>2. CASE j = Len(acted[n]) + 1
        BY Zenon, <1>2, <1>6, <2>1, <2>3, <4>1, <4>2 DEF OwnedInv, Owned
      <4>3. CASE j # Len(acted[n]) + 1
        <5>1. j \in 1 .. Len(acted[n])
          BY <1>8, <2>3, <4>3
        <5> QED  BY Zenon, <1>6, <2>3, <3>2, <4>1, <5>1 DEF OwnedInv, Owned
      <4> QED  BY Zenon, <4>2, <4>3
    <3> QED  BY Zenon, <1>4, <3>1, <3>2 DEF OwnedInv, Owned
  <2> QED  BY Zenon, <1>4, <2>2, <2>4, OwnedElsewhere
<1>10. CASE ~did
  <2>1. acted' = acted
    BY Zenon, <1>3, <1>10
  <2>2. OwnedInv(n)'
    BY <1>2, <1>4, <1>6, <1>7, <2>1 DEF OwnedInv, Owned
  <2> QED  BY Zenon, <1>4, <2>1, <2>2, OwnedElsewhere
<1> QED  BY Zenon, <1>9, <1>10

LEMMA EffectsStep ==
    ASSUME TypeInv, EffectsInv, [Next]_vars PROVE EffectsInv'
<1>1. CASE UNCHANGED <<worker, acted>>
  BY ZenonT(60), <1>1 DEF EffectsInv, OwnedInv, Owned
<1>2. ASSUME NEW n, NEW boot, Opens(n, boot), UNCHANGED acted PROVE EffectsInv'
  <2>1. n \in Connections
    BY Zenon, <1>2 DEF Opens, Connections
  <2>2. /\ worker[n].step = "none" /\ worker'[n].step = "hello"
        /\ \A m \in Connections : m # n => worker'[m] = worker[m]
    BY Zenon, <1>2, <2>1 DEF Opens, TypeInv, ServiceInv, Sessions
  <2> QED  BY Zenon, <1>2, <2>1, <2>2, OwnedKept
<1>3. CASE Client
  <2>1. \/ UNCHANGED <<worker, acted>>
        \/ /\ UNCHANGED acted
           /\ \E n, boot : Opens(n, boot)
    BY Zenon, <1>3
       DEF Client, HandshakeLost, Call, SendFails, Lost, Close, Connect,
                Welcomed, Answered, Returns, service
  <2> QED  BY Zenon, <1>1, <1>2, <2>1
<1>4. ASSUME NEW n \in Connections, Peer(n) PROVE EffectsInv'
  <2>1. CASE RawConnect(n)
    <3>1. /\ worker[n].step = "none" /\ worker'[n].step = "hello"
          /\ \A m \in Connections : m # n => worker'[m] = worker[m]
          /\ UNCHANGED acted
      BY Zenon, <2>1 DEF RawConnect, TypeInv, ServiceInv, Sessions
    <3> QED  BY Zenon, <3>1, OwnedKept
  <2>2. CASE ~RawConnect(n)
    BY Zenon, <1>1, <1>4, <2>2 DEF Peer, RawLeave, RawWrite, service
  <2> QED  BY Zenon, <2>1, <2>2
<1>5. ASSUME NEW n \in Connections, Serve(n) PROVE EffectsInv'
  <2>1. worker[n] \in Sessions
    BY Zenon DEF TypeInv, ServiceInv
  <2>2. CASE Finishes(n) /\ UNCHANGED acted
    BY Zenon, <2>2, Finished, OwnedKept
  <2>3. CASE Respond(n)
    <3>1. /\ worker[n].step = "answering" /\ worker'[n].step = "reading"
          /\ worker'[n].boot = worker[n].boot
          /\ worker'[n].session = worker[n].session
          /\ worker'[n].expected = worker[n].expected
          /\ \A m \in Connections : m # n => worker'[m] = worker[m]
          /\ UNCHANGED acted
      BY Zenon, <2>1, <2>3 DEF Respond, TypeInv, ServiceInv, Sessions
    <3> QED  BY <2>1, <3>1, OwnedKept DEF Sessions
  <2>4. ASSUME NEW frame, ServeHello(n, frame) PROVE EffectsInv'
    <3>1. /\ worker[n].step = "hello" /\ worker'[n].step = "reading"
          /\ \A m \in Connections : m # n => worker'[m] = worker[m]
          /\ UNCHANGED acted
      BY Zenon, <2>1, <2>4
         DEF ServeHello, Receives, TypeInv, ServiceInv, Sessions
    <3> QED  BY Zenon, <3>1, OwnedKept
  <2>5. ASSUME NEW frame, ServeOther(n, frame) PROVE EffectsInv'
    <3>1. /\ worker[n].step = "reading" /\ worker'[n].step = "reading"
          /\ worker'[n].boot = worker[n].boot
          /\ worker'[n].session = worker[n].session
          /\ worker'[n].expected = worker[n].expected + 1
          /\ \A m \in Connections : m # n => worker'[m] = worker[m]
          /\ UNCHANGED acted
      BY Zenon, <2>1, <2>5
         DEF ServeOther, InSequence, Own, Receives, TypeInv, ServiceInv,
             Sessions
    <3> QED  BY <2>1, <3>1, OwnedKept DEF Sessions
  <2>6. ASSUME NEW frame, Handle(n, frame) PROVE EffectsInv'
    BY Zenon, <2>6, HandleOwned
  <2> QED
    BY Zenon, <1>1, <1>5, <2>2, <2>3, <2>4, <2>5, <2>6
       DEF Serve, PeerClosed, ServeGarbled, RejectHello, ServeForeign,
           ServeGoodbye, ServeOutOfSequence
<1>6. CASE Crash
  <2>1. \A n \in Connections : /\ acted'[n] = acted[n]
                               /\ worker'[n].step = worker[n].step
                                  \/ worker'[n].step = "finished"
                               /\ worker'[n].step \in {"none", "finished"}
    BY Zenon, <1>6 DEF Crash, Without
  <2>2. ASSUME NEW n \in Connections PROVE OwnedInv(n)'
    <3>1. OwnedInv(n)
      BY Zenon DEF EffectsInv
    <3> QED  BY Zenon, <2>1, <3>1 DEF OwnedInv, Owned
  <2> QED  BY Zenon, <2>2 DEF EffectsInv
<1> QED
  BY Zenon, <1>1, <1>3, <1>4, <1>5, <1>6 DEF Next, Restart, vars, service

-----------------------------------------------------------------------------
(* The requests of a connection, and what is settled about them. *)

\* Later calls change nothing about the requests of the earlier ones.
LEMMA LinedMore ==
    ASSUME NEW n, NEW done, NEW queue, NEW made \in Nat, NEW more \in Nat,
           NEW on, NEW now, made <= more, \A k \in 1 .. made : now[k] = on[k],
           Lined(n, done, queue, made, on)
    PROVE  Lined(n, done, queue, more, now)
<1>1. 1 .. made \subseteq 1 .. more
  OBVIOUS
<1> QED  BY Zenon, <1>1 DEF Lined

\* The request of a new call comes last.
LEMMA LinedCall ==
    ASSUME NEW n, NEW done \in Seq(Acted), NEW queue \in Seq(Outgoings),
           NEW made \in Nat, NEW on, NEW frame \in Outgoings,
           frame.type = "Request", frame.call = made + 1, on[made + 1] = n,
           Lined(n, done, queue, made, on)
    PROVE  Lined(n, done, Append(queue, frame), made + 1, on)
<1> DEFINE now == Append(queue, frame)
           last == Len(queue) + 1
<1>1. /\ Len(queue) \in Nat /\ Len(now) = last /\ now[last] = frame
      /\ \A i \in 1 .. Len(queue) : now[i] = queue[i]
  OBVIOUS
<1> HIDE DEF now
<1>2. \A i \in 1 .. Len(now) : i = last \/ (i # last /\ i \in 1 .. Len(queue))
  BY <1>1
<1>3. /\ \A i \in 1 .. Len(queue) : queue[i].call \in 1 .. made
      /\ \A i \in 1 .. Len(done) : done[i].frame.call \in 1 .. made
  BY Zenon DEF Lined
<1>4. \A c \in 1 .. made : c < made + 1 /\ c \in 1 .. made + 1
  OBVIOUS
<1>5. made + 1 \in 1 .. made + 1
  OBVIOUS
<1>6. \A i \in 1 .. Len(now) :
        /\ now[i].type = "Request"
        /\ now[i].call \in 1 .. made + 1 /\ on[now[i].call] = n
  BY Zenon, <1>1, <1>2, <1>4, <1>5 DEF Lined
<1>7. ASSUME NEW i \in 1 .. Len(now), NEW j \in 1 .. Len(now), i < j
      PROVE  now[i].call < now[j].call
  <2>1. i \in 1 .. Len(queue) /\ now[i] = queue[i]
    BY <1>1, <1>7
  <2>2. CASE j = last
    BY Zenon, <1>1, <1>3, <1>4, <2>1, <2>2
  <2>3. CASE j # last
    BY Zenon, <1>1, <1>2, <1>7, <2>1, <2>3 DEF Lined
  <2> QED  BY Zenon, <2>2, <2>3
<1>8. ASSUME NEW i \in 1 .. Len(done), NEW j \in 1 .. Len(now)
      PROVE  done[i].frame.call < now[j].call
  BY Zenon, <1>1, <1>2, <1>3, <1>4 DEF Lined
<1>9. Lined(n, done, now, made + 1, on)
  BY Zenon, <1>3, <1>4, <1>6, <1>7, <1>8 DEF Lined
<1> QED  BY Zenon, <1>9 DEF now

\* What comes after the first.
LEMMA Rest ==
    ASSUME NEW queue \in Seq(Outgoings), queue # <<>>
    PROVE  /\ 1 \in 1 .. Len(queue)
           /\ \A i \in 1 .. Len(Tail(queue)) :
                i + 1 \in 1 .. Len(queue) /\ Tail(queue)[i] = queue[i + 1]
                /\ 1 < i + 1
           /\ \A i, j \in 1 .. Len(Tail(queue)) : i < j => i + 1 < j + 1
OBVIOUS

\* The first request that waits is taken, and answered by the session layer.
LEMMA LinedRead ==
    ASSUME NEW n, NEW done, NEW queue \in Seq(Outgoings), queue # <<>>,
           NEW made, NEW on, Lined(n, done, queue, made, on)
    PROVE  Lined(n, done, Tail(queue), made, on)
<1>1. /\ \A i \in 1 .. Len(Tail(queue)) :
           i + 1 \in 1 .. Len(queue) /\ Tail(queue)[i] = queue[i + 1]
      /\ \A i, j \in 1 .. Len(Tail(queue)) : i < j => i + 1 < j + 1
  BY Zenon, Rest
<1> QED  BY Zenon, <1>1 DEF Lined

\* The first request that waits is taken, and acted on.
LEMMA LinedAct ==
    ASSUME NEW n, NEW done \in Seq(Acted), NEW act \in Acted,
           NEW queue \in Seq(Outgoings), queue # <<>>, act.frame = queue[1],
           NEW made, NEW on, Lined(n, done, queue, made, on)
    PROVE  Lined(n, Append(done, act), Tail(queue), made, on)
<1> DEFINE now == Append(done, act)
           last == Len(done) + 1
<1>1. /\ Len(done) \in Nat /\ Len(now) = last /\ now[last] = act
      /\ \A i \in 1 .. Len(done) : now[i] = done[i]
  OBVIOUS
<1> HIDE DEF now
<1>2. \A i \in 1 .. Len(now) : i = last \/ (i # last /\ i \in 1 .. Len(done))
  BY <1>1
<1>3. /\ 1 \in 1 .. Len(queue)
      /\ \A i \in 1 .. Len(Tail(queue)) :
           i + 1 \in 1 .. Len(queue) /\ Tail(queue)[i] = queue[i + 1]
           /\ 1 < i + 1
      /\ \A i, j \in 1 .. Len(Tail(queue)) : i < j => i + 1 < j + 1
  BY Zenon, Rest
<1>4. ASSUME NEW i \in 1 .. Len(now)
      PROVE  now[i].frame.call \in 1 .. made /\ on[now[i].frame.call] = n
  <2>1. CASE i = last
    <3>1. queue[1].call \in 1 .. made /\ on[queue[1].call] = n
      BY Zenon, <1>3 DEF Lined
    <3> QED  BY Zenon, <1>1, <2>1, <3>1
  <2>2. CASE i # last
    BY Zenon, <1>1, <1>2, <2>2 DEF Lined
  <2> QED  BY Zenon, <2>1, <2>2
<1>5. ASSUME NEW i \in 1 .. Len(now), NEW j \in 1 .. Len(now), i < j
      PROVE  now[i].frame.call < now[j].frame.call
  <2>1. i \in 1 .. Len(done) /\ now[i] = done[i]
    BY <1>1, <1>5
  <2>2. CASE j = last
    BY Zenon, <1>1, <1>3, <2>1, <2>2 DEF Lined
  <2>3. CASE j # last
    BY Zenon, <1>1, <1>2, <1>5, <2>1, <2>3 DEF Lined
  <2> QED  BY Zenon, <2>2, <2>3
<1>6. ASSUME NEW i \in 1 .. Len(now), NEW j \in 1 .. Len(Tail(queue))
      PROVE  now[i].frame.call < Tail(queue)[j].call
  <2>1. CASE i = last
    BY Zenon, <1>1, <1>3, <2>1 DEF Lined
  <2>2. CASE i # last
    BY Zenon, <1>1, <1>2, <1>3, <2>2 DEF Lined
  <2> QED  BY Zenon, <2>1, <2>2
<1>7. Lined(n, done, Tail(queue), made, on)
  BY Zenon, LinedRead
<1>8. Lined(n, now, Tail(queue), made, on)
  BY Zenon, <1>4, <1>5, <1>6, <1>7 DEF Lined
<1> QED  BY Zenon, <1>8 DEF now

\* The requests that wait are lost, or none were there.
LEMMA LinedNone ==
    ASSUME NEW n, NEW done, NEW made, NEW on
    PROVE  /\ \A queue : Lined(n, done, queue, made, on) =>
                Lined(n, done, <<>>, made, on)
           /\ done = <<>> => Lined(n, done, <<>>, made, on)
<1>1. \A i : i \notin 1 .. Len(<<>>)
  OBVIOUS
<1> QED  BY Zenon, <1>1 DEF Lined

\* What these steps do to a call of which nothing is left.
LEMMA MissingKept ==
    ASSUME NEW k, NEW done \in Seq(Acted), NEW queue \in Seq(Outgoings),
           Missing(k, done, queue)
    PROVE  /\ Missing(k, done, <<>>)
           /\ queue # <<>> => Missing(k, done, Tail(queue))
           /\ \A frame \in Outgoings :
                frame.call # k => Missing(k, done, Append(queue, frame))
           /\ \A act \in Acted :
                queue # <<>> /\ act.frame = queue[1] =>
                  Missing(k, Append(done, act), Tail(queue))
<1>1. Missing(k, done, <<>>)
  <2>1. \A i : i \notin 1 .. Len(<<>>)
    OBVIOUS
  <2> QED  BY Zenon, <2>1 DEF Missing
<1>2. ASSUME queue # <<>> PROVE Missing(k, done, Tail(queue))
  <2>1. \A i \in 1 .. Len(Tail(queue)) :
          i + 1 \in 1 .. Len(queue) /\ Tail(queue)[i] = queue[i + 1]
    BY Zenon, <1>2, Rest
  <2> QED  BY Zenon, <2>1 DEF Missing
<1>3. ASSUME NEW frame \in Outgoings, frame.call # k
      PROVE  Missing(k, done, Append(queue, frame))
  <2>1. \A i \in 1 .. Len(Append(queue, frame)) :
          \/ i \in 1 .. Len(queue) /\ Append(queue, frame)[i] = queue[i]
          \/ Append(queue, frame)[i] = frame
    OBVIOUS
  <2> QED  BY Zenon, <1>3, <2>1 DEF Missing
<1>4. ASSUME NEW act \in Acted, queue # <<>>, act.frame = queue[1]
      PROVE  Missing(k, Append(done, act), Tail(queue))
  <2>1. \A i \in 1 .. Len(Append(done, act)) :
          \/ i \in 1 .. Len(done) /\ Append(done, act)[i] = done[i]
          \/ Append(done, act)[i] = act
    OBVIOUS
  <2>2. 1 \in 1 .. Len(queue)
    BY Zenon, <1>4, Rest
  <2> QED  BY Zenon, <1>2, <1>4, <2>1, <2>2 DEF Missing
<1> QED  BY Zenon, <1>1, <1>2, <1>3, <1>4

\* A step leaves what the engine did on connection n, and brings back no call.
Kept(n) ==
    /\ \A k \in 1 .. call :
         Missing(k, acted[n], c2s[n]) => Missing(k, acted'[n], c2s'[n])
    /\ \A i \in 1 .. Len(acted[n]) :
         i \in 1 .. Len(acted'[n]) /\ acted'[n][i] = acted[n][i]

\* What is settled about a call stays settled.
Settles ==
    \A k \in 1 .. call : (Over(k) => Over(k)') /\ (Done(k) => Done(k)')

LEMMA Settled == ASSUME \A n \in Library : Kept(n) PROVE Settles
<1>1. ASSUME NEW k \in 1 .. call, Over(k) PROVE Over(k)'
  BY Zenon, <1>1 DEF Kept, Over
<1>2. ASSUME NEW k \in 1 .. call, Done(k) PROVE Done(k)'
  <2>1. PICK n \in Library : \E i \in 1 .. Len(acted[n]) :
          acted[n][i].frame.call = k
    BY Zenon, <1>2 DEF Done
  <2>2. PICK i \in 1 .. Len(acted[n]) : acted[n][i].frame.call = k
    BY Zenon, <2>1
  <2>3. i \in 1 .. Len(acted'[n]) /\ acted'[n][i].frame.call = k
    BY Zenon, <2>2 DEF Kept
  <2> QED  BY Zenon, <2>3 DEF Done
<1> QED  BY Zenon, <1>1, <1>2 DEF Settles

LEMMA KeptSame ==
    ASSUME NEW n, acted'[n] = acted[n], c2s'[n] = c2s[n] PROVE Kept(n)
BY Zenon DEF Kept

LEMMA TruthStays ==
    ASSUME Settles, NEW k \in 1 .. call, NEW outcome, Truth(k, outcome)
    PROVE  Truth(k, outcome)'
BY Zenon DEF Truth, Settles

LEMMA CallIsNumber == ASSUME TypeInv PROVE call \in Nat
<1>1. call \in 0 .. MaxCalls
  BY Zenon DEF TypeInv, CallerInv
<1> QED  BY <1>1

LEMMA CallUnderWay ==
    ASSUME TypeInv, pc = "calling" PROVE call \in 1 .. call
<1>1. call \in 0 .. MaxCalls /\ call > 0
  BY Zenon DEF TypeInv, CallerInv
<1> QED  BY SessionAssumption, <1>1

\* A step writes the result of the call it ends at most, and truthfully if no
\* earlier call on its connection was indeterminate.
LEMMA ResultsKept ==
    ASSUME TypeInv, ResultInv, Settles, call' \in {call, call + 1},
           \A k \in 1 .. call : via'[k] = via[k],
           \A k \in 1 .. MaxCalls : k # call' => result'[k] = result[k],
           \/ UNCHANGED <<call, result>>
           \/ Trusted(call)' => Truth(call, result[call])',
           pc' = "calling" =>
             via'[call'] = client'.connection /\ result'[call'] = "none"
    PROVE  ResultInv'
<1>1. call \in Nat /\ call' \in Nat /\ MaxCalls \in Nat
  BY SessionAssumption, CallIsNumber
<1>2. ASSUME NEW k \in 1 .. MaxCalls
      PROVE  (result'[k] # "none" => k <= call') /\
             (Trusted(k)' => Truth(k, result[k])')
  <2>1. CASE k # call' \/ UNCHANGED <<call, result>>
    <3>1. result'[k] = result[k]
      BY Zenon, <2>1
    <3>2. CASE result[k] = "none"
      BY Zenon, <3>1, <3>2 DEF Truth
    <3>3. CASE result[k] # "none"
      <4>1. k <= call
        BY Zenon, <3>3 DEF ResultInv
      <4>2. k \in 1 .. call /\ k <= call'
        BY <1>1, <4>1
      <4>3. ASSUME NEW j \in 1 .. k - 1
            PROVE  j \in 1 .. call /\ j \in 1 .. MaxCalls /\ j # call'
        BY <1>1, <4>1
      <4>4. ASSUME NEW j \in 1 .. k - 1
            PROVE  via'[j] = via[j] /\ result'[j] = result[j]
        BY Zenon, <4>3
      <4>5. ASSUME Trusted(k)' PROVE Trusted(k)
        BY Zenon, <4>2, <4>4, <4>5 DEF Trusted
      <4>6. ASSUME Trusted(k)' PROVE Truth(k, result[k])'
        <5>1. PICK outcome : outcome = result[k]
          BY Zenon
        <5>2. Truth(k, outcome)
          BY Zenon, <4>5, <4>6, <5>1 DEF ResultInv
        <5>3. Truth(k, outcome)'
          BY Zenon, <4>2, <5>2, TruthStays
        <5> QED  BY Zenon, <3>1, <5>1, <5>3 DEF Truth
      <4> QED  BY Zenon, <4>2, <4>6
    <3> QED  BY Zenon, <3>2, <3>3
  <2>2. CASE k = call' /\ ~UNCHANGED <<call, result>>
    <3>1. Trusted(call)' => Truth(call, result[call])'
      BY Zenon, <2>2
    <3>2. Trusted(k)' => Truth(k, result[k])'
      BY Zenon, <2>2, <3>1 DEF Trusted, Truth, Done, Over
    <3>3. k <= call'
      BY <1>1, <2>2
    <3> QED  BY Zenon, <3>2, <3>3
  <2> QED  BY Zenon, <2>1, <2>2
<1> QED  BY Zenon, <1>2 DEF ResultInv

\* A connection the step does not touch, while no call begins or ends.
LEMMA FlowElsewhere ==
    ASSUME TypeInv, FlowInv, Settles,
           UNCHANGED <<pc, client, call, via, result>>, NEW n,
           \A p \in Library :
             p # n => /\ worker'[p] = worker[p] /\ acted'[p] = acted[p]
                      /\ c2s'[p] = c2s[p] /\ s2c'[p] = s2c[p],
           n \in Library =>
             /\ LineInv(n)' /\ StreamInv(n)'
             /\ pc # "closed" /\ n = client.connection =>
                  worker'[n].step # "none" /\ (Sound(n) => ClientInv(n)')
    PROVE  FlowInv'
<1>1. \A p : Sound(p)' <=> Sound(p)
  BY Zenon DEF Sound
<1> SUFFICES ASSUME NEW p \in Library, p # n
             PROVE  /\ LineInv(p)' /\ StreamInv(p)'
                    /\ pc # "closed" /\ p = client.connection =>
                         worker'[p].step # "none" /\ (Sound(p) => ClientInv(p)')
  BY Zenon, <1>1 DEF FlowInv
<1>2. /\ worker'[p] = worker[p] /\ acted'[p] = acted[p]
      /\ c2s'[p] = c2s[p] /\ s2c'[p] = s2c[p]
      /\ LineInv(p) /\ StreamInv(p)
  BY Zenon DEF FlowInv
<1>3. LineInv(p)' /\ StreamInv(p)'
  BY Zenon, <1>2 DEF LineInv, StreamInv, WellOpened
<1>4. ASSUME pc # "closed", p = client.connection, Sound(p)
      PROVE  ClientInv(p)'
  <2>1. ClientInv(p)
    BY Zenon, <1>4 DEF FlowInv
  <2>2. ASSUME NEW f, pc = "calling", Answers(f) PROVE Answers(f)'
    <3>1. PICK k \in 1 .. call : k = call
      BY Zenon, <2>2, CallUnderWay
    <3>2. PICK outcome : outcome = f.reason
      BY Zenon
    <3>3. Truth(k, outcome)'
      BY Zenon, <2>2, <3>1, <3>2, TruthStays DEF Answers
    <3> QED
      BY Zenon, <2>2, <3>1, <3>2, <3>3 DEF Answers, Truth, Done, Over
  <2>3. ASSUME pc = "calling", Answers(s2c[p][1].frame)
        PROVE  Answers(s2c[p][1].frame)'
    <3>1. PICK f : f = s2c[p][1].frame
      BY Zenon
    <3>2. Answers(f)'
      BY Zenon, <2>2, <2>3, <3>1
    <3> QED  BY Zenon, <1>2, <3>1, <3>2 DEF Answers
  <2>4. ASSUME pc = "calling", Answers(worker[p].answer[1])
        PROVE  Answers(worker[p].answer[1])'
    <3>1. PICK f : f = worker[p].answer[1]
      BY Zenon
    <3>2. Answers(f)'
      BY Zenon, <2>2, <2>4, <3>1
    <3> QED  BY Zenon, <1>2, <3>1, <3>2 DEF Answers
  <2> QED  BY Zenon, <1>2, <2>1, <2>3, <2>4 DEF ClientInv
<1> QED  BY Zenon, <1>2, <1>3, <1>4 DEF FlowInv

\* A step of the client on its connection m leaves the other connections alone.
LEMMA FlowOfOthers ==
    ASSUME TypeInv, FlowInv, NEW m \in Library, pc # "closed",
           client.connection = m, client'.connection = m,
           call' \in {call, call + 1}, \A k \in 1 .. call : via'[k] = via[k],
           call' = call + 1 => via'[call + 1] = m,
           UNCHANGED <<worker, acted>>,
           \A p \in Library : p # m => c2s'[p] = c2s[p] /\ s2c'[p] = s2c[p],
           LineInv(m)', StreamInv(m)',
           pc' # "closed" => (Sound(m)' => ClientInv(m)')
    PROVE  FlowInv'
<1>1. call \in Nat /\ call' \in Nat /\ call <= call'
  BY CallIsNumber
<1>2. \A k \in 1 .. call' : k \in 1 .. call \/ (k = call + 1 /\ call' = call + 1)
  BY <1>1
<1>3. ASSUME NEW p \in Library, p # m PROVE LineInv(p)' /\ StreamInv(p)'
  <2>1. /\ LineInv(p) /\ StreamInv(p) /\ worker'[p] = worker[p]
        /\ acted'[p] = acted[p] /\ c2s'[p] = c2s[p] /\ s2c'[p] = s2c[p]
    BY Zenon, <1>3 DEF FlowInv
  <2>2. Lined(p, acted[p], c2s[p], call, via) =>
          Lined(p, acted[p], c2s[p], call', via')
    BY Zenon, <1>1, LinedMore
  <2>3. LineInv(p)'
    BY Zenon, <2>1, <2>2 DEF LineInv
  <2>4. ASSUME worker[p].step = "none", NEW k \in 1 .. call'
        PROVE  via'[k] # p
    BY Zenon, <1>2, <1>3, <2>1, <2>4 DEF StreamInv
  <2>5. worker[p].step # "hello"
    BY Zenon, <1>3, <2>1 DEF StreamInv
  <2> QED  BY Zenon, <2>1, <2>3, <2>4, <2>5 DEF StreamInv
<1>4. worker'[m].step # "none"
  BY Zenon DEF FlowInv
<1> QED  BY Zenon, <1>3, <1>4 DEF FlowInv

-----------------------------------------------------------------------------
(* The client's steps. *)

LEMMA KeptAll ==
    ASSUME UNCHANGED <<acted, c2s>> PROVE Settles
<1>1. \A n \in Library : Kept(n)
  BY Zenon, KeptSame
<1> QED  BY Zenon, <1>1, Settled

\* Connect: the connection is new.
LEMMA ConnectFlow ==
    ASSUME TypeInv, TypeInv', ResultInv, FlowInv, NEW n \in Library, Connect(n)
    PROVE  ResultInv' /\ FlowInv'
<1>1. /\ worker[n].step = "none" /\ worker'[n].step = "hello"
      /\ \A p \in Library : p # n => worker'[p] = worker[p]
      /\ \A p \in Library : p # n => c2s'[p] = c2s[p]
      /\ pc = "closed" /\ pc' = "hello" /\ client'.connection = n
      /\ UNCHANGED <<s2c, acted, call, via, result>>
  BY DEF Connect, Opens, TypeInv, WireInv, ServiceInv, CallerInv, Sessions,
         Connections
<1>2. PICK q \in Outgoings : q = Outgoing("Hello", 0, 1, n, 0, 0)
  <2>1. n \in Nat
    BY Zenon, SessionAssumption DEF Connections
  <2> QED  BY Zenon, <2>1 DEF Outgoing, Outgoings
<1>3. q.call = 0 /\ WellOpened(q)
  BY Zenon, <1>2 DEF Outgoing, WellOpened
<1>4. c2s'[n] = <<q>> /\ Len(c2s'[n]) = 1 /\ c2s'[n][1] = q
  BY <1>2 DEF Connect, Opens, TypeInv, WireInv, Connections
<1>5. StreamInv(n) /\ c2s[n] = <<>> /\ s2c[n] = <<>>
  BY Zenon, <1>1 DEF FlowInv, StreamInv
<1>6. Kept(n)
  <2>1. acted[n] \in Seq(Acted) /\ c2s[n] \in Seq(Outgoings)
    BY Zenon DEF TypeInv, WireInv, ServiceInv, Connections
  <2>2. c2s'[n] = Append(c2s[n], q)
    BY <1>4, <1>5
  <2>3. \A k \in 1 .. call : q.call # k
    BY <1>3, CallIsNumber
  <2>4. \A k \in 1 .. call :
          Missing(k, acted[n], c2s[n]) => Missing(k, acted[n], c2s'[n])
    BY Zenon, <2>1, <2>2, <2>3, MissingKept
  <2> QED  BY Zenon, <1>1, <2>4 DEF Kept
<1>7. Settles
  <2>1. \A p \in Library : Kept(p)
    BY Zenon, <1>1, <1>6, KeptSame
  <2> QED  BY Zenon, <2>1, Settled
<1>8. ResultInv'
  BY Zenon, <1>1, <1>7, ResultsKept
<1>9. ASSUME NEW p \in Library, p # n PROVE LineInv(p)' /\ StreamInv(p)'
  <2>1. LineInv(p) /\ StreamInv(p)
    BY Zenon DEF FlowInv
  <2> QED  BY Zenon, <1>1, <1>9, <2>1 DEF LineInv, StreamInv
<1>10. LineInv(n)' /\ StreamInv(n)'
  BY Zenon, <1>1, <1>3, <1>4, <1>5 DEF LineInv, StreamInv, WellOpened
<1>11. ClientInv(n)'
  <2>1. s2c'[n] = <<>> /\ Len(s2c'[n]) <= 1
    BY <1>1, <1>5
  <2> QED  BY Zenon, <1>1, <2>1 DEF ClientInv
<1> QED  BY Zenon, <1>1, <1>8, <1>9, <1>10, <1>11 DEF FlowInv

\* Call: its request is the only one on its way on a sound connection.
LEMMA CallFlow ==
    ASSUME TypeInv, TypeInv', ResultInv, FlowInv, Call
    PROVE  ResultInv' /\ FlowInv'
<1>1. /\ call \in Nat /\ pc = "ready" /\ pc' = "calling" /\ attempt = 0
      /\ client.connection \in Library /\ call < MaxCalls
  BY SessionAssumption DEF Call, TypeInv, CallerInv
<1>2. PICK m \in Library : m = client.connection
  BY Zenon, <1>1
<1>3. m \in Connections /\ LineInv(m) /\ StreamInv(m)
      /\ worker[m].step # "none" /\ (Sound(m) => ClientInv(m))
  BY Zenon, <1>1, <1>2 DEF FlowInv, Connections
<1>4. call' = call + 1 /\ UNCHANGED <<s2c, left, worker, acted, result>>
      /\ client'.connection = m /\ via' = [via EXCEPT ![call + 1] = m]
  BY Zenon, <1>1, <1>2 DEF Call, service, TypeInv, CallerInv
<1>5. /\ call + 1 \in 1 .. MaxCalls /\ call + 1 \notin 1 .. call
      /\ 1 .. call \subseteq 1 .. MaxCalls
      /\ 1 .. call \subseteq 1 .. call + 1
  BY <1>1, SessionAssumption
<1>6. via'[call + 1] = m /\ \A k \in 1 .. call : via'[k] = via[k]
  BY Zenon, <1>4, <1>5 DEF TypeInv, CallerInv
<1>7. PICK q \in Outgoings :
        /\ q = Outgoing("Request", client.session_id, client.sequence + 1,
                        client.boot, client.server_epoch, call + 1)
        /\ c2s' = [c2s EXCEPT ![m] = Append(@, q)]
  <2>1. Outgoing("Request", client.session_id, client.sequence + 1,
                 client.boot, client.server_epoch, call + 1) \in Outgoings
    BY <1>1 DEF Outgoing, Outgoings, TypeInv, CallerInv
  <2> QED  BY Zenon, <1>2, <1>4, <2>1 DEF Call
<1>8. q.type = "Request" /\ q.call = call + 1
  BY Zenon, <1>7 DEF Outgoing
<1>9. /\ acted[m] \in Seq(Acted)
      /\ c2s[m] \in Seq(Outgoings) /\ c2s'[m] = Append(c2s[m], q)
      /\ \A p \in Library : p # m => c2s'[p] = c2s[p]
  BY Zenon, <1>3, <1>7 DEF TypeInv, WireInv, ServiceInv, Connections
<1>10. Settles
  <2>1. \A k \in 1 .. call : q.call # k
    BY Zenon, <1>5, <1>8
  <2>2. \A k \in 1 .. call :
          Missing(k, acted[m], c2s[m]) => Missing(k, acted[m], c2s'[m])
    BY Zenon, <1>9, <2>1, MissingKept
  <2>3. Kept(m)
    BY Zenon, <1>4, <2>2 DEF Kept
  <2>4. \A p \in Library : Kept(p)
    BY Zenon, <1>4, <1>9, <2>3, KeptSame
  <2> QED  BY Zenon, <2>4, Settled
<1>11. result[call + 1] = "none"
  <2>1. ~(call + 1 <= call)
    BY <1>1
  <2> QED  BY Zenon, <1>5, <2>1 DEF ResultInv
<1>12. ResultInv'
  <2>1. result'[call'] = "none" /\ via'[call'] = client'.connection
    BY Zenon, <1>4, <1>6, <1>11
  <2>2. Truth(call, result[call])'
    BY Zenon, <2>1 DEF Truth
  <2> QED  BY Zenon, <1>4, <1>6, <1>10, <2>1, <2>2, ResultsKept
<1>13. worker[m].step # "hello"
  BY Zenon, <1>1, <1>3 DEF StreamInv
<1>14. LineInv(m)'
  <2>1. Lined(m, acted[m], c2s[m], call, via)
    BY Zenon, <1>3, <1>13 DEF LineInv
  <2>2. Lined(m, acted[m], c2s[m], call, via')
    <3>1. call <= call
      BY <1>1
    <3> QED  BY Zenon, <1>1, <1>6, <2>1, <3>1, LinedMore
  <2>3. Lined(m, acted[m], c2s'[m], call + 1, via')
    BY Zenon, <1>1, <1>6, <1>8, <1>9, <2>2, LinedCall
  <2> QED  BY Zenon, <1>4, <2>3 DEF LineInv
<1>15. StreamInv(m)'
  BY Zenon, <1>3, <1>4, <1>13 DEF StreamInv
<1>16. ASSUME Sound(m)' PROVE ClientInv(m)'
  <2>1. Sound(m)
    BY Zenon, <1>4, <1>5, <1>6, <1>16 DEF Sound
  <2>2. worker[m].step # "answering" /\ c2s[m] = <<>> /\ s2c[m] = <<>>
    BY Zenon, <1>1, <1>3, <2>1 DEF ClientInv
  <2>3. Len(c2s'[m]) = 1 /\ c2s'[m][1] = q
    BY <1>9, <2>2
  <2> QED  BY Zenon, <1>1, <1>4, <1>8, <2>2, <2>3 DEF ClientInv
<1> QED
  BY Zenon, <1>1, <1>2, <1>4, <1>6, <1>9, <1>12, <1>14, <1>15, <1>16,
     FlowOfOthers

\* A result that leaves open what happened: the connection is not sound any more.
LEMMA OpenResult ==
    ASSUME TypeInv, ResultInv, FlowInv, NEW m \in Library, pc # "closed",
           client.connection = m, client'.connection = m,
           call' \in {call, call + 1}, call' \in 1 .. MaxCalls,
           \A k \in 1 .. call : via'[k] = via[k], via'[call'] = m,
           result' = [result EXCEPT ![call'] = "indeterminate"],
           UNCHANGED <<c2s, worker, acted>>,
           \A p \in Library : p # m => s2c'[p] = s2c[p],
           pc' # "calling", pc # "hello"
    PROVE  ResultInv' /\ FlowInv'
<1>1. Settles
  BY Zenon, KeptAll
<1>2. /\ result'[call'] = "indeterminate"
      /\ \A k \in 1 .. MaxCalls : k # call' => result'[k] = result[k]
  BY Zenon DEF TypeInv, CallerInv
<1>3. ResultInv'
  <2>1. Truth(call, result[call])'
    BY Zenon, <1>2 DEF Truth
  <2> QED  BY Zenon, <1>1, <1>2, <2>1, ResultsKept
<1>4. call \in Nat /\ call' \in Nat /\ call <= call' /\ call' \in 1 .. call'
  BY CallIsNumber
<1>5. ~Sound(m)'
  BY Zenon, <1>2, <1>4 DEF Sound
<1>6. LineInv(m) /\ StreamInv(m) /\ worker[m].step # "none"
  BY Zenon DEF FlowInv
<1>7. LineInv(m)'
  <2>1. Lined(m, acted[m], c2s[m], call, via) =>
          Lined(m, acted[m], c2s[m], call', via')
    BY Zenon, <1>4, LinedMore
  <2> QED  BY Zenon, <1>6, <2>1 DEF LineInv
<1>8. StreamInv(m)'
  BY Zenon, <1>6 DEF StreamInv
<1> QED  BY Zenon, <1>3, <1>5, <1>7, <1>8, FlowOfOthers

\* A call that reads a whole frame on a sound connection reads its own answer.
LEMMA AnsweredFlow ==
    ASSUME TypeInv, ResultInv, FlowInv, NEW m \in Library,
           pc = "calling", client.connection = m, s2c[m] \in Seq(Parts),
           NEW first \in Parts, first = s2c[m][1], first.part = "whole",
           s2c[m] # <<>>, Len(s2c[m]) = 1 => s2c'[m] = <<>>,
           \A p \in Library : p # m => s2c'[p] = s2c[p],
           result' = [result EXCEPT ![call] = Outcome(first.frame)],
           pc' = "ready", UNCHANGED <<c2s, worker, acted, client, call, via>>
    PROVE  ResultInv' /\ FlowInv'
<1>1. Settles
  BY Zenon, KeptAll
<1>2. call \in Nat /\ call \in 1 .. call /\ call \in 1 .. MaxCalls
  BY SessionAssumption, CallIsNumber, CallUnderWay DEF TypeInv, CallerInv
<1>3. PICK k \in 1 .. call : k = call
  BY Zenon, <1>2
<1>4. /\ LineInv(m) /\ StreamInv(m) /\ worker[m].step # "none"
      /\ Sound(m) => ClientInv(m)
      /\ via[k] = m /\ result[k] = "none"
  BY Zenon, <1>3 DEF FlowInv, ResultInv
<1>5. PICK outcome : outcome = Outcome(first.frame)
  BY Zenon
<1>6. result'[k] = outcome /\ \A j \in 1 .. MaxCalls : j # k => result'[j] = result[j]
  BY Zenon, <1>2, <1>3, <1>5 DEF TypeInv, CallerInv
<1>7. 1 .. k \subseteq 1 .. MaxCalls /\ \A j \in 1 .. k : j # k => j \in 1 .. k - 1
  BY <1>2, <1>3, SessionAssumption
<1>8. ASSUME Sound(m)
      PROVE  /\ Truth(k, outcome)
             /\ worker[m].step # "answering" /\ c2s[m] = <<>> /\ s2c'[m] = <<>>
  <2>1. /\ Len(s2c[m]) = 1 /\ Answers(s2c[m][1].frame)
        /\ worker[m].step # "answering" /\ c2s[m] = <<>>
    BY Zenon, <1>4, <1>8 DEF ClientInv
  <2>2. PICK f \in Incomings : f = first.frame
    BY Zenon DEF Parts
  <2>3. f.type \in {"Response", "Error"} /\ Truth(k, f.reason)
    <3>1. Answers(f)
      BY Zenon, <2>1, <2>2
    <3> QED  BY Zenon, <1>3, <3>1 DEF Answers
  <2>4. outcome = f.reason
    BY Zenon, <1>5, <2>2, <2>3 DEF Outcome, Incomings
  <2> QED  BY Zenon, <2>1, <2>3, <2>4
<1>9. ResultInv'
  <2>1. ASSUME Trusted(k)' PROVE Truth(k, outcome)'
    <3>1. ASSUME NEW j \in 1 .. k, via[j] = m PROVE result[j] # "indeterminate"
      <4>1. CASE j = k
        BY Zenon, <1>4, <4>1
      <4>2. CASE j # k
        <5>1. j \in 1 .. k - 1 /\ result'[j] = result[j]
          BY Zenon, <1>6, <1>7, <4>2
        <5> QED  BY Zenon, <1>4, <2>1, <3>1, <5>1 DEF Trusted
      <4> QED  BY Zenon, <4>1, <4>2
    <3>2. Sound(m)
      BY Zenon, <1>3, <3>1 DEF Sound
    <3> QED  BY Zenon, <1>1, <1>8, <3>2, TruthStays
  <2>2. Trusted(call)' => Truth(call, result[call])'
    BY Zenon, <1>3, <1>6, <2>1 DEF Trusted, Truth, Done, Over
  <2> QED  BY Zenon, <1>1, <1>3, <1>6, <2>2, ResultsKept
<1>10. worker[m].step # "hello"
  BY Zenon, <1>4 DEF StreamInv
<1>11. LineInv(m)' /\ StreamInv(m)'
  BY Zenon, <1>4, <1>10 DEF LineInv, StreamInv
<1>12. ASSUME Sound(m)' PROVE ClientInv(m)'
  <2>1. ASSUME NEW j \in 1 .. k, via[j] = m PROVE result[j] # "indeterminate"
    <3>1. CASE j = k
      BY Zenon, <1>4, <3>1
    <3>2. CASE j # k
      <4>1. result'[j] = result[j]
        BY Zenon, <1>6, <1>7, <3>2
      <4> QED  BY Zenon, <1>3, <1>12, <2>1, <4>1 DEF Sound
    <3> QED  BY Zenon, <3>1, <3>2
  <2>2. Sound(m)
    BY Zenon, <1>3, <2>1 DEF Sound
  <2> QED  BY Zenon, <1>8, <2>2 DEF ClientInv
<1>13. call' # call + 1
  BY <1>2
<1> QED  BY Zenon, <1>9, <1>11, <1>12, <1>13, FlowOfOthers

\* The client reads.
LEMMA ReadFlow ==
    ASSUME TypeInv, TypeInv', ResultInv, FlowInv, NEW taken,
           Welcomed(taken) \/ Answered(taken)
    PROVE  ResultInv' /\ FlowInv'
<1>1. /\ call \in Nat /\ pc \in {"hello", "calling"} /\ pc # "closed"
      /\ client.connection \in Library
  <2>1. call \in Nat
    BY Zenon, CallIsNumber
  <2>2. pc \in {"hello", "calling"}
    BY Zenon DEF Welcomed, Answered
  <2>3. pc # "closed"
    BY <2>2
  <2> QED  BY Zenon, <2>1, <2>2, <2>3 DEF TypeInv, CallerInv
<1>2. PICK m \in Library : m = client.connection
  BY Zenon, <1>1
<1>3. m \in Connections /\ LineInv(m) /\ StreamInv(m)
      /\ worker[m].step # "none" /\ (Sound(m) => ClientInv(m))
  BY Zenon, <1>1, <1>2 DEF FlowInv, Connections
<1>4. taken \in 1 .. Len(s2c[m])
      /\ s2c' = [s2c EXCEPT ![m] = SubSeq(@, taken + 1, Len(@))]
  BY Zenon, <1>2 DEF Welcomed, Answered, Reads
<1>5. s2c[m] \in Seq(Parts) /\ s2c \in [Connections -> Seq(Parts)]
  BY Zenon, <1>3 DEF TypeInv, WireInv
<1>6. s2c[m] # <<>>
  BY <1>4, <1>5
<1>7. First = s2c[m][1] /\ First \in Parts
  <2>1. Head(s2c[m]) = s2c[m][1] /\ s2c[m][1] \in Parts
    BY Zenon, <1>5, <1>6, FirstOfSeq
  <2> QED  BY Zenon, <1>2, <2>1 DEF First
<1>8. \A p \in Library : p # m => s2c'[p] = s2c[p]
  BY Zenon, <1>4, <1>5 DEF Connections
<1>9. Len(s2c[m]) <= 1 => Len(s2c[m]) = 1
  <2>1. PICK l \in Nat \ {0} : l = Len(s2c[m])
    BY Zenon, <1>5, <1>6, FirstOfSeq
  <2>2. l <= 1 => l = 1
    OBVIOUS
  <2> QED  BY Zenon, <2>1, <2>2
<1>10. ASSUME Len(s2c[m]) = 1 PROVE s2c'[m] = <<>>
  <2>1. taken = 1
    BY <1>4, <1>10
  <2>2. SubSeq(s2c[m], taken + 1, Len(s2c[m])) = <<>>
    BY <1>5, <1>10, <2>1, RestOfOne
  <2> QED  BY Zenon, <1>3, <1>4, <1>5, <2>2
<1>11. worker[m].step # "hello"
  BY Zenon, <1>3, <1>6 DEF StreamInv
<1>12. call # call + 1
  BY <1>1
<1>13. CASE Welcomed(taken)
  <2>1. /\ UNCHANGED <<c2s, worker, acted, call, via, result>>
        /\ pc = "hello" /\ pc' \in {"ready", "closed"}
        /\ client'.connection = m
    BY ZenonT(60), <1>2, <1>13 DEF Welcomed, service, TypeInv, CallerInv
  <2>2. ResultInv'
    <3>1. Settles /\ pc' # "calling"
      BY Zenon, <2>1, KeptAll
    <3> QED  BY Zenon, <2>1, <3>1, ResultsKept
  <2>3. LineInv(m)' /\ StreamInv(m)'
    BY Zenon, <1>3, <1>11, <2>1 DEF LineInv, StreamInv
  <2>4. ASSUME pc' # "closed", Sound(m)' PROVE ClientInv(m)'
    <3>1. Sound(m)
      BY Zenon, <2>1, <2>4 DEF Sound
    <3>2. worker[m].step # "answering" /\ c2s[m] = <<>> /\ s2c'[m] = <<>>
      BY Zenon, <1>3, <1>9, <1>10, <1>11, <2>1, <3>1 DEF ClientInv
    <3> QED  BY Zenon, <2>1, <2>4, <3>2 DEF ClientInv
  <2> QED
    BY Zenon, <1>1, <1>2, <1>8, <1>12, <2>1, <2>2, <2>3, <2>4, FlowOfOthers
<1>14. CASE Answered(taken)
  <2>1. ~Rehandshakes(First.frame)
    BY Zenon, <1>7 DEF Rehandshakes, Parts, Incomings
  <2>2. /\ UNCHANGED <<c2s, worker, acted, client, call, via>>
        /\ pc = "calling" /\ pc' = "ready"
        /\ result' = [result EXCEPT ![call] =
             IF First.part = "whole" THEN Outcome(First.frame)
                                     ELSE "indeterminate"]
    BY Zenon, <1>14, <2>1 DEF Answered, Returns, service
  <2>3. CASE First.part = "whole"
    <3>1. PICK first \in Parts : first = First
      BY Zenon, <1>7
    <3>2. result' = [result EXCEPT ![call] = Outcome(first.frame)]
      BY Zenon, <2>2, <2>3, <3>1
    <3> QED
      BY Zenon, <1>2, <1>5, <1>6, <1>7, <1>8, <1>10, <2>2, <2>3, <3>1, <3>2,
         AnsweredFlow
  <2>4. CASE First.part # "whole"
    <3>1. result' = [result EXCEPT ![call'] = "indeterminate"]
      BY Zenon, <2>2, <2>4
    <3>2. call' \in 1 .. MaxCalls /\ via'[call'] = m
      <4>1. call \in 1 .. MaxCalls
        BY <2>2, SessionAssumption DEF TypeInv, CallerInv
      <4> QED  BY Zenon, <1>2, <2>2, <4>1 DEF ResultInv
    <3>3. pc # "hello" /\ pc' # "calling"
      BY <2>2
    <3> QED
      BY Zenon, <1>1, <1>2, <1>8, <2>2, <3>1, <3>2, <3>3, OpenResult
  <2> QED  BY Zenon, <2>3, <2>4
<1> QED  BY Zenon, <1>13, <1>14

LEMMA ClientFlow ==
    ASSUME TypeInv, TypeInv', ResultInv, FlowInv, Client
    PROVE  ResultInv' /\ FlowInv'
<1>1. CASE \E n \in Library : Connect(n)
  BY Zenon, <1>1, ConnectFlow
<1>2. CASE Call
  BY Zenon, <1>2, CallFlow
<1>3. ASSUME NEW taken, Welcomed(taken) \/ Answered(taken)
      PROVE  ResultInv' /\ FlowInv'
  BY Zenon, <1>3, ReadFlow
<1>4. CASE HandshakeLost \/ SendFails \/ Lost \/ Close
  <2>1. pc # "closed" /\ client.connection \in Library /\ call \in Nat
    BY Zenon, <1>4, CallIsNumber
       DEF HandshakeLost, SendFails, Lost, Close, TypeInv, CallerInv
  <2>2. PICK m \in Library : m = client.connection
    BY Zenon, <2>1
  <2>3. /\ m \in Connections /\ LineInv(m) /\ StreamInv(m)
        /\ worker[m].step # "none"
    BY Zenon, <2>1, <2>2 DEF FlowInv, Connections
  <2>4. call # call + 1
    BY <2>1
  <2>5. ASSUME UNCHANGED <<c2s, worker, acted, call, via, result>>,
               client'.connection = m, pc' = "closed",
               worker[m].step # "hello",
               \A p \in Library : p # m => s2c'[p] = s2c[p]
        PROVE  ResultInv' /\ FlowInv'
    <3>1. Settles /\ pc' # "calling"
      BY Zenon, <2>5, KeptAll
    <3>2. ResultInv'
      BY Zenon, <2>5, <3>1, ResultsKept
    <3>3. LineInv(m)' /\ StreamInv(m)'
      BY Zenon, <2>3, <2>5 DEF LineInv, StreamInv
    <3> QED  BY Zenon, <2>1, <2>2, <2>4, <2>5, <3>2, <3>3, FlowOfOthers
  <2>6. CASE HandshakeLost
    <3>1. /\ UNCHANGED <<c2s, s2c, worker, acted, call, via, result, client>>
          /\ pc' = "closed" /\ worker[m].step = "finished"
      BY Zenon, <2>2, <2>6 DEF HandshakeLost, AtEnd, service
    <3>2. client'.connection = m /\ worker[m].step # "hello"
      BY Zenon, <2>2, <3>1
    <3> QED  BY Zenon, <2>5, <3>1, <3>2
  <2>7. CASE SendFails
    <3>1. /\ UNCHANGED <<c2s, s2c, worker, acted, client, pc>>
          /\ call' = call + 1 /\ pc = "ready" /\ call < MaxCalls
          /\ via' = [via EXCEPT ![call + 1] = m]
          /\ result' = [result EXCEPT ![call'] = "indeterminate"]
      BY Zenon, <2>2, <2>7 DEF SendFails, service
    <3>2. /\ call + 1 \in 1 .. MaxCalls /\ call + 1 \notin 1 .. call
          /\ 1 .. call \subseteq 1 .. MaxCalls
      BY <2>1, <3>1, SessionAssumption
    <3>3. via'[call'] = m /\ \A k \in 1 .. call : via'[k] = via[k]
      BY Zenon, <3>1, <3>2 DEF TypeInv, CallerInv
    <3>4. client'.connection = m /\ pc # "hello" /\ pc' # "calling"
          /\ call' \in 1 .. MaxCalls
      BY Zenon, <2>2, <3>1, <3>2
    <3> QED  BY Zenon, <2>1, <2>2, <3>1, <3>3, <3>4, OpenResult
  <2>8. ASSUME pc = "calling"
        PROVE  call \in 1 .. MaxCalls /\ via[call] = m
    <3>1. call \in 1 .. MaxCalls
      BY <2>8, SessionAssumption DEF TypeInv, CallerInv
    <3> QED  BY Zenon, <2>2, <2>8, <3>1 DEF ResultInv
  <2>9. CASE Lost
    <3>1. /\ UNCHANGED <<c2s, s2c, worker, acted, client, call, via>>
          /\ pc = "calling" /\ pc' = "ready"
          /\ result' = [result EXCEPT ![call'] = "indeterminate"]
      BY Zenon, <2>9 DEF Lost, Returns, service
    <3>2. client'.connection = m /\ pc # "hello" /\ pc' # "calling"
      BY Zenon, <2>2, <3>1
    <3> QED  BY Zenon, <2>1, <2>2, <2>8, <3>1, <3>2, OpenResult
  <2>10. CASE Close
    <3>1. /\ UNCHANGED <<c2s, worker, acted, call, via>>
          /\ pc \in {"ready", "calling"} /\ pc' = "closed"
          /\ result' = IF pc = "calling"
                       THEN [result EXCEPT ![call] = "indeterminate"]
                       ELSE result
          /\ client'.connection = m
          /\ s2c' = [s2c EXCEPT ![m] = <<>>]
      BY Zenon, <2>2, <2>10 DEF Close, service, TypeInv, CallerInv
    <3>2. \A p \in Library : p # m => s2c'[p] = s2c[p]
      BY Zenon, <2>3, <3>1 DEF TypeInv, WireInv, Connections
    <3>3. CASE pc = "calling"
      <4>1. /\ result' = [result EXCEPT ![call'] = "indeterminate"]
            /\ pc # "hello" /\ pc' # "calling"
        BY Zenon, <3>1, <3>3
      <4> QED
        BY Zenon, <2>1, <2>2, <2>8, <3>1, <3>2, <3>3, <4>1, OpenResult
    <3>4. CASE pc # "calling"
      <4>1. result' = result /\ worker[m].step # "hello"
        BY Zenon, <2>3, <3>1, <3>4 DEF StreamInv
      <4> QED  BY Zenon, <2>5, <3>1, <3>2, <4>1
    <3> QED  BY Zenon, <3>3, <3>4
  <2> QED  BY Zenon, <1>4, <2>6, <2>7, <2>9, <2>10
<1> QED  BY Zenon, <1>1, <1>2, <1>3, <1>4 DEF Client

-----------------------------------------------------------------------------
(* The service's steps. *)

\* Steps that touch nothing of the library's.
LEMMA LibraryStays ==
    ASSUME TypeInv, ResultInv, FlowInv, NEW n, n \notin Library,
           UNCHANGED <<pc, client, call, via, result>>,
           \A p \in Library :
             /\ worker'[p] = worker[p] /\ acted'[p] = acted[p]
             /\ c2s'[p] = c2s[p] /\ s2c'[p] = s2c[p]
    PROVE  ResultInv' /\ FlowInv'
<1>1. Settles
  <2>1. \A p \in Library : Kept(p)
    BY Zenon, KeptSame
  <2> QED  BY Zenon, <2>1, Settled
<1>2. ResultInv'
  BY Zenon, <1>1, ResultsKept DEF ResultInv
<1> QED  BY Zenon, <1>1, <1>2, FlowElsewhere

\* A step of the thread of connection n that keeps what was settled.
LEMMA ThreadFlow ==
    ASSUME TypeInv, ResultInv, FlowInv, NEW n \in Library,
           UNCHANGED <<pc, client, call, via, result>>,
           \A p \in Library :
             p # n => /\ worker'[p] = worker[p] /\ acted'[p] = acted[p]
                      /\ c2s'[p] = c2s[p] /\ s2c'[p] = s2c[p],
           Kept(n), LineInv(n)', StreamInv(n)', worker'[n].step # "none",
           pc # "closed" /\ n = client.connection /\ Sound(n) => ClientInv(n)'
    PROVE  ResultInv' /\ FlowInv'
<1>1. Settles
  <2>1. \A p \in Library : Kept(p)
    BY Zenon, KeptSame
  <2> QED  BY Zenon, <2>1, Settled
<1>2. ResultInv'
  BY Zenon, <1>1, ResultsKept DEF ResultInv
<1> QED  BY Zenon, <1>1, <1>2, FlowElsewhere

LEMMA NoneAfterOne ==
    ASSUME NEW queue \in Seq(Outgoings), Len(queue) = 1
    PROVE  Tail(queue) = <<>>
<1>1. queue # <<>>
  OBVIOUS
<1>2. Tail(queue) \in Seq(Outgoings) /\ Len(Tail(queue)) = 0
  BY <1>1, FirstOfSeq
<1>3. Tail(queue) # <<>> => Len(Tail(queue)) \in Nat \ {0}
  BY Zenon, <1>2, FirstOfSeq
<1> QED  BY ONLY <1>2, <1>3

\* What belongs to a call is on the connection it was made on.
LEMMA OneConnection ==
    ASSUME TypeInv, EffectsInv, FlowInv, NEW k \in 1 .. call,
           NEW p \in Library, p # via[k]
    PROVE  Missing(k, acted[p], c2s[p])
<1>1. LineInv(p) /\ StreamInv(p) /\ OwnedInv(p)
  BY Zenon DEF FlowInv, EffectsInv, Connections
<1>2. CASE worker[p].step # "hello"
  BY Zenon, <1>1, <1>2 DEF LineInv, Lined, Missing
<1>3. CASE worker[p].step = "hello"
  <2>1. Len(acted[p]) = 0 /\ Len(c2s[p]) = 1 /\ c2s[p][1].call = 0
    BY <1>1, <1>3 DEF OwnedInv, Owned, StreamInv
  <2>2. k # 0 /\ (\A i \in 1 .. 1 : i = 1) /\ \A i : i \notin 1 .. 0
    BY CallIsNumber
  <2> QED  BY Zenon, <2>1, <2>2 DEF Missing
<1> QED  BY Zenon, <1>2, <1>3

\* What the thread of a library connection reads after the handshake: a request,
\* of which nothing else is left, and on a sound connection that of the call
\* under way.
LEMMA ThreadReads ==
    ASSUME TypeInv, EffectsInv, FlowInv, NEW n \in Library, NEW frame,
           Receives(n, "reading", frame)
    PROVE  /\ frame.type = "Request" /\ frame \in Outgoings
           /\ frame.call \in 1 .. call /\ frame = c2s[n][1]
           /\ c2s[n] # <<>> /\ c2s'[n] = Tail(c2s[n])
           /\ Lined(n, acted[n], c2s[n], call, via)
           /\ Missing(frame.call, acted[n], Tail(c2s[n]))
           /\ \A p \in Library :
                p # n => Missing(frame.call, acted[p], c2s[p])
           /\ pc # "closed" /\ n = client.connection /\ Sound(n) =>
                /\ pc = "calling" /\ frame.call = call
                /\ c2s'[n] = <<>> /\ s2c[n] = <<>>
<1>1. n \in Connections /\ worker[n].step = "reading"
  BY Zenon DEF Receives, Connections
<1>2. /\ frame \in Outgoings /\ frame = c2s[n][1]
      /\ c2s[n] # <<>> /\ c2s'[n] = Tail(c2s[n])
      /\ c2s[n] \in Seq(Outgoings)
  BY Zenon, <1>1, Received DEF TypeInv, WireInv
<1>3. Lined(n, acted[n], c2s[n], call, via)
  BY Zenon, <1>1 DEF FlowInv, LineInv
<1>4. /\ 1 \in 1 .. Len(c2s[n])
      /\ \A i \in 1 .. Len(Tail(c2s[n])) :
           i + 1 \in 1 .. Len(c2s[n]) /\ Tail(c2s[n])[i] = c2s[n][i + 1]
           /\ 1 < i + 1
  BY Zenon, <1>2, Rest
<1>5. frame.type = "Request" /\ frame.call \in 1 .. call /\ via[frame.call] = n
  BY Zenon, <1>2, <1>3, <1>4 DEF Lined
<1>6. PICK k \in 1 .. call : k = frame.call
  BY Zenon, <1>5
<1>7. Missing(k, acted[n], Tail(c2s[n]))
  <2>1. \A i \in 1 .. Len(acted[n]) : acted[n][i].frame.call < k
    BY Zenon, <1>2, <1>3, <1>4, <1>6 DEF Lined
  <2>2. \A i \in 1 .. Len(Tail(c2s[n])) : k < Tail(c2s[n])[i].call
    BY Zenon, <1>2, <1>3, <1>4, <1>6 DEF Lined
  <2>3. k \in Nat /\ ~(k < k)
    BY CallIsNumber
  <2> QED  BY Zenon, <2>1, <2>2, <2>3 DEF Missing
<1>8. \A p \in Library : p # n => Missing(k, acted[p], c2s[p])
  BY Zenon, <1>5, <1>6, OneConnection
<1>9. ASSUME pc # "closed", n = client.connection, Sound(n)
      PROVE  /\ pc = "calling" /\ frame.call = call
             /\ c2s'[n] = <<>> /\ s2c[n] = <<>>
  <2>1. ClientInv(n) /\ pc \in {"hello", "ready", "calling"}
    BY Zenon, <1>9 DEF FlowInv, TypeInv, CallerInv
  <2>2. /\ pc = "calling" /\ Len(c2s[n]) = 1 /\ frame.call = call
        /\ s2c[n] = <<>>
    BY Zenon, <1>1, <1>2, <2>1 DEF ClientInv
  <2>3. c2s'[n] = <<>>
    BY Zenon, <1>2, <2>2, NoneAfterOne
  <2> QED  BY Zenon, <2>2, <2>3
<1> QED  BY Zenon, <1>2, <1>3, <1>5, <1>6, <1>7, <1>8, <1>9

\* What is sent where nothing else is on its way.
LEMMA SentWhole ==
    ASSUME TypeInv, NEW n \in Library, NEW f, Sends(n, f), s2c[n] = <<>>
    PROVE  \/ s2c'[n] = <<>>
           \/ /\ s2c'[n] # <<>> /\ Len(s2c'[n]) = 1
              /\ s2c'[n][1].part = "whole" /\ s2c'[n][1].frame = f
<1>1. n \in Connections /\ s2c \in [Connections -> Seq(Parts)]
  BY Zenon DEF Connections, TypeInv, WireInv
<1>2. PICK w : w = [part |-> "whole", frame |-> f]
  BY Zenon
<1>3. w.part = "whole" /\ w.frame = f
  BY Zenon, <1>2
<1>4. s2c'[n] = <<>> \/ s2c'[n] = s2c[n] \o <<w>>
  BY Zenon, <1>1, <1>2 DEF Sends, SendFrame, Pieces
<1>5. <<>> \o <<w>> = <<w>> /\ <<w>> # <<>> /\ Len(<<w>>) = 1 /\ <<w>>[1] = w
  OBVIOUS
<1> QED  BY Zenon, <1>3, <1>4, <1>5

\* A session thread serves only what concerns its own connection.
LEMMA ServeLocal ==
    ASSUME TypeInv, NEW n \in Connections, Serve(n)
    PROVE  /\ UNCHANGED <<pc, client, call, via, result>>
           /\ \A p \in Connections :
                p # n => /\ worker'[p] = worker[p] /\ acted'[p] = acted[p]
                         /\ c2s'[p] = c2s[p] /\ s2c'[p] = s2c[p]
<1> DEFINE Local ==
      /\ UNCHANGED <<pc, client, call, via, result>>
      /\ \A p \in Connections :
           p # n => /\ worker'[p] = worker[p] /\ acted'[p] = acted[p]
                    /\ c2s'[p] = c2s[p] /\ s2c'[p] = s2c[p]
<1>1. /\ s2c \in [Connections -> Seq(Parts)]
      /\ worker \in [Connections -> Sessions]
      /\ acted \in [Connections -> Seq(Acted)]
  BY Zenon DEF TypeInv, WireInv, ServiceInv
<1>2. ASSUME NEW f, NEW whole, SendFrame(n, f, whole)
      PROVE  \A p \in Connections : p # n => s2c'[p] = s2c[p]
  BY Zenon, <1>1, <1>2 DEF SendFrame
<1>3. ASSUME NEW step, NEW frame, Receives(n, step, frame)
      PROVE  /\ \A p \in Connections : p # n => c2s'[p] = c2s[p]
             /\ UNCHANGED <<pc, client, call, via, result>>
  BY Zenon, <1>3, Received DEF Receives, caller
<1>4. CASE Respond(n)
  <2>1. \A p \in Connections : p # n => s2c'[p] = s2c[p]
    BY Zenon, <1>2, <1>4 DEF Respond, Sends
  <2> QED  BY Zenon, <1>1, <1>4, <2>1 DEF Respond, caller
<1>5. CASE PeerClosed(n)
  BY Zenon, <1>5, Finished DEF PeerClosed, caller
<1>6. ASSUME NEW frame, ServeGarbled(n, frame) \/ ServeOutOfSequence(n, frame)
      PROVE  Local
  BY Zenon, <1>2, <1>3, <1>6, Finished
     DEF ServeGarbled, ServeOutOfSequence, Own, SendsError, Sends
<1>7. ASSUME NEW frame, RejectHello(n, frame) \/ ServeGoodbye(n, frame)
      PROVE  Local
  BY Zenon, <1>3, <1>7, Finished DEF RejectHello, ServeGoodbye, Own
<1>8. ASSUME NEW frame, ServeForeign(n, frame) PROVE Local
  BY Zenon, <1>2, <1>3, <1>8 DEF ServeForeign, SendsError, Sends
<1>9. ASSUME NEW frame, ServeHello(n, frame) PROVE Local
  BY Zenon, <1>1, <1>2, <1>3, <1>9 DEF ServeHello, Sends
<1>10. ASSUME NEW frame, ServeOther(n, frame) PROVE Local
  BY Zenon, <1>1, <1>2, <1>3, <1>10
     DEF ServeOther, InSequence, Own, SendsError, Sends
<1>11. ASSUME NEW frame, Handle(n, frame) PROVE Local
  BY Zenon, <1>1, <1>3, <1>11 DEF Handle, InSequence, Own
<1> QED
  BY Zenon, <1>4, <1>5, <1>6, <1>7, <1>8, <1>9, <1>10, <1>11 DEF Serve

\* A request that the session layer refuses with an Error frame is over.
LEMMA ErrorFlow ==
    ASSUME TypeInv, TypeInv', EffectsInv, ResultInv, FlowInv,
           NEW n \in Library, NEW frame, Serve(n), Receives(n, "reading", frame),
           SendsError(n, "refused", frame.call),
           worker' = worker \/ Finishes(n), UNCHANGED acted
    PROVE  ResultInv' /\ FlowInv'
<1>1. n \in Connections /\ worker[n].step = "reading"
      /\ worker'[n].step \in {"reading", "finished"}
  BY Zenon, Finished DEF Connections, Receives
<1>2. /\ UNCHANGED <<pc, client, call, via, result>>
      /\ \A p \in Library :
           p # n => /\ worker'[p] = worker[p] /\ acted'[p] = acted[p]
                    /\ c2s'[p] = c2s[p] /\ s2c'[p] = s2c[p]
  BY Zenon, <1>1, ServeLocal DEF Connections
<1>3. /\ acted[n] \in Seq(Acted) /\ c2s[n] \in Seq(Outgoings)
      /\ call \in Nat
  BY Zenon, <1>1, CallIsNumber DEF TypeInv, WireInv, ServiceInv
<1>4. /\ frame.call \in 1 .. call
      /\ c2s[n] # <<>> /\ c2s'[n] = Tail(c2s[n])
      /\ Lined(n, acted[n], c2s[n], call, via)
      /\ Missing(frame.call, acted[n], Tail(c2s[n]))
      /\ \A p \in Library : p # n => Missing(frame.call, acted[p], c2s[p])
      /\ pc # "closed" /\ n = client.connection /\ Sound(n) =>
           /\ pc = "calling" /\ frame.call = call
           /\ c2s'[n] = <<>> /\ s2c[n] = <<>>
  BY Zenon, ThreadReads
<1>5. Kept(n)
  BY Zenon, <1>3, <1>4, MissingKept DEF Kept
<1>6. LineInv(n)'
  <2>1. Lined(n, acted[n], Tail(c2s[n]), call, via)
    BY Zenon, <1>3, <1>4, LinedRead
  <2> QED  BY Zenon, <1>2, <1>4, <2>1 DEF LineInv
<1>7. StreamInv(n)' /\ worker'[n].step # "none"
      /\ worker'[n].step # "answering"
  BY Zenon, <1>1 DEF StreamInv
<1>8. ASSUME pc # "closed", n = client.connection, Sound(n)
      PROVE  ClientInv(n)'
  <2>1. /\ pc = "calling" /\ frame.call = call
        /\ c2s'[n] = <<>> /\ s2c[n] = <<>>
    BY Zenon, <1>4, <1>8
  <2>2. PICK f : f = Incoming("Error", "refused", worker[n].session, frame.call)
    BY Zenon
  <2>3. f.type = "Error" /\ f.reason = "refused" /\ Sends(n, f)
    BY Zenon, <2>2 DEF Incoming, SendsError
  <2>4. \/ s2c'[n] = <<>>
        \/ /\ s2c'[n] # <<>> /\ Len(s2c'[n]) = 1
           /\ s2c'[n][1].part = "whole" /\ s2c'[n][1].frame = f
    BY Zenon, <2>1, <2>3, SentWhole
  <2>5. Over(call)'
    <3>1. PICK k : k = frame.call
      BY Zenon
    <3>2. \A p \in Library : Missing(k, acted'[p], c2s'[p])
      BY Zenon, <1>2, <1>4, <3>1
    <3> QED  BY Zenon, <1>2, <2>1, <3>1, <3>2 DEF Over
  <2>6. Truth(call, "refused")'
    BY Zenon, <2>5 DEF Truth
  <2>7. s2c'[n] # <<>> => Answers(s2c[n][1].frame)'
    BY Zenon, <2>3, <2>4, <2>6 DEF Answers
  <2> QED  BY Zenon, <1>2, <1>7, <2>1, <2>4, <2>7 DEF ClientInv
<1> QED  BY Zenon, <1>2, <1>5, <1>6, <1>7, <1>8, ThreadFlow

\* Handle: the engine acts on the request or not, and the answer agrees.
LEMMA HandleFlow ==
    ASSUME TypeInv, TypeInv', EffectsInv, ResultInv, FlowInv,
           NEW n \in Library, NEW frame, Serve(n), Handle(n, frame)
    PROVE  ResultInv' /\ FlowInv'
<1>1. n \in Connections /\ Receives(n, "reading", frame) /\ epoch \in Nat
      /\ UNCHANGED s2c
  BY SessionAssumption
     DEF Connections, Handle, InSequence, Own, TypeInv, ServiceInv
<1>2. /\ UNCHANGED <<pc, client, call, via, result>>
      /\ \A p \in Library :
           p # n => /\ worker'[p] = worker[p] /\ acted'[p] = acted[p]
                    /\ c2s'[p] = c2s[p] /\ s2c'[p] = s2c[p]
  BY Zenon, <1>1, ServeLocal DEF Connections
<1>3. /\ acted[n] \in Seq(Acted) /\ c2s[n] \in Seq(Outgoings)
      /\ acted \in [Connections -> Seq(Acted)]
      /\ worker \in [Connections -> Sessions]
  BY Zenon, <1>1 DEF TypeInv, WireInv, ServiceInv
<1>4. /\ frame \in Outgoings
      /\ frame.call \in 1 .. call /\ frame = c2s[n][1]
      /\ c2s[n] # <<>> /\ c2s'[n] = Tail(c2s[n])
      /\ Lined(n, acted[n], c2s[n], call, via)
      /\ Missing(frame.call, acted[n], Tail(c2s[n]))
      /\ \A p \in Library : p # n => Missing(frame.call, acted[p], c2s[p])
      /\ pc # "closed" /\ n = client.connection /\ Sound(n) =>
           /\ pc = "calling" /\ frame.call = call
           /\ c2s'[n] = <<>> /\ s2c[n] = <<>>
  BY ZenonT(60), <1>1, ThreadReads
<1>5. PICK reason \in Handled(n, frame), did \in BOOLEAN :
        /\ reason = "ok" => did
        /\ did => reason \in {"ok", "error"}
        /\ acted' = IF did
                    THEN [acted EXCEPT ![n] = Append(@, [live |-> epoch,
                                                         frame |-> frame])]
                    ELSE acted
        /\ worker' = [worker EXCEPT
               ![n].step = "answering", ![n].expected = @ + 1,
               ![n].answer = <<Incoming("Response", reason, worker[n].session,
                                        frame.call)>>]
  BY Zenon DEF Handle
<1>6. reason # "unreadable"
  BY Zenon, <1>5 DEF Handled
<1>7. PICK f : f = Incoming("Response", reason, worker[n].session, frame.call)
  BY Zenon
<1>8. f.type = "Response" /\ f.reason = reason
  BY Zenon, <1>7 DEF Incoming
<1>9. worker'[n].step = "answering" /\ worker'[n].answer[1] = f
  <2>1. worker' = [worker EXCEPT ![n].step = "answering",
                          ![n].expected = @ + 1, ![n].answer = <<f>>]
    BY Zenon, <1>5, <1>7
  <2>2. <<f>>[1] = f
    OBVIOUS
  <2>3. worker'[n].answer = <<f>> /\ worker'[n].step = "answering"
    BY Zenon, <1>1, <1>3, <2>1 DEF Sessions
  <2> QED  BY Zenon, <2>2, <2>3
<1>10. PICK act \in Acted : act = [live |-> epoch, frame |-> frame]
  BY Zenon, <1>1, <1>4 DEF Acted
<1>11. act.frame = frame
  BY Zenon, <1>10
<1>12. acted'[n] = IF did THEN Append(acted[n], act) ELSE acted[n]
  BY Zenon, <1>1, <1>3, <1>5, <1>10
<1>13. Kept(n)
  <2>1. \A k \in 1 .. call :
          Missing(k, acted[n], c2s[n]) => Missing(k, acted'[n], c2s'[n])
    BY Zenon, <1>3, <1>4, <1>11, <1>12, MissingKept
  <2>2. \A i \in 1 .. Len(acted[n]) :
          /\ i \in 1 .. Len(Append(acted[n], act))
          /\ Append(acted[n], act)[i] = acted[n][i]
    BY <1>3
  <2>3. \A i \in 1 .. Len(acted[n]) :
          i \in 1 .. Len(acted'[n]) /\ acted'[n][i] = acted[n][i]
    BY Zenon, <1>12, <2>2
  <2> QED  BY Zenon, <2>1, <2>3 DEF Kept
<1>14. LineInv(n)'
  <2>1. Lined(n, acted[n], Tail(c2s[n]), call, via)
    BY Zenon, <1>3, <1>4, LinedRead
  <2>2. Lined(n, Append(acted[n], act), Tail(c2s[n]), call, via)
    BY Zenon, <1>3, <1>4, <1>11, LinedAct
  <2> QED  BY Zenon, <1>2, <1>4, <1>12, <2>1, <2>2 DEF LineInv
<1>15. StreamInv(n)' /\ worker'[n].step # "none"
  BY Zenon, <1>9 DEF StreamInv
<1>16. ASSUME pc # "closed", n = client.connection, Sound(n)
       PROVE  ClientInv(n)'
  <2>1. /\ pc = "calling" /\ frame.call = call
        /\ c2s'[n] = <<>> /\ s2c[n] = <<>>
    BY Zenon, <1>4, <1>16
  <2>2. PICK k : k = frame.call
    BY Zenon
  <2>3. ASSUME did PROVE Done(k)'
    <3>1. Len(Append(acted[n], act)) \in 1 .. Len(Append(acted[n], act))
          /\ Append(acted[n], act)[Len(Append(acted[n], act))] = act
      BY <1>3
    <3>2. \E i \in 1 .. Len(acted'[n]) : acted'[n][i].frame.call = k
      BY Zenon, <1>11, <1>12, <2>2, <2>3, <3>1
    <3> QED  BY Zenon, <3>2 DEF Done
  <2>4. ASSUME ~did PROVE Over(k)'
    <3>1. \A p \in Library : Missing(k, acted'[p], c2s'[p])
      BY Zenon, <1>2, <1>4, <1>12, <2>2, <2>4
    <3> QED  BY Zenon, <3>1 DEF Over
  <2>5. Truth(k, reason)'
    BY Zenon, <1>5, <1>6, <2>3, <2>4 DEF Truth
  <2>6. Answers(worker[n].answer[1])'
    BY Zenon, <1>2, <1>8, <1>9, <2>1, <2>2, <2>5
       DEF Answers, Truth, Done, Over
  <2> QED  BY Zenon, <1>1, <1>2, <1>9, <2>1, <2>6 DEF ClientInv
<1> QED  BY Zenon, <1>2, <1>13, <1>14, <1>15, <1>16, ThreadFlow

\* Respond: the answer goes out as it is, too large or without payload.
LEMMA RespondFlow ==
    ASSUME TypeInv, TypeInv', ResultInv, FlowInv, NEW n \in Library, Serve(n),
           Respond(n)
    PROVE  ResultInv' /\ FlowInv'
<1>1. /\ n \in Connections /\ worker[n].step = "answering"
      /\ UNCHANGED <<c2s, acted>>
  BY Zenon DEF Connections, Respond
<1>2. /\ UNCHANGED <<pc, client, call, via, result>>
      /\ \A p \in Library :
           p # n => /\ worker'[p] = worker[p] /\ acted'[p] = acted[p]
                    /\ c2s'[p] = c2s[p] /\ s2c'[p] = s2c[p]
  BY Zenon, <1>1, ServeLocal DEF Connections
<1>3. worker'[n].step = "reading"
  BY ZenonT(60), <1>1 DEF Respond, TypeInv, ServiceInv, Sessions
<1>4. Kept(n)
  BY Zenon, <1>1, KeptSame
<1>5. LineInv(n)' /\ StreamInv(n)' /\ worker'[n].step # "none"
  <2>1. LineInv(n)
    BY Zenon DEF FlowInv
  <2> QED  BY Zenon, <1>1, <1>2, <1>3, <2>1 DEF LineInv, StreamInv
<1>6. ASSUME pc # "closed", n = client.connection, Sound(n)
      PROVE  ClientInv(n)'
  <2>1. ClientInv(n) /\ pc \in {"hello", "ready", "calling"}
    BY Zenon, <1>6 DEF FlowInv, TypeInv, CallerInv
  <2>2. PICK f \in Incomings : f = worker[n].answer[1]
    <3>1. worker[n].answer \in Seq(Incomings) /\ worker[n].answer # <<>>
      BY Zenon, <1>1 DEF TypeInv, ServiceInv, Sessions
    <3> QED  BY Zenon, <3>1, FirstOfSeq
  <2>3. pc = "calling" /\ c2s[n] = <<>> /\ s2c[n] = <<>> /\ Answers(f)
    BY Zenon, <1>1, <2>1, <2>2 DEF ClientInv
  <2>4. PICK k \in 1 .. call : k = call
    BY Zenon, <2>3, CallUnderWay
  <2>5. PICK g : g = [f EXCEPT !.reason = "unreadable"]
    BY Zenon
  <2>6. g.type = f.type /\ g.reason = "unreadable"
    BY Zenon, <2>5 DEF Incomings
  <2>7. Settles
    <3>1. \A p \in Library : Kept(p)
      BY Zenon, <1>2, <1>4, KeptSame
    <3> QED  BY Zenon, <3>1, Settled
  <2>8. Answers(f)' /\ (f.reason = "ok" => Answers(g)')
    <3>1. PICK reason : reason = f.reason
      BY Zenon
    <3>2. Truth(k, reason)'
      BY Zenon, <2>3, <2>4, <2>7, <3>1, TruthStays DEF Answers
    <3>3. reason = "ok" => Truth(k, "unreadable")'
      BY Zenon, <3>2 DEF Truth
    <3>4. f.type \in {"Response", "Error"}
      BY Zenon, <2>3 DEF Answers
    <3> QED
      BY Zenon, <1>2, <2>4, <2>6, <3>1, <3>2, <3>3, <3>4
         DEF Answers, Truth, Done, Over
  <2>9. s2c'[n] # <<>> /\ s2c'[n][1].part = "whole" =>
          Len(s2c'[n]) = 1 /\ Answers(s2c[n][1].frame)'
    <3>1. CASE Sends(n, f)
      BY Zenon, <2>3, <2>8, <3>1, SentWhole DEF Answers
    <3>2. CASE f.reason = "ok" /\ Sends(n, g)
      BY Zenon, <2>3, <2>8, <3>2, SentWhole DEF Answers
    <3>3. CASE SendFrame(n, f, FALSE)
      <4>1. PICK h, t : h = [part |-> "head", frame |-> f]
                        /\ t = [part |-> "tail", frame |-> f]
        BY Zenon
      <4>2. h.part = "head"
        BY Zenon, <4>1
      <4>3. s2c'[n] = <<>> \/ s2c'[n] = s2c[n] \o <<h, t>>
        BY Zenon, <1>1, <2>3, <3>3, <4>1
           DEF SendFrame, Pieces, TypeInv, WireInv
      <4>4. <<>> \o <<h, t>> = <<h, t>> /\ <<h, t>>[1] = h
        OBVIOUS
      <4>5. s2c'[n] = <<>> \/ s2c'[n][1] = h
        BY Zenon, <2>3, <4>3, <4>4
      <4>6. s2c'[n] # <<>> => s2c'[n][1].part # "whole"
        BY Zenon, <4>2, <4>5
      <4> QED  BY Zenon, <4>6
    <3> QED  BY Zenon, <2>2, <2>5, <3>1, <3>2, <3>3 DEF Respond
  <2> QED  BY Zenon, <1>1, <1>2, <1>3, <2>3, <2>9 DEF ClientInv
<1> QED  BY Zenon, <1>2, <1>4, <1>5, <1>6, ThreadFlow

\* ServeHello: the thread welcomes the client.
LEMMA HelloFlow ==
    ASSUME TypeInv, TypeInv', EffectsInv, ResultInv, FlowInv,
           NEW n \in Library, NEW frame, Serve(n), ServeHello(n, frame)
    PROVE  ResultInv' /\ FlowInv'
<1>1. /\ n \in Connections /\ Receives(n, "hello", frame)
      /\ worker[n].step = "hello" /\ UNCHANGED acted
  BY Zenon DEF Connections, ServeHello, Receives
<1>2. /\ UNCHANGED <<pc, client, call, via, result>>
      /\ \A p \in Library :
           p # n => /\ worker'[p] = worker[p] /\ acted'[p] = acted[p]
                    /\ c2s'[p] = c2s[p] /\ s2c'[p] = s2c[p]
  BY Zenon, <1>1, ServeLocal DEF Connections
<1>3. /\ acted[n] \in Seq(Acted) /\ c2s[n] \in Seq(Outgoings)
      /\ StreamInv(n) /\ OwnedInv(n)
  BY Zenon, <1>1 DEF TypeInv, WireInv, ServiceInv, FlowInv, EffectsInv
<1>4. /\ pc = "hello" /\ Len(c2s[n]) = 1 /\ s2c[n] = <<>> /\ acted[n] = <<>>
  BY Zenon, <1>1, <1>3 DEF StreamInv, OwnedInv, Owned
<1>5. c2s'[n] = <<>> /\ c2s[n] # <<>>
  BY Zenon, <1>1, <1>3, <1>4, Received, NoneAfterOne
<1>6. worker'[n].step = "reading"
  BY Zenon, <1>1 DEF ServeHello, TypeInv, ServiceInv, Sessions
<1>7. Kept(n)
  BY Zenon, <1>1, <1>3, <1>5, MissingKept DEF Kept
<1>8. LineInv(n)' /\ StreamInv(n)' /\ worker'[n].step # "none"
  <2>1. Lined(n, acted'[n], c2s'[n], call', via')
    BY Zenon, <1>1, <1>4, <1>5, LinedNone
  <2> QED  BY Zenon, <1>6, <2>1 DEF LineInv, StreamInv
<1>9. ClientInv(n)'
  <2>1. PICK f : f = Incoming("Welcome", "ok", next_session, 0)
    BY Zenon
  <2>2. s2c'[n] = <<>> \/ Len(s2c'[n]) = 1
    BY Zenon, <1>4, <2>1, SentWhole DEF ServeHello
  <2>3. Len(s2c'[n]) <= 1
    BY Zenon, <2>2, AtMostOne
  <2>4. worker'[n].step # "answering" /\ pc' = "hello"
    BY Zenon, <1>2, <1>4, <1>6
  <2> QED  BY Zenon, <1>5, <2>3, <2>4 DEF ClientInv
<1> QED  BY Zenon, <1>2, <1>7, <1>8, <1>9, ThreadFlow

\* PeerClosed: the thread ends with what it held.
LEMMA ClosedFlow ==
    ASSUME TypeInv, TypeInv', ResultInv, FlowInv, NEW n \in Library, Serve(n),
           PeerClosed(n)
    PROVE  ResultInv' /\ FlowInv'
<1>1. /\ n \in Connections /\ UNCHANGED <<c2s, s2c, acted>>
      /\ Finishes(n) /\ worker[n].step # "none"
      /\ worker[n].step = "hello" => c2s[n] = <<>>
  BY Zenon DEF Connections, PeerClosed
<1>2. /\ UNCHANGED <<pc, client, call, via, result>>
      /\ \A p \in Library :
           p # n => /\ worker'[p] = worker[p] /\ acted'[p] = acted[p]
                    /\ c2s'[p] = c2s[p] /\ s2c'[p] = s2c[p]
  BY Zenon, <1>1, ServeLocal DEF Connections
<1>3. worker'[n].step = "finished"
  BY Zenon, <1>1, Finished
<1>4. LineInv(n) /\ StreamInv(n)
  BY Zenon DEF FlowInv
<1>5. worker[n].step # "hello"
  <2>1. c2s[n] = <<>> => Len(c2s[n]) # 1
    OBVIOUS
  <2> QED  BY Zenon, <1>1, <1>4, <2>1 DEF StreamInv
<1>6. Kept(n)
  BY Zenon, <1>1, KeptSame
<1>7. LineInv(n)' /\ StreamInv(n)' /\ worker'[n].step # "none"
  BY Zenon, <1>1, <1>2, <1>3, <1>4, <1>5 DEF LineInv, StreamInv
<1>8. ASSUME pc # "closed", n = client.connection, Sound(n)
      PROVE  ClientInv(n)'
  <2>1. ClientInv(n)
    BY Zenon, <1>8 DEF FlowInv
  <2>2. ASSUME pc = "calling", Answers(s2c[n][1].frame)
        PROVE  Answers(s2c[n][1].frame)'
    BY Zenon, <1>1, <1>2, <2>2
       DEF Answers, Truth, Done, Over, Missing
  <2> QED  BY Zenon, <1>1, <1>2, <1>3, <1>5, <2>1, <2>2 DEF ClientInv
<1> QED  BY Zenon, <1>2, <1>6, <1>7, <1>8, ThreadFlow

LEMMA ServeFlow ==
    ASSUME TypeInv, TypeInv', EffectsInv, ResultInv, FlowInv,
           NEW n \in Connections, Serve(n)
    PROVE  ResultInv' /\ FlowInv'
<1>1. CASE n \notin Library
  BY Zenon, <1>1, ServeLocal, LibraryStays DEF Connections
<1>2. CASE n \in Library
  <2>1. ASSUME NEW frame
        PROVE  /\ ~ServeGarbled(n, frame) /\ ~RejectHello(n, frame)
               /\ ~ServeGoodbye(n, frame) /\ ~ServeOther(n, frame)
    <3>1. ASSUME Receives(n, "hello", frame) PROVE WellOpened(frame)
      <4>1. worker[n].step = "hello" /\ frame = c2s[n][1]
        BY Zenon, <3>1, Received DEF Receives
      <4> QED  BY Zenon, <1>2, <4>1 DEF FlowInv, StreamInv
    <3>2. ASSUME Receives(n, "reading", frame) PROVE frame.type = "Request"
      BY ZenonT(60), <1>2, <3>2, ThreadReads
    <3> QED
      BY Zenon, <3>1, <3>2
         DEF ServeGarbled, RejectHello, ServeGoodbye, ServeOther, InSequence,
             Own, WellOpened
  <2>2. ASSUME NEW frame, ServeForeign(n, frame) \/ ServeOutOfSequence(n, frame)
        PROVE  ResultInv' /\ FlowInv'
    BY Zenon, <1>2, <2>2, ErrorFlow DEF ServeForeign, ServeOutOfSequence, Own
  <2> QED
    BY Zenon, <1>2, <2>1, <2>2, HandleFlow, RespondFlow, HelloFlow, ClosedFlow
       DEF Serve
<1> QED  BY Zenon, <1>1, <1>2

\* Crash: what waits is lost, and what was sent arrives or not.
LEMMA CrashFlow ==
    ASSUME TypeInv, TypeInv', EffectsInv, ResultInv, FlowInv, Crash
    PROVE  ResultInv' /\ FlowInv'
<1>1. /\ UNCHANGED <<acted, pc, client, call, via, result>>
      /\ \A n \in Library :
           /\ c2s'[n] = <<>> /\ (s2c'[n] = <<>> \/ s2c'[n] = s2c[n])
           /\ worker[n].step = "none" => worker'[n].step = "none"
           /\ worker[n].step # "none" => worker'[n].step = "finished"
  BY Zenon DEF Crash, Without, caller, Connections
<1>2. Settles
  <2>1. ASSUME NEW n \in Library PROVE Kept(n)
    <3>1. acted[n] \in Seq(Acted) /\ c2s[n] \in Seq(Outgoings)
      BY Zenon DEF TypeInv, WireInv, ServiceInv, Connections
    <3> QED  BY Zenon, <1>1, <3>1, MissingKept DEF Kept
  <2> QED  BY Zenon, <2>1, Settled
<1>3. ResultInv'
  BY Zenon, <1>1, <1>2, ResultsKept DEF ResultInv
<1>4. ASSUME NEW n \in Library PROVE LineInv(n)' /\ StreamInv(n)'
  <2>1. LineInv(n) /\ StreamInv(n) /\ OwnedInv(n)
    BY Zenon DEF FlowInv, EffectsInv, Connections
  <2>2. Lined(n, acted[n], <<>>, call, via)
    BY Zenon, <2>1, LinedNone DEF LineInv, OwnedInv, Owned
  <2>3. LineInv(n)'
    BY Zenon, <1>1, <2>2 DEF LineInv
  <2>4. StreamInv(n)'
    BY Zenon, <1>1, <2>1 DEF StreamInv
  <2> QED  BY Zenon, <2>3, <2>4
<1>5. ASSUME NEW n \in Library, pc # "closed", n = client.connection
      PROVE  worker'[n].step # "none" /\ (Sound(n)' => ClientInv(n)')
  <2>1. worker[n].step # "none" /\ (Sound(n) => ClientInv(n))
    BY Zenon, <1>5 DEF FlowInv
  <2>2. worker'[n].step = "finished"
    BY Zenon, <1>1, <2>1
  <2>3. ASSUME Sound(n)' PROVE ClientInv(n)'
    <3>1. ClientInv(n)
      BY Zenon, <1>1, <2>1, <2>3 DEF Sound
    <3>2. CASE s2c'[n] = <<>>
      BY Zenon, <1>1, <2>2, <3>2, AtMostOne DEF ClientInv
    <3>3. CASE s2c'[n] # <<>>
      <4>1. s2c'[n] = s2c[n]
        BY Zenon, <1>1, <3>3
      <4>2. ASSUME pc = "calling", Answers(s2c[n][1].frame)
            PROVE  Answers(s2c[n][1].frame)'
        <5>1. PICK f : f = s2c[n][1].frame
          BY Zenon
        <5>2. PICK k \in 1 .. call : k = call
          BY Zenon, <4>2, CallUnderWay
        <5>3. PICK reason : reason = f.reason
          BY Zenon
        <5>4. f.type \in {"Response", "Error"} /\ Truth(k, reason)'
          BY Zenon, <1>2, <4>2, <5>1, <5>2, <5>3, TruthStays DEF Answers
        <5> QED
          BY Zenon, <1>1, <4>1, <5>1, <5>2, <5>3, <5>4
             DEF Answers, Truth, Done, Over
      <4>3. pc = "ready" => s2c[n] = <<>>
        BY Zenon, <3>1 DEF ClientInv
      <4> QED
        BY Zenon, <1>1, <2>2, <3>1, <3>3, <4>1, <4>2, <4>3 DEF ClientInv
    <3> QED  BY Zenon, <3>2, <3>3
  <2> QED  BY Zenon, <2>2, <2>3
<1> QED  BY Zenon, <1>1, <1>3, <1>4, <1>5 DEF FlowInv

-----------------------------------------------------------------------------
(* The theorems. *)

LEMMA IInvInit == Init => IInv
<1> SUFFICES ASSUME Init PROVE IInv
  BY Zenon
<1>1. TypeInv
  BY Zenon, TypeInit
<1>2. \A n \in Connections : worker[n].step = "none" /\ acted[n] = <<>>
                             /\ c2s[n] = <<>> /\ s2c[n] = <<>>
  BY Zenon DEF Init, Without
<1>3. \A n \in Connections : Len(acted[n]) = 0
  BY SMTT(60), <1>2
<1>4. EffectsInv
  BY <1>2, <1>3 DEF EffectsInv, OwnedInv, Owned
<1>5. Library \subseteq Connections /\ call = 0 /\ pc = "closed"
      /\ \A k \in 1 .. MaxCalls : result[k] = "none"
  BY Zenon DEF Init, Connections
<1>6. ResultInv
  BY Zenon, <1>5 DEF ResultInv, Truth
<1>7. FlowInv
  <2>1. \A k : k \notin 1 .. call
    BY <1>5
  <2>2. ASSUME NEW n \in Library PROVE LineInv(n) /\ StreamInv(n)
    BY Zenon, <1>2, <1>5, <2>1, LinedNone DEF LineInv, StreamInv
  <2> QED  BY Zenon, <1>5, <2>2 DEF FlowInv
<1> QED  BY Zenon, <1>1, <1>4, <1>6, <1>7 DEF IInv

LEMMA IInvStep == IInv /\ [Next]_vars => IInv'
<1> SUFFICES ASSUME IInv, [Next]_vars PROVE IInv'
  BY Zenon
<1>1. TypeInv /\ EffectsInv /\ TypeInv' /\ EffectsInv' /\ ResultInv /\ FlowInv
  BY Zenon, TypeStep, EffectsStep DEF IInv
<1>2. 0 \notin Library
  BY Zenon, SessionAssumption DEF Connections
<1>3. CASE UNCHANGED vars
  BY Zenon, <1>1, <1>2, <1>3, LibraryStays DEF vars, service, caller, IInv
<1>4. CASE Client
  BY Zenon, <1>1, <1>4, ClientFlow DEF IInv
<1>5. CASE Crash
  BY Zenon, <1>1, <1>5, CrashFlow DEF IInv
<1>6. CASE Restart
  BY Zenon, <1>1, <1>2, <1>6, LibraryStays DEF Restart, caller, IInv
<1>7. ASSUME NEW n \in Connections, Peer(n) PROVE IInv'
  <2>1. n \notin Library
    BY Zenon, <1>7, SessionAssumption DEF Peer, RawConnect, RawLeave, RawWrite
  <2>2. /\ UNCHANGED <<pc, client, call, via, result>>
        /\ \A p \in Library :
             /\ worker'[p] = worker[p] /\ acted'[p] = acted[p]
             /\ c2s'[p] = c2s[p] /\ s2c'[p] = s2c[p]
    BY Zenon, <1>1, <1>7, <2>1
       DEF Peer, RawConnect, RawLeave, RawWrite, service, caller, TypeInv,
           WireInv, ServiceInv, Connections
  <2> QED  BY Zenon, <1>1, <2>1, <2>2, LibraryStays DEF IInv
<1>8. ASSUME NEW n \in Connections, Serve(n) PROVE IInv'
  BY Zenon, <1>1, <1>8, ServeFlow DEF IInv
<1> QED  BY Zenon, <1>3, <1>4, <1>5, <1>6, <1>7, <1>8 DEF Next

\* The streams, the session threads and the client agree on what is on its way,
\* on what the engine acted on and on what the calls returned, through every
\* restart (ServeSession, Handle, Exchange).
THEOREM Inductive == Spec => []IInv
<1>1. Init => IInv
  BY Zenon, IInvInit
<1>2. IInv /\ [Next]_vars => IInv'
  BY Zenon, IInvStep
<1> QED  BY <1>1, <1>2, PTL DEF Spec

\* The client, the session threads and the results keep their types, and a
\* session thread holds an answer exactly while it sends one (ServeSession).
THEOREM TypeCorrect == Spec => []TypeOK
<1>1. IInv => TypeOK
  BY SessionAssumption
     DEF IInv, TypeInv, ServiceInv, CallerInv, TypeOK, Sessions, Steps,
         Results
<1> QED  BY <1>1, Inductive, PTL

\* Whatever the peers write, what the engine acts on for a connection is
\* its own session's, of the live epoch, and in order (ServeSession, Handle).
THEOREM EffectsOwned == Spec => []EffectsAreOwnedAndOrdered
<1>1. IInv => EffectsAreOwnedAndOrdered
  <2> SUFFICES ASSUME IInv, NEW n \in Connections, NEW i \in DOMAIN acted[n]
               PROVE  LET done == acted[n][i]
                      IN  /\ done.frame.epoch = done.live
                          /\ worker[n].step # "finished" =>
                               /\ done.frame.boot = worker[n].boot
                               /\ done.frame.session = worker[n].session
                          /\ \A j \in DOMAIN acted[n] :
                               i < j => done.frame.sequence <
                                          acted[n][j].frame.sequence
    BY Zenon DEF EffectsAreOwnedAndOrdered
  <2>1. /\ acted[n] \in Seq(Acted)
        /\ worker[n].step \in Steps
    BY Zenon DEF IInv, TypeInv, ServiceInv, Sessions
  <2>2. DOMAIN acted[n] = 1 .. Len(acted[n]) /\ acted[n] # <<>>
    BY <2>1
  <2> QED  BY Zenon, <2>1, <2>2 DEF IInv, EffectsInv, OwnedInv, Owned, Steps
<1> QED  BY <1>1, Inductive, PTL

\* The engine acted on a call exactly where the books of the model say.
LEMMA EffectsAreBooked ==
    ASSUME TypeInv, NEW k, NEW x
    PROVE  x \in Effects(k) <=>
             \E n \in Library : \E i \in 1 .. Len(acted[n]) :
               x = <<n, i>> /\ acted[n][i].frame.call = k
<1>1. \A n \in Library : acted[n] \in Seq(Acted)
  BY Zenon DEF TypeInv, ServiceInv, Connections
<1>2. \A s \in Seq(Acted) : DOMAIN s = 1 .. Len(s)
  OBVIOUS
<1>3. \A n \in Library : DOMAIN acted[n] = 1 .. Len(acted[n])
  BY Zenon, <1>1, <1>2
<1> QED  BY ONLY <1>3 DEF Effects

\* The engine acts on no request of the library twice, and what Call returns is
\* the truth about its own request unless an earlier call on its connection was
\* indeterminate, for any number of calls, connections and crashes and whatever
\* the size of the answers (Call, Exchange, Handle, ServeSession).
THEOREM Truthful == Spec => []CallsAreTruthful
<1>1. IInv => CallsAreTruthful
  <2> SUFFICES ASSUME IInv, NEW k \in 1 .. MaxCalls
               PROVE  /\ \A x, y \in Effects(k) : x = y
                      /\ Trusted(k) =>
                           /\ result[k] \in {"ok", "unreadable"} =>
                                Effects(k) # {}
                           /\ result[k] \in {"refused", "epoch"} =>
                                Effects(k) = {}
    BY Zenon DEF CallsAreTruthful
  <2>1. TypeInv /\ EffectsInv /\ ResultInv /\ FlowInv
    BY Zenon DEF IInv
  <2>2. ASSUME NEW n \in Library, NEW i \in 1 .. Len(acted[n]),
               acted[n][i].frame.call = k
        PROVE  via[k] = n /\ Lined(n, acted[n], c2s[n], call, via)
    <3>1. LineInv(n) /\ OwnedInv(n)
      BY Zenon, <2>1 DEF FlowInv, EffectsInv, Connections
    <3>2. acted[n] # <<>>
      BY <2>2
    <3>3. Lined(n, acted[n], c2s[n], call, via)
      BY Zenon, <3>1, <3>2 DEF LineInv, OwnedInv, Owned
    <3> QED  BY Zenon, <2>2, <3>3 DEF Lined
  <2>3. ASSUME NEW x \in Effects(k), NEW y \in Effects(k) PROVE x = y
    <3>1. PICK n \in Library : \E i \in 1 .. Len(acted[n]) :
            x = <<n, i>> /\ acted[n][i].frame.call = k
      BY Zenon, <2>1, EffectsAreBooked
    <3>2. PICK i \in 1 .. Len(acted[n]) :
            x = <<n, i>> /\ acted[n][i].frame.call = k
      BY Zenon, <3>1
    <3>3. PICK p \in Library : \E j \in 1 .. Len(acted[p]) :
            y = <<p, j>> /\ acted[p][j].frame.call = k
      BY Zenon, <2>1, EffectsAreBooked
    <3>4. PICK j \in 1 .. Len(acted[p]) :
            y = <<p, j>> /\ acted[p][j].frame.call = k
      BY Zenon, <3>3
    <3>5. n = p /\ Lined(n, acted[n], c2s[n], call, via)
      BY Zenon, <2>2, <3>2, <3>4
    <3>6. i < j => k < k
      BY Zenon, <3>2, <3>4, <3>5 DEF Lined
    <3>7. j < i => k < k
      BY Zenon, <3>2, <3>4, <3>5 DEF Lined
    <3>8. i = j
      BY <3>6, <3>7
    <3> QED  BY Zenon, <3>2, <3>4, <3>5, <3>8
  <2>4. Done(k) => Effects(k) # {}
    <3>1. ASSUME NEW n \in Library, NEW i \in 1 .. Len(acted[n]),
                 acted[n][i].frame.call = k
          PROVE  <<n, i>> \in Effects(k)
      BY Zenon, <2>1, <3>1, EffectsAreBooked
    <3> QED  BY Zenon, <3>1 DEF Done
  <2>5. Over(k) => Effects(k) = {}
    <3>1. ASSUME Over(k), NEW x \in Effects(k) PROVE FALSE
      BY Zenon, <2>1, <3>1, EffectsAreBooked DEF Over, Missing
    <3> QED  BY Zenon, <3>1
  <2> QED  BY Zenon, <2>1, <2>3, <2>4, <2>5 DEF ResultInv, Truth
<1> QED  BY <1>1, Inductive, PTL

=============================================================================

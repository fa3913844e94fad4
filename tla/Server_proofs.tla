---------------------------- MODULE Server_proofs ----------------------------
(***************************************************************************)
(* Whatever the number of connections and the limit on sessions: no more   *)
(* than max_sessions session threads ever run, and when Stop has returned  *)
(* there is no thread left.                                                *)
(***************************************************************************)
EXTENDS Server, FiniteSetTheorems, TLAPS

\* A session thread that runs has its session in the registry.
Registered == \A c \in Connections : Running(c) => c \in sessions

\* The registry is within the limit, with room for the one being admitted.
WithinLimit ==
    /\ Cardinality(sessions) <= max_sessions
    /\ accept = "admitted" => Cardinality(sessions) < max_sessions

\* A session is registered before its thread is started.
Admitting == accept = "registered" => incoming \in sessions

\* How far Stop came, and what is over by then.
Joined ==
    /\ stop \in {"join_workers", "clear", "returned"} => accept = "exited"
    /\ stop \in {"clear", "returned"} => \A c \in Connections : ~Running(c)
    /\ stop = "returned" => sessions = {}

IInv == TypeOK /\ Registered /\ WithinLimit /\ Admitting /\ Joined

-----------------------------------------------------------------------------

\* The registry is finite and has a size.
LEMMA RegistryIsFinite ==
    ASSUME TypeOK
    PROVE  IsFiniteSet(sessions) /\ Cardinality(sessions) \in Nat
BY ServerAssumption, FS_Subset, FS_CardinalityType DEF TypeOK

\* The limit is a number.
LEMMA LimitIsNumber ==
    ASSUME TypeOK
    PROVE  max_sessions \in Nat
BY Zenon, ServerAssumption DEF TypeOK

\* A step of a session thread moves this thread only, one that was running, and
\* leaves the registry, the accept thread and Stop alone.
LEMMA WorkerMoves ==
    ASSUME TypeOK, NEW c \in Connections, Worker(c) \/ Answered(c)
    PROVE  /\ Running(c)
           /\ worker' \in [Connections -> WorkerStep]
           /\ \A d \in Connections : d # c => worker'[d] = worker[d]
           /\ UNCHANGED <<sessions, max_sessions, accept, incoming, stop>>
<1> USE DEF TypeOK, admission, service, stopper, WorkerStep, Running, Goes
<1>1. CASE Receive(c)  BY <1>1 DEF Receive, Reading
<1>2. CASE Ends(c)  BY <1>2 DEF Ends, Reading
<1>3. CASE Hello(c)  BY <1>3 DEF Hello, Takes
<1>4. CASE Frame(c)  BY <1>4 DEF Frame, Takes
<1>5. CASE LockSessions(c)  BY <1>5 DEF LockSessions
<1>6. CASE NameSession(c)  BY <1>6 DEF NameSession
<1>7. CASE CallEngine(c)  BY <1>7 DEF CallEngine
<1>8. CASE EngineReturns(c)  BY <1>8 DEF EngineReturns
<1>9. CASE AnswerFails(c)  BY <1>9 DEF AnswerFails
<1>10. CASE CloseSession(c)  BY <1>10 DEF CloseSession
<1>11. CASE Answered(c)  BY <1>11 DEF Answered
<1> QED  BY Zenon, <1>1, <1>2, <1>3, <1>4, <1>5, <1>6, <1>7, <1>8, <1>9,
            <1>10, <1>11 DEF Worker

\* The clients, and Stop until it joins the accept thread, change no thread and
\* no registration.
LEMMA Aside ==
    ASSUME TypeOK,
           \/ StopBegins \/ StopSignals \/ StopCopies \/ StopReleased
           \/ \E c \in Connections : Client(c) \/ StopReleases(c)
    PROVE  /\ UNCHANGED <<sessions, max_sessions, accept, incoming, worker>>
           /\ \/ stop' = stop
              \/ stop' \in {"signal", "copy", "release", "join_accept"}
BY DEF StopBegins, StopSignals, StopCopies, StopReleased, StopReleases, Client,
       Connect, Send, Leave, admission, service, stopper

-----------------------------------------------------------------------------
(* Types. *)

LEMMA ClientTypes ==
    ASSUME TypeOK, NEW c \in Connections, Client(c)
    PROVE  TypeOK'
<1> USE DEF TypeOK, admission, release, service, stopper
<1>1. CASE Connect(c)  BY <1>1 DEF Connect
<1>2. CASE Send(c)  BY <1>2 DEF Send
<1>3. CASE Leave(c)  BY Zenon, <1>3 DEF Leave
<1> QED  BY Zenon, <1>1, <1>2, <1>3 DEF Client

LEMMA AcceptTypes ==
    ASSUME TypeOK, AcceptThread
    PROVE  TypeOK'
<1> USE DEF TypeOK, clients, release, service, stopper, AcceptStep
<1>1. CASE AcceptExits  BY <1>1 DEF AcceptExits
<1>2. CASE Admit  BY <1>2 DEF Admit
<1>3. CASE Refuse  BY <1>3 DEF Refuse, Closed
<1>4. CASE Register  BY <1>4 DEF Register
<1>5. CASE Spawn  BY <1>5, ServerAssumption DEF Spawn, WorkerStep
<1>6. ASSUME NEW c \in Connections, Accept(c)  PROVE TypeOK'
  BY <1>6, ServerAssumption DEF Accept
<1>7. ASSUME NEW c \in Connections, AcceptFails(c)  PROVE TypeOK'
  BY Zenon, <1>7 DEF AcceptFails, Closed
<1> QED  BY Zenon, <1>1, <1>2, <1>3, <1>4, <1>5, <1>6, <1>7 DEF AcceptThread

LEMMA WorkerTypes ==
    ASSUME TypeOK, NEW c \in Connections, Worker(c) \/ Answered(c)
    PROVE  TypeOK'
<1>1. worker' \in [Connections -> WorkerStep]  BY WorkerMoves
<1> USE <1>1 DEF TypeOK, clients, admission, release, service, stopper
<1>2. CASE Receive(c)  BY <1>2 DEF Receive
<1>3. CASE Ends(c)  BY <1>3 DEF Ends
<1>4. CASE Hello(c) \/ Frame(c)  BY <1>4 DEF Hello, Frame, Takes
<1>5. CASE LockSessions(c) \/ NameSession(c)
  BY <1>5 DEF LockSessions, NameSession
<1>6. CASE CallEngine(c) \/ EngineReturns(c)
  BY Zenon, <1>6 DEF CallEngine, EngineReturns
<1>7. CASE AnswerFails(c) \/ Answered(c)  BY SMTT(60), <1>7
                                             DEF AnswerFails, Answered
<1>8. CASE CloseSession(c)  BY Zenon, <1>8 DEF CloseSession, Closed
<1> QED  BY Zenon, <1>2, <1>3, <1>4, <1>5, <1>6, <1>7, <1>8 DEF Worker

LEMMA StopTypes ==
    ASSUME TypeOK, StopBegins \/ Stop
    PROVE  TypeOK'
<1> USE DEF TypeOK, clients, admission, release, service, StopStep
<1>1. CASE StopBegins  BY <1>1 DEF StopBegins
<1>2. CASE StopSignals  BY <1>2 DEF StopSignals
<1>3. CASE StopCopies  BY <1>3 DEF StopCopies
<1>4. CASE StopReleased  BY <1>4 DEF StopReleased
<1>5. CASE StopJoinsAccept  BY <1>5 DEF StopJoinsAccept
<1>6. CASE StopJoinsWorkers  BY Zenon, <1>6 DEF StopJoinsWorkers
<1>7. CASE StopClears  BY Zenon, <1>7 DEF StopClears
<1>8. ASSUME NEW c \in Connections, StopReleases(c)  PROVE TypeOK'
  BY <1>8 DEF StopReleases
<1> QED  BY Zenon, <1>1, <1>2, <1>3, <1>4, <1>5, <1>6, <1>7, <1>8 DEF Stop

-----------------------------------------------------------------------------
(* The registry. *)

LEMMA AsideKeeps ==
    ASSUME IInv,
           \/ StopBegins \/ StopSignals \/ StopCopies \/ StopReleased
           \/ \E c \in Connections : Client(c) \/ StopReleases(c)
    PROVE  Registered' /\ WithinLimit' /\ Admitting' /\ Joined'
<1>1. /\ UNCHANGED <<sessions, max_sessions, accept, incoming, worker>>
      /\ \/ stop' = stop
         \/ stop' \in {"signal", "copy", "release", "join_accept"}
  BY Aside DEF IInv
<1> QED  BY <1>1 DEF IInv, Registered, WithinLimit, Admitting, Joined, Running

LEMMA WorkerKeeps ==
    ASSUME IInv, NEW c \in Connections, Worker(c) \/ Answered(c)
    PROVE  Registered' /\ WithinLimit' /\ Admitting' /\ Joined'
<1>1. /\ Running(c)
      /\ \A d \in Connections : d # c => worker'[d] = worker[d]
      /\ UNCHANGED <<sessions, max_sessions, accept, incoming, stop>>
  BY WorkerMoves DEF IInv
<1>2. Registered'  BY <1>1 DEF IInv, Registered, Running
<1>3. WithinLimit' /\ Admitting'  BY <1>1 DEF IInv, WithinLimit, Admitting
<1>4. Joined'  BY <1>1 DEF IInv, Joined, Running
<1> QED  BY <1>2, <1>3, <1>4

\* The limit was checked when the size was read; only this thread adds to the
\* registry, so there is still room when it does.
LEMMA RegisterKeeps ==
    ASSUME IInv, Register
    PROVE  Registered' /\ WithinLimit' /\ Admitting' /\ Joined'
<1>1. /\ accept = "admitted" /\ accept' = "registered"
      /\ sessions' = sessions \cup {incoming}
      /\ UNCHANGED <<incoming, max_sessions, worker, stop>>
  BY DEF Register, service, stopper
<1>2. Registered' /\ Admitting'
  BY <1>1 DEF IInv, Registered, Admitting, Running
<1>3. Cardinality(sessions') <= Cardinality(sessions) + 1
  BY <1>1, RegistryIsFinite, FS_AddElement DEF IInv
<1>4. Cardinality(sessions') \in Nat
  BY <1>1, RegistryIsFinite, FS_AddElement, FS_CardinalityType DEF IInv
<1>5. WithinLimit'
  BY <1>1, <1>3, <1>4, RegistryIsFinite, LimitIsNumber DEF IInv, WithinLimit
<1>6. Joined'  BY Zenon, <1>1 DEF IInv, Joined
<1> QED  BY <1>2, <1>5, <1>6

LEMMA AcceptKeeps ==
    ASSUME IInv, AcceptThread
    PROVE  Registered' /\ WithinLimit' /\ Admitting' /\ Joined'
<1> USE DEF IInv, Registered, WithinLimit, Admitting, Joined, Running,
            service, stopper
<1>1. CASE AcceptExits  BY <1>1 DEF AcceptExits
<1>2. CASE Admit  BY <1>2 DEF Admit
<1>3. CASE Refuse  BY Zenon, <1>3 DEF Refuse
<1>4. CASE Register  BY Zenon, <1>4, RegisterKeeps
<1>5. CASE Spawn
  <2>1. /\ incoming \in sessions /\ incoming \in Connections
        /\ worker' = [worker EXCEPT ![incoming] = "hello"]
        /\ accept = "registered" /\ accept' \in {"exited", "waiting"}
        /\ UNCHANGED <<sessions, max_sessions, stop>>
    BY <1>5 DEF Spawn, TypeOK
  <2>2. Registered'  BY <2>1 DEF TypeOK
  <2>3. WithinLimit' /\ Admitting'  BY <2>1
  <2>4. Joined'  BY Zenon, <2>1
  <2> QED  BY Zenon, <2>2, <2>3, <2>4
<1>6. ASSUME NEW c \in Connections, Accept(c) \/ AcceptFails(c)
      PROVE  Registered' /\ WithinLimit' /\ Admitting' /\ Joined'
  BY <1>6 DEF Accept, AcceptFails
<1> QED  BY Zenon, <1>1, <1>2, <1>3, <1>4, <1>5, <1>6 DEF AcceptThread

LEMMA JoinKeeps ==
    ASSUME IInv, StopJoinsAccept \/ StopJoinsWorkers \/ StopClears
    PROVE  Registered' /\ WithinLimit' /\ Admitting' /\ Joined'
<1> USE DEF IInv, Registered, WithinLimit, Admitting, Joined, Running,
            admission, service
<1>1. CASE StopJoinsAccept  BY <1>1 DEF StopJoinsAccept
<1>2. CASE StopJoinsWorkers  BY <1>2 DEF StopJoinsWorkers
<1>3. CASE StopClears
  <2>1. /\ stop = "clear" /\ accept = "exited" /\ sessions' = {}
        /\ stop' = "returned"
        /\ UNCHANGED <<accept, incoming, worker, max_sessions>>
    BY <1>3 DEF StopClears
  <2>2. Cardinality(sessions') = 0  BY <2>1, FS_EmptySet
  <2>3. WithinLimit'  BY <2>1, <2>2, LimitIsNumber
  <2> QED  BY <2>1, <2>3
<1> QED  BY Zenon, <1>1, <1>2, <1>3

-----------------------------------------------------------------------------

\* IInv holds initially and every step of any thread and any client keeps it.
THEOREM Inductive == Spec => []IInv
<1>1. Init => IInv
  <2> SUFFICES ASSUME Init PROVE IInv  OBVIOUS
  <2> USE DEF Init
  <2>1. TypeOK  BY Zenon DEF TypeOK, AcceptStep, WorkerStep, StopStep
  <2>2. Registered /\ Admitting /\ Joined
    BY DEF Registered, Admitting, Joined, Running
  <2>3. WithinLimit  BY <2>1, FS_EmptySet, LimitIsNumber DEF WithinLimit
  <2> QED  BY <2>1, <2>2, <2>3 DEF IInv
<1>2. IInv /\ [Next]_vars => IInv'
  <2> SUFFICES ASSUME IInv, [Next]_vars PROVE IInv'  OBVIOUS
  <2>0. TypeOK  BY DEF IInv
  <2>1. CASE AcceptThread  BY <2>0, <2>1, AcceptTypes, AcceptKeeps DEF IInv
  <2>2. CASE StopBegins \/ Stop
    <3>1. TypeOK'  BY <2>0, <2>2, StopTypes
    <3>2. Registered' /\ WithinLimit' /\ Admitting' /\ Joined'
      BY <2>2, AsideKeeps, JoinKeeps DEF Stop
    <3> QED  BY <3>1, <3>2 DEF IInv
  <2>3. ASSUME NEW c \in Connections, Client(c)  PROVE IInv'
    BY <2>0, <2>3, ClientTypes, AsideKeeps DEF IInv
  <2>4. ASSUME NEW c \in Connections, Worker(c) \/ Answered(c)  PROVE IInv'
    BY Zenon, <2>0, <2>4, WorkerTypes, WorkerKeeps DEF IInv
  <2>5. CASE UNCHANGED vars
    BY <2>5 DEF vars, clients, admission, release, service, stopper, IInv,
                TypeOK, Registered, WithinLimit, Admitting, Joined, Running
  <2> QED  BY <2>1, <2>2, <2>3, <2>4, <2>5 DEF Next
<1> QED  BY <1>1, <1>2, PTL DEF Spec

\* Every thread is always at one of its steps (Start, ServeSession, Stop).
THEOREM ThreadsAreTyped == Spec => []TypeOK
<1>1. IInv => TypeOK  BY DEF IInv
<1> QED  BY <1>1, Inductive, PTL

\* No more than max_sessions session threads run, for any number of clients
\* (the admission check of the accept thread).
THEOREM SessionsAreBounded == Spec => []RunningSessionsBounded
<1>1. IInv => RunningSessionsBounded
  <2> SUFFICES ASSUME IInv PROVE RunningSessionsBounded  OBVIOUS
  <2> DEFINE R == {c \in Connections : Running(c)}
  <2>1. R \in SUBSET sessions  BY DEF IInv, Registered
  <2>2. IsFiniteSet(sessions) /\ Cardinality(sessions) \in Nat
    BY RegistryIsFinite DEF IInv
  <2>3. Cardinality(R) <= Cardinality(sessions) /\ Cardinality(R) \in Nat
    BY Zenon, <2>1, <2>2, FS_Subset, FS_CardinalityType
  <2> QED
    BY <2>2, <2>3, LimitIsNumber
       DEF IInv, WithinLimit, RunningSessionsBounded
<1> QED  BY <1>1, Inductive, PTL

\* When Stop has returned no thread is left and the registry is empty.
THEOREM StopIsFinal == Spec => []StopLeavesNoThread
<1>1. IInv => StopLeavesNoThread  BY DEF IInv, Joined, StopLeavesNoThread
<1> QED  BY <1>1, Inductive, PTL
=============================================================================

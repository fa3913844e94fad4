---------------------------- MODULE Tools_proofs ----------------------------
(***************************************************************************)
(* Proofs about Tools, for all values of its constants: how every step     *)
(* keeps the inductive invariant of ToolsSteps_proofs, and the theorems.   *)
(***************************************************************************)
EXTENDS ToolsSteps_proofs

-----------------------------------------------------------------------------
(* A process stays in its program. *)

LEMMA LibraryHasNoProgram ==
    ASSUME RunningInv, tool.mode = "library" PROVE tool.todo = <<>>
<1>1. Program["library"] = <<>>
  BY ProgramsAre, Zenon
<1>2. Len(Program["library"]) = 0
  BY <1>1
<1> SUFFICES ASSUME tool.todo # <<>> PROVE FALSE
  BY Zenon
<1>3. PICK n \in 0 .. Len(Program[tool.mode]) :
         n + 1 \in 1 .. Len(Program[tool.mode])
  BY InProgram, Zenon
<1> QED
  BY <1>2, <1>3

\* A new process, and one whose command begins.
LEMMA StartKeepsProgram ==
    ASSUME NEW sc \in Scopes, Start(sc) \/ StartReading(sc) PROVE ProgramInv'
<1>0. <<>> \in Seq(Calls) /\ 0 \in Nat /\ FALSE \in BOOLEAN
  OBVIOUS
<1>1. {} \subseteq Committed /\ "library" \in Modes
  BY ModesAre, Zenon
<1>2. PICK m \in {"opening", "library"} :
         tool' = [mode |-> m, scope |-> sc, todo |-> <<>>, plan |-> None,
                  issued |-> 0, docs |-> {}, failed |-> FALSE]
         /\ phase' = IF m = "opening" THEN "opening" ELSE "reading"
  BY Zenon DEF Start, StartReading, Open, OpenReadOnly
<1>3. /\ tool' \in Process /\ tool'.mode = m /\ tool'.todo = <<>>
      /\ tool'.plan = None /\ tool'.docs = {} /\ tool'.failed = FALSE
  BY <1>0, <1>1, <1>2, Zenon DEF Process
<1>4. ~Coming("apply")'
  BY <1>3, Zenon DEF Coming
<1>5. CASE m = "opening"
  BY <1>2, <1>3, <1>4, <1>5, Zenon DEF ProgramInv, RunningInv
<1>6. CASE m = "library"
  <2>1. \E n \in 0 .. Len(Program[tool'.mode]) :
           tool'.todo = Left(Program[tool'.mode], n)
    BY <1>1, <1>3, <1>6, StoppedProcess, Zenon
  <2> QED
    BY <1>2, <1>3, <1>4, <1>6, <2>1, Zenon DEF ProgramInv, RunningInv
<1> QED
  BY <1>5, <1>6, Zenon

LEMMA BeginKeepsProgram ==
    ASSUME ProgramInv, NEW mode \in Modes, Begin(mode) PROVE ProgramInv'
<1>1. /\ RunningInv /\ phase = "up" /\ phase' = "up" /\ plans' = plans
      /\ tool' = [tool EXCEPT !.mode = mode, !.todo = Program[mode]]
  BY Running, Zenon DEF Begin, Serving, vars
<1>2. tool \in Process /\ tool.plan \in plans \cup {None}
  BY <1>1, Zenon DEF RunningInv
<1> DEFINE p == Program[mode]
<1>3. p \in Seq(Calls)
  BY ProgramType, Zenon
<1>4. /\ tool' \in Process /\ tool'.mode = mode /\ tool'.todo = p
      /\ tool'.plan = tool.plan
  BY <1>1, <1>2, <1>3, Zenon DEF Process
<1>5. 0 \in 0 .. Len(p) /\ p = Left(p, 0)
  <2> HIDE DEF p
  <2>1. 0 \in 0 .. Len(p)
    BY <1>3
  <2> QED
    BY <1>3, <2>1, LeftAll, Zenon
<1>6. p # <<>> => Head(p) # "apply"
  <2> SUFFICES ASSUME p # <<>>, Head(p) = "apply" PROVE FALSE
    BY Zenon
  <2>1. 1 \in 1 .. Len(p) /\ p[1] = "apply"
    <3> HIDE DEF p
    <3> QED
      BY <1>3
  <2>2. p[1] = "apply" => 1 # 1
    BY ONLY <2>1, ProgramOrder, mode \in Modes
  <2> QED
    BY <2>1, <2>2, Zenon
<1>7. ~Coming("apply")'
  BY <1>4, <1>6, Zenon DEF Coming
<1>8. \E n \in 0 .. Len(Program[tool'.mode]) :
         tool'.todo = Left(Program[tool'.mode], n)
  BY <1>4, <1>5, Zenon
<1>9. mode # "opening"
  BY OpeningIsNoMode, Zenon
<1> HIDE DEF p
<1> QED
  BY <1>1, <1>2, <1>4, <1>7, <1>8, <1>9, Zenon DEF ProgramInv, RunningInv

\* Booting and finishing what a handler owes.
LEMMA OwesKeepsProgram ==
    ASSUME IInv, ProgramInv, Owes PROVE ProgramInv'
<1>0. TypeInv /\ (InstallInitialPolicy \/ AdvanceEpoch \/ Continue)
  BY Zenon DEF Owes, IInv
<1>1. RunningInv
  BY Running, Zenon DEF Owes
<1>2. CASE phase' = "down"
  BY <1>2, Zenon DEF Owes, Ends, ProgramInv
<1>3. CASE phase' # "down"
  <2>1. Goes(tool) /\ plans \subseteq plans'
    BY <1>0, <1>3, PlansGrow, Zenon DEF Owes, Next, Boot
  <2>2. CASE tool' = tool
    <3>1. tool.mode = "opening" /\ phase' = "up" => op' = Idle
      BY <1>0, <1>1, OwedPhase, Zenon DEF RunningInv
    <3>2. Coming("apply") => tool.issued \in AttemptIds
      BY <1>0, <1>1, IssuedFirst, Zenon DEF RunningInv
    <3>3. /\ phase' \in {"opening", "fencing"} => phase \in {"opening", "fencing"}
          /\ phase' # "reading"
      BY <1>0, OwedPhase, Zenon
    <3>4. RunningInv'
      BY <1>1, <2>1, <2>2, <3>1, <3>2, <3>3, SameProcess, Zenon
    <3> QED
      BY <1>3, <3>4, Zenon DEF ProgramInv
  <2>3. CASE /\ wedged' /\ tool.mode # "library"
             /\ tool' = [tool EXCEPT !.todo = <<>>, !.failed = TRUE]
    <3>1. phase = "up" /\ op # Idle
      BY <1>0, <1>3, <2>3, OwedPhase, Zenon
    <3>2. tool \in Process /\ tool.mode # "opening"
          /\ tool.plan \in plans \cup {None}
      BY <1>1, <3>1, Zenon DEF RunningInv
    <3>3. tool.mode \in Modes
      BY <3>2, ProcessFields, Zenon
    <3>4. /\ tool' \in Process /\ tool'.mode = tool.mode /\ tool'.todo = <<>>
          /\ tool'.plan = tool.plan
      BY <2>3, <3>2, StoppedIs, Zenon
    <3>5. \E n \in 0 .. Len(Program[tool'.mode]) :
             tool'.todo = Left(Program[tool'.mode], n)
      BY <3>3, <3>4, StoppedProcess, Zenon
    <3>6. phase' = "up"
      BY <1>0, <1>3, <3>1, OwedPhase, Zenon
    <3>7. ~Coming("apply")'
      BY <3>4, Zenon DEF Coming
    <3> QED
      BY <2>1, <3>2, <3>4, <3>5, <3>6, <3>7, Zenon DEF ProgramInv, RunningInv
  <2> QED
    BY <2>1, <2>2, <2>3, Zenon DEF Goes
<1> QED
  BY <1>2, <1>3, Zenon

\* A call.
LEMMA CallKeepsProgram ==
    ASSUME IInv, ProgramInv, Step PROVE ProgramInv'
<1>1. PICK step : Doing(step)
  BY Zenon DEF Step, PolicyStep, IntentStep, ObserveStep, PlanStep,
     DispatchStep, ApplyStep, CompleteStep, VerifyStep, FenceStep
<1>2. /\ RunningInv /\ tool.todo # <<>> /\ phase = "up"
  BY <1>1, Making, Zenon
<1>3. phase' = "up"
  BY <1>2, CallRefines, RequestPhase, Zenon DEF vars
<1>4. CallMoves
  BY CallsMove, Zenon
<1>5. /\ tool.mode \in Modes
      /\ \E n \in 0 .. Len(Program[tool.mode]) :
            Tail(tool.todo) = Left(Program[tool.mode], n)
      /\ Tail(tool.todo) # <<>> /\ Head(Tail(tool.todo)) = "apply" =>
           Head(tool.todo) = "dispatch"
  BY <1>2, CallOrder, Zenon
<1>6. /\ tool' \in Process /\ tool'.mode = tool.mode
      /\ tool'.todo = Tail(tool.todo) \/ tool'.todo = <<>>
      /\ tool'.plan \in plans' \cup {None}
  BY <1>4, Zenon DEF CallMoves, Onward
<1>7. \E n \in 0 .. Len(Program[tool'.mode]) :
         tool'.todo = Left(Program[tool'.mode], n)
  BY <1>5, <1>6, StoppedProcess, Zenon
<1>8. Coming("apply")' => op'.issue # {} /\ tool'.issued = next_attempt'
  BY <1>4, <1>5, <1>6, Zenon DEF CallMoves, Coming
<1>9. tool'.mode # "opening"
  BY <1>5, <1>6, OpeningIsNoMode, Zenon
<1> QED
  BY <1>3, <1>6, <1>7, <1>8, <1>9, Zenon DEF ProgramInv, RunningInv

LEMMA ProgramStep ==
    ASSUME IInv, ProgramInv, [ToolsNext]_allVars PROVE ProgramInv'
<1>0. plans \subseteq plans'
  BY ToolsRefines, PlansGrow, Zenon
<1>1. CASE UNCHANGED <<vars, tool>>
  <2>1. UNCHANGED <<phase, op, next_attempt, tool>>
    BY <1>1, Zenon DEF vars, tables
  <2>2. RunningInv => RunningInv'
    BY <1>0, <2>1, SameProcess, Zenon DEF RunningInv
  <2> QED
    BY <2>1, <2>2, Zenon DEF ProgramInv
<1>2. CASE LibraryCall
  <2>1. /\ RunningInv /\ UNCHANGED tool /\ phase # "down"
        /\ tool.mode = "library"
    BY <1>2, Running, Zenon DEF LibraryCall, toolVars
  <2>2. ~Coming("apply")
    BY <2>1, LibraryHasNoProgram, Zenon DEF Coming
  <2>3. phase' = phase
    BY <1>2, RequestPhase, Zenon DEF LibraryCall
  <2>4. RunningInv'
    BY <1>0, <2>1, <2>2, <2>3, SameProcess, Zenon
  <2> QED
    BY <2>1, <2>3, <2>4, Zenon DEF ProgramInv
<1>3. CASE Exit \/ Kill
  BY <1>3, Zenon DEF Exit, Kill, Crash, Ends, ProgramInv
<1>4. CASE UNCHANGED allVars
  BY <1>1, <1>4, Zenon DEF allVars, toolVars
<1> QED
  BY <1>2, <1>3, <1>4, StartKeepsProgram, BeginKeepsProgram,
     OwesKeepsProgram, CallKeepsProgram, Zenon DEF ToolsNext

-----------------------------------------------------------------------------
(* What earlier processes left is inert. *)

\* A step that touches no attempt, and no observation unless it records one.
Inert(observing) ==
    /\ attempts' = attempts /\ last_epoch' = last_epoch
    /\ op'.issue = {} /\ op'.sweep = {}
    /\ ~observing => observations' = observations

LEMMA QuietAppend ==
    ASSUME NEW r, NEW ph, NEW owed, AppendAndApply(r, ph, owed),
           r.type \notin {"AttemptPut", "EpochAdvance"},
           owed.issue = {}, owed.sweep = {}
    PROVE  Inert(r.type = "ObservationCommit")
<1>1. CASE ApplyPayload(r) /\ op' = owed
  BY <1>1, Zenon DEF ApplyPayload, Inert
<1>2. CASE UNCHANGED tables /\ op' = Idle
  BY <1>2, IdleFields, Zenon DEF tables, Inert
<1> QED
  BY <1>1, <1>2, AppendEither, Zenon

\* No attempt is of this process, so none can be reported on.
LEMMA NothingToComplete ==
    ASSUME IInv, NEW i \in AttemptIds, attempts[i] # None,
           attempts[i].epoch = last_epoch, attempts[i].epoch < last_epoch
    PROVE  FALSE
<1>1. TypeOK
  BY Zenon DEF IInv, TypeInv
<1>2. attempts[i].epoch \in Nat
  BY <1>1, AttemptDate, Zenon
<1> QED
  BY <1>2

\* No plan is of this process, so none can be dispatched.
LEMMA NothingToDispatch ==
    ASSUME IInv, NEW p \in plans, Dispatch(p),
           \A sc \in Scopes : \A o \in Retained(sc) :
              o.received_epoch < last_epoch
    PROVE  FALSE
<1>1. TypeOK /\ p.observation.received_epoch = p.epoch
  BY Zenon DEF IInv, TypeInv, ProcessInv
<1>2. p \in PlanRecord
  BY <1>1, Zenon DEF TypeOK
<1>3. p.scope \in Scopes /\ p.observation \in Observation
  BY <1>2, Zenon DEF PlanRecord
<1>4. p.observation = Current(p.scope) /\ p.epoch = last_epoch
  BY Zenon DEF Dispatch, live_epoch
<1>5. p.observation \in Retained(p.scope)
  BY <1>1, <1>3, <1>4, CurrentType, NoneAssumption, Zenon
<1>6. p.observation.received_epoch < last_epoch
  BY <1>3, <1>5, Zenon
<1>7. last_epoch \in Nat
  BY <1>1, LastEpochIsNumber, Zenon
<1> QED
  BY <1>1, <1>4, <1>6, <1>7

\* The calls of a process that has no attempt of its own.
LEMMA InertCall ==
    ASSUME IInv, ProgramInv, InheritInv, Step,
           tool.mode \notin {"library", "scenario"}
    PROVE  Inert(tool.mode \in {"observe", "fixture"})
<1>0. PICK step : Doing(step)
  BY Zenon DEF Step, PolicyStep, IntentStep, ObserveStep, PlanStep,
     DispatchStep, ApplyStep, CompleteStep, VerifyStep, FenceStep
<1>1. /\ RunningInv /\ tool.todo # <<>> /\ phase = "up"
      /\ op.issue = {} /\ op.sweep = {}
  BY <1>0, Making, IdleFields, Zenon DEF Doing, Serving
<1>2. \A i \in AttemptIds : attempts[i] # None => attempts[i].epoch < last_epoch
  BY <1>1, Zenon DEF InheritInv
<1>3. ASSUME UNCHANGED vars PROVE Inert(tool.mode \in {"observe", "fixture"})
  BY <1>1, <1>3, Zenon DEF Inert, vars, tables
<1>4. ASSUME NEW next, Nothing(next)
      PROVE  Inert(tool.mode \in {"observe", "fixture"})
  BY <1>3, <1>4, Zenon DEF Nothing
<1>5. ASSUME Refused PROVE Inert(tool.mode \in {"observe", "fixture"})
  BY <1>4, <1>5, Zenon DEF Refused
<1>6. ASSUME NEW p, PolicyStep(p)
      PROVE  Inert(tool.mode \in {"observe", "fixture"})
  <2>1. CASE PutPolicy(p)
    <3> DEFINE r == [type |-> "PolicyPut", policy |-> p]
    <3>1. AppendAndApply(r, phase, Idle) /\ r.type = "PolicyPut"
      BY <2>1, Zenon DEF PutPolicy
    <3> HIDE DEF r
    <3> QED
      BY <3>1, QuietAppend, IdleFields, Zenon DEF Inert
  <2> QED
    BY <1>4, <1>5, <1>6, <2>1, Zenon DEF PolicyStep
<1>7. ASSUME NEW doc, IntentStep(doc)
      PROVE  Inert(tool.mode \in {"observe", "fixture"})
  <2>1. CASE CommitIntent(tool.scope, doc)
    <3> DEFINE r == [type |-> "IntentCommit", scope |-> tool.scope,
                     intent |-> doc]
    <3>1. AppendAndApply(r, phase, Idle) /\ r.type = "IntentCommit"
      BY <2>1, Zenon DEF CommitIntent
    <3> HIDE DEF r
    <3> QED
      BY <3>1, QuietAppend, IdleFields, Zenon DEF Inert
  <2> QED
    BY <1>4, <1>5, <1>7, <2>1, Zenon DEF IntentStep
<1>8. ASSUME NEW id, NEW re, NEW g, NEW b, NEW now,
             ObserveStep(id, re, g, b, now)
      PROVE  Inert(tool.mode \in {"observe", "fixture"})
  <2>1. tool.mode \in {"observe", "fixture"}
    BY <1>1, <1>8, CallOrder, Zenon DEF ObserveStep, Doing
  <2>2. CASE RecordObservation(tool.scope, id, re, g, b, now)
    <3>1. PICK o : AppendAndApply([type |-> "ObservationCommit",
                                   scope |-> tool.scope, observation |-> o],
                                  phase, Idle)
      BY <2>2, Zenon DEF RecordObservation
    <3> DEFINE r == [type |-> "ObservationCommit", scope |-> tool.scope,
                     observation |-> o]
    <3>2. AppendAndApply(r, phase, Idle) /\ r.type = "ObservationCommit"
      BY <3>1, Zenon
    <3> HIDE DEF r
    <3> QED
      BY <2>1, <3>2, QuietAppend, IdleFields, Zenon DEF Inert
  <2> QED
    BY <1>5, <1>8, <2>2, Zenon DEF ObserveStep
<1>9. ASSUME NEW now, PlanStep(now)
      PROVE  Inert(tool.mode \in {"observe", "fixture"})
  <2>1. CASE Plan(tool.scope, policy, now)
    BY <1>1, <2>1, Zenon DEF Plan, Inert, tables
  <2> QED
    BY <1>4, <1>9, <2>1, Zenon DEF PlanStep
<1>10. ASSUME DispatchStep PROVE Inert(tool.mode \in {"observe", "fixture"})
  <2>1. tool.mode \in {"dispatch", "reconcile"}
    BY <1>1, <1>10, CallOrder, Zenon DEF DispatchStep, Doing
  <2>2. \A sc \in Scopes : \A o \in Retained(sc) :
           o.received_epoch < last_epoch
    BY <1>1, <2>1, Zenon DEF InheritInv
  <2>3. ~(tool.plan # None /\ Dispatch(tool.plan))
    BY <1>1, <2>2, NothingToDispatch, Zenon DEF RunningInv
  <2> QED
    BY <1>4, <1>5, <1>10, <2>3, Zenon DEF DispatchStep
<1>11. ASSUME NEW i \in AttemptIds, NEW e, NEW to, Complete(i, e, to)
       PROVE  FALSE
  BY <1>2, <1>11, NothingToComplete, Zenon DEF Complete, live_epoch
<1>12. ASSUME ApplyStep PROVE FALSE
  <2>1. Coming("apply") /\ Complete(tool.issued, live_epoch, "Applied")
    BY <1>12, Zenon DEF ApplyStep, Doing, Coming
  <2>2. tool.issued \in AttemptIds
    BY <1>1, <2>1, Zenon DEF RunningInv
  <2> QED
    BY <1>11, <2>1, <2>2, Zenon
<1>13. ASSUME CompleteStep PROVE Inert(tool.mode \in {"observe", "fixture"})
  BY <1>5, <1>11, <1>13, Zenon DEF CompleteStep
<1>14. ASSUME VerifyStep PROVE Inert(tool.mode \in {"observe", "fixture"})
  <2>1. ASSUME NEW i \in Held(attempts), NEW o, NEW applier, NEW now,
               NEW confirms, Verify(i, o, applier, now, confirms)
        PROVE  FALSE
    <3>1. i \in AttemptIds /\ attempts[i] # None
      BY Zenon DEF Held
    <3> QED
      BY <1>2, <2>1, <3>1, NothingToComplete, Zenon DEF Verify, live_epoch
  <2> QED
    BY <1>5, <1>14, <2>1, Zenon DEF VerifyStep
<1>15. ASSUME NEW s, NEW e, FenceStep(s, e)
       PROVE  Inert(tool.mode \in {"observe", "fixture"})
  <2> DEFINE f == [scope |-> tool.scope, subject |-> s, fenced_below |-> e]
  <2>1. CASE PutFence(FenceOf(e), f)
    <3>1. Victims(f) = {}
      <4> SUFFICES ASSUME NEW i \in Victims(f) PROVE FALSE
        BY Zenon
      <4> HIDE DEF f
      <4>1. i \in AttemptIds /\ attempts[i] # None /\ Unfinished(i)
        BY Zenon DEF Victims, Held, Unfinished
      <4>2. attempts[i].epoch = last_epoch
        BY <1>1, <4>1, Zenon DEF IInv, ProcessInv, RestartRevokesInFlight,
           live_epoch
      <4> QED
        BY <1>2, <4>1, <4>2, NothingToComplete, Zenon
    <3> HIDE DEF f
    <3> DEFINE r == [type |-> "FencePut", id |-> FenceOf(e), fence |-> f]
    <3>2. /\ AppendAndApply(r, phase, [Idle EXCEPT !.sweep = Victims(f)])
          /\ r.type = "FencePut"
      BY <2>1, Zenon DEF PutFence
    <3>3. [Idle EXCEPT !.sweep = Victims(f)] = Idle
      BY <3>1, IdleSweepsNothing, Zenon
    <3> HIDE DEF r
    <3> QED
      BY <3>2, <3>3, QuietAppend, IdleFields, Zenon DEF Inert
  <2> QED
    BY <1>5, <1>15, <2>1, Zenon DEF FenceStep
<1> QED
  BY <1>6, <1>7, <1>8, <1>9, <1>10, <1>12, <1>13, <1>14, <1>15, Zenon DEF Step

\* Whatever else happens while such a process is served.
LEMMA InertStep ==
    ASSUME IInv, ProgramInv, InheritInv, [ToolsNext]_allVars, phase = "up",
           tool.mode \notin {"library", "scenario"}
    PROVE  Inert(tool.mode \in {"observe", "fixture"})
<1>0. op.issue = {} /\ op.sweep = {}
  BY Zenon DEF InheritInv
<1>1. CASE UNCHANGED vars
  BY <1>0, <1>1, Zenon DEF Inert, vars, tables
<1>2. CASE Crash
  BY <1>2, IdleFields, Zenon DEF Crash, Inert, tables
<1>3. CASE CommitOutcome
  <2> DEFINE r == [type |-> "OutcomeCommit", outcome |-> op.outcome]
             owed == [op EXCEPT !.outcome = None]
  <2>1. r.type = "OutcomeCommit" /\ \E ph : AppendAndApply(r, ph, owed)
    BY <1>3, Zenon DEF CommitOutcome
  <2>2. owed.issue = {} /\ owed.sweep = {}
    <3>1. op \in Owed
      BY Zenon DEF IInv, TypeInv, TypeOK
    <3> QED
      BY <1>0, <3>1, Zenon DEF Owed
  <2> HIDE DEF r, owed
  <2> QED
    BY <2>1, <2>2, QuietAppend, Zenon DEF Inert
<1>4. CASE Owes
  BY <1>0, <1>3, <1>4, Zenon DEF Owes, InstallInitialPolicy, AdvanceEpoch,
     Continue, SweepNext, IssueNext
<1>5. CASE \E sc \in Scopes : Start(sc) \/ StartReading(sc)
  BY <1>5, Zenon DEF Start, StartReading, Open, OpenReadOnly
<1>6. CASE UNCHANGED allVars \/ \E mode \in Modes : Begin(mode)
  BY <1>1, <1>6, Zenon DEF allVars, Begin
<1>7. CASE Exit \/ Kill
  BY <1>2, <1>7, Zenon DEF Exit, Kill
<1>8. CASE LibraryCall
  BY <1>8, Zenon DEF LibraryCall
<1> QED
  BY <1>4, <1>5, <1>6, <1>7, <1>8, InertCall, Zenon DEF ToolsNext

\* Which process a step leaves in charge.
LEMMA SameMode ==
    ASSUME IInv, ProgramInv, [ToolsNext]_allVars, phase # "down",
           phase' # "down"
    PROVE  \/ tool'.mode = tool.mode
           \/ /\ tool.mode = "opening" /\ phase = "up" /\ UNCHANGED vars
              /\ tool'.mode \in Modes
<1>0. tool \in Process
  BY Holding, Zenon DEF RunningInv
<1>1. ASSUME NEW mode \in Modes, Begin(mode)
      PROVE  /\ tool.mode = "opening" /\ phase = "up" /\ UNCHANGED vars
             /\ tool'.mode \in Modes
  <2>1. tool' = [tool EXCEPT !.mode = mode, !.todo = Program[mode]]
    BY <1>1, Zenon DEF Begin
  <2>2. tool'.mode = mode
    BY <1>0, <2>1, Zenon DEF Process
  <2> QED
    BY <1>1, <2>2, Zenon DEF Begin, Serving
<1>2. CASE Owes
  <2>1. Goes(tool)
    BY <1>2, Zenon DEF Owes
  <2>2. [tool EXCEPT !.todo = <<>>, !.failed = TRUE].mode = tool.mode
    BY <1>0, StoppedIs, Zenon
  <2> QED
    BY <2>1, <2>2, Zenon DEF Goes
<1>3. CASE Step
  BY <1>3, CallsMove, Zenon DEF CallMoves, Onward
<1>4. CASE LibraryCall \/ UNCHANGED allVars
  BY <1>4, Zenon DEF LibraryCall, allVars, toolVars
<1>5. CASE Exit \/ Kill
  BY <1>5, Zenon DEF Exit, Kill, Crash
<1>6. CASE \E sc \in Scopes : Start(sc) \/ StartReading(sc)
  BY <1>6, Zenon DEF Start, StartReading, Open, OpenReadOnly
<1> QED
  BY <1>1, <1>2, <1>3, <1>4, <1>5, <1>6, Zenon DEF ToolsNext

\* A new epoch is later than everything that was there.
LEMMA EpochIsNew ==
    ASSUME IInv, DatesInv, AdvanceEpoch, phase' # "down"
    PROVE  /\ UNCHANGED <<attempts, observations>> /\ op'.issue = {}
           /\ phase' = "up" => op'.sweep = {}
           /\ \A i \in AttemptIds :
                 attempts[i] # None => attempts[i].epoch < last_epoch'
           /\ \A sc \in Scopes : \A o \in Retained(sc) :
                 o.received_epoch < last_epoch'
<1>0. TypeOK /\ last_epoch \in Nat /\ phase = "opening"
  BY LastEpochIsNumber, Zenon DEF IInv, TypeInv, AdvanceEpoch
<1> DEFINE r == [type |-> "EpochAdvance", epoch |-> last_epoch + 1]
           ph == IF Candidates = {} THEN "up" ELSE "fencing"
           owed == [Idle EXCEPT !.sweep = Candidates]
<1>1. r.type = "EpochAdvance" /\ r.epoch = last_epoch + 1
  BY Zenon
<1>2. ApplyPayload(r) /\ phase' = ph /\ op' = owed
  BY <1>0, AppendEither, Zenon DEF AdvanceEpoch
<1>3. owed.issue = {} /\ owed.sweep = Candidates
  BY Zenon DEF Idle
<1>4. ph = "up" => Candidates = {}
  BY Zenon
<1> HIDE DEF r, ph, owed
<1>5. UNCHANGED <<attempts, observations>>
  BY <1>1, <1>2, Zenon DEF ApplyPayload
<1>6. last_epoch' = last_epoch + 1
  BY <1>0, <1>1, <1>2 DEF ApplyPayload
<1>7. ASSUME NEW i \in AttemptIds, attempts[i] # None
      PROVE  attempts[i].epoch < last_epoch'
  <2>1. attempts[i].epoch \in Nat /\ attempts[i].epoch <= last_epoch
    BY <1>0, <1>7, AttemptDate, Zenon DEF DatesInv
  <2> QED
    BY <1>0, <1>6, <2>1
<1>8. ASSUME NEW sc \in Scopes, NEW o \in Retained(sc)
      PROVE  o.received_epoch < last_epoch'
  <2>1. o.received_epoch \in Nat /\ o.received_epoch <= last_epoch
    BY <1>0, ObservationDate, Zenon DEF DatesInv
  <2> QED
    BY <1>0, <1>6, <2>1
<1> QED
  BY <1>2, <1>3, <1>4, <1>5, <1>7, <1>8, Zenon

\* A sweep, and the outcome it commits, keep the dates.
LEMMA FencingKeepsDates ==
    ASSUME IInv, Continue, phase = "fencing",
           \A i \in AttemptIds :
              attempts[i] # None => attempts[i].epoch < last_epoch
    PROVE  /\ UNCHANGED <<observations, last_epoch>>
           /\ \A i \in AttemptIds :
                 attempts'[i] # None => attempts'[i].epoch < last_epoch
<1>0. TypeOK /\ HandlerOK /\ op.issue = {}
  BY Zenon DEF IInv, TypeInv, HandlerOK
<1>1. CASE SweepNext
  <2>1. PICK i \in op.sweep : \E ph, owed :
           AppendAndApply(Transitioned(i, SweepTarget(i)), ph, owed)
    BY <1>1, Zenon DEF SweepNext
  <2>2. i \in AttemptIds /\ attempts[i] # None
    BY <1>0, Zenon DEF TypeOK, Owed, HandlerOK, Unfinished
  <2>3. SweepTarget(i) \in AttemptState
    BY Zenon DEF SweepTarget, AttemptState
  <2> DEFINE r == Transitioned(i, SweepTarget(i))
  <2>4. r.type = "AttemptPut" /\ r.attempt.epoch = attempts[i].epoch
    BY <1>0, <2>2, <2>3, TransitionedType, Zenon
  <2>5. ApplyPayload(r) \/ UNCHANGED tables
    BY <2>1, AppendEither, Zenon
  <2> HIDE DEF r
  <2>6. CASE ApplyPayload(r)
    <3>1. UNCHANGED <<observations, last_epoch>>
      BY <2>4, <2>6, Zenon DEF ApplyPayload
    <3>2. ASSUME NEW k \in AttemptIds, attempts'[k] # None
          PROVE  attempts'[k].epoch < last_epoch
      BY <1>0, <2>2, <2>4, <2>6, <3>2, AttemptAfter, Zenon
    <3> QED
      BY <3>1, <3>2, Zenon
  <2>7. CASE UNCHANGED tables
    BY <2>7, Zenon DEF tables
  <2> QED
    BY <2>5, <2>6, <2>7, Zenon
<1>2. CASE CommitOutcome
  <2> DEFINE r == [type |-> "OutcomeCommit", outcome |-> op.outcome]
  <2>1. /\ r.type = "OutcomeCommit"
        /\ \E ph, owed : AppendAndApply(r, ph, owed)
    BY <1>2, Zenon DEF CommitOutcome
  <2> HIDE DEF r
  <2>2. UNCHANGED <<observations, last_epoch, attempts>>
    BY <2>1, AppendEither, Zenon DEF ApplyPayload, tables
  <2> QED
    BY <2>2, Zenon
<1> QED
  BY <1>0, <1>1, <1>2, Zenon DEF Continue, IssueNext

LEMMA InheritStep ==
    ASSUME IInv, ProgramInv, EpochInv, InheritInv, [ToolsNext]_allVars
    PROVE  InheritInv'
<1> SUFFICES ASSUME phase' \in {"fencing", "up"} PROVE InheritInv'
  BY Zenon DEF InheritInv
<1>1. CASE phase = "up"
  <2>1. \/ tool'.mode = tool.mode
        \/ /\ tool.mode = "opening" /\ UNCHANGED vars
           /\ tool'.mode \in Modes
    BY <1>1, SameMode, Zenon
  <2>2. CASE tool.mode \in {"library", "scenario"}
    <3>1. tool'.mode = tool.mode
      BY <2>1, <2>2, Zenon
    <3> QED
      BY <2>2, <3>1, Zenon DEF InheritInv
  <2>3. CASE tool.mode \notin {"library", "scenario"}
    <3>1. Inert(tool.mode \in {"observe", "fixture"})
      BY <1>1, <2>3, InertStep, Zenon
    <3>2. \A i \in AttemptIds :
             attempts'[i] # None => attempts'[i].epoch < last_epoch'
      BY <1>1, <2>3, <3>1, Zenon DEF Inert, InheritInv
    <3>3. op'.issue = {} /\ op'.sweep = {}
      BY <3>1, Zenon DEF Inert
    <3>4. ASSUME tool'.mode \notin {"library", "scenario", "observe", "fixture"},
                 NEW sc \in Scopes, NEW o \in Retained(sc)'
          PROVE  o.received_epoch < last_epoch'
      <4>1. tool.mode \notin {"library", "scenario", "observe", "fixture"}
        BY <2>1, <3>4, Zenon
      <4>2. observations' = observations /\ last_epoch' = last_epoch
        BY <3>1, <4>1, Zenon DEF Inert
      <4>3. o \in Retained(sc)
        BY <4>2, Zenon DEF Retained
      <4> QED
        BY <1>1, <4>1, <4>2, <4>3, Zenon DEF InheritInv
    <3> QED
      BY <3>2, <3>3, <3>4, Zenon DEF InheritInv
  <2> QED
    BY <2>2, <2>3, Zenon
<1>2. CASE phase # "up"
  <2>1. Owes \/ UNCHANGED vars
    <3>1. CASE \E sc \in Scopes : Start(sc) \/ StartReading(sc)
      BY <3>1, Zenon DEF Start, StartReading, Open, OpenReadOnly
    <3>2. CASE Step
      <4>1. phase = "up"
        BY <3>2, Zenon DEF Step, PolicyStep, IntentStep, ObserveStep, PlanStep,
           DispatchStep, ApplyStep, CompleteStep, VerifyStep, FenceStep, Doing,
           Serving
      <4> QED
        BY <1>2, <4>1, Zenon
    <3>3. CASE LibraryCall
      <4>1. phase' = phase /\ phase \in {"up", "reading"}
        BY <3>3, RequestPhase, Zenon DEF LibraryCall
      <4> QED
        BY <1>2, <4>1, Zenon
    <3>4. CASE Exit \/ Kill
      BY <3>4, Zenon DEF Exit, Kill, Crash
    <3>5. CASE UNCHANGED allVars \/ \E m \in Modes : Begin(m)
      BY <3>5, Zenon DEF allVars, Begin
    <3> QED
      BY <3>1, <3>2, <3>3, <3>4, <3>5, Zenon DEF ToolsNext
  <2>2. TypeInv /\ DatesInv
    BY Zenon DEF IInv, EpochInv
  <2>3. CASE Owes /\ AdvanceEpoch
    <3>1. /\ UNCHANGED <<attempts, observations>> /\ op'.issue = {}
          /\ phase' = "up" => op'.sweep = {}
          /\ \A i \in AttemptIds :
                attempts[i] # None => attempts[i].epoch < last_epoch'
          /\ \A sc \in Scopes : \A o \in Retained(sc) :
                o.received_epoch < last_epoch'
      BY <2>2, <2>3, EpochIsNew, Zenon
    <3>2. \A sc \in Scopes : Retained(sc)' = Retained(sc)
      BY <3>1, Zenon DEF Retained
    <3> QED
      BY <3>1, <3>2, Zenon DEF InheritInv
  <2>4. CASE Owes /\ Continue
    <3>0. op.sweep # {} \/ op.outcome # None \/ op.issue # {}
      BY <2>4, Zenon DEF Continue, SweepNext, CommitOutcome, IssueNext
    <3>1. phase = "fencing"
      <4>1. phase # "opening"
        BY <2>2, <3>0, IdleFields, Zenon DEF TypeInv, HandlerOK
      <4> QED
        BY <1>2, <2>2, <2>4, <4>1, OwedPhase, Zenon
    <3>2. tool.mode = "opening"
      BY <3>1, Holding, Zenon DEF RunningInv
    <3>3. /\ \A i \in AttemptIds :
                attempts[i] # None => attempts[i].epoch < last_epoch
          /\ \A sc \in Scopes : \A o \in Retained(sc) :
                o.received_epoch < last_epoch
      BY <3>1, <3>2, Zenon DEF InheritInv
    <3>4. /\ UNCHANGED <<observations, last_epoch>>
          /\ \A i \in AttemptIds :
                attempts'[i] # None => attempts'[i].epoch < last_epoch
      BY <2>4, <3>1, <3>3, FencingKeepsDates, Zenon
    <3>5. phase' = "up" => op'.issue = {} /\ op'.sweep = {}
      BY <1>2, <2>2, <2>4, OwedPhase, IdleFields, Zenon
    <3>6. \A sc \in Scopes : Retained(sc)' = Retained(sc)
      BY <3>4, Zenon DEF Retained
    <3> QED
      BY <3>3, <3>4, <3>5, <3>6, Zenon DEF InheritInv
  <2>5. CASE Owes /\ InstallInitialPolicy
    BY <2>5, AppendEither, Zenon DEF InstallInitialPolicy
  <2>6. CASE UNCHANGED vars
    <3>1. UNCHANGED <<phase, attempts, observations, last_epoch, op>>
      BY <2>6, Zenon DEF vars, tables
    <3>2. tool'.mode = tool.mode
      BY <1>2, <3>1, SameMode, Zenon
    <3> QED
      BY <3>1, <3>2, Zenon DEF InheritInv, Retained
  <2> QED
    BY <2>1, <2>3, <2>4, <2>5, <2>6, Zenon DEF Owes
<1> QED
  BY <1>1, <1>2, Zenon

-----------------------------------------------------------------------------
(* What a process reports. *)

\* Documents in force stay in force, whatever the next step is.
LEMMA DocumentsStay ==
    ASSUME IInv, ProgramInv, EpochInv, [ToolsNext]_allVars,
           NEW docs, AllInForce(docs)
    PROVE  AllInForce(docs)'
<1>1. [Next]_vars
  BY ToolsRefines, Zenon
<1>2. ASSUME NEW c \in docs PROVE InForce(c.kind, c.scope, c.doc)'
  <2>1. c \in Committed /\ InForce(c.kind, c.scope, c.doc)
    BY Zenon DEF AllInForce
  <2>2. c.scope \in Scopes
    BY <2>1, Zenon DEF Committed
  <2> QED
    BY <1>1, <2>1, <2>2, InForceStep, Zenon
<1>3. docs \subseteq Committed
  BY Zenon DEF AllInForce
<1> QED
  BY <1>2, <1>3, Zenon DEF AllInForce

LEMMA AcknowledgedAre ==
    ASSUME NEW docs, acknowledged' = docs, AllInForce(docs)'
    PROVE  AllInForce(acknowledged)'
BY Zenon DEF AllInForce

LEMMA ReportedAre ==
    ASSUME NEW docs, tool'.docs = docs, AllInForce(docs)'
    PROVE  AllInForce(tool.docs)'
BY Zenon DEF AllInForce

LEMMA BothInForce ==
    ASSUME NEW some, NEW others, AllInForce(some)', AllInForce(others)'
    PROVE  AllInForce(some \cup others)'
BY Zenon DEF AllInForce

\* A process whose call committed the document and that goes on.
LEMMA GivenDocument ==
    ASSUME IInv, ProgramInv, EpochInv, ExitInv, [ToolsNext]_allVars,
           NEW step, Doing(step), NEW kind, NEW doc, NEW sc, sc = tool.scope,
           [kind |-> kind, scope |-> sc, doc |-> doc] \in Committed,
           Goes(DoneWith(kind, doc)) \/ Nothing(DoneWith(kind, doc)),
           tool'.failed # TRUE, InForce(kind, sc, doc)'
    PROVE  AllInForce(tool.docs)'
<1>1. RunningInv /\ tool.todo # <<>> /\ phase = "up"
  BY Making, Zenon
<1> DEFINE c == [kind |-> kind, scope |-> sc, doc |-> doc]
           next == DoneWith(kind, doc)
<1>2. /\ Onward(next) /\ next.docs = tool.docs \cup {c}
      /\ next.failed = tool.failed
  BY <1>1, DoneWithIs, Zenon
<1>3. Goes(next) \/ Nothing(next)
  BY Zenon
<1>4. c \in Committed /\ c.kind = kind /\ c.scope = sc /\ c.doc = doc
  BY Zenon
<1> HIDE DEF next, c
<1>5. tool'.docs = tool.docs \cup {c} /\ tool.failed # TRUE
  BY <1>2, <1>3, MovesOn, Zenon
<1>6. PICK docs : docs = tool.docs
  BY Zenon
<1>7. AllInForce(docs)
  BY <1>1, <1>5, <1>6, Zenon DEF ExitInv
<1>8. AllInForce(docs)'
  BY <1>7, DocumentsStay, Zenon
<1>9. AllInForce({c})'
  BY <1>4, Zenon DEF AllInForce
<1>10. AllInForce(docs \cup {c})'
  BY <1>8, <1>9, BothInForce, Zenon
<1> QED
  BY <1>5, <1>6, <1>10, ReportedAre, Zenon

\* A command goes on only when what it appended is durable.
LEMMA GoesWhenDurable ==
    ASSUME ProgramInv, NEW step, Doing(step), NEW kind, NEW doc,
           [kind |-> kind, scope |-> tool.scope, doc |-> doc] \in Committed,
           Goes(DoneWith(kind, doc)), tool'.failed # TRUE,
           tool.mode # "library"
    PROVE  ~wedged'
<1>1. RunningInv /\ tool.todo # <<>>
  BY Making, Zenon
<1> DEFINE next == DoneWith(kind, doc)
<1>2. Onward(next) /\ Goes(next)
  BY <1>1, DoneWithIs, Zenon
<1> HIDE DEF next
<1> QED
  BY <1>2, MovesOn, Zenon

\* CommandPolicy.
LEMMA PolicyGiven ==
    ASSUME IInv, ProgramInv, EpochInv, ExitInv, [ToolsNext]_allVars,
           NEW p \in Policies, PolicyStep(p), tool'.failed # TRUE
    PROVE  AllInForce(tool.docs)'
<1>1. /\ RunningInv /\ tool.todo # <<>> /\ Head(tool.todo) = "policy"
      /\ tool.scope \in Scopes /\ Doing("policy")
  BY Making, Zenon DEF PolicyStep
<1>2. tool.mode = "policy"
  BY ONLY <1>1, CallOrder
<1>3. p # None /\ ~Refused
  BY <1>1, RefusedStops, NoneAssumption, Zenon
<1>4. PICK sc \in Scopes : sc = tool.scope
  BY <1>1, Zenon
<1>5. [kind |-> "policy", scope |-> sc, doc |-> p] \in Committed
  BY Zenon DEF Committed
<1>6. policy' = p
  <2>1. CASE p = policy /\ Nothing(DoneWith("policy", p))
    BY <2>1, Zenon DEF Nothing, vars, tables
  <2>2. CASE PutPolicy(p) /\ Goes(DoneWith("policy", p))
    <3>1. ~wedged'
      BY <1>1, <1>2, <1>4, <1>5, <2>2, GoesWhenDurable, Zenon
    <3> DEFINE r == [type |-> "PolicyPut", policy |-> p]
    <3>2. /\ r.type = "PolicyPut" /\ r.policy = p
          /\ AppendAndApply(r, phase, Idle)
      BY <2>2, Zenon DEF PutPolicy
    <3> HIDE DEF r
    <3>3. ApplyPayload(r)
      BY <3>1, <3>2, Zenon DEF AppendAndApply
    <3> QED
      BY <3>2, <3>3, Zenon DEF ApplyPayload
  <2> QED
    BY <1>3, <2>1, <2>2, Zenon DEF PolicyStep
<1>7. InForce("policy", sc, p)'
  BY <1>3, <1>6, Zenon DEF InForce
<1>8. Goes(DoneWith("policy", p)) \/ Nothing(DoneWith("policy", p))
  BY <1>3, Zenon DEF PolicyStep
<1> QED
  BY <1>1, <1>4, <1>5, <1>7, <1>8, GivenDocument, Zenon

\* CommandIntent, and the intent of a fixture.
LEMMA IntentGiven ==
    ASSUME IInv, ProgramInv, EpochInv, ExitInv, [ToolsNext]_allVars,
           NEW doc \in Intent, IntentStep(doc), tool'.failed # TRUE
    PROVE  AllInForce(tool.docs)'
<1>1. /\ RunningInv /\ tool.todo # <<>> /\ Head(tool.todo) = "intent"
      /\ tool.scope \in Scopes /\ Doing("intent")
  BY Making, Zenon DEF IntentStep
<1>2. tool.mode \in {"intent", "fixture", "scenario"}
  BY ONLY <1>1, CallOrder
<1>3. doc # None /\ ~Refused
  BY <1>1, RefusedStops, NoneAssumption, Zenon
<1>4. PICK sc \in Scopes : sc = tool.scope
  BY <1>1, Zenon
<1>5. [kind |-> "intent", scope |-> sc, doc |-> doc] \in Committed
  BY Zenon DEF Committed
<1>6. intents'[sc] = doc
  <2>1. CASE intents[tool.scope] = doc /\ Nothing(DoneWith("intent", doc))
    BY <1>4, <2>1, Zenon DEF Nothing, vars, tables
  <2>2. CASE CommitIntent(tool.scope, doc) /\ Goes(DoneWith("intent", doc))
    <3>1. ~wedged'
      BY <1>1, <1>2, <1>4, <1>5, <2>2, GoesWhenDurable, Zenon
    <3> DEFINE r == [type |-> "IntentCommit", scope |-> sc, intent |-> doc]
    <3>2. /\ r.type = "IntentCommit" /\ r.intent = doc
          /\ r.scope = sc /\ AppendAndApply(r, phase, Idle)
      BY <1>4, <2>2, Zenon DEF CommitIntent
    <3> HIDE DEF r
    <3>3. ApplyPayload(r)
      BY <3>1, <3>2, Zenon DEF AppendAndApply
    <3>4. intents' = [intents EXCEPT ![r.scope] = r.intent]
      BY <3>2, <3>3, Zenon DEF ApplyPayload
    <3>5. r.scope \in DOMAIN intents
      BY <3>2, Zenon DEF IInv, TypeInv, TypeOK
    <3> QED
      BY <3>2, <3>4, <3>5, Zenon
  <2> QED
    BY <1>3, <2>1, <2>2, Zenon DEF IntentStep
<1>7. InForce("intent", sc, doc)'
  BY <1>3, <1>6, Zenon DEF InForce
<1>8. Goes(DoneWith("intent", doc)) \/ Nothing(DoneWith("intent", doc))
  BY <1>3, Zenon DEF IntentStep
<1> QED
  BY <1>1, <1>4, <1>5, <1>7, <1>8, GivenDocument, Zenon

\* CommandObserve, and the observation of a fixture.
LEMMA ObservationGiven ==
    ASSUME IInv, ProgramInv, EpochInv, ExitInv, [ToolsNext]_allVars,
           NEW id \in ObservationIds, NEW r \in Reporters,
           NEW g \in Generations, NEW b \in Bodies, NEW now \in Times,
           ObserveStep(id, r, g, b, now), tool'.failed # TRUE
    PROVE  AllInForce(tool.docs)'
<1>1. /\ RunningInv /\ tool.todo # <<>> /\ Head(tool.todo) = "observe"
      /\ tool.scope \in Scopes /\ Doing("observe")
  BY Making, Zenon DEF ObserveStep
<1>2. tool.mode \in {"observe", "fixture", "scenario"}
  BY ONLY <1>1, CallOrder
<1>3. ~Refused
  BY <1>1, RefusedStops, Zenon
<1>4. PICK sc \in Scopes : sc = tool.scope
  BY <1>1, Zenon
<1> DEFINE doc == [id |-> id, reporter |-> r, generation |-> g]
           o == [id |-> id, reporter |-> r, generation |-> g,
                 body |-> b, received_epoch |-> live_epoch,
                 received_unix_ms |-> now]
           rec == [type |-> "ObservationCommit", scope |-> tool.scope,
                   observation |-> o]
<1>5. doc \in Observed
  BY Zenon DEF Observed
<1>6. /\ Goes(DoneWith("observation", doc))
      /\ AppendAndApply(rec, phase, Idle)
  BY <1>3, Zenon DEF ObserveStep, RecordObservation
<1>7. /\ doc = [id |-> o.id, reporter |-> o.reporter,
                generation |-> o.generation]
      /\ rec.type = "ObservationCommit" /\ rec.scope = sc
      /\ rec.observation = o
  BY <1>4, Zenon
<1> HIDE DEF doc, rec, o
<1>8. [kind |-> "observation", scope |-> sc, doc |-> doc] \in Committed
  BY <1>5, Zenon DEF Committed
<1>9. ~wedged'
  BY <1>1, <1>2, <1>4, <1>6, <1>8, GoesWhenDurable, Zenon
<1>10. ApplyPayload(rec) /\ TypeOK
  BY <1>6, <1>9, Zenon DEF AppendAndApply, IInv, TypeInv
<1>11. \/ Len(observations'[sc]) = MaxRetainedObservations
       \/ o \in {observations'[sc][i] : i \in DOMAIN observations'[sc]}
  BY <1>7, <1>10, RetainedAfter, Zenon DEF Retained
<1>12. InForce("observation", sc, doc)'
  BY <1>7, <1>11, Zenon DEF InForce, Retained
<1> QED
  BY <1>1, <1>4, <1>6, <1>8, <1>12, GivenDocument, Zenon

\* The process in charge, when it holds the documents it held before the step.
LEMMA SameReport ==
    ASSUME IInv, ProgramInv, EpochInv, ExitInv, [ToolsNext]_allVars,
           phase # "down", tool'.docs = tool.docs, tool.failed # TRUE
    PROVE  AllInForce(tool.docs)'
<1>1. PICK docs : docs = tool.docs
  BY Zenon
<1>2. AllInForce(docs)
  BY <1>1, Zenon DEF ExitInv
<1> QED
  BY <1>1, <1>2, DocumentsStay, ReportedAre, Zenon

\* Every call.
LEMMA CallReports ==
    ASSUME IInv, ProgramInv, EpochInv, ExitInv, [ToolsNext]_allVars, Step,
           tool'.failed # TRUE
    PROVE  AllInForce(tool.docs)'
<1>0. RunningInv /\ tool.todo # <<>> /\ phase = "up"
  <2>1. PICK step : Doing(step)
    BY Zenon DEF Step, PolicyStep, IntentStep, ObserveStep, PlanStep,
       DispatchStep, ApplyStep, CompleteStep, VerifyStep, FenceStep
  <2> QED
    BY <2>1, Making, Zenon
<1>1. CallMoves
  BY CallsMove, Zenon
<1>2. CASE Head(tool.todo) \notin {"policy", "intent", "observe"}
  BY <1>0, <1>1, <1>2, SameReport, Zenon DEF CallMoves, Onward
<1>3. CASE Head(tool.todo) \in {"policy", "intent", "observe"}
  <2>1. \/ \E p \in Policies : PolicyStep(p)
        \/ \E doc \in Intent : IntentStep(doc)
        \/ \E id \in ObservationIds, r \in Reporters, g \in Generations,
             b \in Bodies, now \in Times : ObserveStep(id, r, g, b, now)
    BY <1>3, Zenon DEF Step, PlanStep, DispatchStep, ApplyStep, CompleteStep,
       VerifyStep, FenceStep, Doing
  <2> QED
    BY <2>1, PolicyGiven, IntentGiven, ObservationGiven, Zenon
<1> QED
  BY <1>2, <1>3, Zenon

\* What was acknowledged stays true, whatever the next step is, and a process
\* that ends vouches for what it committed only when nothing failed.
LEMMA AcknowledgedStep ==
    ASSUME IInv, ProgramInv, EpochInv, ExitInv, [ToolsNext]_allVars
    PROVE  AllInForce(acknowledged)'
<1>1. PICK before : before = acknowledged
  BY Zenon
<1>2. AllInForce(before)
  BY <1>1, Zenon DEF ExitInv
<1>3. AllInForce(before)'
  BY <1>2, DocumentsStay, Zenon
<1>4. CASE acknowledged' = acknowledged
  BY <1>1, <1>3, <1>4, AcknowledgedAre, Zenon
<1>5. CASE Exit /\ acknowledged' = acknowledged \cup tool.docs /\ ~tool.failed
  <2>1. phase # "down"
    BY <1>5, Zenon DEF Exit, Serving
  <2>2. PICK docs : docs = tool.docs
    BY Zenon
  <2>3. AllInForce(docs)
    BY <1>5, <2>1, <2>2, Zenon DEF ExitInv
  <2>4. AllInForce(before \cup docs)'
    BY <1>3, <2>3, DocumentsStay, BothInForce, Zenon
  <2> QED
    BY <1>1, <1>5, <2>2, <2>4, AcknowledgedAre, Zenon
<1>6. CASE Step
  BY <1>4, <1>6, CallsMove, Zenon DEF CallMoves
<1>7. CASE Owes \/ Kill
  BY <1>4, <1>7, Zenon DEF Owes, Kill, Ends, Goes
<1>8. CASE Exit
  BY <1>4, <1>5, <1>8, Zenon DEF Exit, Ends
<1>9. CASE LibraryCall \/ UNCHANGED allVars
  BY <1>4, <1>9, Zenon DEF LibraryCall, toolVars, allVars
<1>10. CASE \E sc \in Scopes : Start(sc) \/ StartReading(sc)
  BY <1>4, <1>10, Zenon DEF Start, StartReading
<1>11. CASE \E mode \in Modes : Begin(mode)
  BY <1>4, <1>11, Zenon DEF Begin
<1> QED
  BY <1>6, <1>7, <1>8, <1>9, <1>10, <1>11, Zenon DEF ToolsNext

LEMMA ExitStep ==
    ASSUME IInv, ProgramInv, EpochInv, ExitInv, [ToolsNext]_allVars
    PROVE  ExitInv'
<1>1. ASSUME phase' # "down", tool'.failed # TRUE PROVE AllInForce(tool.docs)'
  <2>0. AllInForce({})'
    BY Zenon DEF AllInForce
  <2>1. CASE Step
    BY <1>1, <2>1, CallReports, Zenon
  <2>2. CASE Owes
    <3>1. RunningInv /\ phase # "down" /\ Goes(tool)
      BY <1>1, <2>2, Running, Zenon DEF Owes
    <3>2. tool \in Process
      BY <3>1, Zenon DEF RunningInv
    <3>3. [tool EXCEPT !.todo = <<>>, !.failed = TRUE].failed = TRUE
      BY <3>2, StoppedIs, Zenon
    <3>4. tool' = tool
      BY <1>1, <3>1, <3>3, Zenon DEF Goes
    <3> QED
      BY <1>1, <3>1, <3>4, SameReport, Zenon
  <2>3. CASE \E sc \in Scopes : Start(sc) \/ StartReading(sc)
    <3>1. PICK sc \in Scopes, m \in {"opening", "library"} :
             tool' = [mode |-> m, scope |-> sc, todo |-> <<>>, plan |-> None,
                      issued |-> 0, docs |-> {}, failed |-> FALSE]
      BY <2>3, Zenon DEF Start, StartReading
    <3>2. tool'.docs = {}
      BY <3>1, Zenon
    <3> QED
      BY <2>0, <3>2, ReportedAre, Zenon
  <2>4. CASE \E mode \in Modes : Begin(mode)
    <3>1. PICK mode \in Modes : Begin(mode)
      BY <2>4, Zenon
    <3>2. RunningInv /\ tool.mode = "opening"
      BY <3>1, Running, Zenon DEF Begin
    <3>3. tool \in Process /\ tool.docs = {}
      BY <3>2, Zenon DEF RunningInv
    <3>4. tool' = [tool EXCEPT !.mode = mode, !.todo = Program[mode]]
      BY <3>1, Zenon DEF Begin
    <3>5. tool'.docs = tool.docs
      BY <3>3, <3>4, Zenon DEF Process
    <3> QED
      BY <2>0, <3>3, <3>5, ReportedAre, Zenon
  <2>5. CASE Exit \/ Kill
    BY <1>1, <2>5, Zenon DEF Exit, Kill, Crash
  <2>6. CASE LibraryCall \/ UNCHANGED allVars
    <3>1. tool' = tool
      BY <2>6, Zenon DEF LibraryCall, toolVars, allVars
    <3>2. phase # "down"
      <4>1. CASE LibraryCall
        BY <4>1, Running, Zenon DEF LibraryCall
      <4>2. CASE UNCHANGED allVars
        BY <1>1, <4>2, Zenon DEF allVars, vars
      <4> QED
        BY <2>6, <4>1, <4>2, Zenon
    <3> QED
      BY <1>1, <3>1, <3>2, SameReport, Zenon
  <2> QED
    BY <2>1, <2>2, <2>3, <2>4, <2>5, <2>6, Zenon DEF ToolsNext
<1> QED
  BY <1>1, AcknowledgedStep, Zenon DEF ExitInv

-----------------------------------------------------------------------------
(* The theorems. *)

LEMMA ToolsIInvInit == ToolsInit => ToolsIInv
<1> SUFFICES ASSUME ToolsInit PROVE ToolsIInv
  BY Zenon
<1>1. /\ Init /\ phase = "down" /\ tool = None /\ acknowledged = {}
      /\ limbo = None
      /\ \A i \in AttemptIds : attempts[i] = None
  BY Zenon DEF ToolsInit, Init
<1>2. ASSUME NEW sc \in Scopes, NEW o \in Retained(sc) PROVE FALSE
  <2>1. observations[sc] = <<>>
    BY <1>1, Zenon DEF Init
  <2>2. DOMAIN observations[sc] = {}
    BY <2>1
  <2> QED
    BY <2>2, Zenon DEF Retained
<1>3. EpochInv
  BY <1>1, <1>2, Zenon DEF EpochInv, DatesInv
<1>4. ProgramInv /\ InheritInv /\ ExitInv
  BY <1>1, Zenon DEF ProgramInv, InheritInv, ExitInv, AllInForce
<1> QED
  BY <1>1, <1>3, <1>4, IInvInit, Zenon DEF ToolsIInv

LEMMA ToolsIInvStep == ToolsIInv /\ [ToolsNext]_allVars => ToolsIInv'
<1> SUFFICES ASSUME ToolsIInv, [ToolsNext]_allVars PROVE ToolsIInv'
  BY Zenon
<1>1. IInv /\ ProgramInv /\ EpochInv /\ InheritInv /\ ExitInv
  BY Zenon DEF ToolsIInv
<1>2. [Next]_vars
  BY <1>1, ToolsRefines, Zenon
<1>3. IInv'
  BY <1>1, <1>2, IInvStep, Zenon
<1>4. ProgramInv' /\ InheritInv' /\ ExitInv'
  BY <1>1, ProgramStep, InheritStep, ExitStep, Zenon
<1>5. EpochInv'
  BY <1>1, <1>2, <1>3, EpochStep, Zenon
<1> QED
  BY <1>3, <1>4, <1>5, Zenon DEF ToolsIInv

\* The inductive invariant holds in every state of every sequence of processes
\* that open the store, run their programs and end or die.
THEOREM ToolsInvariance == ToolsSpec => []ToolsIInv
BY ToolsIInvInit, ToolsIInvStep, PTL DEF ToolsSpec

\* The programs only do what the engine allows (OpenEngine, the commands, the
\* worker's modes): every run of processes on a store is a behaviour of the
\* engine, so whatever is proved of Engine's specification holds of them.
THEOREM ToolsImplementEngine == ToolsSpec => Spec
<1>1. ToolsInit => Init
  BY Zenon DEF ToolsInit
<1>2. ToolsIInv /\ [ToolsNext]_allVars => [Next]_vars
  BY ToolsRefines, Zenon DEF ToolsIInv
<1> QED
  BY <1>1, <1>2, ToolsInvariance, PTL DEF ToolsSpec, Spec

\* Commands that do not gather their own evidence never touch an attempt
\* (Open, Dispatch, Complete, Verify, PutFence), whatever earlier processes
\* left in the store.
THEOREM InheritedInert == ToolsSpec => InheritedIsInert
<1>1. ToolsIInv /\ [ToolsNext]_allVars =>
        [phase = "up" /\ attempts' # attempts =>
            tool.mode \in {"library", "scenario"}]_allVars
  BY InertStep, Zenon DEF ToolsIInv, Inert
<1> QED
  BY <1>1, ToolsInvariance, PTL DEF ToolsSpec, InheritedIsInert

\* All that commands ever committed and reported success for (CommandPolicy,
\* CommandIntent, CommandObserve, the worker's fixtures) is in the store for
\* good: through any number of later processes, failures, deaths and
\* recoveries, a document is in force until a newer one is, or retained until
\* the bound evicts it.
THEOREM ExitsAreTruthful == ToolsSpec => []ExitIsTruthful
<1>1. ToolsIInv => ExitIsTruthful
  <2> SUFFICES ASSUME ToolsIInv, NEW c \in acknowledged
               PROVE  LET sc == c.scope
                          doc == c.doc
                      IN  CASE c.kind = "policy" ->
                                 doc = policy \/ doc.version < policy.version
                            [] c.kind = "intent" ->
                                 /\ intents[sc] # None
                                 /\ \/ doc = intents[sc]
                                    \/ doc.generation < intents[sc].generation
                            [] c.kind = "observation" ->
                                 \/ Len(observations[sc])
                                      = MaxRetainedObservations
                                 \/ \E o \in Retained(sc) :
                                       doc = [id |-> o.id,
                                              reporter |-> o.reporter,
                                              generation |-> o.generation]
    BY Zenon DEF ExitIsTruthful
  <2>1. InForce(c.kind, c.scope, c.doc) /\ c \in Committed
    BY Zenon DEF ToolsIInv, ExitInv, AllInForce
  <2>2. c.kind \in {"policy", "intent", "observation"}
    BY <2>1, Zenon DEF Committed
  <2>3. CASE c.kind = "policy"
    BY <2>1, <2>3, Zenon DEF InForce
  <2>4. CASE c.kind = "intent"
    BY <2>1, <2>4, Zenon DEF InForce
  <2>5. CASE c.kind = "observation"
    BY <2>1, <2>5, Zenon DEF InForce
  <2> QED
    BY <2>2, <2>3, <2>4, <2>5, Zenon
<1> QED
  BY <1>1, ToolsInvariance, PTL

\* The process that holds the store is somewhere in its program, and there is
\* one exactly when an engine is open (OpenEngine and the store's lock).
THEOREM ToolsTyped == ToolsSpec => []ToolsTypeOK
<1>1. ToolsIInv => ToolsTypeOK
  <2> SUFFICES ASSUME ToolsIInv PROVE ToolsTypeOK
    BY Zenon
  <2>1. ProgramInv /\ ExitInv
    BY Zenon DEF ToolsIInv
  <2>2. acknowledged \subseteq Committed
    BY <2>1, Zenon DEF ExitInv, AllInForce
  <2>3. CASE phase = "down"
    BY <2>1, <2>2, <2>3, Zenon DEF ProgramInv, ToolsTypeOK
  <2>4. CASE phase # "down"
    <3>1. RunningInv
      BY <2>1, <2>4, Holding, Zenon
    <3>2. /\ tool.mode \in Modes \cup {"opening"} /\ tool.scope \in Scopes
          /\ tool.plan \in PlanRecord \cup {None} /\ tool.issued \in Nat
          /\ tool.docs \subseteq Committed /\ tool.failed \in BOOLEAN
      BY <3>1, ProcessFields, Zenon DEF RunningInv
    <3>3. \/ /\ tool.mode = "opening" /\ tool.todo = <<>> /\ ~tool.failed
          \/ /\ tool.mode \in Modes
             /\ \E n \in 0 .. Len(Program[tool.mode]) :
                   tool.todo = SubSeq(Program[tool.mode], n + 1,
                                      Len(Program[tool.mode]))
      BY <3>1, <3>2, Zenon DEF RunningInv, Left
    <3> QED
      BY <2>2, <2>4, <3>2, <3>3, Zenon DEF ToolsTypeOK
  <2> QED
    BY <2>3, <2>4, Zenon
<1> QED
  BY <1>1, ToolsInvariance, PTL
=============================================================================

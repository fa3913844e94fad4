-------------------------------- MODULE Tools --------------------------------
(***************************************************************************)
(* The programs that run an engine on a store: the commands of             *)
(* fabric-reconciliation, the modes of fabric-reconcile-worker, and        *)
(* processes that serve or embed the library.                              *)
(*                                                                         *)
(* The store's lock admits one process at a time; another one, or one      *)
(* whose arguments or file are refused, does nothing.  Every process opens *)
(* a new epoch, carries out the steps of its program on the engine, ends   *)
(* at the first step that fails and may be killed at any point, the        *)
(* worker's --kill-at boundaries included.                                 *)
(*                                                                         *)
(* What a command prints is left out, and so is `compact', which changes   *)
(* no table; the commands that only print are the program "read".          *)
(***************************************************************************)
EXTENDS Engine

CONSTANT FenceOf(_)   \* the fence identity made from --below

VARIABLES
    tool,           \* None, or the process that holds the store
    acknowledged    \* history: what processes that reported success committed

toolVars == <<tool, acknowledged>>
allVars == <<vars, toolVars>>

\* The engine calls of each program, in order.
Program ==
    [library   |-> <<>>,
     read      |-> <<>>,
     policy    |-> <<"policy">>,
     intent    |-> <<"intent">>,
     observe   |-> <<"observe">>,
     dispatch  |-> <<"plan", "dispatch">>,
     complete  |-> <<"complete">>,
     verify    |-> <<"verify">>,
     fence     |-> <<"fence">>,
     fixture   |-> <<"intent", "observe", "plan">>,
     reconcile |-> <<"plan", "dispatch", "apply">>,
     scenario  |-> <<"intent", "observe", "plan", "dispatch", "apply">>]

Modes == DOMAIN Program

Calls == {"policy", "intent", "observe", "plan", "dispatch", "complete",
          "verify", "fence", "apply"}

\* What a command commits: a policy, an intent of its scope, or an observation
\* as its file names it.
Observed == [id : ObservationIds, reporter : Reporters,
             generation : Generations]

Committed == [kind : {"policy"}, scope : Scopes, doc : Policies]
               \cup [kind : {"intent"}, scope : Scopes, doc : Intent]
               \cup [kind : {"observation"}, scope : Scopes, doc : Observed]

\* A process: its program, the calls left of it, the plan it made, the first
\* attempt it dispatched, what it committed, and whether a call failed.
Process == [mode : Modes \cup {"opening"}, scope : Scopes, todo : Seq(Calls),
            plan : PlanRecord \cup {None}, issued : Nat,
            docs : SUBSET Committed, failed : BOOLEAN]

\* Policies are numbered by their versions.
ASSUME ToolsAssumption ==
    /\ \A e \in Epochs : FenceOf(e) \in FenceIds
    /\ \A p \in Policies : p.version \in Nat
    /\ None \notin Process

-----------------------------------------------------------------------------
(* Processes. *)

\* OpenEngine, after the arguments and the file of the command were parsed.
\* Which command it is makes no difference before the engine is open.
Start(sc) ==
    /\ tool = None
    /\ Open
    /\ tool' = [mode |-> "opening", scope |-> sc, todo |-> <<>>,
                plan |-> None, issued |-> 0, docs |-> {}, failed |-> FALSE]
    /\ UNCHANGED acknowledged

\* The engine is open and the command begins.
Begin(mode) ==
    /\ tool # None /\ tool.mode = "opening"
    /\ Serving
    /\ tool' = [tool EXCEPT !.mode = mode, !.todo = Program[mode]]
    /\ UNCHANGED <<vars, acknowledged>>

\* Only a program of the library's user opens a store for reading.
StartReading(sc) ==
    /\ tool = None
    /\ OpenReadOnly
    /\ tool' = [mode |-> "library", scope |-> sc, todo |-> <<>>,
                plan |-> None, issued |-> 0, docs |-> {}, failed |-> FALSE]
    /\ UNCHANGED acknowledged

\* A process that reports success vouches for all it committed.
Ends(ok) ==
    /\ tool' = None
    /\ acknowledged' = IF ok THEN acknowledged \cup tool.docs
                       ELSE acknowledged

\* Fault: the status of the commit is not looked at.
GoesRegardless(next) ==
    /\ tool' = next
    /\ UNCHANGED acknowledged

\* What the process goes on with when the append it made succeeded; a command
\* whose append failed does nothing more, the library's user may.
Goes(next) ==
    /\ tool' = IF wedged' /\ tool.mode # "library"
               THEN [next EXCEPT !.todo = <<>>, !.failed = TRUE] ELSE next
    /\ UNCHANGED acknowledged

\* Fault: a failed open is not noticed.
OwesNothing ==
    /\ tool # None
    /\ InstallInitialPolicy \/ AdvanceEpoch \/ Continue
    /\ Goes(tool)

\* Open installs a policy, advances the epoch and sweeps; when it fails there
\* is no engine and the process ends.  The same records follow a step.
Owes ==
    /\ tool # None
    /\ InstallInitialPolicy \/ AdvanceEpoch \/ Continue
    /\ IF phase' = "down" THEN Ends(FALSE) ELSE Goes(tool)

Exit ==
    /\ tool # None /\ tool.mode # "opening" /\ tool.todo = <<>>
    /\ phase = "reading" \/ Serving
    /\ Crash
    /\ Ends(~tool.failed)

Kill ==
    /\ tool # None
    /\ Crash
    /\ Ends(FALSE)

-----------------------------------------------------------------------------
(* Steps. *)

Doing(step) ==
    /\ Serving
    /\ tool # None
    /\ tool.todo # <<>>
    /\ Head(tool.todo) = step

Done == [tool EXCEPT !.todo = Tail(@)]

DoneWith(kind, doc) ==
    [Done EXCEPT !.docs = @ \cup {[kind |-> kind, scope |-> tool.scope,
                                   doc |-> doc]}]

\* The step returns success and changes nothing.
Nothing(next) ==
    /\ tool' = next
    /\ UNCHANGED <<vars, acknowledged>>

Refused == Nothing([tool EXCEPT !.todo = <<>>, !.failed = TRUE])

\* CommandPolicy: the file is read only now.
PolicyStep(p) ==
    /\ Doing("policy")
    /\ \/ PutPolicy(p) /\ Goes(DoneWith("policy", p))
       \/ p = policy /\ Nothing(DoneWith("policy", p))
       \/ Refused

\* CommandIntent and mode seed; the fixtures commit generation 1.
IntentStep(doc) ==
    /\ Doing("intent")
    /\ tool.mode \in {"fixture", "scenario"} => doc.generation = 1
    /\ \/ CommitIntent(tool.scope, doc) /\ Goes(DoneWith("intent", doc))
       \/ intents[tool.scope] = doc /\ Nothing(DoneWith("intent", doc))
       \/ /\ intents[tool.scope] # None /\ intents[tool.scope] # doc
          /\ doc.generation <= intents[tool.scope].generation
          /\ Refused

\* What the worker publishes next: more than what is retained of it.
NextGeneration(r) ==
    LET mine == {o.generation : o \in {o \in Retained(tool.scope) :
                                          o.reporter = r}}
    IN  IF mine = {} THEN 1
        ELSE (CHOOSE g \in mine : \A h \in mine : h <= g) + 1

\* CommandObserve and mode observe; an observation recorded by an earlier
\* process has another epoch, so it is never the same document.
ObserveStep(id, r, g, b, now) ==
    /\ Doing("observe")
    /\ tool.mode = "fixture" => g = 1
    /\ tool.mode = "scenario" => g = NextGeneration(r)
    /\ \/ /\ RecordObservation(tool.scope, id, r, g, b, now)
          /\ Goes(DoneWith("observation", [id |-> id, reporter |-> r,
                                           generation |-> g]))
       \/ /\ \E o \in Retained(tool.scope) :
                /\ o.reporter = r
                /\ \/ g < o.generation
                   \/ o.id = id /\ o.generation = g
          /\ Refused

\* The plan of this process; one that acts on nothing is None.
PlanStep(now) ==
    /\ Doing("plan")
    /\ \/ /\ Plan(tool.scope, policy, now)
          /\ Goes([Done EXCEPT !.plan = CHOOSE p \in plans' :
                     /\ p.scope = tool.scope /\ p.epoch = live_epoch
                     /\ p.policy = policy /\ p.intent = intents[tool.scope]
                     /\ p.observation = Current(tool.scope)
                     /\ p.subjects = PlanSubjects(tool.scope, policy, now)])
       \/ PlanSubjects(tool.scope, policy, now) = {} /\ Nothing(Done)

\* Nothing is left to do when nothing was issued.  CommandDispatch refuses
\* when --plan-id is not the identifier of the plan just made.
DispatchStep ==
    /\ Doing("dispatch")
    /\ \/ /\ tool.plan # None
          /\ Dispatch(tool.plan)
          /\ Goes([Done EXCEPT !.issued = next_attempt,
                     !.todo = IF ToIssue(tool.plan) = {} THEN <<>> ELSE @])
       \/ /\ tool.plan = None
          /\ IF intents[tool.scope] = None \/ Current(tool.scope) = None
             THEN Refused ELSE Nothing([tool EXCEPT !.todo = <<>>])
       \/ tool.mode = "dispatch" /\ Refused

\* The worker reports the first attempt of its dispatch as applied.
ApplyStep ==
    /\ Doing("apply")
    /\ Complete(tool.issued, live_epoch, "Applied")
    /\ Goes(Done)

\* CommandComplete reports, under the epoch this process opened, on whatever
\* attempt --attempt and --key name.
CompleteStep ==
    /\ Doing("complete")
    /\ \/ \E i \in AttemptIds, target \in AttemptState :
             Complete(i, live_epoch, target) /\ Goes(Done)
       \/ Refused

VerifyStep ==
    /\ Doing("verify")
    /\ \/ \E i \in Held(attempts), applier \in Reporters, now \in Times,
            confirms \in BOOLEAN :
             \E o \in Retained(attempts[i].key.scope) :
                Verify(i, o, applier, now, confirms) /\ Goes(Done)
       \/ Refused

\* CommandFence names the fence after --below alone.
FenceStep(subject, below) ==
    /\ Doing("fence")
    /\ \/ /\ PutFence(FenceOf(below), [scope |-> tool.scope,
                        subject |-> subject, fenced_below |-> below])
          /\ Goes(Done)
       \/ Refused

\* A service or another program on the library: any call, in any order.
LibraryCall ==
    /\ tool # None /\ tool.mode = "library"
    /\ Evidence \/ Actions \/ Fencing
    /\ UNCHANGED toolVars

-----------------------------------------------------------------------------
ToolsInit == Init /\ tool = None /\ acknowledged = {}

Step ==
    \/ \E p \in Policies : PolicyStep(p)
    \/ \E doc \in Intent : IntentStep(doc)
    \/ \E id \in ObservationIds, r \in Reporters, g \in Generations,
         b \in Bodies, now \in Times : ObserveStep(id, r, g, b, now)
    \/ \E now \in Times : PlanStep(now)
    \/ DispatchStep \/ ApplyStep \/ CompleteStep \/ VerifyStep
    \/ \E s \in Subjects \cup {AnySubject}, e \in Epochs : FenceStep(s, e)

ToolsNext ==
    \/ \E sc \in Scopes : Start(sc) \/ StartReading(sc)
    \/ \E mode \in Modes : Begin(mode)
    \/ Owes \/ Step \/ LibraryCall \/ Exit \/ Kill

ToolsSpec == ToolsInit /\ [][ToolsNext]_allVars
-----------------------------------------------------------------------------
(* Properties. *)

\* The process that holds the store is somewhere in its program, and there is
\* one exactly when an engine is open.
ToolsTypeOK ==
    /\ \/ tool = None /\ phase = "down"
       \/ /\ phase # "down"
          /\ \/ /\ tool.mode = "opening"
                /\ tool.todo = <<>> /\ ~tool.failed
             \/ /\ tool.mode \in Modes
                /\ \E n \in 0 .. Len(Program[tool.mode]) :
                      tool.todo = SubSeq(Program[tool.mode], n + 1,
                                         Len(Program[tool.mode]))
          /\ tool.scope \in Scopes
          /\ tool.plan \in PlanRecord \cup {None}
          /\ tool.issued \in Nat
          /\ tool.docs \subseteq Committed
          /\ tool.failed \in BOOLEAN
    /\ acknowledged \subseteq Committed

\* Only a process that gathered its own evidence acts (Open, Dispatch,
\* Complete, Verify, PutFence): an attempt appears or changes in a serving
\* process only under the worker's scenario or a user of the library.  The
\* commands dispatch, reconcile, complete, verify and fence, each in a process
\* of its own, never touch an attempt, whatever earlier processes left.
InheritedIsInert ==
    [][phase = "up" /\ attempts' # attempts =>
          tool.mode \in {"library", "scenario"}]_allVars

\* A command that reports success changed the store for good (CommandPolicy,
\* CommandIntent, CommandObserve, the worker's fixtures): however many
\* processes run, fail or die after it, and whatever records of theirs that
\* failed the next open finds on disk, each policy or intent it committed is in
\* force until a newer one is, and each observation is retained until the
\* bound evicts it.
ExitIsTruthful ==
    \A c \in acknowledged :
        LET sc == c.scope
            doc == c.doc
        IN  CASE c.kind = "policy" ->
                   doc = policy \/ doc.version < policy.version
              [] c.kind = "intent" ->
                   /\ intents[sc] # None
                   /\ \/ doc = intents[sc]
                      \/ doc.generation < intents[sc].generation
              [] c.kind = "observation" ->
                   \/ Len(observations[sc]) = MaxRetainedObservations
                   \/ \E o \in Retained(sc) :
                         doc = [id |-> o.id, reporter |-> o.reporter,
                                generation |-> o.generation]
=============================================================================

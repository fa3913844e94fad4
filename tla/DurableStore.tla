---------------------------- MODULE DurableStore ----------------------------
(***************************************************************************)
(* The durable store under the engine: one journal, one snapshot, and the  *)
(* process that appends to them (store.cpp, journal.cpp, snapshot.cpp).    *)
(* The tables are a state of a deterministic machine, Apply being          *)
(* ApplyPayload (module Engine has its body): replay, compaction and crash *)
(* must never be visible through it.                                       *)
(*                                                                         *)
(* Every file operation after which a kill leaves a different disk is a    *)
(* step of its own. The store lock lets one process at a time hold the     *)
(* store, so one set of process variables is enough.                       *)
(***************************************************************************)
EXTENDS Naturals, Sequences

CONSTANTS Records,        \* the mutations a caller may append
          States,         \* the states of the tables
          Empty,          \* the tables of a store just created
          Apply(_, _),    \* ApplyPayload: the tables after one more record
          Fits(_),        \* the limits ApplySnapshotPayload checks again
          MaxJournal,     \* max_journal_bytes, counted in records
          MaxSequence,    \* bound: no record is numbered higher
          None

ASSUME StoreAssumption ==
    /\ Empty \in States
    /\ \A s \in States : \A r \in Records : Apply(s, r) \in States
    /\ MaxJournal \in Nat /\ MaxSequence \in Nat

VARIABLES
    \* the disk
    journal,        \* header and records, as a reader would find them
    snapshot,       \* None, or the published tables and their watermark
    staging,        \* a staging file is left
    \* the process
    pc,             \* where it is in Open, Append or Compact
    state,          \* state_
    last_sequence,  \* journal_.last_sequence_, and state_.sequence
    next,           \* the record replay looks at next
    write_failed,   \* journal_.write_failed_
    file,           \* journal_.file_ is not null
    \* what callers were told
    history,        \* the tables after each acknowledged record
    doubt           \* the record whose append was reported failed, or None

disk == <<journal, snapshot, staging>>
told == <<history, doubt>>
process == <<pc, state, last_sequence, next, write_failed, file>>
vars == <<disk, process, told>>

(* The journal file: absent, shorter than its header ("short"), or readable:
   records numbered from base + 1, and perhaps an incomplete last one. *)
Journal == [kind : {"absent", "short", "ready"}, base : Nat,
            records : Seq(Records), torn : BOOLEAN]

Snapshot == [watermark : Nat, state : States]

ASSUME NoneAssumption ==
    None \notin States /\ None \notin Records /\ None \notin Snapshot

Without(kind) == [kind |-> kind, base |-> 0, records |-> <<>>, torn |-> FALSE]

Last(j) == j.base + Len(j.records)

Watermark == IF snapshot = None THEN 0 ELSE snapshot.watermark

\* The tables once n records were acknowledged.
StateAt(n) == IF n = 0 THEN Empty ELSE history[n]

-----------------------------------------------------------------------------
(* Open. The lock is the guard pc = "down". *)

\* No journal: fopen creates the file, its header follows (CreateHeader).
OpenCreates ==
    /\ pc = "down" /\ journal.kind = "absent"
    /\ journal' = Without("short")
    /\ staging' = FALSE
    /\ pc' = "creating"
    /\ UNCHANGED <<snapshot, state, last_sequence, next, write_failed, file,
                   told>>

CreateHeader ==
    /\ pc = "creating"
    /\ journal' = Without("ready")
    /\ pc' = "replaying"
    /\ state' = Empty /\ last_sequence' = 0 /\ next' = 1
    /\ UNCHANGED <<snapshot, staging, write_failed, file, told>>

\* What Open requires of the files before it replays anything.
Acceptable ==
    /\ journal.kind = "ready"
    /\ Len(journal.records) <= MaxJournal
    /\ snapshot # None => /\ snapshot.watermark <= Last(journal)
                          /\ Fits(snapshot.state)

\* Fault: without a snapshot the tables are left as they are.
LoadUninitialised(to) ==
    /\ pc = "down" /\ Acceptable
    /\ pc' = to
    /\ state' = IF snapshot = None THEN None ELSE snapshot.state
    /\ last_sequence' = Last(journal)
    /\ next' = 1
    /\ UNCHANGED <<snapshot, write_failed, file, told>>

\* The tables the snapshot carries; without one they start empty.
ApplySnapshotPayload == IF snapshot = None THEN Empty ELSE snapshot.state

\* The tables start from the snapshot; the journal's tail decides the sequence.
Load(to) ==
    /\ pc = "down" /\ Acceptable
    /\ pc' = to
    /\ state' = ApplySnapshotPayload
    /\ last_sequence' = Last(journal)
    /\ next' = 1
    /\ UNCHANGED <<snapshot, write_failed, file, told>>

\* A writer removes a staging file and cuts a torn tail off.
OpenLoads ==
    /\ Load("replaying")
    /\ journal' = [journal EXCEPT !.torn = FALSE]
    /\ staging' = FALSE

\* A read-only open writes nothing and refuses a torn tail.
OpenReadOnly ==
    /\ ~journal.torn
    /\ Load("reviewing")
    /\ UNCHANGED <<journal, staging>>

\* A refused open has already removed the staging file, and has cut the torn
\* tail if it is the snapshot that is refused.
OpenRefused ==
    /\ pc = "down" /\ journal.kind # "absent" /\ ~Acceptable
    /\ staging' = FALSE
    /\ journal' = IF /\ journal.kind = "ready"
                     /\ Len(journal.records) <= MaxJournal
                  THEN [journal EXCEPT !.torn = FALSE] ELSE journal
    /\ UNCHANGED <<snapshot, process, told>>

\* A record beyond the last acknowledged one is the doubtful one: it happened.
Replayed(s) ==
    /\ state' = s
    /\ IF journal.base + next > Len(history)
       THEN history' = Append(history, s) /\ doubt' = None
       ELSE UNCHANGED told

\* Fault: the record the snapshot ends with is applied again.
ReplayNextAgain ==
    /\ pc \in {"replaying", "reviewing"} /\ next <= Len(journal.records)
    /\ IF journal.base + next < Watermark
       THEN UNCHANGED <<state, told>>
       ELSE Replayed(Apply(state, journal.records[next]))
    /\ next' = next + 1
    /\ UNCHANGED <<disk, pc, last_sequence, write_failed, file>>

\* Fault: a record below the watermark is looked at forever.
ReplayNextStuck ==
    /\ pc \in {"replaying", "reviewing"} /\ next <= Len(journal.records)
    /\ IF journal.base + next <= Watermark
       THEN UNCHANGED <<state, next, told>>
       ELSE /\ Replayed(Apply(state, journal.records[next]))
            /\ next' = next + 1
    /\ UNCHANGED <<disk, pc, last_sequence, write_failed, file>>

ReplayNext ==
    /\ pc \in {"replaying", "reviewing"} /\ next <= Len(journal.records)
    /\ IF journal.base + next <= Watermark
       THEN UNCHANGED <<state, told>>
       ELSE Replayed(Apply(state, journal.records[next]))
    /\ next' = next + 1
    /\ UNCHANGED <<disk, pc, last_sequence, write_failed, file>>

\* A doubtful record that is not in the journal did not happen.
Opened ==
    /\ pc \in {"replaying", "reviewing"} /\ next > Len(journal.records)
    /\ pc' = IF pc = "replaying" THEN "open" ELSE "reading"
    /\ file' = TRUE /\ write_failed' = FALSE
    /\ doubt' = None
    /\ UNCHANGED <<disk, state, last_sequence, next, history>>

\* A crash at any point, or Close: the process's memory is gone.
Crash ==
    /\ pc # "down"
    /\ pc' = "down"
    /\ state' = Empty /\ last_sequence' = 0 /\ next' = 0
    /\ write_failed' = FALSE /\ file' = FALSE
    /\ UNCHANGED <<disk, told>>

-----------------------------------------------------------------------------
(* Append: write, flush, fsync, and only then change the tables. *)

Writable == pc = "open" /\ file /\ ~write_failed /\ last_sequence < MaxSequence

AppendAndApply(r) ==
    /\ Writable
    /\ journal' = [journal EXCEPT !.records = Append(@, r)]
    /\ last_sequence' = last_sequence + 1
    /\ state' = Apply(state, r)
    /\ history' = Append(history, state')
    /\ UNCHANGED <<snapshot, staging, pc, next, write_failed, file, doubt>>

\* A short write or a failed flush poisons the journal (write_failed_). Nothing,
\* part of the record or all of it is in the file.
AppendFails(r) ==
    /\ Writable
    /\ journal' \in {journal, [journal EXCEPT !.torn = TRUE],
                     [journal EXCEPT !.records = Append(@, r)]}
    /\ write_failed' = TRUE
    /\ doubt' = r
    /\ UNCHANGED <<snapshot, staging, pc, state, last_sequence, next, file,
                   history>>

-----------------------------------------------------------------------------
(* Compact: stage, rename over the snapshot, then Journal::Reset. It is not
   refused when an earlier append failed or the journal is closed. *)

Stage ==
    /\ pc = "open"
    /\ staging' = TRUE
    /\ pc' = "staged"
    /\ UNCHANGED <<journal, snapshot, state, last_sequence, next, write_failed,
                   file, told>>

\* A short write, a failed flush or a failed rename removes the staging file.
StageFails ==
    /\ pc = "staged"
    /\ staging' = FALSE
    /\ pc' = "open"
    /\ UNCHANGED <<journal, snapshot, state, last_sequence, next, write_failed,
                   file, told>>

Publish ==
    /\ pc = "staged"
    /\ snapshot' = [watermark |-> last_sequence, state |-> state]
    /\ staging' = FALSE
    /\ pc' = "published"
    /\ UNCHANGED <<journal, state, last_sequence, next, write_failed, file,
                   told>>

\* fopen(path, "wb+"): the old records go before the new header is written.
Truncate ==
    /\ pc = "published"
    /\ journal' = Without("short")
    /\ file' = TRUE
    /\ pc' = "truncated"
    /\ UNCHANGED <<snapshot, staging, state, last_sequence, next, write_failed,
                   told>>

\* Reset closed the journal first, so it stays closed.
TruncateFails ==
    /\ pc = "published"
    /\ file' = FALSE
    /\ pc' = "open"
    /\ UNCHANGED <<disk, state, last_sequence, next, write_failed, told>>

\* Fault: the emptied journal is numbered from one again.
ResetHeaderFromZero ==
    /\ pc = "truncated" /\ ~write_failed
    /\ journal' = Without("ready")
    /\ pc' = "open"
    /\ UNCHANGED <<snapshot, staging, state, last_sequence, next, write_failed,
                   file, told>>

ResetHeader ==
    /\ pc = "truncated" /\ ~write_failed
    /\ journal' = [Without("ready") EXCEPT !.base = last_sequence]
    /\ pc' = "open"
    /\ UNCHANGED <<snapshot, staging, state, last_sequence, next, write_failed,
                   file, told>>

\* A poisoned journal writes nothing. A short write poisons it; after a failed
\* flush the header may still have reached the file.
ResetHeaderFails ==
    /\ pc = "truncated"
    /\ \/ UNCHANGED journal /\ write_failed' = TRUE
       \/ /\ ~write_failed
          /\ journal' \in {journal,
                           [Without("ready") EXCEPT !.base = last_sequence]}
          /\ UNCHANGED write_failed
    /\ file' = FALSE
    /\ pc' = "open"
    /\ UNCHANGED <<snapshot, staging, state, last_sequence, next, told>>

-----------------------------------------------------------------------------
Init ==
    /\ journal = Without("absent") /\ snapshot = None /\ staging = FALSE
    /\ pc = "down" /\ state = Empty /\ last_sequence = 0 /\ next = 0
    /\ write_failed = FALSE /\ file = FALSE
    /\ history = <<>> /\ doubt = None

Opening == OpenCreates \/ CreateHeader \/ OpenLoads \/ ReplayNext \/ Opened

Compacting ==
    \/ Stage \/ StageFails \/ Publish \/ Truncate \/ TruncateFails
    \/ ResetHeader \/ ResetHeaderFails

Next ==
    \/ Opening \/ OpenReadOnly \/ OpenRefused \/ Crash
    \/ \E r \in Records : AppendAndApply(r) \/ AppendFails(r)
    \/ Compacting

Spec == Init /\ [][Next]_vars

\* Somebody restarts the process, and Open runs to its end.
LiveSpec == Spec /\ WF_vars(Opening)

-----------------------------------------------------------------------------
(* Properties *)

\* A handle to the store exists: its tables can be read.
InService == pc \in {"open", "reading", "staged", "published", "truncated"}

\* Files and process memory have their types; the tables are always a state of
\* the machine, also while Open is rebuilding them (DurableStore::Open).
TypeOK ==
    /\ journal \in Journal
    /\ snapshot = None \/ snapshot \in Snapshot
    /\ staging \in BOOLEAN
    /\ pc \in {"down", "creating", "replaying", "reviewing", "open", "reading",
               "staged", "published", "truncated"}
    /\ state \in States
    /\ last_sequence \in Nat /\ next \in Nat
    /\ pc \in {"replaying", "reviewing"} => next >= 1
    /\ write_failed \in BOOLEAN /\ file \in BOOLEAN
    /\ history \in Seq(States)
    /\ doubt = None \/ doubt \in Records

\* The store behaves as AtomicStore says, whatever is killed or fails wherever:
\* what Open rebuilds from snapshot and journal is what was acknowledged.
Atomic == INSTANCE AtomicStore WITH
    durable <- StateAt(Len(history)),
    visible <- IF InService THEN state ELSE None

Implements == Atomic!Spec

\* Everything acknowledged is on the disk at every moment, Compact included:
\* the snapshot is a state the store was in, and what lies between it and the
\* last acknowledged record is in the journal. So the SnapshotAheadOfJournal
\* check of DurableStore::Open never refuses files this code wrote, and the gap
\* between watermark and journal it does not look for is never there.
NothingAcknowledgedIsLost ==
    /\ snapshot # None => /\ snapshot.watermark <= Len(history)
                          /\ snapshot.state = StateAt(snapshot.watermark)
    /\ IF journal.kind = "ready"
       THEN journal.base <= Watermark /\ Last(journal) >= Len(history)
       ELSE Watermark = Len(history)

\* A journal that has its header is opened again, once the process is no longer
\* killed: a torn tail, a left staging file or a half finished Compact does not
\* keep it closed.
Reopens ==
    <>[][~Crash]_vars =>
        (pc = "down" /\ Acceptable ~> pc \in {"open", "reading"})

\* store.hpp: "a crash can only lose a mutation that was never acknowledged".
CrashLosesNothing ==
    pc = "down" /\ history # <<>> => Acceptable
=============================================================================

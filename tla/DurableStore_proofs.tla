------------------------ MODULE DurableStore_proofs ------------------------
(***************************************************************************)
(* Proofs about DurableStore: types, the accounting of every acknowledged  *)
(* record on the disk, and that the store implements AtomicStore.          *)
(***************************************************************************)
EXTENDS DurableStore, SequenceTheorems, TLAPS

-----------------------------------------------------------------------------
(* Facts about sequences and the history. *)

LEMMA Extends ==
    ASSUME NEW S, NEW s \in Seq(S), NEW x \in S
    PROVE  /\ Append(s, x) \in Seq(S)
           /\ Len(s) \in Nat
           /\ Len(Append(s, x)) = Len(s) + 1
           /\ \A n \in 1 .. Len(s) : Append(s, x)[n] = s[n]
           /\ Append(s, x)[Len(s) + 1] = x
OBVIOUS

\* Every entry of the history is a state.
LEMMA StateAtType ==
    ASSUME TypeOK, NEW n \in 0 .. Len(history)
    PROVE  StateAt(n) \in States
<1>1. n # 0 => n \in 1 .. Len(history)
  BY DEF TypeOK
<1> QED
  BY <1>1, StoreAssumption DEF TypeOK, StateAt

\* One more acknowledged record leaves the earlier states as they were.
LEMMA HistoryGrows ==
    ASSUME TypeOK, NEW s \in States, history' = Append(history, s)
    PROVE  /\ Len(history) \in Nat
           /\ Len(history)' = Len(history) + 1
           /\ \A n \in 0 .. Len(history) : StateAt(n)' = StateAt(n)
           /\ StateAt(Len(history))' = s
<1>1. history \in Seq(States)
  BY Zenon DEF TypeOK
<1>2. /\ Len(history) \in Nat /\ Len(history') = Len(history) + 1
      /\ \A n \in 1 .. Len(history) : history'[n] = history[n]
      /\ history'[Len(history) + 1] = s
  BY <1>1, Extends
<1> QED
  BY <1>2 DEF StateAt

-----------------------------------------------------------------------------
(* Types. *)

LEMMA WithoutType ==
    ASSUME NEW kind \in {"absent", "short", "ready"}, NEW base \in Nat
    PROVE  /\ Without(kind) \in Journal
           /\ [Without(kind) EXCEPT !.base = base] \in Journal
<1>1. <<>> \in Seq(Records)
  OBVIOUS
<1> QED
  BY Zenon, <1>1 DEF Without, Journal

LEMMA LastType ==
    ASSUME NEW j \in Journal
    PROVE  Last(j) \in Nat /\ Len(j.records) \in Nat /\ j.base \in Nat
           /\ j.records \in Seq(Records)
BY DEF Journal, Last

LEMMA TypeStep ==
    ASSUME TypeOK, [Next]_vars
    PROVE  TypeOK'
<1>1. CASE OpenCreates
  BY Zenon, <1>1, WithoutType DEF OpenCreates, TypeOK, told
<1>2. CASE CreateHeader
  <2>1. journal' \in Journal /\ state' \in States
    BY Zenon, <1>2, WithoutType, StoreAssumption DEF CreateHeader
  <2>2. last_sequence' \in Nat /\ next' \in Nat /\ next' >= 1
    BY <1>2 DEF CreateHeader
  <2> QED
    BY <1>2, <2>1, <2>2, Zenon DEF CreateHeader, TypeOK, told
<1>3. ASSUME NEW to \in {"replaying", "reviewing"}, Load(to)
      PROVE  /\ pc' = to /\ state' \in States /\ last_sequence' \in Nat
             /\ next' \in Nat /\ next' >= 1
             /\ UNCHANGED <<snapshot, write_failed, file, history, doubt>>
  <2>1. last_sequence' \in Nat
    BY <1>3, LastType DEF Load, TypeOK
  <2>2. state' \in States
    BY <1>3, StoreAssumption
        DEF Load, ApplySnapshotPayload, TypeOK, Snapshot
  <2> QED
    BY <1>3, <2>1, <2>2 DEF Load, told
<1>4. CASE OpenLoads
  <2>1. journal' \in Journal
    BY Zenon, <1>4 DEF OpenLoads, TypeOK, Journal
  <2> QED
    BY <1>3, <1>4, <2>1, Zenon DEF OpenLoads, TypeOK
<1>5. CASE OpenReadOnly
  BY <1>3, <1>5 DEF OpenReadOnly, TypeOK
<1>6. CASE OpenRefused
  <2>1. journal' \in Journal
    BY Zenon, <1>6 DEF OpenRefused, TypeOK, Journal
  <2> QED
    BY Zenon, <1>6, <2>1 DEF OpenRefused, TypeOK, process, told
<1>7. CASE ReplayNext
  <2>1. next' \in Nat /\ next' >= 1
        /\ UNCHANGED <<disk, pc, last_sequence, write_failed, file>>
    BY <1>7 DEF ReplayNext, TypeOK
  <2>2. CASE journal.base + next <= Watermark
    BY <1>7, <2>1, <2>2 DEF ReplayNext, TypeOK, told, disk
  <2>3. CASE ~(journal.base + next <= Watermark)
    <3> DEFINE s == Apply(state, journal.records[next])
    <3>1. journal.records[next] \in Records
      BY <1>7, LastType DEF ReplayNext, TypeOK
    <3>2. s \in States
      BY <3>1, StoreAssumption DEF TypeOK
    <3>3. Replayed(s)
      BY <1>7, <2>3 DEF ReplayNext
    <3> HIDE DEF s
    <3>4. state' \in States /\ history' \in Seq(States)
          /\ (doubt' = None \/ doubt' = doubt)
      BY Zenon, <3>2, <3>3, Extends DEF Replayed, TypeOK, told
    <3> QED
      BY <2>1, <3>4 DEF TypeOK, disk
  <2> QED
    BY <2>2, <2>3
<1>8. CASE Opened
  BY Zenon, <1>8 DEF Opened, TypeOK, disk
<1>9. CASE Crash
  BY Zenon, <1>9, StoreAssumption DEF Crash, TypeOK, disk, told
<1>10. ASSUME NEW r \in Records, AppendAndApply(r) PROVE TypeOK'
  <2>1. state' \in States
    BY <1>10, StoreAssumption DEF AppendAndApply, TypeOK
  <2>2. history' \in Seq(States)
    BY <1>10, <2>1, Extends DEF AppendAndApply, TypeOK
  <2>3. journal' \in Journal
    BY Zenon, <1>10, LastType, Extends DEF AppendAndApply, TypeOK, Journal
  <2> QED
    BY <1>10, <2>1, <2>2, <2>3 DEF AppendAndApply, TypeOK
<1>11. ASSUME NEW r \in Records, AppendFails(r) PROVE TypeOK'
  <2>1. [journal EXCEPT !.torn = TRUE] \in Journal
    BY Zenon DEF TypeOK, Journal
  <2>2. [journal EXCEPT !.records = Append(@, r)] \in Journal
    BY Zenon, LastType, Extends DEF TypeOK, Journal
  <2>3. journal' \in Journal
    BY <1>11, <2>1, <2>2, Zenon DEF AppendFails, TypeOK
  <2> QED
    BY <1>11, <2>3 DEF AppendFails, TypeOK
<1>12. CASE Stage \/ StageFails
  BY Zenon, <1>12 DEF Stage, StageFails, TypeOK, told
<1>13. CASE Publish
  BY Zenon, <1>13 DEF Publish, TypeOK, told, Snapshot
<1>14. CASE Truncate \/ TruncateFails
  BY Zenon, <1>14, WithoutType DEF Truncate, TruncateFails, TypeOK, told, disk
<1>15. CASE ResetHeader \/ ResetHeaderFails
  <2>1. journal' \in Journal
    BY <1>15, WithoutType DEF ResetHeader, ResetHeaderFails, TypeOK
  <2>2. write_failed' \in BOOLEAN
    BY Zenon, <1>15 DEF ResetHeader, ResetHeaderFails, TypeOK
  <2> QED
    BY Zenon, <1>15, <2>1, <2>2 DEF ResetHeader, ResetHeaderFails, TypeOK, told
<1>16. CASE UNCHANGED vars
  BY <1>16 DEF vars, disk, process, told, TypeOK
<1> QED
  BY <1>1, <1>2, <1>4, <1>5, <1>6, <1>7, <1>8, <1>9, <1>10, <1>11, <1>12, <1>13,
     <1>14, <1>15, <1>16 DEF Next, Opening, Compacting

LEMMA InitTyped ==
    ASSUME Init
    PROVE  TypeOK
<1>1. <<>> \in Seq(States)
  OBVIOUS
<1>2. journal \in Journal /\ state \in States
  BY Zenon, WithoutType, StoreAssumption DEF Init
<1>3. /\ last_sequence \in Nat /\ next \in Nat
      /\ ~(pc \in {"replaying", "reviewing"})
  BY DEF Init
<1> QED
  BY <1>1, <1>2, <1>3, Zenon DEF Init, TypeOK

\* Every variable of the store keeps its type.
THEOREM StoreTypeCorrect == Spec => []TypeOK
BY InitTyped, TypeStep, PTL DEF Spec

-----------------------------------------------------------------------------
(* The inductive invariant. *)

\* How far replay has brought the tables.
Reached == IF journal.base + next - 1 < Watermark THEN Watermark
           ELSE journal.base + next - 1

\* A record of the journal that was acknowledged made the state it is said to
\* have made; one that was not is the doubtful one, and the last.
Consistent(j) ==
    /\ Last(j) <= Len(history) + 1
    /\ Last(j) = Len(history) + 1 =>
         doubt # None /\ j.records # <<>> /\ j.records[Len(j.records)] = doubt
    /\ \A n \in 1 .. Len(j.records) :
         j.base + n <= Len(history) =>
            StateAt(j.base + n) = Apply(StateAt(j.base + n - 1), j.records[n])

DiskInv ==
    /\ NothingAcknowledgedIsLost
    /\ journal.kind = "ready" => Consistent(journal)
    /\ journal.kind = "absent" =>
         snapshot = None /\ history = <<>> /\ doubt = None

ProcessInv ==
    /\ pc = "creating" => /\ journal.kind = "short" /\ snapshot = None
                          /\ history = <<>> /\ doubt = None
    /\ pc \in {"replaying", "reviewing"} =>
         /\ journal.kind = "ready"
         /\ next <= Len(journal.records) + 1
         /\ last_sequence = Last(journal)
         /\ journal.base + next - 1 <= Len(history)
         /\ state = StateAt(Reached)
    /\ InService => /\ journal.kind # "absent"
                    /\ state = StateAt(Len(history))
                    /\ last_sequence = Len(history)
                    /\ ~write_failed => doubt = None
    /\ pc \in {"open", "staged", "published"} /\ file /\ ~write_failed =>
         journal.kind = "ready" /\ Last(journal) = Len(history)
    /\ pc \in {"published", "truncated"} =>
         snapshot # None /\ snapshot.watermark = Len(history)
    /\ pc = "truncated" => journal.kind = "short"

IInv == TypeOK /\ DiskInv /\ ProcessInv

\* The numbers the invariant compares.
LEMMA Numbers ==
    ASSUME TypeOK
    PROVE  /\ Len(history) \in Nat /\ Watermark \in Nat /\ next \in Nat
           /\ journal.base \in Nat /\ Len(journal.records) \in Nat
           /\ Last(journal) = journal.base + Len(journal.records)
           /\ last_sequence \in Nat
BY LastType DEF TypeOK, Watermark, Snapshot, Last

\* What leaves the files and the history alone keeps the disk accounted for.
LEMMA DiskStays ==
    ASSUME DiskInv, UNCHANGED <<journal, snapshot, history, doubt>>
    PROVE  DiskInv'
BY Zenon
   DEF DiskInv, NothingAcknowledgedIsLost, Consistent, StateAt, Watermark, Last

\* So does cutting a torn tail off.
LEMMA DiskStaysCut ==
    ASSUME TypeOK, DiskInv, journal' = [journal EXCEPT !.torn = FALSE],
           UNCHANGED <<snapshot, history, doubt>>
    PROVE  DiskInv' /\ Last(journal)' = Last(journal)
<1>1. /\ journal'.kind = journal.kind /\ journal'.base = journal.base
      /\ journal'.records = journal.records
  BY DEF TypeOK, Journal
<1> QED
  BY <1>1, Zenon DEF DiskInv, NothingAcknowledgedIsLost, Consistent, StateAt,
                     Watermark, Last

\* OpenCreates and CreateHeader.
LEMMA KeptByCreate ==
    ASSUME IInv, OpenCreates \/ CreateHeader
    PROVE  DiskInv' /\ ProcessInv'
<1>1. /\ snapshot = None /\ history = <<>> /\ doubt = None
      /\ UNCHANGED <<snapshot, history, doubt>>
  BY DEF IInv, DiskInv, ProcessInv, OpenCreates, CreateHeader, told
<1>2. CASE OpenCreates
  <2>1. journal'.kind = "short" /\ pc' = "creating"
    BY <1>2 DEF OpenCreates, Without
  <2>2. DiskInv'
    BY <1>1, <2>1 DEF DiskInv, NothingAcknowledgedIsLost, Watermark
  <2> QED
    BY <1>1, <2>1, <2>2 DEF ProcessInv, InService
<1>3. CASE CreateHeader
  <2>1. /\ journal'.kind = "ready" /\ journal'.base = 0 /\ journal'.records = <<>>
        /\ pc' = "replaying" /\ next' = 1 /\ last_sequence' = 0 /\ state' = Empty
    BY <1>3 DEF CreateHeader, Without
  <2>2. Last(journal)' = 0 /\ Watermark' = 0 /\ Len(history') = 0 /\ Reached' = 0
    BY <1>1, <2>1 DEF Last, Watermark, Reached
  <2>3. DiskInv'
    BY <1>1, <2>1, <2>2 DEF DiskInv, NothingAcknowledgedIsLost, Consistent
  <2> QED
    BY <1>1, <2>1, <2>2, <2>3 DEF ProcessInv, InService, StateAt
<1> QED
  BY <1>2, <1>3

\* OpenLoads and OpenReadOnly.
LEMMA KeptByLoad ==
    ASSUME IInv, OpenLoads \/ OpenReadOnly
    PROVE  DiskInv' /\ ProcessInv'
<1>1. /\ DiskInv' /\ Last(journal)' = Last(journal)
      /\ journal'.kind = journal.kind /\ journal'.base = journal.base
      /\ journal'.records = journal.records
      /\ UNCHANGED <<snapshot, history, doubt>>
  <2>1. CASE OpenLoads
    BY <2>1, DiskStaysCut DEF IInv, OpenLoads, Load, told, TypeOK, Journal
  <2>2. CASE OpenReadOnly
    BY <2>2, DiskStays DEF IInv, OpenReadOnly, Load, told
  <2> QED
    BY <2>1, <2>2
<1>2. /\ journal.kind = "ready" /\ pc' \in {"replaying", "reviewing"} /\ next' = 1
      /\ last_sequence' = Last(journal)
      /\ state' = IF snapshot = None THEN Empty ELSE snapshot.state
  BY DEF OpenLoads, OpenReadOnly, Load, ApplySnapshotPayload, Acceptable
<1>3. journal.base <= Watermark /\ Watermark <= Len(history)
      /\ state' = StateAt(Watermark)
  BY <1>2, Numbers
     DEF IInv, DiskInv, NothingAcknowledgedIsLost, Watermark, StateAt
<1>4. Reached' = Watermark /\ StateAt(Watermark)' = StateAt(Watermark)
  BY <1>1, <1>2, <1>3, Numbers DEF IInv, Reached, Watermark, StateAt
<1>5. StateAt(Reached)' = StateAt(Watermark)
  BY <1>1, <1>4 DEF StateAt
<1> QED
  BY <1>1, <1>2, <1>3, <1>5, Numbers DEF IInv, ProcessInv, InService

\* OpenRefused.
LEMMA KeptByRefused ==
    ASSUME IInv, OpenRefused
    PROVE  DiskInv' /\ ProcessInv'
<1>1. DiskInv'
  <2>1. CASE journal' = journal
    BY <2>1, DiskStays DEF IInv, OpenRefused, told
  <2>2. CASE journal' = [journal EXCEPT !.torn = FALSE]
    BY Zenon, <2>2, DiskStaysCut DEF IInv, OpenRefused, told
  <2> QED
    BY <2>1, <2>2 DEF OpenRefused
<1>2. pc' = "down"
  BY DEF OpenRefused, process
<1> QED
  BY <1>1, <1>2 DEF ProcessInv, InService

\* Crash.
LEMMA KeptByCrash ==
    ASSUME IInv, Crash
    PROVE  DiskInv' /\ ProcessInv'
<1>1. DiskInv' /\ pc' = "down"
  BY DiskStays DEF IInv, Crash, disk, told
<1> QED
  BY <1>1 DEF ProcessInv, InService

\* Where replay stands when it looks at a record: everything before it is in
\* the tables.
LEMMA ReplayStands ==
    ASSUME IInv, ReplayNext
    PROVE  /\ journal.kind = "ready" /\ pc \in {"replaying", "reviewing"}
           /\ next \in 1 .. Len(journal.records)
           /\ next' = next + 1
           /\ UNCHANGED <<disk, pc, last_sequence, write_failed, file>>
           /\ last_sequence = Last(journal)
           /\ journal.base + next - 1 <= Len(history)
           /\ Watermark <= Len(history)
           /\ state = StateAt(Reached)
           /\ Consistent(journal)
<1>1. /\ journal.kind = "ready" /\ pc \in {"replaying", "reviewing"}
      /\ UNCHANGED <<disk, pc, last_sequence, write_failed, file>>
      /\ last_sequence = Last(journal) /\ state = StateAt(Reached)
      /\ Consistent(journal)
  BY Zenon DEF IInv, ProcessInv, DiskInv, ReplayNext
<1>2. /\ next \in 1 .. Len(journal.records) /\ next' = next + 1
      /\ journal.base + next - 1 <= Len(history)
  BY <1>1, Numbers DEF IInv, TypeOK, ProcessInv, ReplayNext
<1>3. Watermark <= Len(history)
  BY Numbers DEF IInv, DiskInv, NothingAcknowledgedIsLost, Watermark
<1> QED
  BY <1>1, <1>2, <1>3, Zenon

\* A record that is not beyond the history: the tables move along it.
LEMMA KeptByReplayKnown ==
    ASSUME IInv, ReplayNext, journal.base + next <= Len(history)
    PROVE  DiskInv' /\ ProcessInv' /\ UNCHANGED told
<1>1. UNCHANGED told
  BY Numbers DEF ReplayNext, Replayed, IInv
<1>2. UNCHANGED <<journal, snapshot, history, doubt, pc, last_sequence>>
  BY <1>1, ReplayStands DEF told, disk
<1>3. DiskInv'
  BY <1>2, DiskStays DEF IInv
<1>4. next' <= Len(journal.records) + 1 /\ journal.base + next' - 1 <= Len(history)
  BY SMTT(60), ReplayStands, Numbers DEF IInv
<1> DEFINE b == journal.base
<1>4a. next' = next + 1 /\ next \in Nat /\ Watermark \in Nat /\ b \in Nat
  BY ReplayStands, Numbers DEF IInv
<1>4b. Watermark' = Watermark /\ journal' = journal
  BY <1>2 DEF Watermark
<1>5. state' = StateAt(Reached')
  <2>1. CASE b + next <= Watermark
    <3>1. Reached = Watermark /\ Reached' = Watermark
      BY SMTT(60), <1>4a, <1>4b, <2>1 DEF Reached
    <3>2. state' = state
      BY <2>1 DEF ReplayNext
    <3> QED
      BY <3>1, <3>2, ReplayStands
  <2>2. CASE ~(b + next <= Watermark)
    <3>1. Reached = b + next - 1 /\ Reached' = b + next
      BY <1>4a, <1>4b, <2>2 DEF Reached
    <3>2. state' = Apply(StateAt(b + next - 1), journal.records[next])
      BY <2>2, <3>1, ReplayStands DEF ReplayNext, Replayed
    <3>3. StateAt(b + next) = Apply(StateAt(b + next - 1), journal.records[next])
      BY ReplayStands DEF Consistent
    <3> QED
      BY <3>1, <3>2, <3>3
  <2> QED
    BY <2>1, <2>2
<1>6. state' = StateAt(Reached)'
  BY <1>2, <1>5 DEF StateAt
<1>7. Last(journal)' = Last(journal)
  BY <1>2 DEF Last
<1> QED
  BY <1>1, <1>2, <1>3, <1>4, <1>6, <1>7, ReplayStands DEF ProcessInv, InService

\* The record beyond the history is the doubtful one, and the last.
LEMMA ReplayDoubt ==
    ASSUME IInv, ReplayNext, ~(journal.base + next <= Len(history))
    PROVE  /\ journal.base + next = Len(history) + 1
           /\ next = Len(journal.records) /\ Last(journal) = Len(history) + 1
           /\ Reached = Len(history) /\ state = StateAt(Len(history))
           /\ doubt # None /\ journal.records[next] = doubt
           /\ state' = Apply(StateAt(Len(history)), doubt)
           /\ state' \in States
           /\ history' = Append(history, state') /\ doubt' = None
<1>1. /\ journal.base + next = Len(history) + 1
      /\ next = Len(journal.records) /\ Last(journal) = Len(history) + 1
  <2>1. /\ next \in 1 .. Len(journal.records)
        /\ journal.base + next - 1 <= Len(history)
    BY ReplayStands, Zenon
  <2>2. Last(journal) <= Len(history) + 1
    BY ReplayStands, Zenon DEF Consistent
  <2>3. /\ Len(history) \in Nat /\ journal.base \in Nat
        /\ Len(journal.records) \in Nat
        /\ Last(journal) = journal.base + Len(journal.records)
    BY Numbers, Zenon DEF IInv
  <2> QED
    BY SMTT(60), <2>1, <2>2, <2>3
<1>2. Reached = Len(history)
  <2>1. Watermark <= Len(history)
    BY ReplayStands, Zenon
  <2>2. /\ Watermark \in Nat /\ Len(history) \in Nat
        /\ journal.base \in Nat /\ next \in Nat
    BY Numbers, Zenon DEF IInv
  <2> QED
    BY SMTT(60), <1>1, <2>1, <2>2 DEF Reached
<1>3. state = StateAt(Len(history)) /\ doubt # None
      /\ journal.records[next] = doubt
  BY <1>1, <1>2, ReplayStands DEF Consistent
<1>4. Replayed(Apply(state, journal.records[next]))
  BY <1>1, ReplayStands, Numbers DEF IInv, ReplayNext
<1>5. /\ state' = Apply(StateAt(Len(history)), doubt)
      /\ history' = Append(history, state') /\ doubt' = None
  BY <1>1, <1>3, <1>4, Numbers DEF IInv, Replayed
<1>6. state' \in States
  BY TypeStep DEF IInv, TypeOK, Next, Opening
<1> QED
  BY <1>1, <1>2, <1>3, <1>5, <1>6, Zenon

LEMMA KeptByReplayDoubt ==
    ASSUME IInv, ReplayNext, ~(journal.base + next <= Len(history))
    PROVE  DiskInv' /\ ProcessInv'
<1>1. UNCHANGED <<journal, snapshot, pc, last_sequence>>
  BY ReplayStands DEF disk
<1>2. /\ Len(history) \in Nat /\ Len(history') = Len(history) + 1
      /\ \A n \in 0 .. Len(history) : StateAt(n)' = StateAt(n)
      /\ StateAt(Len(history))' = state'
  BY ReplayDoubt, HistoryGrows DEF IInv
<1>3. Last(journal)' = Last(journal) /\ Watermark' = Watermark
  BY <1>1 DEF Last, Watermark
<1>4. NothingAcknowledgedIsLost'
  <2>1. snapshot # None => /\ snapshot.watermark \in 0 .. Len(history)
                           /\ snapshot.state = StateAt(snapshot.watermark)
    BY Numbers DEF IInv, DiskInv, NothingAcknowledgedIsLost, Watermark
  <2>2. snapshot' # None =>
          /\ snapshot'.watermark <= Len(history')
          /\ snapshot'.state = StateAt(snapshot.watermark)'
    BY <1>1, <1>2, <2>1 DEF StateAt
  <2>3. journal.base <= Watermark /\ Last(journal) >= Len(history')
    BY <1>2, ReplayStands, ReplayDoubt
       DEF IInv, DiskInv, NothingAcknowledgedIsLost
  <2> QED
    BY <1>1, <1>3, <2>2, <2>3, ReplayStands DEF NothingAcknowledgedIsLost
<1>5. Consistent(journal)'
  <2>1. ASSUME NEW n \in 1 .. Len(journal.records)
        PROVE  StateAt(journal.base + n)' =
                 Apply(StateAt(journal.base + n - 1)', journal.records[n])
    <3>1. CASE n = Len(journal.records)
      <4>1. journal.base + n = Len(history') /\ journal.base + n - 1 = Len(history)
        BY SMTT(60), <1>2, <3>1, ReplayDoubt, Numbers DEF IInv
      <4>2. StateAt(journal.base + n)' = StateAt(Len(history))'
        BY <1>1, <4>1 DEF StateAt
      <4>3. StateAt(journal.base + n - 1)' = StateAt(Len(history))
        BY <1>1, <1>2, <4>1 DEF StateAt
      <4> QED
        BY Zenon, <1>2, <3>1, <4>2, <4>3, ReplayDoubt
    <3>2. CASE n # Len(journal.records)
      <4>0. /\ Len(history) \in Nat /\ journal.base \in Nat
            /\ Len(journal.records) \in Nat
            /\ journal.base + Len(journal.records) = Len(history) + 1
        BY ReplayDoubt, Numbers DEF IInv
      <4>1. /\ journal.base + n \in 0 .. Len(history)
            /\ journal.base + n - 1 \in 0 .. Len(history)
            /\ journal.base + n <= Len(history)
        BY SMTT(60), <3>2, <4>0
      <4>2. /\ StateAt(journal.base + n)' = StateAt(journal.base + n)
            /\ StateAt(journal.base + n - 1)' = StateAt(journal.base + n - 1)
        BY <1>1, <1>2, <4>1 DEF StateAt
      <4> QED
        BY Zenon, <4>1, <4>2, ReplayStands DEF Consistent
    <3> QED
      BY <3>1, <3>2
  <2>2. Last(journal)' = Len(history')
    BY <1>2, <1>3, ReplayDoubt
  <2> QED
    BY <1>1, <1>2, <2>1, <2>2 DEF Consistent
<1>6. state' = StateAt(Reached)'
  <2>1. Reached' = Len(history')
    BY <1>1, <1>2, <1>3, ReplayDoubt, ReplayStands, Numbers DEF IInv, Reached
  <2> QED
    BY <1>2, <2>1 DEF StateAt
<1>7. DiskInv'
  BY <1>1, <1>4, <1>5, ReplayStands DEF DiskInv
<1>8. next' = Len(journal.records) + 1 /\ journal.base + next' - 1 = Len(history')
  BY SMTT(60), <1>2, ReplayStands, ReplayDoubt, Numbers DEF IInv
<1> QED
  BY SMTT(60), <1>1, <1>2, <1>3, <1>6, <1>7, <1>8, ReplayStands, Numbers
     DEF IInv, ProcessInv, InService

\* When replay is over the tables are those of the last acknowledged record.
LEMMA OpenedStands ==
    ASSUME IInv, Opened
    PROVE  /\ state = StateAt(Len(history)) /\ last_sequence = Len(history)
           /\ journal.kind = "ready" /\ Last(journal) = Len(history)
<1>1. /\ journal.kind = "ready" /\ next > Len(journal.records)
      /\ next <= Len(journal.records) + 1 /\ last_sequence = Last(journal)
      /\ journal.base + next - 1 <= Len(history) /\ state = StateAt(Reached)
  BY DEF IInv, ProcessInv, Opened
<1>2. Last(journal) >= Len(history) /\ Watermark <= Len(history)
  BY <1>1, Numbers DEF IInv, DiskInv, NothingAcknowledgedIsLost, Watermark
<1>3. Last(journal) = Len(history) /\ Reached = Len(history)
  BY <1>1, <1>2, Numbers DEF IInv, Reached
<1> QED
  BY <1>1, <1>3

LEMMA KeptByOpened ==
    ASSUME IInv, Opened
    PROVE  DiskInv' /\ ProcessInv'
<1>1. UNCHANGED <<journal, snapshot, history, state, last_sequence>> /\ doubt' = None
      /\ pc' \in {"open", "reading"}
  BY DEF Opened, disk
<1>2. Last(journal)' = Last(journal) /\ StateAt(Len(history))' = StateAt(Len(history))
  BY <1>1 DEF Last, StateAt
<1>3. DiskInv'
  <2>1. NothingAcknowledgedIsLost'
    BY <1>1, Zenon
       DEF IInv, DiskInv, NothingAcknowledgedIsLost, StateAt, Watermark, Last
  <2>2. Last(journal) # Len(history) + 1
    BY OpenedStands, Numbers DEF IInv
  <2>3. Consistent(journal)
    BY OpenedStands DEF IInv, DiskInv
  <2>4. Consistent(journal)'
    BY <1>1, <1>2, <2>2, <2>3, Zenon DEF Consistent, StateAt
  <2> QED
    BY <1>1, <2>1, <2>4, OpenedStands DEF DiskInv
<1> QED
  BY <1>1, <1>2, <1>3, OpenedStands DEF ProcessInv, InService

\* What an append starts from.
LEMMA WritableStands ==
    ASSUME IInv, Writable
    PROVE  /\ state = StateAt(Len(history)) /\ last_sequence = Len(history)
           /\ journal.kind = "ready" /\ Last(journal) = Len(history)
           /\ doubt = None /\ Consistent(journal)
           /\ journal.base <= Watermark /\ Watermark <= Len(history)
<1>1. /\ state = StateAt(Len(history)) /\ last_sequence = Len(history)
      /\ journal.kind = "ready" /\ Last(journal) = Len(history)
      /\ doubt = None
  BY Zenon DEF IInv, ProcessInv, Writable, InService
<1> QED
  BY <1>1, Numbers DEF IInv, DiskInv, NothingAcknowledgedIsLost, Watermark

\* A record at the end of the journal.
LEMMA JournalGrows ==
    ASSUME TypeOK, NEW r \in Records,
           journal' = [journal EXCEPT !.records = Append(@, r)]
    PROVE  /\ journal'.kind = journal.kind /\ journal'.base = journal.base
           /\ Len(journal'.records) = Len(journal.records) + 1
           /\ \A n \in 1 .. Len(journal.records) :
                 journal'.records[n] = journal.records[n]
           /\ journal'.records[Len(journal'.records)] = r
           /\ journal'.records # <<>>
           /\ Last(journal)' = Last(journal) + 1
<1>1. journal \in Journal
  BY Zenon DEF TypeOK
<1>2. /\ journal'.kind = journal.kind /\ journal'.base = journal.base
      /\ journal'.records = Append(journal.records, r)
  BY <1>1 DEF Journal
<1>3. journal.records \in Seq(Records) /\ journal.base \in Nat
  BY <1>1, LastType
<1>4. /\ Len(journal.records) \in Nat
      /\ Len(journal'.records) = Len(journal.records) + 1
      /\ \A n \in 1 .. Len(journal.records) :
            journal'.records[n] = journal.records[n]
      /\ journal'.records[Len(journal.records) + 1] = r
  BY <1>2, <1>3, Extends
<1>5. journal'.records # <<>>
  BY <1>4
<1> QED
  BY <1>2, <1>3, <1>4, <1>5 DEF Last

LEMMA KeptByAppend ==
    ASSUME IInv, NEW r \in Records, AppendAndApply(r)
    PROVE  DiskInv' /\ ProcessInv'
<1> USE WritableStands
<1>1. /\ Writable /\ UNCHANGED <<snapshot, pc, write_failed, file, doubt>>
      /\ journal' = [journal EXCEPT !.records = Append(@, r)]
      /\ last_sequence' = last_sequence + 1
      /\ state' = Apply(state, r) /\ history' = Append(history, state')
  BY DEF AppendAndApply
<1>2. /\ journal'.kind = journal.kind /\ journal'.base = journal.base
      /\ Len(journal'.records) = Len(journal.records) + 1
      /\ \A n \in 1 .. Len(journal.records) :
            journal'.records[n] = journal.records[n]
      /\ journal'.records[Len(journal'.records)] = r
      /\ Last(journal)' = Last(journal) + 1
  BY Zenon, <1>1, JournalGrows DEF IInv
<1>3. state' \in States
  BY <1>1, StoreAssumption DEF IInv, TypeOK
<1>4. /\ Len(history) \in Nat /\ Len(history') = Len(history) + 1
      /\ \A n \in 0 .. Len(history) : StateAt(n)' = StateAt(n)
      /\ StateAt(Len(history))' = state'
  BY <1>1, <1>3, HistoryGrows DEF IInv
<1>5. NothingAcknowledgedIsLost'
  <2>1. snapshot # None => /\ snapshot.watermark \in 0 .. Len(history)
                           /\ snapshot.state = StateAt(snapshot.watermark)
    BY Numbers DEF IInv, DiskInv, NothingAcknowledgedIsLost, Watermark
  <2>2. snapshot' # None =>
          /\ snapshot'.watermark <= Len(history')
          /\ snapshot'.state = StateAt(snapshot.watermark)'
    BY <1>1, <1>4, <2>1 DEF StateAt
  <2>3. journal'.base <= Watermark /\ Last(journal)' >= Len(history')
        /\ Watermark' = Watermark /\ journal'.kind = "ready"
    BY <1>1, <1>2, <1>4 DEF Watermark
  <2> QED
    BY <1>1, <2>2, <2>3 DEF NothingAcknowledgedIsLost
<1>6. Consistent(journal)'
  <2>1. ASSUME NEW n \in 1 .. Len(journal'.records)
        PROVE  StateAt(journal.base + n)' =
                 Apply(StateAt(journal.base + n - 1)', journal'.records[n])
    <3>1. CASE n = Len(journal'.records)
      <4>1. journal'.base + n = Len(history') /\ journal'.base + n - 1 = Len(history)
        BY SMTT(60), <1>1, <1>2, <1>4, <3>1, Numbers DEF IInv
      <4>2. StateAt(journal.base + n)' = StateAt(Len(history))'
        BY <4>1 DEF StateAt
      <4>3. StateAt(journal.base + n - 1)' = StateAt(Len(history))
        BY <1>4, <4>1 DEF StateAt
      <4> QED
        BY Zenon, <1>1, <1>2, <1>4, <3>1, <4>2, <4>3
    <3>2. CASE n # Len(journal'.records)
      <4>1. /\ journal.base + n \in 0 .. Len(history)
            /\ journal.base + n - 1 \in 0 .. Len(history)
            /\ journal.base + n <= Len(history)
            /\ n \in 1 .. Len(journal.records)
        <5>1. /\ journal.base \in Nat /\ Len(journal.records) \in Nat
              /\ Len(history) = journal.base + Len(journal.records)
          BY <1>1, Numbers DEF IInv
        <5>2. n \in 1 .. Len(journal.records)
          BY <1>2, <3>2, <5>1
        <5> QED
          BY SMTT(60), <5>1, <5>2
      <4>2. /\ StateAt(journal.base + n)' = StateAt(journal.base + n)
            /\ StateAt(journal.base + n - 1)' = StateAt(journal.base + n - 1)
        <5>1. journal'.base + n = journal.base + n
              /\ journal'.base + n - 1 = journal.base + n - 1
          BY <1>2, Zenon
        <5>2. \A m \in 0 .. Len(history) :
                 (IF m = 0 THEN Empty ELSE history'[m]) = StateAt(m)
          BY <1>4, Zenon DEF StateAt
        <5> QED
          BY <4>1, <5>1, <5>2, Zenon DEF StateAt
      <4>3. StateAt(journal.base + n) =
              Apply(StateAt(journal.base + n - 1), journal.records[n])
        BY Zenon, <1>1, <4>1 DEF Consistent
      <4> QED
        BY <1>2, <4>1, <4>2, <4>3
    <3> QED
      BY <3>1, <3>2
  <2>2. Last(journal)' = Len(history')
    BY <1>1, <1>2, <1>4
  <2> QED
    BY <1>2, <1>4, <2>1, <2>2 DEF Consistent
<1>7. DiskInv'
  BY <1>1, <1>2, <1>5, <1>6 DEF DiskInv
<1>8. pc' = "open" /\ last_sequence' = Len(history') /\ Last(journal)' = Len(history')
      /\ doubt' = None
  BY Zenon, <1>1, <1>2, <1>4, Numbers DEF IInv, Writable
<1> QED
  BY <1>1, <1>2, <1>4, <1>7, <1>8 DEF ProcessInv, InService

LEMMA KeptByAppendFails ==
    ASSUME IInv, NEW r \in Records, AppendFails(r)
    PROVE  DiskInv' /\ ProcessInv'
<1>1. /\ Writable /\ write_failed' = TRUE /\ doubt' = r
      /\ UNCHANGED <<snapshot, pc, state, last_sequence, file, history>>
  BY DEF AppendFails
<1>2. /\ state = StateAt(Len(history)) /\ last_sequence = Len(history)
      /\ journal.kind = "ready" /\ Last(journal) = Len(history)
      /\ Consistent(journal) /\ journal.base <= Watermark
  BY <1>1, WritableStands
<1>3. /\ Watermark' = Watermark /\ Len(history') = Len(history)
      /\ \A n : StateAt(n)' = StateAt(n)
  BY <1>1 DEF Watermark, StateAt
<1>4. doubt' # None
  BY <1>1, NoneAssumption
<1>5. /\ journal'.kind = "ready" /\ journal'.base = journal.base
      /\ Last(journal)' \in {Len(history), Len(history) + 1}
      /\ Consistent(journal)'
  <2>1. CASE journal' = journal \/ journal' = [journal EXCEPT !.torn = TRUE]
    <3>1. /\ journal'.kind = journal.kind /\ journal'.base = journal.base
          /\ journal'.records = journal.records
      BY <2>1 DEF IInv, TypeOK, Journal
    <3>2. Last(journal)' = Len(history)
      BY <1>2, <3>1 DEF Last
    <3>3. Last(journal)' # Len(history') + 1 /\ Last(journal)' <= Len(history') + 1
      BY <1>3, <3>2, Numbers DEF IInv
    <3>4. Consistent(journal)'
      BY <1>1, <1>2, <3>1, <3>3, Zenon DEF Consistent, StateAt
    <3> QED
      BY <1>2, <3>1, <3>2, <3>4
  <2>2. CASE journal' = [journal EXCEPT !.records = Append(@, r)]
    <3>1. /\ journal'.kind = journal.kind /\ journal'.base = journal.base
          /\ Len(journal'.records) = Len(journal.records) + 1
          /\ \A n \in 1 .. Len(journal.records) :
                journal'.records[n] = journal.records[n]
          /\ journal'.records[Len(journal'.records)] = r
          /\ journal'.records # <<>>
          /\ Last(journal)' = Last(journal) + 1
      BY Zenon, <2>2, JournalGrows DEF IInv
    <3>2. ASSUME NEW n \in 1 .. Len(journal'.records),
                 journal.base + n <= Len(history)
          PROVE  StateAt(journal.base + n) =
                   Apply(StateAt(journal.base + n - 1), journal'.records[n])
      <4>1. n \in 1 .. Len(journal.records)
        BY SMTT(60), <1>2, <3>1, <3>2, Numbers DEF IInv
      <4> QED
        BY <1>2, <3>1, <3>2, <4>1 DEF Consistent
    <3>3. Consistent(journal)'
      <4>1. UNCHANGED history /\ journal'.base = journal.base
        BY Zenon, <1>1, <1>2, <3>1
      <4>2. /\ Last(journal)' <= Len(history) + 1
            /\ Last(journal)' = Len(history) + 1 =>
                 /\ doubt' # None /\ journal'.records # <<>>
                 /\ journal'.records[Len(journal'.records)] = doubt'
        BY <1>1, <1>2, <1>3, <1>4, <3>1, Numbers DEF IInv
      <4>3. \A n \in 1 .. Len(journal'.records) :
               journal'.base + n <= Len(history) =>
                 StateAt(journal'.base + n) =
                   Apply(StateAt(journal'.base + n - 1), journal'.records[n])
        BY <3>2, <4>1
      <4> QED
        BY <4>1, <4>2, <4>3, Zenon DEF Consistent, StateAt
    <3> QED
      BY <1>2, <3>1, <3>3
  <2> QED
    BY <2>1, <2>2 DEF AppendFails
<1>6. NothingAcknowledgedIsLost'
  <2>1. snapshot' # None => /\ snapshot'.watermark <= Len(history')
                            /\ snapshot'.state = StateAt(snapshot.watermark)'
    BY <1>1, <1>3, Zenon DEF IInv, DiskInv, NothingAcknowledgedIsLost, StateAt
  <2>2. journal'.base <= Watermark' /\ Last(journal)' >= Len(history')
    BY SMTT(60), <1>2, <1>3, <1>5, Numbers DEF IInv
  <2> QED
    BY <1>5, <2>1, <2>2 DEF NothingAcknowledgedIsLost
<1>7. DiskInv'
  BY <1>5, <1>6 DEF DiskInv
<1> QED
  <2>1. pc' = "open" /\ write_failed'
    BY <1>1, Zenon DEF Writable
  <2>2. state' = StateAt(Len(history))' /\ last_sequence' = Len(history')
    BY <1>1, <1>2, Zenon DEF StateAt
  <2> QED
    BY <1>5, <1>7, <2>1, <2>2 DEF ProcessInv, InService

\* Staging touches neither the published snapshot nor the journal.
LEMMA KeptByStage ==
    ASSUME IInv, Stage \/ StageFails
    PROVE  DiskInv' /\ ProcessInv'
<1>1. /\ UNCHANGED <<journal, snapshot, state, last_sequence, write_failed, file,
                     history, doubt>>
      /\ pc \in {"open", "staged"} /\ pc' \in {"open", "staged"}
  BY DEF Stage, StageFails, told
<1>2. DiskInv'
  BY <1>1, DiskStays DEF IInv
<1>3. Last(journal)' = Last(journal) /\ StateAt(Len(history))' = StateAt(Len(history))
  BY Zenon, <1>1 DEF Last, StateAt
<1> QED
  BY <1>1, <1>2, <1>3, Zenon DEF IInv, ProcessInv, InService

\* The published snapshot holds every acknowledged record.
LEMMA KeptByPublish ==
    ASSUME IInv, Publish
    PROVE  DiskInv' /\ ProcessInv'
<1>1. /\ UNCHANGED <<journal, state, last_sequence, write_failed, file, history,
                     doubt>>
      /\ pc = "staged" /\ pc' = "published"
      /\ snapshot' = [watermark |-> last_sequence, state |-> state]
  BY DEF Publish, told
<1>2. state = StateAt(Len(history)) /\ last_sequence = Len(history)
  BY <1>1 DEF IInv, ProcessInv, InService
<1>3. snapshot' # None
  <2>1. [watermark |-> last_sequence, state |-> state] \in Snapshot
    BY DEF IInv, TypeOK, Snapshot
  <2> QED
    BY <1>1, <2>1, NoneAssumption
<1>4. /\ snapshot'.watermark = Len(history) /\ snapshot'.state = state
      /\ Watermark' = Len(history)
  BY <1>1, <1>2, <1>3 DEF Watermark
<1>5. Last(journal)' = Last(journal) /\ \A n : StateAt(n)' = StateAt(n)
  BY <1>1 DEF Last, StateAt
<1>6. NothingAcknowledgedIsLost'
  <2>1. snapshot'.state = StateAt(snapshot.watermark)'
    BY <1>1, <1>2, <1>4 DEF StateAt
  <2>2. journal.kind = "ready" =>
          /\ journal.base <= Watermark /\ Watermark <= Len(history)
          /\ Last(journal) >= Len(history)
    BY Numbers DEF IInv, DiskInv, NothingAcknowledgedIsLost, Watermark
  <2>3. journal'.kind = "ready" =>
          journal'.base <= Watermark' /\ Last(journal)' >= Len(history')
    BY <1>1, <1>4, <1>5, <2>2, Numbers DEF IInv
  <2> QED
    BY <1>1, <1>4, <2>1, <2>3, Numbers DEF IInv, NothingAcknowledgedIsLost
<1>7. journal.kind # "absent"
  BY <1>1 DEF IInv, ProcessInv, InService
<1>8. journal.kind = "ready" => Consistent(journal)'
  BY <1>1, Zenon DEF IInv, DiskInv, Consistent, StateAt, Last
<1>9. DiskInv'
  BY <1>1, <1>6, <1>7, <1>8 DEF DiskInv
<1> QED
  BY <1>1, <1>2, <1>3, <1>4, <1>5, <1>9 DEF IInv, ProcessInv, InService, StateAt

\* While the journal has no header the snapshot alone holds everything.
LEMMA KeptByTruncate ==
    ASSUME IInv, Truncate
    PROVE  DiskInv' /\ ProcessInv'
<1>1. /\ UNCHANGED <<snapshot, state, last_sequence, write_failed, history, doubt>>
      /\ pc = "published" /\ pc' = "truncated" /\ journal'.kind = "short"
  BY DEF Truncate, told, Without
<1>2. /\ snapshot # None /\ snapshot.watermark = Len(history)
      /\ state = StateAt(Len(history)) /\ last_sequence = Len(history)
      /\ ~write_failed => doubt = None
  BY <1>1, Zenon DEF IInv, ProcessInv, InService
<1>3. Watermark' = Len(history') /\ StateAt(Len(history))' = StateAt(Len(history))
  BY <1>1, <1>2 DEF Watermark, StateAt
<1>4. NothingAcknowledgedIsLost'
  <2>1. snapshot.state = StateAt(snapshot.watermark)
    BY <1>2 DEF IInv, DiskInv, NothingAcknowledgedIsLost
  <2> QED
    BY <1>1, <1>2, <1>3, <2>1, Numbers
       DEF IInv, NothingAcknowledgedIsLost, StateAt
<1>5. DiskInv'
  BY <1>1, <1>4 DEF DiskInv
<1> QED
  BY <1>1, <1>2, <1>3, <1>5, Zenon DEF ProcessInv, InService

LEMMA KeptByTruncateFails ==
    ASSUME IInv, TruncateFails
    PROVE  DiskInv' /\ ProcessInv'
<1>1. /\ UNCHANGED <<journal, snapshot, state, last_sequence, write_failed, history,
                     doubt>>
      /\ pc = "published" /\ pc' = "open" /\ ~file'
  BY DEF TruncateFails, disk, told
<1>2. DiskInv'
  BY <1>1, DiskStays DEF IInv
<1>3. StateAt(Len(history))' = StateAt(Len(history))
  BY <1>1 DEF StateAt
<1> QED
  BY <1>1, <1>2, <1>3, Zenon DEF IInv, ProcessInv, InService

\* The new journal continues where the snapshot ends.
LEMMA KeptByResetHeader ==
    ASSUME IInv, ResetHeader \/ ResetHeaderFails
    PROVE  DiskInv' /\ ProcessInv'
<1>1. /\ UNCHANGED <<snapshot, state, last_sequence, history, doubt>>
      /\ pc = "truncated" /\ pc' = "open"
  BY DEF ResetHeader, ResetHeaderFails, told
<1>2. /\ snapshot # None /\ snapshot.watermark = Len(history)
      /\ state = StateAt(Len(history)) /\ last_sequence = Len(history)
      /\ ~write_failed => doubt = None
      /\ journal.kind = "short"
  BY <1>1, Zenon DEF IInv, ProcessInv, InService
<1>3. Watermark' = Len(history') /\ StateAt(Len(history))' = StateAt(Len(history))
  BY <1>1, <1>2 DEF Watermark, StateAt
<1>4. \/ journal' = journal
      \/ journal' = [Without("ready") EXCEPT !.base = last_sequence]
  BY DEF ResetHeader, ResetHeaderFails
<1>5. ~write_failed' => ~write_failed
  BY Zenon DEF ResetHeader, ResetHeaderFails
<1>6. file' /\ ~write_failed' =>
        journal' = [Without("ready") EXCEPT !.base = last_sequence]
  BY Zenon DEF ResetHeader, ResetHeaderFails
<1>7. CASE journal' = journal
  <2>1. DiskInv'
    BY <1>1, <1>7, DiskStays DEF IInv
  <2>2. ~(file' /\ ~write_failed')
    <3>1. [Without("ready") EXCEPT !.base = last_sequence].kind = "ready"
      BY DEF Without
    <3> QED
      BY Zenon, <1>2, <1>6, <1>7, <3>1
  <2> QED
    BY <1>1, <1>2, <1>3, <1>5, <1>7, <2>1, <2>2, Zenon DEF ProcessInv, InService
<1>8. CASE journal' = [Without("ready") EXCEPT !.base = last_sequence]
  <2>1. /\ journal'.kind = "ready" /\ journal'.base = Len(history)
        /\ journal'.records = <<>>
    BY <1>2, <1>8 DEF Without
  <2>2. Last(journal)' = Len(history') /\ Len(journal'.records) = 0
    BY <1>1, <2>1, Numbers DEF IInv, Last
  <2>3. Consistent(journal)'
    BY <1>1, <2>1, <2>2, Numbers DEF IInv, Consistent
  <2>4. snapshot.state = StateAt(snapshot.watermark)
    BY <1>2 DEF IInv, DiskInv, NothingAcknowledgedIsLost
  <2>5. NothingAcknowledgedIsLost'
    BY <1>1, <1>2, <1>3, <2>1, <2>2, <2>4, Numbers
       DEF IInv, NothingAcknowledgedIsLost, StateAt
  <2>6. DiskInv'
    BY <2>1, <2>3, <2>5 DEF DiskInv
  <2> QED
    BY <1>1, <1>2, <1>3, <1>5, <2>1, <2>2, <2>6, Zenon DEF ProcessInv, InService
<1> QED
  BY <1>4, <1>7, <1>8

LEMMA IInvInit ==
    ASSUME Init
    PROVE  IInv
<1>1. TypeOK
  BY InitTyped
<1>2. /\ journal.kind = "absent" /\ snapshot = None /\ pc = "down"
      /\ history = <<>> /\ doubt = None
  BY DEF Init, Without
<1>3. DiskInv
  BY <1>2 DEF DiskInv, NothingAcknowledgedIsLost, Watermark
<1> QED
  BY <1>1, <1>2, <1>3 DEF IInv, ProcessInv, InService

LEMMA IInvStep ==
    ASSUME IInv, [Next]_vars
    PROVE  IInv'
<1>1. TypeOK'
  BY TypeStep DEF IInv
<1>2. CASE UNCHANGED vars
  <2>1. UNCHANGED <<journal, snapshot, history, doubt>>
    BY <1>2 DEF vars, disk, told
  <2>2. DiskInv'
    BY <2>1, DiskStays DEF IInv
  <2>3. ProcessInv'
    BY <1>2, Zenon
       DEF IInv, ProcessInv, vars, disk, process, told, InService, StateAt,
                       Reached, Watermark, Last
  <2> QED
    BY <1>1, <2>2, <2>3 DEF IInv
<1>3. ASSUME ReplayNext PROVE DiskInv' /\ ProcessInv'
  BY <1>3, KeptByReplayKnown, KeptByReplayDoubt, Zenon
<1>4. CASE Next
  BY <1>1, <1>3, <1>4, KeptByCreate, KeptByLoad, KeptByRefused, KeptByCrash,
     KeptByOpened, KeptByAppend, KeptByAppendFails, KeptByStage, KeptByPublish,
     KeptByTruncate, KeptByTruncateFails, KeptByResetHeader, Zenon
     DEF Next, Opening, Compacting, IInv
<1> QED
  BY <1>2, <1>4

\* At every moment, in the middle of Compact too, every acknowledged record is in
\* the published snapshot or in the journal behind it.
THEOREM NothingIsLost == Spec => []NothingAcknowledgedIsLost
<1>1. IInv => NothingAcknowledgedIsLost
  BY DEF IInv, DiskInv
<1> QED
  BY <1>1, IInvInit, IInvStep, PTL DEF Spec

-----------------------------------------------------------------------------
(* The store implements AtomicStore. *)

Visible == IF InService THEN state ELSE None

\* A step that changes neither what callers were told nor what they can see.
LEMMA Silent ==
    ASSUME UNCHANGED <<history, doubt>>, Visible' = Visible
    PROVE  UNCHANGED Atomic!vars
BY DEF Atomic!vars, Visible, StateAt

\* Opening the files, and compaction in service, are silent.
LEMMA SilentSteps ==
    ASSUME \/ OpenCreates \/ CreateHeader \/ OpenLoads \/ OpenReadOnly \/ OpenRefused
           \/ Stage \/ StageFails \/ Publish \/ Truncate \/ TruncateFails
           \/ ResetHeader \/ ResetHeaderFails
    PROVE  UNCHANGED Atomic!vars
<1>1. UNCHANGED <<history, doubt>>
  BY
     DEF OpenCreates, CreateHeader, OpenLoads, OpenReadOnly, Load, OpenRefused, Stage,
         StageFails, Publish, Truncate, TruncateFails, ResetHeader,
         ResetHeaderFails, told
<1>2. \/ ~InService /\ ~InService'
      \/ InService /\ InService' /\ state' = state
  BY
     DEF OpenCreates, CreateHeader, OpenLoads, OpenReadOnly, Load, OpenRefused, Stage,
         StageFails, Publish, Truncate, TruncateFails, ResetHeader,
         ResetHeaderFails, InService, process
<1> QED
  BY <1>1, <1>2, Silent DEF Visible

LEMMA ReplayRefines ==
    ASSUME IInv, ReplayNext
    PROVE  UNCHANGED Atomic!vars \/ Atomic!Settle
<1>1. ~InService /\ ~InService'
  BY ReplayStands DEF InService
<1>2. CASE journal.base + next <= Len(history)
  BY <1>1, <1>2, KeptByReplayKnown, Silent DEF told, Visible
<1>3. CASE ~(journal.base + next <= Len(history))
  <2>1. StateAt(Len(history))' = state'
    BY <1>3, ReplayDoubt, HistoryGrows DEF IInv
  <2>2. /\ doubt # None /\ doubt' = None
        /\ state' = Apply(StateAt(Len(history)), doubt)
    BY <1>3, ReplayDoubt, Zenon
  <2> QED
    BY <1>1, <2>1, <2>2, Zenon DEF Atomic!Settle, Atomic!Settled
<1> QED
  BY <1>2, <1>3

LEMMA OpenedRefines ==
    ASSUME IInv, Opened
    PROVE  Atomic!Recover
<1>1. ~InService /\ InService' /\ state' = state /\ history' = history
      /\ doubt' = None
  BY DEF Opened, InService
<1> QED
  BY <1>1, OpenedStands DEF Atomic!Recover, StateAt

LEMMA CrashRefines ==
    ASSUME IInv, Crash
    PROVE  UNCHANGED Atomic!vars \/ Atomic!Stop
<1>1. ~InService' /\ UNCHANGED <<history, doubt>>
  BY DEF Crash, InService, told
<1>2. state # None
  BY NoneAssumption DEF IInv, TypeOK
<1>3. CASE InService
  BY <1>1, <1>2, <1>3 DEF Atomic!Stop, StateAt
<1>4. CASE ~InService
  BY <1>1, <1>4, Silent DEF Visible
<1> QED
  BY <1>3, <1>4

LEMMA AppendRefines ==
    ASSUME IInv, NEW r \in Records, AppendAndApply(r) \/ AppendFails(r)
    PROVE  Atomic!Commit(r) \/ Atomic!Fail(r)
<1>1. Writable /\ InService /\ InService'
  BY DEF AppendAndApply, AppendFails, Writable, InService
<1>2. state = StateAt(Len(history)) /\ doubt = None
  BY <1>1, WritableStands
<1>3. state # None
  BY NoneAssumption DEF IInv, TypeOK
<1>4. CASE AppendAndApply(r)
  <2>1. /\ state' = Apply(state, r) /\ history' = Append(history, state')
        /\ doubt' = doubt
    BY <1>4 DEF AppendAndApply
  <2>2. state' \in States
    BY <2>1, StoreAssumption DEF IInv, TypeOK
  <2>3. StateAt(Len(history))' = state'
    BY <2>1, <2>2, HistoryGrows DEF IInv
  <2> QED
    BY <1>1, <1>2, <1>3, <2>1, <2>3 DEF Atomic!Commit
<1>5. CASE AppendFails(r)
  <2>1. doubt' = r /\ UNCHANGED <<state, history>>
    BY <1>5 DEF AppendFails
  <2> QED
    BY <1>1, <1>2, <1>3, <2>1 DEF Atomic!Fail, StateAt
<1> QED
  BY <1>4, <1>5

\* For every table, record and limit: an open store shows exactly what was
\* acknowledged, kills, failed writes and compaction notwithstanding.
THEOREM StoreIsAtomic == Spec => Implements
<1>1. Init => Atomic!Init
  BY DEF Init, Atomic!Init, StateAt, InService
<1>2. IInv /\ [Next]_vars => [Atomic!Next]_(Atomic!vars)
  <2> SUFFICES ASSUME IInv, [Next]_vars
               PROVE  [Atomic!Next]_(Atomic!vars)
    OBVIOUS
  <2>1. CASE UNCHANGED vars
    BY <2>1, Silent DEF vars, told, process, Visible, InService
  <2>2. CASE Next
    BY <2>2, SilentSteps, ReplayRefines, OpenedRefines, CrashRefines,
       AppendRefines,
       Zenon DEF Next, Opening, Compacting, Atomic!Next
  <2> QED
    BY <2>1, <2>2
<1> QED
  BY <1>1, <1>2, IInvInit, IInvStep, PTL DEF Spec, Implements, Atomic!Spec
=============================================================================

------------------------- MODULE CompoundingProofs --------------------------
(***************************************************************************)
(* Theorems about Compounding: its types, that at most one run is          *)
(* unfinished, that the trigger agreement rests while one is, that every   *)
(* line of the log and every removal is backed by evidence, and that the   *)
(* lifecycle implements ExclusiveRuns.                                     *)
(***************************************************************************)
EXTENDS Compounding, WellFoundedInduction, TLAPS

-----------------------------------------------------------------------------
(* The parts of the inductive invariants: what each stage of an operation     *)
(* takes for granted.                                                        *)

Rolling == {"rollover", "replace"}
Draining == {"intent", "select", "remove", "unlink", "acknowledge", "report"}
Issued == {"inputs", "evidence", "append"}

StagesConsistent ==
    /\ op.stage \in Rolling => op.kind \in {"start", "trigger", "worker"}
    /\ op.stage = "evidence" => op.record \in Records
    /\ op.stage = "validate" => op.kind = "start"
    /\ op.stage = "inputs" => op.kind = "start" /\ op.todo \subseteq DOMAIN op.event.selected
    /\ op.stage \in Draining => Run \in Runs
    /\ op.stage \in {"unlink", "acknowledge"} => op.signal \in Signals
    /\ op.stage \in Issued \ {"append"} => Run \in Runs
    /\ op.kind = "worker" => Run \in Runs

\* A start is archived under its own run.
StartsFiled == \A r \in Runs : evidence[r].start # None => evidence[r].start.run_id = r

\* The event in hand is the one the operation is about to log, about a run
\* that the history knows, or for a start does not know yet.
EventMatches ==
    /\ op.kind = "start" => /\ op.event.event = "start"
                            /\ ActiveRuns(history) = {}
                            /\ op.stage \in Issued => Run \notin Started(history)
    /\ op.kind = "finish" => op.event.event = "end" /\ Run \in Started(history)
    /\ op.kind = "worker" => op.event.event = "worker"
    /\ op.kind = "trigger" => op.event.event = "trigger"
    /\ op.stage = "register" => op.kind = "trigger"
    /\ op.stage = "evidence" => op.kind \in {"start", "worker", "finish"}
    /\ op.stage = "append" => op.kind \in {"start", "worker", "finish", "trigger"}

\* A trigger is about to be logged only while nothing is active.
TriggerAlone == (op.kind = "trigger" /\ op.stage = "append") => ActiveRuns(log) = {}

ActiveTransparent == ActiveRuns(log) = ActiveRuns(history)

EndsStarted == Ended(history) \subseteq Started(history)

-----------------------------------------------------------------------------
(* Lemmas about the operators. *)

\* A nonempty set of line numbers has a latest one, which is what the code's
\* next(reversed(...)) finds.
LEMMA LatestIsMember ==
    ASSUME NEW n \in Nat, NEW P \in SUBSET (1..n), P # {}
    PROVE  Latest(P) \in P /\ \A j \in P : j <= Latest(P)
  <1>1. PICK x \in {n - i : i \in P} : \A y \in {n - i : i \in P} : ~(y < x)
    <2>1. ASSUME NEW T, T \subseteq Nat, T # {}
          PROVE  \E x \in T : \A y \in T : ~(<<y, x>> \in OpToRel(<, Nat))
      BY <2>1, NatLessThanWellFounded, WFMin
    <2>2. ASSUME NEW T, T \subseteq Nat, T # {}
          PROVE  \E x \in T : \A y \in T : ~(y < x)
      BY <2>1, <2>2 DEF OpToRel
    <2>3. \A i \in P : n - i \in Nat
      OBVIOUS
    <2>4. {n - i : i \in P} \subseteq Nat /\ {n - i : i \in P} # {}
      BY <2>3
    <2> QED BY <2>2, <2>4
  <1>2. PICK i \in P : x = n - i
    OBVIOUS
  <1>3. \A j \in P : j \in Int /\ n - j \in {n - k : k \in P}
    OBVIOUS
  <1>4. \A j \in P : j <= i
    BY <1>1, <1>2, <1>3
  <1> QED BY <1>4 DEF Latest

\* The record an operation starts from, and what it becomes, are well typed.
LEMMA IdleType == Blank \in Events /\ Idle \in Operations
  <1>1. NoSelection \in Selections
    <2>1. NoSelection \in [{} -> Contents]
      BY DEF NoSelection
    <2> QED BY <2>1 DEF Selections
  <1>2. Blank \in Events
    BY <1>1 DEF Blank, Events
  <1> QED BY <1>2 DEF Idle, Operations, Kinds, Stages

\* An operation that takes the rollover branch, or resumes, is still well typed.
LEMMA RolloverType ==
    ASSUME NEW o \in Operations, o.kind \in {"start", "trigger", "worker"}
    PROVE  Resume(o) \in Stages /\ AfterRollover(o) \in Operations
  <1>1. Resume(o) \in Stages
    BY DEF Resume, Stages
  <1>2. AfterRollover(o) \in Operations
    BY <1>1 DEF AfterRollover, Operations, Stages
  <1> QED BY <1>1, <1>2

\* A fresh evidence record is well typed.
LEMMA RecordType ==
    ASSUME NEW operation \in RecordKinds
    PROVE  Record(operation) \in Records
  BY DEF Record, Records

\* The identity resolved from a run's archive is an event.
LEMMA RecordedType ==
    ASSUME TypeOK, NEW r \in Runs, evidence[r].start # None
    PROVE  Recorded(r) \in Events
  <1> DEFINE attached == Having(r, "compound.worker")
  <1>1. evidence[r] \in RunEvidence
    BY DEF TypeOK
  <1>2. evidence[r].start \in Events
    BY <1>1 DEF RunEvidence
  <1>3. CASE attached = {}
    BY <1>2, <1>3 DEF Recorded
  <1>4. CASE attached # {}
    <2>1. evidence[r].records \in Seq(Records)
      BY <1>1 DEF RunEvidence
    <2>2. attached \in SUBSET (1..Len(evidence[r].records))
      BY <2>1 DEF Having
    <2>3. Latest(attached) \in 1..Len(evidence[r].records)
      <3>1. Len(evidence[r].records) \in Nat
        BY <2>1
      <3> HIDE DEF attached
      <3> QED BY <1>4, <2>2, <3>1, LatestIsMember
    <2>4. evidence[r].records[Latest(attached)].worker_id \in Workers \cup {None}
      <3>1. evidence[r].records[Latest(attached)] \in Records
        BY <2>1, <2>3
      <3> QED BY <3>1 DEF Records
    <2>5. Recorded(r) = [evidence[r].start EXCEPT
                            !.worker_id = evidence[r].records[Latest(attached)].worker_id]
      BY <1>4 DEF Recorded, Merge
    <2> QED BY <1>2, <2>4, <2>5 DEF Events
  <1> QED BY <1>3, <1>4

\* What an archived start and its attachments resolve to is that run.
LEMMA RecordedOf ==
    ASSUME TypeOK, StartsFiled, NEW r \in Runs, evidence[r].start # None
    PROVE  Recorded(r) \in Events /\ Recorded(r).run_id = r
  <1>1. Recorded(r) \in Events
    BY RecordedType
  <1>2. evidence[r].start \in Events /\ evidence[r].start.run_id = r
    BY DEF TypeOK, StartsFiled, RunEvidence
  <1>3. Recorded(r).run_id = evidence[r].start.run_id
    BY <1>2 DEF Recorded, Merge, Events
  <1> QED BY <1>1, <1>2, <1>3

\* The inputs selected by an archived run are signals.
LEMMA SelectedType ==
    ASSUME NEW e \in Events
    PROVE  DOMAIN e.selected \subseteq Signals
  <1>1. e.selected \in Selections
    BY DEF Events
  <1>2. PICK S \in SUBSET Signals : e.selected \in [S -> Contents]
    BY <1>1 DEF Selections
  <1> QED BY <1>2

\* What a run recorded as drained are signals.
LEMMA DrainedType ==
    ASSUME TypeOK, NEW r \in Runs
    PROVE  RecordedDrained(r) \in SUBSET Signals
  <1>1. evidence[r].records \in Seq(Records)
    BY DEF TypeOK, RunEvidence
  <1>2. \A i \in DOMAIN evidence[r].records : evidence[r].records[i] \in Records
    BY <1>1
  <1>3. \A x \in Records : x.drained \in SUBSET Signals
    BY DEF Records
  <1> QED BY <1>2, <1>3 DEF RecordedDrained, Having

\* Appending a record keeps the evidence of every run well typed.
LEMMA WrittenType ==
    ASSUME TypeOK, NEW r, NEW record \in Records
    PROVE  Written(r, record) \in [Runs -> RunEvidence]
  <1>1. evidence \in [Runs -> RunEvidence]
    BY DEF TypeOK
  <1>2. ASSUME r \in Runs
        PROVE  [evidence[r] EXCEPT !.records = Append(@, record)] \in RunEvidence
    <2>1. evidence[r] \in RunEvidence /\ evidence[r].records \in Seq(Records)
      BY <1>1, <1>2 DEF RunEvidence
    <2>2. Append(evidence[r].records, record) \in Seq(Records)
      BY <2>1
    <2> QED BY <2>1, <2>2 DEF RunEvidence
  <1>3. Written(r, record) =
          [evidence EXCEPT ![r] = [evidence[r] EXCEPT !.records = Append(@, record)]]
    BY DEF Written
  <1> QED BY <1>1, <1>2, <1>3

\* An incomplete last record keeps the evidence of every run well typed.
LEMMA TornType ==
    ASSUME TypeOK, NEW r
    PROVE  Torn(r) \in [Runs -> RunEvidence]
  BY DEF TypeOK, Torn, RunEvidence

\* Appending or tearing a record leaves the archived starts alone.
LEMMA EvidenceKept ==
    ASSUME TypeOK, StartsFiled, NEW q, NEW record \in Records,
           evidence' \in {evidence, Written(q, record), Torn(q)}
    PROVE  evidence' \in [Runs -> RunEvidence] /\ StartsFiled'
  <1>1. evidence' \in [Runs -> RunEvidence]
    BY WrittenType, TornType DEF TypeOK
  <1>2. \A r \in Runs : evidence'[r].start = evidence[r].start
    BY DEF Written, Torn, TypeOK, RunEvidence
  <1> QED BY <1>1, <1>2 DEF StartsFiled

\* Acknowledging a removal keeps types and archived starts.
LEMMA AcknowledgementKept ==
    ASSUME TypeOK, StartsFiled, op.signal \in Signals,
           evidence' \in {evidence, Torn(Run), Acknowledgement}
    PROVE  evidence' \in [Runs -> RunEvidence] /\ StartsFiled'
  <1> DEFINE c == [Record("compound.drain.removed") EXCEPT !.drained = {op.signal}]
  <1>1. Record("compound.drain.removed") \in Records
    BY RecordType DEF RecordKinds
  <1>2. c \in Records
    BY <1>1 DEF Records
  <1>3. Acknowledgement = Written(Run, c)
    BY DEF Acknowledgement
  <1> HIDE DEF c
  <1> QED BY <1>2, <1>3, EvidenceKept

\* Rollover keeps lines of the file and invents none.
LEMMA RetainedLines == Retained(log) \subseteq live
  BY DEF Retained, LatestIn, At, log, Restrict

-----------------------------------------------------------------------------
(* Types are inductive, together with what each stage takes for granted. *)

\* A step that changes only the operation in hand needs only its type.
LEMMA OnlyOpTypes ==
    ASSUME TypeOK, op' \in Operations,
           UNCHANGED <<coordination, evidence, environment, removed, spent>>
    PROVE  TypeOK'
  BY DEF TypeOK, coordination, environment

\* An operation that begins with a rollover, or would if the log were larger.
LEMMA RollingTypes ==
    ASSUME TypeOK, NEW o \in Operations, o.kind \in {"start", "trigger", "worker"},
           o.kind = "worker" => o.event.run_id \in Runs,
           op' = AfterRollover(o),
           UNCHANGED <<coordination, evidence, environment, removed, spent>>
    PROVE  TypeOK' /\ StagesConsistent'
  <1>1. op' \in Operations
    BY RolloverType
  <1>2. TypeOK'
    BY <1>1, OnlyOpTypes
  <1>3. /\ op'.kind = o.kind /\ op'.record = o.record /\ op'.event = o.event
        /\ op'.stage \in {"rollover", Resume(o)}
    BY DEF AfterRollover, Operations
  <1>4. /\ Resume(o) \in {"validate", "register", "evidence", "append"}
        /\ Resume(o) = "validate" => o.kind = "start"
        /\ Resume(o) = "evidence" => o.kind = "worker" /\ o.record \in Records
    BY DEF Resume, Operations
  <1> QED BY <1>2, <1>3, <1>4 DEF StagesConsistent, Rolling, Draining, Issued, Run

\* What an operation reads when it takes the lock, it leaves as it is.
LEMMA BeginLeaves ==
    ASSUME Begin
    PROVE  UNCHANGED <<coordination, evidence, environment, removed, spent>>
  <1> DEFINE U == UNCHANGED <<coordination, evidence, environment, removed, spent>>
  <1>1. ASSUME NEW ws, BeginTrigger(ws) PROVE U
    BY <1>1 DEF BeginTrigger
  <1>2. ASSUME NEW ws, NEW selected, NEW automatic, NEW worker, NEW recovery, NEW size,
               BeginStart(ws, selected, automatic, worker, recovery, size)
        PROVE  U
    BY <1>2 DEF BeginStart
  <1>3. ASSUME NEW ws, NEW r, NEW worker, BeginWorker(ws, r, worker) PROVE U
    BY <1>3 DEF BeginWorker
  <1>4. ASSUME NEW ws, NEW r, NEW completion, NEW dispositions, NEW size,
               BeginFinish(ws, r, completion, dispositions, size)
        PROVE  U
    BY <1>4 DEF BeginFinish
  <1>5. ASSUME NEW ws, NEW r, NEW approved, BeginDrain(ws, r, approved) PROVE U
    BY <1>5 DEF BeginDrain
  <1> HIDE DEF U
  <1> QED BY <1>1, <1>2, <1>3, <1>4, <1>5 DEF Begin, U

\* Every operation begins on well-typed arguments.
LEMMA BeginTypes ==
    ASSUME TypeOK, StagesConsistent, StartsFiled, Begin
    PROVE  TypeOK' /\ StagesConsistent'
  <1>1. Idle \in Operations /\ Blank \in Events
    BY IdleType
  <1>2. PICK ws \in Workspaces :
            \/ BeginTrigger(ws)
            \/ \E selected \in Batches, automatic \in Modes,
                  worker \in Workers \cup {None}, recovery \in Runs \cup {None}, size \in Sizes :
                  BeginStart(ws, selected, automatic, worker, recovery, size)
            \/ \E r \in Runs :
                  \/ \E worker \in Workers : BeginWorker(ws, r, worker)
                  \/ \E completion \in Reports,
                        dispositions \in SUBSET Signals, size \in Sizes :
                        BeginFinish(ws, r, completion, dispositions, size)
                  \/ \E approved \in SUBSET Signals : BeginDrain(ws, r, approved)
    BY DEF Begin
  <1>3. configured[ws] \in Triggers \cup {None}
    BY DEF TypeOK
  <1>4. CASE BeginTrigger(ws)
    <2> DEFINE o == [Idle EXCEPT !.kind = "trigger", !.loaded = configured[ws],
                 !.event = [Blank EXCEPT !.workspace_id = ws, !.trigger = configured[ws]]]
    <2>1. [Blank EXCEPT !.workspace_id = ws, !.trigger = configured[ws]] \in Events
      BY <1>1, <1>3 DEF Events
    <2>2. o \in Operations /\ o.kind = "trigger"
      BY <1>1, <1>3, <2>1 DEF Operations, Kinds
    <2>3. op' = AfterRollover(o)
      BY <1>4 DEF BeginTrigger
    <2> HIDE DEF o
    <2> QED BY <1>4, <2>2, <2>3, RollingTypes DEF BeginTrigger
  <1>5. ASSUME NEW selected \in Batches, NEW automatic \in Modes,
               NEW worker \in Workers \cup {None}, NEW recovery \in Runs \cup {None},
               NEW size \in Sizes,
               BeginStart(ws, selected, automatic, worker, recovery, size)
        PROVE  TypeOK' /\ StagesConsistent'
    <2> DEFINE e == [Blank EXCEPT
                       !.event = "start", !.workspace_id = ws, !.automatic = automatic,
                       !.worker_id = worker, !.recovery_of = recovery,
                       !.selected = selected, !.size = size]
               o == [Idle EXCEPT !.kind = "start", !.loaded = configured[ws], !.event = e]
    <2>1. selected \in Selections /\ automatic \in BOOLEAN /\ size \in Nat
      BY CallersAssumption
    <2>2. e \in Events
      BY <1>1, <2>1 DEF Events
    <2>3. o \in Operations /\ o.kind = "start"
      <3> HIDE DEF e
      <3> QED BY <1>1, <1>3, <2>2 DEF Operations, Kinds
    <2>4. op' = AfterRollover(o)
      BY <1>5 DEF BeginStart
    <2> HIDE DEF o
    <2> QED BY <1>5, <2>3, <2>4, RollingTypes DEF BeginStart
  <1>6. ASSUME NEW r \in Runs, NEW worker \in Workers, BeginWorker(ws, r, worker)
        PROVE  TypeOK' /\ StagesConsistent'
    <2> DEFINE e == [Blank EXCEPT !.event = "worker", !.run_id = r,
                                  !.workspace_id = ws, !.at = clock, !.worker_id = worker]
               c == IF Merge(Recorded(r), worker) = Recorded(r) THEN None
                    ELSE [Record("compound.worker") EXCEPT !.worker_id = worker]
               o == [Idle EXCEPT !.kind = "worker", !.loaded = configured[ws],
                                 !.event = e, !.record = c]
    <2>1. e \in Events /\ e.run_id = r
      BY <1>1 DEF Events, TypeOK
    <2>2. c \in Records \cup {None}
      <3>1. Record("compound.worker") \in Records
        BY RecordType DEF RecordKinds
      <3> QED BY <3>1 DEF Records
    <2>3. o \in Operations /\ o.kind = "worker" /\ o.event.run_id = r
      <3> HIDE DEF e, c
      <3> QED BY <1>1, <1>3, <2>1, <2>2 DEF Operations, Kinds
    <2>4. op' = AfterRollover(o)
      BY <1>6 DEF BeginWorker
    <2> HIDE DEF o
    <2> QED BY <1>6, <2>3, <2>4, RollingTypes DEF BeginWorker
  <1>7. ASSUME NEW r \in Runs, NEW completion \in Reports,
               NEW dispositions \in SUBSET Signals, NEW size \in Sizes,
               BeginFinish(ws, r, completion, dispositions, size)
        PROVE  TypeOK' /\ StagesConsistent'
    <2> DEFINE drained == RecordedDrained(r)
               active == Recorded(r)
               e == [active EXCEPT !.event = "end", !.at = clock,
                            !.selected = NoSelection, !.dispositions = dispositions,
                            !.drained = drained, !.completion = completion, !.size = size]
               c == [Record("compound.finish") EXCEPT
                            !.at = clock, !.drained = drained,
                            !.retained = DOMAIN active.selected \ drained]
    <2>1. active \in Events /\ active.run_id = r
      BY <1>7, RecordedOf DEF BeginFinish, ActiveRun, Resolvable
    <2>2. drained \in SUBSET Signals
      BY DrainedType
    <2>3. DOMAIN active.selected \subseteq Signals
      BY <2>1, SelectedType
    <2>4. e \in Events /\ e.run_id = r
      <3>1. /\ NoSelection \in Selections /\ clock \in Nat
            /\ completion \in Completions \cup {None} /\ size \in Nat
        BY <1>1, CallersAssumption DEF TypeOK, Events, Blank
      <3> HIDE DEF active, drained
      <3> QED BY <2>1, <2>2, <3>1 DEF Events
    <2>5. c \in Records
      <3>1. Record("compound.finish") \in Records /\ clock \in Nat
        BY RecordType DEF RecordKinds, TypeOK
      <3> HIDE DEF active, drained
      <3> QED BY <2>2, <2>3, <3>1 DEF Records
    <2>6. op' = [Idle EXCEPT !.kind = "finish", !.loaded = configured[ws],
                             !.stage = "evidence", !.event = e, !.record = c]
      BY <1>7 DEF BeginFinish
    <2> HIDE DEF e, c
    <2>7. /\ op' \in Operations /\ op'.event.run_id = r
          /\ op'.kind = "finish" /\ op'.stage = "evidence" /\ op'.record \in Records
      BY <1>1, <1>3, <2>4, <2>5, <2>6 DEF Operations, Kinds, Stages
    <2>8. TypeOK'
      BY <1>7, <2>7, OnlyOpTypes DEF BeginFinish
    <2> QED BY <2>7, <2>8 DEF StagesConsistent, Rolling, Draining, Issued, Run
  <1>8. ASSUME NEW r \in Runs, NEW approved \in SUBSET Signals, BeginDrain(ws, r, approved)
        PROVE  TypeOK' /\ StagesConsistent'
    <2> DEFINE active == Recorded(r)
    <2>1. active \in Events /\ active.run_id = r
      BY <1>8, RecordedOf DEF BeginDrain, ActiveRun, Resolvable
    <2>2. op' = [Idle EXCEPT !.kind = "drain", !.loaded = configured[ws], !.stage = "intent",
                             !.event = active, !.todo = approved]
      BY <1>8 DEF BeginDrain
    <2> HIDE DEF active
    <2>3. op' \in Operations /\ op'.event.run_id = r /\ op'.kind = "drain" /\ op'.stage = "intent"
      BY <1>1, <1>3, <2>1, <2>2 DEF Operations, Kinds, Stages
    <2>4. TypeOK'
      BY <1>8, <2>3, OnlyOpTypes DEF BeginDrain
    <2> QED BY <2>3, <2>4 DEF StagesConsistent, Rolling, Draining, Issued, Run
  <1> QED BY <1>2, <1>4, <1>5, <1>6, <1>7, <1>8

\* Releasing the lock leaves nothing in hand.
LEMMA ReleaseConsistent ==
    ASSUME Release
    PROVE  op' \in Operations /\ StagesConsistent'
  <1>1. op' = Idle /\ Idle.kind = "none" /\ Idle.stage = "none"
    BY DEF Release, Idle
  <1> QED BY <1>1, IdleType DEF StagesConsistent, Rolling, Draining, Issued

\* A change of stage alone keeps the record typed.
LEMMA GotoType ==
    ASSUME TypeOK, NEW stage \in Stages, Goto(stage)
    PROVE  /\ op' \in Operations /\ op'.stage = stage
           /\ op'.kind = op.kind /\ op'.event = op.event /\ op'.record = op.record
           /\ op'.todo = op.todo /\ op'.signal = op.signal /\ op'.done = op.done
  BY DEF Goto, TypeOK, Operations

\* The steps that write the coordination log.
LEMMA LogStepTypes ==
    ASSUME TypeOK, StagesConsistent, StartsFiled,
           ArchiveLog \/ ReplaceLog \/ AppendEvidence \/ AppendActivity
    PROVE  TypeOK' /\ StagesConsistent' /\ StartsFiled'
  <1>1. CASE ArchiveLog
    <2>1. archived' \subseteq DOMAIN history /\ StartsFiled'
      BY <1>1 DEF ArchiveLog, TypeOK, StartsFiled
    <2>2. op' \in Operations /\ StagesConsistent'
      <3>1. CASE Goto("replace")
        BY <1>1, <3>1, GotoType
           DEF ArchiveLog, StagesConsistent, Stages, Rolling, Draining, Issued, Run
      <3> QED BY <1>1, <3>1, ReleaseConsistent DEF ArchiveLog
    <2> QED BY <1>1, <2>1, <2>2 DEF ArchiveLog, TypeOK, environment
  <1>2. CASE ReplaceLog
    <2>1. live' \subseteq DOMAIN history /\ StartsFiled'
      BY <1>2, RetainedLines DEF ReplaceLog, TypeOK, StartsFiled
    <2>2. op.kind \in {"start", "trigger", "worker"} /\ op \in Operations
      BY <1>2 DEF ReplaceLog, StagesConsistent, Rolling, TypeOK
    <2>3. /\ Resume(op) \in {"validate", "register", "evidence", "append"}
          /\ Resume(op) = "validate" => op.kind = "start"
          /\ Resume(op) = "evidence" => op.kind = "worker" /\ op.record \in Records
      BY <2>2 DEF Resume, Operations
    <2>4. op' \in Operations /\ StagesConsistent'
      <3>1. Goto(Resume(op)) /\ Resume(op) \in Stages
        BY <1>2, <2>3 DEF ReplaceLog, Stages
      <3>2. /\ op' \in Operations /\ op'.stage = Resume(op) /\ op'.kind = op.kind
            /\ op'.event = op.event /\ op'.record = op.record
        BY <3>1, GotoType
      <3> QED BY <2>3, <3>2, <1>2
              DEF StagesConsistent, Rolling, Draining, Issued, Run, ReplaceLog
    <2> QED BY <1>2, <2>1, <2>4 DEF ReplaceLog, TypeOK, environment
  <1>3. CASE AppendEvidence
    <2>1. op.record \in Records
      BY <1>3 DEF AppendEvidence, StagesConsistent
    <2>2. evidence' \in [Runs -> RunEvidence] /\ StartsFiled'
      BY <1>3, <2>1, EvidenceKept DEF AppendEvidence
    <2>3. op' \in Operations /\ StagesConsistent'
      <3>1. CASE Goto("append")
        BY <1>3, <3>1, GotoType
           DEF AppendEvidence, StagesConsistent, Stages, Rolling, Draining, Issued, Run
      <3> QED BY <1>3, <3>1, ReleaseConsistent DEF AppendEvidence
    <2> QED BY <1>3, <2>2, <2>3 DEF AppendEvidence, TypeOK, coordination, environment
  <1>4. CASE AppendActivity
    <2>1. op' \in Operations /\ StagesConsistent'
      BY <1>4, ReleaseConsistent DEF AppendActivity
    <2>2. /\ history' \in Seq(Events)
          /\ live' \subseteq DOMAIN history' /\ archived \subseteq DOMAIN history'
      <3>1. history \in Seq(Events) /\ op.event \in Events /\ Len(history) \in Nat
        BY DEF TypeOK, Operations
      <3>2. live \subseteq 1..Len(history) /\ archived \subseteq 1..Len(history)
        BY <3>1 DEF TypeOK
      <3>3. CASE Appendable(log, op.event)
        <4>1. history' = Append(history, op.event) /\ live' = live \cup {Len(history) + 1}
          BY <1>4, <3>3 DEF AppendActivity
        <4>2. history' \in Seq(Events) /\ DOMAIN history' = 1..(Len(history) + 1)
          BY <3>1, <4>1
        <4>3. 1..Len(history) \subseteq 1..(Len(history) + 1)
              /\ Len(history) + 1 \in 1..(Len(history) + 1)
          BY <3>1
        <4>4. live' \subseteq 1..(Len(history) + 1) /\ archived \subseteq 1..(Len(history) + 1)
          BY <3>2, <4>1, <4>3
        <4> QED BY <4>2, <4>4
      <3>4. CASE ~Appendable(log, op.event)
        BY <1>4, <3>4 DEF AppendActivity, TypeOK
      <3> QED BY <3>3, <3>4
    <2> QED BY <1>4, <2>1, <2>2 DEF AppendActivity, TypeOK, environment, StartsFiled
  <1> QED BY <1>1, <1>2, <1>3, <1>4

\* The steps that prepare and archive a start, or register a trigger.
LEMMA StartStepTypes ==
    ASSUME TypeOK, StagesConsistent, StartsFiled,
           \/ \E expected \in Triggers \cup {None} : RegisterTrigger(expected)
           \/ \E r \in Runs : ValidateInputs(r)
           \/ \E s \in Signals : ArchiveInput(s)
           \/ WriteStart
    PROVE  TypeOK' /\ StagesConsistent' /\ StartsFiled'
  <1>1. ASSUME NEW expected, RegisterTrigger(expected)
        PROVE  TypeOK' /\ StagesConsistent' /\ StartsFiled'
    <2>1. op' \in Operations /\ StagesConsistent'
      <3>1. CASE op' = [op EXCEPT !.stage = "append", !.event.at = clock]
        <4>1. op \in Operations /\ op.event \in Events /\ clock \in Nat
          BY DEF TypeOK, Operations
        <4>2. [op.event EXCEPT !.at = clock] \in Events
          BY <4>1 DEF Events
        <4>3. op' = [op EXCEPT !.stage = "append", !.event = [op.event EXCEPT !.at = clock]]
          BY <3>1, <4>1 DEF Operations
        <4>4. op' \in Operations
          BY <4>1, <4>2, <4>3 DEF Operations, Stages
        <4>5. op'.stage = "append" /\ op'.kind = op.kind /\ op'.event.run_id = op.event.run_id
          BY <4>1, <4>3 DEF Operations, Events
        <4> QED BY <4>4, <4>5 DEF StagesConsistent, Rolling, Draining, Issued, Run
      <3> QED BY <1>1, <3>1, ReleaseConsistent DEF RegisterTrigger
    <2> QED BY <1>1, <2>1, OnlyOpTypes DEF RegisterTrigger, StartsFiled
  <1>2. ASSUME NEW r \in Runs, ValidateInputs(r)
        PROVE  TypeOK' /\ StagesConsistent' /\ StartsFiled'
    <2>1. op' \in Operations /\ StagesConsistent'
      <3>1. CASE Release
        BY <3>1, ReleaseConsistent
      <3>2. CASE ~Release
        <4> DEFINE e == [op.event EXCEPT !.at = clock, !.run_id = r]
        <4>1. op \in Operations /\ op.event \in Events /\ clock \in Nat /\ op.kind = "start"
          BY <1>2 DEF TypeOK, Operations, ValidateInputs, StagesConsistent
        <4>2. e \in Events /\ e.run_id = r /\ e.selected = op.event.selected
          BY <4>1 DEF Events
        <4>3. op' = [op EXCEPT !.event.at = clock, !.event.run_id = r,
                               !.todo = DOMAIN op.event.selected, !.stage = "inputs"]
          BY <1>2, <3>2 DEF ValidateInputs
        <4>4. op' = [op EXCEPT !.event = e, !.todo = DOMAIN op.event.selected, !.stage = "inputs"]
          BY <4>1, <4>3 DEF Operations, Events
        <4> HIDE DEF e
        <4>5. DOMAIN op.event.selected \subseteq Signals
          BY <4>1, SelectedType
        <4>6. op' \in Operations
          BY <4>1, <4>2, <4>4, <4>5 DEF Operations, Stages
        <4>7. /\ op'.stage = "inputs" /\ op'.kind = "start" /\ op'.event = e
              /\ op'.todo = DOMAIN op.event.selected
          BY <4>1, <4>4 DEF Operations
        <4> QED BY <4>2, <4>6, <4>7 DEF StagesConsistent, Rolling, Draining, Issued, Run
      <3> QED BY <3>1, <3>2
    <2> QED BY <1>2, <2>1, OnlyOpTypes DEF ValidateInputs, StartsFiled
  <1>3. ASSUME NEW s \in Signals, ArchiveInput(s)
        PROVE  TypeOK' /\ StagesConsistent' /\ StartsFiled'
    <2>1. /\ op \in Operations /\ op.event \in Events /\ Run \in Runs /\ op.kind = "start"
          /\ op.stage = "inputs"
          /\ s \in DOMAIN op.event.selected /\ op.todo \subseteq DOMAIN op.event.selected
      BY <1>3 DEF ArchiveInput, TypeOK, StagesConsistent, Issued, Operations
    <2>2. op.event.selected[s] \in Contents
      BY <2>1 DEF Events, Selections
    <2> DEFINE c == op.event.selected[s]
    <2>3. evidence[Run] \in RunEvidence /\ evidence[Run].inputs \in Selections
      BY <2>1 DEF TypeOK, RunEvidence
    <2>4. WithInput(evidence[Run].inputs, s, c) \in Selections
      <3>1. PICK S \in SUBSET Signals : evidence[Run].inputs \in [S -> Contents]
        BY <2>3 DEF Selections
      <3> HIDE DEF c
      <3>2. WithInput(evidence[Run].inputs, s, c) \in [S \cup {s} -> Contents]
        BY <2>2, <3>1 DEF WithInput, c
      <3> QED BY <3>2 DEF Selections
    <2>5. evidence' = [evidence EXCEPT ![Run] =
                         [evidence[Run] EXCEPT !.inputs = WithInput(evidence[Run].inputs, s, c)]]
      BY <1>3 DEF ArchiveInput
    <2>6. [evidence[Run] EXCEPT !.inputs = WithInput(evidence[Run].inputs, s, c)] \in RunEvidence
      <3> HIDE DEF c
      <3> QED BY <2>3, <2>4 DEF RunEvidence
    <2>7. evidence' \in [Runs -> RunEvidence]
      <3> HIDE DEF c
      <3> QED BY <2>1, <2>5, <2>6 DEF TypeOK
    <2>8. StartsFiled'
      <3>1. \A r \in Runs : evidence'[r].start = evidence[r].start
        BY <1>3 DEF ArchiveInput, TypeOK, RunEvidence
      <3> QED BY <3>1 DEF StartsFiled
    <2>9. op' = [op EXCEPT !.todo = op.todo \ {s}]
      BY <1>3 DEF ArchiveInput
    <2>10. /\ op' \in Operations /\ op'.stage = "inputs" /\ op'.kind = "start"
           /\ op'.event = op.event /\ op'.todo \subseteq op.todo
      BY <2>1, <2>9 DEF Operations
    <2>11. StagesConsistent'
      BY <2>1, <2>10 DEF StagesConsistent, Rolling, Draining, Issued, Run
    <2> QED BY <1>3, <2>7, <2>8, <2>10, <2>11 DEF ArchiveInput, TypeOK, coordination, environment
  <1>4. CASE WriteStart
    <2>1. op \in Operations /\ op.event \in Events /\ Run \in Runs /\ op.kind = "start"
      BY <1>4 DEF WriteStart, TypeOK, StagesConsistent, Issued, Operations
    <2>2. evidence' = [evidence EXCEPT ![Run].start = op.event]
      BY <1>4 DEF WriteStart
    <2>3. evidence' \in [Runs -> RunEvidence]
      BY <2>1, <2>2 DEF TypeOK, RunEvidence
    <2>4. StartsFiled'
      <3>1. \A r \in Runs : evidence'[r].start = IF r = Run THEN op.event ELSE evidence[r].start
        BY <2>1, <2>2 DEF TypeOK, RunEvidence
      <3> QED BY <2>1, <3>1 DEF StartsFiled, Run
    <2>5. Record("compound.start") \in Records
      BY RecordType DEF RecordKinds
    <2>6. op' = [op EXCEPT !.stage = "evidence", !.record = Record("compound.start")]
      BY <1>4 DEF WriteStart
    <2>7. /\ op' \in Operations /\ op'.stage = "evidence" /\ op'.kind = "start"
          /\ op'.event = op.event /\ op'.record \in Records
      BY <2>1, <2>5, <2>6 DEF Operations, Stages
    <2>8. StagesConsistent'
      BY <2>1, <2>7 DEF StagesConsistent, Rolling, Draining, Issued, Run
    <2> QED BY <1>4, <2>3, <2>4, <2>7, <2>8 DEF WriteStart, TypeOK, coordination, environment
  <1> QED BY <1>1, <1>2, <1>3, <1>4

\* An unlink removes bytes of some signal on behalf of a run.
LEMMA UnlinkTypes ==
    ASSUME TypeOK, StagesConsistent, op.stage = "unlink", inbox[op.signal] # Absent, Unlink
    PROVE  /\ inbox' \in [Signals -> Contents \cup {Absent}]
           /\ removed' \subseteq [run: Runs, signal: Signals, content: Contents]
           /\ UNCHANGED <<configured, clock>>
  <1>1. op.signal \in Signals /\ Run \in Runs
    BY DEF StagesConsistent, Draining
  <1>2. inbox[op.signal] \in Contents
    BY <1>1 DEF TypeOK
  <1> QED BY <1>1, <1>2 DEF Unlink, TypeOK

\* The steps of a drain.
LEMMA DrainStepTypes ==
    ASSUME TypeOK, StagesConsistent, StartsFiled,
           \/ WriteIntent \/ SelectCandidates
           \/ \E s \in Signals : VerifyInput(s)
           \/ RemoveInput \/ Acknowledge \/ ReportDrain
    PROVE  TypeOK' /\ StagesConsistent' /\ StartsFiled'
  <1>1. op \in Operations
    BY DEF TypeOK
  <1>2. CASE WriteIntent
    <2>1. Record("compound.drain.intent") \in Records
      BY RecordType DEF RecordKinds
    <2>2. evidence' \in [Runs -> RunEvidence] /\ StartsFiled'
      BY <1>2, <2>1, EvidenceKept DEF WriteIntent
    <2>3. op' \in Operations /\ StagesConsistent'
      <3>1. CASE Goto("select")
        BY <1>2, <3>1, GotoType
           DEF WriteIntent, StagesConsistent, Stages, Rolling, Draining, Issued, Run
      <3> QED BY <1>2, <3>1, ReleaseConsistent DEF WriteIntent
    <2> QED BY <1>2, <2>2, <2>3 DEF WriteIntent, TypeOK, coordination, environment
  <1>3. CASE SelectCandidates
    <2>1. op' = [op EXCEPT !.stage = "remove", !.todo = {s \in op.todo : Candidate(s)}]
      BY <1>3 DEF SelectCandidates
    <2>2. /\ op' \in Operations /\ op'.stage = "remove" /\ op'.kind = op.kind
          /\ op'.event = op.event
      BY <1>1, <2>1 DEF Operations, Stages
    <2>3. StagesConsistent'
      BY <1>3, <2>2
         DEF SelectCandidates, StagesConsistent, Rolling, Draining, Issued, Run
    <2> QED BY <1>3, <2>2, <2>3, OnlyOpTypes DEF SelectCandidates, StartsFiled
  <1>4. ASSUME NEW s \in Signals, VerifyInput(s)
        PROVE  TypeOK' /\ StagesConsistent' /\ StartsFiled'
    <2>0. CASE Release
      BY <1>4, <2>0, ReleaseConsistent, OnlyOpTypes DEF VerifyInput, StartsFiled
    <2> SUFFICES ASSUME ~Release PROVE TypeOK' /\ StagesConsistent' /\ StartsFiled'
      BY <2>0
    <2>1. op' = [op EXCEPT !.todo = op.todo \ {s},
                           !.stage = IF Unchanged(s) THEN "unlink" ELSE op.stage,
                           !.signal = IF Unchanged(s) THEN s ELSE op.signal]
      BY <1>4 DEF VerifyInput
    <2>2. /\ op' \in Operations /\ op'.kind = op.kind /\ op'.event = op.event
          /\ \/ op'.stage = "unlink" /\ op'.signal = s
             \/ op'.stage = "remove"
      <3>1. op.stage = "remove"
        BY <1>4 DEF VerifyInput
      <3>2. CASE Unchanged(s)
        <4>1. op' = [op EXCEPT !.todo = op.todo \ {s}, !.stage = "unlink", !.signal = s]
          BY <2>1, <3>2
        <4> QED BY <1>1, <4>1 DEF Operations, Stages
      <3>3. CASE ~Unchanged(s)
        <4>1. op' = [op EXCEPT !.todo = op.todo \ {s}, !.stage = op.stage, !.signal = op.signal]
          BY <2>1, <3>3
        <4> QED BY <1>1, <3>1, <4>1 DEF Operations, Stages
      <3> QED BY <3>2, <3>3
    <2>3. StagesConsistent'
      BY <1>4, <2>2 DEF VerifyInput, StagesConsistent, Rolling, Draining, Issued, Run
    <2> QED BY <1>4, <2>2, <2>3, OnlyOpTypes DEF VerifyInput, StartsFiled
  <1>5. CASE RemoveInput
    <2>1. op.stage = "unlink" /\ op.signal \in Signals /\ Run \in Runs
      BY <1>5 DEF RemoveInput, StagesConsistent, Draining
    <2>2. CASE inbox[op.signal] # Absent
      <3>1. op' = [op EXCEPT !.stage = "acknowledge", !.done = op.done \cup {op.signal}]
        BY <1>5, <2>2 DEF RemoveInput
      <3>2. /\ op' \in Operations /\ op'.stage = "acknowledge" /\ op'.kind = op.kind
            /\ op'.event = op.event /\ op'.signal = op.signal
        BY <1>1, <2>1, <3>1 DEF Operations, Stages
      <3>3. StagesConsistent'
        BY <2>1, <3>2 DEF StagesConsistent, Rolling, Draining, Issued, Run
      <3>4. Unlink
        BY <1>5, <2>2 DEF RemoveInput
      <3> QED BY <1>5, <2>1, <2>2, <3>2, <3>3, <3>4, UnlinkTypes
              DEF RemoveInput, TypeOK, coordination, StartsFiled
    <2>3. CASE inbox[op.signal] = Absent
      <3>1. Goto("remove")
        BY <1>5, <2>3 DEF RemoveInput
      <3>2. op' \in Operations /\ StagesConsistent'
        BY <2>1, <3>1, GotoType
           DEF StagesConsistent, Stages, Rolling, Draining, Issued, Run
      <3> QED BY <1>5, <2>3, <3>2, OnlyOpTypes DEF RemoveInput, StartsFiled
    <2> QED BY <2>2, <2>3
  <1>6. CASE Acknowledge
    <2>1. /\ op.signal \in Signals /\ Run \in Runs
      BY <1>6 DEF Acknowledge, StagesConsistent, Draining
    <2>2. evidence' \in [Runs -> RunEvidence] /\ StartsFiled'
      BY <1>6, <2>1, AcknowledgementKept DEF Acknowledge
    <2>3. op' \in Operations /\ StagesConsistent'
      BY <1>6, <2>1, GotoType
         DEF Acknowledge, StagesConsistent, Stages, Rolling, Draining, Issued, Run
    <2> QED BY <1>6, <2>2, <2>3 DEF Acknowledge, TypeOK, coordination, environment
  <1>7. CASE ReportDrain
    <2>1. op' \in Operations /\ StagesConsistent'
      BY <1>7, ReleaseConsistent DEF ReportDrain
    <2>2. evidence' \in [Runs -> RunEvidence] /\ StartsFiled'
      <3> DEFINE c == [Record("compound.drain") EXCEPT
                !.drained = op.done,
                !.retained = DOMAIN op.event.selected \ (RecordedDrained(Run) \cup op.done)]
      <3>1. DOMAIN op.event.selected \subseteq Signals /\ op.done \subseteq Signals
        BY <1>1, SelectedType DEF Operations
      <3>2. Record("compound.drain") \in Records
        BY RecordType DEF RecordKinds
      <3>3. c \in Records
        BY <3>1, <3>2 DEF Records
      <3>4. evidence' \in {evidence, Written(Run, c)}
        BY <1>7 DEF ReportDrain
      <3> HIDE DEF c
      <3> QED BY <3>3, <3>4, EvidenceKept
    <2> QED BY <1>7, <2>1, <2>2 DEF ReportDrain, TypeOK, coordination, environment
  <1> QED BY <1>2, <1>3, <1>4, <1>5, <1>6, <1>7

\* What the environment does, and what a failure leaves behind.
LEMMA OtherStepTypes ==
    ASSUME TypeOK, StagesConsistent, StartsFiled, Fail \/ Unlocked
    PROVE  TypeOK' /\ StagesConsistent' /\ StartsFiled'
  <1>1. Faulty /\ Fault => spent' \in [faults: Nat, edits: Nat, regress: Nat]
    BY DEF Fault, TypeOK
  <1>2. CASE RemoveUnsynced
    <2>1. op.stage = "unlink" /\ op.signal \in Signals /\ Run \in Runs /\ Goto("remove")
      BY <1>2 DEF RemoveUnsynced, StagesConsistent, Draining
    <2>2. op' \in Operations /\ StagesConsistent'
      BY <2>1, GotoType DEF StagesConsistent, Stages, Rolling, Draining, Issued, Run
    <2> QED BY <1>1, <1>2, <2>2, UnlinkTypes
            DEF RemoveUnsynced, TypeOK, coordination, StartsFiled
  <1>3. CASE AcknowledgeFails
    <2>1. op.signal \in Signals /\ Run \in Runs /\ op.stage = "acknowledge" /\ Goto("report")
      BY <1>3 DEF AcknowledgeFails, StagesConsistent, Draining
    <2>2. evidence' \in [Runs -> RunEvidence] /\ StartsFiled'
      BY <1>3, <2>1, AcknowledgementKept DEF AcknowledgeFails
    <2>3. op' \in Operations /\ StagesConsistent'
      BY <2>1, GotoType DEF StagesConsistent, Stages, Rolling, Draining, Issued, Run
    <2> QED BY <1>1, <1>3, <2>2, <2>3 DEF AcknowledgeFails, TypeOK, coordination, environment
  <1>4. CASE DrainInterrupted
    <2>1. Run \in Runs /\ op.stage \in {"unlink", "remove"} /\ Goto("report")
      BY <1>4 DEF DrainInterrupted, StagesConsistent, Draining
    <2>2. op' \in Operations /\ StagesConsistent'
      BY <2>1, GotoType DEF StagesConsistent, Stages, Rolling, Draining, Issued, Run
    <2> QED BY <1>1, <1>4, <2>2
            DEF DrainInterrupted, TypeOK, coordination, environment, StartsFiled
  <1>5. CASE Interrupt
    <2>1. op' \in Operations /\ StagesConsistent'
      BY <1>5, ReleaseConsistent DEF Interrupt
    <2> QED BY <1>1, <1>5, <2>1
            DEF Interrupt, TypeOK, coordination, environment, StartsFiled
  <1>6. CASE InterruptEvidence
    <2>1. op' \in Operations /\ StagesConsistent'
      BY <1>6, ReleaseConsistent DEF InterruptEvidence
    <2>2. Record("validate") \in Records
      BY RecordType DEF RecordKinds
    <2>3. evidence' \in [Runs -> RunEvidence] /\ StartsFiled'
      BY <1>6, <2>2, EvidenceKept DEF InterruptEvidence
    <2> QED BY <1>1, <1>6, <2>1, <2>3
            DEF InterruptEvidence, TypeOK, coordination, environment
  <1>7. CASE InterruptActivity
    <2>1. op' \in Operations /\ StagesConsistent'
      BY <1>7, ReleaseConsistent DEF InterruptActivity
    <2> QED BY <1>1, <1>7, <2>1
            DEF InterruptActivity, TypeOK, coordination, environment, StartsFiled
  <1>8. CASE Unlocked
    <2>1. UNCHANGED <<coordination, evidence, op, removed>>
      BY <1>8 DEF Unlocked, Tick, Regress, EditSignal, EditConfiguration
    <2>2. StagesConsistent' /\ StartsFiled'
      BY <2>1 DEF StagesConsistent, StartsFiled, Run
    <2>3. /\ inbox' \in [Signals -> Contents \cup {Absent}]
          /\ configured' \in [Workspaces -> Triggers \cup {None}]
          /\ clock' \in Nat
          /\ spent' \in [faults: Nat, edits: Nat, regress: Nat]
      <3>1. CASE Tick
        BY <3>1 DEF Tick, TypeOK
      <3>2. ASSUME NEW t \in 0..MaxClock, Regress(t)
            PROVE  clock' \in Nat /\ spent' \in [faults: Nat, edits: Nat, regress: Nat]
                   /\ UNCHANGED <<inbox, configured>>
        BY <3>2 DEF Regress, TypeOK
      <3>3. ASSUME NEW s \in Signals, NEW content \in Contents \cup {Absent},
                   EditSignal(s, content)
            PROVE  /\ inbox' \in [Signals -> Contents \cup {Absent}]
                   /\ spent' \in [faults: Nat, edits: Nat, regress: Nat]
                   /\ UNCHANGED <<configured, clock>>
        BY <3>3 DEF EditSignal, Edit, TypeOK
      <3>4. ASSUME NEW ws \in Workspaces, NEW trigger \in Triggers \cup {None},
                   EditConfiguration(ws, trigger)
            PROVE  /\ configured' \in [Workspaces -> Triggers \cup {None}]
                   /\ spent' \in [faults: Nat, edits: Nat, regress: Nat]
                   /\ UNCHANGED <<inbox, clock>>
        BY <3>4 DEF EditConfiguration, Edit, TypeOK
      <3> QED BY <1>8, <3>1, <3>2, <3>3, <3>4 DEF Unlocked, TypeOK
    <2> QED BY <2>1, <2>2, <2>3 DEF TypeOK, coordination
  <1> QED BY <1>2, <1>3, <1>4, <1>5, <1>6, <1>7, <1>8 DEF Fail

\* The type invariant with what each stage takes for granted is inductive.
Typed == TypeOK /\ StagesConsistent /\ StartsFiled

\* The empty store is well typed.
LEMMA InitTypes == Init => Typed
  <1> SUFFICES ASSUME Init PROVE Typed
    OBVIOUS
  <1>1. NoEvidence \in RunEvidence
    <2>1. NoSelection \in Selections
      BY IdleType DEF Idle, Blank, Events
    <2> QED BY <2>1 DEF NoEvidence, RunEvidence
  <1>2. StagesConsistent
    BY DEF Init, Idle, StagesConsistent, Rolling, Draining, Issued
  <1>3. StartsFiled
    BY DEF Init, NoEvidence, StartsFiled
  <1>4. history \in Seq(Events) /\ live \subseteq DOMAIN history /\ archived \subseteq DOMAIN history
    BY DEF Init
  <1>5. evidence \in [Runs -> RunEvidence] /\ op \in Operations
    BY <1>1, IdleType DEF Init
  <1>6. TypeOK
    BY <1>4, <1>5 DEF Init, TypeOK
  <1> QED BY <1>2, <1>3, <1>6 DEF Typed

\* Every step keeps the types and what they rest on.
LEMMA NextTypes == Typed /\ [Next]_vars => Typed'
  <1> SUFFICES ASSUME Typed, [Next]_vars PROVE Typed'
    OBVIOUS
  <1> USE DEF Typed
  <1>1. CASE Begin
    <2>1. UNCHANGED evidence
      BY <1>1, BeginLeaves
    <2> QED BY <1>1, <2>1, BeginTypes DEF StartsFiled
  <1>2. CASE Proceed
    BY <1>2, LogStepTypes, StartStepTypes, DrainStepTypes DEF Proceed
  <1>3. CASE Fail \/ Unlocked
    BY <1>3, OtherStepTypes
  <1>4. CASE UNCHANGED vars
    BY <1>4 DEF vars, coordination, environment, TypeOK, StagesConsistent, StartsFiled, Run
  <1> QED BY <1>1, <1>2, <1>3, <1>4 DEF Next

\* Every reachable state of the lifecycle is well typed, for any number of runs,
\* signals, workspaces and workers and for any log bound.
THEOREM TypeCorrect == Spec => []TypeOK
  <1>1. Spec => []Typed
    BY InitTypes, NextTypes, PTL DEF Spec
  <1> QED BY <1>1, PTL DEF Typed

-----------------------------------------------------------------------------
(* At most one run is unfinished. *)

\* Adding one line changes the runs started and ended by that line only,
\* whether the lines are the whole history or what rollover left of it.
LEMMA OneMoreLine ==
    ASSUME NEW f, NEW g, NEW n, NEW e, n \notin DOMAIN f,
           DOMAIN g = DOMAIN f \cup {n}, g[n] = e, \A i \in DOMAIN f : g[i] = f[i]
    PROVE  /\ Started(g) = Started(f) \cup (IF e.event = "start" THEN {e.run_id} ELSE {})
           /\ Ended(g) = Ended(f) \cup (IF e.event = "end" THEN {e.run_id} ELSE {})
  <1>1. ASSUME NEW kind
        PROVE  {g[i].run_id : i \in At(g, kind)} =
                 {f[i].run_id : i \in At(f, kind)}
                 \cup (IF e.event = kind THEN {e.run_id} ELSE {})
    <2>1. At(g, kind) = At(f, kind) \cup (IF e.event = kind THEN {n} ELSE {})
      BY DEF At
    <2>2. At(f, kind) \subseteq DOMAIN f
      BY DEF At
    <2> QED BY <2>1, <2>2
  <1> QED BY <1>1 DEF Started, Ended

\* The log file and the history grow by the same line.
LEMMA AppendedRuns ==
    ASSUME TypeOK, history' = Append(history, op.event), live' = live \cup {Len(history) + 1}
    PROVE  LET S == IF op.event.event = "start" THEN {Run} ELSE {}
               E == IF op.event.event = "end" THEN {Run} ELSE {}
           IN  /\ Started(history)' = Started(history) \cup S
               /\ Ended(history)' = Ended(history) \cup E
               /\ Started(log)' = Started(log) \cup S
               /\ Ended(log)' = Ended(log) \cup E
  <1> DEFINE n == Len(history) + 1
  <1>1. history \in Seq(Events) /\ op.event \in Events /\ Len(history) \in Nat
    BY DEF TypeOK, Operations
  <1>2. /\ DOMAIN history = 1..Len(history)
        /\ DOMAIN history' = 1..n /\ history'[n] = op.event
        /\ \A i \in 1..Len(history) : history'[i] = history[i]
    BY <1>1
  <1>3. n \notin 1..Len(history) /\ 1..n = 1..Len(history) \cup {n}
    BY <1>1
  <1>4. live \subseteq 1..Len(history)
    BY <1>2 DEF TypeOK
  <1>5. /\ DOMAIN log = live /\ DOMAIN log' = live \cup {n} /\ log'[n] = op.event
        /\ n \notin live /\ \A i \in live : log'[i] = log[i]
    <2> HIDE DEF n
    <2>1. live' = live \cup {n}
      BY DEF n
    <2> QED BY <1>2, <1>3, <1>4, <2>1 DEF log, Restrict
  <1> HIDE DEF n
  <1>6. /\ Started(history') = Started(history)
              \cup (IF op.event.event = "start" THEN {op.event.run_id} ELSE {})
        /\ Ended(history') = Ended(history)
              \cup (IF op.event.event = "end" THEN {op.event.run_id} ELSE {})
    <2>1. /\ n \notin DOMAIN history /\ DOMAIN history' = DOMAIN history \cup {n}
          /\ history'[n] = op.event /\ \A i \in DOMAIN history : history'[i] = history[i]
      BY <1>2, <1>3
    <2> DEFINE f == history
               g == history'
               e == op.event
    <2>2. /\ n \notin DOMAIN f /\ DOMAIN g = DOMAIN f \cup {n}
          /\ g[n] = e /\ \A i \in DOMAIN f : g[i] = f[i]
      BY <2>1
    <2> HIDE DEF f, g, e
    <2>3. /\ Started(g) = Started(f) \cup (IF e.event = "start" THEN {e.run_id} ELSE {})
          /\ Ended(g) = Ended(f) \cup (IF e.event = "end" THEN {e.run_id} ELSE {})
      BY <2>2, OneMoreLine
    <2> QED BY <2>3 DEF f, g, e
  <1>7. /\ Started(log') = Started(log)
              \cup (IF op.event.event = "start" THEN {op.event.run_id} ELSE {})
        /\ Ended(log') = Ended(log)
              \cup (IF op.event.event = "end" THEN {op.event.run_id} ELSE {})
    BY <1>5, OneMoreLine
  <1> QED BY <1>6, <1>7 DEF Run, Started, Ended, At

\* What the log file holds, the history holds.
LEMMA LogWithinHistory ==
    ASSUME TypeOK
    PROVE  Started(log) \subseteq Started(history) /\ Ended(log) \subseteq Ended(history)
  BY DEF TypeOK, Started, Ended, At, log, Restrict

\* A rollover keeps both lines of every run it keeps any of: unfinished runs stay
\* unfinished and no finished run comes back to life.
LEMMA RolloverKeepsActive ==
    ASSUME TypeOK, live' = Retained(log), history' = history
    PROVE  ActiveRuns(log)' = ActiveRuns(log)
  <1>1. /\ DOMAIN log = live /\ DOMAIN log' = Retained(log)
        /\ \A i \in Retained(log) : i \in live /\ log'[i] = log[i]
    BY RetainedLines DEF log, Restrict
  <1>2. ASSUME NEW i \in DOMAIN log, log[i].event \in {"start", "end"}
        PROVE  i \in Retained(log) <=> log[i].run_id \in RetainedRuns(log)
    BY <1>2 DEF Retained, LatestIn, At
  <1>3. ActiveRuns(log) \subseteq RetainedRuns(log)
    BY DEF RetainedRuns
  <1>4. Started(log') = Started(log) \cap RetainedRuns(log)
    BY <1>1, <1>2 DEF Started, At
  <1>5. Ended(log') = Ended(log) \cap RetainedRuns(log)
    BY <1>1, <1>2 DEF Ended, At
  <1>6. ActiveRuns(log') = ActiveRuns(log)
    BY <1>3, <1>4, <1>5 DEF ActiveRuns
  <1> QED BY <1>6 DEF ActiveRuns, Started, Ended, At

\* A step that keeps the event in hand and does not come closer to logging it.
LEMMA EventKept ==
    ASSUME EventMatches, history' = history, op'.kind = op.kind, op'.event = op.event,
           op'.stage = op.stage \/ op'.stage \notin {"register", "inputs", "evidence", "append"}
    PROVE  EventMatches'
  BY DEF EventMatches, Issued, Run, ActiveRuns, Started, Ended, At

\* Without an operation in hand there is no event to match.
LEMMA ReleasedEvent ==
    ASSUME Release
    PROVE  EventMatches'
  BY DEF Release, Idle, EventMatches

\* Every operation begins with the event it will log.
LEMMA BeginMatches ==
    ASSUME Typed, EventMatches, ActiveTransparent, Begin
    PROVE  EventMatches'
  <1>1. history' = history
    BY BeginLeaves DEF coordination
  <1>2. Idle \in Operations /\ Blank \in Events
    BY IdleType
  <1>3. PICK ws \in Workspaces :
            \/ BeginTrigger(ws)
            \/ \E selected \in Batches, automatic \in Modes,
                  worker \in Workers \cup {None}, recovery \in Runs \cup {None}, size \in Sizes :
                  BeginStart(ws, selected, automatic, worker, recovery, size)
            \/ \E r \in Runs :
                  \/ \E worker \in Workers : BeginWorker(ws, r, worker)
                  \/ \E completion \in Reports,
                        dispositions \in SUBSET Signals, size \in Sizes :
                        BeginFinish(ws, r, completion, dispositions, size)
                  \/ \E approved \in SUBSET Signals : BeginDrain(ws, r, approved)
    BY DEF Begin
  <1>4. ASSUME NEW o, o.kind \in {"start", "trigger", "worker"}, op' = AfterRollover(o),
               o \in Operations
        PROVE  /\ op'.kind = o.kind /\ op'.event = o.event
               /\ op'.stage = "append" => o.kind = "worker"
               /\ op'.stage = "evidence" => o.kind = "worker"
               /\ op'.stage = "register" => o.kind = "trigger"
               /\ op'.stage # "inputs"
    BY <1>4 DEF AfterRollover, Resume, Operations
  <1>5. CASE BeginTrigger(ws)
    <2> DEFINE e == [Blank EXCEPT !.workspace_id = ws, !.trigger = configured[ws]]
               o == [Idle EXCEPT !.kind = "trigger", !.loaded = configured[ws], !.event = e]
    <2>1. op' = AfterRollover(o)
      BY <1>5 DEF BeginTrigger
    <2>2. e \in Events /\ e.event = "trigger"
      BY <1>2 DEF Events, TypeOK, Typed, Blank
    <2>3. o \in Operations /\ o.kind = "trigger" /\ o.event = e
      <3>1. configured[ws] \in Triggers \cup {None}
        BY DEF TypeOK, Typed
      <3> HIDE DEF e
      <3> QED BY <1>2, <2>2, <3>1 DEF Operations, Kinds
    <2> HIDE DEF e, o
    <2> QED BY <1>4, <2>1, <2>2, <2>3 DEF EventMatches, Issued, Run
  <1>6. ASSUME NEW selected \in Batches, NEW automatic \in Modes,
               NEW worker \in Workers \cup {None}, NEW recovery \in Runs \cup {None},
               NEW size \in Sizes,
               BeginStart(ws, selected, automatic, worker, recovery, size)
        PROVE  EventMatches'
    <2> DEFINE e == [Blank EXCEPT
                       !.event = "start", !.workspace_id = ws, !.automatic = automatic,
                       !.worker_id = worker, !.recovery_of = recovery,
                       !.selected = selected, !.size = size]
               o == [Idle EXCEPT !.kind = "start", !.loaded = configured[ws], !.event = e]
    <2>1. op' = AfterRollover(o)
      BY <1>6 DEF BeginStart
    <2>2. e \in Events /\ e.event = "start"
      <3>1. selected \in Selections /\ automatic \in BOOLEAN /\ size \in Nat
        BY CallersAssumption
      <3> QED BY <1>2, <3>1 DEF Events
    <2>3. o \in Operations /\ o.kind = "start" /\ o.event = e
      <3>1. configured[ws] \in Triggers \cup {None}
        BY DEF TypeOK, Typed
      <3> HIDE DEF e
      <3> QED BY <1>2, <2>2, <3>1 DEF Operations, Kinds
    <2>4. ActiveRuns(history)' = {}
      <3>1. ActiveRuns(history) = {}
        BY <1>6 DEF BeginStart, ActiveTransparent
      <3> QED BY <1>1, <3>1 DEF ActiveRuns, Started, Ended, At
    <2> HIDE DEF e, o
    <2> QED BY <1>4, <2>1, <2>2, <2>3, <2>4 DEF EventMatches, Issued, Run
  <1>7. ASSUME NEW r \in Runs, NEW worker \in Workers, BeginWorker(ws, r, worker)
        PROVE  EventMatches'
    <2> DEFINE e == [Blank EXCEPT !.event = "worker", !.run_id = r,
                                  !.workspace_id = ws, !.at = clock, !.worker_id = worker]
               c == IF Merge(Recorded(r), worker) = Recorded(r) THEN None
                    ELSE [Record("compound.worker") EXCEPT !.worker_id = worker]
               o == [Idle EXCEPT !.kind = "worker", !.loaded = configured[ws],
                                 !.event = e, !.record = c]
    <2>1. op' = AfterRollover(o)
      BY <1>7 DEF BeginWorker
    <2>2. e \in Events /\ e.event = "worker"
      BY <1>2 DEF Events, TypeOK, Typed
    <2>3. c \in Records \cup {None}
      <3>1. Record("compound.worker") \in Records
        BY RecordType DEF RecordKinds
      <3> QED BY <3>1 DEF Records
    <2>4. o \in Operations /\ o.kind = "worker" /\ o.event = e
      <3>1. configured[ws] \in Triggers \cup {None}
        BY DEF TypeOK, Typed
      <3> HIDE DEF e, c
      <3> QED BY <1>2, <2>2, <2>3, <3>1 DEF Operations, Kinds
    <2> HIDE DEF e, o
    <2> QED BY <1>4, <2>1, <2>2, <2>4 DEF EventMatches, Issued, Run
  <1>8. ASSUME NEW r \in Runs, NEW completion \in Reports,
               NEW dispositions \in SUBSET Signals, NEW size \in Sizes,
               BeginFinish(ws, r, completion, dispositions, size)
        PROVE  EventMatches'
    <2>1. Recorded(r) \in Events /\ Recorded(r).run_id = r /\ r \in Started(log)
      BY <1>8, RecordedOf DEF BeginFinish, ActiveRun, Resolvable, Typed, ActiveRuns
    <2>2. op'.kind = "finish" /\ op'.stage = "evidence"
      BY <1>2, <1>8 DEF BeginFinish, Operations
    <2>3. op'.event.event = "end" /\ op'.event.run_id = r
      <3> DEFINE active == Recorded(r)
                 e == [active EXCEPT !.event = "end", !.at = clock,
                            !.selected = NoSelection, !.dispositions = dispositions,
                            !.drained = RecordedDrained(r), !.completion = completion, !.size = size]
      <3>1. op'.event = e
        BY <1>2, <1>8 DEF BeginFinish, Operations
      <3> HIDE DEF active
      <3>2. e.event = "end" /\ e.run_id = active.run_id
        BY <2>1 DEF Events, active
      <3> HIDE DEF e
      <3> QED BY <2>1, <3>1, <3>2 DEF active
    <2>4. r \in Started(history')
      BY <1>1, <2>1, LogWithinHistory DEF Typed, Started, At
    <2> QED BY <2>2, <2>3, <2>4 DEF EventMatches, Run, Started, At
  <1>9. ASSUME NEW r \in Runs, NEW approved \in SUBSET Signals, BeginDrain(ws, r, approved)
        PROVE  EventMatches'
    <2>1. op'.kind = "drain" /\ op'.stage = "intent"
      BY <1>2, <1>9 DEF BeginDrain, Operations
    <2> QED BY <2>1 DEF EventMatches
  <1> QED BY <1>3, <1>5, <1>6, <1>7, <1>8, <1>9

\* The lock holder's steps keep that event until it is logged.
LEMMA ProceedMatches ==
    ASSUME Typed, EventMatches, Proceed, ~AppendActivity
    PROVE  EventMatches'
  <1>1. op \in Operations /\ op.event \in Events
    BY DEF Typed, TypeOK, Operations
  <1>2. history' = history
    BY DEF Proceed, ArchiveLog, ReplaceLog, AppendEvidence, RegisterTrigger, ValidateInputs,
           ArchiveInput, WriteStart, WriteIntent, SelectCandidates, VerifyInput, RemoveInput,
           Acknowledge, ReportDrain, coordination
  <1>3. ASSUME NEW stage \in Stages \ {"register", "inputs", "evidence", "append"}, Goto(stage)
        PROVE  EventMatches'
    <2>1. op'.kind = op.kind /\ op'.event = op.event /\ op'.stage = stage
      BY <1>3, GotoType DEF Typed
    <2> QED BY <1>2, <1>3, <2>1, EventKept
  <1>4. ASSUME ArchiveLog \/ WriteIntent \/ Acknowledge \/ ReportDrain
        PROVE  EventMatches'
    <2>1. \/ Release
          \/ \E stage \in {"replace", "select", "remove", "report"} : Goto(stage)
      BY <1>4 DEF ArchiveLog, WriteIntent, Acknowledge, ReportDrain
    <2> QED BY <1>3, <2>1, ReleasedEvent DEF Stages
  <1>5. CASE ReplaceLog
    <2>1. op.kind \in {"start", "trigger", "worker"} /\ op' = [op EXCEPT !.stage = Resume(op)]
      BY <1>5 DEF ReplaceLog, Typed, StagesConsistent, Rolling, Goto
    <2>2. op'.kind = op.kind /\ op'.event = op.event /\ op'.stage = Resume(op)
      BY <1>1, <2>1 DEF Operations
    <2>3. /\ op.kind = "start" => Resume(op) = "validate"
          /\ op.kind = "trigger" => Resume(op) = "register"
          /\ op.kind = "worker" => Resume(op) \in {"evidence", "append"}
      BY <1>1 DEF Resume, Operations
    <2> QED BY <1>2, <2>1, <2>2, <2>3
            DEF EventMatches, Issued, Run, ActiveRuns, Started, Ended, At
  <1>6. CASE AppendEvidence
    <2>1. CASE Goto("append")
      <3>1. op'.kind = op.kind /\ op'.event = op.event /\ op'.stage = "append"
        BY <2>1, GotoType DEF Typed, Stages
      <3>2. op.stage = "evidence"
        BY <1>6 DEF AppendEvidence
      <3> QED BY <1>2, <3>1, <3>2
              DEF EventMatches, Issued, Run, ActiveRuns, Started, Ended, At
    <2> QED BY <1>6, <2>1, ReleasedEvent DEF AppendEvidence
  <1>7. ASSUME NEW expected \in Triggers \cup {None}, RegisterTrigger(expected)
        PROVE  EventMatches'
    <2>1. CASE op' = [op EXCEPT !.stage = "append", !.event.at = clock]
      <3>1. op.kind = "trigger" /\ op.event.event = "trigger"
        BY <1>7 DEF RegisterTrigger, EventMatches
      <3>2. op'.kind = op.kind /\ op'.event.event = op.event.event /\ op'.stage = "append"
        BY <1>1, <2>1 DEF Operations, Events
      <3> QED BY <3>1, <3>2 DEF EventMatches
    <2> QED BY <1>7, <2>1, ReleasedEvent DEF RegisterTrigger
  <1>8. ASSUME NEW r \in Runs, ValidateInputs(r)
        PROVE  EventMatches'
    <2>1. CASE ~Release
      <3>1. op' = [op EXCEPT !.event.at = clock, !.event.run_id = r,
                             !.todo = DOMAIN op.event.selected, !.stage = "inputs"]
        BY <1>8, <2>1 DEF ValidateInputs
      <3>2. op.kind = "start" /\ op.stage = "validate"
        BY <1>8 DEF ValidateInputs, Typed, StagesConsistent
      <3>3. /\ op'.kind = "start" /\ op'.stage = "inputs"
            /\ op'.event.event = op.event.event /\ op'.event.run_id = r
        BY <1>1, <3>1, <3>2 DEF Operations, Events
      <3>4. r \notin Started(history)
        BY <1>8 DEF ValidateInputs, Unissued
      <3> QED BY <1>2, <3>2, <3>3, <3>4
              DEF EventMatches, Issued, Run, ActiveRuns, Started, Ended, At
    <2> QED BY <2>1, ReleasedEvent
  <1>9. ASSUME NEW s \in Signals, ArchiveInput(s)
        PROVE  EventMatches'
    <2>1. op' = [op EXCEPT !.todo = op.todo \ {s}]
      BY <1>9 DEF ArchiveInput
    <2>2. op'.kind = op.kind /\ op'.event = op.event /\ op'.stage = op.stage
      BY <1>1, <2>1 DEF Operations
    <2> QED BY <1>2, <2>2, EventKept
  <1>10. CASE WriteStart
    <2>1. op' = [op EXCEPT !.stage = "evidence", !.record = Record("compound.start")]
      BY <1>10 DEF WriteStart
    <2>2. op.kind = "start" /\ op.stage = "inputs"
      BY <1>10 DEF WriteStart, Typed, StagesConsistent
    <2>3. op'.kind = op.kind /\ op'.event = op.event /\ op'.stage = "evidence"
      BY <1>1, <2>1 DEF Operations
    <2> QED BY <1>2, <2>2, <2>3
            DEF EventMatches, Issued, Run, ActiveRuns, Started, Ended, At
  <1>11. CASE SelectCandidates
    <2>1. op' = [op EXCEPT !.stage = "remove", !.todo = {s \in op.todo : Candidate(s)}]
      BY <1>11 DEF SelectCandidates
    <2>2. op'.kind = op.kind /\ op'.event = op.event /\ op'.stage = "remove"
      BY <1>1, <2>1 DEF Operations
    <2> QED BY <1>2, <2>2, EventKept
  <1>12. ASSUME NEW s \in Signals, VerifyInput(s)
         PROVE  EventMatches'
    <2>0. CASE Release
      BY <2>0, ReleasedEvent
    <2> SUFFICES ASSUME ~Release PROVE EventMatches'
      BY <2>0
    <2>1. op' = [op EXCEPT !.todo = op.todo \ {s},
                           !.stage = IF Unchanged(s) THEN "unlink" ELSE op.stage,
                           !.signal = IF Unchanged(s) THEN s ELSE op.signal]
      BY <1>12 DEF VerifyInput
    <2>2. /\ op'.kind = op.kind /\ op'.event = op.event
          /\ op'.stage = op.stage \/ op'.stage = "unlink"
      BY <1>1, <2>1 DEF Operations
    <2> QED BY <1>2, <2>2, EventKept
  <1>13. CASE RemoveInput
    <2>1. CASE Goto("remove")
      BY <1>3, <2>1 DEF Stages
    <2>2. CASE op' = [op EXCEPT !.stage = "acknowledge", !.done = op.done \cup {op.signal}]
      <3>1. op'.kind = op.kind /\ op'.event = op.event /\ op'.stage = "acknowledge"
        BY <1>1, <2>2 DEF Operations
      <3> QED BY <1>2, <3>1, EventKept
    <2> QED BY <1>13, <2>1, <2>2 DEF RemoveInput
  <1> QED BY <1>4, <1>5, <1>6, <1>7, <1>8, <1>9, <1>10, <1>11, <1>12, <1>13 DEF Proceed

\* So do failures, which release the lock or end a drain's loop, and whoever
\* takes no lock.
LEMMA OtherMatches ==
    ASSUME Typed, EventMatches, Fail \/ Unlocked
    PROVE  EventMatches' /\ UNCHANGED <<history, live>>
  <1>1. UNCHANGED <<history, live>>
    BY DEF Fail, RemoveUnsynced, AcknowledgeFails, DrainInterrupted, Interrupt,
           InterruptEvidence, InterruptActivity, Unlocked, Tick, Regress, EditSignal,
           EditConfiguration, coordination
  <1>2. \/ Release \/ UNCHANGED op
        \/ \E stage \in {"remove", "report"} : Goto(stage)
    BY DEF Fail, RemoveUnsynced, AcknowledgeFails, DrainInterrupted, Interrupt,
           InterruptEvidence, InterruptActivity, Unlocked, Tick, Regress, EditSignal,
           EditConfiguration
  <1>3. ASSUME NEW stage \in {"remove", "report"}, Goto(stage)
        PROVE  EventMatches'
    <2>1. op'.kind = op.kind /\ op'.event = op.event /\ op'.stage = stage
      BY <1>3, GotoType DEF Typed, Stages
    <2> QED BY <1>1, <2>1, EventKept
  <1>4. UNCHANGED op => EventMatches'
    BY <1>1, EventKept
  <1> QED BY <1>1, <1>2, <1>3, <1>4, ReleasedEvent

\* One logged event keeps the file and the history in agreement about which
\* run is unfinished, and never starts a second one.
LEMMA AppendKeepsOne ==
    ASSUME Typed, EventMatches, ActiveTransparent, EndsStarted, OneActiveRun, AppendActivity
    PROVE  ActiveTransparent' /\ EndsStarted' /\ OneActiveRun'
  <1>1. CASE UNCHANGED <<history, live>>
    <2>1. log' = log /\ history' = history
      BY <1>1 DEF log
    <2>2. /\ Started(log)' = Started(log) /\ Ended(log)' = Ended(log)
          /\ Started(history)' = Started(history) /\ Ended(history)' = Ended(history)
      BY <2>1 DEF Started, Ended, At
    <2> QED BY <2>2 DEF ActiveTransparent, EndsStarted, OneActiveRun, ActiveRuns
  <1>2. CASE history' = Append(history, op.event) /\ live' = live \cup {Len(history) + 1}
    <2>1. op.stage = "append" /\ op.kind \in Kinds
      BY <1>2 DEF AppendActivity, Typed, TypeOK, Operations
    <2> DEFINE S == IF op.event.event = "start" THEN {Run} ELSE {}
               E == IF op.event.event = "end" THEN {Run} ELSE {}
    <2>2. /\ Started(history)' = Started(history) \cup S
          /\ Ended(history)' = Ended(history) \cup E
          /\ Started(log)' = Started(log) \cup S
          /\ Ended(log)' = Ended(log) \cup E
      BY <1>2, AppendedRuns DEF Typed
    <2>3. Started(log) \subseteq Started(history) /\ Ended(log) \subseteq Ended(history)
      BY LogWithinHistory DEF Typed
    <2>4. /\ ActiveRuns(log)' = Started(log)' \ Ended(log)'
          /\ ActiveRuns(history)' = Started(history)' \ Ended(history)'
      BY DEF ActiveRuns
    <2>5. CASE op.kind = "start"
      <3>1. S = {Run} /\ E = {} /\ ActiveRuns(history) = {} /\ Run \notin Started(history)
        BY <2>1, <2>5 DEF EventMatches, Issued
      <3>2. ActiveRuns(history)' = {Run} /\ ActiveRuns(log)' = {Run}
        BY <2>2, <2>3, <2>4, <3>1 DEF ActiveRuns, ActiveTransparent, EndsStarted
      <3>3. Ended(history)' \subseteq Started(history)'
        BY <2>2, <3>1 DEF EndsStarted
      <3> QED BY <3>2, <3>3 DEF ActiveTransparent, EndsStarted, OneActiveRun
    <2>6. CASE op.kind = "finish"
      <3>1. S = {} /\ E = {Run} /\ Run \in Started(history)
        BY <2>6 DEF EventMatches
      <3>2. /\ ActiveRuns(history)' = ActiveRuns(history) \ {Run}
            /\ ActiveRuns(log)' = ActiveRuns(log) \ {Run}
        BY <2>2, <2>4, <3>1 DEF ActiveRuns
      <3>3. Ended(history)' \subseteq Started(history)'
        BY <2>2, <3>1 DEF EndsStarted
      <3> QED BY <3>2, <3>3 DEF ActiveTransparent, EndsStarted, OneActiveRun
    <2>7. CASE op.kind \in {"trigger", "worker"}
      <3>1. S = {} /\ E = {}
        BY <2>7 DEF EventMatches
      <3>2. /\ ActiveRuns(history)' = ActiveRuns(history)
            /\ ActiveRuns(log)' = ActiveRuns(log)
        BY <2>2, <2>4, <3>1 DEF ActiveRuns
      <3>3. Ended(history)' \subseteq Started(history)'
        BY <2>2, <3>1 DEF EndsStarted
      <3> QED BY <3>2, <3>3 DEF ActiveTransparent, EndsStarted, OneActiveRun
    <2> QED BY <2>1, <2>5, <2>6, <2>7 DEF EventMatches, Kinds
  <1> QED BY <1>1, <1>2 DEF AppendActivity

\* The inductive invariant: types, the event in hand, a log file that agrees
\* with the history on what is unfinished, and the property itself.
OwnershipInv ==
    Typed /\ EventMatches /\ ActiveTransparent /\ EndsStarted /\ OneActiveRun

\* The empty store has no unfinished run.
LEMMA InitOwnership == Init => OwnershipInv
  <1> SUFFICES ASSUME Init PROVE OwnershipInv
    OBVIOUS
  <1>1. op.kind = "none" /\ op.stage = "none"
    BY DEF Init, Idle
  <1>2. Started(history) = {} /\ Ended(history) = {} /\ Started(log) = {} /\ Ended(log) = {}
    BY DEF Init, log, Restrict, Started, Ended, At
  <1> QED BY <1>1, <1>2, InitTypes
          DEF OwnershipInv, EventMatches, ActiveTransparent, EndsStarted, OneActiveRun, ActiveRuns

\* Every step keeps the inductive invariant of exclusive ownership.
LEMMA NextOwnership == OwnershipInv /\ [Next]_vars => OwnershipInv'
  <1> SUFFICES ASSUME OwnershipInv, [Next]_vars PROVE OwnershipInv'
    OBVIOUS
  <1> USE DEF OwnershipInv
  <1>1. Typed'
    BY NextTypes
  <1>2. ASSUME UNCHANGED <<history, live>>
        PROVE  ActiveTransparent' /\ EndsStarted' /\ OneActiveRun'
    BY <1>2 DEF ActiveTransparent, EndsStarted, OneActiveRun, ActiveRuns, Started, Ended, At, log
  <1>3. CASE Begin
    <2>1. UNCHANGED <<history, live>>
      BY <1>3, BeginLeaves DEF coordination
    <2> QED BY <1>1, <1>2, <1>3, <2>1, BeginMatches
  <1>4. CASE AppendActivity
    BY <1>1, <1>4, AppendKeepsOne, ReleasedEvent DEF AppendActivity
  <1>5. CASE ReplaceLog
    <2>1. history' = history /\ live' = Retained(log)
      BY <1>5 DEF ReplaceLog
    <2>2. ActiveRuns(log)' = ActiveRuns(log)
      BY <2>1, RolloverKeepsActive DEF Typed
    <2>3. ActiveTransparent' /\ EndsStarted' /\ OneActiveRun'
      <3>1. Started(history)' = Started(history) /\ Ended(history)' = Ended(history)
        BY <2>1 DEF Started, Ended, At
      <3>2. ActiveRuns(history)' = ActiveRuns(history)
        BY <3>1 DEF ActiveRuns
      <3> QED BY <2>2, <3>1, <3>2 DEF ActiveTransparent, EndsStarted, OneActiveRun
    <2>4. ~AppendActivity /\ Proceed
      BY <1>5 DEF AppendActivity, ReplaceLog, Proceed
    <2> QED BY <1>1, <2>3, <2>4, ProceedMatches
  <1>6. CASE Proceed /\ ~AppendActivity /\ ~ReplaceLog
    <2>1. UNCHANGED <<history, live>>
      BY <1>6 DEF Proceed, ArchiveLog, AppendEvidence, RegisterTrigger, ValidateInputs,
             ArchiveInput, WriteStart, WriteIntent, SelectCandidates, VerifyInput, RemoveInput,
             Acknowledge, ReportDrain, coordination
    <2> QED BY <1>1, <1>2, <1>6, <2>1, ProceedMatches
  <1>7. CASE Fail \/ Unlocked
    BY <1>1, <1>2, <1>7, OtherMatches
  <1>8. CASE UNCHANGED vars
    <2>1. UNCHANGED <<history, live, op>>
      BY <1>8 DEF vars, coordination
    <2> QED BY <1>1, <1>2, <2>1, EventKept
  <1> QED BY <1>3, <1>4, <1>5, <1>6, <1>7, <1>8 DEF Next

\* However many workspaces share the signal store, and wherever their processes
\* are killed, at most one run in its whole history is unfinished.
THEOREM OneActive == Spec => []OneActiveRun
  <1>1. Spec => []OwnershipInv
    BY InitOwnership, NextOwnership, PTL DEF Spec
  <1> QED BY <1>1, PTL DEF OwnershipInv

-----------------------------------------------------------------------------
(* The trigger agreement is stable while a run is active. *)

\* A rollover keeps the latest trigger line, and no other.
LEMMA RolloverKeepsAgreement ==
    ASSUME TypeOK, live' = Retained(log), history' = history
    PROVE  Agreement(log)' = Agreement(log)
  <1> DEFINE P == At(log, "trigger")
  <1>1. /\ DOMAIN log = live /\ DOMAIN log' = Retained(log)
        /\ \A i \in Retained(log) : i \in live /\ log'[i] = log[i]
    BY RetainedLines DEF log, Restrict
  <1>2. Len(history) \in Nat /\ live \subseteq 1..Len(history)
    BY DEF TypeOK
  <1>3. At(log', "trigger") = LatestIn(P)
    BY <1>1 DEF Retained, LatestIn, At
  <1>4. CASE P = {}
    <2>1. At(log', "trigger") = {}
      BY <1>3, <1>4 DEF LatestIn
    <2>2. Agreement(log') = None /\ Agreement(log) = None
      BY <1>4, <2>1 DEF Agreement
    <2> QED BY <2>2 DEF Agreement, At, Latest
  <1>5. CASE P # {}
    <2>1. P \in SUBSET (1..Len(history))
      BY <1>1, <1>2 DEF At
    <2>2. Latest(P) \in P
      <3> HIDE DEF P
      <3> QED BY <1>2, <1>5, <2>1, LatestIsMember
    <2>3. At(log', "trigger") = {Latest(P)}
      BY <1>3, <2>2 DEF LatestIn
    <2>4. Latest({Latest(P)}) = Latest(P)
      <3>1. {Latest(P)} \in SUBSET (1..Len(history)) /\ {Latest(P)} # {}
        BY <2>1, <2>2
      <3> HIDE DEF P
      <3>2. Latest({Latest(P)}) \in {Latest(P)}
        BY <1>2, <3>1, LatestIsMember
      <3> QED BY <3>2
    <2>5. log'[Latest(P)] = log[Latest(P)]
      BY <1>1, <2>3 DEF At
    <2>6. Agreement(log') = log'[Latest(P)].trigger
      BY <2>3, <2>4 DEF Agreement
    <2>7. Agreement(log) = log[Latest(P)].trigger
      BY <1>5 DEF Agreement
    <2>8. Agreement(log') = Agreement(log)
      BY <2>5, <2>6, <2>7
    <2> QED BY <2>8 DEF Agreement, At, Latest
  <1> QED BY <1>4, <1>5

\* A line of another kind leaves the agreement as it is.
LEMMA OtherLineKeepsAgreement ==
    ASSUME TypeOK, op.event.event # "trigger",
           history' = Append(history, op.event), live' = live \cup {Len(history) + 1}
    PROVE  Agreement(log)' = Agreement(log)
  <1> DEFINE n == Len(history) + 1
             P == At(log, "trigger")
  <1>1. history \in Seq(Events) /\ op.event \in Events /\ Len(history) \in Nat
    BY DEF TypeOK, Operations
  <1>2. history'[n] = op.event /\ \A i \in 1..Len(history) : history'[i] = history[i]
    BY <1>1
  <1>3. live \subseteq 1..Len(history) /\ n \notin 1..Len(history)
    BY <1>1 DEF TypeOK
  <1>4. /\ DOMAIN log = live /\ DOMAIN log' = live \cup {n} /\ log'[n] = op.event
        /\ \A i \in live : log'[i] = log[i]
    <2> HIDE DEF n
    <2>1. live' = live \cup {n}
      BY DEF n
    <2> QED BY <1>2, <1>3, <2>1 DEF log, Restrict
  <1>5. At(log', "trigger") = P /\ P \subseteq live
    <2> HIDE DEF n
    <2> QED BY <1>4 DEF At
  <1>6. P # {} => Latest(P) \in P
    <2>1. P \in SUBSET (1..Len(history))
      BY <1>3, <1>5
    <2> HIDE DEF P
    <2> QED BY <1>1, <2>1, LatestIsMember
  <1>7. Agreement(log') = Agreement(log)
    BY <1>4, <1>5, <1>6 DEF Agreement
  <1> QED BY <1>7 DEF Agreement, At, Latest

\* An operation on the trigger begins before its registration.
LEMMA BeginStages ==
    ASSUME Begin, op'.kind = "trigger"
    PROVE  op'.stage # "append"
  <1>1. ASSUME NEW ws, BeginTrigger(ws)
        PROVE  op'.stage # "append"
    BY <1>1 DEF BeginTrigger, AfterRollover, Resume, Idle
  <1>2. ASSUME NEW ws, NEW selected, NEW automatic, NEW worker, NEW recovery, NEW size,
               BeginStart(ws, selected, automatic, worker, recovery, size)
        PROVE  FALSE
    BY <1>2 DEF BeginStart, AfterRollover, Idle
  <1>3. ASSUME NEW ws, NEW r, NEW worker, BeginWorker(ws, r, worker) PROVE FALSE
    BY <1>3 DEF BeginWorker, AfterRollover, Idle
  <1>4. ASSUME NEW ws, NEW r, NEW completion, NEW dispositions, NEW size,
               BeginFinish(ws, r, completion, dispositions, size)
        PROVE  FALSE
    BY <1>4 DEF BeginFinish, Idle
  <1>5. ASSUME NEW ws, NEW r, NEW approved, BeginDrain(ws, r, approved) PROVE FALSE
    BY <1>5 DEF BeginDrain, Idle
  <1> QED BY <1>1, <1>2, <1>3, <1>4, <1>5 DEF Begin

AgreementInv == OwnershipInv /\ TriggerAlone

\* Only RegisterTrigger brings a trigger to its append, and it looked first.
LEMMA NextTriggerAlone == AgreementInv /\ [Next]_vars => TriggerAlone'
  <1> SUFFICES ASSUME AgreementInv, [Next]_vars, op'.kind = "trigger", op'.stage = "append"
               PROVE  ActiveRuns(log)' = {}
    BY DEF TriggerAlone
  <1>1. OwnershipInv /\ TriggerAlone /\ Typed /\ op \in Operations /\ op.event \in Events
    BY DEF AgreementInv, OwnershipInv, Typed, TypeOK, Operations
  <1>2. ASSUME UNCHANGED <<history, live>>, ActiveRuns(log) = {}
        PROVE  ActiveRuns(log)' = {}
    <2>1. log' = log
      BY <1>2 DEF log
    <2> QED BY <1>2, <2>1 DEF ActiveRuns, Started, Ended, At
  <1>3. ASSUME NEW stage \in Stages \ {"append"}, Goto(stage)
        PROVE  FALSE
    BY <1>1, <1>3, GotoType DEF Typed
  <1>4. ~Release
    BY DEF Release, Idle
  <1>5. CASE op' = op /\ UNCHANGED <<history, live>>
    BY <1>1, <1>2, <1>5 DEF TriggerAlone
  <1>6. CASE Begin
    BY <1>6, BeginStages
  <1>7. CASE AppendEvidence
    <2>1. CASE Goto("append")
      <3>1. op'.kind = op.kind /\ op.stage = "evidence"
        BY <1>1, <1>7, <2>1, GotoType DEF AppendEvidence, Typed, Stages
      <3> QED BY <1>1, <3>1 DEF OwnershipInv, EventMatches
    <2> QED BY <1>4, <1>7, <2>1 DEF AppendEvidence
  <1>8. CASE ReplaceLog
    <2>1. op' = [op EXCEPT !.stage = Resume(op)]
      BY <1>8 DEF ReplaceLog, Goto
    <2>2. op.kind = "trigger" /\ op'.stage = Resume(op)
      BY <1>1, <2>1 DEF Operations
    <2>3. op'.stage = "register"
      BY <2>2 DEF Resume
    <2> QED BY <2>3
  <1>9. ASSUME NEW expected, RegisterTrigger(expected)
        PROVE  ActiveRuns(log)' = {}
    <2>1. MayRegister(expected) /\ UNCHANGED <<history, live>>
      BY <1>4, <1>9 DEF RegisterTrigger, coordination
    <2> QED BY <1>2, <2>1 DEF MayRegister
  <1>10. ~(\/ \E r \in Runs : ValidateInputs(r)
           \/ \E s \in Signals : ArchiveInput(s)
           \/ WriteStart \/ SelectCandidates
           \/ \E s \in Signals : VerifyInput(s))
    <2>1. ASSUME NEW r \in Runs, ValidateInputs(r) PROVE FALSE
      <3>1. op' = [op EXCEPT !.event.at = clock, !.event.run_id = r,
                             !.todo = DOMAIN op.event.selected, !.stage = "inputs"]
        BY <1>4, <2>1 DEF ValidateInputs
      <3> QED BY <1>1, <3>1 DEF Operations
    <2>2. ASSUME NEW s \in Signals, ArchiveInput(s) PROVE FALSE
      BY <1>1, <2>2 DEF ArchiveInput, Operations
    <2>3. ASSUME WriteStart PROVE FALSE
      BY <1>1, <2>3 DEF WriteStart, Operations
    <2>4. ASSUME SelectCandidates PROVE FALSE
      BY <1>1, <2>4 DEF SelectCandidates, Operations
    <2>5. ASSUME NEW s \in Signals, VerifyInput(s) PROVE FALSE
      <3>1. op' = [op EXCEPT !.todo = op.todo \ {s},
                             !.stage = IF Unchanged(s) THEN "unlink" ELSE op.stage,
                             !.signal = IF Unchanged(s) THEN s ELSE op.signal]
        BY <1>4, <2>5 DEF VerifyInput
      <3>2. op'.stage = op.stage \/ op'.stage = "unlink"
        BY <1>1, <3>1 DEF Operations
      <3> QED BY <2>5, <3>2 DEF VerifyInput
    <2> QED BY <2>1, <2>2, <2>3, <2>4, <2>5
  <1>11. ~RemoveInput
    <2>1. SUFFICES ASSUME RemoveInput PROVE FALSE
      OBVIOUS
    <2>2. CASE op' = [op EXCEPT !.stage = "acknowledge", !.done = op.done \cup {op.signal}]
      BY <1>1, <2>2 DEF Operations
    <2> QED BY <1>3, <2>1, <2>2 DEF RemoveInput, Stages
  <1>12. ~(ArchiveLog \/ AppendActivity \/ WriteIntent \/ Acknowledge \/ ReportDrain \/ Fail)
    <2>1. SUFFICES ASSUME \/ ArchiveLog \/ AppendActivity \/ WriteIntent \/ Acknowledge
                          \/ ReportDrain \/ Fail
                   PROVE  FALSE
      OBVIOUS
    <2>2. Release \/ \E stage \in {"replace", "select", "remove", "report"} : Goto(stage)
      BY <2>1 DEF ArchiveLog, AppendActivity, WriteIntent, Acknowledge, ReportDrain, Fail,
            RemoveUnsynced, AcknowledgeFails, DrainInterrupted, Interrupt, InterruptEvidence,
            InterruptActivity
    <2> QED BY <1>3, <1>4, <2>2 DEF Stages
  <1>13. Unlocked \/ UNCHANGED vars => op' = op /\ UNCHANGED <<history, live>>
    BY DEF Unlocked, Tick, Regress, EditSignal, EditConfiguration, vars, coordination
  <1> QED BY <1>5, <1>6, <1>7, <1>8, <1>9, <1>10, <1>11, <1>12, <1>13 DEF Next, Proceed

\* A step that changes the agreement logs a trigger, and nothing is active then.
LEMMA AgreementChange ==
    ASSUME AgreementInv, [Next]_vars, Agreement(log)' # Agreement(log)
    PROVE  ActiveRuns(log) = {}
  <1>1. Typed /\ TypeOK
    BY DEF AgreementInv, OwnershipInv, Typed
  <1>2. ASSUME UNCHANGED <<history, live>>
        PROVE  FALSE
    <2>1. log' = log
      BY <1>2 DEF log
    <2> QED BY <2>1 DEF Agreement, At, Latest
  <1>3. ~ReplaceLog
    BY <1>1, RolloverKeepsAgreement DEF ReplaceLog
  <1>4. CASE AppendActivity
    <2>1. history' = Append(history, op.event) /\ live' = live \cup {Len(history) + 1}
      BY <1>2, <1>4 DEF AppendActivity
    <2>2. op.event.event = "trigger"
      BY <1>1, <2>1, OtherLineKeepsAgreement
    <2>3. op.stage = "append" /\ op.kind = "trigger"
      BY <1>4, <2>2 DEF AppendActivity, AgreementInv, OwnershipInv, EventMatches
    <2> QED BY <2>3 DEF AgreementInv, TriggerAlone
  <1>5. CASE Proceed /\ ~AppendActivity
    <2>1. UNCHANGED <<history, live>>
      BY <1>3, <1>5 DEF Proceed, ArchiveLog, AppendEvidence, RegisterTrigger, ValidateInputs,
             ArchiveInput, WriteStart, WriteIntent, SelectCandidates, VerifyInput, RemoveInput,
             Acknowledge, ReportDrain, coordination
    <2> QED BY <1>2, <2>1
  <1>6. CASE Begin
    BY <1>2, <1>6, BeginLeaves DEF coordination
  <1>7. CASE Fail \/ Unlocked
    BY <1>1, <1>2, <1>7, OtherMatches DEF AgreementInv, OwnershipInv
  <1>8. CASE UNCHANGED vars
    BY <1>2, <1>8 DEF vars, coordination
  <1> QED BY <1>4, <1>5, <1>6, <1>7, <1>8 DEF Next

\* No workspace replaces the shared trigger under a run that another started.
THEOREM AgreementStable == Spec => AgreementStableWhileActive
  <1>1. Init => AgreementInv
    BY InitOwnership DEF AgreementInv, TriggerAlone, Init, Idle
  <1>2. AgreementInv /\ [Next]_vars => AgreementInv'
    BY NextOwnership, NextTriggerAlone DEF AgreementInv
  <1>3. AgreementInv /\ [Next]_vars
          => [Agreement(log)' # Agreement(log) => ActiveRuns(log) = {}]_vars
    BY AgreementChange
  <1> QED BY <1>1, <1>2, <1>3, PTL DEF Spec, AgreementStableWhileActive

-----------------------------------------------------------------------------
(* The parts of the inductive invariant. *)

\* Each kind of operation has stages of its own.
StagesOfKind ==
    /\ op.stage \in Draining <=> op.kind = "drain"
    /\ op.kind = "finish" => op.stage \in {"evidence", "append"}

\* The operation in hand is about a run, once it has one.
RunKnown ==
    (op.kind \in {"worker", "finish", "drain"} \/ (op.kind = "start" /\ op.stage \in Issued))
        => Run \in Runs

\* What drains and finishes is the active run, from the first read to the last
\* write: nobody else can end it meanwhile.
HeldOwns == op.kind \in {"drain", "finish"} => Run \in ActiveRuns(log)

\* A run being started has the evidence that was written so far, and no more.
StartBacked ==
    op.kind = "start" =>
        /\ op.stage = "inputs" =>
              /\ evidence[Run].start = None /\ evidence[Run].records = <<>>
              /\ DOMAIN evidence[Run].inputs = DOMAIN op.event.selected \ op.todo
              /\ \A s \in DOMAIN evidence[Run].inputs :
                     evidence[Run].inputs[s] = op.event.selected[s]
        /\ op.stage \in {"evidence", "append"} =>
              evidence[Run].start = op.event /\ evidence[Run].inputs = op.event.selected
        /\ op.stage = "evidence" => op.record = Record("compound.start")
        /\ op.stage = "append" => Has(Run, "compound.start")

\* Every attachment of a run names one handle.
Names(r, worker) ==
    /\ worker \in Workers
    /\ evidence[r].start # None /\ evidence[r].start.worker_id \in {None, worker}
    /\ \A i \in Having(r, "compound.worker") : evidence[r].records[i].worker_id = worker

WorkersAgree ==
    \A r \in Runs : \A i \in Having(r, "compound.worker") : Names(r, evidence[r].records[i].worker_id)

\* An attachment that needs no record has one already.
WorkerBacked ==
    op.kind = "worker" =>
        /\ Names(Run, op.event.worker_id)
        /\ op.stage \in Rolling \cup {"evidence", "append"}
        /\ op.record # None =>
              op.record = [Record("compound.worker") EXCEPT !.worker_id = op.event.worker_id]
        /\ op.stage = "append" \/ (op.stage \in Rolling /\ op.record = None) => Has(Run, "compound.worker")

\* What a finish is about to say is true.
FinishBacked ==
    op.kind = "finish" =>
        /\ evidence[Run].start # None
        /\ op.event.drained \subseteq Gone(Run)
        /\ op.stage = "evidence" =>
              /\ op.record.operation = "compound.finish" /\ op.record.at = op.event.at
              /\ op.record.retained = {} => DOMAIN evidence[Run].start.selected \subseteq Gone(Run)
        /\ op.stage = "append" =>
              \E i \in Having(Run, "compound.finish") : evidence[Run].records[i].at = op.event.at

\* An input that a drain may remove: archived, and not removed before.
Removable(s) == s \notin RecordedDrained(Run) /\ ArchivedIntact(s)

\* A drain knows what the run selected, and what it has removed so far.
DrainPrepared ==
    op.kind = "drain" =>
        /\ evidence[Run].start # None /\ op.event.selected = evidence[Run].start.selected
        /\ ~Has(Run, "compound.finish")
        /\ op.stage # "intent" => Has(Run, "compound.drain.intent")
        /\ op.stage \in {"remove", "unlink", "acknowledge"} => \A s \in op.todo : Removable(s)
        /\ op.stage = "unlink" => Removable(op.signal)
        /\ op.stage \in {"unlink", "acknowledge"} => op.signal \notin op.todo
        /\ op.stage = "acknowledge" => op.signal \in Gone(Run)
        /\ op.done \subseteq Gone(Run)

\* Every line of the history but a trigger is about a run.
LinesOfRuns ==
    \A i \in DOMAIN history : history[i].event # "trigger" => history[i].run_id \in Runs

\* Whatever was removed belongs to a run with an archived start.
RemovedStarted == \A rm \in removed : evidence[rm.run].start # None

\* What an operation in progress takes for granted, and what the evidence says.
InHand ==
    StagesOfKind /\ RunKnown /\ HeldOwns /\ StartBacked /\ WorkerBacked /\ FinishBacked
        /\ DrainPrepared

Ledger ==
    WorkersAgree /\ LinesOfRuns /\ RemovedStarted /\ LogBackedByEvidence /\ DrainageTruthful
        /\ RemovalRecoverable

EvidenceInv == OwnershipInv /\ InHand /\ Ledger

-----------------------------------------------------------------------------
(* What one more record changes. *)

\* append_compound_event adds one record to one run and leaves the rest alone.
LEMMA WrittenEffect ==
    ASSUME TypeOK, NEW q \in Runs, NEW record \in Records, evidence' = Written(q, record)
    PROVE  /\ \A r \in Runs : /\ evidence'[r].start = evidence[r].start
                              /\ evidence'[r].inputs = evidence[r].inputs
           /\ \A r \in Runs : r # q => evidence'[r].records = evidence[r].records
           /\ evidence'[q].records = Append(evidence[q].records, record)
           /\ \A r \in Runs : evidence[r].records \in Seq(Records)
  BY DEF TypeOK, Written, RunEvidence

\* So one kind of record of one run grows, by its last position.
LEMMA HavingMore ==
    ASSUME TypeOK, NEW q \in Runs, NEW record \in Records, evidence' = Written(q, record)
    PROVE  LET n == Len(evidence[q].records) + 1
           IN  /\ \A r \in Runs, kind \in RecordKinds :
                     Having(r, kind)' = Having(r, kind) \cup
                                        (IF r = q /\ record.operation = kind THEN {n} ELSE {})
               /\ \A r \in Runs : \A i \in DOMAIN evidence[r].records :
                     i \in DOMAIN evidence'[r].records /\ evidence'[r].records[i] = evidence[r].records[i]
               /\ evidence'[q].records[n] = record /\ n \notin DOMAIN evidence[q].records
  <1> DEFINE n == Len(evidence[q].records) + 1
  <1>1. /\ \A r \in Runs : r # q => evidence'[r].records = evidence[r].records
        /\ evidence'[q].records = Append(evidence[q].records, record)
        /\ evidence[q].records \in Seq(Records)
    BY WrittenEffect
  <1>2. /\ DOMAIN evidence'[q].records = DOMAIN evidence[q].records \cup {n}
        /\ \A i \in DOMAIN evidence[q].records : evidence'[q].records[i] = evidence[q].records[i]
        /\ evidence'[q].records[n] = record /\ n \notin DOMAIN evidence[q].records
    BY <1>1
  <1> HIDE DEF n
  <1>3. ASSUME NEW r \in Runs, NEW kind \in RecordKinds
        PROVE  Having(r, kind)' = Having(r, kind) \cup
                                  (IF r = q /\ record.operation = kind THEN {n} ELSE {})
    <2>1. CASE r = q
      BY <1>2, <2>1 DEF Having
    <2>2. CASE r # q
      BY <1>1, <2>2 DEF Having
    <2> QED BY <2>1, <2>2
  <1>4. ASSUME NEW r \in Runs, NEW i \in DOMAIN evidence[r].records
        PROVE  i \in DOMAIN evidence'[r].records /\ evidence'[r].records[i] = evidence[r].records[i]
    BY <1>1, <1>2
  <1> QED BY <1>2, <1>3, <1>4 DEF n

\* Only the two kinds of drain records say that an input is gone.
LEMMA DrainedMore ==
    ASSUME TypeOK, NEW q \in Runs, NEW record \in Records, evidence' = Written(q, record)
    PROVE  \A r \in Runs :
               RecordedDrained(r)' = RecordedDrained(r) \cup
                   (IF r = q /\ record.operation \in {"compound.drain.removed", "compound.drain"}
                    THEN record.drained ELSE {})
  <1> DEFINE n == Len(evidence[q].records) + 1
             more == record.operation \in {"compound.drain.removed", "compound.drain"}
  <1> SUFFICES ASSUME NEW r \in Runs
               PROVE  RecordedDrained(r)' = RecordedDrained(r) \cup
                                            (IF r = q /\ more THEN record.drained ELSE {})
    OBVIOUS
  <1> DEFINE old == Having(r, "compound.drain.removed") \cup Having(r, "compound.drain")
             now == (Having(r, "compound.drain.removed") \cup Having(r, "compound.drain"))'
  <1>1. {"compound.drain.removed", "compound.drain"} \subseteq RecordKinds
    BY DEF RecordKinds
  <1>2. now = old \cup (IF r = q /\ more THEN {n} ELSE {})
    BY <1>1, HavingMore
  <1>3. \A i \in old : evidence'[r].records[i].drained = evidence[r].records[i].drained
    BY HavingMore DEF Having
  <1>4. evidence'[q].records[n].drained = record.drained
    BY HavingMore
  <1>5. RecordedDrained(r)' = UNION {evidence'[r].records[i].drained : i \in now}
    BY DEF RecordedDrained
  <1>6. RecordedDrained(r) = UNION {evidence[r].records[i].drained : i \in old}
    BY DEF RecordedDrained
  <1>7. CASE r = q /\ more
    <2> HIDE DEF n, more, old, now
    <2>1. now = old \cup {n}
      BY <1>2, <1>7
    <2>2. \A s : s \in RecordedDrained(r)' <=>
                   \E i \in old \cup {n} : s \in evidence'[r].records[i].drained
      BY <1>5, <2>1
    <2>3. \A s : s \in RecordedDrained(r)' <=>
                   s \in RecordedDrained(r) \/ s \in record.drained
      BY <1>3, <1>4, <1>6, <1>7, <2>2
    <2> QED BY <1>7, <2>3
  <1>8. CASE ~(r = q /\ more)
    <2> HIDE DEF n, more, old, now
    <2>1. now = old
      BY <1>2, <1>8
    <2>2. \A s : s \in RecordedDrained(r)' <=> \E i \in old : s \in evidence'[r].records[i].drained
      BY <1>5, <2>1
    <2>3. \A s : s \in RecordedDrained(r)' <=> s \in RecordedDrained(r)
      BY <1>3, <1>6, <2>2
    <2> QED BY <1>8, <2>3
  <1> QED BY <1>7, <1>8

\* A torn line changes nothing that is read.
LEMMA SteadyRecords ==
    ASSUME TypeOK, NEW q, evidence' \in {evidence, Torn(q)}
    PROVE  \A r \in Runs : /\ evidence'[r].start = evidence[r].start
                           /\ evidence'[r].inputs = evidence[r].inputs
                           /\ evidence'[r].records = evidence[r].records
  <1> SUFFICES ASSUME NEW r \in Runs
               PROVE  /\ evidence'[r].start = evidence[r].start
                      /\ evidence'[r].inputs = evidence[r].inputs
                      /\ evidence'[r].records = evidence[r].records
    OBVIOUS
  <1>1. evidence[r] \in RunEvidence
    BY DEF TypeOK
  <1>2. evidence'[r] \in {evidence[r], [evidence[r] EXCEPT !.torn = TRUE]}
    BY DEF TypeOK, Torn
  <1>3. /\ [evidence[r] EXCEPT !.torn = TRUE].start = evidence[r].start
        /\ [evidence[r] EXCEPT !.torn = TRUE].inputs = evidence[r].inputs
        /\ [evidence[r] EXCEPT !.torn = TRUE].records = evidence[r].records
    BY <1>1 DEF RunEvidence
  <1> QED BY <1>2, <1>3

\* Evidence with the same records reads the same.
LEMMA SteadyReads ==
    ASSUME \A r \in Runs : evidence'[r].records = evidence[r].records
    PROVE  \A r \in Runs : /\ RecordedDrained(r)' = RecordedDrained(r)
                           /\ \A kind : Having(r, kind)' = Having(r, kind)
  BY DEF RecordedDrained, Having

-----------------------------------------------------------------------------
(* What the steps do to the ledger. *)

\* Evidence that only grows backs what it backed, whatever happens to runs that
\* nothing is known about yet.
LEMMA BackingKept ==
    ASSUME TypeOK, Ledger, history' = history, removed' = removed, NEW F \in SUBSET Runs,
           \A r \in F : /\ evidence[r].start = None
                        /\ \A i \in DOMAIN history :
                              history[i].event # "trigger" => history[i].run_id # r,
           \A r \in Runs \ F :
               /\ evidence'[r].start = evidence[r].start /\ evidence'[r].inputs = evidence[r].inputs
               /\ \A i \in DOMAIN evidence[r].records :
                     i \in DOMAIN evidence'[r].records
                     /\ evidence'[r].records[i] = evidence[r].records[i]
    PROVE  LinesOfRuns' /\ RemovedStarted' /\ LogBackedByEvidence' /\ RemovalRecoverable'
  <1>1. ASSUME NEW r \in Runs \ F, NEW kind, NEW i \in Having(r, kind)
        PROVE  i \in Having(r, kind)' /\ evidence'[r].records[i] = evidence[r].records[i]
    BY DEF Having
  <1>2. LinesOfRuns'
    BY DEF Ledger, LinesOfRuns
  <1>3. \A rm \in removed : rm.run \in Runs \ F
    BY DEF Ledger, RemovedStarted, TypeOK
  <1>4. RemovedStarted'
    BY <1>3 DEF Ledger, RemovedStarted
  <1>5. RemovalRecoverable'
    <2> SUFFICES ASSUME NEW rm \in removed
                 PROVE  /\ rm.signal \in DOMAIN evidence'[rm.run].inputs
                        /\ evidence'[rm.run].inputs[rm.signal]
                              = evidence'[rm.run].start.selected[rm.signal]
                        /\ Having(rm.run, "compound.drain.intent")' # {}
      BY DEF RemovalRecoverable, Has
    <2>1. /\ rm.signal \in DOMAIN evidence[rm.run].inputs
          /\ evidence[rm.run].inputs[rm.signal] = evidence[rm.run].start.selected[rm.signal]
          /\ Having(rm.run, "compound.drain.intent") # {}
      BY DEF Ledger, RemovalRecoverable, Has
    <2> QED BY <1>1, <1>3, <2>1
  <1>6. LogBackedByEvidence'
    <2> SUFFICES ASSUME NEW i \in DOMAIN history,
                        NEW e, e = history[i], NEW r, r = e.run_id
                 PROVE  /\ e.event = "start" => /\ evidence'[r].start = e
                                                /\ evidence'[r].inputs = e.selected
                                                /\ Having(r, "compound.start")' # {}
                        /\ e.event = "end" => \E j \in Having(r, "compound.finish")' :
                                                 evidence'[r].records[j].at = e.at
                        /\ e.event = "worker" => \E j \in Having(r, "compound.worker")' :
                                                 evidence'[r].records[j].worker_id = e.worker_id
      BY DEF LogBackedByEvidence, Has
    <2>1. /\ e.event = "start" => /\ evidence[r].start = e
                                  /\ evidence[r].inputs = e.selected
                                  /\ Having(r, "compound.start") # {}
          /\ e.event = "end" => \E j \in Having(r, "compound.finish") :
                                   evidence[r].records[j].at = e.at
          /\ e.event = "worker" => \E j \in Having(r, "compound.worker") :
                                   evidence[r].records[j].worker_id = e.worker_id
      BY DEF Ledger, LogBackedByEvidence, Has
    <2>2. e.event # "trigger" => r \in Runs \ F
      BY DEF Ledger, LinesOfRuns
    <2> QED BY <1>1, <2>1, <2>2
  <1> QED BY <1>2, <1>4, <1>5, <1>6

\* Steps that write no record of a run and remove nothing.
LEMMA SteadyLedger ==
    ASSUME TypeOK, Ledger, NEW q, evidence' \in {evidence, Torn(q)}, UNCHANGED <<history, removed>>
    PROVE  Ledger'
  <1>1. \A r \in Runs : /\ evidence'[r].start = evidence[r].start
                        /\ evidence'[r].inputs = evidence[r].inputs
                        /\ evidence'[r].records = evidence[r].records
    BY SteadyRecords
  <1>2. \A r \in Runs : /\ RecordedDrained(r)' = RecordedDrained(r)
                        /\ \A kind : Having(r, kind)' = Having(r, kind)
    BY <1>1, SteadyReads
  <1>3. LinesOfRuns' /\ RemovedStarted' /\ LogBackedByEvidence' /\ RemovalRecoverable'
    <2> DEFINE F == {}
    <2>1. F \in SUBSET Runs /\ Runs \ F = Runs /\ \A r \in F : FALSE
      OBVIOUS
    <2> HIDE DEF F
    <2> QED BY <1>1, <2>1, BackingKept
  <1>4. WorkersAgree'
    <2>1. ASSUME NEW r \in Runs, NEW i \in Having(r, "compound.worker")
          PROVE  Names(r, evidence[r].records[i].worker_id)'
      <3>1. Names(r, evidence[r].records[i].worker_id)
        BY DEF Ledger, WorkersAgree
      <3> QED BY <1>1, <1>2, <3>1 DEF Names
    <2> QED BY <1>1, <1>2, <2>1 DEF WorkersAgree
  <1>5. DrainageTruthful'
    BY <1>1, <1>2 DEF Ledger, DrainageTruthful, Gone
  <1> QED BY <1>3, <1>4, <1>5 DEF Ledger

\* A record that tells the truth keeps the ledger true.
LEMMA WrittenLedger ==
    ASSUME TypeOK, Ledger, NEW q \in Runs, NEW record \in Records,
           evidence' = Written(q, record), UNCHANGED <<history, removed>>,
           record.operation \in {"compound.drain.removed", "compound.drain"}
               => record.drained \subseteq Gone(q),
           (record.operation = "compound.finish" /\ record.retained = {})
               => DOMAIN evidence[q].start.selected \subseteq Gone(q),
           record.operation = "compound.worker" => Names(q, record.worker_id)
    PROVE  Ledger'
  <1> DEFINE n == Len(evidence[q].records) + 1
  <1>1. \A r \in Runs : /\ evidence'[r].start = evidence[r].start
                        /\ evidence'[r].inputs = evidence[r].inputs
    BY WrittenEffect
  <1>2. /\ \A r \in Runs, kind \in RecordKinds :
              Having(r, kind)' = Having(r, kind) \cup
                                 (IF r = q /\ record.operation = kind THEN {n} ELSE {})
        /\ \A r \in Runs : \A i \in DOMAIN evidence[r].records :
              i \in DOMAIN evidence'[r].records /\ evidence'[r].records[i] = evidence[r].records[i]
        /\ evidence'[q].records[n] = record
    BY HavingMore
  <1> HIDE DEF n
  <1>3. LinesOfRuns' /\ RemovedStarted' /\ LogBackedByEvidence' /\ RemovalRecoverable'
    <2> DEFINE F == {}
    <2>1. F \in SUBSET Runs /\ Runs \ F = Runs /\ \A r \in F : FALSE
      OBVIOUS
    <2> HIDE DEF F
    <2> QED BY <1>1, <1>2, <2>1, BackingKept
  <1>4. \A r \in Runs : \A kind : \A i \in Having(r, kind) : i \in DOMAIN evidence[r].records
    BY DEF Having
  <1>5. {"compound.worker", "compound.finish"} \subseteq RecordKinds
    BY DEF RecordKinds
  <1>6. WorkersAgree'
    <2> SUFFICES ASSUME NEW r \in Runs, NEW i \in Having(r, "compound.worker")',
                        NEW w, w = evidence'[r].records[i].worker_id
                 PROVE  /\ w \in Workers
                        /\ evidence'[r].start # None
                        /\ evidence'[r].start.worker_id \in {None, w}
                        /\ \A j \in Having(r, "compound.worker")' :
                              evidence'[r].records[j].worker_id = w
      BY DEF WorkersAgree, Names
    <2>1. \A j \in Having(r, "compound.worker") : Names(r, evidence[r].records[j].worker_id)
      BY DEF Ledger, WorkersAgree
    <2>2. CASE r = q /\ record.operation = "compound.worker"
      <3>1. Names(q, record.worker_id)
        BY <2>2
      <3>2. \A j \in Having(r, "compound.worker")' :
                evidence'[r].records[j].worker_id = record.worker_id
        BY <1>2, <1>4, <1>5, <2>2, <3>1 DEF Names
      <3> QED BY <1>1, <2>2, <3>1, <3>2 DEF Names
    <2>3. CASE ~(r = q /\ record.operation = "compound.worker")
      <3>1. Having(r, "compound.worker")' = Having(r, "compound.worker")
        BY <1>2, <1>5, <2>3
      <3>2. Names(r, w)
        BY <1>2, <1>4, <2>1, <3>1
      <3> QED BY <1>1, <1>2, <1>4, <3>1, <3>2 DEF Names
    <2> QED BY <2>2, <2>3
  <1>7. DrainageTruthful'
    <2> SUFFICES ASSUME NEW r \in Runs
                 PROVE  /\ RecordedDrained(r)' \subseteq Gone(r)
                        /\ \A j \in Having(r, "compound.finish")' :
                              evidence'[r].records[j].retained = {}
                                  => DOMAIN evidence'[r].start.selected \subseteq Gone(r)
      BY DEF DrainageTruthful, Gone
    <2>1. /\ RecordedDrained(r) \subseteq Gone(r)
          /\ \A j \in Having(r, "compound.finish") :
                evidence[r].records[j].retained = {}
                    => DOMAIN evidence[r].start.selected \subseteq Gone(r)
      BY DEF Ledger, DrainageTruthful, Gone
    <2>2. RecordedDrained(r)' = RecordedDrained(r) \cup
                   (IF r = q /\ record.operation \in {"compound.drain.removed", "compound.drain"}
                    THEN record.drained ELSE {})
      BY DrainedMore
    <2>3. RecordedDrained(r)' \subseteq Gone(r)
      BY <2>1, <2>2
    <2>4. ASSUME NEW j \in Having(r, "compound.finish")', evidence'[r].records[j].retained = {}
          PROVE  DOMAIN evidence'[r].start.selected \subseteq Gone(r)
      <3>1. CASE j \in Having(r, "compound.finish")
        BY <1>1, <1>2, <1>4, <2>1, <2>4, <3>1
      <3>2. CASE j \notin Having(r, "compound.finish")
        <4>1. r = q /\ record.operation = "compound.finish" /\ j = n
          BY <1>2, <1>5, <2>4, <3>2
        <4> QED BY <1>1, <1>2, <2>4, <4>1
      <3> QED BY <3>1, <3>2
    <2> QED BY <2>3, <2>4
  <1> QED BY <1>3, <1>6, <1>7 DEF Ledger

\* Archiving an input or the start of a run that nothing is known about yet.
LEMMA StartLedger ==
    ASSUME TypeOK, Ledger, NEW q \in Runs, evidence' \in [Runs -> RunEvidence],
           evidence[q].start = None, evidence[q].records = <<>>, q \notin Started(history),
           \A r \in Runs \ {q} : evidence'[r] = evidence[r],
           evidence'[q].records = <<>>, UNCHANGED <<history, removed>>
    PROVE  Ledger'
  <1>1. \A kind : Having(q, kind) = {} /\ Having(q, kind)' = {}
    BY DEF Having
  <1>2. \A i \in DOMAIN history : history[i].event # "trigger" => history[i].run_id # q
    <2> SUFFICES ASSUME NEW i \in DOMAIN history, history[i].event # "trigger",
                        history[i].run_id = q
                 PROVE  FALSE
      OBVIOUS
    <2>1. history[i].event # "start"
      BY DEF Started, At
    <2>2. history[i].event \in {"start", "end", "worker", "trigger"}
      <3>1. history[i] \in Events
        BY DEF TypeOK
      <3> QED BY <3>1 DEF Events
    <2>3. CASE history[i].event = "end"
      BY <1>1, <2>3 DEF Ledger, LogBackedByEvidence
    <2>4. CASE history[i].event = "worker"
      BY <1>1, <2>4 DEF Ledger, LogBackedByEvidence
    <2> QED BY <2>1, <2>2, <2>3, <2>4
  <1>3. LinesOfRuns' /\ RemovedStarted' /\ LogBackedByEvidence' /\ RemovalRecoverable'
    <2> DEFINE F == {q}
    <2>1. F \in SUBSET Runs /\ \A r \in Runs \ F : evidence'[r] = evidence[r]
      OBVIOUS
    <2>2. \A r \in F : /\ evidence[r].start = None
                       /\ \A i \in DOMAIN history :
                             history[i].event # "trigger" => history[i].run_id # r
      BY <1>2
    <2> HIDE DEF F
    <2> QED BY <2>1, <2>2, BackingKept
  <1>4. \A r \in Runs \ {q} : \A kind : Having(r, kind)' = Having(r, kind)
    BY DEF Having
  <1>5. WorkersAgree'
    <2>1. ASSUME NEW r \in Runs \ {q}, NEW i \in Having(r, "compound.worker")
          PROVE  Names(r, evidence[r].records[i].worker_id)'
      <3>1. Names(r, evidence[r].records[i].worker_id)
        BY DEF Ledger, WorkersAgree
      <3> QED BY <1>4, <3>1 DEF Names
    <2> QED BY <1>1, <1>4, <2>1 DEF WorkersAgree
  <1>6. DrainageTruthful'
    <2>1. RecordedDrained(q)' = {}
      BY <1>1 DEF RecordedDrained
    <2>2. \A r \in Runs \ {q} : RecordedDrained(r)' = RecordedDrained(r)
      BY <1>4 DEF RecordedDrained
    <2> QED BY <1>1, <1>4, <2>1, <2>2 DEF Ledger, DrainageTruthful, Gone
  <1> QED BY <1>3, <1>5, <1>6 DEF Ledger

\* Logging an event that the evidence of its run backs.
LEMMA AppendLedger ==
    ASSUME TypeOK, Ledger, history' = Append(history, op.event), UNCHANGED <<evidence, removed>>,
           op.event.event # "trigger" => Run \in Runs,
           op.event.event = "start" => /\ evidence[Run].start = op.event
                                       /\ evidence[Run].inputs = op.event.selected
                                       /\ Has(Run, "compound.start"),
           op.event.event = "end" => \E j \in Having(Run, "compound.finish") :
                                        evidence[Run].records[j].at = op.event.at,
           op.event.event = "worker" =>
               \E j \in Having(Run, "compound.worker") :
                  evidence[Run].records[j].worker_id = op.event.worker_id
    PROVE  Ledger'
  <1> DEFINE n == Len(history) + 1
  <1>1. /\ DOMAIN history' = DOMAIN history \cup {n} /\ history'[n] = op.event
        /\ \A i \in DOMAIN history : history'[i] = history[i]
    BY DEF TypeOK, Operations
  <1> HIDE DEF n
  <1>2. \A r, kind : Having(r, kind)' = Having(r, kind)
    BY DEF Having
  <1>3. WorkersAgree'
    BY <1>2 DEF Ledger, WorkersAgree, Names
  <1>4. LinesOfRuns'
    BY <1>1 DEF Ledger, LinesOfRuns, Run
  <1>5. RemovedStarted' /\ RemovalRecoverable'
    BY <1>2 DEF Ledger, RemovedStarted, RemovalRecoverable, Has
  <1>6. DrainageTruthful'
    BY <1>2 DEF Ledger, DrainageTruthful, RecordedDrained, Gone
  <1>7. LogBackedByEvidence'
    <2> DEFINE Backed(e) ==
          /\ e.event = "start" => /\ evidence[e.run_id].start = e
                                  /\ evidence[e.run_id].inputs = e.selected
                                  /\ Having(e.run_id, "compound.start") # {}
          /\ e.event = "end" => \E j \in Having(e.run_id, "compound.finish") :
                                   evidence[e.run_id].records[j].at = e.at
          /\ e.event = "worker" => \E j \in Having(e.run_id, "compound.worker") :
                                   evidence[e.run_id].records[j].worker_id = e.worker_id
    <2>1. \A i \in DOMAIN history : Backed(history[i])
      BY DEF Ledger, LogBackedByEvidence, Has
    <2>2. Backed(op.event)
      BY DEF Run, Has
    <2>3. \A i \in DOMAIN history' : Backed(history'[i])
      <3> HIDE DEF Backed
      <3> QED BY <1>1, <2>1, <2>2
    <2> QED BY <1>2, <2>3 DEF LogBackedByEvidence, Has
  <1> QED BY <1>3, <1>4, <1>5, <1>6, <1>7 DEF Ledger

\* Unlinking an input that its run archived, after the intent.
LEMMA UnlinkLedger ==
    ASSUME TypeOK, Ledger, Run \in Runs, evidence[Run].start # None,
           op.event.selected = evidence[Run].start.selected,
           Removable(op.signal), Has(Run, "compound.drain.intent"),
           Unlink, UNCHANGED <<history, evidence>>
    PROVE  Ledger'
  <1> DEFINE rm == [run |-> Run, signal |-> op.signal, content |-> inbox[op.signal]]
  <1>1. removed' = removed \cup {rm}
    BY DEF Unlink
  <1>2. \A r, kind : Having(r, kind)' = Having(r, kind)
    BY DEF Having
  <1>3. WorkersAgree' /\ LinesOfRuns'
    BY <1>2 DEF Ledger, WorkersAgree, Names, LinesOfRuns
  <1>4. rm.run = Run /\ rm.signal = op.signal
    OBVIOUS
  <1> HIDE DEF rm
  <1>5. RemovedStarted'
    BY <1>1, <1>4 DEF Ledger, RemovedStarted
  <1>6. LogBackedByEvidence'
    BY <1>2 DEF Ledger, LogBackedByEvidence, Has
  <1>7. RemovalRecoverable'
    <2>1. /\ op.signal \in DOMAIN evidence[Run].inputs
          /\ evidence[Run].inputs[op.signal] = evidence[Run].start.selected[op.signal]
      BY DEF Removable, ArchivedIntact
    <2> QED BY <1>1, <1>2, <1>4, <2>1 DEF Ledger, RemovalRecoverable, Has
  <1>8. DrainageTruthful'
    <2>1. \A r : Gone(r) \subseteq Gone(r)'
      BY <1>1 DEF Gone
    <2>2. \A r \in Runs : RecordedDrained(r)' = RecordedDrained(r)
      BY DEF RecordedDrained, Having
    <2> SUFFICES ASSUME NEW r \in Runs
                 PROVE  /\ RecordedDrained(r)' \subseteq Gone(r)'
                        /\ \A j \in Having(r, "compound.finish")' :
                              evidence'[r].records[j].retained = {}
                                  => DOMAIN evidence'[r].start.selected \subseteq Gone(r)'
      BY DEF DrainageTruthful, Gone
    <2>3. /\ RecordedDrained(r) \subseteq Gone(r)
          /\ \A j \in Having(r, "compound.finish") :
                evidence[r].records[j].retained = {}
                    => DOMAIN evidence[r].start.selected \subseteq Gone(r)
      BY DEF Ledger, DrainageTruthful, Gone
    <2> QED BY <1>2, <2>1, <2>2, <2>3
  <1> QED BY <1>3, <1>5, <1>6, <1>7, <1>8 DEF Ledger

-----------------------------------------------------------------------------
(* What each operation takes for granted, step by step. *)

\* An identity resolved from the archive selects what the run started with.
LEMMA RecordedSelects ==
    ASSUME TypeOK, NEW r \in Runs, evidence[r].start # None
    PROVE  Recorded(r).selected = evidence[r].start.selected
  <1>1. evidence[r].start \in Events
    BY DEF TypeOK, RunEvidence
  <1> QED BY <1>1 DEF Recorded, Merge, Events

\* An identity resolved from the archive names the handle every attachment names.
LEMMA RecordedNames ==
    ASSUME TypeOK, WorkersAgree, NEW r \in Runs, evidence[r].start # None
    PROVE  LET attached == Having(r, "compound.worker")
           IN  /\ attached = {} => Recorded(r) = evidence[r].start
               /\ attached # {} => Names(r, Recorded(r).worker_id)
  <1> DEFINE attached == Having(r, "compound.worker")
             w == evidence[r].records[Latest(attached)].worker_id
  <1>1. evidence[r].start \in Events /\ evidence[r].records \in Seq(Records)
    BY DEF TypeOK, RunEvidence
  <1>2. ASSUME attached # {}
        PROVE  Names(r, Recorded(r).worker_id)
    <2>1. attached \in SUBSET (1..Len(evidence[r].records)) /\ Len(evidence[r].records) \in Nat
      BY <1>1 DEF Having
    <2>2. Latest(attached) \in attached
      <3> HIDE DEF attached
      <3> QED BY <1>2, <2>1, LatestIsMember
    <2>3. Names(r, w)
      BY <2>2 DEF WorkersAgree
    <2>4. Recorded(r) = Merge(evidence[r].start, w)
      BY <1>2 DEF Recorded
    <2>5. Recorded(r).worker_id = w
      <3> HIDE DEF w
      <3> QED BY <1>1, <2>4 DEF Merge, Events
    <2> QED BY <2>3, <2>5
  <1>3. attached = {} => Recorded(r) = evidence[r].start
    BY DEF Recorded
  <1> QED BY <1>2, <1>3

\* A run that the log knows has its start line there; with no attachment
\* archived, the log has none either.
LEMMA EffectiveBacked ==
    ASSUME TypeOK, LogBackedByEvidence, NEW r \in Started(log)
    PROVE  /\ log[StartOf(log, r)] = evidence[r].start
           /\ Having(r, "compound.worker") = {} => Effective(log, r) = evidence[r].start
  <1>1. /\ DOMAIN log = live /\ live \subseteq DOMAIN history
        /\ \A i \in live : log[i] = history[i]
    BY DEF log, Restrict, TypeOK
  <1>2. StartOf(log, r) \in At(log, "start") /\ log[StartOf(log, r)].run_id = r
    BY DEF Started, StartOf
  <1>3. log[StartOf(log, r)] = evidence[r].start
    BY <1>1, <1>2 DEF At, LogBackedByEvidence
  <1>4. ASSUME Having(r, "compound.worker") = {}, NEW i \in WorkersOf(log, r)
        PROVE  FALSE
    <2>1. i \in DOMAIN history /\ history[i].event = "worker" /\ history[i].run_id = r
      BY <1>1 DEF WorkersOf, At
    <2> QED BY <1>4, <2>1 DEF LogBackedByEvidence
  <1>5. Having(r, "compound.worker") = {} => WorkersOf(log, r) = {}
    BY <1>4
  <1> QED BY <1>3, <1>5 DEF Effective

\* With the lock released nothing is in hand.
LEMMA ReleasedHand ==
    ASSUME Release
    PROVE  InHand'
  <1>1. op'.kind = "none" /\ op'.stage = "none"
    BY DEF Release, Idle
  <1> QED BY <1>1 DEF InHand, StagesOfKind, RunKnown, HeldOwns, StartBacked, WorkerBacked,
             FinishBacked, DrainPrepared, Draining

\* What is in hand stays so when nothing it rests on changes.
LEMMA SteadyHand ==
    ASSUME InHand, UNCHANGED <<op, history, live, evidence, removed>>
    PROVE  InHand'
  <1>1. Run' = Run /\ ActiveRuns(log)' = ActiveRuns(log)
    BY DEF Run, ActiveRuns, Started, Ended, At, log
  <1>2. \A r : /\ Gone(r)' = Gone(r) /\ RecordedDrained(r)' = RecordedDrained(r)
               /\ \A kind : Has(r, kind)' = Has(r, kind) /\ Having(r, kind)' = Having(r, kind)
               /\ \A w : Names(r, w)' = Names(r, w)
    BY DEF Gone, RecordedDrained, Names, Has, Having
  <1>3. \A s : Removable(s)' = Removable(s)
    BY <1>1, <1>2 DEF Removable, ArchivedIntact
  <1>4. StagesOfKind' /\ RunKnown' /\ HeldOwns'
    BY <1>1 DEF InHand, StagesOfKind, RunKnown, HeldOwns
  <1>5. StartBacked'
    BY <1>1, <1>2 DEF InHand, StartBacked
  <1>6. WorkerBacked'
    BY <1>1, <1>2 DEF InHand, WorkerBacked
  <1>7. FinishBacked'
    BY <1>1, <1>2 DEF InHand, FinishBacked
  <1>8. DrainPrepared'
    BY <1>1, <1>2, <1>3 DEF InHand, DrainPrepared
  <1> QED BY <1>4, <1>5, <1>6, <1>7, <1>8 DEF InHand

\* Before it has written anything, only an attachment takes something for granted.
LEMMA EarlyHand ==
    ASSUME op'.kind \in {"start", "trigger", "worker"},
           op'.stage \in Rolling \cup {"validate", "register", "evidence", "append"},
           op'.kind = "start" => op'.stage \in Rolling \cup {"validate"},
           op'.kind = "worker" => Run' \in Runs /\ WorkerBacked'
    PROVE  InHand'
  <1>1. StagesOfKind' /\ RunKnown' /\ HeldOwns' /\ StartBacked' /\ FinishBacked' /\ DrainPrepared'
    BY DEF StagesOfKind, RunKnown, HeldOwns, StartBacked, FinishBacked, DrainPrepared,
       Draining, Issued, Rolling
  <1>2. WorkerBacked'
    BY DEF WorkerBacked
  <1> QED BY <1>1, <1>2 DEF InHand

\* An operation that begins with a rollover, or goes on as after one.
LEMMA RollingHand ==
    ASSUME NEW o \in Operations, o.kind \in {"start", "trigger", "worker"},
           o.kind = "worker" =>
               /\ o.event.run_id \in Runs
               /\ Names(o.event.run_id, o.event.worker_id)'
               /\ o.record # None =>
                     o.record = [Record("compound.worker") EXCEPT !.worker_id = o.event.worker_id]
               /\ o.record = None => Has(o.event.run_id, "compound.worker")',
           op' = AfterRollover(o)
    PROVE  InHand'
  <1>1. /\ op'.kind = o.kind /\ op'.event = o.event /\ op'.record = o.record
        /\ op'.stage \in {"rollover", Resume(o)}
    BY DEF AfterRollover, Operations
  <1>2. /\ o.kind = "start" => Resume(o) = "validate"
        /\ o.kind = "trigger" => Resume(o) = "register"
        /\ o.kind = "worker" => Resume(o) = IF o.record # None THEN "evidence" ELSE "append"
    BY DEF Resume
  <1>3. Run' = o.event.run_id
    BY <1>1 DEF Run
  <1>4. WorkerBacked'
    BY <1>1, <1>2, <1>3 DEF WorkerBacked, Rolling
  <1> QED BY <1>1, <1>2, <1>3, <1>4, EarlyHand DEF Rolling

\* A worker can be attached only where the handle agrees with every earlier one,
\* and a request that writes no record finds one.
LEMMA BeginWorkerHand ==
    ASSUME EvidenceInv, NEW ws \in Workspaces, NEW r \in Runs, NEW worker \in Workers,
           BeginWorker(ws, r, worker)
    PROVE  InHand'
  <1> DEFINE e == [Blank EXCEPT !.event = "worker", !.run_id = r,
                                !.workspace_id = ws, !.at = clock, !.worker_id = worker]
             c == IF Merge(Recorded(r), worker) = Recorded(r) THEN None
                  ELSE [Record("compound.worker") EXCEPT !.worker_id = worker]
             o == [Idle EXCEPT !.kind = "worker", !.loaded = configured[ws],
                               !.event = e, !.record = c]
  <1>1. TypeOK /\ WorkersAgree /\ LogBackedByEvidence /\ evidence' = evidence
    BY DEF EvidenceInv, OwnershipInv, Typed, Ledger, BeginWorker
  <1>2. Idle \in Operations /\ Blank \in Events /\ configured[ws] \in Triggers \cup {None}
    BY <1>1, IdleType DEF TypeOK
  <1>3. e \in Events /\ e.run_id = r /\ e.worker_id = worker
    BY <1>1, <1>2 DEF Events, TypeOK
  <1>4. c \in Records \cup {None}
    <2>1. Record("compound.worker") \in Records
      BY RecordType DEF RecordKinds
    <2> QED BY <2>1 DEF Records
  <1>5. /\ evidence[r].start # None
        /\ Recorded(r).worker_id \in {None, worker}
        /\ \/ Merge(Recorded(r), worker) # Recorded(r)
           \/ r \in Started(log) /\ Effective(log, r) # Merge(Recorded(r), worker)
    BY DEF BeginWorker, Resolvable, Conflict, ActiveRuns
  <1>6. Names(r, worker)
    <2>1. CASE Having(r, "compound.worker") = {}
      BY <1>1, <1>5, <2>1, RecordedNames DEF Names
    <2>2. CASE Having(r, "compound.worker") # {}
      <3>1. Names(r, Recorded(r).worker_id)
        BY <1>1, <1>5, <2>2, RecordedNames
      <3>2. Recorded(r).worker_id # None
        BY <3>1, NoneAssumption DEF Names
      <3> QED BY <1>5, <3>1, <3>2
    <2> QED BY <2>1, <2>2
  <1>7. Names(r, worker)' /\ Has(r, "compound.worker")' = Has(r, "compound.worker")
    BY <1>1, <1>6 DEF Names, Has, Having
  <1>8. c = None => Has(r, "compound.worker")
    <2> SUFFICES ASSUME c = None, Having(r, "compound.worker") = {} PROVE FALSE
      BY DEF Has
    <2>1. Merge(Recorded(r), worker) = Recorded(r)
      <3>1. Record("compound.worker") \in Records
        BY RecordType DEF RecordKinds
      <3>2. [Record("compound.worker") EXCEPT !.worker_id = worker] \in Records
        BY <3>1 DEF Records
      <3> QED BY <3>2, RecordsAssumption
    <2>2. Recorded(r) = evidence[r].start
      BY <1>1, <1>5, RecordedNames
    <2>3. r \in Started(log) => Effective(log, r) = evidence[r].start
      BY <1>1, EffectiveBacked
    <2> QED BY <1>5, <2>1, <2>2, <2>3
  <1>9. op' = AfterRollover(o)
    BY DEF BeginWorker
  <1>10. c # None => c = [Record("compound.worker") EXCEPT !.worker_id = worker]
    OBVIOUS
  <1> HIDE DEF e, c
  <1>11. o \in Operations /\ o.kind = "worker" /\ o.event = e /\ o.record = c
    BY <1>2, <1>3, <1>4 DEF Operations, Kinds
  <1> HIDE DEF o
  <1> QED BY <1>3, <1>7, <1>8, <1>9, <1>10, <1>11, RollingHand

\* What a finish is about to report, the ledger already says.
LEMMA BeginFinishHand ==
    ASSUME EvidenceInv, NEW ws \in Workspaces, NEW r \in Runs, NEW completion \in Reports,
           NEW dispositions \in SUBSET Signals, NEW size \in Sizes,
           BeginFinish(ws, r, completion, dispositions, size)
    PROVE  InHand'
  <1> DEFINE active == Recorded(r)
             drained == RecordedDrained(r)
             e == [active EXCEPT !.event = "end", !.at = clock,
                          !.selected = NoSelection, !.dispositions = dispositions,
                          !.drained = drained, !.completion = completion, !.size = size]
             c == [Record("compound.finish") EXCEPT
                          !.at = clock, !.drained = drained,
                          !.retained = DOMAIN active.selected \ drained]
  <1>1. /\ TypeOK /\ StartsFiled /\ DrainageTruthful
        /\ UNCHANGED <<evidence, removed, history, live>>
    BY DEF EvidenceInv, OwnershipInv, Typed, Ledger, BeginFinish, coordination
  <1>2. Idle \in Operations
    BY IdleType
  <1>3. evidence[r].start # None /\ r \in ActiveRuns(log)
    BY DEF BeginFinish, ActiveRun, Resolvable
  <1>4. active \in Events /\ active.run_id = r /\ active.selected = evidence[r].start.selected
    BY <1>1, <1>3, RecordedOf, RecordedSelects
  <1>5. e.run_id = r /\ e.at = clock /\ e.drained = drained
    <2> HIDE DEF active, drained
    <2> QED BY <1>4 DEF Events
  <1>6. /\ c.operation = "compound.finish" /\ c.at = clock
        /\ c.retained = DOMAIN active.selected \ drained
    <2>1. Record("compound.finish") \in Records
      BY RecordType DEF RecordKinds
    <2>2. Record("compound.finish").operation = "compound.finish"
      BY DEF Record
    <2> HIDE DEF active, drained
    <2> QED BY <2>1, <2>2 DEF Records
  <1>7. op' = [Idle EXCEPT !.kind = "finish", !.loaded = configured[ws], !.stage = "evidence",
                           !.event = e, !.record = c]
    BY DEF BeginFinish
  <1>8. drained \subseteq Gone(r)
    BY <1>1 DEF DrainageTruthful, Gone
  <1>9. c.retained = {} => DOMAIN evidence[r].start.selected \subseteq Gone(r)
    BY <1>4, <1>6, <1>8
  <1> HIDE DEF e, c, active, drained
  <1>10. /\ op'.kind = "finish" /\ op'.stage = "evidence" /\ op'.event = e /\ op'.record = c
    BY <1>2, <1>7 DEF Operations
  <1>11. Run' = r /\ ActiveRuns(log)' = ActiveRuns(log)
    BY <1>1, <1>5, <1>10 DEF Run, ActiveRuns, Started, Ended, At, log
  <1>12. Gone(r)' = Gone(r)
    BY <1>1 DEF Gone
  <1>13. FinishBacked'
    BY <1>1, <1>3, <1>5, <1>6, <1>8, <1>9, <1>10, <1>11, <1>12 DEF FinishBacked
  <1>14. StagesOfKind' /\ RunKnown' /\ HeldOwns' /\ StartBacked' /\ WorkerBacked' /\ DrainPrepared'
    BY <1>3, <1>10, <1>11
       DEF StagesOfKind, RunKnown, HeldOwns, StartBacked, WorkerBacked, DrainPrepared, Draining
  <1> QED BY <1>13, <1>14 DEF InHand

\* A drain begins with an unfinished run and nothing removed.
LEMMA BeginDrainHand ==
    ASSUME EvidenceInv, NEW ws \in Workspaces, NEW r \in Runs, NEW approved \in SUBSET Signals,
           BeginDrain(ws, r, approved)
    PROVE  InHand'
  <1>1. TypeOK /\ StartsFiled /\ UNCHANGED <<evidence, removed, history, live>>
    BY DEF EvidenceInv, OwnershipInv, Typed, BeginDrain, coordination
  <1>2. Idle \in Operations /\ Idle.done = {}
    BY IdleType DEF Idle
  <1>3. evidence[r].start # None /\ r \in ActiveRuns(log) /\ ~Has(r, "compound.finish")
    BY DEF BeginDrain, ActiveRun, Resolvable
  <1> DEFINE e == Recorded(r)
  <1>4. e.run_id = r /\ e.selected = evidence[r].start.selected
    BY <1>1, <1>3, RecordedOf, RecordedSelects
  <1>5. op' = [Idle EXCEPT !.kind = "drain", !.loaded = configured[ws], !.stage = "intent",
                           !.event = e, !.todo = approved]
    BY DEF BeginDrain
  <1> HIDE DEF e
  <1>6. op'.kind = "drain" /\ op'.stage = "intent" /\ op'.event = e /\ op'.done = {}
    BY <1>2, <1>5 DEF Operations
  <1>7. Run' = r /\ ActiveRuns(log)' = ActiveRuns(log)
    BY <1>1, <1>4, <1>6 DEF Run, ActiveRuns, Started, Ended, At, log
  <1>8. Has(r, "compound.finish")' = Has(r, "compound.finish")
    BY <1>1 DEF Has, Having
  <1>9. DrainPrepared'
    BY <1>1, <1>3, <1>4, <1>6, <1>7, <1>8 DEF DrainPrepared
  <1>10. StagesOfKind' /\ RunKnown' /\ HeldOwns' /\ StartBacked' /\ WorkerBacked' /\ FinishBacked'
    BY <1>3, <1>6, <1>7
       DEF StagesOfKind, RunKnown, HeldOwns, StartBacked, WorkerBacked, FinishBacked, Draining
  <1> QED BY <1>9, <1>10 DEF InHand

\* Every operation begins with what it takes for granted.
LEMMA BeginHand ==
    ASSUME EvidenceInv, Begin
    PROVE  InHand'
  <1>1. Idle \in Operations /\ Blank \in Events /\ TypeOK
    BY IdleType DEF EvidenceInv, OwnershipInv, Typed
  <1>2. PICK ws \in Workspaces :
            \/ BeginTrigger(ws)
            \/ \E selected \in Batches, automatic \in Modes,
                  worker \in Workers \cup {None}, recovery \in Runs \cup {None}, size \in Sizes :
                  BeginStart(ws, selected, automatic, worker, recovery, size)
            \/ \E r \in Runs :
                  \/ \E worker \in Workers : BeginWorker(ws, r, worker)
                  \/ \E completion \in Reports,
                        dispositions \in SUBSET Signals, size \in Sizes :
                        BeginFinish(ws, r, completion, dispositions, size)
                  \/ \E approved \in SUBSET Signals : BeginDrain(ws, r, approved)
    BY DEF Begin
  <1>3. configured[ws] \in Triggers \cup {None}
    BY <1>1 DEF TypeOK
  <1>4. ASSUME NEW o \in Operations, o.kind \in {"start", "trigger"}, op' = AfterRollover(o)
        PROVE  InHand'
    BY <1>4, RollingHand
  <1>5. CASE BeginTrigger(ws)
    <2> DEFINE e == [Blank EXCEPT !.workspace_id = ws, !.trigger = configured[ws]]
               o == [Idle EXCEPT !.kind = "trigger", !.loaded = configured[ws], !.event = e]
    <2>1. op' = AfterRollover(o)
      BY <1>5 DEF BeginTrigger
    <2>2. e \in Events
      BY <1>1, <1>3 DEF Events
    <2> HIDE DEF e
    <2>3. o \in Operations /\ o.kind = "trigger"
      BY <1>1, <1>3, <2>2 DEF Operations, Kinds
    <2> HIDE DEF o
    <2> QED BY <1>4, <2>1, <2>3
  <1>6. ASSUME NEW selected \in Batches, NEW automatic \in Modes,
               NEW worker \in Workers \cup {None}, NEW recovery \in Runs \cup {None},
               NEW size \in Sizes,
               BeginStart(ws, selected, automatic, worker, recovery, size)
        PROVE  InHand'
    <2> DEFINE e == [Blank EXCEPT
                       !.event = "start", !.workspace_id = ws, !.automatic = automatic,
                       !.worker_id = worker, !.recovery_of = recovery,
                       !.selected = selected, !.size = size]
               o == [Idle EXCEPT !.kind = "start", !.loaded = configured[ws], !.event = e]
    <2>1. op' = AfterRollover(o)
      BY <1>6 DEF BeginStart
    <2>2. e \in Events
      <3>1. selected \in Selections /\ automatic \in BOOLEAN /\ size \in Nat
        BY CallersAssumption
      <3> QED BY <1>1, <3>1 DEF Events
    <2> HIDE DEF e
    <2>3. o \in Operations /\ o.kind = "start"
      BY <1>1, <1>3, <2>2 DEF Operations, Kinds
    <2> HIDE DEF o
    <2> QED BY <1>4, <2>1, <2>3
  <1> QED BY <1>2, <1>5, <1>6, BeginWorkerHand, BeginFinishHand, BeginDrainHand

\* A rollover changes nothing that the operation waiting for it relies on.
LEMMA RolloverHand ==
    ASSUME EvidenceInv, ArchiveLog \/ ReplaceLog
    PROVE  InHand'
  <1>1. TypeOK /\ op \in Operations /\ StagesConsistent /\ InHand
    BY DEF EvidenceInv, OwnershipInv, Typed, TypeOK
  <1>2. CASE Release
    BY <1>2, ReleasedHand
  <1>3. CASE (ArchiveLog /\ Goto("replace")) \/ ReplaceLog
    <2>1. op.stage \in Rolling /\ evidence' = evidence
      BY <1>3 DEF ArchiveLog, ReplaceLog, Rolling
    <2>2. op.kind \in {"start", "trigger", "worker"}
      BY <1>1, <2>1 DEF StagesConsistent
    <2>3. /\ op.kind = "start" => Resume(op) = "validate"
          /\ op.kind = "trigger" => Resume(op) = "register"
          /\ op.kind = "worker" => Resume(op) = IF op.record # None THEN "evidence" ELSE "append"
      BY DEF Resume
    <2>4. Resume(op) \in Stages
      BY <1>1, <2>2, RolloverType
    <2>5. /\ op'.kind = op.kind /\ op'.event = op.event /\ op'.record = op.record
          /\ op'.stage \in {"replace", Resume(op)}
      BY <1>1, <1>3, <2>4, GotoType DEF ReplaceLog, Stages
    <2>6. Run' = Run
      BY <2>5 DEF Run
    <2>7. op.kind = "worker" => WorkerBacked'
      <3>1. /\ \A r, w : Names(r, w)' = Names(r, w)
            /\ \A r : Has(r, "compound.worker")' = Has(r, "compound.worker")
        BY <2>1 DEF Names, Has, Having
      <3>2. op.kind = "worker" => /\ Names(Run, op.event.worker_id)'
                                  /\ op.record = None => Has(Run, "compound.worker")'
        BY <1>1, <2>1, <2>5, <2>6, <3>1 DEF InHand, WorkerBacked
      <3> QED BY <1>1, <2>1, <2>3, <2>5, <2>6, <3>2 DEF InHand, WorkerBacked, Rolling
    <2> QED BY <1>1, <2>2, <2>3, <2>5, <2>6, <2>7, EarlyHand DEF InHand, RunKnown, Rolling
  <1> QED BY <1>2, <1>3 DEF ArchiveLog

\* Once its record is durable, an operation may say so in the log.
LEMMA AppendEvidenceHand ==
    ASSUME EvidenceInv, AppendEvidence
    PROVE  InHand'
  <1>1. TypeOK /\ op \in Operations /\ StagesConsistent /\ EventMatches /\ InHand
    BY DEF EvidenceInv, OwnershipInv, Typed, TypeOK
  <1>2. /\ op.stage = "evidence" /\ op.kind \in {"start", "worker", "finish"}
        /\ op.record \in Records /\ Run \in Runs
    BY <1>1 DEF AppendEvidence, StagesConsistent, EventMatches, Issued
  <1>3. CASE Release
    BY <1>3, ReleasedHand
  <1>4. CASE ~Release
    <2>1. evidence' = Written(Run, op.record) /\ Goto("append") /\ UNCHANGED <<history, live, removed>>
      BY <1>4 DEF AppendEvidence, coordination
    <2>2. /\ op'.stage = "append" /\ op'.kind = op.kind /\ op'.event = op.event
          /\ op'.record = op.record
      BY <1>1, <2>1, GotoType DEF Stages
    <2>3. Run' = Run /\ ActiveRuns(log)' = ActiveRuns(log) /\ \A r : Gone(r)' = Gone(r)
      BY <2>1, <2>2 DEF Run, ActiveRuns, Started, Ended, At, log, Gone
    <2> DEFINE n == Len(evidence[Run].records) + 1
    <2>4. /\ evidence'[Run].start = evidence[Run].start
          /\ evidence'[Run].inputs = evidence[Run].inputs
      BY <1>1, <1>2, <2>1, WrittenEffect
    <2>5. \A kind \in RecordKinds :
             Having(Run, kind)' = Having(Run, kind) \cup
                                  (IF op.record.operation = kind THEN {n} ELSE {})
      <3>1. \A r \in Runs, kind \in RecordKinds :
               Having(r, kind)' = Having(r, kind) \cup
                                  (IF r = Run /\ op.record.operation = kind THEN {n} ELSE {})
        BY <1>1, <1>2, <2>1, HavingMore
      <3> DEFINE q == Run
      <3>2. \A kind \in RecordKinds :
               Having(q, kind)' = Having(q, kind) \cup
                                  (IF q = Run /\ op.record.operation = kind THEN {n} ELSE {})
        BY <1>2, <2>3, <3>1 DEF Having
      <3> QED BY <3>2
    <2>6. /\ evidence'[Run].records[n] = op.record
          /\ \A i \in DOMAIN evidence[Run].records :
                evidence'[Run].records[i] = evidence[Run].records[i]
      BY <1>1, <1>2, <2>1, HavingMore
    <2>7. \A kind : \A i \in Having(Run, kind) : i \in DOMAIN evidence[Run].records
      BY DEF Having
    <2>8. {"compound.start", "compound.worker", "compound.finish"} \subseteq RecordKinds
      BY DEF RecordKinds
    <2> HIDE DEF n
    <2>9. StagesOfKind' /\ RunKnown' /\ HeldOwns' /\ DrainPrepared'
      BY <1>1, <1>2, <2>2, <2>3
         DEF InHand, StagesOfKind, RunKnown, HeldOwns, DrainPrepared, Draining
    <2>10. StartBacked'
      <3> SUFFICES ASSUME op.kind = "start"
                   PROVE  /\ evidence'[Run].start = op.event
                          /\ evidence'[Run].inputs = op.event.selected
                          /\ Having(Run, "compound.start")' # {}
        BY <2>2, <2>3 DEF StartBacked, Has
      <3>1. /\ evidence[Run].start = op.event /\ evidence[Run].inputs = op.event.selected
            /\ op.record = Record("compound.start")
        BY <1>1, <1>2 DEF InHand, StartBacked
      <3>2. op.record.operation = "compound.start"
        BY <3>1 DEF Record
      <3> QED BY <2>4, <2>5, <2>8, <3>1, <3>2
    <2>11. WorkerBacked'
      <3> SUFFICES ASSUME op.kind = "worker"
                   PROVE  /\ Names(Run, op.event.worker_id)'
                          /\ op.record # None =>
                                op.record = [Record("compound.worker") EXCEPT
                                                !.worker_id = op.event.worker_id]
                          /\ Having(Run, "compound.worker")' # {}
        BY <2>2, <2>3 DEF WorkerBacked, Has
      <3> DEFINE w == op.event.worker_id
      <3>1. /\ Names(Run, w)
            /\ op.record = [Record("compound.worker") EXCEPT !.worker_id = w]
        BY <1>1, <1>2, RecordsAssumption DEF InHand, WorkerBacked
      <3>2. op.record.operation = "compound.worker" /\ op.record.worker_id = w
        <4>1. Record("compound.worker") \in Records
              /\ Record("compound.worker").operation = "compound.worker"
          BY RecordType DEF RecordKinds, Record
        <4> HIDE DEF w
        <4> QED BY <3>1, <4>1 DEF Records
      <3>3. /\ Having(Run, "compound.worker")' = Having(Run, "compound.worker") \cup {n}
            /\ \A i \in Having(Run, "compound.worker")' : evidence'[Run].records[i].worker_id = w
        <4>1. Having(Run, "compound.worker")' = Having(Run, "compound.worker") \cup {n}
          BY <2>5, <2>8, <3>2
        <4>2. \A i \in Having(Run, "compound.worker") : evidence[Run].records[i].worker_id = w
          BY <3>1 DEF Names
        <4> QED BY <2>6, <2>7, <3>2, <4>1, <4>2
      <3>4. Names(Run, w)'
        BY <2>2, <2>3, <2>4, <3>1, <3>3 DEF Names
      <3> QED BY <3>1, <3>3, <3>4
    <2>12. FinishBacked'
      <3> SUFFICES ASSUME op.kind = "finish"
                   PROVE  /\ evidence'[Run].start # None
                          /\ op.event.drained \subseteq Gone(Run)'
                          /\ \E i \in Having(Run, "compound.finish")' :
                                evidence'[Run].records[i].at = op.event.at
        BY <2>2, <2>3 DEF FinishBacked
      <3>1. /\ evidence[Run].start # None /\ op.event.drained \subseteq Gone(Run)
            /\ op.record.operation = "compound.finish" /\ op.record.at = op.event.at
        BY <1>1, <1>2 DEF InHand, FinishBacked
      <3>2. n \in Having(Run, "compound.finish")'
        BY <2>5, <2>8, <3>1
      <3>3. Gone(Run)' = Gone(Run)
        BY <2>1, <2>3 DEF Gone
      <3> QED BY <2>4, <2>6, <3>1, <3>2, <3>3
    <2> QED BY <2>9, <2>10, <2>11, <2>12 DEF InHand
  <1> QED BY <1>3, <1>4

\* The steps that archive a start, or register a trigger.
LEMMA StartStepHand ==
    ASSUME EvidenceInv,
           \/ \E expected \in Triggers \cup {None} : RegisterTrigger(expected)
           \/ \E r \in Runs : ValidateInputs(r)
           \/ \E s \in Signals : ArchiveInput(s)
           \/ WriteStart
    PROVE  InHand'
  <1>1. TypeOK /\ op \in Operations /\ op.event \in Events /\ StagesConsistent /\ EventMatches /\ InHand
    BY DEF EvidenceInv, OwnershipInv, Typed, TypeOK, Operations
  <1>2. ASSUME op'.kind = "start", op'.stage \in {"inputs", "evidence"}, Run' \in Runs, StartBacked'
        PROVE  InHand'
    BY <1>2 DEF InHand, StagesOfKind, RunKnown, HeldOwns, WorkerBacked, FinishBacked,
       DrainPrepared, Draining
  <1>3. ASSUME NEW expected, RegisterTrigger(expected)
        PROVE  InHand'
    <2>1. op.kind = "trigger"
      BY <1>1, <1>3 DEF RegisterTrigger, EventMatches
    <2>2. CASE op' = [op EXCEPT !.stage = "append", !.event.at = clock]
      <3>1. op'.stage = "append" /\ op'.kind = "trigger"
        BY <1>1, <2>1, <2>2 DEF Operations
      <3> QED BY <3>1, EarlyHand
    <2> QED BY <1>3, <2>2, ReleasedHand DEF RegisterTrigger
  <1>4. ASSUME NEW r \in Runs, ValidateInputs(r)
        PROVE  InHand'
    <2>1. op.kind = "start" /\ evidence[r] = NoEvidence /\ evidence' = evidence
      BY <1>1, <1>4 DEF ValidateInputs, StagesConsistent, Unissued
    <2>2. CASE Release
      BY <2>2, ReleasedHand
    <2>3. CASE ~Release
      <3> DEFINE e == [op.event EXCEPT !.at = clock, !.run_id = r]
      <3>1. e.run_id = r /\ e.selected = op.event.selected
        BY <1>1 DEF Events
      <3>2. op' = [op EXCEPT !.event.at = clock, !.event.run_id = r,
                             !.todo = DOMAIN op.event.selected, !.stage = "inputs"]
        BY <1>4, <2>3 DEF ValidateInputs
      <3>3. op' = [op EXCEPT !.event = e, !.todo = DOMAIN op.event.selected, !.stage = "inputs"]
        BY <1>1, <3>2 DEF Operations, Events
      <3> HIDE DEF e
      <3>4. /\ op'.kind = "start" /\ op'.stage = "inputs" /\ op'.event = e
            /\ op'.todo = DOMAIN op.event.selected
        BY <1>1, <2>1, <3>3 DEF Operations
      <3>5. Run' = r
        BY <3>1, <3>4 DEF Run
      <3>6. StartBacked'
        <4>1. /\ evidence'[r].start = None /\ evidence'[r].records = <<>>
              /\ DOMAIN evidence'[r].inputs = {}
          BY <2>1 DEF NoEvidence, NoSelection
        <4> QED BY <3>1, <3>4, <3>5, <4>1 DEF StartBacked
      <3> QED BY <1>2, <3>4, <3>5, <3>6
    <2> QED BY <2>2, <2>3
  <1>5. ASSUME NEW s \in Signals, ArchiveInput(s)
        PROVE  InHand'
    <2>1. /\ op.stage = "inputs" /\ op.kind = "start" /\ Run \in Runs /\ s \in op.todo
          /\ op.todo \subseteq DOMAIN op.event.selected
      BY <1>1, <1>5 DEF ArchiveInput, StagesConsistent, Issued
    <2> DEFINE inputs == evidence[Run].inputs
               selected == op.event.selected
    <2>2. /\ evidence[Run].start = None /\ evidence[Run].records = <<>>
          /\ DOMAIN inputs = DOMAIN selected \ op.todo
          /\ \A x \in DOMAIN inputs : inputs[x] = selected[x]
      BY <1>1, <2>1 DEF InHand, StartBacked
    <2>3. op' = [op EXCEPT !.todo = op.todo \ {s}]
      BY <1>5 DEF ArchiveInput
    <2>4. /\ op'.kind = "start" /\ op'.stage = "inputs" /\ op'.event = op.event
          /\ op'.todo = op.todo \ {s}
      BY <1>1, <2>1, <2>3 DEF Operations
    <2>5. Run' = Run
      BY <2>4 DEF Run
    <2>6. evidence' = [evidence EXCEPT ![Run].inputs = WithInput(inputs, s, selected[s])]
      BY <1>5 DEF ArchiveInput
    <2>7. evidence[Run] \in RunEvidence /\ Run \in DOMAIN evidence
      BY <1>1, <2>1 DEF TypeOK
    <2>8. /\ evidence'[Run].start = None /\ evidence'[Run].records = <<>>
          /\ evidence'[Run].inputs = WithInput(inputs, s, selected[s])
      <3> HIDE DEF inputs, selected
      <3> QED BY <2>2, <2>6, <2>7 DEF RunEvidence
    <2>9. /\ DOMAIN WithInput(inputs, s, selected[s]) = DOMAIN selected \ (op.todo \ {s})
          /\ \A x \in DOMAIN WithInput(inputs, s, selected[s]) :
                WithInput(inputs, s, selected[s])[x] = selected[x]
      <3> HIDE DEF inputs
      <3> QED BY <2>1, <2>2 DEF WithInput
    <2>10. StartBacked'
      BY <2>4, <2>5, <2>8, <2>9 DEF StartBacked
    <2> QED BY <1>2, <2>1, <2>4, <2>5, <2>10
  <1>6. CASE WriteStart
    <2>1. op.stage = "inputs" /\ op.kind = "start" /\ Run \in Runs /\ op.todo = {}
      BY <1>1, <1>6 DEF WriteStart, StagesConsistent, Issued
    <2>2. evidence[Run] \in RunEvidence /\ Run \in DOMAIN evidence
      BY <1>1, <2>1 DEF TypeOK
    <2>3. evidence[Run].inputs = op.event.selected
      <3>1. evidence[Run].inputs \in Selections /\ op.event.selected \in Selections
        BY <1>1, <2>2 DEF RunEvidence, Events
      <3>2. PICK S \in SUBSET Signals : evidence[Run].inputs \in [S -> Contents]
        BY <3>1 DEF Selections
      <3>3. PICK T \in SUBSET Signals : op.event.selected \in [T -> Contents]
        BY <3>1 DEF Selections
      <3>4. /\ DOMAIN evidence[Run].inputs = DOMAIN op.event.selected
            /\ \A x \in DOMAIN evidence[Run].inputs : evidence[Run].inputs[x] = op.event.selected[x]
        BY <1>1, <2>1 DEF InHand, StartBacked
      <3> QED BY <3>2, <3>3, <3>4
    <2>4. evidence' = [evidence EXCEPT ![Run].start = op.event]
      BY <1>6 DEF WriteStart
    <2>5. evidence'[Run].start = op.event /\ evidence'[Run].inputs = evidence[Run].inputs
      BY <2>2, <2>4 DEF RunEvidence
    <2>6. op' = [op EXCEPT !.stage = "evidence", !.record = Record("compound.start")]
      BY <1>6 DEF WriteStart
    <2>7. /\ op'.kind = "start" /\ op'.stage = "evidence" /\ op'.event = op.event
          /\ op'.record = Record("compound.start")
      BY <1>1, <2>1, <2>6 DEF Operations
    <2>8. Run' = Run /\ Record("compound.start")' = Record("compound.start")
      BY <2>7 DEF Run, Record
    <2>9. StartBacked'
      BY <2>3, <2>5, <2>7, <2>8 DEF StartBacked
    <2> QED BY <1>2, <2>1, <2>7, <2>8, <2>9
  <1> QED BY <1>3, <1>4, <1>5, <1>6

\* A drain that goes on knows what it knew, if its run's evidence still says so.
LEMMA DrainingHand ==
    ASSUME InHand, op.kind = "drain", op'.kind = "drain", op'.event = op.event,
           op'.stage \in Draining \ {"intent"}, UNCHANGED <<history, live>>,
           evidence'[Run].start = evidence[Run].start,
           ~Has(Run, "compound.finish")', Has(Run, "compound.drain.intent")',
           op'.stage \in {"remove", "unlink", "acknowledge"} => \A s \in op'.todo : Removable(s)',
           op'.stage = "unlink" => Removable(op.signal)',
           op'.stage \in {"unlink", "acknowledge"} => op'.signal \notin op'.todo,
           op'.stage = "acknowledge" => op'.signal \in Gone(Run)',
           op'.done \subseteq Gone(Run)'
    PROVE  InHand'
  <1>1. Run' = Run /\ ActiveRuns(log)' = ActiveRuns(log)
    BY DEF Run, ActiveRuns, Started, Ended, At, log
  <1>2. DrainPrepared'
    BY <1>1 DEF InHand, DrainPrepared
  <1>3. StagesOfKind' /\ RunKnown' /\ HeldOwns' /\ StartBacked' /\ WorkerBacked' /\ FinishBacked'
    BY <1>1 DEF InHand, StagesOfKind, RunKnown, HeldOwns, StartBacked, WorkerBacked, FinishBacked
  <1> QED BY <1>2, <1>3 DEF InHand

\* What a drain knows before a step that is not its last.
LEMMA DrainKnows ==
    ASSUME EvidenceInv, op.stage \in Draining
    PROVE  /\ op.kind = "drain" /\ Run \in Runs /\ evidence[Run] \in RunEvidence
           /\ TypeOK /\ InHand /\ DrainPrepared /\ op \in Operations
           /\ evidence[Run].start # None /\ op.event.selected = evidence[Run].start.selected
           /\ ~Has(Run, "compound.finish") /\ op.done \subseteq Gone(Run)
           /\ op.stage # "intent" => Has(Run, "compound.drain.intent")
           /\ op.stage \in {"remove", "unlink", "acknowledge"} => \A s \in op.todo : Removable(s)
  <1>1. TypeOK /\ InHand /\ op \in Operations /\ StagesConsistent
    BY DEF EvidenceInv, OwnershipInv, Typed, TypeOK
  <1>2. op.kind = "drain" /\ Run \in Runs
    BY <1>1 DEF InHand, StagesOfKind, RunKnown
  <1>3. evidence[Run] \in RunEvidence
    BY <1>1, <1>2 DEF TypeOK
  <1> QED BY <1>1, <1>2, <1>3 DEF InHand, DrainPrepared

\* A record of a drain leaves the rest of what is read about its run.
LEMMA DrainWrites ==
    ASSUME TypeOK, Run \in Runs, NEW record \in Records, evidence' = Written(Run, record),
           op'.event = op.event,
           record.operation \in {"compound.drain.intent", "compound.drain.removed"}
    PROVE  /\ evidence'[Run].start = evidence[Run].start
           /\ evidence'[Run].inputs = evidence[Run].inputs
           /\ Has(Run, "compound.finish")' = Has(Run, "compound.finish")
           /\ Has(Run, "compound.drain.intent") => Has(Run, "compound.drain.intent")'
           /\ record.operation = "compound.drain.intent" => Has(Run, "compound.drain.intent")'
           /\ \A s : (s \notin record.drained /\ Removable(s)) => Removable(s)'
  <1> DEFINE q == Run
             n == Len(evidence[q].records) + 1
  <1>1. evidence'[Run].start = evidence[Run].start /\ evidence'[Run].inputs = evidence[Run].inputs
    BY WrittenEffect
  <1>2. Run' = Run
    BY DEF Run
  <1>3. \A kind \in RecordKinds :
           Having(Run, kind)' = Having(Run, kind) \cup
                                (IF record.operation = kind THEN {n} ELSE {})
    <2>1. \A r \in Runs, kind \in RecordKinds :
             Having(r, kind)' = Having(r, kind) \cup
                                (IF r = Run /\ record.operation = kind THEN {n} ELSE {})
      BY HavingMore
    <2>2. \A kind \in RecordKinds :
             Having(q, kind)' = Having(q, kind) \cup
                                (IF q = Run /\ record.operation = kind THEN {n} ELSE {})
      BY <1>2, <2>1 DEF Having
    <2> QED BY <2>2
  <1> HIDE DEF n
  <1>4. {"compound.finish", "compound.drain.intent"} \subseteq RecordKinds
    BY DEF RecordKinds
  <1>5. /\ Having(Run, "compound.finish")' = Having(Run, "compound.finish")
        /\ Having(Run, "compound.drain.intent") \subseteq Having(Run, "compound.drain.intent")'
        /\ record.operation = "compound.drain.intent" => n \in Having(Run, "compound.drain.intent")'
    BY <1>3, <1>4
  <1>6. RecordedDrained(Run)' \subseteq RecordedDrained(Run) \cup record.drained
    <2>1. \A r \in Runs : RecordedDrained(r)' \subseteq RecordedDrained(r) \cup record.drained
      BY DrainedMore
    <2>2. RecordedDrained(q)' \subseteq RecordedDrained(q) \cup record.drained
      BY <1>2, <2>1 DEF RecordedDrained, Having
    <2> QED BY <2>2
  <1>7. \A s : (s \notin record.drained /\ Removable(s)) => Removable(s)'
    BY <1>1, <1>2, <1>6 DEF Removable, ArchivedIntact
  <1> QED BY <1>1, <1>5, <1>7 DEF Has

\* The steps of a drain.
LEMMA DrainStepHand ==
    ASSUME EvidenceInv,
           \/ WriteIntent \/ SelectCandidates
           \/ \E s \in Signals : VerifyInput(s)
           \/ RemoveInput \/ Acknowledge \/ ReportDrain
           \/ RemoveUnsynced \/ AcknowledgeFails \/ DrainInterrupted
    PROVE  InHand'
  <1>1. CASE Release
    BY <1>1, ReleasedHand
  <1> SUFFICES ASSUME ~Release PROVE InHand'
    BY <1>1
  <1>2. op.stage \in Draining
    BY DEF WriteIntent, SelectCandidates, VerifyInput, RemoveInput, Acknowledge, ReportDrain,
       RemoveUnsynced, AcknowledgeFails, DrainInterrupted, Draining
  <1>3. /\ op.kind = "drain" /\ Run \in Runs /\ evidence[Run] \in RunEvidence
        /\ TypeOK /\ InHand /\ DrainPrepared /\ op \in Operations
        /\ evidence[Run].start # None /\ op.event.selected = evidence[Run].start.selected
        /\ ~Has(Run, "compound.finish") /\ op.done \subseteq Gone(Run)
        /\ op.stage # "intent" => Has(Run, "compound.drain.intent")
        /\ op.stage \in {"remove", "unlink", "acknowledge"} => \A s \in op.todo : Removable(s)
    BY <1>2, DrainKnows
  <1>4. ASSUME op'.event = op.event, UNCHANGED evidence
        PROVE  /\ Run' = Run
               /\ Has(Run, "compound.finish")' = Has(Run, "compound.finish")
               /\ Has(Run, "compound.drain.intent")' = Has(Run, "compound.drain.intent")
               /\ \A s : Removable(s)' = Removable(s)
               /\ removed \subseteq removed' => Gone(Run) \subseteq Gone(Run)'
    <2>1. Run' = Run
      BY <1>4 DEF Run
    <2> QED BY <1>4, <2>1 DEF Has, Having, Removable, ArchivedIntact, RecordedDrained, Gone
  <1>5. CASE WriteIntent
    <2> DEFINE record == Record("compound.drain.intent")
    <2>1. evidence' = Written(Run, record) /\ Goto("select") /\ UNCHANGED <<history, live, removed>>
      BY <1>5 DEF WriteIntent, coordination
    <2>2. /\ op'.stage = "select" /\ op'.kind = "drain" /\ op'.event = op.event
          /\ op'.done = op.done
      BY <1>3, <2>1, GotoType DEF Stages
    <2>3. record \in Records /\ record.operation = "compound.drain.intent"
      BY RecordType DEF RecordKinds, Record
    <2> HIDE DEF record
    <2>4. /\ evidence'[Run].start = evidence[Run].start
          /\ Has(Run, "compound.finish")' = Has(Run, "compound.finish")
          /\ Has(Run, "compound.drain.intent")'
      BY <1>3, <2>1, <2>2, <2>3, DrainWrites
    <2>5. Gone(Run)' = Gone(Run)
      BY <2>1, <2>2 DEF Gone, Run
    <2> QED BY <1>3, <2>1, <2>2, <2>4, <2>5, DrainingHand DEF Draining
  <1>6. CASE SelectCandidates
    <2>1. op' = [op EXCEPT !.stage = "remove", !.todo = {s \in op.todo : Candidate(s)}]
      BY <1>6 DEF SelectCandidates
    <2>2. /\ op'.stage = "remove" /\ op'.kind = "drain" /\ op'.event = op.event
          /\ op'.done = op.done /\ op'.todo = {s \in op.todo : Candidate(s)}
      BY <1>3, <2>1 DEF Operations
    <2>3. op.stage = "select" /\ UNCHANGED <<history, live, removed, evidence>>
      BY <1>6 DEF SelectCandidates, coordination
    <2>4. \A s \in op'.todo : Removable(s)
      BY <2>2 DEF Candidate, Removable
    <2>5. \A s \in op'.todo : Removable(s)'
      BY <1>4, <2>2, <2>3, <2>4
    <2> QED BY <1>3, <1>4, <2>2, <2>3, <2>5, DrainingHand DEF Draining
  <1>7. ASSUME NEW s \in Signals, VerifyInput(s)
        PROVE  InHand'
    <2>1. /\ op.stage = "remove" /\ s \in op.todo
          /\ UNCHANGED <<history, live, removed, evidence>>
          /\ op' = [op EXCEPT !.todo = op.todo \ {s},
                              !.stage = IF Unchanged(s) THEN "unlink" ELSE op.stage,
                              !.signal = IF Unchanged(s) THEN s ELSE op.signal]
      BY <1>7 DEF VerifyInput, coordination
    <2>2. /\ op'.kind = "drain" /\ op'.event = op.event /\ op'.done = op.done
          /\ op'.todo = op.todo \ {s}
          /\ \/ op'.stage = "unlink" /\ op'.signal = s
             \/ op'.stage = "remove"
      <3>1. CASE Unchanged(s)
        <4>1. op' = [op EXCEPT !.todo = op.todo \ {s}, !.stage = "unlink", !.signal = s]
          BY <2>1, <3>1
        <4> QED BY <1>3, <4>1 DEF Operations
      <3>2. CASE ~Unchanged(s)
        <4>1. op' = [op EXCEPT !.todo = op.todo \ {s}, !.stage = op.stage, !.signal = op.signal]
          BY <2>1, <3>2
        <4> QED BY <1>3, <2>1, <4>1 DEF Operations
      <3> QED BY <3>1, <3>2
    <2>3. \A x \in op.todo : Removable(x)'
      BY <1>3, <1>4, <2>1, <2>2
    <2>4. op'.stage = "unlink" => Removable(op.signal)'
      BY <2>1, <2>2, <2>3 DEF Removable, ArchivedIntact
    <2> QED BY <1>3, <1>4, <2>1, <2>2, <2>3, <2>4, DrainingHand DEF Draining
  <1>8. ASSUME op.stage = "unlink", inbox[op.signal] # Absent, Unlink, op'.kind = "drain",
               op'.event = op.event, op'.todo = op.todo, op'.signal = op.signal,
               \/ op'.stage = "acknowledge" /\ op'.done = op.done \cup {op.signal}
               \/ op'.stage = "remove" /\ op'.done = op.done,
               UNCHANGED <<history, live, evidence>>
        PROVE  InHand'
    <2> DEFINE rm == [run |-> Run, signal |-> op.signal, content |-> inbox[op.signal]]
    <2>1. removed' = removed \cup {rm} /\ Run' = Run
      BY <1>8 DEF Unlink, Run
    <2>2. Gone(Run) \subseteq Gone(Run)' /\ op.signal \in Gone(Run)'
      <3>1. rm.run = Run /\ rm.signal = op.signal
        OBVIOUS
      <3> HIDE DEF rm
      <3> QED BY <2>1, <3>1 DEF Gone
    <2>3. op.signal \notin op.todo
      BY <1>3, <1>8 DEF DrainPrepared
    <2>4. \A s \in op'.todo : Removable(s)'
      BY <1>3, <1>4, <1>8
    <2>5. op'.done \subseteq Gone(Run)'
      BY <1>3, <1>8, <2>2
    <2> QED BY <1>3, <1>4, <1>8, <2>2, <2>3, <2>4, <2>5, DrainingHand DEF Draining
  <1>9. CASE RemoveInput
    <2>1. op.stage = "unlink" /\ UNCHANGED <<history, live, evidence>>
      BY <1>9 DEF RemoveInput, coordination
    <2>2. CASE inbox[op.signal] # Absent
      <3>1. op' = [op EXCEPT !.stage = "acknowledge", !.done = op.done \cup {op.signal}] /\ Unlink
        BY <1>9, <2>2 DEF RemoveInput
      <3>2. /\ op'.stage = "acknowledge" /\ op'.done = op.done \cup {op.signal}
            /\ op'.kind = "drain" /\ op'.event = op.event /\ op'.todo = op.todo
            /\ op'.signal = op.signal
        BY <1>3, <3>1 DEF Operations
      <3> QED BY <1>8, <2>1, <2>2, <3>1, <3>2
    <2>3. CASE inbox[op.signal] = Absent
      <3>1. Goto("remove") /\ removed' = removed
        BY <1>9, <2>3 DEF RemoveInput
      <3>2. /\ op'.stage = "remove" /\ op'.kind = "drain" /\ op'.event = op.event
            /\ op'.done = op.done /\ op'.todo = op.todo
        BY <1>3, <3>1, GotoType DEF Stages
      <3>3. \A s \in op'.todo : Removable(s)'
        BY <1>3, <1>4, <2>1, <3>2
      <3> QED BY <1>3, <1>4, <2>1, <3>1, <3>2, <3>3, DrainingHand DEF Draining
    <2> QED BY <2>2, <2>3
  <1>10. CASE RemoveUnsynced
    <2>1. /\ op.stage = "unlink" /\ inbox[op.signal] # Absent /\ Unlink /\ Goto("remove")
          /\ UNCHANGED <<history, live, evidence>>
      BY <1>10 DEF RemoveUnsynced, coordination
    <2>2. /\ op'.stage = "remove" /\ op'.kind = "drain" /\ op'.event = op.event
          /\ op'.done = op.done /\ op'.todo = op.todo /\ op'.signal = op.signal
      BY <1>3, <2>1, GotoType DEF Stages
    <2> QED BY <1>8, <2>1, <2>2
  <1>11. ASSUME op.stage = "acknowledge", UNCHANGED <<history, live, removed>>,
                evidence' \in {evidence, Torn(Run), Acknowledgement},
                \/ Goto("report")
                \/ Goto("remove") /\ evidence' = Acknowledgement
         PROVE  InHand'
    <2> DEFINE record == [Record("compound.drain.removed") EXCEPT !.drained = {op.signal}]
    <2>1. /\ op'.stage \in {"report", "remove"} /\ op'.kind = "drain" /\ op'.event = op.event
          /\ op'.done = op.done /\ op'.todo = op.todo /\ op'.signal = op.signal
          /\ op'.stage = "remove" => Goto("remove")
      BY <1>3, <1>11, GotoType DEF Stages
    <2>2. op.signal \in Signals /\ op.signal \notin op.todo
      BY <1>3, <1>11 DEF DrainPrepared, EvidenceInv, OwnershipInv, Typed, StagesConsistent
    <2>3. /\ record \in Records /\ record.operation = "compound.drain.removed"
          /\ record.drained = {op.signal}
      <3>1. /\ Record("compound.drain.removed") \in Records
            /\ Record("compound.drain.removed").operation = "compound.drain.removed"
        BY RecordType DEF RecordKinds, Record
      <3> QED BY <2>2, <3>1 DEF Records
    <2>4. Acknowledgement = Written(Run, record)
      BY DEF Acknowledgement
    <2> HIDE DEF record
    <2>5. Run' = Run /\ Gone(Run)' = Gone(Run)
      BY <1>11, <2>1 DEF Gone, Run
    <2>6. CASE evidence' = Acknowledgement
      <3>1. /\ evidence'[Run].start = evidence[Run].start
            /\ Has(Run, "compound.finish")' = Has(Run, "compound.finish")
            /\ Has(Run, "compound.drain.intent")'
            /\ \A s : (s \notin record.drained /\ Removable(s)) => Removable(s)'
        BY <1>3, <1>11, <2>1, <2>3, <2>4, <2>6, DrainWrites
      <3>2. \A s \in op'.todo : Removable(s)'
        BY <1>3, <1>11, <2>1, <2>2, <2>3, <3>1
      <3> QED BY <1>3, <1>11, <2>1, <2>5, <3>1, <3>2, DrainingHand DEF Draining
    <2>7. CASE evidence' \in {evidence, Torn(Run)} /\ Goto("report")
      <3>1. \A r \in Runs : evidence'[r].start = evidence[r].start
                            /\ evidence'[r].records = evidence[r].records
        BY <1>3, <2>7, SteadyRecords
      <3>2. /\ Has(Run, "compound.finish")' = Has(Run, "compound.finish")
            /\ Has(Run, "compound.drain.intent")' = Has(Run, "compound.drain.intent")
        BY <1>3, <2>5, <3>1 DEF Has, Having
      <3>3. op'.stage = "report"
        BY <1>3, <2>7, GotoType DEF Stages
      <3> QED BY <1>3, <1>11, <2>1, <2>5, <3>1, <3>2, <3>3, DrainingHand DEF Draining
    <2> QED BY <1>11, <2>6, <2>7
  <1>12. CASE Acknowledge
    BY <1>11, <1>12 DEF Acknowledge, coordination
  <1>13. CASE AcknowledgeFails
    BY <1>11, <1>13 DEF AcknowledgeFails, coordination
  <1>14. CASE DrainInterrupted
    <2>1. Goto("report") /\ op.stage # "intent" /\ UNCHANGED <<history, live, evidence, removed>>
      BY <1>14 DEF DrainInterrupted, coordination
    <2>2. /\ op'.stage = "report" /\ op'.kind = "drain" /\ op'.event = op.event
          /\ op'.done = op.done
      BY <1>3, <2>1, GotoType DEF Stages
    <2> QED BY <1>3, <1>4, <2>1, <2>2, DrainingHand DEF Draining
  <1> QED BY <1>5, <1>6, <1>7, <1>9, <1>10, <1>12, <1>13, <1>14 DEF ReportDrain

\* Every step leaves the operation in hand with what it takes for granted.
LEMMA NextHand == EvidenceInv /\ [Next]_vars => InHand'
  <1> SUFFICES ASSUME EvidenceInv, [Next]_vars PROVE InHand'
    OBVIOUS
  <1>1. InHand
    BY DEF EvidenceInv
  <1>2. CASE Proceed
    BY <1>2, RolloverHand, AppendEvidenceHand, StartStepHand, DrainStepHand, ReleasedHand
       DEF Proceed, AppendActivity
  <1>3. CASE Fail
    BY <1>3, DrainStepHand, ReleasedHand DEF Fail, Interrupt, InterruptEvidence, InterruptActivity
  <1>4. CASE Unlocked \/ UNCHANGED vars
    <2>1. UNCHANGED <<op, history, live, evidence, removed>>
      BY <1>4 DEF Unlocked, Tick, Regress, EditSignal, EditConfiguration, vars, coordination
    <2> QED BY <1>1, <2>1, SteadyHand
  <1> QED BY <1>2, <1>3, <1>4, BeginHand DEF Next

-----------------------------------------------------------------------------
(* The ledger stays true. *)

\* The records of a start, an attachment and a finish.
LEMMA AppendEvidenceLedger ==
    ASSUME EvidenceInv, AppendEvidence
    PROVE  Ledger'
  <1>1. TypeOK /\ StagesConsistent /\ EventMatches /\ InHand /\ Ledger
    BY DEF EvidenceInv, OwnershipInv, Typed
  <1>2. /\ op.stage = "evidence" /\ op.kind \in {"start", "worker", "finish"}
        /\ op.record \in Records /\ Run \in Runs /\ UNCHANGED <<history, removed>>
    BY <1>1 DEF AppendEvidence, StagesConsistent, EventMatches, Issued, coordination
  <1>3. CASE evidence' = evidence
    BY <1>1, <1>2, <1>3, SteadyLedger
  <1>4. CASE evidence' = Written(Run, op.record)
    <2>1. CASE op.kind = "start"
      <3>1. op.record.operation = "compound.start"
        BY <1>1, <1>2, <2>1 DEF InHand, StartBacked, Record
      <3> QED BY <1>1, <1>2, <1>4, <3>1, WrittenLedger
    <2>2. CASE op.kind = "worker"
      <3> DEFINE w == op.event.worker_id
      <3>1. Names(Run, w) /\ op.record = [Record("compound.worker") EXCEPT !.worker_id = w]
        BY <1>1, <1>2, <2>2, RecordsAssumption DEF InHand, WorkerBacked
      <3>2. op.record.operation = "compound.worker" /\ op.record.worker_id = w
        <4>1. Record("compound.worker") \in Records
              /\ Record("compound.worker").operation = "compound.worker"
          BY RecordType DEF RecordKinds, Record
        <4> HIDE DEF w
        <4> QED BY <3>1, <4>1 DEF Records
      <3> HIDE DEF w
      <3> QED BY <1>1, <1>2, <1>4, <3>1, <3>2, WrittenLedger
    <2>3. CASE op.kind = "finish"
      <3>1. /\ op.record.operation = "compound.finish"
            /\ op.record.retained = {} => DOMAIN evidence[Run].start.selected \subseteq Gone(Run)
        BY <1>1, <1>2, <2>3 DEF InHand, FinishBacked
      <3> QED BY <1>1, <1>2, <1>4, <3>1, WrittenLedger
    <2> QED BY <1>2, <2>1, <2>2, <2>3
  <1> QED BY <1>3, <1>4 DEF AppendEvidence

\* What an operation logs, its evidence backs.
LEMMA InHandBacked ==
    ASSUME EvidenceInv, op.stage = "append"
    PROVE  /\ op.event.event # "trigger" => Run \in Runs
           /\ op.event.event = "start" => /\ op.kind = "start"
                                          /\ evidence[Run].start = op.event
                                          /\ evidence[Run].inputs = op.event.selected
                                          /\ Has(Run, "compound.start")
           /\ op.event.event = "end" => /\ op.kind = "finish"
                                        /\ \E j \in Having(Run, "compound.finish") :
                                              evidence[Run].records[j].at = op.event.at
           /\ op.event.event = "worker" =>
                  /\ op.kind = "worker"
                  /\ \E j \in Having(Run, "compound.worker") :
                        evidence[Run].records[j].worker_id = op.event.worker_id
  <1>1. InHand /\ EventMatches
    BY DEF EvidenceInv, OwnershipInv
  <1>2. op.kind \in {"start", "worker", "finish", "trigger"}
    BY <1>1 DEF EventMatches
  <1>3. CASE op.kind = "start"
    <2>1. /\ Run \in Runs /\ op.event.event = "start" /\ evidence[Run].start = op.event
          /\ evidence[Run].inputs = op.event.selected /\ Has(Run, "compound.start")
      BY <1>1, <1>3 DEF InHand, StartBacked, RunKnown, EventMatches, Issued
    <2> QED BY <1>3, <2>1
  <1>4. CASE op.kind = "worker"
    <2>1. /\ Run \in Runs /\ op.event.event = "worker" /\ Has(Run, "compound.worker")
          /\ Names(Run, op.event.worker_id)
      BY <1>1, <1>4 DEF InHand, WorkerBacked, RunKnown, EventMatches
    <2> QED BY <1>4, <2>1 DEF Has, Names
  <1>5. CASE op.kind = "finish"
    <2>1. /\ Run \in Runs /\ op.event.event = "end"
          /\ \E j \in Having(Run, "compound.finish") : evidence[Run].records[j].at = op.event.at
      BY <1>1, <1>5 DEF InHand, FinishBacked, RunKnown, EventMatches
    <2> QED BY <1>5, <2>1
  <1>6. CASE op.kind = "trigger"
    BY <1>1, <1>6 DEF EventMatches
  <1> QED BY <1>2, <1>3, <1>4, <1>5, <1>6

\* The lines of the log.
LEMMA AppendActivityLedger ==
    ASSUME EvidenceInv, AppendActivity
    PROVE  Ledger'
  <1>1. TypeOK /\ Ledger /\ op.stage = "append" /\ UNCHANGED <<evidence, removed>>
    BY DEF EvidenceInv, OwnershipInv, Typed, AppendActivity
  <1>2. CASE history' = history
    BY <1>1, <1>2, SteadyLedger
  <1>3. CASE history' = Append(history, op.event)
    BY <1>1, <1>3, InHandBacked, AppendLedger
  <1> QED BY <1>2, <1>3 DEF AppendActivity

\* The archived inputs and start of a run.
LEMMA StartStepLedger ==
    ASSUME EvidenceInv, (\E s \in Signals : ArchiveInput(s)) \/ WriteStart
    PROVE  Ledger'
  <1>1. TypeOK /\ StagesConsistent /\ EventMatches /\ InHand /\ Ledger
    BY DEF EvidenceInv, OwnershipInv, Typed
  <1>2. op.stage = "inputs" /\ op.kind = "start" /\ Run \in Runs /\ UNCHANGED <<history, removed>>
    BY <1>1 DEF ArchiveInput, WriteStart, StagesConsistent, Issued, coordination
  <1>3. /\ evidence[Run].start = None /\ evidence[Run].records = <<>>
        /\ Run \notin Started(history)
    BY <1>1, <1>2 DEF InHand, StartBacked, EventMatches, Issued
  <1>4. evidence' \in [Runs -> RunEvidence]
    BY StartStepTypes DEF EvidenceInv, OwnershipInv, Typed, TypeOK
  <1>5. evidence[Run] \in RunEvidence /\ evidence \in [Runs -> RunEvidence]
    BY <1>1, <1>2 DEF TypeOK
  <1>6. (\A r \in Runs \ {Run} : evidence'[r] = evidence[r]) /\ evidence'[Run].records = <<>>
    <2>1. ASSUME NEW s \in Signals, ArchiveInput(s)
          PROVE  /\ \A r \in Runs \ {Run} : evidence'[r] = evidence[r]
                 /\ evidence'[Run].records = <<>>
      BY <1>2, <1>3, <1>5, <2>1 DEF ArchiveInput, RunEvidence
    <2>2. CASE WriteStart
      BY <1>2, <1>3, <1>5, <2>2 DEF WriteStart, RunEvidence
    <2> QED BY <2>1, <2>2
  <1> QED BY <1>1, <1>2, <1>3, <1>4, <1>6, StartLedger

\* The records of a drain.
LEMMA DrainRecordLedger ==
    ASSUME EvidenceInv, WriteIntent \/ Acknowledge \/ AcknowledgeFails \/ ReportDrain
    PROVE  Ledger'
  <1>1. TypeOK /\ Ledger /\ StagesConsistent /\ op \in Operations /\ UNCHANGED <<history, removed>>
    BY DEF EvidenceInv, OwnershipInv, Typed, TypeOK, WriteIntent, Acknowledge, AcknowledgeFails,
           ReportDrain, coordination
  <1>2. /\ op.stage \in Draining /\ op.kind = "drain" /\ Run \in Runs /\ DrainPrepared
        /\ op.done \subseteq Gone(Run)
    <2>1. op.stage \in Draining
      BY DEF WriteIntent, Acknowledge, AcknowledgeFails, ReportDrain, Draining
    <2> QED BY <2>1, DrainKnows
  <1>3. CASE evidence' \in {evidence, Torn(Run)}
    BY <1>1, <1>3, SteadyLedger
  <1>4. CASE evidence' = Written(Run, Record("compound.drain.intent"))
    <2> DEFINE record == Record("compound.drain.intent")
    <2>1. record \in Records /\ record.operation = "compound.drain.intent"
      BY RecordType DEF RecordKinds, Record
    <2>2. evidence' = Written(Run, record)
      BY <1>4
    <2> HIDE DEF record
    <2> QED BY <1>1, <1>2, <2>1, <2>2, WrittenLedger
  <1>5. CASE op.stage = "acknowledge" /\ evidence' = Acknowledgement
    <2> DEFINE record == [Record("compound.drain.removed") EXCEPT !.drained = {op.signal}]
    <2>1. op.signal \in Signals /\ op.signal \in Gone(Run)
      BY <1>1, <1>2, <1>5 DEF DrainPrepared, StagesConsistent
    <2>2. /\ record \in Records /\ record.operation = "compound.drain.removed"
          /\ record.drained = {op.signal}
      <3>1. /\ Record("compound.drain.removed") \in Records
            /\ Record("compound.drain.removed").operation = "compound.drain.removed"
        BY RecordType DEF RecordKinds, Record
      <3> QED BY <2>1, <3>1 DEF Records
    <2>3. evidence' = Written(Run, record)
      BY <1>5 DEF Acknowledgement
    <2> HIDE DEF record
    <2> QED BY <1>1, <1>2, <2>1, <2>2, <2>3, WrittenLedger
  <1>6. CASE ReportDrain /\ evidence' # evidence
    <2> DEFINE record == [Record("compound.drain") EXCEPT
                !.drained = op.done,
                !.retained = DOMAIN op.event.selected \ (RecordedDrained(Run) \cup op.done)]
    <2>1. /\ record \in Records /\ record.operation = "compound.drain"
          /\ record.drained = op.done
      <3>1. op.done \subseteq Signals /\ op.event \in Events
        BY <1>1 DEF Operations
      <3>2. DOMAIN op.event.selected \ (RecordedDrained(Run) \cup op.done) \subseteq Signals
        BY <3>1, SelectedType
      <3>3. /\ Record("compound.drain") \in Records
            /\ Record("compound.drain").operation = "compound.drain"
        BY RecordType DEF RecordKinds, Record
      <3> QED BY <3>1, <3>2, <3>3 DEF Records
    <2>2. evidence' = Written(Run, record)
      BY <1>6 DEF ReportDrain
    <2> HIDE DEF record
    <2> QED BY <1>1, <1>2, <2>1, <2>2, WrittenLedger
  <1> QED BY <1>3, <1>4, <1>5, <1>6
          DEF WriteIntent, Acknowledge, AcknowledgeFails, ReportDrain

\* The removals.
LEMMA RemovalLedger ==
    ASSUME EvidenceInv, RemoveInput \/ RemoveUnsynced
    PROVE  Ledger'
  <1>1. TypeOK /\ Ledger /\ op.stage = "unlink" /\ UNCHANGED <<history, evidence>>
    BY DEF EvidenceInv, OwnershipInv, Typed, RemoveInput, RemoveUnsynced, coordination
  <1>2. /\ Run \in Runs /\ evidence[Run].start # None
        /\ op.event.selected = evidence[Run].start.selected
        /\ Has(Run, "compound.drain.intent") /\ DrainPrepared /\ op.kind = "drain"
    BY <1>1, DrainKnows DEF Draining
  <1>3. Removable(op.signal)
    BY <1>1, <1>2 DEF DrainPrepared
  <1>4. CASE Unlink
    BY <1>1, <1>2, <1>3, <1>4, UnlinkLedger
  <1>5. CASE removed' = removed
    BY <1>1, <1>5, SteadyLedger
  <1> QED BY <1>4, <1>5 DEF RemoveInput, RemoveUnsynced

\* Every step keeps the ledger true.
LEMMA NextLedger == EvidenceInv /\ [Next]_vars => Ledger'
  <1> SUFFICES ASSUME EvidenceInv, [Next]_vars PROVE Ledger'
    OBVIOUS
  <1>1. TypeOK /\ Ledger
    BY DEF EvidenceInv, OwnershipInv, Typed
  <1>2. ASSUME UNCHANGED <<evidence, history, removed>>
        PROVE  Ledger'
    BY <1>1, <1>2, SteadyLedger
  <1>3. CASE Begin
    BY <1>2, <1>3, BeginLeaves DEF coordination
  <1>4. ASSUME \/ ArchiveLog \/ ReplaceLog \/ SelectCandidates
               \/ \E expected \in Triggers \cup {None} : RegisterTrigger(expected)
               \/ \E r \in Runs : ValidateInputs(r)
               \/ \E s \in Signals : VerifyInput(s)
        PROVE  UNCHANGED <<evidence, history, removed>>
    BY <1>4 DEF ArchiveLog, ReplaceLog, SelectCandidates, RegisterTrigger, ValidateInputs,
       VerifyInput, coordination
  <1>5. CASE Proceed
    BY <1>2, <1>4, <1>5, AppendEvidenceLedger, AppendActivityLedger, StartStepLedger,
       DrainRecordLedger, RemovalLedger DEF Proceed
  <1>6. ASSUME DrainInterrupted \/ Interrupt \/ InterruptActivity
        PROVE  UNCHANGED <<evidence, history, removed>>
    BY <1>6 DEF DrainInterrupted, Interrupt, InterruptActivity, coordination
  <1>7. CASE InterruptEvidence
    <2>1. evidence' = Torn(Run) /\ UNCHANGED <<history, removed>>
      BY <1>7 DEF InterruptEvidence, coordination
    <2> QED BY <1>1, <2>1, SteadyLedger
  <1>8. CASE Fail
    BY <1>2, <1>6, <1>7, <1>8, DrainRecordLedger, RemovalLedger DEF Fail
  <1>9. CASE Unlocked \/ UNCHANGED vars
    <2>1. UNCHANGED <<evidence, history, removed>>
      BY <1>9 DEF Unlocked, Tick, Regress, EditSignal, EditConfiguration, vars, coordination
    <2> QED BY <1>2, <2>1
  <1> QED BY <1>3, <1>5, <1>8, <1>9 DEF Next

\* The empty store has nothing in hand and an empty ledger.
LEMMA InitEvidence == Init => EvidenceInv
  <1> SUFFICES ASSUME Init PROVE EvidenceInv
    OBVIOUS
  <1>1. op.kind = "none" /\ op.stage = "none" /\ history = <<>> /\ removed = {}
    BY DEF Init, Idle
  <1>2. \A r \in Runs : evidence[r].records = <<>>
    BY DEF Init, NoEvidence
  <1>3. \A r \in Runs : \A kind : Having(r, kind) = {}
    BY <1>2 DEF Having
  <1>4. \A r \in Runs : RecordedDrained(r) = {}
    BY <1>3 DEF RecordedDrained
  <1>5. InHand
    BY <1>1 DEF InHand, StagesOfKind, RunKnown, HeldOwns, StartBacked, WorkerBacked, FinishBacked,
       DrainPrepared, Draining
  <1>6. Ledger
    BY <1>1, <1>3, <1>4 DEF Ledger, WorkersAgree, LinesOfRuns, RemovedStarted, LogBackedByEvidence,
       DrainageTruthful, RemovalRecoverable
  <1> QED BY <1>5, <1>6, InitOwnership DEF EvidenceInv

\* The inductive invariant of the evidence holds in every reachable state.
LEMMA EvidenceCorrect == Spec => []EvidenceInv
  <1>1. EvidenceInv /\ [Next]_vars => EvidenceInv'
    BY NextOwnership, NextHand, NextLedger DEF EvidenceInv
  <1> QED BY <1>1, InitEvidence, PTL DEF Spec

\* Whatever is interrupted, each line of the shared log is backed by evidence
\* that was durable before it: append_compound_event and the input archive come
\* first in every operation.
THEOREM LogBacked == Spec => []LogBackedByEvidence
  <1>1. EvidenceInv => LogBackedByEvidence
    BY DEF EvidenceInv, Ledger
  <1> QED BY <1>1, EvidenceCorrect, PTL

\* The tool claims no removal that it did not make, in a drain record, in a
\* drain's report or in the finish that ends a run.
THEOREM DrainageTold == Spec => []DrainageTruthful
  <1>1. EvidenceInv => DrainageTruthful
    BY DEF EvidenceInv, Ledger
  <1> QED BY <1>1, EvidenceCorrect, PTL

\* The bytes of every input that a drain unlinked are archived with its run.
THEOREM RemovalsRecoverable == Spec => []RemovalRecoverable
  <1>1. EvidenceInv => RemovalRecoverable
    BY DEF EvidenceInv, Ledger
  <1> QED BY <1>1, EvidenceCorrect, PTL

\* Only an unlink by a drain that still may removes anything.
LEMMA RemovalTimely ==
    ASSUME EvidenceInv, [Next]_vars, NEW rm \in removed' \ removed
    PROVE  ~Has(rm.run, "compound.finish") /\ rm.signal \notin RecordedDrained(rm.run)
  <1>1. CASE RemoveInput \/ RemoveUnsynced
    <2>1. op.stage = "unlink" /\ rm.run = Run /\ rm.signal = op.signal
      BY <1>1 DEF RemoveInput, RemoveUnsynced, Unlink
    <2>2. ~Has(Run, "compound.finish") /\ DrainPrepared /\ op.kind = "drain"
      BY <2>1, DrainKnows DEF Draining
    <2> QED BY <2>1, <2>2 DEF DrainPrepared, Removable
  <1>2. CASE Begin
    BY <1>2, BeginLeaves
  <1>3. CASE Proceed /\ ~RemoveInput
    BY <1>3 DEF Proceed, ArchiveLog, ReplaceLog, AppendEvidence, AppendActivity, RegisterTrigger,
       ValidateInputs, ArchiveInput, WriteStart, WriteIntent, SelectCandidates, VerifyInput,
       Acknowledge, ReportDrain
  <1>4. CASE Fail /\ ~RemoveUnsynced
    BY <1>4 DEF Fail, AcknowledgeFails, DrainInterrupted, Interrupt, InterruptEvidence,
       InterruptActivity
  <1>5. CASE Unlocked \/ UNCHANGED vars
    BY <1>5 DEF Unlocked, Tick, Regress, EditSignal, EditConfiguration, vars
  <1> QED BY <1>1, <1>2, <1>3, <1>4, <1>5 DEF Next

\* A finished run removes nothing more, and no run removes an input twice.
THEOREM RemovalsTimely == Spec => NoLateRemoval
  <1>1. EvidenceInv /\ [Next]_vars =>
          [\A rm \in removed' \ removed :
             ~Has(rm.run, "compound.finish") /\ rm.signal \notin RecordedDrained(rm.run)]_vars
    BY RemovalTimely
  <1> QED BY <1>1, EvidenceCorrect, PTL DEF Spec, NoLateRemoval

-----------------------------------------------------------------------------
(* The lifecycle implements ExclusiveRuns. *)

\* No run is ended twice, so what it claims is settled by its end line.
OneEnd == \A i, j \in At(history, "end") : history[i].run_id = history[j].run_id => i = j

\* What the abstract specification sees of a state.
Removals == {<<rm.run, rm.signal>> : rm \in removed}
Claims == [r \in Ended(history) |-> history[EndOf(r)].drained]

\* A line logged is the last of the history, and every other line stays.
LEMMA AppendedLine ==
    ASSUME TypeOK, history' = Append(history, op.event)
    PROVE  /\ DOMAIN history' = DOMAIN history \cup {Len(history) + 1}
           /\ Len(history) + 1 \notin DOMAIN history
           /\ history'[Len(history) + 1] = op.event
           /\ \A i \in DOMAIN history : history'[i] = history[i]
  <1>1. history \in Seq(Events) /\ op.event \in Events
    BY DEF TypeOK, Operations
  <1> QED BY <1>1

\* Only the owner drains and finishes, and a finish claims what its run removed.
Claiming ==
    /\ op.kind \in {"drain", "finish"} => Run \in Runs /\ Run \in ActiveRuns(log)
    /\ (op.kind = "start" /\ op.stage \in Issued) => Run \in Runs
    /\ op.kind = "finish" => op.event.drained \subseteq Gone(Run)

\* What an operation of the lifecycle has in hand says so.
LEMMA HandClaims == EvidenceInv => Claiming
  BY DEF EvidenceInv, InHand, RunKnown, HeldOwns, FinishBacked, Claiming

\* Only the finish of an unfinished run logs an end.
LEMMA NextOneEnd == OwnershipInv /\ Claiming /\ OneEnd /\ [Next]_vars => OneEnd'
  <1> SUFFICES ASSUME OwnershipInv, Claiming, OneEnd, [Next]_vars PROVE OneEnd'
    OBVIOUS
  <1>1. TypeOK /\ EventMatches /\ ActiveTransparent
    BY DEF OwnershipInv, Typed
  <1>2. CASE history' = history
    BY <1>2 DEF OneEnd, At
  <1>3. CASE history' # history
    <2>1. AppendActivity /\ history' = Append(history, op.event) /\ op.stage = "append"
      <3>1. ~Begin /\ ~Fail /\ ~Unlocked /\ ~UNCHANGED vars
        BY <1>3, BeginLeaves
           DEF Fail, RemoveUnsynced, AcknowledgeFails, DrainInterrupted, Interrupt,
               InterruptEvidence, InterruptActivity, Unlocked, Tick, Regress, EditSignal,
               EditConfiguration, vars, coordination
      <3>2. Proceed
        BY <3>1 DEF Next
      <3> QED BY <1>3, <3>2 DEF Proceed, ArchiveLog, ReplaceLog, AppendEvidence, AppendActivity,
             RegisterTrigger, ValidateInputs, ArchiveInput, WriteStart, WriteIntent,
             SelectCandidates, VerifyInput, RemoveInput, Acknowledge, ReportDrain, coordination
    <2> DEFINE n == Len(history) + 1
    <2>2. /\ DOMAIN history' = DOMAIN history \cup {n} /\ n \notin DOMAIN history
          /\ history'[n] = op.event /\ \A i \in DOMAIN history : history'[i] = history[i]
      BY <1>1, <2>1, AppendedLine
    <2>3. op.event.event = "end" => Run \notin Ended(history)
      <3>1. op.event.event = "end" => op.kind = "finish"
        BY <1>1, <2>1 DEF EventMatches
      <3> QED BY <1>1, <3>1 DEF Claiming, ActiveTransparent, ActiveRuns
    <2> HIDE DEF n
    <2>4. \A i \in At(history', "end") :
             i \in At(history, "end") \/ (i = n /\ op.event.event = "end")
      BY <2>2 DEF At
    <2>5. \A i \in At(history, "end") : op.event.event = "end" => history'[i].run_id # Run
      BY <2>2, <2>3 DEF Ended, At
    <2>6. \A i, j \in At(history, "end") : history'[i].run_id = history'[j].run_id => i = j
      BY <2>2 DEF OneEnd, At
    <2>7. \A i, j \in At(history', "end") : history'[i].run_id = history'[j].run_id => i = j
      BY <2>2, <2>4, <2>5, <2>6 DEF Run
    <2> QED BY <2>7 DEF OneEnd, At
  <1> QED BY <1>2, <1>3

\* What finished runs claim is not rewritten by the lines that follow.
LEMMA ClaimsKept ==
    ASSUME TypeOK, OneEnd, OneEnd', history' = Append(history, op.event)
    PROVE  /\ \A r \in Ended(history) : history'[EndOf(r)'].drained = history[EndOf(r)].drained
           /\ \A r : (op.event.event = "end" /\ r = Run) =>
                      history'[EndOf(r)'].drained = op.event.drained
  <1> DEFINE n == Len(history) + 1
  <1>1. /\ DOMAIN history' = DOMAIN history \cup {n} /\ n \notin DOMAIN history
        /\ history'[n] = op.event /\ \A i \in DOMAIN history : history'[i] = history[i]
    BY AppendedLine
  <1> HIDE DEF n
  <1>2. \A i, j \in At(history', "end") : history'[i].run_id = history'[j].run_id => i = j
    BY DEF OneEnd, At
  <1>3. ASSUME NEW r, NEW i \in At(history', "end"), history'[i].run_id = r
        PROVE  EndOf(r)' = i
    <2>1. /\ (CHOOSE j \in At(history', "end") : history'[j].run_id = r) \in At(history', "end")
          /\ history'[CHOOSE j \in At(history', "end") : history'[j].run_id = r].run_id = r
      BY <1>3
    <2>2. EndOf(r)' = CHOOSE j \in At(history', "end") : history'[j].run_id = r
      BY DEF EndOf, At
    <2> QED BY <1>2, <1>3, <2>1, <2>2
  <1>4. ASSUME NEW r \in Ended(history)
        PROVE  history'[EndOf(r)'].drained = history[EndOf(r)].drained
    <2>1. EndOf(r) \in At(history, "end") /\ history[EndOf(r)].run_id = r
      BY DEF Ended, EndOf
    <2>2. PICK i \in At(history, "end") : i = EndOf(r)
      BY <2>1
    <2>3. i \in At(history', "end") /\ history'[i] = history[i]
      BY <1>1 DEF At
    <2>4. EndOf(r)' = i
      BY <1>3, <2>1, <2>2, <2>3
    <2> QED BY <2>2, <2>3, <2>4
  <1>5. ASSUME NEW r, op.event.event = "end", r = Run
        PROVE  history'[EndOf(r)'].drained = op.event.drained
    <2>1. n \in At(history', "end") /\ history'[n].run_id = r
      BY <1>1, <1>5 DEF At, Run
    <2>2. EndOf(r)' = n
      BY <1>3, <2>1
    <2> QED BY <1>1, <2>2
  <1> QED BY <1>4, <1>5

\* Each step that changes what the abstract specification sees is one of its
\* actions, and every other step is a stutter.
LEMMA StepImplements ==
    ASSUME OwnershipInv, StagesOfKind, Claiming, OneEnd, OneEnd', [Next]_vars
    PROVE  [Exclusive!AbstractNext]_(Exclusive!avars)
  <1>1. /\ TypeOK /\ StagesConsistent /\ ActiveTransparent /\ EventMatches /\ OneActiveRun
        /\ EndsStarted /\ op \in Operations /\ op.event \in Events
    BY DEF OwnershipInv, Typed, TypeOK, Operations
  <1>2. ASSUME history' = history
        PROVE  Claims' = Claims
    BY <1>2 DEF Claims, Ended, EndOf, At
  <1>3. ASSUME removed' = removed
        PROVE  Removals' = Removals
    BY <1>3 DEF Removals
  <1>4. CASE UNCHANGED <<history, live, removed>>
    <2>1. ActiveRuns(log)' = ActiveRuns(log)
      BY <1>4 DEF ActiveRuns, Started, Ended, At, log
    <2> QED BY <1>2, <1>3, <1>4, <2>1 DEF Exclusive!avars, Claims, Removals
  <1>5. CASE ReplaceLog
    <2>1. live' = Retained(log) /\ UNCHANGED <<history, removed>>
      BY <1>5 DEF ReplaceLog
    <2>2. ActiveRuns(log)' = ActiveRuns(log)
      BY <1>1, <2>1, RolloverKeepsActive
    <2> QED BY <1>2, <1>3, <2>1, <2>2 DEF Exclusive!avars, Claims, Removals
  <1>6. CASE (RemoveInput \/ RemoveUnsynced) /\ Unlink
    <2>1. op.stage = "unlink" /\ UNCHANGED <<history, live>>
      BY <1>6 DEF RemoveInput, RemoveUnsynced, coordination
    <2>2. op.kind = "drain" /\ Run \in Runs /\ op.signal \in Signals
      BY <1>1, <2>1 DEF Draining, StagesOfKind, StagesConsistent
    <2>3. Run \in ActiveRuns(log)
      BY <2>2 DEF Claiming
    <2> DEFINE rm == [run |-> Run, signal |-> op.signal, content |-> inbox[op.signal]]
    <2>4. removed' = removed \cup {rm} /\ rm.run = Run /\ rm.signal = op.signal
      BY <1>6 DEF Unlink
    <2> HIDE DEF rm
    <2>5. Removals' = Removals \cup {<<Run, op.signal>>}
      <3>1. \A p : p \in Removals' <=> \E x \in removed \cup {rm} : p = <<x.run, x.signal>>
        BY <2>4 DEF Removals
      <3>2. \A p : p \in Removals <=> \E x \in removed : p = <<x.run, x.signal>>
        BY DEF Removals
      <3>3. \A p : p \in Removals' <=> p \in Removals \/ p = <<Run, op.signal>>
        BY <2>4, <3>1, <3>2
      <3> QED BY <3>3
    <2>6. ActiveRuns(log)' = ActiveRuns(log)
      BY <2>1 DEF ActiveRuns, Started, Ended, At, log
    <2>7. Exclusive!Remove(Run, op.signal)
      BY <1>2, <2>1, <2>3, <2>5, <2>6 DEF Exclusive!Remove, Claims, Removals
    <2> QED BY <2>2, <2>7 DEF Exclusive!AbstractNext, Exclusive!Remove
  <1>7. CASE AppendActivity /\ Appendable(log, op.event)
    <2>1. /\ history' = Append(history, op.event) /\ live' = live \cup {Len(history) + 1}
          /\ removed' = removed /\ op.stage = "append"
      BY <1>7 DEF AppendActivity
    <2> DEFINE S == IF op.event.event = "start" THEN {Run} ELSE {}
               E == IF op.event.event = "end" THEN {Run} ELSE {}
    <2>2. /\ Started(history)' = Started(history) \cup S /\ Ended(history)' = Ended(history) \cup E
          /\ Started(log)' = Started(log) \cup S /\ Ended(log)' = Ended(log) \cup E
      BY <1>1, <2>1, AppendedRuns
    <2>3. Ended(log) \subseteq Started(history)
      BY <1>1, LogWithinHistory DEF EndsStarted
    <2>4. /\ \A r \in Ended(history) : history'[EndOf(r)'].drained = history[EndOf(r)].drained
          /\ \A r : (op.event.event = "end" /\ r = Run) =>
                      history'[EndOf(r)'].drained = op.event.drained
      BY <1>1, <2>1, ClaimsKept
    <2>5. Claims' = [r \in Ended(history)' |-> history'[EndOf(r)'].drained]
      BY DEF Claims, Ended, At
    <2>6. CASE op.event.event = "start"
      <3>1. op.kind = "start" /\ Run \in Runs
        BY <1>1, <2>1, <2>6 DEF EventMatches, Claiming, Issued
      <3>2. ActiveRuns(history) = {} /\ Run \notin Started(history)
        BY <1>1, <2>1, <3>1 DEF EventMatches, Issued
      <3>3. ActiveRuns(log) = {} /\ ActiveRuns(log)' = {Run}
        BY <1>1, <2>2, <2>3, <2>6, <3>2 DEF ActiveRuns, ActiveTransparent
      <3>4. Run \notin Ended(history)
        BY <1>1, <3>2 DEF EndsStarted
      <3>5. Claims' = Claims
        BY <2>2, <2>4, <2>5, <2>6 DEF Claims
      <3>6. Exclusive!Open(Run)
        BY <1>3, <2>1, <3>3, <3>4, <3>5 DEF Exclusive!Open, Claims, Removals
      <3> QED BY <3>1, <3>6 DEF Exclusive!AbstractNext, Exclusive!Open
    <2>7. CASE op.event.event = "end"
      <3>1. op.kind = "finish" /\ Run \in Runs
        BY <1>1, <2>1, <2>7 DEF EventMatches, Claiming
      <3>2. Run \in ActiveRuns(log)
        BY <3>1 DEF Claiming
      <3>3. ActiveRuns(log)' = {}
        BY <1>1, <2>2, <2>7, <3>2 DEF ActiveRuns, ActiveTransparent, OneActiveRun
      <3>4. \A s \in op.event.drained : <<Run, s>> \in Removals
        <4>1. op.event.drained \subseteq Gone(Run)
          BY <3>1 DEF Claiming
        <4> QED BY <4>1 DEF Gone, Removals
      <3>5. Ended(history)' = Ended(history) \cup {Run} /\ Run \notin Ended(history)
        BY <1>1, <2>2, <2>7, <3>2 DEF ActiveRuns, ActiveTransparent
      <3>6. Claims' = [r \in DOMAIN Claims \cup {Run} |->
                          IF r = Run THEN op.event.drained ELSE Claims[r]]
        <4>1. DOMAIN Claims = Ended(history)
              /\ \A r \in Ended(history) : Claims[r] = history[EndOf(r)].drained
          BY DEF Claims
        <4> QED BY <2>4, <2>5, <2>7, <3>5, <4>1
      <3>7. Exclusive!Close(Run, op.event.drained)
        BY <1>3, <2>1, <3>2, <3>3, <3>4, <3>6 DEF Exclusive!Close, Claims, Removals
      <3>8. op.event.drained \in SUBSET Signals
        BY <1>1 DEF Events
      <3> QED BY <3>1, <3>7, <3>8 DEF Exclusive!AbstractNext, Exclusive!Close
    <2>8. CASE op.event.event \notin {"start", "end"}
      <3>1. ActiveRuns(log)' = ActiveRuns(log)
        BY <2>2, <2>8 DEF ActiveRuns
      <3>2. Claims' = Claims
        BY <2>2, <2>4, <2>5, <2>8 DEF Claims
      <3> QED BY <1>3, <2>1, <3>1, <3>2 DEF Exclusive!avars, Claims, Removals
    <2> QED BY <2>6, <2>7, <2>8
  <1>8. CASE Begin
    <2>1. UNCHANGED <<history, live, removed>>
      BY <1>8, BeginLeaves DEF coordination
    <2> QED BY <1>4, <2>1
  <1>9. CASE Proceed
    <2>1. \/ UNCHANGED <<history, live, removed>>
          \/ ReplaceLog
          \/ RemoveInput /\ Unlink
          \/ AppendActivity /\ Appendable(log, op.event)
      BY <1>9 DEF Proceed, ArchiveLog, AppendEvidence, AppendActivity, RegisterTrigger,
         ValidateInputs, ArchiveInput, WriteStart, WriteIntent, SelectCandidates, VerifyInput,
         RemoveInput, Acknowledge, ReportDrain, coordination
    <2> QED BY <1>4, <1>5, <1>6, <1>7, <2>1
  <1>10. CASE Fail \/ Unlocked \/ UNCHANGED vars
    <2>1. UNCHANGED <<history, live, removed>> \/ (RemoveUnsynced /\ Unlink)
      BY <1>10 DEF Fail, RemoveUnsynced, AcknowledgeFails, DrainInterrupted, Interrupt,
         InterruptEvidence, InterruptActivity, Unlocked, Tick, Regress, EditSignal,
         EditConfiguration, vars, coordination
    <2> QED BY <1>4, <1>6, <2>1
  <1> QED BY <1>8, <1>9, <1>10 DEF Next

\* For any number of workspaces, runs and signals: whatever is interrupted, runs
\* own the store one at a time, only the owner removes inputs, and an end line
\* claims no removal that its run did not make while it was the owner.
THEOREM ExclusiveRunsImplemented == Spec => ImplementsExclusiveRuns
  <1>1. Init => Exclusive!AbstractInit
    <2> SUFFICES ASSUME Init PROVE Exclusive!AbstractInit
      OBVIOUS
    <2>1. history = <<>> /\ live = {} /\ removed = {}
      BY DEF Init
    <2>2. Started(log) = {} /\ Ended(history) = {}
      BY <2>1 DEF Started, Ended, At, log, Restrict
    <2>3. ActiveRuns(log) = {}
      BY <2>2 DEF ActiveRuns
    <2> QED BY <2>1, <2>2, <2>3 DEF Exclusive!AbstractInit
  <1>2. Init => OneEnd
    BY DEF Init, OneEnd, At
  <1>3. EvidenceInv /\ OneEnd /\ [Next]_vars => OneEnd'
    BY HandClaims, NextOneEnd DEF EvidenceInv
  <1>4. EvidenceInv /\ OneEnd /\ OneEnd' /\ [Next]_vars
          => [Exclusive!AbstractNext]_(Exclusive!avars)
    BY HandClaims, StepImplements DEF EvidenceInv, InHand
  <1>5. Spec => [](EvidenceInv /\ OneEnd)
    BY <1>2, <1>3, EvidenceCorrect, PTL DEF Spec
  <1> QED BY <1>1, <1>4, <1>5, PTL DEF Spec, ImplementsExclusiveRuns, Exclusive!AbstractSpec
=============================================================================

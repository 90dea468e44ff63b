---------------------------- MODULE Compounding ----------------------------
(***************************************************************************)
(* The compounding lifecycle: start, worker attachment, drain, finish and  *)
(* trigger registration over one signal store shared by workspaces.        *)
(*                                                                         *)
(* Every operation holds one file lock from its first read to its last     *)
(* write, so at most one is in progress: op is that lock holder, and a     *)
(* stage is the next durable write it has to make.  Between two stages the *)
(* process may fail or be killed (the kernel then releases the lock), and  *)
(* whoever takes no lock may act: people editing signal files, people      *)
(* editing configuration, and the clock.                                   *)
(***************************************************************************)
EXTENDS ActivityLog, Sequences, SequencesExt

CONSTANTS
    Absent,      \* no file at a signal's path
    \* What callers ask for.
    Sizes,       \* encoded sizes of start and end events
    Modes,       \* whether starts are automatic
    Batches,     \* selections of inputs
    Reports,     \* completions reported when a run finishes
    \* Bounds on what could go on forever.
    MaxClock, MaxLines, MaxDrains, MaxEdits, MaxFaults, MaxRegress

ASSUME AbsentAssumption == Absent \notin Contents

ASSUME CallersAssumption ==
    /\ Sizes \subseteq Nat \ {0}
    /\ Modes \subseteq BOOLEAN
    /\ Batches \subseteq Selections
    /\ Reports \subseteq Completions \cup {None}

ASSUME BoundsAssumption ==
    {MaxClock, MaxLines, MaxDrains, MaxEdits, MaxFaults, MaxRegress} \subseteq Nat

VARIABLES
    history,     \* every line ever durably appended to the coordination log
    live,        \* ordinals of the lines now in the log file
    archived,    \* ordinals of the lines saved under receipts/coordination
    tornLog,     \* the log file ends in an incomplete line
    evidence,    \* per run, what is under receipts/compound/<run>
    inbox,       \* the bytes now at each signal's path, or Absent
    configured,  \* per workspace, setup.compounding as now authored
    clock,       \* wall clock
    op,          \* the operation holding the lock, or Idle
    removed,     \* what drains unlinked: [run, signal, content]
    spent        \* how much of each environment budget is used

log == Restrict(history, live)

coordination == <<history, live, archived, tornLog>>
environment == <<inbox, configured, clock>>
vars == <<coordination, evidence, environment, op, removed, spent>>

-----------------------------------------------------------------------------
(* Run evidence. *)

RecordKinds == {"compound.start", "compound.worker", "compound.drain.intent",
                "compound.drain.removed", "compound.drain", "compound.finish",
                "validate"}

Records ==
    [operation: RecordKinds, at: Nat, worker_id: Workers \cup {None},
     drained: SUBSET Signals, retained: SUBSET Signals]

ASSUME RecordsAssumption == None \notin Records

\* at is the ended_at of a finish; nothing reads the other records' times.
Record(operation) ==
    [operation |-> operation, at |-> 0, worker_id |-> None,
     drained |-> {}, retained |-> {}]

\* The files of a run: archived inputs, start.json and events.jsonl.
RunEvidence == [inputs: Selections, start: Events \cup {None},
                records: Seq(Records), torn: BOOLEAN]

NoEvidence == [inputs |-> NoSelection, start |-> None, records |-> <<>>, torn |-> FALSE]

Having(r, operation) ==
    {i \in DOMAIN evidence[r].records : evidence[r].records[i].operation = operation}
Has(r, operation) == Having(r, operation) # {}

\* Removals the tool itself recorded, individually or in a drain's report.
RecordedDrained(r) ==
    UNION {evidence[r].records[i].drained :
              i \in Having(r, "compound.drain.removed") \cup Having(r, "compound.drain")}

\* resolve_run: the archived start merged with the archived attachments.
Resolvable(ws, r) ==
    /\ evidence[r].start # None
    /\ evidence[r].start.workspace_id = ws
    /\ ~evidence[r].torn
    /\ Has(r, "compound.start")

Recorded(r) ==
    LET attached == Having(r, "compound.worker")
    IN  IF attached = {} THEN evidence[r].start
        ELSE Merge(evidence[r].start, evidence[r].records[Latest(attached)].worker_id)

Written(r, record) == [evidence EXCEPT ![r].records = Append(@, record)]
Torn(r) == [evidence EXCEPT ![r].torn = TRUE]

\* read_activity_log raises on anything else, and with it every operation.
Usable == ~tornLog /\ Readable(log) /\ Size(log) <= 4 * Quarter

\* Mutant: the archive alone decides that a run is active.
ArchivedRun(ws, r) == Usable /\ Resolvable(ws, r)

\* _active_run: log and archive must both know the run, and agree about it.
ActiveRun(ws, r) ==
    /\ Usable
    /\ Resolvable(ws, r)
    /\ r \in ActiveRuns(log)
    /\ Effective(log, r) = Recorded(r)

-----------------------------------------------------------------------------
(* The lock holder. *)

Stages == {"none", "rollover", "replace", "validate", "register", "inputs",
           "evidence", "append", "intent", "select", "remove",
           "unlink", "acknowledge", "report", "expire", "prune"}

\* The commands that take the lock; prune is Retention's.
Kinds == {"none", "trigger", "start", "worker", "finish", "drain", "prune"}

Operations ==
    [kind: Kinds, stage: Stages, event: Events, record: Records \cup {None},
     loaded: Triggers \cup {None}, todo: SUBSET Signals,
     signal: Signals \cup {None}, done: SUBSET Signals]

\* event and record wait to be appended; loaded is the configuration the command
\* was given; todo are the inputs left to archive or remove, signal the one
\* being removed, done those this drain removed.
Idle == [kind |-> "none", stage |-> "none", event |-> Blank, record |-> None, loaded |-> None,
         todo |-> {}, signal |-> None, done |-> {}]

Held == op.kind # "none"
Release == op' = Idle
Run == op.event.run_id
Goto(stage) == op' = [op EXCEPT !.stage = stage]

\* workspace_is_current: checked again by every append of evidence.
Current == configured[op.event.workspace_id] = op.loaded

\* append_event never extends a file that ends in a torn line.
Recordable == Current /\ ~evidence[Run].torn

Faulty == spent.faults < MaxFaults
Fault == spent' = [spent EXCEPT !.faults = @ + 1]

\* Mutant: an attachment goes to the log before its evidence exists.
ResumeAppend(o) == CASE o.kind = "start" -> "validate"
                     [] o.kind = "trigger" -> "register"
                     [] o.kind = "worker" -> "append"

\* What follows the rollover in each operation that makes one.
Resume(o) == CASE o.kind = "start" -> "validate"
               [] o.kind = "trigger" -> "register"
               [] o.kind = "worker" /\ o.record # None -> "evidence"
               [] o.kind = "worker" /\ o.record = None -> "append"

\* _rollover_activity does nothing below a quarter of the bound.
AfterRollover(o) ==
    [o EXCEPT !.stage = IF NeedsRollover(log) THEN "rollover" ELSE Resume(o)]

\* The whole log is archived first; a log that stays too large is then refused.
ArchiveLog ==
    /\ op.stage = "rollover"
    /\ archived' = archived \cup live
    /\ IF RolloverFits(log) THEN Goto("replace") ELSE Release
    /\ UNCHANGED <<history, live, tornLog, evidence, environment, removed, spent>>

ReplaceLog ==
    /\ op.stage = "replace"
    /\ live' = Retained(log)
    /\ Goto(Resume(op))
    /\ UNCHANGED <<history, archived, tornLog, evidence, environment, removed, spent>>

\* append_compound_event of a start, worker or finish record.
AppendEvidence ==
    /\ op.stage = "evidence"
    /\ IF Recordable
       THEN evidence' = Written(Run, op.record) /\ Goto("append")
       ELSE UNCHANGED evidence /\ Release
    /\ UNCHANGED <<coordination, environment, removed, spent>>

\* Mutant: the file grows by a line that the append had refused.
AppendRefused ==
    /\ op.stage = "append"
    /\ history' = IF Appendable(log, op.event) THEN Append(history, op.event) ELSE history
    /\ live' = live \cup {Len(history) + 1}
    /\ Release
    /\ UNCHANGED <<archived, tornLog, evidence, environment, removed, spent>>

\* _append to the coordination log, its last write in every operation.
AppendActivity ==
    /\ op.stage = "append"
    /\ IF Appendable(log, op.event)
       THEN /\ history' = Append(history, op.event)
            /\ live' = live \cup {Len(history) + 1}
       ELSE UNCHANGED <<history, live>>
    /\ Release
    /\ UNCHANGED <<archived, tornLog, evidence, environment, removed, spent>>

-----------------------------------------------------------------------------
(* configure_trigger: compare-and-swap of the shared agreement. *)

BeginTrigger(ws) ==
    /\ ~Held /\ Usable
    /\ configured[ws] # None
    /\ Len(history) < MaxLines
    /\ op' = AfterRollover([Idle EXCEPT
                 !.kind = "trigger", !.loaded = configured[ws],
                 !.event = [Blank EXCEPT !.workspace_id = ws, !.trigger = configured[ws]]])
    /\ UNCHANGED <<coordination, evidence, environment, removed, spent>>

\* Mutant: unfinished work does not stop a change of trigger.
MayRegisterAnytime(expected) ==
    Current /\ Agreement(log) # op.event.trigger /\ Agreement(log) = expected

MayRegister(expected) ==
    /\ Current
    /\ Agreement(log) # op.event.trigger
    /\ ActiveRuns(log) = {}
    /\ Agreement(log) = expected

RegisterTrigger(expected) ==
    /\ op.stage = "register"
    /\ IF MayRegister(expected)
       THEN op' = [op EXCEPT !.stage = "append", !.event.at = clock]
       ELSE Release
    /\ UNCHANGED <<coordination, evidence, environment, removed, spent>>

-----------------------------------------------------------------------------
(* start_run *)

Probe == IF \A s \in Signals : inbox[s] = Absent THEN "empty" ELSE "potential"

Recoverable(ws, r) ==
    Resolvable(ws, r) /\ r \notin ActiveRuns(log) /\ Has(r, "compound.finish")

\* Random ids: never one that is in use or was.
Unissued(r) == evidence[r] = NoEvidence /\ r \notin Started(history)

\* Eligibility is decided on the log as found, before any rollover.
BeginStart(ws, selected, automatic, worker, recovery, size) ==
    /\ ~Held /\ Usable
    /\ Len(history) < MaxLines
    /\ \E r \in Runs : Unissued(r)   \* ids are never used up
    /\ automatic => Due(log, configured[ws], clock, TRUE, Probe) = "due"
    /\ recovery # None => Recoverable(ws, recovery)
    /\ ActiveRuns(log) = {}
    /\ op' = AfterRollover([Idle EXCEPT
                 !.kind = "start", !.loaded = configured[ws],
                 !.event = [Blank EXCEPT
                    !.event = "start", !.workspace_id = ws, !.automatic = automatic,
                    !.worker_id = worker, !.recovery_of = recovery,
                    !.selected = selected, !.size = size]])
    /\ UNCHANGED <<coordination, evidence, environment, removed, spent>>

\* Every selected input is read and compared before the event gets its time.
ValidateInputs(r) ==
    /\ op.stage = "validate"
    /\ Unissued(r)
    /\ LET selected == op.event.selected
       IN  IF \A s \in DOMAIN selected : inbox[s] = selected[s]
           THEN op' = [op EXCEPT !.event.at = clock, !.event.run_id = r,
                                 !.todo = DOMAIN selected, !.stage = "inputs"]
           ELSE Release
    /\ UNCHANGED <<coordination, evidence, environment, removed, spent>>

WithInput(inputs, s, content) ==
    [x \in DOMAIN inputs \cup {s} |-> IF x = s THEN content ELSE inputs[x]]

\* Mutant: what is archived is not crossed off.
ArchiveInputAgain(s) ==
    /\ op.stage = "inputs" /\ s \in op.todo
    /\ evidence' = [evidence EXCEPT ![Run].inputs = WithInput(@, s, op.event.selected[s])]
    /\ UNCHANGED <<coordination, environment, op, removed, spent>>

ArchiveInput(s) ==
    /\ op.stage = "inputs" /\ s \in op.todo
    /\ evidence' = [evidence EXCEPT ![Run].inputs = WithInput(@, s, op.event.selected[s])]
    /\ op' = [op EXCEPT !.todo = @ \ {s}]
    /\ UNCHANGED <<coordination, environment, removed, spent>>

WriteStart ==
    /\ op.stage = "inputs" /\ op.todo = {}
    /\ evidence' = [evidence EXCEPT ![Run].start = op.event]
    /\ op' = [op EXCEPT !.stage = "evidence", !.record = Record("compound.start")]
    /\ UNCHANGED <<coordination, environment, removed, spent>>

-----------------------------------------------------------------------------
(* record_worker: attach a native handle late, to an active or finished run. *)

BeginWorker(ws, r, worker) ==
    LET original == Recorded(r)
        effective == Merge(original, worker)
    IN  /\ ~Held /\ Usable
        /\ Len(history) < MaxLines
        /\ Resolvable(ws, r)
        /\ r \in ActiveRuns(log) \/ Has(r, "compound.finish")
        /\ ~Conflict(original, worker)
        /\ effective # original
              \/ (r \in ActiveRuns(log) /\ Effective(log, r) # effective)
        /\ \A i \in DOMAIN log : i = Latest(DOMAIN log) => log[i].at <= clock
        /\ op' = AfterRollover([Idle EXCEPT
                     !.kind = "worker", !.loaded = configured[ws],
                     !.event = [Blank EXCEPT !.event = "worker", !.run_id = r,
                                  !.workspace_id = ws, !.at = clock, !.worker_id = worker],
                     !.record = IF effective = original THEN None
                                ELSE [Record("compound.worker") EXCEPT !.worker_id = worker]])
        /\ UNCHANGED <<coordination, evidence, environment, removed, spent>>

-----------------------------------------------------------------------------
(* finish_run *)

BeginFinish(ws, r, completion, dispositions, size) ==
    LET active == Recorded(r)
        selected == DOMAIN active.selected
    IN  /\ ~Held
        /\ Len(history) < MaxLines
        /\ ActiveRun(ws, r)
        /\ active.automatic => completion # None
        /\ completion \in Successes => dispositions = selected
        /\ completion = "empty" => selected = {} /\ dispositions = {}
        /\ clock >= active.at
        /\ ~Has(r, "compound.finish")
        /\ op' = [Idle EXCEPT
              !.kind = "finish", !.loaded = configured[ws], !.stage = "evidence",
              !.event = [active EXCEPT !.event = "end", !.at = clock,
                            !.selected = NoSelection, !.dispositions = dispositions,
                            !.drained = RecordedDrained(r), !.completion = completion, !.size = size],
              !.record = [Record("compound.finish") EXCEPT
                            !.at = clock, !.drained = RecordedDrained(r),
                            !.retained = selected \ RecordedDrained(r)]]
        /\ UNCHANGED <<coordination, evidence, environment, removed, spent>>

-----------------------------------------------------------------------------
(* drain_signals.  approved are the inputs whose disposition can_drain       *)
(* accepts and whose owners resolve to published repositories.               *)

BeginDrain(ws, r, approved) ==
    /\ ~Held
    /\ ActiveRun(ws, r)
    /\ approved \subseteq DOMAIN Recorded(r).selected
    /\ ~Has(r, "compound.finish")
    /\ Cardinality(Having(r, "compound.drain.intent")) < MaxDrains
    /\ op' = [Idle EXCEPT !.kind = "drain", !.loaded = configured[ws], !.stage = "intent",
                          !.event = Recorded(r), !.todo = approved]
    /\ UNCHANGED <<coordination, evidence, environment, removed, spent>>

\* Mutant: a failure to record the intent does not stop the drain.
WriteIntentIfPossible ==
    /\ op.stage = "intent"
    /\ evidence' = IF Recordable THEN Written(Run, Record("compound.drain.intent")) ELSE evidence
    /\ Goto("select")
    /\ UNCHANGED <<coordination, environment, removed, spent>>

WriteIntent ==
    /\ op.stage = "intent"
    /\ IF Recordable
       THEN evidence' = Written(Run, Record("compound.drain.intent")) /\ Goto("select")
       ELSE UNCHANGED evidence /\ Release
    /\ UNCHANGED <<coordination, environment, removed, spent>>

Unchanged(s) == inbox[s] = op.event.selected[s]

ArchivedIntact(s) ==
    s \in DOMAIN evidence[Run].inputs /\ evidence[Run].inputs[s] = op.event.selected[s]

\* Mutant: earlier removals are not looked up.
CandidateAgain(s) == ArchivedIntact(s) /\ Unchanged(s)

Candidate(s) == s \notin RecordedDrained(Run) /\ ArchivedIntact(s) /\ Unchanged(s)

SelectCandidates ==
    /\ op.stage = "select"
    /\ op' = [op EXCEPT !.stage = "remove", !.todo = {s \in @ : Candidate(s)}]
    /\ UNCHANGED <<coordination, evidence, environment, removed, spent>>

\* _unlink_verified_file up to its final stat.  A changed input is retained; one
\* that is not there any more fails the open, which nothing catches: the drain
\* ends without a report.
VerifyInput(s) ==
    /\ op.stage = "remove" /\ s \in op.todo
    /\ IF inbox[s] = Absent THEN Release
       ELSE op' = [op EXCEPT !.todo = @ \ {s},
                             !.stage = IF Unchanged(s) THEN "unlink" ELSE @,
                             !.signal = IF Unchanged(s) THEN s ELSE @]
    /\ UNCHANGED <<coordination, evidence, environment, removed, spent>>

Unlink ==
    /\ inbox' = [inbox EXCEPT ![op.signal] = Absent]
    /\ removed' = removed \cup {[run |-> Run, signal |-> op.signal,
                                 content |-> inbox[op.signal]]}
    /\ UNCHANGED <<configured, clock>>

RemoveInput ==
    /\ op.stage = "unlink"
    /\ IF inbox[op.signal] # Absent
       THEN /\ Unlink
            /\ op' = [op EXCEPT !.stage = "acknowledge", !.done = @ \cup {op.signal}]
       ELSE /\ Goto("remove")
            /\ UNCHANGED <<environment, removed>>
    /\ UNCHANGED <<coordination, evidence, spent>>

\* The directory fsync after the unlink fails: the input is gone, the code's
\* handler reports it retained and goes on with the next one.
RemoveUnsynced ==
    /\ op.stage = "unlink" /\ inbox[op.signal] # Absent
    /\ Faulty /\ Fault
    /\ Unlink
    /\ Goto("remove")
    /\ UNCHANGED <<coordination, evidence>>

\* Mutant: the first acknowledgement covers the whole batch.
AcknowledgementOfBatch ==
    Written(Run, [Record("compound.drain.removed") EXCEPT !.drained = {op.signal} \cup op.todo])

Acknowledgement ==
    Written(Run, [Record("compound.drain.removed") EXCEPT !.drained = {op.signal}])

\* A configuration edited since the command began, or a record torn by another
\* command, refuses the acknowledgement of what is already unlinked and ends
\* the loop.
Acknowledge ==
    /\ op.stage = "acknowledge"
    /\ IF Recordable
       THEN evidence' = Acknowledgement /\ Goto("remove")
       ELSE UNCHANGED evidence /\ Goto("report")
    /\ UNCHANGED <<coordination, environment, removed, spent>>

\* An acknowledgement that is not written, is torn, or is written but not
\* synced, and an interrupt from the keyboard, all end the loop.
AcknowledgeFails ==
    /\ op.stage = "acknowledge"
    /\ Faulty /\ Fault
    /\ evidence' \in {evidence, Torn(Run), Acknowledgement}
    /\ Goto("report")
    /\ UNCHANGED <<coordination, environment, removed>>

DrainInterrupted ==
    /\ op.stage \in {"unlink", "remove"}
    /\ Faulty /\ Fault
    /\ Goto("report")
    /\ UNCHANGED <<coordination, evidence, environment, removed>>

\* The report is refused after a torn record or a change of configuration.
ReportDrain ==
    /\ op.stage = "report" \/ (op.stage = "remove" /\ op.todo = {})
    /\ IF Recordable
       THEN evidence' = Written(Run, [Record("compound.drain") EXCEPT
                !.drained = op.done,
                !.retained = DOMAIN op.event.selected \ (RecordedDrained(Run) \cup op.done)])
       ELSE UNCHANGED evidence
    /\ Release
    /\ UNCHANGED <<coordination, environment, removed, spent>>

-----------------------------------------------------------------------------
(* Failure of the process or of a write, at any stage. *)

Interrupt ==
    /\ Held
    /\ Faulty /\ Fault
    /\ Release
    /\ UNCHANGED <<coordination, evidence, environment, removed>>

InterruptEvidence ==
    /\ op.stage \in {"evidence", "intent", "acknowledge", "report"}
    /\ Faulty /\ Fault
    /\ evidence' = Torn(Run)
    /\ Release
    /\ UNCHANGED <<coordination, environment, removed>>

InterruptActivity ==
    /\ op.stage = "append" /\ Appendable(log, op.event)
    /\ Faulty /\ Fault
    /\ tornLog' = TRUE
    /\ Release
    /\ UNCHANGED <<history, live, archived, evidence, environment, removed>>

-----------------------------------------------------------------------------
(* What acts without the lock. *)

Tick ==
    /\ clock < MaxClock
    /\ clock' = clock + 1
    /\ UNCHANGED <<coordination, evidence, inbox, configured, op, removed, spent>>

Regress(t) ==
    /\ spent.regress < MaxRegress /\ t < clock
    /\ clock' = t
    /\ spent' = [spent EXCEPT !.regress = @ + 1]
    /\ UNCHANGED <<coordination, evidence, inbox, configured, op, removed>>

Edit == spent.edits < MaxEdits /\ spent' = [spent EXCEPT !.edits = @ + 1]

\* A capture, an editor, a restore from a backup, or somebody's rm.
EditSignal(s, content) ==
    /\ Edit
    /\ content # inbox[s]
    /\ inbox' = [inbox EXCEPT ![s] = content]
    /\ UNCHANGED <<coordination, evidence, configured, clock, op, removed>>

EditConfiguration(ws, trigger) ==
    /\ Edit
    /\ trigger # configured[ws]
    /\ configured' = [configured EXCEPT ![ws] = trigger]
    /\ UNCHANGED <<coordination, evidence, inbox, clock, op, removed>>

-----------------------------------------------------------------------------
Init ==
    /\ history = <<>> /\ live = {} /\ archived = {} /\ tornLog = FALSE
    /\ evidence = [r \in Runs |-> NoEvidence]
    /\ inbox \in [Signals -> Contents \cup {Absent}]
    /\ configured \in [Workspaces -> Triggers \cup {None}]
    /\ clock = 0
    /\ op = Idle
    /\ removed = {}
    /\ spent = [faults |-> 0, edits |-> 0, regress |-> 0]

Begin ==
    \E ws \in Workspaces :
        \/ BeginTrigger(ws)
        \/ \E selected \in Batches, automatic \in Modes,
              worker \in Workers \cup {None}, recovery \in Runs \cup {None}, size \in Sizes :
              BeginStart(ws, selected, automatic, worker, recovery, size)
        \/ \E r \in Runs :
              \/ \E worker \in Workers : BeginWorker(ws, r, worker)
              \/ \E completion \in Reports,
                    dispositions \in SUBSET Signals, size \in Sizes :
                    BeginFinish(ws, r, completion, dispositions, size)
              \/ \E approved \in SUBSET Signals : BeginDrain(ws, r, approved)

\* The lock holder's own steps; each completes some write or gives up.
Proceed ==
    \/ ArchiveLog
    \/ ReplaceLog
    \/ AppendEvidence
    \/ AppendActivity
    \/ \E expected \in Triggers \cup {None} : RegisterTrigger(expected)
    \/ \E r \in Runs : ValidateInputs(r)
    \/ \E s \in Signals : ArchiveInput(s)
    \/ WriteStart
    \/ WriteIntent
    \/ SelectCandidates
    \/ \E s \in Signals : VerifyInput(s)
    \/ RemoveInput
    \/ Acknowledge
    \/ ReportDrain

Fail ==
    \/ RemoveUnsynced
    \/ AcknowledgeFails
    \/ DrainInterrupted
    \/ Interrupt
    \/ InterruptEvidence
    \/ InterruptActivity

Unlocked ==
    \/ Tick
    \/ \E t \in 0..MaxClock : Regress(t)
    \/ \E s \in Signals, content \in Contents \cup {Absent} : EditSignal(s, content)
    \/ \E ws \in Workspaces, trigger \in Triggers \cup {None} : EditConfiguration(ws, trigger)

Next == Begin \/ Proceed \/ Fail \/ Unlocked

Spec == Init /\ [][Next]_vars

-----------------------------------------------------------------------------
(* Properties. *)

\* Every variable keeps its type.
TypeOK ==
    /\ history \in Seq(Events)
    /\ live \subseteq DOMAIN history
    /\ archived \subseteq DOMAIN history
    /\ tornLog \in BOOLEAN
    /\ evidence \in [Runs -> RunEvidence]
    /\ inbox \in [Signals -> Contents \cup {Absent}]
    /\ configured \in [Workspaces -> Triggers \cup {None}]
    /\ clock \in Nat
    /\ op \in Operations
    /\ removed \subseteq [run: Runs, signal: Signals, content: Contents]
    /\ spent \in [faults: Nat, edits: Nat, regress: Nat]

\* Over everything ever logged, at most one run is unfinished, whichever
\* workspaces start them and whatever rollover or interruption came between
\* (start_run's refusal "compound-active").
OneActiveRun == \A q, r \in ActiveRuns(history) : q = r

\* The writers never produce a log the strict reader rejects or cannot load.
\* (A torn last line is the one exception, and stays until someone repairs it.)
LogReadable == Readable(log) /\ Size(log) <= 4 * Quarter

\* Rollover hides nothing: the bounded log answers every question as the whole
\* history would (what is active and under which identity, which trigger is
\* agreed, when automatic work may run, the latest time), and each line it
\* drops is in the archive.
RolloverTransparent ==
    /\ ActiveRuns(log) = ActiveRuns(history)
    /\ \A r \in ActiveRuns(log) : Effective(log, r) = Effective(history, r)
    /\ Agreement(log) = Agreement(history)
    /\ \A trigger \in Triggers : Deadlines(log, trigger) = Deadlines(history, trigger)
    /\ history # <<>> => Len(history) \in live
    /\ DOMAIN history \subseteq live \cup archived

\* No automatic run starts before the interval since every completed check and
\* the retry wait of a later failure have passed, under the prompt trigger
\* agreed at that moment; unless the clock was set back meanwhile.
CadenceKept ==
    spent.regress = 0 =>
        \A i \in DOMAIN history :
            (history[i].event = "start" /\ history[i].automatic) =>
                LET start == history[i]
                    earlier == Restrict(history, Before(history, i))
                    agreed == Agreement(earlier)
                IN  /\ agreed # None /\ agreed.mode = "prompt"
                    /\ \A j \in EndsWith(earlier, Successes) :
                          history[j].at + agreed.interval_seconds <= start.at
                    /\ \A j \in LatestIn(EndsWith(earlier, Relevant)) :
                          history[j].completion = "failed" =>
                              history[j].at + agreed.retry_seconds <= start.at

\* Every line of the log is backed by durable evidence of its run: a start by
\* the archived event, its record and all its inputs, an end or a worker by
\* its record with the same time.
LogBackedByEvidence ==
    \A i \in DOMAIN history :
        LET e == history[i]
            r == e.run_id
        IN  /\ e.event = "start" => /\ evidence[r].start = e
                                    /\ evidence[r].inputs = e.selected
                                    /\ Has(r, "compound.start")
            /\ e.event = "end" => \E j \in Having(r, "compound.finish") :
                                     evidence[r].records[j].at = e.at
            /\ e.event = "worker" => \E j \in Having(r, "compound.worker") :
                                     evidence[r].records[j].worker_id = e.worker_id

\* What drains of a run unlinked.
Gone(r) == {rm.signal : rm \in {x \in removed : x.run = r}}

\* The tool only claims removals it made: an input recorded as drained was
\* unlinked by that run, and a finish that leaves nothing unresolved means the
\* run removed everything it selected.
DrainageTruthful ==
    \A r \in Runs :
        /\ RecordedDrained(r) \subseteq Gone(r)
        /\ \A j \in Having(r, "compound.finish") :
              evidence[r].records[j].retained = {}
                  => DOMAIN evidence[r].start.selected \subseteq Gone(r)

\* Whatever a drain unlinked, the bytes the run selected are archived, and an
\* intent was recorded first.
RemovalRecoverable ==
    \A rm \in removed :
        /\ rm.signal \in DOMAIN evidence[rm.run].inputs
        /\ evidence[rm.run].inputs[rm.signal] = evidence[rm.run].start.selected[rm.signal]
        /\ Has(rm.run, "compound.drain.intent")

\* With no failure, an active run and its archive agree whenever the lock is
\* free, so its owner can always drain and finish it.
ActiveRunOperable ==
    (~Held /\ spent.faults = 0) =>
        \A r \in ActiveRuns(log) : ActiveRun(evidence[r].start.workspace_id, r)

\* A worker attachment that failed between its two writes is repaired by the
\* same request: the archive only ever adds a handle the log does not have yet.
IdentityRepairable ==
    \A r \in ActiveRuns(log) :
        LET known == Effective(log, r).worker_id
        IN  known # Recorded(r).worker_id => known = None

\* Once a run has finish evidence, or has recorded the removal of an input, no
\* drain of that run removes (that input) again, even if the file reappears.
NoLateRemoval ==
    [][\A rm \in removed' \ removed :
          ~Has(rm.run, "compound.finish") /\ rm.signal \notin RecordedDrained(rm.run)]_vars

\* The trigger agreement is never replaced under an active run.
AgreementStableWhileActive ==
    [][Agreement(log)' # Agreement(log) => ActiveRuns(log) = {}]_vars

\* The lifecycle implements the abstract promise: a run owns the store from its
\* start line to its end line, and claims what its end line reports.
EndOf(r) == CHOOSE i \in At(history, "end") : history[i].run_id = r

Exclusive == INSTANCE ExclusiveRuns WITH
    owner <- ActiveRuns(log),
    removals <- {<<rm.run, rm.signal>> : rm \in removed},
    claims <- [r \in Ended(history) |-> history[EndOf(r)].drained]

ImplementsExclusiveRuns == Exclusive!AbstractSpec

\* _rollover_activity's refusal says that unresolved history fills the log.
RefusalMeansUnresolved ==
    (op.stage = "rollover" /\ ~RolloverFits(log)) => ActiveRuns(log) # {}

\* Whoever holds the lock releases it.
LockReleased == Held ~> ~Held
=============================================================================

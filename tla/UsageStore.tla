----------------------------- MODULE UsageStore -----------------------------
(***************************************************************************)
(* Receipts of commands, their daily maintenance and their export          *)
(* (infrastructure/usage.py, infrastructure/receipts.py,                   *)
(* application/usage.py).                                                  *)
(*                                                                         *)
(* Several workspaces may share one directory.  Each file of events has a  *)
(* lock of its own, maintenance has one for the directory, and the expiry  *)
(* of a run also holds the lifecycle lock; an export holds none of them    *)
(* for longer than one file.  Commands, maintenance and the export run at  *)
(* once; an append may be torn, and a command may be killed at any step.   *)
(* The lifecycle's own steps are in Compounding: here a start and a finish *)
(* only leave their evidence.                                              *)
(***************************************************************************)
EXTENDS Subsequences

CONSTANTS
    Workspaces,
    Runs,
    Processes,      \* commands that may be running at the same time
    None,
    RetentionTime,  \* receipts.retention_days
    Since,          \* the days from which exports are asked for
    MaxClock,       \* bound: days
    MaxEvents,      \* bound: commands, each of which records one event
    MaxReceipts,    \* bound: those of them that leave a receipt
    MaxFaults       \* bound: torn appends, killed commands, archived inputs that someone changes

ASSUME UsageAssumption ==
    /\ RetentionTime \in Nat /\ MaxClock \in Nat /\ MaxEvents \in Nat
    /\ Since \subseteq Nat /\ MaxReceipts \in Nat /\ MaxFaults \in Nat
    /\ None \notin Workspaces \cup Runs /\ Runs \cap Nat = {}

VARIABLES
    clock,
    logs,           \* the events in retrieval/<day>.jsonl and compound/<run>/events.jsonl
    files,          \* the artifacts of each run
    tombstones,     \* runs with expired.json
    litter,         \* runs with a temporary file that a killed writer left
    descriptors,    \* workspaces whose descriptor is stored
    markers,        \* days and workspaces whose maintenance is recorded
    op,             \* the commands
    export,
    spent

vars == <<clock, logs, files, tombstones, litter, descriptors, markers, op, export, spent>>

Days == 0..MaxClock
Logs == Days \cup Runs
Pieces == {"start.json", "input"}
Operations == {"search", "validate", "compound.start", "compound.finish", "compound.retain"}

\* The logs of the days come before those of the runs, oldest first.
First(f, todo) == f \in todo /\ \A day \in todo \cap Days : f \in Days /\ f <= day

\* An event of a log; the finish of a run that leaves inputs unresolved is "compound.retain".
Event(operation, ws, r, day) ==
    [operation |-> operation, workspace_id |-> ws, run |-> r, at |-> day]
Events == [operation: Operations, workspace_id: Workspaces,
           run: Runs \cup {None}, at: Days]

\* A line that an interrupted append left without its end.
Torn == Event("torn", None, None, 0)

Lines(f) == {logs[f][i] : i \in DOMAIN logs[f]}

Stages == {"idle", "append", "maintain", "wait", "retain", "tombstone", "unlink",
           "replace"}
Idle == [stage |-> "idle", workspace_id |-> None, run |-> None, operation |-> "search", at |-> 0,
         instant |-> 0, todo |-> {}, expired |-> {}, log |-> None, kept |-> <<>>,
         seen |-> [piece \in Pieces |-> "missing"]]

ExportStages == {"idle", "runs", "tomb", "log", "again", "read", "copy", "manifest"}
NoExport == [stage |-> "idle", workspace_id |-> None, since |-> 0, todo |-> {}, run |-> None,
             listed |-> {}, read |-> [f \in Logs |-> {}], pieces |-> {}, bundle |-> {},
             described |-> {}, diagnostics |-> {}]

Init ==
    /\ clock = 0
    /\ logs = [f \in Logs |-> <<>>]
    /\ files = [r \in Runs |-> [piece \in Pieces |-> "missing"]]
    /\ tombstones = {} /\ litter = {} /\ descriptors = {} /\ markers = {}
    /\ op = [p \in Processes |-> Idle]
    /\ export = NoExport
    /\ spent = [events |-> 0, receipts |-> 0, faults |-> 0]

At(p, stage) == op[p].stage = stage
Goto(p, stage) == op' = [op EXCEPT ![p].stage = stage]
End(p) == op' = [op EXCEPT ![p] = Idle]

\* The file lock is held across the two halves of a compaction and throughout an expiry;
\* no other step of this model needs it for longer than itself.
Locked(f) ==
    \E p \in Processes :
        \/ At(p, "replace") /\ op[p].log = f
        \/ op[p].stage \in {"tombstone", "unlink"} /\ op[p].run = f

Maintaining(p) == op[p].stage \in {"retain", "tombstone", "unlink", "replace"}

store == <<logs, files, tombstones, litter, descriptors, markers>>

-----------------------------------------------------------------------------
\* The descriptor is durable before any event that refers to it.
Describe(ws) == descriptors' = descriptors \cup {ws}

\* The lifecycle, reduced to the evidence it leaves.
StartRun(p, ws, r) ==
    /\ At(p, "idle") /\ spent.events < MaxEvents
    /\ logs[r] = <<>> /\ r \notin tombstones
    /\ logs' = [logs EXCEPT ![r] = <<Event("compound.start", ws, r, clock)>>]
    /\ files' = [files EXCEPT ![r] = [piece \in Pieces |-> "whole"]]
    /\ Describe(ws)
    /\ spent' = [spent EXCEPT !.events = @ + 1]
    /\ UNCHANGED <<clock, tombstones, litter, markers, op, export>>

\* The run is recorded for the workspace (resolve_run).
Recorded(ws, r) ==
    /\ ~Locked(r)
    /\ files[r]["start.json"] # "missing"
    /\ \E e \in Lines(r) : e.operation = "compound.start" /\ e.workspace_id = ws
    /\ Torn \notin Lines(r)

\* A finish goes through the lifecycle lock, and is followed by maintenance.
Finish(p, ws, r, operation) ==
    /\ At(p, "idle") /\ spent.events < MaxEvents
    /\ Recorded(ws, r)
    /\ \A e \in Lines(r) : e.operation \notin {"compound.finish", "compound.retain"}
    /\ logs' = [logs EXCEPT ![r] = Append(@, Event(operation, ws, r, clock))]
    /\ spent' = [spent EXCEPT !.events = @ + 1]
    /\ op' = [op EXCEPT ![p] = [Idle EXCEPT !.stage = "maintain", !.workspace_id = ws]]
    /\ UNCHANGED <<clock, files, tombstones, litter, descriptors, markers, export>>

\* A catalog, search, inspect ("search" stands for the three) or validate command
\* comes to its receipt.  Its context has a run that is recorded for the same
\* workspace; a command whose run does not resolve fails, and its receipt names none.
Command(p, operation, ws, r) ==
    /\ At(p, "idle") /\ spent.events < MaxEvents /\ spent.receipts < MaxReceipts
    /\ r # None => Recorded(ws, r)
    /\ Describe(ws)
    /\ op' = [op EXCEPT ![p] = [Idle EXCEPT !.stage = "append", !.operation = operation,
                                            !.workspace_id = ws, !.run = r, !.at = clock]]
    /\ spent' = [spent EXCEPT !.events = @ + 1, !.receipts = @ + 1]
    /\ UNCHANGED <<clock, logs, files, tombstones, litter, markers, export>>

\* Mutant: the file is named after the time of the append.
TargetNow(p) ==
    IF op[p].operation = "validate" /\ op[p].run # None THEN op[p].run ELSE clock

Target(p) ==
    IF op[p].operation = "validate" /\ op[p].run # None THEN op[p].run ELSE op[p].at

\* A torn last record is never extended: the receipt fails, the command does not.
Extensible(f) == Torn \notin Lines(f)

AppendReceipt(p) ==
    /\ At(p, "append")
    /\ ~Locked(Target(p))
    /\ Extensible(Target(p))
    /\ LET e == Event(op[p].operation, op[p].workspace_id, op[p].run, op[p].at)
       IN  logs' = [logs EXCEPT ![Target(p)] = Append(@, e)]
    /\ op' = [op EXCEPT ![p] = [Idle EXCEPT !.stage = "maintain",
                                            !.workspace_id = op[p].workspace_id]]
    /\ UNCHANGED <<clock, files, tombstones, litter, descriptors, markers, export, spent>>

RefuseReceipt(p) ==
    /\ At(p, "append")
    /\ ~Locked(Target(p))
    /\ ~Extensible(Target(p))
    /\ End(p)
    /\ UNCHANGED <<clock, store, export, spent>>

\* The disk is full, or the command is killed, in the middle of the line.
TearReceipt(p) ==
    /\ At(p, "append") /\ spent.faults < MaxFaults
    /\ ~Locked(Target(p))
    /\ Extensible(Target(p))
    /\ logs' = [logs EXCEPT ![Target(p)] = Append(@, Torn)]
    /\ End(p)
    /\ spent' = [spent EXCEPT !.faults = @ + 1]
    /\ UNCHANGED <<clock, files, tombstones, litter, descriptors, markers, export>>

-----------------------------------------------------------------------------
\* The instant of a maintenance is read before it waits for the lock.
Stamp(p) ==
    /\ At(p, "maintain")
    /\ op' = [op EXCEPT ![p].stage = "wait", ![p].instant = clock]
    /\ UNCHANGED <<clock, store, export, spent>>

AlreadyApplied(p) ==
    /\ At(p, "wait") /\ \A q \in Processes : ~Maintaining(q)
    /\ <<op[p].instant, op[p].workspace_id>> \in markers
    /\ End(p)
    /\ UNCHANGED <<clock, store, export, spent>>

BeginRetention(p) ==
    /\ At(p, "wait") /\ \A q \in Processes : ~Maintaining(q)
    /\ <<op[p].instant, op[p].workspace_id>> \notin markers
    /\ op' = [op EXCEPT ![p].stage = "retain", ![p].todo = {f \in Logs : logs[f] # <<>>}]
    /\ UNCHANGED <<clock, store, export, spent>>

Old(p, e) == e.at + RetentionTime < op[p].instant

\* Only a run whose last event is an old finish that retained nothing, and whose
\* directory holds nothing that retention does not know.
Expirable(p, r) ==
    LET finish == logs[r][Len(logs[r])]
    IN  /\ logs[r] # <<>> /\ Torn \notin Lines(r)
        /\ \A e \in Lines(r) : e.workspace_id = op[p].workspace_id
        /\ finish.operation = "compound.finish" /\ Old(p, finish)
        /\ r \notin tombstones /\ r \notin litter

BeginExpiry(p, r) ==
    /\ At(p, "retain") /\ r \in op[p].todo
    /\ ~Locked(r)
    /\ IF Expirable(p, r)
       THEN op' = [op EXCEPT ![p].stage = "tombstone", ![p].run = r, ![p].seen = files[r]]
       ELSE op' = [op EXCEPT ![p].todo = @ \ {r}]
    /\ UNCHANGED <<clock, store, export, spent>>

WriteTombstone(p) ==
    /\ At(p, "tombstone")
    /\ tombstones' = tombstones \cup {op[p].run}
    /\ Goto(p, "unlink")
    /\ UNCHANGED <<clock, logs, files, litter, descriptors, markers, export, spent>>

NextLog(p, expired) ==
    op' = [op EXCEPT ![p].stage = "retain", ![p].todo = @ \ {op[p].run}, ![p].run = None,
                     ![p].expired = expired, ![p].seen = Idle.seen]

Present(p, piece) == files[op[p].run][piece] # "missing"

UnlinkLog(p) ==
    /\ At(p, "unlink") /\ logs[op[p].run] # <<>>
    /\ logs' = [logs EXCEPT ![op[p].run] = <<>>]
    /\ IF \E piece \in Pieces : Present(p, piece)
       THEN UNCHANGED op ELSE NextLog(p, op[p].expired \cup {op[p].run})
    /\ UNCHANGED <<clock, files, tombstones, litter, descriptors, markers, export, spent>>

UnlinkPiece(p, piece) ==
    /\ At(p, "unlink") /\ Present(p, piece)
    /\ op[p].seen[piece] = files[op[p].run][piece]
    /\ files' = [files EXCEPT ![op[p].run][piece] = "missing"]
    /\ IF logs[op[p].run] # <<>> \/ \E other \in Pieces \ {piece} : Present(p, other)
       THEN UNCHANGED op ELSE NextLog(p, op[p].expired \cup {op[p].run})
    /\ UNCHANGED <<clock, logs, tombstones, litter, descriptors, markers, export, spent>>

\* A file that changed since it was listed stops the expiry of its run.
StopExpiry(p, piece) ==
    /\ At(p, "unlink") /\ Present(p, piece)
    /\ op[p].seen[piece] # files[op[p].run][piece]
    /\ NextLog(p, op[p].expired)
    /\ UNCHANGED <<clock, store, export, spent>>

\* Mutant: the receipts of other workspaces that share the directory go too.
RetiredByAge(p, e) ==
    e.operation = "search" /\ Old(p, e) /\ e.run \in op[p].expired \cup {None}

\* A validate receipt has the schema of the run evidence, and is never retired.
Retired(p, e) ==
    /\ e.operation = "search"
    /\ e.workspace_id = op[p].workspace_id
    /\ Old(p, e)
    /\ e.run \in op[p].expired \cup {None}

\* The runs come first: the receipts that name a run are retired with it.
ReadReceipts(p, day) ==
    LET kept == Subsequence(logs[day], {i \in DOMAIN logs[day] : ~Retired(p, logs[day][i])})
    IN  /\ At(p, "retain") /\ op[p].todo \cap Runs = {} /\ First(day, op[p].todo)
        /\ ~Locked(day)
        /\ IF Torn \in Lines(day) \/ kept = logs[day]
           THEN op' = [op EXCEPT ![p].todo = @ \ {day}]
           ELSE op' = [op EXCEPT ![p].stage = "replace", ![p].log = day, ![p].kept = kept]
        /\ UNCHANGED <<clock, store, export, spent>>

ReplaceReceipts(p) ==
    /\ At(p, "replace")
    /\ logs' = [logs EXCEPT ![op[p].log] = op[p].kept]
    /\ op' = [op EXCEPT ![p].stage = "retain", ![p].todo = @ \ {op[p].log},
                        ![p].log = None, ![p].kept = <<>>]
    /\ UNCHANGED <<clock, files, tombstones, litter, descriptors, markers, export, spent>>

Mark(p) ==
    /\ At(p, "retain") /\ op[p].todo = {}
    /\ markers' = markers \cup {<<op[p].instant, op[p].workspace_id>>}
    /\ End(p)
    /\ UNCHANGED <<clock, logs, files, tombstones, litter, descriptors, export, spent>>

\* In the middle of write_artifact a kill leaves the temporary file, which no later
\* retention knows.
LeftBehind(p) == IF At(p, "tombstone") THEN {op[p].run} ELSE {}

\* A kill, or an error, releases every lock.  A command that is killed while it
\* holds none is one that takes no further step.
Kill(p) ==
    /\ Maintaining(p) /\ spent.faults < MaxFaults
    /\ litter' \in {litter, litter \cup LeftBehind(p)}
    /\ End(p)
    /\ spent' = [spent EXCEPT !.faults = @ + 1]
    /\ UNCHANGED <<clock, logs, files, tombstones, descriptors, markers, export>>

-----------------------------------------------------------------------------
\* The events that an export of ws from a day on selects from what was read, the
\* runs they name, and the earlier events of those runs.
Own(x) == {e \in UNION {x.read[f] : f \in Logs} : e.workspace_id = x.workspace_id}
SelectedRuns(x) == {e.run : e \in {y \in Own(x) : y.at >= x.since}} \ {None}
Evidence(x) == {e \in Own(x) : e.at >= x.since \/ e.run \in SelectedRuns(x)}
Started(x, r) == \E e \in Evidence(x) : e.run = r /\ e.operation = "compound.start"

Report(x, items) == [x EXCEPT !.diagnostics = @ \cup items]

BeginExport(ws, since) ==
    /\ export.stage = "idle"
    /\ export' = [NoExport EXCEPT
                     !.stage = "runs", !.workspace_id = ws, !.since = since,
                     !.listed = {day \in Days : logs[day] # <<>>}]
    /\ UNCHANGED <<clock, store, op, spent>>

HasDirectory(r) ==
    \/ logs[r] # <<>> \/ r \in tombstones \cup litter
    \/ \E piece \in Pieces : files[r][piece] # "missing"

\* What an export turns to next: runs not looked at, logs not read, the artifacts.
Proceed(x) ==
    CASE x.todo # {} -> [x EXCEPT !.stage = "tomb"]
      [] x.todo = {} /\ x.listed # {} -> [x EXCEPT !.stage = "read"]
      [] OTHER -> [x EXCEPT !.stage = "copy", !.todo = SelectedRuns(x)]

ListRuns ==
    /\ export.stage = "runs"
    /\ export' = Proceed([export EXCEPT !.todo = {r \in Runs : HasDirectory(r)}])
    /\ UNCHANGED <<clock, store, op, spent>>

\* Three looks at the directory of a run, one after the other.
LookForTombstone(r) ==
    /\ export.stage = "tomb" /\ r \in export.todo
    /\ export' = [Report(export, {r} \cap tombstones) EXCEPT
                     !.stage = "log", !.run = r, !.todo = @ \ {r}]
    /\ UNCHANGED <<clock, store, op, spent>>

LookForLog ==
    /\ export.stage = "log"
    /\ export' = IF logs[export.run] # <<>>
                 THEN Proceed([export EXCEPT !.listed = @ \cup {export.run}, !.run = None])
                 ELSE [export EXCEPT !.stage = "again"]
    /\ UNCHANGED <<clock, store, op, spent>>

LookAgain ==
    /\ export.stage = "again"
    /\ export' = Proceed([Report(export, {export.run} \ tombstones) EXCEPT !.run = None])
    /\ UNCHANGED <<clock, store, op, spent>>

\* A torn line, or a log that went since it was listed, is reported.
ReadLog(f) ==
    /\ export.stage = "read" /\ First(f, export.listed)
    /\ ~Locked(f)
    /\ LET doubtful == IF logs[f] = <<>> \/ Torn \in Lines(f) THEN {f} ELSE {}
       IN  export' = Proceed([Report(export, doubtful) EXCEPT
                                 !.listed = @ \ {f}, !.read[f] = Lines(f) \ {Torn}])
    /\ UNCHANGED <<clock, store, op, spent>>

\* The artifacts of a run: its start, the inputs its start recorded, and the
\* inputs that its directory still lists.
Attributable(x, r) ==
    x.read[r] # {} /\ \A e \in x.read[r] : e.workspace_id = x.workspace_id

Referenced(r) ==
    {"start.json"} \cup
    IF Started(export, r) \/ files[r]["input"] # "missing" THEN {"input"} ELSE {}

OpenRun(r) ==
    /\ export.stage = "copy" /\ export.pieces = {} /\ r \in export.todo
    /\ export' = [Report(export, IF Attributable(export, r) /\ Started(export, r) THEN {} ELSE {r})
                  EXCEPT !.todo = @ \ {r}, !.run = r,
                         !.pieces = IF Attributable(export, r) THEN Referenced(r) ELSE {}]
    /\ UNCHANGED <<clock, store, op, spent>>

\* Mutant: the fingerprint that the start recorded is not compared.
DoubtfulMissing(piece) == files[export.run][piece] = "missing"

\* The start recorded the fingerprint of the input.
Doubtful(piece) ==
    \/ files[export.run][piece] = "missing"
    \/ piece = "input" /\ Started(export, export.run) /\ files[export.run][piece] = "changed"

\* Pieces are copied in the order of their names.
CopyPiece(piece) ==
    /\ export.stage = "copy" /\ piece \in export.pieces
    /\ piece = "start.json" => "input" \notin export.pieces
    /\ export' = [Report(export, IF Doubtful(piece) THEN {export.run} ELSE {}) EXCEPT
                     !.pieces = @ \ {piece},
                     !.bundle = @ \cup {<<export.run, piece, files[export.run][piece]>>}]
    /\ UNCHANGED <<clock, store, op, spent>>

\* The descriptors come last.
CopyDescriptors ==
    /\ export.stage = "copy" /\ export.pieces = {} /\ export.todo = {}
    /\ LET named == {e.workspace_id : e \in Evidence(export)}
       IN  export' = [Report(export, named \ descriptors) EXCEPT
                         !.stage = "manifest", !.run = None, !.described = named \cap descriptors]
    /\ UNCHANGED <<clock, store, op, spent>>

WriteManifest ==
    /\ export.stage = "manifest"
    /\ export' = NoExport
    /\ UNCHANGED <<clock, store, op, spent>>

-----------------------------------------------------------------------------
Tick ==
    /\ clock < MaxClock
    /\ clock' = clock + 1
    /\ UNCHANGED <<store, op, export, spent>>

\* Someone rewrites an archived input.
EditInput(r) ==
    /\ spent.faults < MaxFaults /\ files[r]["input"] = "whole"
    /\ files' = [files EXCEPT ![r]["input"] = "changed"]
    /\ spent' = [spent EXCEPT !.faults = @ + 1]
    /\ UNCHANGED <<clock, logs, tombstones, litter, descriptors, markers, op, export>>

CommandNext(p) ==
    \/ \E ws \in Workspaces, r \in Runs :
          \/ StartRun(p, ws, r)
          \/ \E operation \in {"compound.finish", "compound.retain"} : Finish(p, ws, r, operation)
    \/ \E operation \in {"search", "validate"}, ws \in Workspaces, r \in Runs \cup {None} :
          Command(p, operation, ws, r)
    \/ AppendReceipt(p) \/ RefuseReceipt(p) \/ TearReceipt(p) \/ Kill(p)

MaintenanceNext(p) ==
    \/ Stamp(p) \/ AlreadyApplied(p) \/ BeginRetention(p)
    \/ \E r \in Runs : BeginExpiry(p, r)
    \/ WriteTombstone(p) \/ UnlinkLog(p)
    \/ \E piece \in Pieces : UnlinkPiece(p, piece) \/ StopExpiry(p, piece)
    \/ \E day \in Days : ReadReceipts(p, day)
    \/ ReplaceReceipts(p) \/ Mark(p)

ExportNext ==
    \/ \E ws \in Workspaces, since \in Since \cap 0..clock : BeginExport(ws, since)
    \/ ListRuns \/ LookForLog \/ LookAgain \/ CopyDescriptors \/ WriteManifest
    \/ \E r \in Runs : LookForTombstone(r) \/ OpenRun(r)
    \/ \E f \in Logs : ReadLog(f)
    \/ \E piece \in Pieces : CopyPiece(piece)

Next ==
    \/ \E p \in Processes : CommandNext(p) \/ MaintenanceNext(p)
    \/ ExportNext
    \/ Tick
    \/ \E r \in Runs : EditInput(r)

Spec == Init /\ [][Next]_vars

-----------------------------------------------------------------------------
\* Every variable has its type, every event is in the file of its day or run (a
\* validate receipt only without a run in that of its day), and a torn line is the
\* last one of its file.
FiledRight(f, e) ==
    IF f \in Runs THEN e.run = f
    ELSE /\ e.at = f /\ e.operation \in {"search", "validate"}
         /\ e.operation = "validate" => e.run = None

UsageTypeOK ==
    /\ clock \in Days
    /\ \A f \in Logs :
           /\ \A e \in Lines(f) \ {Torn} : e \in Events /\ FiledRight(f, e)
           /\ \A i \in DOMAIN logs[f] : logs[f][i] = Torn => i = Len(logs[f])
    /\ files \in [Runs -> [Pieces -> {"missing", "whole", "changed"}]]
    /\ tombstones \subseteq Runs /\ litter \subseteq Runs /\ descriptors \subseteq Workspaces
    /\ markers \subseteq Days \X Workspaces
    /\ \A p \in Processes :
           /\ op[p].stage \in Stages /\ op[p].operation \in Operations
           /\ op[p].workspace_id \in Workspaces \cup {None} /\ op[p].run \in Runs \cup {None}
           /\ op[p].at \in Days /\ op[p].instant \in Days
           /\ op[p].todo \subseteq Logs /\ op[p].expired \subseteq Runs
    /\ export.stage \in ExportStages
    /\ export.todo \subseteq Runs /\ export.listed \subseteq Logs /\ export.pieces \subseteq Pieces
    /\ export.described \subseteq Workspaces
    /\ export.diagnostics \subseteq Logs \cup Workspaces

Count(f, e) == Cardinality(Places(logs[f], e))

\* What a command reported as written stays readable, whoever appends, tears a
\* line or compacts: no line follows a torn one, and an event leaves its file
\* only with the expiry of its run, or as an old retrieval receipt of the workspace
\* that maintains its own, which names no run or one whose expiry is on record.
ReceiptsKept ==
    [][\A f \in Logs :
          /\ \A i \in DOMAIN logs'[f] : logs'[f][i] = Torn => i = Len(logs'[f])
          /\ \A e \in Lines(f) :
                \/ Count(f, e)' >= Count(f, e)
                \/ f \in tombstones
                \/ /\ f \in Days /\ f + RetentionTime < clock /\ e.operation = "search"
                   /\ e.run \in tombstones \cup {None}
                   /\ \E p \in Processes :
                         Maintaining(p) /\ op[p].workspace_id = e.workspace_id]_vars

\* A complete export accounts for every run it names: the start event, the start
\* record and the unchanged input are in the bundle, or a diagnostic names the
\* run, although maintenance may expire the run at any point of the export.  Each
\* exported event comes with its descriptor.
ExportAccounted ==
    export.stage = "manifest" =>
        /\ \A r \in SelectedRuns(export) :
               \/ r \in export.diagnostics
               \/ /\ Started(export, r)
                  /\ \E state \in {"whole", "changed"} : <<r, "start.json", state>> \in export.bundle
                  /\ <<r, "input", "whole">> \in export.bundle
        /\ \A e \in Evidence(export) : e.workspace_id \in export.described
=============================================================================

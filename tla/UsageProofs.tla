---------------------------- MODULE UsageProofs ----------------------------
(***************************************************************************)
(* Theorems about UsageStore.  The invariant says where events are filed   *)
(* and that nothing follows a torn line, what a command and the one        *)
(* maintainer hold at each stage, and what an export has accounted for     *)
(* already, or still has before it, of every run that it has read about.   *)
(***************************************************************************)
EXTENDS UsageStore, SubsequenceProofs

-----------------------------------------------------------------------------
(* The parts of the inductive invariant. *)

Entries == Events \cup {Torn}
States == {"missing", "whole", "changed"}

Stored ==
    /\ clock \in Days
    /\ logs \in [Logs -> Seq(Entries)]
    /\ files \in [Runs -> [Pieces -> States]]
    /\ tombstones \subseteq Runs /\ litter \subseteq Runs /\ descriptors \subseteq Workspaces
    /\ markers \subseteq Days \X Workspaces

\* Each event is in the file of its day or run, and its workspace is described.
Filed ==
    \A f \in Logs : \A e \in Lines(f) \ {Torn} :
        /\ e \in Events
        /\ FiledRight(f, e)
        /\ e.workspace_id \in descriptors

\* Nothing follows a line that was cut.
TornLast == \A f \in Logs : \A i \in DOMAIN logs[f] : logs[f][i] = Torn => i = Len(logs[f])

StoreInv == Stored /\ Filed /\ TornLast

Commands ==
    [stage: Stages, workspace_id: Workspaces \cup {None}, run: Runs \cup {None},
     operation: Operations, at: Days, instant: Days, todo: SUBSET Logs, expired: SUBSET Runs,
     log: Logs \cup {None}, kept: Seq(Entries), seen: [Pieces -> States]]

\* What is left of a file of receipts that this command compacts.
Compacted(p) ==
    LET log == logs[op[p].log]
    IN  Subsequence(log, {i \in DOMAIN log : ~Retired(p, log[i])})

\* What a command takes for granted at each stage.
Holding(p) ==
    /\ ~At(p, "idle") => op[p].workspace_id \in descriptors
    /\ At(p, "append") => /\ op[p].operation \in {"search", "validate"}
    /\ op[p].instant <= clock
    /\ op[p].expired \subseteq tombstones
    /\ op[p].stage \in {"tombstone", "unlink"} => op[p].run \in Runs
    /\ At(p, "unlink") => op[p].run \in tombstones
    /\ At(p, "replace") => /\ op[p].log \in Days /\ Torn \notin Lines(op[p].log)
                           /\ op[p].kept = Compacted(p)

OneMaintainer == \A p, q \in Processes : Maintaining(p) /\ Maintaining(q) => p = q

CommandInv ==
    /\ op \in [Processes -> Commands]
    /\ \A p \in Processes : Holding(p)
    /\ OneMaintainer

Exports ==
    [stage: ExportStages, workspace_id: Workspaces \cup {None}, since: Days,
     todo: SUBSET Runs, run: Runs \cup {None}, listed: SUBSET Logs, read: [Logs -> SUBSET Events],
     pieces: SUBSET Pieces, bundle: SUBSET (Runs \X Pieces \X States),
     described: SUBSET Workspaces, diagnostics: SUBSET (Logs \cup Workspaces)]

Copied(x, r, piece) ==
    IF piece = "start.json"
    THEN \E state \in {"whole", "changed"} : <<r, "start.json", state>> \in x.bundle
    ELSE <<r, "input", "whole">> \in x.bundle

\* A run that has been turned to is named by a diagnostic, or all of its pieces
\* are copied, or about to be.
Accounted(x, r, pending) ==
    \/ r \in x.diagnostics
    \/ /\ Started(x, r)
       /\ \A piece \in Pieces : Copied(x, r, piece) \/ (r = x.run /\ piece \in pending)

Exporting(x) ==
    /\ x \in Exports
    /\ \A f \in Logs : \A e \in x.read[f] : e.workspace_id \in descriptors
    /\ x.stage \in {"log", "again"} => x.run \in Runs
    /\ x.pieces # {} => x.stage = "copy" /\ x.run \in Runs
    /\ x.stage = "copy" => \A r \in SelectedRuns(x) \ x.todo : Accounted(x, r, x.pieces)
    /\ x.stage = "manifest" => /\ \A r \in SelectedRuns(x) : Accounted(x, r, {})
                               /\ \A e \in Evidence(x) : e.workspace_id \in x.described

UsageInv == StoreInv /\ CommandInv /\ Exporting(export)

-----------------------------------------------------------------------------
(* Data. *)

\* A torn line is not an event.
LEMMA TornApart == Torn \notin Events
  BY DEF Torn, Event, Events, Operations

\* A file of a run is not a file of a day.
LEMMA Disjoint == \A r \in Runs : r \notin Days /\ r # None
  BY UsageAssumption DEF Days

\* Days and runs name the files of events.
LEMMA DaysAreLogs == Days \subseteq Logs /\ Runs \subseteq Logs /\ 0 \in Days /\ Days \subseteq Nat
  BY UsageAssumption DEF Days, Logs

\* A command that is not in progress has expired nothing.
LEMMA IdleCommand ==
    /\ Idle \in Commands /\ Idle.stage = "idle" /\ Idle.instant = 0 /\ Idle.expired = {}
  <1>1. <<>> \in Seq(Entries)
    OBVIOUS
  <1> QED BY <1>1, DaysAreLogs DEF Idle, Commands, Stages, Operations, States

\* An export that is not in progress has nothing to account for.
LEMMA NoExporting == Exporting(NoExport)
  <1>1. /\ NoExport \in Exports /\ NoExport.stage = "idle" /\ NoExport.pieces = {}
        /\ \A f \in Logs : NoExport.read[f] = {}
    BY DaysAreLogs DEF NoExport, Exports, ExportStages
  <1> QED BY <1>1 DEF Exporting

\* The lines of a log after an append.
LEMMA Appended ==
    ASSUME NEW s \in Seq(Entries), NEW e \in Entries
    PROVE  /\ Append(s, e) \in Seq(Entries) /\ Len(Append(s, e)) = Len(s) + 1
           /\ DOMAIN Append(s, e) = 1..(Len(s) + 1) /\ DOMAIN s = 1..Len(s) /\ Len(s) \in Nat
           /\ \A i \in DOMAIN s : i \in DOMAIN Append(s, e) /\ Append(s, e)[i] = s[i]
           /\ Append(s, e)[Len(s) + 1] = e
  OBVIOUS

\* Counting the lines of a log that are like one.
LEMMA CountGrows ==
    ASSUME NEW s \in Seq(Entries), NEW e \in Entries, NEW x
    PROVE  Cardinality(Places(Append(s, e), x)) >= Cardinality(Places(s, x))
  <1> DEFINE more == Places(Append(s, e), x)
             less == Places(s, x)
  <1>1. less \in SUBSET more
    BY Appended DEF Places
  <1>2. IsFiniteSet(more)
    <2>1. Len(s) + 1 \in Int /\ DOMAIN Append(s, e) = 1..(Len(s) + 1)
      BY Appended
    <2>2. IsFiniteSet(DOMAIN Append(s, e))
      BY <2>1, FS_Interval
    <2> QED BY <2>2, FS_Subset DEF Places
  <1>3. Cardinality(less) <= Cardinality(more) /\ Cardinality(less) \in Int /\ Cardinality(more) \in Int
    BY <1>1, <1>2, FS_Subset, FS_CardinalityType
  <1> QED BY <1>3

-----------------------------------------------------------------------------
(* What keeps the invariant. *)

\* Whatever is done to the store, the export keeps what it has read.
LEMMA ExportStays ==
    ASSUME NEW x, Exporting(x), descriptors \subseteq descriptors'
    PROVE  Exporting(x)'
  <1>1. \A f \in Logs : \A e \in x.read[f] : e.workspace_id \in descriptors'
    BY DEF Exporting
  <1> QED BY <1>1 DEF Exporting

\* A command that takes no step keeps what it knows.
LEMMA Bystander ==
    ASSUME NEW q \in Processes, Holding(q), op'[q] = op[q], clock' = clock,
           descriptors \subseteq descriptors', tombstones \subseteq tombstones',
           At(q, "replace") => logs'[op[q].log] = logs[op[q].log]
    PROVE  Holding(q)'
  <1>1. ASSUME At(q, "replace")
        PROVE  /\ op[q].log \in Days /\ (Torn \notin Lines(op[q].log))' /\ op[q].kept = Compacted(q)'
    BY <1>1 DEF Holding, Compacted, Lines, Retired, Old
  <1> QED BY <1>1 DEF Holding, At

\* One command takes a step, and nobody comes to maintain the store beside another.
LEMMA StoreStep ==
    ASSUME UsageInv, NEW p \in Processes, op' \in [Processes -> Commands],
           \A q \in Processes \ {p} : op'[q] = op[q],
           clock' = clock, export' = export, StoreInv',
           descriptors \subseteq descriptors', tombstones \subseteq tombstones',
           Holding(p)', Maintaining(p)' => Maintaining(p) \/ \A q \in Processes : ~Maintaining(q),
           \A q \in Processes \ {p} : At(q, "replace") => logs'[op[q].log] = logs[op[q].log]
    PROVE  UsageInv'
  <1>1. \A q \in Processes : Holding(q)'
    BY Bystander DEF UsageInv, CommandInv
  <1>2. OneMaintainer'
    BY DEF UsageInv, CommandInv, OneMaintainer, Maintaining
  <1>3. Exporting(export)'
    BY ExportStays DEF UsageInv
  <1> QED BY <1>1, <1>2, <1>3 DEF UsageInv, CommandInv

\* One command takes a step that leaves the store alone.
LEMMA QuietStep ==
    ASSUME UsageInv, NEW p \in Processes, op' \in [Processes -> Commands],
           \A q \in Processes \ {p} : op'[q] = op[q],
           UNCHANGED <<clock, store, export>>,
           Holding(p)', Maintaining(p)' => Maintaining(p) \/ \A q \in Processes : ~Maintaining(q)
    PROVE  UsageInv'
  <1>1. StoreInv'
    BY DEF UsageInv, StoreInv, Stored, Filed, TornLast, Lines, store
  <1> QED BY <1>1, StoreStep DEF store

\* What holds of a command before its step.
LEMMA Before ==
    ASSUME UsageInv, NEW p \in Processes
    PROVE  /\ op \in [Processes -> Commands] /\ op[p] \in Commands /\ Holding(p)
           /\ op[p].instant \in Days /\ clock \in Days
  BY DEF UsageInv, CommandInv, Commands, StoreInv, Stored

\* The record of one command is replaced.
LEMMA Becomes ==
    ASSUME UsageInv, NEW p \in Processes, NEW o \in Commands, op' = [op EXCEPT ![p] = o]
    PROVE  /\ op' \in [Processes -> Commands] /\ op'[p] = o
           /\ \A q \in Processes \ {p} : op'[q] = op[q]
  BY Before

\* A command that has ended takes nothing for granted.
LEMMA IdleHolds ==
    ASSUME NEW p \in Processes, op'[p] = Idle, clock' \in Days
    PROVE  Holding(p)' /\ ~Maintaining(p)'
  <1>1. 0 <= clock'
    BY DEF Days
  <1> QED BY <1>1, IdleCommand DEF Holding, At, Maintaining

\* A command ends.
LEMMA Ends ==
    ASSUME UsageInv, NEW p \in Processes, End(p), clock' = clock
    PROVE  /\ op' \in [Processes -> Commands] /\ op'[p] = Idle
           /\ \A q \in Processes \ {p} : op'[q] = op[q]
           /\ Holding(p)' /\ ~Maintaining(p)'
  BY Becomes, IdleCommand, IdleHolds, Before DEF End

\* A command that has made its receipt goes on to the maintenance of the day.
LEMMA Receipted ==
    ASSUME UsageInv, NEW p \in Processes, NEW ws \in Workspaces, ws \in descriptors',
           clock' = clock, op' = [op EXCEPT ![p] = [Idle EXCEPT !.stage = "maintain", !.workspace_id = ws]]
    PROVE  /\ op' \in [Processes -> Commands]
           /\ \A q \in Processes \ {p} : op'[q] = op[q]
           /\ Holding(p)' /\ ~Maintaining(p)'
  <1>1. PICK o : o = [Idle EXCEPT !.stage = "maintain", !.workspace_id = ws]
    OBVIOUS
  <1>2. /\ o \in Commands /\ o.stage = "maintain" /\ o.workspace_id = ws /\ o.instant = 0
        /\ o.expired = {}
    BY <1>1, IdleCommand DEF Commands, Stages
  <1>3. /\ op' \in [Processes -> Commands] /\ op'[p] = o /\ \A q \in Processes \ {p} : op'[q] = op[q]
    BY <1>1, <1>2, Becomes
  <1>4. 0 <= clock'
    BY Before DEF Days
  <1> QED BY <1>2, <1>3, <1>4 DEF Holding, At, Maintaining

\* A log that nobody compacts gets a line at its end.
LEMMA LineAdded ==
    ASSUME UsageInv, NEW f \in Logs, NEW e \in Entries, logs' = [logs EXCEPT ![f] = Append(@, e)],
           Torn \notin Lines(f), clock' = clock,
           files' \in [Runs -> [Pieces -> States]], UNCHANGED <<tombstones, litter, markers>>,
           descriptors \subseteq descriptors', descriptors' \subseteq Workspaces,
           e # Torn => /\ e.workspace_id \in descriptors'
                       /\ FiledRight(f, e)
    PROVE  StoreInv'
  <1>1. logs \in [Logs -> Seq(Entries)] /\ logs[f] \in Seq(Entries)
    BY DEF UsageInv, StoreInv, Stored
  <1>2. logs' \in [Logs -> Seq(Entries)] /\ \A g \in Logs \ {f} : logs'[g] = logs[g]
    BY <1>1, Appended
  <1>3. logs'[f] = Append(logs[f], e)
    BY <1>1
  <1>4. Stored'
    BY <1>2 DEF UsageInv, StoreInv, Stored
  <1>5. ASSUME NEW g \in Logs, NEW x \in Lines(g)' PROVE x \in Lines(g) \/ (g = f /\ x = e)
    <2>1. CASE g # f
      BY <1>2, <1>5, <2>1 DEF Lines
    <2>2. CASE g = f
      <3>1. PICK i \in DOMAIN logs'[f] : x = logs'[f][i]
        BY <1>5, <2>2 DEF Lines
      <3>2. i \in DOMAIN logs[f] \/ i = Len(logs[f]) + 1
        BY <1>1, <1>3, <3>1, Appended
      <3>3. CASE i \in DOMAIN logs[f]
        BY <1>1, <1>3, <2>2, <3>1, <3>3, Appended DEF Lines
      <3>4. CASE i = Len(logs[f]) + 1
        BY <1>1, <1>3, <2>2, <3>1, <3>4, Appended
      <3> QED BY <3>2, <3>3, <3>4
    <2> QED BY <2>1, <2>2
  <1>6. Filed'
    <2> SUFFICES ASSUME NEW g \in Logs, NEW x \in Lines(g)', x # Torn
                 PROVE  /\ x \in Events
                        /\ FiledRight(g, x)
                        /\ x.workspace_id \in descriptors'
      BY DEF Filed
    <2>1. CASE x \in Lines(g)
      BY <2>1 DEF UsageInv, StoreInv, Filed
    <2>2. CASE g = f /\ x = e
      BY <2>2 DEF Entries
    <2> QED BY <1>5, <2>1, <2>2
  <1>7. TornLast'
    <2> SUFFICES ASSUME NEW g \in Logs, NEW i \in DOMAIN logs'[g], logs'[g][i] = Torn
                 PROVE  i = Len(logs'[g])
      BY DEF TornLast
    <2>1. CASE g # f
      BY <1>2, <2>1 DEF UsageInv, StoreInv, TornLast
    <2>2. CASE g = f
      <3>1. i \in DOMAIN logs[f] => logs'[f][i] # Torn
        BY <1>1, <1>3, Appended DEF Lines
      <3>2. i = Len(logs[f]) + 1
        BY <1>1, <1>3, <2>2, <3>1, Appended
      <3> QED BY <1>1, <1>3, <2>2, <3>2, Appended
    <2> QED BY <2>1, <2>2
  <1> QED BY <1>4, <1>6, <1>7 DEF StoreInv

\* A log that is locked by nobody is not being compacted.
LEMMA Unlocked ==
    ASSUME NEW f, ~Locked(f), NEW q \in Processes, At(q, "replace")
    PROVE  op[q].log # f
  BY DEF Locked

-----------------------------------------------------------------------------
(* The commands. *)

\* What common_event makes is an event.
LEMMA AnEvent ==
    ASSUME NEW operation \in Operations, NEW ws \in Workspaces, NEW r \in Runs \cup {None},
           NEW day \in Days
    PROVE  /\ Event(operation, ws, r, day) \in Events /\ Event(operation, ws, r, day) # Torn
           /\ Event(operation, ws, r, day) \in Entries
           /\ Event(operation, ws, r, day).operation = operation
           /\ Event(operation, ws, r, day).workspace_id = ws
           /\ Event(operation, ws, r, day).run = r /\ Event(operation, ws, r, day).at = day
  <1>1. Event(operation, ws, r, day) \in Events
    BY DEF Event, Events
  <1> QED BY <1>1, TornApart DEF Event, Entries

\* An empty log holds no line, and a run's log is compacted by nobody.
LEMMA RunLogs ==
    ASSUME UsageInv, NEW r \in Runs, NEW q \in Processes, At(q, "replace")
    PROVE  op[q].log # r
  BY Disjoint DEF UsageInv, CommandInv, Holding

\* A run that starts has both artifacts whole and its event first.
LEMMA StartRunKeeps ==
    ASSUME UsageInv, NEW p \in Processes, NEW ws \in Workspaces, NEW r \in Runs, StartRun(p, ws, r)
    PROVE  UsageInv'
  <1> DEFINE e == Event("compound.start", ws, r, clock)
  <1>0. "compound.start" \in Operations /\ r \in Runs \cup {None} /\ r \in Logs /\ clock \in Days
    BY Before, DaysAreLogs DEF Operations
  <1>1. /\ e \in Entries /\ e # Torn /\ e.workspace_id = ws /\ e.run = r
    BY <1>0, AnEvent
  <1> HIDE DEF e
  <1>2. logs[r] = <<>> /\ logs' = [logs EXCEPT ![r] = <<e>>] /\ <<e>> = Append(<<>>, e)
    BY DEF StartRun, e
  <1>3. logs' = [logs EXCEPT ![r] = Append(@, e)] /\ \A f \in Logs \ {r} : logs'[f] = logs[f]
    BY <1>0, <1>2 DEF UsageInv, StoreInv, Stored
  <1>4. Torn \notin Lines(r)
    BY <1>2 DEF Lines
  <1>5. files' \in [Runs -> [Pieces -> States]]
    <2>1. [piece \in Pieces |-> "whole"] \in [Pieces -> States]
      BY DEF States
    <2> QED BY <2>1 DEF StartRun, UsageInv, StoreInv, Stored
  <1>6. descriptors \subseteq descriptors' /\ descriptors' \subseteq Workspaces /\ ws \in descriptors'
    BY DEF StartRun, Describe, UsageInv, StoreInv, Stored
  <1>7. UNCHANGED <<clock, tombstones, litter, markers, op, export>>
    BY DEF StartRun
  <1>8. StoreInv'
    <2>1. FiledRight(r, e)
      BY <1>1 DEF FiledRight
    <2> QED BY <1>0, <1>1, <1>3, <1>4, <1>5, <1>6, <1>7, <2>1, LineAdded
  <1>9. \A q \in Processes : At(q, "replace") => logs'[op[q].log] = logs[op[q].log]
    BY <1>3, RunLogs, DaysAreLogs DEF UsageInv, CommandInv, Holding
  <1>10. Holding(p)'
    BY <1>6, <1>7, <1>9, Before, Bystander
  <1>11. Maintaining(p)' => Maintaining(p)
    BY <1>7 DEF Maintaining
  <1> QED BY <1>6, <1>7, <1>8, <1>9, <1>10, <1>11, Before, StoreStep

\* A finish appends its event to the file of its run.
LEMMA FinishKeeps ==
    ASSUME UsageInv, NEW p \in Processes, NEW ws \in Workspaces, NEW r \in Runs,
           NEW operation \in {"compound.finish", "compound.retain"}, Finish(p, ws, r, operation)
    PROVE  UsageInv'
  <1> DEFINE e == Event(operation, ws, r, clock)
  <1>0. operation \in Operations /\ r \in Runs \cup {None} /\ r \in Logs /\ clock \in Days
    BY Before, DaysAreLogs DEF Operations
  <1>1. /\ e \in Entries /\ e # Torn /\ e.workspace_id = ws /\ e.run = r
    BY <1>0, AnEvent
  <1> HIDE DEF e
  <1>2. logs' = [logs EXCEPT ![r] = Append(@, e)]
    BY DEF Finish, e
  <1>3. \A f \in Logs \ {r} : logs'[f] = logs[f]
    BY <1>0, <1>2 DEF UsageInv, StoreInv, Stored
  <1>4. Torn \notin Lines(r)
    BY DEF Finish, Recorded
  <1>5. UNCHANGED <<clock, files, tombstones, litter, descriptors, markers, export>>
    BY DEF Finish
  <1>6. ws \in descriptors' /\ descriptors' \subseteq Workspaces
    <2>1. PICK x \in Lines(r) : x.operation = "compound.start" /\ x.workspace_id = ws
      BY DEF Finish, Recorded
    <2> QED BY <1>0, <1>4, <1>5, <2>1 DEF UsageInv, StoreInv, Stored, Filed
  <1>7. files' \in [Runs -> [Pieces -> States]]
    BY <1>5 DEF UsageInv, StoreInv, Stored
  <1>8. StoreInv'
    <2>1. FiledRight(r, e)
      BY <1>1 DEF FiledRight
    <2> QED BY <1>0, <1>1, <1>2, <1>4, <1>5, <1>6, <1>7, <2>1, LineAdded
  <1>9. \A q \in Processes : At(q, "replace") => logs'[op[q].log] = logs[op[q].log]
    BY <1>3, RunLogs, DaysAreLogs DEF UsageInv, CommandInv, Holding
  <1>10. op' = [op EXCEPT ![p] = [Idle EXCEPT !.stage = "maintain", !.workspace_id = ws]]
    BY DEF Finish
  <1>11. /\ op' \in [Processes -> Commands] /\ \A q \in Processes \ {p} : op'[q] = op[q]
         /\ Holding(p)' /\ ~Maintaining(p)'
    BY <1>5, <1>6, <1>10, Receipted
  <1> QED BY <1>5, <1>8, <1>9, <1>11, StoreStep

\* A command takes the event of its receipt and describes its workspace first.
LEMMA CommandKeeps ==
    ASSUME UsageInv, NEW p \in Processes, NEW operation \in {"search", "validate"},
           NEW ws \in Workspaces, NEW r \in Runs \cup {None}, Command(p, operation, ws, r)
    PROVE  UsageInv'
  <1>1. PICK o : o = [Idle EXCEPT !.stage = "append", !.operation = operation,
                                  !.workspace_id = ws, !.run = r, !.at = clock]
    OBVIOUS
  <1>2. clock \in Days /\ 0 <= clock
    BY Before DEF Days
  <1>3. /\ o \in Commands /\ o.stage = "append" /\ o.workspace_id = ws /\ o.instant = 0
        /\ o.expired = {} /\ o.operation = operation /\ o.run = r
    BY <1>1, <1>2, IdleCommand DEF Commands, Stages, Operations
  <1>4. /\ op' \in [Processes -> Commands] /\ op'[p] = o /\ \A q \in Processes \ {p} : op'[q] = op[q]
    BY <1>1, <1>3, Becomes DEF Command
  <1>5. /\ UNCHANGED <<clock, logs, files, tombstones, litter, markers, export>>
        /\ descriptors' = descriptors \cup {ws}
    BY DEF Command, Describe
  <1>6. Stored' /\ descriptors \subseteq descriptors'
    BY <1>5 DEF UsageInv, StoreInv, Stored
  <1>7. Filed' /\ TornLast'
    BY <1>5 DEF UsageInv, StoreInv, Filed, TornLast, Lines
  <1>8. Holding(p)' /\ ~Maintaining(p)'
    BY <1>2, <1>3, <1>4, <1>5 DEF Holding, At, Maintaining
  <1> QED BY <1>4, <1>5, <1>6, <1>7, <1>8, StoreStep DEF StoreInv

\* A receipt that is ready to be appended.
LEMMA Ready ==
    ASSUME UsageInv, NEW p \in Processes, At(p, "append")
    PROVE  /\ op[p].workspace_id \in Workspaces /\ op[p].workspace_id \in descriptors
           /\ op[p].run \in Runs \cup {None} /\ op[p].at \in Days /\ op[p].operation \in Operations
           /\ op[p].operation \in {"search", "validate"}
           /\ Target(p) \in Logs
           /\ Target(p) \in Runs => op[p].run = Target(p)
           /\ Target(p) \notin Runs =>
                 op[p].at = Target(p) /\ (op[p].operation = "validate" => op[p].run = None)
  <1>1. /\ op[p] \in Commands /\ Holding(p) /\ descriptors \subseteq Workspaces
    BY Before DEF UsageInv, StoreInv, Stored
  <1>2. /\ op[p].workspace_id \in descriptors /\ op[p].operation \in {"search", "validate"}
    BY <1>1 DEF Holding, At
  <1>3. op[p].run \in Runs \cup {None} /\ op[p].at \in Days /\ op[p].operation \in Operations
    BY <1>1 DEF Commands
  <1>4. CASE op[p].operation = "validate" /\ op[p].run # None
    BY <1>1, <1>2, <1>3, <1>4, DaysAreLogs DEF Target
  <1>5. CASE ~(op[p].operation = "validate" /\ op[p].run # None)
    BY <1>1, <1>2, <1>3, <1>5, DaysAreLogs, Disjoint DEF Target
  <1> QED BY <1>4, <1>5

\* A receipt is appended only behind a complete line.
LEMMA AppendReceiptKeeps ==
    ASSUME UsageInv, NEW p \in Processes, AppendReceipt(p)
    PROVE  UsageInv'
  <1> DEFINE e == Event(op[p].operation, op[p].workspace_id, op[p].run, op[p].at)
  <1>1. /\ At(p, "append") /\ ~Locked(Target(p)) /\ Torn \notin Lines(Target(p))
        /\ logs' = [logs EXCEPT ![Target(p)] = Append(@, e)]
        /\ op' = [op EXCEPT ![p] = [Idle EXCEPT !.stage = "maintain",
                                                !.workspace_id = op[p].workspace_id]]
        /\ UNCHANGED <<clock, files, tombstones, litter, descriptors, markers, export>>
    BY DEF AppendReceipt, Extensible
  <1>2. /\ e \in Entries /\ e # Torn /\ e.workspace_id = op[p].workspace_id
        /\ e.operation = op[p].operation /\ e.run = op[p].run /\ e.at = op[p].at
    <2>1. /\ op[p].operation \in Operations /\ op[p].workspace_id \in Workspaces
          /\ op[p].run \in Runs \cup {None} /\ op[p].at \in Days
      BY <1>1, Ready
    <2> QED BY <2>1, AnEvent
  <1> HIDE DEF e
  <1>3. files' \in [Runs -> [Pieces -> States]] /\ descriptors' \subseteq Workspaces
    BY <1>1 DEF UsageInv, StoreInv, Stored
  <1>4. FiledRight(Target(p), e)
    BY <1>1, <1>2, Ready DEF FiledRight
  <1>5. Target(p) \in Logs /\ e.workspace_id \in descriptors'
    BY <1>1, <1>2, Ready
  <1>6. StoreInv'
    BY <1>1, <1>2, <1>3, <1>4, <1>5, LineAdded
  <1>7. \A q \in Processes : At(q, "replace") => logs'[op[q].log] = logs[op[q].log]
    <2>1. \A f \in Logs \ {Target(p)} : logs'[f] = logs[f]
      BY <1>1, <1>5 DEF UsageInv, StoreInv, Stored
    <2> QED BY <1>1, <2>1, Unlocked, DaysAreLogs DEF UsageInv, CommandInv, Holding
  <1>8. /\ op' \in [Processes -> Commands] /\ \A q \in Processes \ {p} : op'[q] = op[q]
        /\ Holding(p)' /\ ~Maintaining(p)'
    BY <1>1, Ready, Receipted
  <1> QED BY <1>1, <1>6, <1>7, <1>8, StoreStep

\* A refused receipt changes no file.
LEMMA RefuseReceiptKeeps ==
    ASSUME UsageInv, NEW p \in Processes, RefuseReceipt(p)
    PROVE  UsageInv'
  BY Ends, QuietStep DEF RefuseReceipt, store

\* A cut write leaves a torn line at the end.
LEMMA TearReceiptKeeps ==
    ASSUME UsageInv, NEW p \in Processes, TearReceipt(p)
    PROVE  UsageInv'
  <1>1. /\ At(p, "append") /\ ~Locked(Target(p)) /\ Torn \notin Lines(Target(p))
        /\ logs' = [logs EXCEPT ![Target(p)] = Append(@, Torn)] /\ End(p)
        /\ UNCHANGED <<clock, files, tombstones, litter, descriptors, markers, export>>
    BY DEF TearReceipt, Extensible
  <1>2. Torn \in Entries
    BY DEF Entries
  <1>3. files' \in [Runs -> [Pieces -> States]] /\ descriptors' \subseteq Workspaces
    BY <1>1 DEF UsageInv, StoreInv, Stored
  <1>4. Target(p) \in Logs
    BY <1>1, Ready
  <1>5. StoreInv'
    BY <1>1, <1>2, <1>3, <1>4, LineAdded
  <1>6. \A q \in Processes : At(q, "replace") => logs'[op[q].log] = logs[op[q].log]
    <2>1. \A f \in Logs \ {Target(p)} : logs'[f] = logs[f]
      BY <1>1, <1>4 DEF UsageInv, StoreInv, Stored
    <2> QED BY <1>1, <2>1, Unlocked, DaysAreLogs DEF UsageInv, CommandInv, Holding
  <1> QED BY <1>1, <1>5, <1>6, Ends, StoreStep

\* A command that is killed leaves at most a temporary file.
LEMMA KillKeeps ==
    ASSUME UsageInv, NEW p \in Processes, Kill(p)
    PROVE  UsageInv'
  <1>1. /\ End(p) /\ UNCHANGED <<clock, logs, files, tombstones, descriptors, markers, export>>
        /\ litter' \in {litter, litter \cup LeftBehind(p)} /\ Maintaining(p)
    BY DEF Kill
  <1>2. LeftBehind(p) \subseteq Runs
    BY Before DEF LeftBehind, Holding, At
  <1>3. Stored'
    BY <1>1, <1>2 DEF UsageInv, StoreInv, Stored
  <1>4. Filed' /\ TornLast'
    BY <1>1 DEF UsageInv, StoreInv, Filed, TornLast, Lines
  <1> QED BY <1>1, <1>3, <1>4, Ends, StoreStep DEF StoreInv

-----------------------------------------------------------------------------
(* Maintenance. *)

\* A log is replaced by some of its lines.
LEMMA LogShrinks ==
    ASSUME UsageInv, NEW f \in Logs, NEW s \in Seq(Entries), logs' = [logs EXCEPT ![f] = s],
           \A i \in DOMAIN s : s[i] \in Lines(f) \ {Torn},
           UNCHANGED <<clock, files, tombstones, litter, descriptors, markers>>
    PROVE  StoreInv' /\ \A g \in Logs \ {f} : logs'[g] = logs[g]
  <1>1. /\ logs' \in [Logs -> Seq(Entries)] /\ logs'[f] = s
        /\ \A g \in Logs \ {f} : logs'[g] = logs[g]
    BY DEF UsageInv, StoreInv, Stored
  <1>2. Stored'
    BY <1>1 DEF UsageInv, StoreInv, Stored
  <1>3. \A g \in Logs : Lines(g)' \subseteq Lines(g)
    BY <1>1 DEF Lines
  <1>4. Filed'
    BY <1>3 DEF UsageInv, StoreInv, Filed
  <1>5. TornLast'
    BY <1>1 DEF UsageInv, StoreInv, TornLast
  <1> QED BY <1>1, <1>2, <1>4, <1>5 DEF StoreInv

\* The instant of maintenance is read before the lock is taken.
LEMMA StampKeeps ==
    ASSUME UsageInv, NEW p \in Processes, Stamp(p)
    PROVE  UsageInv'
  <1>1. PICK o : o = [op[p] EXCEPT !.stage = "wait", !.instant = clock]
    OBVIOUS
  <1>2. op[p] \in Commands /\ Holding(p) /\ clock \in Days
    BY Before
  <1>3. /\ o \in Commands /\ o.stage = "wait" /\ o.instant = clock
        /\ o.expired = op[p].expired /\ o.workspace_id = op[p].workspace_id
    BY <1>1, <1>2 DEF Commands, Stages
  <1>4. op' = [op EXCEPT ![p] = o] /\ At(p, "maintain") /\ UNCHANGED <<clock, store, export>>
    BY <1>1, Before DEF Stamp
  <1>5. /\ op' \in [Processes -> Commands] /\ op'[p] = o /\ \A q \in Processes \ {p} : op'[q] = op[q]
    BY <1>3, <1>4, Becomes
  <1>6. clock <= clock
    BY <1>2 DEF Days
  <1>7. Holding(p)' /\ ~Maintaining(p)'
    BY <1>2, <1>3, <1>4, <1>5, <1>6 DEF Holding, At, Maintaining, store
  <1> QED BY <1>4, <1>5, <1>7, QuietStep

\* A day that has its marker is not maintained again.
LEMMA AlreadyAppliedKeeps ==
    ASSUME UsageInv, NEW p \in Processes, AlreadyApplied(p)
    PROVE  UsageInv'
  BY Ends, QuietStep DEF AlreadyApplied, store

\* Maintenance begins under its lock: there is one maintainer.
LEMMA BeginRetentionKeeps ==
    ASSUME UsageInv, NEW p \in Processes, BeginRetention(p)
    PROVE  UsageInv'
  <1>1. PICK o : o = [op[p] EXCEPT !.stage = "retain", !.todo = {f \in Logs : logs[f] # <<>>}]
    OBVIOUS
  <1>2. op[p] \in Commands /\ Holding(p)
    BY Before
  <1>3. /\ o \in Commands /\ o.stage = "retain" /\ o.instant = op[p].instant
        /\ o.expired = op[p].expired /\ o.workspace_id = op[p].workspace_id
    BY <1>1, <1>2 DEF Commands, Stages
  <1>4. /\ op' = [op EXCEPT ![p] = o] /\ At(p, "wait") /\ UNCHANGED <<clock, store, export>>
        /\ \A q \in Processes : ~Maintaining(q)
    BY <1>1, Before DEF BeginRetention
  <1>5. /\ op' \in [Processes -> Commands] /\ op'[p] = o /\ \A q \in Processes \ {p} : op'[q] = op[q]
    BY <1>3, <1>4, Becomes
  <1>6. Holding(p)'
    BY <1>2, <1>3, <1>4, <1>5 DEF Holding, At, store
  <1> QED BY <1>4, <1>5, <1>6, QuietStep

\* The expiry of a run begins with nothing removed.
LEMMA BeginExpiryKeeps ==
    ASSUME UsageInv, NEW p \in Processes, NEW r \in Runs, BeginExpiry(p, r)
    PROVE  UsageInv'
  <1>1. PICK o : o = IF Expirable(p, r)
                     THEN [op[p] EXCEPT !.stage = "tombstone", !.run = r, !.seen = files[r]]
                     ELSE [op[p] EXCEPT !.todo = @ \ {r}]
    OBVIOUS
  <1>2. op[p] \in Commands /\ Holding(p) /\ files[r] \in [Pieces -> States]
    BY Before DEF UsageInv, StoreInv, Stored
  <1>3. At(p, "retain") /\ UNCHANGED <<clock, store, export>>
    BY DEF BeginExpiry
  <1>4. /\ o \in Commands /\ o.instant = op[p].instant
        /\ o.expired = op[p].expired /\ o.workspace_id = op[p].workspace_id
        /\ o.stage = "retain" \/ (o.stage = "tombstone" /\ o.run = r)
    <2>1. CASE Expirable(p, r)
      BY <1>1, <1>2, <2>1 DEF Commands, Stages
    <2>2. CASE ~Expirable(p, r)
      BY <1>1, <1>2, <1>3, <2>2 DEF Commands, At
    <2> QED BY <2>1, <2>2
  <1>5. op' = [op EXCEPT ![p] = o]
    <2>1. CASE Expirable(p, r)
      BY <1>1, <2>1, Before DEF BeginExpiry
    <2>2. CASE ~Expirable(p, r)
      BY <1>1, <2>2, Before DEF BeginExpiry
    <2> QED BY <2>1, <2>2
  <1>6. /\ op' \in [Processes -> Commands] /\ op'[p] = o /\ \A q \in Processes \ {p} : op'[q] = op[q]
    BY <1>4, <1>5, Becomes
  <1>7. Holding(p)' /\ Maintaining(p)
    BY <1>2, <1>3, <1>4, <1>6 DEF Holding, At, store, Maintaining
  <1> QED BY <1>3, <1>6, <1>7, QuietStep

\* The tombstone is there before the first file is removed.
LEMMA WriteTombstoneKeeps ==
    ASSUME UsageInv, NEW p \in Processes, WriteTombstone(p)
    PROVE  UsageInv'
  <1>1. PICK o : o = [op[p] EXCEPT !.stage = "unlink"]
    OBVIOUS
  <1>2. op[p] \in Commands /\ Holding(p)
    BY Before
  <1>3. /\ o \in Commands /\ o.stage = "unlink" /\ o.instant = op[p].instant /\ o.run = op[p].run
        /\ o.expired = op[p].expired /\ o.workspace_id = op[p].workspace_id
    BY <1>1, <1>2 DEF Commands, Stages
  <1>4. /\ op' = [op EXCEPT ![p] = o] /\ At(p, "tombstone")
        /\ UNCHANGED <<clock, logs, files, litter, descriptors, markers, export>>
        /\ tombstones' = tombstones \cup {op[p].run}
    BY <1>1, Before DEF WriteTombstone, Goto
  <1>5. /\ op' \in [Processes -> Commands] /\ op'[p] = o /\ \A q \in Processes \ {p} : op'[q] = op[q]
    BY <1>3, <1>4, Becomes
  <1>6. Holding(p)' /\ Maintaining(p) /\ op[p].run \in Runs
    BY <1>2, <1>3, <1>4, <1>5 DEF Holding, At, Maintaining
  <1>7. Stored'
    BY <1>4, <1>6 DEF UsageInv, StoreInv, Stored
  <1>8. Filed' /\ TornLast'
    BY <1>4 DEF UsageInv, StoreInv, Filed, TornLast, Lines
  <1>9. tombstones \subseteq tombstones' /\ descriptors \subseteq descriptors'
    BY <1>4
  <1> QED BY <1>4, <1>5, <1>6, <1>7, <1>8, <1>9, StoreStep DEF StoreInv

\* A maintenance that is done with a run goes on to the next log.
LEMMA GoesOn ==
    ASSUME UsageInv, NEW p \in Processes, NEW expired \in SUBSET Runs, expired \subseteq tombstones,
           At(p, "unlink"), NextLog(p, expired), UNCHANGED <<clock, tombstones, descriptors>>
    PROVE  /\ op' \in [Processes -> Commands] /\ \A q \in Processes \ {p} : op'[q] = op[q]
           /\ Holding(p)' /\ Maintaining(p)
  <1>1. PICK o : o = [op[p] EXCEPT !.stage = "retain", !.todo = @ \ {op[p].run}, !.run = None,
                                   !.expired = expired, !.seen = Idle.seen]
    OBVIOUS
  <1>2. op[p] \in Commands /\ Holding(p) /\ Idle.seen \in [Pieces -> States]
    BY Before, IdleCommand DEF Commands
  <1>3. /\ o \in Commands /\ o.stage = "retain" /\ o.instant = op[p].instant
        /\ o.expired = expired /\ o.workspace_id = op[p].workspace_id
    BY <1>1, <1>2 DEF Commands, Stages
  <1>4. op' = [op EXCEPT ![p] = o]
    BY <1>1, Before DEF NextLog
  <1>5. /\ op' \in [Processes -> Commands] /\ op'[p] = o /\ \A q \in Processes \ {p} : op'[q] = op[q]
    BY <1>3, <1>4, Becomes
  <1> QED BY <1>2, <1>3, <1>5 DEF Holding, At, Maintaining

\* A maintenance that expires a run has its tombstone on record.
LEMMA OnRecord ==
    ASSUME UsageInv, NEW p \in Processes, At(p, "unlink")
    PROVE  /\ op[p].run \in Runs /\ op[p].run \in Logs /\ op[p].run \in tombstones
           /\ op[p].expired \cup {op[p].run} \in SUBSET Runs
           /\ op[p].expired \cup {op[p].run} \subseteq tombstones
           /\ Maintaining(p) /\ ~At(p, "replace")
  BY Before, DaysAreLogs DEF Holding, At, Commands, Maintaining

\* The events of a run go only behind its tombstone.
LEMMA UnlinkLogKeeps ==
    ASSUME UsageInv, NEW p \in Processes, UnlinkLog(p)
    PROVE  UsageInv'
  <1>1. /\ At(p, "unlink") /\ logs' = [logs EXCEPT ![op[p].run] = <<>>]
        /\ UNCHANGED <<clock, files, tombstones, litter, descriptors, markers, export>>
        /\ UNCHANGED op \/ NextLog(p, op[p].expired \cup {op[p].run})
    BY DEF UnlinkLog
  <1>2. <<>> \in Seq(Entries) /\ DOMAIN <<>> = {}
    OBVIOUS
  <1>3. StoreInv' /\ \A f \in Logs \ {op[p].run} : logs'[f] = logs[f]
    BY <1>1, <1>2, OnRecord, LogShrinks
  <1>4. \A q \in Processes : At(q, "replace") => logs'[op[q].log] = logs[op[q].log]
    BY <1>1, <1>3, OnRecord, RunLogs, DaysAreLogs DEF UsageInv, CommandInv, Holding
  <1>5. /\ op' \in [Processes -> Commands] /\ \A q \in Processes \ {p} : op'[q] = op[q]
        /\ Holding(p)' /\ Maintaining(p)
    <2>1. CASE UNCHANGED op
      BY <1>1, <1>4, <2>1, OnRecord, Bystander, Before
    <2>2. CASE NextLog(p, op[p].expired \cup {op[p].run})
      BY <1>1, <2>2, OnRecord, GoesOn
    <2> QED BY <1>1, <2>1, <2>2
  <1> QED BY <1>1, <1>3, <1>4, <1>5, StoreStep

\* An artifact goes only behind the tombstone of its run.
LEMMA UnlinkPieceKeeps ==
    ASSUME UsageInv, NEW p \in Processes, NEW piece \in Pieces, UnlinkPiece(p, piece)
    PROVE  UsageInv'
  <1>1. /\ At(p, "unlink") /\ files' = [files EXCEPT ![op[p].run][piece] = "missing"]
        /\ UNCHANGED <<clock, logs, tombstones, litter, descriptors, markers, export>>
        /\ UNCHANGED op \/ NextLog(p, op[p].expired \cup {op[p].run})
    BY DEF UnlinkPiece
  <1>2. Stored'
    <2>1. files' \in [Runs -> [Pieces -> States]]
      BY <1>1, OnRecord DEF UsageInv, StoreInv, Stored, States
    <2> QED BY <1>1, <2>1 DEF UsageInv, StoreInv, Stored
  <1>3. Filed' /\ TornLast'
    BY <1>1 DEF UsageInv, StoreInv, Filed, TornLast, Lines
  <1>4. /\ op' \in [Processes -> Commands] /\ \A q \in Processes \ {p} : op'[q] = op[q]
        /\ Holding(p)' /\ Maintaining(p)
    <2>1. CASE UNCHANGED op
      BY <1>1, <2>1, OnRecord, Bystander, Before
    <2>2. CASE NextLog(p, op[p].expired \cup {op[p].run})
      BY <1>1, <2>2, OnRecord, GoesOn
    <2> QED BY <1>1, <2>1, <2>2
  <1> QED BY <1>1, <1>2, <1>3, <1>4, StoreStep DEF StoreInv

\* An expiry that finds an artifact changed stops behind its tombstone.
LEMMA StopExpiryKeeps ==
    ASSUME UsageInv, NEW p \in Processes, NEW piece \in Pieces, StopExpiry(p, piece)
    PROVE  UsageInv'
  <1>1. /\ At(p, "unlink") /\ NextLog(p, op[p].expired) /\ UNCHANGED <<clock, store, export>>
    BY DEF StopExpiry
  <1>2. op[p].expired \in SUBSET Runs /\ op[p].expired \subseteq tombstones
    BY <1>1, OnRecord
  <1>3. /\ op' \in [Processes -> Commands] /\ \A q \in Processes \ {p} : op'[q] = op[q]
        /\ Holding(p)' /\ Maintaining(p)
    BY <1>1, <1>2, GoesOn DEF store
  <1> QED BY <1>1, <1>3, QuietStep

\* What a compaction keeps are lines of the file.
LEMMA KeptLines ==
    ASSUME UsageInv, NEW f \in Logs, NEW places \in SUBSET DOMAIN logs[f]
    PROVE  /\ Subsequence(logs[f], places) \in Seq(Entries)
           /\ \A i \in DOMAIN Subsequence(logs[f], places) :
                  Subsequence(logs[f], places)[i] \in Lines(f)
  <1>1. logs[f] \in Seq(Entries)
    BY DEF UsageInv, StoreInv, Stored
  <1>2. Subsequence(logs[f], places) \in Seq(Entries)
    BY <1>1, SubsequenceLists
  <1>3. \A k \in DOMAIN Subsequence(logs[f], places) :
            \E i \in places : Subsequence(logs[f], places)[k] = logs[f][i]
    BY <1>1, SubsequenceElements
  <1> QED BY <1>2, <1>3 DEF Lines

\* Compaction notes what it will keep of the receipts it reads under the lock of the file.
LEMMA ReadReceiptsKeeps ==
    ASSUME UsageInv, NEW p \in Processes, NEW day \in Days, ReadReceipts(p, day)
    PROVE  UsageInv'
  <1> DEFINE kept == Subsequence(logs[day], {i \in DOMAIN logs[day] : ~Retired(p, logs[day][i])})
  <1>1. /\ At(p, "retain") /\ UNCHANGED <<clock, store, export>>
        /\ \/ op' = [op EXCEPT ![p].todo = @ \ {day}]
           \/ /\ Torn \notin Lines(day)
              /\ op' = [op EXCEPT ![p].stage = "replace", ![p].log = day, ![p].kept = kept]
    BY DEF ReadReceipts
  <1>2. kept \in Seq(Entries) /\ day \in Logs
    BY KeptLines, DaysAreLogs
  <1>3. op[p] \in Commands /\ Holding(p) /\ Maintaining(p)
    BY <1>1, Before DEF At, Maintaining
  <1>4. CASE op' = [op EXCEPT ![p].todo = @ \ {day}]
    <2>1. PICK o : o = [op[p] EXCEPT !.todo = @ \ {day}]
      OBVIOUS
    <2>2. /\ o \in Commands /\ o.stage = "retain" /\ o.instant = op[p].instant
          /\ o.expired = op[p].expired /\ o.workspace_id = op[p].workspace_id
      BY <1>1, <1>3, <2>1 DEF Commands, At
    <2>3. op' = [op EXCEPT ![p] = o]
      BY <1>4, <2>1, Before
    <2>4. /\ op' \in [Processes -> Commands] /\ op'[p] = o /\ \A q \in Processes \ {p} : op'[q] = op[q]
      BY <2>2, <2>3, Becomes
    <2>5. Holding(p)'
      BY <1>1, <1>3, <2>2, <2>4 DEF Holding, At, store
    <2> QED BY <1>1, <1>3, <2>4, <2>5, QuietStep
  <1>5. ASSUME Torn \notin Lines(day),
               op' = [op EXCEPT ![p].stage = "replace", ![p].log = day, ![p].kept = kept]
        PROVE  UsageInv'
    <2>1. PICK o : o = [op[p] EXCEPT !.stage = "replace", !.log = day, !.kept = kept]
      OBVIOUS
    <2>2. /\ o \in Commands /\ o.stage = "replace" /\ o.instant = op[p].instant /\ o.log = day
          /\ o.expired = op[p].expired /\ o.workspace_id = op[p].workspace_id /\ o.kept = kept
      BY <1>2, <1>3, <2>1 DEF Commands, Stages
    <2>3. op' = [op EXCEPT ![p] = o]
      BY <1>5, <2>1, Before
    <2>4. /\ op' \in [Processes -> Commands] /\ op'[p] = o /\ \A q \in Processes \ {p} : op'[q] = op[q]
      BY <2>2, <2>3, Becomes
    <2>5. \A e : Retired(p, e)' <=> Retired(p, e)
      BY <2>2, <2>4 DEF Retired, Old
    <2>6. Compacted(p)' = kept
      BY <1>1, <2>2, <2>4, <2>5 DEF Compacted, store
    <2>7. (Torn \notin Lines(day))'
      BY <1>1, <1>5 DEF store, Lines
    <2>8. Holding(p)'
      BY <1>1, <1>3, <2>2, <2>4, <2>6, <2>7 DEF Holding, At, store, Maintaining
    <2> QED BY <1>1, <1>3, <2>4, <2>8, QuietStep
  <1> QED BY <1>1, <1>4, <1>5

\* A compaction that comes to its end writes lines of the file.
LEMMA Replaces ==
    ASSUME UsageInv, NEW p \in Processes, At(p, "replace")
    PROVE  /\ op[p].log \in Days /\ op[p].log \in Logs /\ Torn \notin Lines(op[p].log)
           /\ op[p].kept = Compacted(p) /\ op[p].kept \in Seq(Entries)
           /\ \A i \in DOMAIN op[p].kept : op[p].kept[i] \in Lines(op[p].log) \ {Torn}
           /\ Maintaining(p)
  <1>1. /\ op[p].log \in Days /\ op[p].log \in Logs /\ Torn \notin Lines(op[p].log)
        /\ op[p].kept = Compacted(p)
    BY Before, DaysAreLogs DEF Holding
  <1>2. PICK places \in SUBSET DOMAIN logs[op[p].log] :
            op[p].kept = Subsequence(logs[op[p].log], places)
    BY <1>1 DEF Compacted
  <1> QED BY <1>1, <1>2, KeptLines DEF Maintaining, At

\* Compaction leaves a part of the lines of the file, in their order.
LEMMA ReplaceReceiptsKeeps ==
    ASSUME UsageInv, NEW p \in Processes, ReplaceReceipts(p)
    PROVE  UsageInv'
  <1>1. PICK o : o = [op[p] EXCEPT !.stage = "retain", !.todo = @ \ {op[p].log},
                                   !.log = None, !.kept = <<>>]
    OBVIOUS
  <1>2. op[p] \in Commands /\ Holding(p) /\ <<>> \in Seq(Entries)
    BY Before
  <1>3. /\ o \in Commands /\ o.stage = "retain" /\ o.instant = op[p].instant
        /\ o.expired = op[p].expired /\ o.workspace_id = op[p].workspace_id
    BY <1>1, <1>2 DEF Commands, Stages
  <1>4. /\ op' = [op EXCEPT ![p] = o] /\ At(p, "replace")
        /\ logs' = [logs EXCEPT ![op[p].log] = op[p].kept]
        /\ UNCHANGED <<clock, files, tombstones, litter, descriptors, markers, export>>
    BY <1>1, Before DEF ReplaceReceipts
  <1>5. /\ op' \in [Processes -> Commands] /\ op'[p] = o /\ \A q \in Processes \ {p} : op'[q] = op[q]
    BY <1>3, <1>4, Becomes
  <1>6. Holding(p)' /\ Maintaining(p)
    BY <1>2, <1>3, <1>4, <1>5, Replaces DEF Holding, At
  <1>7. StoreInv'
    BY <1>4, Replaces, LogShrinks
  <1>8. \A q \in Processes \ {p} : ~At(q, "replace")
    BY <1>6 DEF UsageInv, CommandInv, OneMaintainer, Maintaining, At
  <1> QED BY <1>4, <1>5, <1>6, <1>7, <1>8, StoreStep

\* The marker is written last, and the lock of maintenance is free again.
LEMMA MarkKeeps ==
    ASSUME UsageInv, NEW p \in Processes, Mark(p)
    PROVE  UsageInv'
  <1>1. /\ At(p, "retain") /\ markers' = markers \cup {<<op[p].instant, op[p].workspace_id>>}
        /\ End(p) /\ UNCHANGED <<clock, logs, files, tombstones, litter, descriptors, export>>
    BY DEF Mark
  <1>2. op[p].instant \in Days /\ op[p].workspace_id \in descriptors
    BY <1>1, Before DEF Holding, At
  <1>3. Stored'
    BY <1>1, <1>2 DEF UsageInv, StoreInv, Stored
  <1>4. Filed' /\ TornLast'
    BY <1>1 DEF UsageInv, StoreInv, Filed, TornLast, Lines
  <1> QED BY <1>1, <1>3, <1>4, Ends, StoreStep DEF StoreInv

-----------------------------------------------------------------------------
(* The export. *)

\* The export takes a step of its own.
LEMMA ExportStep ==
    ASSUME UsageInv, NEW x, Exporting(x), export' = x, UNCHANGED <<clock, store, op>>
    PROVE  UsageInv'
  <1>1. Exporting(x)'
    BY ExportStays DEF store
  <1>2. Exporting(export)'
    BY <1>1 DEF Exporting
  <1>3. Stored' /\ Filed' /\ TornLast'
    BY DEF UsageInv, StoreInv, Stored, Filed, TornLast, Lines, store
  <1>4. ASSUME NEW q \in Processes PROVE Holding(q)'
    BY Before, Bystander DEF store
  <1>5. op' \in [Processes -> Commands] /\ OneMaintainer'
    BY DEF UsageInv, CommandInv, OneMaintainer, Maintaining
  <1> QED BY <1>2, <1>3, <1>4, <1>5 DEF UsageInv, StoreInv, CommandInv

\* What an export selects depends only on what it read, for whom and since when.
LEMMA SameSelection ==
    ASSUME NEW x, NEW y, y.read = x.read, y.workspace_id = x.workspace_id, y.since = x.since
    PROVE  /\ SelectedRuns(y) = SelectedRuns(x) /\ Evidence(y) = Evidence(x)
           /\ \A r : Started(y, r) <=> Started(x, r)
  <1>1. Own(y) = Own(x)
    BY DEF Own
  <1>2. SelectedRuns(y) = SelectedRuns(x)
    BY <1>1 DEF SelectedRuns
  <1>3. Evidence(y) = Evidence(x)
    BY <1>1, <1>2 DEF Evidence
  <1> QED BY <1>2, <1>3 DEF Started

\* What an export selects are runs, by events that it has read.
LEMMA SelectedAreRuns ==
    ASSUME NEW x \in Exports
    PROVE  /\ SelectedRuns(x) \subseteq Runs
           /\ \A e \in Evidence(x) : \E f \in Logs : e \in x.read[f]
           /\ \A e \in Evidence(x) : e \in Events
  <1>1. \A f \in Logs : x.read[f] \subseteq Events
    BY DEF Exports
  <1>2. \A e \in Own(x) : (\E f \in Logs : e \in x.read[f]) /\ e \in Events
    BY <1>1 DEF Own
  <1>3. \A e \in Own(x) : e.run \in Runs \cup {None}
    BY <1>2 DEF Events
  <1>4. SelectedRuns(x) \subseteq Runs
    BY <1>3 DEF SelectedRuns
  <1> QED BY <1>2, <1>4 DEF Evidence

\* Whatever it turns to next, an export with no artifact in hand is in order: when it
\* turns to the artifacts, every run that it names is still to be done.
LEMMA Proceeds ==
    ASSUME NEW x \in Exports, x.pieces = {},
           \A f \in Logs : \A e \in x.read[f] : e.workspace_id \in descriptors
    PROVE  Exporting(Proceed(x))
  <1>1. PICK y : y = Proceed(x)
    OBVIOUS
  <1>2. CASE x.todo # {}
    <2>1. y = [x EXCEPT !.stage = "tomb"]
      BY <1>1, <1>2 DEF Proceed
    <2>2. y \in Exports /\ y.stage = "tomb" /\ y.pieces = {} /\ y.read = x.read
      BY <2>1 DEF Exports, ExportStages
    <2> QED BY <1>1, <2>2 DEF Exporting
  <1>3. CASE x.todo = {} /\ x.listed # {}
    <2>1. y = [x EXCEPT !.stage = "read"]
      BY <1>1, <1>3 DEF Proceed
    <2>2. y \in Exports /\ y.stage = "read" /\ y.pieces = {} /\ y.read = x.read
      BY <2>1 DEF Exports, ExportStages
    <2> QED BY <1>1, <2>2 DEF Exporting
  <1>4. CASE x.todo = {} /\ x.listed = {}
    <2>1. y = [x EXCEPT !.stage = "copy", !.todo = SelectedRuns(x)]
      BY <1>1, <1>4 DEF Proceed
    <2>2. SelectedRuns(x) \subseteq Runs
      BY SelectedAreRuns
    <2>3. /\ y \in Exports /\ y.stage = "copy" /\ y.pieces = {} /\ y.read = x.read
          /\ y.workspace_id = x.workspace_id /\ y.since = x.since /\ y.todo = SelectedRuns(x)
      BY <2>1, <2>2 DEF Exports, ExportStages
    <2>4. SelectedRuns(y) \ y.todo = {}
      BY <2>3, SameSelection
    <2> QED BY <1>1, <2>3, <2>4 DEF Exporting
  <1> QED BY <1>2, <1>3, <1>4

\* A diagnostic is added to an export, and nothing else.
LEMMA Reported ==
    ASSUME NEW x \in Exports, NEW items \in SUBSET (Logs \cup Workspaces)
    PROVE  LET y == Report(x, items) IN
           /\ y \in Exports /\ y = [x EXCEPT !.diagnostics = y.diagnostics]
           /\ y.diagnostics = x.diagnostics \cup items
           /\ y.stage = x.stage /\ y.workspace_id = x.workspace_id /\ y.since = x.since
           /\ y.todo = x.todo /\ y.run = x.run /\ y.listed = x.listed /\ y.read = x.read
           /\ y.pieces = x.pieces /\ y.bundle = x.bundle /\ y.described = x.described
  BY DEF Report, Exports

\* What holds of the export before its step.
LEMMA BeforeExport ==
    ASSUME UsageInv
    PROVE  /\ export \in Exports /\ Exporting(export)
           /\ \A f \in Logs : \A e \in export.read[f] : e.workspace_id \in descriptors
           /\ export.stage # "copy" => export.pieces = {}
           /\ descriptors \subseteq Workspaces /\ tombstones \subseteq Runs
           /\ files \in [Runs -> [Pieces -> States]] /\ clock \in Days
  BY DEF UsageInv, Exporting, StoreInv, Stored

\* An export begins with nothing read.
LEMMA BeginExportKeeps ==
    ASSUME UsageInv, NEW ws \in Workspaces, NEW since \in 0..clock, BeginExport(ws, since)
    PROVE  UsageInv'
  <1>1. PICK x : x = [NoExport EXCEPT
                         !.stage = "runs", !.workspace_id = ws, !.since = since,
                         !.listed = {day \in Days : logs[day] # <<>>}]
    OBVIOUS
  <1>2. since \in Days
    BY BeforeExport, UsageAssumption DEF Days
  <1>3. NoExport \in Exports /\ NoExport.pieces = {} /\ \A f \in Logs : NoExport.read[f] = {}
    BY NoExporting DEF Exporting, NoExport
  <1>4. {day \in Days : logs[day] # <<>>} \subseteq Logs
    BY DaysAreLogs
  <1>5. x \in Exports /\ x.stage = "runs" /\ x.pieces = {} /\ \A f \in Logs : x.read[f] = {}
    BY <1>1, <1>2, <1>3, <1>4 DEF Exports, ExportStages
  <1>6. Exporting(x)
    BY <1>5 DEF Exporting
  <1>7. export' = x /\ UNCHANGED <<clock, store, op>>
    BY <1>1 DEF BeginExport
  <1> QED BY <1>6, <1>7, ExportStep

\* The runs that are listed are those that have a directory at that moment.
LEMMA ListRunsKeeps ==
    ASSUME UsageInv, ListRuns
    PROVE  UsageInv'
  <1>1. PICK x : x = [export EXCEPT !.todo = {r \in Runs : HasDirectory(r)}]
    OBVIOUS
  <1>2. /\ x \in Exports /\ x.pieces = export.pieces /\ x.read = export.read
    BY <1>1, BeforeExport DEF Exports
  <1>3. export' = Proceed(x) /\ export.stage = "runs" /\ UNCHANGED <<clock, store, op>>
    BY <1>1 DEF ListRuns
  <1>4. Exporting(Proceed(x))
    BY <1>2, <1>3, BeforeExport, Proceeds
  <1> QED BY <1>3, <1>4, ExportStep

\* A run with a tombstone is reported.
LEMMA LookForTombstoneKeeps ==
    ASSUME UsageInv, NEW r \in Runs, LookForTombstone(r)
    PROVE  UsageInv'
  <1>1. PICK y : y = Report(export, {r} \cap tombstones)
    OBVIOUS
  <1>2. {r} \cap tombstones \in SUBSET (Logs \cup Workspaces)
    BY DaysAreLogs
  <1>3. y \in Exports /\ y.read = export.read /\ y.pieces = export.pieces
    BY <1>1, <1>2, BeforeExport, Reported
  <1>4. PICK x : x = [y EXCEPT !.stage = "log", !.run = r, !.todo = @ \ {r}]
    OBVIOUS
  <1>5. export' = x /\ export.stage = "tomb" /\ UNCHANGED <<clock, store, op>>
    BY <1>1, <1>4 DEF LookForTombstone
  <1>6. x \in Exports /\ x.stage = "log" /\ x.run = r /\ x.read = export.read /\ x.pieces = {}
    BY <1>3, <1>4, <1>5, BeforeExport DEF Exports, ExportStages
  <1>7. Exporting(x)
    BY <1>6, BeforeExport DEF Exporting
  <1> QED BY <1>5, <1>7, ExportStep

\* A run with a file of events is listed to be read.
LEMMA LookForLogKeeps ==
    ASSUME UsageInv, LookForLog
    PROVE  UsageInv'
  <1>1. export.stage = "log" /\ export.run \in Runs /\ UNCHANGED <<clock, store, op>>
    BY BeforeExport DEF LookForLog, Exporting
  <1>2. CASE logs[export.run] # <<>>
    <2>1. PICK x : x = [export EXCEPT !.listed = @ \cup {export.run}, !.run = None]
      OBVIOUS
    <2>2. x \in Exports /\ x.pieces = export.pieces /\ x.read = export.read
      BY <1>1, <2>1, BeforeExport, DaysAreLogs DEF Exports
    <2>3. Exporting(Proceed(x))
      BY <1>1, <2>2, BeforeExport, Proceeds
    <2>4. export' = Proceed(x)
      BY <1>2, <2>1 DEF LookForLog
    <2> QED BY <1>1, <2>3, <2>4, ExportStep
  <1>3. CASE logs[export.run] = <<>>
    <2>1. PICK x : x = [export EXCEPT !.stage = "again"]
      OBVIOUS
    <2>2. /\ x \in Exports /\ x.stage = "again" /\ x.run = export.run /\ x.read = export.read
          /\ x.pieces = {}
      BY <1>1, <2>1, BeforeExport DEF Exports, ExportStages
    <2>3. Exporting(x)
      BY <1>1, <2>2, BeforeExport DEF Exporting
    <2>4. export' = x
      BY <1>3, <2>1 DEF LookForLog
    <2> QED BY <1>1, <2>3, <2>4, ExportStep
  <1> QED BY <1>2, <1>3

\* A run that has neither a file nor a tombstone at the last look is reported.
LEMMA LookAgainKeeps ==
    ASSUME UsageInv, LookAgain
    PROVE  UsageInv'
  <1>1. export.stage = "again" /\ export.run \in Runs /\ UNCHANGED <<clock, store, op>>
    BY BeforeExport DEF LookAgain, Exporting
  <1>2. PICK y : y = Report(export, {export.run} \ tombstones)
    OBVIOUS
  <1>3. {export.run} \ tombstones \in SUBSET (Logs \cup Workspaces)
    BY <1>1, DaysAreLogs
  <1>4. y \in Exports /\ y.read = export.read /\ y.pieces = export.pieces
    BY <1>2, <1>3, BeforeExport, Reported
  <1>5. PICK x : x = [y EXCEPT !.run = None]
    OBVIOUS
  <1>6. x \in Exports /\ x.pieces = export.pieces /\ x.read = export.read
    BY <1>4, <1>5 DEF Exports
  <1>7. Exporting(Proceed(x))
    BY <1>1, <1>6, BeforeExport, Proceeds
  <1>8. export' = Proceed(x)
    BY <1>2, <1>5 DEF LookAgain
  <1> QED BY <1>1, <1>7, <1>8, ExportStep

\* The events that are read have their workspaces described.
LEMMA ReadLogKeeps ==
    ASSUME UsageInv, NEW f \in Logs, ReadLog(f)
    PROVE  UsageInv'
  <1>1. PICK doubtful : doubtful = IF logs[f] = <<>> \/ Torn \in Lines(f) THEN {f} ELSE {}
    OBVIOUS
  <1>2. PICK y : y = Report(export, doubtful)
    OBVIOUS
  <1>3. doubtful \in SUBSET (Logs \cup Workspaces)
    BY <1>1
  <1>4. y \in Exports /\ y.read = export.read /\ y.pieces = export.pieces
    BY <1>2, <1>3, BeforeExport, Reported
  <1>5. PICK x : x = [y EXCEPT !.listed = @ \ {f}, !.read[f] = Lines(f) \ {Torn}]
    OBVIOUS
  <1>6. /\ Lines(f) \ {Torn} \subseteq Events
        /\ \A e \in Lines(f) \ {Torn} : e.workspace_id \in descriptors
    BY DEF UsageInv, StoreInv, Filed
  <1>7. /\ x \in Exports /\ x.pieces = export.pieces
        /\ \A g \in Logs : x.read[g] = IF g = f THEN Lines(f) \ {Torn} ELSE export.read[g]
    BY <1>4, <1>5, <1>6 DEF Exports
  <1>8. export.stage = "read" /\ UNCHANGED <<clock, store, op>>
    BY DEF ReadLog
  <1>9. Exporting(Proceed(x))
    BY <1>6, <1>7, <1>8, BeforeExport, Proceeds
  <1>10. export' = Proceed(x)
    BY <1>1, <1>2, <1>5 DEF ReadLog
  <1> QED BY <1>8, <1>9, <1>10, ExportStep

\* A run of the export has its start event among what was read, or is reported.
LEMMA OpenRunKeeps ==
    ASSUME UsageInv, NEW r \in Runs, OpenRun(r)
    PROVE  UsageInv'
  <1> DEFINE good == Attributable(export, r) /\ Started(export, r)
  <1>1. PICK doubtful : doubtful = IF good THEN {} ELSE {r}
    OBVIOUS
  <1>2. PICK y : y = Report(export, doubtful)
    OBVIOUS
  <1>3. doubtful \in SUBSET (Logs \cup Workspaces)
    BY <1>1, DaysAreLogs
  <1>4. /\ y \in Exports /\ y.read = export.read /\ y.workspace_id = export.workspace_id
        /\ y.since = export.since /\ y.stage = export.stage /\ y.todo = export.todo
        /\ y.bundle = export.bundle /\ y.diagnostics = export.diagnostics \cup doubtful
    BY <1>2, <1>3, BeforeExport, Reported
  <1>5. PICK pieces : pieces = IF Attributable(export, r) THEN Referenced(r) ELSE {}
    OBVIOUS
  <1>6. pieces \subseteq Pieces /\ (good => pieces = Pieces)
    BY <1>5 DEF Referenced, Pieces
  <1>7. PICK x : x = [y EXCEPT !.todo = @ \ {r}, !.run = r, !.pieces = pieces]
    OBVIOUS
  <1>8. /\ export' = x /\ UNCHANGED <<clock, store, op>> /\ export.stage = "copy"
        /\ export.pieces = {} /\ r \in export.todo
    BY <1>1, <1>2, <1>5, <1>7 DEF OpenRun
  <1>9. /\ x \in Exports /\ x.read = export.read /\ x.workspace_id = export.workspace_id
        /\ x.since = export.since /\ x.stage = "copy" /\ x.todo = export.todo \ {r} /\ x.run = r
        /\ x.pieces = pieces /\ x.bundle = export.bundle
        /\ x.diagnostics = export.diagnostics \cup doubtful
    BY <1>4, <1>6, <1>7, <1>8 DEF Exports
  <1>10. /\ SelectedRuns(x) = SelectedRuns(export)
         /\ \A s : Started(x, s) <=> Started(export, s)
    BY <1>9, SameSelection
  <1>11. ASSUME NEW s \in SelectedRuns(x) \ x.todo PROVE Accounted(x, s, x.pieces)
    <2>1. CASE s = r /\ good
      BY <1>6, <1>9, <1>10, <2>1 DEF Accounted
    <2>2. CASE s = r /\ ~good
      BY <1>1, <1>9, <2>2 DEF Accounted
    <2>3. CASE s # r
      <3>1. Accounted(export, s, {})
        BY <1>8, <1>9, <1>10, <1>11, <2>3, BeforeExport DEF Exporting
      <3> QED BY <1>9, <1>10, <3>1 DEF Accounted, Copied
    <2> QED BY <2>1, <2>2, <2>3
  <1>12. Exporting(x)
    BY <1>9, <1>11, BeforeExport DEF Exporting
  <1> QED BY <1>8, <1>12, ExportStep

\* An artifact is copied as it is, and its run is reported if that is doubtful.
LEMMA CopyPieceKeeps ==
    ASSUME UsageInv, NEW piece \in Pieces, CopyPiece(piece)
    PROVE  UsageInv'
  <1>1. /\ export.stage = "copy" /\ piece \in export.pieces /\ export.run \in Runs
        /\ UNCHANGED <<clock, store, op>>
    BY BeforeExport DEF CopyPiece, Exporting
  <1>2. PICK doubtful : doubtful = IF Doubtful(piece) THEN {export.run} ELSE {}
    OBVIOUS
  <1>3. PICK y : y = Report(export, doubtful)
    OBVIOUS
  <1>4. doubtful \in SUBSET (Logs \cup Workspaces)
    BY <1>1, <1>2, DaysAreLogs
  <1>5. /\ y \in Exports /\ y.read = export.read /\ y.workspace_id = export.workspace_id
        /\ y.since = export.since /\ y.stage = export.stage /\ y.todo = export.todo
        /\ y.run = export.run /\ y.pieces = export.pieces
        /\ y.bundle = export.bundle /\ y.diagnostics = export.diagnostics \cup doubtful
    BY <1>3, <1>4, BeforeExport, Reported
  <1>6. PICK state : state = files[export.run][piece]
    OBVIOUS
  <1>7. PICK x : x = [y EXCEPT !.pieces = @ \ {piece},
                               !.bundle = @ \cup {<<export.run, piece, state>>}]
    OBVIOUS
  <1>8. export' = x
    BY <1>2, <1>3, <1>6, <1>7 DEF CopyPiece
  <1>9. state \in States
    BY <1>1, <1>6, BeforeExport
  <1>10. /\ x \in Exports /\ x.read = export.read /\ x.workspace_id = export.workspace_id
         /\ x.since = export.since /\ x.stage = "copy" /\ x.todo = export.todo
         /\ x.run = export.run /\ x.pieces = export.pieces \ {piece}
         /\ x.bundle = export.bundle \cup {<<export.run, piece, state>>}
         /\ x.diagnostics = export.diagnostics \cup doubtful
    <2>1. <<export.run, piece, state>> \in Runs \X Pieces \X States
      BY <1>1, <1>9
    <2>2. y.bundle \cup {<<export.run, piece, state>>} \in SUBSET (Runs \X Pieces \X States)
      BY <1>5, <2>1 DEF Exports
    <2>3. y.pieces \ {piece} \in SUBSET Pieces
      BY <1>5 DEF Exports
    <2>4. PICK bundle : bundle = y.bundle \cup {<<export.run, piece, state>>}
      OBVIOUS
    <2>5. PICK pieces : pieces = y.pieces \ {piece}
      OBVIOUS
    <2>6. x = [y EXCEPT !.pieces = pieces, !.bundle = bundle]
      BY <1>7, <2>4, <2>5
    <2>7. /\ x \in Exports /\ x.read = y.read /\ x.workspace_id = y.workspace_id
          /\ x.since = y.since /\ x.stage = y.stage /\ x.todo = y.todo
          /\ x.run = y.run /\ x.pieces = pieces /\ x.bundle = bundle /\ x.diagnostics = y.diagnostics
      BY <1>5, <2>2, <2>3, <2>4, <2>5, <2>6 DEF Exports
    <2> QED BY <1>1, <1>5, <2>4, <2>5, <2>7
  <1>11. /\ SelectedRuns(x) = SelectedRuns(export)
         /\ \A s : Started(x, s) <=> Started(export, s)
    BY <1>10, SameSelection
  <1>12. \A s, other : Copied(export, s, other) => Copied(x, s, other)
    BY <1>10 DEF Copied
  <1>13. ASSUME NEW s \in SelectedRuns(x) \ x.todo PROVE Accounted(x, s, x.pieces)
    <2>1. Accounted(export, s, export.pieces)
      BY <1>1, <1>10, <1>11, <1>13, BeforeExport DEF Exporting
    <2>2. CASE s \in x.diagnostics
      BY <2>2 DEF Accounted
    <2>3. CASE s \notin x.diagnostics
      <3>1. Started(x, s) /\ s \notin export.diagnostics
        BY <1>10, <1>11, <2>1, <2>3 DEF Accounted
      <3>2. s = export.run => Copied(x, s, piece)
        <4> SUFFICES ASSUME s = export.run PROVE Copied(x, s, piece)
          OBVIOUS
        <4>1. ~Doubtful(piece)
          BY <1>2, <1>10, <2>3
        <4>2. state # "missing" /\ (piece = "input" => state # "changed")
          BY <1>6, <1>11, <3>1, <4>1 DEF Doubtful
        <4> QED BY <1>9, <1>10, <4>2 DEF Copied, States, Pieces
      <3>3. ASSUME NEW other \in Pieces
            PROVE  Copied(x, s, other) \/ (s = x.run /\ other \in x.pieces)
        BY <1>10, <1>12, <2>1, <3>1, <3>2 DEF Accounted
      <3> QED BY <3>1, <3>3 DEF Accounted
    <2> QED BY <2>2, <2>3
  <1>14. Exporting(x)
    BY <1>1, <1>10, <1>13, BeforeExport DEF Exporting
  <1> QED BY <1>1, <1>8, <1>14, ExportStep

\* Every workspace of an exported event is described.
LEMMA CopyDescriptorsKeeps ==
    ASSUME UsageInv, CopyDescriptors
    PROVE  UsageInv'
  <1>1. PICK named : named = {e.workspace_id : e \in Evidence(export)}
    OBVIOUS
  <1>2. named \subseteq descriptors
    BY <1>1, BeforeExport, SelectedAreRuns
  <1>3. PICK y : y = Report(export, named \ descriptors)
    OBVIOUS
  <1>4. named \ descriptors \in SUBSET (Logs \cup Workspaces)
    BY <1>2
  <1>5. /\ y \in Exports /\ y.read = export.read /\ y.workspace_id = export.workspace_id
        /\ y.since = export.since /\ y.pieces = export.pieces /\ y.bundle = export.bundle
        /\ y.diagnostics = export.diagnostics \cup (named \ descriptors)
    BY <1>3, <1>4, BeforeExport, Reported
  <1>6. PICK x : x = [y EXCEPT !.stage = "manifest", !.run = None,
                               !.described = named \cap descriptors]
    OBVIOUS
  <1>7. /\ export' = x /\ UNCHANGED <<clock, store, op>> /\ export.stage = "copy"
        /\ export.pieces = {} /\ export.todo = {}
    BY <1>1, <1>3, <1>6 DEF CopyDescriptors
  <1>8. /\ x \in Exports /\ x.read = export.read /\ x.workspace_id = export.workspace_id
        /\ x.since = export.since /\ x.stage = "manifest" /\ x.pieces = {}
        /\ x.bundle = export.bundle /\ export.diagnostics \subseteq x.diagnostics
        /\ x.described = named
    BY <1>2, <1>5, <1>6, <1>7, BeforeExport DEF Exports, ExportStages
  <1>9. /\ SelectedRuns(x) = SelectedRuns(export) /\ Evidence(x) = Evidence(export)
        /\ \A s : Started(x, s) <=> Started(export, s)
    BY <1>8, SameSelection
  <1>10. ASSUME NEW s \in SelectedRuns(x) PROVE Accounted(x, s, {})
    <2>1. Accounted(export, s, {})
      BY <1>7, <1>9, BeforeExport DEF Exporting
    <2> QED BY <1>8, <1>9, <2>1 DEF Accounted, Copied
  <1>11. \A e \in Evidence(x) : e.workspace_id \in x.described
    BY <1>1, <1>8, <1>9
  <1>12. Exporting(x)
    BY <1>8, <1>10, <1>11, BeforeExport DEF Exporting
  <1> QED BY <1>7, <1>12, ExportStep

\* The manifest ends the export.
LEMMA WriteManifestKeeps ==
    ASSUME UsageInv, WriteManifest
    PROVE  UsageInv'
  BY NoExporting, ExportStep DEF WriteManifest

-----------------------------------------------------------------------------
(* The invariant. *)

\* A new day changes no file.
LEMMA TickKeeps ==
    ASSUME UsageInv, Tick
    PROVE  UsageInv'
  <1>1. /\ clock \in Days /\ clock' = clock + 1 /\ clock < MaxClock
        /\ UNCHANGED <<store, op, export>>
    BY BeforeExport DEF Tick
  <1>2. clock' \in Days /\ clock <= clock' /\ clock \in Int /\ clock' \in Int
    BY <1>1, UsageAssumption DEF Days
  <1>3. Stored' /\ Filed' /\ TornLast'
    BY <1>1, <1>2 DEF UsageInv, StoreInv, Stored, Filed, TornLast, Lines, store
  <1>4. ASSUME NEW q \in Processes PROVE Holding(q)'
    <2>1. Holding(q) /\ op[q].instant \in Int
      BY Before DEF Days
    <2>2. op[q].instant <= clock'
      BY <1>2, <2>1 DEF Holding
    <2>3. At(q, "replace") => Compacted(q)' = Compacted(q)
      BY <1>1 DEF Compacted, Retired, Old, store
    <2> QED BY <1>1, <2>1, <2>2, <2>3 DEF Holding, At, Lines, store
  <1>5. op' \in [Processes -> Commands] /\ OneMaintainer'
    BY <1>1 DEF UsageInv, CommandInv, OneMaintainer, Maintaining
  <1>6. Exporting(export)'
    BY <1>1, ExportStays, BeforeExport DEF store
  <1> QED BY <1>3, <1>4, <1>5, <1>6 DEF UsageInv, StoreInv, CommandInv

\* An input that is rewritten is told from the one that was archived.
LEMMA EditInputKeeps ==
    ASSUME UsageInv, NEW r \in Runs, EditInput(r)
    PROVE  UsageInv'
  <1>1. /\ files' = [files EXCEPT ![r]["input"] = "changed"]
        /\ UNCHANGED <<clock, logs, tombstones, litter, descriptors, markers, op, export>>
    BY DEF EditInput
  <1>2. files' \in [Runs -> [Pieces -> States]]
    BY <1>1, BeforeExport DEF States
  <1>3. Stored' /\ Filed' /\ TornLast'
    BY <1>1, <1>2 DEF UsageInv, StoreInv, Stored, Filed, TornLast, Lines
  <1>4. ASSUME NEW q \in Processes PROVE Holding(q)'
    BY <1>1, Before, Bystander
  <1>5. op' \in [Processes -> Commands] /\ OneMaintainer'
    BY <1>1 DEF UsageInv, CommandInv, OneMaintainer, Maintaining
  <1>6. Exporting(export)'
    BY <1>1, ExportStays, BeforeExport
  <1> QED BY <1>3, <1>4, <1>5, <1>6 DEF UsageInv, StoreInv, CommandInv

\* The invariant holds with an empty directory.
LEMMA UsageStarts == Init => UsageInv
  <1> SUFFICES ASSUME Init PROVE UsageInv
    OBVIOUS
  <1>1. \A f \in Logs : logs[f] = <<>> /\ Lines(f) = {}
    BY DEF Init, Lines
  <1>2. <<>> \in Seq(Entries)
    OBVIOUS
  <1>3. [piece \in Pieces |-> "missing"] \in [Pieces -> States]
    BY DEF States
  <1>4. Stored
    BY <1>2, <1>3, DaysAreLogs DEF Init, Stored
  <1>5. Filed /\ TornLast
    BY <1>1 DEF Filed, TornLast, Lines
  <1>6. op \in [Processes -> Commands] /\ \A p \in Processes : op[p] = Idle
    BY IdleCommand DEF Init
  <1>7. 0 <= clock
    BY DEF Init
  <1>8. \A p \in Processes : Holding(p) /\ ~Maintaining(p)
    BY <1>6, <1>7, IdleCommand DEF Holding, At, Maintaining
  <1>9. Exporting(export)
    BY NoExporting DEF Init
  <1> QED BY <1>4, <1>5, <1>6, <1>8, <1>9 DEF UsageInv, StoreInv, CommandInv, OneMaintainer

\* Every step of a command keeps it.
LEMMA CommandNextKeeps ==
    ASSUME UsageInv, NEW p \in Processes, CommandNext(p)
    PROVE  UsageInv'
  <1>1. ASSUME NEW ws \in Workspaces, NEW r \in Runs, StartRun(p, ws, r) PROVE UsageInv'
    BY <1>1, StartRunKeeps
  <1>2. ASSUME NEW ws \in Workspaces, NEW r \in Runs,
               NEW operation \in {"compound.finish", "compound.retain"}, Finish(p, ws, r, operation)
        PROVE  UsageInv'
    BY <1>2, FinishKeeps
  <1>3. ASSUME NEW operation \in {"search", "validate"}, NEW ws \in Workspaces,
               NEW r \in Runs \cup {None}, Command(p, operation, ws, r)
        PROVE  UsageInv'
    BY <1>3, CommandKeeps
  <1>4. CASE AppendReceipt(p) \/ RefuseReceipt(p) \/ TearReceipt(p) \/ Kill(p)
    BY <1>4, AppendReceiptKeeps, RefuseReceiptKeeps, TearReceiptKeeps, KillKeeps
  <1> QED BY <1>1, <1>2, <1>3, <1>4 DEF CommandNext

\* So does every step of maintenance.
LEMMA MaintenanceNextKeeps ==
    ASSUME UsageInv, NEW p \in Processes, MaintenanceNext(p)
    PROVE  UsageInv'
  <1>1. CASE Stamp(p) \/ AlreadyApplied(p) \/ BeginRetention(p) \/ WriteTombstone(p) \/ UnlinkLog(p)
    BY <1>1, StampKeeps, AlreadyAppliedKeeps, BeginRetentionKeeps, WriteTombstoneKeeps,
       UnlinkLogKeeps
  <1>2. ASSUME NEW r \in Runs, BeginExpiry(p, r) PROVE UsageInv'
    BY <1>2, BeginExpiryKeeps
  <1>3. ASSUME NEW piece \in Pieces, UnlinkPiece(p, piece) \/ StopExpiry(p, piece) PROVE UsageInv'
    BY <1>3, UnlinkPieceKeeps, StopExpiryKeeps
  <1>4. ASSUME NEW day \in Days, ReadReceipts(p, day) PROVE UsageInv'
    BY <1>4, ReadReceiptsKeeps
  <1>5. CASE ReplaceReceipts(p) \/ Mark(p)
    BY <1>5, ReplaceReceiptsKeeps, MarkKeeps
  <1> QED BY <1>1, <1>2, <1>3, <1>4, <1>5 DEF MaintenanceNext

\* So does every step of an export.
LEMMA ExportNextKeeps ==
    ASSUME UsageInv, ExportNext
    PROVE  UsageInv'
  <1>1. ASSUME NEW ws \in Workspaces, NEW since \in 0..clock, BeginExport(ws, since) PROVE UsageInv'
    BY <1>1, BeginExportKeeps
  <1>2. CASE ListRuns \/ LookForLog \/ LookAgain \/ CopyDescriptors \/ WriteManifest
    BY <1>2, ListRunsKeeps, LookForLogKeeps, LookAgainKeeps, CopyDescriptorsKeeps, WriteManifestKeeps
  <1>3. ASSUME NEW r \in Runs, LookForTombstone(r) \/ OpenRun(r) PROVE UsageInv'
    BY <1>3, LookForTombstoneKeeps, OpenRunKeeps
  <1>4. ASSUME NEW f \in Logs, ReadLog(f) PROVE UsageInv'
    BY <1>4, ReadLogKeeps
  <1>5. ASSUME NEW piece \in Pieces, CopyPiece(piece) PROVE UsageInv'
    BY <1>5, CopyPieceKeeps
  <1> QED BY <1>1, <1>2, <1>3, <1>4, <1>5 DEF ExportNext

\* Nothing changes.
LEMMA StutterKeeps ==
    ASSUME UsageInv, UNCHANGED vars
    PROVE  UsageInv'
  <1>1. PICK x : x = export
    OBVIOUS
  <1> QED BY <1>1, BeforeExport, ExportStep DEF vars, store

\* The invariant holds in every reachable state.
LEMMA UsageInvHolds == Spec => []UsageInv
  <1>1. Init => UsageInv
    BY UsageStarts
  <1>2. UsageInv /\ [Next]_vars => UsageInv'
    <2> SUFFICES ASSUME UsageInv, [Next]_vars PROVE UsageInv'
      OBVIOUS
    <2>1. ASSUME NEW p \in Processes, CommandNext(p) \/ MaintenanceNext(p) PROVE UsageInv'
      BY <2>1, CommandNextKeeps, MaintenanceNextKeeps
    <2>2. CASE ExportNext \/ Tick
      BY <2>2, ExportNextKeeps, TickKeeps
    <2>3. ASSUME NEW r \in Runs, EditInput(r) PROVE UsageInv'
      BY <2>3, EditInputKeeps
    <2>4. CASE UNCHANGED vars
      BY <2>4, StutterKeeps
    <2> QED BY <2>1, <2>2, <2>3, <2>4 DEF Next
  <1> QED BY <1>1, <1>2, PTL DEF Spec

-----------------------------------------------------------------------------
(* The theorems. *)

\* Every variable has its type, every event is in the file of its day or run, and a
\* torn line is the last one of its file, however many commands, torn appends and
\* compactions there are.
THEOREM UsageTypeCorrect == Spec => []UsageTypeOK
  <1>1. UsageInv => UsageTypeOK
    <2> SUFFICES ASSUME UsageInv PROVE UsageTypeOK
      OBVIOUS
    <2>1. /\ clock \in Days /\ files \in [Runs -> [Pieces -> {"missing", "whole", "changed"}]]
          /\ tombstones \subseteq Runs /\ litter \subseteq Runs /\ descriptors \subseteq Workspaces
          /\ markers \subseteq Days \X Workspaces
      BY DEF UsageInv, StoreInv, Stored, States
    <2>2. \A f \in Logs :
              /\ \A e \in Lines(f) \ {Torn} : e \in Events /\ FiledRight(f, e)
              /\ \A i \in DOMAIN logs[f] : logs[f][i] = Torn => i = Len(logs[f])
      BY DEF UsageInv, StoreInv, Filed, TornLast
    <2>3. \A p \in Processes :
              /\ op[p].stage \in Stages /\ op[p].operation \in Operations
              /\ op[p].workspace_id \in Workspaces \cup {None} /\ op[p].run \in Runs \cup {None}
              /\ op[p].at \in Days /\ op[p].instant \in Days
              /\ op[p].todo \subseteq Logs /\ op[p].expired \subseteq Runs
      BY Before DEF Commands
    <2>4. /\ export.stage \in ExportStages
          /\ export.todo \subseteq Runs /\ export.listed \subseteq Logs /\ export.pieces \subseteq Pieces
          /\ export.described \subseteq Workspaces
          /\ export.diagnostics \subseteq Logs \cup Workspaces
      BY BeforeExport DEF Exports
    <2> QED BY <2>1, <2>2, <2>3, <2>4 DEF UsageTypeOK
  <1> QED BY <1>1, UsageInvHolds, PTL

\* When an export comes to its manifest, each run that it names is complete in the
\* bundle (its start event, its start record, its input unchanged) or named by a
\* diagnostic, whatever maintenance, edits and torn appends did meanwhile, and the
\* workspace of every exported event is described (application/usage.py, export_usage).
THEOREM ExportIsAccounted == Spec => []ExportAccounted
  <1>1. UsageInv => ExportAccounted
    <2> SUFFICES ASSUME UsageInv, export.stage = "manifest" PROVE ExportAccounted
      BY DEF ExportAccounted
    <2>1. /\ \A r \in SelectedRuns(export) : Accounted(export, r, {})
          /\ \A e \in Evidence(export) : e.workspace_id \in export.described
      BY BeforeExport DEF Exporting
    <2>2. ASSUME NEW r \in SelectedRuns(export), r \notin export.diagnostics
          PROVE  /\ Started(export, r)
                 /\ \E state \in {"whole", "changed"} : <<r, "start.json", state>> \in export.bundle
                 /\ <<r, "input", "whole">> \in export.bundle
      BY <2>1, <2>2 DEF Accounted, Copied, Pieces
    <2> QED BY <2>1, <2>2 DEF ExportAccounted
  <1> QED BY <1>1, UsageInvHolds, PTL

-----------------------------------------------------------------------------
(* What a command reported as written. *)

\* A file that is unchanged or appended to has each event as often as before.
LEMMA Counted ==
    ASSUME UsageInv, NEW f \in Logs, NEW e
    PROVE  /\ Count(f, e) \in Nat
           /\ logs'[f] = logs[f] => Count(f, e)' >= Count(f, e)
           /\ \A x \in Entries : logs'[f] = Append(logs[f], x) => Count(f, e)' >= Count(f, e)
  <1>1. logs[f] \in Seq(Entries)
    BY DEF UsageInv, StoreInv, Stored
  <1>2. IsFiniteSet(DOMAIN logs[f])
    <2>1. DOMAIN logs[f] = 1..Len(logs[f]) /\ Len(logs[f]) \in Int
      BY <1>1
    <2> QED BY <2>1, FS_Interval
  <1>3. IsFiniteSet(Places(logs[f], e))
    BY <1>2, FS_Subset DEF Places
  <1>4. Count(f, e) \in Nat
    BY <1>3, FS_CardinalityType DEF Count
  <1>5. logs'[f] = logs[f] => Count(f, e)' = Count(f, e)
    BY DEF Count
  <1>6. \A x \in Entries : logs'[f] = Append(logs[f], x) => Count(f, e)' >= Count(f, e)
    BY <1>1, CountGrows DEF Count
  <1> QED BY <1>4, <1>5, <1>6

\* Only appends, expiries and compactions write to a log.
LEMMA WhoWrites ==
    ASSUME UsageInv, [Next]_vars
    PROVE  \/ UNCHANGED logs
           \/ \E r \in Runs : logs[r] = <<>> /\ \A f \in Logs \ {r} : logs'[f] = logs[f]
           \/ \E f \in Logs, x \in Entries : logs' = [logs EXCEPT ![f] = Append(@, x)]
           \/ \E p \in Processes : UnlinkLog(p) \/ ReplaceReceipts(p)
  <1>1. ASSUME NEW p \in Processes, NEW ws \in Workspaces, NEW r \in Runs, StartRun(p, ws, r)
        PROVE  logs[r] = <<>> /\ \A f \in Logs \ {r} : logs'[f] = logs[f]
    BY <1>1 DEF StartRun, UsageInv, StoreInv, Stored
  <1>2. ASSUME NEW p \in Processes, NEW ws \in Workspaces, NEW r \in Runs,
               NEW operation \in {"compound.finish", "compound.retain"}, Finish(p, ws, r, operation)
        PROVE  \E f \in Logs, x \in Entries : logs' = [logs EXCEPT ![f] = Append(@, x)]
    <2>1. operation \in Operations /\ r \in Runs \cup {None} /\ r \in Logs /\ clock \in Days
      BY Before, DaysAreLogs DEF Operations
    <2>2. Event(operation, ws, r, clock) \in Entries
      BY <2>1, AnEvent
    <2> QED BY <1>2, <2>1, <2>2 DEF Finish
  <1>3. ASSUME NEW p \in Processes, AppendReceipt(p)
        PROVE  \E f \in Logs, x \in Entries : logs' = [logs EXCEPT ![f] = Append(@, x)]
    <2>1. /\ Target(p) \in Logs /\ op[p].operation \in Operations /\ op[p].workspace_id \in Workspaces
          /\ op[p].run \in Runs \cup {None} /\ op[p].at \in Days
      BY <1>3, Ready DEF AppendReceipt
    <2>2. Event(op[p].operation, op[p].workspace_id, op[p].run, op[p].at) \in Entries
      BY <2>1, AnEvent
    <2> QED BY <1>3, <2>1, <2>2 DEF AppendReceipt
  <1>4. ASSUME NEW p \in Processes, TearReceipt(p)
        PROVE  \E f \in Logs, x \in Entries : logs' = [logs EXCEPT ![f] = Append(@, x)]
    <2>1. Target(p) \in Logs
      BY <1>4, Ready DEF TearReceipt
    <2> QED BY <1>4, <2>1 DEF TearReceipt, Entries
  <1>5. ASSUME NEW p \in Processes, CommandNext(p)
        PROVE  \/ UNCHANGED logs
               \/ \E r \in Runs : logs[r] = <<>> /\ \A f \in Logs \ {r} : logs'[f] = logs[f]
               \/ \E f \in Logs, x \in Entries : logs' = [logs EXCEPT ![f] = Append(@, x)]
    <2>1. ASSUME NEW operation, NEW ws, NEW r, Command(p, operation, ws, r) PROVE UNCHANGED logs
      BY <2>1 DEF Command
    <2>2. RefuseReceipt(p) \/ Kill(p) => UNCHANGED logs
      BY DEF RefuseReceipt, Kill, store
    <2> QED BY <1>1, <1>2, <1>3, <1>4, <1>5, <2>1, <2>2 DEF CommandNext
  <1>6. ASSUME NEW p \in Processes, MaintenanceNext(p)
        PROVE  UNCHANGED logs \/ UnlinkLog(p) \/ ReplaceReceipts(p)
    <2>1. Stamp(p) \/ AlreadyApplied(p) \/ BeginRetention(p) \/ WriteTombstone(p) \/ Mark(p)
              => UNCHANGED logs
      BY DEF Stamp, AlreadyApplied, BeginRetention, WriteTombstone, Mark, store
    <2>2. ASSUME NEW r, BeginExpiry(p, r) PROVE UNCHANGED logs
      BY <2>2 DEF BeginExpiry, store
    <2>3. ASSUME NEW piece, UnlinkPiece(p, piece) \/ StopExpiry(p, piece) PROVE UNCHANGED logs
      BY <2>3 DEF UnlinkPiece, StopExpiry, store
    <2>4. ASSUME NEW day, ReadReceipts(p, day) PROVE UNCHANGED logs
      BY <2>4 DEF ReadReceipts, store
    <2> QED BY <1>6, <2>1, <2>2, <2>3, <2>4 DEF MaintenanceNext
  <1>7. ASSUME ExportNext PROVE UNCHANGED logs
    <2>1. ASSUME NEW ws, NEW since, BeginExport(ws, since) PROVE UNCHANGED logs
      BY <2>1 DEF BeginExport, store
    <2>2. ListRuns \/ LookForLog \/ LookAgain \/ CopyDescriptors \/ WriteManifest => UNCHANGED logs
      BY DEF ListRuns, LookForLog, LookAgain, CopyDescriptors, WriteManifest, store
    <2>3. ASSUME NEW r, LookForTombstone(r) \/ OpenRun(r) PROVE UNCHANGED logs
      BY <2>3 DEF LookForTombstone, OpenRun, store
    <2>4. ASSUME NEW f, ReadLog(f) PROVE UNCHANGED logs
      BY <2>4 DEF ReadLog, store
    <2>5. ASSUME NEW piece, CopyPiece(piece) PROVE UNCHANGED logs
      BY <2>5 DEF CopyPiece, store
    <2> QED BY <1>7, <2>1, <2>2, <2>3, <2>4, <2>5 DEF ExportNext
  <1>8. ASSUME Tick \/ (\E r \in Runs : EditInput(r)) \/ UNCHANGED vars PROVE UNCHANGED logs
    BY <1>8 DEF Tick, EditInput, vars, store
  <1> QED BY <1>5, <1>6, <1>7, <1>8 DEF Next

\* A compaction takes out only old retrieval receipts of the workspace that maintains its own,
\* of no run or of one whose expiry is on record; the others it keeps, each as often
\* as it was there.
LEMMA CompactionKeeps ==
    ASSUME UsageInv, NEW p \in Processes, ReplaceReceipts(p), NEW f \in Logs, NEW e \in Lines(f)
    PROVE  \/ Count(f, e)' >= Count(f, e)
           \/ /\ f \in Days /\ f + RetentionTime < clock /\ e.operation = "search"
              /\ e.run \in tombstones \cup {None}
              /\ Maintaining(p) /\ op[p].workspace_id = e.workspace_id
  <1>1. At(p, "replace") /\ logs' = [logs EXCEPT ![op[p].log] = op[p].kept]
    BY DEF ReplaceReceipts
  <1>2. logs \in [Logs -> Seq(Entries)]
    BY DEF UsageInv, StoreInv, Stored
  <1>3. CASE f # op[p].log
    BY <1>1, <1>2, <1>3, Counted
  <1>4. CASE f = op[p].log
    <2>1. /\ f \in Days /\ Torn \notin Lines(f) /\ Maintaining(p)
          /\ logs'[f] = Compacted(p)
      BY <1>1, <1>2, <1>4, Replaces
    <2>2. CASE ~Retired(p, e)
      <3>1. PICK places : places = {i \in DOMAIN logs[f] : ~Retired(p, logs[f][i])}
        OBVIOUS
      <3>2. logs'[f] = Subsequence(logs[f], places) /\ places \in SUBSET DOMAIN logs[f]
        BY <1>4, <2>1, <3>1 DEF Compacted
      <3>3. PICK s \in Seq(Entries) : s = logs[f]
        BY <1>2
      <3>4. places \in SUBSET DOMAIN s /\ Places(s, e) \subseteq places
        BY <2>2, <3>1, <3>2, <3>3 DEF Places
      <3>5. Cardinality(Places(Subsequence(s, places), e)) = Cardinality(Places(s, e))
        BY <3>4, SubsequenceCounts
      <3>6. Count(f, e)' = Count(f, e)
        BY <3>2, <3>3, <3>5 DEF Count
      <3> QED BY <3>6, Counted
    <2>3. CASE Retired(p, e)
      <3>1. /\ e.workspace_id = op[p].workspace_id /\ e.at + RetentionTime < op[p].instant
            /\ e.run \in op[p].expired \cup {None} /\ e.operation = "search"
        BY <2>3 DEF Retired, Old
      <3>2. e.at = f
        BY <2>1, Disjoint DEF UsageInv, StoreInv, Filed, FiledRight
      <3>3. op[p].instant <= clock /\ op[p].expired \subseteq tombstones
        BY Before DEF Holding
      <3>4. f \in Int /\ clock \in Int /\ op[p].instant \in Int /\ RetentionTime \in Int
        BY <2>1, Before, UsageAssumption DEF Days
      <3>5. f + RetentionTime < clock
        BY <3>1, <3>2, <3>3, <3>4
      <3> QED BY <2>1, <3>1, <3>3, <3>5
    <2> QED BY <2>2, <2>3
  <1> QED BY <1>3, <1>4

\* What a command reported as written stays readable, whoever appends, tears a
\* line or compacts: no line follows a torn one, and an event leaves its file
\* only with the expiry of its run, or as an old retrieval receipt of the workspace
\* that maintains its own, which names no run or one whose expiry is on record
\* (infrastructure/usage.py, prune_retrieval; receipts.py, record_terminal).
THEOREM ReceiptsAreKept == Spec => ReceiptsKept
  <1> DEFINE Kept(f, e) ==
                 \/ Count(f, e)' >= Count(f, e)
                 \/ f \in tombstones
                 \/ /\ f \in Days /\ f + RetentionTime < clock /\ e.operation = "search"
                    /\ e.run \in tombstones \cup {None}
                    /\ \E p \in Processes :
                          Maintaining(p) /\ op[p].workspace_id = e.workspace_id
             Step == \A f \in Logs :
                        /\ \A i \in DOMAIN logs'[f] : logs'[f][i] = Torn => i = Len(logs'[f])
                        /\ \A e \in Lines(f) : Kept(f, e)
  <1>1. ASSUME UsageInv, UsageInv', [Next]_vars, NEW f \in Logs
        PROVE  \A i \in DOMAIN logs'[f] : logs'[f][i] = Torn => i = Len(logs'[f])
    BY <1>1 DEF UsageInv, StoreInv, TornLast
  <1>2. ASSUME UsageInv, [Next]_vars, NEW f \in Logs, NEW e \in Lines(f) PROVE Kept(f, e)
    <2>1. CASE logs'[f] = logs[f]
      BY <1>2, <2>1, Counted
    <2>2. ASSUME NEW r \in Runs, logs[r] = <<>>, \A g \in Logs \ {r} : logs'[g] = logs[g]
          PROVE  Kept(f, e)
      <3>1. f # r
        BY <1>2, <2>2 DEF Lines
      <3> QED BY <2>1, <2>2, <3>1
    <2>3. ASSUME NEW g \in Logs, NEW x \in Entries, logs' = [logs EXCEPT ![g] = Append(@, x)]
          PROVE  Kept(f, e)
      <3>1. logs \in [Logs -> Seq(Entries)]
        BY <1>2 DEF UsageInv, StoreInv, Stored
      <3>2. logs'[f] = logs[f] \/ logs'[f] = Append(logs[f], x)
        BY <2>3, <3>1
      <3> QED BY <1>2, <3>2, Counted
    <2>4. ASSUME NEW p \in Processes, UnlinkLog(p) PROVE Kept(f, e)
      <3>1. logs' = [logs EXCEPT ![op[p].run] = <<>>] /\ op[p].run \in tombstones
        BY <1>2, <2>4, OnRecord DEF UnlinkLog
      <3>2. f # op[p].run => logs'[f] = logs[f]
        BY <1>2, <3>1 DEF UsageInv, StoreInv, Stored
      <3> QED BY <2>1, <3>1, <3>2
    <2>5. ASSUME NEW p \in Processes, ReplaceReceipts(p) PROVE Kept(f, e)
      BY <1>2, <2>5, CompactionKeeps
    <2> QED BY <1>2, <2>1, <2>2, <2>3, <2>4, <2>5, WhoWrites
  <1>3. UsageInv /\ UsageInv' /\ [Next]_vars => [Step]_vars
    BY <1>1, <1>2
  <1> QED BY <1>3, UsageInvHolds, PTL DEF Spec, ReceiptsKept
=============================================================================

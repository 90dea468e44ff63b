---------------------------- MODULE ActivityLog ----------------------------
(***************************************************************************)
(* The shared coordination log ai/signals/compound-activity.jsonl as pure  *)
(* operators: what its strict reader accepts and derives, when a prompt    *)
(* may start automatic work, and what a rollover keeps.                    *)
(*                                                                         *)
(* A log is a function from the ordinal of each line ever appended to the  *)
(* event on it.  Rollover drops lines, so it is a restriction of the       *)
(* function and a line keeps its ordinal; the order of the lines is the    *)
(* order of their ordinals.                                                *)
(***************************************************************************)
EXTENDS Integers, FiniteSets, Functions

CONSTANTS
    Runs,        \* run ids the tool may issue
    Signals,     \* signal ids (one id, one path)
    Contents,    \* complete file bytes, as told apart by their fingerprint
    Workers,     \* native worker handles (harness, worker and parent id)
    Workspaces,  \* workspaces that share the signal store
    Triggers,    \* authored setup.compounding records
    Quarter,     \* ACTIVITY_MAX_BYTES \div 4, in the unit of an event's size
    Spaces,      \* what the dump that _append measures is longer than the line it
                 \* writes: a space after every separator, less the newline
    None         \* Python's None

ASSUME QuarterAssumption == Quarter \in Nat \ {0}

\* Attachments and registrations, the smallest events, are always admitted.
ASSUME SpacesAssumption == Spaces \in Nat \ {0} /\ Spaces < Quarter

ASSUME NoneAssumption ==
    None \notin Runs \cup Workers \cup Triggers \cup Workspaces \cup Contents

ASSUME TriggerAssumption ==
    Triggers \subseteq [mode: {"prompt", "local-schedule", "manual", "disabled"},
                        interval_seconds: Nat \ {0}, retry_seconds: Nat \ {0}]

Completions == {"completed", "deferred", "failed", "empty"}
Successes == {"completed", "deferred"}
Relevant == Successes \cup {"failed"}

\* Exact selected inputs: signal ids bound to the bytes they were selected with.
Selections == UNION {[S -> Contents] : S \in SUBSET Signals}
NoSelection == [s \in {} |-> None]

Events ==
    [event: {"start", "end", "worker", "trigger"}, run_id: Runs \cup {None},
     workspace_id: Workspaces \cup {None}, at: Nat, automatic: BOOLEAN,
     worker_id: Workers \cup {None}, recovery_of: Runs \cup {None},
     selected: Selections, dispositions: SUBSET Signals, drained: SUBSET Signals,
     completion: Completions \cup {None}, trigger: Triggers \cup {None},
     size: Nat]

ASSUME EventsAssumption == None \notin Events

Blank == [event |-> "trigger", run_id |-> None, workspace_id |-> None, at |-> 0,
          automatic |-> FALSE, worker_id |-> None, recovery_of |-> None,
          selected |-> NoSelection, dispositions |-> {}, drained |-> {}, completion |-> None,
          trigger |-> None, size |-> 1]

-----------------------------------------------------------------------------
(* Reading: positions of the lines of one kind, and what they derive. *)

At(log, kind) == {i \in DOMAIN log : log[i].event = kind}
Before(log, i) == {j \in DOMAIN log : j < i}
Latest(P) == CHOOSE i \in P : \A j \in P : j <= i

\* The position of the latest line of a kind, if there is one.
LatestIn(P) == {i \in P : i = Latest(P)}

Ended(log) == {log[i].run_id : i \in At(log, "end")}
Started(log) == {log[i].run_id : i \in At(log, "start")}
ActiveRuns(log) == Started(log) \ Ended(log)

StartOf(log, r) == CHOOSE i \in At(log, "start") : log[i].run_id = r

\* The start event of r with every later worker attachment merged into it.
Merge(original, worker) == [original EXCEPT !.worker_id = worker]
\* Mutant: a second handle replaces the first.
ConflictNever(original, worker) == FALSE

Conflict(original, worker) == original.worker_id \notin {None, worker}

WorkersOf(log, r) == {i \in At(log, "worker") : log[i].run_id = r}
\* Mutant: attachments are written but never merged.
EffectiveStart(log, r) == log[StartOf(log, r)]

Effective(log, r) ==
    LET started == log[StartOf(log, r)]
    IN  IF WorkersOf(log, r) = {} THEN started
        ELSE Merge(started, log[Latest(WorkersOf(log, r))].worker_id)

Agreement(log) ==
    IF At(log, "trigger") = {} THEN None ELSE log[Latest(At(log, "trigger"))].trigger

\* Every way read_activity_log rejects a log whose lines all decode.
OrderedTime(log) == \A i, j \in DOMAIN log : i <= j => log[i].at <= log[j].at

NoWorkerConflict(log) ==
    \A i \in At(log, "worker") : \A j \in Before(log, i) :
        (log[j].event \in {"start", "worker"} /\ log[j].run_id = log[i].run_id)
            => ~Conflict(log[j], log[i].worker_id)

OneStart(log) ==
    \A i, j \in At(log, "start") : log[i].run_id = log[j].run_id => i = j

\* The identity an end must repeat: the start merged with the workers before it.
IdentityAt(log, i) ==
    LET early == Restrict(log, Before(log, i)) IN Effective(early, log[i].run_id)

Terminates(started, end) ==
    /\ end.workspace_id = started.workspace_id
    /\ <<end.automatic, end.worker_id, end.recovery_of>>
         = <<started.automatic, started.worker_id, started.recovery_of>>
    /\ end.at >= started.at
    /\ end.completion \in Successes => end.dispositions = DOMAIN started.selected
    /\ end.completion = "empty" => started.selected = NoSelection /\ end.dispositions = {}
    /\ end.automatic => end.completion # None

PairedEnds(log) ==
    /\ \A i \in At(log, "end") :
          /\ \E j \in Before(log, i) \cap At(log, "start") : log[j].run_id = log[i].run_id
          /\ Terminates(IdentityAt(log, i), log[i])
    /\ \A i, j \in At(log, "end") : log[i].run_id = log[j].run_id => i = j

Readable(log) ==
    OrderedTime(log) /\ NoWorkerConflict(log) /\ OneStart(log) /\ PairedEnds(log)

-----------------------------------------------------------------------------
(* Eligibility of an automatic start, and of the advisory due check. *)

EndsWith(log, completions) == {i \in At(log, "end") : log[i].completion \in completions}

\* Mutant: only the latest attempt counts, so a failure forgets the last success.
DeadlinesOfLatest(log, trigger) ==
    {log[i].at + (IF log[i].completion = "failed" THEN trigger.retry_seconds
                  ELSE trigger.interval_seconds) : i \in LatestIn(EndsWith(log, Relevant))}

\* The instants before which automatic work must wait.
Deadlines(log, trigger) ==
    {log[i].at + trigger.interval_seconds : i \in LatestIn(EndsWith(log, Successes))}
    \cup {log[i].at + trigger.retry_seconds :
            i \in LatestIn(EndsWith(log, Relevant)) \cap EndsWith(log, {"failed"})}

\* The order of the early returns of _due_locked; probe is the inbox's answer.
Due(log, configured, now, receipts, probe) ==
    CASE configured = None \/ Agreement(log) = None -> "unconfigured"
      [] configured # None /\ Agreement(log) \notin {None, configured} -> "trigger-conflict"
      [] configured # None /\ Agreement(log) = configured ->
            IF configured.mode # "prompt" THEN configured.mode
            ELSE IF ActiveRuns(log) # {} THEN "active"
            ELSE IF \E i \in DOMAIN log : log[i].at > now THEN "clock-regressed"
            ELSE IF \E d \in Deadlines(log, configured) : now < d THEN "wait"
            ELSE IF ~receipts THEN "receipts-unavailable"
            ELSE IF probe = "empty" THEN "empty" ELSE "due"

-----------------------------------------------------------------------------
(* The bounded reader and rollover. *)

\* An event's size is that of its line, compact and with its newline: what is
\* written, what the reader and rollover measure, and what rollover rewrites
\* (the text of an event is ASCII; otherwise a rewritten line is longer).
DumpSize(e) == e.size + Spaces

\* The bytes of the file, each with the line it belongs to.
Bytes(log) == UNION {{i} \X (1..log[i].size) : i \in DOMAIN log}
Size(log) == Cardinality(Bytes(log))

\* Mutant: the last completed check is dropped once something else ended later.
RetainedRunsLatest(log) ==
    ActiveRuns(log)
    \cup {log[i].run_id : i \in LatestIn(At(log, "end")) \cup LatestIn(EndsWith(log, Relevant))}

\* Mutant: only terminal pairs are kept.
RetainedRunsEnded(log) ==
    {log[i].run_id : i \in LatestIn(At(log, "end"))
                           \cup LatestIn(EndsWith(log, Relevant))
                           \cup LatestIn(EndsWith(log, Successes))}

RetainedRuns(log) ==
    ActiveRuns(log)
    \cup {log[i].run_id : i \in LatestIn(At(log, "end"))
                               \cup LatestIn(EndsWith(log, Relevant))
                               \cup LatestIn(EndsWith(log, Successes))}

Retained(log) ==
    {i \in DOMAIN log : log[i].event # "trigger" /\ log[i].run_id \in RetainedRuns(log)}
    \cup LatestIn(At(log, "trigger")) \cup LatestIn(At(log, "worker"))

NeedsRollover(log) == Size(log) >= Quarter
Rollover(log) == Restrict(log, Retained(log))
RolloverFits(log) == Size(Rollover(log)) < 2 * Quarter

\* Mutant: the time of the last line is not compared.
AppendableBySize(log, e) == DumpSize(e) <= Quarter

\* _append refuses an event older than the last line, or whose dump is above a
\* quarter of the bound; its line is then below a quarter.
Appendable(log, e) ==
    /\ \A i \in DOMAIN log : log[i].at <= e.at
    /\ DumpSize(e) <= Quarter
=============================================================================

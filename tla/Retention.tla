----------------------------- MODULE Retention -----------------------------
(***************************************************************************)
(* Retention of run evidence (retain_usage, prune_compound) composed with  *)
(* the compounding lifecycle it shares a lock with, and with the validate  *)
(* receipts that any command may append to a run's evidence without that   *)
(* lock.                                                                   *)
(***************************************************************************)
EXTENDS Compounding

CONSTANTS
    RetentionTime,  \* receipts.retention_days
    MaxReceipts     \* bound: validate receipts at a time

ASSUME RetentionAssumption == RetentionTime \in Nat /\ MaxReceipts \in Nat

VARIABLE expired    \* runs whose evidence carries the tombstone expired.json

rvars == <<vars, expired>>

RetentionInit == Init /\ expired = {}

\* Mutant: what the finish retained is not looked at.
ExpirableByAge(record) ==
    record.operation = "compound.finish" /\ record.at + RetentionTime < clock

Expirable(record) ==
    /\ record.operation = "compound.finish"
    /\ record.retained = {}
    /\ record.at + RetentionTime < clock

\* Only the evidence is consulted: its last record must be an old finish that
\* retained nothing.  A run that carries a tombstone is left as it is.
BeginPrune(ws, r) ==
    /\ ~Held
    /\ ~evidence[r].torn /\ evidence[r].records # <<>>
    /\ r \notin expired
    /\ evidence[r].start # None => evidence[r].start.workspace_id = ws
    /\ Expirable(Last(evidence[r].records))
    /\ op' = [Idle EXCEPT !.kind = "prune", !.stage = "expire", !.event.run_id = r]
    /\ UNCHANGED <<coordination, evidence, environment, removed, spent, expired>>

\* Mutant: files go before the tombstone is there.
WriteTombstoneLater ==
    /\ op.stage = "expire"
    /\ Goto("prune")
    /\ UNCHANGED <<coordination, evidence, environment, removed, spent, expired>>

WriteTombstone ==
    /\ op.stage = "expire"
    /\ expired' = expired \cup {Run}
    /\ Goto("prune")
    /\ UNCHANGED <<coordination, evidence, environment, removed, spent>>

\* Files go one by one, in directory order.
Pruned(r, file) ==
    CASE file = "start"   -> [evidence EXCEPT ![r].start = None]
      [] file = "records" -> [evidence EXCEPT ![r].records = <<>>]
      [] file \in Signals -> [evidence EXCEPT ![r].inputs = Restrict(@, DOMAIN @ \ {file})]

PruneFile(file) ==
    /\ op.stage = "prune"
    /\ evidence' = Pruned(Run, file)
    /\ evidence' # evidence
    /\ IF evidence'[Run] = NoEvidence THEN Release ELSE UNCHANGED op
    /\ UNCHANGED <<coordination, environment, removed, spent, expired>>

\* A validate command naming the run as its context.  It waits for the file lock
\* that prune_compound holds, and then recreates events.jsonl.
Validates(r) ==
    /\ ~(op.kind = "prune" /\ Run = r)
    /\ evidence[r] # NoEvidence \/ r \in expired
    /\ ~evidence[r].torn
    /\ Cardinality(UNION {{q} \X Having(q, "validate") : q \in Runs}) < MaxReceipts

RecordValidation(r) ==
    /\ Validates(r)
    /\ evidence' = Written(r, Record("validate"))
    /\ UNCHANGED <<coordination, environment, op, removed, spent, expired>>

\* Its append is cut short, maybe in the middle of a lifecycle command.
TearValidation(r) ==
    /\ Validates(r)
    /\ Faulty /\ Fault
    /\ evidence' = Torn(r)
    /\ UNCHANGED <<coordination, environment, op, removed, expired>>

RetentionNext ==
    \/ Next /\ UNCHANGED expired
    \/ \E ws \in Workspaces, r \in Runs : BeginPrune(ws, r)
    \/ WriteTombstone
    \/ \E file \in {"start", "records"} \cup Signals : PruneFile(file)
    \/ \E r \in Runs : RecordValidation(r) \/ TearValidation(r)

RetentionSpec == RetentionInit /\ [][RetentionNext]_rvars

\* A lock holder that is not killed keeps executing, expiry included.
RetentionProceed ==
    \/ Proceed /\ UNCHANGED expired
    \/ WriteTombstone
    \/ \E file \in {"start", "records"} \cup Signals : PruneFile(file)

RetentionFairSpec == RetentionSpec /\ WF_rvars(RetentionProceed)

-----------------------------------------------------------------------------
Selected(r) ==
    UNION {DOMAIN history[i].selected : i \in {j \in At(history, "start") : history[j].run_id = r}}

\* Retention never expires an input that is not gone from the inbox: whatever a
\* run selected and the tool did not remove keeps its archived copy.
UnresolvedKept == \A r \in expired : Selected(r) \subseteq Gone(r)

\* Evidence that a start line refers to is complete, or its run carries the
\* tombstone: an interrupted or half-done expiry is told apart from a loss.
LossExplained ==
    \A i \in At(history, "start") :
        LET r == history[i].run_id
        IN  r \notin expired =>
                /\ evidence[r].start = history[i]
                /\ evidence[r].inputs = history[i].selected
                /\ Has(r, "compound.start")

\* Retention preserves active evidence (retain_usage's docstring and
\* docs/agent-contract.md).
ActiveEvidenceKept == ActiveRuns(log) \cap expired = {}
=============================================================================

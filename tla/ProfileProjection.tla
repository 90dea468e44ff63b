------------------------- MODULE ProfileProjection -------------------------
(***************************************************************************)
(* The private copy of a credential file that prepare_container_profile    *)
(* makes, refreshes and removes for one profile: a file under its final    *)
(* name, temporary files, the provenance journal that says which of them   *)
(* are setup's, and the registry that routes the profile to the copy.      *)
(*                                                                         *)
(* One process at a time works on a profile (usage_lock, without waiting). *)
(* It may be killed at any step or fail with an I/O error; the source is   *)
(* rotated, the registry edited and the final name replaced or deleted by  *)
(* others at any step.                                                     *)
(***************************************************************************)
EXTENDS Integers, FiniteSets

CONSTANTS
    Contents,       \* what the source file may hold and the parser accepts
    Malformed,      \* bytes of the source that the parser refuses
    Sources,        \* source files a prepare may name
    Routes,         \* reviewed declarations that name the private copy
    None,
    MaxFiles,       \* bound: files made in the private directory
    MaxEdits,       \* bound: rotations of the source and edits of the registry
    MaxForeign,     \* bound: replacements and deletions of the copy by others
    MaxFaults       \* bound: kills and I/O errors

ASSUME ProjectionAssumption ==
    /\ MaxFiles \in Nat /\ MaxEdits \in Nat /\ MaxForeign \in Nat /\ MaxFaults \in Nat
    /\ Malformed \notin Contents
    /\ {"empty", "partial"} \cap (Contents \cup {Malformed}) = {}
    /\ None \notin (1..MaxFiles) \X Nat
    /\ None \notin [source: Sources, target: {None} \cup ((1..MaxFiles) \X Nat),
                     temp: {None} \cup (1..MaxFiles)]
    /\ None \notin Sources \cup Routes \cup Nat \cup (Contents \cup {Malformed})

VARIABLES
    files,      \* files[i]: maker, bytes and change stamp of inode i
    target,     \* the inode under <profile>.env, or None
    temps,      \* inodes under temporary names, each of which is drawn afresh
    journal,    \* .<profile>.projection.json, or None
    registry,   \* what the registry routes the profile to
    source,     \* the named source file: its bytes and its change stamp
    op,         \* the process that holds the lock of the profile
    spent       \* edits, foreign actions and faults so far

vars == <<files, target, temps, journal, registry, source, op, spent>>

Files == 1..MaxFiles
Empty == "empty"
Partial == "partial"
Secret == Contents \cup {Malformed, Partial}
FileRecords == [maker: {"setup", "other", "edited"}, data: Secret \cup {Empty}, stamp: Nat]

\* A recorded identity is an inode with its change stamp; that of a temporary
\* file is the inode alone.
Journals == [source: Sources, target: {None} \cup (Files \X Nat), temp: {None} \cup Files]
Unowned(s) == [source |-> s, target |-> None, temp |-> None]

Stages == {"idle", "owned", "detach", "target", "unlink", "temp", "reset", "create", "journal",
           "identify", "read", "write", "flush", "recheck", "link", "release", "stat",
           "record", "check", "route", "recover", "forget"}
Outcomes == {"none", "ok", "refused", "failed", "stuck", "unowned", "killed"}

Idle == [kind |-> "none", stage |-> "idle", expected |-> None, candidate |-> None,
         state |-> None, read |-> None, ident |-> 0, then |-> "none",
         outcome |-> "none"]

Made == Cardinality(DOMAIN files)
Stamped(i) == <<i, files[i].stamp>>
Links(i) == (IF target = i THEN 1 ELSE 0) + (IF i \in temps THEN 1 ELSE 0)

Goto(stage) == op' = [op EXCEPT !.stage = stage]
End(outcome) == op' = [Idle EXCEPT !.kind = op.kind, !.then = op.then, !.outcome = outcome]

\* A step before publication, or one of the clean-up, gives up; a step of the
\* publication leaves the rest to the handler.
Abort(outcome) ==
    IF op.then = "publish" /\ op.stage \notin {"target", "unlink", "temp", "reset", "recover"}
    THEN Goto("recover")
    ELSE End(outcome)

Init ==
    /\ files = << >> /\ target = None /\ temps = {} /\ journal = None
    /\ registry = None
    /\ source \in [data: Contents, stamp: {0}]
    /\ op = Idle
    /\ spent = [edits |-> 0, foreign |-> 0, faults |-> 0]

-----------------------------------------------------------------------------
\* _checked_candidate: only the selected declaration may change, and a refresh
\* changes none.
Checked(kind, candidate) ==
    CASE kind = "prepare" -> candidate # None
      [] kind = "refresh" -> candidate # None /\ candidate = registry
      [] kind = "remove"  -> candidate = None

\* Checks before the first change.  The candidate was reviewed against the
\* registry the caller inspected, which is compared again under the lock.
Start(kind, candidate, s) ==
    /\ op.stage = "idle"
    /\ Checked(kind, candidate)
    /\ LET state == IF journal = None THEN Unowned(s) ELSE journal
           begun == [Idle EXCEPT !.kind = kind, !.expected = registry, !.candidate = candidate,
                                 !.state = IF kind = "remove" THEN state
                                           ELSE [state EXCEPT !.source = s],
                                 !.then = IF kind = "remove" THEN "forget" ELSE "publish"]
       IN  op' = CASE journal = None /\ kind = "refresh" -> [begun EXCEPT !.outcome = "refused"]
                   [] journal = None /\ target # None -> [begun EXCEPT !.outcome = "unowned"]
                   [] journal # None /\ kind = "refresh" /\ journal.source # s ->
                          [begun EXCEPT !.outcome = "refused"]
                   [] OTHER -> [begun EXCEPT !.stage = IF kind = "remove" THEN "owned"
                                                       ELSE "target"]
    /\ UNCHANGED <<files, target, temps, journal, registry, source, spent>>

\* Mutant: a second name is never recognised.
JournaledNever == FALSE
\* _check_owned: two names of one journaled inode are recognised, anything else
\* under the final name refuses the removal.
JournaledPair ==
    /\ op.state.target = None /\ op.state.temp # None
    /\ target = op.state.temp /\ op.state.temp \in temps

TargetOwned ==
    \/ target = None
    \/ op.state.target # None /\ Stamped(target) = op.state.target
    \/ op.state.target = None /\ op.state.temp # None /\ target = op.state.temp

CheckOwned ==
    /\ op.stage = "owned"
    /\ IF TargetOwned /\ (target # None => Links(target) = (IF JournaledPair THEN 2 ELSE 1))
       THEN Goto("detach")
       ELSE End("unowned")
    /\ UNCHANGED <<files, target, temps, journal, registry, source, spent>>

\* replace_registry publishes the candidate only over the bytes that were inspected.
Publishes == registry = op.expected

Detach ==
    /\ op.stage = "detach"
    /\ IF Publishes
       THEN registry' = op.candidate /\ Goto("target")
       ELSE UNCHANGED registry /\ End("refused")
    /\ UNCHANGED <<files, target, temps, journal, source, spent>>

\* _invalidate, first half: what the journal calls its own is looked up by name ...
StatTarget ==
    /\ op.stage = "target"
    /\ IF target = None THEN Goto("temp")
       ELSE IF TargetOwned THEN Goto("unlink")
       ELSE End("unowned")
    /\ UNCHANGED <<files, target, temps, journal, registry, source, spent>>

\* ... and unlinked by name.
UnlinkTarget ==
    /\ op.stage = "unlink"
    /\ target' = None
    /\ IF target = None THEN End("failed") ELSE Goto("temp")
    /\ UNCHANGED <<files, temps, journal, registry, source, spent>>

Continue(then) == CASE then = "forget" -> "forget" [] OTHER -> "reset"

UnlinkTemp ==
    /\ op.stage = "temp"
    /\ temps' = temps \ {op.state.temp}
    /\ Goto(Continue(op.then))
    /\ UNCHANGED <<files, target, journal, registry, source, spent>>

\* The journal forgets what is gone.  The handler of a failed publication ends here.
Reset ==
    /\ op.stage = "reset"
    /\ journal' = Unowned(op.state.source)
    /\ IF op.then = "raise" THEN End("failed")
       ELSE op' = [op EXCEPT !.stage = "create", !.state = Unowned(op.state.source)]
    /\ UNCHANGED <<files, target, temps, registry, source, spent>>

-----------------------------------------------------------------------------
\* _publish_projection.
Add(maker, data) ==
    files' = [i \in DOMAIN files \cup {Made + 1} |->
                IF i = Made + 1 THEN [maker |-> maker, data |-> data, stamp |-> 0] ELSE files[i]]

Touch(i) == [files EXCEPT ![i].stamp = @ + 1]

CreateTemp ==
    /\ op.stage = "create" /\ Made < MaxFiles
    /\ Add("setup", Empty)
    /\ temps' = temps \cup {Made + 1}
    /\ op' = [op EXCEPT !.stage = "journal", !.state.temp = Made + 1]
    /\ UNCHANGED <<target, journal, registry, source, spent>>

\* Mutant: the journal is written with the final name only.
JournalTempLater ==
    /\ op.stage = "journal"
    /\ Goto("identify")
    /\ UNCHANGED <<files, target, temps, journal, registry, source, spent>>

\* The inode is journaled before it holds any byte of the source.
JournalTemp ==
    /\ op.stage = "journal"
    /\ journal' = op.state
    /\ Goto("identify")
    /\ UNCHANGED <<files, target, temps, registry, source, spent>>

Identify ==
    /\ op.stage = "identify"
    /\ op' = [op EXCEPT !.stage = "read", !.ident = source.stamp]
    /\ UNCHANGED <<files, target, temps, journal, registry, source, spent>>

ReadSource ==
    /\ op.stage = "read"
    /\ IF source.data = Malformed THEN Goto("recover")
       ELSE op' = [op EXCEPT !.stage = "write", !.read = source.data]
    /\ UNCHANGED <<files, target, temps, journal, registry, source, spent>>

\* Mutant: one write is taken for all of them.
WriteOnce ==
    /\ op.stage = "write"
    /\ files' = [files EXCEPT ![op.state.temp].data = Partial]
    /\ Goto("recheck")
    /\ UNCHANGED <<target, temps, journal, registry, source, spent>>

\* Bytes arrive in more than one write.
WriteSecret ==
    /\ op.stage \in {"write", "flush"}
    /\ files' = [files EXCEPT ![op.state.temp].data =
                    IF op.stage = "write" THEN Partial ELSE op.read]
    /\ Goto(IF op.stage = "write" THEN "flush" ELSE "recheck")
    /\ UNCHANGED <<target, temps, journal, registry, source, spent>>

Recheck ==
    /\ op.stage = "recheck"
    /\ Goto(IF source.stamp = op.ident THEN "link" ELSE "recover")
    /\ UNCHANGED <<files, target, temps, journal, registry, source, spent>>

LinkTarget ==
    /\ op.stage = "link"
    /\ IF target = None
       THEN target' = op.state.temp /\ files' = Touch(op.state.temp) /\ Goto("release")
       ELSE UNCHANGED <<target, files>> /\ Goto("recover")
    /\ UNCHANGED <<temps, journal, registry, source, spent>>

ReleaseTemp ==
    /\ op.stage = "release"
    /\ temps' = temps \ {op.state.temp}
    /\ files' = Touch(op.state.temp)
    /\ Goto("stat")
    /\ UNCHANGED <<target, journal, registry, source, spent>>

\* What is found under the final name is what becomes owned.
StatFinal ==
    /\ op.stage = "stat"
    /\ IF target = None THEN Goto("recover")
       ELSE op' = [op EXCEPT !.stage = "record",
                             !.state.temp = None, !.state.target = Stamped(target)]
    /\ UNCHANGED <<files, target, temps, journal, registry, source, spent>>

RecordTarget ==
    /\ op.stage = "record"
    /\ journal' = op.state
    /\ Goto("check")
    /\ UNCHANGED <<files, target, temps, registry, source, spent>>

\* _readiness reads the copy as an activation would.
Readiness ==
    /\ op.stage = "check"
    /\ Goto(IF target # None /\ files[target].data \in Contents THEN "route" ELSE "recover")
    /\ UNCHANGED <<files, target, temps, journal, registry, source, spent>>

PublishRoute ==
    /\ op.stage = "route"
    /\ IF Publishes
       THEN registry' = op.candidate /\ End("ok")
       ELSE UNCHANGED registry /\ Goto("recover")
    /\ UNCHANGED <<files, target, temps, journal, source, spent>>

\* Mutant: the handler clears what the run knew before it published.
RecoverFromMemory ==
    /\ op.stage = "recover"
    /\ op' = [op EXCEPT !.stage = "target", !.then = "raise", !.state = Unowned(op.state.source)]
    /\ UNCHANGED <<files, target, temps, journal, registry, source, spent>>

\* The handler of a failed publication starts from the durable journal.
Recover ==
    /\ op.stage = "recover"
    /\ op' = [op EXCEPT !.stage = "target", !.then = "raise", !.state = journal]
    /\ UNCHANGED <<files, target, temps, journal, registry, source, spent>>

ForgetJournal ==
    /\ op.stage = "forget"
    /\ journal' = None
    /\ End("ok")
    /\ UNCHANGED <<files, target, temps, registry, source, spent>>

-----------------------------------------------------------------------------
Fault ==
    /\ op.stage # "idle" /\ spent.faults < MaxFaults
    /\ spent' = [spent EXCEPT !.faults = @ + 1]
    /\ Abort(IF op.then = "raise" THEN "stuck" ELSE "failed")
    /\ UNCHANGED <<files, target, temps, journal, registry, source>>

Kill ==
    /\ op.stage # "idle" /\ spent.faults < MaxFaults
    /\ spent' = [spent EXCEPT !.faults = @ + 1]
    /\ End("killed")
    /\ UNCHANGED <<files, target, temps, journal, registry, source>>

Rotate(data) ==
    /\ spent.edits < MaxEdits
    /\ spent' = [spent EXCEPT !.edits = @ + 1]
    /\ source' = [data |-> data, stamp |-> source.stamp + 1]
    /\ UNCHANGED <<files, target, temps, journal, registry, op>>

EditRegistry(route) ==
    /\ spent.edits < MaxEdits /\ route # registry
    /\ spent' = [spent EXCEPT !.edits = @ + 1]
    /\ registry' = route
    /\ UNCHANGED <<files, target, temps, journal, source, op>>

\* Someone else renames a file of their own over the final name ...
PutTarget(data) ==
    /\ spent.foreign < MaxForeign /\ Made < MaxFiles
    /\ spent' = [spent EXCEPT !.foreign = @ + 1]
    /\ Add("other", data)
    /\ target' = Made + 1
    /\ UNCHANGED <<temps, journal, registry, source, op>>

\* ... edits the copy in place, or deletes it.
EditTarget(data) ==
    /\ spent.foreign < MaxForeign /\ target # None
    /\ spent' = [spent EXCEPT !.foreign = @ + 1]
    /\ files' = [files EXCEPT ![target] =
                    [maker |-> "edited", data |-> data, stamp |-> @.stamp + 1]]
    /\ UNCHANGED <<target, temps, journal, registry, source, op>>

DeleteTarget ==
    /\ spent.foreign < MaxForeign /\ target # None
    /\ spent' = [spent EXCEPT !.foreign = @ + 1]
    /\ target' = None
    /\ UNCHANGED <<files, temps, journal, registry, source, op>>

Step ==
    \/ CheckOwned \/ Detach \/ StatTarget \/ UnlinkTarget \/ UnlinkTemp \/ Reset
    \/ CreateTemp \/ JournalTemp \/ Identify \/ ReadSource \/ WriteSecret \/ Recheck
    \/ LinkTarget \/ ReleaseTemp \/ StatFinal \/ RecordTarget \/ Readiness
    \/ PublishRoute \/ Recover \/ ForgetJournal

Next ==
    \/ \E kind \in {"prepare", "refresh", "remove"}, c \in Routes \cup {None}, s \in Sources :
           Start(kind, c, s)
    \/ Step
    \/ Fault \/ Kill
    \/ \E data \in Contents \cup {Malformed} : Rotate(data)
    \/ \E route \in Routes \cup {None} : EditRegistry(route)
    \/ \E data \in Contents : PutTarget(data) \/ EditTarget(data)
    \/ DeleteTarget

Spec == Init /\ [][Next]_vars

-----------------------------------------------------------------------------
\* Setup made the file, as far as the model knows. No action reads this: the code
\* has to tell ownership from what it journaled (CheckOwned).
Own(i) == files[i].maker = "setup"

\* States have the shape the code gives them; a copy of setup's under the final
\* name, which an activation may open at any moment, is never a part of a source.
ProjectionTypeOK ==
    /\ DOMAIN files \subseteq Files /\ \A i \in DOMAIN files : files[i] \in FileRecords
    /\ target \in {None} \cup DOMAIN files
    /\ temps \subseteq DOMAIN files
    /\ journal \in {None} \cup Journals
    /\ registry \in {None} \cup Routes
    /\ source \in [data: Contents \cup {Malformed}, stamp: Nat]
    /\ op.stage \in Stages /\ op.outcome \in Outcomes /\ op.state \in {None} \cup Journals
    /\ target # None /\ Own(target) => files[target].data \in Contents

Linked == temps \cup ({target} \ {None})

\* Whenever a file of setup's holds bytes of the source, the durable journal
\* names that file, so that a run after a kill can clear it
\* ("Record inode ownership before any secret bytes are written").
SecretsJournaled ==
    \A i \in Linked :
        Own(i) /\ files[i].data \in Secret =>
            /\ journal # None
            /\ journal.temp = i \/ (target = i /\ journal.target = Stamped(i))

\* Ownership is only ever refused because someone else touched the copy: no
\* kill and no failure, wherever it strikes, locks the profile against the
\* next prepare, refresh or remove.
NoSelfLockout == op.outcome = "unowned" => spent.foreign > 0

\* A run whose publication fails, and that is neither killed nor hit again in its
\* clean-up, leaves no credential behind, neither the old copy nor an unfinished
\* one; nor does a removal that succeeds, after whatever kills came before it,
\* and it leaves no journal either.
CredentialsCleared ==
    LET cleared == op.outcome = "failed" /\ op.then = "raise"
        removed == op.outcome = "ok" /\ op.kind = "remove"
    IN  spent.foreign = 0 =>
          /\ cleared \/ removed => \A i \in Linked : files[i].data = Empty
          /\ removed => journal = None
=============================================================================

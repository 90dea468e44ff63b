------------------------- MODULE ProjectionProofs -------------------------
(***************************************************************************)
(* Theorems about ProfileProjection.                                       *)
(***************************************************************************)
EXTENDS ProfileProjection, FiniteSetTheorems, TLAPS

-----------------------------------------------------------------------------
(* The parts of the inductive invariant. *)

Operations ==
    [kind: {"none", "prepare", "refresh", "remove"}, stage: Stages,
     expected: {None} \cup Routes, candidate: {None} \cup Routes,
     state: {None} \cup Journals, read: {None} \cup Contents \cup {Malformed},
     ident: Nat, then: {"none", "publish", "forget", "raise"}, outcome: Outcomes]

Typed ==
    /\ Made \in 0..MaxFiles /\ files \in [1..Made -> FileRecords]
    /\ target \in {None} \cup 1..Made
    /\ temps \subseteq 1..Made
    /\ journal \in {None} \cup Journals
    /\ registry \in {None} \cup Routes
    /\ source \in [data: Contents \cup {Malformed}, stamp: Nat]
    /\ op \in Operations
    /\ spent \in [edits: Nat, foreign: Nat, faults: Nat]

\* A file of setup's with bytes of the source.
Hot(i) == Own(i) /\ files[i].data \in Secret

\* Under a temporary name it is the one that the journal names; under the final
\* name it may also be the one whose identity the journal has.
TempsJournaled == \A i \in temps : Hot(i) => journal # None /\ journal.temp = i
TargetJournaled ==
    target # None /\ Hot(target) =>
        journal # None /\ (journal.temp = target \/ journal.target = Stamped(target))

\* The journal names a temporary file or a copy.
JournalExclusive == journal # None => journal.target = None \/ journal.temp = None

\* Under the final name there is no part of a source.
TargetWhole == target # None /\ Own(target) => files[target].data \in Contents

\* As long as nobody else has touched the copy, all files are setup's.
Undisturbed == spent.foreign = 0 => \A i \in 1..Made : Own(i)

\* What each stage takes for granted.
Clearing == {"owned", "detach", "target", "unlink", "temp"}
Cleared == {"reset", "forget", "create", "journal"}
Filling == {"identify", "read", "write", "flush", "recheck", "link"}
Publishing == {"create", "journal"} \cup Filling \cup {"release", "stat", "record", "check", "route",
               "recover"}

Quiet == \A i \in Linked : ~Hot(i)

Agrees ==
    /\ op.state # None
    /\ journal = None => op.state.target = None /\ op.state.temp = None
    /\ journal # None => op.state.target = journal.target /\ op.state.temp = journal.temp

StagesConsistent ==
    /\ op.stage \in Clearing => Agrees
    /\ op.stage = "unlink" /\ spent.foreign = 0 => target # None
    /\ op.stage = "temp" /\ target # None => ~Own(target)
    /\ op.stage \in Cleared => Quiet /\ op.state # None
    /\ op.stage \in Publishing => journal # None
    /\ op.stage = "create" => op.state.target = None
    /\ op.stage \in {"journal"} \cup Filling \cup {"release"} =>
           op.state # None /\ op.state.temp \in 1..Made /\ op.state.target = None
    /\ op.stage \in {"journal"} \cup Filling => target # op.state.temp
    /\ op.stage \in Filling \cup {"release", "stat"} => journal = op.state /\ op.state.target = None
    /\ op.stage \in {"write", "flush"} => op.read \in Contents
    /\ op.stage \in {"recheck", "link"} => files[op.state.temp].data \in Contents
    /\ op.stage \in {"stat", "record"} => \A i \in temps : ~Hot(i)
    /\ op.stage = "record" =>
           /\ op.state # None /\ op.state.temp = None
           /\ target # None /\ Hot(target) => op.state.target = Stamped(target)

\* What an operation was asked for, and how it ends.
KindsConsistent ==
    /\ op.stage # "idle" =>
           /\ op.outcome = "none" /\ op.then # "none"
           /\ op.then = "forget" <=> op.kind = "remove"
    /\ op.stage \in Publishing \cup {"reset"} => op.then # "forget"
    /\ op.stage \in Publishing => op.then = "publish"
    /\ op.stage \in {"owned", "detach", "forget"} => op.then = "forget"

ProjectionInv ==
    /\ Typed /\ TempsJournaled /\ TargetJournaled /\ JournalExclusive /\ TargetWhole
    /\ Undisturbed /\ StagesConsistent /\ KindsConsistent
    /\ NoSelfLockout /\ CredentialsCleared

-----------------------------------------------------------------------------
(* Steps that change only what the process knows. *)

\* The files, their names and the journal stay.
LEMMA FilesStay ==
    ASSUME ProjectionInv, UNCHANGED <<files, target, temps, journal>>,
           spent' \in [edits: Nat, foreign: Nat, faults: Nat], spent'.foreign = spent.foreign,
           registry' \in {None} \cup Routes, source' \in [data: Contents \cup {Malformed}, stamp: Nat],
           op' \in Operations, StagesConsistent', KindsConsistent', NoSelfLockout',
           CredentialsCleared'
    PROVE  ProjectionInv'
  <1>1. /\ Made' = Made
        /\ \A i : Own(i)' <=> Own(i)
        /\ \A i : Hot(i)' <=> Hot(i)
        /\ \A i : Stamped(i)' = Stamped(i)
    BY DEF Made, Own, Hot, Stamped
  <1>2. Typed'
    BY <1>1 DEF ProjectionInv, Typed
  <1>3. TempsJournaled' /\ TargetJournaled' /\ JournalExclusive' /\ TargetWhole' /\ Undisturbed'
    BY <1>1 DEF ProjectionInv, TempsJournaled, TargetJournaled, JournalExclusive, TargetWhole,
                Undisturbed
  <1> QED BY <1>2, <1>3 DEF ProjectionInv

\* An operation in progress has no outcome yet.
LEMMA Running ==
    ASSUME op'.outcome = "none"
    PROVE  NoSelfLockout' /\ CredentialsCleared'
  BY DEF NoSelfLockout, CredentialsCleared

\* Going to another stage leaves the rest of the operation.
LEMMA GotoOperation ==
    ASSUME ProjectionInv, NEW stage \in Stages, Goto(stage)
    PROVE  /\ op' \in Operations /\ op'.stage = stage
           /\ op'.kind = op.kind /\ op'.state = op.state /\ op'.read = op.read
           /\ op'.then = op.then /\ op'.outcome = op.outcome
  BY DEF ProjectionInv, Typed, Goto, Operations

\* What has ended holds nothing.
LEMMA EndOperation ==
    ASSUME ProjectionInv, NEW outcome \in Outcomes, End(outcome)
    PROVE  /\ op' \in Operations /\ op'.stage = "idle" /\ op'.outcome = outcome
           /\ op'.kind = op.kind /\ op'.then = op.then
           /\ StagesConsistent' /\ KindsConsistent'
  <1>1. op' = [Idle EXCEPT !.kind = op.kind, !.then = op.then, !.outcome = outcome]
    BY DEF End
  <1>2. op.kind \in {"none", "prepare", "refresh", "remove"} /\
        op.then \in {"none", "publish", "forget", "raise"}
    BY DEF ProjectionInv, Typed, Operations
  <1>3. /\ op' \in Operations /\ op'.stage = "idle" /\ op'.outcome = outcome
        /\ op'.kind = op.kind /\ op'.then = op.then
    BY <1>1, <1>2 DEF Idle, Operations, Stages
  <1>4. StagesConsistent' /\ KindsConsistent'
    BY <1>3 DEF StagesConsistent, KindsConsistent, Clearing, Cleared, Filling, Publishing
  <1> QED BY <1>3, <1>4

\* An end that promises nothing.
LEMMA PlainEnd ==
    ASSUME ProjectionInv, NEW outcome \in Outcomes, End(outcome), outcome # "unowned",
           outcome = "failed" => op.then # "raise",
           outcome = "ok" => op.kind # "remove"
    PROVE  NoSelfLockout' /\ CredentialsCleared'
  BY EndOperation DEF NoSelfLockout, CredentialsCleared

\* The identity of the source is noted; no file changes.
LEMMA IdentifyStep ==
    ASSUME ProjectionInv, Identify
    PROVE  ProjectionInv'
  <1>1. op.stage = "identify" /\ source.stamp \in Nat
    BY DEF Identify, ProjectionInv, Typed
  <1>2. op' = [op EXCEPT !.stage = "read", !.ident = source.stamp]
    BY DEF Identify
  <1>3. /\ op' \in Operations /\ op'.stage = "read" /\ op'.kind = op.kind /\ op'.state = op.state
        /\ op'.then = op.then /\ op'.outcome = op.outcome
    BY <1>1, <1>2 DEF ProjectionInv, Typed, Operations, Stages
  <1>4. StagesConsistent'
    BY <1>1, <1>3 DEF Identify, ProjectionInv, StagesConsistent, Clearing, Cleared, Filling,
                      Publishing, Made
  <1>5. KindsConsistent' /\ op'.outcome = "none"
    BY <1>1, <1>3 DEF ProjectionInv, KindsConsistent, Filling, Publishing
  <1> QED BY <1>3, <1>4, <1>5, Running, FilesStay DEF Identify, ProjectionInv, Typed

\* The publication gives up, and its handler takes over.
LEMMA ToRecover ==
    ASSUME ProjectionInv, op.stage \in Publishing, Goto("recover"),
           UNCHANGED <<files, target, temps, journal, registry, source>>,
           spent' \in [edits: Nat, foreign: Nat, faults: Nat], spent'.foreign = spent.foreign
    PROVE  ProjectionInv'
  <1>1. /\ op' \in Operations /\ op'.stage = "recover" /\ op'.kind = op.kind
        /\ op'.then = op.then /\ op'.outcome = op.outcome
    BY GotoOperation DEF Stages
  <1>2. StagesConsistent'
    BY <1>1 DEF ProjectionInv, StagesConsistent, Clearing, Cleared, Filling, Publishing
  <1>3. KindsConsistent' /\ op'.outcome = "none"
    BY <1>1 DEF ProjectionInv, KindsConsistent, Filling, Publishing
  <1> QED BY <1>1, <1>2, <1>3, Running, FilesStay DEF ProjectionInv, Typed

\* The bytes of the source are read into memory; no file changes.
LEMMA ReadSourceStep ==
    ASSUME ProjectionInv, ReadSource
    PROVE  ProjectionInv'
  <1>1. CASE source.data = Malformed
    BY <1>1, ToRecover DEF ReadSource, Publishing, Filling, ProjectionInv, Typed
  <1>2. CASE source.data # Malformed
    <2>1. op.stage = "read" /\ source.data \in Contents
      BY <1>2 DEF ReadSource, ProjectionInv, Typed
    <2>2. op' = [op EXCEPT !.stage = "write", !.read = source.data]
      BY <1>2 DEF ReadSource
    <2>3. /\ op' \in Operations /\ op'.stage = "write" /\ op'.kind = op.kind
          /\ op'.state = op.state /\ op'.read \in Contents
          /\ op'.then = op.then /\ op'.outcome = op.outcome
      BY <2>1, <2>2 DEF ProjectionInv, Typed, Operations, Stages
    <2>4. StagesConsistent'
      BY <2>1, <2>3 DEF ReadSource, ProjectionInv, StagesConsistent, Clearing, Cleared, Filling,
                        Publishing, Made
    <2>5. KindsConsistent' /\ op'.outcome = "none"
      BY <2>1, <2>3 DEF ProjectionInv, KindsConsistent, Filling, Publishing
    <2> QED BY <2>3, <2>4, <2>5, Running, FilesStay DEF ReadSource, ProjectionInv, Typed
  <1> QED BY <1>1, <1>2

\* The source is compared again; no file changes.
LEMMA RecheckStep ==
    ASSUME ProjectionInv, Recheck
    PROVE  ProjectionInv'
  <1>1. CASE source.stamp = op.ident
    <2>1. op.stage = "recheck" /\ Goto("link")
      BY <1>1 DEF Recheck
    <2>2. /\ op' \in Operations /\ op'.stage = "link" /\ op'.kind = op.kind
          /\ op'.state = op.state /\ op'.then = op.then /\ op'.outcome = op.outcome
      BY <2>1, GotoOperation DEF Stages
    <2>3. StagesConsistent'
      BY <2>1, <2>2 DEF Recheck, ProjectionInv, StagesConsistent, Clearing, Cleared, Filling,
                        Publishing, Made
    <2>4. KindsConsistent' /\ op'.outcome = "none"
      BY <2>1, <2>2 DEF ProjectionInv, KindsConsistent, Filling, Publishing
    <2> QED BY <2>2, <2>3, <2>4, Running, FilesStay DEF Recheck, ProjectionInv, Typed
  <1>2. CASE source.stamp # op.ident
    BY <1>2, ToRecover DEF Recheck, Publishing, Filling, ProjectionInv, Typed
  <1> QED BY <1>1, <1>2

\* An inode that was made is a file with a stamp.
LEMMA StampType ==
    ASSUME ProjectionInv, NEW i \in 1..Made
    PROVE  i \in Files /\ Stamped(i) \in Files \X Nat
  <1>1. files[i] \in FileRecords
    BY DEF ProjectionInv, Typed
  <1>2. files[i].stamp \in Nat
    BY <1>1 DEF FileRecords
  <1>3. i \in Files
    BY ProjectionAssumption DEF ProjectionInv, Typed, Files
  <1> QED BY <1>2, <1>3 DEF Stamped

\* What is found under the final name is journaled next, and if it is setup's it
\* is the file that was just linked.
LEMMA StatFinalStep ==
    ASSUME ProjectionInv, StatFinal
    PROVE  ProjectionInv'
  <1>1. CASE target = None
    BY <1>1, ToRecover DEF StatFinal, Publishing, ProjectionInv, Typed
  <1>2. CASE target # None
    <2>1. /\ op.stage = "stat" /\ target \in 1..Made /\ op.state = journal /\ journal # None
          /\ op.state \in Journals
      BY <1>2 DEF StatFinal, ProjectionInv, Typed, StagesConsistent, Publishing, Filling
    <2>2. Stamped(target) \in Files \X Nat
      BY <2>1, StampType
    <2>3. op' = [op EXCEPT !.stage = "record", !.state.temp = None,
                           !.state.target = Stamped(target)]
      BY <1>2 DEF StatFinal
    <2>4. op'.state = [op.state EXCEPT !.temp = None, !.target = Stamped(target)]
      BY <2>3 DEF ProjectionInv, Typed, Operations
    <2>5. op'.state \in Journals /\ op'.state.temp = None /\ op'.state.target = Stamped(target)
      BY <2>1, <2>2, <2>4 DEF Journals
    <2>6. /\ op' \in Operations /\ op'.stage = "record" /\ op'.kind = op.kind
          /\ op'.then = op.then /\ op'.outcome = op.outcome
      BY <2>3, <2>5 DEF ProjectionInv, Typed, Operations, Stages
    <2>7. op'.state # None
      BY <2>5, ProjectionAssumption DEF Journals, Files
    <2>8. StagesConsistent'
      BY <2>1, <2>5, <2>6, <2>7 DEF StatFinal, ProjectionInv, StagesConsistent, Clearing,
             Cleared, Filling, Publishing, Hot, Own, Stamped
    <2>9. KindsConsistent' /\ op'.outcome = "none"
      BY <2>1, <2>6 DEF ProjectionInv, KindsConsistent, Filling, Publishing
    <2> QED BY <2>6, <2>8, <2>9, Running, FilesStay DEF StatFinal, ProjectionInv, Typed
  <1> QED BY <1>1, <1>2

\* The check whether the copy can be read changes no file.
LEMMA ReadinessStep ==
    ASSUME ProjectionInv, Readiness
    PROVE  ProjectionInv'
  <1> DEFINE ready == target # None /\ files[target].data \in Contents
  <1>1. CASE ready
    <2>1. op.stage = "check" /\ Goto("route")
      BY <1>1 DEF Readiness
    <2>2. /\ op' \in Operations /\ op'.stage = "route" /\ op'.kind = op.kind
          /\ op'.then = op.then /\ op'.outcome = op.outcome
      BY <2>1, GotoOperation DEF Stages
    <2>3. StagesConsistent'
      BY <2>1, <2>2 DEF Readiness, ProjectionInv, StagesConsistent, Clearing, Cleared, Filling,
                        Publishing
    <2>4. KindsConsistent' /\ op'.outcome = "none"
      BY <2>1, <2>2 DEF ProjectionInv, KindsConsistent, Filling, Publishing
    <2> QED BY <2>2, <2>3, <2>4, Running, FilesStay DEF Readiness, ProjectionInv, Typed
  <1>2. CASE ~ready
    BY <1>2, ToRecover DEF Readiness, Publishing, ProjectionInv, Typed
  <1> QED BY <1>1, <1>2

\* The handler takes over what the durable journal says.
LEMMA RecoverStep ==
    ASSUME ProjectionInv, Recover
    PROVE  ProjectionInv'
  <1>1. op.stage = "recover" /\ journal # None /\ journal \in Journals /\ op.kind # "remove"
        /\ op.outcome = "none"
    BY DEF Recover, ProjectionInv, Typed, StagesConsistent, KindsConsistent, Publishing
  <1>2. op' = [op EXCEPT !.stage = "target", !.then = "raise", !.state = journal]
    BY DEF Recover
  <1>3. /\ op' \in Operations /\ op'.stage = "target" /\ op'.kind = op.kind
        /\ op'.state = journal /\ op'.then = "raise" /\ op'.outcome = op.outcome
    BY <1>1, <1>2 DEF ProjectionInv, Typed, Operations, Stages
  <1>4. StagesConsistent'
    BY <1>1, <1>3 DEF Recover, StagesConsistent, Agrees, Clearing, Cleared, Filling, Publishing
  <1>5. KindsConsistent'
    BY <1>1, <1>3 DEF KindsConsistent, Filling, Publishing
  <1> QED BY <1>1, <1>3, <1>4, <1>5, Running, FilesStay DEF Recover, ProjectionInv, Typed

\* A file of setup's is always recognised.
LEMMA OwnRecognised ==
    ASSUME ProjectionInv, Agrees, target # None, Own(target)
    PROVE  TargetOwned /\ Links(target) = IF JournaledPair THEN 2 ELSE 1
  <1>1. Hot(target) /\ target \in 1..Made
    BY DEF ProjectionInv, Typed, TargetWhole, Hot, Secret
  <1>2. journal # None /\ (journal.temp = target \/ journal.target = Stamped(target))
    BY <1>1 DEF ProjectionInv, TargetJournaled
  <1>3. target \in temps => journal.temp = target
    BY <1>1 DEF ProjectionInv, TempsJournaled
  <1>4. op.state.target = journal.target /\ op.state.temp = journal.temp
    BY <1>2 DEF Agrees
  <1>5. None \notin Nat /\ Stamped(target) # None
    <2>1. Stamped(target) \in Files \X Nat
      BY <1>1, StampType
    <2> QED BY <2>1, ProjectionAssumption DEF Files
  <1>6. journal.temp = target => journal.target = None
    BY <1>1, <1>2, ProjectionAssumption DEF ProjectionInv, JournalExclusive
  <1>7. TargetOwned
    BY <1>2, <1>4, <1>5, <1>6, <1>1 DEF TargetOwned
  <1>8. JournaledPair <=> target \in temps
    BY <1>1, <1>3, <1>4, <1>5, <1>6 DEF JournaledPair
  <1> QED BY <1>7, <1>8 DEF Links

\* An operation begins with what the journal says, or with a new journal.
LEMMA StartStep ==
    ASSUME ProjectionInv, NEW kind \in {"prepare", "refresh", "remove"},
           NEW candidate \in Routes \cup {None}, NEW s \in Sources, Start(kind, candidate, s)
    PROVE  ProjectionInv'
  <1> DEFINE found == IF journal = None THEN Unowned(s) ELSE journal
             state == IF kind = "remove" THEN found ELSE [found EXCEPT !.source = s]
             then == IF kind = "remove" THEN "forget" ELSE "publish"
             begun == [Idle EXCEPT !.kind = kind, !.expected = registry, !.candidate = candidate,
                                   !.state = state, !.then = then]
             refused == journal = None /\ kind = "refresh"
             unowned == journal = None /\ target # None
             other == journal # None /\ kind = "refresh" /\ journal.source # s
             stage == IF kind = "remove" THEN "owned" ELSE "target"
  <1>1. /\ registry \in {None} \cup Routes /\ journal \in {None} \cup Journals
        /\ UNCHANGED <<files, target, temps, journal, registry, source, spent>>
        /\ spent \in [edits: Nat, foreign: Nat, faults: Nat]
        /\ source \in [data: Contents \cup {Malformed}, stamp: Nat]
    BY DEF Start, ProjectionInv, Typed
  <1>2. found \in Journals
    BY <1>1 DEF Unowned, Journals
  <1>3. /\ state \in Journals /\ state.target = found.target /\ state.temp = found.temp
        /\ then \in {"forget", "publish"} /\ (then = "forget" <=> kind = "remove")
    BY <1>2 DEF Journals
  <1>4. state # None
    BY <1>3, ProjectionAssumption DEF Journals, Files
  <1>5. /\ found.target = IF journal = None THEN None ELSE journal.target
        /\ found.temp = IF journal = None THEN None ELSE journal.temp
    BY <1>1 DEF Unowned
  <1>6. \/ refused /\ op' = [begun EXCEPT !.outcome = "refused"]
        \/ unowned /\ op' = [begun EXCEPT !.outcome = "unowned"]
        \/ other /\ op' = [begun EXCEPT !.outcome = "refused"]
        \/ op' = [begun EXCEPT !.stage = stage]
    <2>1. op' = CASE refused -> [begun EXCEPT !.outcome = "refused"]
                  [] unowned -> [begun EXCEPT !.outcome = "unowned"]
                  [] other -> [begun EXCEPT !.outcome = "refused"]
                  [] OTHER -> [begun EXCEPT !.stage = stage]
      BY Zenon DEF Start
    <2> HIDE DEF begun, refused, unowned, other, stage
    <2> QED BY <2>1
  <1> HIDE DEF found, state, then
  <1>7. ASSUME NEW outcome \in {"refused", "unowned"}, op' = [begun EXCEPT !.outcome = outcome],
               outcome = "unowned" => unowned
        PROVE  ProjectionInv'
    <2>1. /\ op' \in Operations /\ op'.stage = "idle" /\ op'.outcome = outcome
      BY <1>1, <1>3, <1>7 DEF Idle, Operations, Stages, Outcomes
    <2>2. StagesConsistent' /\ KindsConsistent' /\ CredentialsCleared'
      BY <2>1 DEF StagesConsistent, KindsConsistent, CredentialsCleared, Clearing, Cleared,
                  Filling, Publishing
    <2>3. unowned => spent.foreign > 0
      <3>1. unowned /\ spent.foreign = 0 => Hot(target)
        BY DEF ProjectionInv, Typed, Undisturbed, TargetWhole, Hot, Secret
      <3>2. ~(unowned /\ spent.foreign = 0)
        BY <3>1 DEF ProjectionInv, TargetJournaled
      <3> QED BY <1>1, <3>2
    <2>4. NoSelfLockout'
      BY <1>1, <1>7, <2>1, <2>3 DEF NoSelfLockout
    <2> QED BY <1>1, <2>1, <2>2, <2>4, FilesStay
  <1>8. CASE op' = [begun EXCEPT !.stage = stage]
    <2>1. /\ op' \in Operations /\ op'.stage = stage /\ op'.outcome = "none" /\ op'.kind = kind
          /\ op'.then = then /\ op'.state = state
      BY <1>1, <1>3, <1>8 DEF Idle, Operations, Stages, Outcomes
    <2>2. StagesConsistent'
      BY <1>1, <1>3, <1>4, <1>5, <2>1 DEF StagesConsistent, Agrees, Clearing, Cleared, Filling,
                                          Publishing
    <2>3. KindsConsistent'
      BY <1>3, <2>1 DEF KindsConsistent, Filling, Publishing
    <2> QED BY <1>1, <2>1, <2>2, <2>3, Running, FilesStay
  <1> QED BY <1>6, <1>7, <1>8

\* A step of the clean-up goes on to another one of the same.
LEMMA ClearingStep ==
    ASSUME ProjectionInv, op.stage \in Clearing, NEW stage \in Clearing, Goto(stage),
           UNCHANGED <<files, target, temps, journal, source, spent>>,
           registry' \in {None} \cup Routes,
           stage = "unlink" => target # None, stage = "temp" => target = None,
           stage # "owned", stage = "detach" => op.stage = "owned"
    PROVE  ProjectionInv'
  <1>1. stage \in Stages
    BY DEF Clearing, Stages
  <1>2. /\ op' \in Operations /\ op'.stage = stage /\ op'.kind = op.kind /\ op'.state = op.state
        /\ op'.then = op.then /\ op'.outcome = op.outcome
    BY <1>1, GotoOperation
  <1>3. Agrees'
    BY <1>2 DEF ProjectionInv, StagesConsistent, Agrees
  <1>4. StagesConsistent'
    BY <1>2, <1>3 DEF StagesConsistent, Clearing, Cleared, Filling, Publishing
  <1>5. KindsConsistent' /\ op'.outcome = "none"
    BY <1>2 DEF ProjectionInv, KindsConsistent, Clearing, Filling, Publishing
  <1> QED BY <1>2, <1>4, <1>5, Running, FilesStay DEF ProjectionInv, Typed

\* What is under the final name is refused only if somebody else put it there.
LEMMA UnownedEnd ==
    ASSUME ProjectionInv, op.stage \in Clearing, End("unowned"), target # None, ~Own(target),
           UNCHANGED <<files, target, temps, journal, registry, source, spent>>
    PROVE  ProjectionInv'
  <1>1. "unowned" \in Outcomes
    BY DEF Outcomes
  <1>2. spent.foreign # 0
    BY DEF ProjectionInv, Typed, Undisturbed
  <1>3. NoSelfLockout'
    BY <1>2 DEF NoSelfLockout, ProjectionInv, Typed
  <1>4. CredentialsCleared'
    BY <1>1, EndOperation DEF CredentialsCleared
  <1> QED BY <1>1, <1>3, <1>4, EndOperation, FilesStay DEF ProjectionInv, Typed

\* A copy that is not recognised ends the operation before any change.
LEMMA CheckOwnedStep ==
    ASSUME ProjectionInv, CheckOwned
    PROVE  ProjectionInv'
  <1> DEFINE accepted == TargetOwned /\ (target # None =>
                                           Links(target) = (IF JournaledPair THEN 2 ELSE 1))
  <1>1. op.stage = "owned" /\ Agrees
    BY DEF CheckOwned, ProjectionInv, StagesConsistent, Clearing
  <1>2. CASE accepted
    BY <1>1, <1>2, ClearingStep DEF CheckOwned, Clearing, ProjectionInv, Typed
  <1>3. CASE ~accepted
    <2>1. target = None => TargetOwned
      BY DEF TargetOwned
    <2>2. target # None /\ ~Own(target)
      BY <1>1, <1>3, <2>1, OwnRecognised
    <2> QED BY <1>1, <1>3, <2>2, UnownedEnd DEF CheckOwned, Clearing
  <1> QED BY <1>2, <1>3

\* A look at the final name changes nothing.
LEMMA StatTargetStep ==
    ASSUME ProjectionInv, StatTarget
    PROVE  ProjectionInv'
  <1>1. op.stage = "target" /\ Agrees
    BY DEF StatTarget, ProjectionInv, StagesConsistent, Clearing
  <1>2. CASE target = None
    BY <1>1, <1>2, ClearingStep DEF StatTarget, Clearing, ProjectionInv, Typed
  <1>3. CASE target # None /\ TargetOwned
    BY <1>1, <1>3, ClearingStep DEF StatTarget, Clearing, ProjectionInv, Typed
  <1>4. CASE target # None /\ ~TargetOwned
    BY <1>1, <1>4, OwnRecognised, UnownedEnd DEF StatTarget, Clearing
  <1> QED BY <1>2, <1>3, <1>4

\* An operation ends without any promise about the files.
LEMMA PlainEndStep ==
    ASSUME ProjectionInv, NEW outcome \in Outcomes, End(outcome), outcome # "unowned",
           outcome = "failed" => op.then # "raise", outcome = "ok" => op.kind # "remove",
           UNCHANGED <<files, target, temps, journal, source>>,
           registry' \in {None} \cup Routes,
           spent' \in [edits: Nat, foreign: Nat, faults: Nat], spent'.foreign = spent.foreign
    PROVE  ProjectionInv'
  BY EndOperation, PlainEnd, FilesStay DEF ProjectionInv, Typed

\* The registry loses its route to the copy; no file changes.
LEMMA DetachStep ==
    ASSUME ProjectionInv, Detach
    PROVE  ProjectionInv'
  <1>1. op.stage = "detach" /\ op.candidate \in {None} \cup Routes
    BY DEF Detach, ProjectionInv, Typed, Operations
  <1>2. CASE Publishes
    BY <1>1, <1>2, ClearingStep DEF Detach, Clearing
  <1>3. CASE ~Publishes
    BY <1>1, <1>3, PlainEndStep DEF Detach, Outcomes, ProjectionInv, Typed
  <1> QED BY <1>2, <1>3

\* The registry gets its route to the copy; no file changes.
LEMMA PublishRouteStep ==
    ASSUME ProjectionInv, PublishRoute
    PROVE  ProjectionInv'
  <1>1. op.stage = "route" /\ op.candidate \in {None} \cup Routes /\ op.kind # "remove"
    BY DEF PublishRoute, ProjectionInv, Typed, Operations, KindsConsistent, Publishing
  <1>2. CASE Publishes
    BY <1>1, <1>2, PlainEndStep DEF PublishRoute, Outcomes, ProjectionInv, Typed
  <1>3. CASE ~Publishes
    BY <1>1, <1>3, ToRecover DEF PublishRoute, Publishing, ProjectionInv, Typed
  <1> QED BY <1>2, <1>3

\* A failure or a kill leaves the files and the journal as they are.
LEMMA FaultStep ==
    ASSUME ProjectionInv, Fault \/ Kill
    PROVE  ProjectionInv'
  <1>1. /\ op.stage # "idle"
        /\ spent' = [spent EXCEPT !.faults = @ + 1]
        /\ UNCHANGED <<files, target, temps, journal, registry, source>>
    BY DEF Fault, Kill
  <1>2. spent' \in [edits: Nat, foreign: Nat, faults: Nat] /\ spent'.foreign = spent.foreign
    BY <1>1 DEF ProjectionInv, Typed
  <1>3. {"stuck", "failed", "killed"} \subseteq Outcomes
    BY DEF Outcomes
  <1>4. registry' \in {None} \cup Routes
    BY <1>1 DEF ProjectionInv, Typed
  <1>5. CASE Kill
    BY <1>1, <1>2, <1>3, <1>4, <1>5, PlainEndStep DEF Kill
  <1>6. CASE Fault
    <2> DEFINE handled == op.then = "publish" /\
                          op.stage \notin {"target", "unlink", "temp", "reset", "recover"}
    <2>1. CASE handled
      <3>1. op.stage \in Publishing
        BY <1>1, <2>1 DEF ProjectionInv, Typed, Operations, Stages, KindsConsistent, Publishing, Filling
      <3> QED BY <1>1, <1>2, <1>6, <2>1, <3>1, ToRecover DEF Fault, Abort
    <2>2. CASE ~handled
      <3>1. End(IF op.then = "raise" THEN "stuck" ELSE "failed")
        BY <1>6, <2>2 DEF Fault, Abort
      <3> QED BY <1>1, <1>2, <1>3, <1>4, <3>1, PlainEndStep
    <2> QED BY <2>1, <2>2
  <1> QED BY <1>5, <1>6

-----------------------------------------------------------------------------
(* Steps that write the journal. *)

\* While no file of setup's holds a secret, any journal will do.
LEMMA QuietJournal ==
    ASSUME ProjectionInv, Quiet, UNCHANGED <<files, target, temps, registry, source, spent>>,
           journal' \in {None} \cup Journals, JournalExclusive',
           op' \in Operations, StagesConsistent', KindsConsistent', NoSelfLockout',
           CredentialsCleared'
    PROVE  ProjectionInv'
  <1>1. /\ Made' = Made
        /\ \A i : Own(i)' <=> Own(i)
        /\ \A i : Hot(i)' <=> Hot(i)
    BY DEF Made, Own, Hot
  <1>2. Typed'
    BY <1>1 DEF ProjectionInv, Typed
  <1>3. TempsJournaled' /\ TargetJournaled'
    BY <1>1 DEF Quiet, Linked, TempsJournaled, TargetJournaled
  <1>4. TargetWhole' /\ Undisturbed'
    BY <1>1 DEF ProjectionInv, TargetWhole, Undisturbed
  <1> QED BY <1>2, <1>3, <1>4 DEF ProjectionInv

\* If nobody else touched the copy, then there is no credential at all.
LEMMA QuietEmpty ==
    ASSUME ProjectionInv, Quiet, spent.foreign = 0
    PROVE  \A i \in Linked : files[i].data = Empty
  <1>1. ASSUME NEW i \in Linked
        PROVE  files[i].data = Empty
    <2>1. i \in 1..Made
      BY DEF Linked, ProjectionInv, Typed
    <2>2. Own(i) /\ files[i] \in FileRecords
      BY <2>1 DEF ProjectionInv, Undisturbed, Typed
    <2> QED BY <2>2 DEF Quiet, Hot, FileRecords
  <1> QED BY <1>1

\* A journal that owns nothing is a journal.
LEMMA UnownedType ==
    ASSUME NEW s \in Sources
    PROVE  /\ Unowned(s) \in Journals /\ Unowned(s) # None
           /\ Unowned(s).target = None /\ Unowned(s).temp = None
  <1>1. Unowned(s) \in Journals
    BY DEF Unowned, Journals
  <1>2. Unowned(s) # None
    BY <1>1, ProjectionAssumption DEF Journals, Files
  <1> QED BY <1>1, <1>2 DEF Unowned

\* The journal names nothing once nothing of setup is left.
LEMMA ResetStep ==
    ASSUME ProjectionInv, Reset
    PROVE  ProjectionInv'
  <1> DEFINE fresh == Unowned(op.state.source)
  <1>1. op.stage = "reset" /\ Quiet /\ op.state \in Journals /\ op.kind # "remove" /\ op.outcome = "none"
    BY DEF Reset, ProjectionInv, Typed, Operations, StagesConsistent, KindsConsistent, Cleared
  <1>2. op.state.source \in Sources
    BY <1>1 DEF Journals
  <1>3. fresh \in Journals /\ fresh # None /\ fresh.target = None /\ fresh.temp = None
    BY <1>2, UnownedType
  <1> HIDE DEF fresh
  <1>4. journal' = fresh /\ UNCHANGED <<files, target, temps, registry, source, spent>>
    BY DEF Reset, fresh
  <1>5. JournalExclusive'
    BY <1>3, <1>4 DEF JournalExclusive
  <1>6. CASE op.then = "raise"
    <2>1. End("failed") /\ "failed" \in Outcomes
      BY <1>6 DEF Reset, Outcomes
    <2>2. Linked' = Linked /\ \A i : files'[i] = files[i]
      BY <1>4 DEF Linked
    <2>3. CredentialsCleared'
      BY <1>1, <1>4, <2>1, <2>2, EndOperation, QuietEmpty DEF CredentialsCleared
    <2>4. NoSelfLockout'
      BY <2>1, EndOperation DEF NoSelfLockout
    <2> QED BY <1>1, <1>3, <1>4, <1>5, <2>1, <2>3, <2>4, EndOperation, QuietJournal
  <1>7. CASE op.then # "raise"
    <2>1. op' = [op EXCEPT !.stage = "create", !.state = fresh]
      BY <1>7 DEF Reset, fresh
    <2>2. op.then = "publish"
      BY <1>1, <1>7 DEF ProjectionInv, Typed, Operations, KindsConsistent
    <2>3. /\ op' \in Operations /\ op'.stage = "create" /\ op'.state = fresh
          /\ op'.kind = op.kind /\ op'.then = op.then /\ op'.outcome = op.outcome
      BY <1>3, <2>1 DEF ProjectionInv, Typed, Operations, Stages
    <2>4. Quiet'
      BY <1>1, <1>4 DEF Quiet, Linked, Hot, Own
    <2>5. StagesConsistent'
      BY <1>3, <1>4, <2>3, <2>4 DEF StagesConsistent, Clearing, Cleared, Filling, Publishing
    <2>6. KindsConsistent'
      BY <1>1, <2>2, <2>3 DEF KindsConsistent, Filling, Publishing
    <2> QED BY <1>1, <1>3, <1>4, <1>5, <2>3, <2>5, <2>6, Running, QuietJournal
  <1> QED BY <1>6, <1>7

\* The journal is removed once nothing of setup is left.
LEMMA ForgetJournalStep ==
    ASSUME ProjectionInv, ForgetJournal
    PROVE  ProjectionInv'
  <1>1. Quiet /\ UNCHANGED <<files, target, temps, registry, source, spent>> /\ journal' = None
    BY DEF ForgetJournal, ProjectionInv, StagesConsistent, Cleared
  <1>2. End("ok") /\ "ok" \in Outcomes
    BY DEF ForgetJournal, Outcomes
  <1>3. Linked' = Linked
    BY <1>1 DEF Linked
  <1>4. CredentialsCleared'
    BY <1>1, <1>2, <1>3, EndOperation, QuietEmpty DEF CredentialsCleared
  <1>5. NoSelfLockout' /\ JournalExclusive'
    BY <1>1, <1>2, EndOperation DEF NoSelfLockout, JournalExclusive
  <1> QED BY <1>1, <1>2, <1>4, <1>5, EndOperation, QuietJournal

\* The journal names the temporary file before it has any byte of the source.
LEMMA JournalTempStep ==
    ASSUME ProjectionInv, JournalTemp
    PROVE  ProjectionInv'
  <1>1. /\ op.stage = "journal" /\ Quiet /\ op.state \in Journals /\ op.state # None
        /\ op.state.temp \in 1..Made /\ op.state.target = None /\ target # op.state.temp
    BY DEF JournalTemp, ProjectionInv, Typed, Operations, StagesConsistent, Cleared
  <1>2. /\ journal' = op.state /\ Goto("identify")
        /\ UNCHANGED <<files, target, temps, registry, source, spent>>
    BY DEF JournalTemp
  <1>3. /\ op' \in Operations /\ op'.stage = "identify" /\ op'.state = op.state
        /\ op'.kind = op.kind /\ op'.then = op.then /\ op'.outcome = op.outcome
    BY <1>2, GotoOperation DEF Stages
  <1>4. JournalExclusive'
    BY <1>1, <1>2 DEF JournalExclusive
  <1>5. StagesConsistent'
    BY <1>1, <1>2, <1>3 DEF StagesConsistent, Clearing, Cleared, Filling, Publishing, Made
  <1>6. KindsConsistent' /\ op'.outcome = "none"
    BY <1>1, <1>3 DEF ProjectionInv, KindsConsistent, Filling, Publishing
  <1> QED BY <1>1, <1>2, <1>3, <1>4, <1>5, <1>6, Running, QuietJournal

\* The journal names the copy in place of the temporary file, which is gone by then.
LEMMA RecordTargetStep ==
    ASSUME ProjectionInv, RecordTarget
    PROVE  ProjectionInv'
  <1>1. /\ op.stage = "record" /\ op.state \in Journals /\ op.state # None /\ op.state.temp = None
        /\ \A i \in temps : ~Hot(i)
        /\ target # None /\ Hot(target) => op.state.target = Stamped(target)
    BY DEF RecordTarget, ProjectionInv, Typed, Operations, StagesConsistent
  <1>2. /\ journal' = op.state /\ Goto("check")
        /\ UNCHANGED <<files, target, temps, registry, source, spent>>
    BY DEF RecordTarget
  <1>3. /\ op' \in Operations /\ op'.stage = "check" /\ op'.state = op.state
        /\ op'.kind = op.kind /\ op'.then = op.then /\ op'.outcome = op.outcome
    BY <1>2, GotoOperation DEF Stages
  <1>4. /\ Made' = Made
        /\ \A i : Own(i)' <=> Own(i)
        /\ \A i : Hot(i)' <=> Hot(i)
        /\ \A i : Stamped(i)' = Stamped(i)
    BY <1>2 DEF Made, Own, Hot, Stamped
  <1>5. Typed'
    BY <1>1, <1>2, <1>3, <1>4 DEF ProjectionInv, Typed
  <1>6. TempsJournaled' /\ TargetJournaled' /\ JournalExclusive'
    BY <1>1, <1>2, <1>4 DEF TempsJournaled, TargetJournaled, JournalExclusive
  <1>7. TargetWhole' /\ Undisturbed'
    BY <1>2, <1>4 DEF ProjectionInv, TargetWhole, Undisturbed
  <1>8. StagesConsistent'
    BY <1>1, <1>2, <1>3 DEF StagesConsistent, Clearing, Cleared, Filling, Publishing
  <1>9. KindsConsistent' /\ op'.outcome = "none"
    BY <1>1, <1>3 DEF ProjectionInv, KindsConsistent, Filling, Publishing
  <1> QED BY <1>5, <1>6, <1>7, <1>8, <1>9, Running DEF ProjectionInv

-----------------------------------------------------------------------------
(* Steps that unlink, make, fill and link files. *)

\* Only a name is removed that no secret of setup's needs any more.
LEMMA UnlinkTargetStep ==
    ASSUME ProjectionInv, UnlinkTarget
    PROVE  ProjectionInv'
  <1>1. op.stage = "unlink" /\ Agrees /\ target' = None
        /\ UNCHANGED <<files, temps, journal, registry, source, spent>>
    BY DEF UnlinkTarget, ProjectionInv, StagesConsistent, Clearing
  <1>2. CASE target = None
    <2>1. End("failed") /\ "failed" \in Outcomes
      BY <1>2 DEF UnlinkTarget, Outcomes
    <2>2. spent.foreign # 0
      BY <1>1, <1>2 DEF ProjectionInv, StagesConsistent
    <2>3. NoSelfLockout' /\ CredentialsCleared'
      BY <1>1, <2>1, <2>2, EndOperation DEF NoSelfLockout, CredentialsCleared
    <2> QED BY <1>1, <1>2, <2>1, <2>3, EndOperation, FilesStay DEF ProjectionInv, Typed
  <1>3. CASE target # None
    <2>1. Goto("temp") /\ "temp" \in Stages
      BY <1>3 DEF UnlinkTarget, Stages
    <2>2. /\ op' \in Operations /\ op'.stage = "temp" /\ op'.state = op.state
          /\ op'.kind = op.kind /\ op'.then = op.then /\ op'.outcome = op.outcome
      BY <2>1, GotoOperation
    <2>3. /\ Made' = Made
          /\ \A i : Own(i)' <=> Own(i)
          /\ \A i : Hot(i)' <=> Hot(i)
      BY <1>1 DEF Made, Own, Hot
    <2>4. Typed'
      BY <1>1, <2>2, <2>3 DEF ProjectionInv, Typed
    <2>5. TempsJournaled' /\ TargetJournaled' /\ JournalExclusive' /\ TargetWhole' /\ Undisturbed'
      BY <1>1, <2>3 DEF ProjectionInv, TempsJournaled, TargetJournaled, JournalExclusive,
                        TargetWhole, Undisturbed
    <2>6. StagesConsistent'
      BY <1>1, <2>2 DEF StagesConsistent, Agrees, Clearing, Cleared, Filling, Publishing
    <2>7. KindsConsistent' /\ op'.outcome = "none"
      BY <1>1, <2>2 DEF ProjectionInv, KindsConsistent, Filling, Publishing
    <2> QED BY <2>4, <2>5, <2>6, <2>7, Running DEF ProjectionInv
  <1> QED BY <1>2, <1>3

\* The temporary name of the journal is taken away.
LEMMA UnlinkTempStep ==
    ASSUME ProjectionInv, UnlinkTemp
    PROVE  ProjectionInv'
  <1> DEFINE next == Continue(op.then)
  <1>1. /\ op.stage = "temp" /\ Agrees /\ temps' = temps \ {op.state.temp}
        /\ UNCHANGED <<files, target, journal, registry, source, spent>>
        /\ target # None => ~Own(target)
    BY DEF UnlinkTemp, ProjectionInv, StagesConsistent, Clearing
  <1>2. next = IF op.then = "forget" THEN "forget" ELSE "reset"
    BY DEF Continue
  <1>3. Goto(next) /\ next \in Stages
    BY <1>2 DEF UnlinkTemp, Stages
  <1> HIDE DEF next
  <1>4. /\ op' \in Operations /\ op'.stage = next /\ op'.state = op.state
        /\ op'.kind = op.kind /\ op'.then = op.then /\ op'.outcome = op.outcome
    BY <1>3, GotoOperation
  <1>5. /\ Made' = Made
        /\ \A i : Own(i)' <=> Own(i)
        /\ \A i : Hot(i)' <=> Hot(i)
        /\ \A i : Stamped(i)' = Stamped(i)
    BY <1>1 DEF Made, Own, Hot, Stamped
  <1>6. Typed'
    BY <1>1, <1>4, <1>5 DEF ProjectionInv, Typed
  <1>7. TempsJournaled' /\ TargetJournaled' /\ JournalExclusive' /\ TargetWhole' /\ Undisturbed'
    BY <1>1, <1>5 DEF ProjectionInv, TempsJournaled, TargetJournaled, JournalExclusive,
                      TargetWhole, Undisturbed
  <1>8. Quiet'
    <2>1. ASSUME NEW i \in temps'
          PROVE  ~Hot(i)
      <3>1. i \in temps /\ i # op.state.temp
        BY <1>1
      <3>2. Hot(i) => journal # None /\ journal.temp = i
        BY <3>1 DEF ProjectionInv, TempsJournaled
      <3> QED BY <1>1, <3>1, <3>2 DEF Agrees
    <2>2. target # None => ~Hot(target)
      BY <1>1 DEF Hot
    <2> QED BY <1>1, <1>5, <2>1, <2>2 DEF Quiet, Linked
  <1>9. StagesConsistent'
    BY <1>1, <1>2, <1>4, <1>8 DEF StagesConsistent, Agrees, Clearing, Cleared, Filling, Publishing
  <1>10. KindsConsistent' /\ op'.outcome = "none"
    BY <1>1, <1>2, <1>4 DEF ProjectionInv, KindsConsistent, Filling, Publishing
  <1> QED BY <1>6, <1>7, <1>9, <1>10, Running DEF ProjectionInv

\* A new file is the next inode, and the others stay as they are.
LEMMA AddFile ==
    ASSUME ProjectionInv, Made < MaxFiles, NEW maker \in {"setup", "other", "edited"},
           NEW data \in Secret \cup {Empty}, Add(maker, data)
    PROVE  /\ Made' = Made + 1 /\ Made + 1 \in 0..MaxFiles /\ Made \in Nat
           /\ files' \in [1..(Made + 1) -> FileRecords]
           /\ \A i \in 1..Made : files'[i] = files[i]
           /\ files'[Made + 1] = [maker |-> maker, data |-> data, stamp |-> 0]
  <1>1. /\ Made \in 0..MaxFiles /\ MaxFiles \in Nat /\ files \in [1..Made -> FileRecords]
        /\ DOMAIN files = 1..Made
    BY ProjectionAssumption DEF ProjectionInv, Typed
  <1>2. PICK n \in Nat : n = Made
    BY <1>1
  <1>3. n < MaxFiles /\ DOMAIN files \cup {n + 1} = 1..(n + 1)
    BY <1>1, <1>2
  <1>4. files' = [i \in 1..(n + 1) |-> IF i = n + 1 THEN [maker |-> maker, data |-> data, stamp |-> 0]
                                       ELSE files[i]]
    BY <1>2, <1>3, Zenon DEF Add
  <1>5. [maker |-> maker, data |-> data, stamp |-> 0] \in FileRecords
    BY DEF FileRecords
  <1>6. files' \in [1..(n + 1) -> FileRecords]
    BY <1>1, <1>2, <1>4, <1>5
  <1>7. Cardinality(1..(n + 1)) = n + 1
    BY FS_Interval
  <1>8. Made' = n + 1
    BY <1>4, <1>7 DEF Made
  <1> QED BY <1>1, <1>2, <1>3, <1>4, <1>6, <1>8

\* The new file is empty, and the process knows it before the journal does.
LEMMA CreateTempStep ==
    ASSUME ProjectionInv, CreateTemp
    PROVE  ProjectionInv'
  <1>1. /\ op.stage = "create" /\ Made < MaxFiles /\ Quiet /\ op.state # None
        /\ op.state \in Journals /\ op.state.target = None /\ journal # None
        /\ op.then = "publish" /\ op.outcome = "none" /\ op.kind # "remove"
    BY DEF CreateTemp, ProjectionInv, Typed, Operations, StagesConsistent, KindsConsistent,
           Cleared, Publishing
  <1>2. /\ Made' = Made + 1 /\ Made + 1 \in 0..MaxFiles /\ Made \in Nat
        /\ files' \in [1..(Made + 1) -> FileRecords]
        /\ \A i \in 1..Made : files'[i] = files[i]
        /\ files'[Made + 1] = [maker |-> "setup", data |-> Empty, stamp |-> 0]
    BY <1>1, AddFile DEF CreateTemp
  <1>3. PICK n \in 1..Made' : n = Made + 1
    BY <1>2
  <1>4. /\ temps' = temps \cup {n}
        /\ UNCHANGED <<target, journal, registry, source, spent>>
        /\ op' = [op EXCEPT !.stage = "journal", !.state.temp = n]
    BY <1>3 DEF CreateTemp
  <1>5. n \in Files
    BY <1>2, <1>3 DEF Files
  <1>6. op'.state = [op.state EXCEPT !.temp = n]
    BY <1>4 DEF ProjectionInv, Typed, Operations
  <1>7. op'.state \in Journals /\ op'.state.temp = n /\ op'.state.target = None
    BY <1>1, <1>5, <1>6 DEF Journals
  <1>8. op'.state # None
    BY <1>7, ProjectionAssumption DEF Journals, Files
  <1>9. /\ op' \in Operations /\ op'.stage = "journal" /\ op'.kind = op.kind
        /\ op'.then = op.then /\ op'.outcome = op.outcome
    BY <1>4, <1>7 DEF ProjectionInv, Typed, Operations, Stages
  <1>10. Typed'
    BY <1>2, <1>3, <1>4, <1>9 DEF ProjectionInv, Typed
  <1>11. target # n /\ temps \subseteq 1..Made /\ target \in {None} \cup 1..Made
    BY <1>2, <1>3, ProjectionAssumption DEF ProjectionInv, Typed
  <1>12. /\ \A i \in 1..Made : (Own(i)' <=> Own(i)) /\ (Hot(i)' <=> Hot(i))
         /\ Own(n)'
    BY <1>2, <1>3 DEF Own, Hot
  <1>13. ~Hot(n)'
    BY <1>2, <1>3, ProjectionAssumption DEF Hot, Secret, Empty, Partial
  <1>14. Quiet'
    BY <1>1, <1>4, <1>11, <1>12, <1>13 DEF Quiet, Linked
  <1>15. TempsJournaled' /\ TargetJournaled'
    BY <1>4, <1>14 DEF Quiet, Linked, TempsJournaled, TargetJournaled
  <1>16. JournalExclusive' /\ TargetWhole'
    BY <1>2, <1>4, <1>11, <1>12 DEF ProjectionInv, JournalExclusive, TargetWhole
  <1>17. Undisturbed'
    BY <1>2, <1>3, <1>4, <1>12 DEF ProjectionInv, Undisturbed
  <1>18. StagesConsistent'
    BY <1>1, <1>3, <1>4, <1>7, <1>8, <1>9, <1>11, <1>14
       DEF StagesConsistent, Clearing, Cleared, Filling, Publishing
  <1>19. KindsConsistent' /\ op'.outcome = "none"
    BY <1>1, <1>9 DEF KindsConsistent, Filling, Publishing
  <1> QED BY <1>10, <1>15, <1>16, <1>17, <1>18, <1>19, Running DEF ProjectionInv

\* Bytes of the source go into the file that the durable journal names.
LEMMA WriteSecretStep ==
    ASSUME ProjectionInv, WriteSecret
    PROVE  ProjectionInv'
  <1> DEFINE new == IF op.stage = "write" THEN Partial ELSE op.read
             next == IF op.stage = "write" THEN "flush" ELSE "recheck"
  <1>1. /\ op.stage \in {"write", "flush"} /\ journal # None /\ journal = op.state
        /\ op.state # None /\ op.state.temp \in 1..Made /\ op.state.target = None
        /\ target # op.state.temp /\ op.read \in Contents
        /\ op.then = "publish" /\ op.outcome = "none" /\ op.kind # "remove"
    BY DEF WriteSecret, ProjectionInv, StagesConsistent, KindsConsistent, Filling, Publishing
  <1>2. PICK t \in 1..Made : t = op.state.temp
    BY <1>1
  <1>3. /\ files' = [files EXCEPT ![t].data = new] /\ Goto(next)
        /\ UNCHANGED <<target, temps, journal, registry, source, spent>>
    BY <1>2 DEF WriteSecret
  <1>4. new \in Secret /\ (op.stage = "flush" => new \in Contents)
    BY <1>1 DEF Secret
  <1>5. next \in Stages /\ (next = "recheck" => op.stage = "flush") /\ next \in {"flush", "recheck"}
    BY <1>1 DEF Stages
  <1> HIDE DEF new, next
  <1>6. /\ op' \in Operations /\ op'.stage = next /\ op'.state = op.state /\ op'.read = op.read
        /\ op'.kind = op.kind /\ op'.then = op.then /\ op'.outcome = op.outcome
    BY <1>3, <1>5, GotoOperation
  <1>7. files \in [1..Made -> FileRecords]
    BY DEF ProjectionInv, Typed
  <1>8. /\ files' \in [1..Made -> FileRecords]
        /\ \A i \in 1..Made : i # t => files'[i] = files[i]
        /\ files'[t].maker = files[t].maker /\ files'[t].data = new
    BY <1>3, <1>4, <1>7 DEF FileRecords
  <1>9. DOMAIN files' = DOMAIN files
    BY <1>7, <1>8
  <1>10. Made' = Made
    BY <1>9 DEF Made
  <1>11. /\ \A i \in 1..Made : Own(i)' <=> Own(i)
         /\ \A i \in 1..Made : i # t => (Hot(i)' <=> Hot(i)) /\ Stamped(i)' = Stamped(i)
    BY <1>8 DEF Own, Hot, Stamped
  <1>12. Typed'
    BY <1>3, <1>6, <1>8, <1>10 DEF ProjectionInv, Typed
  <1>13. TempsJournaled'
    BY <1>1, <1>2, <1>3, <1>11 DEF ProjectionInv, Typed, TempsJournaled
  <1>14. TargetJournaled'
    BY <1>1, <1>2, <1>3, <1>11 DEF ProjectionInv, Typed, TargetJournaled
  <1>15. TargetWhole'
    BY <1>1, <1>2, <1>3, <1>8, <1>11 DEF ProjectionInv, Typed, TargetWhole
  <1>16. JournalExclusive' /\ Undisturbed'
    BY <1>3, <1>10, <1>11 DEF ProjectionInv, JournalExclusive, Undisturbed
  <1>17. StagesConsistent'
    BY <1>1, <1>2, <1>3, <1>4, <1>5, <1>6, <1>8, <1>10
       DEF StagesConsistent, Clearing, Cleared, Filling, Publishing
  <1>18. KindsConsistent' /\ op'.outcome = "none"
    BY <1>1, <1>5, <1>6 DEF KindsConsistent, Filling, Publishing
  <1> QED BY <1>12, <1>13, <1>14, <1>15, <1>16, <1>17, <1>18, Running DEF ProjectionInv

\* A link or an unlink changes nothing of a file but its stamp.
LEMMA TouchFile ==
    ASSUME ProjectionInv, NEW t \in 1..Made, files' = Touch(t)
    PROVE  /\ Made' = Made /\ files' \in [1..Made -> FileRecords]
           /\ \A i \in 1..Made : /\ files'[i].data = files[i].data
                                 /\ Own(i)' <=> Own(i)
                                 /\ Hot(i)' <=> Hot(i)
           /\ \A i \in 1..Made : i # t => Stamped(i)' = Stamped(i)
  <1>1. files \in [1..Made -> FileRecords]
    BY DEF ProjectionInv, Typed
  <1>2. /\ files' \in [1..Made -> FileRecords]
        /\ \A i \in 1..Made : files'[i].data = files[i].data /\ files'[i].maker = files[i].maker
        /\ \A i \in 1..Made : i # t => files'[i] = files[i]
    BY <1>1 DEF Touch, FileRecords
  <1>3. DOMAIN files' = DOMAIN files
    BY <1>1, <1>2
  <1>4. Made' = Made
    BY <1>3 DEF Made
  <1> QED BY <1>2, <1>4 DEF Own, Hot, Stamped

\* The copy appears under its final name while the journal knows it by its inode.
LEMMA LinkTargetStep ==
    ASSUME ProjectionInv, LinkTarget
    PROVE  ProjectionInv'
  <1>1. CASE target # None
    BY <1>1, ToRecover DEF LinkTarget, Publishing, Filling, ProjectionInv, Typed
  <1>2. CASE target = None
    <2>1. /\ op.stage = "link" /\ journal # None /\ journal = op.state
          /\ op.state # None /\ op.state.temp \in 1..Made /\ op.state.target = None
          /\ files[op.state.temp].data \in Contents
          /\ op.then = "publish" /\ op.outcome = "none" /\ op.kind # "remove"
      BY DEF LinkTarget, ProjectionInv, StagesConsistent, KindsConsistent, Filling, Publishing
    <2>2. PICK t \in 1..Made : t = op.state.temp
      BY <2>1
    <2>3. /\ target' = t /\ files' = Touch(t) /\ Goto("release") /\ "release" \in Stages
          /\ UNCHANGED <<temps, journal, registry, source, spent>>
      BY <1>2, <2>2 DEF LinkTarget, Stages
    <2>4. /\ op' \in Operations /\ op'.stage = "release" /\ op'.state = op.state
          /\ op'.kind = op.kind /\ op'.then = op.then /\ op'.outcome = op.outcome
      BY <2>3, GotoOperation
    <2>5. /\ Made' = Made /\ files' \in [1..Made -> FileRecords]
          /\ \A i \in 1..Made : /\ files'[i].data = files[i].data
                                /\ Own(i)' <=> Own(i)
                                /\ Hot(i)' <=> Hot(i)
      BY <2>3, TouchFile
    <2>6. Typed'
      BY <2>3, <2>4, <2>5 DEF ProjectionInv, Typed
    <2>7. TempsJournaled'
      BY <2>3, <2>5 DEF ProjectionInv, Typed, TempsJournaled
    <2>8. TargetJournaled' /\ TargetWhole'
      BY <2>1, <2>2, <2>3, <2>5 DEF TargetJournaled, TargetWhole
    <2>9. JournalExclusive' /\ Undisturbed'
      BY <2>3, <2>5 DEF ProjectionInv, JournalExclusive, Undisturbed
    <2>10. StagesConsistent'
      BY <2>1, <2>3, <2>4, <2>5 DEF StagesConsistent, Clearing, Cleared, Filling, Publishing
    <2>11. KindsConsistent' /\ op'.outcome = "none"
      BY <2>1, <2>4 DEF KindsConsistent, Filling, Publishing
    <2> QED BY <2>6, <2>7, <2>8, <2>9, <2>10, <2>11, Running DEF ProjectionInv
  <1> QED BY <1>1, <1>2

\* After this no temporary name holds a secret of setup's.
LEMMA ReleaseTempStep ==
    ASSUME ProjectionInv, ReleaseTemp
    PROVE  ProjectionInv'
  <1>1. /\ op.stage = "release" /\ journal # None /\ journal = op.state
        /\ op.state # None /\ op.state.temp \in 1..Made /\ op.state.target = None
        /\ op.then = "publish" /\ op.outcome = "none" /\ op.kind # "remove"
    BY DEF ReleaseTemp, ProjectionInv, StagesConsistent, KindsConsistent, Filling, Publishing
  <1>2. PICK t \in 1..Made : t = op.state.temp
    BY <1>1
  <1>3. /\ temps' = temps \ {t} /\ files' = Touch(t) /\ Goto("stat") /\ "stat" \in Stages
        /\ UNCHANGED <<target, journal, registry, source, spent>>
    BY <1>2 DEF ReleaseTemp, Stages
  <1>4. /\ op' \in Operations /\ op'.stage = "stat" /\ op'.state = op.state
        /\ op'.kind = op.kind /\ op'.then = op.then /\ op'.outcome = op.outcome
    BY <1>3, GotoOperation
  <1>5. /\ Made' = Made /\ files' \in [1..Made -> FileRecords]
        /\ \A i \in 1..Made : /\ files'[i].data = files[i].data
                              /\ Own(i)' <=> Own(i)
                              /\ Hot(i)' <=> Hot(i)
        /\ \A i \in 1..Made : i # t => Stamped(i)' = Stamped(i)
    BY <1>3, TouchFile
  <1>6. Typed'
    BY <1>3, <1>4, <1>5 DEF ProjectionInv, Typed
  <1>7. \A i \in temps' : ~Hot(i)'
    BY <1>1, <1>2, <1>3, <1>5 DEF ProjectionInv, Typed, TempsJournaled
  <1>8. TargetJournaled'
    BY <1>1, <1>2, <1>3, <1>5 DEF ProjectionInv, Typed, TargetJournaled
  <1>9. TargetWhole'
    BY <1>3, <1>5 DEF ProjectionInv, Typed, TargetWhole
  <1>10. TempsJournaled' /\ JournalExclusive' /\ Undisturbed'
    BY <1>3, <1>5, <1>7 DEF ProjectionInv, TempsJournaled, JournalExclusive, Undisturbed
  <1>11. StagesConsistent'
    BY <1>1, <1>3, <1>4, <1>7 DEF StagesConsistent, Clearing, Cleared, Filling, Publishing
  <1>12. KindsConsistent' /\ op'.outcome = "none"
    BY <1>1, <1>4 DEF KindsConsistent, Filling, Publishing
  <1> QED BY <1>6, <1>8, <1>9, <1>10, <1>11, <1>12, Running DEF ProjectionInv

-----------------------------------------------------------------------------
(* Steps of others. *)

\* The source and the registry are none of the invariant's business.
LEMMA EditStep ==
    ASSUME ProjectionInv,
           (\E data \in Contents \cup {Malformed} : Rotate(data)) \/
           (\E route \in Routes \cup {None} : EditRegistry(route))
    PROVE  ProjectionInv'
  <1>1. spent' = [spent EXCEPT !.edits = @ + 1] /\ UNCHANGED <<files, target, temps, journal, op>>
    BY DEF Rotate, EditRegistry
  <1>2. spent' \in [edits: Nat, foreign: Nat, faults: Nat] /\ spent'.foreign = spent.foreign
    BY <1>1 DEF ProjectionInv, Typed
  <1>3. /\ source' \in [data: Contents \cup {Malformed}, stamp: Nat]
        /\ registry' \in {None} \cup Routes
    BY DEF Rotate, EditRegistry, ProjectionInv, Typed
  <1>4. StagesConsistent'
    BY <1>1, <1>2 DEF ProjectionInv, StagesConsistent, Agrees, Quiet, Linked, Hot, Own, Stamped, Made
  <1>5. KindsConsistent' /\ NoSelfLockout' /\ op' \in Operations
    BY <1>1, <1>2 DEF ProjectionInv, KindsConsistent, NoSelfLockout, Typed
  <1>6. CredentialsCleared'
    BY <1>1, <1>2 DEF ProjectionInv, CredentialsCleared, Linked
  <1> QED BY <1>1, <1>2, <1>3, <1>4, <1>5, <1>6, FilesStay

\* Somebody else takes the final name, edits what is there or removes it: what
\* is there afterwards is not setup's, and no other file changes.
LEMMA ForeignStep ==
    ASSUME ProjectionInv, spent' = [spent EXCEPT !.foreign = @ + 1],
           UNCHANGED <<temps, journal, registry, source, op>>,
           Made \in Nat, Made' \in Made..MaxFiles, files' \in [1..Made' -> FileRecords],
           target' \in {None} \cup 1..Made',
           target' = None \/ target' = target \/ target' \notin 1..Made,
           target' # None => ~Own(target)',
           \A i \in 1..Made : i # target' => files'[i] = files[i]
    PROVE  ProjectionInv'
  <1>1. /\ spent' \in [edits: Nat, foreign: Nat, faults: Nat] /\ spent'.foreign > 0
        /\ spent'.foreign # 0
    BY DEF ProjectionInv, Typed
  <1>2. 1..Made \subseteq 1..Made' /\ Made' \in 0..MaxFiles
    BY ProjectionAssumption
  <1>3. Typed'
    BY <1>1, <1>2 DEF ProjectionInv, Typed
  <1>4. target' # None => ~Hot(target)'
    BY DEF Hot
  <1>5. \A i \in 1..Made : i # target' => (Hot(i)' <=> Hot(i))
    BY DEF Hot, Own
  <1>6. \A i \in temps : Hot(i)' => Hot(i)
    BY <1>4, <1>5, ProjectionAssumption DEF ProjectionInv, Typed
  <1>7. TempsJournaled' /\ TargetJournaled' /\ JournalExclusive' /\ TargetWhole'
    BY <1>4, <1>6 DEF ProjectionInv, TempsJournaled, TargetJournaled, JournalExclusive, TargetWhole
  <1>8. Undisturbed' /\ NoSelfLockout' /\ CredentialsCleared'
    BY <1>1 DEF Undisturbed, NoSelfLockout, CredentialsCleared
  <1>9. Quiet => Quiet'
    BY <1>4, <1>6 DEF Quiet, Linked
  <1>10. Agrees => Agrees'
    BY DEF Agrees
  <1>11. ASSUME op.state.temp \in 1..Made, target # op.state.temp
         PROVE  target' # op.state.temp /\ files'[op.state.temp] = files[op.state.temp]
    <2>1. None \notin 1..Made
      BY ProjectionAssumption
    <2>2. target' # op.state.temp
      BY <1>11, <2>1
    <2> QED BY <1>11, <2>2
  <1>12. StagesConsistent'
    <2>1. StagesConsistent
      BY DEF ProjectionInv
    <2>2. op.stage = "unlink" /\ spent'.foreign = 0 => target' # None
      BY <1>1
    <2>3. op.stage = "temp" /\ target' # None => ~Own(target)'
      OBVIOUS
    <2>4. /\ op.stage \in Clearing => Agrees'
          /\ op.stage \in Cleared => Quiet' /\ op.state # None
      BY <1>9, <1>10, <2>1 DEF StagesConsistent
    <2>5. op.stage \in {"journal"} \cup Filling \cup {"release"} =>
            op.state # None /\ op.state.temp \in 1..Made' /\ op.state.target = None
      BY <1>2, <2>1 DEF StagesConsistent
    <2>6. op.stage \in {"journal"} \cup Filling =>
            target' # op.state.temp /\ files'[op.state.temp] = files[op.state.temp]
      BY <1>11, <2>1 DEF StagesConsistent
    <2>7. op.stage \in {"recheck", "link"} => files'[op.state.temp].data \in Contents
      BY <2>1, <2>6 DEF StagesConsistent, Filling
    <2>8. op.stage \in {"stat", "record"} => \A i \in temps : ~Hot(i)'
      BY <1>6, <2>1 DEF StagesConsistent
    <2>9. /\ op.stage \in Publishing => journal # None
          /\ op.stage = "create" => op.state.target = None
          /\ op.stage \in Filling \cup {"release", "stat"} => journal = op.state /\ op.state.target = None
          /\ op.stage \in {"write", "flush"} => op.read \in Contents
          /\ op.stage = "record" => op.state # None /\ op.state.temp = None
      BY <2>1 DEF StagesConsistent
    <2>10. op' = op /\ journal' = journal /\ temps' = temps
      OBVIOUS
    <2> QED BY <1>4, <2>2, <2>3, <2>4, <2>5, <2>6, <2>7, <2>8, <2>9, <2>10 DEF StagesConsistent
  <1>13. KindsConsistent'
    BY DEF ProjectionInv, KindsConsistent
  <1> QED BY <1>3, <1>7, <1>8, <1>12, <1>13 DEF ProjectionInv

\* Another program puts a file of its own under the final name.
LEMMA PutTargetStep ==
    ASSUME ProjectionInv, NEW data \in Contents, PutTarget(data)
    PROVE  ProjectionInv'
  <1>1. /\ Made < MaxFiles /\ Add("other", data) /\ data \in Secret \cup {Empty}
        /\ spent' = [spent EXCEPT !.foreign = @ + 1] /\ target' = Made + 1
        /\ UNCHANGED <<temps, journal, registry, source, op>>
    BY DEF PutTarget, Secret
  <1>2. /\ Made' = Made + 1 /\ Made + 1 \in 0..MaxFiles /\ Made \in Nat
        /\ files' \in [1..(Made + 1) -> FileRecords]
        /\ \A i \in 1..Made : files'[i] = files[i]
        /\ files'[Made + 1] = [maker |-> "other", data |-> data, stamp |-> 0]
    BY <1>1, AddFile
  <1>3. ~Own(target)'
    BY <1>1, <1>2 DEF Own
  <1>4. Made' \in Made..MaxFiles /\ target' \in 1..Made' /\ target' \notin 1..Made
    BY <1>1, <1>2, ProjectionAssumption
  <1> QED BY <1>1, <1>2, <1>3, <1>4, ForeignStep

\* A person edits the copy: its stamp changes, and it is not recognised any more.
LEMMA EditTargetStep ==
    ASSUME ProjectionInv, NEW data \in Contents, EditTarget(data)
    PROVE  ProjectionInv'
  <1>1. /\ spent' = [spent EXCEPT !.foreign = @ + 1] /\ target' = target /\ target # None
        /\ UNCHANGED <<temps, journal, registry, source, op>>
    BY DEF EditTarget
  <1>2. target \in 1..Made /\ files \in [1..Made -> FileRecords] /\ Made \in 0..MaxFiles
    BY <1>1 DEF ProjectionInv, Typed
  <1>3. files' = [files EXCEPT ![target] =
                    [maker |-> "edited", data |-> data, stamp |-> files[target].stamp + 1]]
    BY DEF EditTarget
  <1>4. [maker |-> "edited", data |-> data, stamp |-> files[target].stamp + 1] \in FileRecords
    BY <1>2 DEF FileRecords, Secret
  <1>5. /\ files' \in [1..Made -> FileRecords]
        /\ \A i \in 1..Made : i # target => files'[i] = files[i]
        /\ files'[target].maker = "edited" /\ DOMAIN files' = DOMAIN files
    BY <1>2, <1>3, <1>4
  <1>6. Made' = Made /\ ~Own(target)'
    BY <1>1, <1>5 DEF Made, Own
  <1>7. Made \in Nat /\ Made' \in Made..MaxFiles
    BY <1>2, <1>6, ProjectionAssumption
  <1> QED BY <1>1, <1>2, <1>5, <1>6, <1>7, ForeignStep

\* A person deletes the copy; the journal may name what is gone.
LEMMA DeleteTargetStep ==
    ASSUME ProjectionInv, DeleteTarget
    PROVE  ProjectionInv'
  <1>1. /\ spent' = [spent EXCEPT !.foreign = @ + 1] /\ target' = None /\ files' = files
        /\ UNCHANGED <<temps, journal, registry, source, op>>
    BY DEF DeleteTarget
  <1>2. Made' = Made /\ Made \in 0..MaxFiles /\ files \in [1..Made -> FileRecords]
    BY <1>1 DEF ProjectionInv, Typed, Made
  <1>3. Made \in Nat /\ Made' \in Made..MaxFiles
    BY <1>2, ProjectionAssumption
  <1> QED BY <1>1, <1>2, <1>3, ForeignStep

\* Nothing changes.
LEMMA StutterProjection ==
    ASSUME ProjectionInv, UNCHANGED vars
    PROVE  ProjectionInv'
  <1>1. UNCHANGED <<files, target, temps, journal, registry, source, op, spent>>
    BY DEF vars
  <1>2. StagesConsistent'
    BY <1>1 DEF ProjectionInv, StagesConsistent, Agrees, Quiet, Linked, Hot, Own, Stamped, Made
  <1>3. KindsConsistent' /\ NoSelfLockout' /\ CredentialsCleared'
    BY <1>1 DEF ProjectionInv, KindsConsistent, NoSelfLockout, CredentialsCleared, Linked
  <1> QED BY <1>1, <1>2, <1>3, FilesStay DEF ProjectionInv, Typed

\* The invariant holds before the first operation.
LEMMA InitProjection ==
    ASSUME Init
    PROVE  ProjectionInv
  <1>1. /\ files = << >> /\ DOMAIN files = {} /\ target = None /\ temps = {} /\ journal = None
        /\ op.stage = "idle" /\ op.outcome = "none" /\ spent.foreign = 0
    BY DEF Init, Idle
  <1>2. Made = 0
    BY <1>1, FS_EmptySet DEF Made
  <1>3. files \in [1..0 -> FileRecords]
    BY <1>1
  <1>4. op \in Operations
    BY DEF Init, Idle, Operations, Stages, Outcomes
  <1>5. Typed
    BY <1>1, <1>2, <1>3, <1>4, ProjectionAssumption DEF Init, Typed
  <1>6. /\ TempsJournaled /\ TargetJournaled /\ JournalExclusive /\ TargetWhole
        /\ Undisturbed /\ StagesConsistent /\ KindsConsistent
    BY <1>1, <1>2 DEF TempsJournaled, TargetJournaled, JournalExclusive, TargetWhole, Undisturbed,
           StagesConsistent, KindsConsistent, Clearing, Cleared, Filling, Publishing
  <1>7. NoSelfLockout /\ CredentialsCleared
    BY <1>1 DEF NoSelfLockout, CredentialsCleared
  <1> QED BY <1>5, <1>6, <1>7 DEF ProjectionInv

-----------------------------------------------------------------------------
(* Theorems. *)

\* Every step keeps the invariant.
LEMMA ProjectionInduction ==
    ASSUME ProjectionInv, [Next]_vars
    PROVE  ProjectionInv'
  <1>1. CASE Step
    BY <1>1, CheckOwnedStep, DetachStep, StatTargetStep, UnlinkTargetStep, UnlinkTempStep,
       ResetStep, CreateTempStep, JournalTempStep, IdentifyStep, ReadSourceStep, WriteSecretStep,
       RecheckStep, LinkTargetStep, ReleaseTempStep, StatFinalStep, RecordTargetStep,
       ReadinessStep, PublishRouteStep, RecoverStep, ForgetJournalStep DEF Step
  <1>2. CASE Next
    BY <1>1, <1>2, StartStep, FaultStep, EditStep, PutTargetStep, EditTargetStep,
       DeleteTargetStep DEF Next
  <1> QED BY <1>2, StutterProjection

\* The inductive invariant of a profile's copy holds in every reachable state.
THEOREM ProjectionInvariant == Spec => []ProjectionInv
  BY InitProjection, ProjectionInduction, PTL DEF Spec

\* Every reachable state is well typed, for any number of files, edits, foreign
\* actions and faults, and no part of a source is ever under the final name of a
\* copy that setup made.
THEOREM ProjectionTypeCorrect == Spec => []ProjectionTypeOK
  <1>1. ProjectionInv => ProjectionTypeOK
    <2> SUFFICES ASSUME ProjectionInv
                 PROVE  ProjectionTypeOK
      OBVIOUS
    <2>1. /\ files \in [1..Made -> FileRecords] /\ 1..Made \subseteq Files
          /\ DOMAIN files = 1..Made
      BY ProjectionAssumption DEF ProjectionInv, Typed, Files
    <2>2. op.stage \in Stages /\ op.outcome \in Outcomes /\ op.state \in {None} \cup Journals
      BY DEF ProjectionInv, Typed, Operations
    <2> QED BY <2>1, <2>2 DEF ProjectionInv, Typed, TargetWhole, ProjectionTypeOK
  <1> QED BY <1>1, ProjectionInvariant, PTL

\* A file of setup's with bytes of the source is always in the durable journal,
\* wherever the process is killed or hit, so that a later run can clear it.
THEOREM SecretsJournaledEver == Spec => []SecretsJournaled
  <1>1. ProjectionInv => SecretsJournaled
    BY DEF ProjectionInv, TempsJournaled, TargetJournaled, Hot, Linked, SecretsJournaled
  <1> QED BY <1>1, ProjectionInvariant, PTL

\* No kill and no failure makes setup refuse its own copy: an operation that ends
\* "unowned" met what somebody else put there.
THEOREM NoSelfLockoutEver == Spec => []NoSelfLockout
  <1>1. ProjectionInv => NoSelfLockout
    BY DEF ProjectionInv
  <1> QED BY <1>1, ProjectionInvariant, PTL

\* A publication that fails and is cleaned up, and a removal that succeeds, leave
\* no credential behind, whatever kills and failures came before.
THEOREM CredentialsClearedEver == Spec => []CredentialsCleared
  <1>1. ProjectionInv => CredentialsCleared
    BY DEF ProjectionInv
  <1> QED BY <1>1, ProjectionInvariant, PTL

=============================================================================

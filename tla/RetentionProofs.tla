-------------------------- MODULE RetentionProofs ---------------------------
(***************************************************************************)
(* Theorems about what the store keeps.  Of Compounding: the bounded log   *)
(* answers as the whole history would, its strict reader accepts it and    *)
(* its bound admits it, an active run can be carried on, and automatic     *)
(* runs keep their cadence.  Of Retention: expiry takes only evidence of   *)
(* runs with nothing unresolved, leaves no loss without a tombstone, and   *)
(* the composition still implements ExclusiveRuns.                         *)
(***************************************************************************)
EXTENDS Retention, CompoundingProofs, FiniteSetTheorems

-----------------------------------------------------------------------------
(* The parts of the inductive invariant. *)

\* The lines of one run.
LinesOf(r) == {i \in DOMAIN history : history[i].event # "trigger" /\ history[i].run_id = r}

\* A run's start comes before its other lines, and only once.
StartFirst ==
    \A i \in DOMAIN history :
        history[i].event \in {"end", "worker"} =>
            \E j \in At(history, "start") : j < i /\ history[j].run_id = history[i].run_id

\* What was finished was started, and so was the run a worker is attached to.
FinishedStarted ==
    /\ \A r \in Runs : Has(r, "compound.finish") => r \in Started(history)
    /\ op.kind = "worker" => Run \in Started(history)

\* No rollover dropped a line of an unfinished run.
ActiveLive == \A r \in ActiveRuns(history) : LinesOf(r) \subseteq live

\* An end is kept with every line of its run.
EndsWhole ==
    \A i \in At(history, "end") : i \in live => LinesOf(history[i].run_id) \subseteq live

\* Nor did it drop a line that a reader looks for, or the last one.
LatestLive ==
    /\ LatestIn(EndsWith(history, Successes)) \subseteq live
    /\ LatestIn(EndsWith(history, Relevant)) \subseteq live
    /\ LatestIn(At(history, "trigger")) \subseteq live
    /\ history # <<>> => Len(history) \in live

\* What it is about to drop is archived.
NothingLost ==
    /\ DOMAIN history \subseteq live \cup archived
    /\ op.stage = "replace" => live \subseteq archived

\* Every end repeats the identity its run had when it was logged.
EndsTerminate == \A i \in At(history, "end") : Terminates(IdentityAt(history, i), history[i])

\* A finish in hand ends the identity that both the log and the archive know.
FinishTerminates ==
    op.kind = "finish" =>
        /\ Effective(log, Run) = Recorded(Run)
        /\ Terminates(Recorded(Run), op.event)

\* By time t every deadline of the history f has passed, for the prompt trigger
\* that f agrees on.
Rested(f, t) ==
    /\ Agreement(f) # None /\ Agreement(f).mode = "prompt"
    /\ \A j \in EndsWith(f, Successes) : f[j].at + Agreement(f).interval_seconds <= t
    /\ \A j \in LatestIn(EndsWith(f, Relevant)) :
          f[j].completion = "failed" => f[j].at + Agreement(f).retry_seconds <= t

Earlier(f, i) == Restrict(f, Before(f, i))

\* An automatic start was due when it was asked for, and still is.
StartDue ==
    (op.kind = "start" /\ op.event.automatic /\ spent.regress = 0) =>
        Rested(history, IF op.stage \in Issued THEN op.event.at ELSE clock)

\* What holds of the lines, in the history and in the file.
Lines == OneStart(history) /\ StartFirst /\ ActiveLive /\ EndsWhole /\ LatestLive

Rollovers == OneEnd /\ Lines /\ FinishedStarted /\ NothingLost

Reading == OrderedTime(history) /\ EndsTerminate /\ FinishTerminates

RolloverInv == EvidenceInv /\ Rollovers

ReadingInv == RolloverInv /\ Reading

CadenceInv == ReadingInv /\ StartDue /\ CadenceKept

-----------------------------------------------------------------------------
(* Lemmas about the operators. *)

\* A line after all those of a kind is the latest of them.
LEMMA LatestGrows ==
    ASSUME NEW n \in Nat, NEW P \in SUBSET (1..n)
    PROVE  LatestIn(P \cup {n + 1}) = {n + 1}
  <1>1. P \cup {n + 1} \in SUBSET (1..(n + 1)) /\ n + 1 \in Nat
    OBVIOUS
  <1>2. /\ Latest(P \cup {n + 1}) \in P \cup {n + 1}
        /\ \A j \in P \cup {n + 1} : j <= Latest(P \cup {n + 1})
    <2>1. P \cup {n + 1} # {}
      OBVIOUS
    <2> QED BY <1>1, <2>1, LatestIsMember
  <1>3. Latest(P \cup {n + 1}) = n + 1
    <2>1. n + 1 <= Latest(P \cup {n + 1})
      BY <1>2
    <2>2. Latest(P \cup {n + 1}) \in 1..(n + 1)
      BY <1>1, <1>2
    <2> QED BY <2>1, <2>2
  <1> DEFINE X == P \cup {n + 1}
  <1>4. n + 1 \in X /\ Latest(X) = n + 1
    BY <1>3
  <1> HIDE DEF X
  <1>5. LatestIn(X) = {n + 1}
    BY <1>4 DEF LatestIn
  <1> QED BY <1>5 DEF X

\* Whatever keeps the latest line of a kind finds the same one.
LEMMA LatestKept ==
    ASSUME NEW n \in Nat, NEW P \in SUBSET (1..n), NEW S, LatestIn(P) \subseteq S
    PROVE  LatestIn(P \cap S) = LatestIn(P) /\ (P # {} => Latest(P \cap S) = Latest(P))
  <1>1. CASE P = {}
    BY <1>1 DEF LatestIn
  <1>2. CASE P # {}
    <2>1. Latest(P) \in P /\ \A j \in P : j <= Latest(P)
      BY <1>2, LatestIsMember
    <2>2. LatestIn(P) = {Latest(P)} /\ Latest(P) \in P \cap S
      BY <2>1 DEF LatestIn
    <2>3. Latest(P \cap S) \in P \cap S /\ \A j \in P \cap S : j <= Latest(P \cap S)
      <3>1. P \cap S \in SUBSET (1..n) /\ P \cap S # {}
        BY <2>2
      <3> QED BY <3>1, LatestIsMember
    <2>4. Latest(P \cap S) = Latest(P)
      <3>1. Latest(P \cap S) <= Latest(P) /\ Latest(P) <= Latest(P \cap S)
        BY <2>1, <2>2, <2>3
      <3>2. \A i \in P : i \in Int
        OBVIOUS
      <3>3. Latest(P \cap S) \in Int /\ Latest(P) \in Int
        BY <2>1, <2>3, <3>2
      <3> QED BY <3>1, <3>3
    <2> QED BY <2>2, <2>4 DEF LatestIn
  <1> QED BY <1>1, <1>2

\* The identity of a run is the same wherever its start and attachments are.
LEMMA SameIdentity ==
    ASSUME NEW n \in Nat, NEW f, DOMAIN f \subseteq 1..n, NEW g, NEW r, r \in Started(f),
           OneStart(f), DOMAIN g \subseteq DOMAIN f, \A i \in DOMAIN g : g[i] = f[i],
           \A i \in DOMAIN f : (f[i].event \in {"start", "worker"} /\ f[i].run_id = r)
                                   => i \in DOMAIN g
    PROVE  Effective(g, r) = Effective(f, r) /\ r \in Started(g)
  <1>1. PICK s \in At(f, "start") : f[s].run_id = r
    BY DEF Started
  <1>2. s \in At(g, "start") /\ g[s].run_id = r /\ g[s] = f[s]
    BY <1>1 DEF At
  <1>3. \A i \in At(f, "start") : f[i].run_id = r => i = s
    BY <1>1 DEF OneStart
  <1>4. \A i \in At(g, "start") : g[i].run_id = r => i = s
    BY <1>3 DEF At
  <1>5. StartOf(f, r) = s
    BY <1>1, <1>3 DEF StartOf
  <1>6. StartOf(g, r) = s
    BY <1>2, <1>4 DEF StartOf
  <1>7. WorkersOf(g, r) = WorkersOf(f, r)
    BY DEF WorkersOf, At
  <1>8. ASSUME WorkersOf(f, r) # {}
        PROVE  g[Latest(WorkersOf(f, r))] = f[Latest(WorkersOf(f, r))]
    <2>1. WorkersOf(f, r) \in SUBSET (1..n)
      BY DEF WorkersOf, At
    <2>2. Latest(WorkersOf(f, r)) \in WorkersOf(g, r)
      BY <1>7, <1>8, <2>1, LatestIsMember
    <2> QED BY <2>2 DEF WorkersOf, At
  <1>9. Effective(g, r) = Effective(f, r)
    BY <1>2, <1>5, <1>6, <1>7, <1>8 DEF Effective
  <1> QED BY <1>2, <1>9 DEF Started

\* The lines of the log file are lines of the history.
LEMMA LogLines ==
    ASSUME TypeOK
    PROVE  /\ Len(history) \in Nat /\ DOMAIN history = 1..Len(history)
           /\ live \in SUBSET (1..Len(history))
           /\ DOMAIN log = live /\ \A i \in live : log[i] = history[i]
  BY DEF TypeOK, log, Restrict

\* The lines of a kind that the file still has.
LEMMA KeptLines ==
    ASSUME TypeOK
    PROVE  /\ \A kind : At(log, kind) = At(history, kind) \cap live
           /\ \A C : EndsWith(log, C) = EndsWith(history, C) \cap live
           /\ \A kind : At(history, kind) \in SUBSET (1..Len(history))
           /\ \A C : EndsWith(history, C) \in SUBSET (1..Len(history))
  BY LogLines DEF At, EndsWith

-----------------------------------------------------------------------------
(* What a step does to the log. *)

\* Only a rollover and the last write of an operation change it.
LEMMA LogSteps ==
    ASSUME TypeOK, [Next]_vars
    PROVE  \/ UNCHANGED <<history, live>>
           \/ ReplaceLog
           \/ /\ AppendActivity /\ op.stage = "append" /\ Appendable(log, op.event)
              /\ history' = Append(history, op.event)
              /\ live' = live \cup {Len(history) + 1}
  <1>1. CASE Begin
    BY <1>1, BeginLeaves DEF coordination
  <1>2. CASE Fail \/ Unlocked \/ UNCHANGED vars
    BY <1>2 DEF Fail, RemoveUnsynced, AcknowledgeFails, DrainInterrupted, Interrupt,
       InterruptEvidence, InterruptActivity, Unlocked, Tick, Regress, EditSignal,
       EditConfiguration, vars, coordination
  <1>3. CASE Proceed /\ ~AppendActivity
    BY <1>3 DEF Proceed, ArchiveLog, AppendEvidence, RegisterTrigger, ValidateInputs,
       ArchiveInput, WriteStart, WriteIntent, SelectCandidates, VerifyInput, RemoveInput,
       Acknowledge, ReportDrain, coordination
  <1>4. CASE AppendActivity
    BY <1>4 DEF AppendActivity
  <1> QED BY <1>1, <1>2, <1>3, <1>4 DEF Next

\* The line about to be logged fits the history: a start is of a new run while
\* nothing is unfinished, an end is of the unfinished run.
LEMMA LineFits ==
    ASSUME EvidenceInv, FinishedStarted, op.stage = "append"
    PROVE  /\ op.event.event \in {"start", "end", "worker", "trigger"}
           /\ op.event.event = "start" => Run \notin Started(history) /\ ActiveRuns(history) = {}
           /\ op.event.event = "end" => Run \in ActiveRuns(history)
           /\ op.event.event = "worker" => Run \in Started(history)
  <1>1. TypeOK /\ EventMatches /\ InHand /\ ActiveTransparent
    BY DEF EvidenceInv, OwnershipInv, Typed
  <1>2. op.event.event \in {"start", "end", "worker", "trigger"}
    BY <1>1 DEF TypeOK, Operations, Events
  <1>3. /\ op.event.event = "start" => op.kind = "start"
        /\ op.event.event = "end" => op.kind = "finish"
        /\ op.event.event = "worker" => op.kind = "worker"
    BY InHandBacked
  <1> QED BY <1>1, <1>2, <1>3
          DEF EventMatches, Issued, InHand, HeldOwns, ActiveTransparent, FinishedStarted

\* What the history gains, line by line.
LEMMA Grown ==
    ASSUME TypeOK, history' = Append(history, op.event), live' = live \cup {Len(history) + 1}
    PROVE  LET n == Len(history) + 1
               e == op.event
           IN  /\ \A kind : At(history', kind) =
                     At(history, kind) \cup (IF e.event = kind THEN {n} ELSE {})
               /\ \A C : EndsWith(history', C) =
                     EndsWith(history, C)
                     \cup (IF e.event = "end" /\ e.completion \in C THEN {n} ELSE {})
               /\ \A r : LinesOf(r)' =
                     LinesOf(r) \cup (IF e.event # "trigger" /\ e.run_id = r THEN {n} ELSE {})
               /\ \A i \in DOMAIN history : history'[i] = history[i] /\ i < n
               /\ history'[n] = e /\ Len(history') = n
  <1> DEFINE n == Len(history) + 1
  <1>1. /\ DOMAIN history' = DOMAIN history \cup {n} /\ n \notin DOMAIN history
        /\ history'[n] = op.event /\ \A i \in DOMAIN history : history'[i] = history[i]
    BY AppendedLine
  <1>2. Len(history') = n /\ \A i \in DOMAIN history : i < n
    <2>1. history \in Seq(Events) /\ op.event \in Events
      BY DEF TypeOK, Operations
    <2> QED BY <2>1
  <1> HIDE DEF n
  <1>3. \A kind : At(history', kind) = At(history, kind)
                                       \cup (IF op.event.event = kind THEN {n} ELSE {})
    BY <1>1 DEF At
  <1>4. \A C : EndsWith(history', C) =
            EndsWith(history, C)
            \cup (IF op.event.event = "end" /\ op.event.completion \in C THEN {n} ELSE {})
    BY <1>1 DEF EndsWith, At
  <1>5. \A r : LinesOf(r)' =
            LinesOf(r) \cup (IF op.event.event # "trigger" /\ op.event.run_id = r
                             THEN {n} ELSE {})
    BY <1>1 DEF LinesOf
  <1> QED BY <1>1, <1>2, <1>3, <1>4, <1>5 DEF n

\* One more line keeps the file a faithful part of the history.
LEMMA AppendLines ==
    ASSUME EvidenceInv, Lines, FinishedStarted, op.stage = "append",
           history' = Append(history, op.event), live' = live \cup {Len(history) + 1}
    PROVE  Lines'
  <1> DEFINE n == Len(history) + 1
             e == op.event
  <1>1. TypeOK /\ e.run_id = Run
    BY DEF EvidenceInv, OwnershipInv, Typed, Run
  <1>2. /\ e.event \in {"start", "end", "worker", "trigger"}
        /\ e.event = "start" => Run \notin Started(history) /\ ActiveRuns(history) = {}
        /\ e.event = "end" => Run \in ActiveRuns(history)
        /\ e.event = "worker" => Run \in Started(history)
    BY LineFits
  <1>3. /\ \A kind : At(history', kind) =
              At(history, kind) \cup (IF e.event = kind THEN {n} ELSE {})
        /\ \A C : EndsWith(history', C) =
              EndsWith(history, C)
              \cup (IF e.event = "end" /\ e.completion \in C THEN {n} ELSE {})
        /\ \A r : LinesOf(r)' =
              LinesOf(r) \cup (IF e.event # "trigger" /\ e.run_id = r THEN {n} ELSE {})
        /\ \A i \in DOMAIN history : history'[i] = history[i] /\ i < n
        /\ history'[n] = e /\ Len(history') = n
    BY <1>1, Grown
  <1>4. DOMAIN history' = DOMAIN history \cup {n} /\ n \notin DOMAIN history
    BY <1>1, AppendedLine
  <1>5. /\ Started(history)' = Started(history) \cup (IF e.event = "start" THEN {Run} ELSE {})
        /\ Ended(history)' = Ended(history) \cup (IF e.event = "end" THEN {Run} ELSE {})
    BY <1>1, AppendedRuns
  <1>6. Len(history) \in Nat /\ live' = live \cup {n} /\ DOMAIN history = 1..Len(history)
    BY <1>1, LogLines
  <1>7. \A kind : At(history, kind) \subseteq DOMAIN history
    BY DEF At
  <1>8. \A r : LinesOf(r) \subseteq DOMAIN history
    BY DEF LinesOf
  <1> HIDE DEF n, e
  <1>9. OneStart(history')
    <2>1. \A i \in At(history, "start") : history[i].run_id \in Started(history)
      BY DEF Started
    <2> QED BY <1>1, <1>2, <1>3, <1>7, <2>1 DEF Lines, OneStart
  <1>10. StartFirst'
    <2> SUFFICES ASSUME NEW i \in DOMAIN history', history'[i].event \in {"end", "worker"}
                 PROVE  \E j \in At(history', "start") :
                            j < i /\ history'[j].run_id = history'[i].run_id
      BY DEF StartFirst, At
    <2>1. CASE i \in DOMAIN history
      <3>1. PICK j \in At(history, "start") : j < i /\ history[j].run_id = history[i].run_id
        BY <1>3, <2>1 DEF Lines, StartFirst
      <3> QED BY <1>3, <1>7, <2>1, <3>1
    <2>2. CASE i = n
      <3>1. Run \in Started(history)
        BY <1>2, <1>3, <2>2 DEF ActiveRuns
      <3>2. PICK j \in At(history, "start") : history[j].run_id = Run
        BY <3>1 DEF Started
      <3> QED BY <1>1, <1>3, <1>7, <2>2, <3>2
    <2> QED BY <1>4, <2>1, <2>2
  <1>11. ActiveLive'
    <2> SUFFICES ASSUME NEW r \in ActiveRuns(history)'
                 PROVE  LinesOf(r)' \subseteq live'
      BY DEF ActiveLive
    <2>1. CASE r \in ActiveRuns(history)
      <3>1. LinesOf(r) \subseteq live
        BY <2>1 DEF Lines, ActiveLive
      <3> QED BY <1>3, <1>6, <3>1
    <2>2. CASE r \notin ActiveRuns(history)
      <3>1. e.event = "start" /\ r = Run
        BY <1>5, <2>2 DEF ActiveRuns
      <3>2. LinesOf(r) = {}
        <4> SUFFICES ASSUME NEW i \in LinesOf(r) PROVE FALSE
          OBVIOUS
        <4>1. /\ i \in DOMAIN history /\ history[i].run_id = r
              /\ history[i].event \in {"start", "end", "worker"}
          <5>1. i \in DOMAIN history /\ history[i].run_id = r /\ history[i].event # "trigger"
            BY DEF LinesOf
          <5>2. history[i] \in Events
            BY <1>1, <5>1 DEF TypeOK
          <5> QED BY <5>1, <5>2 DEF Events
        <4>2. r \in Started(history)
          BY <4>1 DEF Lines, StartFirst, Started, At
        <4> QED BY <1>2, <3>1, <4>2
      <3> QED BY <1>3, <1>6, <3>2
    <2> QED BY <2>1, <2>2
  <1>12. EndsWhole'
    <2> SUFFICES ASSUME NEW i \in At(history', "end"), i \in live', NEW r,
                        r = history'[i].run_id
                 PROVE  LinesOf(r)' \subseteq live'
      BY DEF EndsWhole, At, LinesOf
    <2>1. CASE i \in At(history, "end")
      <3>1. i \in live /\ r = history[i].run_id
        BY <1>3, <1>4, <1>6, <1>7, <2>1
      <3>2. LinesOf(r) \subseteq live
        BY <2>1, <3>1 DEF Lines, EndsWhole
      <3> QED BY <1>3, <1>6, <3>2
    <2>2. CASE i = n /\ e.event = "end"
      <3>1. r \in ActiveRuns(history)
        BY <1>1, <1>2, <1>3, <2>2
      <3>2. LinesOf(r) \subseteq live
        BY <3>1 DEF Lines, ActiveLive
      <3> QED BY <1>3, <1>6, <3>2
    <2>3. At(history', "end") = At(history, "end") \cup (IF e.event = "end" THEN {n} ELSE {})
      BY <1>3
    <2> QED BY <2>1, <2>2, <2>3
  <1>13. LatestLive'
    <2>1. ASSUME NEW P \in SUBSET (1..Len(history)), NEW Q, Q \in {P, P \cup {n}},
                 LatestIn(P) \subseteq live
          PROVE  LatestIn(Q) \subseteq live'
      <3>1. LatestIn(P \cup {Len(history) + 1}) = {Len(history) + 1}
        BY <1>6, LatestGrows
      <3>2. LatestIn(P \cup {n}) = {n}
        BY <3>1 DEF n
      <3> QED BY <1>6, <2>1, <3>2
    <2>2. /\ \A kind : At(history, kind) \in SUBSET (1..Len(history))
          /\ \A C : EndsWith(history, C) \in SUBSET (1..Len(history))
      BY <1>1, KeptLines
    <2>3. /\ \A C : EndsWith(history', C) \in {EndsWith(history, C), EndsWith(history, C) \cup {n}}
          /\ \A kind : At(history', kind) \in {At(history, kind), At(history, kind) \cup {n}}
      <3>1. ASSUME NEW C
            PROVE  EndsWith(history', C) \in {EndsWith(history, C), EndsWith(history, C) \cup {n}}
        <4>1. EndsWith(history', C) =
                EndsWith(history, C)
                \cup (IF e.event = "end" /\ e.completion \in C THEN {n} ELSE {})
          BY <1>3
        <4> QED BY <4>1
      <3>2. ASSUME NEW kind
            PROVE  At(history', kind) \in {At(history, kind), At(history, kind) \cup {n}}
        <4>1. At(history', kind) = At(history, kind) \cup (IF e.event = kind THEN {n} ELSE {})
          BY <1>3
        <4> QED BY <4>1
      <3> QED BY <3>1, <3>2
    <2>4. LatestIn(EndsWith(history', Successes)) \subseteq live'
      BY <2>1, <2>2, <2>3 DEF Lines, LatestLive
    <2>5. LatestIn(EndsWith(history', Relevant)) \subseteq live'
      BY <2>1, <2>2, <2>3 DEF Lines, LatestLive
    <2>6. LatestIn(At(history', "trigger")) \subseteq live'
      BY <2>1, <2>2, <2>3 DEF Lines, LatestLive
    <2>7. Len(history') \in live'
      BY <1>3, <1>6
    <2> QED BY <2>4, <2>5, <2>6, <2>7 DEF LatestLive, LatestIn, EndsWith, At, Latest
  <1> QED BY <1>9, <1>10, <1>11, <1>12, <1>13 DEF Lines, OneStart, At

\* A rollover keeps whole runs: every unfinished one, and those whose ends the
\* cadence rests on; and the last line, whatever it is.
LEMMA RolloverLines ==
    ASSUME TypeOK, ActiveTransparent, Lines, history' = history, live' = Retained(log)
    PROVE  Lines'
  <1>1. /\ Len(history) \in Nat /\ DOMAIN history = 1..Len(history)
        /\ live \in SUBSET (1..Len(history))
        /\ DOMAIN log = live /\ \A i \in live : log[i] = history[i]
    BY LogLines
  <1>2. /\ \A kind : At(log, kind) = At(history, kind) \cap live
        /\ \A C : EndsWith(log, C) = EndsWith(history, C) \cap live
        /\ \A kind : At(history, kind) \in SUBSET (1..Len(history))
        /\ \A C : EndsWith(history, C) \in SUBSET (1..Len(history))
    BY KeptLines
  <1>3. \A i \in live : (history[i].event # "trigger" /\ history[i].run_id \in RetainedRuns(log))
                            => i \in live'
    BY <1>1 DEF Retained
  <1>4. ActiveRuns(history) \subseteq RetainedRuns(log)
    BY DEF RetainedRuns, ActiveTransparent
  <1>5. ASSUME NEW r \in RetainedRuns(log), LinesOf(r) \subseteq live
        PROVE  LinesOf(r) \subseteq live'
    BY <1>3, <1>5 DEF LinesOf
  <1>6. OneStart(history') /\ StartFirst'
    BY DEF Lines, OneStart, StartFirst, At
  <1>7. ActiveLive'
    <2>1. \A r \in ActiveRuns(history) : LinesOf(r) \subseteq live'
      BY <1>4, <1>5 DEF Lines, ActiveLive
    <2> QED BY <2>1 DEF ActiveLive, LinesOf, ActiveRuns, Started, Ended, At
  <1>8. EndsWhole'
    <2> SUFFICES ASSUME NEW i \in At(history, "end"), i \in live', NEW r, r = history[i].run_id
                 PROVE  LinesOf(r) \subseteq live'
      BY DEF EndsWhole, At, LinesOf
    <2>1. i \in live /\ history[i].event = "end" /\ log[i] = history[i]
      BY <1>1, RetainedLines DEF At
    <2>2. i \notin LatestIn(At(log, "trigger")) /\ i \notin LatestIn(At(log, "worker"))
      BY <2>1 DEF LatestIn, At
    <2>3. r \in RetainedRuns(log)
      BY <2>1, <2>2 DEF Retained
    <2>4. LinesOf(r) \subseteq live
      BY <2>1 DEF Lines, EndsWhole
    <2> QED BY <1>5, <2>3, <2>4
  <1>9. \A C : EndsWith(history, C) \subseteq At(history, "end")
    BY DEF EndsWith
  <1>10. ASSUME NEW i \in live, history[i].event = "end", history[i].run_id \in RetainedRuns(log)
         PROVE  i \in live'
    BY <1>3, <1>10
  <1>11. ASSUME NEW C \in {Successes, Relevant}, LatestIn(EndsWith(history, C)) \subseteq live
         PROVE  LatestIn(EndsWith(history, C)) \subseteq live'
    <2>1. EndsWith(log, C) = EndsWith(history, C) \cap live
      BY <1>2
    <2>2. EndsWith(history, C) \in SUBSET (1..Len(history))
      BY <1>2
    <2>3. LatestIn(EndsWith(log, C)) = LatestIn(EndsWith(history, C))
      BY <1>1, <1>11, <2>1, <2>2, LatestKept
    <2> SUFFICES ASSUME NEW i \in LatestIn(EndsWith(history, C)) PROVE i \in live'
      OBVIOUS
    <2>4. i \in LatestIn(EndsWith(log, C)) /\ i \in live
      BY <1>11, <2>3
    <2>5. log[i].run_id \in RetainedRuns(log)
      BY <2>4 DEF RetainedRuns
    <2>6. history[i].event = "end"
      BY <1>9 DEF LatestIn, At
    <2> QED BY <1>1, <1>10, <2>4, <2>5, <2>6
  <1>12. LatestIn(At(history, "trigger")) \subseteq live'
    <2>1. At(log, "trigger") = At(history, "trigger") \cap live
      BY <1>2
    <2>2. At(history, "trigger") \in SUBSET (1..Len(history))
      BY <1>2
    <2>3. LatestIn(At(log, "trigger")) = LatestIn(At(history, "trigger"))
      BY <1>1, <2>1, <2>2, LatestKept DEF Lines, LatestLive
    <2> QED BY <2>3 DEF Retained
  <1>13. ASSUME history # <<>>
         PROVE  Len(history) \in live'
    <2> DEFINE n == Len(history)
    <2>1. n \in live
      BY <1>13 DEF Lines, LatestLive
    <2>2. history[n].event \in {"start", "end", "worker", "trigger"}
      <3>1. history[n] \in Events
        <4> HIDE DEF n
        <4>1. n \in DOMAIN history /\ history \in Seq(Events)
          BY <1>1, <2>1 DEF TypeOK
        <4> QED BY <4>1
      <3> QED BY <3>1 DEF Events
    <2>3. ASSUME NEW kind, history[n].event = kind
          PROVE  n \in LatestIn(At(log, kind))
      <3> DEFINE P == At(log, kind)
      <3>1. P \in SUBSET (1..n) /\ n \in P
        BY <1>1, <2>1, <2>3 DEF At
      <3>2. Latest(P) \in P /\ \A j \in P : j <= Latest(P)
        <4> HIDE DEF P, n
        <4>1. n \in Nat
          BY <1>1 DEF n
        <4> QED BY <3>1, <4>1, LatestIsMember
      <3>3. Latest(P) = n
        <4> HIDE DEF P
        <4>1. n <= Latest(P) /\ Latest(P) \in 1..n /\ n \in Nat
          BY <1>1, <3>1, <3>2
        <4> QED BY <4>1
      <3> QED BY <3>1, <3>3 DEF LatestIn
    <2>4. CASE history[n].event \in {"trigger", "worker"}
      BY <2>3, <2>4 DEF Retained
    <2>5. CASE history[n].event = "end"
      <3>1. n \in LatestIn(At(log, "end"))
        BY <2>3, <2>5
      <3>2. log[n].run_id \in RetainedRuns(log)
        <4> HIDE DEF n
        <4> QED BY <3>1 DEF RetainedRuns
      <3> QED BY <1>1, <1>10, <2>1, <2>5, <3>2
    <2>6. CASE history[n].event = "start"
      <3>1. history[n].run_id \in Started(history) /\ n \in At(history, "start")
        BY <1>1, <2>1, <2>6 DEF Started, At
      <3>2. history[n].run_id \notin Ended(history)
        <4> SUFFICES ASSUME NEW i \in At(history, "end"), history[i].run_id = history[n].run_id
                     PROVE  FALSE
          BY DEF Ended
        <4>1. PICK j \in At(history, "start") : j < i /\ history[j].run_id = history[i].run_id
          BY DEF Lines, StartFirst, At
        <4>2. j = n
          BY <3>1, <4>1 DEF Lines, OneStart
        <4>3. i \in 1..n
          BY <1>1 DEF At
        <4> QED BY <1>1, <4>1, <4>2, <4>3
      <3>3. history[n].run_id \in RetainedRuns(log)
        BY <1>4, <3>1, <3>2 DEF ActiveRuns
      <3> QED BY <1>3, <2>1, <2>6, <3>3
    <2> QED BY <2>2, <2>4, <2>5, <2>6
  <1>14. LatestLive'
    <2>1. LatestIn(EndsWith(history, Successes)) \subseteq live'
      BY <1>11 DEF Lines, LatestLive
    <2>2. LatestIn(EndsWith(history, Relevant)) \subseteq live'
      BY <1>11 DEF Lines, LatestLive
    <2> QED BY <1>12, <1>13, <2>1, <2>2 DEF LatestLive, LatestIn, EndsWith, At, Latest
  <1> QED BY <1>6, <1>7, <1>8, <1>14 DEF Lines, OneStart, At

\* So what the file tells about the history stays true at every step.
LEMMA NextLines ==
    ASSUME EvidenceInv, Lines, FinishedStarted, [Next]_vars
    PROVE  Lines'
  <1>1. TypeOK /\ ActiveTransparent
    BY DEF EvidenceInv, OwnershipInv, Typed
  <1>2. CASE UNCHANGED <<history, live>>
    <2>1. /\ ActiveRuns(history)' = ActiveRuns(history) /\ \A r : LinesOf(r)' = LinesOf(r)
          /\ \A kind : At(history, kind)' = At(history, kind)
      BY <1>2 DEF LinesOf, ActiveRuns, Started, Ended, At
    <2>2. OneStart(history)' /\ StartFirst'
      BY <1>2, <2>1 DEF Lines, OneStart, StartFirst
    <2>3. ActiveLive' /\ EndsWhole'
      BY <1>2, <2>1 DEF Lines, ActiveLive, EndsWhole
    <2>4. LatestLive'
      <3>1. /\ LatestIn(EndsWith(history', Successes)) \subseteq live'
            /\ LatestIn(EndsWith(history', Relevant)) \subseteq live'
            /\ LatestIn(At(history', "trigger")) \subseteq live'
            /\ history' # <<>> => Len(history') \in live'
        BY <1>2 DEF Lines, LatestLive
      <3> QED BY <3>1 DEF LatestLive, LatestIn, EndsWith, At, Latest
    <2> QED BY <2>2, <2>3, <2>4 DEF Lines
  <1>3. CASE ReplaceLog
    BY <1>1, <1>3, RolloverLines DEF ReplaceLog
  <1>4. CASE /\ op.stage = "append" /\ history' = Append(history, op.event)
             /\ live' = live \cup {Len(history) + 1}
    BY <1>4, AppendLines
  <1> QED BY <1>1, <1>2, <1>3, <1>4, LogSteps

-----------------------------------------------------------------------------
(* What a step does to the operation in hand, and to the evidence. *)

\* The steps between the first and the last of an operation keep its event: a
\* start gets its run and time once, a trigger its time.
LEMMA OperationSteps ==
    ASSUME OwnershipInv, StagesOfKind, [Next]_vars
    PROVE  \/ Begin
           \/ op'.kind = "none" /\ op'.stage = "none"
           \/ /\ op'.kind = op.kind /\ op'.event = op.event
              /\ op.kind = "start" => (op'.stage \in Issued <=> op.stage \in Issued)
              /\ op'.stage = "replace" => ArchiveLog \/ UNCHANGED <<op, history, live, archived>>
           \/ /\ op.kind = "start" /\ op.stage = "validate"
              /\ op'.kind = "start" /\ op'.stage = "inputs"
              /\ op'.event.at = clock /\ op'.event.automatic = op.event.automatic
           \/ op'.kind = "trigger" /\ op'.stage = "append"
  <1> DEFINE Kept == /\ op'.kind = op.kind /\ op'.event = op.event
                     /\ op.kind = "start" => (op'.stage \in Issued <=> op.stage \in Issued)
                     /\ op'.stage = "replace" =>
                           ArchiveLog \/ UNCHANGED <<op, history, live, archived>>
             Free == op'.kind = "none" /\ op'.stage = "none"
  <1>1. /\ TypeOK /\ StagesConsistent /\ EventMatches
        /\ op \in Operations /\ op.event \in Events
    BY DEF OwnershipInv, Typed, TypeOK, Operations
  <1>2. ASSUME Release
        PROVE  Free
    BY <1>2 DEF Release, Idle
  <1>3. ASSUME NEW stage \in {"select", "remove", "report", "replace", "append"}, Goto(stage)
        PROVE  op'.kind = op.kind /\ op'.event = op.event /\ op'.stage = stage
    BY <1>1, <1>3, GotoType DEF Stages
  <1>4. op.stage \in Draining => op.kind = "drain"
    BY DEF StagesOfKind
  <1>5. CASE ArchiveLog
    <2>1. op.stage = "rollover" /\ (Release \/ Goto("replace"))
      BY <1>5 DEF ArchiveLog
    <2> QED BY <1>2, <1>3, <1>5, <2>1 DEF Issued
  <1>6. CASE ReplaceLog
    <2>1. op' = [op EXCEPT !.stage = Resume(op)] /\ op.kind \in {"start", "trigger", "worker"}
          /\ op.stage = "replace"
      BY <1>1, <1>6 DEF ReplaceLog, Goto, StagesConsistent, Rolling
    <2>2. op'.kind = op.kind /\ op'.event = op.event /\ op'.stage = Resume(op)
      BY <1>1, <2>1 DEF Operations
    <2>3. Resume(op) # "replace" /\ (op.kind = "start" => Resume(op) = "validate")
      BY <1>1, <2>1 DEF Resume, Operations
    <2> QED BY <2>1, <2>2, <2>3 DEF Issued
  <1>7. CASE AppendEvidence
    BY <1>2, <1>3, <1>7 DEF AppendEvidence, Issued
  <1>8. CASE AppendActivity
    BY <1>2, <1>8 DEF AppendActivity
  <1>9. ASSUME NEW expected, RegisterTrigger(expected)
        PROVE  Free \/ (op'.kind = "trigger" /\ op'.stage = "append")
    <2>1. op.kind = "trigger"
      BY <1>1, <1>9 DEF RegisterTrigger, EventMatches
    <2>2. Release \/ op' = [op EXCEPT !.stage = "append", !.event.at = clock]
      BY <1>9 DEF RegisterTrigger
    <2> QED BY <1>1, <1>2, <2>1, <2>2 DEF Operations
  <1>10. ASSUME NEW r \in Runs, ValidateInputs(r)
         PROVE  \/ Free
                \/ /\ op.kind = "start" /\ op.stage = "validate"
                   /\ op'.kind = "start" /\ op'.stage = "inputs"
                   /\ op'.event.at = clock /\ op'.event.automatic = op.event.automatic
    <2>1. \/ Release
          \/ op' = [op EXCEPT !.event.at = clock, !.event.run_id = r,
                              !.todo = DOMAIN op.event.selected, !.stage = "inputs"]
      BY <1>10 DEF ValidateInputs
    <2>2. op.kind = "start" /\ op.stage = "validate"
      BY <1>1, <1>10 DEF ValidateInputs, StagesConsistent
    <2>3. ASSUME ~Release
          PROVE  /\ op'.kind = "start" /\ op'.stage = "inputs"
                 /\ op'.event.at = clock /\ op'.event.automatic = op.event.automatic
      <3>1. op' = [op EXCEPT !.event.at = clock, !.event.run_id = r,
                             !.todo = DOMAIN op.event.selected, !.stage = "inputs"]
        BY <2>1, <2>3
      <3> QED BY <1>1, <2>2, <3>1 DEF Operations, Events
    <2> QED BY <1>2, <2>2, <2>3
  <1>11. ASSUME NEW s, ArchiveInput(s)
         PROVE  Kept
    <2>1. op' = [op EXCEPT !.todo = op.todo \ {s}] /\ op.stage = "inputs"
      BY <1>11 DEF ArchiveInput
    <2> QED BY <1>1, <2>1 DEF Operations
  <1>12. CASE WriteStart
    <2>1. op' = [op EXCEPT !.stage = "evidence", !.record = Record("compound.start")]
          /\ op.stage = "inputs"
      BY <1>12 DEF WriteStart
    <2> QED BY <1>1, <2>1 DEF Operations, Issued
  <1>13. ASSUME WriteIntent \/ Acknowledge \/ ReportDrain \/ AcknowledgeFails \/ DrainInterrupted
         PROVE  Kept \/ Free
    <2>1. op.stage \in Draining
          /\ (Release \/ \E stage \in {"select", "remove", "report"} : Goto(stage))
      BY <1>13 DEF WriteIntent, Acknowledge, ReportDrain, AcknowledgeFails, DrainInterrupted,
         Draining
    <2> QED BY <1>2, <1>3, <1>4, <2>1
  <1>14. CASE SelectCandidates
    <2>1. op' = [op EXCEPT !.stage = "remove", !.todo = {s \in op.todo : Candidate(s)}]
          /\ op.stage = "select"
      BY <1>14 DEF SelectCandidates
    <2>2. op'.kind = op.kind /\ op'.event = op.event /\ op'.stage = "remove"
      BY <1>1, <2>1 DEF Operations
    <2> QED BY <1>4, <2>1, <2>2 DEF Draining
  <1>15. ASSUME NEW s, VerifyInput(s)
         PROVE  Kept \/ Free
    <2>0. CASE Release
      BY <1>2, <2>0
    <2> SUFFICES ASSUME ~Release PROVE Kept
      BY <2>0
    <2>1. op' = [op EXCEPT !.todo = op.todo \ {s},
                           !.stage = IF Unchanged(s) THEN "unlink" ELSE op.stage,
                           !.signal = IF Unchanged(s) THEN s ELSE op.signal]
          /\ op.stage = "remove"
      BY <1>15 DEF VerifyInput
    <2>2. /\ op'.kind = op.kind /\ op'.event = op.event
          /\ op'.stage \in {"remove", "unlink"}
      BY <1>1, <2>1 DEF Operations
    <2> QED BY <1>4, <2>1, <2>2 DEF Draining
  <1>16. CASE RemoveInput \/ RemoveUnsynced
    <2>1. op.stage = "unlink" /\
             \/ Goto("remove")
             \/ op' = [op EXCEPT !.stage = "acknowledge", !.done = op.done \cup {op.signal}]
      BY <1>16 DEF RemoveInput, RemoveUnsynced
    <2>2. /\ op'.kind = op.kind /\ op'.event = op.event
          /\ op'.stage \in {"remove", "acknowledge"}
      BY <1>1, <1>3, <2>1 DEF Operations
    <2> QED BY <1>4, <2>1, <2>2 DEF Draining
  <1>17. CASE Proceed
    BY <1>5, <1>6, <1>7, <1>8, <1>9, <1>10, <1>11, <1>12, <1>13, <1>14, <1>15, <1>16, <1>17
       DEF Proceed
  <1>18. CASE Interrupt \/ InterruptEvidence \/ InterruptActivity
    BY <1>2, <1>18 DEF Interrupt, InterruptEvidence, InterruptActivity
  <1>19. CASE Fail
    BY <1>13, <1>16, <1>18, <1>19 DEF Fail
  <1>20. CASE Unlocked \/ UNCHANGED vars
    <2>1. UNCHANGED <<op, history, live, archived>>
      BY <1>20 DEF Unlocked, Tick, Regress, EditSignal, EditConfiguration, vars, coordination
    <2> QED BY <2>1
  <1> QED BY <1>17, <1>19, <1>20 DEF Next

\* The same, for what the invariants of the lifecycle alone need.
LEMMA HandSteps ==
    ASSUME EvidenceInv, [Next]_vars
    PROVE  \/ Begin
           \/ op'.kind = "none" /\ op'.stage = "none"
           \/ /\ op'.kind = op.kind /\ op'.event = op.event
              /\ op.kind = "start" => (op'.stage \in Issued <=> op.stage \in Issued)
              /\ op'.stage = "replace" => ArchiveLog \/ UNCHANGED <<op, history, live, archived>>
           \/ /\ op.kind = "start" /\ op.stage = "validate"
              /\ op'.kind = "start" /\ op'.stage = "inputs"
              /\ op'.event.at = clock /\ op'.event.automatic = op.event.automatic
           \/ op'.kind = "trigger" /\ op'.stage = "append"
  BY OperationSteps DEF EvidenceInv, InHand

\* What an operation records of its run: a start, a worker or a finish what it
\* has in hand, a drain one of its own three kinds.
OneRecord(record) ==
    /\ Run \in Runs /\ evidence' = Written(Run, record)
    /\ \/ /\ AppendEvidence /\ op.stage = "evidence" /\ record = op.record
          /\ op.kind \in {"start", "worker", "finish"}
       \/ /\ op.kind = "drain"
          /\ \/ record.operation = "compound.drain.intent"
             \/ /\ record.operation = "compound.drain.removed"
                /\ op.stage = "acknowledge" /\ record.drained = {op.signal}
             \/ record.operation = "compound.drain" /\ record.drained = op.done

\* A step writes one record, or none; inputs and the start of a run only while
\* it is being archived.
LEMMA EvidenceSteps ==
    ASSUME OwnershipInv, StagesOfKind, [Next]_vars
    PROVE  \/ \A r \in Runs : /\ evidence'[r].start = evidence[r].start
                              /\ evidence'[r].inputs = evidence[r].inputs
                              /\ evidence'[r].records = evidence[r].records
           \/ /\ op.kind = "start" /\ op.stage = "inputs"
              /\ \A r \in Runs : /\ evidence'[r].records = evidence[r].records
                                 /\ r # Run => evidence'[r] = evidence[r]
           \/ \E record \in Records : OneRecord(record)
  <1> DEFINE Same == \A r \in Runs : /\ evidence'[r].start = evidence[r].start
                                     /\ evidence'[r].inputs = evidence[r].inputs
                                     /\ evidence'[r].records = evidence[r].records
             Filed == /\ op.kind = "start" /\ op.stage = "inputs"
                      /\ \A r \in Runs : /\ evidence'[r].records = evidence[r].records
                                         /\ r # Run => evidence'[r] = evidence[r]
             One == \E record \in Records : OneRecord(record)
  <1>1. /\ TypeOK /\ StagesConsistent /\ EventMatches
        /\ op \in Operations /\ op.event \in Events
    BY DEF OwnershipInv, Typed, TypeOK, Operations
  <1>2. ASSUME NEW q, evidence' \in {evidence, Torn(q)}
        PROVE  Same
    BY <1>1, <1>2, SteadyRecords
  <1>3. CASE Begin
    BY <1>2, <1>3, BeginLeaves
  <1>4. CASE AppendEvidence
    <2>1. /\ op.stage = "evidence" /\ op.kind \in {"start", "worker", "finish"}
          /\ op.record \in Records /\ Run \in Runs
      BY <1>1, <1>4 DEF AppendEvidence, StagesConsistent, EventMatches, Issued
    <2> QED BY <1>2, <1>4, <2>1 DEF AppendEvidence, OneRecord
  <1>5. ASSUME (\E s \in Signals : ArchiveInput(s)) \/ WriteStart
        PROVE  Filed
    <2>1. op.kind = "start" /\ op.stage = "inputs"
      BY <1>1, <1>5 DEF ArchiveInput, WriteStart, StagesConsistent
    <2>2. ASSUME NEW r \in Runs
          PROVE  /\ evidence'[r].records = evidence[r].records
                 /\ r # Run => evidence'[r] = evidence[r]
      <3>1. ASSUME NEW s \in Signals, ArchiveInput(s)
            PROVE  /\ evidence'[r].records = evidence[r].records
                   /\ r # Run => evidence'[r] = evidence[r]
        BY <1>1, <3>1 DEF ArchiveInput, TypeOK, RunEvidence
      <3>2. ASSUME WriteStart
            PROVE  /\ evidence'[r].records = evidence[r].records
                   /\ r # Run => evidence'[r] = evidence[r]
        BY <1>1, <3>2 DEF WriteStart, TypeOK, RunEvidence
      <3> QED BY <1>5, <3>1, <3>2
    <2> QED BY <2>1, <2>2
  <1>6. CASE WriteIntent \/ Acknowledge \/ AcknowledgeFails \/ ReportDrain
    <2>1. op.kind = "drain" /\ Run \in Runs
      <3>1. op.stage \in Draining
        BY <1>6 DEF WriteIntent, Acknowledge, AcknowledgeFails, ReportDrain, Draining
      <3> QED BY <1>1, <3>1 DEF StagesOfKind, StagesConsistent
    <2>2. ASSUME NEW record, evidence' = Written(Run, record), record \in Records,
                 \/ record.operation = "compound.drain.intent"
                 \/ /\ record.operation = "compound.drain.removed"
                    /\ op.stage = "acknowledge" /\ record.drained = {op.signal}
                 \/ record.operation = "compound.drain" /\ record.drained = op.done
          PROVE  One
      BY <2>1, <2>2 DEF OneRecord
    <2>3. CASE evidence' = Written(Run, Record("compound.drain.intent"))
      <3>1. /\ Record("compound.drain.intent") \in Records
            /\ Record("compound.drain.intent").operation = "compound.drain.intent"
        BY RecordType DEF RecordKinds, Record
      <3> QED BY <2>2, <2>3, <3>1
    <2>4. CASE evidence' = Acknowledgement /\ op.stage = "acknowledge"
      <3> DEFINE record == [Record("compound.drain.removed") EXCEPT !.drained = {op.signal}]
      <3>1. op.signal \in Signals
        BY <1>1, <2>4 DEF StagesConsistent
      <3>2. /\ record \in Records /\ record.operation = "compound.drain.removed"
            /\ record.drained = {op.signal}
        <4>1. /\ Record("compound.drain.removed") \in Records
              /\ Record("compound.drain.removed").operation = "compound.drain.removed"
          BY RecordType DEF RecordKinds, Record
        <4> QED BY <3>1, <4>1 DEF Records
      <3>3. evidence' = Written(Run, record)
        BY <2>4 DEF Acknowledgement
      <3> HIDE DEF record
      <3> QED BY <2>2, <2>4, <3>2, <3>3
    <2>5. CASE ReportDrain /\ evidence' # evidence
      <3> DEFINE left == DOMAIN op.event.selected \ (RecordedDrained(Run) \cup op.done)
                 record == [Record("compound.drain") EXCEPT !.drained = op.done, !.retained = left]
      <3>1. op.done \subseteq Signals /\ left \subseteq Signals
        <4>1. op.done \subseteq Signals
          BY <1>1 DEF Operations
        <4>2. DOMAIN op.event.selected \subseteq Signals
          BY <1>1, SelectedType
        <4> QED BY <4>1, <4>2
      <3>2. evidence' = Written(Run, record)
        BY <2>5 DEF ReportDrain
      <3>3. /\ record \in Records /\ record.operation = "compound.drain"
            /\ record.drained = op.done
        <4>1. /\ Record("compound.drain") \in Records
              /\ Record("compound.drain").operation = "compound.drain"
          BY RecordType DEF RecordKinds, Record
        <4> HIDE DEF left
        <4> QED BY <3>1, <4>1 DEF Records
      <3> HIDE DEF record
      <3> QED BY <2>2, <3>2, <3>3
    <2>6. CASE evidence' \in {evidence, Torn(Run)}
      BY <1>2, <2>6
    <2> QED BY <1>6, <2>3, <2>4, <2>5, <2>6
            DEF WriteIntent, Acknowledge, AcknowledgeFails, ReportDrain
  <1>7. CASE InterruptEvidence
    BY <1>2, <1>7 DEF InterruptEvidence
  <1>8. CASE \/ Unlocked \/ UNCHANGED vars
             \/ Proceed /\ ~AppendEvidence /\ ~WriteStart /\ ~WriteIntent /\ ~Acknowledge
                        /\ ~ReportDrain /\ ~\E s \in Signals : ArchiveInput(s)
             \/ Fail /\ ~AcknowledgeFails /\ ~InterruptEvidence
    <2>1. evidence' = evidence
      BY <1>8 DEF Unlocked, Tick, Regress, EditSignal, EditConfiguration, vars, Proceed,
         ArchiveLog, ReplaceLog, AppendActivity, RegisterTrigger, ValidateInputs,
         SelectCandidates, VerifyInput, RemoveInput, Fail, RemoveUnsynced, DrainInterrupted,
         Interrupt, InterruptActivity
    <2> QED BY <1>2, <2>1
  <1> QED BY <1>3, <1>4, <1>5, <1>6, <1>7, <1>8 DEF Next, Proceed, Fail

\* The same, for what the invariants of the lifecycle alone need.
LEMMA RecordSteps ==
    ASSUME EvidenceInv, [Next]_vars
    PROVE  \/ \A r \in Runs : /\ evidence'[r].start = evidence[r].start
                              /\ evidence'[r].records = evidence[r].records
           \/ /\ op.kind = "start"
              /\ \A r \in Runs : evidence'[r].records = evidence[r].records
           \/ \E record \in Records : OneRecord(record)
  BY EvidenceSteps DEF EvidenceInv, InHand

\* A record leaves the others of its run, and every other run, as they are.
LEMMA RecordEffect ==
    ASSUME TypeOK, NEW record \in Records, OneRecord(record)
    PROVE  /\ \A r \in Runs : evidence'[r].start = evidence[r].start
           /\ \A r \in Runs, kind \in RecordKinds :
                 (r # Run \/ record.operation # kind) =>
                     /\ Having(r, kind)' = Having(r, kind)
                     /\ \A i \in Having(r, kind) : evidence'[r].records[i] = evidence[r].records[i]
  <1>1. Run \in Runs /\ evidence' = Written(Run, record)
    BY DEF OneRecord
  <1>2. \A r \in Runs : evidence'[r].start = evidence[r].start
    BY <1>1, WrittenEffect
  <1> DEFINE n == Len(evidence[Run].records) + 1
  <1>3. /\ \A r \in Runs, kind \in RecordKinds :
              Having(r, kind)' = Having(r, kind) \cup
                                 (IF r = Run /\ record.operation = kind THEN {n} ELSE {})
        /\ \A r \in Runs : \A i \in DOMAIN evidence[r].records :
              i \in DOMAIN evidence'[r].records /\ evidence'[r].records[i] = evidence[r].records[i]
    BY <1>1, HavingMore
  <1> HIDE DEF n
  <1>4. ASSUME NEW r \in Runs, NEW kind \in RecordKinds, r # Run \/ record.operation # kind
        PROVE  /\ Having(r, kind)' = Having(r, kind)
               /\ \A i \in Having(r, kind) : evidence'[r].records[i] = evidence[r].records[i]
    <2>1. Having(r, kind)' = Having(r, kind) \cup
                             (IF r = Run /\ record.operation = kind THEN {n} ELSE {})
      BY <1>3
    <2>2. Having(r, kind) \subseteq DOMAIN evidence[r].records
      BY DEF Having
    <2> QED BY <1>3, <1>4, <2>1, <2>2
  <1> QED BY <1>2, <1>4

\* What an operation that begins is about.
LEMMA BeginKinds ==
    ASSUME TypeOK, Begin
    PROVE  /\ op'.stage \notin {"none", "replace"} /\ op'.kind \in Kinds \ {"none"}
           /\ op'.kind \in {"start", "trigger", "worker"} =>
                 (op'.stage = "rollover" <=> NeedsRollover(log))
           /\ op'.kind = "worker" =>
                 \E ws \in Workspaces, r \in Runs, worker \in Workers :
                    /\ BeginWorker(ws, r, worker) /\ Run' = r
                    /\ op'.event = [Blank EXCEPT !.event = "worker", !.run_id = r,
                                      !.workspace_id = ws, !.at = clock, !.worker_id = worker]
                    /\ r \in ActiveRuns(log) \/ Has(r, "compound.finish")
           /\ op'.kind = "start" =>
                 /\ op'.stage \notin Issued
                 /\ op'.event.automatic =>
                       \E ws \in Workspaces : Due(log, configured[ws], clock, TRUE, Probe) = "due"
           /\ op'.kind = "finish" =>
                 \E ws \in Workspaces, r \in Runs, completion \in Reports,
                    dispositions \in SUBSET Signals, size \in Sizes :
                    BeginFinish(ws, r, completion, dispositions, size)
           /\ op'.kind = "drain" =>
                 \E ws \in Workspaces, r \in Runs, approved \in SUBSET Signals :
                    BeginDrain(ws, r, approved)
  <1>1. Idle \in Operations /\ Blank \in Events
    BY IdleType
  <1>2. ASSUME NEW o, o.kind \in {"start", "trigger", "worker"}, op' = AfterRollover(o),
               o \in Operations
        PROVE  /\ op'.kind = o.kind /\ op'.event = o.event
               /\ op'.stage \notin {"none", "replace"}
               /\ op'.stage = "rollover" <=> NeedsRollover(log)
               /\ o.kind = "start" => op'.stage \notin Issued
    BY <1>2 DEF AfterRollover, Resume, Operations, Issued
  <1>3. ASSUME NEW ws \in Workspaces
        PROVE  configured[ws] \in Triggers \cup {None}
    BY DEF TypeOK
  <1>4. ASSUME NEW ws \in Workspaces, BeginTrigger(ws)
        PROVE  /\ op'.kind = "trigger" /\ op'.stage \notin {"none", "replace"}
               /\ op'.stage = "rollover" <=> NeedsRollover(log)
    <2> DEFINE e == [Blank EXCEPT !.workspace_id = ws, !.trigger = configured[ws]]
               o == [Idle EXCEPT !.kind = "trigger", !.loaded = configured[ws], !.event = e]
    <2>1. op' = AfterRollover(o)
      BY <1>4 DEF BeginTrigger
    <2>2. e \in Events
      BY <1>1, <1>3 DEF Events
    <2>3. o \in Operations /\ o.kind = "trigger"
      <3> HIDE DEF e
      <3> QED BY <1>1, <1>3, <2>2 DEF Operations, Kinds
    <2> HIDE DEF o
    <2> QED BY <1>2, <2>1, <2>3
  <1>5. ASSUME NEW ws \in Workspaces,
               NEW selected \in Batches, NEW automatic \in Modes,
               NEW worker \in Workers \cup {None}, NEW recovery \in Runs \cup {None},
               NEW size \in Sizes,
               BeginStart(ws, selected, automatic, worker, recovery, size)
        PROVE  /\ op'.kind = "start" /\ op'.stage \notin {"none", "replace"} \cup Issued
               /\ op'.stage = "rollover" <=> NeedsRollover(log)
               /\ op'.event.automatic => Due(log, configured[ws], clock, TRUE, Probe) = "due"
    <2> DEFINE e == [Blank EXCEPT
                       !.event = "start", !.workspace_id = ws, !.automatic = automatic,
                       !.worker_id = worker, !.recovery_of = recovery,
                       !.selected = selected, !.size = size]
               o == [Idle EXCEPT !.kind = "start", !.loaded = configured[ws], !.event = e]
    <2>1. selected \in Selections /\ automatic \in BOOLEAN /\ size \in Nat
      BY CallersAssumption
    <2>2. e \in Events /\ e.automatic = automatic
      BY <1>1, <2>1 DEF Events
    <2>3. o \in Operations /\ o.kind = "start" /\ o.event = e
      <3> HIDE DEF e
      <3> QED BY <1>1, <1>3, <2>2 DEF Operations, Kinds
    <2>4. op' = AfterRollover(o)
      BY <1>5 DEF BeginStart
    <2>5. automatic => Due(log, configured[ws], clock, TRUE, Probe) = "due"
      BY <1>5 DEF BeginStart
    <2> HIDE DEF o, e
    <2>6. /\ op'.kind = "start" /\ op'.event = e
          /\ op'.stage \notin {"none", "replace"} /\ op'.stage \notin Issued
          /\ op'.stage = "rollover" <=> NeedsRollover(log)
      BY <1>2, <2>3, <2>4
    <2>7. op'.event.automatic = automatic
      BY <2>2, <2>6
    <2> QED BY <2>5, <2>6, <2>7
  <1>6. ASSUME NEW ws \in Workspaces, NEW r \in Runs, NEW worker \in Workers,
               BeginWorker(ws, r, worker)
        PROVE  /\ op'.kind = "worker" /\ op'.stage \notin {"none", "replace"}
               /\ op'.stage = "rollover" <=> NeedsRollover(log)
               /\ op'.event = [Blank EXCEPT !.event = "worker", !.run_id = r,
                                 !.workspace_id = ws, !.at = clock, !.worker_id = worker]
               /\ Run' = r /\ (r \in ActiveRuns(log) \/ Has(r, "compound.finish"))
    <2> DEFINE e == [Blank EXCEPT !.event = "worker", !.run_id = r,
                                  !.workspace_id = ws, !.at = clock, !.worker_id = worker]
               c == IF Merge(Recorded(r), worker) = Recorded(r) THEN None
                    ELSE [Record("compound.worker") EXCEPT !.worker_id = worker]
               o == [Idle EXCEPT !.kind = "worker", !.loaded = configured[ws],
                                 !.event = e, !.record = c]
    <2>1. e \in Events /\ e.run_id = r
      BY <1>1 DEF Events, TypeOK
    <2>2. c \in Records \cup {None}
      <3>1. Record("compound.worker") \in Records
        BY RecordType DEF RecordKinds
      <3> QED BY <3>1 DEF Records
    <2>3. o \in Operations /\ o.kind = "worker" /\ o.event = e
      <3> HIDE DEF e, c
      <3> QED BY <1>1, <1>3, <2>1, <2>2 DEF Operations, Kinds
    <2>4. op' = AfterRollover(o)
      BY <1>6 DEF BeginWorker
    <2>5. r \in ActiveRuns(log) \/ Has(r, "compound.finish")
      BY <1>6 DEF BeginWorker
    <2> HIDE DEF o, e
    <2>6. /\ op'.kind = "worker" /\ op'.event = e /\ op'.stage \notin {"none", "replace"}
          /\ op'.stage = "rollover" <=> NeedsRollover(log)
      BY <1>2, <2>3, <2>4
    <2> QED BY <2>1, <2>5, <2>6 DEF Run, e
  <1>7. ASSUME NEW ws, NEW r, NEW completion, NEW dispositions, NEW size,
               BeginFinish(ws, r, completion, dispositions, size)
        PROVE  op'.kind = "finish" /\ op'.stage = "evidence"
    BY <1>1, <1>7 DEF BeginFinish, Operations
  <1>8. ASSUME NEW ws, NEW r, NEW approved, BeginDrain(ws, r, approved)
        PROVE  op'.kind = "drain" /\ op'.stage = "intent"
    BY <1>1, <1>8 DEF BeginDrain, Operations
  <1> QED BY <1>4, <1>5, <1>6, <1>7, <1>8 DEF Begin, Kinds

\* Nothing is finished, and no worker attached, but a run the history knows.
LEMMA NextFinishedStarted ==
    ASSUME EvidenceInv, FinishedStarted, [Next]_vars
    PROVE  FinishedStarted'
  <1>1. /\ TypeOK /\ InHand /\ EventMatches
    BY DEF EvidenceInv, OwnershipInv, Typed
  <1>2. Started(history) \subseteq Started(history)'
    <2>1. CASE history' = history
      BY <2>1 DEF Started, At
    <2>2. CASE history' = Append(history, op.event)
      BY <1>1, <2>2, AppendedLine DEF Started, At
    <2> QED BY <1>1, <2>1, <2>2, LogSteps DEF ReplaceLog
  <1>3. ASSUME NEW r \in Runs, Has(r, "compound.finish")'
        PROVE  r \in Started(history)
    <2>1. CASE Has(r, "compound.finish")
      BY <2>1 DEF FinishedStarted
    <2>2. CASE \A q \in Runs : evidence'[q].records = evidence[q].records
      <3>1. Has(r, "compound.finish")
        BY <1>3, <2>2 DEF Has, Having
      <3> QED BY <2>1, <3>1
    <2>3. ASSUME NEW record \in Records, OneRecord(record)
          PROVE  r \in Started(history)
      <3>1. CASE r = Run /\ record.operation = "compound.finish"
        <4>1. op.stage = "evidence" /\ record = op.record
              /\ op.kind \in {"start", "worker", "finish"}
          BY <2>3, <3>1 DEF OneRecord
        <4>2. op.kind # "start"
          BY <1>1, <3>1, <4>1 DEF InHand, StartBacked, Record
        <4>3. op.kind # "worker"
          <5> SUFFICES ASSUME op.kind = "worker" PROVE FALSE
            OBVIOUS
          <5>1. op.record # None
            BY <4>1, RecordsAssumption
          <5>2. op.record = [Record("compound.worker") EXCEPT !.worker_id = op.event.worker_id]
            BY <1>1, <5>1 DEF InHand, WorkerBacked
          <5>3. op.record.operation = "compound.worker"
            BY <5>2 DEF Record
          <5> QED BY <3>1, <4>1, <5>3
        <4> QED BY <1>1, <3>1, <4>1, <4>2, <4>3 DEF EventMatches
      <3>2. CASE r # Run \/ record.operation # "compound.finish"
        <4>1. "compound.finish" \in RecordKinds
          BY DEF RecordKinds
        <4>2. Having(r, "compound.finish")' = Having(r, "compound.finish")
          BY <1>1, <2>3, <3>2, <4>1, RecordEffect
        <4> QED BY <1>3, <2>1, <4>2 DEF Has
      <3> QED BY <3>1, <3>2
    <2> QED BY <2>2, <2>3, RecordSteps
  <1>4. ASSUME op'.kind = "worker"
        PROVE  Run' \in Started(history)
    <2>1. CASE Begin
      <3>1. PICK r \in Runs : Run' = r /\ (r \in ActiveRuns(log) \/ Has(r, "compound.finish"))
        BY <1>1, <1>4, <2>1, BeginKinds
      <3>2. r \in ActiveRuns(log) => r \in Started(history)
        BY <1>1, LogWithinHistory DEF ActiveRuns
      <3> QED BY <3>1, <3>2 DEF FinishedStarted
    <2>2. CASE op'.kind = op.kind /\ op'.event = op.event
      BY <1>4, <2>2 DEF FinishedStarted, Run
    <2> QED BY <1>4, <2>1, <2>2, HandSteps
  <1> QED BY <1>2, <1>3, <1>4 DEF FinishedStarted

\* The lines a rollover drops are archived before it drops them.
LEMMA NextNothingLost ==
    ASSUME EvidenceInv, NothingLost, [Next]_vars
    PROVE  NothingLost'
  <1>1. TypeOK
    BY DEF EvidenceInv, OwnershipInv, Typed
  <1>2. archived \subseteq archived'
    BY BeginLeaves DEF Next, Proceed, ArchiveLog, ReplaceLog, AppendEvidence, AppendActivity,
       RegisterTrigger, ValidateInputs, ArchiveInput, WriteStart, WriteIntent, SelectCandidates,
       VerifyInput, RemoveInput, Acknowledge, ReportDrain, Fail, RemoveUnsynced,
       AcknowledgeFails, DrainInterrupted, Interrupt, InterruptEvidence, InterruptActivity,
       Unlocked, Tick, Regress, EditSignal, EditConfiguration, vars, coordination
  <1>3. DOMAIN history' \subseteq live' \cup archived'
    <2>1. CASE UNCHANGED <<history, live>>
      BY <1>2, <2>1 DEF NothingLost
    <2>2. CASE ReplaceLog
      BY <1>2, <2>2 DEF NothingLost, ReplaceLog
    <2>3. CASE history' = Append(history, op.event) /\ live' = live \cup {Len(history) + 1}
      BY <1>1, <1>2, <2>3, AppendedLine DEF NothingLost
    <2> QED BY <1>1, <2>1, <2>2, <2>3, LogSteps
  <1>4. ASSUME op'.stage = "replace"
        PROVE  live' \subseteq archived'
    <2>1. ~Begin
      BY <1>1, <1>4, BeginKinds
    <2>2. ArchiveLog \/ UNCHANGED <<op, history, live, archived>>
      BY <1>4, <2>1, HandSteps
    <2>3. CASE ArchiveLog
      BY <2>3 DEF ArchiveLog
    <2>4. CASE UNCHANGED <<op, history, live, archived>>
      BY <1>4, <2>4 DEF NothingLost
    <2> QED BY <2>2, <2>3, <2>4
  <1> QED BY <1>3, <1>4 DEF NothingLost

-----------------------------------------------------------------------------
(* A rollover hides nothing. *)

\* The inductive invariant of the rollover holds in every reachable state.
LEMMA RolloverCorrect == Spec => []RolloverInv
  <1>1. Init => RolloverInv
    <2> SUFFICES ASSUME Init PROVE RolloverInv
      OBVIOUS
    <2>1. EvidenceInv
      BY InitEvidence
    <2>2. /\ history = <<>> /\ live = {} /\ DOMAIN history = {}
          /\ op.kind = "none" /\ op.stage = "none"
      BY DEF Init, Idle
    <2>3. \A r \in Runs : \A kind : Having(r, kind) = {}
      BY DEF Init, NoEvidence, Having
    <2>4. OneEnd /\ OneStart(history) /\ StartFirst /\ EndsWhole
      BY <2>2 DEF OneEnd, OneStart, StartFirst, EndsWhole, At
    <2>5. ActiveLive
      BY <2>2 DEF ActiveLive, LinesOf
    <2>6. LatestLive
      BY <2>2 DEF LatestLive, LatestIn, EndsWith, At
    <2>7. FinishedStarted /\ NothingLost
      BY <2>2, <2>3 DEF FinishedStarted, NothingLost, Has
    <2> QED BY <2>1, <2>4, <2>5, <2>6, <2>7 DEF RolloverInv, Rollovers, Lines
  <1>2. RolloverInv /\ [Next]_vars => RolloverInv'
    <2> SUFFICES ASSUME RolloverInv, [Next]_vars PROVE RolloverInv'
      OBVIOUS
    <2>1. EvidenceInv /\ OneEnd /\ Lines /\ FinishedStarted /\ NothingLost
      BY DEF RolloverInv, Rollovers
    <2>2. EvidenceInv'
      BY <2>1, NextOwnership, NextHand, NextLedger DEF EvidenceInv
    <2>3. OneEnd'
      BY <2>1, HandClaims, NextOneEnd DEF EvidenceInv
    <2>4. Lines' /\ FinishedStarted' /\ NothingLost'
      BY <2>1, NextLines, NextFinishedStarted, NextNothingLost
    <2> QED BY <2>2, <2>3, <2>4 DEF RolloverInv, Rollovers
  <1> QED BY <1>1, <1>2, PTL DEF Spec

\* The bounded log names every unfinished run by the identity that the whole
\* history gives it.
LEMMA ActiveIdentity ==
    ASSUME TypeOK, ActiveTransparent, Lines, NEW r \in ActiveRuns(history)
    PROVE  Effective(log, r) = Effective(history, r)
  <1>1. /\ Len(history) \in Nat /\ DOMAIN history = 1..Len(history)
        /\ live \in SUBSET (1..Len(history))
        /\ DOMAIN log = live /\ \A i \in live : log[i] = history[i]
    BY LogLines
  <1>2. OneStart(history) /\ r \in Started(history)
    BY DEF Lines, ActiveRuns
  <1>3. \A i \in DOMAIN history :
           (history[i].event \in {"start", "worker"} /\ history[i].run_id = r) => i \in live
    BY DEF Lines, ActiveLive, LinesOf
  <1> DEFINE f == history
             g == log
  <1>4. /\ DOMAIN f \subseteq 1..Len(history) /\ r \in Started(f) /\ OneStart(f)
        /\ DOMAIN g \subseteq DOMAIN f /\ \A i \in DOMAIN g : g[i] = f[i]
        /\ \A i \in DOMAIN f :
              (f[i].event \in {"start", "worker"} /\ f[i].run_id = r) => i \in DOMAIN g
    BY <1>1, <1>2, <1>3
  <1> HIDE DEF f, g
  <1>5. Effective(g, r) = Effective(f, r)
    BY <1>1, <1>4, SameIdentity
  <1> QED BY <1>5 DEF f, g

\* It answers every question as the whole history would.
LEMMA Transparent ==
    ASSUME RolloverInv
    PROVE  RolloverTransparent
  <1>1. TypeOK /\ ActiveTransparent /\ Lines /\ NothingLost
    BY DEF RolloverInv, Rollovers, EvidenceInv, OwnershipInv, Typed
  <1>2. /\ Len(history) \in Nat /\ live \in SUBSET (1..Len(history))
        /\ \A i \in live : log[i] = history[i]
    BY <1>1, LogLines
  <1>3. /\ \A kind : At(log, kind) = At(history, kind) \cap live
        /\ \A C : EndsWith(log, C) = EndsWith(history, C) \cap live
        /\ \A kind : At(history, kind) \in SUBSET (1..Len(history))
        /\ \A C : EndsWith(history, C) \in SUBSET (1..Len(history))
    BY <1>1, KeptLines
  <1>4. \A r \in ActiveRuns(log) : Effective(log, r) = Effective(history, r)
    BY <1>1, ActiveIdentity DEF ActiveTransparent
  <1>5. Agreement(log) = Agreement(history)
    <2> DEFINE P == At(history, "trigger")
               Q == At(log, "trigger")
    <2>1. P \in SUBSET (1..Len(history)) /\ Q = P \cap live /\ LatestIn(P) \subseteq live
      BY <1>1, <1>3 DEF Lines, LatestLive
    <2>2. LatestIn(Q) = LatestIn(P) /\ (P # {} => Latest(Q) = Latest(P))
      <3> HIDE DEF P, Q
      <3> QED BY <1>2, <2>1, LatestKept
    <2>3. P # {} => Latest(P) \in LatestIn(P)
      <3> HIDE DEF P
      <3> QED BY <1>2, <2>1, LatestIsMember DEF LatestIn
    <2>4. LatestIn(Q) \subseteq Q
      BY DEF LatestIn
    <2>5. CASE P = {}
      BY <2>1, <2>5 DEF Agreement
    <2>6. CASE P # {}
      <3>1. Q # {} /\ Latest(Q) = Latest(P) /\ Latest(P) \in live
        BY <2>1, <2>2, <2>3, <2>4, <2>6
      <3>2. log[Latest(P)] = history[Latest(P)]
        BY <1>2, <3>1
      <3>3. Agreement(log) = log[Latest(P)].trigger
        BY <3>1 DEF Agreement
      <3>4. Agreement(history) = history[Latest(P)].trigger
        BY <2>6 DEF Agreement
      <3> QED BY <3>2, <3>3, <3>4
    <2> QED BY <2>5, <2>6
  <1>6. ASSUME NEW C \in {Successes, Relevant}
        PROVE  LatestIn(EndsWith(log, C)) = LatestIn(EndsWith(history, C))
    <2>1. EndsWith(log, C) = EndsWith(history, C) \cap live
      BY <1>3
    <2>2. EndsWith(history, C) \in SUBSET (1..Len(history))
      BY <1>3
    <2>3. LatestIn(EndsWith(history, C)) \subseteq live
      BY <1>1 DEF Lines, LatestLive
    <2> QED BY <1>2, <2>1, <2>2, <2>3, LatestKept
  <1>7. ASSUME NEW trigger \in Triggers
        PROVE  Deadlines(log, trigger) = Deadlines(history, trigger)
    <2> DEFINE S == LatestIn(EndsWith(history, Successes))
               R == LatestIn(EndsWith(history, Relevant))
               F == EndsWith(history, {"failed"})
    <2>1. /\ LatestIn(EndsWith(log, Successes)) = S /\ LatestIn(EndsWith(log, Relevant)) = R
          /\ S \subseteq live /\ R \subseteq live
      BY <1>1, <1>6 DEF Lines, LatestLive
    <2>2. EndsWith(log, {"failed"}) = F \cap live
      BY <1>3
    <2> HIDE DEF S, R, F
    <2>3. Deadlines(log, trigger) =
             {log[i].at + trigger.interval_seconds : i \in S}
             \cup {log[i].at + trigger.retry_seconds : i \in R \cap F}
      BY <2>1, <2>2 DEF Deadlines
    <2>4. Deadlines(history, trigger) =
             {history[i].at + trigger.interval_seconds : i \in S}
             \cup {history[i].at + trigger.retry_seconds : i \in R \cap F}
      BY DEF Deadlines, S, R, F
    <2> QED BY <1>2, <2>1, <2>3, <2>4
  <1> QED BY <1>1, <1>4, <1>5, <1>7
          DEF RolloverTransparent, ActiveTransparent, Lines, LatestLive, NothingLost

\* However often the log is rolled over, and wherever it is interrupted, the
\* file answers as all that was ever logged would, and what it no longer holds
\* is archived.
THEOREM RolloverHidesNothing == Spec => []RolloverTransparent
  <1>1. RolloverInv => RolloverTransparent
    BY Transparent
  <1> QED BY <1>1, RolloverCorrect, PTL

-----------------------------------------------------------------------------
(* What the strict reader checks. *)

\* What was logged before a line is not changed by the lines after it.
LEMMA EarlierKept ==
    ASSUME TypeOK, history' = Append(history, op.event)
    PROVE  /\ \A i \in DOMAIN history :
                 Restrict(history', Before(history', i)) = Restrict(history, Before(history, i))
           /\ Restrict(history', Before(history', Len(history) + 1)) = history
  <1> DEFINE n == Len(history) + 1
  <1>1. /\ DOMAIN history' = DOMAIN history \cup {n} /\ n \notin DOMAIN history
        /\ history'[n] = op.event /\ \A i \in DOMAIN history : history'[i] = history[i]
    BY AppendedLine
  <1>2. /\ Len(history) \in Nat /\ DOMAIN history = 1..Len(history)
        /\ history = [i \in DOMAIN history |-> history[i]]
    <2>1. history \in Seq(Events)
      BY DEF TypeOK
    <2> QED BY <2>1, LogLines
  <1>3. \A i \in DOMAIN history : ~(n < i) /\ i < n
    BY <1>2
  <1>4. ~(n < n)
    BY <1>2
  <1> HIDE DEF n
  <1>5. ASSUME NEW i \in DOMAIN history
        PROVE  Restrict(history', Before(history', i)) = Restrict(history, Before(history, i))
    <2>1. Before(history', i) = Before(history, i) /\ Before(history, i) \subseteq DOMAIN history
      BY <1>1, <1>3 DEF Before
    <2> QED BY <1>1, <2>1 DEF Restrict
  <1>6. Restrict(history', Before(history', n)) = history
    <2>1. Before(history', n) = DOMAIN history
      BY <1>1, <1>3, <1>4 DEF Before
    <2>2. Restrict(history', DOMAIN history) = [i \in DOMAIN history |-> history[i]]
      BY <1>1 DEF Restrict
    <2> QED BY <1>2, <2>1, <2>2
  <1> QED BY <1>5, <1>6 DEF n

\* _append refuses a line older than the last, and the file never lacks the last.
LEMMA NextOrdered ==
    ASSUME RolloverInv, OrderedTime(history), [Next]_vars
    PROVE  OrderedTime(history')
  <1>1. TypeOK /\ LatestLive
    BY DEF RolloverInv, Rollovers, Lines, EvidenceInv, OwnershipInv, Typed
  <1>2. CASE history' = history
    BY <1>2
  <1>3. CASE /\ history' = Append(history, op.event) /\ Appendable(log, op.event)
    <2> DEFINE n == Len(history) + 1
    <2>1. /\ DOMAIN history' = DOMAIN history \cup {n} /\ n \notin DOMAIN history
          /\ history'[n] = op.event /\ \A i \in DOMAIN history : history'[i] = history[i]
      BY <1>1, <1>3, AppendedLine
    <2>2. /\ Len(history) \in Nat /\ DOMAIN history = 1..Len(history)
          /\ DOMAIN log = live /\ \A i \in live : log[i] = history[i]
      BY <1>1, LogLines
    <2>3. /\ \A i \in DOMAIN history : history[i].at \in Nat
          /\ op.event.at \in Nat
      <3>1. \A i \in DOMAIN history : history[i] \in Events
        BY <1>1 DEF TypeOK
      <3>2. op.event \in Events
        BY <1>1 DEF TypeOK, Operations
      <3> QED BY <3>1, <3>2 DEF Events
    <2>4. ASSUME NEW i \in DOMAIN history
          PROVE  history[i].at <= op.event.at
      <3>1. Len(history) \in live
        BY <1>1, <2>2 DEF LatestLive
      <3>2. history[Len(history)].at <= op.event.at
        BY <1>3, <2>2, <3>1 DEF Appendable
      <3>3. Len(history) \in DOMAIN history /\ i <= Len(history)
        BY <2>2
      <3>4. history[i].at <= history[Len(history)].at
        BY <3>3 DEF OrderedTime
      <3> QED BY <2>3, <3>2, <3>3, <3>4
    <2>5. \A i \in DOMAIN history : ~(n <= i)
      BY <2>2
    <2> HIDE DEF n
    <2>6. \A i, j \in DOMAIN history' : i <= j => history'[i].at <= history'[j].at
      BY <2>1, <2>3, <2>4, <2>5 DEF OrderedTime
    <2> QED BY <2>6 DEF OrderedTime
  <1> QED BY <1>1, <1>2, <1>3, LogSteps DEF ReplaceLog

\* An identity is resolved from the start and the attachments of a run alone.
LEMMA RecordedKept ==
    ASSUME TypeOK, NEW r \in Runs, evidence'[r].start = evidence[r].start,
           Having(r, "compound.worker")' = Having(r, "compound.worker"),
           \A i \in Having(r, "compound.worker") : evidence'[r].records[i] = evidence[r].records[i]
    PROVE  Recorded(r)' = Recorded(r)
  <1> DEFINE attached == Having(r, "compound.worker")
  <1>1. attached' = attached
    OBVIOUS
  <1>2. attached # {} => Latest(attached) \in attached
    <2>1. evidence[r].records \in Seq(Records)
      BY DEF TypeOK, RunEvidence
    <2>2. attached \in SUBSET (1..Len(evidence[r].records)) /\ Len(evidence[r].records) \in Nat
      BY <2>1 DEF Having
    <2> HIDE DEF attached
    <2> QED BY <2>2, LatestIsMember
  <1>3. Recorded(r)' = IF attached' = {} THEN evidence'[r].start
                       ELSE Merge(evidence'[r].start, evidence'[r].records[Latest(attached')].worker_id)
    BY DEF Recorded, Latest
  <1>4. Recorded(r) = IF attached = {} THEN evidence[r].start
                      ELSE Merge(evidence[r].start, evidence[r].records[Latest(attached)].worker_id)
    BY DEF Recorded
  <1>5. \A i \in attached : evidence'[r].records[i] = evidence[r].records[i]
    OBVIOUS
  <1> HIDE DEF attached
  <1> QED BY <1>1, <1>2, <1>3, <1>4, <1>5

\* finish_run builds the end from the identity it has just read.
LEMMA BeginFinishTerminates ==
    ASSUME TypeOK, StartsFiled, NEW ws, NEW r \in Runs, NEW completion \in Reports,
           NEW dispositions \in SUBSET Signals, NEW size \in Sizes,
           BeginFinish(ws, r, completion, dispositions, size)
    PROVE  /\ Run' = r /\ Effective(log, r) = Recorded(r)
           /\ Terminates(Recorded(r), op'.event)
  <1> DEFINE active == Recorded(r)
             drained == RecordedDrained(r)
             e == [active EXCEPT !.event = "end", !.at = clock,
                          !.selected = NoSelection, !.dispositions = dispositions,
                          !.drained = drained, !.completion = completion, !.size = size]
  <1>1. Idle \in Operations /\ Blank \in Events
    BY IdleType
  <1>2. active \in Events /\ active.run_id = r
    BY RecordedOf DEF BeginFinish, ActiveRun, Resolvable
  <1>3. Effective(log, r) = active
    BY DEF BeginFinish, ActiveRun
  <1>4. /\ active.automatic => completion # None
        /\ completion \in Successes => dispositions = DOMAIN active.selected
        /\ completion = "empty" => DOMAIN active.selected = {} /\ dispositions = {}
        /\ clock >= active.at
    BY DEF BeginFinish
  <1>5. op'.event = e
    <2>1. op' = [Idle EXCEPT
              !.kind = "finish", !.loaded = configured[ws], !.stage = "evidence",
              !.event = e,
              !.record = [Record("compound.finish") EXCEPT
                            !.at = clock, !.drained = drained,
                            !.retained = DOMAIN active.selected \ drained]]
      BY DEF BeginFinish
    <2> HIDE DEF e, active, drained
    <2> QED BY <1>1, <2>1 DEF Operations
  <1> HIDE DEF active, drained
  <1>6. /\ e.workspace_id = active.workspace_id /\ e.automatic = active.automatic
        /\ e.worker_id = active.worker_id /\ e.recovery_of = active.recovery_of
        /\ e.at = clock /\ e.completion = completion /\ e.dispositions = dispositions
        /\ e.run_id = r
    BY <1>2 DEF Events
  <1>7. DOMAIN active.selected = {} => active.selected = NoSelection
    <2>1. active.selected \in Selections
      BY <1>2 DEF Events
    <2>2. PICK S \in SUBSET Signals : active.selected \in [S -> Contents]
      BY <2>1 DEF Selections
    <2> QED BY <2>2 DEF NoSelection
  <1> HIDE DEF e
  <1>8. Terminates(active, e)
    BY <1>4, <1>6, <1>7 DEF Terminates
  <1> QED BY <1>3, <1>5, <1>6, <1>8 DEF Run, active

\* What a finish has in hand keeps ending the identity of its run: its own
\* record is the only thing written meanwhile.
LEMMA NextFinishTerminates ==
    ASSUME RolloverInv, FinishTerminates, [Next]_vars
    PROVE  FinishTerminates'
  <1> SUFFICES ASSUME op'.kind = "finish"
               PROVE  Effective(log, Run)' = Recorded(Run)' /\ Terminates(Recorded(Run)', op'.event)
    BY DEF FinishTerminates, Terminates
  <1>1. /\ EvidenceInv /\ TypeOK /\ StartsFiled /\ StagesConsistent /\ InHand /\ EventMatches
    BY DEF RolloverInv, EvidenceInv, OwnershipInv, Typed
  <1>2. ASSUME NEW r, r = Run', UNCHANGED <<history, live>>,
               Effective(log, r) = Recorded(r), Recorded(r)' = Recorded(r),
               Terminates(Recorded(r), op'.event)
        PROVE  Effective(log, Run)' = Recorded(Run)' /\ Terminates(Recorded(Run)', op'.event)
    <2>1. Effective(log, r)' = Effective(log, r)
      BY <1>2 DEF Effective, StartOf, WorkersOf, At, Latest, log
    <2>2. Effective(log, Run)' = Effective(log, r)'
      BY <1>2 DEF Effective, StartOf, WorkersOf, At, Latest, log
    <2>3. Recorded(Run)' = Recorded(r)'
      BY <1>2 DEF Recorded, Having, Latest
    <2> QED BY <1>2, <2>1, <2>2, <2>3
  <1>3. CASE Begin
    <2>1. PICK ws \in Workspaces, r \in Runs, completion \in Reports,
               dispositions \in SUBSET Signals, size \in Sizes :
               BeginFinish(ws, r, completion, dispositions, size)
      BY <1>1, <1>3, BeginKinds
    <2>2. /\ Run' = r /\ Effective(log, r) = Recorded(r)
          /\ Terminates(Recorded(r), op'.event)
      BY <1>1, <2>1, BeginFinishTerminates
    <2>3. UNCHANGED <<history, live, evidence>>
      BY <1>3, BeginLeaves DEF coordination
    <2>4. Recorded(r)' = Recorded(r)
      BY <2>3 DEF Recorded, Having, Latest
    <2> QED BY <1>2, <2>2, <2>3, <2>4
  <1>4. CASE op'.kind = op.kind /\ op'.event = op.event
    <2>1. /\ op.kind = "finish" /\ Run \in Runs
          /\ op.stage \in {"evidence", "append"}
      BY <1>1, <1>4 DEF InHand, RunKnown, StagesOfKind
    <2>2. UNCHANGED <<history, live>>
      <3>1. ~ReplaceLog
        BY <2>1 DEF ReplaceLog
      <3>2. ~(AppendActivity /\ history' = Append(history, op.event))
        BY <1>4, <2>1 DEF AppendActivity, Release, Idle
      <3> QED BY <1>1, <3>1, <3>2, LogSteps
    <2>3. PICK r \in Runs : r = Run
      BY <2>1
    <2>4. Recorded(r)' = Recorded(r)
      <3>1. "compound.worker" \in RecordKinds
        BY DEF RecordKinds
      <3>2. CASE \A q \in Runs : /\ evidence'[q].start = evidence[q].start
                                 /\ evidence'[q].records = evidence[q].records
        <4>1. /\ evidence'[r].start = evidence[r].start
              /\ evidence'[r].records = evidence[r].records
          BY <3>2
        <4> QED BY <4>1 DEF Recorded, Having, Latest
      <3>3. ASSUME NEW record \in Records, OneRecord(record)
            PROVE  Recorded(r)' = Recorded(r)
        <4>1. record = op.record /\ op.stage = "evidence"
          BY <2>1, <3>3 DEF OneRecord
        <4>2. record.operation = "compound.finish"
          BY <1>1, <2>1, <4>1 DEF InHand, FinishBacked
        <4>3. /\ evidence'[r].start = evidence[r].start
              /\ Having(r, "compound.worker")' = Having(r, "compound.worker")
              /\ \A i \in Having(r, "compound.worker") :
                    evidence'[r].records[i] = evidence[r].records[i]
          BY <1>1, <3>1, <3>3, <4>2, RecordEffect
        <4> QED BY <1>1, <4>3, RecordedKept
      <3>4. op.kind # "start"
        BY <2>1
      <3> QED BY <1>1, <3>2, <3>3, <3>4, RecordSteps
    <2>5. Effective(log, r) = Recorded(r) /\ Terminates(Recorded(r), op'.event)
      BY <1>4, <2>1, <2>3 DEF FinishTerminates
    <2>6. r = Run'
      BY <1>4, <2>3 DEF Run
    <2> QED BY <1>2, <2>2, <2>4, <2>5, <2>6
  <1> QED BY <1>1, <1>3, <1>4, HandSteps

\* Every end that is logged repeats the identity its run has at that line.
LEMMA NextEndsTerminate ==
    ASSUME ReadingInv, [Next]_vars
    PROVE  EndsTerminate'
  <1>1. /\ EvidenceInv /\ TypeOK /\ InHand /\ ActiveTransparent /\ Lines /\ FinishedStarted
        /\ EndsTerminate /\ FinishTerminates
    BY DEF ReadingInv, Reading, RolloverInv, Rollovers, EvidenceInv, OwnershipInv, Typed
  <1>2. CASE history' = history
    <2>1. \A i \in At(history', "end") : Terminates(IdentityAt(history', i), history'[i])
      BY <1>1, <1>2 DEF EndsTerminate
    <2> QED BY <2>1 DEF EndsTerminate, IdentityAt, At, Terminates, Effective, StartOf, WorkersOf,
            Latest, Restrict, Before
  <1>3. CASE op.stage = "append" /\ history' = Append(history, op.event)
    <2> DEFINE n == Len(history) + 1
    <2>1. /\ DOMAIN history' = DOMAIN history \cup {n} /\ n \notin DOMAIN history
          /\ history'[n] = op.event /\ \A i \in DOMAIN history : history'[i] = history[i]
      BY <1>1, <1>3, AppendedLine
    <2>2. /\ \A i \in DOMAIN history :
                Restrict(history', Before(history', i)) = Restrict(history, Before(history, i))
          /\ Restrict(history', Before(history', n)) = history
      BY <1>1, <1>3, EarlierKept
    <2> HIDE DEF n
    <2>3. ASSUME NEW i \in At(history, "end")
          PROVE  Terminates(IdentityAt(history', i), history'[i])
      <3>1. i \in DOMAIN history
        BY DEF At
      <3>2. IdentityAt(history', i) = IdentityAt(history, i)
        BY <2>1, <2>2, <3>1 DEF IdentityAt
      <3> QED BY <1>1, <2>1, <3>1, <3>2 DEF EndsTerminate
    <2>4. ASSUME op.event.event = "end"
          PROVE  Terminates(IdentityAt(history', n), history'[n])
      <3>1. op.kind = "finish" /\ Run \in ActiveRuns(history)
        BY <1>1, <1>3, <2>4, InHandBacked, LineFits
      <3>2. Effective(log, Run) = Effective(history, Run)
        BY <1>1, <3>1, ActiveIdentity
      <3>3. IdentityAt(history', n) = Effective(history, op.event.run_id)
        BY <2>1, <2>2 DEF IdentityAt
      <3>4. Effective(log, Run) = Recorded(Run) /\ Terminates(Recorded(Run), op.event)
        BY <1>1, <3>1 DEF FinishTerminates
      <3> QED BY <2>1, <3>2, <3>3, <3>4 DEF Run
    <2>5. \A i \in At(history', "end") :
             i \in At(history, "end") \/ (i = n /\ op.event.event = "end")
      BY <2>1 DEF At
    <2>6. \A i \in At(history', "end") : Terminates(IdentityAt(history', i), history'[i])
      BY <2>3, <2>4, <2>5
    <2> QED BY <2>6 DEF EndsTerminate, IdentityAt, At, Terminates, Effective, StartOf, WorkersOf,
            Latest, Restrict, Before
  <1> QED BY <1>1, <1>2, <1>3, LogSteps DEF ReplaceLog

\* The inductive invariant of what the strict reader checks holds in every
\* reachable state.
LEMMA ReadingCorrect == Spec => []ReadingInv
  <1>1. Init => Reading
    <2> SUFFICES ASSUME Init PROVE Reading
      OBVIOUS
    <2>1. DOMAIN history = {} /\ op.kind = "none"
      BY DEF Init, Idle
    <2> QED BY <2>1 DEF Reading, OrderedTime, EndsTerminate, FinishTerminates, At
  <1>2. RolloverInv /\ RolloverInv' /\ Reading /\ [Next]_vars => Reading'
    <2> SUFFICES ASSUME RolloverInv, Reading, [Next]_vars PROVE Reading'
      OBVIOUS
    <2>1. OrderedTime(history') /\ FinishTerminates' /\ EndsTerminate'
      BY NextOrdered, NextFinishTerminates, NextEndsTerminate DEF Reading, ReadingInv
    <2> QED BY <2>1 DEF Reading, OrderedTime
  <1> QED BY <1>1, <1>2, RolloverCorrect, PTL DEF Spec, ReadingInv

\* The handles that the log knows for a run are the one its evidence names.
LEMMA WorkerNamed ==
    ASSUME EvidenceInv, NEW i \in live, history[i].event = "worker"
    PROVE  history[i].run_id \in Runs /\ Names(history[i].run_id, history[i].worker_id)
  <1>1. TypeOK /\ WorkersAgree /\ LinesOfRuns /\ LogBackedByEvidence
    BY DEF EvidenceInv, OwnershipInv, Typed, Ledger
  <1>2. i \in DOMAIN history
    BY <1>1 DEF TypeOK
  <1>3. history[i].run_id \in Runs
    BY <1>1, <1>2 DEF LinesOfRuns
  <1>4. PICK j \in Having(history[i].run_id, "compound.worker") :
            evidence[history[i].run_id].records[j].worker_id = history[i].worker_id
    BY <1>1, <1>2 DEF LogBackedByEvidence
  <1> QED BY <1>1, <1>3, <1>4 DEF WorkersAgree

\* The strict reader accepts every log that the operations write.
LEMMA ReaderAccepts ==
    ASSUME ReadingInv
    PROVE  Readable(log)
  <1>1. /\ EvidenceInv /\ TypeOK /\ ActiveTransparent /\ OneEnd /\ Lines
        /\ OrderedTime(history) /\ EndsTerminate /\ LinesOfRuns /\ LogBackedByEvidence
    BY DEF ReadingInv, Reading, RolloverInv, Rollovers, EvidenceInv, OwnershipInv, Typed, Ledger
  <1>2. /\ Len(history) \in Nat /\ DOMAIN history = 1..Len(history)
        /\ live \in SUBSET (1..Len(history))
        /\ DOMAIN log = live /\ \A i \in live : log[i] = history[i]
    BY <1>1, LogLines
  <1>3. \A kind : At(log, kind) \subseteq live /\ At(log, kind) \subseteq At(history, kind)
    BY <1>2 DEF At
  <1>4. OrderedTime(log)
    BY <1>1, <1>2 DEF OrderedTime
  <1>5. OneStart(log)
    BY <1>1, <1>2, <1>3 DEF OneStart, Lines
  <1>6. NoWorkerConflict(log)
    <2> SUFFICES ASSUME NEW i \in At(log, "worker"), NEW j \in Before(log, i),
                        log[j].event \in {"start", "worker"}, log[j].run_id = log[i].run_id
                 PROVE  ~Conflict(log[j], log[i].worker_id)
      BY DEF NoWorkerConflict
    <2>1. /\ i \in live /\ history[i].event = "worker" /\ log[i] = history[i]
          /\ j \in live /\ log[j] = history[j] /\ j \in DOMAIN history
      BY <1>2 DEF At, Before
    <2> DEFINE r == history[i].run_id
               w == history[i].worker_id
    <2>2. r \in Runs /\ Names(r, w)
      BY <1>1, <2>1, WorkerNamed
    <2>3. CASE history[j].event = "start"
      <3>1. evidence[r].start = history[j]
        BY <1>1, <2>1, <2>3 DEF LogBackedByEvidence
      <3>2. evidence[r].start.worker_id \in {None, w}
        BY <2>2 DEF Names
      <3> QED BY <2>1, <3>1, <3>2 DEF Conflict
    <2>4. CASE history[j].event = "worker"
      <3>1. Names(r, history[j].worker_id)
        BY <1>1, <2>1, <2>4, WorkerNamed
      <3>2. PICK k \in Having(r, "compound.worker") : evidence[r].records[k].worker_id = w
        BY <1>1, <1>2, <2>1 DEF LogBackedByEvidence
      <3>3. evidence[r].records[k].worker_id = history[j].worker_id
        BY <3>1 DEF Names
      <3> QED BY <2>1, <3>2, <3>3 DEF Conflict
    <2> QED BY <2>1, <2>3, <2>4
  <1>7. \A i, j \in At(log, "end") : log[i].run_id = log[j].run_id => i = j
    BY <1>1, <1>2, <1>3 DEF OneEnd
  <1>8. ASSUME NEW i \in At(log, "end")
        PROVE  /\ \E j \in Before(log, i) \cap At(log, "start") : log[j].run_id = log[i].run_id
               /\ Terminates(IdentityAt(log, i), log[i])
    <2> DEFINE r == history[i].run_id
    <2>1. i \in live /\ i \in At(history, "end") /\ log[i] = history[i] /\ history[i].event = "end"
          /\ i \in DOMAIN history
      BY <1>2 DEF At
    <2>2. LinesOf(r) \subseteq live
      BY <1>1, <2>1 DEF Lines, EndsWhole
    <2>3. PICK j \in At(history, "start") : j < i /\ history[j].run_id = r
      BY <1>1, <2>1 DEF Lines, StartFirst
    <2>4. j \in live /\ log[j] = history[j] /\ j \in DOMAIN history
      <3>1. j \in LinesOf(r)
        BY <2>3 DEF LinesOf, At
      <3> QED BY <1>2, <2>2, <3>1
    <2>5. j \in Before(log, i) /\ j \in At(log, "start")
      BY <1>2, <2>3, <2>4 DEF Before, At
    <2> DEFINE f == Restrict(history, Before(history, i))
               g == Restrict(log, Before(log, i))
    <2>6. /\ DOMAIN f = Before(history, i) /\ DOMAIN g = Before(log, i)
          /\ Before(history, i) \subseteq DOMAIN history
          /\ Before(log, i) = Before(history, i) \cap live
          /\ \A k \in DOMAIN f : f[k] = history[k]
          /\ \A k \in DOMAIN g : g[k] = log[k]
      BY <1>2 DEF Before, Restrict
    <2> HIDE DEF f, g, r
    <2>7. r \in Started(f)
      <3>1. j \in Before(history, i)
        BY <2>3, <2>4 DEF Before
      <3>2. j \in At(f, "start") /\ f[j].run_id = r
        BY <2>3, <2>6, <3>1 DEF At
      <3> QED BY <3>2 DEF Started
    <2>8. OneStart(f)
      <3>1. At(f, "start") \subseteq At(history, "start")
        BY <2>6 DEF At
      <3> QED BY <1>1, <2>6, <3>1 DEF Lines, OneStart, At
    <2>9. /\ DOMAIN g \subseteq DOMAIN f /\ \A k \in DOMAIN g : g[k] = f[k]
          /\ \A k \in DOMAIN f : (f[k].event \in {"start", "worker"} /\ f[k].run_id = r)
                                    => k \in DOMAIN g
      <3>1. \A k \in DOMAIN history :
               (history[k].event \in {"start", "worker"} /\ history[k].run_id = r) => k \in live
        BY <2>2 DEF LinesOf
      <3> QED BY <1>2, <2>6, <3>1
    <2>10. Effective(g, r) = Effective(f, r)
      <3>1. DOMAIN f \subseteq 1..Len(history)
        BY <1>2, <2>6
      <3> QED BY <1>2, <2>7, <2>8, <2>9, <3>1, SameIdentity
    <2>11. IdentityAt(log, i) = Effective(g, r) /\ IdentityAt(history, i) = Effective(f, r)
      BY <2>1 DEF IdentityAt, f, g, r
    <2>12. Terminates(IdentityAt(history, i), history[i])
      BY <1>1, <2>1 DEF EndsTerminate
    <2> QED BY <2>1, <2>3, <2>4, <2>5, <2>10, <2>11, <2>12 DEF r
  <1>9. PairedEnds(log)
    BY <1>7, <1>8 DEF PairedEnds
  <1> QED BY <1>4, <1>5, <1>6, <1>9 DEF Readable

\* Whatever was interrupted, the lines of the log are in order of time, no two
\* attachments of a run disagree, no run starts or ends twice, and every end
\* follows its start and repeats its identity: read_activity_log raises nothing.
THEOREM LogAccepted == Spec => []Readable(log)
  <1>1. ReadingInv => Readable(log)
    BY ReaderAccepts
  <1> QED BY <1>1, ReadingCorrect, PTL

\* An archived identity that the log does not know yet only adds a handle.
LEMMA Repairable ==
    ASSUME EvidenceInv
    PROVE  IdentityRepairable
  <1> SUFFICES ASSUME NEW r \in ActiveRuns(log),
                      Effective(log, r).worker_id # Recorded(r).worker_id
               PROVE  Effective(log, r).worker_id = None
    BY DEF IdentityRepairable
  <1>1. TypeOK /\ WorkersAgree /\ LogBackedByEvidence /\ LinesOfRuns
    BY DEF EvidenceInv, OwnershipInv, Typed, Ledger
  <1>2. /\ Len(history) \in Nat /\ DOMAIN history = 1..Len(history)
        /\ live \in SUBSET (1..Len(history))
        /\ DOMAIN log = live /\ \A i \in live : log[i] = history[i]
    BY <1>1, LogLines
  <1>3. r \in Started(log)
    BY DEF ActiveRuns
  <1>4. r \in Runs
    <2>1. PICK i \in At(log, "start") : log[i].run_id = r
      BY <1>3 DEF Started
    <2> QED BY <1>1, <1>2, <2>1 DEF LinesOfRuns, At
  <1>5. /\ log[StartOf(log, r)] = evidence[r].start
        /\ Having(r, "compound.worker") = {} => Effective(log, r) = evidence[r].start
    BY <1>1, <1>3, EffectiveBacked
  <1>6. evidence[r].start \in Events
    <2>1. PICK i \in At(log, "start") : log[i].run_id = r
      BY <1>3 DEF Started
    <2>2. i \in DOMAIN history /\ log[i] = history[i] /\ history[i].event = "start"
      BY <1>2, <2>1 DEF At
    <2>3. evidence[r].start = history[i]
      BY <1>1, <2>1, <2>2 DEF LogBackedByEvidence
    <2> QED BY <1>1, <2>2, <2>3 DEF TypeOK
  <1>7. Having(r, "compound.worker") # {}
    <2> SUFFICES ASSUME Having(r, "compound.worker") = {} PROVE FALSE
      OBVIOUS
    <2> QED BY <1>5 DEF Recorded
  <1> DEFINE w == Recorded(r).worker_id
  <1>8. Names(r, w)
    <2>1. evidence[r].start # None
      BY <1>1, <1>4, <1>7 DEF WorkersAgree, Names
    <2> QED BY <1>1, <1>4, <1>7, <2>1, RecordedNames
  <1>9. CASE WorkersOf(log, r) = {}
    BY <1>5, <1>8, <1>9 DEF Effective, Names
  <1>10. CASE WorkersOf(log, r) # {}
    <2>1. WorkersOf(log, r) \in SUBSET (1..Len(history))
      BY <1>2 DEF WorkersOf, At
    <2>2. PICK i \in WorkersOf(log, r) : i = Latest(WorkersOf(log, r))
      BY <1>2, <1>10, <2>1, LatestIsMember
    <2>3. i \in live /\ log[i] = history[i] /\ history[i].event = "worker"
          /\ history[i].run_id = r
      BY <1>2 DEF WorkersOf, At
    <2>4. PICK k \in Having(r, "compound.worker") :
              evidence[r].records[k].worker_id = history[i].worker_id
      BY <1>1, <1>2, <2>3 DEF LogBackedByEvidence
    <2>5. history[i].worker_id = w
      BY <1>8, <2>4 DEF Names
    <2>6. Effective(log, r) = Merge(log[StartOf(log, r)], log[i].worker_id)
      BY <1>10, <2>2 DEF Effective
    <2>7. Effective(log, r).worker_id = w
      <3> HIDE DEF w
      <3> QED BY <1>5, <1>6, <2>3, <2>5, <2>6 DEF Merge, Events
    <2> QED BY <2>7
  <1> QED BY <1>9, <1>10

\* A worker attachment that stopped between the archive and the log can always
\* be repeated: the archive never names another handle than the log does.
THEOREM IdentitiesRepairable == Spec => []IdentityRepairable
  <1>1. EvidenceInv => IdentityRepairable
    BY Repairable
  <1> QED BY <1>1, EvidenceCorrect, PTL

-----------------------------------------------------------------------------
(* Automatic runs keep their cadence. *)

\* An agreed trigger is an authored one.
LEMMA AgreementType ==
    ASSUME TypeOK, Agreement(history) # None
    PROVE  Agreement(history) \in Triggers
  <1> DEFINE P == At(history, "trigger")
  <1>1. P \in SUBSET (1..Len(history)) /\ Len(history) \in Nat /\ P # {}
    BY LogLines, KeptLines DEF Agreement
  <1>2. Latest(P) \in P
    <2> HIDE DEF P
    <2> QED BY <1>1, LatestIsMember
  <1>3. Agreement(history) = history[Latest(P)].trigger
    BY <1>1 DEF Agreement
  <1>4. history[Latest(P)] \in Events
    BY <1>2 DEF At, TypeOK
  <1> QED BY <1>3, <1>4 DEF Events

\* Every line of the history has a time.
LEMMA LineTimes ==
    ASSUME TypeOK
    PROVE  \A i \in DOMAIN history : history[i].at \in Nat
  <1>1. \A i \in DOMAIN history : history[i] \in Events
    BY DEF TypeOK
  <1> QED BY <1>1 DEF Events

\* The deadlines of an authored trigger are instants.
LEMMA TriggerTimes ==
    ASSUME NEW trigger \in Triggers
    PROVE  /\ trigger.interval_seconds \in Nat /\ trigger.retry_seconds \in Nat
           /\ trigger.mode \in {"prompt", "local-schedule", "manual", "disabled"}
  BY TriggerAssumption

\* The answer "due" of the bounded log: every deadline of the whole history has
\* passed, of every completed check and not only of the last.
LEMMA DueRests ==
    ASSUME RolloverInv, OrderedTime(history), NEW ws \in Workspaces,
           Due(log, configured[ws], clock, TRUE, Probe) = "due"
    PROVE  Rested(history, clock)
  <1> DEFINE c == configured[ws]
  <1>1. TypeOK /\ RolloverTransparent /\ clock \in Nat
    BY Transparent DEF RolloverInv, EvidenceInv, OwnershipInv, Typed, TypeOK
  <1>2. c \in Triggers \cup {None} /\ (c # None => c \in Triggers)
    BY <1>1 DEF TypeOK
  <1>3. c # None /\ Agreement(log) = c
    <2> HIDE DEF c
    <2>1. Due(log, c, clock, TRUE, Probe) = "due"
      BY DEF c
    <2>2. ~(c = None \/ Agreement(log) = None)
      BY <2>1 DEF Due
    <2>3. Agreement(log) = c
      <3> SUFFICES ASSUME Agreement(log) # c PROVE FALSE
        OBVIOUS
      <3>1. Due(log, c, clock, TRUE, Probe) = "trigger-conflict"
        BY <2>2 DEF Due
      <3> QED BY <2>1, <3>1
    <2> QED BY <2>2, <2>3
  <1>4. /\ c.mode = "prompt"
        /\ ~\E d \in Deadlines(log, c) : clock < d
    <2> HIDE DEF c
    <2>1. Due(log, c, clock, TRUE, Probe) = "due"
      BY DEF c
    <2>2. Due(log, c, clock, TRUE, Probe) =
            IF c.mode # "prompt" THEN c.mode
            ELSE IF ActiveRuns(log) # {} THEN "active"
            ELSE IF \E i \in DOMAIN log : log[i].at > clock THEN "clock-regressed"
            ELSE IF \E d \in Deadlines(log, c) : clock < d THEN "wait"
            ELSE IF Probe = "empty" THEN "empty" ELSE "due"
      BY <1>3 DEF Due
    <2>3. c.mode \in {"prompt", "local-schedule", "manual", "disabled"}
      BY <1>2, <1>3, TriggerTimes
    <2> QED BY <2>1, <2>2, <2>3
  <1>5. c \in Triggers /\ Agreement(history) = c /\ Deadlines(log, c) = Deadlines(history, c)
    BY <1>1, <1>2, <1>3 DEF RolloverTransparent
  <1>6. /\ c.interval_seconds \in Nat /\ c.retry_seconds \in Nat
        /\ \A i \in DOMAIN history : history[i].at \in Nat
    BY <1>1, <1>5, LineTimes, TriggerTimes
  <1> HIDE DEF c
  <1>7. \A C : EndsWith(history, C) \in SUBSET (1..Len(history))
    BY <1>1, KeptLines
  <1>8. Len(history) \in Nat /\ DOMAIN history = 1..Len(history)
    BY <1>1, LogLines
  <1>9. ASSUME NEW j \in EndsWith(history, Successes)
        PROVE  history[j].at + c.interval_seconds <= clock
    <2> DEFINE P == EndsWith(history, Successes)
               i == Latest(P)
    <2>1. P \in SUBSET (1..Len(history)) /\ P # {}
      BY <1>7
    <2>2. i \in P /\ j <= i
      <3> HIDE DEF P
      <3>1. Latest(P) \in P /\ \A k \in P : k <= Latest(P)
        BY <1>8, <2>1, LatestIsMember
      <3>2. j \in P
        BY DEF P
      <3> QED BY <3>1, <3>2
    <2>3. history[i].at + c.interval_seconds \in Deadlines(history, c)
      <3>1. i \in LatestIn(P)
        BY <2>2 DEF LatestIn
      <3> HIDE DEF i
      <3> QED BY <3>1 DEF Deadlines
    <2>4. i \in DOMAIN history /\ j \in DOMAIN history
      BY <1>8, <2>1, <2>2
    <2> HIDE DEF P, i
    <2>5. history[j].at <= history[i].at
      BY <2>2, <2>4 DEF OrderedTime
    <2>6. ~(clock < history[i].at + c.interval_seconds)
      BY <1>4, <1>5, <2>3
    <2> QED BY <1>1, <1>6, <2>4, <2>5, <2>6
  <1>10. ASSUME NEW j \in LatestIn(EndsWith(history, Relevant)), history[j].completion = "failed"
         PROVE  history[j].at + c.retry_seconds <= clock
    <2>1. j \in EndsWith(history, {"failed"}) /\ j \in DOMAIN history
      BY <1>10 DEF LatestIn, EndsWith, At
    <2>2. history[j].at + c.retry_seconds \in Deadlines(history, c)
      BY <2>1 DEF Deadlines
    <2>3. ~(clock < history[j].at + c.retry_seconds)
      BY <1>4, <1>5, <2>2
    <2> QED BY <1>1, <1>6, <2>1, <2>3
  <1> QED BY <1>3, <1>4, <1>5, <1>9, <1>10 DEF Rested

\* Deadlines that have passed stay passed.
LEMMA RestedLater ==
    ASSUME TypeOK, NEW t \in Nat, NEW u \in Nat, t <= u, Rested(history, t)
    PROVE  Rested(history, u)
  <1> DEFINE c == Agreement(history)
  <1>1. c # None /\ c \in Triggers
    BY AgreementType DEF Rested
  <1>2. /\ c.interval_seconds \in Nat /\ c.retry_seconds \in Nat
        /\ \A i \in DOMAIN history : history[i].at \in Nat
    BY <1>1, LineTimes, TriggerTimes
  <1>3. EndsWith(history, Successes) \subseteq DOMAIN history
        /\ LatestIn(EndsWith(history, Relevant)) \subseteq DOMAIN history
    BY DEF LatestIn, EndsWith, At
  <1> HIDE DEF c
  <1>4. /\ c.mode = "prompt"
        /\ \A j \in EndsWith(history, Successes) : history[j].at + c.interval_seconds <= t
        /\ \A j \in LatestIn(EndsWith(history, Relevant)) :
              history[j].completion = "failed" => history[j].at + c.retry_seconds <= t
    BY DEF Rested, c
  <1>5. \A j \in EndsWith(history, Successes) : history[j].at + c.interval_seconds <= u
    BY <1>2, <1>3, <1>4
  <1>6. \A j \in LatestIn(EndsWith(history, Relevant)) :
           history[j].completion = "failed" => history[j].at + c.retry_seconds <= u
    BY <1>2, <1>3, <1>4
  <1> QED BY <1>1, <1>4, <1>5, <1>6 DEF Rested, c

\* Only a counted regression sets the clock back.
LEMMA ClockMoves ==
    ASSUME TypeOK, [Next]_vars, spent'.regress = 0
    PROVE  spent.regress = 0 /\ clock <= clock' /\ clock \in Nat /\ clock' \in Nat
  <1>1. clock \in Nat /\ spent \in [faults: Nat, edits: Nat, regress: Nat]
    BY DEF TypeOK
  <1>2. CASE spent' = spent /\ clock' = clock
    BY <1>1, <1>2
  <1>3. CASE Begin
    BY <1>1, <1>3, BeginLeaves DEF environment
  <1>4. CASE Proceed
    BY <1>2, <1>4 DEF Proceed, ArchiveLog, ReplaceLog, AppendEvidence, AppendActivity,
       RegisterTrigger, ValidateInputs, ArchiveInput, WriteStart, WriteIntent, SelectCandidates,
       VerifyInput, RemoveInput, Unlink, Acknowledge, ReportDrain, environment
  <1>5. CASE Fail
    <2>1. spent' = [spent EXCEPT !.faults = @ + 1] /\ clock' = clock
      BY <1>5 DEF Fail, Fault, RemoveUnsynced, Unlink, AcknowledgeFails, DrainInterrupted,
         Interrupt, InterruptEvidence, InterruptActivity, environment
    <2> QED BY <1>1, <2>1
  <1>6. CASE Tick
    BY <1>1, <1>6 DEF Tick
  <1>7. ASSUME NEW t, Regress(t)
        PROVE  FALSE
    BY <1>1, <1>7 DEF Regress
  <1>8. CASE \/ \E s \in Signals, content \in Contents \cup {Absent} : EditSignal(s, content)
             \/ \E ws \in Workspaces, trigger \in Triggers \cup {None} :
                   EditConfiguration(ws, trigger)
    <2>1. spent' = [spent EXCEPT !.edits = @ + 1] /\ clock' = clock
      BY <1>8 DEF EditSignal, EditConfiguration, Edit
    <2> QED BY <1>1, <2>1
  <1>9. CASE UNCHANGED vars
    BY <1>2, <1>9 DEF vars, environment
  <1> QED BY <1>3, <1>4, <1>5, <1>6, <1>7, <1>8, <1>9 DEF Next, Unlocked

\* Between the answer "due" and the start's line no deadline is added, and the
\* clock only moves on.
LEMMA NextStartDue ==
    ASSUME ReadingInv, StartDue, [Next]_vars
    PROVE  StartDue'
  <1> SUFFICES ASSUME op'.kind = "start", op'.event.automatic, spent'.regress = 0
               PROVE  Rested(history', IF op'.stage \in Issued THEN op'.event.at ELSE clock')
    BY DEF StartDue, Rested, Agreement, EndsWith, LatestIn, At, Latest
  <1>1. EvidenceInv /\ TypeOK /\ RolloverInv /\ OrderedTime(history) /\ op \in Operations
    BY DEF ReadingInv, Reading, RolloverInv, EvidenceInv, OwnershipInv, Typed, TypeOK
  <1>2. spent.regress = 0 /\ clock <= clock' /\ clock \in Nat /\ clock' \in Nat
    BY <1>1, ClockMoves
  <1>3. history' = history
    <2>1. ~AppendActivity
      BY DEF AppendActivity, Release, Idle
    <2> QED BY <1>1, <2>1, LogSteps DEF ReplaceLog
  <1>4. ASSUME Rested(history, clock)
        PROVE  Rested(history', clock')
    <2> DEFINE t == clock
               u == clock'
    <2>1. t \in Nat /\ u \in Nat /\ t <= u /\ Rested(history, t)
      BY <1>2, <1>4
    <2> HIDE DEF t, u
    <2>2. Rested(history, u)
      BY <1>1, <2>1, RestedLater
    <2> QED BY <1>3, <2>2 DEF u
  <1>5. CASE Begin
    <2>1. PICK ws \in Workspaces : Due(log, configured[ws], clock, TRUE, Probe) = "due"
      BY <1>1, <1>5, BeginKinds
    <2>2. op'.stage \notin Issued
      BY <1>1, <1>5, BeginKinds
    <2>3. Rested(history, clock)
      BY <1>1, <2>1, DueRests
    <2> QED BY <1>4, <2>2, <2>3
  <1>6. CASE /\ op'.kind = op.kind /\ op'.event = op.event
             /\ op.kind = "start" => (op'.stage \in Issued <=> op.stage \in Issued)
    <2>1. Rested(history, IF op.stage \in Issued THEN op.event.at ELSE clock)
      BY <1>2, <1>6 DEF StartDue
    <2>2. CASE op.stage \in Issued
      BY <1>3, <1>6, <2>1, <2>2
    <2>3. CASE op.stage \notin Issued
      BY <1>4, <1>6, <2>1, <2>3
    <2> QED BY <2>2, <2>3
  <1>7. CASE /\ op.kind = "start" /\ op.stage = "validate"
             /\ op'.kind = "start" /\ op'.stage = "inputs"
             /\ op'.event.at = clock /\ op'.event.automatic = op.event.automatic
    <2>1. op.stage \notin Issued /\ op'.stage \in Issued
      BY <1>7 DEF Issued
    <2>2. op.event.automatic
      BY <1>7
    <2>3. Rested(history, clock)
      BY <1>2, <1>7, <2>1, <2>2 DEF StartDue
    <2> QED BY <1>3, <1>7, <2>1, <2>3
  <1> QED BY <1>1, <1>5, <1>6, <1>7, HandSteps

\* The cadence, line by line.
CadenceAt(f, i) ==
    (f[i].event = "start" /\ f[i].automatic) => Rested(Earlier(f, i), f[i].at)

\* The property says of each automatic start that the history before it had rested.
LEMMA CadenceLines ==
    CadenceKept <=> (spent.regress = 0 => \A i \in DOMAIN history : CadenceAt(history, i))
  <1>1. ASSUME NEW i \in DOMAIN history
        PROVE  /\ \A j \in EndsWith(Earlier(history, i), Successes) :
                     Earlier(history, i)[j] = history[j]
               /\ \A j \in LatestIn(EndsWith(Earlier(history, i), Relevant)) :
                     Earlier(history, i)[j] = history[j]
    BY DEF Earlier, Restrict, EndsWith, LatestIn, At
  <1> QED BY <1>1 DEF CadenceKept, CadenceAt, Rested, Earlier

\* One more line keeps the cadence: an automatic start only when it is due.
LEMMA NextCadence ==
    ASSUME CadenceInv, [Next]_vars
    PROVE  CadenceKept'
  <1>1. /\ ReadingInv /\ EvidenceInv /\ TypeOK /\ StartDue /\ CadenceKept
    BY DEF CadenceInv, ReadingInv, RolloverInv, EvidenceInv, OwnershipInv, Typed
  <1> DEFINE Kept(f) == \A i \in DOMAIN f : CadenceAt(f, i)
  <1>2. ASSUME spent'.regress = 0
        PROVE  Kept(history')
    <2>1. spent.regress = 0
      BY <1>1, <1>2, ClockMoves
    <2>2. Kept(history)
      BY <1>1, <2>1, CadenceLines
    <2>3. CASE history' = history
      BY <2>2, <2>3
    <2>4. CASE op.stage = "append" /\ history' = Append(history, op.event)
      <3> DEFINE n == Len(history) + 1
      <3>1. /\ DOMAIN history' = DOMAIN history \cup {n} /\ n \notin DOMAIN history
            /\ history'[n] = op.event /\ \A i \in DOMAIN history : history'[i] = history[i]
        BY <1>1, <2>4, AppendedLine
      <3>2. /\ \A i \in DOMAIN history : Earlier(history', i) = Earlier(history, i)
            /\ Earlier(history', n) = history
        BY <1>1, <2>4, EarlierKept DEF Earlier
      <3> HIDE DEF n
      <3>3. \A i \in DOMAIN history : CadenceAt(history', i)
        BY <2>2, <3>1, <3>2 DEF CadenceAt
      <3>4. CadenceAt(history', n)
        <4> SUFFICES ASSUME op.event.event = "start", op.event.automatic
                     PROVE  Rested(history, op.event.at)
          BY <3>1, <3>2 DEF CadenceAt
        <4>1. op.kind = "start" /\ op.stage \in Issued
          BY <1>1, <2>4, InHandBacked DEF Issued
        <4> QED BY <1>1, <2>1, <4>1 DEF StartDue
      <3> QED BY <3>1, <3>3, <3>4
    <2> QED BY <1>1, <2>3, <2>4, LogSteps DEF ReplaceLog
  <1> HIDE DEF Kept
  <1>3. CadenceKept' <=> (spent'.regress = 0 => Kept(history'))
    <2>1. ASSUME NEW i \in DOMAIN history'
          PROVE  /\ \A j \in EndsWith(Earlier(history', i), Successes) :
                       Earlier(history', i)[j] = history'[j]
                 /\ \A j \in LatestIn(EndsWith(Earlier(history', i), Relevant)) :
                       Earlier(history', i)[j] = history'[j]
      BY DEF Earlier, Restrict, EndsWith, LatestIn, At
    <2> QED BY <2>1 DEF CadenceKept, CadenceAt, Rested, Earlier, Kept
  <1> QED BY <1>2, <1>3

\* Automatic work never runs before the interval since every completed check and
\* the retry wait after a later failure, however often the log was rolled over
\* and whoever ran the other checks.
THEOREM CadenceRespected == Spec => []CadenceKept
  <1>1. Init => StartDue /\ CadenceKept
    <2> SUFFICES ASSUME Init PROVE StartDue /\ CadenceKept
      OBVIOUS
    <2>1. DOMAIN history = {} /\ op.kind = "none"
      BY DEF Init, Idle
    <2> QED BY <2>1 DEF StartDue, CadenceKept
  <1>2. CadenceInv /\ [Next]_vars => StartDue' /\ CadenceKept'
    BY NextStartDue, NextCadence DEF CadenceInv
  <1>3. Spec => [](StartDue /\ CadenceKept)
    BY <1>1, <1>2, ReadingCorrect, PTL DEF Spec, CadenceInv
  <1> QED BY <1>3, PTL

-----------------------------------------------------------------------------
(* The log stays within its bound. *)

\* A line adds as many bytes as its size says.
LEMMA SizeGrows ==
    ASSUME NEW f, NEW g, NEW n, IsFiniteSet(DOMAIN f), n \notin DOMAIN f,
           DOMAIN g = DOMAIN f \cup {n}, \A i \in DOMAIN f : g[i] = f[i],
           \A i \in DOMAIN g : g[i].size \in Nat
    PROVE  Size(f) \in Nat /\ Size(g) = Size(f) + g[n].size
  <1> DEFINE Line(h, i) == {i} \X (1..h[i].size)
  <1>1. ASSUME NEW h, NEW i, h[i].size \in Nat
        PROVE  IsFiniteSet(Line(h, i)) /\ Cardinality(Line(h, i)) = h[i].size
    <2>1. ASSUME NEW k \in Nat
          PROVE  IsFiniteSet(1..k) /\ Cardinality(1..k) = k
      <3>1. 1 \in Int /\ k \in Int
        OBVIOUS
      <3>2. IsFiniteSet(1..k) /\ Cardinality(1..k) = IF 1 > k THEN 0 ELSE k - 1 + 1
        BY <3>1, FS_Interval
      <3> QED BY <3>2
    <2> DEFINE k == h[i].size
               T == 1..k
    <2>2. IsFiniteSet(T) /\ Cardinality(T) = k /\ k \in Nat
      BY <1>1, <2>1
    <2>3. IsFiniteSet({i}) /\ Cardinality({i}) = 1
      BY FS_Singleton
    <2> HIDE DEF k, T
    <2>4. IsFiniteSet({i} \X T) /\ Cardinality({i} \X T) = Cardinality({i}) * Cardinality(T)
      BY <2>2, <2>3, FS_Product
    <2>5. Cardinality({i}) * Cardinality(T) = k
      BY <2>2, <2>3
    <2> QED BY <2>4, <2>5 DEF T, k
  <1>2. Bytes(f) = UNION {Line(f, i) : i \in DOMAIN f}
    BY DEF Bytes
  <1>3. IsFiniteSet(Bytes(f))
    <2>1. \A i \in DOMAIN f : f[i].size \in Nat
      OBVIOUS
    <2> DEFINE lines == {Line(f, i) : i \in DOMAIN f}
    <2>2. \A i \in DOMAIN f : IsFiniteSet(Line(f, i))
      BY <1>1, <2>1
    <2> HIDE DEF Line
    <2>3. IsFiniteSet(lines)
      <3>1. [i \in DOMAIN f |-> Line(f, i)] \in Surjection(DOMAIN f, lines)
        BY DEF Surjection
      <3> QED BY <3>1, FS_Surjection
    <2>4. \A T \in lines : IsFiniteSet(T)
      BY <2>2
    <2> HIDE DEF lines
    <2>5. IsFiniteSet(UNION lines)
      BY <2>3, <2>4, FS_UNION
    <2> QED BY <1>2, <2>5 DEF lines
  <1>4. Bytes(g) = Bytes(f) \cup Line(g, n)
    <2>1. \A i \in DOMAIN f : Line(g, i) = Line(f, i)
      OBVIOUS
    <2>2. Bytes(g) = UNION {Line(g, i) : i \in DOMAIN f \cup {n}}
      BY DEF Bytes
    <2> HIDE DEF Line
    <2>3. UNION {Line(g, i) : i \in DOMAIN f \cup {n}} = (UNION {Line(f, i) : i \in DOMAIN f}) \cup Line(g, n)
      BY <2>1
    <2> QED BY <1>2, <2>2, <2>3
  <1>5. Bytes(f) \cap Line(g, n) = {}
    BY <1>2
  <1>6. n \in DOMAIN g /\ g[n].size \in Nat
    OBVIOUS
  <1>7. IsFiniteSet(Line(g, n)) /\ Cardinality(Line(g, n)) = g[n].size
    BY <1>1, <1>6
  <1> HIDE DEF Line
  <1>8. Cardinality(Bytes(f)) \in Nat
    BY <1>3, FS_CardinalityType
  <1>9. Cardinality(Bytes(f) \cup Line(g, n)) =
           Cardinality(Bytes(f)) + Cardinality(Line(g, n)) - Cardinality(Bytes(f) \cap Line(g, n))
    BY <1>3, <1>7, FS_Union
  <1>10. Cardinality(Bytes(f) \cap Line(g, n)) = 0
    BY <1>5, FS_EmptySet
  <1> QED BY <1>4, <1>6, <1>7, <1>8, <1>9, <1>10 DEF Size

\* So a finite log has a size.
LEMMA SizeIsNatural ==
    ASSUME NEW f, IsFiniteSet(DOMAIN f), \A i \in DOMAIN f : f[i].size \in Nat
    PROVE  Size(f) \in Nat
  <1>1. PICK n : n \notin DOMAIN f
    BY NoSetContainsEverything
  <1> DEFINE g == [i \in DOMAIN f \cup {n} |-> IF i = n THEN [size |-> 0] ELSE f[i]]
  <1>2. DOMAIN g = DOMAIN f \cup {n} /\ \A i \in DOMAIN f : g[i] = f[i]
    BY <1>1
  <1>3. \A i \in DOMAIN g : g[i].size \in Nat
    BY <1>1
  <1> HIDE DEF g
  <1> QED BY <1>1, <1>2, <1>3, SizeGrows

\* The first write of an operation after it made room for its line.
Past == {"validate", "register"} \cup Issued

\* Who made room, or found the log short.
Roomy == op.kind \in {"start", "trigger", "worker"} /\ op.stage \in Past

\* An unfinished run leaves room for the line that ends it, and whoever made
\* room for a line left room for an end after it.
LogBounded ==
    /\ Size(log) <= 4 * Quarter
    /\ ActiveRuns(log) # {} => Size(log) <= 3 * Quarter
    /\ Roomy => Size(log) <= 2 * Quarter
    /\ op.stage = "replace" => RolloverFits(log)

\* Nothing but a rollover, or a log that needs none, makes room.
LEMMA RoomMade ==
    ASSUME EvidenceInv, [Next]_vars, Roomy'
    PROVE  Roomy \/ ReplaceLog \/ (Begin /\ ~NeedsRollover(log))
  <1>1. /\ TypeOK /\ StagesConsistent /\ EventMatches /\ InHand /\ op \in Operations
    BY DEF EvidenceInv, OwnershipInv, Typed, TypeOK
  <1>2. /\ op'.kind \in {"start", "trigger", "worker"} /\ op'.stage # "rollover"
        /\ op'.stage \in {"validate", "register", "inputs", "evidence", "append"}
    BY DEF Roomy, Past, Issued
  <1>3. ~Release
    BY <1>2 DEF Release, Idle
  <1>4. ASSUME NEW stage \in {"select", "remove", "report", "replace"}, Goto(stage)
        PROVE  FALSE
    BY <1>1, <1>2, <1>4, GotoType DEF Stages
  <1>5. CASE Begin
    BY <1>1, <1>2, <1>5, BeginKinds
  <1>6. CASE ArchiveLog
    BY <1>3, <1>4, <1>6 DEF ArchiveLog
  <1>7. CASE AppendEvidence
    <2>1. op.stage = "evidence" /\ op'.kind = op.kind
      BY <1>1, <1>3, <1>7, GotoType DEF AppendEvidence, Stages
    <2> QED BY <1>2, <2>1 DEF Roomy, Past, Issued
  <1>8. CASE AppendActivity
    BY <1>3, <1>8 DEF AppendActivity
  <1>9. ASSUME NEW expected, RegisterTrigger(expected)
        PROVE  Roomy
    BY <1>1, <1>9 DEF RegisterTrigger, EventMatches, Roomy, Past
  <1>10. ASSUME NEW r, ValidateInputs(r)
         PROVE  Roomy
    BY <1>1, <1>10 DEF ValidateInputs, StagesConsistent, Roomy, Past
  <1>11. ASSUME (\E s \in Signals : ArchiveInput(s)) \/ WriteStart
         PROVE  Roomy
    BY <1>1, <1>11 DEF ArchiveInput, WriteStart, StagesConsistent, Roomy, Past, Issued
  <1>12. CASE WriteIntent \/ Acknowledge \/ ReportDrain \/ AcknowledgeFails \/ DrainInterrupted
    BY <1>3, <1>4, <1>12
       DEF WriteIntent, Acknowledge, ReportDrain, AcknowledgeFails, DrainInterrupted
  <1>13. CASE SelectCandidates
    <2>1. op' = [op EXCEPT !.stage = "remove", !.todo = {s \in op.todo : Candidate(s)}]
      BY <1>13 DEF SelectCandidates
    <2> QED BY <1>1, <1>2, <2>1 DEF Operations
  <1>14. ASSUME NEW s, VerifyInput(s)
         PROVE  FALSE
    <2>1. op' = [op EXCEPT !.todo = op.todo \ {s},
                           !.stage = IF Unchanged(s) THEN "unlink" ELSE op.stage,
                           !.signal = IF Unchanged(s) THEN s ELSE op.signal]
          /\ op.stage = "remove"
      BY <1>3, <1>14 DEF VerifyInput
    <2>2. op'.stage \in {"remove", "unlink"}
      BY <1>1, <2>1 DEF Operations
    <2> QED BY <1>2, <2>2
  <1>15. CASE RemoveInput \/ RemoveUnsynced
    <2>1. \/ Goto("remove")
          \/ op' = [op EXCEPT !.stage = "acknowledge", !.done = op.done \cup {op.signal}]
      BY <1>15 DEF RemoveInput, RemoveUnsynced
    <2>2. op' # [op EXCEPT !.stage = "acknowledge", !.done = op.done \cup {op.signal}]
      BY <1>1, <1>2 DEF Operations
    <2> QED BY <1>4, <2>1, <2>2
  <1>16. CASE Interrupt \/ InterruptEvidence \/ InterruptActivity
    BY <1>3, <1>16 DEF Interrupt, InterruptEvidence, InterruptActivity
  <1>17. CASE Unlocked \/ UNCHANGED vars
    <2>1. op' = op
      BY <1>17 DEF Unlocked, Tick, Regress, EditSignal, EditConfiguration, vars
    <2> QED BY <2>1 DEF Roomy
  <1>18. CASE Proceed
    BY <1>6, <1>7, <1>8, <1>9, <1>10, <1>11, <1>12, <1>13, <1>14, <1>15, <1>18 DEF Proceed
  <1>19. CASE Fail
    BY <1>12, <1>15, <1>16, <1>19 DEF Fail
  <1> QED BY <1>5, <1>17, <1>18, <1>19 DEF Next

\* A rollover that goes on has found that what it keeps fits.
LEMMA RolloverChecked ==
    ASSUME EvidenceInv, [Next]_vars, op'.stage = "replace"
    PROVE  RolloverFits(log) \/ (op.stage = "replace" /\ UNCHANGED <<history, live>>)
  <1>1. TypeOK
    BY DEF EvidenceInv, OwnershipInv, Typed
  <1>2. ~Begin
    BY <1>1, BeginKinds
  <1>3. ArchiveLog \/ UNCHANGED <<op, history, live, archived>>
    BY <1>2, HandSteps
  <1>4. CASE ArchiveLog
    BY <1>4 DEF ArchiveLog, Release, Idle
  <1> QED BY <1>3, <1>4

\* The bytes of the log change by a rollover or by one more line.
LEMMA SizeSteps ==
    ASSUME TypeOK
    PROVE  /\ Size(log) \in Nat /\ Size(Rollover(log)) \in Nat
           /\ ReplaceLog => Size(log)' = Size(Rollover(log))
           /\ UNCHANGED <<history, live>> => Size(log)' = Size(log)
           /\ (history' = Append(history, op.event) /\ live' = live \cup {Len(history) + 1}) =>
                 Size(log)' = Size(log) + op.event.size
  <1>1. /\ Len(history) \in Nat /\ DOMAIN history = 1..Len(history)
        /\ live \in SUBSET (1..Len(history))
        /\ DOMAIN log = live /\ \A i \in live : log[i] = history[i]
    BY LogLines
  <1>2. IsFiniteSet(live)
    <2>1. IsFiniteSet(1..Len(history))
      BY <1>1, FS_Interval
    <2> QED BY <1>1, <2>1, FS_Subset
  <1>3. \A i \in DOMAIN history : history[i].size \in Nat
    <2>1. \A i \in DOMAIN history : history[i] \in Events
      BY DEF TypeOK
    <2> QED BY <2>1 DEF Events
  <1>4. op.event.size \in Nat
    <2>1. op.event \in Events
      BY DEF TypeOK, Operations
    <2> QED BY <2>1 DEF Events
  <1>5. Size(log) \in Nat /\ Size(Rollover(log)) \in Nat
    <2> DEFINE f == log
               g == Rollover(log)
    <2>1. IsFiniteSet(DOMAIN f) /\ \A i \in DOMAIN f : f[i].size \in Nat
      BY <1>1, <1>2, <1>3
    <2>2. DOMAIN g \subseteq live /\ \A i \in DOMAIN g : g[i] = log[i]
      BY RetainedLines DEF Rollover, Restrict
    <2>3. IsFiniteSet(DOMAIN g) /\ \A i \in DOMAIN g : g[i].size \in Nat
      BY <1>1, <1>2, <1>3, <2>2, FS_Subset
    <2> HIDE DEF f, g
    <2>4. Size(f) \in Nat /\ Size(g) \in Nat
      BY <2>1, <2>3, SizeIsNatural
    <2> QED BY <2>4 DEF f, g
  <1>6. ASSUME ReplaceLog
        PROVE  Size(log)' = Size(Rollover(log))
    <2>1. live' = Retained(log) /\ history' = history /\ Retained(log) \subseteq live
      BY <1>6, RetainedLines DEF ReplaceLog
    <2>2. log' = Rollover(log)
      BY <1>1, <2>1 DEF log, Rollover, Restrict
    <2> QED BY <2>2 DEF Size, Bytes
  <1>7. ASSUME UNCHANGED <<history, live>>
        PROVE  Size(log)' = Size(log)
    <2>1. log' = log
      BY <1>7 DEF log
    <2> QED BY <2>1 DEF Size, Bytes
  <1>8. ASSUME history' = Append(history, op.event), live' = live \cup {Len(history) + 1}
        PROVE  Size(log)' = Size(log) + op.event.size
    <2> DEFINE f == log
               n == Len(history) + 1
               g == log'
    <2>1. /\ DOMAIN history' = DOMAIN history \cup {n} /\ n \notin DOMAIN history
          /\ history'[n] = op.event /\ \A i \in DOMAIN history : history'[i] = history[i]
      BY <1>8, AppendedLine
    <2>2. /\ DOMAIN g = live \cup {n} /\ n \notin live /\ g[n] = op.event
          /\ \A i \in live : g[i] = f[i]
      BY <1>1, <1>8, <2>1 DEF log, Restrict
    <2>3. IsFiniteSet(DOMAIN f) /\ n \notin DOMAIN f /\ DOMAIN g = DOMAIN f \cup {n}
      BY <1>1, <1>2, <2>2
    <2>4. \A i \in DOMAIN g : g[i].size \in Nat
      BY <1>1, <1>3, <1>4, <2>2
    <2>5. \A i \in DOMAIN f : g[i] = f[i]
      BY <1>1, <2>2
    <2> HIDE DEF f, g, n
    <2>7. Size(g) = Size(f) + g[n].size
      BY <2>3, <2>4, <2>5, SizeGrows
    <2>6. Size(log)' = Size(g)
      BY DEF g, Size, Bytes
    <2> QED BY <2>2, <2>6, <2>7 DEF f
  <1> QED BY <1>5, <1>6, <1>7, <1>8

\* Every line is appended to a log that has room for it: whoever starts, attaches
\* or registers made room first, and an end finds what its start left.
LEMMA NextBounded ==
    ASSUME EvidenceInv, LogBounded, [Next]_vars
    PROVE  LogBounded'
  <1>1. /\ TypeOK /\ StagesConsistent /\ EventMatches /\ InHand /\ ActiveTransparent
        /\ op \in Operations
    BY DEF EvidenceInv, OwnershipInv, Typed, TypeOK
  <1>2. Size(log) \in Nat /\ Quarter \in Nat /\ Size(log)' \in Nat
    <2>2. Size(log) \in Nat
      BY <1>1, SizeSteps
    <2>3. op.event.size \in Nat
      <3>1. op.event \in Events
        BY <1>1 DEF Operations
      <3> QED BY <3>1 DEF Events
    <2>4. \/ UNCHANGED <<history, live>>
          \/ ReplaceLog
          \/ history' = Append(history, op.event) /\ live' = live \cup {Len(history) + 1}
      BY <1>1, LogSteps
    <2> QED BY <1>1, <2>2, <2>3, <2>4, SizeSteps, QuarterAssumption
  <1>3. CASE UNCHANGED <<history, live>>
    <2>1. Size(log)' = Size(log) /\ ActiveRuns(log)' = ActiveRuns(log)
          /\ (RolloverFits(log)' <=> RolloverFits(log))
      <3>1. log' = log
        BY <1>3 DEF log
      <3> QED BY <3>1 DEF ActiveRuns, Started, Ended, At, RolloverFits, Rollover, Size, Bytes,
              Restrict, Retained, RetainedRuns, LatestIn, Latest, EndsWith
    <2>2. Roomy' => Size(log) <= 2 * Quarter
      <3>1. CASE Roomy
        BY <3>1 DEF LogBounded
      <3>2. CASE ~NeedsRollover(log)
        BY <1>2, <3>2 DEF NeedsRollover
      <3>3. CASE ReplaceLog
        <4>1. RolloverFits(log)
          BY <3>3 DEF ReplaceLog, LogBounded
        <4>2. Size(log) = Size(Rollover(log))
          BY <1>1, <2>1, <3>3, SizeSteps
        <4> QED BY <1>2, <4>1, <4>2 DEF RolloverFits
      <3> QED BY <3>1, <3>2, <3>3, RoomMade
    <2>3. op'.stage = "replace" => RolloverFits(log)
      BY RolloverChecked DEF LogBounded
    <2> QED BY <2>1, <2>2, <2>3 DEF LogBounded
  <1>4. CASE ReplaceLog
    <2>1. Size(log)' = Size(Rollover(log)) /\ RolloverFits(log)
      BY <1>1, <1>4, SizeSteps DEF ReplaceLog, LogBounded
    <2>2. Size(log)' < 2 * Quarter
      BY <2>1 DEF RolloverFits
    <2>3. op'.stage # "replace"
      <3>1. op' = [op EXCEPT !.stage = Resume(op)] /\ op.kind \in {"start", "trigger", "worker"}
        BY <1>1, <1>4 DEF ReplaceLog, Goto, StagesConsistent, Rolling
      <3>2. op'.stage = Resume(op)
        BY <1>1, <3>1 DEF Operations
      <3> QED BY <1>1, <3>1, <3>2 DEF Resume, Operations
    <2> QED BY <1>2, <2>2, <2>3 DEF LogBounded
  <1>5. CASE /\ AppendActivity /\ op.stage = "append" /\ Appendable(log, op.event)
             /\ history' = Append(history, op.event)
             /\ live' = live \cup {Len(history) + 1}
    <2> DEFINE n == op.event.size
    <2>1. Size(log)' = Size(log) + n /\ n \in Nat /\ n <= Quarter
      <3>1. op.event \in Events
        BY <1>1 DEF Operations
      <3>2. op.event.size \in Nat
        BY <3>1 DEF Events
      <3>3. op.event.size <= Quarter
        BY <1>5, <3>2, SpacesAssumption, QuarterAssumption DEF Appendable, DumpSize
      <3> QED BY <1>1, <1>5, <3>1, <3>2, <3>3, SizeSteps
    <2>2. ~Roomy' /\ op'.stage # "replace"
      BY <1>5 DEF AppendActivity, Release, Idle, Roomy
    <2> HIDE DEF n
    <2>3. CASE op.kind \in {"start", "trigger", "worker"}
      <3>1. Size(log) <= 2 * Quarter
        BY <1>5, <2>3 DEF LogBounded, Roomy, Past, Issued
      <3> QED BY <1>2, <2>1, <2>2, <3>1 DEF LogBounded
    <2>4. CASE op.kind = "finish"
      <3>1. Run \in ActiveRuns(log) /\ op.event.event = "end"
        BY <1>1, <2>4 DEF InHand, HeldOwns, EventMatches
      <3>2. Size(log) <= 3 * Quarter
        BY <3>1 DEF LogBounded
      <3>3. ActiveRuns(log)' = {}
        <4>1. ActiveTransparent'
          BY NextOwnership DEF EvidenceInv, OwnershipInv
        <4>2. ActiveRuns(history) = {Run}
          BY <1>1, <3>1 DEF EvidenceInv, OwnershipInv, OneActiveRun, ActiveTransparent
        <4>3. ActiveRuns(history)' = ActiveRuns(history) \ {Run}
          <5>1. /\ Started(history)' = Started(history)
                /\ Ended(history)' = Ended(history) \cup {Run}
            BY <1>1, <1>5, <3>1, AppendedRuns
          <5> QED BY <5>1 DEF ActiveRuns, Started, Ended, At
        <4> QED BY <4>1, <4>2, <4>3 DEF ActiveTransparent
      <3> QED BY <1>2, <2>1, <2>2, <3>2, <3>3 DEF LogBounded
    <2> QED BY <1>1, <1>5, <2>3, <2>4 DEF EventMatches
  <1> QED BY <1>1, <1>3, <1>4, <1>5, LogSteps

\* No log the writers make outgrows what the reader loads.
LEMMA LogSized == Spec => []LogBounded
  <1>1. Init => LogBounded
    <2> SUFFICES ASSUME Init PROVE LogBounded
      OBVIOUS
    <2>1. Bytes(log) = {} /\ ActiveRuns(log) = {}
      BY DEF Init, log, Restrict, Bytes, ActiveRuns, Started, At
    <2>2. Size(log) = 0
      BY <2>1, FS_EmptySet DEF Size
    <2>3. ~Roomy /\ op.stage # "replace"
      BY DEF Init, Idle, Roomy
    <2> QED BY <2>1, <2>2, <2>3, QuarterAssumption DEF LogBounded
  <1>2. LogBounded /\ EvidenceInv /\ [Next]_vars => LogBounded'
    BY NextBounded
  <1> QED BY <1>1, <1>2, EvidenceCorrect, PTL DEF Spec

\* The writers never produce a log that the strict reader rejects or cannot load,
\* whatever the sizes of the events, the number of runs and the bound are.
THEOREM LogLoads == Spec => []LogReadable
  <1>1. LogBounded /\ Readable(log) => LogReadable
    BY DEF LogBounded, LogReadable
  <1> QED BY <1>1, LogSized, LogAccepted, PTL

-----------------------------------------------------------------------------
(* An active run stays operable. *)

\* Workers are attached to started runs only.
WorkersStarted == \A r \in Runs : Has(r, "compound.worker") => r \in Started(history)

\* The line of an attachment fits the log it was prepared for.
WorkerTimely ==
    op.kind = "worker" => op.event.size = 1 /\ \A i \in live : history[i].at <= op.event.at

\* An attachment between its two writes: the archive is ahead of the log.
Attaching(r) == op.kind = "worker" /\ op.stage = "append" /\ Run = r

\* Until something fails nothing is torn, and log and archive agree about who
\* works on an unfinished run, except in the middle of an attachment.
Unbroken ==
    /\ ~tornLog
    /\ \A r \in Runs : ~evidence[r].torn
    /\ \A r \in ActiveRuns(history) : Effective(history, r) = Recorded(r) \/ Attaching(r)

FaultFree == spent.faults = 0 => Unbroken

OperableInv == ReadingInv /\ LogBounded /\ WorkersStarted /\ WorkerTimely /\ FaultFree

\* Failures are counted and never forgotten.
LEMMA FaultsCounted ==
    ASSUME TypeOK, [Next]_vars, spent'.faults = 0
    PROVE  spent.faults = 0 /\ ~Fail
  <1>1. spent \in [faults: Nat, edits: Nat, regress: Nat]
    BY DEF TypeOK
  <1>2. ASSUME Fault
        PROVE  FALSE
    <2>1. spent'.faults = spent.faults + 1
      BY <1>1, <1>2 DEF Fault
    <2> QED BY <1>1, <2>1
  <1>3. ~Fail
    BY <1>2 DEF Fail, RemoveUnsynced, AcknowledgeFails, DrainInterrupted, Interrupt,
       InterruptEvidence, InterruptActivity
  <1>4. CASE Begin \/ Proceed
    <2>1. spent' = spent
      BY <1>4, BeginLeaves
         DEF Proceed, ArchiveLog, ReplaceLog, AppendEvidence, AppendActivity, RegisterTrigger,
             ValidateInputs, ArchiveInput, WriteStart, WriteIntent, SelectCandidates,
             VerifyInput, RemoveInput, Acknowledge, ReportDrain
    <2> QED BY <1>3, <2>1
  <1>5. CASE Unlocked \/ UNCHANGED vars
    <2>1. \/ spent' = spent
          \/ spent' = [spent EXCEPT !.regress = spent.regress + 1]
          \/ spent' = [spent EXCEPT !.edits = spent.edits + 1]
      BY <1>5 DEF Unlocked, Tick, Regress, EditSignal, EditConfiguration, Edit, vars
    <2> QED BY <1>1, <1>3, <2>1
  <1> QED BY <1>3, <1>4, <1>5 DEF Next

\* Only a run that is known gets a handle.
LEMMA NextWorkersStarted ==
    ASSUME EvidenceInv, FinishedStarted, WorkersStarted, [Next]_vars
    PROVE  WorkersStarted'
  <1>1. TypeOK /\ InHand /\ EventMatches
    BY DEF EvidenceInv, OwnershipInv, Typed
  <1>2. Started(history) \subseteq Started(history)'
    <2>1. CASE history' = history
      BY <2>1 DEF Started, At
    <2>2. CASE history' = Append(history, op.event)
      BY <1>1, <2>2, AppendedLine DEF Started, At
    <2> QED BY <1>1, <2>1, <2>2, LogSteps DEF ReplaceLog
  <1>3. ASSUME NEW r \in Runs, Has(r, "compound.worker")'
        PROVE  r \in Started(history)
    <2>1. CASE Has(r, "compound.worker")
      BY <2>1 DEF WorkersStarted
    <2>2. CASE \A q \in Runs : evidence'[q].records = evidence[q].records
      <3>1. Has(r, "compound.worker")
        BY <1>3, <2>2 DEF Has, Having
      <3> QED BY <2>1, <3>1
    <2>3. ASSUME NEW record \in Records, OneRecord(record)
          PROVE  r \in Started(history)
      <3>1. CASE r = Run /\ record.operation = "compound.worker"
        <4>1. op.stage = "evidence" /\ record = op.record
              /\ op.kind \in {"start", "worker", "finish"}
          BY <2>3, <3>1 DEF OneRecord
        <4>2. op.kind # "start"
          BY <1>1, <3>1, <4>1 DEF InHand, StartBacked, Record
        <4>3. op.kind # "finish"
          BY <1>1, <3>1, <4>1 DEF InHand, FinishBacked
        <4> QED BY <3>1, <4>1, <4>2, <4>3 DEF FinishedStarted
      <3>2. CASE r # Run \/ record.operation # "compound.worker"
        <4>1. "compound.worker" \in RecordKinds
          BY DEF RecordKinds
        <4>2. Having(r, "compound.worker")' = Having(r, "compound.worker")
          BY <1>1, <2>3, <3>2, <4>1, RecordEffect
        <4> QED BY <1>3, <2>1, <4>2 DEF Has
      <3> QED BY <3>1, <3>2
    <2> QED BY <2>2, <2>3, RecordSteps
  <1> QED BY <1>2, <1>3 DEF WorkersStarted

\* What the command compared with the last line holds of all of them, and of the
\* fewer that a rollover leaves.
LEMMA NextWorkerTimely ==
    ASSUME ReadingInv, WorkerTimely, [Next]_vars
    PROVE  WorkerTimely'
  <1>1. /\ EvidenceInv /\ TypeOK /\ OrderedTime(history)
    BY DEF ReadingInv, Reading, RolloverInv, EvidenceInv, OwnershipInv, Typed
  <1>2. /\ Len(history) \in Nat /\ DOMAIN history = 1..Len(history)
        /\ live \in SUBSET (1..Len(history))
        /\ DOMAIN log = live /\ \A i \in live : log[i] = history[i]
    BY <1>1, LogLines
  <1> SUFFICES ASSUME op'.kind = "worker" PROVE WorkerTimely'
    BY DEF WorkerTimely
  <1>3. ~AppendActivity
    BY DEF AppendActivity, Release, Idle
  <1>4. live' \subseteq live /\ history' = history
    BY <1>1, <1>3, LogSteps, RetainedLines DEF ReplaceLog
  <1>5. CASE Begin
    <2>1. PICK ws \in Workspaces, r \in Runs, worker \in Workers :
              /\ BeginWorker(ws, r, worker)
              /\ op'.event = [Blank EXCEPT !.event = "worker", !.run_id = r,
                                !.workspace_id = ws, !.at = clock, !.worker_id = worker]
      BY <1>1, <1>5, BeginKinds
    <2>2. op'.event.size = 1 /\ op'.event.at = clock
      BY <2>1 DEF Blank
    <2>3. \A i \in DOMAIN log : i = Latest(DOMAIN log) => log[i].at <= clock
      BY <2>1 DEF BeginWorker
    <2>4. clock \in Nat /\ \A i \in DOMAIN history : history[i].at \in Nat
      BY <1>1, LineTimes DEF TypeOK
    <2>5. ASSUME NEW i \in live
          PROVE  history[i].at <= clock
      <3> DEFINE j == Latest(DOMAIN log)
      <3>1. j \in live /\ i <= j
        BY <1>2, LatestIsMember
      <3>2. history[j].at <= clock
        BY <1>2, <2>3, <3>1
      <3> HIDE DEF j
      <3>3. history[i].at <= history[j].at
        BY <1>1, <1>2, <3>1 DEF OrderedTime
      <3>4. i \in DOMAIN history /\ j \in DOMAIN history
        BY <1>2, <3>1
      <3> QED BY <2>4, <3>2, <3>3, <3>4
    <2> QED BY <1>4, <2>2, <2>5 DEF WorkerTimely
  <1>6. CASE op'.kind = op.kind /\ op'.event = op.event
    BY <1>4, <1>6 DEF WorkerTimely
  <1> QED BY <1>1, <1>5, <1>6, HandSteps

\* Without a failure nothing tears.
LEMMA StayWhole ==
    ASSUME EvidenceInv, [Next]_vars, ~Fail
    PROVE  /\ tornLog' = tornLog
           /\ \A r \in Runs : evidence'[r].torn = evidence[r].torn
  <1>1. TypeOK /\ StagesConsistent
    BY DEF EvidenceInv, OwnershipInv, Typed
  <1>2. \A r \in Runs : evidence[r] \in RunEvidence
    BY <1>1 DEF TypeOK
  <1>3. tornLog' = tornLog
    BY BeginLeaves DEF Next, Proceed, ArchiveLog, ReplaceLog, AppendEvidence, AppendActivity,
       RegisterTrigger, ValidateInputs, ArchiveInput, WriteStart, WriteIntent, SelectCandidates,
       VerifyInput, RemoveInput, Acknowledge, ReportDrain,
       Unlocked, Tick, Regress, EditSignal, EditConfiguration, vars, coordination
  <1>4. \/ evidence' = evidence
        \/ \E record : evidence' = Written(Run, record)
        \/ \E s : evidence' = [evidence EXCEPT
                      ![Run].inputs = WithInput(evidence[Run].inputs, s, op.event.selected[s])]
        \/ evidence' = [evidence EXCEPT ![Run].start = op.event]
    BY BeginLeaves DEF Next, Proceed, ArchiveLog, ReplaceLog, AppendEvidence, AppendActivity,
       RegisterTrigger, ValidateInputs, ArchiveInput, WriteStart, WriteIntent, SelectCandidates,
       VerifyInput, RemoveInput, Acknowledge, Acknowledgement, ReportDrain,
       Unlocked, Tick, Regress, EditSignal, EditConfiguration, vars
  <1>5. evidence \in [Runs -> RunEvidence]
    BY <1>1 DEF TypeOK
  <1>6. ASSUME NEW r \in Runs
        PROVE  evidence'[r].torn = evidence[r].torn
    <2>1. evidence[r] \in RunEvidence
      BY <1>5
    <2>2. ASSUME NEW record, evidence' = Written(Run, record)
          PROVE  evidence'[r].torn = evidence[r].torn
      <3>1. evidence'[r] = evidence[r] \/ evidence'[r] = [evidence[r] EXCEPT !.records = Append(evidence[r].records, record)]
        BY <1>5, <2>2 DEF Written
      <3> QED BY <2>1, <3>1 DEF RunEvidence
    <2>3. ASSUME NEW inputs, evidence' = [evidence EXCEPT ![Run].inputs = inputs]
          PROVE  evidence'[r].torn = evidence[r].torn
      <3>1. evidence'[r] = evidence[r] \/ evidence'[r] = [evidence[r] EXCEPT !.inputs = inputs]
        BY <1>5, <2>3
      <3> QED BY <2>1, <3>1 DEF RunEvidence
    <2>4. ASSUME evidence' = [evidence EXCEPT ![Run].start = op.event]
          PROVE  evidence'[r].torn = evidence[r].torn
      <3>1. evidence'[r] = evidence[r] \/ evidence'[r] = [evidence[r] EXCEPT !.start = op.event]
        BY <1>5, <2>4
      <3> QED BY <2>1, <3>1 DEF RunEvidence
    <2> QED BY <1>4, <2>2, <2>3, <2>4
  <1> QED BY <1>3, <1>6

\* An attachment that is not interrupted reaches the log.
LEMMA AttachmentLogged ==
    ASSUME EvidenceInv, WorkerTimely, [Next]_vars, ~Fail, NEW r, Attaching(r)
    PROVE  \/ UNCHANGED <<op, history, evidence>>
           \/ /\ AppendActivity /\ history' = Append(history, op.event)
              /\ live' = live \cup {Len(history) + 1}
  <1>1. TypeOK /\ EventMatches /\ StagesConsistent /\ op.kind = "worker" /\ op.stage = "append"
    BY DEF EvidenceInv, OwnershipInv, Typed, Attaching
  <1>2. ~Begin
    BY <1>1 DEF Begin, BeginTrigger, BeginStart, BeginWorker, BeginFinish, BeginDrain, Held
  <1>3. CASE Proceed
    <2>1. AppendActivity
      BY <1>1, <1>3 DEF Proceed, ArchiveLog, ReplaceLog, AppendEvidence, RegisterTrigger,
         ValidateInputs, ArchiveInput, WriteStart, WriteIntent, SelectCandidates,
         VerifyInput, RemoveInput, Acknowledge, ReportDrain
    <2>2. Appendable(log, op.event)
      <3>1. /\ DOMAIN log = live /\ \A i \in live : log[i] = history[i]
        BY <1>1, LogLines
      <3>2. op.event.size = 1 /\ \A i \in live : history[i].at <= op.event.at
        BY <1>1 DEF WorkerTimely
      <3>3. DumpSize(op.event) <= Quarter
        BY <3>2, SpacesAssumption, QuarterAssumption DEF DumpSize
      <3> QED BY <3>1, <3>2, <3>3 DEF Appendable
    <2> QED BY <2>1, <2>2 DEF AppendActivity
  <1>4. CASE Unlocked \/ UNCHANGED vars
    BY <1>4 DEF Unlocked, Tick, Regress, EditSignal, EditConfiguration, vars, coordination
  <1> QED BY <1>2, <1>3, <1>4 DEF Next

\* A step that logs nothing keeps log and archive in agreement, or is the first
\* write of an attachment.
LEMMA AgreementKept ==
    ASSUME ReadingInv, WorkerTimely, [Next]_vars, ~Fail, history' = history,
           NEW r \in ActiveRuns(history), Effective(history, r) = Recorded(r) \/ Attaching(r)
    PROVE  (Effective(history, r) = Recorded(r))' \/ Attaching(r)'
  <1>1. /\ EvidenceInv /\ TypeOK /\ InHand /\ EventMatches /\ StagesConsistent
    BY DEF ReadingInv, RolloverInv, EvidenceInv, OwnershipInv, Typed
  <1>2. r \in Runs
    <2>1. LinesOfRuns
      BY <1>1 DEF EvidenceInv, Ledger
    <2> QED BY <2>1 DEF LinesOfRuns, ActiveRuns, Started, At
  <1>3. Effective(history, r)' = Effective(history, r)
    BY DEF Effective, StartOf, WorkersOf, Latest, At
  <1>4. CASE Attaching(r)
    <2>1. UNCHANGED <<op, history, evidence>>
      <3>1. history \in Seq(Events)
        BY <1>1 DEF TypeOK
      <3>2. history # Append(history, op.event)
        BY <3>1
      <3> QED BY <1>1, <1>4, <3>2, AttachmentLogged
    <2> QED BY <1>4, <2>1 DEF Attaching, Run
  <1>5. CASE Effective(history, r) = Recorded(r)
    <2> SUFFICES ASSUME ~Attaching(r)' PROVE Recorded(r)' = Recorded(r)
      BY <1>3, <1>5
    <2>1. CASE \A q \in Runs : /\ evidence'[q].start = evidence[q].start
                               /\ evidence'[q].records = evidence[q].records
      BY <1>2, <2>1 DEF Recorded, Having
    <2>2. op.kind # "start"
      BY <1>1 DEF EventMatches
    <2>3. ASSUME NEW record \in Records, OneRecord(record)
          PROVE  Recorded(r)' = Recorded(r)
      <3>1. r # Run \/ record.operation # "compound.worker"
        <4> SUFFICES ASSUME r = Run, record.operation = "compound.worker" PROVE FALSE
          OBVIOUS
        <4>1. AppendEvidence /\ op.stage = "evidence" /\ record = op.record
              /\ op.kind \in {"worker", "finish"}
          BY <2>2, <2>3 DEF OneRecord
        <4>2. op.kind = "worker"
          BY <1>1, <4>1 DEF InHand, FinishBacked
        <4>4. evidence' # evidence
          <5>1. Len(evidence'[Run].records) = Len(evidence[Run].records) + 1
                /\ Len(evidence[Run].records) \in Nat
            BY <1>1, <1>2, <2>3, WrittenEffect DEF OneRecord
          <5> QED BY <5>1
        <4>5. Goto("append")
          BY <4>1, <4>4 DEF AppendEvidence
        <4>6. op'.kind = "worker" /\ op'.stage = "append" /\ op'.event = op.event
          BY <1>1, <4>2, <4>5, GotoType DEF Stages
        <4> QED BY <4>6 DEF Attaching, Run
      <3>2. "compound.worker" \in RecordKinds
        BY DEF RecordKinds
      <3>3. /\ evidence'[r].start = evidence[r].start
            /\ Having(r, "compound.worker")' = Having(r, "compound.worker")
            /\ \A i \in Having(r, "compound.worker") : evidence'[r].records[i] = evidence[r].records[i]
        BY <1>1, <1>2, <2>3, <3>1, <3>2, RecordEffect
      <3> QED BY <1>1, <1>2, <3>3, RecordedKept
    <2> QED BY <1>1, <2>1, <2>2, <2>3, RecordSteps
  <1> QED BY <1>4, <1>5

\* A line that is logged brings the log to what the archive says: a start is the
\* archived one, and an attachment adds the handle its record names.
LEMMA LoggedAgreement ==
    ASSUME ReadingInv, WorkersStarted, op.stage = "append", OneStart(history'),
           history' = Append(history, op.event), live' = live \cup {Len(history) + 1},
           NEW r \in ActiveRuns(history'),
           r \in ActiveRuns(history) => Effective(history, r) = Recorded(r) \/ Attaching(r)
    PROVE  Effective(history', r) = Recorded(r)
  <1> DEFINE n == Len(history) + 1
             f == history'
  <1>1. /\ EvidenceInv /\ TypeOK /\ InHand /\ EventMatches /\ Lines /\ FinishedStarted
        /\ WorkersAgree /\ LogBackedByEvidence /\ LinesOfRuns
    BY DEF ReadingInv, RolloverInv, Rollovers, EvidenceInv, OwnershipInv, Typed, Ledger
  <1>2. /\ Len(history) \in Nat /\ DOMAIN history = 1..Len(history)
    BY <1>1, LogLines
  <1>3. /\ DOMAIN f = DOMAIN history \cup {n} /\ n \notin DOMAIN history
        /\ f[n] = op.event /\ \A i \in DOMAIN history : f[i] = history[i]
    BY <1>1, AppendedLine
  <1>4. OneStart(f) /\ r \in Started(f) /\ r \notin Ended(f)
    BY DEF ActiveRuns
  <1>5. /\ op.event.event = "start" => Run \notin Started(history) /\ ActiveRuns(history) = {}
        /\ op.event.event = "worker" => op.kind = "worker"
        /\ op.event.event \in {"start", "worker"} => Run \in Runs
    BY <1>1, LineFits, InHandBacked
  <1>6. DOMAIN f \subseteq 1..(Len(history) + 1) /\ n \in 1..(Len(history) + 1)
        /\ Len(history) + 1 \in Nat
    BY <1>2, <1>3
  <1> HIDE DEF f, n
  <1>7. ASSUME NEW i \in At(f, "start"), f[i].run_id = r
        PROVE  StartOf(f, r) = i
    <2>1. StartOf(f, r) \in At(f, "start") /\ f[StartOf(f, r)].run_id = r
      BY <1>7 DEF StartOf
    <2> QED BY <1>4, <1>7, <2>1 DEF OneStart
  <1>8. CASE op.event.event = "start" /\ r = Run
    <2>1. n \in At(f, "start") /\ f[n].run_id = r
      BY <1>3, <1>8 DEF At, Run
    <2>2. WorkersOf(f, r) = {}
      <3> SUFFICES ASSUME NEW i \in WorkersOf(f, r) PROVE FALSE
        OBVIOUS
      <3>1. i \in DOMAIN history /\ history[i].event = "worker" /\ history[i].run_id = r
        BY <1>3, <1>8 DEF WorkersOf, At
      <3>2. r \in Started(history)
        BY <1>1, <3>1 DEF Lines, StartFirst, Started
      <3> QED BY <1>5, <1>8, <3>2
    <2>3. Effective(f, r) = op.event
      BY <1>3, <1>7, <2>1, <2>2 DEF Effective
    <2>4. evidence[Run].start = op.event
      BY <1>1, <1>8, InHandBacked
    <2>5. Having(r, "compound.worker") = {}
      BY <1>5, <1>8 DEF WorkersStarted, Has
    <2> QED BY <1>8, <2>3, <2>4, <2>5 DEF Recorded, f
  <1>9. CASE op.event.event = "worker" /\ r = Run
    <2>1. PICK i \in At(history, "start") : history[i].run_id = r
      BY <1>3, <1>4, <1>9 DEF Started, At
    <2>2. i \in At(f, "start") /\ f[i] = history[i] /\ f[i].run_id = r
      BY <1>3, <2>1 DEF At
    <2>3. f[StartOf(f, r)] = evidence[r].start
      <3>1. evidence[r].start = history[i]
        BY <1>1, <2>1 DEF LogBackedByEvidence, At
      <3> QED BY <1>7, <2>2, <3>1
    <2>4. n \in WorkersOf(f, r)
      BY <1>3, <1>9 DEF WorkersOf, At, Run
    <2>5. Latest(WorkersOf(f, r)) = n
      <3>1. WorkersOf(f, r) \in SUBSET (1..(Len(history) + 1))
        BY <1>6 DEF WorkersOf, At
      <3>2. /\ Latest(WorkersOf(f, r)) \in WorkersOf(f, r)
            /\ n <= Latest(WorkersOf(f, r))
        BY <1>6, <2>4, <3>1, LatestIsMember
      <3> QED BY <1>2, <3>1, <3>2 DEF n
    <2>6. Effective(f, r) = Merge(evidence[r].start, op.event.worker_id)
      BY <1>3, <2>3, <2>4, <2>5 DEF Effective
    <2> DEFINE attached == Having(r, "compound.worker")
    <2>7. attached # {} /\ Names(r, op.event.worker_id)
      BY <1>1, <1>5, <1>9 DEF InHand, WorkerBacked, Has
    <2>8. Latest(attached) \in attached
      <3>1. evidence[r].records \in Seq(Records)
        BY <1>1, <1>5, <1>9 DEF TypeOK, RunEvidence
      <3>2. Len(evidence[r].records) \in Nat /\ attached \in SUBSET (1..Len(evidence[r].records))
        BY <3>1 DEF Having
      <3> HIDE DEF attached
      <3> QED BY <2>7, <3>2, LatestIsMember
    <2>9. evidence[r].records[Latest(attached)].worker_id = op.event.worker_id
      BY <2>7, <2>8 DEF Names
    <2>10. Recorded(r) = Merge(evidence[r].start, op.event.worker_id)
      BY <2>7, <2>9 DEF Recorded
    <2> QED BY <2>6, <2>10 DEF f
  <1>10. CASE ~(op.event.event \in {"start", "worker"} /\ r = Run)
    <2>1. r \in ActiveRuns(history)
      <3>1. r \in Started(history)
        BY <1>3, <1>4, <1>10 DEF Started, At, Run
      <3>2. r \notin Ended(history)
        BY <1>3, <1>4 DEF Ended, At
      <3> QED BY <3>1, <3>2 DEF ActiveRuns
    <2>2. Effective(history, r) = Recorded(r)
      BY <1>1, <1>10, <2>1 DEF Attaching, EventMatches
    <2>3. \A i \in DOMAIN f : (f[i].event \in {"start", "worker"} /\ f[i].run_id = r)
                                  => i \in DOMAIN history
      BY <1>3, <1>10 DEF Run
    <2>4. Effective(history, r) = Effective(f, r)
      <3> DEFINE g == history
      <3>1. /\ DOMAIN g \subseteq DOMAIN f /\ \A i \in DOMAIN g : g[i] = f[i]
            /\ \A i \in DOMAIN f : (f[i].event \in {"start", "worker"} /\ f[i].run_id = r)
                                       => i \in DOMAIN g
        BY <1>3, <2>3
      <3> HIDE DEF g
      <3>2. Effective(g, r) = Effective(f, r)
        BY <1>4, <1>6, <3>1, SameIdentity
      <3> QED BY <3>2 DEF g
    <2> QED BY <2>2, <2>4 DEF f
  <1> QED BY <1>8, <1>9, <1>10

\* Without a failure, every step leaves log and archive in agreement.
LEMMA NextFaultFree ==
    ASSUME OperableInv, [Next]_vars
    PROVE  FaultFree'
  <1>1. /\ ReadingInv /\ WorkersStarted /\ WorkerTimely /\ FaultFree
        /\ EvidenceInv /\ Lines /\ FinishedStarted /\ TypeOK
    BY DEF OperableInv, ReadingInv, RolloverInv, Rollovers, EvidenceInv, OwnershipInv, Typed
  <1> SUFFICES ASSUME spent'.faults = 0 PROVE Unbroken'
    BY DEF FaultFree
  <1>2. ~Fail /\ Unbroken
    BY <1>1, FaultsCounted DEF FaultFree
  <1>3. ~tornLog' /\ \A r \in Runs : ~evidence'[r].torn
    BY <1>1, <1>2, StayWhole DEF Unbroken
  <1>4. ASSUME NEW r \in ActiveRuns(history')
        PROVE  (Effective(history, r) = Recorded(r))' \/ Attaching(r)'
    <2>1. r \in ActiveRuns(history) => Effective(history, r) = Recorded(r) \/ Attaching(r)
      BY <1>2 DEF Unbroken
    <2>2. CASE history' = history
      <3>1. r \in ActiveRuns(history)
        BY <1>4, <2>2
      <3> QED BY <1>1, <1>2, <2>1, <2>2, <3>1, AgreementKept
    <2>3. CASE /\ AppendActivity /\ op.stage = "append"
               /\ history' = Append(history, op.event)
               /\ live' = live \cup {Len(history) + 1}
      <3>1. Lines'
        BY <1>1, NextLines
      <3>2. OneStart(history')
        BY <3>1 DEF Lines, OneStart, At
      <3>3. evidence' = evidence
        BY <2>3 DEF AppendActivity
      <3>4. Effective(history', r) = Recorded(r)
        BY <1>1, <1>4, <2>1, <2>3, <3>2, LoggedAgreement
      <3>5. Recorded(r)' = Recorded(r)
        BY <3>3 DEF Recorded, Having
      <3>6. Effective(history, r)' = Effective(history', r)
        BY DEF Effective, StartOf, WorkersOf, Latest, At
      <3> QED BY <3>4, <3>5, <3>6
    <2> QED BY <1>1, <2>2, <2>3, LogSteps DEF ReplaceLog
  <1>5. ActiveRuns(history)' = ActiveRuns(history')
    BY DEF ActiveRuns, Started, Ended, At
  <1> QED BY <1>3, <1>4, <1>5 DEF Unbroken

\* The inductive invariant holds in every reachable state.
LEMMA OperableCorrect == Spec => []OperableInv
  <1>1. Init => WorkersStarted /\ WorkerTimely /\ FaultFree
    <2> SUFFICES ASSUME Init PROVE WorkersStarted /\ WorkerTimely /\ FaultFree
      OBVIOUS
    <2>1. DOMAIN history = {} /\ op.kind = "none" /\ ~tornLog
      BY DEF Init, Idle
    <2>2. \A r \in Runs : evidence[r] = NoEvidence
      BY DEF Init
    <2>3. \A r \in Runs : ~evidence[r].torn /\ ~Has(r, "compound.worker")
      BY <2>2 DEF NoEvidence, Has, Having
    <2> QED BY <2>1, <2>3
            DEF WorkersStarted, WorkerTimely, FaultFree, Unbroken, ActiveRuns, Started, At
  <1>2. OperableInv /\ [Next]_vars => WorkersStarted' /\ WorkerTimely' /\ FaultFree'
    BY NextWorkersStarted, NextWorkerTimely, NextFaultFree
       DEF OperableInv, ReadingInv, RolloverInv, Rollovers
  <1>3. Spec => []LogBounded
    BY LogSized
  <1> QED BY <1>1, <1>2, <1>3, ReadingCorrect, PTL DEF Spec, OperableInv

\* The owner of an unfinished run can drain and finish it as long as nothing
\* failed: the reader accepts the log, the archive resolves the run, and both
\* name the same identity.
LEMMA Operable ==
    ASSUME OperableInv, LogReadable
    PROVE  ActiveRunOperable
  <1> SUFFICES ASSUME ~Held, spent.faults = 0, NEW r \in ActiveRuns(log)
               PROVE  ActiveRun(evidence[r].start.workspace_id, r)
    BY DEF ActiveRunOperable
  <1>1. /\ TypeOK /\ Lines /\ ActiveTransparent /\ LogBackedByEvidence /\ LinesOfRuns /\ Unbroken
    BY DEF OperableInv, ReadingInv, RolloverInv, Rollovers, EvidenceInv, OwnershipInv, Typed,
       Ledger, FaultFree
  <1>2. r \in ActiveRuns(history)
    BY <1>1 DEF ActiveTransparent
  <1>3. PICK i \in At(history, "start") : history[i].run_id = r
    BY <1>2 DEF ActiveRuns, Started
  <1>4. i \in DOMAIN history /\ history[i].event = "start" /\ history[i] \in Events /\ r \in Runs
    BY <1>1, <1>3 DEF At, LinesOfRuns, TypeOK
  <1>5. evidence[r].start = history[i] /\ Has(r, "compound.start")
    BY <1>1, <1>3, <1>4 DEF LogBackedByEvidence
  <1>6. evidence[r].start # None
    BY <1>4, <1>5, EventsAssumption
  <1>7. Usable
    BY <1>1 DEF Usable, LogReadable, Unbroken
  <1>8. Effective(log, r) = Recorded(r)
    <2>1. Effective(history, r) = Recorded(r)
      BY <1>1, <1>2 DEF Unbroken, Attaching, Held
    <2> QED BY <1>1, <1>2, <2>1, ActiveIdentity
  <1>9. Resolvable(evidence[r].start.workspace_id, r)
    BY <1>1, <1>4, <1>5, <1>6 DEF Resolvable, Unbroken
  <1> QED BY <1>7, <1>8, <1>9 DEF ActiveRun

\* An active run whose owner met no failure can always be drained and finished.
THEOREM RunsStayOperable == Spec => []ActiveRunOperable
  <1>1. OperableInv /\ LogReadable => ActiveRunOperable
    BY Operable
  <1> QED BY <1>1, OperableCorrect, LogLoads, PTL

-----------------------------------------------------------------------------
(* Expiry: what the inductive invariant of Retention consists of. *)

\* Nothing that the run selected is unresolved, and it selects nothing more.
Resolved(r) == r \in Started(history) /\ Selected(r) \subseteq Gone(r)

\* A prune knows its run: the finish it read says that nothing is unresolved,
\* and from the tombstone on the run is expired.
Pruning ==
    /\ op.kind = "prune" <=> op.stage \in {"expire", "prune"}
    /\ op.kind = "prune" => Run \in Runs
    /\ op.stage = "expire" => Resolved(Run) /\ Has(Run, "compound.finish")
    /\ op.stage = "prune" => Run \in expired

\* A run being started has the inputs and the start written so far.
Starting ==
    op.kind = "start" =>
        /\ op.stage \in Issued => Run \in Runs
        /\ op.stage = "inputs" =>
              /\ DOMAIN evidence[Run].inputs = DOMAIN op.event.selected \ op.todo
              /\ \A s \in DOMAIN evidence[Run].inputs :
                     evidence[Run].inputs[s] = op.event.selected[s]
        /\ op.stage \in {"evidence", "append"} =>
              evidence[Run].start = op.event /\ evidence[Run].inputs = op.event.selected
        /\ op.stage = "append" => Has(Run, "compound.start")

\* The record in hand is of its operation's kind, and a finish is about to tell
\* the truth.
Recording ==
    /\ (op.kind = "start" /\ op.stage = "evidence") => op.record = Record("compound.start")
    /\ (op.kind = "worker" /\ op.record # None) => op.record.operation = "compound.worker"
    /\ (op.kind = "finish" /\ op.stage = "evidence") =>
           /\ op.record.operation = "compound.finish"
           /\ op.record.retained = {} => Resolved(Run)

\* A drain only counts what it removed.
Removing ==
    op.kind = "drain" =>
        /\ op.done \subseteq Gone(Run)
        /\ op.stage = "acknowledge" => op.signal \in Gone(Run)

\* What the records of a run say about its inputs is true, and only runs of the
\* history have a finish.
Truthful ==
    \A r \in Runs :
        /\ RecordedDrained(r) \subseteq Gone(r)
        /\ Has(r, "compound.finish") => r \in Started(history)
        /\ \A j \in Having(r, "compound.finish") :
              evidence[r].records[j].retained = {} => Resolved(r)

\* An expired run is resolved, and never drained or finished again: the records
\* that are left have the finish, or not even the start.
Tombstones ==
    /\ expired \subseteq Runs
    /\ \A r \in expired :
          /\ Resolved(r)
          /\ Has(r, "compound.start") => Has(r, "compound.finish")

InProgress == StagesOfKind /\ Pruning /\ Starting /\ Recording /\ Removing

Books == Started(history) \subseteq Runs /\ Truthful /\ Tombstones /\ LossExplained

RetentionInv == OwnershipInv /\ InProgress /\ Books

\* A step is one of the lifecycle or one of the five that retention adds.
LEMMA RetentionCases ==
    ASSUME [RetentionNext]_rvars
    PROVE  \/ [Next]_vars /\ expired' = expired
           \/ /\ UNCHANGED <<coordination, environment, removed>> /\ (UNCHANGED spent \/ Fault)
              /\ \/ \E ws \in Workspaces, r \in Runs : BeginPrune(ws, r)
                 \/ WriteTombstone
                 \/ \E file \in {"start", "records"} \cup Signals : PruneFile(file)
                 \/ \E r \in Runs : RecordValidation(r) \/ TearValidation(r)
  BY DEF RetentionNext, rvars, BeginPrune, WriteTombstone, PruneFile, RecordValidation,
         TearValidation

\* What a run selects, signal by signal.
LEMMA SelectedSignals ==
    \A r, s : s \in Selected(r) <=>
        \E i \in At(history, "start") : history[i].run_id = r /\ s \in DOMAIN history[i].selected
  BY DEF Selected

\* Nothing that a drain removed comes back, and a run that the history knows
\* selects nothing more.
LEMMA ResolvedKept ==
    ASSUME OwnershipInv, [RetentionNext]_rvars
    PROVE  /\ Started(history) \subseteq Started(history)'
           /\ \A r : Gone(r) \subseteq Gone(r)'
           /\ \A r \in Started(history) : Selected(r)' = Selected(r)
           /\ \A r : Resolved(r) => Resolved(r)'
  <1>1. TypeOK /\ EventMatches
    BY DEF OwnershipInv, Typed
  <1>2. removed \subseteq removed'
    <2>1. CASE [Next]_vars
      <3>1. CASE Begin
        BY <3>1, BeginLeaves
      <3> QED BY <2>1, <3>1 DEF Next, Proceed, ArchiveLog, ReplaceLog, AppendEvidence,
           AppendActivity, RegisterTrigger, ValidateInputs, ArchiveInput, WriteStart,
           WriteIntent, SelectCandidates, VerifyInput, RemoveInput, Unlink, Acknowledge,
           ReportDrain, Fail, RemoveUnsynced, AcknowledgeFails, DrainInterrupted, Interrupt,
           InterruptEvidence, InterruptActivity, Unlocked, Tick, Regress, EditSignal,
           EditConfiguration, vars
    <2> QED BY <2>1, RetentionCases
  <1>3. \A r : Gone(r) \subseteq Gone(r)'
    BY <1>2 DEF Gone
  <1>4. CASE history' = history
    <2>1. \A r : Selected(r)' = Selected(r)
      BY <1>4 DEF Selected, At
    <2>2. Started(history)' = Started(history)
      BY <1>4 DEF Started, At
    <2> QED BY <1>3, <2>1, <2>2 DEF Resolved
  <1>5. CASE history' = Append(history, op.event) /\ op.stage = "append"
    <2> DEFINE n == Len(history) + 1
    <2>1. /\ DOMAIN history' = DOMAIN history \cup {n} /\ n \notin DOMAIN history
          /\ history'[n] = op.event /\ \A i \in DOMAIN history : history'[i] = history[i]
      BY <1>1, <1>5, AppendedLine
    <2> HIDE DEF n
    <2>2. Started(history) \subseteq Started(history)'
      BY <2>1 DEF Started, At
    <2>3. op.event.event = "start" => Run \notin Started(history)
      BY <1>1, <1>5 DEF EventMatches, Issued
    <2>4. ASSUME NEW r \in Started(history)
          PROVE  Selected(r)' = Selected(r)
      <3>1. \A i \in At(history, "start") :
                i \in At(history', "start") /\ history'[i] = history[i]
        BY <2>1 DEF At
      <3>2. \A i \in At(history', "start") :
                history'[i].run_id = r => i \in At(history, "start")
        BY <2>1, <2>3, <2>4 DEF At, Run
      <3>3. Selected(r)' = UNION {DOMAIN history'[i].selected :
                              i \in {j \in At(history', "start") : history'[j].run_id = r}}
        BY DEF Selected, At
      <3>4. \A s : s \in Selected(r)' <=>
                \E i \in At(history', "start") :
                    history'[i].run_id = r /\ s \in DOMAIN history'[i].selected
        BY <3>3
      <3>5. \A s : s \in Selected(r)' <=> s \in Selected(r)
        BY <3>1, <3>2, <3>4, SelectedSignals
      <3> QED BY <3>5
    <2> QED BY <1>3, <2>2, <2>4 DEF Resolved
  <1>6. \/ history' = history
        \/ history' = Append(history, op.event) /\ op.stage = "append"
    <2>1. CASE [Next]_vars
      BY <1>1, <2>1, LogSteps DEF ReplaceLog
    <2> QED BY <2>1, RetentionCases DEF coordination
  <1> QED BY <1>4, <1>5, <1>6

\* What expiry removes of a run leaves the rest of the evidence as it is.
LEMMA PrunedForms ==
    ASSUME TypeOK, NEW q \in Runs, NEW file \in {"start", "records"} \cup Signals,
           evidence' = Pruned(q, file)
    PROVE  /\ evidence' \in [Runs -> RunEvidence]
           /\ \A r \in Runs \ {q} : evidence'[r] = evidence[r]
           /\ evidence'[q].start \in {evidence[q].start, None}
           /\ evidence'[q].records \in {evidence[q].records, <<>>}
  <1>1. evidence \in [Runs -> RunEvidence] /\ evidence[q] \in RunEvidence
    BY DEF TypeOK
  <1>2. \/ evidence' = [evidence EXCEPT ![q].start = None]
        \/ evidence' = [evidence EXCEPT ![q].records = <<>>]
        \/ evidence' = [evidence EXCEPT
                 ![q].inputs = Restrict(evidence[q].inputs, DOMAIN evidence[q].inputs \ {file})]
    BY DEF Pruned
  <1>3. CASE evidence' = [evidence EXCEPT ![q].start = None]
    BY <1>1, <1>3 DEF RunEvidence
  <1>4. CASE evidence' = [evidence EXCEPT ![q].records = <<>>]
    <2>1. <<>> \in Seq(Records)
      OBVIOUS
    <2> QED BY <1>1, <1>4, <2>1 DEF RunEvidence
  <1>5. CASE evidence' = [evidence EXCEPT
                 ![q].inputs = Restrict(evidence[q].inputs, DOMAIN evidence[q].inputs \ {file})]
    <2> DEFINE left == Restrict(evidence[q].inputs, DOMAIN evidence[q].inputs \ {file})
    <2>1. left \in Selections
      <3>1. evidence[q].inputs \in Selections
        BY <1>1 DEF RunEvidence
      <3>2. PICK S \in SUBSET Signals : evidence[q].inputs \in [S -> Contents]
        BY <3>1 DEF Selections
      <3>3. left \in [S \ {file} -> Contents] /\ S \ {file} \in SUBSET Signals
        BY <3>2 DEF Restrict
      <3> QED BY <3>3 DEF Selections
    <2>2. evidence' = [evidence EXCEPT ![q].inputs = left]
      BY <1>5
    <2> HIDE DEF left
    <2> QED BY <1>1, <2>1, <2>2 DEF RunEvidence
  <1> QED BY <1>2, <1>3, <1>4, <1>5

\* The five steps of retention keep types, the event in hand and what is unfinished.
LEMMA NextRetentionOwnership ==
    ASSUME OwnershipInv, InProgress, [RetentionNext]_rvars
    PROVE  OwnershipInv'
  <1>1. /\ Typed /\ TypeOK /\ StagesConsistent /\ StartsFiled /\ EventMatches
        /\ op \in Operations /\ Pruning
    BY DEF OwnershipInv, Typed, TypeOK, InProgress
  <1>2. CASE [Next]_vars
    BY <1>2, NextOwnership
  <1>3. CASE UNCHANGED <<coordination, environment, removed>> /\ (UNCHANGED spent \/ Fault)
             /\ (\/ \E ws \in Workspaces, r \in Runs : BeginPrune(ws, r)
                 \/ WriteTombstone
                 \/ \E file \in {"start", "records"} \cup Signals : PruneFile(file)
                 \/ \E r \in Runs : RecordValidation(r) \/ TearValidation(r))
    <2>1. ActiveTransparent' /\ EndsStarted' /\ OneActiveRun'
      <3>1. UNCHANGED <<history, live>>
        BY <1>3 DEF coordination
      <3>2. ActiveTransparent /\ EndsStarted /\ OneActiveRun
        BY DEF OwnershipInv
      <3>3. log' = log /\ history' = history
        BY <3>1 DEF log
      <3> QED BY <3>2, <3>3 DEF ActiveTransparent, EndsStarted, OneActiveRun, ActiveRuns,
              Started, Ended, At
    <2>2. history' = history
      BY <1>3 DEF coordination
    <2>3. evidence' \in [Runs -> RunEvidence] /\ StartsFiled'
      <3>1. CASE evidence' = evidence
        BY <1>1, <3>1 DEF TypeOK, StartsFiled
      <3>2. ASSUME NEW file \in {"start", "records"} \cup Signals, PruneFile(file)
            PROVE  evidence' \in [Runs -> RunEvidence] /\ StartsFiled'
        <4>1. op.stage = "prune" /\ evidence' = Pruned(Run, file)
          BY <3>2 DEF PruneFile
        <4>2. Run \in Runs
          BY <1>1, <4>1 DEF Pruning
        <4>3. /\ evidence' \in [Runs -> RunEvidence]
              /\ \A r \in Runs : evidence'[r].start \in {evidence[r].start, None}
          BY <1>1, <4>1, <4>2, PrunedForms
        <4> QED BY <1>1, <4>3 DEF StartsFiled
      <3>3. ASSUME NEW r \in Runs, RecordValidation(r)
            PROVE  evidence' \in [Runs -> RunEvidence] /\ StartsFiled'
        <4> DEFINE record == Record("validate")
        <4>1. record \in Records
          BY RecordType DEF RecordKinds
        <4>2. evidence' = Written(r, record)
          BY <3>3 DEF RecordValidation
        <4> HIDE DEF record
        <4> QED BY <1>1, <4>1, <4>2, EvidenceKept
      <3>4. ASSUME NEW r \in Runs, TearValidation(r)
            PROVE  evidence' \in [Runs -> RunEvidence] /\ StartsFiled'
        <4>1. evidence' = Torn(r)
          BY <3>4 DEF TearValidation
        <4>2. Record("validate") \in Records
          BY RecordType DEF RecordKinds
        <4> QED BY <1>1, <4>1, <4>2, EvidenceKept
      <3> QED BY <1>3, <3>1, <3>2, <3>3, <3>4 DEF BeginPrune, WriteTombstone
    <2>4. op' \in Operations /\ StagesConsistent' /\ EventMatches'
      <3>1. CASE op' = op
        BY <1>1, <2>2, <3>1, EventKept DEF StagesConsistent, Run
      <3>2. CASE Release
        BY <3>2, ReleaseConsistent, ReleasedEvent
      <3>3. ASSUME NEW ws \in Workspaces, NEW r \in Runs, BeginPrune(ws, r)
            PROVE  op' \in Operations /\ StagesConsistent' /\ EventMatches'
        <4> DEFINE e == [Blank EXCEPT !.run_id = r]
        <4>1. Idle \in Operations /\ Blank \in Events /\ Idle.event = Blank
          BY IdleType DEF Idle
        <4>2. e \in Events /\ e.run_id = r
          BY <4>1 DEF Events
        <4>3. op' = [Idle EXCEPT !.kind = "prune", !.stage = "expire", !.event = e]
          BY <3>3, <4>1 DEF BeginPrune
        <4> HIDE DEF e
        <4>4. op' \in Operations /\ op'.kind = "prune" /\ op'.stage = "expire"
          BY <4>1, <4>2, <4>3 DEF Operations, Kinds, Stages
        <4> QED BY <4>4 DEF StagesConsistent, Rolling, Draining, Issued, EventMatches
      <3>4. CASE WriteTombstone
        <4>1. op.kind = "prune" /\ Goto("prune")
          BY <1>1, <3>4 DEF WriteTombstone, Pruning
        <4>2. op' \in Operations /\ op'.kind = "prune" /\ op'.stage = "prune"
          BY <1>1, <4>1, GotoType DEF Stages
        <4> QED BY <4>2 DEF StagesConsistent, Rolling, Draining, Issued, EventMatches
      <3> QED BY <1>3, <3>1, <3>2, <3>3, <3>4 DEF PruneFile, RecordValidation, TearValidation
    <2>5. spent' \in [faults: Nat, edits: Nat, regress: Nat]
      BY <1>1, <1>3 DEF TypeOK, Fault
    <2>6. TypeOK'
      BY <1>1, <1>3, <2>3, <2>4, <2>5 DEF TypeOK, coordination, environment
    <2> QED BY <2>1, <2>3, <2>4, <2>6 DEF OwnershipInv, Typed
  <1> QED BY <1>2, <1>3, RetentionCases

\* Without an operation in hand nothing is in progress.
LEMMA ReleasedProgress ==
    ASSUME Release
    PROVE  InProgress'
  <1>1. op'.kind = "none" /\ op'.stage = "none"
    BY DEF Release, Idle
  <1> QED BY <1>1 DEF InProgress, StagesOfKind, Pruning, Starting, Recording, Removing, Draining

\* Before its first write, an operation has at most the record of an attachment.
LEMMA EarlyProgress ==
    ASSUME op'.kind \in {"start", "trigger", "worker"},
           op'.stage \in Rolling \cup {"validate", "register", "evidence", "append"},
           op'.kind = "start" => op'.stage \in Rolling \cup {"validate"},
           (op'.kind = "worker" /\ op'.record # None) => op'.record.operation = "compound.worker"
    PROVE  InProgress'
  BY DEF InProgress, StagesOfKind, Pruning, Starting, Recording, Removing, Draining, Rolling,
     Issued

\* An operation that begins with a rollover, or goes on as after one.
LEMMA RollingProgress ==
    ASSUME NEW o \in Operations, o.kind \in {"start", "trigger", "worker"},
           (o.kind = "worker" /\ o.record # None) => o.record.operation = "compound.worker",
           op' = AfterRollover(o)
    PROVE  InProgress'
  <1>1. /\ op'.kind = o.kind /\ op'.record = o.record
        /\ op'.stage \in {"rollover", Resume(o)}
    BY DEF AfterRollover, Operations
  <1>2. /\ o.kind = "start" => Resume(o) = "validate"
        /\ o.kind = "trigger" => Resume(o) = "register"
        /\ o.kind = "worker" => Resume(o) \in {"evidence", "append"}
    BY DEF Resume
  <1> QED BY <1>1, <1>2, EarlyProgress DEF Rolling

\* Only a run that no expiry has touched can be drained or finished: its log
\* lines, its archived start and its records are all there.
LEMMA OwnedIntact ==
    ASSUME RetentionInv, NEW ws \in Workspaces, NEW r \in Runs,
           ActiveRun(ws, r), ~Has(r, "compound.finish")
    PROVE  /\ r \in Started(history) /\ r \notin expired /\ evidence[r].start # None
           /\ Recorded(r).selected = evidence[r].start.selected
           /\ Selected(r) \subseteq DOMAIN evidence[r].start.selected
  <1>1. TypeOK /\ LossExplained /\ Tombstones
    BY DEF RetentionInv, OwnershipInv, Typed, Books
  <1>2. /\ evidence[r].start # None /\ Has(r, "compound.start") /\ r \in ActiveRuns(log)
    BY DEF ActiveRun, Resolvable
  <1>3. r \in Started(history)
    BY <1>1, <1>2, LogWithinHistory DEF ActiveRuns
  <1>4. r \notin expired
    BY <1>1, <1>2 DEF Tombstones
  <1>5. Recorded(r).selected = evidence[r].start.selected
    BY <1>1, <1>2, RecordedSelects
  <1>6. \A i \in At(history, "start") : history[i].run_id = r => evidence[r].start = history[i]
    BY <1>1, <1>4 DEF LossExplained
  <1>7. \A s \in Selected(r) : s \in DOMAIN evidence[r].start.selected
    BY <1>6, SelectedSignals
  <1> QED BY <1>2, <1>3, <1>4, <1>5, <1>7

\* What every operation begins with.
LEMMA BeginProgress ==
    ASSUME RetentionInv, [RetentionNext]_rvars, Begin
    PROVE  InProgress'
  <1>1. Idle \in Operations /\ Blank \in Events /\ TypeOK /\ StartsFiled /\ Truthful
    BY IdleType DEF RetentionInv, OwnershipInv, Typed, Books
  <1>2. PICK ws \in Workspaces :
            \/ BeginTrigger(ws)
            \/ \E selected \in Batches, automatic \in Modes,
                  worker \in Workers \cup {None}, recovery \in Runs \cup {None}, size \in Sizes :
                  BeginStart(ws, selected, automatic, worker, recovery, size)
            \/ \E r \in Runs :
                  \/ \E worker \in Workers : BeginWorker(ws, r, worker)
                  \/ \E completion \in Reports,
                        dispositions \in SUBSET Signals, size \in Sizes :
                        BeginFinish(ws, r, completion, dispositions, size)
                  \/ \E approved \in SUBSET Signals : BeginDrain(ws, r, approved)
    BY DEF Begin
  <1>3. configured[ws] \in Triggers \cup {None}
    BY <1>1 DEF TypeOK
  <1>4. CASE BeginTrigger(ws)
    <2> DEFINE e == [Blank EXCEPT !.workspace_id = ws, !.trigger = configured[ws]]
               o == [Idle EXCEPT !.kind = "trigger", !.loaded = configured[ws], !.event = e]
    <2>1. op' = AfterRollover(o)
      BY <1>4 DEF BeginTrigger
    <2>2. e \in Events
      BY <1>1, <1>3 DEF Events
    <2> HIDE DEF e
    <2>3. o \in Operations /\ o.kind = "trigger"
      BY <1>1, <1>3, <2>2 DEF Operations, Kinds
    <2> HIDE DEF o
    <2> QED BY <2>1, <2>3, RollingProgress
  <1>5. ASSUME NEW selected \in Batches, NEW automatic \in Modes,
               NEW worker \in Workers \cup {None}, NEW recovery \in Runs \cup {None},
               NEW size \in Sizes,
               BeginStart(ws, selected, automatic, worker, recovery, size)
        PROVE  InProgress'
    <2> DEFINE e == [Blank EXCEPT
                       !.event = "start", !.workspace_id = ws, !.automatic = automatic,
                       !.worker_id = worker, !.recovery_of = recovery,
                       !.selected = selected, !.size = size]
               o == [Idle EXCEPT !.kind = "start", !.loaded = configured[ws], !.event = e]
    <2>1. op' = AfterRollover(o)
      BY <1>5 DEF BeginStart
    <2>2. e \in Events
      <3>1. selected \in Selections /\ automatic \in BOOLEAN /\ size \in Nat
        BY CallersAssumption
      <3> QED BY <1>1, <3>1 DEF Events
    <2> HIDE DEF e
    <2>3. o \in Operations /\ o.kind = "start"
      BY <1>1, <1>3, <2>2 DEF Operations, Kinds
    <2> HIDE DEF o
    <2> QED BY <2>1, <2>3, RollingProgress
  <1>6. ASSUME NEW r \in Runs, NEW worker \in Workers, BeginWorker(ws, r, worker)
        PROVE  InProgress'
    <2> DEFINE e == [Blank EXCEPT !.event = "worker", !.run_id = r,
                                  !.workspace_id = ws, !.at = clock, !.worker_id = worker]
               c == IF Merge(Recorded(r), worker) = Recorded(r) THEN None
                    ELSE [Record("compound.worker") EXCEPT !.worker_id = worker]
               o == [Idle EXCEPT !.kind = "worker", !.loaded = configured[ws],
                                 !.event = e, !.record = c]
    <2>1. e \in Events
      BY <1>1 DEF Events, TypeOK
    <2>2. c \in Records \cup {None} /\ (c # None => c.operation = "compound.worker")
      <3>1. /\ Record("compound.worker") \in Records
            /\ Record("compound.worker").operation = "compound.worker"
        BY RecordType DEF RecordKinds, Record
      <3> QED BY <3>1 DEF Records
    <2>3. op' = AfterRollover(o)
      BY <1>6 DEF BeginWorker
    <2> HIDE DEF e, c
    <2>4. o \in Operations /\ o.kind = "worker" /\ o.record = c
      BY <1>1, <1>3, <2>1, <2>2 DEF Operations, Kinds
    <2> HIDE DEF o
    <2> QED BY <2>2, <2>3, <2>4, RollingProgress
  <1>7. ASSUME NEW r \in Runs, NEW completion \in Reports,
               NEW dispositions \in SUBSET Signals, NEW size \in Sizes,
               BeginFinish(ws, r, completion, dispositions, size)
        PROVE  InProgress'
    <2> DEFINE active == Recorded(r)
               drained == RecordedDrained(r)
               e == [active EXCEPT !.event = "end", !.at = clock,
                            !.selected = NoSelection, !.dispositions = dispositions,
                            !.drained = drained, !.completion = completion, !.size = size]
               c == [Record("compound.finish") EXCEPT
                            !.at = clock, !.drained = drained,
                            !.retained = DOMAIN active.selected \ drained]
    <2>1. ActiveRun(ws, r) /\ ~Has(r, "compound.finish")
      BY <1>7 DEF BeginFinish
    <2>2. /\ r \in Started(history) /\ evidence[r].start # None
          /\ active.selected = evidence[r].start.selected
          /\ Selected(r) \subseteq DOMAIN evidence[r].start.selected
      BY <2>1, OwnedIntact
    <2>3. active \in Events /\ active.run_id = r /\ e.run_id = r
      <3>1. active \in Events /\ active.run_id = r
        BY <1>1, <2>2, RecordedOf
      <3> HIDE DEF active, drained
      <3> QED BY <3>1 DEF Events
    <2>4. /\ c.operation = "compound.finish"
          /\ c.retained = DOMAIN active.selected \ drained
      <3>1. /\ Record("compound.finish") \in Records
            /\ Record("compound.finish").operation = "compound.finish"
        BY RecordType DEF RecordKinds, Record
      <3> HIDE DEF active, drained
      <3> QED BY <3>1 DEF Records
    <2>5. c.retained = {} => Resolved(r)
      <3>1. drained \subseteq Gone(r)
        BY <1>1 DEF Truthful
      <3> QED BY <2>2, <2>4, <3>1 DEF Resolved
    <2>6. op' = [Idle EXCEPT !.kind = "finish", !.loaded = configured[ws], !.stage = "evidence",
                             !.event = e, !.record = c]
      BY <1>7 DEF BeginFinish
    <2> HIDE DEF active, drained, e, c
    <2>7. op'.kind = "finish" /\ op'.stage = "evidence" /\ op'.event = e /\ op'.record = c
      BY <1>1, <2>6 DEF Operations
    <2>8. Run' = r
      BY <2>3, <2>7 DEF Run
    <2>9. Resolved(r) => Resolved(r)'
      BY ResolvedKept DEF RetentionInv
    <2>10. Recording'
      <3>1. Resolved(Run)' <=> Resolved(r)'
        BY <2>8 DEF Resolved, Selected, Gone
      <3> HIDE DEF Resolved
      <3> QED BY <2>4, <2>5, <2>7, <2>9, <3>1 DEF Recording
    <2> QED BY <2>7, <2>10
            DEF InProgress, StagesOfKind, Pruning, Starting, Removing, Draining
  <1>8. ASSUME NEW r, NEW approved, BeginDrain(ws, r, approved)
        PROVE  InProgress'
    <2>1. op'.kind = "drain" /\ op'.stage = "intent" /\ op'.done = {}
      BY <1>1, <1>8 DEF BeginDrain, Operations, Idle
    <2> QED BY <2>1
            DEF InProgress, StagesOfKind, Pruning, Starting, Recording, Removing, Draining
  <1> QED BY <1>2, <1>4, <1>5, <1>6, <1>7, <1>8

\* What comes after a rollover.
LEMMA RolloverProgress ==
    ASSUME OwnershipInv, InProgress, ArchiveLog \/ ReplaceLog
    PROVE  InProgress'
  <1>1. TypeOK /\ op \in Operations /\ StagesConsistent /\ Recording
    BY DEF OwnershipInv, Typed, TypeOK, InProgress
  <1>2. CASE Release
    BY <1>2, ReleasedProgress
  <1>3. CASE (ArchiveLog /\ Goto("replace")) \/ ReplaceLog
    <2>1. op.kind \in {"start", "trigger", "worker"}
      BY <1>1, <1>3 DEF ArchiveLog, ReplaceLog, Rolling, StagesConsistent
    <2>2. /\ op.kind = "start" => Resume(op) = "validate"
          /\ op.kind = "trigger" => Resume(op) = "register"
          /\ op.kind = "worker" => Resume(op) \in {"evidence", "append"}
      BY DEF Resume
    <2>3. Resume(op) \in Stages
      BY <1>1, <2>1, RolloverType
    <2>4. /\ op'.kind = op.kind /\ op'.record = op.record
          /\ op'.stage \in {"replace", Resume(op)}
      BY <1>1, <1>3, <2>3, GotoType DEF ReplaceLog, Stages
    <2>5. op'.stage \in Rolling \cup {"validate", "register", "evidence", "append"}
          /\ (op'.kind = "start" => op'.stage \in Rolling \cup {"validate"})
      BY <2>1, <2>2, <2>4 DEF Rolling
    <2> QED BY <1>1, <2>1, <2>4, <2>5, EarlyProgress DEF Recording
  <1> QED BY <1>2, <1>3 DEF ArchiveLog

\* Once its record is durable, a start has all the evidence of its run.
LEMMA RecordedProgress ==
    ASSUME OwnershipInv, InProgress, AppendEvidence
    PROVE  InProgress'
  <1>1. /\ TypeOK /\ op \in Operations /\ StagesConsistent /\ EventMatches
        /\ StagesOfKind /\ Starting /\ Recording
    BY DEF OwnershipInv, Typed, TypeOK, InProgress
  <1>2. /\ op.stage = "evidence" /\ op.kind \in {"start", "worker", "finish"}
        /\ op.record \in Records /\ Run \in Runs
    BY <1>1 DEF AppendEvidence, StagesConsistent, EventMatches, Issued
  <1>3. CASE Release
    BY <1>3, ReleasedProgress
  <1>4. CASE ~Release
    <2>1. evidence' = Written(Run, op.record) /\ Goto("append")
      BY <1>4 DEF AppendEvidence
    <2>2. /\ op'.stage = "append" /\ op'.kind = op.kind /\ op'.event = op.event
          /\ op'.record = op.record /\ Run' = Run
      BY <1>1, <2>1, GotoType DEF Stages, Run
    <2>3. Starting'
      <3> SUFFICES ASSUME op.kind = "start"
                   PROVE  /\ evidence'[Run].start = op.event
                          /\ evidence'[Run].inputs = op.event.selected
                          /\ Having(Run, "compound.start")' # {}
        BY <1>2, <2>2 DEF Starting, Has
      <3>1. /\ evidence[Run].start = op.event /\ evidence[Run].inputs = op.event.selected
            /\ op.record = Record("compound.start")
        BY <1>1, <1>2 DEF Starting, Recording
      <3>2. op.record.operation = "compound.start" /\ "compound.start" \in RecordKinds
        BY <3>1 DEF Record, RecordKinds
      <3> DEFINE q == Run
                 n == Len(evidence[q].records) + 1
      <3>3. /\ evidence'[q].start = evidence[q].start
            /\ evidence'[q].inputs = evidence[q].inputs
        BY <1>1, <1>2, <2>1, WrittenEffect
      <3>4. n \in Having(q, "compound.start")'
        <4>1. \A r \in Runs, kind \in RecordKinds :
                 Having(r, kind)' = Having(r, kind) \cup
                                    (IF r = Run /\ op.record.operation = kind THEN {n} ELSE {})
          BY <1>1, <1>2, <2>1, HavingMore
        <4>2. q \in Runs
          BY <1>2
        <4> HIDE DEF n
        <4>3. \A kind \in RecordKinds :
                 Having(q, kind)' = Having(q, kind) \cup
                                    (IF q = Run /\ op.record.operation = kind THEN {n} ELSE {})
          BY <2>2, <4>1, <4>2 DEF Having
        <4> QED BY <3>2, <4>3
      <3> QED BY <3>1, <3>3, <3>4
    <2>4. StagesOfKind' /\ Pruning' /\ Recording' /\ Removing'
      BY <1>1, <1>2, <2>2 DEF StagesOfKind, Pruning, Recording, Removing, Draining
    <2> QED BY <2>3, <2>4 DEF InProgress
  <1> QED BY <1>3, <1>4

\* The steps that archive a start, or register a trigger.
LEMMA StartProgress ==
    ASSUME OwnershipInv, InProgress,
           \/ \E expected \in Triggers \cup {None} : RegisterTrigger(expected)
           \/ \E r \in Runs : ValidateInputs(r)
           \/ \E s \in Signals : ArchiveInput(s)
           \/ WriteStart
    PROVE  InProgress'
  <1>1. /\ TypeOK /\ op \in Operations /\ op.event \in Events /\ StagesConsistent
        /\ EventMatches /\ Starting
    BY DEF OwnershipInv, Typed, TypeOK, Operations, InProgress
  <1>2. ASSUME op'.kind = "start", op'.stage \in {"inputs", "evidence"}, Starting',
               op'.stage = "evidence" => op'.record = Record("compound.start")'
        PROVE  InProgress'
    BY <1>2 DEF InProgress, StagesOfKind, Pruning, Recording, Removing, Draining
  <1>3. ASSUME NEW expected, RegisterTrigger(expected)
        PROVE  InProgress'
    <2>1. op.kind = "trigger"
      BY <1>1, <1>3 DEF RegisterTrigger, EventMatches
    <2>2. CASE op' = [op EXCEPT !.stage = "append", !.event.at = clock]
      <3>1. op'.stage = "append" /\ op'.kind = "trigger"
        BY <1>1, <2>1, <2>2 DEF Operations
      <3> QED BY <3>1, EarlyProgress
    <2> QED BY <1>3, <2>2, ReleasedProgress DEF RegisterTrigger
  <1>4. ASSUME NEW r \in Runs, ValidateInputs(r)
        PROVE  InProgress'
    <2>1. op.kind = "start" /\ evidence[r] = NoEvidence /\ evidence' = evidence
      BY <1>1, <1>4 DEF ValidateInputs, StagesConsistent, Unissued
    <2>2. CASE Release
      BY <2>2, ReleasedProgress
    <2>3. CASE ~Release
      <3> DEFINE e == [op.event EXCEPT !.at = clock, !.run_id = r]
      <3>1. e.run_id = r /\ e.selected = op.event.selected
        BY <1>1 DEF Events
      <3>2. op' = [op EXCEPT !.event.at = clock, !.event.run_id = r,
                             !.todo = DOMAIN op.event.selected, !.stage = "inputs"]
        BY <1>4, <2>3 DEF ValidateInputs
      <3>3. op' = [op EXCEPT !.event = e, !.todo = DOMAIN op.event.selected, !.stage = "inputs"]
        BY <1>1, <3>2 DEF Operations, Events
      <3> HIDE DEF e
      <3>4. /\ op'.kind = "start" /\ op'.stage = "inputs" /\ op'.event = e
            /\ op'.todo = DOMAIN op.event.selected
        BY <1>1, <2>1, <3>3 DEF Operations
      <3>5. Run' = r
        BY <3>1, <3>4 DEF Run
      <3>6. DOMAIN evidence'[r].inputs = {}
        BY <2>1 DEF NoEvidence, NoSelection
      <3>7. Starting'
        BY <3>1, <3>4, <3>5, <3>6 DEF Starting
      <3> QED BY <1>2, <3>4, <3>7
    <2> QED BY <2>2, <2>3
  <1>5. ASSUME NEW s \in Signals, ArchiveInput(s)
        PROVE  InProgress'
    <2>1. /\ op.stage = "inputs" /\ op.kind = "start" /\ Run \in Runs /\ s \in op.todo
          /\ op.todo \subseteq DOMAIN op.event.selected
      BY <1>1, <1>5 DEF ArchiveInput, StagesConsistent, Issued
    <2> DEFINE inputs == evidence[Run].inputs
               selected == op.event.selected
    <2>2. /\ DOMAIN inputs = DOMAIN selected \ op.todo
          /\ \A x \in DOMAIN inputs : inputs[x] = selected[x]
      BY <1>1, <2>1 DEF Starting
    <2>3. op' = [op EXCEPT !.todo = op.todo \ {s}]
      BY <1>5 DEF ArchiveInput
    <2>4. /\ op'.kind = "start" /\ op'.stage = "inputs" /\ op'.event = op.event
          /\ op'.todo = op.todo \ {s}
      BY <1>1, <2>1, <2>3 DEF Operations
    <2>5. Run' = Run
      BY <2>4 DEF Run
    <2>6. evidence' = [evidence EXCEPT ![Run].inputs = WithInput(inputs, s, selected[s])]
      BY <1>5 DEF ArchiveInput
    <2>7. evidence[Run] \in RunEvidence /\ Run \in DOMAIN evidence
      BY <1>1, <2>1 DEF TypeOK
    <2>8. evidence'[Run].inputs = WithInput(inputs, s, selected[s])
      <3> HIDE DEF inputs, selected
      <3> QED BY <2>6, <2>7 DEF RunEvidence
    <2>9. /\ DOMAIN WithInput(inputs, s, selected[s]) = DOMAIN selected \ (op.todo \ {s})
          /\ \A x \in DOMAIN WithInput(inputs, s, selected[s]) :
                WithInput(inputs, s, selected[s])[x] = selected[x]
      <3> HIDE DEF inputs
      <3> QED BY <2>1, <2>2 DEF WithInput
    <2>10. Starting'
      BY <2>1, <2>4, <2>5, <2>8, <2>9 DEF Starting
    <2> QED BY <1>2, <2>4, <2>10
  <1>6. CASE WriteStart
    <2>1. op.stage = "inputs" /\ op.kind = "start" /\ Run \in Runs /\ op.todo = {}
      BY <1>1, <1>6 DEF WriteStart, StagesConsistent, Issued
    <2>2. evidence[Run] \in RunEvidence /\ Run \in DOMAIN evidence
      BY <1>1, <2>1 DEF TypeOK
    <2>3. evidence[Run].inputs = op.event.selected
      <3>1. evidence[Run].inputs \in Selections /\ op.event.selected \in Selections
        BY <1>1, <2>2 DEF RunEvidence, Events
      <3>2. PICK S \in SUBSET Signals : evidence[Run].inputs \in [S -> Contents]
        BY <3>1 DEF Selections
      <3>3. PICK T \in SUBSET Signals : op.event.selected \in [T -> Contents]
        BY <3>1 DEF Selections
      <3>4. /\ DOMAIN evidence[Run].inputs = DOMAIN op.event.selected
            /\ \A x \in DOMAIN evidence[Run].inputs : evidence[Run].inputs[x] = op.event.selected[x]
        BY <1>1, <2>1 DEF Starting
      <3> QED BY <3>2, <3>3, <3>4
    <2>4. evidence' = [evidence EXCEPT ![Run].start = op.event]
      BY <1>6 DEF WriteStart
    <2>5. evidence'[Run].start = op.event /\ evidence'[Run].inputs = evidence[Run].inputs
      BY <2>2, <2>4 DEF RunEvidence
    <2>6. op' = [op EXCEPT !.stage = "evidence", !.record = Record("compound.start")]
      BY <1>6 DEF WriteStart
    <2>7. /\ op'.kind = "start" /\ op'.stage = "evidence" /\ op'.event = op.event
          /\ op'.record = Record("compound.start")
      BY <1>1, <2>1, <2>6 DEF Operations
    <2>8. Run' = Run /\ Record("compound.start")' = Record("compound.start")
      BY <2>7 DEF Run, Record
    <2>9. Starting'
      BY <2>1, <2>3, <2>5, <2>7, <2>8 DEF Starting
    <2> QED BY <1>2, <2>7, <2>8, <2>9
  <1> QED BY <1>3, <1>4, <1>5, <1>6

\* A drain counts an input once it is gone.
LEMMA DrainProgress ==
    ASSUME OwnershipInv, InProgress,
           \/ WriteIntent \/ SelectCandidates
           \/ \E s \in Signals : VerifyInput(s)
           \/ RemoveInput \/ Acknowledge \/ ReportDrain
           \/ RemoveUnsynced \/ AcknowledgeFails \/ DrainInterrupted
    PROVE  InProgress'
  <1>1. CASE Release
    BY <1>1, ReleasedProgress
  <1>2. /\ TypeOK /\ op \in Operations /\ Removing
        /\ op.kind = "drain" /\ op.stage \in Draining
    <2>1. op.stage \in Draining
      BY DEF WriteIntent, SelectCandidates, VerifyInput, RemoveInput, Acknowledge, ReportDrain,
         RemoveUnsynced, AcknowledgeFails, DrainInterrupted, Draining
    <2> QED BY <2>1 DEF OwnershipInv, Typed, TypeOK, InProgress, StagesOfKind
  <1>3. ASSUME op'.kind = "drain", op'.stage \in Draining, op'.event = op.event,
               removed \subseteq removed',
               \/ op'.done = op.done
               \/ op'.done = op.done \cup {op.signal} /\ op.signal \in {rm.signal : rm \in {x \in removed' : x.run = Run}},
               op'.stage = "acknowledge" =>
                   op'.signal \in {rm.signal : rm \in {x \in removed' : x.run = Run}}
        PROVE  InProgress'
    <2> DEFINE gone == {rm.signal : rm \in {x \in removed' : x.run = Run}}
    <2>1. Run' = Run
      BY <1>3 DEF Run
    <2>2. Gone(Run)' = gone /\ Gone(Run) \subseteq gone
      BY <1>3, <2>1 DEF Gone
    <2>3. op.done \subseteq Gone(Run)
      BY <1>2 DEF Removing
    <2>4. op'.done \subseteq gone
      <3> HIDE DEF gone
      <3>1. op'.done = op.done \/ (op'.done = op.done \cup {op.signal} /\ op.signal \in gone)
        BY <1>3 DEF gone
      <3> QED BY <2>2, <2>3, <3>1
    <2>5. op'.stage = "acknowledge" => op'.signal \in gone
      BY <1>3
    <2> HIDE DEF gone
    <2>6. Removing'
      BY <2>2, <2>4, <2>5 DEF Removing
    <2> QED BY <1>3, <2>6 DEF InProgress, StagesOfKind, Pruning, Starting, Recording, Draining
  <1>4. ASSUME NEW stage \in Draining \ {"acknowledge"}, Goto(stage), removed \subseteq removed'
        PROVE  InProgress'
    <2>1. stage \in Stages
      BY DEF Draining, Stages
    <2> QED BY <1>2, <1>3, <1>4, <2>1, GotoType
  <1>5. CASE SelectCandidates
    <2>1. /\ op' = [op EXCEPT !.stage = "remove", !.todo = {s \in op.todo : Candidate(s)}]
          /\ removed' = removed
      BY <1>5 DEF SelectCandidates
    <2>2. /\ op'.stage = "remove" /\ op'.kind = "drain" /\ op'.event = op.event
          /\ op'.done = op.done
      BY <1>2, <2>1 DEF Operations
    <2> QED BY <1>3, <2>1, <2>2 DEF Draining
  <1>6. ASSUME NEW s \in Signals, VerifyInput(s)
        PROVE  InProgress'
    <2>0. CASE Release
      BY <2>0, ReleasedProgress
    <2> SUFFICES ASSUME ~Release PROVE InProgress'
      BY <2>0
    <2>1. /\ op.stage = "remove" /\ removed' = removed
          /\ op' = [op EXCEPT !.todo = op.todo \ {s},
                              !.stage = IF Unchanged(s) THEN "unlink" ELSE op.stage,
                              !.signal = IF Unchanged(s) THEN s ELSE op.signal]
      BY <1>6 DEF VerifyInput
    <2>2. PICK stage \in {"unlink", "remove"}, signal \in {s, op.signal} :
              op' = [op EXCEPT !.todo = op.todo \ {s}, !.stage = stage, !.signal = signal]
      <3>1. CASE Unchanged(s)
        BY <2>1, <3>1
      <3>2. CASE ~Unchanged(s)
        BY <2>1, <3>2
      <3> QED BY <3>1, <3>2
    <2>3. /\ op'.kind = "drain" /\ op'.event = op.event /\ op'.done = op.done
          /\ op'.stage \in {"unlink", "remove"}
      BY <1>2, <2>2 DEF Operations
    <2> QED BY <1>3, <2>1, <2>3 DEF Draining
  <1>7. CASE RemoveInput
    <2>1. CASE Goto("remove")
      BY <1>4, <1>7, <2>1 DEF RemoveInput, Unlink, Draining
    <2>2. CASE ~Goto("remove")
      <3>1. /\ Unlink
            /\ op' = [op EXCEPT !.stage = "acknowledge", !.done = op.done \cup {op.signal}]
        BY <1>7, <2>2 DEF RemoveInput
      <3>2. /\ op'.stage = "acknowledge" /\ op'.kind = "drain" /\ op'.event = op.event
            /\ op'.done = op.done \cup {op.signal} /\ op'.signal = op.signal
        BY <1>2, <3>1 DEF Operations
      <3>3. /\ removed \subseteq removed'
            /\ op.signal \in {rm.signal : rm \in {x \in removed' : x.run = Run}}
        <4> DEFINE new == [run |-> Run, signal |-> op.signal, content |-> inbox[op.signal]]
        <4>1. removed' = removed \cup {new}
          BY <3>1 DEF Unlink
        <4>2. new.run = Run /\ new.signal = op.signal
          OBVIOUS
        <4> HIDE DEF new
        <4> QED BY <4>1, <4>2
      <3> QED BY <1>3, <3>2, <3>3 DEF Draining
    <2> QED BY <2>1, <2>2
  <1>8. CASE RemoveUnsynced
    <2>1. Goto("remove") /\ removed \subseteq removed'
      BY <1>8 DEF RemoveUnsynced, Unlink
    <2> QED BY <1>4, <2>1 DEF Draining
  <1>9. ASSUME ~Release, WriteIntent \/ Acknowledge \/ ReportDrain \/ AcknowledgeFails \/ DrainInterrupted
        PROVE  InProgress'
    <2>1. removed' = removed /\ \E stage \in {"select", "remove", "report"} : Goto(stage)
      BY <1>9 DEF WriteIntent, Acknowledge, ReportDrain, AcknowledgeFails, DrainInterrupted
    <2> QED BY <1>4, <2>1 DEF Draining
  <1> QED BY <1>1, <1>5, <1>6, <1>7, <1>8, <1>9

\* What is in progress goes on as before, while the evidence only grows.
LEMMA SteadyProgress ==
    ASSUME OwnershipInv, InProgress, [RetentionNext]_rvars, expired \subseteq expired', op' = op,
           \A r \in Runs : /\ evidence'[r].start = evidence[r].start
                           /\ evidence'[r].inputs = evidence[r].inputs
                           /\ \A kind \in {"compound.start", "compound.finish"} :
                                 Has(r, kind) => Has(r, kind)'
    PROVE  InProgress'
  <1>0. PICK q : q = Run
    OBVIOUS
  <1>1. /\ Run' = q /\ (Resolved(q) => Resolved(q)') /\ Gone(q) \subseteq Gone(q)'
        /\ \A operation : Record(operation)' = Record(operation)
    BY <1>0, ResolvedKept DEF Run, Record
  <1>2. StagesOfKind /\ Pruning /\ Starting /\ Recording /\ Removing
    BY DEF InProgress
  <1>3. Resolved(Run)' <=> Resolved(q)'
    BY <1>1 DEF Resolved, Started, Selected, Gone, At
  <1>4. Gone(Run)' = Gone(q)'
    BY <1>1 DEF Gone
  <1>5. \A kind : Has(Run, kind)' <=> Has(q, kind)'
    BY <1>1 DEF Has, Having
  <1>6. Pruning'
    <2>0. op.stage = "expire" => (Has(q, "compound.finish") => Has(q, "compound.finish")')
      BY <1>0, <1>2 DEF Pruning
    <2>1. op.stage = "expire" => Resolved(Run)' /\ Has(Run, "compound.finish")'
      BY <1>0, <1>1, <1>2, <1>3, <1>5, <2>0 DEF Pruning
    <2> QED BY <1>0, <1>1, <1>2, <2>1 DEF Pruning
  <1>7. Starting'
    <2> SUFFICES ASSUME op.kind = "start", op.stage \in Issued PROVE Starting'
      BY <1>1, <1>2 DEF Starting, Issued
    <2>1. q \in Runs
      BY <1>0, <1>2 DEF Starting
    <2>2. evidence'[Run'].start = evidence[q].start /\ evidence'[Run'].inputs = evidence[q].inputs
      BY <1>1, <2>1
    <2>3. op.stage = "append" => Has(Run, "compound.start")'
      <3>1. op.stage = "append" => Has(q, "compound.start")
        BY <1>0, <1>2 DEF Starting
      <3>2. Has(q, "compound.start") => Has(q, "compound.start")'
        BY <2>1
      <3> QED BY <1>5, <3>1, <3>2
    <2> QED BY <1>0, <1>1, <1>2, <2>1, <2>2, <2>3 DEF Starting
  <1>8. Recording'
    BY <1>0, <1>1, <1>2, <1>3 DEF Recording
  <1>9. StagesOfKind' /\ Removing'
    BY <1>0, <1>1, <1>2, <1>4 DEF StagesOfKind, Removing
  <1> QED BY <1>6, <1>7, <1>8, <1>9 DEF InProgress

\* No step of the lifecycle leaves an operation in progress without what it
\* takes for granted.
LEMMA LifecycleProgress ==
    ASSUME RetentionInv, [RetentionNext]_rvars, [Next]_vars, expired' = expired
    PROVE  InProgress'
  <1>1. OwnershipInv /\ InProgress
    BY DEF RetentionInv
  <1>2. CASE Release
    BY <1>2, ReleasedProgress
  <1>3. CASE Begin
    BY <1>3, BeginProgress
  <1>4. CASE Proceed
    <2>1. CASE ArchiveLog \/ ReplaceLog
      BY <1>1, <2>1, RolloverProgress
    <2>2. CASE AppendEvidence
      BY <1>1, <2>2, RecordedProgress
    <2>3. CASE AppendActivity
      BY <1>2, <2>3 DEF AppendActivity
    <2>4. CASE \/ \E expected \in Triggers \cup {None} : RegisterTrigger(expected)
               \/ \E r \in Runs : ValidateInputs(r)
               \/ \E s \in Signals : ArchiveInput(s)
               \/ WriteStart
      BY <1>1, <2>4, StartProgress
    <2>5. CASE \/ WriteIntent \/ SelectCandidates
               \/ \E s \in Signals : VerifyInput(s)
               \/ RemoveInput \/ Acknowledge \/ ReportDrain
      BY <1>1, <2>5, DrainProgress
    <2> QED BY <1>4, <2>1, <2>2, <2>3, <2>4, <2>5 DEF Proceed
  <1>5. CASE Fail
    <2>1. CASE RemoveUnsynced \/ AcknowledgeFails \/ DrainInterrupted
      BY <1>1, <2>1, DrainProgress
    <2>2. CASE Interrupt \/ InterruptEvidence \/ InterruptActivity
      BY <1>2, <2>2 DEF Interrupt, InterruptEvidence, InterruptActivity
    <2> QED BY <1>5, <2>1, <2>2 DEF Fail
  <1>6. CASE Unlocked \/ UNCHANGED vars
    <2>1. op' = op /\ evidence' = evidence
      BY <1>6 DEF Unlocked, Tick, Regress, EditSignal, EditConfiguration, vars
    <2>2. \A r, kind : Has(r, kind)' <=> Has(r, kind)
      BY <2>1 DEF Has, Having
    <2> QED BY <1>1, <2>1, <2>2, SteadyProgress
  <1> QED BY <1>3, <1>4, <1>5, <1>6 DEF Next

\* Expiry begins with a finish that retained nothing, and files go only under
\* the tombstone.
LEMMA ExpiryProgress ==
    ASSUME RetentionInv, [RetentionNext]_rvars,
           UNCHANGED <<coordination, environment, removed>>, UNCHANGED spent \/ Fault,
           \/ \E ws \in Workspaces, r \in Runs : BeginPrune(ws, r)
           \/ WriteTombstone
           \/ \E file \in {"start", "records"} \cup Signals : PruneFile(file)
           \/ \E r \in Runs : RecordValidation(r) \/ TearValidation(r)
    PROVE  InProgress'
  <1>1. /\ OwnershipInv /\ InProgress /\ Pruning /\ TypeOK /\ op \in Operations /\ Truthful
        /\ Idle \in Operations /\ Blank \in Events
    BY IdleType DEF RetentionInv, InProgress, OwnershipInv, Typed, TypeOK, Books
  <1>2. CASE Release
    BY <1>2, ReleasedProgress
  <1>3. ASSUME NEW ws \in Workspaces, NEW r \in Runs, BeginPrune(ws, r)
        PROVE  InProgress'
    <2> DEFINE n == Len(evidence[r].records)
    <2>1. /\ evidence[r].records # <<>> /\ evidence[r].records \in Seq(Records)
          /\ Expirable(evidence[r].records[n])
      BY <1>1, <1>3 DEF BeginPrune, TypeOK, RunEvidence, Last
    <2>2. n \in DOMAIN evidence[r].records
      BY <2>1
    <2>3. /\ n \in Having(r, "compound.finish") /\ evidence[r].records[n].retained = {}
      BY <2>1, <2>2 DEF Having, Expirable
    <2> HIDE DEF n
    <2>4. Resolved(r) /\ Has(r, "compound.finish")
      BY <1>1, <2>3 DEF Truthful, Has
    <2>5. Resolved(r)' /\ evidence' = evidence
      BY <1>1, <1>3, <2>4, ResolvedKept DEF BeginPrune
    <2> DEFINE e == [Blank EXCEPT !.run_id = r]
    <2>6. e \in Events /\ e.run_id = r /\ Idle.event = Blank
      BY <1>1 DEF Events, Idle
    <2>7. op' = [Idle EXCEPT !.kind = "prune", !.stage = "expire", !.event = e]
      BY <1>3, <2>6 DEF BeginPrune
    <2> HIDE DEF e
    <2>8. op'.kind = "prune" /\ op'.stage = "expire" /\ Run' = r
      BY <1>1, <2>6, <2>7 DEF Operations, Run
    <2>9. Resolved(Run)' /\ Has(Run, "compound.finish")'
      <3>1. Resolved(Run)' <=> Resolved(r)'
        BY <2>8 DEF Resolved, Started, Selected, Gone, At
      <3>2. Has(Run, "compound.finish")' <=> Has(r, "compound.finish")
        BY <2>5, <2>8 DEF Has, Having
      <3> QED BY <2>4, <2>5, <3>1, <3>2
    <2>10. Pruning'
      BY <2>8, <2>9 DEF Pruning
    <2> QED BY <2>8, <2>10 DEF InProgress, StagesOfKind, Starting, Recording, Removing, Draining
  <1>4. CASE WriteTombstone
    <2>1. op.kind = "prune" /\ Run \in Runs /\ Goto("prune") /\ expired' = expired \cup {Run}
      BY <1>1, <1>4 DEF WriteTombstone, Pruning
    <2>2. op'.kind = "prune" /\ op'.stage = "prune" /\ Run' = Run
      BY <1>1, <2>1, GotoType DEF Stages, Run
    <2> QED BY <2>1, <2>2
            DEF InProgress, StagesOfKind, Pruning, Starting, Recording, Removing, Draining
  <1>5. ASSUME NEW file, PruneFile(file)
        PROVE  InProgress'
    <2>1. CASE op' = op
      <3>1. /\ op.kind = "prune" /\ op.stage = "prune" /\ Run \in Runs /\ Run \in expired
            /\ expired' = expired /\ Run' = Run
        BY <1>1, <1>5, <2>1 DEF PruneFile, Pruning, Run
      <3> QED BY <2>1, <3>1
              DEF InProgress, StagesOfKind, Pruning, Starting, Recording, Removing, Draining
    <2> QED BY <1>2, <1>5, <2>1 DEF PruneFile
  <1>6. ASSUME NEW r \in Runs, RecordValidation(r)
        PROVE  InProgress'
    <2> DEFINE record == Record("validate")
    <2>1. /\ record \in Records /\ evidence' = Written(r, record)
          /\ op' = op /\ expired' = expired
      BY <1>6, RecordType DEF RecordValidation, RecordKinds
    <2> HIDE DEF record
    <2>2. \A q \in Runs : /\ evidence'[q].start = evidence[q].start
                          /\ evidence'[q].inputs = evidence[q].inputs
      BY <1>1, <2>1, WrittenEffect
    <2>3. \A q \in Runs, kind \in RecordKinds : Having(q, kind) \subseteq Having(q, kind)'
      BY <1>1, <2>1, HavingMore
    <2>4. {"compound.start", "compound.finish"} \subseteq RecordKinds
      BY DEF RecordKinds
    <2>5. \A q \in Runs : \A kind \in {"compound.start", "compound.finish"} :
              Has(q, kind) => Has(q, kind)'
      BY <2>3, <2>4 DEF Has
    <2> QED BY <1>1, <2>1, <2>2, <2>5, SteadyProgress
  <1>7. ASSUME NEW r \in Runs, TearValidation(r)
        PROVE  InProgress'
    <2>1. evidence' = Torn(r) /\ op' = op /\ expired' = expired
      BY <1>7 DEF TearValidation
    <2>2. \A q \in Runs : /\ evidence'[q].start = evidence[q].start
                          /\ evidence'[q].inputs = evidence[q].inputs
                          /\ evidence'[q].records = evidence[q].records
      BY <1>1, <2>1 DEF Torn, TypeOK, RunEvidence
    <2>3. \A q \in Runs : \A kind : Has(q, kind)' = Has(q, kind)
      BY <2>2 DEF Has, Having
    <2> QED BY <1>1, <2>1, <2>2, <2>3, SteadyProgress
  <1> QED BY <1>3, <1>4, <1>5, <1>6, <1>7

\* A record, once written, leaves the books in order: it tells the truth, and an
\* expired run gets none of a start.
LEMMA RecordBooks ==
    ASSUME TypeOK, Books, NEW q \in Runs, NEW record \in Records, evidence' = Written(q, record),
           UNCHANGED <<history, expired>>,
           \A r : Gone(r) \subseteq Gone(r)', \A r : Resolved(r) => Resolved(r)',
           record.operation \in {"compound.drain.removed", "compound.drain"}
               => record.drained \subseteq Gone(q),
           record.operation = "compound.finish" =>
               q \in Started(history) /\ (record.retained = {} => Resolved(q)),
           record.operation = "compound.start" => q \notin Started(history)
    PROVE  Books'
  <1> DEFINE n == Len(evidence[q].records) + 1
  <1>1. \A r \in Runs : /\ evidence'[r].start = evidence[r].start
                        /\ evidence'[r].inputs = evidence[r].inputs
    BY WrittenEffect
  <1>2. /\ \A r \in Runs, kind \in RecordKinds :
              Having(r, kind)' = Having(r, kind) \cup
                                 (IF r = q /\ record.operation = kind THEN {n} ELSE {})
        /\ \A r \in Runs : \A i \in DOMAIN evidence[r].records :
              i \in DOMAIN evidence'[r].records /\ evidence'[r].records[i] = evidence[r].records[i]
        /\ evidence'[q].records[n] = record
    BY HavingMore
  <1>3. \A r, kind : Having(r, kind) \subseteq DOMAIN evidence[r].records
    BY DEF Having
  <1>4. {"compound.start", "compound.finish"} \subseteq RecordKinds
    BY DEF RecordKinds
  <1> HIDE DEF n
  <1>5. Started(history)' = Started(history)
    BY DEF Started, At
  <1>6. Started(history) \subseteq Runs /\ Truthful /\ Tombstones /\ LossExplained
    BY DEF Books
  <1>7. Truthful'
    <2> SUFFICES ASSUME NEW r \in Runs
                 PROVE  /\ RecordedDrained(r)' \subseteq Gone(r)'
                        /\ Has(r, "compound.finish")' => r \in Started(history)'
                        /\ \A j \in Having(r, "compound.finish")' :
                              evidence'[r].records[j].retained = {} => Resolved(r)'
      BY DEF Truthful
    <2>1. RecordedDrained(r)' \subseteq Gone(r)'
      <3>1. RecordedDrained(r)' = RecordedDrained(r) \cup
                   (IF r = q /\ record.operation \in {"compound.drain.removed", "compound.drain"}
                    THEN record.drained ELSE {})
        BY DrainedMore
      <3>2. RecordedDrained(r) \subseteq Gone(r) /\ Gone(r) \subseteq Gone(r)'
        BY <1>6 DEF Truthful
      <3> QED BY <3>1, <3>2
    <2>2. Having(r, "compound.finish")' = Having(r, "compound.finish") \cup
                              (IF r = q /\ record.operation = "compound.finish" THEN {n} ELSE {})
      BY <1>2, <1>4
    <2>3. Has(r, "compound.finish")' => r \in Started(history)'
      BY <1>5, <1>6, <2>2 DEF Truthful, Has
    <2>4. ASSUME NEW j \in Having(r, "compound.finish")', evidence'[r].records[j].retained = {}
          PROVE  Resolved(r)
      <3>1. CASE j \in Having(r, "compound.finish")
        BY <1>2, <1>3, <1>6, <2>4, <3>1 DEF Truthful
      <3>2. CASE j \notin Having(r, "compound.finish")
        BY <1>2, <2>2, <2>4, <3>2
      <3> QED BY <3>1, <3>2
    <2>5. Resolved(r) => Resolved(r)'
      OBVIOUS
    <2> HIDE DEF Resolved
    <2> QED BY <2>1, <2>3, <2>4, <2>5
  <1>8. Tombstones'
    <2>1. ASSUME NEW r \in expired
          PROVE  Resolved(r)' /\ (Has(r, "compound.start")' => Has(r, "compound.finish")')
      <3>1. r \in Runs /\ Resolved(r) /\ (Has(r, "compound.start") => Has(r, "compound.finish"))
        BY <1>6, <2>1 DEF Tombstones
      <3>2. r \in Started(history)
        BY <3>1 DEF Resolved
      <3>3. /\ Having(r, "compound.start")' = Having(r, "compound.start")
            /\ Having(r, "compound.finish") \subseteq Having(r, "compound.finish")'
        <4>1. \A kind \in {"compound.start", "compound.finish"} :
                 Having(r, kind)' = Having(r, kind) \cup
                                    (IF r = q /\ record.operation = kind THEN {n} ELSE {})
          BY <1>2, <1>4, <3>1
        <4>2. ~(r = q /\ record.operation = "compound.start")
          BY <3>2
        <4> QED BY <4>1, <4>2
      <3>4. Resolved(r)'
        BY <3>1
      <3>5. Has(r, "compound.start")' => Has(r, "compound.finish")'
        BY <3>1, <3>3 DEF Has
      <3> QED BY <3>4, <3>5
    <2> QED BY <1>6, <2>1 DEF Tombstones
  <1>9. LossExplained'
    <2>1. \A r \in Runs : Has(r, "compound.start") => Has(r, "compound.start")'
      BY <1>2, <1>4 DEF Has
    <2>2. \A i \in At(history, "start") : history[i].run_id \in Runs
      BY <1>6 DEF Started
    <2> QED BY <1>1, <1>6, <2>1, <2>2 DEF LossExplained, At
  <1> QED BY <1>5, <1>6, <1>7, <1>8, <1>9 DEF Books

\* The books stay in order when the records of a run stay, or go with its
\* tombstone.
LEMMA SteadyBooks ==
    ASSUME TypeOK, Books, history' = history, expired \subseteq expired',
           \A r : Gone(r) \subseteq Gone(r)', \A r : Resolved(r) => Resolved(r)',
           \A r \in expired' \ expired :
               r \in Runs /\ Resolved(r) /\ Has(r, "compound.finish"),
           \A r \in Runs : evidence'[r].records \in {evidence[r].records, <<>>},
           \A r \in Runs : r \in expired' \/ r \notin Started(history)
                           \/ /\ evidence'[r].start = evidence[r].start
                              /\ evidence'[r].inputs = evidence[r].inputs
                              /\ evidence'[r].records = evidence[r].records
    PROVE  Books'
  <1>1. Started(history) \subseteq Runs /\ Truthful /\ Tombstones /\ LossExplained
    BY DEF Books
  <1>2. Started(history)' = Started(history)
    BY DEF Started, At
  <1>3. ASSUME NEW r \in Runs
        PROVE  \/ /\ evidence'[r].records = evidence[r].records
                  /\ \A kind : Having(r, kind)' = Having(r, kind)
                  /\ RecordedDrained(r)' = RecordedDrained(r)
               \/ /\ \A kind : Having(r, kind)' = {}
                  /\ RecordedDrained(r)' = {}
    <2>1. CASE evidence'[r].records = evidence[r].records
      BY <2>1 DEF Having, RecordedDrained
    <2>2. CASE evidence'[r].records = <<>>
      <3>1. \A kind : Having(r, kind)' = {}
        BY <2>2 DEF Having
      <3> QED BY <3>1 DEF RecordedDrained
    <2> QED BY <2>1, <2>2
  <1>4. Truthful'
    <2> SUFFICES ASSUME NEW r \in Runs
                 PROVE  /\ RecordedDrained(r)' \subseteq Gone(r)'
                        /\ Has(r, "compound.finish")' => r \in Started(history)'
                        /\ \A j \in Having(r, "compound.finish")' :
                              evidence'[r].records[j].retained = {} => Resolved(r)'
      BY DEF Truthful
    <2>1. /\ RecordedDrained(r) \subseteq Gone(r) /\ Gone(r) \subseteq Gone(r)'
          /\ Has(r, "compound.finish") => r \in Started(history)
          /\ \A j \in Having(r, "compound.finish") :
                evidence[r].records[j].retained = {} => Resolved(r)
          /\ Resolved(r) => Resolved(r)'
      BY <1>1 DEF Truthful
    <2> HIDE DEF Resolved
    <2> QED BY <1>2, <1>3, <2>1 DEF Has
  <1>5. Tombstones'
    <2>1. ASSUME NEW r \in expired'
          PROVE  /\ r \in Runs /\ Resolved(r)'
                 /\ Has(r, "compound.start")' => Has(r, "compound.finish")'
      <3>1. r \in Runs /\ Resolved(r) /\ (Has(r, "compound.start") => Has(r, "compound.finish"))
        BY <1>1, <2>1 DEF Tombstones
      <3> QED BY <1>3, <3>1 DEF Has
    <2> QED BY <2>1 DEF Tombstones
  <1>6. LossExplained'
    <2>1. \A i \in At(history, "start") :
              history[i].run_id \in Runs /\ history[i].run_id \in Started(history)
      BY <1>1 DEF Started
    <2>2. \A r \in Runs : evidence'[r].records = evidence[r].records =>
              (Has(r, "compound.start") => Has(r, "compound.start")')
      BY DEF Has, Having
    <2>3. ASSUME NEW i \in At(history, "start"), history[i].run_id \notin expired'
          PROVE  /\ evidence'[history[i].run_id].start = history[i]
                 /\ evidence'[history[i].run_id].inputs = history[i].selected
                 /\ Has(history[i].run_id, "compound.start")'
      <3> DEFINE r == history[i].run_id
      <3>1. /\ evidence[r].start = history[i] /\ evidence[r].inputs = history[i].selected
            /\ Has(r, "compound.start")
        BY <1>1, <2>3 DEF LossExplained
      <3>2. /\ evidence'[r].start = evidence[r].start
            /\ evidence'[r].inputs = evidence[r].inputs
            /\ evidence'[r].records = evidence[r].records
            /\ r \in Runs
        BY <2>1, <2>3
      <3>3. Has(r, "compound.start")'
        BY <2>2, <3>1, <3>2
      <3>4. Has(history[i].run_id, "compound.start")'
        BY <3>3 DEF Has, Having
      <3> QED BY <3>1, <3>2, <3>4
    <2> QED BY <2>3 DEF LossExplained, At
  <1> QED BY <1>1, <1>2, <1>4, <1>5, <1>6 DEF Books

\* The steps of the lifecycle keep the books in order.
LEMMA LifecycleBooks ==
    ASSUME RetentionInv, [RetentionNext]_rvars, [Next]_vars, expired' = expired
    PROVE  Books'
  <1>1. /\ OwnershipInv /\ InProgress /\ Books /\ TypeOK /\ EventMatches /\ StagesConsistent
        /\ StagesOfKind /\ Starting /\ Recording /\ Removing
        /\ Started(history) \subseteq Runs /\ Truthful /\ Tombstones /\ LossExplained
    BY DEF RetentionInv, OwnershipInv, Typed, InProgress, Books
  <1>2. (\A r : Gone(r) \subseteq Gone(r)') /\ (\A r : Resolved(r) => Resolved(r)')
    BY <1>1, ResolvedKept
  <1>3. CASE /\ history' = history
             /\ \A r \in Runs : /\ evidence'[r].start = evidence[r].start
                                /\ evidence'[r].inputs = evidence[r].inputs
                                /\ evidence'[r].records = evidence[r].records
    BY <1>1, <1>2, <1>3, SteadyBooks
  <1>4. CASE /\ history' = history
             /\ op.kind = "start" /\ op.stage = "inputs"
             /\ \A r \in Runs : /\ evidence'[r].records = evidence[r].records
                                /\ r # Run => evidence'[r] = evidence[r]
    <2>1. Run \notin Started(history)
      BY <1>1, <1>4 DEF EventMatches, Issued
    <2>2. \A r \in Runs : r = Run \/ evidence'[r] = evidence[r]
      BY <1>4
    <2> HIDE DEF Run
    <2> QED BY <1>1, <1>2, <1>4, <2>1, <2>2, SteadyBooks
  <1>5. ASSUME NEW record \in Records, OneRecord(record), history' = history
        PROVE  Books'
    <2>1. PICK q \in Runs : q = Run
      BY <1>5 DEF OneRecord
    <2>2. evidence' = Written(q, record)
      BY <1>5, <2>1 DEF OneRecord
    <2>3. CASE op.kind # "drain"
      <3>1. /\ op.stage = "evidence" /\ record = op.record
            /\ op.kind \in {"start", "worker", "finish"} /\ record # None
        BY <1>5, <2>3, RecordsAssumption DEF OneRecord
      <3>2. /\ op.kind = "start" => record.operation = "compound.start"
            /\ op.kind = "worker" => record.operation = "compound.worker"
            /\ op.kind = "finish" => /\ record.operation = "compound.finish"
                                     /\ record.retained = {} => Resolved(Run)
        BY <1>1, <3>1 DEF Recording, Record
      <3>3. /\ op.kind = "start" => Run \notin Started(history)
            /\ op.kind = "finish" => Run \in Started(history)
        BY <1>1, <3>1 DEF EventMatches, Issued
      <3>4. Resolved(Run) <=> Resolved(q)
        BY <2>1
      <3> HIDE DEF Resolved
      <3>5. /\ record.operation \notin {"compound.drain.removed", "compound.drain"}
            /\ record.operation = "compound.finish" =>
                  q \in Started(history) /\ (record.retained = {} => Resolved(q))
            /\ record.operation = "compound.start" => q \notin Started(history)
        BY <2>1, <3>1, <3>2, <3>3, <3>4
      <3> QED BY <1>1, <1>2, <1>5, <2>2, <3>5, RecordBooks
    <2>4. CASE op.kind = "drain"
      <3>1. /\ record.operation \in {"compound.drain.intent", "compound.drain.removed",
                                     "compound.drain"}
            /\ record.operation = "compound.drain.removed" =>
                  op.stage = "acknowledge" /\ record.drained = {op.signal}
            /\ record.operation = "compound.drain" => record.drained = op.done
        BY <1>5, <2>4 DEF OneRecord
      <3>2. /\ op.done \subseteq Gone(Run)
            /\ op.stage = "acknowledge" => op.signal \in Gone(Run)
        BY <1>1, <2>4 DEF Removing
      <3>3. record.operation \in {"compound.drain.removed", "compound.drain"}
                => record.drained \subseteq Gone(q)
        BY <2>1, <3>1, <3>2
      <3> QED BY <1>1, <1>2, <1>5, <2>2, <3>1, <3>3, RecordBooks
    <2> QED BY <2>3, <2>4
  <1>6. ASSUME AppendActivity, op.stage = "append", history' = Append(history, op.event)
        PROVE  Books'
    <2> DEFINE n == Len(history) + 1
    <2>1. /\ DOMAIN history' = DOMAIN history \cup {n} /\ n \notin DOMAIN history
          /\ history'[n] = op.event /\ \A i \in DOMAIN history : history'[i] = history[i]
      BY <1>1, <1>6, AppendedLine
    <2> HIDE DEF n
    <2>2. evidence' = evidence /\ op.kind \in {"start", "worker", "finish", "trigger"}
      BY <1>1, <1>6 DEF AppendActivity, EventMatches
    <2>3. op.event.event = "start" => op.kind = "start"
      BY <1>1, <2>2 DEF EventMatches
    <2>4. op.event.event = "start" =>
             /\ Run \in Runs /\ evidence[Run].start = op.event
             /\ evidence[Run].inputs = op.event.selected /\ Has(Run, "compound.start")
      BY <1>1, <1>6, <2>3 DEF Starting, Issued
    <2>5. \A i \in At(history', "start") :
              \/ i \in At(history, "start") /\ history'[i] = history[i]
              \/ i = n /\ op.event.event = "start"
      BY <2>1 DEF At
    <2>6. Started(history') \subseteq Runs
      <3>1. \A i \in At(history, "start") : history[i].run_id \in Runs
        BY <1>1 DEF Started
      <3>2. \A i \in At(history', "start") : history'[i].run_id \in Runs
        BY <2>1, <2>4, <2>5, <3>1 DEF Run
      <3> QED BY <3>2 DEF Started
    <2>7. Started(history) \subseteq Started(history')
      BY <2>1 DEF Started, At
    <2>8. /\ \A r, kind : Having(r, kind)' = Having(r, kind)
          /\ \A r, kind : Has(r, kind)' <=> Has(r, kind)
          /\ \A r : RecordedDrained(r)' = RecordedDrained(r)
      BY <2>2 DEF Has, Having, RecordedDrained
    <2>9. Truthful'
      <3> SUFFICES ASSUME NEW r \in Runs
                   PROVE  /\ RecordedDrained(r)' \subseteq Gone(r)'
                          /\ Has(r, "compound.finish")' => r \in Started(history)'
                          /\ \A j \in Having(r, "compound.finish")' :
                                evidence'[r].records[j].retained = {} => Resolved(r)'
        BY DEF Truthful
      <3>1. /\ RecordedDrained(r) \subseteq Gone(r) /\ Gone(r) \subseteq Gone(r)'
            /\ Has(r, "compound.finish") => r \in Started(history)
            /\ \A j \in Having(r, "compound.finish") :
                  evidence[r].records[j].retained = {} => Resolved(r)
            /\ Resolved(r) => Resolved(r)'
        BY <1>1, <1>2 DEF Truthful
      <3>2. Started(history)' = Started(history')
        BY DEF Started, At
      <3> HIDE DEF Resolved
      <3> QED BY <2>2, <2>7, <2>8, <3>1, <3>2
    <2>10. Tombstones'
      BY <1>1, <1>2, <2>8 DEF Tombstones
    <2>11. LossExplained'
      <3>1. ASSUME NEW i \in At(history', "start"), history'[i].run_id \notin expired
            PROVE  /\ evidence[history'[i].run_id].start = history'[i]
                   /\ evidence[history'[i].run_id].inputs = history'[i].selected
                   /\ Has(history'[i].run_id, "compound.start")
        <4>1. CASE i \in At(history, "start") /\ history'[i] = history[i]
          BY <1>1, <3>1, <4>1 DEF LossExplained
        <4>2. CASE i = n /\ op.event.event = "start"
          BY <2>1, <2>4, <4>2 DEF Run
        <4> QED BY <2>5, <3>1, <4>1, <4>2
      <3>2. \A i \in At(history', "start") : \A q : (q = history'[i].run_id /\ q \notin expired) =>
                /\ evidence'[q].start = history'[i]
                /\ evidence'[q].inputs = history'[i].selected
                /\ Has(q, "compound.start")'
        BY <2>2, <2>8, <3>1
      <3>3. \A i \in At(history', "start") : \A q : (q = history'[i].run_id /\ q \notin expired) =>
                /\ evidence'[q].start = history'[i]
                /\ evidence'[q].inputs = history'[i].selected
                /\ {j \in DOMAIN evidence'[q].records :
                       evidence'[q].records[j].operation = "compound.start"} # {}
        BY <3>2 DEF Has, Having
      <3> QED BY <3>3 DEF LossExplained, At, Has, Having
    <2>12. Started(history)' \subseteq Runs
      <3>1. Started(history)' = Started(history')
        BY DEF Started, At
      <3> QED BY <2>6, <3>1
    <2> QED BY <2>9, <2>10, <2>11, <2>12 DEF Books
  <1>7. history' = history \/ (AppendActivity /\ op.stage = "append"
                               /\ history' = Append(history, op.event))
    BY <1>1, LogSteps DEF ReplaceLog
  <1>8. \/ \A r \in Runs : /\ evidence'[r].start = evidence[r].start
                           /\ evidence'[r].inputs = evidence[r].inputs
                           /\ evidence'[r].records = evidence[r].records
        \/ /\ op.kind = "start" /\ op.stage = "inputs"
           /\ \A r \in Runs : /\ evidence'[r].records = evidence[r].records
                              /\ r # Run => evidence'[r] = evidence[r]
        \/ \E record \in Records : OneRecord(record)
    BY <1>1, EvidenceSteps
  <1> QED BY <1>3, <1>4, <1>5, <1>6, <1>7, <1>8

\* The steps of expiry keep the books in order.
LEMMA ExpiryBooks ==
    ASSUME RetentionInv, [RetentionNext]_rvars,
           UNCHANGED <<coordination, environment, removed>>, UNCHANGED spent \/ Fault,
           \/ \E ws \in Workspaces, r \in Runs : BeginPrune(ws, r)
           \/ WriteTombstone
           \/ \E file \in {"start", "records"} \cup Signals : PruneFile(file)
           \/ \E r \in Runs : RecordValidation(r) \/ TearValidation(r)
    PROVE  Books'
  <1>1. OwnershipInv /\ InProgress /\ Pruning /\ Books /\ TypeOK /\ Tombstones
    BY DEF RetentionInv, InProgress, OwnershipInv, Typed, Books
  <1>2. /\ \A r : Gone(r) \subseteq Gone(r)' /\ (Resolved(r) => Resolved(r)')
        /\ history' = history
    BY <1>1, ResolvedKept DEF coordination
  <1>3. CASE evidence' = evidence /\ expired' = expired
    BY <1>1, <1>2, <1>3, SteadyBooks
  <1>4. CASE WriteTombstone
    <2>1. /\ op.stage = "expire" /\ expired' = expired \cup {Run} /\ evidence' = evidence
          /\ op.kind = "prune"
      BY <1>1, <1>4 DEF WriteTombstone, Pruning
    <2>2. PICK q \in Runs : q = Run /\ Resolved(q) /\ Has(q, "compound.finish")
      BY <1>1, <2>1 DEF Pruning
    <2>3. expired' = expired \cup {q}
      BY <2>1, <2>2
    <2> HIDE DEF Resolved, Has
    <2>4. \A r \in expired' \ expired : r \in Runs /\ Resolved(r) /\ Has(r, "compound.finish")
      BY <2>2, <2>3
    <2> QED BY <1>1, <1>2, <2>1, <2>3, <2>4, SteadyBooks
  <1>5. ASSUME NEW file \in {"start", "records"} \cup Signals, PruneFile(file)
        PROVE  Books'
    <2>1. /\ op.stage = "prune" /\ op.kind = "prune" /\ expired' = expired
          /\ evidence' = Pruned(Run, file)
      BY <1>1, <1>5 DEF PruneFile, Pruning
    <2>2. PICK q \in Runs : q = Run /\ q \in expired
      BY <1>1, <2>1 DEF Pruning
    <2>3. evidence' = Pruned(q, file)
      BY <2>1, <2>2
    <2>4. /\ \A r \in Runs \ {q} : evidence'[r] = evidence[r]
          /\ evidence'[q].records \in {evidence[q].records, <<>>}
      BY <1>1, <2>3, PrunedForms
    <2>5. /\ \A r \in Runs : evidence'[r].records \in {evidence[r].records, <<>>}
          /\ \A r \in Runs : r \in expired' \/ r \notin Started(history)
                             \/ /\ evidence'[r].start = evidence[r].start
                                /\ evidence'[r].inputs = evidence[r].inputs
                                /\ evidence'[r].records = evidence[r].records
      BY <2>1, <2>2, <2>4
    <2> QED BY <1>1, <1>2, <2>1, <2>5, SteadyBooks
  <1>6. ASSUME NEW r \in Runs, RecordValidation(r)
        PROVE  Books'
    <2> DEFINE record == Record("validate")
    <2>1. /\ record \in Records /\ record.operation = "validate"
          /\ evidence' = Written(r, record) /\ expired' = expired
      BY <1>6, RecordType DEF RecordValidation, RecordKinds, Record
    <2> HIDE DEF record
    <2> QED BY <1>1, <1>2, <2>1, RecordBooks
  <1>7. ASSUME NEW r \in Runs, TearValidation(r)
        PROVE  Books'
    <2>1. evidence' = Torn(r) /\ expired' = expired
      BY <1>7 DEF TearValidation
    <2>2. \A q \in Runs : /\ evidence'[q].start = evidence[q].start
                          /\ evidence'[q].inputs = evidence[q].inputs
                          /\ evidence'[q].records = evidence[q].records
      BY <1>1, <2>1 DEF Torn, TypeOK, RunEvidence
    <2> QED BY <1>1, <1>2, <2>1, <2>2, SteadyBooks
  <1> QED BY <1>3, <1>4, <1>5, <1>6, <1>7 DEF BeginPrune

\* The invariant holds with an empty log and nothing expired.
LEMMA InitRetention == RetentionInit => RetentionInv
  <1> SUFFICES ASSUME RetentionInit PROVE RetentionInv
    OBVIOUS
  <1>1. Init /\ expired = {} /\ OwnershipInv
    BY InitOwnership DEF RetentionInit
  <1>2. op.kind = "none" /\ op.stage = "none"
    BY <1>1 DEF Init, Idle
  <1>3. InProgress
    BY <1>2 DEF InProgress, StagesOfKind, Pruning, Starting, Recording, Removing, Draining
  <1>4. At(history, "start") = {} /\ Started(history) = {}
    BY <1>1 DEF Init, At, Started
  <1>5. \A r \in Runs : \A kind : Having(r, kind) = {}
    BY <1>1 DEF Init, Having, NoEvidence
  <1>6. Truthful
    BY <1>5 DEF Truthful, Has, RecordedDrained
  <1> QED BY <1>1, <1>3, <1>4, <1>6 DEF RetentionInv, Books, Tombstones, LossExplained

\* Every step of either keeps it.
LEMMA NextRetention ==
    ASSUME RetentionInv, [RetentionNext]_rvars
    PROVE  RetentionInv'
  <1>1. OwnershipInv /\ InProgress
    BY DEF RetentionInv
  <1>2. OwnershipInv'
    BY <1>1, NextRetentionOwnership
  <1>3. InProgress'
    BY RetentionCases, LifecycleProgress, ExpiryProgress
  <1>4. Books'
    BY RetentionCases, LifecycleBooks, ExpiryBooks
  <1> QED BY <1>2, <1>3, <1>4 DEF RetentionInv

\* The invariant of the lifecycle with expiry, for every value of the constants.
LEMMA RetentionCorrect == RetentionSpec => []RetentionInv
  <1>1. RetentionInv /\ [RetentionNext]_rvars => RetentionInv'
    BY NextRetention
  <1> QED BY <1>1, InitRetention, PTL DEF RetentionSpec

\* Whatever order starts, drains, finishes, failures, edits, validations and
\* prunes come in, no tombstone is ever written for a run that selected an input
\* still unresolved: its archived copy is the only one that is known to be left
\* (prune_compound).
THEOREM ExpiredAreResolved == RetentionSpec => []UnresolvedKept
  <1>1. RetentionInv => UnresolvedKept
    BY DEF RetentionInv, Books, Tombstones, Resolved, UnresolvedKept
  <1> QED BY <1>1, RetentionCorrect, PTL

\* Whatever order they come in, a start line whose run has no tombstone has its
\* whole evidence: what an interrupted expiry took away is never mistaken for a
\* loss (prune_compound writes the tombstone before its first unlink).
THEOREM LossesAreExplained == RetentionSpec => []LossExplained
  <1>1. RetentionInv => LossExplained
    BY DEF RetentionInv, Books
  <1> QED BY <1>1, RetentionCorrect, PTL

-----------------------------------------------------------------------------
(* The lifecycle with expiry implements ExclusiveRuns. *)

ExclusionInv == RetentionInv /\ Claiming /\ OneEnd

\* A drain or finish begins on the active run, and claims what that run is
\* recorded to have removed.
LEMMA BeginClaims ==
    ASSUME RetentionInv, Begin
    PROVE  Claiming'
  <1>1. Idle \in Operations /\ Blank \in Events /\ TypeOK /\ StartsFiled /\ Truthful
    BY IdleType DEF RetentionInv, OwnershipInv, Typed, Books
  <1>2. /\ UNCHANGED <<history, live, removed>>
        /\ ActiveRuns(log)' = ActiveRuns(log)
    BY BeginLeaves DEF coordination, ActiveRuns, Started, Ended, At, log
  <1>3. ASSUME op'.kind \notin {"drain", "finish"}, op'.kind = "start" => op'.stage \notin Issued
        PROVE  Claiming'
    BY <1>3 DEF Claiming
  <1>4. ASSUME NEW ws \in Workspaces, NEW r \in Runs, ActiveRun(ws, r)
        PROVE  r \in ActiveRuns(log) /\ Recorded(r) \in Events /\ Recorded(r).run_id = r
    <2>1. r \in ActiveRuns(log) /\ evidence[r].start # None
      BY <1>4 DEF ActiveRun, Resolvable
    <2> QED BY <1>1, <2>1, RecordedOf
  <1>5. ASSUME NEW ws \in Workspaces, NEW r \in Runs, NEW completion \in Reports,
               NEW dispositions \in SUBSET Signals, NEW size \in Sizes,
               BeginFinish(ws, r, completion, dispositions, size)
        PROVE  Claiming'
    <2> DEFINE active == Recorded(r)
               drained == RecordedDrained(r)
               e == [active EXCEPT !.event = "end", !.at = clock,
                            !.selected = NoSelection, !.dispositions = dispositions,
                            !.drained = drained, !.completion = completion, !.size = size]
               c == [Record("compound.finish") EXCEPT
                            !.at = clock, !.drained = drained,
                            !.retained = DOMAIN active.selected \ drained]
    <2>1. r \in ActiveRuns(log) /\ active \in Events /\ active.run_id = r
      BY <1>4, <1>5 DEF BeginFinish
    <2>2. op' = [Idle EXCEPT !.kind = "finish", !.loaded = configured[ws], !.stage = "evidence",
                             !.event = e, !.record = c]
      BY <1>5 DEF BeginFinish
    <2> HIDE DEF active, c
    <2>3. drained \subseteq Gone(r)
      BY <1>1 DEF Truthful
    <2> HIDE DEF drained
    <2>4. e.run_id = r /\ e.drained = drained
      BY <2>1 DEF Events
    <2> HIDE DEF e
    <2>5. op'.kind = "finish" /\ op'.stage = "evidence" /\ op'.event = e
      BY <1>1, <2>2 DEF Operations
    <2>6. Run' = r
      BY <2>4, <2>5 DEF Run
    <2>7. Gone(Run)' = Gone(r)
      BY <1>2, <2>6 DEF Gone
    <2> QED BY <1>2, <2>1, <2>3, <2>4, <2>5, <2>6, <2>7 DEF Claiming
  <1>6. ASSUME NEW ws \in Workspaces, NEW r \in Runs, NEW approved \in SUBSET Signals,
               BeginDrain(ws, r, approved)
        PROVE  Claiming'
    <2>1. r \in ActiveRuns(log) /\ Recorded(r) \in Events /\ Recorded(r).run_id = r
      BY <1>4, <1>6 DEF BeginDrain
    <2>2. op' = [Idle EXCEPT !.kind = "drain", !.loaded = configured[ws], !.stage = "intent",
                             !.event = Recorded(r), !.todo = approved]
      BY <1>6 DEF BeginDrain
    <2>3. op'.kind = "drain" /\ op'.event = Recorded(r)
      BY <1>1, <2>2 DEF Operations
    <2>4. Run' = r
      BY <2>1, <2>3 DEF Run
    <2> QED BY <1>2, <2>1, <2>3, <2>4 DEF Claiming
  <1>7. op'.kind = "start" => op'.stage \notin Issued
    BY <1>1, BeginKinds
  <1> QED BY <1>1, <1>3, <1>5, <1>6, <1>7, BeginKinds

\* From there on the operation keeps its event, and nothing else is logged.
LEMMA NextClaims ==
    ASSUME RetentionInv, Claiming, [RetentionNext]_rvars
    PROVE  Claiming'
  <1>1. /\ OwnershipInv /\ InProgress /\ StagesOfKind /\ Starting' /\ TypeOK /\ StagesConsistent
        /\ \A r : Gone(r) \subseteq Gone(r)'
    <2>1. RetentionInv'
      BY NextRetention
    <2> QED BY <2>1, ResolvedKept DEF RetentionInv, InProgress, OwnershipInv, Typed
  <1>2. op'.kind = "start" /\ op'.stage \in Issued => Run' \in Runs
    BY <1>1 DEF Starting
  <1>3. ASSUME op'.kind = op.kind, op'.event = op.event, UNCHANGED <<history, live>>
        PROVE  Claiming'
    <2>1. PICK q : q = Run
      OBVIOUS
    <2>2. Run' = q /\ ActiveRuns(log)' = ActiveRuns(log)
      BY <1>3, <2>1 DEF Run, ActiveRuns, Started, Ended, At, log
    <2>3. Gone(Run)' = Gone(q)'
      BY <2>2 DEF Gone
    <2>4. op.kind = "finish" => op.event.drained \subseteq Gone(Run)'
      BY <1>1, <2>1, <2>3 DEF Claiming
    <2> QED BY <1>2, <1>3, <2>1, <2>2, <2>4 DEF Claiming
  <1>4. CASE op'.kind \notin {"drain", "finish"}
    BY <1>2, <1>4 DEF Claiming
  <1>5. CASE [Next]_vars
    <2>1. CASE Begin
      BY <2>1, BeginClaims
    <2>2. CASE op'.kind = op.kind /\ op'.event = op.event /\ op'.kind \in {"drain", "finish"}
      <3>1. ~ReplaceLog
        BY <1>1, <2>2 DEF ReplaceLog, StagesConsistent, Rolling
      <3>2. ~AppendActivity
        BY <2>2 DEF AppendActivity, Release, Idle
      <3> QED BY <1>1, <1>3, <1>5, <2>2, <3>1, <3>2, LogSteps
    <2> QED BY <1>1, <1>4, <1>5, <2>1, <2>2, OperationSteps
  <1>6. CASE /\ UNCHANGED <<coordination, environment, removed>> /\ (UNCHANGED spent \/ Fault)
             /\ \/ \E ws \in Workspaces, r \in Runs : BeginPrune(ws, r)
                \/ WriteTombstone
                \/ \E file \in {"start", "records"} \cup Signals : PruneFile(file)
                \/ \E r \in Runs : RecordValidation(r) \/ TearValidation(r)
    <2>1. CASE op' = op
      BY <1>3, <1>6, <2>1 DEF coordination
    <2>2. CASE Release
      BY <1>4, <2>2 DEF Release, Idle
    <2>3. ASSUME NEW ws \in Workspaces, NEW r \in Runs, BeginPrune(ws, r)
          PROVE  Claiming'
      <3>1. op'.kind = "prune"
        BY <2>3, IdleType DEF BeginPrune, Operations
      <3> QED BY <1>4, <3>1
    <2>4. CASE WriteTombstone
      <3>1. op'.kind = op.kind /\ op'.event = op.event
        BY <1>1, <2>4, GotoType DEF WriteTombstone, Stages
      <3> QED BY <1>3, <1>6, <3>1 DEF coordination
    <2> QED BY <1>6, <2>1, <2>2, <2>3, <2>4 DEF PruneFile, RecordValidation, TearValidation
  <1> QED BY <1>5, <1>6, RetentionCases

\* With expiry and with validations of other commands, too, runs own the store
\* one at a time, only the owner removes inputs, and an end line claims no
\* removal that its run did not make while it was the owner.
THEOREM ExclusiveDespiteExpiry == RetentionSpec => ImplementsExclusiveRuns
  <1>1. RetentionInit => Exclusive!AbstractInit /\ OneEnd /\ Claiming
    <2> SUFFICES ASSUME RetentionInit PROVE Exclusive!AbstractInit /\ OneEnd /\ Claiming
      OBVIOUS
    <2>1. history = <<>> /\ live = {} /\ removed = {} /\ op.kind = "none"
      BY DEF RetentionInit, Init, Idle
    <2>2. Started(log) = {} /\ Ended(history) = {}
      BY <2>1 DEF Started, Ended, At, log, Restrict
    <2>3. ActiveRuns(log) = {}
      BY <2>2 DEF ActiveRuns
    <2>4. OneEnd /\ Claiming
      BY <2>1 DEF OneEnd, At, Claiming
    <2> QED BY <2>1, <2>2, <2>3, <2>4 DEF Exclusive!AbstractInit
  <1>2. ASSUME ExclusionInv, [RetentionNext]_rvars
        PROVE  OneEnd' /\ [Exclusive!AbstractNext]_(Exclusive!avars)
    <2>1. OwnershipInv /\ StagesOfKind /\ Claiming /\ OneEnd
      BY <1>2 DEF ExclusionInv, RetentionInv, InProgress
    <2>2. CASE [Next]_vars
      <3>1. OneEnd'
        BY <2>1, <2>2, NextOneEnd
      <3> QED BY <2>1, <2>2, <3>1, StepImplements
    <2>3. CASE UNCHANGED <<coordination, removed>>
      <3>1. OneEnd'
        BY <2>1, <2>3 DEF coordination, OneEnd, At
      <3>2. ActiveRuns(log)' = ActiveRuns(log)
        BY <2>3 DEF coordination, ActiveRuns, Started, Ended, At, log
      <3>3. /\ [r \in Ended(history) |-> history[EndOf(r)].drained]'
                  = [r \in Ended(history) |-> history[EndOf(r)].drained]
            /\ {<<rm.run, rm.signal>> : rm \in removed}' = {<<rm.run, rm.signal>> : rm \in removed}
        BY <2>3 DEF coordination, Ended, EndOf, At
      <3> QED BY <3>1, <3>2, <3>3 DEF Exclusive!avars
    <2> QED BY <1>2, <2>2, <2>3, RetentionCases
  <1>3. ExclusionInv /\ [RetentionNext]_rvars => Claiming'
    BY NextClaims DEF ExclusionInv
  <1>4. RetentionSpec => [](RetentionInv /\ Claiming /\ OneEnd)
    BY <1>1, <1>2, <1>3, RetentionCorrect, PTL DEF RetentionSpec, ExclusionInv
  <1> QED BY <1>1, <1>2, <1>4, PTL
          DEF RetentionSpec, ExclusionInv, ImplementsExclusiveRuns, Exclusive!AbstractSpec
=============================================================================

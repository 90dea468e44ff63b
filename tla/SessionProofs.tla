--------------------------- MODULE SessionProofs ---------------------------
(***************************************************************************)
(* Theorems about SessionEnvironment.                                      *)
(***************************************************************************)
EXTENDS SessionEnvironment, SequenceTheorems, TLAPS

-----------------------------------------------------------------------------
(* The parts of the inductive invariant. *)

Pins == [decl: Declarations, stamp: {0, 1}]
OpRecords ==
    [stage: Stages, session: Sessions \cup {None}, decl: Declarations \cup {None},
     stamp: Nat, size: Nat, file: Files, before: Seq(Pieces), alone: BOOLEAN, hit: BOOLEAN,
     outcome: Outcomes]

Channels == [Sessions -> [pieces: Seq(Pieces), stamp: Nat]]

Typed ==
    /\ registry \in Declarations \cup {None}
    /\ creds \in [Declarations -> [readable: BOOLEAN, stamp: Nat]]
    /\ pin \in [Sessions -> Pins \cup {None}]
    /\ channel \in Channels
    /\ op \in [Processes -> OpRecords]

\* What an activation takes for granted: a declaration once it has resolved
\* one, a pin once it has seen one, and both the same once it has bound to it.
Seen == {"peeked", "unlink", "reread", "bind"}
BoundTo == {"channel", "values", "valued", "open", "opened", "write", "rest", "sync", "compare", "rollback"}

Holding(o) ==
    /\ o.stage # "idle" => o.session \in Sessions
    /\ o.stage \in {"pin", "publish"} => o.decl \in Declarations
    /\ o.stage \in Seen \cup BoundTo => pin[o.session] # None
    /\ o.stage \in BoundTo => o.decl = pin[o.session].decl
    /\ o.stage = "unlink" => pin[o.session].stamp = 0

AllHolding == \A p \in Processes : Holding(op[p])

\* The temporary name of a pin is removed by the one activation that linked it.
OnePublisher ==
    \A p, q \in Processes :
        At(p, "unlink") /\ At(q, "unlink") /\ Session(p) = Session(q) => p = q

SessionInv == Typed /\ AllHolding /\ OnePublisher /\ OneDeclaration

-----------------------------------------------------------------------------
(* What keeps the invariant. *)

\* An idle activation is an activation.
LEMMA IdleRecord == Idle \in OpRecords
  BY DEF Idle, OpRecords, Stages, Outcomes, Files

\* The pins stay, and nobody comes to hold what it must not, or to remove a
\* temporary name.
LEMMA PinsStay ==
    ASSUME SessionInv, UNCHANGED pin, Typed', OneDeclaration',
           \A q \in Processes :
               /\ Holding(op'[q])
               /\ op'[q].stage = "unlink" =>
                      op[q].stage = "unlink" /\ op'[q].session = op[q].session
    PROVE  SessionInv'
  <1>1. AllHolding'
    BY DEF AllHolding, Holding
  <1>2. OnePublisher'
    BY DEF SessionInv, OnePublisher, At, Session
  <1> QED BY <1>1, <1>2 DEF SessionInv

\* One activation moves on, and may have written to its file.
LEMMA OwnStep ==
    ASSUME SessionInv, NEW p \in Processes, op' \in [Processes -> OpRecords],
           \A q \in Processes \ {p} : op'[q] = op[q],
           Holding(op'[p]), op'[p].stage # "unlink",
           UNCHANGED <<registry, creds, pin>>, channel' \in Channels, OneDeclaration'
    PROVE  SessionInv'
  <1>1. Typed'
    BY DEF SessionInv, Typed
  <1>2. ASSUME NEW q \in Processes
        PROVE  /\ Holding(op'[q])
               /\ op'[q].stage = "unlink" =>
                      op[q].stage = "unlink" /\ op'[q].session = op[q].session
    BY DEF SessionInv, AllHolding
  <1> QED BY <1>1, <1>2, PinsStay

\* One activation moves on, and nothing else changes.
LEMMA QuietStep ==
    ASSUME SessionInv, NEW p \in Processes, op' \in [Processes -> OpRecords],
           \A q \in Processes \ {p} : op'[q] = op[q],
           Holding(op'[p]), op'[p].stage # "unlink",
           UNCHANGED <<registry, creds, pin, channel>>
    PROVE  SessionInv'
  <1>1. channel' \in Channels /\ OneDeclaration'
    BY DEF SessionInv, Typed, OneDeclaration
  <1> QED BY <1>1, OwnStep

\* What is known of an activation before it takes a step, and what End and Goto
\* make of it.
LEMMA Before ==
    ASSUME SessionInv, NEW p \in Processes
    PROVE  /\ op \in [Processes -> OpRecords] /\ op[p] \in OpRecords
           /\ Holding(op[p])
           /\ op[p].stage # "idle" => pin[op[p].session] \in Pins \cup {None}
  BY DEF SessionInv, Typed, AllHolding, Holding

\* Ending leaves an idle activation that takes nothing for granted.
LEMMA Ended ==
    ASSUME SessionInv, NEW p \in Processes, NEW outcome \in Outcomes, End(p, outcome)
    PROVE  /\ op' \in [Processes -> OpRecords] /\ op'[p].stage = "idle"
           /\ \A q \in Processes \ {p} : op'[q] = op[q]
           /\ Holding(op'[p])
  <1>1. op \in [Processes -> OpRecords]
    BY Before
  <1>2. op'[p] = IF ~op[p].alone \/ outcome = "none" THEN Idle
                 ELSE [op[p] EXCEPT !.stage = "idle", !.outcome = outcome]
    BY <1>1 DEF End
  <1>3. op'[p] \in OpRecords /\ op'[p].stage = "idle"
    <2>1. Idle.stage = "idle"
      BY DEF Idle
    <2>2. /\ [op[p] EXCEPT !.stage = "idle", !.outcome = outcome] \in OpRecords
          /\ [op[p] EXCEPT !.stage = "idle", !.outcome = outcome].stage = "idle"
      BY <1>1 DEF OpRecords, Stages
    <2> QED BY <1>2, <2>1, <2>2, IdleRecord
  <1>4. op' \in [Processes -> OpRecords] /\ \A q \in Processes \ {p} : op'[q] = op[q]
    BY <1>1, <1>3 DEF End
  <1>5. Holding(op'[p])
    BY <1>3 DEF Holding, Seen, BoundTo
  <1> QED BY <1>3, <1>4, <1>5

\* Going to another stage leaves the rest of the activation.
LEMMA Gone ==
    ASSUME SessionInv, NEW p \in Processes, NEW stage \in Stages, Goto(p, stage)
    PROVE  /\ op' \in [Processes -> OpRecords]
           /\ \A q \in Processes \ {p} : op'[q] = op[q]
           /\ op'[p] = [op[p] EXCEPT !.stage = stage]
           /\ op'[p].stage = stage /\ op'[p].session = op[p].session /\ op'[p].decl = op[p].decl
  <1>1. op \in [Processes -> OpRecords]
    BY Before
  <1> QED BY <1>1 DEF Goto, OpRecords

\* An activation notes the change stamp of a file.
LEMMA Stamps ==
    ASSUME SessionInv, NEW p \in Processes, NEW stage \in Stages, NEW stamp \in Nat,
           op' = [op EXCEPT ![p].stage = stage, ![p].stamp = stamp]
    PROVE  /\ op' \in [Processes -> OpRecords]
           /\ \A q \in Processes \ {p} : op'[q] = op[q]
           /\ op'[p].stage = stage /\ op'[p].session = op[p].session /\ op'[p].decl = op[p].decl
  <1>1. op \in [Processes -> OpRecords] /\ op[p] \in OpRecords
    BY Before
  <1>2. op'[p] = [op[p] EXCEPT !.stage = stage, !.stamp = stamp]
    BY <1>1
  <1>3. /\ op'[p] \in OpRecords /\ op'[p].stage = stage /\ op'[p].session = op[p].session
        /\ op'[p].decl = op[p].decl
    BY <1>1, <1>2 DEF OpRecords
  <1>4. \A q \in Processes \ {p} : op'[q] = op[q]
    BY <1>1
  <1>5. op' \in [Processes -> OpRecords]
    BY <1>1, <1>3, <1>4
  <1> QED BY <1>3, <1>4, <1>5

\* An activation takes a declaration.
LEMMA Declares ==
    ASSUME SessionInv, NEW p \in Processes, NEW stage \in Stages, NEW decl \in Declarations,
           op' = [op EXCEPT ![p].stage = stage, ![p].decl = decl]
    PROVE  /\ op' \in [Processes -> OpRecords]
           /\ \A q \in Processes \ {p} : op'[q] = op[q]
           /\ op'[p].stage = stage /\ op'[p].session = op[p].session /\ op'[p].decl = decl
  <1>1. op \in [Processes -> OpRecords] /\ op[p] \in OpRecords
    BY Before
  <1>2. op'[p] = [op[p] EXCEPT !.stage = stage, !.decl = decl]
    BY <1>1
  <1>3. /\ op'[p] \in OpRecords /\ op'[p].stage = stage /\ op'[p].session = op[p].session
        /\ op'[p].decl = decl
    BY <1>1, <1>2 DEF OpRecords
  <1>4. \A q \in Processes \ {p} : op'[q] = op[q]
    BY <1>1
  <1>5. op' \in [Processes -> OpRecords]
    BY <1>1, <1>3, <1>4
  <1> QED BY <1>3, <1>4, <1>5

-----------------------------------------------------------------------------
(* Each step keeps the invariant. *)

\* The invariant holds before the first activation.
LEMMA InitSession ==
    ASSUME Init
    PROVE  SessionInv
  <1>1. Typed
    BY SessionAssumption, IdleRecord DEF Init, Typed, Channels
  <1>2. AllHolding /\ OnePublisher
    BY DEF Init, AllHolding, Holding, OnePublisher, At, Idle, Seen, BoundTo
  <1>3. OneDeclaration
    BY DEF Init, OneDeclaration
  <1> QED BY <1>1, <1>2, <1>3 DEF SessionInv

\* A look at the pin decides whether the registry is asked; nothing changes.
LEMMA PeekStep ==
    ASSUME SessionInv, NEW p \in Processes, Peek(p)
    PROVE  SessionInv'
  <1>1. CASE Pin(p) = None
    <2>1. Goto(p, "resolve")
      BY <1>1 DEF Peek
    <2>2. Holding(op'[p])
      BY <2>1, Before, Gone DEF Peek, Holding, At, Seen, BoundTo, Stages
    <2> QED BY <2>1, <2>2, Gone, QuietStep DEF Peek, Stages
  <1>2. CASE Pin(p) # None
    <2>1. op' = [op EXCEPT ![p].stage = "peeked", ![p].stamp = Pin(p).stamp]
      BY <1>2 DEF Peek
    <2>2. Pin(p) \in Pins /\ op[p].session \in Sessions
      BY <1>2, Before DEF Peek, At, Pin, Session, Holding
    <2>3. /\ op' \in [Processes -> OpRecords] /\ op'[p].stage = "peeked"
          /\ op'[p].session = op[p].session
      BY <2>1, <2>2, Stamps DEF Stages, Pins
    <2>4. Holding(op'[p])
      BY <1>2, <2>2, <2>3 DEF Holding, Seen, BoundTo, Pin, Session
    <2> QED BY <2>1, <2>3, <2>4, QuietStep, Before DEF Peek
  <1> QED BY <1>1, <1>2

\* A pinned declaration is carried on instead of the one in the registry.
LEMMA PeekedStep ==
    ASSUME SessionInv, NEW p \in Processes, Peeked(p)
    PROVE  SessionInv'
  <1>1. CASE Same(p)
    <2>1. PICK d \in Declarations : d = Pin(p).decl
      BY Before DEF Peeked, At, Pin, Session, Holding, Seen, Pins
    <2>2. /\ op' = [op EXCEPT ![p].stage = "pin", ![p].decl = d]
          /\ op[p].session \in Sessions /\ "pin" \in Stages
      BY <1>1, <2>1, Before DEF Peeked, At, Holding, Stages
    <2>3. /\ op' \in [Processes -> OpRecords] /\ op'[p].stage = "pin"
          /\ op'[p].session = op[p].session /\ op'[p].decl = d
          /\ \A q \in Processes \ {p} : op'[q] = op[q]
      BY <2>2, Before DEF OpRecords
    <2>4. Holding(op'[p])
      BY <2>2, <2>3 DEF Holding, Seen, BoundTo
    <2> QED BY <2>3, <2>4, QuietStep DEF Peeked
  <1>2. CASE ~Same(p)
    BY <1>2, Ended, QuietStep DEF Peeked, Outcomes
  <1> QED BY <1>1, <1>2

\* The registry answers for a session that has no pin yet.
LEMMA ResolveStep ==
    ASSUME SessionInv, NEW p \in Processes, Resolve(p)
    PROVE  SessionInv'
  <1>1. CASE registry = None
    BY <1>1, Ended, QuietStep DEF Resolve, Outcomes
  <1>2. CASE registry # None
    <2>1. op' = [op EXCEPT ![p].stage = "pin", ![p].decl = registry]
      BY <1>2 DEF Resolve
    <2>2. registry \in Declarations /\ op[p].session \in Sessions /\ "pin" \in Stages
      BY <1>2, Before DEF Resolve, At, Holding, SessionInv, Typed, Stages
    <2>3. /\ op' \in [Processes -> OpRecords] /\ op'[p].stage = "pin"
          /\ op'[p].session = op[p].session /\ op'[p].decl \in Declarations
      BY <2>1, <2>2, Declares
    <2>4. Holding(op'[p])
      BY <2>2, <2>3 DEF Holding, Seen, BoundTo
    <2> QED BY <2>1, <2>3, <2>4, QuietStep, Before DEF Resolve
  <1> QED BY <1>1, <1>2

\* Whether there is a pin decides who publishes; nothing changes.
LEMMA CheckPinStep ==
    ASSUME SessionInv, NEW p \in Processes, CheckPin(p)
    PROVE  SessionInv'
  <1>1. Goto(p, IF Pin(p) = None THEN "publish" ELSE "reread")
    BY DEF CheckPin
  <1>2. (IF Pin(p) = None THEN "publish" ELSE "reread") \in Stages
    BY DEF Stages
  <1>3. Holding(op'[p]) /\ op'[p].stage # "unlink"
    BY <1>1, <1>2, Before, Gone DEF CheckPin, Holding, At, Seen, BoundTo, Pin, Session
  <1> QED BY <1>1, <1>2, <1>3, Gone, QuietStep DEF CheckPin

\* The pin that is there was published once and is never replaced.
LEMMA ReadPinStep ==
    ASSUME SessionInv, NEW p \in Processes, ReadPin(p)
    PROVE  SessionInv'
  <1>1. op' = [op EXCEPT ![p].stage = "bind", ![p].stamp = Pin(p).stamp]
    BY DEF ReadPin
  <1>2. /\ pin[op[p].session] # None /\ op[p].session \in Sessions
        /\ Pin(p).stamp \in Nat /\ "bind" \in Stages
    BY Before DEF ReadPin, At, Pin, Session, Holding, Seen, Pins, Stages
  <1>3. /\ op' \in [Processes -> OpRecords] /\ op'[p].stage = "bind"
        /\ op'[p].session = op[p].session
    BY <1>1, <1>2, Stamps
  <1>4. Holding(op'[p])
    BY <1>2, <1>3 DEF Holding, Seen, BoundTo
  <1> QED BY <1>1, <1>3, <1>4, QuietStep, Before DEF ReadPin

\* An activation goes on only with the declaration of the pin.
LEMMA BindStep ==
    ASSUME SessionInv, NEW p \in Processes, Bind(p)
    PROVE  SessionInv'
  <1>1. CASE Same(p)
    <2>1. PICK d \in Declarations : d = Pin(p).decl
      BY Before DEF Bind, At, Pin, Session, Holding, Seen, Pins
    <2>2. /\ op' = [op EXCEPT ![p].stage = "channel", ![p].decl = d]
          /\ pin[op[p].session] # None /\ op[p].session \in Sessions /\ "channel" \in Stages
      BY <1>1, <2>1, Before DEF Bind, At, Holding, Seen, Stages
    <2>3. /\ op' \in [Processes -> OpRecords] /\ op'[p].stage = "channel"
          /\ op'[p].session = op[p].session /\ op'[p].decl = d
          /\ \A q \in Processes \ {p} : op'[q] = op[q]
      BY <2>2, Before DEF OpRecords
    <2>4. Holding(op'[p])
      BY <2>1, <2>2, <2>3 DEF Holding, Seen, BoundTo, Pin, Session
    <2> QED BY <2>3, <2>4, QuietStep DEF Bind
  <1>2. CASE ~Same(p)
    BY <1>2, Ended, QuietStep DEF Bind, Outcomes
  <1> QED BY <1>1, <1>2

\* The steps that read values and files: the activation stays bound.
LEMMA BoundStep ==
    ASSUME SessionInv, NEW p \in Processes, op[p].stage \in BoundTo,
           op' \in [Processes -> OpRecords],
           \A q \in Processes \ {p} : op'[q] = op[q], op'[p].stage \in BoundTo,
           op'[p].session = op[p].session, op'[p].decl = op[p].decl, UNCHANGED pin
    PROVE  Holding(op'[p]) /\ op'[p].stage # "unlink"
  BY Before DEF Holding, Seen, BoundTo

\* The file that Claude names is noted.
LEMMA NameChannelStep ==
    ASSUME SessionInv, NEW p \in Processes, NEW file \in Files, NameChannel(p, file)
    PROVE  SessionInv'
  <1>1. /\ op \in [Processes -> OpRecords] /\ op[p] \in OpRecords
        /\ op[p].stage \in BoundTo /\ "values" \in Stages
    BY Before DEF NameChannel, At, BoundTo, Stages
  <1>2. op' = [op EXCEPT ![p].stage = "values", ![p].file = file]
    BY DEF NameChannel
  <1>3. op'[p] = [op[p] EXCEPT !.stage = "values", !.file = file]
    BY <1>1, <1>2
  <1>4. /\ op'[p] \in OpRecords /\ op'[p].stage = "values"
        /\ op'[p].session = op[p].session /\ op'[p].decl = op[p].decl
    BY <1>1, <1>3 DEF OpRecords
  <1>5. op' \in [Processes -> OpRecords] /\ \A q \in Processes \ {p} : op'[q] = op[q]
    BY <1>1, <1>2, <1>4
  <1>6. Holding(op'[p]) /\ op'[p].stage # "unlink"
    BY <1>1, <1>4, <1>5, BoundStep DEF BoundTo, NameChannel
  <1> QED BY <1>5, <1>6, QuietStep DEF NameChannel

\* The values are read; nothing changes.
LEMMA ReadValuesStep ==
    ASSUME SessionInv, NEW p \in Processes, ReadValues(p)
    PROVE  SessionInv'
  <1>1. CASE op[p].file # "unset" /\ Readable(p)
    <2>1. op' = [op EXCEPT ![p].stage = "valued", ![p].stamp = creds[op[p].decl].stamp]
      BY <1>1 DEF ReadValues
    <2>2. op[p].decl \in Declarations
      BY Before DEF ReadValues, At, Holding, BoundTo, Pins
    <2>3. creds[op[p].decl].stamp \in Nat /\ "valued" \in Stages
      BY <2>2 DEF SessionInv, Typed, Stages
    <2>4. /\ op' \in [Processes -> OpRecords] /\ op'[p].stage \in BoundTo
          /\ op'[p].session = op[p].session /\ op'[p].decl = op[p].decl
          /\ \A q \in Processes \ {p} : op'[q] = op[q]
      BY <2>1, <2>3, Stamps DEF BoundTo
    <2> QED BY <2>4, BoundStep, QuietStep DEF ReadValues, At, BoundTo
  <1>2. CASE ~(op[p].file # "unset" /\ Readable(p))
    BY <1>2, Ended, QuietStep DEF ReadValues, Outcomes
  <1> QED BY <1>1, <1>2

\* A step that goes from one of these stages to another one, or gives up.
LEMMA CompareStep ==
    ASSUME SessionInv, NEW p \in Processes, op[p].stage \in BoundTo, NEW stage \in BoundTo,
           Goto(p, stage) \/ (\E outcome \in Outcomes : End(p, outcome)),
           UNCHANGED <<registry, creds, pin, channel>>
    PROVE  SessionInv'
  <1>1. CASE Goto(p, stage)
    <2>1. stage \in Stages
      BY DEF BoundTo, Stages
    <2> QED BY <1>1, <2>1, Gone, BoundStep, QuietStep
  <1>2. CASE \E outcome \in Outcomes : End(p, outcome)
    BY <1>2, Ended, QuietStep
  <1> QED BY <1>1, <1>2

\* Comparisons of identities change nothing.
LEMMA ComparisonSteps ==
    ASSUME SessionInv, NEW p \in Processes,
           CompareValues(p) \/ CompareOpened(p) \/ CompareWritten(p)
    PROVE  SessionInv'
  <1>1. {"ok", "failed"} \subseteq Outcomes
    BY DEF Outcomes
  <1>2. CASE CompareValues(p)
    BY <1>1, <1>2, CompareStep DEF CompareValues, At, BoundTo
  <1>3. CASE CompareOpened(p)
    BY <1>1, <1>3, CompareStep DEF CompareOpened, At, BoundTo
  <1>4. CASE CompareWritten(p)
    BY <1>1, <1>4, CompareStep DEF CompareWritten, At, BoundTo
  <1> QED BY <1>2, <1>3, <1>4

\* The file that Claude names is opened, with its size noted.
LEMMA OpenStep ==
    ASSUME SessionInv, NEW p \in Processes, Open(p)
    PROVE  SessionInv'
  <1>1. /\ op \in [Processes -> OpRecords] /\ op[p] \in OpRecords
        /\ op[p].stage = "open" /\ op[p].session \in Sessions
    BY Before DEF Open, At, Holding
  <1>2. PICK stamp \in Nat, size \in Nat :
            op' = [op EXCEPT ![p].stage = "opened", ![p].stamp = stamp, ![p].size = size]
    <2>1. Channel(p).stamp \in Nat /\ Channel(p).pieces \in Seq(Pieces)
      BY <1>1 DEF SessionInv, Typed, Channels, Channel, Session
    <2>2. Len(Channel(p).pieces) \in Nat
      BY <2>1
    <2> QED BY <2>1, <2>2 DEF Open
  <1>3. op'[p] = [op[p] EXCEPT !.stage = "opened", !.stamp = stamp, !.size = size]
    BY <1>1, <1>2
  <1>4. "opened" \in Stages
    BY DEF Stages
  <1>5. /\ op'[p] \in OpRecords /\ op'[p].stage = "opened"
        /\ op'[p].session = op[p].session /\ op'[p].decl = op[p].decl
    BY <1>1, <1>3, <1>4 DEF OpRecords
  <1>6. op' \in [Processes -> OpRecords] /\ \A q \in Processes \ {p} : op'[q] = op[q]
    BY <1>1, <1>2, <1>5
  <1>7. Holding(op'[p]) /\ op'[p].stage # "unlink"
    BY <1>1, <1>5, <1>6, BoundStep DEF BoundTo, Open
  <1> QED BY <1>6, <1>7, QuietStep DEF Open

\* A sync changes nothing that can be seen.
LEMMA SyncStep ==
    ASSUME SessionInv, NEW p \in Processes, Sync(p)
    PROVE  SessionInv'
  <1>1. op[p].stage = "sync" /\ op[p].session \in Sessions
    BY Before DEF Sync, At, Holding
  <1>2. Channel(p).stamp \in Nat /\ "compare" \in Stages
    BY <1>1 DEF SessionInv, Typed, Channels, Channel, Session, Stages
  <1>3. op' = [op EXCEPT ![p].stage = "compare", ![p].stamp = Channel(p).stamp]
    BY DEF Sync
  <1>4. /\ op' \in [Processes -> OpRecords] /\ op'[p].stage \in BoundTo
        /\ op'[p].session = op[p].session /\ op'[p].decl = op[p].decl
        /\ \A q \in Processes \ {p} : op'[q] = op[q]
    BY <1>2, <1>3, Stamps DEF BoundTo
  <1> QED BY <1>1, <1>4, BoundStep, QuietStep DEF Sync, BoundTo

-----------------------------------------------------------------------------
(* Steps that write a pin. *)

\* A link publishes a pin only where none is.
LEMMA PublishStep ==
    ASSUME SessionInv, NEW p \in Processes, Publish(p)
    PROVE  SessionInv'
  <1>1. /\ op[p].stage = "publish" /\ op[p].session \in Sessions /\ op[p].decl \in Declarations
    BY Before DEF Publish, At, Holding
  <1>2. CASE Pin(p) # None
    <2>1. Goto(p, "reread") /\ "reread" \in Stages /\ UNCHANGED <<registry, creds, pin, channel>>
      BY <1>2 DEF Publish, Stages
    <2>2. Holding(op'[p])
      BY <1>1, <1>2, <2>1, Gone DEF Holding, Seen, BoundTo, Pin, Session
    <2> QED BY <2>1, <2>2, Gone, QuietStep
  <1>3. CASE Pin(p) = None
    <2> DEFINE s == op[p].session
    <2>1. /\ Goto(p, "unlink") /\ "unlink" \in Stages /\ UNCHANGED <<registry, creds, channel>>
          /\ pin' = [pin EXCEPT ![s] = Pinned(op[p].decl)]
      BY <1>3 DEF Publish, Stages, Session
    <2>2. Pinned(op[p].decl) \in Pins
      BY <1>1 DEF Pinned, Pins
    <2>3. /\ pin \in [Sessions -> Pins \cup {None}]
          /\ pin' \in [Sessions -> Pins \cup {None}]
      BY <2>1, <2>2 DEF SessionInv, Typed
    <2>4. /\ pin'[s] # None /\ pin'[s].stamp = 0
          /\ \A z \in Sessions : pin[z] # None => pin'[z] = pin[z]
      BY <1>1, <1>3, <2>1, <2>2, <2>3, SessionAssumption DEF Pin, Session, Pinned, Pins
    <2>5. Typed'
      BY <2>1, <2>3, Gone DEF SessionInv, Typed
    <2>6. \A q \in Processes : op[q].stage = "unlink" => op[q].session # s
      BY <1>3 DEF SessionInv, AllHolding, Holding, Seen, Pin, Session
    <2>7. AllHolding'
      <3>1. ASSUME NEW q \in Processes \ {p}
            PROVE  Holding(op[q])'
        <4>1. op'[q] = op[q] /\ Holding(op[q])
          BY <2>1, Gone, Before
        <4> QED BY <2>4, <4>1 DEF Holding, Seen, BoundTo
      <3>2. Holding(op[p])'
        BY <1>1, <2>1, <2>4, Gone DEF Holding, Seen, BoundTo
      <3> QED BY <3>1, <3>2 DEF AllHolding
    <2>8. OnePublisher'
      <3>1. \A q \in Processes : q = p \/ op'[q] = op[q]
        BY <2>1, Gone
      <3>2. op'[p].session = s
        BY <2>1, Gone
      <3> QED BY <2>6, <3>1, <3>2 DEF SessionInv, OnePublisher, At, Session
    <2>9. OneDeclaration'
      BY <2>1, <2>4 DEF SessionInv, OneDeclaration
    <2> QED BY <2>5, <2>7, <2>8, <2>9 DEF SessionInv
  <1> QED BY <1>2, <1>3

\* The temporary name of a pin is removed by the one who made it.
LEMMA UnlinkStep ==
    ASSUME SessionInv, NEW p \in Processes, UnlinkTemporary(p)
    PROVE  SessionInv'
  <1> DEFINE s == op[p].session
  <1>1. /\ op[p].stage = "unlink" /\ s \in Sessions /\ pin[s] \in Pins /\ pin[s].stamp = 0
        /\ pin[s] # None
    BY Before DEF UnlinkTemporary, At, Holding, Seen
  <1>2. /\ Goto(p, "reread") /\ "reread" \in Stages /\ UNCHANGED <<registry, creds, channel>>
        /\ pin' = [pin EXCEPT ![s].stamp = @ + 1]
    BY DEF UnlinkTemporary, Session, Stages
  <1>3. pin \in [Sessions -> Pins \cup {None}]
    BY DEF SessionInv, Typed
  <1>4. pin'[s] \in Pins /\ pin'[s].decl = pin[s].decl
    BY <1>1, <1>2, <1>3 DEF Pins
  <1>5. /\ pin' \in [Sessions -> Pins \cup {None}] /\ pin'[s] # None
        /\ \A z \in Sessions \ {s} : pin'[z] = pin[z]
    BY <1>1, <1>2, <1>3, <1>4, SessionAssumption DEF Pins
  <1>6. Typed'
    BY <1>2, <1>5, Gone DEF SessionInv, Typed
  <1>7. AllHolding'
    <2>1. ASSUME NEW q \in Processes \ {p}
          PROVE  Holding(op[q])'
      <3>1. op'[q] = op[q] /\ Holding(op[q])
        BY <1>2, Gone, Before
      <3>2. op[q].stage = "unlink" => op[q].session # s
        BY <1>1 DEF SessionInv, OnePublisher, At, Session
      <3> QED BY <1>4, <1>5, <3>1, <3>2 DEF Holding, Seen, BoundTo
    <2>2. op'[p].stage = "reread" /\ op'[p].session = s
      BY <1>2, Gone
    <2>3. Holding(op[p])'
      BY <1>1, <1>5, <2>2 DEF Holding, Seen, BoundTo
    <2> QED BY <2>1, <2>3 DEF AllHolding
  <1>8. OnePublisher'
    <2>1. \A q \in Processes : q = p \/ op'[q] = op[q]
      BY <1>2, Gone
    <2>2. op'[p].stage = "reread"
      BY <1>2, Gone
    <2> QED BY <2>1, <2>2 DEF SessionInv, OnePublisher, At, Session
  <1>9. OneDeclaration'
    BY <1>2, <1>4, <1>5 DEF SessionInv, OneDeclaration
  <1> QED BY <1>6, <1>7, <1>8, <1>9 DEF SessionInv

-----------------------------------------------------------------------------
(* Steps that write to the file of a session. *)

\* The exports among some pieces are those of the declaration of the pin.
Lawful(s, pieces) ==
    \A i \in 1..Len(pieces) :
        pieces[i].kind = "half" => pin[s] # None /\ pieces[i].decl = pin[s].decl

\* What is found in a file are exports of the pinned declaration.
LEMMA FoundLawful ==
    ASSUME SessionInv, NEW s \in Sessions
    PROVE  channel[s].pieces \in Seq(Pieces) /\ Lawful(s, channel[s].pieces)
  <1>1. channel[s].pieces \in Seq(Pieces)
    BY DEF SessionInv, Typed, Channels
  <1>2. DOMAIN channel[s].pieces = 1..Len(channel[s].pieces)
    BY <1>1
  <1> QED BY <1>1, <1>2 DEF SessionInv, OneDeclaration, Lawful

\* The pieces that no activation writes are no half of an export.
LEMMA OtherPieces == Other \in Pieces /\ Zeros \in Pieces /\ Other.kind # "half" /\ Zeros.kind # "half"
  BY DEF Other, Zeros, Pieces

\* A piece of the pinned declaration may be appended.
LEMMA AppendLawful ==
    ASSUME NEW s \in Sessions, NEW pieces \in Seq(Pieces), Lawful(s, pieces), NEW piece \in Pieces,
           piece.kind = "half" => pin[s] # None /\ piece.decl = pin[s].decl
    PROVE  Append(pieces, piece) \in Seq(Pieces) /\ Lawful(s, Append(pieces, piece))
  BY DEF Lawful

\* A file of lawful pieces keeps to one declaration.
LEMMA PutLawful ==
    ASSUME SessionInv, NEW s \in Sessions, NEW pieces \in Seq(Pieces), Lawful(s, pieces),
           UNCHANGED pin, Put(s, pieces)
    PROVE  channel' \in Channels /\ OneDeclaration'
  <1>1. channel \in Channels
    BY DEF SessionInv, Typed
  <1>2. channel' = [channel EXCEPT ![s] = [pieces |-> pieces, stamp |-> channel[s].stamp + 1]]
    BY DEF Put
  <1>3. channel[s].stamp + 1 \in Nat
    BY <1>1 DEF Channels
  <1>4. channel' \in Channels
    BY <1>1, <1>2, <1>3 DEF Channels
  <1>5. channel'[s].pieces = pieces /\ \A z \in Sessions \ {s} : channel'[z] = channel[z]
    BY <1>1, <1>2 DEF Channels
  <1>6. DOMAIN pieces = 1..Len(pieces)
    OBVIOUS
  <1>7. OneDeclaration'
    BY <1>5, <1>6 DEF SessionInv, OneDeclaration, Lawful
  <1> QED BY <1>4, <1>7

\* What an activation that has bound itself adds is lawful.
LEMMA ExportsLawful ==
    ASSUME SessionInv, NEW p \in Processes, op[p].stage \in BoundTo
    PROVE  /\ op[p].session \in Sessions
           /\ \A n \in {1, 2} :
                 /\ Half(op[p].decl, n) \in Pieces
                 /\ pin[op[p].session] # None
                 /\ Half(op[p].decl, n).decl = pin[op[p].session].decl
  BY Before DEF Holding, BoundTo, Half, Pieces, Pins

\* The exports that are written are of the pinned declaration.
LEMMA WriteExportsStep ==
    ASSUME SessionInv, NEW p \in Processes, WriteExports(p)
    PROVE  SessionInv'
  <1> DEFINE s == op[p].session
             found == channel[s].pieces
             half(n) == Half(op[p].decl, n)
             first == IF op[p].stage = "write" THEN Append(found, half(1)) ELSE found
  <1>1. op[p].stage \in BoundTo
    BY DEF WriteExports, BoundTo
  <1>2. s \in Sessions /\ found \in Seq(Pieces) /\ Lawful(s, found)
    BY <1>1, ExportsLawful, FoundLawful
  <1>3. first \in Seq(Pieces) /\ Lawful(s, first)
    BY <1>1, <1>2, ExportsLawful, AppendLawful
  <1>4. Append(first, half(2)) \in Seq(Pieces) /\ Lawful(s, Append(first, half(2)))
    BY <1>1, <1>2, <1>3, ExportsLawful, AppendLawful
  <1>5. Put(s, found \o (IF op[p].stage = "write" THEN <<half(1)>> ELSE <<>>) \o <<half(2)>>)
    BY DEF WriteExports, Session, Channel, At
  <1>6. found \o (IF op[p].stage = "write" THEN <<half(1)>> ELSE <<>>) \o <<half(2)>>
            = Append(first, half(2))
    <2>1. half(1) \in Pieces /\ half(2) \in Pieces
      BY <1>1, ExportsLawful
    <2> HIDE DEF half, found
    <2>2. found \o (IF op[p].stage = "write" THEN <<half(1)>> ELSE <<>>) = first
      BY <1>2, <2>1
    <2>3. first \o <<half(2)>> = Append(first, half(2))
      BY <1>3, <2>1
    <2> QED BY <2>2, <2>3
  <1>7. channel' \in Channels /\ OneDeclaration'
    BY <1>2, <1>4, <1>5, <1>6, PutLawful DEF WriteExports
  <1>8. Goto(p, "sync") /\ "sync" \in Stages /\ "sync" \in BoundTo
    BY DEF WriteExports, Stages, BoundTo
  <1>9. Holding(op'[p]) /\ op'[p].stage # "unlink"
    BY <1>1, <1>8, Gone, BoundStep DEF WriteExports
  <1> QED BY <1>7, <1>8, <1>9, Gone, OwnStep DEF WriteExports

\* So is the half that a short write leaves.
LEMMA ShortWriteStep ==
    ASSUME SessionInv, NEW p \in Processes, ShortWrite(p)
    PROVE  SessionInv'
  <1> DEFINE s == op[p].session
  <1>1. op[p].stage \in BoundTo
    BY DEF ShortWrite, At, BoundTo
  <1>2. s \in Sessions /\ channel[s].pieces \in Seq(Pieces) /\ Lawful(s, channel[s].pieces)
    BY <1>1, ExportsLawful, FoundLawful
  <1>3. Append(channel[s].pieces, Half(op[p].decl, 1)) \in Seq(Pieces)
    /\ Lawful(s, Append(channel[s].pieces, Half(op[p].decl, 1)))
    BY <1>1, <1>2, ExportsLawful, AppendLawful
  <1>4. channel' \in Channels /\ OneDeclaration'
    BY <1>2, <1>3, PutLawful DEF ShortWrite, Session, Channel
  <1>5. Goto(p, "rest") /\ "rest" \in Stages /\ "rest" \in BoundTo
    BY DEF ShortWrite, Stages, BoundTo
  <1>6. Holding(op'[p]) /\ op'[p].stage # "unlink"
    BY <1>1, <1>5, Gone, BoundStep DEF ShortWrite
  <1> QED BY <1>4, <1>5, <1>6, Gone, OwnStep DEF ShortWrite

\* A roll-back cuts the file, or fills it with zeros, and adds no export.
LEMMA RollbackStep ==
    ASSUME SessionInv, NEW p \in Processes, Rollback(p)
    PROVE  SessionInv'
  <1> DEFINE s == op[p].session
             now == channel[s].pieces
             size == op[p].size
             zeros == [i \in 1..(size - Len(now)) |-> Zeros]
             left == IF size <= Len(now) THEN SubSeq(now, 1, size) ELSE now \o zeros
  <1>1. s \in Sessions /\ size \in Nat
    BY Before DEF Rollback, At, Holding, OpRecords
  <1>2. now \in Seq(Pieces) /\ Lawful(s, now) /\ Len(now) \in Nat
    BY <1>1, FoundLawful
  <1>3. left \in Seq(Pieces) /\ Lawful(s, left)
    <2>1. CASE size <= Len(now)
      <3> HIDE DEF now, size
      <3>1. /\ SubSeq(now, 1, size) \in Seq(Pieces) /\ Len(SubSeq(now, 1, size)) = size
            /\ \A i \in 1..size : SubSeq(now, 1, size)[i] = now[i]
        BY <1>1, <1>2, <2>1
      <3> QED BY <1>1, <1>2, <2>1, <3>1 DEF Lawful
    <2>2. CASE ~(size <= Len(now))
      <3>1. zeros \in Seq(Pieces) /\ Len(zeros) = size - Len(now)
            /\ \A i \in 1..Len(zeros) : zeros[i] = Zeros
        BY <1>1, <1>2, <2>2, OtherPieces
      <3> HIDE DEF now, size, zeros
      <3>2. /\ now \o zeros \in Seq(Pieces) /\ Len(now \o zeros) = Len(now) + Len(zeros)
            /\ \A i \in 1..Len(now \o zeros) :
                  (now \o zeros)[i] = IF i <= Len(now) THEN now[i] ELSE zeros[i - Len(now)]
        BY <1>2, <3>1
      <3>3. \A i \in 1..Len(now \o zeros) : i <= Len(now) \/ i - Len(now) \in 1..Len(zeros)
        BY <1>1, <1>2, <3>1, <3>2
      <3>4. Lawful(s, now \o zeros)
        BY <1>2, <3>1, <3>2, <3>3, OtherPieces DEF Lawful
      <3> QED BY <2>2, <3>2, <3>4
    <2> QED BY <2>1, <2>2
  <1>4. Put(s, left)
    BY DEF Rollback, Session, Channel
  <1>5. channel' \in Channels /\ OneDeclaration'
    <2> HIDE DEF left
    <2> QED BY <1>1, <1>3, <1>4, PutLawful DEF Rollback
  <1>6. End(p, "failed") /\ "failed" \in Outcomes /\ UNCHANGED <<registry, creds, pin>>
    BY DEF Rollback, Outcomes
  <1> QED BY <1>5, <1>6, Ended, OwnStep

-----------------------------------------------------------------------------
(* Faults, the beginning of an activation, and what others do. *)

\* An activation may be forgotten at any stage.
LEMMA ForgottenStep ==
    ASSUME SessionInv, NEW p \in Processes, op' = [op EXCEPT ![p] = Idle],
           UNCHANGED <<registry, creds, pin, channel>>
    PROVE  SessionInv'
  <1>1. Idle.stage = "idle"
    BY DEF Idle
  <1>2. Holding(Idle)
    BY <1>1 DEF Holding, Seen, BoundTo
  <1>3. /\ op' \in [Processes -> OpRecords] /\ op'[p] = Idle
        /\ \A q \in Processes \ {p} : op'[q] = op[q]
    BY IdleRecord, Before
  <1> QED BY <1>1, <1>2, <1>3, QuietStep

\* A failing call ends the activation or leads to its roll-back.
LEMMA FaultStep ==
    ASSUME SessionInv, NEW p \in Processes, Fault(p)
    PROVE  SessionInv'
  <1> DEFINE failing == {"write", "rest", "sync", "compare"}
  <1>1. CASE op[p].stage \in failing
    <2>1. op' = [op EXCEPT ![p].stage = "rollback", ![p].hit = TRUE]
      BY <1>1 DEF Fault, At
    <2>2. op \in [Processes -> OpRecords] /\ op[p] \in OpRecords /\ "rollback" \in Stages
      BY Before DEF Stages
    <2>3. op'[p] = [op[p] EXCEPT !.stage = "rollback", !.hit = TRUE]
      BY <2>1, <2>2
    <2>4. /\ op'[p] \in OpRecords /\ op'[p].stage = "rollback"
          /\ op'[p].session = op[p].session /\ op'[p].decl = op[p].decl
      BY <2>2, <2>3 DEF OpRecords
    <2>5. op' \in [Processes -> OpRecords] /\ \A q \in Processes \ {p} : op'[q] = op[q]
      BY <2>1, <2>2, <2>4
    <2>6. Holding(op'[p]) /\ op'[p].stage # "unlink"
      BY <1>1, <2>4, <2>5, BoundStep DEF BoundTo, Fault
    <2> QED BY <2>5, <2>6, QuietStep DEF Fault
  <1>2. CASE op[p].stage = "rollback"
    BY <1>2, Ended, QuietStep DEF Fault, At, Outcomes
  <1>3. CASE op[p].stage \notin failing \cup {"rollback"}
    BY <1>3, ForgottenStep DEF Fault, At
  <1> QED BY <1>1, <1>2, <1>3

\* A killed activation leaves the files as they are.
LEMMA KillStep ==
    ASSUME SessionInv, NEW p \in Processes, Kill(p)
    PROVE  SessionInv'
  BY ForgottenStep DEF Kill

\* Disturbed activations know what they knew, or are forgotten.
LEMMA DisturbedHolds ==
    ASSUME SessionInv
    PROVE  /\ Disturbed(op) \in [Processes -> OpRecords]
           /\ \A q \in Processes :
                 /\ Holding(Disturbed(op)[q])
                 /\ Disturbed(op)[q].stage = "unlink" =>
                        /\ op[q].stage = "unlink"
                        /\ Disturbed(op)[q].session = op[q].session
  <1>1. ASSUME NEW q \in Processes
        PROVE  /\ Disturbed(op)[q] \in OpRecords
               /\ Holding(Disturbed(op)[q])
               /\ Disturbed(op)[q].stage = "unlink" =>
                      op[q].stage = "unlink" /\ Disturbed(op)[q].session = op[q].session
    <2>1. op[q] \in OpRecords /\ Holding(op[q])
      BY Before
    <2>2. Idle.stage = "idle"
      BY DEF Idle
    <2>3. CASE op[q].stage = "idle"
      <3>1. Disturbed(op)[q] = Idle
        BY <2>3 DEF Disturbed
      <3> QED BY <2>2, <3>1, IdleRecord DEF Holding, Seen, BoundTo
    <2>4. CASE op[q].stage # "idle"
      <3>1. Disturbed(op)[q] = [op[q] EXCEPT !.alone = FALSE]
        BY <2>4 DEF Disturbed
      <3>2. /\ Disturbed(op)[q] \in OpRecords /\ Disturbed(op)[q].stage = op[q].stage
            /\ Disturbed(op)[q].session = op[q].session /\ Disturbed(op)[q].decl = op[q].decl
        BY <2>1, <3>1 DEF OpRecords
      <3> QED BY <2>1, <3>2 DEF Holding
    <2> QED BY <2>3, <2>4
  <1>2. Disturbed(op) \in [Processes -> OpRecords]
    BY <1>1 DEF Disturbed
  <1> QED BY <1>1, <1>2

\* An activation begins with nothing taken for granted.
LEMMA ActivateStep ==
    ASSUME SessionInv, NEW p \in Processes, NEW s \in Sessions,
           NEW given \in Declarations \cup {None}, Activate(p, s, given)
    PROVE  SessionInv'
  <1>1. /\ Disturbed(op) \in [Processes -> OpRecords]
        /\ \A q \in Processes :
              /\ Holding(Disturbed(op)[q])
              /\ Disturbed(op)[q].stage = "unlink" =>
                     op[q].stage = "unlink" /\ Disturbed(op)[q].session = op[q].session
    BY DisturbedHolds
  <1>2. PICK stage \in {"peek", "pin"}, before \in Seq(Pieces), alone \in BOOLEAN :
          /\ stage = "pin" => given # None
          /\ op' = [Disturbed(op) EXCEPT ![p] =
                      [Idle EXCEPT !.stage = stage, !.session = s, !.decl = given,
                                   !.before = before, !.alone = alone]]
    <2>1. channel[s].pieces \in Seq(Pieces)
      BY DEF SessionInv, Typed, Channels
    <2>2. (\A q \in Processes : At(q, "idle")) \in BOOLEAN
      OBVIOUS
    <2> QED BY <2>1, <2>2 DEF Activate
  <1> DEFINE o == [Idle EXCEPT !.stage = stage, !.session = s, !.decl = given,
                               !.before = before, !.alone = alone]
  <1>3. /\ o \in OpRecords /\ o.stage = stage /\ o.session = s /\ o.decl = given
    BY IdleRecord DEF OpRecords, Stages
  <1>4. Holding(o)
    BY <1>2, <1>3 DEF Holding, Seen, BoundTo
  <1> HIDE DEF o
  <1>5. op' \in [Processes -> OpRecords] /\ op'[p] = o
        /\ \A q \in Processes \ {p} : op'[q] = Disturbed(op)[q]
    BY <1>1, <1>2, <1>3 DEF o
  <1>6. Typed' /\ OneDeclaration'
    BY <1>5 DEF Activate, SessionInv, Typed, OneDeclaration
  <1> QED BY <1>1, <1>3, <1>4, <1>5, <1>6, PinsStay DEF Activate

\* An edit of the registry does not reach a pin.
LEMMA EditRegistryStep ==
    ASSUME SessionInv, NEW d \in Declarations \cup {None}, EditRegistry(d)
    PROVE  SessionInv'
  <1>1. Typed' /\ OneDeclaration'
    BY DEF EditRegistry, SessionInv, Typed, OneDeclaration
  <1> QED BY <1>1, Before, PinsStay DEF EditRegistry

\* Nor does an edit of credentials.
LEMMA EditCredentialsStep ==
    ASSUME SessionInv, NEW d \in Declarations, NEW readable \in BOOLEAN,
           EditCredentials(d, readable)
    PROVE  SessionInv'
  <1>1. creds' \in [Declarations -> [readable: BOOLEAN, stamp: Nat]]
    BY DEF EditCredentials, SessionInv, Typed
  <1>2. Typed' /\ OneDeclaration'
    BY <1>1, DisturbedHolds DEF EditCredentials, SessionInv, Typed, OneDeclaration
  <1> QED BY <1>2, DisturbedHolds, PinsStay DEF EditCredentials

\* Other hooks append no export of a profile.
LEMMA AppendOtherStep ==
    ASSUME SessionInv, NEW s \in Sessions, AppendOther(s)
    PROVE  SessionInv'
  <1>1. channel[s].pieces \in Seq(Pieces) /\ Lawful(s, channel[s].pieces)
    BY FoundLawful
  <1>2. /\ Append(channel[s].pieces, Other) \in Seq(Pieces)
        /\ Lawful(s, Append(channel[s].pieces, Other))
    BY <1>1, OtherPieces, AppendLawful
  <1>3. channel' \in Channels /\ OneDeclaration'
    BY <1>2, PutLawful DEF AppendOther
  <1>4. Typed'
    BY <1>3, DisturbedHolds DEF AppendOther, SessionInv, Typed
  <1> QED BY <1>3, <1>4, DisturbedHolds, PinsStay DEF AppendOther

\* Nothing changes.
LEMMA StutterSession ==
    ASSUME SessionInv, UNCHANGED vars
    PROVE  SessionInv'
  <1>1. Typed' /\ OneDeclaration'
    BY DEF vars, SessionInv, Typed, OneDeclaration
  <1> QED BY <1>1, Before, PinsStay DEF vars

-----------------------------------------------------------------------------
(* Theorems. *)

\* Every step keeps the invariant.
LEMMA SessionInduction ==
    ASSUME SessionInv, [Next]_vars
    PROVE  SessionInv'
  <1>1. ASSUME NEW p \in Processes, Step(p)
        PROVE  SessionInv'
    BY <1>1, PeekStep, PeekedStep, ResolveStep, CheckPinStep, PublishStep, UnlinkStep,
       ReadPinStep, BindStep, NameChannelStep, ReadValuesStep, ComparisonSteps, OpenStep, WriteExportsStep,
       ShortWriteStep, SyncStep, RollbackStep, FaultStep, KillStep DEF Step
  <1>2. CASE Next
    BY <1>1, <1>2, ActivateStep, EditRegistryStep, EditCredentialsStep, AppendOtherStep DEF Next
  <1> QED BY <1>2, StutterSession

\* The inductive invariant of the activations holds in every reachable state.
THEOREM SessionInvariant == Spec => []SessionInv
  BY InitSession, SessionInduction, PTL DEF Spec

\* Every reachable state of the activations is well typed, for any sessions,
\* declarations and number of hooks; a pin is never touched once its temporary
\* name is gone.
THEOREM SessionTypeCorrect == Spec => []SessionTypeOK
  <1>1. SessionInv => SessionTypeOK
    BY DEF SessionInv, Typed, Channels, Pins, OpRecords, SessionTypeOK
  <1> QED BY <1>1, SessionInvariant, PTL

\* A session only ever has exports of the declaration it is pinned to, however
\* many activations race for the pin, fail, come short or are killed.
THEOREM OneDeclarationEver == Spec => []OneDeclaration
  <1>1. SessionInv => OneDeclaration
    BY DEF SessionInv
  <1> QED BY <1>1, SessionInvariant, PTL

-----------------------------------------------------------------------------
(* An activation that nobody disturbs. *)

\* What such an activation finds at each stage: the file as it was when it began,
\* what it noted of the pin, of credentials or of the file, and how much of its
\* exports it has written.
Unwritten == {"peek", "peeked", "resolve", "pin", "publish", "unlink", "reread", "bind",
              "channel", "values", "valued", "open", "opened", "write"}
Opened == {"opened", "write", "rest", "sync", "compare", "rollback"}
Partly(o) == Append(o.before, Half(o.decl, 1))
Wholly(o) == o.before \o Exports(o.decl)

Calm(o) ==
    /\ o.stage \in Unwritten => channel[o.session].pieces = o.before
    /\ o.stage \in {"peeked", "bind"} => pin[o.session].stamp = o.stamp
    /\ o.stage = "valued" => creds[o.decl].stamp = o.stamp
    /\ o.stage \in {"opened", "compare"} => channel[o.session].stamp = o.stamp
    /\ o.stage \in Opened => o.size = Len(o.before)
    /\ o.stage = "rest" => channel[o.session].pieces = Partly(o)
    /\ o.stage \in {"sync", "compare"} => channel[o.session].pieces = Wholly(o)
    /\ o.stage = "rollback" =>
           o.hit /\ channel[o.session].pieces \in {o.before, Partly(o), Wholly(o)}
    /\ o.stage = "idle" /\ o.outcome = "ok" => channel[o.session].pieces = Wholly(o)
    /\ o.stage = "idle" /\ o.outcome = "failed" =>
           /\ channel[o.session].pieces = o.before
           /\ o.hit \/ ~creds[o.decl].readable \/ o.file # "private"

AllCalm == \A p \in Processes : op[p].alone => Calm(op[p])

\* Nobody else is at work while an activation is alone, nor since it ended so.
Alone == \A p, q \in Processes : op[p].alone /\ p # q => op[q].stage = "idle"

SettledInv == SessionInv /\ Alone /\ AllCalm

\* Only the activation that takes a step can be alone: the others would have
\* found it idle.
LEMMA SoleStep ==
    ASSUME SettledInv, NEW p \in Processes, op[p].stage # "idle",
           \A q \in Processes \ {p} : op'[q] = op[q],
           op'[p].alone => op[p].alone,
           op[p].alone /\ op'[p].alone => Calm(op[p])'
    PROVE  Alone' /\ AllCalm'
  <1>1. \A q \in Processes \ {p} : ~op'[q].alone
    BY DEF SettledInv, Alone
  <1>2. op'[p].alone => \A q \in Processes \ {p} : op'[q].stage = "idle"
    BY DEF SettledInv, Alone
  <1>3. Alone'
    BY <1>1, <1>2 DEF Alone
  <1>4. AllCalm'
    BY <1>1 DEF AllCalm
  <1> QED BY <1>3, <1>4

\* What an activation keeps of its own when it goes on or ends.
Keeps(o, n) ==
    /\ n.session = o.session /\ n.before = o.before /\ n.size = o.size
    /\ n.alone = o.alone /\ n.hit = o.hit

\* Going to another stage keeps what an activation has noted.
LEMMA GoneKeeps ==
    ASSUME SessionInv, NEW p \in Processes, NEW stage \in Stages, Goto(p, stage)
    PROVE  /\ \A q \in Processes \ {p} : op'[q] = op[q]
           /\ Keeps(op[p], op'[p])
           /\ op'[p].stage = stage /\ op'[p].decl = op[p].decl /\ op'[p].stamp = op[p].stamp
  <1>1. op \in [Processes -> OpRecords] /\ op[p] \in OpRecords
    BY Before
  <1>2. op'[p] = [op[p] EXCEPT !.stage = stage] /\ \A q \in Processes \ {p} : op'[q] = op[q]
    BY <1>1 DEF Goto
  <1> QED BY <1>1, <1>2 DEF OpRecords, Keeps

\* So does noting a stamp.
LEMMA StampsKeeps ==
    ASSUME SessionInv, NEW p \in Processes, NEW stage \in Stages, NEW stamp,
           op' = [op EXCEPT ![p].stage = stage, ![p].stamp = stamp]
    PROVE  /\ \A q \in Processes \ {p} : op'[q] = op[q]
           /\ Keeps(op[p], op'[p])
           /\ op'[p].stage = stage /\ op'[p].decl = op[p].decl /\ op'[p].stamp = stamp
  <1>1. op \in [Processes -> OpRecords] /\ op[p] \in OpRecords
    BY Before
  <1>2. op'[p] = [op[p] EXCEPT !.stage = stage, !.stamp = stamp]
    BY <1>1
  <1>3. \A q \in Processes \ {p} : op'[q] = op[q]
    BY <1>1
  <1> QED BY <1>1, <1>2, <1>3 DEF OpRecords, Keeps

\* So does taking a declaration.
LEMMA DeclaresKeeps ==
    ASSUME SessionInv, NEW p \in Processes, NEW stage \in Stages, NEW decl,
           op' = [op EXCEPT ![p].stage = stage, ![p].decl = decl]
    PROVE  /\ \A q \in Processes \ {p} : op'[q] = op[q]
           /\ Keeps(op[p], op'[p])
           /\ op'[p].stage = stage /\ op'[p].decl = decl /\ op'[p].stamp = op[p].stamp
  <1>1. op \in [Processes -> OpRecords] /\ op[p] \in OpRecords
    BY Before
  <1>2. op'[p] = [op[p] EXCEPT !.stage = stage, !.decl = decl]
    BY <1>1
  <1>3. \A q \in Processes \ {p} : op'[q] = op[q]
    BY <1>1
  <1> QED BY <1>1, <1>2, <1>3 DEF OpRecords, Keeps

\* An activation that is still alone keeps its notes when it ends, with its outcome.
LEMMA EndedKeeps ==
    ASSUME SessionInv, NEW p \in Processes, NEW outcome \in Outcomes, End(p, outcome)
    PROVE  /\ \A q \in Processes \ {p} : op'[q] = op[q]
           /\ op'[p].stage = "idle"
           /\ op'[p].alone =>
                 /\ Keeps(op[p], op'[p])
                 /\ op'[p].decl = op[p].decl /\ op'[p].file = op[p].file
                 /\ op'[p].outcome = outcome /\ outcome # "none"
  <1>1. op \in [Processes -> OpRecords] /\ op[p] \in OpRecords
    BY Before
  <1>2. op'[p] = IF ~op[p].alone \/ outcome = "none" THEN Idle
                 ELSE [op[p] EXCEPT !.stage = "idle", !.outcome = outcome]
    BY <1>1 DEF End
  <1>3. \A q \in Processes \ {p} : op'[q] = op[q]
    BY <1>1 DEF End
  <1>4. CASE ~op[p].alone \/ outcome = "none"
    BY <1>2, <1>3, <1>4 DEF Idle
  <1>5. CASE ~(~op[p].alone \/ outcome = "none")
    BY <1>1, <1>2, <1>3, <1>5 DEF OpRecords, Keeps
  <1> QED BY <1>4, <1>5

\* An activation that is forgotten leaves nobody at work.
LEMMA ForgottenSettles ==
    ASSUME SettledInv, NEW p \in Processes, op[p].stage # "idle", op' = [op EXCEPT ![p] = Idle]
    PROVE  Alone' /\ AllCalm'
  <1>1. op \in [Processes -> OpRecords]
    BY Before DEF SettledInv
  <1>2. ~op'[p].alone /\ \A q \in Processes \ {p} : op'[q] = op[q]
    BY <1>1 DEF Idle
  <1> QED BY <1>2, SoleStep

\* What is known of an activation that is alone before it takes a step.
LEMMA CalmBefore ==
    ASSUME SettledInv, NEW p \in Processes
    PROVE  SessionInv /\ (op[p].alone => Calm(op[p]))
  BY DEF SettledInv, AllCalm

\* It goes on without writing.
LEMMA UnwrittenSettles ==
    ASSUME SettledInv, NEW p \in Processes, op[p].stage \in Unwritten \ {"opened", "write"},
           op'[p].stage \in Unwritten \ {"opened", "write"}, Keeps(op[p], op'[p]),
           \A q \in Processes \ {p} : op'[q] = op[q], UNCHANGED channel,
           op'[p].stage \in {"peeked", "bind"} => pin'[op'[p].session].stamp = op'[p].stamp,
           op'[p].stage = "valued" => creds'[op'[p].decl].stamp = op'[p].stamp
    PROVE  Alone' /\ AllCalm'
  <1>1. op[p].stage \in Unwritten /\ op[p].stage # "idle"
    BY DEF Unwritten
  <1>2. op[p].alone => channel'[op'[p].session].pieces = op'[p].before
    BY <1>1, CalmBefore DEF Calm, Keeps
  <1>3. op[p].alone => Calm(op[p])'
    BY <1>2 DEF Calm, Unwritten, Opened
  <1> QED BY <1>1, <1>3, SoleStep DEF Keeps

\* It ends: its exports are complete, or the file is as it was for a reason.
LEMMA EndedSettles ==
    ASSUME SettledInv, NEW p \in Processes, op[p].stage # "idle",
           NEW outcome \in Outcomes, End(p, outcome),
           op[p].alone /\ outcome = "ok" => channel'[op[p].session].pieces = Wholly(op[p]),
           op[p].alone /\ outcome = "failed" =>
              /\ channel'[op[p].session].pieces = op[p].before
              /\ op[p].hit \/ ~creds'[op[p].decl].readable \/ op[p].file # "private"
    PROVE  Alone' /\ AllCalm'
  <1>1. /\ \A q \in Processes \ {p} : op'[q] = op[q]
        /\ op'[p].stage = "idle"
        /\ op'[p].alone =>
              /\ Keeps(op[p], op'[p]) /\ op'[p].decl = op[p].decl
              /\ op'[p].file = op[p].file /\ op'[p].outcome = outcome
    BY CalmBefore, EndedKeeps
  <1>2. op'[p].alone => Wholly(op'[p]) = Wholly(op[p])
    BY <1>1 DEF Wholly, Keeps
  <1>3. op[p].alone /\ op'[p].alone => Calm(op[p])'
    <2> SUFFICES ASSUME op[p].alone, op'[p].alone
                 PROVE  Calm(op[p])'
      OBVIOUS
    <2>1. /\ op'[p].session = op[p].session /\ op'[p].before = op[p].before
          /\ op'[p].hit = op[p].hit /\ op'[p].decl = op[p].decl /\ op'[p].outcome = outcome
          /\ op'[p].file = op[p].file
      BY <1>1 DEF Keeps
    <2>2. op'[p].outcome = "ok" => channel'[op'[p].session].pieces = Wholly(op[p])'
      BY <1>2, <2>1
    <2>3. op'[p].outcome = "failed" =>
              /\ channel'[op'[p].session].pieces = op'[p].before
              /\ op'[p].hit \/ ~creds'[op'[p].decl].readable \/ op'[p].file # "private"
      BY <2>1
    <2> QED BY <1>1, <2>2, <2>3 DEF Calm, Unwritten, Opened
  <1> QED BY <1>1, <1>3, SoleStep DEF Keeps

\* The stamp that is noted is that of the pin.
LEMMA PeekSettles ==
    ASSUME SettledInv, NEW p \in Processes, Peek(p)
    PROVE  Alone' /\ AllCalm'
  <1> {"resolve", "peeked"} \subseteq Stages
    BY DEF Stages
  <1>1. CASE Pin(p) = None
    <2>1. Goto(p, "resolve") /\ op[p].stage = "peek" /\ UNCHANGED channel
      BY <1>1 DEF Peek, At
    <2> QED BY <2>1, CalmBefore, GoneKeeps, UnwrittenSettles DEF Unwritten
  <1>2. CASE Pin(p) # None
    <2>1. /\ op' = [op EXCEPT ![p].stage = "peeked", ![p].stamp = Pin(p).stamp]
          /\ op[p].stage = "peek" /\ UNCHANGED <<pin, channel>>
      BY <1>2 DEF Peek, At
    <2>2. /\ \A q \in Processes \ {p} : op'[q] = op[q]
          /\ Keeps(op[p], op'[p])
          /\ op'[p].stage = "peeked" /\ op'[p].stamp = Pin(p).stamp
      BY <2>1, CalmBefore, StampsKeeps
    <2>3. pin'[op'[p].session].stamp = op'[p].stamp
      BY <2>1, <2>2 DEF Keeps, Pin, Session
    <2> QED BY <2>1, <2>2, <2>3, UnwrittenSettles DEF Unwritten
  <1> QED BY <1>1, <1>2

\* Nobody replaced the pin of an activation that is alone.
LEMMA PeekedSettles ==
    ASSUME SettledInv, NEW p \in Processes, Peeked(p)
    PROVE  Alone' /\ AllCalm'
  <1> "pin" \in Stages /\ "failed" \in Outcomes
    BY DEF Stages, Outcomes
  <1>1. op[p].stage = "peeked" /\ UNCHANGED channel
    BY DEF Peeked, At
  <1>2. CASE Same(p)
    <2>1. op' = [op EXCEPT ![p].stage = "pin", ![p].decl = Pin(p).decl]
      BY <1>2 DEF Peeked
    <2>2. PICK d : op' = [op EXCEPT ![p].stage = "pin", ![p].decl = d]
      BY <2>1
    <2>3. /\ \A q \in Processes \ {p} : op'[q] = op[q]
          /\ Keeps(op[p], op'[p]) /\ op'[p].stage = "pin"
      BY <2>2, CalmBefore, DeclaresKeeps
    <2> QED BY <1>1, <2>3, UnwrittenSettles DEF Unwritten
  <1>3. CASE ~Same(p)
    <2>1. ~op[p].alone
      BY <1>1, <1>3, CalmBefore DEF Calm, Same, Pin, Session
    <2>2. End(p, "failed")
      BY <1>3 DEF Peeked
    <2> QED BY <1>1, <2>1, <2>2, CalmBefore, EndedKeeps, SoleStep DEF Keeps
  <1> QED BY <1>2, <1>3

\* The registry answers with what it has.
LEMMA ResolveSettles ==
    ASSUME SettledInv, NEW p \in Processes, Resolve(p)
    PROVE  Alone' /\ AllCalm'
  <1> "pin" \in Stages /\ "none" \in Outcomes
    BY DEF Stages, Outcomes
  <1>1. op[p].stage = "resolve" /\ UNCHANGED channel
    BY DEF Resolve, At
  <1>2. CASE registry # None
    <2>1. op' = [op EXCEPT ![p].stage = "pin", ![p].decl = registry]
      BY <1>2 DEF Resolve
    <2>2. PICK d : op' = [op EXCEPT ![p].stage = "pin", ![p].decl = d]
      BY <2>1
    <2>3. /\ \A q \in Processes \ {p} : op'[q] = op[q]
          /\ Keeps(op[p], op'[p]) /\ op'[p].stage = "pin"
      BY <2>2, CalmBefore, DeclaresKeeps
    <2> QED BY <1>1, <2>3, UnwrittenSettles DEF Unwritten
  <1>3. CASE registry = None
    <2>1. End(p, "none")
      BY <1>3 DEF Resolve
    <2> QED BY <1>1, <2>1, CalmBefore, EndedKeeps, SoleStep
  <1> QED BY <1>2, <1>3

\* The pin that is published, or found, is the one that is there.
LEMMA PinSettles ==
    ASSUME SettledInv, NEW p \in Processes, CheckPin(p) \/ Publish(p) \/ UnlinkTemporary(p)
    PROVE  Alone' /\ AllCalm'
  <1>1. PICK stage \in {"publish", "reread", "unlink"} : Goto(p, stage)
    BY DEF CheckPin, Publish, UnlinkTemporary
  <1>2. op[p].stage \in {"pin", "publish", "unlink"} /\ UNCHANGED channel
    BY DEF CheckPin, Publish, UnlinkTemporary, At
  <1>3. stage \in Stages
    BY DEF Stages
  <1> QED BY <1>1, <1>2, <1>3, CalmBefore, GoneKeeps, UnwrittenSettles DEF Unwritten

\* The pin that is read is the one that is there.
LEMMA ReadPinSettles ==
    ASSUME SettledInv, NEW p \in Processes, ReadPin(p)
    PROVE  Alone' /\ AllCalm'
  <1>1. /\ op' = [op EXCEPT ![p].stage = "bind", ![p].stamp = Pin(p).stamp]
        /\ op[p].stage = "reread" /\ UNCHANGED <<pin, channel>> /\ "bind" \in Stages
    BY DEF ReadPin, At, Stages
  <1>2. /\ \A q \in Processes \ {p} : op'[q] = op[q]
        /\ Keeps(op[p], op'[p])
        /\ op'[p].stage = "bind" /\ op'[p].stamp = Pin(p).stamp
    BY <1>1, CalmBefore, StampsKeeps
  <1>3. pin'[op'[p].session].stamp = op'[p].stamp
    BY <1>1, <1>2 DEF Keeps, Pin, Session
  <1> QED BY <1>1, <1>2, <1>3, UnwrittenSettles DEF Unwritten

\* A pin of another declaration is a reason to fail.
LEMMA BindSettles ==
    ASSUME SettledInv, NEW p \in Processes, Bind(p)
    PROVE  Alone' /\ AllCalm'
  <1> "channel" \in Stages /\ "failed" \in Outcomes
    BY DEF Stages, Outcomes
  <1>1. op[p].stage = "bind" /\ UNCHANGED channel
    BY DEF Bind, At
  <1>2. CASE Same(p)
    <2>1. op' = [op EXCEPT ![p].stage = "channel", ![p].decl = Pin(p).decl]
      BY <1>2 DEF Bind
    <2>2. PICK d : op' = [op EXCEPT ![p].stage = "channel", ![p].decl = d]
      BY <2>1
    <2>3. /\ \A q \in Processes \ {p} : op'[q] = op[q]
          /\ Keeps(op[p], op'[p]) /\ op'[p].stage = "channel"
      BY <2>2, CalmBefore, DeclaresKeeps
    <2> QED BY <1>1, <2>3, UnwrittenSettles DEF Unwritten
  <1>3. CASE ~Same(p)
    <2>1. ~op[p].alone
      BY <1>1, <1>3, CalmBefore DEF Calm, Same, Pin, Session
    <2>2. End(p, "failed")
      BY <1>3 DEF Bind
    <2> QED BY <1>1, <2>1, <2>2, CalmBefore, EndedKeeps, SoleStep DEF Keeps
  <1> QED BY <1>2, <1>3

\* Noting the file writes nothing.
LEMMA NameChannelSettles ==
    ASSUME SettledInv, NEW p \in Processes, NEW file \in Files, NameChannel(p, file)
    PROVE  Alone' /\ AllCalm'
  <1>1. /\ op \in [Processes -> OpRecords] /\ op[p] \in OpRecords
        /\ op[p].stage = "channel" /\ UNCHANGED channel
    BY CalmBefore, Before DEF NameChannel, At
  <1>2. op' = [op EXCEPT ![p].stage = "values", ![p].file = file]
    BY DEF NameChannel
  <1>3. op'[p] = [op[p] EXCEPT !.stage = "values", !.file = file]
    BY <1>1, <1>2
  <1>4. \A q \in Processes \ {p} : op'[q] = op[q]
    BY <1>1, <1>2
  <1>5. Keeps(op[p], op'[p]) /\ op'[p].stage = "values"
    BY <1>1, <1>3 DEF OpRecords, Keeps
  <1> QED BY <1>1, <1>4, <1>5, UnwrittenSettles DEF Unwritten

\* There is no file, or the values cannot be read: the file is as it was.
LEMMA ReadValuesSettles ==
    ASSUME SettledInv, NEW p \in Processes, ReadValues(p)
    PROVE  Alone' /\ AllCalm'
  <1> "valued" \in Stages /\ "failed" \in Outcomes
    BY DEF Stages, Outcomes
  <1>1. op[p].stage = "values" /\ UNCHANGED <<creds, channel>>
    BY DEF ReadValues, At
  <1>2. CASE op[p].file # "unset" /\ Readable(p)
    <2>1. op' = [op EXCEPT ![p].stage = "valued", ![p].stamp = creds[op[p].decl].stamp]
      BY <1>2 DEF ReadValues
    <2>2. /\ \A q \in Processes \ {p} : op'[q] = op[q]
          /\ Keeps(op[p], op'[p])
          /\ op'[p].stage = "valued" /\ op'[p].decl = op[p].decl
          /\ op'[p].stamp = creds[op[p].decl].stamp
      <3>1. op \in [Processes -> OpRecords] /\ op[p] \in OpRecords
        BY CalmBefore, Before
      <3>2. op'[p] = [op[p] EXCEPT !.stage = "valued", !.stamp = creds[op[p].decl].stamp]
        BY <2>1, <3>1
      <3>3. \A q \in Processes \ {p} : op'[q] = op[q]
        BY <2>1, <3>1
      <3> QED BY <3>1, <3>2, <3>3 DEF OpRecords, Keeps
    <2>3. creds'[op'[p].decl].stamp = op'[p].stamp
      BY <1>1, <2>2
    <2> QED BY <1>1, <2>2, <2>3, UnwrittenSettles DEF Unwritten
  <1>3. CASE ~(op[p].file # "unset" /\ Readable(p))
    <2>1. End(p, "failed")
      BY <1>3 DEF ReadValues
    <2>2. op[p].alone => channel'[op[p].session].pieces = op[p].before
      BY <1>1, CalmBefore DEF Calm, Unwritten
    <2>3. ~creds'[op[p].decl].readable \/ op[p].file # "private"
      BY <1>1, <1>3 DEF Readable
    <2>4. PICK outcome \in Outcomes : outcome = "failed"
      OBVIOUS
    <2>5. End(p, outcome)
      BY <2>1, <2>4
    <2> QED BY <1>1, <2>2, <2>3, <2>4, <2>5, EndedSettles
  <1> QED BY <1>2, <1>3

\* Values that nobody changed compare as they were read.
LEMMA CompareValuesSettles ==
    ASSUME SettledInv, NEW p \in Processes, CompareValues(p)
    PROVE  Alone' /\ AllCalm'
  <1> "open" \in Stages /\ "failed" \in Outcomes
    BY DEF Stages, Outcomes
  <1>1. op[p].stage = "valued" /\ UNCHANGED channel
    BY DEF CompareValues, At
  <1>2. CASE creds[op[p].decl].stamp = op[p].stamp
    <2>1. Goto(p, "open")
      BY <1>2 DEF CompareValues
    <2> QED BY <1>1, <2>1, CalmBefore, GoneKeeps, UnwrittenSettles DEF Unwritten
  <1>3. CASE creds[op[p].decl].stamp # op[p].stamp
    <2>1. ~op[p].alone
      BY <1>1, <1>3, CalmBefore DEF Calm
    <2>2. End(p, "failed")
      BY <1>3 DEF CompareValues
    <2> QED BY <1>1, <2>1, <2>2, CalmBefore, EndedKeeps, SoleStep DEF Keeps
  <1> QED BY <1>2, <1>3

-----------------------------------------------------------------------------
(* An activation that is alone writes its exports. *)

\* The size that is noted is that of the file.
LEMMA OpenSettles ==
    ASSUME SettledInv, NEW p \in Processes, Open(p)
    PROVE  Alone' /\ AllCalm'
  <1> DEFINE stamp == Channel(p).stamp
             size == Len(Channel(p).pieces)
  <1>1. /\ op \in [Processes -> OpRecords] /\ op[p] \in OpRecords
        /\ op[p].stage = "open" /\ UNCHANGED channel /\ "opened" \in Stages
    BY CalmBefore, Before DEF Open, At, Stages
  <1>2. op' = [op EXCEPT ![p].stage = "opened", ![p].stamp = stamp, ![p].size = size]
    BY DEF Open
  <1> HIDE DEF stamp, size
  <1>3. op'[p] = [op[p] EXCEPT !.stage = "opened", !.stamp = stamp, !.size = size]
    BY <1>1, <1>2
  <1>4. /\ op'[p].stage = "opened" /\ op'[p].stamp = stamp /\ op'[p].size = size
        /\ op'[p].session = op[p].session /\ op'[p].before = op[p].before
        /\ op'[p].alone = op[p].alone
    BY <1>1, <1>3 DEF OpRecords
  <1>5. \A q \in Processes \ {p} : op'[q] = op[q]
    BY <1>1, <1>2
  <1>6. op[p].alone => channel[op[p].session].pieces = op[p].before
    BY <1>1, CalmBefore DEF Calm, Unwritten
  <1>7. op[p].alone =>
            /\ channel'[op'[p].session].pieces = op'[p].before
            /\ channel'[op'[p].session].stamp = op'[p].stamp
            /\ op'[p].size = Len(op'[p].before)
    BY <1>1, <1>4, <1>6 DEF stamp, size, Channel, Session
  <1>8. op[p].alone => Calm(op[p])'
    BY <1>4, <1>7 DEF Calm, Unwritten, Opened
  <1> QED BY <1>1, <1>4, <1>5, <1>8, SoleStep

\* A file that nobody changed compares as it was opened.
LEMMA CompareOpenedSettles ==
    ASSUME SettledInv, NEW p \in Processes, CompareOpened(p)
    PROVE  Alone' /\ AllCalm'
  <1> "write" \in Stages /\ "failed" \in Outcomes
    BY DEF Stages, Outcomes
  <1>1. op[p].stage = "opened" /\ UNCHANGED channel
    BY DEF CompareOpened, At
  <1>2. CASE op[p].file = "private" /\ Channel(p).stamp = op[p].stamp
    <2>1. Goto(p, "write")
      BY <1>2 DEF CompareOpened
    <2>2. /\ \A q \in Processes \ {p} : op'[q] = op[q]
          /\ Keeps(op[p], op'[p]) /\ op'[p].stage = "write"
      BY <2>1, CalmBefore, GoneKeeps
    <2>3. op[p].alone =>
              /\ channel[op[p].session].pieces = op[p].before
              /\ op[p].size = Len(op[p].before)
      BY <1>1, CalmBefore DEF Calm, Unwritten, Opened
    <2>4. op[p].alone => Calm(op[p])'
      BY <1>1, <2>2, <2>3 DEF Calm, Keeps, Unwritten, Opened
    <2> QED BY <1>1, <2>2, <2>4, SoleStep DEF Keeps
  <1>3. CASE Channel(p).stamp # op[p].stamp
    <2>1. ~op[p].alone
      BY <1>1, <1>3, CalmBefore DEF Calm, Channel, Session
    <2>2. End(p, "failed")
      BY <1>3 DEF CompareOpened
    <2> QED BY <1>1, <2>1, <2>2, CalmBefore, EndedKeeps, SoleStep DEF Keeps
  <1>4. CASE op[p].file # "private"
    <2>1. End(p, "failed")
      BY <1>4 DEF CompareOpened
    <2>2. op[p].alone => channel'[op[p].session].pieces = op[p].before
      BY <1>1, CalmBefore DEF Calm, Unwritten
    <2>3. PICK outcome \in Outcomes : outcome = "failed"
      OBVIOUS
    <2>4. End(p, outcome)
      BY <2>1, <2>3
    <2> QED BY <1>1, <1>4, <2>2, <2>3, <2>4, EndedSettles
  <1> QED BY <1>2, <1>3, <1>4

\* What a write leaves in the file of the activation that made it.
LEMMA Written ==
    ASSUME SettledInv, NEW p \in Processes, op[p].stage # "idle",
           NEW pieces, Put(op[p].session, pieces)
    PROVE  channel'[op[p].session].pieces = pieces
  <1>1. channel \in Channels /\ op[p].session \in Sessions
    BY CalmBefore, Before DEF SessionInv, Typed, Holding
  <1> QED BY <1>1 DEF Put, Channels

\* Two pieces appended are one after the other.
LEMMA Joined ==
    ASSUME NEW S, NEW s \in Seq(S), NEW a \in S, NEW b \in S
    PROVE  /\ s \o <<a, b>> = s \o <<a>> \o <<b>>
           /\ Append(s, a) \o <<>> = s \o <<a>>
  <1>1. s \o <<a>> \in Seq(S) /\ <<a, b>> \in Seq(S) /\ <<b>> \in Seq(S)
    OBVIOUS
  <1> DEFINE x == s \o <<a, b>>
             y == s \o <<a>> \o <<b>>
             item(i) == IF i <= Len(s) THEN s[i] ELSE IF i = Len(s) + 1 THEN a ELSE b
  <1>2. x \in Seq(S) /\ Len(x) = Len(s) + 2 /\ \A i \in 1..(Len(s) + 2) : x[i] = item(i)
    BY <1>1
  <1>3. y \in Seq(S) /\ Len(y) = Len(s) + 2 /\ \A i \in 1..(Len(s) + 2) : y[i] = item(i)
    BY <1>1
  <1> HIDE DEF x, y
  <1>4. x = y
    BY <1>2, <1>3, SeqEqual
  <1>5. Append(s, a) = s \o <<a>> /\ Append(s, a) \in Seq(S)
    OBVIOUS
  <1>6. Append(s, a) \o <<>> = Append(s, a)
    BY <1>5
  <1> QED BY <1>4, <1>5, <1>6 DEF x, y

\* How the pieces that a write adds make the exports complete.
LEMMA Halves ==
    ASSUME NEW o, o.before \in Seq(Pieces), o.decl \in Declarations
    PROVE  /\ Wholly(o) = o.before \o <<Half(o.decl, 1)>> \o <<Half(o.decl, 2)>>
           /\ Wholly(o) = Partly(o) \o <<>> \o <<Half(o.decl, 2)>>
           /\ Wholly(o) \in Seq(Pieces) /\ Partly(o) \in Seq(Pieces)
           /\ Len(Partly(o)) = Len(o.before) + 1 /\ Len(Wholly(o)) = Len(o.before) + 2
           /\ \A i \in 1..Len(o.before) :
                 Partly(o)[i] = o.before[i] /\ Wholly(o)[i] = o.before[i]
  <1>1. PICK first \in Pieces, second \in Pieces :
            first = Half(o.decl, 1) /\ second = Half(o.decl, 2)
    BY DEF Pieces
  <1>2. Partly(o) = Append(o.before, first) /\ Wholly(o) = o.before \o <<first, second>>
    BY <1>1 DEF Partly, Wholly, Exports
  <1>3. /\ Append(o.before, first) \in Seq(Pieces)
        /\ Len(Append(o.before, first)) = Len(o.before) + 1
        /\ \A i \in 1..Len(o.before) : Append(o.before, first)[i] = o.before[i]
    OBVIOUS
  <1>4. /\ o.before \o <<first, second>> \in Seq(Pieces)
        /\ Len(o.before \o <<first, second>>) = Len(o.before) + 2
        /\ \A i \in 1..Len(o.before) : (o.before \o <<first, second>>)[i] = o.before[i]
    OBVIOUS
  <1>5. ASSUME NEW b \in Seq(Pieces)
        PROVE  /\ b \o <<first, second>> = b \o <<first>> \o <<second>>
               /\ Append(b, first) \o <<>> = b \o <<first>>
    BY Joined
  <1>6. Wholly(o) = o.before \o <<first>> \o <<second>>
    BY <1>2, <1>5
  <1>7. Wholly(o) = Partly(o) \o <<>> \o <<second>>
    BY <1>2, <1>5, <1>6
  <1> QED BY <1>1, <1>2, <1>3, <1>4, <1>6, <1>7

\* The exports end the file.
LEMMA WriteExportsSettles ==
    ASSUME SettledInv, NEW p \in Processes, WriteExports(p)
    PROVE  Alone' /\ AllCalm'
  <1>1. op[p].stage \in {"write", "rest"} /\ Goto(p, "sync") /\ "sync" \in Stages
    BY DEF WriteExports, Stages
  <1>2. /\ \A q \in Processes \ {p} : op'[q] = op[q]
        /\ Keeps(op[p], op'[p]) /\ op'[p].stage = "sync" /\ op'[p].decl = op[p].decl
    BY <1>1, CalmBefore, GoneKeeps
  <1>3. op[p].before \in Seq(Pieces) /\ op[p].decl \in Declarations /\ op[p] \in OpRecords
    BY <1>1, CalmBefore, Before DEF OpRecords, Holding, BoundTo, Pins
  <1>4. channel'[op[p].session].pieces =
            channel[op[p].session].pieces \o
               (IF op[p].stage = "write" THEN <<Half(op[p].decl, 1)>> ELSE <<>>)
               \o <<Half(op[p].decl, 2)>>
    BY <1>1, Written DEF WriteExports, Session, Channel, At
  <1>5. op[p].alone => channel'[op[p].session].pieces = Wholly(op[p])
    <2>1. CASE op[p].stage = "write"
      <3>1. op[p].alone => channel[op[p].session].pieces = op[p].before
        BY <2>1, CalmBefore DEF Calm, Unwritten
      <3>2. channel'[op[p].session].pieces =
                channel[op[p].session].pieces \o <<Half(op[p].decl, 1)>> \o <<Half(op[p].decl, 2)>>
        BY <1>4, <2>1
      <3> QED BY <1>3, <3>1, <3>2, Halves
    <2>2. CASE op[p].stage = "rest"
      <3>1. op[p].alone => channel[op[p].session].pieces = Partly(op[p])
        BY <2>2, CalmBefore DEF Calm
      <3>2. channel'[op[p].session].pieces =
                channel[op[p].session].pieces \o <<>> \o <<Half(op[p].decl, 2)>>
        BY <1>4, <2>2
      <3> QED BY <1>3, <3>1, <3>2, Halves
    <2> QED BY <1>1, <2>1, <2>2
  <1>6. op[p].alone =>
            channel'[op'[p].session].pieces = Wholly(op[p])' /\ op'[p].size = Len(op'[p].before)
    <2>1. op[p].alone => op[p].size = Len(op[p].before)
      BY <1>1, CalmBefore DEF Calm, Opened
    <2> QED BY <1>2, <1>5, <2>1 DEF Keeps, Wholly
  <1>7. op[p].alone => Calm(op[p])'
    BY <1>2, <1>6 DEF Calm, Unwritten, Opened
  <1> QED BY <1>1, <1>2, <1>7, SoleStep DEF Keeps

\* Half of the exports end the file.
LEMMA ShortWriteSettles ==
    ASSUME SettledInv, NEW p \in Processes, ShortWrite(p)
    PROVE  Alone' /\ AllCalm'
  <1>1. op[p].stage = "write" /\ Goto(p, "rest") /\ "rest" \in Stages
    BY DEF ShortWrite, At, Stages
  <1>2. /\ \A q \in Processes \ {p} : op'[q] = op[q]
        /\ Keeps(op[p], op'[p]) /\ op'[p].stage = "rest" /\ op'[p].decl = op[p].decl
    BY <1>1, CalmBefore, GoneKeeps
  <1>3. op[p].alone =>
            channel[op[p].session].pieces = op[p].before /\ op[p].size = Len(op[p].before)
    BY <1>1, CalmBefore DEF Calm, Unwritten, Opened
  <1>4. channel'[op[p].session].pieces = Append(channel[op[p].session].pieces, Half(op[p].decl, 1))
    BY <1>1, Written DEF ShortWrite, Session, Channel
  <1>5. op[p].alone =>
            channel'[op'[p].session].pieces = Partly(op[p])' /\ op'[p].size = Len(op'[p].before)
    BY <1>2, <1>3, <1>4 DEF Keeps, Partly
  <1>6. op[p].alone => Calm(op[p])'
    BY <1>2, <1>5 DEF Calm, Unwritten, Opened
  <1> QED BY <1>1, <1>2, <1>6, SoleStep DEF Keeps

\* The file is as it was written.
LEMMA SyncSettles ==
    ASSUME SettledInv, NEW p \in Processes, Sync(p)
    PROVE  Alone' /\ AllCalm'
  <1>1. /\ op' = [op EXCEPT ![p].stage = "compare", ![p].stamp = Channel(p).stamp]
        /\ op[p].stage = "sync" /\ UNCHANGED channel /\ "compare" \in Stages
    BY DEF Sync, At, Stages
  <1>2. /\ \A q \in Processes \ {p} : op'[q] = op[q]
        /\ Keeps(op[p], op'[p])
        /\ op'[p].stage = "compare" /\ op'[p].decl = op[p].decl /\ op'[p].stamp = Channel(p).stamp
    BY <1>1, CalmBefore, StampsKeeps
  <1>3. op[p].alone =>
            channel[op[p].session].pieces = Wholly(op[p]) /\ op[p].size = Len(op[p].before)
    BY <1>1, CalmBefore DEF Calm, Opened
  <1>4. op[p].alone =>
            /\ channel'[op'[p].session].pieces = Wholly(op[p])'
            /\ op'[p].size = Len(op'[p].before)
            /\ channel'[op'[p].session].stamp = op'[p].stamp
    BY <1>1, <1>2, <1>3 DEF Keeps, Wholly, Channel, Session
  <1>5. op[p].alone => Calm(op[p])'
    BY <1>2, <1>4 DEF Calm, Unwritten, Opened
  <1> QED BY <1>1, <1>2, <1>5, SoleStep DEF Keeps

\* A file that nobody changed compares as it was written.
LEMMA CompareWrittenSettles ==
    ASSUME SettledInv, NEW p \in Processes, CompareWritten(p)
    PROVE  Alone' /\ AllCalm'
  <1> "rollback" \in Stages /\ "ok" \in Outcomes
    BY DEF Stages, Outcomes
  <1>1. op[p].stage = "compare" /\ UNCHANGED channel
    BY DEF CompareWritten, At
  <1>2. CASE Channel(p).stamp = op[p].stamp
    <2>1. PICK outcome \in Outcomes : outcome = "ok"
      OBVIOUS
    <2>2. End(p, outcome)
      BY <1>2, <2>1 DEF CompareWritten
    <2>3. op[p].alone => channel'[op[p].session].pieces = Wholly(op[p])
      BY <1>1, CalmBefore DEF Calm
    <2> QED BY <1>1, <2>1, <2>2, <2>3, EndedSettles
  <1>3. CASE Channel(p).stamp # op[p].stamp
    <2>1. ~op[p].alone
      BY <1>1, <1>3, CalmBefore DEF Calm, Channel, Session
    <2>2. Goto(p, "rollback")
      BY <1>3 DEF CompareWritten
    <2> QED BY <1>1, <2>1, <2>2, CalmBefore, GoneKeeps, SoleStep DEF Keeps
  <1> QED BY <1>2, <1>3

\* The roll-back of an activation that is alone cuts what it wrote, and no more.
LEMMA RollbackSettles ==
    ASSUME SettledInv, NEW p \in Processes, Rollback(p)
    PROVE  Alone' /\ AllCalm'
  <1> DEFINE now == channel[op[p].session].pieces
             before == op[p].before
             size == op[p].size
             left == IF size <= Len(now) THEN SubSeq(now, 1, size)
                     ELSE now \o [i \in 1..(size - Len(now)) |-> Zeros]
  <1>1. op[p].stage = "rollback" /\ op[p] \in OpRecords
    BY CalmBefore, Before DEF Rollback, At
  <1>2. before \in Seq(Pieces) /\ op[p].decl \in Declarations
    BY <1>1, CalmBefore, Before DEF OpRecords, Holding, BoundTo, Pins
  <1>3. channel'[op[p].session].pieces = left
    <2>1. Put(op[p].session, left)
      BY DEF Rollback, Session, Channel
    <2> HIDE DEF left
    <2> QED BY <1>1, <2>1, Written
  <1>4. op[p].alone => left = before
    <2> SUFFICES ASSUME op[p].alone
                 PROVE  left = before
      OBVIOUS
    <2>1. size = Len(before) /\ now \in {before, Partly(op[p]), Wholly(op[p])}
      BY <1>1, CalmBefore DEF Calm, Opened
    <2>2. /\ now \in Seq(Pieces) /\ size \in Nat /\ size <= Len(now)
          /\ \A i \in 1..size : now[i] = before[i]
      <3>1. CASE now = before
        BY <1>2, <2>1, <3>1
      <3>2. ASSUME NEW whole \in {Partly(op[p]), Wholly(op[p])}
            PROVE  /\ whole \in Seq(Pieces) /\ Len(before) \in Nat /\ Len(before) <= Len(whole)
                   /\ \A i \in 1..Len(before) : whole[i] = before[i]
        <4>1. /\ whole \in Seq(Pieces) /\ Len(whole) \in {Len(before) + 1, Len(before) + 2}
              /\ \A i \in 1..Len(before) : whole[i] = before[i]
          <5>1. CASE whole = Partly(op[p])
            BY <1>2, <5>1, Halves
          <5>2. CASE whole = Wholly(op[p])
            BY <1>2, <5>2, Halves
          <5> QED BY <5>1, <5>2
        <4>2. Len(before) \in Nat
          BY <1>2
        <4> HIDE DEF before
        <4> QED BY <4>1, <4>2
      <3> HIDE DEF now, size, before
      <3>3. CASE now \in {Partly(op[p]), Wholly(op[p])}
        <4>1. /\ now \in Seq(Pieces) /\ Len(before) \in Nat /\ Len(before) <= Len(now)
              /\ \A i \in 1..Len(before) : now[i] = before[i]
          BY <3>2, <3>3
        <4> QED BY <2>1, <4>1
      <3> QED BY <2>1, <3>1, <3>3
    <2>3. left = SubSeq(now, 1, size)
      BY <2>2
    <2> HIDE DEF left, now, size, before
    <2>4. /\ SubSeq(now, 1, size) \in Seq(Pieces) /\ Len(SubSeq(now, 1, size)) = size
          /\ \A i \in 1..size : SubSeq(now, 1, size)[i] = now[i]
      BY <2>2
    <2>5. left \in Seq(Pieces) /\ Len(left) = Len(before) /\ \A i \in 1..Len(left) : left[i] = before[i]
      BY <1>2, <2>1, <2>2, <2>3, <2>4
    <2> QED BY <1>2, <2>5, SeqEqual
  <1>5. op[p].alone => op[p].hit
    BY <1>1, CalmBefore DEF Calm
  <1> HIDE DEF left, now, size
  <1>6. PICK outcome \in Outcomes : outcome = "failed" /\ End(p, outcome)
    BY DEF Rollback, Outcomes
  <1> QED BY <1>1, <1>3, <1>4, <1>5, <1>6, EndedSettles

\* A failing call leaves the file as it was, or leads to the roll-back.
LEMMA FaultSettles ==
    ASSUME SettledInv, NEW p \in Processes, Fault(p)
    PROVE  Alone' /\ AllCalm'
  <1> DEFINE failing == {"write", "rest", "sync", "compare"}
  <1>1. op[p].stage # "idle" /\ UNCHANGED <<creds, channel>>
    BY DEF Fault, At
  <1>2. CASE op[p].stage \in failing
    <2>1. op' = [op EXCEPT ![p].stage = "rollback", ![p].hit = TRUE]
      BY <1>2 DEF Fault, At
    <2>2. op \in [Processes -> OpRecords] /\ op[p] \in OpRecords
      BY CalmBefore, Before
    <2>3. op'[p] = [op[p] EXCEPT !.stage = "rollback", !.hit = TRUE]
      BY <2>1, <2>2
    <2>4. /\ op'[p].stage = "rollback" /\ op'[p].hit = TRUE
          /\ op'[p].session = op[p].session /\ op'[p].decl = op[p].decl
          /\ op'[p].before = op[p].before /\ op'[p].size = op[p].size
          /\ op'[p].alone = op[p].alone
      BY <2>2, <2>3 DEF OpRecords
    <2>5. \A q \in Processes \ {p} : op'[q] = op[q]
      BY <2>1, <2>2
    <2>6. op[p].alone =>
              /\ op[p].size = Len(op[p].before)
              /\ channel[op[p].session].pieces \in {op[p].before, Partly(op[p]), Wholly(op[p])}
      BY <1>2, CalmBefore DEF Calm, Unwritten, Opened
    <2>7. op[p].alone =>
              /\ op'[p].size = Len(op'[p].before)
              /\ channel'[op'[p].session].pieces
                    \in {op'[p].before, Partly(op[p])', Wholly(op[p])'}
      BY <1>1, <2>4, <2>6 DEF Partly, Wholly
    <2>8. op[p].alone => Calm(op[p])'
      BY <2>4, <2>7 DEF Calm, Unwritten, Opened
    <2> QED BY <1>1, <2>4, <2>5, <2>8, SoleStep
  <1>3. CASE op[p].stage = "rollback"
    <2>1. PICK outcome \in Outcomes : outcome = "stuck" /\ End(p, outcome)
      BY <1>3 DEF Fault, At, Outcomes
    <2> QED BY <1>1, <2>1, EndedSettles
  <1>4. CASE op[p].stage \notin failing \cup {"rollback"}
    BY <1>1, <1>4, ForgottenSettles DEF Fault, At
  <1> QED BY <1>2, <1>3, <1>4

-----------------------------------------------------------------------------
(* The beginning of an activation, and what others do. *)

\* Nobody is alone who was disturbed.
LEMMA DisturbedSettles ==
    ASSUME SettledInv, op' = Disturbed(op)
    PROVE  Alone' /\ AllCalm'
  <1>1. ASSUME NEW q \in Processes
        PROVE  ~op'[q].alone
    <2>1. op[q] \in OpRecords
      BY CalmBefore, Before
    <2>2. op'[q] = IF op[q].stage = "idle" THEN Idle ELSE [op[q] EXCEPT !.alone = FALSE]
      BY DEF Disturbed
    <2> QED BY <2>1, <2>2 DEF OpRecords, Idle
  <1> QED BY <1>1 DEF Alone, AllCalm

\* A new activation is alone if nobody else is at work, and disturbs the others.
LEMMA ActivateSettles ==
    ASSUME SettledInv, NEW p \in Processes, NEW s \in Sessions,
           NEW given \in Declarations \cup {None}, Activate(p, s, given)
    PROVE  Alone' /\ AllCalm'
  <1> DEFINE sole == \A q \in Processes : op[q].stage = "idle"
             before == channel[s].pieces
  <1>1. PICK stage \in {"peek", "pin"} :
            op' = [Disturbed(op) EXCEPT ![p] =
                      [Idle EXCEPT !.stage = stage, !.session = s, !.decl = given,
                                   !.before = before, !.alone = sole]]
    BY DEF Activate, At
  <1>2. UNCHANGED channel
    BY DEF Activate
  <1> HIDE DEF sole, before
  <1>3. DOMAIN Disturbed(op) = Processes
    BY DEF Disturbed
  <1>4. op'[p] = [Idle EXCEPT !.stage = stage, !.session = s, !.decl = given,
                              !.before = before, !.alone = sole]
    BY <1>1, <1>3
  <1>5. /\ op'[p].stage = stage /\ op'[p].session = s /\ op'[p].before = before
        /\ op'[p].alone = sole
    BY <1>4 DEF Idle
  <1>6. ASSUME NEW q \in Processes \ {p}
        PROVE  ~op'[q].alone /\ (sole => op'[q].stage = "idle")
    <2>1. op[q] \in OpRecords
      BY CalmBefore, Before
    <2>2. op'[q] = IF op[q].stage = "idle" THEN Idle ELSE [op[q] EXCEPT !.alone = FALSE]
      BY <1>1, <1>3 DEF Disturbed
    <2> QED BY <2>1, <2>2 DEF OpRecords, Idle, sole
  <1>7. Alone'
    BY <1>5, <1>6 DEF Alone
  <1>8. Calm(op[p])'
    BY <1>2, <1>5 DEF Calm, Unwritten, Opened, before
  <1>9. AllCalm'
    BY <1>6, <1>8 DEF AllCalm
  <1> QED BY <1>7, <1>9

\* A step that changes none of the files that an activation notes.
LEMMA UnchangedSettles ==
    ASSUME SettledInv, UNCHANGED <<creds, pin, channel, op>>
    PROVE  Alone' /\ AllCalm'
  <1>1. Alone'
    BY DEF SettledInv, Alone
  <1>2. AllCalm'
    BY DEF SettledInv, AllCalm, Calm, Partly, Wholly
  <1> QED BY <1>1, <1>2

\* Every step of an activation.
LEMMA StepSettles ==
    ASSUME SettledInv, NEW p \in Processes, Step(p)
    PROVE  Alone' /\ AllCalm'
  <1>1. Kill(p) => op[p].stage # "idle" /\ op' = [op EXCEPT ![p] = Idle]
    BY DEF Kill, At
  <1> QED
    BY <1>1, PeekSettles, PeekedSettles, ResolveSettles, PinSettles, ReadPinSettles,
       BindSettles, NameChannelSettles, ReadValuesSettles, CompareValuesSettles,
       OpenSettles, CompareOpenedSettles,
       WriteExportsSettles, ShortWriteSettles, SyncSettles, CompareWrittenSettles,
       RollbackSettles, FaultSettles, ForgottenSettles DEF Step

\* Every step keeps the invariant.
LEMMA SettledInduction ==
    ASSUME SettledInv, [Next]_vars
    PROVE  SettledInv'
  <1>1. SessionInv'
    BY SessionInduction DEF SettledInv
  <1>2. Alone' /\ AllCalm'
    <2>1. CASE \E p \in Processes : Step(p)
      BY <2>1, StepSettles
    <2>2. CASE \E p \in Processes, s \in Sessions, given \in Declarations \cup {None} :
                  Activate(p, s, given)
      BY <2>2, ActivateSettles
    <2>3. CASE \E d \in Declarations \cup {None} : EditRegistry(d)
      BY <2>3, UnchangedSettles DEF EditRegistry
    <2>4. CASE \E d \in Declarations, readable \in BOOLEAN : EditCredentials(d, readable)
      BY <2>4, DisturbedSettles DEF EditCredentials
    <2>5. CASE \E s \in Sessions : AppendOther(s)
      BY <2>5, DisturbedSettles DEF AppendOther
    <2>6. CASE UNCHANGED vars
      BY <2>6, UnchangedSettles DEF vars
    <2> QED BY <2>1, <2>2, <2>3, <2>4, <2>5, <2>6 DEF Next
  <1> QED BY <1>1, <1>2 DEF SettledInv

\* It holds before the first activation.
LEMMA InitSettled ==
    ASSUME Init
    PROVE  SettledInv
  <1>1. \A p \in Processes : ~op[p].alone
    BY DEF Init, Idle
  <1> QED BY <1>1, InitSession DEF SettledInv, Alone, AllCalm

\* An activation that nobody disturbed is all or nothing, for any number of hooks
\* and sessions: its exports end the file when it succeeds, and the file is what it
\* was when it fails, which a system call, unreadable values or no private file explain.
THEOREM ActivationsSettle == Spec => []ActivationSettled
  <1>1. ASSUME SettledInv
        PROVE  ActivationSettled
    BY <1>1 DEF SettledInv, AllCalm, Calm, ActivationSettled, Settled, At, Channel, Session, Wholly
  <1>2. SettledInv => ActivationSettled
    BY <1>1
  <1> QED BY <1>2, InitSettled, SettledInduction, PTL DEF Spec
=============================================================================

------------------------- MODULE StateServiceProofs -------------------------
(***************************************************************************)
(* The state service of one server implements the serial document, for any *)
(* callers and ids.                                                        *)
(***************************************************************************)
EXTENDS StateService, FiniteSetTheorems, WellFoundedInduction, TLAPS

-----------------------------------------------------------------------------
(***************************************************************************)
(* The operators on documents                                              *)
(***************************************************************************)

\* A set of numbers that has elements and is finite has a highest element: the
\* sets of what is above an element are ordered by inclusion, and the smallest of
\* them is empty.
LEMMA HighestIsHighest ==
    ASSUME NEW S \in SUBSET Nat, IsFiniteSet(S), S # {}
    PROVE  Highest(S) \in S /\ \A j \in S : j <= Highest(S)
<1> DEFINE Above(i) == {j \in S : i < j}
<1> DEFINE T == {Above(i) : i \in S}
<1>1. \A i \in S : Above(i) \in FiniteSubsetsOf(S)
    BY FS_Subset DEF FiniteSubsetsOf
<1>2. T \subseteq FiniteSubsetsOf(S) /\ T # {}
    BY <1>1
<1>3. PICK U \in T : \A V \in T : <<V, U>> \notin StrictSubsetOrdering(S)
    <2> HIDE DEF T
    <2> QED BY <1>2, FS_StrictSubsetOrderingWellFounded, WFMin
<1>4. PICK i \in S : U = Above(i)
    BY <1>3
<1>5. \A j \in S : j <= i
    <2> SUFFICES ASSUME NEW j \in S, i < j PROVE FALSE
        OBVIOUS
    <2>1. Above(j) \subseteq Above(i)
        <3>1. \A k \in S : j < k => i < k
            <4> HIDE DEF Above
            <4> QED OBVIOUS
        <3> QED BY <3>1
    <2>2. j \in Above(i) /\ j \notin Above(j)
        OBVIOUS
    <2>3. <<Above(j), Above(i)>> \in StrictSubsetOrdering(S)
        BY <2>1, <2>2 DEF StrictSubsetOrdering
    <2> QED BY <2>3, <1>3, <1>4
<1> QED BY <1>5 DEF Highest

\* What a healed counter has to pass.
Marks(d) == {d.next} \cup {i + 1 : i \in Present(d)}

LEMMA MarksAreNumbers ==
    ASSUME NEW d \in Docs
    PROVE  Marks(d) \in SUBSET (1..(MaxId + 1)) /\ IsFiniteSet(Marks(d)) /\ Marks(d) # {}
<1>1. Marks(d) \in SUBSET (1..(MaxId + 1))
    BY MaxIdAssumption DEF Marks, Present, Docs, Ids
<1>2. IsFiniteSet(1..(MaxId + 1))
    BY FS_Interval, MaxIdAssumption
<1> QED BY <1>1, <1>2, FS_Subset DEF Marks

\* Healing changes the counter only, and makes the document sound.
LEMMA HealedIsSound ==
    ASSUME NEW d \in Docs
    PROVE  /\ Healed(d) \in Docs
           /\ Healed(d) = [next |-> Highest(Marks(d)), tasks |-> d.tasks, held |-> d.held]
           /\ Sound(Healed(d))
<1>1. /\ Highest(Marks(d)) \in 1..(MaxId + 1)
      /\ \A j \in Marks(d) : j <= Highest(Marks(d))
    BY MarksAreNumbers, HighestIsHighest, MaxIdAssumption
<1>2. Healed(d) = [next |-> Highest(Marks(d)), tasks |-> d.tasks, held |-> d.held]
    BY DEF Healed, Marks, Docs
<1>3. Healed(d) \in Docs
    BY <1>1, <1>2 DEF Docs
<1>4. Sound(Healed(d))
    <2> SUFFICES ASSUME NEW i \in Present(d) PROVE i < Highest(Marks(d))
        BY <1>2 DEF Sound, Present
    <2>1. i + 1 \in Marks(d)
        BY DEF Marks
    <2> QED BY <2>1, <1>1, MaxIdAssumption DEF Present, Ids
<1> QED BY <1>2, <1>3, <1>4

\* There is nothing to heal in a sound document.
LEMMA SoundIsHealed ==
    ASSUME NEW d \in Docs, Sound(d)
    PROVE  Healed(d) = d
<1>1. \A j \in Marks(d) : j <= d.next
    BY MaxIdAssumption DEF Marks, Sound, Present, Docs, Ids
<1>2. d.next \in Marks(d)
    BY DEF Marks
<1>3. Highest(Marks(d)) = d.next
    <2>1. Highest(Marks(d)) \in Marks(d) /\ d.next <= Highest(Marks(d))
        BY <1>2, MarksAreNumbers, HighestIsHighest, MaxIdAssumption
    <2> QED BY <2>1, <1>1, MarksAreNumbers, MaxIdAssumption DEF Docs
<1> QED BY <1>3, HealedIsSound DEF Docs

\* Handlers make documents of documents, and sound ones of sound ones.
LEMMA EffectsAreDocs ==
    ASSUME NEW d \in Docs, NEW c \in Caller, NEW e \in Effects(d, c)
    PROVE  e \in Docs /\ (Sound(d) => Sound(e))
<1>1. CASE e = d
    BY <1>1
<1>2. CASE e = Empty
    BY <1>2, MaxIdAssumption DEF Empty, Docs, Sound, Present, Ids
<1>3. CASE e \in Created(d, c)
    <2>1. d.next \in Ids /\ e \in Create(d, c)
        BY <1>3 DEF Created
    <2>2. PICK h \in {d.held, d.held \cup {d.next}} :
              e = [next |-> d.next + 1, tasks |-> [d.tasks EXCEPT ![d.next] = c], held |-> h]
        BY <2>1 DEF Create
    <2>3. e \in Docs
        BY <2>1, <2>2, MaxIdAssumption DEF Docs, Ids
    <2>4. ASSUME Sound(d), NEW i \in Present(e) PROVE i < e.next
        BY <2>1, <2>2, <2>4, MaxIdAssumption DEF Sound, Present, Docs, Ids
    <2> QED BY <2>3, <2>4 DEF Sound
<1>4. CASE e \in Relisted(d)
    BY <1>4 DEF Relisted, Docs, Sound, Present
<1> QED BY <1>1, <1>2, <1>3, <1>4 DEF Effects

-----------------------------------------------------------------------------
(***************************************************************************)
(* Types, for any number of servers                                        *)
(***************************************************************************)

LEMMA EmptyIsDoc == Empty \in Docs /\ \A n \in 1..(MaxId + 1) : [Empty EXCEPT !.next = n] \in Docs
BY MaxIdAssumption DEF Empty, Docs, Ids

LEMMA TypeStep == ASSUME TypeOK, [Next]_vars PROVE TypeOK'
<1> USE DEF TypeOK, At, service, notifier
<1>1. ASSUME NEW c \in Caller, Begin(c) PROVE TypeOK'
    <2>1. db.next \in 1..(MaxId + 1)
        BY DEF Docs
    <2> QED BY <1>1, <2>1, EmptyIsDoc, ServerOfAssumption DEF Begin, ReadCounters, Stage
<1>2. ASSUME NEW c \in Caller, ReadTasks(c) PROVE TypeOK'
    <2>1. [local[c] EXCEPT !.tasks = db.tasks] \in Docs
        BY DEF Docs
    <2>2. Healed([local[c] EXCEPT !.tasks = db.tasks]) \in Docs
        BY <2>1, HealedIsSound
    <2> QED BY <1>2, <2>2 DEF ReadTasks, Stage
<1>3. ASSUME NEW c \in Caller, ReadInstances(c) PROVE TypeOK'
    <2>1. [local[c] EXCEPT !.held = db.held] \in Docs
        BY DEF Docs
    <2> QED BY <1>3, <2>1 DEF ReadInstances, Stage
<1>4. ASSUME NEW c \in Caller, Abandon(c) PROVE TypeOK'
    BY <1>4, EmptyIsDoc, ServerOfAssumption DEF Abandon, Unlock, Stage
<1>5. ASSUME NEW c \in Caller, Save(c) PROVE TypeOK'
    <2>1. db' \in Docs
        BY <1>5, EffectsAreDocs DEF Save
    <2> QED BY <1>5, <2>1, EmptyIsDoc DEF Save, Stage
<1>6. ASSUME NEW c \in Caller, Signalling(c) PROVE TypeOK'
    <2>1. CASE Truncate(c)
        BY <2>1 DEF Truncate, Stage
    <2>2. CASE WriteRevision(c)
        BY <2>2 DEF WriteRevision, Aged, Revision, Stage
    <2>3. CASE TouchFails(c)
        BY <2>3 DEF TouchFails, Stage
    <2>4. CASE Trigger(c)
        BY <2>4, ServerOfAssumption DEF Trigger, Unlock, Revision, Stage
    <2> QED BY <1>6, <2>1, <2>2, <2>3, <2>4 DEF Signalling
<1>7. ASSUME NEW s \in Server, ScanStart(s) PROVE TypeOK'
    BY <1>7 DEF ScanStart, Revision
<1>8. ASSUME NEW s \in Server, Scanning(s) PROVE TypeOK'
    <2> USE DEF InScan, Revision
    <2>1. CASE ScanSkips(s) \/ PushFails(s)
        BY <2>1 DEF ScanSkips, PushFails
    <2>2. CASE ScanChecks(s)
        BY <2>2 DEF ScanChecks
    <2>3. CASE CheckFails(s)
        BY <2>3 DEF CheckFails
    <2>4. CASE ScanPushes(s)
        BY <2>4 DEF ScanPushes
    <2> QED BY <1>8, <2>1, <2>2, <2>3, <2>4 DEF Scanning
<1>9. ASSUME NEW s \in Server, Restart(s) PROVE TypeOK'
    BY <1>9, EmptyIsDoc DEF Restart, Revision, Stage
<1>10. CASE UNCHANGED vars
    BY <1>10 DEF vars
<1> QED BY <1>1, <1>2, <1>3, <1>4, <1>5, <1>6, <1>7, <1>8, <1>9, <1>10 DEF Next, CallerStep

\* Every state of the service and the notifier has its types, with any number of
\* servers on one file.
THEOREM TypeCorrect == Spec => []TypeOK
<1>1. Init => TypeOK
    BY EmptyIsDoc DEF Init, TypeOK, Stage, Revision
<1> QED BY <1>1, TypeStep, PTL DEF Spec

-----------------------------------------------------------------------------
(***************************************************************************)
(* The signal of a save, for any number of servers                         *)
(***************************************************************************)

\* What SaveIsAwaited says of one server.
Awaited(s) ==
    unchecked[s] /\ ~lapsed[s] =>
        \/ \E c \in Caller : pc[c] \in {"saved", "raising"}
        \/ /\ signal = "revision"
           /\ last[s] # "current"
           /\ scan[s].pc = "checked" => scan[s].rev # "current"

\* A new revision makes all that was pushed or read before an old one.
LEMMA AgedIsOld == \A rev \in Revision : Aged(rev) # "current"
BY DEF Aged, Revision

LEMMA AwaitedStep ==
    ASSUME TypeOK, NEW s \in Server, Awaited(s), [Next]_vars
    PROVE  Awaited(s)'
<1> USE DEF TypeOK, At, service, notifier
<1>1. ASSUME NEW c \in Caller, Begin(c) \/ ReadTasks(c) \/ ReadInstances(c) \/ Abandon(c)
      PROVE  Awaited(s)'
    <2>1. pc[c] \notin {"saved", "raising"}
        BY <1>1 DEF Begin, ReadCounters, ReadTasks, ReadInstances, Abandon
    <2>2. \A d \in Caller : pc[d] \in {"saved", "raising"} => pc'[d] = pc[d]
        BY <1>1, <2>1 DEF Begin, ReadCounters, ReadTasks, ReadInstances, Abandon
    <2> QED BY <1>1, <2>2 DEF Awaited, Begin, ReadCounters, ReadTasks, ReadInstances, Abandon
<1>2. ASSUME NEW c \in Caller, Save(c) \/ Truncate(c) PROVE Awaited(s)'
    <2>1. pc'[c] \in {"saved", "raising"}
        BY <1>2 DEF Save, Truncate
    <2> QED BY <2>1 DEF Awaited
<1>3. ASSUME NEW c \in Caller, WriteRevision(c) PROVE Awaited(s)'
    <2>1. signal' = "revision"
        BY <1>3 DEF WriteRevision
    <2>2. last'[s] # "current" /\ scan'[s].rev # "current"
        BY <1>3, AgedIsOld DEF WriteRevision
    <2> QED BY <2>1, <2>2 DEF Awaited
<1>4. ASSUME NEW c \in Caller, TouchFails(c) PROVE Awaited(s)'
    BY <1>4 DEF TouchFails, Awaited
<1>5. ASSUME NEW c \in Caller, Trigger(c) PROVE Awaited(s)'
    <2>1. \A d \in Caller : pc[d] \in {"saved", "raising"} => pc'[d] = pc[d]
        BY <1>5 DEF Trigger
    <2>2. last'[s] \in {last[s], "none"}
        BY <1>5, ServerOfAssumption DEF Trigger
    <2> QED BY <1>5, <2>1, <2>2 DEF Trigger, Awaited
<1>6. ASSUME NEW z \in Server, ScanStart(z) PROVE Awaited(s)'
    <2>1. scan'[s].pc = "checked" => scan'[s] = scan[s]
        BY <1>6 DEF ScanStart
    <2> QED BY <1>6, <2>1 DEF ScanStart, Awaited
<1>7. ASSUME NEW z \in Server, ScanSkips(z) \/ PushFails(z) PROVE Awaited(s)'
    <2>1. scan'[s].pc = "checked" => scan'[s] = scan[s]
        BY <1>7 DEF ScanSkips, PushFails, InScan
    <2> QED BY <1>7, <2>1 DEF ScanSkips, PushFails, Awaited
<1>8. ASSUME NEW z \in Server, ScanChecks(z) \/ CheckFails(z) PROVE Awaited(s)'
    <2>1. CASE z = s
        BY <1>8, <2>1 DEF ScanChecks, CheckFails, Awaited
    <2>2. CASE z # s
        BY <1>8, <2>2 DEF ScanChecks, CheckFails, InScan, Awaited
    <2> QED BY <2>1, <2>2
\* What a cycle pushes is the revision it read, and that may be old by now.
<1>9. ASSUME NEW z \in Server, ScanPushes(z) PROVE Awaited(s)'
    <2>1. CASE z = s
        BY <1>9, <2>1 DEF ScanPushes, InScan, Awaited
    <2>2. CASE z # s
        BY <1>9, <2>2 DEF ScanPushes, InScan, Awaited
    <2> QED BY <2>1, <2>2
<1>10. ASSUME NEW z \in Server, Restart(z) PROVE Awaited(s)'
    BY <1>10 DEF Restart, Awaited
<1>11. CASE UNCHANGED vars
    BY <1>11 DEF vars, Awaited
<1> QED BY <1>1, <1>2, <1>3, <1>4, <1>5, <1>6, <1>7, <1>8, <1>9, <1>10, <1>11
        DEF Next, CallerStep, Signalling, Scanning

\* No save loses its signal to a cycle that read the file before, or to the file
\* being empty for an instant, whoever saves on whichever server.
THEOREM AwaitedCorrect == Spec => []SaveIsAwaited
<1>1. SaveIsAwaited <=> \A s \in Server : Awaited(s)
    BY DEF SaveIsAwaited, Awaited
<1>2. Init => SaveIsAwaited
    BY DEF Init, SaveIsAwaited
<1>3. TypeOK /\ SaveIsAwaited /\ [Next]_vars => SaveIsAwaited'
    BY AwaitedStep DEF SaveIsAwaited, Awaited
<1> QED BY <1>2, <1>3, TypeCorrect, PTL DEF Spec

-----------------------------------------------------------------------------
(***************************************************************************)
(* One server implements the serial document                               *)
(***************************************************************************)

\* All callers run in one server, as in daemon mode.
OneProcess == \A c, d \in Caller : ServerOf[c] = ServerOf[d]

\* Whoever is in Run or Query holds the mutex of its server.
HoldInv == \A c \in Caller : pc[c] # "idle" => mu[ServerOf[c]] = c

\* What a load has read so far is in the tables as it was read.
LoadInv ==
    \A c \in Caller :
        /\ pc[c] = "tasks" => local[c] = [Empty EXCEPT !.next = db.next]
        /\ pc[c] = "instances" => local[c] = [Healed(db) EXCEPT !.held = {}]
        /\ pc[c] = "loaded" => local[c] = Healed(db)

Inv == TypeOK /\ HoldInv /\ LoadInv

\* The mutex lets one caller in.
LEMMA Alone ==
    ASSUME OneProcess, Inv, NEW c \in Caller, NEW d \in Caller, d # c,
           mu[ServerOf[c]] \in {None, c}
    PROVE  pc[d] = "idle"
BY CallerAssumption DEF OneProcess, Inv, HoldInv

\* Healing looks at the counter and the tasks only.
LEMMA HealedParts ==
    ASSUME NEW d \in Docs,
           NEW e \in Docs, e.next = d.next, e.tasks = d.tasks, e.held = {}
    PROVE  Healed(e) = [Healed(d) EXCEPT !.held = {}]
<1>1. Marks(e) = Marks(d)
    BY DEF Marks, Present
<1>2. Healed(d) = [next |-> Highest(Marks(d)), tasks |-> d.tasks, held |-> d.held]
    BY HealedIsSound
<1>3. Healed(e) = [next |-> Highest(Marks(e)), tasks |-> e.tasks, held |-> e.held]
    BY HealedIsSound
<1>4. [Healed(d) EXCEPT !.held = {}]
          = [next |-> Highest(Marks(d)), tasks |-> d.tasks, held |-> {}]
    BY <1>2
<1> QED BY <1>1, <1>3, <1>4

LEMMA HoldStep == ASSUME OneProcess, Inv, [Next]_vars PROVE HoldInv'
<1> SUFFICES ASSUME NEW d \in Caller, pc'[d] # "idle" PROVE mu'[ServerOf[d]] = d
    BY DEF HoldInv
<1> USE ServerOfAssumption, CallerAssumption DEF Inv, TypeOK, HoldInv, At, service, notifier
<1>1. ASSUME NEW c \in Caller, Begin(c) PROVE mu'[ServerOf[d]] = d
    BY <1>1, Alone DEF Begin, ReadCounters
<1>2. ASSUME NEW c \in Caller, ReadTasks(c) \/ ReadInstances(c) \/ Save(c)
      PROVE  mu'[ServerOf[d]] = d
    BY <1>2 DEF ReadTasks, ReadInstances, Save
<1>3. ASSUME NEW c \in Caller, Abandon(c) \/ Trigger(c) PROVE mu'[ServerOf[d]] = d
    <2>1. pc[c] # "idle" /\ pc'[c] = "idle" /\ pc'[d] = pc[d]
        BY <1>3 DEF Abandon, Trigger
    <2>2. mu[ServerOf[c]] = c
        BY <2>1
    <2> QED BY <2>1, <2>2, Alone
<1>4. ASSUME NEW c \in Caller, Truncate(c) \/ WriteRevision(c) \/ TouchFails(c)
      PROVE  mu'[ServerOf[d]] = d
    BY <1>4 DEF Truncate, WriteRevision, TouchFails
<1>5. ASSUME NEW s \in Server, ScanStart(s) \/ Scanning(s) PROVE mu'[ServerOf[d]] = d
    BY <1>5 DEF ScanStart, Scanning, ScanSkips, ScanChecks, CheckFails, ScanPushes, PushFails
<1>6. ASSUME NEW s \in Server, Restart(s) PROVE mu'[ServerOf[d]] = d
    BY <1>6 DEF Restart
<1>7. CASE UNCHANGED vars
    BY <1>7 DEF vars
<1> QED BY <1>1, <1>2, <1>3, <1>4, <1>5, <1>6, <1>7 DEF Next, CallerStep, Signalling

LEMMA LoadStep == ASSUME OneProcess, Inv, [Next]_vars PROVE LoadInv'
<1> USE DEF Inv, TypeOK, LoadInv, At, service, notifier
<1>1. ASSUME NEW c \in Caller, Begin(c) PROVE LoadInv'
    BY <1>1 DEF Begin, ReadCounters
<1>2. ASSUME NEW c \in Caller, ReadTasks(c) PROVE LoadInv'
    <2> DEFINE read == [local[c] EXCEPT !.tasks = db.tasks]
    <2>1. read \in Docs /\ read.next = db.next /\ read.tasks = db.tasks /\ read.held = {}
        BY <1>2 DEF ReadTasks, Empty, Docs
    <2>2. Healed(read) = [Healed(db) EXCEPT !.held = {}]
        BY <2>1, HealedParts
    <2> QED BY <1>2, <2>2 DEF ReadTasks
<1>3. ASSUME NEW c \in Caller, ReadInstances(c) PROVE LoadInv'
    <2>1. Healed(db).held = db.held /\ Healed(db) \in Docs
        BY HealedIsSound
    <2>2. [[Healed(db) EXCEPT !.held = {}] EXCEPT !.held = db.held] = Healed(db)
        BY <2>1 DEF Docs
    <2> QED BY <1>3, <2>2 DEF ReadInstances
<1>4. ASSUME NEW c \in Caller, Abandon(c) PROVE LoadInv'
    BY <1>4 DEF Abandon
<1>5. ASSUME NEW c \in Caller, Save(c) PROVE LoadInv'
    <2>1. pc[c] # "idle" /\ mu[ServerOf[c]] = c
        BY <1>5 DEF Save, HoldInv
    <2>2. \A d \in Caller \ {c} : pc[d] = "idle"
        BY <2>1, Alone
    <2> QED BY <1>5, <2>2 DEF Save
<1>6. ASSUME NEW c \in Caller, Signalling(c) PROVE LoadInv'
    BY <1>6 DEF Signalling, Truncate, WriteRevision, TouchFails, Trigger
<1>7. ASSUME NEW s \in Server, ScanStart(s) \/ Scanning(s) PROVE LoadInv'
    BY <1>7 DEF ScanStart, Scanning, ScanSkips, ScanChecks, CheckFails, ScanPushes, PushFails
<1>8. ASSUME NEW s \in Server, Restart(s) PROVE LoadInv'
    BY <1>8 DEF Restart
<1>9. CASE UNCHANGED vars
    BY <1>9 DEF vars
<1> QED BY <1>1, <1>2, <1>3, <1>4, <1>5, <1>6, <1>7, <1>8, <1>9 DEF Next, CallerStep

\* The operators on documents are the same in the two modules.
LEMMA SameDocuments ==
    /\ Serial!Docs = Docs
    /\ \A d : Serial!Sound(d) <=> Sound(d)
    /\ \A d, c : Serial!Effects(d, c) = Effects(d, c)
BY DEF Serial!Docs, Docs, Serial!Ids, Ids, Serial!Sound, Sound, Serial!Present, Present,
       Serial!Effects, Effects, Serial!Empty, Empty, Serial!Created, Created,
       Serial!Create, Create, Serial!Relisted, Relisted

\* A save is the serial Run of its caller; every other step is no step of the document.
LEMMA SerialStep == ASSUME Inv, [Next]_vars PROVE [Serial!Next]_(Healed(db))
<1> USE DEF At, service, notifier
<1>1. ASSUME NEW c \in Caller, Save(c) PROVE Serial!Next
    <2>1. local[c] = Healed(db) /\ db' \in Effects(Healed(db), c)
        BY <1>1 DEF Save, Inv, LoadInv
    <2>2. Healed(db) \in Docs /\ Sound(Healed(db))
        BY HealedIsSound DEF Inv, TypeOK
    <2>3. db' \in Docs /\ Sound(db')
        BY <2>1, <2>2, EffectsAreDocs
    <2>4. Healed(db') = db'
        BY <2>3, SoundIsHealed
    <2>5. Healed(db)' \in Serial!Effects(Healed(db), c)
        BY <2>1, <2>4, SameDocuments
    <2> QED BY <2>5 DEF Serial!Next, Serial!Run
<1>2. ASSUME NEW c \in Caller,
             Begin(c) \/ ReadTasks(c) \/ ReadInstances(c) \/ Abandon(c) \/ Signalling(c)
      PROVE  db' = db
    BY <1>2 DEF Begin, ReadCounters, ReadTasks, ReadInstances, Abandon, Signalling,
                Truncate, WriteRevision, TouchFails, Trigger
<1>3. ASSUME NEW s \in Server, ScanStart(s) \/ Scanning(s) \/ Restart(s) PROVE db' = db
    BY <1>3 DEF ScanStart, Scanning, ScanSkips, ScanChecks, CheckFails, ScanPushes,
                PushFails, Restart
<1>4. CASE UNCHANGED vars
    BY <1>4 DEF vars
<1>5. db' = db => Healed(db)' = Healed(db)
    OBVIOUS
<1> QED BY <1>1, <1>2, <1>3, <1>4, <1>5 DEF Next, CallerStep

\* The service of one process is the serial document: each Run takes effect at once,
\* at its save, on the latest version, whatever overlaps, fails or crashes.
THEOREM SerialCorrect == ASSUME OneProcess PROVE Spec => ImplementsSerial
<1>1. Init => Inv
    BY EmptyIsDoc DEF Init, Inv, TypeOK, HoldInv, LoadInv, Stage, Revision
<1>2. Inv /\ [Next]_vars => Inv'
    BY TypeStep, HoldStep, LoadStep DEF Inv
<1>3. Init => Serial!Init
    BY HealedIsSound, SameDocuments DEF Init, Serial!Init
<1>4. Inv /\ [Next]_vars => [Serial!Next]_(Healed(db))
    BY SerialStep
<1> QED BY <1>1, <1>2, <1>3, <1>4, PTL DEF Spec, ImplementsSerial, Serial!Spec

=============================================================================

------------------------ MODULE KnowledgeIndexProofs ------------------------
(***************************************************************************)
(* The types of KnowledgeIndex, and that a stale document has one of the   *)
(* causes StaleHasCause lists, for any files, versions and queue.          *)
(***************************************************************************)
EXTENDS KnowledgeIndex, TLAPS

LEMMA VersionsAreNaturals == Version \subseteq Nat /\ 0 \in Version
  BY BoundsAssumption DEF Version

\* Every state has the declared types.
THEOREM TypeCorrect == Spec => []TypeOK
<1> USE FilesAssumption, BoundsAssumption
<1>1. Init => TypeOK
  BY VersionsAreNaturals DEF Init, TypeOK, Nothing
<1>2. TypeOK /\ [Next]_vars => TypeOK'
  <2> SUFFICES ASSUME TypeOK, [Next]_vars PROVE TypeOK'
    OBVIOUS
  <2> USE VersionsAreNaturals DEF TypeOK, scan, items, Nothing
  <2>1. ASSUME NEW f \in File, ListName(f) \/ ReadListed(f) \/ Prune(f) \/ PruneFails(f)
        PROVE  TypeOK'
    BY <2>1 DEF ListName, ReadListed, Prune, PruneFails
  <2>2. ASSUME NEW f \in File, StoreParsed(f) \/ StoreFails(f)
        PROVE  TypeOK'
    BY <2>2 DEF StoreParsed, StoreFails
  <2>3. CASE EndWalk \/ EndScan \/ StartWatcher
    BY <2>3 DEF EndWalk, EndScan, StartWatcher
  <2>10. CASE Begin
    <3>1. /\ walk' \in [File -> {"ahead", "listed", "seen", "passed"}]
          /\ existing' \subseteq File
      BY <2>10 DEF Begin
    <3> QED
      BY <2>10, <3>1 DEF Begin
  <2>11. CASE Stop
    <3>1. /\ walk' \in [File -> {"ahead", "listed", "seen", "passed"}]
          /\ parsed' \in [File -> Version]
          /\ events' \in Seq(Event) /\ Len(events') = 0
      BY <2>11 DEF Stop
    <3> QED
      BY <2>11, <3>1 DEF Stop
  <2>4. CASE Watch
    <3>1. /\ events # <<>>
          /\ Head(events) \in Event
          /\ Tail(events) \in Seq(Event)
          /\ Len(Tail(events)) = Len(events) - 1
      BY <2>4 DEF Watch, SkipEvent, HandleRemove, HandleWrite
    <3>2. Head(events).file \in File
      BY <3>1 DEF Event
    <3>3. CASE SkipEvent
      BY <3>1, <3>2, <3>3 DEF SkipEvent
    <3>4. CASE HandleRemove
      BY <3>1, <3>2, <3>4 DEF HandleRemove
    <3>5. CASE HandleWrite
      BY <3>1, <3>2, <3>5 DEF HandleWrite
    <3> QED
      BY <2>4, <3>3, <3>4, <3>5 DEF Watch
  <2>5. CASE Sync
    BY <2>5 DEF Sync, SyncRead, SyncStore, SyncFails
  <2>6. ASSUME NEW f \in File, NEW v \in Version, Edit(f, v)
        PROVE  TypeOK'
    <3>1. /\ disk' \in [File -> Version]
          /\ missed' \subseteq File
      BY <2>6 DEF Edit
    <3>2. events' \in Seq(Event) /\ Len(events') <= MaxEvents
      <4>1. CASE phase = "watch" /\ f \in Watched /\ Len(events) < MaxEvents
        <5>1. [file |-> f, kind |-> IF v = 0 THEN "remove" ELSE "write"] \in Event
          BY <4>1 DEF Event
        <5> QED
          BY <2>6, <4>1, <5>1 DEF Edit
      <4>2. CASE ~(phase = "watch" /\ f \in Watched /\ Len(events) < MaxEvents)
        BY <2>6, <4>2 DEF Edit
      <4> QED
        BY <4>1, <4>2
    <3> QED
      BY <2>6, <3>1, <3>2 DEF Edit
  <2>7. ASSUME NEW v \in Version, ChangeItem(v)
        PROVE  TypeOK'
    BY <2>7 DEF ChangeItem
  <2>8. ASSUME NEW f \in File, Quiet(f)
        PROVE  TypeOK'
    BY <2>8 DEF Quiet
  <2>9. CASE UNCHANGED vars
    BY <2>9 DEF vars
  <2> QED
    BY <2>1, <2>2, <2>3, <2>4, <2>5, <2>6, <2>7, <2>8, <2>9, <2>10, <2>11
       DEF Next, Indexer, Scan, Walk, Store, Environment
<1> QED
  BY <1>1, <1>2, PTL DEF Spec

-----------------------------------------------------------------------------
(***************************************************************************)
(* The queue.                                                              *)
(***************************************************************************)
LEMMA PendingTail ==
  ASSUME NEW es \in Seq(Event), es # <<>>, NEW f
  PROVE  Pending(f, es) <=> Head(es).file = f \/ Pending(f, Tail(es))
<1>1. /\ Head(es) = es[1]
      /\ Len(Tail(es)) = Len(es) - 1
      /\ \A i \in 1..Len(Tail(es)) : Tail(es)[i] = es[i + 1]
      /\ Len(es) \in Nat \ {0}
  OBVIOUS
<1>2. ASSUME Pending(f, es) PROVE Head(es).file = f \/ Pending(f, Tail(es))
  <2>1. PICK i \in 1..Len(es) : es[i].file = f
    BY <1>2 DEF Pending
  <2>2. CASE i = 1
    BY <1>1, <2>1, <2>2
  <2>3. CASE i # 1
    <3>1. i - 1 \in 1..Len(Tail(es)) /\ Tail(es)[i - 1] = es[i]
      BY <1>1, <2>1, <2>3
    <3> QED
      BY <2>1, <3>1 DEF Pending
  <2> QED
    BY <2>2, <2>3
<1>3. ASSUME Head(es).file = f PROVE Pending(f, es)
  BY <1>1, <1>3 DEF Pending
<1>4. ASSUME Pending(f, Tail(es)) PROVE Pending(f, es)
  <2>1. PICK i \in 1..Len(Tail(es)) : Tail(es)[i].file = f
    BY <1>4 DEF Pending
  <2>2. i + 1 \in 1..Len(es) /\ es[i + 1].file = f
    BY <1>1, <2>1
  <2> QED
    BY <2>2 DEF Pending
<1> QED
  BY <1>2, <1>3, <1>4

LEMMA PendingAppend ==
  ASSUME NEW es \in Seq(Event), NEW e \in Event, NEW f
  PROVE  Pending(f, Append(es, e)) <=> Pending(f, es) \/ e.file = f
<1>1. /\ Len(Append(es, e)) = Len(es) + 1
      /\ Append(es, e)[Len(es) + 1] = e
      /\ \A i \in 1..Len(es) : Append(es, e)[i] = es[i]
      /\ Len(es) \in Nat
  OBVIOUS
<1>2. \A i \in 1..(Len(es) + 1) : i \in 1..Len(es) \/ i = Len(es) + 1
  BY <1>1
<1>3. Len(es) + 1 \in 1..(Len(es) + 1) /\ \A i \in 1..Len(es) : i \in 1..(Len(es) + 1)
  BY <1>1
<1> QED
  BY <1>1, <1>2, <1>3 DEF Pending

\* The last event of a file tells whether the file is there, unless the file
\* is one of m.
Matched(es, d, m) ==
  \A i \in 1..Len(es) :
     \/ \E j \in 1..Len(es) : j > i /\ es[j].file = es[i].file
     \/ es[i].file \in m
     \/ es[i].kind = "write" <=> d[es[i].file] # 0

LEMMA MatchedTail ==
  ASSUME NEW es \in Seq(Event), es # <<>>, NEW d, NEW m, Matched(es, d, m)
  PROVE  Matched(Tail(es), d, m)
<1>1. /\ Len(Tail(es)) = Len(es) - 1
      /\ \A i \in 1..Len(Tail(es)) : Tail(es)[i] = es[i + 1]
      /\ Len(es) \in Nat \ {0}
  OBVIOUS
<1> SUFFICES ASSUME NEW i \in 1..Len(Tail(es)), Tail(es)[i].file \notin m,
                    ~(Tail(es)[i].kind = "write" <=> d[Tail(es)[i].file] # 0)
             PROVE  \E j \in 1..Len(Tail(es)) : j > i /\ Tail(es)[j].file = Tail(es)[i].file
  BY DEF Matched
<1>2. i + 1 \in 1..Len(es) /\ Tail(es)[i] = es[i + 1]
  BY <1>1
<1>3. PICK j \in 1..Len(es) : j > i + 1 /\ es[j].file = es[i + 1].file
  BY <1>2 DEF Matched
<1>4. j - 1 \in 1..Len(Tail(es)) /\ j - 1 > i /\ Tail(es)[j - 1] = es[j]
  BY <1>1, <1>3
<1> QED
  BY <1>2, <1>3, <1>4

LEMMA MatchedHead ==
  ASSUME NEW es \in Seq(Event), es # <<>>, NEW d, NEW m, Matched(es, d, m),
         ~Pending(Head(es).file, Tail(es)), Head(es).file \notin m
  PROVE  Head(es).kind = "write" <=> d[Head(es).file] # 0
<1>1. /\ Len(Tail(es)) = Len(es) - 1
      /\ Head(es) = es[1]
      /\ \A i \in 1..Len(Tail(es)) : Tail(es)[i] = es[i + 1]
      /\ Len(es) \in Nat \ {0}
  OBVIOUS
<1>2. ~\E j \in 1..Len(es) : j > 1 /\ es[j].file = es[1].file
  <2> SUFFICES ASSUME NEW j \in 1..Len(es), j > 1, es[j].file = es[1].file PROVE FALSE
    OBVIOUS
  <2>1. j - 1 \in 1..Len(Tail(es)) /\ Tail(es)[j - 1] = es[j]
    BY <1>1
  <2> QED
    BY <1>1, <2>1 DEF Pending
<1>3. 1 \in 1..Len(es)
  BY <1>1
<1> QED
  BY <1>1, <1>2, <1>3 DEF Matched

LEMMA MatchedAppend ==
  ASSUME NEW es \in Seq(Event), NEW d, NEW c, NEW m, NEW e \in Event, Matched(es, d, m),
         e.kind = "write" <=> c[e.file] # 0,
         \A g \in Watched : g # e.file => c[g] = d[g]
  PROVE  Matched(Append(es, e), c, m)
<1>1. /\ Len(Append(es, e)) = Len(es) + 1
      /\ Append(es, e)[Len(es) + 1] = e
      /\ \A i \in 1..Len(es) : Append(es, e)[i] = es[i]
      /\ Len(es) \in Nat
  OBVIOUS
<1>5. \A i \in 1..Len(es) : es[i].file \in Watched
  <2>1. \A i \in 1..Len(es) : es[i] \in Event
    OBVIOUS
  <2> QED
    BY <2>1 DEF Event
<1> SUFFICES ASSUME NEW i \in 1..(Len(es) + 1)
             PROVE  \/ \E j \in 1..(Len(es) + 1) :
                         j > i /\ Append(es, e)[j].file = Append(es, e)[i].file
                    \/ Append(es, e)[i].file \in m
                    \/ Append(es, e)[i].kind = "write" <=> c[Append(es, e)[i].file] # 0
  BY <1>1 DEF Matched
<1>2. CASE i = Len(es) + 1
  BY <1>1, <1>2
<1>3. CASE i \in 1..Len(es) /\ es[i].file = e.file
  <2>1. Len(es) + 1 \in 1..(Len(es) + 1) /\ Len(es) + 1 > i
    BY <1>1, <1>3
  <2> QED
    BY <1>1, <1>3, <2>1
<1>4. CASE i \in 1..Len(es) /\ es[i].file # e.file
  <2>1. c[es[i].file] = d[es[i].file]
    BY <1>4, <1>5
  <2>2. CASE \E j \in 1..Len(es) : j > i /\ es[j].file = es[i].file
    <3>1. PICK j \in 1..Len(es) : j > i /\ es[j].file = es[i].file
      BY <2>2
    <3>2. j \in 1..(Len(es) + 1)
      BY <1>1
    <3> QED
      BY <1>1, <1>4, <3>1, <3>2
  <2> QED
    BY <1>1, <1>4, <2>1, <2>2 DEF Matched
<1> QED
  BY <1>1, <1>2, <1>3, <1>4

\* Files may be added to m, and those without an event taken out.
LEMMA MatchedOthers ==
  ASSUME NEW es \in Seq(Event), NEW d, NEW m, NEW n, Matched(es, d, m),
         \A g \in m \ n : ~Pending(g, es)
  PROVE  Matched(es, d, n)
  BY DEF Matched, Pending

-----------------------------------------------------------------------------
(***************************************************************************)
(* The invariant.  At most one file is being stored, and its content is    *)
(* the latest, or an event will tell, or it is missed; a document of a file*)
(* the walk passed over will be removed, or is missed; a file it passed    *)
(* over that is there is missed; and the queue is right about what it ends *)
(* with.                                                                   *)
(***************************************************************************)
OneParsed == \A f, g \in File : parsed[f] # 0 /\ parsed[g] # 0 => f = g

ParsedKnown ==
  \A f \in File : parsed[f] # 0 =>
     /\ \/ phase = "walk" /\ walk[f] = "listed"
        \/ phase = "watch"
     /\ parsed[f] = disk[f] \/ f \in missed \/ Pending(f, events)

QueueOnlyWatching == phase # "watch" => events = <<>>

WalkKnows ==
  \A f \in File :
     /\ phase = "prune" => walk[f] \in {"seen", "passed"}
     /\ phase \in {"walk", "prune"} /\ walk[f] = "passed" /\ index[f] # 0 =>
          f \in existing \/ f \in missed
     /\ phase \in {"walk", "prune"} /\ walk[f] = "passed" /\ disk[f] # 0 => f \in missed

IInv ==
  /\ StaleHasCause
  /\ OneParsed
  /\ ParsedKnown
  /\ QueueOnlyWatching
  /\ WalkKnows
  /\ Matched(events, disk, missed)

LEMMA NothingQueued == \A f, d, m : ~Pending(f, <<>>) /\ Matched(<<>>, d, m)
<1>1. 1..Len(<<>>) = {}
  OBVIOUS
<1> QED
  BY <1>1 DEF Pending, Matched

\* The scan's steps with a file keep the invariant.
LEMMA WalkKeeps ==
  ASSUME TypeOK, IInv, NEW f \in File,
         ListName(f) \/ ReadListed(f) \/ Prune(f) \/ PruneFails(f)
  PROVE  IInv'
<1> USE DEF TypeOK, IInv, scan, items, Nothing, StaleHasCause, OneParsed, ParsedKnown,
            QueueOnlyWatching, WalkKnows, ScanAhead
<1> USE NothingQueued
<1>1. CASE ListName(f)
  BY <1>1 DEF ListName
<1>2. CASE ReadListed(f)
  BY <1>2 DEF ReadListed
<1>3. CASE Prune(f)
  BY <1>3 DEF Prune
<1>4. CASE PruneFails(f)
  BY <1>4 DEF PruneFails
<1> QED
  BY <1>1, <1>2, <1>3, <1>4

\* So do those that change its phase.
LEMMA PhaseKeeps ==
  ASSUME TypeOK, IInv, EndWalk \/ EndScan \/ StartWatcher \/ Begin \/ Stop
  PROVE  IInv'
<1> USE DEF TypeOK, IInv, scan, items, Nothing, StaleHasCause, OneParsed, ParsedKnown,
            QueueOnlyWatching, WalkKnows, ScanAhead
<1> USE NothingQueued
<1>1. CASE EndWalk
  BY <1>1 DEF EndWalk
<1>2. CASE EndScan
  BY <1>2 DEF EndScan
<1>3. CASE StartWatcher
  BY <1>3 DEF StartWatcher
<1>4. CASE Begin
  BY <1>4 DEF Begin
<1>5. CASE Stop
  BY <1>5 DEF Stop
<1> QED
  BY <1>1, <1>2, <1>3, <1>4, <1>5

\* So do storing a document and failing to.
LEMMA StoreKeeps ==
  ASSUME TypeOK, IInv, NEW f \in File, StoreParsed(f) \/ StoreFails(f)
  PROVE  IInv'
<1> USE DEF TypeOK, IInv, items, Nothing
<1>1. CASE StoreParsed(f)
  <2>1. \A g \in File : g # f => parsed[g] = 0
    BY <1>1 DEF StoreParsed, OneParsed
  <2>2. \A g \in missed \ missed' : g = f /\ ~Pending(f, events) /\ parsed[f] = disk[f]
    BY <1>1 DEF StoreParsed
  <2>3. Matched(events, disk, missed)'
    BY <1>1, <2>2, MatchedOthers DEF StoreParsed
  <2>4. StaleHasCause'
    BY <1>1, <2>1, <2>2 DEF StoreParsed, StaleHasCause, ParsedKnown, ScanAhead
  <2>5. (OneParsed /\ ParsedKnown /\ QueueOnlyWatching)'
    BY <1>1 DEF StoreParsed, OneParsed, ParsedKnown, QueueOnlyWatching
  <2>6. WalkKnows'
    BY <1>1, <2>2 DEF StoreParsed, WalkKnows, ParsedKnown
  <2> QED
    BY <2>3, <2>4, <2>5, <2>6
<1>2. CASE StoreFails(f)
  <2>1. \A g \in File : g # f => parsed[g] = 0
    BY <1>2 DEF StoreFails, OneParsed
  <2>2. Matched(events, disk, missed)'
    BY <1>2, MatchedOthers DEF StoreFails
  <2>3. StaleHasCause'
    BY <1>2, <2>1 DEF StoreFails, StaleHasCause, ParsedKnown, ScanAhead
  <2>4. (OneParsed /\ ParsedKnown /\ QueueOnlyWatching)'
    BY <1>2 DEF StoreFails, OneParsed, ParsedKnown, QueueOnlyWatching
  <2>5. WalkKnows'
    BY <1>2 DEF StoreFails, WalkKnows, ParsedKnown
  <2> QED
    BY <2>2, <2>3, <2>4, <2>5
<1> QED
  BY <1>1, <1>2

\* So does whatever the watch loop does with an event.
LEMMA WatchKeeps ==
  ASSUME TypeOK, IInv, Watch
  PROVE  IInv'
<1> DEFINE f == Head(events).file
<1> USE DEF TypeOK, IInv, scan, items, Nothing
<1>1. /\ phase = "watch" /\ UNCHANGED <<phase, disk, existing, walk>>
      /\ events # <<>>
      /\ events' = Tail(events) /\ events' \in Seq(Event)
      /\ parsed = Nothing
  BY DEF Watch, SkipEvent, HandleRemove, HandleWrite
<1>2. f \in File
  <2>1. Head(events) \in Event
    BY <1>1
  <2> QED
    BY <2>1, FilesAssumption DEF Event
<1>3. \A g : Pending(g, events) <=> f = g \/ Pending(g, events')
  BY <1>1, PendingTail
<1>4. Matched(events', disk, missed)
  BY <1>1, MatchedTail
<1>5. ~Pending(f, events') /\ f \notin missed => (Head(events).kind = "write" <=> disk[f] # 0)
  BY <1>1, MatchedHead
<1>6. OneParsed' /\ QueueOnlyWatching' /\ WalkKnows'
  <2>1. OneParsed'
    BY <1>1, <1>2 DEF Watch, SkipEvent, HandleRemove, HandleWrite, OneParsed
  <2> QED
    BY <1>1, <2>1 DEF QueueOnlyWatching, WalkKnows
<1>7. CASE SkipEvent
  <2>1. Matched(events, disk, missed)'
    <3>1. missed \subseteq missed'
      BY <1>7 DEF SkipEvent
    <3>2. Matched(events', disk, missed')
      BY <1>1, <1>4, <3>1, MatchedOthers
    <3> QED
      BY <1>1, <3>2
  <2>2. StaleHasCause' /\ ParsedKnown'
    BY <1>1, <1>3, <1>7 DEF SkipEvent, StaleHasCause, ParsedKnown, ScanAhead
  <2> QED
    BY <1>6, <2>1, <2>2
<1>8. CASE HandleRemove
  <2>1. \A g \in missed \ missed' : ~Pending(g, events')
    BY <1>1, <1>8 DEF HandleRemove
  <2>2. Matched(events, disk, missed)'
    <3>1. Matched(events', disk, missed')
      BY <1>1, <1>4, <2>1, MatchedOthers
    <3> QED
      BY <1>1, <3>1
  <2>3. StaleHasCause' /\ ParsedKnown'
    BY <1>1, <1>2, <1>3, <1>5, <1>8 DEF HandleRemove, StaleHasCause, ParsedKnown, ScanAhead
  <2> QED
    BY <1>6, <2>2, <2>3
<1>9. CASE HandleWrite
  <2>1. missed \subseteq missed' /\ UNCHANGED index
    BY <1>9 DEF HandleWrite
  <2>2. Matched(events, disk, missed)'
    <3>1. Matched(events', disk, missed')
      BY <1>1, <1>4, <2>1, MatchedOthers
    <3> QED
      BY <1>1, <3>1
  <2>3. StaleHasCause' /\ ParsedKnown'
    BY <1>1, <1>2, <1>3, <1>5, <1>9 DEF HandleWrite, StaleHasCause, ParsedKnown, ScanAhead
  <2> QED
    BY <1>6, <2>2, <2>3
<1> QED
  BY <1>7, <1>8, <1>9 DEF Watch

\* So does an edit, told to the indexer or not.
LEMMA EditKeeps ==
  ASSUME TypeOK, IInv, NEW f \in File, NEW v \in Version, Edit(f, v)
  PROVE  IInv'
<1> DEFINE told == phase = "watch" /\ f \in Watched /\ Len(events) < MaxEvents
           e == [file |-> f, kind |-> IF v = 0 THEN "remove" ELSE "write"]
<1> USE DEF TypeOK, IInv, scan, items, Nothing
<1>1. /\ disk' = [disk EXCEPT ![f] = v]
      /\ events' = IF told THEN Append(events, e) ELSE events
      /\ UNCHANGED <<index, phase, existing, walk, parsed>>
      /\ missed' = IF told \/ ScanAhead(f, v) THEN missed ELSE missed \cup {f}
  BY DEF Edit
<1>2. CASE told
  <2>1. e \in Event /\ e.file = f /\ (e.kind = "write" <=> v # 0)
    BY <1>2 DEF Event
  <2>2. events' = Append(events, e) /\ missed' = missed
    BY <1>1, <1>2
  <2>3. \A g : Pending(g, events') <=> Pending(g, events) \/ g = f
    BY <2>1, <2>2, PendingAppend
  <2>4. Matched(events, disk, missed)'
    <3>1. \A g \in Watched : g # f => disk'[g] = disk[g]
      BY <1>1, FilesAssumption
    <3>2. disk'[f] = v
      BY <1>1
    <3>3. Matched(Append(events, e), disk', missed)
      BY <2>1, <3>1, <3>2, MatchedAppend
    <3> QED
      BY <2>2, <3>3
  <2>5. StaleHasCause' /\ ParsedKnown'
    BY <1>1, <1>2, <2>2, <2>3 DEF StaleHasCause, ParsedKnown, ScanAhead
  <2>6. OneParsed' /\ QueueOnlyWatching' /\ WalkKnows'
    BY <1>1, <1>2, <2>2 DEF OneParsed, QueueOnlyWatching, WalkKnows
  <2> QED
    BY <2>4, <2>5, <2>6
<1>3. CASE ~told
  <2>1. events' = events /\ missed \subseteq missed' /\ (ScanAhead(f, v) \/ f \in missed')
    BY <1>1, <1>3
  <2>2. Matched(events, disk, missed)'
    BY <1>1, <2>1 DEF Matched, QueueOnlyWatching, ScanAhead
  <2>3. StaleHasCause'
    BY <1>1, <2>1 DEF StaleHasCause, ScanAhead
  <2>4. ParsedKnown'
    BY <1>1, <2>1 DEF ParsedKnown, ScanAhead
  <2>5. OneParsed' /\ QueueOnlyWatching'
    BY <1>1, <2>1 DEF OneParsed, QueueOnlyWatching
  <2>6. WalkKnows'
    BY <1>1, <2>1 DEF WalkKnows, ScanAhead
  <2> QED
    BY <2>2, <2>3, <2>4, <2>5, <2>6
<1> QED
  BY <1>2, <1>3

\* A stale document has one of the causes StaleHasCause lists.
THEOREM StaleCorrect == Spec => []StaleHasCause
<1>1. Init => IInv
  BY NothingQueued DEF Init, IInv, StaleHasCause, OneParsed, ParsedKnown, QueueOnlyWatching,
     WalkKnows, Nothing
<1>2. TypeOK /\ IInv /\ [Next]_vars => IInv'
  <2> SUFFICES ASSUME TypeOK, IInv, [Next]_vars PROVE IInv'
    OBVIOUS
  <2>1. CASE Scan \/ Begin \/ Stop
    BY <2>1, WalkKeeps, PhaseKeeps DEF Scan, Walk
  <2>2. CASE Store
    BY <2>2, StoreKeeps DEF Store
  <2>3. CASE Watch
    BY <2>3, WatchKeeps
  <2>4. ASSUME NEW f \in File, NEW v \in Version, Edit(f, v)
        PROVE  IInv'
    BY <2>4, EditKeeps
  <2>5. CASE Sync \/ (\E v \in Version : ChangeItem(v)) \/ (\E f \in File : Quiet(f)) \/ UNCHANGED vars
    <3>1. UNCHANGED <<disk, index, phase, existing, walk, parsed, events, missed>>
      BY <2>5 DEF Sync, SyncRead, SyncStore, SyncFails, ChangeItem, Quiet, vars, scan, items
    <3> QED
      BY <3>1 DEF IInv, StaleHasCause, OneParsed, ParsedKnown, QueueOnlyWatching, WalkKnows,
         ScanAhead, Pending, Matched
  <2> QED
    BY <2>1, <2>2, <2>3, <2>4, <2>5 DEF Next, Indexer, Environment
<1>3. IInv => StaleHasCause
  BY DEF IInv
<1> QED
  BY <1>1, <1>2, <1>3, TypeCorrect, PTL DEF Spec

-----------------------------------------------------------------------------
\* The indexer has scanned, no event is queued and no content is about to be
\* stored.
AtRest == phase \in {"scanned", "watch", "blind"} /\ events = <<>> /\ parsed = Nothing

\* Whenever the indexer comes to rest, every document is that of its file, but
\* for the files missed: what SettlesUnlessMissed says of the end, here of every
\* pause between two changes.
RestIsCurrent == AtRest => \A f \in File : f \notin missed => index[f] = disk[f]

THEOREM RestCorrect == Spec => []RestIsCurrent
<1>1. StaleHasCause => RestIsCurrent
  BY DEF StaleHasCause, RestIsCurrent, AtRest, ScanAhead, Pending, Nothing
<1> QED
  BY <1>1, StaleCorrect, PTL

=============================================================================

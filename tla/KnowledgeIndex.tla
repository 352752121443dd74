--------------------------- MODULE KnowledgeIndex ---------------------------
(***************************************************************************)
(* The knowledge indexer: a full scan of the workspace at the start, then  *)
(* the events of a file watcher, debounced, and a periodic synchronisation *)
(* of session notes and completed tasks.  Files change at any time, while  *)
(* the server is down, between the steps of the scan, and between reading  *)
(* a file and storing it.                                                  *)
(*                                                                         *)
(* A file is the version of its content, 0 where there is none; two        *)
(* versions with the same checksum are one.  Files are those ShouldIndex   *)
(* accepts.  Parsing and searching texts is not modelled.                  *)
(***************************************************************************)
EXTENDS Naturals, Sequences

CONSTANTS
  File,
  Watched,     \* files in the directories startWatcher adds
  MaxVersion,  \* versions of a file or an item, used again and again
  MaxEvents    \* events the watcher's queue has room for

ASSUME FilesAssumption == Watched \subseteq File
ASSUME BoundsAssumption == MaxVersion \in Nat /\ MaxEvents \in Nat

VARIABLES
  disk,      \* the files
  index,     \* the documents of the store, by path
  phase,     \* of Indexer.Start
  existing,  \* FullScan's paths, those it got to know were indexed
  walk,      \* how far its walk is with a file
  parsed,    \* the content of a file that has been read and not yet stored
  events,    \* the watcher's queue
  debounce,  \* files whose event was handled within the last two seconds
  item,      \* a note or a completed task in the state, as a version
  held,      \* the item as syncState got it from the state service
  itemDoc,   \* the document of that item
  missed     \* history: files with a change the running scan, or the watcher,
             \* will not come back to

scan == <<existing, walk>>
items == <<item, held, itemDoc>>
vars == <<disk, index, phase, scan, parsed, events, debounce, items, missed>>

Version == 0..MaxVersion
Event == [file : Watched, kind : {"write", "remove"}]

TypeOK ==
  /\ disk \in [File -> Version]
  /\ index \in [File -> Version]
  /\ phase \in {"off", "walk", "prune", "scanned", "watch", "blind"}
  /\ existing \subseteq File
  /\ walk \in [File -> {"ahead", "listed", "seen", "passed"}]
  /\ parsed \in [File -> Version]
  /\ events \in Seq(Event)
  /\ Len(events) <= MaxEvents
  /\ debounce \subseteq File
  /\ item \in Version
  /\ held \in Version
  /\ itemDoc \in Version
  /\ missed \subseteq File

Nothing == [f \in File |-> 0]

Init ==
  /\ disk \in [File -> Version]
  /\ index = Nothing
  /\ phase = "off"
  /\ existing = {}
  /\ walk = [f \in File |-> "passed"]
  /\ parsed = Nothing
  /\ events = <<>>
  /\ debounce = {}
  /\ item = 0
  /\ held = 0
  /\ itemDoc = 0
  /\ missed = {f \in File : disk[f] # 0}

-----------------------------------------------------------------------------
Pending(f, es) == \E i \in 1..Len(es) : es[i].file = f

\* The scan has yet to read the file with content c, or to remove the document
\* of one that is gone.
ScanAhead(f, c) ==
  /\ parsed[f] = 0
  /\ \/ phase = "walk" /\ walk[f] \in {"ahead", "listed"} /\ (c # 0 \/ index[f] = 0)
     \/ phase \in {"walk", "prune"} /\ f \in existing /\ walk[f] # "seen" /\ c = 0

\* Somebody writes, creates, moves or removes a file.  The watcher learns of
\* it if it watches the directory and its queue is not full.
Edit(f, v) ==
  LET told == phase = "watch" /\ f \in Watched /\ Len(events) < MaxEvents
      e    == [file |-> f, kind |-> IF v = 0 THEN "remove" ELSE "write"]
  IN /\ v # disk[f]
     /\ disk' = [disk EXCEPT ![f] = v]
     /\ events' = IF told THEN Append(events, e) ELSE events
     /\ UNCHANGED <<index, phase, scan, parsed, debounce, items>>
     /\ missed' = IF told \/ ScanAhead(f, v) THEN missed ELSE missed \cup {f}

\* A note is added, a task completed or reopened, the state reset, an id
\* used again.
ChangeItem(v) ==
  /\ v # item
  /\ item' = v
  /\ UNCHANGED <<disk, index, phase, scan, parsed, events, debounce, held, itemDoc, missed>>

-----------------------------------------------------------------------------
(***************************************************************************)
(* FullScan                                                                *)
(***************************************************************************)
\* The walk comes to every file anew.  The error of IndexedPaths is ignored: the
\* scan goes on with the paths it got, all, some or none, and the documents of
\* the other files will not be removed.
Begin ==
  /\ phase = "off"
  /\ phase' = "walk"
  /\ existing' \in SUBSET {f \in File : index[f] # 0}
  /\ walk' = [f \in File |-> "ahead"]
  /\ missed' = {f \in File \ existing' : index[f] # 0 /\ disk[f] = 0}
  /\ UNCHANGED <<disk, index, parsed, events, debounce, items>>

\* filepath.Walk reads the names of a directory, then goes through them.
ListName(f) ==
  /\ phase = "walk"
  /\ walk[f] = "ahead"
  /\ walk' = [walk EXCEPT ![f] = IF disk[f] = 0 THEN "passed" ELSE "listed"]
  /\ UNCHANGED <<disk, index, phase, existing, parsed, events, debounce, items, missed>>

\* walkFn's ParseFile; a file that is gone or cannot be read is passed over.
ReadListed(f) ==
  /\ phase = "walk"
  /\ walk[f] = "listed"
  /\ parsed = Nothing
  /\ UNCHANGED <<disk, index, phase, existing, events, debounce, items>>
  /\ \/ /\ disk[f] # 0
        /\ parsed' = [parsed EXCEPT ![f] = disk[f]]
        /\ UNCHANGED <<walk, missed>>
     \/ /\ walk' = [walk EXCEPT ![f] = "passed"]
        /\ missed' = IF disk[f] = 0 THEN missed ELSE missed \cup {f}
        /\ UNCHANGED parsed

\* IndexIfChanged, in the walk and in the watch loop: the checksum is looked
\* up under one lock and the document replaced under another, but nobody
\* else writes documents of files.
FaultyStoreParsed(f) ==
  /\ parsed[f] # 0
  /\ index' = IF index[f] = 0 THEN [index EXCEPT ![f] = parsed[f]] ELSE index
  /\ walk' = [walk EXCEPT ![f] = IF phase = "walk" THEN "seen" ELSE @]
  /\ parsed' = Nothing
  /\ UNCHANGED <<disk, phase, existing, events, debounce, items>>
  /\ missed' = IF parsed[f] = disk[f] /\ ~Pending(f, events) THEN missed \ {f} ELSE missed

FaultySeen(f) ==
  /\ parsed[f] # 0
  /\ index' = [index EXCEPT ![f] = parsed[f]]
  /\ walk' = [walk EXCEPT ![f] = IF phase # "walk" THEN @
                                 ELSE IF index[f] = parsed[f] THEN "passed" ELSE "seen"]
  /\ parsed' = Nothing
  /\ UNCHANGED <<disk, phase, existing, events, debounce, items>>
  /\ missed' = IF parsed[f] = disk[f] /\ ~Pending(f, events) THEN missed \ {f} ELSE missed

StoreParsed(f) ==
  /\ parsed[f] # 0
  /\ index' = [index EXCEPT ![f] = parsed[f]]
  /\ walk' = [walk EXCEPT ![f] = IF phase = "walk" THEN "seen" ELSE @]
  /\ parsed' = Nothing
  /\ UNCHANGED <<disk, phase, existing, events, debounce, items>>
  /\ missed' = IF parsed[f] = disk[f] /\ ~Pending(f, events) THEN missed \ {f} ELSE missed

\* The store's error is logged, and that is all.
StoreFails(f) ==
  /\ parsed[f] # 0
  /\ walk' = [walk EXCEPT ![f] = IF phase = "walk" THEN "passed" ELSE @]
  /\ parsed' = Nothing
  /\ UNCHANGED <<disk, index, phase, existing, events, debounce, items>>
  /\ missed' = missed \cup {f}

EndWalk ==
  /\ phase = "walk"
  /\ parsed = Nothing
  /\ \A f \in File : walk[f] \in {"seen", "passed"}
  /\ phase' = "prune"
  /\ UNCHANGED <<disk, index, scan, parsed, events, debounce, items, missed>>

\* What was indexed and not seen is removed, even if it is there by now.
Prune(f) ==
  /\ phase = "prune"
  /\ f \in existing
  /\ existing' = existing \ {f}
  /\ index' = IF walk[f] = "seen" THEN index ELSE [index EXCEPT ![f] = 0]
  /\ UNCHANGED <<disk, phase, walk, parsed, events, debounce, items, missed>>

PruneFails(f) ==
  /\ phase = "prune"
  /\ f \in existing
  /\ walk[f] # "seen"
  /\ existing' = existing \ {f}
  /\ UNCHANGED <<disk, index, phase, walk, parsed, events, debounce, items>>
  /\ missed' = missed \cup {f}

EndScan ==
  /\ phase = "prune"
  /\ existing = {}
  /\ phase' = "scanned"
  /\ UNCHANGED <<disk, index, scan, parsed, events, debounce, items, missed>>

-----------------------------------------------------------------------------
(***************************************************************************)
(* Watching, synchronising, stopping                                       *)
(***************************************************************************)
\* Without a watcher the indexer goes on synchronising items only.
StartWatcher ==
  /\ phase = "scanned"
  /\ held = 0
  /\ phase' \in {"watch", "blind"}
  /\ UNCHANGED <<disk, index, scan, parsed, events, debounce, items, missed>>

\* The event of a file that had one within the window is passed over.
SkipEvent ==
  /\ phase = "watch"
  /\ parsed = Nothing
  /\ events # <<>>
  /\ Head(events).file \in debounce
  /\ events' = Tail(events)
  /\ UNCHANGED <<disk, index, phase, scan, parsed, debounce, items>>
  /\ missed' = missed \cup {f \in {Head(events).file} :
                             index[f] # disk[f] /\ ~Pending(f, Tail(events))}

\* The removal is carried out, or fails, whatever is on disk by now.
HandleRemove ==
  LET f == Head(events).file
  IN /\ phase = "watch"
     /\ parsed = Nothing
     /\ events # <<>>
     /\ Head(events).kind = "remove"
     /\ f \notin debounce
     /\ events' = Tail(events)
     /\ debounce' = debounce \cup {f}
     /\ \/ /\ index' = [index EXCEPT ![f] = 0]
           /\ missed' = IF disk[f] = 0 /\ ~Pending(f, Tail(events)) THEN missed \ {f} ELSE missed
        \/ /\ missed' = missed \cup {f}
           /\ UNCHANGED index
     /\ UNCHANGED <<disk, phase, scan, parsed, items>>

\* The file is read as it is by now, or cannot be read; if it is gone, its
\* removal is queued.
MistypedHandleWrite ==
  LET f == Head(events).file
  IN /\ phase = "watch"
     /\ parsed = Nothing
     /\ events # <<>>
     /\ Head(events).kind = "write"
     /\ f \notin debounce
     /\ events' = Tail(events)
     /\ debounce' = debounce \cup {Head(events)}
     /\ parsed' = [parsed EXCEPT ![f] = disk[f]]
     /\ UNCHANGED <<disk, index, phase, scan, items, missed>>

HandleWrite ==
  LET f == Head(events).file
  IN /\ phase = "watch"
     /\ parsed = Nothing
     /\ events # <<>>
     /\ Head(events).kind = "write"
     /\ f \notin debounce
     /\ events' = Tail(events)
     /\ debounce' = debounce \cup {f}
     /\ UNCHANGED <<disk, index, phase, scan, items>>
     /\ \/ /\ parsed' = [parsed EXCEPT ![f] = disk[f]]
           /\ UNCHANGED missed
        \/ /\ missed' = missed \cup {f}
           /\ UNCHANGED parsed

\* Two seconds pass.
Quiet(f) ==
  /\ f \in debounce
  /\ debounce' = debounce \ {f}
  /\ UNCHANGED <<disk, index, phase, scan, parsed, events, items, missed>>

\* syncState, after the scan and at every tick: the item is read from the
\* state service, and stored when the service's lock is long released.  The
\* document of an item that is gone stays.
SyncRead ==
  /\ phase \in {"scanned", "watch", "blind"}
  /\ held = 0
  /\ item # 0
  /\ held' = item
  /\ UNCHANGED <<disk, index, phase, scan, parsed, events, debounce, item, itemDoc, missed>>

FaultySyncStore ==
  /\ held # 0
  /\ itemDoc' = IF itemDoc = 0 THEN held ELSE itemDoc
  /\ held' = 0
  /\ UNCHANGED <<disk, index, phase, scan, parsed, events, debounce, item, missed>>

SyncStore ==
  /\ held # 0
  /\ itemDoc' = held
  /\ held' = 0
  /\ UNCHANGED <<disk, index, phase, scan, parsed, events, debounce, item, missed>>

\* Tried again at the next tick.
SyncFails ==
  /\ held # 0
  /\ held' = 0
  /\ UNCHANGED <<disk, index, phase, scan, parsed, events, debounce, item, itemDoc, missed>>

\* The context is cancelled or the server crashes: what is queued or held is
\* gone, and nobody watches until the next scan.
Stop ==
  /\ phase # "off"
  /\ phase' = "off"
  /\ existing' = {}
  /\ walk' = [f \in File |-> "passed"]
  /\ parsed' = Nothing
  /\ events' = <<>>
  /\ debounce' = {}
  /\ held' = 0
  /\ UNCHANGED <<disk, index, item, itemDoc>>
  /\ missed' = missed \cup {f \in File : index[f] # disk[f]}

Walk == \E f \in File : ListName(f) \/ ReadListed(f) \/ Prune(f) \/ PruneFails(f)
Store == \E f \in File : StoreParsed(f) \/ StoreFails(f)
Scan == Walk \/ EndWalk \/ EndScan \/ StartWatcher
Watch == SkipEvent \/ HandleRemove \/ HandleWrite
Indexer == Scan \/ Store \/ Watch

Environment ==
  \/ \E f \in File, v \in Version : Edit(f, v)
  \/ \E v \in Version : ChangeItem(v)
  \/ Begin
  \/ Stop

Sync == SyncRead \/ SyncStore \/ SyncFails

Next == Indexer \/ Sync \/ Environment \/ \E f \in File : Quiet(f)

Spec == Init /\ [][Next]_vars

\* Both goroutines go on, and the store does not fail an item at every tick.
\* Nobody has to start or stop the server, and any event may come within two
\* seconds of another.
FairSpec == Spec /\ WF_vars(Indexer) /\ WF_vars(SyncRead) /\ SF_vars(SyncStore)

-----------------------------------------------------------------------------
(***************************************************************************)
(* Properties                                                              *)
(***************************************************************************)
\* Whatever changed while the server was down, its next scan puts right; and
\* later a document is out of date only while the scan has yet to come to the
\* file, an event of it is queued, or its new content is about to be stored.
\* The exceptions are missed: files changed behind the scan or between it and
\* the watcher, in a directory nobody watches, or with the queue full; whose
\* last event the debounce swallowed; that could not be read, stored or
\* removed; and those gone with a document IndexedPaths did not return, as the
\* scan goes on without it.  No other order of edits, scan, events and reads
\* leaves a stale document behind.
StaleHasCause ==
  \A f \in File : index[f] # disk[f] =>
    \/ f \in missed
    \/ ScanAhead(f, disk[f])
    \/ Pending(f, events)
    \/ parsed[f] # 0 /\ parsed[f] = disk[f]

\* indexer.go: "keeping the knowledge store up to date": once nothing is
\* edited and the server goes on running, every document is that of its file,
\* or the file is one of those missed.
SettlesUnlessMissed ==
  <>[](phase # "off") /\ <>[][FALSE]_disk =>
    <>[](\A f \in File : f \notin missed => index[f] = disk[f])

\* indexer.go: "It also periodically syncs session notes and completed tasks":
\* an item that stays in the state of a running server gets its document, and
\* keeps it, whatever was read of it or stored before.
ItemsAreIndexed ==
  \A v \in Version \ {0} :
    <>[](item = v /\ phase \in {"scanned", "watch", "blind"}) => <>[](itemDoc = v)

=============================================================================

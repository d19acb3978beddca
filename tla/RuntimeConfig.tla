--------------------------- MODULE RuntimeConfig ---------------------------
(***************************************************************************)
(* The runtime configuration on its way from the database to a subscriber: *)
(* the watcher of watcher.go, which polls (SQLite) or listens for          *)
(* notifications (PostgreSQL), the store of runtime.go, and the channel of *)
(* the one subscriber, which main.go makes after it started the watcher.   *)
(*                                                                         *)
(* A snapshot is reduced to the SMPP upstreams, the part the subscriber    *)
(* uses: the configuration of each active upstream, NoConfig for one that  *)
(* is inactive or missing.                                                 *)
(***************************************************************************)
EXTENDS Naturals, Sequences

CONSTANTS
    Names, Configs, NoConfig,
    Drivers,       \* database drivers tried, of "postgres" and "sqlite"
    Buffer,        \* capacity of the subscriber's channel
    MaxChanges,    \* bound: changes of the configuration
    MaxFailures    \* bound: failures of the database

VARIABLES
    driver,
    db,            \* the configuration in the database
    changes, failures,
    listening,     \* the watcher's connection has executed LISTEN
    notified,      \* notifications its connection has not delivered yet
    watcher,       \* Watcher.Run
    store,         \* RuntimeStore.snapshot
    main,          \* where main is with Subscribe, and the snapshot it copied there
    queue,         \* the subscriber's channel
    missed,        \* history: a change since the last load that will not cause a load
    lost           \* history: the channel did not get the newest snapshot last

Snapshot == [Names -> Configs \cup {NoConfig}]

watch == <<listening, notified, watcher>>
subscription == <<main, queue>>
config == <<driver, db, changes, failures, watch, store, subscription, missed, lost>>

ASSUME RuntimeConstants ==
    /\ Drivers \subseteq {"postgres", "sqlite"}
    /\ Buffer \in Nat \ {0} /\ MaxChanges \in Nat /\ MaxFailures \in Nat
    /\ NoConfig \notin Configs

WatcherState == [pc : {"startup", "loaded", "send", "wait", "pause", "dead"},
                 snap : Snapshot, first : BOOLEAN, subscribed : BOOLEAN]
MainState == [pc : {"start", "send", "subscribed"}, snap : Snapshot]

ConfigTypeOK ==
    /\ driver \in Drivers
    /\ db \in Snapshot /\ store \in Snapshot
    /\ changes \in Nat /\ failures \in Nat /\ notified \in Nat
    /\ listening \in BOOLEAN
    /\ watcher \in WatcherState /\ main \in MainState
    /\ queue \in Seq(Snapshot) /\ Len(queue) <= Buffer
    /\ missed \in BOOLEAN /\ lost \in BOOLEAN

\* main loaded the first snapshot, put it in the store and started the watcher.
ConfigInit ==
    /\ driver \in Drivers
    /\ db \in Snapshot /\ store = db
    /\ changes = 0 /\ failures = 0
    /\ listening = FALSE /\ notified = 0
    /\ watcher = [pc |-> "startup", snap |-> db, first |-> TRUE, subscribed |-> FALSE]
    /\ main = [pc |-> "start", snap |-> db]
    /\ queue = <<>>
    /\ missed = FALSE /\ lost = FALSE

----------------------------------------------------------------------------
(* The database *)

\* An upstream is created, changed, switched on or off, or deleted; the trigger
\* notifies the connections that listen at this moment.
ChangeConfig(n, c) ==
    /\ changes < MaxChanges /\ db[n] # c
    /\ changes' = changes + 1
    /\ db' = [db EXCEPT ![n] = c]
    /\ notified' = IF listening THEN notified + 1 ELSE notified
    /\ missed' = (missed \/ (driver = "postgres" /\ ~listening))
    /\ UNCHANGED <<driver, failures, listening, watcher, store, subscription, lost>>

----------------------------------------------------------------------------
(* The watcher *)

Go(pc) == watcher' = [watcher EXCEPT !.pc = pc]

\* What wakes it: its start, a tick of the poll, or a notification.
Wakes ==
    \/ watcher.pc = "startup" /\ UNCHANGED notified
    \/ watcher.pc = "wait" /\ driver = "sqlite" /\ UNCHANGED notified
    \/ watcher.pc = "wait" /\ listening /\ notified > 0 /\ notified' = notified - 1

LoadRuntimeSnapshot ==
    /\ Wakes
    /\ watcher' = [watcher EXCEPT !.pc = "loaded", !.snap = db, !.first = watcher.pc = "startup"]
    /\ missed' = FALSE
    /\ UNCHANGED <<driver, db, changes, failures, listening, store, subscription, lost>>

\* A failed load ends the watcher at its start; later it is logged, and only a
\* poll or another notification tries again.
LoadFails ==
    /\ failures < MaxFailures
    /\ failures' = failures + 1
    /\ Wakes
    /\ Go(IF watcher.pc = "startup" THEN "dead" ELSE "wait")
    /\ missed' = (missed \/ driver = "postgres")
    /\ UNCHANGED <<driver, db, changes, listening, store, subscription, lost>>

AfterReload == IF watcher.first /\ driver = "postgres" THEN "pause" ELSE "wait"

NothingNew ==
    /\ watcher.pc = "loaded" /\ watcher.snap = store
    /\ Go(AfterReload)
    /\ UNCHANGED <<driver, db, changes, failures, listening, notified, store, subscription, missed, lost>>

\* Replace: the snapshot and the list of subscribers under the lock ...
Replace ==
    /\ watcher.pc = "loaded" /\ watcher.snap # store
    /\ store' = watcher.snap
    /\ watcher' = [watcher EXCEPT !.pc = "send", !.subscribed = main.pc # "start"]
    /\ UNCHANGED <<driver, db, changes, failures, listening, notified, subscription, missed, lost>>

\* Mutant: the send does not look for room.
SendAnyway ==
    /\ watcher.pc = "send"
    /\ Go(AfterReload)
    /\ queue' = IF watcher.subscribed THEN Append(queue, watcher.snap) ELSE queue
    /\ UNCHANGED <<driver, db, changes, failures, listening, notified, store, main, missed, lost>>

\* ... and then a send that does not block: a full channel keeps the old ones.
SendOrDrop ==
    /\ watcher.pc = "send"
    /\ Go(AfterReload)
    /\ LET room == Len(queue) < Buffer IN
       /\ queue' = IF watcher.subscribed /\ room THEN Append(queue, watcher.snap) ELSE queue
       /\ lost' = IF watcher.subscribed THEN ~room ELSE lost
    /\ UNCHANGED <<driver, db, changes, failures, listening, notified, store, main, missed>>

\* PostgreSQL: connect and LISTEN.  What changed since the last load is not loaded.
Listen ==
    /\ driver = "postgres" /\ watcher.pc = "pause"
    /\ listening' = TRUE /\ notified' = 0
    /\ Go("wait")
    /\ UNCHANGED <<driver, db, changes, failures, store, subscription, missed, lost>>

\* The connection fails; its notifications are gone, and the next one is five
\* seconds away.
ListenFails ==
    /\ failures < MaxFailures
    /\ failures' = failures + 1
    /\ driver = "postgres" /\ watcher.pc = "wait"
    /\ listening' = FALSE /\ notified' = 0
    /\ missed' = (missed \/ notified > 0)
    /\ Go("pause")
    /\ UNCHANGED <<driver, db, changes, store, subscription, lost>>

----------------------------------------------------------------------------
(* main subscribes *)

\* The channel is known to Replace from here on; the snapshot is only copied.
\* An empty one is not sent, unless another table has rows.
Subscribe ==
    /\ main.pc = "start"
    /\ \/ main' = [pc |-> "send", snap |-> store] /\ UNCHANGED lost
       \/ /\ \A n \in Names : store[n] = NoConfig
          /\ main' = [pc |-> "subscribed", snap |-> store]
          /\ lost' = TRUE
    /\ UNCHANGED <<driver, db, changes, failures, watch, store, queue, missed>>

\* A send that blocks while the channel is full, behind newer snapshots if any.
SubscribeSends ==
    /\ main.pc = "send" /\ Len(queue) < Buffer
    /\ queue' = Append(queue, main.snap)
    /\ main' = [main EXCEPT !.pc = "subscribed"]
    /\ lost' = (main.snap # store)
    /\ UNCHANGED <<driver, db, changes, failures, watch, store, missed>>

\* The subscriber takes the oldest snapshot; the caller says what it does with it.
Receive ==
    /\ main.pc = "subscribed" /\ queue # <<>>
    /\ queue' = Tail(queue)
    /\ UNCHANGED <<driver, db, changes, failures, watch, store, main, missed, lost>>

WatcherStep == LoadRuntimeSnapshot \/ NothingNew \/ Replace \/ SendOrDrop \/ Listen

ConfigNext ==
    \/ \E n \in Names, c \in Configs \cup {NoConfig} : ChangeConfig(n, c)
    \/ WatcherStep \/ LoadFails \/ ListenFails

\* Subscribe waits for ever for room in a channel nobody reads yet.
MainBlocked == main.pc = "send" /\ Len(queue) = Buffer
=============================================================================

---- MODULE LiveView ----
(***************************************************************************)
(* How a page of the dashboard follows the database: a trigger's NOTIFY,   *)
(* the replica's one listener and its bounded queue (store/notify.go), the *)
(* hub and a stream's bounded buffer (webapi/hub.go), the browser's        *)
(* EventSource and the resource a page loads (web/src/lib).                *)
(*                                                                         *)
(* An event only says that something changed: the page fetches it again.   *)
(* Every place where events can be lost, a full queue or buffer, a         *)
(* listener or a stream that was down, owes the page a resync, which says  *)
(* the same.  One page with one resource stands for them all: an event is   *)
(* of a row the page shows or of another one, which fills the queue and    *)
(* the buffer all the same.  What the page shows is the version of its     *)
(* rows it was read from.  The debounce of the page's refetches is the     *)
(* delay between an event and the fetch.                                   *)
(***************************************************************************)
EXTENDS Integers, Sequences

CONSTANTS ListenBufferSize, \* notifications that wait for the hub
          ClientBuffer,     \* events that wait for a stream
          LoadsAtOnce,      \* fetches of the page under way, to bound the model
          LiveBounds        \* what may happen in a behaviour

\* Changes of the page's rows and of others, listeners and streams that break, loads that fail.
LiveBound == [changes : Nat, others : Nat, cuts : Nat, breaks : Nat, errors : Nat]

ASSUME LiveAssumption ==
    /\ ListenBufferSize \in Nat \ {0} /\ ClientBuffer \in Nat \ {0} /\ LoadsAtOnce \in Nat \ {0}
    /\ LiveBounds \subseteq LiveBound

VARIABLES
    version,  \* of the page's rows in the database
    conn,     \* the listener's connection: never yet up, up or down
    wire,     \* events Postgres sent on it that are still unread
    queue,    \* callbacks waiting for the consumer
    dropping, \* the last notification was dropped
    stream,   \* the page's event stream, as hub.client, or Closed
    page,     \* what the page shows, and whether a refetch is due
    loads,    \* the fetches under way
    unheard,  \* history: the last change came before the listener first listened
    chances   \* what may still happen

listenVars == <<conn, wire, queue, dropping>>
pageVars   == <<page, loads>>
liveVars   == <<version, listenVars, stream, pageVars, unheard, chances>>

Closed   == [open |-> FALSE, events |-> <<>>, resync |-> FALSE]
Unloaded == -1
Event    == {"mine", "other"}

LiveTypeOK ==
    /\ version \in Nat
    /\ conn \in {"never", "up", "down"} /\ wire \in Seq(Event) /\ (conn # "up" => wire = <<>>)
    /\ queue \in Seq(Event \cup {"resync"}) /\ Len(queue) <= ListenBufferSize
    /\ dropping \in BOOLEAN
    /\ stream.open \in BOOLEAN /\ stream.resync \in BOOLEAN
    /\ stream.events \in Seq(Event) /\ Len(stream.events) <= ClientBuffer
    /\ ~stream.open => stream = Closed
    /\ page \in [shown : {Unloaded} \cup 0..version, error : BOOLEAN, due : BOOLEAN]
    /\ loads \in Seq([read : {Unloaded} \cup 0..version, newest : BOOLEAN]) /\ Len(loads) <= LoadsAtOnce
    /\ unheard \in BOOLEAN /\ chances \in LiveBound

\* A page that is about to load, and one that has just loaded.
Blank   == [shown |-> Unloaded, error |-> FALSE, due |-> TRUE]
Standing == [shown |-> 0, error |-> FALSE, due |-> FALSE]

LiveInit ==
    /\ version = 0
    /\ conn = "never" /\ wire = <<>> /\ queue = <<>> /\ dropping = FALSE
    /\ stream = Closed
    /\ page \in {Blank, Standing} /\ loads = <<>>
    /\ unheard = FALSE /\ chances \in LiveBounds

Chance(what) == chances[what] > 0 /\ chances' = [chances EXCEPT ![what] = @ - 1]

\* A row the page shows changes, or another one; the notification reaches a
\* listener that listens, and nobody else.
ChangeRow(row) ==
    /\ Chance(IF row = "mine" THEN "changes" ELSE "others")
    /\ version' = IF row = "mine" THEN version + 1 ELSE version
    /\ wire' = IF conn = "up" THEN Append(wire, row) ELSE wire
    /\ unheard' = IF row = "mine" THEN conn = "never" /\ stream.open ELSE unheard
    /\ UNCHANGED <<conn, queue, dropping, stream, pageVars>>

-----------------------------------------------------------------------------
(* The listener. *)

Full == Len(queue) = ListenBufferSize

\* The queue after a resync was put in, for the oldest of a full one.
EnqueueReconnect == Append(IF Full THEN Tail(queue) ELSE queue, "resync")

\* Every connection after the first owes a resync.
Connect ==
    /\ conn # "up"
    /\ conn' = "up" /\ dropping' = FALSE
    /\ queue' = IF conn = "down" THEN EnqueueReconnect ELSE queue
    /\ UNCHANGED <<version, wire, stream, pageVars, unheard, chances>>

Disconnect ==
    /\ conn = "up" /\ Chance("cuts")
    /\ conn' = "down" /\ wire' = <<>>
    /\ UNCHANGED <<version, queue, dropping, stream, pageVars, unheard>>

DropSilently == queue
DropResyncs  == IF dropping THEN queue ELSE EnqueueReconnect

\* deliver: one notification is queued, or dropped; the first of a run of
\* drops owes a resync.
Deliver1 ==
    /\ wire # <<>>
    /\ wire' = Tail(wire)
    /\ queue' = IF Full THEN DropResyncs ELSE Append(queue, Head(wire))
    /\ dropping' = Full
    /\ UNCHANGED <<version, conn, stream, pageVars, unheard, chances>>

-----------------------------------------------------------------------------
(* The hub. *)

\* publish and resyncAll, on the consumer's goroutine.  A stream too far
\* behind to take an event takes a resync.
Publish1 ==
    /\ queue # <<>>
    /\ queue' = Tail(queue)
    /\ stream' = IF ~stream.open THEN stream
                 ELSE IF Head(queue) # "resync" /\ Len(stream.events) < ClientBuffer
                 THEN [stream EXCEPT !.events = Append(@, Head(queue))]
                 ELSE [stream EXCEPT !.resync = TRUE]
    /\ UNCHANGED <<version, conn, wire, dropping, pageVars, unheard, chances>>

\* A frame reaches the page: a resync, which makes the events still buffered
\* redundant, or one event.
ServeFrame ==
    /\ \/ /\ stream.resync
          /\ stream' = [stream EXCEPT !.resync = FALSE, !.events = <<>>]
          /\ page' = [page EXCEPT !.due = TRUE]
       \/ /\ stream.events # <<>>
          /\ stream' = [stream EXCEPT !.events = Tail(@)]
          /\ page' = IF Head(stream.events) = "mine" THEN [page EXCEPT !.due = TRUE] ELSE page
    /\ UNCHANGED <<version, listenVars, loads, unheard, chances>>

\* The browser connects, and every stream opens with a resync.
OpenStream ==
    /\ ~stream.open
    /\ stream' = [Closed EXCEPT !.open = TRUE]
    /\ page' = [page EXCEPT !.due = TRUE]
    /\ unheard' = FALSE
    /\ UNCHANGED <<version, listenVars, loads, chances>>

\* The network cuts it, its session ends or its replica stops, with what it
\* had buffered; the listener of the replica reached next is like this one.
BreakStream ==
    /\ stream.open /\ Chance("breaks")
    /\ stream' = Closed
    /\ UNCHANGED <<version, listenVars, pageVars, unheard>>

-----------------------------------------------------------------------------
(* The page. *)

Refetch ==
    /\ page.due /\ Len(loads) < LoadsAtOnce
    /\ page' = [page EXCEPT !.due = FALSE]
    /\ loads' = Append([i \in DOMAIN loads |-> [loads[i] EXCEPT !.newest = FALSE]],
                       [read |-> Unloaded, newest |-> TRUE])
    /\ UNCHANGED <<version, listenVars, stream, unheard, chances>>

Without(i) == SubSeq(loads, 1, i - 1) \o SubSeq(loads, i + 1, Len(loads))

ReadRow(i) ==
    /\ loads[i].read = Unloaded
    /\ loads' = [loads EXCEPT ![i].read = version]
    /\ UNCHANGED <<version, listenVars, stream, page, unheard, chances>>

KeepsAny(load) == TRUE
\* A load that finishes after a newer one started is dropped.
Keeps(load) == load.newest

Loaded(i) ==
    /\ loads[i].read # Unloaded
    /\ page' = IF Keeps(loads[i]) THEN [page EXCEPT !.shown = loads[i].read, !.error = FALSE] ELSE page
    /\ loads' = Without(i)
    /\ UNCHANGED <<version, listenVars, stream, unheard, chances>>

\* The page says so, and still shows what it did.
LoadFails(i) ==
    /\ Chance("errors")
    /\ page' = IF Keeps(loads[i]) THEN [page EXCEPT !.error = TRUE] ELSE page
    /\ loads' = Without(i)
    /\ UNCHANGED <<version, listenVars, stream, unheard>>

-----------------------------------------------------------------------------
Listening == Connect \/ Deliver1
Loading   == \E i \in DOMAIN loads : ReadRow(i) \/ Loaded(i)

LiveNext ==
    \/ \E row \in Event : ChangeRow(row)
    \/ Disconnect \/ BreakStream
    \/ Listening \/ Publish1 \/ ServeFrame \/ OpenStream
    \/ Refetch \/ Loading
    \/ \E i \in DOMAIN loads : LoadFails(i)

\* Each goroutine, and the browser, goes on for ever.
LiveFairness ==
    /\ WF_liveVars(Listening) /\ WF_liveVars(Publish1) /\ WF_liveVars(ServeFrame)
    /\ WF_liveVars(OpenStream) /\ WF_liveVars(Refetch) /\ WF_liveVars(Loading)

LiveSpec == LiveInit /\ [][LiveNext]_liveVars /\ LiveFairness

-----------------------------------------------------------------------------
(* Properties *)

\* A page does not "go on serving stale state indefinitely" (notify.go): in
\* the end it shows the database as it is, or that it could not be loaded,
\* whatever was dropped from a full queue or buffer, sent to a listener or a
\* stream that was down, or overtaken by a newer load.  Left out is a change
\* under an open stream before its replica's listener first listened, for
\* which nobody owes a resync.
PageCatchesUp == <>[](page.shown = version \/ page.error \/ unheard)
====

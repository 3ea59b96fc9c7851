------------------------------ MODULE EventHub ------------------------------
(***************************************************************************)
(* The live view of one run: the run's emitter and the hub that buffers    *)
(* and broadcasts its events (api/internal/event), the WebSocket handler   *)
(* of a viewer (api/internal/handler/ws.go) and the browser tab that shows *)
(* the events and reconnects (web/src/hooks/use-run-events.ts).            *)
(*                                                                         *)
(* An event is its sequence number.  One tab is enough: tabs share nothing *)
(* but the broadcast loop.  Its connections are numbered, and an old one   *)
(* may still be served while the next one is open.                         *)
(***************************************************************************)
EXTENDS Integers, Sequences, SequencesExt, SeqFilter

CONSTANTS
  MaxEvents,              \* the length of the run's event stream
  BufferCap,              \* maxBufferedEvents
  SendCap,                \* clientSendBuffer
  MaxConns,               \* bound: connections the tab gets
  MaxRetries,             \* failed connection attempts before it gives up
  MayExpire               \* bound: whether the buffer's 30 minutes may pass

ASSUME HubAssumption ==
  /\ MaxEvents \in Nat /\ MaxConns \in Nat /\ MaxRetries \in Nat
  /\ BufferCap \in Nat \ {0} /\ SendCap \in Nat \ {0}
  /\ MayExpire \in BOOLEAN

Conn == 1 .. MaxConns

VARIABLES
  seq,                    \* RunEmitter.seq: the events emitted so far
  sending,                \* clients the broadcast of event seq still visits
  buffer,                 \* Hub.buffers[run].events
  expired,                \* Hub.buffers[run].expiresAt has passed
  room,                   \* Hub.rooms[run]
  stage,                  \* how far the handler of a connection is
  queue,                  \* Client.send of a connection
  wire,                   \* messages sent to the tab and not received yet
  tab,                    \* "connecting" | "open" | "failed" | "left"
  conn,                   \* the tab's latest connection, 0 before the first
  retries,                \* retriesRef
  shown                   \* the events the tab shows, in its order

vars == <<seq, sending, buffer, expired, room, stage, queue, wire, tab, conn,
          retries, shown>>
run == <<seq, sending>>
hub == <<buffer, expired, room>>
handler == <<stage, queue>>
viewer == <<tab, conn, retries, shown>>

Connected(events) == [type |-> "connected", events |-> events]
Live(e) == [type |-> "event", events |-> <<e>>]

Init ==
  /\ seq = 0 /\ sending = {}
  /\ buffer = << >> /\ expired = FALSE /\ room = {}
  /\ stage = [c \in Conn |-> "none"]
  /\ queue = [c \in Conn |-> << >>]
  /\ wire = [c \in Conn |-> << >>]
  /\ tab = "connecting" /\ conn = 0 /\ retries = 0 /\ shown = << >>

-----------------------------------------------------------------------------
(* The run's goroutine.                                                    *)

Buffered == IF Len(buffer) < BufferCap THEN Append(buffer, seq + 1) ELSE buffer

(* Emit, and Broadcast up to the unlock: buffer the event, copy the room.  *)
Emit ==
  /\ seq < MaxEvents
  /\ sending = {}
  /\ seq' = seq + 1
  /\ buffer' = Buffered
  /\ expired' = FALSE
  /\ sending' = room
  /\ UNCHANGED <<room, handler, wire, viewer>>

Push(c) == queue' = [queue EXCEPT ![c] = Append(@, seq)]

SendTo_blocking(c) ==
  /\ c \in sending
  /\ sending' = sending \ {c}
  /\ Len(queue[c]) < SendCap
  /\ Push(c)
  /\ UNCHANGED <<seq, hub, stage, wire, viewer>>

(* The select per client: queue the event, or drop it when the queue is    *)
(* full or the client is done (when both would do, either may happen).     *)
SendTo(c) ==
  /\ c \in sending
  /\ sending' = sending \ {c}
  /\ \/ Len(queue[c]) < SendCap /\ Push(c)
     \/ (Len(queue[c]) = SendCap \/ stage[c] = "done") /\ UNCHANGED queue
  /\ UNCHANGED <<seq, hub, stage, wire, viewer>>

-----------------------------------------------------------------------------
(* The handler of a connection and its write pump.                         *)

Join(c) ==
  /\ stage[c] = "accepted"
  /\ stage' = [stage EXCEPT ![c] = "joined"]
  /\ room' = room \cup {c}
  /\ UNCHANGED <<run, buffer, expired, queue, wire, viewer>>

CatchUp(c) ==
  /\ stage[c] = "joined"
  /\ stage' = [stage EXCEPT ![c] = "pumping"]
  /\ wire' = [wire EXCEPT ![c] =
                Append(@, Connected(IF expired THEN << >> ELSE buffer))]
  /\ UNCHANGED <<run, hub, queue, viewer>>

JoinLate(c) ==
  /\ stage[c] = "joined"
  /\ stage' = [stage EXCEPT ![c] = "pumping"]
  /\ room' = room \cup {c}
  /\ UNCHANGED <<run, buffer, expired, queue, wire, viewer>>

CatchUpEarly(c) ==
  /\ stage[c] = "accepted"
  /\ stage' = [stage EXCEPT ![c] = "joined"]
  /\ wire' = [wire EXCEPT ![c] =
                Append(@, Connected(IF expired THEN << >> ELSE buffer))]
  /\ UNCHANGED <<run, hub, queue, viewer>>

(* Subscribe first, then send what is buffered and start the pump.         *)
Handshake_swapped(c) == CatchUpEarly(c) \/ JoinLate(c)
Handshake(c) == Join(c) \/ CatchUp(c)

Pump(c) ==
  /\ stage[c] = "pumping"
  /\ queue[c] # << >>
  /\ wire' = [wire EXCEPT ![c] = Append(@, Live(Head(queue[c])))]
  /\ queue' = [queue EXCEPT ![c] = Tail(@)]
  /\ UNCHANGED <<run, hub, stage, viewer>>

Broken(c) == stage[c] # "none" /\ (c < conn \/ tab # "open")

Unsubscribe_room(c) ==
  /\ stage[c] = "pumping"
  /\ Broken(c)
  /\ stage' = [stage EXCEPT ![c] = "done"]
  /\ room' = {}
  /\ UNCHANGED <<run, buffer, expired, queue, wire, viewer>>

(* The read loop notices that the tab is gone.                             *)
Unsubscribe(c) ==
  /\ stage[c] = "pumping"
  /\ Broken(c)
  /\ stage' = [stage EXCEPT ![c] = "done"]
  /\ room' = room \ {c}
  /\ UNCHANGED <<run, buffer, expired, queue, wire, viewer>>

(* Half an hour without an event passes only when no goroutine is midway.  *)
Expire ==
  /\ MayExpire
  /\ seq > 0 /\ ~ expired
  /\ sending = {}
  /\ \A c \in Conn : stage[c] # "joined"
  /\ expired' = TRUE
  /\ UNCHANGED <<run, buffer, room, handler, wire, viewer>>

Cleanup ==
  /\ expired
  /\ buffer # << >>
  /\ buffer' = << >>
  /\ UNCHANGED <<run, expired, room, handler, wire, viewer>>

-----------------------------------------------------------------------------
(* The browser tab.                                                        *)

Open ==
  /\ tab = "connecting"
  /\ conn < MaxConns
  /\ conn' = conn + 1
  /\ tab' = "open"
  /\ retries' = 0
  /\ stage' = [stage EXCEPT ![conn'] = "accepted"]
  /\ UNCHANGED <<run, hub, queue, wire, shown>>

(* onclose: of an open connection, or of an attempt that came to nothing.  *)
Close ==
  /\ tab \in {"connecting", "open"}
  /\ IF retries < MaxRetries
       THEN tab' = "connecting" /\ retries' = retries + 1
       ELSE tab' = "failed" /\ UNCHANGED retries
  /\ UNCHANGED <<run, hub, handler, wire, conn, shown>>

Leave ==
  /\ tab # "left"
  /\ tab' = "left"
  /\ UNCHANGED <<run, hub, handler, wire, conn, retries, shown>>

(* Sorted by sequence number: the events that are 1, those that are 2, ... *)
Ascending(s) ==
  LET upTo[e \in 0 .. MaxEvents] ==
        IF e = 0 THEN << >> ELSE upTo[e - 1] \o Filter(s, {e})
  IN upTo[MaxEvents]

Merge_all(events) == Ascending(shown \o events)
Merge_unsorted(events) == shown \o Filter(events, (1 .. MaxEvents) \ ToSet(shown))
Merge(events) ==
  LET fresh == Filter(events, (1 .. MaxEvents) \ ToSet(shown))
  IN IF fresh = << >> THEN shown ELSE Ascending(shown \o fresh)

(* onmessage: buffered events are merged, a live one is simply appended.   *)
Receive ==
  /\ tab = "open"
  /\ wire[conn] # << >>
  /\ LET msg == Head(wire[conn])
     IN shown' = IF msg.type = "connected" THEN Merge(msg.events)
                                           ELSE shown \o msg.events
  /\ wire' = [wire EXCEPT ![conn] = Tail(@)]
  /\ UNCHANGED <<run, hub, handler, tab, conn, retries>>

-----------------------------------------------------------------------------

Next ==
  \/ Emit
  \/ \E c \in Conn : SendTo(c) \/ Handshake(c) \/ Pump(c) \/ Unsubscribe(c)
  \/ Expire
  \/ Cleanup
  \/ Open
  \/ Close
  \/ Leave
  \/ Receive

(* Goroutines that can run are scheduled and a connection delivers; when   *)
(* the tab connects, closes or leaves is up to the network and the user.   *)
Fairness ==
  /\ WF_vars(Emit)
  /\ \A c \in Conn : WF_vars(SendTo(c)) /\ WF_vars(Handshake(c)) /\ WF_vars(Pump(c))
  /\ WF_vars(Receive)

Spec == Init /\ [][Next]_vars /\ Fairness

-----------------------------------------------------------------------------

Message == [type : {"connected", "event"}, events : Seq(1 .. MaxEvents)]

TypeOK ==
  /\ seq \in 0 .. MaxEvents
  /\ sending \subseteq Conn
  /\ buffer \in Seq(1 .. MaxEvents) /\ Len(buffer) <= BufferCap
  /\ expired \in BOOLEAN
  /\ room \subseteq Conn
  /\ stage \in [Conn -> {"none", "accepted", "joined", "pumping", "done"}]
  /\ queue \in [Conn -> Seq(1 .. MaxEvents)]
  /\ \A c \in Conn : Len(queue[c]) <= SendCap
  /\ wire \in [Conn -> Seq(Message)]
  /\ tab \in {"connecting", "open", "failed", "left"}
  /\ conn \in 0 .. MaxConns
  /\ retries \in 0 .. MaxRetries
  /\ shown \in Seq(1 .. MaxEvents)

(* Everything sent to the tab's connection has arrived.                    *)
Drained ==
  /\ tab = "open"
  /\ stage[conn] = "pumping"
  /\ wire[conn] = << >> /\ queue[conn] = << >> /\ conn \notin sending

(* A tab that joins or rejoins at any moment misses nothing: between the   *)
(* buffered events and the live ones there is no gap, as long as no limit  *)
(* of the hub (buffer size, queue size, expiry) is met.                    *)
NoGap == Drained => ToSet(shown) = 1 .. seq

(* Drops and reconnects may lose or repeat events, but an event shown for  *)
(* the first time is never older than one already shown: whatever is out   *)
(* of order in the tab is a repetition.                                    *)
OnlyRepeatsOutOfOrder ==
  \A i, j \in DOMAIN shown :
    i < j /\ shown[j] < shown[i] => \E k \in 1 .. i : shown[k] = shown[j]

(* However often the tab reconnects, it shows an event at most twice: once *)
(* as buffered and once as live, when it was emitted in between.           *)
ShownAtMostTwice ==
  \A i, j, k \in DOMAIN shown :
    i < j /\ j < k => ~ (shown[i] = shown[j] /\ shown[j] = shown[k])

(* No viewer, slow, stuck or gone, keeps the run from emitting its events. *)
NeverBlocksRun == <>(seq = MaxEvents /\ sending = {})

(* A tab whose connection lasts sees the run to its end.                   *)
SeesTheEnd ==
  <>[](tab = "open") => <>(ToSet(shown) = 1 .. MaxEvents)

(* Reconnects disorder what the tab shows in one way only: an event it has *)
(* already shown is shown once more.                                       *)
RepeatsBounded == OnlyRepeatsOutOfOrder /\ ShownAtMostTwice
=============================================================================
